-------------------------- MODULE QuickPadTemplates --------------------------
(***************************************************************************)
(* The templates of the on-screen pad (src/web/stream.ts, QuickPadOverlay):*)
(* a row of slots in the browser's storage, each with a layout, a lock and *)
(* a favorite mark, and the preset of the app.  One of them is applied     *)
(* when the page begins.  Every operation reads the storage, changes it    *)
(* and writes all of it; a write that fails is not noticed.                *)
(***************************************************************************)
EXTENDS Naturals

CONSTANTS
  Layouts,  \* layouts told apart: the stores of both orientations
  NoLayout, \* no preset is stored
  LastSlot  \* QUICK_PAD_USER_TEMPLATE_SLOT_IDS are 1 .. LastSlot

ASSUME TemplatesAssumption ==
  LastSlot \in Nat \ {0} /\ Layouts # {} /\ NoLayout \notin Layouts

VARIABLES
  templates,  \* the slots, as the storage has them
  preset,     \* the preset of the app, its auto-apply mode
  working,    \* prefsStore of the page, and the template it was taken from
  general     \* the preferences that are stored for every app

templateVars == <<templates, preset, working, general>>

SlotIds == 1 .. LastSlot
Empty == [there |-> FALSE]
Entries == [there : {TRUE}, layout : Layouts, locked : BOOLEAN, favorite : BOOLEAN]
Modes == {"favorite_first", "app_only", "favorite_only", "app_first"}

TemplatesInit ==
  /\ templates = [s \in SlotIds |-> Empty]
  /\ preset = [layout |-> NoLayout, mode |-> "app_first"]
  /\ general \in Layouts
  /\ working = [layout |-> general, from |-> 0]

TemplatesTypeOK ==
  /\ templates \in [SlotIds -> Entries \cup {Empty}]
  /\ preset \in [layout : Layouts \cup {NoLayout}, mode : Modes]
  /\ working \in [layout : Layouts, from : 0 .. LastSlot]
  /\ general \in Layouts

\* normalizeUserTemplateStore: the first favorite keeps its mark.
Normalized(t) ==
  [s \in SlotIds |->
     IF t[s].there /\ t[s].favorite /\ \E r \in 1 .. s - 1 : t[r].there /\ t[r].favorite
     THEN [t[s] EXCEPT !.favorite = FALSE] ELSE t[s]]
\* loadUserTemplateStore
Store == Normalized(templates)
\* persistUserTemplateStore, which may fail for want of space.
Persist(t) == templates' = t \/ templates' = templates

Favorites(t) == {s \in SlotIds : t[s].there /\ t[s].favorite}
Entry(layout, locked, favorite) ==
  [there |-> TRUE, layout |-> layout, locked |-> locked, favorite |-> favorite]
MarkOf(s) == Store[s].there /\ Store[s].favorite
LockedAt(s) == Store[s].there /\ Store[s].locked

SaveTemplate(s) ==
  /\ ~LockedAt(s)
  /\ Persist([Store EXCEPT ![s] = Entry(working.layout, FALSE, MarkOf(s))])
  /\ UNCHANGED <<preset, working, general>>

ImportTemplate(s, layout) ==
  /\ ~LockedAt(s)
  /\ Persist([Store EXCEPT ![s] = Entry(layout, FALSE, MarkOf(s))])
  /\ UNCHANGED <<preset, working, general>>

\* A library of templates replaces all, unless one of them is locked.
ImportStore(t) ==
  /\ \A s \in SlotIds : ~LockedAt(s)
  /\ Persist(Normalized(t))
  /\ UNCHANGED <<preset, working, general>>

SetLocked(s, locked) ==
  /\ Store[s].there
  /\ Persist([Store EXCEPT ![s].locked = locked])
  /\ UNCHANGED <<preset, working, general>>

\* A slip of SetFavorite: the other marks stay.
SetFavoriteToo(s, favorite) ==
  /\ Store[s].there
  /\ Persist([Store EXCEPT ![s].favorite = favorite])
  /\ UNCHANGED <<preset, working, general>>

SetFavorite(s, favorite) ==
  /\ Store[s].there
  /\ Persist([r \in SlotIds |->
                IF r = s THEN [Store[r] EXCEPT !.favorite = favorite]
                ELSE IF favorite /\ Store[r].there
                     THEN [Store[r] EXCEPT !.favorite = FALSE]
                     ELSE Store[r]])
  /\ UNCHANGED <<preset, working, general>>

\* Two neighbours change places, whatever is in the second.
MoveTemplate(s, r) ==
  /\ Store[s].there /\ (r = s - 1 \/ r = s + 1)
  /\ Persist([Store EXCEPT ![s] = Store[r], ![r] = Store[s]])
  /\ UNCHANGED <<preset, working, general>>

\* The copy goes to the first slot that is empty.
DuplicateTemplate(s, r) ==
  /\ Store[s].there /\ ~Store[r].there
  /\ \A q \in 1 .. r - 1 : Store[q].there
  /\ Persist([Store EXCEPT ![r] = Entry(Store[s].layout, FALSE, FALSE)])
  /\ UNCHANGED <<preset, working, general>>

ClearTemplate(s) ==
  /\ ~LockedAt(s) /\ Store[s].there
  /\ Persist([Store EXCEPT ![s] = Empty])
  /\ UNCHANGED <<preset, working, general>>

\* loadUserTemplate is written to the general preferences too.
LoadTemplate(s) ==
  /\ Store[s].there
  /\ working' = [working EXCEPT !.layout = Store[s].layout]
  /\ general' \in {general, Store[s].layout}
  /\ UNCHANGED <<templates, preset>>

\* updatePrefs, importPrefsSnapshot: all of the working store is written.
Edit(layout) ==
  /\ working' = [working EXCEPT !.layout = layout]
  /\ general' \in {general, layout}
  /\ UNCHANGED <<templates, preset>>

SavePreset ==
  /\ preset' \in {preset, [preset EXCEPT !.layout = working.layout]}
  /\ UNCHANGED <<templates, working, general>>

\* loadAppPreset stays in the page.
LoadPreset ==
  /\ preset.layout # NoLayout
  /\ working' = [working EXCEPT !.layout = preset.layout]
  /\ UNCHANGED <<templates, preset, general>>

ClearPreset ==
  /\ preset' = [preset EXCEPT !.layout = NoLayout]
  /\ UNCHANGED <<templates, working, general>>

SetAutoApply(mode) ==
  /\ preset' = [preset EXCEPT !.mode = mode]
  /\ UNCHANGED <<templates, working, general>>

\* loadSavedAppPresetIfPresent, when a page is opened.
Applied ==
  LET favorite == CHOOSE s \in Favorites(Store) : TRUE
      fromFavorite == [layout |-> Store[favorite].layout, from |-> favorite]
      fromApp == [layout |-> preset.layout, from |-> 0]
      hasFavorite == Favorites(Store) # {}
      hasApp == preset.layout # NoLayout
      none == [layout |-> general, from |-> 0]
  IN  CASE preset.mode = "favorite_first" ->
             IF hasFavorite THEN fromFavorite ELSE IF hasApp THEN fromApp ELSE none
        [] preset.mode = "app_only" -> IF hasApp THEN fromApp ELSE none
        [] preset.mode = "favorite_only" -> IF hasFavorite THEN fromFavorite ELSE none
        [] preset.mode = "app_first" ->
             IF hasApp THEN fromApp ELSE IF hasFavorite THEN fromFavorite ELSE none

OpenPage ==
  /\ working' = Applied
  /\ UNCHANGED <<templates, preset, general>>

TemplatesNext ==
  \/ \E s \in SlotIds :
       \/ SaveTemplate(s) \/ ClearTemplate(s) \/ LoadTemplate(s)
       \/ \E layout \in Layouts : ImportTemplate(s, layout)
       \/ \E flag \in BOOLEAN : SetLocked(s, flag) \/ SetFavorite(s, flag)
       \/ \E r \in SlotIds : MoveTemplate(s, r) \/ DuplicateTemplate(s, r)
  \/ \E t \in [SlotIds -> {Empty} \cup Entries] : ImportStore(t)
  \/ \E layout \in Layouts : Edit(layout)
  \/ SavePreset \/ LoadPreset \/ ClearPreset \/ OpenPage
  \/ \E mode \in Modes : SetAutoApply(mode)

TemplatesSpec == TemplatesInit /\ [][TemplatesNext]_templateVars

\* A template that is locked is still there after any operation, in its slot or
\* in the next, with its layout and its mark or without it because another took
\* it; only unlocking gives it up.  And at most one template is the favorite
\* that a page begins with.
LockedKept ==
  \A s \in SlotIds : templates[s].there /\ templates[s].locked =>
    \E r \in {s - 1, s, s + 1} \cap SlotIds :
      /\ templates'[r].there
      /\ templates'[r].layout = templates[s].layout
      /\ templates'[r].locked \/ r = s
TemplatesKept ==
  [][(\A s, r \in Favorites(templates') : s = r) /\ LockedKept]_templateVars
=============================================================================

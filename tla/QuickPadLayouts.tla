--------------------------- MODULE QuickPadLayouts ---------------------------
(***************************************************************************)
(* Editing the extra buttons of the on-screen pad (src/web/stream.ts).     *)
(* There is a layout for each orientation.  The overlay shows the one of   *)
(* the device, and there the selected button is moved by a finger or sized *)
(* by two; its gestures change the layout at once and write it to the      *)
(* browser's storage when they end.  The panel of the sidebar edits either *)
(* orientation, and shares the selection and the mode with the overlay.    *)
(***************************************************************************)
EXTENDS Naturals, FiniteSets

CONSTANTS
  LastLayout,     \* the extra buttons are 1 .. LastSlot
  Orientations, \* portrait, landscape
  NoSlot        \* no button is selected, no gesture has begun

ASSUME LayoutsAssumption ==
  /\ LastLayout \in Nat \ {0} /\ Orientations # {}
  /\ NoSlot \notin 1 .. LastLayout

VARIABLES
  prefsStore, \* the layout of each orientation, as the page has it
  overlay,    \* what the overlay shows and the gesture on it
  panel,      \* the orientation that the panel edits
  written     \* whether the storage has prefsStore, and why it may not (history)

layoutVars == <<prefsStore, overlay, panel, written>>

ButtonSlots == 1 .. LastLayout
\* A layout is told by the buttons that are there.
OverlayButtons == SUBSET ButtonSlots
EditModes == {"off", "move", "resize", "opacity"}
FirstOf(S) == IF S = {} THEN NoSlot ELSE CHOOSE s \in S : \A r \in S : s <= r

LayoutsInit ==
  /\ prefsStore = [o \in Orientations |-> {}]
  /\ overlay \in [orientation : Orientations, prefs : {{}}, visible : {FALSE},
                  selection : {NoSlot}, mode : {"off"}, fingers : {0}, ghosts : {0},
                  pinch : {NoSlot}, drag : {FALSE}]
  /\ panel = overlay.orientation
  /\ written = [all |-> TRUE, excused |-> FALSE]

LayoutsTypeOK ==
  /\ prefsStore \in [Orientations -> OverlayButtons]
  /\ overlay \in [orientation : Orientations, prefs : OverlayButtons, visible : BOOLEAN,
                  selection : ButtonSlots \cup {NoSlot}, mode : EditModes,
                  fingers : 0 .. 2, ghosts : 0 .. 2,
                  pinch : ButtonSlots \cup {NoSlot}, drag : BOOLEAN]
  /\ panel \in Orientations
  /\ written \in [all : BOOLEAN, excused : BOOLEAN]

-----------------------------------------------------------------------------
(* What the operations are made of; v is the overlay.                      *)

\* setCustomButtonEditSelection
Selecting(v, s) ==
  [v EXCEPT !.selection = IF s \in v.prefs THEN s ELSE NoSlot]
\* clearCustomEditGesture, which forgets the fingers.
NoPinch(v) == [v EXCEPT !.fingers = 0, !.ghosts = 0, !.pinch = NoSlot, !.drag = FALSE]
\* setCustomButtonEditMode: a gesture that is cut off is not written.
Editing(v, mode) ==
  LET w == [v EXCEPT !.mode = mode] IN IF mode = "off" THEN NoPinch(w) ELSE w
Deselected(v) == Editing(Selecting(v, NoSlot), "off")

\* applyPrefs
Shown(v, b) ==
  LET w == [v EXCEPT !.prefs = b]
  IN  IF v.selection # NoSlot /\ v.selection \notin b
      THEN [w EXCEPT !.selection = NoSlot, !.mode = "off"] ELSE w

\* persistPrefs may fail, and is not told.
PersistLayout == written' \in {[all |-> TRUE, excused |-> FALSE], [all |-> FALSE, excused |-> TRUE]}
Unwritten == written' = [all |-> FALSE, excused |-> written.excused]
\* A gesture that is cut off may leave the page ahead of the storage.
CutOff ==
  written' = [written EXCEPT !.excused = @ \/ (~written.all /\ overlay'.mode = "off")]

\* updatePrefs
Updated(v, o, b) == IF o = v.orientation THEN Shown(v, b) ELSE v
StoreLayout(o, b) == prefsStore' = [prefsStore EXCEPT ![o] = b]

-----------------------------------------------------------------------------
(* The overlay.                                                            *)

\* setVisible: a gesture on an overlay that is hidden never ends.
SetVisible(visible) ==
  /\ overlay' = [overlay EXCEPT !.visible = visible, !.selection = NoSlot, !.mode = "off",
                   !.fingers = IF visible THEN @ ELSE 0,
                   !.ghosts = IF visible \/ @ + overlay.fingers > 2
                              THEN @ ELSE @ + overlay.fingers]
  /\ CutOff
  /\ UNCHANGED <<prefsStore, panel>>

\* onCustomLayoutPointerDown
PinchDown ==
  /\ overlay.visible /\ overlay.mode \in {"resize", "opacity"}
  /\ overlay.selection # NoSlot /\ overlay.fingers < 2
  /\ overlay' = [overlay EXCEPT !.fingers = @ + 1,
                   !.pinch = IF @ = NoSlot /\ overlay.fingers + 1 + overlay.ghosts >= 2
                             THEN overlay.selection ELSE @]
  /\ UNCHANGED <<prefsStore, panel, written>>

\* onCustomLayoutPointerMove: another size, of the button the gesture began on.
PinchMove ==
  /\ overlay.fingers > 0 /\ overlay.pinch # NoSlot /\ overlay.selection # NoSlot
  /\ overlay.mode \in {"resize", "opacity"}
  /\ Unwritten
  /\ UNCHANGED <<prefsStore, overlay, panel>>

\* onCustomLayoutPointerUp, clearCustomEditGesture(true)
PinchUp ==
  /\ overlay.fingers > 0
  /\ LET v == [overlay EXCEPT !.fingers = @ - 1]
         ends == v.pinch # NoSlot /\ v.fingers + v.ghosts < 2
     IN  /\ overlay' = IF ends THEN NoPinch(Shown(v, v.prefs)) ELSE v
         /\ IF ends THEN StoreLayout(v.orientation, v.prefs) /\ PersistLayout
            ELSE UNCHANGED <<prefsStore, written>>
  /\ UNCHANGED panel

\* The pointerdown of an extra button in an edit mode.
ButtonDown(s) ==
  /\ overlay.visible /\ overlay.mode # "off" /\ s \in overlay.prefs
  /\ IF overlay.selection # s
     THEN overlay' = Selecting(overlay, s) /\ UNCHANGED written
     ELSE /\ overlay.mode = "move"
          /\ overlay' = [overlay EXCEPT !.drag = TRUE]
          /\ Unwritten
  /\ UNCHANGED <<prefsStore, panel>>

\* pointerup, pointercancel and lostpointercapture of the button.
DragEnds ==
  /\ overlay.mode = "move" /\ overlay.drag
  /\ overlay' = [Shown(overlay, overlay.prefs) EXCEPT !.drag = FALSE]
  /\ StoreLayout(overlay.orientation, overlay.prefs)
  /\ PersistLayout
  /\ UNCHANGED panel

\* The inspector of the selected button: its size, label and mode.
InspectorEdit ==
  /\ overlay.selection # NoSlot
  /\ StoreLayout(overlay.orientation, overlay.prefs)
  /\ overlay' = Shown(overlay, overlay.prefs)
  /\ PersistLayout
  /\ UNCHANGED panel

DuplicateSelected ==
  /\ overlay.selection # NoSlot
  /\ LET b == overlay.prefs
         r == FirstOf(ButtonSlots \ b)
     IN  /\ r # NoSlot
         /\ StoreLayout(overlay.orientation, b \cup {r})
         /\ overlay' = Editing(Selecting(Shown(overlay, b \cup {r}), r), "move")
  /\ PersistLayout
  /\ UNCHANGED panel

RemoveSelected ==
  /\ overlay.selection # NoSlot
  /\ LET c == overlay.prefs \ {overlay.selection}
     IN  /\ StoreLayout(overlay.orientation, c)
         /\ overlay' = Deselected(Shown(overlay, c))
  /\ PersistLayout
  /\ UNCHANGED panel

\* closeCustomEditInspector
CloseInspector ==
  /\ overlay.selection # NoSlot /\ overlay.mode # "off"
  /\ overlay' = Deselected(overlay)
  /\ CutOff
  /\ UNCHANGED <<prefsStore, panel>>

\* pad_edit_cycle, pad_edit_toggle and pad_select_all of the native bridge.
BridgeCycle ==
  /\ overlay' = Editing(overlay, CASE overlay.mode = "off" -> "move"
                                   [] overlay.mode = "move" -> "resize"
                                   [] overlay.mode = "resize" -> "opacity"
                                   [] OTHER -> "off")
  /\ CutOff
  /\ UNCHANGED <<prefsStore, panel>>
BridgeToggle ==
  /\ overlay' = Editing(overlay, IF overlay.mode = "off" THEN "move" ELSE "off")
  /\ CutOff
  /\ UNCHANGED <<prefsStore, panel>>
BridgeSelectAll ==
  /\ overlay' = Selecting(overlay, NoSlot)
  /\ UNCHANGED <<prefsStore, panel, written>>

\* onViewportChange: the device is turned, and a gesture goes on.
Turn(o) ==
  /\ o # overlay.orientation
  /\ overlay' = Shown([overlay EXCEPT !.orientation = o], prefsStore[o])
  /\ UNCHANGED <<prefsStore, panel, written>>

\* loadAppPreset, loadUserTemplate, importPrefsSnapshot
LoadStore(store, persisted) ==
  /\ prefsStore' = store
  /\ overlay' = Shown(overlay, store[overlay.orientation])
  /\ IF persisted THEN PersistLayout ELSE written' = [all |-> FALSE, excused |-> TRUE]
  /\ UNCHANGED panel

-----------------------------------------------------------------------------
(* The panel.                                                              *)

\* The layout it edits becomes b, and the overlay v.
PanelUpdate(b, v) ==
  /\ StoreLayout(panel, b)
  /\ overlay' = v
  /\ PersistLayout
  /\ UNCHANGED panel
PanelButtons == prefsStore[panel]
\* The overlay after updatePrefs
Edited(b) == Updated(overlay, panel, b)
Settings == PanelUpdate(PanelButtons, Edited(PanelButtons))

\* The handlers of its sliders and choices, presets among them.
PanelSettings == Settings
ApplyPreset == Settings
ResetLayout(o) ==
  /\ StoreLayout(o, {})
  /\ overlay' = Updated(overlay, o, {})
  /\ PersistLayout
  /\ UNCHANGED panel

\* onQuickPadCustomModeChange, onQuickPadCustomKeyInput, onQuickPadCustomLabelInput
ButtonSettings == PanelButtons # {} /\ Settings
\* The builder's keys, steps and macros go to the button that is its target.
BuildKey == PanelButtons # {} /\ Settings

\* The button of slot s goes, onQuickPadCustomActionChange to "off" and
\* removeQuickPadCustomButton: the overlay's selection goes with its slot,
\* whichever orientation the panel edits.
Unselect(s) ==
  LET b == PanelButtons \ {s}
      v == Edited(b)
  IN  s \in PanelButtons /\ PanelUpdate(b, IF v.selection = s THEN Deselected(v) ELSE v)
ActionChange(s, off) ==
  IF off THEN Unselect(s) ELSE s \in PanelButtons /\ Settings
RemoveButton(s) == Unselect(s)

\* addQuickPadCustomButton
AddButton ==
  LET s == FirstOf(ButtonSlots \ PanelButtons)
      b == PanelButtons \cup {s}
  IN  s # NoSlot /\ PanelUpdate(b, Editing(Selecting(Edited(b), s), "move"))

\* addQuickPadCustomPreset: the first slots that are free, as many as it has.
AddPreset(count) ==
  LET free == ButtonSlots \ PanelButtons
      filled == {s \in free : Cardinality({r \in free : r <= s}) <= count}
      last == CHOOSE s \in filled : \A r \in filled : r <= s
      b == PanelButtons \cup filled
  IN  filled # {} /\ PanelUpdate(b, Editing(Selecting(Edited(b), last), "move"))

\* refreshQuickPadTuningControls: the panel offers to edit on the overlay in
\* the orientation that the overlay shows.
EditAvailable == panel = overlay.orientation

\* setQuickPadCustomEditMode of the panel
PanelEditMode(mode) ==
  /\ EditAvailable /\ mode # "off" /\ PanelButtons # {}
  /\ overlay' = Editing(IF overlay.selection = NoSlot
                        THEN Selecting(overlay, FirstOf(PanelButtons)) ELSE overlay, mode)
  /\ UNCHANGED <<prefsStore, panel, written>>

PanelEditDone ==
  /\ EditAvailable /\ PanelButtons # {}
  /\ overlay' = Deselected(overlay)
  /\ CutOff
  /\ UNCHANGED <<prefsStore, panel>>

\* selectQuickPadCustomButton
PanelSelect(s) ==
  /\ EditAvailable /\ s \in PanelButtons
  /\ LET v == Selecting(overlay, s)
     IN  overlay' = IF v.mode = "off" THEN Editing(v, "move") ELSE v
  /\ UNCHANGED <<prefsStore, panel, written>>

\* setQuickPadEditorOrientation
EditOrientation(o) ==
  /\ panel' = o
  /\ UNCHANGED <<prefsStore, overlay, written>>
\* A template that lacks an orientation is clicked.
MissingOrientation(o) ==
  /\ panel # o
  /\ panel' = o
  /\ overlay' = Deselected(overlay)
  /\ CutOff
  /\ UNCHANGED prefsStore

LayoutsNext ==
  \/ \E visible \in BOOLEAN : SetVisible(visible)
  \/ PinchDown \/ PinchMove \/ PinchUp \/ DragEnds
  \/ InspectorEdit \/ DuplicateSelected \/ RemoveSelected \/ CloseInspector
  \/ BridgeCycle \/ BridgeToggle \/ BridgeSelectAll
  \/ \E s \in ButtonSlots :
       \/ ButtonDown(s) \/ RemoveButton(s) \/ PanelSelect(s) \/ AddPreset(s)
       \/ \E off \in BOOLEAN : ActionChange(s, off)
  \/ \E o \in Orientations : Turn(o) \/ ResetLayout(o) \/ EditOrientation(o) \/ MissingOrientation(o)
  \/ \E store \in [Orientations -> OverlayButtons], persisted \in BOOLEAN : LoadStore(store, persisted)
  \/ \E mode \in EditModes : PanelEditMode(mode)
  \/ PanelSettings \/ ApplyPreset \/ ButtonSettings \/ BuildKey \/ AddButton \/ PanelEditDone

LayoutsSpec == LayoutsInit /\ [][LayoutsNext]_layoutVars

\* The overlay shows the stored layout of its orientation; the button that is
\* selected is on it; and the storage has what the page has, unless a gesture
\* is going on, one was cut off, a preset of the app was only loaded, or the
\* storage refused.
Gesturing == overlay.drag \/ overlay.ghosts > 0 \/ (overlay.pinch # NoSlot /\ overlay.fingers > 0)
LayoutsInStep ==
  /\ overlay.prefs = prefsStore[overlay.orientation]
  /\ overlay.selection # NoSlot => overlay.selection \in overlay.prefs
  /\ ~written.all => written.excused \/ Gesturing
=============================================================================

---------------------------- MODULE SidebarHandle ----------------------------
(***************************************************************************)
(* The sidebar and its handle (src/web/component/sidebar/index.ts): when   *)
(* it is revealed, pinned, opened and hidden again.  Two timers hide it, a *)
(* short one, and a longer one where another surface takes its place and   *)
(* it is suppressed; every sign of activity moves them.                    *)
(***************************************************************************)
EXTENDS Integers

CONSTANTS
  Edges, \* edges of the window the sidebar may be at
  Reach  \* how far a finger moves, in either direction

VARIABLES
  bar,   \* what the sidebar shows and its timers
  finger, \* what a touch of the window may reveal, what one of the handle may
  place  \* the device and the settings

barVars == <<bar, finger, place>>

HandleModes == {"none", "sidebar", "parentFloating", "suppressedSidebar"}

BarInit ==
  /\ bar = [mounted |-> FALSE, extended |-> FALSE, autoHidden |-> FALSE,
            forceHidden |-> FALSE, pinned |-> FALSE, suppressed |-> FALSE,
            locked |-> FALSE, revealing |-> FALSE, autoHide |-> FALSE,
            hide |-> FALSE, left |-> FALSE]
  /\ finger = [window |-> "none", handle |-> FALSE, content |-> "none"]
  /\ place \in [edge : Edges, android : BOOLEAN, handles : BOOLEAN]

BarTypeOK ==
  /\ bar \in [mounted : BOOLEAN, extended : BOOLEAN, autoHidden : BOOLEAN,
              forceHidden : BOOLEAN, pinned : BOOLEAN, suppressed : BOOLEAN,
              locked : BOOLEAN,   \* an overlay of the page is up
              revealing : BOOLEAN, \* suppressedRevealUntil is not past
              autoHide : BOOLEAN, hide : BOOLEAN, \* the timers
              left : BOOLEAN]     \* shown, and no timer was set (history)
  /\ finger \in [window : HandleModes, handle : BOOLEAN, content : {"none", "still", "moved"}]
  /\ place \in [edge : Edges, android : BOOLEAN, handles : BOOLEAN]

-----------------------------------------------------------------------------
(* What the handlers are made of; b is the sidebar.                        *)

Kept(b) == b.extended \/ b.pinned \/ b.locked
\* isSidebarSuppressed
Suppressed(b) == ~b.mounted \/ (b.suppressed /\ ~Kept(b) /\ ~b.revealing)
AutoHidden(b, hidden) == [b EXCEPT !.autoHidden = hidden /\ ~b.extended]
\* hideSuppressedSidebarNow
HiddenNow(b) ==
  [b EXCEPT !.pinned = FALSE, !.revealing = FALSE, !.extended = FALSE,
            !.autoHidden = FALSE, !.forceHidden = TRUE, !.left = FALSE]
\* scheduleSuppressedSidebarHide
HideLater(b) ==
  IF ~b.suppressed THEN [b EXCEPT !.hide = FALSE]
  ELSE [b EXCEPT !.revealing = TRUE, !.hide = ~Kept(b), !.left = @ /\ Kept(b)]
\* scheduleSidebarAutoHide
AutoHideLater(b) == [b EXCEPT !.autoHide = TRUE, !.left = FALSE]

\* bumpSidebarAutoHideFromActivity
Bumped(b) ==
  LET c == IF b.suppressed THEN HideLater(b) ELSE b
      d == [AutoHidden(c, FALSE) EXCEPT !.autoHide = FALSE]
  IN  IF ~b.suppressed /\ Suppressed(b) THEN b
      ELSE IF Kept(d) THEN d ELSE AutoHideLater(d)
\* revealSidebar
Revealed(b) == IF Suppressed(b) THEN b ELSE Bumped(b)
\* revealSuppressedSidebar; where a swipe ends after the sidebar ceased to be
\* suppressed no timer is set.
SuppressedRevealed(b) ==
  LET c == AutoHidden([b EXCEPT !.forceHidden = FALSE, !.revealing = TRUE], FALSE)
  IN  IF ~b.mounted THEN b ELSE [HideLater(c) EXCEPT !.left = @ \/ ~b.suppressed]
\* pinSidebarByInteraction
Pinned(b) ==
  LET c == AutoHidden([b EXCEPT !.pinned = TRUE, !.autoHide = FALSE], FALSE)
  IN  IF Suppressed(b) THEN b
      ELSE IF b.suppressed THEN [c EXCEPT !.hide = FALSE, !.revealing = TRUE] ELSE c

\* setSidebarExtended.  A sidebar that closes is revealed while it still counts
\* as open: no timer is set.
BarOpened(b) ==
  LET c == IF b.suppressed /\ ~b.revealing THEN SuppressedRevealed(b) ELSE b
      d == [AutoHidden(c, FALSE) EXCEPT !.autoHide = FALSE, !.extended = TRUE]
  IN  IF b.suppressed /\ ~b.revealing /\ ~b.mounted THEN b
      ELSE IF b.extended THEN c
      ELSE IF b.suppressed THEN [d EXCEPT !.hide = FALSE, !.revealing = TRUE] ELSE d
BarClosed(b) ==
  IF ~b.extended THEN b
  ELSE [HideLater(Revealed([b EXCEPT !.pinned = FALSE])) EXCEPT !.extended = FALSE, !.left = TRUE]
BarToggled(b) == IF b.extended THEN BarClosed(b) ELSE BarOpened(b)

BarBecomes(b) == bar' = b /\ UNCHANGED <<finger, place>>
Visible == bar.mounted /\ ~bar.forceHidden

-----------------------------------------------------------------------------
(* The page.                                                               *)

\* setSidebar
Mount ==
  /\ ~bar.mounted
  /\ LET b == [bar EXCEPT !.mounted = TRUE]
     IN  BarBecomes(IF b.suppressed THEN [b EXCEPT !.forceHidden = TRUE] ELSE Revealed(b))
UnmountBar ==
  /\ bar.mounted
  /\ BarBecomes([AutoHidden(bar, FALSE) EXCEPT !.mounted = FALSE, !.pinned = FALSE,
               !.autoHide = FALSE, !.extended = FALSE])

SetSuppressed(suppressed) ==
  LET b == [bar EXCEPT !.suppressed = suppressed, !.hide = FALSE, !.revealing = FALSE]
      freed == [b EXCEPT !.forceHidden = FALSE, !.pinned = FALSE]
  IN  IF suppressed
      THEN /\ bar' = HiddenNow([b EXCEPT !.autoHide = FALSE])
           /\ finger' = [finger EXCEPT !.window = "none"]
           /\ UNCHANGED place
      ELSE BarBecomes(IF freed.mounted THEN Revealed(freed) ELSE freed)

SetStyle(edge) ==
  /\ place' = [place EXCEPT !.edge = edge]
  /\ UNCHANGED <<bar, finger>>

\* shouldUseLegacyBrowserHandles: flags in the storage and a class of the page.
UseHandles(handles) ==
  /\ place' = [place EXCEPT !.handles = handles]
  /\ UNCHANGED <<bar, finger>>

SetExtended(extended) == BarBecomes(IF extended THEN BarOpened(bar) ELSE BarClosed(bar))
ToggleBar == BarBecomes(BarToggled(bar))

\* revealSidebarFromAction
RevealFromAction ==
  /\ bar.mounted
  /\ LET b == IF bar.suppressed THEN [SuppressedRevealed(bar) EXCEPT !.hide = FALSE] ELSE bar
     IN  BarBecomes([b EXCEPT !.forceHidden = FALSE, !.autoHidden = FALSE,
                   !.autoHide = FALSE, !.extended = TRUE])

\* onUiOverlayStateEvent.  An overlay that goes after the time to reveal is
\* past leaves a handle that no timer hides.
OverlayState(active) ==
  LET b == [bar EXCEPT !.locked = active]
      c == IF active THEN [AutoHidden(b, FALSE) EXCEPT !.autoHide = FALSE, !.hide = FALSE]
           ELSE IF b.suppressed THEN HideLater(AutoHideLater(b)) ELSE AutoHideLater(b)
  IN  BarBecomes(IF Suppressed(b) THEN [b EXCEPT !.left = @ \/ bar.locked] ELSE c)

-----------------------------------------------------------------------------
(* Timers.                                                                 *)

AutoHideTimer ==
  /\ bar.autoHide
  /\ LET b == [bar EXCEPT !.autoHide = FALSE]
     IN  BarBecomes(IF b.extended \/ b.pinned \/ Suppressed(b) THEN b ELSE AutoHidden(b, TRUE))

HideTimer ==
  /\ bar.hide
  /\ LET b == [bar EXCEPT !.hide = FALSE]
     IN  BarBecomes(IF ~b.suppressed THEN b
                ELSE IF Kept(b) \/ b.revealing THEN HideLater(b)
                ELSE HiddenNow(b))

\* suppressedRevealUntil passes.
RevealEnds == bar.revealing /\ BarBecomes([bar EXCEPT !.revealing = FALSE])

-----------------------------------------------------------------------------
(* The pointer and the fingers.                                            *)

Abs(x) == IF x < 0 THEN -x ELSE x
\* isRevealSwipe
RevealSwipe(dx, dy) ==
  CASE place.edge = "left"  -> dx >= 24 /\ Abs(dx) >= Abs(dy)
    [] place.edge = "right" -> dx <= -24 /\ Abs(dx) >= Abs(dy)
    [] place.edge = "up"    -> dy >= 24 /\ Abs(dy) >= Abs(dx)
    [] OTHER                -> dy <= -24 /\ Abs(dy) >= Abs(dx)
\* isFloatingMenuRevealSwipe
FloatingSwipe(dx, dy) ==
  \/ dx <= -24 /\ 10 * Abs(dx) >= 6 * Abs(dy)
  \/ dy <= -24 /\ 10 * Abs(dy) >= 6 * Abs(dx)

\* onDocumentPointerMove, near the edge.
PointerNearEdge ==
  /\ ~Suppressed(bar) /\ ~bar.locked /\ place.handles
  /\ BarBecomes(Revealed(bar))

\* Near the sidebar's edge or the handle, near the floating menu.
Zones == [near : BOOLEAN, floating : BOOLEAN]
\* onDocumentTouchStart
HandleTouchStart(zone) ==
  LET atHandle == place.handles /\ zone.near
  IN  /\ finger' = [finger EXCEPT !.window =
            IF place.android /\ atHandle
            THEN IF Suppressed(bar) THEN "suppressedSidebar" ELSE "sidebar"
            ELSE IF place.android /\ zone.floating THEN "parentFloating"
            ELSE IF Suppressed(bar) \/ ~atHandle THEN "none" ELSE "sidebar"]
      /\ UNCHANGED <<bar, place>>

\* onDocumentTouchMove: the page may take the swipe for itself.
HandleTouchMove(dx, dy, intercepted) ==
  /\ finger.window # "none"
  /\ LET swipe == IF finger.window = "parentFloating" THEN FloatingSwipe(dx, dy) ELSE RevealSwipe(dx, dy)
         late == finger.window = "sidebar" /\ Suppressed(bar)
     IN  /\ finger' = [finger EXCEPT !.window = IF swipe \/ late THEN "none" ELSE @]
         /\ bar' = IF ~swipe \/ late \/ intercepted THEN bar
                   ELSE CASE finger.window = "suppressedSidebar" -> SuppressedRevealed(bar)
                          [] finger.window = "sidebar" -> Revealed(bar)
                          [] OTHER -> bar
  /\ UNCHANGED place

HandleTouchEnd ==
  /\ finger.window # "none"
  /\ finger' = [finger EXCEPT !.window = "none"]
  /\ UNCHANGED <<bar, place>>

\* onSidebarButtonClick
ButtonClick == Visible /\ place.handles /\ BarBecomes(BarToggled(Pinned(bar)))

\* onSidebarButtonTouchStart, Move and End
ButtonTouch(dx, dy) ==
  LET reveals == finger.handle /\ RevealSwipe(dx, dy)
  IN  /\ Visible
      /\ finger' = [finger EXCEPT !.handle = place.handles /\ ~reveals]
      /\ bar' = IF ~place.handles THEN bar
                ELSE IF reveals THEN Revealed(Pinned(Bumped(bar))) ELSE Bumped(bar)
      /\ UNCHANGED place
ButtonTouchEnd ==
  /\ Visible /\ finger.handle
  /\ finger' = [finger EXCEPT !.handle = FALSE]
  /\ bar' = IF place.handles THEN Bumped(bar) ELSE bar
  /\ UNCHANGED place

\* onSidebarRootInteraction, onSidebarRootActivity
RootPress == Visible /\ BarBecomes(Pinned(bar))
RootActivity == Visible /\ BarBecomes(Bumped(bar))
RootEnter == Visible /\ BarBecomes(Revealed(bar))
\* A touch of the sidebar's content that moves is a scroll, not a click.
ContentTouch(content) ==
  /\ Visible
  /\ finger' = [finger EXCEPT !.content = content]
  /\ bar' = IF content = "still" THEN Bumped(Pinned(bar)) ELSE Bumped(bar)
  /\ content = "moved" => finger.content # "none"
  /\ UNCHANGED place

\* onDocumentOutsideInteractionStart, of a mouse or a pen; in fullscreen an
\* open sidebar stays.
OutsideBarPress(fullscreen) ==
  /\ ~Suppressed(bar) /\ bar.pinned
  /\ ~(fullscreen /\ bar.extended)
  /\ BarBecomes([AutoHidden(BarClosed([bar EXCEPT !.pinned = FALSE]), TRUE) EXCEPT !.autoHide = FALSE])

BarNext ==
  \/ Mount \/ UnmountBar \/ ToggleBar \/ RevealFromAction
  \/ \E flag \in BOOLEAN :
       SetSuppressed(flag) \/ UseHandles(flag) \/ SetExtended(flag) \/ OverlayState(flag) \/ OutsideBarPress(flag)
  \/ AutoHideTimer \/ HideTimer \/ RevealEnds
  \/ PointerNearEdge \/ HandleTouchEnd \/ ButtonClick \/ ButtonTouchEnd
  \/ RootPress \/ RootActivity \/ RootEnter
  \/ \E zone \in Zones : HandleTouchStart(zone)
  \/ \E dx, dy \in Reach \cup {-x : x \in Reach} :
       ButtonTouch(dx, dy) \/ \E intercepted \in BOOLEAN : HandleTouchMove(dx, dy, intercepted)
  \/ \E content \in {"none", "still", "moved"} : ContentTouch(content)
  \/ \E edge \in Edges : SetStyle(edge)

BarSpec == BarInit /\ [][BarNext]_barVars

\* A handle over the stream does not stay: while it is shown and nothing keeps
\* it, a timer is set that hides it, unless the sidebar was just closed or an
\* overlay went too late.
HandleLeaves ==
  Visible /\ ~bar.autoHidden /\ ~Kept(bar) => bar.autoHide \/ bar.hide \/ bar.left
=============================================================================

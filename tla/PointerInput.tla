---------------------------- MODULE PointerInput ----------------------------
(***************************************************************************)
(* Mouse and touch on their way to the host (src/web/stream/input.ts).     *)
(* Several sources press the same buttons: the mouse, fingers that tap and *)
(* drag, the native bridge of an Android shell, a wake pulse.  What was    *)
(* pressed is remembered in one set, and every handler may be cut off: by  *)
(* the lock of a transition, by the suppression of mouse events that       *)
(* follow a touch, by a change of the configuration.                       *)
(***************************************************************************)
EXTENDS Naturals, FiniteSets

CONSTANTS
  Fingers,  \* identifiers of touches; browsers use them again
  Buttons   \* the mouse buttons told apart, of Left and Right
CONSTANTS Left, Right, NoFinger

ASSUME PointerAssumption ==
  /\ Left \in Buttons /\ Buttons \subseteq {Left, Right} /\ Left # Right
  /\ NoFinger \notin Fingers

VARIABLES
  link,     \* connected, transitionLocked, touchMode
  pressed,  \* pressedMouseButtons
  touch,    \* touchTracker, primaryTouch, touchMouseAction, the two-finger click
  user,     \* what the user does: fingers on the glass, buttons held
  host,     \* buttons that are down on the host
  past      \* history: releases that were passed over, touches that ended unseen

pointerVars == <<link, pressed, touch, user, host, past>>

TouchModes == {"touch", "mouseRelative", "pointAndDrag", "native"}
Tracks == {"none", "still", "moved", "drag"}
NoTracks == [f \in Fingers |-> "none"]
NoGesture == [track |-> NoTracks, primary |-> NoFinger, action |-> "default",
              two |-> FALSE]

PointerInit ==
  /\ link = [connected |-> FALSE, locked |-> FALSE, mode |-> "mouseRelative"]
  /\ pressed = {}
  /\ touch = NoGesture
  /\ user = [glass |-> {}, mouse |-> {}, bridge |-> {}]
  /\ host = {}
  /\ past = [stray |-> {}, ghosts |-> {}]

PointerTypeOK ==
  /\ link \in [connected : BOOLEAN, locked : BOOLEAN, mode : TouchModes]
  /\ pressed \subseteq Buttons /\ host \subseteq Buttons
  /\ touch \in [track : [Fingers -> Tracks], primary : Fingers \cup {NoFinger},
                action : {"default", "scroll", "screenKeyboard"}, two : BOOLEAN]
  /\ user \in [glass : SUBSET Fingers, mouse : SUBSET Buttons,
               bridge : SUBSET Buttons]
  /\ past \in [stray : SUBSET Buttons, ghosts : SUBSET Fingers]

(***************************************************************************)
(* Buttons.  A press of what is pressed and a release of what is not are   *)
(* not sent.                                                               *)
(***************************************************************************)
\* `down` are pressed, then `up` released, with `lost` releases passed over.
Send(down, up, lost) ==
  LET released == up \cap (pressed \cup down)
  IN  /\ pressed' = (pressed \cup down) \ up
      /\ host' = (host \cup (down \ pressed)) \ released
      /\ past' = [past EXCEPT !.stray = ((@ \cup lost) \cap host') \ released]

Click(b) == Send({b} \cap Buttons, {b} \cap Buttons, {})

\* resetRelativeMouseState: the page forgets what it pressed, and tells no one.
Forget ==
  /\ pressed' = {}
  /\ UNCHANGED host
  /\ past' = [past EXCEPT !.stray = host]

(***************************************************************************)
(* The stream, the lock, the configuration.                                *)
(***************************************************************************)
\* onStreamStart, onStreamStop: a session starts and ends with nothing pressed.
StreamStarts ==
  /\ link' = [link EXCEPT !.connected = TRUE]
  /\ pressed' = {} /\ host' = {}
  /\ past' = [past EXCEPT !.stray = {}]
  /\ UNCHANGED <<touch, user>>

StreamStops ==
  /\ link' = [link EXCEPT !.connected = FALSE]
  /\ pressed' = {} /\ host' = {}
  /\ touch' = [touch EXCEPT !.two = FALSE]
  /\ past' = [past EXCEPT !.stray = {}]
  /\ UNCHANGED user

SetTransitionLocked(locked) ==
  /\ link' = [link EXCEPT !.locked = locked]
  /\ IF locked
     THEN
          /\ touch' = [touch EXCEPT !.two = FALSE]
          /\ Forget
     ELSE UNCHANGED <<pressed, touch, host, past>>
  /\ UNCHANGED user

PointerLockChanges ==
  /\ Forget
  /\ UNCHANGED <<link, touch, user>>

\* setConfig forgets every touch, not what the touches have pressed.
SetConfig(mode) ==
  /\ link' = [link EXCEPT !.mode = mode]
  /\ touch' = [NoGesture EXCEPT !.action = touch.action]
  /\ past' = [stray |-> past.stray \cup (host \ user.mouse), ghosts |-> {}]
  /\ UNCHANGED <<pressed, user, host>>

(***************************************************************************)
(* The mouse, the bridge, the wake pulse.                                  *)
(***************************************************************************)
\* Events of the mouse are dropped under the lock, within 750 ms of a touch and
\* over an overlay of the page; the last two may be at any time.
Taken(dropped) == link.connected /\ ~link.locked /\ ~dropped

MouseDown(b) ==
  /\ b \notin user.mouse
  /\ user' = [user EXCEPT !.mouse = @ \cup {b}]
  /\ \E dropped \in BOOLEAN :
       IF Taken(dropped) THEN Send({b}, {}, {}) ELSE UNCHANGED <<pressed, host, past>>
  /\ UNCHANGED <<link, touch>>

MouseUp(b) ==
  /\ b \in user.mouse
  /\ user' = [user EXCEPT !.mouse = @ \ {b}]
  /\ \E dropped \in BOOLEAN :
       IF Taken(dropped) THEN Send({}, {b}, {}) ELSE Send({}, {}, {b})
  /\ UNCHANGED <<link, touch>>

BridgeActive == link.mode = "native" /\ link.connected /\ ~link.locked

BridgeButton(isDown) ==
  /\ isDown # (user.bridge # {})
  /\ user' = [user EXCEPT !.bridge = IF isDown THEN {Left} ELSE {}]
  /\ IF BridgeActive
     THEN IF isDown THEN Send({Left}, {}, {}) ELSE Send({}, {Left}, {})
     ELSE Send({}, {}, IF isDown THEN {} ELSE {Left})
  /\ UNCHANGED <<link, touch>>

\* A reliable position, then a click for hosts that sleep.
WakePulse ==
  /\ link.connected /\ ~link.locked
  /\ Click(Left)
  /\ UNCHANGED <<link, touch, user>>

(***************************************************************************)
(* Fingers.                                                                *)
(***************************************************************************)
ByMouse == link.mode \in {"mouseRelative", "pointAndDrag"}
Tracked(t) == {f \in Fingers : t[f] # "none"}
\* updateTouchTracker: an entry that is there stays as it is.
WithTracks(t, F) == [f \in Fingers |-> IF f \in F /\ t[f] = "none" THEN "still" ELSE t[f]]

ScrollOrKeyboard(g) ==
  IF g.primary # NoFinger /\ Cardinality(Tracked(g.track)) = 2
  THEN IF g.track[g.primary] # "still" THEN g
       ELSE [g EXCEPT !.action = "scroll",
               !.track[g.primary] = IF link.mode = "pointAndDrag" THEN "moved" ELSE @]
  ELSE IF Cardinality(Tracked(g.track)) = 3
       THEN [g EXCEPT !.action = "screenKeyboard"]
       ELSE g

TwoFingers(F, tracks) ==
  /\ ByMouse
  /\ Cardinality(F) = 2 /\ user.glass = {}
  /\ \A f \in F : tracks[f] = "still"

TouchStart(F) ==
  /\ F # {} /\ F \cap user.glass = {}
  /\ user' = [user EXCEPT !.glass = @ \cup F]
  /\ UNCHANGED link
  /\ IF link.locked THEN UNCHANGED <<touch, pressed, host, past>>
     ELSE LET tracks == WithTracks(touch.track, F)
          IN  CASE BridgeActive ->
                        /\ touch' = NoGesture
                        /\ past' = [past EXCEPT !.ghosts = {}]
                        /\ UNCHANGED <<pressed, host>>
                   [] ~BridgeActive /\ TwoFingers(F, tracks) ->
                        /\ touch' = [track |-> tracks, primary |-> NoFinger,
                                     action |-> "default", two |-> TRUE]
                        /\ Click(Right)
                   [] OTHER ->
                        /\ \E f \in F :
                             touch' =
                               IF ~(ByMouse \/ link.mode = "native") THEN [touch EXCEPT !.track = tracks]
                               ELSE ScrollOrKeyboard(
                                 IF touch.primary # NoFinger THEN [touch EXCEPT !.track = tracks]
                                 ELSE [touch EXCEPT !.track = tracks, !.primary = f,
                                                    !.action = "default"])
                        /\ UNCHANGED <<pressed, host, past>>

\* The finger that leads has moved: the cursor follows, or a drag begins.
TouchMove(f) ==
  /\ f \in user.glass /\ ~link.locked /\ ~BridgeActive
  /\ LET leads == (ByMouse \/ link.mode = "native") /\ ~touch.two
                  /\ touch.primary = f /\ touch.track[f] # "none"
                  /\ touch.action = "default"
         seen == [touch EXCEPT !.track = WithTracks(@, {f}),
                               !.two = @ /\ Cardinality(user.glass) >= 2]
     IN  \E far \in BOOLEAN :
           IF leads /\ far /\ link.mode = "pointAndDrag" /\ touch.track[f] # "drag"
           THEN /\ touch' = [seen EXCEPT !.track[f] = "drag"]
                /\ Send({Left}, {}, {})
           ELSE /\ touch' = seen
                /\ UNCHANGED <<pressed, host, past>>
  /\ UNCHANGED <<link, user>>

\* onTouchUpdate: a finger that rests will drag, not click.
TouchRests ==
  /\ ~link.locked /\ link.mode = "pointAndDrag"
  /\ touch.primary # NoFinger /\ touch.action = "default"
  /\ touch.track[touch.primary] = "still"
  /\ touch' = [touch EXCEPT !.track[touch.primary] = "moved"]
  /\ UNCHANGED <<link, pressed, user, host, past>>

Without(f, g) ==
  [g EXCEPT !.track[f] = "none",
            !.primary = IF g.primary = f THEN NoFinger ELSE @]

\* A slip of Lifted: a finger that dragged far away does not let go.
LiftedFar(f, near, quick) ==
  CASE near /\ (quick \/ touch.track[f] = "drag") -> Click(Left)
    [] near /\ ~(quick \/ touch.track[f] = "drag") -> Click(Right)
    [] OTHER -> UNCHANGED <<pressed, host, past>>

\* The finger that led is lifted: a click, a long press, or the end of a drag.
Lifted(f, near, quick) ==
  CASE near /\ (quick \/ touch.track[f] = "drag") ->
         IF touch.track[f] = "drag" THEN Send({}, {Left}, {}) ELSE Click(Left)
    [] near /\ ~(quick \/ touch.track[f] = "drag") -> Click(Right)
    [] ~near /\ link.mode = "pointAndDrag" -> Click(Left)
    [] OTHER -> UNCHANGED <<pressed, host, past>>

\* onTouchEnd, and onTouchCancel, which ends the two-finger click first.  Under
\* the lock it is not noticed.
TouchEnd(f, two) ==
  /\ f \in user.glass
  /\ user' = [user EXCEPT !.glass = @ \ {f}]
  /\ IF link.locked
     THEN /\ past' = [past EXCEPT !.ghosts = @ \cup ({f} \cap Tracked(touch.track))]
          /\ touch' = [touch EXCEPT !.two = two]
          /\ UNCHANGED <<pressed, host>>
     ELSE CASE BridgeActive ->
                    /\ touch' = NoGesture
                    /\ past' = [past EXCEPT !.ghosts = {}]
                    /\ UNCHANGED <<pressed, host>>
               [] ~BridgeActive /\ two /\ ByMouse ->
                    /\ touch' = [touch EXCEPT !.track[f] = "none", !.two = FALSE,
                                   !.primary = NoFinger, !.action = "default"]
                    /\ UNCHANGED <<pressed, host, past>>
               [] OTHER ->
                    LET led == (ByMouse \/ link.mode = "native")
                               /\ touch.primary = f /\ touch.track[f] # "none"
                    IN  /\ touch' = [Without(f, touch) EXCEPT !.two = two]
                        /\ IF led /\ touch.action = "default"
                           THEN \E near, quick \in BOOLEAN : Lifted(f, near, quick)
                           ELSE Send({}, {}, IF touch.track[f] = "drag"
                                             THEN {Left} ELSE {})
  /\ UNCHANGED link

PointerNext ==
  \/ StreamStarts \/ StreamStops \/ PointerLockChanges
  \/ \E locked \in BOOLEAN : SetTransitionLocked(locked)
  \/ \E mode \in TouchModes : SetConfig(mode)
  \/ WakePulse
  \/ \E b \in Buttons : MouseDown(b) \/ MouseUp(b)
  \/ \E isDown \in BOOLEAN : BridgeButton(isDown)
  \/ \E F \in SUBSET Fingers : Cardinality(F) <= 2 /\ TouchStart(F)
  \/ \E f \in Fingers :
       TouchMove(f) \/ TouchEnd(f, touch.two) \/ TouchEnd(f, FALSE)
  \/ TouchRests

PointerSpec == PointerInit /\ [][PointerNext]_pointerVars

(***************************************************************************)
(* Properties.                                                             *)
(***************************************************************************)
\* A button that is down on the host is held by someone who will release it:
\* the mouse, the bridge, a finger that drags.  `past.stray` names the only
\* ways in which the code passes a release over: the lock and the pointer lock
\* forget what is pressed, a mouse event is dropped, the configuration
\* changes under a drag, and a second or third finger turns a drag into a
\* gesture that ends without one.
NoStuckButton ==
  host \ past.stray \subseteq
    user.mouse \cup user.bridge
      \cup (IF \E f \in user.glass : touch.track[f] = "drag" THEN {Left} ELSE {})

\* The touch that leads the gesture is on the glass, and so is every touch that
\* is tracked, except for those whose end the lock let pass: they keep leading,
\* and the touches after them lead nothing.
GesturesEnd ==
  Tracked(touch.track) \cup ({touch.primary} \ {NoFinger})
    \subseteq user.glass \cup past.ghosts
=============================================================================

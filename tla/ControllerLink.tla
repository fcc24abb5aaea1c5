--------------------------- MODULE ControllerLink ---------------------------
(***************************************************************************)
(* Game controllers (src/web/stream/input.ts): the physical ones, which    *)
(* are given slots when the stream is there and buffered before, and the   *)
(* virtual one of the on-screen pad.  What the host knows is what it was   *)
(* sent; a state is not sent when the channel is congested.                *)
(***************************************************************************)
EXTENDS Naturals, FiniteSets, FiniteSetsExt

CONSTANTS
  Pads,  \* physical controllers, by their index in the browser
  NoPad

ASSUME PadsAssumption == IsFiniteSet(Pads) /\ NoPad \notin Pads

LinkSlots == 0 .. Cardinality(Pads) - 1
VirtualId == 15
Ids == LinkSlots \cup {VirtualId}

VARIABLES
  stream,    \* connected, and whether the session is the one of the page's state
  padUser,      \* controllers that are plugged in, with a button held on some
  buffered,  \* bufferedControllers
  slots,     \* gamepads: who has the slot, and the state it was seen in
  virtual,   \* the virtual controller
  known,     \* what the host knows of each controller
  missedPads     \* history: states the channel dropped, controllers nobody announced

controllerVars == <<stream, padUser, buffered, slots, virtual, known, missedPads>>

EmptySlot == [pad |-> NoPad, down |-> FALSE]
NoVirtual == [enabled |-> FALSE, connected |-> FALSE, down |-> FALSE,
              held |-> FALSE, pulse |-> FALSE]
NothingKnown == [id \in Ids |-> "absent"]
State(down) == IF down THEN "down" ELSE "up"

ControllerInit ==
  /\ stream = "starting"
  /\ padUser = [plugged |-> {}, holding |-> {}]
  /\ buffered = {}
  /\ slots = [s \in LinkSlots |-> EmptySlot]
  /\ virtual = NoVirtual
  /\ known = NothingKnown
  /\ missedPads = [states |-> {}, pads |-> {}]

ControllerTypeOK ==
  /\ stream \in {"starting", "connected", "restarted", "stopped"}
  /\ padUser \in [plugged : SUBSET Pads, holding : SUBSET Pads]
  /\ buffered \subseteq Pads
  /\ slots \in [LinkSlots -> [pad : Pads \cup {NoPad}, down : BOOLEAN]]
  /\ virtual \in [enabled : BOOLEAN, connected : BOOLEAN, down : BOOLEAN,
                  held : BOOLEAN,    \* a finger is on the button
                  pulse : BOOLEAN]   \* a release timer is set
  /\ known \in [Ids -> {"absent", "up", "down"}]
  /\ missedPads \in [states : SUBSET Ids, pads : SUBSET Pads]

PadConnected == stream \in {"connected", "restarted"}
SlotOf(p) == {s \in LinkSlots : slots[s].pad = p}
Served == {slots[s].pad : s \in LinkSlots} \ {NoPad}
Free(sl) == {s \in LinkSlots : sl[s].pad = NoPad}

\* Pads are given the first free slots, in any order.
Announced(sl, kn, P) ==
  LET free == CHOOSE F \in kSubset(Cardinality(P), Free(sl)) :
                \A s \in F, t \in Free(sl) \ F : s < t
  IN  {[slots |-> [s \in LinkSlots |-> IF s \in F[1] THEN [pad |-> F[2][s], down |-> FALSE]
                                   ELSE sl[s]],
        known |-> [id \in Ids |-> IF id \in F[1] THEN "up" ELSE kn[id]]] :
         F \in {<<free, f>> : f \in {g \in [free -> P] : \A p \in P : \E s \in free : g[s] = p}}}

(***************************************************************************)
(* The virtual controller.  A state is sent unless its channel is          *)
(* congested; the arrival and the removal always are.                      *)
(***************************************************************************)
\* ensureVirtualControllerConnected
WithVirtual(v) ==
  IF v.enabled /\ ~v.connected
  THEN [v EXCEPT !.connected = TRUE, !.down = FALSE] ELSE v
\* disconnectVirtualController
WithoutVirtual(v) ==
  [v EXCEPT !.connected = FALSE, !.down = FALSE, !.pulse = FALSE]

Arrived(kn) == [kn EXCEPT ![VirtualId] = "up"]
Removed(kn) == [kn EXCEPT ![VirtualId] = "absent"]
Seen == missedPads.states \ {VirtualId}

SendVirtual(v) ==
  /\ virtual' = v
  /\ \E congested \in BOOLEAN :
       IF congested
       THEN /\ UNCHANGED known
            /\ missedPads' = [missedPads EXCEPT !.states = @ \cup {VirtualId}]
       ELSE /\ known' = [known EXCEPT ![VirtualId] = State(v.down)]
            /\ missedPads' = [missedPads EXCEPT !.states = Seen]

\* Switched off, the pad sends its empty state just before the removal, in the same
\* step: sent or dropped by a congested channel, the removal leaves nothing of it.
SetVirtualEnabled(enabled) ==
  LET v == [virtual EXCEPT !.enabled = enabled]
      change == PadConnected /\ (enabled # virtual.connected)
  IN  /\ virtual' = IF ~PadConnected THEN v
                    ELSE IF enabled THEN WithVirtual(v) ELSE WithoutVirtual(v)
      /\ known' = IF ~change THEN known ELSE IF enabled THEN Arrived(known) ELSE Removed(known)
      /\ missedPads' = [missedPads EXCEPT !.states = IF change THEN Seen ELSE @]
      /\ UNCHANGED <<stream, padUser, buffered, slots>>

\* A button of the pad: it takes the release from a pulse.
SetVirtualButton(down) ==
  /\ PadConnected /\ virtual.enabled
  /\ SendVirtual([WithVirtual(virtual) EXCEPT !.down = down, !.held = down, !.pulse = FALSE])
  /\ UNCHANGED <<stream, padUser, buffered, slots>>

PulseVirtualButton ==
  /\ PadConnected /\ virtual.enabled
  /\ SendVirtual([WithVirtual(virtual) EXCEPT !.down = TRUE, !.pulse = TRUE])
  /\ UNCHANGED <<stream, padUser, buffered, slots>>

PulseTimerFires ==
  /\ virtual.pulse
  /\ IF virtual.connected
     THEN SendVirtual([virtual EXCEPT !.down = FALSE, !.pulse = FALSE])
     ELSE virtual' = [virtual EXCEPT !.pulse = FALSE] /\ UNCHANGED <<known, missedPads>>
  /\ UNCHANGED <<stream, padUser, buffered, slots>>

\* resetVirtualControllerState leaves the timers.
ResetVirtual ==
  /\ PadConnected /\ virtual.enabled /\ virtual.connected
  /\ SendVirtual([virtual EXCEPT !.down = FALSE])
  /\ UNCHANGED <<stream, padUser, buffered, slots>>

\* reconnectVirtualController, by the user or for another prompt style.
ReconnectVirtual ==
  /\ PadConnected
  /\ virtual' = WithVirtual([WithoutVirtual(virtual) EXCEPT !.enabled = TRUE])
  /\ known' = Arrived(known)
  /\ missedPads' = [missedPads EXCEPT !.states = Seen]
  /\ UNCHANGED <<stream, padUser, buffered, slots>>

(***************************************************************************)
(* Physical controllers.                                                   *)
(***************************************************************************)
Plug(p) ==
  /\ p \notin padUser.plugged
  /\ padUser' = [padUser EXCEPT !.plugged = @ \cup {p}]
  /\ IF ~PadConnected
     THEN buffered' = buffered \cup {p} /\ UNCHANGED <<slots, known, missedPads>>
     ELSE /\ \E a \in Announced(slots, known, {p}) :
               slots' = a.slots /\ known' = a.known
                 /\ missedPads' = [states |-> missedPads.states \ {s \in LinkSlots : a.slots[s] # slots[s]},
                               pads |-> missedPads.pads \ {p}]
          /\ UNCHANGED buffered
  /\ UNCHANGED <<stream, virtual>>

\* A controller that is unplugged stays in the buffer.
Unplug(p) ==
  /\ p \in padUser.plugged
  /\ padUser' = [plugged |-> padUser.plugged \ {p}, holding |-> padUser.holding \ {p}]
  /\ slots' = [s \in LinkSlots |-> IF s \in SlotOf(p) THEN EmptySlot ELSE slots[s]]
  /\ known' = [id \in Ids |-> IF id \in SlotOf(p) THEN "absent" ELSE known[id]]
  /\ missedPads' = [states |-> missedPads.states \ SlotOf(p), pads |-> missedPads.pads \ {p}]
  /\ UNCHANGED <<stream, buffered, virtual>>

HoldButton(p) ==
  /\ p \in padUser.plugged
  /\ padUser' = [padUser EXCEPT !.holding = IF p \in @ THEN @ \ {p} ELSE @ \cup {p}]
  /\ UNCHANGED <<stream, buffered, slots, virtual, known, missedPads>>

\* onGamepadUpdate: the state counts as seen whether or not it was sent.
GamepadUpdate(s) ==
  /\ slots[s].pad # NoPad
  /\ LET down == slots[s].pad \in padUser.holding
     IN  /\ down # slots[s].down
         /\ slots' = [slots EXCEPT ![s].down = down]
         /\ \E congested \in BOOLEAN :
              IF congested
              THEN /\ UNCHANGED known
                   /\ missedPads' = [missedPads EXCEPT !.states = @ \cup {s}]
              ELSE /\ known' = [known EXCEPT ![s] = State(down)]
                   /\ missedPads' = [missedPads EXCEPT !.states = @ \ {s}]
  /\ UNCHANGED <<stream, padUser, buffered, virtual>>

(***************************************************************************)
(* The stream.                                                             *)
(***************************************************************************)
\* onStreamStart: buffered controllers that are still plugged in are announced.
LinkStarts ==
  /\ stream = "starting"
  /\ stream' = "connected"
  /\ virtual' = WithVirtual(virtual)
  /\ \E a \in Announced(slots, NothingKnown, (buffered \cap padUser.plugged) \ Served) :
       /\ slots' = a.slots
       /\ known' = IF virtual'.connected THEN Arrived(a.known) ELSE a.known
  /\ buffered' = {}
  /\ UNCHANGED <<padUser, missedPads>>

\* A restart in place: the host begins anew, the page believes all is announced.
StreamRestarts ==
  /\ PadConnected
  /\ stream' = "restarted"
  /\ virtual' = WithVirtual(virtual)
  /\ known' = IF virtual.connected \/ ~virtual.enabled THEN NothingKnown
              ELSE Arrived(NothingKnown)
  /\ missedPads' = [states |-> {}, pads |-> missedPads.pads \cup Served]
  /\ UNCHANGED <<padUser, buffered, slots>>

LinkStops ==
  /\ PadConnected
  /\ stream' = "stopped"
  /\ virtual' = WithoutVirtual(virtual)
  /\ known' = NothingKnown
  /\ missedPads' = [missedPads EXCEPT !.states = {}]
  /\ UNCHANGED <<padUser, buffered, slots>>

\* A reconnect makes a new StreamInput; the browser does not announce what is
\* plugged in already, and nobody else does.
LinkReplaced ==
  /\ stream' = "starting"
  /\ buffered' = {}
  /\ slots' = [s \in LinkSlots |-> EmptySlot]
  /\ virtual' = NoVirtual
  /\ known' = NothingKnown
  /\ missedPads' = [states |-> {}, pads |-> padUser.plugged]
  /\ UNCHANGED padUser

ControllerNext ==
  \/ \E enabled \in BOOLEAN : SetVirtualEnabled(enabled)
  \/ \E down \in BOOLEAN : SetVirtualButton(down)
  \/ PulseVirtualButton \/ PulseTimerFires \/ ResetVirtual \/ ReconnectVirtual
  \/ \E p \in Pads : Plug(p) \/ Unplug(p) \/ HoldButton(p)
  \/ \E s \in LinkSlots : GamepadUpdate(s)
  \/ LinkStarts \/ StreamRestarts \/ LinkStops \/ LinkReplaced

ControllerSpec == ControllerInit /\ [][ControllerNext]_controllerVars

(***************************************************************************)
(* The host knows exactly the controllers that have slots, and the virtual *)
(* one while it is connected, in the state the page saw last, unless the   *)
(* channel dropped that state or the stream was restarted in place; every  *)
(* controller that is plugged in has a slot or waits for one, unless a     *)
(* replaced stream left it behind; a virtual button that is down is held   *)
(* or has a timer.                                                         *)
(***************************************************************************)
ControllersInStep ==
  /\ stream = "connected" =>
       /\ \A s \in LinkSlots :
            IF slots[s].pad = NoPad THEN known[s] = "absent"
            ELSE known[s] = State(slots[s].down)
                   \/ (s \in missedPads.states /\ known[s] # "absent")
       /\ IF virtual.connected
          THEN known[VirtualId] = State(virtual.down)
                 \/ (VirtualId \in missedPads.states /\ known[VirtualId] # "absent")
          ELSE known[VirtualId] = "absent"
  /\ padUser.plugged \subseteq Served \cup buffered \cup missedPads.pads
  /\ virtual.down => virtual.held \/ virtual.pulse
=============================================================================

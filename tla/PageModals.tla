------------------------------ MODULE PageModals ------------------------------
(***************************************************************************)
(* The modal of a page (src/web/component/modal/index.ts) and those who    *)
(* wait for an answer of it.  There is one place for it: a modal that is   *)
(* shown replaces the one before, whose signal is aborted.  Some modals    *)
(* answer their caller when that happens and some never do, and the answer *)
(* is worked off only after the new one was mounted.                       *)
(***************************************************************************)
EXTENDS Naturals, Sequences

CONSTANT MaxShows    \* bound on the modals that are shown

ASSUME ModalsAssumption == MaxShows \in Nat

VARIABLES
    modal,    \* modalAbort, previousModal and whether the overlay is shown
    asks,     \* every call of showModal with a modal
    ousted    \* history: calls whose modal the answer of another took away

modalVars == <<modal, asks, ousted>>

(* The form of a name, a password, a host or a key; a message, one that    *)
(* its caller may call off; the choice of an app; and the modals that      *)
(* answer when they are replaced: the state of the connection, the profile *)
(* of the device, the link to share.                                       *)
Kinds == {"form", "message", "pin", "choice", "connection", "profile", "invite"}
AnswersAbort == {"connection", "profile", "invite"}
Nobody == 0

(* Nothing is on the page, and the overlay is off.                         *)
Unmounted(abort) == [abort |-> abort, mounted |-> Nobody, overlay |-> FALSE]

ModalsInit ==
    /\ modal = Unmounted(Nobody)
    /\ asks = <<>>
    /\ ousted = {}

(* A call waits for its modal, has its answer to work off, or is through;  *)
(* one that is deaf waits although nothing can answer it any more.         *)
Ask(kind) == [kind |-> kind, state |-> "waits"]

(* What the modal does when its signal is aborted.                         *)
Aborted(ask) ==
    [ask EXCEPT !.state =
        IF ask.kind \in AnswersAbort THEN "answered" ELSE "deaf"]

(* The continuations run before anything else happens on the page.         *)
Settled == \A i \in DOMAIN asks : asks[i].state # "answered"

(***************************************************************************)
(* Showing a modal, or none.                                               *)
(***************************************************************************)
AbortedAsks ==
    IF modal.abort = Nobody THEN asks
    ELSE [asks EXCEPT ![modal.abort] = Aborted(@)]

ShowModal(kind) ==
    /\ Settled /\ Len(asks) < MaxShows
    /\ asks' = Append(AbortedAsks, Ask(kind))
    /\ modal' = [abort |-> Len(asks) + 1, mounted |-> Len(asks) + 1,
                 overlay |-> TRUE]
    /\ UNCHANGED ousted

ShowNothing ==
    /\ Settled /\ modal.abort # Nobody
    /\ asks' = AbortedAsks
    /\ modal' = Unmounted(Nobody)
    /\ UNCHANGED ousted

(* The answer of a modal is worked off: whatever is mounted by now goes    *)
(* with it.                                                                *)
Finish(i) ==
    /\ asks[i].state = "answered"
    /\ asks' = [asks EXCEPT ![i].state = "through"]
    /\ modal' = Unmounted(IF modal.abort = i THEN Nobody ELSE modal.abort)
    /\ ousted' = ousted \union ({modal.mounted} \ {i, Nobody})

(***************************************************************************)
(* The answers.                                                            *)
(***************************************************************************)
Answer(i) ==
    /\ asks' = [asks EXCEPT ![i].state = "answered"]
    /\ UNCHANGED <<modal, ousted>>

(* Whoever sees the modal presses one of its buttons; the one on the       *)
(* connection has none.                                                    *)
Press(i) ==
    /\ Settled /\ modal.mounted = i /\ modal.overlay
    /\ asks[i].state = "waits" /\ asks[i].kind # "connection"
    /\ Answer(i)

(* The pairing is over, whether or not the message with the pin is seen.   *)
CalledOff(i) ==
    /\ Settled /\ asks[i].kind = "pin" /\ asks[i].state = "waits"
    /\ Answer(i)

(* The stream is connected: the modal answers, and the page shows none.    *)
StreamConnected(i) ==
    /\ Settled /\ asks[i].kind = "connection" /\ asks[i].state = "waits"
    /\ asks' = [asks EXCEPT ![i].state = "answered"]
    /\ modal' = Unmounted(Nobody)
    /\ UNCHANGED ousted

ModalsNext ==
    \/ \E kind \in Kinds : ShowModal(kind)
    \/ ShowNothing
    \/ \E i \in DOMAIN asks : 
           Finish(i) \/ Press(i) \/ CalledOff(i) \/ StreamConnected(i)

ModalsSpec == ModalsInit /\ [][ModalsNext]_modalVars

(***************************************************************************)
(* Properties.                                                             *)
(***************************************************************************)
(* Every variable keeps its shape.                                         *)
ModalsTypeOK ==
    /\ modal \in [abort : 0 .. MaxShows, mounted : 0 .. MaxShows,
                  overlay : BOOLEAN]
    /\ \A i \in DOMAIN asks :
           asks[i] \in [kind : Kinds,
                       state : {"waits", "answered", "deaf", "through"}]
    /\ ousted \subseteq 1 .. MaxShows

(* showModal keeps one modal: a call that still waits for its answer is    *)
(* the one whose modal is on the page, seen by the user, unless the answer *)
(* that another modal gave when it was replaced took the new one away; and *)
(* a modal on the page is the one that the next replaces.                  *)
WaitingIsSeen ==
    /\ \A i \in DOMAIN asks :
           asks[i].state = "waits" =>
               \/ modal.mounted = i /\ modal.overlay
               \/ i \in ousted
    /\ modal.mounted # Nobody => modal.mounted = modal.abort
    /\ modal.overlay <=> modal.mounted # Nobody
=============================================================================

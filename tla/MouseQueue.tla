----------------------------- MODULE MouseQueue -----------------------------
(***************************************************************************)
(* How mouse movement reaches the channels (src/web/stream/input.ts):      *)
(* relative movement adds up and absolute positions replace each other     *)
(* while a channel is congested, a timer tries again, and a button or a    *)
(* reliable position comes first.                                          *)
(***************************************************************************)
EXTENDS Naturals

CONSTANT MaxMoves  \* bound: movements and positions of one behaviour

ASSUME QueueAssumption == MaxMoves \in Nat

VARIABLES
  ready,     \* connected
  relative,  \* movement that was asked for, that waits, that was sent; the timer
  absolute   \* the newest position, the one that waits, the one sent; the timer

queueVars == <<ready, relative, absolute>>

QueueInit ==
  /\ ready = FALSE
  /\ relative = [asked |-> 0, waiting |-> 0, sent |-> 0, timer |-> FALSE]
  /\ absolute = [newest |-> 0, waiting |-> 0, sent |-> 0, timer |-> FALSE]

QueueTypeOK ==
  /\ ready \in BOOLEAN
  /\ relative \in [asked : 0 .. MaxMoves, waiting : 0 .. MaxMoves,
                   sent : 0 .. MaxMoves, timer : BOOLEAN]
  /\ absolute \in [newest : 0 .. MaxMoves, waiting : 0 .. MaxMoves,  \* 0: none
                   sent : 0 .. MaxMoves, timer : BOOLEAN]

\* A slip of FlushRelative: what was sent is not taken off what waits.
FlushRelativeTwice(r, congested) ==
  IF congested THEN [r EXCEPT !.timer = TRUE]
  ELSE [r EXCEPT !.sent = @ + r.waiting]

\* flushPendingRelativeMouseMove
FlushRelative(r, congested) ==
  IF r.waiting = 0 THEN r
  ELSE IF ~ready THEN [r EXCEPT !.waiting = 0, !.asked = r.sent]
  ELSE IF congested THEN [r EXCEPT !.timer = TRUE]
  ELSE [r EXCEPT !.sent = @ + r.waiting, !.waiting = 0]

\* flushPendingAbsoluteMousePosition
FlushAbsolute(a, congested) ==
  IF a.waiting = 0 THEN a
  ELSE IF ~ready THEN [a EXCEPT !.waiting = 0, !.newest = a.sent]
  ELSE IF congested THEN [a EXCEPT !.timer = TRUE]
  ELSE [a EXCEPT !.sent = a.waiting, !.waiting = 0]

\* sendMouseMove
Move ==
  /\ relative.asked < MaxMoves
  /\ \E congested \in BOOLEAN :
       relative' =
         IF ready /\ ~relative.timer /\ relative.waiting = 0 /\ ~congested
         THEN [relative EXCEPT !.asked = @ + 1, !.sent = @ + 1]
         ELSE [relative EXCEPT !.asked = @ + 1, !.waiting = @ + 1,
                               !.timer = @ \/ ready]
  /\ UNCHANGED <<ready, absolute>>

\* sendMousePosition, unreliable: sent at once unless a timer is set.
Point ==
  /\ absolute.newest < MaxMoves
  /\ LET a == [absolute EXCEPT !.newest = @ + 1, !.waiting = absolute.newest + 1]
     IN  \E congested \in BOOLEAN :
           absolute' = IF ready /\ ~a.timer /\ ~congested THEN FlushAbsolute(a, FALSE)
                       ELSE [a EXCEPT !.timer = @ \/ ready]
  /\ UNCHANGED <<ready, relative>>

\* sendMousePosition, reliable: it replaces the position that waits.
PointReliably ==
  /\ absolute.newest < MaxMoves
  /\ \E congested \in BOOLEAN : relative' = FlushRelative(relative, congested)
  /\ absolute' = [absolute EXCEPT !.newest = @ + 1, !.sent = absolute.newest + 1,
                                  !.waiting = 0, !.timer = FALSE]
  /\ UNCHANGED ready

\* sendMouseButton flushes what waits, as far as the channels take it.
Button ==
  /\ \E congestedRelative, congestedAbsolute \in BOOLEAN :
       /\ relative' = FlushRelative(relative, congestedRelative)
       /\ absolute' = FlushAbsolute(absolute, congestedAbsolute)
  /\ UNCHANGED ready

RelativeTimerFires ==
  /\ relative.timer
  /\ \E congested \in BOOLEAN :
       relative' = FlushRelative([relative EXCEPT !.timer = FALSE], congested)
  /\ UNCHANGED <<ready, absolute>>

AbsoluteTimerFires ==
  /\ absolute.timer
  /\ \E congested \in BOOLEAN :
       absolute' = FlushAbsolute([absolute EXCEPT !.timer = FALSE], congested)
  /\ UNCHANGED <<ready, relative>>

\* clearMouseBatchState: on a start, a stop, a lock, another size or
\* configuration, movement that waits is dropped.
Batch(isReady) ==
  /\ ready' = isReady
  /\ relative' = [relative EXCEPT !.asked = relative.sent, !.waiting = 0, !.timer = FALSE]
  /\ absolute' = [absolute EXCEPT !.newest = absolute.sent, !.waiting = 0,
                                  !.timer = FALSE]

QueueNext ==
  \/ Move \/ Point \/ PointReliably \/ Button
  \/ RelativeTimerFires \/ AbsoluteTimerFires
  \/ \E isReady \in BOOLEAN : Batch(isReady)

QueueSpec == QueueInit /\ [][QueueNext]_queueVars

\* The host's cursor ends where the user put it: movement is sent or waits, and
\* what waits has a timer while there is a stream; the last position sent is
\* the newest unless a newer one waits, and nothing older is sent after it.
CursorFollows ==
  /\ relative.asked = relative.sent + relative.waiting
  /\ absolute.newest = IF absolute.waiting # 0 THEN absolute.waiting ELSE absolute.sent
  /\ ready =>
       /\ relative.waiting # 0 => relative.timer
       /\ absolute.waiting # 0 => absolute.timer
=============================================================================

------------------------- MODULE ClientInput_proofs -------------------------
EXTENDS MCWebClient, TLAPS, FiniteSetTheorems, WellFoundedInduction

-----------------------------------------------------------------------------
(* Mouse movement *)

RelativeType == [asked : 0 .. MaxMoves, waiting : 0 .. MaxMoves, sent : 0 .. MaxMoves, timer : BOOLEAN]
AbsoluteType == [newest : 0 .. MaxMoves, waiting : 0 .. MaxMoves, sent : 0 .. MaxMoves, timer : BOOLEAN]

\* What CursorFollows says of the movement and of the position.
RelativeFollows(r) == r \in RelativeType /\ r.asked = r.sent + r.waiting
AbsoluteFollows(a) == a \in AbsoluteType /\ a.newest = IF a.waiting # 0 THEN a.waiting ELSE a.sent
TimersSet(r, a) == (r.waiting # 0 => r.timer) /\ (a.waiting # 0 => a.timer)

QueueInv ==
  /\ ready \in BOOLEAN
  /\ RelativeFollows(relative)
  /\ AbsoluteFollows(absolute)
  /\ ready => TimersSet(relative, absolute)

LEMMA RelativeFields ==
  ASSUME QueueAssumption, NEW r \in RelativeType
  PROVE  /\ r.asked \in Nat /\ r.waiting \in Nat /\ r.sent \in Nat /\ r.timer \in BOOLEAN
         /\ r.asked <= MaxMoves /\ r.waiting <= MaxMoves /\ r.sent <= MaxMoves
         /\ MaxMoves \in Nat
<1>1. r.asked \in 0 .. MaxMoves /\ r.waiting \in 0 .. MaxMoves /\ r.sent \in 0 .. MaxMoves /\ r.timer \in BOOLEAN
  BY DEF RelativeType
<1> QED BY <1>1 DEF QueueAssumption

LEMMA AbsoluteFields ==
  ASSUME QueueAssumption, NEW a \in AbsoluteType
  PROVE  /\ a.newest \in Nat /\ a.waiting \in Nat /\ a.sent \in Nat /\ a.timer \in BOOLEAN
         /\ a.newest <= MaxMoves /\ a.waiting <= MaxMoves /\ a.sent <= MaxMoves
         /\ MaxMoves \in Nat
<1>1. a.newest \in 0 .. MaxMoves /\ a.waiting \in 0 .. MaxMoves /\ a.sent \in 0 .. MaxMoves /\ a.timer \in BOOLEAN
  BY DEF AbsoluteType
<1> QED BY <1>1 DEF QueueAssumption

\* What the handlers write into the records, for values in their range.
LEMMA RelativeWrites ==
  ASSUME NEW r \in RelativeType, NEW n \in 0 .. MaxMoves, NEW m \in 0 .. MaxMoves, NEW t \in BOOLEAN
  PROVE  /\ [r EXCEPT !.timer = t] \in RelativeType
         /\ [r EXCEPT !.sent = n, !.waiting = m] \in RelativeType
         /\ [r EXCEPT !.waiting = n, !.asked = m] \in RelativeType
         /\ [r EXCEPT !.asked = n, !.sent = m] \in RelativeType
         /\ [r EXCEPT !.asked = n, !.waiting = m, !.timer = t] \in RelativeType
BY Zenon DEF RelativeType

LEMMA AbsoluteWrites ==
  ASSUME NEW a \in AbsoluteType, NEW n \in 0 .. MaxMoves, NEW m \in 0 .. MaxMoves, NEW t \in BOOLEAN,
         NEW k \in 0 .. MaxMoves
  PROVE  /\ [a EXCEPT !.timer = t] \in AbsoluteType
         /\ [a EXCEPT !.sent = n, !.waiting = m] \in AbsoluteType
         /\ [a EXCEPT !.waiting = n, !.newest = m] \in AbsoluteType
         /\ [a EXCEPT !.newest = n, !.waiting = m] \in AbsoluteType
         /\ [a EXCEPT !.newest = n, !.waiting = m, !.timer = t] \in AbsoluteType
         /\ [a EXCEPT !.newest = n, !.sent = k, !.waiting = m, !.timer = t] \in AbsoluteType
BY Zenon DEF AbsoluteType

\* Movement that is flushed is sent, dropped without a stream, or waits for a timer.
LEMMA FlushRelativeFollows ==
  ASSUME QueueAssumption, NEW r, RelativeFollows(r), NEW congested \in BOOLEAN
  PROVE  /\ RelativeFollows(FlushRelative(r, congested))
         /\ ready => \/ FlushRelative(r, congested).waiting = 0
                     \/ FlushRelative(r, congested).timer
<1>1. r \in RelativeType
  BY DEF RelativeFollows
<1>2. /\ r.sent + r.waiting \in 0 .. MaxMoves /\ r.sent \in 0 .. MaxMoves /\ 0 \in 0 .. MaxMoves
      /\ r.waiting \in Nat /\ r.sent \in Nat
  BY <1>1, RelativeFields DEF RelativeFollows
<1>3. /\ [r EXCEPT !.waiting = 0, !.asked = r.sent] \in RelativeType
      /\ [r EXCEPT !.timer = TRUE] \in RelativeType
      /\ [r EXCEPT !.sent = r.sent + r.waiting, !.waiting = 0] \in RelativeType
  BY <1>1, <1>2, RelativeWrites
<1> QED BY <1>1, <1>2, <1>3 DEF RelativeFollows, RelativeType, FlushRelative

LEMMA FlushAbsoluteFollows ==
  ASSUME QueueAssumption, NEW a, AbsoluteFollows(a), NEW congested \in BOOLEAN
  PROVE  /\ AbsoluteFollows(FlushAbsolute(a, congested))
         /\ ready => \/ FlushAbsolute(a, congested).waiting = 0
                     \/ FlushAbsolute(a, congested).timer
<1>1. a \in AbsoluteType
  BY DEF AbsoluteFollows
<1>2. /\ a.waiting \in 0 .. MaxMoves /\ a.sent \in 0 .. MaxMoves /\ 0 \in 0 .. MaxMoves
  BY <1>1, AbsoluteFields
<1>3. /\ [a EXCEPT !.waiting = 0, !.newest = a.sent] \in AbsoluteType
      /\ [a EXCEPT !.timer = TRUE] \in AbsoluteType
      /\ [a EXCEPT !.sent = a.waiting, !.waiting = 0] \in AbsoluteType
  BY <1>1, <1>2, AbsoluteWrites
<1> QED BY <1>1, <1>2, <1>3 DEF AbsoluteFollows, AbsoluteType, FlushAbsolute

LEMMA QueueInitially == QueueAssumption /\ QueueInit => QueueInv
<1> SUFFICES ASSUME QueueAssumption, QueueInit PROVE QueueInv
  OBVIOUS
<1>1. 0 \in 0 .. MaxMoves
  BY DEF QueueAssumption
<1>2. relative \in RelativeType /\ absolute \in AbsoluteType
  BY <1>1 DEF QueueInit, RelativeType, AbsoluteType
<1>3. RelativeFollows(relative) /\ AbsoluteFollows(absolute)
  BY <1>2 DEF QueueInit, RelativeFollows, AbsoluteFollows
<1>4. ready = FALSE
  BY DEF QueueInit
<1> QED BY <1>3, <1>4 DEF QueueInv

LEMMA QueueStep ==
  ASSUME QueueAssumption, QueueInv, [QueueNext]_queueVars
  PROVE  QueueInv'
<1>0. /\ ready \in BOOLEAN /\ RelativeFollows(relative) /\ AbsoluteFollows(absolute)
      /\ relative \in RelativeType /\ absolute \in AbsoluteType
      /\ ready => TimersSet(relative, absolute)
  BY DEF QueueInv, RelativeFollows, AbsoluteFollows
<1>1. CASE Move
  <2>1. relative.asked + 1 \in 0 .. MaxMoves /\ relative.sent + 1 \in 0 .. MaxMoves /\ relative.waiting + 1 \in 0 .. MaxMoves
    BY <1>0, <1>1, RelativeFields DEF Move, RelativeFollows
  <2>2. /\ [relative EXCEPT !.asked = relative.asked + 1, !.sent = relative.sent + 1] \in RelativeType
        /\ [relative EXCEPT !.asked = relative.asked + 1, !.waiting = relative.waiting + 1,
                            !.timer = relative.timer \/ ready] \in RelativeType
    BY <1>0, <2>1, RelativeWrites
  <2>3. /\ relative' \in RelativeType /\ absolute' = absolute /\ ready' = ready
        /\ relative'.asked = relative.asked + 1
        /\ \/ relative'.sent = relative.sent + 1 /\ relative'.waiting = relative.waiting /\ relative.waiting = 0
           \/ relative'.sent = relative.sent /\ relative'.waiting = relative.waiting + 1 /\ (ready => relative'.timer)
    BY <1>0, <1>1, <2>2 DEF Move, RelativeType
  <2> QED BY <1>0, <2>3, RelativeFields DEF QueueInv, RelativeFollows, AbsoluteFollows, TimersSet
<1>2. CASE Point
  <2>. DEFINE a == [absolute EXCEPT !.newest = @ + 1, !.waiting = absolute.newest + 1]
  <2>1. absolute.newest + 1 \in 0 .. MaxMoves /\ absolute.newest + 1 # 0
    BY <1>0, <1>2, AbsoluteFields DEF Point
  <2>2. /\ a \in AbsoluteType
        /\ a.timer = absolute.timer /\ a.newest = a.waiting /\ a.waiting # 0
        /\ [a EXCEPT !.timer = a.timer \/ ready] \in AbsoluteType
    <3>1. a \in AbsoluteType
      BY <1>0, <2>1, AbsoluteWrites
    <3>2. a.timer = absolute.timer /\ a.newest = a.waiting /\ a.waiting # 0 /\ a.timer \in BOOLEAN
      BY <1>0, <2>1 DEF AbsoluteType
    <3> HIDE DEF a
    <3> QED BY <1>0, <2>1, <3>1, <3>2, AbsoluteWrites
  <2>3. PICK congested \in BOOLEAN :
          absolute' = IF ready /\ ~a.timer /\ ~congested THEN FlushAbsolute(a, FALSE)
                      ELSE [a EXCEPT !.timer = @ \/ ready]
    BY <1>2 DEF Point
  <2>4. ready' = ready /\ relative' = relative
    BY <1>2 DEF Point
  <2> HIDE DEF a
  <2>5. CASE ready /\ ~a.timer /\ ~congested
    BY <1>0, <2>2, <2>3, <2>4, <2>5, FlushAbsoluteFollows DEF QueueInv, AbsoluteFollows, TimersSet
  <2>6. CASE ~(ready /\ ~a.timer /\ ~congested)
    <3>1. /\ absolute' \in AbsoluteType /\ absolute'.newest = a.newest
          /\ absolute'.waiting = a.waiting /\ (ready => absolute'.timer)
      BY <2>2, <2>3, <2>6 DEF AbsoluteType
    <3> QED BY <1>0, <2>2, <2>4, <3>1 DEF QueueInv, AbsoluteFollows, TimersSet
  <2> QED BY <2>5, <2>6
<1>3. CASE PointReliably
  <2>1. PICK congested \in BOOLEAN : relative' = FlushRelative(relative, congested)
    BY <1>3 DEF PointReliably
  <2>2. absolute.newest + 1 \in 0 .. MaxMoves /\ 0 \in 0 .. MaxMoves
    BY <1>0, <1>3, AbsoluteFields DEF PointReliably
  <2>3. absolute' = [absolute EXCEPT !.newest = absolute.newest + 1, !.sent = absolute.newest + 1, !.waiting = 0, !.timer = FALSE]
    BY <1>3 DEF PointReliably
  <2>4. absolute' \in AbsoluteType
    BY <1>0, <2>2, <2>3, AbsoluteWrites
  <2>5. AbsoluteFollows(absolute') /\ absolute'.waiting = 0 /\ ready' = ready
    BY <1>0, <1>3, <2>3, <2>4 DEF PointReliably, AbsoluteFollows, AbsoluteType
  <2> QED BY <1>0, <2>1, <2>5, FlushRelativeFollows DEF QueueInv, TimersSet
<1>4. CASE Button
  <2>1. PICK c, d \in BOOLEAN :
          relative' = FlushRelative(relative, c) /\ absolute' = FlushAbsolute(absolute, d)
    BY <1>4 DEF Button
  <2> QED BY <1>0, <1>4, <2>1, FlushRelativeFollows, FlushAbsoluteFollows DEF Button, QueueInv, TimersSet
<1>5. CASE RelativeTimerFires
  <2>. DEFINE r == [relative EXCEPT !.timer = FALSE]
  <2>1. r \in RelativeType
    BY <1>0, Zenon DEF RelativeType
  <2>2. r.asked = relative.asked /\ r.sent = relative.sent /\ r.waiting = relative.waiting
    BY <1>0 DEF RelativeType
  <2>3. PICK c \in BOOLEAN : relative' = FlushRelative(r, c)
    BY <1>5 DEF RelativeTimerFires
  <2>4. ready' = ready /\ absolute' = absolute
    BY <1>5 DEF RelativeTimerFires
  <2> HIDE DEF r
  <2> QED BY <1>0, <2>1, <2>2, <2>3, <2>4, FlushRelativeFollows DEF QueueInv, TimersSet, RelativeFollows
<1>6. CASE AbsoluteTimerFires
  <2>. DEFINE a == [absolute EXCEPT !.timer = FALSE]
  <2>1. a \in AbsoluteType
    BY <1>0, Zenon DEF AbsoluteType
  <2>2. a.newest = absolute.newest /\ a.sent = absolute.sent /\ a.waiting = absolute.waiting
    BY <1>0 DEF AbsoluteType
  <2>3. PICK c \in BOOLEAN : absolute' = FlushAbsolute(a, c)
    BY <1>6 DEF AbsoluteTimerFires
  <2>4. ready' = ready /\ relative' = relative
    BY <1>6 DEF AbsoluteTimerFires
  <2> HIDE DEF a
  <2> QED BY <1>0, <2>1, <2>2, <2>3, <2>4, FlushAbsoluteFollows DEF QueueInv, TimersSet, AbsoluteFollows
<1>7. ASSUME NEW isReady \in BOOLEAN, Batch(isReady) PROVE QueueInv'
  <2>1. relative.sent \in 0 .. MaxMoves /\ absolute.sent \in 0 .. MaxMoves /\ 0 \in 0 .. MaxMoves /\ relative.sent \in Nat
    BY <1>0, RelativeFields, AbsoluteFields
  <2>2. relative' \in RelativeType /\ absolute' \in AbsoluteType
    BY <1>0, <1>7, <2>1, RelativeWrites, AbsoluteWrites DEF Batch
  <2>3. /\ relative'.asked = relative'.sent /\ relative'.waiting = 0 /\ relative'.sent = relative.sent
        /\ absolute'.newest = absolute'.sent /\ absolute'.waiting = 0 /\ ready' \in BOOLEAN
    BY <1>0, <1>7 DEF Batch, RelativeType, AbsoluteType
  <2> QED BY <2>1, <2>2, <2>3 DEF QueueInv, RelativeFollows, AbsoluteFollows, TimersSet
<1>8. CASE UNCHANGED queueVars
  BY <1>0, <1>8 DEF queueVars, QueueInv, TimersSet, RelativeFollows, AbsoluteFollows
<1> QED BY <1>1, <1>2, <1>3, <1>4, <1>5, <1>6, <1>7, <1>8 DEF QueueNext

LEMMA QueueShows == QueueInv => QueueTypeOK /\ CursorFollows
BY DEF QueueInv, QueueTypeOK, CursorFollows, RelativeFollows, AbsoluteFollows, TimersSet,
       RelativeType, AbsoluteType

\* The host's cursor follows the user's mouse, for any number of movements.
THEOREM CursorKept == QueueSpec => []CursorFollows
<1>1. QueueInit => QueueInv
  BY QueueInitially, QueueAssumption
<1>2. QueueInv /\ [QueueNext]_queueVars => QueueInv'
  BY QueueStep, QueueAssumption
<1> QED BY <1>1, <1>2, QueueShows, PTL DEF QueueSpec

-----------------------------------------------------------------------------
(* Mouse and touch *)

LinkType == [connected : BOOLEAN, locked : BOOLEAN, mode : TouchModes]
TouchType == [track : [Fingers -> Tracks], primary : Fingers \cup {NoFinger},
              action : {"default", "scroll", "screenKeyboard"}, two : BOOLEAN]
UserType == [glass : SUBSET Fingers, mouse : SUBSET Buttons, bridge : SUBSET Buttons]
PastType == [stray : SUBSET Buttons, ghosts : SUBSET Fingers]

\* What is down on the host and was not passed over.
HeldUp == host \ past.stray

\* The finger that leads is tracked, only the mode that drags has drags, and
\* what is tracked is on the glass or has ended unseen.
GestureOK ==
  /\ touch.primary # NoFinger => touch.track[touch.primary] # "none"
  /\ \A f \in Fingers : touch.track[f] = "drag" => link.mode = "pointAndDrag"
  /\ GesturesEnd

\* What is down and was not passed over is remembered as pressed; the lock has
\* passed everything over, and a two-finger click leaves nothing down.
HoldOK ==
  /\ HeldUp \subseteq pressed
  /\ link.locked => HeldUp = {}
  /\ touch.two => HeldUp \subseteq user.mouse \cup user.bridge
  /\ NoStuckButton

PointerTypes ==
  /\ link \in LinkType /\ touch \in TouchType /\ user \in UserType /\ past \in PastType
  /\ pressed \subseteq Buttons /\ host \subseteq Buttons
  /\ user.bridge \subseteq {Left}

PointerInv == PointerTypes /\ GestureOK /\ HoldOK

LEMMA PointerShows == PointerInv => PointerTypeOK /\ NoStuckButton /\ GesturesEnd
BY DEF PointerInv, PointerTypes, PointerTypeOK, GestureOK, HoldOK, LinkType, TouchType, UserType, PastType

LEMMA PointerInitially == PointerAssumption /\ PointerInit => PointerInv
<1> SUFFICES ASSUME PointerAssumption, PointerInit PROVE PointerInv
  OBVIOUS
<1>1. NoTracks \in [Fingers -> Tracks]
  BY DEF NoTracks, Tracks
<1>2. /\ link \in LinkType /\ user \in UserType /\ past \in PastType
      /\ user.bridge = {} /\ host = {} /\ pressed = {}
      /\ touch = NoGesture
  BY DEF PointerInit, LinkType, TouchModes, UserType, PastType
<1>3. /\ NoGesture \in TouchType /\ NoGesture.primary = NoFinger
      /\ NoGesture.two = FALSE /\ NoGesture.track = NoTracks
  BY <1>1 DEF NoGesture, TouchType
<1>4. Tracked(NoTracks) = {} /\ \A f \in Fingers : NoTracks[f] = "none"
  BY DEF Tracked, NoTracks
<1> QED BY <1>2, <1>3, <1>4 DEF PointerInv, PointerTypes, GestureOK, HoldOK, HeldUp, GesturesEnd, NoStuckButton

\* What Send leaves down.
LEMMA SendHolds ==
  ASSUME past \in PastType, pressed \subseteq Buttons, host \subseteq Buttons, HeldUp \subseteq pressed,
         NEW press, NEW up, NEW lost, press \subseteq Buttons, up \subseteq Buttons, lost \subseteq Buttons,
         Send(press, up, lost)
  PROVE  /\ past' \in PastType /\ pressed' \subseteq Buttons /\ host' \subseteq Buttons
         /\ past'.ghosts = past.ghosts
         /\ HeldUp' \subseteq pressed'
         /\ HeldUp' \subseteq (HeldUp \cup press) \ (up \cup lost)
<1>. DEFINE released == up \cap (pressed \cup press)
<1>1. /\ pressed' = (pressed \cup press) \ up
      /\ host' = (host \cup (press \ pressed)) \ released
      /\ past' = [past EXCEPT !.stray = ((past.stray \cup lost) \cap host') \ released]
  BY DEF Send
<1>2. pressed' \subseteq Buttons /\ host' \subseteq Buttons
  BY <1>1
<1>3. past'.stray = ((past.stray \cup lost) \cap host') \ released /\ past'.ghosts = past.ghosts
  BY <1>1 DEF PastType
<1>4. past' \in PastType
  BY <1>1, <1>2 DEF PastType
<1>5. HeldUp' \subseteq (HeldUp \cup press) \ (up \cup lost)
  BY <1>1, <1>3 DEF HeldUp
<1> QED BY <1>1, <1>2, <1>3, <1>4, <1>5 DEF HeldUp

LEMMA ForgetHolds ==
  ASSUME past \in PastType, host \subseteq Buttons, Forget
  PROVE  /\ past' \in PastType /\ pressed' = {} /\ host' = host
         /\ past'.ghosts = past.ghosts /\ HeldUp' = {}
BY DEF Forget, PastType, HeldUp

\* Types of the fields, and what the handlers write into them.
LEMMA PointerFields ==
  ASSUME PointerTypes
  PROVE  /\ link.connected \in BOOLEAN /\ link.locked \in BOOLEAN /\ link.mode \in TouchModes
         /\ touch.track \in [Fingers -> Tracks] /\ touch.primary \in Fingers \cup {NoFinger}
         /\ touch.action \in {"default", "scroll", "screenKeyboard"} /\ touch.two \in BOOLEAN
         /\ user.glass \subseteq Fingers /\ user.mouse \subseteq Buttons /\ user.bridge \subseteq Buttons
         /\ past.stray \subseteq Buttons /\ past.ghosts \subseteq Fingers
BY DEF PointerTypes, LinkType, TouchType, UserType, PastType

\* The state that GestureOK reads, left alone or with more fingers on the glass.
LEMMA GestureKept ==
  ASSUME GestureOK, touch'.track = touch.track, touch'.primary = touch.primary,
         link'.mode = link.mode, user.glass \subseteq user'.glass, past'.ghosts = past.ghosts
  PROVE  GestureOK'
<1>1. Tracked(touch'.track) = Tracked(touch.track)
  BY DEF Tracked
<1> QED BY <1>1 DEF GestureOK, GesturesEnd

\* A step that leaves down no more than there was, for the same user.
LEMMA HoldKept ==
  ASSUME HoldOK, HeldUp' \subseteq HeldUp, HeldUp' \subseteq pressed',
         link'.locked => link.locked, touch'.two => touch.two, user' = user,
         touch'.track = touch.track
  PROVE  HoldOK'
BY DEF HoldOK, NoStuckButton, HeldUp

\* No touch is tracked, and none leads.
LEMMA NoGestureOK ==
  ASSUME touch'.track = NoTracks, touch'.primary = NoFinger
  PROVE  GestureOK'
<1>1. Tracked(NoTracks) = {} /\ \A f \in Fingers : NoTracks[f] = "none"
  BY DEF Tracked, NoTracks
<1> QED BY <1>1 DEF GestureOK, GesturesEnd

LEMMA StreamStep ==
  ASSUME PointerAssumption, PointerInv, StreamStarts \/ StreamStops PROVE PointerInv'
<1>1. PointerTypes /\ GestureOK /\ HoldOK
  BY DEF PointerInv
<1>2. /\ link' \in LinkType /\ link'.mode = link.mode
      /\ past' \in PastType /\ past'.ghosts = past.ghosts
      /\ pressed' = {} /\ host' = {} /\ user' = user
  BY <1>1 DEF StreamStarts, StreamStops, PointerTypes, LinkType, PastType
<1>3. touch' \in TouchType /\ touch'.track = touch.track /\ touch'.primary = touch.primary
  BY <1>1, Zenon DEF StreamStarts, StreamStops, PointerTypes, TouchType
<1>4. HeldUp' = {}
  BY <1>2 DEF HeldUp
<1>5. PointerTypes'
  BY <1>1, <1>2, <1>3 DEF PointerTypes
<1>6. GestureOK'
  BY <1>1, <1>2, <1>3, GestureKept
<1>7. HoldOK'
  BY <1>4 DEF HoldOK, NoStuckButton, HeldUp
<1> QED BY <1>5, <1>6, <1>7 DEF PointerInv

LEMMA LockStep ==
  ASSUME PointerAssumption, PointerInv,
         PointerLockChanges \/ (\E locked \in BOOLEAN : SetTransitionLocked(locked))
  PROVE  PointerInv'
<1>1. PointerTypes /\ GestureOK /\ HoldOK
  BY DEF PointerInv
<1>2. /\ link' \in LinkType /\ link'.mode = link.mode /\ user' = user
  BY <1>1 DEF PointerLockChanges, SetTransitionLocked, PointerTypes, LinkType
<1>3. /\ touch' \in TouchType /\ touch'.track = touch.track /\ touch'.primary = touch.primary
      /\ touch'.two => touch.two
  BY <1>1, Zenon DEF PointerLockChanges, SetTransitionLocked, PointerTypes, TouchType
<1>4. CASE Forget
  <2>1. /\ past' \in PastType /\ pressed' = {} /\ host' = host
        /\ past'.ghosts = past.ghosts /\ HeldUp' = {}
    BY <1>1, <1>4, ForgetHolds DEF PointerTypes
  <2>2. PointerTypes'
    BY <1>1, <1>2, <1>3, <2>1 DEF PointerTypes
  <2>3. GestureOK'
    BY <1>1, <1>2, <1>3, <2>1, GestureKept
  <2>4. HoldOK'
    BY <2>1 DEF HoldOK, NoStuckButton, HeldUp
  <2> QED BY <2>2, <2>3, <2>4 DEF PointerInv
<1>5. CASE SetTransitionLocked(FALSE)
  <2>1. pressed' = pressed /\ touch' = touch /\ host' = host /\ past' = past /\ link'.locked = FALSE
    BY <1>1, <1>5 DEF SetTransitionLocked, PointerTypes, LinkType
  <2>2. PointerTypes'
    BY <1>1, <1>2, <1>3, <2>1 DEF PointerTypes
  <2>3. GestureOK'
    BY <1>1, <1>2, <1>3, <2>1, GestureKept
  <2>4. HeldUp' = HeldUp
    BY <2>1 DEF HeldUp
  <2>5. HoldOK'
    BY <1>1, <1>2, <2>1, <2>4, HoldKept DEF HoldOK
  <2> QED BY <2>2, <2>3, <2>5 DEF PointerInv
<1> QED BY <1>4, <1>5 DEF PointerLockChanges, SetTransitionLocked

LEMMA ConfigStep ==
  ASSUME PointerAssumption, PointerInv, NEW mode \in TouchModes, SetConfig(mode) PROVE PointerInv'
<1>1. PointerTypes /\ GestureOK /\ HoldOK
  BY DEF PointerInv
<1>2. /\ link' \in LinkType /\ link'.locked = link.locked
      /\ past' \in PastType /\ past'.stray = past.stray \cup (host \ user.mouse)
      /\ pressed' = pressed /\ host' = host /\ user' = user
  BY <1>1, PointerFields DEF SetConfig, PointerTypes, LinkType, PastType
<1>3. NoTracks \in [Fingers -> Tracks]
  BY DEF NoTracks, Tracks
<1>4. touch' \in TouchType /\ touch'.track = NoTracks /\ touch'.primary = NoFinger /\ touch'.two = FALSE
  BY <1>1, <1>3, PointerFields DEF SetConfig, NoGesture, TouchType
<1>5. HeldUp' \subseteq HeldUp \cap user.mouse
  BY <1>2 DEF HeldUp
<1>6. PointerTypes'
  BY <1>1, <1>2, <1>4 DEF PointerTypes
<1>7. GestureOK'
  BY <1>4, NoGestureOK
<1>8. HoldOK'
  BY <1>1, <1>2, <1>4, <1>5 DEF HoldOK, NoStuckButton, HeldUp
<1> QED BY <1>6, <1>7, <1>8 DEF PointerInv

LEMMA MouseStep ==
  ASSUME PointerAssumption, PointerInv, NEW b \in Buttons, MouseDown(b) \/ MouseUp(b) PROVE PointerInv'
<1>1. PointerTypes /\ GestureOK /\ HoldOK
  BY DEF PointerInv
<1>2. link' = link /\ touch' = touch /\ user' \in UserType /\ user'.glass = user.glass /\ user'.bridge = user.bridge
  BY <1>1 DEF MouseDown, MouseUp, PointerTypes, UserType
<1>3. CASE MouseDown(b)
  <2>1. user'.mouse = user.mouse \cup {b}
    BY <1>1, <1>3 DEF MouseDown, PointerTypes, UserType
  <2>2. CASE Send({b}, {}, {}) /\ ~link.locked
    <3>1. /\ past' \in PastType /\ pressed' \subseteq Buttons /\ host' \subseteq Buttons
          /\ past'.ghosts = past.ghosts /\ HeldUp' \subseteq pressed' /\ HeldUp' \subseteq HeldUp \cup {b}
      BY <1>1, <2>2, SendHolds DEF PointerTypes, HoldOK
    <3>2. HoldOK'
      BY <1>1, <1>2, <2>1, <2>2, <3>1 DEF HoldOK, NoStuckButton, HeldUp
    <3> QED BY <1>1, <1>2, <3>1, <3>2, GestureKept DEF PointerTypes, PointerInv
  <2>3. CASE UNCHANGED <<pressed, host, past>>
    <3>1. HoldOK'
      BY <1>1, <1>2, <2>1, <2>3 DEF HoldOK, NoStuckButton, HeldUp
    <3> QED BY <1>1, <1>2, <2>3, <3>1, GestureKept DEF PointerTypes, PointerInv
  <2> QED BY <1>3, <2>2, <2>3 DEF MouseDown, Taken
<1>4. CASE MouseUp(b)
  <2>1. user'.mouse = user.mouse \ {b}
    BY <1>1, <1>4 DEF MouseUp, PointerTypes, UserType
  <2>2. Send({}, {b}, {}) \/ Send({}, {}, {b})
    BY <1>4 DEF MouseUp
  <2>3. /\ past' \in PastType /\ pressed' \subseteq Buttons /\ host' \subseteq Buttons
        /\ past'.ghosts = past.ghosts /\ HeldUp' \subseteq pressed' /\ HeldUp' \subseteq HeldUp \ {b}
    <3>1. CASE Send({}, {b}, {})
      BY <1>1, <3>1, SendHolds DEF PointerTypes, HoldOK
    <3>2. CASE Send({}, {}, {b})
      BY <1>1, <3>2, SendHolds DEF PointerTypes, HoldOK
    <3> QED BY <2>2, <3>1, <3>2
  <2>4. HoldOK'
    BY <1>1, <1>2, <2>1, <2>3 DEF HoldOK, NoStuckButton, HeldUp
  <2> QED BY <1>1, <1>2, <2>3, <2>4, GestureKept DEF PointerTypes, PointerInv
<1> QED BY <1>3, <1>4

LEMMA BridgeStep ==
  ASSUME PointerAssumption, PointerInv, NEW isDown \in BOOLEAN, BridgeButton(isDown) PROVE PointerInv'
<1>1. PointerTypes /\ GestureOK /\ HoldOK /\ Left \in Buttons
  BY DEF PointerInv, PointerAssumption
<1>2. /\ link' = link /\ touch' = touch /\ user' \in UserType
      /\ user'.glass = user.glass /\ user'.mouse = user.mouse
      /\ user'.bridge = IF isDown THEN {Left} ELSE {}
  BY <1>1 DEF BridgeButton, PointerTypes, UserType
<1>3. CASE isDown
  <2>1. (Send({Left}, {}, {}) /\ ~link.locked) \/ Send({}, {}, {})
    BY <1>3 DEF BridgeButton, BridgeActive
  <2>2. /\ past' \in PastType /\ pressed' \subseteq Buttons /\ host' \subseteq Buttons
        /\ past'.ghosts = past.ghosts /\ HeldUp' \subseteq pressed'
        /\ HeldUp' \subseteq HeldUp \cup {Left} /\ (link.locked => HeldUp' \subseteq HeldUp)
    <3>1. CASE Send({Left}, {}, {}) /\ ~link.locked
      BY <1>1, <3>1, SendHolds DEF PointerTypes, HoldOK
    <3>2. CASE Send({}, {}, {})
      BY <1>1, <3>2, SendHolds DEF PointerTypes, HoldOK
    <3> QED BY <2>1, <3>1, <3>2
  <2>3. HoldOK'
    BY <1>1, <1>2, <1>3, <2>2 DEF HoldOK, NoStuckButton, HeldUp, PointerTypes
  <2> QED BY <1>1, <1>2, <1>3, <2>2, <2>3, GestureKept DEF PointerTypes, PointerInv
<1>4. CASE ~isDown
  <2>1. Send({}, {Left}, {}) \/ Send({}, {}, {Left})
    BY <1>4 DEF BridgeButton
  <2>2. /\ past' \in PastType /\ pressed' \subseteq Buttons /\ host' \subseteq Buttons
        /\ past'.ghosts = past.ghosts /\ HeldUp' \subseteq pressed' /\ HeldUp' \subseteq HeldUp \ {Left}
    <3>1. CASE Send({}, {Left}, {})
      BY <1>1, <3>1, SendHolds DEF PointerTypes, HoldOK
    <3>2. CASE Send({}, {}, {Left})
      BY <1>1, <3>2, SendHolds DEF PointerTypes, HoldOK
    <3> QED BY <2>1, <3>1, <3>2
  <2>3. HoldOK'
    BY <1>1, <1>2, <1>4, <2>2 DEF HoldOK, NoStuckButton, HeldUp, PointerTypes
  <2> QED BY <1>1, <1>2, <1>4, <2>2, <2>3, GestureKept DEF PointerTypes, PointerInv
<1> QED BY <1>3, <1>4

\* A click releases what it presses.
LEMMA ClickHolds ==
  ASSUME past \in PastType, pressed \subseteq Buttons, host \subseteq Buttons, HeldUp \subseteq pressed,
         NEW b, Click(b)
  PROVE  /\ past' \in PastType /\ pressed' \subseteq Buttons /\ host' \subseteq Buttons
         /\ past'.ghosts = past.ghosts
         /\ HeldUp' \subseteq pressed'
         /\ HeldUp' \subseteq HeldUp \ {b}
<1>1. Send({b} \cap Buttons, {b} \cap Buttons, {})
  BY DEF Click
<1>. DEFINE B == {b} \cap Buttons
<1>2. B \subseteq Buttons /\ HeldUp \subseteq Buttons
  BY DEF HeldUp
<1>3. /\ past' \in PastType /\ pressed' \subseteq Buttons /\ host' \subseteq Buttons
      /\ past'.ghosts = past.ghosts
      /\ HeldUp' \subseteq pressed'
      /\ HeldUp' \subseteq (HeldUp \cup B) \ (B \cup {})
  BY <1>1, <1>2, SendHolds
<1> QED BY <1>2, <1>3

LEMMA WakeStep ==
  ASSUME PointerAssumption, PointerInv, WakePulse PROVE PointerInv'
<1>1. PointerTypes /\ GestureOK /\ HoldOK
  BY DEF PointerInv
<1>2. link' = link /\ touch' = touch /\ user' = user /\ Click(Left)
  BY DEF WakePulse
<1>3. /\ past' \in PastType /\ pressed' \subseteq Buttons /\ host' \subseteq Buttons
      /\ past'.ghosts = past.ghosts /\ HeldUp' \subseteq pressed' /\ HeldUp' \subseteq HeldUp
  BY <1>1, <1>2, ClickHolds DEF PointerTypes, HoldOK
<1>4. HoldOK'
  BY <1>1, <1>2, <1>3, HoldKept
<1> QED BY <1>1, <1>2, <1>3, <1>4, GestureKept DEF PointerTypes, PointerInv

\* The fingers that start are tracked; those that were stay as they are.
LEMMA TracksStart ==
  ASSUME NEW t \in [Fingers -> Tracks], NEW F, F \subseteq Fingers
  PROVE  /\ WithTracks(t, F) \in [Fingers -> Tracks]
         /\ \A f \in F : WithTracks(t, F)[f] # "none"
         /\ \A f \in Fingers : t[f] # "none" => WithTracks(t, F)[f] = t[f]
         /\ \A f \in Fingers : WithTracks(t, F)[f] = "drag" <=> t[f] = "drag"
         /\ Tracked(WithTracks(t, F)) = Tracked(t) \cup F
BY DEF WithTracks, Tracked, Tracks

\* A second or third finger makes a gesture; no finger stops being tracked.
LEMMA MoreFingers ==
  ASSUME NEW g \in TouchType,
         g.primary # NoFinger => g.primary \in Fingers /\ g.track[g.primary] # "none"
  PROVE  LET h == ScrollOrKeyboard(g)
         IN  /\ h \in TouchType /\ h.primary = g.primary /\ h.two = g.two
             /\ \A f \in Fingers : h.track[f] = "drag" <=> g.track[f] = "drag"
             /\ \A f \in Fingers : h.track[f] = "none" <=> g.track[f] = "none"
<1>. DEFINE h == ScrollOrKeyboard(g)
<1>1. g.track \in [Fingers -> Tracks] /\ g.primary \in Fingers \cup {NoFinger} /\ g.two \in BOOLEAN
  BY DEF TouchType
<1>2. CASE h = g
  BY <1>2
<1>3. CASE /\ h # g /\ g.primary # NoFinger
           /\ g.track[g.primary] = "still"
           /\ h = [g EXCEPT !.action = "scroll",
                            !.track[g.primary] = IF link.mode = "pointAndDrag" THEN "moved" ELSE @]
  <2>1. h.primary = g.primary /\ h.two = g.two
        /\ h.track = [g.track EXCEPT ![g.primary] = IF link.mode = "pointAndDrag" THEN "moved" ELSE @]
    BY <1>3 DEF TouchType
  <2>2. h.track \in [Fingers -> Tracks]
    BY <1>1, <1>3, <2>1 DEF Tracks
  <2>3. h \in TouchType
    <3>1. [g EXCEPT !.action = "scroll", !.track = h.track] \in TouchType
      BY <2>2, Zenon DEF TouchType
    <3>2. h = [g EXCEPT !.action = "scroll", !.track = h.track]
      BY <1>3, <2>1 DEF TouchType
    <3> QED BY <3>1, <3>2
  <2> QED BY <1>1, <1>3, <2>1, <2>3
<1>4. CASE h = [g EXCEPT !.action = "screenKeyboard"]
  BY <1>4 DEF TouchType
<1>5. \/ h = g
      \/ /\ h # g /\ g.primary # NoFinger
         /\ g.track[g.primary] = "still"
         /\ h = [g EXCEPT !.action = "scroll",
                          !.track[g.primary] = IF link.mode = "pointAndDrag" THEN "moved" ELSE @]
      \/ h = [g EXCEPT !.action = "screenKeyboard"]
  BY Zenon DEF ScrollOrKeyboard
<1> QED BY <1>2, <1>3, <1>4, <1>5

\* While the bridge is active nothing drags, and the gestures are forgotten.
LEMMA BridgeForgets ==
  ASSUME PointerAssumption, PointerInv, BridgeActive, touch' = NoGesture, link' = link,
         past' = [past EXCEPT !.ghosts = {}], UNCHANGED <<pressed, host>>,
         user' \in UserType, user'.mouse = user.mouse, user'.bridge = user.bridge
  PROVE  PointerInv'
<1>1. PointerTypes /\ GestureOK /\ HoldOK /\ link.mode = "native"
  BY DEF PointerInv, BridgeActive
<1>2. NoTracks \in [Fingers -> Tracks]
  BY DEF NoTracks, Tracks
<1>3. touch' \in TouchType /\ touch'.track = NoTracks /\ touch'.primary = NoFinger /\ touch'.two = FALSE
  BY <1>2 DEF NoGesture, TouchType
<1>4. past' \in PastType /\ past'.stray = past.stray /\ HeldUp' = HeldUp
  BY <1>1 DEF PointerTypes, PastType, HeldUp
<1>5. HeldUp \subseteq user.mouse \cup user.bridge
  BY <1>1, PointerFields DEF HoldOK, NoStuckButton, HeldUp, GestureOK
<1>6. HoldOK'
  BY <1>1, <1>3, <1>4, <1>5 DEF HoldOK, NoStuckButton, HeldUp
<1> QED BY <1>1, <1>3, <1>4, <1>6, NoGestureOK DEF PointerTypes, PointerInv

LEMMA TouchStartStep ==
  ASSUME PointerAssumption, PointerInv, NEW F \in SUBSET Fingers, TouchStart(F) PROVE PointerInv'
<1>1. PointerTypes /\ GestureOK /\ HoldOK /\ NoFinger \notin Fingers
  BY DEF PointerInv, PointerAssumption
<1>2. /\ link' = link /\ user' \in UserType /\ user'.glass = user.glass \cup F
      /\ user'.mouse = user.mouse /\ user'.bridge = user.bridge
  BY <1>1, PointerFields DEF TouchStart, PointerTypes, UserType
<1>. DEFINE tracks == WithTracks(touch.track, F)
<1>3. /\ tracks \in [Fingers -> Tracks]
      /\ \A f \in F : tracks[f] # "none"
      /\ \A f \in Fingers : touch.track[f] # "none" => tracks[f] = touch.track[f]
      /\ \A f \in Fingers : tracks[f] = "drag" <=> touch.track[f] = "drag"
      /\ Tracked(tracks) = Tracked(touch.track) \cup F
  BY <1>1, PointerFields, TracksStart
<1>4. CASE link.locked
  <2>1. touch' = touch /\ pressed' = pressed /\ host' = host /\ past' = past /\ HeldUp' = HeldUp
    BY <1>4 DEF TouchStart, HeldUp
  <2>2. HoldOK'
    BY <1>1, <1>2, <2>1 DEF HoldOK, NoStuckButton, HeldUp
  <2> QED BY <1>1, <1>2, <2>1, <2>2, GestureKept DEF PointerTypes, PointerInv
<1>5. CASE ~link.locked /\ BridgeActive
  <2>1. touch' = NoGesture /\ past' = [past EXCEPT !.ghosts = {}] /\ UNCHANGED <<pressed, host>>
    BY <1>5 DEF TouchStart
  <2> QED BY <1>2, <1>5, <2>1, BridgeForgets
<1>6. CASE ~link.locked /\ ~BridgeActive /\ TwoFingers(F, tracks)
  <2>1. /\ touch' = [track |-> tracks, primary |-> NoFinger, action |-> "default", two |-> TRUE]
        /\ Click(Right)
    BY <1>6 DEF TouchStart
  <2> HIDE DEF tracks
  <2>2. touch' \in TouchType /\ touch'.track = tracks /\ touch'.primary = NoFinger
    BY <1>3, <2>1 DEF TouchType
  <2>3. /\ past' \in PastType /\ pressed' \subseteq Buttons /\ host' \subseteq Buttons
        /\ past'.ghosts = past.ghosts /\ HeldUp' \subseteq pressed' /\ HeldUp' \subseteq HeldUp
    BY <1>1, <2>1, ClickHolds DEF PointerTypes, HoldOK
  <2>4. HeldUp \subseteq user.mouse \cup user.bridge
    BY <1>1, <1>6 DEF TwoFingers, HoldOK, NoStuckButton, HeldUp
  <2>5. HoldOK'
    BY <1>1, <1>2, <1>6, <2>3, <2>4 DEF HoldOK, NoStuckButton, HeldUp
  <2>6. GestureOK'
    BY <1>1, <1>2, <1>3, <2>2, <2>3 DEF GestureOK, GesturesEnd
  <2> QED BY <1>1, <1>2, <2>2, <2>3, <2>5, <2>6 DEF PointerTypes, PointerInv
<1>7. CASE ~link.locked /\ ~BridgeActive /\ ~TwoFingers(F, tracks)
  <2>1. /\ \E f \in F :
             touch' =
               IF ~(ByMouse \/ link.mode = "native") THEN [touch EXCEPT !.track = tracks]
               ELSE ScrollOrKeyboard(
                 IF touch.primary # NoFinger THEN [touch EXCEPT !.track = tracks]
                 ELSE [touch EXCEPT !.track = tracks, !.primary = f, !.action = "default"])
        /\ UNCHANGED <<pressed, host, past>>
    BY <1>7 DEF TouchStart
  <2> HIDE DEF tracks
  <2>2. PICK f \in F :
          touch' =
            IF ~(ByMouse \/ link.mode = "native") THEN [touch EXCEPT !.track = tracks]
            ELSE ScrollOrKeyboard(
              IF touch.primary # NoFinger THEN [touch EXCEPT !.track = tracks]
              ELSE [touch EXCEPT !.track = tracks, !.primary = f, !.action = "default"])
    BY <2>1
  <2>. DEFINE g == IF touch.primary # NoFinger \/ ~(ByMouse \/ link.mode = "native")
                   THEN [touch EXCEPT !.track = tracks]
                   ELSE [touch EXCEPT !.track = tracks, !.primary = f, !.action = "default"]
  <2>3. f \in Fingers /\ tracks[f] # "none" /\ touch \in TouchType
    BY <1>1, <1>3 DEF PointerTypes
  <2>4. g \in TouchType
    <3>1. [touch EXCEPT !.track = tracks] \in TouchType
      BY <1>3, <2>3, Zenon DEF TouchType
    <3>2. [touch EXCEPT !.track = tracks, !.primary = f, !.action = "default"] \in TouchType
      <4>1. f \in Fingers \cup {NoFinger} /\ "default" \in {"default", "scroll", "screenKeyboard"}
        BY <2>3
      <4> QED BY <1>3, <2>3, <4>1, Zenon DEF TouchType
    <3> QED BY <3>1, <3>2
  <2>5. g.track = tracks /\ g.two = touch.two /\ g.primary \in {touch.primary, f}
    BY <2>3 DEF TouchType
  <2>6. touch' = g \/ touch' = ScrollOrKeyboard(g)
    BY <2>2
  <2> HIDE DEF g
  <2>7. g.primary # NoFinger => g.primary \in Fingers /\ g.track[g.primary] # "none"
    BY <1>1, <1>3, <2>3, <2>5, PointerFields DEF GestureOK
  <2>8. /\ touch' \in TouchType /\ touch'.primary = g.primary /\ touch'.two = g.two
        /\ \A x \in Fingers : touch'.track[x] = "drag" <=> tracks[x] = "drag"
        /\ \A x \in Fingers : touch'.track[x] = "none" <=> tracks[x] = "none"
    BY <2>4, <2>5, <2>6, <2>7, MoreFingers
  <2>9. Tracked(touch'.track) = Tracked(tracks) /\ past' = past /\ HeldUp' = HeldUp
    BY <2>1, <2>8 DEF Tracked, HeldUp
  <2>10. GestureOK'
    <3>1. touch'.primary # NoFinger => touch'.track[touch'.primary] # "none"
      BY <2>5, <2>7, <2>8
    <3>2. \A x \in Fingers : touch'.track[x] = "drag" => link'.mode = "pointAndDrag"
      BY <1>1, <1>2, <1>3, <2>8 DEF GestureOK
    <3>3. Tracked(touch'.track) \cup ({touch'.primary} \ {NoFinger}) \subseteq user'.glass \cup past'.ghosts
      BY <1>1, <1>2, <1>3, <2>5, <2>8, <2>9 DEF GestureOK, GesturesEnd
    <3> QED BY <3>1, <3>2, <3>3 DEF GestureOK, GesturesEnd
  <2>11. HoldOK'
    <3>1. \A x \in user.glass : touch.track[x] = "drag" => touch'.track[x] = "drag"
      BY <1>1, <1>3, <2>8, PointerFields
    <3> QED BY <1>1, <1>2, <2>1, <2>5, <2>8, <2>9, <3>1 DEF HoldOK, NoStuckButton, HeldUp
  <2> QED BY <1>1, <1>2, <2>1, <2>8, <2>9, <2>10, <2>11 DEF PointerTypes, PointerInv
<1> QED BY <1>4, <1>5, <1>6, <1>7

LEMMA TouchMoveStep ==
  ASSUME PointerAssumption, PointerInv, NEW f \in Fingers, TouchMove(f) PROVE PointerInv'
<1>1. PointerTypes /\ GestureOK /\ HoldOK /\ NoFinger \notin Fingers /\ Left \in Buttons
  BY DEF PointerInv, PointerAssumption
<1>2. f \in user.glass /\ ~link.locked /\ link' = link /\ user' = user
  BY DEF TouchMove
<1>. DEFINE tracks == WithTracks(touch.track, {f})
            look == [touch EXCEPT !.track = WithTracks(@, {f}),
                                  !.two = @ /\ Cardinality(user.glass) >= 2]
<1>3. /\ tracks \in [Fingers -> Tracks]
      /\ tracks[f] # "none"
      /\ \A x \in Fingers : touch.track[x] # "none" => tracks[x] = touch.track[x]
      /\ \A x \in Fingers : tracks[x] = "drag" <=> touch.track[x] = "drag"
      /\ Tracked(tracks) = Tracked(touch.track) \cup {f}
  BY <1>1, PointerFields, TracksStart
<1>4. /\ look \in TouchType /\ look.track = tracks /\ look.primary = touch.primary
      /\ look.two => touch.two
  <2>1. tracks \in [Fingers -> Tracks] /\ (touch.two /\ Cardinality(user.glass) >= 2) \in BOOLEAN
    BY <1>3
  <2>2. look = [touch EXCEPT !.track = tracks, !.two = (touch.two /\ Cardinality(user.glass) >= 2)]
    OBVIOUS
  <2> HIDE DEF tracks
  <2>3. [touch EXCEPT !.track = tracks, !.two = (touch.two /\ Cardinality(user.glass) >= 2)] \in TouchType
    BY <1>1, <2>1, Zenon DEF PointerTypes, TouchType
  <2> QED BY <1>1, <2>2, <2>3 DEF PointerTypes, TouchType
<1>5. \/ /\ touch' = [look EXCEPT !.track[f] = "drag"]
         /\ Send({Left}, {}, {})
         /\ ~touch.two /\ touch.primary = f /\ link.mode = "pointAndDrag"
      \/ touch' = look /\ UNCHANGED <<pressed, host, past>>
  BY DEF TouchMove
<1> HIDE DEF tracks, look
<1>6. CASE touch' = look /\ UNCHANGED <<pressed, host, past>>
  <2>1. HeldUp' = HeldUp
    BY <1>6 DEF HeldUp
  <2>2. GestureOK'
    BY <1>1, <1>2, <1>3, <1>4, <1>6, PointerFields DEF GestureOK, GesturesEnd
  <2>3. HoldOK'
    <3>1. \A x \in user.glass : touch.track[x] = "drag" => touch'.track[x] = "drag"
      BY <1>1, <1>3, <1>4, <1>6, PointerFields
    <3> QED BY <1>1, <1>2, <1>4, <1>6, <2>1, <3>1 DEF HoldOK, NoStuckButton, HeldUp
  <2> QED BY <1>1, <1>2, <1>4, <1>6, <2>2, <2>3 DEF PointerTypes, PointerInv
<1>7. CASE /\ touch' = [look EXCEPT !.track[f] = "drag"]
           /\ Send({Left}, {}, {})
           /\ ~touch.two /\ touch.primary = f /\ link.mode = "pointAndDrag"
  <2>1. /\ touch'.track = [tracks EXCEPT ![f] = "drag"] /\ touch'.primary = touch.primary
        /\ touch'.two = look.two
    BY <1>4, <1>7 DEF TouchType
  <2>2. touch'.track \in [Fingers -> Tracks]
    BY <1>3, <2>1 DEF Tracks
  <2>3. touch' \in TouchType
    <3>1. [look EXCEPT !.track = touch'.track] \in TouchType
      BY <1>4, <2>2, Zenon DEF TouchType
    <3>2. touch' = [look EXCEPT !.track = touch'.track]
      BY <1>4, <1>7, <2>1 DEF TouchType
    <3> QED BY <3>1, <3>2
  <2>4. /\ past' \in PastType /\ pressed' \subseteq Buttons /\ host' \subseteq Buttons
        /\ past'.ghosts = past.ghosts /\ HeldUp' \subseteq pressed' /\ HeldUp' \subseteq HeldUp \cup {Left}
    BY <1>1, <1>7, SendHolds DEF PointerTypes, HoldOK
  <2>5. touch'.track[f] = "drag" /\ \A x \in Fingers : x # f => touch'.track[x] = tracks[x]
    BY <1>3, <2>1 DEF Tracks
  <2>6. Tracked(touch'.track) = Tracked(tracks)
    BY <1>3, <2>5 DEF Tracked
  <2>7. GestureOK'
    <3>1. touch'.primary # NoFinger => touch'.track[touch'.primary] # "none"
      BY <1>7, <2>1, <2>5
    <3>2. \A x \in Fingers : touch'.track[x] = "drag" => link'.mode = "pointAndDrag"
      BY <1>2, <1>7
    <3>3. Tracked(touch'.track) \cup ({touch'.primary} \ {NoFinger}) \subseteq user'.glass \cup past'.ghosts
      BY <1>1, <1>2, <1>3, <2>1, <2>4, <2>6 DEF GestureOK, GesturesEnd
    <3> QED BY <3>1, <3>2, <3>3 DEF GestureOK, GesturesEnd
  <2>8. HoldOK'
    BY <1>1, <1>2, <1>4, <1>7, <2>1, <2>4, <2>5 DEF HoldOK, NoStuckButton, HeldUp
  <2> QED BY <1>1, <1>2, <2>3, <2>4, <2>7, <2>8 DEF PointerTypes, PointerInv
<1> QED BY <1>5, <1>6, <1>7

LEMMA TouchRestsStep ==
  ASSUME PointerAssumption, PointerInv, TouchRests PROVE PointerInv'
<1>1. PointerTypes /\ GestureOK /\ HoldOK /\ NoFinger \notin Fingers
  BY DEF PointerInv, PointerAssumption
<1>2. /\ link' = link /\ user' = user /\ pressed' = pressed /\ host' = host /\ past' = past
      /\ touch.primary \in Fingers /\ touch.track[touch.primary] = "still"
      /\ touch' = [touch EXCEPT !.track[touch.primary] = "moved"]
  BY <1>1, PointerFields DEF TouchRests
<1>3. /\ touch'.track = [touch.track EXCEPT ![touch.primary] = "moved"]
      /\ touch'.primary = touch.primary /\ touch'.two = touch.two
  BY <1>1, <1>2 DEF PointerTypes, TouchType
<1>4. touch'.track \in [Fingers -> Tracks]
  BY <1>1, <1>2, <1>3, PointerFields DEF Tracks
<1>5. touch' \in TouchType
  <2>1. [touch EXCEPT !.track = touch'.track] \in TouchType
    BY <1>1, <1>4, Zenon DEF PointerTypes, TouchType
  <2>2. touch' = [touch EXCEPT !.track = touch'.track]
    BY <1>1, <1>2, <1>3 DEF PointerTypes, TouchType
  <2> QED BY <2>1, <2>2
<1>6. /\ \A x \in Fingers : touch'.track[x] = "drag" <=> touch.track[x] = "drag"
      /\ \A x \in Fingers : touch'.track[x] = "none" <=> touch.track[x] = "none"
  BY <1>1, <1>2, <1>3, PointerFields
<1>7. Tracked(touch'.track) = Tracked(touch.track) /\ HeldUp' = HeldUp
  BY <1>2, <1>6 DEF Tracked, HeldUp
<1>8. GestureOK'
  BY <1>1, <1>2, <1>3, <1>6, <1>7 DEF GestureOK, GesturesEnd
<1>9. HoldOK'
  <2>1. \A x \in user.glass : touch.track[x] = "drag" => touch'.track[x] = "drag"
    BY <1>1, <1>6, PointerFields
  <2> QED BY <1>1, <1>2, <1>3, <1>7, <2>1 DEF HoldOK, NoStuckButton, HeldUp
<1> QED BY <1>1, <1>2, <1>5, <1>8, <1>9 DEF PointerTypes, PointerInv

\* A finger that led lets go of what its drag pressed.
LEMMA LiftedHolds ==
  ASSUME PointerTypes, HoldOK, GestureOK, Left \in Buttons,
         NEW f \in Fingers, NEW near \in BOOLEAN, NEW quick \in BOOLEAN, Lifted(f, near, quick)
  PROVE  /\ past' \in PastType /\ pressed' \subseteq Buttons /\ host' \subseteq Buttons
         /\ past'.ghosts = past.ghosts /\ HeldUp' \subseteq pressed' /\ HeldUp' \subseteq HeldUp
         /\ touch.track[f] = "drag" => HeldUp' \subseteq HeldUp \ {Left}
<1>1. touch.track[f] = "drag" => link.mode = "pointAndDrag"
  BY DEF GestureOK
<1>2. CASE Click(Left)
  BY <1>2, ClickHolds DEF PointerTypes, HoldOK
<1>3. CASE Send({}, {Left}, {})
  BY <1>3, SendHolds DEF PointerTypes, HoldOK
<1>4. CASE touch.track[f] # "drag" /\ Click(Right)
  BY <1>4, ClickHolds DEF PointerTypes, HoldOK
<1>5. CASE touch.track[f] # "drag" /\ UNCHANGED <<pressed, host, past>>
  BY <1>5 DEF PointerTypes, HoldOK, HeldUp
<1>6. \/ Click(Left) \/ Send({}, {Left}, {})
      \/ touch.track[f] # "drag" /\ Click(Right)
      \/ link.mode # "pointAndDrag" /\ UNCHANGED <<pressed, host, past>>
  BY DEF Lifted
<1> QED BY <1>1, <1>2, <1>3, <1>4, <1>5, <1>6

LEMMA TouchEndStep ==
  ASSUME PointerAssumption, PointerInv, NEW f \in Fingers, NEW two \in BOOLEAN, two => touch.two,
         TouchEnd(f, two)
  PROVE  PointerInv'
<1>1. PointerTypes /\ GestureOK /\ HoldOK /\ NoFinger \notin Fingers /\ Left \in Buttons
  BY DEF PointerInv, PointerAssumption
<1>2. /\ f \in user.glass /\ link' = link /\ user' \in UserType
      /\ user'.glass = user.glass \ {f} /\ user'.mouse = user.mouse /\ user'.bridge = user.bridge
  BY <1>1, PointerFields DEF TouchEnd, PointerTypes, UserType
<1>3. CASE link.locked
  <2>1. /\ past' = [past EXCEPT !.ghosts = past.ghosts \cup ({f} \cap Tracked(touch.track))]
        /\ touch' = [touch EXCEPT !.two = two] /\ UNCHANGED <<pressed, host>>
    BY <1>3 DEF TouchEnd
  <2>2. /\ past' \in PastType /\ past'.stray = past.stray
        /\ past'.ghosts = past.ghosts \cup ({f} \cap Tracked(touch.track))
    <3>1. past.ghosts \cup ({f} \cap Tracked(touch.track)) \in SUBSET Fingers
      BY <1>1, PointerFields
    <3> QED BY <1>1, <2>1, <3>1 DEF PointerTypes, PastType
  <2>3. touch' \in TouchType /\ touch'.track = touch.track /\ touch'.primary = touch.primary /\ touch'.two = two
    BY <1>1, <2>1, Zenon DEF PointerTypes, TouchType
  <2>4. HeldUp' = HeldUp /\ HeldUp = {}
    BY <1>1, <1>3, <2>1, <2>2 DEF HeldUp, HoldOK
  <2>5. HoldOK'
    BY <2>4 DEF HoldOK, NoStuckButton, HeldUp
  <2>6. GestureOK'
    <3>1. touch.primary = f => f \in Tracked(touch.track)
      BY <1>1 DEF GestureOK, Tracked
    <3>2. Tracked(touch'.track) = Tracked(touch.track)
      BY <2>3 DEF Tracked
    <3> QED BY <1>1, <1>2, <2>2, <2>3, <3>1, <3>2 DEF GestureOK, GesturesEnd
  <2> QED BY <1>1, <1>2, <2>1, <2>2, <2>3, <2>5, <2>6 DEF PointerTypes, PointerInv
<1>4. CASE ~link.locked /\ BridgeActive
  <2>1. touch' = NoGesture /\ past' = [past EXCEPT !.ghosts = {}] /\ UNCHANGED <<pressed, host>>
    BY <1>4 DEF TouchEnd
  <2> QED BY <1>2, <1>4, <2>1, BridgeForgets
<1>5. \A t \in [Fingers -> Tracks] :
         t = [touch.track EXCEPT ![f] = "none"] => Tracked(t) = Tracked(touch.track) \ {f}
  BY DEF Tracked
<1>6. [touch.track EXCEPT ![f] = "none"] \in [Fingers -> Tracks]
  BY <1>1, PointerFields DEF Tracks
<1>7. CASE ~link.locked /\ ~BridgeActive /\ two /\ ByMouse
  <2>1. /\ touch' = [touch EXCEPT !.track[f] = "none", !.two = FALSE,
                                  !.primary = NoFinger, !.action = "default"]
        /\ UNCHANGED <<pressed, host, past>>
    BY <1>7 DEF TouchEnd
  <2>2. touch'.track = [touch.track EXCEPT ![f] = "none"] /\ touch'.two = FALSE /\ touch'.primary = NoFinger
    BY <1>1, <2>1 DEF PointerTypes, TouchType
  <2>3. touch' \in TouchType
    <3>1. [touch EXCEPT !.track = touch'.track, !.two = FALSE, !.primary = NoFinger, !.action = "default"] \in TouchType
      BY <1>1, <1>6, <2>2, Zenon DEF PointerTypes, TouchType
    <3>2. touch' = [touch EXCEPT !.track = touch'.track, !.two = FALSE, !.primary = NoFinger, !.action = "default"]
      BY <1>1, <2>1, <2>2 DEF PointerTypes, TouchType
    <3> QED BY <3>1, <3>2
  <2>4. HeldUp' = HeldUp
    BY <2>1 DEF HeldUp
  <2>5. HoldOK'
    BY <1>1, <1>2, <1>7, <2>1, <2>2, <2>4 DEF HoldOK, NoStuckButton, HeldUp
  <2>6. Tracked(touch'.track) = Tracked(touch.track) \ {f}
    BY <1>5, <1>6, <2>2
  <2>7. \A x \in Fingers : touch'.track[x] = "drag" => touch.track[x] = "drag"
    BY <1>1, <2>2, PointerFields
  <2>8. GestureOK'
    BY <1>1, <1>2, <2>1, <2>2, <2>6, <2>7 DEF GestureOK, GesturesEnd
  <2> QED BY <1>1, <1>2, <2>1, <2>3, <2>5, <2>8 DEF PointerTypes, PointerInv
<1>8. CASE ~link.locked /\ ~BridgeActive /\ ~(two /\ ByMouse)
  <2>1. /\ touch' = [Without(f, touch) EXCEPT !.two = two]
        /\ \/ \E near, quick \in BOOLEAN : Lifted(f, near, quick)
           \/ Send({}, {}, IF touch.track[f] = "drag" THEN {Left} ELSE {})
    BY <1>8 DEF TouchEnd
  <2>2. /\ touch'.track = [touch.track EXCEPT ![f] = "none"] /\ touch'.two = two
        /\ touch'.primary = IF touch.primary = f THEN NoFinger ELSE touch.primary
    BY <1>1, <2>1 DEF PointerTypes, TouchType, Without
  <2>3. touch' \in TouchType
    <3>1. touch'.primary \in Fingers \cup {NoFinger}
      BY <1>1, <2>2, PointerFields
    <3>2. [touch EXCEPT !.track = touch'.track, !.primary = touch'.primary, !.two = two] \in TouchType
      BY <1>1, <1>6, <2>2, <3>1, Zenon DEF PointerTypes, TouchType
    <3>3. touch' = [touch EXCEPT !.track = touch'.track, !.primary = touch'.primary, !.two = two]
      BY <1>1, <2>1, <2>2 DEF PointerTypes, TouchType, Without
    <3> QED BY <3>2, <3>3
  <2>4. /\ past' \in PastType /\ pressed' \subseteq Buttons /\ host' \subseteq Buttons
        /\ past'.ghosts = past.ghosts /\ HeldUp' \subseteq pressed' /\ HeldUp' \subseteq HeldUp
        /\ touch.track[f] = "drag" => HeldUp' \subseteq HeldUp \ {Left}
    <3>1. CASE \E near, quick \in BOOLEAN : Lifted(f, near, quick)
      BY <1>1, <3>1, LiftedHolds
    <3>2. CASE Send({}, {}, {Left}) /\ touch.track[f] = "drag"
      BY <1>1, <3>2, SendHolds DEF PointerTypes, HoldOK
    <3>3. CASE Send({}, {}, {}) /\ touch.track[f] # "drag"
      BY <1>1, <3>3, SendHolds DEF PointerTypes, HoldOK
    <3> QED BY <2>1, <3>1, <3>2, <3>3
  <2>5. \A x \in Fingers : x # f => touch'.track[x] = touch.track[x]
    BY <1>1, <2>2, PointerFields
  <2>6. touch'.track[f] = "none"
    BY <1>1, <2>2, PointerFields
  <2>7. HoldOK'
    <3>1. HeldUp' \subseteq user.mouse \cup user.bridge
            \cup (IF \E x \in user.glass \ {f} : touch'.track[x] = "drag" THEN {Left} ELSE {})
      <4>1. CASE touch.track[f] = "drag"
        BY <1>1, <2>4, <4>1 DEF HoldOK, NoStuckButton, HeldUp
      <4>2. CASE touch.track[f] # "drag"
        <5>1. \A x \in user.glass : touch.track[x] = "drag" => x \in user.glass \ {f} /\ touch'.track[x] = "drag"
          BY <1>1, <2>5, <4>2, PointerFields
        <5> QED BY <1>1, <2>4, <5>1 DEF HoldOK, NoStuckButton, HeldUp
      <4> QED BY <4>1, <4>2
    <3> QED BY <1>1, <1>2, <1>8, <2>2, <2>4, <3>1 DEF HoldOK, NoStuckButton, HeldUp
  <2>8. GestureOK'
    <3>1. Tracked(touch'.track) = Tracked(touch.track) \ {f}
      BY <1>5, <1>6, <2>2
    <3>2. \A x \in Fingers : touch'.track[x] = "drag" => link'.mode = "pointAndDrag"
      BY <1>1, <1>2, <2>5, <2>6 DEF GestureOK
    <3>3. touch'.primary # NoFinger => touch'.track[touch'.primary] # "none"
      BY <1>1, <2>2, <2>5, PointerFields DEF GestureOK
    <3> QED BY <1>1, <1>2, <2>2, <2>4, <3>1, <3>2, <3>3 DEF GestureOK, GesturesEnd
  <2> QED BY <1>1, <1>2, <2>3, <2>4, <2>7, <2>8 DEF PointerTypes, PointerInv
<1> QED BY <1>3, <1>4, <1>7, <1>8

LEMMA PointerStep ==
  ASSUME PointerAssumption, PointerInv, [PointerNext]_pointerVars
  PROVE  PointerInv'
<1>1. touch.two \in BOOLEAN
  BY PointerFields DEF PointerInv
<1>2. CASE UNCHANGED pointerVars
  BY <1>2 DEF pointerVars, PointerInv, PointerTypes, GestureOK, GesturesEnd, HoldOK, NoStuckButton,
              HeldUp, Tracked
<1>3. CASE \E f \in Fingers : TouchEnd(f, touch.two) \/ TouchEnd(f, FALSE)
  BY <1>1, <1>3, TouchEndStep
<1>4. CASE \E F \in SUBSET Fingers : Cardinality(F) <= 2 /\ TouchStart(F)
  BY <1>4, TouchStartStep
<1> QED BY <1>2, <1>3, <1>4, StreamStep, LockStep, ConfigStep, MouseStep, BridgeStep, WakeStep,
           TouchMoveStep, TouchRestsStep DEF PointerNext

\* A button of the mouse that is down on the host is held by someone who will
\* release it, and a touch that leads or is tracked is on the glass, for any
\* fingers and locks, except where the code passes a release or an end over.
THEOREM PointerSafe == PointerSpec => [](NoStuckButton /\ GesturesEnd)
<1>1. PointerInit => PointerInv
  BY PointerInitially, PointerAssumption
<1>2. PointerInv /\ [PointerNext]_pointerVars => PointerInv'
  BY PointerStep, PointerAssumption
<1> QED BY <1>1, <1>2, PointerShows, PTL DEF PointerSpec

-----------------------------------------------------------------------------
(* The buttons of the on-screen pad *)

PadButtonType == [held : {"no", "hold", "turbo"}, latched : BOOLEAN, beat : BOOLEAN,
               beatDown : BOOLEAN, taps : 0 .. MaxTaps, left : 0 .. 2 * Steps]
PadLayoutType == [action : [Slots -> PadActions], mode : [Slots -> PadModes],
                  turbo : BOOLEAN, guarded : BOOLEAN]
PadFaceType == [held : BOOLEAN, beat : BOOLEAN, beatDown : BOOLEAN, switched : BOOLEAN]

\* Pressed on the host, and its release still leads to it.
Live == down \ stale

\* The face button repeats only for a finger, under the setting it was pressed
\* with; what a repeating button has let go of is not down.
FaceInv ==
  /\ face.beat /\ ~face.switched => face.held /\ layout.turbo
  /\ face.held /\ ~face.switched /\ layout.turbo /\ "face" \in Live => face.beatDown

PadTypes ==
  /\ layout \in PadLayoutType /\ pad \in [Slots -> PadButtonType] /\ face \in PadFaceType
  /\ down \subseteq HostInputs /\ stale \subseteq down

PadInv == PadTypes /\ FaceInv /\ NothingStuck

LEMMA PadShows == PadInv => PadTypeOK /\ NothingStuck
BY DEF PadInv, PadTypes, PadTypeOK, PadLayoutType, PadButtonType, PadFaceType

LEMMA PadInitially == PadAssumption /\ PadInit => PadInv
<1> SUFFICES ASSUME PadAssumption, PadInit PROVE PadInv
  OBVIOUS
<1>1. layout \in PadLayoutType /\ face \in PadFaceType /\ down = {} /\ stale = {}
      /\ ~face.beat /\ ~face.held
  BY DEF PadInit, PadLayoutType, PadFaceType, PadActions, PadModes, IdleFace
<1>2. 0 \in 0 .. MaxTaps /\ 0 \in 0 .. 2 * Steps
  BY DEF PadAssumption
<1>3. IdleButton \in PadButtonType
  BY <1>2 DEF IdleButton, PadButtonType
<1>4. pad \in [Slots -> PadButtonType]
  BY <1>3 DEF PadInit
<1> QED BY <1>1, <1>4 DEF PadInv, PadTypes, FaceInv, NothingStuck, Live

LEMMA PadFields ==
  ASSUME PadAssumption, NEW b \in PadButtonType
  PROVE  /\ b.held \in {"no", "hold", "turbo"} /\ b.latched \in BOOLEAN /\ b.beat \in BOOLEAN
         /\ b.beatDown \in BOOLEAN /\ b.taps \in 0 .. MaxTaps /\ b.left \in 0 .. 2 * Steps
         /\ b.taps \in Nat /\ b.left \in Nat /\ MaxTaps \in Nat /\ Steps \in Nat
<1>1. /\ b.held \in {"no", "hold", "turbo"} /\ b.latched \in BOOLEAN /\ b.beat \in BOOLEAN
      /\ b.beatDown \in BOOLEAN /\ b.taps \in 0 .. MaxTaps /\ b.left \in 0 .. 2 * Steps
  BY DEF PadButtonType
<1> QED BY <1>1 DEF PadAssumption

\* What the handlers write into a button.
LEMMA PadWrites ==
  ASSUME NEW b \in PadButtonType
  PROVE  /\ \A n \in 0 .. 2 * Steps : [b EXCEPT !.left = n] \in PadButtonType
         /\ \A m \in 0 .. MaxTaps : [b EXCEPT !.taps = m] \in PadButtonType
         /\ \A p \in BOOLEAN : [b EXCEPT !.latched = p] \in PadButtonType
         /\ \A h \in {"no", "hold", "turbo"} : [b EXCEPT !.held = h] \in PadButtonType
         /\ \A p \in BOOLEAN : [b EXCEPT !.beatDown = p] \in PadButtonType
         /\ \A h \in {"no", "hold", "turbo"}, p, q \in BOOLEAN :
              [b EXCEPT !.held = h, !.beat = p, !.beatDown = q] \in PadButtonType
         /\ \A p, q \in BOOLEAN : [b EXCEPT !.beat = p, !.beatDown = q] \in PadButtonType
BY Zenon DEF PadButtonType

LEMMA HostLeaves ==
  ASSUME PadTypes, NEW released, NEW lost, lost \subseteq down, Host(released, lost)
  PROVE  /\ down' \subseteq HostInputs /\ stale' \subseteq down'
         /\ Live' = Live \ (released \cup lost)
BY DEF Host, PadTypes, Live

LEMMA PressAdds ==
  ASSUME PadTypes, NEW new, new \subseteq HostInputs, down' = down \cup new, stale' = stale
  PROVE  /\ down' \subseteq HostInputs /\ stale' \subseteq down'
         /\ Live' \subseteq Live \cup new
BY DEF PadTypes, Live

\* NothingStuck, said of each input.
LEMMA StuckOrHeld ==
  NothingStuck <=>
    \A x \in Live : \/ x \in OwnedByFace \/ (\E t \in Slots : x \in Owned(t))
                    \/ x = "step" /\ \E t \in Slots : Playing(t)
<1>. DEFINE playing == \E s \in Slots : Playing(s)
            owned == UNION {Owned(s) : s \in Slots}
<1>1. \A x : x \in owned <=> \E t \in Slots : x \in Owned(t)
  OBVIOUS
<1>2. NothingStuck <=> Live \subseteq OwnedByFace \cup (IF playing THEN {"step"} ELSE {}) \cup owned
  BY DEF NothingStuck, Live
<1> HIDE DEF owned
<1>3. NothingStuck <=>
        \A x \in Live : \/ x \in OwnedByFace \/ (\E t \in Slots : x \in Owned(t))
                        \/ x = "step" /\ playing
  <2> HIDE DEF playing
  <2> QED BY <1>1, <1>2
<1> QED BY <1>3

\* An action of one button keeps what is down in someone's hands if that button
\* keeps what it owns, and owns what it presses.
LEMMA SlotStep ==
  ASSUME PadInv, NEW s \in Slots, UNCHANGED <<layout, face>>,
         pad' \in [Slots -> PadButtonType], down' \subseteq HostInputs, stale' \subseteq down',
         \A t \in Slots \ {s} : pad'[t] = pad[t],
         \A x \in Live' : x \in Live \/ x \in Owned(s)' \/ (x = "step" /\ Playing(s)'),
         \A x \in Live' : x \in Owned(s) => x \in Owned(s)',
         "step" \in Live' /\ Playing(s) => Playing(s)'
  PROVE  PadInv'
<1>1. PadTypes'
  BY DEF PadInv, PadTypes
<1>2. "face" \notin Owned(s)'
  BY DEF Owned, PadInv, PadTypes, PadLayoutType, PadActions
<1>3. FaceInv'
  BY <1>2 DEF FaceInv, PadInv
<1>4. \A t \in Slots \ {s} : Owned(t)' = Owned(t) /\ (Playing(t)' <=> Playing(t))
  BY DEF Owned, Playing
<1>5. ASSUME NEW x \in Live'
      PROVE  \/ x \in OwnedByFace' \/ (\E t \in Slots : x \in Owned(t)')
             \/ x = "step" /\ \E t \in Slots : Playing(t)'
  <2>1. CASE x \in Live
    <3>1. \/ x \in OwnedByFace \/ (\E t \in Slots : x \in Owned(t))
          \/ x = "step" /\ \E t \in Slots : Playing(t)
      BY <2>1, StuckOrHeld DEF PadInv
    <3>2. OwnedByFace' = OwnedByFace
      BY DEF OwnedByFace
    <3> QED BY <1>4, <1>5, <3>1, <3>2
  <2> QED BY <1>5, <2>1
<1>6. NothingStuck'
  <2>1. \A x \in Live' : \/ x \in OwnedByFace' \/ (\E t \in Slots : x \in Owned(t)')
                         \/ x = "step" /\ \E t \in Slots : Playing(t)'
    BY <1>5
  <2>2. (NothingStuck <=>
           \A x \in Live : \/ x \in OwnedByFace \/ (\E t \in Slots : x \in Owned(t))
                           \/ x = "step" /\ \E t \in Slots : Playing(t))'
    BY StuckOrHeld, PTL
  <2> QED BY <2>1, <2>2
<1> QED BY <1>1, <1>3, <1>6 DEF PadInv

\* What a button presses is what it owns.
LEMMA PressedIsOwned ==
  ASSUME PadTypes, NEW s \in Slots
  PROVE  Pressed(s) \subseteq {layout.action[s]} \cap HostInputs
BY DEF Pressed, HostInputs

LEMMA PlayStep ==
  ASSUME PadAssumption, PadInv, NEW s \in Slots, PlaySequence(s) PROVE PadInv'
<1>1. PadTypes /\ pad[s] \in PadButtonType /\ UNCHANGED <<layout, face>>
  BY DEF PadInv, PadTypes, PlaySequence
<1>2. 2 * Steps \in 0 .. 2 * Steps /\ (2 * Steps) % 2 = 0
  BY DEF PadAssumption
<1>3. [pad[s] EXCEPT !.left = 2 * Steps] \in PadButtonType
  BY <1>1, <1>2, PadWrites
<1>4. /\ pad' \in [Slots -> PadButtonType] /\ \A t \in Slots \ {s} : pad'[t] = pad[t]
      /\ pad'[s] = [pad[s] EXCEPT !.left = 2 * Steps]
  BY <1>1, <1>3 DEF PlaySequence, PadTypes
<1>5. pad'[s].held = pad[s].held /\ pad'[s].latched = pad[s].latched
      /\ pad'[s].beatDown = pad[s].beatDown /\ pad'[s].taps = pad[s].taps
  BY <1>1, <1>4 DEF PadButtonType
<1>6. Owned(s)' = Owned(s)
  BY <1>1, <1>5 DEF Owned
<1>7. /\ down' \subseteq HostInputs /\ stale' \subseteq down'
      /\ Live' = Live \ ({} \cup LostSteps({s}))
  <2>1. LostSteps({s}) \subseteq down /\ Host({}, LostSteps({s}))
    BY DEF LostSteps, PlaySequence
  <2> QED BY <1>1, <2>1, HostLeaves
<1>8. "step" \in Live' => ~Playing(s)
  BY <1>7 DEF LostSteps, Live
<1> QED BY <1>1, <1>4, <1>6, <1>7, <1>8, SlotStep

LEMMA TapStep ==
  ASSUME PadAssumption, PadInv, NEW s \in Slots, Tap(s) \/ TapTimerFires(s) PROVE PadInv'
<1>1. PadTypes /\ pad[s] \in PadButtonType /\ UNCHANGED <<layout, face>>
  BY DEF PadInv, PadTypes, Tap, TapTimerFires
<1>2. PICK m \in 0 .. MaxTaps :
        /\ pad' = [pad EXCEPT ![s].taps = m]
        /\ Tap(s) => m > 0
  <2>1. pad[s].taps \in Nat /\ MaxTaps \in Nat /\ pad[s].taps \in 0 .. MaxTaps
    BY <1>1, PadFields
  <2>2. CASE Tap(s)
    <3>1. pad[s].taps + 1 \in 0 .. MaxTaps /\ pad[s].taps + 1 > 0
      BY <2>1, <2>2 DEF Tap
    <3>2. pad' = [pad EXCEPT ![s].taps = pad[s].taps + 1]
      BY <1>1, <2>2 DEF Tap, PadTypes
    <3> QED BY <3>1, <3>2
  <2>3. CASE ~Tap(s)
    <3>1. pad[s].taps - 1 \in 0 .. MaxTaps
      BY <2>1, <2>3 DEF TapTimerFires
    <3>2. pad' = [pad EXCEPT ![s].taps = pad[s].taps - 1]
      BY <1>1, <2>3 DEF TapTimerFires, PadTypes
    <3> QED BY <2>3, <3>1, <3>2
  <2> QED BY <2>2, <2>3
<1>3. [pad[s] EXCEPT !.taps = m] \in PadButtonType
  BY <1>1, PadWrites
<1>4. /\ pad' \in [Slots -> PadButtonType] /\ \A t \in Slots \ {s} : pad'[t] = pad[t]
      /\ pad'[s] = [pad[s] EXCEPT !.taps = m]
  BY <1>1, <1>2, <1>3 DEF PadTypes
<1>5. pad'[s].held = pad[s].held /\ pad'[s].latched = pad[s].latched
      /\ pad'[s].beatDown = pad[s].beatDown /\ pad'[s].taps = m /\ pad'[s].left = pad[s].left
  BY <1>1, <1>4 DEF PadButtonType
<1>6. Playing(s)' <=> Playing(s)
  BY <1>5 DEF Playing
<1>7. CASE Tap(s)
  <2>1. Owned(s)' = {layout.action[s]} \cap HostInputs
    BY <1>1, <1>2, <1>5, <1>7 DEF Owned
  <2>2. /\ down' \subseteq HostInputs /\ stale' \subseteq down'
        /\ Live' \subseteq Live \cup Pressed(s)
    BY <1>1, <1>7, PressedIsOwned, PressAdds DEF Tap
  <2>3. Owned(s) \subseteq Owned(s)'
    BY <2>1 DEF Owned
  <2> QED BY <1>1, <1>4, <1>6, <2>1, <2>2, <2>3, PressedIsOwned, SlotStep
<1>8. CASE TapTimerFires(s)
  <2>1. /\ down' \subseteq HostInputs /\ stale' \subseteq down'
        /\ Live' = Live \ (Released(layout, s) \cup {})
    BY <1>1, <1>8, HostLeaves DEF TapTimerFires
  <2>2. Owned(s) \subseteq Released(layout, s)
    BY DEF Owned, Released
  <2> QED BY <1>1, <1>4, <1>6, <2>1, <2>2, SlotStep
<1> QED BY <1>7, <1>8

LEMMA ToggleStep ==
  ASSUME PadAssumption, PadInv, NEW s \in Slots, Toggle(s) PROVE PadInv'
<1>1. PadTypes /\ pad[s] \in PadButtonType /\ UNCHANGED <<layout, face>>
  BY DEF PadInv, PadTypes, Toggle
<1>2. [pad[s] EXCEPT !.latched = ~pad[s].latched] \in PadButtonType
  BY <1>1, PadFields, PadWrites
<1>3. /\ pad' \in [Slots -> PadButtonType] /\ \A t \in Slots \ {s} : pad'[t] = pad[t]
      /\ pad'[s] = [pad[s] EXCEPT !.latched = ~pad[s].latched]
  BY <1>1, <1>2 DEF Toggle, PadTypes
<1>4. /\ pad'[s].held = pad[s].held /\ (pad'[s].latched <=> ~pad[s].latched)
      /\ pad'[s].beatDown = pad[s].beatDown /\ pad'[s].taps = pad[s].taps /\ pad'[s].left = pad[s].left
  BY <1>1, <1>3 DEF PadButtonType
<1>5. Playing(s)' <=> Playing(s)
  BY <1>4 DEF Playing
<1>6. CASE pad[s].latched
  <2>1. /\ down' \subseteq HostInputs /\ stale' \subseteq down'
        /\ Live' = Live \ (Released(layout, s) \cup {})
    BY <1>1, <1>6, HostLeaves DEF Toggle
  <2>2. Owned(s) \subseteq Released(layout, s)
    BY DEF Owned, Released
  <2> QED BY <1>1, <1>3, <1>5, <2>1, <2>2, SlotStep
<1>7. CASE ~pad[s].latched
  <2>1. Owned(s)' = {layout.action[s]} \cap HostInputs
    BY <1>1, <1>4, <1>7 DEF Owned
  <2>2. /\ down' \subseteq HostInputs /\ stale' \subseteq down'
        /\ Live' \subseteq Live \cup Pressed(s)
    BY <1>1, <1>7, PressedIsOwned, PressAdds DEF Toggle
  <2>3. Owned(s) \subseteq Owned(s)'
    BY <2>1 DEF Owned
  <2> QED BY <1>1, <1>3, <1>5, <2>1, <2>2, <2>3, PressedIsOwned, SlotStep
<1> QED BY <1>6, <1>7

LEMMA HoldStep ==
  ASSUME PadAssumption, PadInv, NEW s \in Slots, Hold(s) PROVE PadInv'
<1>1. PadTypes /\ pad[s] \in PadButtonType /\ UNCHANGED <<layout, face>>
  BY DEF PadInv, PadTypes, Hold
<1>. DEFINE m == layout.mode[s]
            beat == pad[s].beat \/ m = "turbo"
            beatDown == pad[s].beatDown \/ m = "turbo"
            b == [pad[s] EXCEPT !.held = m, !.beat = beat, !.beatDown = beatDown]
<1>2. m \in {"hold", "turbo"} /\ beat \in BOOLEAN /\ beatDown \in BOOLEAN
  BY <1>1, PadFields DEF Hold
<1>3. pad' = [pad EXCEPT ![s] = b]
  BY <1>1 DEF Hold, PadTypes
<1>4. b \in PadButtonType /\ b.held = m /\ (b.beatDown <=> beatDown) /\ b.left = pad[s].left
  <2> HIDE DEF m, beat, beatDown
  <2>1. b \in PadButtonType
    BY <1>1, <1>2, PadWrites
  <2>2. b.held = m /\ b.beatDown = beatDown /\ b.left = pad[s].left
    BY <1>1, Zenon DEF PadButtonType
  <2> QED BY <2>1, <2>2
<1>5. m = "turbo" => beatDown
  OBVIOUS
<1> HIDE DEF m, beat, beatDown, b
<1>6. /\ pad' \in [Slots -> PadButtonType] /\ pad'[s] = b
      /\ \A t \in Slots \ {s} : pad'[t] = pad[t]
  BY <1>1, <1>3, <1>4 DEF PadTypes
<1>7. Playing(s)' <=> Playing(s)
  BY <1>4, <1>6 DEF Playing
<1>8. Owned(s)' = {layout.action[s]} \cap HostInputs
  BY <1>1, <1>2, <1>4, <1>5, <1>6 DEF Owned
<1>9. /\ down' \subseteq HostInputs /\ stale' \subseteq down'
      /\ Live' \subseteq Live \cup Pressed(s)
  BY <1>1, PressedIsOwned, PressAdds DEF Hold
<1>10. Owned(s) \subseteq Owned(s)'
  BY <1>8 DEF Owned
<1> QED BY <1>1, <1>6, <1>7, <1>8, <1>9, <1>10, PressedIsOwned, SlotStep

LEMMA LetGoStep ==
  ASSUME PadAssumption, PadInv, NEW s \in Slots, LetGo(s) PROVE PadInv'
<1>1. PadTypes /\ pad[s] \in PadButtonType /\ UNCHANGED <<layout, face>>
  BY DEF PadInv, PadTypes, LetGo
<1>2. CASE pad[s].held = "hold"
  <2>1. [pad[s] EXCEPT !.held = "no"] \in PadButtonType
    BY <1>1, PadWrites
  <2>2. /\ pad' \in [Slots -> PadButtonType] /\ \A t \in Slots \ {s} : pad'[t] = pad[t]
        /\ pad'[s] = [pad[s] EXCEPT !.held = "no"]
    BY <1>1, <1>2, <2>1 DEF LetGo, PadTypes
  <2>3. Playing(s)' <=> Playing(s)
    BY <1>1, <2>2 DEF Playing, PadButtonType
  <2>4. /\ down' \subseteq HostInputs /\ stale' \subseteq down'
        /\ Live' = Live \ (Released(layout, s) \cup {})
    BY <1>1, <1>2, HostLeaves DEF LetGo
  <2>5. Owned(s) \subseteq Released(layout, s)
    BY DEF Owned, Released
  <2> QED BY <1>1, <2>2, <2>3, <2>4, <2>5, SlotStep
<1>3. CASE pad[s].held # "hold"
  <2>. DEFINE b == [pad[s] EXCEPT !.held = "no", !.beat = FALSE, !.beatDown = FALSE]
  <2>1. b \in PadButtonType
    BY <1>1, PadWrites
  <2>2. pad' = [pad EXCEPT ![s] = b]
    <3>1. [WithoutTurbo(pad[s]) EXCEPT !.held = "no"] = b
      BY <1>1 DEF WithoutTurbo, PadButtonType
    <3>2. pad' = [pad EXCEPT ![s] = [WithoutTurbo(pad[s]) EXCEPT !.held = "no"]]
      BY <1>1, <1>3 DEF LetGo, PadTypes
    <3> QED BY <3>1, <3>2
  <2>3. /\ ~b.beatDown /\ b.held = "no" /\ b.latched = pad[s].latched /\ b.taps = pad[s].taps
        /\ b.left = pad[s].left
    BY <1>1 DEF PadButtonType
  <2> HIDE DEF b
  <2>4. /\ pad' \in [Slots -> PadButtonType] /\ pad'[s] = b
        /\ \A t \in Slots \ {s} : pad'[t] = pad[t]
    BY <1>1, <2>1, <2>2 DEF PadTypes
  <2>5. Playing(s)' <=> Playing(s)
    BY <2>3, <2>4 DEF Playing
  <2>6. /\ down' \subseteq HostInputs /\ stale' \subseteq down'
        /\ Live' = Live \ (TurboReleases(layout, {s}) \cup {})
    BY <1>1, <1>3, HostLeaves DEF LetGo
  <2>7. CASE pad[s].beatDown
    <3>1. Owned(s) \subseteq TurboReleases(layout, {s})
      BY <2>7 DEF Owned, TurboReleases, Released
    <3> QED BY <1>1, <2>4, <2>5, <2>6, <3>1, SlotStep
  <2>8. CASE ~pad[s].beatDown
    <3>1. Owned(s)' = Owned(s)
      BY <1>1, <1>3, <2>3, <2>4, <2>8 DEF Owned
    <3> QED BY <1>1, <2>4, <2>5, <2>6, <3>1, SlotStep
  <2> QED BY <2>7, <2>8
<1> QED BY <1>2, <1>3

LEMMA BeatStep ==
  ASSUME PadAssumption, PadInv, NEW s \in Slots, BeatTimerFires(s) PROVE PadInv'
<1>1. PadTypes /\ pad[s] \in PadButtonType /\ UNCHANGED <<layout, face>>
  BY DEF PadInv, PadTypes, BeatTimerFires
<1>2. [pad[s] EXCEPT !.beatDown = ~pad[s].beatDown] \in PadButtonType
  BY <1>1, PadFields, PadWrites
<1>3. /\ pad' \in [Slots -> PadButtonType] /\ \A t \in Slots \ {s} : pad'[t] = pad[t]
      /\ pad'[s] = [pad[s] EXCEPT !.beatDown = ~pad[s].beatDown]
  BY <1>1, <1>2 DEF BeatTimerFires, PadTypes
<1>4. /\ pad'[s].held = pad[s].held /\ pad'[s].latched = pad[s].latched
      /\ (pad'[s].beatDown <=> ~pad[s].beatDown) /\ pad'[s].taps = pad[s].taps /\ pad'[s].left = pad[s].left
  BY <1>1, <1>3 DEF PadButtonType
<1>5. Playing(s)' <=> Playing(s)
  BY <1>4 DEF Playing
<1>6. CASE pad[s].beatDown
  <2>1. /\ down' \subseteq HostInputs /\ stale' \subseteq down'
        /\ Live' = Live \ (Released(layout, s) \cup {})
    BY <1>1, <1>6, HostLeaves DEF BeatTimerFires
  <2>2. Owned(s) \subseteq Released(layout, s)
    BY DEF Owned, Released
  <2> QED BY <1>1, <1>3, <1>5, <2>1, <2>2, SlotStep
<1>7. CASE ~pad[s].beatDown
  <2>1. Owned(s)' = {layout.action[s]} \cap HostInputs
    BY <1>1, <1>4, <1>7 DEF Owned
  <2>2. /\ down' \subseteq HostInputs /\ stale' \subseteq down'
        /\ Live' \subseteq Live \cup Pressed(s)
    BY <1>1, <1>7, PressedIsOwned, PressAdds DEF BeatTimerFires
  <2>3. Owned(s) \subseteq Owned(s)'
    BY <2>1 DEF Owned
  <2> QED BY <1>1, <1>3, <1>5, <2>1, <2>2, <2>3, PressedIsOwned, SlotStep
<1> QED BY <1>6, <1>7

LEMMA SequenceStep ==
  ASSUME PadAssumption, PadInv, NEW s \in Slots, SequenceTimerFires(s) PROVE PadInv'
<1>1. PadTypes /\ pad[s] \in PadButtonType /\ UNCHANGED <<layout, face>>
  BY DEF PadInv, PadTypes, SequenceTimerFires
<1>. DEFINE n == pad[s].left - 1
<1>2. n \in 0 .. 2 * Steps /\ pad[s].left \in Nat /\ pad[s].left > 0
  BY <1>1, PadFields DEF SequenceTimerFires
<1>3. pad[s].left % 2 # 1 => n % 2 = 1
  BY <1>2
<1>4. [pad[s] EXCEPT !.left = n] \in PadButtonType
  BY <1>1, <1>2, PadWrites
<1>5. pad' = [pad EXCEPT ![s].left = n]
  BY <1>1 DEF SequenceTimerFires, PadTypes
<1> HIDE DEF n
<1>6. /\ pad' \in [Slots -> PadButtonType] /\ \A t \in Slots \ {s} : pad'[t] = pad[t]
      /\ pad'[s] = [pad[s] EXCEPT !.left = n]
  BY <1>1, <1>4, <1>5 DEF PadTypes
<1>7. /\ pad'[s].held = pad[s].held /\ pad'[s].latched = pad[s].latched
      /\ pad'[s].beatDown = pad[s].beatDown /\ pad'[s].taps = pad[s].taps /\ pad'[s].left = n
  BY <1>1, <1>6 DEF PadButtonType
<1>8. Owned(s)' = Owned(s)
  BY <1>1, <1>7 DEF Owned
<1>9. CASE Playing(s)
  <2>1. /\ down' \subseteq HostInputs /\ stale' \subseteq down'
        /\ Live' = Live \ ({"step"} \cup {})
    BY <1>1, <1>9, HostLeaves DEF SequenceTimerFires
  <2> QED BY <1>1, <1>6, <1>8, <2>1, SlotStep
<1>10. CASE ~Playing(s)
  <2>1. Playing(s)'
    BY <1>3, <1>7, <1>10 DEF Playing
  <2>2. /\ down' \subseteq HostInputs /\ stale' \subseteq down'
        /\ Live' \subseteq Live \cup {"step"}
    BY <1>1, <1>10, PressAdds DEF SequenceTimerFires, HostInputs
  <2> QED BY <1>1, <1>6, <1>8, <2>1, <2>2, SlotStep
<1> QED BY <1>9, <1>10

\* The face button.
LEMMA FaceStep ==
  ASSUME PadAssumption, PadInv, UNCHANGED <<layout, pad>>, face' \in PadFaceType, FaceInv',
         down' \subseteq HostInputs, stale' \subseteq down',
         \A x \in Live' : x \in Live \/ x \in OwnedByFace',
         "face" \in Live' /\ (face.held \/ face.switched) => face'.held \/ face'.switched
  PROVE  PadInv'
<1>1. PadTypes'
  BY DEF PadInv, PadTypes
<1>2. \A t \in Slots : Owned(t)' = Owned(t) /\ (Playing(t)' <=> Playing(t))
  BY DEF Owned, Playing
<1>3. ASSUME NEW x \in Live'
      PROVE  \/ x \in OwnedByFace' \/ (\E t \in Slots : x \in Owned(t)')
             \/ x = "step" /\ \E t \in Slots : Playing(t)'
  <2>1. CASE x \in Live
    <3>1. \/ x \in OwnedByFace \/ (\E t \in Slots : x \in Owned(t))
          \/ x = "step" /\ \E t \in Slots : Playing(t)
      BY <2>1, StuckOrHeld DEF PadInv
    <3>2. x \in OwnedByFace => x \in OwnedByFace'
      BY <1>3 DEF OwnedByFace
    <3> QED BY <1>2, <3>1, <3>2
  <2> QED BY <1>3, <2>1
<1>4. NothingStuck'
  <2>1. (NothingStuck <=>
           \A x \in Live : \/ x \in OwnedByFace \/ (\E t \in Slots : x \in Owned(t))
                           \/ x = "step" /\ \E t \in Slots : Playing(t))'
    BY StuckOrHeld, PTL
  <2> QED BY <1>3, <2>1
<1> QED BY <1>1, <1>4 DEF PadInv

LEMMA FaceSteps ==
  ASSUME PadAssumption, PadInv, PressFace \/ LetGoFace \/ FaceBeatTimerFires PROVE PadInv'
<1>1. /\ PadTypes /\ FaceInv /\ face \in PadFaceType /\ layout.turbo \in BOOLEAN
      /\ UNCHANGED <<layout, pad>>
  BY DEF PadInv, PadTypes, PressFace, LetGoFace, FaceBeatTimerFires, PadLayoutType
<1>2. /\ face.held \in BOOLEAN /\ face.beat \in BOOLEAN /\ face.beatDown \in BOOLEAN
      /\ face.switched \in BOOLEAN
  BY <1>1 DEF PadFaceType
<1>3. CASE PressFace
  <2>1. /\ face' \in PadFaceType /\ face'.held
        /\ \/ layout.turbo /\ face'.beat /\ face'.beatDown
           \/ ~layout.turbo /\ face'.beat = face.beat /\ face'.switched = face.switched
    BY <1>1, <1>3 DEF PressFace, PadFaceType
  <2>2. /\ down' \subseteq HostInputs /\ stale' \subseteq down' /\ Live' \subseteq Live \cup {"face"}
    BY <1>1, <1>3, PressAdds DEF PressFace, HostInputs
  <2>3. FaceInv'
    BY <1>1, <2>1 DEF FaceInv
  <2> QED BY <1>1, <2>1, <2>2, <2>3, FaceStep DEF OwnedByFace
<1>4. CASE LetGoFace /\ layout.turbo
  <2>1. /\ face' \in PadFaceType /\ ~face'.held /\ ~face'.beat /\ ~face'.beatDown
        /\ face'.switched = face.switched /\ face.held
    BY <1>1, <1>4 DEF LetGoFace, PadFaceType
  <2>2. /\ down' \subseteq HostInputs /\ stale' \subseteq down'
        /\ Live' = Live \ ((IF face.beatDown THEN {"face"} ELSE {}) \cup {})
    BY <1>1, <1>4, HostLeaves DEF LetGoFace
  <2>3. FaceInv'
    BY <2>1 DEF FaceInv
  <2>4. "face" \in Live' => face.switched
    BY <1>1, <1>4, <2>1, <2>2 DEF FaceInv
  <2> QED BY <1>1, <2>1, <2>2, <2>3, <2>4, FaceStep
<1>5. CASE LetGoFace /\ ~layout.turbo
  <2>1. /\ face' \in PadFaceType /\ ~face'.held /\ face'.beat = face.beat
        /\ face'.switched = face.switched
    BY <1>1, <1>5 DEF LetGoFace, PadFaceType
  <2>2. /\ down' \subseteq HostInputs /\ stale' \subseteq down'
        /\ Live' = Live \ ({"face"} \cup {})
    BY <1>1, <1>5, HostLeaves DEF LetGoFace
  <2>3. FaceInv'
    BY <1>1, <1>5, <2>1 DEF FaceInv
  <2> QED BY <1>1, <2>1, <2>2, <2>3, FaceStep
<1>6. CASE FaceBeatTimerFires
  <2>1. /\ face' \in PadFaceType /\ face'.held = face.held /\ face'.beat = face.beat /\ face.beat
        /\ face'.switched = face.switched /\ face'.beatDown = ~face.beatDown
    BY <1>1, <1>2, <1>6 DEF FaceBeatTimerFires, PadFaceType
  <2>2. CASE face.beatDown
    <3>1. /\ down' \subseteq HostInputs /\ stale' \subseteq down'
          /\ Live' = Live \ ({"face"} \cup {})
      BY <1>1, <1>6, <2>2, HostLeaves DEF FaceBeatTimerFires
    <3>2. FaceInv'
      BY <1>1, <2>1, <3>1 DEF FaceInv
    <3> QED BY <1>1, <2>1, <3>1, <3>2, FaceStep
  <2>3. CASE ~face.beatDown
    <3>1. /\ down' \subseteq HostInputs /\ stale' \subseteq down' /\ Live' \subseteq Live \cup {"face"}
      BY <1>1, <1>6, <2>3, PressAdds DEF FaceBeatTimerFires, HostInputs
    <3>2. FaceInv'
      BY <1>1, <2>1, <2>3 DEF FaceInv
    <3>3. "face" \in OwnedByFace'
      BY <1>1, <2>1 DEF FaceInv, OwnedByFace
    <3> QED BY <1>1, <2>1, <3>1, <3>2, <3>3, FaceStep
  <2> QED BY <2>2, <2>3
<1> QED BY <1>3, <1>4, <1>5, <1>6

LEMMA Cleared ==
  ASSUME PadAssumption, NEW b \in PadButtonType
  PROVE  /\ ClearAll(b) \in PadButtonType /\ WithoutTurbo(b) \in PadButtonType
         /\ ~ClearAll(b).beatDown /\ ~ClearAll(b).latched /\ ClearAll(b).left = 0
         /\ ClearAll(b).held = b.held /\ ClearAll(b).taps = b.taps
         /\ ~WithoutTurbo(b).beatDown /\ WithoutTurbo(b).latched = b.latched
         /\ WithoutTurbo(b).held = b.held /\ WithoutTurbo(b).taps = b.taps
         /\ WithoutTurbo(b).left = b.left
<1>. DEFINE w == [b EXCEPT !.beat = FALSE, !.beatDown = FALSE]
            c == [w EXCEPT !.latched = FALSE, !.left = 0]
<1>1. WithoutTurbo(b) = w /\ ClearAll(b) = c
  BY DEF WithoutTurbo, ClearAll
<1>2. w \in PadButtonType
  BY PadWrites
<1>3. /\ ~w.beatDown /\ w.latched = b.latched /\ w.held = b.held /\ w.taps = b.taps /\ w.left = b.left
  BY DEF PadButtonType
<1> HIDE DEF w
<1>4. 0 \in 0 .. 2 * Steps
  BY DEF PadAssumption
<1>5. c \in PadButtonType
  BY <1>2, <1>4, Zenon DEF PadButtonType
<1>6. ~c.beatDown /\ ~c.latched /\ c.left = 0 /\ c.held = b.held /\ c.taps = b.taps
  BY <1>2, <1>3 DEF PadButtonType
<1> HIDE DEF c
<1> QED BY <1>1, <1>2, <1>3, <1>5, <1>6

\* What all buttons own, when the timers are cleared.
LEMMA ClearedOwned ==
  ASSUME PadTypes, PadAssumption, NEW s \in Slots, NEW x \in Owned(s), x \notin ClearReleases,
         pad[s].held # "hold" \/ x \notin Released(layout, s)
  PROVE  pad[s].taps > 0 \/ pad[s].held = "hold"
<1>1. CASE pad[s].latched
  BY <1>1 DEF ClearReleases, LatchReleases, Owned, Released
<1>2. CASE pad[s].beatDown
  BY <1>2 DEF ClearReleases, TurboReleases, Owned, Released
<1> QED BY <1>1, <1>2 DEF Owned

LEMMA HideStep ==
  ASSUME PadAssumption, PadInv, Hide PROVE PadInv'
<1>1. /\ PadTypes /\ FaceInv /\ layout' = layout /\ face' = face
      /\ \A s \in Slots : pad[s] \in PadButtonType
  BY DEF PadInv, PadTypes, Hide
<1>2. \A s \in Slots : pad'[s] = ClearAll(pad[s])
  BY DEF Hide
<1>3. /\ down' \subseteq HostInputs /\ stale' \subseteq down'
      /\ Live' = Live \ (ClearReleases \cup LostSteps(Slots))
  <2>1. LostSteps(Slots) \subseteq down
    BY DEF LostSteps
  <2> QED BY <1>1, <2>1, HostLeaves DEF Hide
<1>4. PadTypes'
  BY <1>1, <1>2, <1>3, Cleared DEF PadTypes, Hide
<1>5. FaceInv'
  BY <1>1, <1>3 DEF FaceInv
<1>6. ASSUME NEW x \in Live'
      PROVE  \/ x \in OwnedByFace' \/ (\E t \in Slots : x \in Owned(t)')
             \/ x = "step" /\ \E t \in Slots : Playing(t)'
  <2>1. \/ x \in OwnedByFace \/ (\E t \in Slots : x \in Owned(t))
        \/ x = "step" /\ \E t \in Slots : Playing(t)
    BY <1>3, <1>6, StuckOrHeld DEF PadInv
  <2>2. x \in OwnedByFace => x \in OwnedByFace'
    BY <1>1 DEF OwnedByFace
  <2>3. ~(x = "step" /\ \E t \in Slots : Playing(t))
    BY <1>3, <1>6 DEF LostSteps, Live
  <2>4. ASSUME NEW t \in Slots, x \in Owned(t) PROVE x \in Owned(t)'
    <3>1. pad[t].taps > 0 \/ pad[t].held = "hold"
      <4>1. CASE pad[t].held = "hold"
        BY <4>1
      <4>2. CASE pad[t].held # "hold"
        BY <1>1, <1>3, <1>6, <2>4, <4>2, ClearedOwned
      <4> QED BY <4>1, <4>2
    <3>2. pad'[t].taps = pad[t].taps /\ pad'[t].held = pad[t].held
      BY <1>1, <1>2, Cleared
    <3> QED BY <1>1, <2>4, <3>1, <3>2 DEF Owned
  <2> QED BY <2>1, <2>2, <2>3, <2>4
<1>7. NothingStuck'
  <2>1. (NothingStuck <=>
           \A x \in Live : \/ x \in OwnedByFace \/ (\E t \in Slots : x \in Owned(t))
                           \/ x = "step" /\ \E t \in Slots : Playing(t))'
    BY StuckOrHeld, PTL
  <2> QED BY <1>6, <2>1
<1> QED BY <1>4, <1>5, <1>7 DEF PadInv

LEMMA GuardStep ==
  ASSUME PadAssumption, PadInv, GuardChanges PROVE PadInv'
<1>1. /\ PadTypes /\ FaceInv /\ NothingStuck
      /\ \A s \in Slots : pad[s] \in PadButtonType
      /\ layout' \in PadLayoutType /\ layout'.action = layout.action /\ layout'.turbo = layout.turbo
      /\ layout.turbo \in BOOLEAN
  BY DEF PadInv, PadTypes, GuardChanges, PadLayoutType
<1>2. CASE layout.guarded
  <2>1. UNCHANGED <<pad, face, down, stale>>
    BY <1>2 DEF GuardChanges
  <2>2. \A s \in Slots : Owned(s)' = Owned(s) /\ (Playing(s)' <=> Playing(s))
    BY <1>1, <2>1 DEF Owned, Playing
  <2>3. OwnedByFace' = OwnedByFace /\ Live' = Live
    BY <2>1 DEF OwnedByFace, Live
  <2>4. (NothingStuck <=>
           \A x \in Live : \/ x \in OwnedByFace \/ (\E t \in Slots : x \in Owned(t))
                           \/ x = "step" /\ \E t \in Slots : Playing(t))'
    BY StuckOrHeld, PTL
  <2>5. NothingStuck'
    BY <1>1, <2>2, <2>3, <2>4, StuckOrHeld
  <2>6. FaceInv'
    BY <1>1, <2>1, <2>3 DEF FaceInv
  <2> QED BY <1>1, <2>1, <2>5, <2>6 DEF PadInv, PadTypes
<1>3. CASE ~layout.guarded
  <2>. DEFINE holds == {s \in Slots : pad[s].held = "hold"}
              let == UNION {Released(layout, s) : s \in holds}
              cut == {"gamepad", "face"} \cup ClearReleases \cup let
  <2>1. /\ pad' = [s \in Slots |-> [ClearAll(pad[s]) EXCEPT !.held = "no"]]
        /\ face' = [face EXCEPT !.held = FALSE,
                      !.beat = face.beat /\ ~(face.held /\ layout.turbo),
                      !.beatDown = face.beatDown /\ ~(face.held /\ layout.turbo)]
        /\ Host(cut, LostSteps(Slots))
    BY <1>3 DEF GuardChanges
  <2>2. \A s \in Slots : /\ pad'[s] \in PadButtonType
                         /\ pad'[s].taps = pad[s].taps
    <3>1. ASSUME NEW s \in Slots PROVE pad'[s] \in PadButtonType /\ pad'[s].taps = pad[s].taps
      <4>. DEFINE c == ClearAll(pad[s])
      <4>1. c \in PadButtonType /\ c.taps = pad[s].taps
        BY <1>1, Cleared
      <4>2. pad'[s] = [c EXCEPT !.held = "no"]
        BY <2>1
      <4> HIDE DEF c
      <4>3. [c EXCEPT !.held = "no"] \in PadButtonType
        BY <4>1, PadWrites
      <4> QED BY <4>1, <4>2, <4>3 DEF PadButtonType
    <3> QED BY <3>1
  <2>3. /\ face' \in PadFaceType /\ ~face'.held /\ face'.switched = face.switched
        /\ face'.beat => face.beat /\ ~(face.held /\ layout.turbo)
    <3>1. /\ face.beat \in BOOLEAN /\ face.beatDown \in BOOLEAN /\ face.held \in BOOLEAN
          /\ (face.beat /\ ~(face.held /\ layout.turbo)) \in BOOLEAN
          /\ (face.beatDown /\ ~(face.held /\ layout.turbo)) \in BOOLEAN
      BY <1>1 DEF PadTypes, PadFaceType
    <3>2. face' \in PadFaceType
      BY <1>1, <2>1, <3>1, Zenon DEF PadTypes, PadFaceType
    <3> QED BY <1>1, <2>1, <3>1, <3>2 DEF PadTypes, PadFaceType
  <2>4. /\ down' \subseteq HostInputs /\ stale' \subseteq down'
        /\ Live' = Live \ (cut \cup LostSteps(Slots))
    <3>1. LostSteps(Slots) \subseteq down
      BY DEF LostSteps
    <3> HIDE DEF cut
    <3> QED BY <1>1, <2>1, <3>1, HostLeaves
  <2>5. PadTypes'
    <3>1. pad' \in [Slots -> PadButtonType]
      BY <2>1, <2>2
    <3> QED BY <1>1, <2>3, <2>4, <3>1 DEF PadTypes
  <2>6. FaceInv'
    BY <1>1, <2>3 DEF FaceInv
  <2>7. ASSUME NEW x \in Live' PROVE \E t \in Slots : x \in Owned(t)'
    <3>1. x \in Live /\ x \notin {"gamepad", "face"} /\ x \notin ClearReleases /\ x \notin let
          /\ x \notin LostSteps(Slots)
      BY <2>4, <2>7
    <3>2. \/ x \in OwnedByFace \/ (\E t \in Slots : x \in Owned(t))
          \/ x = "step" /\ \E t \in Slots : Playing(t)
      BY <1>1, <3>1, StuckOrHeld
    <3>3. x \notin OwnedByFace
      BY <3>1 DEF OwnedByFace
    <3>4. ~(x = "step" /\ \E t \in Slots : Playing(t))
      BY <3>1 DEF LostSteps, Live
    <3>5. PICK t \in Slots : x \in Owned(t)
      BY <3>2, <3>3, <3>4
    <3>6. pad[t].held = "hold" => x \notin Released(layout, t)
      BY <3>1
    <3>7. x \in Released(layout, t)
      BY <3>5 DEF Owned, Released
    <3>8. pad[t].taps > 0
      BY <1>1, <3>1, <3>5, <3>6, <3>7, ClearedOwned
    <3>9. pad'[t].taps > 0 /\ layout'.action = layout.action
      BY <1>1, <2>2, <3>8
    <3> QED BY <3>5, <3>9 DEF Owned
  <2>8. NothingStuck'
    <3>1. (NothingStuck <=>
             \A x \in Live : \/ x \in OwnedByFace \/ (\E t \in Slots : x \in Owned(t))
                             \/ x = "step" /\ \E t \in Slots : Playing(t))'
      BY StuckOrHeld, PTL
    <3> QED BY <2>7, <3>1
  <2> QED BY <2>5, <2>6, <2>8 DEF PadInv
<1> QED BY <1>2, <1>3

LEMMA LayoutStep ==
  ASSUME PadAssumption, PadInv, LayoutChanges PROVE PadInv'
<1>1. /\ PadTypes /\ FaceInv /\ NothingStuck /\ \A s \in Slots : pad[s] \in PadButtonType
      /\ layout.turbo \in BOOLEAN /\ layout.action \in [Slots -> PadActions]
  BY DEF PadInv, PadTypes, PadLayoutType
<1>2. PICK action \in [Slots -> PadActions], mode \in [Slots -> PadModes], turbo \in BOOLEAN :
        LET l == [layout EXCEPT !.action = action, !.mode = mode, !.turbo = turbo]
            loose == {s \in Slots : action[s] = "off" \/ mode[s] # "toggle"}
            slow == {s \in Slots : action[s] = "off" \/ mode[s] # "turbo"}
            changed == {s \in Slots : action[s] # layout.action[s]}
        IN  /\ layout' = l
            /\ pad' = [s \in Slots |->
                 LET b == IF s \in slow THEN WithoutTurbo(pad[s]) ELSE pad[s]
                 IN  [b EXCEPT !.latched = @ /\ s \notin loose]]
            /\ face' = [face EXCEPT
                 !.switched = @ \/ ((face.held \/ face.beat) /\ turbo # layout.turbo)]
            /\ Host(TurboReleases(l, slow) \cup LatchReleases(l, loose),
                    down \cap UNION {Owned(s) : s \in changed})
  BY DEF LayoutChanges
<1>. DEFINE l == [layout EXCEPT !.action = action, !.mode = mode, !.turbo = turbo]
            loose == {s \in Slots : action[s] = "off" \/ mode[s] # "toggle"}
            slow == {s \in Slots : action[s] = "off" \/ mode[s] # "turbo"}
            changed == {s \in Slots : action[s] # layout.action[s]}
            b(s) == IF s \in slow THEN WithoutTurbo(pad[s]) ELSE pad[s]
            cut == TurboReleases(l, slow) \cup LatchReleases(l, loose)
            lost == down \cap UNION {Owned(s) : s \in changed}
            flip == (face.held \/ face.beat) /\ turbo # layout.turbo
<1>3. /\ layout' = l
      /\ pad' = [s \in Slots |-> [b(s) EXCEPT !.latched = @ /\ s \notin loose]]
      /\ face' = [face EXCEPT !.switched = face.switched \/ flip]
      /\ Host(cut, lost)
  BY <1>2
<1>4. layout' \in PadLayoutType /\ l.action = action /\ l.turbo = turbo
  <2>1. l \in PadLayoutType
    BY <1>1, Zenon DEF PadTypes, PadLayoutType
  <2> QED BY <1>1, <1>3, <2>1 DEF PadTypes, PadLayoutType
<1>5. ASSUME NEW s \in Slots
      PROVE  /\ pad'[s] \in PadButtonType
             /\ pad'[s].held = pad[s].held /\ pad'[s].taps = pad[s].taps /\ pad'[s].left = pad[s].left
             /\ pad[s].latched /\ s \notin loose => pad'[s].latched
             /\ pad[s].beatDown /\ s \notin slow => pad'[s].beatDown
  <2>1. /\ b(s) \in PadButtonType /\ b(s).held = pad[s].held /\ b(s).taps = pad[s].taps
        /\ b(s).left = pad[s].left /\ b(s).latched = pad[s].latched
        /\ s \notin slow => b(s).beatDown = pad[s].beatDown
    BY <1>1, Cleared
  <2>2. pad'[s] = [b(s) EXCEPT !.latched = b(s).latched /\ s \notin loose]
    BY <1>3
  <2> HIDE DEF b
  <2>3. (b(s).latched /\ s \notin loose) \in BOOLEAN
    OBVIOUS
  <2>4. pad'[s] \in PadButtonType
    BY <2>1, <2>2, <2>3, PadWrites
  <2> HIDE DEF slow, loose
  <2>5. pad'[s].latched = (b(s).latched /\ s \notin loose)
    BY <2>1, <2>2, <2>3, Zenon DEF PadButtonType
  <2>6. /\ pad'[s].held = b(s).held /\ pad'[s].taps = b(s).taps /\ pad'[s].left = b(s).left
        /\ pad'[s].beatDown = b(s).beatDown
    BY <2>1, <2>2, Zenon DEF PadButtonType
  <2> QED BY <2>1, <2>4, <2>5, <2>6
<1>6. face' \in PadFaceType /\ face'.held = face.held /\ face'.beat = face.beat
      /\ face'.beatDown = face.beatDown /\ (face'.switched <=> face.switched \/ flip)
  <2> HIDE DEF flip
  <2>1. (face.switched \/ flip) \in BOOLEAN
    OBVIOUS
  <2>2. face' \in PadFaceType
    BY <1>1, <1>3, <2>1, Zenon DEF PadTypes, PadFaceType
  <2>3. face'.held = face.held /\ face'.beat = face.beat
        /\ face'.beatDown = face.beatDown /\ face'.switched = (face.switched \/ flip)
    BY <1>1, <1>3, <2>1, Zenon DEF PadTypes, PadFaceType
  <2> QED BY <2>2, <2>3
<1>7. /\ down' \subseteq HostInputs /\ stale' \subseteq down'
      /\ Live' = Live \ (cut \cup lost)
  <2>1. lost \subseteq down
    OBVIOUS
  <2> HIDE DEF cut, lost
  <2> QED BY <1>1, <1>3, <2>1, HostLeaves
<1>8. PadTypes'
  <2>1. pad' \in [Slots -> PadButtonType]
    BY <1>3, <1>5
  <2> QED BY <1>4, <1>6, <1>7, <2>1 DEF PadTypes
<1>9. FaceInv'
  <2>1. layout'.turbo = turbo /\ Live' \subseteq Live
    BY <1>3, <1>4, <1>7
  <2> QED BY <1>1, <1>6, <2>1 DEF FaceInv
<1>10. ASSUME NEW x \in Live'
       PROVE  \/ x \in OwnedByFace' \/ (\E t \in Slots : x \in Owned(t)')
              \/ x = "step" /\ \E t \in Slots : Playing(t)'
  <2>1. x \in Live /\ x \in down /\ x \notin cut /\ x \notin lost
    BY <1>7, <1>10 DEF Live
  <2>2. \/ x \in OwnedByFace \/ (\E t \in Slots : x \in Owned(t))
        \/ x = "step" /\ \E t \in Slots : Playing(t)
    BY <1>1, <2>1, StuckOrHeld
  <2>3. x \in OwnedByFace => x \in OwnedByFace'
    BY <1>6 DEF OwnedByFace
  <2>4. \A t \in Slots : Playing(t) => Playing(t)'
    BY <1>5 DEF Playing
  <2>5. ASSUME NEW t \in Slots, x \in Owned(t) PROVE x \in Owned(t)'
    <3>1. t \notin changed
      BY <2>1, <2>5
    <3>2. layout'.action[t] = layout.action[t]
      BY <1>3, <1>4, <3>1
    <3>3. x \in {action[t]} \cap HostInputs
      BY <2>5, <3>1 DEF Owned
    <3> HIDE DEF slow, loose, l, changed
    <3>4. pad[t].beatDown => t \notin slow
      BY <1>4, <2>1, <3>3 DEF TurboReleases, Released
    <3>5. pad[t].latched => t \notin loose
      BY <1>4, <2>1, <3>3 DEF LatchReleases, Released
    <3> QED BY <1>5, <2>5, <3>2, <3>4, <3>5 DEF Owned
  <2> QED BY <2>2, <2>3, <2>4, <2>5
<1>11. NothingStuck'
  <2>1. (NothingStuck <=>
           \A x \in Live : \/ x \in OwnedByFace \/ (\E t \in Slots : x \in Owned(t))
                           \/ x = "step" /\ \E t \in Slots : Playing(t))'
    BY StuckOrHeld, PTL
  <2> QED BY <1>10, <2>1
<1> QED BY <1>8, <1>9, <1>11 DEF PadInv

LEMMA ReplacedStep ==
  ASSUME PadAssumption, PadInv, StreamReplaced PROVE PadInv'
<1>1. /\ PadTypes /\ UNCHANGED <<layout, pad>> /\ Live' = {}
      /\ face' \in PadFaceType /\ ~face'.beat
  BY DEF PadInv, PadTypes, StreamReplaced, PadFaceType, Live
<1>2. PadTypes'
  BY <1>1 DEF PadTypes, StreamReplaced
<1>3. FaceInv'
  BY <1>1 DEF FaceInv
<1>4. NothingStuck'
  BY <1>1 DEF NothingStuck, Live
<1> QED BY <1>2, <1>3, <1>4 DEF PadInv

LEMMA PadStep ==
  ASSUME PadAssumption, PadInv, [PadNext]_padVars PROVE PadInv'
<1>1. CASE UNCHANGED padVars
  BY <1>1, SMTT(20) DEF padVars, PadInv, PadTypes, FaceInv, Live, NothingStuck, OwnedByFace, Owned, Playing
<1> QED BY <1>1, PlayStep, TapStep, ToggleStep, HoldStep, LetGoStep, BeatStep, SequenceStep, FaceSteps,
           HideStep, GuardStep, LayoutStep, ReplacedStep DEF PadNext

\* Whatever the pad has pressed on the host has a finger, a latch, an interval or a
\* timer that releases it, for any buttons, taps and steps, but for what an edit,
\* a changed turbo or a cancelled sequence leaves behind.
THEOREM NothingStaysPressed == PadSpec => []NothingStuck
<1>1. PadInit => PadInv
  BY PadInitially, PadAssumption
<1>2. PadInv /\ [PadNext]_padVars => PadInv'
  BY PadStep, PadAssumption
<1> QED BY <1>1, <1>2, PadShows, PTL DEF PadSpec

\* A set of naturals that is not empty has a least element.
LEMMA LeastNatural ==
  ASSUME NEW T, T \subseteq Nat, T # {}
  PROVE  \E x \in T : \A y \in T : x <= y
<1>1. IsWellFoundedOn(OpToRel(<,Nat), Nat)
  BY NatLessThanWellFounded
<1>2. PICK x \in T : \A y \in T : ~(<<y,x>> \in OpToRel(<,Nat))
  BY <1>1, WFMin
<1>3. \A y \in T : <<y, x>> \in OpToRel(<,Nat) <=> y < x
  BY DEF OpToRel
<1>4. \A y \in T : ~(y < x)
  BY <1>2, <1>3
<1>5. x \in Nat /\ \A y \in T : y \in Nat
  BY <1>2
<1> QED BY <1>4, <1>5

-----------------------------------------------------------------------------
(* Game controllers *)

SlotType == [pad : Pads \cup {NoPad}, down : BOOLEAN]
VirtualType == [enabled : BOOLEAN, connected : BOOLEAN, down : BOOLEAN, held : BOOLEAN, pulse : BOOLEAN]
KnownStates == {"absent", "up", "down"}
PadUserType == [plugged : SUBSET Pads, holding : SUBSET Pads]
MissedType == [states : SUBSET Ids, pads : SUBSET Pads]

\* No controller has two slots, and what has a slot is plugged in.
SlotsApart(sl) == \A s, t \in LinkSlots : sl[s].pad # NoPad /\ sl[s].pad = sl[t].pad => s = t
ServedBy(sl) == {sl[s].pad : s \in LinkSlots} \ {NoPad}

\* What the host knows of a controller, when the page has seen it in a state.
KnownAs(id, isThere, press) ==
  IF isThere
  THEN known[id] = State(press) \/ (id \in missedPads.states /\ known[id] # "absent")
  ELSE known[id] = "absent"

ControllerTypes ==
  /\ stream \in {"starting", "connected", "restarted", "stopped"}
  /\ padUser \in PadUserType /\ buffered \subseteq Pads
  /\ slots \in [LinkSlots -> SlotType] /\ virtual \in VirtualType
  /\ known \in [Ids -> KnownStates] /\ missedPads \in MissedType

SlotsInv ==
  /\ SlotsApart(slots) /\ ServedBy(slots) \subseteq padUser.plugged
  /\ stream = "starting" => \A s \in LinkSlots : slots[s].pad = NoPad
  /\ stream = "connected" =>
       \A s \in LinkSlots : KnownAs(s, slots[s].pad # NoPad, slots[s].down)
  /\ padUser.plugged \subseteq ServedBy(slots) \cup buffered \cup missedPads.pads

VirtualInv ==
  /\ virtual.down => virtual.connected /\ (virtual.held \/ virtual.pulse)
  /\ virtual.connected => PadConnected
  /\ PadConnected /\ virtual.enabled => virtual.connected
  /\ stream = "connected" => KnownAs(VirtualId, virtual.connected, virtual.down)

ControllerInv == ControllerTypes /\ SlotsInv /\ VirtualInv

\* There are first free slots for as many controllers as there are in P, and
\* what it means that those of P have been given the slots F.
FirstsFree(sl, P) ==
  \E F \in kSubset(Cardinality(P), Free(sl)) : \A s \in F, t \in Free(sl) \ F : s < t
Given(a, sl, kn, P, F, g) ==
  /\ \A p \in P : \E s \in F : g[s] = p
  /\ \A s, t \in F : g[s] = g[t] => s = t
  /\ a.slots = [s \in LinkSlots |-> IF s \in F THEN [pad |-> g[s], down |-> FALSE] ELSE sl[s]]
  /\ a.known = [id \in Ids |-> IF id \in F THEN "up" ELSE kn[id]]

LEMMA ControllerShows == ControllerInv => ControllerTypeOK /\ ControllersInStep
<1>1. ServedBy(slots) = Served
  BY DEF ServedBy, Served
<1> QED BY <1>1 DEF ControllerInv, ControllerTypes, SlotsInv, VirtualInv, ControllerTypeOK, ControllersInStep,
     KnownAs, SlotType, VirtualType, KnownStates, PadUserType, MissedType

LEMMA SlotNumbers ==
  ASSUME PadsAssumption
  PROVE  /\ LinkSlots \subseteq Nat /\ IsFiniteSet(LinkSlots)
         /\ Cardinality(LinkSlots) = Cardinality(Pads) /\ Cardinality(Pads) \in Nat
         /\ Cardinality(Pads) <= VirtualId => VirtualId \notin LinkSlots
<1>1. Cardinality(Pads) \in Nat
  BY FS_CardinalityType DEF PadsAssumption
<1>2. /\ IsFiniteSet(0 .. Cardinality(Pads) - 1)
      /\ Cardinality(0 .. Cardinality(Pads) - 1) = IF 0 > Cardinality(Pads) - 1 THEN 0 ELSE Cardinality(Pads) - 1 - 0 + 1
  <2> HIDE DEF PadsAssumption
  <2> QED BY <1>1, FS_Interval
<1> QED BY <1>1, <1>2 DEF LinkSlots, VirtualId

\* Whatever slots a set of controllers is given, when there are first free ones.
LEMMA AnnouncedFills ==
  ASSUME PadsAssumption, NEW sl \in [LinkSlots -> SlotType], NEW kn \in [Ids -> KnownStates],
         NEW P, P \subseteq Pads,
         FirstsFree(sl, P),
         NEW a \in Announced(sl, kn, P)
  PROVE  \E F \in SUBSET Free(sl) : \E g \in [F -> P] : Given(a, sl, kn, P, F, g)
<1>. DEFINE free == CHOOSE F \in kSubset(Cardinality(P), Free(sl)) :
                      \A s \in F, t \in Free(sl) \ F : s < t
<1>1. free \in kSubset(Cardinality(P), Free(sl))
  BY DEF FirstsFree
<1>. DEFINE onto == {g \in [free -> P] : \A p \in P : \E s \in free : g[s] = p}
<1>2. a \in {[slots |-> [s \in LinkSlots |-> IF s \in F[1] THEN [pad |-> F[2][s], down |-> FALSE] ELSE sl[s]],
             known |-> [id \in Ids |-> IF id \in F[1] THEN "up" ELSE kn[id]]] :
              F \in {<<free, f>> : f \in onto}}
  BY DEF Announced
<1>3. PICK g \in onto :
        a = [slots |-> [s \in LinkSlots |-> IF s \in free THEN [pad |-> g[s], down |-> FALSE] ELSE sl[s]],
             known |-> [id \in Ids |-> IF id \in free THEN "up" ELSE kn[id]]]
  <2> HIDE DEF onto, free
  <2> QED BY <1>2
<1> HIDE DEF free
<1>4. free \subseteq Free(sl) /\ Cardinality(free) = Cardinality(P) /\ free \subseteq LinkSlots
  BY <1>1 DEF kSubset, Free
<1>5. IsFiniteSet(free)
  BY <1>4, SlotNumbers, FS_Subset
<1>6. g \in Surjection(free, P)
  BY DEF Surjection
<1>7. g \in Injection(free, P)
  BY <1>4, <1>5, <1>6, FS_Surjection
<1>8. \A s, t \in free : g[s] = g[t] => s = t
  BY <1>7 DEF Injection, IsInjective
<1>9. g \in [free -> P] /\ \A p \in P : \E s \in free : g[s] = p
  OBVIOUS
<1>10. /\ a.slots = [s \in LinkSlots |-> IF s \in free THEN [pad |-> g[s], down |-> FALSE] ELSE sl[s]]
       /\ a.known = [id \in Ids |-> IF id \in free THEN "up" ELSE kn[id]]
  BY <1>3
<1> HIDE DEF onto
<1>. free \in SUBSET Free(sl) /\ g \in [free -> P]
  BY <1>4, <1>9
<1> WITNESS free \in SUBSET Free(sl)
<1> WITNESS g \in [free -> P]
<1> QED BY <1>8, <1>9, <1>10 DEF Given

\* A controller that is plugged in finds a first free slot: no other has two.
LEMMA OneSlotFree ==
  ASSUME PadsAssumption, NEW sl \in [LinkSlots -> SlotType], SlotsApart(sl),
         NEW p \in Pads, p \notin ServedBy(sl)
  PROVE  FirstsFree(sl, {p})
<1>1. /\ LinkSlots \subseteq Nat /\ IsFiniteSet(LinkSlots) /\ IsFiniteSet(Pads)
      /\ Cardinality(LinkSlots) = Cardinality(Pads) /\ Cardinality(Pads) \in Nat
  BY SlotNumbers DEF PadsAssumption
<1>2. Free(sl) # {}
  <2> SUFFICES ASSUME Free(sl) = {} PROVE FALSE
    OBVIOUS
  <2>. DEFINE f == [s \in LinkSlots |-> sl[s].pad]
              others == Pads \ {p}
  <2>1. \A s \in LinkSlots : sl[s].pad \in others
    BY DEF Free, SlotType, ServedBy
  <2>2. f \in Injection(LinkSlots, others)
    BY <2>1 DEF Injection, IsInjective, SlotsApart, PadsAssumption
  <2>3. IsFiniteSet(others) /\ Cardinality(others) = Cardinality(Pads) - 1
    BY <1>1, FS_RemoveElement
  <2> HIDE DEF others, f
  <2>4. Cardinality(LinkSlots) <= Cardinality(others)
    BY <2>2, <2>3, FS_Injection
  <2> QED BY <1>1, <2>3, <2>4
<1>3. Free(sl) \subseteq LinkSlots /\ Free(sl) \subseteq Nat
  BY <1>1 DEF Free
<1>4. PICK x \in Free(sl) : \A y \in Free(sl) : x <= y
  BY <1>2, <1>3, LeastNatural
<1>5. Cardinality({p}) = 1 /\ Cardinality({x}) = 1
  BY FS_Singleton
<1>6. {x} \in kSubset(Cardinality({p}), Free(sl))
  BY <1>5 DEF kSubset
<1>7. \A s \in {x}, t \in Free(sl) \ {x} : s < t
  BY <1>3, <1>4
<1> QED BY <1>6, <1>7 DEF FirstsFree

\* When every slot is free, the first ones are.
LEMMA AllSlotsFree ==
  ASSUME PadsAssumption, NEW sl, \A s \in LinkSlots : sl[s].pad = NoPad, NEW P, P \subseteq Pads
  PROVE  FirstsFree(sl, P)
<1>. DEFINE k == Cardinality(P)
            n == Cardinality(Pads)
<1>1. k \in Nat /\ k <= n /\ n \in Nat
  BY FS_Subset, FS_CardinalityType DEF PadsAssumption
<1>2. Free(sl) = 0 .. n - 1
  BY DEF Free, LinkSlots
<1> HIDE DEF k, n
<1>3. Cardinality(0 .. k - 1) = k
  BY <1>1, FS_Interval
<1>4. 0 .. k - 1 \in kSubset(k, Free(sl))
  BY <1>1, <1>2, <1>3 DEF kSubset
<1>5. \A s \in 0 .. k - 1, t \in Free(sl) \ (0 .. k - 1) : s < t
  BY <1>1, <1>2
<1> QED BY <1>4, <1>5 DEF k, FirstsFree

\* Controllers are announced: they and no others are new in the slots.
LEMMA AnnouncedKeeps ==
  ASSUME PadsAssumption, Cardinality(Pads) <= VirtualId,
         NEW sl \in [LinkSlots -> SlotType], NEW kn \in [Ids -> KnownStates], SlotsApart(sl),
         NEW P, P \subseteq Pads, P \cap ServedBy(sl) = {},
         FirstsFree(sl, P),
         NEW a \in Announced(sl, kn, P)
  PROVE  /\ a.slots \in [LinkSlots -> SlotType] /\ a.known \in [Ids -> KnownStates]
         /\ SlotsApart(a.slots) /\ ServedBy(a.slots) = ServedBy(sl) \cup P
         /\ a.known[VirtualId] = kn[VirtualId]
         /\ \A s \in LinkSlots :
              \/ a.slots[s] = sl[s] /\ a.known[s] = kn[s]
              \/ /\ sl[s].pad = NoPad /\ a.slots[s].pad # NoPad
                 /\ ~a.slots[s].down /\ a.known[s] = "up"
<1>1. PICK F \in SUBSET Free(sl) : \E g \in [F -> P] : Given(a, sl, kn, P, F, g)
  BY AnnouncedFills
<1>2. PICK g \in [F -> P] :
        /\ \A p \in P : \E s \in F : g[s] = p
        /\ \A s, t \in F : g[s] = g[t] => s = t
        /\ a.slots = [s \in LinkSlots |-> IF s \in F THEN [pad |-> g[s], down |-> FALSE] ELSE sl[s]]
        /\ a.known = [id \in Ids |-> IF id \in F THEN "up" ELSE kn[id]]
  BY <1>1 DEF Given
<1>3. /\ F \subseteq LinkSlots /\ \A s \in F : sl[s].pad = NoPad
      /\ NoPad \notin P /\ VirtualId \notin LinkSlots /\ LinkSlots \subseteq Ids /\ VirtualId \in Ids
  BY SlotNumbers DEF Free, Ids, PadsAssumption
<1>4. \A s \in LinkSlots :
        /\ s \in F => a.slots[s] = [pad |-> g[s], down |-> FALSE]
        /\ s \notin F => a.slots[s] = sl[s]
  BY <1>2
<1>5. \A s \in F : g[s] \in P /\ g[s] \in Pads /\ g[s] # NoPad
  BY <1>3
<1>6. a.slots \in [LinkSlots -> SlotType]
  BY <1>2, <1>5 DEF SlotType
<1>7. a.known \in [Ids -> KnownStates]
  BY <1>2 DEF KnownStates
<1>8. ASSUME NEW s \in LinkSlots
      PROVE  /\ s \in F => a.slots[s].pad = g[s]
             /\ s \notin F => a.slots[s].pad = sl[s].pad
  <2>. DEFINE t == a.slots[s]
  <2>1. s \in F => t = [pad |-> g[s], down |-> FALSE]
    BY <1>4
  <2>2. s \notin F => t = sl[s]
    BY <1>4
  <2> HIDE DEF t
  <2>3. s \in F => t.pad = g[s]
    BY <2>1
  <2>4. s \notin F => t.pad = sl[s].pad
    BY <2>2
  <2> QED BY <2>3, <2>4 DEF t
<1>9. SlotsApart(a.slots)
  <2>1. ASSUME NEW s \in LinkSlots, NEW t \in LinkSlots,
               a.slots[s].pad # NoPad, a.slots[s].pad = a.slots[t].pad
        PROVE  s = t
    <3>1. CASE s \in F /\ t \in F
      BY <1>2, <1>8, <2>1, <3>1
    <3>2. CASE s \notin F /\ t \notin F
      BY <1>8, <2>1, <3>2 DEF SlotsApart
    <3>3. CASE (s \in F /\ t \notin F) \/ (s \notin F /\ t \in F)
      <4>1. \E u \in LinkSlots : sl[u].pad \in P
        BY <1>5, <1>8, <2>1, <3>3
      <4> QED BY <1>3, <4>1 DEF ServedBy
    <3> QED BY <3>1, <3>2, <3>3
  <2> QED BY <2>1 DEF SlotsApart
<1>10. ServedBy(a.slots) = ServedBy(sl) \cup P
  <2>1. \A p : p \in ServedBy(a.slots) => p \in ServedBy(sl) \cup P
    BY <1>5, <1>8 DEF ServedBy
  <2>2. \A p \in P : p \in ServedBy(a.slots)
    BY <1>2, <1>3, <1>8 DEF ServedBy
  <2>3. \A p \in ServedBy(sl) : p \in ServedBy(a.slots)
    BY <1>3, <1>8 DEF ServedBy
  <2> QED BY <2>1, <2>2, <2>3
<1>11. a.known[VirtualId] = kn[VirtualId]
  BY <1>2, <1>3
<1>12. ASSUME NEW s \in LinkSlots
       PROVE  \/ a.slots[s] = sl[s] /\ a.known[s] = kn[s]
              \/ /\ sl[s].pad = NoPad /\ a.slots[s].pad # NoPad
                 /\ ~a.slots[s].down /\ a.known[s] = "up"
  BY <1>2, <1>3, <1>4, <1>5
<1> QED BY <1>6, <1>7, <1>9, <1>10, <1>11, <1>12

LEMMA VirtualFields ==
  ASSUME NEW v \in VirtualType
  PROVE  /\ v.enabled \in BOOLEAN /\ v.connected \in BOOLEAN /\ v.down \in BOOLEAN
         /\ v.held \in BOOLEAN /\ v.pulse \in BOOLEAN
         /\ WithVirtual(v) \in VirtualType /\ WithoutVirtual(v) \in VirtualType
         /\ WithVirtual(v).enabled = v.enabled /\ (v.enabled => WithVirtual(v).connected)
         /\ (~v.enabled \/ v.connected => WithVirtual(v) = v)
         /\ (v.enabled /\ ~v.connected => ~WithVirtual(v).down)
         /\ ~WithoutVirtual(v).connected /\ ~WithoutVirtual(v).down
         /\ WithoutVirtual(v).enabled = v.enabled
         /\ \A p \in BOOLEAN : /\ [v EXCEPT !.enabled = p] \in VirtualType
                               /\ [v EXCEPT !.down = p] \in VirtualType
                               /\ [v EXCEPT !.pulse = p] \in VirtualType
         /\ \A p, q, r \in BOOLEAN : [v EXCEPT !.down = p, !.held = q, !.pulse = r] \in VirtualType
         /\ \A p, q \in BOOLEAN : [v EXCEPT !.down = p, !.pulse = q] \in VirtualType
<1>1. /\ v.enabled \in BOOLEAN /\ v.connected \in BOOLEAN /\ v.down \in BOOLEAN
      /\ v.held \in BOOLEAN /\ v.pulse \in BOOLEAN
  BY DEF VirtualType
<1>2. /\ \A p \in BOOLEAN : /\ [v EXCEPT !.enabled = p] \in VirtualType
                            /\ [v EXCEPT !.down = p] \in VirtualType
                            /\ [v EXCEPT !.pulse = p] \in VirtualType
      /\ \A p, q, r \in BOOLEAN : [v EXCEPT !.down = p, !.held = q, !.pulse = r] \in VirtualType
      /\ \A p, q \in BOOLEAN : [v EXCEPT !.down = p, !.pulse = q] \in VirtualType
  BY Zenon DEF VirtualType
<1>3. /\ WithVirtual(v) \in VirtualType
      /\ WithVirtual(v).enabled = v.enabled /\ (v.enabled => WithVirtual(v).connected)
      /\ (~v.enabled \/ v.connected => WithVirtual(v) = v)
      /\ (v.enabled /\ ~v.connected => ~WithVirtual(v).down)
  BY <1>1 DEF WithVirtual, VirtualType
<1>4. /\ WithoutVirtual(v) \in VirtualType
      /\ ~WithoutVirtual(v).connected /\ ~WithoutVirtual(v).down
      /\ WithoutVirtual(v).enabled = v.enabled
  BY <1>1 DEF WithoutVirtual, VirtualType
<1> QED BY <1>1, <1>2, <1>3, <1>4

\* What a step of the virtual controller leaves to the physical ones, and a
\* step of a physical one to the virtual one.
SlotsSame ==
  /\ UNCHANGED <<stream, padUser, buffered, slots>> /\ missedPads'.pads = missedPads.pads
  /\ \A s \in LinkSlots :
       known'[s] = known[s] /\ (s \in missedPads.states => s \in missedPads'.states)

LEMMA SlotsKept == ASSUME SlotsInv, SlotsSame PROVE SlotsInv'
BY DEF SlotsInv, SlotsSame, SlotsApart, ServedBy, KnownAs

LEMMA VirtualKept ==
  ASSUME VirtualInv, virtual' = virtual, stream' = stream, known'[VirtualId] = known[VirtualId],
         VirtualId \in missedPads.states => VirtualId \in missedPads'.states
  PROVE  VirtualInv'
BY DEF VirtualInv, KnownAs, PadConnected

LEMMA ControllerFields ==
  ASSUME PadsAssumption, ControllerTypes, Cardinality(Pads) <= VirtualId
  PROVE  /\ missedPads.states \subseteq Ids /\ missedPads.pads \subseteq Pads
         /\ padUser.plugged \subseteq Pads /\ padUser.holding \subseteq Pads
         /\ VirtualId \in Ids /\ VirtualId \notin LinkSlots /\ LinkSlots \subseteq Ids
         /\ virtual \in VirtualType /\ known \in [Ids -> KnownStates]
         /\ \A press \in BOOLEAN : State(press) \in KnownStates /\ State(press) # "absent"
BY SlotNumbers DEF ControllerTypes, MissedType, PadUserType, Ids, KnownStates, State

\* The state of the virtual controller is sent, or the channel drops it.
LEMMA SendVirtualStep ==
  ASSUME PadsAssumption, Cardinality(Pads) <= VirtualId, ControllerInv,
         NEW v \in VirtualType, SendVirtual(v), UNCHANGED <<stream, padUser, buffered, slots>>,
         PadConnected, virtual.connected, v.connected, v.down => v.held \/ v.pulse
  PROVE  ControllerInv'
<1>1. ControllerTypes /\ SlotsInv /\ VirtualInv
  BY DEF ControllerInv
<1>2. virtual' = v /\ stream' = stream /\ v.down \in BOOLEAN
  BY VirtualFields DEF SendVirtual
<1>3. /\ known' \in [Ids -> KnownStates] /\ missedPads' \in MissedType
      /\ missedPads'.pads = missedPads.pads
      /\ \A s \in LinkSlots :
           known'[s] = known[s] /\ (s \in missedPads.states => s \in missedPads'.states)
      /\ \/ known'[VirtualId] = known[VirtualId] /\ VirtualId \in missedPads'.states
         \/ known'[VirtualId] = State(v.down)
  <2>1. PICK congested \in BOOLEAN :
             IF congested
             THEN /\ UNCHANGED known
                  /\ missedPads' = [missedPads EXCEPT !.states = missedPads.states \cup {VirtualId}]
             ELSE /\ known' = [known EXCEPT ![VirtualId] = State(v.down)]
                  /\ missedPads' = [missedPads EXCEPT !.states = Seen]
    BY DEF SendVirtual
  <2>2. CASE congested
    BY <1>1, <2>1, <2>2, ControllerFields DEF ControllerTypes, MissedType
  <2>3. CASE ~congested
    BY <1>1, <1>2, <2>1, <2>3, ControllerFields DEF ControllerTypes, MissedType, Seen
  <2> QED BY <2>2, <2>3
<1>4. ControllerTypes'
  BY <1>1, <1>2, <1>3 DEF ControllerTypes
<1>5. SlotsInv'
  BY <1>1, <1>3, SlotsKept DEF SlotsSame
<1>6. VirtualInv'
  <2>1. stream = "connected" => known[VirtualId] # "absent"
    BY <1>1, <1>2, ControllerFields, VirtualFields DEF VirtualInv, KnownAs
  <2> QED BY <1>1, <1>2, <1>3, <2>1 DEF VirtualInv, KnownAs, PadConnected
<1> QED BY <1>4, <1>5, <1>6 DEF ControllerInv

LEMMA VirtualButtonStep ==
  ASSUME PadsAssumption, Cardinality(Pads) <= VirtualId, ControllerInv,
         \/ \E press \in BOOLEAN : SetVirtualButton(press)
         \/ PulseVirtualButton \/ ResetVirtual \/ PulseTimerFires
  PROVE  ControllerInv'
<1>1. ControllerTypes /\ SlotsInv /\ VirtualInv /\ virtual \in VirtualType
  BY DEF ControllerInv, ControllerTypes
<1>2. ASSUME PadConnected, virtual.enabled
      PROVE  virtual.connected /\ WithVirtual(virtual) = virtual
  BY <1>1, <1>2, VirtualFields DEF VirtualInv
<1>3. ASSUME NEW press \in BOOLEAN, SetVirtualButton(press) PROVE ControllerInv'
  <2>. DEFINE v == [virtual EXCEPT !.down = press, !.held = press, !.pulse = FALSE]
  <2>1. /\ v \in VirtualType /\ v.connected = virtual.connected /\ v.down = press /\ v.held = press
    <3>1. v \in VirtualType
      BY <1>1, VirtualFields
    <3> QED BY <1>1, <3>1 DEF VirtualType
  <2>2. /\ PadConnected /\ virtual.connected /\ SendVirtual(v)
        /\ UNCHANGED <<stream, padUser, buffered, slots>>
    BY <1>2, <1>3 DEF SetVirtualButton
  <2> HIDE DEF v
  <2> QED BY <2>1, <2>2, SendVirtualStep
<1>4. CASE PulseVirtualButton
  <2>. DEFINE v == [virtual EXCEPT !.down = TRUE, !.pulse = TRUE]
  <2>1. /\ v \in VirtualType /\ v.connected = virtual.connected /\ v.pulse
    <3>1. v \in VirtualType
      BY <1>1, VirtualFields
    <3> QED BY <1>1, <3>1 DEF VirtualType
  <2>2. /\ PadConnected /\ virtual.connected /\ SendVirtual(v)
        /\ UNCHANGED <<stream, padUser, buffered, slots>>
    BY <1>2, <1>4 DEF PulseVirtualButton
  <2> HIDE DEF v
  <2> QED BY <2>1, <2>2, SendVirtualStep
<1>5. CASE ResetVirtual
  <2>. DEFINE v == [virtual EXCEPT !.down = FALSE]
  <2>1. /\ v \in VirtualType /\ v.connected = virtual.connected /\ ~v.down
    <3>1. v \in VirtualType
      BY <1>1, VirtualFields
    <3> QED BY <1>1, <3>1 DEF VirtualType
  <2>2. /\ PadConnected /\ virtual.connected /\ SendVirtual(v)
        /\ UNCHANGED <<stream, padUser, buffered, slots>>
    BY <1>2, <1>5 DEF ResetVirtual
  <2> HIDE DEF v
  <2> QED BY <2>1, <2>2, SendVirtualStep
<1>6. CASE PulseTimerFires /\ virtual.connected
  <2>. DEFINE v == [virtual EXCEPT !.down = FALSE, !.pulse = FALSE]
  <2>1. /\ v \in VirtualType /\ v.connected = virtual.connected /\ ~v.down
        /\ v.enabled = virtual.enabled
    <3>1. v \in VirtualType
      BY <1>1, VirtualFields
    <3> QED BY <1>1, <3>1 DEF VirtualType
  <2>2. /\ virtual.connected /\ SendVirtual(v)
        /\ UNCHANGED <<stream, padUser, buffered, slots>>
    BY <1>6 DEF PulseTimerFires
  <2> HIDE DEF v
  <2>3. PadConnected
    BY <1>1, <1>6 DEF VirtualInv, PadConnected
  <2> QED BY <2>1, <2>2, <2>3, SendVirtualStep
<1>7. CASE PulseTimerFires /\ ~virtual.connected
  <2>1. /\ UNCHANGED <<stream, padUser, buffered, slots, known, missedPads>>
        /\ virtual' = [virtual EXCEPT !.pulse = FALSE]
    BY <1>7 DEF PulseTimerFires
  <2>2. virtual' \in VirtualType /\ virtual'.connected = virtual.connected /\ virtual'.down = virtual.down
        /\ virtual'.enabled = virtual.enabled
    <3>1. virtual' \in VirtualType
      BY <1>1, <2>1, VirtualFields
    <3> QED BY <1>1, <2>1, <3>1 DEF VirtualType
  <2>3. VirtualInv'
    BY <1>1, <1>7, <2>1, <2>2 DEF VirtualInv, KnownAs, PadConnected
  <2> QED BY <1>1, <2>1, <2>2, <2>3, SlotsKept DEF ControllerInv, ControllerTypes, SlotsSame
<1> QED BY <1>3, <1>4, <1>5, <1>6, <1>7

LEMMA VirtualEnableStep ==
  ASSUME PadsAssumption, Cardinality(Pads) <= VirtualId, ControllerInv,
         ReconnectVirtual \/ \E enabled \in BOOLEAN : SetVirtualEnabled(enabled)
  PROVE  ControllerInv'
<1>1. ControllerTypes /\ SlotsInv /\ VirtualInv /\ virtual \in VirtualType
  BY DEF ControllerInv, ControllerTypes
<1>2. /\ Arrived(known) \in [Ids -> KnownStates] /\ Removed(known) \in [Ids -> KnownStates]
      /\ Arrived(known)[VirtualId] = "up" /\ Removed(known)[VirtualId] = "absent"
      /\ \A s \in LinkSlots : Arrived(known)[s] = known[s] /\ Removed(known)[s] = known[s]
      /\ Seen \subseteq Ids /\ \A s \in LinkSlots : s \in missedPads.states => s \in Seen
      /\ \A m : m = [missedPads EXCEPT !.states = Seen] =>
                  m \in MissedType /\ m.states = Seen /\ m.pads = missedPads.pads
      /\ missedPads \in MissedType
  <2>1. /\ VirtualId \in Ids /\ VirtualId \notin LinkSlots /\ LinkSlots \subseteq Ids
        /\ known \in [Ids -> KnownStates] /\ missedPads.states \subseteq Ids /\ missedPads \in MissedType
    BY <1>1, ControllerFields DEF ControllerTypes
  <2>2. /\ Arrived(known) \in [Ids -> KnownStates] /\ Removed(known) \in [Ids -> KnownStates]
        /\ Arrived(known)[VirtualId] = "up" /\ Removed(known)[VirtualId] = "absent"
        /\ \A s \in LinkSlots : Arrived(known)[s] = known[s] /\ Removed(known)[s] = known[s]
    BY <2>1 DEF Arrived, Removed, KnownStates
  <2>3. Seen \subseteq Ids /\ \A s \in LinkSlots : s \in missedPads.states => s \in Seen
    BY <2>1 DEF Seen
  <2>4. \A m : m = [missedPads EXCEPT !.states = Seen] =>
                 m \in MissedType /\ m.states = Seen /\ m.pads = missedPads.pads
    BY <2>1, <2>3 DEF MissedType
  <2> QED BY <2>1, <2>2, <2>3, <2>4
<1>3. CASE ReconnectVirtual
  <2>. DEFINE w == WithoutVirtual(virtual)
              v == [w EXCEPT !.enabled = TRUE]
  <2>1. w \in VirtualType /\ ~w.connected
    BY <1>1, VirtualFields
  <2> HIDE DEF w
  <2>2. v \in VirtualType /\ ~v.connected /\ v.enabled
    <3>1. v \in VirtualType
      BY <2>1, VirtualFields
    <3> QED BY <2>1, <3>1 DEF VirtualType
  <2>3. virtual' = WithVirtual(v)
    BY <1>3 DEF ReconnectVirtual, w
  <2> HIDE DEF v
  <2>4. virtual' \in VirtualType /\ virtual'.connected /\ ~virtual'.down
    BY <2>2, <2>3, VirtualFields
  <2>5. /\ UNCHANGED <<stream, padUser, buffered, slots>> /\ PadConnected
        /\ known' = Arrived(known) /\ missedPads' = [missedPads EXCEPT !.states = Seen]
    BY <1>3 DEF ReconnectVirtual
  <2>6. VirtualInv'
    BY <1>2, <2>4, <2>5 DEF VirtualInv, KnownAs, PadConnected, State
  <2>7. SlotsInv'
    BY <1>1, <1>2, <2>5, SlotsKept DEF SlotsSame
  <2>8. ControllerTypes'
    BY <1>1, <1>2, <2>4, <2>5 DEF ControllerTypes
  <2> QED BY <2>6, <2>7, <2>8 DEF ControllerInv
<1>4. ASSUME NEW enabled \in BOOLEAN, SetVirtualEnabled(enabled) PROVE ControllerInv'
  <2>. DEFINE v == [virtual EXCEPT !.enabled = enabled]
              change == PadConnected /\ (enabled # virtual.connected)
  <2>1. /\ v \in VirtualType /\ v.enabled = enabled /\ v.connected = virtual.connected
        /\ v.down = virtual.down /\ v.held = virtual.held /\ v.pulse = virtual.pulse
    <3>1. v \in VirtualType
      BY <1>1, VirtualFields
    <3> QED BY <1>1, <3>1 DEF VirtualType
  <2>2. /\ virtual' = IF ~PadConnected THEN v
                      ELSE IF enabled THEN WithVirtual(v) ELSE WithoutVirtual(v)
        /\ known' = IF ~change THEN known ELSE IF enabled THEN Arrived(known) ELSE Removed(known)
        /\ missedPads' = [missedPads EXCEPT !.states = IF change THEN Seen ELSE @]
        /\ UNCHANGED <<stream, padUser, buffered, slots>>
    BY <1>4 DEF SetVirtualEnabled
  <2> HIDE DEF v
  <2>3. /\ missedPads' \in MissedType /\ missedPads'.pads = missedPads.pads
        /\ ~change => missedPads'.states = missedPads.states
        /\ \A s \in LinkSlots : s \in missedPads.states => s \in missedPads'.states
    <3>1. CASE change
      BY <1>2, <2>2, <3>1
    <3>2. CASE ~change
      <4>1. missedPads' = missedPads
        BY <1>2, <2>2, <3>2 DEF MissedType
      <4> QED BY <1>2, <4>1
    <3> QED BY <3>1, <3>2
  <2>4. /\ known' \in [Ids -> KnownStates]
        /\ \A s \in LinkSlots : known'[s] = known[s]
    BY <1>1, <1>2, <2>2 DEF ControllerTypes
  <2>5. virtual' \in VirtualType
    BY <2>1, <2>2, VirtualFields
  <2>6. VirtualInv'
    <3>1. CASE ~PadConnected
      BY <1>1, <2>1, <2>2, <2>3, <3>1 DEF VirtualInv, KnownAs, PadConnected
    <3>2. CASE PadConnected /\ enabled /\ virtual.connected
      <4>1. virtual' = v
        BY <2>1, <2>2, <3>2, VirtualFields
      <4> QED BY <1>1, <2>1, <2>2, <2>3, <3>2, <4>1 DEF VirtualInv, KnownAs, PadConnected
    <3>3. CASE PadConnected /\ enabled /\ ~virtual.connected
      <4>1. virtual'.connected /\ ~virtual'.down
        BY <2>1, <2>2, <3>3, VirtualFields
      <4>2. known'[VirtualId] = "up"
        BY <1>1, <1>2, <2>2, <3>3, VirtualFields
      <4> QED BY <1>1, <2>2, <3>3, <4>1, <4>2 DEF VirtualInv, KnownAs, PadConnected, State
    <3>4. CASE PadConnected /\ ~enabled
      <4>1. ~virtual'.connected /\ ~virtual'.down /\ ~virtual'.enabled
        BY <2>1, <2>2, <3>4, VirtualFields
      <4>2. stream = "connected" => known'[VirtualId] = "absent"
        BY <1>1, <1>2, <2>2, <3>4, VirtualFields DEF VirtualInv, KnownAs
      <4> QED BY <1>1, <2>2, <3>4, <4>1, <4>2 DEF VirtualInv, KnownAs, PadConnected
    <3> QED BY <3>1, <3>2, <3>3, <3>4
  <2>7. SlotsInv'
    BY <1>1, <2>2, <2>3, <2>4, SlotsKept DEF SlotsSame
  <2>8. ControllerTypes'
    BY <1>1, <2>2, <2>3, <2>4, <2>5 DEF ControllerTypes
  <2> QED BY <2>6, <2>7, <2>8 DEF ControllerInv
<1> QED BY <1>3, <1>4

LEMMA PlugStep ==
  ASSUME PadsAssumption, Cardinality(Pads) <= VirtualId, ControllerInv, NEW p \in Pads, Plug(p)
  PROVE  ControllerInv'
<1>1. ControllerTypes /\ SlotsInv /\ VirtualInv
  BY DEF ControllerInv
<1>2. /\ p \notin padUser.plugged /\ stream' = stream /\ virtual' = virtual
      /\ padUser' \in PadUserType /\ padUser'.plugged = padUser.plugged \cup {p}
  BY <1>1 DEF Plug, ControllerTypes, PadUserType
<1>3. CASE ~PadConnected
  <2>1. buffered' = buffered \cup {p} /\ UNCHANGED <<slots, known, missedPads>>
    BY <1>3 DEF Plug
  <2>2. SlotsInv'
    BY <1>1, <1>2, <1>3, <2>1 DEF SlotsInv, SlotsApart, ServedBy, KnownAs, PadConnected
  <2> QED BY <1>1, <1>2, <2>1, <2>2, VirtualKept DEF ControllerInv, ControllerTypes
<1>4. CASE PadConnected
  <2>1. PICK a \in Announced(slots, known, {p}) :
           /\ slots' = a.slots /\ known' = a.known
           /\ missedPads' = [states |-> missedPads.states \ {s \in LinkSlots : a.slots[s] # slots[s]},
                             pads |-> missedPads.pads \ {p}]
    BY <1>4 DEF Plug
  <2>2. buffered' = buffered
    BY <1>4 DEF Plug
  <2>3. /\ slots \in [LinkSlots -> SlotType] /\ known \in [Ids -> KnownStates] /\ SlotsApart(slots)
        /\ p \notin ServedBy(slots)
    BY <1>1, <1>2 DEF ControllerTypes, SlotsInv
  <2>4. {p} \subseteq Pads /\ {p} \cap ServedBy(slots) = {} /\ FirstsFree(slots, {p})
    BY <2>3, OneSlotFree
  <2>5. /\ a.slots \in [LinkSlots -> SlotType] /\ a.known \in [Ids -> KnownStates]
        /\ SlotsApart(a.slots) /\ ServedBy(a.slots) = ServedBy(slots) \cup {p}
        /\ a.known[VirtualId] = known[VirtualId]
        /\ \A s \in LinkSlots :
             \/ a.slots[s] = slots[s] /\ a.known[s] = known[s]
             \/ /\ slots[s].pad = NoPad /\ a.slots[s].pad # NoPad
                /\ ~a.slots[s].down /\ a.known[s] = "up"
    BY <2>3, <2>4, AnnouncedKeeps
  <2>6. /\ missedPads' \in MissedType /\ missedPads'.pads = missedPads.pads \ {p}
        /\ missedPads'.states = missedPads.states \ {s \in LinkSlots : a.slots[s] # slots[s]}
    BY <1>1, <2>1, ControllerFields DEF MissedType
  <2>7. SlotsInv'
    <3>1. SlotsApart(slots') /\ ServedBy(slots') \subseteq padUser'.plugged
      BY <1>1, <1>2, <2>1, <2>5 DEF SlotsInv
    <3>2. padUser'.plugged \subseteq ServedBy(slots') \cup buffered' \cup missedPads'.pads
      BY <1>1, <1>2, <2>1, <2>2, <2>5, <2>6 DEF SlotsInv
    <3>3. ASSUME stream = "connected", NEW s \in LinkSlots
          PROVE  KnownAs(s, slots[s].pad # NoPad, slots[s].down)'
      <4>1. KnownAs(s, slots[s].pad # NoPad, slots[s].down)
        BY <1>1, <3>3 DEF SlotsInv
      <4>2. CASE slots'[s] = slots[s] /\ known'[s] = known[s]
        BY <2>1, <2>6, <4>1, <4>2 DEF KnownAs
      <4>3. CASE slots'[s].pad # NoPad /\ ~slots'[s].down /\ known'[s] = "up"
        BY <4>3 DEF KnownAs, State
      <4> QED BY <2>1, <2>5, <4>2, <4>3
    <3> QED BY <1>2, <1>4, <3>1, <3>2, <3>3 DEF SlotsInv, PadConnected
  <2>8. VirtualInv'
    BY <1>1, <1>2, <2>1, <2>5, <2>6, VirtualKept, ControllerFields
  <2> QED BY <1>1, <1>2, <2>1, <2>2, <2>5, <2>6, <2>7, <2>8 DEF ControllerInv, ControllerTypes
<1> QED BY <1>3, <1>4

LEMMA UnplugStep ==
  ASSUME PadsAssumption, Cardinality(Pads) <= VirtualId, ControllerInv, NEW p \in Pads, Unplug(p)
  PROVE  ControllerInv'
<1>1. ControllerTypes /\ SlotsInv /\ VirtualInv
  BY DEF ControllerInv
<1>2. /\ UNCHANGED <<stream, buffered, virtual>>
      /\ padUser' = [plugged |-> padUser.plugged \ {p}, holding |-> padUser.holding \ {p}]
      /\ slots' = [s \in LinkSlots |-> IF s \in SlotOf(p) THEN EmptySlot ELSE slots[s]]
      /\ known' = [id \in Ids |-> IF id \in SlotOf(p) THEN "absent" ELSE known[id]]
      /\ missedPads' = [states |-> missedPads.states \ SlotOf(p), pads |-> missedPads.pads \ {p}]
  BY DEF Unplug
<1>3. padUser' \in PadUserType /\ padUser'.plugged = padUser.plugged \ {p}
  BY <1>1, <1>2, ControllerFields DEF PadUserType
<1>4. /\ missedPads' \in MissedType /\ missedPads'.states = missedPads.states \ SlotOf(p)
      /\ missedPads'.pads = missedPads.pads \ {p}
  BY <1>1, <1>2, ControllerFields DEF MissedType
<1>5. /\ SlotOf(p) \subseteq LinkSlots /\ EmptySlot \in SlotType /\ EmptySlot.pad = NoPad
      /\ p # NoPad /\ \A s \in LinkSlots : s \in SlotOf(p) <=> slots[s].pad = p
  BY DEF SlotOf, EmptySlot, SlotType, PadsAssumption
<1>6. slots' \in [LinkSlots -> SlotType] /\ known' \in [Ids -> KnownStates]
  BY <1>1, <1>2, <1>5 DEF ControllerTypes, KnownStates
<1>7. /\ \A s \in SlotOf(p) : slots'[s].pad = NoPad /\ known'[s] = "absent"
      /\ \A s \in LinkSlots : s \notin SlotOf(p) => slots'[s] = slots[s] /\ known'[s] = known[s]
      /\ known'[VirtualId] = known[VirtualId]
      /\ VirtualId \notin SlotOf(p)
  BY <1>1, <1>2, <1>5, ControllerFields
<1>8. ServedBy(slots') = ServedBy(slots) \ {p}
  <2>1. \A x : x \in ServedBy(slots') => x \in ServedBy(slots) \ {p}
    BY <1>5, <1>7 DEF ServedBy
  <2>2. \A x : x \in ServedBy(slots) \ {p} => x \in ServedBy(slots')
    BY <1>5, <1>7 DEF ServedBy
  <2> QED BY <2>1, <2>2
<1>9. SlotsInv'
  <2>1. SlotsApart(slots')
    BY <1>1, <1>5, <1>7 DEF SlotsApart, SlotsInv
  <2>2. ServedBy(slots') \subseteq padUser'.plugged
    BY <1>1, <1>3, <1>8 DEF SlotsInv
  <2>3. padUser'.plugged \subseteq ServedBy(slots') \cup buffered' \cup missedPads'.pads
    BY <1>1, <1>2, <1>3, <1>4, <1>8 DEF SlotsInv
  <2>4. stream' = "starting" => \A s \in LinkSlots : slots'[s].pad = NoPad
    BY <1>1, <1>2, <1>5, <1>7 DEF SlotsInv
  <2>5. ASSUME stream' = "connected", NEW s \in LinkSlots
        PROVE  KnownAs(s, slots[s].pad # NoPad, slots[s].down)'
    <3>1. KnownAs(s, slots[s].pad # NoPad, slots[s].down)
      BY <1>1, <1>2, <2>5 DEF SlotsInv
    <3>2. CASE s \in SlotOf(p)
      BY <1>7, <3>2 DEF KnownAs
    <3>3. CASE s \notin SlotOf(p)
      BY <1>4, <1>7, <3>1, <3>3 DEF KnownAs
    <3> QED BY <3>2, <3>3
  <2> QED BY <2>1, <2>2, <2>3, <2>4, <2>5 DEF SlotsInv
<1>10. VirtualInv'
  BY <1>1, <1>2, <1>4, <1>7, VirtualKept
<1> QED BY <1>1, <1>2, <1>3, <1>4, <1>6, <1>9, <1>10 DEF ControllerInv, ControllerTypes

LEMMA HoldButtonStep ==
  ASSUME PadsAssumption, Cardinality(Pads) <= VirtualId, ControllerInv, NEW p \in Pads, HoldButton(p)
  PROVE  ControllerInv'
<1>1. ControllerTypes /\ SlotsInv /\ VirtualInv
  BY DEF ControllerInv
<1>2. /\ UNCHANGED <<stream, buffered, slots, virtual, known, missedPads>>
      /\ padUser' \in PadUserType /\ padUser'.plugged = padUser.plugged
  BY <1>1 DEF HoldButton, ControllerTypes, PadUserType
<1>3. SlotsInv'
  BY <1>1, <1>2 DEF SlotsInv, SlotsApart, ServedBy, KnownAs
<1> QED BY <1>1, <1>2, <1>3, VirtualKept DEF ControllerInv, ControllerTypes

LEMMA GamepadStep ==
  ASSUME PadsAssumption, Cardinality(Pads) <= VirtualId, ControllerInv, NEW s \in LinkSlots, GamepadUpdate(s)
  PROVE  ControllerInv'
<1>1. ControllerTypes /\ SlotsInv /\ VirtualInv
  BY DEF ControllerInv
<1>. DEFINE press == slots[s].pad \in padUser.holding
<1>2. /\ slots[s].pad # NoPad /\ UNCHANGED <<stream, padUser, buffered, virtual>>
      /\ slots' = [slots EXCEPT ![s].down = press]
  BY DEF GamepadUpdate
<1>3. press \in BOOLEAN /\ slots[s] \in SlotType
  BY <1>1 DEF ControllerTypes
<1>4. PICK congested \in BOOLEAN :
              IF congested
              THEN /\ UNCHANGED known
                   /\ missedPads' = [missedPads EXCEPT !.states = missedPads.states \cup {s}]
              ELSE /\ known' = [known EXCEPT ![s] = State(press)]
                   /\ missedPads' = [missedPads EXCEPT !.states = missedPads.states \ {s}]
  BY DEF GamepadUpdate
<1> HIDE DEF press
<1>5. /\ known' \in [Ids -> KnownStates] /\ missedPads' \in MissedType
      /\ missedPads'.pads = missedPads.pads
      /\ \A id \in Ids : id # s => /\ known'[id] = known[id]
                                   /\ id \in missedPads.states => id \in missedPads'.states
      /\ \/ known'[s] = known[s] /\ s \in missedPads'.states
         \/ known'[s] = State(press)
  <2>1. s \in Ids /\ State(press) \in KnownStates /\ missedPads.states \subseteq Ids
        /\ known \in [Ids -> KnownStates] /\ missedPads \in MissedType
    BY <1>1, <1>3, ControllerFields DEF ControllerTypes
  <2>2. CASE congested
    BY <1>4, <2>1, <2>2 DEF MissedType
  <2>3. CASE ~congested
    BY <1>4, <2>1, <2>3 DEF MissedType
  <2> QED BY <2>2, <2>3
<1>6. /\ slots' \in [LinkSlots -> SlotType]
      /\ \A t \in LinkSlots : slots'[t].pad = slots[t].pad
      /\ \A t \in LinkSlots : t # s => slots'[t] = slots[t]
      /\ slots'[s].down = press
  <2>1. [slots[s] EXCEPT !.down = press] \in SlotType
    BY <1>3, Zenon DEF SlotType
  <2>2. slots' \in [LinkSlots -> SlotType] /\ slots'[s] = [slots[s] EXCEPT !.down = press]
        /\ \A t \in LinkSlots : t # s => slots'[t] = slots[t]
    BY <1>1, <1>2, <2>1 DEF ControllerTypes
  <2>3. slots'[s].pad = slots[s].pad /\ slots'[s].down = press
    BY <1>3, <2>2 DEF SlotType
  <2> QED BY <2>2, <2>3
<1>7. ServedBy(slots') = ServedBy(slots)
  BY <1>6 DEF ServedBy
<1>8. SlotsInv'
  <2>1. SlotsApart(slots')
    BY <1>1, <1>6 DEF SlotsApart, SlotsInv
  <2>2. ASSUME stream' = "connected", NEW t \in LinkSlots
        PROVE  KnownAs(t, slots[t].pad # NoPad, slots[t].down)'
    <3>1. KnownAs(t, slots[t].pad # NoPad, slots[t].down)
      BY <1>1, <1>2, <2>2 DEF SlotsInv
    <3>2. CASE t = s
      <4>1. known[s] # "absent"
        BY <1>1, <1>2, <1>3, <3>1, <3>2, ControllerFields DEF KnownAs, SlotType
      <4> QED BY <1>2, <1>5, <1>6, <3>2, <4>1 DEF KnownAs
    <3>3. CASE t # s
      <4>1. t \in Ids
        BY DEF Ids
      <4> QED BY <1>5, <1>6, <3>1, <3>3, <4>1 DEF KnownAs
    <3> QED BY <3>2, <3>3
  <2> QED BY <1>1, <1>2, <1>5, <1>6, <1>7, <2>1, <2>2 DEF SlotsInv
<1>9. VirtualInv'
  BY <1>1, <1>2, <1>5, VirtualKept, ControllerFields
<1> QED BY <1>1, <1>2, <1>5, <1>6, <1>8, <1>9 DEF ControllerInv, ControllerTypes

LEMMA NothingKnownType ==
  ASSUME PadsAssumption
  PROVE  NothingKnown \in [Ids -> KnownStates] /\ Arrived(NothingKnown) \in [Ids -> KnownStates]
BY DEF NothingKnown, Arrived, KnownStates

LEMMA LinkStartsStep ==
  ASSUME PadsAssumption, Cardinality(Pads) <= VirtualId, ControllerInv, LinkStarts
  PROVE  ControllerInv'
<1>1. ControllerTypes /\ SlotsInv /\ VirtualInv /\ virtual \in VirtualType
  BY DEF ControllerInv, ControllerTypes
<1>. DEFINE P == (buffered \cap padUser.plugged) \ Served
<1>2. /\ stream = "starting" /\ stream' = "connected" /\ virtual' = WithVirtual(virtual)
      /\ buffered' = {} /\ UNCHANGED <<padUser, missedPads>>
  BY DEF LinkStarts
<1>3. PICK a \in Announced(slots, NothingKnown, P) :
        /\ slots' = a.slots
        /\ known' = IF virtual'.connected THEN Arrived(a.known) ELSE a.known
  BY DEF LinkStarts
<1>4. /\ P \subseteq Pads /\ P \cap ServedBy(slots) = {} /\ P \subseteq padUser.plugged
      /\ padUser.plugged \subseteq ServedBy(slots) \cup P \cup missedPads.pads
  BY <1>1 DEF ControllerTypes, SlotsInv, Served, ServedBy
<1> HIDE DEF P
<1>5. \A s \in LinkSlots : slots[s].pad = NoPad
  BY <1>1, <1>2 DEF SlotsInv
<1>6. FirstsFree(slots, P)
  BY <1>4, <1>5, AllSlotsFree
<1>7. /\ slots \in [LinkSlots -> SlotType] /\ SlotsApart(slots)
      /\ NothingKnown \in [Ids -> KnownStates]
      /\ VirtualId \in Ids /\ VirtualId \notin LinkSlots /\ LinkSlots \subseteq Ids
  BY <1>1, NothingKnownType, ControllerFields DEF ControllerTypes, SlotsInv
<1>8. /\ a.slots \in [LinkSlots -> SlotType] /\ a.known \in [Ids -> KnownStates]
      /\ SlotsApart(a.slots) /\ ServedBy(a.slots) = ServedBy(slots) \cup P
      /\ a.known[VirtualId] = NothingKnown[VirtualId]
      /\ \A s \in LinkSlots :
           \/ a.slots[s] = slots[s] /\ a.known[s] = NothingKnown[s]
           \/ /\ slots[s].pad = NoPad /\ a.slots[s].pad # NoPad
              /\ ~a.slots[s].down /\ a.known[s] = "up"
  BY <1>4, <1>6, <1>7, AnnouncedKeeps
<1>9. \A id \in Ids : NothingKnown[id] = "absent"
  BY DEF NothingKnown
<1>10. /\ known' \in [Ids -> KnownStates]
       /\ \A s \in LinkSlots : known'[s] = a.known[s]
       /\ known'[VirtualId] = IF virtual'.connected THEN "up" ELSE "absent"
  <2>1. CASE virtual'.connected
    BY <1>3, <1>7, <1>8, <2>1 DEF Arrived, KnownStates
  <2>2. CASE ~virtual'.connected
    BY <1>3, <1>7, <1>8, <1>9, <2>2
  <2> QED BY <2>1, <2>2
<1>11. /\ virtual' \in VirtualType /\ ~virtual'.down
       /\ virtual'.enabled => virtual'.connected
  <2>1. ~virtual.connected /\ ~virtual.down
    BY <1>1, <1>2 DEF VirtualInv, PadConnected
  <2> QED BY <1>1, <1>2, <2>1, VirtualFields
<1>12. SlotsInv'
  <2>1. ASSUME NEW s \in LinkSlots PROVE KnownAs(s, slots[s].pad # NoPad, slots[s].down)'
    BY <1>3, <1>5, <1>7, <1>8, <1>9, <1>10 DEF KnownAs, State
  <2>2. SlotsApart(slots') /\ ServedBy(slots') \subseteq padUser'.plugged
    BY <1>1, <1>2, <1>3, <1>4, <1>8 DEF SlotsInv
  <2>3. padUser'.plugged \subseteq ServedBy(slots') \cup buffered' \cup missedPads'.pads
    BY <1>2, <1>3, <1>4, <1>8
  <2> QED BY <1>2, <2>1, <2>2, <2>3 DEF SlotsInv
<1>13. VirtualInv'
  BY <1>2, <1>10, <1>11 DEF VirtualInv, KnownAs, PadConnected, State
<1> QED BY <1>1, <1>2, <1>3, <1>8, <1>10, <1>11, <1>12, <1>13 DEF ControllerInv, ControllerTypes

LEMMA LinkStep ==
  ASSUME PadsAssumption, Cardinality(Pads) <= VirtualId, ControllerInv,
         StreamRestarts \/ LinkStops \/ LinkReplaced
  PROVE  ControllerInv'
<1>1. ControllerTypes /\ SlotsInv /\ VirtualInv /\ virtual \in VirtualType
  BY DEF ControllerInv, ControllerTypes
<1>2. /\ padUser' = padUser /\ padUser.plugged \subseteq Pads
      /\ Served = ServedBy(slots) /\ ServedBy(slots) \subseteq padUser.plugged
      /\ missedPads \in MissedType /\ missedPads.pads \subseteq Pads
  BY <1>1, ControllerFields DEF StreamRestarts, LinkStops, LinkReplaced, Served, ServedBy, SlotsInv, ControllerTypes
<1>3. known' \in [Ids -> KnownStates]
  BY NothingKnownType DEF StreamRestarts, LinkStops, LinkReplaced
<1>4. CASE StreamRestarts
  <2>1. /\ stream' = "restarted" /\ virtual' = WithVirtual(virtual) /\ UNCHANGED <<buffered, slots>>
        /\ PadConnected /\ missedPads' = [states |-> {}, pads |-> missedPads.pads \cup Served]
    BY <1>4 DEF StreamRestarts
  <2>2. /\ missedPads' \in MissedType /\ missedPads.pads \subseteq missedPads'.pads
    BY <1>2, <2>1 DEF MissedType
  <2>3. virtual' = virtual
    BY <1>1, <2>1, VirtualFields DEF VirtualInv
  <2>4. SlotsInv'
    BY <1>1, <1>2, <2>1, <2>2 DEF SlotsInv, SlotsApart, ServedBy
  <2>5. VirtualInv'
    BY <1>1, <2>1, <2>3 DEF VirtualInv, PadConnected
  <2> QED BY <1>1, <1>2, <1>3, <2>1, <2>2, <2>3, <2>4, <2>5 DEF ControllerInv, ControllerTypes
<1>5. CASE LinkStops
  <2>1. /\ stream' = "stopped" /\ virtual' = WithoutVirtual(virtual) /\ UNCHANGED <<buffered, slots>>
        /\ missedPads' = [missedPads EXCEPT !.states = {}]
    BY <1>5 DEF LinkStops
  <2>2. /\ missedPads' \in MissedType /\ missedPads.pads = missedPads'.pads
    BY <1>2, <2>1 DEF MissedType
  <2>3. virtual' \in VirtualType /\ ~virtual'.connected /\ ~virtual'.down
    BY <1>1, <2>1, VirtualFields
  <2>4. SlotsInv'
    BY <1>1, <1>2, <2>1, <2>2 DEF SlotsInv, SlotsApart, ServedBy
  <2>5. VirtualInv'
    BY <2>1, <2>3 DEF VirtualInv, PadConnected
  <2> QED BY <1>1, <1>2, <1>3, <2>1, <2>2, <2>3, <2>4, <2>5 DEF ControllerInv, ControllerTypes
<1>6. CASE LinkReplaced
  <2>1. /\ stream' = "starting" /\ virtual' = NoVirtual /\ buffered' = {}
        /\ slots' = [s \in LinkSlots |-> EmptySlot]
        /\ missedPads' = [states |-> {}, pads |-> padUser.plugged]
    BY <1>6 DEF LinkReplaced
  <2>2. /\ missedPads' \in MissedType /\ missedPads'.pads = padUser.plugged
        /\ virtual' \in VirtualType /\ ~virtual'.connected /\ ~virtual'.down
        /\ slots' \in [LinkSlots -> SlotType] /\ \A s \in LinkSlots : slots'[s].pad = NoPad
    BY <1>2, <2>1 DEF MissedType, VirtualType, NoVirtual, EmptySlot, SlotType
  <2>3. SlotsInv'
    BY <1>2, <2>1, <2>2 DEF SlotsInv, SlotsApart, ServedBy
  <2>4. VirtualInv'
    BY <2>1, <2>2 DEF VirtualInv, PadConnected
  <2> QED BY <1>1, <1>2, <1>3, <2>1, <2>2, <2>3, <2>4 DEF ControllerInv, ControllerTypes
<1> QED BY <1>4, <1>5, <1>6

LEMMA ControllerInitially == PadsAssumption /\ ControllerInit => ControllerInv
<1> SUFFICES ASSUME PadsAssumption, ControllerInit PROVE ControllerInv
  OBVIOUS
<1>1. /\ stream = "starting" /\ buffered = {} /\ virtual = NoVirtual
      /\ padUser \in PadUserType /\ padUser.plugged = {} /\ missedPads \in MissedType
      /\ virtual \in VirtualType /\ ~virtual.connected /\ ~virtual.down
      /\ slots \in [LinkSlots -> SlotType] /\ \A s \in LinkSlots : slots[s].pad = NoPad
  BY DEF ControllerInit, PadUserType, MissedType, VirtualType, NoVirtual, EmptySlot, SlotType
<1>2. known \in [Ids -> KnownStates]
  BY NothingKnownType DEF ControllerInit
<1>3. SlotsInv
  BY <1>1 DEF SlotsInv, SlotsApart, ServedBy
<1>4. VirtualInv
  BY <1>1 DEF VirtualInv, PadConnected
<1> QED BY <1>1, <1>2, <1>3, <1>4 DEF ControllerInv, ControllerTypes

LEMMA ControllerStep ==
  ASSUME PadsAssumption, Cardinality(Pads) <= VirtualId, ControllerInv, [ControllerNext]_controllerVars
  PROVE  ControllerInv'
<1>1. CASE UNCHANGED controllerVars
  <2>1. UNCHANGED <<stream, padUser, buffered, slots, virtual, known, missedPads>>
    BY <1>1 DEF controllerVars
  <2>2. SlotsInv' /\ VirtualInv'
    BY <2>1, SlotsKept, VirtualKept DEF ControllerInv, SlotsSame
  <2> QED BY <2>1, <2>2 DEF ControllerInv, ControllerTypes
<1> QED BY <1>1, VirtualButtonStep, VirtualEnableStep, PlugStep, UnplugStep, HoldButtonStep, GamepadStep,
           LinkStartsStep, LinkStep DEF ControllerNext

\* The host knows the state the page last saw of every controller, but for packets
\* that were not sent, and every plugged controller has a slot, as long as none is
\* given the number of the virtual one.
THEOREM ControllersKept ==
  ASSUME Cardinality(Pads) <= VirtualId PROVE ControllerSpec => []ControllersInStep
<1>1. ControllerInit => ControllerInv
  BY ControllerInitially, PadsAssumption
<1>2. ControllerInv /\ [ControllerNext]_controllerVars => ControllerInv'
  BY ControllerStep, PadsAssumption
<1> QED BY <1>1, <1>2, ControllerShows, PTL DEF ControllerSpec

Slot == Entries \cup {Empty}
Tables == [SlotIds -> Slot]
OneFavorite(t) == \A s, r \in Favorites(t) : s = r

\* LockedKept for a table that is written over the one there is.
Keeps(t) ==
  \A s \in SlotIds : templates[s].there /\ templates[s].locked =>
    \E r \in {s - 1, s, s + 1} \cap SlotIds :
      /\ t[r].there
      /\ t[r].layout = templates[s].layout
      /\ t[r].locked \/ r = s

TemplatesInv == TemplatesTypeOK /\ OneFavorite(templates)

-----------------------------------------------------------------------------
(* What a slot may hold. *)

LEMMA EmptyIsSlot == Empty \in Slot /\ Empty.there = FALSE
  BY DEF Slot, Empty

LEMMA SlotFields ==
  ASSUME NEW e \in Slot
  PROVE  /\ e.there \in BOOLEAN
         /\ e.there => /\ e \in Entries
                       /\ e.layout \in Layouts /\ e.locked \in BOOLEAN
                       /\ e.favorite \in BOOLEAN
  <1>1. CASE e \in Entries
    BY <1>1 DEF Entries
  <1>2. CASE e = Empty
    BY <1>2, EmptyIsSlot
  <1>3. QED
    BY <1>1, <1>2 DEF Slot

LEMMA EntryFields ==
  ASSUME NEW design \in Layouts, NEW locked \in BOOLEAN, NEW favorite \in BOOLEAN
  PROVE  /\ Entry(design, locked, favorite) \in Slot
         /\ Entry(design, locked, favorite).there
         /\ Entry(design, locked, favorite).layout = design
         /\ Entry(design, locked, favorite).locked = locked
         /\ Entry(design, locked, favorite).favorite = favorite
  <1>1. Entry(design, locked, favorite) \in Entries
    BY Zenon DEF Entry, Entries
  <1>2. QED
    BY <1>1 DEF Entry, Slot

LEMMA MarkChanges ==
  ASSUME NEW e \in Slot, e.there, NEW flag \in BOOLEAN
  PROVE  /\ [e EXCEPT !.favorite = flag] \in Slot
         /\ [e EXCEPT !.favorite = flag].there
         /\ [e EXCEPT !.favorite = flag].layout = e.layout
         /\ [e EXCEPT !.favorite = flag].locked = e.locked
         /\ [e EXCEPT !.favorite = flag].favorite = flag
  <1>1. e \in Entries
    BY SlotFields
  <1>2. QED
    BY <1>1 DEF Entries, Slot

LEMMA LockChanges ==
  ASSUME NEW e \in Slot, e.there, NEW flag \in BOOLEAN
  PROVE  /\ [e EXCEPT !.locked = flag] \in Slot
         /\ [e EXCEPT !.locked = flag].there
         /\ [e EXCEPT !.locked = flag].layout = e.layout
         /\ [e EXCEPT !.locked = flag].favorite = e.favorite
         /\ [e EXCEPT !.locked = flag].locked = flag
  <1>1. e \in Entries
    BY SlotFields
  <1>2. QED
    BY <1>1 DEF Entries, Slot

-----------------------------------------------------------------------------
(* normalizeUserTemplateStore *)

LEMMA NormalizedTable ==
  ASSUME NEW t \in Tables
  PROVE  Normalized(t) \in Tables /\ OneFavorite(Normalized(t))
  <1> DEFINE n == Normalized(t)
  <1>1. \A s \in SlotIds : t[s] \in Slot
    BY DEF Tables
  <1>2. ASSUME NEW s \in SlotIds PROVE n[s] \in Slot
    BY <1>1, <1>2, MarkChanges DEF Normalized
  <1>3. n \in Tables
    BY <1>2 DEF Normalized, Tables
  <1>4. ASSUME NEW s \in Favorites(n)
        PROVE  /\ s \in Favorites(t)
               /\ \A r \in 1 .. s - 1 : r \notin Favorites(t)
    <2>1. s \in SlotIds /\ n[s].there /\ n[s].favorite
      BY <1>4 DEF Favorites
    <2>2. CASE t[s].there /\ t[s].favorite
               /\ \E r \in 1 .. s - 1 : t[r].there /\ t[r].favorite
      <3>1. n[s] = [t[s] EXCEPT !.favorite = FALSE]
        BY <2>1, <2>2 DEF Normalized
      <3>2. n[s].favorite = FALSE
        BY <3>1, <2>1, <2>2, <1>1, MarkChanges
      <3>3. QED
        BY <3>2, <2>1
    <2>3. CASE ~(t[s].there /\ t[s].favorite
                 /\ \E r \in 1 .. s - 1 : t[r].there /\ t[r].favorite)
      <3>1. n[s] = t[s]
        BY <2>1, <2>3 DEF Normalized
      <3>2. QED
        BY <3>1, <2>1, <2>3 DEF Favorites
    <2>4. QED
      BY <2>2, <2>3
  <1>5. Favorites(t) \subseteq 1 .. LastSlot
    BY DEF Favorites, SlotIds
  <1>6. ASSUME NEW s \in Favorites(n), NEW r \in Favorites(n) PROVE s = r
    BY <1>4, <1>5, <1>6, TemplatesAssumption, s \in Favorites(t), r \in Favorites(t)
  <1>7. QED
    BY <1>3, <1>6 DEF OneFavorite

\* A storage with one mark is read as it is.
LEMMA StoreIsThere ==
  ASSUME TemplatesInv
  PROVE  Store = templates
  <1>1. templates \in Tables
    BY DEF TemplatesInv, TemplatesTypeOK, Tables, Slot
  <1>2. ASSUME NEW s \in SlotIds, NEW r \in 1 .. s - 1,
               templates[s].there, templates[s].favorite,
               templates[r].there, templates[r].favorite
        PROVE  FALSE
    <2>1. r \in SlotIds /\ r # s /\ s \in Nat
      BY TemplatesAssumption DEF SlotIds
    <2>2. s \in Favorites(templates) /\ r \in Favorites(templates)
      BY <1>2, <2>1 DEF Favorites
    <2>3. QED
      BY <2>1, <2>2 DEF TemplatesInv, OneFavorite
  <1>3. Normalized(templates) = [s \in SlotIds |-> templates[s]]
    BY <1>2 DEF Normalized
  <1>4. QED
    BY <1>1, <1>3 DEF Store, Tables

-----------------------------------------------------------------------------
(* One operation: what it may write is a table, keeps what is locked and   *)
(* has one favorite.                                                       *)

Good(t) == t \in Tables /\ OneFavorite(t) /\ Keeps(t)

LEMMA SameIsGood ==
  ASSUME TemplatesInv
  PROVE  Good(templates)
  <1>1. templates \in Tables
    BY DEF TemplatesInv, TemplatesTypeOK, Tables, Slot
  <1>2. Keeps(templates)
    BY DEF Keeps
  <1>3. QED
    BY <1>1, <1>2 DEF Good, TemplatesInv

\* A slot that is not locked gets another entry, whose mark it had before,
\* or becomes empty.
LEMMA OverwriteIsGood ==
  ASSUME TemplatesInv, NEW s \in SlotIds, ~(templates[s].there /\ templates[s].locked),
         NEW e \in Slot,
         e.there /\ e.favorite => templates[s].there /\ templates[s].favorite
  PROVE  Good([templates EXCEPT ![s] = e])
  <1> DEFINE t == [templates EXCEPT ![s] = e]
  <1>1. templates \in Tables
    BY DEF TemplatesInv, TemplatesTypeOK, Tables, Slot
  <1>2. t \in Tables
    BY <1>1 DEF Tables
  <1>3. t[s] = e /\ \A r \in SlotIds : r # s => t[r] = templates[r]
    BY <1>1 DEF Tables
  <1>4. Favorites(t) \subseteq Favorites(templates)
    BY <1>3 DEF Favorites
  <1>5. Keeps(t)
    BY <1>3 DEF Keeps
  <1>6. QED
    BY <1>2, <1>4, <1>5 DEF Good, OneFavorite, TemplatesInv

LEMMA LockIsGood ==
  ASSUME TemplatesInv, NEW s \in SlotIds, templates[s].there, NEW locked \in BOOLEAN
  PROVE  Good([templates EXCEPT ![s].locked = locked])
  <1> DEFINE e == [templates[s] EXCEPT !.locked = locked]
             t == [templates EXCEPT ![s] = e]
  <1>1. templates \in Tables /\ templates[s] \in Slot
    BY DEF TemplatesInv, TemplatesTypeOK, Tables, Slot
  <1>2. /\ e \in Slot /\ e.there /\ e.layout = templates[s].layout
        /\ e.favorite = templates[s].favorite
    BY <1>1, LockChanges
  <1> HIDE DEF e
  <1>3. t \in Tables
    BY <1>1, <1>2 DEF Tables
  <1>4. t[s] = e /\ \A r \in SlotIds : r # s => t[r] = templates[r]
    BY <1>1 DEF Tables
  <1>5. Favorites(t) \subseteq Favorites(templates)
    BY <1>2, <1>4 DEF Favorites
  <1>6. Keeps(t)
    BY <1>2, <1>4 DEF Keeps
  <1>7. Good(t)
    BY <1>3, <1>5, <1>6 DEF Good, OneFavorite, TemplatesInv
  <1>8. [templates EXCEPT ![s].locked = locked] = t
    BY <1>1 DEF Tables, t, e
  <1>9. QED
    BY <1>7, <1>8

\* The one table in which SetFavorite leaves the slots.
Marked(s, favorite) ==
  [r \in SlotIds |->
     IF r = s THEN [templates[r] EXCEPT !.favorite = favorite]
     ELSE IF favorite /\ templates[r].there
          THEN [templates[r] EXCEPT !.favorite = FALSE]
          ELSE templates[r]]

LEMMA MarkIsGood ==
  ASSUME TemplatesInv, NEW s \in SlotIds, templates[s].there, NEW favorite \in BOOLEAN
  PROVE  Good(Marked(s, favorite))
  <1> DEFINE t == Marked(s, favorite)
  <1>1. \A r \in SlotIds : templates[r] \in Slot
    BY DEF TemplatesInv, TemplatesTypeOK, Tables, Slot
  <1>2. ASSUME NEW r \in SlotIds
        PROVE  /\ t[r] \in Slot
               /\ t[r].there = templates[r].there
               /\ t[r].there => /\ t[r].layout = templates[r].layout
                                /\ t[r].locked = templates[r].locked
               /\ t[r].there /\ t[r].favorite =>
                    IF r = s THEN favorite
                    ELSE ~favorite /\ templates[r].favorite
    <2>0. templates[r] \in Slot /\ templates[r].there \in BOOLEAN
      BY <1>1, SlotFields
    <2> DEFINE e == templates[r]
               Marks(mark) == [e EXCEPT !.favorite = mark]
    <2> HIDE DEF e
    <2>m. ASSUME e.there, NEW mark \in BOOLEAN
          PROVE  /\ Marks(mark) \in Slot /\ Marks(mark).there
                 /\ Marks(mark).layout = e.layout /\ Marks(mark).locked = e.locked
                 /\ Marks(mark).favorite = mark
      BY <2>0, <2>m, MarkChanges DEF e
    <2> HIDE DEF Marks
    <2>1. CASE r = s
      <3>1. t[r] = Marks(favorite)
        BY <2>1 DEF Marked, Marks, e
      <3>2. e.there
        BY <2>1 DEF e
      <3>3. QED
        BY <3>1, <3>2, <2>m, <2>1 DEF e
    <2>2. CASE r # s /\ favorite /\ templates[r].there
      <3>1. t[r] = Marks(FALSE)
        BY <2>2 DEF Marked, Marks, e
      <3>2. e.there
        BY <2>2 DEF e
      <3>3. QED
        BY <3>1, <3>2, <2>m, <2>2 DEF e
    <2>3. CASE r # s /\ ~(favorite /\ templates[r].there)
      <3>1. t[r] = templates[r]
        BY <2>3 DEF Marked
      <3>2. QED
        BY <3>1, <2>0, <2>3
    <2>4. QED
      BY <2>1, <2>2, <2>3
  <1>3. t \in Tables
    BY <1>2 DEF Marked, Tables
  <1>4. ASSUME NEW p \in Favorites(t), NEW q \in Favorites(t) PROVE p = q
    <2>1. /\ p \in SlotIds /\ t[p].there /\ t[p].favorite
          /\ q \in SlotIds /\ t[q].there /\ t[q].favorite
      BY <1>4 DEF Favorites
    <2>2. CASE favorite
      BY <2>1, <2>2, <1>2
    <2>3. CASE ~favorite
      <3>1. p \in Favorites(templates) /\ q \in Favorites(templates)
        BY <2>1, <2>3, <1>2 DEF Favorites
      <3>2. QED
        BY <3>1 DEF TemplatesInv, OneFavorite
    <2>4. QED
      BY <2>2, <2>3
  <1>5. Keeps(t)
    BY <1>2 DEF Keeps
  <1>6. QED
    BY <1>3, <1>4, <1>5 DEF Good, OneFavorite

LEMMA MoveIsGood ==
  ASSUME TemplatesInv, NEW s \in SlotIds, NEW r \in SlotIds, r = s - 1 \/ r = s + 1
  PROVE  Good([templates EXCEPT ![s] = templates[r], ![r] = templates[s]])
  <1> DEFINE t == [templates EXCEPT ![s] = templates[r], ![r] = templates[s]]
  <1>1. templates \in Tables
    BY DEF TemplatesInv, TemplatesTypeOK, Tables, Slot
  <1>2. t \in Tables
    BY <1>1 DEF Tables
  <1>3. r # s /\ s \in Nat /\ r \in Nat
    BY TemplatesAssumption DEF SlotIds
  <1>4. /\ t[s] = templates[r] /\ t[r] = templates[s]
        /\ \A q \in SlotIds : q # s /\ q # r => t[q] = templates[q]
    BY <1>1, <1>3 DEF Tables
  <1> DEFINE Was(q) == IF q = s THEN r ELSE IF q = r THEN s ELSE q
  <1> HIDE DEF t
  <1>5. ASSUME NEW q \in SlotIds PROVE Was(q) \in SlotIds /\ t[q] = templates[Was(q)]
    <2>1. CASE q = s
      BY <2>1, <1>4
    <2>2. CASE q # s /\ q = r
      BY <2>2, <1>4
    <2>3. CASE q # s /\ q # r
      BY <2>3, <1>4
    <2>4. QED
      BY <2>1, <2>2, <2>3
  <1>6. \A q \in SlotIds : Was(Was(q)) = q
    OBVIOUS
  <1>7. ASSUME NEW p \in Favorites(t), NEW q \in Favorites(t) PROVE p = q
    <2>1. p \in SlotIds /\ q \in SlotIds
      BY <1>7 DEF Favorites
    <2>2. Was(p) \in Favorites(templates) /\ Was(q) \in Favorites(templates)
      BY <1>5, <1>7, <2>1 DEF Favorites
    <2>3. Was(p) = Was(q)
      BY <2>2 DEF TemplatesInv, OneFavorite
    <2>4. QED
      BY <2>3
  <1>8. ASSUME NEW q \in SlotIds, templates[q].there, templates[q].locked
        PROVE  \E p \in {q - 1, q, q + 1} \cap SlotIds :
                 /\ t[p].there /\ t[p].layout = templates[q].layout
                 /\ t[p].locked \/ p = q
    <2>1. t[Was(q)] = templates[q] /\ Was(q) \in SlotIds
      BY <1>4, <1>8
    <2>2. Was(q) \in {q - 1, q, q + 1}
      BY <1>3
    <2>3. QED
      BY <1>8, <2>1, <2>2
  <1>9. QED
    BY <1>2, <1>7, <1>8 DEF Good, OneFavorite, Keeps, t

\* An imported library comes only where nothing is locked.
LEMMA ImportIsGood ==
  ASSUME TemplatesInv, NEW t \in Tables,
         \A s \in SlotIds : ~(templates[s].there /\ templates[s].locked)
  PROVE  Good(Normalized(t))
  <1>1. Keeps(Normalized(t))
    BY DEF Keeps
  <1>2. QED
    BY <1>1, NormalizedTable DEF Good

-----------------------------------------------------------------------------
LEMMA StepIsGood ==
  ASSUME TemplatesInv, [TemplatesNext]_templateVars
  PROVE  Good(templates') /\ TemplatesTypeOK'
  <1> USE StoreIsThere
  <1>0. /\ templates \in Tables /\ \A s \in SlotIds : templates[s] \in Slot
        /\ working \in [layout : Layouts, from : 0 .. LastSlot]
        /\ preset \in [layout : Layouts \cup {NoLayout}, mode : Modes]
        /\ general \in Layouts
    BY DEF TemplatesInv, TemplatesTypeOK, Tables, Slot
  <1>a. working.layout \in Layouts /\ preset.layout \in Layouts \cup {NoLayout}
        /\ working.from \in 0 .. LastSlot
    BY <1>0
  <1>b. \A s \in SlotIds : MarkOf(s) \in BOOLEAN
    BY <1>0, SlotFields DEF MarkOf
  <1>t. ASSUME Good(templates'), UNCHANGED <<preset, working, general>>
        PROVE  Good(templates') /\ TemplatesTypeOK'
    BY <1>0, <1>t DEF Good, TemplatesTypeOK, Tables, Slot
  <1>1. ASSUME NEW s \in SlotIds, SaveTemplate(s)
        PROVE  Good(templates') /\ TemplatesTypeOK'
    <2> DEFINE e == Entry(working.layout, FALSE, MarkOf(s))
    <2>1. e \in Slot /\ (e.favorite <=> MarkOf(s))
      BY <1>a, <1>b, EntryFields
    <2> HIDE DEF e
    <2>2. Good([templates EXCEPT ![s] = e])
      BY <1>1, <2>1, OverwriteIsGood DEF SaveTemplate, LockedAt, MarkOf
    <2>3. Good(templates')
      BY <1>1, <2>2, SameIsGood DEF SaveTemplate, Persist, e
    <2>4. QED
      BY <1>1, <2>3, <1>t DEF SaveTemplate
  <1>2. ASSUME NEW s \in SlotIds, NEW design \in Layouts, ImportTemplate(s, design)
        PROVE  Good(templates') /\ TemplatesTypeOK'
    <2> DEFINE e == Entry(design, FALSE, MarkOf(s))
    <2>1. e \in Slot /\ (e.favorite <=> MarkOf(s))
      BY <1>b, EntryFields
    <2> HIDE DEF e
    <2>2. Good([templates EXCEPT ![s] = e])
      BY <1>2, <2>1, OverwriteIsGood DEF ImportTemplate, LockedAt, MarkOf
    <2>3. Good(templates')
      BY <1>2, <2>2, SameIsGood DEF ImportTemplate, Persist, e
    <2>4. QED
      BY <1>2, <2>3, <1>t DEF ImportTemplate
  <1>3. ASSUME NEW t \in [SlotIds -> {Empty} \cup Entries], ImportStore(t)
        PROVE  Good(templates') /\ TemplatesTypeOK'
    <2>1. t \in Tables
      BY DEF Tables, Slot
    <2>2. Good(Normalized(t))
      BY <1>3, <2>1, ImportIsGood DEF ImportStore, LockedAt
    <2>3. Good(templates')
      BY <1>3, <2>2, SameIsGood DEF ImportStore, Persist
    <2>4. QED
      BY <1>3, <2>3, <1>t DEF ImportStore
  <1>4. ASSUME NEW s \in SlotIds, NEW flag \in BOOLEAN, SetLocked(s, flag)
        PROVE  Good(templates') /\ TemplatesTypeOK'
    <2>1. Good(templates')
      BY <1>4, LockIsGood, SameIsGood DEF SetLocked, Persist
    <2>2. QED
      BY <1>4, <2>1, <1>t DEF SetLocked
  <1>5. ASSUME NEW s \in SlotIds, NEW flag \in BOOLEAN, SetFavorite(s, flag)
        PROVE  Good(templates') /\ TemplatesTypeOK'
    <2>1. templates' = Marked(s, flag) \/ templates' = templates
      BY <1>5 DEF SetFavorite, Persist, Marked
    <2>2. Good(templates')
      BY <1>5, <2>1, MarkIsGood, SameIsGood DEF SetFavorite
    <2>3. QED
      BY <1>5, <2>2, <1>t DEF SetFavorite
  <1>6. ASSUME NEW s \in SlotIds, NEW r \in SlotIds, MoveTemplate(s, r)
        PROVE  Good(templates') /\ TemplatesTypeOK'
    <2>1. Good(templates')
      BY <1>6, MoveIsGood, SameIsGood DEF MoveTemplate, Persist
    <2>2. QED
      BY <1>6, <2>1, <1>t DEF MoveTemplate
  <1>7. ASSUME NEW s \in SlotIds, NEW r \in SlotIds, DuplicateTemplate(s, r)
        PROVE  Good(templates') /\ TemplatesTypeOK'
    <2> DEFINE e == Entry(templates[s].layout, FALSE, FALSE)
    <2>1. templates[s].there /\ ~templates[r].there
      BY <1>7 DEF DuplicateTemplate
    <2>2. templates[s].layout \in Layouts
      BY <2>1, <1>0, SlotFields
    <2>3. e \in Slot /\ e.favorite = FALSE
      BY <2>2, EntryFields
    <2> HIDE DEF e
    <2>4. Good([templates EXCEPT ![r] = e])
      BY <2>1, <2>3, OverwriteIsGood
    <2>5. Good(templates')
      BY <1>7, <2>4, SameIsGood DEF DuplicateTemplate, Persist, e
    <2>6. QED
      BY <1>7, <2>5, <1>t DEF DuplicateTemplate
  <1>8. ASSUME NEW s \in SlotIds, ClearTemplate(s)
        PROVE  Good(templates') /\ TemplatesTypeOK'
    <2>1. Good([templates EXCEPT ![s] = Empty])
      BY <1>8, OverwriteIsGood, EmptyIsSlot DEF ClearTemplate, LockedAt
    <2>2. Good(templates')
      BY <1>8, <2>1, SameIsGood DEF ClearTemplate, Persist
    <2>3. QED
      BY <1>8, <2>2, <1>t DEF ClearTemplate
  \* The steps that leave the templates alone.
  <1>u. ASSUME UNCHANGED templates, working'.layout \in Layouts,
               working' \in [layout : Layouts, from : 0 .. LastSlot],
               preset' \in [layout : Layouts \cup {NoLayout}, mode : Modes],
               general' \in Layouts
        PROVE  Good(templates') /\ TemplatesTypeOK'
    <2>1. Good(templates')
      BY <1>u, SameIsGood
    <2>2. QED
      BY <1>u, <2>1 DEF Good, TemplatesTypeOK, Tables, Slot
  <1>9. ASSUME NEW s \in SlotIds, LoadTemplate(s)
        PROVE  Good(templates') /\ TemplatesTypeOK'
    <2>1. templates[s].there
      BY <1>9 DEF LoadTemplate
    <2>2. templates[s].layout \in Layouts
      BY <2>1, <1>0, SlotFields
    <2>3. QED
      BY <1>9, <2>2, <1>0, <1>u DEF LoadTemplate
  <1>10. ASSUME NEW design \in Layouts, Edit(design)
         PROVE  Good(templates') /\ TemplatesTypeOK'
    BY <1>10, <1>0, <1>u DEF Edit
  <1>11. CASE SavePreset
    BY <1>11, <1>0, <1>a, <1>u DEF SavePreset
  <1>12. CASE LoadPreset
    BY <1>12, <1>0, <1>a, <1>u DEF LoadPreset
  <1>13. CASE ClearPreset
    BY <1>13, <1>0, <1>a, <1>u DEF ClearPreset
  <1>14. CASE OpenPage
    <2> DEFINE fav == CHOOSE s \in Favorites(Store) : TRUE
    <2>1. Favorites(Store) # {} =>
             fav \in 0 .. LastSlot /\ templates[fav].layout \in Layouts
      <3>1. SUFFICES ASSUME Favorites(Store) # {}
                     PROVE  fav \in 0 .. LastSlot /\ templates[fav].layout \in Layouts
        OBVIOUS
      <3>2. fav \in Favorites(templates)
        BY <3>1
      <3>3. fav \in SlotIds /\ templates[fav].there
        BY <3>2 DEF Favorites
      <3>4. fav \in 0 .. LastSlot
        BY <3>3, TemplatesAssumption DEF SlotIds
      <3>5. QED
        BY <3>3, <3>4, <1>0, SlotFields
    <2> HIDE DEF fav
    <2>2. 0 \in 0 .. LastSlot
      BY TemplatesAssumption
    <2>3. preset.mode \in Modes
      BY <1>0
    <2>4. Applied \in [layout : Layouts, from : 0 .. LastSlot]
      BY <1>0, <1>a, <2>1, <2>2, <2>3 DEF Applied, Modes, fav
    <2>5. QED
      BY <1>14, <1>0, <2>4, <1>u DEF OpenPage
  <1>15. ASSUME NEW mode \in Modes, SetAutoApply(mode)
         PROVE  Good(templates') /\ TemplatesTypeOK'
    BY <1>15, <1>0, <1>a, <1>u DEF SetAutoApply
  <1>16. CASE UNCHANGED templateVars
    BY <1>16, <1>0, <1>a, <1>u DEF templateVars
  <1>17. QED
    BY <1>1, <1>2, <1>3, <1>4, <1>5, <1>6, <1>7, <1>8, <1>9, <1>10, <1>11, <1>12,
       <1>13, <1>14, <1>15, <1>16 DEF TemplatesNext

LEMMA TemplatesInitially == TemplatesInit => TemplatesInv
  <1> SUFFICES ASSUME TemplatesInit PROVE TemplatesInv
    OBVIOUS
  <1>1. templates \in [SlotIds -> Entries \cup {Empty}]
    BY EmptyIsSlot DEF TemplatesInit, Slot
  <1>2. preset \in [layout : Layouts \cup {NoLayout}, mode : Modes]
    BY Zenon DEF TemplatesInit, Modes
  <1>3. 0 \in 0 .. LastSlot
    BY TemplatesAssumption
  <1>4. general \in Layouts /\ working \in [layout : Layouts, from : 0 .. LastSlot]
    BY <1>3, Zenon DEF TemplatesInit
  <1>5. Favorites(templates) = {}
    BY EmptyIsSlot DEF TemplatesInit, Favorites
  <1>6. QED
    BY <1>1, <1>2, <1>4, <1>5 DEF TemplatesInv, TemplatesTypeOK, OneFavorite

LEMMA TemplatesStep ==
  ASSUME TemplatesInv, [TemplatesNext]_templateVars
  PROVE  /\ TemplatesInv'
         /\ [(\A s, r \in Favorites(templates') : s = r) /\ LockedKept]_templateVars
  BY StepIsGood DEF Good, OneFavorite, Keeps, LockedKept, TemplatesInv

LEMMA TemplatesShow == TemplatesInv => TemplatesTypeOK
  BY DEF TemplatesInv

-----------------------------------------------------------------------------
(* One component's steps at a time *)

\* A step of the web client is a step of the component in focus, or leaves that
\* component alone, and the focus stays.
LEMMA FocusStays == ASSUME [SuiteNext]_suiteVars PROVE focus' = focus
BY Zenon DEF SuiteNext, suiteVars, OnlyPointerInput, OnlyMouseQueue, OnlyControllerLink,
   OnlyQuickPadButtons, OnlyQuickPadTemplates, OnlyQuickPadLayouts, OnlyRuntimeResize,
   OnlySidebarHandle, OnlyMicSidecar, OnlyHostList, OnlyViewerPanels, OnlyStartPage,
   OnlyHostBanner, OnlyMediaSourceQueue, OnlyPageModals

LEMMA FocusSteps ==
  ASSUME [SuiteNext]_suiteVars
  PROVE  /\ focus = "pointer" => [PointerNext]_pointerVars
         /\ focus = "mouse" => [QueueNext]_queueVars
         /\ focus = "pads" => [ControllerNext]_controllerVars
         /\ focus = "quickpad" => [PadNext]_padVars
         /\ focus = "templates" => [TemplatesNext]_templateVars
         /\ focus = "layouts" => [LayoutsNext]_layoutVars
         /\ focus = "resize" => [ResizeNext]_resizeVars
         /\ focus = "handle" => [BarNext]_barVars
         /\ focus = "mic" => [MicNext]_micVars
         /\ focus = "hosts" => [ListNext]_listVars
         /\ focus = "panels" => [PanelsNext]_chrome
         /\ focus = "start" => [StartNext]_startVars
         /\ focus = "banner" => [BannerNext]_bannerVars
         /\ focus = "source" => [SourceNext]_sourceVars
         /\ focus = "modals" => [ModalsNext]_modalVars
<1>1. CASE UNCHANGED suiteVars
  BY <1>1 DEF suiteVars
<1>2. CASE SuiteNext
  <2>1. \/ focus = "pointer" /\ PointerNext
        \/ focus = "mouse" /\ QueueNext
        \/ focus = "pads" /\ ControllerNext
        \/ focus = "quickpad" /\ PadNext
        \/ focus = "templates" /\ TemplatesNext
        \/ focus = "layouts" /\ LayoutsNext
        \/ focus = "resize" /\ ResizeNext
        \/ focus = "handle" /\ BarNext
        \/ focus = "mic" /\ MicNext
        \/ focus = "hosts" /\ ListNext
        \/ focus = "panels" /\ PanelsNext
        \/ focus = "start" /\ StartNext
        \/ focus = "banner" /\ BannerNext
        \/ focus = "source" /\ SourceNext
        \/ focus = "modals" /\ ModalsNext
    BY <1>2 DEF SuiteNext, OnlyPointerInput, OnlyMouseQueue, OnlyControllerLink,
       OnlyQuickPadButtons, OnlyQuickPadTemplates, OnlyQuickPadLayouts, OnlyRuntimeResize,
       OnlySidebarHandle, OnlyMicSidecar, OnlyHostList, OnlyViewerPanels, OnlyStartPage,
       OnlyHostBanner, OnlyMediaSourceQueue, OnlyPageModals
  <2> QED BY <2>1
<1> QED BY <1>1, <1>2

\* What the host holds for the user's fingers and mouse is what they press, and
\* its cursor is where they put it, in every behaviour of the web client.
THEOREM PointersFollowed == SuiteSpec => []PointersInStep
<1> DEFINE Inv == /\ focus = "pointer" => PointerInv
                  /\ focus = "mouse" => QueueInv
<1>1. SuiteInit => Inv
  BY PointerInitially, QueueInitially, PointerAssumption, QueueAssumption DEF SuiteInit
<1>2. Inv /\ [SuiteNext]_suiteVars => Inv'
  <2> SUFFICES ASSUME Inv, [SuiteNext]_suiteVars PROVE Inv'
    OBVIOUS
  <2>1. CASE focus = "pointer"
    <3>1. PointerInv'
      BY <2>1, FocusSteps, PointerStep, PointerAssumption
    <3> QED BY <2>1, <3>1, FocusStays
  <2>2. CASE focus = "mouse"
    <3>1. QueueInv'
      BY <2>2, FocusSteps, QueueStep, QueueAssumption
    <3> QED BY <2>2, <3>1, FocusStays
  <2> QED BY <2>1, <2>2, FocusStays
<1>3. Inv => PointersInStep
  BY PointerShows, QueueShows DEF PointersInStep
<1> QED BY <1>1, <1>2, <1>3, PTL DEF SuiteSpec

\* What the host holds of the user's controllers and screen buttons is what is
\* plugged in and pressed, as long as no controller is given the number of the
\* virtual one: the page gives numbers without a limit, and number 15 is taken.
THEOREM PadsFollowed ==
  ASSUME Cardinality(Pads) <= VirtualId PROVE SuiteSpec => []PadsInStep
<1> DEFINE Inv == /\ focus = "pads" => ControllerInv
                  /\ focus = "quickpad" => PadInv
<1>1. SuiteInit => Inv
  BY ControllerInitially, PadInitially, PadsAssumption, PadAssumption DEF SuiteInit
<1>2. Inv /\ [SuiteNext]_suiteVars => Inv'
  <2> SUFFICES ASSUME Inv, [SuiteNext]_suiteVars PROVE Inv'
    OBVIOUS
  <2>1. CASE focus = "pads"
    <3>1. ControllerInv'
      BY <2>1, FocusSteps, ControllerStep, PadsAssumption
    <3> QED BY <2>1, <3>1, FocusStays
  <2>2. CASE focus = "quickpad"
    <3>1. PadInv'
      BY <2>2, FocusSteps, PadStep, PadAssumption
    <3> QED BY <2>2, <3>1, FocusStays
  <2> QED BY <2>1, <2>2, FocusStays
<1>3. Inv => PadsInStep
  BY ControllerShows, PadShows DEF PadsInStep
<1> QED BY <1>1, <1>2, <1>3, PTL DEF SuiteSpec

\* No operation on the stored templates loses a locked one or leaves two
\* favorites, in every behaviour of the web client.
THEOREM TemplatesStay == SuiteSpec => TemplatesKept
<1> DEFINE Inv == focus = "templates" => TemplatesInv
<1>1. SuiteInit => Inv
  BY TemplatesInitially DEF SuiteInit
<1>2. Inv /\ [SuiteNext]_suiteVars =>
        /\ Inv'
        /\ [(\A s, r \in Favorites(templates') : s = r) /\ LockedKept]_templateVars
  <2> SUFFICES ASSUME Inv, [SuiteNext]_suiteVars
               PROVE  /\ Inv'
                      /\ [(\A s, r \in Favorites(templates') : s = r) /\ LockedKept]_templateVars
    OBVIOUS
  <2>1. CASE focus = "templates"
    <3>1. [TemplatesNext]_templateVars
      BY <2>1, FocusSteps
    <3> QED BY <2>1, <3>1, FocusStays, TemplatesStep
  <2>2. CASE focus # "templates"
    <3>1. UNCHANGED templateVars
      BY <2>2, Zenon DEF SuiteNext, suiteVars, OnlyPointerInput, OnlyMouseQueue, OnlyControllerLink,
         OnlyQuickPadButtons, OnlyQuickPadTemplates, OnlyQuickPadLayouts, OnlyRuntimeResize,
         OnlySidebarHandle, OnlyMicSidecar, OnlyHostList, OnlyViewerPanels, OnlyStartPage,
         OnlyHostBanner, OnlyMediaSourceQueue, OnlyPageModals
    <3> QED BY <2>2, <3>1, FocusStays
  <2> QED BY <2>1, <2>2
<1> QED BY <1>1, <1>2, PTL DEF SuiteSpec, TemplatesKept
=============================================================================

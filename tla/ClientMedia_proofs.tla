------------------------- MODULE ClientMedia_proofs -------------------------
(***************************************************************************)
(* That the stream has the size its page asks for, that the microphone is  *)
(* not left on, that the segments of the media source are in order and     *)
(* read back as what was written, and that every component of the web      *)
(* client keeps the types of its state.                                    *)
(* Each part has its inductive invariant, the initial states and every     *)
(* action under it; the last part has the theorems.                        *)
(***************************************************************************)
EXTENDS ClientPages_proofs

-----------------------------------------------------------------------------
(* The size of the stream *)

Messages == [kind : {"StartStream", "ResizeStream"}, size : Sizes, fps : Rates]
Answers == [kind : {"ConnectionComplete", "VideoReconfigured"}, size : Sizes, fps : Rates]
Matchings ==
  [armed : BOOLEAN, arming : BOOLEAN, pending : Reasons \cup {"none"},
   resize : Reasons \cup {"none"}, post : BOOLEAN, fullscreen : BOOLEAN,
   settling : BOOLEAN, cooling : BOOLEAN,
   reconnecting : Sizes \cup {NoSize}, failures : 0 .. MaxFailures]
Controls ==
  [size : Sizes, ready : BOOLEAN, asked : MatchModes \cup {NothingSent},
   queued : MatchModes \cup {NothingSent}, sent : Rates]
Windows == [size : Sizes, full : BOOLEAN, typing : BOOLEAN, moves : 0 .. MaxResizes]
ResizeSettings == [size : Sizes \cup {Device}, fps : Rates]

\* The size the stream has once the host has answered what it was sent.
FinalSize(c, rq, rp) ==
  IF rq # <<>> THEN rq[Len(rq)].size ELSE IF rp # <<>> THEN rp[Len(rp)].size ELSE c.size

QueuedBehind(c) == c.queued # NothingSent => InFlight(c)

\* Something is under way that looks at the size again.
WillLook ==
  \/ Reconnecting \/ ~control.ready \/ UnderWay \/ InFlight(control)
  \/ matching.arming /\ matching.pending # "none"
  \/ matching.resize # "none" \/ matching.post

\* A page that follows the window looks once more whenever it is out of step,
\* and hears of the next change of the window.
FollowsWindow ==
  FollowsView /\ ~missedSizes =>
    /\ WillLook \/ ~Meaningful(window, "resize", control.size)
    /\ matching.armed \/ matching.arming \/ Reconnecting \/ UnderWay \/ InFlight(control)

\* A page with a size of its own ends with it.
KeepsSize ==
  ~FollowsView /\ ~missedSizes =>
    IF Reconnecting THEN matching.reconnecting = saved.size
    ELSE /\ FinalSize(control, requests, replies) = saved.size
         /\ control.queued # NothingSent => control.queued.size = saved.size

ResizeInv == ResizeTypeOK /\ QueuedBehind(control) /\ FollowsWindow /\ KeepsSize

LEMMA ResizeTypes ==
  ResizeTypeOK <=>
    /\ window \in Windows /\ saved \in ResizeSettings /\ matching \in Matchings
    /\ control \in Controls /\ requests \in Seq(Messages) /\ replies \in Seq(Answers)
    /\ missedSizes \in BOOLEAN
BY DEF ResizeTypeOK, Windows, ResizeSettings, Matchings, Controls, Messages, Answers

LEMMA NothingIsNoMode == NothingSent \notin MatchModes
BY ResizeAssumption DEF NothingSent, MatchModes

LEMMA ControlFields ==
  ASSUME NEW c \in Controls
  PROVE  /\ c.size \in Sizes /\ c.ready \in BOOLEAN /\ c.asked \in MatchModes \cup {NothingSent}
         /\ c.queued \in MatchModes \cup {NothingSent} /\ c.sent \in Rates
BY DEF Controls

LEMMA ModeFields ==
  ASSUME NEW mode \in MatchModes
  PROVE  /\ mode.size \in Sizes /\ mode.fps \in Rates /\ mode # NothingSent
BY NothingIsNoMode DEF MatchModes

LEMMA SettledIs ==
  ASSUME NEW c \in Controls
  PROVE  /\ MatchSettled(c) \in Controls
         /\ MatchSettled(c).size = c.size /\ MatchSettled(c).ready = c.ready
         /\ MatchSettled(c).asked = NothingSent /\ MatchSettled(c).queued = NothingSent
BY Zenon DEF MatchSettled, Controls

\* A request is passed over, queued behind the one in flight, or sent.
LEMMA AskedIs ==
  ASSUME NEW c \in Controls, NEW mode \in MatchModes, QueuedBehind(c)
  PROVE  /\ Asked(c, mode) \in Controls /\ QueuedBehind(Asked(c, mode))
         /\ Asked(c, mode).size = c.size /\ Asked(c, mode).ready = c.ready
         /\ \/ Asked(c, mode) = c /\ (mode.size = c.size \/ InFlight(c))
            \/ /\ InFlight(c) /\ InFlight(Asked(c, mode)) /\ Asked(c, mode).asked = c.asked
               /\ Asked(c, mode).queued = mode
            \/ /\ ~InFlight(c) /\ InFlight(Asked(c, mode)) /\ Asked(c, mode).asked = mode
               /\ Asked(c, mode).queued = NothingSent
<1>0. mode \notin {NothingSent} /\ mode.fps \in Rates
  BY ModeFields
<1>1. CASE mode.size = c.size \/ mode \in {c.asked, c.queued}
  <2>1. Asked(c, mode) = c
    BY <1>1 DEF Asked
  <2>2. mode.size = c.size \/ InFlight(c)
    BY <1>0, <1>1 DEF QueuedBehind, InFlight
  <2> QED BY <2>1, <2>2
<1>2. CASE ~(mode.size = c.size \/ mode \in {c.asked, c.queued}) /\ InFlight(c)
  <2>1. Asked(c, mode) = [c EXCEPT !.queued = mode, !.sent = mode.fps]
    BY <1>2 DEF Asked
  <2>2. /\ Asked(c, mode) \in Controls /\ Asked(c, mode).size = c.size /\ Asked(c, mode).ready = c.ready
        /\ Asked(c, mode).asked = c.asked /\ Asked(c, mode).queued = mode
    BY <1>0, <2>1, Zenon DEF Controls
  <2> QED BY <1>2, <2>2 DEF InFlight, QueuedBehind
<1>3. CASE ~(mode.size = c.size \/ mode \in {c.asked, c.queued}) /\ ~InFlight(c)
  <2>1. Asked(c, mode) = [c EXCEPT !.asked = mode, !.queued = NothingSent, !.sent = mode.fps]
    BY <1>3 DEF Asked
  <2>2. /\ Asked(c, mode) \in Controls /\ Asked(c, mode).size = c.size /\ Asked(c, mode).ready = c.ready
        /\ Asked(c, mode).asked = mode /\ Asked(c, mode).queued = NothingSent
    BY <1>0, <2>1, Zenon DEF Controls
  <2> QED BY <1>0, <1>3, <2>2 DEF InFlight, QueuedBehind
<1> QED BY <1>1, <1>2, <1>3

LEMMA AppendedLast ==
  ASSUME NEW S, NEW q \in Seq(S), NEW e \in S
  PROVE  /\ Append(q, e) \in Seq(S) /\ Append(q, e) # <<>>
         /\ Append(q, e)[Len(Append(q, e))] = e
OBVIOUS

LEMMA TailLast ==
  ASSUME NEW S, NEW q \in Seq(S), q # <<>>
  PROVE  /\ Tail(q) \in Seq(S) /\ Head(q) \in S
         /\ Tail(q) = <<>> => q[Len(q)] = Head(q)
         /\ Tail(q) # <<>> => Tail(q)[Len(Tail(q))] = q[Len(q)]
<1>1. /\ Tail(q) \in Seq(S) /\ Head(q) \in S /\ Len(Tail(q)) = Len(q) - 1 /\ Len(q) \in Nat \ {0}
      /\ \A i \in 1 .. Len(q) - 1 : Tail(q)[i] = q[i + 1]
  OBVIOUS
<1>2. ASSUME Tail(q) = <<>> PROVE q[Len(q)] = Head(q)
  <2>0. Len(Tail(q)) = 0
    BY <1>1, <1>2, EmptySeq, Zenon
  <2> DEFINE n == Len(q)
             k == Len(Tail(q))
  <2>1. n \in Nat /\ k = n - 1 /\ k = 0
    BY <1>1, <2>0, Zenon
  <2> HIDE DEF n, k
  <2>2. n = 1
    BY <2>1
  <2>3. Len(q) = 1
    BY <2>2 DEF n
  <2> QED BY <2>3
<1>3. ASSUME Tail(q) # <<>> PROVE Tail(q)[Len(Tail(q))] = q[Len(q)]
  <2>1. Len(q) - 1 \in 1 .. Len(q) - 1
    BY <1>1, <1>3
  <2> QED BY <1>1, <2>1
<1> QED BY <1>1, <1>2, <1>3

\* What a request does to the messages.
LEMMA SentIs ==
  ASSUME NEW c \in Controls, NEW d \in Controls, requests \in Seq(Messages)
  PROVE  /\ Sent(c, d) \in Seq(Messages)
         /\ IF d.asked # c.asked /\ InFlight(d)
            THEN Sent(c, d) # <<>> /\ Sent(c, d)[Len(Sent(c, d))].size = d.asked.size
            ELSE Sent(c, d) = requests
<1>1. CASE d.asked # c.asked /\ InFlight(d)
  <2> DEFINE e == [kind |-> "ResizeStream", size |-> d.asked.size, fps |-> d.asked.fps]
  <2>1. d.asked \in MatchModes
    BY <1>1, ControlFields DEF InFlight
  <2>2. e \in Messages /\ e.size = d.asked.size
    BY <2>1, ModeFields DEF Messages
  <2>3. Sent(c, d) = Append(requests, e)
    BY <1>1 DEF Sent
  <2> HIDE DEF e
  <2>4. Append(requests, e) \in Seq(Messages) /\ Append(requests, e) # <<>>
        /\ Append(requests, e)[Len(Append(requests, e))] = e
    BY <2>2, AppendedLast
  <2> QED BY <1>1, <2>2, <2>3, <2>4
<1>2. CASE ~(d.asked # c.asked /\ InFlight(d))
  BY <1>2 DEF Sent
<1> QED BY <1>1, <1>2

LEMMA RequestIs ==
  ASSUME ResizeInv, NEW mode \in MatchModes, Request(mode)
  PROVE  /\ control' \in Controls /\ QueuedBehind(control') /\ requests' \in Seq(Messages)
         /\ control'.size = control.size /\ control'.ready = control.ready
         /\ mode.size = control.size \/ InFlight(control')
         /\ InFlight(control) => InFlight(control')
         /\ \/ requests' = requests /\ control'.queued \in {control.queued, mode}
            \/ /\ requests' # <<>> /\ requests'[Len(requests')].size = mode.size
               /\ control'.queued = NothingSent
<1>1. /\ control \in Controls /\ QueuedBehind(control) /\ requests \in Seq(Messages)
      /\ control' = Asked(control, mode) /\ requests' = Sent(control, control')
  BY ResizeTypes DEF ResizeInv, Request
<1>2. control' \in Controls /\ QueuedBehind(control') /\ control'.size = control.size /\ control'.ready = control.ready
  BY <1>1, AskedIs
<1>3. /\ requests' \in Seq(Messages)
      /\ IF control'.asked # control.asked /\ InFlight(control')
         THEN requests' # <<>> /\ requests'[Len(requests')].size = control'.asked.size
         ELSE requests' = requests
  BY <1>1, <1>2, SentIs
<1>4. \/ control' = control /\ (mode.size = control.size \/ InFlight(control))
      \/ /\ InFlight(control) /\ InFlight(control') /\ control'.asked = control.asked
         /\ control'.queued = mode
      \/ /\ ~InFlight(control) /\ InFlight(control') /\ control'.asked = mode
         /\ control'.queued = NothingSent
  BY <1>1, AskedIs
<1>5. mode # NothingSent
  BY ModeFields
<1> QED BY <1>2, <1>3, <1>4, <1>5 DEF InFlight

\* The queued request is sent, unless its size is there already.
LEMMA FlushedIs ==
  ASSUME NEW c \in Controls, QueuedBehind(c), requests \in Seq(Messages)
  PROVE  /\ Flushed(c) \in Controls /\ Flushed(c).size = c.size /\ Flushed(c).ready = c.ready
         /\ Flushed(c).queued = NothingSent
         /\ Sent(MatchSettled(c), Flushed(c)) \in Seq(Messages)
         /\ \/ /\ InFlight(Flushed(c)) /\ c.queued # NothingSent
               /\ Sent(MatchSettled(c), Flushed(c)) # <<>>
               /\ Sent(MatchSettled(c), Flushed(c))[Len(Sent(MatchSettled(c), Flushed(c)))].size = c.queued.size
            \/ /\ ~InFlight(Flushed(c)) /\ Sent(MatchSettled(c), Flushed(c)) = requests
               /\ c.queued = NothingSent \/ c.queued.size = c.size
<1> DEFINE s == MatchSettled(c)
<1>1. /\ s \in Controls /\ s.size = c.size /\ s.ready = c.ready
      /\ s.asked = NothingSent /\ s.queued = NothingSent
  BY SettledIs
<1>2. ~InFlight(s) /\ QueuedBehind(s)
  BY <1>1 DEF InFlight, QueuedBehind
<1>3. CASE c.queued = NothingSent
  <2>1. Flushed(c) = s
    BY <1>3 DEF Flushed
  <2>2. Sent(s, s) = requests
    BY DEF Sent
  <2> QED BY <1>1, <1>2, <1>3, <2>1, <2>2
<1>4. CASE c.queued # NothingSent
  <2>1. c.queued \in MatchModes /\ Flushed(c) = Asked(s, c.queued)
    BY <1>4, ControlFields DEF Flushed
  <2> HIDE DEF s
  <2>2. /\ Flushed(c) \in Controls /\ Flushed(c).size = s.size /\ Flushed(c).ready = s.ready
        /\ \/ Flushed(c) = s /\ c.queued.size = s.size
           \/ /\ InFlight(Flushed(c)) /\ Flushed(c).asked = c.queued
              /\ Flushed(c).queued = NothingSent
    BY <1>1, <1>2, <2>1, AskedIs
  <2>3. /\ Sent(s, Flushed(c)) \in Seq(Messages)
        /\ IF Flushed(c).asked # s.asked /\ InFlight(Flushed(c))
           THEN /\ Sent(s, Flushed(c)) # <<>>
                /\ Sent(s, Flushed(c))[Len(Sent(s, Flushed(c)))].size = Flushed(c).asked.size
           ELSE Sent(s, Flushed(c)) = requests
    BY <1>1, <2>2, SentIs
  <2>4. /\ Flushed(c).queued = NothingSent
        /\ \/ /\ InFlight(Flushed(c)) /\ Sent(s, Flushed(c)) # <<>>
              /\ Sent(s, Flushed(c))[Len(Sent(s, Flushed(c)))].size = c.queued.size
           \/ ~InFlight(Flushed(c)) /\ Sent(s, Flushed(c)) = requests /\ c.queued.size = s.size
    BY <1>1, <1>2, <1>4, <2>2, <2>3
  <2> QED BY <1>1, <1>4, <2>2, <2>3, <2>4 DEF s
<1> QED BY <1>3, <1>4

-----------------------------------------------------------------------------
(* Device match *)

LEMMA MatchFields ==
  ASSUME NEW m \in Matchings
  PROVE  /\ m.armed \in BOOLEAN /\ m.arming \in BOOLEAN /\ m.pending \in Reasons \cup {"none"}
         /\ m.resize \in Reasons \cup {"none"} /\ m.post \in BOOLEAN /\ m.fullscreen \in BOOLEAN
         /\ m.settling \in BOOLEAN /\ m.cooling \in BOOLEAN
         /\ m.reconnecting \in Sizes \cup {NoSize} /\ m.failures \in 0 .. MaxFailures
BY DEF Matchings

LEMMA WindowFields ==
  ASSUME NEW w \in Windows
  PROVE  w.size \in Sizes /\ w.full \in BOOLEAN /\ w.typing \in BOOLEAN /\ w.moves \in 0 .. MaxResizes
BY DEF Windows

LEMMA WantedSize ==
  ASSUME NEW w \in Windows, saved \in ResizeSettings
  PROVE  Wanted(w) \in Sizes /\ (~FollowsView => Wanted(w) = saved.size)
BY WindowFields DEF Wanted, FollowsView, ResizeSettings

\* Apart from its own field a timer leaves the rest as it is.
LEMMA PendingSet ==
  ASSUME NEW m \in Matchings, NEW reason \in Reasons \cup {"none"}
  PROVE  /\ [m EXCEPT !.pending = reason] \in Matchings
         /\ [m EXCEPT !.pending = reason].armed = m.armed
         /\ [m EXCEPT !.pending = reason].arming = m.arming
         /\ [m EXCEPT !.pending = reason].pending = reason
         /\ [m EXCEPT !.pending = reason].resize = m.resize
         /\ [m EXCEPT !.pending = reason].post = m.post
         /\ [m EXCEPT !.pending = reason].reconnecting = m.reconnecting
         /\ [m EXCEPT !.pending = reason].cooling = m.cooling
BY DEF Matchings

LEMMA TimerSet ==
  ASSUME NEW m \in Matchings, NEW reason \in Reasons \cup {"none"}
  PROVE  /\ [m EXCEPT !.resize = reason] \in Matchings
         /\ [m EXCEPT !.resize = reason].armed = m.armed
         /\ [m EXCEPT !.resize = reason].arming = m.arming
         /\ [m EXCEPT !.resize = reason].pending = m.pending
         /\ [m EXCEPT !.resize = reason].resize = reason
         /\ [m EXCEPT !.resize = reason].post = m.post
         /\ [m EXCEPT !.resize = reason].reconnecting = m.reconnecting
         /\ [m EXCEPT !.resize = reason].cooling = m.cooling
BY DEF Matchings

LEMMA PostSet ==
  ASSUME NEW m \in Matchings, NEW b \in BOOLEAN
  PROVE  /\ [m EXCEPT !.post = b] \in Matchings
         /\ [m EXCEPT !.post = b].armed = m.armed
         /\ [m EXCEPT !.post = b].arming = m.arming
         /\ [m EXCEPT !.post = b].pending = m.pending
         /\ [m EXCEPT !.post = b].resize = m.resize
         /\ [m EXCEPT !.post = b].post = b
         /\ [m EXCEPT !.post = b].reconnecting = m.reconnecting
         /\ [m EXCEPT !.post = b].cooling = m.cooling
BY DEF Matchings

LEMMA FullscreenSet ==
  ASSUME NEW m \in Matchings, NEW b \in BOOLEAN
  PROVE  /\ [m EXCEPT !.fullscreen = b] \in Matchings
         /\ [m EXCEPT !.fullscreen = b].armed = m.armed
         /\ [m EXCEPT !.fullscreen = b].arming = m.arming
         /\ [m EXCEPT !.fullscreen = b].pending = m.pending
         /\ [m EXCEPT !.fullscreen = b].resize = m.resize
         /\ [m EXCEPT !.fullscreen = b].post = m.post
         /\ [m EXCEPT !.fullscreen = b].reconnecting = m.reconnecting
         /\ [m EXCEPT !.fullscreen = b].cooling = m.cooling
BY DEF Matchings

LEMMA SettlingSet ==
  ASSUME NEW m \in Matchings, NEW b \in BOOLEAN
  PROVE  /\ [m EXCEPT !.settling = b] \in Matchings
         /\ [m EXCEPT !.settling = b].armed = m.armed
         /\ [m EXCEPT !.settling = b].arming = m.arming
         /\ [m EXCEPT !.settling = b].pending = m.pending
         /\ [m EXCEPT !.settling = b].resize = m.resize
         /\ [m EXCEPT !.settling = b].post = m.post
         /\ [m EXCEPT !.settling = b].reconnecting = m.reconnecting
         /\ [m EXCEPT !.settling = b].cooling = m.cooling
BY DEF Matchings

LEMMA CoolingSet ==
  ASSUME NEW m \in Matchings, NEW b \in BOOLEAN
  PROVE  /\ [m EXCEPT !.cooling = b] \in Matchings
         /\ [m EXCEPT !.cooling = b].armed = m.armed
         /\ [m EXCEPT !.cooling = b].arming = m.arming
         /\ [m EXCEPT !.cooling = b].pending = m.pending
         /\ [m EXCEPT !.cooling = b].resize = m.resize
         /\ [m EXCEPT !.cooling = b].post = m.post
         /\ [m EXCEPT !.cooling = b].reconnecting = m.reconnecting
         /\ [m EXCEPT !.cooling = b].cooling = b
BY DEF Matchings

LEMMA ScheduleIs ==
  ASSUME NEW m \in Matchings, NEW w, NEW reason \in Reasons
  PROVE  /\ Schedule(m, w, reason) \in Matchings
         /\ Schedule(m, w, reason).armed = m.armed /\ Schedule(m, w, reason).arming = m.arming
         /\ Schedule(m, w, reason).reconnecting = m.reconnecting
         /\ Schedule(m, w, reason).post = m.post
         /\ \/ /\ ~FollowsView \/ Reconnecting \/ w.typing \/ m.cooling
                  \/ (reason = "connection" /\ ~control.ready)
               /\ Schedule(m, w, reason) = m
            \/ ~m.armed /\ Schedule(m, w, reason).pending = reason
            \/ /\ m.armed
               /\ Schedule(m, w, reason).resize # "none" \/ ~Meaningful(w, reason, control.size)
<1>0. reason \in Reasons \cup {"none"} /\ "none" \in Reasons \cup {"none"} /\ reason # "none"
  BY DEF Reasons
<1>1. CASE ~FollowsView \/ Reconnecting \/ w.typing \/ m.cooling
           \/ (reason = "connection" /\ ~control.ready)
  <2>1. Schedule(m, w, reason) = m
    BY <1>1 DEF Schedule
  <2> QED BY <1>1, <2>1
<1>2. CASE ~(~FollowsView \/ Reconnecting \/ w.typing \/ m.cooling
             \/ (reason = "connection" /\ ~control.ready)) /\ ~m.armed
  <2>1. Schedule(m, w, reason) = [m EXCEPT !.pending = reason]
    BY <1>2 DEF Schedule
  <2> QED BY <1>0, <1>2, <2>1, PendingSet
<1>3. CASE ~(~FollowsView \/ Reconnecting \/ w.typing \/ m.cooling
             \/ (reason = "connection" /\ ~control.ready)) /\ m.armed
  <2> DEFINE r == IF Meaningful(w, reason, control.size) THEN reason ELSE "none"
  <2>1. Schedule(m, w, reason) = [m EXCEPT !.resize = r]
    BY <1>3 DEF Schedule
  <2>2. r \in Reasons \cup {"none"} /\ (Meaningful(w, reason, control.size) => r # "none")
    BY <1>0
  <2> HIDE DEF r
  <2>3. /\ [m EXCEPT !.resize = r] \in Matchings
        /\ [m EXCEPT !.resize = r].armed = m.armed /\ [m EXCEPT !.resize = r].arming = m.arming
        /\ [m EXCEPT !.resize = r].reconnecting = m.reconnecting
        /\ [m EXCEPT !.resize = r].post = m.post /\ [m EXCEPT !.resize = r].resize = r
    BY <2>2, TimerSet
  <2> QED BY <1>3, <2>1, <2>2, <2>3, Zenon
<1> QED BY <1>1, <1>2, <1>3

LEMMA FullscreenIs ==
  ASSUME NEW m \in Matchings, NEW w
  PROVE  /\ ScheduleFullscreen(m, w) \in Matchings
         /\ ScheduleFullscreen(m, w).armed = m.armed
         /\ ScheduleFullscreen(m, w).arming = m.arming
         /\ ScheduleFullscreen(m, w).pending = m.pending
         /\ ScheduleFullscreen(m, w).resize = m.resize
         /\ ScheduleFullscreen(m, w).post = m.post
         /\ ScheduleFullscreen(m, w).reconnecting = m.reconnecting
         /\ ScheduleFullscreen(m, w).cooling = m.cooling
<1> DEFINE b == /\ FollowsView /\ Ready /\ w.full /\ ~w.typing
                /\ Meaningful(w, "fullscreen", control.size)
<1>1. b \in BOOLEAN
  OBVIOUS
<1>2. ScheduleFullscreen(m, w) = [m EXCEPT !.fullscreen = b]
  BY Zenon DEF ScheduleFullscreen
<1> HIDE DEF b
<1> QED BY <1>1, <1>2, FullscreenSet

LEMMA ArmIs ==
  ASSUME NEW m \in Matchings
  PROVE  /\ Arm(m, FollowsView) \in Matchings
         /\ Arm(m, FollowsView).reconnecting = m.reconnecting
         /\ FollowsView => Arm(m, FollowsView).arming /\ Arm(m, FollowsView).pending = m.pending
<1>1. CASE FollowsView
  BY <1>1, Zenon DEF Arm, Matchings
<1>2. CASE ~FollowsView
  BY <1>2, Zenon DEF Arm, Matchings
<1> QED BY <1>1, <1>2

LEMMA QueueSyncIs ==
  ASSUME NEW m \in Matchings, NEW size
  PROVE  /\ QueueSync(m, size) \in Matchings
         /\ QueueSync(m, size).reconnecting = m.reconnecting
         /\ FollowsView /\ Meaningful(window, "connection", size) => QueueSync(m, size).pending # "none"
<1>0. "connection" \in Reasons \cup {"none"}
  BY DEF Reasons
<1>1. CASE FollowsView /\ Meaningful(window, "connection", size)
  <2>1. QueueSync(m, size) = [m EXCEPT !.pending = "connection"]
    BY <1>1 DEF QueueSync
  <2> QED BY <1>0, <2>1, PendingSet
<1>2. CASE ~(FollowsView /\ Meaningful(window, "connection", size))
  <2>1. QueueSync(m, size) = m
    BY <1>2 DEF QueueSync
  <2> QED BY <1>2, <2>1
<1> QED BY <1>1, <1>2

\* What is a change for any reason.
LEMMA MeaningfulToo ==
  ASSUME NEW w, NEW reason, NEW size, Meaningful(w, "resize", size)
  PROVE  Meaningful(w, reason, size)
BY DEF Meaningful

-----------------------------------------------------------------------------
(* The steps *)

LEMMA InvIs ==
  ASSUME ResizeInv
  PROVE  /\ window \in Windows /\ saved \in ResizeSettings /\ matching \in Matchings
         /\ control \in Controls /\ requests \in Seq(Messages) /\ replies \in Seq(Answers)
         /\ missedSizes \in BOOLEAN /\ QueuedBehind(control) /\ FollowsWindow /\ KeepsSize
         /\ window.size \in Sizes /\ control.size \in Sizes /\ saved.fps \in Rates
         /\ Target \in Sizes /\ (~FollowsView => Target = saved.size)
         /\ matching.reconnecting \in Sizes \cup {NoSize} /\ NoSize \notin Sizes
BY ResizeTypes, WindowFields, ControlFields, MatchFields, WantedSize, ResizeAssumption
   DEF ResizeInv, Target, ResizeSettings

LEMMA InvKept ==
  ASSUME window' \in Windows, saved' \in ResizeSettings, matching' \in Matchings,
         control' \in Controls, requests' \in Seq(Messages), replies' \in Seq(Answers),
         missedSizes' \in BOOLEAN, QueuedBehind(control'), FollowsWindow', KeepsSize'
  PROVE  ResizeInv'
<1>1. ResizeTypeOK'
  BY DEF ResizeTypeOK, Windows, ResizeSettings, Matchings, Controls, Messages, Answers
<1>2. (QueuedBehind(control))'
  BY DEF QueuedBehind, InFlight
<1> QED BY <1>1, <1>2 DEF ResizeInv

\* What the page has asked for stays as it is.
LEMMA SizeStays ==
  ASSUME ResizeInv, UNCHANGED <<saved, control, requests, replies>>,
         matching'.reconnecting = matching.reconnecting, missedSizes => missedSizes' \/ FollowsView
  PROVE  KeepsSize'
BY DEF ResizeInv, KeepsSize, FollowsView, Reconnecting, FinalSize

LEMMA MovedWindow ==
  ASSUME NEW w \in Windows, NEW size \in Sizes, w.moves < MaxResizes
  PROVE  [w EXCEPT !.size = size, !.moves = @ + 1] \in Windows
<1> DEFINE n == w.moves + 1
<1>1. n \in 0 .. MaxResizes
  BY WindowFields, ResizeAssumption
<1>2. [w EXCEPT !.size = size, !.moves = @ + 1] = [w EXCEPT !.size = size, !.moves = n]
  OBVIOUS
<1> HIDE DEF n
<1>3. [w EXCEPT !.size = size, !.moves = n] \in Windows
  BY <1>1, Zenon DEF Windows
<1> QED BY <1>2, <1>3

\* The window moved, and the page looks at it for this reason.
LEMMA LookedAgain ==
  ASSUME ResizeInv, NEW m \in Matchings, NEW r \in Reasons, r # "connection",
         m.armed = matching.armed, m.arming = matching.arming, m.pending = matching.pending,
         m.post = matching.post, m.reconnecting = matching.reconnecting, m.cooling = matching.cooling,
         window' \in Windows, matching' = Schedule(m, window', r),
         UNCHANGED <<saved, control, requests, replies>>, missedSizes' \in BOOLEAN,
         MatchGivesUp(window') => missedSizes',
         missedSizes => missedSizes' \/ (FollowsView /\ (matching.armed \/ matching.arming))
  PROVE  ResizeInv'
<1>5. /\ matching' \in Matchings /\ matching'.armed = m.armed /\ matching'.arming = m.arming
      /\ matching'.reconnecting = m.reconnecting /\ matching'.post = m.post
      /\ \/ /\ \/ ~FollowsView \/ Reconnecting \/ window'.typing
               \/ m.cooling
            /\ matching' = m
         \/ ~m.armed /\ matching'.pending = r
         \/ /\ m.armed
            /\ matching'.resize # "none" \/ ~Meaningful(window', r, control.size)
  <2>3. matching' \in Matchings
    BY ScheduleIs
  <2> QED BY ScheduleIs
<1>6. KeepsSize'
  BY <1>5, SizeStays
<1>7. FollowsWindow'
  <2> SUFFICES ASSUME FollowsView, ~missedSizes', ~Reconnecting
               PROVE  FollowsWindow'
    BY <1>5 DEF FollowsWindow, FollowsView, Reconnecting, WillLook
  <2>1. ~window'.typing /\ ~matching.cooling /\ (~missedSizes \/ matching.armed \/ matching.arming)
    BY DEF MatchGivesUp
  <2>2. matching.armed \/ matching.arming \/ UnderWay \/ InFlight(control)
    BY <2>1, InvIs DEF FollowsWindow
  <2>3. \/ ~matching.armed /\ matching'.pending # "none"
        \/ matching'.resize # "none"
        \/ ~Meaningful(window', "resize", control.size)
    BY <1>5, <2>1, MeaningfulToo DEF Reasons
  <2>4. matching'.arming = matching.arming /\ matching'.armed = matching.armed
    BY <1>5
  <2>5. (WillLook \/ ~Meaningful(window, "resize", control.size))'
    BY <2>2, <2>3, <2>4 DEF WillLook, UnderWay, InFlight, Meaningful, Wanted, FollowsView
  <2>6. (matching.armed \/ matching.arming \/ Reconnecting \/ UnderWay \/ InFlight(control))'
    BY <2>2, <2>4 DEF UnderWay, InFlight
  <2> QED BY <2>5, <2>6 DEF FollowsWindow
<1> QED BY <1>5, <1>6, <1>7, InvIs, InvKept

LEMMA ViewportStep ==
  ASSUME ResizeInv, NEW size \in Sizes, ViewportChanges(size) PROVE ResizeInv'
<1> DEFINE m == IF window.full THEN ScheduleFullscreen(matching, window') ELSE matching
           r == "resize"
<1>1. /\ UNCHANGED <<saved, control, requests, replies>> /\ matching' = Schedule(m, window', r)
      /\ window' = [window EXCEPT !.size = size, !.moves = @ + 1] /\ window.moves < MaxResizes
      /\ missedSizes' = (MatchGivesUp(window')
                         \/ (missedSizes /\ ~(FollowsView /\ (matching.armed \/ matching.arming))))
  BY DEF ViewportChanges, Moves
<1>2. window' \in Windows
  BY <1>1, InvIs, MovedWindow, Zenon
<1>3. /\ m \in Matchings /\ m.armed = matching.armed /\ m.arming = matching.arming
      /\ m.pending = matching.pending /\ m.post = matching.post
      /\ m.reconnecting = matching.reconnecting /\ m.cooling = matching.cooling
  <2>1. CASE window.full
    BY <2>1, InvIs, FullscreenIs
  <2>2. CASE ~window.full
    BY <2>2, InvIs
  <2> QED BY <2>1, <2>2
<1>4. r \in Reasons /\ r # "connection"
  BY DEF Reasons
<1>5. /\ missedSizes' \in BOOLEAN /\ (MatchGivesUp(window') => missedSizes')
      /\ (missedSizes => missedSizes' \/ (FollowsView /\ (matching.armed \/ matching.arming)))
  BY <1>1, Zenon
<1> HIDE DEF m, r
<1> QED BY <1>1, <1>2, <1>3, <1>4, <1>5, LookedAgain

LEMMA SwitchedWindow ==
  ASSUME NEW w \in Windows, w.moves < MaxResizes
  PROVE  /\ [w EXCEPT !.full = ~@, !.moves = @ + 1] \in Windows
         /\ [w EXCEPT !.typing = ~@, !.moves = @ + 1] \in Windows
         /\ [w EXCEPT !.moves = @ + 1] \in Windows
<1> DEFINE n == w.moves + 1
           f == ~w.full
           t == ~w.typing
<1>1. n \in 0 .. MaxResizes /\ f \in BOOLEAN /\ t \in BOOLEAN
  BY WindowFields, ResizeAssumption
<1>2. /\ [w EXCEPT !.full = ~@, !.moves = @ + 1] = [w EXCEPT !.full = f, !.moves = n]
      /\ [w EXCEPT !.typing = ~@, !.moves = @ + 1] = [w EXCEPT !.typing = t, !.moves = n]
      /\ [w EXCEPT !.moves = @ + 1] = [w EXCEPT !.moves = n]
  BY Zenon
<1> HIDE DEF n, f, t
<1>3. /\ [w EXCEPT !.full = f, !.moves = n] \in Windows
      /\ [w EXCEPT !.typing = t, !.moves = n] \in Windows
      /\ [w EXCEPT !.moves = n] \in Windows
  BY <1>1, Zenon DEF Windows
<1> QED BY <1>2, <1>3

LEMMA FullscreenStep == ASSUME ResizeInv, FullscreenChanges PROVE ResizeInv'
<1> DEFINE f == ScheduleFullscreen(matching, window')
           m == [f EXCEPT !.settling = TRUE]
           r == "fullscreen"
<1>1. /\ UNCHANGED <<saved, control, requests, replies>> /\ matching' = Schedule(m, window', r)
      /\ window' = [window EXCEPT !.full = ~@, !.moves = @ + 1] /\ window.moves < MaxResizes
      /\ missedSizes' = (missedSizes \/ MatchGivesUp(window'))
  BY DEF FullscreenChanges, Moves
<1>2. window' \in Windows
  BY <1>1, InvIs, SwitchedWindow, Zenon
<1>3. /\ m \in Matchings /\ m.armed = matching.armed /\ m.arming = matching.arming
      /\ m.pending = matching.pending /\ m.post = matching.post
      /\ m.reconnecting = matching.reconnecting /\ m.cooling = matching.cooling
  <2>1. /\ f \in Matchings /\ f.armed = matching.armed /\ f.arming = matching.arming
        /\ f.pending = matching.pending /\ f.post = matching.post
        /\ f.reconnecting = matching.reconnecting /\ f.cooling = matching.cooling
    BY InvIs, FullscreenIs
  <2> HIDE DEF f
  <2> QED BY <2>1, SettlingSet, Zenon
<1>4. r \in Reasons /\ r # "connection"
  BY DEF Reasons
<1>5. /\ missedSizes' \in BOOLEAN /\ (MatchGivesUp(window') => missedSizes')
      /\ (missedSizes => missedSizes' \/ (FollowsView /\ (matching.armed \/ matching.arming)))
  BY <1>1, Zenon
<1> HIDE DEF m, r
<1> QED BY <1>1, <1>2, <1>3, <1>4, <1>5, LookedAgain

\* Steps that change neither what is under way nor what will look.
LEMMA FollowStays ==
  ASSUME ResizeInv, UNCHANGED <<saved, control, requests, replies, missedSizes>>,
         window'.size = window.size, window'.full = window.full,
         matching'.armed = matching.armed, matching'.arming = matching.arming,
         matching'.pending = matching.pending, matching'.resize = matching.resize,
         matching'.post = matching.post, matching'.reconnecting = matching.reconnecting
  PROVE  FollowsWindow'
<1>1. FollowsWindow
  BY InvIs
<1> QED BY <1>1 DEF FollowsWindow, FollowsView, WillLook, Reconnecting, UnderWay, InFlight,
                    Meaningful, Wanted

LEMMA SettleStep == ASSUME ResizeInv, SettleTick PROVE ResizeInv'
<1> DEFINE f == IF window.full THEN ScheduleFullscreen(matching, window) ELSE matching
<1>1. PICK more \in BOOLEAN : matching' = [f EXCEPT !.settling = more]
  BY DEF SettleTick
<1>2. UNCHANGED <<window, saved, control, requests, replies, missedSizes>>
  BY DEF SettleTick
<1>3. /\ f \in Matchings /\ f.armed = matching.armed /\ f.arming = matching.arming
      /\ f.pending = matching.pending /\ f.resize = matching.resize /\ f.post = matching.post
      /\ f.reconnecting = matching.reconnecting
  <2>1. CASE window.full
    BY <2>1, InvIs, FullscreenIs
  <2>2. CASE ~window.full
    BY <2>2, InvIs
  <2> QED BY <2>1, <2>2
<1> HIDE DEF f
<1>4. /\ matching' \in Matchings /\ matching'.armed = matching.armed
      /\ matching'.arming = matching.arming /\ matching'.pending = matching.pending
      /\ matching'.resize = matching.resize /\ matching'.post = matching.post
      /\ matching'.reconnecting = matching.reconnecting
  BY <1>1, <1>3, SettlingSet
<1>5. FollowsWindow' /\ KeepsSize'
  BY <1>2, <1>4, FollowStays, SizeStays
<1> QED BY <1>2, <1>4, <1>5, InvIs, InvKept

LEMMA CooldownStep == ASSUME ResizeInv, CooldownEnds PROVE ResizeInv'
<1>1. /\ matching' = [matching EXCEPT !.cooling = FALSE]
      /\ UNCHANGED <<window, saved, control, requests, replies, missedSizes>>
  BY DEF CooldownEnds
<1>4. /\ matching' \in Matchings /\ matching'.armed = matching.armed
      /\ matching'.arming = matching.arming /\ matching'.pending = matching.pending
      /\ matching'.resize = matching.resize /\ matching'.post = matching.post
      /\ matching'.reconnecting = matching.reconnecting
  BY <1>1, InvIs, CoolingSet, Zenon
<1>5. FollowsWindow' /\ KeepsSize'
  BY <1>1, <1>4, FollowStays, SizeStays
<1> QED BY <1>1, <1>4, <1>5, InvIs, InvKept

LEMMA KeyboardStep == ASSUME ResizeInv, KeyboardChanges PROVE ResizeInv'
<1>1. /\ window' = [window EXCEPT !.typing = ~@, !.moves = @ + 1] /\ window.moves < MaxResizes
      /\ UNCHANGED <<saved, matching, control, requests, replies, missedSizes>>
  BY DEF KeyboardChanges, Moves
<1>2. window' \in Windows /\ window'.size = window.size /\ window'.full = window.full
  BY <1>1, InvIs, SwitchedWindow, Zenon DEF Windows
<1>5. FollowsWindow' /\ KeepsSize'
  BY <1>1, <1>2, FollowStays, SizeStays
<1> QED BY <1>1, <1>2, <1>5, InvIs, InvKept

LEMMA ArmedSet ==
  ASSUME NEW m \in Matchings
  PROVE  /\ [m EXCEPT !.arming = FALSE, !.armed = TRUE, !.pending = "none"] \in Matchings
         /\ [m EXCEPT !.arming = FALSE, !.armed = TRUE, !.pending = "none"].armed
         /\ [m EXCEPT !.arming = FALSE, !.armed = TRUE, !.pending = "none"].resize = m.resize
         /\ [m EXCEPT !.arming = FALSE, !.armed = TRUE, !.pending = "none"].post = m.post
         /\ [m EXCEPT !.arming = FALSE, !.armed = TRUE, !.pending = "none"].cooling = m.cooling
         /\ [m EXCEPT !.arming = FALSE, !.armed = TRUE, !.pending = "none"].reconnecting = m.reconnecting
BY Zenon DEF Matchings

LEMMA ArmTimerStep == ASSUME ResizeInv, ArmTimerFires PROVE ResizeInv'
<1> DEFINE m == [matching EXCEPT !.arming = FALSE, !.armed = TRUE, !.pending = "none"]
           r == matching.pending
<1>1. /\ matching.arming /\ UNCHANGED <<window, saved, control, requests, replies>>
      /\ matching' = IF r = "none" THEN m ELSE Schedule(m, window, r)
      /\ missedSizes' = (missedSizes \/ (r # "none" /\ MatchGivesUp(window)))
  BY DEF ArmTimerFires
<1>2. /\ m \in Matchings /\ m.armed /\ m.resize = matching.resize /\ m.post = matching.post
      /\ m.cooling = matching.cooling /\ m.reconnecting = matching.reconnecting
  BY InvIs, ArmedSet, Zenon
<1>3. r \in Reasons \cup {"none"}
  BY InvIs, MatchFields
<1> HIDE DEF m, r
<1>4. /\ matching' \in Matchings /\ matching'.armed /\ matching'.post = matching.post
      /\ matching'.reconnecting = matching.reconnecting
      /\ r = "none" => matching'.resize = matching.resize
      /\ r # "none" =>
           \/ ~FollowsView \/ Reconnecting \/ window.typing \/ matching.cooling
           \/ r = "connection" /\ ~control.ready
           \/ matching'.resize # "none"
           \/ ~Meaningful(window, r, control.size)
  <2>1. CASE r = "none"
    BY <1>1, <1>2, <2>1
  <2>2. CASE r # "none"
    <3>1. r \in Reasons /\ matching' = Schedule(m, window, r)
      BY <1>1, <1>3, <2>2
    <3>2. /\ matching' \in Matchings /\ matching'.armed = m.armed
          /\ matching'.reconnecting = m.reconnecting /\ matching'.post = m.post
      BY <1>2, <3>1, ScheduleIs, Zenon
    <3>3. \/ /\ ~FollowsView \/ Reconnecting \/ window.typing \/ m.cooling
                  \/ (r = "connection" /\ ~control.ready)
             /\ matching' = m
          \/ ~m.armed /\ matching'.pending = r
          \/ /\ m.armed
             /\ matching'.resize # "none" \/ ~Meaningful(window, r, control.size)
      BY <1>2, <3>1, ScheduleIs
    <3> QED BY <1>2, <2>2, <3>2, <3>3
  <2> QED BY <2>1, <2>2
<1>5. KeepsSize'
  BY <1>1, <1>4, SizeStays, Zenon
<1>6. FollowsWindow'
  <2> SUFFICES ASSUME FollowsView, ~missedSizes', ~Reconnecting
               PROVE  FollowsWindow'
    BY <1>1, <1>4 DEF FollowsWindow, FollowsView, Reconnecting, WillLook
  <2>1. ~missedSizes /\ (r # "none" => ~window.typing /\ ~matching.cooling)
    BY <1>1, Zenon DEF MatchGivesUp
  <2>2. WillLook \/ ~Meaningful(window, "resize", control.size)
    BY <2>1, InvIs DEF FollowsWindow
  <2>3. (WillLook \/ ~Meaningful(window, "resize", control.size))'
    <3>1. CASE r = "none"
      BY <1>1, <1>4, <2>2, <3>1 DEF r, WillLook, UnderWay, InFlight, Meaningful, Wanted, FollowsView, Reconnecting
    <3>2. CASE r # "none"
      <4>1. \/ ~control.ready \/ matching'.resize # "none"
            \/ ~Meaningful(window, "resize", control.size)
        BY <1>4, <2>1, <3>2, MeaningfulToo
      <4> QED BY <1>1, <4>1 DEF WillLook, Meaningful, Wanted, FollowsView
    <3> QED BY <3>1, <3>2
  <2> QED BY <1>4, <2>3 DEF FollowsWindow
<1> QED BY <1>1, <1>4, <1>5, <1>6, InvIs, InvKept

-----------------------------------------------------------------------------
(* The timers ask *)

LEMMA ModeIs ==
  ASSUME NEW size \in Sizes, NEW fps \in Rates
  PROVE  [size |-> size, fps |-> fps] \in MatchModes /\ [size |-> size, fps |-> fps].size = size
BY DEF MatchModes

\* A timer has looked, and asks or leaves it.
LEMMA AskedOrLeft ==
  ASSUME ResizeInv, NEW m \in Matchings, NEW reason,
         m.armed = matching.armed, m.arming = matching.arming,
         m.reconnecting = matching.reconnecting,
         AskOrLeave(m, reason), UNCHANGED <<window, saved, replies>>
  PROVE  ResizeInv'
<1> DEFINE mode == [size |-> Target, fps |-> saved.fps]
<1>0. mode \in MatchModes /\ mode.size = Target
  BY InvIs, ModeIs
<1>1. CASE /\ Looks(reason) /\ Request(mode)
           /\ matching' = Arm(m, FollowsView) /\ UNCHANGED missedSizes
  <2> HIDE DEF mode
  <2>1. /\ control' \in Controls /\ QueuedBehind(control') /\ requests' \in Seq(Messages)
        /\ control'.size = control.size
        /\ mode.size = control.size \/ InFlight(control')
        /\ \/ requests' = requests /\ control'.queued \in {control.queued, mode}
           \/ /\ requests' # <<>> /\ requests'[Len(requests')].size = mode.size
              /\ control'.queued = NothingSent
    BY <1>0, <1>1, RequestIs
  <2>2. matching' \in Matchings /\ matching'.reconnecting = matching.reconnecting
    BY <1>1, ArmIs
  <2>3. control.size # Target
    BY <1>1 DEF Looks, Meaningful, Target
  <2>4. InFlight(control')
    BY <1>0, <2>1, <2>3
  <2>5. FollowsWindow'
    BY <2>4 DEF FollowsWindow, WillLook, InFlight
  <2>6. KeepsSize'
    <3> SUFFICES ASSUME ~FollowsView, ~missedSizes, ~Reconnecting
                 PROVE  /\ FinalSize(control', requests', replies) = saved.size
                        /\ control'.queued # NothingSent => control'.queued.size = saved.size
      BY <1>1, <2>2, InvIs DEF KeepsSize, Reconnecting, FollowsView
    <3>1. /\ FinalSize(control, requests, replies) = saved.size
          /\ control.queued # NothingSent => control.queued.size = saved.size
      BY InvIs DEF KeepsSize
    <3>2. mode.size = saved.size
      BY <1>0, InvIs
    <3> QED BY <2>1, <3>1, <3>2 DEF FinalSize
  <2> QED BY <1>1, <2>1, <2>2, <2>5, <2>6, InvIs, InvKept
<1>2. CASE /\ ~Looks(reason)
           /\ matching' = m /\ missedSizes' = (missedSizes \/ window.typing)
           /\ UNCHANGED <<control, requests>>
  <2>1. KeepsSize'
    BY <1>2, SizeStays, Zenon
  <2>2. FollowsWindow'
    <3> SUFFICES ASSUME FollowsView, ~missedSizes' PROVE FollowsWindow'
      BY DEF FollowsWindow, FollowsView
    <3>1. ~Meaningful(window, "resize", control.size)
      BY <1>2, MeaningfulToo, Zenon DEF Looks
    <3>2. matching.armed \/ matching.arming \/ Reconnecting \/ UnderWay \/ InFlight(control)
      BY <1>2, InvIs DEF FollowsWindow
    <3> QED BY <1>2, <3>1, <3>2
            DEF FollowsWindow, Reconnecting, UnderWay, InFlight, Meaningful, Wanted, FollowsView
  <2> QED BY <1>2, <2>1, <2>2, InvIs, InvKept
<1> QED BY <1>1, <1>2 DEF AskOrLeave

LEMMA QuietSet ==
  ASSUME NEW m \in Matchings, NEW size \in Sizes
  PROVE  /\ [QuietMatching(m) EXCEPT !.reconnecting = size] \in Matchings
         /\ [QuietMatching(m) EXCEPT !.reconnecting = size].reconnecting = size
<1>1. QuietMatching(m) \in Matchings
  BY Zenon DEF QuietMatching, Matchings
<1> QED BY <1>1 DEF Matchings

LEMMA ForgottenSet ==
  ASSUME NEW c \in Controls
  PROVE  /\ [c EXCEPT !.ready = FALSE, !.asked = NothingSent, !.queued = NothingSent] \in Controls
         /\ [c EXCEPT !.ready = FALSE, !.asked = NothingSent, !.queued = NothingSent].queued = NothingSent
BY Zenon DEF Controls

LEMMA ReconnectStep ==
  ASSUME ResizeInv, NEW m \in Matchings, Reconnect(m), window' \in Windows, UNCHANGED saved
  PROVE  ResizeInv'
<1>1. /\ matching' \in Matchings /\ matching'.reconnecting = Target
      /\ control' \in Controls /\ control'.queued = NothingSent
      /\ requests' = <<>> /\ replies' = <<>> /\ missedSizes' = FALSE
  BY InvIs, QuietSet, ForgottenSet, Zenon DEF Reconnect
<1>2. Target \in Sizes /\ NoSize \notin Sizes /\ (~FollowsView => Target = saved.size)
  BY InvIs
<1>3. requests' \in Seq(Messages) /\ replies' \in Seq(Answers) /\ QueuedBehind(control')
  BY <1>1 DEF QueuedBehind
<1>4. FollowsWindow'
  BY <1>1, <1>2 DEF FollowsWindow, WillLook, Reconnecting
<1>5. KeepsSize'
  BY <1>1, <1>2 DEF KeepsSize, Reconnecting, FollowsView
<1> QED BY <1>1, <1>3, <1>4, <1>5, InvIs, InvKept, Zenon

LEMMA ResizeTimerStep == ASSUME ResizeInv, ResizeTimerFires PROVE ResizeInv'
<1> DEFINE m == [matching EXCEPT !.resize = "none"]
           r == matching.resize
           turns == Looks(r) /\ (Turned(control.size, Target) \/ (r = "fullscreen" /\ window.full))
<1>1. /\ UNCHANGED <<window, saved>>
      /\ IF turns THEN Reconnect(m) ELSE AskOrLeave(m, r) /\ UNCHANGED replies
  BY DEF ResizeTimerFires
<1>2. /\ m \in Matchings /\ m.armed = matching.armed /\ m.arming = matching.arming
      /\ m.reconnecting = matching.reconnecting
  BY InvIs, TimerSet, Zenon
<1>3. window' \in Windows
  BY <1>1, InvIs
<1> HIDE DEF m, r, turns
<1>4. CASE turns
  BY <1>1, <1>2, <1>3, <1>4, ReconnectStep
<1>5. CASE ~turns
  BY <1>1, <1>2, <1>5, AskedOrLeft
<1> QED BY <1>4, <1>5

LEMMA PostTimerStep == ASSUME ResizeInv, PostTimerFires PROVE ResizeInv'
<1> DEFINE m == [matching EXCEPT !.post = FALSE]
           r == "connection"
<1>1. UNCHANGED <<window, saved, replies>> /\ AskOrLeave(m, r)
  BY DEF PostTimerFires
<1>2. /\ m \in Matchings /\ m.armed = matching.armed /\ m.arming = matching.arming
      /\ m.reconnecting = matching.reconnecting
  BY InvIs, PostSet, Zenon
<1> HIDE DEF m, r
<1> QED BY <1>1, <1>2, AskedOrLeft

LEMMA FullscreenTimerStep == ASSUME ResizeInv, FullscreenTimerFires PROVE ResizeInv'
<1> DEFINE m == [matching EXCEPT !.fullscreen = FALSE]
<1>1. /\ UNCHANGED <<window, saved>>
      /\ IF window.full /\ Looks("fullscreen") THEN Reconnect(m)
         ELSE /\ matching' = m /\ missedSizes' = (missedSizes \/ window.typing)
              /\ UNCHANGED <<control, requests, replies>>
  BY DEF FullscreenTimerFires
<1>2. /\ m \in Matchings /\ m.armed = matching.armed /\ m.arming = matching.arming
      /\ m.pending = matching.pending /\ m.resize = matching.resize /\ m.post = matching.post
      /\ m.reconnecting = matching.reconnecting
  BY InvIs, FullscreenSet, Zenon
<1>3. window' \in Windows
  BY <1>1, InvIs
<1> HIDE DEF m
<1>4. CASE window.full /\ Looks("fullscreen")
  BY <1>1, <1>2, <1>3, <1>4, ReconnectStep
<1>5. CASE ~(window.full /\ Looks("fullscreen"))
  <2>1. /\ matching' = m /\ missedSizes' = (missedSizes \/ window.typing)
        /\ UNCHANGED <<window, saved, control, requests, replies>>
    BY <1>1, <1>5
  <2>2. KeepsSize'
    BY <1>2, <2>1, SizeStays, Zenon
  <2>3. FollowsWindow'
    <3> SUFFICES ASSUME ~missedSizes' PROVE FollowsWindow'
      BY DEF FollowsWindow
    <3>1. missedSizes' = missedSizes
      BY <2>1, InvIs, Zenon
    <3> QED BY <1>2, <2>1, <3>1, FollowStays
  <2> QED BY <1>2, <2>1, <2>2, <2>3, InvIs, InvKept
<1> QED BY <1>4, <1>5

LEMMA OtherReconnectStep == ASSUME ResizeInv, OtherReconnect PROVE ResizeInv'
<1>1. /\ window' = [window EXCEPT !.moves = @ + 1] /\ window.moves < MaxResizes
      /\ Reconnect(matching) /\ UNCHANGED saved
  BY DEF OtherReconnect, Moves
<1>2. window' \in Windows
  BY <1>1, InvIs, SwitchedWindow, Zenon
<1> QED BY <1>1, <1>2, InvIs, ReconnectStep, Zenon

LEMMA OneMessage ==
  ASSUME NEW S, NEW e \in S
  PROVE  /\ <<e>> \in Seq(S) /\ <<e>> # <<>> /\ <<e>>[Len(<<e>>)] = e
OBVIOUS

LEMMA FreshIs ==
  ASSUME NEW size \in Sizes, saved \in ResizeSettings
  PROVE  /\ Fresh(size) \in Controls /\ ~Fresh(size).ready /\ Fresh(size).queued = NothingSent
         /\ [kind |-> "StartStream", size |-> size, fps |-> saved.fps] \in Messages
BY DEF Fresh, Controls, Messages, ResizeSettings

LEMMA SizedStartStep == ASSUME ResizeInv, SizedStreamStarts PROVE ResizeInv'
<1> DEFINE n == matching.reconnecting
           e == [kind |-> "StartStream", size |-> n, fps |-> saved.fps]
<1>1. /\ Reconnecting /\ control' = Fresh(n) /\ requests' = <<e>>
      /\ matching' = [matching EXCEPT !.reconnecting = NoSize]
      /\ UNCHANGED <<window, saved, replies, missedSizes>>
  BY DEF SizedStreamStarts
<1>2. n \in Sizes
  BY <1>1, InvIs DEF Reconnecting
<1>3. e.size = n
  OBVIOUS
<1>4. matching' \in Matchings /\ matching'.reconnecting = NoSize
  BY <1>1, InvIs, Zenon DEF Matchings
<1>5. n # NoSize /\ (~FollowsView /\ ~missedSizes => n = saved.size)
  BY <1>1, InvIs DEF KeepsSize, Reconnecting
<1> HIDE DEF n
<1>6. control' \in Controls /\ ~control'.ready /\ control'.queued = NothingSent /\ e \in Messages
  BY <1>1, <1>2, InvIs, FreshIs
<1> HIDE DEF e
<1>7. requests' \in Seq(Messages) /\ requests' # <<>> /\ requests'[Len(requests')].size = n
  BY <1>1, <1>3, <1>6, OneMessage
<1>8. FollowsWindow' /\ KeepsSize' /\ QueuedBehind(control')
  <2>1. FollowsWindow'
    BY <1>6, <1>7 DEF FollowsWindow, WillLook, UnderWay
  <2>2. KeepsSize'
    BY <1>1, <1>4, <1>5, <1>6, <1>7 DEF KeepsSize, Reconnecting, FollowsView, FinalSize
  <2> QED BY <1>6, <2>1, <2>2 DEF QueuedBehind
<1> QED BY <1>1, <1>4, <1>6, <1>7, <1>8, InvIs, InvKept

-----------------------------------------------------------------------------
(* The host and the panel *)

LEMMA AnswerIs ==
  ASSUME NEW rq \in Messages
  PROVE  /\ [rq EXCEPT !.kind = IF @ = "StartStream" THEN "ConnectionComplete" ELSE "VideoReconfigured"] \in Answers
         /\ [rq EXCEPT !.kind = IF @ = "StartStream" THEN "ConnectionComplete" ELSE "VideoReconfigured"].size = rq.size
BY DEF Messages, Answers

LEMMA HostAnswersStep == ASSUME ResizeInv, HostAnswers PROVE ResizeInv'
<1> DEFINE e == [Head(requests) EXCEPT !.kind =
                   IF @ = "StartStream" THEN "ConnectionComplete" ELSE "VideoReconfigured"]
<1>1. /\ requests # <<>> /\ requests' = Tail(requests) /\ replies' = Append(replies, e)
      /\ UNCHANGED <<window, saved, matching, control, missedSizes>>
  BY DEF HostAnswers
<1>2. /\ Tail(requests) \in Seq(Messages) /\ Head(requests) \in Messages
      /\ Tail(requests) = <<>> => requests[Len(requests)] = Head(requests)
      /\ Tail(requests) # <<>> => Tail(requests)[Len(Tail(requests))] = requests[Len(requests)]
  BY <1>1, InvIs, TailLast
<1>3. e \in Answers /\ e.size = Head(requests).size
  BY <1>2, AnswerIs
<1> HIDE DEF e
<1>4. replies' \in Seq(Answers) /\ replies' # <<>> /\ replies'[Len(replies')] = e
  BY <1>1, <1>3, InvIs, AppendedLast
<1>5. FinalSize(control', requests', replies') = FinalSize(control, requests, replies)
  BY <1>1, <1>2, <1>3, <1>4 DEF FinalSize
<1>6. FollowsWindow'
  <2>1. UnderWay'
    BY <1>4 DEF UnderWay
  <2> QED BY <2>1 DEF FollowsWindow, WillLook
<1>7. KeepsSize'
  BY <1>1, <1>5, InvIs DEF KeepsSize, FollowsView, Reconnecting
<1> QED BY <1>1, <1>2, <1>4, <1>6, <1>7, InvIs, InvKept DEF QueuedBehind

LEMMA FailureSet ==
  ASSUME NEW m \in Matchings, NEW n \in 0 .. MaxFailures
  PROVE  /\ [m EXCEPT !.failures = n] \in Matchings
         /\ [m EXCEPT !.failures = n].reconnecting = m.reconnecting
BY DEF Matchings

LEMMA HostFailsStep == ASSUME ResizeInv, HostFails PROVE ResizeInv'
<1> DEFINE n == matching.failures + 1
<1>1. /\ requests # <<>> /\ requests' = Tail(requests) /\ matching.failures < MaxFailures
      /\ missedSizes' = TRUE /\ UNCHANGED <<window, saved, control, replies>>
      /\ matching' = [matching EXCEPT !.failures = n]
  BY DEF HostFails
<1>2. requests' \in Seq(Messages)
  BY <1>1, InvIs, TailLast
<1>3. n \in 0 .. MaxFailures
  BY <1>1, InvIs, MatchFields, ResizeAssumption
<1> HIDE DEF n
<1>4. matching' \in Matchings
  BY <1>1, <1>3, InvIs, FailureSet
<1>5. FollowsWindow' /\ KeepsSize'
  BY <1>1 DEF FollowsWindow, KeepsSize
<1> QED BY <1>1, <1>2, <1>4, <1>5, InvIs, InvKept

LEMMA GivenUpSet ==
  ASSUME NEW m \in Matchings
  PROVE  /\ [m EXCEPT !.cooling = TRUE, !.pending = "none"] \in Matchings
         /\ [m EXCEPT !.cooling = TRUE, !.pending = "none"].reconnecting = m.reconnecting
BY Zenon DEF Matchings

LEMMA AckTimerStep == ASSUME ResizeInv, AckTimerFires PROVE ResizeInv'
<1> DEFINE n == IF UnderWay THEN matching.failures + 1 ELSE matching.failures
           m == [matching EXCEPT !.failures = n]
<1>1. /\ InFlight(control) /\ (UnderWay => matching.failures < MaxFailures)
      /\ control' = Flushed(control) /\ requests' = Sent(MatchSettled(control), control')
      /\ missedSizes' = (missedSizes \/ ~InFlight(control')) /\ UNCHANGED <<window, saved, replies>>
  BY DEF AckTimerFires
<1>2. matching' = IF control.queued = NothingSent
                  THEN [m EXCEPT !.cooling = TRUE, !.pending = "none"] ELSE m
  <2>1. [matching EXCEPT !.failures = IF UnderWay THEN @ + 1 ELSE @] = m
    OBVIOUS
  <2> HIDE DEF m
  <2> QED BY <2>1, Zenon DEF AckTimerFires
<1>3. n \in 0 .. MaxFailures
  BY <1>1, InvIs, MatchFields, ResizeAssumption
<1> HIDE DEF n
<1>4. m \in Matchings /\ m.reconnecting = matching.reconnecting
  BY <1>3, InvIs, FailureSet
<1> HIDE DEF m
<1>5. matching' \in Matchings /\ matching'.reconnecting = matching.reconnecting
  BY <1>2, <1>4, GivenUpSet, Zenon
<1>6. /\ control' \in Controls /\ control'.size = control.size /\ control'.queued = NothingSent
      /\ requests' \in Seq(Messages)
      /\ \/ /\ InFlight(control') /\ control.queued # NothingSent
            /\ requests' # <<>> /\ requests'[Len(requests')].size = control.queued.size
         \/ ~InFlight(control')
  BY <1>1, InvIs, FlushedIs
<1>7. FollowsWindow'
  <2> SUFFICES ASSUME ~missedSizes' PROVE FollowsWindow'
    BY DEF FollowsWindow
  <2>1. InFlight(control')
    BY <1>1, Zenon
  <2> QED BY <2>1 DEF FollowsWindow, WillLook, InFlight
<1>8. KeepsSize'
  <2> SUFFICES ASSUME ~FollowsView, ~missedSizes' PROVE KeepsSize'
    BY <1>1 DEF KeepsSize, FollowsView
  <2>1. CASE Reconnecting
    BY <1>1, <1>5, <2>1, InvIs DEF KeepsSize, Reconnecting
  <2>2. CASE ~Reconnecting
    <3>1. InFlight(control')
      BY <1>1, Zenon
    <3>2. control.queued.size = saved.size
      BY <1>1, <1>6, <2>2, <3>1, InvIs DEF KeepsSize
    <3>3. requests' # <<>> /\ requests'[Len(requests')].size = saved.size
      BY <1>6, <3>1, <3>2
    <3> QED BY <1>1, <1>5, <1>6, <2>2, <3>3 DEF KeepsSize, Reconnecting, FinalSize
  <2> QED BY <2>1, <2>2
<1> QED BY <1>1, <1>5, <1>6, <1>7, <1>8, InvIs, InvKept DEF QueuedBehind

LEMMA ShownSet ==
  ASSUME NEW c \in Controls, NEW size \in Sizes
  PROVE  /\ [c EXCEPT !.size = size] \in Controls
         /\ [c EXCEPT !.size = size].size = size
         /\ [c EXCEPT !.size = size].ready = c.ready
         /\ [c EXCEPT !.size = size].asked = c.asked
         /\ [c EXCEPT !.size = size].queued = c.queued
         /\ [c EXCEPT !.size = size, !.ready = TRUE] \in Controls
         /\ [c EXCEPT !.size = size, !.ready = TRUE].size = size
         /\ [c EXCEPT !.size = size, !.ready = TRUE].asked = c.asked
         /\ [c EXCEPT !.size = size, !.ready = TRUE].queued = c.queued
BY Zenon DEF Controls

\* The first answer is the last one, or leaves the last one where it is.
LEMMA AnswerTaken ==
  ASSUME ResizeInv, replies # <<>>
  PROVE  /\ Head(replies) \in Answers /\ Head(replies).size \in Sizes /\ Tail(replies) \in Seq(Answers)
         /\ Tail(replies) = <<>> => replies[Len(replies)].size = Head(replies).size
         /\ Tail(replies) # <<>> => Tail(replies)[Len(Tail(replies))] = replies[Len(replies)]
<1>1. /\ Tail(replies) \in Seq(Answers) /\ Head(replies) \in Answers
      /\ Tail(replies) = <<>> => replies[Len(replies)] = Head(replies)
      /\ Tail(replies) # <<>> => Tail(replies)[Len(Tail(replies))] = replies[Len(replies)]
  BY InvIs, TailLast
<1> QED BY <1>1 DEF Answers

LEMMA ReconfiguredStep == ASSUME ResizeInv, Reconfigured PROVE ResizeInv'
<1> DEFINE z == Head(replies).size
           s == [control EXCEPT !.size = z]
           m == IF control.ready THEN QueueSync(matching, z) ELSE matching
<1>1. /\ replies # <<>> /\ ~Reconnecting /\ replies' = Tail(replies)
      /\ UNCHANGED <<window, saved, missedSizes>>
  BY DEF Reconfigured, Answered
<1>2. /\ z \in Sizes /\ Tail(replies) \in Seq(Answers)
      /\ Tail(replies) = <<>> => replies[Len(replies)].size = z
      /\ Tail(replies) # <<>> => Tail(replies)[Len(Tail(replies))] = replies[Len(replies)]
  BY <1>1, AnswerTaken
<1>3. /\ s \in Controls /\ s.size = z /\ s.ready = control.ready
      /\ s.asked = control.asked /\ s.queued = control.queued
  BY <1>2, InvIs, ShownSet, Zenon
<1>4. /\ control' = Flushed(s) /\ requests' = Sent(MatchSettled(s), control')
      /\ matching' = Arm(m, FollowsView)
  <2>1. Reconfigured => /\ control' = Flushed(s) /\ requests' = Sent(MatchSettled(s), control')
                        /\ matching' = Arm(IF control.ready THEN QueueSync(matching, s.size) ELSE matching, FollowsView)
    BY DEF Reconfigured
  <2> QED BY <1>3, <2>1
<1> HIDE DEF z, s
<1>5. QueuedBehind(s)
  BY <1>3, InvIs DEF QueuedBehind, InFlight
<1>6. /\ control' \in Controls /\ control'.size = z /\ control'.ready = control.ready
      /\ control'.queued = NothingSent /\ requests' \in Seq(Messages)
      /\ \/ /\ InFlight(control') /\ control.queued # NothingSent
            /\ requests' # <<>> /\ requests'[Len(requests')].size = control.queued.size
         \/ /\ requests' = requests
            /\ control.queued = NothingSent \/ control.queued.size = z
  BY <1>3, <1>4, <1>5, InvIs, FlushedIs
<1>7. /\ m \in Matchings /\ m.reconnecting = matching.reconnecting
      /\ FollowsView /\ Meaningful(window, "connection", z) /\ control.ready => m.pending # "none"
  <2>1. CASE control.ready
    BY <2>1, InvIs, QueueSyncIs
  <2>2. CASE ~control.ready
    BY <2>2, InvIs
  <2> QED BY <2>1, <2>2
<1> HIDE DEF m
<1>8. /\ matching' \in Matchings /\ matching'.reconnecting = matching.reconnecting
      /\ FollowsView => matching'.arming /\ matching'.pending = m.pending
  BY <1>4, <1>7, ArmIs
<1>9. FollowsWindow'
  <2> SUFFICES ASSUME FollowsView PROVE FollowsWindow'
    BY <1>1 DEF FollowsWindow, FollowsView
  <2>1. ~control.ready \/ matching'.pending # "none" \/ ~Meaningful(window, "resize", z)
    BY <1>7, <1>8, MeaningfulToo
  <2>2. (WillLook \/ ~Meaningful(window, "resize", control.size))'
    BY <1>1, <1>6, <1>8, <2>1 DEF WillLook, Meaningful, Wanted, FollowsView
  <2> QED BY <1>8, <2>2 DEF FollowsWindow
<1>10. KeepsSize'
  <2> SUFFICES ASSUME ~FollowsView, ~missedSizes
               PROVE  FinalSize(control', requests', replies') = saved.size
    BY <1>1, <1>6, <1>8 DEF KeepsSize, FollowsView, Reconnecting
  <2>1. /\ FinalSize(control, requests, replies) = saved.size
        /\ control.queued # NothingSent => control.queued.size = saved.size
    BY <1>1, InvIs DEF KeepsSize
  <2>2. CASE requests' # <<>> /\ control.queued # NothingSent
             /\ requests'[Len(requests')].size = control.queued.size
    BY <2>1, <2>2 DEF FinalSize
  <2>3. CASE requests' = requests /\ (control.queued = NothingSent \/ control.queued.size = z)
    BY <1>1, <1>2, <1>6, <2>1, <2>3 DEF FinalSize
  <2> QED BY <1>6, <2>2, <2>3
<1> QED BY <1>1, <1>2, <1>6, <1>8, <1>9, <1>10, InvIs, InvKept DEF QueuedBehind

LEMMA CompletedSet ==
  ASSUME NEW m \in Matchings, NEW b \in BOOLEAN
  PROVE  /\ [m EXCEPT !.pending = "none", !.post = b] \in Matchings
         /\ [m EXCEPT !.pending = "none", !.post = b].reconnecting = m.reconnecting
BY Zenon DEF Matchings

LEMMA CompletedStep == ASSUME ResizeInv, Completed PROVE ResizeInv'
<1> DEFINE z == Head(replies).size
           shift == FollowsView /\ Meaningful(window, "connection", z)
           m == [matching EXCEPT !.pending = "none", !.post = shift]
           q == QueueSync(m, z)
<1>1. /\ replies # <<>> /\ ~Reconnecting /\ replies' = Tail(replies)
      /\ UNCHANGED <<window, saved, requests, missedSizes>>
      /\ control' = [control EXCEPT !.size = z, !.ready = TRUE]
  BY DEF Completed, Answered
<1>2. /\ z \in Sizes /\ Tail(replies) \in Seq(Answers)
      /\ Tail(replies) = <<>> => replies[Len(replies)].size = z
      /\ Tail(replies) # <<>> => Tail(replies)[Len(Tail(replies))] = replies[Len(replies)]
  BY <1>1, AnswerTaken
<1>3. matching' = Arm(q, FollowsView)
  BY Zenon DEF Completed
<1>4. shift \in BOOLEAN
  OBVIOUS
<1> HIDE DEF shift
<1>5. m \in Matchings /\ m.reconnecting = matching.reconnecting
  BY <1>4, InvIs, CompletedSet, Zenon
<1> HIDE DEF m
<1>6. /\ q \in Matchings /\ q.reconnecting = matching.reconnecting
      /\ FollowsView /\ Meaningful(window, "connection", z) => q.pending # "none"
  BY <1>5, QueueSyncIs
<1> HIDE DEF q, z
<1>7. /\ control' \in Controls /\ control'.size = z /\ control'.asked = control.asked
      /\ control'.queued = control.queued
  BY <1>1, <1>2, InvIs, ShownSet, Zenon
<1>8. /\ matching' \in Matchings /\ matching'.reconnecting = matching.reconnecting
      /\ FollowsView => matching'.arming /\ matching'.pending = q.pending
  BY <1>3, <1>6, ArmIs
<1>9. FollowsWindow'
  <2> SUFFICES ASSUME FollowsView PROVE FollowsWindow'
    BY <1>1 DEF FollowsWindow, FollowsView
  <2>1. matching'.pending # "none" \/ ~Meaningful(window, "resize", z)
    BY <1>6, <1>8, MeaningfulToo
  <2>2. (WillLook \/ ~Meaningful(window, "resize", control.size))'
    BY <1>1, <1>7, <1>8, <2>1 DEF WillLook, Meaningful, Wanted, FollowsView
  <2> QED BY <1>8, <2>2 DEF FollowsWindow
<1>10. KeepsSize'
  <2> SUFFICES ASSUME ~FollowsView, ~missedSizes
               PROVE  /\ FinalSize(control', requests, replies') = saved.size
                      /\ control.queued # NothingSent => control.queued.size = saved.size
    BY <1>1, <1>7, <1>8 DEF KeepsSize, FollowsView, Reconnecting
  <2>1. /\ FinalSize(control, requests, replies) = saved.size
        /\ control.queued # NothingSent => control.queued.size = saved.size
    BY <1>1, InvIs DEF KeepsSize
  <2> QED BY <1>1, <1>2, <1>7, <2>1 DEF FinalSize
<1> QED BY <1>1, <1>2, <1>7, <1>8, <1>9, <1>10, InvIs, InvKept DEF QueuedBehind, InFlight

LEMMA RouteStep == ASSUME ResizeInv, RouteFound PROVE ResizeInv'
<1> DEFINE z == control.size
           q == QueueSync(matching, z)
<1>1. matching' = Arm(q, FollowsView) /\ UNCHANGED <<window, saved, control, requests, replies, missedSizes>>
  BY DEF RouteFound
<1>2. /\ q \in Matchings /\ q.reconnecting = matching.reconnecting
      /\ FollowsView /\ Meaningful(window, "connection", z) => q.pending # "none"
  BY InvIs, QueueSyncIs
<1> HIDE DEF q
<1>3. /\ matching' \in Matchings /\ matching'.reconnecting = matching.reconnecting
      /\ FollowsView => matching'.arming /\ matching'.pending = q.pending
  BY <1>1, <1>2, ArmIs
<1>4. FollowsWindow'
  <2> SUFFICES ASSUME FollowsView PROVE FollowsWindow'
    BY <1>1 DEF FollowsWindow, FollowsView
  <2>1. matching'.pending # "none" \/ ~Meaningful(window, "resize", z)
    BY <1>2, <1>3, MeaningfulToo
  <2>2. (WillLook \/ ~Meaningful(window, "resize", control.size))'
    BY <1>1, <1>3, <2>1 DEF WillLook, Meaningful, Wanted, FollowsView
  <2> QED BY <1>3, <2>2 DEF FollowsWindow
<1>5. KeepsSize'
  BY <1>1, <1>3, SizeStays
<1> QED BY <1>1, <1>3, <1>4, <1>5, InvIs, InvKept

LEMMA SettingIs ==
  ASSUME NEW size \in Sizes \cup {Device}, NEW fps \in Rates
  PROVE  [size |-> size, fps |-> fps] \in ResizeSettings /\ [size |-> size, fps |-> fps].size = size
BY DEF ResizeSettings

LEMMA RestartSet ==
  ASSUME NEW c \in Controls, NEW fps \in Rates
  PROVE  /\ [MatchSettled(c) EXCEPT !.ready = FALSE, !.sent = fps] \in Controls
         /\ [MatchSettled(c) EXCEPT !.ready = FALSE, !.sent = fps].size = c.size
         /\ ~[MatchSettled(c) EXCEPT !.ready = FALSE, !.sent = fps].ready
         /\ [MatchSettled(c) EXCEPT !.ready = FALSE, !.sent = fps].queued = NothingSent
BY Zenon DEF MatchSettled, Controls

LEMMA RestartIs ==
  ASSUME ResizeInv, NEW fps \in Rates, Restart(fps)
  PROVE  /\ control' \in Controls /\ control'.size = control.size /\ ~control'.ready
         /\ control'.queued = NothingSent
         /\ requests' \in Seq(Messages) /\ requests' # <<>> /\ requests'[Len(requests')].size = control.size
<1> DEFINE e == [kind |-> "StartStream", size |-> control.size, fps |-> fps]
<1>1. requests' = Append(requests, e)
  BY DEF Restart
<1>2. e \in Messages /\ e.size = control.size
  BY InvIs DEF Messages
<1> HIDE DEF e
<1>3. requests' \in Seq(Messages) /\ requests' # <<>> /\ requests'[Len(requests')] = e
  BY <1>1, <1>2, InvIs, AppendedLast
<1>4. /\ control' \in Controls /\ control'.size = control.size /\ ~control'.ready
      /\ control'.queued = NothingSent
  BY InvIs, RestartSet, Zenon DEF Restart
<1> QED BY <1>2, <1>3, <1>4

\* The panel asks for a size, and the stream stays.
LEMMA AppliedAsking ==
  ASSUME ResizeInv, NEW size \in Sizes \cup {Device}, NEW mode \in MatchModes,
         mode.size = IF size = Device THEN window.size ELSE size, Request(mode),
         ~Reconnecting, window' \in Windows, window'.size = window.size, window'.full = window.full,
         saved' \in ResizeSettings, saved'.size = size, UNCHANGED <<matching, replies>>,
         missedSizes' = (missedSizes \/ Overlaps(size, FALSE))
  PROVE  ResizeInv'
<1>1. /\ control' \in Controls /\ QueuedBehind(control') /\ requests' \in Seq(Messages)
      /\ control'.size = control.size /\ control'.ready = control.ready
      /\ InFlight(control) => InFlight(control')
      /\ \/ requests' = requests /\ control'.queued \in {control.queued, mode}
         \/ /\ requests' # <<>> /\ requests'[Len(requests')].size = mode.size
            /\ control'.queued = NothingSent
  BY RequestIs
<1>2. FollowsWindow'
  <2> SUFFICES ASSUME size = Device, ~missedSizes' PROVE FollowsWindow'
    BY DEF FollowsWindow, FollowsView
  <2>1. CASE size = saved.size
    <3>1. /\ WillLook \/ ~Meaningful(window, "resize", control.size)
          /\ matching.armed \/ matching.arming \/ Reconnecting \/ UnderWay \/ InFlight(control)
      BY <2>1, InvIs, Zenon DEF FollowsWindow, FollowsView
    <3>2. UnderWay => UnderWay'
      BY <1>1 DEF UnderWay
    <3>3. Meaningful(window, "resize", control.size)' => Meaningful(window, "resize", control.size)
      BY <1>1, <2>1 DEF Meaningful, Wanted, FollowsView
    <3>4. (WillLook \/ ~Meaningful(window, "resize", control.size))'
      BY <1>1, <3>1, <3>2, <3>3 DEF WillLook, InFlight, Reconnecting
    <3>5. (matching.armed \/ matching.arming \/ Reconnecting \/ UnderWay \/ InFlight(control))'
      BY <1>1, <3>1, <3>2 DEF InFlight, Reconnecting
    <3> QED BY <3>4, <3>5 DEF FollowsWindow
  <2>2. CASE size # saved.size
    <3>1. requests' # requests
      BY <2>2, Zenon DEF Overlaps
    <3>2. UnderWay'
      BY <1>1, <3>1 DEF UnderWay
    <3> QED BY <3>2 DEF FollowsWindow, WillLook
  <2> QED BY <2>1, <2>2
<1>3. KeepsSize'
  <2> SUFFICES ASSUME size # Device, ~missedSizes'
               PROVE  /\ FinalSize(control', requests', replies) = size
                      /\ control'.queued # NothingSent => control'.queued.size = size
    BY DEF KeepsSize, FollowsView, Reconnecting
  <2>1. CASE requests' = requests /\ control'.queued \in {control.queued, mode}
    <3>1. size = saved.size /\ ~FollowsView /\ ~missedSizes
      BY <2>1, Zenon DEF Overlaps, FollowsView
    <3>2. /\ FinalSize(control, requests, replies) = size
          /\ control.queued # NothingSent => control.queued.size = size
      BY <3>1, InvIs DEF KeepsSize
    <3> QED BY <1>1, <2>1, <3>2 DEF FinalSize
  <2>2. CASE /\ requests' # <<>> /\ requests'[Len(requests')].size = mode.size
             /\ control'.queued = NothingSent
    BY <2>2 DEF FinalSize
  <2> QED BY <1>1, <2>1, <2>2
<1>4. missedSizes' \in BOOLEAN
  BY InvIs DEF Overlaps
<1> QED BY <1>1, <1>2, <1>3, <1>4, InvIs, InvKept

\* The panel begins the stream again.
LEMMA AppliedRestarting ==
  ASSUME ResizeInv, NEW size \in Sizes \cup {Device}, NEW fps \in Rates, Restart(fps),
         ~Reconnecting, window' \in Windows, saved' \in ResizeSettings, saved'.size = size,
         UNCHANGED <<matching, replies>>, missedSizes' = (missedSizes \/ Overlaps(size, TRUE))
  PROVE  ResizeInv'
<1>1. /\ control' \in Controls /\ control'.size = control.size /\ ~control'.ready
      /\ control'.queued = NothingSent
      /\ requests' \in Seq(Messages) /\ requests' # <<>> /\ requests'[Len(requests')].size = control.size
  BY RestartIs
<1>2. FollowsWindow'
  <2>1. UnderWay'
    BY <1>1 DEF UnderWay
  <2> QED BY <2>1 DEF FollowsWindow, WillLook
<1>3. KeepsSize'
  <2> SUFFICES ASSUME size # Device, ~missedSizes'
               PROVE  FinalSize(control', requests', replies) = size
    BY <1>1 DEF KeepsSize, FollowsView, Reconnecting
  <2>1. size = saved.size /\ ~UnderWay /\ ~missedSizes /\ ~FollowsView
    BY Zenon DEF Overlaps, FollowsView
  <2>2. FinalSize(control, requests, replies) = size
    BY <2>1, InvIs DEF KeepsSize
  <2>3. control.size = size
    BY <2>1, <2>2 DEF FinalSize, UnderWay
  <2> QED BY <1>1, <2>3 DEF FinalSize
<1>4. missedSizes' \in BOOLEAN
  BY InvIs DEF Overlaps
<1> QED BY <1>1, <1>2, <1>3, <1>4, InvIs, InvKept DEF QueuedBehind

LEMMA ApplySizeStep ==
  ASSUME ResizeInv, NEW size \in Sizes \cup {Device}, NEW fps \in Rates, NEW more \in BOOLEAN,
         ApplySize(size, fps, more)
  PROVE  ResizeInv'
<1> DEFINE z == IF size = Device THEN window.size ELSE size
           mode == [size |-> z, fps |-> fps]
<1>1. /\ window' = [window EXCEPT !.moves = @ + 1] /\ window.moves < MaxResizes /\ ~Reconnecting
      /\ saved' = [size |-> size, fps |-> fps]
      /\ IF more THEN Restart(fps) ELSE Request(mode)
      /\ missedSizes' = (missedSizes \/ Overlaps(size, more)) /\ UNCHANGED <<matching, replies>>
  BY DEF ApplySize, Moves, Ready
<1>2. z \in Sizes
  BY InvIs
<1> HIDE DEF z
<1>3. mode \in MatchModes /\ mode.size = z
  BY <1>2, ModeIs
<1> HIDE DEF mode
<1>4. window' \in Windows /\ window'.size = window.size /\ window'.full = window.full
  BY <1>1, InvIs, SwitchedWindow, Zenon DEF Windows
<1>5. saved' \in ResizeSettings /\ saved'.size = size
  BY <1>1, SettingIs
<1>6. CASE more
  <2>1. Restart(fps) /\ more = TRUE
    BY <1>1, <1>6
  <2> QED BY <1>1, <1>4, <1>5, <2>1, AppliedRestarting, Zenon
<1>7. CASE ~more
  <2>1. Request(mode) /\ more = FALSE /\ mode.size = IF size = Device THEN window.size ELSE size
    BY <1>1, <1>3, <1>7 DEF z
  <2> QED BY <1>1, <1>3, <1>4, <1>5, <2>1, AppliedAsking, Zenon
<1> QED BY <1>6, <1>7

LEMMA ResizeStarts == ASSUME ResizeInit PROVE ResizeInv
<1> DEFINE n == window.size
           e == [kind |-> "StartStream", size |-> n, fps |-> saved.fps]
<1>1. /\ window \in [size : Sizes, full : {FALSE}, typing : {FALSE}, moves : {0}]
      /\ saved \in [size : {Device}, fps : Rates]
      /\ control = Fresh(n) /\ requests = <<e>> /\ replies = <<>> /\ missedSizes = FALSE
      /\ matching = [armed |-> FALSE, arming |-> FALSE, pending |-> "none", resize |-> "none",
                     post |-> FALSE, fullscreen |-> FALSE, settling |-> FALSE,
                     cooling |-> FALSE, reconnecting |-> NoSize, failures |-> 0]
  BY Zenon DEF ResizeInit
<1>2. window \in Windows /\ saved \in ResizeSettings /\ n \in Sizes
  <2>1. 0 \in 0 .. MaxResizes
    BY ResizeAssumption
  <2>2. window \in Windows /\ n \in Sizes
    BY <1>1, <2>1, Zenon DEF Windows
  <2>3. saved \in ResizeSettings
    BY <1>1 DEF ResizeSettings
  <2> QED BY <2>2, <2>3
<1>3. matching \in Matchings
  <2>1. 0 \in 0 .. MaxFailures
    BY ResizeAssumption
  <2> QED BY <1>1, <2>1 DEF Matchings
<1> HIDE DEF n
<1>4. control \in Controls /\ ~control.ready /\ control.queued = NothingSent /\ e \in Messages
  BY <1>1, <1>2, FreshIs
<1> HIDE DEF e
<1>5. requests \in Seq(Messages) /\ requests # <<>> /\ replies \in Seq(Answers)
  BY <1>1, <1>4, OneMessage
<1>6. FollowsView
  BY <1>1 DEF FollowsView
<1>7. FollowsWindow
  BY <1>5 DEF FollowsWindow, WillLook, UnderWay
<1> QED BY <1>1, <1>2, <1>3, <1>4, <1>5, <1>6, <1>7, ResizeTypes, Zenon DEF ResizeInv, QueuedBehind, KeepsSize

LEMMA ResizeInvUnchanged == ASSUME ResizeInv, UNCHANGED resizeVars PROVE ResizeInv'
<1>1. /\ UNCHANGED <<window, saved, matching, control, requests, replies, missedSizes>>
      /\ matching'.reconnecting = matching.reconnecting
      /\ matching'.armed = matching.armed /\ matching'.arming = matching.arming
      /\ matching'.pending = matching.pending /\ matching'.resize = matching.resize
      /\ matching'.post = matching.post
      /\ window'.size = window.size /\ window'.full = window.full
  BY DEF resizeVars
<1>2. FollowsWindow' /\ KeepsSize'
  BY <1>1, FollowStays, SizeStays
<1> QED BY <1>1, <1>2, InvIs, InvKept

LEMMA ResizeSteps == ASSUME ResizeInv, ResizeNext PROVE ResizeInv'
<1>1. ASSUME NEW size \in Sizes, ViewportChanges(size) PROVE ResizeInv'
  BY <1>1, ViewportStep
<1>2. ASSUME NEW size \in Sizes \cup {Device}, NEW fps \in Rates, NEW more \in BOOLEAN,
             ApplySize(size, fps, more)
      PROVE  ResizeInv'
  BY <1>2, ApplySizeStep
<1> QED BY <1>1, <1>2, FullscreenStep, SettleStep, KeyboardStep, ArmTimerStep, ResizeTimerStep,
           FullscreenTimerStep, PostTimerStep, OtherReconnectStep, SizedStartStep, HostAnswersStep,
           HostFailsStep, AckTimerStep, CooldownStep, ReconfiguredStep, CompletedStep, RouteStep
        DEF ResizeNext

\* A quiet page that follows the window has nothing left that would look at its
\* size; one with a size of its own has it.
LEMMA ResizeInvFollows == ASSUME ResizeInv PROVE SizeFollows
<1>1. control.queued # NothingSent => InFlight(control)
  BY InvIs DEF QueuedBehind
<1>2. ASSUME StreamQuiet, ~missedSizes PROVE ~Meaningful(window, "resize", control.size)
  <2>1. CASE FollowsView
    BY <1>2, <2>1, InvIs DEF FollowsWindow, WillLook, StreamQuiet, Ready, UnderWay
  <2>2. CASE ~FollowsView
    <3>1. control.size = saved.size
      BY <1>2, <2>2, InvIs DEF KeepsSize, StreamQuiet, Ready, FinalSize
    <3> QED BY <2>2, <3>1 DEF Meaningful, Wanted
  <2> QED BY <2>1, <2>2
<1> QED BY <1>1, <1>2 DEF SizeFollows

-----------------------------------------------------------------------------
(* The microphone *)

Closes == [peer : 0 .. MaxCalls, ws : 0 .. MaxCalls, open : BOOLEAN]
Clients ==
  [serial : Nat, expected : BOOLEAN, enabled : BOOLEAN, connecting : BOOLEAN,
   local : 0 .. MaxCalls, ws : 0 .. MaxCalls, peer : 0 .. MaxCalls, held : BOOLEAN,
   destroy : Closes]
Calls ==
  [of : 0 .. MaxCalls, at : Waiting \cup {"unmade", "done"}, sid : Nat,
   track : {"none", "live", "ended"}, sock : {"none", "opening", "open", "closed"},
   conn : {"none", "open", "closed"}, close : Closes]
MicPages ==
  [client : 0 .. MaxCalls, wanted : BOOLEAN, panel : BOOLEAN, timer : BOOLEAN,
   asking : 0 .. MaxCalls, sent : BOOLEAN, shown : BOOLEAN, gone : BOOLEAN,
   strays : SUBSET Call]

\* A call is made for a client, and before that it has neither track nor socket.
MadeOK(cs) ==
  \A d \in Call :
    /\ cs[d].at = "unmade" => cs[d].track # "live" /\ cs[d].sock # "open"
    /\ cs[d].at # "unmade" => cs[d].of \in Call

\* The client is being closed, by the page or by one of its calls.
Closing(k, ss, cs) ==
  \/ ss[k].destroy.open
  \/ \E e \in Call : cs[e].of = k /\ cs[e].at \in {"closing", "quitting"}

\* A live track is its client's; the client is the page's or is being thrown
\* away; and once the call has its peer the client has one too, unless a close
\* under way is about to stop the track.
MicKept(p, ss, cs, d) ==
  /\ ss[cs[d].of].local = d
  /\ cs[d].of = p.client \/ ss[cs[d].of].destroy.open
  /\ cs[d].at \in {"signal", "offer", "quitting", "done"}
  /\ cs[d].at \in {"offer", "done"} => ss[cs[d].of].peer # NoCall \/ Closing(cs[d].of, ss, cs)
KeptOK(p, ss, cs) ==
  \A d \in Call : cs[d].track = "live" /\ d \notin p.strays => MicKept(p, ss, cs, d)

MicTyped(p, ss, cs) == p \in MicPages /\ ss \in [Call -> Clients] /\ cs \in [Call -> Calls]
MicOK(p, ss, cs) == MicTyped(p, ss, cs) /\ MadeOK(cs) /\ KeptOK(p, ss, cs)
MicInv == MicOK(mic, client, call)

LEMMA CallRange == Call \subseteq 0 .. MaxCalls /\ NoCall \in 0 .. MaxCalls /\ NoCall \notin Call
                   /\ 0 .. MaxCalls = Call \cup {NoCall}
BY MicAssumption DEF Call, NoCall

LEMMA ClientFields ==
  ASSUME NEW s \in Clients
  PROVE  /\ s.serial \in Nat /\ s.expected \in BOOLEAN /\ s.enabled \in BOOLEAN
         /\ s.connecting \in BOOLEAN /\ s.local \in 0 .. MaxCalls /\ s.ws \in 0 .. MaxCalls
         /\ s.peer \in 0 .. MaxCalls /\ s.held \in BOOLEAN /\ s.destroy \in Closes
BY DEF Clients

LEMMA CallFields ==
  ASSUME NEW c \in Calls
  PROVE  /\ c.of \in 0 .. MaxCalls /\ c.at \in Waiting \cup {"unmade", "done"} /\ c.sid \in Nat
         /\ c.track \in {"none", "live", "ended"} /\ c.sock \in {"none", "opening", "open", "closed"}
         /\ c.conn \in {"none", "open", "closed"} /\ c.close \in Closes
BY DEF Calls

LEMMA MicPageFields ==
  ASSUME NEW p \in MicPages
  PROVE  /\ p.client \in 0 .. MaxCalls /\ p.asking \in 0 .. MaxCalls /\ p.strays \in SUBSET Call
         /\ p.panel \in BOOLEAN /\ p.shown \in BOOLEAN
BY DEF MicPages

\* What a step of client k leaves alone.
Elsewhere(k, p, ss, cs, p2, ss2, cs2) ==
  /\ KeptOK(p, ss, cs) /\ MadeOK(cs2) /\ p.strays \subseteq p2.strays
  /\ p2.client = p.client \/ p.client = k \/ p.client = NoCall
  /\ \A j \in Call \ {k} : ss2[j] = ss[j]
  /\ \A d \in Call : cs2[d].of # k =>
       /\ cs2[d].of = cs[d].of /\ cs2[d].at = cs[d].at
       /\ cs2[d].track = "live" => cs[d].track = "live"
  /\ \A d \in Call : cs[d].of # k /\ cs[d].at # "unmade" =>
       cs2[d].of = cs[d].of /\ cs2[d].at = cs[d].at

\* A step of one client leaves the tracks of the others as they are.
LEMMA KeptOn ==
  ASSUME NEW p, NEW ss, NEW cs, NEW p2, NEW ss2, NEW cs2, NEW k,
         Elsewhere(k, p, ss, cs, p2, ss2, cs2),
         \A d \in Call : cs2[d].track = "live" /\ d \notin p2.strays /\ cs2[d].of = k =>
            MicKept(p2, ss2, cs2, d)
  PROVE  KeptOK(p2, ss2, cs2)
<1> SUFFICES ASSUME NEW d \in Call, cs2[d].track = "live", d \notin p2.strays, cs2[d].of # k
             PROVE  MicKept(p2, ss2, cs2, d)
  BY DEF KeptOK
<1>1. cs2[d].of = cs[d].of /\ cs2[d].at = cs[d].at /\ cs[d].track = "live" /\ d \notin p.strays
  BY DEF Elsewhere
<1>2. MicKept(p, ss, cs, d)
  BY <1>1 DEF KeptOK, Elsewhere
<1>3. cs2[d].of \in Call
  BY <1>1, <1>2 DEF MadeOK, MicKept, Elsewhere
<1>4. ss2[cs2[d].of] = ss[cs[d].of]
  BY <1>1, <1>3 DEF Elsewhere
<1>5. cs[d].of # NoCall
  BY <1>1, <1>3, CallRange
<1>6. Closing(cs[d].of, ss, cs) => Closing(cs2[d].of, ss2, cs2)
  <2> SUFFICES ASSUME NEW e \in Call, cs[e].of = cs[d].of, cs[e].at \in {"closing", "quitting"}
               PROVE  cs2[e].of = cs[d].of /\ cs2[e].at \in {"closing", "quitting"}
    BY <1>1, <1>4 DEF Closing
  <2> QED BY <1>1 DEF Elsewhere
<1> QED BY <1>1, <1>2, <1>4, <1>5, <1>6 DEF MicKept, Elsewhere

\* The client's own track has ended.
LEMMA KeptEnds ==
  ASSUME NEW p, NEW ss, NEW cs, NEW p2, NEW ss2, NEW cs2, NEW k \in Call,
         Elsewhere(k, p, ss, cs, p2, ss2, cs2),
         \A d \in Call : cs2[d].of = k /\ cs2[d].track = "live" =>
            cs[d].of = k /\ cs[d].track = "live" /\ d # ss[k].local
  PROVE  KeptOK(p2, ss2, cs2)
<1>1. ASSUME NEW d \in Call, cs2[d].track = "live", d \notin p2.strays, cs2[d].of = k
      PROVE  FALSE
  <2>1. cs[d].of = k /\ cs[d].track = "live" /\ d # ss[k].local /\ d \notin p.strays
    BY <1>1 DEF Elsewhere
  <2> QED BY <2>1 DEF KeptOK, MicKept, Elsewhere
<1>2. \A d \in Call : cs2[d].track = "live" /\ d \notin p2.strays /\ cs2[d].of = k =>
            MicKept(p2, ss2, cs2, d)
  BY <1>1
<1> QED BY <1>2, KeptOn

\* A close of the client is under way.
LEMMA KeptCloses ==
  ASSUME NEW p, NEW ss, NEW cs, NEW p2, NEW ss2, NEW cs2, NEW k \in Call,
         Elsewhere(k, p, ss, cs, p2, ss2, cs2),
         ss2[k].local = ss[k].local, Closing(k, ss2, cs2),
         ss2[k].destroy.open \/ (ss[k].destroy = ss2[k].destroy /\ (p.client = k => p2.client = k)),
         \A d \in Call : cs2[d].of = k /\ cs2[d].track = "live" =>
            /\ cs[d].of = k /\ cs[d].track = "live"
            /\ cs2[d].at = cs[d].at \/ cs2[d].at = "quitting"
  PROVE  KeptOK(p2, ss2, cs2)
<1>1. ASSUME NEW d \in Call, cs2[d].track = "live", d \notin p2.strays, cs2[d].of = k
      PROVE  MicKept(p2, ss2, cs2, d)
  <2>1. cs[d].of = k /\ cs[d].track = "live" /\ d \notin p.strays
    BY <1>1 DEF Elsewhere
  <2>2. MicKept(p, ss, cs, d)
    BY <2>1 DEF KeptOK, Elsewhere
  <2>3. cs2[d].at \in {"signal", "offer", "quitting", "done"}
    BY <1>1, <2>2 DEF MicKept
  <2>4. ss2[k].local = d
    BY <2>1, <2>2 DEF MicKept
  <2>5. k = p2.client \/ ss2[k].destroy.open
    BY <2>1, <2>2 DEF MicKept
  <2> QED BY <1>1, <2>3, <2>4, <2>5 DEF MicKept
<1> QED BY <1>1, KeptOn

-----------------------------------------------------------------------------
(* What the page sees changes neither its client nor the strays *)

LEMMA BothSeen ==
  ASSUME NEW p, NEW ss, NEW cs
  PROVE  On(p, ss, cs) \in BOOLEAN /\ Attached(p, ss, cs) \in BOOLEAN
BY DEF On, Attached

LEMMA TimedIs ==
  ASSUME NEW p \in MicPages, NEW ss, NEW cs
  PROVE  /\ Timed(p, ss, cs) \in MicPages /\ Timed(p, ss, cs).client = p.client
         /\ Timed(p, ss, cs).strays = p.strays
<1> DEFINE b == On(p, ss, cs) \/ Attached(p, ss, cs) \/ p.asking # NoCall
<1>1. b \in BOOLEAN
  OBVIOUS
<1>2. Timed(p, ss, cs) = [p EXCEPT !.timer = b]
  BY Zenon DEF Timed
<1> HIDE DEF b
<1> QED BY <1>1, <1>2 DEF MicPages

LEMMA MicRefreshedIs ==
  ASSUME NEW p \in MicPages, NEW ss, NEW cs
  PROVE  /\ MicRefreshed(p, ss, cs) \in MicPages /\ MicRefreshed(p, ss, cs).client = p.client
         /\ MicRefreshed(p, ss, cs).strays = p.strays
<1> DEFINE poll == On(p, ss, cs) \/ Attached(p, ss, cs) \/ (p.panel /\ p.shown)
           q == [p EXCEPT !.shown = FALSE]
<1>1. CASE ~poll \/ p.client = NoCall
  <2>1. MicRefreshed(p, ss, cs) = Timed(q, ss, cs)
    BY <1>1, Zenon DEF MicRefreshed
  <2>2. q \in MicPages /\ q.client = p.client /\ q.strays = p.strays
    BY Zenon DEF MicPages
  <2> HIDE DEF q
  <2> QED BY <2>1, <2>2, TimedIs
<1>2. CASE ~(~poll \/ p.client = NoCall) /\ p.asking # NoCall
  <2>1. MicRefreshed(p, ss, cs) = p
    BY <1>2, Zenon DEF MicRefreshed
  <2> QED BY <2>1
<1>3. CASE ~(~poll \/ p.client = NoCall) /\ ~(p.asking # NoCall)
  <2>1. MicRefreshed(p, ss, cs) = [p EXCEPT !.asking = p.client]
    BY <1>3, Zenon DEF MicRefreshed
  <2> QED BY <2>1, MicPageFields DEF MicPages
<1> QED BY <1>1, <1>2, <1>3

LEMMA NotifiedIs ==
  ASSUME NEW p \in MicPages, NEW ss, NEW cs
  PROVE  /\ Notified(p, ss, cs) \in MicPages /\ Notified(p, ss, cs).client = p.client
         /\ Notified(p, ss, cs).strays = p.strays
<1> DEFINE q == Timed(p, ss, cs)
<1>1. q \in MicPages /\ q.client = p.client /\ q.strays = p.strays
  BY TimedIs
<1>2. Notified(p, ss, cs) = MicRefreshed(q, ss, cs)
  BY DEF Notified
<1> HIDE DEF q
<1> QED BY <1>1, <1>2, MicRefreshedIs

-----------------------------------------------------------------------------
(* A client, and a call, changes *)

LEMMA ClientPut ==
  ASSUME NEW ss \in [Call -> Clients], NEW k \in Call, NEW s \in Clients
  PROVE  /\ [ss EXCEPT ![k] = s] \in [Call -> Clients] /\ [ss EXCEPT ![k] = s][k] = s
         /\ \A j \in Call \ {k} : [ss EXCEPT ![k] = s][j] = ss[j]
OBVIOUS

LEMMA CallPut ==
  ASSUME NEW cs \in [Call -> Calls], NEW c \in Call, NEW v \in Calls
  PROVE  /\ [cs EXCEPT ![c] = v] \in [Call -> Calls] /\ [cs EXCEPT ![c] = v][c] = v
         /\ \A d \in Call \ {c} : [cs EXCEPT ![c] = v][d] = cs[d]
OBVIOUS

LEMMA MicTakenIs ==
  ASSUME NEW s \in Clients
  PROVE  MicTaken(s) \in Closes /\ MicTaken(s).open /\ NoClose \in Closes /\ ~NoClose.open
BY ClientFields, CallRange DEF MicTaken, NoClose, Closes

LEMMA CloseBegunIs ==
  ASSUME NEW s \in Clients
  PROVE  /\ CloseBegun(s) \in Clients /\ CloseBegun(s).local = s.local
         /\ CloseBegun(s).destroy = s.destroy /\ CloseBegun(s).peer = NoCall
<1>1. /\ s.serial + 1 \in Nat /\ NoCall \in 0 .. MaxCalls
  BY ClientFields, CallRange
<1> QED BY <1>1, Zenon DEF CloseBegun, PeerReset, Clients

LEMMA MicReleasedIs ==
  ASSUME NEW s \in Clients
  PROVE  /\ MicReleased(s) \in Clients /\ MicReleased(s).local = NoCall
         /\ MicReleased(s).destroy = s.destroy /\ MicReleased(s).peer = s.peer
<1>1. NoCall \in 0 .. MaxCalls
  BY CallRange
<1> QED BY <1>1 DEF MicReleased, Clients

\* Field by field, what an assignment to a client does.
LEMMA DestroySet ==
  ASSUME NEW s \in Clients, NEW v \in Closes
  PROVE  /\ [s EXCEPT !.destroy = v] \in Clients /\ [s EXCEPT !.destroy = v].destroy = v
         /\ [s EXCEPT !.destroy = v].local = s.local /\ [s EXCEPT !.destroy = v].peer = s.peer
BY DEF Clients

LEMMA SerialSet ==
  ASSUME NEW s \in Clients, NEW n \in Nat
  PROVE  /\ [s EXCEPT !.serial = n, !.expected = TRUE, !.connecting = TRUE] \in Clients
         /\ [s EXCEPT !.serial = n, !.expected = TRUE, !.connecting = TRUE].local = s.local
         /\ [s EXCEPT !.serial = n, !.expected = TRUE, !.connecting = TRUE].destroy = s.destroy
BY Zenon DEF Clients

LEMMA ConnectingSet ==
  ASSUME NEW s \in Clients
  PROVE  /\ [s EXCEPT !.connecting = FALSE] \in Clients
         /\ [s EXCEPT !.connecting = FALSE].local = s.local
         /\ [s EXCEPT !.connecting = FALSE].destroy = s.destroy
         /\ [s EXCEPT !.connecting = FALSE].peer = s.peer
BY Zenon DEF Clients

LEMMA EnabledSet ==
  ASSUME NEW s \in Clients, NEW b \in BOOLEAN
  PROVE  /\ [s EXCEPT !.enabled = b, !.connecting = FALSE] \in Clients
         /\ [s EXCEPT !.enabled = b, !.connecting = FALSE].local = s.local
         /\ [s EXCEPT !.enabled = b, !.connecting = FALSE].destroy = s.destroy
         /\ [s EXCEPT !.enabled = b, !.connecting = FALSE].peer = s.peer
BY Zenon DEF Clients

LEMMA LocalSet ==
  ASSUME NEW s \in Clients, NEW c \in Call
  PROVE  /\ [s EXCEPT !.local = c] \in Clients /\ [s EXCEPT !.local = c].local = c
         /\ [s EXCEPT !.local = c].destroy = s.destroy /\ [s EXCEPT !.local = c].peer = s.peer
<1>1. c \in 0 .. MaxCalls
  BY CallRange
<1> QED BY <1>1 DEF Clients

LEMMA PeerSet ==
  ASSUME NEW s \in Clients, NEW c \in Call
  PROVE  /\ [s EXCEPT !.peer = c] \in Clients /\ [s EXCEPT !.peer = c].peer = c
         /\ [s EXCEPT !.peer = c].destroy = s.destroy /\ [s EXCEPT !.peer = c].local = s.local
<1>1. c \in 0 .. MaxCalls
  BY CallRange
<1> QED BY <1>1 DEF Clients

LEMMA WsSet ==
  ASSUME NEW s \in Clients, NEW c \in Call
  PROVE  /\ [s EXCEPT !.ws = c] \in Clients /\ [s EXCEPT !.ws = c].peer = s.peer
         /\ [s EXCEPT !.ws = c].destroy = s.destroy /\ [s EXCEPT !.ws = c].local = s.local
<1>1. c \in 0 .. MaxCalls
  BY CallRange
<1> QED BY <1>1 DEF Clients

LEMMA WishSet ==
  ASSUME NEW s \in Clients
  PROVE  /\ [s EXCEPT !.enabled = FALSE, !.expected = FALSE] \in Clients
         /\ [s EXCEPT !.enabled = FALSE, !.expected = FALSE].local = s.local
         /\ [s EXCEPT !.enabled = FALSE, !.expected = FALSE].destroy = s.destroy
         /\ [s EXCEPT !.enabled = FALSE, !.expected = FALSE].peer = s.peer
BY Zenon DEF Clients

LEMMA SessionSet ==
  ASSUME NEW s \in Clients, NEW e,
         e = [s EXCEPT !.enabled = FALSE, !.expected = FALSE, !.connecting = FALSE]
  PROVE  PeerReset(e) \in Clients /\ PeerReset(e).local = s.local /\ PeerReset(e).destroy = s.destroy
<1>1. NoCall \in 0 .. MaxCalls
  BY CallRange
<1> QED BY <1>1, Zenon DEF PeerReset, Clients

LEMMA HeldSet ==
  ASSUME NEW s \in Clients, NEW b \in BOOLEAN
  PROVE  /\ [s EXCEPT !.held = b] \in Clients /\ [s EXCEPT !.held = b].local = s.local
         /\ [s EXCEPT !.held = b].destroy = s.destroy /\ [s EXCEPT !.held = b].peer = s.peer
BY DEF Clients

\* The same for a call.
CallKept(v, w) == w.of = v.of /\ w.at = v.at /\ w.track = v.track /\ w.sock = v.sock

LEMMA ConnSet ==
  ASSUME NEW v \in Calls, NEW x \in {"none", "open", "closed"}
  PROVE  [v EXCEPT !.conn = x] \in Calls /\ CallKept(v, [v EXCEPT !.conn = x])
BY DEF Calls, CallKept

LEMMA SockSet ==
  ASSUME NEW v \in Calls, NEW x \in {"none", "opening", "open", "closed"}
  PROVE  /\ [v EXCEPT !.sock = x] \in Calls /\ [v EXCEPT !.sock = x].sock = x
         /\ [v EXCEPT !.sock = x].of = v.of /\ [v EXCEPT !.sock = x].at = v.at
         /\ [v EXCEPT !.sock = x].track = v.track /\ [v EXCEPT !.sock = x].sid = v.sid
BY DEF Calls

LEMMA TrackSet ==
  ASSUME NEW v \in Calls, NEW x \in {"none", "live", "ended"}
  PROVE  /\ [v EXCEPT !.track = x] \in Calls /\ [v EXCEPT !.track = x].track = x
         /\ [v EXCEPT !.track = x].of = v.of /\ [v EXCEPT !.track = x].at = v.at
         /\ [v EXCEPT !.track = x].sock = v.sock
BY DEF Calls

LEMMA AtSet ==
  ASSUME NEW v \in Calls, NEW x \in Waiting \cup {"done"}
  PROVE  /\ [v EXCEPT !.at = x] \in Calls /\ [v EXCEPT !.at = x].at = x
         /\ [v EXCEPT !.at = x].of = v.of /\ [v EXCEPT !.at = x].track = v.track
         /\ [v EXCEPT !.at = x].sock = v.sock
BY DEF Calls

LEMMA AtCloseSet ==
  ASSUME NEW v \in Calls, NEW x \in Waiting \cup {"done"}, NEW y \in Closes
  PROVE  /\ [v EXCEPT !.at = x, !.close = y] \in Calls /\ [v EXCEPT !.at = x, !.close = y].at = x
         /\ [v EXCEPT !.at = x, !.close = y].of = v.of
         /\ [v EXCEPT !.at = x, !.close = y].track = v.track
         /\ [v EXCEPT !.at = x, !.close = y].sock = v.sock
BY Zenon DEF Calls

\* A close ends the track of its client, and no call goes on because of it.
MicEnded(cs, cs2, n) ==
  \A d \in Call :
    /\ cs2[d].of = cs[d].of /\ cs2[d].at = cs[d].at
    /\ cs2[d].sock = "open" => cs[d].sock = "open"
    /\ cs2[d].track = IF d = n THEN "ended" ELSE cs[d].track

LEMMA StoppedIs ==
  ASSUME NEW s \in Clients, NEW cs \in [Call -> Calls]
  PROVE  Stopped(s, cs) \in [Call -> Calls] /\ MicEnded(cs, Stopped(s, cs), s.local)
<1>1. CASE s.local = NoCall
  <2>1. Stopped(s, cs) = cs
    BY <1>1 DEF Stopped
  <2> QED BY <1>1, <2>1, CallRange DEF MicEnded
<1>2. CASE s.local # NoCall
  <2> DEFINE n == s.local
             v == [cs[n] EXCEPT !.track = "ended"]
  <2>1. n \in Call
    BY <1>2, ClientFields, CallRange
  <2>2. Stopped(s, cs) = [cs EXCEPT ![n] = v]
    BY <1>2 DEF Stopped
  <2>3. v \in Calls /\ v.track = "ended" /\ v.of = cs[n].of /\ v.at = cs[n].at /\ v.sock = cs[n].sock
    BY <2>1, TrackSet, Zenon
  <2> HIDE DEF v
  <2>4. /\ Stopped(s, cs) \in [Call -> Calls] /\ Stopped(s, cs)[n] = v
        /\ \A d \in Call \ {n} : Stopped(s, cs)[d] = cs[d]
    BY <2>1, <2>2, <2>3, CallPut
  <2> QED BY <2>3, <2>4 DEF MicEnded
<1> QED BY <1>1, <1>2

LEMMA CloseEndedIs ==
  ASSUME NEW s \in Clients, NEW cs \in [Call -> Calls], NEW taken \in Closes
  PROVE  CloseEnded(s, taken, cs) \in [Call -> Calls] /\ MicEnded(cs, CloseEnded(s, taken, cs), s.local)
<1> DEFINE a == taken.peer
           b == taken.ws
           v == [cs[a] EXCEPT !.conn = "closed"]
           peers == IF a = NoCall THEN cs ELSE [cs EXCEPT ![a] = v]
           w == [peers[b] EXCEPT !.sock = "closed"]
           socks == IF b = NoCall THEN peers ELSE [peers EXCEPT ![b] = w]
<1>1. CloseEnded(s, taken, cs) = Stopped(s, socks)
  BY DEF CloseEnded
<1>2. a \in Call \cup {NoCall} /\ b \in Call \cup {NoCall}
  BY CallRange DEF Closes
<1> HIDE DEF a, b
<1>3. peers \in [Call -> Calls] /\ \A d \in Call : CallKept(cs[d], peers[d])
  <2>1. CASE a = NoCall
    BY <2>1 DEF CallKept
  <2>2. CASE a # NoCall
    <3>1. a \in Call
      BY <1>2, <2>2
    <3>2. v \in Calls /\ CallKept(cs[a], v)
      BY <3>1, ConnSet, Zenon
    <3> HIDE DEF v
    <3>3. /\ peers \in [Call -> Calls] /\ peers[a] = v
          /\ \A d \in Call \ {a} : peers[d] = cs[d]
      BY <2>2, <3>1, <3>2, CallPut
    <3> QED BY <3>2, <3>3 DEF CallKept
  <2> QED BY <2>1, <2>2
<1> HIDE DEF peers
<1>4. /\ socks \in [Call -> Calls]
      /\ \A d \in Call : /\ socks[d].of = cs[d].of /\ socks[d].at = cs[d].at
                         /\ socks[d].track = cs[d].track
                         /\ socks[d].sock = "open" => cs[d].sock = "open"
  <2>1. CASE b = NoCall
    BY <1>3, <2>1 DEF CallKept
  <2>2. CASE b # NoCall
    <3>1. b \in Call
      BY <1>2, <2>2
    <3>2. /\ w \in Calls /\ w.sock = "closed" /\ w.of = peers[b].of /\ w.at = peers[b].at
          /\ w.track = peers[b].track
      BY <1>3, <3>1, SockSet, Zenon
    <3> HIDE DEF w
    <3>3. /\ socks \in [Call -> Calls] /\ socks[b] = w
          /\ \A d \in Call \ {b} : socks[d] = peers[d]
      BY <1>3, <2>2, <3>1, <3>2, CallPut
    <3> QED BY <1>3, <3>2, <3>3 DEF CallKept
  <2> QED BY <2>1, <2>2
<1> HIDE DEF socks
<1>5. Stopped(s, socks) \in [Call -> Calls] /\ MicEnded(socks, Stopped(s, socks), s.local)
  BY <1>4, StoppedIs
<1> QED BY <1>1, <1>4, <1>5 DEF MicEnded

\* The close of client k ends: its track has ended, and call c may go on.
LEMMA ClosedStep ==
  ASSUME NEW p, NEW ss, NEW cs, MicOK(p, ss, cs),
         NEW p2, NEW ss2, NEW cs2, MicTyped(p2, ss2, cs2), NEW k \in Call,
         \A j \in Call \ {k} : ss2[j] = ss[j],
         \A d \in Call :
            /\ cs2[d].of = cs[d].of
            /\ cs2[d].sock = "open" => cs[d].sock = "open"
            /\ cs2[d].track = "live" => cs[d].track = "live" /\ d # ss[k].local
            /\ cs2[d].at = cs[d].at \/ (cs[d].of = k /\ cs[d].at # "unmade" /\ cs2[d].at # "unmade"),
         p2.strays = p.strays,
         p2.client = p.client \/ p.client = k \/ p.client = NoCall
  PROVE  MicOK(p2, ss2, cs2)
<1>1. MadeOK(cs2)
  BY DEF MicOK, MadeOK
<1>2. Elsewhere(k, p, ss, cs, p2, ss2, cs2)
  BY <1>1 DEF Elsewhere, MicOK
<1>3. \A d \in Call : cs2[d].of = k /\ cs2[d].track = "live" =>
            cs[d].of = k /\ cs[d].track = "live" /\ d # ss[k].local
  OBVIOUS
<1>4. KeptOK(p2, ss2, cs2)
  BY <1>2, <1>3, KeptEnds
<1> QED BY <1>1, <1>4 DEF MicOK

\* A step of a call that closes nothing.
Goes(ss2, k, v, w) ==
  \/ w.at = v.at
  \/ /\ v.of = k /\ v.at \in {"capture", "signal", "offer"}
     /\ w.at \in {"offer", "done"}
     /\ v.at = "signal" => ss2[k].peer # NoCall

OpenCalls(k, ss2, cs, cs2) ==
  \A d \in Call :
    /\ cs2[d].of = cs[d].of
    /\ cs2[d].sock = "open" => cs[d].sock = "open" \/ cs[d].at # "unmade"
    /\ cs2[d].track = "live" => cs[d].track = "live"
    /\ Goes(ss2, k, cs[d], cs2[d])
OpenClient(k, ss, ss2) ==
  /\ \A j \in Call \ {k} : ss2[j] = ss[j]
  /\ ss2[k].local = ss[k].local /\ ss2[k].destroy = ss[k].destroy
  /\ ss[k].peer # NoCall => ss2[k].peer # NoCall

LEMMA MicOpenStep ==
  ASSUME NEW p, NEW ss, NEW cs, MicOK(p, ss, cs),
         NEW p2, NEW ss2, NEW cs2, MicTyped(p2, ss2, cs2), NEW k \in Call,
         OpenClient(k, ss, ss2), OpenCalls(k, ss2, cs, cs2),
         p2.strays = p.strays, p2.client = p.client
  PROVE  MicOK(p2, ss2, cs2)
<1> USE DEF OpenClient, OpenCalls
<1>1. MadeOK(cs2)
  BY DEF MicOK, MadeOK, Goes
<1>2. Elsewhere(k, p, ss, cs, p2, ss2, cs2)
  BY <1>1 DEF Elsewhere, MicOK, Goes
<1>3. Closing(k, ss, cs) => Closing(k, ss2, cs2)
  BY DEF Closing, Goes
<1>4. ASSUME NEW d \in Call, cs2[d].track = "live", d \notin p2.strays, cs2[d].of = k
      PROVE  MicKept(p2, ss2, cs2, d)
  <2>1. cs[d].of = k /\ cs[d].track = "live" /\ d \notin p.strays
    BY <1>4
  <2>2. MicKept(p, ss, cs, d)
    BY <2>1 DEF MicOK, KeptOK
  <2>3. Goes(ss2, k, cs[d], cs2[d])
    OBVIOUS
  <2>4. cs2[d].at = cs[d].at \/ (cs[d].at = "signal" /\ cs2[d].at \in {"offer", "done"} /\ ss2[k].peer # NoCall)
        \/ (cs[d].at = "offer" /\ cs2[d].at \in {"offer", "done"})
    BY <2>2, <2>3 DEF Goes, MicKept
  <2>5. ss2[k].local = d /\ (k = p2.client \/ ss2[k].destroy.open)
    BY <2>1, <2>2 DEF MicKept
  <2>6. cs2[d].at \in {"signal", "offer", "quitting", "done"}
    BY <2>2, <2>4 DEF MicKept
  <2>7. cs2[d].at \in {"offer", "done"} => ss2[k].peer # NoCall \/ Closing(k, ss2, cs2)
    BY <1>3, <2>1, <2>2, <2>4 DEF MicKept
  <2> QED BY <1>4, <2>5, <2>6, <2>7 DEF MicKept
<1>5. KeptOK(p2, ss2, cs2)
  BY <1>2, <1>4, KeptOn
<1> QED BY <1>1, <1>5 DEF MicOK

\* The page alone changes.
LEMMA PageStep ==
  ASSUME NEW p, NEW ss, NEW cs, MicOK(p, ss, cs), NEW p2 \in MicPages,
         p2.strays = p.strays, p2.client = p.client
  PROVE  MicOK(p2, ss, cs)
BY DEF MicOK, MicTyped, KeptOK, MicKept

\* A close of client k begins, and does not run through.
LEMMA ClosingStep ==
  ASSUME NEW p, NEW ss, NEW cs, MicOK(p, ss, cs),
         NEW p2, NEW ss2, NEW cs2, MicTyped(p2, ss2, cs2), NEW k \in Call,
         \A j \in Call \ {k} : ss2[j] = ss[j],
         ss2[k].local = ss[k].local, Closing(k, ss2, cs2),
         ss2[k].destroy.open \/ (ss[k].destroy = ss2[k].destroy /\ (p.client = k => p2.client = k)),
         \A d \in Call :
            /\ cs2[d].of = cs[d].of
            /\ cs2[d].sock = "open" => cs[d].sock = "open" \/ cs[d].at # "unmade"
            /\ cs2[d].track = "live" => cs[d].track = "live"
            /\ \/ cs2[d].at = cs[d].at
               \/ cs[d].of = k /\ cs[d].at # "unmade" /\ cs2[d].at = "quitting",
         p2.strays = p.strays,
         p2.client = p.client \/ p.client = k \/ p.client = NoCall
  PROVE  MicOK(p2, ss2, cs2)
<1>1. MadeOK(cs2)
  BY DEF MicOK, MadeOK
<1>2. Elsewhere(k, p, ss, cs, p2, ss2, cs2)
  BY <1>1 DEF Elsewhere, MicOK
<1>3. \A d \in Call : cs2[d].of = k /\ cs2[d].track = "live" =>
            /\ cs[d].of = k /\ cs[d].track = "live"
            /\ cs2[d].at = cs[d].at \/ cs2[d].at = "quitting"
  OBVIOUS
<1>4. KeptOK(p2, ss2, cs2)
  BY <1>2, <1>3, KeptCloses
<1> QED BY <1>1, <1>4 DEF MicOK

-----------------------------------------------------------------------------
(* The steps of the switch *)

LEMMA MicIs ==
  ASSUME MicInv
  PROVE  /\ MicTyped(mic, client, call) /\ MadeOK(call) /\ KeptOK(mic, client, call)
         /\ mic \in MicPages /\ client \in [Call -> Clients] /\ call \in [Call -> Calls]
         /\ mic.client \in Call \cup {NoCall} /\ mic.strays \in SUBSET Call
BY CallRange, MicPageFields DEF MicInv, MicOK, MicTyped

LEMMA MicBecame ==
  ASSUME NEW p, NEW ss, NEW cs, MicBecomes(p, ss, cs), MicOK(p, ss, cs)
  PROVE  MicInv'
<1>1. mic' = p /\ client' = ss /\ call' = cs
  BY DEF MicBecomes
<1>2. MicOK(mic', client', call')
  BY <1>1
<1>3. MicInv' <=> MicOK(mic', client', call')
  BY DEF MicInv, MicOK, MicTyped, MadeOK, KeptOK, MicKept, Closing
<1> QED BY <1>2, <1>3

\* The calls once the close of client k has ended, as one of its calls goes on.
RanCalls(k, s, taken, cs, cs2) ==
  \A d \in Call :
    /\ cs2[d].of = CloseEnded(s, taken, cs)[d].of
    /\ cs2[d].sock = CloseEnded(s, taken, cs)[d].sock
    /\ cs2[d].track = CloseEnded(s, taken, cs)[d].track
    /\ \/ cs2[d].at = CloseEnded(s, taken, cs)[d].at
       \/ cs[d].of = k /\ cs[d].at # "unmade" /\ cs2[d].at # "unmade"

\* A close of client s of k runs through, and the client becomes t.
LEMMA RanThrough ==
  ASSUME NEW p, NEW ss, NEW cs, MicOK(p, ss, cs), NEW k \in Call, NEW s \in Clients,
         s.local = ss[k].local, NEW taken \in Closes, NEW t \in Clients,
         NEW cs2, cs2 \in [Call -> Calls],
         RanCalls(k, s, taken, cs, cs2),
         NEW p2 \in MicPages, p2.strays = p.strays,
         p2.client = p.client \/ p.client = k \/ p.client = NoCall
  PROVE  MicOK(p2, [ss EXCEPT ![k] = t], cs2)
<1> DEFINE ss2 == [ss EXCEPT ![k] = t]
           e == CloseEnded(s, taken, cs)
<1>1. ss \in [Call -> Clients] /\ cs \in [Call -> Calls]
  BY DEF MicOK, MicTyped
<1>2. ss2 \in [Call -> Clients] /\ \A j \in Call \ {k} : ss2[j] = ss[j]
  BY <1>1, ClientPut
<1>3. e \in [Call -> Calls] /\ MicEnded(cs, e, s.local)
  BY <1>1, CloseEndedIs
<1>4. \A d \in Call :
            /\ cs2[d].of = e[d].of /\ cs2[d].sock = e[d].sock /\ cs2[d].track = e[d].track
            /\ \/ cs2[d].at = e[d].at
               \/ cs[d].of = k /\ cs[d].at # "unmade" /\ cs2[d].at # "unmade"
  BY DEF RanCalls
<1> HIDE DEF ss2, e
<1>5. \A d \in Call :
            /\ cs2[d].of = cs[d].of
            /\ cs2[d].sock = "open" => cs[d].sock = "open"
            /\ cs2[d].track = "live" => cs[d].track = "live" /\ d # ss[k].local
            /\ cs2[d].at = cs[d].at \/ (cs[d].of = k /\ cs[d].at # "unmade" /\ cs2[d].at # "unmade")
  BY <1>3, <1>4 DEF MicEnded
<1>6. MicTyped(p2, ss2, cs2)
  BY <1>2 DEF MicTyped
<1>7. MicOK(p2, ss2, cs2)
  BY <1>2, <1>5, <1>6, ClosedStep
<1> QED BY <1>7 DEF ss2

\* A call goes on.
AtOnly(e, f, c, x) ==
  \A d \in Call :
    /\ f[d].of = e[d].of /\ f[d].sock = e[d].sock /\ f[d].track = e[d].track
    /\ f[d].at = IF d = c THEN x ELSE e[d].at

LEMMA AtPut ==
  ASSUME NEW e \in [Call -> Calls], NEW c \in Call, NEW x \in Waiting \cup {"done"},
         NEW f, f = [e EXCEPT ![c].at = x]
  PROVE  f \in [Call -> Calls] /\ AtOnly(e, f, c, x)
<1> DEFINE v == e[c]
           u == [v EXCEPT !.at = x]
<1>1. v \in Calls /\ f = [e EXCEPT ![c] = u]
  OBVIOUS
<1> HIDE DEF v
<1>3. u \in Calls /\ u.at = x /\ u.of = v.of /\ u.track = v.track /\ u.sock = v.sock
  BY <1>1, AtSet
<1> HIDE DEF u
<1>4. u.of = e[c].of /\ u.track = e[c].track /\ u.sock = e[c].sock
  BY <1>3 DEF v
<1>5. f \in [Call -> Calls] /\ f[c] = u /\ \A d \in Call \ {c} : f[d] = e[d]
  BY <1>1, <1>3, CallPut
<1> QED BY <1>3, <1>4, <1>5 DEF AtOnly

LEMMA AtClosePut ==
  ASSUME NEW e \in [Call -> Calls], NEW c \in Call, NEW x \in Waiting \cup {"done"}, NEW y \in Closes
  PROVE  /\ [e EXCEPT ![c].at = x, ![c].close = y] \in [Call -> Calls]
         /\ AtOnly(e, [e EXCEPT ![c].at = x, ![c].close = y], c, x)
<1> DEFINE v == e[c]
           u == [v EXCEPT !.at = x, !.close = y]
           f == [e EXCEPT ![c] = u]
<1>1. v \in Calls /\ [e EXCEPT ![c].at = x, ![c].close = y] = f
  BY Zenon
<1> HIDE DEF v
<1>3. u \in Calls /\ u.at = x /\ u.of = v.of /\ u.track = v.track /\ u.sock = v.sock
  BY <1>1 DEF Calls
<1> HIDE DEF u
<1>4. u.of = e[c].of /\ u.track = e[c].track /\ u.sock = e[c].sock
  BY <1>3 DEF v
<1>5. f \in [Call -> Calls] /\ f[c] = u /\ \A d \in Call \ {c} : f[d] = e[d]
  BY <1>3, CallPut
<1> HIDE DEF f
<1>6. AtOnly(e, f, c, x)
  BY <1>3, <1>4, <1>5 DEF AtOnly
<1> QED BY <1>1, <1>5, <1>6, Zenon

LEMMA MicClosedStep == ASSUME MicInv, NEW c \in Call, MicClosed(c) PROVE MicInv'
<1> DEFINE k == call[c].of
           s == client[k]
           taken == call[c].close
           e == CloseEnded(s, taken, call)
           cs == [e EXCEPT ![c].at = "capture", ![c].close = NoClose]
           r == MicReleased(s)
           n == call[c].sid
           t == [r EXCEPT !.serial = n, !.expected = TRUE, !.connecting = TRUE]
           p == Notified(mic, [client EXCEPT ![k] = r], cs)
<1>1. call[c].at = "closing" /\ MicBecomes(p, [client EXCEPT ![k] = t], cs)
  BY DEF MicClosed
<1>2. k \in Call /\ s \in Clients /\ taken \in Closes /\ n \in Nat /\ call[c] \in Calls
  BY <1>1, MicIs, CallFields DEF MadeOK
<1>3. p \in MicPages /\ p.client = mic.client /\ p.strays = mic.strays
  BY MicIs, NotifiedIs
<1>4. t \in Clients
  BY <1>2, MicReleasedIs, SerialSet, Zenon
<1>5. e \in [Call -> Calls]
  BY <1>2, MicIs, CloseEndedIs
<1>6. "capture" \in Waiting \cup {"done"} /\ NoClose \in Closes
  BY <1>2, MicTakenIs DEF Waiting
<1> HIDE DEF p, t
<1>7. cs \in [Call -> Calls] /\ AtOnly(e, cs, c, "capture")
  <2> DEFINE x == "capture"
  <2>1. x \in Waiting \cup {"done"} /\ cs = [e EXCEPT ![c].at = x, ![c].close = NoClose]
    BY DEF Waiting
  <2> HIDE DEF x, cs, e
  <2>2. cs \in [Call -> Calls] /\ AtOnly(e, cs, c, x)
    BY <1>5, <1>6, <2>1, AtClosePut, Zenon
  <2> QED BY <2>2 DEF x
<1> HIDE DEF cs
<1>8. MicOK(mic, client, call)
  BY DEF MicInv
<1>9. RanCalls(k, s, taken, call, cs)
  BY <1>1, <1>7 DEF AtOnly, RanCalls
<1>10. s.local = client[k].local
  OBVIOUS
<1> HIDE DEF k, s, taken, e
<1>11. MicOK(p, [client EXCEPT ![k] = t], cs)
  BY <1>2, <1>3, <1>4, <1>7, <1>8, <1>9, <1>10, RanThrough
<1> QED BY <1>1, <1>11, MicBecame

LEMMA DestroyEndsStep == ASSUME MicInv, NEW k \in Call, DestroyEnds(k) PROVE MicInv'
<1> DEFINE s == client[k]
           r == MicReleased(s)
           t == [r EXCEPT !.destroy = NoClose]
           taken == s.destroy
           ss == [client EXCEPT ![k] = t]
           cs == CloseEnded(s, taken, call)
           p == Notified(mic, ss, cs)
<1>1. MicBecomes(p, ss, cs)
  BY DEF DestroyEnds
<1>2. s \in Clients /\ taken \in Closes /\ r \in Clients /\ NoClose \in Closes
  BY MicIs, ClientFields, MicReleasedIs, MicTakenIs
<1>3. p \in MicPages /\ p.client = mic.client /\ p.strays = mic.strays
  BY MicIs, NotifiedIs
<1> HIDE DEF p
<1>4. t \in Clients
  BY <1>2, DestroySet
<1>5. cs \in [Call -> Calls]
  BY <1>2, MicIs, CloseEndedIs
<1>6. MicOK(mic, client, call) /\ s.local = client[k].local
  BY DEF MicInv
<1>7. RanCalls(k, s, taken, call, cs)
  BY DEF RanCalls
<1> HIDE DEF s, t, taken, cs
<1>8. MicOK(p, [client EXCEPT ![k] = t], cs)
  BY <1>2, <1>3, <1>4, <1>5, <1>6, <1>7, RanThrough
<1> QED BY <1>1, <1>8, MicBecame

LEMMA QuitsStep == ASSUME MicInv, NEW c \in Call, Quits(c) PROVE MicInv'
<1> DEFINE k == call[c].of
           s == client[k]
           taken == call[c].close
           e == CloseEnded(s, taken, call)
           cs == [e EXCEPT ![c].at = "done", ![c].close = NoClose]
           r == [s EXCEPT !.connecting = FALSE]
           t == MicReleased(r)
           ss == [client EXCEPT ![k] = t]
           p == Notified(mic, ss, cs)
<1>1. call[c].at = "quitting" /\ MicBecomes(p, ss, cs)
  BY DEF Quits
<1>2. k \in Call /\ s \in Clients /\ taken \in Closes /\ call[c] \in Calls
  BY <1>1, MicIs, CallFields DEF MadeOK
<1>3. p \in MicPages /\ p.client = mic.client /\ p.strays = mic.strays
  BY MicIs, NotifiedIs
<1>4. t \in Clients
  BY <1>2, MicReleasedIs, ConnectingSet
<1>5. e \in [Call -> Calls]
  BY <1>2, MicIs, CloseEndedIs
<1>6. "done" \in Waiting \cup {"done"} /\ NoClose \in Closes
  BY <1>2, MicTakenIs
<1> HIDE DEF p, t
<1>7. cs \in [Call -> Calls] /\ AtOnly(e, cs, c, "done")
  <2> DEFINE x == "done"
  <2>1. x \in Waiting \cup {"done"} /\ cs = [e EXCEPT ![c].at = x, ![c].close = NoClose]
    BY DEF Waiting
  <2> HIDE DEF x, cs, e
  <2>2. cs \in [Call -> Calls] /\ AtOnly(e, cs, c, x)
    BY <1>5, <1>6, <2>1, AtClosePut, Zenon
  <2> QED BY <2>2 DEF x
<1> HIDE DEF cs
<1>8. MicOK(mic, client, call)
  BY DEF MicInv
<1>9. RanCalls(k, s, taken, call, cs)
  BY <1>1, <1>7 DEF AtOnly, RanCalls
<1>10. s.local = client[k].local
  OBVIOUS
<1>12. MicBecomes(p, [client EXCEPT ![k] = t], cs)
  BY <1>1
<1> HIDE DEF k, s, taken, e, ss
<1>11. MicOK(p, [client EXCEPT ![k] = t], cs)
  BY <1>2, <1>3, <1>4, <1>7, <1>8, <1>9, <1>10, RanThrough
<1> QED BY <1>11, <1>12, MicBecame

\* A call gives up, whatever it has written to its client before.
LEMMA GivesUpStep ==
  ASSUME MicInv, NEW c \in Call, NEW cs, MicOK(mic, client, cs), NEW s \in Clients,
         cs[c].at # "unmade", s.local = client[cs[c].of].local, s.destroy = client[cs[c].of].destroy,
         CaptureGivesUp(c, s, cs)
  PROVE  MicInv'
<1> DEFINE k == cs[c].of
           begun == CloseBegun(s)
           taken == MicTaken(s)
<1>1. cs \in [Call -> Calls] /\ k \in Call /\ mic \in MicPages /\ client \in [Call -> Clients]
  BY MicIs DEF MicOK, MicTyped, MadeOK
<1>2. /\ begun \in Clients /\ begun.local = s.local /\ begun.destroy = s.destroy /\ taken \in Closes
  BY CloseBegunIs, MicTakenIs
<1>3. CASE Through(s)
  <2> DEFINE t == MicReleased(begun)
             ss == [client EXCEPT ![k] = t]
             e == CloseEnded(s, taken, cs)
             cs2 == [e EXCEPT ![c].at = "done"]
             p == Notified(mic, ss, cs2)
  <2>1. MicBecomes(p, ss, cs2)
    BY <1>3 DEF CaptureGivesUp
  <2>2. p \in MicPages /\ p.client = mic.client /\ p.strays = mic.strays
    BY <1>1, NotifiedIs
  <2> HIDE DEF p
  <2>3. t \in Clients
    BY <1>2, MicReleasedIs
  <2>4. e \in [Call -> Calls]
    BY <1>1, <1>2, CloseEndedIs
  <2>6. cs2 \in [Call -> Calls] /\ AtOnly(e, cs2, c, "done")
    <3> DEFINE x == "done"
    <3>1. x \in Waiting \cup {"done"} /\ cs2 = [e EXCEPT ![c].at = x]
      BY DEF Waiting
    <3> HIDE DEF x, cs2, e
    <3>2. cs2 \in [Call -> Calls] /\ AtOnly(e, cs2, c, x)
      BY <2>4, <3>1, AtPut, Zenon
    <3> QED BY <3>2 DEF x
  <2> HIDE DEF cs2, t
  <2>7. RanCalls(k, s, taken, cs, cs2)
    BY <2>6 DEF AtOnly, RanCalls
  <2>8. s.local = client[k].local
    OBVIOUS
  <2>9. MicBecomes(p, [client EXCEPT ![k] = t], cs2)
    BY <2>1
  <2> HIDE DEF k, taken, e, ss, begun
  <2>10. MicOK(p, [client EXCEPT ![k] = t], cs2)
    BY <1>1, <1>2, <2>2, <2>3, <2>6, <2>7, <2>8, RanThrough, Zenon
  <2> QED BY <2>9, <2>10, MicBecame
<1>4. CASE ~Through(s)
  <2> DEFINE ss == [client EXCEPT ![k] = begun]
             kept == [cs EXCEPT ![c].at = "quitting", ![c].close = taken]
  <2>1. MicBecomes(mic, ss, kept)
    BY <1>4 DEF CaptureGivesUp
  <2>2. /\ ss \in [Call -> Clients] /\ ss[k] = begun /\ \A j \in Call \ {k} : ss[j] = client[j]
    BY <1>1, <1>2, ClientPut
  <2>4. kept \in [Call -> Calls] /\ AtOnly(cs, kept, c, "quitting")
    <3> DEFINE x == "quitting"
    <3>1. x \in Waiting \cup {"done"} /\ kept = [cs EXCEPT ![c].at = x, ![c].close = taken]
      BY DEF Waiting
    <3> HIDE DEF x, kept, taken
    <3>2. kept \in [Call -> Calls] /\ AtOnly(cs, kept, c, x)
      BY <1>1, <1>2, <3>1, AtClosePut, Zenon
    <3> QED BY <3>2 DEF x
  <2>5. ss[k].local = client[k].local /\ ss[k].destroy = client[k].destroy
    BY <1>2, <2>2
  <2>6. Closing(k, ss, kept)
    BY <2>4 DEF Closing, AtOnly
  <2> HIDE DEF ss, kept
  <2>7. MicTyped(mic, ss, kept)
    BY <1>1, <2>2, <2>4 DEF MicTyped
  <2>8. \A d \in Call :
            /\ kept[d].of = cs[d].of
            /\ kept[d].sock = "open" => cs[d].sock = "open" \/ cs[d].at # "unmade"
            /\ kept[d].track = "live" => cs[d].track = "live"
            /\ \/ kept[d].at = cs[d].at
               \/ cs[d].of = k /\ cs[d].at # "unmade" /\ kept[d].at = "quitting"
    BY <2>4 DEF AtOnly
  <2> HIDE DEF k
  <2>9. MicOK(mic, ss, kept)
    BY <1>1, <2>2, <2>5, <2>6, <2>7, <2>8, ClosingStep
  <2> QED BY <2>1, <2>9, MicBecame
<1> QED BY <1>3, <1>4

-----------------------------------------------------------------------------
(* The steps of a call *)

LEMMA MadeCall ==
  ASSUME MicInv, NEW c \in Call, call[c].at # "unmade" \/ call[c].track = "live" \/ call[c].sock = "open"
  PROVE  /\ call[c].of \in Call /\ call[c].at # "unmade" /\ call[c] \in Calls
         /\ client[call[c].of] \in Clients
BY MicIs DEF MadeOK

LEMMA SameClient ==
  ASSUME NEW k, NEW ss
  PROVE  OpenClient(k, ss, ss)
BY DEF OpenClient

LEMMA PutClient ==
  ASSUME NEW ss \in [Call -> Clients], NEW k \in Call, NEW t \in Clients,
         t.local = ss[k].local, t.destroy = ss[k].destroy, ss[k].peer # NoCall => t.peer # NoCall
  PROVE  [ss EXCEPT ![k] = t] \in [Call -> Clients] /\ OpenClient(k, ss, [ss EXCEPT ![k] = t])
         /\ [ss EXCEPT ![k] = t][k] = t
<1>1. /\ [ss EXCEPT ![k] = t] \in [Call -> Clients] /\ [ss EXCEPT ![k] = t][k] = t
      /\ \A j \in Call \ {k} : [ss EXCEPT ![k] = t][j] = ss[j]
  BY ClientPut
<1> QED BY <1>1 DEF OpenClient

\* One of its calls goes on.
LEMMA PutCall ==
  ASSUME NEW cs \in [Call -> Calls], NEW c \in Call, NEW u \in Calls, NEW k, NEW ss2,
         u.of = cs[c].of, u.sock = "open" => cs[c].sock = "open" \/ cs[c].at # "unmade",
         u.track = "live" => cs[c].track = "live", Goes(ss2, k, cs[c], u)
  PROVE  [cs EXCEPT ![c] = u] \in [Call -> Calls] /\ OpenCalls(k, ss2, cs, [cs EXCEPT ![c] = u])
<1>1. /\ [cs EXCEPT ![c] = u] \in [Call -> Calls] /\ [cs EXCEPT ![c] = u][c] = u
      /\ \A d \in Call \ {c} : [cs EXCEPT ![c] = u][d] = cs[d]
  BY CallPut
<1>2. \A d \in Call : Goes(ss2, k, cs[d], cs[d])
  BY DEF Goes
<1> QED BY <1>1, <1>2 DEF OpenCalls

LEMMA NoCaptureStep == ASSUME MicInv, NEW c \in Call, NoCapture(c) PROVE MicInv'
<1> DEFINE k == call[c].of
           s == client[k]
           t == [s EXCEPT !.connecting = FALSE]
           ss == [client EXCEPT ![k] = t]
           v == call[c]
           u == [v EXCEPT !.at = "done"]
           cs == [call EXCEPT ![c] = u]
           p == Notified(mic, ss, cs)
<1>1. v.at = "capture" /\ MicBecomes(p, ss, cs)
  BY DEF NoCapture
<1>2. k \in Call /\ s \in Clients /\ v \in Calls
  BY <1>1, MadeCall
<1>3. p \in MicPages /\ p.client = mic.client /\ p.strays = mic.strays
  BY MicIs, NotifiedIs
<1> HIDE DEF p
<1>4. t \in Clients /\ t.local = s.local /\ t.destroy = s.destroy /\ t.peer = s.peer
  BY <1>2, ConnectingSet
<1> HIDE DEF t
<1>5. ss \in [Call -> Clients] /\ OpenClient(k, client, ss)
  BY <1>2, <1>4, MicIs, PutClient, Zenon
<1>6. u \in Calls /\ u.at = "done" /\ u.of = v.of /\ u.track = v.track /\ u.sock = v.sock
  BY <1>2, AtSet
<1> HIDE DEF u
<1>7. Goes(ss, k, v, u)
  BY <1>1, <1>6 DEF Goes
<1>8. cs \in [Call -> Calls] /\ OpenCalls(k, ss, call, cs)
  BY <1>6, <1>7, MicIs, PutCall, Zenon
<1> HIDE DEF ss, cs, k
<1>9. MicOK(p, ss, cs)
  BY <1>2, <1>3, <1>5, <1>8, MicOpenStep DEF MicInv, MicTyped
<1> QED BY <1>1, <1>9, MicBecame

LEMMA LateCaptureStep == ASSUME MicInv, NEW c \in Call, LateCapture(c) PROVE MicInv'
<1> DEFINE k == call[c].of
           v == call[c]
           w == [v EXCEPT !.at = "done"]
           u == [w EXCEPT !.track = "ended"]
           cs == [call EXCEPT ![c] = u]
           q == Timed(mic, client, cs)
           p == MicRefreshed(q, client, cs)
<1>1. v.at = "capture" /\ MicBecomes(p, client, cs)
  BY Zenon DEF LateCapture
<1>2. k \in Call /\ v \in Calls
  BY <1>1, MadeCall
<1>3. p \in MicPages /\ p.client = mic.client /\ p.strays = mic.strays
  <2>1. q \in MicPages /\ q.client = mic.client /\ q.strays = mic.strays
    BY MicIs, TimedIs
  <2> HIDE DEF q
  <2> QED BY <2>1, MicRefreshedIs
<1> HIDE DEF p, q
<1>6. w \in Calls /\ w.at = "done" /\ w.of = v.of /\ w.track = v.track /\ w.sock = v.sock
  BY <1>2, AtSet
<1> HIDE DEF w
<1>7. u \in Calls /\ u.track = "ended" /\ u.at = w.at /\ u.of = w.of /\ u.sock = w.sock
  BY <1>6, TrackSet, Zenon
<1> HIDE DEF u
<1>8. Goes(client, k, v, u)
  BY <1>1, <1>6, <1>7 DEF Goes
<1>9. cs \in [Call -> Calls] /\ OpenCalls(k, client, call, cs)
  BY <1>6, <1>7, <1>8, MicIs, PutCall, Zenon
<1> HIDE DEF cs, k
<1>10. MicOK(p, client, cs)
  BY <1>2, <1>3, <1>9, MicIs, SameClient, MicOpenStep DEF MicInv, MicTyped
<1> QED BY <1>1, <1>10, MicBecame

LEMMA OfferedStep == ASSUME MicInv, NEW c \in Call, Offered(c) PROVE MicInv'
<1> DEFINE k == call[c].of
           s == client[k]
           b == call[c].track = "live"
           t == [s EXCEPT !.enabled = b, !.connecting = FALSE]
           ss == [client EXCEPT ![k] = t]
           v == call[c]
           u == [v EXCEPT !.at = "done"]
           cs == [call EXCEPT ![c] = u]
           p == Notified(mic, ss, cs)
<1>0. v.at = "offer" /\ b \in BOOLEAN
  BY DEF Offered
<1>2. k \in Call /\ s \in Clients /\ v \in Calls
  BY <1>0, MadeCall
<1>1. MicBecomes(p, ss, cs)
  <2>1. [client EXCEPT ![k].enabled = b, ![k].connecting = FALSE] = ss
    BY <1>2, MicIs, Zenon
  <2>2. [call EXCEPT ![c].at = "done"] = cs
    OBVIOUS
  <2> HIDE DEF ss, cs, b
  <2> QED BY <2>1, <2>2, Zenon DEF Offered, b
<1>3. p \in MicPages /\ p.client = mic.client /\ p.strays = mic.strays
  BY MicIs, NotifiedIs
<1> HIDE DEF p, b
<1>4. t \in Clients /\ t.local = s.local /\ t.destroy = s.destroy /\ t.peer = s.peer
  BY <1>0, <1>2, EnabledSet, Zenon
<1> HIDE DEF t
<1>5. ss \in [Call -> Clients] /\ OpenClient(k, client, ss)
  BY <1>2, <1>4, MicIs, PutClient, Zenon
<1>6. u \in Calls /\ u.at = "done" /\ u.of = v.of /\ u.track = v.track /\ u.sock = v.sock
  BY <1>2, AtSet
<1> HIDE DEF u
<1>7. Goes(ss, k, v, u)
  BY <1>0, <1>6 DEF Goes
<1>8. cs \in [Call -> Calls] /\ OpenCalls(k, ss, call, cs)
  BY <1>6, <1>7, MicIs, PutCall, Zenon
<1> HIDE DEF ss, cs, k
<1>9. MicOK(p, ss, cs)
  BY <1>2, <1>3, <1>5, <1>8, MicOpenStep DEF MicInv, MicTyped
<1> QED BY <1>1, <1>9, MicBecame

LEMMA SignalStep == ASSUME MicInv, NEW c \in Call, Signal(c) PROVE MicInv'
<1> DEFINE k == call[c].of
           s == client[k]
           b == ~s.held
           t == [s EXCEPT !.held = b]
           ss == [client EXCEPT ![k] = t]
<1>1. call[c].sock = "open" /\ client' = ss /\ UNCHANGED <<mic, call>>
  <2>1. [client EXCEPT ![k].held = ~@] = ss
    BY Zenon
  <2> HIDE DEF ss
  <2> QED BY <2>1 DEF Signal
<1>2. k \in Call /\ s \in Clients
  BY <1>1, MadeCall
<1>3. b \in BOOLEAN
  OBVIOUS
<1> HIDE DEF b
<1>4. t \in Clients /\ t.local = s.local /\ t.destroy = s.destroy /\ t.peer = s.peer
  BY <1>2, <1>3, HeldSet
<1> HIDE DEF t
<1>5. ss \in [Call -> Clients] /\ OpenClient(k, client, ss)
  BY <1>2, <1>4, MicIs, PutClient, Zenon
<1>6. OpenCalls(k, ss, call, call)
  BY DEF OpenCalls, Goes
<1>7. MicTyped(mic, ss, call)
  BY <1>5, MicIs DEF MicTyped
<1> HIDE DEF ss, k
<1>8. MicOK(mic, ss, call)
  BY <1>2, <1>5, <1>6, <1>7, MicOpenStep DEF MicInv
<1> QED BY <1>1, <1>8, MicBecame DEF MicBecomes

\* The socket of a call changes, and nothing else.
LEMMA SockStep ==
  ASSUME MicInv, NEW c \in Call, call[c].at # "unmade", NEW x \in {"open", "closed"}, NEW cs,
         cs = [call EXCEPT ![c].sock = x]
  PROVE  MicOK(mic, client, cs) /\ cs[c].of = call[c].of /\ cs[c].at = call[c].at
<1> DEFINE k == call[c].of
           v == call[c]
           u == [v EXCEPT !.sock = x]
<1>1. k \in Call /\ v \in Calls
  BY MadeCall
<1>2. cs = [call EXCEPT ![c] = u]
  OBVIOUS
<1>0. x \in {"none", "opening", "open", "closed"}
  OBVIOUS
<1>3. u \in Calls /\ u.at = v.at /\ u.of = v.of /\ u.track = v.track
  <2> HIDE DEF v
  <2> QED BY <1>1, <1>0, SockSet, Zenon
<1> HIDE DEF u
<1>4. Goes(client, k, v, u)
  BY <1>3 DEF Goes
<1>5. v.sock = "open" \/ v.at # "unmade"
  OBVIOUS
<1>6. [call EXCEPT ![c] = u] \in [Call -> Calls] /\ OpenCalls(k, client, call, [call EXCEPT ![c] = u])
  BY <1>3, <1>4, <1>5, MicIs, PutCall, Zenon
<1>7. cs \in [Call -> Calls] /\ OpenCalls(k, client, call, cs) /\ cs[c] = u
  BY <1>2, <1>6, MicIs, Zenon
<1> HIDE DEF k
<1>8. MicTyped(mic, client, cs)
  BY <1>7, MicIs DEF MicTyped
<1>9. MicOK(mic, client, cs)
  BY <1>1, <1>7, <1>8, SameClient, MicOpenStep DEF MicInv
<1> QED BY <1>3, <1>7, <1>9 DEF k

LEMMA SocketFailsStep == ASSUME MicInv, NEW c \in Call, SocketFails(c) PROVE MicInv'
<1> DEFINE cs == [call EXCEPT ![c].sock = "closed"]
           s == client[call[c].of]
           x == "closed"
<1>1. call[c].at = "signal" /\ CaptureGivesUp(c, s, cs)
  BY DEF SocketFails
<1>2. s \in Clients
  BY <1>1, MadeCall
<1>3. x \in {"open", "closed"} /\ cs = [call EXCEPT ![c].sock = x] /\ call[c].at # "unmade"
  BY <1>1
<1> HIDE DEF cs, x
<1>4. MicOK(mic, client, cs) /\ cs[c].of = call[c].of /\ cs[c].at = call[c].at
  BY <1>3, SockStep, Zenon
<1>5. cs[c].at # "unmade" /\ s.local = client[cs[c].of].local /\ s.destroy = client[cs[c].of].destroy
  BY <1>3, <1>4
<1> HIDE DEF s
<1> QED BY <1>1, <1>2, <1>4, <1>5, GivesUpStep

LEMMA OfferFailsStep == ASSUME MicInv, NEW c \in Call, OfferFails(c) PROVE MicInv'
<1> DEFINE s == client[call[c].of]
<1>1. call[c].at = "offer" /\ CaptureGivesUp(c, s, call)
  BY DEF OfferFails
<1>2. s \in Clients
  BY <1>1, MadeCall
<1>4. MicOK(mic, client, call)
  BY DEF MicInv
<1>5. call[c].at # "unmade" /\ s.local = client[call[c].of].local /\ s.destroy = client[call[c].of].destroy
  BY <1>1
<1> HIDE DEF s
<1> QED BY <1>1, <1>2, <1>4, <1>5, GivesUpStep

LEMMA OfferSet ==
  ASSUME NEW v \in Calls
  PROVE  /\ [v EXCEPT !.at = "offer", !.conn = "open"] \in Calls
         /\ [v EXCEPT !.at = "offer", !.conn = "open"].at = "offer"
         /\ [v EXCEPT !.at = "offer", !.conn = "open"].of = v.of
         /\ [v EXCEPT !.at = "offer", !.conn = "open"].track = v.track
         /\ [v EXCEPT !.at = "offer", !.conn = "open"].sock = v.sock
BY Zenon DEF Calls, Waiting

LEMMA SetupArrivesStep == ASSUME MicInv, NEW c \in Call, SetupArrives(c) PROVE MicInv'
<1> DEFINE k == call[c].of
           r == client[k]
           s == [r EXCEPT !.ws = c]
           cs == [call EXCEPT ![c].sock = "open"]
           x == "open"
<1>1. /\ call[c].at = "signal"
      /\ \/ /\ Current(c)
            /\ MicBecomes(mic, [client EXCEPT ![k] = Peered(s, c)],
                               [cs EXCEPT ![c].at = "offer", ![c].conn = "open"])
         \/ CaptureGivesUp(c, s, cs)
  BY DEF SetupArrives
<1>2. k \in Call /\ r \in Clients /\ call[c] \in Calls
  BY <1>1, MadeCall
<1>3. x \in {"open", "closed"} /\ cs = [call EXCEPT ![c].sock = x] /\ call[c].at # "unmade"
  BY <1>1
<1>4. s \in Clients /\ s.local = r.local /\ s.destroy = r.destroy /\ s.peer = r.peer
  BY <1>2, WsSet
<1> HIDE DEF s
<1>5. CASE CaptureGivesUp(c, s, cs)
  <2> HIDE DEF cs, x
  <2>1. MicOK(mic, client, cs) /\ cs[c].of = call[c].of /\ cs[c].at = call[c].at
    BY <1>3, SockStep, Zenon
  <2>2. cs[c].at # "unmade" /\ s.local = client[cs[c].of].local /\ s.destroy = client[cs[c].of].destroy
    BY <1>3, <1>4, <2>1
  <2> QED BY <1>4, <1>5, <2>1, <2>2, GivesUpStep
<1>6. CASE MicBecomes(mic, [client EXCEPT ![k] = Peered(s, c)],
                           [cs EXCEPT ![c].at = "offer", ![c].conn = "open"])
  <2> DEFINE t == [s EXCEPT !.peer = c]
             ss == [client EXCEPT ![k] = t]
             v == call[c]
             w == [v EXCEPT !.sock = x]
             u == [w EXCEPT !.at = "offer", !.conn = "open"]
             cs2 == [call EXCEPT ![c] = u]
  <2>1. MicBecomes(mic, ss, cs2)
    <3>1. Peered(s, c) = t
      BY DEF Peered
    <3>2. [cs EXCEPT ![c].at = "offer", ![c].conn = "open"] = cs2
      BY MicIs, Zenon
    <3> HIDE DEF cs, cs2, t
    <3> QED BY <1>6, <3>1, <3>2, Zenon
  <2>2. t \in Clients /\ t.local = s.local /\ t.destroy = s.destroy /\ t.peer = c
    BY <1>4, PeerSet
  <2> HIDE DEF t
  <2>3. c # NoCall
    BY CallRange
  <2>4. ss \in [Call -> Clients] /\ OpenClient(k, client, ss) /\ ss[k].peer # NoCall
    BY <1>2, <1>4, <2>2, <2>3, MicIs, PutClient, Zenon
  <2>5. w \in Calls /\ w.at = v.at /\ w.of = v.of /\ w.track = v.track
    <3>1. x \in {"none", "opening", "open", "closed"}
      OBVIOUS
    <3> HIDE DEF x
    <3> QED BY <1>2, <3>1, SockSet, Zenon
  <2> HIDE DEF w
  <2>6. u \in Calls /\ u.at = "offer" /\ u.of = w.of /\ u.track = w.track
    BY <2>5, OfferSet, Zenon
  <2> HIDE DEF u
  <2>7. Goes(ss, k, v, u)
    BY <1>1, <2>4, <2>5, <2>6 DEF Goes
  <2>8. u.of = v.of /\ (u.track = "live" => v.track = "live") /\ v.at # "unmade"
    BY <1>1, <2>5, <2>6
  <2>9. cs2 \in [Call -> Calls] /\ OpenCalls(k, ss, call, cs2)
    BY <2>6, <2>7, <2>8, MicIs, PutCall, Zenon
  <2> HIDE DEF ss, cs2, k
  <2>10. MicOK(mic, ss, cs2)
    BY <1>2, <2>4, <2>9, MicIs, MicOpenStep DEF MicInv, MicTyped
  <2> QED BY <2>1, <2>10, MicBecame
<1> QED BY <1>1, <1>5, <1>6

LEMMA TrackEndsStep == ASSUME MicInv, NEW c \in Call, TrackEnds(c) PROVE MicInv'
<1> DEFINE k == call[c].of
           s == client[k]
           t == [s EXCEPT !.enabled = FALSE, !.expected = FALSE]
           ss == [client EXCEPT ![k] = t]
           v == call[c]
           u == [v EXCEPT !.track = "ended"]
           cs == [call EXCEPT ![c] = u]
           p == Notified(mic, ss, cs)
<1>1. /\ v.track = "live"
      /\ IF s.local = c THEN MicBecomes(p, ss, cs) ELSE MicBecomes(mic, client, cs)
  BY Zenon DEF TrackEnds
<1>2. k \in Call /\ s \in Clients /\ v \in Calls
  BY <1>1, MadeCall
<1>3. p \in MicPages /\ p.client = mic.client /\ p.strays = mic.strays
  BY MicIs, NotifiedIs
<1> HIDE DEF p
<1>4. t \in Clients /\ t.local = s.local /\ t.destroy = s.destroy /\ t.peer = s.peer
  BY <1>2, WishSet, Zenon
<1> HIDE DEF t
<1>5. ss \in [Call -> Clients] /\ OpenClient(k, client, ss)
  BY <1>2, <1>4, MicIs, PutClient, Zenon
<1>6. u \in Calls /\ u.track = "ended" /\ u.of = v.of /\ u.at = v.at /\ u.sock = v.sock
  BY <1>2, TrackSet, Zenon
<1> HIDE DEF u
<1>7. Goes(ss, k, v, u) /\ Goes(client, k, v, u)
  BY <1>6 DEF Goes
<1>8. cs \in [Call -> Calls] /\ OpenCalls(k, ss, call, cs) /\ OpenCalls(k, client, call, cs)
  BY <1>6, <1>7, MicIs, PutCall, Zenon
<1>9. s.local = c \/ s.local # c
  OBVIOUS
<1> HIDE DEF ss, cs, k, s
<1>10. MicOK(p, ss, cs)
  BY <1>2, <1>3, <1>5, <1>8, MicOpenStep DEF MicInv, MicTyped
<1>11. MicOK(mic, client, cs)
  BY <1>2, <1>8, MicIs, SameClient, MicOpenStep DEF MicInv, MicTyped
<1> QED BY <1>1, <1>9, <1>10, <1>11, MicBecame

LEMMA SocketClosesStep == ASSUME MicInv, NEW c \in Call, SocketCloses(c) PROVE MicInv'
<1> DEFINE k == call[c].of
           s == client[k]
           m == [s EXCEPT !.enabled = FALSE, !.expected = FALSE, !.connecting = FALSE]
           r == PeerReset(m)
           t == MicReleased(r)
           ss == [client EXCEPT ![k] = t]
           e == Stopped(s, call)
           x == "closed"
           cs == [e EXCEPT ![c].sock = x]
           p == Notified(mic, ss, cs)
<1>1. /\ call[c].sock = "open"
      /\ \/ MicBecomes(p, ss, cs)
         \/ MicBecomes(mic, client, [call EXCEPT ![c].sock = x])
  BY DEF SocketCloses
<1>2. k \in Call /\ s \in Clients /\ call[c] \in Calls /\ call[c].at # "unmade"
  BY <1>1, MadeCall
<1>3. p \in MicPages /\ p.client = mic.client /\ p.strays = mic.strays
  BY MicIs, NotifiedIs
<1> HIDE DEF p
<1>4. t \in Clients
  <2>1. r \in Clients
    BY <1>2, SessionSet, Zenon
  <2> HIDE DEF r
  <2> QED BY <2>1, MicReleasedIs
<1> HIDE DEF t
<1>5. ss \in [Call -> Clients] /\ \A j \in Call \ {k} : ss[j] = client[j]
  BY <1>2, <1>4, MicIs, ClientPut
<1>6. e \in [Call -> Calls] /\ MicEnded(call, e, s.local)
  BY <1>2, MicIs, StoppedIs
<1>7. x \in {"open", "closed"} /\ x \in {"none", "opening", "open", "closed"} /\ x # "open"
  OBVIOUS
<1> HIDE DEF ss, e, x
<1>8. CASE MicBecomes(mic, client, [call EXCEPT ![c].sock = x])
  <2> DEFINE f == [call EXCEPT ![c].sock = x]
  <2>1. MicBecomes(mic, client, f) /\ f = [call EXCEPT ![c].sock = x]
    BY <1>8
  <2> HIDE DEF f
  <2>2. MicOK(mic, client, f)
    BY <1>2, <1>7, <2>1, SockStep, Zenon
  <2> QED BY <2>1, <2>2, MicBecame
<1>9. CASE MicBecomes(p, ss, cs)
  <2> DEFINE v == e[c]
             u == [v EXCEPT !.sock = x]
  <2>1. v \in Calls
    BY <1>6
  <2>2. u \in Calls /\ u.at = v.at /\ u.of = v.of /\ u.track = v.track /\ u.sock = x
    BY <1>7, <2>1, SockSet, Zenon
  <2>3. cs = [e EXCEPT ![c] = u]
    OBVIOUS
  <2> HIDE DEF u, cs
  <2>4. cs \in [Call -> Calls] /\ cs[c] = u /\ \A d \in Call \ {c} : cs[d] = e[d]
    BY <1>6, <2>2, <2>3, CallPut
  <2>5. \A d \in Call :
            /\ cs[d].of = call[d].of
            /\ cs[d].sock = "open" => call[d].sock = "open"
            /\ cs[d].track = "live" => call[d].track = "live" /\ d # s.local
            /\ cs[d].at = call[d].at \/ (call[d].of = k /\ call[d].at # "unmade" /\ cs[d].at # "unmade")
    BY <1>6, <1>7, <2>2, <2>4 DEF MicEnded
  <2> HIDE DEF k
  <2>6. MicTyped(p, ss, cs) /\ MicOK(mic, client, call)
    BY <1>3, <1>5, <2>4 DEF MicTyped, MicInv
  <2>7. MicOK(p, ss, cs)
    BY <1>2, <1>3, <1>5, <2>5, <2>6, ClosedStep
  <2> QED BY <1>9, <2>7, MicBecame
<1> QED BY <1>1, <1>8, <1>9

LEMMA CapturedSet ==
  ASSUME NEW v \in Calls
  PROVE  /\ [v EXCEPT !.at = "signal", !.track = "live", !.sock = "opening"] \in Calls
         /\ [v EXCEPT !.at = "signal", !.track = "live", !.sock = "opening"].at = "signal"
         /\ [v EXCEPT !.at = "signal", !.track = "live", !.sock = "opening"].of = v.of
         /\ [v EXCEPT !.at = "signal", !.track = "live", !.sock = "opening"].sock = "opening"
BY Zenon DEF Calls, Waiting

LEMMA StraysSet ==
  ASSUME NEW p \in MicPages, NEW more \in SUBSET Call
  PROVE  /\ [p EXCEPT !.strays = @ \cup more] \in MicPages
         /\ [p EXCEPT !.strays = @ \cup more].strays = p.strays \cup more
         /\ [p EXCEPT !.strays = @ \cup more].client = p.client
<1> DEFINE all == p.strays \cup more
<1>1. all \in SUBSET Call
  BY MicPageFields
<1>2. [p EXCEPT !.strays = @ \cup more] = [p EXCEPT !.strays = all]
  OBVIOUS
<1>3. all = p.strays \cup more
  OBVIOUS
<1> HIDE DEF all
<1>4. /\ [p EXCEPT !.strays = all] \in MicPages /\ [p EXCEPT !.strays = all].strays = all
      /\ [p EXCEPT !.strays = all].client = p.client
  BY <1>1 DEF MicPages
<1> QED BY <1>2, <1>3, <1>4

LEMMA CapturedStep == ASSUME MicInv, NEW c \in Call, Captured(c) PROVE MicInv'
<1> DEFINE k == call[c].of
           s == client[k]
           t == [s EXCEPT !.local = c]
           ss == [client EXCEPT ![k] = t]
           v == call[c]
           u == [v EXCEPT !.at = "signal", !.track = "live", !.sock = "opening"]
           cs == [call EXCEPT ![c] = u]
           more == {d \in Call : \/ d = c /\ mic.client # k
                                 \/ d = s.local /\ call[d].track = "live"}
           p == [mic EXCEPT !.strays = @ \cup more]
<1>1. v.at = "capture" /\ MicBecomes(p, ss, cs)
  <2>1. [client EXCEPT ![k].local = c] = ss
    BY MicIs, Zenon
  <2>2. [call EXCEPT ![c].at = "signal", ![c].track = "live", ![c].sock = "opening"] = cs
    BY MicIs, Zenon
  <2>3. v.at = "capture" /\ mic' = p
    BY DEF Captured
  <2>4. /\ client' = [client EXCEPT ![k].local = c]
        /\ call' = [call EXCEPT ![c].at = "signal", ![c].track = "live", ![c].sock = "opening"]
    BY DEF Captured
  <2> HIDE DEF ss, cs, p
  <2> QED BY <2>1, <2>2, <2>3, <2>4 DEF MicBecomes
<1>2. k \in Call /\ s \in Clients /\ v \in Calls
  BY <1>1, MadeCall
<1>3. p \in MicPages /\ p.client = mic.client /\ p.strays = mic.strays \cup more
  <2>1. more \in SUBSET Call
    OBVIOUS
  <2> HIDE DEF more
  <2> QED BY <2>1, MicIs, StraysSet
<1> HIDE DEF p
<1>4. t \in Clients /\ t.local = c /\ t.destroy = s.destroy /\ t.peer = s.peer
  BY <1>2, LocalSet
<1> HIDE DEF t
<1>5. ss \in [Call -> Clients] /\ ss[k] = t /\ \A j \in Call \ {k} : ss[j] = client[j]
  BY <1>2, <1>4, MicIs, ClientPut
<1>6. u \in Calls /\ u.at = "signal" /\ u.of = k /\ u.sock = "opening"
  BY <1>2, CapturedSet, Zenon
<1> HIDE DEF u
<1>7. cs \in [Call -> Calls] /\ cs[c] = u /\ \A d \in Call \ {c} : cs[d] = call[d]
  BY <1>6, MicIs, CallPut
<1>8. MadeOK(cs)
  BY <1>1, <1>2, <1>6, <1>7, MicIs DEF MadeOK
<1>9. Elsewhere(k, mic, client, call, p, ss, cs)
  BY <1>1, <1>3, <1>5, <1>6, <1>7, <1>8, MicIs DEF Elsewhere
<1>10. ASSUME NEW d \in Call, cs[d].track = "live", d \notin p.strays, cs[d].of = k
       PROVE  MicKept(p, ss, cs, d)
  <2>1. CASE d = c
    <3>1. mic.client = k
      BY <1>3, <1>10, <2>1
    <3> QED BY <1>3, <1>4, <1>5, <1>6, <1>7, <2>1, <3>1 DEF MicKept
  <2>2. CASE d # c
    <3>1. cs[d] = call[d]
      BY <1>7, <2>2
    <3>2. MicKept(mic, client, call, d)
      BY <1>3, <1>10, <3>1, MicIs DEF KeptOK
    <3>3. d = s.local /\ call[d].track = "live"
      BY <1>10, <3>1, <3>2 DEF MicKept
    <3> QED BY <1>3, <1>10, <3>3
  <2> QED BY <2>1, <2>2
<1> HIDE DEF ss, cs, k
<1>11. KeptOK(p, ss, cs)
  BY <1>9, <1>10, KeptOn
<1>12. MicOK(p, ss, cs)
  BY <1>3, <1>5, <1>7, <1>8, <1>11 DEF MicOK, MicTyped
<1> QED BY <1>1, <1>12, MicBecame

LEMMA DiagnosticsStep ==
  ASSUME MicInv, OutboundAnswered \/ RouteAnswered \/ DiagnosticsPoll PROVE MicInv'
<1> DEFINE q == [mic EXCEPT !.asking = NoCall, !.sent = FALSE, !.shown = TRUE]
<1>1. q \in MicPages /\ q.client = mic.client /\ q.strays = mic.strays
  BY MicIs, CallRange, Zenon DEF MicPages
<1>2. UNCHANGED <<client, call>>
  BY DEF OutboundAnswered, RouteAnswered, DiagnosticsPoll
<1>3. mic' \in MicPages /\ mic'.client = mic.client /\ mic'.strays = mic.strays
  <2>1. CASE OutboundAnswered
    BY <2>1, MicIs, Zenon DEF OutboundAnswered, MicPages
  <2>2. CASE RouteAnswered
    <3>1. mic' = Timed(q, client, call)
      BY <2>2 DEF RouteAnswered
    <3> HIDE DEF q
    <3> QED BY <1>1, <3>1, TimedIs
  <2>3. CASE DiagnosticsPoll
    BY <2>3, MicIs, MicRefreshedIs DEF DiagnosticsPoll
  <2> QED BY <2>1, <2>2, <2>3
<1>4. MicOK(mic', client, call)
  BY <1>3, PageStep DEF MicInv
<1> QED BY <1>2, <1>4, MicBecame DEF MicBecomes

LEMMA ClientSet ==
  ASSUME NEW p \in MicPages, NEW n \in Call \cup {NoCall}
  PROVE  /\ [p EXCEPT !.client = n] \in MicPages /\ [p EXCEPT !.client = n].client = n
         /\ [p EXCEPT !.client = n].strays = p.strays
         /\ [p EXCEPT !.client = n, !.wanted = TRUE] \in MicPages
         /\ [p EXCEPT !.client = n, !.wanted = TRUE].client = n
         /\ [p EXCEPT !.client = n, !.wanted = TRUE].strays = p.strays
<1>1. n \in 0 .. MaxCalls
  BY CallRange
<1> QED BY <1>1, Zenon DEF MicPages

\* The page forgets its client, and the client closes.
LEMMA DestroyedStep ==
  ASSUME MicInv, NEW p \in MicPages, p.client = mic.client, p.strays = mic.strays, Destroyed(p)
  PROVE  MicInv'
<1> DEFINE k == p.client
           q == [p EXCEPT !.client = NoCall]
<1>1. q \in MicPages /\ q.client = NoCall /\ q.strays = mic.strays
  BY ClientSet, Zenon
<1> HIDE DEF q
<1>2. MicOK(mic, client, call) /\ mic \in MicPages /\ client \in [Call -> Clients] /\ call \in [Call -> Calls]
  BY MicIs DEF MicInv
<1>3. CASE k = NoCall
  <2> DEFINE a == Timed(q, client, call)
             b == MicRefreshed(a, client, call)
  <2>1. MicBecomes(b, client, call)
    BY <1>3 DEF Destroyed, q
  <2>2. a \in MicPages /\ a.client = NoCall /\ a.strays = mic.strays
    BY <1>1, TimedIs
  <2> HIDE DEF a
  <2>3. b \in MicPages /\ b.client = NoCall /\ b.strays = mic.strays
    BY <2>2, MicRefreshedIs
  <2> HIDE DEF b
  <2>4. MicOK(b, client, call)
    BY <1>2, <1>3, <2>3, PageStep, Zenon
  <2> QED BY <2>1, <2>4, MicBecame
<1>4. CASE k # NoCall
  <2> DEFINE s == client[k]
             taken == MicTaken(s)
             g == CloseBegun(s)
             h == [g EXCEPT !.destroy = taken]
             begun == [client EXCEPT ![k] = h]
  <2>1. k \in Call /\ s \in Clients
    BY <1>2, <1>4, MicIs
  <2>2. taken \in Closes /\ taken.open /\ NoClose \in Closes
    BY <2>1, MicTakenIs
  <2>3. g \in Clients /\ g.local = s.local
    BY <2>1, CloseBegunIs
  <2>4. \/ /\ Through(s)
           /\ MicBecomes(Notified(q, [begun EXCEPT ![k] = [MicReleased(@) EXCEPT !.destroy = NoClose]],
                                     CloseEnded(s, taken, call)),
                         [begun EXCEPT ![k] = [MicReleased(@) EXCEPT !.destroy = NoClose]],
                         CloseEnded(s, taken, call))
        \/ MicBecomes(q, begun, call)
    BY <1>4 DEF Destroyed, q
  <2> HIDE DEF taken, g
  <2>5. h \in Clients /\ h.local = s.local /\ h.destroy = taken
    BY <2>2, <2>3, DestroySet
  <2> HIDE DEF h
  <2>6. begun \in [Call -> Clients] /\ begun[k] = h /\ \A j \in Call \ {k} : begun[j] = client[j]
    BY <1>2, <2>1, <2>5, ClientPut
  <2>7. CASE MicBecomes(q, begun, call)
    <3>1. MicTyped(q, begun, call)
      BY <1>1, <1>2, <2>6 DEF MicTyped
    <3>2. begun[k].local = client[k].local /\ begun[k].destroy.open /\ Closing(k, begun, call)
      BY <2>2, <2>5, <2>6 DEF Closing
    <3> HIDE DEF begun
    <3>3. MicOK(q, begun, call)
      BY <1>1, <1>2, <2>1, <2>6, <3>1, <3>2, ClosingStep
    <3> QED BY <2>7, <3>3, MicBecame
  <2>8. CASE MicBecomes(Notified(q, [begun EXCEPT ![k] = [MicReleased(@) EXCEPT !.destroy = NoClose]],
                                     CloseEnded(s, taken, call)),
                         [begun EXCEPT ![k] = [MicReleased(@) EXCEPT !.destroy = NoClose]],
                         CloseEnded(s, taken, call))
    <3> DEFINE r == MicReleased(h)
               t == [r EXCEPT !.destroy = NoClose]
               ss == [client EXCEPT ![k] = t]
               cs == CloseEnded(s, taken, call)
               b == Notified(q, ss, cs)
    <3>1. [begun EXCEPT ![k] = [MicReleased(@) EXCEPT !.destroy = NoClose]] = ss
      BY <1>2, <2>1, Zenon
    <3>2. b \in MicPages /\ b.client = NoCall /\ b.strays = mic.strays
      BY <1>1, NotifiedIs
    <3>3. MicBecomes(b, ss, cs)
      <4> HIDE DEF ss, cs
      <4> QED BY <2>8, <3>1, Zenon DEF cs
    <3> HIDE DEF b
    <3>4. r \in Clients
      BY <2>5, MicReleasedIs
    <3> HIDE DEF r
    <3>5. t \in Clients
      BY <2>2, <3>4, DestroySet
    <3> HIDE DEF t
    <3>6. cs \in [Call -> Calls] /\ RanCalls(k, s, taken, call, cs)
      BY <1>2, <2>1, <2>2, CloseEndedIs DEF RanCalls
    <3>7. s.local = client[k].local
      OBVIOUS
    <3>8. MicBecomes(b, [client EXCEPT ![k] = t], cs)
      BY <3>3
    <3>9. b.client = mic.client \/ mic.client = k \/ mic.client = NoCall
      OBVIOUS
    <3> HIDE DEF s, cs, k, ss
    <3>10. MicOK(b, [client EXCEPT ![k] = t], cs)
      BY <1>2, <2>1, <2>2, <3>2, <3>5, <3>6, <3>7, <3>9, RanThrough, Zenon
    <3> QED BY <3>8, <3>10, MicBecame
  <2> QED BY <2>4, <2>7, <2>8
<1> QED BY <1>3, <1>4

LEMMA SwitchOffStep == ASSUME MicInv, SwitchOff \/ UnmountMic PROVE MicInv'
<1> DEFINE p == [mic EXCEPT !.wanted = FALSE, !.shown = FALSE]
           q == [mic EXCEPT !.gone = TRUE, !.wanted = FALSE]
<1>1. /\ p \in MicPages /\ p.client = mic.client /\ p.strays = mic.strays
      /\ q \in MicPages /\ q.client = mic.client /\ q.strays = mic.strays
  BY MicIs, Zenon DEF MicPages
<1>2. Destroyed(p) \/ Destroyed(q)
  BY DEF SwitchOff, UnmountMic
<1> HIDE DEF p, q
<1> QED BY <1>1, <1>2, DestroyedStep

LEMMA UnmadeIs ==
  Unmade \in Calls /\ Unmade.at = "unmade" /\ Unmade.track = "none" /\ Unmade.sock = "none"
<1>1. NoClose \in Closes /\ NoCall \in 0 .. MaxCalls
  BY CallRange DEF NoClose, Closes
<1> QED BY <1>1 DEF Unmade, Calls

\* The new call stands in the calls, and the page has the client it is for.
LEMMA CallAdded ==
  ASSUME MicInv, NEW c \in Call, call[c].at = "unmade", NEW u \in Calls,
         u.of \in Call, u.at = "closing", u.track = "none", u.sock = "none",
         mic.client = NoCall \/ mic.client = u.of,
         NEW p \in MicPages, p.client = u.of, p.strays = mic.strays
  PROVE  MicOK(p, client, [call EXCEPT ![c] = u])
<1> DEFINE cs == [call EXCEPT ![c] = u]
<1>1. cs \in [Call -> Calls] /\ cs[c] = u /\ \A d \in Call \ {c} : cs[d] = call[d]
  BY MicIs, CallPut
<1> HIDE DEF cs
<1>2. MadeOK(cs)
  BY <1>1, MicIs DEF MadeOK
<1>3. ASSUME NEW d \in Call, cs[d].track = "live", d \notin p.strays PROVE MicKept(p, client, cs, d)
  <2>1. d # c /\ cs[d] = call[d]
    BY <1>1, <1>3
  <2>2. MicKept(mic, client, call, d)
    BY <1>3, <2>1, MicIs DEF KeptOK
  <2>3. call[d].of \in Call
    BY <2>1, <1>3, MadeCall
  <2>4. call[d].of # NoCall
    BY <2>3, CallRange
  <2>5. Closing(call[d].of, client, call) => Closing(cs[d].of, client, cs)
    BY <1>1, <2>1 DEF Closing
  <2> QED BY <2>1, <2>2, <2>4, <2>5 DEF MicKept
<1>4. MicTyped(p, client, cs)
  BY <1>1, MicIs DEF MicTyped
<1> QED BY <1>2, <1>3, <1>4, Zenon DEF MicOK, KeptOK, cs

LEMMA SwitchOnStep == ASSUME MicInv, NEW c \in Call, SwitchOn(c) PROVE MicInv'
<1> DEFINE k == IF mic.client = NoCall THEN c ELSE mic.client
           s == client[k]
           n == s.serial + 1
           taken == MicTaken(s)
           u == [Unmade EXCEPT !.of = k, !.sid = n, !.at = "closing", !.close = taken]
           cs == [call EXCEPT ![c] = u]
           p == [mic EXCEPT !.client = k, !.wanted = TRUE]
           g == CloseBegun(s)
           begun == [client EXCEPT ![k] = g]
           e == CloseEnded(s, u.close, cs)
           ss2 == [begun EXCEPT ![k] = [MicReleased(@) EXCEPT !.serial = u.sid, !.expected = TRUE,
                                                              !.connecting = TRUE]]
           cs2 == [e EXCEPT ![c].at = "capture", ![c].close = NoClose]
<1>1. /\ call[c].at = "unmade"
      /\ \/ MicBecomes(Notified(p, ss2, e), ss2, cs2)
         \/ MicBecomes(Notified(p, begun, cs), begun, cs)
  BY DEF SwitchOn
<1>2. k \in Call /\ (mic.client = NoCall \/ mic.client = k)
  BY MicIs
<1> HIDE DEF k
<1>3. /\ s \in Clients /\ n \in Nat /\ mic \in MicPages /\ client \in [Call -> Clients]
      /\ call \in [Call -> Calls]
  BY <1>2, MicIs, ClientFields
<1>4. taken \in Closes /\ NoClose \in Closes
  BY <1>3, MicTakenIs
<1>5. /\ u \in Calls /\ u.of = k /\ u.at = "closing" /\ u.track = "none" /\ u.sock = "none"
      /\ u.sid = n
  <2> HIDE DEF n, taken, s
  <2> DEFINE v == Unmade
             w == [v EXCEPT !.of = k, !.sid = n, !.at = "closing", !.close = taken]
  <2>1. v \in Calls /\ v.track = "none" /\ v.sock = "none" /\ u = w
    BY UnmadeIs
  <2> HIDE DEF v, u
  <2>2. /\ w \in Calls /\ w.of = k /\ w.at = "closing" /\ w.track = v.track /\ w.sock = v.sock
        /\ w.sid = n
    <3>1. k \in 0 .. MaxCalls /\ "closing" \in Waiting
      BY <1>2, CallRange DEF Waiting
    <3> QED BY <1>3, <1>4, <2>1, <3>1, Zenon DEF Calls
  <2> HIDE DEF w
  <2> QED BY <2>1, <2>2
<1>6. u.close \in Closes
  BY <1>5, CallFields, Zenon
<1> HIDE DEF u
<1>7. p \in MicPages /\ p.client = k /\ p.strays = mic.strays
  BY <1>2, <1>3, ClientSet, Zenon
<1> HIDE DEF p
<1>8. MicOK(p, client, cs)
  BY <1>1, <1>2, <1>5, <1>7, CallAdded
<1>9. cs \in [Call -> Calls] /\ cs[c] = u
  BY <1>3, <1>5, CallPut
<1>10. g \in Clients /\ g.local = s.local /\ g.destroy = s.destroy
  BY <1>3, CloseBegunIs
<1> HIDE DEF cs, g
<1>11. begun \in [Call -> Clients] /\ begun[k] = g /\ \A j \in Call \ {k} : begun[j] = client[j]
  BY <1>2, <1>3, <1>10, ClientPut
<1>12. CASE MicBecomes(Notified(p, begun, cs), begun, cs)
  <2> DEFINE b == Notified(p, begun, cs)
  <2>1. b \in MicPages /\ b.client = k /\ b.strays = p.strays /\ MicBecomes(b, begun, cs)
    BY <1>7, <1>12, NotifiedIs
  <2> HIDE DEF b
  <2>2. /\ MicTyped(b, begun, cs) /\ Closing(k, begun, cs)
        /\ begun[k].local = client[k].local /\ begun[k].destroy = client[k].destroy
    BY <1>5, <1>9, <1>10, <1>11, <2>1 DEF MicTyped, Closing
  <2>3. \A d \in Call :
            /\ cs[d].of = cs[d].of
            /\ cs[d].sock = "open" => cs[d].sock = "open" \/ cs[d].at # "unmade"
            /\ cs[d].track = "live" => cs[d].track = "live"
            /\ \/ cs[d].at = cs[d].at
               \/ cs[d].of = k /\ cs[d].at # "unmade" /\ cs[d].at = "quitting"
    OBVIOUS
  <2> HIDE DEF begun
  <2>4. MicOK(b, begun, cs)
    BY <1>2, <1>7, <1>8, <1>11, <2>1, <2>2, <2>3, ClosingStep
  <2> QED BY <2>1, <2>4, MicBecame
<1>13. CASE MicBecomes(Notified(p, ss2, e), ss2, cs2)
  <2> DEFINE y == u.close
             r == MicReleased(g)
             m == u.sid
             t == [r EXCEPT !.serial = m, !.expected = TRUE, !.connecting = TRUE]
             b == Notified(p, ss2, e)
  <2>1. b \in MicPages /\ b.client = k /\ b.strays = p.strays
    BY <1>7, NotifiedIs
  <2>2. ss2 = [client EXCEPT ![k] = t]
    BY <1>2, <1>3, Zenon
  <2>3. MicBecomes(b, ss2, cs2)
    BY <1>13
  <2> HIDE DEF b, ss2
  <2>4. r \in Clients
    BY <1>10, MicReleasedIs
  <2> HIDE DEF r
  <2>5. m \in Nat
    BY <1>3, <1>5
  <2> HIDE DEF m
  <2>6. t \in Clients
    BY <2>4, <2>5, SerialSet, Zenon
  <2> HIDE DEF t
  <2>7. e \in [Call -> Calls] /\ MicEnded(cs, e, s.local)
    BY <1>3, <1>6, <1>9, CloseEndedIs
  <2>8. cs2 \in [Call -> Calls] /\ AtOnly(e, cs2, c, "capture")
    <3> DEFINE x == "capture"
    <3>1. x \in Waiting \cup {"done"} /\ cs2 = [e EXCEPT ![c].at = x, ![c].close = NoClose]
      BY DEF Waiting
    <3> HIDE DEF x, cs2, e
    <3>2. cs2 \in [Call -> Calls] /\ AtOnly(e, cs2, c, x)
      BY <1>4, <2>7, <3>1, AtClosePut, Zenon
    <3> QED BY <3>2 DEF x
  <2> HIDE DEF cs2
  <2>9. RanCalls(k, s, y, cs, cs2)
    BY <1>5, <1>9, <2>8 DEF AtOnly, RanCalls
  <2>10. s.local = client[k].local /\ y \in Closes
    BY <1>6
  <2> HIDE DEF y, s, e
  <2>11. MicOK(b, [client EXCEPT ![k] = t], cs2)
    BY <1>2, <1>3, <1>7, <1>8, <2>1, <2>6, <2>8, <2>9, <2>10, RanThrough, Zenon
  <2> QED BY <2>2, <2>3, <2>11, MicBecame
<1> QED BY <1>1, <1>12, <1>13

LEMMA MicStarts == ASSUME MicInit PROVE MicInv
<1>1. NoClose \in Closes /\ NoCall \in 0 .. MaxCalls
  BY CallRange DEF NoClose, Closes
<1>2. Unused \in Clients /\ Unmade \in Calls /\ Unmade.at = "unmade" /\ Unmade.track = "none"
      /\ Unmade.sock = "none"
  BY <1>1, UnmadeIs DEF Unused, Clients
<1>3. client = [c \in Call |-> Unused] /\ call = [c \in Call |-> Unmade]
  BY DEF MicInit
<1>4. mic \in MicPages
  BY <1>1 DEF MicInit, MicPages
<1>5. /\ client \in [Call -> Clients] /\ call \in [Call -> Calls]
      /\ \A c \in Call : call[c].at = "unmade" /\ call[c].track = "none" /\ call[c].sock = "none"
  BY <1>2, <1>3
<1> QED BY <1>4, <1>5 DEF MicInv, MicOK, MicTyped, MadeOK, KeptOK

LEMMA MicInvUnchanged == ASSUME MicInv, UNCHANGED micVars PROVE MicInv'
<1>1. MicBecomes(mic, client, call) /\ MicOK(mic, client, call)
  BY DEF micVars, MicBecomes, MicInv
<1> QED BY <1>1, MicBecame

LEMMA MicSteps == ASSUME MicInv, MicNext PROVE MicInv'
<1>1. ASSUME NEW k \in Call, DestroyEnds(k) PROVE MicInv'
  BY <1>1, DestroyEndsStep
<1>2. ASSUME NEW c \in Call,
             \/ SwitchOn(c) \/ MicClosed(c) \/ Quits(c)
             \/ NoCapture(c) \/ LateCapture(c) \/ Captured(c)
             \/ SocketFails(c) \/ SetupArrives(c) \/ Offered(c) \/ OfferFails(c)
             \/ TrackEnds(c) \/ SocketCloses(c) \/ Signal(c)
      PROVE  MicInv'
  BY <1>2, SwitchOnStep, MicClosedStep, QuitsStep, NoCaptureStep, LateCaptureStep, CapturedStep,
     SocketFailsStep, SetupArrivesStep, OfferedStep, OfferFailsStep, TrackEndsStep,
     SocketClosesStep, SignalStep
<1> QED BY <1>1, <1>2, SwitchOffStep, DiagnosticsStep DEF MicNext

LEMMA MicInvTypes == ASSUME MicInv PROVE MicTypeOK
BY MicIs, MicPageFields, ClientFields, CallFields DEF MicTypeOK

\* When no call is under way and no client is being thrown away, what a live
\* track is left with is the page's client and its peer.
LEMMA MicInvEnds == ASSUME MicInv PROVE CaptureEnds
<1> SUFFICES ASSUME MicQuiet, NEW c \in Call, c \notin mic.strays, call[c].track = "live"
             PROVE  /\ mic.client # NoCall /\ client[mic.client].local = c
                    /\ MicSummary(mic, client, call) # "off"
  BY DEF CaptureEnds
<1>1. MicKept(mic, client, call, c) /\ call[c].of \in Call
  BY MicIs, MadeCall DEF KeptOK
<1>2. call[c].of = mic.client /\ client[mic.client].local = c
  BY <1>1 DEF MicKept, MicQuiet
<1>3. ~Closing(mic.client, client, call)
  BY <1>1, <1>2 DEF MicQuiet, Closing, Waiting
<1>4. call[c].at = "done"
  BY <1>1 DEF MicKept, MicQuiet, Waiting
<1>5. client[mic.client].peer # NoCall
  BY <1>1, <1>2, <1>3, <1>4 DEF MicKept
<1>6. mic.client # NoCall /\ c # NoCall
  BY <1>1, <1>2, CallRange
<1>7. Attached(mic, client, call)
  BY <1>2, <1>5, <1>6 DEF Attached, Lives
<1>8. MicSummary(mic, client, call) = "up"
  BY <1>7 DEF MicSummary
<1> QED BY <1>2, <1>6, <1>8

-----------------------------------------------------------------------------
(* The queue of the media source *)

Inits == [kind : {"init"}, of : Nat]
FramesOf == [kind : {"frame"}, of : Nat, sequence : Nat, time : Int, duration : Int,
             key : BOOLEAN, size : {5, 9}]
Segments == Inits \cup FramesOf
Decoders ==
  [errored : BOOLEAN, source : BOOLEAN, made : Nat, updating : BOOLEAN, needIdr : BOOLEAN,
   dropped : Nat, shift : Int, last : Int, sequence : Nat,
   described : BOOLEAN, sps : BOOLEAN, pps : BOOLEAN]
Histories == [units : 0 .. MaxUnits, stale : BOOLEAN, headless : SUBSET Nat, failed : BOOLEAN]

\* What the source buffer was given last and what waits for it.
Run(g, q) == (IF g = NoSegment THEN <<>> ELSE <<g>>) \o q

FollowsIn(a, b, headless) ==
  IF b.kind = "init" THEN a.of < b.of
  ELSE /\ a.of = b.of
       /\ IF a.kind = "init"
          THEN b.sequence = (IF b.of \in headless THEN 2 ELSE 1)
          ELSE b.sequence = a.sequence + 1 /\ b.time > a.time

RunInOrder(p, headless) == \A i \in 1 .. Len(p) - 1 : FollowsIn(p[i], p[i + 1], headless)

\* A segment that the decoder's next frame can follow.
EndsRun(e, d, headless) ==
  /\ e.of = d.made
  /\ e.kind = "init" => d.made \in headless /\ d.sequence = 1
  /\ e.kind = "frame" => e.sequence = d.sequence /\ e.time <= d.last

EndsAt(p, d, headless) == p # <<>> => EndsRun(p[Len(p)], d, headless)

Made(p, d, s) ==
  \A i \in 1 .. Len(p) :
    /\ p[i].of <= d.made
    /\ d.source /\ ~s.stale => p[i].of = d.made

NoLater(headless, n) == \A m \in headless : m <= n

Shaped(d, q, g, s) ==
  /\ d \in Decoders /\ q \in Seq(Segments) /\ g \in Segments \cup {NoSegment} /\ s \in Histories
  /\ d.made <= s.units /\ d.sequence <= s.units /\ d.dropped <= MaxDropped
  /\ NoLater(s.headless, d.made)

\* A buffer nothing was given to yet begins with an init segment, one that is
\* busy has been given something, and one that fails without the browser's
\* fault was made while segments of the old one waited.
Begun(d, q, g, s) ==
  /\ d.source /\ ~s.stale /\ g = NoSegment => q # <<>> /\ q[1].kind = "init"
  /\ d.updating => d.source /\ g # NoSegment /\ ~d.errored
  /\ d.errored /\ ~s.failed => s.stale

SourceKept(d, q, g, s) ==
  /\ Shaped(d, q, g, s) /\ Begun(d, q, g, s)
  /\ RunInOrder(Run(g, q), s.headless) /\ EndsAt(Run(g, q), d, s.headless) /\ Made(Run(g, q), d, s)

SourceInv == SourceKept(decoder, buffers, given, seen)

LEMMA SegmentFields ==
  ASSUME NEW e \in Segments
  PROVE  /\ e # NoSegment /\ e.of \in Nat /\ e.kind \in {"init", "frame"}
         /\ e.kind = "frame" => e.sequence \in Nat /\ e.time \in Int
BY DEF Segments, Inits, FramesOf, NoSegment

LEMMA DecoderFields ==
  ASSUME NEW d \in Decoders
  PROVE  /\ d.errored \in BOOLEAN /\ d.source \in BOOLEAN /\ d.made \in Nat /\ d.updating \in BOOLEAN
         /\ d.needIdr \in BOOLEAN /\ d.dropped \in Nat /\ d.shift \in Int /\ d.last \in Int
         /\ d.sequence \in Nat /\ d.described \in BOOLEAN /\ d.sps \in BOOLEAN /\ d.pps \in BOOLEAN
BY DEF Decoders

LEMMA HistoryFields ==
  ASSUME NEW s \in Histories
  PROVE  /\ s.units \in 0 .. MaxUnits /\ s.stale \in BOOLEAN /\ s.headless \subseteq Nat
         /\ s.failed \in BOOLEAN
BY DEF Histories

LEMMA RunIs ==
  ASSUME NEW q \in Seq(Segments), NEW g \in Segments \cup {NoSegment}
  PROVE  /\ Run(g, q) \in Seq(Segments)
         /\ g = NoSegment => Run(g, q) = q
         /\ g # NoSegment =>
              /\ Len(Run(g, q)) = Len(q) + 1 /\ Run(g, q)[1] = g
              /\ \A i \in 1 .. Len(q) : Run(g, q)[i + 1] = q[i]
<1>1. CASE g = NoSegment
  <2>1. Run(g, q) = <<>> \o q
    BY <1>1 DEF Run
  <2>2. <<>> \o q = q
    OBVIOUS
  <2> QED BY <1>1, <2>1, <2>2
<1>2. CASE g # NoSegment
  <2>1. Run(g, q) = <<g>> \o q /\ g \in Segments
    BY <1>2 DEF Run
  <2>2. <<g>> \in Seq(Segments) /\ Len(<<g>>) = 1 /\ <<g>>[1] = g
    BY <2>1
  <2> QED BY <1>2, <2>1, <2>2
<1> QED BY <1>1, <1>2

LEMMA RunTaken ==
  ASSUME NEW q \in Seq(Segments), q # <<>>
  PROVE  Head(q) \in Segments /\ Tail(q) \in Seq(Segments) /\ Run(Head(q), Tail(q)) = q
<1>1. Head(q) \in Segments /\ Tail(q) \in Seq(Segments) /\ <<Head(q)>> \o Tail(q) = q
  OBVIOUS
<1>2. Head(q) # NoSegment
  BY <1>1, SegmentFields
<1> QED BY <1>1, <1>2 DEF Run

LEMMA RunAppended ==
  ASSUME NEW q \in Seq(Segments), NEW g \in Segments \cup {NoSegment}, NEW e \in Segments
  PROVE  Run(g, Append(q, e)) = Append(Run(g, q), e)
<1>1. CASE g = NoSegment
  <2>1. Append(q, e) \in Seq(Segments)
    OBVIOUS
  <2>2. Run(g, Append(q, e)) = Append(q, e) /\ Run(g, q) = q
    BY <1>1, <2>1, RunIs, Zenon
  <2> QED BY <2>2, Zenon
<1>2. CASE g # NoSegment
  <2>1. Run(g, q) = <<g>> \o q /\ g \in Segments /\ Run(g, Append(q, e)) = <<g>> \o Append(q, e)
    BY <1>2 DEF Run
  <2>2. Append(q, e) = q \o <<e>> /\ Append(Run(g, q), e) = Run(g, q) \o <<e>>
    BY <2>1, RunIs, AppendIsConcat, Zenon
  <2>3. <<g>> \in Seq(Segments) /\ <<e>> \in Seq(Segments)
    BY <2>1
  <2>4. (<<g>> \o q) \o <<e>> = <<g>> \o (q \o <<e>>)
    BY <2>3, ConcatAssociative
  <2>5. Append(Run(g, q), e) = (<<g>> \o q) \o <<e>>
    BY <2>1, <2>2, Zenon
  <2>6. Run(g, Append(q, e)) = <<g>> \o (q \o <<e>>)
    BY <2>1, <2>2, Zenon
  <2> QED BY <2>4, <2>5, <2>6, Zenon
<1> QED BY <1>1, <1>2

LEMMA OrderAppended ==
  ASSUME NEW p \in Seq(Segments), NEW e \in Segments, NEW headless,
         RunInOrder(p, headless), p # <<>> => FollowsIn(p[Len(p)], e, headless)
  PROVE  RunInOrder(Append(p, e), headless)
<1>1. /\ Len(p) \in Nat /\ Len(Append(p, e)) = Len(p) + 1
      /\ \A i \in 1 .. Len(p) : Append(p, e)[i] = p[i]
      /\ Append(p, e)[Len(p) + 1] = e
  BY AppendProperties, LenProperties
<1>2. SUFFICES ASSUME NEW i \in 1 .. Len(Append(p, e)) - 1
               PROVE  FollowsIn(Append(p, e)[i], Append(p, e)[i + 1], headless)
  BY DEF RunInOrder
<1>3. i \in 1 .. Len(p)
  BY <1>1
<1>4. CASE i = Len(p)
  <2>1. p # <<>>
    BY <1>3, <1>4
  <2> QED BY <1>1, <1>3, <1>4, <2>1
<1>5. CASE i # Len(p)
  <2>1. i \in 1 .. Len(p) - 1 /\ i + 1 \in 1 .. Len(p)
    BY <1>1, <1>3, <1>5
  <2> QED BY <1>1, <1>3, <2>1 DEF RunInOrder
<1> QED BY <1>4, <1>5

LEMMA HeadlessGrows ==
  ASSUME NEW p \in Seq(Segments), NEW headless, NEW n \in Nat, RunInOrder(p, headless),
         \A i \in 1 .. Len(p) : p[i].of <= n
  PROVE  RunInOrder(p, headless \cup {n + 1})
<1>1. SUFFICES ASSUME NEW i \in 1 .. Len(p) - 1
               PROVE  FollowsIn(p[i], p[i + 1], headless \cup {n + 1})
  BY Zenon DEF RunInOrder
<1>2. i + 1 \in 1 .. Len(p) /\ p[i + 1] \in Segments /\ Len(p) \in Nat
  BY LenProperties, ElementOfSeq
<1>3. p[i + 1].of \in Nat /\ p[i + 1].of <= n
  BY <1>2, SegmentFields
<1>4. p[i + 1].of # n + 1
  BY <1>3
<1>5. FollowsIn(p[i], p[i + 1], headless)
  BY DEF RunInOrder
<1> QED BY <1>4, <1>5 DEF FollowsIn

LEMMA MadeLonger ==
  ASSUME NEW p \in Seq(Segments), NEW e \in Segments, NEW d, NEW s,
         Made(p, d, s), e.of <= d.made, d.source /\ ~s.stale => e.of = d.made
  PROVE  Made(Append(p, e), d, s)
<1>1. /\ Len(p) \in Nat /\ Len(Append(p, e)) = Len(p) + 1
      /\ \A i \in 1 .. Len(p) : Append(p, e)[i] = p[i]
      /\ Append(p, e)[Len(p) + 1] = e
  BY AppendProperties, LenProperties
<1>2. ASSUME NEW i \in 1 .. Len(Append(p, e))
      PROVE  /\ Append(p, e)[i].of <= d.made
             /\ d.source /\ ~s.stale => Append(p, e)[i].of = d.made
  <2>1. CASE i = Len(p) + 1
    BY <1>1, <2>1
  <2>2. CASE i # Len(p) + 1
    <3>1. i \in 1 .. Len(p)
      BY <1>1, <1>2, <2>2
    <3> QED BY <1>1, <3>1 DEF Made
  <2> QED BY <2>1, <2>2
<1> QED BY <1>2 DEF Made

LEMMA AppendEnds ==
  ASSUME NEW p \in Seq(Segments), NEW e \in Segments, NEW d, NEW headless, EndsRun(e, d, headless)
  PROVE  EndsAt(Append(p, e), d, headless)
<1>1. Append(p, e)[Len(Append(p, e))] = e
  BY AppendProperties, LenProperties
<1> QED BY <1>1 DEF EndsAt

\* A decoder that only forgets and waits, or whose time goes on, keeps its queue
\* as it should be.
LEMMA Retuned ==
  ASSUME NEW d, NEW q, NEW g, NEW s, SourceKept(d, q, g, s),
         NEW e \in Decoders,
         e.errored = d.errored, e.source = d.source, e.made = d.made, e.sequence = d.sequence,
         e.updating => d.updating, e.last >= d.last, e.dropped <= MaxDropped
  PROVE  SourceKept(e, q, g, s)
<1>1. Shaped(d, q, g, s) /\ Begun(d, q, g, s)
  BY DEF SourceKept
<1>2. Shaped(e, q, g, s) /\ Begun(e, q, g, s)
  BY <1>1 DEF Shaped, Begun
<1>3. RunInOrder(Run(g, q), s.headless) /\ Made(Run(g, q), e, s)
  BY DEF SourceKept, Made
<1>4. EndsAt(Run(g, q), e, s.headless)
  <2>1. SUFFICES ASSUME Run(g, q) # <<>>
                 PROVE  EndsRun(Run(g, q)[Len(Run(g, q))], e, s.headless)
    BY DEF EndsAt
  <2>2. EndsRun(Run(g, q)[Len(Run(g, q))], d, s.headless)
    BY <2>1 DEF SourceKept, EndsAt
  <2>3. Run(g, q) \in Seq(Segments)
    BY <1>1, RunIs DEF Shaped
  <2>4. Run(g, q)[Len(Run(g, q))] \in Segments
    BY <2>1, <2>3
  <2> DEFINE f == Run(g, q)[Len(Run(g, q))]
  <2>5. f.kind = "frame" => f.time \in Int
    BY <2>4, SegmentFields
  <2>6. d.last \in Int /\ e.last \in Int
    BY <1>1 DEF Shaped, Decoders
  <2> QED BY <2>2, <2>5, <2>6 DEF EndsRun
<1> QED BY <1>2, <1>3, <1>4 DEF SourceKept

LEMMA CountedUnit ==
  ASSUME NEW d, NEW q, NEW g, NEW s, SourceKept(d, q, g, s), s.units < MaxUnits
  PROVE  SourceKept(d, q, g, [s EXCEPT !.units = @ + 1])
<1> DEFINE t == [s EXCEPT !.units = @ + 1]
<1>1. Shaped(d, q, g, s) /\ Begun(d, q, g, s)
  BY DEF SourceKept
<1>2. /\ t \in Histories /\ t.units = s.units + 1 /\ t.stale = s.stale /\ t.headless = s.headless
      /\ t.failed = s.failed /\ s.units \in Nat /\ d.made \in Nat /\ d.sequence \in Nat
  BY <1>1, SourceAssumption DEF Shaped, Histories, Decoders
<1> HIDE DEF t
<1>3. Shaped(d, q, g, t) /\ Begun(d, q, g, t)
  BY <1>1, <1>2 DEF Shaped, Begun
<1>4. /\ RunInOrder(Run(g, q), t.headless) /\ EndsAt(Run(g, q), d, t.headless)
      /\ Made(Run(g, q), d, t)
  BY <1>2 DEF SourceKept, Made
<1>5. SourceKept(d, q, g, t)
  BY <1>3, <1>4 DEF SourceKept
<1> QED BY <1>5 DEF t

LEMMA TryIs ==
  ASSUME NEW d \in Decoders, NEW q \in Seq(Segments), NEW g, TryAppendDecodeUnit(d, q, g)
  PROVE  \/ decoder' = d /\ buffers' = q /\ given' = g
         \/ /\ ~d.errored /\ d.source /\ q # <<>>
            /\ decoder' = [d EXCEPT !.updating = TRUE]
            /\ buffers' = Tail(q) /\ given' = Head(q)
<1>1. CASE Waits(d, q)
  BY <1>1 DEF TryAppendDecodeUnit
<1>2. CASE ~Waits(d, q)
  BY <1>2 DEF TryAppendDecodeUnit, Waits
<1> QED BY <1>1, <1>2

LEMMA GivenGone ==
  ASSUME NEW d, NEW q \in Seq(Segments), NEW g \in Segments \cup {NoSegment}, NEW s,
         g # NoSegment, RunInOrder(Run(g, q), s.headless), EndsAt(Run(g, q), d, s.headless),
         Made(Run(g, q), d, s)
  PROVE  RunInOrder(q, s.headless) /\ EndsAt(q, d, s.headless) /\ Made(q, d, s)
<1> DEFINE p == Run(g, q)
<1>1. /\ p \in Seq(Segments) /\ Len(p) = Len(q) + 1 /\ Len(q) \in Nat
      /\ \A i \in 1 .. Len(q) : p[i + 1] = q[i]
  BY RunIs, LenProperties
<1> HIDE DEF p
<1>2. RunInOrder(p, s.headless) /\ EndsAt(p, d, s.headless) /\ Made(p, d, s)
  BY DEF p
<1>3. RunInOrder(q, s.headless)
  <2>1. SUFFICES ASSUME NEW i \in 1 .. Len(q) - 1 PROVE FollowsIn(q[i], q[i + 1], s.headless)
    BY DEF RunInOrder
  <2>2. i + 1 \in 1 .. Len(p) - 1 /\ i \in 1 .. Len(q) /\ i + 1 \in 1 .. Len(q)
    BY <1>1
  <2>3. FollowsIn(p[i + 1], p[(i + 1) + 1], s.headless)
    BY <1>2, <2>2 DEF RunInOrder
  <2> QED BY <1>1, <2>2, <2>3
<1>4. EndsAt(q, d, s.headless)
  <2>1. SUFFICES ASSUME q # <<>> PROVE EndsRun(q[Len(q)], d, s.headless)
    BY DEF EndsAt
  <2>2. Len(q) \in 1 .. Len(q)
    BY <2>1, <1>1, EmptySeq
  <2>3. q[Len(q)] = p[Len(p)] /\ p # <<>>
    BY <1>1, <2>2
  <2> QED BY <1>2, <2>3 DEF EndsAt
<1>5. Made(q, d, s)
  <2>1. SUFFICES ASSUME NEW i \in 1 .. Len(q)
                 PROVE  /\ q[i].of <= d.made
                        /\ d.source /\ ~s.stale => q[i].of = d.made
    BY DEF Made
  <2>2. i + 1 \in 1 .. Len(p) /\ p[i + 1] = q[i]
    BY <1>1
  <2> QED BY <1>2, <2>2 DEF Made
<1> QED BY <1>3, <1>4, <1>5

LEMMA TryKeeps ==
  ASSUME NEW d, NEW q, NEW g, NEW s, SourceKept(d, q, g, s), TryAppendDecodeUnit(d, q, g)
  PROVE  SourceKept(decoder', buffers', given', s)
<1>1. Shaped(d, q, g, s) /\ Begun(d, q, g, s)
  BY DEF SourceKept
<1>2. CASE decoder' = d /\ buffers' = q /\ given' = g
  BY <1>2
<1>3. CASE /\ ~d.errored /\ d.source /\ q # <<>>
           /\ decoder' = [d EXCEPT !.updating = TRUE]
           /\ buffers' = Tail(q) /\ given' = Head(q)
  <2> DEFINE e == [d EXCEPT !.updating = TRUE]
  <2>1. /\ e \in Decoders /\ e.errored = d.errored /\ e.source = d.source /\ e.made = d.made
        /\ e.sequence = d.sequence /\ e.last = d.last /\ e.dropped = d.dropped
    BY <1>1, Zenon DEF Shaped, Decoders
  <2>2. decoder' = e
    BY <1>3
  <2> HIDE DEF e
  <2>3. /\ Head(q) \in Segments /\ Tail(q) \in Seq(Segments) /\ Run(Head(q), Tail(q)) = q
        /\ Head(q) # NoSegment
    BY <1>1, <1>3, RunTaken, SegmentFields DEF Shaped
  <2>4. Shaped(e, Tail(q), Head(q), s)
    BY <1>1, <2>1, <2>3 DEF Shaped
  <2>5. Begun(e, Tail(q), Head(q), s)
    BY <1>1, <1>3, <2>1, <2>3 DEF Begun
  <2>6. RunInOrder(q, s.headless) /\ EndsAt(q, e, s.headless) /\ Made(q, e, s)
    <3>1. CASE g = NoSegment
      <4>1. Run(g, q) = q
        BY <1>1, <3>1, RunIs DEF Shaped
      <4> QED BY <2>1, <4>1 DEF SourceKept, EndsAt, EndsRun, Made
    <3>2. CASE g # NoSegment
      <4>1. RunInOrder(q, s.headless) /\ EndsAt(q, d, s.headless) /\ Made(q, d, s)
        BY <1>1, <3>2, GivenGone DEF Shaped, SourceKept
      <4> QED BY <2>1, <4>1 DEF EndsAt, EndsRun, Made
    <3> QED BY <3>1, <3>2
  <2>7. SourceKept(e, Tail(q), Head(q), s)
    BY <2>3, <2>4, <2>5, <2>6 DEF SourceKept
  <2> QED BY <1>3, <2>2, <2>7, Zenon
<1>4. d \in Decoders /\ q \in Seq(Segments)
  BY <1>1 DEF Shaped
<1> QED BY <1>2, <1>3, <1>4, TryIs

LEMMA PolledIs ==
  ASSUME NEW d \in Decoders
  PROVE  /\ PollRequestIdr(d) \in Decoders
         /\ PollRequestIdr(d).errored = d.errored /\ PollRequestIdr(d).source = d.source
         /\ PollRequestIdr(d).made = d.made /\ PollRequestIdr(d).sequence = d.sequence
         /\ PollRequestIdr(d).updating = d.updating /\ PollRequestIdr(d).last = d.last
         /\ PollRequestIdr(d).dropped <= MaxDropped
<1>1. CASE d.dropped > MaxDropped
  BY <1>1, SourceAssumption DEF PollRequestIdr, Decoders
<1>2. CASE ~(d.dropped > MaxDropped)
  BY <1>2, SourceAssumption DEF PollRequestIdr, Decoders
<1> QED BY <1>1, <1>2

LEMMA TranslatedIs ==
  ASSUME NEW d \in Decoders, NEW unit \in Units
  PROVE  /\ Translated(d, unit) \in Decoders
         /\ Translated(d, unit).errored = d.errored /\ Translated(d, unit).source = d.source
         /\ Translated(d, unit).made = d.made /\ Translated(d, unit).sequence = d.sequence
         /\ Translated(d, unit).updating = d.updating /\ Translated(d, unit).last = d.last
         /\ Translated(d, unit).dropped = d.dropped
<1> DEFINE pair == Reconfigures(d, unit)
<1>1. pair \in BOOLEAN /\ unit.sps \in BOOLEAN /\ unit.pps \in BOOLEAN
  BY DEF Reconfigures, Units, Decoders
<1> DEFINE a == d.described \/ pair
           b == (d.sps \/ unit.sps) /\ ~pair
           c == (d.pps \/ unit.pps) /\ ~pair
<1>2. a \in BOOLEAN /\ b \in BOOLEAN /\ c \in BOOLEAN
  BY Zenon
<1>3. Translated(d, unit) = [d EXCEPT !.described = a, !.sps = b, !.pps = c]
  BY Zenon DEF Translated
<1> HIDE DEF a, b, c, pair
<1> QED BY <1>2, <1>3, Zenon DEF Decoders

LEMMA TimestampIs ==
  ASSUME NEW d \in Decoders, NEW unit \in Units
  PROVE  Timestamp(d, unit) \in Int /\ Timestamp(d, unit) > d.last
<1>1. unit.at \in Stamps /\ d.shift \in Int /\ d.last \in Int
  BY DEF Units, Decoders
<1>2. \A stamp \in Stamps : stamp \in Int
  <2>1. Stamps \subseteq Nat
    BY SourceAssumption
  <2> QED BY <2>1
<1>3. unit.at \in Int
  BY <1>1, <1>2, Zenon
<1> QED BY <1>1, <1>3 DEF Timestamp, ExpectedDuration

LEMMA FrameIs ==
  ASSUME NEW d \in Decoders, NEW unit \in Units, NEW n \in Nat, NEW time \in Int, NEW key \in BOOLEAN
  PROVE  /\ Frame(d, unit, n, time, key) \in FramesOf
         /\ Frame(d, unit, n, time, key).kind = "frame" /\ Frame(d, unit, n, time, key).of = d.made
         /\ Frame(d, unit, n, time, key).sequence = n /\ Frame(d, unit, n, time, key).time = time
<1>1. Timestamp(d, unit) - d.last \in Int
  BY TimestampIs DEF Decoders
<1>2. d.made \in Nat
  BY DEF Decoders
<1> QED BY <1>1, <1>2 DEF Frame, FramesOf

\* A step whose outcome is what the queue may be keeps it so.
LEMMA OutcomeKept ==
  ASSUME SourceKept(decoder', buffers', given', seen')
  PROVE  SourceInv'
BY DEF SourceInv

\* A frame of the configuration there is goes to the end of the queue.
LEMMA FollowStep ==
  ASSUME NEW d, NEW s, SourceKept(d, buffers, given, s), d.sequence < s.units,
         NEW unit \in Units, Follow(d, unit)
  PROVE  SourceKept(decoder', buffers', given', s)
<1> DEFINE time == Timestamp(d, unit)
           n == d.sequence + 1
<1>0. /\ d \in Decoders /\ buffers \in Seq(Segments) /\ given \in Segments \cup {NoSegment}
      /\ s \in Histories /\ d.made <= s.units /\ d.dropped <= MaxDropped /\ d.sequence \in Nat
  BY DEF SourceKept, Shaped, Decoders
<1>1. time \in Int /\ time > d.last /\ n \in Nat /\ d.last \in Int /\ d.dropped \in Nat
  BY <1>0, TimestampIs DEF Decoders
<1> HIDE DEF time
<1>2. CASE d.needIdr
  <2> DEFINE m == d.dropped + 1
             e == [d EXCEPT !.last = time, !.dropped = m]
  <2>1. Quiet(e)
    BY <1>2, Zenon DEF Follow, time
  <2>0. m \in Nat
    BY <1>1
  <2> HIDE DEF m, n
  <2>2. /\ e \in Decoders /\ e.errored = d.errored /\ e.source = d.source /\ e.made = d.made
        /\ e.sequence = d.sequence /\ e.updating = d.updating /\ e.last = time
    BY <1>0, <1>1, <2>0, Zenon DEF Decoders
  <2> HIDE DEF e
  <2> DEFINE f == PollRequestIdr(e)
  <2>3. /\ f \in Decoders /\ f.errored = d.errored /\ f.source = d.source /\ f.made = d.made
        /\ f.sequence = d.sequence /\ f.updating = d.updating /\ f.last = time
        /\ f.dropped <= MaxDropped
    BY <2>2, PolledIs
  <2>4. decoder' = f /\ buffers' = buffers /\ given' = given
    BY <2>1 DEF Quiet
  <2> HIDE DEF f
  <2>5. SourceKept(f, buffers, given, s)
    BY <1>1, <2>3, Retuned
  <2> QED BY <2>4, <2>5
<1>3. CASE ~d.needIdr
  <2> DEFINE f == [d EXCEPT !.last = time, !.sequence = n]
             e == PollRequestIdr(f)
             frame == Frame(d, unit, f.sequence, time, FALSE)
             q == Append(buffers, frame)
  <2>1. TryAppendDecodeUnit(e, q, given)
    BY <1>3, Zenon DEF Follow, time
  <2>0. n = d.sequence + 1
    OBVIOUS
  <2> HIDE DEF n
  <2>2. /\ f \in Decoders /\ f.errored = d.errored /\ f.source = d.source /\ f.made = d.made
        /\ f.sequence = n /\ f.updating = d.updating /\ f.last = time
    BY <1>0, <1>1, Zenon DEF Decoders
  <2> HIDE DEF f
  <2>3. /\ e \in Decoders /\ e.errored = d.errored /\ e.source = d.source /\ e.made = d.made
        /\ e.sequence = n /\ e.updating = d.updating /\ e.last = time /\ e.dropped <= MaxDropped
    BY <2>2, PolledIs
  <2>4. /\ frame \in FramesOf /\ frame.kind = "frame" /\ frame.of = d.made
        /\ frame.sequence = n /\ frame.time = time
    <3> HIDE DEF e, q, frame
    <3>1. frame = Frame(d, unit, n, time, FALSE)
      BY <2>2, Zenon DEF frame
    <3>2. /\ Frame(d, unit, n, time, FALSE) \in FramesOf
          /\ Frame(d, unit, n, time, FALSE).kind = "frame" /\ Frame(d, unit, n, time, FALSE).of = d.made
          /\ Frame(d, unit, n, time, FALSE).sequence = n /\ Frame(d, unit, n, time, FALSE).time = time
      BY <1>0, <1>1, FrameIs, Zenon
    <3> QED BY <3>1, <3>2, Zenon
  <2>5. frame \in Segments
    BY <2>4, Zenon DEF Segments
  <2> HIDE DEF e, frame
  <2>6. /\ q \in Seq(Segments) /\ q # <<>>
        /\ buffers # <<>> => q[1] = buffers[1]
    BY <1>0, <2>5
  <2> DEFINE p == Run(given, buffers)
  <2>7. Run(given, q) = Append(p, frame) /\ p \in Seq(Segments)
    BY <1>0, <2>5, RunAppended, RunIs
  <2>8. RunInOrder(p, s.headless) /\ EndsAt(p, d, s.headless) /\ Made(p, d, s) /\ Begun(d, buffers, given, s)
    BY DEF SourceKept
  <2> HIDE DEF p, q
  <2>9. p # <<>> => FollowsIn(p[Len(p)], frame, s.headless)
    <3>1. SUFFICES ASSUME p # <<>> PROVE FollowsIn(p[Len(p)], frame, s.headless)
      OBVIOUS
    <3> DEFINE a == p[Len(p)]
    <3>2. EndsRun(a, d, s.headless) /\ a \in Segments
      BY <2>7, <2>8, <3>1 DEF EndsAt
    <3> HIDE DEF a
    <3>3. a.kind \in {"init", "frame"} /\ (a.kind = "frame" => a.time \in Int)
      BY <3>2, SegmentFields
    <3>4. FollowsIn(a, frame, s.headless)
      BY <1>0, <1>1, <2>0, <2>4, <3>2, <3>3 DEF FollowsIn, EndsRun
    <3> QED BY <3>4 DEF a
  <2>10. RunInOrder(Append(p, frame), s.headless)
    BY <2>5, <2>7, <2>8, <2>9, OrderAppended
  <2>11. EndsRun(frame, e, s.headless)
    BY <1>1, <2>0, <2>3, <2>4 DEF EndsRun
  <2>12. EndsAt(Append(p, frame), e, s.headless)
    BY <2>5, <2>7, <2>11, AppendEnds
  <2>13. Made(p, e, s) /\ frame.of <= e.made /\ (e.source /\ ~s.stale => frame.of = e.made)
    BY <1>0, <2>3, <2>4, <2>8 DEF Made, Decoders
  <2>14. Made(Append(p, frame), e, s)
    BY <2>5, <2>7, <2>13, MadeLonger
  <2>15. Shaped(e, q, given, s)
    <3>1. e.sequence <= s.units /\ e.made <= s.units
      BY <1>0, <1>1, <2>0, <2>3 DEF Histories
    <3>2. NoLater(s.headless, e.made)
      BY <2>3 DEF SourceKept, Shaped
    <3> QED BY <1>0, <2>3, <2>6, <3>1, <3>2 DEF Shaped
  <2>16. Begun(e, q, given, s)
    <3>1. e.source /\ ~s.stale /\ given = NoSegment => q # <<>> /\ q[1].kind = "init"
      BY <2>3, <2>6, <2>8 DEF Begun
    <3>2. /\ e.updating => e.source /\ given # NoSegment /\ ~e.errored
          /\ e.errored /\ ~s.failed => s.stale
      BY <2>3, <2>8 DEF Begun
    <3> QED BY <3>1, <3>2, Zenon DEF Begun
  <2>17. SourceKept(e, q, given, s)
    BY <2>7, <2>10, <2>12, <2>14, <2>15, <2>16 DEF SourceKept
  <2> QED BY <2>1, <2>17, TryKeeps
<1> QED BY <1>2, <1>3

\* A configuration the browser refuses leaves no source buffer.
LEMMA RefusedStep ==
  ASSUME NEW d, NEW s, SourceKept(d, buffers, given, s), NEW unit \in Units,
         decoder' = [d EXCEPT !.source = FALSE, !.updating = FALSE, !.last = Timestamp(d, unit)],
         given' = NoSegment, buffers' = buffers
  PROVE  SourceKept(decoder', buffers', given', s)
<1> DEFINE time == Timestamp(d, unit)
           e == [d EXCEPT !.source = FALSE, !.updating = FALSE, !.last = time]
<1>0. /\ d \in Decoders /\ buffers \in Seq(Segments) /\ given \in Segments \cup {NoSegment}
      /\ Shaped(d, buffers, given, s) /\ Begun(d, buffers, given, s)
  BY DEF SourceKept, Shaped
<1>1. time \in Int /\ time > d.last /\ d.last \in Int
  BY <1>0, TimestampIs DEF Decoders
<1> HIDE DEF time
<1>2. /\ e \in Decoders /\ e.errored = d.errored /\ e.made = d.made /\ e.sequence = d.sequence
      /\ e.dropped = d.dropped /\ e.source = FALSE /\ e.updating = FALSE /\ e.last = time
  BY <1>0, <1>1, Zenon DEF Decoders
<1>3. decoder' = e
  BY DEF time
<1> HIDE DEF e
<1>4. Shaped(e, buffers, NoSegment, s) /\ Begun(e, buffers, NoSegment, s)
  BY <1>0, <1>2 DEF Shaped, Begun
<1> DEFINE p == Run(given, buffers)
<1>5. RunInOrder(p, s.headless) /\ EndsAt(p, d, s.headless) /\ Made(p, d, s)
  BY DEF SourceKept
<1>6. Run(NoSegment, buffers) = buffers
  BY <1>0, RunIs
<1>7. RunInOrder(buffers, s.headless) /\ EndsAt(buffers, d, s.headless) /\ Made(buffers, d, s)
  <2>1. CASE given = NoSegment
    BY <1>0, <1>5, <2>1, RunIs
  <2>2. CASE given # NoSegment
    BY <1>0, <1>5, <2>2, GivenGone
  <2> QED BY <2>1, <2>2
<1>8. Made(buffers, e, s)
  BY <1>2, <1>7 DEF Made
<1>9. EndsAt(buffers, e, s.headless)
  <2>1. SUFFICES ASSUME buffers # <<>> PROVE EndsRun(buffers[Len(buffers)], e, s.headless)
    BY DEF EndsAt
  <2> DEFINE a == buffers[Len(buffers)]
  <2>2. EndsRun(a, d, s.headless) /\ a \in Segments
    BY <1>0, <1>7, <2>1 DEF EndsAt
  <2> HIDE DEF a
  <2>3. a.kind = "frame" => a.time \in Int
    BY <2>2, SegmentFields
  <2>4. EndsRun(a, e, s.headless)
    BY <1>1, <1>2, <2>2, <2>3 DEF EndsRun
  <2> QED BY <2>4 DEF a
<1>10. SourceKept(e, buffers, NoSegment, s)
  BY <1>4, <1>6, <1>7, <1>8, <1>9 DEF SourceKept
<1> QED BY <1>3, <1>10

\* A new configuration begins with its init segment, behind what still waits.
LEMMA ConfiguredIs ==
  ASSUME NEW d \in Decoders, NEW unit \in Units
  PROVE  /\ Configured(d, unit) \in Decoders /\ Configured(d, unit).errored = d.errored
         /\ Configured(d, unit).source = TRUE /\ Configured(d, unit).made = d.made + 1
         /\ Configured(d, unit).sequence = 1 /\ Configured(d, unit).updating = FALSE
         /\ Configured(d, unit).last = 0 /\ Configured(d, unit).dropped = d.dropped
<1>1. unit.at \in Int
  <2>1. unit.at \in Stamps
    BY DEF Units
  <2>2. \A stamp \in Stamps : stamp \in Int
    <3>1. Stamps \subseteq Nat
      BY SourceAssumption
    <3> QED BY <3>1
  <2> QED BY <2>1, <2>2, Zenon
<1> DEFINE at == unit.at
           m == d.made + 1
           e == [d EXCEPT !.source = TRUE, !.made = m, !.updating = FALSE]
           c == [e EXCEPT !.shift = at, !.last = 0, !.sequence = 1]
<1>2. Configured(d, unit) = c
  BY DEF Configured, CreateNewSourceBuffer
<1>3. m \in Nat /\ at \in Int
  BY <1>1 DEF Decoders
<1> HIDE DEF at, m
<1>4. /\ e \in Decoders /\ e.errored = d.errored /\ e.source = TRUE /\ e.made = m
      /\ e.updating = FALSE /\ e.dropped = d.dropped
  BY <1>3, Zenon DEF Decoders
<1> HIDE DEF e
<1>5. /\ c \in Decoders /\ c.errored = e.errored /\ c.source = e.source /\ c.made = e.made
      /\ c.sequence = 1 /\ c.updating = e.updating /\ c.last = 0 /\ c.dropped = e.dropped
  <2>0. e \in Decoders /\ 0 \in Int /\ 1 \in Nat
    BY <1>4
  <2>1. c \in Decoders
    BY <1>3, <2>0, Zenon DEF Decoders
  <2>2. /\ c.errored = e.errored /\ c.source = e.source /\ c.made = e.made
        /\ c.sequence = 1 /\ c.updating = e.updating /\ c.last = 0 /\ c.dropped = e.dropped
    BY <2>0 DEF Decoders
  <2> QED BY <2>1, <2>2
<1> HIDE DEF c
<1> QED BY <1>2, <1>4, <1>5 DEF m

\* What is queued for a new configuration, before its frame is looked at.
LEMMA InitQueued ==
  ASSUME NEW d, NEW s, SourceKept(d, buffers, given, s), s.units < MaxUnits,
         NEW c \in Decoders, c.errored = d.errored, c.source = TRUE, c.made = d.made + 1,
         c.sequence = 1, c.updating = FALSE, c.dropped <= MaxDropped,
         NEW t \in Histories, t.units = s.units + 1, t.stale = (buffers # <<>>),
         t.failed = s.failed, t.headless \in {s.headless, s.headless \cup {d.made + 1}},
         ~d.errored, NEW q, q = Append(buffers, InitOf(d.made + 1))
  PROVE  /\ Shaped(c, q, NoSegment, t) /\ Begun(c, q, NoSegment, t)
         /\ RunInOrder(q, t.headless) /\ Made(q, c, t) /\ q # <<>>
         /\ q[Len(q)] = InitOf(d.made + 1) /\ InitOf(d.made + 1) \in Segments
<1> DEFINE m == d.made + 1
           e == InitOf(m)
<1>0. /\ d \in Decoders /\ buffers \in Seq(Segments) /\ given \in Segments \cup {NoSegment}
      /\ s \in Histories /\ d.made <= s.units /\ d.made \in Nat /\ s.units \in Nat
  BY SourceAssumption DEF SourceKept, Shaped, Decoders, Histories
<1>1. m \in Nat /\ m > d.made /\ m <= t.units /\ m = c.made /\ m = d.made + 1
  BY <1>0
<1>q. q = Append(buffers, e)
  OBVIOUS
<1> HIDE DEF m
<1>2. e \in Segments /\ e.kind = "init" /\ e.of = m
  BY <1>1 DEF InitOf, Segments, Inits
<1> HIDE DEF e
<1>3. RunInOrder(buffers, s.headless) /\ EndsAt(buffers, d, s.headless) /\ Made(buffers, d, s)
  <2>1. CASE given = NoSegment
    BY <1>0, <2>1, RunIs DEF SourceKept
  <2>2. CASE given # NoSegment
    BY <1>0, <2>2, GivenGone DEF SourceKept
  <2> QED BY <2>1, <2>2
<1>4. \A i \in 1 .. Len(buffers) : buffers[i].of <= d.made
  BY <1>3 DEF Made
<1>5. RunInOrder(buffers, t.headless)
  <2>1. RunInOrder(buffers, s.headless \cup {d.made + 1})
    BY <1>0, <1>3, <1>4, HeadlessGrows, Zenon
  <2> QED BY <1>3, <2>1, Zenon
<1>6. buffers # <<>> => FollowsIn(buffers[Len(buffers)], e, t.headless)
  <2>1. SUFFICES ASSUME buffers # <<>> PROVE FollowsIn(buffers[Len(buffers)], e, t.headless)
    OBVIOUS
  <2>2. Len(buffers) \in 1 .. Len(buffers)
    BY <1>0, <2>1
  <2>3. buffers[Len(buffers)].of <= d.made /\ buffers[Len(buffers)] \in Segments
    BY <1>0, <1>4, <2>2
  <2>4. buffers[Len(buffers)].of \in Nat
    BY <2>3, SegmentFields
  <2>5. buffers[Len(buffers)].of < e.of
    BY <1>0, <1>1, <1>2, <2>3, <2>4
  <2> QED BY <1>2, <2>5 DEF FollowsIn
<1>7. RunInOrder(q, t.headless)
  BY <1>0, <1>2, <1>5, <1>6, <1>q, OrderAppended
<1>8. Made(buffers, c, t)
  <2>1. SUFFICES ASSUME NEW i \in 1 .. Len(buffers)
                 PROVE  /\ buffers[i].of <= c.made
                        /\ c.source /\ ~t.stale => buffers[i].of = c.made
    BY DEF Made
  <2>2. buffers[i] \in Segments /\ buffers # <<>>
    BY <1>0
  <2>3. buffers[i].of \in Nat /\ buffers[i].of <= d.made
    BY <1>4, <2>2, SegmentFields
  <2>4. t.stale
    BY <2>2, Zenon
  <2>5. buffers[i].of <= c.made
    BY <1>0, <1>1, <2>3
  <2> QED BY <2>4, <2>5
<1>9. Made(q, c, t)
  <2>1. e.of <= c.made /\ (c.source /\ ~t.stale => e.of = c.made)
    BY <1>1, <1>2
  <2> QED BY <1>0, <1>2, <1>8, <1>q, <2>1, MadeLonger
<1>10. /\ q \in Seq(Segments) /\ q # <<>> /\ q[Len(q)] = e
       /\ buffers = <<>> => q[1] = e
  BY <1>0, <1>2, <1>q, AppendProperties
<1>11. Shaped(c, q, NoSegment, t)
  <2>1. c.sequence <= t.units
    BY <1>0
  <2>2. NoLater(t.headless, c.made)
    <3>1. NoLater(s.headless, d.made) /\ s.headless \subseteq Nat
      BY <1>0, HistoryFields DEF SourceKept, Shaped
    <3> QED BY <1>0, <1>1, <3>1 DEF NoLater
  <2> QED BY <1>1, <1>10, <2>1, <2>2 DEF Shaped
<1>12. Begun(c, q, NoSegment, t)
  BY <1>2, <1>10, Zenon DEF Begun
<1> QED BY <1>2, <1>7, <1>9, <1>10, <1>11, <1>12 DEF e, m

LEMMA ConfigureStep ==
  ASSUME NEW d, NEW unit \in Units, SourceKept(d, buffers, given, seen), ~d.errored,
         seen.units < MaxUnits, Configure(d, unit)
  PROVE  SourceKept(decoder', buffers', given', seen')
<1> DEFINE c == Configured(d, unit)
           m == d.made + 1
           n == seen.units + 1
           st == (buffers # <<>>)
           hl == IF unit.idrFirst THEN seen.headless ELSE seen.headless \cup {c.made}
           t == [seen EXCEPT !.units = n, !.stale = st, !.headless = hl]
           q == Append(buffers, InitOf(m))
<1>0. /\ d \in Decoders /\ seen \in Histories /\ d.dropped <= MaxDropped /\ d.made \in Nat
      /\ seen.units \in 0 .. MaxUnits /\ seen.headless \subseteq Nat /\ d.dropped \in Nat
  BY DecoderFields, HistoryFields DEF SourceKept, Shaped
<1>1. /\ c \in Decoders /\ c.errored = d.errored /\ c.source = TRUE /\ c.made = m
      /\ c.sequence = 1 /\ c.updating = FALSE /\ c.last = 0 /\ c.dropped = d.dropped
  BY <1>0, ConfiguredIs, Zenon
<1>2. seen' = t
  BY Zenon DEF Configure
<1> HIDE DEF c
<1>3. n \in 0 .. MaxUnits /\ m \in Nat /\ hl \subseteq Nat /\ st \in BOOLEAN
  BY <1>0, <1>1, SourceAssumption
<1>4. /\ unit.idrFirst => hl = seen.headless
      /\ ~unit.idrFirst => hl = seen.headless \cup {m}
  BY <1>1
<1> HIDE DEF st, hl
<1>5. /\ t \in Histories /\ t.units = n /\ t.stale = st /\ t.headless = hl /\ t.failed = seen.failed
  BY <1>0, <1>3, Zenon DEF Histories
<1> HIDE DEF t
<1>6. /\ Shaped(c, q, NoSegment, t) /\ Begun(c, q, NoSegment, t)
      /\ RunInOrder(q, t.headless) /\ Made(q, c, t) /\ q # <<>>
      /\ q[Len(q)] = InitOf(m) /\ InitOf(m) \in Segments
  <2>1. t.headless \in {seen.headless, seen.headless \cup {d.made + 1}}
    BY <1>4, <1>5
  <2>2. t.stale = (buffers # <<>>)
    BY <1>5 DEF st
  <2> QED BY <1>0, <1>1, <1>5, <2>1, <2>2, InitQueued, Zenon
<1>7. InitOf(m).kind = "init" /\ InitOf(m).of = m
  BY DEF InitOf
<1>8. q \in Seq(Segments) /\ Run(NoSegment, q) = q
  BY <1>6, RunIs, Zenon DEF Shaped
<1>9. CASE ~unit.idrFirst
  <2>1. decoder' = c /\ buffers' = q /\ given' = NoSegment
    BY <1>1, <1>9, Zenon DEF Configure, c
  <2>2. EndsAt(q, c, t.headless)
    BY <1>1, <1>3, <1>4, <1>5, <1>6, <1>7, <1>9 DEF EndsAt, EndsRun
  <2>3. SourceKept(c, q, NoSegment, t)
    BY <1>6, <1>8, <2>2, Zenon DEF SourceKept
  <2> QED BY <1>2, <2>1, <2>3
<1>10. CASE unit.idrFirst
  <2> DEFINE frame == [Frame(d, unit, c.sequence, 0, TRUE) EXCEPT !.of = c.made]
             f == [c EXCEPT !.needIdr = FALSE, !.dropped = 0]
             e == PollRequestIdr(f)
             r == Append(q, frame)
  <2>1. TryAppendDecodeUnit(e, r, NoSegment)
    BY <1>1, <1>10, Zenon DEF Configure, c
  <2>2. /\ f \in Decoders /\ f.errored = c.errored /\ f.source = TRUE /\ f.made = m
        /\ f.sequence = 1 /\ f.updating = FALSE /\ f.last = 0 /\ f.dropped = 0
    BY <1>1, Zenon DEF Decoders
  <2> HIDE DEF f
  <2>3. /\ e \in Decoders /\ e.errored = c.errored /\ e.source = TRUE /\ e.made = m
        /\ e.sequence = 1 /\ e.updating = FALSE /\ e.last = 0 /\ e.dropped <= MaxDropped
    BY <2>2, PolledIs
  <2>4. /\ frame \in FramesOf /\ frame.kind = "frame" /\ frame.of = m
        /\ frame.sequence = 1 /\ frame.time = 0
    <3> HIDE DEF e, r, frame
    <3> DEFINE g == Frame(d, unit, 1, 0, TRUE)
    <3>1. frame = [g EXCEPT !.of = m]
      BY <1>1, Zenon DEF frame
    <3>2. /\ g \in FramesOf /\ g.kind = "frame" /\ g.sequence = 1 /\ g.time = 0
      <4> DEFINE number == 1
                 zero == 0
                 key == TRUE
      <4>1. number \in Nat /\ zero \in Int /\ key \in BOOLEAN
        OBVIOUS
      <4>2. g = Frame(d, unit, number, zero, key)
        OBVIOUS
      <4> HIDE DEF number, zero, key, g
      <4>3. g \in FramesOf /\ g.kind = "frame" /\ g.sequence = number /\ g.time = zero
        BY <1>0, <4>1, <4>2, FrameIs
      <4> QED BY <4>3 DEF number, zero
    <3> HIDE DEF g, m
    <3>3. [g EXCEPT !.of = m] \in FramesOf
      BY <1>3, <3>2 DEF FramesOf
    <3>4. /\ [g EXCEPT !.of = m].kind = "frame" /\ [g EXCEPT !.of = m].of = m
          /\ [g EXCEPT !.of = m].sequence = 1 /\ [g EXCEPT !.of = m].time = 0
      BY <3>2 DEF FramesOf
    <3> QED BY <3>1, <3>3, <3>4
  <2>5. frame \in Segments
    BY <2>4 DEF Segments
  <2> HIDE DEF e, frame, q
  <2>6. /\ r \in Seq(Segments) /\ r # <<>> /\ r[1] = q[1]
    BY <1>6, <1>8, <2>5
  <2>7. q # <<>> => FollowsIn(q[Len(q)], frame, t.headless)
    <3>1. t.headless = seen.headless /\ seen.headless \subseteq Nat
      BY <1>0, <1>4, <1>5, <1>10
    <3>2. m \notin t.headless
      BY <3>1, <1>0 DEF SourceKept, Shaped, NoLater
    <3> QED BY <1>6, <1>7, <2>4, <3>2 DEF FollowsIn
  <2>8. RunInOrder(r, t.headless)
    BY <1>6, <1>8, <2>5, <2>7, OrderAppended
  <2>9. EndsRun(frame, e, t.headless)
    BY <2>3, <2>4 DEF EndsRun
  <2>10. EndsAt(r, e, t.headless)
    BY <1>8, <2>5, <2>9, AppendEnds
  <2>11. Made(q, e, t) /\ frame.of <= e.made /\ (e.source /\ ~t.stale => frame.of = e.made)
    BY <1>1, <1>3, <1>6, <2>3, <2>4 DEF Made
  <2>12. Made(r, e, t)
    BY <1>8, <2>5, <2>11, MadeLonger
  <2>13. Shaped(e, r, NoSegment, t)
    BY <1>1, <1>6, <2>3, <2>6 DEF Shaped
  <2>14. Begun(e, r, NoSegment, t)
    <3>1. e.source /\ ~t.stale => r # <<>> /\ r[1].kind = "init"
      BY <1>1, <1>6, <2>6 DEF Begun
    <3> QED BY <1>6, <2>3, <3>1 DEF Begun
  <2>15. Run(NoSegment, r) = r
    BY <2>6, RunIs, Zenon
  <2>16. SourceKept(e, r, NoSegment, t)
    BY <2>8, <2>10, <2>12, <2>13, <2>14, <2>15 DEF SourceKept
  <2> QED BY <1>2, <2>1, <2>16, TryKeeps
<1> QED BY <1>9, <1>10

\* A unit: the translator looks at it first, and its pictures are counted when
\* they are refused, configured or queued.
LEMMA SubmitStep ==
  ASSUME SourceInv, NEW unit \in Units, SubmitDecodeUnit(unit)
  PROVE  SourceInv'
<1> DEFINE d == Translated(decoder, unit)
           t == [seen EXCEPT !.units = @ + 1]
<1>0. /\ Shaped(decoder, buffers, given, seen) /\ SourceKept(decoder, buffers, given, seen)
      /\ decoder \in Decoders /\ seen \in Histories /\ decoder.dropped <= MaxDropped
      /\ decoder.sequence <= seen.units
  BY DEF SourceInv, SourceKept, Shaped
<1>1. /\ d \in Decoders /\ d.errored = decoder.errored /\ d.source = decoder.source
      /\ d.made = decoder.made /\ d.sequence = decoder.sequence /\ d.updating = decoder.updating
      /\ d.last = decoder.last /\ d.dropped = decoder.dropped
  BY <1>0, TranslatedIs
<1>2. decoder.last \in Int /\ decoder.dropped \in Nat /\ decoder.sequence \in Nat
  BY <1>0, DecoderFields
<1>3. seen.units < MaxUnits /\ seen.units \in Nat
  BY <1>0, HistoryFields, SourceAssumption DEF SubmitDecodeUnit
<1>4. SourceKept(d, buffers, given, seen)
  <2> HIDE DEF d
  <2>1. d.last >= decoder.last /\ (d.updating => decoder.updating) /\ d.dropped <= MaxDropped
    BY <1>0, <1>1, <1>2
  <2> QED BY <1>0, <1>1, <2>1, Retuned
<1>5. SourceKept(d, buffers, given, t) /\ SourceKept(decoder, buffers, given, t)
  <2> HIDE DEF d
  <2> QED BY <1>0, <1>3, <1>4, CountedUnit
<1>6. d.sequence < t.units
  <2> HIDE DEF d
  <2>1. t.units = seen.units + 1
    BY <1>0 DEF Histories
  <2> QED BY <1>0, <1>1, <1>2, <1>3, <2>1
<1> DEFINE passes == decoder.errored \/ ~ShouldProcess(decoder, unit)
<1>7. CASE ~passes /\ Reconfigures(decoder, unit) /\ unit.playable
  <2>1. Configure(d, unit)
    BY <1>7 DEF SubmitDecodeUnit
  <2>2. ~d.errored
    BY <1>1, <1>7
  <2> HIDE DEF d
  <2> QED BY <1>3, <1>4, <2>1, <2>2, ConfigureStep, OutcomeKept
<1>8. CASE ~passes /\ Reconfigures(decoder, unit) /\ ~unit.playable
  <2>1. Refused(d, unit)
    BY <1>8 DEF SubmitDecodeUnit
  <2>2. /\ decoder' = [d EXCEPT !.source = FALSE, !.updating = FALSE, !.last = Timestamp(d, unit)]
        /\ given' = NoSegment /\ buffers' = buffers /\ seen' = t
    BY <2>1 DEF Refused
  <2> HIDE DEF d, t
  <2>3. SourceKept(decoder', buffers', given', t)
    BY <1>5, <2>2, RefusedStep, Zenon
  <2> QED BY <2>2, <2>3, OutcomeKept
<1>9. CASE ~(~passes /\ Reconfigures(decoder, unit))
  <2>1. seen' = t
    BY <1>9 DEF SubmitDecodeUnit
  <2>2. CASE passes
    <3>1. Quiet(decoder)
      BY <1>9, <2>2 DEF SubmitDecodeUnit
    <3> DEFINE e == PollRequestIdr(decoder)
    <3>2. /\ e \in Decoders /\ e.errored = decoder.errored /\ e.source = decoder.source
          /\ e.made = decoder.made /\ e.sequence = decoder.sequence /\ e.updating = decoder.updating
          /\ e.last = decoder.last /\ e.dropped <= MaxDropped
      BY <1>0, PolledIs
    <3>3. decoder' = e /\ buffers' = buffers /\ given' = given
      BY <3>1 DEF Quiet
    <3> HIDE DEF e, d, t
    <3>4. e.last >= decoder.last
      BY <1>2, <3>2
    <3>5. SourceKept(e, buffers, given, t)
      BY <1>5, <3>2, <3>4, Retuned
    <3> QED BY <2>1, <3>3, <3>5, OutcomeKept
  <2>3. CASE ~passes
    <3>1. Follow(d, unit)
      BY <1>9, <2>3 DEF SubmitDecodeUnit
    <3> HIDE DEF d, t
    <3>2. SourceKept(decoder', buffers', given', t)
      BY <1>5, <1>6, <3>1, FollowStep
    <3> QED BY <2>1, <3>2, OutcomeKept
  <2> QED BY <2>2, <2>3
<1> QED BY <1>7, <1>8, <1>9

\* A source buffer that has taken its segment is given the next.
LEMMA UpdateEndStep == ASSUME SourceInv, OnUpdateEnd PROVE SourceInv'
<1> DEFINE d == [decoder EXCEPT !.updating = FALSE]
<1>0. /\ SourceKept(decoder, buffers, given, seen) /\ decoder \in Decoders
      /\ decoder.dropped <= MaxDropped /\ decoder.last \in Int
  BY DecoderFields DEF SourceInv, SourceKept, Shaped
<1>1. /\ d \in Decoders /\ d.errored = decoder.errored /\ d.source = decoder.source
      /\ d.made = decoder.made /\ d.sequence = decoder.sequence /\ d.updating = FALSE
      /\ d.last = decoder.last /\ d.dropped = decoder.dropped
  BY <1>0, Zenon DEF Decoders
<1>2. TryAppendDecodeUnit(d, buffers, given) /\ seen' = seen
  BY DEF OnUpdateEnd
<1> HIDE DEF d
<1>3. d.last >= decoder.last
  BY <1>0, <1>1
<1>4. SourceKept(d, buffers, given, seen)
  BY <1>0, <1>1, <1>3, Retuned
<1>5. SourceKept(decoder', buffers', given', seen)
  BY <1>2, <1>4, TryKeeps
<1> QED BY <1>2, <1>5, OutcomeKept

\* A source buffer that fails is of no more use, and only one that replaced a
\* buffer while segments waited is refused one of them.
LEMMA FailStep ==
  ASSUME SourceInv, NEW excuse \in BOOLEAN, decoder.updating, excuse \/ ~Plays(given), OnError(excuse)
  PROVE  SourceInv'
<1> DEFINE d == [decoder EXCEPT !.errored = TRUE, !.updating = FALSE]
           t == [seen EXCEPT !.failed = excuse]
<1>0. /\ SourceKept(decoder, buffers, given, seen) /\ decoder \in Decoders /\ seen \in Histories
      /\ Shaped(decoder, buffers, given, seen) /\ Begun(decoder, buffers, given, seen)
  BY DEF SourceInv, SourceKept, Shaped
<1>1. /\ d \in Decoders /\ d.errored = TRUE /\ d.source = decoder.source
      /\ d.made = decoder.made /\ d.sequence = decoder.sequence /\ d.updating = FALSE
      /\ d.last = decoder.last /\ d.dropped = decoder.dropped
  BY <1>0, Zenon DEF Decoders
<1>2. /\ t \in Histories /\ t.units = seen.units /\ t.stale = seen.stale
      /\ t.headless = seen.headless /\ t.failed = excuse
  BY <1>0 DEF Histories
<1>3. decoder' = d /\ seen' = t /\ buffers' = buffers /\ given' = given
  BY DEF OnError
<1> HIDE DEF d, t
<1>4. excuse \/ seen.stale
  <2>1. SUFFICES ASSUME ~seen.stale, ~Plays(given) PROVE FALSE
    OBVIOUS
  <2>2. decoder.source /\ given # NoSegment
    BY <1>0 DEF Begun
  <2>3. /\ Run(given, buffers)[1] = given /\ Len(Run(given, buffers)) = Len(buffers) + 1
        /\ Len(buffers) \in Nat
    BY <1>0, <2>2, RunIs, LenProperties DEF Shaped
  <2>4. Made(Run(given, buffers), decoder, seen)
    BY <1>0 DEF SourceKept
  <2>5. given.of = decoder.made
    BY <2>1, <2>2, <2>3, <2>4 DEF Made
  <2> QED BY <2>1, <2>5 DEF Plays
<1>5. Shaped(d, buffers, given, t)
  BY <1>0, <1>1, <1>2 DEF Shaped
<1>6. Begun(d, buffers, given, t)
  BY <1>0, <1>1, <1>2, <1>4 DEF Begun
<1>7. /\ RunInOrder(Run(given, buffers), t.headless) /\ EndsAt(Run(given, buffers), d, t.headless)
      /\ Made(Run(given, buffers), d, t)
  BY <1>0, <1>1, <1>2 DEF SourceKept, EndsAt, EndsRun, Made
<1>8. SourceKept(d, buffers, given, t)
  BY <1>5, <1>6, <1>7 DEF SourceKept
<1> QED BY <1>3, <1>8, OutcomeKept

LEMMA SourceStarts == ASSUME SourceInit PROVE SourceInv
<1> DEFINE d == decoder
<1>1. /\ decoder \in Decoders /\ seen \in Histories /\ buffers = <<>> /\ given = NoSegment
      /\ decoder.made = 0 /\ decoder.sequence = 0 /\ decoder.dropped = 0 /\ seen.units = 0
      /\ decoder.source = FALSE /\ decoder.updating = FALSE /\ decoder.errored = FALSE
      /\ seen.headless = {}
  BY SourceAssumption DEF SourceInit, Decoders, Histories
<1>2. Shaped(decoder, buffers, given, seen) /\ Begun(decoder, buffers, given, seen)
  BY <1>1, SourceAssumption DEF Shaped, Begun, NoLater
<1>3. Run(given, buffers) = <<>> /\ Len(Run(given, buffers)) = 0
  BY <1>1 DEF Run
<1>4. /\ RunInOrder(Run(given, buffers), seen.headless) /\ Made(Run(given, buffers), decoder, seen)
      /\ EndsAt(Run(given, buffers), decoder, seen.headless)
  BY <1>3 DEF RunInOrder, Made, EndsAt
<1> QED BY <1>2, <1>4 DEF SourceInv, SourceKept

LEMMA SourceInvUnchanged == ASSUME SourceInv, UNCHANGED sourceVars PROVE SourceInv'
<1>1. decoder' = decoder /\ buffers' = buffers /\ given' = given /\ seen' = seen
  BY DEF sourceVars
<1>2. SourceKept(decoder', buffers', given', seen')
  BY <1>1 DEF SourceInv
<1> QED BY <1>2, OutcomeKept

LEMMA SourceSteps == ASSUME SourceInv, SourceNext PROVE SourceInv'
<1>1. CASE \E unit \in Units : SubmitDecodeUnit(unit)
  BY <1>1, SubmitStep
<1>2. CASE OnUpdateEnd
  BY <1>2, UpdateEndStep
<1>3. CASE RefusesFrame
  BY <1>3, FailStep, Zenon DEF RefusesFrame
<1>4. CASE DecodeFails
  BY <1>4, FailStep, Zenon DEF DecodeFails
<1> QED BY <1>1, <1>2, <1>3, <1>4 DEF SourceNext

LEMMA SourceInvTypes == ASSUME SourceInv PROVE SourceTypeOK
<1>1. /\ decoder \in Decoders /\ buffers \in Seq(Segments) /\ given \in Segments \cup {NoSegment}
      /\ decoder.made <= seen.units /\ decoder.sequence <= seen.units
      /\ decoder.dropped <= MaxDropped /\ seen \in Histories
  BY DEF SourceInv, SourceKept, Shaped
<1>2. /\ decoder.made \in Nat /\ decoder.dropped \in Nat /\ decoder.last \in Int
      /\ decoder.sequence \in Nat /\ seen.units \in 0 .. MaxUnits
  BY <1>1, DecoderFields, HistoryFields
<1>3. ASSUME NEW i \in DOMAIN buffers PROVE buffers[i].kind \in {"init", "frame"}
  <2>1. buffers[i] \in Segments
    BY <1>1
  <2> QED BY <2>1, SegmentFields
<1>4. given.kind \in {"none", "init", "frame"}
  BY <1>1, SegmentFields DEF NoSegment
<1> QED BY <1>1, <1>2, <1>3, <1>4, SourceAssumption DEF SourceTypeOK

LEMMA SourceInvOrders == ASSUME SourceInv PROVE SegmentsInOrder
<1> DEFINE p == Run(given, buffers)
<1>1. /\ Shaped(decoder, buffers, given, seen) /\ Begun(decoder, buffers, given, seen)
      /\ RunInOrder(p, seen.headless) /\ Made(p, decoder, seen)
  BY DEF SourceInv, SourceKept
<1>2. Pending = p
  BY DEF Pending, Run
<1>3. p \in Seq(Segments) /\ buffers \in Seq(Segments)
  BY <1>1, RunIs DEF Shaped
<1> HIDE DEF p
<1>4. \A i \in 1 .. Len(Pending) - 1 : Follows(Pending[i], Pending[i + 1])
  BY <1>1, <1>2 DEF RunInOrder, Follows, FollowsIn
<1>5. (decoder.source /\ ~seen.stale) => \A i \in DOMAIN Pending : Pending[i].of = decoder.made
  <2>1. DOMAIN p = 1 .. Len(p)
    BY <1>3
  <2> QED BY <1>1, <1>2, <2>1 DEF Made
<1>6. (decoder.source /\ ~seen.stale) =>
        ((given = NoSegment /\ buffers # <<>>) => Head(buffers).kind = "init")
  <2>1. buffers # <<>> => Head(buffers) = buffers[1]
    BY <1>3
  <2> QED BY <1>1, <2>1 DEF Begun
<1>7. (decoder.errored /\ ~seen.failed) => seen.stale
  BY <1>1 DEF Begun
<1> QED BY <1>4, <1>5, <1>6, <1>7 DEF SegmentsInOrder

-----------------------------------------------------------------------------
(* What the segments read back as *)

\* A writer of boxes keeps to its size, and a value begins at a position.
Written(f) == f.size \in Nat /\ DOMAIN f.text \subseteq 0 .. f.size - 1
Holds(f, p, v) == p \in DOMAIN f.text /\ f.text[p] = v

LEMMA Reads ==
  ASSUME NEW f, NEW p, NEW v, Holds(f, p, v) PROVE At(f, p) = v
BY DEF Holds, At

LEMMA ReadsNumber ==
  ASSUME NEW f, NEW p, NEW n, Holds(f, p, Number(n)) PROVE NumberAt(f, p) = n
<1>1. At(f, p) = [number |-> n]
  BY Reads DEF Number
<1> QED BY <1>1 DEF NumberAt

LEMMA PutHolds ==
  ASSUME NEW v, NEW w \in Nat, w > 0
  PROVE  Written(Put(v, w)) /\ Put(v, w).size = w /\ Holds(Put(v, w), 0, v)
<1>1. Put(v, w).size = w /\ Put(v, w).text = [x \in {0} |-> v]
  BY DEF Put
<1> QED BY <1>1 DEF Written, Holds

\* A writer goes on behind what is there, which stays where it is.
LEMMA JoinHolds ==
  ASSUME NEW x, NEW y, Written(x), Written(y)
  PROVE  /\ Written(x ++ y) /\ (x ++ y).size = x.size + y.size
         /\ \A p, v : Holds(x, p, v) => Holds(x ++ y, p, v)
         /\ \A p, v : Holds(y, p, v) => Holds(x ++ y, x.size + p, v)
<1> DEFINE text == Texts(x, y)
<1>1. (x ++ y).size = x.size + y.size /\ (x ++ y).text = text
  BY DEF ++
<1>2. /\ DOMAIN text = DOMAIN x.text \cup {x.size + q : q \in DOMAIN y.text}
      /\ \A p \in DOMAIN text :
           /\ p \in DOMAIN x.text => text[p] = x.text[p]
           /\ p \notin DOMAIN x.text => text[p] = y.text[p - x.size]
  BY DEF Texts
<1> HIDE DEF text
<1>3. /\ x.size \in Nat /\ y.size \in Nat /\ DOMAIN x.text \subseteq 0 .. x.size - 1
      /\ DOMAIN y.text \subseteq 0 .. y.size - 1
  BY DEF Written
<1>4. Written(x ++ y)
  BY <1>1, <1>2, <1>3 DEF Written
<1>5. ASSUME NEW p, NEW v, Holds(x, p, v) PROVE Holds(x ++ y, p, v)
  BY <1>1, <1>2, <1>5 DEF Holds
<1>6. ASSUME NEW p, NEW v, Holds(y, p, v) PROVE Holds(x ++ y, x.size + p, v)
  <2>1. p \in DOMAIN y.text /\ y.text[p] = v /\ p \in 0 .. y.size - 1
    BY <1>3, <1>6 DEF Holds
  <2>2. PICK q : q = x.size + p
    OBVIOUS
  <2>3. q \notin DOMAIN x.text /\ q \in DOMAIN text /\ q - x.size = p
    BY <1>2, <1>3, <2>1, <2>2
  <2>4. text[q] = y.text[q - x.size]
    BY <1>2, <2>3
  <2>5. text[q] = v
    BY <2>1, <2>3, <2>4, Zenon
  <2>6. Holds(x ++ y, q, v)
    BY <1>1, <2>3, <2>5 DEF Holds
  <2> QED BY <2>2, <2>6, Zenon
<1> QED BY <1>1, <1>4, <1>5, <1>6

\* The same with the size given, which is what the lemmas on the boxes hand on.
Sized(f, n) == Written(f) /\ f.size = n

LEMMA SizedIn == ASSUME NEW f, NEW n, Sized(f, n), NEW p, NEW v, Holds(f, p, v)
                 PROVE n \in Nat /\ p \in 0 .. n - 1
BY DEF Sized, Written, Holds

LEMMA JoinIs ==
  ASSUME NEW x, NEW y, NEW m, NEW n, Sized(x, m), Sized(y, n)
  PROVE  /\ Sized(x ++ y, m + n)
         /\ \A p, v : Holds(x, p, v) => Holds(x ++ y, p, v)
         /\ \A p, v : Holds(y, p, v) => Holds(x ++ y, m + p, v)
BY JoinHolds DEF Sized

LEMMA JoinSize ==
  ASSUME NEW x, NEW y, NEW m \in Nat, NEW n \in Nat, Sized(x, m), Sized(y, n)
  PROVE  Sized(x ++ y, m + n)
BY JoinIs, Zenon

LEMMA JoinLeft ==
  ASSUME NEW x, NEW y, NEW m, NEW n, Sized(x, m), Sized(y, n), NEW p, NEW v, Holds(x, p, v)
  PROVE  Holds(x ++ y, p, v)
BY JoinIs, Zenon

LEMMA JoinRight ==
  ASSUME NEW x, NEW y, NEW m \in Nat, NEW n \in Nat, Sized(x, m), Sized(y, n),
         NEW p \in Nat, NEW v, Holds(y, p, v)
  PROVE  Holds(x ++ y, m + p, v)
BY JoinIs

LEMMA PutIs ==
  ASSUME NEW v, NEW w \in Nat, w > 0
  PROVE  Sized(Put(v, w), w) /\ Holds(Put(v, w), 0, v)
BY PutHolds DEF Sized

LEMMA NothingIs == Sized(Nothing, 0)
BY DEF Sized, Written, Nothing

\* The writers of single values.
LEMMA ZeroIs == Sized(Zero, 4)
BY PutIs DEF Zero, U32
LEMMA U8Is == ASSUME NEW n PROVE Sized(U8(n), 1) /\ Holds(U8(n), 0, Number(n))
BY PutIs DEF U8
LEMMA U16Is == ASSUME NEW n PROVE Sized(U16(n), 2) /\ Holds(U16(n), 0, Number(n))
BY PutIs DEF U16
LEMMA U32Is == ASSUME NEW n PROVE Sized(U32(n), 4) /\ Holds(U32(n), 0, Number(n))
BY PutIs DEF U32
LEMMA U64Is == ASSUME NEW n PROVE Sized(U64(n), 16) /\ Holds(U64(n), 0, Number(n))
BY PutIs DEF U64
LEMMA U8ArrayIs == ASSUME NEW what, NEW n \in Nat \ {0}
                   PROVE  Sized(U8Array(what, n), n) /\ Holds(U8Array(what, n), 0, Name(what))
BY PutIs DEF U8Array
LEMMA Utf8RawIs == ASSUME NEW what, NEW n \in Nat \ {0}
                   PROVE  Sized(Utf8Raw(what, n), n) /\ Holds(Utf8Raw(what, n), 0, Name(what))
BY PutIs DEF Utf8Raw
LEMMA U16ArrayIs == ASSUME NEW n \in Nat \ {0} PROVE Sized(U16Array(n), 2 * n)
BY PutIs DEF U16Array
LEMMA U32ArrayIs == ASSUME NEW n \in Nat \ {0} PROVE Sized(U32Array(n), 4 * n)
BY PutIs DEF U32Array
LEMMA MatrixIs == Sized(Matrix, 36)
<1>1. Sized(U32Array(9), 4 * 9)
  BY U32ArrayIs
<1> QED BY <1>1 DEF Matrix

\* A box is eight bytes longer than what is in it, and begins with its length
\* and its type.
LEMMA BoxIs ==
  ASSUME NEW type, NEW f, NEW n, Sized(f, n)
  PROVE  /\ Sized(Box(type, f), n + 8)
         /\ Holds(Box(type, f), 0, Number(n + 8)) /\ Holds(Box(type, f), 4, Name(type))
         /\ \A p, v : Holds(f, p, v) => Holds(Box(type, f), p + 8, v)
<1> DEFINE length == U32(f.size + 8)
           begun == length ++ Utf8Raw(type, 4)
<1>1. Box(type, f) = begun ++ f
  BY Zenon DEF Box
<1>2. n \in Nat /\ f.size = n
  BY DEF Sized, Written
<1>3. Sized(length, 4) /\ Holds(length, 0, Number(n + 8))
  BY <1>2, U32Is, Zenon
<1>4. Sized(Utf8Raw(type, 4), 4) /\ Holds(Utf8Raw(type, 4), 0, Name(type))
  BY Utf8RawIs
<1> HIDE DEF length
<1>5. Sized(begun, 8) /\ Holds(begun, 0, Number(n + 8)) /\ Holds(begun, 4, Name(type))
  <2>1. Sized(begun, 4 + 4) /\ Holds(begun, 0, Number(n + 8)) /\ Holds(begun, 4 + 0, Name(type))
    BY <1>3, <1>4, JoinIs, Zenon
  <2>2. 4 + 4 = 8 /\ 4 + 0 = 4
    OBVIOUS
  <2> QED BY <2>1, <2>2, Zenon
<1> HIDE DEF begun
<1>6. /\ Sized(begun ++ f, 8 + n)
      /\ Holds(begun ++ f, 0, Number(n + 8)) /\ Holds(begun ++ f, 4, Name(type))
  BY <1>5, JoinIs, Zenon
<1>7. 8 + n = n + 8
  BY <1>2
<1>8. ASSUME NEW p, NEW v, Holds(f, p, v) PROVE Holds(begun ++ f, p + 8, v)
  <2>1. 8 + p = p + 8
    BY <1>8, SizedIn
  <2>2. Holds(begun ++ f, 8 + p, v)
    BY <1>5, <1>8, JoinIs, Zenon
  <2> QED BY <2>1, <2>2, Zenon
<1> QED BY <1>1, <1>6, <1>7, <1>8, Zenon

LEMMA BoxSize ==
  ASSUME NEW type, NEW f, NEW n \in Nat, Sized(f, n)
  PROVE  /\ Sized(Box(type, f), n + 8)
         /\ Holds(Box(type, f), 0, Number(n + 8)) /\ Holds(Box(type, f), 4, Name(type))
BY BoxIs

LEMMA BoxHolds ==
  ASSUME NEW type, NEW f, NEW n, Sized(f, n), NEW p \in Nat, NEW v, Holds(f, p, v)
  PROVE  Holds(Box(type, f), p + 8, v)
BY BoxIs, Zenon

\* A full box has its version and its flags before its contents.
LEMMA FullBoxIs ==
  ASSUME NEW type, NEW version, NEW flags, NEW f, NEW n, Sized(f, n)
  PROVE  /\ Sized(FullBox(type, version, flags, f), n + 12)
         /\ Holds(FullBox(type, version, flags, f), 0, Number(n + 12))
         /\ Holds(FullBox(type, version, flags, f), 4, Name(type))
         /\ Holds(FullBox(type, version, flags, f), 9, Number(flags))
         /\ \A p, v : Holds(f, p, v) => Holds(FullBox(type, version, flags, f), p + 12, v)
<1> DEFINE begun == U8(version) ++ Put(Number(flags), 3)
           fields == begun ++ f
           box == FullBox(type, version, flags, f)
<1>1. box = Box(type, fields)
  BY Zenon DEF FullBox
<1>2. n \in Nat
  BY DEF Sized, Written
<1>3. Sized(begun, 4) /\ Holds(begun, 1, Number(flags))
  <2>1. Sized(Put(Number(flags), 3), 3) /\ Holds(Put(Number(flags), 3), 0, Number(flags))
    BY PutIs
  <2>2. Sized(begun, 1 + 3) /\ Holds(begun, 1 + 0, Number(flags))
    BY <2>1, U8Is, JoinIs, Zenon
  <2>3. 1 + 3 = 4 /\ 1 + 0 = 1
    OBVIOUS
  <2> QED BY <2>2, <2>3, Zenon
<1> HIDE DEF begun
<1>4. /\ Sized(fields, 4 + n) /\ Holds(fields, 1, Number(flags))
      /\ \A p, v : Holds(f, p, v) => Holds(fields, 4 + p, v)
  BY <1>3, JoinIs, Zenon
<1> HIDE DEF fields, box
<1>5. /\ Sized(box, 4 + n + 8) /\ Holds(box, 0, Number(4 + n + 8)) /\ Holds(box, 4, Name(type))
      /\ \A p, v : Holds(fields, p, v) => Holds(box, p + 8, v)
  BY <1>1, <1>4, BoxIs, Zenon
<1>6. 4 + n + 8 = n + 12 /\ 1 + 8 = 9
  BY <1>2
<1>7. Holds(box, 9, Number(flags))
  BY <1>4, <1>5, <1>6, Zenon
<1>8. ASSUME NEW p, NEW v, Holds(f, p, v) PROVE Holds(box, p + 12, v)
  <2>1. 4 + p + 8 = p + 12
    BY <1>8, SizedIn
  <2>2. Holds(box, 4 + p + 8, v)
    BY <1>4, <1>5, <1>8, Zenon
  <2> QED BY <2>1, <2>2, Zenon
<1>9. Sized(box, n + 12) /\ Holds(box, 0, Number(n + 12))
  BY <1>5, <1>6, Zenon
<1> QED BY <1>5, <1>7, <1>8, <1>9, Zenon DEF box

LEMMA FullBoxSize ==
  ASSUME NEW type, NEW version, NEW flags, NEW f, NEW n \in Nat, Sized(f, n)
  PROVE  /\ Sized(FullBox(type, version, flags, f), n + 12)
         /\ Holds(FullBox(type, version, flags, f), 0, Number(n + 12))
         /\ Holds(FullBox(type, version, flags, f), 4, Name(type))
         /\ Holds(FullBox(type, version, flags, f), 9, Number(flags))
BY FullBoxIs, Zenon

LEMMA FullBoxHolds ==
  ASSUME NEW type, NEW version, NEW flags, NEW f, NEW n, Sized(f, n),
         NEW p \in Nat, NEW v, Holds(f, p, v)
  PROVE  Holds(FullBox(type, version, flags, f), p + 12, v)
BY FullBoxIs, Zenon

\* A box is found at once, behind another one, or behind two.
LEMMA Here ==
  ASSUME NEW f, NEW at, NEW type, At(f, at + 4) = Name(type) PROVE Skip(f, at, type) = at
BY Zenon DEF Skip

LEMMA Behind ==
  ASSUME NEW f, NEW at, NEW type, NEW other, other # type, At(f, at + 4) = Name(other)
  PROVE  Skip(f, at, type) = at + NumberAt(f, at)
<1>1. Name(other) # Name(type)
  BY DEF Name
<1> QED BY <1>1, Zenon DEF Skip

\* The boxes of the init segment, from their contents outwards: the size of each
\* and where in it the values begin that a browser reads.  Every value is where
\* it is in its part, moved on by what was written before that part.
LEMMA FTypeIs ==
  /\ Sized(FTypeBox, 32) /\ Holds(FTypeBox, 0, Number(32)) /\ Holds(FTypeBox, 4, Name("ftyp"))
<1> DEFINE c2 == Utf8Raw("isom", 4) ++ U32(512)
           c3 == c2 ++ U8Array("brands", 16)
<1>1. FTypeBox = Box("ftyp", c3)
  BY SMT DEF FTypeBox
<1> HIDE DEF c2, c3
<1>2. /\ Sized(c2, 8)
  BY Utf8RawIs, U32Is, JoinSize DEF c2
<1>3. /\ Sized(c3, 24)
  BY <1>2, U8ArrayIs, JoinSize DEF c3
<1> QED BY <1>1, <1>3, BoxSize

LEMMA MvhdIs ==
  /\ Sized(MvhdBox, 108) /\ Holds(MvhdBox, 0, Number(108)) /\ Holds(MvhdBox, 4, Name("mvhd"))
<1> DEFINE c2 == Zero ++ Zero
           c3 == c2 ++ U32(1000000)
           c4 == c3 ++ Zero
           c5 == c4 ++ U32(65536)
           c6 == c5 ++ U16(256)
           c7 == c6 ++ U16(0)
           c8 == c7 ++ U32Array(2)
           c9 == c8 ++ Matrix
           c10 == c9 ++ U32Array(6)
           c11 == c10 ++ U32(TrackId + 1)
<1>1. MvhdBox = FullBox("mvhd", 0, 0, c11)
  BY SMT DEF MvhdBox
<1> HIDE DEF c2, c3, c4, c5, c6, c7, c8, c9, c10, c11
<1>2. /\ Sized(c2, 8)
  BY ZeroIs, JoinSize DEF c2
<1>3. /\ Sized(c3, 12)
  BY <1>2, U32Is, JoinSize DEF c3
<1>4. /\ Sized(c4, 16)
  BY <1>3, ZeroIs, JoinSize DEF c4
<1>5. /\ Sized(c5, 20)
  BY <1>4, U32Is, JoinSize DEF c5
<1>6. /\ Sized(c6, 22)
  BY <1>5, U16Is, JoinSize DEF c6
<1>7. /\ Sized(c7, 24)
  BY <1>6, U16Is, JoinSize DEF c7
<1>8. /\ Sized(c8, 32)
  BY <1>7, U32ArrayIs, JoinSize DEF c8
<1>9. /\ Sized(c9, 68)
  BY <1>8, MatrixIs, JoinSize DEF c9
<1>10. /\ Sized(c10, 92)
  BY <1>9, U32ArrayIs, JoinSize DEF c10
<1>11. /\ Sized(c11, 96)
  BY <1>10, U32Is, JoinSize DEF c11
<1> QED BY <1>1, <1>11, FullBoxSize

LEMMA TkhdIs ==
  /\ Sized(TkhdBox, 92) /\ Holds(TkhdBox, 0, Number(92)) /\ Holds(TkhdBox, 4, Name("tkhd"))
  /\ Holds(TkhdBox, 20, Number(TrackId))
<1> DEFINE c2 == Zero ++ Zero
           c3 == c2 ++ U32(TrackId)
           c4 == c3 ++ Zero
           c5 == c4 ++ Zero
           c6 == c5 ++ U32Array(2)
           c7 == c6 ++ U16(0)
           c8 == c7 ++ U16(0)
           c9 == c8 ++ U16(0)
           c10 == c9 ++ U16(0)
           c11 == c10 ++ Matrix
           c12 == c11 ++ Zero
           c13 == c12 ++ Zero
<1>1. TkhdBox = FullBox("tkhd", 0, 3, c13)
  BY SMT DEF TkhdBox
<1> HIDE DEF c2, c3, c4, c5, c6, c7, c8, c9, c10, c11, c12, c13
<1>2. /\ Sized(c2, 8)
  BY ZeroIs, JoinSize DEF c2
<1>3. /\ Sized(c3, 12) /\ Holds(c3, 8, Number(TrackId))
  BY <1>2, U32Is, JoinSize, JoinRight DEF c3
<1>4. /\ Sized(c4, 16) /\ Holds(c4, 8, Number(TrackId))
  BY <1>3, ZeroIs, JoinSize, JoinLeft DEF c4
<1>5. /\ Sized(c5, 20) /\ Holds(c5, 8, Number(TrackId))
  BY <1>4, ZeroIs, JoinSize, JoinLeft DEF c5
<1>6. /\ Sized(c6, 28) /\ Holds(c6, 8, Number(TrackId))
  BY <1>5, U32ArrayIs, JoinSize, JoinLeft DEF c6
<1>7. /\ Sized(c7, 30) /\ Holds(c7, 8, Number(TrackId))
  BY <1>6, U16Is, JoinSize, JoinLeft DEF c7
<1>8. /\ Sized(c8, 32) /\ Holds(c8, 8, Number(TrackId))
  BY <1>7, U16Is, JoinSize, JoinLeft DEF c8
<1>9. /\ Sized(c9, 34) /\ Holds(c9, 8, Number(TrackId))
  BY <1>8, U16Is, JoinSize, JoinLeft DEF c9
<1>10. /\ Sized(c10, 36) /\ Holds(c10, 8, Number(TrackId))
  BY <1>9, U16Is, JoinSize, JoinLeft DEF c10
<1>11. /\ Sized(c11, 72) /\ Holds(c11, 8, Number(TrackId))
  BY <1>10, MatrixIs, JoinSize, JoinLeft DEF c11
<1>12. /\ Sized(c12, 76) /\ Holds(c12, 8, Number(TrackId))
  BY <1>11, ZeroIs, JoinSize, JoinLeft DEF c12
<1>13. /\ Sized(c13, 80) /\ Holds(c13, 8, Number(TrackId))
  BY <1>12, ZeroIs, JoinSize, JoinLeft DEF c13
<1> QED BY <1>1, <1>13, FullBoxSize, FullBoxHolds

LEMMA MdhdIs ==
  /\ Sized(MdhdBox, 32) /\ Holds(MdhdBox, 0, Number(32)) /\ Holds(MdhdBox, 4, Name("mdhd"))
<1> DEFINE c2 == Zero ++ Zero
           c3 == c2 ++ U32(1000000)
           c4 == c3 ++ Zero
           c5 == c4 ++ U16(0)
           c6 == c5 ++ U16(0)
<1>1. MdhdBox = FullBox("mdhd", 0, 0, c6)
  BY SMT DEF MdhdBox
<1> HIDE DEF c2, c3, c4, c5, c6
<1>2. /\ Sized(c2, 8)
  BY ZeroIs, JoinSize DEF c2
<1>3. /\ Sized(c3, 12)
  BY <1>2, U32Is, JoinSize DEF c3
<1>4. /\ Sized(c4, 16)
  BY <1>3, ZeroIs, JoinSize DEF c4
<1>5. /\ Sized(c5, 18)
  BY <1>4, U16Is, JoinSize DEF c5
<1>6. /\ Sized(c6, 20)
  BY <1>5, U16Is, JoinSize DEF c6
<1> QED BY <1>1, <1>6, FullBoxSize

LEMMA HdlrIs ==
  /\ Sized(HdlrBox, 45) /\ Holds(HdlrBox, 0, Number(45)) /\ Holds(HdlrBox, 4, Name("hdlr"))
  /\ Holds(HdlrBox, 16, Name("vide"))
<1> DEFINE c2 == Zero ++ Utf8Raw("vide", 4)
           c3 == c2 ++ U32Array(3)
           c4 == c3 ++ Utf8Raw("VideoHandler", 12)
           c5 == c4 ++ U8(0)
<1>1. HdlrBox = FullBox("hdlr", 0, 0, c5)
  BY SMT DEF HdlrBox
<1> HIDE DEF c2, c3, c4, c5
<1>2. /\ Sized(c2, 8) /\ Holds(c2, 4, Name("vide"))
  BY ZeroIs, Utf8RawIs, JoinSize, JoinRight DEF c2
<1>3. /\ Sized(c3, 20) /\ Holds(c3, 4, Name("vide"))
  BY <1>2, U32ArrayIs, JoinSize, JoinLeft DEF c3
<1>4. /\ Sized(c4, 32) /\ Holds(c4, 4, Name("vide"))
  BY <1>3, Utf8RawIs, JoinSize, JoinLeft DEF c4
<1>5. /\ Sized(c5, 33) /\ Holds(c5, 4, Name("vide"))
  BY <1>4, U8Is, JoinSize, JoinLeft DEF c5
<1> QED BY <1>1, <1>5, FullBoxSize, FullBoxHolds

LEMMA VmhdIs ==
  /\ Sized(VmhdBox, 20) /\ Holds(VmhdBox, 0, Number(20)) /\ Holds(VmhdBox, 4, Name("vmhd"))
<1> DEFINE c2 == U16(0) ++ U16Array(3)
<1>1. VmhdBox = FullBox("vmhd", 0, 1, c2)
  BY SMT DEF VmhdBox
<1> HIDE DEF c2
<1>2. /\ Sized(c2, 8)
  BY U16Is, U16ArrayIs, JoinSize DEF c2
<1> QED BY <1>1, <1>2, FullBoxSize

LEMMA UrlIs == Sized(UrlBox, 12)
<1>1. ASSUME NEW type PROVE Sized(FullBox(type, 0, 1, Nothing), 12)
  <2>1. Sized(FullBox(type, 0, 1, Nothing), 0 + 12)
    BY NothingIs, FullBoxSize
  <2> QED BY <2>1
<1> QED BY <1>1, Zenon DEF UrlBox

LEMMA DrefIs ==
  /\ Sized(DrefBox, 28) /\ Holds(DrefBox, 0, Number(28)) /\ Holds(DrefBox, 4, Name("dref"))
<1> DEFINE c2 == U32(1) ++ UrlBox
<1>1. DrefBox = FullBox("dref", 0, 0, c2)
  BY SMT DEF DrefBox
<1> HIDE DEF c2
<1>2. /\ Sized(c2, 16)
  BY U32Is, UrlIs, JoinSize DEF c2
<1> QED BY <1>1, <1>2, FullBoxSize

LEMMA DinfIs ==
  /\ Sized(DinfBox, 36) /\ Holds(DinfBox, 0, Number(36)) /\ Holds(DinfBox, 4, Name("dinf"))
<1>1. DinfBox = Box("dinf", DrefBox)
  BY SMT DEF DinfBox
<1> QED BY <1>1, DrefIs, BoxSize

LEMMA AvcCIs ==
  /\ Sized(AvcCBox, 48) /\ Holds(AvcCBox, 0, Number(48)) /\ Holds(AvcCBox, 4, Name("avcC"))
  /\ Holds(AvcCBox, 8, Name("description"))
<1>1. AvcCBox = Box("avcC", U8Array("description", 40))
  BY SMT DEF AvcCBox
<1> QED BY <1>1, U8ArrayIs, BoxSize, BoxHolds

LEMMA Avc1Is ==
  /\ Sized(Avc1Box, 134) /\ Holds(Avc1Box, 0, Number(134)) /\ Holds(Avc1Box, 4, Name("avc1"))
  /\ Holds(Avc1Box, 90, Name("avcC")) /\ Holds(Avc1Box, 94, Name("description"))
<1> DEFINE c2 == U8Array("reserved", 6) ++ U16(1)
           c3 == c2 ++ U16(0)
           c4 == c3 ++ U16(0)
           c5 == c4 ++ U32Array(3)
           c6 == c5 ++ U16(0)
           c7 == c6 ++ U16(0)
           c8 == c7 ++ U32(4718592)
           c9 == c8 ++ U32(4718592)
           c10 == c9 ++ Zero
           c11 == c10 ++ U16(1)
           c12 == c11 ++ U8Array("compressor", 32)
           c13 == c12 ++ U16(24)
           c14 == c13 ++ U16(0 - 1)
           c15 == c14 ++ AvcCBox
<1>1. Avc1Box = Box("avc1", c15)
  BY SMT DEF Avc1Box
<1> HIDE DEF c2, c3, c4, c5, c6, c7, c8, c9, c10, c11, c12, c13, c14, c15
<1>2. /\ Sized(c2, 8)
  BY U8ArrayIs, U16Is, JoinSize DEF c2
<1>3. /\ Sized(c3, 10)
  BY <1>2, U16Is, JoinSize DEF c3
<1>4. /\ Sized(c4, 12)
  BY <1>3, U16Is, JoinSize DEF c4
<1>5. /\ Sized(c5, 24)
  BY <1>4, U32ArrayIs, JoinSize DEF c5
<1>6. /\ Sized(c6, 26)
  BY <1>5, U16Is, JoinSize DEF c6
<1>7. /\ Sized(c7, 28)
  BY <1>6, U16Is, JoinSize DEF c7
<1>8. /\ Sized(c8, 32)
  BY <1>7, U32Is, JoinSize DEF c8
<1>9. /\ Sized(c9, 36)
  BY <1>8, U32Is, JoinSize DEF c9
<1>10. /\ Sized(c10, 40)
  BY <1>9, ZeroIs, JoinSize DEF c10
<1>11. /\ Sized(c11, 42)
  BY <1>10, U16Is, JoinSize DEF c11
<1>12. /\ Sized(c12, 74)
  BY <1>11, U8ArrayIs, JoinSize DEF c12
<1>13. /\ Sized(c13, 76)
  BY <1>12, U16Is, JoinSize DEF c13
<1>14. /\ Sized(c14, 78)
  BY <1>13, U16Is, JoinSize DEF c14
<1>15. /\ Sized(c15, 126) /\ Holds(c15, 82, Name("avcC")) /\ Holds(c15, 86, Name("description"))
  BY <1>14, AvcCIs, JoinSize, JoinRight DEF c15
<1> QED BY <1>1, <1>15, BoxSize, BoxHolds

LEMMA StsdIs ==
  /\ Sized(StsdBox, 150) /\ Holds(StsdBox, 0, Number(150)) /\ Holds(StsdBox, 4, Name("stsd"))
  /\ Holds(StsdBox, 20, Name("avc1")) /\ Holds(StsdBox, 106, Name("avcC"))
  /\ Holds(StsdBox, 110, Name("description"))
<1> DEFINE c2 == U32(1) ++ Avc1Box
<1>1. StsdBox = FullBox("stsd", 0, 0, c2)
  BY SMT DEF StsdBox
<1> HIDE DEF c2
<1>2. /\ Sized(c2, 138) /\ Holds(c2, 8, Name("avc1")) /\ Holds(c2, 94, Name("avcC"))
      /\ Holds(c2, 98, Name("description"))
  BY U32Is, Avc1Is, JoinSize, JoinRight DEF c2
<1> QED BY <1>1, <1>2, FullBoxSize, FullBoxHolds

LEMMA SttsIs ==
  /\ Sized(SttsBox, 16) /\ Holds(SttsBox, 0, Number(16)) /\ Holds(SttsBox, 4, Name("stts"))
<1>1. SttsBox = FullBox("stts", 0, 0, Zero)
  BY SMT DEF SttsBox
<1> QED BY <1>1, ZeroIs, FullBoxSize

LEMMA StscIs ==
  /\ Sized(StscBox, 16) /\ Holds(StscBox, 0, Number(16)) /\ Holds(StscBox, 4, Name("stsc"))
<1>1. StscBox = FullBox("stsc", 0, 0, Zero)
  BY SMT DEF StscBox
<1> QED BY <1>1, ZeroIs, FullBoxSize

LEMMA StszIs ==
  /\ Sized(StszBox, 20) /\ Holds(StszBox, 0, Number(20)) /\ Holds(StszBox, 4, Name("stsz"))
<1> DEFINE c2 == Zero ++ Zero
<1>1. StszBox = FullBox("stsz", 0, 0, c2)
  BY SMT DEF StszBox
<1> HIDE DEF c2
<1>2. /\ Sized(c2, 8)
  BY ZeroIs, JoinSize DEF c2
<1> QED BY <1>1, <1>2, FullBoxSize

LEMMA StcoIs ==
  /\ Sized(StcoBox, 16) /\ Holds(StcoBox, 0, Number(16)) /\ Holds(StcoBox, 4, Name("stco"))
<1>1. StcoBox = FullBox("stco", 0, 0, Zero)
  BY SMT DEF StcoBox
<1> QED BY <1>1, ZeroIs, FullBoxSize

LEMMA StblIs ==
  /\ Sized(StblBox, 226) /\ Holds(StblBox, 0, Number(226)) /\ Holds(StblBox, 4, Name("stbl"))
  /\ Holds(StblBox, 8, Number(150)) /\ Holds(StblBox, 12, Name("stsd"))
  /\ Holds(StblBox, 28, Name("avc1")) /\ Holds(StblBox, 114, Name("avcC"))
  /\ Holds(StblBox, 118, Name("description"))
<1> DEFINE c2 == StsdBox ++ SttsBox
           c3 == c2 ++ StscBox
           c4 == c3 ++ StszBox
           c5 == c4 ++ StcoBox
<1>1. StblBox = Box("stbl", c5)
  BY SMT DEF StblBox
<1> HIDE DEF c2, c3, c4, c5
<1>2. /\ Sized(c2, 166) /\ Holds(c2, 0, Number(150)) /\ Holds(c2, 4, Name("stsd"))
      /\ Holds(c2, 20, Name("avc1")) /\ Holds(c2, 106, Name("avcC"))
      /\ Holds(c2, 110, Name("description"))
  BY StsdIs, SttsIs, JoinSize, JoinLeft DEF c2
<1>3. /\ Sized(c3, 182) /\ Holds(c3, 0, Number(150)) /\ Holds(c3, 4, Name("stsd"))
      /\ Holds(c3, 20, Name("avc1")) /\ Holds(c3, 106, Name("avcC"))
      /\ Holds(c3, 110, Name("description"))
  BY <1>2, StscIs, JoinSize, JoinLeft DEF c3
<1>4. /\ Sized(c4, 202) /\ Holds(c4, 0, Number(150)) /\ Holds(c4, 4, Name("stsd"))
      /\ Holds(c4, 20, Name("avc1")) /\ Holds(c4, 106, Name("avcC"))
      /\ Holds(c4, 110, Name("description"))
  BY <1>3, StszIs, JoinSize, JoinLeft DEF c4
<1>5. /\ Sized(c5, 218) /\ Holds(c5, 0, Number(150)) /\ Holds(c5, 4, Name("stsd"))
      /\ Holds(c5, 20, Name("avc1")) /\ Holds(c5, 106, Name("avcC"))
      /\ Holds(c5, 110, Name("description"))
  BY <1>4, StcoIs, JoinSize, JoinLeft DEF c5
<1> QED BY <1>1, <1>5, BoxSize, BoxHolds

LEMMA MinfIs ==
  /\ Sized(MinfBox, 290) /\ Holds(MinfBox, 0, Number(290)) /\ Holds(MinfBox, 4, Name("minf"))
  /\ Holds(MinfBox, 8, Number(20)) /\ Holds(MinfBox, 12, Name("vmhd"))
  /\ Holds(MinfBox, 28, Number(36)) /\ Holds(MinfBox, 32, Name("dinf"))
  /\ Holds(MinfBox, 64, Number(226)) /\ Holds(MinfBox, 68, Name("stbl"))
  /\ Holds(MinfBox, 72, Number(150)) /\ Holds(MinfBox, 76, Name("stsd"))
  /\ Holds(MinfBox, 92, Name("avc1")) /\ Holds(MinfBox, 178, Name("avcC"))
  /\ Holds(MinfBox, 182, Name("description"))
<1> DEFINE c2 == VmhdBox ++ DinfBox
           c3 == c2 ++ StblBox
<1>1. MinfBox = Box("minf", c3)
  BY SMT DEF MinfBox
<1> HIDE DEF c2, c3
<1>2. /\ Sized(c2, 56) /\ Holds(c2, 0, Number(20)) /\ Holds(c2, 4, Name("vmhd"))
      /\ Holds(c2, 20, Number(36)) /\ Holds(c2, 24, Name("dinf"))
  BY VmhdIs, DinfIs, JoinSize, JoinLeft, JoinRight DEF c2
<1>3. /\ Sized(c3, 282) /\ Holds(c3, 0, Number(20)) /\ Holds(c3, 4, Name("vmhd"))
      /\ Holds(c3, 20, Number(36)) /\ Holds(c3, 24, Name("dinf")) /\ Holds(c3, 56, Number(226))
      /\ Holds(c3, 60, Name("stbl")) /\ Holds(c3, 64, Number(150))
      /\ Holds(c3, 68, Name("stsd")) /\ Holds(c3, 84, Name("avc1"))
      /\ Holds(c3, 170, Name("avcC")) /\ Holds(c3, 174, Name("description"))
  BY <1>2, StblIs, JoinSize, JoinLeft, JoinRight DEF c3
<1> QED BY <1>1, <1>3, BoxSize, BoxHolds

LEMMA MdiaIs ==
  /\ Sized(MdiaBox, 375) /\ Holds(MdiaBox, 0, Number(375)) /\ Holds(MdiaBox, 4, Name("mdia"))
  /\ Holds(MdiaBox, 8, Number(32)) /\ Holds(MdiaBox, 12, Name("mdhd"))
  /\ Holds(MdiaBox, 40, Number(45)) /\ Holds(MdiaBox, 44, Name("hdlr"))
  /\ Holds(MdiaBox, 56, Name("vide")) /\ Holds(MdiaBox, 85, Number(290))
  /\ Holds(MdiaBox, 89, Name("minf")) /\ Holds(MdiaBox, 93, Number(20))
  /\ Holds(MdiaBox, 97, Name("vmhd")) /\ Holds(MdiaBox, 113, Number(36))
  /\ Holds(MdiaBox, 117, Name("dinf")) /\ Holds(MdiaBox, 149, Number(226))
  /\ Holds(MdiaBox, 153, Name("stbl")) /\ Holds(MdiaBox, 157, Number(150))
  /\ Holds(MdiaBox, 161, Name("stsd")) /\ Holds(MdiaBox, 177, Name("avc1"))
  /\ Holds(MdiaBox, 263, Name("avcC")) /\ Holds(MdiaBox, 267, Name("description"))
<1> DEFINE c2 == MdhdBox ++ HdlrBox
           c3 == c2 ++ MinfBox
<1>1. MdiaBox = Box("mdia", c3)
  BY SMT DEF MdiaBox
<1> HIDE DEF c2, c3
<1>2. /\ Sized(c2, 77) /\ Holds(c2, 0, Number(32)) /\ Holds(c2, 4, Name("mdhd"))
      /\ Holds(c2, 32, Number(45)) /\ Holds(c2, 36, Name("hdlr")) /\ Holds(c2, 48, Name("vide"))
  BY MdhdIs, HdlrIs, JoinSize, JoinLeft, JoinRight DEF c2
<1>3. /\ Sized(c3, 367) /\ Holds(c3, 0, Number(32)) /\ Holds(c3, 4, Name("mdhd"))
      /\ Holds(c3, 32, Number(45)) /\ Holds(c3, 36, Name("hdlr")) /\ Holds(c3, 48, Name("vide"))
      /\ Holds(c3, 77, Number(290)) /\ Holds(c3, 81, Name("minf")) /\ Holds(c3, 85, Number(20))
      /\ Holds(c3, 89, Name("vmhd")) /\ Holds(c3, 105, Number(36))
      /\ Holds(c3, 109, Name("dinf")) /\ Holds(c3, 141, Number(226))
      /\ Holds(c3, 145, Name("stbl")) /\ Holds(c3, 149, Number(150))
      /\ Holds(c3, 153, Name("stsd")) /\ Holds(c3, 169, Name("avc1"))
      /\ Holds(c3, 255, Name("avcC")) /\ Holds(c3, 259, Name("description"))
  BY <1>2, MinfIs, JoinSize, JoinLeft, JoinRight DEF c3
<1> QED BY <1>1, <1>3, BoxSize, BoxHolds

LEMMA TrakIs ==
  /\ Sized(TrakBox, 475) /\ Holds(TrakBox, 0, Number(475)) /\ Holds(TrakBox, 4, Name("trak"))
  /\ Holds(TrakBox, 8, Number(92)) /\ Holds(TrakBox, 12, Name("tkhd"))
  /\ Holds(TrakBox, 28, Number(TrackId)) /\ Holds(TrakBox, 100, Number(375))
  /\ Holds(TrakBox, 104, Name("mdia")) /\ Holds(TrakBox, 108, Number(32))
  /\ Holds(TrakBox, 112, Name("mdhd")) /\ Holds(TrakBox, 140, Number(45))
  /\ Holds(TrakBox, 144, Name("hdlr")) /\ Holds(TrakBox, 156, Name("vide"))
  /\ Holds(TrakBox, 185, Number(290)) /\ Holds(TrakBox, 189, Name("minf"))
  /\ Holds(TrakBox, 193, Number(20)) /\ Holds(TrakBox, 197, Name("vmhd"))
  /\ Holds(TrakBox, 213, Number(36)) /\ Holds(TrakBox, 217, Name("dinf"))
  /\ Holds(TrakBox, 249, Number(226)) /\ Holds(TrakBox, 253, Name("stbl"))
  /\ Holds(TrakBox, 257, Number(150)) /\ Holds(TrakBox, 261, Name("stsd"))
  /\ Holds(TrakBox, 277, Name("avc1")) /\ Holds(TrakBox, 363, Name("avcC"))
  /\ Holds(TrakBox, 367, Name("description"))
<1> DEFINE c2 == TkhdBox ++ MdiaBox
<1>1. TrakBox = Box("trak", c2)
  BY SMT DEF TrakBox
<1> HIDE DEF c2
<1>2. /\ Sized(c2, 467) /\ Holds(c2, 0, Number(92)) /\ Holds(c2, 4, Name("tkhd"))
      /\ Holds(c2, 20, Number(TrackId)) /\ Holds(c2, 92, Number(375))
      /\ Holds(c2, 96, Name("mdia")) /\ Holds(c2, 100, Number(32))
      /\ Holds(c2, 104, Name("mdhd")) /\ Holds(c2, 132, Number(45))
      /\ Holds(c2, 136, Name("hdlr")) /\ Holds(c2, 148, Name("vide"))
      /\ Holds(c2, 177, Number(290)) /\ Holds(c2, 181, Name("minf"))
      /\ Holds(c2, 185, Number(20)) /\ Holds(c2, 189, Name("vmhd"))
      /\ Holds(c2, 205, Number(36)) /\ Holds(c2, 209, Name("dinf"))
      /\ Holds(c2, 241, Number(226)) /\ Holds(c2, 245, Name("stbl"))
      /\ Holds(c2, 249, Number(150)) /\ Holds(c2, 253, Name("stsd"))
      /\ Holds(c2, 269, Name("avc1")) /\ Holds(c2, 355, Name("avcC"))
      /\ Holds(c2, 359, Name("description"))
  BY TkhdIs, MdiaIs, JoinSize, JoinLeft, JoinRight DEF c2
<1> QED BY <1>1, <1>2, BoxSize, BoxHolds

LEMMA TrexIs ==
  /\ Sized(TrexBox, 32) /\ Holds(TrexBox, 0, Number(32)) /\ Holds(TrexBox, 4, Name("trex"))
  /\ Holds(TrexBox, 12, Number(TrackId))
<1> DEFINE c2 == U32(TrackId) ++ U32(1)
           c3 == c2 ++ Zero
           c4 == c3 ++ Zero
           c5 == c4 ++ Zero
<1>1. TrexBox = FullBox("trex", 0, 0, c5)
  BY SMT DEF TrexBox
<1> HIDE DEF c2, c3, c4, c5
<1>2. /\ Sized(c2, 8) /\ Holds(c2, 0, Number(TrackId))
  BY U32Is, JoinSize, JoinLeft DEF c2
<1>3. /\ Sized(c3, 12) /\ Holds(c3, 0, Number(TrackId))
  BY <1>2, ZeroIs, JoinSize, JoinLeft DEF c3
<1>4. /\ Sized(c4, 16) /\ Holds(c4, 0, Number(TrackId))
  BY <1>3, ZeroIs, JoinSize, JoinLeft DEF c4
<1>5. /\ Sized(c5, 20) /\ Holds(c5, 0, Number(TrackId))
  BY <1>4, ZeroIs, JoinSize, JoinLeft DEF c5
<1> QED BY <1>1, <1>5, FullBoxSize, FullBoxHolds

LEMMA MvexIs ==
  /\ Sized(MvexBox, 40) /\ Holds(MvexBox, 0, Number(40)) /\ Holds(MvexBox, 4, Name("mvex"))
  /\ Holds(MvexBox, 8, Number(32)) /\ Holds(MvexBox, 12, Name("trex"))
  /\ Holds(MvexBox, 20, Number(TrackId))
<1>1. MvexBox = Box("mvex", TrexBox)
  BY SMT DEF MvexBox
<1> QED BY <1>1, TrexIs, BoxSize, BoxHolds

LEMMA MoovIs ==
  /\ Sized(MoovBox, 631) /\ Holds(MoovBox, 0, Number(631)) /\ Holds(MoovBox, 4, Name("moov"))
  /\ Holds(MoovBox, 8, Number(108)) /\ Holds(MoovBox, 12, Name("mvhd"))
  /\ Holds(MoovBox, 116, Number(475)) /\ Holds(MoovBox, 120, Name("trak"))
  /\ Holds(MoovBox, 124, Number(92)) /\ Holds(MoovBox, 128, Name("tkhd"))
  /\ Holds(MoovBox, 144, Number(TrackId)) /\ Holds(MoovBox, 216, Number(375))
  /\ Holds(MoovBox, 220, Name("mdia")) /\ Holds(MoovBox, 224, Number(32))
  /\ Holds(MoovBox, 228, Name("mdhd")) /\ Holds(MoovBox, 256, Number(45))
  /\ Holds(MoovBox, 260, Name("hdlr")) /\ Holds(MoovBox, 272, Name("vide"))
  /\ Holds(MoovBox, 301, Number(290)) /\ Holds(MoovBox, 305, Name("minf"))
  /\ Holds(MoovBox, 309, Number(20)) /\ Holds(MoovBox, 313, Name("vmhd"))
  /\ Holds(MoovBox, 329, Number(36)) /\ Holds(MoovBox, 333, Name("dinf"))
  /\ Holds(MoovBox, 365, Number(226)) /\ Holds(MoovBox, 369, Name("stbl"))
  /\ Holds(MoovBox, 373, Number(150)) /\ Holds(MoovBox, 377, Name("stsd"))
  /\ Holds(MoovBox, 393, Name("avc1")) /\ Holds(MoovBox, 479, Name("avcC"))
  /\ Holds(MoovBox, 483, Name("description")) /\ Holds(MoovBox, 591, Number(40))
  /\ Holds(MoovBox, 595, Name("mvex")) /\ Holds(MoovBox, 599, Number(32))
  /\ Holds(MoovBox, 603, Name("trex")) /\ Holds(MoovBox, 611, Number(TrackId))
<1> DEFINE c2 == MvhdBox ++ TrakBox
           c3 == c2 ++ MvexBox
<1>1. MoovBox = Box("moov", c3)
  BY SMT DEF MoovBox
<1> HIDE DEF c2, c3
<1>2. /\ Sized(c2, 583) /\ Holds(c2, 0, Number(108)) /\ Holds(c2, 4, Name("mvhd"))
      /\ Holds(c2, 108, Number(475)) /\ Holds(c2, 112, Name("trak"))
      /\ Holds(c2, 116, Number(92)) /\ Holds(c2, 120, Name("tkhd"))
      /\ Holds(c2, 136, Number(TrackId)) /\ Holds(c2, 208, Number(375))
      /\ Holds(c2, 212, Name("mdia")) /\ Holds(c2, 216, Number(32))
      /\ Holds(c2, 220, Name("mdhd")) /\ Holds(c2, 248, Number(45))
      /\ Holds(c2, 252, Name("hdlr")) /\ Holds(c2, 264, Name("vide"))
      /\ Holds(c2, 293, Number(290)) /\ Holds(c2, 297, Name("minf"))
      /\ Holds(c2, 301, Number(20)) /\ Holds(c2, 305, Name("vmhd"))
      /\ Holds(c2, 321, Number(36)) /\ Holds(c2, 325, Name("dinf"))
      /\ Holds(c2, 357, Number(226)) /\ Holds(c2, 361, Name("stbl"))
      /\ Holds(c2, 365, Number(150)) /\ Holds(c2, 369, Name("stsd"))
      /\ Holds(c2, 385, Name("avc1")) /\ Holds(c2, 471, Name("avcC"))
      /\ Holds(c2, 475, Name("description"))
  BY MvhdIs, TrakIs, JoinSize, JoinLeft, JoinRight DEF c2
<1>3. /\ Sized(c3, 623) /\ Holds(c3, 0, Number(108)) /\ Holds(c3, 4, Name("mvhd"))
      /\ Holds(c3, 108, Number(475)) /\ Holds(c3, 112, Name("trak"))
      /\ Holds(c3, 116, Number(92)) /\ Holds(c3, 120, Name("tkhd"))
      /\ Holds(c3, 136, Number(TrackId)) /\ Holds(c3, 208, Number(375))
      /\ Holds(c3, 212, Name("mdia")) /\ Holds(c3, 216, Number(32))
      /\ Holds(c3, 220, Name("mdhd")) /\ Holds(c3, 248, Number(45))
      /\ Holds(c3, 252, Name("hdlr")) /\ Holds(c3, 264, Name("vide"))
      /\ Holds(c3, 293, Number(290)) /\ Holds(c3, 297, Name("minf"))
      /\ Holds(c3, 301, Number(20)) /\ Holds(c3, 305, Name("vmhd"))
      /\ Holds(c3, 321, Number(36)) /\ Holds(c3, 325, Name("dinf"))
      /\ Holds(c3, 357, Number(226)) /\ Holds(c3, 361, Name("stbl"))
      /\ Holds(c3, 365, Number(150)) /\ Holds(c3, 369, Name("stsd"))
      /\ Holds(c3, 385, Name("avc1")) /\ Holds(c3, 471, Name("avcC"))
      /\ Holds(c3, 475, Name("description")) /\ Holds(c3, 583, Number(40))
      /\ Holds(c3, 587, Name("mvex")) /\ Holds(c3, 591, Number(32))
      /\ Holds(c3, 595, Name("trex")) /\ Holds(c3, 603, Number(TrackId))
  BY <1>2, MvexIs, JoinSize, JoinLeft, JoinRight DEF c3
<1> QED BY <1>1, <1>3, BoxSize, BoxHolds

LEMMA VideoInitSegmentIs ==
  /\ Sized(VideoInitSegment, 663) /\ Holds(VideoInitSegment, 0, Number(32))
  /\ Holds(VideoInitSegment, 4, Name("ftyp")) /\ Holds(VideoInitSegment, 32, Number(631))
  /\ Holds(VideoInitSegment, 36, Name("moov")) /\ Holds(VideoInitSegment, 40, Number(108))
  /\ Holds(VideoInitSegment, 44, Name("mvhd")) /\ Holds(VideoInitSegment, 148, Number(475))
  /\ Holds(VideoInitSegment, 152, Name("trak")) /\ Holds(VideoInitSegment, 156, Number(92))
  /\ Holds(VideoInitSegment, 160, Name("tkhd")) /\ Holds(VideoInitSegment, 176, Number(TrackId))
  /\ Holds(VideoInitSegment, 248, Number(375)) /\ Holds(VideoInitSegment, 252, Name("mdia"))
  /\ Holds(VideoInitSegment, 256, Number(32)) /\ Holds(VideoInitSegment, 260, Name("mdhd"))
  /\ Holds(VideoInitSegment, 288, Number(45)) /\ Holds(VideoInitSegment, 292, Name("hdlr"))
  /\ Holds(VideoInitSegment, 304, Name("vide")) /\ Holds(VideoInitSegment, 333, Number(290))
  /\ Holds(VideoInitSegment, 337, Name("minf")) /\ Holds(VideoInitSegment, 341, Number(20))
  /\ Holds(VideoInitSegment, 345, Name("vmhd")) /\ Holds(VideoInitSegment, 361, Number(36))
  /\ Holds(VideoInitSegment, 365, Name("dinf")) /\ Holds(VideoInitSegment, 397, Number(226))
  /\ Holds(VideoInitSegment, 401, Name("stbl")) /\ Holds(VideoInitSegment, 405, Number(150))
  /\ Holds(VideoInitSegment, 409, Name("stsd")) /\ Holds(VideoInitSegment, 425, Name("avc1"))
  /\ Holds(VideoInitSegment, 511, Name("avcC"))
  /\ Holds(VideoInitSegment, 515, Name("description"))
  /\ Holds(VideoInitSegment, 623, Number(40)) /\ Holds(VideoInitSegment, 627, Name("mvex"))
  /\ Holds(VideoInitSegment, 631, Number(32)) /\ Holds(VideoInitSegment, 635, Name("trex"))
  /\ Holds(VideoInitSegment, 643, Number(TrackId))
<1> DEFINE c2 == FTypeBox ++ MoovBox
<1>1. VideoInitSegment = c2
  BY SMT DEF VideoInitSegment
<1> HIDE DEF c2
<1>2. /\ Sized(c2, 663) /\ Holds(c2, 0, Number(32)) /\ Holds(c2, 4, Name("ftyp"))
      /\ Holds(c2, 32, Number(631)) /\ Holds(c2, 36, Name("moov")) /\ Holds(c2, 40, Number(108))
      /\ Holds(c2, 44, Name("mvhd")) /\ Holds(c2, 148, Number(475))
      /\ Holds(c2, 152, Name("trak")) /\ Holds(c2, 156, Number(92))
      /\ Holds(c2, 160, Name("tkhd")) /\ Holds(c2, 176, Number(TrackId))
      /\ Holds(c2, 248, Number(375)) /\ Holds(c2, 252, Name("mdia"))
      /\ Holds(c2, 256, Number(32)) /\ Holds(c2, 260, Name("mdhd"))
      /\ Holds(c2, 288, Number(45)) /\ Holds(c2, 292, Name("hdlr"))
      /\ Holds(c2, 304, Name("vide")) /\ Holds(c2, 333, Number(290))
      /\ Holds(c2, 337, Name("minf")) /\ Holds(c2, 341, Number(20))
      /\ Holds(c2, 345, Name("vmhd")) /\ Holds(c2, 361, Number(36))
      /\ Holds(c2, 365, Name("dinf")) /\ Holds(c2, 397, Number(226))
      /\ Holds(c2, 401, Name("stbl")) /\ Holds(c2, 405, Number(150))
      /\ Holds(c2, 409, Name("stsd")) /\ Holds(c2, 425, Name("avc1"))
      /\ Holds(c2, 511, Name("avcC")) /\ Holds(c2, 515, Name("description"))
      /\ Holds(c2, 623, Number(40)) /\ Holds(c2, 627, Name("mvex"))
      /\ Holds(c2, 631, Number(32)) /\ Holds(c2, 635, Name("trex"))
      /\ Holds(c2, 643, Number(TrackId))
  BY FTypeIs, MoovIs, JoinSize, JoinLeft, JoinRight DEF c2
<1> QED BY <1>1, <1>2

\* The init segment reads back: a description of the codec, of the one track.
LEMMA InitReads == InitSegmentReads
<1> DEFINE f == VideoInitSegment
           moov == Seek(f, 0, "moov")
           trak == Seek(f, moov + 8, "trak")
           tkhd == Seek(f, trak + 8, "tkhd")
           mdia == Seek(f, trak + 8, "mdia")
           hdlr == Seek(f, mdia + 8, "hdlr")
           minf == Seek(f, mdia + 8, "minf")
           stbl == Seek(f, minf + 8, "stbl")
           stsd == Seek(f, stbl + 8, "stsd")
           mvex == Seek(f, moov + 8, "mvex")
           trex == Seek(f, mvex + 8, "trex")
<1> HIDE DEF f, moov, trak, tkhd, mdia, hdlr, minf, stbl, stsd, mvex, trex
<1>1. /\ f.size = 663 /\ NumberAt(f, 0) = 32 /\ At(f, 4) = Name("ftyp") /\ NumberAt(f, 32) = 631
      /\ At(f, 36) = Name("moov") /\ NumberAt(f, 40) = 108 /\ At(f, 44) = Name("mvhd")
      /\ NumberAt(f, 148) = 475 /\ At(f, 152) = Name("trak") /\ NumberAt(f, 156) = 92
      /\ At(f, 160) = Name("tkhd") /\ NumberAt(f, 176) = TrackId /\ NumberAt(f, 248) = 375
      /\ At(f, 252) = Name("mdia") /\ NumberAt(f, 256) = 32 /\ At(f, 260) = Name("mdhd")
      /\ NumberAt(f, 288) = 45 /\ At(f, 292) = Name("hdlr") /\ At(f, 304) = Name("vide")
      /\ NumberAt(f, 333) = 290 /\ At(f, 337) = Name("minf") /\ NumberAt(f, 341) = 20
      /\ At(f, 345) = Name("vmhd") /\ NumberAt(f, 361) = 36 /\ At(f, 365) = Name("dinf")
      /\ NumberAt(f, 397) = 226 /\ At(f, 401) = Name("stbl") /\ NumberAt(f, 405) = 150
      /\ At(f, 409) = Name("stsd") /\ At(f, 425) = Name("avc1") /\ At(f, 511) = Name("avcC")
      /\ At(f, 515) = Name("description") /\ NumberAt(f, 623) = 40 /\ At(f, 627) = Name("mvex")
      /\ NumberAt(f, 631) = 32 /\ At(f, 635) = Name("trex") /\ NumberAt(f, 643) = TrackId
  <2>1. /\ Sized(f, 663) /\ Holds(f, 0, Number(32)) /\ Holds(f, 4, Name("ftyp"))
        /\ Holds(f, 32, Number(631)) /\ Holds(f, 36, Name("moov")) /\ Holds(f, 40, Number(108))
        /\ Holds(f, 44, Name("mvhd")) /\ Holds(f, 148, Number(475))
        /\ Holds(f, 152, Name("trak")) /\ Holds(f, 156, Number(92))
        /\ Holds(f, 160, Name("tkhd")) /\ Holds(f, 176, Number(TrackId))
        /\ Holds(f, 248, Number(375)) /\ Holds(f, 252, Name("mdia"))
        /\ Holds(f, 256, Number(32)) /\ Holds(f, 260, Name("mdhd")) /\ Holds(f, 288, Number(45))
        /\ Holds(f, 292, Name("hdlr")) /\ Holds(f, 304, Name("vide"))
        /\ Holds(f, 333, Number(290)) /\ Holds(f, 337, Name("minf"))
        /\ Holds(f, 341, Number(20)) /\ Holds(f, 345, Name("vmhd")) /\ Holds(f, 361, Number(36))
        /\ Holds(f, 365, Name("dinf")) /\ Holds(f, 397, Number(226))
        /\ Holds(f, 401, Name("stbl")) /\ Holds(f, 405, Number(150))
        /\ Holds(f, 409, Name("stsd")) /\ Holds(f, 425, Name("avc1"))
        /\ Holds(f, 511, Name("avcC")) /\ Holds(f, 515, Name("description"))
        /\ Holds(f, 623, Number(40)) /\ Holds(f, 627, Name("mvex")) /\ Holds(f, 631, Number(32))
        /\ Holds(f, 635, Name("trex")) /\ Holds(f, 643, Number(TrackId))
    BY VideoInitSegmentIs DEF f
  <2> QED BY <2>1, Reads, ReadsNumber DEF Sized
<1>2. moov = 32
  <2>1. Skip(f, 0, "moov") = 32
    <3>1. At(f, 0 + 4) = Name("ftyp")
      BY <1>1
    <3>2. Skip(f, 0, "moov") = 0 + NumberAt(f, 0)
      BY <3>1, Behind
    <3> QED BY <1>1, <3>2
  <2>2. Skip(f, 32, "moov") = 32
    <3>1. At(f, 32 + 4) = Name("moov")
      BY <1>1
    <3> QED BY <3>1, Here
  <2>3. Seek(f, 0, "moov") = 32
    BY <2>1, <2>2, Zenon DEF Seek
  <2> QED BY <2>3 DEF moov
<1>3. trak = 148
  <2>1. Skip(f, 40, "trak") = 148
    <3>1. At(f, 40 + 4) = Name("mvhd")
      BY <1>1
    <3>2. Skip(f, 40, "trak") = 40 + NumberAt(f, 40)
      BY <3>1, Behind
    <3> QED BY <1>1, <3>2
  <2>2. Skip(f, 148, "trak") = 148
    <3>1. At(f, 148 + 4) = Name("trak")
      BY <1>1
    <3> QED BY <3>1, Here
  <2>3. Seek(f, 40, "trak") = 148
    BY <2>1, <2>2, Zenon DEF Seek
  <2>4. moov + 8 = 40
    BY <1>2
  <2> QED BY <2>3, <2>4 DEF trak
<1>4. tkhd = 156
  <2>1. Skip(f, 156, "tkhd") = 156
    <3>1. At(f, 156 + 4) = Name("tkhd")
      BY <1>1
    <3> QED BY <3>1, Here
  <2>2. Seek(f, 156, "tkhd") = 156
    BY <2>1, Zenon DEF Seek
  <2>3. trak + 8 = 156
    BY <1>3
  <2> QED BY <2>2, <2>3 DEF tkhd
<1>5. mdia = 248
  <2>1. Skip(f, 156, "mdia") = 248
    <3>1. At(f, 156 + 4) = Name("tkhd")
      BY <1>1
    <3>2. Skip(f, 156, "mdia") = 156 + NumberAt(f, 156)
      BY <3>1, Behind
    <3> QED BY <1>1, <3>2
  <2>2. Skip(f, 248, "mdia") = 248
    <3>1. At(f, 248 + 4) = Name("mdia")
      BY <1>1
    <3> QED BY <3>1, Here
  <2>3. Seek(f, 156, "mdia") = 248
    BY <2>1, <2>2, Zenon DEF Seek
  <2>4. trak + 8 = 156
    BY <1>3
  <2> QED BY <2>3, <2>4 DEF mdia
<1>6. hdlr = 288
  <2>1. Skip(f, 256, "hdlr") = 288
    <3>1. At(f, 256 + 4) = Name("mdhd")
      BY <1>1
    <3>2. Skip(f, 256, "hdlr") = 256 + NumberAt(f, 256)
      BY <3>1, Behind
    <3> QED BY <1>1, <3>2
  <2>2. Skip(f, 288, "hdlr") = 288
    <3>1. At(f, 288 + 4) = Name("hdlr")
      BY <1>1
    <3> QED BY <3>1, Here
  <2>3. Seek(f, 256, "hdlr") = 288
    BY <2>1, <2>2, Zenon DEF Seek
  <2>4. mdia + 8 = 256
    BY <1>5
  <2> QED BY <2>3, <2>4 DEF hdlr
<1>7. minf = 333
  <2>1. Skip(f, 256, "minf") = 288
    <3>1. At(f, 256 + 4) = Name("mdhd")
      BY <1>1
    <3>2. Skip(f, 256, "minf") = 256 + NumberAt(f, 256)
      BY <3>1, Behind
    <3> QED BY <1>1, <3>2
  <2>2. Skip(f, 288, "minf") = 333
    <3>1. At(f, 288 + 4) = Name("hdlr")
      BY <1>1
    <3>2. Skip(f, 288, "minf") = 288 + NumberAt(f, 288)
      BY <3>1, Behind
    <3> QED BY <1>1, <3>2
  <2>3. Seek(f, 256, "minf") = 333
    BY <2>1, <2>2, Zenon DEF Seek
  <2>4. mdia + 8 = 256
    BY <1>5
  <2> QED BY <2>3, <2>4 DEF minf
<1>8. stbl = 397
  <2>1. Skip(f, 341, "stbl") = 361
    <3>1. At(f, 341 + 4) = Name("vmhd")
      BY <1>1
    <3>2. Skip(f, 341, "stbl") = 341 + NumberAt(f, 341)
      BY <3>1, Behind
    <3> QED BY <1>1, <3>2
  <2>2. Skip(f, 361, "stbl") = 397
    <3>1. At(f, 361 + 4) = Name("dinf")
      BY <1>1
    <3>2. Skip(f, 361, "stbl") = 361 + NumberAt(f, 361)
      BY <3>1, Behind
    <3> QED BY <1>1, <3>2
  <2>3. Seek(f, 341, "stbl") = 397
    BY <2>1, <2>2, Zenon DEF Seek
  <2>4. minf + 8 = 341
    BY <1>7
  <2> QED BY <2>3, <2>4 DEF stbl
<1>9. stsd = 405
  <2>1. Skip(f, 405, "stsd") = 405
    <3>1. At(f, 405 + 4) = Name("stsd")
      BY <1>1
    <3> QED BY <3>1, Here
  <2>2. Seek(f, 405, "stsd") = 405
    BY <2>1, Zenon DEF Seek
  <2>3. stbl + 8 = 405
    BY <1>8
  <2> QED BY <2>2, <2>3 DEF stsd
<1>10. mvex = 623
  <2>1. Skip(f, 40, "mvex") = 148
    <3>1. At(f, 40 + 4) = Name("mvhd")
      BY <1>1
    <3>2. Skip(f, 40, "mvex") = 40 + NumberAt(f, 40)
      BY <3>1, Behind
    <3> QED BY <1>1, <3>2
  <2>2. Skip(f, 148, "mvex") = 623
    <3>1. At(f, 148 + 4) = Name("trak")
      BY <1>1
    <3>2. Skip(f, 148, "mvex") = 148 + NumberAt(f, 148)
      BY <3>1, Behind
    <3> QED BY <1>1, <3>2
  <2>3. Seek(f, 40, "mvex") = 623
    BY <2>1, <2>2, Zenon DEF Seek
  <2>4. moov + 8 = 40
    BY <1>2
  <2> QED BY <2>3, <2>4 DEF mvex
<1>11. trex = 631
  <2>1. Skip(f, 631, "trex") = 631
    <3>1. At(f, 631 + 4) = Name("trex")
      BY <1>1
    <3> QED BY <3>1, Here
  <2>2. Seek(f, 631, "trex") = 631
    BY <2>1, Zenon DEF Seek
  <2>3. mvex + 8 = 631
    BY <1>10
  <2> QED BY <2>2, <2>3 DEF trex
<1>12. /\ At(f, hdlr + 16) = Name("vide") /\ At(f, stsd + 16 + 4) = Name("avc1")
      /\ At(f, stsd + 16 + 90) = Name("avcC") /\ At(f, stsd + 16 + 94) = Name("description")
  BY <1>1, <1>6, <1>9
<1>13. /\ NumberAt(f, moov) = 631 /\ NumberAt(f, tkhd + 20) = TrackId
      /\ NumberAt(f, trex + 12) = TrackId
  BY <1>1, <1>2, <1>4, <1>11
<1>14. f.size = 663 /\ f.size <= 2000 /\ moov + NumberAt(f, moov) = f.size
  BY <1>1, <1>2, <1>13
<1> QED BY <1>12, <1>13, <1>14
           DEF InitSegmentReads, f, moov, trak, tkhd, mdia, hdlr, minf, stbl, stsd, mvex, trex

\* The boxes of a frame, whose run of samples has its flags in one of two places.
LEMMA MfhdIs ==
  ASSUME NEW sequence
  PROVE  /\ Sized(MfhdBox(sequence), 16) /\ Holds(MfhdBox(sequence), 0, Number(16))
         /\ Holds(MfhdBox(sequence), 4, Name("mfhd"))
<1>1. MfhdBox(sequence) = FullBox("mfhd", 0, 0, U32(sequence))
  BY SMT DEF MfhdBox
<1> QED BY <1>1, U32Is, FullBoxSize

LEMMA TfhdIs ==
  /\ Sized(TfhdBox, 16) /\ Holds(TfhdBox, 0, Number(16)) /\ Holds(TfhdBox, 4, Name("tfhd"))
  /\ Holds(TfhdBox, 12, Number(TrackId))
<1>1. TfhdBox = FullBox("tfhd", 0, 131072, U32(TrackId))
  BY SMT DEF TfhdBox
<1> QED BY <1>1, U32Is, FullBoxSize, FullBoxHolds

LEMMA TfdtIs ==
  ASSUME NEW time
  PROVE  /\ Sized(TfdtBox(time), 28) /\ Holds(TfdtBox(time), 0, Number(28))
         /\ Holds(TfdtBox(time), 4, Name("tfdt")) /\ Holds(TfdtBox(time), 12, Number(time))
<1>1. TfdtBox(time) = FullBox("tfdt", 1, 0, U64(time))
  BY SMT DEF TfdtBox
<1> QED BY <1>1, U64Is, FullBoxSize, FullBoxHolds

FirstRun(offset, duration, size, key) ==
    FullBox("trun", 0, 773,
        U32(1) ++ U32(offset) ++ U32(IF key THEN 33554432 ELSE 16842752)
            ++ U32(duration) ++ U32(size) ++ Nothing)

LEMMA TrunFirst ==
  ASSUME NEW offset, NEW duration, NEW size, NEW key
  PROVE  /\ Sized(FirstRun(offset, duration, size, key), 32)
         /\ Holds(FirstRun(offset, duration, size, key), 0, Number(32))
         /\ Holds(FirstRun(offset, duration, size, key), 4, Name("trun"))
         /\ Holds(FirstRun(offset, duration, size, key), 9, Number(773))
         /\ Holds(FirstRun(offset, duration, size, key), 16, Number(offset))
         /\ Holds(FirstRun(offset, duration, size, key), 24, Number(duration))
         /\ Holds(FirstRun(offset, duration, size, key), 28, Number(size))
<1> DEFINE c2 == U32(1) ++ U32(offset)
           c3 == c2 ++ U32(IF key THEN 33554432 ELSE 16842752)
           c4 == c3 ++ U32(duration)
           c5 == c4 ++ U32(size)
           c6 == c5 ++ Nothing
<1>1. FirstRun(offset, duration, size, key) = FullBox("trun", 0, 773, c6)
  BY SMT DEF FirstRun
<1> HIDE DEF c2, c3, c4, c5, c6
<1>2. /\ Sized(c2, 8) /\ Holds(c2, 4, Number(offset))
  BY U32Is, JoinSize, JoinRight DEF c2
<1>3. /\ Sized(c3, 12) /\ Holds(c3, 4, Number(offset))
  BY <1>2, U32Is, JoinSize, JoinLeft DEF c3
<1>4. /\ Sized(c4, 16) /\ Holds(c4, 4, Number(offset)) /\ Holds(c4, 12, Number(duration))
  BY <1>3, U32Is, JoinSize, JoinLeft, JoinRight DEF c4
<1>5. /\ Sized(c5, 20) /\ Holds(c5, 4, Number(offset)) /\ Holds(c5, 12, Number(duration))
      /\ Holds(c5, 16, Number(size))
  BY <1>4, U32Is, JoinSize, JoinLeft, JoinRight DEF c5
<1>6. /\ Sized(c6, 20) /\ Holds(c6, 4, Number(offset)) /\ Holds(c6, 12, Number(duration))
      /\ Holds(c6, 16, Number(size))
  BY <1>5, NothingIs, JoinSize, JoinLeft DEF c6
<1>7. /\ Sized(FullBox("trun", 0, 773, c6), 32)
      /\ Holds(FullBox("trun", 0, 773, c6), 0, Number(32))
      /\ Holds(FullBox("trun", 0, 773, c6), 4, Name("trun"))
      /\ Holds(FullBox("trun", 0, 773, c6), 9, Number(773))
      /\ Holds(FullBox("trun", 0, 773, c6), 16, Number(offset))
      /\ Holds(FullBox("trun", 0, 773, c6), 24, Number(duration))
      /\ Holds(FullBox("trun", 0, 773, c6), 28, Number(size))
  BY <1>6, FullBoxSize, FullBoxHolds
<1> QED BY <1>1, <1>7

LEMMA TrafFirst ==
  ASSUME NEW frame, NEW offset, frame.sequence = 1
  PROVE  /\ Sized(TrafBox(frame, offset), 84) /\ Holds(TrafBox(frame, offset), 0, Number(84))
         /\ Holds(TrafBox(frame, offset), 4, Name("traf"))
         /\ Holds(TrafBox(frame, offset), 8, Number(16))
         /\ Holds(TrafBox(frame, offset), 12, Name("tfhd"))
         /\ Holds(TrafBox(frame, offset), 20, Number(TrackId))
         /\ Holds(TrafBox(frame, offset), 24, Number(28))
         /\ Holds(TrafBox(frame, offset), 28, Name("tfdt"))
         /\ Holds(TrafBox(frame, offset), 36, Number(frame.time))
         /\ Holds(TrafBox(frame, offset), 52, Number(32))
         /\ Holds(TrafBox(frame, offset), 56, Name("trun"))
         /\ Holds(TrafBox(frame, offset), 61, Number(773))
         /\ Holds(TrafBox(frame, offset), 68, Number(offset))
         /\ Holds(TrafBox(frame, offset), 76, Number(frame.duration))
         /\ Holds(TrafBox(frame, offset), 80, Number(frame.size))
<1> DEFINE run == FirstRun(offset, frame.duration, frame.size, frame.key)
           c2 == TfhdBox ++ TfdtBox(frame.time)
           c3 == c2 ++ run
<1>1. TrafBox(frame, offset) = Box("traf", c3)
  BY SMT DEF TrafBox, TrunBox, FirstRun
<1>2. /\ Sized(run, 32) /\ Holds(run, 0, Number(32)) /\ Holds(run, 4, Name("trun"))
      /\ Holds(run, 9, Number(773)) /\ Holds(run, 16, Number(offset))
      /\ Holds(run, 24, Number(frame.duration)) /\ Holds(run, 28, Number(frame.size))
  BY TrunFirst
<1> HIDE DEF c2, c3, run
<1>3. /\ Sized(c2, 44) /\ Holds(c2, 0, Number(16)) /\ Holds(c2, 4, Name("tfhd"))
      /\ Holds(c2, 12, Number(TrackId)) /\ Holds(c2, 16, Number(28))
      /\ Holds(c2, 20, Name("tfdt")) /\ Holds(c2, 28, Number(frame.time))
  BY TfhdIs, TfdtIs, JoinSize, JoinLeft, JoinRight DEF c2
<1>4. /\ Sized(c3, 76) /\ Holds(c3, 0, Number(16)) /\ Holds(c3, 4, Name("tfhd"))
      /\ Holds(c3, 12, Number(TrackId)) /\ Holds(c3, 16, Number(28))
      /\ Holds(c3, 20, Name("tfdt")) /\ Holds(c3, 28, Number(frame.time))
      /\ Holds(c3, 44, Number(32)) /\ Holds(c3, 48, Name("trun")) /\ Holds(c3, 53, Number(773))
      /\ Holds(c3, 60, Number(offset)) /\ Holds(c3, 68, Number(frame.duration))
      /\ Holds(c3, 72, Number(frame.size))
  BY <1>3, <1>2, JoinSize, JoinLeft, JoinRight DEF c3
<1> QED BY <1>1, <1>4, BoxSize, BoxHolds

LEMMA MoofFirst ==
  ASSUME NEW frame, NEW offset, frame.sequence = 1
  PROVE  /\ Sized(MoofBox(frame, offset), 108) /\ Holds(MoofBox(frame, offset), 0, Number(108))
         /\ Holds(MoofBox(frame, offset), 4, Name("moof"))
         /\ Holds(MoofBox(frame, offset), 8, Number(16))
         /\ Holds(MoofBox(frame, offset), 12, Name("mfhd"))
         /\ Holds(MoofBox(frame, offset), 24, Number(84))
         /\ Holds(MoofBox(frame, offset), 28, Name("traf"))
         /\ Holds(MoofBox(frame, offset), 32, Number(16))
         /\ Holds(MoofBox(frame, offset), 36, Name("tfhd"))
         /\ Holds(MoofBox(frame, offset), 44, Number(TrackId))
         /\ Holds(MoofBox(frame, offset), 48, Number(28))
         /\ Holds(MoofBox(frame, offset), 52, Name("tfdt"))
         /\ Holds(MoofBox(frame, offset), 60, Number(frame.time))
         /\ Holds(MoofBox(frame, offset), 76, Number(32))
         /\ Holds(MoofBox(frame, offset), 80, Name("trun"))
         /\ Holds(MoofBox(frame, offset), 85, Number(773))
         /\ Holds(MoofBox(frame, offset), 92, Number(offset))
         /\ Holds(MoofBox(frame, offset), 100, Number(frame.duration))
         /\ Holds(MoofBox(frame, offset), 104, Number(frame.size))
<1> DEFINE c2 == MfhdBox(frame.sequence) ++ TrafBox(frame, offset)
<1>1. MoofBox(frame, offset) = Box("moof", c2)
  BY SMT DEF MoofBox
<1> HIDE DEF c2
<1>2. /\ Sized(c2, 100) /\ Holds(c2, 0, Number(16)) /\ Holds(c2, 4, Name("mfhd"))
      /\ Holds(c2, 16, Number(84)) /\ Holds(c2, 20, Name("traf")) /\ Holds(c2, 24, Number(16))
      /\ Holds(c2, 28, Name("tfhd")) /\ Holds(c2, 36, Number(TrackId))
      /\ Holds(c2, 40, Number(28)) /\ Holds(c2, 44, Name("tfdt"))
      /\ Holds(c2, 52, Number(frame.time)) /\ Holds(c2, 68, Number(32))
      /\ Holds(c2, 72, Name("trun")) /\ Holds(c2, 77, Number(773))
      /\ Holds(c2, 84, Number(offset)) /\ Holds(c2, 92, Number(frame.duration))
      /\ Holds(c2, 96, Number(frame.size))
  BY MfhdIs, TrafFirst, JoinSize, JoinLeft, JoinRight DEF c2
<1> QED BY <1>1, <1>2, BoxSize, BoxHolds

LaterRun(offset, duration, size, key) ==
    FullBox("trun", 0, 1793,
        U32(1) ++ U32(offset) ++ Nothing
            ++ U32(duration) ++ U32(size) ++ U32(IF key THEN 33554432 ELSE 16842752))

LEMMA TrunLater ==
  ASSUME NEW offset, NEW duration, NEW size, NEW key
  PROVE  /\ Sized(LaterRun(offset, duration, size, key), 32)
         /\ Holds(LaterRun(offset, duration, size, key), 0, Number(32))
         /\ Holds(LaterRun(offset, duration, size, key), 4, Name("trun"))
         /\ Holds(LaterRun(offset, duration, size, key), 9, Number(1793))
         /\ Holds(LaterRun(offset, duration, size, key), 16, Number(offset))
         /\ Holds(LaterRun(offset, duration, size, key), 20, Number(duration))
         /\ Holds(LaterRun(offset, duration, size, key), 24, Number(size))
<1> DEFINE c2 == U32(1) ++ U32(offset)
           c3 == c2 ++ Nothing
           c4 == c3 ++ U32(duration)
           c5 == c4 ++ U32(size)
           c6 == c5 ++ U32(IF key THEN 33554432 ELSE 16842752)
<1>1. LaterRun(offset, duration, size, key) = FullBox("trun", 0, 1793, c6)
  BY SMT DEF LaterRun
<1> HIDE DEF c2, c3, c4, c5, c6
<1>2. /\ Sized(c2, 8) /\ Holds(c2, 4, Number(offset))
  BY U32Is, JoinSize, JoinRight DEF c2
<1>3. /\ Sized(c3, 8) /\ Holds(c3, 4, Number(offset))
  BY <1>2, NothingIs, JoinSize, JoinLeft DEF c3
<1>4. /\ Sized(c4, 12) /\ Holds(c4, 4, Number(offset)) /\ Holds(c4, 8, Number(duration))
  BY <1>3, U32Is, JoinSize, JoinLeft, JoinRight DEF c4
<1>5. /\ Sized(c5, 16) /\ Holds(c5, 4, Number(offset)) /\ Holds(c5, 8, Number(duration))
      /\ Holds(c5, 12, Number(size))
  BY <1>4, U32Is, JoinSize, JoinLeft, JoinRight DEF c5
<1>6. /\ Sized(c6, 20) /\ Holds(c6, 4, Number(offset)) /\ Holds(c6, 8, Number(duration))
      /\ Holds(c6, 12, Number(size))
  BY <1>5, U32Is, JoinSize, JoinLeft DEF c6
<1>7. /\ Sized(FullBox("trun", 0, 1793, c6), 32)
      /\ Holds(FullBox("trun", 0, 1793, c6), 0, Number(32))
      /\ Holds(FullBox("trun", 0, 1793, c6), 4, Name("trun"))
      /\ Holds(FullBox("trun", 0, 1793, c6), 9, Number(1793))
      /\ Holds(FullBox("trun", 0, 1793, c6), 16, Number(offset))
      /\ Holds(FullBox("trun", 0, 1793, c6), 20, Number(duration))
      /\ Holds(FullBox("trun", 0, 1793, c6), 24, Number(size))
  BY <1>6, FullBoxSize, FullBoxHolds
<1> QED BY <1>1, <1>7

LEMMA TrafLater ==
  ASSUME NEW frame, NEW offset, frame.sequence # 1
  PROVE  /\ Sized(TrafBox(frame, offset), 84) /\ Holds(TrafBox(frame, offset), 0, Number(84))
         /\ Holds(TrafBox(frame, offset), 4, Name("traf"))
         /\ Holds(TrafBox(frame, offset), 8, Number(16))
         /\ Holds(TrafBox(frame, offset), 12, Name("tfhd"))
         /\ Holds(TrafBox(frame, offset), 20, Number(TrackId))
         /\ Holds(TrafBox(frame, offset), 24, Number(28))
         /\ Holds(TrafBox(frame, offset), 28, Name("tfdt"))
         /\ Holds(TrafBox(frame, offset), 36, Number(frame.time))
         /\ Holds(TrafBox(frame, offset), 52, Number(32))
         /\ Holds(TrafBox(frame, offset), 56, Name("trun"))
         /\ Holds(TrafBox(frame, offset), 61, Number(1793))
         /\ Holds(TrafBox(frame, offset), 68, Number(offset))
         /\ Holds(TrafBox(frame, offset), 72, Number(frame.duration))
         /\ Holds(TrafBox(frame, offset), 76, Number(frame.size))
<1> DEFINE run == LaterRun(offset, frame.duration, frame.size, frame.key)
           c2 == TfhdBox ++ TfdtBox(frame.time)
           c3 == c2 ++ run
<1>1. TrafBox(frame, offset) = Box("traf", c3)
  BY SMT DEF TrafBox, TrunBox, LaterRun
<1>2. /\ Sized(run, 32) /\ Holds(run, 0, Number(32)) /\ Holds(run, 4, Name("trun"))
      /\ Holds(run, 9, Number(1793)) /\ Holds(run, 16, Number(offset))
      /\ Holds(run, 20, Number(frame.duration)) /\ Holds(run, 24, Number(frame.size))
  BY TrunLater
<1> HIDE DEF c2, c3, run
<1>3. /\ Sized(c2, 44) /\ Holds(c2, 0, Number(16)) /\ Holds(c2, 4, Name("tfhd"))
      /\ Holds(c2, 12, Number(TrackId)) /\ Holds(c2, 16, Number(28))
      /\ Holds(c2, 20, Name("tfdt")) /\ Holds(c2, 28, Number(frame.time))
  BY TfhdIs, TfdtIs, JoinSize, JoinLeft, JoinRight DEF c2
<1>4. /\ Sized(c3, 76) /\ Holds(c3, 0, Number(16)) /\ Holds(c3, 4, Name("tfhd"))
      /\ Holds(c3, 12, Number(TrackId)) /\ Holds(c3, 16, Number(28))
      /\ Holds(c3, 20, Name("tfdt")) /\ Holds(c3, 28, Number(frame.time))
      /\ Holds(c3, 44, Number(32)) /\ Holds(c3, 48, Name("trun")) /\ Holds(c3, 53, Number(1793))
      /\ Holds(c3, 60, Number(offset)) /\ Holds(c3, 64, Number(frame.duration))
      /\ Holds(c3, 68, Number(frame.size))
  BY <1>3, <1>2, JoinSize, JoinLeft, JoinRight DEF c3
<1> QED BY <1>1, <1>4, BoxSize, BoxHolds

LEMMA MoofLater ==
  ASSUME NEW frame, NEW offset, frame.sequence # 1
  PROVE  /\ Sized(MoofBox(frame, offset), 108) /\ Holds(MoofBox(frame, offset), 0, Number(108))
         /\ Holds(MoofBox(frame, offset), 4, Name("moof"))
         /\ Holds(MoofBox(frame, offset), 8, Number(16))
         /\ Holds(MoofBox(frame, offset), 12, Name("mfhd"))
         /\ Holds(MoofBox(frame, offset), 24, Number(84))
         /\ Holds(MoofBox(frame, offset), 28, Name("traf"))
         /\ Holds(MoofBox(frame, offset), 32, Number(16))
         /\ Holds(MoofBox(frame, offset), 36, Name("tfhd"))
         /\ Holds(MoofBox(frame, offset), 44, Number(TrackId))
         /\ Holds(MoofBox(frame, offset), 48, Number(28))
         /\ Holds(MoofBox(frame, offset), 52, Name("tfdt"))
         /\ Holds(MoofBox(frame, offset), 60, Number(frame.time))
         /\ Holds(MoofBox(frame, offset), 76, Number(32))
         /\ Holds(MoofBox(frame, offset), 80, Name("trun"))
         /\ Holds(MoofBox(frame, offset), 85, Number(1793))
         /\ Holds(MoofBox(frame, offset), 92, Number(offset))
         /\ Holds(MoofBox(frame, offset), 96, Number(frame.duration))
         /\ Holds(MoofBox(frame, offset), 100, Number(frame.size))
<1> DEFINE c2 == MfhdBox(frame.sequence) ++ TrafBox(frame, offset)
<1>1. MoofBox(frame, offset) = Box("moof", c2)
  BY SMT DEF MoofBox
<1> HIDE DEF c2
<1>2. /\ Sized(c2, 100) /\ Holds(c2, 0, Number(16)) /\ Holds(c2, 4, Name("mfhd"))
      /\ Holds(c2, 16, Number(84)) /\ Holds(c2, 20, Name("traf")) /\ Holds(c2, 24, Number(16))
      /\ Holds(c2, 28, Name("tfhd")) /\ Holds(c2, 36, Number(TrackId))
      /\ Holds(c2, 40, Number(28)) /\ Holds(c2, 44, Name("tfdt"))
      /\ Holds(c2, 52, Number(frame.time)) /\ Holds(c2, 68, Number(32))
      /\ Holds(c2, 72, Name("trun")) /\ Holds(c2, 77, Number(1793))
      /\ Holds(c2, 84, Number(offset)) /\ Holds(c2, 88, Number(frame.duration))
      /\ Holds(c2, 92, Number(frame.size))
  BY MfhdIs, TrafLater, JoinSize, JoinLeft, JoinRight DEF c2
<1> QED BY <1>1, <1>2, BoxSize, BoxHolds

LEMMA MdatIs ==
  ASSUME NEW frame, frame.size \in Nat \ {0}
  PROVE  /\ Sized(MdatBox(frame), frame.size + 8)
         /\ Holds(MdatBox(frame), 0, Number(frame.size + 8))
         /\ Holds(MdatBox(frame), 8, Name("frame"))
<1> DEFINE n == frame.size
           bytes == U8Array("frame", n)
<1>1. MdatBox(frame) = Box("mdat", bytes)
  BY Zenon DEF MdatBox
<1>2. Sized(bytes, n) /\ Holds(bytes, 0, Name("frame"))
  BY U8ArrayIs
<1> HIDE DEF bytes
<1>3. Sized(Box("mdat", bytes), n + 8) /\ Holds(Box("mdat", bytes), 0, Number(n + 8))
  BY <1>2, BoxSize
<1>4. Holds(Box("mdat", bytes), 8, Name("frame"))
  <2>1. Holds(Box("mdat", bytes), 0 + 8, Name("frame"))
    BY <1>2, BoxHolds
  <2> QED BY <2>1
<1> QED BY <1>1, <1>3, <1>4, Zenon

\* The segment of a frame reads back, first of its source buffer or not.
LEMMA FirstFrameReads ==
  ASSUME NEW frame, frame.size \in Nat \ {0}, frame.sequence = 1
  PROVE  FrameSegmentReads(frame)
<1> DEFINE n == frame.size
           moof == MoofBox(frame, 116)
           mdat == MdatBox(frame)
           f == VideoFrameSegment(frame)
           traf == Seek(f, 8, "traf")
           trun == Seek(f, traf + 8, "trun")
           tfhd == Seek(f, traf + 8, "tfhd")
           tfdt == Seek(f, traf + 8, "tfdt")
           first == (NumberAt(f, trun + 9) \div 4) % 2
           sample == trun + 20 + 4 * first
           data == NumberAt(f, trun + 16)
<1>1. f = moof ++ mdat
  <2>1. MoofBox(frame, 0).size + 8 = 116
    <3>1. Sized(MoofBox(frame, 0), 108)
      BY MoofFirst
    <3> QED BY <3>1 DEF Sized
  <2> QED BY <2>1, Zenon DEF VideoFrameSegment
<1>2. /\ Sized(moof, 108) /\ Holds(moof, 0, Number(108)) /\ Holds(moof, 4, Name("moof"))
      /\ Holds(moof, 8, Number(16)) /\ Holds(moof, 12, Name("mfhd"))
      /\ Holds(moof, 24, Number(84)) /\ Holds(moof, 28, Name("traf"))
      /\ Holds(moof, 32, Number(16)) /\ Holds(moof, 36, Name("tfhd"))
      /\ Holds(moof, 44, Number(TrackId)) /\ Holds(moof, 48, Number(28))
      /\ Holds(moof, 52, Name("tfdt")) /\ Holds(moof, 60, Number(frame.time))
      /\ Holds(moof, 76, Number(32)) /\ Holds(moof, 80, Name("trun"))
      /\ Holds(moof, 85, Number(773)) /\ Holds(moof, 92, Number(116))
      /\ Holds(moof, 100, Number(frame.duration)) /\ Holds(moof, 104, Number(frame.size))
  BY MoofFirst
<1>3. Sized(mdat, n + 8) /\ Holds(mdat, 0, Number(n + 8)) /\ Holds(mdat, 8, Name("frame"))
  BY MdatIs, Zenon
<1>4. n \in Nat /\ n + 8 \in Nat
  OBVIOUS
<1> HIDE DEF n, f, moof, mdat, traf, trun, tfhd, tfdt, first, sample, data
<1>5. /\ Sized(f, 108 + (n + 8)) /\ Holds(f, 0, Number(108)) /\ Holds(f, 4, Name("moof"))
      /\ Holds(f, 8, Number(16)) /\ Holds(f, 12, Name("mfhd")) /\ Holds(f, 24, Number(84))
      /\ Holds(f, 28, Name("traf")) /\ Holds(f, 32, Number(16)) /\ Holds(f, 36, Name("tfhd"))
      /\ Holds(f, 44, Number(TrackId)) /\ Holds(f, 48, Number(28)) /\ Holds(f, 52, Name("tfdt"))
      /\ Holds(f, 60, Number(frame.time)) /\ Holds(f, 76, Number(32))
      /\ Holds(f, 80, Name("trun")) /\ Holds(f, 85, Number(773)) /\ Holds(f, 92, Number(116))
      /\ Holds(f, 100, Number(frame.duration)) /\ Holds(f, 104, Number(frame.size))
      /\ Holds(f, 108, Number(n + 8)) /\ Holds(f, 116, Name("frame"))
  <2>1. /\ Sized(f, 108 + (n + 8)) /\ Holds(f, 0, Number(108)) /\ Holds(f, 4, Name("moof"))
        /\ Holds(f, 8, Number(16)) /\ Holds(f, 12, Name("mfhd")) /\ Holds(f, 24, Number(84))
        /\ Holds(f, 28, Name("traf")) /\ Holds(f, 32, Number(16)) /\ Holds(f, 36, Name("tfhd"))
        /\ Holds(f, 44, Number(TrackId)) /\ Holds(f, 48, Number(28))
        /\ Holds(f, 52, Name("tfdt")) /\ Holds(f, 60, Number(frame.time))
        /\ Holds(f, 76, Number(32)) /\ Holds(f, 80, Name("trun")) /\ Holds(f, 85, Number(773))
        /\ Holds(f, 92, Number(116)) /\ Holds(f, 100, Number(frame.duration))
        /\ Holds(f, 104, Number(frame.size))
    BY <1>1, <1>2, <1>3, <1>4, JoinSize, JoinLeft
  <2>2. Holds(f, 108 + 0, Number(n + 8)) /\ Holds(f, 108 + 8, Name("frame"))
    BY <1>1, <1>2, <1>3, <1>4, JoinRight
  <2> QED BY <2>1, <2>2
<1>6. /\ f.size = 108 + (n + 8) /\ NumberAt(f, 0) = 108 /\ At(f, 4) = Name("moof")
      /\ NumberAt(f, 8) = 16 /\ At(f, 12) = Name("mfhd") /\ NumberAt(f, 24) = 84
      /\ At(f, 28) = Name("traf") /\ NumberAt(f, 32) = 16 /\ At(f, 36) = Name("tfhd")
      /\ NumberAt(f, 44) = TrackId /\ NumberAt(f, 48) = 28 /\ At(f, 52) = Name("tfdt")
      /\ NumberAt(f, 60) = frame.time /\ NumberAt(f, 76) = 32 /\ At(f, 80) = Name("trun")
      /\ NumberAt(f, 85) = 773 /\ NumberAt(f, 92) = 116 /\ NumberAt(f, 100) = frame.duration
      /\ NumberAt(f, 104) = frame.size /\ NumberAt(f, 108) = n + 8 /\ At(f, 116) = Name("frame")
  BY <1>5, Reads, ReadsNumber DEF Sized
<1>7. traf = 24
  <2>1. Skip(f, 8, "traf") = 24
    <3>1. At(f, 8 + 4) = Name("mfhd")
      BY <1>6
    <3>2. Skip(f, 8, "traf") = 8 + NumberAt(f, 8)
      BY <3>1, Behind
    <3> QED BY <1>6, <3>2
  <2>2. Skip(f, 24, "traf") = 24
    <3>1. At(f, 24 + 4) = Name("traf")
      BY <1>6
    <3> QED BY <3>1, Here
  <2>3. Seek(f, 8, "traf") = 24
    BY <2>1, <2>2, Zenon DEF Seek
  <2> QED BY <2>3 DEF traf
<1>8. trun = 76
  <2>1. Skip(f, 32, "trun") = 48
    <3>1. At(f, 32 + 4) = Name("tfhd")
      BY <1>6
    <3>2. Skip(f, 32, "trun") = 32 + NumberAt(f, 32)
      BY <3>1, Behind
    <3> QED BY <1>6, <3>2
  <2>2. Skip(f, 48, "trun") = 76
    <3>1. At(f, 48 + 4) = Name("tfdt")
      BY <1>6
    <3>2. Skip(f, 48, "trun") = 48 + NumberAt(f, 48)
      BY <3>1, Behind
    <3> QED BY <1>6, <3>2
  <2>3. Seek(f, 32, "trun") = 76
    BY <2>1, <2>2, Zenon DEF Seek
  <2>4. traf + 8 = 32
    BY <1>7
  <2> QED BY <2>3, <2>4 DEF trun
<1>9. tfhd = 32
  <2>1. Skip(f, 32, "tfhd") = 32
    <3>1. At(f, 32 + 4) = Name("tfhd")
      BY <1>6
    <3> QED BY <3>1, Here
  <2>2. Seek(f, 32, "tfhd") = 32
    BY <2>1, Zenon DEF Seek
  <2>3. traf + 8 = 32
    BY <1>7
  <2> QED BY <2>2, <2>3 DEF tfhd
<1>10. tfdt = 48
  <2>1. Skip(f, 32, "tfdt") = 48
    <3>1. At(f, 32 + 4) = Name("tfhd")
      BY <1>6
    <3>2. Skip(f, 32, "tfdt") = 32 + NumberAt(f, 32)
      BY <3>1, Behind
    <3> QED BY <1>6, <3>2
  <2>2. Skip(f, 48, "tfdt") = 48
    <3>1. At(f, 48 + 4) = Name("tfdt")
      BY <1>6
    <3> QED BY <3>1, Here
  <2>3. Seek(f, 32, "tfdt") = 48
    BY <2>1, <2>2, Zenon DEF Seek
  <2>4. traf + 8 = 32
    BY <1>7
  <2> QED BY <2>3, <2>4 DEF tfdt
<1>11. first = 1
  <2>1. NumberAt(f, trun + 9) = 773
    BY <1>6, <1>8
  <2> QED BY <2>1 DEF first
<1>12. sample = 100 /\ data = 116
  BY <1>6, <1>8, <1>11 DEF sample, data
<1>13. /\ f.size <= 400 + n /\ NumberAt(f, tfhd + 12) = TrackId
      /\ NumberAt(f, tfdt + 12) = frame.time /\ NumberAt(f, sample) = frame.duration
      /\ NumberAt(f, sample + 4) = n /\ At(f, data) = Name("frame")
      /\ NumberAt(f, data - 8) = n + 8
  BY <1>4, <1>6, <1>9, <1>10, <1>12 DEF n
<1> QED BY <1>13 DEF FrameSegmentReads, n, f, traf, trun, tfhd, tfdt, first, sample, data

LEMMA LaterFrameReads ==
  ASSUME NEW frame, frame.size \in Nat \ {0}, frame.sequence # 1
  PROVE  FrameSegmentReads(frame)
<1> DEFINE n == frame.size
           moof == MoofBox(frame, 116)
           mdat == MdatBox(frame)
           f == VideoFrameSegment(frame)
           traf == Seek(f, 8, "traf")
           trun == Seek(f, traf + 8, "trun")
           tfhd == Seek(f, traf + 8, "tfhd")
           tfdt == Seek(f, traf + 8, "tfdt")
           first == (NumberAt(f, trun + 9) \div 4) % 2
           sample == trun + 20 + 4 * first
           data == NumberAt(f, trun + 16)
<1>1. f = moof ++ mdat
  <2>1. MoofBox(frame, 0).size + 8 = 116
    <3>1. Sized(MoofBox(frame, 0), 108)
      BY MoofLater
    <3> QED BY <3>1 DEF Sized
  <2> QED BY <2>1, Zenon DEF VideoFrameSegment
<1>2. /\ Sized(moof, 108) /\ Holds(moof, 0, Number(108)) /\ Holds(moof, 4, Name("moof"))
      /\ Holds(moof, 8, Number(16)) /\ Holds(moof, 12, Name("mfhd"))
      /\ Holds(moof, 24, Number(84)) /\ Holds(moof, 28, Name("traf"))
      /\ Holds(moof, 32, Number(16)) /\ Holds(moof, 36, Name("tfhd"))
      /\ Holds(moof, 44, Number(TrackId)) /\ Holds(moof, 48, Number(28))
      /\ Holds(moof, 52, Name("tfdt")) /\ Holds(moof, 60, Number(frame.time))
      /\ Holds(moof, 76, Number(32)) /\ Holds(moof, 80, Name("trun"))
      /\ Holds(moof, 85, Number(1793)) /\ Holds(moof, 92, Number(116))
      /\ Holds(moof, 96, Number(frame.duration)) /\ Holds(moof, 100, Number(frame.size))
  BY MoofLater
<1>3. Sized(mdat, n + 8) /\ Holds(mdat, 0, Number(n + 8)) /\ Holds(mdat, 8, Name("frame"))
  BY MdatIs, Zenon
<1>4. n \in Nat /\ n + 8 \in Nat
  OBVIOUS
<1> HIDE DEF n, f, moof, mdat, traf, trun, tfhd, tfdt, first, sample, data
<1>5. /\ Sized(f, 108 + (n + 8)) /\ Holds(f, 0, Number(108)) /\ Holds(f, 4, Name("moof"))
      /\ Holds(f, 8, Number(16)) /\ Holds(f, 12, Name("mfhd")) /\ Holds(f, 24, Number(84))
      /\ Holds(f, 28, Name("traf")) /\ Holds(f, 32, Number(16)) /\ Holds(f, 36, Name("tfhd"))
      /\ Holds(f, 44, Number(TrackId)) /\ Holds(f, 48, Number(28)) /\ Holds(f, 52, Name("tfdt"))
      /\ Holds(f, 60, Number(frame.time)) /\ Holds(f, 76, Number(32))
      /\ Holds(f, 80, Name("trun")) /\ Holds(f, 85, Number(1793)) /\ Holds(f, 92, Number(116))
      /\ Holds(f, 96, Number(frame.duration)) /\ Holds(f, 100, Number(frame.size))
      /\ Holds(f, 108, Number(n + 8)) /\ Holds(f, 116, Name("frame"))
  <2>1. /\ Sized(f, 108 + (n + 8)) /\ Holds(f, 0, Number(108)) /\ Holds(f, 4, Name("moof"))
        /\ Holds(f, 8, Number(16)) /\ Holds(f, 12, Name("mfhd")) /\ Holds(f, 24, Number(84))
        /\ Holds(f, 28, Name("traf")) /\ Holds(f, 32, Number(16)) /\ Holds(f, 36, Name("tfhd"))
        /\ Holds(f, 44, Number(TrackId)) /\ Holds(f, 48, Number(28))
        /\ Holds(f, 52, Name("tfdt")) /\ Holds(f, 60, Number(frame.time))
        /\ Holds(f, 76, Number(32)) /\ Holds(f, 80, Name("trun")) /\ Holds(f, 85, Number(1793))
        /\ Holds(f, 92, Number(116)) /\ Holds(f, 96, Number(frame.duration))
        /\ Holds(f, 100, Number(frame.size))
    BY <1>1, <1>2, <1>3, <1>4, JoinSize, JoinLeft
  <2>2. Holds(f, 108 + 0, Number(n + 8)) /\ Holds(f, 108 + 8, Name("frame"))
    BY <1>1, <1>2, <1>3, <1>4, JoinRight
  <2> QED BY <2>1, <2>2
<1>6. /\ f.size = 108 + (n + 8) /\ NumberAt(f, 0) = 108 /\ At(f, 4) = Name("moof")
      /\ NumberAt(f, 8) = 16 /\ At(f, 12) = Name("mfhd") /\ NumberAt(f, 24) = 84
      /\ At(f, 28) = Name("traf") /\ NumberAt(f, 32) = 16 /\ At(f, 36) = Name("tfhd")
      /\ NumberAt(f, 44) = TrackId /\ NumberAt(f, 48) = 28 /\ At(f, 52) = Name("tfdt")
      /\ NumberAt(f, 60) = frame.time /\ NumberAt(f, 76) = 32 /\ At(f, 80) = Name("trun")
      /\ NumberAt(f, 85) = 1793 /\ NumberAt(f, 92) = 116 /\ NumberAt(f, 96) = frame.duration
      /\ NumberAt(f, 100) = frame.size /\ NumberAt(f, 108) = n + 8 /\ At(f, 116) = Name("frame")
  BY <1>5, Reads, ReadsNumber DEF Sized
<1>7. traf = 24
  <2>1. Skip(f, 8, "traf") = 24
    <3>1. At(f, 8 + 4) = Name("mfhd")
      BY <1>6
    <3>2. Skip(f, 8, "traf") = 8 + NumberAt(f, 8)
      BY <3>1, Behind
    <3> QED BY <1>6, <3>2
  <2>2. Skip(f, 24, "traf") = 24
    <3>1. At(f, 24 + 4) = Name("traf")
      BY <1>6
    <3> QED BY <3>1, Here
  <2>3. Seek(f, 8, "traf") = 24
    BY <2>1, <2>2, Zenon DEF Seek
  <2> QED BY <2>3 DEF traf
<1>8. trun = 76
  <2>1. Skip(f, 32, "trun") = 48
    <3>1. At(f, 32 + 4) = Name("tfhd")
      BY <1>6
    <3>2. Skip(f, 32, "trun") = 32 + NumberAt(f, 32)
      BY <3>1, Behind
    <3> QED BY <1>6, <3>2
  <2>2. Skip(f, 48, "trun") = 76
    <3>1. At(f, 48 + 4) = Name("tfdt")
      BY <1>6
    <3>2. Skip(f, 48, "trun") = 48 + NumberAt(f, 48)
      BY <3>1, Behind
    <3> QED BY <1>6, <3>2
  <2>3. Seek(f, 32, "trun") = 76
    BY <2>1, <2>2, Zenon DEF Seek
  <2>4. traf + 8 = 32
    BY <1>7
  <2> QED BY <2>3, <2>4 DEF trun
<1>9. tfhd = 32
  <2>1. Skip(f, 32, "tfhd") = 32
    <3>1. At(f, 32 + 4) = Name("tfhd")
      BY <1>6
    <3> QED BY <3>1, Here
  <2>2. Seek(f, 32, "tfhd") = 32
    BY <2>1, Zenon DEF Seek
  <2>3. traf + 8 = 32
    BY <1>7
  <2> QED BY <2>2, <2>3 DEF tfhd
<1>10. tfdt = 48
  <2>1. Skip(f, 32, "tfdt") = 48
    <3>1. At(f, 32 + 4) = Name("tfhd")
      BY <1>6
    <3>2. Skip(f, 32, "tfdt") = 32 + NumberAt(f, 32)
      BY <3>1, Behind
    <3> QED BY <1>6, <3>2
  <2>2. Skip(f, 48, "tfdt") = 48
    <3>1. At(f, 48 + 4) = Name("tfdt")
      BY <1>6
    <3> QED BY <3>1, Here
  <2>3. Seek(f, 32, "tfdt") = 48
    BY <2>1, <2>2, Zenon DEF Seek
  <2>4. traf + 8 = 32
    BY <1>7
  <2> QED BY <2>3, <2>4 DEF tfdt
<1>11. first = 0
  <2>1. NumberAt(f, trun + 9) = 1793
    BY <1>6, <1>8
  <2> QED BY <2>1 DEF first
<1>12. sample = 96 /\ data = 116
  BY <1>6, <1>8, <1>11 DEF sample, data
<1>13. /\ f.size <= 400 + n /\ NumberAt(f, tfhd + 12) = TrackId
      /\ NumberAt(f, tfdt + 12) = frame.time /\ NumberAt(f, sample) = frame.duration
      /\ NumberAt(f, sample + 4) = n /\ At(f, data) = Name("frame")
      /\ NumberAt(f, data - 8) = n + 8
  BY <1>4, <1>6, <1>9, <1>10, <1>12 DEF n
<1> QED BY <1>13 DEF FrameSegmentReads, n, f, traf, trun, tfhd, tfdt, first, sample, data

\* Whatever waits for the source buffer is a segment of the writers.
LEMMA SourceInvReads == ASSUME SourceInv PROVE SegmentsReadBack
<1>1. buffers \in Seq(Segments)
  BY DEF SourceInv, SourceKept, Shaped
<1> SUFFICES ASSUME NEW i \in DOMAIN buffers
             PROVE  CASE buffers[i].kind = "init" -> InitSegmentReads
                      [] buffers[i].kind = "frame" -> FrameSegmentReads(buffers[i])
  BY Zenon DEF SegmentsReadBack
<1> DEFINE e == buffers[i]
<1>2. e \in Segments
  BY <1>1
<1> HIDE DEF e
<1>3. CASE e.kind = "init"
  <2>1. e.kind # "frame"
    BY <1>3
  <2> QED BY <1>3, <2>1, InitReads, Zenon DEF e
<1>4. CASE e.kind = "frame"
  <2>1. e.kind # "init" /\ e.size \in Nat \ {0}
    BY <1>2, <1>4 DEF Segments, Inits, FramesOf
  <2>2. FrameSegmentReads(e)
    BY <2>1, FirstFrameReads, LaterFrameReads, Zenon
  <2> QED BY <1>4, <2>1, <2>2, Zenon DEF e
<1> QED BY <1>2, <1>3, <1>4, SegmentFields, Zenon DEF e

-----------------------------------------------------------------------------
(* Theorems *)

\* A step of the web client is a step of the page's size and the stream's, or
\* leaves them alone.
LEMMA SuiteResizes == ASSUME [SuiteNext]_suiteVars PROVE ResizeNext \/ UNCHANGED resizeVars
<1>1. CASE UNCHANGED suiteVars
  BY <1>1, Zenon DEF suiteVars
<1>2. CASE SuiteNext
  BY <1>2, Zenon DEF SuiteNext, OnlyPointerInput, OnlyMouseQueue, OnlyControllerLink,
     OnlyQuickPadButtons, OnlyQuickPadTemplates, OnlyQuickPadLayouts, OnlyRuntimeResize,
     OnlySidebarHandle, OnlyMicSidecar, OnlyHostList, OnlyViewerPanels, OnlyStartPage,
     OnlyHostBanner, OnlyMediaSourceQueue, OnlyPageModals
<1> QED BY <1>1, <1>2

\* A page that follows its window has something under way whenever the stream is
\* not of the window's size, and a page with a size of its own ends with it, in
\* whatever order the window changes, the timers fire, and the host answers or
\* fails.
THEOREM SizesFollow == SuiteSpec => []SizeFollows
<1>1. SuiteInit => ResizeInv
  BY ResizeStarts DEF SuiteInit
<1>2. ResizeInv /\ [SuiteNext]_suiteVars => ResizeInv'
  BY SuiteResizes, ResizeSteps, ResizeInvUnchanged
<1>3. ResizeInv => SizeFollows
  BY ResizeInvFollows
<1> QED BY <1>1, <1>2, <1>3, PTL DEF SuiteSpec

\* No track is left live that no client of the page owns, however starting,
\* switching off, failing and closing overlap.
THEOREM CapturesEnd == MicSpec => []CaptureEnds
<1>1. MicInit => MicInv
  BY MicStarts
<1>2. MicInv /\ [MicNext]_micVars => MicInv'
  BY MicSteps, MicInvUnchanged
<1>3. MicInv => CaptureEnds
  BY MicInvEnds
<1> QED BY <1>1, <1>2, <1>3, PTL DEF MicSpec

\* The segments a source buffer is given are numbered and timed one after the
\* other behind their init segment, whatever timestamps the units carry, and are
\* those of that buffer unless it replaced one while segments waited.
THEOREM SegmentsOrdered == SourceSpec => []SegmentsInOrder
<1>1. SourceInit => SourceInv
  BY SourceStarts
<1>2. SourceInv /\ [SourceNext]_sourceVars => SourceInv'
  BY SourceSteps, SourceInvUnchanged
<1>3. SourceInv => SegmentsInOrder
  BY SourceInvOrders
<1> QED BY <1>1, <1>2, <1>3, PTL DEF SourceSpec

\* What waits for the source buffer can be read back by the format, the segments
\* are in order, and the microphone is captured for a client that is there,
\* whatever the units carry and however the calls of the microphone overlap.
THEOREM MediaFollowed == SuiteSpec => []MediaInStep
<1> DEFINE Inv == (focus = "source" => SourceInv) /\ (focus = "mic" => MicInv)
<1>1. SuiteInit => Inv
  BY SourceStarts, MicStarts DEF SuiteInit
<1>2. Inv /\ [SuiteNext]_suiteVars => Inv'
  <2> SUFFICES ASSUME Inv, [SuiteNext]_suiteVars PROVE Inv'
    OBVIOUS
  <2>1. focus' = focus
    BY FocusStays
  <2>2. focus = "source" => SourceInv'
    BY FocusSteps, SourceSteps, SourceInvUnchanged
  <2>3. focus = "mic" => MicInv'
    BY FocusSteps, MicSteps, MicInvUnchanged
  <2> QED BY <2>1, <2>2, <2>3
<1>3. Inv => MediaInStep
  BY SourceInvOrders, SourceInvReads, MicInvEnds DEF MediaInStep
<1> HIDE DEF Inv
<1> QED BY <1>1, <1>2, <1>3, PTL DEF SuiteSpec

\* Every component of the web client keeps the types of its state, whatever the
\* user, the page, the host and the timers do in turn, as long as no controller
\* is given the number of the virtual one.
THEOREM ClientTyped ==
  ASSUME Cardinality(Pads) <= VirtualId PROVE SuiteSpec => []ClientTypeOK
<1> DEFINE Inv == /\ focus = "pointer" => PointerInv
                  /\ focus = "mouse" => QueueInv
                  /\ focus = "pads" => ControllerInv
                  /\ focus = "quickpad" => PadInv
                  /\ focus = "templates" => TemplatesInv
                  /\ focus = "layouts" => LayoutsInv
                  /\ focus = "resize" => ResizeInv
                  /\ focus = "handle" => BarInv
                  /\ focus = "mic" => MicInv
                  /\ focus = "hosts" => ListInv
                  /\ focus = "panels" => PanelsInv
                  /\ focus = "start" => StartInv
                  /\ focus = "banner" => BannerInv
                  /\ focus = "source" => SourceInv
                  /\ focus = "modals" => ModalsInv
<1>1. SuiteInit => Inv
  BY PointerInitially, QueueInitially, ControllerInitially, PadInitially, TemplatesInitially,
     LayoutsInitially, ResizeStarts, BarInitially, MicStarts, ListInitially, PanelsInitially,
     StartInitially, BannerInitially, SourceStarts, ModalsInitially, PointerAssumption,
     QueueAssumption, PadsAssumption, PadAssumption, HostListAssumption, StartPageAssumption,
     ModalsAssumption DEF SuiteInit
<1>2. Inv /\ [SuiteNext]_suiteVars => Inv'
  <2> SUFFICES ASSUME Inv, [SuiteNext]_suiteVars PROVE Inv'
    OBVIOUS
  <2>1. focus' = focus
    BY FocusStays
  <2>2. focus = "pointer" => PointerInv'
    BY FocusSteps, PointerStep, PointerAssumption
  <2>3. focus = "mouse" => QueueInv'
    BY FocusSteps, QueueStep, QueueAssumption
  <2>4. focus = "pads" => ControllerInv'
    BY FocusSteps, ControllerStep, PadsAssumption
  <2>5. focus = "quickpad" => PadInv'
    BY FocusSteps, PadStep, PadAssumption
  <2>6. focus = "templates" => TemplatesInv'
    BY FocusSteps, TemplatesStep
  <2>7. focus = "layouts" => LayoutsInv'
    BY FocusSteps, LayoutsStep
  <2>8. focus = "resize" => ResizeInv'
    BY FocusSteps, ResizeSteps, ResizeInvUnchanged
  <2>9. focus = "handle" => BarInv'
    BY FocusSteps, BarStep
  <2>10. focus = "mic" => MicInv'
    BY FocusSteps, MicSteps, MicInvUnchanged
  <2>11. focus = "hosts" => ListInv'
    BY FocusSteps, ListStep, HostListAssumption
  <2>12. focus = "panels" => PanelsInv'
    BY FocusSteps, PanelsStep
  <2>13. focus = "start" => StartInv'
    BY FocusSteps, StartStep, StartPageAssumption
  <2>14. focus = "banner" => BannerInv'
    BY FocusSteps, BannerStep
  <2>15. focus = "source" => SourceInv'
    BY FocusSteps, SourceSteps, SourceInvUnchanged
  <2>16. focus = "modals" => ModalsInv'
    BY FocusSteps, ModalsStep, ModalsAssumption
  <2> QED BY <2>1, <2>2, <2>3, <2>4, <2>5, <2>6, <2>7, <2>8, <2>9, <2>10, <2>11, <2>12,
             <2>13, <2>14, <2>15, <2>16
<1>3. Inv => ClientTypeOK
  <2>1. (ResizeInv => ResizeTypeOK) /\ (MicInv => MicTypeOK) /\ (SourceInv => SourceTypeOK)
    BY MicInvTypes, SourceInvTypes DEF ResizeInv
  <2> QED BY <2>1, PointerShows, QueueShows, ControllerShows, PadShows, TemplatesShow,
             LayoutsShow, BarShows, ListShows, PanelsShow, StartShows, BannerShows, ModalsShow,
             HostListAssumption, StartPageAssumption, ModalsAssumption DEF ClientTypeOK
<1> HIDE DEF Inv
<1> QED BY <1>1, <1>2, <1>3, PTL DEF SuiteSpec
=============================================================================

------------------------------ MODULE WebRtcPeer ------------------------------
(***************************************************************************)
(* One WebRTC transport of the stream page                                 *)
(* (src/web/stream/transport/webrtc.ts, class WebRTCTransport) and the     *)
(* browser's RTCPeerConnection under it, from the end of initPeer, when    *)
(* Stream.setTransport makes it the receiver of signalling messages, to    *)
(* the close event it reports once.                                        *)
(*                                                                         *)
(* The browser changes ICE and connection state on its own and the         *)
(* handlers read both states when they run.  Remote candidates come in any *)
(* order, also ahead of the answer: the streamer sends each from a task of *)
(* its own.  Timers carry no clock: an armed timer may fire at any step.   *)
(***************************************************************************)
EXTENDS Integers, Sequences, FiniteSets, SequencesExt

CONSTANTS
  Candidates,     \* the remote candidates
  KindOf,         \* what addIceCandidate tells apart, see Kinds
  PreferIpv4,     \* PREFER_IPV4_CANDIDATES, a setting of the browser
  MaxExtensions,  \* extensions of the recovery timeout: 4 in the code
  MaxDrops        \* bound: how often an established path is lost

\* A candidate on the local network, a public address of the host over UDP, or
\* an address mapped by a STUN or TURN server.
Kinds == {"lan4", "public4", "public6", "mapped4", "mapped6"}

ASSUME PeerAssumption ==
  /\ IsFiniteSet(Candidates) /\ KindOf \in [Candidates -> Kinds]
  /\ PreferIpv4 \in BOOLEAN /\ MaxExtensions \in Nat /\ MaxDrops \in Nat

VARIABLES
  peer,     \* the RTCPeerConnection, as its attributes read
  rtc,      \* the fields of WebRTCTransport
  cand,     \* cand[c]: what has become of remote candidate c
  adding    \* running coroutines: the calls each still has to make, in order

peerVars == <<peer, rtc, cand, adding>>

Public == {"public4", "public6"}
Ipv4 == {"lan4", "public4", "mapped4"}

PeerState ==
  [ice : {"checking", "connected", "disconnected", "failed"},
   conn : {"connecting", "connected", "disconnected", "failed", "closed"},
   gathered : BOOLEAN,    \* iceGatheringState = "complete"
   lan : BOOLEAN,         \* localPrivateIpv4Prefixes knows the local network
   answered : BOOLEAN,    \* the remote description is set
   drops : 0 .. MaxDrops]

Closes == {"", "failednoconnect", "failed"}

Transport ==
  [wasConnected : BOOLEAN,
   connTimer : BOOLEAN,       \* connectionTimeoutId
   recTimer : BOOLEAN,        \* recoveryTimeoutId
   stray : BOOLEAN,           \* a recovery timer whose id was overwritten
   judging : 0 .. 2,          \* evaluateRecoveryTimeout awaiting the statistics
   extensions : 0 .. MaxExtensions,
   requested : BOOLEAN,       \* closeRequested
   closed : Closes,           \* what emitClose reported
   hasIpv4 : BOOLEAN,         \* hasReceivedIpv4Candidate
   ipv6Timer : BOOLEAN,       \* deferIpv6Timer
   publicTimer : BOOLEAN]     \* deferPublicHostTimer

CandidateState ==
  {"away", "heldIpv6", "heldPublic", "adding", "applied", "ignored",
   "discarded", "lost"}

\* What is left of a coroutine is a sequence of calls: addIceCandidate(c), the
\* same with skipPublicHostDefer, or peer.addIceCandidate(c) being awaited.
Calls == [c : Candidates, how : {"enter", "skip", "await"}]

PeerTypeOK ==
  /\ peer \in PeerState
  /\ rtc \in Transport
  /\ cand \in [Candidates -> CandidateState]
  /\ \A s \in adding : s \in Seq(Calls) /\ s # <<>>

\* initChannels has run and the offer is sent.
PeerInit ==
  /\ peer = [ice |-> "checking", conn |-> "connecting", gathered |-> FALSE,
             lan |-> FALSE, answered |-> FALSE, drops |-> 0]
  /\ rtc = [wasConnected |-> FALSE, connTimer |-> TRUE, recTimer |-> FALSE,
            stray |-> FALSE, judging |-> 0, extensions |-> 0,
            requested |-> FALSE, closed |-> "", hasIpv4 |-> FALSE,
            ipv6Timer |-> FALSE, publicTimer |-> FALSE]
  /\ cand = [c \in Candidates |-> "away"]
  /\ adding = {}

Held(state) == {c \in Candidates : cand[c] = state}

ClearRecovery(r) == [r EXCEPT !.recTimer = FALSE, !.extensions = 0]

EmitClose(r, shutdown) ==
  IF r.closed # "" THEN r
  ELSE [ClearRecovery(r) EXCEPT !.connTimer = FALSE, !.closed = shutdown]

\* armRecoveryTimeout.
ArmRecovery(r) ==
  IF r.requested \/ ~r.wasConnected \/ r.recTimer THEN r
  ELSE [r EXCEPT !.recTimer = TRUE]

(***************************************************************************)
(* Signalling.                                                             *)
(***************************************************************************)
LocalCandidatesGathered ==
  /\ peer.conn # "closed" /\ ~peer.gathered
  /\ \E lan \in BOOLEAN : peer' = [peer EXCEPT !.gathered = TRUE, !.lan = lan]
  /\ UNCHANGED <<rtc, cand, adding>>

\* The queue of signalling operations sets the answer, or an offer it answers
\* in turn; one that fails leaves the queue working.
RemoteDescriptionSet ==
  /\ peer.conn # "closed" /\ ~peer.answered
  /\ peer' = [peer EXCEPT !.answered = TRUE]
  /\ UNCHANGED <<rtc, cand, adding>>

\* What the handlers and timers take for an established path; a closed peer has
\* no ICE state any more.
PeerConnected ==
  \/ rtc.wasConnected
  \/ peer.conn = "connected"
  \/ peer.conn # "closed" /\ peer.ice = "connected"

(***************************************************************************)
(* Remote candidates.  A coroutine runs to its next await at once: nothing *)
(* else happens before all have Yielded.                                   *)
(***************************************************************************)
Yielded == \A s \in adding : Head(s).how = "await"

\* A coroutine begins, unless it has nothing to call.
Start(q) == adding' = adding \cup ({q} \ {<<>>})

\* Coroutine s has the calls t left, or ends.
Continue(s, t) == adding' = (adding \ {s}) \cup ({t} \ {<<>>})

\* A list that is flushed, emptied into calls: the candidates in some order.
Flushed(list, how) ==
  {[i \in DOMAIN q |-> [c |-> q[i], how |-> how]] :
     q \in {f \in [1 .. Cardinality(Held(list)) -> Candidates] : ToSet(f) = Held(list)}}

\* The candidates of a list that is flushed are on their way.
Leave(list) ==
  [c \in Candidates |-> IF cand[c] = list THEN "adding" ELSE cand[c]]

\* A message from the streamer calls addIceCandidate.
CandidateArrives(c) ==
  /\ cand[c] = "away" /\ peer.conn # "closed"
  /\ cand' = [cand EXCEPT ![c] = "adding"]
  /\ adding' = adding \cup {<<[c |-> c, how |-> "enter"]>>}
  /\ UNCHANGED <<peer, rtc>>

Ignored(c) ==
  \/ KindOf[c] = "lan4" /\ ~peer.lan
  \/ KindOf[c] \in Public /\ PeerConnected

\* Public candidates are put aside until their timer has fired, and IPv6
\* candidates as long as no IPv4 candidate has come.
WaitsForPath(c, how) == KindOf[c] \in Public /\ how # "skip"
WaitsForIpv4(c) == PreferIpv4 /\ KindOf[c] \notin Ipv4 /\ ~rtc.hasIpv4

\* addIceCandidate for candidate c, the first call of coroutine s, from its first
\* line to its first await.  An IPv4 candidate flushes the IPv6 candidates: each
\* is added before it, or put aside or ignored as a public one.
Turn(s, c, how) ==
  \/ /\ Ignored(c)
     /\ cand' = [cand EXCEPT ![c] = "ignored"]
     /\ Continue(s, Tail(s))
     /\ UNCHANGED rtc
  \/ /\ ~Ignored(c) /\ WaitsForPath(c, how)
     /\ cand' = [cand EXCEPT ![c] = "heldPublic"]
     /\ rtc' = [rtc EXCEPT !.publicTimer = TRUE]
     /\ Continue(s, Tail(s))
  \/ /\ ~Ignored(c) /\ ~WaitsForPath(c, how) /\ WaitsForIpv4(c)
     /\ cand' = [cand EXCEPT ![c] = "heldIpv6"]
     /\ rtc' = [rtc EXCEPT !.ipv6Timer = TRUE]
     /\ Continue(s, Tail(s))
  \/ /\ ~Ignored(c) /\ ~WaitsForPath(c, how) /\ KindOf[c] \in Ipv4
     /\ cand' = Leave("heldIpv6")
     /\ rtc' = [rtc EXCEPT !.hasIpv4 = TRUE, !.ipv6Timer = FALSE]
     /\ \E q \in Flushed("heldIpv6", "enter") :
          Continue(s, q \o <<[c |-> c, how |-> "await"]>> \o Tail(s))
  \/ /\ ~Ignored(c) /\ ~WaitsForPath(c, how)
     /\ ~WaitsForIpv4(c) /\ KindOf[c] \notin Ipv4
     /\ Continue(s, <<[c |-> c, how |-> "await"]>> \o Tail(s))
     /\ UNCHANGED <<cand, rtc>>

CandidateTurn ==
  \E s \in adding :
    /\ Head(s).how # "await"
    /\ Turn(s, Head(s).c, Head(s).how)
    /\ UNCHANGED peer

\* The browser answers an addIceCandidate: without a remote description it
\* rejects, which ends the coroutine with what it had still to add.
CandidateAdded ==
  \E s \in adding :
    /\ Head(s).how = "await"
    /\ UNCHANGED <<peer, rtc>>
    /\ IF peer.answered /\ peer.conn # "closed"
       THEN /\ cand' = [cand EXCEPT ![Head(s).c] = "applied"]
            /\ Continue(s, Tail(s))
       ELSE /\ cand' = [d \in Candidates |->
                          IF \E call \in ToSet(s) : call.c = d THEN "lost" ELSE cand[d]]
            /\ Continue(s, <<>>)

\* A slip of Ipv6TimerFires: the timer looks for an IPv4 candidate itself and
\* leaves the list when there is none.
Ipv6TimerFiresOnce ==
  /\ rtc.ipv6Timer
  /\ UNCHANGED <<peer, cand, adding>>
  /\ rtc' = [rtc EXCEPT !.ipv6Timer = FALSE]

\* flushDeferredIpv6Candidates by its timer.  Every candidate goes through
\* addIceCandidate, which holds it again, or hands it to the public ones.
Ipv6TimerFires ==
  /\ rtc.ipv6Timer
  /\ rtc' = [rtc EXCEPT !.ipv6Timer = FALSE]
  /\ cand' = Leave("heldIpv6")
  /\ \E q \in Flushed("heldIpv6", "enter") : Start(q)
  /\ UNCHANGED peer

\* flushDeferredPublicHostCandidates.
PublicTimerFires ==
  /\ rtc.publicTimer
  /\ rtc' = [rtc EXCEPT !.publicTimer = FALSE]
  /\ \/ /\ PeerConnected
        /\ cand' = [c \in Candidates |->
                      IF cand[c] = "heldPublic" THEN "discarded" ELSE cand[c]]
        /\ UNCHANGED adding
     \/ /\ ~PeerConnected
        /\ cand' = Leave("heldPublic")
        /\ \E q \in Flushed("heldPublic", "skip") : Start(q)
  /\ UNCHANGED peer

(***************************************************************************)
(* The path.                                                               *)
(***************************************************************************)
\* The browser's ICE agent, and onIceConnectionStateChange.  It connects with
\* a remote description and a candidate, or with a candidate it learns from
\* the checks of the other side.
IceMoves(to) ==
  /\ peer.conn # "closed" /\ peer.ice # to /\ peer.answered
  /\ \/ to = "connected" /\ peer.ice # "failed"
     \/ to = "disconnected" /\ peer.ice = "connected" /\ peer.drops < MaxDrops
     \/ to = "failed" /\ peer.ice \in {"checking", "disconnected"}
     \/ to = "connected" /\ peer.ice = "failed" /\ peer.drops < MaxDrops
  /\ peer' = [peer EXCEPT !.ice = to,
                          !.drops = IF to = "disconnected" \/ peer.ice = "failed"
                                    THEN @ + 1 ELSE @]
  /\ rtc' = IF to = "connected"
            THEN [ClearRecovery(rtc) EXCEPT !.connTimer = FALSE]
            ELSE ArmRecovery(rtc)
  /\ UNCHANGED <<cand, adding>>

Drop(c) ==
  IF cand[c] \in {"heldIpv6", "heldPublic"} THEN "discarded" ELSE cand[c]

\* The connection state follows ICE, and onConnectionStateChange.
ConnectionFollows ==
  /\ peer.conn \notin {"closed", peer.ice} /\ peer.ice # "checking"
  /\ peer' = [peer EXCEPT !.conn = peer.ice]
  /\ UNCHANGED adding
  /\ CASE peer.ice = "connected" ->
            /\ rtc' = [ClearRecovery(rtc) EXCEPT
                         !.connTimer = FALSE, !.wasConnected = TRUE,
                         !.ipv6Timer = FALSE, !.publicTimer = FALSE]
            /\ cand' = [c \in Candidates |-> Drop(c)]
       [] peer.ice = "failed" ->
            /\ rtc' = IF rtc.wasConnected THEN ArmRecovery(rtc)
                      ELSE IF peer.gathered THEN EmitClose(rtc, "failednoconnect")
                      ELSE rtc
            /\ UNCHANGED cand
       [] OTHER -> UNCHANGED <<rtc, cand>>

ConnectionTimerFires ==
  /\ rtc.connTimer
  /\ rtc' = IF rtc.requested \/ PeerConnected
            THEN [rtc EXCEPT !.connTimer = FALSE]
            ELSE EmitClose(rtc, "failednoconnect")
  /\ UNCHANGED <<peer, cand, adding>>

\* evaluateRecoveryTimeout up to its first await.
Evaluate(r) ==
  IF r.requested THEN r
  ELSE IF peer.conn = "connected" \/ peer.ice = "connected"
       THEN [r EXCEPT !.extensions = 0]
       ELSE [r EXCEPT !.judging = @ + 1]

RecoveryTimerFires ==
  /\ rtc.judging < 2
  /\ \/ rtc.recTimer /\ rtc' = Evaluate([rtc EXCEPT !.recTimer = FALSE])
     \/ rtc.stray /\ rtc' = Evaluate([rtc EXCEPT !.stray = FALSE])
  /\ UNCHANGED <<peer, cand, adding>>

\* A slip of RecoveryJudged: video that progresses extends without a limit.
RecoveryJudgedForEver ==
  /\ rtc.judging > 0
  /\ \E active \in BOOLEAN :
       rtc' = IF active
              THEN [rtc EXCEPT !.judging = @ - 1, !.recTimer = TRUE]
              ELSE EmitClose([rtc EXCEPT !.judging = @ - 1], "failed")
  /\ UNCHANGED <<peer, cand, adding>>

\* The rest of evaluateRecoveryTimeout: what it found out before the await is
\* not looked at again.
RecoveryJudged ==
  /\ rtc.judging > 0
  /\ \E active \in BOOLEAN :
       rtc' = IF active /\ rtc.extensions < MaxExtensions
              THEN [rtc EXCEPT !.judging = @ - 1, !.extensions = @ + 1,
                               !.stray = rtc.recTimer \/ @, !.recTimer = TRUE]
              ELSE EmitClose([rtc EXCEPT !.judging = @ - 1], "failed")
  /\ UNCHANGED <<peer, cand, adding>>

\* close(), by the page.  The browser reports no state change for it.
PeerCloses ==
  /\ ~rtc.requested
  /\ peer' = [peer EXCEPT !.conn = "closed", !.lan = FALSE]
  /\ rtc' = [ClearRecovery(rtc) EXCEPT
               !.requested = TRUE, !.connTimer = FALSE,
               !.hasIpv4 = FALSE, !.ipv6Timer = FALSE, !.publicTimer = FALSE]
  /\ cand' = [c \in Candidates |-> Drop(c)]
  /\ UNCHANGED adding

PeerSteps ==
  \/ LocalCandidatesGathered \/ RemoteDescriptionSet
  \/ \E c \in Candidates : CandidateArrives(c)
  \/ CandidateAdded \/ Ipv6TimerFires \/ PublicTimerFires
  \/ \E to \in {"connected", "disconnected", "failed"} : IceMoves(to)
  \/ ConnectionFollows \/ ConnectionTimerFires
  \/ RecoveryTimerFires \/ RecoveryJudged \/ PeerCloses

PeerNext == CandidateTurn \/ (Yielded /\ PeerSteps)

PeerSpec == PeerInit /\ [][PeerNext]_peerVars

\* Coroutines run on, timers fire, the browser answers and reports a state it
\* has reached; the network, the streamer and the user need not act.
PeerFairness ==
  /\ WF_peerVars(CandidateTurn)
  /\ WF_peerVars(CandidateAdded) /\ WF_peerVars(PublicTimerFires)
  /\ WF_peerVars(ConnectionFollows) /\ WF_peerVars(ConnectionTimerFires)
  /\ WF_peerVars(RecoveryTimerFires) /\ WF_peerVars(RecoveryJudged)

FairPeerSpec == PeerSpec /\ PeerFairness

(***************************************************************************)
(* Properties.                                                             *)
(***************************************************************************)
\* A candidate that was put aside has a timer that will look at it again:
\* flushes, re-deferrals, an established path and close() keep the lists and
\* the timers of webrtc.ts in step.
HeldCandidatesHaveTimer ==
  /\ Held("heldPublic") # {} => rtc.publicTimer
  /\ Held("heldIpv6") # {} => rtc.ipv6Timer

\* Nobody watches a path whose ICE connected, which disarms the connection
\* timeout, and failed before the connection state followed: the handlers act
\* on paths that were connected, or whose candidates were all gathered by then.
Unwatched == ~rtc.wasConnected /\ ~rtc.connTimer

\* A path that stays failed is reported: the first attempt by its timeout, a
\* lost path by the recovery timeout with its extensions, however often ICE
\* flapped before and however many evaluations overlapped, unless the page
\* closed the transport or nobody watches it.
FailedPathIsReported ==
  (<>[](peer.ice = "failed" /\ ~Unwatched))
    => <>[](rtc.closed # "" \/ rtc.requested)
=============================================================================

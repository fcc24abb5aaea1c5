----------------------------- MODULE MicSidecar -----------------------------
(***************************************************************************)
(* The microphone of the stream page: the switch of web/stream.ts and the  *)
(* client of web/stream/mic_sidecar.ts it makes on the way on and throws   *)
(* away on the way off.                                                    *)
(*                                                                         *)
(* Switching on is one asynchronous call, setEnabled(true), with an await  *)
(* for the close of what was there, for the capture, for the signalling    *)
(* socket and for the offer.  While it runs the switch still reads "off",  *)
(* so another press makes a second call on the same client, and nothing    *)
(* but a session number tells the two apart.  The model keeps each call    *)
(* with what it made: its track, its socket and its peer connection; the   *)
(* client's fields say whose track, socket and peer are the current ones.  *)
(*                                                                         *)
(* Abstracted: codec preferences, bitrates, statistics and the route's     *)
(* text; the two addresses of a candidate; the messages shown.             *)
(***************************************************************************)
EXTENDS Naturals

CONSTANT MaxCalls               \* bound: presses that switch the microphone on
ASSUME MicAssumption == MaxCalls \in Nat \ {0}

VARIABLES mic,                  \* the page: its client, the diagnostics, what was asked
          client,               \* the clients made so far
          call                  \* the calls of setEnabled(true)
micVars == <<mic, client, call>>

Call == 1 .. MaxCalls
NoCall == 0                     \* no call, no client

NoClose == [peer |-> NoCall, ws |-> NoCall, open |-> FALSE]
Unused == [serial |-> 0, expected |-> FALSE, enabled |-> FALSE, connecting |-> FALSE,
           local |-> NoCall, ws |-> NoCall, peer |-> NoCall, held |-> FALSE,
           destroy |-> NoClose]
Unmade == [of |-> NoCall, at |-> "unmade", sid |-> 0, track |-> "none", sock |-> "none",
           conn |-> "none", close |-> NoClose]

MicInit ==
  /\ \E panel \in BOOLEAN :
       mic = [client |-> NoCall, wanted |-> FALSE, panel |-> panel, timer |-> FALSE,
              asking |-> NoCall, sent |-> FALSE, shown |-> FALSE, gone |-> FALSE, strays |-> {}]
  /\ client = [c \in Call |-> Unused]
  /\ call = [c \in Call |-> Unmade]

---------------------------------------------------------------------------
(* What the page sees of the client, and the diagnostics that follow it. *)

\* getState: a client whose track is not live is off.
Lives(s, cs) == s.local # NoCall /\ cs[s.local].track = "live"
On(p, ss, cs) == p.client # NoCall /\ ss[p.client].enabled /\ Lives(ss[p.client], cs)
Attached(p, ss, cs) ==
  p.client # NoCall /\ Lives(ss[p.client], cs) /\ ss[p.client].peer # NoCall

\* getMicrophoneDiagnosticsSummary and getMicrophoneRouteSummary, which are "off" together.
MicSummary(p, ss, cs) ==
  CASE ~On(p, ss, cs) /\ ~Attached(p, ss, cs) -> "off"
    [] ~Attached(p, ss, cs) -> "arming"
    [] OTHER -> "up"

\* updateMicrophoneDiagnosticsTimerState.
Timed(p, ss, cs) ==
  [p EXCEPT !.timer = On(p, ss, cs) \/ Attached(p, ss, cs) \/ p.asking # NoCall]

\* refreshMicrophoneDiagnostics, up to its await.
MicRefreshed(p, ss, cs) ==
  LET poll == On(p, ss, cs) \/ Attached(p, ss, cs) \/ (p.panel /\ p.shown)
  IN  IF ~poll \/ p.client = NoCall THEN Timed([p EXCEPT !.shown = FALSE], ss, cs)
      ELSE IF p.asking # NoCall THEN p
      ELSE [p EXCEPT !.asking = p.client]

\* The listener a client calls whenever its state changed.
Notified(p, ss, cs) == MicRefreshed(Timed(p, ss, cs), ss, cs)

---------------------------------------------------------------------------
(* close(): the fields at once, the rest after sender.replaceTrack(null). *)

\* resetPeerState.
PeerReset(s) == [s EXCEPT !.peer = NoCall, !.held = FALSE]

\* releaseLocalTrack, in the client and in the calls; the level meter ends with the track.
MicReleased(s) == [s EXCEPT !.local = NoCall]
Stopped(s, cs) ==
  IF s.local = NoCall THEN cs ELSE [cs EXCEPT ![s.local].track = "ended"]

\* close up to its first await.
CloseBegun(s) ==
  PeerReset([s EXCEPT !.expected = FALSE, !.enabled = FALSE, !.connecting = FALSE,
                      !.serial = @ + 1, !.ws = NoCall])
MicTaken(s) == [peer |-> s.peer, ws |-> s.ws, open |-> TRUE]

\* What close does to the calls once the sender has let go of the track.
CloseEnded(s, taken, cs) ==
  LET peers == IF taken.peer = NoCall THEN cs ELSE [cs EXCEPT ![taken.peer].conn = "closed"]
      socks == IF taken.ws = NoCall THEN peers ELSE [peers EXCEPT ![taken.ws].sock = "closed"]
  IN  Stopped(s, socks)

\* A close that has no sender to wait for runs through.
Through(s) == s.peer = NoCall

MicBecomes(p, ss, cs) ==
  /\ mic' = p
  /\ client' = ss
  /\ call' = cs

---------------------------------------------------------------------------
(* The switch. *)

\* toggleMicrophoneUplink and setMicrophoneEnabled when the switch reads off.
SwitchOn(c) ==
  LET k == IF mic.client = NoCall THEN c ELSE mic.client
      s == client[k]
      made == [Unmade EXCEPT !.of = k, !.sid = s.serial + 1, !.at = "closing",
                             !.close = MicTaken(s)]
      cs == [call EXCEPT ![c] = made]
      p == [mic EXCEPT !.client = k, !.wanted = TRUE]
      begun == [client EXCEPT ![k] = CloseBegun(s)]
  IN  /\ ~mic.gone
      /\ ~On(mic, client, call)
      /\ call[c].at = "unmade"
      /\ \A d \in Call : d < c => call[d].at # "unmade"
      /\ IF Through(s)
         THEN LET cs2 == CloseEnded(s, made.close, cs)
                  ss2 == [begun EXCEPT ![k] =
                            [MicReleased(@) EXCEPT !.serial = made.sid, !.expected = TRUE,
                                                !.connecting = TRUE]]
              IN  MicBecomes(Notified(p, ss2, cs2), ss2,
                         [cs2 EXCEPT ![c].at = "capture", ![c].close = NoClose])
         ELSE MicBecomes(Notified(p, begun, cs), begun, cs)

\* The close at the head of the call ends, and the call takes the client: its number and
\* its wish overwrite what a later call, or a close of the page, wrote meanwhile.
MicClosed(c) ==
  LET k == call[c].of
      s == client[k]
      cs == [CloseEnded(s, call[c].close, call) EXCEPT ![c].at = "capture", ![c].close = NoClose]
      ss == [client EXCEPT ![k] = [MicReleased(s) EXCEPT !.serial = call[c].sid, !.expected = TRUE,
                                                      !.connecting = TRUE]]
      p == Notified(mic, [client EXCEPT ![k] = MicReleased(s)], cs)
  IN  /\ call[c].at = "closing"
      /\ MicBecomes(p, ss, cs)

\* toggleMicrophoneUplink when the switch reads on, and unmount: the page forgets the
\* client at once and the client closes.
Destroyed(p) ==
  LET k == p.client
      q == [p EXCEPT !.client = NoCall]
  IN  IF k = NoCall
      THEN MicBecomes(MicRefreshed(Timed(q, client, call), client, call), client, call)
      ELSE LET s == client[k]
               begun == [client EXCEPT ![k] = [CloseBegun(s) EXCEPT !.destroy = MicTaken(s)]]
           IN  IF Through(s)
               THEN LET ss == [begun EXCEPT ![k] = [MicReleased(@) EXCEPT !.destroy = NoClose]]
                        cs == CloseEnded(s, MicTaken(s), call)
                    IN  MicBecomes(Notified(q, ss, cs), ss, cs)
               ELSE MicBecomes(q, begun, call)

SwitchOff ==
  /\ ~mic.gone
  /\ On(mic, client, call)
  /\ Destroyed([mic EXCEPT !.wanted = FALSE, !.shown = FALSE])

UnmountMic ==
  /\ ~mic.gone
  /\ Destroyed([mic EXCEPT !.gone = TRUE, !.wanted = FALSE])

DestroyEnds(k) ==
  LET s == client[k]
      ss == [client EXCEPT ![k] = [MicReleased(s) EXCEPT !.destroy = NoClose]]
      cs == CloseEnded(s, s.destroy, call)
  IN  /\ s.destroy.open
      /\ MicBecomes(Notified(mic, ss, cs), ss, cs)

---------------------------------------------------------------------------
(* The call, from one await to the next. *)

\* The call gives up: close(false), then its result.
CaptureGivesUp(c, s, cs) ==
  LET k == cs[c].of
      begun == CloseBegun(s)
      kept == [cs EXCEPT ![c].at = "quitting", ![c].close = MicTaken(s)]
  IN  IF Through(s)
      THEN LET ss == [client EXCEPT ![k] = MicReleased(begun)]
               cs2 == [CloseEnded(s, MicTaken(s), cs) EXCEPT ![c].at = "done"]
           IN  MicBecomes(Notified(mic, ss, cs2), ss, cs2)
      ELSE LET ss == [client EXCEPT ![k] = begun]
           IN  MicBecomes(mic, ss, kept)

Quits(c) ==
  LET k == call[c].of
      s == client[k]
      ss == [client EXCEPT ![k] = MicReleased([s EXCEPT !.connecting = FALSE])]
      cs == [CloseEnded(s, call[c].close, call) EXCEPT ![c].at = "done", ![c].close = NoClose]
  IN  /\ call[c].at = "quitting"
      /\ MicBecomes(Notified(mic, ss, cs), ss, cs)

\* The session number and the wish, as they are read after an await.
Current(c) ==
  LET s == client[call[c].of] IN call[c].sid = s.serial /\ s.expected

\* getUserMedia fails, or its stream has no audio track.
NoCapture(c) ==
  LET ss == [client EXCEPT ![call[c].of].connecting = FALSE]
      cs == [call EXCEPT ![c].at = "done"]
  IN  /\ call[c].at = "capture"
      /\ MicBecomes(Notified(mic, ss, cs), ss, cs)

\* A stream that comes for a call that is not the current one is stopped at once.
LateCapture(c) ==
  LET cs == [call EXCEPT ![c].at = "done", ![c].track = "ended"]
  IN  /\ call[c].at = "capture" /\ ~Current(c)
      /\ MicBecomes(MicRefreshed(Timed(mic, client, cs), client, cs), client, cs)

\* The stream of the current call becomes the client's, and the socket is opened.
Captured(c) ==
  LET k == call[c].of
      before == client[k].local
  IN  /\ call[c].at = "capture" /\ Current(c)
      /\ client' = [client EXCEPT ![k].local = c]
      /\ call' = [call EXCEPT ![c].at = "signal", ![c].track = "live", ![c].sock = "opening"]
      /\ mic' = [mic EXCEPT !.strays = @ \cup
                    {d \in Call : \/ d = c /\ mic.client # k
                                  \/ d = before /\ call[d].track = "live"}]

\* The socket fails or closes before its Setup message.
SocketFails(c) ==
  /\ call[c].at = "signal"
  /\ CaptureGivesUp(c, client[call[c].of], [call EXCEPT ![c].sock = "closed"])

\* The call's connection becomes the client's; codec preferences and bitrate change no more.
Peered(s, c) == [s EXCEPT !.peer = c]

\* Setup arrives: the socket is the client's, whichever call opened it; then a call that is
\* not current closes, and the current one makes its peer and waits for its offer.
SetupArrives(c) ==
  LET k == call[c].of
      s == [client[k] EXCEPT !.ws = c]
      cs == [call EXCEPT ![c].sock = "open"]
  IN  /\ call[c].at = "signal"
      /\ IF Current(c)
         THEN LET ss == [client EXCEPT ![k] = Peered(s, c)]
                  cs2 == [cs EXCEPT ![c].at = "offer", ![c].conn = "open"]
              IN  MicBecomes(mic, ss, cs2)
         ELSE CaptureGivesUp(c, s, cs)

\* The last awaits of the call (the sender's track and parameters, the offer) end: no check
\* follows them, so the call writes the client's state whoever the client belongs to by now.
Offered(c) ==
  LET k == call[c].of
      ss == [client EXCEPT ![k].enabled = call[c].track = "live", ![k].connecting = FALSE]
      cs == [call EXCEPT ![c].at = "done"]
  IN  /\ call[c].at = "offer"
      /\ MicBecomes(Notified(mic, ss, cs), ss, cs)

\* One of them throws, as they do on a connection that was closed meanwhile.
OfferFails(c) ==
  /\ call[c].at = "offer"
  /\ CaptureGivesUp(c, client[call[c].of], call)

---------------------------------------------------------------------------
(* Events. *)

\* The device goes away: the listener of the client's own track marks it inactive.
TrackEnds(c) ==
  LET k == call[c].of
      cs == [call EXCEPT ![c].track = "ended"]
      ss == [client EXCEPT ![k].enabled = FALSE, ![k].expected = FALSE]
  IN  /\ call[c].track = "live"
      /\ IF client[k].local = c THEN MicBecomes(Notified(mic, ss, cs), ss, cs)
         ELSE MicBecomes(mic, client, cs)

\* The server closes a socket that had its Setup: the client's own one ends the session,
\* and its peer connection is dropped without being closed.
SocketCloses(c) ==
  LET k == call[c].of
      s == client[k]
      ss == [client EXCEPT ![k] = MicReleased(PeerReset([s EXCEPT !.enabled = FALSE,
                                   !.expected = FALSE, !.connecting = FALSE]))]
      cs == [Stopped(s, call) EXCEPT ![c].sock = "closed"]
  IN  /\ call[c].sock = "open"
      /\ IF s.ws = c THEN MicBecomes(Notified(mic, ss, cs), ss, cs)
         ELSE MicBecomes(mic, client, [call EXCEPT ![c].sock = "closed"])

\* A candidate that comes before the answer is held, and the answer lets it through.
Signal(c) ==
  LET k == call[c].of
  IN  /\ call[c].sock = "open" /\ client[k].peer # NoCall
      /\ client' = [client EXCEPT ![k].held = ~@]
      /\ UNCHANGED <<mic, call>>

\* getOutboundStats: the sender of the client that was asked answers.
OutboundAnswered ==
  /\ mic.asking # NoCall /\ ~mic.sent
  /\ mic' = [mic EXCEPT !.sent = TRUE]
  /\ UNCHANGED <<client, call>>

\* getRouteDiagnostics, asked of the peer the client has by then, and the rest of
\* refreshMicrophoneDiagnostics: the answer is shown, even if the page has no client any more.
RouteAnswered ==
  /\ mic.asking # NoCall /\ mic.sent
  /\ mic' = Timed([mic EXCEPT !.asking = NoCall, !.sent = FALSE, !.shown = TRUE], client, call)
  /\ UNCHANGED <<client, call>>

\* The timer polls.
DiagnosticsPoll ==
  /\ mic.timer /\ mic.asking = NoCall
  /\ mic' = MicRefreshed(mic, client, call)
  /\ UNCHANGED <<client, call>>

MicNext ==
  \/ SwitchOff \/ UnmountMic \/ OutboundAnswered \/ RouteAnswered \/ DiagnosticsPoll
  \/ \E k \in Call : DestroyEnds(k)
  \/ \E c \in Call :
       \/ SwitchOn(c) \/ MicClosed(c) \/ Quits(c)
       \/ NoCapture(c) \/ LateCapture(c) \/ Captured(c)
       \/ SocketFails(c) \/ SetupArrives(c) \/ Offered(c) \/ OfferFails(c)
       \/ TrackEnds(c) \/ SocketCloses(c) \/ Signal(c)

MicSpec == MicInit /\ [][MicNext]_micVars
---------------------------------------------------------------------------
Waiting == {"closing", "capture", "signal", "offer", "quitting"}
MicTypeOK ==
  /\ mic.client \in 0 .. MaxCalls
  /\ \A c \in Call :
       /\ call[c].at \in Waiting \cup {"unmade", "done"}
       /\ call[c].track \in {"none", "live", "ended"}
       /\ client[c].local \in 0 .. MaxCalls
       /\ client[c].ws \in 0 .. MaxCalls /\ client[c].peer \in 0 .. MaxCalls

MicQuiet ==
  /\ \A c \in Call : call[c].at \notin Waiting
  /\ \A k \in Call : ~client[k].destroy.open

\* Once the calls have ended, nothing captures but the track of the page's own
\* client, and then the panels do not call the microphone off.  The code misses
\* two cases, kept in strays: a call that captures for a client that was thrown
\* away, and a track another call of the same number overwrites.
CaptureEnds ==
  MicQuiet => \A c \in Call \ mic.strays :
    call[c].track = "live" =>
      /\ mic.client # NoCall /\ client[mic.client].local = c
      /\ MicSummary(mic, client, call) # "off"
=============================================================================

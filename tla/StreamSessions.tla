--------------------------- MODULE StreamSessions ---------------------------
(***************************************************************************)
(* The life of the streaming sessions of one host: start_host in           *)
(* src/src/api/stream.rs, from the generation a session draws to the last  *)
(* task that cleans up after it, and the two commands of the display       *)
(* helper a session runs, prepare and restore                              *)
(* (src/tools/portable/DisplayPrepareHelper/Program.cs).                   *)
(*                                                                         *)
(* Sessions run concurrently in one process and share                      *)
(*   - ACTIVE_STREAM_GENERATION, the number of the newest session,         *)
(*   - ACTIVE_STREAM_CHILD and ACTIVE_WINDOW_WATCH_CHILD, one slot each    *)
(*     for the child processes of whichever session came last,             *)
(*   - the host's display layout and the state file in which the helper    *)
(*     remembers the layout to go back to.                                 *)
(* Each session is up to three tasks: the body of start_host ("main"), the *)
(* task that forwards what the streamer says ("reader") and the delayed    *)
(* cleanup of a session that never connected ("reaper"). What a task has   *)
(* still to do is a sequence of steps; one step ends where the code awaits *)
(* or calls the helper, so sessions interleave there.                      *)
(*                                                                         *)
(* A layout is only which displays are active and which is primary:        *)
(* "desktop" is the one the user left, "stream" the one with the virtual   *)
(* display alone. Resolutions, cursors and process priorities are left out *)
(* and with them the helper's idle-mode normalisation, which changes the   *)
(* resolution of a display and no layout. Stop messages to a streamer are  *)
(* left out too: a streamer may hang up or exit at any time, told or not.  *)
(***************************************************************************)
EXTENDS Naturals, Sequences, FiniteSets

CONSTANTS
  MaxSessions,  \* bound: how many sessions begin
  TokenOf,      \* the session token of each: fresh, or the one of its ticket
  WatchStarts,  \* the ways starting the window watch can end on this host
  Overlap,      \* may a session begin while another is not finished?
  MaxFaults     \* bound: how many helper runs may fail

\* A session is named by its stream_generation, which fetch_add makes unique.
Sessions  == 1..MaxSessions
NoSession == 0

ASSUME SessionAssumption ==
  /\ MaxSessions \in Nat
  /\ \A s \in Sessions : TokenOf[s] \in Nat \ {0}
  /\ WatchStarts \in SUBSET BOOLEAN \ {{}}
  /\ Overlap \in BOOLEAN
  /\ MaxFaults \in Nat

Kinds   == {"streamer", "watch"}
Child   == Sessions \X Kinds
NoChild == <<NoSession, "none">>
Roles   == {"main", "reader", "reaper"}
Tasks   == Sessions \X Roles

Main(s)   == <<s, "main">>
Reader(s) == <<s, "reader">>
Reaper(s) == <<s, "reaper">>

Layouts == {"desktop", "stream"}

\* No prepare state file.
NoState == [token |-> NoSession, previous |-> "desktop"]

Steps == {"takeStreamer", "takeWatch", "launch", "startWatch", "serve",
          "capture", "apply", "save", "read",
          "stopWatchIfCurrent", "restoreIfActive", "bestEffort",
          "restoreRead", "restoreApply", "restoreForget",
          "killOwn", "killOwnWatch", "leaveReaper", "closeSocket"}

\* begin_active_stream_generation is followed by preempt_active_stream_runtime.
Opening == <<"takeStreamer", "takeWatch", "launch">>

\* Attempts prepare_stream_display gets for one StartStream.
MaxPrepareAttempts == 3

VARIABLES
  generation,   \* ACTIVE_STREAM_GENERATION
  todo,         \* the steps each task has still to do
  victim,       \* the child a task took out of a slot and has yet to kill
  slot,         \* whose child each slot holds
  proc,         \* every child process: "none", "running" or "dead"
  request,      \* StartStream: "none", "received" or "forwarded"
  connected,    \* stream_connection_established
  prepared,     \* prepared_display_active
  attempt,      \* attempts made to prepare the display
  socket,       \* is the session's websocket open?
  memory,       \* the layout a running helper has read
  display,      \* the layout of the host
  saved,        \* the helper's state file
  faults        \* helper runs that failed so far

vars == <<generation, todo, victim, slot, proc, request, connected,
          prepared, attempt, socket, memory, display, saved, faults>>

taskVars   == <<todo, victim>>
childVars  == <<slot, proc>>
streamVars == <<request, connected, attempt, socket>>
screenVars == <<memory, display, saved, faults>>

TypeOK ==
  /\ generation \in 0..MaxSessions
  /\ todo \in [Tasks -> Seq(Steps)]
  /\ victim \in [Tasks -> Child \cup {NoChild}]
  /\ slot \in [Kinds -> Sessions \cup {NoSession}]
  /\ proc \in [Child -> {"none", "running", "dead"}]
  /\ request \in [Sessions -> {"none", "received", "forwarded"}]
  /\ connected \in [Sessions -> BOOLEAN]
  /\ prepared \in [Sessions -> BOOLEAN]
  /\ attempt \in [Sessions -> 0..MaxPrepareAttempts]
  /\ socket \in [Sessions -> BOOLEAN]
  /\ memory \in [Tasks -> Layouts]
  /\ display \in Layouts
  /\ saved \in [token : {TokenOf[s] : s \in Sessions} \cup {NoSession},
                previous : Layouts]
  /\ faults \in 0..MaxFaults

Init ==
  /\ generation = 0
  /\ todo = [t \in Tasks |-> <<>>]
  /\ victim = [t \in Tasks |-> NoChild]
  /\ slot = [k \in Kinds |-> NoSession]
  /\ proc = [c \in Child |-> "none"]
  /\ request = [s \in Sessions |-> "none"]
  /\ connected = [s \in Sessions |-> FALSE]
  /\ prepared = [s \in Sessions |-> FALSE]
  /\ attempt = [s \in Sessions |-> 0]
  /\ socket = [s \in Sessions |-> FALSE]
  /\ memory = [t \in Tasks |-> "desktop"]
  /\ display = "desktop"
  /\ saved = NoState
  /\ faults = 0

-----------------------------------------------------------------------------
(* Tasks and children.                                                     *)

\* t is about to do step: it holds no child it still has to kill.
At(t, step) ==
  /\ victim[t] = NoChild
  /\ todo[t] # <<>>
  /\ Head(todo[t]) = step

\* t does the given steps next, in place of the one it was at.
Then(t, steps) == todo' = [todo EXCEPT ![t] = steps \o Tail(@)]

\* t does the given steps and nothing else.
Only(t, steps) == todo' = [todo EXCEPT ![t] = steps]

\* The child in a slot.
InSlot(kind) == IF slot[kind] = NoSession THEN NoChild ELSE <<slot[kind], kind>>

Begun(s) == s <= generation

\* stale_stream_generation: has a newer session begun?
Stale(s) == generation # s

\* Nothing of the session is left to do.
Finished(s) ==
  /\ Begun(s)
  /\ \A r \in Roles : todo[<<s, r>>] = <<>> /\ victim[<<s, r>>] = NoChild

\* The session is on its way to its websocket loop or in it.
Open(s) == \E i \in 1..Len(todo[Main(s)]) :
             todo[Main(s)][i] \in {"launch", "startWatch", "serve"}

\* A slip of Take: the slot is emptied and the child it held forgotten.
TakeAndForget(t, kind) ==
  /\ slot' = [slot EXCEPT ![kind] = NoSession]
  /\ Then(t, <<>>)
  /\ UNCHANGED victim

\* take_active_child empties the slot; what it returned is killed afterwards,
\* when the lock of the slot is no longer held.
Take(t, kind) ==
  /\ slot' = [slot EXCEPT ![kind] = NoSession]
  /\ victim' = [victim EXCEPT ![t] = InSlot(kind)]
  /\ Then(t, <<>>)

\* A slip of Replace: the child that was in the slot is not killed.
ReplaceAndForget(t, kind) ==
  /\ slot' = [slot EXCEPT ![kind] = t[1]]
  /\ proc' = [proc EXCEPT ![<<t[1], kind>>] = "running"]
  /\ UNCHANGED victim

\* A child is spawned and replace_active_child puts it into its slot; until then
\* no other task can name it, so both are one step. Nothing here asks whether the
\* session is still the newest. The child that was in the slot is killed
\* afterwards.
Replace(t, kind) ==
  /\ slot' = [slot EXCEPT ![kind] = t[1]]
  /\ proc' = [proc EXCEPT ![<<t[1], kind>>] = "running"]
  /\ victim' = [victim EXCEPT ![t] = InSlot(kind)]

\* force_kill_child on the child taken out of a slot.
Kill(t) ==
  /\ victim[t] # NoChild
  /\ proc' = [proc EXCEPT ![victim[t]] = "dead"]
  /\ victim' = [victim EXCEPT ![t] = NoChild]
  /\ UNCHANGED <<generation, todo, slot, streamVars, prepared, screenVars>>

\* force_kill_child on the session's own child; it stays in the slot if it is there.
KillOwn(t, kind) ==
  /\ proc' = [proc EXCEPT ![<<t[1], kind>>] = IF @ = "none" THEN @ ELSE "dead"]
  /\ Then(t, <<>>)
  /\ UNCHANGED <<generation, victim, slot, streamVars, prepared, screenVars>>

-----------------------------------------------------------------------------
(* The opening of a session.                                               *)

\* The client's Init message has been accepted: begin_active_stream_generation.
Begin(s) ==
  /\ s = generation + 1
  /\ Overlap \/ \A r \in 1..generation : Finished(r)
  /\ generation' = s
  /\ Only(Main(s), Opening)
  /\ socket' = [socket EXCEPT ![s] = TRUE]
  /\ UNCHANGED <<victim, childVars, request, connected, attempt, prepared,
                 screenVars>>

\* preempt_active_stream_runtime: whatever child another session left is taken
\* and killed, the streamer first.
TakeStreamer(t) ==
  /\ At(t, "takeStreamer")
  /\ Take(t, "streamer")
  /\ UNCHANGED <<generation, proc, streamVars, prepared, screenVars>>

\* Also the second half of stop_active_window_watch_if_current, which takes the
\* watch in the slot whoever it belongs to.
TakeWatch(t) ==
  /\ At(t, "takeWatch")
  /\ Take(t, "watch")
  /\ UNCHANGED <<generation, proc, streamVars, prepared, screenVars>>

\* One of the early returns between the generation and the streamer (client too
\* old, host or app not found, binary not staged, spawn failed): the socket is
\* closed and nothing else is done.
ReturnEarly(s) ==
  /\ At(Main(s), "launch")
  /\ Only(Main(s), <<>>)
  /\ socket' = [socket EXCEPT ![s] = FALSE]
  /\ UNCHANGED <<generation, victim, childVars, request, connected, attempt,
                 prepared, screenVars>>

Launch(s) ==
  /\ At(Main(s), "launch")
  /\ Replace(Main(s), "streamer")
  /\ Then(Main(s), <<"startWatch">>)
  /\ UNCHANGED <<generation, streamVars, prepared, screenVars>>

\* What the reader does once both of its channels are closed.
ReaderSteps == <<"read", "stopWatchIfCurrent", "restoreIfActive", "closeSocket",
                 "killOwn", "stopWatchIfCurrent">>

\* The window watch is started, or fails to start; the reader starts anyway.
StartWatch(s) ==
  /\ At(Main(s), "startWatch")
  /\ \E started \in WatchStarts :
       IF started THEN Replace(Main(s), "watch") ELSE UNCHANGED <<slot, proc, victim>>
  /\ todo' = [todo EXCEPT ![Main(s)] = <<"serve">> \o Tail(@),
                          ![Reader(s)] = ReaderSteps]
  /\ UNCHANGED <<generation, streamVars, prepared, screenVars>>

-----------------------------------------------------------------------------
(* Serving: the loop on the websocket, and preparing the display.          *)

\* The first StartStream prepares the display before it is forwarded; the ones
\* after it are forwarded as they are.
StartStream(s) ==
  /\ At(Main(s), "serve")
  /\ request[s] = "none"
  /\ request' = [request EXCEPT ![s] = "received"]
  /\ attempt' = [attempt EXCEPT ![s] = 1]
  /\ Then(Main(s), <<"capture", "serve">>)
  /\ UNCHANGED <<generation, victim, childVars, connected, socket,
                 prepared, screenVars>>

\* The helper has no more use for the layout it has read.
HelperEnds(t) == memory' = [memory EXCEPT ![t] = "desktop"]

\* A slip of Capture: the layout is read when it has already been changed.
CaptureLate(s) ==
  /\ At(Main(s), "capture")
  /\ memory' = [memory EXCEPT ![Main(s)] = "stream"]
  /\ Then(Main(s), <<"apply">>)
  /\ UNCHANGED <<generation, victim, childVars, streamVars, prepared, display,
                 saved, faults>>

\* PrepareDisplay lists the displays it will have to go back to ...
Capture(s) ==
  /\ At(Main(s), "capture")
  /\ memory' = [memory EXCEPT ![Main(s)] = display]
  /\ Then(Main(s), <<"apply">>)
  /\ UNCHANGED <<generation, victim, childVars, streamVars, prepared, display,
                 saved, faults>>

\* The virtual display cannot be had in the size asked for, and the host lets
\* the helper fall back: it answers that all is well, has changed nothing and
\* writes no state file.
FallBack(s) ==
  /\ At(Main(s), "apply")
  /\ HelperEnds(Main(s))
  /\ request' = [request EXCEPT ![s] = "forwarded"]
  /\ attempt' = [attempt EXCEPT ![s] = 0]
  /\ Then(Main(s), <<>>)
  /\ UNCHANGED <<generation, victim, childVars, connected, socket, prepared,
                 display, saved, faults>>

\* ... disconnects all of them but the virtual one, or has that one show what the
\* primary shows: either way the desktop is not as it was ...
Apply(s) ==
  /\ At(Main(s), "apply")
  /\ display' = "stream"
  /\ Then(Main(s), <<"save">>)
  /\ UNCHANGED <<generation, victim, childVars, streamVars, prepared, memory,
                 saved, faults>>

\* ... and at last writes the state file, over the state of an earlier session if
\* there is one. It reports a change unless the displays already were so; then
\* the capture configuration may still have changed. StartStream is forwarded.
Save(s) ==
  /\ At(Main(s), "save")
  /\ saved' = [token |-> TokenOf[s], previous |-> memory[Main(s)]]
  /\ HelperEnds(Main(s))
  /\ \E changed \in BOOLEAN :
       /\ memory[Main(s)] = "desktop" => changed
       /\ prepared' = [prepared EXCEPT ![s] = @ \/ changed]
  /\ request' = [request EXCEPT ![s] = "forwarded"]
  /\ attempt' = [attempt EXCEPT ![s] = 0]
  /\ Then(Main(s), <<>>)
  /\ UNCHANGED <<generation, victim, childVars, connected, socket, display,
                 faults>>

\* What a session that never connected does when it stops; the reaper is left
\* behind at the end of it.
UnconnectedSteps(s) ==
  <<"stopWatchIfCurrent", "restoreIfActive">>
    \o (IF request[s] = "none" THEN <<>> ELSE <<"bestEffort">>)
    \o <<"leaveReaper">>

\* The helper fails, or times out and is killed, at any point of a prepare: what
\* it had changed stays changed. The prepare is tried again, or StartStream goes
\* ahead with the display as it is, or the session stops.
PrepareFails(s) ==
  /\ \E step \in {"capture", "apply", "save"} : At(Main(s), step)
  /\ faults < MaxFaults
  /\ faults' = faults + 1
  /\ HelperEnds(Main(s))
  /\ \/ /\ attempt[s] < MaxPrepareAttempts
        /\ attempt' = [attempt EXCEPT ![s] = @ + 1]
        /\ Only(Main(s), <<"capture", "serve">>)
        /\ UNCHANGED request
     \/ /\ Only(Main(s), <<"serve">>)
        /\ request' = [request EXCEPT ![s] = "forwarded"]
        /\ attempt' = [attempt EXCEPT ![s] = 0]
     \/ /\ Only(Main(s), UnconnectedSteps(s))
        /\ attempt' = [attempt EXCEPT ![s] = 0]
        /\ UNCHANGED request
  /\ UNCHANGED <<generation, victim, childVars, connected, socket, prepared,
                 display, saved>>

\* The streamer reports ConnectionComplete and the reader forwards it.
Connect(s) ==
  /\ At(Reader(s), "read")
  /\ proc[<<s, "streamer">>] = "running"
  /\ request[s] = "forwarded"
  /\ ~connected[s]
  /\ connected' = [connected EXCEPT ![s] = TRUE]
  /\ UNCHANGED <<generation, taskVars, childVars, request, attempt,
                 socket, prepared, screenVars>>

\* What a session that had connected does when it stops.
ConnectedSteps ==
  <<"stopWatchIfCurrent", "restoreIfActive", "bestEffort", "killOwn", "bestEffort",
    "killOwnWatch">>

\* The loop ends: a close frame, the end of the stream, a message it cannot
\* parse, or 30 seconds without a message, STREAM_CONTROL_IDLE_TIMEOUT.
Stop(s) ==
  /\ At(Main(s), "serve")
  /\ Only(Main(s), IF connected[s] THEN ConnectedSteps ELSE UnconnectedSteps(s))
  /\ UNCHANGED <<generation, victim, childVars, streamVars, prepared, screenVars>>

-----------------------------------------------------------------------------
(* Cleaning up.                                                            *)

\* stop_active_window_watch_if_current: a session that is not the newest leaves
\* the watch alone. The newest takes the watch, once it has the lock of the slot.
StopWatchIfCurrent(t) ==
  /\ At(t, "stopWatchIfCurrent")
  /\ Then(t, IF Stale(t[1]) THEN <<>> ELSE <<"takeWatch">>)
  /\ UNCHANGED <<generation, victim, childVars, streamVars, prepared, screenVars>>

\* restore_prepared_stream_display_if_active_for_generation: only the newest
\* session restores, and only one of its tasks gets to see the flag set.
RestoreIfActive(t) ==
  /\ At(t, "restoreIfActive")
  /\ prepared' = [prepared EXCEPT ![t[1]] = FALSE]
  /\ Then(t, IF Stale(t[1]) \/ ~prepared[t[1]] THEN <<>> ELSE <<"restoreRead">>)
  /\ UNCHANGED <<generation, victim, childVars, streamVars, screenVars>>

\* restore_prepared_stream_display_best_effort_for_generation: the newest session
\* restores whatever the flag says.
BestEffort(t) ==
  /\ At(t, "bestEffort")
  /\ Then(t, IF Stale(t[1]) THEN <<>> ELSE <<"restoreRead">>)
  /\ UNCHANGED <<generation, victim, childVars, streamVars, prepared, screenVars>>

\* StateBelongsToDifferentSession.
Superseded(s) == saved.token # TokenOf[s]

\* RestoreDisplay reads the state file. Without one it only normalises the
\* resolution; the state of another session is left alone: superseded.
RestoreRead(t) ==
  /\ At(t, "restoreRead")
  /\ IF saved = NoState \/ Superseded(t[1])
       THEN Then(t, <<>>) /\ UNCHANGED memory
       ELSE /\ memory' = [memory EXCEPT ![t] = saved.previous]
            /\ Then(t, <<"restoreApply">>)
  /\ UNCHANGED <<generation, victim, childVars, streamVars, prepared, display, saved,
                 faults>>

\* It brings back the layout it has read ...
RestoreApply(t) ==
  /\ At(t, "restoreApply")
  /\ display' = memory[t]
  /\ HelperEnds(t)
  /\ Then(t, <<"restoreForget">>)
  /\ UNCHANGED <<generation, victim, childVars, streamVars, prepared, saved, faults>>

\* ... and deletes the state file, without reading it again.
RestoreForget(t) ==
  /\ At(t, "restoreForget")
  /\ saved' = NoState
  /\ Then(t, <<>>)
  /\ UNCHANGED <<generation, victim, childVars, streamVars, prepared, memory, display,
                 faults>>

\* The helper fails or times out: what it has not done it leaves undone.
RestoreFails(t) ==
  /\ \E step \in {"restoreRead", "restoreApply", "restoreForget"} : At(t, step)
  /\ faults < MaxFaults
  /\ faults' = faults + 1
  /\ HelperEnds(t)
  /\ Then(t, <<>>)
  /\ UNCHANGED <<generation, victim, childVars, streamVars, prepared, display, saved>>

KillOwnStreamer(t) == At(t, "killOwn") /\ KillOwn(t, "streamer")

KillOwnWatch(t) == At(t, "killOwnWatch") /\ KillOwn(t, "watch")

\* A slip of LeaveReaper: it looks after the watch only.
LeaveIdleReaper(s) ==
  /\ At(Main(s), "leaveReaper")
  /\ todo' = [todo EXCEPT ![Main(s)] = Tail(@),
                          ![Reaper(s)] = <<"stopWatchIfCurrent">>]
  /\ UNCHANGED <<generation, victim, childVars, streamVars, prepared, screenVars>>

\* The task that comes three seconds later.
LeaveReaper(s) ==
  /\ At(Main(s), "leaveReaper")
  /\ todo' = [todo EXCEPT ![Main(s)] = Tail(@),
                          ![Reaper(s)] = <<"killOwn", "stopWatchIfCurrent">>]
  /\ UNCHANGED <<generation, victim, childVars, streamVars, prepared, screenVars>>

\* The body of start_host has returned, and with it the sender of the messages
\* it had for the client.
Returned(s) == todo[Main(s)] = <<>> /\ victim[Main(s)] = NoChild

\* The reader's loop ends when both of its channels are closed: the one of that
\* sender, and the pipe of the streamer, which is dead ...
ReaderEnds(s) ==
  /\ At(Reader(s), "read")
  /\ proc[<<s, "streamer">>] = "dead"
  /\ Returned(s)
  /\ Then(Reader(s), <<>>)
  /\ UNCHANGED <<generation, victim, childVars, streamVars, prepared, screenVars>>

\* ... or has sent its Stop message and is still there.
ReaderStopped(s) ==
  /\ At(Reader(s), "read")
  /\ proc[<<s, "streamer">>] = "running"
  /\ Returned(s)
  /\ Then(Reader(s), <<>>)
  /\ UNCHANGED <<generation, victim, childVars, streamVars, prepared, screenVars>>

\* "close the websocket when the streamer crashed / disconnected / whatever"
CloseSocket(s) ==
  /\ At(Reader(s), "closeSocket")
  /\ socket' = [socket EXCEPT ![s] = FALSE]
  /\ Then(Reader(s), <<>>)
  /\ UNCHANGED <<generation, victim, childVars, request, connected, attempt,
                 prepared, screenVars>>

-----------------------------------------------------------------------------
(* The environment.                                                        *)

\* A streamer crashes, or exits when it is told to or of itself.
StreamerExits(s) ==
  /\ proc[<<s, "streamer">>] = "running"
  /\ proc' = [proc EXCEPT ![<<s, "streamer">>] = "dead"]
  /\ UNCHANGED <<generation, taskVars, slot, streamVars, prepared, screenVars>>

\* The watch finds the state file of its session and a display active that should
\* not be: EnforceMttVddAuthorityForActiveSession disconnects it again.
WatchEnforces(s) ==
  /\ proc[<<s, "watch">>] = "running"
  /\ saved # NoState
  /\ ~Superseded(s)
  /\ display = "desktop"
  /\ display' = "stream"
  /\ UNCHANGED <<generation, taskVars, childVars, streamVars, prepared, memory,
                 saved, faults>>

-----------------------------------------------------------------------------

\* The steps a task takes, whichever task of its session it is.
TaskStep(t) ==
  \/ Kill(t)
  \/ TakeStreamer(t)
  \/ TakeWatch(t)
  \/ StopWatchIfCurrent(t)
  \/ RestoreIfActive(t)
  \/ BestEffort(t)
  \/ RestoreRead(t)
  \/ RestoreApply(t)
  \/ RestoreForget(t)
  \/ KillOwnStreamer(t)
  \/ KillOwnWatch(t)

\* The steps that belong to one of the tasks.
BodyStep(s) ==
  \/ ReturnEarly(s)
  \/ Launch(s)
  \/ StartWatch(s)
  \/ Capture(s)
  \/ FallBack(s)
  \/ Apply(s)
  \/ Save(s)
  \/ LeaveReaper(s)
  \/ ReaderEnds(s)
  \/ CloseSocket(s)

Environment(s) ==
  \/ Begin(s)
  \/ StartStream(s)
  \/ PrepareFails(s)
  \/ Connect(s)
  \/ Stop(s)
  \/ StreamerExits(s)
  \/ ReaderStopped(s)
  \/ WatchEnforces(s)

Next ==
  \/ \E t \in Tasks : TaskStep(t) \/ RestoreFails(t)
  \/ \E s \in Sessions : BodyStep(s) \/ Environment(s)

Spec == Init /\ [][Next]_vars

(***************************************************************************)
(* Tokio runs every task that can go on, and the helper and taskkill are   *)
(* called with timeouts, so no step of the code waits for ever. A session   *)
(* has only so many steps of its own, so it is enough that some task that   *)
(* can go on does. Nothing is assumed of clients, streamers or watches: a   *)
(* client that sends heartbeats may stay for ever.                          *)
(***************************************************************************)
Fairness == WF_vars(\/ \E t \in Tasks : TaskStep(t)
                    \/ \E s \in Sessions : BodyStep(s))

FairSpec == Spec /\ Fairness

-----------------------------------------------------------------------------
(* Safety.                                                                 *)

\* A child process that runs is in the slot of its kind, where the next session
\* finds and kills it, or some task has taken it out and is about to kill it:
\* preempting, replacing, the slow session that launches after a newer one, and
\* the cleanup of two sessions at once never lose one.
NoOrphans ==
  \A c \in Child :
    proc[c] = "running" => \/ slot[c[2]] = c[1]
                           \/ \E t \in Tasks : victim[t] = c

\* Two sessions hold a streamer at once only while one of the two streamers is
\* about to be killed.
OneStreamer ==
  \A r, s \in Sessions :
    /\ proc[<<r, "streamer">>] = "running"
    /\ proc[<<s, "streamer">>] = "running"
    /\ \A t \in Tasks : victim[t] \notin {<<r, "streamer">>, <<s, "streamer">>}
    => r = s

\* "Android users expect the host desktop to be usable immediately after a stream
\* ends. Always run the display restore path": when every session that began is
\* finished and no helper run failed, the host has its desktop back.
DesktopComesBack ==
  (\A s \in 1..generation : Finished(s)) /\ faults = 0
    => display = "desktop" /\ saved = NoState

\* "session superseding in the helper still prevents an old restore from winning
\* over a new stream": while the newest session streams on the display it has
\* prepared, the host keeps the stream's layout, or at least the state file by
\* which the window watch puts it back.
NewStreamKeepsDisplay ==
  \A s \in Sessions :
    /\ ~Stale(s)
    /\ At(Main(s), "serve")
    /\ prepared[s]
    => \/ display = "stream"
       \/ saved # NoState /\ ~Superseded(s) /\ proc[<<s, "watch">>] = "running"

-----------------------------------------------------------------------------
(* Liveness.                                                               *)

\* When the websocket loop of a session has ended, its streamer dies and all of its tasks
\* end: the reader, which waits for the streamer and for the body of start_host,
\* is never left waiting, connected or not. (An ended loop and a finished session
\* stay so: the leads-to is written as a recurrence.)
SessionEnds ==
  \A s \in Sessions :
    []<>(Begun(s) /\ ~Open(s) => Finished(s) /\ proc[<<s, "streamer">>] # "running")

\* In the end at most one streamer runs, whatever order sessions launched in.
OneSurvives ==
  <>[](\A r, s \in Sessions :
         /\ proc[<<r, "streamer">>] = "running"
         /\ proc[<<s, "streamer">>] = "running"
         => r = s)

\* "close the websocket when the streamer crashed / disconnected / whatever".
DeadStreamerClosesSocket ==
  \A s \in Sessions : proc[<<s, "streamer">>] = "dead" ~> ~socket[s]
=============================================================================

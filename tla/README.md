# Cloudgime host: TLA+ models

A Cloudgime host is a Windows PC from which games are streamed to a browser or to a native client. This
directory holds TLA+ models of the parts of its software where several actors work on shared state:
how the host keeps itself running, how streaming sessions come and go, how its data gets to the disk, and
how the stream page of the browser negotiates, recovers, takes input and shows itself.
TLC checks the models on small instances and TLAPS proves the most important of their properties for
every value of their constants.

Paths below are relative to the root of the repository, and `Program.cs:100` means line 100 of it.

Run `tlasany M.tla` to parse a module, `tlc -config X.cfg M.tla` to check one (the module for each
configuration is in the table of runs), and `tlapm M_proofs.tla` to check proofs. `PROJECT.json` is the
index: components, runs, the lines each definition models, the hazards and what covers them.

## 1. Inventory

### Processes

```
 Windows service --+                                     web client / native client
 command line -----+--> command file --> user-session          |  HTTP, websocket
 web-server -------+    state file       daemon                v
                                           |              web-server  ---- JSON file
                                           | starts         |  one streamer and one window watch per session
                                           v                v
                              Sunshine, web-server, frpc   streamer --- Sunshine
                                                           display helper --- displays, prepare state file
```

### Components

Each entry says what state a component keeps, what operates on it, whom it works with, what is hard, and
what makes it correct.

**Command mailbox of the supervisor** (`src/bin/host_supervisor.rs`). State: two files,
`host_supervisor_command.json` (one command) and `host_supervisor_state.json` (pid of the daemon, id and
status of the last command). Operations: queue a command, wait for its answer, poll, execute, record,
clear. The service, the command line and the daemon are separate processes, and nobody locks a file. Hard:
every rewrite is a read, a change, a truncation and a write; a reader can find a file empty or a mixture of
two; the daemon dies of what it cannot parse; ids are milliseconds; the daemon is started by a scheduled
task or by the caller, and both may start one. Correct: an answer is true and is that of the caller's own
command; a command nobody competes with is executed in the end; every request ends.

**Supervision of the bundle** (`src/bin/host_supervisor.rs`). State: lifecycle phase, recovery budget
(attempts within a window), the running parts, Parsec's service. Operations: the service's tick every 5 s,
nine commands, the steps of a start, recovery after a failed stream. Hard: a failed command ends the daemon
and takes its children down; phases go stale; the service and the daemon send each other commands and wait
for one another; budgets are reset on four paths; the host can be locked meanwhile. Correct: the bundle
comes back while the host is activated, stays down while it is not, restarts are bounded, Parsec is never
left stopped.

**Stream sessions** (`src/api/stream.rs`). State: the generation of the newest session, one slot each for
the streamer and the window watch, what every session has prepared. Operations: `start_host` from preemption
to its last cleanup task, the reader of the streamer's pipe, the delayed cleanup of a session that never
connected. Hard: sessions overlap, each is up to three tasks, and the generation is consulted at some steps
only. Correct: no child process is lost, one streamer survives, the desktop comes back, an old session does
not undo a new one.

**Display prepare helper** (`tools/portable/DisplayPrepareHelper/Program.cs`). State: the layout of the
displays and the prepare state file with the layout to go back to and the token of the session that
prepared. Operations: `prepare`, `restore`, `watch`. Each call is a process of its own and none of them
locks anything. Correct: as for stream sessions.

**JSON storage** (`src/app/storage/json/`). State: tables of users and hosts under table and row locks, a
channel of capacity one, the file, session tokens in memory. Operations: add, modify and remove; one task
writes the file. Hard: rows change while they are copied; signals are dropped when one is pending; a write
fails or is cut short. Correct: no change is forgotten; the file is consistent.

**Users, hosts and passwords** (`src/app/`). Operations that are several calls of the storage: first login,
adding a user, adding a host after having asked it for its name. Hard: what was checked need not hold when
it is used. The same directory keeps the **native session tables** (launch tokens, stream tickets, lifecycle,
events, invites; `app/mod.rs` 560-1530), under five locks of which some are nested. Hard: what one lock showed is acted on under the
next, and requests that hold a lock wait for another. Correct: a session that has ended is not let in again;
every request ends.

**Shared player 2** (`api/stream.rs` 403-542, 7838-8150). A second client joins a running session through a
bridge kept under the session's id. Hard: a reconnect of the owner has the same id as the connection whose
reader is still cleaning up. Correct: a cleanup only removes what its own connection registered.

**HTTP API** (`api/mod.rs`, `api/android_native.rs`, `api/admin.rs`, `api/auth.rs`). Handlers over the above;
the native client's ones also prepare displays ahead of a session and clean up after it.

**Streamer** (`streamer/src/`). The connection between Sunshine and a peer, with its transports over WebRTC
and websocket. Hard: start, stop and the end of either side race (`main.rs` 2433, 2890, 3365). Correct: it
stops once, and always. It talks to the web-server over a pipe (`common/src/ipc.rs`).

**Web client: connection and recovery** (`web/stream.ts`, `web/stream/index.ts`,
`web/stream/transport/webrtc.ts`). State: the page's present stream and what it remembers of the ones before,
each stream's web socket, negotiation and timers, the peer connection's candidates, the quality and the size
asked for, the locks of the input. Operations: negotiate attempt by attempt, report, reconnect on eight
different occasions, match the device, apply the quality panel, adapt the bitrate, watch the video. Everything is
one thread, and every `await` is a place where any other callback may run. Hard: replaced streams go on
reporting; timers armed for one state fire in another; answers carry no mark of their request. Correct: one
stream on the wire; recoveries are bounded and end; an input that was locked is unlocked; the size follows.

**Web client: input** (`web/stream/input.ts`, the on-screen pad of `web/stream.ts`). State: what is pressed, by
which finger, key or pad; movement that waits for a congested channel; controllers' slots; layouts and
templates in the browser's storage. Hard: a press and its release are separate callbacks, and a lock, a
rotation, an edit or a new stream comes in between. Correct: what the host holds is what the user
holds; a stored template is not lost.

**Web client: viewer's panels and sidebar** (`web/stream.ts`, `web/component/sidebar/`). State: a flag and a card
for each panel, the handle with its two timers. Correct: cards follow flags; the handle does not stay.

**Web client: media source and microphone** (`web/stream/video/media_source_decoder.ts`,
`web/stream/mic_sidecar.ts`). State: a queue in front of a busy source buffer, segments put together from
boxes; calls that switch the microphone, of which several may be under way. Correct: segments are in order and can be
read back; nothing captures that nobody owns.

**Web client: pages and components** (`web/index.ts`, `web/component/`). State: the view with its place in the
tab's history, the list of hosts, the banner, one place for a modal. Hard: answers cross. Correct: what
is shown is what is there.

**Host control app** (`tools/portable/HostControlApp.Tauri/`). The operator's page, whose commands overlap with its
poll and with the claim of a license; its backend is sequential. Correct: the page shows the host as it is.

**Keep-awake agent** (`tools/portable/HostKeepAwakeAgent/Program.cs`). Power requests and a self-healing loop
with a budget of its own, beside the supervisor's.

**Host installer, bootstrap, launcher, packaging, uninstaller, release coordinator** (`src/bin/`,
`tools/portable/`). Sequential programs against Windows; what is hard is what a failed step leaves behind.

**Mic and gamepad sidecars, bundle process manager.** Loops and interfaces with little state.

**Configuration and bindings** (`common/`) and **vendored code** (`vendor/`) have no behaviour of the
host's own to model.

## 2. Modules

| Module | Models | Proofs |
|---|---|---|
| `CommandRpc` | what a mailbox promises: an abstract remote call | |
| `SupervisorMailbox` | the two files, senders and daemons, step by step | `SupervisorMailbox_proofs` |
| `HostSupervisor` | what the commands do to the bundle | `HostSupervisor_proofs` |
| `StreamSessions` | sessions of one host, with the display helper | `WebServer_proofs` |
| `NativeSessions` | launch tokens, stream tickets and lifecycles of native clients, lock by lock | `WebServer_proofs` |
| `JsonStorage` | the tables, the writer, the file, and the requests | `Progress_proofs` |
| `ViewerRecovery` | the stream page, the streams it opens one after the other, and every recovery | `ViewerRecovery_proofs` |
| `StreamWatch` | transition, warm-up and stall watch: who locks the input | `Progress_proofs` |
| `WebRtcPeer` | one transport: candidates that are put aside, and the judgement of a lost path | `Progress_proofs` |
| `AdaptiveQuality` | the automatic bitrate and frame rate | `Progress_proofs` |
| `RuntimeResize` | the size asked of the host, its timers, queue and answers | `ClientMedia_proofs` |
| `PointerInput`, `MouseQueue`, `ControllerLink` | fingers and buttons; the two queues of movement; controllers | `ClientInput_proofs` |
| `QuickPadButtons`, `QuickPadTemplates`, `QuickPadLayouts` | the on-screen pad: what it presses, what it stores, how it is edited | `ClientInput_proofs`, the layouts `ClientPages_proofs` |
| `ViewerPanels`, `SidebarHandle` | the panels of the viewer and the sidebar's handle | `ClientPages_proofs` |
| `MediaSourceQueue`, `Mp4Segments` | the decoder's queue; the boxes of its segments (operators only) | the queue: `ClientMedia_proofs` |
| `MicSidecar` | the calls that switch the microphone | `ClientMedia_proofs` |
| `StartPage`, `HostBanner`, `HostList`, `PageModals` | the pages' views, banner, list and modals | `ClientPages_proofs` |
| `HostControlApp` | the control app's page and its backend's commands | `Progress_proofs` |
| `MCSupervisorMailbox`, `MCHostSupervisor`, `MCStreamSessions` | constants and symmetry for TLC | |
| `MCProgress`, `MCWebServer`, `MCWebClient` | suites: several components, each for itself, in one run | |

The mailbox is modelled twice on purpose. `SupervisorMailbox` shows that a slot made of two unlocked files
is a truthful remote call; `HostSupervisor` then takes one step for writing, taking and answering a command
and looks at what the commands do. `SupervisorMailbox` implements `CommandRpc` by the refinement mapping
`Rpc` at its end.

### SupervisorMailbox

A process is at a step (`at`), and a step that rewrites the state file goes through `Load`, `Truncate` and
`Fill` (`read_state`, `fs::write`). Every writer changes only the fields its step changes in what it has
read (`Updated`), so an update made in between is lost. A file is a value, `"empty"` while it is truncated,
or `"garbled"` when two writers overlap: `read_state` falls back to the default, `read_command_file` fails
and the daemon exits. Requesters run `request_user_daemon_operation`: ensure a daemon, wipe the command file,
spawn, await, write the command, wait. Daemons run `run_daemon`: take over, register, poll, execute, answer,
clear. `TaskTrigger` and `Launch` are the scheduled task, with its policy as a constant; `Crash` kills a
process anywhere. The caller sees an error for a failure and for a timeout; the model tells them apart since
the properties do. A shutdown whose look at the state file shows no live daemon, because there is none or because the file
is torn, is told `Ok(())` at once (`host_supervisor.rs` 1749-1752): it ends as `"skipped"`, and `Abstracted` maps that to
the `"ok"` the caller gets. `CommandRpc` has an action of its own for it, `Skip`, since no execution is behind that answer.

### HostSupervisor

`service` and `daemon` are where the two loops are, `plan` what the service is about to do, `job` the command
at work. A tick of the service is one step up to its decision (`SeeLocked`, `SeeDaemonMissing`,
`SeeUnhealthy`, `NormalizePhase`, `ClearStableBudget`), then `Request` and an answer or a timeout. A command
goes through the steps of `start_bundle_inner` and `stop_bundle_processes`, and may fail at each
(`StepFails`). Slow commands count as faults. Reading and rewriting the state file is one step here. frpc is
taken to be installed, and its route is not modelled. A recovery of the runtime beyond `MaxRuntime` attempts is escalated to the bundle
(`Escalated`). `restarts` counts the recoveries that asked for the bundle and restarted it, `runtimes` those that restarted
the runtime alone; they share one count of attempts. Escalated restarts and `RestartRuntime` are in neither, since the code
refuses neither.

### StreamSessions

A session is named by its generation. Its tasks, "main", "reader" and "reaper", have agendas (`todo`):
sequences of steps, each ending where the code awaits or calls the helper. `Take` empties a slot and leaves
the child as `victim`, to be killed at a later step, as `take()` under the lock and `kill` after it do;
`Replace` is `replace_active_child`. `Capture`, `Apply` and `Save` are the helper's prepare, `RestoreRead`,
`RestoreApply` and `RestoreForget` its restore, and `WatchEnforces` the window watch, which acts only while
the state file carries its token. A layout is only which displays are active, so `Apply` stands for disconnecting the other displays and for duplicating
the primary. `FallBack` is a prepare that cannot have the size asked for and may fall back: it answers that all is well,
changes nothing and writes no state. Left out: resolutions and the
idle-mode normalisation, which touches resolutions only; Stop messages, since a streamer may exit or hang up
at any time anyway; and a kill that fails. Spawning a child and storing it in its slot is one step: no other
task can name the child in between. The guard of the persistent virtual display is outside.

### NativeSessions

Three tables of `app/mod.rs`, each under its own `RwLock`. A request is at the lock it asks for next (`at`), with the
session it is about; what it does under one lock without an `await` is one step. Which locks it keeps while
it asks for another is `Writes` and `Reads`, so that a step is enabled exactly when its lock is free. Requests are a
launch, the consumption of its token, a refresh, an update of the lifecycle with its look-up in three
tables, the invalidation after a completion, and the search for the owner of an invite. A client may go away at
any step (`Abandon`): actix drops the handler and its guards. A session has a ticket or has none: how many, and
which of its channels holds which, is left out. `ended` and `late` are history.

### JsonStorage

A row is what tells its versions apart: a user's name, a host's owner, and a stamp that numbers changes. A
lock held without an await is one step; the two locks `store` holds while it awaits rows are
`UsersLocked` and `HostsLocked`. `force_write` is part of the step for hosts, whose functions call it under
the lock, and a step of its own (`Signal`) for users, whose functions drop the lock first. Requests are
`add_user` (a check under one lock, an insertion under the next), `modify_user`, `remove_user`, `add_host`
(for a user who was there when the request began), `modify_host`, `remove_host` and the first login with the
assignment of the global hosts. `Truncate` and `Fill` are the two halves of `fs::write`; either may fail, and
the process may die anywhere. `Restart` reads the file, and refuses one that is torn.

### The web client

The page runs on one thread: an action is what runs from a callback to its next `await` or to its end, and
every timer, answer, event and press is an action of its own. Timers carry no clock; an armed one may fire at any
later step. Where the code compares elapsed time, the model keeps the thresholds (`AdaptiveQuality`,
`StreamWatch`).

`ViewerRecovery`: `page` is the fields of `ViewerApp` that recovery reads and writes, with the point of
`reconnectStream` that waits (`rec`); `st[s]` is the `Stream` in slot `s`, with the point of `startConnection` that waits
(`pc`). Events are dispatched synchronously, so the page's answer belongs to the step that reports. A
slot is used again when nothing of its stream can report any more. `StreamWatch` takes the same page from the
side of its input: the display transition of a phone (`shift`), the warm-up of the first frames (`warmup`)
and the stall watch (`stall`, with the ticks that are in an `await`). `WebRtcPeer` takes one transport: ICE and
connection state belong to the browser and change when they like, the handlers read both when they run. What
is left of a running `addIceCandidate`, or of a flush that calls it for one candidate after the other, is a sequence of calls
(`adding`); one `Turn` runs a call to its next `await`, and nothing else happens before all have `Yielded`. A flush by the IPv6
timer or by an IPv4 candidate calls `addIceCandidate` from its first line, so that a public IPv6 candidate is put aside a
second time, with the public ones, or ignored; only the flush of the public ones passes that check over.
`RuntimeResize` keeps the window, the timers of device match (`matching`), the request in flight and
the queued one (`control`), and the requests and answers on their way. `AdaptiveQuality` is one poll with its
counters. The five share no variable: each has the others' effects on it as inputs (`OtherReconnect`,
`SomethingReconnects`, `NewStream`).

`PointerInput` keeps what the user does (`user`), what the code remembers (`touch`, `pressed`) and what the host was
sent (`host`). `ControllerLink` has slots, buffered controllers and the state the host `known`s of each.
`QuickPadButtons` has the layout at each moment, and intervals and timers that release. `QuickPadTemplates` and
`QuickPadLayouts` keep the stored slots and layouts whole, since every operation writes all of them.

`HostControlApp` has a program counter for each handler that is under way: refreshes with their sync of the binding and
silent uploads (`refresh`), the claim of a license with its redemption, recheck, monitor and automatic start (`claim`), and the
other handlers (`command`), of which a start goes on to wait for the runtime and a saved token to sync. The interval does not
ask whether the last refresh has ended, so refreshes overlap. A look of a waiting loop, the question and its answer, is
one step, and the activation check of a start is one of the refusals a command may meet. `HostList` shows every tile
offline when the list arrives, since the server's first answer has no states; a host whose state
cannot be had sends no line, and the fetch ends without it.

`MediaSourceQueue` gives each segment the decoder's number of the source buffer it was made for; `Mp4Segments`
is the arithmetic of the boxes: positions, lengths and the offset of the frame, read back from what was written as a
browser reads it. `MicSidecar` keeps each call with what it made, its track, socket and peer, beside the
client's fields that say which are the current ones.

Several of these modules have a history variable or field (`past`, `missedPads`, `missedSizes`, `strays`, `stale`, `missed`,
`unseen`, `excused`, `left`) that records that one of the ways has been taken in which the code is known to lose
track. The property then says that there is no other. Section 5 lists those ways.

### Suites

`MCProgress`, `MCWebServer` and `MCWebClient` EXTEND several modules that share no variable. A variable `focus`, chosen in
the initial state, names the component whose steps the behaviour takes; the others rest. Each property of the component
is thus checked in exactly its own state graph, and the states add up where a product would multiply. The components
that rest have one initial state each. `MCWebServer` has the components a run looks at as a constant, `Focus`. Fairness in
`MCProgress` and `MCWebServer` is that of each module, conjoined with the focus. The suites do not compose: what components do to one
another is an input of each.

## 3. Runs

States are distinct states found.

| Run | Module, configuration | States | Shows |
|---|---|---|---|
| `mailbox_race` | `MCSupervisorMailbox`, `MailboxRace` | @race | two requesters race for the slot, with ids that may coincide, one death, torn files: `ReplaysNeedDeaths`, and `ImplementsRpc`, the refinement |
| `mailbox_two_daemons` | `MCSupervisorMailbox`, `MailboxTwoDaemons` | @two | a late launch by the task and a direct one give two daemons: `AnswersAreTrue`, `CommandKept` |
| `supervisor` | `MCHostSupervisor`, `Supervisor` | 0.96 M | two faults anywhere, two commands of operators, one change of the activation, low video memory: `ParsecRestored`, `BudgetKept`, `HealthRestored`, `LockedStops`, `ServiceStops` |
| `stream_sequential` | `MCWebServer`, `StreamSequential` | 322 k | three sessions in a row, a failed helper run, a token shared by two: `DesktopComesBack`. Two launches of one app and two native requests in every order of their locks: `EndedStaysEnded`, `NativeRequestsEnd` |
| `stream_overlap` | `MCWebServer`, `StreamOverlap` | 271 k | two sessions interleaved in every way: `NoOrphans`, `OneStreamer`, `SessionEnds`, `OneSurvives` |
| `viewer_recovery` | `ViewerRecovery`, `ViewerRecovery` | 357 k | a stream and a replaced one that still reports: `OneLiveStream`, `AutoReconnectBudget`, `ReconnectEnds`, `StartResolves` |
| `progress` | `MCProgress`, `Progress` | 190 k | what must happen in the end. Mailbox: `CommandExecuted`, `RequestEnds`. Storage: `FileInStep`, `EventuallySaved`. Quality: `BitrateRestored`. Watch: `InputLockInStep`, `LocksEnd`. Peer: `HeldCandidatesHaveTimer`, `FailedPathIsReported`. Control app: `PageSettles` |
| `web_client` | `MCWebClient`, `WebClient` | 0.77 M | what must never happen. Input: `PointersInStep`, `PadsInStep`, `TemplatesKept`. Size: `SizeFollows`. Media: `MediaInStep`. Pages and panels: `PagesInStep` |
| `stream_desktop` | `MCStreamSessions`, `StreamDesktop` | | finding 1 |
| `stream_old_restore` | `MCStreamSessions`, `StreamOldRestore` | | finding 2 |
| `stream_dead_streamer` | `MCStreamSessions`, `StreamDeadStreamer` | | finding 3 |
| `quality_fps` | `RuntimeResize`, `QualityFps` | | finding 4 |

`ProgressTypeOK`, `ServerTypeOK` and `ClientTypeOK` are the type invariants of the suites' modules; they are theorems too, and
those of the mailbox, the supervisor, the sessions and the recovery are stated as theorems of their own.

Some eventualities are written `[]<>(cause => effect)` instead of `cause ~> effect` (`SessionEnds`, `RequestEnds`,
`ReconnectEnds`, `LocksEnd`): where the effect, or the absence of the cause, is what the waiting can only end in, the two
are the same, and TLC checks the first much faster. Where a cause may end by itself (`StartResolves`) it is a `~>`.

### Bounds, and why they are enough

* Mailbox: two requesters are the least that race, two pids the least that give two daemons or a restart. The
  two together are too many states for one run; the theorems cover any number. `MaxId` gives each request an
  id, with room to coincide; one death reaches every step. The refinement is checked, and proved, where only the task
  launches daemons: two daemons may both execute one command, which is no longer one remote call (section 5).
* Mailbox in `progress`: one requester, whom nobody competes with, two pids so that the task's daemon can die and
  be followed by another, and `Hasty = FALSE`: the requester's timeout is longer than the work.
* Supervisor: `MaxRuntime` and `MaxBundle` stand for the code's limits and are as small as allows a restart of
  the runtime alone, one that is escalated, a restart of the bundle and exhaustion; `MaxAttempts` is above both limits, after which the code does not distinguish values, so
  the cap is exact. Operators ask for the commands of `RepairOps`: the ones that stop, the recovery of
  a failed runtime, twice of which is escalated, and the soft recovery; a hard recovery takes the path of an escalated one. `WebFaults` has no "hangs": a server that
  accepts and never answers ends the tick with an error, and nothing recovers it (section 5).
* Sessions: two sessions are the least in which one is old; a third matters for tokens that return, and is
  there in the sequential run. `WatchStarts = {TRUE}` in `stream_overlap`: a session without a watch has
  only fewer steps. `MaxFaults = 0` where a property speaks of helper runs that succeed.
* Native sessions: two requests and two launches of one app are the least in which a launch drops the other's
  tickets and in which two requests wait for one another. Two locks are the most a request keeps.
* Storage: the initial file is any consistent one. One client at a time makes at most two changes, which reach
  what matters there: a row changed while it is copied, an owner removed while its host is written. That several
  clients interleave is covered by the theorems, which hold for any number.
* Viewer: two slots, a present stream and a replaced one. `MaxDirect`, `MaxStartup` and `MaxAuto` are limits of the
  code, 3, 2 and 2 there, and 1 here: each loop is passed, counted and exhausted.
* Watch: two streams are one reconnect; one tick of the stall watch in an `await`, any number in the theorem.
* Peer: a public IPv6 candidate, which may be put aside twice, and a mapped IPv4 one, whose arrival flushes it; one
  extension and one loss of the path. Any candidates of any kinds in the theorem.
* Quality: ceilings and floors of two bitrates; the counters run to the code's thresholds.
* Control app: any two of refreshes, uploads, commands and claims overlap (`AtOnce = 2`), three do not. Three may: then two
  syncs can write back each other's identity in turn for ever, and the page does not settle, which is why `AppSettles` asks for the
  page to follow the host only when the host comes to rest. One command is under way at a time (`Hands`), beside a refresh or the
  claim; that commands which take each other's overlay away leave none behind is `OverlayHasHandler`, for any number of them.
  `AppTries` is the number of looks of a waiting loop (15 and 8 in the code): two are a first one, which looks at
  the answer of the claim, and one that asks again.
* Input: two fingers, of which a third may be had by lifting one, and three movements; two controllers for one
  slot; one pad button of each kind with one step of a sequence; three template slots for two layouts; two
  orientations. Sizes are a portrait and two landscape ones, so that a change can keep the orientation or turn it.
* Media: four units make a configuration, two frames and a second configuration; one segment may be dropped.
* Pages: two hosts and two fetches are the least in which answers cross; the banner has three fetches,
  so that two answers can come after the one that fails. Three modals in a row.

### Deadlock

Runs say `CHECK_DEADLOCK FALSE` where the system may rest: all sessions over, the supervisor idle with
its bounds used up, a page with nothing under way and the user's acts used up. The two mailbox runs keep the deadlock
check.

### Fairness

* Mailbox: the processes run, the task restarts a daemon that failed (it is registered with
  `RestartOnFailure`), operations end. `Run` has strong fairness, since a daemon that dies and comes back is
  enabled again and again.
* Supervisor: the ticks come round, a job goes on, time passes. Nothing is assumed of operators and faults.
* Sessions: some task that can go on does. One weak fairness condition suffices because each session has only
  finitely many steps of its own. Nothing is assumed of clients, streamers and watches.
* Native sessions: strong fairness of each request, since tokio's `RwLock` serves its queue in order: a request that
  waits is not passed over for ever. Nothing is assumed of clients, and none has to come.
* Storage: the writer, which is a task of its own, and `force_write`, which no await precedes. Nothing is
  assumed of requests or of the file.
* Web client: timers that are armed fire, an `await` that the code bounds or the browser answers comes back, and
  events queued in the browser are delivered. Nothing is assumed of the user, the network, the host's answers
  or the browser's ICE states. `LocksEnd` assumes a stream that connects and shows its video, `BitrateRestored` polls that find a
  good network, both in so many words in the property or in its fairness.
* Control app: its interval fires and the backend's commands answer, which they do with a result or an error.

## 4. Proofs

TLAPS checks every proof to its leaves. Every safety property that a passing run checks is a theorem:
a run shows it on a small instance, the theorem for every value of the constants. The assumptions are
those named in the modules: ranges of constants, sets that are not empty, values outside a set. Two have content: the bound
of the counter in `HostSupervisor` exceeds the limits, and `QualityAssumption` says that the sets of bitrates
and frame rates have highest elements, as the inputs of a settings form do. A hypothesis that a theorem adds is
stated in it, and is given in the table.

| Theorems | State | Argument |
|---|---|---|
| `SupervisorMailbox_proofs`: `TypeCorrect` | `MailboxTypeOK` | with `CommandInHand`: a process that needs a command has one |
| `AnswersTrue`, `AnswersOwn` | `AnswersAreTrue`; `AnswersAreOwn` is a theorem only, since one requester cannot break it and two have the refinement | whatever status is in the file, in a buffer about to be written or in a process' hand is that of an execution under the id beside it (`TruthInv`); lost updates lose both together. When ids differ (`ClockSteps \subseteq {1}`), `IdInv` says that an id was drawn once |
| `NothingLost` | `CommandKept`, for one requester | until it is executed, the command is in the file or on its way there (`SoleInv`), whoever launches daemons and whatever is killed |
| `ReplaysPaid` | `ReplaysNeedDeaths`, with `~DirectSpawn` | the task keeps one daemon (`OneInv`), and a command that is in the file while nobody works on it lost the daemon that did (`ReplayInv`) |
| `Implementation` | `ImplementsRpc`, with `~DirectSpawn` | each step is a step of `CommandRpc` or a stutter, under the invariants of the rows above: one daemon works at a time, begins a command again only after a death (`ReplayInv`), and a shutdown that is skipped has no ticket |
| `HostSupervisor_proofs`: `TypeCorrect`, `ParsecComesBack`, `BudgetBounds` | `TypeOK`, `ParsecRestored`, `BudgetKept` | a relief belongs to the steps of a start; while the window is open, `restarts + runtimes` are at most the attempts counted, and a recovery goes ahead only while those are within its own limit. Escalated restarts and `RestartRuntime` are outside the bound, as they are outside the code's |
| `NoChildOutlives` | | the job object takes the children at every end of the daemon, whatever a failed step had spawned (`ChildrenInv`) |
| `WorkIsOnRecord`, `StopsAreTrue` | | a job is on record from its first step to its last (`RecordInv`): only a failed phase is corrected by the service, and a job that works has none; a stop ends with its one step |
| `WebServer_proofs`: `TypeCorrect`, `ChildrenReachable`, `SingleStreamer` | `TypeOK`, `NoOrphans`, `OneStreamer` | `TypeOK /\ NoOrphans` is inductive: a task takes a child only when it has none left to kill |
| `DesktopLeftAsFound` | `DesktopComesBack`, with `~Overlap` | sessions in a row (`OneAtATime`): the desktop is the one found until the session's prepare, and from then on the session has a restore to run, runs it, or has run it. With `Overlap`, `stream_desktop` refutes it |
| `NobodyWaitsForWaiting` | of `NativeRequestsEnd` | nobody has a lock that another writes under (`LocksApart`); the two requests that ask for a lock while they hold one ask for locks that only the other of the two, or nobody, keeps |
| `CompletionStays` | | a launch keeps its locks until its session is in all the tables, so no ticket and no entry for it can come before its own (`LaunchesFirst`) |
| `SessionsStayEnded`, `ServerTypesHold` | `EndedStaysEnded`, `ServerTypeOK` | a request that will write a ticket of a session that has ended is one that looked before (`WritersKnown`); two requests do not launch one session (`LaunchesApart`) |
| `ViewerRecovery_proofs`: `TypeCorrect`, `OneOnTheWire`, `BudgetHolds` | `RecoveryTypeOK`, `OneLiveStream`, `AutoReconnectBudget` | `reconnectStream` is without a stream exactly while it makes the next one; the count that an armed timer captured is still the storage's; a stream being set up has made no attempt |
| `StartsStayGuarded` | of `StartResolves` | a step property: every report either leaves the guards or reconnects the page (`ReportGuards`) |
| `Progress_proofs`: `StorageTyped`, `NothingForgotten`, `FileHasOwners`, `FileKept` | `StorageTypeOK`, `NothingUnsaved`, `OwnersSaved`, both as `FileInStep` | below |
| `SavesAdvance`, `RestartKnowsOwners` | | below |
| `WatchTyped`, `InputLocked` | `WatchTypeOK`, `InputLockInStep` | an owner's lock is the owner's work, and a transition that is over has no check left that would put it back to work without its lock (`RoomInv`) |
| `LocksHaveKeys` | of `LocksEnd` | a transition waits for its reconnect or has a check, and a warm-up that began before a transition is the replaced stream's (`CheckInv`) |
| `PeerTyped`, `NoneForgotten` | `PeerTypeOK`, `HeldCandidatesHaveTimer` | inductive with the types: whoever puts a candidate aside arms the timer of its list in the same turn, and a timer that fires or is cleared empties its list, into the sequence of calls of one coroutine or away; a candidate that is put aside a second time meets the first again |
| `FailureIsSeen` | of `FailedPathIsReported` | once connected, a lost path has its recovery timer or an evaluation: a change of state arms it, the timer hands over to an evaluation, and an evaluation reports or arms it again (`PathInv`) |
| `OverlayHasHandler` | of `PageSettles` | inductive with the types (`OverlayInv`), for any number of commands at once |
| `QualityBounded`, `DialogFollows`, `ProgressTyped` | `QualityInBounds`, `DialogInStep`, `ProgressTypeOK` | bitrates are multiples of 500 between the floor and the ceiling; rounding is monotone, and idempotent on them. The app's dialog is inductive as it stands |
| `ClientInput_proofs`: `PointerSafe`, `CursorKept`, `PointersFollowed` | `NoStuckButton`, `GesturesEnd`, `CursorFollows`, `PointersInStep` | what is down and was not passed over is remembered as pressed, and a lock has passed everything over (`HoldOK`); what leads a gesture is tracked, and what is tracked is on the glass or ended unseen (`GestureOK`); what was sent and what waits add up to the movement, and what waits has a timer |
| `ControllersKept`, `NothingStaysPressed`, `PadsFollowed` | `ControllersInStep`, `NothingStuck`, `PadsInStep` | no controller has two slots, so by counting there is a free one. That needs `Cardinality(Pads) <= VirtualId`: number 15 is the virtual controller's. What a button holds, a face, a sequence or a turbo holds for it (`FaceInv`) |
| `TemplatesStay` | `TemplatesKept` | a storage with at most one favorite is what `loadUserTemplateStore` makes of it (`StoreIsThere`), so every operation works on what is there |
| `ClientPages_proofs`: `BannerKept`, `ModalsKept`, `HistoryFollowed`, `HandleGoes`, `LayoutsFollow`, `PanelsFollow`, `HostsListed`, `PagesFollowed` | the seven parts of `PagesInStep`, and `PagesInStep` | below |
| `ClientMedia_proofs`: `SizesFollow` | `SizeFollows` | below |
| `CapturesEnd` | `CaptureEnds` | below |
| `SegmentsOrdered`, `MediaFollowed` | `SegmentsInOrder`, `MediaInStep` | the last of the segments given and waiting is one the decoder's next frame can follow (`EndsAt`), and a source buffer that replaced nothing has been given, or is about to be, its init segment (`Begun`); what the segments read back as is below |
| `ClientTyped` | `ClientTypeOK` | the fifteen components' invariants together; a step of one leaves the others alone |

**What liveness rests on.** A property that says what must happen needs two things: while it has not happened something is
under way that can make it happen, and what is under way goes on. The second is fairness, and TLC's. The first is an
invariant, or a property of steps, and the theorems whose state is "of" a property state it for every value of the constants: no lock of the native sessions is held in
a circle, no input is locked without something that may unlock it, no failed path is left unwatched, no overlay is
left by a handler that has ended, and no start loses its guard to what a replaced stream still does.

**Storage.** The properties are not inductive by themselves. `NothingUnsaved` speaks of a writer at rest; its
strengthening `FreshInv` says what is known at every step of the writer while nothing is signalled: rows that
were copied are still equal to the tables. Every change signals, so it need not be kept then. `OwnersSaved`
rests on the order of the locks: store locks the users first and keeps that lock while it
locks the hosts, so the users it copies are all the owners the hosts it copies can have (`LockInv`,
`OwnerInv`). Requests are shown to be of one of two shapes, `Quiet` and `Changing`, and the invariant is shown
once for each shape. That a save never takes the file back (`SavesAdvance`) orders what there is of a row: the file's version, store's copy
of it and the table's are numbered upwards (`AgeInv`). The copy may not have the row, so the file and the table are
ordered by themselves; ids that are given again and crashes, which take the tables back to the file, keep the order.

**Pages.** What a page shows may be out of date while something is under way that will put it right, so each
invariant counts what is under way. The banner: some fetch that is not yet answered will look at the role again. The
modals: the call that waits is the one the next abort will end. The start page: launches made and fetches that wait
for their answer add up. The handle: it has a timer of its own or something that keeps it. The panels: a card is shown
exactly when its panel is open, after each of the refreshes that end every handler. The host list: while no answer that names the hosts is on its way, the
tiles are the server's hosts, save for those whose change is made and not shown yet. Its proof ranks tiles by counting, since no prover
can instantiate a theorem with an operator parameter, and takes least elements from well-founded sets (`LeastNatural`): so a
fact about every number is reached without the induction theorems.

**Size.** A page out of step has something under way that looks again: a timer, a reconnect, a request or an answer
(`WillLook`). That is inductive only with what keeps looking possible: the page that follows its window is armed, about to be, or
waiting (`FollowsWindow`), and the page with a size of its own ends, when the last answer has come, with the size
saved (`KeepsSize`). The proof showed what four changes of the window or the panel reach and the run's two do not: device match chosen
for a stream that already has the window's size while another request waits, and a size of the panel that
overlaps what is under way. Both are now among the history's exceptions (`Overlaps`), and an answer that times out with
another request queued behind is not.

**Microphone.** `MicInv` says of each live track, other than the strays, that it is the one its client holds, that this
client is the page's or is being thrown away, and that the client has its peer unless a close under way is about to stop
the track. At four calls, which the run does not reach, the session number a call began with can come back, so that it captures
behind a close that did not stop it: the proof moved the mark of a stray from the close to the capture.

**Segments.** `SegmentsReadBack` finds the boxes of a segment by their lengths, as a browser does. The proof computes the place
of each box by joining the writers' sequences: a box is as long as its length field says (`putU64` moves sixteen bytes, in every box and
length alike), boxes follow one another, and the offset of the frame is the size of the box that holds it. A
name comes with its number of letters, since the provers know nothing of the length of a string. Then every segment that waits is one a writer
made of the numbers it was given (`SourceInvReads`).

Checked by TLC only:

* every liveness property (`HealthRestored`, `ServiceStops`, `SessionEnds`, `ReconnectEnds`, `EventuallySaved` and the others that
  say what must happen): liveness under fairness and `ENABLED` are out of the prover's reach. Of those marked "of" above the
  table has the safety part only.

## 5. Findings

1. *The desktop may not come back* (`stream_desktop`, `api/stream.rs:4832`). A cleanup skips its restore once
   a newer session has begun; a newer session that returns early restores nothing. The comment at 4746
   promises the restore on every path.
2. *An old restore undoes a new stream* (`stream_old_restore`, `Program.cs:5804` of the display helper). The
   restore checks its token when it starts and acts seconds later. The comment at `api/stream.rs:4747` says
   superseding prevents this.
3. *A dead streamer keeps its websocket* (`stream_dead_streamer`, `api/stream.rs:5961`). The reader waits for
   the pipe and for the body of the websocket, and the body waits for the client. The comment at 5996 says the
   websocket is closed when the streamer crashed.

4. *A custom frame rate is not sent* (`quality_fps`, `web/stream/index.ts:1549`). An apply that changes the frame
   rate and not the size asks for a resize that compares the size alone. The panel says at
   `web/stream.ts:23067` that the rate is sent.

### Known ways to lose track

What follows is what the code does. No text of the repository promises otherwise, so no run refutes
it; the models contain it, and properties either do not speak of it or name it as their exception.

*Mailbox.* A shutdown that finds no live daemon in the state file is told it succeeded, also when the daemon is
alive and the file was torn (`host_supervisor.rs` 1749: `Skip`). A daemon started directly beside the task's executes the same
command a second time, which is why the refinement is that of launches by the task alone (1762).

*Supervisor.* A command overwritten in the slot, or removed by `clear_command_file`, is lost (`host_supervisor.rs`
1993). A daemon killed during the relief leaves Parsec stopped (3489). A `RestartRuntime` is never
refused, since the arm above it matches first (2181). Exhaustion fails the command, which ends the daemon, which brings a start that resets the
budget (850). A web-server that hangs ends the tick with an error (4189). A tick writes back a state it read seconds
before (967).

*Sessions.* A cleanup that was current when it looked takes the watch of a session that began
meanwhile (`api/stream.rs` 3777), and a slow session's watch may outlive it until the next one preempts. A prepare that is killed after it
disconnected displays lets the retry capture the stream's layout (`Program.cs` 5311).

*Native sessions.* A launch keeps the tables of tokens and tickets while it asks for the lifecycles
(`app/mod.rs` 597-611), an invite keeps the lifecycles while it asks for the tickets (1333, 1371): each may wait for the
other until a client gives up, and meanwhile no native request that needs one of the three is answered (`Embrace`, named
in `NativeRequestsEnd`). A refresh, or a launch's own ticket, that looked before the session ended is written
after it (923, 745: `late`, named in `EndedStaysEnded`).

*Storage.* A failed write is not tried again; a crash between truncation and write leaves a file the server
refuses (`json/mod.rs` 212); names and first logins are checked under one lock and acted on under the next (272,
354); a host may be added for a user removed meanwhile (`app/user.rs` 326).

*Stream page.* A web socket that closes before ConnectionComplete disarms the guard timer and reports nothing
(`stream/index.ts` 1722: named in `StartResolves`). VideoFlowReady that overtakes the connectionComplete event leaves the warm-up, and its
lock, waiting (`stream.ts` 3339: named in `LocksEnd`). After a frame rate downshift quality only
goes down (4722: named in `BitrateRestored`). Nobody watches a path whose ICE connected and failed before the connection state followed
(`webrtc.ts`: `Unwatched`). A resolution applied together with a bitrate is saved and not sent
(`stream/index.ts` 1443), and answers settle whichever request is in flight (1058: `missedSizes`).

*Input.* The lock of a transition and the pointer lock forget what is pressed without releasing it
(`input.ts` 308: `past.stray`), and a touch lifted under the lock keeps leading (1633: `past.ghosts`). A replaced
stream's input hears of no controller that is plugged in already (`stream.ts` 3184: `missedPads`). A button's action or
turbo setting that changes between press and release, and a sequence cancelled in mid step, leave a key
down (24956, 26300: `stale`).

*Panels.* The sidebar's Bridge, Debug and Labs buttons open what the refresh they end in closes (17770). Closing the
sidebar can leave the handle without a timer (`sidebar/index.ts` 977: `bar.left`).

*Microphone.* A call that goes on after the page threw its client away captures on, and a second one of the same number
overwrites a live track (`mic_sidecar.ts` 899: `strays`).

*Pages.* A removal that is answered after a fetch took the tile removes another host's (`host/list.ts` 61), and an
addition answered after a fetch shows the host twice (`missed`). A launch intent fetched twice is carried out twice
(`web/index.ts` 318: `raced`); Back to the tab's first entry does nothing (55: `off`). An NDJSON reader drops what follows the second line
break of a read (`api.ts` 245).

*Media.* `putU64` moves sixteen bytes for eight (`buffer.ts` 151): the box with the frame's time is longer than the format says, consistently,
which `SegmentsReadBack` shows; a decoder that replaces a source buffer gives it frames of the old one (`seen.stale`).

*Control app.* `sync_host_binding` writes back the activation it read before a call of up to 15 seconds
(`host_control.rs` 1049); two refreshes that overlap can do so in turn without end.

## 6. Not modelled, and the plan

The order was: the mailbox first, since everything the host does to itself passes through it; then what passes
through it; then sessions, where most tasks meet; then storage. Next, in this order:

1. `SharedPlayer2`: bridge and joiner over reconnects, with sessions abstracted to connections. Property: a
   cleanup removes only its own.
2. Extensions of `StreamSessions`: preparing the display ahead of a session, resize, project-display, the
   native client's close call (`api/stream.rs` 2412-2530, 4675-4732; `api/android_native.rs` 296, 1560), and recovery
   before a stream (2091, 3392), which composes it with `HostSupervisor`.
3. `StreamConnection`: start, stop and termination in the streamer, over a pipe. Abstract specification: a
   connection that starts once and stops once. Then the transports' negotiation with `web/stream/transport`.
4. `KeepAwakeHeal`: the agent's self-healing beside the supervisor's (`HostKeepAwakeAgent/Program.cs` ~431),
   and the route of frpc (`host_supervisor.rs` 3204), changed by the service and by the daemon.
5. The shared pair store's repair (`app/mod.rs`), release coordinator, and the installer's rollback.

Theorems still worth proving: what the steps of a client may never do (the action properties inside
the other liveness arguments, such as that a retry counter only falls when its window closes); `NothingLost` for several requesters, with what a
competitor may overwrite as the exception.

Left out of the web client: codec and pipeline choice, the websocket transport, the statistics, keyboard translation
and the screen keyboard, the contents of the decks, the form of the quality panel, the settings menu, the admin
page, the Android bridge, and the microphone code of `webrtc.ts` (378-906), which no page reaches. They translate or
show what the modelled parts decide.

Small parts of modelled components that are left out: the second
warm-up of an in-place restart (`StreamWatch`); the resize that the host does not answer because its setup is the same
(`streamer/src/main.rs` 2558), which is one of the requests that come to nothing (`HostFails`); the empty state
that the virtual pad sends just before its removal (`input.ts` 1841), of which the removal leaves nothing; the retries
of `ensurePreferredMicrophoneState` (`stream.ts` 6934), which nothing but its own timers calls.

Not planned: presentation in the web client and the control app, Windows calls of the display helper,
sidecars, packaging, configuration and vendored code, which keep no state that several actors share.

--------------------------- MODULE SupervisorMailbox ---------------------------
(***************************************************************************)
(* The command mailbox of the host supervisor (src/bin/host_supervisor.rs).*)
(*                                                                         *)
(* The command line tool and the Windows service ask the user-session      *)
(* daemon for an operation through two files that nobody locks:            *)
(*   - host_supervisor_command.json holds at most one command;             *)
(*   - host_supervisor_state.json holds the daemon's pid and the id and    *)
(*     the status of the last command, and every process updates it by     *)
(*     reading it whole, changing some fields and writing it whole.        *)
(* fs::write truncates and then fills: a reader may find either file empty,*)
(* and two overlapping writers may leave the tail of the longer text behind*)
(* the shorter one.  read_state then falls back to the default state, and  *)
(* read_command_file fails and takes the daemon down with it.              *)
(***************************************************************************)
EXTENDS Integers, FiniteSets

CONSTANTS
  Requesters,   \* processes inside request_(user_)daemon_operation
  Daemons,      \* process ids a run-daemon process may be given (reusable)
  NoPid,        \* daemon_pid: None
  Ops,          \* operations a requester may ask for
  ClockSteps,   \* by how many ms now_unix_ms may advance between two ids
  TaskPolicy,   \* MultipleInstancesPolicy of the scheduled task
  DirectSpawn,  \* may a requester fall back on ensure_daemon_running?
  Hasty,        \* may the 90 s run out on a command that is being worked on?
  MaxId,        \* bound: largest command id
  MaxDeaths     \* bound: number of processes killed from outside

ASSUME MailboxAssumption ==
  /\ NoPid \notin Requesters \cup Daemons
  /\ Requesters \cap Daemons = {}
  /\ Ops \subseteq {"bundle", "shutdown"}
  /\ ClockSteps \subseteq {0, 1}
  /\ TaskPolicy \in {"StopExisting", "IgnoreNew"}
  /\ DirectSpawn \in BOOLEAN /\ Hasty \in BOOLEAN
  /\ MaxId \in Nat \ {0} /\ MaxDeaths \in Nat
  /\ IsFiniteSet(Daemons)

VARIABLES
  stateFile,  \* host_supervisor_state.json
  cmdFile,    \* text of host_supervisor_command.json
  writers,    \* requesters that have that very file open for writing
  at,         \* the step each process is at
  io,         \* how far the step's rewriting of a file has come
  buf,        \* the state each process is about to write
  cmd,        \* requester: its command; daemon: the command it works on
  result,     \* what each requester has been told
  outcome,    \* how the daemon's current command ended
  via,        \* daemon: how it was launched; requester: how it launches one
  launching,  \* launches of a daemon under way: <<how, on whose behalf>>
  clock,      \* now_unix_ms
  deaths,     \* processes killed so far
  starts,     \* history: how often each command was started
  executed    \* history: pairs <<command, "ok" or "error">> of what was done

cmdSlot   == <<cmdFile, writers>>
requests  == <<result, clock>>
history   == <<starts, executed>>
mailboxVars == <<stateFile, cmdFile, writers, at, io, buf, cmd, result, outcome, via,
          launching, clock, deaths, starts, executed>>

Processes == Requesters \cup Daemons

-----------------------------------------------------------------------------
(* Contents of the files *)

Ids      == 0 .. MaxId
Outcomes == {"ok", "error"}
Statuses == {"none", "queued", "running"} \cup Outcomes
Commands == [id : Ids, op : Ops, from : Requesters]

\* SupervisorState, reduced to the fields the protocol reads.
States == [pid : Daemons \cup {NoPid}, id : Ids, status : Statuses]
DefaultState == [pid |-> NoPid, id |-> 0, status |-> "none"]

\* A text that is not JSON is a record of its own: the empty file between
\* truncation and fill (or a file never written), and a garbled one.
EmptyText == [text |-> "empty"]
Garbled   == [text |-> "garbled"]
BadTexts  == {EmptyText, Garbled}
NoCmd     == [text |-> "no file"]

\* read_state(paths).unwrap_or_default()
ReadState == IF stateFile \in BadTexts THEN DefaultState ELSE stateFile

\* What a file holds once text is written into it: the tail of a longer text
\* written meanwhile survives.
Overwrite(file, text) == IF file = EmptyText THEN {text} ELSE {text, Garbled}

-----------------------------------------------------------------------------
(* Processes *)

RequesterSteps == {"idle", "touch", "ensure", "wipe", "spawn", "ready", "queue",
                   "file", "wait", "done"}
DaemonSteps == {"off", "takeover", "register", "poll", "start", "run",
                "progress", "finish", "clear", "unregister"}

\* Steps that rewrite the state file, and the step that follows each.
NextStep == [touch |-> "ensure", queue |-> "file", register |-> "poll",
             start |-> "run", progress |-> "run", finish |-> "clear",
             unregister |-> "off"]

\* Mutant of Updated: the command is reported done when it is started.
UpdatedEarly(p, s) ==
  CASE at[p] \in {"touch", "progress"} -> s
    [] at[p] = "queue"      -> [s EXCEPT !.id = cmd[p].id, !.status = "queued"]
    [] at[p] = "register"   -> [s EXCEPT !.pid = p]
    [] at[p] \in {"start", "finish"} -> [pid |-> p, id |-> cmd[p].id, status |-> outcome[p]]
    [] at[p] = "unregister" -> [s EXCEPT !.pid = NoPid]

\* The state process p writes at its step, s being what it has just read.
Updated(p, s) ==
  CASE at[p] \in {"touch", "progress"} -> s
    [] at[p] = "queue"      -> [s EXCEPT !.id = cmd[p].id, !.status = "queued"]
    [] at[p] = "register"   -> [s EXCEPT !.pid = p]
    [] at[p] = "start"      -> [pid |-> p, id |-> cmd[p].id, status |-> "running"]
    [] at[p] = "finish"     -> [pid |-> p, id |-> cmd[p].id, status |-> outcome[p]]
    [] at[p] = "unregister" -> [s EXCEPT !.pid = NoPid]

Live(p) == p \in Daemons /\ at[p] # "off"

\* daemon_is_running: the state file names a process that exists.
DaemonIsRunning == stateFile \notin BadTexts /\ Live(stateFile.pid)

MailboxInit ==
  /\ stateFile = EmptyText
  /\ cmdFile = NoCmd
  /\ writers = {}
  /\ at = [p \in Processes |-> IF p \in Requesters THEN "idle" ELSE "off"]
  /\ io = [p \in Processes |-> "none"]
  /\ buf = [p \in Processes |-> DefaultState]
  /\ cmd = [p \in Processes |-> NoCmd]
  /\ result = [r \in Requesters |-> "none"]
  /\ outcome = [d \in Daemons |-> "ok"]
  /\ via = [p \in Processes |-> "task"]
  /\ launching = {}
  /\ clock = 1
  /\ deaths = 0
  /\ starts = [c \in Commands |-> 0]
  /\ executed = {}

Goto(p, s) == at' = [at EXCEPT ![p] = s]

-----------------------------------------------------------------------------
(* Read-modify-write of the state file, by any process and in three steps *)

\* read_state, and the changes this step makes to what it returned.
Load(p) ==
  /\ at[p] \in DOMAIN NextStep /\ io[p] = "none"
  /\ buf' = [buf EXCEPT ![p] = Updated(p, ReadState)]
  /\ io' = [io EXCEPT ![p] = "loaded"]
  /\ UNCHANGED <<stateFile, cmdSlot, at, cmd, outcome, via, launching, deaths, requests, history>>

\* write_state, first half: fs::write truncates the file.
Truncate(p) ==
  /\ io[p] = "loaded"
  /\ stateFile' = EmptyText
  /\ io' = [io EXCEPT ![p] = "open"]
  /\ UNCHANGED <<cmdSlot, at, buf, cmd, outcome, via, launching, deaths, requests, history>>

\* write_state, second half: the new text is there.
Fill(p) ==
  /\ at[p] \in DOMAIN NextStep /\ io[p] = "open"
  /\ stateFile' \in Overwrite(stateFile, buf[p])
  /\ Goto(p, NextStep[at[p]])
  /\ io' = [io EXCEPT ![p] = "none"]
  /\ buf' = [buf EXCEPT ![p] = DefaultState]
  /\ starts' = IF at[p] = "start" THEN [starts EXCEPT ![cmd[p]] = @ + 1] ELSE starts
  /\ UNCHANGED <<cmdSlot, cmd, outcome, via, launching, deaths, requests, executed>>

-----------------------------------------------------------------------------
(* Processes that appear and disappear *)

\* The processes of D are gone and process new, if any, is at its first step;
\* what a dead process had half written stays as it is.
Replace(D, new, how) ==
  /\ deaths + Cardinality(D) <= MaxDeaths
  /\ deaths' = deaths + Cardinality(D)
  /\ at' = [p \in Processes |-> IF p = new THEN "takeover"
                                ELSE IF p \in D THEN "off" ELSE at[p]]
  /\ io' = [p \in Processes |-> IF p \in D THEN "none" ELSE io[p]]
  /\ buf' = [p \in Processes |-> IF p \in D THEN DefaultState ELSE buf[p]]
  /\ cmd' = [p \in Processes |-> IF p \in D THEN NoCmd ELSE cmd[p]]
  /\ via' = [p \in Processes |-> IF p = new THEN how ELSE via[p]]

TaskDaemons == {d \in Daemons : Live(d) /\ via[d] = "task"}

\* A launch under way comes to a process d, as yet unused.  When the scheduled
\* task finds its instance running, StopExisting replaces it and IgnoreNew
\* starts nothing.
Launch(d) ==
  /\ ~Live(d)
  /\ \E l \in launching :
       /\ launching' = launching \ {l}
       /\ IF l[1] = "task" /\ TaskPolicy = "IgnoreNew" /\ TaskDaemons # {}
          THEN UNCHANGED <<deaths, at, io, buf, cmd, via>>
          ELSE Replace(IF l[1] = "task" THEN TaskDaemons ELSE {}, d, l[1])
  /\ UNCHANGED <<stateFile, cmdSlot, outcome, requests, history>>

\* The task's own triggers: boot, logon, and restart after a failure.
TaskTrigger ==
  /\ launching' = launching \cup {<<"task", NoPid>>}
  /\ UNCHANGED <<stateFile, cmdSlot, at, io, buf, cmd, outcome, via, deaths,
                 requests, history>>

\* A daemon is killed from outside, at any point of what it was doing.
Crash(d) ==
  /\ Live(d)
  /\ Replace({d}, NoPid, "task")
  /\ UNCHANGED <<stateFile, cmdSlot, outcome, launching, requests, history>>

\* A requester is killed, perhaps with the command file half written.
Abandon(r) ==
  /\ at[r] \notin {"idle", "done"}
  /\ deaths < MaxDeaths
  /\ deaths' = deaths + 1
  /\ Goto(r, "done")
  /\ io' = [io EXCEPT ![r] = "none"]
  /\ buf' = [buf EXCEPT ![r] = DefaultState]
  /\ writers' = writers \ {r}
  /\ UNCHANGED <<stateFile, cmdFile, cmd, outcome, via, launching, requests, history>>

-----------------------------------------------------------------------------
(* request_daemon_operation and request_user_daemon_operation *)

\* What none of their steps changes, the rewriting of the state file apart.
Passive == UNCHANGED <<stateFile, buf, outcome, deaths, history>>

Tell(r, answer) ==
  /\ Goto(r, "done")
  /\ result' = [result EXCEPT ![r] = answer]

\* The operation is asked for: by the watchdog, which first counts its trigger
\* in the state file, or by the command line and the service's other ticks. Only
\* the command line asks for a shutdown.
Ask(r) ==
  /\ at[r] = "idle"
  /\ \E op \in Ops, s \in {"touch", "ensure"} :
       /\ op = "shutdown" => s = "ensure"
       /\ cmd' = [cmd EXCEPT ![r] = [id |-> 0, op |-> op, from |-> r]]
       /\ Goto(r, s)
  /\ Passive /\ UNCHANGED <<cmdSlot, io, via, launching, requests>>

\* A daemon runs: the command is about to be queued, with the time as its id.
Stamp(r) ==
  /\ DaemonIsRunning
  /\ \E step \in ClockSteps :
       /\ clock + step <= MaxId
       /\ clock' = clock + step
       /\ cmd' = [cmd EXCEPT ![r].id = clock + step]
  /\ Goto(r, "queue")
  /\ UNCHANGED <<via, result>>

\* ensure_(user_session_)daemon_running; a shutdown that sees no daemon, because
\* there is none or because the state file is torn, returns Ok(()) at once.
EnsureDaemon(r) ==
  /\ at[r] = "ensure"
  /\ \/ Stamp(r)
     \/ /\ ~DaemonIsRunning /\ cmd[r].op # "shutdown"
        /\ Goto(r, "wipe")
        /\ UNCHANGED <<cmd, via, requests>>
     \/ /\ ~DaemonIsRunning /\ cmd[r].op = "shutdown"
        /\ Tell(r, "skipped")
        /\ UNCHANGED <<cmd, via, clock>>
  /\ Passive /\ UNCHANGED <<cmdSlot, io, launching>>

\* clear_command_file, before a daemon is launched.
Wipe(r) ==
  /\ at[r] = "wipe"
  /\ cmdFile' = NoCmd /\ writers' = {}
  /\ Goto(r, "spawn")
  /\ Passive /\ UNCHANGED <<io, cmd, via, launching, requests>>

\* The launch failed or nobody registered in time: once more without the task
\* if the caller may, else an error before any command was queued.
LaunchFailed(r) ==
  /\ UNCHANGED <<cmd, clock>>
  /\ IF DirectSpawn /\ via[r] = "task"
     THEN /\ Goto(r, "ensure")
          /\ via' = [via EXCEPT ![r] = "direct"]
          /\ UNCHANGED result
     ELSE Tell(r, "unavailable") /\ UNCHANGED via

\* schtasks /Run, or the supervisor's own executable with run-daemon.
Spawn(r) ==
  /\ at[r] = "spawn"
  /\ \/ /\ launching' = launching \cup {<<via[r], r>>}
        /\ Goto(r, "ready")
        /\ UNCHANGED <<cmd, via, requests>>
     \/ LaunchFailed(r) /\ UNCHANGED launching
  /\ Passive /\ UNCHANGED <<cmdSlot, io>>

\* wait_for_daemon_ready
AwaitReady(r) ==
  /\ at[r] = "ready"
  /\ Stamp(r) \/ (~DaemonIsRunning /\ LaunchFailed(r))
  /\ Passive /\ UNCHANGED <<cmdSlot, io, launching>>

\* write_command_file, first half: the file is created or truncated.
OpenCommandFile(r) ==
  /\ at[r] = "file" /\ io[r] = "none"
  /\ cmdFile' = EmptyText
  /\ writers' = writers \cup {r}
  /\ io' = [io EXCEPT ![r] = "open"]
  /\ Passive /\ UNCHANGED <<at, cmd, via, launching, requests>>

\* write_command_file, second half: in vain if the file was removed meanwhile.
FillCommandFile(r) ==
  /\ at[r] = "file" /\ io[r] = "open"
  /\ cmdFile' \in IF r \in writers THEN Overwrite(cmdFile, cmd[r]) ELSE {cmdFile}
  /\ writers' = writers \ {r}
  /\ io' = [io EXCEPT ![r] = "none"]
  /\ Goto(r, "wait")
  /\ Passive /\ UNCHANGED <<cmd, via, launching, requests>>

\* Mutant of HasAnswer: any final status is taken for the answer.
HasAnyAnswer(r) == r \in Requesters /\ ReadState.status \in Outcomes

\* The state file shows a final status under the id of r's command.
HasAnswer(r) == ReadState.id = cmd[r].id /\ ReadState.status \in Outcomes

\* wait_for_command_completion finds it.
Answered(r) ==
  /\ at[r] = "wait" /\ HasAnswer(r)
  /\ Tell(r, ReadState.status)
  /\ Passive /\ UNCHANGED <<cmdSlot, io, cmd, via, launching, clock>>

\* Some live daemon is working on the command or is going to read it.
InGoodHands(c) ==
  \E d \in Daemons :
    /\ Live(d)
    /\ cmd[d] = c \/ (cmdFile = c /\ at[d] \in {"takeover", "register", "poll"})

\* Mutant of TimedOut: the requester waits for ever.
NeverTimedOut(r) == at[r] = "nowhere"

\* wait_for_command_completion runs out of time.
TimedOut(r) ==
  /\ at[r] = "wait"
  /\ Hasty \/ ~(InGoodHands(cmd[r]) \/ HasAnswer(r))
  /\ Tell(r, "timeout")
  /\ Passive /\ UNCHANGED <<cmdSlot, io, cmd, via, launching, clock>>

-----------------------------------------------------------------------------
(* run_daemon *)

\* What no step of a daemon changes, the rewriting of the state file apart.
Aside == UNCHANGED <<stateFile, io, buf, launching, requests>>

\* run_daemon returns: the process ends.
Exit(d) ==
  /\ Goto(d, "off")
  /\ cmd' = [cmd EXCEPT ![d] = NoCmd]

\* take_over_existing_daemon: the registered process is killed, unless it is
\* this one or gone; the new daemon gives up when it cannot kill it.
TakeOver(d) ==
  /\ at[d] = "takeover"
  /\ LET old == ReadState.pid IN
     \/ /\ old = d \/ ~Live(old)
        /\ Goto(d, "register")
        /\ UNCHANGED <<io, buf, cmd, via, deaths>>
     \/ /\ old # d /\ Live(old)
        /\ Replace({old}, NoPid, "task")
     \/ /\ old # d /\ Live(old)
        /\ Exit(d)
        /\ UNCHANGED <<io, buf, via, deaths>>
  /\ UNCHANGED <<stateFile, cmdSlot, outcome, launching, requests, history>>

\* Mutant of Poll: the command is removed when it is read, not when it is done.
PollTaking(d) ==
  /\ at[d] = "poll" /\ cmdFile \notin BadTexts \cup {NoCmd}
  /\ Goto(d, "start") /\ cmd' = [cmd EXCEPT ![d] = cmdFile]
  /\ cmdFile' = NoCmd /\ writers' = {}
  /\ Aside /\ UNCHANGED <<outcome, via, deaths, history>>

\* read_command_file finds a command, or a text it cannot parse.
Poll(d) ==
  /\ at[d] = "poll" /\ cmdFile # NoCmd
  /\ IF cmdFile \in BadTexts
     THEN Exit(d)
     ELSE Goto(d, "start") /\ cmd' = [cmd EXCEPT ![d] = cmdFile]
  /\ Aside /\ UNCHANGED <<cmdSlot, outcome, via, deaths, history>>

\* The operation rewrites the state file while it runs.
Report(d) ==
  /\ at[d] = "run"
  /\ Goto(d, "progress")
  /\ Aside /\ UNCHANGED <<cmdSlot, cmd, outcome, via, deaths, history>>

\* The operation ends.
Run(d) ==
  /\ at[d] = "run"
  /\ \E o \in Outcomes :
       /\ outcome' = [outcome EXCEPT ![d] = o]
       /\ executed' = executed \cup {<<cmd[d], o>>}
  /\ Goto(d, "finish")
  /\ Aside /\ UNCHANGED <<cmdSlot, cmd, via, deaths, starts>>

\* Mutant of Clear: the command stays in the file.
ClearNothing(d) ==
  /\ at[d] = "clear"
  /\ Goto(d, "poll")
  /\ cmd' = [cmd EXCEPT ![d] = NoCmd]
  /\ Aside /\ UNCHANGED <<cmdSlot, outcome, via, deaths, history>>

\* clear_command_file, whatever the file holds by now; an error of the
\* operation then ends the daemon.
Clear(d) ==
  /\ at[d] = "clear"
  /\ cmdFile' = NoCmd /\ writers' = {}
  /\ IF outcome[d] = "error" THEN Goto(d, "off")
     ELSE Goto(d, IF cmd[d].op = "shutdown" THEN "unregister" ELSE "poll")
  /\ cmd' = [cmd EXCEPT ![d] = NoCmd]
  /\ outcome' = [outcome EXCEPT ![d] = "ok"]
  /\ Aside /\ UNCHANGED <<via, deaths, history>>

-----------------------------------------------------------------------------
RequesterNext(r) ==
  \/ Ask(r) \/ EnsureDaemon(r) \/ Wipe(r) \/ Spawn(r) \/ AwaitReady(r)
  \/ OpenCommandFile(r) \/ FillCommandFile(r) \/ Answered(r) \/ TimedOut(r)
  \/ Abandon(r)

DaemonNext(d) ==
  \/ Launch(d) \/ TakeOver(d) \/ Poll(d) \/ Report(d) \/ Run(d) \/ Clear(d)
  \/ Crash(d)

MailboxNext ==
  \/ \E p \in Processes : Load(p) \/ Truncate(p) \/ Fill(p)
  \/ \E r \in Requesters : RequesterNext(r)
  \/ \E d \in Daemons : DaemonNext(d)
  \/ TaskTrigger

MailboxSpec == MailboxInit /\ [][MailboxNext]_mailboxVars

-----------------------------------------------------------------------------
(* Fairness: the processes run, the task restarts a daemon that failed (the  *)
(* task is registered with RestartOnFailure), operations end.                *)

MailboxRequesterSteps(r) ==
  \/ EnsureDaemon(r) \/ Wipe(r) \/ Spawn(r) \/ AwaitReady(r)
  \/ OpenCommandFile(r) \/ FillCommandFile(r)
  \/ Answered(r) \/ TimedOut(r)

MailboxFairness ==
  /\ \A p \in Processes : WF_mailboxVars(Load(p) \/ Truncate(p) \/ Fill(p))
  /\ \A r \in Requesters : WF_mailboxVars(MailboxRequesterSteps(r))
  /\ \A d \in Daemons : WF_mailboxVars(TakeOver(d)) /\ WF_mailboxVars(Poll(d))
                        /\ SF_mailboxVars(Run(d)) /\ WF_mailboxVars(Clear(d))
  /\ WF_mailboxVars((\A d \in Daemons : ~Live(d)) /\ TaskTrigger)
  /\ WF_mailboxVars(\E d \in Daemons : (\A e \in Daemons : ~Live(e)) /\ Launch(d))

FairMailboxSpec == MailboxSpec /\ MailboxFairness

-----------------------------------------------------------------------------
(* Properties *)

MailboxTypeOK ==
  /\ stateFile \in States \cup BadTexts
  /\ cmdFile \in Commands \cup BadTexts \cup {NoCmd}
  /\ writers \subseteq Requesters
  /\ at \in [Processes -> RequesterSteps \cup DaemonSteps]
  /\ \A r \in Requesters : at[r] \in RequesterSteps
  /\ \A d \in Daemons : at[d] \in DaemonSteps
  /\ io \in [Processes -> {"none", "loaded", "open"}]
  /\ buf \in [Processes -> States]
  /\ cmd \in [Processes -> Commands \cup {NoCmd}]
  /\ result \in [Requesters -> Outcomes \cup {"none", "skipped", "unavailable", "timeout"}]
  /\ outcome \in [Daemons -> Outcomes]
  /\ via \in [Processes -> {"task", "direct"}]
  /\ launching \subseteq {"task", "direct"} \X (Requesters \cup {NoPid})
  /\ clock \in Ids
  /\ deaths \in 0 .. MaxDeaths
  /\ starts \in [Commands -> Nat]
  /\ executed \subseteq Commands \X Outcomes

\* A requester that is told its command succeeded or failed is told what some
\* execution under that id came to, whatever raced on the files.
AnswersAreTrue ==
  \A r \in Requesters :
    result[r] \in Outcomes =>
      \E e \in executed : e[1].id = cmd[r].id /\ e[2] = result[r]

\* When no two requests fall into the same millisecond, the execution reported
\* is that of the requester's own command. (ImplementsRpc says as much of any
\* two requests with different ids.)
AnswersAreOwn ==
  \A r \in Requesters :
    result[r] \in Outcomes => <<cmd[r], result[r]>> \in executed

\* As long as only the scheduled task launches daemons, a command is started
\* once more at most for each process that was killed.
ReplaysNeedDeaths == \A c \in Commands : starts[c] <= 1 + deaths

\* A command that nobody competes with is never lost: until it has been
\* executed it is in the file, or in the hands of a daemon that still runs.
CommandKept ==
  \A r \in Requesters :
    at[r] = "wait" =>
      \/ cmdFile = cmd[r]
      \/ \E d \in Daemons : Live(d) /\ cmd[d] = cmd[r]
      \/ \E o \in Outcomes : <<cmd[r], o>> \in executed

\* It is executed in the end, even when its requester gave up, its daemon died
\* or the daemon choked on a half written file.
CommandExecuted ==
  \A r \in Requesters :
    at[r] = "wait" ~> \E o \in Outcomes : <<cmd[r], o>> \in executed

\* Every request ends, with an answer or without.
RequestEnds == \A r \in Requesters : <>[](at[r] \in {"idle", "done"})

-----------------------------------------------------------------------------
(* Refinement *)

\* A requester's answer, seen from outside: a shutdown that was skipped is told
\* like one that was carried out.
Abstracted(answer) ==
  CASE answer = "timeout" -> "unknown"
    [] answer = "unavailable" -> "refused"
    [] answer = "skipped" -> "ok"
    [] OTHER -> answer

RpcWants == [r \in Requesters |-> IF at[r] = "idle" THEN "nothing" ELSE cmd[r].op]
RpcTicket == [r \in Requesters |-> IF at[r] = "idle" THEN 0 ELSE cmd[r].id]
RpcDoing == {cmd[d].from : d \in {e \in Daemons : at[e] \in {"run", "progress"}}}
RpcAttempts == [r \in Requesters |-> IF at[r] = "idle" THEN 0 ELSE starts[cmd[r]]]
RpcEffects == {<<e[1].from, e[2]>> : e \in executed}
RpcAnswer == [r \in Requesters |-> Abstracted(result[r])]

Rpc == INSTANCE CommandRpc WITH
  Operations <- Ops,      Tickets  <- Ids \ {0},
  wants      <- RpcWants, ticket   <- RpcTicket,
  doing      <- RpcDoing, attempts <- RpcAttempts, crashes <- deaths,
  effects    <- RpcEffects, answer <- RpcAnswer

\* As long as only the scheduled task launches daemons, the files, the polling
\* and the mortal daemons amount to the remote call of CommandRpc: operations
\* are performed one at a time, a second time only for a death, and answered
\* truthfully, the shutdown that finds nobody to shut down excepted.
ImplementsRpc == Rpc!RpcSpec

=============================================================================

----------------------------- MODULE HostSupervisor -----------------------------
(***************************************************************************)
(* Supervision of a Cloudgime host (src/bin/host_supervisor.rs).           *)
(*                                                                         *)
(* Three actors keep the bundle (Sunshine, web-server, frpc) running:      *)
(*   - the Windows service: watchdog and activation gate, every 5 s;       *)
(*   - the daemon in the user's session, which alone starts processes, one *)
(*     command at a time, and which exits when a command fails;            *)
(*   - operators: the command line, and the web-server that calls it.      *)
(* Service and operators hand commands to the daemon through one slot.     *)
(* SupervisorMailbox models that slot file by file; here a command is      *)
(* written, taken and answered in one step each, and the subject is what   *)
(* the commands do.  frpc.exe is taken to be installed.                    *)
(***************************************************************************)
EXTENDS Integers, FiniteSets

CONSTANTS
  MaxRuntime,     \* MAX_RUNTIME_RECOVERY_ATTEMPTS
  MaxBundle,      \* MAX_BUNDLE_RECOVERY_ATTEMPTS
  OperatorOps,    \* commands the operators send
  Activations,    \* activation states the control plane may put the host in
  WebFaults,      \* how a web-server process that stays may stop serving
  LowVram,        \* is video memory so short that Parsec is stopped first?
  SunshineInJob,  \* is Sunshine a child of the daemon instead of a service?
  MaxAttempts,    \* bound: attempts counted (the code saturates at 2^32)
  MaxFaults,      \* bound: failures of steps and processes, slow commands
  MaxRequests,    \* bound: commands of operators, starts and stops of the service
  MaxChanges      \* bound: changes of the activation state

Ops == {"StartBundle", "StopBundle", "RestartRuntime", "SoftRecover", "HardRecover",
        "FailureRuntime", "FailureBundle", "FailureNone", "Shutdown"}

ASSUME SupervisorAssumption ==
  /\ MaxRuntime \in Nat /\ MaxBundle \in Nat /\ MaxAttempts \in Nat
  /\ MaxAttempts > MaxRuntime /\ MaxAttempts > MaxBundle
  /\ OperatorOps \subseteq Ops
  /\ Activations \subseteq {"activated", "revoked", "unbound"}
  /\ WebFaults \subseteq {"refuses", "hangs"}
  /\ LowVram \in BOOLEAN /\ SunshineInJob \in BOOLEAN
  /\ MaxFaults \in Nat /\ MaxRequests \in Nat /\ MaxChanges \in Nat

VARIABLES
  activation,  \* activated; revoked or suspended; unbound: no host id or token
  service,     \* where the service is: "stopped", "idle", "act" or "wait"
  plan,        \* what it is about to do or waits for
  rested,      \* has the minimum interval since its last recovery passed?
  daemon,      \* where the daemon is: a state of its loop or a step of its job
  job,         \* the command the daemon works on, and how it goes
  slot,        \* host_supervisor_command.json
  last,        \* last_command_id (whose command) and last_command_status
  phase,       \* lifecycle_phase
  age,         \* of lifecycle_updated_at: 0 below 30 s, 1 up to 60 s, 2 above
  attempts,    \* failure_recovery_attempt_count
  window,      \* is the recovery window open?
  up,          \* parts of the bundle that run
  http,        \* how the web-server answers GET /
  parsec,      \* the Parsec service: "running" or "stopped"
  faults, requests, changes,  \* counters of the three bounds
  restarts,    \* history: bundle restarts asked for and granted in the window
  runtimes,    \* history: restarts of the runtime alone, likewise
  parsecLost   \* history: nobody is left to restart Parsec

lifecycle == <<phase, age>>
budget    == <<attempts, window, restarts, runtimes>>
bundle    == <<up, http>>
relief    == <<parsec, parsecLost>>
counters  == <<faults, requests, changes>>
vars == <<activation, service, plan, rested, daemon, job, slot, last, phase, age,
          attempts, window, up, http, parsec, faults, requests, changes,
          restarts, runtimes, parsecLost>>

Parts == {"sunshine", "web", "frpc"}

\* The job object takes the daemon's own children down with it.
Children == IF SunshineInJob THEN Parts ELSE {"web", "frpc"}

Idle == "none"      \* no plan, no operation
NoCommand == [op |-> Idle, from |-> "other"]
Commands == [op : Ops, from : {"service", "other"}]
NoJob == [op |-> Idle, from |-> "other", scope |-> "all", relieved |-> FALSE,
          outcome |-> "ok"]

\* RequiredProcesses: bundle_has_required_processes.
RequiredProcesses == up = Parts
Healthy == RequiredProcesses /\ http = "answers"
Locked == activation # "activated"

LoopStates == {"off", "idle", "selfwait", "resume"}
JobSteps == {"plan", "reuse", "stop", "relief", "sunshine", "restore", "web",
             "frpc", "done", "clear"}

Init ==
  /\ activation \in Activations
  /\ service = "stopped" /\ plan = Idle /\ rested = TRUE
  /\ daemon = "off" /\ job = NoJob /\ slot = NoCommand
  /\ last = [from |-> "other", status |-> "none"]
  /\ phase = "idle" /\ age = 2
  /\ attempts = 0 /\ window = FALSE /\ restarts = 0 /\ runtimes = 0
  /\ up = {} /\ http = "refuses"
  /\ parsec = "running" /\ parsecLost = FALSE
  /\ faults = 0 /\ requests = 0 /\ changes = 0

Fault == faults < MaxFaults /\ faults' = faults + 1

SetPhase(p) == phase' = p /\ age' = 0
SetUp(S) == up' = S /\ http' = IF "web" \in S THEN http ELSE "refuses"

\* record_command_queued and write_command_file
Send(op, from) ==
  /\ slot' = [op |-> op, from |-> from]
  /\ last' = [from |-> from, status |-> "queued"]

\* ensure_user_session_daemon_running: a missing daemon is launched.
Ensured == daemon' = IF daemon = "off" THEN "idle" ELSE daemon

-----------------------------------------------------------------------------
(* The service *)

ServiceGoto(s, p) == service' = s /\ plan' = p

\* run_service_main up to the first request
ServiceStart ==
  /\ service = "stopped" /\ requests < MaxRequests
  /\ requests' = requests + 1
  /\ rested' = TRUE
  /\ IF Locked THEN ServiceGoto("idle", Idle) ELSE ServiceGoto("act", "boot")
  /\ UNCHANGED <<activation, daemon, job, slot, last, lifecycle, budget, bundle,
                 relief, faults, changes>>

ServiceStop ==
  /\ service = "idle" /\ requests < MaxRequests
  /\ requests' = requests + 1
  /\ ServiceGoto("act", "stop")
  /\ UNCHANGED <<activation, rested, daemon, job, slot, last, lifecycle, budget,
                 bundle, relief, faults, changes>>

\* What a watchdog tick decides before it acts on it.
Decide(p) ==
  /\ service = "idle"
  /\ ServiceGoto("act", p)
  /\ UNCHANGED <<activation, rested, daemon, job, slot, last, lifecycle, budget,
                 bundle, relief, counters>>

SeeLocked == Locked /\ (daemon # "off" \/ up # {}) /\ Decide("gate")

SeeDaemonMissing == ~Locked /\ daemon = "off" /\ rested /\ Decide("start")

\* The probes of the bundle come to a result.  One that the web-server accepts
\* and leaves unanswered is an error, and with it the tick is over.
Probed == service = "idle" /\ ~Locked /\ daemon # "off" /\ http # "hangs"

\* Mutant of UnderWay: a start is under way for as long as its phase says so.
UnderWayForever == phase \in {"starting", "recovering", "stopping"}

\* A phase that changed less than a minute ago lets a start go on.
UnderWay == phase \in {"starting", "recovering", "stopping"} /\ age < 2

SeeUnhealthy == Probed /\ ~Healthy /\ ~UnderWay /\ rested /\ Decide("recover")

\* normalize_failed_phase_if_runtime_healthy
NormalizePhase ==
  /\ Probed /\ Healthy /\ phase = "failed"
  /\ SetPhase("ready")
  /\ UNCHANGED <<activation, service, plan, rested, daemon, job, slot, last,
                 budget, bundle, relief, counters>>

\* maybe_clear_stable_recovery_budget
ClearStableBudget ==
  /\ Probed /\ Healthy /\ phase = "ready" /\ age > 0 /\ attempts # 0
  /\ attempts' = 0 /\ window' = FALSE /\ restarts' = 0 /\ runtimes' = 0
  /\ UNCHANGED <<activation, service, plan, rested, daemon, job, slot, last,
                 lifecycle, bundle, relief, counters>>

OpOf == [boot |-> "StartBundle", start |-> "StartBundle", recover |-> "FailureBundle",
         gate |-> "StopBundle", stop |-> "StopBundle"]

\* request_user_daemon_operation
Request ==
  /\ service = "act" /\ (plan = "gate" => daemon # "off")
  /\ Send(OpOf[plan], "service")
  /\ Ensured
  /\ ServiceGoto("wait", plan)
  /\ UNCHANGED <<activation, rested, job, lifecycle, budget, bundle, relief, counters>>

\* Mutant of Conclude: once the daemon has been asked, the gate leaves it at that.
ConcludeTrusting(ok) ==
  /\ CASE plan = "stop" \/ (plan = "boot" /\ ~ok) -> ServiceGoto("stopped", Idle)
       [] OTHER -> ServiceGoto("idle", Idle)
  /\ rested' = (rested /\ ~(ok /\ plan \in {"start", "recover"}))
  /\ UNCHANGED <<activation, daemon, lifecycle, budget, bundle, relief, requests, changes>>

\* What the service does with the result of its request.
Conclude(ok) ==
  /\ CASE plan = "stop" \/ (plan = "boot" /\ ~ok) -> ServiceGoto("stopped", Idle)
       [] OTHER -> ServiceGoto("idle", Idle)
  /\ rested' = (rested /\ ~(ok /\ plan \in {"start", "recover"}))
  /\ IF plan = "gate" THEN SetUp({}) ELSE UNCHANGED bundle
  /\ UNCHANGED <<activation, daemon, lifecycle, budget, relief, requests, changes>>

\* The locked bundle has no daemon: stop_bundle_processes at once.
StopDirectly ==
  /\ service = "act" /\ plan = "gate" /\ daemon = "off"
  /\ Conclude(FALSE)
  /\ UNCHANGED <<job, slot, last, faults>>

\* The scheduled task does not start the daemon.
LaunchFails ==
  /\ service = "act" /\ daemon = "off" /\ plan # "gate"
  /\ Fault
  /\ slot' = NoCommand
  /\ Conclude(FALSE)
  /\ UNCHANGED <<job, last>>

IsAnswered == last.from = "service" /\ last.status \in {"ok", "error"}

Answered ==
  /\ service = "wait" /\ IsAnswered
  /\ Conclude(last.status = "ok")
  /\ UNCHANGED <<job, slot, last, faults>>

\* A request that was lost is given up after 90 s; so is one that is only slow,
\* which the daemon will still carry out for nobody.
Pending == \/ slot.from = "service" /\ daemon # "off"
           \/ job.from = "service"

\* Mutant of TimedOut: the request is waited for without a limit.
NeverTimedOut == FALSE /\ UNCHANGED vars

TimedOut ==
  /\ service = "wait" /\ ~IsAnswered
  /\ IF Pending THEN Fault ELSE UNCHANGED faults
  /\ slot' = [slot EXCEPT !.from = "other"]
  /\ job' = [job EXCEPT !.from = "other"]
  /\ last' = [last EXCEPT !.from = "other"]
  /\ Conclude(FALSE)

ServiceNext ==
  \/ ServiceStart \/ ServiceStop
  \/ SeeLocked \/ SeeDaemonMissing \/ SeeUnhealthy
  \/ NormalizePhase \/ ClearStableBudget
  \/ Request \/ StopDirectly \/ LaunchFails \/ Answered \/ TimedOut

-----------------------------------------------------------------------------
(* The daemon *)

Alone == UNCHANGED <<activation, service, plan, rested, requests, changes>>

\* The daemon's own activation tick asks the daemon to stop the bundle, waits
\* the full 90 s for itself, and then stops the processes.
SelfGate ==
  /\ daemon = "idle" /\ activation = "revoked"
  /\ Send("StopBundle", "other")
  /\ daemon' = "selfwait"
  /\ Alone /\ UNCHANGED <<job, lifecycle, budget, bundle, relief, faults>>

SelfGateEnds ==
  /\ daemon = "selfwait"
  /\ SetUp({})
  /\ daemon' = "resume"
  /\ Alone /\ UNCHANGED <<job, slot, last, lifecycle, budget, relief, faults>>

StartPhase(op) == CASE op = "StartBundle" -> "starting"
                    [] op \in {"StopBundle", "Shutdown"} -> "stopping"
                    [] OTHER -> "recovering"

FirstStep(op) == CASE op \in {"FailureRuntime", "FailureBundle", "FailureNone"} -> "plan"
                   [] op = "SoftRecover" -> "reuse"
                   [] OTHER -> "stop"

Scope(op) == IF op \in {"RestartRuntime", "SoftRecover", "HardRecover"}
             THEN "runtime" ELSE "all"

\* record_command_started
Poll ==
  /\ daemon \in {"idle", "resume"} /\ slot # NoCommand
  /\ job' = [op |-> slot.op, from |-> slot.from, scope |-> Scope(slot.op),
             relieved |-> FALSE, outcome |-> "ok"]
  /\ daemon' = FirstStep(slot.op)
  /\ last' = [from |-> slot.from, status |-> "running"]
  /\ SetPhase(StartPhase(slot.op))
  /\ Alone /\ UNCHANGED <<slot, budget, bundle, relief, faults>>

\* A step that leaves the job's record as it is, apart from the changes named.
Step(from, to) == daemon = from /\ daemon' = to /\ Alone /\ UNCHANGED <<slot, last>>

\* Attempts counted by compute_failure_recovery_plan, this one included.
Counted == IF window THEN attempts ELSE 0
Attempt == IF Counted < MaxAttempts THEN Counted + 1 ELSE MaxAttempts

\* Mutant of Exhausted: the attempts are compared before this one is counted.
ExhaustedLate == job.op = "FailureBundle" /\ Attempt > MaxBundle + 1

Exhausted == job.op = "FailureBundle" /\ Attempt > MaxBundle

\* Another restart of the runtime would be one too many: the whole bundle is
\* restarted instead, which nothing refuses or counts apart.
Escalated == job.op = "FailureRuntime" /\ Attempt > MaxRuntime

\* compute_failure_recovery_plan: too many restarts of the runtime become one of
\* the bundle, too many of the bundle are refused.
PlanRecovery ==
  /\ daemon = "plan"
  /\ attempts' = Attempt /\ window' = TRUE
  /\ restarts' = (IF window THEN restarts ELSE 0)
                 + IF job.op = "FailureBundle" /\ ~Exhausted THEN 1 ELSE 0
  /\ runtimes' = (IF window THEN runtimes ELSE 0)
                 + IF job.op = "FailureRuntime" /\ ~Escalated THEN 1 ELSE 0
  /\ job' = [job EXCEPT
       !.scope = IF job.op = "FailureRuntime" /\ ~Escalated THEN "runtime" ELSE "all",
       !.outcome = IF Exhausted THEN "error" ELSE "ok"]
  /\ daemon' = IF Exhausted \/ job.op = "FailureNone" THEN "done" ELSE "stop"
  /\ IF Exhausted THEN SetPhase("failed") ELSE UNCHANGED lifecycle
  /\ Alone /\ UNCHANGED <<slot, last, bundle, relief, faults>>

\* recover_runtime_inner: a policy that allows it keeps a runtime that listens.
Reuse ==
  /\ Step("reuse", IF "sunshine" \in up THEN "done" ELSE "stop")
  /\ UNCHANGED <<job, lifecycle, budget, bundle, relief, faults>>

\* stop_bundle_processes
StopProcesses ==
  /\ Step("stop", IF job.op \in {"StopBundle", "Shutdown"} THEN "done" ELSE "relief")
  /\ SetUp(IF job.scope = "all" THEN {} ELSE up \ {"sunshine"})
  /\ UNCHANGED <<job, lifecycle, budget, relief, faults>>

\* RemoteDesktopStartupRelief::begin
BeginRelief ==
  /\ Step("relief", "sunshine")
  /\ IF LowVram /\ parsec = "running"
     THEN parsec' = "stopped" /\ job' = [job EXCEPT !.relieved = TRUE]
     ELSE UNCHANGED <<parsec, job>>
  /\ UNCHANGED <<lifecycle, budget, bundle, parsecLost, faults>>

StartSunshine ==
  /\ Step("sunshine", "restore")
  /\ SetUp(up \cup {"sunshine"})
  /\ UNCHANGED <<job, lifecycle, budget, relief, faults>>

\* restore, or the Drop of an unrestored relief
Restore ==
  /\ Step("restore", IF job.outcome = "ok" /\ job.scope = "all" THEN "web" ELSE "done")
  /\ parsec' = IF job.relieved THEN "running" ELSE parsec
  /\ job' = [job EXCEPT !.relieved = FALSE]
  /\ UNCHANGED <<lifecycle, budget, bundle, parsecLost, faults>>

StartWebServer ==
  /\ Step("web", "frpc")
  /\ up' = up \cup {"web"} /\ http' = "answers"
  /\ UNCHANGED <<job, lifecycle, budget, relief, faults>>

StartFrpc ==
  /\ Step("frpc", "done")
  /\ SetUp(up \cup {"frpc"})
  /\ UNCHANGED <<job, lifecycle, budget, relief, faults>>

\* Mutant of AfterFailure: a failed start returns before Parsec is restored.
AfterFailureAtOnce(step) == "done"

\* A step fails.  A relief begun or a Sunshine that did not get ready still has
\* Parsec restored; whatever a failed start has spawned stays until later.
AfterFailure(step) == IF step \in {"relief", "sunshine"} THEN "restore" ELSE "done"

StepFails ==
  /\ daemon \in {"stop", "relief", "sunshine", "web", "frpc"}
  /\ Fault
  /\ daemon' = AfterFailure(daemon)
  /\ \/ /\ daemon = "relief" /\ LowVram /\ parsec = "running"
        /\ parsec' = "stopped"
        /\ job' = [job EXCEPT !.outcome = "error", !.relieved = TRUE]
        /\ UNCHANGED bundle
     \/ /\ job' = [job EXCEPT !.outcome = "error"]
        /\ up' \in {up, up \cup ({daemon} \cap Parts)}
        /\ http' = IF "web" \in up' THEN http ELSE "refuses"
        /\ UNCHANGED parsec
  /\ Alone /\ UNCHANGED <<slot, last, lifecycle, budget, parsecLost>>

\* Parsec does not come back: an error, whether or not the Drop's try helps.
RestoreFails ==
  /\ daemon = "restore" /\ job.relieved
  /\ Fault
  /\ parsec' \in {"running", "stopped"}
  /\ parsecLost' = (parsecLost \/ parsec' = "stopped")
  /\ daemon' = "done"
  /\ job' = [job EXCEPT !.outcome = "error", !.relieved = FALSE]
  /\ Alone /\ UNCHANGED <<slot, last, lifecycle, budget, bundle>>

SuccessPhase(op) == IF op \in {"StopBundle", "Shutdown"} THEN "idle" ELSE "ready"

\* record_command_finished
Finish ==
  /\ daemon = "done" /\ daemon' = "clear"
  /\ last' = [from |-> job.from, status |-> job.outcome]
  /\ SetPhase(IF job.outcome = "ok" THEN SuccessPhase(job.op) ELSE "failed")
  /\ IF job.outcome = "ok" /\ job.op \in {"StartBundle", "RestartRuntime",
                                          "SoftRecover", "HardRecover"}
     THEN attempts' = 0 /\ window' = FALSE /\ restarts' = 0 /\ runtimes' = 0
     ELSE UNCHANGED budget
  /\ Alone /\ UNCHANGED <<job, slot, bundle, relief, faults>>

\* clear_command_file removes whatever the slot holds by now; a failed command
\* or a shutdown ends the process, and the job object its children.
Clear ==
  /\ daemon = "clear"
  /\ slot' = NoCommand
  /\ job' = NoJob
  /\ IF job.outcome = "error" \/ job.op = "Shutdown"
     THEN daemon' = "off" /\ SetUp(up \ Children)
     ELSE daemon' = "idle" /\ UNCHANGED bundle
  /\ Alone /\ UNCHANGED <<last, lifecycle, budget, relief, faults>>

DaemonNext ==
  \/ SelfGate \/ SelfGateEnds \/ Poll \/ PlanRecovery \/ Reuse \/ StopProcesses
  \/ BeginRelief \/ StartSunshine \/ Restore \/ StartWebServer \/ StartFrpc
  \/ Finish \/ Clear

-----------------------------------------------------------------------------
(* Everything around them *)

\* Command line, web-server, host control: request_daemon_operation.
OperatorRequest ==
  /\ requests < MaxRequests
  /\ requests' = requests + 1
  /\ \E op \in OperatorOps :
       /\ op = "Shutdown" => daemon # "off"
       /\ Send(op, "other")
  /\ Ensured
  /\ UNCHANGED <<activation, service, plan, rested, job, lifecycle, budget, bundle,
                 relief, faults, changes>>

\* sync_activation_status and the heartbeat's answer
ActivationChanges ==
  /\ changes < MaxChanges
  /\ changes' = changes + 1
  /\ activation' \in Activations \ {activation}
  /\ UNCHANGED <<service, plan, rested, daemon, job, slot, last, lifecycle, budget,
                 bundle, relief, faults, requests>>

\* The scheduled task starts the daemon by itself (logon, restart on failure).
TaskTrigger ==
  /\ daemon = "off" /\ daemon' = "idle"
  /\ Alone /\ UNCHANGED <<job, slot, last, lifecycle, budget, bundle, relief, faults>>

\* The daemon is killed, possibly while Parsec waits to be restored by it.
DaemonDies ==
  /\ daemon # "off" /\ Fault
  /\ daemon' = "off"
  /\ job' = NoJob
  /\ SetUp(up \ Children)
  /\ parsecLost' = (parsecLost \/ job.relieved)
  /\ Alone /\ UNCHANGED <<slot, last, lifecycle, budget, parsec>>

PartDies ==
  /\ Fault
  /\ \/ \E p \in up : SetUp(up \ {p})
     \/ "web" \in up /\ http' \in WebFaults \ {http} /\ UNCHANGED up
  /\ Alone /\ UNCHANGED <<daemon, job, slot, last, lifecycle, budget, relief>>

\* Time passes: the phase ages, ...
PhaseAges ==
  /\ age < 2 /\ age' = age + 1
  /\ UNCHANGED <<activation, service, plan, rested, daemon, job, slot, last, phase,
                 budget, bundle, relief, counters>>

\* ... the watchdog may recover again after 15 s or 20 s, ...
WatchdogRests ==
  /\ ~rested /\ rested' = TRUE
  /\ UNCHANGED <<activation, service, plan, daemon, job, slot, last, lifecycle,
                 budget, bundle, relief, counters>>

\* ... and the recovery window ends after 180 s.
WindowEnds ==
  /\ window /\ window' = FALSE
  /\ UNCHANGED <<activation, service, plan, rested, daemon, job, slot, last, lifecycle,
                 attempts, restarts, runtimes, bundle, relief, counters>>

Next ==
  \/ ServiceNext \/ DaemonNext \/ StepFails \/ RestoreFails
  \/ OperatorRequest \/ ActivationChanges \/ TaskTrigger \/ DaemonDies \/ PartDies
  \/ PhaseAges \/ WatchdogRests \/ WindowEnds

Spec == Init /\ [][Next]_vars

\* The loops of the service and of the daemon come round, a job goes on, and
\* time passes.  Nothing is assumed of faults, operators or the task's triggers.
Ticks == /\ WF_vars(SeeLocked) /\ WF_vars(SeeDaemonMissing) /\ WF_vars(SeeUnhealthy)
         /\ WF_vars(NormalizePhase)
Requests == /\ WF_vars(Request) /\ WF_vars(StopDirectly) /\ WF_vars(Answered)
            /\ WF_vars(TimedOut /\ ~Pending)
FairSpec == Spec /\ Ticks /\ Requests /\ WF_vars(DaemonNext)
                 /\ WF_vars(PhaseAges) /\ WF_vars(WatchdogRests) /\ WF_vars(WindowEnds)

-----------------------------------------------------------------------------
(* Properties *)

TypeOK ==
  /\ activation \in Activations
  /\ service \in {"stopped", "idle", "act", "wait"}
  /\ plan \in {Idle} \cup DOMAIN OpOf
  /\ plan = Idle <=> service \in {"stopped", "idle"}
  /\ rested \in BOOLEAN
  /\ daemon \in LoopStates \cup JobSteps
  /\ job \in [op : Ops \cup {Idle}, from : {"service", "other"},
              scope : {"all", "runtime"}, relieved : BOOLEAN, outcome : {"ok", "error"}]
  /\ slot \in Commands \cup {NoCommand}
  /\ last \in [from : {"service", "other"},
               status : {"none", "queued", "running", "ok", "error"}]
  /\ phase \in {"idle", "starting", "ready", "recovering", "stopping", "failed"}
  /\ age \in 0 .. 2
  /\ attempts \in 0 .. MaxAttempts /\ restarts \in Nat /\ runtimes \in Nat /\ window \in BOOLEAN
  /\ up \subseteq Parts /\ http \in {"answers", "refuses", "hangs"}
  /\ parsec \in {"running", "stopped"} /\ parsecLost \in BOOLEAN
  /\ faults \in 0 .. MaxFaults /\ requests \in 0 .. MaxRequests
  /\ changes \in 0 .. MaxChanges

\* Parsec, stopped to free video memory, is started again on every path out of
\* a start, the failing ones included: it stays down only while the relief is
\* on, after the daemon was killed during it, or when restoring it failed twice.
ParsecRestored == parsec = "stopped" => job.relieved \/ parsecLost

\* Until the budget is cleared, by a start, a restart or a recovery of the runtime
\* that succeeds, by a stable half minute or by the end of the window, failure
\* recoveries share one count: of those that ask for the bundle MaxBundle at most
\* restart it, of those that ask for the runtime MaxRuntime at most restart it
\* alone, and both together are no more than the larger limit.  Escalated
\* restarts and RestartRuntime are outside the budget: the code counts neither.
BudgetKept ==
  /\ restarts <= MaxBundle /\ runtimes <= MaxRuntime
  /\ restarts + runtimes <= MaxBundle \/ restarts + runtimes <= MaxRuntime

\* While the service stays up and the host activated, the bundle comes back and
\* is reported ready after whatever failures, stale commands, kills and operator
\* commands there were, provided they come to an end.
ServiceStays == service # "stopped" /\ plan # "stop"
HealthRestored == <>[](ServiceStays /\ ~Locked) => <>[](Healthy /\ phase = "ready")

\* Once the activation is gone for good, the bundle is stopped for good, by the
\* service, or by the daemon alone when the service is not running.
LockedStops == <>[](Locked /\ (ServiceStays \/ (activation = "revoked" /\ daemon # "off")))
                 => <>[](up = {})

\* A service asked to stop does stop, although it waits for a daemon that may be
\* dead, or waiting for itself.
ServiceStops == plan = "stop" ~> service = "stopped"
=============================================================================

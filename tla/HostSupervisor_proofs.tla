-------------------------- MODULE HostSupervisor_proofs --------------------------
(***************************************************************************)
(* What holds of HostSupervisor for every value of its constants, by one   *)
(* inductive invariant: the types, where a relief of Parsec can be under   *)
(* way, and how the recovery budget relates to the attempts counted; and,  *)
(* beside it, what the daemon's end and its record say of its processes.   *)
(***************************************************************************)
EXTENDS HostSupervisor, TLAPS

\* A relief belongs to a start of Sunshine, and Parsec is down only for one.
ReliefInv ==
  /\ job.relieved => daemon \in {"sunshine", "restore"}
  /\ ParsecRestored

\* While the window is open every restart that was granted was counted.
BudgetInv ==
  /\ window => restarts + runtimes <= attempts
  /\ BudgetKept

IInv == TypeOK /\ ReliefInv /\ BudgetInv

LEMMA InitIInv == Init => IInv
<1> SUFFICES ASSUME Init PROVE IInv
  OBVIOUS
<1> USE SupervisorAssumption DEF Init, NoJob, NoCommand, Idle
<1>1. ReliefInv /\ BudgetInv
  BY DEF ReliefInv, BudgetInv, ParsecRestored, BudgetKept
<1>2. rested \in BOOLEAN /\ window \in BOOLEAN /\ parsecLost \in BOOLEAN
  OBVIOUS
<1>3. job \in [op : Ops \cup {Idle}, from : {"service", "other"},
               scope : {"all", "runtime"}, relieved : BOOLEAN, outcome : {"ok", "error"}]
  OBVIOUS
<1> QED BY <1>1, <1>2, <1>3 DEF IInv, TypeOK, LoopStates

-----------------------------------------------------------------------------
(* One lemma for each group of actions *)

\* The service never touches Parsec or a job's relief; it only ever clears the budget.
LEMMA ServiceStep == IInv /\ ServiceNext => IInv'
<1> SUFFICES ASSUME IInv, ServiceNext PROVE IInv'
  OBVIOUS
<1> USE SupervisorAssumption
    DEF IInv, TypeOK, ReliefInv, BudgetInv, ParsecRestored, BudgetKept, lifecycle,
        budget, bundle, relief, counters, ServiceGoto, Idle, NoCommand, NoJob
<1>1. CASE ServiceStart
  BY <1>1 DEF ServiceStart, OpOf
<1>2. CASE ServiceStop
  BY <1>2 DEF ServiceStop, OpOf
<1>3. CASE SeeLocked \/ SeeDaemonMissing \/ SeeUnhealthy
  BY <1>3 DEF SeeLocked, SeeDaemonMissing, SeeUnhealthy, Decide, OpOf
<1>4. CASE NormalizePhase
  BY <1>4 DEF NormalizePhase, SetPhase
<1>5. CASE ClearStableBudget
  <2>0. window' \in BOOLEAN
    BY <1>5 DEF ClearStableBudget
  <2>1. TypeOK'
    BY <1>5, <2>0 DEF ClearStableBudget
  <2>2. ReliefInv'
    BY <1>5 DEF ClearStableBudget
  <2>3. BudgetInv'
    BY <1>5 DEF ClearStableBudget
  <2> QED BY <2>1, <2>2, <2>3
<1>6. CASE Request
  <2>1. plan \in DOMAIN OpOf /\ OpOf[plan] \in Ops
    BY <1>6 DEF Request, OpOf, Ops
  <2>2. slot' \in Commands /\ last' = [from |-> "service", status |-> "queued"]
    BY <1>6, <2>1 DEF Request, Send, Commands
  <2> QED BY <1>6, <2>1, <2>2 DEF Request, Ensured, LoopStates
<1> DEFINE Concluded ==
      /\ service' \in {"stopped", "idle"} /\ plan' = Idle
      /\ rested' \in BOOLEAN
      /\ up' \subseteq Parts /\ http' \in {"answers", "refuses", "hangs"}
      /\ UNCHANGED <<activation, daemon, lifecycle, budget, relief, requests, changes>>
<1>8. CASE StopDirectly
  <2>1. Concluded
    BY <1>8 DEF StopDirectly, Conclude, SetUp
  <2> QED BY <1>8, <2>1 DEF StopDirectly
<1>9. CASE LaunchFails
  <2>1. Concluded
    BY <1>9 DEF LaunchFails, Conclude, SetUp
  <2> QED BY <1>9, <2>1 DEF LaunchFails, Fault
<1>10. CASE Answered
  <2>1. Concluded
    BY <1>10 DEF Answered, Conclude, SetUp
  <2> QED BY <1>10, <2>1 DEF Answered
<1>11. CASE TimedOut
  <2>1. Concluded
    BY <1>11 DEF TimedOut, Conclude, SetUp
  <2>2. slot' \in Commands \cup {NoCommand}
    BY <1>11 DEF TimedOut, Commands
  <2>3. faults' \in 0 .. MaxFaults
    BY <1>11 DEF TimedOut, Fault
  <2> QED BY <1>11, <2>1, <2>2, <2>3 DEF TimedOut
<1> QED
  BY <1>1, <1>2, <1>3, <1>4, <1>5, <1>6, <1>8, <1>9, <1>10, <1>11 DEF ServiceNext

\* The daemon: relief begins and ends within a job, restarts are counted first.
LEMMA DaemonStep == IInv /\ (DaemonNext \/ StepFails \/ RestoreFails) => IInv'
<1> SUFFICES ASSUME IInv, DaemonNext \/ StepFails \/ RestoreFails PROVE IInv'
  OBVIOUS
<1> USE SupervisorAssumption
    DEF IInv, TypeOK, ReliefInv, BudgetInv, ParsecRestored, BudgetKept, lifecycle,
        budget, bundle, relief, counters, Alone, Idle, NoCommand, NoJob, LoopStates,
        JobSteps
<1>1. CASE SelfGate
  BY <1>1 DEF SelfGate, Send, Commands, Ops
<1>2. CASE SelfGateEnds
  BY <1>2 DEF SelfGateEnds, SetUp
<1>3. CASE Poll
  <2>1. slot.op \in Ops /\ slot.from \in {"service", "other"}
    BY <1>3 DEF Poll, Commands
  <2>2. daemon' \in JobSteps /\ ~job'.relieved
    BY <1>3 DEF Poll, FirstStep
  <2>3. phase' \in {"starting", "recovering", "stopping"} /\ age' = 0
    BY <1>3 DEF Poll, SetPhase, StartPhase
  <2>4. job' \in [op : Ops \cup {Idle}, from : {"service", "other"},
                  scope : {"all", "runtime"}, relieved : BOOLEAN, outcome : {"ok", "error"}]
    BY <1>3, <2>1 DEF Poll, Scope
  <2>5. ~job.relieved /\ parsec' = parsec /\ parsecLost' = parsecLost
    BY <1>3 DEF Poll
  <2>6. last' \in [from : {"service", "other"},
                   status : {"none", "queued", "running", "ok", "error"}]
    BY <1>3, <2>1 DEF Poll
  <2> QED BY <1>3, <2>2, <2>3, <2>4, <2>5, <2>6 DEF Poll
<1>4. CASE PlanRecovery
  <2>1. Attempt \in 0 .. MaxAttempts
    BY DEF Attempt, Counted
  <2>2. /\ restarts' \in Nat /\ runtimes' \in Nat /\ window'
        /\ restarts' + runtimes' <= attempts'
    BY <1>4 DEF PlanRecovery, Attempt, Counted, Exhausted, Escalated
  <2>5. BudgetKept'
    <3>1. CASE job.op = "FailureBundle" /\ Attempt <= MaxBundle
      BY <1>4, <2>1, <2>2, <3>1 DEF PlanRecovery, Exhausted
    <3>2. CASE job.op = "FailureRuntime" /\ Attempt <= MaxRuntime
      BY <1>4, <2>1, <2>2, <3>2 DEF PlanRecovery, Escalated
    <3>3. CASE ~(job.op = "FailureBundle" /\ Attempt <= MaxBundle)
               /\ ~(job.op = "FailureRuntime" /\ Attempt <= MaxRuntime)
      BY <1>4, <2>1, <3>3 DEF PlanRecovery, Exhausted, Escalated
    <3> QED BY <3>1, <3>2, <3>3
  <2>3. ~job.relieved /\ job' \in [op : Ops \cup {Idle}, from : {"service", "other"},
                  scope : {"all", "runtime"}, relieved : BOOLEAN, outcome : {"ok", "error"}]
    BY <1>4 DEF PlanRecovery
  <2>4. job'.relieved = job.relieved
    BY <1>4 DEF PlanRecovery
  <2> QED BY <1>4, <2>1, <2>2, <2>3, <2>4, <2>5 DEF PlanRecovery, SetPhase
<1>5. CASE Reuse
  BY <1>5 DEF Reuse, Step
<1>6. CASE StopProcesses
  BY <1>6 DEF StopProcesses, Step, SetUp
<1>7. CASE BeginRelief
  <2>1. job' \in [op : Ops \cup {Idle}, from : {"service", "other"},
                  scope : {"all", "runtime"}, relieved : BOOLEAN, outcome : {"ok", "error"}]
    BY <1>7 DEF BeginRelief
  <2>3. ReliefInv'
    BY <1>7 DEF BeginRelief, Step
  <2> QED BY <1>7, <2>1, <2>3 DEF BeginRelief, Step
<1>8. CASE StartSunshine
  BY <1>8 DEF StartSunshine, Step, SetUp, Parts
<1>9. CASE Restore
  <2>1. job' \in [op : Ops \cup {Idle}, from : {"service", "other"},
                  scope : {"all", "runtime"}, relieved : BOOLEAN, outcome : {"ok", "error"}]
    BY <1>9 DEF Restore
  <2>3. ReliefInv'
    BY <1>9 DEF Restore, Step
  <2> QED BY <1>9, <2>1, <2>3 DEF Restore, Step
<1>10. CASE StartWebServer
  BY <1>10 DEF StartWebServer, Step, Parts
<1>11. CASE StartFrpc
  BY <1>11 DEF StartFrpc, Step, SetUp, Parts
<1>12. CASE Finish
  <2>1. last' \in [from : {"service", "other"},
                   status : {"none", "queued", "running", "ok", "error"}]
    BY <1>12 DEF Finish
  <2>2. phase' \in {"idle", "ready", "failed"} /\ age' = 0
    BY <1>12 DEF Finish, SetPhase, SuccessPhase
  <2>3. window' \in BOOLEAN
    BY <1>12 DEF Finish
  <2>4. attempts' \in 0 .. MaxAttempts /\ restarts' \in Nat
    BY <1>12 DEF Finish
  <2>5. BudgetInv'
    BY <1>12 DEF Finish
  <2> QED BY <1>12, <2>1, <2>2, <2>3, <2>4, <2>5 DEF Finish
<1>13. CASE Clear
  BY <1>13 DEF Clear, SetUp
<1>14. CASE StepFails
  <2>1. up' \subseteq Parts /\ http' \in {"answers", "refuses", "hangs"}
    BY <1>14 DEF StepFails
  <2>2. daemon' \in {"restore", "done"} /\ (daemon \in {"relief", "sunshine"} => daemon' = "restore")
    BY <1>14 DEF StepFails, AfterFailure
  <2>3. job' \in [op : Ops \cup {Idle}, from : {"service", "other"},
                  scope : {"all", "runtime"}, relieved : BOOLEAN, outcome : {"ok", "error"}]
    BY <1>14 DEF StepFails
  <2>4. parsec' \in {"running", "stopped"} /\ ReliefInv'
    BY <1>14, <2>2 DEF StepFails
  <2> QED BY <1>14, <2>1, <2>2, <2>3, <2>4 DEF StepFails, Fault
<1>15. CASE RestoreFails
  <2>1. job' \in [op : Ops \cup {Idle}, from : {"service", "other"},
                  scope : {"all", "runtime"}, relieved : BOOLEAN, outcome : {"ok", "error"}]
    BY <1>15 DEF RestoreFails
  <2>2. parsecLost' \in BOOLEAN
    BY <1>15 DEF RestoreFails
  <2>3. ReliefInv'
    BY <1>15 DEF RestoreFails, Fault
  <2> QED BY <1>15, <2>1, <2>2, <2>3 DEF RestoreFails, Fault
<1> QED
  BY <1>1, <1>2, <1>3, <1>4, <1>5, <1>6, <1>7, <1>8, <1>9, <1>10, <1>11, <1>12,
     <1>13, <1>14, <1>15 DEF DaemonNext

\* Operators, the control plane, faults and time.
LEMMA WorldStep ==
  IInv /\ (\/ OperatorRequest \/ ActivationChanges \/ TaskTrigger \/ DaemonDies
           \/ PartDies \/ PhaseAges \/ WatchdogRests \/ WindowEnds) => IInv'
<1> SUFFICES ASSUME IInv,
                    \/ OperatorRequest \/ ActivationChanges \/ TaskTrigger \/ DaemonDies
                    \/ PartDies \/ PhaseAges \/ WatchdogRests \/ WindowEnds
             PROVE IInv'
  OBVIOUS
<1> USE SupervisorAssumption
    DEF IInv, TypeOK, ReliefInv, BudgetInv, ParsecRestored, BudgetKept, lifecycle,
        budget, bundle, relief, counters, Alone, Idle, NoCommand, NoJob, LoopStates
<1>1. CASE OperatorRequest
  <2>1. slot' \in Commands /\ last' = [from |-> "other", status |-> "queued"]
    BY <1>1 DEF OperatorRequest, Send, Commands
  <2> QED BY <1>1, <2>1 DEF OperatorRequest, Ensured
<1>2. CASE ActivationChanges
  BY <1>2 DEF ActivationChanges
<1>3. CASE TaskTrigger
  BY <1>3 DEF TaskTrigger
<1>4. CASE DaemonDies
  BY <1>4 DEF DaemonDies, SetUp, Fault
<1>5. CASE PartDies
  <2>1. up' \subseteq Parts /\ http' \in {"answers", "refuses", "hangs"}
    BY <1>5 DEF PartDies, SetUp
  <2> QED BY <1>5, <2>1 DEF PartDies, Fault
<1>6. CASE PhaseAges
  BY <1>6 DEF PhaseAges
<1>7. CASE WatchdogRests
  BY <1>7 DEF WatchdogRests
<1>8. CASE WindowEnds
  <2>0. window' \in BOOLEAN
    BY <1>8 DEF WindowEnds
  <2>1. TypeOK'
    BY <1>8, <2>0 DEF WindowEnds
  <2>2. ReliefInv'
    BY <1>8 DEF WindowEnds
  <2>3. BudgetInv'
    BY <1>8 DEF WindowEnds
  <2> QED BY <2>1, <2>2, <2>3
<1> QED
  BY <1>1, <1>2, <1>3, <1>4, <1>5, <1>6, <1>7, <1>8

LEMMA Inductive == Spec => []IInv
<1>1. Init => IInv
  BY InitIInv
<1>2. IInv /\ [Next]_vars => IInv'
  <2>1. IInv /\ UNCHANGED vars => IInv'
    BY DEF IInv, TypeOK, ReliefInv, BudgetInv, ParsecRestored, BudgetKept, vars
  <2> QED BY <2>1, ServiceStep, DaemonStep, WorldStep DEF Next
<1> QED BY <1>1, <1>2, PTL DEF Spec

\* Every variable keeps its type.
THEOREM TypeCorrect == Spec => []TypeOK
<1>1. IInv => TypeOK
  BY DEF IInv
<1> QED BY <1>1, Inductive, PTL

\* Whatever fails and whoever interferes, Parsec stays stopped only while it is
\* being relieved, or when its daemon was killed or could not restart it.
THEOREM ParsecComesBack == Spec => []ParsecRestored
<1>1. IInv => ParsecRestored
  BY DEF IInv, ReliefInv
<1> QED BY <1>1, Inductive, PTL

\* However many failure recoveries are asked for, the bundle is restarted for those
\* that ask for it at most MaxBundle times, the runtime alone at most MaxRuntime
\* times, and both together no more often than the larger of the limits, before
\* the budget is cleared.
THEOREM BudgetBounds == Spec => []BudgetKept
<1>1. IInv => BudgetKept
  BY DEF IInv, BudgetInv
<1> QED BY <1>1, Inductive, PTL
-----------------------------------------------------------------------------
(* The daemon, its children and its record *)

\* The daemon's children go with it, and a web-server that is gone refuses.
ChildrenInv ==
  /\ daemon = "off" => up \cap Children = {}
  /\ "web" \notin up => http = "refuses"

Stops == {"StopBundle", "Shutdown"}
Working == JobSteps \ {"done", "clear"}

\* A job is on record from its first step to its last, and a stop that reports
\* success has left nothing.
RecordInv ==
  /\ daemon \in LoopStates <=> job.op = Idle
  /\ daemon \in Working => phase = StartPhase(job.op)
  /\ job.op \in Stops => daemon \in {"stop", "done", "clear"} /\ job.scope = "all"
  /\ job.op \in Stops /\ daemon \in {"done", "clear"} /\ job.outcome = "ok" => up = {}

\* The service does not start the processes it may stop, nor move a job.
LEMMA ServiceRecord ==
  ASSUME TypeOK, ServiceNext
  PROVE  /\ ChildrenInv => ChildrenInv'
         /\ RecordInv => RecordInv'
<1> DEFINE Same == /\ up' = up /\ http' = http
                   /\ daemon' = daemon \/ (daemon = "off" /\ daemon' = "idle")
                   /\ job'.op = job.op /\ job'.scope = job.scope /\ job'.outcome = job.outcome
                   /\ phase' = phase \/ (phase = "failed" /\ phase' = "ready")
           Emptied == /\ up' = {} /\ http' = "refuses" /\ daemon' = daemon /\ phase' = phase
                      /\ job'.op = job.op /\ job'.scope = job.scope /\ job'.outcome = job.outcome
<1>0. /\ job \in [op : Ops \cup {Idle}, from : {"service", "other"}, scope : {"all", "runtime"},
                  relieved : BOOLEAN, outcome : {"ok", "error"}]
      /\ Children \subseteq Parts
  BY DEF TypeOK, Children, Parts
<1>1. CASE Same
  <2>1. ChildrenInv => ChildrenInv'
    BY <1>1 DEF ChildrenInv, Children
  <2>2. \A op : StartPhase(op) # "failed"
    BY DEF StartPhase
  <2>3. RecordInv => RecordInv'
    BY <1>1, <2>2 DEF RecordInv, LoopStates, JobSteps, Working, StartPhase
  <2> QED BY <2>1, <2>3
<1>2. CASE Emptied
  <2>1. ChildrenInv'
    BY <1>2 DEF ChildrenInv
  <2>2. RecordInv => RecordInv'
    BY <1>2 DEF RecordInv, StartPhase
  <2> QED BY <2>1, <2>2
<1>3. CASE ServiceStart \/ ServiceStop \/ SeeLocked \/ SeeDaemonMissing \/ SeeUnhealthy
  <2>1. Same
    BY <1>3 DEF ServiceStart, ServiceStop, SeeLocked, SeeDaemonMissing, SeeUnhealthy, Decide,
       lifecycle, bundle
  <2> QED BY <1>1, <2>1
<1>4. CASE NormalizePhase \/ ClearStableBudget
  <2>1. Same
    BY <1>4 DEF NormalizePhase, ClearStableBudget, SetPhase, bundle, lifecycle
  <2> QED BY <1>1, <2>1
<1>5. CASE Request
  <2>1. Same
    BY <1>5 DEF Request, Ensured, bundle, lifecycle
  <2> QED BY <1>1, <2>1
<1>6. ASSUME NEW ok \in BOOLEAN, Conclude(ok), job' = job \/ job' = [job EXCEPT !.from = "other"]
      PROVE  Same \/ Emptied
  <2>1. daemon' = daemon /\ phase' = phase
    BY <1>6 DEF Conclude, lifecycle
  <2>2. job'.op = job.op /\ job'.scope = job.scope /\ job'.outcome = job.outcome
    BY <1>0, <1>6
  <2>3. (up' = up /\ http' = http) \/ (up' = {} /\ http' = "refuses")
    BY <1>6 DEF Conclude, SetUp, bundle
  <2> QED BY <2>1, <2>2, <2>3
<1>7. CASE StopDirectly \/ LaunchFails \/ Answered \/ TimedOut
  <2>1. \E ok \in BOOLEAN : Conclude(ok)
    BY <1>7 DEF StopDirectly, LaunchFails, Answered, TimedOut
  <2>2. job' = job \/ job' = [job EXCEPT !.from = "other"]
    BY <1>7 DEF StopDirectly, LaunchFails, Answered, TimedOut
  <2>3. Same \/ Emptied
    BY <1>6, <2>1, <2>2
  <2> QED BY <1>1, <1>2, <2>3
<1> QED BY <1>3, <1>4, <1>5, <1>7 DEF ServiceNext

\* What the daemon starts lives as long as it does.
LEMMA DaemonChildren ==
  ASSUME TypeOK, ChildrenInv, DaemonNext \/ StepFails \/ RestoreFails
  PROVE  ChildrenInv'
<1> USE DEF ChildrenInv, bundle
<1>1. CASE SelfGate \/ Poll \/ PlanRecovery \/ Reuse \/ BeginRelief \/ Restore \/ Finish \/ RestoreFails
  <2>1. daemon' # "off" /\ up' = up /\ http' = http
    BY <1>1 DEF SelfGate, Poll, PlanRecovery, Reuse, BeginRelief, Restore, Finish, RestoreFails,
       Step, FirstStep
  <2> QED BY <2>1
<1>2. CASE SelfGateEnds \/ StopProcesses \/ StartSunshine \/ StartFrpc
  <2>1. daemon' # "off" /\ \E S \in SUBSET Parts : SetUp(S) /\ ("web" \in S => "web" \in up)
    BY <1>2 DEF SelfGateEnds, StopProcesses, StartSunshine, StartFrpc, Step, TypeOK, Parts
  <2> QED BY <2>1 DEF SetUp
<1>3. CASE StartWebServer
  BY <1>3 DEF StartWebServer, Step
<1>4. CASE Clear
  BY <1>4 DEF Clear, SetUp
<1>5. CASE StepFails
  <2>1. daemon' # "off"
    BY <1>5 DEF StepFails, AfterFailure
  <2>2. (up' = up /\ http' = http) \/ http' = IF "web" \in up' THEN http ELSE "refuses"
    BY <1>5 DEF StepFails
  <2> QED BY <2>1, <2>2
<1> QED BY <1>1, <1>2, <1>3, <1>4, <1>5 DEF DaemonNext

LEMMA DaemonRecord ==
  ASSUME TypeOK, RecordInv, DaemonNext \/ StepFails \/ RestoreFails
  PROVE  RecordInv'
<1>0. /\ job \in [op : Ops \cup {Idle}, from : {"service", "other"}, scope : {"all", "runtime"},
                  relieved : BOOLEAN, outcome : {"ok", "error"}]
      /\ slot \in Commands \cup {NoCommand} /\ daemon \in LoopStates \cup JobSteps
  BY DEF TypeOK
<1>1. CASE SelfGate \/ SelfGateEnds
  <2>1. daemon \in LoopStates /\ daemon' \in LoopStates /\ job' = job
    BY <1>1 DEF SelfGate, SelfGateEnds, LoopStates
  <2>2. job.op = Idle
    BY <2>1 DEF RecordInv
  <2> QED BY <2>1, <2>2 DEF RecordInv, LoopStates, JobSteps, Working, Stops, Idle
<1>2. CASE Poll
  <2>1. slot.op \in Ops
    BY <1>0, <1>2 DEF Poll, Commands
  <2>2. /\ job'.op = slot.op /\ job'.scope = Scope(slot.op) /\ job'.outcome = "ok"
        /\ daemon' = FirstStep(slot.op) /\ phase' = StartPhase(slot.op)
    BY <1>2 DEF Poll, SetPhase
  <2>3. FirstStep(slot.op) \in {"plan", "reuse", "stop"}
    BY DEF FirstStep
  <2>4. slot.op \in Stops => FirstStep(slot.op) = "stop" /\ Scope(slot.op) = "all"
    BY DEF Stops, FirstStep, Scope
  <2>5. slot.op # Idle
    BY <2>1 DEF Ops, Idle
  <2> QED BY <2>2, <2>3, <2>4, <2>5 DEF RecordInv, LoopStates
\* The other steps of a job: none but the stop empties the bundle for good.
<1>3. ASSUME daemon \in Working, daemon' \in Working \/ daemon' = "done",
             job'.op = job.op, job.op \notin Stops,
             daemon' \in Working => phase' = phase
      PROVE  RecordInv'
  <2>1. daemon \notin LoopStates /\ daemon' \notin LoopStates
    BY <1>3 DEF Working, JobSteps, LoopStates
  <2>2. job'.op # Idle
    BY <1>3, <2>1 DEF RecordInv
  <2> QED BY <1>3, <2>1, <2>2 DEF RecordInv, Working
<1>4. CASE PlanRecovery
  <2>1. job'.op = job.op /\ daemon = "plan" /\ daemon' \in {"done", "stop"}
        /\ (daemon' = "stop" => phase' = phase)
    BY <1>0, <1>4 DEF PlanRecovery, lifecycle
  <2>2. job.op \notin Stops
    BY <2>1 DEF RecordInv
  <2> QED BY <1>3, <2>1, <2>2 DEF Working, JobSteps
<1>5. CASE Reuse \/ BeginRelief \/ StartSunshine \/ Restore \/ StartWebServer \/ StartFrpc \/ RestoreFails
  <2>1. /\ job'.op = job.op /\ phase' = phase
        /\ daemon \in {"reuse", "relief", "sunshine", "restore", "web", "frpc"}
        /\ daemon' \in {"stop", "sunshine", "restore", "web", "frpc", "done"}
    BY <1>0, <1>5 DEF Reuse, BeginRelief, StartSunshine, Restore, StartWebServer, StartFrpc,
       RestoreFails, Step, lifecycle
  <2>2. job.op \notin Stops
    BY <2>1 DEF RecordInv
  <2> QED BY <1>3, <2>1, <2>2 DEF Working, JobSteps
<1>6. CASE StopProcesses
  <2>1. /\ job' = job /\ phase' = phase /\ daemon = "stop"
        /\ daemon' = IF job.op \in Stops THEN "done" ELSE "relief"
        /\ up' = IF job.scope = "all" THEN {} ELSE up \ {"sunshine"}
    BY <1>6 DEF StopProcesses, Step, SetUp, lifecycle, Stops
  <2>2. CASE job.op \in Stops
    <3>1. up' = {} /\ daemon' = "done" /\ job.op # Idle
      BY <2>1, <2>2 DEF RecordInv, Stops, Idle
    <3> QED BY <2>1, <2>2, <3>1 DEF RecordInv, LoopStates, Working
  <2>3. CASE job.op \notin Stops
    BY <1>3, <2>1, <2>3 DEF Working, JobSteps
  <2> QED BY <2>2, <2>3
<1>7. CASE StepFails
  <2>1. /\ job'.op = job.op /\ phase' = phase /\ job'.outcome = "error" /\ job'.scope = job.scope
        /\ daemon \in {"stop", "relief", "sunshine", "web", "frpc"}
        /\ daemon' = AfterFailure(daemon)
    BY <1>0, <1>7 DEF StepFails, lifecycle
  <2>2. CASE job.op \in Stops
    <3>1. daemon = "stop" /\ daemon' = "done" /\ job.op # Idle
      BY <2>1, <2>2 DEF RecordInv, AfterFailure, Stops, Idle
    <3> QED BY <2>1, <2>2, <3>1 DEF RecordInv, LoopStates, Working
  <2>3. CASE job.op \notin Stops
    BY <1>3, <2>1, <2>3 DEF Working, JobSteps, AfterFailure
  <2> QED BY <2>2, <2>3
<1>8. CASE Finish
  <2>1. job' = job /\ up' = up /\ daemon = "done" /\ daemon' = "clear"
    BY <1>8 DEF Finish, bundle
  <2>2. job.op # Idle
    BY <2>1 DEF RecordInv, LoopStates
  <2> QED BY <2>1, <2>2 DEF RecordInv, LoopStates, Working
<1>9. CASE Clear
  <2>1. job'.op = Idle /\ daemon' \in {"off", "idle"}
    BY <1>9 DEF Clear, NoJob
  <2> QED BY <2>1 DEF RecordInv, LoopStates, Working, JobSteps, Stops, Idle
<1> QED BY <1>1, <1>2, <1>4, <1>5, <1>6, <1>7, <1>8, <1>9 DEF DaemonNext

LEMMA WorldRecord ==
  ASSUME TypeOK, ChildrenInv, RecordInv,
         \/ OperatorRequest \/ ActivationChanges \/ TaskTrigger \/ DaemonDies
         \/ PartDies \/ PhaseAges \/ WatchdogRests \/ WindowEnds \/ UNCHANGED vars
  PROVE  ChildrenInv' /\ RecordInv'
<1>1. CASE \/ OperatorRequest \/ ActivationChanges \/ TaskTrigger
           \/ PhaseAges \/ WatchdogRests \/ WindowEnds \/ UNCHANGED vars
  <2>1. /\ up' = up /\ http' = http /\ job' = job /\ phase' = phase
        /\ daemon' = daemon \/ (daemon = "off" /\ daemon' = "idle")
    BY <1>1 DEF OperatorRequest, ActivationChanges, TaskTrigger, PhaseAges, WatchdogRests,
       WindowEnds, Ensured, Alone, bundle, lifecycle, vars
  <2>2. ChildrenInv'
    BY <2>1 DEF ChildrenInv
  <2>3. RecordInv'
    BY <2>1 DEF RecordInv, LoopStates, JobSteps, Working
  <2> QED BY <2>2, <2>3
<1>2. CASE DaemonDies
  <2>1. daemon' = "off" /\ job' = NoJob /\ SetUp(up \ Children)
    BY <1>2 DEF DaemonDies
  <2>2. ChildrenInv'
    BY <2>1 DEF ChildrenInv, SetUp
  <2>3. job'.op = Idle
    BY <2>1 DEF NoJob
  <2>4. RecordInv'
    BY <2>1, <2>3 DEF RecordInv, LoopStates, Working, JobSteps, Stops, Idle
  <2> QED BY <2>2, <2>4
<1>3. CASE PartDies
  <2>1. /\ up' \subseteq up /\ daemon' = daemon /\ job' = job /\ phase' = phase
        /\ "web" \notin up' => http' = "refuses"
    BY <1>3 DEF PartDies, SetUp, lifecycle, ChildrenInv
  <2>2. ChildrenInv'
    BY <2>1 DEF ChildrenInv
  <2>3. RecordInv'
    BY <2>1 DEF RecordInv
  <2> QED BY <2>2, <2>3
<1> QED BY <1>1, <1>2, <1>3

LEMMA Recorded == Spec => [](ChildrenInv /\ RecordInv)
<1>1. Init => ChildrenInv /\ RecordInv
  BY DEF Init, ChildrenInv, RecordInv, NoJob, LoopStates, JobSteps, Working, Stops, Idle
<1>2. TypeOK /\ ChildrenInv /\ RecordInv /\ [Next]_vars => ChildrenInv' /\ RecordInv'
  BY ServiceRecord, DaemonChildren, DaemonRecord, WorldRecord DEF Next
<1> QED BY <1>1, <1>2, TypeCorrect, PTL DEF Spec

\* The job object keeps its word: however the daemon ended, by a kill, a command
\* that failed or a shutdown, no process it started is left without it, not even
\* one that a failed step had spawned, and a web-server that is gone refuses.
THEOREM NoChildOutlives ==
  Spec => [](/\ daemon = "off" => up \cap Children = {}
             /\ "web" \notin up => http = "refuses")
<1>1. ChildrenInv => /\ daemon = "off" => up \cap Children = {}
                     /\ "web" \notin up => http = "refuses"
  BY DEF ChildrenInv
<1> QED BY <1>1, Recorded, PTL

\* While the daemon works on a command, the phase on record says so, whatever the
\* service corrects in it meanwhile: nobody reads ready or idle, which would
\* clear the recovery budget in the middle of a recovery.
THEOREM WorkIsOnRecord ==
  Spec => [](daemon \in JobSteps \ {"done", "clear"} => phase \in {"starting", "recovering", "stopping"})
<1>1. RecordInv => (daemon \in JobSteps \ {"done", "clear"} => phase \in {"starting", "recovering", "stopping"})
  BY DEF RecordInv, Working, StartPhase
<1> QED BY <1>1, Recorded, PTL

\* A stop that is answered with success has stopped every part of the bundle,
\* whoever asked and whatever was spawned or died before the answer.
THEOREM StopsAreTrue ==
  Spec => [](job.op \in {"StopBundle", "Shutdown"} /\ daemon = "clear" /\ job.outcome = "ok" => up = {})
<1>1. RecordInv => (job.op \in {"StopBundle", "Shutdown"} /\ daemon = "clear" /\ job.outcome = "ok" => up = {})
  BY DEF RecordInv, Stops
<1> QED BY <1>1, Recorded, PTL
=============================================================================

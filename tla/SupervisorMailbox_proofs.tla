----------------------- MODULE SupervisorMailbox_proofs -----------------------
(***************************************************************************)
(* Proofs about SupervisorMailbox, for any number of requesters and of     *)
(* daemon pids and for every policy of the scheduled task.                 *)
(***************************************************************************)
EXTENDS SupervisorMailbox, FiniteSetTheorems, TLAPS

-----------------------------------------------------------------------------
(* Facts about the operators *)

\* The steps that rewrite the state file.
LEMMA StateSteps ==
  DOMAIN NextStep = {"touch", "queue", "register", "start", "progress", "finish",
                     "unregister"}
BY DEF NextStep

\* A process that has rewritten the state file stays of its own kind.
LEMMA NextStepKind ==
  ASSUME NEW s \in DOMAIN NextStep
  PROVE  /\ s \in RequesterSteps => NextStep[s] \in RequesterSteps
         /\ s \in DaemonSteps => NextStep[s] \in DaemonSteps
BY DEF NextStep, RequesterSteps, DaemonSteps

\* unwrap_or_default always gives a state.
LEMMA ReadStateType ==
  ASSUME MailboxAssumption, stateFile \in States \cup BadTexts
  PROVE  ReadState \in States
BY DEF ReadState, States, DefaultState, Ids, Statuses, MailboxAssumption

\* A process that has a command in hand is one that needs it.
CommandInHand ==
  /\ \A r \in Requesters : at[r] # "idle" => cmd[r] \in Commands
  /\ \A d \in Daemons :
       at[d] \in {"start", "run", "progress", "finish", "clear"} => cmd[d] \in Commands

TypeInv == MailboxTypeOK /\ CommandInHand

\* Whatever a step writes into the state file is a state.
LEMMA UpdatedType ==
  ASSUME MailboxAssumption, TypeInv, NEW p \in Processes, NEW s \in States,
         at[p] \in DOMAIN NextStep
  PROVE  Updated(p, s) \in States
<1>1. CASE p \in Requesters
  <2>1. at[p] \in {"touch", "queue"}
    BY <1>1, StateSteps DEF TypeInv, MailboxTypeOK, RequesterSteps
  <2>2. cmd[p].id \in Ids
    BY <1>1, <2>1 DEF TypeInv, CommandInHand, Commands
  <2> QED
    BY <2>1, <2>2 DEF Updated, States, Statuses
<1>2. CASE p \in Daemons
  <2>1. at[p] \in {"register", "start", "progress", "finish", "unregister"}
    BY <1>2, StateSteps DEF TypeInv, MailboxTypeOK, DaemonSteps
  <2>2. at[p] \in {"start", "finish"} => cmd[p].id \in Ids
    BY <1>2 DEF TypeInv, CommandInHand, Commands
  <2>3. outcome[p] \in Outcomes
    BY <1>2 DEF TypeInv, MailboxTypeOK
  <2> QED
    BY <1>2, <2>1, <2>2, <2>3 DEF Updated, States, Statuses, Outcomes
<1> QED
  BY <1>1, <1>2 DEF Processes
\* The type invariant holds at the start and is kept by every step.
LEMMA DefaultStateType == DefaultState \in States
BY MailboxAssumption DEF DefaultState, States, Ids, Statuses

\* A command that is stamped is one the command file may hold.
LEMMA StampType ==
  ASSUME MailboxAssumption, TypeInv, NEW r \in Requesters, at[r] # "idle", Stamp(r)
  PROVE  /\ clock' \in Ids
         /\ cmd' \in [Processes -> Commands \cup {NoCmd}]
         /\ cmd'[r] \in Commands
         /\ \A p \in Processes \ {r} : cmd'[p] = cmd[p]
BY DEF Stamp, MailboxAssumption, TypeInv, MailboxTypeOK, CommandInHand, Commands, Ids, Processes

\* What a step that replaces daemons leaves of the type invariant.
StaysTyped ==
  /\ at' \in [Processes -> RequesterSteps \cup DaemonSteps]
  /\ \A r \in Requesters : at'[r] = at[r]
  /\ \A d \in Daemons : at'[d] \in DaemonSteps
  /\ io' \in [Processes -> {"none", "loaded", "open"}]
  /\ buf' \in [Processes -> States]
  /\ cmd' \in [Processes -> Commands \cup {NoCmd}]
  /\ via' \in [Processes -> {"task", "direct"}]
  /\ deaths' \in 0 .. MaxDeaths
  /\ CommandInHand'

\* Replacing daemons keeps every process well typed and without a command.
LEMMA ReplaceType ==
  ASSUME MailboxAssumption, TypeInv, NEW D \in SUBSET Daemons,
         NEW new \in Daemons \cup {NoPid}, NEW how \in {"task", "direct"},
         Replace(D, new, how)
  PROVE  StaysTyped
<1>1. Cardinality(D) \in Nat
  BY FS_CardinalityType, FS_Subset DEF MailboxAssumption
<1>2. deaths' \in 0 .. MaxDeaths
  BY <1>1 DEF Replace, TypeInv, MailboxTypeOK, MailboxAssumption
<1>3. \A r \in Requesters : at'[r] = at[r] /\ cmd'[r] = cmd[r]
  BY DEF Replace, TypeInv, MailboxTypeOK, MailboxAssumption, Processes
<1>4. \A d \in Daemons :
        at'[d] \in {"start", "run", "progress", "finish", "clear"} =>
          at'[d] = at[d] /\ cmd'[d] = cmd[d]
  BY DEF Replace, TypeInv, MailboxTypeOK, Processes
<1>5. CommandInHand'
  BY <1>3, <1>4 DEF CommandInHand, TypeInv
<1> QED
  BY <1>2, <1>3, <1>5, DefaultStateType
     DEF StaysTyped, Replace, TypeInv, MailboxTypeOK, Processes, RequesterSteps, DaemonSteps

LEMMA TypeInit == MailboxAssumption /\ MailboxInit => TypeInv
BY DefaultStateType
   DEF MailboxAssumption, MailboxInit, TypeInv, MailboxTypeOK, CommandInHand,
       Ids, BadTexts, RequesterSteps, DaemonSteps, Outcomes, Processes

LEMMA TypeStep ==
  ASSUME MailboxAssumption, TypeInv, [MailboxNext]_mailboxVars
  PROVE  TypeInv'
<1> USE DEF TypeInv, MailboxTypeOK, CommandInHand, Processes, cmdSlot, requests, history
<1>1. ASSUME NEW p \in Processes, Load(p) PROVE TypeInv'
  BY <1>1, ReadStateType, UpdatedType
     DEF Load
<1>2. ASSUME NEW p \in Processes, Truncate(p) PROVE TypeInv'
  BY <1>2 DEF Truncate, BadTexts
<1>3. ASSUME NEW p \in Processes, Fill(p) PROVE TypeInv'
  <2>1. stateFile' \in States \cup BadTexts
    BY <1>3 DEF Fill, Overwrite, BadTexts
  <2>2. at' = [at EXCEPT ![p] = NextStep[at[p]]]
    BY <1>3 DEF Fill, Goto
  <2>3. \A r \in Requesters : at'[r] \in RequesterSteps /\ (at'[r] # "idle" => at[r] # "idle")
    BY <1>3, <2>2, NextStepKind DEF Fill, MailboxAssumption, RequesterSteps, NextStep
  <2>4. \A d \in Daemons :
          /\ at'[d] \in DaemonSteps
          /\ at'[d] \in {"run", "clear"} =>
               at[d] \in {"start", "run", "progress", "finish", "clear"}
          /\ at'[d] \in {"start", "progress", "finish"} => at'[d] = at[d]
    BY <1>3, <2>2, NextStepKind DEF Fill, NextStep, DaemonSteps
  <2>5. starts' \in [Commands -> Nat]
    BY <1>3 DEF Fill
  <2> QED
    BY <1>3, <2>1, <2>2, <2>3, <2>4, <2>5, DefaultStateType
       DEF Fill, RequesterSteps, DaemonSteps
<1>4. ASSUME NEW r \in Requesters, Ask(r) PROVE TypeInv'
  BY <1>4 DEF Ask, Commands, Ids, Goto, RequesterSteps, DaemonSteps, Passive
<1>5. ASSUME NEW r \in Requesters, EnsureDaemon(r) PROVE TypeInv'
  <2>1. CASE Stamp(r)
    <3>1. at[r] = "ensure" /\ at' = [at EXCEPT ![r] = "queue"] /\ UNCHANGED <<via, result>>
      BY <1>5, <2>1 DEF EnsureDaemon, Stamp, Goto
    <3> QED
      BY <1>5, <2>1, <3>1, StampType DEF EnsureDaemon, RequesterSteps, Passive, MailboxAssumption
  <2>2. CASE ~Stamp(r)
    BY <1>5, <2>2 DEF EnsureDaemon, Tell, Goto, RequesterSteps, DaemonSteps, Passive, MailboxAssumption
  <2> QED
    BY <2>1, <2>2
<1>6. ASSUME NEW r \in Requesters, Wipe(r) PROVE TypeInv'
  BY <1>6 DEF Wipe, Goto, RequesterSteps, DaemonSteps, Passive
<1>7. ASSUME NEW r \in Requesters, Spawn(r) PROVE TypeInv'
  BY <1>7 DEF Spawn, LaunchFailed, Tell, Goto, RequesterSteps, DaemonSteps, Passive
<1>8. ASSUME NEW r \in Requesters, AwaitReady(r) PROVE TypeInv'
  <2>1. CASE Stamp(r)
    <3>1. at[r] = "ready" /\ at' = [at EXCEPT ![r] = "queue"] /\ UNCHANGED <<via, result>>
      BY <1>8, <2>1 DEF AwaitReady, Stamp, Goto
    <3> QED
      BY <1>8, <2>1, <3>1, StampType DEF AwaitReady, RequesterSteps, Passive, MailboxAssumption
  <2>2. CASE ~Stamp(r)
    BY <1>8, <2>2 DEF AwaitReady, LaunchFailed, Tell, Goto, RequesterSteps, DaemonSteps, Passive, MailboxAssumption
  <2> QED
    BY <2>1, <2>2
<1>9. ASSUME NEW r \in Requesters, OpenCommandFile(r) PROVE TypeInv'
  BY <1>9 DEF OpenCommandFile, BadTexts, Passive
<1>10. ASSUME NEW r \in Requesters, FillCommandFile(r) PROVE TypeInv'
  BY <1>10 DEF FillCommandFile, BadTexts, Overwrite, Goto, RequesterSteps, DaemonSteps, Passive
<1>11. ASSUME NEW r \in Requesters, Answered(r) PROVE TypeInv'
  BY <1>11 DEF Answered, HasAnswer, Tell, Goto, RequesterSteps, DaemonSteps, Passive
<1>12. ASSUME NEW r \in Requesters, TimedOut(r) PROVE TypeInv'
  BY <1>12 DEF TimedOut, Tell, Goto, RequesterSteps, DaemonSteps, Passive
<1>13. ASSUME NEW r \in Requesters, Abandon(r) PROVE TypeInv'
  BY <1>13, DefaultStateType DEF Abandon, MailboxAssumption, Goto, RequesterSteps, DaemonSteps, Passive
<1>14. ASSUME NEW d \in Daemons, Launch(d) PROVE TypeInv'
  <2>1. PICK l \in launching :
          /\ launching' = launching \ {l}
          /\ \/ UNCHANGED <<deaths, at, io, buf, cmd, via>>
             \/ Replace(IF l[1] = "task" THEN TaskDaemons ELSE {}, d, l[1])
    BY <1>14 DEF Launch
  <2>2. l[1] \in {"task", "direct"} /\ launching' \subseteq {"task", "direct"} \X (Requesters \cup {NoPid})
    BY <2>1
  <2>3. UNCHANGED <<stateFile, cmdSlot, outcome, requests, history>>
    BY <1>14 DEF Launch
  <2>4. CASE UNCHANGED <<deaths, at, io, buf, cmd, via>>
    BY <2>2, <2>3, <2>4
  <2>5. CASE Replace(IF l[1] = "task" THEN TaskDaemons ELSE {}, d, l[1])
    <3> HIDE DEF CommandInHand, TypeInv, MailboxTypeOK, Processes
    <3>1. PICK D \in SUBSET Daemons, how \in {"task", "direct"} : Replace(D, d, how)
      <4>1. PICK how \in {"task", "direct"} : how = l[1]
        BY <2>2
      <4>2. PICK D \in SUBSET Daemons : D = IF how = "task" THEN TaskDaemons ELSE {}
        BY DEF TaskDaemons
      <4>3. Replace(D, d, how)
        BY <2>5, <4>1, <4>2 DEF Replace
      <4> QED
        BY <4>3
    <3>2. StaysTyped
      BY <3>1, ReplaceType
    <3> QED
      BY <2>2, <2>3, <3>2 DEF StaysTyped, TypeInv, MailboxTypeOK
  <2> QED
    BY <2>1, <2>4, <2>5
<1>15. ASSUME NEW d \in Daemons, TakeOver(d) PROVE TypeInv'
  <2>1. CASE Replace({ReadState.pid}, NoPid, "task") /\ Live(ReadState.pid)
    <3>1. {ReadState.pid} \in SUBSET Daemons
      BY <2>1 DEF Live
    <3> HIDE DEF CommandInHand, TypeInv, MailboxTypeOK
    <3>2. StaysTyped
      BY <2>1, <3>1, ReplaceType
    <3> QED
      BY <1>15, <3>2 DEF TakeOver, StaysTyped, TypeInv, MailboxTypeOK
  <2>2. CASE Exit(d) /\ UNCHANGED <<io, buf, via, deaths>>
    BY <1>15, <2>2 DEF TakeOver, Exit, Goto, DaemonSteps, MailboxAssumption
  <2>3. CASE Goto(d, "register") /\ UNCHANGED <<io, buf, cmd, via, deaths>>
    BY <1>15, <2>3 DEF TakeOver, Goto, DaemonSteps, MailboxAssumption
  <2> QED
    BY <1>15, <2>1, <2>2, <2>3 DEF TakeOver
<1>16. ASSUME NEW d \in Daemons, Poll(d) PROVE TypeInv'
  BY <1>16 DEF Poll, Exit, Goto, RequesterSteps, DaemonSteps, Aside
<1>17. ASSUME NEW d \in Daemons, Report(d) PROVE TypeInv'
  BY <1>17 DEF Report, Goto, RequesterSteps, DaemonSteps, Aside
<1>18. ASSUME NEW d \in Daemons, Run(d) PROVE TypeInv'
  BY <1>18 DEF Run, Goto, RequesterSteps, DaemonSteps, Aside
<1>19. ASSUME NEW d \in Daemons, Clear(d) PROVE TypeInv'
  BY <1>19 DEF Clear, Outcomes, Goto, RequesterSteps, DaemonSteps, Aside
<1>20. ASSUME NEW d \in Daemons, Crash(d) PROVE TypeInv'
  BY <1>20, ReplaceType DEF Crash, StaysTyped
<1>21. ASSUME TaskTrigger PROVE TypeInv'
  BY <1>21 DEF TaskTrigger
<1>22. ASSUME UNCHANGED mailboxVars PROVE TypeInv'
  BY <1>22 DEF mailboxVars
<1> QED
  BY <1>1, <1>2, <1>3, <1>4, <1>5, <1>6, <1>7, <1>8, <1>9, <1>10, <1>11, <1>12,
     <1>13, <1>14, <1>15, <1>16, <1>17, <1>18, <1>19, <1>20, <1>21, <1>22
     DEF MailboxNext, RequesterNext, DaemonNext

-----------------------------------------------------------------------------
(* Answers are true *)

\* A final status, wherever it is kept, comes from an execution under its id.
Truthful(s) ==
  s.status \in Outcomes => \E e \in executed : e[1].id = s.id /\ e[2] = s.status

TruthInv ==
  /\ Truthful(ReadState)
  /\ \A p \in Processes : Truthful(buf[p])
  /\ \A d \in Daemons : at[d] = "finish" => <<cmd[d], outcome[d]>> \in executed
  /\ \A r \in Requesters : result[r] # "none" => at[r] = "done"
  /\ AnswersAreTrue

LEMMA DefaultTruthful == Truthful(DefaultState)
BY DEF Truthful, DefaultState, Outcomes

\* What a process is about to write is as truthful as what it has read.
LEMMA UpdatedTruthful ==
  ASSUME MailboxAssumption, TypeInv, TruthInv, NEW p \in Processes,
         at[p] \in DOMAIN NextStep
  PROVE  Truthful(Updated(p, ReadState))
<1>1. ReadState \in States
  BY ReadStateType DEF TypeInv, MailboxTypeOK
<1>2. CASE at[p] = "finish"
  <2>1. p \in Daemons
    BY <1>2 DEF TypeInv, MailboxTypeOK, RequesterSteps, Processes
  <2>2. Updated(p, ReadState) = [pid |-> p, id |-> cmd[p].id, status |-> outcome[p]]
    BY <1>2 DEF Updated
  <2>3. <<cmd[p], outcome[p]>> \in executed
    BY <1>2, <2>1 DEF TruthInv
  <2>4. \E e \in executed : e[1].id = cmd[p].id /\ e[2] = outcome[p]
    BY <2>3
  <2> QED
    BY <2>2, <2>4 DEF Truthful
<1>3. CASE at[p] \in {"queue", "start"}
  <2>1. Updated(p, ReadState).status \in {"queued", "running"}
    BY <1>1, <1>3 DEF Updated, States
  <2> QED
    BY <2>1 DEF Truthful, Outcomes
<1>4. CASE at[p] \in {"touch", "progress", "register", "unregister"}
  <2>1. /\ Updated(p, ReadState).status = ReadState.status
        /\ Updated(p, ReadState).id = ReadState.id
    BY <1>1, <1>4 DEF Updated, States
  <2> QED
    BY <2>1 DEF TruthInv, Truthful
<1> QED
  BY <1>2, <1>3, <1>4, StateSteps

LEMMA TruthInit == MailboxAssumption /\ MailboxInit => TruthInv
BY DefaultTruthful
   DEF MailboxInit, TruthInv, ReadState, BadTexts, AnswersAreTrue, Outcomes, Processes

LEMMA TruthStep ==
  ASSUME MailboxAssumption, TypeInv, TruthInv, [MailboxNext]_mailboxVars
  PROVE  TruthInv'
<1> USE DEF TypeInv, MailboxTypeOK, TruthInv, Truthful, AnswersAreTrue, Processes,
            cmdSlot, requests, history
<1>1. ASSUME NEW p \in Processes, Load(p) PROVE TruthInv'
  <2>1. Truthful(Updated(p, ReadState))
    BY <1>1, UpdatedTruthful DEF Load
  <2> QED
    BY <1>1, <2>1 DEF Load, ReadState
<1>2. ASSUME NEW p \in Processes, Truncate(p) PROVE TruthInv'
  BY <1>2, DefaultTruthful DEF Truncate, ReadState, BadTexts
<1>3. ASSUME NEW p \in Processes, Fill(p) PROVE TruthInv'
  <2>1. ReadState' \in {DefaultState, buf[p]}
    BY <1>3 DEF Fill, ReadState, Overwrite, BadTexts
  <2>2. \A d \in Daemons : at'[d] = "finish" => at[d] = "finish"
    BY <1>3 DEF Fill, Goto, NextStep
  <2>3. \A r \in Requesters : at[r] = "done" => at'[r] = "done"
    BY <1>3 DEF Fill, Goto, NextStep
  <2> QED
    BY <1>3, <2>1, <2>2, <2>3, DefaultTruthful DEF Fill
<1>4. ASSUME NEW r \in Requesters, Ask(r) PROVE TruthInv'
  BY <1>4 DEF Ask, Goto, Passive, ReadState, Outcomes, MailboxAssumption
<1>5. ASSUME NEW r \in Requesters, EnsureDaemon(r) PROVE TruthInv'
  BY <1>5 DEF EnsureDaemon, Stamp, Tell, Goto, Passive, ReadState, Outcomes, MailboxAssumption
<1>6. ASSUME NEW r \in Requesters, Wipe(r) PROVE TruthInv'
  BY <1>6 DEF Wipe, Goto, Passive, ReadState, MailboxAssumption
<1>7. ASSUME NEW r \in Requesters, Spawn(r) PROVE TruthInv'
  BY <1>7 DEF Spawn, LaunchFailed, Tell, Goto, Passive, ReadState, Outcomes, MailboxAssumption
<1>8. ASSUME NEW r \in Requesters, AwaitReady(r) PROVE TruthInv'
  BY <1>8 DEF AwaitReady, Stamp, LaunchFailed, Tell, Goto, Passive, ReadState, Outcomes, MailboxAssumption
<1>9. ASSUME NEW r \in Requesters, OpenCommandFile(r) PROVE TruthInv'
  BY <1>9 DEF OpenCommandFile, Passive, ReadState
<1>10. ASSUME NEW r \in Requesters, FillCommandFile(r) PROVE TruthInv'
  BY <1>10 DEF FillCommandFile, Goto, Passive, ReadState, MailboxAssumption
<1>11. ASSUME NEW r \in Requesters, Answered(r) PROVE TruthInv'
  BY <1>11 DEF Answered, HasAnswer, Tell, Goto, Passive, ReadState, MailboxAssumption
<1>12. ASSUME NEW r \in Requesters, TimedOut(r) PROVE TruthInv'
  BY <1>12 DEF TimedOut, Tell, Goto, Passive, ReadState, Outcomes, MailboxAssumption
<1>13. ASSUME NEW r \in Requesters, Abandon(r) PROVE TruthInv'
  BY <1>13, DefaultTruthful DEF Abandon, Goto, Passive, ReadState, MailboxAssumption
<1>14. ASSUME NEW D \in SUBSET Daemons, NEW new \in Daemons \cup {NoPid}, NEW how,
              Replace(D, new, how), UNCHANGED <<stateFile, outcome, requests, history>>
       PROVE  TruthInv'
  <2>1. \A p \in Processes : buf'[p] \in {buf[p], DefaultState}
    BY <1>14 DEF Replace
  <2>2. \A d \in Daemons : at'[d] = "finish" => at[d] = "finish" /\ cmd'[d] = cmd[d]
    BY <1>14 DEF Replace
  <2>3. \A r \in Requesters : at'[r] = at[r] /\ cmd'[r] = cmd[r]
    BY <1>14 DEF Replace, MailboxAssumption
  <2> QED
    BY <1>14, <2>1, <2>2, <2>3, DefaultTruthful DEF ReadState
<1>15. ASSUME NEW d \in Daemons, Launch(d) PROVE TruthInv'
  <2>1. PICK l \in launching :
          \/ UNCHANGED <<at, buf, cmd>>
          \/ Replace(IF l[1] = "task" THEN TaskDaemons ELSE {}, d, l[1])
    BY <1>15 DEF Launch
  <2>2. PICK D \in SUBSET Daemons : D = IF l[1] = "task" THEN TaskDaemons ELSE {}
    BY DEF TaskDaemons
  <2>3. CASE Replace(IF l[1] = "task" THEN TaskDaemons ELSE {}, d, l[1])
    <3>1. Replace(D, d, l[1])
      BY <2>2, <2>3 DEF Replace
    <3> QED
      BY <1>15, <3>1, <1>14 DEF Launch
  <2> QED
    BY <1>15, <2>1, <2>3 DEF Launch, ReadState
<1>16. ASSUME NEW d \in Daemons, TakeOver(d) PROVE TruthInv'
  <2>1. CASE Replace({ReadState.pid}, NoPid, "task") /\ Live(ReadState.pid)
    <3>1. {ReadState.pid} \in SUBSET Daemons
      BY <2>1 DEF Live
    <3> QED
      BY <1>16, <2>1, <3>1, <1>14 DEF TakeOver
  <2>2. CASE UNCHANGED buf /\ (Exit(d) \/ (Goto(d, "register") /\ UNCHANGED cmd))
    BY <1>16, <2>2 DEF TakeOver, Exit, Goto, ReadState, MailboxAssumption
  <2> QED
    BY <1>16, <2>1, <2>2 DEF TakeOver
<1>17. ASSUME NEW d \in Daemons, Poll(d) PROVE TruthInv'
  BY <1>17 DEF Poll, Exit, Goto, Aside, ReadState, MailboxAssumption
<1>18. ASSUME NEW d \in Daemons, Report(d) PROVE TruthInv'
  BY <1>18 DEF Report, Goto, Aside, ReadState, MailboxAssumption
<1>19. ASSUME NEW d \in Daemons, Run(d) PROVE TruthInv'
  BY <1>19 DEF Run, Goto, Aside, ReadState, MailboxAssumption
<1>20. ASSUME NEW d \in Daemons, Clear(d) PROVE TruthInv'
  BY <1>20 DEF Clear, Goto, Aside, ReadState, MailboxAssumption
<1>21. ASSUME NEW d \in Daemons, Crash(d) PROVE TruthInv'
  <2>1. {d} \in SUBSET Daemons
    OBVIOUS
  <2> QED
    BY <1>21, <2>1, <1>14 DEF Crash
<1>22. ASSUME TaskTrigger PROVE TruthInv'
  BY <1>22 DEF TaskTrigger, ReadState
<1>23. ASSUME UNCHANGED mailboxVars PROVE TruthInv'
  BY <1>23 DEF mailboxVars, ReadState
<1> QED
  BY <1>1, <1>2, <1>3, <1>4, <1>5, <1>6, <1>7, <1>8, <1>9, <1>10, <1>11, <1>12,
     <1>13, <1>15, <1>16, <1>17, <1>18, <1>19, <1>20, <1>21, <1>22, <1>23
     DEF MailboxNext, RequesterNext, DaemonNext

-----------------------------------------------------------------------------
(* Theorems *)

\* Every variable keeps its type, whatever the processes do.
THEOREM TypeCorrect == MailboxSpec => []MailboxTypeOK
<1>1. MailboxInit => TypeInv
  BY TypeInit, MailboxAssumption
<1>2. TypeInv /\ [MailboxNext]_mailboxVars => TypeInv'
  BY TypeStep, MailboxAssumption
<1>3. TypeInv => MailboxTypeOK
  BY DEF TypeInv
<1> QED
  BY <1>1, <1>2, <1>3, PTL DEF MailboxSpec

\* A requester told "ok" or "error" is told what an execution of a command with
\* its id came to, for any number of racing requesters and daemons.
THEOREM AnswersTrue == MailboxSpec => []AnswersAreTrue
<1> DEFINE IInv == TypeInv /\ TruthInv
<1>1. MailboxInit => IInv
  BY TypeInit, TruthInit, MailboxAssumption
<1>2. IInv /\ [MailboxNext]_mailboxVars => IInv'
  BY TypeStep, TruthStep, MailboxAssumption
<1>3. IInv => AnswersAreTrue
  BY DEF TruthInv
<1> QED
  BY <1>1, <1>2, <1>3, PTL DEF MailboxSpec
-----------------------------------------------------------------------------
(* Commands are genuine, and their ids distinct if the clock moves on *)

BeforeQueue == {"touch", "ensure", "wipe", "spawn", "ready"}
InService   == {"start", "run", "progress", "finish", "clear"}

\* c is the command its requester has stamped.
Genuine(c) ==
  /\ c.from \in Requesters
  /\ c = cmd[c.from]
  /\ c.id # 0
  /\ at[c.from] \in {"queue", "file", "wait", "done"}

StampInv ==
  /\ clock # 0
  /\ \A r \in Requesters :
       /\ at[r] \in BeforeQueue => cmd[r].id = 0
       /\ at[r] \in {"queue", "file", "wait"} => cmd[r].id # 0
       /\ at[r] # "idle" => cmd[r].from = r /\ cmd[r].id <= clock
  /\ ClockSteps \subseteq {1} =>
       \A r, q \in Requesters :
         at[r] # "idle" /\ at[q] # "idle" /\ cmd[r].id = cmd[q].id /\ cmd[r].id # 0 => r = q

GenuineInv ==
  /\ cmdFile \notin BadTexts \cup {NoCmd} => Genuine(cmdFile)
  /\ \A d \in Daemons : at[d] \in InService => Genuine(cmd[d])
  /\ \A e \in executed : Genuine(e[1])

IdInv == StampInv /\ GenuineInv

LEMMA IdInit == MailboxAssumption /\ MailboxInit => IdInv
BY DEF MailboxInit, IdInv, StampInv, GenuineInv, BeforeQueue, InService, Processes, MailboxAssumption

\* Stamping keeps the ids distinct when the clock moves on, and disturbs no
\* command that is stamped already.
LEMMA StampKeeps ==
  ASSUME MailboxAssumption, TypeInv, IdInv,
         NEW r \in Requesters, at[r] \in {"ensure", "ready"}, Stamp(r),
         UNCHANGED <<cmdFile, executed>>
  PROVE  IdInv'
<1> USE DEF TypeInv, MailboxTypeOK, CommandInHand, Processes, Commands, Ids
<1>1. PICK step \in ClockSteps :
         /\ clock' = clock + step
         /\ cmd' = [cmd EXCEPT ![r].id = clock + step]
         /\ at' = [at EXCEPT ![r] = "queue"]
  BY DEF Stamp, Goto
<1>2. cmd'[r].id = clock + step /\ cmd'[r].from = cmd[r].from
  BY <1>1
<1>3. \A p \in Processes \ {r} : cmd'[p] = cmd[p] /\ at'[p] = at[p]
  BY <1>1
<1>4. /\ clock \in Nat \ {0} /\ step \in {0, 1}
      /\ \A q \in Requesters : at[q] # "idle" => cmd[q].id \in Nat
  BY DEF MailboxAssumption, IdInv, StampInv
<1>5. StampInv'
  <2>1. clock' # 0 /\ cmd'[r].id # 0 /\ clock <= clock' /\ cmd'[r].id = clock'
    BY <1>1, <1>2, <1>4
  <2>2. ASSUME NEW q \in Requesters
        PROVE  /\ at'[q] \in BeforeQueue => cmd'[q].id = 0
               /\ at'[q] \in {"queue", "file", "wait"} => cmd'[q].id # 0
               /\ at'[q] # "idle" => cmd'[q].from = q /\ cmd'[q].id <= clock'
    BY <1>1, <1>2, <1>3, <1>4, <2>1 DEF IdInv, StampInv, BeforeQueue
  <2>3. ASSUME ClockSteps \subseteq {1}, NEW p \in Requesters, NEW q \in Requesters,
               at'[p] # "idle", at'[q] # "idle", cmd'[p].id = cmd'[q].id, cmd'[p].id # 0
        PROVE  p = q
    <3>1. step = 1
      BY <2>3
    <3>2. \A x \in Requesters \ {r} : at'[x] # "idle" => cmd'[x].id # cmd'[r].id
      BY <1>2, <1>3, <1>4, <3>1 DEF IdInv, StampInv
    <3> QED
      BY <1>3, <2>3, <3>2 DEF IdInv, StampInv
  <2> QED
    BY <2>1, <2>2, <2>3 DEF StampInv
<1>6. ASSUME NEW c, Genuine(c) PROVE Genuine(c)'
  BY <1>3, <1>6 DEF Genuine
<1>7. GenuineInv'
  BY <1>3, <1>6 DEF IdInv, GenuineInv, MailboxAssumption
<1> QED
  BY <1>5, <1>7 DEF IdInv

LEMMA IdStep ==
  ASSUME MailboxAssumption, TypeInv, IdInv, [MailboxNext]_mailboxVars
  PROVE  IdInv'
<1> USE DEF TypeInv, MailboxTypeOK, CommandInHand, IdInv, StampInv, GenuineInv, Genuine,
            BeforeQueue, InService, Processes, cmdSlot, requests, history
<1>1. ASSUME NEW p \in Processes, Load(p) \/ Truncate(p) PROVE IdInv'
  BY <1>1 DEF Load, Truncate
<1>2. ASSUME NEW p \in Processes, Fill(p) PROVE IdInv'
  BY <1>2 DEF Fill, Goto, NextStep, RequesterSteps, DaemonSteps, MailboxAssumption
<1>3. ASSUME NEW r \in Requesters, Ask(r) PROVE IdInv'
  <2>1. PICK s \in {"touch", "ensure"} : at' = [at EXCEPT ![r] = s]
    BY <1>3 DEF Ask, Goto
  <2>2. cmd'[r].id = 0 /\ cmd'[r].from = r
    BY <1>3 DEF Ask
  <2>3. \A p \in Processes \ {r} : cmd'[p] = cmd[p] /\ at'[p] = at[p]
    BY <1>3, <2>1 DEF Ask
  <2>4. clock \in Nat /\ UNCHANGED <<clock, cmdFile, executed>> /\ at[r] = "idle"
    BY <1>3 DEF Ask, Passive, Ids, MailboxAssumption
  <2>5. StampInv'
    BY <2>1, <2>2, <2>3, <2>4
  <2>6. GenuineInv'
    BY <2>3, <2>4, MailboxAssumption DEF MailboxAssumption
  <2> QED
    BY <2>5, <2>6
<1>4. ASSUME NEW r \in Requesters, EnsureDaemon(r) PROVE IdInv'
  <2>1. CASE Stamp(r)
    BY <1>4, <2>1, StampKeeps DEF EnsureDaemon, Passive
  <2>2. CASE ~Stamp(r)
    BY <1>4, <2>2 DEF EnsureDaemon, Tell, Goto, Passive, MailboxAssumption
  <2> QED
    BY <2>1, <2>2
<1>5. ASSUME NEW r \in Requesters, Wipe(r) PROVE IdInv'
  BY <1>5 DEF Wipe, Goto, Passive, MailboxAssumption
<1>6. ASSUME NEW r \in Requesters, Spawn(r) PROVE IdInv'
  BY <1>6 DEF Spawn, LaunchFailed, Tell, Goto, Passive, MailboxAssumption
<1>7. ASSUME NEW r \in Requesters, AwaitReady(r) PROVE IdInv'
  <2>1. CASE Stamp(r)
    BY <1>7, <2>1, StampKeeps DEF AwaitReady, Passive
  <2>2. CASE ~Stamp(r)
    BY <1>7, <2>2 DEF AwaitReady, LaunchFailed, Tell, Goto, Passive, MailboxAssumption
  <2> QED
    BY <2>1, <2>2
<1>8. ASSUME NEW r \in Requesters, OpenCommandFile(r) PROVE IdInv'
  BY <1>8 DEF OpenCommandFile, Passive, BadTexts
<1>9. ASSUME NEW r \in Requesters, FillCommandFile(r) PROVE IdInv'
  <2>1. cmdFile' \in {cmdFile, cmd[r], Garbled}
    BY <1>9 DEF FillCommandFile, Overwrite
  <2>2. at' = [at EXCEPT ![r] = "wait"] /\ at[r] = "file" /\ UNCHANGED <<cmd, clock, executed>>
    BY <1>9 DEF FillCommandFile, Goto, Passive
  <2>3. cmd[r].from = r /\ cmd[r].id # 0
    BY <2>2
  <2> QED
    BY <2>1, <2>2, <2>3 DEF BadTexts, MailboxAssumption
<1>10. ASSUME NEW r \in Requesters, Answered(r) \/ TimedOut(r) PROVE IdInv'
  BY <1>10 DEF Answered, TimedOut, Tell, Goto, Passive, MailboxAssumption
<1>11. ASSUME NEW r \in Requesters, Abandon(r) PROVE IdInv'
  BY <1>11 DEF Abandon, Goto, MailboxAssumption
<1>12. ASSUME NEW D \in SUBSET Daemons, NEW new \in Daemons \cup {NoPid}, NEW how,
              Replace(D, new, how), UNCHANGED <<cmdFile, clock, executed>>
       PROVE  IdInv'
  <2>1. \A d \in Daemons : at'[d] \in InService => at'[d] = at[d] /\ cmd'[d] = cmd[d]
    BY <1>12 DEF Replace
  <2>2. \A r \in Requesters : at'[r] = at[r] /\ cmd'[r] = cmd[r]
    BY <1>12 DEF Replace, MailboxAssumption
  <2> QED
    BY <1>12, <2>1, <2>2
<1>13. ASSUME NEW d \in Daemons, Launch(d) PROVE IdInv'
  <2>1. PICK l \in launching :
          \/ UNCHANGED <<at, cmd>>
          \/ Replace(IF l[1] = "task" THEN TaskDaemons ELSE {}, d, l[1])
    BY <1>13 DEF Launch
  <2>2. PICK D \in SUBSET Daemons : D = IF l[1] = "task" THEN TaskDaemons ELSE {}
    BY DEF TaskDaemons
  <2>3. CASE Replace(IF l[1] = "task" THEN TaskDaemons ELSE {}, d, l[1])
    <3>1. Replace(D, d, l[1])
      BY <2>2, <2>3 DEF Replace
    <3> QED
      BY <1>13, <3>1, <1>12 DEF Launch
  <2> QED
    BY <1>13, <2>1, <2>3 DEF Launch
<1>14. ASSUME NEW d \in Daemons, TakeOver(d) PROVE IdInv'
  <2>1. CASE Replace({ReadState.pid}, NoPid, "task") /\ Live(ReadState.pid)
    <3>1. {ReadState.pid} \in SUBSET Daemons
      BY <2>1 DEF Live
    <3> QED
      BY <1>14, <2>1, <3>1, <1>12 DEF TakeOver
  <2>2. CASE Exit(d) \/ (Goto(d, "register") /\ UNCHANGED cmd)
    BY <1>14, <2>2 DEF TakeOver, Exit, Goto, MailboxAssumption
  <2> QED
    BY <1>14, <2>1, <2>2 DEF TakeOver
<1>15. ASSUME NEW d \in Daemons, Poll(d) PROVE IdInv'
  <2>1. \A r \in Requesters : at'[r] = at[r] /\ cmd'[r] = cmd[r]
    BY <1>15 DEF Poll, Exit, Goto, MailboxAssumption
  <2>2. UNCHANGED <<cmdFile, clock, executed>>
    BY <1>15 DEF Poll, Aside
  <2>3. \A e \in Daemons : at'[e] \in InService =>
          \/ cmd'[e] = cmd[e] /\ at'[e] = at[e]
          \/ cmd'[e] = cmdFile /\ cmdFile \notin BadTexts \cup {NoCmd}
    BY <1>15 DEF Poll, Exit, Goto
  <2> QED
    BY <2>1, <2>2, <2>3
<1>16. ASSUME NEW d \in Daemons, Report(d) PROVE IdInv'
  BY <1>16 DEF Report, Goto, Aside, MailboxAssumption
<1>17. ASSUME NEW d \in Daemons, Run(d) PROVE IdInv'
  BY <1>17 DEF Run, Goto, Aside, MailboxAssumption
<1>18. ASSUME NEW d \in Daemons, Clear(d) PROVE IdInv'
  BY <1>18 DEF Clear, Goto, Aside, MailboxAssumption
<1>19. ASSUME NEW d \in Daemons, Crash(d) PROVE IdInv'
  <2>1. {d} \in SUBSET Daemons
    OBVIOUS
  <2> QED
    BY <1>19, <2>1, <1>12 DEF Crash
<1>20. ASSUME TaskTrigger \/ UNCHANGED mailboxVars PROVE IdInv'
  BY <1>20 DEF TaskTrigger, mailboxVars
<1> QED
  BY <1>1, <1>2, <1>3, <1>4, <1>5, <1>6, <1>7, <1>8, <1>9, <1>10, <1>11,
     <1>13, <1>14, <1>15, <1>16, <1>17, <1>18, <1>19, <1>20
     DEF MailboxNext, RequesterNext, DaemonNext

\* With distinct ids, an execution under the requester's id is its own.
LEMMA TrueIsOwn ==
  ASSUME ClockSteps \subseteq {1}, TypeInv, TruthInv, IdInv
  PROVE  AnswersAreOwn
<1> SUFFICES ASSUME NEW r \in Requesters, result[r] \in Outcomes
             PROVE  <<cmd[r], result[r]>> \in executed
  BY DEF AnswersAreOwn
<1>1. PICK e \in executed : e[1].id = cmd[r].id /\ e[2] = result[r]
  BY DEF TruthInv, AnswersAreTrue
<1>2. Genuine(e[1])
  BY DEF IdInv, GenuineInv
<1>3. at[r] = "done"
  BY DEF TruthInv, Outcomes
<1>4. e[1] = cmd[r]
  BY <1>1, <1>2, <1>3 DEF IdInv, StampInv, Genuine
<1>5. e = <<e[1], e[2]>>
  BY DEF TypeInv, MailboxTypeOK
<1> QED
  BY <1>1, <1>4, <1>5

-----------------------------------------------------------------------------
(* Theorems that need distinct ids *)

\* If the clock moves on between any two requests, a requester is only ever told
\* how its own command ended.
THEOREM AnswersOwn == ClockSteps \subseteq {1} /\ MailboxSpec => []AnswersAreOwn
<1> DEFINE IInv == TypeInv /\ TruthInv /\ IdInv
<1> SUFFICES ASSUME ClockSteps \subseteq {1} PROVE MailboxSpec => []AnswersAreOwn
  OBVIOUS
<1>1. MailboxInit => IInv
  BY TypeInit, TruthInit, IdInit, MailboxAssumption
<1>2. IInv /\ [MailboxNext]_mailboxVars => IInv'
  BY TypeStep, TruthStep, IdStep, MailboxAssumption
<1>3. IInv => AnswersAreOwn
  BY TrueIsOwn
<1> QED
  BY <1>1, <1>2, <1>3, PTL DEF MailboxSpec
-----------------------------------------------------------------------------
(* A command nobody competes with is kept *)

Done(c) == \E o \in Outcomes : <<c, o>> \in executed

\* What is known of the command of r, the sole requester: no daemon can have it
\* before it is in the file, whose only writer is r, and it leaves the file only
\* when it has been executed.
SoleInv(r) ==
  /\ at[r] \notin {"wait", "done"} => cmdFile \in BadTexts \cup {NoCmd}
  /\ io[r] = "loaded" => at[r] \in {"touch", "queue"}
  /\ io[r] = "open" /\ at[r] = "file" => cmdFile = EmptyText /\ r \in writers
  /\ cmdFile \notin BadTexts \cup {NoCmd} => cmdFile = cmd[r]
  /\ \A d \in Daemons : at[d] \in InService => cmd[d] = cmd[r] /\ at[r] \in {"wait", "done"}
  /\ \A d \in Daemons : at[d] = "clear" => Done(cmd[d])
  /\ at[r] = "wait" => cmdFile = cmd[r] \/ Done(cmd[r])

LEMMA SoleInit ==
  ASSUME MailboxAssumption, NEW r \in Requesters, MailboxInit
  PROVE  SoleInv(r)
BY DEF MailboxAssumption, MailboxInit, SoleInv, Processes, InService

\* A step that leaves the file and r alone, and puts no daemon into service.
LEMMA SoleKeeps ==
  ASSUME MailboxAssumption, NEW r \in Requesters, SoleInv(r),
         UNCHANGED <<cmdFile, writers>>, executed \subseteq executed',
         at'[r] = at[r], cmd'[r] = cmd[r], io'[r] = io[r],
         \A d \in Daemons : at'[d] \in InService =>
           cmd'[d] = cmd[d] /\ at[d] \in InService /\ (at'[d] = "clear" => Done(cmd[d]))
  PROVE  SoleInv(r)'
BY DEF SoleInv, Done, InService

LEMMA SoleStep ==
  ASSUME MailboxAssumption, NEW r \in Requesters, Requesters = {r}, TypeInv, TruthInv, SoleInv(r),
         [MailboxNext]_mailboxVars
  PROVE  SoleInv(r)'
<1> USE DEF TypeInv, MailboxTypeOK, Processes, cmdSlot, requests, history
<1>0. /\ \A d \in Daemons : d # r
      /\ at[r] \in RequesterSteps
      /\ \A d \in Daemons : at[d] = "finish" => Done(cmd[d])
  BY DEF MailboxAssumption, TruthInv, Done
<1>1. ASSUME NEW p \in Processes, Load(p) \/ Truncate(p) PROVE SoleInv(r)'
  <2>1. (at[p] \in DOMAIN NextStep /\ io[p] = "none") \/ io[p] = "loaded"
    BY <1>1 DEF Load, Truncate
  <2>2. UNCHANGED <<cmdFile, writers, executed, at, cmd>>
    BY <1>1 DEF Load, Truncate
  <2>3. io'[r] = "open" /\ at[r] = "file" => io[r] = "open"
    BY <1>1, <2>1 DEF Load, Truncate, SoleInv
  <2>4. io'[r] = "loaded" => at[r] \in {"touch", "queue"}
    BY <1>0, <1>1, <2>1, StateSteps DEF Load, Truncate, SoleInv, RequesterSteps
  <2> QED BY <2>2, <2>3, <2>4 DEF SoleInv, Done
<1>2. ASSUME NEW p \in Processes, Fill(p) PROVE SoleInv(r)'
  <2>1. /\ at' = [at EXCEPT ![p] = NextStep[at[p]]]
        /\ io' = [io EXCEPT ![p] = "none"]
        /\ UNCHANGED <<cmdFile, writers, executed, cmd>>
        /\ at[p] \in DOMAIN NextStep
    BY <1>2 DEF Fill, Goto
  <2>2. CASE p = r
    <3>1. at[r] \in {"touch", "queue"}
      BY <1>0, <2>1, <2>2, StateSteps DEF RequesterSteps
    <3>2. at'[r] \in {"ensure", "file"} /\ io'[r] = "none"
          /\ \A d \in Daemons : at'[d] = at[d]
      BY <1>0, <2>1, <2>2, <3>1 DEF NextStep
    <3> QED BY <2>1, <3>1, <3>2 DEF SoleInv, Done, InService
  <2>3. CASE p # r
    <3>1. p \in Daemons /\ at[p] \in DaemonSteps
      BY <2>3
    <3>2. /\ at'[p] \in InService => at[p] \in {"start", "progress", "finish"}
          /\ at'[p] = "clear" => at[p] = "finish"
      BY <2>1, <3>1 DEF NextStep, InService, DaemonSteps
    <3>3. /\ at'[r] = at[r] /\ cmd'[r] = cmd[r] /\ io'[r] = io[r]
          /\ \A d \in Daemons : d # p => at'[d] = at[d]
      BY <2>1, <2>3
    <3>4. \A d \in Daemons : at'[d] \in InService =>
            cmd'[d] = cmd[d] /\ at[d] \in InService /\ (at'[d] = "clear" => Done(cmd[d]))
      BY <1>0, <2>1, <3>2, <3>3 DEF InService, SoleInv
    <3> QED BY <2>1, <3>3, <3>4, SoleKeeps
  <2> QED BY <2>2, <2>3
\* What r does before its command is in the file.
<1>3. ASSUME at[r] \notin {"wait", "done"}, cmdFile' \in BadTexts \cup {NoCmd},
             at'[r] # "wait", io'[r] = "open" /\ at'[r] = "file" => cmdFile' = EmptyText /\ r \in writers',
             UNCHANGED executed, \A d \in Daemons : at'[d] = at[d],
             io'[r] = "loaded" => at'[r] \in {"touch", "queue"}
      PROVE  SoleInv(r)'
  BY <1>3 DEF SoleInv, InService
<1>4. CASE Ask(r)
  BY <1>0, <1>3, <1>4 DEF Ask, Goto, Passive, SoleInv
<1>5. CASE EnsureDaemon(r)
  BY <1>0, <1>3, <1>5 DEF EnsureDaemon, Stamp, Tell, Goto, Passive, SoleInv
<1>6. CASE Wipe(r)
  BY <1>0, <1>3, <1>6 DEF Wipe, Goto, Passive, SoleInv
<1>7. CASE Spawn(r)
  BY <1>0, <1>3, <1>7 DEF Spawn, LaunchFailed, Tell, Goto, Passive, SoleInv
<1>8. CASE AwaitReady(r)
  BY <1>0, <1>3, <1>8 DEF AwaitReady, LaunchFailed, Stamp, Tell, Goto, Passive, SoleInv
<1>9. CASE OpenCommandFile(r)
  BY <1>0, <1>3, <1>9 DEF OpenCommandFile, Passive, BadTexts, SoleInv
<1>10. CASE FillCommandFile(r)
  <2>1. cmdFile = EmptyText /\ r \in writers /\ at[r] = "file"
    BY <1>10 DEF FillCommandFile, SoleInv
  <2>2. cmdFile' = cmd[r] /\ UNCHANGED <<cmd, executed>>
    BY <1>10, <2>1 DEF FillCommandFile, Overwrite, Passive
  <2>3. at' = [at EXCEPT ![r] = "wait"]
    BY <1>10 DEF FillCommandFile, Goto
  <2>5. io'[r] = "none"
    BY <1>10 DEF FillCommandFile
  <2>4. \A d \in Daemons : at[d] \notin InService /\ at'[d] = at[d]
    BY <1>0, <2>1, <2>3 DEF SoleInv
  <2> QED BY <2>2, <2>3, <2>4, <2>5 DEF SoleInv, InService
<1>11. CASE Answered(r) \/ TimedOut(r)
  <2>1. /\ at[r] = "wait" /\ at' = [at EXCEPT ![r] = "done"]
        /\ UNCHANGED <<cmdFile, writers, io, cmd, executed>>
    BY <1>11 DEF Answered, TimedOut, Tell, Goto, Passive
  <2>2. at'[r] = "done" /\ \A d \in Daemons : at'[d] = at[d]
    BY <1>0, <2>1
  <2> QED BY <2>1, <2>2 DEF SoleInv, Done
<1>12. CASE Abandon(r)
  <2>1. /\ at' = [at EXCEPT ![r] = "done"] /\ at[r] # "done"
        /\ UNCHANGED <<cmdFile, cmd, executed>> /\ io'[r] = "none"
    BY <1>12 DEF Abandon, Goto
  <2>2. at'[r] = "done" /\ \A d \in Daemons : at'[d] = at[d]
    BY <1>0, <2>1
  <2> QED BY <2>1, <2>2 DEF SoleInv, Done
<1>13. ASSUME NEW D \in SUBSET Daemons, NEW new \in Daemons \cup {NoPid}, NEW how,
              Replace(D, new, how), UNCHANGED <<cmdFile, writers, executed>>
       PROVE  SoleInv(r)'
  <2>1. \A d \in Daemons : at'[d] \in InService => at'[d] = at[d] /\ cmd'[d] = cmd[d]
    BY <1>13 DEF Replace, InService
  <2>2. at'[r] = at[r] /\ cmd'[r] = cmd[r] /\ io'[r] = io[r]
    BY <1>13 DEF Replace, MailboxAssumption
  <2> QED BY <1>13, <2>1, <2>2, SoleKeeps DEF SoleInv
<1>14. ASSUME NEW d \in Daemons, Launch(d) PROVE SoleInv(r)'
  <2>1. PICK l \in launching :
          \/ UNCHANGED <<at, io, cmd>>
          \/ Replace(IF l[1] = "task" THEN TaskDaemons ELSE {}, d, l[1])
    BY <1>14 DEF Launch
  <2>2. PICK D \in SUBSET Daemons : D = IF l[1] = "task" THEN TaskDaemons ELSE {}
    BY DEF TaskDaemons
  <2>3. CASE Replace(IF l[1] = "task" THEN TaskDaemons ELSE {}, d, l[1])
    <3>1. Replace(D, d, l[1])
      BY <2>2, <2>3 DEF Replace
    <3> QED
      BY <1>14, <3>1, <1>13 DEF Launch
  <2>4. CASE UNCHANGED <<at, io, cmd>>
    BY <1>14, <2>4, SoleKeeps DEF Launch, SoleInv
  <2> QED
    BY <2>1, <2>3, <2>4
<1>15. ASSUME NEW d \in Daemons, TakeOver(d) PROVE SoleInv(r)'
  <2>1. CASE Replace({ReadState.pid}, NoPid, "task") /\ Live(ReadState.pid)
    <3>1. {ReadState.pid} \in SUBSET Daemons
      BY <2>1 DEF Live
    <3> QED
      BY <1>15, <2>1, <3>1, <1>13 DEF TakeOver
  <2>2. CASE (Exit(d) \/ (Goto(d, "register") /\ UNCHANGED cmd)) /\ UNCHANGED io
    <3>1. /\ at' \in {[at EXCEPT ![d] = "off"], [at EXCEPT ![d] = "register"]}
          /\ \A p \in Processes : p # d => cmd'[p] = cmd[p]
          /\ UNCHANGED <<cmdFile, writers, executed>>
      BY <1>15, <2>2 DEF TakeOver, Exit, Goto
    <3> QED BY <1>0, <2>2, <3>1, SoleKeeps DEF SoleInv, InService
  <2> QED
    BY <1>15, <2>1, <2>2 DEF TakeOver
<1>16. ASSUME NEW d \in Daemons, Poll(d) PROVE SoleInv(r)'
  <2>1. /\ UNCHANGED <<cmdFile, writers, executed, io>>
        /\ \A p \in Processes : p # d => cmd'[p] = cmd[p] /\ at'[p] = at[p]
    BY <1>16 DEF Poll, Exit, Goto, Aside
  <2>2. \/ at'[d] = "off"
        \/ at'[d] = "start" /\ cmd'[d] = cmdFile /\ cmdFile \notin BadTexts \cup {NoCmd}
    BY <1>16 DEF Poll, Exit, Goto
  <2> QED BY <1>0, <2>1, <2>2 DEF SoleInv, InService, Done
<1>17. ASSUME NEW d \in Daemons, Report(d) PROVE SoleInv(r)'
  <2>1. /\ UNCHANGED <<cmdFile, writers, executed, io, cmd>>
        /\ at[d] = "run" /\ at' = [at EXCEPT ![d] = "progress"]
    BY <1>17 DEF Report, Goto, Aside
  <2> QED BY <1>0, <2>1, SoleKeeps DEF SoleInv, InService
<1>18. ASSUME NEW d \in Daemons, Run(d) PROVE SoleInv(r)'
  <2>1. /\ UNCHANGED <<cmdFile, writers, io, cmd>> /\ executed \subseteq executed'
        /\ at[d] = "run" /\ at' = [at EXCEPT ![d] = "finish"]
    BY <1>18 DEF Run, Goto, Aside
  <2> QED BY <1>0, <2>1, SoleKeeps DEF SoleInv, InService
<1>19. ASSUME NEW d \in Daemons, Clear(d) PROVE SoleInv(r)'
  <2>1. /\ UNCHANGED <<executed, io>> /\ cmdFile' = NoCmd /\ at[d] = "clear"
        /\ \A p \in Processes : p # d => cmd'[p] = cmd[p] /\ at'[p] = at[p]
        /\ at'[d] \in {"off", "unregister", "poll"}
    BY <1>19 DEF Clear, Goto, Aside
  <2>2. Done(cmd[r]) /\ at[r] \in {"wait", "done"}
    BY <2>1 DEF SoleInv, InService
  <2> QED BY <1>0, <2>1, <2>2 DEF SoleInv, InService, Done
<1>20. ASSUME NEW d \in Daemons, Crash(d) PROVE SoleInv(r)'
  <2>1. {d} \in SUBSET Daemons
    OBVIOUS
  <2> QED
    BY <1>20, <2>1, <1>13 DEF Crash
<1>21. ASSUME TaskTrigger \/ UNCHANGED mailboxVars PROVE SoleInv(r)'
  BY <1>21 DEF TaskTrigger, mailboxVars, SoleInv, Done
<1> QED
  BY <1>1, <1>2, <1>4, <1>5, <1>6, <1>7, <1>8, <1>9, <1>10, <1>11, <1>12,
     <1>14, <1>15, <1>16, <1>17, <1>18, <1>19, <1>20, <1>21
     DEF MailboxNext, RequesterNext, DaemonNext

\* The command of a sole requester is in the file until it has been executed, for
\* any number of daemons, whoever launches them, and whatever is killed meanwhile.
THEOREM NothingLost ==
  ASSUME NEW r, Requesters = {r}
  PROVE  MailboxSpec => []CommandKept
<1> DEFINE IInv == TypeInv /\ TruthInv /\ SoleInv(r)
<1>1. MailboxInit => IInv
  BY TypeInit, TruthInit, SoleInit, MailboxAssumption
<1>2. IInv /\ [MailboxNext]_mailboxVars => IInv'
  BY TypeStep, TruthStep, SoleStep, MailboxAssumption
<1>3. IInv => CommandKept
  BY DEF SoleInv, Done, CommandKept
<1> QED
  BY <1>1, <1>2, <1>3, PTL DEF MailboxSpec

-----------------------------------------------------------------------------
(* A command is started again only after a death *)

\* When the scheduled task is the only one to launch daemons, at most one is alive.
OneInv ==
  /\ \A p \in Processes : via[p] = "task"
  /\ \A l \in launching : l[1] = "task"
  /\ \A d, e \in Daemons : Live(d) /\ Live(e) => d = e

LEMMA OneInit == MailboxAssumption /\ MailboxInit => OneInv
BY DEF MailboxAssumption, MailboxInit, OneInv, Processes, Live

\* A step that brings no daemon to life and launches one through the task only.
LEMMA OneKeeps ==
  ASSUME OneInv,
         \A d \in Daemons : Live(d)' => Live(d),
         \A p \in Processes : via'[p] = "task",
         \A l \in launching' : l[1] = "task"
  PROVE  OneInv'
BY DEF OneInv

\* A requester's step leaves the daemons where they are.
LEMMA DaemonsStay ==
  ASSUME MailboxAssumption, TypeInv, NEW r \in Requesters, NEW s, Goto(r, s)
  PROVE  /\ \A d \in Daemons : at'[d] = at[d] /\ (Live(d)' <=> Live(d))
         /\ at'[r] = s
         /\ \A p \in Processes : p # r => at'[p] = at[p]
BY DEF MailboxAssumption, TypeInv, MailboxTypeOK, Goto, Live, Processes

\* A step of a daemon that is alive brings no other one to life.
LEMMA OthersStay ==
  ASSUME MailboxAssumption, TypeInv, NEW d \in Daemons, NEW s, Goto(d, s), Live(d)
  PROVE  /\ \A e \in Daemons : Live(e)' => Live(e)
         /\ at'[d] = s
         /\ \A p \in Processes : p # d => at'[p] = at[p]
BY DEF MailboxAssumption, TypeInv, MailboxTypeOK, Goto, Live, Processes

LEMMA OneStep ==
  ASSUME MailboxAssumption, ~DirectSpawn, TypeInv, OneInv, [MailboxNext]_mailboxVars
  PROVE  OneInv'
<1>1. ASSUME NEW p \in Processes, Load(p) \/ Truncate(p) PROVE OneInv'
  BY <1>1, OneKeeps DEF Load, Truncate, OneInv, Live
<1>2. ASSUME NEW p \in Processes, Fill(p) PROVE OneInv'
  <2>1. at' = [at EXCEPT ![p] = NextStep[at[p]]] /\ at[p] \in DOMAIN NextStep
        /\ UNCHANGED <<via, launching>>
    BY <1>2 DEF Fill, Goto
  <2>2. \A d \in Daemons : Live(d)' => Live(d)
    BY <2>1, StateSteps DEF Live, Processes, TypeInv, MailboxTypeOK
  <2> QED BY <2>1, <2>2, OneKeeps DEF OneInv
<1>3. ASSUME NEW r \in Requesters, RequesterNext(r) PROVE OneInv'
  <2>1. \A p \in Processes : via'[p] = "task"
    BY <1>3 DEF RequesterNext, Ask, EnsureDaemon, Wipe, Spawn, AwaitReady, LaunchFailed, Stamp,
       OpenCommandFile, FillCommandFile, Answered, TimedOut, Abandon, OneInv, requests
  <2>2. \A l \in launching' : l[1] = "task"
    BY <1>3 DEF RequesterNext, Ask, EnsureDaemon, Wipe, Spawn, AwaitReady,
       OpenCommandFile, FillCommandFile, Answered, TimedOut, Abandon, OneInv, Processes
  <2>3. UNCHANGED at \/ \E s : Goto(r, s)
    BY <1>3 DEF RequesterNext, Ask, EnsureDaemon, Wipe, Spawn, AwaitReady, LaunchFailed, Stamp, Tell,
       OpenCommandFile, FillCommandFile, Answered, TimedOut, Abandon
  <2>4. \A d \in Daemons : Live(d)' => Live(d)
    BY <2>3, DaemonsStay DEF Live
  <2> QED BY <2>1, <2>2, <2>4, OneKeeps
<1>4. ASSUME NEW D \in SUBSET Daemons, NEW new \in Daemons \cup {NoPid},
             Replace(D, new, "task"), launching' \subseteq launching,
             new = NoPid \/ \A d \in Daemons : Live(d) => d \in D
      PROVE  OneInv'
  <2>1. \A p \in Processes : via'[p] = "task"
    BY <1>4 DEF Replace, OneInv
  <2>2. \A d \in Daemons : Live(d)' => d = new \/ (Live(d) /\ d \notin D)
    BY <1>4 DEF Replace, Live, Processes
  <2> QED BY <1>4, <2>1, <2>2 DEF OneInv, Live, MailboxAssumption
<1>5. ASSUME NEW d \in Daemons, Launch(d) PROVE OneInv'
  <2>1. PICK l \in launching :
          /\ launching' = launching \ {l}
          /\ \/ UNCHANGED <<at, via>>
             \/ Replace(IF l[1] = "task" THEN TaskDaemons ELSE {}, d, l[1])
    BY <1>5 DEF Launch
  <2>2. l[1] = "task"
    BY DEF OneInv
  <2>3. CASE Replace(TaskDaemons, d, "task")
    <3>1. TaskDaemons \in SUBSET Daemons /\ \A e \in Daemons : Live(e) => e \in TaskDaemons
      BY DEF TaskDaemons, OneInv, Processes
    <3> QED BY <1>4, <2>1, <2>3, <3>1
  <2>4. CASE UNCHANGED <<at, via>>
    BY <2>1, <2>4, OneKeeps DEF OneInv, Live
  <2> QED BY <2>1, <2>2, <2>3, <2>4
<1>6. ASSUME NEW d \in Daemons, TakeOver(d) PROVE OneInv'
  <2>1. CASE Replace({ReadState.pid}, NoPid, "task") /\ Live(ReadState.pid)
    <3>1. {ReadState.pid} \in SUBSET Daemons
      BY <2>1 DEF Live
    <3> QED BY <1>4, <1>6, <2>1, <3>1 DEF TakeOver
  <2>2. CASE (\E s : Goto(d, s)) /\ UNCHANGED via
    <3>1. Live(d) /\ UNCHANGED launching
      BY <1>6 DEF TakeOver, Live
    <3> QED BY <2>2, <3>1, OthersStay, OneKeeps DEF OneInv
  <2> QED BY <1>6, <2>1, <2>2 DEF TakeOver, Exit
<1>7. ASSUME NEW d \in Daemons, Poll(d) \/ Report(d) \/ Run(d) \/ Clear(d) PROVE OneInv'
  <2>1. Live(d) /\ UNCHANGED <<launching, via>>
    BY <1>7 DEF Poll, Report, Run, Clear, Aside, Live
  <2>2. \E s : Goto(d, s)
    BY <1>7 DEF Poll, Report, Run, Clear, Exit
  <2> QED BY <2>1, <2>2, OthersStay, OneKeeps DEF OneInv
<1>8. ASSUME NEW d \in Daemons, Crash(d) PROVE OneInv'
  BY <1>4, <1>8 DEF Crash
<1>9. ASSUME TaskTrigger PROVE OneInv'
  BY <1>9, OneKeeps DEF TaskTrigger, OneInv, Live
<1>10. ASSUME UNCHANGED mailboxVars PROVE OneInv'
  BY <1>10, OneKeeps DEF mailboxVars, OneInv, Live
<1> QED
  BY <1>1, <1>2, <1>3, <1>5, <1>6, <1>7, <1>8, <1>9, <1>10 DEF MailboxNext, DaemonNext

\* A daemon works on the command.
Served(c) == \E d \in Daemons : at[d] \in InService /\ cmd[d] = c

\* A command is known to nobody before its requester has written it, and every
\* start beyond the first is paid for by a death: one that is in the file while
\* nobody works on it lost the daemon that did.
ReplayInv ==
  /\ \A q \in Requesters : at[q] # "idle" => cmd[q].from = q
  /\ \A c \in Commands : cmdFile = c \/ starts[c] > 0 \/ Served(c) => at[c.from] \in {"wait", "done"}
  /\ \A c \in Commands : starts[c] <= 1 + deaths
  /\ \A c \in Commands : cmdFile = c /\ ~Served(c) => starts[c] <= deaths
  /\ \A d \in Daemons : at[d] = "start" => starts[cmd[d]] <= deaths

LEMMA ReplayInit == MailboxAssumption /\ MailboxInit => ReplayInv
<1> SUFFICES ASSUME MailboxAssumption, MailboxInit PROVE ReplayInv
  OBVIOUS
<1>1. NoCmd \notin Commands
  BY DEF NoCmd, Commands
<1>2. \A c \in Commands : cmdFile # c /\ starts[c] = 0 /\ ~Served(c)
  BY <1>1 DEF MailboxAssumption, MailboxInit, Processes, InService, Served
<1> QED BY <1>2 DEF MailboxAssumption, MailboxInit, ReplayInv, Processes

\* A text that cannot be read, or no file, is no command.
LEMMA NoCommands == \A c \in BadTexts \cup {NoCmd} : c \notin Commands
<1>1. EmptyText \notin Commands
  BY DEF EmptyText, Commands
<1>2. Garbled \notin Commands
  BY DEF Garbled, Commands
<1>3. NoCmd \notin Commands
  BY DEF NoCmd, Commands
<1> QED BY <1>1, <1>2, <1>3 DEF BadTexts

\* A step that puts no command into the file or into hands, starts none and leaves
\* what the requesters have written: only a death may free a command's hands.
LEMMA ReplayKeeps ==
  ASSUME MailboxAssumption, TypeInv, ReplayInv,
         cmdFile' \in {cmdFile} \cup BadTexts \cup {NoCmd},
         deaths' \in Nat, deaths <= deaths', UNCHANGED starts,
         \A q \in Requesters : /\ cmd'[q] = cmd[q] \/ cmd'[q].from = q
                               /\ at'[q] # "idle" => at[q] # "idle" \/ cmd'[q].from = q
                               /\ at[q] \in {"wait", "done"} => at'[q] \in {"wait", "done"},
         \A d \in Daemons : at'[d] \in InService =>
           cmd'[d] = cmd[d] /\ at[d] \in InService /\ (at'[d] = "start" => at[d] = "start"),
         \/ deaths < deaths'
         \/ \A d \in Daemons : at[d] \in InService => at'[d] \in InService
         \/ cmdFile' # cmdFile
  PROVE  ReplayInv'
<1> USE DEF TypeInv, MailboxTypeOK
<1>1. /\ deaths \in Nat
      /\ \A c \in Commands : starts[c] \in Nat /\ c.from \in Requesters
  <2>1. deaths \in Nat
    BY DEF MailboxAssumption
  <2>2. \A c \in Commands : c.from \in Requesters
    BY DEF Commands
  <2> QED BY <2>1, <2>2
<1>2. \A c \in Commands : Served(c)' => Served(c)
  BY DEF Served
<1>3. \A c \in Commands : cmdFile' = c => cmdFile = c
  BY NoCommands
<1>4. \A q \in Requesters : at'[q] # "idle" => cmd'[q].from = q
  BY DEF ReplayInv
<1>5. \A c \in Commands : cmdFile' = c \/ starts'[c] > 0 \/ Served(c)' => at'[c.from] \in {"wait", "done"}
  BY <1>1, <1>2, <1>3 DEF ReplayInv
<1>6. \A c \in Commands : starts'[c] <= 1 + deaths'
  BY <1>1 DEF ReplayInv
<1>7. ASSUME NEW c \in Commands, cmdFile' = c, ~Served(c)' PROVE starts'[c] <= deaths'
  <2>1. CASE deaths < deaths'
    BY <1>1, <2>1 DEF ReplayInv
  <2>2. CASE \A d \in Daemons : at[d] \in InService => at'[d] \in InService
    <3>1. ~Served(c)
      BY <1>7, <2>2 DEF Served
    <3> QED BY <1>1, <1>3, <1>7, <3>1 DEF ReplayInv
  <2>3. CASE cmdFile' # cmdFile
    BY <1>3, <1>7, <2>3
  <2> QED BY <2>1, <2>2, <2>3
<1>8. \A d \in Daemons : at'[d] = "start" => starts'[cmd'[d]] <= deaths'
  <2>1. \A d \in Daemons : at'[d] = "start" => at[d] = "start" /\ cmd'[d] = cmd[d] /\ cmd[d] \in Commands
    BY DEF InService, CommandInHand
  <2> QED BY <1>1, <2>1 DEF ReplayInv
<1> HIDE DEF TypeInv
<1> QED BY <1>4, <1>5, <1>6, <1>7, <1>8 DEF ReplayInv

\* The death of a daemon counts, and leaves no command in hands it was not in.
LEMMA DeathCounts ==
  ASSUME MailboxAssumption, TypeInv, NEW D \in SUBSET Daemons, NEW new \in Daemons \cup {NoPid},
         NEW how, Replace(D, new, how), new = NoPid \/ ~Live(new)
  PROVE  /\ deaths' \in Nat /\ deaths <= deaths'
         /\ deaths < deaths' \/ \A d \in Daemons : at[d] \in InService => at'[d] \in InService
         /\ \A q \in Requesters : cmd'[q] = cmd[q] /\ at'[q] = at[q]
         /\ \A d \in Daemons : at'[d] \in InService => cmd'[d] = cmd[d] /\ at[d] = at'[d]
<1> USE DEF TypeInv, MailboxTypeOK, Processes
<1>1. IsFiniteSet(D) /\ Cardinality(D) \in Nat /\ deaths \in Nat
  BY FS_Subset, FS_CardinalityType DEF MailboxAssumption
<1>2. D = {} \/ Cardinality(D) > 0
  BY <1>1, FS_EmptySet
<1>3. deaths' = deaths + Cardinality(D)
  BY DEF Replace
<1>4. \A q \in Requesters : cmd'[q] = cmd[q] /\ at'[q] = at[q]
  BY DEF Replace, MailboxAssumption
<1>5. \A d \in Daemons : at'[d] \in InService => cmd'[d] = cmd[d] /\ at[d] = at'[d]
  BY DEF Replace, InService
<1>6. D = {} => \A d \in Daemons : at[d] \in InService => at'[d] \in InService
  BY DEF Replace, InService, Live, MailboxAssumption
<1> QED BY <1>1, <1>2, <1>3, <1>4, <1>5, <1>6

LEMMA ReplayStep ==
  ASSUME MailboxAssumption, TypeInv, OneInv, ReplayInv, [MailboxNext]_mailboxVars
  PROVE  ReplayInv'
<1> USE DEF TypeInv, MailboxTypeOK, Processes, cmdSlot, requests, history
<1>0. deaths \in Nat /\ \A d \in Daemons : d \notin Requesters
  BY DEF MailboxAssumption
<1>1. ASSUME NEW p \in Processes, Load(p) \/ Truncate(p) PROVE ReplayInv'
  BY <1>0, <1>1, ReplayKeeps DEF Load, Truncate
<1>2. ASSUME NEW p \in Processes, Fill(p) PROVE ReplayInv'
  <2>1. /\ at' = [at EXCEPT ![p] = NextStep[at[p]]] /\ at[p] \in DOMAIN NextStep
        /\ UNCHANGED <<cmdFile, cmd, deaths>>
    BY <1>2 DEF Fill, Goto
  <2>2. /\ at[p] \in {"start", "progress", "finish"} => at'[p] \in InService \ {"start"}
        /\ at[p] \notin {"start", "progress", "finish"} => at[p] \notin InService /\ at'[p] \notin InService
        /\ at[p] \notin {"wait", "done"} /\ at[p] # "idle" /\ at'[p] # "idle"
    BY <2>1, StateSteps DEF NextStep, InService
  <2>3. \A q \in Processes : q # p => at'[q] = at[q]
    BY <2>1
  <2>4. CASE at[p] # "start"
    <3>1. UNCHANGED starts
      BY <1>2, <2>4 DEF Fill
    <3>2. \A q \in Requesters : at'[q] # "idle" => at[q] # "idle"
      BY <2>2, <2>3
    <3>3. \A q \in Requesters : at[q] \in {"wait", "done"} => at'[q] \in {"wait", "done"}
      BY <2>2, <2>3
    <3>4. \A d \in Daemons : (at'[d] \in InService <=> at[d] \in InService) /\ (at'[d] = "start" => at[d] = "start")
      BY <2>2, <2>3, <2>4 DEF InService
    <3> QED BY <1>0, <2>1, <3>1, <3>2, <3>3, <3>4, ReplayKeeps
  <2>5. CASE at[p] = "start"
    <3>1. p \in Daemons /\ cmd[p] \in Commands
      BY <2>5 DEF RequesterSteps, CommandInHand
    <3>2. starts' = [starts EXCEPT ![cmd[p]] = @ + 1]
      BY <1>2, <2>5 DEF Fill
    <3>3. /\ \A c \in Commands : Served(c)' <=> Served(c)
          /\ Served(cmd[p])
      BY <2>1, <2>2, <2>3, <2>5, <3>1 DEF Served, InService
    <3>4. \A q \in Requesters : at'[q] = at[q]
      BY <1>0, <2>3, <3>1
    <3>5. \A d \in Daemons : at'[d] = "start" => at[d] = "start" /\ d # p
      BY <2>2, <2>3, <2>5
    <3>6. \A d \in Daemons : Live(d) => d = p
      BY <2>5, <3>1 DEF OneInv, Live
    <3>7. \A d \in Daemons : at'[d] # "start"
      BY <3>5, <3>6 DEF Live
    <3>8. \A c \in Commands : starts[c] \in Nat /\ c.from \in Requesters
      BY DEF Commands
    <3>9. starts[cmd[p]] <= deaths
      BY <2>5, <3>1 DEF ReplayInv
    <3>10. \A c \in Commands : starts'[c] <= 1 + deaths'
      BY <1>0, <2>1, <3>1, <3>2, <3>8, <3>9 DEF ReplayInv
    <3>11. \A c \in Commands : c # cmd[p] => starts'[c] = starts[c]
      BY <3>2
    <3>12. \A c \in Commands : cmdFile' = c /\ ~Served(c)' => starts'[c] <= deaths'
      BY <2>1, <3>3, <3>11 DEF ReplayInv
    <3>13. \A c \in Commands : cmdFile' = c \/ starts'[c] > 0 \/ Served(c)' => at'[c.from] \in {"wait", "done"}
      BY <2>1, <3>1, <3>3, <3>4, <3>8, <3>11 DEF ReplayInv
    <3> QED BY <2>1, <3>4, <3>7, <3>10, <3>12, <3>13 DEF ReplayInv
  <2> QED BY <2>4, <2>5
\* What a requester does, other than writing its command into the file.
<1>3. ASSUME NEW r \in Requesters, cmdFile' \in {cmdFile} \cup BadTexts \cup {NoCmd},
             deaths' \in Nat, deaths <= deaths', UNCHANGED starts,
             \A q \in Processes : q # r => cmd'[q] = cmd[q] /\ at'[q] = at[q],
             cmd'[r] = cmd[r] \/ cmd'[r].from = r,
             at'[r] # "idle" => at[r] # "idle" \/ cmd'[r].from = r,
             at[r] \in {"wait", "done"} => at'[r] \in {"wait", "done"}
      PROVE  ReplayInv'
  <2>1. \A d \in Daemons : cmd'[d] = cmd[d] /\ at'[d] = at[d]
    BY <1>0, <1>3
  <2> QED BY <1>3, <2>1, ReplayKeeps
<1>4. ASSUME NEW r \in Requesters, Stamp(r), at[r] # "idle" PROVE cmd'[r].from = r /\ \A q \in Processes : q # r => cmd'[q] = cmd[q]
  BY <1>4 DEF Stamp, CommandInHand, Commands, ReplayInv
<1>5. ASSUME NEW r \in Requesters, Ask(r) PROVE ReplayInv'
  BY <1>0, <1>3, <1>5 DEF Ask, Goto, Passive
<1>6. ASSUME NEW r \in Requesters, EnsureDaemon(r) PROVE ReplayInv'
  <2>1. PICK s \in {"queue", "wipe", "done"} : Goto(r, s)
    BY <1>6 DEF EnsureDaemon, Stamp, Tell
  <2>2. UNCHANGED <<cmdFile, deaths, starts>> /\ at[r] = "ensure"
    BY <1>6 DEF EnsureDaemon, Passive
  <2>3. UNCHANGED cmd \/ Stamp(r)
    BY <1>6 DEF EnsureDaemon
  <2> QED BY <1>0, <1>3, <1>4, <2>1, <2>2, <2>3, DaemonsStay
<1>7. ASSUME NEW r \in Requesters, AwaitReady(r) PROVE ReplayInv'
  <2>1. PICK s \in {"queue", "ensure", "done"} : Goto(r, s)
    BY <1>7 DEF AwaitReady, LaunchFailed, Stamp, Tell
  <2>2. UNCHANGED <<cmdFile, deaths, starts>> /\ at[r] = "ready"
    BY <1>7 DEF AwaitReady, Passive
  <2>3. UNCHANGED cmd \/ Stamp(r)
    BY <1>7 DEF AwaitReady, LaunchFailed
  <2> QED BY <1>0, <1>3, <1>4, <2>1, <2>2, <2>3, DaemonsStay
<1>8. ASSUME NEW r \in Requesters, Wipe(r) PROVE ReplayInv'
  BY <1>0, <1>3, <1>8, DaemonsStay DEF Wipe, Passive
<1>9. ASSUME NEW r \in Requesters, Spawn(r) PROVE ReplayInv'
  <2>1. PICK s \in {"ready", "ensure", "done"} : Goto(r, s)
    BY <1>9 DEF Spawn, LaunchFailed, Tell
  <2>2. UNCHANGED <<cmdFile, deaths, starts, cmd>> /\ at[r] = "spawn"
    BY <1>9 DEF Spawn, LaunchFailed, Passive
  <2> QED BY <1>0, <1>3, <2>1, <2>2, DaemonsStay
<1>10. ASSUME NEW r \in Requesters, OpenCommandFile(r) PROVE ReplayInv'
  BY <1>0, <1>3, <1>10 DEF OpenCommandFile, Passive, BadTexts
<1>11. ASSUME NEW r \in Requesters, FillCommandFile(r) PROVE ReplayInv'
  <2>1. cmdFile' \in {cmdFile, cmd[r], Garbled} /\ at[r] = "file" /\ UNCHANGED <<cmd, deaths, starts>>
    BY <1>11 DEF FillCommandFile, Overwrite, Passive
  <2>2. Goto(r, "wait")
    BY <1>11 DEF FillCommandFile
  <2>3. CASE cmdFile' \in {cmdFile, Garbled}
    BY <1>0, <1>3, <2>1, <2>2, <2>3, DaemonsStay DEF BadTexts
  <2>4. CASE cmdFile' = cmd[r]
    <3>1. cmd[r] \in Commands /\ cmd[r].from = r
      BY <2>1 DEF CommandInHand, ReplayInv
    <3>2. ~(starts[cmd[r]] > 0) /\ ~Served(cmd[r])
      BY <2>1, <3>1 DEF ReplayInv
    <3>3. \A c \in Commands : starts[c] \in Nat /\ c.from \in Requesters
      BY DEF Commands
    <3>4. /\ \A q \in Requesters : at[q] \in {"wait", "done"} => at'[q] \in {"wait", "done"}
          /\ at'[r] = "wait"
          /\ \A q \in Requesters : at'[q] # "idle" => at[q] # "idle"
          /\ \A d \in Daemons : at'[d] = at[d]
      BY <2>1, <2>2, DaemonsStay
    <3>5. \A c \in Commands : Served(c)' <=> Served(c)
      BY <2>1, <3>4 DEF Served
    <3>6. \A c \in Commands : cmdFile' = c \/ starts'[c] > 0 \/ Served(c)' => at'[c.from] \in {"wait", "done"}
      BY <2>1, <2>4, <3>1, <3>3, <3>4, <3>5 DEF ReplayInv
    <3>7. \A c \in Commands : cmdFile' = c => starts'[c] <= deaths'
      BY <1>0, <2>1, <2>4, <3>1, <3>2, <3>3
    <3>8. \A q \in Requesters : at'[q] # "idle" => cmd'[q].from = q
      BY <2>1, <3>4 DEF ReplayInv
    <3> QED BY <2>1, <3>4, <3>6, <3>7, <3>8 DEF ReplayInv
  <2> QED BY <2>1, <2>3, <2>4
<1>12. ASSUME NEW r \in Requesters, Answered(r) \/ TimedOut(r) PROVE ReplayInv'
  BY <1>0, <1>3, <1>12, DaemonsStay DEF Answered, TimedOut, Tell, Passive
<1>13. ASSUME NEW r \in Requesters, Abandon(r) PROVE ReplayInv'
  BY <1>0, <1>3, <1>13, DaemonsStay DEF Abandon
<1>14. ASSUME NEW D \in SUBSET Daemons, NEW new \in Daemons \cup {NoPid}, NEW how,
              Replace(D, new, how), new = NoPid \/ ~Live(new), UNCHANGED <<cmdFile, starts>>
       PROVE  ReplayInv'
  BY <1>14, DeathCounts, ReplayKeeps
<1>15. ASSUME NEW d \in Daemons, Launch(d) PROVE ReplayInv'
  <2>1. PICK l \in launching :
          \/ UNCHANGED <<deaths, at, io, cmd>>
          \/ Replace(IF l[1] = "task" THEN TaskDaemons ELSE {}, d, l[1])
    BY <1>15 DEF Launch
  <2>2. PICK D \in SUBSET Daemons : D = IF l[1] = "task" THEN TaskDaemons ELSE {}
    BY DEF TaskDaemons
  <2>3. CASE Replace(IF l[1] = "task" THEN TaskDaemons ELSE {}, d, l[1])
    <3>1. Replace(D, d, l[1])
      BY <2>2, <2>3 DEF Replace
    <3> QED
      BY <1>15, <3>1, <1>14 DEF Launch
  <2>4. CASE UNCHANGED <<deaths, at, io, cmd>>
    BY <1>0, <1>15, <2>4, ReplayKeeps DEF Launch
  <2> QED
    BY <2>1, <2>3, <2>4
<1>16. ASSUME NEW d \in Daemons, TakeOver(d) PROVE ReplayInv'
  <2>1. CASE Replace({ReadState.pid}, NoPid, "task") /\ Live(ReadState.pid)
    <3>1. {ReadState.pid} \in SUBSET Daemons
      BY <2>1 DEF Live
    <3> QED
      BY <1>16, <2>1, <3>1, <1>14 DEF TakeOver
  <2>2. CASE (Exit(d) \/ (Goto(d, "register") /\ UNCHANGED cmd)) /\ UNCHANGED deaths
    <3>1. /\ at[d] = "takeover" /\ at'[d] \in {"off", "register"}
          /\ \A p \in Processes : p # d => cmd'[p] = cmd[p] /\ at'[p] = at[p]
          /\ UNCHANGED <<cmdFile, starts>>
      BY <1>16, <2>2 DEF TakeOver, Exit, Goto
    <3>2. \A e \in Daemons : at'[e] \in InService => cmd'[e] = cmd[e] /\ at'[e] = at[e]
      BY <3>1 DEF InService
    <3>3. \A e \in Daemons : at[e] \in InService => at'[e] \in InService
      BY <3>1 DEF InService
    <3> QED BY <1>0, <2>2, <3>1, <3>2, <3>3, ReplayKeeps
  <2> QED
    BY <1>16, <2>1, <2>2 DEF TakeOver
<1>17. ASSUME NEW d \in Daemons, Poll(d) PROVE ReplayInv'
  <2>1. /\ UNCHANGED <<cmdFile, starts, deaths>> /\ at[d] = "poll"
        /\ \A p \in Processes : p # d => cmd'[p] = cmd[p] /\ at'[p] = at[p]
    BY <1>17 DEF Poll, Exit, Goto, Aside
  <2>2. CASE at'[d] = "off"
    <3>1. \A e \in Daemons : at'[e] \in InService => cmd'[e] = cmd[e] /\ at'[e] = at[e]
      BY <2>1, <2>2 DEF InService
    <3>2. \A e \in Daemons : at[e] \in InService => at'[e] \in InService
      BY <2>1 DEF InService
    <3> QED BY <1>0, <2>1, <3>1, <3>2, ReplayKeeps
  <2>3. CASE at'[d] = "start" /\ cmd'[d] = cmdFile /\ cmdFile \in Commands
    <3>1. \A e \in Daemons : e # d => at[e] = "off"
      BY <2>1 DEF OneInv, Live
    <3>2. \A c \in Commands : ~Served(c)
      BY <2>1, <3>1 DEF Served, InService
    <3>3. starts[cmdFile] <= deaths
      BY <2>3, <3>2 DEF ReplayInv
    <3>4. \A c \in Commands : Served(c)' => c = cmdFile
      BY <2>1, <2>3, <3>1 DEF Served, InService
    <3>5. \A q \in Requesters : at'[q] = at[q] /\ cmd'[q] = cmd[q]
      BY <1>0, <2>1
    <3>6. \A c \in Commands : cmdFile' = c \/ starts'[c] > 0 \/ Served(c)' => at'[c.from] \in {"wait", "done"}
      <4>1. \A c \in Commands : c.from \in Requesters
        BY DEF Commands
      <4> QED BY <2>1, <3>4, <3>5, <4>1 DEF ReplayInv
    <3>7. \A e \in Daemons : at'[e] = "start" => starts'[cmd'[e]] <= deaths'
      BY <2>1, <2>3, <3>1, <3>3
    <3>8. \A c \in Commands : cmdFile' = c => starts'[c] <= deaths'
      BY <2>1, <3>3
    <3> QED BY <2>1, <3>5, <3>6, <3>7, <3>8 DEF ReplayInv
  <2>4. at'[d] = "off" \/ (at'[d] = "start" /\ cmd'[d] = cmdFile /\ cmdFile \in Commands)
    BY <1>17 DEF Poll, Exit, Goto
  <2> QED BY <2>2, <2>3, <2>4
<1>18. ASSUME NEW d \in Daemons, Report(d) \/ Run(d) PROVE ReplayInv'
  <2>1. /\ UNCHANGED <<cmdFile, starts, deaths, cmd>> /\ at[d] = "run" /\ at'[d] \in {"progress", "finish"}
        /\ \A p \in Processes : p # d => at'[p] = at[p]
    BY <1>18 DEF Report, Run, Goto, Aside
  <2>2. \A e \in Daemons : (at'[e] \in InService <=> at[e] \in InService) /\ (at'[e] = "start" => at[e] = "start")
    BY <2>1 DEF InService
  <2>3. \A q \in Requesters : at'[q] = at[q]
    BY <1>0, <2>1
  <2> QED BY <1>0, <2>1, <2>2, <2>3, ReplayKeeps
<1>19. ASSUME NEW d \in Daemons, Clear(d) PROVE ReplayInv'
  <2>1. /\ UNCHANGED <<starts, deaths>> /\ cmdFile' = NoCmd /\ at[d] = "clear"
        /\ \A p \in Processes : p # d => cmd'[p] = cmd[p] /\ at'[p] = at[p]
        /\ at'[d] \in {"off", "unregister", "poll"}
    BY <1>19 DEF Clear, Goto, Aside
  <2>2. \A e \in Daemons : at'[e] \in InService => cmd'[e] = cmd[e] /\ at'[e] = at[e]
    BY <2>1 DEF InService
  <2>4. \A q \in Requesters : at'[q] = at[q] /\ cmd'[q] = cmd[q]
    BY <1>0, <2>1
  <2>5. CASE cmdFile' # cmdFile
    BY <1>0, <2>1, <2>2, <2>4, <2>5, ReplayKeeps
  <2>6. CASE cmdFile' = cmdFile
    <3>1. \A c \in Commands : Served(c)' => Served(c)
      BY <2>2 DEF Served
    <3>2. \A c \in Commands : cmdFile' # c
      BY <2>1, NoCommands
    <3>3. \A e \in Daemons : at'[e] = "start" => at[e] = "start" /\ cmd'[e] = cmd[e]
      BY <2>2 DEF InService
    <3>4. \A c \in Commands : c.from \in Requesters
      BY DEF Commands
    <3>5. \A c \in Commands : cmdFile' = c \/ starts'[c] > 0 \/ Served(c)' => at'[c.from] \in {"wait", "done"}
      BY <2>1, <2>4, <3>1, <3>2, <3>4 DEF ReplayInv
    <3>6. \A e \in Daemons : at'[e] = "start" => starts'[cmd'[e]] <= deaths'
      BY <2>1, <3>3 DEF ReplayInv
    <3> QED BY <2>1, <2>4, <3>2, <3>5, <3>6 DEF ReplayInv
  <2> QED BY <2>5, <2>6
<1>20. ASSUME NEW d \in Daemons, Crash(d) PROVE ReplayInv'
  <2>1. {d} \in SUBSET Daemons
    OBVIOUS
  <2> QED
    BY <1>20, <2>1, <1>14 DEF Crash
<1>21. ASSUME TaskTrigger \/ UNCHANGED mailboxVars PROVE ReplayInv'
  BY <1>0, <1>21, ReplayKeeps DEF TaskTrigger, mailboxVars
<1> QED
  BY <1>1, <1>2, <1>5, <1>6, <1>7, <1>8, <1>9, <1>10, <1>11, <1>12, <1>13,
     <1>15, <1>16, <1>17, <1>18, <1>19, <1>20, <1>21
     DEF MailboxNext, RequesterNext, DaemonNext

\* As long as only the scheduled task launches daemons, each start of a command
\* but the first needs a death, for any number of requesters, daemons and commands.
THEOREM ReplaysPaid ==
  ASSUME ~DirectSpawn
  PROVE  MailboxSpec => []ReplaysNeedDeaths
<1> DEFINE IInv == TypeInv /\ OneInv /\ ReplayInv
<1>1. MailboxInit => IInv
  BY TypeInit, OneInit, ReplayInit, MailboxAssumption
<1>2. IInv /\ [MailboxNext]_mailboxVars => IInv'
  BY TypeStep, OneStep, ReplayStep, MailboxAssumption
<1>3. IInv => ReplaysNeedDeaths
  BY DEF ReplayInv, ReplaysNeedDeaths
<1> QED
  BY <1>1, <1>2, <1>3, PTL DEF MailboxSpec
-----------------------------------------------------------------------------
(* The mailbox implements the remote call of CommandRpc *)

Serving == {"run", "progress"}

\* What requesters ask for and what has been begun for them is seen through
\* their commands only.
LEMMA SameRequests ==
  ASSUME UNCHANGED starts,
         \A r \in Requesters : /\ at'[r] = "idle" <=> at[r] = "idle"
                               /\ at[r] # "idle" => cmd'[r] = cmd[r]
  PROVE  UNCHANGED <<RpcWants, RpcTicket, RpcAttempts>>
BY DEF RpcWants, RpcTicket, RpcAttempts

\* What is being performed is seen through the daemons at work only.
LEMMA SameWork ==
  ASSUME \A d \in Daemons : /\ at'[d] \in Serving <=> at[d] \in Serving
                            /\ at[d] \in Serving => cmd'[d] = cmd[d]
  PROVE  UNCHANGED RpcDoing
<1> DEFINE Busy == {d \in Daemons : at[d] \in Serving}
<1>1. Busy' = Busy
  OBVIOUS
<1>2. \A d \in Busy : cmd'[d] = cmd[d]
  OBVIOUS
<1>3. RpcDoing = {cmd[d].from : d \in Busy} /\ RpcDoing' = {cmd'[d].from : d \in Busy'}
  BY DEF RpcDoing, Serving
<1> QED
  BY <1>1, <1>2, <1>3

\* What has been done and told is seen through the histories.
LEMMA SameOutcome ==
  ASSUME UNCHANGED <<executed, result>>
  PROVE  UNCHANGED <<RpcEffects, RpcAnswer>>
BY DEF RpcEffects, RpcAnswer, Abstracted

RpcTypeInv == TypeInv /\ TruthInv /\ IdInv /\ OneInv /\ ReplayInv

LEMMA RpcInitMaps == MailboxAssumption /\ MailboxInit => Rpc!RpcInit
BY DEF MailboxInit, Rpc!RpcInit, RpcWants, RpcTicket, RpcDoing, RpcAttempts, RpcEffects,
       RpcAnswer, Abstracted, Processes, MailboxAssumption

\* A requester's step leaves alone what the daemons do.
LEMMA RequesterWork ==
  ASSUME MailboxAssumption, TypeInv, NEW r \in Requesters, NEW s, Goto(r, s),
         \A d \in Daemons : cmd'[d] = cmd[d]
  PROVE  UNCHANGED RpcDoing
<1>1. \A d \in Daemons : at'[d] = at[d]
  BY DaemonsStay
<1> QED
  BY <1>1, SameWork

\* A requester that goes on with its command as it was.
LEMMA RequesterGoesOn ==
  ASSUME MailboxAssumption, TypeInv, NEW r \in Requesters, NEW s, Goto(r, s), s # "idle",
         at[r] # "idle", UNCHANGED <<cmd, starts>>
  PROVE  UNCHANGED <<RpcWants, RpcTicket, RpcAttempts, RpcDoing>>
<1>1. UNCHANGED RpcDoing
  BY RequesterWork
<1>2. at'[r] = s /\ \A q \in Requesters : q # r => at'[q] = at[q]
  BY DaemonsStay DEF Processes
<1> QED
  BY <1>1, <1>2, SameRequests

\* Telling a requester something changes its answer and nothing else.
LEMMA RpcAnswers ==
  ASSUME MailboxAssumption, RpcTypeInv, NEW r \in Requesters, at[r] \notin {"idle", "done"},
         NEW a \in Outcomes \cup {"skipped", "unavailable", "timeout"}, Tell(r, a),
         UNCHANGED <<cmd, starts, executed, deaths>>
  PROVE  Rpc!Answer(r, Abstracted(a))
<1>0. TypeInv
  BY DEF RpcTypeInv
<1>1. UNCHANGED <<RpcWants, RpcTicket, RpcAttempts, RpcDoing>>
  BY <1>0, RequesterGoesOn DEF Tell
<1>2. UNCHANGED RpcEffects
  BY DEF RpcEffects
<1>3. result[r] = "none" /\ result \in [Requesters -> Outcomes \cup {"none", "skipped", "unavailable", "timeout"}]
  BY DEF RpcTypeInv, TypeInv, MailboxTypeOK, TruthInv
<1>4. RpcAnswer[r] = "none" /\ RpcAnswer' = [RpcAnswer EXCEPT ![r] = Abstracted(a)]
  BY <1>3 DEF RpcAnswer, Tell, Abstracted
<1>5. RpcWants[r] # "nothing"
  <2>1. cmd[r] \in Commands
    BY <1>0 DEF TypeInv, CommandInHand
  <2>2. cmd[r].op \in {"bundle", "shutdown"}
    BY <2>1 DEF Commands, MailboxAssumption
  <2> QED
    BY <2>2 DEF RpcWants
<1> QED
  BY <1>1, <1>2, <1>4, <1>5 DEF Rpc!Answer

\* Giving up before anything was queued, or skipping a shutdown.
LEMMA RpcTurnedAway ==
  ASSUME MailboxAssumption, RpcTypeInv, NEW r \in Requesters, at[r] \in BeforeQueue,
         NEW a \in {"skipped", "unavailable"}, Tell(r, a),
         UNCHANGED <<cmd, starts, executed, deaths>>,
         a = "skipped" => cmd[r].op = "shutdown"
  PROVE  Rpc!RpcNext
<1>1. at[r] \notin {"idle", "done"} /\ RpcTicket[r] = 0
  BY DEF BeforeQueue, RpcTypeInv, IdInv, StampInv, RpcTicket
<1>2. Rpc!Answer(r, Abstracted(a))
  BY <1>1, RpcAnswers
<1>3. CASE a = "skipped"
  <2>1. Abstracted(a) = "ok" /\ RpcWants[r] = "shutdown"
    BY <1>1, <1>3 DEF Abstracted, RpcWants
  <2>2. Rpc!Skip(r)
    BY <1>1, <1>2, <2>1 DEF Rpc!Skip
  <2> QED
    BY <2>2 DEF Rpc!RpcNext
<1>4. CASE a = "unavailable"
  <2>1. Abstracted(a) = "refused"
    BY <1>4 DEF Abstracted
  <2>2. Rpc!Refuse(r)
    BY <1>1, <1>2, <2>1 DEF Rpc!Refuse
  <2> QED
    BY <2>2 DEF Rpc!RpcNext
<1> QED
  BY <1>3, <1>4

\* Nothing has been begun for a command that is not yet in the file.
LEMMA NotBegun ==
  ASSUME MailboxAssumption, TypeInv, ReplayInv, NEW c \in Commands,
         at[c.from] \notin {"wait", "done"}
  PROVE  starts[c] = 0
<1>1. starts[c] \in Nat
  BY DEF TypeInv, MailboxTypeOK
<1> QED
  BY <1>1 DEF ReplayInv

\* Stamping a command is submitting it.
LEMMA RpcStamps ==
  ASSUME MailboxAssumption, RpcTypeInv, TypeInv', NEW r \in Requesters,
         at[r] \in {"ensure", "ready"}, Stamp(r), UNCHANGED <<starts, executed, deaths>>
  PROVE  Rpc!RpcNext
<1> USE DEF RpcTypeInv
<1>1. PICK step \in ClockSteps :
         /\ clock' = clock + step
         /\ cmd' = [cmd EXCEPT ![r].id = clock + step]
         /\ Goto(r, "queue") /\ UNCHANGED result
  BY DEF Stamp
<1>2. at'[r] = "queue" /\ \A p \in Processes : p # r => at'[p] = at[p]
  BY <1>1, DaemonsStay
<1>3. cmd[r] \in Commands /\ cmd'[r] = [cmd[r] EXCEPT !.id = clock']
      /\ \A p \in Processes : p # r => cmd'[p] = cmd[p]
  BY <1>1 DEF TypeInv, MailboxTypeOK, CommandInHand, Processes
<1>4. cmd'[r] \in Commands
  BY <1>2 DEF TypeInv, CommandInHand
<1>5. /\ cmd'[r].id = clock' /\ cmd'[r].op = cmd[r].op /\ cmd'[r].from = cmd[r].from
      /\ cmd[r].from = r /\ cmd[r].id = 0
  BY <1>3 DEF Commands, IdInv, StampInv, BeforeQueue
<1>6. starts[cmd[r]] = 0 /\ starts[cmd'[r]] = 0
  BY <1>3, <1>4, <1>5, NotBegun
<1>7. /\ clock' \in Ids \ {0} /\ clock <= clock'
      /\ \A q \in Requesters : RpcTicket[q] <= clock'
  <2>1. clock \in Nat \ {0} /\ clock' \in Ids /\ step \in {0, 1}
    BY DEF TypeInv, MailboxTypeOK, Ids, IdInv, StampInv, MailboxAssumption
  <2>2. clock' # 0 /\ clock <= clock' /\ 0 <= clock'
    BY <1>1, <2>1
  <2>3. ASSUME NEW q \in Requesters, at[q] # "idle" PROVE cmd[q].id <= clock'
    <3>1. cmd[q].id <= clock /\ cmd[q] \in Commands
      BY <2>3 DEF IdInv, StampInv, TypeInv, CommandInHand
    <3>2. cmd[q].id \in Nat
      BY <3>1 DEF Commands, Ids, MailboxAssumption
    <3>3. clock' \in Nat
      BY <2>1 DEF Ids, MailboxAssumption
    <3> QED
      BY <2>1, <2>2, <3>1, <3>2, <3>3
  <2> QED
    BY <2>1, <2>2, <2>3 DEF RpcTicket
<1>8. /\ UNCHANGED <<RpcWants, RpcAttempts>>
      /\ RpcTicket' = [RpcTicket EXCEPT ![r] = clock'] /\ RpcTicket[r] = 0
  <2>1. \A q \in Requesters : q # r => at'[q] = at[q] /\ cmd'[q] = cmd[q]
    BY <1>2, <1>3 DEF Processes
  <2>2. at[r] # "idle" /\ at'[r] # "idle"
    BY <1>2
  <2>3. UNCHANGED RpcWants
    BY <1>5, <2>1, <2>2 DEF RpcWants
  <2>4. UNCHANGED RpcAttempts
    BY <1>6, <2>1, <2>2 DEF RpcAttempts
  <2>5. \A q \in Requesters : RpcTicket'[q] = IF q = r THEN clock' ELSE RpcTicket[q]
    BY <1>5, <2>1, <2>2 DEF RpcTicket
  <2>6. RpcTicket' = [RpcTicket EXCEPT ![r] = clock']
    BY <2>5 DEF RpcTicket
  <2>7. RpcTicket[r] = 0
    BY <1>5, <2>2 DEF RpcTicket
  <2> QED
    BY <2>3, <2>4, <2>6, <2>7
<1>9. UNCHANGED RpcDoing
  BY <1>1, <1>3, RequesterWork DEF Processes, MailboxAssumption
<1>10. UNCHANGED <<RpcEffects, RpcAnswer>>
  BY <1>1, SameOutcome
<1>11. RpcWants[r] # "nothing" /\ RpcAnswer[r] = "none"
  <2>1. cmd[r].op \in {"bundle", "shutdown"}
    BY <1>3 DEF Commands, MailboxAssumption
  <2>2. result[r] = "none"
    BY DEF TruthInv
  <2> QED
    BY <2>1, <2>2 DEF RpcWants, RpcAnswer, Abstracted
<1>12. Rpc!Submit(r, clock')
  BY <1>7, <1>8, <1>9, <1>10, <1>11 DEF Rpc!Submit
<1> QED
  BY <1>7, <1>12 DEF Rpc!RpcNext

\* Asking.
LEMMA RpcAsks ==
  ASSUME MailboxAssumption, RpcTypeInv, NEW r \in Requesters, Ask(r)
  PROVE  Rpc!RpcNext
<1> USE DEF RpcTypeInv
<1>1. PICK op \in Ops, s \in {"touch", "ensure"} :
         cmd' = [cmd EXCEPT ![r] = [id |-> 0, op |-> op, from |-> r]] /\ Goto(r, s)
  BY DEF Ask
<1>2. /\ at[r] = "idle" /\ at'[r] \in {"touch", "ensure"}
      /\ \A p \in Processes : p # r => at'[p] = at[p]
      /\ UNCHANGED <<starts, executed, deaths, result>>
  BY <1>1, DaemonsStay DEF Ask, Passive, history, requests
<1>3. cmd'[r] = [id |-> 0, op |-> op, from |-> r]
      /\ \A p \in Processes : p # r => cmd'[p] = cmd[p]
  BY <1>1 DEF TypeInv, MailboxTypeOK, Processes
<1>4. cmd'[r] \in Commands
  BY <1>3 DEF Commands, Ids, MailboxAssumption
<1>5. starts[cmd'[r]] = 0
  BY <1>2, <1>3, <1>4, NotBegun
<1>6. /\ RpcWants[r] = "nothing" /\ RpcWants' = [RpcWants EXCEPT ![r] = op]
      /\ UNCHANGED <<RpcTicket, RpcAttempts>>
  <2>1. \A q \in Requesters : q # r => at'[q] = at[q] /\ cmd'[q] = cmd[q]
    BY <1>2, <1>3 DEF Processes
  <2>2. at[r] = "idle" /\ at'[r] # "idle" /\ cmd'[r].op = op /\ cmd'[r].id = 0
    BY <1>2, <1>3
  <2>3. \A q \in Requesters : RpcWants'[q] = IF q = r THEN op ELSE RpcWants[q]
    BY <2>1, <2>2 DEF RpcWants
  <2>4. RpcWants' = [RpcWants EXCEPT ![r] = op] /\ RpcWants[r] = "nothing"
    BY <2>2, <2>3 DEF RpcWants
  <2>5. UNCHANGED RpcTicket
    BY <2>1, <2>2 DEF RpcTicket
  <2>6. UNCHANGED RpcAttempts
    BY <1>2, <1>5, <2>1, <2>2 DEF RpcAttempts
  <2> QED
    BY <2>4, <2>5, <2>6
<1>7. UNCHANGED RpcDoing
  BY <1>1, <1>3, RequesterWork DEF Processes, MailboxAssumption
<1>8. UNCHANGED <<RpcEffects, RpcAnswer>>
  BY <1>2, SameOutcome
<1>9. Rpc!AskFor(r, op)
  BY <1>2, <1>6, <1>7, <1>8 DEF Rpc!AskFor
<1> QED
  BY <1>9 DEF Rpc!RpcNext

\* A daemon that starts on a command begins it: it is the only one alive, and
\* each earlier start was paid for.
LEMMA RpcBegins ==
  ASSUME MailboxAssumption, RpcTypeInv, NEW p \in Processes, Fill(p), at[p] = "start"
  PROVE  Rpc!RpcNext
<1> USE DEF RpcTypeInv
<1>1. /\ at' = [at EXCEPT ![p] = "run"] /\ starts' = [starts EXCEPT ![cmd[p]] = @ + 1]
      /\ UNCHANGED <<cmd, deaths, executed, result>>
  BY DEF Fill, Goto, NextStep, requests
<1>2. p \in Daemons /\ p \notin Requesters
  BY DEF TypeInv, MailboxTypeOK, RequesterSteps, Processes, MailboxAssumption
<1>3. at'[p] = "run" /\ \A q \in Processes : q # p => at'[q] = at[q]
  BY <1>1 DEF TypeInv, MailboxTypeOK
<1>4. cmd[p] \in Commands /\ Genuine(cmd[p])
  BY <1>2 DEF TypeInv, CommandInHand, IdInv, GenuineInv, InService
<1> DEFINE r == cmd[p].from
<1>5. /\ r \in Requesters /\ cmd[r] = cmd[p] /\ at[r] # "idle" /\ cmd[r].id # 0
  BY <1>4 DEF Genuine
<1>6. \A q \in Requesters : q # r /\ at[q] # "idle" => cmd[q] # cmd[p]
  BY <1>5 DEF ReplayInv
<1>7. \A d \in Daemons : at[d] \in Serving => d = p
  BY <1>2 DEF OneInv, Live, Serving
<1>8. RpcDoing = {}
  BY <1>7 DEF RpcDoing, Serving
<1>9. RpcDoing' = {r}
  <2>1. \A d \in Daemons : at'[d] \in Serving <=> d = p
    BY <1>2, <1>3, <1>7 DEF Serving, Processes
  <2> QED
    BY <1>1, <1>2, <2>1 DEF RpcDoing, Serving
<1>10. UNCHANGED <<RpcWants, RpcTicket>>
  BY <1>1, <1>2, <1>3 DEF RpcWants, RpcTicket, Processes
<1>11. /\ RpcAttempts[r] = starts[cmd[p]] /\ starts[cmd[p]] <= deaths /\ RpcTicket[r] # 0
  BY <1>2, <1>5 DEF RpcAttempts, RpcTicket, ReplayInv
<1>12. RpcAttempts' = [RpcAttempts EXCEPT ![r] = @ + 1]
  <2>1. \A q \in Requesters : at'[q] = at[q] /\ cmd'[q] = cmd[q]
    BY <1>1, <1>2, <1>3 DEF Processes
  <2>2. \A q \in Requesters : at[q] # "idle" => cmd[q] \in Commands
    BY DEF TypeInv, CommandInHand
  <2>3. starts \in [Commands -> Nat]
    BY DEF TypeInv, MailboxTypeOK
  <2>4. starts'[cmd[p]] = starts[cmd[p]] + 1 /\ \A c \in Commands : c # cmd[p] => starts'[c] = starts[c]
    BY <1>1, <1>4, <2>3
  <2>5. \A q \in Requesters : RpcAttempts'[q] = IF q = r THEN RpcAttempts[q] + 1 ELSE RpcAttempts[q]
    BY <1>5, <1>6, <2>1, <2>2, <2>4 DEF RpcAttempts
  <2> QED
    BY <1>5, <2>5 DEF RpcAttempts
<1>13. UNCHANGED <<RpcEffects, RpcAnswer>>
  BY <1>1, SameOutcome
<1>14. Rpc!Begin(r)
  <2> HIDE DEF r
  <2> QED
    BY <1>1, <1>8, <1>9, <1>10, <1>11, <1>12, <1>13 DEF Rpc!Begin
<1> QED
  BY <1>5, <1>14 DEF Rpc!RpcNext

\* Rewriting the state file for any other reason is not seen.
LEMMA RpcRewrites ==
  ASSUME MailboxAssumption, RpcTypeInv, NEW p \in Processes, Fill(p), at[p] # "start"
  PROVE  Rpc!Unseen
<1> USE DEF RpcTypeInv
<1>1. /\ at' = [at EXCEPT ![p] = NextStep[at[p]]] /\ at[p] \in DOMAIN NextStep
      /\ UNCHANGED <<starts, cmd, deaths, executed, result>>
  BY DEF Fill, Goto, requests
<1>2. /\ at[p] # "idle" /\ at'[p] # "idle" /\ (at'[p] \in Serving <=> at[p] \in Serving)
      /\ \A q \in Processes : q # p => at'[q] = at[q]
  BY <1>1, StateSteps DEF NextStep, Serving, TypeInv, MailboxTypeOK
<1>3. UNCHANGED <<RpcWants, RpcTicket, RpcAttempts>>
  BY <1>1, <1>2, SameRequests DEF Processes
<1>4. UNCHANGED RpcDoing
  BY <1>1, <1>2, SameWork DEF Processes
<1> QED
  BY <1>1, <1>3, <1>4, SameOutcome DEF Rpc!Unseen, Rpc!rpcVars

\* A daemon at a step that serves nobody, before and after.
LEMMA RpcIdles ==
  ASSUME MailboxAssumption, TypeInv, NEW d \in Daemons, NEW s, Goto(d, s),
         at[d] \in Serving <=> s \in Serving, at[d] \in Serving => cmd'[d] = cmd[d],
         \A p \in Processes : p # d => cmd'[p] = cmd[p],
         UNCHANGED <<starts, deaths, executed, result>>
  PROVE  Rpc!Unseen
<1>1. at'[d] = s /\ \A p \in Processes : p # d => at'[p] = at[p]
  BY DEF Goto, TypeInv, MailboxTypeOK, Processes
<1>2. d \notin Requesters
  BY DEF MailboxAssumption
<1>3. UNCHANGED <<RpcWants, RpcTicket, RpcAttempts>>
  BY <1>1, <1>2, SameRequests DEF Processes
<1>4. UNCHANGED RpcDoing
  BY <1>1, SameWork DEF Processes
<1> QED
  BY <1>3, <1>4, SameOutcome DEF Rpc!Unseen, Rpc!rpcVars

\* Replacing the daemon that is alive, if any, is the death of a process.
LEMMA RpcDies ==
  ASSUME MailboxAssumption, RpcTypeInv, NEW D \in SUBSET Daemons,
         NEW new \in Daemons \cup {NoPid}, NEW how, Replace(D, new, how),
         \A d \in D : Live(d), new = NoPid \/ ~Live(new),
         UNCHANGED <<starts, executed, result>>
  PROVE  Rpc!RpcNext
<1> USE DEF RpcTypeInv
<1>1. deaths' = deaths + Cardinality(D) /\ deaths \in Nat
  BY DEF Replace, TypeInv, MailboxTypeOK, MailboxAssumption
<1>2. \A r \in Requesters : at'[r] = at[r] /\ cmd'[r] = cmd[r]
  BY DEF Replace, MailboxAssumption, Processes
<1>3. UNCHANGED <<RpcWants, RpcTicket, RpcAttempts>>
  BY <1>2, SameRequests
<1>4. \A d \in Daemons : at'[d] \in Serving => d \notin D /\ at[d] = at'[d] /\ cmd'[d] = cmd[d]
  BY DEF Replace, Serving, Processes
<1>5. CASE D = {}
  <2>1. deaths' = deaths
    BY <1>1, <1>5, FS_EmptySet
  <2>2. \A d \in Daemons : at[d] \in Serving => at'[d] = at[d]
    BY <1>5 DEF Replace, Serving, Live, Processes, MailboxAssumption
  <2>3. UNCHANGED RpcDoing
    BY <1>4, <2>2, SameWork
  <2> QED
    BY <1>3, <2>1, <2>3, SameOutcome DEF Rpc!RpcNext, Rpc!Unseen, Rpc!rpcVars
<1>6. CASE D # {}
  <2>1. PICK d \in D : TRUE
    BY <1>6
  <2>2. D = {d}
    BY <2>1 DEF OneInv
  <2>3. deaths' = deaths + 1
    BY <1>1, <2>2, FS_Singleton
  <2>4. \A e \in Daemons : at'[e] \notin Serving
    BY <1>4, <2>1 DEF OneInv, Live, Serving
  <2>5. RpcDoing' = {}
    BY <2>4 DEF RpcDoing, Serving
  <2>6. Rpc!Die
    BY <1>3, <2>3, <2>5, SameOutcome DEF Rpc!Die
  <2> QED
    BY <2>6 DEF Rpc!RpcNext
<1> QED
  BY <1>5, <1>6

\* An operation that ends is performed.
LEMMA RpcPerforms ==
  ASSUME MailboxAssumption, RpcTypeInv, NEW d \in Daemons, Run(d)
  PROVE  Rpc!RpcNext
<1> USE DEF RpcTypeInv
<1>1. PICK o \in Outcomes : executed' = executed \cup {<<cmd[d], o>>}
  BY DEF Run
<1>2. at[d] = "run" /\ Goto(d, "finish") /\ UNCHANGED <<cmd, starts, deaths, result>>
  BY DEF Run, Aside, requests
<1>3. at'[d] = "finish" /\ \A p \in Processes : p # d => at'[p] = at[p]
  BY <1>2 DEF Goto, TypeInv, MailboxTypeOK, Processes
<1>4. \A e \in Daemons : at[e] \in Serving => e = d
  BY <1>2 DEF OneInv, Live, Serving
<1>5. cmd[d].from \in RpcDoing
  BY <1>2 DEF RpcDoing
<1>6. RpcDoing' = {}
  <2>1. \A e \in Daemons : at'[e] \notin Serving
    BY <1>3, <1>4 DEF Serving, Processes
  <2> QED
    BY <2>1 DEF RpcDoing, Serving
<1>7. UNCHANGED <<RpcWants, RpcTicket, RpcAttempts>>
  BY <1>2, <1>3, SameRequests DEF Processes, MailboxAssumption
<1>8. UNCHANGED RpcAnswer
  BY <1>2 DEF RpcAnswer
<1>9. RpcEffects' = RpcEffects \cup {<<cmd[d].from, o>>}
  <2> DEFINE Effect(e) == <<e[1].from, e[2]>>
             x == <<cmd[d], o>>
  <2>1. Effect(x) = <<cmd[d].from, o>>
    OBVIOUS
  <2> HIDE DEF Effect, x
  <2>2. {Effect(e) : e \in executed \cup {x}} = {Effect(e) : e \in executed} \cup {Effect(x)}
    OBVIOUS
  <2> QED
    BY <1>1, <2>1, <2>2 DEF Effect, x, RpcEffects
<1>10. Rpc!Perform(cmd[d].from, o)
  BY <1>2, <1>5, <1>6, <1>7, <1>8, <1>9 DEF Rpc!Perform
<1>11. cmd[d].from \in Requesters
  BY <1>2 DEF IdInv, GenuineInv, Genuine, InService
<1> QED
  BY <1>10, <1>11 DEF Rpc!RpcNext, Outcomes

\* A final status that a requester takes for its answer is a reply.
LEMMA RpcReplies ==
  ASSUME MailboxAssumption, RpcTypeInv, TruthInv', NEW r \in Requesters, Answered(r)
  PROVE  Rpc!RpcNext
<1> USE DEF RpcTypeInv
<1>1. PICK a \in Outcomes : a = ReadState.status
  BY DEF Answered, HasAnswer
<1>2. Tell(r, a) /\ at[r] = "wait" /\ UNCHANGED <<cmd, starts, executed, deaths>>
  BY <1>1 DEF Answered, Tell, Passive, history
<1>3. result'[r] = a
  BY <1>2 DEF Tell, TypeInv, MailboxTypeOK
<1>4. PICK e \in executed : e[1].id = cmd[r].id /\ e[2] = a
  BY <1>2, <1>3 DEF TruthInv, AnswersAreTrue
<1>5. Genuine(e[1])
  BY DEF IdInv, GenuineInv
<1> DEFINE q == e[1].from
<1>6. q \in Requesters /\ RpcTicket[q] = e[1].id
  BY <1>5 DEF Genuine, RpcTicket
<1>7. RpcTicket[r] = cmd[r].id /\ cmd[r].id # 0
  BY <1>2 DEF RpcTicket, IdInv, StampInv
<1>8. <<q, a>> \in RpcEffects
  BY <1>4 DEF RpcEffects
<1>9. Rpc!Answer(r, a)
  <2>1. Abstracted(a) = a
    BY DEF Abstracted, Outcomes
  <2> QED
    BY <1>2, <2>1, RpcAnswers
<1>10. Rpc!Reply(r, a)
  <2> HIDE DEF q
  <2> QED
    BY <1>4, <1>6, <1>7, <1>8, <1>9 DEF Rpc!Reply
<1> QED
  BY <1>10 DEF Rpc!RpcNext, Outcomes

LEMMA RpcStepMaps ==
  ASSUME MailboxAssumption, RpcTypeInv, RpcTypeInv', [MailboxNext]_mailboxVars
  PROVE  [Rpc!RpcNext]_(Rpc!rpcVars)
<1> USE DEF RpcTypeInv
<1>0. Rpc!Unseen => UNCHANGED Rpc!rpcVars
  BY DEF Rpc!Unseen
<1>1. ASSUME NEW p \in Processes, Load(p) \/ Truncate(p) PROVE Rpc!Unseen
  <2>1. UNCHANGED <<at, cmd, starts, deaths, executed, result>>
    BY <1>1 DEF Load, Truncate, requests, history
  <2> QED
    BY <2>1, SameRequests, SameWork, SameOutcome DEF Rpc!Unseen, Rpc!rpcVars
<1>2. ASSUME NEW p \in Processes, Fill(p) PROVE Rpc!RpcNext
  BY <1>2, RpcBegins, RpcRewrites DEF Rpc!RpcNext
<1>3. ASSUME NEW r \in Requesters, at[r] \in BeforeQueue, LaunchFailed(r),
             UNCHANGED <<starts, executed, deaths>>
      PROVE  Rpc!RpcNext
  <2>1. CASE Tell(r, "unavailable")
    BY <1>3, <2>1, RpcTurnedAway DEF LaunchFailed
  <2>2. CASE Goto(r, "ensure") /\ UNCHANGED result
    <3>1. at[r] # "idle" /\ UNCHANGED cmd
      BY <1>3 DEF BeforeQueue, LaunchFailed
    <3>2. UNCHANGED <<RpcWants, RpcTicket, RpcAttempts, RpcDoing>>
      BY <1>3, <2>2, <3>1, RequesterGoesOn
    <3> QED
      BY <1>3, <2>2, <3>2, SameOutcome DEF Rpc!RpcNext, Rpc!Unseen, Rpc!rpcVars
  <2> QED
    BY <1>3, <2>1, <2>2 DEF LaunchFailed
<1>4. ASSUME NEW r \in Requesters, at[r] # "idle", NEW s, Goto(r, s), s # "idle",
             UNCHANGED <<cmd, starts, executed, deaths, result>>
      PROVE  Rpc!RpcNext
  <2>1. UNCHANGED <<RpcWants, RpcTicket, RpcAttempts, RpcDoing>>
    BY <1>4, RequesterGoesOn
  <2> QED
    BY <1>4, <2>1, SameOutcome DEF Rpc!RpcNext, Rpc!Unseen, Rpc!rpcVars
<1>5. ASSUME NEW r \in Requesters, EnsureDaemon(r) PROVE Rpc!RpcNext
  <2>1. at[r] = "ensure" /\ UNCHANGED <<starts, executed, deaths>>
    BY <1>5 DEF EnsureDaemon, Passive, history
  <2>2. CASE Stamp(r)
    BY <2>1, <2>2, RpcStamps
  <2>3. CASE Goto(r, "wipe") /\ UNCHANGED <<cmd, requests>>
    BY <1>4, <2>1, <2>3 DEF requests
  <2>4. CASE Tell(r, "skipped") /\ UNCHANGED cmd /\ cmd[r].op = "shutdown"
    BY <2>1, <2>4, RpcTurnedAway DEF BeforeQueue
  <2> QED
    BY <1>5, <2>2, <2>3, <2>4 DEF EnsureDaemon
<1>6. ASSUME NEW r \in Requesters, Wipe(r) PROVE Rpc!RpcNext
  BY <1>4, <1>6 DEF Wipe, Passive, requests, history
<1>7. ASSUME NEW r \in Requesters, Spawn(r) PROVE Rpc!RpcNext
  <2>1. at[r] = "spawn" /\ at[r] \in BeforeQueue /\ UNCHANGED <<starts, executed, deaths>>
    BY <1>7 DEF Spawn, Passive, history, BeforeQueue
  <2>2. CASE Goto(r, "ready") /\ UNCHANGED <<cmd, requests>>
    BY <1>4, <2>1, <2>2 DEF requests
  <2> QED
    BY <1>3, <1>7, <2>1, <2>2 DEF Spawn
<1>8. ASSUME NEW r \in Requesters, AwaitReady(r) PROVE Rpc!RpcNext
  <2>1. at[r] = "ready" /\ at[r] \in BeforeQueue /\ UNCHANGED <<starts, executed, deaths>>
    BY <1>8 DEF AwaitReady, Passive, history, BeforeQueue
  <2> QED
    BY <1>3, <1>8, <2>1, RpcStamps DEF AwaitReady
<1>9. ASSUME NEW r \in Requesters, OpenCommandFile(r) PROVE Rpc!Unseen
  <2>1. UNCHANGED <<at, cmd, starts, deaths, executed, result>>
    BY <1>9 DEF OpenCommandFile, Passive, requests, history
  <2> QED
    BY <2>1, SameRequests, SameWork, SameOutcome DEF Rpc!Unseen, Rpc!rpcVars
<1>10. ASSUME NEW r \in Requesters, FillCommandFile(r) PROVE Rpc!RpcNext
  BY <1>4, <1>10 DEF FillCommandFile, Passive, requests, history
<1>11. ASSUME NEW r \in Requesters, Answered(r) PROVE Rpc!RpcNext
  BY <1>11, RpcReplies
<1>12. ASSUME NEW r \in Requesters, TimedOut(r) PROVE Rpc!RpcNext
  <2>1. at[r] = "wait" /\ Tell(r, "timeout") /\ UNCHANGED <<cmd, starts, executed, deaths>>
    BY <1>12 DEF TimedOut, Passive, history
  <2>2. Rpc!Answer(r, "unknown")
    BY <2>1, RpcAnswers DEF Abstracted
  <2>3. RpcTicket[r] # 0
    BY <2>1 DEF RpcTicket, IdInv, StampInv
  <2> QED
    BY <2>2, <2>3 DEF Rpc!GiveUp, Rpc!RpcNext
<1>13. ASSUME NEW r \in Requesters, Abandon(r) PROVE Rpc!RpcNext
  <2>1. UNCHANGED <<RpcWants, RpcTicket, RpcAttempts, RpcDoing>>
    BY <1>13, RequesterGoesOn DEF Abandon, history
  <2> QED
    BY <1>13, <2>1, SameOutcome DEF Abandon, requests, history, Rpc!Die, Rpc!RpcNext
<1>14. ASSUME NEW d \in Daemons, Launch(d) PROVE Rpc!RpcNext
  <2>1. UNCHANGED <<starts, executed, result>> /\ ~Live(d)
    BY <1>14 DEF Launch, requests, history
  <2>2. PICK l \in launching :
          \/ UNCHANGED <<deaths, at, cmd>>
          \/ Replace(IF l[1] = "task" THEN TaskDaemons ELSE {}, d, l[1])
    BY <1>14 DEF Launch
  <2>3. CASE UNCHANGED <<deaths, at, cmd>>
    BY <2>1, <2>3, SameRequests, SameWork, SameOutcome DEF Rpc!RpcNext, Rpc!Unseen, Rpc!rpcVars
  <2>4. CASE Replace(IF l[1] = "task" THEN TaskDaemons ELSE {}, d, l[1])
    <3> DEFINE D == IF l[1] = "task" THEN TaskDaemons ELSE {}
    <3>1. D \in SUBSET Daemons /\ \A e \in D : Live(e)
      BY DEF TaskDaemons
    <3>2. Replace(D, d, l[1])
      BY <2>4
    <3> HIDE DEF D
    <3> QED
      BY <2>1, <3>1, <3>2, RpcDies
  <2> QED
    BY <2>2, <2>3, <2>4
<1>15. ASSUME NEW d \in Daemons, TakeOver(d) PROVE Rpc!RpcNext
  <2>1. UNCHANGED <<starts, executed, result>> /\ at[d] = "takeover"
    BY <1>15 DEF TakeOver, requests, history
  <2>2. CASE Replace({ReadState.pid}, NoPid, "task") /\ Live(ReadState.pid)
    <3>1. {ReadState.pid} \in SUBSET Daemons
      BY <2>2 DEF Live
    <3> QED
      BY <2>1, <2>2, <3>1, RpcDies
  <2>3. CASE Exit(d) /\ UNCHANGED deaths
    <3>1. \A p \in Processes : p # d => cmd'[p] = cmd[p]
      BY <2>3 DEF Exit, TypeInv, MailboxTypeOK
    <3> QED
      BY <2>1, <2>3, <3>1, RpcIdles DEF Exit, Serving, Rpc!RpcNext
  <2>4. CASE Goto(d, "register") /\ UNCHANGED <<cmd, deaths>>
    BY <2>1, <2>4, RpcIdles DEF Serving, Rpc!RpcNext
  <2> QED
    BY <1>15, <2>2, <2>3, <2>4 DEF TakeOver
<1>16. ASSUME NEW d \in Daemons, Poll(d) PROVE Rpc!Unseen
  <2>1. at[d] = "poll" /\ UNCHANGED <<starts, deaths, executed, result>>
    BY <1>16 DEF Poll, Aside, requests, history
  <2>2. \A p \in Processes : p # d => cmd'[p] = cmd[p]
    BY <1>16 DEF Poll, Exit, TypeInv, MailboxTypeOK
  <2>3. PICK s \in {"off", "start"} : Goto(d, s)
    BY <1>16 DEF Poll, Exit
  <2> QED
    BY <2>1, <2>2, <2>3, RpcIdles DEF Serving
<1>17. ASSUME NEW d \in Daemons, Report(d) PROVE Rpc!Unseen
  BY <1>17, RpcIdles DEF Report, Aside, requests, history, Serving
<1>18. ASSUME NEW d \in Daemons, Run(d) PROVE Rpc!RpcNext
  BY <1>18, RpcPerforms
<1>19. ASSUME NEW d \in Daemons, Clear(d) PROVE Rpc!Unseen
  <2>1. at[d] = "clear" /\ UNCHANGED <<starts, deaths, executed, result>>
    BY <1>19 DEF Clear, Aside, requests, history
  <2>2. \A p \in Processes : p # d => cmd'[p] = cmd[p]
    BY <1>19 DEF Clear, TypeInv, MailboxTypeOK
  <2>3. PICK s \in {"off", "unregister", "poll"} : Goto(d, s)
    BY <1>19 DEF Clear
  <2> QED
    BY <2>1, <2>2, <2>3, RpcIdles DEF Serving
<1>20. ASSUME NEW d \in Daemons, Crash(d) PROVE Rpc!RpcNext
  <2>1. {d} \in SUBSET Daemons
    OBVIOUS
  <2> QED
    BY <1>20, <2>1, RpcDies DEF Crash, requests, history
<1>21. ASSUME TaskTrigger \/ UNCHANGED mailboxVars PROVE Rpc!Unseen
  <2>1. UNCHANGED <<at, cmd, starts, deaths, executed, result>>
    BY <1>21 DEF TaskTrigger, mailboxVars, requests, history
  <2> QED
    BY <2>1, SameRequests, SameWork, SameOutcome DEF Rpc!Unseen, Rpc!rpcVars
<1> QED
  BY <1>0, <1>1, <1>2, RpcAsks, <1>5, <1>6, <1>7, <1>8, <1>9, <1>10, <1>11, <1>12, <1>13,
     <1>14, <1>15, <1>16, <1>17, <1>18, <1>19, <1>20, <1>21
     DEF MailboxNext, RequesterNext, DaemonNext

\* As long as only the scheduled task launches daemons, the two files, the
\* polling and the mortal daemons together are the remote call of CommandRpc, for
\* any number of requesters and pids, whether or not their ids coincide.
THEOREM Implementation ==
  ASSUME ~DirectSpawn
  PROVE  MailboxSpec => ImplementsRpc
<1>1. MailboxInit => RpcTypeInv /\ Rpc!RpcInit
  BY TypeInit, TruthInit, IdInit, OneInit, ReplayInit, RpcInitMaps, MailboxAssumption
     DEF RpcTypeInv
<1>2. RpcTypeInv /\ [MailboxNext]_mailboxVars => RpcTypeInv'
  BY TypeStep, TruthStep, IdStep, OneStep, ReplayStep, MailboxAssumption DEF RpcTypeInv
<1>3. RpcTypeInv /\ RpcTypeInv' /\ [MailboxNext]_mailboxVars => [Rpc!RpcNext]_(Rpc!rpcVars)
  BY RpcStepMaps, MailboxAssumption
<1> QED
  BY <1>1, <1>2, <1>3, PTL DEF MailboxSpec, ImplementsRpc, Rpc!RpcSpec


===============================================================================

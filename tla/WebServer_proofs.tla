-------------------------- MODULE WebServer_proofs --------------------------
(***************************************************************************)
(* What holds of the web server's modules for any number of sessions and   *)
(* requests. First the streaming sessions (StreamSessions): the types, and *)
(* that a running child is always within somebody's reach. The two are     *)
(* inductive together: a task takes or replaces a child only when it has   *)
(* none left to kill, which is what At says, so what it held is never      *)
(* overwritten; the rest is that a slot holds one session at a time.       *)
(*                                                                         *)
(* Then that sessions which do not overlap leave the desktop as they found *)
(* it. Whatever the newest session has still to do, the displays are as    *)
(* found, or they are the stream's, their state is saved under the         *)
(* session's token and its agenda still holds the step that restores them. *)
(*                                                                         *)
(* Then the native sessions (NativeSessions): what each of the requests    *)
(* that wait for a lock knows of the session it is about, by which no      *)
(* ended session gets a ticket or a token back. Then their locks: nobody   *)
(* waits for a request that waits, save in the embrace of a launch and an  *)
(* invite; and since a launch holds its locks until its session is in all  *)
(* the tables, a lifecycle that is complete is not made anew. At the end,  *)
(* the types of the two modules together (MCWebServer).                    *)
(***************************************************************************)
EXTENDS MCWebServer, TLAPS

IInv == TypeOK /\ NoOrphans

LEMMA InitIInv == Init => IInv
<1> SUFFICES ASSUME Init PROVE IInv
  OBVIOUS
<1> USE SessionAssumption DEF Init
<1>1. saved \in [token : {TokenOf[s] : s \in Sessions} \cup {NoSession},
                 previous : Layouts]
  BY DEF NoState, Layouts
<1>2. TypeOK
  BY <1>1 DEF TypeOK, Layouts, MaxPrepareAttempts, NoChild, NoSession
<1>3. NoOrphans
  BY DEF NoOrphans
<1> QED BY <1>2, <1>3 DEF IInv

-----------------------------------------------------------------------------
(* Agendas, slots and children.                                            *)

\* A sequence of steps put in place of the first of an agenda gives an agenda.
LEMMA ThenTyped ==
  \A t \in Tasks, steps \in Seq(Steps) :
    todo \in [Tasks -> Seq(Steps)] /\ todo[t] # <<>> /\ Then(t, steps)
      => todo' \in [Tasks -> Seq(Steps)]
<1> SUFFICES ASSUME NEW t \in Tasks, NEW steps \in Seq(Steps),
                    todo \in [Tasks -> Seq(Steps)], todo[t] # <<>>, Then(t, steps)
             PROVE  todo' \in [Tasks -> Seq(Steps)]
  OBVIOUS
<1>1. Tail(todo[t]) \in Seq(Steps)
  OBVIOUS
<1>2. steps \o Tail(todo[t]) \in Seq(Steps)
  BY <1>1
<1> QED BY <1>2 DEF Then

\* The agendas the actions write down.
LEMMA AgendasTyped ==
  /\ <<>> \in Seq(Steps)
  /\ \A step \in Steps : <<step>> \in Seq(Steps) /\ <<step, "serve">> \in Seq(Steps)
  /\ Opening \in Seq(Steps)
  /\ ReaderSteps \in Seq(Steps)
  /\ ConnectedSteps \in Seq(Steps)
  /\ <<"killOwn", "stopWatchIfCurrent">> \in Seq(Steps)
  /\ \A s \in Sessions : UnconnectedSteps(s) \in Seq(Steps)
<1>1. <<>> \in Seq(Steps)
  OBVIOUS
<1>2. \A step \in Steps : <<step>> \in Seq(Steps) /\ <<step, "serve">> \in Seq(Steps)
  BY DEF Steps
<1>3. /\ Opening \in Seq(Steps)
      /\ ReaderSteps \in Seq(Steps)
      /\ ConnectedSteps \in Seq(Steps)
      /\ <<"killOwn", "stopWatchIfCurrent">> \in Seq(Steps)
  BY DEF Steps, Opening, ReaderSteps, ConnectedSteps
<1>4. ASSUME NEW s \in Sessions PROVE UnconnectedSteps(s) \in Seq(Steps)
  <2>1. <<"stopWatchIfCurrent", "restoreIfActive">> \in Seq(Steps)
    BY DEF Steps
  <2>2. (IF request[s] = "none" THEN <<>> ELSE <<"bestEffort">>) \in Seq(Steps)
    BY <1>1, <1>2 DEF Steps
  <2>3. <<"leaveReaper">> \in Seq(Steps)
    BY <1>2 DEF Steps
  <2> QED BY <2>1, <2>2, <2>3 DEF UnconnectedSteps
<1> QED BY <1>1, <1>2, <1>3, <1>4

\* A task is a session and a role, and has the child of its session.
LEMMA TaskShape ==
  \A t \in Tasks : t[1] \in Sessions /\ \A kind \in Kinds : <<t[1], kind>> \in Child
BY DEF Tasks, Child

\* What a slot holds is a child or none.
LEMMA InSlotTyped ==
  \A kind \in Kinds : TypeOK => InSlot(kind) \in Child \cup {NoChild}
BY DEF TypeOK, InSlot, Child, NoSession

-----------------------------------------------------------------------------
(* The steps that move children.                                           *)

\* A child that leaves a slot goes to a task that had none left to kill.
LEMMA TakeKeeps ==
  \A t \in Tasks, kind \in Kinds :
    IInv /\ victim[t] = NoChild /\ Take(t, kind) /\ UNCHANGED proc
      => NoOrphans' /\ slot' \in [Kinds -> Sessions \cup {NoSession}]
                    /\ victim' \in [Tasks -> Child \cup {NoChild}]
<1> SUFFICES ASSUME NEW t \in Tasks, NEW kind \in Kinds, IInv,
                    victim[t] = NoChild, Take(t, kind), UNCHANGED proc
             PROVE  NoOrphans' /\ slot' \in [Kinds -> Sessions \cup {NoSession}]
                               /\ victim' \in [Tasks -> Child \cup {NoChild}]
  OBVIOUS
<1> USE DEF IInv, TypeOK
<1>1. /\ slot' = [slot EXCEPT ![kind] = NoSession]
      /\ victim' = [victim EXCEPT ![t] = InSlot(kind)]
  BY DEF Take
<1>2. InSlot(kind) \in Child \cup {NoChild}
  BY InSlotTyped
<1>3. ASSUME NEW c \in Child, proc'[c] = "running"
      PROVE  slot'[c[2]] = c[1] \/ \E u \in Tasks : victim'[u] = c
  <2>1. c[1] \in Sessions /\ c[2] \in Kinds /\ c = <<c[1], c[2]>> /\ c # NoChild
    BY DEF Child, NoChild, NoSession, Sessions, Kinds
  <2>2. CASE slot[c[2]] = c[1] /\ c[2] = kind
    <3>1. InSlot(kind) = c
      BY <2>1, <2>2 DEF InSlot, Sessions, NoSession
    <3> QED BY <1>1, <3>1
  <2>3. CASE slot[c[2]] = c[1] /\ c[2] # kind
    BY <1>1, <2>1, <2>3
  <2>4. CASE \E u \in Tasks : victim[u] = c
    BY <1>1, <2>1, <2>4
  <2> QED BY <1>3, <2>2, <2>3, <2>4 DEF NoOrphans
<1>4. NoOrphans'
  BY <1>3 DEF NoOrphans
<1> QED BY <1>1, <1>2, <1>4 DEF NoSession

\* A child that is replaced in its slot goes the same way, and the new one is in
\* the slot.
LEMMA ReplaceKeeps ==
  \A t \in Tasks, kind \in Kinds :
    IInv /\ victim[t] = NoChild /\ Replace(t, kind)
      => /\ NoOrphans'
         /\ slot' \in [Kinds -> Sessions \cup {NoSession}]
         /\ victim' \in [Tasks -> Child \cup {NoChild}]
         /\ proc' \in [Child -> {"none", "running", "dead"}]
<1> SUFFICES ASSUME NEW t \in Tasks, NEW kind \in Kinds, IInv,
                    victim[t] = NoChild, Replace(t, kind)
             PROVE  /\ NoOrphans'
                    /\ slot' \in [Kinds -> Sessions \cup {NoSession}]
                    /\ victim' \in [Tasks -> Child \cup {NoChild}]
                    /\ proc' \in [Child -> {"none", "running", "dead"}]
  OBVIOUS
<1> USE DEF IInv, TypeOK
<1>1. /\ slot' = [slot EXCEPT ![kind] = t[1]]
      /\ proc' = [proc EXCEPT ![<<t[1], kind>>] = "running"]
      /\ victim' = [victim EXCEPT ![t] = InSlot(kind)]
  BY DEF Replace
<1>2. InSlot(kind) \in Child \cup {NoChild} /\ t[1] \in Sessions
  BY InSlotTyped, TaskShape
<1>3. ASSUME NEW c \in Child, proc'[c] = "running"
      PROVE  slot'[c[2]] = c[1] \/ \E u \in Tasks : victim'[u] = c
  <2>1. c[1] \in Sessions /\ c[2] \in Kinds /\ c = <<c[1], c[2]>> /\ c # NoChild
    BY DEF Child, NoChild, NoSession, Sessions, Kinds
  <2>2. CASE c = <<t[1], kind>>
    BY <1>1, <2>1, <2>2
  <2>3. CASE c # <<t[1], kind>>
    <3>1. proc[c] = "running"
      BY <1>1, <1>3, <2>3
    <3>2. CASE slot[c[2]] = c[1] /\ c[2] = kind
      <4>1. InSlot(kind) = c
        BY <2>1, <3>2 DEF InSlot, Sessions, NoSession
      <4> QED BY <1>1, <4>1
    <3>3. CASE slot[c[2]] = c[1] /\ c[2] # kind
      BY <1>1, <2>1, <3>3
    <3>4. CASE \E u \in Tasks : victim[u] = c
      BY <1>1, <2>1, <3>4
    <3> QED BY <3>1, <3>2, <3>3, <3>4 DEF NoOrphans
  <2> QED BY <2>2, <2>3
<1>4. NoOrphans'
  BY <1>3 DEF NoOrphans
<1> QED BY <1>1, <1>2, <1>4

\* A step that neither takes, replaces nor forgets a child and starts none
\* leaves every running child where it was.
LEMMA OthersKeep ==
  ASSUME NoOrphans, slot' = slot, victim' = victim,
         \A c \in Child : proc'[c] = "running" => proc[c] = "running"
  PROVE  NoOrphans'
BY DEF NoOrphans

\* Killing removes the child from the running ones, or it was a child of none.
LEMMA KillKeeps == \A t \in Tasks : IInv /\ Kill(t) => IInv'
<1> SUFFICES ASSUME NEW t \in Tasks, IInv, Kill(t) PROVE IInv'
  OBVIOUS
<1> USE DEF IInv
<1>1. TypeOK'
  BY DEF TypeOK, Kill, streamVars, screenVars
<1>2. NoOrphans'
  BY DEF TypeOK, Kill, NoOrphans
<1> QED BY <1>1, <1>2

\* So does killing a child that may still be in its slot.
LEMMA KillOwnKeeps ==
  \A t \in Tasks, kind \in Kinds :
    IInv /\ todo[t] # <<>> /\ KillOwn(t, kind) => IInv'
<1> SUFFICES ASSUME NEW t \in Tasks, NEW kind \in Kinds, IInv,
                    todo[t] # <<>>, KillOwn(t, kind)
             PROVE  IInv'
  OBVIOUS
<1> USE DEF IInv
<1>1. todo' \in [Tasks -> Seq(Steps)]
  BY ThenTyped, AgendasTyped DEF TypeOK, KillOwn
<1>2. <<t[1], kind>> \in Child
  BY TaskShape
<1>3. proc' \in [Child -> {"none", "running", "dead"}]
  BY <1>2 DEF TypeOK, KillOwn
<1>4. TypeOK'
  BY <1>1, <1>3 DEF TypeOK, KillOwn, streamVars, screenVars
<1>5. \A c \in Child : proc'[c] = "running" => proc[c] = "running"
  BY <1>2 DEF TypeOK, KillOwn
<1>6. NoOrphans'
  BY <1>5, OthersKeep DEF KillOwn
<1> QED BY <1>4, <1>6

-----------------------------------------------------------------------------
(* One lemma for each group of actions.                                    *)

LEMMA TaskStepKeeps == \A t \in Tasks : IInv /\ TaskStep(t) => IInv'
<1> SUFFICES ASSUME NEW t \in Tasks, IInv, TaskStep(t) PROVE IInv'
  OBVIOUS
<1> USE DEF streamVars, screenVars, childVars, taskVars
<1>0. TypeOK /\ NoOrphans /\ t[1] \in Sessions
  BY TaskShape DEF IInv
<1>1. CASE Kill(t)
  BY <1>1, KillKeeps
<1>2. ASSUME NEW kind \in Kinds, NEW step \in Steps, At(t, step), Take(t, kind),
             UNCHANGED <<generation, proc, streamVars, prepared, screenVars>>
      PROVE  IInv'
  <2>1. victim[t] = NoChild /\ todo[t] # <<>>
    BY <1>2 DEF At
  <2>2. /\ NoOrphans'
        /\ slot' \in [Kinds -> Sessions \cup {NoSession}]
        /\ victim' \in [Tasks -> Child \cup {NoChild}]
    BY <1>2, <2>1, TakeKeeps
  <2>3. todo' \in [Tasks -> Seq(Steps)]
    BY <1>0, <1>2, <2>1, ThenTyped, AgendasTyped DEF TypeOK, Take
  <2>4. TypeOK'
    BY <1>0, <1>2, <2>2, <2>3 DEF TypeOK
  <2> QED BY <2>2, <2>4 DEF IInv
<1>3. CASE TakeStreamer(t)
  BY <1>2, <1>3 DEF TakeStreamer, Kinds, Steps
<1>4. CASE TakeWatch(t)
  BY <1>2, <1>4 DEF TakeWatch, Kinds, Steps
<1>5. ASSUME NEW steps \in Seq(Steps), todo[t] # <<>>, Then(t, steps),
             UNCHANGED <<generation, victim, childVars, streamVars, faults>>,
             prepared' \in [Sessions -> BOOLEAN], memory' \in [Tasks -> Layouts],
             display' \in Layouts, saved' \in {saved, NoState}
      PROVE  IInv'
  <2>1. todo' \in [Tasks -> Seq(Steps)]
    BY <1>0, <1>5, ThenTyped DEF TypeOK
  <2>2. saved' \in [token : {TokenOf[s] : s \in Sessions} \cup {NoSession},
                    previous : Layouts]
    BY <1>0, <1>5 DEF TypeOK, NoState, Layouts
  <2>3. TypeOK'
    BY <1>0, <1>5, <2>1, <2>2 DEF TypeOK
  <2>4. NoOrphans'
    BY <1>0, <1>5, OthersKeep
  <2> QED BY <2>3, <2>4 DEF IInv
<1>6. /\ prepared \in [Sessions -> BOOLEAN]
      /\ memory \in [Tasks -> Layouts]
      /\ display \in Layouts
      /\ saved.previous \in Layouts
  BY <1>0 DEF TypeOK
<1>7. /\ <<>> \in Seq(Steps)
      /\ <<"takeWatch">> \in Seq(Steps)
      /\ <<"restoreRead">> \in Seq(Steps)
      /\ <<"restoreApply">> \in Seq(Steps)
      /\ <<"restoreForget">> \in Seq(Steps)
  BY AgendasTyped DEF Steps
<1>8. CASE StopWatchIfCurrent(t)
  BY <1>5, <1>6, <1>7, <1>8 DEF StopWatchIfCurrent, At
<1>9. CASE RestoreIfActive(t)
  <2>1. prepared' \in [Sessions -> BOOLEAN]
    BY <1>6, <1>9 DEF RestoreIfActive
  <2> QED BY <1>5, <1>6, <1>7, <1>9, <2>1 DEF RestoreIfActive, At
<1>10. CASE BestEffort(t)
  BY <1>5, <1>6, <1>7, <1>10 DEF BestEffort, At
<1>11. CASE RestoreRead(t)
  <2>1. memory' \in [Tasks -> Layouts]
    BY <1>6, <1>11 DEF RestoreRead
  <2> QED BY <1>5, <1>6, <1>7, <1>11, <2>1 DEF RestoreRead, At
<1>12. CASE RestoreApply(t)
  <2>1. memory' \in [Tasks -> Layouts] /\ display' \in Layouts
    BY <1>6, <1>12 DEF RestoreApply, HelperEnds, Layouts
  <2> QED BY <1>5, <1>6, <1>7, <1>12, <2>1 DEF RestoreApply, At
<1>13. CASE RestoreForget(t)
  BY <1>5, <1>6, <1>7, <1>13 DEF RestoreForget, At
<1>14. CASE KillOwnStreamer(t)
  BY <1>14, KillOwnKeeps DEF KillOwnStreamer, At, Kinds
<1>15. CASE KillOwnWatch(t)
  BY <1>15, KillOwnKeeps DEF KillOwnWatch, At, Kinds
<1> QED BY <1>1, <1>3, <1>4, <1>8, <1>9, <1>10, <1>11, <1>12, <1>13, <1>14,
           <1>15 DEF TaskStep

LEMMA RestoreFailsKeeps == \A t \in Tasks : IInv /\ RestoreFails(t) => IInv'
<1> SUFFICES ASSUME NEW t \in Tasks, IInv, RestoreFails(t) PROVE IInv'
  OBVIOUS
<1> USE DEF IInv
<1>1. todo[t] # <<>> /\ Then(t, <<>>)
  BY DEF RestoreFails, At
<1>2. todo' \in [Tasks -> Seq(Steps)]
  BY <1>1, ThenTyped, AgendasTyped DEF TypeOK
<1>3. faults' \in 0..MaxFaults
  BY SessionAssumption DEF TypeOK, RestoreFails
<1>4. memory' \in [Tasks -> Layouts]
  BY DEF TypeOK, RestoreFails, HelperEnds, Layouts
<1>5. TypeOK'
  BY <1>2, <1>3, <1>4 DEF TypeOK, RestoreFails, streamVars, childVars
<1>6. NoOrphans'
  BY OthersKeep DEF RestoreFails, childVars
<1> QED BY <1>5, <1>6

LEMMA BodyStepKeeps == \A s \in Sessions : IInv /\ BodyStep(s) => IInv'
<1> SUFFICES ASSUME NEW s \in Sessions, IInv, BodyStep(s) PROVE IInv'
  OBVIOUS
<1> USE DEF streamVars, screenVars, childVars, taskVars
<1>0. TypeOK /\ NoOrphans /\ {Main(s), Reader(s), Reaper(s)} \subseteq Tasks
  BY DEF IInv, Tasks, Roles, Main, Reader, Reaper
\* Steps that touch no child and leave an agenda that is one.
<1>1. ASSUME todo' \in [Tasks -> Seq(Steps)],
             UNCHANGED <<generation, victim, childVars, connected, faults>>,
             request' \in [Sessions -> {"none", "received", "forwarded"}],
             attempt' \in [Sessions -> 0..MaxPrepareAttempts],
             prepared' \in [Sessions -> BOOLEAN],
             socket' \in [Sessions -> BOOLEAN],
             memory' \in [Tasks -> Layouts], display' \in Layouts,
             saved' \in [token : {TokenOf[r] : r \in Sessions} \cup {NoSession},
                         previous : Layouts]
      PROVE  IInv'
  <2>1. TypeOK'
    BY <1>0, <1>1 DEF TypeOK
  <2>2. NoOrphans'
    BY <1>0, <1>1, OthersKeep
  <2> QED BY <2>1, <2>2 DEF IInv
<1>2. CASE ReturnEarly(s)
  <2>1. todo' \in [Tasks -> Seq(Steps)]
    BY <1>0, <1>2, AgendasTyped DEF TypeOK, ReturnEarly, Only
  <2>2. socket' \in [Sessions -> BOOLEAN]
    BY <1>0, <1>2 DEF TypeOK, ReturnEarly
  <2> QED BY <1>0, <1>1, <1>2, <2>1, <2>2 DEF TypeOK, ReturnEarly
<1>3. CASE Launch(s)
  <2>1. victim[Main(s)] = NoChild /\ todo[Main(s)] # <<>>
    BY <1>3 DEF Launch, At
  <2>2. <<"startWatch">> \in Seq(Steps)
    BY AgendasTyped DEF Steps
  <2>3. todo' \in [Tasks -> Seq(Steps)]
    BY <1>0, <1>3, <2>1, <2>2, ThenTyped DEF TypeOK, Launch
  <2>4. /\ NoOrphans'
        /\ slot' \in [Kinds -> Sessions \cup {NoSession}]
        /\ victim' \in [Tasks -> Child \cup {NoChild}]
        /\ proc' \in [Child -> {"none", "running", "dead"}]
    BY <1>0, <1>3, <2>1, ReplaceKeeps DEF IInv, Launch, Kinds
  <2>5. TypeOK'
    BY <1>0, <1>3, <2>3, <2>4 DEF TypeOK, Launch
  <2> QED BY <2>4, <2>5 DEF IInv
<1>4. CASE StartWatch(s)
  <2>1. victim[Main(s)] = NoChild /\ todo[Main(s)] # <<>>
    BY <1>4 DEF StartWatch, At
  <2>2. /\ NoOrphans'
        /\ slot' \in [Kinds -> Sessions \cup {NoSession}]
        /\ victim' \in [Tasks -> Child \cup {NoChild}]
        /\ proc' \in [Child -> {"none", "running", "dead"}]
    <3>1. CASE Replace(Main(s), "watch")
      BY <1>0, <2>1, <3>1, ReplaceKeeps DEF IInv, Kinds
    <3>2. CASE UNCHANGED <<slot, proc, victim>>
      BY <1>0, <3>2, OthersKeep DEF TypeOK
    <3> QED BY <1>4, <3>1, <3>2 DEF StartWatch
  <2>3. <<"serve">> \o Tail(todo[Main(s)]) \in Seq(Steps)
    <3>1. <<"serve">> \in Seq(Steps)
      BY AgendasTyped DEF Steps
    <3>2. Tail(todo[Main(s)]) \in Seq(Steps)
      BY <1>0, <2>1 DEF TypeOK
    <3> QED BY <3>1, <3>2
  <2>4. todo' \in [Tasks -> Seq(Steps)]
    BY <1>0, <1>4, <2>3, AgendasTyped DEF TypeOK, StartWatch
  <2>5. TypeOK'
    BY <1>0, <1>4, <2>2, <2>4 DEF TypeOK, StartWatch
  <2> QED BY <2>2, <2>5 DEF IInv
<1>5. CASE Capture(s)
  <2>1. todo' \in [Tasks -> Seq(Steps)]
    <3>1. <<"apply">> \in Seq(Steps)
      BY AgendasTyped DEF Steps
    <3> QED BY <1>0, <1>5, <3>1, ThenTyped DEF TypeOK, Capture, At
  <2>2. memory' \in [Tasks -> Layouts]
    BY <1>0, <1>5 DEF TypeOK, Capture
  <2> QED BY <1>0, <1>1, <1>5, <2>1, <2>2 DEF TypeOK, Capture
<1>6. CASE Apply(s)
  <2>1. todo' \in [Tasks -> Seq(Steps)]
    <3>1. <<"save">> \in Seq(Steps)
      BY AgendasTyped DEF Steps
    <3> QED BY <1>0, <1>6, <3>1, ThenTyped DEF TypeOK, Apply, At
  <2>2. display' \in Layouts
    BY <1>6 DEF Apply, Layouts
  <2> QED BY <1>0, <1>1, <1>6, <2>1, <2>2 DEF TypeOK, Apply
<1>7. CASE Save(s)
  <2>1. todo' \in [Tasks -> Seq(Steps)]
    BY <1>0, <1>7, ThenTyped, AgendasTyped DEF TypeOK, Save, At
  <2>2. /\ request' \in [Sessions -> {"none", "received", "forwarded"}]
        /\ attempt' \in [Sessions -> 0..MaxPrepareAttempts]
    BY <1>0, <1>7 DEF TypeOK, Save, MaxPrepareAttempts
  <2>3. memory' \in [Tasks -> Layouts]
    BY <1>0, <1>7 DEF TypeOK, Save, HelperEnds, Layouts
  <2>4. prepared' \in [Sessions -> BOOLEAN]
    <3>1. PICK changed \in BOOLEAN :
            prepared' = [prepared EXCEPT ![s] = prepared[s] \/ changed]
      BY <1>7 DEF Save
    <3>2. (prepared[s] \/ changed) \in BOOLEAN
      OBVIOUS
    <3> QED BY <1>0, <3>1, <3>2 DEF TypeOK
  <2>5. saved' \in [token : {TokenOf[r] : r \in Sessions} \cup {NoSession},
                    previous : Layouts]
    BY <1>0, <1>7 DEF TypeOK, Save
  <2> QED BY <1>0, <1>1, <1>7, <2>1, <2>2, <2>3, <2>4, <2>5 DEF TypeOK, Save, Layouts
<1>11. CASE FallBack(s)
  <2>1. todo' \in [Tasks -> Seq(Steps)]
    BY <1>0, <1>11, ThenTyped, AgendasTyped DEF TypeOK, FallBack, At
  <2>2. /\ request' \in [Sessions -> {"none", "received", "forwarded"}]
        /\ attempt' \in [Sessions -> 0..MaxPrepareAttempts]
    BY <1>0, <1>11 DEF TypeOK, FallBack, MaxPrepareAttempts
  <2>3. memory' \in [Tasks -> Layouts]
    BY <1>0, <1>11 DEF TypeOK, FallBack, HelperEnds, Layouts
  <2> QED BY <1>0, <1>1, <1>11, <2>1, <2>2, <2>3 DEF TypeOK, FallBack
<1>8. CASE LeaveReaper(s)
  <2>1. Tail(todo[Main(s)]) \in Seq(Steps)
    BY <1>0, <1>8 DEF TypeOK, LeaveReaper, At
  <2>2. todo' \in [Tasks -> Seq(Steps)]
    BY <1>0, <1>8, <2>1, AgendasTyped DEF TypeOK, LeaveReaper
  <2> QED BY <1>0, <1>1, <1>8, <2>2 DEF TypeOK, LeaveReaper
<1>9. CASE ReaderEnds(s)
  <2>1. todo' \in [Tasks -> Seq(Steps)]
    BY <1>0, <1>9, ThenTyped, AgendasTyped DEF TypeOK, ReaderEnds, At
  <2> QED BY <1>0, <1>1, <1>9, <2>1 DEF TypeOK, ReaderEnds
<1>10. CASE CloseSocket(s)
  <2>1. todo' \in [Tasks -> Seq(Steps)]
    BY <1>0, <1>10, ThenTyped, AgendasTyped DEF TypeOK, CloseSocket, At
  <2>2. socket' \in [Sessions -> BOOLEAN]
    BY <1>0, <1>10 DEF TypeOK, CloseSocket
  <2> QED BY <1>0, <1>1, <1>10, <2>1, <2>2 DEF TypeOK, CloseSocket
<1> QED BY <1>2, <1>3, <1>4, <1>5, <1>6, <1>7, <1>8, <1>9, <1>10, <1>11 DEF BodyStep

LEMMA EnvironmentKeeps == \A s \in Sessions : IInv /\ Environment(s) => IInv'
<1> SUFFICES ASSUME NEW s \in Sessions, IInv, Environment(s) PROVE IInv'
  OBVIOUS
<1> USE DEF streamVars, screenVars, childVars, taskVars
<1>0. TypeOK /\ NoOrphans /\ Main(s) \in Tasks /\ Reader(s) \in Tasks
  BY DEF IInv, Tasks, Roles, Main, Reader
\* Steps that start no child and move none.
<1>1. ASSUME TypeOK', UNCHANGED <<slot, victim>>,
             \A c \in Child : proc'[c] = "running" => proc[c] = "running"
      PROVE  IInv'
  BY <1>0, <1>1, OthersKeep DEF IInv
<1>2. CASE Begin(s)
  <2>1. generation' \in 0..MaxSessions
    BY <1>2, SessionAssumption DEF Begin, Sessions
  <2>2. todo' \in [Tasks -> Seq(Steps)] /\ socket' \in [Sessions -> BOOLEAN]
    BY <1>0, <1>2, AgendasTyped DEF TypeOK, Begin, Only
  <2>3. TypeOK'
    BY <1>0, <1>2, <2>1, <2>2 DEF TypeOK, Begin
  <2> QED BY <1>1, <1>2, <2>3 DEF Begin
<1>3. CASE StartStream(s)
  <2>1. todo' \in [Tasks -> Seq(Steps)]
    <3>1. <<"capture", "serve">> \in Seq(Steps)
      BY AgendasTyped DEF Steps
    <3> QED BY <1>0, <1>3, <3>1, ThenTyped DEF TypeOK, StartStream, At
  <2>2. /\ request' \in [Sessions -> {"none", "received", "forwarded"}]
        /\ attempt' \in [Sessions -> 0..MaxPrepareAttempts]
    BY <1>0, <1>3 DEF TypeOK, StartStream, MaxPrepareAttempts
  <2>3. TypeOK'
    BY <1>0, <1>3, <2>1, <2>2 DEF TypeOK, StartStream
  <2> QED BY <1>1, <1>3, <2>3 DEF StartStream
<1>4. CASE PrepareFails(s)
  <2>1. todo' \in [Tasks -> Seq(Steps)]
    <3>1. /\ <<"capture", "serve">> \in Seq(Steps)
          /\ <<"serve">> \in Seq(Steps)
      BY AgendasTyped DEF Steps
    <3>2. UnconnectedSteps(s) \in Seq(Steps)
      BY AgendasTyped
    <3>3. \/ Only(Main(s), <<"capture", "serve">>)
          \/ Only(Main(s), <<"serve">>)
          \/ Only(Main(s), UnconnectedSteps(s))
      BY <1>4 DEF PrepareFails
    <3> QED BY <1>0, <3>1, <3>2, <3>3 DEF TypeOK, Only
  <2>2. /\ request' \in [Sessions -> {"none", "received", "forwarded"}]
        /\ attempt' \in [Sessions -> 0..MaxPrepareAttempts]
    <3>1. \/ /\ attempt[s] < MaxPrepareAttempts
             /\ attempt' = [attempt EXCEPT ![s] = @ + 1]
          \/ attempt' = [attempt EXCEPT ![s] = 0]
      BY <1>4 DEF PrepareFails
    <3>2. \/ request' = [request EXCEPT ![s] = "forwarded"]
          \/ request' = request
      BY <1>4 DEF PrepareFails
    <3>3. attempt[s] \in 0..MaxPrepareAttempts
      BY <1>0 DEF TypeOK
    <3>4. attempt' \in [Sessions -> 0..MaxPrepareAttempts]
      <4>1. attempt \in [Sessions -> 0..MaxPrepareAttempts]
        BY <1>0 DEF TypeOK
      <4>2. CASE /\ attempt[s] < MaxPrepareAttempts
                 /\ attempt' = [attempt EXCEPT ![s] = @ + 1]
        <5>1. attempt[s] + 1 \in 0..MaxPrepareAttempts
          BY <3>3, <4>2 DEF MaxPrepareAttempts
        <5> QED BY <4>1, <4>2, <5>1
      <4>3. CASE attempt' = [attempt EXCEPT ![s] = 0]
        BY <4>1, <4>3 DEF MaxPrepareAttempts
      <4> QED BY <3>1, <4>2, <4>3
    <3> QED BY <1>0, <3>2, <3>4 DEF TypeOK
  <2>3. faults' \in 0..MaxFaults
    BY <1>0, <1>4, SessionAssumption DEF TypeOK, PrepareFails
  <2>4. memory' \in [Tasks -> Layouts]
    BY <1>0, <1>4 DEF TypeOK, PrepareFails, HelperEnds, Layouts
  <2>5. TypeOK'
    BY <1>0, <1>4, <2>1, <2>2, <2>3, <2>4 DEF TypeOK, PrepareFails
  <2> QED BY <1>1, <1>4, <2>5 DEF PrepareFails
<1>5. CASE Connect(s)
  <2>1. connected' \in [Sessions -> BOOLEAN]
    BY <1>0, <1>5 DEF TypeOK, Connect
  <2>2. TypeOK'
    BY <1>0, <1>5, <2>1 DEF TypeOK, Connect
  <2> QED BY <1>1, <1>5, <2>2 DEF Connect
<1>6. CASE Stop(s)
  <2>1. todo' \in [Tasks -> Seq(Steps)]
    BY <1>0, <1>6, AgendasTyped DEF TypeOK, Stop, Only
  <2>2. TypeOK'
    BY <1>0, <1>6, <2>1 DEF TypeOK, Stop
  <2> QED BY <1>1, <1>6, <2>2 DEF Stop
<1>7. CASE StreamerExits(s)
  <2>1. <<s, "streamer">> \in Child
    BY DEF Child, Kinds
  <2>2. TypeOK'
    BY <1>0, <1>7 DEF TypeOK, StreamerExits
  <2>3. \A c \in Child : proc'[c] = "running" => proc[c] = "running"
    BY <1>0, <1>7, <2>1 DEF TypeOK, StreamerExits
  <2> QED BY <1>1, <1>7, <2>2, <2>3 DEF StreamerExits
<1>8. CASE ReaderStopped(s)
  <2>1. todo' \in [Tasks -> Seq(Steps)]
    BY <1>0, <1>8, ThenTyped, AgendasTyped DEF TypeOK, ReaderStopped, At
  <2>2. TypeOK'
    BY <1>0, <1>8, <2>1 DEF TypeOK, ReaderStopped
  <2> QED BY <1>1, <1>8, <2>2 DEF ReaderStopped
<1>9. CASE WatchEnforces(s)
  <2>1. TypeOK'
    BY <1>0, <1>9 DEF TypeOK, WatchEnforces, Layouts
  <2> QED BY <1>1, <1>9, <2>1 DEF WatchEnforces
<1> QED BY <1>2, <1>3, <1>4, <1>5, <1>6, <1>7, <1>8, <1>9 DEF Environment

LEMMA StepKeeps == IInv /\ [Next]_vars => IInv'
<1> SUFFICES ASSUME IInv, [Next]_vars PROVE IInv'
  OBVIOUS
<1>1. CASE \E t \in Tasks : TaskStep(t) \/ RestoreFails(t)
  BY <1>1, TaskStepKeeps, RestoreFailsKeeps
<1>2. CASE \E s \in Sessions : BodyStep(s) \/ Environment(s)
  BY <1>2, BodyStepKeeps, EnvironmentKeeps
<1>3. CASE UNCHANGED vars
  BY <1>3 DEF IInv, TypeOK, NoOrphans, vars
<1> QED BY <1>1, <1>2, <1>3 DEF Next

-----------------------------------------------------------------------------

LEMMA Invariance == Spec => []IInv
BY InitIInv, StepKeeps, PTL DEF Spec

\* Every variable keeps its type, for any number of sessions: an agenda holds only
\* steps a task can take, and a task holds no child but one that was in a slot.
THEOREM TypeCorrect == Spec => []TypeOK
<1>1. IInv => TypeOK
  BY DEF IInv
<1> QED BY <1>1, Invariance, PTL

\* A running child is in its slot or about to be killed, however the tasks of any
\* number of sessions interleave: the two slots, each under a lock of its own that is
\* released before the kill, lose no process.
THEOREM ChildrenReachable == Spec => []NoOrphans
<1>1. IInv => NoOrphans
  BY DEF IInv
<1> QED BY <1>1, Invariance, PTL

\* Of all streamers that run, at most one is not about to be killed, although no
\* session asks whether it is still the newest when it puts its streamer into the
\* slot.
THEOREM SingleStreamer == Spec => []OneStreamer
<1>1. NoOrphans => OneStreamer
  <2> SUFFICES ASSUME NoOrphans, NEW r \in Sessions, NEW s \in Sessions,
                      proc[<<r, "streamer">>] = "running",
                      proc[<<s, "streamer">>] = "running",
                      \A t \in Tasks :
                        victim[t] \notin {<<r, "streamer">>, <<s, "streamer">>}
               PROVE  r = s
    BY DEF OneStreamer
  <2>1. <<r, "streamer">> \in Child /\ <<s, "streamer">> \in Child
    BY DEF Child, Kinds
  <2>2. slot["streamer"] = r /\ slot["streamer"] = s
    BY <2>1 DEF NoOrphans
  <2> QED BY <2>2
<1> QED BY <1>1, ChildrenReachable, PTL

-----------------------------------------------------------------------------
(* Sessions that come one after another leave the desktop as they found it. *)

\* One of the steps is still to be done.
HasStep(q, steps) == \E i \in 1 .. Len(q) : q[i] \in steps
\* The task does nothing (any more).
AtRest(t) == todo[t] = <<>> /\ victim[t] = NoChild

\* Steps that end an agenda, and those that come before the loop on the
\* websocket or the restore that a session which stops runs first.
LastSteps == {"launch", "startWatch", "serve", "leaveReaper"}
EarlySteps == {"takeStreamer", "takeWatch", "capture", "apply", "save", "stopWatchIfCurrent"}
PrepareSteps == {"capture", "apply", "save"}
RestoreSteps == {"restoreRead", "restoreApply", "restoreForget"}
OwedSteps == {"serve", "restoreIfActive"}
WatchSteps == {"takeWatch", "startWatch", "serve", "stopWatchIfCurrent"}
SideSteps == {"read", "stopWatchIfCurrent", "takeWatch", "restoreIfActive", "closeSocket", "killOwn"}

\* What the agenda of a body looks like, wherever it is: what ends it comes last;
\* before the session serves, or restores, nothing else than early steps are
\* left; and a step of the helper's is the first or none.
MainShape(q) ==
  /\ \A i \in 1 .. Len(q) : q[i] \in LastSteps => i = Len(q)
  /\ \A j \in 1 .. Len(q) : q[j] \in OwedSteps \cup WatchSteps =>
       \A i \in 1 .. j - 1 : q[i] \in EarlySteps
  /\ \A i \in 2 .. Len(q) : q[i] \notin PrepareSteps \cup RestoreSteps

\* The displays are as they were found.
Left == display = "desktop" /\ saved = NoState
\* The state file of the session, with what it found.
Own(s) == [token |-> TokenOf[s], previous |-> "desktop"]

\* The session has nothing to restore, or has everything to restore.
Clean(s) == Left /\ ~prepared[s]
Dirty(s) == display = "stream" /\ saved = Own(s) /\ prepared[s] /\ request[s] = "forwarded"

\* Between two runs of the helper: what is to be restored will be.
ScreenBetween(s) ==
  \/ Clean(s)
  \/ /\ Dirty(s)
     /\ HasStep(todo[Main(s)], OwedSteps)
     /\ ~HasStep(todo[Main(s)], {"launch", "startWatch"})

\* While the helper prepares the display ...
ScreenPreparing(s) ==
  LET q == todo[Main(s)] IN
  /\ Len(q) = 2 /\ q[2] = "serve" /\ ~prepared[s] /\ saved = NoState
  /\ q[1] \in {"capture", "apply"} => display = "desktop"
  /\ q[1] \in {"apply", "save"} => memory[Main(s)] = "desktop"
  /\ q[1] = "save" => display = "stream"

\* ... and while it restores it.
ScreenRestoring(s) ==
  LET q == todo[Main(s)] IN
  /\ ~prepared[s] /\ victim[Main(s)] = NoChild
  /\ q[1] = "restoreRead" => Left \/ (display = "stream" /\ saved = Own(s))
  /\ q[1] = "restoreApply" => memory[Main(s)] = "desktop"
  /\ q[1] = "restoreForget" => display = "desktop"

Screen(s) ==
  LET q == todo[Main(s)] IN
  /\ q = <<>> \/ q[1] \notin PrepareSteps \cup RestoreSteps => ScreenBetween(s)
  /\ q # <<>> /\ q[1] \in PrepareSteps => ScreenPreparing(s)
  /\ q # <<>> /\ q[1] \in RestoreSteps => ScreenRestoring(s)

\* A session that has neither to start nor to stop a watch has none.
WatchStopped(s) ==
  ~HasStep(todo[Main(s)], WatchSteps)
    => slot["watch"] = NoSession

\* The other tasks of a session wait until its body has returned.
SidesWait(s) ==
  /\ \A t \in {Reader(s), Reaper(s)} : \A i \in 1 .. Len(todo[t]) : todo[t][i] \in SideSteps
  /\ ~Returned(s) => /\ AtRest(Reaper(s)) /\ victim[Reader(s)] = NoChild
                     /\ todo[Reader(s)] # <<>> => todo[Reader(s)][1] = "read"

\* All that is known of the newest session.
Current(s) == MainShape(todo[Main(s)]) /\ Screen(s) /\ WatchStopped(s) /\ SidesWait(s)

\* Sessions before it are finished, those after it untouched.
OneAtATime ==
  /\ generation = 0 => Left
  /\ \A s \in Sessions : s = generation => Current(s)
  /\ \A t \in Tasks : t[1] # generation => AtRest(t)
  /\ \A s \in Sessions : s > generation => ~prepared[s] /\ request[s] = "none"

DesktopInv == IInv /\ (faults = 0 => OneAtATime)

-----------------------------------------------------------------------------
(* Agendas that go on. *)

\* The step is done and nothing takes its place.
LEMMA ThenShifts ==
  ASSUME TypeOK, NEW t \in Tasks, todo[t] # <<>>, Then(t, <<>>)
  PROVE  /\ todo'[t] \in Seq(Steps)
         /\ Len(todo'[t]) = Len(todo[t]) - 1
         /\ \A i \in 1 .. Len(todo'[t]) : todo'[t][i] = todo[t][i + 1]
         /\ \A u \in Tasks : u # t => todo'[u] = todo[u]
<1> DEFINE q == todo[t]
<1>1. q \in Seq(Steps) /\ q # <<>>
  BY DEF TypeOK
<1>2. todo'[t] = <<>> \o Tail(q) /\ \A u \in Tasks : u # t => todo'[u] = todo[u]
  BY DEF Then, TypeOK
<1> HIDE DEF q
<1>3. Tail(q) \in Seq(Steps) /\ Len(Tail(q)) = Len(q) - 1
      /\ \A i \in 1 .. Len(q) - 1 : Tail(q)[i] = q[i + 1]
  BY <1>1
<1>4. <<>> \o Tail(q) = Tail(q)
  BY <1>3
<1>5. todo'[t] = Tail(q)
  BY <1>2, <1>4
<1> QED BY <1>2, <1>3, <1>5 DEF q

\* Another step takes its place.
LEMMA ThenReplaces ==
  ASSUME TypeOK, NEW t \in Tasks, todo[t] # <<>>, NEW y \in Steps, Then(t, <<y>>)
  PROVE  /\ todo'[t] \in Seq(Steps)
         /\ Len(todo'[t]) = Len(todo[t]) /\ Len(todo[t]) \in Nat \ {0}
         /\ todo'[t] # <<>> /\ todo'[t][1] = y
         /\ \A i \in 2 .. Len(todo[t]) : todo'[t][i] = todo[t][i]
         /\ \A u \in Tasks : u # t => todo'[u] = todo[u]
<1> DEFINE q == todo[t]
<1>1. q \in Seq(Steps) /\ q # <<>>
  BY DEF TypeOK
<1>2. todo'[t] = <<y>> \o Tail(q) /\ \A u \in Tasks : u # t => todo'[u] = todo[u]
  BY DEF Then, TypeOK
<1> HIDE DEF q
<1>3. Tail(q) \in Seq(Steps) /\ Len(Tail(q)) = Len(q) - 1 /\ Len(q) \in Nat \ {0}
      /\ \A i \in 1 .. Len(q) - 1 : Tail(q)[i] = q[i + 1]
  BY <1>1
<1>4. <<y>> \in Seq(Steps) /\ Len(<<y>>) = 1 /\ <<y>>[1] = y
  OBVIOUS
<1> DEFINE p == <<y>> \o Tail(q)
<1>5. p \in Seq(Steps) /\ Len(p) = Len(q) /\ p[1] = y
  BY <1>3, <1>4
<1>6. ASSUME NEW i \in 2 .. Len(q) PROVE p[i] = q[i]
  <2>1. i - 1 \in 1 .. Len(q) - 1 /\ i \in Nat
    BY <1>3
  <2>2. p[i] = Tail(q)[i - 1]
    BY <1>3, <1>4, <2>1
  <2> QED BY <1>3, <2>1, <2>2
<1>7. p # <<>>
  BY <1>3, <1>5
<1>8. todo'[t] = p
  BY <1>2
<1> HIDE DEF p
<1> QED BY <1>2, <1>3, <1>5, <1>6, <1>7, <1>8 DEF q

\* The shape stays when the first step is done, or another takes its place.
LEMMA ShapeShifts ==
  ASSUME NEW q \in Seq(Steps), NEW p \in Seq(Steps), q # <<>>, MainShape(q),
         Len(p) = Len(q) - 1, \A i \in 1 .. Len(p) : p[i] = q[i + 1]
  PROVE  MainShape(p)
<1>1. Len(q) \in Nat /\ Len(p) \in Nat
  OBVIOUS
<1>2. ASSUME NEW i \in 1 .. Len(p), p[i] \in LastSteps PROVE i = Len(p)
  <2>1. i + 1 \in 1 .. Len(q) /\ q[i + 1] \in LastSteps
    BY <1>1, <1>2
  <2>2. i + 1 = Len(q)
    BY <2>1 DEF MainShape
  <2> QED BY <1>1, <2>2
<1>3. ASSUME NEW j \in 1 .. Len(p), p[j] \in OwedSteps \cup WatchSteps,
             NEW i \in 1 .. j - 1
      PROVE  p[i] \in EarlySteps
  <2>1. j + 1 \in 1 .. Len(q) /\ q[j + 1] \in OwedSteps \cup WatchSteps
        /\ i + 1 \in 1 .. (j + 1) - 1 /\ i \in 1 .. Len(p)
    BY <1>1, <1>3
  <2>2. q[i + 1] \in EarlySteps
    BY <2>1 DEF MainShape
  <2> QED BY <2>1, <2>2
<1>4. ASSUME NEW i \in 2 .. Len(p) PROVE p[i] \notin PrepareSteps \cup RestoreSteps
  <2>1. i + 1 \in 2 .. Len(q) /\ i \in 1 .. Len(p)
    BY <1>1
  <2> QED BY <2>1 DEF MainShape
<1> QED BY <1>2, <1>3, <1>4 DEF MainShape

LEMMA ShapeReplaces ==
  ASSUME NEW q \in Seq(Steps), NEW p \in Seq(Steps), q # <<>>, MainShape(q),
         Len(p) = Len(q), \A i \in 2 .. Len(p) : p[i] = q[i],
         p[1] \in LastSteps => q[1] \in LastSteps,
         p[1] \in EarlySteps \/ q[1] \notin EarlySteps
  PROVE  MainShape(p)
<1>1. Len(q) \in Nat \ {0}
  OBVIOUS
<1>2. ASSUME NEW i \in 1 .. Len(p), p[i] \in LastSteps PROVE i = Len(p)
  <2>1. q[i] \in LastSteps
    BY <1>1, <1>2
  <2> QED BY <1>1, <2>1 DEF MainShape
<1>3. ASSUME NEW j \in 1 .. Len(p), p[j] \in OwedSteps \cup WatchSteps,
             NEW i \in 1 .. j - 1
      PROVE  p[i] \in EarlySteps
  <2>1. j \in 2 .. Len(q) /\ q[j] \in OwedSteps \cup WatchSteps /\ i \in 1 .. Len(p)
    BY <1>1, <1>3
  <2>2. q[i] \in EarlySteps /\ q[1] \in EarlySteps
    BY <1>1, <1>3, <2>1 DEF MainShape
  <2> QED BY <1>1, <2>1, <2>2
<1>4. \A i \in 2 .. Len(p) : p[i] \notin PrepareSteps \cup RestoreSteps
  BY DEF MainShape
<1> QED BY <1>2, <1>3, <1>4 DEF MainShape

\* What an agenda still holds when its first step is done.
LEMMA HasShifts ==
  ASSUME NEW q \in Seq(Steps), NEW p \in Seq(Steps), q # <<>>,
         Len(p) = Len(q) - 1, \A i \in 1 .. Len(p) : p[i] = q[i + 1],
         NEW steps
  PROVE  /\ HasStep(p, steps) => HasStep(q, steps)
         /\ HasStep(q, steps) /\ q[1] \notin steps => HasStep(p, steps)
<1>1. Len(q) \in Nat \ {0} /\ Len(p) \in Nat
  OBVIOUS
<1>2. ASSUME NEW i \in 1 .. Len(p), p[i] \in steps PROVE HasStep(q, steps)
  <2>1. i + 1 \in 1 .. Len(q) /\ q[i + 1] \in steps
    BY <1>1, <1>2
  <2> QED BY <2>1 DEF HasStep
<1>3. ASSUME NEW i \in 1 .. Len(q), q[i] \in steps, q[1] \notin steps
      PROVE  HasStep(p, steps)
  <2>1. i - 1 \in 1 .. Len(p) /\ p[i - 1] \in steps
    BY <1>1, <1>3
  <2> QED BY <2>1 DEF HasStep
<1> QED BY <1>2, <1>3 DEF HasStep

LEMMA HasReplaces ==
  ASSUME NEW q \in Seq(Steps), NEW p \in Seq(Steps), q # <<>>,
         Len(p) = Len(q), \A i \in 2 .. Len(p) : p[i] = q[i],
         NEW steps
  PROVE  /\ HasStep(p, steps) => p[1] \in steps \/ HasStep(q, steps)
         /\ HasStep(q, steps) => q[1] \in steps \/ HasStep(p, steps)
         /\ p[1] \in steps => HasStep(p, steps)
<1>1. Len(q) \in Nat \ {0}
  OBVIOUS
<1> QED BY <1>1 DEF HasStep

\* After the restore of a session that stops there is nothing left to prepare
\* or to run, and what ends an agenda is its only step left.
LEMMA ShapeSays ==
  ASSUME NEW q \in Seq(Steps), q # <<>>, MainShape(q)
  PROVE  /\ q[1] \in LastSteps => Len(q) = 1
         /\ q[1] \notin EarlySteps /\ q[1] \notin OwedSteps => ~HasStep(q, OwedSteps)
         /\ q[1] \notin EarlySteps /\ q[1] \notin WatchSteps => ~HasStep(q, WatchSteps)
<1>1. Len(q) \in Nat \ {0} /\ 1 \in 1 .. Len(q)
  OBVIOUS
<1>2. ASSUME NEW j \in 1 .. Len(q), q[j] \in OwedSteps \cup WatchSteps,
             q[1] \notin EarlySteps, j # 1
      PROVE  FALSE
  <2>1. 1 \in 1 .. j - 1
    BY <1>1, <1>2
  <2> QED BY <1>2, <2>1 DEF MainShape
<1>3. q[1] \in LastSteps => Len(q) = 1
  BY <1>1 DEF MainShape
<1>4. q[1] \notin EarlySteps /\ q[1] \notin OwedSteps => ~HasStep(q, OwedSteps)
  BY <1>1, <1>2 DEF HasStep
<1>5. q[1] \notin EarlySteps /\ q[1] \notin WatchSteps => ~HasStep(q, WatchSteps)
  BY <1>1, <1>2 DEF HasStep
<1> QED BY <1>3, <1>4, <1>5

-----------------------------------------------------------------------------
(* What a step of the session has to keep. *)

LEMMA SessionTasks ==
  ASSUME NEW s \in Sessions
  PROVE  /\ {Main(s), Reader(s), Reaper(s)} \subseteq Tasks
         /\ Main(s)[1] = s /\ Reader(s)[1] = s /\ Reaper(s)[1] = s
         /\ Main(s) # Reader(s) /\ Main(s) # Reaper(s) /\ Reader(s) # Reaper(s)
         /\ \A t \in Tasks : t[1] = s => t \in {Main(s), Reader(s), Reaper(s)}
         /\ s \in Nat \ {0}
BY SessionAssumption DEF Tasks, Roles, Main, Reader, Reaper, Sessions

\* A step of the newest session has to keep only what is known of that session.
LEMMA CurrentKeeps ==
  ASSUME OneAtATime, NEW s \in Sessions, s = generation, generation' = generation,
         Current(s)',
         \A t \in Tasks : t[1] # s => todo'[t] = todo[t] /\ victim'[t] = victim[t],
         \A r \in Sessions : r > s => prepared'[r] = prepared[r] /\ request'[r] = request[r]
  PROVE  OneAtATime'
<1>1. s # 0
  BY SessionTasks
<1>2. \A t \in Tasks : t[1] # generation' => AtRest(t)'
  BY DEF OneAtATime, AtRest
<1>3. \A r \in Sessions : r > generation' => ~prepared'[r] /\ request'[r] = "none"
  BY DEF OneAtATime
<1> QED BY <1>1, <1>2, <1>3 DEF OneAtATime

\* A step of its body does not concern the other tasks.
LEMMA SidesKeep ==
  ASSUME TypeOK, NEW s \in Sessions, SidesWait(s), ~Returned(s),
         \A t \in Tasks : t # Main(s) => todo'[t] = todo[t] /\ victim'[t] = victim[t]
  PROVE  SidesWait(s)'
<1>1. \A t \in {Reader(s), Reaper(s)} : todo'[t] = todo[t] /\ victim'[t] = victim[t]
  BY SessionTasks
<1>2. /\ AtRest(Reaper(s)) /\ victim[Reader(s)] = NoChild
      /\ todo[Reader(s)] # <<>> => todo[Reader(s)][1] = "read"
  BY DEF SidesWait
<1>3. AtRest(Reaper(s))'
  BY <1>1, <1>2 DEF AtRest
<1> QED BY <1>1, <1>2, <1>3 DEF SidesWait

LEMMA MainKeeps ==
  ASSUME TypeOK, OneAtATime, NEW s \in Sessions, s = generation, generation' = generation,
         ~Returned(s),
         MainShape(todo'[Main(s)]), Screen(s)', WatchStopped(s)',
         \A t \in Tasks : t # Main(s) => todo'[t] = todo[t] /\ victim'[t] = victim[t],
         \A r \in Sessions : r > s => prepared'[r] = prepared[r] /\ request'[r] = request[r]
  PROVE  OneAtATime'
<1>1. SidesWait(s)'
  BY SidesKeep DEF OneAtATime, Current
<1>2. Current(s)'
  BY <1>1 DEF Current
<1>3. \A t \in Tasks : t[1] # s => todo'[t] = todo[t] /\ victim'[t] = victim[t]
  BY SessionTasks
<1> QED BY <1>2, <1>3, CurrentKeeps

\* When the body of the session has returned, what its other tasks do leaves
\* the desktop alone.
LEMMA SideKeeps ==
  ASSUME TypeOK, OneAtATime, NEW s \in Sessions, s = generation, generation' = generation,
         Returned(s), NEW t \in {Reader(s), Reaper(s)},
         \A u \in Tasks : u # t => todo'[u] = todo[u] /\ victim'[u] = victim[u],
         \A i \in 1 .. Len(todo'[t]) : todo'[t][i] \in SideSteps,
         slot'["watch"] \in {slot["watch"], NoSession},
         UNCHANGED <<request, display, saved>>,
         prepared'[s] \in {prepared[s], FALSE},
         \A r \in Sessions : r # s => prepared'[r] = prepared[r]
  PROVE  OneAtATime'
<1>1. Current(s)
  BY DEF OneAtATime
<1>2. todo[Main(s)] = <<>> /\ todo'[Main(s)] = <<>> /\ victim'[Main(s)] = NoChild
  BY SessionTasks DEF Returned
<1>3. Clean(s)
  BY <1>1, <1>2 DEF Current, Screen, ScreenBetween, HasStep
<1>4. Clean(s)'
  BY <1>3 DEF Clean, Left
<1>5. MainShape(todo'[Main(s)])
  BY <1>2 DEF MainShape
<1>6. Screen(s)'
  BY <1>2, <1>4 DEF Screen, ScreenBetween
<1>7. WatchStopped(s)'
  BY <1>1, <1>2 DEF Current, WatchStopped, HasStep
<1>8. Returned(s)'
  BY <1>2 DEF Returned
<1>9. SidesWait(s)'
  <2>1. ASSUME NEW u \in {Reader(s), Reaper(s)}
        PROVE  \A i \in 1 .. Len(todo'[u]) : todo'[u][i] \in SideSteps
    BY <1>1, SessionTasks DEF Current, SidesWait
  <2> QED BY <1>8, <2>1 DEF SidesWait
<1>10. Current(s)'
  BY <1>5, <1>6, <1>7, <1>9 DEF Current
<1>11. /\ \A u \in Tasks : u[1] # s => todo'[u] = todo[u] /\ victim'[u] = victim[u]
       /\ \A r \in Sessions : r > s => prepared'[r] = prepared[r] /\ request'[r] = request[r]
  BY SessionTasks
<1> QED BY <1>10, <1>11, CurrentKeeps

\* A task that has something to do is one of the newest session: its body, or
\* another when the body has returned.
LEMMA WhoseTurn ==
  ASSUME TypeOK, OneAtATime, NEW t \in Tasks, ~AtRest(t)
  PROVE  /\ generation \in Sessions /\ t[1] = generation /\ Current(generation)
         /\ t \in {Main(generation), Reader(generation), Reaper(generation)}
         /\ t # Main(generation) /\ ~(todo[t] # <<>> /\ Head(todo[t]) = "read")
              => Returned(generation)
         /\ t = Main(generation) => ~Returned(generation)
<1>1. t[1] = generation /\ t[1] \in Sessions
  BY TaskShape DEF OneAtATime
<1>2. Current(generation) /\ t \in {Main(generation), Reader(generation), Reaper(generation)}
  BY <1>1, SessionTasks DEF OneAtATime
<1>3. t # Main(generation) /\ ~Returned(generation) => todo[t] # <<>> /\ Head(todo[t]) = "read"
  BY <1>2 DEF Current, SidesWait, AtRest
<1> QED BY <1>1, <1>2, <1>3 DEF AtRest, Returned

-----------------------------------------------------------------------------
(* The body of a session, one group of steps after another. *)

\* A step that leaves the displays alone, whether it ends or another step
\* comes in its place.
LEMMA BodyGoesOn ==
  ASSUME TypeOK, OneAtATime, NEW s \in Sessions, s = generation, generation' = generation,
         todo[Main(s)] # <<>>,
         todo[Main(s)][1] \notin PrepareSteps \cup RestoreSteps,
         todo[Main(s)][1] \in OwedSteps => Clean(s),
         \/ Then(Main(s), <<>>)
         \/ \E y \in Steps \ (PrepareSteps \cup RestoreSteps \cup {"launch", "startWatch"}) :
              /\ Then(Main(s), <<y>>)
              /\ y \in LastSteps => todo[Main(s)][1] \in LastSteps
              /\ y \in EarlySteps \/ todo[Main(s)][1] \notin EarlySteps
         \/ Then(Main(s), <<"startWatch">>) /\ todo[Main(s)][1] = "launch",
         \A t \in Tasks : t # Main(s) => victim'[t] = victim[t],
         UNCHANGED <<request, display, saved>>,
         prepared'[s] = prepared[s],
         \A r \in Sessions : r # s => prepared'[r] = prepared[r],
         WatchStopped(s)'
  PROVE  OneAtATime'
<1> DEFINE q == todo[Main(s)]
           p == todo'[Main(s)]
<1>1. Main(s) \in Tasks /\ q \in Seq(Steps) /\ q # <<>> /\ Current(s)
  BY SessionTasks DEF OneAtATime, TypeOK
<1>2. ScreenBetween(s) /\ MainShape(q) /\ ~Returned(s)
  BY <1>1 DEF Current, Screen, Returned
<1>3. ASSUME p \in Seq(Steps), MainShape(p),
             p = <<>> \/ p[1] \notin PrepareSteps \cup RestoreSteps,
             Dirty(s) => HasStep(p, OwedSteps) /\ ~HasStep(p, {"launch", "startWatch"}),
             \A u \in Tasks : u # Main(s) => todo'[u] = todo[u]
      PROVE  OneAtATime'
  <2>1. ScreenBetween(s)'
    <3>1. CASE Clean(s)
      BY <3>1 DEF ScreenBetween, Clean, Left
    <3>2. CASE Dirty(s)
      BY <3>2, <1>3 DEF ScreenBetween, Dirty, Own
    <3> QED BY <1>2, <3>1, <3>2 DEF ScreenBetween
  <2>2. Screen(s)'
    BY <1>3, <2>1 DEF Screen
  <2>3. \A r \in Sessions : r > s => prepared'[r] = prepared[r] /\ request'[r] = request[r]
    BY SessionTasks
  <2> QED BY <1>2, <1>3, <2>2, <2>3, MainKeeps
<1>4. ~(Dirty(s) /\ q[1] \in OwedSteps)
  BY DEF Clean, Left, Dirty
<1>5. Dirty(s) => HasStep(q, OwedSteps) /\ ~HasStep(q, {"launch", "startWatch"})
  BY <1>2 DEF ScreenBetween, Clean, Left, Dirty
<1>6. CASE Then(Main(s), <<>>)
  <2>1. /\ p \in Seq(Steps) /\ Len(p) = Len(q) - 1
        /\ \A i \in 1 .. Len(p) : p[i] = q[i + 1]
        /\ \A u \in Tasks : u # Main(s) => todo'[u] = todo[u]
    BY <1>1, <1>6, ThenShifts
  <2> HIDE DEF q, p
  <2>2. MainShape(p)
    BY <1>1, <1>2, <2>1, ShapeShifts
  <2>3. p = <<>> \/ p[1] \notin PrepareSteps \cup RestoreSteps
    <3>1. CASE p # <<>>
      <4>1. 2 \in 2 .. Len(q) /\ p[1] = q[2]
        BY <1>1, <2>1, <3>1
      <4> QED BY <1>2, <4>1 DEF MainShape
    <3> QED BY <3>1
  <2>4. Dirty(s) => HasStep(p, OwedSteps) /\ ~HasStep(p, {"launch", "startWatch"})
    BY <1>1, <1>4, <1>5, <2>1, HasShifts
  <2> QED BY <1>3, <2>1, <2>2, <2>3, <2>4 DEF p
<1>7. ASSUME NEW y \in Steps, Then(Main(s), <<y>>),
             y \notin PrepareSteps \cup RestoreSteps,
             y \in {"launch", "startWatch"} => q[1] = "launch",
             y \in LastSteps => q[1] \in LastSteps,
             y \in EarlySteps \/ q[1] \notin EarlySteps
      PROVE  OneAtATime'
  <2>1. /\ p \in Seq(Steps) /\ Len(p) = Len(q) /\ p[1] = y
        /\ \A i \in 2 .. Len(q) : p[i] = q[i]
        /\ \A u \in Tasks : u # Main(s) => todo'[u] = todo[u]
    BY <1>1, <1>7, ThenReplaces
  <2>2. 1 \in 1 .. Len(q)
    BY <1>1
  <2> HIDE DEF q, p
  <2>3. MainShape(p)
    BY <1>1, <1>2, <1>7, <2>1, ShapeReplaces
  <2>4. Dirty(s) => HasStep(p, OwedSteps) /\ ~HasStep(p, {"launch", "startWatch"})
    <3>1. q[1] = "launch" => HasStep(q, {"launch", "startWatch"})
      BY <2>2 DEF HasStep
    <3> QED BY <1>1, <1>4, <1>5, <1>7, <2>1, <3>1, HasReplaces
  <2> QED BY <1>3, <1>7, <2>1, <2>3, <2>4 DEF p
<1>8. CASE \E y \in Steps \ (PrepareSteps \cup RestoreSteps \cup {"launch", "startWatch"}) :
             /\ Then(Main(s), <<y>>)
             /\ y \in LastSteps => todo[Main(s)][1] \in LastSteps
             /\ y \in EarlySteps \/ todo[Main(s)][1] \notin EarlySteps
  BY <1>7, <1>8
<1>9. CASE Then(Main(s), <<"startWatch">>) /\ todo[Main(s)][1] = "launch"
  BY <1>7, <1>9 DEF Steps, PrepareSteps, RestoreSteps, LastSteps, EarlySteps
<1> QED BY <1>6, <1>8, <1>9

\* The slot of the watch when an agenda goes on.
LEMMA WatchGoesOn ==
  ASSUME TypeOK, OneAtATime, NEW s \in Sessions, s = generation,
         todo[Main(s)] # <<>>,
         slot'["watch"] \in {NoSession, slot["watch"]},
         \/ /\ Then(Main(s), <<>>)
            /\ slot'["watch"] = NoSession \/ todo[Main(s)][1] \notin WatchSteps
         \/ \E y \in Steps : /\ Then(Main(s), <<y>>)
                             /\ y \in WatchSteps \/ todo[Main(s)][1] \notin WatchSteps
  PROVE  WatchStopped(s)'
<1> DEFINE q == todo[Main(s)]
           p == todo'[Main(s)]
<1>1. Main(s) \in Tasks /\ q \in Seq(Steps) /\ q # <<>> /\ WatchStopped(s)
  BY SessionTasks DEF OneAtATime, TypeOK, Current
<1>2. CASE slot'["watch"] = NoSession
  BY <1>2 DEF WatchStopped
<1>3. CASE slot'["watch"] = slot["watch"] /\ Then(Main(s), <<>>) /\ q[1] \notin WatchSteps
  <2>1. /\ p \in Seq(Steps) /\ Len(p) = Len(q) - 1
        /\ \A i \in 1 .. Len(p) : p[i] = q[i + 1]
    BY <1>1, <1>3, ThenShifts
  <2>2. ~HasStep(p, WatchSteps) => ~HasStep(q, WatchSteps)
    <3> HIDE DEF p, q
    <3> QED BY <1>1, <1>3, <2>1, HasShifts
  <2> QED BY <1>1, <1>3, <2>2 DEF WatchStopped
<1>4. ASSUME NEW y \in Steps, Then(Main(s), <<y>>), y \in WatchSteps \/ q[1] \notin WatchSteps,
             slot'["watch"] = slot["watch"]
      PROVE  WatchStopped(s)'
  <2>1. /\ p \in Seq(Steps) /\ Len(p) = Len(q) /\ p[1] = y
        /\ \A i \in 2 .. Len(q) : p[i] = q[i]
    BY <1>1, <1>4, ThenReplaces
  <2>2. ~HasStep(p, WatchSteps) => ~HasStep(q, WatchSteps)
    <3> HIDE DEF p, q
    <3> QED BY <1>1, <1>4, <2>1, HasReplaces
  <2> QED BY <1>1, <1>4, <2>2 DEF WatchStopped
<1> QED BY <1>2, <1>3, <1>4

\* The steps of the agenda of a body that leave the displays alone.
LEMMA BodyTaskStep ==
  ASSUME TypeOK, OneAtATime, NEW s \in Sessions, s = generation,
         \/ Kill(Main(s)) \/ TakeStreamer(Main(s)) \/ TakeWatch(Main(s))
         \/ StopWatchIfCurrent(Main(s))
         \/ KillOwnStreamer(Main(s)) \/ KillOwnWatch(Main(s))
  PROVE  OneAtATime'
<1> DEFINE q == todo[Main(s)]
<1>0. Main(s) \in Tasks /\ Main(s)[1] = s /\ Current(s)
  BY SessionTasks DEF OneAtATime
<1>a. ASSUME NEW step, At(Main(s), step) PROVE q # <<>> /\ q[1] = step /\ victim[Main(s)] = NoChild
  BY <1>a DEF At
<1> USE DEF streamVars, screenVars, childVars, taskVars
<1>1. CASE Kill(Main(s))
  <2>1. ~Returned(s) /\ victim'[Main(s)] = NoChild
        /\ \A t \in Tasks : t # Main(s) => todo'[t] = todo[t] /\ victim'[t] = victim[t]
    BY <1>0, <1>1 DEF Kill, Returned, TypeOK
  <2>2. todo' = todo /\ UNCHANGED <<generation, slot, request, prepared, memory, display, saved>>
    BY <1>1 DEF Kill
  <2>3. Screen(s)'
    BY <1>0, <2>1, <2>2 DEF Current, Screen, ScreenBetween, ScreenPreparing, ScreenRestoring,
                           Clean, Dirty, Left, Own
  <2>4. WatchStopped(s)' /\ MainShape(todo'[Main(s)])
    BY <1>0, <2>2 DEF Current, WatchStopped
  <2> QED BY <2>1, <2>2, <2>3, <2>4, MainKeeps
<1>2. CASE TakeStreamer(Main(s))
  <2>1. q # <<>> /\ q[1] = "takeStreamer" /\ Then(Main(s), <<>>)
        /\ slot'["watch"] = slot["watch"]
    BY <1>2, <1>a DEF TakeStreamer, Take, TypeOK, Kinds
  <2>2. q[1] \notin PrepareSteps \cup RestoreSteps \cup OwedSteps \cup WatchSteps
    BY <2>1 DEF PrepareSteps, RestoreSteps, OwedSteps, WatchSteps
  <2>3. WatchStopped(s)'
    BY <2>1, <2>2, WatchGoesOn
  <2>4. UNCHANGED <<generation, request, display, saved, prepared>>
        /\ \A t \in Tasks : t # Main(s) => victim'[t] = victim[t]
    BY <1>2 DEF TakeStreamer, Take, TypeOK
  <2> QED BY <2>1, <2>2, <2>3, <2>4, BodyGoesOn
<1>3. CASE TakeWatch(Main(s))
  <2>1. q # <<>> /\ q[1] = "takeWatch" /\ Then(Main(s), <<>>)
        /\ slot'["watch"] = NoSession
    BY <1>3, <1>a DEF TakeWatch, Take, TypeOK, Kinds
  <2>2. q[1] \notin PrepareSteps \cup RestoreSteps \cup OwedSteps
    BY <2>1 DEF PrepareSteps, RestoreSteps, OwedSteps
  <2>3. WatchStopped(s)'
    BY <2>1, <2>2, WatchGoesOn
  <2>4. UNCHANGED <<generation, request, display, saved, prepared>>
        /\ \A t \in Tasks : t # Main(s) => victim'[t] = victim[t]
    BY <1>3 DEF TakeWatch, Take, TypeOK
  <2> QED BY <2>1, <2>2, <2>3, <2>4, BodyGoesOn
<1>4. CASE StopWatchIfCurrent(Main(s))
  <2>1. q # <<>> /\ q[1] = "stopWatchIfCurrent" /\ Then(Main(s), <<"takeWatch">>)
    BY <1>0, <1>4, <1>a DEF StopWatchIfCurrent, Stale
  <2>2. /\ q[1] \notin PrepareSteps \cup RestoreSteps \cup OwedSteps
        /\ "takeWatch" \in Steps \ (PrepareSteps \cup RestoreSteps \cup {"launch", "startWatch"})
        /\ "takeWatch" \notin LastSteps /\ "takeWatch" \in EarlySteps
        /\ "takeWatch" \in WatchSteps
    BY <2>1 DEF PrepareSteps, RestoreSteps, OwedSteps, Steps, LastSteps, EarlySteps, WatchSteps
  <2>3. UNCHANGED <<generation, request, display, saved, prepared, slot, victim>>
    BY <1>4 DEF StopWatchIfCurrent
  <2>4. WatchStopped(s)'
    BY <2>1, <2>2, <2>3, WatchGoesOn
  <2> QED BY <2>1, <2>2, <2>3, <2>4, BodyGoesOn
<1>5. CASE KillOwnStreamer(Main(s)) \/ KillOwnWatch(Main(s))
  <2>1. q # <<>> /\ q[1] \in {"killOwn", "killOwnWatch"} /\ Then(Main(s), <<>>)
    BY <1>5, <1>a DEF KillOwnStreamer, KillOwnWatch, KillOwn
  <2>2. q[1] \notin PrepareSteps \cup RestoreSteps \cup OwedSteps \cup WatchSteps
    BY <2>1 DEF PrepareSteps, RestoreSteps, OwedSteps, WatchSteps
  <2>3. UNCHANGED <<generation, request, display, saved, prepared, slot, victim>>
    BY <1>5 DEF KillOwnStreamer, KillOwnWatch, KillOwn
  <2>4. WatchStopped(s)'
    BY <2>1, <2>2, <2>3, WatchGoesOn
  <2> QED BY <2>1, <2>2, <2>3, <2>4, BodyGoesOn
<1> QED BY <1>1, <1>2, <1>3, <1>4, <1>5

\* The steps by which a body restores the display.
LEMMA BodyRestores ==
  ASSUME TypeOK, OneAtATime, NEW s \in Sessions, s = generation,
         \/ RestoreIfActive(Main(s)) \/ BestEffort(Main(s)) \/ RestoreRead(Main(s))
         \/ RestoreApply(Main(s)) \/ RestoreForget(Main(s))
  PROVE  OneAtATime'
<1> DEFINE q == todo[Main(s)]
           p == todo'[Main(s)]
<1>0. Main(s) \in Tasks /\ Main(s)[1] = s /\ Current(s) /\ q \in Seq(Steps)
  BY SessionTasks DEF OneAtATime, TypeOK
<1>a. ASSUME NEW step, At(Main(s), step)
      PROVE  q # <<>> /\ q[1] = step /\ victim[Main(s)] = NoChild /\ ~Returned(s)
  BY <1>a DEF At, Returned
<1>b. MainShape(q) /\ Screen(s) /\ WatchStopped(s)
  BY <1>0 DEF Current
<1>c. Own(s) # NoState
  BY SessionAssumption DEF Own, NoState, NoSession
<1> USE DEF streamVars, screenVars, childVars, taskVars
\* A step of a restore takes the place of the one there.
<1>1. ASSUME q # <<>>, ~Returned(s), victim[Main(s)] = NoChild,
             q[1] \notin EarlySteps \cup WatchSteps,
             NEW y \in RestoreSteps, Then(Main(s), <<y>>),
             UNCHANGED <<generation, slot, victim, request>>,
             prepared' \in [Sessions -> BOOLEAN], ~prepared'[s],
             \A r \in Sessions : r # s => prepared'[r] = prepared[r],
             y = "restoreRead" => Left' \/ (display' = "stream" /\ saved' = Own(s)),
             y = "restoreApply" => memory'[Main(s)] = "desktop",
             y = "restoreForget" => display' = "desktop"
      PROVE  OneAtATime'
  <2>1. y \in Steps /\ y \notin LastSteps /\ y \notin PrepareSteps
    BY DEF RestoreSteps, Steps, LastSteps, PrepareSteps
  <2>2. /\ p \in Seq(Steps) /\ Len(p) = Len(q) /\ p[1] = y /\ p # <<>>
        /\ \A i \in 2 .. Len(q) : p[i] = q[i]
        /\ \A u \in Tasks : u # Main(s) => todo'[u] = todo[u]
    BY <1>0, <1>1, <2>1, ThenReplaces
  <2>3. MainShape(p)
    <3> HIDE DEF p, q
    <3> QED BY <1>0, <1>1, <1>b, <2>1, <2>2, ShapeReplaces
  <2>4. Screen(s)'
    BY <1>1, <2>1, <2>2 DEF Screen, ScreenRestoring, Own
  <2>5. WatchStopped(s)'
    BY <1>1, <2>1, WatchGoesOn
  <2>6. \A r \in Sessions : r > s => prepared'[r] = prepared[r] /\ request'[r] = request[r]
    BY <1>1, SessionTasks
  <2> QED BY <1>1, <2>2, <2>3, <2>4, <2>5, <2>6, MainKeeps
\* It ends with the desktop back.
<1>2. ASSUME q # <<>>, ~Returned(s), q[1] \in RestoreSteps,
             Then(Main(s), <<>>), Left', prepared' = prepared,
             UNCHANGED <<generation, slot, victim, request>>
      PROVE  OneAtATime'
  <2>1. /\ p \in Seq(Steps) /\ Len(p) = Len(q) - 1
        /\ \A i \in 1 .. Len(p) : p[i] = q[i + 1]
        /\ \A u \in Tasks : u # Main(s) => todo'[u] = todo[u]
    BY <1>0, <1>2, ThenShifts
  <2>2. MainShape(p)
    <3> HIDE DEF p, q
    <3> QED BY <1>0, <1>2, <1>b, <2>1, ShapeShifts
  <2>3. p = <<>> \/ p[1] \notin PrepareSteps \cup RestoreSteps
    <3>1. CASE p # <<>>
      <4>1. 2 \in 2 .. Len(q) /\ p[1] = q[2]
        BY <1>0, <2>1, <3>1
      <4> QED BY <1>b, <4>1 DEF MainShape
    <3> QED BY <3>1
  <2>4. ~prepared[s]
    BY <1>2, <1>b DEF Screen, ScreenRestoring
  <2>5. Screen(s)'
    BY <1>2, <2>3, <2>4 DEF Screen, ScreenBetween, Clean
  <2>6. WatchStopped(s)'
    <3>1. q[1] \notin WatchSteps
      BY <1>2 DEF WatchSteps, RestoreSteps
    <3> QED BY <1>2, <3>1, WatchGoesOn
  <2> QED BY <1>2, <2>1, <2>2, <2>5, <2>6, MainKeeps
<1>3. CASE RestoreIfActive(Main(s))
  <2>1. q # <<>> /\ q[1] = "restoreIfActive" /\ victim[Main(s)] = NoChild /\ ~Returned(s)
    BY <1>3, <1>a DEF RestoreIfActive
  <2>2. ScreenBetween(s)
    BY <1>b, <2>1 DEF Screen, PrepareSteps, RestoreSteps
  <2>3. /\ UNCHANGED <<generation, slot, victim, request, display, saved>>
        /\ prepared' = [prepared EXCEPT ![s] = FALSE]
        /\ prepared' \in [Sessions -> BOOLEAN] /\ ~prepared'[s]
        /\ \A r \in Sessions : r # s => prepared'[r] = prepared[r]
    BY <1>0, <1>3 DEF RestoreIfActive, TypeOK
  <2>4. CASE prepared[s]
    <3>1. Dirty(s) /\ Then(Main(s), <<"restoreRead">>)
      BY <1>0, <1>3, <2>2, <2>4 DEF RestoreIfActive, Stale, ScreenBetween, Clean
    <3>2. q[1] \notin EarlySteps \cup WatchSteps /\ "restoreRead" \in RestoreSteps
      BY <2>1 DEF EarlySteps, WatchSteps, RestoreSteps
    <3> QED BY <1>1, <2>1, <2>3, <3>1, <3>2 DEF Dirty
  <2>5. CASE ~prepared[s]
    <3>1. Clean(s) /\ Then(Main(s), <<>>) /\ prepared'[s] = prepared[s]
      BY <1>0, <1>3, <2>2, <2>3, <2>5 DEF RestoreIfActive, ScreenBetween, Dirty, TypeOK
    <3>2. q[1] \notin PrepareSteps \cup RestoreSteps \cup WatchSteps
      BY <2>1 DEF PrepareSteps, RestoreSteps, WatchSteps
    <3>3. WatchStopped(s)'
      BY <2>1, <2>3, <3>1, <3>2, WatchGoesOn
    <3> QED BY <2>1, <2>3, <3>1, <3>2, <3>3, BodyGoesOn
  <2> QED BY <2>4, <2>5
<1>4. CASE BestEffort(Main(s))
  <2>1. q # <<>> /\ q[1] = "bestEffort" /\ victim[Main(s)] = NoChild /\ ~Returned(s)
        /\ Then(Main(s), <<"restoreRead">>)
    BY <1>0, <1>4, <1>a DEF BestEffort, Stale
  <2>2. q[1] \notin EarlySteps \cup WatchSteps \cup OwedSteps /\ "restoreRead" \in RestoreSteps
    BY <2>1 DEF EarlySteps, WatchSteps, RestoreSteps, OwedSteps
  <2>3. ~HasStep(q, OwedSteps)
    BY <1>0, <1>b, <2>1, <2>2, ShapeSays
  <2>4. Clean(s)
    BY <1>b, <2>1, <2>3 DEF Screen, ScreenBetween, PrepareSteps, RestoreSteps
  <2>5. UNCHANGED <<generation, slot, victim, request, display, saved, prepared>>
    BY <1>4 DEF BestEffort
  <2> QED BY <1>1, <2>1, <2>2, <2>4, <2>5 DEF Clean, Left, TypeOK
<1>5. CASE RestoreRead(Main(s))
  <2>1. q # <<>> /\ q[1] = "restoreRead" /\ victim[Main(s)] = NoChild /\ ~Returned(s)
    BY <1>5, <1>a DEF RestoreRead
  <2>2. ScreenRestoring(s)
    BY <1>b, <2>1 DEF Screen, RestoreSteps
  <2>3. UNCHANGED <<generation, slot, victim, request, display, saved, prepared>>
    BY <1>5 DEF RestoreRead
  <2>4. CASE Left
    <3>1. Then(Main(s), <<>>)
      BY <1>5, <2>4 DEF RestoreRead, Left
    <3> QED BY <1>2, <2>1, <2>3, <2>4, <3>1 DEF Left, RestoreSteps
  <2>5. CASE ~Left
    <3>1. saved = Own(s)
      BY <2>1, <2>2, <2>5 DEF ScreenRestoring
    <3>2. ~(saved = NoState \/ Superseded(s)) /\ saved.previous = "desktop"
      BY <1>c, <3>1 DEF Superseded, Own
    <3>3. Then(Main(s), <<"restoreApply">>) /\ memory' = [memory EXCEPT ![Main(s)] = saved.previous]
      BY <1>0, <1>5, <3>2 DEF RestoreRead
    <3>4. memory'[Main(s)] = "desktop"
      BY <1>0, <3>2, <3>3 DEF TypeOK
    <3>5. q[1] \notin EarlySteps \cup WatchSteps /\ "restoreApply" \in RestoreSteps
      BY <2>1 DEF EarlySteps, WatchSteps, RestoreSteps
    <3> QED BY <1>1, <2>1, <2>2, <2>3, <3>3, <3>4, <3>5 DEF ScreenRestoring, TypeOK
  <2> QED BY <2>4, <2>5
<1>6. CASE RestoreApply(Main(s))
  <2>1. q # <<>> /\ q[1] = "restoreApply" /\ victim[Main(s)] = NoChild /\ ~Returned(s)
        /\ Then(Main(s), <<"restoreForget">>)
    BY <1>6, <1>a DEF RestoreApply
  <2>2. ScreenRestoring(s)
    BY <1>b, <2>1 DEF Screen, RestoreSteps
  <2>3. UNCHANGED <<generation, slot, victim, request, saved, prepared>> /\ display' = "desktop"
    BY <1>6, <2>1, <2>2 DEF RestoreApply, ScreenRestoring
  <2>4. q[1] \notin EarlySteps \cup WatchSteps /\ "restoreForget" \in RestoreSteps
    BY <2>1 DEF EarlySteps, WatchSteps, RestoreSteps
  <2> QED BY <1>1, <2>1, <2>2, <2>3, <2>4 DEF ScreenRestoring, TypeOK
<1>7. CASE RestoreForget(Main(s))
  <2>1. q # <<>> /\ q[1] = "restoreForget" /\ ~Returned(s) /\ Then(Main(s), <<>>)
    BY <1>7, <1>a DEF RestoreForget
  <2>2. ScreenRestoring(s)
    BY <1>b, <2>1 DEF Screen, RestoreSteps
  <2>3. UNCHANGED <<generation, slot, victim, request, display, prepared>> /\ saved' = NoState
    BY <1>7 DEF RestoreForget
  <2> QED BY <1>2, <2>1, <2>2, <2>3 DEF ScreenRestoring, Left, RestoreSteps
<1> QED BY <1>3, <1>4, <1>5, <1>6, <1>7

-----------------------------------------------------------------------------
(* The reader and the reaper, and the steps that end the body. *)

\* Once the body has returned nothing is prepared any more.
LEMMA ReturnedClean ==
  ASSUME OneAtATime, NEW s \in Sessions, s = generation, Returned(s)
  PROVE  Clean(s)
BY DEF OneAtATime, Current, Returned, Screen, ScreenBetween, HasStep

\* What the reader and the reaper do.
LEMMA SideStep ==
  ASSUME TypeOK, OneAtATime, NEW s \in Sessions, s = generation, Returned(s),
         NEW t \in {Reader(s), Reaper(s)},
         \/ TaskStep(t)
         \/ t = Reader(s) /\ (ReaderEnds(s) \/ ReaderStopped(s) \/ CloseSocket(s))
  PROVE  OneAtATime'
<1>0. t \in Tasks /\ t[1] = s /\ Current(s) /\ todo[t] \in Seq(Steps) /\ Clean(s)
      /\ \A i \in 1 .. Len(todo[t]) : todo[t][i] \in SideSteps
  BY SessionTasks, ReturnedClean DEF OneAtATime, TypeOK, Current, SidesWait
<1>1. ASSUME NEW step, At(t, step)
      PROVE  todo[t] # <<>> /\ step \in SideSteps
  <2>1. todo[t] # <<>> /\ todo[t][1] = step /\ 1 \in 1 .. Len(todo[t])
    BY <1>0, <1>1 DEF At
  <2> QED BY <1>0, <2>1
\* What t may do next it may do because of the kind of task it is.
<1>2. ASSUME todo[t] # <<>>,
             Then(t, <<>>) \/ \E y \in Steps \cap SideSteps : Then(t, <<y>>)
      PROVE  /\ \A i \in 1 .. Len(todo'[t]) : todo'[t][i] \in SideSteps
             /\ \A u \in Tasks : u # t => todo'[u] = todo[u]
  <2> DEFINE q == todo[t]
             p == todo'[t]
  <2>1. CASE Then(t, <<>>)
    <3>1. /\ Len(p) = Len(q) - 1
          /\ p \in Seq(Steps)
          /\ \A i \in 1 .. Len(p) : p[i] = q[i + 1]
          /\ \A u \in Tasks : u # t => todo'[u] = todo[u]
      BY <1>0, <1>2, <2>1, ThenShifts
    <3> HIDE DEF p, q
    <3>2. q \in Seq(Steps) /\ \A i \in 1 .. Len(q) : q[i] \in SideSteps
      BY <1>0 DEF q
    <3>3. ASSUME NEW i \in 1 .. Len(p) PROVE p[i] \in SideSteps
      <4>1. i + 1 \in 1 .. Len(q)
        BY <3>1, <3>2
      <4> QED BY <3>1, <3>2, <4>1
    <3>4. \A i \in 1 .. Len(p) : p[i] \in SideSteps
      BY <3>3
    <3> USE DEF p
    <3>5. \A i \in 1 .. Len(todo'[t]) : todo'[t][i] \in SideSteps
      BY <3>4, Zenon
    <3> QED BY <3>1, <3>5
  <2>2. ASSUME NEW y \in Steps \cap SideSteps, Then(t, <<y>>)
        PROVE  /\ \A i \in 1 .. Len(p) : p[i] \in SideSteps
               /\ \A u \in Tasks : u # t => todo'[u] = todo[u]
    <3>1. /\ Len(p) = Len(q) /\ Len(q) \in Nat \ {0} /\ p[1] = y
          /\ \A i \in 2 .. Len(q) : p[i] = q[i]
          /\ \A u \in Tasks : u # t => todo'[u] = todo[u]
      BY <1>0, <1>2, <2>2, ThenReplaces
    <3>2. \A i \in 1 .. Len(q) : q[i] \in SideSteps
      BY <1>0 DEF q
    <3> HIDE DEF p, q
    <3>3. ASSUME NEW i \in 1 .. Len(p) PROVE p[i] \in SideSteps
      <4>1. CASE i = 1
        BY <2>2, <3>1, <4>1
      <4>2. CASE i # 1
        <5>1. i \in 2 .. Len(q) /\ i \in 1 .. Len(q)
          BY <3>1, <4>2
        <5> QED BY <3>1, <3>2, <5>1
      <4> QED BY <4>1, <4>2
    <3> QED BY <3>1, <3>3
  <2> QED BY <1>2, <2>1, <2>2
<1> USE DEF streamVars, screenVars, childVars, taskVars
<1>3. CASE Kill(t)
  <2>1. todo' = todo /\ UNCHANGED <<generation, slot, request, prepared, display, saved>>
        /\ \A u \in Tasks : u # t => victim'[u] = victim[u]
    BY <1>0, <1>3 DEF Kill, TypeOK
  <2> QED BY <1>0, <2>1, SideKeeps
\* The steps that neither take a child nor restore anything.
<1>4. ASSUME todo[t] # <<>>,
             Then(t, <<>>) \/ \E y \in Steps \cap SideSteps : Then(t, <<y>>),
             \A u \in Tasks : u # t => victim'[u] = victim[u],
             slot'["watch"] \in {slot["watch"], NoSession},
             UNCHANGED <<generation, request, display, saved>>,
             prepared'[s] \in {prepared[s], FALSE},
             \A r \in Sessions : r # s => prepared'[r] = prepared[r]
      PROVE  OneAtATime'
  BY <1>0, <1>2, <1>4, SideKeeps
<1>5. CASE TakeStreamer(t) \/ BestEffort(t) \/ RestoreRead(t) \/ RestoreApply(t)
             \/ RestoreForget(t) \/ KillOwnWatch(t)
  BY <1>1, <1>5 DEF TakeStreamer, BestEffort, RestoreRead, RestoreApply, RestoreForget,
                    KillOwnWatch, SideSteps
<1>6. CASE TakeWatch(t)
  <2>1. todo[t] # <<>> /\ Then(t, <<>>)
    BY <1>1, <1>6 DEF TakeWatch, Take
  <2>2. slot'["watch"] = NoSession /\ \A u \in Tasks : u # t => victim'[u] = victim[u]
    BY <1>0, <1>6 DEF TakeWatch, Take, TypeOK, Kinds
  <2>3. UNCHANGED <<generation, request, display, saved, prepared>>
    BY <1>6 DEF TakeWatch
  <2> QED BY <1>4, <2>1, <2>2, <2>3
<1>7. CASE StopWatchIfCurrent(t)
  <2>1. todo[t] # <<>> /\ Then(t, <<"takeWatch">>)
    BY <1>0, <1>1, <1>7 DEF StopWatchIfCurrent, Stale
  <2>2. "takeWatch" \in Steps \cap SideSteps
    BY DEF Steps, SideSteps
  <2>3. UNCHANGED <<generation, request, display, saved, prepared, slot, victim>>
    BY <1>7 DEF StopWatchIfCurrent
  <2> QED BY <1>4, <2>1, <2>2, <2>3
<1>8. CASE RestoreIfActive(t)
  <2>1. todo[t] # <<>> /\ Then(t, <<>>)
    BY <1>0, <1>1, <1>8 DEF RestoreIfActive, Clean
  <2>2. prepared'[s] = FALSE /\ \A r \in Sessions : r # s => prepared'[r] = prepared[r]
    BY <1>0, <1>8 DEF RestoreIfActive, TypeOK
  <2>3. UNCHANGED <<generation, request, display, saved, slot, victim>>
    BY <1>8 DEF RestoreIfActive
  <2> QED BY <1>4, <2>1, <2>2, <2>3
<1>9. CASE KillOwnStreamer(t)
  <2>1. todo[t] # <<>> /\ Then(t, <<>>)
    BY <1>1, <1>9 DEF KillOwnStreamer, KillOwn
  <2>2. UNCHANGED <<generation, request, display, saved, prepared, slot, victim>>
    BY <1>9 DEF KillOwnStreamer, KillOwn
  <2> QED BY <1>4, <2>1, <2>2
<1>10. CASE t = Reader(s) /\ (ReaderEnds(s) \/ ReaderStopped(s) \/ CloseSocket(s))
  <2>1. todo[t] # <<>> /\ Then(t, <<>>)
    BY <1>1, <1>10 DEF ReaderEnds, ReaderStopped, CloseSocket
  <2>2. UNCHANGED <<generation, request, display, saved, prepared, slot, victim>>
    BY <1>10 DEF ReaderEnds, ReaderStopped, CloseSocket
  <2> QED BY <1>4, <2>1, <2>2
<1> QED BY <1>3, <1>5, <1>6, <1>7, <1>8, <1>9, <1>10 DEF TaskStep

\* An early return: nothing was prepared and no watch was started.
LEMMA BodyReturns ==
  ASSUME TypeOK, OneAtATime, NEW s \in Sessions, s = generation,
         ReturnEarly(s) \/ LeaveReaper(s)
  PROVE  OneAtATime'
<1> DEFINE q == todo[Main(s)]
<1>0. Main(s) \in Tasks /\ Current(s) /\ q \in Seq(Steps)
  BY SessionTasks DEF OneAtATime, TypeOK
<1>1. q # <<>> /\ q[1] \in {"launch", "leaveReaper"} /\ victim[Main(s)] = NoChild /\ ~Returned(s)
  BY DEF ReturnEarly, LeaveReaper, At, Returned
<1>2. Len(q) = 1 /\ MainShape(q)
  <2> HIDE DEF q
  <2> QED BY <1>0, <1>1, ShapeSays DEF LastSteps, Current, q
<1>3. ScreenBetween(s)
  BY <1>0, <1>1 DEF Current, Screen, PrepareSteps, RestoreSteps
<1>4. ~HasStep(q, OwedSteps) /\ ~HasStep(q, WatchSteps)
  BY <1>1, <1>2 DEF HasStep, OwedSteps, WatchSteps
<1>5. Clean(s) /\ slot["watch"] = NoSession
  BY <1>0, <1>3, <1>4 DEF ScreenBetween, Current, WatchStopped
<1> USE DEF streamVars, screenVars, childVars, taskVars
<1>6. UNCHANGED <<generation, victim, slot, request, prepared, display, saved>>
  BY DEF ReturnEarly, LeaveReaper
<1>7. todo'[Main(s)] = <<>>
  <2>1. CASE ReturnEarly(s)
    BY <1>0, <2>1 DEF ReturnEarly, Only, TypeOK
  <2>2. CASE LeaveReaper(s)
    <3>1. Tail(q) = <<>>
      <4>1. q \in Seq(Steps) /\ Len(q) = 1
        BY <1>0, <1>2
      <4> HIDE DEF q
      <4> DEFINE r == Tail(q)
      <4>2. r \in Seq(Steps) /\ Len(r) = 0
        BY <4>1
      <4> HIDE DEF r
      <4>3. r = <<>>
        BY <4>2
      <4> QED BY <4>3 DEF r
    <3>2. todo'[Main(s)] = Tail(q)
      BY <1>0, <2>2, SessionTasks DEF LeaveReaper, TypeOK
    <3> QED BY <3>1, <3>2
  <2> QED BY <2>1, <2>2
<1>8. \A u \in Tasks : u \notin {Main(s), Reaper(s)} => todo'[u] = todo[u]
  BY SessionTasks DEF ReturnEarly, LeaveReaper, Only, TypeOK
<1>9. todo'[Reaper(s)] = todo[Reaper(s)] \/ todo'[Reaper(s)] = <<"killOwn", "stopWatchIfCurrent">>
  BY SessionTasks DEF ReturnEarly, LeaveReaper, Only, TypeOK
<1>10. Returned(s)' /\ MainShape(todo'[Main(s)]) /\ Clean(s)' /\ slot'["watch"] = NoSession
  BY <1>1, <1>5, <1>6, <1>7 DEF Returned, MainShape, Clean, Left
<1>11. SidesWait(s)'
  <2>1. ASSUME NEW u \in {Reader(s), Reaper(s)}
        PROVE  \A i \in 1 .. Len(todo'[u]) : todo'[u][i] \in SideSteps
    <3>1. CASE todo'[u] = todo[u]
      BY <1>0, <3>1 DEF Current, SidesWait
    <3>2. CASE todo'[u] = <<"killOwn", "stopWatchIfCurrent">>
      BY <3>2 DEF SideSteps
    <3> QED BY <1>8, <1>9, <3>1, <3>2, SessionTasks
  <2> QED BY <1>10, <2>1 DEF SidesWait
<1>12. Current(s)'
  BY <1>7, <1>10, <1>11 DEF Current, Screen, ScreenBetween, WatchStopped
<1>13. \A u \in Tasks : u[1] # s => todo'[u] = todo[u] /\ victim'[u] = victim[u]
  BY <1>6, <1>8, SessionTasks
<1> QED BY <1>6, <1>12, <1>13, CurrentKeeps

\* The last step of an agenda is replaced by a whole agenda.
LEMMA LastTail ==
  ASSUME NEW q \in Seq(Steps), Len(q) = 1, NEW r \in Seq(Steps)
  PROVE  Tail(q) = <<>> /\ r \o Tail(q) = r
<1> DEFINE e == Tail(q)
<1>1. e \in Seq(Steps) /\ Len(e) = 0
  OBVIOUS
<1> HIDE DEF e
<1>2. e = <<>>
  BY <1>1
<1>3. r \o <<>> = r
  OBVIOUS
<1> QED BY <1>2, <1>3 DEF e

-----------------------------------------------------------------------------
(* Opening a session, and preparing the display. *)

LEMMA BodyOpens ==
  ASSUME TypeOK, OneAtATime, NEW s \in Sessions, s = generation, Launch(s) \/ StartWatch(s)
  PROVE  OneAtATime'
<1> DEFINE q == todo[Main(s)]
           p == todo'[Main(s)]
<1>0. Main(s) \in Tasks /\ Current(s) /\ q \in Seq(Steps) /\ Main(s)[1] = s
  BY SessionTasks DEF OneAtATime, TypeOK
<1>1. q # <<>> /\ q[1] \in {"launch", "startWatch"} /\ ~Returned(s)
  BY DEF Launch, StartWatch, At, Returned
<1> USE DEF streamVars, screenVars, childVars, taskVars
<1>2. /\ UNCHANGED <<generation, request, prepared, display, saved>>
      /\ \A u \in Tasks : u # Main(s) => victim'[u] = victim[u]
  BY DEF Launch, StartWatch, Replace, TypeOK
<1>3. CASE Launch(s)
  <2>1. q[1] = "launch" /\ Then(Main(s), <<"startWatch">>) /\ slot'["watch"] = slot["watch"]
    BY <1>3 DEF Launch, At, Replace, TypeOK, Kinds
  <2>2. /\ "launch" \notin PrepareSteps \cup RestoreSteps \cup OwedSteps
        /\ "startWatch" \in Steps /\ "startWatch" \in WatchSteps
    BY DEF PrepareSteps, RestoreSteps, OwedSteps, Steps, WatchSteps
  <2>3. WatchStopped(s)'
    BY <1>1, <2>1, <2>2, WatchGoesOn
  <2> QED BY <1>1, <1>2, <2>1, <2>2, <2>3, BodyGoesOn
<1>4. CASE StartWatch(s)
  <2>1. q[1] = "startWatch" /\ victim[Main(s)] = NoChild
    BY <1>4 DEF StartWatch, At
  <2>2. Len(q) = 1
    <3> HIDE DEF q
    <3> QED BY <1>0, <1>1, <2>1, ShapeSays DEF LastSteps, Current, q
  <2>3. <<"serve">> \o Tail(q) = <<"serve">>
    <3>1. <<"serve">> \in Seq(Steps)
      BY DEF Steps
    <3> HIDE DEF q
    <3> QED BY <1>0, <2>2, <3>1, LastTail
  <2>4. /\ p = <<"serve">>
        /\ todo'[Reader(s)] = ReaderSteps
        /\ \A u \in Tasks : u \notin {Main(s), Reader(s)} => todo'[u] = todo[u]
    BY <1>4, <2>3, SessionTasks DEF StartWatch, TypeOK
  <2>5. ScreenBetween(s) /\ HasStep(q, {"launch", "startWatch"})
    BY <1>0, <1>1, <2>1, <2>2 DEF Current, Screen, PrepareSteps, RestoreSteps, HasStep
  <2>6. Clean(s)'
    BY <1>2, <2>5 DEF ScreenBetween, Clean, Left
  <2>7. MainShape(p)
    BY <2>4 DEF MainShape, LastSteps, PrepareSteps, RestoreSteps
  <2>8. Screen(s)'
    BY <2>4, <2>6 DEF Screen, ScreenBetween, PrepareSteps, RestoreSteps
  <2>9. WatchStopped(s)'
    BY <2>4 DEF WatchStopped, HasStep, WatchSteps
  <2>10. SidesWait(s)'
    <3>1. AtRest(Reaper(s)) /\ victim[Reader(s)] = NoChild
          /\ \A i \in 1 .. Len(todo[Reaper(s)]) : todo[Reaper(s)][i] \in SideSteps
      BY <1>0, <1>1, SessionTasks DEF Current, SidesWait
    <3>2. AtRest(Reaper(s))' /\ victim'[Reader(s)] = NoChild
      BY <1>2, <2>4, <3>1, SessionTasks DEF AtRest
    <3>3. /\ \A i \in 1 .. Len(ReaderSteps) : ReaderSteps[i] \in SideSteps
          /\ ReaderSteps[1] = "read"
      BY DEF ReaderSteps, SideSteps
    <3>4. \A u \in {Reader(s), Reaper(s)} : \A i \in 1 .. Len(todo'[u]) : todo'[u][i] \in SideSteps
      BY <2>4, <3>1, <3>3, SessionTasks
    <3> QED BY <2>4, <3>2, <3>3, <3>4 DEF SidesWait
  <2>11. Current(s)'
    BY <2>7, <2>8, <2>9, <2>10 DEF Current
  <2>12. \A u \in Tasks : u[1] # s => todo'[u] = todo[u] /\ victim'[u] = victim[u]
    BY <1>2, <2>4, SessionTasks
  <2> QED BY <1>2, <2>11, <2>12, CurrentKeeps
<1> QED BY <1>3, <1>4

LEMMA BodyPrepares ==
  ASSUME TypeOK, OneAtATime, NEW s \in Sessions, s = generation,
         StartStream(s) \/ Capture(s) \/ FallBack(s) \/ Apply(s) \/ Save(s)
  PROVE  OneAtATime'
<1> DEFINE q == todo[Main(s)]
           p == todo'[Main(s)]
<1>0. Main(s) \in Tasks /\ Current(s) /\ q \in Seq(Steps) /\ Main(s)[1] = s
  BY SessionTasks DEF OneAtATime, TypeOK
<1>1. q # <<>> /\ ~Returned(s)
  BY DEF StartStream, Capture, FallBack, Apply, Save, At, Returned
<1> USE DEF streamVars, screenVars, childVars, taskVars
<1>2. UNCHANGED <<generation, slot, victim>>
  BY DEF StartStream, Capture, FallBack, Apply, Save
\* The session prepares: it has one more step to do before it serves again.
<1>3. ASSUME Len(p) = 2, p[1] \in PrepareSteps, p[2] = "serve", ScreenPreparing(s)',
             \A u \in Tasks : u # Main(s) => todo'[u] = todo[u],
             \A r \in Sessions : r > s => prepared'[r] = prepared[r] /\ request'[r] = request[r]
      PROVE  OneAtATime'
  <2>1. MainShape(p)
    BY <1>3 DEF MainShape, LastSteps, PrepareSteps, RestoreSteps, EarlySteps
  <2>2. Screen(s)'
    BY <1>3 DEF Screen, PrepareSteps, RestoreSteps
  <2>3. WatchStopped(s)'
    BY <1>3 DEF WatchStopped, HasStep, WatchSteps
  <2> QED BY <1>1, <1>2, <1>3, <2>1, <2>2, <2>3, MainKeeps
<1>4. CASE StartStream(s)
  <2>1. q[1] = "serve" /\ request[s] = "none" /\ Then(Main(s), <<"capture", "serve">>)
    BY <1>4 DEF StartStream, At
  <2>2. Len(q) = 1
    <3> HIDE DEF q
    <3> QED BY <1>0, <1>1, <2>1, ShapeSays DEF LastSteps, Current, q
  <2>3. Clean(s)
    BY <1>0, <2>1 DEF Current, Screen, ScreenBetween, Dirty, PrepareSteps, RestoreSteps
  <2>4. <<"capture", "serve">> \o Tail(q) = <<"capture", "serve">>
    <3>1. <<"capture", "serve">> \in Seq(Steps)
      BY DEF Steps
    <3> HIDE DEF q
    <3> QED BY <1>0, <2>2, <3>1, LastTail
  <2>5. /\ p = <<"capture", "serve">>
        /\ \A u \in Tasks : u # Main(s) => todo'[u] = todo[u]
    BY <1>0, <2>1, <2>4 DEF Then, TypeOK
  <2>6. UNCHANGED <<prepared, display, saved>> /\ request' = [request EXCEPT ![s] = "received"]
    BY <1>4 DEF StartStream
  <2>7. \A r \in Sessions : r > s => prepared'[r] = prepared[r] /\ request'[r] = request[r]
    BY <2>6, SessionTasks DEF TypeOK
  <2>8. ScreenPreparing(s)'
    BY <2>3, <2>5, <2>6 DEF ScreenPreparing, Clean, Left
  <2> QED BY <1>3, <2>5, <2>7, <2>8 DEF PrepareSteps
<1>5. CASE Capture(s) \/ Apply(s)
  <2>1. q[1] \in PrepareSteps /\ ScreenPreparing(s)
    BY <1>0, <1>1, <1>5 DEF Capture, Apply, At, PrepareSteps, Current, Screen
  <2>2. PICK y \in {"apply", "save"} :
          /\ Then(Main(s), <<y>>)
          /\ y = "apply" => Capture(s)
          /\ y = "save" => Apply(s)
    BY <1>5 DEF Capture, Apply
  <2>3. y \in Steps /\ y \in PrepareSteps
    BY DEF Steps, PrepareSteps
  <2>4. /\ Len(p) = Len(q) /\ p[1] = y
        /\ \A i \in 2 .. Len(q) : p[i] = q[i]
        /\ \A u \in Tasks : u # Main(s) => todo'[u] = todo[u]
    BY <1>0, <1>1, <2>2, <2>3, ThenReplaces
  <2>5. Len(p) = 2 /\ p[2] = "serve"
    BY <2>1, <2>4 DEF ScreenPreparing
  <2>6. UNCHANGED <<prepared, saved, request>>
    BY <1>5 DEF Capture, Apply
  <2>7. memory'[Main(s)] = "desktop"
    BY <1>0, <1>5, <2>1 DEF Capture, Apply, At, ScreenPreparing, TypeOK
  <2>8. y = "apply" => display' = "desktop"
    BY <2>1, <2>2 DEF Capture, At, ScreenPreparing
  <2>9. y = "save" => display' = "stream"
    BY <2>2 DEF Apply
  <2>10. ScreenPreparing(s)'
    BY <2>1, <2>4, <2>5, <2>6, <2>7, <2>8, <2>9 DEF ScreenPreparing
  <2> QED BY <1>3, <2>3, <2>4, <2>5, <2>6, <2>10
<1>6. CASE Save(s)
  <2>1. q[1] = "save" /\ Then(Main(s), <<>>)
    BY <1>6 DEF Save, At
  <2>2. ScreenPreparing(s)
    BY <1>0, <1>1, <2>1 DEF PrepareSteps, Current, Screen
  <2>3. /\ Len(p) = Len(q) - 1
        /\ \A i \in 1 .. Len(p) : p[i] = q[i + 1]
        /\ \A u \in Tasks : u # Main(s) => todo'[u] = todo[u]
    BY <1>0, <1>1, <2>1, ThenShifts
  <2>4. Len(p) = 1 /\ p[1] = "serve"
    BY <2>2, <2>3 DEF ScreenPreparing
  <2>5. saved' = Own(s) /\ display' = "stream"
    BY <1>6, <2>1, <2>2 DEF Save, ScreenPreparing, Own
  <2>6. PICK changed \in BOOLEAN :
          /\ memory[Main(s)] = "desktop" => changed
          /\ prepared' = [prepared EXCEPT ![s] = @ \/ changed]
    BY <1>6 DEF Save
  <2>7. prepared'[s] /\ \A r \in Sessions : r # s => prepared'[r] = prepared[r]
    BY <2>1, <2>2, <2>6 DEF ScreenPreparing, TypeOK
  <2>8. request'[s] = "forwarded" /\ \A r \in Sessions : r # s => request'[r] = request[r]
    BY <1>6 DEF Save, TypeOK
  <2>9. ScreenBetween(s)'
    BY <2>4, <2>5, <2>7, <2>8 DEF ScreenBetween, Dirty, HasStep, OwedSteps, Own
  <2>10. MainShape(p)
    BY <2>4 DEF MainShape, LastSteps
  <2>11. Screen(s)'
    BY <2>4, <2>9 DEF Screen, PrepareSteps, RestoreSteps
  <2>12. WatchStopped(s)'
    BY <2>4 DEF WatchStopped, HasStep, WatchSteps
  <2>13. \A r \in Sessions : r > s => prepared'[r] = prepared[r] /\ request'[r] = request[r]
    BY <2>7, <2>8, SessionTasks
  <2> QED BY <1>1, <1>2, <2>3, <2>10, <2>11, <2>12, <2>13, MainKeeps
<1>7. CASE FallBack(s)
  <2>1. q[1] = "apply" /\ Then(Main(s), <<>>)
    BY <1>7 DEF FallBack, At
  <2>2. ScreenPreparing(s)
    BY <1>0, <1>1, <2>1 DEF PrepareSteps, Current, Screen
  <2>3. /\ Len(p) = Len(q) - 1
        /\ \A i \in 1 .. Len(p) : p[i] = q[i + 1]
        /\ \A u \in Tasks : u # Main(s) => todo'[u] = todo[u]
    BY <1>0, <1>1, <2>1, ThenShifts
  <2>4. Len(p) = 1 /\ p[1] = "serve"
    BY <2>2, <2>3 DEF ScreenPreparing
  <2>5. UNCHANGED <<prepared, display, saved>>
    BY <1>7 DEF FallBack
  <2>6. Clean(s)'
    BY <2>1, <2>2, <2>5 DEF ScreenPreparing, Clean, Left
  <2>7. \A r \in Sessions : r # s => request'[r] = request[r]
    BY <1>7 DEF FallBack, TypeOK
  <2>8. MainShape(p)
    BY <2>4 DEF MainShape, LastSteps
  <2>9. Screen(s)'
    BY <2>4, <2>6 DEF Screen, ScreenBetween, PrepareSteps, RestoreSteps
  <2>10. WatchStopped(s)'
    BY <2>4 DEF WatchStopped, HasStep, WatchSteps
  <2>11. \A r \in Sessions : r > s => prepared'[r] = prepared[r] /\ request'[r] = request[r]
    BY <2>5, <2>7, SessionTasks
  <2> QED BY <1>1, <1>2, <2>3, <2>8, <2>9, <2>10, <2>11, MainKeeps
<1> QED BY <1>4, <1>5, <1>6, <1>7

-----------------------------------------------------------------------------
(* Sessions that begin and stop, streamers and watches. *)

\* One agenda after another.
LEMMA Joined ==
  ASSUME NEW a \in Seq(Steps), NEW b \in Seq(Steps)
  PROVE  /\ a \o b \in Seq(Steps)
         /\ Len(a \o b) = Len(a) + Len(b)
         /\ \A i \in 1 .. Len(a) : (a \o b)[i] = a[i]
         /\ \A i \in 1 .. Len(b) : (a \o b)[Len(a) + i] = b[i]
<1>1. a \o b \in Seq(Steps) /\ Len(a \o b) = Len(a) + Len(b)
  OBVIOUS
<1>2. \A i \in 1 .. Len(a) : (a \o b)[i] = a[i]
  OBVIOUS
<1>3. \A i \in 1 .. Len(b) : (a \o b)[Len(a) + i] = b[i]
  OBVIOUS
<1> QED BY <1>1, <1>2, <1>3

LEMMA StopShapes ==
  ASSUME NEW s \in Sessions,
         NEW p, p = ConnectedSteps \/ p = UnconnectedSteps(s)
  PROVE  /\ MainShape(p)
         /\ p # <<>> /\ p[1] = "stopWatchIfCurrent"
         /\ HasStep(p, OwedSteps) /\ HasStep(p, WatchSteps)
         /\ ~HasStep(p, {"launch", "startWatch"})
<1> USE DEF MainShape, HasStep, LastSteps, OwedSteps, WatchSteps, EarlySteps, PrepareSteps,
            RestoreSteps
<1>1. CASE p = <<"stopWatchIfCurrent", "restoreIfActive", "bestEffort", "killOwn", "bestEffort",
                 "killOwnWatch">>
  BY <1>1
<1>2. CASE /\ p \in Seq(Steps) /\ Len(p) = 4 /\ p[1] = "stopWatchIfCurrent"
           /\ p[2] = "restoreIfActive" /\ p[3] = "bestEffort" /\ p[4] = "leaveReaper"
  BY <1>2
<1>3. CASE /\ p \in Seq(Steps) /\ Len(p) = 3 /\ p[1] = "stopWatchIfCurrent"
           /\ p[2] = "restoreIfActive" /\ p[3] = "leaveReaper"
  BY <1>3
<1>4. CASE p = UnconnectedSteps(s)
  <2> DEFINE a == <<"stopWatchIfCurrent", "restoreIfActive">>
             z == <<"leaveReaper">>
  <2>1. /\ a \in Seq(Steps) /\ Len(a) = 2
        /\ a[1] = "stopWatchIfCurrent" /\ a[2] = "restoreIfActive"
        /\ z \in Seq(Steps) /\ Len(z) = 1 /\ z[1] = "leaveReaper"
    BY DEF Steps
  <2>2. p = a \o (IF request[s] = "none" THEN <<>> ELSE <<"bestEffort">>) \o z
    BY <1>4 DEF UnconnectedSteps
  <2> HIDE DEF a, z
  <2>3. CASE request[s] = "none"
    <3>1. p = a \o <<>> \o z
      BY <2>2, <2>3
    <3>2. a \o <<>> = a
      BY <2>1
    <3>3. p = a \o z
      BY <3>1, <3>2
    <3>4. /\ p \in Seq(Steps) /\ Len(p) = Len(a) + Len(z)
          /\ \A i \in 1 .. Len(a) : p[i] = a[i]
          /\ \A i \in 1 .. Len(z) : p[Len(a) + i] = z[i]
      BY <2>1, <3>3, Joined
    <3>5. p[1] = a[1] /\ p[2] = a[2] /\ Len(p) = 3
      BY <2>1, <3>4
    <3>6. 1 \in 1 .. Len(z) /\ Len(a) + 1 = 3
      BY <2>1
    <3>7. p[3] = z[1]
      BY <3>4, <3>6
    <3> QED BY <1>3, <2>1, <3>4, <3>5, <3>7
  <2>4. CASE request[s] # "none"
    <3> DEFINE m == <<"bestEffort">>
    <3>1. m \in Seq(Steps) /\ Len(m) = 1 /\ m[1] = "bestEffort" /\ p = a \o m \o z
      BY <2>2, <2>4 DEF Steps
    <3> HIDE DEF m
    <3> DEFINE b == a \o m
    <3>2. /\ b \in Seq(Steps) /\ Len(b) = Len(a) + Len(m)
          /\ \A i \in 1 .. Len(a) : b[i] = a[i]
          /\ \A i \in 1 .. Len(m) : b[Len(a) + i] = m[i]
      BY <2>1, <3>1, Joined
    <3>3. 1 \in 1 .. Len(m) /\ Len(a) + 1 = 3
      BY <2>1, <3>1
    <3>4. Len(b) = 3 /\ b[1] = a[1] /\ b[2] = a[2] /\ b[3] = m[1]
      BY <2>1, <3>1, <3>2, <3>3
    <3>5. p = b \o z
      BY <3>1
    <3> HIDE DEF b
    <3>6. /\ p \in Seq(Steps) /\ Len(p) = Len(b) + Len(z)
          /\ \A i \in 1 .. Len(b) : p[i] = b[i]
          /\ \A i \in 1 .. Len(z) : p[Len(b) + i] = z[i]
      BY <2>1, <3>2, <3>5, Joined
    <3>7. 1 \in 1 .. Len(z) /\ Len(b) + 1 = 4
      BY <2>1, <3>4
    <3>8. Len(p) = 4 /\ p[1] = b[1] /\ p[2] = b[2] /\ p[3] = b[3] /\ p[4] = z[1]
      BY <2>1, <3>4, <3>6, <3>7
    <3> QED BY <1>2, <2>1, <3>1, <3>4, <3>6, <3>8
  <2> QED BY <2>3, <2>4
<1> QED BY <1>1, <1>4 DEF ConnectedSteps

LEMMA BodyStops ==
  ASSUME TypeOK, OneAtATime, NEW s \in Sessions, s = generation, Stop(s)
  PROVE  OneAtATime'
<1> DEFINE q == todo[Main(s)]
           p == todo'[Main(s)]
<1>0. Main(s) \in Tasks /\ Current(s) /\ q \in Seq(Steps)
  BY SessionTasks DEF OneAtATime, TypeOK
<1>1. q # <<>> /\ q[1] = "serve" /\ ~Returned(s)
  BY DEF Stop, At, Returned
<1> USE DEF streamVars, screenVars, childVars, taskVars
<1>2. UNCHANGED <<generation, slot, victim, request, prepared, display, saved>>
  BY DEF Stop
<1>3. /\ p = ConnectedSteps \/ p = UnconnectedSteps(s)
      /\ \A u \in Tasks : u # Main(s) => todo'[u] = todo[u]
  BY <1>0 DEF Stop, Only, TypeOK
<1>4. /\ MainShape(p)
      /\ p # <<>> /\ p[1] = "stopWatchIfCurrent"
      /\ HasStep(p, OwedSteps) /\ HasStep(p, WatchSteps)
      /\ ~HasStep(p, {"launch", "startWatch"})
  <2> HIDE DEF p
  <2> QED BY <1>3, StopShapes
<1>5. ScreenBetween(s)
  BY <1>0, <1>1 DEF Current, Screen, PrepareSteps, RestoreSteps
<1>6. ScreenBetween(s)'
  BY <1>2, <1>4, <1>5 DEF ScreenBetween, Clean, Left, Dirty, Own
<1>7. Screen(s)'
  BY <1>4, <1>6 DEF Screen, PrepareSteps, RestoreSteps
<1>8. WatchStopped(s)'
  BY <1>4 DEF WatchStopped
<1> QED BY <1>1, <1>2, <1>3, <1>4, <1>7, <1>8, MainKeeps

LEMMA OpeningShape ==
  MainShape(Opening) /\ Opening[1] = "takeStreamer" /\ Opening # <<>>
    /\ HasStep(Opening, WatchSteps)
BY DEF Opening, MainShape, HasStep, LastSteps, OwedSteps, WatchSteps, EarlySteps, PrepareSteps,
       RestoreSteps

\* A session begins when the one before it is finished: the desktop is back.
LEMMA BeginKeeps ==
  ASSUME TypeOK, OneAtATime, ~Overlap, NEW s \in Sessions, Begin(s)
  PROVE  OneAtATime'
<1>0. /\ Main(s) \in Tasks /\ generation \in Nat /\ s = generation + 1 /\ s \in Nat \ {0}
      /\ \A r \in 1 .. generation : Finished(r)
  BY SessionTasks DEF Begin, TypeOK
<1> USE DEF streamVars, screenVars, childVars, taskVars
<1>1. /\ generation' = s
      /\ UNCHANGED <<victim, slot, request, prepared, display, saved>>
  BY DEF Begin
<1>2. /\ todo'[Main(s)] = Opening
      /\ \A u \in Tasks : u # Main(s) => todo'[u] = todo[u]
  BY <1>0 DEF Begin, Only, TypeOK
<1>3. Left
  <2>1. CASE generation = 0
    BY <2>1 DEF OneAtATime
  <2>2. CASE generation # 0
    <3>1. generation \in Sessions /\ Finished(generation)
      <4>1. generation \in 1 .. generation /\ generation \in 0 .. MaxSessions
        BY <1>0, <2>2 DEF TypeOK
      <4> QED BY <1>0, <2>2, <4>1, SessionAssumption DEF Sessions
    <3>2. Returned(generation)
      BY <3>1 DEF Finished, Returned, Main, Roles
    <3> QED BY <3>1, <3>2, ReturnedClean DEF Clean
  <2> QED BY <2>1, <2>2
<1>4. ~prepared[s]
  BY <1>0 DEF OneAtATime
<1>5. Clean(s)'
  BY <1>1, <1>3, <1>4 DEF Clean, Left
<1>6. \A u \in Tasks : AtRest(u)
  <2>1. ASSUME NEW u \in Tasks, u[1] = generation PROVE AtRest(u)
    <3>1. u[1] \in 1 .. generation /\ u[2] \in Roles /\ u = <<u[1], u[2]>>
      BY <1>0, <2>1 DEF Tasks, Sessions
    <3> QED BY <1>0, <3>1 DEF Finished, AtRest
  <2> QED BY <2>1 DEF OneAtATime
<1>7. \A u \in Tasks : u # Main(s) => AtRest(u)'
  BY <1>1, <1>2, <1>6 DEF AtRest
<1>8. Screen(s)'
  BY <1>2, <1>5, OpeningShape DEF Screen, ScreenBetween, PrepareSteps, RestoreSteps
<1>9. WatchStopped(s)'
  BY <1>2, OpeningShape DEF WatchStopped
<1>10. SidesWait(s)'
  <2>1. AtRest(Reader(s))' /\ AtRest(Reaper(s))'
    BY <1>7, SessionTasks
  <2>2. \A u \in {Reader(s), Reaper(s)} : todo'[u] = <<>>
    BY <2>1 DEF AtRest
  <2> QED BY <2>1, <2>2 DEF SidesWait, AtRest
<1>11. Current(s)'
  BY <1>2, <1>8, <1>9, <1>10, OpeningShape DEF Current
<1>12. \A u \in Tasks : u[1] # generation' => AtRest(u)'
  BY <1>1, <1>7, SessionTasks
<1>13. \A r \in Sessions : r > generation' => ~prepared'[r] /\ request'[r] = "none"
  BY <1>0, <1>1 DEF OneAtATime, Sessions
<1>14. generation' # 0
  BY <1>0, <1>1
<1> QED BY <1>1, <1>11, <1>12, <1>13, <1>14 DEF OneAtATime

\* A step that concerns neither the agendas nor the displays.
LEMMA SameKeeps ==
  ASSUME OneAtATime,
         UNCHANGED <<generation, todo, victim, slot, request, prepared, memory, display, saved>>
  PROVE  OneAtATime'
<1>1. ASSUME NEW s \in Sessions, s = generation PROVE Current(s)'
  <2>1. Current(s)
    BY <1>1 DEF OneAtATime
  <2>2. ScreenBetween(s)' = ScreenBetween(s)
    BY DEF ScreenBetween, Clean, Dirty, Left, Own
  <2>3. ScreenPreparing(s)' = ScreenPreparing(s)
    BY DEF ScreenPreparing
  <2>4. ScreenRestoring(s)' = ScreenRestoring(s)
    BY DEF ScreenRestoring, Left, Own
  <2>5. Screen(s)' /\ WatchStopped(s)'
    BY <2>1, <2>2, <2>3, <2>4 DEF Current, Screen, WatchStopped
  <2>6. SidesWait(s)'
    BY <2>1 DEF Current, SidesWait, AtRest, Returned
  <2> QED BY <2>1, <2>5, <2>6 DEF Current
<1>2. generation' = 0 => Left'
  BY DEF OneAtATime, Left
<1>3. \A t \in Tasks : t[1] # generation' => AtRest(t)'
  BY DEF OneAtATime, AtRest
<1> QED BY <1>1, <1>2, <1>3 DEF OneAtATime

\* The watch has nothing to put back: a session restores the desktop when its
\* watch has been stopped and killed.
LEMMA WatchKeeps ==
  ASSUME IInv, OneAtATime, NEW r \in Sessions, WatchEnforces(r)
  PROVE  OneAtATime'
<1> USE DEF streamVars, screenVars, childVars, taskVars
<1>1. /\ proc[<<r, "watch">>] = "running" /\ saved # NoState /\ display = "desktop"
      /\ UNCHANGED <<generation, todo, victim, slot, request, prepared, memory, saved>>
  BY DEF WatchEnforces
<1>2. generation # 0 /\ generation \in Sessions /\ TypeOK
  <2>1. TypeOK /\ generation # 0
    BY <1>1 DEF OneAtATime, Left, IInv
  <2> QED BY <2>1, SessionAssumption DEF TypeOK, Sessions
<1> DEFINE s == generation
           q == todo[Main(s)]
<1>3. Current(s) /\ Main(s) \in Tasks /\ q \in Seq(Steps)
  BY <1>2, SessionTasks DEF OneAtATime, TypeOK
<1>4. q # <<>> /\ q[1] \in {"restoreApply", "restoreForget"} /\ ScreenRestoring(s)
  <2>1. ~ScreenBetween(s)
    BY <1>1 DEF ScreenBetween, Clean, Dirty, Left
  <2>2. q # <<>> /\ q[1] \in PrepareSteps \cup RestoreSteps
    BY <1>3, <2>1 DEF Current, Screen
  <2>3. q[1] \notin PrepareSteps
    BY <1>1, <1>3, <2>2 DEF Current, Screen, ScreenPreparing
  <2>4. ScreenRestoring(s)
    BY <1>3, <2>2, <2>3 DEF Current, Screen
  <2>5. q[1] # "restoreRead"
    BY <1>1, <2>4 DEF ScreenRestoring, Left
  <2> QED BY <2>2, <2>3, <2>4, <2>5 DEF RestoreSteps
<1>5. ~Returned(s) /\ victim[Main(s)] = NoChild
  BY <1>4 DEF Returned, ScreenRestoring
<1>6. slot["watch"] = NoSession
  <2>1. q[1] \notin EarlySteps /\ q[1] \notin WatchSteps
    BY <1>4 DEF EarlySteps, WatchSteps
  <2>2. ~HasStep(q, WatchSteps)
    <3> HIDE DEF q
    <3> QED BY <1>3, <1>4, <2>1, ShapeSays DEF Current, q
  <2> QED BY <1>3, <2>2 DEF Current, WatchStopped
<1>7. \A t \in Tasks : victim[t] = NoChild
  <2>1. victim[Reader(s)] = NoChild /\ victim[Reaper(s)] = NoChild
    BY <1>3, <1>5 DEF Current, SidesWait, AtRest
  <2>2. \A t \in Tasks : t[1] = s => victim[t] = NoChild
    BY <1>2, <1>5, <2>1, SessionTasks
  <2> QED BY <2>2 DEF OneAtATime, AtRest
<1>8. FALSE
  <2>1. <<r, "watch">> \in Child /\ <<r, "watch">> # NoChild /\ r # NoSession
    BY DEF Child, NoChild, NoSession, Sessions, Kinds
  <2> QED BY <1>1, <1>6, <1>7, <2>1 DEF IInv, NoOrphans
<1> QED BY <1>8

-----------------------------------------------------------------------------
(* Every step. *)

LEMMA DesktopStep ==
  ASSUME IInv, OneAtATime, ~Overlap, faults' = 0, Next
  PROVE  OneAtATime'
<1>0. TypeOK /\ faults \in Nat
  BY DEF IInv, TypeOK
<1> USE DEF streamVars, screenVars, childVars, taskVars
<1>1. ASSUME NEW t \in Tasks, TaskStep(t) PROVE OneAtATime'
  <2>1. ~AtRest(t) /\ ~(todo[t] # <<>> /\ Head(todo[t]) = "read" /\ victim[t] = NoChild)
    BY <1>1 DEF TaskStep, Kill, TakeStreamer, TakeWatch, StopWatchIfCurrent, RestoreIfActive,
                BestEffort, RestoreRead, RestoreApply, RestoreForget, KillOwnStreamer,
                KillOwnWatch, At, AtRest
  <2> DEFINE s == generation
  <2>2. /\ s \in Sessions /\ Current(s)
        /\ t \in {Main(s), Reader(s), Reaper(s)}
        /\ t # Main(s) /\ ~(todo[t] # <<>> /\ Head(todo[t]) = "read") => Returned(s)
    BY <1>0, <2>1, WhoseTurn
  <2>3. CASE t = Main(s)
    BY <1>0, <1>1, <2>2, <2>3, BodyTaskStep, BodyRestores DEF TaskStep
  <2>4. CASE t # Main(s)
    <3>1. Returned(s)
      <4>1. CASE victim[t] = NoChild
        BY <2>1, <2>2, <2>4, <4>1
      <4>2. CASE victim[t] # NoChild /\ ~Returned(s)
        BY <2>2, <2>4, <4>2 DEF Current, SidesWait, AtRest
      <4> QED BY <4>1, <4>2
    <3> QED BY <1>0, <1>1, <2>2, <2>4, <3>1, SideStep
  <2> QED BY <2>3, <2>4
<1>2. ASSUME NEW t \in Tasks, RestoreFails(t) PROVE FALSE
  BY <1>0, <1>2 DEF RestoreFails
\* Whoever acts for a session that is not at rest acts for the newest.
<1>3. ASSUME NEW s \in Sessions, NEW t \in {Main(s), Reader(s)}, ~AtRest(t)
      PROVE  s = generation
  BY <1>3, SessionTasks DEF OneAtATime
<1>4. ASSUME NEW s \in Sessions, BodyStep(s) PROVE OneAtATime'
  <2>1. CASE ReturnEarly(s) \/ Launch(s) \/ StartWatch(s) \/ Capture(s) \/ FallBack(s)
               \/ Apply(s) \/ Save(s) \/ LeaveReaper(s)
    <3>1. ~AtRest(Main(s))
      BY <2>1 DEF ReturnEarly, Launch, StartWatch, Capture, FallBack, Apply, Save, LeaveReaper,
                  At, AtRest
    <3>2. s = generation
      BY <1>3, <3>1
    <3> QED BY <1>0, <2>1, <3>2, BodyReturns, BodyOpens, BodyPrepares
  <2>2. CASE ReaderEnds(s) \/ CloseSocket(s)
    <3>1. ~AtRest(Reader(s)) /\ victim[Reader(s)] = NoChild /\ todo[Reader(s)] # <<>>
      BY <2>2 DEF ReaderEnds, CloseSocket, At, AtRest
    <3>2. s = generation
      BY <1>3, <3>1
    <3>3. Returned(s)
      <4>1. CASE ReaderEnds(s)
        BY <4>1 DEF ReaderEnds
      <4>2. CASE CloseSocket(s)
        <5>1. Head(todo[Reader(s)]) # "read"
          BY <4>2 DEF CloseSocket, At
        <5> QED BY <1>0, <3>1, <3>2, <5>1, WhoseTurn, SessionTasks
      <4> QED BY <2>2, <4>1, <4>2
    <3> QED BY <1>0, <2>2, <3>2, <3>3, SideStep
  <2> QED BY <1>4, <2>1, <2>2 DEF BodyStep
<1>5. ASSUME NEW s \in Sessions, Environment(s) PROVE OneAtATime'
  <2>1. CASE Begin(s)
    BY <1>0, <2>1, BeginKeeps
  <2>2. CASE StartStream(s) \/ Stop(s)
    <3>1. ~AtRest(Main(s))
      BY <2>2 DEF StartStream, Stop, At, AtRest
    <3>2. s = generation
      BY <1>3, <3>1
    <3> QED BY <1>0, <2>2, <3>2, BodyPrepares, BodyStops
  <2>3. CASE PrepareFails(s)
    BY <1>0, <2>3 DEF PrepareFails
  <2>4. CASE Connect(s) \/ StreamerExits(s)
    BY <2>4, SameKeeps DEF Connect, StreamerExits
  <2>5. CASE ReaderStopped(s)
    <3>1. ~AtRest(Reader(s)) /\ Returned(s)
      BY <2>5 DEF ReaderStopped, At, AtRest
    <3>2. s = generation
      BY <1>3, <3>1
    <3> QED BY <1>0, <2>5, <3>1, <3>2, SideStep
  <2>6. CASE WatchEnforces(s)
    BY <2>6, WatchKeeps
  <2> QED BY <1>5, <2>1, <2>2, <2>3, <2>4, <2>5, <2>6 DEF Environment
<1> QED BY <1>1, <1>2, <1>4, <1>5 DEF Next

LEMMA DesktopInit == Init => DesktopInv
<1> SUFFICES ASSUME Init PROVE DesktopInv
  OBVIOUS
<1>1. generation = 0 /\ Left
  BY DEF Init, Left
<1>2. \A s \in Sessions : s # generation
  BY <1>1, SessionTasks
<1>3. OneAtATime
  BY <1>1, <1>2 DEF Init, OneAtATime, AtRest
<1> QED BY <1>3, InitIInv DEF DesktopInv

\* A failed run of the helper stays counted.
LEMMA FaultsGrow == TypeOK /\ Next /\ faults' = 0 => faults = 0
<1> SUFFICES ASSUME TypeOK, Next, faults' = 0 PROVE faults = 0
  OBVIOUS
<1> USE DEF screenVars
<1>1. faults \in Nat
  BY DEF TypeOK
<1>2. ASSUME NEW t \in Tasks, TaskStep(t) PROVE faults' = faults
  BY <1>2 DEF TaskStep, Kill, TakeStreamer, TakeWatch, StopWatchIfCurrent, RestoreIfActive,
              BestEffort, RestoreRead, RestoreApply, RestoreForget, KillOwnStreamer,
              KillOwnWatch, KillOwn
<1>3. ASSUME NEW t \in Tasks, RestoreFails(t) PROVE FALSE
  BY <1>1, <1>3 DEF RestoreFails
<1>4. ASSUME NEW s \in Sessions, BodyStep(s) PROVE faults' = faults
  BY <1>4 DEF BodyStep, ReturnEarly, Launch, StartWatch, Capture, FallBack, Apply, Save, LeaveReaper,
              ReaderEnds, CloseSocket
<1>5. ASSUME NEW s \in Sessions, Environment(s) PROVE faults' = faults
  <2>1. ~PrepareFails(s)
    BY <1>1 DEF PrepareFails
  <2> QED BY <1>5, <2>1 DEF Environment, Begin, StartStream, Connect, Stop, StreamerExits,
                           ReaderStopped, WatchEnforces
<1> QED BY <1>2, <1>3, <1>4, <1>5 DEF Next

LEMMA DesktopInvStep ==
  ASSUME ~Overlap, DesktopInv, [Next]_vars
  PROVE  DesktopInv'
<1>1. IInv /\ IInv' /\ TypeOK
  BY StepKeeps DEF DesktopInv, IInv
<1>2. ASSUME faults' = 0 PROVE OneAtATime'
  <2>1. CASE Next
    <3>1. faults = 0
      BY <1>1, <1>2, <2>1, FaultsGrow
    <3> QED BY <1>1, <1>2, <2>1, <3>1, DesktopStep DEF DesktopInv
  <2>2. CASE UNCHANGED vars
    BY <1>2, <2>2, SameKeeps DEF vars, DesktopInv
  <2> QED BY <2>1, <2>2
<1> QED BY <1>1, <1>2 DEF DesktopInv

\* When every session is finished, the newest has left the desktop.
LEMMA DesktopInvSays == DesktopInv => DesktopComesBack
<1> SUFFICES ASSUME DesktopInv, faults = 0, \A s \in 1 .. generation : Finished(s)
             PROVE  Left
  BY DEF DesktopComesBack, Left
<1>1. OneAtATime /\ generation \in 0 .. MaxSessions
  BY DEF DesktopInv, IInv, TypeOK
<1>2. CASE generation = 0
  BY <1>1, <1>2 DEF OneAtATime
<1>3. CASE generation # 0
  <2>1. generation \in Sessions /\ Finished(generation)
    BY <1>1, <1>3, SessionAssumption DEF Sessions
  <2>2. Returned(generation)
    BY <2>1 DEF Finished, Returned, Main, Roles
  <2> QED BY <1>1, <2>1, <2>2, ReturnedClean DEF Clean
<1> QED BY <1>2, <1>3

\* "Always run the display restore path": sessions that come one after another
\* leave the host the desktop they found, however each of them ends, as long as
\* no run of the helper fails. Sessions that overlap do not: a run shows how.
THEOREM DesktopLeftAsFound ==
  ASSUME ~Overlap
  PROVE  Spec => []DesktopComesBack
<1>1. DesktopInv /\ [Next]_vars => DesktopInv'
  BY DesktopInvStep
<1> QED BY <1>1, DesktopInit, DesktopInvSays, PTL DEF Spec

-----------------------------------------------------------------------------
(* Native sessions. *)

\* A launch holds a session nobody else launches; every other request that
\* asks for a lock is about a session that was launched; and of the requests
\* that may still write a ticket, one that is about an ended session is known.
LaunchesApart ==
  \A r \in Requests : at[r].step = "issueTokens" =>
    /\ token[at[r].of] = "unissued"
    /\ \A q \in Requests : at[q].step = "issueTokens" /\ at[q].of = at[r].of => q = r
RequestsLaunched ==
  /\ \A r \in Requests : at[r].step \in LockSteps \ {"issueTokens"} => token[at[r].of] # "unissued"
  /\ \A s \in ticketed : token[s] # "unissued"
WritersKnown ==
  \A r \in Requests : at[r].step \in {"check", "insert"} /\ at[r].of \in ended => at[r].of \in late

NativeInv ==
  NativeTypeOK /\ LaunchesApart /\ RequestsLaunched /\ WritersKnown /\ EndedStaysEnded

LEMMA NativeInitInv == NativeInit => NativeInv
<1> SUFFICES ASSUME NativeInit PROVE NativeInv
  OBVIOUS
<1> USE DEF NativeInit
<1>1. NativeTypeOK
  BY DEF NativeTypeOK, Lives
<1>2. LaunchesApart /\ RequestsLaunched /\ WritersKnown /\ EndedStaysEnded
  BY DEF LaunchesApart, RequestsLaunched, WritersKnown, EndedStaysEnded, Idle, LockSteps
<1> QED BY <1>1, <1>2 DEF NativeInv

\* What a request that asks for a lock knows.
LEMMA AskingShape ==
  ASSUME NativeTypeOK, NEW r \in Requests
  PROVE  /\ at[r].step \in LockSteps => at[r].of \in NativeIds
         /\ at[r].step \in LockSteps \cup {"idle", "ownerTickets"}
         /\ at[r].step = "idle" => at[r] = Idle
         /\ \A step \in LockSteps : at[r].step \in LockSteps =>
              /\ [at[r] EXCEPT !.step = step] \in [step : LockSteps, of : NativeIds]
              /\ [at[r] EXCEPT !.step = step].of = at[r].of
              /\ [at[r] EXCEPT !.step = step].step = step
<1>1. at[r] \in {Idle, OwnerWaits} \cup [step : LockSteps, of : NativeIds]
  BY DEF NativeTypeOK
<1>2. CASE at[r] \in {Idle, OwnerWaits}
  BY <1>2 DEF Idle, OwnerWaits, LockSteps
<1>3. CASE at[r] \in [step : LockSteps, of : NativeIds]
  <2>1. at[r].step # "idle"
    BY <1>3 DEF LockSteps
  <2> QED BY <1>3, <2>1
<1> QED BY <1>1, <1>2, <1>3

\* How one step of a request changes what the others and itself ask for.
LEMMA GoGoes ==
  ASSUME NativeTypeOK, NEW r \in Requests, at[r].step \in LockSteps,
         NEW step \in LockSteps, Go(r, step)
  PROVE  /\ at' \in [Requests -> {Idle, OwnerWaits} \cup [step : LockSteps, of : NativeIds]]
         /\ at'[r].step = step /\ at'[r].of = at[r].of
         /\ \A q \in Requests : q # r => at'[q] = at[q]
<1> DEFINE e == [at[r] EXCEPT !.step = step]
<1>1. at' = [at EXCEPT ![r] = e]
  BY DEF Go
<1>2. e \in [step : LockSteps, of : NativeIds] /\ e.of = at[r].of /\ e.step = step
  BY AskingShape
<1> HIDE DEF e
<1> QED BY <1>1, <1>2 DEF NativeTypeOK

LEMMA MoveMoves ==
  ASSUME NativeTypeOK, NEW r \in Requests,
         NEW to \in {Idle, OwnerWaits} \cup [step : LockSteps, of : NativeIds], Move(r, to)
  PROVE  /\ at' \in [Requests -> {Idle, OwnerWaits} \cup [step : LockSteps, of : NativeIds]]
         /\ at'[r] = to
         /\ \A q \in Requests : q # r => at'[q] = at[q]
BY DEF Move, NativeTypeOK

LEMMA AskingTyped ==
  ASSUME NEW step \in LockSteps, NEW s \in NativeIds
  PROVE  /\ Asking(step, s) \in {Idle, OwnerWaits} \cup [step : LockSteps, of : NativeIds]
         /\ Asking(step, s).step = step /\ Asking(step, s).of = s
BY DEF Asking

LEMMA FinishEnds ==
  ASSUME NativeTypeOK, NEW r \in Requests, Finish(r)
  PROVE  /\ at' \in [Requests -> {Idle, OwnerWaits} \cup [step : LockSteps, of : NativeIds]]
         /\ at'[r].step = "idle"
         /\ \A q \in Requests : q # r => at'[q] = at[q]
BY MoveMoves DEF Finish, Idle

-----
(* A request that goes on with the session it has, or ends, changes at only. *)
LEMMA GoesOn ==
  ASSUME NativeInv, NEW r \in Requests,
         at' \in [Requests -> {Idle, OwnerWaits} \cup [step : LockSteps, of : NativeIds]],
         \A q \in Requests : q # r => at'[q] = at[q],
         at'[r].step \in {"idle", "ownerTickets"}
           \/ /\ at[r].step \in LockSteps \ {"issueTokens"}
              /\ at'[r].step \in LockSteps \ {"issueTokens"}
              /\ at'[r].of = at[r].of
              /\ at'[r].step \in {"check", "insert"} => at[r].step \in {"check", "insert"},
         UNCHANGED <<token, ended, late>>,
         ticketed' \subseteq ticketed,
         life' \in [NativeIds -> Lives]
  PROVE  NativeInv'
<1> USE DEF NativeInv
<1>1. NativeTypeOK'
  BY DEF NativeTypeOK
<1>2. LaunchesApart'
  BY DEF LaunchesApart, LockSteps
<1>3. RequestsLaunched'
  BY DEF RequestsLaunched, LockSteps
<1>4. WritersKnown'
  BY DEF WritersKnown
<1>5. EndedStaysEnded'
  BY DEF EndedStaysEnded
<1> QED BY <1>1, <1>2, <1>3, <1>4, <1>5

-----------------------------------------------------------------------------
(* The requests, one action after another. *)

\* A token that is used or dropped was not about to be issued.
LEMMA TokenLeaves ==
  ASSUME NativeInv, NEW s \in NativeIds, NEW to \in {"consumed", "gone"},
         token' = [token EXCEPT ![s] = to],
         \A q \in Requests : \/ at'[q] = at[q]
                             \/ at'[q].step \in {"idle", "ownerTickets"}
                             \/ at'[q].step = "insert" /\ at'[q].of = s,
         \A q \in Requests : at'[q].step = "issueTokens" => at[q].of # s,
         ticketed' \subseteq ticketed
  PROVE  LaunchesApart' /\ RequestsLaunched'
<1> USE DEF NativeInv
<1>1. \A q \in NativeIds : token'[q] = IF q = s THEN to ELSE token[q]
  BY DEF NativeTypeOK
<1>2. ASSUME NEW r \in Requests, at'[r].step = "issueTokens"
      PROVE  /\ token'[at'[r].of] = "unissued"
             /\ \A q \in Requests : at'[q].step = "issueTokens" /\ at'[q].of = at'[r].of => q = r
  <2>1. at'[r] = at[r] /\ at[r].of \in NativeIds /\ at[r].of # s
    BY <1>2, AskingShape DEF LockSteps
  <2>2. \A q \in Requests : at'[q].step = "issueTokens" => at'[q] = at[q]
    OBVIOUS
  <2> QED BY <1>1, <1>2, <2>1, <2>2 DEF LaunchesApart
<1>3. ASSUME NEW r \in Requests, at'[r].step \in LockSteps \ {"issueTokens"}
      PROVE  token'[at'[r].of] # "unissued"
  <2>1. CASE at'[r] = at[r]
    BY <1>1, <1>3, <2>1, AskingShape DEF RequestsLaunched
  <2>2. CASE at'[r].of = s
    BY <1>1, <2>2
  <2> QED BY <1>3, <2>1, <2>2 DEF LockSteps
<1>4. \A q \in ticketed' : token'[q] # "unissued"
  BY <1>1 DEF RequestsLaunched, NativeTypeOK
<1>5. LaunchesApart'
  BY <1>2 DEF LaunchesApart
<1>6. RequestsLaunched'
  BY <1>3, <1>4 DEF RequestsLaunched
<1> QED BY <1>5, <1>6

LEMMA IssueKeeps ==
  ASSUME NativeInv, NEW r \in Requests,
         (\E s \in NativeIds : BeginIssue(r, s)) \/ IssueToken(r)
           \/ IssueDropsTickets(r) \/ IssueLifecycle(r)
  PROVE  NativeInv'
<1> USE DEF NativeInv
<1>1. ASSUME NEW s \in NativeIds, BeginIssue(r, s) PROVE NativeInv'
  <2>1. /\ at' \in [Requests -> {Idle, OwnerWaits} \cup [step : LockSteps, of : NativeIds]]
        /\ at'[r].step = "issueTokens" /\ at'[r].of = s
        /\ \A q \in Requests : q # r => at'[q] = at[q]
    BY <1>1, MoveMoves, AskingTyped DEF BeginIssue, LockSteps
  <2>2. /\ UNCHANGED <<token, ticketed, life, ended, late>>
        /\ token[s] = "unissued"
        /\ \A q \in Requests : at[q].step = "issueTokens" => at[q].of # s
    BY <1>1 DEF BeginIssue
  <2>3. NativeTypeOK'
    BY <2>1, <2>2 DEF NativeTypeOK
  <2>4. LaunchesApart'
    BY <2>1, <2>2 DEF LaunchesApart
  <2>5. RequestsLaunched' /\ WritersKnown' /\ EndedStaysEnded'
    BY <2>1, <2>2 DEF RequestsLaunched, WritersKnown, EndedStaysEnded
  <2> QED BY <2>3, <2>4, <2>5
<1>2. ASSUME IssueToken(r) PROVE NativeInv'
  <2>1. at[r].step = "issueTokens" /\ at[r].of \in NativeIds
    BY <1>2, AskingShape DEF IssueToken, LockSteps
  <2>2. /\ at' \in [Requests -> {Idle, OwnerWaits} \cup [step : LockSteps, of : NativeIds]]
        /\ at'[r].step = "issueTickets" /\ at'[r].of = at[r].of
        /\ \A q \in Requests : q # r => at'[q] = at[q]
    BY <1>2, <2>1, GoGoes DEF IssueToken, LockSteps
  <2>3. /\ UNCHANGED <<ticketed, life, ended, late>>
        /\ token' = [s \in NativeIds |->
                 IF s = at[r].of THEN "issued"
                 ELSE IF \/ token[s] = "consumed"
                         \/ token[s] = "issued" /\ s \in SameApp(at[r].of)
                      THEN "gone" ELSE token[s]]
    BY <1>2 DEF IssueToken
  <2>4. NativeTypeOK'
    BY <2>2, <2>3 DEF NativeTypeOK
  <2>5. /\ token[at[r].of] = "unissued"
        /\ \A q \in Requests : at[q].step = "issueTokens" /\ at[q].of = at[r].of => q = r
    BY <2>1 DEF LaunchesApart
  <2>6. \A s \in NativeIds : /\ token'[s] = "unissued" => token[s] = "unissued"
                             /\ token[s] = "unissued" /\ s # at[r].of => token'[s] = "unissued"
                             /\ token[s] = "gone" => token'[s] = "gone"
    BY <2>3, <2>5
  <2>7. LaunchesApart'
    <3> SUFFICES ASSUME NEW p \in Requests, at'[p].step = "issueTokens"
                 PROVE  /\ token'[at'[p].of] = "unissued"
                        /\ \A q \in Requests : at'[q].step = "issueTokens" /\ at'[q].of = at'[p].of => q = p
      BY DEF LaunchesApart
    <3>1. p # r /\ at'[p] = at[p] /\ at[p].of # at[r].of /\ at[p].of \in NativeIds
      BY <2>2, <2>5, AskingShape DEF LockSteps
    <3> QED BY <3>1, <2>2, <2>6 DEF LaunchesApart
  <2>8. RequestsLaunched'
    <3>1. token'[at[r].of] = "issued"
      BY <2>1, <2>3
    <3>2. ASSUME NEW p \in Requests, p # r, at'[p].step \in LockSteps \ {"issueTokens"}
          PROVE  token'[at'[p].of] # "unissued"
      BY <3>2, <2>2, <2>6, AskingShape DEF RequestsLaunched
    <3> QED BY <3>1, <3>2, <2>2, <2>3, <2>6 DEF RequestsLaunched, NativeTypeOK
  <2>9. WritersKnown' /\ EndedStaysEnded'
    BY <2>2, <2>3, <2>6 DEF WritersKnown, EndedStaysEnded, NativeTypeOK
  <2> QED BY <2>4, <2>7, <2>8, <2>9
<1>3. ASSUME IssueDropsTickets(r) PROVE NativeInv'
  <2>1. at[r].step = "issueTickets"
    BY <1>3 DEF IssueDropsTickets
  <2>2. /\ at' \in [Requests -> {Idle, OwnerWaits} \cup [step : LockSteps, of : NativeIds]]
        /\ at'[r].step = "issueLife" /\ at'[r].of = at[r].of
        /\ \A q \in Requests : q # r => at'[q] = at[q]
    BY <1>3, <2>1, GoGoes DEF IssueDropsTickets, LockSteps
  <2> QED BY <1>3, <2>1, <2>2, GoesOn DEF IssueDropsTickets, LockSteps, NativeTypeOK
<1>4. ASSUME IssueLifecycle(r) PROVE NativeInv'
  <2>1. /\ at' \in [Requests -> {Idle, OwnerWaits} \cup [step : LockSteps, of : NativeIds]]
        /\ at'[r].step = "idle"
        /\ \A q \in Requests : q # r => at'[q] = at[q]
    BY <1>4, FinishEnds DEF IssueLifecycle
  <2>2. life' \in [NativeIds -> Lives]
    BY <1>4 DEF IssueLifecycle, NativeTypeOK, Lives, Entry
  <2> QED BY <1>4, <2>1, <2>2, GoesOn DEF IssueLifecycle
<1> QED BY <1>1, <1>2, <1>3, <1>4

LEMMA TicketKeeps ==
  ASSUME NativeInv, NEW r \in Requests,
         (\E s \in NativeIds : ConsumeToken(r, s) \/ RefreshLooks(r, s))
           \/ RefreshChecks(r) \/ InsertTicket(r)
  PROVE  NativeInv'
<1> USE DEF NativeInv
<1>1. ASSUME NEW s \in NativeIds, ConsumeToken(r, s) PROVE NativeInv'
  <2>1. /\ at' \in [Requests -> {Idle, OwnerWaits} \cup [step : LockSteps, of : NativeIds]]
        /\ at' = at \/ (at'[r].step = "insert" /\ at'[r].of = s)
        /\ \A q \in Requests : q # r => at'[q] = at[q]
    BY <1>1, MoveMoves, AskingTyped DEF ConsumeToken, LockSteps, NativeTypeOK
  <2>2. /\ UNCHANGED <<ticketed, life, ended, late>>
        /\ token[s] = "issued" /\ token' = [token EXCEPT ![s] = "consumed"]
    BY <1>1 DEF ConsumeToken
  <2>3. NativeTypeOK'
    BY <2>1, <2>2 DEF NativeTypeOK
  <2>4. s \notin ended
    BY <2>2 DEF EndedStaysEnded
  <2>5. \A q \in NativeIds : token'[q] = IF q = s THEN "consumed" ELSE token[q]
    BY <2>2 DEF NativeTypeOK
  <2>6. LaunchesApart' /\ RequestsLaunched'
    <3>1. \A q \in Requests : at[q].step = "issueTokens" => at[q].of # s
      BY <2>2 DEF LaunchesApart
    <3>2. \A q \in Requests : \/ at'[q] = at[q]
                              \/ at'[q].step \in {"idle", "ownerTickets"}
                              \/ at'[q].step = "insert" /\ at'[q].of = s
      BY <2>1
    <3>3. \A q \in Requests : at'[q].step = "issueTokens" => at[q].of # s
      BY <3>1, <3>2
    <3>4. ticketed' \subseteq ticketed
      BY <2>2
    <3> QED BY <2>2, <3>2, <3>3, <3>4, TokenLeaves
  <2>7. WritersKnown'
    BY <2>1, <2>2, <2>4 DEF WritersKnown
  <2>8. EndedStaysEnded'
    BY <2>2, <2>4, <2>5 DEF EndedStaysEnded, NativeTypeOK
  <2> QED BY <2>3, <2>6, <2>7, <2>8
<1>2. ASSUME NEW s \in NativeIds, RefreshLooks(r, s) PROVE NativeInv'
  <2>1. /\ at' \in [Requests -> {Idle, OwnerWaits} \cup [step : LockSteps, of : NativeIds]]
        /\ at'[r].step = "check" /\ at'[r].of = s
        /\ \A q \in Requests : q # r => at'[q] = at[q]
    BY <1>2, MoveMoves, AskingTyped DEF RefreshLooks, LockSteps
  <2>2. s \in ticketed /\ UNCHANGED <<token, ticketed, life, ended, late>>
    BY <1>2 DEF RefreshLooks
  <2>3. NativeTypeOK'
    BY <2>1, <2>2 DEF NativeTypeOK
  <2>4. LaunchesApart' /\ RequestsLaunched'
    BY <2>1, <2>2 DEF LaunchesApart, RequestsLaunched
  <2>5. WritersKnown' /\ EndedStaysEnded'
    BY <2>1, <2>2 DEF WritersKnown, EndedStaysEnded
  <2> QED BY <2>3, <2>4, <2>5
<1>3. ASSUME RefreshChecks(r) PROVE NativeInv'
  <2>1. at[r].step = "check"
    BY <1>3 DEF RefreshChecks
  <2>2. Go(r, "insert") \/ Finish(r) \/ Go(r, "dropTickets")
    BY <1>3 DEF RefreshChecks
  <2>3. /\ at' \in [Requests -> {Idle, OwnerWaits} \cup [step : LockSteps, of : NativeIds]]
        /\ \A q \in Requests : q # r => at'[q] = at[q]
        /\ at'[r].step = "idle" \/ (at'[r].step \in {"insert", "dropTickets"} /\ at'[r].of = at[r].of)
    BY <2>1, <2>2, GoGoes, FinishEnds DEF LockSteps
  <2> QED BY <1>3, <2>1, <2>3, GoesOn DEF RefreshChecks, LockSteps, NativeTypeOK
<1>4. ASSUME InsertTicket(r) PROVE NativeInv'
  <2>1. /\ at' \in [Requests -> {Idle, OwnerWaits} \cup [step : LockSteps, of : NativeIds]]
        /\ at'[r].step = "idle"
        /\ \A q \in Requests : q # r => at'[q] = at[q]
    BY <1>4, FinishEnds DEF InsertTicket
  <2>2. /\ at[r].step = "insert" /\ ticketed' = ticketed \cup {at[r].of}
        /\ UNCHANGED <<token, life, ended, late>>
    BY <1>4 DEF InsertTicket
  <2>3. /\ at[r].of \in NativeIds /\ token[at[r].of] # "unissued"
        /\ at[r].of \in ended => at[r].of \in late
    BY <2>2, AskingShape DEF RequestsLaunched, WritersKnown, LockSteps
  <2>4. NativeTypeOK'
    BY <2>1, <2>2, <2>3 DEF NativeTypeOK
  <2>5. LaunchesApart' /\ RequestsLaunched'
    BY <2>1, <2>2, <2>3 DEF LaunchesApart, RequestsLaunched, LockSteps
  <2>6. WritersKnown' /\ EndedStaysEnded'
    BY <2>1, <2>2, <2>3 DEF WritersKnown, EndedStaysEnded
  <2> QED BY <2>4, <2>5, <2>6
<1> QED BY <1>1, <1>2, <1>3, <1>4

LEMMA UpdateKeeps ==
  ASSUME NativeInv, NEW r \in Requests,
         (\E s \in NativeIds : BeginUpdate(r, s)) \/ ResolveByToken(r)
           \/ ResolveByTicket(r) \/ ResolveByLifecycle(r) \/ ApplyUpdate(r)
  PROVE  NativeInv'
<1> USE DEF NativeInv
<1>1. ASSUME NEW s \in NativeIds, BeginUpdate(r, s) PROVE NativeInv'
  <2>1. /\ at' \in [Requests -> {Idle, OwnerWaits} \cup [step : LockSteps, of : NativeIds]]
        /\ at'[r].step = "resolveTokens" /\ at'[r].of = s
        /\ \A q \in Requests : q # r => at'[q] = at[q]
    BY <1>1, MoveMoves, AskingTyped DEF BeginUpdate, LockSteps
  <2>2. token[s] # "unissued" /\ UNCHANGED <<token, ticketed, life, ended, late>>
    BY <1>1 DEF BeginUpdate
  <2>3. NativeTypeOK'
    BY <2>1, <2>2 DEF NativeTypeOK
  <2>4. LaunchesApart' /\ RequestsLaunched'
    BY <2>1, <2>2 DEF LaunchesApart, RequestsLaunched
  <2>5. WritersKnown' /\ EndedStaysEnded'
    BY <2>1, <2>2 DEF WritersKnown, EndedStaysEnded
  <2> QED BY <2>3, <2>4, <2>5
<1>2. ASSUME ResolveByToken(r) \/ ResolveByTicket(r) \/ ResolveByLifecycle(r) PROVE NativeInv'
  <2>1. at[r].step \in {"resolveTokens", "resolveTickets", "resolveLife"}
    BY <1>2 DEF ResolveByToken, ResolveByTicket, ResolveByLifecycle
  <2>2. \/ Finish(r)
        \/ \E step \in {"complete", "update", "resolveTickets", "resolveLife"} : Go(r, step)
    BY <1>2 DEF ResolveByToken, ResolveByTicket, ResolveByLifecycle, Resolved
  <2>3. UNCHANGED <<token, ticketed, life, ended, late>>
    BY <1>2 DEF ResolveByToken, ResolveByTicket, ResolveByLifecycle
  <2>4. /\ at' \in [Requests -> {Idle, OwnerWaits} \cup [step : LockSteps, of : NativeIds]]
        /\ \A q \in Requests : q # r => at'[q] = at[q]
        /\ \/ at'[r].step = "idle"
           \/ /\ at'[r].step \in {"complete", "update", "resolveTickets", "resolveLife"}
              /\ at'[r].of = at[r].of
    BY <2>1, <2>2, GoGoes, FinishEnds DEF LockSteps
  <2> QED BY <2>1, <2>3, <2>4, GoesOn DEF LockSteps, NativeTypeOK
<1>3. ASSUME ApplyUpdate(r) PROVE NativeInv'
  <2>1. at[r].step \in {"complete", "update"} /\ at[r].of \in NativeIds
    BY <1>3, AskingShape DEF ApplyUpdate, LockSteps
  <2>2. Finish(r) \/ Go(r, "dropTickets")
    BY <1>3 DEF ApplyUpdate
  <2>3. /\ at' \in [Requests -> {Idle, OwnerWaits} \cup [step : LockSteps, of : NativeIds]]
        /\ \A q \in Requests : q # r => at'[q] = at[q]
        /\ at'[r].step = "idle" \/ (at'[r].step = "dropTickets" /\ at'[r].of = at[r].of)
    BY <2>1, <2>2, GoGoes, FinishEnds DEF LockSteps
  <2>4. \A c \in BOOLEAN : Entry(c) \in Lives
    BY DEF Entry, Lives
  <2>5. (at[r].step = "complete" \/ (life[at[r].of].there /\ life[at[r].of].completed)) \in BOOLEAN
    OBVIOUS
  <2>6. Entry(at[r].step = "complete" \/ (life[at[r].of].there /\ life[at[r].of].completed)) \in Lives
    BY <2>4, <2>5
  <2>7. life' \in [NativeIds -> Lives]
    BY <1>3, <2>6 DEF ApplyUpdate, NativeTypeOK
  <2> QED BY <1>3, <2>1, <2>3, <2>7, GoesOn DEF ApplyUpdate, LockSteps
<1> QED BY <1>1, <1>2, <1>3

LEMMA InvalidateKeeps ==
  ASSUME NativeInv, NEW r \in Requests, InvalidateTickets(r) \/ InvalidateTokens(r)
  PROVE  NativeInv'
<1> USE DEF NativeInv
<1>1. ASSUME InvalidateTickets(r) PROVE NativeInv'
  <2>1. /\ at' \in [Requests -> {Idle, OwnerWaits} \cup [step : LockSteps, of : NativeIds]]
        /\ at'[r].step = "dropTokens" /\ at'[r].of = at[r].of
        /\ \A q \in Requests : q # r => at'[q] = at[q]
    BY <1>1, GoGoes DEF InvalidateTickets, LockSteps
  <2> QED BY <1>1, <2>1, GoesOn DEF InvalidateTickets, LockSteps, NativeTypeOK
<1>2. ASSUME InvalidateTokens(r) PROVE NativeInv'
  <2> DEFINE s == at[r].of
  <2>1. at[r].step = "dropTokens" /\ s \in NativeIds /\ token[s] # "unissued"
    BY <1>2, AskingShape DEF InvalidateTokens, RequestsLaunched, LockSteps
  <2>2. /\ token' = [token EXCEPT ![s] = "gone"]
        /\ ended' = ended \cup {s}
        /\ late' = IF Outrun(s) THEN late \cup {s} ELSE late
        /\ UNCHANGED <<ticketed, life>>
    BY <1>2, <2>1 DEF InvalidateTokens, End
  <2>3. /\ at' \in [Requests -> {Idle, OwnerWaits} \cup [step : LockSteps, of : NativeIds]]
        /\ at'[r].step = "idle"
        /\ \A q \in Requests : q # r => at'[q] = at[q]
    BY <1>2, FinishEnds DEF InvalidateTokens, End
  <2> HIDE DEF s
  <2>4. NativeTypeOK'
    BY <2>1, <2>2, <2>3 DEF NativeTypeOK
  <2>5. \A q \in NativeIds : token'[q] = IF q = s THEN "gone" ELSE token[q]
    BY <2>2 DEF NativeTypeOK
  <2>6. LaunchesApart' /\ RequestsLaunched'
    <3>1. \A q \in Requests : at[q].step = "issueTokens" => at[q].of # s
      BY <2>1 DEF LaunchesApart
    <3>2. \A q \in Requests : \/ at'[q] = at[q]
                              \/ at'[q].step \in {"idle", "ownerTickets"}
                              \/ at'[q].step = "insert" /\ at'[q].of = s
      BY <2>3
    <3>3. \A q \in Requests : at'[q].step = "issueTokens" => at[q].of # s
      BY <3>1, <3>2
    <3>4. ticketed' \subseteq ticketed
      BY <2>2
    <3> QED BY <2>1, <2>2, <3>2, <3>3, <3>4, TokenLeaves
  <2>7. ASSUME NEW q \in Requests, at'[q].step \in {"check", "insert"}, at'[q].of \in ended'
        PROVE  at'[q].of \in late'
    <3>1. q # r /\ at[q] = at'[q]
      BY <2>3, <2>7
    <3>2. CASE at[q].of = s
      <4>1. at[q] \in {Asking("check", s), Asking("insert", s)}
        BY <2>7, <3>1, <3>2 DEF NativeTypeOK, Asking, Idle, OwnerWaits
      <4> QED BY <4>1, <2>2, <3>1, <3>2 DEF Outrun
    <3> QED BY <2>7, <3>1, <3>2, <2>2 DEF WritersKnown
  <2>8. WritersKnown'
    BY <2>7 DEF WritersKnown
  <2>9. EndedStaysEnded'
    BY <2>1, <2>2, <2>5 DEF EndedStaysEnded, Outrun, NativeTypeOK
  <2> QED BY <2>4, <2>6, <2>8, <2>9
<1> QED BY <1>1, <1>2

LEMMA OwnerKeeps ==
  ASSUME NativeInv, NEW r \in Requests, FindOwner(r) \/ OwnerFound(r)
  PROVE  NativeInv'
<1>1. /\ at' \in [Requests -> {Idle, OwnerWaits} \cup [step : LockSteps, of : NativeIds]]
      /\ at'[r].step \in {"idle", "ownerTickets"}
      /\ \A q \in Requests : q # r => at'[q] = at[q]
  BY MoveMoves, FinishEnds DEF FindOwner, OwnerFound, OwnerWaits, NativeInv
<1> QED BY <1>1, GoesOn DEF FindOwner, OwnerFound, NativeInv, NativeTypeOK

LEMMA AbandonKeeps ==
  ASSUME NativeInv, NEW r \in Requests, Abandon(r)
  PROVE  NativeInv'
<1> USE DEF NativeInv
<1>1. /\ at' \in [Requests -> {Idle, OwnerWaits} \cup [step : LockSteps, of : NativeIds]]
      /\ at'[r].step = "idle"
      /\ \A q \in Requests : q # r => at'[q] = at[q]
  BY FinishEnds DEF Abandon
<1>2. CASE at[r].step \notin {"issueTokens", "issueTickets", "issueLife"}
  BY <1>1, <1>2, GoesOn DEF Abandon, NativeTypeOK
<1>3. CASE at[r].step \in {"issueTokens", "issueTickets", "issueLife"}
  <2>1. at[r].of \in NativeIds
    BY <1>3, AskingShape DEF LockSteps
  <2>2. \A s \in NativeIds : token'[s] = IF s = at[r].of THEN "gone" ELSE token[s]
    BY <1>3 DEF Abandon, NativeTypeOK
  <2>3. UNCHANGED <<ticketed, life, ended, late>> /\ token' = [token EXCEPT ![at[r].of] = "gone"]
    BY <1>3 DEF Abandon
  <2>4. NativeTypeOK'
    BY <1>1, <2>3 DEF NativeTypeOK
  <2>5. \A q \in Requests : at[q].step = "issueTokens" /\ q # r => at[q].of # at[r].of
    BY <1>3 DEF LaunchesApart, RequestsLaunched, LockSteps
  <2>6. LaunchesApart' /\ RequestsLaunched'
    <3>1. \A q \in Requests : at'[q].step = "issueTokens" => q # r /\ at[q].of # at[r].of
      BY <1>1, <2>5
    <3> QED BY <1>1, <2>1, <2>3, <3>1, TokenLeaves
  <2>7. WritersKnown' /\ EndedStaysEnded'
    BY <1>1, <2>2, <2>3 DEF WritersKnown, EndedStaysEnded, NativeTypeOK
  <2> QED BY <2>4, <2>6, <2>7
<1> QED BY <1>2, <1>3

LEMMA TimeKeeps ==
  ASSUME NativeInv, NEW s \in NativeIds, TimePasses(s)
  PROVE  NativeInv'
<1> USE DEF NativeInv
<1>1. UNCHANGED <<at, ended, late>>
  BY DEF TimePasses
<1>2. CASE /\ token[s] \in {"issued", "consumed"}
           /\ token' = [token EXCEPT ![s] = "gone"]
           /\ UNCHANGED <<ticketed, life>>
  <2>1. \A q \in NativeIds : token'[q] = IF q = s THEN "gone" ELSE token[q]
    BY <1>2 DEF NativeTypeOK
  <2>2. NativeTypeOK'
    BY <1>1, <1>2 DEF NativeTypeOK
  <2>3. LaunchesApart' /\ RequestsLaunched'
    <3>1. \A q \in Requests : at[q].step = "issueTokens" => at[q].of # s
      BY <1>2 DEF LaunchesApart
    <3>2. \A q \in Requests : at'[q] = at[q]
      BY <1>1
    <3> QED BY <1>2, <3>1, <3>2, TokenLeaves
  <2>4. WritersKnown' /\ EndedStaysEnded'
    BY <1>1, <1>2, <2>1 DEF WritersKnown, EndedStaysEnded, NativeTypeOK
  <2> QED BY <2>2, <2>3, <2>4
<1>3. CASE ticketed' = ticketed \ {s} /\ UNCHANGED <<token, life>>
  <2>1. NativeTypeOK' /\ LaunchesApart' /\ RequestsLaunched'
    BY <1>1, <1>3 DEF NativeTypeOK, LaunchesApart, RequestsLaunched
  <2>2. WritersKnown' /\ EndedStaysEnded'
    BY <1>1, <1>3 DEF WritersKnown, EndedStaysEnded
  <2> QED BY <2>1, <2>2
<1>4. CASE /\ life[s].there /\ life[s].completed /\ ~life[s].old
           /\ life' = [life EXCEPT ![s].old = TRUE]
           /\ UNCHANGED <<token, ticketed>>
  <2>1. life[s] \in {e \in [there : {TRUE}, completed : BOOLEAN, old : BOOLEAN] : e.old => e.completed}
    <3>1. life[s] \in Lives /\ life[s].there /\ NoEntry.there = FALSE
      BY <1>4 DEF NativeTypeOK, NoEntry
    <3> QED BY <3>1 DEF Lives
  <2>2. [life[s] EXCEPT !.old = TRUE] \in Lives
    BY <1>4, <2>1 DEF Lives
  <2>3. life' \in [NativeIds -> Lives]
    BY <1>4, <2>2 DEF NativeTypeOK
  <2>4. NativeTypeOK' /\ LaunchesApart' /\ RequestsLaunched'
    BY <1>1, <1>4, <2>3 DEF NativeTypeOK, LaunchesApart, RequestsLaunched
  <2>5. WritersKnown' /\ EndedStaysEnded'
    BY <1>1, <1>4 DEF WritersKnown, EndedStaysEnded
  <2> QED BY <2>4, <2>5
<1> QED BY <1>2, <1>3, <1>4 DEF TimePasses

LEMMA NativeStepInv == NativeInv /\ [NativeNext]_nativeVars => NativeInv'
<1> SUFFICES ASSUME NativeInv, [NativeNext]_nativeVars PROVE NativeInv'
  OBVIOUS
<1>1. ASSUME NEW r \in Requests, RequestStep(r) PROVE NativeInv'
  BY <1>1, IssueKeeps, TicketKeeps, UpdateKeeps, InvalidateKeeps, OwnerKeeps DEF RequestStep
<1>2. ASSUME NEW r \in Requests, RequestBegins(r) PROVE NativeInv'
  BY <1>2, IssueKeeps, TicketKeeps, UpdateKeeps, OwnerKeeps DEF RequestBegins
<1>3. CASE UNCHANGED nativeVars
  BY <1>3 DEF nativeVars, NativeInv, NativeTypeOK, LaunchesApart, RequestsLaunched,
              WritersKnown, EndedStaysEnded
<1> QED BY <1>1, <1>2, <1>3, AbandonKeeps, TimeKeeps DEF NativeNext

\* A session that is completed, cancelled or taken over gets no token and no ticket
\* any more, however the requests that issue, refresh, use and revoke them wait
\* for one another's locks; only a request that saw it alive may still write.
THEOREM SessionsStayEnded == NativeSpec => []EndedStaysEnded
<1>1. NativeInv => EndedStaysEnded
  BY DEF NativeInv
<1> QED BY <1>1, NativeInitInv, NativeStepInv, PTL DEF NativeSpec

-----------------------------------------------------------------------------
(* The locks of the native sessions. *)

\* The lock that a request asks for, and whether it asks to read.
Wanted(step) ==
  CASE step \in {"issueTokens", "resolveTokens", "dropTokens"} -> "tokens"
    [] step \in {"issueTickets", "insert", "resolveTickets", "dropTickets", "ownerTickets"} -> "tickets"
    [] OTHER -> "lifecycle"
Reading == {"check", "resolveLife", "ownerTickets"}

\* q has the lock that r asks for, in a way that keeps r out.
Blocks(q, r) ==
  \/ Wanted(at[r].step) \in Writes(at[q].step)
  \/ at[r].step \notin Reading /\ Wanted(at[r].step) \in Reads(at[q].step)
Blocked(r) == at[r].step # "idle" /\ \E q \in Requests : Blocks(q, r)

\* Nobody has a lock that another has for writing.
LocksApart ==
  \A q, r \in Requests : q # r =>
    Writes(at[q].step) \cap (Writes(at[r].step) \cup Reads(at[r].step)) = {}

LEMMA Holdings ==
  /\ \A step \in {"idle"} \cup (LockSteps \ {"issueTickets", "issueLife"}) :
       Writes(step) = {} /\ Reads(step) = {}
  /\ Writes("issueTickets") = {"tokens"} /\ Reads("issueTickets") = {}
  /\ Writes("issueLife") = {"tokens", "tickets"} /\ Reads("issueLife") = {}
  /\ Writes("ownerTickets") = {} /\ Reads("ownerTickets") = {"lifecycle"}
<1>1. \A step \in {"idle"} \cup (LockSteps \ {"issueTickets", "issueLife"}) :
        step \notin {"issueTickets", "issueLife", "ownerTickets"}
  BY DEF LockSteps
<1> QED BY <1>1 DEF Writes, Reads

\* What a request comes to hold it held before or found free.
LEMMA LocksTaken ==
  ASSUME LocksApart, NEW r \in Requests,
         \A q \in Requests : q # r => at'[q] = at[q],
         \A lock \in Writes(at'[r].step) : lock \in Writes(at[r].step) \/ Free(lock),
         \A lock \in Reads(at'[r].step) : Readable(lock)
  PROVE  LocksApart'
<1> SUFFICES ASSUME NEW p \in Requests, NEW q \in Requests, p # q, NEW lock,
                    lock \in Writes(at'[p].step),
                    lock \in Writes(at'[q].step) \/ lock \in Reads(at'[q].step)
             PROVE  FALSE
  BY DEF LocksApart, Writes, Reads
<1>1. CASE p # r /\ q # r
  BY <1>1 DEF LocksApart
<1>2. CASE p = r
  <2>1. at'[q] = at[q]
    BY <1>2
  <2>2. CASE lock \in Writes(at[r].step)
    BY <1>2, <2>1, <2>2 DEF LocksApart
  <2>3. CASE Free(lock)
    BY <1>2, <2>1, <2>3 DEF Free, Readable
  <2> QED BY <1>2, <2>2, <2>3
<1>3. CASE q = r
  <2>1. at'[p] = at[p]
    BY <1>3
  <2>2. CASE lock \in Writes(at'[r].step)
    <3>1. CASE lock \in Writes(at[r].step)
      BY <1>3, <2>1, <3>1 DEF LocksApart
    <3>2. CASE Free(lock)
      BY <2>1, <3>2 DEF Free, Readable
    <3> QED BY <2>2, <3>1, <3>2
  <2>3. CASE lock \in Reads(at'[r].step)
    BY <2>1, <2>3 DEF Readable
  <2> QED BY <1>3, <2>2, <2>3
<1> QED BY <1>1, <1>2, <1>3

\* How the steps of a request move it on. Two steps take locks that stay taken.
Moves(r, to) ==
  /\ at'[r].step = to
  /\ \A q \in Requests : q # r => at'[q] = at[q]

LEMMA BeginsMove ==
  ASSUME NativeTypeOK, NEW r \in Requests, RequestBegins(r)
  PROVE  \/ at' = at
         \/ Moves(r, "ownerTickets") /\ Readable("lifecycle")
         \/ \E step \in {"issueTokens", "insert", "check", "resolveTokens"} : Moves(r, step)
<1>1. CASE FindOwner(r)
  BY <1>1, MoveMoves DEF FindOwner, OwnerWaits, Moves
<1>2. ASSUME NEW s \in NativeIds, NEW step \in {"issueTokens", "insert", "check", "resolveTokens"},
             Move(r, Asking(step, s))
      PROVE  Moves(r, step)
  BY <1>2, MoveMoves, AskingTyped DEF LockSteps, Moves
<1>3. ASSUME NEW s \in NativeIds,
             BeginIssue(r, s) \/ ConsumeToken(r, s) \/ RefreshLooks(r, s) \/ BeginUpdate(r, s)
      PROVE  at' = at \/ \E step \in {"issueTokens", "insert", "check", "resolveTokens"} : Moves(r, step)
  BY <1>2, <1>3 DEF BeginIssue, ConsumeToken, RefreshLooks, BeginUpdate
<1> QED BY <1>1, <1>3 DEF RequestBegins

LEMMA StepsMove ==
  ASSUME NativeTypeOK, NEW r \in Requests, RequestStep(r)
  PROVE  \/ at[r].step = "issueTokens" /\ Free("tokens") /\ Moves(r, "issueTickets")
         \/ at[r].step = "issueTickets" /\ Free("tickets") /\ Moves(r, "issueLife")
         \/ \E step \in {"idle"} \cup (LockSteps \ {"issueTickets", "issueLife"}) : Moves(r, step)
<1>1. ASSUME Finish(r) PROVE Moves(r, "idle")
  BY <1>1, FinishEnds DEF Moves
<1>2. ASSUME at[r].step \in LockSteps, NEW step \in LockSteps, Go(r, step) PROVE Moves(r, step)
  BY <1>2, GoGoes DEF Moves
<1>3. CASE IssueToken(r)
  BY <1>2, <1>3 DEF IssueToken, LockSteps
<1>4. CASE IssueDropsTickets(r)
  BY <1>2, <1>4 DEF IssueDropsTickets, LockSteps
<1>5. CASE IssueLifecycle(r) \/ InsertTicket(r) \/ OwnerFound(r) \/ InvalidateTokens(r)
  BY <1>1, <1>5 DEF IssueLifecycle, InsertTicket, OwnerFound, InvalidateTokens, End
<1>6. CASE RefreshChecks(r)
  BY <1>1, <1>2, <1>6 DEF RefreshChecks, LockSteps
<1>7. CASE ResolveByToken(r) \/ ResolveByTicket(r) \/ ResolveByLifecycle(r)
  BY <1>1, <1>2, <1>7 DEF ResolveByToken, ResolveByTicket, ResolveByLifecycle, Resolved, LockSteps
<1>8. CASE ApplyUpdate(r) \/ InvalidateTickets(r)
  BY <1>1, <1>2, <1>8 DEF ApplyUpdate, InvalidateTickets, LockSteps
<1> QED BY <1>3, <1>4, <1>5, <1>6, <1>7, <1>8 DEF RequestStep

LEMMA LocksStep ==
  ASSUME NativeTypeOK, LocksApart, [NativeNext]_nativeVars
  PROVE  LocksApart'
<1>1. ASSUME at' = at PROVE LocksApart'
  BY <1>1 DEF LocksApart
<1>2. ASSUME NEW r \in Requests, NEW step \in {"idle"} \cup (LockSteps \ {"issueTickets", "issueLife"}),
             Moves(r, step)
      PROVE  LocksApart'
  BY <1>2, Holdings, LocksTaken DEF Moves
<1>3. ASSUME NEW r \in Requests, RequestStep(r) PROVE LocksApart'
  <2>1. CASE at[r].step = "issueTokens" /\ Free("tokens") /\ Moves(r, "issueTickets")
    BY <2>1, Holdings, LocksTaken DEF Moves
  <2>2. CASE at[r].step = "issueTickets" /\ Free("tickets") /\ Moves(r, "issueLife")
    BY <2>2, Holdings, LocksTaken DEF Moves
  <2> QED BY <1>2, <1>3, <2>1, <2>2, StepsMove
<1>4. ASSUME NEW r \in Requests, RequestBegins(r) PROVE LocksApart'
  <2>1. CASE Moves(r, "ownerTickets") /\ Readable("lifecycle")
    BY <2>1, Holdings, LocksTaken DEF Moves
  <2>2. {"issueTokens", "insert", "check", "resolveTokens"} \subseteq LockSteps \ {"issueTickets", "issueLife"}
    BY DEF LockSteps
  <2> QED BY <1>1, <1>2, <1>4, <2>1, <2>2, BeginsMove
<1>5. ASSUME NEW r \in Requests, Abandon(r) PROVE LocksApart'
  BY <1>2, <1>5, FinishEnds DEF Abandon, Moves
<1>6. CASE (\E s \in NativeIds : TimePasses(s)) \/ UNCHANGED nativeVars
  BY <1>1, <1>6 DEF TimePasses, nativeVars
<1> QED BY <1>3, <1>4, <1>5, <1>6 DEF NativeNext

LEMMA LocksInitially == NativeInit => LocksApart
BY Holdings DEF NativeInit, LocksApart, Idle

\* A request takes the lock it waits for exactly when nobody keeps it out: this
\* is the guard of each of its steps.
LEMMA Guards ==
  ASSUME NativeTypeOK, NEW r \in Requests, at[r].step # "idle"
  PROVE  /\ Blocked(r) <=> ~ IF at[r].step \in Reading THEN Readable(Wanted(at[r].step))
                                                     ELSE Free(Wanted(at[r].step))
         /\ RequestStep(r) => ~Blocked(r)
<1>1. Blocked(r) <=> ~ IF at[r].step \in Reading THEN Readable(Wanted(at[r].step))
                                                 ELSE Free(Wanted(at[r].step))
  BY DEF Blocked, Blocks, Free, Readable
<1>2. ASSUME RequestStep(r)
      PROVE  IF at[r].step \in Reading THEN Readable(Wanted(at[r].step)) ELSE Free(Wanted(at[r].step))
  BY <1>2 DEF RequestStep, IssueToken, IssueDropsTickets, IssueLifecycle, RefreshChecks, InsertTicket,
     ResolveByToken, ResolveByTicket, ResolveByLifecycle, ApplyUpdate, InvalidateTickets, InvalidateTokens,
     OwnerFound, Wanted, Reading
<1> QED BY <1>1, <1>2

\* Why requests end: whoever keeps a request waiting can take its own next lock,
\* unless a launch and an invite wait for one another. So nobody waits for a
\* request that waits, whatever order the locks are passed on in.
THEOREM NobodyWaitsForWaiting ==
  NativeSpec => [](\A q, r \in Requests : Blocked(r) /\ Blocks(q, r) => ~Blocked(q) \/ Embrace)
<1>1. NativeTypeOK /\ LocksApart =>
        \A q, r \in Requests : Blocked(r) /\ Blocks(q, r) => ~Blocked(q) \/ Embrace
  <2> SUFFICES ASSUME NativeTypeOK, LocksApart, NEW q \in Requests, NEW r \in Requests, Blocks(q, r),
                      NEW p \in Requests, at[q].step # "idle", Blocks(p, q), ~Embrace
               PROVE  FALSE
    BY DEF Blocked
  <2>1. /\ at[q].step \in {"issueTickets", "issueLife", "ownerTickets"}
        /\ at[p].step \in {"issueTickets", "issueLife", "ownerTickets"}
    BY AskingShape, Holdings DEF Blocks
  <2>2. CASE at[q].step = "issueTickets"
    <3>1. at[p].step = "issueLife" /\ p # q
      BY <2>1, <2>2, Holdings DEF Blocks, Wanted
    <3> QED BY <2>2, <3>1, Holdings DEF LocksApart
  <2>3. CASE at[q].step = "issueLife"
    BY <2>1, <2>3, Holdings DEF Blocks, Wanted, Embrace
  <2>4. CASE at[q].step = "ownerTickets"
    BY <2>1, <2>4, Holdings DEF Blocks, Wanted, Reading, Embrace
  <2> QED BY <2>1, <2>2, <2>3, <2>4
<1>2. NativeInv => NativeTypeOK
  BY DEF NativeInv
<1> QED BY <1>1, <1>2, NativeInitInv, NativeStepInv, LocksInitially, LocksStep, PTL DEF NativeSpec

\* A launch is alone with its session: until it lets go of its locks the session
\* has no lifecycle and no ticket, and who else asks about it has not got past
\* the tokens.
Issuing(r) == at[r].step \in {"issueTickets", "issueLife"}
LaunchesFirst ==
  /\ \A s \in NativeIds : token[s] = "unissued" => life[s] = NoEntry
  /\ \A r \in Requests : Issuing(r) =>
       /\ life[at[r].of] = NoEntry /\ at[r].of \notin ticketed
       /\ \A q \in Requests \ {r} :
            at[q].step \in LockSteps /\ at[q].of = at[r].of => at[q].step = "resolveTokens"

LEMMA FirstInitially == NativeInit => LaunchesFirst
BY DEF NativeInit, LaunchesFirst, Issuing, Idle

LEMMA NoneIssues ==
  ASSUME Readable("tokens"), NEW r \in Requests PROVE ~Issuing(r)
BY Holdings DEF Readable, Issuing

\* What a request may do to the sessions that are being launched.
LEMMA FirstKept ==
  ASSUME NativeInv, LaunchesFirst, NEW r \in Requests,
         \A q \in Requests : q # r => at'[q] = at[q], ~Issuing(r)',
         \A s \in NativeIds : token'[s] = "unissued" => token[s] = "unissued" /\ life'[s] = life[s],
         \A q \in Requests : q # r /\ Issuing(q) =>
           /\ life'[at[q].of] = life[at[q].of]
           /\ at[q].of \notin ticketed'
           /\ at'[r].step \in LockSteps /\ at'[r].of = at[q].of => at'[r].step = "resolveTokens"
  PROVE  LaunchesFirst'
<1>1. \A s \in NativeIds : token'[s] = "unissued" => life'[s] = NoEntry
  BY DEF LaunchesFirst
<1>2. ASSUME NEW q \in Requests, Issuing(q)'
      PROVE  /\ life'[at'[q].of] = NoEntry /\ at'[q].of \notin ticketed'
             /\ \A p \in Requests \ {q} :
                  at'[p].step \in LockSteps /\ at'[p].of = at'[q].of => at'[p].step = "resolveTokens"
  <2>1. q # r /\ at'[q] = at[q] /\ Issuing(q)
    BY <1>2 DEF Issuing
  <2>2. /\ life[at[q].of] = NoEntry /\ at[q].of \notin ticketed
        /\ \A p \in Requests \ {q} :
             at[p].step \in LockSteps /\ at[p].of = at[q].of => at[p].step = "resolveTokens"
    BY <2>1 DEF LaunchesFirst
  <2> QED BY <2>1, <2>2
<1> QED BY <1>1, <1>2 DEF LaunchesFirst, Issuing

LEMMA FirstBegin ==
  ASSUME NativeInv, LaunchesFirst, NEW r \in Requests, RequestBegins(r)
  PROVE  LaunchesFirst' /\ life' = life
<1> USE DEF NativeInv
<1>1. CASE FindOwner(r)
  <2>1. ~Issuing(r)' /\ at'[r].step \notin LockSteps /\ \A q \in Requests : q # r => at'[q] = at[q]
    BY <1>1, MoveMoves DEF FindOwner, OwnerWaits, Issuing, LockSteps
  <2> QED BY <1>1, <2>1, FirstKept DEF FindOwner, LaunchesFirst
<1>2. ASSUME NEW s \in NativeIds, BeginIssue(r, s) PROVE LaunchesFirst' /\ life' = life
  <2>1. ~Issuing(r)' /\ at'[r].of = s /\ \A q \in Requests : q # r => at'[q] = at[q]
    BY <1>2, MoveMoves, AskingTyped DEF BeginIssue, Issuing, LockSteps
  <2>2. \A q \in Requests : Issuing(q) => at[q].of # s
    BY <1>2 DEF BeginIssue, Issuing, RequestsLaunched, LockSteps
  <2> QED BY <1>2, <2>1, <2>2, FirstKept DEF BeginIssue, LaunchesFirst
<1>3. ASSUME NEW s \in NativeIds, ConsumeToken(r, s) PROVE LaunchesFirst' /\ life' = life
  <2>1. at' = at \/ (~Issuing(r)' /\ \A q \in Requests : q # r => at'[q] = at[q])
    BY <1>3, MoveMoves, AskingTyped DEF ConsumeToken, Issuing, LockSteps
  <2>2. \A q \in Requests : ~Issuing(q)
    BY <1>3, NoneIssues DEF ConsumeToken, Free
  <2>3. ~Issuing(r)' /\ \A q \in Requests : q # r => at'[q] = at[q]
    BY <2>1, <2>2 DEF Issuing
  <2>4. \A q \in NativeIds : token'[q] = "unissued" => token[q] = "unissued"
    BY <1>3 DEF ConsumeToken, NativeTypeOK
  <2> QED BY <1>3, <2>2, <2>3, <2>4, FirstKept DEF ConsumeToken
<1>4. ASSUME NEW s \in NativeIds, RefreshLooks(r, s) PROVE LaunchesFirst' /\ life' = life
  <2>1. ~Issuing(r)' /\ at'[r].of = s /\ \A q \in Requests : q # r => at'[q] = at[q]
    BY <1>4, MoveMoves, AskingTyped DEF RefreshLooks, Issuing, LockSteps
  <2> QED BY <1>4, <2>1, FirstKept DEF RefreshLooks, LaunchesFirst
<1>5. ASSUME NEW s \in NativeIds, BeginUpdate(r, s) PROVE LaunchesFirst' /\ life' = life
  <2>1. /\ at'[r].step = "resolveTokens" /\ ~Issuing(r)'
        /\ \A q \in Requests : q # r => at'[q] = at[q]
    BY <1>5, MoveMoves, AskingTyped DEF BeginUpdate, Issuing, LockSteps
  <2> QED BY <1>5, <2>1, FirstKept DEF BeginUpdate, LaunchesFirst
<1> QED BY <1>1, <1>2, <1>3, <1>4, <1>5 DEF RequestBegins

\* A request that is past the tokens is about no session that is being launched.
LEMMA PastTokens ==
  ASSUME LaunchesFirst, NEW r \in Requests, NEW q \in Requests, q # r, Issuing(q),
         at[r].step \in LockSteps \ {"resolveTokens"}
  PROVE  at[r].of # at[q].of
BY DEF LaunchesFirst

\* Such a request changes what belongs to its own session only.
LEMMA FirstPast ==
  ASSUME NativeInv, LaunchesFirst, NEW r \in Requests,
         at[r].step \in LockSteps \ {"resolveTokens", "issueTokens"},
         \A q \in Requests : q # r => at'[q] = at[q], ~Issuing(r)',
         at'[r].step = "idle" \/ at'[r].of = at[r].of,
         \A s \in NativeIds : token'[s] = "unissued" => token[s] = "unissued",
         \A s \in NativeIds : s # at[r].of => life'[s] \in {life[s], NoEntry},
         ticketed' \subseteq ticketed \cup {at[r].of}
  PROVE  LaunchesFirst'
<1>1. at[r].of \in NativeIds /\ token[at[r].of] # "unissued"
  BY AskingShape DEF NativeInv, RequestsLaunched
<1>2. \A s \in NativeIds : token'[s] = "unissued" => token[s] = "unissued" /\ life'[s] = life[s]
  BY <1>1 DEF LaunchesFirst
<1>3. ASSUME NEW q \in Requests, q # r, Issuing(q)
      PROVE  /\ life'[at[q].of] = life[at[q].of] /\ at[q].of \notin ticketed'
             /\ at'[r].step \in LockSteps /\ at'[r].of = at[q].of => at'[r].step = "resolveTokens"
  <2>0. at[q].step \in LockSteps
    BY <1>3 DEF Issuing, LockSteps
  <2>1. at[q].of # at[r].of /\ at[q].of \in NativeIds
    BY <1>3, <2>0, PastTokens, AskingShape DEF NativeInv
  <2>2. life[at[q].of] = NoEntry /\ at[q].of \notin ticketed
    BY <1>3 DEF LaunchesFirst
  <2> QED BY <2>1, <2>2 DEF LockSteps
<1> QED BY <1>2, <1>3, FirstKept

LEMMA FirstStep ==
  ASSUME NativeInv, LocksApart, LaunchesFirst, NEW r \in Requests, RequestStep(r)
  PROVE  LaunchesFirst'
<1> USE DEF NativeInv
<1>1. CASE IssueToken(r)
  <2>1. /\ at[r].step = "issueTokens" /\ at[r].of \in NativeIds
        /\ UNCHANGED <<ticketed, life>>
    BY <1>1, AskingShape DEF IssueToken, LockSteps
  <2>2. /\ at'[r].of = at[r].of /\ \A q \in Requests : q # r => at'[q] = at[q]
    BY <1>1, <2>1, GoGoes DEF IssueToken, LockSteps
  <2>3. \A q \in Requests : ~Issuing(q)
    BY <1>1, NoneIssues DEF IssueToken, Free
  <2>4. token[at[r].of] = "unissued"
    BY <2>1 DEF LaunchesApart
  <2>5. \A s \in NativeIds : token'[s] = "unissued" => token[s] = "unissued"
    BY <1>1, <2>4 DEF IssueToken
  <2>6. ASSUME NEW q \in Requests \ {r}, at[q].step \in LockSteps PROVE at[q].of # at[r].of
    BY <2>1, <2>4, <2>6 DEF LaunchesApart, RequestsLaunched
  <2>7. \A q \in Requests : Issuing(q)' => q = r
    BY <2>2, <2>3 DEF Issuing
  <2>8. \A s \in NativeIds : token'[s] = "unissued" => life'[s] = NoEntry
    BY <2>1, <2>5 DEF LaunchesFirst
  <2>9. life'[at'[r].of] = NoEntry /\ at'[r].of \notin ticketed'
    BY <2>1, <2>2, <2>4 DEF LaunchesFirst, RequestsLaunched
  <2>10. \A q \in Requests \ {r} : at'[q].step \in LockSteps => at'[q].of # at'[r].of
    BY <2>2, <2>6
  <2>11. \A q \in Requests \ {r} :
           at'[q].step \in LockSteps /\ at'[q].of = at'[r].of => at'[q].step = "resolveTokens"
    BY <2>10
  <2> QED BY <2>7, <2>8, <2>9, <2>11 DEF LaunchesFirst, Issuing
<1>2. CASE IssueDropsTickets(r)
  <2>1. at[r].step = "issueTickets" /\ UNCHANGED <<token, life>> /\ ticketed' \subseteq ticketed
    BY <1>2 DEF IssueDropsTickets
  <2>2. /\ at'[r].of = at[r].of /\ at'[r].step = "issueLife"
        /\ \A q \in Requests : q # r => at'[q] = at[q]
    BY <1>2, <2>1, GoGoes DEF IssueDropsTickets, LockSteps
  <2>3. \A q \in Requests : at'[q].of = at[q].of
    BY <2>2
  <2>4. \A q \in Requests : /\ Issuing(q)' => Issuing(q)
                            /\ at'[q].step \in LockSteps => at[q].step \in LockSteps
                            /\ at[q].step = "resolveTokens" => at'[q].step = "resolveTokens"
    BY <2>1, <2>2 DEF Issuing, LockSteps
  <2>5. ASSUME NEW q \in Requests, Issuing(q)'
        PROVE  /\ life'[at'[q].of] = NoEntry /\ at'[q].of \notin ticketed'
               /\ \A p \in Requests \ {q} :
                    at'[p].step \in LockSteps /\ at'[p].of = at'[q].of => at'[p].step = "resolveTokens"
    <3>1. Issuing(q)
      BY <2>4, <2>5
    <3> QED BY <2>1, <2>3, <2>4, <3>1 DEF LaunchesFirst
  <2> QED BY <2>1, <2>5 DEF LaunchesFirst, Issuing
<1>3. CASE IssueLifecycle(r)
  <2>1. /\ at[r].step = "issueLife" /\ UNCHANGED <<token, ticketed>>
        /\ \A s \in NativeIds : s # at[r].of => life'[s] \in {life[s], NoEntry}
    BY <1>3 DEF IssueLifecycle
  <2>2. at'[r].step = "idle" /\ \A q \in Requests : q # r => at'[q] = at[q]
    BY <1>3, FinishEnds DEF IssueLifecycle
  <2> QED BY <2>1, <2>2, FirstPast DEF Issuing, LockSteps
<1>4. CASE RefreshChecks(r)
  <2>1. at[r].step = "check" /\ UNCHANGED <<token, ticketed, life>>
    BY <1>4 DEF RefreshChecks
  <2>2. /\ (at'[r].step \in {"insert", "dropTickets"} /\ at'[r].of = at[r].of) \/ at'[r].step = "idle"
        /\ \A q \in Requests : q # r => at'[q] = at[q]
    BY <1>4, <2>1, FinishEnds, GoGoes DEF RefreshChecks, LockSteps
  <2> QED BY <2>1, <2>2, FirstPast DEF Issuing, LockSteps
<1>5. CASE InsertTicket(r)
  <2>1. at[r].step = "insert" /\ UNCHANGED <<token, life>> /\ ticketed' = ticketed \cup {at[r].of}
    BY <1>5 DEF InsertTicket
  <2>2. at'[r].step = "idle" /\ \A q \in Requests : q # r => at'[q] = at[q]
    BY <1>5, FinishEnds DEF InsertTicket
  <2> QED BY <2>1, <2>2, FirstPast DEF Issuing, LockSteps
<1>6. CASE ResolveByToken(r)
  <2>1. at[r].step = "resolveTokens" /\ UNCHANGED <<token, ticketed, life>>
    BY <1>6 DEF ResolveByToken
  <2>2. /\ at'[r].step \in {"complete", "update", "resolveTickets", "idle"}
        /\ \A q \in Requests : q # r => at'[q] = at[q]
    BY <1>6, <2>1, FinishEnds, GoGoes DEF ResolveByToken, Resolved, LockSteps
  <2>3. \A q \in Requests : ~Issuing(q)
    BY <1>6, NoneIssues DEF ResolveByToken, Free
  <2> QED BY <2>1, <2>2, <2>3, FirstKept DEF Issuing
<1>7. CASE ResolveByTicket(r) \/ ResolveByLifecycle(r)
  <2>1. at[r].step \in {"resolveTickets", "resolveLife"} /\ UNCHANGED <<token, ticketed, life>>
    BY <1>7 DEF ResolveByTicket, ResolveByLifecycle
  <2>2. /\ \/ at'[r].step \in {"complete", "update", "resolveLife"} /\ at'[r].of = at[r].of
           \/ at'[r].step = "idle"
        /\ \A q \in Requests : q # r => at'[q] = at[q]
    BY <1>7, <2>1, FinishEnds, GoGoes DEF ResolveByTicket, ResolveByLifecycle, Resolved, LockSteps
  <2> QED BY <2>1, <2>2, FirstPast DEF Issuing, LockSteps
<1>8. CASE ApplyUpdate(r)
  <2>1. /\ at[r].step \in {"complete", "update"} /\ UNCHANGED <<token, ticketed>>
        /\ \A s \in NativeIds : s # at[r].of => life'[s] = life[s]
    BY <1>8 DEF ApplyUpdate, NativeTypeOK
  <2>2. /\ (at'[r].step = "dropTickets" /\ at'[r].of = at[r].of) \/ at'[r].step = "idle"
        /\ \A q \in Requests : q # r => at'[q] = at[q]
    BY <1>8, <2>1, FinishEnds, GoGoes DEF ApplyUpdate, LockSteps
  <2> QED BY <2>1, <2>2, FirstPast DEF Issuing, LockSteps
<1>9. CASE InvalidateTickets(r)
  <2>1. at[r].step = "dropTickets" /\ UNCHANGED <<token, life>> /\ ticketed' \subseteq ticketed
    BY <1>9 DEF InvalidateTickets
  <2>2. /\ at'[r].step = "dropTokens" /\ at'[r].of = at[r].of
        /\ \A q \in Requests : q # r => at'[q] = at[q]
    BY <1>9, <2>1, GoGoes DEF InvalidateTickets, LockSteps
  <2> QED BY <2>1, <2>2, FirstPast DEF Issuing, LockSteps
<1>10. CASE InvalidateTokens(r)
  <2>1. /\ at[r].step = "dropTokens" /\ UNCHANGED <<ticketed, life>>
        /\ \A s \in NativeIds : token'[s] = "unissued" => token[s] = "unissued"
    BY <1>10 DEF InvalidateTokens, End, NativeTypeOK
  <2>2. at'[r].step = "idle" /\ \A q \in Requests : q # r => at'[q] = at[q]
    BY <1>10, FinishEnds DEF InvalidateTokens, End
  <2> QED BY <2>1, <2>2, FirstPast DEF Issuing, LockSteps
<1>11. CASE OwnerFound(r)
  <2>1. at'[r].step = "idle" /\ \A q \in Requests : q # r => at'[q] = at[q]
    BY <1>11, FinishEnds DEF OwnerFound
  <2> QED BY <1>11, <2>1, FirstKept DEF OwnerFound, Issuing, LaunchesFirst, LockSteps
<1> QED BY <1>1, <1>2, <1>3, <1>4, <1>5, <1>6, <1>7, <1>8, <1>9, <1>10, <1>11 DEF RequestStep

LEMMA FirstElse ==
  ASSUME NativeInv, LaunchesFirst,
         (\E r \in Requests : Abandon(r)) \/ (\E s \in NativeIds : TimePasses(s)) \/ UNCHANGED nativeVars
  PROVE  LaunchesFirst'
<1> USE DEF NativeInv
<1>1. ASSUME NEW r \in Requests, Abandon(r) PROVE LaunchesFirst'
  <2>1. at'[r].step = "idle" /\ \A q \in Requests : q # r => at'[q] = at[q]
    BY <1>1, FinishEnds DEF Abandon
  <2>2. \A s \in NativeIds : token'[s] = "unissued" => token[s] = "unissued"
    BY <1>1 DEF Abandon, NativeTypeOK
  <2> QED BY <1>1, <2>1, <2>2, FirstKept DEF Abandon, Issuing, LaunchesFirst, LockSteps
<1>2. ASSUME NEW s \in NativeIds, TimePasses(s) PROVE LaunchesFirst'
  <2>1. at' = at /\ ticketed' \subseteq ticketed
    BY <1>2 DEF TimePasses
  <2>2. \A q \in NativeIds : token'[q] = "unissued" => token[q] = "unissued"
    BY <1>2 DEF TimePasses, NativeTypeOK
  <2>3. ASSUME NEW q \in NativeIds, life[q] = NoEntry PROVE life'[q] = NoEntry
    <3>1. ~life[q].there
      BY <2>3 DEF NoEntry
    <3>2. life' = life \/ (life[s].there /\ life' = [life EXCEPT ![s].old = TRUE])
      BY <1>2 DEF TimePasses
    <3> QED BY <2>3, <3>1, <3>2 DEF NativeTypeOK
  <2>4. \A q \in Requests : Issuing(q) => at[q].of \in NativeIds
    BY AskingShape DEF Issuing, LockSteps
  <2> QED BY <2>1, <2>2, <2>3, <2>4 DEF LaunchesFirst, Issuing
<1>3. CASE UNCHANGED nativeVars
  BY <1>3 DEF nativeVars, LaunchesFirst, Issuing
<1> QED BY <1>1, <1>2, <1>3

LEMMA CompletionKept ==
  ASSUME NativeInv, LaunchesFirst, [NativeNext]_nativeVars,
         NEW s \in NativeIds, life[s].there, life[s].completed
  PROVE  ~life'[s].there \/ life'[s].completed
<1> USE DEF NativeInv
<1>1. ASSUME life' = life PROVE ~life'[s].there \/ life'[s].completed
  BY <1>1
<1>2. ASSUME NEW r \in Requests, IssueLifecycle(r) PROVE ~life'[s].there \/ life'[s].completed
  <2>1. Issuing(r)
    BY <1>2 DEF IssueLifecycle, Issuing
  <2>2. s # at[r].of
    BY <2>1 DEF LaunchesFirst, NoEntry
  <2>3. life'[s] \in {life[s], NoEntry}
    BY <1>2, <2>2 DEF IssueLifecycle
  <2> QED BY <2>3 DEF NoEntry
<1>3. ASSUME NEW r \in Requests, ApplyUpdate(r) PROVE ~life'[s].there \/ life'[s].completed
  BY <1>3 DEF ApplyUpdate, NativeTypeOK, Entry
<1>4. ASSUME NEW r \in Requests, RequestStep(r) PROVE ~life'[s].there \/ life'[s].completed
  BY <1>1, <1>2, <1>3, <1>4 DEF RequestStep, IssueToken, IssueDropsTickets, RefreshChecks, InsertTicket,
     ResolveByToken, ResolveByTicket, ResolveByLifecycle, InvalidateTickets, InvalidateTokens, End, OwnerFound
<1>5. ASSUME NEW q \in NativeIds, TimePasses(q) PROVE ~life'[s].there \/ life'[s].completed
  <2>1. life' = life \/ life' = [life EXCEPT ![q].old = TRUE]
    BY <1>5 DEF TimePasses
  <2>2. life[s] \in Lives /\ life[s] # NoEntry
    BY DEF NativeTypeOK, NoEntry
  <2>3. life[s] \in [there : {TRUE}, completed : BOOLEAN, old : BOOLEAN]
    BY <2>2 DEF Lives
  <2> QED BY <2>1, <2>3 DEF NativeTypeOK
<1> QED BY <1>1, <1>4, <1>5, FirstBegin DEF NativeNext, Abandon, nativeVars

\* A native session that is complete stays complete while anybody remembers it:
\* no update, launch or late request takes its lifecycle back. A launch makes
\* its entry anew, but it is the first to make one.
THEOREM CompletionStays ==
  NativeSpec => [][\A s \in NativeIds : life[s].there /\ life[s].completed =>
                     ~life'[s].there \/ life'[s].completed]_nativeVars
<1> DEFINE Inv == NativeInv /\ LocksApart /\ LaunchesFirst
<1>1. NativeInit => Inv
  BY NativeInitInv, LocksInitially, FirstInitially
<1>2. Inv /\ [NativeNext]_nativeVars => Inv'
  <2> SUFFICES ASSUME Inv, [NativeNext]_nativeVars PROVE LaunchesFirst'
    BY NativeStepInv, LocksStep DEF NativeInv
  <2> QED BY FirstStep, FirstBegin, FirstElse DEF NativeNext
<1>3. Inv /\ [NativeNext]_nativeVars =>
        [\A s \in NativeIds : life[s].there /\ life[s].completed =>
           ~life'[s].there \/ life'[s].completed]_nativeVars
  BY CompletionKept
<1> HIDE DEF Inv
<1> QED BY <1>1, <1>2, <1>3, PTL DEF NativeSpec

-----------------------------------------------------------------------------
(* Both modules. *)

SuiteInv == IInv /\ NativeInv

\* The types of the sessions and of the tables beside them, whichever of the two
\* a behaviour looks at.
THEOREM ServerTypesHold == SuiteSpec => []ServerTypeOK
<1>1. SuiteInit => SuiteInv
  BY InitIInv, NativeInitInv DEF SuiteInit, SuiteInv
<1>2. SuiteInv /\ [SuiteNext]_suiteVars => SuiteInv'
  <2> SUFFICES ASSUME SuiteInv, [SuiteNext]_suiteVars PROVE SuiteInv'
    OBVIOUS
  <2>1. IInv /\ NativeInv
    BY DEF SuiteInv
  <2>2. [Next]_vars /\ [NativeNext]_nativeVars
    BY DEF SuiteNext, OnlyStreamSessions, OnlyNativeSessions, suiteVars
  <2> QED BY <2>1, <2>2, StepKeeps, NativeStepInv DEF SuiteInv
<1>3. SuiteInv => ServerTypeOK
  BY DEF SuiteInv, IInv, NativeInv, ServerTypeOK
<1> QED BY <1>1, <1>2, <1>3, PTL DEF SuiteSpec
=============================================================================

------------------------------ MODULE CommandRpc ------------------------------
(***************************************************************************)
(* What request_daemon_operation promises a caller of the host supervisor, *)
(* without the files, the pids and the polling.                            *)
(*                                                                         *)
(* A request that reaches the server gets a ticket, the millisecond it is  *)
(* made in. The server performs one operation at a time, and the same one  *)
(* again only when a process has died for it. A caller that is told how    *)
(* its operation ended is told the truth, up to operations with the same   *)
(* ticket; one that is refused can be sure that its operation was not and  *)
(* will not be performed; one that gives up knows nothing. And there is a  *)
(* fourth answer, which the caller cannot tell from a success: a shutdown  *)
(* that finds no server running is said to have succeeded, and nothing was *)
(* and nothing will be done about it.                                      *)
(***************************************************************************)
EXTENDS Naturals

CONSTANTS Requesters, Operations, Tickets

VARIABLES
  wants,     \* the operation each requester asks for
  ticket,    \* the ticket its request was given, 0 before
  doing,     \* the requester whose operation is being performed, as a set
  attempts,  \* how often each requester's operation has been begun
  crashes,   \* how many processes have died
  effects,   \* pairs <<r, outcome>>: what performing r's operation came to
  answer     \* what each requester has been told

rpcVars == <<wants, ticket, doing, attempts, crashes, effects, answer>>

RpcInit ==
  /\ wants = [r \in Requesters |-> "nothing"]
  /\ ticket = [r \in Requesters |-> 0]
  /\ doing = {}
  /\ attempts = [r \in Requesters |-> 0]
  /\ crashes = 0
  /\ effects = {}
  /\ answer = [r \in Requesters |-> "none"]

AskFor(r, op) ==
  /\ wants[r] = "nothing"
  /\ wants' = [wants EXCEPT ![r] = op]
  /\ UNCHANGED <<ticket, doing, attempts, crashes, effects, answer>>

Submit(r, t) ==
  /\ wants[r] # "nothing" /\ ticket[r] = 0 /\ answer[r] = "none"
  /\ \A q \in Requesters : ticket[q] <= t
  /\ ticket' = [ticket EXCEPT ![r] = t]
  /\ UNCHANGED <<wants, doing, attempts, crashes, effects, answer>>

\* Possibly again, possibly long after the requester gave up.
Begin(r) ==
  /\ ticket[r] # 0 /\ doing = {}
  /\ attempts[r] <= crashes
  /\ doing' = {r}
  /\ attempts' = [attempts EXCEPT ![r] = @ + 1]
  /\ UNCHANGED <<wants, ticket, crashes, effects, answer>>

Perform(r, o) ==
  /\ r \in doing
  /\ doing' = {}
  /\ effects' = effects \cup {<<r, o>>}
  /\ UNCHANGED <<wants, ticket, attempts, crashes, answer>>

\* A process dies: the server, with what it was doing, or one without effect.
Die ==
  /\ crashes' = crashes + 1
  /\ doing' \in {doing, {}}
  /\ UNCHANGED <<wants, ticket, attempts, effects, answer>>

Answer(r, a) ==
  /\ wants[r] # "nothing" /\ answer[r] = "none"
  /\ answer' = [answer EXCEPT ![r] = a]
  /\ UNCHANGED <<wants, ticket, doing, attempts, crashes, effects>>

Reply(r, o) ==
  /\ ticket[r] # 0
  /\ \E q \in Requesters : ticket[q] = ticket[r] /\ <<q, o>> \in effects
  /\ Answer(r, o)

GiveUp(r) == ticket[r] # 0 /\ Answer(r, "unknown")
Refuse(r) == ticket[r] = 0 /\ Answer(r, "refused")
Skip(r)   == ticket[r] = 0 /\ wants[r] = "shutdown" /\ Answer(r, "ok")

\* Most steps of the detailed system change nothing that can be seen from here;
\* this comes first because the model checker tries the disjuncts in order.
Unseen == UNCHANGED rpcVars

RpcNext ==
  \/ Unseen
  \/ Die
  \/ \E r \in Requesters :
       \/ Begin(r) \/ GiveUp(r) \/ Refuse(r) \/ Skip(r)
       \/ \E op \in Operations : AskFor(r, op)
       \/ \E t \in Tickets : Submit(r, t)
       \/ \E o \in {"ok", "error"} : Perform(r, o) \/ Reply(r, o)

RpcSpec == RpcInit /\ [][RpcNext]_rpcVars
=============================================================================

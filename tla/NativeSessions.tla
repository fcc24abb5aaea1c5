---------------------------- MODULE NativeSessions ----------------------------
(***************************************************************************)
(* The sessions of native clients in the web-server (src/app/mod.rs): the  *)
(* tables of launch tokens, stream tickets and lifecycles, each under an   *)
(* RwLock of its own, and the requests that go through them.               *)
(*                                                                         *)
(* What a request does under one lock without an await is one step.  Only  *)
(* two requests ask for a lock while they hold another, see Writes and     *)
(* Reads.  Tokens and sessions are made in pairs, so a session stands for  *)
(* its token.  The tables of events and invites are left out: their locks  *)
(* are asked for by requests that hold nothing, and nothing here reads     *)
(* them.  actix drops the handler of a client that goes away where it      *)
(* awaits, and its locks with it.                                          *)
(***************************************************************************)
EXTENDS FiniteSets

CONSTANTS
  Requests,   \* handlers that run at the same time
  NativeIds,  \* the sessions that are issued, one for each launch
  AppOf       \* user, host and app of each session

ASSUME NativeAssumption == AppOf \in [NativeIds -> NativeIds]

VARIABLES
  token,     \* token[s]: the entry of android_native_launch_tokens
  ticketed,  \* the sessions with an entry in android_native_stream_tickets
  life,      \* life[s]: the entry of android_native_session_lifecycle
  at,        \* at[r]: the lock the request asks for next, and what it knows
  ended,     \* history: sessions whose artifacts were invalidated
  late       \* history: of those, the ones a request outran, see InsertTicket

nativeVars == <<token, ticketed, life, at, ended, late>>

LockSteps ==
  {"issueTokens", "issueTickets", "issueLife", "check", "insert",
   "resolveTokens", "resolveTickets", "resolveLife", "complete", "update",
   "dropTickets", "dropTokens"}
NoEntry == [there |-> FALSE]
Entry(completed) == [there |-> TRUE, completed |-> completed, old |-> FALSE]
\* An entry that the next launch drops was completed a while ago.
Lives ==
  {NoEntry} \cup
  {e \in [there : {TRUE}, completed : BOOLEAN, old : BOOLEAN] : e.old => e.completed}

Idle == [step |-> "idle"]
OwnerWaits == [step |-> "ownerTickets"]
Asking(step, s) == [step |-> step, of |-> s]

NativeTypeOK ==
  /\ token \in [NativeIds -> {"unissued", "issued", "consumed", "gone"}]
  /\ ticketed \subseteq NativeIds
  /\ life \in [NativeIds -> Lives]
  /\ at \in [Requests ->
              {Idle, OwnerWaits}
              \cup [step : LockSteps, of : NativeIds]]
  /\ late \subseteq NativeIds /\ ended \subseteq NativeIds

NativeInit ==
  /\ token = [s \in NativeIds |-> "unissued"]
  /\ ticketed = {}
  /\ life = [s \in NativeIds |-> NoEntry]
  /\ at = [r \in Requests |-> Idle]
  /\ ended = {} /\ late = {}

(***************************************************************************)
(* The locks.                                                              *)
(***************************************************************************)
\* A slip of Writes: the block around the tickets is missing in
\* invalidate_android_native_session_artifacts.
WritesOn(step) ==
  CASE step = "issueTickets" -> {"tokens"}
    [] step = "issueLife" -> {"tokens", "tickets"}
    [] step = "dropTokens" -> {"tickets"}
    [] OTHER -> {}

\* What a request that asks for its next lock keeps for writing: only
\* issue_android_native_launch_token keeps its guards.
Writes(step) ==
  CASE step = "issueTickets" -> {"tokens"}
    [] step = "issueLife" -> {"tokens", "tickets"}
    [] OTHER -> {}

\* And for reading: find_active_android_native_owner_session.
Reads(step) == IF step = "ownerTickets" THEN {"lifecycle"} ELSE {}

Readable(lock) == \A r \in Requests : lock \notin Writes(at[r].step)
Free(lock) == Readable(lock) /\ \A r \in Requests : lock \notin Reads(at[r].step)

Go(r, step) == at' = [at EXCEPT ![r].step = step]
Move(r, to) == at' = [at EXCEPT ![r] = to]
Finish(r) == Move(r, Idle)

(***************************************************************************)
(* A launch.                                                               *)
(***************************************************************************)
SameApp(s) == {q \in NativeIds : AppOf[q] = AppOf[s]}

BeginIssue(r, s) ==
  /\ at[r].step = "idle"
  /\ token[s] = "unissued" /\ \A q \in Requests : at[q].step = "issueTokens" => at[q].of # s
  /\ Move(r, Asking("issueTokens", s))
  /\ UNCHANGED <<token, ticketed, life, ended, late>>

IssueToken(r) ==
  /\ at[r].step = "issueTokens" /\ Free("tokens")
  /\ token' = [s \in NativeIds |->
                 IF s = at[r].of THEN "issued"
                 ELSE IF \/ token[s] = "consumed"
                         \/ token[s] = "issued" /\ s \in SameApp(at[r].of)
                      THEN "gone" ELSE token[s]]
  /\ Go(r, "issueTickets")
  /\ UNCHANGED <<ticketed, life, ended, late>>

IssueDropsTickets(r) ==
  /\ at[r].step = "issueTickets" /\ Free("tickets")
  /\ ticketed' = ticketed \ SameApp(at[r].of)
  /\ Go(r, "issueLife")
  /\ UNCHANGED <<token, life, ended, late>>

IssueLifecycle(r) ==
  /\ at[r].step = "issueLife" /\ Free("lifecycle")
  /\ life' = [s \in NativeIds |->
                IF s = at[r].of THEN Entry(FALSE)
                ELSE IF life[s].there /\ life[s].completed /\ life[s].old
                     THEN NoEntry ELSE life[s]]
  /\ Finish(r)
  /\ UNCHANGED <<token, ticketed, ended, late>>

\* consume_android_native_launch_token.  The ticket is issued at a later
\* await, without a look at the lifecycle; the web session takes none.
ConsumeToken(r, s) ==
  /\ at[r].step = "idle" /\ Free("tokens")
  /\ token[s] = "issued"
  /\ token' = [token EXCEPT ![s] = "consumed"]
  /\ \/ Move(r, Asking("insert", s))
     \/ UNCHANGED at
  /\ UNCHANGED <<ticketed, life, ended, late>>

(***************************************************************************)
(* Tickets.                                                                *)
(***************************************************************************)
\* refresh_android_native_stream_ticket finds the ticket it was given, or
\* another of a session that fits; bootstrap_..._from_native_session only
\* looks for one.
RefreshLooks(r, s) ==
  /\ at[r].step = "idle" /\ Free("tickets")
  /\ s \in ticketed
  /\ Move(r, Asking("check", s))
  /\ UNCHANGED <<token, ticketed, life, ended, late>>

\* android_native_session_allows_stream_access
Allowed(s) == life[s].there => ~life[s].completed

RefreshChecks(r) ==
  /\ at[r].step = "check" /\ Readable("lifecycle")
  /\ IF Allowed(at[r].of) THEN Go(r, "insert") \/ Finish(r) ELSE Go(r, "dropTickets")
  /\ UNCHANGED <<token, ticketed, life, ended, late>>

\* The last lock of a refresh, and issue_android_native_stream_ticket.  What
\* was found before may have ended since.
InsertTicket(r) ==
  /\ at[r].step = "insert" /\ Free("tickets")
  /\ ticketed' = ticketed \cup {at[r].of}
  /\ Finish(r)
  /\ UNCHANGED <<token, life, ended, late>>

(***************************************************************************)
(* The lifecycle.                                                          *)
(***************************************************************************)
BeginUpdate(r, s) ==
  /\ at[r].step = "idle" /\ token[s] # "unissued"
  /\ Move(r, Asking("resolveTokens", s))
  /\ UNCHANGED <<token, ticketed, life, ended, late>>

\* The session was found: an event is recorded, or the lifecycle goes on with
\* one of the four actions that complete it or with another.
Resolved(r) == Finish(r) \/ Go(r, "complete") \/ Go(r, "update")

\* Without a match the request goes on if it named a session.
ResolveByToken(r) ==
  /\ at[r].step = "resolveTokens" /\ Free("tokens")
  /\ IF token[at[r].of] \in {"issued", "consumed"} THEN Resolved(r)
     ELSE Go(r, "resolveTickets") \/ Finish(r)
  /\ UNCHANGED <<token, ticketed, life, ended, late>>

ResolveByTicket(r) ==
  /\ at[r].step = "resolveTickets" /\ Free("tickets")
  /\ IF at[r].of \in ticketed THEN Resolved(r) ELSE Go(r, "resolveLife")
  /\ UNCHANGED <<token, ticketed, life, ended, late>>

ResolveByLifecycle(r) ==
  /\ at[r].step = "resolveLife" /\ Readable("lifecycle")
  /\ IF life[at[r].of].there THEN Resolved(r) ELSE Finish(r)
  /\ UNCHANGED <<token, ticketed, life, ended, late>>

\* A slip of ApplyUpdate: the action alone decides whether the session is over,
\* and the time of the entry stays.
ApplyUpdateAfresh(r) ==
  LET s == at[r].of
      completes == at[r].step = "complete"
  IN  /\ at[r].step \in {"complete", "update"} /\ Free("lifecycle")
      /\ life' = [life EXCEPT ![s] =
                    [Entry(completes) EXCEPT !.old = life[s].there /\ life[s].old]]
      /\ IF completes THEN Go(r, "dropTickets") ELSE Finish(r)
      /\ UNCHANGED <<token, ticketed, ended, late>>

\* Nothing takes a completion back; an entry that is missing is made again.
ApplyUpdate(r) ==
  LET s == at[r].of
      completes == at[r].step = "complete"
  IN  /\ at[r].step \in {"complete", "update"} /\ Free("lifecycle")
      /\ life' = [life EXCEPT ![s] =
                    Entry(completes \/ (life[s].there /\ life[s].completed))]
      /\ IF completes THEN Go(r, "dropTickets") ELSE Finish(r)
      /\ UNCHANGED <<token, ticketed, ended, late>>

\* invalidate_android_native_session_artifacts
InvalidateTickets(r) ==
  /\ at[r].step = "dropTickets" /\ Free("tickets")
  /\ ticketed' = ticketed \ {at[r].of}
  /\ Go(r, "dropTokens")
  /\ UNCHANGED <<token, life, ended, late>>

\* A request that looked before may still write, or has written since the
\* tickets were dropped.
Outrun(s) ==
  s \in ticketed \/ \E q \in Requests : at[q] \in {Asking("check", s), Asking("insert", s)}

End(r, s) ==
  /\ ended' = ended \cup {s}
  /\ late' = IF Outrun(s) THEN late \cup {s} ELSE late
  /\ Finish(r)
  /\ UNCHANGED <<ticketed, life>>

\* A slip of InvalidateTokens: a token that was not used is left.
InvalidateUsedTokens(r) ==
  LET s == at[r].of IN
  /\ at[r].step = "dropTokens" /\ Free("tokens")
  /\ token' = [token EXCEPT ![s] = IF @ = "consumed" THEN "gone" ELSE @]
  /\ End(r, s)

InvalidateTokens(r) ==
  LET s == at[r].of IN
  /\ at[r].step = "dropTokens" /\ Free("tokens")
  /\ token' = [token EXCEPT ![s] = IF @ = "unissued" THEN @ ELSE "gone"]
  /\ End(r, s)

\* An invite for the active session of an owner.
FindOwner(r) ==
  /\ at[r].step = "idle" /\ Readable("lifecycle")
  /\ Move(r, OwnerWaits)
  /\ UNCHANGED <<token, ticketed, life, ended, late>>

OwnerFound(r) ==
  /\ at[r].step = "ownerTickets" /\ Readable("tickets")
  /\ Finish(r)
  /\ UNCHANGED <<token, ticketed, life, ended, late>>

(***************************************************************************)
(* Clients and time.                                                       *)
(***************************************************************************)
\* The client goes away and its handler with its guards; of a launch that was
\* not answered nobody knows the token.
Abandon(r) ==
  /\ at[r].step # "idle"
  /\ token' = IF at[r].step \in {"issueTokens", "issueTickets", "issueLife"}
              THEN [token EXCEPT ![at[r].of] = "gone"] ELSE token
  /\ Finish(r)
  /\ UNCHANGED <<ticketed, life, ended, late>>

\* An entry that expired is removed by whoever comes next, or not found.
TimePasses(s) ==
  /\ UNCHANGED <<at, ended, late>>
  /\ \/ /\ token[s] \in {"issued", "consumed"}
        /\ token' = [token EXCEPT ![s] = "gone"]
        /\ UNCHANGED <<ticketed, life>>
     \/ /\ s \in ticketed
        /\ ticketed' = ticketed \ {s}
        /\ UNCHANGED <<token, life>>
     \/ /\ life[s].there /\ life[s].completed /\ ~life[s].old
        /\ life' = [life EXCEPT ![s].old = TRUE]
        /\ UNCHANGED <<token, ticketed>>

RequestStep(r) ==
  \/ IssueToken(r) \/ IssueDropsTickets(r) \/ IssueLifecycle(r)
  \/ RefreshChecks(r) \/ InsertTicket(r)
  \/ ResolveByToken(r) \/ ResolveByTicket(r) \/ ResolveByLifecycle(r)
  \/ ApplyUpdate(r) \/ InvalidateTickets(r) \/ InvalidateTokens(r)
  \/ OwnerFound(r)

RequestBegins(r) ==
  \/ FindOwner(r)
  \/ \E s \in NativeIds :
       \/ BeginIssue(r, s) \/ ConsumeToken(r, s) \/ RefreshLooks(r, s)
       \/ BeginUpdate(r, s)

NativeNext ==
  \/ \E r \in Requests : RequestStep(r) \/ RequestBegins(r) \/ Abandon(r)
  \/ \E s \in NativeIds : TimePasses(s)

NativeSpec == NativeInit /\ [][NativeNext]_nativeVars

\* tokio's RwLock serves its queue in order: no request is passed over for ever.
NativeFairness == \A r \in Requests : SF_nativeVars(RequestStep(r))
FairNativeSpec == NativeSpec /\ NativeFairness

(***************************************************************************)
(* Properties.                                                             *)
(***************************************************************************)
\* A session that was completed and whose tickets and tokens were dropped has
\* neither again: refreshes, launches, updates and the disappearance of its
\* lifecycle entry bring none back.  The only ticket it may have descends from
\* a request that found the session alive and wrote after it had ended.
EndedStaysEnded ==
  \A s \in ended : token[s] = "gone" /\ (s \in ticketed => s \in late)

\* A launch keeps the tickets and asks for the lifecycles, an invite keeps the
\* lifecycles and asks for the tickets.
Embrace ==
  /\ \E r \in Requests : at[r].step = "issueLife"
  /\ \E r \in Requests : at[r].step = "ownerTickets"

\* Every request ends, however the locks are passed on, unless a launch and an
\* invite wait for one another: no other two requests of mod.rs do.
NativeRequestsEnd ==
  \A r \in Requests : []<>(at[r].step = "idle" \/ Embrace)
==============================================================================

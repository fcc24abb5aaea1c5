--------------------------- MODULE HostControlApp ---------------------------
(***************************************************************************)
(* The operator's page of the host control app                             *)
(* (src/tools/portable/HostControlApp.Tauri/src/App.tsx).  Every handler   *)
(* awaits commands of the backend and shows the state a command returns;   *)
(* the handlers overlap, their answers may come late, and what the page    *)
(* shows decides which handlers can run: the poll needs an open page       *)
(* without the busy overlay, a claim of a license the end of the one       *)
(* before.                                                                 *)
(***************************************************************************)
EXTENDS Naturals, FiniteSets

CONSTANTS
  Hands,     \* handlers that may run at once besides refreshes and a claim
  MaxActs,   \* bound: actions of the user and refusals of one behaviour
  AtOnce,    \* bound: refreshes, uploads, commands and claims that overlap
  AppTries   \* attempts of the loops that wait for the runtime (15 and 8)

ASSUME AppAssumption ==
  MaxActs \in Nat /\ AtOnce \in Nat \ {0} /\ AppTries \in Nat \ {0}

VARIABLES
  backend,   \* the host behind the commands: activation, identity, runtime, lock
  shown,     \* shell: the state the page shows
  appPage,   \* busyLabel, activationProgress, lastBindingSyncKey
  refresh,   \* the calls of refreshState and the silent uploads, each on its own
  claim,     \* handleClaimSetupToken under way
  command,   \* the other handlers under way
  acts

appVars == <<backend, shown, appPage, refresh, claim, command, acts>>

HostStates == [phase : {"waiting", "activated"}, key : 0 .. MaxActs,
               running : BOOLEAN, open : BOOLEAN]
FreshApp == [phase |-> "waiting", key |-> 0, running |-> FALSE, open |-> TRUE]
Blank == [FreshApp EXCEPT !.open = FALSE]
Refreshing == 1 .. AtOnce
NoRefresh == [at |-> "idle", saw |-> Blank]
NoCommand == [at |-> "idle", saw |-> Blank, kind |-> "start", tries |-> 0]

AppCommands == {"start", "stop", "save", "reset", "recover", "lock", "unlock"}

AppInit ==
  /\ backend = FreshApp
  /\ shown = Blank
  /\ appPage = [busy |-> FALSE, progress |-> "none", synced |-> MaxActs + 1]
  /\ refresh = [i \in Refreshing |-> [NoRefresh EXCEPT !.at = IF i = 1 THEN "get" ELSE "idle"]]
  /\ claim = [at |-> "idle", saw |-> Blank, tries |-> 0, was |-> FALSE]
  /\ command = [h \in Hands |-> NoCommand]
  /\ acts = 0

AppTypeOK ==
  /\ backend \in HostStates /\ shown \in HostStates
  /\ appPage \in [busy : BOOLEAN,
               progress : {"none", "verify", "binding", "starting"},
               synced : 0 .. MaxActs + 1]
  /\ refresh \in [Refreshing ->
        [at : {"idle", "get", "got", "sync", "syncing", "synced",
               "upload", "uploading", "uploaded"},
         saw : HostStates]]
  /\ claim \in [at : {"idle", "submit", "bind", "redeem", "bound", "recheck", "already",
                      "monitor", "auto", "start", "wait"},
                saw : HostStates, tries : 0 .. AppTries, was : BOOLEAN]
  /\ command \in [Hands ->
        [at : {"idle", "sent", "running", "done", "wait", "sync", "syncing", "synced"},
         saw : HostStates, kind : AppCommands, tries : 0 .. AppTries]]
  /\ acts \in 0 .. MaxActs

Acts == acts < MaxActs /\ acts' = acts + 1
MayOverlap ==
  Cardinality({i \in Refreshing : refresh[i].at # "idle"})
    + Cardinality({h \in Hands : command[h].at # "idle"})
    + (IF claim.at = "idle" THEN 0 ELSE 1) < AtOnce

(***************************************************************************)
(* refreshState: the state, then the presence of the host when its         *)
(* identity changed.  The backend reads the identity before the call of    *)
(* the network and writes it back after it.  The interval asks whether the *)
(* last refresh has ended no more than the user does: refreshes overlap.   *)
(***************************************************************************)
Takes(i, at) ==
  /\ refresh[i].at = "idle" /\ \A j \in 1 .. i - 1 : refresh[j].at # "idle"
  /\ refresh' = [refresh EXCEPT ![i].at = at]
Refreshes == MayOverlap /\ \E i \in Refreshing : Takes(i, "get")

RefreshBegins ==
  /\ Refreshes /\ Acts
  /\ UNCHANGED <<backend, shown, appPage, claim, command>>

PollStatus ==
  /\ shown.open /\ ~appPage.busy /\ Refreshes
  /\ UNCHANGED <<backend, shown, appPage, claim, command, acts>>

\* One refresh goes on, or it ends.
GoesOn(i, at, saw) == refresh' = [refresh EXCEPT ![i] = [at |-> at, saw |-> saw]]
RefreshEnds(i) == refresh' = [refresh EXCEPT ![i] = NoRefresh]

RefreshAnswered(i) ==
  /\ refresh[i].at = "get" /\ GoesOn(i, "got", backend)
  /\ UNCHANGED <<backend, shown, appPage, claim, command, acts>>

RefreshFails(i) ==
  /\ refresh[i].at \in {"get", "sync", "syncing", "synced", "upload", "uploading"} /\ Acts
  /\ RefreshEnds(i)
  /\ UNCHANGED <<backend, shown, appPage, claim, command>>

\* applyShellState, and syncBindingIfNeeded for another identity.
RefreshShown(i) ==
  /\ refresh[i].at = "got"
  /\ shown' = refresh[i].saw
  /\ IF refresh[i].saw.key = appPage.synced THEN RefreshEnds(i) ELSE GoesOn(i, "sync", Blank)
  /\ UNCHANGED <<backend, appPage, claim, command, acts>>

SyncReads(i) ==
  /\ refresh[i].at = "sync" /\ GoesOn(i, "syncing", backend)
  /\ UNCHANGED <<backend, shown, appPage, claim, command, acts>>

\* What a sync writes back: the activation it had read, changed since or not.
Synced(saw) == [backend EXCEPT !.phase = saw.phase, !.key = saw.key]

SyncWrites(i) ==
  /\ refresh[i].at = "syncing"
  /\ backend' = Synced(refresh[i].saw)
  /\ GoesOn(i, "synced", backend')
  /\ UNCHANGED <<shown, appPage, claim, command, acts>>

SyncShown(i) ==
  /\ refresh[i].at = "synced"
  /\ shown' = refresh[i].saw
  /\ appPage' = [appPage EXCEPT !.synced = refresh[i].saw.key]
  /\ RefreshEnds(i)
  /\ UNCHANGED <<backend, claim, command, acts>>

\* handleUploadDiagnostic, silent: nobody waits for it.  The backend answers with
\* its state, but for the lock, which it read before the upload.
Uploads == \E i \in Refreshing : Takes(i, "upload")

UploadReads(i) ==
  /\ refresh[i].at = "upload" /\ GoesOn(i, "uploading", backend)
  /\ UNCHANGED <<backend, shown, appPage, claim, command, acts>>

UploadAnswered(i) ==
  /\ refresh[i].at = "uploading"
  /\ GoesOn(i, "uploaded", [backend EXCEPT !.open = refresh[i].saw.open])
  /\ UNCHANGED <<backend, shown, appPage, claim, command, acts>>

UploadShown(i) ==
  /\ refresh[i].at = "uploaded"
  /\ shown' = refresh[i].saw
  /\ RefreshEnds(i)
  /\ UNCHANGED <<backend, appPage, claim, command, acts>>

(***************************************************************************)
(* The other handlers: the runtime, the settings, the identity, the lock.  *)
(* The overlay stops the mouse, not the keyboard.                          *)
(***************************************************************************)
Ready(h) == h.running

MayRun(kind) ==
  CASE kind = "unlock" -> ~shown.open
    [] kind \in {"reset", "recover"} -> shown.open /\ ~appPage.busy /\ appPage.progress = "none"
    [] OTHER -> shown.open

CommandBegins(h, kind) ==
  /\ command[h].at = "idle" /\ MayRun(kind) /\ MayOverlap /\ Acts
  /\ command' = [command EXCEPT ![h] = [NoCommand EXCEPT !.at = "sent", !.kind = kind]]
  /\ appPage' = [appPage EXCEPT !.busy = @ \/ kind # "lock"]
  /\ UNCHANGED <<backend, shown, refresh, claim>>

\* A handler gets on, with what it saw.
GetsOn(h, at, saw) == command' = [command EXCEPT ![h].at = at, ![h].saw = saw]

\* Behind the page the lock is checked again.  The check of a start, whether the
\* host is activated or bound to a keeper, is one of the refusals of CommandFails.
CommandRuns(h) ==
  /\ command[h].at = "sent"
  /\ backend.open \/ command[h].kind \in {"lock", "unlock"}
  /\ GetsOn(h, "running", backend)
  /\ UNCHANGED <<backend, shown, appPage, refresh, claim, acts>>

Effect(c) ==
  CASE c.kind = "start" -> [backend EXCEPT !.running = TRUE]
    [] c.kind = "stop" -> [backend EXCEPT !.running = FALSE]
    [] c.kind = "save" -> [backend EXCEPT !.key = acts]
    [] c.kind = "reset" -> [backend EXCEPT !.phase = "waiting", !.key = acts, !.running = FALSE]
    [] c.kind = "recover" -> [backend EXCEPT !.phase = "activated", !.key = c.saw.key]
    [] OTHER -> [backend EXCEPT !.open = (c.kind = "unlock")]

\* The answer calls the app open, whether or not it was locked meanwhile.
CommandDone(h) ==
  /\ command[h].at = "running"
  /\ backend' = Effect(command[h])
  /\ GetsOn(h, "done", [backend' EXCEPT !.open = (command[h].kind # "lock")])
  /\ UNCHANGED <<shown, appPage, refresh, claim, acts>>

\* The finally of the handlers: it takes the overlay of the others away too.
NotBusy(p) == [p EXCEPT !.busy = FALSE]
\* A slip of Ended: the overlay stays.
EndedBusy(h) == command' = [command EXCEPT ![h] = NoCommand] /\ UNCHANGED appPage

Ended(h) ==
  /\ appPage' = IF command[h].kind = "lock" THEN appPage ELSE NotBusy(appPage)
  /\ command' = [command EXCEPT ![h] = NoCommand]

CommandShown(h) ==
  /\ command[h].at = "done"
  /\ shown' = command[h].saw
  /\ Ended(h)
  /\ UNCHANGED <<backend, refresh, claim, acts>>

\* handleStartHostFlow goes on to wait for the runtime, handleOpenTokenPage to
\* sync the identity it has saved, whichever was synced last.
FlowGoesOn(h) ==
  /\ command[h].at = "done" /\ command[h].kind \in {"start", "save"}
  /\ shown' = command[h].saw
  /\ GetsOn(h, IF command[h].kind = "start" THEN "wait" ELSE "sync", Blank)
  /\ UNCHANGED <<backend, appPage, refresh, claim, acts>>

\* waitForRuntimeReadiness
FlowWaits(h) ==
  /\ command[h].at = "wait"
  /\ shown' = backend
  /\ IF Ready(backend) \/ command[h].tries = AppTries
     THEN Ended(h)
     ELSE command' = [command EXCEPT ![h].tries = @ + 1] /\ UNCHANGED appPage
  /\ UNCHANGED <<backend, refresh, claim, acts>>

FlowSyncReads(h) ==
  /\ command[h].at = "sync" /\ GetsOn(h, "syncing", backend)
  /\ UNCHANGED <<backend, shown, appPage, refresh, claim, acts>>

FlowSyncWrites(h) ==
  /\ command[h].at = "syncing"
  /\ backend' = Synced(command[h].saw)
  /\ GetsOn(h, "synced", backend')
  /\ UNCHANGED <<shown, appPage, refresh, claim, acts>>

FlowSynced(h) ==
  /\ command[h].at = "synced"
  /\ shown' = command[h].saw
  /\ appPage' = [NotBusy(appPage) EXCEPT !.synced = command[h].saw.key]
  /\ command' = [command EXCEPT ![h] = NoCommand]
  /\ UNCHANGED <<backend, refresh, claim, acts>>

\* An error is shown; the state is not asked again.  A recovery that fails, for
\* one, uploads a diagnostic.
CommandFails(h) ==
  /\ command[h].at \in {"sent", "running", "done", "wait", "sync", "syncing", "synced"}
  /\ Ended(h)
  /\ IF command[h].kind = "recover" THEN Uploads ELSE UNCHANGED refresh
  /\ UNCHANGED <<backend, shown, claim, acts>>

(***************************************************************************)
(* The claim of a license: submitted, then watched, then the runtime is    *)
(* started and awaited.                                                    *)
(***************************************************************************)
Operable(h) == h.phase = "activated"

Progress(p, stage) == [p EXCEPT !.progress = stage]
ClaimAt(at) == [claim EXCEPT !.at = at, !.saw = Blank, !.tries = 0]
ClaimOver == ClaimAt("idle")

ClaimBegins ==
  /\ claim.at = "idle" /\ shown.open /\ appPage.progress = "none"
  /\ MayOverlap /\ Acts
  /\ appPage' = [appPage EXCEPT !.progress = "verify", !.busy = TRUE]
  /\ claim' = [ClaimAt("submit") EXCEPT !.was = Operable(shown)]
  /\ UNCHANGED <<backend, shown, refresh, command>>

\* The backend begins a fresh identity, asks the control plane, and writes what
\* it read with the binding; then it redeems the token of the runtime it was
\* given, which it may not have been, and writes the identity once more.
ClaimReads ==
  /\ claim.at = "submit" /\ backend.open
  /\ backend' = [backend EXCEPT !.phase = "waiting", !.key = acts]
  /\ claim' = [claim EXCEPT !.at = "bind", !.saw = backend']
  /\ UNCHANGED <<shown, appPage, refresh, command, acts>>

Binds == \E phase \in {"waiting", "activated"} :
  backend' = [backend EXCEPT !.phase = phase, !.key = claim.saw.key]

ClaimWrites ==
  /\ claim.at = "bind" /\ Binds
  /\ claim' \in {[claim EXCEPT !.at = "redeem"], ClaimAt("recheck")}
  /\ UNCHANGED <<shown, appPage, refresh, command, acts>>

ClaimRedeems ==
  /\ claim.at = "redeem" /\ Binds
  /\ claim' \in {[claim EXCEPT !.at = "bound", !.saw = [backend' EXCEPT !.open = TRUE]],
                 ClaimAt("recheck")}
  /\ UNCHANGED <<shown, appPage, refresh, command, acts>>

ClaimBound ==
  /\ claim.at = "bound"
  /\ shown' = claim.saw
  /\ appPage' = Progress(NotBusy(appPage), IF Operable(claim.saw) THEN "starting" ELSE "binding")
  /\ claim' = IF Operable(claim.saw) THEN ClaimAt("auto") ELSE [claim EXCEPT !.at = "monitor"]
  /\ UNCHANGED <<backend, refresh, command, acts>>

ClaimRefused(already) ==
  /\ claim.at \in {"submit", "bind", "redeem"}
  /\ claim' = ClaimAt(IF already THEN "already" ELSE "recheck")
  /\ UNCHANGED <<backend, shown, appPage, refresh, command, acts>>

\* The claim has come to nothing: the dialog goes, and a diagnostic is uploaded.
ClaimGivenUp(p) ==
  /\ appPage' = Progress(p, "none")
  /\ claim' = ClaimOver
  /\ Uploads

\* After an error the state is asked: the license may have been accepted.  If
\* that fails too, what the page showed at first decides.
ClaimRechecked(answered) ==
  /\ claim.at \in {"recheck", "already"}
  /\ shown' = IF answered THEN backend ELSE shown
  /\ IF \/ claim.at = "already"
        \/ IF answered THEN Operable(backend) ELSE claim.was
     THEN /\ appPage' = Progress(NotBusy(appPage), "starting")
          /\ claim' = ClaimAt("auto")
          /\ UNCHANGED refresh
     ELSE ClaimGivenUp(NotBusy(appPage))
  /\ UNCHANGED <<backend, command, acts>>

\* monitorActivationFlow: an attempt looks at the answer of the claim, a later
\* one at the state, ...
MonitorLooks ==
  /\ claim.at = "monitor" /\ claim.tries < AppTries
  /\ LET latest == IF claim.tries = 0 THEN claim.saw ELSE backend
     IN  /\ shown' = latest
         /\ appPage' = Progress(appPage, IF Operable(latest) THEN "starting" ELSE "binding")
         /\ claim' = IF Operable(latest) /\ Ready(latest)
                     THEN ClaimAt("auto")
                     ELSE [claim EXCEPT !.tries = @ + 1, !.saw = latest]
  /\ UNCHANGED <<backend, refresh, command, acts>>

\* ... which it may not get; ...
MonitorMisses ==
  /\ claim.at = "monitor" /\ claim.tries \in 1 .. AppTries - 1
  /\ claim' = [claim EXCEPT !.tries = @ + 1]
  /\ UNCHANGED <<backend, shown, appPage, refresh, command, acts>>

\* ... and after the last of them the last state that was seen decides.
MonitorEnds ==
  /\ claim.at = "monitor" /\ claim.tries = AppTries
  /\ IF Operable(claim.saw)
     THEN /\ appPage' = Progress(appPage, "starting")
          /\ claim' = ClaimAt("auto")
          /\ UNCHANGED refresh
     ELSE ClaimGivenUp(appPage)
  /\ UNCHANGED <<backend, shown, command, acts>>

\* autoCompleteHostAfterToken
AutoLooks ==
  /\ claim.at = "auto"
  /\ shown' = backend
  /\ claim' = IF Operable(backend) /\ ~Ready(backend) THEN ClaimAt("start") ELSE ClaimAt("wait")
  /\ UNCHANGED <<backend, appPage, refresh, command, acts>>

AutoStarts ==
  /\ claim.at = "start"
  /\ \/ /\ backend.open
        /\ backend' = [backend EXCEPT !.running = TRUE]
        /\ shown' = backend'
     \/ UNCHANGED <<backend, shown>>
  /\ claim' = ClaimAt("wait")
  /\ UNCHANGED <<appPage, refresh, command, acts>>

\* waitForRuntimeReadiness: a heartbeat at the end, or a hint.
AutoWaits ==
  /\ claim.at = "wait"
  /\ shown' = backend
  /\ IF Ready(backend) \/ claim.tries = AppTries
     THEN claim' = ClaimOver /\ appPage' = Progress(appPage, "none")
     ELSE claim' = [claim EXCEPT !.tries = @ + 1] /\ UNCHANGED appPage
  /\ UNCHANGED <<backend, refresh, command, acts>>

\* The catch and finally of autoCompleteHostAfterToken.
AutoFails ==
  /\ claim.at \in {"auto", "wait"}
  /\ claim' = ClaimOver
  /\ appPage' = Progress(appPage, "none")
  /\ UNCHANGED <<backend, shown, refresh, command, acts>>

RefreshSteps(i) ==
  \/ RefreshAnswered(i) \/ RefreshShown(i) \/ SyncReads(i) \/ SyncWrites(i) \/ SyncShown(i)
  \/ UploadReads(i) \/ UploadAnswered(i) \/ UploadShown(i)
CommandSteps(h) ==
  \/ CommandRuns(h) \/ CommandDone(h) \/ CommandShown(h) \/ CommandFails(h)
  \/ FlowGoesOn(h) \/ FlowWaits(h) \/ FlowSyncReads(h) \/ FlowSyncWrites(h) \/ FlowSynced(h)
ClaimSteps ==
  \/ ClaimReads \/ ClaimWrites \/ ClaimRedeems \/ ClaimBound
  \/ \E already \in BOOLEAN : ClaimRefused(already)
  \/ \E answered \in BOOLEAN : ClaimRechecked(answered)
  \/ MonitorLooks \/ MonitorMisses \/ MonitorEnds
  \/ AutoLooks \/ AutoStarts \/ AutoWaits \/ AutoFails

AppNext ==
  \/ RefreshBegins \/ PollStatus
  \/ \E i \in Refreshing : RefreshSteps(i) \/ RefreshFails(i)
  \/ \E h \in Hands :
       CommandSteps(h) \/ \E kind \in AppCommands : CommandBegins(h, kind)
  \/ ClaimBegins \/ ClaimSteps

\* Commands of the backend return, within their timeouts, and the interval of
\* the poll fires: setInterval is set whenever its condition holds.
AppFairness ==
  /\ WF_appVars(PollStatus) /\ \A i \in Refreshing : WF_appVars(RefreshSteps(i))
  /\ WF_appVars(ClaimSteps) /\ \A h \in Hands : WF_appVars(CommandSteps(h))

AppSpec == AppInit /\ [][AppNext]_appVars /\ AppFairness

(***************************************************************************)
(* Properties.                                                             *)
(***************************************************************************)
\* The dialog of the activation is there exactly while a claim is under way:
\* otherwise no license could be entered any more, or two at a time.
DialogInStep == appPage.progress = "none" <=> claim.at = "idle"

\* When the user stops, every handler ends, and the overlay and the dialog go
\* away.  Unless syncs that overlap write back each other's past for ever, the
\* page then shows the host as it is, or the gate that asks for the password.
AppSettles ==
  /\ <>[](/\ ~appPage.busy /\ appPage.progress = "none"
          /\ command = [h \in Hands |-> NoCommand] /\ claim.at = "idle")
  /\ <>[][UNCHANGED backend]_appVars => <>[](shown.open => shown = backend)
=============================================================================

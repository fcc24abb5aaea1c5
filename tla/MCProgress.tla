---------------------------- MODULE MCProgress -----------------------------
(***************************************************************************)
(* The components whose properties are about what must happen in the end,  *)
(* checked one at a time in one run: the mailbox of the supervisor with    *)
(* nobody who competes for it, the storage of the web server, the          *)
(* automatic quality, the watch of the stream, a WebRTC peer and the page  *)
(* of the host control app. They share no state here: each module takes    *)
(* what the others do as its inputs. So a behaviour picks one component in *)
(* its initial state and takes the steps of that component only; the       *)
(* states reached are those of the modules put side by side, never their   *)
(* product.                                                                *)
(***************************************************************************)
EXTENDS MCSupervisorMailbox, AdaptiveQuality, StreamWatch, HostControlApp,
        WebRtcPeer, JsonStorage

VARIABLE focus  \* the component whose steps the behaviour takes

\* The remote candidates of the peer are named for what they are.
CandidateKinds == [c \in Candidates |->
  CASE c = "p4" -> "public4" [] c = "p6" -> "public6" [] c = "m4" -> "mapped4"
    [] c = "m6" -> "mapped6" [] OTHER -> "lan4"]

suiteVars ==
  <<focus, mailboxVars, qualityVars, watchVars, appVars, peerVars,
    storageVars>>

OnlySupervisorMailbox ==
  /\ focus = "mailbox"
  /\ UNCHANGED <<focus, qualityVars, watchVars, appVars, peerVars,
       storageVars>>
  /\ MailboxNext

OnlyAdaptiveQuality ==
  /\ focus = "quality"
  /\ UNCHANGED <<focus, mailboxVars, watchVars, appVars, peerVars,
       storageVars>>
  /\ QualityNext

OnlyStreamWatch ==
  /\ focus = "watch"
  /\ UNCHANGED <<focus, mailboxVars, qualityVars, appVars, peerVars,
       storageVars>>
  /\ WatchNext

OnlyHostControlApp ==
  /\ focus = "app"
  /\ UNCHANGED <<focus, mailboxVars, qualityVars, watchVars, peerVars,
       storageVars>>
  /\ AppNext

OnlyWebRtcPeer ==
  /\ focus = "peer"
  /\ UNCHANGED <<focus, mailboxVars, qualityVars, watchVars, appVars,
       storageVars>>
  /\ PeerNext

OnlyJsonStorage ==
  /\ focus = "storage"
  /\ UNCHANGED <<focus, mailboxVars, qualityVars, watchVars, appVars,
       peerVars>>
  /\ StorageNext

SuiteInit ==
  /\ focus \in {"mailbox", "quality", "watch", "app", "peer", "storage"}
  /\ MailboxInit
  /\ QualityInit
  /\ WatchInit
  /\ AppInit
  /\ PeerInit
  /\ StorageInit
  /\ focus # "storage" => rows = [i \in RowIds |-> None]

SuiteNext ==
  \/ OnlySupervisorMailbox
  \/ OnlyAdaptiveQuality
  \/ OnlyStreamWatch
  \/ OnlyHostControlApp
  \/ OnlyWebRtcPeer
  \/ OnlyJsonStorage

\* The fairness of each module, taken of the steps the suite lets it make.
SuiteFairness ==
  /\ \A p \in Processes : WF_mailboxVars(focus = "mailbox" /\ (Load(p) \/ Truncate(p) \/ Fill(p)))
  /\ \A r \in Requesters : WF_mailboxVars(focus = "mailbox" /\ MailboxRequesterSteps(r))
  /\ \A d \in Daemons : WF_mailboxVars(focus = "mailbox" /\ TakeOver(d))
  /\ \A d \in Daemons : WF_mailboxVars(focus = "mailbox" /\ Poll(d))
  /\ \A d \in Daemons : SF_mailboxVars(focus = "mailbox" /\ Run(d))
  /\ \A d \in Daemons : WF_mailboxVars(focus = "mailbox" /\ Clear(d))
  /\ WF_mailboxVars(focus = "mailbox" /\ (\A d \in Daemons : ~Live(d)) /\ TaskTrigger)
  /\ WF_mailboxVars(focus = "mailbox" /\ (\E d \in Daemons : (\A e \in Daemons : ~Live(e)) /\ Launch(d)))
  /\ WF_qualityVars(focus = "quality" /\ TimePasses)
  /\ WF_qualityVars(focus = "quality" /\ PollQuality(TRUE, quality.fps))
  /\ WF_watchVars(focus = "watch" /\ ReconnectRestarts)
  /\ WF_watchVars(focus = "watch" /\ DeadlinePasses)
  /\ WF_watchVars(focus = "watch" /\ WaitTimerFires)
  /\ WF_watchVars(focus = "watch" /\ TransitionCheck)
  /\ WF_watchVars(focus = "watch" /\ WarmupCheck)
  /\ WF_watchVars(focus = "watch" /\ Complete)
  /\ WF_watchVars(focus = "watch" /\ SetupApplied)
  /\ WF_watchVars(focus = "watch" /\ FlowReady)
  /\ WF_watchVars(focus = "watch" /\ FramesSettle)
  /\ WF_appVars(focus = "app" /\ PollStatus)
  /\ \A i \in Refreshing : WF_appVars(focus = "app" /\ RefreshSteps(i))
  /\ WF_appVars(focus = "app" /\ ClaimSteps)
  /\ \A h \in Hands : WF_appVars(focus = "app" /\ CommandSteps(h))
  /\ WF_peerVars(focus = "peer" /\ CandidateTurn)
  /\ WF_peerVars(focus = "peer" /\ CandidateAdded)
  /\ WF_peerVars(focus = "peer" /\ PublicTimerFires)
  /\ WF_peerVars(focus = "peer" /\ ConnectionFollows)
  /\ WF_peerVars(focus = "peer" /\ ConnectionTimerFires)
  /\ WF_peerVars(focus = "peer" /\ RecoveryTimerFires)
  /\ WF_peerVars(focus = "peer" /\ RecoveryJudged)
  /\ WF_storageVars(focus = "storage" /\ WriterSteps)
  /\ WF_storageVars(focus = "storage" /\ (\E c \in Clients : Signal(c)))

SuiteSpec == SuiteInit /\ [][SuiteNext]_suiteVars /\ SuiteFairness

\* Every component keeps the types of its state, whatever the user, the page,
\* the host and the timers do in turn.
ProgressTypeOK ==
  /\ focus = "mailbox" => MailboxTypeOK
  /\ focus = "quality" => QualityTypeOK /\ QualityInBounds
  /\ focus = "watch" => WatchTypeOK
  /\ focus = "app" => AppTypeOK
  /\ focus = "peer" => PeerTypeOK
  /\ focus = "storage" => StorageTypeOK

\* The app's page: its busy overlay and its refreshes end, and its dialog is in
\* step with the claim under way.
PageSettles == focus = "app" => AppSettles /\ []DialogInStep
=============================================================================

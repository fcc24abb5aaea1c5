------------------------- MODULE ClientPages_proofs -------------------------
(***************************************************************************)
(* That the pages and the panels over the stream show what the state, the  *)
(* flags and the storage behind them say: the banner, the modals, the start *)
(* page and its history, the handle of the sidebar, the layouts of the      *)
(* on-screen pad, the panels of the viewer and the list of hosts.  Each     *)
(* part has its inductive invariant, the initial states and every action    *)
(* under it; the last part puts them together into what holds in every      *)
(* behaviour of the web client.                                             *)
(***************************************************************************)
EXTENDS ClientInput_proofs, SequenceTheorems

-----------------------------------------------------------------------------
(* The banner of the host's operations *)

RefreshSteps == {"none", "lists", "user", "status", "failed"}
RefreshType == [step : RefreshSteps, user : BOOLEAN]
ShownType == [role : Users \cup {"unknown"}, buttons : SUBSET {"login", "logout", "admin"}, banner : BOOLEAN]

\* A fetch that will look at the role again before it asks for the operations.
LooksAgain(r) == ~r.user /\ r.step \in {"lists", "user"}

BannerInv ==
  /\ shownTo \in ShownType /\ unseen \in BOOLEAN
  /\ refreshes \in [1 .. BannerFetches -> RefreshType]
  /\ \A f \in 1 .. BannerFetches : refreshes[f].user => refreshes[f].step \in {"lists", "user", "failed"}
  /\ shownTo.banner /\ shownTo.role # "admin" /\ ~unseen =>
       \E f \in 1 .. BannerFetches : LooksAgain(refreshes[f])

LEMMA BannerShows == BannerInv => BannerTypeOK /\ BannerForAdmin
<1> SUFFICES ASSUME BannerInv PROVE BannerTypeOK /\ BannerForAdmin
  OBVIOUS
<1>1. DOMAIN refreshes = 1 .. BannerFetches
  BY DEF BannerInv
<1>2. AtRest => \A f \in 1 .. BannerFetches : ~LooksAgain(refreshes[f])
  BY <1>1 DEF AtRest, LooksAgain, NoRefresh
<1>3. shownTo.role \in Users \cup {"unknown"}
  BY DEF BannerInv, ShownType
<1> QED BY <1>2, <1>3 DEF BannerInv, BannerTypeOK, BannerForAdmin, RefreshType, RefreshSteps, ShownType

LEMMA BannerInitially == BannerInit => BannerInv
<1> SUFFICES ASSUME BannerInit PROVE BannerInv
  OBVIOUS
<1>1. NoRefresh \in RefreshType /\ ~NoRefresh.user
  BY DEF NoRefresh, RefreshType, RefreshSteps
<1>2. shownTo \in ShownType /\ ~shownTo.banner /\ unseen = FALSE
  BY DEF BannerInit, ShownType
<1>3. refreshes = [f \in 1 .. BannerFetches |-> NoRefresh]
  BY DEF BannerInit
<1> QED BY <1>1, <1>2, <1>3 DEF BannerInv

LEMMA RefreshFields ==
  ASSUME NEW r \in RefreshType
  PROVE  /\ r.step \in RefreshSteps /\ r.user \in BOOLEAN
         /\ \A s \in RefreshSteps, p \in BOOLEAN :
              /\ [r EXCEPT !.step = s] \in RefreshType
              /\ [r EXCEPT !.user = p] \in RefreshType
              /\ [r EXCEPT !.user = p, !.step = s] \in RefreshType
BY DEF RefreshType

\* A step that changes one fetch, and no more of what is shown than it may.
LEMMA RefreshStep ==
  ASSUME BannerInv, NEW f \in 1 .. BannerFetches, NEW r \in RefreshType,
         refreshes' = [refreshes EXCEPT ![f] = r],
         r.user => r.step \in {"lists", "user", "failed"},
         shownTo' \in ShownType, unseen' \in BOOLEAN,
         \/ (shownTo'.banner /\ shownTo'.role # "admin" /\ ~unseen' => LooksAgain(r))
         \/ /\ shownTo' = shownTo /\ (~unseen' => ~unseen)
            /\ ~LooksAgain(refreshes[f])
  PROVE  BannerInv'
<1>1. refreshes' \in [1 .. BannerFetches -> RefreshType] /\ refreshes'[f] = r
      /\ \A g \in 1 .. BannerFetches : g # f => refreshes'[g] = refreshes[g]
  BY DEF BannerInv
<1>2. \A g \in 1 .. BannerFetches : refreshes'[g].user => refreshes'[g].step \in {"lists", "user", "failed"}
  BY <1>1 DEF BannerInv
<1>3. ASSUME shownTo'.banner, shownTo'.role # "admin", ~unseen'
      PROVE  \E g \in 1 .. BannerFetches : LooksAgain(refreshes'[g])
  <2>1. CASE LooksAgain(r)
    BY <1>1, <2>1
  <2>2. CASE shownTo' = shownTo /\ (~unseen' => ~unseen) /\ ~LooksAgain(refreshes[f])
    <3>0. shownTo.banner /\ shownTo.role # "admin" /\ ~unseen
      BY <1>3, <2>2
    <3>1. PICK g \in 1 .. BannerFetches : LooksAgain(refreshes[g])
      BY <3>0 DEF BannerInv
    <3>2. g # f
      BY <2>2, <3>1
    <3> QED BY <1>1, <3>1, <3>2
  <2> QED BY <1>3, <2>1, <2>2
<1>4. (\A g \in 1 .. BannerFetches : refreshes[g].user => refreshes[g].step \in {"lists", "user", "failed"})'
  BY <1>2
<1> QED BY <1>1, <1>3, <1>4 DEF BannerInv

LEMMA BannerStep ==
  ASSUME BannerInv, [BannerNext]_bannerVars PROVE BannerInv'
<1>0. /\ shownTo \in ShownType /\ unseen \in BOOLEAN
      /\ refreshes \in [1 .. BannerFetches -> RefreshType]
      /\ DOMAIN refreshes = 1 .. BannerFetches
  BY DEF BannerInv
<1>1. CASE UNCHANGED bannerVars
  BY <1>1 DEF bannerVars, BannerInv
<1>2. ASSUME NEW f \in 1 .. BannerFetches,
             \/ ForceFetch(f) \/ RefreshUserRole(f) \/ UserRefused(f) \/ ListsCome(f)
             \/ ListsRefused(f) \/ AskOperations(f) \/ OperationsAnswer(f)
      PROVE  BannerInv'
  <2> DEFINE r == refreshes[f]
  <2>0. /\ r \in RefreshType /\ r.step \in RefreshSteps /\ r.user \in BOOLEAN
        /\ r.user => r.step \in {"lists", "user", "failed"}
        /\ NoRefresh \in RefreshType /\ ~NoRefresh.user /\ ~LooksAgain(NoRefresh)
    <3>1. r \in RefreshType /\ (r.user => r.step \in {"lists", "user", "failed"})
      BY <1>0 DEF BannerInv
    <3>2. NoRefresh \in RefreshType /\ ~NoRefresh.user /\ ~LooksAgain(NoRefresh)
      BY DEF NoRefresh, RefreshType, RefreshSteps, LooksAgain
    <3> QED BY <3>1, <3>2, RefreshFields
  <2>1. CASE ForceFetch(f)
    <3> DEFINE n == [step |-> "lists", user |-> TRUE]
    <3>1. n \in RefreshType /\ n.user /\ n.step = "lists"
      BY DEF RefreshType, RefreshSteps
    <3>2. refreshes' = [refreshes EXCEPT ![f] = n] /\ UNCHANGED <<shownTo, unseen>> /\ ~LooksAgain(r)
      BY <2>0, <2>1 DEF ForceFetch
    <3> HIDE DEF n
    <3> QED BY <1>0, <3>1, <3>2, RefreshStep
  <2>2. CASE RefreshUserRole(f)
    <3> DEFINE n == [r EXCEPT !.user = FALSE, !.step = IF @ = "failed" THEN "none" ELSE @]
    <3>1. n \in RefreshType /\ ~n.user /\ n.step = IF r.step = "failed" THEN "none" ELSE r.step
      BY <2>0 DEF RefreshType, RefreshSteps
    <3>2. refreshes' = [refreshes EXCEPT ![f] = n] /\ unseen' = (unseen \/ r.step = "failed")
      BY <1>0, <2>2, Zenon DEF RefreshUserRole
    <3>3. r.user
      BY <2>2 DEF RefreshUserRole
    <3>4. shownTo' \in ShownType
      <4>1. PICK role \in Users : shownTo' = [shownTo EXCEPT !.role = role, !.buttons = ButtonsFor(role)]
        BY <2>2 DEF RefreshUserRole
      <4>2. ButtonsFor(role) \subseteq {"login", "logout", "admin"}
        BY DEF ButtonsFor
      <4> HIDE DEF Users
      <4> QED BY <1>0, <4>1, <4>2 DEF ShownType
    <3>5. unseen' \/ LooksAgain(n)
      BY <2>0, <3>1, <3>2, <3>3 DEF LooksAgain
    <3> HIDE DEF n
    <3> QED BY <1>0, <3>1, <3>2, <3>4, <3>5, RefreshStep
  <2>3. CASE UserRefused(f)
    <3>1. refreshes' = [refreshes EXCEPT ![f] = NoRefresh] /\ UNCHANGED <<shownTo, unseen>> /\ r.user
      BY <2>3 DEF UserRefused
    <3>2. ~LooksAgain(r)
      BY <3>1 DEF LooksAgain
    <3> QED BY <1>0, <2>0, <3>1, <3>2, RefreshStep
  <2>4. CASE ListsCome(f)
    <3> DEFINE n == [r EXCEPT !.step = "user"]
    <3>1. n \in RefreshType /\ n.user = r.user /\ n.step = "user"
      BY <2>0 DEF RefreshType, RefreshSteps
    <3>2. refreshes' = [refreshes EXCEPT ![f] = n] /\ UNCHANGED <<shownTo, unseen>> /\ r.step = "lists"
      BY <2>4 DEF ListsCome
    <3>3. LooksAgain(n) \/ ~LooksAgain(r)
      BY <3>1 DEF LooksAgain
    <3> HIDE DEF n
    <3> QED BY <1>0, <3>1, <3>2, <3>3, RefreshStep
  <2>5. CASE ListsRefused(f)
    <3> DEFINE n == [r EXCEPT !.step = IF refreshes[f].user THEN "failed" ELSE "none"]
    <3>1. n \in RefreshType /\ n.user = r.user /\ n.step = IF r.user THEN "failed" ELSE "none"
      BY <2>0 DEF RefreshType, RefreshSteps
    <3>2. refreshes' = [refreshes EXCEPT ![f] = n] /\ shownTo' = shownTo /\ unseen' = (unseen \/ ~r.user)
      BY <2>5 DEF ListsRefused
    <3>3. unseen' \/ (~LooksAgain(r) /\ (~unseen' => ~unseen))
      BY <2>0, <3>2 DEF LooksAgain
    <3>4. unseen' \in BOOLEAN
      BY <1>0, <3>2
    <3> HIDE DEF n
    <3> QED BY <1>0, <2>0, <3>1, <3>2, <3>3, <3>4, RefreshStep
  <2>6. CASE AskOperations(f)
    <3> DEFINE n == [r EXCEPT !.step = IF shownTo.role = "admin" THEN "status" ELSE "none"]
    <3>1. n \in RefreshType /\ n.user = r.user
      BY <2>0 DEF RefreshType, RefreshSteps
    <3>2. refreshes' = [refreshes EXCEPT ![f] = n] /\ ~unseen' /\ unseen' \in BOOLEAN
      BY <2>6 DEF AskOperations
    <3>4. ~r.user
      <4>1. r = [step |-> "user", user |-> FALSE]
        BY <2>6 DEF AskOperations
      <4> QED BY <4>1
    <3>3. shownTo' \in ShownType /\ (shownTo'.banner => shownTo'.role = "admin")
      BY <1>0, <2>6 DEF AskOperations, ShownType
    <3> HIDE DEF n
    <3> QED BY <3>1, <3>2, <3>3, <3>4, RefreshStep
  <2>7. CASE OperationsAnswer(f)
    <3>1. refreshes' = [refreshes EXCEPT ![f] = NoRefresh] /\ unseen' = unseen
      BY <2>7 DEF OperationsAnswer
    <3>2. shownTo' \in ShownType /\ (shownTo'.banner => shownTo'.role = "admin")
      BY <1>0, <2>7 DEF OperationsAnswer, ShownType, SetHostOperationsStatus
    <3> QED BY <1>0, <2>0, <3>1, <3>2, RefreshStep
  <2> QED BY <1>2, <2>1, <2>2, <2>3, <2>4, <2>5, <2>6, <2>7
<1> QED BY <1>0, <1>1, <1>2 DEF BannerNext

-----------------------------------------------------------------------------
(* The modal of a page and those who wait for it *)

AskType == [kind : Kinds, state : {"waits", "answered", "deaf", "through"}]

\* A call that waits is the one whose modal the next one aborts, and it is on the
\* page unless the answer of another took it away.
WaitsInStep(i) ==
  asks[i].state = "waits" =>
    modal.abort = i /\ (modal.mounted = i \/ i \in ousted)

ModalsInv ==
  /\ asks \in Seq(AskType) /\ Len(asks) <= MaxShows
  /\ modal \in [abort : 0 .. Len(asks), mounted : 0 .. Len(asks), overlay : BOOLEAN]
  /\ ousted \subseteq 1 .. Len(asks)
  /\ \A i \in 1 .. Len(asks) : WaitsInStep(i)
  /\ modal.mounted # Nobody => modal.mounted = modal.abort
  /\ modal.overlay <=> modal.mounted # Nobody

LEMMA ModalsShow ==
  ASSUME ModalsAssumption, ModalsInv PROVE ModalsTypeOK /\ WaitingIsSeen
<1>1. /\ DOMAIN asks = 1 .. Len(asks) /\ Len(asks) \in Nat /\ Len(asks) <= MaxShows /\ MaxShows \in Nat
      /\ \A i \in 1 .. Len(asks) : asks[i] \in AskType
  BY DEF ModalsInv, ModalsAssumption
<1>2. ModalsTypeOK
  <2>1. 0 .. Len(asks) \subseteq 0 .. MaxShows /\ 1 .. Len(asks) \subseteq 1 .. MaxShows
    BY <1>1
  <2>2. modal \in [abort : 0 .. MaxShows, mounted : 0 .. MaxShows, overlay : BOOLEAN]
    BY <2>1 DEF ModalsInv
  <2>3. ousted \subseteq 1 .. MaxShows
    BY <2>1 DEF ModalsInv
  <2> QED BY <1>1, <2>2, <2>3 DEF ModalsTypeOK, AskType
<1>3. WaitingIsSeen
  <2>1. ASSUME NEW i \in DOMAIN asks, asks[i].state = "waits", i \notin ousted
        PROVE  modal.mounted = i /\ modal.overlay
    <3>1. i \in 1 .. Len(asks) /\ modal.mounted = i
      BY <1>1, <2>1 DEF ModalsInv, WaitsInStep
    <3> QED BY <1>1, <3>1 DEF ModalsInv, Nobody
  <2> QED BY <2>1 DEF ModalsInv, WaitingIsSeen
<1> QED BY <1>2, <1>3

LEMMA ModalsInitially == ModalsAssumption /\ ModalsInit => ModalsInv
<1> SUFFICES ASSUME ModalsAssumption, ModalsInit PROVE ModalsInv
  OBVIOUS
<1>1. asks = <<>> /\ asks \in Seq(AskType) /\ Len(asks) = 0
  BY DEF ModalsInit
<1>2. modal \in [abort : 0 .. 0, mounted : 0 .. 0, overlay : BOOLEAN] /\ modal.mounted = 0 /\ ~modal.overlay
  BY DEF ModalsInit, Unmounted, Nobody
<1>3. ousted = {}
  BY DEF ModalsInit
<1> QED BY <1>1, <1>2, <1>3 DEF ModalsInv, ModalsAssumption, Nobody

LEMMA AskFields ==
  ASSUME NEW a \in AskType
  PROVE  /\ Aborted(a) \in AskType /\ Aborted(a).state # "waits"
         /\ \A s \in {"answered", "through"} :
              [a EXCEPT !.state = s] \in AskType /\ [a EXCEPT !.state = s].state = s
BY DEF AskType, Aborted

\* What the abort of a modal leaves of the calls.
LEMMA AbortedLeaves ==
  ASSUME ModalsInv
  PROVE  /\ AbortedAsks \in Seq(AskType) /\ Len(AbortedAsks) = Len(asks)
         /\ \A i \in 1 .. Len(asks) :
              AbortedAsks[i].state = "waits" => asks[i].state = "waits" /\ modal.abort # i
<1>1. /\ asks \in Seq(AskType) /\ Len(asks) \in Nat /\ modal.abort \in 0 .. Len(asks)
      /\ \A i \in 1 .. Len(asks) : asks[i] \in AskType
  BY DEF ModalsInv
<1>2. CASE modal.abort = Nobody
  BY <1>1, <1>2 DEF AbortedAsks, Nobody
<1>3. CASE modal.abort # Nobody
  <2>1. modal.abort \in 1 .. Len(asks) /\ AbortedAsks = [asks EXCEPT ![modal.abort] = Aborted(asks[modal.abort])]
    BY <1>1, <1>3 DEF AbortedAsks, Nobody
  <2>2. Aborted(asks[modal.abort]) \in AskType /\ Aborted(asks[modal.abort]).state # "waits"
    BY <1>1, <2>1, AskFields
  <2>3. AbortedAsks \in Seq(AskType) /\ Len(AbortedAsks) = Len(asks)
    BY <1>1, <2>1, <2>2
  <2>4. \A i \in 1 .. Len(asks) :
          AbortedAsks[i] = IF i = modal.abort THEN Aborted(asks[modal.abort]) ELSE asks[i]
    BY <1>1, <2>1
  <2> QED BY <2>2, <2>3, <2>4
<1> QED BY <1>2, <1>3

\* A step that answers one call, or works off its answer, and shows no other.
LEMMA AnswerStep ==
  ASSUME ModalsInv, NEW i \in 1 .. Len(asks), NEW s \in {"answered", "through"},
         asks' = [asks EXCEPT ![i].state = s],
         ousted' \subseteq 1 .. Len(asks), ousted \subseteq ousted',
         \/ modal' = modal
         \/ modal' = Unmounted(Nobody) /\ modal.abort = i
         \/ modal' = Unmounted(modal.abort) /\ (modal.mounted = Nobody \/ modal.mounted = i \/ modal.mounted \in ousted')
  PROVE  ModalsInv'
<1>0. /\ asks \in Seq(AskType) /\ Len(asks) \in Nat /\ Len(asks) <= MaxShows
      /\ \A j \in 1 .. Len(asks) : asks[j] \in AskType
      /\ modal \in [abort : 0 .. Len(asks), mounted : 0 .. Len(asks), overlay : BOOLEAN]
  BY DEF ModalsInv
<1>1. /\ asks' \in Seq(AskType) /\ Len(asks') = Len(asks) /\ asks'[i].state = s
      /\ \A j \in 1 .. Len(asks) : j # i => asks'[j] = asks[j]
  <2>1. asks' = [asks EXCEPT ![i] = [asks[i] EXCEPT !.state = s]]
    BY <1>0
  <2>2. [asks[i] EXCEPT !.state = s] \in AskType /\ [asks[i] EXCEPT !.state = s].state = s
    <3> DEFINE a == asks[i]
    <3>1. a \in AskType
      BY <1>0
    <3> HIDE DEF a
    <3>2. [a EXCEPT !.state = s] \in AskType /\ [a EXCEPT !.state = s].state = s
      BY <3>1 DEF AskType
    <3> QED BY <3>2 DEF a
  <2> QED BY <1>0, <2>1, <2>2
<1>2. /\ modal' \in [abort : 0 .. Len(asks), mounted : 0 .. Len(asks), overlay : BOOLEAN]
      /\ modal'.mounted # Nobody => modal'.mounted = modal'.abort
      /\ (modal'.overlay <=> modal'.mounted # Nobody)
  <2>1. CASE modal' = modal
    BY <1>0, <2>1 DEF ModalsInv
  <2>2. ASSUME NEW a \in 0 .. Len(asks), modal' = Unmounted(a)
        PROVE  /\ modal' \in [abort : 0 .. Len(asks), mounted : 0 .. Len(asks), overlay : BOOLEAN]
               /\ modal'.mounted = Nobody /\ ~modal'.overlay
    BY <1>0, <2>2 DEF Unmounted, Nobody
  <2> QED BY <1>0, <2>1, <2>2 DEF Nobody
<1>3. ASSUME NEW j \in 1 .. Len(asks), asks'[j].state = "waits"
      PROVE  modal'.abort = j /\ (modal'.mounted = j \/ j \in ousted')
  <2>1. j # i /\ asks[j].state = "waits"
    BY <1>1, <1>3
  <2>2. modal.abort = j /\ (modal.mounted = j \/ j \in ousted) /\ j # Nobody
    BY <2>1, <1>0 DEF ModalsInv, WaitsInStep, Nobody
  <2>3. modal' = modal \/ (modal'.abort = j /\ j \in ousted')
    BY <2>1, <2>2 DEF Unmounted
  <2> QED BY <2>2, <2>3
<1>4. \A j \in 1 .. Len(asks') : WaitsInStep(j)'
  BY <1>1, <1>3 DEF WaitsInStep
<1>5. (\A j \in 1 .. Len(asks) : WaitsInStep(j))'
  BY <1>4
<1> QED BY <1>0, <1>1, <1>2, <1>5 DEF ModalsInv

LEMMA ShowStep == ASSUME ModalsAssumption, ModalsInv, NEW kind \in Kinds, ShowModal(kind) PROVE ModalsInv'
<1>0. /\ asks \in Seq(AskType) /\ Len(asks) \in Nat /\ Len(asks) < MaxShows /\ MaxShows \in Nat
      /\ ousted' = ousted /\ ousted \subseteq 1 .. Len(asks)
      /\ asks' = Append(AbortedAsks, Ask(kind))
      /\ modal' = [abort |-> Len(asks) + 1, mounted |-> Len(asks) + 1, overlay |-> TRUE]
  BY DEF ModalsInv, ShowModal, ModalsAssumption
<1>1. Ask(kind) \in AskType
  BY DEF Ask, AskType
<1>2. /\ asks' \in Seq(AskType) /\ Len(asks') = Len(asks) + 1
      /\ \A j \in 1 .. Len(asks) : asks'[j] = AbortedAsks[j]
  BY <1>0, <1>1, AbortedLeaves
<1>3. ASSUME NEW j \in 1 .. Len(asks'), asks'[j].state = "waits"
      PROVE  modal'.abort = j /\ (modal'.mounted = j \/ j \in ousted')
  <2>1. CASE j = Len(asks) + 1
    BY <1>0, <2>1
  <2>2. CASE j \in 1 .. Len(asks)
    <3>1. asks[j].state = "waits" /\ modal.abort # j
      BY <1>2, <1>3, <2>2, AbortedLeaves
    <3> QED BY <2>2, <3>1 DEF ModalsInv, WaitsInStep
  <2> QED BY <1>0, <1>2, <2>1, <2>2
<1>4. \A j \in 1 .. Len(asks') : WaitsInStep(j)'
  BY <1>3 DEF WaitsInStep
<1>5. (\A j \in 1 .. Len(asks) : WaitsInStep(j))'
  BY <1>4
<1>6. /\ modal' \in [abort : 0 .. Len(asks'), mounted : 0 .. Len(asks'), overlay : BOOLEAN]
      /\ modal'.mounted # Nobody => modal'.mounted = modal'.abort
      /\ modal'.overlay <=> modal'.mounted # Nobody
  BY <1>0, <1>2 DEF Nobody
<1>7. ousted' \subseteq 1 .. Len(asks') /\ Len(asks') <= MaxShows
  BY <1>0, <1>2
<1> QED BY <1>2, <1>5, <1>6, <1>7 DEF ModalsInv

LEMMA ShowNothingStep == ASSUME ModalsInv, ShowNothing PROVE ModalsInv'
<1>0. /\ asks \in Seq(AskType) /\ Len(asks) \in Nat /\ Len(asks) <= MaxShows
      /\ ousted' = ousted /\ asks' = AbortedAsks /\ modal' = Unmounted(Nobody)
  BY DEF ModalsInv, ShowNothing
<1>1. asks' \in Seq(AskType) /\ Len(asks') = Len(asks)
  BY <1>0, AbortedLeaves
<1>2. \A j \in 1 .. Len(asks) : asks'[j].state # "waits"
  BY <1>0, AbortedLeaves DEF ModalsInv, WaitsInStep
<1>3. \A j \in 1 .. Len(asks') : WaitsInStep(j)'
  BY <1>1, <1>2 DEF WaitsInStep
<1>4. (\A j \in 1 .. Len(asks) : WaitsInStep(j))'
  BY <1>3
<1>5. /\ modal' \in [abort : 0 .. Len(asks'), mounted : 0 .. Len(asks'), overlay : BOOLEAN]
      /\ modal'.mounted = Nobody /\ ~modal'.overlay
  BY <1>0, <1>1 DEF Unmounted, Nobody
<1> QED BY <1>0, <1>1, <1>4, <1>5 DEF ModalsInv

LEMMA ModalsStep == ASSUME ModalsAssumption, ModalsInv, [ModalsNext]_modalVars PROVE ModalsInv'
<1>0. /\ asks \in Seq(AskType) /\ Len(asks) \in Nat /\ DOMAIN asks = 1 .. Len(asks)
      /\ modal \in [abort : 0 .. Len(asks), mounted : 0 .. Len(asks), overlay : BOOLEAN]
      /\ ousted \subseteq 1 .. Len(asks)
      /\ \A i \in 1 .. Len(asks) : WaitsInStep(i)
      /\ modal.mounted # Nobody => modal.mounted = modal.abort
  BY DEF ModalsInv
<1>1. CASE UNCHANGED modalVars
  BY <1>1 DEF modalVars, ModalsInv, WaitsInStep
<1>2. ASSUME NEW i \in 1 .. Len(asks), Finish(i) PROVE ModalsInv'
  <2>1. /\ asks' = [asks EXCEPT ![i].state = "through"]
        /\ modal' = Unmounted(IF modal.abort = i THEN Nobody ELSE modal.abort)
        /\ ousted' = ousted \cup ({modal.mounted} \ {i, Nobody})
    BY <1>2 DEF Finish
  <2>2. ousted' \subseteq 1 .. Len(asks) /\ ousted \subseteq ousted'
    BY <1>0, <2>1 DEF Nobody
  <2>3. modal.mounted = Nobody \/ modal.mounted = i \/ modal.mounted \in ousted'
    BY <2>1
  <2>4. CASE modal.abort = i
    <3>1. modal' = Unmounted(Nobody)
      BY <2>1, <2>4
    <3> QED BY <2>1, <2>2, <2>4, <3>1, AnswerStep
  <2>5. CASE modal.abort # i
    BY <2>1, <2>2, <2>3, <2>5, AnswerStep
  <2> QED BY <2>4, <2>5
<1>3. ASSUME NEW i \in 1 .. Len(asks), Press(i) \/ CalledOff(i) PROVE ModalsInv'
  <2>1. asks' = [asks EXCEPT ![i].state = "answered"] /\ modal' = modal /\ ousted' = ousted
    BY <1>3 DEF Press, CalledOff, Answer
  <2> QED BY <1>0, <2>1, AnswerStep
<1>4. ASSUME NEW i \in 1 .. Len(asks), StreamConnected(i) PROVE ModalsInv'
  <2>1. /\ asks' = [asks EXCEPT ![i].state = "answered"] /\ asks[i].state = "waits"
        /\ modal' = Unmounted(Nobody) /\ ousted' = ousted
    BY <1>4 DEF StreamConnected
  <2>2. modal.abort = i
    BY <1>0, <2>1 DEF WaitsInStep
  <2> QED BY <1>0, <2>1, <2>2, AnswerStep
<1> QED BY <1>0, <1>1, <1>2, <1>3, <1>4, ShowStep, ShowNothingStep DEF ModalsNext

-----------------------------------------------------------------------------
(* The start page *)

TabViews == Views \cup {Blank}
TabType == [entries : Seq(TabViews), at : Nat, saved : TabViews]
TabOK(t) == t \in TabType /\ t.at \in 1 .. Len(t.entries)
PageType == [view : Views, games : StartHosts \cup {NoGames}, listed : SUBSET StartHosts, launches : Nat]
RunType == [step : HistorySteps, host : StartHosts \cup {NoGames}]
PageHistoryType == [off : BOOLEAN, raced : BOOLEAN]

\* The fetches that wait for the games of the launch.
WaitingFetches(r) == {f \in 1 .. PageFetches : r[f].step = "apps"}
\* A launch is carried out by one of them, and by more than one only if they were
\* waiting together.
LaunchesCounted(launches, r, raced) ==
  /\ launches + Cardinality(WaitingFetches(r)) <= PageFetches
  /\ launches + Cardinality(WaitingFetches(r)) > 1 => raced

ShownInStep(view, t, off) ==
  /\ TabOK(t) /\ t.saved = view
  /\ off \/ t.entries[t.at] = view

StartInv ==
  /\ page \in PageType /\ pageHistory \in PageHistoryType
  /\ running \in [1 .. PageFetches -> RunType]
  /\ \A f \in 1 .. PageFetches : running[f].step = "apps" => running[f].host \in StartHosts
  /\ ShownInStep(page.view, tab, pageHistory.off)
  /\ LaunchesCounted(page.launches, running, pageHistory.raced)

LEMMA WaitingFinite ==
  ASSUME StartPageAssumption, NEW r
  PROVE  /\ IsFiniteSet(WaitingFetches(r)) /\ Cardinality(WaitingFetches(r)) \in Nat
         /\ WaitingFetches(r) \subseteq 1 .. PageFetches /\ Cardinality(WaitingFetches(r)) <= PageFetches
<1>1. IsFiniteSet(1 .. PageFetches) /\ Cardinality(1 .. PageFetches) = PageFetches
  BY FS_Interval DEF StartPageAssumption
<1> QED BY <1>1, FS_Subset, FS_CardinalityType DEF WaitingFetches

LEMMA StartShows ==
  ASSUME StartPageAssumption, StartInv PROVE StartTypeOK /\ PageInStep
<1>1. /\ page.launches \in Nat /\ Cardinality(WaitingFetches(running)) \in Nat /\ PageFetches \in Nat
      /\ page.view \in Views /\ page.games \in StartHosts \cup {NoGames} /\ page.listed \in SUBSET StartHosts
      /\ page = [view |-> page.view, games |-> page.games, listed |-> page.listed, launches |-> page.launches]
  BY WaitingFinite DEF StartInv, PageType, StartPageAssumption
<1>2. page.launches \in 0 .. PageFetches /\ (page.launches > 1 => pageHistory.raced)
  BY <1>1 DEF StartInv, LaunchesCounted
<1>3. page \in [view : Views, games : StartHosts \cup {NoGames}, listed : SUBSET StartHosts, launches : 0..PageFetches]
  BY <1>1, <1>2
<1>4. /\ tab.entries \in Seq(TabViews) /\ tab.at \in 1 .. Len(tab.entries) /\ tab.saved = page.view
      /\ (pageHistory.off \/ tab.entries[tab.at] = page.view)
  BY DEF StartInv, ShownInStep, TabOK, TabType
<1>5. DOMAIN tab.entries = 1 .. Len(tab.entries) /\ \A i \in DOMAIN tab.entries : tab.entries[i] \in TabViews
  BY <1>4
<1> QED BY <1>1, <1>2, <1>3, <1>4, <1>5 DEF StartInv, StartTypeOK, PageInStep, RunType, PageHistoryType, TabViews

LEMMA ViewParts ==
  ASSUME NEW v \in Views
  PROVE  /\ v # Blank /\ v \in TabViews /\ v[2] \in StartHosts \cup {NoGames}
         /\ v[1] = "games" => v[2] \in StartHosts
BY DEF Views, Blank, HostsView, SettingsView, GamesView, View, TabViews

LEMMA SomeViews ==
  /\ HostsView \in Views /\ SettingsView \in Views /\ Blank \in TabViews
  /\ \A h \in StartHosts : GamesView(h) \in Views /\ GamesView(h)[2] = h /\ GamesView(h)[1] = "games"
BY DEF Views, Blank, HostsView, SettingsView, GamesView, View, TabViews

\* Setting the state of the tab saves the view, and a pushed entry is the view.
LEMMA AppStateSet ==
  ASSUME NEW t, TabOK(t), NEW view \in Views, NEW push \in BOOLEAN
  PROVE  LET u == SetAppState(t, view, push) IN
         /\ TabOK(u) /\ u.saved = view
         /\ push => u.entries[u.at] = view
         /\ ~push => u.entries = t.entries /\ u.at = t.at
<1> DEFINE u == SetAppState(t, view, push)
           e == Append(SubSeq(t.entries, 1, t.at), view)
<1>1. t.entries \in Seq(TabViews) /\ t.at \in Nat /\ t.at \in 1 .. Len(t.entries) /\ view \in TabViews
  BY ViewParts DEF TabOK, TabType
<1>2. e \in Seq(TabViews) /\ Len(e) = t.at + 1 /\ e[t.at + 1] = view
  BY <1>1
<1> HIDE DEF e
<1>3. CASE push
  <2>1. u = [entries |-> e, at |-> t.at + 1, saved |-> view]
    BY <1>3 DEF SetAppState, e
  <2>2. u \in TabType /\ u.entries = e /\ u.at = t.at + 1 /\ u.saved = view
    BY <1>1, <1>2, <2>1 DEF TabType
  <2>3. u.at \in 1 .. Len(u.entries) /\ u.entries[u.at] = view
    BY <1>1, <1>2, <2>2
  <2> QED BY <1>3, <2>2, <2>3 DEF TabOK
<1>4. CASE ~push
  <2>1. u = [entries |-> t.entries, at |-> t.at, saved |-> view]
    BY <1>4 DEF SetAppState
  <2> QED BY <1>1, <1>4, <2>1 DEF TabOK, TabType
<1> QED BY <1>3, <1>4

\* The page comes up with what was saved, on an entry of its own.
LEMMA StartedTab ==
  ASSUME NEW t, TabOK(t)
  PROVE  LET first == SetAppState(t, HostsView, TRUE)
             last == SetAppState(first, t.saved, TRUE)
         IN  /\ ShownInStep(HostsView, first, FALSE) /\ first.saved = HostsView
             /\ t.saved # Blank => ShownInStep(t.saved, last, FALSE) /\ last.saved = t.saved
<1>1. t.saved \in TabViews /\ HostsView \in Views
  BY SomeViews DEF TabOK, TabType
<1>2. t.saved # Blank => t.saved \in Views
  BY <1>1 DEF TabViews
<1> QED BY <1>1, <1>2, AppStateSet DEF ShownInStep

LEMMA NoneWaits ==
  ASSUME StartPageAssumption, NEW r, r = [f \in 1..PageFetches |-> IF f = 1 THEN Started ELSE Idle]
  PROVE  /\ r \in [1 .. PageFetches -> RunType] /\ WaitingFetches(r) = {} /\ Cardinality(WaitingFetches(r)) = 0
         /\ \A f \in 1 .. PageFetches : r[f].step # "apps"
<1>1. Started \in RunType /\ Idle \in RunType /\ Started.step # "apps" /\ Idle.step # "apps"
  BY DEF Started, Idle, RunType, HistorySteps
<1>2. WaitingFetches(r) = {}
  BY <1>1 DEF WaitingFetches
<1> QED BY <1>1, <1>2, FS_EmptySet

LEMMA StartInitially == StartPageAssumption /\ StartInit => StartInv
<1> SUFFICES ASSUME StartPageAssumption, StartInit PROVE StartInv
  OBVIOUS
<1> DEFINE t == [entries |-> <<Blank>>, at |-> 1, saved |-> Blank]
           first == SetAppState(t, HostsView, TRUE)
<1>1. TabOK(t) /\ t.saved = Blank
  <2>1. <<Blank>> \in Seq(TabViews) /\ Len(<<Blank>>) = 1
    BY SomeViews
  <2> QED BY <2>1, SomeViews DEF TabOK, TabType
<1>2. /\ page = [view |-> first.saved, games |-> first.saved[2], listed |-> {}, launches |-> 0]
      /\ tab = first
  BY <1>1 DEF StartInit, Start
<1>3. ShownInStep(HostsView, first, FALSE) /\ first.saved = HostsView
  BY <1>1, StartedTab
<1>4. page \in PageType /\ page.launches = 0 /\ page.view = HostsView
  BY <1>2, <1>3, SomeViews, ViewParts DEF PageType
<1>5. pageHistory = [off |-> FALSE, raced |-> FALSE]
  BY DEF StartInit
<1>6. running = [f \in 1..PageFetches |-> IF f = 1 THEN Started ELSE Idle]
  BY DEF StartInit
<1>7. /\ running \in [1 .. PageFetches -> RunType] /\ Cardinality(WaitingFetches(running)) = 0
      /\ \A f \in 1 .. PageFetches : running[f].step # "apps"
  BY <1>6, NoneWaits
<1>8. pageHistory \in PageHistoryType /\ ~pageHistory.off
  BY <1>5 DEF PageHistoryType
<1>9. ShownInStep(page.view, tab, pageHistory.off)
  BY <1>2, <1>3, <1>4, <1>8 DEF ShownInStep
<1> HIDE DEF t, first
<1> QED BY <1>4, <1>7, <1>8, <1>9 DEF StartInv, LaunchesCounted, StartPageAssumption

\* A step that shows a view: the page and the tab together, or the page alone.
LEMMA DisplayStep ==
  ASSUME StartInv, NEW view \in Views, NEW t, TabOK(t), t.saved = tab.saved, NEW push \in BOOLEAN,
         NEW listed, listed \in SUBSET StartHosts,
         page' = [page EXCEPT !.view = view, !.games = IF view[1] = "games" THEN view[2] ELSE @,
                              !.listed = listed],
         tab' = SetAppState(t, view, push)
  PROVE  /\ page' \in PageType /\ page'.launches = page.launches /\ page'.view = view
         /\ page'.listed = listed
         /\ TabOK(tab') /\ tab'.saved = view
         /\ (push \/ t.entries[t.at] = view) => tab'.entries[tab'.at] = view
<1>1. page \in PageType
  BY DEF StartInv
<1>2. view[1] = "games" => view[2] \in StartHosts \cup {NoGames}
  BY ViewParts
<1>3. page' \in PageType /\ page'.launches = page.launches /\ page'.view = view /\ page'.listed = listed
  BY <1>1, <1>2 DEF PageType
<1> QED BY <1>3, AppStateSet

\* The counting of the launches does not look at the other fetches' steps.
LEMMA WaitingFalls ==
  ASSUME StartPageAssumption, NEW r, NEW s, NEW launches \in Nat, NEW raced,
         LaunchesCounted(launches, r, raced), WaitingFetches(s) \subseteq WaitingFetches(r)
  PROVE  LaunchesCounted(launches, s, raced)
<1>1. Cardinality(WaitingFetches(s)) <= Cardinality(WaitingFetches(r))
  BY FS_Subset, WaitingFinite
<1> QED BY <1>1, WaitingFinite DEF LaunchesCounted, StartPageAssumption

\* A fetch goes on to a step that does not wait for games.
LEMMA FetchStep ==
  ASSUME StartPageAssumption, StartInv, NEW f \in 1 .. PageFetches, NEW s \in RunType, s.step # "apps",
         running' = [running EXCEPT ![f] = s]
  PROVE  /\ running' \in [1 .. PageFetches -> RunType]
         /\ \A g \in 1 .. PageFetches : running'[g].step = "apps" => running'[g].host \in StartHosts
         /\ WaitingFetches(running') = WaitingFetches(running) \ {f}
         /\ LaunchesCounted(page.launches, running', pageHistory.raced)
<1>1. /\ running \in [1 .. PageFetches -> RunType] /\ page.launches \in Nat
      /\ LaunchesCounted(page.launches, running, pageHistory.raced)
      /\ \A g \in 1 .. PageFetches : running[g].step = "apps" => running[g].host \in StartHosts
  BY DEF StartInv, PageType
<1>2. /\ running' \in [1 .. PageFetches -> RunType] /\ running'[f] = s
      /\ \A g \in 1 .. PageFetches : g # f => running'[g] = running[g]
  BY <1>1
<1>3. WaitingFetches(running') = WaitingFetches(running) \ {f}
  BY <1>2 DEF WaitingFetches
<1>4. LaunchesCounted(page.launches, running', pageHistory.raced)
  BY <1>1, <1>3, WaitingFalls
<1> QED BY <1>1, <1>2, <1>3, <1>4

LEMMA OpenStep == ASSUME StartInv, OpenHost \/ OpenSettings PROVE StartInv'
<1>1. PICK view \in Views : /\ ~Stays(view) /\ SetCurrentDisplay(view, TRUE)
                             /\ pageHistory' = [pageHistory EXCEPT !.off = FALSE] /\ UNCHANGED running
  <2>1. CASE OpenSettings
    BY <2>1, SomeViews DEF OpenSettings, Stays
  <2>2. CASE OpenHost
    <3>1. PICK h \in page.listed :
            /\ page.view = HostsView /\ SetCurrentDisplay(GamesView(h), TRUE)
            /\ pageHistory' = [pageHistory EXCEPT !.off = FALSE] /\ UNCHANGED running
      BY <2>2 DEF OpenHost
    <3>2. h \in StartHosts
      BY DEF StartInv, PageType
    <3>3. GamesView(h) # HostsView
      BY DEF GamesView, HostsView, View
    <3> QED BY <3>1, <3>2, <3>3, SomeViews DEF Stays
  <2> QED BY <2>1, <2>2
<1>2. /\ page \in PageType /\ TabOK(tab) /\ page.listed \in SUBSET StartHosts /\ pageHistory \in PageHistoryType
  BY DEF StartInv, PageType, ShownInStep
<1>3. /\ page' = [page EXCEPT !.view = view, !.games = IF view[1] = "games" THEN view[2] ELSE @, !.listed = page.listed]
      /\ tab' = SetAppState(tab, view, TRUE)
  BY <1>1, <1>2 DEF SetCurrentDisplay, PageType
<1>4. /\ page' \in PageType /\ page'.launches = page.launches /\ page'.view = view
      /\ TabOK(tab') /\ tab'.saved = view /\ tab'.entries[tab'.at] = view
  BY <1>2, <1>3, DisplayStep
<1>5. pageHistory' \in PageHistoryType /\ pageHistory'.raced = pageHistory.raced
  BY <1>1, <1>2 DEF PageHistoryType
<1> QED BY <1>1, <1>4, <1>5 DEF StartInv, ShownInStep, LaunchesCounted, WaitingFetches

LEMMA PopStep == ASSUME StartInv, PopState PROVE StartInv'
<1>1. PICK i \in {tab.at - 1, tab.at + 1} \cap DOMAIN tab.entries :
        LET view == tab.entries[i]
            here == [tab EXCEPT !.at = i]
        IN  /\ IF view = Blank \/ Stays(view)
               THEN page' = page /\ tab' = here
               ELSE /\ page' = [page EXCEPT !.view = view,
                                            !.games = IF view[1] = "games" THEN view[2] ELSE @]
                    /\ tab' = SetAppState(here, view, FALSE)
            /\ pageHistory' = [pageHistory EXCEPT !.off = view = Blank]
            /\ UNCHANGED running
  BY DEF PopState
<1> DEFINE view == tab.entries[i]
           here == [tab EXCEPT !.at = i]
<1>2. /\ page \in PageType /\ tab \in TabType /\ tab.saved = page.view
      /\ page.listed \in SUBSET StartHosts /\ pageHistory \in PageHistoryType
  BY DEF StartInv, PageType, ShownInStep, TabOK
<1>3. i \in 1 .. Len(tab.entries) /\ i \in Nat /\ view \in TabViews
  BY <1>2 DEF TabType
<1>4. /\ TabOK(here) /\ here.saved = tab.saved /\ here.entries[here.at] = view
  BY <1>2, <1>3 DEF TabType, TabOK
<1>5. /\ pageHistory' \in PageHistoryType /\ pageHistory'.raced = pageHistory.raced
      /\ pageHistory'.off = (view = Blank) /\ running' = running
  BY <1>1, <1>2 DEF PageHistoryType
<1>6. CASE view = Blank \/ Stays(view)
  <2>1. page' = page /\ tab' = here
    BY <1>1, <1>6
  <2>2. ShownInStep(page.view, here, view = Blank)
    BY <1>2, <1>4, <1>6 DEF ShownInStep, Stays
  <2>3. ShownInStep(page.view, tab, pageHistory.off)'
    BY <1>5, <2>1, <2>2 DEF ShownInStep
  <2> HIDE DEF view, here
  <2> QED BY <1>5, <2>1, <2>3 DEF StartInv, LaunchesCounted, WaitingFetches
<1>7. CASE ~(view = Blank \/ Stays(view))
  <2>0. view \in Views
    BY <1>3, <1>7 DEF TabViews
  <2>1. /\ page' = [page EXCEPT !.view = view, !.games = IF view[1] = "games" THEN view[2] ELSE @, !.listed = page.listed]
        /\ tab' = SetAppState(here, view, FALSE)
    BY <1>1, <1>2, <1>7 DEF PageType
  <2> HIDE DEF view, here
  <2>2. /\ page' \in PageType /\ page'.launches = page.launches /\ page'.view = view
        /\ TabOK(tab') /\ tab'.saved = view /\ tab'.entries[tab'.at] = view
    BY <1>2, <1>4, <2>0, <2>1, DisplayStep
  <2> QED BY <1>5, <2>2 DEF StartInv, ShownInStep, LaunchesCounted, WaitingFetches
<1> QED BY <1>6, <1>7

LEMMA ListsStep ==
  ASSUME StartPageAssumption, StartInv, NEW f \in 1 .. PageFetches, ListsArrive(f) PROVE StartInv'
<1> DEFINE gone(listed) == page.view[1] = "games" /\ page.games \notin listed
<1>1. PICK listed \in SUBSET StartHosts :
        /\ page' = [page EXCEPT !.listed = listed, !.view = IF gone(listed) THEN HostsView ELSE @]
        /\ tab' = IF gone(listed) THEN SetAppState(tab, HostsView, TRUE) ELSE tab
        /\ pageHistory' = [pageHistory EXCEPT !.off = @ /\ ~gone(listed)]
  BY DEF ListsArrive
<1>2. /\ page \in PageType /\ running \in [1 .. PageFetches -> RunType] /\ pageHistory \in PageHistoryType
      /\ ShownInStep(page.view, tab, pageHistory.off)
  BY DEF StartInv
<1>3. /\ running' \in [1 .. PageFetches -> RunType]
      /\ \A g \in 1 .. PageFetches : running'[g].step = "apps" => running'[g].host \in StartHosts
      /\ LaunchesCounted(page.launches, running', pageHistory.raced)
  <2> DEFINE s == [running[f] EXCEPT !.step = "rest"]
  <2>1. s \in RunType /\ s.step # "apps"
    BY <1>2 DEF RunType, HistorySteps
  <2>2. running' = [running EXCEPT ![f] = s]
    BY DEF ListsArrive
  <2> HIDE DEF s
  <2> QED BY <2>1, <2>2, FetchStep
<1>4. /\ page' \in PageType /\ page'.launches = page.launches
      /\ page'.view = IF gone(listed) THEN HostsView ELSE page.view
  BY <1>1, <1>2, SomeViews DEF PageType
<1>5. /\ pageHistory' \in PageHistoryType /\ pageHistory'.raced = pageHistory.raced
      /\ pageHistory'.off = (pageHistory.off /\ ~gone(listed))
  BY <1>1, <1>2 DEF PageHistoryType
<1>6. ShownInStep(page'.view, tab', pageHistory'.off)
  <2>1. CASE gone(listed)
    <3>1. tab' = SetAppState(tab, HostsView, TRUE) /\ page'.view = HostsView /\ TabOK(tab)
      BY <1>1, <1>2, <1>4, <2>1 DEF ShownInStep
    <3>2. TabOK(tab') /\ tab'.saved = HostsView /\ tab'.entries[tab'.at] = HostsView
      BY <3>1, SomeViews, AppStateSet
    <3> QED BY <3>1, <3>2 DEF ShownInStep
  <2>2. CASE ~gone(listed)
    <3>1. tab' = tab /\ page'.view = page.view /\ (pageHistory'.off <=> pageHistory.off)
      BY <1>1, <1>4, <1>5, <2>2
    <3> QED BY <1>2, <3>1 DEF ShownInStep
  <2> QED BY <2>1, <2>2
<1> QED BY <1>3, <1>4, <1>5, <1>6 DEF StartInv, LaunchesCounted

\* The only fetch that begins to wait is one that finds the launch open, and two
\* that wait together are on record.
LEMMA RefreshedStep ==
  ASSUME StartPageAssumption, StartInv, NEW f \in 1 .. PageFetches, PageRefreshed(f) PROVE StartInv'
<1> DEFINE launch == page.launches = 0 /\ Cardinality(page.listed) = 1
           wait == [step |-> "apps", host |-> CHOOSE h \in page.listed : TRUE]
           waits == {g \in DOMAIN running : running[g].step = "apps"}
<1>1. /\ running[f].step = "rest"
      /\ running' = IF launch THEN [running EXCEPT ![f] = wait] ELSE [running EXCEPT ![f] = Idle]
      /\ pageHistory' = [pageHistory EXCEPT !.raced = @ \/ (launch /\ waits # {})]
      /\ page' = page /\ tab' = tab
  BY DEF PageRefreshed, Ended
<1>2. /\ page \in PageType /\ running \in [1 .. PageFetches -> RunType] /\ pageHistory \in PageHistoryType
      /\ page.listed \in SUBSET StartHosts /\ page.launches \in Nat
      /\ \A g \in 1 .. PageFetches : running[g].step = "apps" => running[g].host \in StartHosts
  BY DEF StartInv, PageType
<1>3. CASE ~launch
  <2>1. Idle \in RunType /\ Idle.step # "apps" /\ running' = [running EXCEPT ![f] = Idle]
    BY <1>1, <1>3 DEF Idle, RunType, HistorySteps
  <2>2. pageHistory' = pageHistory
    BY <1>1, <1>2, <1>3 DEF PageHistoryType
  <2> QED BY <1>1, <2>1, <2>2, FetchStep DEF StartInv, LaunchesCounted
<1>4. CASE launch
  <2>1. page.listed # {}
    BY <1>4, FS_EmptySet
  <2>2. wait \in RunType /\ wait.step = "apps" /\ wait.host \in StartHosts
    <3>1. (CHOOSE h \in page.listed : TRUE) \in StartHosts
      BY <1>2, <2>1
    <3> QED BY <3>1 DEF RunType, HistorySteps
  <2>3. running' = [running EXCEPT ![f] = wait]
    BY <1>1, <1>4
  <2> HIDE DEF wait
  <2>4. /\ running' \in [1 .. PageFetches -> RunType] /\ running'[f] = wait
        /\ \A g \in 1 .. PageFetches : g # f => running'[g] = running[g]
    BY <1>2, <2>2, <2>3
  <2>5. \A g \in 1 .. PageFetches : running'[g].step = "apps" => running'[g].host \in StartHosts
    BY <1>2, <2>2, <2>4
  <2>6. WaitingFetches(running') = WaitingFetches(running) \cup {f} /\ f \notin WaitingFetches(running)
    BY <1>1, <2>2, <2>4 DEF WaitingFetches
  <2>7. Cardinality(WaitingFetches(running')) = Cardinality(WaitingFetches(running)) + 1
    BY <2>6, WaitingFinite, FS_AddElement
  <2>8. /\ pageHistory' \in PageHistoryType /\ pageHistory'.off = pageHistory.off
        /\ waits # {} => pageHistory'.raced
    BY <1>1, <1>2, <1>4 DEF PageHistoryType
  <2>9. waits = WaitingFetches(running)
    BY <1>2 DEF WaitingFetches
  <2>10. LaunchesCounted(page.launches, running', pageHistory'.raced)
    <3>1. Cardinality(WaitingFetches(running')) <= PageFetches
      BY WaitingFinite
    <3>2. Cardinality(WaitingFetches(running)) > 0 => waits # {}
      BY <2>9, FS_EmptySet, WaitingFinite
    <3>3. page.launches = 0 /\ Cardinality(WaitingFetches(running)) \in Nat
      BY <1>4, WaitingFinite
    <3> HIDE DEF waits
    <3> QED BY <2>7, <2>8, <3>1, <3>2, <3>3 DEF LaunchesCounted, StartPageAssumption
  <2> QED BY <1>1, <2>4, <2>5, <2>8, <2>10 DEF StartInv
<1> QED BY <1>3, <1>4

LEMMA AppsStep ==
  ASSUME StartPageAssumption, StartInv, NEW f \in 1 .. PageFetches, AppsArrive(f) PROVE StartInv'
<1> DEFINE view == GamesView(running[f].host)
<1>1. /\ running[f].step = "apps"
      /\ page' = [page EXCEPT !.launches = @ + 1, !.view = view, !.games = view[2]]
      /\ tab' = IF Stays(view) THEN tab ELSE SetAppState(tab, view, FALSE)
      /\ running' = [running EXCEPT ![f] = Idle]
      /\ pageHistory' = [pageHistory EXCEPT !.off = @ \/ ~Stays(view)]
  BY DEF AppsArrive, Ended
<1>2. /\ page \in PageType /\ running \in [1 .. PageFetches -> RunType] /\ pageHistory \in PageHistoryType
      /\ running[f].host \in StartHosts /\ page.launches \in Nat
      /\ ShownInStep(page.view, tab, pageHistory.off)
      /\ LaunchesCounted(page.launches, running, pageHistory.raced)
  BY <1>1 DEF StartInv, PageType
<1>3. view \in Views /\ view[2] \in StartHosts
  BY <1>2, SomeViews
<1> HIDE DEF view
<1>4. page' \in PageType /\ page'.launches = page.launches + 1 /\ page'.view = view
  <2>1. view[2] \in StartHosts \cup {NoGames} /\ page.launches + 1 \in Nat
    BY <1>2, <1>3
  <2> DEFINE games == view[2]
             count == page.launches + 1
  <2>2. page' = [page EXCEPT !.launches = count, !.view = view, !.games = games]
    BY <1>1
  <2>3. games \in StartHosts \cup {NoGames} /\ count \in Nat
    BY <2>1
  <2> HIDE DEF games, count
  <2>4. page' \in PageType /\ page'.launches = count /\ page'.view = view
    BY <1>2, <1>3, <2>2, <2>3 DEF PageType
  <2> QED BY <2>4 DEF count
<1>5. /\ running' \in [1 .. PageFetches -> RunType]
      /\ \A g \in 1 .. PageFetches : running'[g].step = "apps" => running'[g].host \in StartHosts
      /\ WaitingFetches(running') = WaitingFetches(running) \ {f}
  BY <1>1, FetchStep DEF Idle, RunType, HistorySteps
<1>6. f \in WaitingFetches(running)
  BY <1>1 DEF WaitingFetches
<1>7. Cardinality(WaitingFetches(running')) = Cardinality(WaitingFetches(running)) - 1
  BY <1>5, <1>6, WaitingFinite, FS_RemoveElement
<1>8. /\ pageHistory' \in PageHistoryType /\ pageHistory'.raced = pageHistory.raced
      /\ pageHistory'.off = (pageHistory.off \/ ~Stays(view))
  BY <1>1, <1>2 DEF PageHistoryType
<1>9. LaunchesCounted(page'.launches, running', pageHistory'.raced)
  BY <1>2, <1>4, <1>7, <1>8, WaitingFinite DEF LaunchesCounted
<1>10. ShownInStep(page'.view, tab', pageHistory'.off)
  <2>1. CASE Stays(view)
    BY <1>1, <1>2, <1>4, <1>8, <2>1 DEF ShownInStep, Stays
  <2>2. CASE ~Stays(view)
    BY <1>1, <1>2, <1>3, <1>4, <1>8, <2>2, AppStateSet DEF ShownInStep
  <2> QED BY <2>1, <2>2
<1> QED BY <1>4, <1>5, <1>8, <1>9, <1>10 DEF StartInv

LEMMA LoadStep == ASSUME StartPageAssumption, StartInv, LoadAgain PROVE StartInv'
<1> DEFINE last == SetAppState(tab, HostsView, TRUE)
           end == IF tab.saved = HostsView THEN last ELSE SetAppState(last, tab.saved, TRUE)
<1>1. /\ page' = [view |-> end.saved, games |-> end.saved[2], listed |-> {},
                    launches |-> IF page.launches = 0 THEN 0 ELSE 1]
      /\ tab' = end
      /\ running' = [f \in 1..PageFetches |-> IF f = 1 THEN Started ELSE Idle]
      /\ pageHistory' = [off |-> FALSE, raced |-> FALSE]
  BY DEF LoadAgain
<1>2. /\ TabOK(tab) /\ tab.saved = page.view /\ page.view \in Views /\ page.launches \in Nat
      /\ page.launches <= PageFetches
  <2>1. LaunchesCounted(page.launches, running, pageHistory.raced) /\ page.launches \in Nat
    BY DEF StartInv, PageType
  <2>2. page.launches <= PageFetches
    BY <2>1, WaitingFinite DEF LaunchesCounted, StartPageAssumption
  <2> QED BY <2>1, <2>2 DEF StartInv, PageType, ShownInStep
<1>3. tab.saved # Blank
  BY <1>2, ViewParts
<1>4. ShownInStep(tab.saved, end, FALSE) /\ end.saved = tab.saved
  BY <1>2, <1>3, StartedTab
<1> HIDE DEF end
<1>5. /\ page' \in PageType /\ page'.view = tab.saved
      /\ page'.launches = IF page.launches = 0 THEN 0 ELSE 1
  <2>1. tab.saved \in Views /\ tab.saved[2] \in StartHosts \cup {NoGames}
    BY <1>2, ViewParts
  <2>2. (IF page.launches = 0 THEN 0 ELSE 1) \in Nat
    OBVIOUS
  <2>3. page' = [view |-> tab.saved, games |-> tab.saved[2], listed |-> {},
                 launches |-> IF page.launches = 0 THEN 0 ELSE 1]
    BY <1>1, <1>4
  <2> HIDE DEF last
  <2> QED BY <2>1, <2>2, <2>3 DEF PageType
<1>6. /\ running' \in [1 .. PageFetches -> RunType] /\ Cardinality(WaitingFetches(running')) = 0
      /\ \A f \in 1 .. PageFetches : running'[f].step # "apps"
  BY <1>1, NoneWaits
<1>7. pageHistory' \in PageHistoryType /\ ~pageHistory'.off
  BY <1>1 DEF PageHistoryType
<1>8. LaunchesCounted(page'.launches, running', pageHistory'.raced)
  BY <1>2, <1>5, <1>6 DEF LaunchesCounted, StartPageAssumption
<1>9. ShownInStep(page'.view, tab', pageHistory'.off)
  BY <1>1, <1>4, <1>5, <1>7 DEF ShownInStep
<1> QED BY <1>5, <1>6, <1>7, <1>8, <1>9 DEF StartInv

LEMMA StartStep ==
  ASSUME StartPageAssumption, StartInv, [StartNext]_startVars PROVE StartInv'
<1>0. DOMAIN running = 1 .. PageFetches
  BY DEF StartInv
<1>1. CASE UNCHANGED startVars
  BY <1>1 DEF startVars, StartInv, ShownInStep, LaunchesCounted, WaitingFetches
<1>2. ASSUME NEW f \in 1 .. PageFetches, running[f] = Idle, running' = [running EXCEPT ![f] = Started],
             UNCHANGED <<page, tab, pageHistory>>
      PROVE  StartInv'
  <2>1. Started \in RunType /\ Started.step # "apps"
    BY DEF Started, RunType, HistorySteps
  <2> QED BY <1>2, <2>1, FetchStep DEF StartInv, ShownInStep, LaunchesCounted
<1>3. ASSUME NEW f \in 1 .. PageFetches, PageFetchFails(f) PROVE StartInv'
  <2>1. Idle \in RunType /\ Idle.step # "apps"
    BY DEF Idle, RunType, HistorySteps
  <2>2. running' = [running EXCEPT ![f] = Idle] /\ UNCHANGED <<page, tab, pageHistory>>
    BY <1>3 DEF PageFetchFails, Ended
  <2> QED BY <2>1, <2>2, FetchStep DEF StartInv, ShownInStep, LaunchesCounted
<1>4. CASE Reload
  BY <1>0, <1>2, <1>4 DEF Reload
<1> QED BY <1>0, <1>1, <1>3, <1>4, OpenStep, PopStep, ListsStep, RefreshedStep, AppsStep, LoadStep DEF StartNext

-----------------------------------------------------------------------------
(* The sidebar's handle *)

BarType == [mounted : BOOLEAN, extended : BOOLEAN, autoHidden : BOOLEAN,
            forceHidden : BOOLEAN, pinned : BOOLEAN, suppressed : BOOLEAN,
            locked : BOOLEAN, revealing : BOOLEAN, autoHide : BOOLEAN,
            hide : BOOLEAN, left : BOOLEAN]
BarFingerType == [window : HandleModes, handle : BOOLEAN, content : {"none", "still", "moved"}]
PlaceType == [edge : Edges, android : BOOLEAN, handles : BOOLEAN]

\* A handle in view that nothing keeps has the timer that is its own: the short one
\* over the page, the long one where another surface takes its place.
Leaves(b) ==
  /\ b.mounted /\ ~b.forceHidden /\ ~b.autoHidden /\ ~Kept(b) =>
       b.left \/ (IF b.suppressed THEN b.hide ELSE b.autoHide)
  /\ b.hide => b.suppressed
BarOK(b) == b \in BarType /\ Leaves(b)

BarInv == BarOK(bar) /\ finger \in BarFingerType /\ place \in PlaceType

LEMMA BarShows == BarInv => BarTypeOK /\ HandleLeaves
<1> SUFFICES ASSUME BarInv PROVE BarTypeOK /\ HandleLeaves
  OBVIOUS
<1>1. BarTypeOK
  BY DEF BarInv, BarOK, BarTypeOK, BarType, BarFingerType, PlaceType
<1>2. HandleLeaves
  BY DEF BarInv, BarOK, Leaves, HandleLeaves, Visible
<1> QED BY <1>1, <1>2

LEMMA BarInitially == BarInit => BarInv
<1> SUFFICES ASSUME BarInit PROVE BarInv
  OBVIOUS
<1>1. bar \in BarType /\ ~bar.mounted /\ ~bar.hide
  BY DEF BarInit, BarType
<1>2. finger \in BarFingerType /\ place \in PlaceType
  BY DEF BarInit, BarFingerType, PlaceType, HandleModes
<1> QED BY <1>1, <1>2 DEF BarInv, BarOK, Leaves

LEMMA AutoHiddenOK ==
  ASSUME NEW b \in BarType, NEW h \in BOOLEAN
  PROVE  /\ AutoHidden(b, h) \in BarType
         /\ AutoHidden(b, h).mounted = b.mounted /\ AutoHidden(b, h).extended = b.extended
         /\ AutoHidden(b, h).pinned = b.pinned /\ AutoHidden(b, h).locked = b.locked
         /\ AutoHidden(b, h).forceHidden = b.forceHidden /\ AutoHidden(b, h).suppressed = b.suppressed
         /\ AutoHidden(b, h).revealing = b.revealing /\ AutoHidden(b, h).autoHide = b.autoHide
         /\ AutoHidden(b, h).hide = b.hide /\ AutoHidden(b, h).left = b.left
         /\ AutoHidden(b, h).autoHidden = (h /\ ~b.extended)
BY DEF AutoHidden, BarType

LEMMA HideLaterOK ==
  ASSUME NEW b \in BarType
  PROVE  /\ HideLater(b) \in BarType
         /\ HideLater(b).mounted = b.mounted /\ HideLater(b).extended = b.extended
         /\ HideLater(b).pinned = b.pinned /\ HideLater(b).locked = b.locked
         /\ HideLater(b).forceHidden = b.forceHidden /\ HideLater(b).suppressed = b.suppressed
         /\ HideLater(b).autoHidden = b.autoHidden /\ HideLater(b).autoHide = b.autoHide
         /\ b.suppressed => HideLater(b).hide = ~Kept(b)
         /\ ~b.suppressed => HideLater(b).left = b.left /\ ~HideLater(b).hide
         /\ (Kept(HideLater(b)) <=> Kept(b))
BY DEF HideLater, BarType, Kept

LEMMA HiddenNowOK == ASSUME NEW b, BarOK(b) PROVE BarOK(HiddenNow(b))
<1>1. b \in BarType
  BY DEF BarOK
<1>2. HiddenNow(b) \in BarType /\ HiddenNow(b).forceHidden
      /\ HiddenNow(b).hide = b.hide /\ HiddenNow(b).suppressed = b.suppressed
  BY <1>1 DEF HiddenNow, BarType
<1> QED BY <1>2 DEF BarOK, Leaves

LEMMA BumpedOK == ASSUME NEW b, BarOK(b) PROVE BarOK(Bumped(b))
<1> DEFINE c == IF b.suppressed THEN HideLater(b) ELSE b
           e == AutoHidden(c, FALSE)
           d == [e EXCEPT !.autoHide = FALSE]
           f == [d EXCEPT !.autoHide = TRUE, !.left = FALSE]
<1>1. b \in BarType /\ Leaves(b)
  BY DEF BarOK
<1>2. /\ c \in BarType /\ c.suppressed = b.suppressed
      /\ b.suppressed /\ ~Kept(c) => c.hide
      /\ c.hide => c.suppressed
  BY <1>1, HideLaterOK DEF Leaves, Kept
<1> HIDE DEF c
<1>3. /\ e \in BarType /\ e.suppressed = b.suppressed /\ (Kept(e) <=> Kept(c)) /\ e.hide = c.hide
  BY <1>2, AutoHiddenOK DEF Kept
<1> HIDE DEF e
<1>4. /\ d \in BarType /\ d.suppressed = b.suppressed /\ (Kept(d) <=> Kept(e)) /\ d.hide = e.hide
  BY <1>3 DEF BarType, Kept
<1> HIDE DEF d
<1>5. /\ f \in BarType /\ f.suppressed = b.suppressed /\ f.autoHide /\ f.hide = e.hide /\ (Kept(f) <=> Kept(d))
  BY <1>4 DEF BarType, Kept
<1>6. Bumped(b) = IF ~b.suppressed /\ Suppressed(b) THEN b ELSE IF Kept(d) THEN d ELSE f
  BY DEF Bumped, c, d, e, AutoHideLater
<1>7. Kept(d) => BarOK(d)
  BY <1>2, <1>3, <1>4 DEF BarOK, Leaves
<1>8. BarOK(f)
  BY <1>2, <1>3, <1>4, <1>5 DEF BarOK, Leaves
<1> HIDE DEF f
<1> QED BY <1>6, <1>7, <1>8

LEMMA RevealedOK == ASSUME NEW b, BarOK(b) PROVE BarOK(Revealed(b))
BY BumpedOK DEF Revealed

\* What a sidebar becomes that is not hidden for another surface any more.
LEMMA SuppressedRevealedOK ==
  ASSUME NEW b, BarOK(b)
  PROVE  /\ BarOK(SuppressedRevealed(b))
         /\ SuppressedRevealed(b).mounted = b.mounted /\ SuppressedRevealed(b).suppressed = b.suppressed
<1> DEFINE a == [b EXCEPT !.forceHidden = FALSE, !.revealing = TRUE]
           c == AutoHidden(a, FALSE)
           d == HideLater(c)
           e == [d EXCEPT !.left = @ \/ ~b.suppressed]
<1>1. b \in BarType
  BY DEF BarOK
<1>2. a \in BarType /\ a.suppressed = b.suppressed /\ a.mounted = b.mounted
  BY <1>1 DEF BarType
<1> HIDE DEF a
<1>3. c \in BarType /\ c.suppressed = b.suppressed /\ c.mounted = b.mounted
  BY <1>2, AutoHiddenOK
<1> HIDE DEF c
<1>4. /\ d \in BarType /\ d.suppressed = b.suppressed /\ d.mounted = b.mounted
      /\ b.suppressed /\ ~Kept(d) => d.hide
      /\ d.hide => b.suppressed
  BY <1>3, HideLaterOK DEF BarType
<1> HIDE DEF d
<1>5. /\ e \in BarType /\ e.suppressed = b.suppressed /\ e.mounted = b.mounted
      /\ (Kept(e) <=> Kept(d)) /\ e.hide = d.hide /\ (~b.suppressed => e.left)
  BY <1>1, <1>4 DEF BarType, Kept
<1>6. SuppressedRevealed(b) = IF ~b.mounted THEN b ELSE e
  BY DEF SuppressedRevealed, a, c, d
<1>7. BarOK(e)
  BY <1>4, <1>5 DEF BarOK, Leaves
<1> HIDE DEF e
<1> QED BY <1>5, <1>6, <1>7

LEMMA PinnedOK ==
  ASSUME NEW b, BarOK(b) PROVE BarOK(Pinned(b))
<1> DEFINE a == [b EXCEPT !.pinned = TRUE, !.autoHide = FALSE]
           c == AutoHidden(a, FALSE)
           d == [c EXCEPT !.hide = FALSE, !.revealing = TRUE]
<1>1. b \in BarType /\ Leaves(b)
  BY DEF BarOK
<1>2. a \in BarType /\ a.suppressed = b.suppressed /\ a.pinned /\ a.hide = b.hide
  BY <1>1 DEF BarType
<1> HIDE DEF a
<1>3. c \in BarType /\ c.suppressed = b.suppressed /\ c.pinned /\ c.hide = b.hide
  BY <1>2, AutoHiddenOK
<1> HIDE DEF c
<1>4. d \in BarType /\ d.pinned /\ ~d.hide
  BY <1>3 DEF BarType
<1>5. BarOK(c) /\ BarOK(d)
  BY <1>1, <1>3, <1>4 DEF BarOK, Leaves, Kept
<1>6. Pinned(b) = IF Suppressed(b) THEN b ELSE IF b.suppressed THEN d ELSE c
  BY DEF Pinned, a, c
<1> HIDE DEF d
<1> QED BY <1>5, <1>6

LEMMA BarOpenedOK ==
  ASSUME NEW b, BarOK(b) PROVE BarOK(BarOpened(b))
<1> DEFINE c == IF b.suppressed /\ ~b.revealing THEN SuppressedRevealed(b) ELSE b
           a == AutoHidden(c, FALSE)
           d == [a EXCEPT !.autoHide = FALSE, !.extended = TRUE]
           e == [d EXCEPT !.hide = FALSE, !.revealing = TRUE]
<1>1. BarOK(c) /\ c \in BarType /\ c.suppressed = b.suppressed
  BY SuppressedRevealedOK DEF BarOK
<1> HIDE DEF c
<1>2. a \in BarType /\ a.suppressed = b.suppressed /\ a.hide = c.hide
  BY <1>1, AutoHiddenOK
<1> HIDE DEF a
<1>3. d \in BarType /\ d.extended /\ d.hide = c.hide /\ d.suppressed = b.suppressed
  BY <1>2 DEF BarType
<1> HIDE DEF d
<1>4. e \in BarType /\ e.extended /\ ~e.hide
  BY <1>3 DEF BarType
<1>5. BarOK(d) /\ BarOK(e)
  BY <1>1, <1>3, <1>4 DEF BarOK, Leaves, Kept
<1>6. BarOpened(b) = IF b.suppressed /\ ~b.revealing /\ ~b.mounted THEN b
                     ELSE IF b.extended THEN c ELSE IF b.suppressed THEN e ELSE d
  BY DEF BarOpened, a, c, d
<1> HIDE DEF e
<1> QED BY <1>1, <1>5, <1>6

LEMMA BarClosedOK ==
  ASSUME NEW b, BarOK(b)
  PROVE  /\ BarOK(BarClosed(b)) /\ ~BarClosed(b).extended
<1> DEFINE a == [b EXCEPT !.pinned = FALSE]
           c == HideLater(Revealed(a))
           d == [c EXCEPT !.extended = FALSE, !.left = TRUE]
<1>1. CASE ~b.extended
  BY <1>1 DEF BarClosed
<1>2. CASE b.extended
  <2>1. BarOK(a)
    BY <1>2 DEF BarOK, BarType, Leaves, Kept
  <2> HIDE DEF a
  <2>2. c \in BarType /\ (c.hide => c.suppressed)
    <3>1. Revealed(a) \in BarType
      BY <2>1, RevealedOK DEF BarOK
    <3> QED BY <3>1, HideLaterOK DEF BarType
  <2> HIDE DEF c
  <2>3. d \in BarType /\ d.left /\ ~d.extended /\ d.hide = c.hide /\ d.suppressed = c.suppressed
    BY <2>2 DEF BarType
  <2>4. BarClosed(b) = d
    BY <1>2 DEF BarClosed, a, c
  <2> QED BY <2>2, <2>3, <2>4 DEF BarOK, Leaves
<1>3. b.extended \in BOOLEAN
  BY DEF BarOK, BarType
<1> QED BY <1>1, <1>2, <1>3

LEMMA BarToggledOK == ASSUME NEW b, BarOK(b) PROVE BarOK(BarToggled(b))
BY BarOpenedOK, BarClosedOK DEF BarToggled

\* A change of the bar alone that leaves it in order.
LEMMA BarBecomesOK == ASSUME BarInv, NEW b, BarOK(b), BarBecomes(b) PROVE BarInv'
BY DEF BarInv, BarBecomes, BarOK, Leaves, Kept

LEMMA BarFields ==
  ASSUME NEW b \in BarType
  PROVE  /\ b.mounted \in BOOLEAN /\ b.suppressed \in BOOLEAN /\ b.locked \in BOOLEAN /\ b.left \in BOOLEAN
         /\ \A p, q \in BOOLEAN :
              /\ [b EXCEPT !.autoHide = p] \in BarType /\ [b EXCEPT !.hide = p] \in BarType
              /\ [b EXCEPT !.revealing = p] \in BarType /\ [b EXCEPT !.locked = p] \in BarType
              /\ [b EXCEPT !.left = p] \in BarType /\ [b EXCEPT !.mounted = p] \in BarType
              /\ [b EXCEPT !.forceHidden = p] \in BarType /\ [b EXCEPT !.pinned = p] \in BarType
BY DEF BarType

LEMMA MountStep == ASSUME BarInv, Mount PROVE BarInv'
<1> DEFINE b == [bar EXCEPT !.mounted = TRUE]
           c == [b EXCEPT !.forceHidden = TRUE]
<1>1. bar \in BarType /\ Leaves(bar)
  BY DEF BarInv, BarOK
<1>2. b \in BarType /\ b.suppressed = bar.suppressed /\ b.hide = bar.hide /\ b.mounted
  BY <1>1 DEF BarType
<1> HIDE DEF b
<1>3. c \in BarType /\ c.suppressed = bar.suppressed /\ c.hide = bar.hide /\ c.forceHidden
  BY <1>2 DEF BarType
<1>4. BarBecomes(IF b.suppressed THEN c ELSE Revealed(b))
  BY DEF Mount, b
<1>5. CASE b.suppressed
  <2>1. BarOK(c)
    BY <1>1, <1>3 DEF BarOK, Leaves
  <2> HIDE DEF c
  <2> QED BY <1>4, <1>5, <2>1, BarBecomesOK
<1>6. CASE ~b.suppressed
  \* Nothing timed the sidebar before it was there: revealing it does.
  <2> DEFINE e == AutoHidden(b, FALSE)
             d == [e EXCEPT !.autoHide = FALSE]
             f == [d EXCEPT !.autoHide = TRUE, !.left = FALSE]
  <2>1. e \in BarType /\ e.hide = b.hide /\ e.suppressed = b.suppressed
    BY <1>2, AutoHiddenOK
  <2> HIDE DEF e
  <2>2. d \in BarType /\ d.hide = b.hide /\ d.suppressed = b.suppressed
    BY <2>1 DEF BarType
  <2> HIDE DEF d
  <2>3. f \in BarType /\ f.hide = b.hide /\ f.suppressed = b.suppressed /\ f.autoHide
    BY <2>2 DEF BarType
  <2>4. Revealed(b) = IF Kept(d) THEN d ELSE f
    BY <1>2, <1>6 DEF Revealed, Bumped, Suppressed, AutoHideLater, d, e
  <2>5. (Kept(d) => BarOK(d)) /\ BarOK(f)
    BY <1>1, <1>2, <1>6, <2>2, <2>3 DEF BarOK, Leaves
  <2> HIDE DEF f
  <2> QED BY <1>4, <1>6, <2>4, <2>5, BarBecomesOK
<1>7. b.suppressed \in BOOLEAN
  BY <1>2, BarFields
<1> QED BY <1>5, <1>6, <1>7

LEMMA UnmountStep == ASSUME BarInv, UnmountBar PROVE BarInv'
<1> DEFINE a == AutoHidden(bar, FALSE)
           b == [a EXCEPT !.mounted = FALSE, !.pinned = FALSE, !.autoHide = FALSE, !.extended = FALSE]
<1>1. bar \in BarType /\ Leaves(bar)
  BY DEF BarInv, BarOK
<1>2. a \in BarType /\ a.hide = bar.hide /\ a.suppressed = bar.suppressed
  BY <1>1, AutoHiddenOK
<1> HIDE DEF a
<1>3. b \in BarType /\ ~b.mounted /\ b.hide = bar.hide /\ b.suppressed = bar.suppressed
  BY <1>2 DEF BarType
<1>4. BarOK(b)
  BY <1>1, <1>3 DEF BarOK, Leaves
<1>5. BarBecomes(b)
  BY DEF UnmountBar, a
<1> HIDE DEF b
<1> QED BY <1>4, <1>5, BarBecomesOK

LEMMA SuppressedStep ==
  ASSUME BarInv, NEW suppressed \in BOOLEAN, SetSuppressed(suppressed) PROVE BarInv'
<1> DEFINE b == [bar EXCEPT !.suppressed = suppressed, !.hide = FALSE, !.revealing = FALSE]
           freed == [b EXCEPT !.forceHidden = FALSE, !.pinned = FALSE]
           a == [b EXCEPT !.autoHide = FALSE]
<1>1. bar \in BarType /\ Leaves(bar) /\ finger \in BarFingerType
  BY DEF BarInv, BarOK
<1>2. b \in BarType /\ b.suppressed = suppressed /\ ~b.hide /\ b.mounted = bar.mounted
  BY <1>1 DEF BarType
<1>3. /\ suppressed => /\ bar' = HiddenNow(a)
                       /\ finger' = [finger EXCEPT !.window = "none"] /\ place' = place
      /\ ~suppressed => BarBecomes(IF freed.mounted THEN Revealed(freed) ELSE freed)
  BY DEF SetSuppressed
<1> HIDE DEF b
<1>4. CASE suppressed
  <2>1. a \in BarType /\ ~a.hide
    BY <1>2 DEF BarType
  <2> HIDE DEF a
  <2>2. HiddenNow(a) \in BarType /\ HiddenNow(a).forceHidden /\ ~HiddenNow(a).hide
    BY <2>1 DEF HiddenNow, BarType
  <2>3. BarOK(HiddenNow(a))
    BY <2>2 DEF BarOK, Leaves
  <2>4. finger' \in BarFingerType
    BY <1>1, <1>3, <1>4 DEF BarFingerType, HandleModes
  <2>5. BarOK(bar)'
    BY <1>3, <1>4, <2>3 DEF BarOK, Leaves, Kept
  <2> QED BY <1>3, <1>4, <2>4, <2>5 DEF BarInv
<1>5. CASE ~suppressed
  <2>1. freed \in BarType /\ ~freed.hide /\ ~freed.suppressed /\ freed.mounted = bar.mounted
    BY <1>2, <1>5 DEF BarType
  <2> HIDE DEF freed
  <2> DEFINE e == AutoHidden(freed, FALSE)
             d == [e EXCEPT !.autoHide = FALSE]
             f == [d EXCEPT !.autoHide = TRUE, !.left = FALSE]
  <2>2. e \in BarType /\ ~e.hide /\ ~e.suppressed
    BY <2>1, AutoHiddenOK
  <2> HIDE DEF e
  <2>3. d \in BarType /\ ~d.hide /\ ~d.suppressed
    BY <2>2 DEF BarType
  <2> HIDE DEF d
  <2>4. f \in BarType /\ ~f.hide /\ ~f.suppressed /\ f.autoHide
    BY <2>3 DEF BarType
  <2>5. freed.mounted => Revealed(freed) = IF Kept(d) THEN d ELSE f
    BY <2>1 DEF Revealed, Bumped, Suppressed, AutoHideLater, d, e
  <2>6. (Kept(d) => BarOK(d)) /\ BarOK(f) /\ (~freed.mounted => BarOK(freed))
    BY <2>1, <2>3, <2>4 DEF BarOK, Leaves
  <2>7. freed.mounted \in BOOLEAN
    BY <2>1, BarFields
  <2> HIDE DEF f
  <2> QED BY <1>3, <1>5, <2>5, <2>6, <2>7, BarBecomesOK
<1> QED BY <1>4, <1>5

LEMMA RevealActionStep == ASSUME BarInv, RevealFromAction PROVE BarInv'
<1> DEFINE s == [SuppressedRevealed(bar) EXCEPT !.hide = FALSE]
           b == IF bar.suppressed THEN s ELSE bar
           c == [b EXCEPT !.forceHidden = FALSE, !.autoHidden = FALSE, !.autoHide = FALSE, !.extended = TRUE]
<1>1. bar \in BarType /\ Leaves(bar) /\ SuppressedRevealed(bar) \in BarType
  BY SuppressedRevealedOK DEF BarInv, BarOK
<1>2. s \in BarType /\ ~s.hide
  BY <1>1 DEF BarType
<1>3. BarBecomes(c)
  BY DEF RevealFromAction
<1> HIDE DEF s
<1>4. b \in BarType /\ (b.hide => b.suppressed)
  BY <1>1, <1>2 DEF Leaves
<1> HIDE DEF b
<1>5. c \in BarType /\ c.extended /\ c.hide = b.hide /\ c.suppressed = b.suppressed
  BY <1>4 DEF BarType
<1>6. BarOK(c)
  BY <1>4, <1>5 DEF BarOK, Leaves, Kept
<1> HIDE DEF c
<1> QED BY <1>3, <1>6, BarBecomesOK

LEMMA OverlayStep ==
  ASSUME BarInv, NEW active \in BOOLEAN, OverlayState(active) PROVE BarInv'
<1> DEFINE b == [bar EXCEPT !.locked = active]
           h == AutoHidden(b, FALSE)
           on == [h EXCEPT !.autoHide = FALSE, !.hide = FALSE]
           a == [b EXCEPT !.autoHide = TRUE, !.left = FALSE]
           l == HideLater(a)
           c == IF active THEN on ELSE IF b.suppressed THEN l ELSE a
           n == [b EXCEPT !.left = @ \/ bar.locked]
<1>1. bar \in BarType /\ Leaves(bar) /\ bar.locked \in BOOLEAN /\ bar.left \in BOOLEAN
  BY BarFields DEF BarInv, BarOK
<1>2. BarBecomes(IF Suppressed(b) THEN n ELSE c)
  BY DEF OverlayState, AutoHideLater
<1>3. /\ b \in BarType /\ b.locked = active /\ b.suppressed = bar.suppressed /\ b.hide = bar.hide
      /\ b.mounted = bar.mounted /\ b.forceHidden = bar.forceHidden /\ b.autoHidden = bar.autoHidden
      /\ b.left = bar.left /\ b.extended = bar.extended /\ b.pinned = bar.pinned /\ b.autoHide = bar.autoHide
  BY <1>1 DEF BarType
<1> HIDE DEF b
<1>4. h \in BarType /\ h.suppressed = b.suppressed /\ h.locked = active
  BY <1>3, AutoHiddenOK
<1> HIDE DEF h
<1>5. on \in BarType /\ ~on.hide /\ on.locked = active
  BY <1>4 DEF BarType
<1>6. a \in BarType /\ a.autoHide /\ a.hide = b.hide /\ a.suppressed = b.suppressed
  BY <1>3 DEF BarType
<1> HIDE DEF on, a
<1>7. /\ l \in BarType /\ l.suppressed = b.suppressed /\ (l.hide => l.suppressed)
      /\ b.suppressed /\ ~Kept(l) => l.hide
  BY <1>6, HideLaterOK DEF Kept
<1> HIDE DEF l
<1>8. BarOK(c)
  <2>1. CASE active
    BY <1>5, <2>1 DEF BarOK, Leaves, Kept
  <2>2. CASE ~active
    BY <1>1, <1>3, <1>6, <1>7, <2>2 DEF BarOK, Leaves
  <2> QED BY <2>1, <2>2
<1>9. Suppressed(b) => BarOK(n)
  <2>1. /\ n \in BarType /\ n.left = (bar.left \/ bar.locked) /\ n.suppressed = bar.suppressed /\ n.hide = bar.hide
        /\ n.mounted = bar.mounted /\ n.forceHidden = bar.forceHidden /\ n.autoHidden = bar.autoHidden
        /\ n.extended = bar.extended /\ n.pinned = bar.pinned /\ n.autoHide = bar.autoHide /\ n.locked = active
    BY <1>1, <1>3 DEF BarType
  <2> HIDE DEF n
  <2> QED BY <1>1, <2>1 DEF BarOK, Leaves, Kept
<1> HIDE DEF c, n
<1> QED BY <1>2, <1>8, <1>9, BarBecomesOK

LEMMA AutoHideTimerStep == ASSUME BarInv, AutoHideTimer PROVE BarInv'
<1> DEFINE b == [bar EXCEPT !.autoHide = FALSE]
           a == AutoHidden(b, TRUE)
<1>1. bar \in BarType /\ Leaves(bar)
  BY DEF BarInv, BarOK
<1>2. BarBecomes(IF b.extended \/ b.pinned \/ Suppressed(b) THEN b ELSE a)
  BY DEF AutoHideTimer
<1>3. /\ b \in BarType /\ b.suppressed = bar.suppressed /\ b.hide = bar.hide
      /\ b.mounted = bar.mounted /\ b.forceHidden = bar.forceHidden /\ b.autoHidden = bar.autoHidden
      /\ b.left = bar.left /\ b.extended = bar.extended /\ b.pinned = bar.pinned /\ b.locked = bar.locked
  BY <1>1 DEF BarType
<1> HIDE DEF b
<1>4. a \in BarType /\ a.hide = b.hide /\ a.suppressed = b.suppressed /\ (a.autoHidden <=> ~b.extended)
  BY <1>3, AutoHiddenOK
<1>5. b.extended \/ b.pinned \/ Suppressed(b) => BarOK(b)
  BY <1>1, <1>3 DEF BarOK, Leaves, Kept, Suppressed
<1>6. ~b.extended => BarOK(a)
  BY <1>1, <1>3, <1>4 DEF BarOK, Leaves
<1> HIDE DEF a
<1> QED BY <1>2, <1>5, <1>6, BarBecomesOK

LEMMA HideTimerStep == ASSUME BarInv, HideTimer PROVE BarInv'
<1> DEFINE b == [bar EXCEPT !.hide = FALSE]
           l == HideLater(b)
<1>1. bar \in BarType /\ Leaves(bar) /\ bar.suppressed
  BY DEF BarInv, BarOK, HideTimer, Leaves
<1>2. BarBecomes(IF ~b.suppressed THEN b ELSE IF Kept(b) \/ b.revealing THEN l ELSE HiddenNow(b))
  BY DEF HideTimer
<1>3. b \in BarType /\ b.suppressed /\ ~b.hide
  BY <1>1 DEF BarType
<1> HIDE DEF b
<1>4. l \in BarType /\ l.suppressed /\ (~Kept(l) => l.hide)
  BY <1>3, HideLaterOK DEF BarType
<1>5. BarOK(l)
  BY <1>4 DEF BarOK, Leaves
<1>6. HiddenNow(b) \in BarType /\ HiddenNow(b).forceHidden /\ ~HiddenNow(b).hide
  BY <1>3 DEF HiddenNow, BarType
<1>7. BarOK(HiddenNow(b))
  BY <1>6 DEF BarOK, Leaves
<1> HIDE DEF l
<1> QED BY <1>2, <1>3, <1>5, <1>7, BarBecomesOK

LEMMA RevealEndsStep == ASSUME BarInv, RevealEnds PROVE BarInv'
<1> DEFINE b == [bar EXCEPT !.revealing = FALSE]
<1>1. bar \in BarType /\ Leaves(bar)
  BY DEF BarInv, BarOK
<1>2. BarBecomes(b)
  BY DEF RevealEnds
<1>3. BarOK(b)
  BY <1>1 DEF BarType, BarOK, Leaves, Kept
<1> HIDE DEF b
<1> QED BY <1>2, <1>3, BarBecomesOK

LEMMA OutsideStep ==
  ASSUME BarInv, NEW fullscreen \in BOOLEAN, OutsideBarPress(fullscreen) PROVE BarInv'
<1> DEFINE p == [bar EXCEPT !.pinned = FALSE]
           c == BarClosed(p)
           h == AutoHidden(c, TRUE)
           b == [h EXCEPT !.autoHide = FALSE]
<1>1. bar \in BarType /\ Leaves(bar)
  BY DEF BarInv, BarOK
<1>2. BarBecomes(b)
  BY DEF OutsideBarPress
<1>3. p \in BarType /\ p.hide = bar.hide /\ p.suppressed = bar.suppressed /\ p.extended = bar.extended
  BY <1>1 DEF BarType
<1>4. c \in BarType /\ ~c.extended /\ (c.hide => c.suppressed)
  <2>1. CASE bar.extended
    <3>1. BarOK(p)
      BY <1>1, <1>3, <2>1 DEF BarOK, Leaves, Kept
    <3> HIDE DEF p
    <3> QED BY <3>1, BarClosedOK DEF BarOK, Leaves
  <2>2. CASE ~bar.extended
    <3>1. c = p
      BY <1>3, <2>2 DEF BarClosed
    <3> QED BY <1>1, <1>3, <2>2, <3>1 DEF Leaves
  <2> QED BY <1>1, <2>1, <2>2 DEF BarType
<1> HIDE DEF p, c
<1>5. h \in BarType /\ h.autoHidden /\ h.hide = c.hide /\ h.suppressed = c.suppressed
  BY <1>4, AutoHiddenOK
<1> HIDE DEF h
<1>6. b \in BarType /\ b.autoHidden /\ b.hide = c.hide /\ b.suppressed = c.suppressed
  BY <1>5 DEF BarType
<1>7. BarOK(b)
  BY <1>4, <1>6 DEF BarOK, Leaves
<1> HIDE DEF b
<1> QED BY <1>2, <1>7, BarBecomesOK

\* A touch changes the bar by what its handlers are made of.
LEMMA TouchedStep ==
  ASSUME BarInv, NEW b, BarOK(b), bar' = b, finger' \in BarFingerType, place' = place
  PROVE  BarInv'
BY DEF BarInv, BarOK, Leaves, Kept

LEMMA BarFingerFields ==
  ASSUME NEW f \in BarFingerType
  PROVE  /\ \A m \in HandleModes : [f EXCEPT !.window = m] \in BarFingerType
         /\ \A p \in BOOLEAN : [f EXCEPT !.handle = p] \in BarFingerType
         /\ \A c \in {"none", "still", "moved"} : [f EXCEPT !.content = c] \in BarFingerType
         /\ f.window \in HandleModes /\ f.handle \in BOOLEAN
BY DEF BarFingerType

LEMMA TouchSteps ==
  ASSUME BarInv,
         \/ \E zone \in Zones : HandleTouchStart(zone)
         \/ \E dx, dy \in Reach \cup {-x : x \in Reach} :
              ButtonTouch(dx, dy) \/ \E intercepted \in BOOLEAN : HandleTouchMove(dx, dy, intercepted)
         \/ HandleTouchEnd \/ ButtonTouchEnd
         \/ \E content \in {"none", "still", "moved"} : ContentTouch(content)
  PROVE  BarInv'
<1>1. /\ BarOK(bar) /\ finger \in BarFingerType /\ place \in PlaceType
      /\ finger.window \in HandleModes /\ finger.handle \in BOOLEAN /\ place.handles \in BOOLEAN
  BY BarFingerFields DEF BarInv, PlaceType
<1>2. ASSUME NEW zone \in Zones, HandleTouchStart(zone) PROVE BarInv'
  <2>1. \E m \in HandleModes : finger' = [finger EXCEPT !.window = m]
    BY <1>2 DEF HandleTouchStart, HandleModes
  <2>2. finger' \in BarFingerType /\ bar' = bar /\ place' = place
    BY <1>1, <1>2, <2>1, BarFingerFields DEF HandleTouchStart
  <2> QED BY <1>1, <2>2, TouchedStep
<1>3. ASSUME NEW dx, NEW dy, NEW intercepted, HandleTouchMove(dx, dy, intercepted) PROVE BarInv'
  <2>1. \E m \in HandleModes : finger' = [finger EXCEPT !.window = m]
    BY <1>1, <1>3 DEF HandleTouchMove, HandleModes
  <2>2. finger' \in BarFingerType /\ place' = place
    BY <1>1, <1>3, <2>1, BarFingerFields DEF HandleTouchMove
  <2>3. bar' \in {bar, SuppressedRevealed(bar), Revealed(bar)}
    BY <1>3 DEF HandleTouchMove
  <2>4. BarOK(SuppressedRevealed(bar)) /\ BarOK(Revealed(bar))
    BY <1>1, SuppressedRevealedOK, RevealedOK
  <2> QED BY <1>1, <2>2, <2>3, <2>4, TouchedStep
<1>4. CASE HandleTouchEnd
  <2>1. finger' = [finger EXCEPT !.window = "none"] /\ bar' = bar /\ place' = place /\ "none" \in HandleModes
    BY <1>4 DEF HandleTouchEnd, HandleModes
  <2>2. finger' \in BarFingerType
    BY <1>1, <2>1, BarFingerFields
  <2> QED BY <1>1, <2>1, <2>2, TouchedStep
<1>5. ASSUME NEW dx, NEW dy, ButtonTouch(dx, dy) PROVE BarInv'
  <2> DEFINE reveals == finger.handle /\ RevealSwipe(dx, dy)
  <2>1. /\ finger' = [finger EXCEPT !.handle = (place.handles /\ ~reveals)] /\ place' = place
        /\ bar' \in {bar, Revealed(Pinned(Bumped(bar))), Bumped(bar)}
    BY <1>5 DEF ButtonTouch
  <2>2. (place.handles /\ ~reveals) \in BOOLEAN
    OBVIOUS
  <2> HIDE DEF reveals
  <2>3. finger' \in BarFingerType
    BY <1>1, <2>1, <2>2, BarFingerFields
  <2>4. BarOK(Revealed(Pinned(Bumped(bar)))) /\ BarOK(Bumped(bar))
    BY <1>1, BumpedOK, PinnedOK, RevealedOK
  <2> QED BY <1>1, <2>1, <2>3, <2>4, TouchedStep
<1>6. CASE ButtonTouchEnd
  <2>1. finger' = [finger EXCEPT !.handle = FALSE] /\ bar' \in {bar, Bumped(bar)} /\ place' = place
    BY <1>6 DEF ButtonTouchEnd
  <2>2. finger' \in BarFingerType /\ BarOK(Bumped(bar))
    BY <1>1, <2>1, BarFingerFields, BumpedOK
  <2> QED BY <1>1, <2>1, <2>2, TouchedStep
<1>7. ASSUME NEW content \in {"none", "still", "moved"}, ContentTouch(content) PROVE BarInv'
  <2>1. /\ finger' = [finger EXCEPT !.content = content] /\ place' = place
        /\ bar' \in {Bumped(Pinned(bar)), Bumped(bar)}
    BY <1>7 DEF ContentTouch
  <2>2. finger' \in BarFingerType
    BY <1>1, <2>1, BarFingerFields
  <2>3. BarOK(Bumped(Pinned(bar))) /\ BarOK(Bumped(bar))
    BY <1>1, BumpedOK, PinnedOK
  <2> QED BY <1>1, <2>1, <2>2, <2>3, TouchedStep
<1> QED BY <1>2, <1>3, <1>4, <1>5, <1>6, <1>7

LEMMA BarStep == ASSUME BarInv, [BarNext]_barVars PROVE BarInv'
<1>1. CASE UNCHANGED barVars
  BY <1>1 DEF barVars, BarInv, BarOK, Leaves, Kept
<1>2. ASSUME NEW b \in {Pinned(bar), Bumped(bar), Revealed(bar), BarToggled(Pinned(bar)), BarToggled(bar),
                        BarOpened(bar), BarClosed(bar)},
             BarBecomes(b)
      PROVE  BarInv'
  <2>1. BarOK(bar)
    BY DEF BarInv
  <2>2. BarOK(b)
    BY <1>2, <2>1, PinnedOK, BumpedOK, RevealedOK, BarToggledOK, BarOpenedOK, BarClosedOK
  <2> QED BY <1>2, <2>2, BarBecomesOK
<1>3. CASE ToggleBar \/ ButtonClick \/ RootPress \/ RootActivity \/ RootEnter \/ PointerNearEdge
  BY <1>2, <1>3 DEF ToggleBar, ButtonClick, RootPress, RootActivity, RootEnter, PointerNearEdge
<1>4. ASSUME NEW flag \in BOOLEAN, SetExtended(flag) PROVE BarInv'
  BY <1>2, <1>4 DEF SetExtended
<1>5. ASSUME NEW flag \in BOOLEAN, UseHandles(flag) PROVE BarInv'
  <2>1. place' = [place EXCEPT !.handles = flag] /\ bar' = bar /\ finger' = finger
    BY <1>5 DEF UseHandles
  <2>2. place' \in PlaceType
    BY <2>1 DEF BarInv, PlaceType
  <2> QED BY <2>1, <2>2 DEF BarInv, BarOK, Leaves, Kept
<1>6. ASSUME NEW edge \in Edges, SetStyle(edge) PROVE BarInv'
  <2>1. place' = [place EXCEPT !.edge = edge] /\ bar' = bar /\ finger' = finger
    BY <1>6 DEF SetStyle
  <2>2. place' \in PlaceType
    BY <2>1 DEF BarInv, PlaceType
  <2> QED BY <2>1, <2>2 DEF BarInv, BarOK, Leaves, Kept
<1>7. CASE BarNext
  <2>1. CASE Mount \/ UnmountBar \/ ToggleBar \/ RevealFromAction
    BY <1>3, <2>1, MountStep, UnmountStep, RevealActionStep
  <2>2. CASE \E flag \in BOOLEAN :
               SetSuppressed(flag) \/ UseHandles(flag) \/ SetExtended(flag) \/ OverlayState(flag) \/ OutsideBarPress(flag)
    BY <1>4, <1>5, <2>2, SuppressedStep, OverlayStep, OutsideStep
  <2>3. CASE AutoHideTimer \/ HideTimer \/ RevealEnds
    BY <2>3, AutoHideTimerStep, HideTimerStep, RevealEndsStep
  <2> QED BY <1>3, <1>6, <1>7, <2>1, <2>2, <2>3, TouchSteps DEF BarNext
<1> QED BY <1>1, <1>7

-----------------------------------------------------------------------------
(* The layouts of the on-screen pad *)

OverlayType == [orientation : Orientations, prefs : OverlayButtons, visible : BOOLEAN,
                selection : ButtonSlots \cup {NoSlot}, mode : EditModes,
                fingers : 0 .. 2, ghosts : 0 .. 2,
                pinch : ButtonSlots \cup {NoSlot}, drag : BOOLEAN]
WrittenType == [all : BOOLEAN, excused : BOOLEAN]

\* The selected button of the overlay v is on it.
SelectionOK(v) == v \in OverlayType /\ (v.selection # NoSlot => v.selection \in v.prefs)
GesturingOn(v) == v.drag \/ v.ghosts > 0 \/ (v.pinch # NoSlot /\ v.fingers > 0)

LayoutsInv ==
  /\ prefsStore \in [Orientations -> OverlayButtons] /\ panel \in Orientations /\ written \in WrittenType
  /\ SelectionOK(overlay)
  /\ overlay.prefs = prefsStore[overlay.orientation]
  /\ ~written.all => written.excused \/ GesturingOn(overlay)

LEMMA LayoutsShow == LayoutsInv => LayoutsTypeOK /\ LayoutsInStep
BY DEF LayoutsInv, LayoutsTypeOK, LayoutsInStep, SelectionOK, GesturingOn, Gesturing, OverlayType, WrittenType

LEMMA LayoutsInitially == LayoutsInit => LayoutsInv
<1> SUFFICES ASSUME LayoutsInit PROVE LayoutsInv
  OBVIOUS
<1>1. /\ overlay \in [orientation : Orientations, prefs : {{}}, visible : {FALSE},
                  selection : {NoSlot}, mode : {"off"}, fingers : {0}, ghosts : {0},
                  pinch : {NoSlot}, drag : {FALSE}]
      /\ panel = overlay.orientation
      /\ written = [all |-> TRUE, excused |-> FALSE]
      /\ prefsStore = [o \in Orientations |-> {}]
  BY DEF LayoutsInit
<1>2. /\ overlay.selection = NoSlot /\ overlay.prefs = {} /\ overlay.orientation \in Orientations
      /\ overlay.visible = FALSE /\ overlay.mode = "off" /\ overlay.fingers = 0 /\ overlay.ghosts = 0
      /\ overlay.pinch = NoSlot /\ overlay.drag = FALSE
  BY <1>1
<1>4. overlay = [orientation |-> overlay.orientation, prefs |-> overlay.prefs, visible |-> overlay.visible,
                 selection |-> overlay.selection, mode |-> overlay.mode, fingers |-> overlay.fingers,
                 ghosts |-> overlay.ghosts, pinch |-> overlay.pinch, drag |-> overlay.drag]
  BY <1>1
<1>5. {} \in OverlayButtons /\ "off" \in EditModes /\ 0 \in 0 .. 2 /\ NoSlot \in ButtonSlots \cup {NoSlot}
  BY DEF OverlayButtons, EditModes
<1>6. overlay \in OverlayType
  BY <1>2, <1>4, <1>5 DEF OverlayType
<1>3. prefsStore \in [Orientations -> OverlayButtons] /\ written \in WrittenType /\ written.all
  BY <1>1 DEF OverlayButtons, WrittenType
<1> QED BY <1>1, <1>2, <1>3, <1>6 DEF LayoutsInv, SelectionOK

\* A gesture of v goes on in w.
SameGesture(v, w) == /\ w.drag = v.drag /\ w.ghosts = v.ghosts
                     /\ w.pinch = v.pinch /\ w.fingers = v.fingers

LEMMA OverlayFields ==
  ASSUME NEW v \in OverlayType
  PROVE  /\ v.orientation \in Orientations /\ v.prefs \in OverlayButtons /\ v.visible \in BOOLEAN
         /\ v.selection \in ButtonSlots \cup {NoSlot} /\ v.mode \in EditModes
         /\ v.fingers \in 0 .. 2 /\ v.ghosts \in 0 .. 2 /\ v.pinch \in ButtonSlots \cup {NoSlot}
         /\ v.drag \in BOOLEAN
BY DEF OverlayType

LEMMA SelectingOK ==
  ASSUME NEW v \in OverlayType, NEW s
  PROVE  /\ SelectionOK(Selecting(v, s)) /\ Selecting(v, s).prefs = v.prefs
         /\ Selecting(v, s).orientation = v.orientation
         /\ Selecting(v, s).mode = v.mode /\ SameGesture(v, Selecting(v, s))
<1> DEFINE t == IF s \in v.prefs THEN s ELSE NoSlot
           w == [v EXCEPT !.selection = t]
<1>1. t \in ButtonSlots \cup {NoSlot} /\ (t # NoSlot => t \in v.prefs)
  BY OverlayFields DEF OverlayButtons
<1>2. w = Selecting(v, s)
  BY DEF Selecting
<1> HIDE DEF t
<1>3. /\ w \in OverlayType /\ w.prefs = v.prefs /\ w.selection = t /\ w.orientation = v.orientation
      /\ w.mode = v.mode /\ SameGesture(v, w)
  BY <1>1 DEF OverlayType, SameGesture
<1> HIDE DEF w
<1> QED BY <1>1, <1>2, <1>3 DEF SelectionOK

LEMMA EditingOK ==
  ASSUME NEW v, SelectionOK(v), NEW mode \in EditModes
  PROVE  /\ SelectionOK(Editing(v, mode)) /\ Editing(v, mode).prefs = v.prefs
         /\ Editing(v, mode).orientation = v.orientation
         /\ Editing(v, mode).mode = mode
         /\ mode # "off" => SameGesture(v, Editing(v, mode))
<1> DEFINE w == [v EXCEPT !.mode = mode]
           n == [w EXCEPT !.fingers = 0, !.ghosts = 0, !.pinch = NoSlot, !.drag = FALSE]
<1>1. v \in OverlayType /\ (v.selection # NoSlot => v.selection \in v.prefs)
  BY DEF SelectionOK
<1>2. /\ w \in OverlayType /\ w.prefs = v.prefs /\ w.selection = v.selection /\ w.orientation = v.orientation
      /\ w.mode = mode /\ SameGesture(v, w)
  BY <1>1 DEF OverlayType, SameGesture
<1>3. Editing(v, mode) = IF mode = "off" THEN n ELSE w
  BY DEF Editing, NoPinch
<1> HIDE DEF w
<1>4. /\ n \in OverlayType /\ n.prefs = v.prefs /\ n.selection = v.selection /\ n.orientation = v.orientation
      /\ n.mode = mode
  <2>1. 0 \in 0 .. 2 /\ NoSlot \in ButtonSlots \cup {NoSlot} /\ FALSE \in BOOLEAN
    OBVIOUS
  <2> QED BY <1>2, <2>1 DEF OverlayType
<1> HIDE DEF n
<1> QED BY <1>1, <1>2, <1>3, <1>4 DEF SelectionOK

LEMMA DeselectedOK ==
  ASSUME NEW v \in OverlayType
  PROVE  /\ SelectionOK(Deselected(v)) /\ Deselected(v).prefs = v.prefs
         /\ Deselected(v).orientation = v.orientation /\ Deselected(v).mode = "off"
BY SelectingOK, EditingOK DEF Deselected, EditModes

LEMMA ShownOK ==
  ASSUME NEW v \in OverlayType, NEW b \in OverlayButtons
  PROVE  /\ SelectionOK(Shown(v, b)) /\ Shown(v, b).prefs = b
         /\ Shown(v, b).orientation = v.orientation /\ SameGesture(v, Shown(v, b))
<1> DEFINE w == [v EXCEPT !.prefs = b]
           n == [w EXCEPT !.selection = NoSlot, !.mode = "off"]
<1>1. /\ w \in OverlayType /\ w.prefs = b /\ w.selection = v.selection /\ w.orientation = v.orientation
      /\ SameGesture(v, w)
  BY DEF OverlayType, SameGesture
<1>2. Shown(v, b) = IF v.selection # NoSlot /\ v.selection \notin b THEN n ELSE w
  BY DEF Shown
<1> HIDE DEF w
<1>3. /\ n \in OverlayType /\ n.prefs = b /\ n.selection = NoSlot /\ n.orientation = v.orientation
      /\ SameGesture(v, n)
  BY <1>1 DEF OverlayType, SameGesture, EditModes
<1> HIDE DEF n
<1> QED BY <1>1, <1>2, <1>3 DEF SelectionOK

LEMMA UpdatedOK ==
  ASSUME LayoutsInv, NEW o \in Orientations, NEW b \in OverlayButtons
  PROVE  /\ SelectionOK(Updated(overlay, o, b))
         /\ Updated(overlay, o, b).orientation = overlay.orientation
         /\ Updated(overlay, o, b).prefs = IF o = overlay.orientation THEN b ELSE overlay.prefs
BY ShownOK DEF Updated, LayoutsInv, SelectionOK

\* FirstOf chooses a slot of the set.
LEMMA FirstOfOK ==
  ASSUME NEW S \in SUBSET ButtonSlots PROVE FirstOf(S) \in S \cup {NoSlot}
<1>1. CASE S = {}
  BY <1>1 DEF FirstOf
<1>2. CASE S # {}
  <2>1. S \subseteq Nat
    BY DEF ButtonSlots
  <2>2. \E s \in S : \A r \in S : s <= r
    BY <1>2, <2>1, LeastNatural
  <2> QED BY <1>2, <2>2 DEF FirstOf
<1> QED BY <1>1, <1>2

-----------------------------------------------------------------------------
\* A step that writes what it changes.
LEMMA PersistedStep ==
  ASSUME LayoutsInv, NEW store \in [Orientations -> OverlayButtons], NEW v, SelectionOK(v),
         v.prefs = store[v.orientation],
         prefsStore' = store, overlay' = v, PersistLayout, panel' \in Orientations
  PROVE  LayoutsInv'
<1>1. written' \in WrittenType /\ (~written'.all => written'.excused)
  <2>1. CASE written' = [all |-> TRUE, excused |-> FALSE]
    BY <2>1 DEF WrittenType
  <2>2. CASE written' = [all |-> FALSE, excused |-> TRUE]
    BY <2>2 DEF WrittenType
  <2> QED BY <2>1, <2>2 DEF PersistLayout
<1>2. SelectionOK(overlay)'
  BY DEF SelectionOK
<1> QED BY <1>1, <1>2 DEF LayoutsInv

\* A step that stores the layout of one orientation.
LEMMA StoredStep ==
  ASSUME LayoutsInv, NEW o \in Orientations, NEW b \in OverlayButtons, NEW v, SelectionOK(v),
         v.orientation = overlay.orientation,
         v.prefs = IF o = overlay.orientation THEN b ELSE overlay.prefs,
         StoreLayout(o, b), overlay' = v, PersistLayout, panel' \in Orientations
  PROVE  LayoutsInv'
<1> DEFINE store == [prefsStore EXCEPT ![o] = b]
<1>1. store \in [Orientations -> OverlayButtons]
      /\ \A p \in Orientations : store[p] = IF p = o THEN b ELSE prefsStore[p]
  BY DEF LayoutsInv
<1>2. overlay.orientation \in Orientations /\ overlay.prefs = prefsStore[overlay.orientation]
  BY OverlayFields DEF LayoutsInv, SelectionOK
<1>3. v.prefs = store[v.orientation]
  BY <1>1, <1>2
<1>4. prefsStore' = store
  BY DEF StoreLayout
<1> HIDE DEF store
<1> QED BY <1>1, <1>3, <1>4, PersistedStep

\* A step of the overlay alone that ends no gesture.
LEMMA GestureStep ==
  ASSUME LayoutsInv, NEW v, SelectionOK(v), v.prefs = overlay.prefs, v.orientation = overlay.orientation,
         GesturingOn(overlay) => GesturingOn(v),
         overlay' = v, UNCHANGED <<prefsStore, panel>>,
         UNCHANGED written \/ (Unwritten /\ GesturingOn(v))
  PROVE  LayoutsInv'
<1>1. written' \in WrittenType /\ (~written'.all => written'.excused \/ GesturingOn(v))
  <2>1. CASE UNCHANGED written
    BY <2>1 DEF LayoutsInv
  <2>2. CASE Unwritten /\ GesturingOn(v)
    <3>1. written \in WrittenType /\ written.excused \in BOOLEAN
      BY DEF LayoutsInv, WrittenType
    <3>2. written' = [all |-> FALSE, excused |-> written.excused]
      BY <2>2 DEF Unwritten
    <3> QED BY <2>2, <3>1, <3>2 DEF WrittenType
  <2> QED BY <2>1, <2>2
<1>2. SelectionOK(overlay)' /\ (GesturingOn(overlay)' <=> GesturingOn(v))
  BY DEF SelectionOK, GesturingOn
<1> QED BY <1>1, <1>2 DEF LayoutsInv

\* A step that may cut a gesture off.
LEMMA CutOffStep ==
  ASSUME LayoutsInv, NEW v, SelectionOK(v), v.prefs = overlay.prefs, v.orientation = overlay.orientation,
         v.mode = "off" \/ (GesturingOn(overlay) => GesturingOn(v)),
         overlay' = v, CutOff, prefsStore' = prefsStore, panel' \in Orientations
  PROVE  LayoutsInv'
<1>1. /\ written \in WrittenType
      /\ written' = [written EXCEPT !.excused = @ \/ (~written.all /\ v.mode = "off")]
  BY DEF LayoutsInv, CutOff
<1>2. written' \in WrittenType /\ (~written'.all => written'.excused \/ GesturingOn(v))
  BY <1>1 DEF LayoutsInv, WrittenType
<1>3. SelectionOK(overlay)' /\ (GesturingOn(overlay)' <=> GesturingOn(v))
  BY DEF SelectionOK, GesturingOn
<1> QED BY <1>2, <1>3 DEF LayoutsInv
-----------------------------------------------------------------------------
\* What the steps need of a layout.
LEMMA LayoutAtHand ==
  ASSUME LayoutsInv
  PROVE  /\ overlay \in OverlayType /\ overlay.orientation \in Orientations
         /\ overlay.prefs \in OverlayButtons /\ panel \in Orientations
         /\ overlay.selection # NoSlot => overlay.selection \in overlay.prefs
         /\ PanelButtons \in OverlayButtons
         /\ panel = overlay.orientation => PanelButtons = overlay.prefs
         /\ SelectionOK(overlay) /\ \A o \in Orientations : prefsStore[o] \in OverlayButtons
BY OverlayFields DEF LayoutsInv, SelectionOK, PanelButtons

\* The overlay's own orientation is stored.
LEMMA OwnStored ==
  ASSUME LayoutsInv, NEW b \in OverlayButtons, NEW v, SelectionOK(v),
         v.orientation = overlay.orientation, v.prefs = b,
         StoreLayout(overlay.orientation, b), overlay' = v, PersistLayout, UNCHANGED panel
  PROVE  LayoutsInv'
BY LayoutAtHand, StoredStep

LEMMA SetVisibleStep ==
  ASSUME LayoutsInv, NEW visible \in BOOLEAN, SetVisible(visible)
  PROVE  LayoutsInv'
<1> DEFINE f == IF visible THEN overlay.fingers ELSE 0
           g == IF visible \/ overlay.ghosts + overlay.fingers > 2
                THEN overlay.ghosts ELSE overlay.ghosts + overlay.fingers
           v == [overlay EXCEPT !.visible = visible, !.selection = NoSlot, !.mode = "off",
                   !.fingers = f, !.ghosts = g]
<1>1. overlay \in OverlayType
  BY LayoutAtHand
<1>2. f \in 0 .. 2 /\ g \in 0 .. 2
  BY <1>1, OverlayFields
<1>3. overlay' = v
  BY DEF SetVisible
<1> HIDE DEF f, g
<1>4. /\ v \in OverlayType /\ v.selection = NoSlot /\ v.prefs = overlay.prefs
      /\ v.orientation = overlay.orientation /\ v.mode = "off"
  <2>1. NoSlot \in ButtonSlots \cup {NoSlot} /\ "off" \in EditModes
    BY DEF EditModes
  <2> QED BY <1>1, <1>2, <2>1 DEF OverlayType
<1> HIDE DEF v
<1>5. SelectionOK(v) /\ CutOff /\ prefsStore' = prefsStore /\ panel' \in Orientations
  BY <1>4, LayoutAtHand DEF SelectionOK, SetVisible
<1> QED BY <1>3, <1>4, <1>5, CutOffStep

LEMMA PinchDownStep ==
  ASSUME LayoutsInv, PinchDown PROVE LayoutsInv'
<1> DEFINE p == IF overlay.pinch = NoSlot /\ overlay.fingers + 1 + overlay.ghosts >= 2
                THEN overlay.selection ELSE overlay.pinch
           f == overlay.fingers + 1
           v == [overlay EXCEPT !.fingers = f, !.pinch = p]
<1>1. /\ overlay \in OverlayType /\ overlay.selection # NoSlot /\ overlay.fingers < 2
      /\ overlay.selection # NoSlot => overlay.selection \in overlay.prefs
  BY LayoutAtHand DEF PinchDown
<1>2. f \in 0 .. 2 /\ f > 0 /\ p \in ButtonSlots \cup {NoSlot} /\ (overlay.pinch # NoSlot => p # NoSlot)
  BY <1>1, OverlayFields
<1>3. overlay' = v
  BY DEF PinchDown
<1> HIDE DEF f, p
<1>4. /\ v \in OverlayType /\ v.selection = overlay.selection /\ v.prefs = overlay.prefs
      /\ v.orientation = overlay.orientation /\ v.drag = overlay.drag /\ v.ghosts = overlay.ghosts
      /\ v.pinch = p /\ v.fingers = f
  BY <1>1, <1>2 DEF OverlayType
<1> HIDE DEF v
<1>5. SelectionOK(v) /\ (GesturingOn(overlay) => GesturingOn(v))
  BY <1>1, <1>2, <1>4 DEF SelectionOK, GesturingOn
<1>6. UNCHANGED <<prefsStore, panel>> /\ UNCHANGED written
  BY DEF PinchDown
<1> QED BY <1>3, <1>4, <1>5, <1>6, GestureStep

LEMMA PinchMoveStep ==
  ASSUME LayoutsInv, PinchMove PROVE LayoutsInv'
<1>1. GesturingOn(overlay) /\ overlay' = overlay /\ Unwritten /\ UNCHANGED <<prefsStore, panel>>
  BY DEF PinchMove, GesturingOn
<1> QED BY <1>1, LayoutAtHand, GestureStep

LEMMA PinchUpStep ==
  ASSUME LayoutsInv, PinchUp PROVE LayoutsInv'
<1> DEFINE f == overlay.fingers - 1
           v == [overlay EXCEPT !.fingers = f]
           ends == v.pinch # NoSlot /\ v.fingers + v.ghosts < 2
           w == Shown(v, v.prefs)
           n == [w EXCEPT !.fingers = 0, !.ghosts = 0, !.pinch = NoSlot, !.drag = FALSE]
<1>1. overlay \in OverlayType /\ overlay.fingers > 0
  BY LayoutAtHand DEF PinchUp
<1>2. f \in 0 .. 2
  BY <1>1, OverlayFields
<1>3. /\ overlay' = IF ends THEN n ELSE v
      /\ IF ends THEN StoreLayout(v.orientation, v.prefs) /\ PersistLayout
         ELSE UNCHANGED <<prefsStore, written>>
      /\ UNCHANGED panel
  BY DEF PinchUp, NoPinch
<1> HIDE DEF f
<1>4. /\ v \in OverlayType /\ v.selection = overlay.selection /\ v.prefs = overlay.prefs
      /\ v.orientation = overlay.orientation /\ v.drag = overlay.drag /\ v.ghosts = overlay.ghosts
      /\ v.pinch = overlay.pinch /\ v.fingers = f
  BY <1>1, <1>2 DEF OverlayType
<1> HIDE DEF v
<1>5. CASE ends
  <2>1. v.prefs \in OverlayButtons
    BY <1>4, LayoutAtHand
  <2>2. SelectionOK(w) /\ w.prefs = v.prefs /\ w.orientation = v.orientation
    BY <1>4, <2>1, ShownOK
  <2> HIDE DEF w
  <2>3. /\ n \in OverlayType /\ n.prefs = w.prefs /\ n.selection = w.selection
        /\ n.orientation = w.orientation
    <3>1. 0 \in 0 .. 2 /\ NoSlot \in ButtonSlots \cup {NoSlot} /\ FALSE \in BOOLEAN /\ w \in OverlayType
      BY <2>2 DEF SelectionOK
    <3> QED BY <3>1 DEF OverlayType
  <2>6. overlay' = n
    BY <1>3, <1>5
  <2> HIDE DEF n, ends
  <2>4. SelectionOK(n)
    BY <2>2, <2>3 DEF SelectionOK
  <2>5. StoreLayout(overlay.orientation, v.prefs) /\ PersistLayout /\ UNCHANGED panel
    BY <1>3, <1>4, <1>5
  <2> QED BY <1>4, <2>1, <2>2, <2>3, <2>4, <2>5, <2>6, OwnStored
<1>6. CASE ~ends
  <2>1. overlay' = v /\ UNCHANGED <<prefsStore, panel>> /\ UNCHANGED written
    BY <1>3, <1>6
  <2>2. SelectionOK(v)
    BY <1>4, LayoutAtHand DEF SelectionOK
  <2>3. GesturingOn(overlay) => GesturingOn(v)
    <3>1. overlay.fingers \in 0 .. 2 /\ overlay.ghosts \in 0 .. 2
      BY <1>1, OverlayFields
    <3> QED BY <1>4, <1>6, <3>1 DEF GesturingOn, f
  <2> QED BY <1>4, <2>1, <2>2, <2>3, GestureStep
<1> QED BY <1>5, <1>6

LEMMA ButtonDownStep ==
  ASSUME LayoutsInv, NEW s, ButtonDown(s) PROVE LayoutsInv'
<1>1. CASE overlay.selection # s
  <2>1. overlay' = Selecting(overlay, s) /\ UNCHANGED <<prefsStore, panel>> /\ UNCHANGED written
    BY <1>1 DEF ButtonDown
  <2>2. SameGesture(overlay, Selecting(overlay, s)) => (GesturingOn(overlay) => GesturingOn(Selecting(overlay, s)))
    BY DEF SameGesture, GesturingOn
  <2> HIDE DEF GesturingOn
  <2> QED BY <2>1, <2>2, LayoutAtHand, SelectingOK, GestureStep
<1>2. CASE overlay.selection = s
  <2> DEFINE v == [overlay EXCEPT !.drag = TRUE]
  <2>1. overlay' = v /\ UNCHANGED <<prefsStore, panel>> /\ Unwritten
    BY <1>2 DEF ButtonDown
  <2>2. /\ v \in OverlayType /\ v.selection = overlay.selection /\ v.prefs = overlay.prefs
        /\ v.orientation = overlay.orientation /\ v.drag
    BY LayoutAtHand DEF OverlayType
  <2> HIDE DEF v
  <2>3. SelectionOK(v) /\ GesturingOn(v)
    BY <2>2, LayoutAtHand DEF SelectionOK, GesturingOn
  <2> QED BY <2>1, <2>2, <2>3, GestureStep
<1> QED BY <1>1, <1>2

LEMMA DragEndsStep ==
  ASSUME LayoutsInv, DragEnds PROVE LayoutsInv'
<1> DEFINE w == Shown(overlay, overlay.prefs)
           n == [w EXCEPT !.drag = FALSE]
<1>1. SelectionOK(w) /\ w.prefs = overlay.prefs /\ w.orientation = overlay.orientation
  BY LayoutAtHand, ShownOK
<1>2. /\ overlay' = n /\ StoreLayout(overlay.orientation, overlay.prefs) /\ PersistLayout
      /\ UNCHANGED panel
  BY DEF DragEnds
<1> HIDE DEF w
<1>3. /\ n \in OverlayType /\ n.prefs = w.prefs /\ n.selection = w.selection
      /\ n.orientation = w.orientation
  BY <1>1 DEF SelectionOK, OverlayType
<1> HIDE DEF n
<1>4. SelectionOK(n)
  BY <1>1, <1>3 DEF SelectionOK
<1> QED BY <1>1, <1>2, <1>3, <1>4, LayoutAtHand, OwnStored

LEMMA InspectorEditStep ==
  ASSUME LayoutsInv, InspectorEdit PROVE LayoutsInv'
BY LayoutAtHand, ShownOK, OwnStored DEF InspectorEdit

LEMMA DuplicateSelectedStep ==
  ASSUME LayoutsInv, DuplicateSelected PROVE LayoutsInv'
<1> DEFINE b == overlay.prefs
           r == FirstOf(ButtonSlots \ b)
           c == b \cup {r}
           w == Shown(overlay, c)
           t == Selecting(w, r)
           v == Editing(t, "move")
<1>1. /\ r # NoSlot /\ overlay' = v /\ StoreLayout(overlay.orientation, c) /\ PersistLayout
      /\ UNCHANGED panel
  BY DEF DuplicateSelected
<1>2. r \in ButtonSlots
  BY <1>1, FirstOfOK
<1> HIDE DEF r
<1>3. c \in OverlayButtons
  BY <1>2, LayoutAtHand DEF OverlayButtons
<1> HIDE DEF c
<1>4. SelectionOK(w) /\ w.prefs = c /\ w.orientation = overlay.orientation
  BY <1>3, LayoutAtHand, ShownOK
<1> HIDE DEF w
<1>5. SelectionOK(t) /\ t.prefs = c /\ t.orientation = overlay.orientation
  BY <1>4, SelectingOK DEF SelectionOK
<1> HIDE DEF t
<1>6. SelectionOK(v) /\ v.prefs = c /\ v.orientation = overlay.orientation
  BY <1>5, EditingOK DEF EditModes
<1> HIDE DEF v
<1> QED BY <1>1, <1>3, <1>6, OwnStored

LEMMA RemoveSelectedStep ==
  ASSUME LayoutsInv, RemoveSelected PROVE LayoutsInv'
<1> DEFINE c == overlay.prefs \ {overlay.selection}
           w == Shown(overlay, c)
           v == Deselected(w)
<1>1. overlay' = v /\ StoreLayout(overlay.orientation, c) /\ PersistLayout /\ UNCHANGED panel
  BY DEF RemoveSelected
<1>2. c \in OverlayButtons
  BY LayoutAtHand DEF OverlayButtons
<1> HIDE DEF c
<1>3. SelectionOK(w) /\ w.prefs = c /\ w.orientation = overlay.orientation
  BY <1>2, LayoutAtHand, ShownOK
<1> HIDE DEF w
<1>4. SelectionOK(v) /\ v.prefs = c /\ v.orientation = overlay.orientation
  BY <1>3, DeselectedOK DEF SelectionOK
<1> HIDE DEF v
<1> QED BY <1>1, <1>2, <1>4, OwnStored

\* The mode changes, and maybe the selection: a gesture goes on or is cut off.
LEMMA EditedCut ==
  ASSUME LayoutsInv, NEW w, SelectionOK(w), w.prefs = overlay.prefs, w.orientation = overlay.orientation,
         SameGesture(overlay, w), NEW mode \in EditModes,
         overlay' = Editing(w, mode), CutOff, prefsStore' = prefsStore, panel' \in Orientations
  PROVE  LayoutsInv'
<1> DEFINE v == Editing(w, mode)
<1>1. /\ SelectionOK(v) /\ v.prefs = w.prefs /\ v.orientation = w.orientation /\ v.mode = mode
      /\ (mode # "off" => SameGesture(w, v))
  BY EditingOK
<1> HIDE DEF v
<1>2. v.mode = "off" \/ (GesturingOn(overlay) => GesturingOn(v))
  BY <1>1 DEF SameGesture, GesturingOn
<1>3. overlay' = v
  BY DEF v
<1> QED BY <1>1, <1>2, <1>3, CutOffStep

LEMMA EditedOn ==
  ASSUME LayoutsInv, NEW w, SelectionOK(w), w.prefs = overlay.prefs, w.orientation = overlay.orientation,
         SameGesture(overlay, w), overlay' = w, UNCHANGED <<prefsStore, panel, written>>
  PROVE  LayoutsInv'
<1>1. GesturingOn(overlay) => GesturingOn(w)
  BY DEF SameGesture, GesturingOn
<1>2. UNCHANGED <<prefsStore, panel>> /\ UNCHANGED written
  OBVIOUS
<1> QED BY <1>1, <1>2, GestureStep

LEMMA OverlaySteps ==
  ASSUME LayoutsInv, CloseInspector \/ BridgeCycle \/ BridgeToggle \/ BridgeSelectAll
  PROVE  LayoutsInv'
<1>0. SameGesture(overlay, overlay) /\ SelectionOK(overlay) /\ panel \in Orientations
  BY LayoutAtHand DEF SameGesture
<1>1. CASE CloseInspector
  <2>1. /\ overlay' = Editing(Selecting(overlay, NoSlot), "off") /\ CutOff /\ prefsStore' = prefsStore
        /\ panel' \in Orientations
    BY <1>0, <1>1 DEF CloseInspector, Deselected
  <2>2. /\ SelectionOK(Selecting(overlay, NoSlot)) /\ Selecting(overlay, NoSlot).prefs = overlay.prefs
        /\ Selecting(overlay, NoSlot).orientation = overlay.orientation
        /\ SameGesture(overlay, Selecting(overlay, NoSlot))
    BY LayoutAtHand, SelectingOK
  <2>3. "off" \in EditModes
    BY DEF EditModes
  <2> QED BY <2>1, <2>2, <2>3, EditedCut
<1>2. CASE BridgeCycle
  <2> DEFINE m == CASE overlay.mode = "off" -> "move"
                    [] overlay.mode = "move" -> "resize"
                    [] overlay.mode = "resize" -> "opacity"
                    [] OTHER -> "off"
  <2>1. overlay' = Editing(overlay, m) /\ CutOff /\ prefsStore' = prefsStore /\ panel' \in Orientations
    BY <1>0, <1>2 DEF BridgeCycle
  <2>2. m \in EditModes
    BY DEF EditModes
  <2> HIDE DEF m
  <2> QED BY <1>0, <2>1, <2>2, EditedCut
<1>3. CASE BridgeToggle
  <2> DEFINE m == IF overlay.mode = "off" THEN "move" ELSE "off"
  <2>1. overlay' = Editing(overlay, m) /\ CutOff /\ prefsStore' = prefsStore /\ panel' \in Orientations
    BY <1>0, <1>3 DEF BridgeToggle
  <2>2. m \in EditModes
    BY DEF EditModes
  <2> HIDE DEF m
  <2> QED BY <1>0, <2>1, <2>2, EditedCut
<1>4. CASE BridgeSelectAll
  <2>1. overlay' = Selecting(overlay, NoSlot) /\ UNCHANGED <<prefsStore, panel, written>>
    BY <1>4 DEF BridgeSelectAll
  <2> QED BY <2>1, LayoutAtHand, SelectingOK, EditedOn
<1> QED BY <1>1, <1>2, <1>3, <1>4

LEMMA TurnStep ==
  ASSUME LayoutsInv, NEW o \in Orientations, Turn(o) PROVE LayoutsInv'
<1> DEFINE w == [overlay EXCEPT !.orientation = o]
           v == Shown(w, prefsStore[o])
<1>1. overlay' = v /\ UNCHANGED <<prefsStore, panel, written>>
  BY DEF Turn
<1>2. w \in OverlayType /\ w.orientation = o /\ SameGesture(overlay, w)
  BY LayoutAtHand DEF OverlayType, SameGesture
<1> HIDE DEF w
<1>3. /\ SelectionOK(v) /\ v.prefs = prefsStore[o] /\ v.orientation = o /\ SameGesture(w, v)
  BY <1>2, LayoutAtHand, ShownOK
<1> HIDE DEF v
<1>4. SelectionOK(overlay)' /\ (GesturingOn(overlay) => GesturingOn(overlay)')
  BY <1>1, <1>2, <1>3 DEF SelectionOK, SameGesture, GesturingOn
<1> QED BY <1>1, <1>3, <1>4 DEF LayoutsInv

LEMMA LoadStoreStep ==
  ASSUME LayoutsInv, NEW store \in [Orientations -> OverlayButtons], NEW persisted \in BOOLEAN,
         LoadStore(store, persisted)
  PROVE  LayoutsInv'
<1> DEFINE v == Shown(overlay, store[overlay.orientation])
<1>1. /\ prefsStore' = store /\ overlay' = v /\ UNCHANGED panel
      /\ PersistLayout \/ written' = [all |-> FALSE, excused |-> TRUE]
  BY DEF LoadStore
<1>2. store[overlay.orientation] \in OverlayButtons
  BY LayoutAtHand
<1>3. SelectionOK(v) /\ v.prefs = store[v.orientation]
  BY <1>2, LayoutAtHand, ShownOK
<1> HIDE DEF v
<1>4. PersistLayout
  BY <1>1 DEF PersistLayout
<1> QED BY <1>1, <1>3, <1>4, LayoutAtHand, PersistedStep

\* The panel's orientation is stored, and the overlay is v.
LEMMA PanelStored ==
  ASSUME LayoutsInv, NEW b \in OverlayButtons, NEW v, SelectionOK(v),
         v.orientation = overlay.orientation,
         v.prefs = IF panel = overlay.orientation THEN b ELSE overlay.prefs,
         PanelUpdate(b, v)
  PROVE  LayoutsInv'
<1>1. StoreLayout(panel, b) /\ overlay' = v /\ PersistLayout /\ panel' \in Orientations
  BY LayoutAtHand DEF PanelUpdate
<1> QED BY <1>1, LayoutAtHand, StoredStep

LEMMA EditedLayout ==
  ASSUME LayoutsInv, NEW b \in OverlayButtons
  PROVE  /\ SelectionOK(Edited(b)) /\ Edited(b).orientation = overlay.orientation
         /\ Edited(b).prefs = IF panel = overlay.orientation THEN b ELSE overlay.prefs
BY LayoutAtHand, UpdatedOK DEF Edited

LEMMA SettingsStep ==
  ASSUME LayoutsInv, Settings PROVE LayoutsInv'
<1>1. PanelUpdate(PanelButtons, Edited(PanelButtons))
  BY DEF Settings
<1> QED BY <1>1, LayoutAtHand, EditedLayout, PanelStored

LEMMA ResetLayoutStep ==
  ASSUME LayoutsInv, NEW o \in Orientations, ResetLayout(o) PROVE LayoutsInv'
<1> DEFINE v == Updated(overlay, o, {})
<1>1. /\ StoreLayout(o, {}) /\ overlay' = v /\ PersistLayout /\ panel' \in Orientations
      /\ {} \in OverlayButtons
  BY LayoutAtHand DEF ResetLayout, OverlayButtons
<1>2. /\ SelectionOK(v) /\ v.orientation = overlay.orientation
      /\ v.prefs = IF o = overlay.orientation THEN {} ELSE overlay.prefs
  BY <1>1, UpdatedOK
<1> HIDE DEF v
<1> QED BY <1>1, <1>2, StoredStep

LEMMA UnselectStep ==
  ASSUME LayoutsInv, NEW s, Unselect(s) PROVE LayoutsInv'
<1> DEFINE b == PanelButtons \ {s}
           v == Edited(b)
           w == IF v.selection = s THEN Deselected(v) ELSE v
<1>1. PanelUpdate(b, w)
  BY DEF Unselect
<1>2. b \in OverlayButtons
  BY LayoutAtHand DEF OverlayButtons
<1> HIDE DEF b
<1>3. /\ SelectionOK(v) /\ v.orientation = overlay.orientation
      /\ v.prefs = IF panel = overlay.orientation THEN b ELSE overlay.prefs
  BY <1>2, EditedLayout
<1> HIDE DEF v
<1>4. SelectionOK(w) /\ w.orientation = v.orientation /\ w.prefs = v.prefs
  BY <1>3, DeselectedOK DEF SelectionOK
<1> HIDE DEF w
<1> QED BY <1>1, <1>2, <1>3, <1>4, PanelStored

LEMMA ActionChangeStep ==
  ASSUME LayoutsInv, NEW s, NEW off \in BOOLEAN, ActionChange(s, off) PROVE LayoutsInv'
BY SettingsStep, UnselectStep DEF ActionChange

\* A button that was added to the panel's layout is selected, to be moved.
LEMMA AddedStep ==
  ASSUME LayoutsInv, NEW b \in OverlayButtons, NEW s,
         PanelUpdate(b, Editing(Selecting(Edited(b), s), "move"))
  PROVE  LayoutsInv'
<1> DEFINE v == Edited(b)
           t == Selecting(v, s)
           w == Editing(t, "move")
<1>1. PanelUpdate(b, w)
  OBVIOUS
<1>2. /\ SelectionOK(v) /\ v.orientation = overlay.orientation
      /\ v.prefs = IF panel = overlay.orientation THEN b ELSE overlay.prefs
  BY EditedLayout
<1> HIDE DEF v
<1>3. SelectionOK(t) /\ t.orientation = v.orientation /\ t.prefs = v.prefs
  BY <1>2, SelectingOK DEF SelectionOK
<1> HIDE DEF t
<1>4. SelectionOK(w) /\ w.orientation = v.orientation /\ w.prefs = v.prefs
  BY <1>3, EditingOK DEF EditModes
<1> HIDE DEF w
<1> QED BY <1>1, <1>2, <1>4, PanelStored

LEMMA AddButtonStep ==
  ASSUME LayoutsInv, AddButton PROVE LayoutsInv'
<1> DEFINE s == FirstOf(ButtonSlots \ PanelButtons)
           b == PanelButtons \cup {s}
<1>1. s # NoSlot /\ PanelUpdate(b, Editing(Selecting(Edited(b), s), "move"))
  BY DEF AddButton
<1>2. s \in ButtonSlots
  BY <1>1, FirstOfOK
<1> HIDE DEF s
<1>3. b \in OverlayButtons
  BY <1>2, LayoutAtHand DEF OverlayButtons
<1> HIDE DEF b
<1> QED BY <1>1, <1>3, AddedStep

LEMMA AddPresetStep ==
  ASSUME LayoutsInv, NEW count, AddPreset(count) PROVE LayoutsInv'
<1> DEFINE free == ButtonSlots \ PanelButtons
           filled == {s \in free : Cardinality({r \in free : r <= s}) <= count}
           last == CHOOSE s \in filled : \A r \in filled : r <= s
           b == PanelButtons \cup filled
<1>1. PanelUpdate(b, Editing(Selecting(Edited(b), last), "move"))
  BY DEF AddPreset
<1>2. filled \subseteq ButtonSlots
  OBVIOUS
<1> HIDE DEF filled, last
<1>3. b \in OverlayButtons
  BY <1>2, LayoutAtHand DEF OverlayButtons
<1> HIDE DEF b
<1> QED BY <1>1, <1>3, AddedStep

LEMMA PanelEditModeStep ==
  ASSUME LayoutsInv, NEW mode \in EditModes, PanelEditMode(mode) PROVE LayoutsInv'
<1> DEFINE v == IF overlay.selection = NoSlot
                THEN Selecting(overlay, FirstOf(PanelButtons)) ELSE overlay
           w == Editing(v, mode)
<1>1. overlay' = w /\ mode # "off" /\ UNCHANGED <<prefsStore, panel, written>>
  BY DEF PanelEditMode
<1>2. /\ SelectionOK(v) /\ v.orientation = overlay.orientation /\ v.prefs = overlay.prefs
      /\ SameGesture(overlay, v)
  BY LayoutAtHand, SelectingOK DEF SameGesture
<1> HIDE DEF v
<1>3. /\ SelectionOK(w) /\ w.orientation = overlay.orientation /\ w.prefs = overlay.prefs
      /\ SameGesture(v, w)
  BY <1>1, <1>2, EditingOK
<1> HIDE DEF w
<1>4. SameGesture(overlay, w)
  BY <1>2, <1>3 DEF SameGesture
<1> QED BY <1>1, <1>3, <1>4, EditedOn

LEMMA PanelSelectStep ==
  ASSUME LayoutsInv, NEW s, PanelSelect(s) PROVE LayoutsInv'
<1> DEFINE v == Selecting(overlay, s)
           w == IF v.mode = "off" THEN Editing(v, "move") ELSE v
<1>1. overlay' = w /\ UNCHANGED <<prefsStore, panel, written>>
  BY DEF PanelSelect
<1>2. /\ SelectionOK(v) /\ v.orientation = overlay.orientation /\ v.prefs = overlay.prefs
      /\ SameGesture(overlay, v)
  BY LayoutAtHand, SelectingOK
<1> HIDE DEF v
<1>3. /\ SelectionOK(w) /\ w.orientation = overlay.orientation /\ w.prefs = overlay.prefs
      /\ SameGesture(v, w)
  BY <1>2, EditingOK DEF EditModes, SameGesture
<1> HIDE DEF w
<1>4. SameGesture(overlay, w)
  BY <1>2, <1>3 DEF SameGesture
<1> QED BY <1>1, <1>3, <1>4, EditedOn

LEMMA DoneStep ==
  ASSUME LayoutsInv, overlay' = Deselected(overlay), CutOff, prefsStore' = prefsStore,
         panel' \in Orientations
  PROVE  LayoutsInv'
<1> DEFINE w == Selecting(overlay, NoSlot)
<1>1. SelectionOK(w) /\ w.prefs = overlay.prefs /\ w.orientation = overlay.orientation /\ SameGesture(overlay, w)
  BY LayoutAtHand, SelectingOK
<1>2. overlay' = Editing(w, "off") /\ "off" \in EditModes
  BY DEF Deselected, EditModes
<1> HIDE DEF w
<1> QED BY <1>1, <1>2, EditedCut

LEMMA LayoutsStep == LayoutsInv /\ [LayoutsNext]_layoutVars => LayoutsInv'
<1> SUFFICES ASSUME LayoutsInv, [LayoutsNext]_layoutVars PROVE LayoutsInv'
  OBVIOUS
<1>1. CASE UNCHANGED layoutVars
  <2>1. UNCHANGED <<prefsStore, overlay, panel, written>>
    BY <1>1 DEF layoutVars
  <2> QED BY <2>1 DEF LayoutsInv, SelectionOK, GesturingOn, OverlayType, WrittenType
<1>2. CASE \E visible \in BOOLEAN : SetVisible(visible)
  BY <1>2, SetVisibleStep
<1>3. CASE PinchDown \/ PinchMove \/ PinchUp \/ DragEnds
  BY <1>3, PinchDownStep, PinchMoveStep, PinchUpStep, DragEndsStep
<1>4. CASE InspectorEdit \/ DuplicateSelected \/ RemoveSelected
  BY <1>4, InspectorEditStep, DuplicateSelectedStep, RemoveSelectedStep
<1>5. CASE CloseInspector \/ BridgeCycle \/ BridgeToggle \/ BridgeSelectAll
  BY <1>5, OverlaySteps
<1>6. CASE \E s \in ButtonSlots :
             \/ ButtonDown(s) \/ RemoveButton(s) \/ PanelSelect(s) \/ AddPreset(s)
             \/ \E off \in BOOLEAN : ActionChange(s, off)
  BY <1>6, ButtonDownStep, UnselectStep, PanelSelectStep, AddPresetStep, ActionChangeStep DEF RemoveButton
<1>7. CASE \E o \in Orientations : Turn(o) \/ ResetLayout(o)
  BY <1>7, TurnStep, ResetLayoutStep
<1>8. CASE \E o \in Orientations : EditOrientation(o)
  <2>1. panel' \in Orientations /\ UNCHANGED <<prefsStore, overlay, written>>
    BY <1>8 DEF EditOrientation
  <2> QED BY <2>1 DEF LayoutsInv, SelectionOK, GesturingOn, OverlayType, WrittenType
<1>9. CASE \E o \in Orientations : MissingOrientation(o)
  <2>1. overlay' = Deselected(overlay) /\ CutOff /\ prefsStore' = prefsStore /\ panel' \in Orientations
    BY <1>9 DEF MissingOrientation
  <2> QED BY <2>1, DoneStep
<1>10. CASE \E store \in [Orientations -> OverlayButtons], persisted \in BOOLEAN : LoadStore(store, persisted)
  BY <1>10, LoadStoreStep
<1>11. CASE \E mode \in EditModes : PanelEditMode(mode)
  BY <1>11, PanelEditModeStep
<1>12. CASE PanelSettings \/ ApplyPreset \/ ButtonSettings \/ BuildKey
  BY <1>12, SettingsStep DEF PanelSettings, ApplyPreset, ButtonSettings, BuildKey
<1>13. CASE AddButton
  BY <1>13, AddButtonStep
<1>14. CASE PanelEditDone
  <2>1. overlay' = Deselected(overlay) /\ CutOff /\ prefsStore' = prefsStore /\ panel' \in Orientations
    BY <1>14, LayoutAtHand DEF PanelEditDone
  <2> QED BY <2>1, DoneStep
<1> QED BY <1>1, <1>2, <1>3, <1>4, <1>5, <1>6, <1>7, <1>8, <1>9, <1>10, <1>11, <1>12, <1>13, <1>14
       DEF LayoutsNext

ChromeType == [open : SUBSET Panels, shown : SUBSET Panels, dock : BOOLEAN,
               expanded : BOOLEAN, desktop : BOOLEAN, sidebar : BOOLEAN,
               stats : {"none", "off", "on"}, dark : BOOLEAN, settled : BOOLEAN]

Alone(c) == \A p, q \in Exclusive : p \in c.open /\ q \in c.open => p = q
Watched(c) == ("stats" \in c.open \/ "route" \in c.open) /\ ~c.dark => c.stats # "off"
\* The cards that a folded dock leaves as they are.
Constant(c) == /\ "stats" \in c.shown => "stats" \in c.open
               /\ "route" \in c.shown <=> "route" \in c.open
Coherent(c) == c \in ChromeType /\ Alone(c) /\ Watched(c) /\ Constant(c)
Cards(c) == \A p \in Panels \ {"stats"} : p \in c.shown <=> InView(c, p)
InOrder(c) == Coherent(c) /\ (c.settled => Cards(c))

PanelsInv == InOrder(chrome)

LEMMA PanelsShow == PanelsInv => PanelsTypeOK /\ PanelsInStep
<1> SUFFICES ASSUME PanelsInv PROVE PanelsTypeOK /\ PanelsInStep
  OBVIOUS
<1>1. /\ chrome \in ChromeType /\ Alone(chrome) /\ Watched(chrome) /\ Constant(chrome)
      /\ chrome.settled => Cards(chrome)
  BY DEF PanelsInv, InOrder, Coherent
<1>2. PanelsTypeOK /\ OneAtATimeOpen
  BY <1>1 DEF PanelsTypeOK, ChromeType, OneAtATimeOpen, Alone
<1>3. StatsCollected
  BY <1>1 DEF StatsCollected, Watched
<1>4. chrome.shown \in SUBSET Panels
  BY <1>1 DEF ChromeType
<1>5. CardsFollowFlags
  BY <1>1, <1>4 DEF CardsFollowFlags, Cards, Constant
<1> QED BY <1>2, <1>3, <1>5 DEF PanelsInStep

LEMMA PanelsInitially == PanelsInit => PanelsInv
<1> SUFFICES ASSUME NEW desktop \in BOOLEAN,
                    chrome = [open |-> {}, shown |-> {}, dock |-> desktop, expanded |-> FALSE,
                      desktop |-> desktop, sidebar |-> FALSE, stats |-> "none",
                      dark |-> FALSE, settled |-> TRUE]
             PROVE  PanelsInv
  BY DEF PanelsInit
<1>1. chrome \in ChromeType /\ chrome.open = {} /\ chrome.shown = {}
  BY DEF ChromeType
<1> QED BY <1>1 DEF PanelsInv, InOrder, Coherent, Alone, Watched, Constant, Cards, InView

\* All but the cards that are shown is the same.
SameButShown(c, d) ==
  /\ d.open = c.open /\ d.dock = c.dock /\ d.expanded = c.expanded /\ d.desktop = c.desktop
  /\ d.sidebar = c.sidebar /\ d.stats = c.stats /\ d.dark = c.dark /\ d.settled = c.settled

LEMMA ChromeFields ==
  ASSUME NEW c \in ChromeType
  PROVE  /\ c.open \in SUBSET Panels /\ c.shown \in SUBSET Panels /\ c.dock \in BOOLEAN
         /\ c.expanded \in BOOLEAN /\ c.desktop \in BOOLEAN /\ c.sidebar \in BOOLEAN
         /\ c.stats \in {"none", "off", "on"} /\ c.dark \in BOOLEAN /\ c.settled \in BOOLEAN
BY DEF ChromeType

LEMMA ApplyKeeps ==
  ASSUME NEW c \in ChromeType, NEW P \in SUBSET Panels
  PROVE  /\ Apply(c, P) \in ChromeType /\ SameButShown(c, Apply(c, P))
         /\ \A p \in P : p \in Apply(c, P).shown <=> InView(c, p)
         /\ \A p : p \notin P => (p \in Apply(c, P).shown <=> p \in c.shown)
<1> DEFINE s == (c.shown \ P) \cup {p \in P : InView(c, p)}
           d == [c EXCEPT !.shown = s]
<1>1. s \in SUBSET Panels
  BY ChromeFields
<1>2. Apply(c, P) = d
  BY DEF Apply
<1>3. \A p : p \in s <=> (p \in c.shown /\ p \notin P) \/ (p \in P /\ InView(c, p))
  OBVIOUS
<1> HIDE DEF s
<1>4. d \in ChromeType /\ SameButShown(c, d) /\ d.shown = s
  BY <1>1 DEF ChromeType, SameButShown
<1> HIDE DEF d
<1> QED BY <1>2, <1>3, <1>4

\* Seen by the same window: what is in view stays in view.
LEMMA SameView ==
  ASSUME NEW c, NEW d, SameButShown(c, d), NEW p PROVE InView(d, p) <=> InView(c, p)
BY DEF SameButShown, InView, ChromeVisible

LEMMA AppliedOn ==
  ASSUME NEW c, NEW d \in ChromeType, SameButShown(c, d), NEW P \in SUBSET Panels, NEW Q,
         \A p \in Q : p \in d.shown <=> InView(c, p),
         \A p : p \notin Q => (p \in d.shown <=> p \in c.shown)
  PROVE  LET e == Apply(d, P)
         IN  /\ e \in ChromeType /\ SameButShown(c, e)
             /\ \A p \in Q \cup P : p \in e.shown <=> InView(c, p)
             /\ \A p : p \notin Q \cup P => (p \in e.shown <=> p \in c.shown)
<1> DEFINE e == Apply(d, P)
<1>1. /\ e \in ChromeType /\ SameButShown(d, e)
      /\ \A p \in P : p \in e.shown <=> InView(d, p)
      /\ \A p : p \notin P => (p \in e.shown <=> p \in d.shown)
  BY ApplyKeeps
<1> HIDE DEF e
<1>2. SameButShown(c, e)
  BY <1>1 DEF SameButShown
<1>3. \A p : InView(d, p) <=> InView(c, p)
  BY SameView
<1>4. \A p \in Q \cup P : p \in e.shown <=> InView(c, p)
  BY <1>1, <1>3
<1>5. \A p : p \notin Q \cup P => (p \in e.shown <=> p \in c.shown)
  BY <1>1
<1> QED BY <1>1, <1>2, <1>4, <1>5 DEF e

LEMMA UnfoldedShows ==
  ASSUME NEW c \in ChromeType
  PROVE  LET d == Unfolded(c)
         IN  /\ d \in ChromeType /\ d.open = c.open /\ d.desktop = c.desktop /\ d.sidebar = c.sidebar
             /\ d.stats = c.stats /\ d.dark = c.dark
             /\ \A p \in Panels \ {"stats"} : p \in d.shown <=> InView(c, p)
             /\ "stats" \in d.shown <=> "stats" \in c.shown
<1> DEFINE b == [c EXCEPT !.dock = TRUE]
           d1 == Apply(b, {"route"})
           d2 == Apply(d1, {"profile", "debug"})
           d3 == Apply(d2, {"labs"})
           d4 == Apply(d3, {"pad"})
           d5 == Apply(d4, {"layout"})
           d6 == Apply(d5, {"bindings"})
           d7 == Apply(d6, {"touch"})
           d8 == Apply(d7, {"bridge"})
<1>1. Unfolded(c) = d8
  BY DEF Unfolded, SyncRoute, SyncSession, SyncLabs, SyncPad, SyncLayout, SyncBindings, SyncTouch, SyncBridge
<1>2. /\ b \in ChromeType /\ b.open = c.open /\ b.desktop = c.desktop /\ b.sidebar = c.sidebar
      /\ b.stats = c.stats /\ b.dark = c.dark /\ b.shown = c.shown
  BY DEF ChromeType
<1>3. /\ {"route"} \in SUBSET Panels /\ {"profile", "debug"} \in SUBSET Panels /\ {"labs"} \in SUBSET Panels
      /\ {"pad"} \in SUBSET Panels /\ {"layout"} \in SUBSET Panels /\ {"bindings"} \in SUBSET Panels
      /\ {"touch"} \in SUBSET Panels /\ {"bridge"} \in SUBSET Panels
  BY DEF Panels, Exclusive
<1> HIDE DEF b
<1> DEFINE Q1 == {"route"}
           Q2 == Q1 \cup {"profile", "debug"}
           Q3 == Q2 \cup {"labs"}
           Q4 == Q3 \cup {"pad"}
           Q5 == Q4 \cup {"layout"}
           Q6 == Q5 \cup {"bindings"}
           Q7 == Q6 \cup {"touch"}
           Q8 == Q7 \cup {"bridge"}
           Means(d, Q) == /\ d \in ChromeType /\ SameButShown(b, d)
                          /\ \A p \in Q : p \in d.shown <=> InView(b, p)
                          /\ \A p : p \notin Q => (p \in d.shown <=> p \in b.shown)
<1>4. Means(d1, Q1)
  BY <1>2, <1>3, ApplyKeeps
<1> HIDE DEF d1, Q1
<1>5. Means(d2, Q2)
  BY <1>3, <1>4, AppliedOn
<1> HIDE DEF d2, Q2
<1>6. Means(d3, Q3)
  BY <1>3, <1>5, AppliedOn
<1> HIDE DEF d3, Q3
<1>7. Means(d4, Q4)
  BY <1>3, <1>6, AppliedOn
<1> HIDE DEF d4, Q4
<1>8. Means(d5, Q5)
  BY <1>3, <1>7, AppliedOn
<1> HIDE DEF d5, Q5
<1>9. Means(d6, Q6)
  BY <1>3, <1>8, AppliedOn
<1> HIDE DEF d6, Q6
<1>10. Means(d7, Q7)
  BY <1>3, <1>9, AppliedOn
<1> HIDE DEF d7, Q7
<1>11. Means(d8, Q8)
  BY <1>3, <1>10, AppliedOn
<1> HIDE DEF d8
<1>12. Q8 = Panels \ {"stats"}
  BY DEF Q1, Q2, Q3, Q4, Q5, Q6, Q7, Panels, Exclusive
<1> HIDE DEF Q8
<1>13. \A p : InView(b, p) <=> InView(c, p)
  BY <1>2 DEF InView, ChromeVisible
<1> QED BY <1>1, <1>2, <1>11, <1>12, <1>13 DEF SameButShown

LEMMA Shuts ==
  ASSUME NEW c \in ChromeType, NEW P
  PROVE  LET d == Shut(c, P)
         IN  /\ d \in ChromeType /\ d.open = c.open \ P /\ d.shown = c.shown \ P
             /\ d.dock = c.dock /\ d.expanded = c.expanded /\ d.desktop = c.desktop
             /\ d.sidebar = c.sidebar /\ d.stats = c.stats /\ d.dark = c.dark
             /\ d.settled = c.settled
<1> DEFINE a == c.open \ P
           b == c.shown \ P
           d == [c EXCEPT !.open = a, !.shown = b]
<1>1. a \in SUBSET Panels /\ b \in SUBSET Panels
  BY ChromeFields
<1>2. Shut(c, P) = d
  BY DEF Shut
<1> HIDE DEF a, b
<1>3. /\ d \in ChromeType /\ d.open = a /\ d.shown = b
      /\ d.dock = c.dock /\ d.expanded = c.expanded /\ d.desktop = c.desktop
      /\ d.sidebar = c.sidebar /\ d.stats = c.stats /\ d.dark = c.dark
      /\ d.settled = c.settled
  BY <1>1 DEF ChromeType
<1> HIDE DEF d
<1> QED BY <1>2, <1>3 DEF a, b

LEMMA FoldedShows ==
  ASSUME NEW c, Coherent(c), ~ChromeVisible(c)
  PROVE  /\ Coherent(Folded(c)) /\ Cards(Folded(c)) /\ ~ChromeVisible(Folded(c))
         /\ Folded(c).stats = c.stats /\ Folded(c).dark = c.dark
<1> DEFINE b == [c EXCEPT !.dock = FALSE, !.expanded = FALSE]
           P == Decks \cup (IF c.desktop THEN {"route"} ELSE {})
           d == Shut(b, P)
<1>1. c \in ChromeType /\ Alone(c) /\ Watched(c) /\ Constant(c)
  BY DEF Coherent
<1>2. /\ b \in ChromeType /\ b.open = c.open /\ b.desktop = c.desktop /\ b.sidebar = c.sidebar
      /\ b.stats = c.stats /\ b.dark = c.dark /\ b.shown = c.shown
  BY <1>1 DEF ChromeType
<1>3. Folded(c) = d
  BY DEF Folded
<1> HIDE DEF b
<1>4. /\ d \in ChromeType /\ d.open = c.open \ P /\ d.shown = c.shown \ P
      /\ d.desktop = c.desktop /\ d.sidebar = c.sidebar /\ d.stats = c.stats /\ d.dark = c.dark
  BY <1>2, Shuts
<1> HIDE DEF d
<1>5. "stats" \notin P /\ \A p \in Panels : p \in P \/ p = "route" \/ p = "stats"
  BY DEF Decks, Panels, Exclusive
<1>6. "route" \notin Decks
  BY DEF Decks
<1> HIDE DEF P
<1>7. Alone(d) /\ Watched(d)
  BY <1>1, <1>4 DEF Alone, Watched
<1>8. Constant(d)
  BY <1>1, <1>4 DEF Constant
<1>9. Cards(d)
  BY <1>4, <1>5, <1>6, <1>8 DEF Cards, InView, Constant
<1> QED BY <1>3, <1>4, <1>7, <1>8, <1>9 DEF Coherent, ChromeVisible

\* Once a turn is laid out everything is in step, whatever was before.
LEMMA SyncedShows ==
  ASSUME NEW c, Coherent(c)
  PROVE  InOrder(Synced(c)) /\ Synced(c).settled
<1> DEFINE d == IF ChromeVisible(c) THEN Unfolded(c) ELSE Folded(c)
           k == d.dark /\ d.open \cap {"route", "stats"} # {}
           e == [d EXCEPT !.settled = TRUE, !.dark = k]
<1>1. Synced(c) = e
  BY DEF Synced
<1>2. Coherent(d) /\ Cards(d)
  <2>1. CASE ChromeVisible(c)
    <3>1. /\ d \in ChromeType /\ d.open = c.open /\ d.desktop = c.desktop /\ d.sidebar = c.sidebar
          /\ d.stats = c.stats /\ d.dark = c.dark
          /\ \A p \in Panels \ {"stats"} : p \in d.shown <=> InView(c, p)
          /\ "stats" \in d.shown <=> "stats" \in c.shown
      BY <2>1, UnfoldedShows DEF Coherent
    <3> HIDE DEF d
    <3>2. Alone(d) /\ Watched(d) /\ Cards(d)
      BY <3>1 DEF Coherent, Alone, Watched, Cards, InView, ChromeVisible
    <3>3. "route" \in Panels \ {"stats"} /\ "route" \notin Decks
      BY DEF Panels, Exclusive, Decks
    <3>4. Constant(d)
      BY <3>1, <3>3 DEF Coherent, Constant, InView
    <3> QED BY <3>1, <3>2, <3>4 DEF Coherent
  <2>2. CASE ~ChromeVisible(c)
    BY <2>2, FoldedShows
  <2> QED BY <2>1, <2>2
<1> HIDE DEF d
<1>3. k \in BOOLEAN /\ d \in ChromeType /\ (d.dark => k \/ ("stats" \notin d.open /\ "route" \notin d.open))
  BY <1>2 DEF Coherent, ChromeType
<1> HIDE DEF k
<1>4. /\ e \in ChromeType /\ e.open = d.open /\ e.shown = d.shown /\ e.desktop = d.desktop
      /\ e.sidebar = d.sidebar /\ e.stats = d.stats /\ e.settled /\ e.dark = k
  BY <1>3 DEF ChromeType
<1> HIDE DEF e
<1>5. Alone(e) /\ Watched(e) /\ Constant(e) /\ Cards(e)
  BY <1>2, <1>3, <1>4 DEF Coherent, Alone, Watched, Constant, Cards, InView, ChromeVisible
<1> QED BY <1>1, <1>4, <1>5 DEF Coherent, InOrder

-----------------------------------------------------------------------------
\* Opening and closing: the last thing each does is to lay the page out.
LEMMA ShutGood ==
  ASSUME NEW c, Coherent(c), NEW P PROVE Coherent(Shut(c, P))
<1>1. c \in ChromeType /\ Alone(c) /\ Watched(c) /\ Constant(c)
  BY DEF Coherent
<1> DEFINE d == Shut(c, P)
<1>2. /\ d \in ChromeType /\ d.open = c.open \ P /\ d.shown = c.shown \ P
      /\ d.stats = c.stats /\ d.dark = c.dark
  BY <1>1, Shuts
<1> HIDE DEF d
<1>3. Alone(d) /\ Watched(d) /\ Constant(d)
  BY <1>1, <1>2 DEF Alone, Watched, Constant
<1> QED BY <1>2, <1>3 DEF Coherent, d

LEMMA Flags ==
  ASSUME NEW c \in ChromeType, NEW a \in SUBSET Panels
  PROVE  LET d == [c EXCEPT !.open = a]
         IN  /\ d \in ChromeType /\ d.shown = c.shown /\ d.open = a
             /\ d.stats = c.stats /\ d.dark = c.dark
BY DEF ChromeType

\* A desktop deck is opened, with the panels whose place it takes closed.
LEMMA PanelOpenedKeeps ==
  ASSUME NEW c, Coherent(c), NEW p \in Decks, NEW on \in BOOLEAN, NEW closes,
         p \in Exclusive => Exclusive \ {p} \subseteq closes
  PROVE  InOrder(PanelOpened(c, p, on, closes))
<1> DEFINE b == IF on THEN Shut(c, closes) ELSE c
           a == IF on THEN b.open \cup {p} ELSE b.open \ {p}
           d == [b EXCEPT !.open = a]
           e == Apply(d, {p})
<1>1. Coherent(b)
  BY ShutGood
<1>2. on => b.open = c.open \ closes
  BY Shuts DEF Coherent
<1>3. PanelOpened(c, p, on, closes) = Synced(e)
  BY DEF PanelOpened, Flagged
<1>4. p \in Panels /\ p # "stats" /\ p # "route" /\ {p} \in SUBSET Panels
  BY DEF Decks
<1> HIDE DEF b
<1>5. /\ d \in ChromeType /\ d.shown = b.shown
      /\ d.open = IF on THEN b.open \cup {p} ELSE b.open \ {p}
      /\ d.stats = b.stats /\ d.dark = b.dark
  <2>1. b \in ChromeType
    BY <1>1 DEF Coherent
  <2>2. a \in SUBSET Panels
    BY <1>4, <2>1, ChromeFields
  <2> HIDE DEF a
  <2>3. d \in ChromeType /\ d.shown = b.shown /\ d.open = a /\ d.stats = b.stats /\ d.dark = b.dark
    BY <2>1, <2>2, Flags
  <2> HIDE DEF d
  <2> QED BY <2>3 DEF a
<1> HIDE DEF d
<1>6. /\ e \in ChromeType /\ SameButShown(d, e)
      /\ \A q : q \notin {p} => (q \in e.shown <=> q \in d.shown)
  BY <1>4, <1>5, ApplyKeeps
<1> HIDE DEF e
<1>7. Alone(e)
  BY <1>1, <1>2, <1>5, <1>6 DEF Alone, SameButShown, Coherent
<1>8. Watched(e) /\ Constant(e)
  BY <1>1, <1>4, <1>5, <1>6 DEF Watched, Constant, SameButShown, Coherent
<1>9. Coherent(e)
  BY <1>6, <1>7, <1>8 DEF Coherent
<1> QED BY <1>3, <1>9, SyncedShows

LEMMA Collects ==
  ASSUME NEW c \in ChromeType, NEW on \in BOOLEAN
  PROVE  LET d == Collect(c, on)
         IN  /\ d \in ChromeType /\ d.open = c.open /\ d.shown = c.shown
             /\ d.desktop = c.desktop /\ d.sidebar = c.sidebar /\ d.settled = c.settled
             /\ on => d.stats # "off"
             /\ d.dark => c.dark
             /\ ~on => (d.dark <=> c.dark)
<1>1. CASE c.stats = "none"
  <2>1. Collect(c, on) = c
    BY <1>1 DEF Collect
  <2> QED BY <1>1, <2>1
<1>2. CASE c.stats # "none"
  <2> DEFINE s == IF on THEN "on" ELSE "off"
             k == c.dark /\ ~on
             d == [c EXCEPT !.stats = s, !.dark = k]
  <2>1. Collect(c, on) = d
    BY <1>2 DEF Collect
  <2>2. s \in {"none", "off", "on"} /\ k \in BOOLEAN /\ (on => s # "off")
    OBVIOUS
  <2>3. (k => c.dark) /\ (~on => (k <=> c.dark))
    BY ChromeFields
  <2> HIDE DEF s, k
  <2>4. /\ d \in ChromeType /\ d.open = c.open /\ d.shown = c.shown
        /\ d.desktop = c.desktop /\ d.sidebar = c.sidebar /\ d.settled = c.settled
        /\ d.stats = s /\ d.dark = k
    BY <2>2 DEF ChromeType
  <2> HIDE DEF d
  <2> QED BY <2>1, <2>2, <2>3, <2>4
<1> QED BY <1>1, <1>2

\* The statistics go on or off with the two panels that show them.
LEMMA CollectGood ==
  ASSUME NEW c \in ChromeType, Alone(c), Constant(c), NEW on \in BOOLEAN,
         "stats" \in c.open \/ "route" \in c.open => on \/ c.dark
  PROVE  Coherent(Collect(c, on))
<1> DEFINE d == Collect(c, on)
<1>1. /\ d \in ChromeType /\ d.open = c.open /\ d.shown = c.shown
      /\ on => d.stats # "off"
      /\ ~on => (d.dark <=> c.dark)
  BY Collects
<1> HIDE DEF d
<1>2. Alone(d) /\ Watched(d) /\ Constant(d)
  BY <1>1 DEF Alone, Watched, Constant
<1> QED BY <1>1, <1>2 DEF Coherent, d

LEMMA OpenRouteKeeps ==
  ASSUME NEW c, Coherent(c), NEW on \in BOOLEAN
  PROVE  InOrder(OpenRoute(c, on))
<1> DEFINE P == {"stats", "labs", "pad", "layout", "bindings", "touch"}
           b == IF on THEN Shut(c, P) ELSE c
           a == IF on THEN b.open \cup {"route"} ELSE b.open \ {"route"}
           d == [b EXCEPT !.open = a]
           v == on \/ "stats" \in d.open
           f == Collect(d, v)
           e == Apply(f, {"route"})
<1>1. Coherent(b)
  BY ShutGood
<1>2. on => b.open = c.open \ P
  BY Shuts DEF Coherent
<1>3. OpenRoute(c, on) = Synced(e)
  BY DEF OpenRoute, Flagged
<1>4. "route" \in Panels /\ {"route"} \in SUBSET Panels /\ "route" \notin Decks /\ Exclusive \ {"route"} \subseteq P
  BY DEF Decks, Panels, Exclusive
<1> HIDE DEF b, P
<1>5. /\ d \in ChromeType /\ d.shown = b.shown
      /\ d.open = IF on THEN b.open \cup {"route"} ELSE b.open \ {"route"}
      /\ d.stats = b.stats /\ d.dark = b.dark
  <2>1. b \in ChromeType
    BY <1>1 DEF Coherent
  <2>2. a \in SUBSET Panels
    BY <1>4, <2>1, ChromeFields
  <2> HIDE DEF a
  <2>3. d \in ChromeType /\ d.shown = b.shown /\ d.open = a /\ d.stats = b.stats /\ d.dark = b.dark
    BY <2>1, <2>2, Flags
  <2> HIDE DEF d
  <2> QED BY <2>3 DEF a
<1> HIDE DEF d
<1>6. /\ f \in ChromeType /\ f.open = d.open /\ f.shown = d.shown
      /\ v => f.stats # "off"
      /\ ~v => (f.dark <=> d.dark)
  BY <1>5, Collects
<1>7. "stats" \in d.open \/ "route" \in d.open => v
  BY <1>5
<1> HIDE DEF f, v
<1>8. /\ e \in ChromeType /\ SameButShown(f, e)
      /\ "route" \in e.shown <=> InView(f, "route")
      /\ \A q : q \notin {"route"} => (q \in e.shown <=> q \in f.shown)
  BY <1>4, <1>6, ApplyKeeps
<1> HIDE DEF e
<1>9. Alone(e)
  BY <1>1, <1>2, <1>4, <1>5, <1>6, <1>8 DEF Alone, SameButShown, Coherent
<1>10. Watched(e)
  BY <1>6, <1>7, <1>8 DEF Watched, SameButShown
<1>11. Constant(e)
  BY <1>1, <1>4, <1>5, <1>6, <1>8 DEF Constant, SameButShown, InView, Coherent
<1>12. Coherent(e)
  BY <1>8, <1>9, <1>10, <1>11 DEF Coherent
<1> QED BY <1>3, <1>12, SyncedShows

\* The card of the statistics is opened where nothing else of its place is.
LEMMA OpenStatsKeeps ==
  ASSUME NEW c, Coherent(c), NEW on \in BOOLEAN, on => c.open \cap Exclusive \subseteq {"stats"}
  PROVE  InOrder(OpenStats(c, on))
<1> DEFINE a == IF on THEN c.open \cup {"stats"} ELSE c.open \ {"stats"}
           d == [c EXCEPT !.open = a]
           v == on \/ "route" \in d.open
           e == Collect(d, v)
           s == e.shown \cup {"stats"}
           x == [e EXCEPT !.shown = s]
           y == Shut(e, {"stats"})
<1>0. "stats" \in Panels /\ "stats" \in Exclusive
  BY DEF Panels, Exclusive
<1>1. c \in ChromeType /\ Alone(c) /\ Watched(c) /\ Constant(c)
  BY DEF Coherent
<1>2. OpenStats(c, on) = Synced(IF on THEN x ELSE y)
  BY DEF OpenStats, Flagged
<1>3. /\ d \in ChromeType /\ d.shown = c.shown
      /\ d.open = IF on THEN c.open \cup {"stats"} ELSE c.open \ {"stats"}
      /\ d.stats = c.stats /\ d.dark = c.dark
  <2>1. a \in SUBSET Panels
    BY <1>0, <1>1, ChromeFields
  <2> HIDE DEF a
  <2>2. d \in ChromeType /\ d.shown = c.shown /\ d.open = a /\ d.stats = c.stats /\ d.dark = c.dark
    BY <1>1, <2>1, Flags
  <2> HIDE DEF d
  <2> QED BY <2>2 DEF a
<1> HIDE DEF d
<1>4. /\ e \in ChromeType /\ e.open = d.open /\ e.shown = d.shown
      /\ v => e.stats # "off"
      /\ ~v => (e.dark <=> d.dark)
  BY <1>3, Collects
<1>5. "stats" \in d.open \/ "route" \in d.open => v
  BY <1>3
<1> HIDE DEF e, v
<1>6. CASE on
  <2>1. s \in SUBSET Panels
    BY <1>0, <1>4, ChromeFields
  <2>2. \A q : q \in s <=> q \in e.shown \/ q = "stats"
    OBVIOUS
  <2> HIDE DEF s
  <2>3. /\ x \in ChromeType /\ x.shown = s /\ x.open = e.open /\ x.stats = e.stats /\ x.dark = e.dark
    BY <1>4, <2>1 DEF ChromeType
  <2> HIDE DEF x
  <2>4. Alone(x)
    BY <1>3, <1>4, <1>6, <2>3 DEF Alone
  <2>5. Watched(x)
    BY <1>4, <1>5, <2>3 DEF Watched
  <2>6. Constant(x)
    BY <1>1, <1>3, <1>4, <1>6, <2>2, <2>3 DEF Constant
  <2> QED BY <1>2, <1>6, <2>3, <2>4, <2>5, <2>6, SyncedShows DEF Coherent
<1>7. CASE ~on
  <2>1. y \in ChromeType /\ y.open = e.open \ {"stats"} /\ y.shown = e.shown \ {"stats"}
        /\ y.stats = e.stats /\ y.dark = e.dark
    BY <1>4, Shuts
  <2> HIDE DEF y
  <2>2. Alone(y)
    BY <1>1, <1>3, <1>4, <1>7, <2>1 DEF Alone
  <2>3. Watched(y)
    BY <1>4, <1>5, <2>1 DEF Watched
  <2>4. Constant(y)
    BY <1>1, <1>3, <1>4, <1>7, <2>1 DEF Constant
  <2> QED BY <1>2, <1>7, <2>1, <2>2, <2>3, <2>4, SyncedShows DEF Coherent
<1> QED BY <1>6, <1>7

LEMMA ToggleStatsKeeps ==
  ASSUME NEW c, InOrder(c) PROVE InOrder(ToggleStats(c))
<1>1. CASE c.stats = "none"
  BY <1>1 DEF ToggleStats
<1>2. CASE c.stats # "none"
  <2> DEFINE on == "stats" \notin c.open
             b == IF on THEN Shut(c, Exclusive \ {"stats"}) ELSE c
  <2>1. ToggleStats(c) = OpenStats(b, on)
    BY <1>2 DEF ToggleStats
  <2>2. Coherent(b)
    BY ShutGood DEF InOrder
  <2>3. on => b.open \cap Exclusive \subseteq {"stats"}
    BY Shuts DEF InOrder, Coherent
  <2>4. on \in BOOLEAN
    OBVIOUS
  <2> HIDE DEF on, b
  <2> QED BY <2>1, <2>2, <2>3, <2>4, OpenStatsKeeps
<1> QED BY <1>1, <1>2

\* Opens a panel other than the statistics, or closes any.
LEMMA SetOpenKeeps ==
  ASSUME NEW c, Coherent(c), NEW p \in Panels, NEW on \in BOOLEAN, p = "stats" => ~on
  PROVE  InOrder(SetOpen(c, p, on))
<1>1. /\ {"labs", "pad", "layout", "bindings", "touch", "bridge", "profile", "debug"} \subseteq Decks
      /\ Exclusive \cap {"bridge", "profile", "debug"} = {}
      /\ Exclusive = {"route", "stats", "labs", "pad", "layout", "bindings", "touch"}
  BY DEF Decks, Panels, Exclusive
<1>2. InOrder(OpenRoute(c, on))
  BY OpenRouteKeeps
<1>3. InOrder(OpenLabs(c, on)) /\ InOrder(OpenPad(c, on)) /\ InOrder(OpenLayout(c, on))
  BY <1>1, PanelOpenedKeeps DEF OpenLabs, OpenPad, OpenLayout
<1>4. InOrder(OpenBindings(c, on)) /\ InOrder(OpenTouch(c, on))
  BY <1>1, PanelOpenedKeeps DEF OpenBindings, OpenTouch
<1>5. InOrder(OpenBridge(c, on)) /\ InOrder(OpenProfile(c, on)) /\ InOrder(OpenDebug(c, on))
  BY <1>1, PanelOpenedKeeps DEF OpenBridge, OpenProfile, OpenDebug
<1>6. ~on => InOrder(OpenStats(c, on))
  BY OpenStatsKeeps
<1>7. p = "stats" \/ p \in {"route", "labs", "pad", "layout", "bindings", "touch", "bridge", "profile", "debug"}
  BY DEF Panels, Exclusive
<1> QED BY <1>2, <1>3, <1>4, <1>5, <1>6, <1>7 DEF SetOpen

LEMMA PanelToggledKeeps ==
  ASSUME NEW c, Coherent(c), NEW p \in Panels \ {"stats"}
  PROVE  InOrder(PanelToggled(c, p))
BY SetOpenKeeps DEF PanelToggled

LEMMA ExpandedKeeps ==
  ASSUME NEW c, InOrder(c), NEW on \in BOOLEAN
  PROVE  InOrder(Expanded(c, on))
<1> DEFINE d == [c EXCEPT !.expanded = on]
<1>1. /\ d \in ChromeType /\ d.open = c.open /\ d.shown = c.shown /\ d.stats = c.stats /\ d.dark = c.dark
  BY DEF InOrder, Coherent, ChromeType
<1>2. Expanded(c, on) = IF c.expanded = on THEN c ELSE Synced(d)
  BY DEF Expanded
<1> HIDE DEF d
<1>3. Coherent(d)
  BY <1>1 DEF InOrder, Coherent, Alone, Watched, Constant
<1> QED BY <1>2, <1>3, SyncedShows

LEMMA SidebarKeeps ==
  ASSUME NEW c, Coherent(c), NEW on \in BOOLEAN
  PROVE  InOrder(Sidebar(c, on))
<1> DEFINE d == [c EXCEPT !.sidebar = on]
<1>1. /\ d \in ChromeType /\ d.open = c.open /\ d.shown = c.shown /\ d.stats = c.stats /\ d.dark = c.dark
  BY DEF Coherent, ChromeType
<1>2. Sidebar(c, on) = Synced(d)
  BY DEF Sidebar
<1> HIDE DEF d
<1>3. Coherent(d)
  BY <1>1 DEF Coherent, Alone, Watched, Constant
<1> QED BY <1>2, <1>3, SyncedShows

LEMMA ReplacedKeeps ==
  ASSUME NEW c, InOrder(c) PROVE InOrder(Replaced(c))
<1> DEFINE k == c.open \cap {"route", "stats"} # {}
           d == [c EXCEPT !.stats = "off", !.dark = k]
<1>1. k \in BOOLEAN /\ ("stats" \in c.open \/ "route" \in c.open => k)
  OBVIOUS
<1>2. Replaced(c) = d
  BY DEF Replaced
<1> HIDE DEF k
<1>3. /\ d \in ChromeType /\ d.open = c.open /\ d.shown = c.shown /\ d.desktop = c.desktop
      /\ d.sidebar = c.sidebar /\ d.settled = c.settled /\ d.dark = k
  BY <1>1 DEF ChromeType, InOrder, Coherent
<1> HIDE DEF d
<1>4. Coherent(d)
  BY <1>1, <1>3 DEF InOrder, Coherent, Alone, Watched, Constant
<1>5. d.settled => Cards(d)
  BY <1>3 DEF InOrder, Cards, InView, ChromeVisible
<1> QED BY <1>2, <1>4, <1>5 DEF InOrder

LEMMA OpenTuningKeeps ==
  ASSUME NEW c, Coherent(c) PROVE InOrder(OpenTuning(c))
<1>1. Coherent(Sidebar(c, TRUE))
  BY SidebarKeeps DEF InOrder
<1>2. "labs" \in Decks /\ OpenTuning(c) = SetOpen(Sidebar(c, TRUE), "labs", FALSE) /\ "labs" \in Panels
  BY DEF OpenTuning, SetOpen, Decks, Panels, Exclusive
<1> QED BY <1>1, <1>2, SetOpenKeeps

-----------------------------------------------------------------------------
\* What the buttons of a panel come to, before the refresh.
LEMMA SetOpens ==
  ASSUME NEW c, InOrder(c)
  PROVE  /\ InOrder(OpenPad(c, TRUE)) /\ InOrder(OpenLayout(c, TRUE)) /\ InOrder(OpenBindings(c, TRUE))
         /\ InOrder(OpenTouch(c, TRUE)) /\ InOrder(OpenDebug(c, TRUE)) /\ InOrder(OpenBridge(c, TRUE))
         /\ InOrder(OpenProfile(c, TRUE)) /\ InOrder(OpenTuning(c))
         /\ InOrder(ToggleStats(c)) /\ InOrder(OpenRoute(c, FALSE))
<1>1. Coherent(c)
  BY DEF InOrder
<1>2. \A p \in Panels : p # "stats" => InOrder(SetOpen(c, p, TRUE))
  BY <1>1, SetOpenKeeps
<1>3. {"pad", "layout", "bindings", "touch", "debug", "bridge", "profile"} \subseteq Panels
  BY DEF Panels, Exclusive
<1>4. InOrder(SetOpen(c, "pad", TRUE)) /\ InOrder(SetOpen(c, "layout", TRUE)) /\ InOrder(SetOpen(c, "bindings", TRUE))
  BY <1>2, <1>3
<1>5. InOrder(SetOpen(c, "touch", TRUE)) /\ InOrder(SetOpen(c, "debug", TRUE)) /\ InOrder(SetOpen(c, "bridge", TRUE))
      /\ InOrder(SetOpen(c, "profile", TRUE))
  BY <1>2, <1>3
<1> QED BY <1>1, <1>4, <1>5, OpenTuningKeeps, ToggleStatsKeeps, OpenRouteKeeps DEF SetOpen

LEMMA ButtonsKeep ==
  ASSUME NEW c, InOrder(c), NEW p \in Panels, NEW d \in BarButtons(c, p)
  PROVE  InOrder(d)
<1>1. Coherent(c) /\ \A e : InOrder(e) => Coherent(e)
  BY DEF InOrder
<1>2. \A e \in Again(c) : InOrder(e)
  BY ReplacedKeeps DEF Again
<1>3. \A q \in {"pad", "layout", "bindings", "touch", "profile", "debug"} : InOrder(SetOpen(c, q, TRUE))
  <2>1. \A q \in {"pad", "layout", "bindings", "touch", "profile", "debug"} : q \in Panels /\ q # "stats"
    BY DEF Panels, Exclusive
  <2> QED BY <1>1, <2>1, SetOpenKeeps
<1>4. CASE p = "profile"
  BY <1>2, <1>4 DEF BarButtons, ProfileButtons
<1>5. CASE p = "labs"
  BY <1>2, <1>3, <1>5 DEF BarButtons, LabsButtons
<1>6. CASE p = "pad"
  BY <1>6, SetOpens DEF BarButtons, PadButtons, PadCardActions
<1>7. CASE p = "layout"
  BY <1>7, SetOpens DEF BarButtons, LayoutButtons, LayoutActions
<1>8. CASE p = "bindings"
  BY <1>8, SetOpens DEF BarButtons, BindingsButtons, BindingsActions
<1>9. CASE p = "touch"
  BY <1>9, SetOpens DEF BarButtons, TouchButtons
<1>10. CASE p = "debug"
  BY <1>2, <1>10, SetOpens DEF BarButtons, DebugButtons
<1>11. CASE p = "bridge"
  <2>1. "route" \in Panels \ {"stats"} /\ (~c.sidebar) \in BOOLEAN
    BY DEF Panels, Exclusive
  <2>2. InOrder(PanelToggled(c, "route")) /\ InOrder(Sidebar(c, ~c.sidebar))
    BY <1>1, <2>1, PanelToggledKeeps, SidebarKeeps
  <2> QED BY <1>2, <1>11, <2>2, SetOpens DEF BarButtons, BridgeButtons
<1>12. CASE p = "route"
  <2>1. Coherent(IF "stats" \in c.open THEN c ELSE ToggleStats(c))
    BY <1>1, SetOpens
  <2>2. InOrder(OpenRoute(IF "stats" \in c.open THEN c ELSE ToggleStats(c), FALSE))
    BY <2>1, OpenRouteKeeps
  <2>3. \A q \in {"profile", "debug"} : InOrder(OpenRoute(SetOpen(c, q, TRUE), FALSE))
    BY <1>1, <1>3, OpenRouteKeeps
  <2> QED BY <1>2, <1>12, <2>2, <2>3 DEF BarButtons, RouteButtons
<1>13. CASE p = "stats"
  BY <1>13 DEF BarButtons
<1> QED BY <1>4, <1>5, <1>6, <1>7, <1>8, <1>9, <1>10, <1>11, <1>12, <1>13 DEF Panels, Exclusive

LEMMA CloseAllKeeps ==
  ASSUME NEW c, InOrder(c), NEW P
  PROVE  InOrder(CloseAll(c, P))
<1> DEFINE d == Shut(c, P)
           e == Collect(d, "stats" \in d.open)
<1>1. Coherent(d)
  BY ShutGood DEF InOrder
<1>2. CloseAll(c, P) = Synced(IF "route" \in P THEN e ELSE d)
  BY DEF CloseAll
<1>3. "route" \in P => "route" \notin d.open
  BY Shuts DEF InOrder, Coherent
<1> HIDE DEF d
<1>4. "route" \in P => Coherent(e)
  <2>1. d \in ChromeType /\ Alone(d) /\ Constant(d) /\ ("stats" \in d.open) \in BOOLEAN
    BY <1>1 DEF Coherent
  <2>2. "route" \in P /\ ("stats" \in d.open \/ "route" \in d.open) => "stats" \in d.open
    BY <1>3
  <2> QED BY <2>1, <2>2, CollectGood
<1> QED BY <1>1, <1>2, <1>4, SyncedShows

LEMMA LowMemoryKeeps ==
  ASSUME NEW c, InOrder(c)
  PROVE  InOrder(Synced([Collect(Shut(c, {"stats"}), FALSE) EXCEPT !.dark = TRUE]))
<1> DEFINE d == Shut(c, {"stats"})
           e == Collect(d, FALSE)
           f == [e EXCEPT !.dark = TRUE]
<1>1. Coherent(d)
  BY ShutGood DEF InOrder
<1> HIDE DEF d
<1>2. e \in ChromeType /\ e.open = d.open /\ e.shown = d.shown
  BY <1>1, Collects DEF Coherent
<1> HIDE DEF e
<1>3. f \in ChromeType /\ f.open = e.open /\ f.shown = e.shown /\ f.dark
  BY <1>2 DEF ChromeType
<1>6. [Collect(Shut(c, {"stats"}), FALSE) EXCEPT !.dark = TRUE] = f
  BY DEF e, d
<1> HIDE DEF f
<1>4. Coherent(f)
  BY <1>1, <1>2, <1>3 DEF Coherent, Alone, Watched, Constant
<1> QED BY <1>4, <1>6, SyncedShows

LEMMA CleanKeeps ==
  ASSUME NEW c, InOrder(c), NEW P
  PROVE  InOrder(Synced(Sidebar(Shut([c EXCEPT !.expanded = FALSE], P), FALSE)))
<1> DEFINE b == [c EXCEPT !.expanded = FALSE]
<1>1. b \in ChromeType /\ b.open = c.open /\ b.shown = c.shown /\ b.stats = c.stats /\ b.dark = c.dark
  BY DEF InOrder, Coherent, ChromeType
<1> HIDE DEF b
<1>2. Coherent(b)
  BY <1>1 DEF InOrder, Coherent, Alone, Watched, Constant
<1>3. Coherent(Shut(b, P))
  BY <1>2, ShutGood
<1>4. InOrder(Sidebar(Shut(b, P), FALSE))
  BY <1>3, SidebarKeeps
<1>5. InOrder(Synced(Sidebar(Shut(b, P), FALSE)))
  BY <1>4, SyncedShows DEF InOrder
<1> QED BY <1>5 DEF b

LEMMA PollKeeps ==
  ASSUME InOrder(chrome), PollStats
  PROVE  InOrder(chrome')
<1> DEFINE streaming == chrome.stats = "on" /\ chrome.open \cap {"stats", "route"} # {}
           c == SyncRoute(chrome)
           s == IF ~streaming THEN c.shown \ {"stats"} ELSE c.shown \cup ({"stats"} \cap c.open)
           d == [c EXCEPT !.shown = s]
<1>1. chrome' = d
  BY DEF PollStats
<1>2. Coherent(chrome) /\ chrome \in ChromeType /\ Constant(chrome)
  BY DEF InOrder, Coherent
<1>3. /\ c \in ChromeType /\ SameButShown(chrome, c)
      /\ "route" \in c.shown <=> InView(chrome, "route")
      /\ \A p : p \notin {"route"} => (p \in c.shown <=> p \in chrome.shown)
  <2>1. {"route"} \in SUBSET Panels
    BY DEF Panels, Exclusive
  <2> QED BY <1>2, <2>1, ApplyKeeps DEF SyncRoute
<1>4. "route" \notin Decks /\ "stats" \in Panels
  BY DEF Decks, Panels, Exclusive
<1> HIDE DEF c
<1>5. /\ s \in SUBSET Panels
      /\ \A p : p # "stats" => (p \in s <=> p \in c.shown)
      /\ "stats" \in s => "stats" \in c.open \/ "stats" \in c.shown
  BY <1>3, <1>4, ChromeFields
<1> HIDE DEF s
<1>6. d \in ChromeType /\ SameButShown(c, d) /\ d.shown = s
  BY <1>3, <1>5 DEF ChromeType, SameButShown
<1> HIDE DEF d
<1>7. SameButShown(chrome, d)
  BY <1>3, <1>6 DEF SameButShown
<1>8. \A p : p # "stats" => (p \in d.shown <=> p \in chrome.shown)
  BY <1>2, <1>3, <1>4, <1>5, <1>6 DEF Constant, InView
<1>9. Alone(d) /\ Watched(d)
  BY <1>2, <1>7 DEF Coherent, Alone, Watched, SameButShown
<1>10. Constant(d)
  BY <1>2, <1>3, <1>5, <1>6, <1>7, <1>8 DEF Constant, SameButShown
<1>11. chrome.settled => Cards(d)
  <2>1. chrome.settled => Cards(chrome)
    BY DEF InOrder
  <2>2. \A p : InView(d, p) <=> InView(chrome, p)
    BY <1>7, SameView
  <2> QED BY <1>8, <2>1, <2>2 DEF Cards
<1> QED BY <1>1, <1>6, <1>7, <1>9, <1>10, <1>11 DEF InOrder, Coherent, SameButShown

LEMMA PanelsStep == PanelsInv /\ [PanelsNext]_chrome => PanelsInv'
<1> SUFFICES ASSUME InOrder(chrome), [PanelsNext]_chrome PROVE InOrder(chrome')
  BY DEF PanelsInv
<1>1. Coherent(chrome) /\ chrome \in ChromeType /\ chrome.shown \subseteq Panels
  BY ChromeFields DEF InOrder, Coherent
<1>2. \A p \in {"route", "bridge", "debug", "labs"} : p \in Panels \ {"stats"}
  BY DEF Panels, Exclusive
<1>3. \A p \in {"route", "bridge", "debug", "labs"} : InOrder(PanelToggled(chrome, p))
  BY <1>1, <1>2, PanelToggledKeeps
<1>4. CASE UNCHANGED chrome
  BY <1>4
<1>5. CASE RouteBadge
  BY <1>3, <1>5 DEF RouteBadge
<1>6. CASE PressDock
  BY <1>6, ExpandedKeeps DEF PressDock
<1>7. CASE DockAction
  <2>1. InOrder(Synced(chrome)) /\ InOrder(ToggleStats(chrome)) /\ InOrder(PanelToggled(chrome, "debug"))
    BY <1>1, <1>3, SyncedShows, SetOpens
  <2> QED BY <1>7, <2>1, ExpandedKeeps DEF DockAction
<1>8. CASE ClosePanel
  BY <1>1, <1>8, SetOpenKeeps DEF ClosePanel
<1>9. CASE PressButton
  <2>0. PICK p \in chrome.shown : \E c \in BarButtons(chrome, p) : chrome' = Synced(c)
    BY <1>9 DEF PressButton
  <2>1. PICK c \in BarButtons(chrome, p) : chrome' = Synced(c)
    BY <2>0
  <2>2. Coherent(c)
    BY <1>1, ButtonsKeep DEF InOrder
  <2> QED BY <2>1, <2>2, SyncedShows
<1>10. CASE MiniPad
  BY <1>10, SetOpens DEF MiniPad
<1>11. CASE NativeAction
  BY <1>11, SetOpens DEF NativeAction
<1>12. CASE SidebarPress
  BY <1>3, <1>12, SetOpens DEF SidebarPress
<1>13. CASE PressOutside
  <2>1. PICK spot : chrome' = IF spot = "dock" THEN CloseAll(chrome, chrome.shown \ Spared(spot))
                               ELSE Expanded(CloseAll(chrome, chrome.shown \ Spared(spot)), FALSE)
    BY <1>13 DEF PressOutside
  <2>2. InOrder(CloseAll(chrome, chrome.shown \ Spared(spot)))
    BY CloseAllKeeps
  <2> QED BY <2>1, <2>2, ExpandedKeeps
<1>14. CASE SidebarToggles
  BY <1>1, <1>14, SidebarKeeps DEF SidebarToggles
<1>15. CASE WindowTurns
  <2> DEFINE d == [chrome EXCEPT !.desktop = ~chrome.desktop, !.settled = FALSE]
  <2>1. /\ d \in ChromeType /\ d.open = chrome.open /\ d.shown = chrome.shown
        /\ d.stats = chrome.stats /\ d.dark = chrome.dark /\ ~d.settled
    BY <1>1 DEF ChromeType
  <2>2. chrome' = d
    BY <1>15 DEF WindowTurns
  <2> HIDE DEF d
  <2>3. Alone(d) /\ Watched(d) /\ Constant(d)
    BY <1>1, <2>1 DEF Coherent, Alone, Watched, Constant
  <2> QED BY <2>1, <2>2, <2>3 DEF InOrder, Coherent
<1>16. CASE LayoutSettles
  BY <1>1, <1>16, SyncedShows DEF LayoutSettles
<1>17. CASE CleanFullscreen
  BY <1>17, CleanKeeps DEF CleanFullscreen
<1>18. CASE LowMemory
  BY <1>18, LowMemoryKeeps DEF LowMemory
<1>19. CASE NewStream
  BY <1>19, ReplacedKeeps DEF NewStream
<1>20. CASE StreamEnds
  <2> DEFINE d == [chrome EXCEPT !.stats = "none"]
  <2>1. /\ d \in ChromeType /\ d.open = chrome.open /\ d.shown = chrome.shown /\ d.settled = chrome.settled
        /\ d.stats = "none" /\ d.dark = chrome.dark /\ d.desktop = chrome.desktop /\ d.sidebar = chrome.sidebar
    BY <1>1 DEF ChromeType
  <2>2. chrome' = d
    BY <1>20 DEF StreamEnds
  <2> HIDE DEF d
  <2>3. Alone(d) /\ Watched(d) /\ Constant(d)
    BY <1>1, <2>1 DEF Coherent, Alone, Watched, Constant
  <2>4. d.settled => Cards(d)
    BY <2>1 DEF InOrder, Cards, InView, ChromeVisible
  <2> QED BY <2>1, <2>2, <2>3, <2>4 DEF InOrder, Coherent
<1>21. CASE OthersNeedStats
  <2> DEFINE d == Collect(chrome, TRUE)
  <2>1. Coherent(d)
    BY <1>1, CollectGood DEF Coherent
  <2>2. d.open = chrome.open /\ d.shown = chrome.shown /\ d.desktop = chrome.desktop
        /\ d.sidebar = chrome.sidebar /\ d.settled = chrome.settled
    BY <1>1, Collects
  <2>3. chrome' = d
    BY <1>21 DEF OthersNeedStats
  <2> HIDE DEF d
  <2>4. d.settled => Cards(d)
    BY <2>2 DEF InOrder, Cards, InView, ChromeVisible
  <2> QED BY <2>1, <2>3, <2>4 DEF InOrder
<1>22. CASE PollStats
  BY <1>22, PollKeeps
<1> QED BY <1>4, <1>5, <1>6, <1>7, <1>8, <1>9, <1>10, <1>11, <1>12, <1>13, <1>14, <1>15, <1>16, <1>17,
           <1>18, <1>19, <1>20, <1>21, <1>22 DEF PanelsNext

Rank(P, i) == Cardinality({j \in P : j < i})
AtRank(P, k) == CHOOSE i \in P : Cardinality({j \in P : j < i}) = k - 1

LEMMA Ranks ==
  ASSUME NEW P \in SUBSET Nat, IsFiniteSet(P)
  PROVE  /\ Cardinality(P) \in Nat
         /\ \A i \in P : Rank(P, i) \in 0 .. Cardinality(P) - 1
         /\ \A i, k \in P : Rank(P, i) = Rank(P, k) => i = k
<1>1. Cardinality(P) \in Nat
  BY FS_CardinalityType
<1>2. ASSUME NEW i \in P PROVE Rank(P, i) \in 0 .. Cardinality(P) - 1
  <2> DEFINE B == {j \in P : j < i}
  <2>1. B \in SUBSET P /\ i \notin B
    OBVIOUS
  <2>2. IsFiniteSet(B) /\ Cardinality(B) <= Cardinality(P) /\ Cardinality(B) \in Nat
        /\ (Cardinality(B) = Cardinality(P) => B = P)
    BY <2>1, FS_Subset, FS_CardinalityType
  <2> HIDE DEF B
  <2>3. Cardinality(B) # Cardinality(P)
    BY <2>1, <2>2, <1>2
  <2>4. Cardinality(B) \in 0 .. Cardinality(P) - 1
    BY <1>1, <2>2, <2>3
  <2> QED BY <2>4 DEF Rank, B
<1>3. ASSUME NEW i \in P, NEW k \in P, i < k PROVE Rank(P, i) # Rank(P, k)
  <2> DEFINE A == {j \in P : j < i}
             B == {j \in P : j < k}
  <2>0. \A j \in P : j \in Nat
    OBVIOUS
  <2>1. A \in SUBSET B /\ i \in B /\ i \notin A /\ B \in SUBSET P
    <3>1. i < k /\ ~(i < i)
      BY <1>3, <2>0
    <3>2. \A j \in P : j < i => j < k
      BY <2>0, <3>1
    <3> QED BY <3>1, <3>2
  <2>2. IsFiniteSet(B)
    BY <2>1, FS_Subset
  <2>3. Cardinality(A) = Cardinality(B) => A = B
    BY <2>1, <2>2, FS_Subset
  <2>4. Cardinality(A) # Cardinality(B)
    BY <2>1, <2>3
  <2> QED BY <2>4 DEF Rank
<1>4. ASSUME NEW i \in P, NEW k \in P, Rank(P, i) = Rank(P, k) PROVE i = k
  <2>1. ~(i < k) /\ ~(k < i)
    BY <1>3, <1>4
  <2> QED BY <2>1
<1> QED BY <1>1, <1>2, <1>4

\* Every rank is that of one position, because no two positions have the same.
LEMMA EachRank ==
  ASSUME NEW P \in SUBSET Nat, IsFiniteSet(P), NEW k \in 1 .. Cardinality(P)
  PROVE  AtRank(P, k) \in P /\ Rank(P, AtRank(P, k)) = k - 1
<1> DEFINE n == Cardinality(P)
           T == 0 .. n - 1
           f == [i \in P |-> Rank(P, i)]
<1>1. n \in Nat /\ n - 1 \in Int
  BY FS_CardinalityType
<1>2. f \in Injection(P, T)
  BY Ranks DEF Injection, IsInjective
<1>3. IsFiniteSet(T) /\ Cardinality(T) = n
  <2> DEFINE m == n - 1
  <2>1. 0 \in Int /\ m \in Int
    BY <1>1
  <2> HIDE DEF m
  <2>2. IsFiniteSet(0 .. m) /\ Cardinality(0 .. m) = IF 0 > m THEN 0 ELSE m - 0 + 1
    BY <2>1, FS_Interval
  <2> QED BY <1>1, <2>2 DEF m
<1>4. f \in Surjection(P, T)
  BY <1>2, <1>3, FS_Injection
<1>5. k - 1 \in T
  BY <1>1
<1>6. \E i \in P : f[i] = k - 1
  BY <1>4, <1>5 DEF Surjection
<1>7. \E i \in P : Cardinality({j \in P : j < i}) = k - 1
  BY <1>6 DEF Rank
<1> QED BY <1>7 DEF AtRank, Rank

LEMMA Picks ==
  ASSUME NEW s, NEW P \in SUBSET Nat, IsFiniteSet(P)
  PROVE  /\ Cardinality(P) \in Nat /\ DOMAIN Picked(s, P) = 1 .. Cardinality(P)
         /\ \A k \in 1 .. Cardinality(P) : \E i \in P : Picked(s, P)[k] = s[i] /\ Rank(P, i) = k - 1
         /\ \A i \in P : \E k \in 1 .. Cardinality(P) : Picked(s, P)[k] = s[i]
<1> DEFINE n == Cardinality(P)
<1>1. n \in Nat
  BY FS_CardinalityType
<1>2. Picked(s, P) = [k \in 1 .. n |-> s[AtRank(P, k)]]
  BY DEF Picked, AtRank
<1>3. \A k \in 1 .. n : AtRank(P, k) \in P /\ Rank(P, AtRank(P, k)) = k - 1
  BY EachRank
<1>4. \A k \in 1 .. n : \E i \in P : Picked(s, P)[k] = s[i] /\ Rank(P, i) = k - 1
  BY <1>2, <1>3
<1>5. ASSUME NEW i \in P PROVE \E k \in 1 .. n : Picked(s, P)[k] = s[i]
  <2>1. Rank(P, i) \in 0 .. n - 1 /\ Rank(P, i) + 1 \in 1 .. n
    BY <1>1, Ranks
  <2> DEFINE k == Rank(P, i) + 1
  <2>2. AtRank(P, k) \in P /\ Rank(P, AtRank(P, k)) = k - 1
    BY <1>3, <2>1
  <2>3. AtRank(P, k) = i
    <3>1. \A j \in P : Rank(P, j) = Rank(P, i) => j = i
      BY Ranks
    <3>2. Rank(P, AtRank(P, k)) = Rank(P, i)
      BY <2>1, <2>2
    <3> HIDE DEF k
    <3> QED BY <2>2, <3>1, <3>2
  <2> QED BY <1>2, <2>1, <2>3
<1> QED BY <1>1, <1>2, <1>4, <1>5

LEMMA PickedSeq ==
  ASSUME NEW S, NEW s, NEW P \in SUBSET Nat, IsFiniteSet(P), \A i \in P : s[i] \in S
  PROVE  /\ Picked(s, P) \in Seq(S)
         /\ \A h : h \in ToSet(Picked(s, P)) <=> \E i \in P : s[i] = h
         /\ (\A i, j \in P : s[i] = s[j] => i = j) => IsInjective(Picked(s, P))
<1> DEFINE n == Cardinality(P)
           q == Picked(s, P)
<1>1. /\ n \in Nat /\ DOMAIN q = 1 .. n
      /\ \A k \in 1 .. n : \E i \in P : q[k] = s[i] /\ Rank(P, i) = k - 1
      /\ \A i \in P : \E k \in 1 .. n : q[k] = s[i]
  BY Picks
<1>2. q = [k \in 1 .. n |-> q[k]]
  BY DEF Picked
<1> HIDE DEF q, n
<1>3. q \in [1 .. n -> S]
  BY <1>1, <1>2
<1>4. q \in Seq(S)
  BY <1>1, <1>3
<1>5. \A h : h \in ToSet(q) <=> \E i \in P : s[i] = h
  <2>1. ToSet(q) = {q[k] : k \in 1 .. n}
    BY <1>1 DEF ToSet
  <2>2. ASSUME NEW k \in 1 .. n PROVE \E i \in P : s[i] = q[k]
    BY <1>1
  <2>3. ASSUME NEW i \in P PROVE s[i] \in ToSet(q)
    <3>1. PICK k \in 1 .. n : q[k] = s[i]
      BY <1>1
    <3> QED BY <2>1, <3>1
  <2> QED BY <2>1, <2>2, <2>3
<1>6. ASSUME \A i, j \in P : s[i] = s[j] => i = j,
             NEW k \in 1 .. n, NEW m \in 1 .. n, q[k] = q[m]
      PROVE  k = m
  <2>1. PICK i \in P : q[k] = s[i] /\ Rank(P, i) = k - 1
    BY <1>1
  <2>2. PICK j \in P : q[m] = s[j] /\ Rank(P, j) = m - 1
    BY <1>1
  <2>3. i = j
    BY <1>6, <2>1, <2>2
  <2>4. k - 1 = m - 1 /\ k \in Int /\ m \in Int
    BY <1>1, <2>1, <2>2, <2>3
  <2> QED BY <2>4
<1> QED BY <1>1, <1>4, <1>5, <1>6 DEF q, IsInjective

\* The list after a fetch has each of the hosts once, if the list had none twice.
LEMMA ListedHosts ==
  ASSUME HostListAssumption, NEW list \in Seq(Hosts), NEW has \in SUBSET Hosts
  PROVE  /\ Listed(list, has) \in Seq(Hosts)
         /\ ToSet(Listed(list, has)) = has
         /\ IsInjective(list) => IsInjective(Listed(list, has))
<1> DEFINE P == {i \in DOMAIN list : list[i] \in has}
           Q == has \ ToSet(list)
           id == [h \in Hosts |-> h]
           kept == Picked(list, P)
           new == Picked(id, Q)
<1>1. DOMAIN list = 1 .. Len(list) /\ Len(list) \in Nat /\ \A i \in DOMAIN list : list[i] \in Hosts
  OBVIOUS
<1>2. P \in SUBSET Nat /\ IsFiniteSet(P)
  <2>1. P \in SUBSET (1 .. Len(list)) /\ 1 \in Int /\ Len(list) \in Int
    BY <1>1
  <2>2. IsFiniteSet(1 .. Len(list))
    BY <2>1, FS_Interval
  <2> QED BY <2>1, <2>2, FS_Subset
<1>3. Q \in SUBSET Nat /\ IsFiniteSet(Q) /\ Q \in SUBSET Hosts
  <2>0. Q \in SUBSET Hosts
    OBVIOUS
  <2> HIDE DEF Q
  <2>1. MaxHosts \in Int /\ 1 \in Int /\ Q \in SUBSET (1 .. MaxHosts)
    BY <2>0 DEF HostListAssumption, Hosts
  <2>2. IsFiniteSet(1 .. MaxHosts)
    BY <2>1, FS_Interval
  <2>3. IsFiniteSet(Q)
    BY <2>1, <2>2, FS_Subset
  <2>4. \A h \in 1 .. MaxHosts : h \in Nat
    BY <2>1
  <2> QED BY <2>0, <2>1, <2>3, <2>4
<1>4. Listed(list, has) = kept \o new
  BY DEF Listed
<1>5. \A i \in P : list[i] \in Hosts
  BY <1>1
<1>6. \A h \in Q : id[h] = h /\ id[h] \in Hosts
  BY <1>3
<1> HIDE DEF id
<1>7. /\ kept \in Seq(Hosts)
      /\ \A h : h \in ToSet(kept) <=> \E i \in P : list[i] = h
      /\ (\A i, j \in P : list[i] = list[j] => i = j) => IsInjective(kept)
  BY <1>2, <1>5, PickedSeq
<1>8. /\ new \in Seq(Hosts)
      /\ \A h : h \in ToSet(new) <=> \E i \in Q : id[i] = h
      /\ (\A i, j \in Q : id[i] = id[j] => i = j) => IsInjective(new)
  BY <1>3, <1>6, PickedSeq
<1> HIDE DEF kept, new
<1>9. /\ \A h : h \in ToSet(kept) <=> h \in has /\ h \in ToSet(list)
      /\ \A h : h \in ToSet(new) <=> h \in has /\ h \notin ToSet(list)
  <2>1. \A h : h \in ToSet(list) <=> \E i \in DOMAIN list : list[i] = h
    BY DEF ToSet
  <2>2. \A h : (\E i \in P : list[i] = h) <=> h \in has /\ h \in ToSet(list)
    BY <2>1
  <2>3. \A h : (\E i \in Q : id[i] = h) <=> h \in Q
    BY <1>6
  <2> QED BY <1>7, <1>8, <2>2, <2>3
<1>10. /\ kept \o new \in Seq(Hosts) /\ Len(kept \o new) = Len(kept) + Len(new)
       /\ \A k \in 1 .. Len(kept) + Len(new) :
            (kept \o new)[k] = IF k <= Len(kept) THEN kept[k] ELSE new[k - Len(kept)]
       /\ Len(kept) \in Nat /\ Len(new) \in Nat
       /\ DOMAIN kept = 1 .. Len(kept) /\ DOMAIN new = 1 .. Len(new)
       /\ DOMAIN (kept \o new) = 1 .. Len(kept) + Len(new)
  BY <1>7, <1>8
<1>11. ToSet(kept \o new) = ToSet(kept) \cup ToSet(new)
  <2>1. ASSUME NEW h \in ToSet(kept \o new) PROVE h \in ToSet(kept) \cup ToSet(new)
    <3>1. PICK k \in 1 .. Len(kept) + Len(new) : (kept \o new)[k] = h
      BY <1>10 DEF ToSet
    <3>2. CASE k <= Len(kept)
      <4>1. k \in DOMAIN kept /\ kept[k] = h
        BY <1>10, <3>1, <3>2
      <4> QED BY <4>1 DEF ToSet
    <3>3. CASE ~(k <= Len(kept))
      <4>1. k - Len(kept) \in DOMAIN new /\ new[k - Len(kept)] = h
        BY <1>10, <3>1, <3>3
      <4> QED BY <4>1 DEF ToSet
    <3> QED BY <3>2, <3>3
  <2>2. ASSUME NEW h \in ToSet(kept) PROVE h \in ToSet(kept \o new)
    <3>1. PICK k \in 1 .. Len(kept) : kept[k] = h
      BY <1>10 DEF ToSet
    <3>2. k \in DOMAIN (kept \o new) /\ (kept \o new)[k] = h
      BY <1>10, <3>1
    <3> QED BY <3>2 DEF ToSet
  <2>3. ASSUME NEW h \in ToSet(new) PROVE h \in ToSet(kept \o new)
    <3>1. PICK k \in 1 .. Len(new) : new[k] = h
      BY <1>10 DEF ToSet
    <3>2. k + Len(kept) \in 1 .. Len(kept) + Len(new) /\ ~(k + Len(kept) <= Len(kept)) /\ (k + Len(kept)) - Len(kept) = k
      BY <1>10
    <3>3. k + Len(kept) \in DOMAIN (kept \o new) /\ (kept \o new)[k + Len(kept)] = h
      BY <1>10, <3>1, <3>2
    <3> QED BY <3>3 DEF ToSet
  <2> QED BY <2>1, <2>2, <2>3
<1>12. ToSet(kept \o new) = has
  BY <1>9, <1>11
<1>13. IsInjective(list) => IsInjective(kept \o new)
  <2> SUFFICES ASSUME IsInjective(list), NEW a \in DOMAIN (kept \o new), NEW b \in DOMAIN (kept \o new),
                      (kept \o new)[a] = (kept \o new)[b]
               PROVE  a = b
    BY DEF IsInjective
  <2>1. IsInjective(kept)
    <3>1. \A i, j \in P : list[i] = list[j] => i = j
      BY DEF IsInjective
    <3> QED BY <1>7, <3>1
  <2>2. IsInjective(new)
    BY <1>6, <1>8
  <2>3. \A i \in DOMAIN kept : kept[i] \in ToSet(list)
    <3>1. \A i \in DOMAIN kept : kept[i] \in ToSet(kept)
      BY DEF ToSet
    <3> QED BY <1>9, <3>1
  <2>4. \A i \in DOMAIN new : new[i] \notin ToSet(list)
    <3>1. \A i \in DOMAIN new : new[i] \in ToSet(new)
      BY DEF ToSet
    <3> QED BY <1>9, <3>1
  <2>5. a \in 1 .. Len(kept) + Len(new) /\ b \in 1 .. Len(kept) + Len(new)
    BY <1>10
  <2>6. CASE a <= Len(kept) /\ b <= Len(kept)
    <3>1. a \in DOMAIN kept /\ b \in DOMAIN kept /\ kept[a] = kept[b]
      BY <1>10, <2>5, <2>6
    <3> QED BY <2>1, <3>1 DEF IsInjective
  <2>7. CASE ~(a <= Len(kept)) /\ ~(b <= Len(kept))
    <3>1. a - Len(kept) \in DOMAIN new /\ b - Len(kept) \in DOMAIN new /\ new[a - Len(kept)] = new[b - Len(kept)]
      BY <1>10, <2>5, <2>7
    <3>2. a - Len(kept) = b - Len(kept)
      BY <2>2, <3>1 DEF IsInjective
    <3> QED BY <1>10, <2>5, <3>2
  <2>8. CASE a <= Len(kept) /\ ~(b <= Len(kept))
    <3>1. a \in DOMAIN kept /\ b - Len(kept) \in DOMAIN new /\ kept[a] = new[b - Len(kept)]
      BY <1>10, <2>5, <2>8
    <3> QED BY <2>3, <2>4, <3>1
  <2>9. CASE ~(a <= Len(kept)) /\ b <= Len(kept)
    <3>1. a - Len(kept) \in DOMAIN new /\ b \in DOMAIN kept /\ new[a - Len(kept)] = kept[b]
      BY <1>10, <2>5, <2>9
    <3> QED BY <2>3, <2>4, <3>1
  <2> QED BY <2>6, <2>7, <2>8, <2>9
<1> QED BY <1>4, <1>10, <1>12, <1>13

-----------------------------------------------------------------------------
LEMMA AppendedHosts ==
  ASSUME NEW list \in Seq(Hosts), NEW h \in Hosts
  PROVE  /\ Appended(list, h) \in Seq(Hosts)
         /\ ToSet(Appended(list, h)) = ToSet(list) \cup {h}
         /\ h \notin ToSet(list) /\ IsInjective(list) => IsInjective(Appended(list, h))
<1> DEFINE q == Append(list, h)
<1>1. /\ q \in Seq(Hosts) /\ DOMAIN q = 1 .. Len(list) + 1 /\ Len(list) \in Nat
      /\ DOMAIN list = 1 .. Len(list)
      /\ \A k \in 1 .. Len(list) : q[k] = list[k]
      /\ q[Len(list) + 1] = h
  OBVIOUS
<1>2. Appended(list, h) = q
  BY DEF Appended
<1> HIDE DEF q
<1>3. \A k \in 1 .. Len(list) + 1 : k \in 1 .. Len(list) \/ k = Len(list) + 1
  BY <1>1
<1>4. ToSet(q) = ToSet(list) \cup {h}
  <2>1. ASSUME NEW x \in ToSet(q) PROVE x \in ToSet(list) \cup {h}
    <3>1. PICK k \in 1 .. Len(list) + 1 : q[k] = x
      BY <1>1 DEF ToSet
    <3> QED BY <1>1, <1>3, <3>1 DEF ToSet
  <2>2. ASSUME NEW x \in ToSet(list) PROVE x \in ToSet(q)
    <3>1. PICK k \in 1 .. Len(list) : list[k] = x
      BY <1>1 DEF ToSet
    <3>2. k \in DOMAIN q /\ q[k] = x
      BY <1>1, <3>1
    <3> QED BY <3>2 DEF ToSet
  <2>3. h \in ToSet(q)
    <3>1. Len(list) + 1 \in DOMAIN q
      BY <1>1
    <3> QED BY <1>1, <3>1 DEF ToSet
  <2> QED BY <2>1, <2>2, <2>3
<1>5. ASSUME h \notin ToSet(list), IsInjective(list), NEW a \in DOMAIN q, NEW b \in DOMAIN q, q[a] = q[b]
      PROVE  a = b
  <2>1. \A k \in 1 .. Len(list) : list[k] # h
    BY <1>1, <1>5 DEF ToSet
  <2>2. \A k, m \in 1 .. Len(list) : list[k] = list[m] => k = m
    BY <1>1, <1>5 DEF IsInjective
  <2>3. (a \in 1 .. Len(list) \/ a = Len(list) + 1) /\ (b \in 1 .. Len(list) \/ b = Len(list) + 1)
    BY <1>1, <1>3
  <2> QED BY <1>1, <1>5, <2>1, <2>2, <2>3
<1> QED BY <1>1, <1>2, <1>4, <1>5 DEF IsInjective

\* Without one element
LEMMA LaterPart ==
  ASSUME NEW list \in Seq(Hosts), NEW n \in Nat, n = Len(list),
         NEW i \in Nat, i > 0, i <= n, NEW m, m = i + 1
  PROVE  /\ SubSeq(list, m, n) \in Seq(Hosts) /\ Len(SubSeq(list, m, n)) = n - i
         /\ \A k \in 1 .. n - i : SubSeq(list, m, n)[k] = list[k + i]
<1>1. m \in Int /\ n \in Int /\ n - m + 1 = n - i /\ (m <= n \/ (m = n + 1 /\ n - i = 0))
  OBVIOUS
<1>2. \A k \in m .. n : list[k] \in Hosts
  OBVIOUS
<1>3. /\ SubSeq(list, m, n) \in Seq(Hosts)
      /\ Len(SubSeq(list, m, n)) = IF m <= n THEN n - m + 1 ELSE 0
      /\ \A k \in 1 .. n - m + 1 : SubSeq(list, m, n)[k] = list[m + k - 1]
  BY <1>1, <1>2, SubSeqProperties
<1>4. \A k \in 1 .. n - i : m + k - 1 = k + i
  BY <1>1
<1>5. (IF m <= n THEN n - m + 1 ELSE 0) = n - i
  BY <1>1
<1> QED BY <1>1, <1>3, <1>4, <1>5, Zenon

LEMMA RemovedAt ==
  ASSUME NEW list \in Seq(Hosts), NEW n \in Nat, n = Len(list),
         NEW i \in Nat, i > 0, i <= n
  PROVE  LET q == RemoveAt(list, i)
         IN  /\ q \in Seq(Hosts) /\ DOMAIN q = 1 .. n - 1
             /\ \A k \in 1 .. n - 1 : q[k] = IF k < i THEN list[k] ELSE list[k + 1]
<1> DEFINE a == SubSeq(list, 1, i - 1)
           b == SubSeq(list, i + 1, n)
<1>2. a \in Seq(Hosts) /\ Len(a) = i - 1 /\ \A k \in 1 .. i - 1 : a[k] = list[k]
  OBVIOUS
<1>3. b \in Seq(Hosts) /\ Len(b) = n - i /\ \A k \in 1 .. n - i : b[k] = list[k + i]
  BY LaterPart
<1>4. RemoveAt(list, i) = a \o b
  BY DEF RemoveAt
<1> HIDE DEF a, b
<1>5. a \o b \in Seq(Hosts) /\ DOMAIN (a \o b) = 1 .. n - 1
  <2>0. a \in Seq(Hosts) /\ b \in Seq(Hosts)
    BY <1>2, <1>3
  <2>1. a \o b \in Seq(Hosts) /\ Len(a \o b) = Len(a) + Len(b)
    BY <2>0, ConcatProperties
  <2>2. Len(a) + Len(b) = n - 1
    BY <1>2, <1>3
  <2> QED BY <2>1, <2>2
<1>6. ASSUME NEW k \in 1 .. n - 1 PROVE (a \o b)[k] = IF k < i THEN list[k] ELSE list[k + 1]
  <2>0. Len(a) = i - 1 /\ k \in 1 .. Len(a) + Len(b)
    BY <1>2, <1>3
  <2>1. (a \o b)[k] = IF k <= Len(a) THEN a[k] ELSE b[k - Len(a)]
    BY <1>2, <1>3, <2>0
  <2>2. CASE k < i
    BY <1>2, <2>0, <2>1, <2>2
  <2>3. CASE ~(k < i)
    <3>1. ~(k <= Len(a)) /\ k - Len(a) \in 1 .. n - i /\ (k - Len(a)) + i = k + 1
      BY <2>0, <2>3
    <3>2. b[k - Len(a)] = list[(k - Len(a)) + i]
      BY <1>3, <3>1
    <3> QED BY <2>1, <2>3, <3>1, <3>2
  <2> QED BY <2>2, <2>3
<1> QED BY <1>4, <1>5, <1>6

LEMMA UnlistedHosts ==
  ASSUME NEW list \in Seq(Hosts), NEW h
  PROVE  /\ Unlisted(list, h) \in Seq(Hosts)
         /\ h \in ToSet(list) /\ IsInjective(list) =>
              IsInjective(Unlisted(list, h)) /\ ToSet(Unlisted(list, h)) = ToSet(list) \ {h}
<1> DEFINE at == {i \in DOMAIN list : list[i] = h}
           x == CHOOSE i \in at : \A j \in at : i <= j
           n == Len(list)
<1>1. n \in Nat /\ DOMAIN list = 1 .. n /\ at \subseteq Nat
  OBVIOUS
<1>2. CASE at = {}
  <2>1. Unlisted(list, h) = Spliced(list, 0)
    BY <1>2 DEF Unlisted
  <2>2. CASE list = <<>>
    BY <2>1, <2>2 DEF Spliced, ToSet
  <2>3. CASE list # <<>>
    <3>1. Unlisted(list, h) = SubSeq(list, 1, n - 1)
      BY <2>1, <2>3 DEF Spliced, Front
    <3>2. \A i \in 1 .. n - 1 : list[i] \in Hosts
      BY <1>1
    <3>3. SubSeq(list, 1, n - 1) \in Seq(Hosts)
      BY <1>1, <3>2, SubSeqProperties
    <3>4. h \notin ToSet(list)
      BY <1>2 DEF ToSet
    <3> QED BY <3>1, <3>3, <3>4
  <2> QED BY <2>2, <2>3
<1>3. CASE at # {}
  <2>1. \E i \in at : \A j \in at : i <= j
    BY <1>1, <1>3, LeastNatural
  <2>2. x \in at
    BY <2>1
  <2>3. Unlisted(list, h) = Spliced(list, x)
    BY <1>3 DEF Unlisted
  <2> HIDE DEF x
  <2>4. x \in Nat /\ x > 0 /\ x <= n /\ list[x] = h
    BY <1>1, <2>2
  <2> DEFINE q == RemoveAt(list, x)
  <2>5. Unlisted(list, h) = q
    BY <2>3, <2>4 DEF Spliced
  <2>6. /\ q \in Seq(Hosts) /\ DOMAIN q = 1 .. n - 1
        /\ \A k \in 1 .. n - 1 : q[k] = IF k < x THEN list[k] ELSE list[k + 1]
    BY <1>1, <2>4, RemovedAt
  <2> HIDE DEF q, at, n
  <2>7. ASSUME IsInjective(list) PROVE IsInjective(q) /\ ToSet(q) = ToSet(list) \ {h}
    <3>1. \A k, m \in 1 .. n : list[k] = list[m] => k = m
      BY <1>1, <2>7 DEF IsInjective
    <3> DEFINE p(k) == IF k < x THEN k ELSE k + 1
    <3>2. \A k \in 1 .. n - 1 : q[k] = list[p(k)] /\ p(k) \in 1 .. n /\ p(k) # x
      BY <1>1, <2>4, <2>6
    <3>3. \A k, m \in 1 .. n - 1 : p(k) = p(m) => k = m
      BY <1>1, <2>4
    <3>4. \A k \in 1 .. n : k # x => \E m \in 1 .. n - 1 : p(m) = k
      <4> TAKE k \in 1 .. n
      <4>1. CASE k < x
        <5>1. k \in 1 .. n - 1 /\ p(k) = k
          BY <1>1, <2>4, <4>1
        <5> QED BY <5>1
      <4>2. CASE k > x
        <5>1. k - 1 \in 1 .. n - 1 /\ p(k - 1) = k
          BY <1>1, <2>4, <4>2
        <5> QED BY <5>1
      <4> QED BY <1>1, <2>4, <4>1, <4>2
    <3> HIDE DEF p
    <3>5. IsInjective(q)
      BY <2>6, <3>1, <3>2, <3>3 DEF IsInjective
    <3>6. ASSUME NEW e \in ToSet(q) PROVE e \in ToSet(list) \ {h}
      <4>1. PICK k \in 1 .. n - 1 : q[k] = e
        BY <2>6 DEF ToSet
      <4>2. list[p(k)] = e /\ p(k) \in DOMAIN list
        BY <1>1, <3>2, <4>1
      <4>3. e # h
        <5>1. x \in 1 .. n
          BY <1>1, <2>4
        <5> QED BY <2>4, <3>1, <3>2, <4>2, <5>1
      <4> QED BY <4>2, <4>3 DEF ToSet
    <3>7. ASSUME NEW e \in ToSet(list) \ {h} PROVE e \in ToSet(q)
      <4>1. PICK k \in 1 .. n : list[k] = e
        BY <1>1 DEF ToSet
      <4>2. PICK m \in 1 .. n - 1 : p(m) = k
        BY <2>4, <3>4, <4>1
      <4>3. q[m] = e /\ m \in DOMAIN q
        BY <2>6, <3>2, <4>1, <4>2
      <4> QED BY <4>3 DEF ToSet
    <3> QED BY <3>5, <3>6, <3>7
  <2> QED BY <2>5, <2>6, <2>7
<1> QED BY <1>2, <1>3

\* A list without repetitions is as long as the set of its elements.
LEMMA Lengths ==
  ASSUME NEW list \in Seq(Hosts), IsInjective(list)
  PROVE  Len(list) = Cardinality(ToSet(list))
<1> DEFINE n == Len(list)
           S == 1 .. n
           T == ToSet(list)
<1>1. n \in Nat /\ DOMAIN list = S /\ list \in [S -> T] /\ \A t \in T : \E s \in S : list[s] = t
  BY DEF ToSet
<1>2. list \in Bijection(S, T)
  BY <1>1 DEF Bijection, Injection, Surjection
<1>3. ExistsBijection(1 .. n, T)
  BY <1>2 DEF ExistsBijection
<1> HIDE DEF T
<1>4. Cardinality(T) = n
  BY <1>1, <1>3, FS_CountingElements
<1> QED BY <1>4 DEF T

-----------------------------------------------------------------------------
ShelfType == [list : Seq(Hosts), tile : [Hosts -> HostStates], missed : BOOLEAN]
ServerType == [has : SUBSET Hosts, state : [Hosts -> HostStates]]
FetchType == [at : {"idle", "asked", "served", "lines", "ended"}, seen : SUBSET Hosts, rest : SUBSET Hosts]
EditStates == {"none", "removing", "removed", "adding", "added", "gone"}

\* No answer is on its way that names the hosts.
NoneComing == \A r \in Fetches : fetches[r].at \notin {"asked", "served"}
\* The hosts whose change is made but not shown
Unshown(h) == edits[h] \in {"adding", "removed"}

ListInv ==
  /\ shelf \in ShelfType /\ server \in ServerType
  /\ fetches \in [Fetches -> FetchType] /\ edits \in [Hosts -> EditStates]
  /\ \A h \in Hosts : /\ edits[h] = "adding" => h \in server.has
                      /\ edits[h] = "removed" => h \notin server.has
  /\ ~shelf.missed => IsInjective(shelf.list)
  /\ ~shelf.missed /\ NoneComing =>
       \A h \in Hosts : ~Unshown(h) => (h \in ToSet(shelf.list) <=> h \in server.has)

LEMMA ListShows == HostListAssumption /\ ListInv => ListTypeOK /\ ListInStep
<1> SUFFICES ASSUME HostListAssumption, ListInv PROVE ListTypeOK /\ ListInStep
  OBVIOUS
<1>1. shelf.list \in Seq(Hosts) /\ server.has \in SUBSET Hosts
  BY DEF ListInv, ShelfType, ServerType
<1>2. ListTypeOK
  BY DEF ListInv, ListTypeOK, ShelfType, ServerType
<1>3. ListInStep
  <2> SUFFICES ASSUME ListQuiet, ~shelf.missed
               PROVE  ToSet(shelf.list) = server.has /\ Len(shelf.list) = Cardinality(server.has)
    BY DEF ListInStep
  <2>1. NoneComing /\ \A h \in Hosts : ~Unshown(h)
    BY DEF ListQuiet, OneAtATime, NoneComing, Unshown
  <2>2. \A h \in Hosts : h \in ToSet(shelf.list) <=> h \in server.has
    BY <2>1 DEF ListInv
  <2>3. ToSet(shelf.list) \subseteq Hosts
    BY <1>1 DEF ToSet
  <2>4. ToSet(shelf.list) = server.has
    BY <1>1, <2>2, <2>3
  <2>5. IsInjective(shelf.list)
    BY DEF ListInv
  <2> QED BY <1>1, <2>4, <2>5, Lengths
<1> QED BY <1>2, <1>3

LEMMA ListInitially == HostListAssumption /\ ListInit => ListInv
<1> SUFFICES ASSUME HostListAssumption, ListInit PROVE ListInv
  OBVIOUS
<1>1. /\ shelf = [list |-> <<>>, tile |-> [h \in Hosts |-> "offline"], missed |-> FALSE]
      /\ edits = [h \in Hosts |-> "none"]
      /\ server = [has |-> Hosts, state |-> [h \in Hosts |-> IF h = 1 THEN "locked" ELSE "offline"]]
  BY DEF ListInit
<1>2. "offline" \in HostStates /\ "locked" \in HostStates /\ <<>> \in Seq(Hosts) /\ IsInjective(<<>>)
  BY DEF HostStates, IsInjective
<1>3. shelf \in ShelfType /\ server \in ServerType /\ edits \in [Hosts -> EditStates] /\ IsInjective(shelf.list)
  BY <1>1, <1>2 DEF ShelfType, ServerType, EditStates
<1> DEFINE asked == [NoFetch EXCEPT !.at = "asked"]
<1>4. asked \in FetchType /\ NoFetch \in FetchType /\ asked.at = "asked"
  BY DEF NoFetch, FetchType
<1>5. fetches = [r \in Fetches |-> IF r = 1 THEN asked ELSE NoFetch]
  BY DEF ListInit
<1> HIDE DEF asked
<1>6. fetches \in [Fetches -> FetchType]
  BY <1>4, <1>5
<1>7. 1 \in Fetches
  BY DEF Fetches, HostListAssumption
<1>8. ~NoneComing
  BY <1>4, <1>5, <1>7 DEF NoneComing
<1>9. \A h \in Hosts : edits[h] # "adding" /\ edits[h] # "removed"
  BY <1>1
<1> QED BY <1>3, <1>6, <1>8, <1>9 DEF ListInv

LEMMA ShelfFields ==
  ASSUME NEW s \in ShelfType
  PROVE  s.list \in Seq(Hosts) /\ s.tile \in [Hosts -> HostStates] /\ s.missed \in BOOLEAN
BY DEF ShelfType

\* A tile that is told its state; the list is the same.
LEMMA ToldHosts ==
  ASSUME NEW s \in ShelfType, NEW h \in Hosts, NEW state \in HostStates
  PROVE  Told(s, h, state) \in ShelfType /\ Told(s, h, state).list = s.list /\ Told(s, h, state).missed = s.missed
<1> DEFINE t == [s.tile EXCEPT ![h] = state]
           u == [s EXCEPT !.tile = t]
<1>1. t \in [Hosts -> HostStates]
  BY ShelfFields
<1>2. Told(s, h, state) = u
  BY DEF Told
<1> HIDE DEF t
<1>3. u \in ShelfType /\ u.list = s.list /\ u.missed = s.missed
  BY <1>1 DEF ShelfType
<1> QED BY <1>2, <1>3

\* A step of a fetch that changes no list
LEMMA FetchSteps ==
  ASSUME ListInv, NEW r \in Fetches, NEW f \in FetchType, fetches' = [fetches EXCEPT ![r] = f],
         f.at \in {"asked", "served"} \/ fetches[r].at \notin {"asked", "served"} \/ shelf'.missed,
         shelf' \in ShelfType, shelf'.list = shelf.list, shelf.missed => shelf'.missed,
         UNCHANGED <<edits, server>>
  PROVE  ListInv'
<1>1. fetches' \in [Fetches -> FetchType] /\ fetches'[r] = f
      /\ \A q \in Fetches : q # r => fetches'[q] = fetches[q]
  BY DEF ListInv
<1>2. ~shelf'.missed /\ NoneComing' => NoneComing
  BY <1>1 DEF NoneComing
<1>3. \A h \in Hosts : Unshown(h)' <=> Unshown(h)
  BY DEF Unshown
<1> QED BY <1>1, <1>2, <1>3 DEF ListInv

LEMMA FetchFields ==
  ASSUME ListInv, NEW r \in Fetches
  PROVE  /\ fetches[r] \in FetchType /\ fetches[r].seen \in SUBSET Hosts /\ fetches[r].rest \in SUBSET Hosts
         /\ fetches[r].at \in {"idle", "asked", "served", "lines", "ended"}
BY DEF ListInv, FetchType

LEMMA FetchAgainStep ==
  ASSUME ListInv, NEW r \in Fetches, FetchAgain(r) PROVE ListInv'
<1> DEFINE f == [fetches[r] EXCEPT !.at = "asked"]
<1>1. f \in FetchType /\ f.at = "asked"
  BY FetchFields DEF FetchType
<1>2. fetches' = [fetches EXCEPT ![r] = f] /\ UNCHANGED <<shelf, edits, server>>
  BY DEF FetchAgain
<1>3. shelf' \in ShelfType /\ shelf' = shelf
  BY <1>2 DEF ListInv
<1> HIDE DEF f
<1> QED BY <1>1, <1>2, <1>3, FetchSteps

LEMMA ServeHostsStep ==
  ASSUME ListInv, NEW r \in Fetches, ServeHosts(r) PROVE ListInv'
<1> DEFINE f == [at |-> "served", seen |-> server.has, rest |-> server.has]
<1>1. f \in FetchType /\ f.at = "served"
  BY DEF ListInv, ServerType, FetchType
<1>2. fetches' = [fetches EXCEPT ![r] = f] /\ UNCHANGED <<shelf, edits, server>>
  BY DEF ServeHosts
<1>3. shelf' \in ShelfType /\ shelf' = shelf
  BY <1>2 DEF ListInv
<1> HIDE DEF f
<1> QED BY <1>1, <1>2, <1>3, FetchSteps

LEMMA HostsArriveStep ==
  ASSUME HostListAssumption, ListInv, NEW r \in Fetches, HostsArrive(r) PROVE ListInv'
<1> DEFINE sent == fetches[r].seen
           l == Listed(shelf.list, sent)
           t == [h \in Hosts |-> "offline"]
           m == sent # server.has \/ ~IsInjective(shelf.list)
           s == [shelf EXCEPT !.list = l, !.tile = t, !.missed = m]
           f == [fetches[r] EXCEPT !.at = "lines", !.seen = {}]
<1>1. shelf' = s /\ fetches' = [fetches EXCEPT ![r] = f] /\ UNCHANGED <<edits, server>>
  BY DEF HostsArrive
<1>2. /\ shelf \in ShelfType /\ sent \in SUBSET Hosts /\ shelf.list \in Seq(Hosts)
      /\ shelf.tile \in [Hosts -> HostStates]
  BY FetchFields, ShelfFields DEF ListInv
<1>3. t \in [Hosts -> HostStates] /\ m \in BOOLEAN
  BY <1>2 DEF HostStates
<1>4. l \in Seq(Hosts) /\ ToSet(l) = sent /\ (IsInjective(shelf.list) => IsInjective(l))
  BY <1>2, ListedHosts
<1>5. f \in FetchType
  BY FetchFields DEF FetchType
<1> HIDE DEF l, t, f
<1>6. ~m => sent = server.has /\ IsInjective(l)
  BY <1>4
<1> HIDE DEF m, sent
<1>7. s \in ShelfType /\ s.list = l /\ s.missed = m
  BY <1>2, <1>3, <1>4 DEF ShelfType
<1> HIDE DEF s
<1>8. fetches' \in [Fetches -> FetchType]
  BY <1>1, <1>5 DEF ListInv
<1>9. \A h \in Hosts : ~shelf'.missed => (h \in ToSet(shelf'.list) <=> h \in server.has)
  BY <1>1, <1>4, <1>6, <1>7
<1> QED BY <1>1, <1>6, <1>7, <1>8, <1>9 DEF ListInv

LEMMA LineArrivesStep ==
  ASSUME ListInv, NEW r \in Fetches, NEW h \in Hosts, LineArrives(r, h) PROVE ListInv'
<1> DEFINE c == fetches[r].rest \ {h}
           f == [fetches[r] EXCEPT !.rest = c]
<1>1. c \in SUBSET Hosts /\ fetches[r] \in FetchType
  BY FetchFields
<1>2. fetches' = [fetches EXCEPT ![r] = f] /\ UNCHANGED <<edits, server>> /\ fetches[r].at = "lines"
  BY DEF LineArrives
<1> HIDE DEF c
<1>3. f \in FetchType
  BY <1>1 DEF FetchType
<1>4. shelf \in ShelfType /\ server.state[h] \in HostStates
  BY DEF ListInv, ServerType
<1>5. shelf' \in ShelfType /\ shelf'.list = shelf.list /\ shelf'.missed = shelf.missed
  BY <1>4, ToldHosts DEF LineArrives
<1> HIDE DEF f
<1> QED BY <1>2, <1>3, <1>5, FetchSteps

LEMMA EndedFetch ==
  LET f == [NoFetch EXCEPT !.at = "ended"] IN f \in FetchType /\ f.at = "ended"
BY DEF NoFetch, FetchType

LEMMA FetchFailsStep ==
  ASSUME ListInv, NEW r \in Fetches, FetchFails(r) PROVE ListInv'
<1> DEFINE f == [NoFetch EXCEPT !.at = "ended"]
           m == shelf.missed \/ fetches[r].at # "lines"
           s == [shelf EXCEPT !.missed = m]
<1>1. fetches' = [fetches EXCEPT ![r] = f] /\ UNCHANGED <<edits, server>> /\ shelf' = s
  BY DEF FetchFails
<1>2. m \in BOOLEAN /\ shelf \in ShelfType
  BY ShelfFields DEF ListInv
<1>3. f \in FetchType
  BY EndedFetch
<1>4. (shelf.missed => m) /\ (fetches[r].at \in {"asked", "served"} => m)
  OBVIOUS
<1> HIDE DEF m, f
<1>5. s \in ShelfType /\ s.list = shelf.list /\ s.missed = m
  BY <1>2 DEF ShelfType
<1> HIDE DEF s
<1> QED BY <1>1, <1>3, <1>4, <1>5, FetchSteps

LEMMA FetchEndsStep ==
  ASSUME ListInv, NEW r \in Fetches, FetchEnds(r) PROVE ListInv'
<1> DEFINE f == [NoFetch EXCEPT !.at = "ended"]
<1>1. fetches' = [fetches EXCEPT ![r] = f] /\ UNCHANGED <<shelf, edits, server>> /\ fetches[r].at = "lines"
  BY DEF FetchEnds
<1>2. f \in FetchType
  BY EndedFetch
<1>3. shelf' \in ShelfType /\ shelf' = shelf
  BY <1>1 DEF ListInv
<1> HIDE DEF f
<1> QED BY <1>1, <1>2, <1>3, FetchSteps

\* A step of a request about one host that shows nothing
LEMMA EditStep ==
  ASSUME ListInv, NEW h \in Hosts, NEW e \in EditStates, edits' = [edits EXCEPT ![h] = e],
         UNCHANGED <<shelf, fetches>>, server' \in ServerType,
         \A g \in Hosts : g # h => (g \in server'.has <=> g \in server.has),
         e = "adding" => h \in server'.has, e = "removed" => h \notin server'.has,
         e \notin {"adding", "removed"} => ~Unshown(h) /\ (h \in server'.has <=> h \in server.has)
  PROVE  ListInv'
<1>1. edits' \in [Hosts -> EditStates] /\ edits'[h] = e /\ \A g \in Hosts : g # h => edits'[g] = edits[g]
  BY DEF ListInv
<1>2. NoneComing' <=> NoneComing
  BY DEF NoneComing
<1>3. \A g \in Hosts : g # h => (Unshown(g)' <=> Unshown(g))
  BY <1>1 DEF Unshown
<1>4. Unshown(h)' <=> e \in {"adding", "removed"}
  BY <1>1 DEF Unshown
<1>5. ASSUME NEW g \in Hosts
      PROVE  /\ edits'[g] = "adding" => g \in server'.has
             /\ edits'[g] = "removed" => g \notin server'.has
  BY <1>1 DEF ListInv
<1>6. ASSUME ~shelf'.missed, NoneComing', NEW g \in Hosts, ~Unshown(g)'
      PROVE  g \in ToSet(shelf'.list) <=> g \in server'.has
  <2>1. \A x \in Hosts : ~Unshown(x) => (x \in ToSet(shelf.list) <=> x \in server.has)
    BY <1>2, <1>6 DEF ListInv
  <2>2. ~Unshown(g) /\ (g \in server'.has <=> g \in server.has)
    BY <1>3, <1>4, <1>6
  <2> QED BY <2>1, <2>2
<1>7. shelf' \in ShelfType /\ fetches' \in [Fetches -> FetchType] /\ (~shelf'.missed => IsInjective(shelf'.list))
  BY DEF ListInv
<1> QED BY <1>1, <1>5, <1>6, <1>7 DEF ListInv

\* A step that shows or misses something, without another list
LEMMA TileStep ==
  ASSUME ListInv, UNCHANGED <<fetches, edits>>, shelf' \in ShelfType, shelf'.list = shelf.list,
         shelf.missed => shelf'.missed, server' \in ServerType,
         server'.has = server.has \/ (shelf'.missed /\
           \E h \in Hosts : edits[h] # "adding" /\ server'.has = server.has \ {h})
  PROVE  ListInv'
<1>1. (NoneComing' <=> NoneComing) /\ \A g \in Hosts : Unshown(g)' <=> Unshown(g)
  BY DEF NoneComing, Unshown
<1>2. \A g \in Hosts : /\ edits[g] = "adding" => g \in server'.has
                       /\ edits[g] = "removed" => g \notin server'.has
  BY DEF ListInv
<1>3. ~shelf'.missed => ~shelf.missed /\ server'.has = server.has
  OBVIOUS
<1> QED BY <1>1, <1>2, <1>3 DEF ListInv

LEMMA ServerFields ==
  ASSUME ListInv, NEW s \in SUBSET Hosts
  PROVE  [server EXCEPT !.has = s] \in ServerType /\ [server EXCEPT !.has = s].has = s
BY DEF ListInv, ServerType

LEMMA ServerSteps ==
  ASSUME ListInv, NEW h \in Hosts, RemoveHost(h) \/ ServerRemoves(h) \/ RemoveFails(h) \/ AddHost(h)
  PROVE  ListInv'
<1>0. server \in ServerType /\ server.has \in SUBSET Hosts
  BY DEF ListInv, ServerType
<1>1. CASE RemoveHost(h)
  <2>1. /\ edits' = [edits EXCEPT ![h] = "removing"] /\ UNCHANGED <<shelf, fetches>> /\ server' = server
        /\ ~Unshown(h)
    BY <1>1 DEF RemoveHost, Unshown
  <2>2. "removing" \in EditStates /\ "removing" \notin {"adding", "removed"} /\ server' \in ServerType
    BY <1>0, <2>1 DEF EditStates
  <2> QED BY <2>1, <2>2, EditStep
<1>2. CASE ServerRemoves(h)
  <2>1. /\ edits' = [edits EXCEPT ![h] = "removed"] /\ UNCHANGED <<shelf, fetches>>
        /\ server' = [server EXCEPT !.has = server.has \ {h}]
    BY <1>2 DEF ServerRemoves
  <2>2. server' \in ServerType /\ server'.has = server.has \ {h}
    BY <1>0, <2>1, ServerFields
  <2>3. "removed" \in EditStates /\ "removed" \in {"adding", "removed"} /\ h \notin server'.has
    BY <2>2 DEF EditStates
  <2>4. \A g \in Hosts : g # h => (g \in server'.has <=> g \in server.has)
    BY <2>2
  <2> QED BY <2>1, <2>2, <2>3, <2>4, EditStep
<1>3. CASE RemoveFails(h)
  <2>1. /\ edits' = [edits EXCEPT ![h] = "gone"] /\ UNCHANGED <<shelf, fetches>> /\ server' = server
        /\ ~Unshown(h)
    BY <1>3 DEF RemoveFails, Unshown
  <2>2. "gone" \in EditStates /\ "gone" \notin {"adding", "removed"} /\ server' \in ServerType
    BY <1>0, <2>1 DEF EditStates
  <2> QED BY <2>1, <2>2, EditStep
<1>4. CASE AddHost(h)
  <2>1. /\ edits' = [edits EXCEPT ![h] = "adding"] /\ UNCHANGED <<shelf, fetches>>
        /\ server' = [server EXCEPT !.has = server.has \cup {h}]
    BY <1>4 DEF AddHost
  <2>2. server' \in ServerType /\ server'.has = server.has \cup {h}
    BY <1>0, <2>1, ServerFields
  <2>3. "adding" \in EditStates /\ "adding" \in {"adding", "removed"} /\ h \in server'.has
    BY <2>2 DEF EditStates
  <2>4. \A g \in Hosts : g # h => (g \in server'.has <=> g \in server.has)
    BY <2>2
  <2> QED BY <2>1, <2>2, <2>3, <2>4, EditStep
<1> QED BY <1>1, <1>2, <1>3, <1>4

\* The answer of a request about one host changes the list.
LEMMA AnswerSteps ==
  ASSUME ListInv, NEW h \in Hosts, NEW e \in EditStates \ {"adding", "removed"},
         edits' = [edits EXCEPT ![h] = e], UNCHANGED <<fetches, server>>, shelf' \in ShelfType,
         shelf.missed => shelf'.missed,
         ~shelf'.missed => /\ IsInjective(shelf.list) => IsInjective(shelf'.list)
                           /\ \A g \in Hosts : g # h => (g \in ToSet(shelf'.list) <=> g \in ToSet(shelf.list))
                           /\ h \in ToSet(shelf'.list) <=> h \in server.has
  PROVE  ListInv'
<1>1. edits' \in [Hosts -> EditStates] /\ edits'[h] = e /\ \A g \in Hosts : g # h => edits'[g] = edits[g]
  BY DEF ListInv
<1>2. NoneComing' <=> NoneComing
  BY DEF NoneComing
<1>3. \A g \in Hosts : g # h => (Unshown(g)' <=> Unshown(g))
  BY <1>1 DEF Unshown
<1>4. ASSUME NEW g \in Hosts
      PROVE  /\ edits'[g] = "adding" => g \in server'.has
             /\ edits'[g] = "removed" => g \notin server'.has
  BY <1>1 DEF ListInv
<1>5. ASSUME ~shelf'.missed, NoneComing', NEW g \in Hosts, ~Unshown(g)'
      PROVE  g \in ToSet(shelf'.list) <=> g \in server'.has
  <2>1. \A x \in Hosts : ~Unshown(x) => (x \in ToSet(shelf.list) <=> x \in server.has)
    BY <1>2, <1>5 DEF ListInv
  <2>2. CASE g = h
    BY <1>5, <2>2
  <2>3. CASE g # h
    <3>1. g \in ToSet(shelf'.list) <=> g \in ToSet(shelf.list)
      BY <1>5, <2>3
    <3> QED BY <1>3, <1>5, <2>1, <2>3, <3>1
  <2> QED BY <2>2, <2>3
<1>6. ~shelf'.missed => IsInjective(shelf'.list)
  BY DEF ListInv
<1>7. server' \in ServerType /\ fetches' \in [Fetches -> FetchType]
  BY DEF ListInv
<1> QED BY <1>1, <1>4, <1>5, <1>6, <1>7 DEF ListInv

LEMMA HostRemovedStep ==
  ASSUME ListInv, NEW h \in Hosts, HostRemoved(h) PROVE ListInv'
<1> DEFINE l == Unlisted(shelf.list, h)
           m == shelf.missed \/ ~InList(h)
           s == [shelf EXCEPT !.list = l, !.missed = m]
<1>1. /\ shelf' = s /\ edits' = [edits EXCEPT ![h] = "gone"] /\ UNCHANGED <<fetches, server>>
      /\ edits[h] = "removed"
  BY DEF HostRemoved
<1>2. shelf \in ShelfType /\ shelf.list \in Seq(Hosts) /\ shelf.missed \in BOOLEAN /\ h \notin server.has
  BY <1>1, ShelfFields DEF ListInv
<1>3. /\ l \in Seq(Hosts)
      /\ InList(h) /\ IsInjective(shelf.list) => IsInjective(l) /\ ToSet(l) = ToSet(shelf.list) \ {h}
  BY <1>2, UnlistedHosts DEF InList
<1>4. m \in BOOLEAN /\ (shelf.missed => m) /\ (~m => InList(h) /\ ~shelf.missed)
  BY <1>2
<1> HIDE DEF l, m
<1>5. s \in ShelfType /\ s.list = l /\ s.missed = m
  BY <1>2, <1>3, <1>4 DEF ShelfType
<1> HIDE DEF s
<1>6. ~m => IsInjective(l) /\ ToSet(l) = ToSet(shelf.list) \ {h}
  BY <1>3, <1>4 DEF ListInv
<1>7. "gone" \in EditStates \ {"adding", "removed"}
  BY DEF EditStates
<1>8. shelf' \in ShelfType /\ (shelf.missed => shelf'.missed)
  BY <1>1, <1>4, <1>5
<1>9. ~shelf'.missed => /\ IsInjective(shelf.list) => IsInjective(shelf'.list)
                        /\ \A g \in Hosts : g # h => (g \in ToSet(shelf'.list) <=> g \in ToSet(shelf.list))
                        /\ h \in ToSet(shelf'.list) <=> h \in server.has
  BY <1>1, <1>2, <1>5, <1>6
<1> QED BY <1>1, <1>7, <1>8, <1>9, AnswerSteps

LEMMA HostAddedStep ==
  ASSUME ListInv, NEW h \in Hosts, HostAdded(h) PROVE ListInv'
<1> DEFINE l == Appended(shelf.list, h)
           m == shelf.missed \/ InList(h)
           s == [shelf EXCEPT !.list = l, !.missed = m]
           u == Told(s, h, server.state[h])
<1>1. /\ shelf' = u /\ edits' = [edits EXCEPT ![h] = "added"] /\ UNCHANGED <<fetches, server>>
      /\ edits[h] = "adding"
  BY DEF HostAdded
<1>2. /\ shelf \in ShelfType /\ shelf.list \in Seq(Hosts) /\ shelf.missed \in BOOLEAN /\ h \in server.has
      /\ server.state[h] \in HostStates
  BY <1>1, ShelfFields DEF ListInv, ServerType
<1>3. /\ l \in Seq(Hosts) /\ ToSet(l) = ToSet(shelf.list) \cup {h}
      /\ ~InList(h) /\ IsInjective(shelf.list) => IsInjective(l)
  BY <1>2, AppendedHosts DEF InList
<1>4. m \in BOOLEAN /\ (shelf.missed => m) /\ (~m => ~InList(h) /\ ~shelf.missed)
  BY <1>2
<1> HIDE DEF l, m
<1>5. s \in ShelfType /\ s.list = l /\ s.missed = m
  BY <1>2, <1>3, <1>4 DEF ShelfType
<1> HIDE DEF s
<1>6. u \in ShelfType /\ u.list = l /\ u.missed = m
  BY <1>2, <1>5, ToldHosts
<1> HIDE DEF u
<1>7. "added" \in EditStates \ {"adding", "removed"}
  BY DEF EditStates
<1>8. shelf' \in ShelfType /\ (shelf.missed => shelf'.missed)
  BY <1>1, <1>4, <1>6
<1>9. ~shelf'.missed => /\ IsInjective(shelf.list) => IsInjective(shelf'.list)
                        /\ \A g \in Hosts : g # h => (g \in ToSet(shelf'.list) <=> g \in ToSet(shelf.list))
                        /\ h \in ToSet(shelf'.list) <=> h \in server.has
  BY <1>1, <1>2, <1>3, <1>4, <1>6
<1> QED BY <1>1, <1>7, <1>8, <1>9, AnswerSteps

LEMMA TileSteps ==
  ASSUME ListInv, NEW h \in Hosts, OthersRemove(h) \/ HostFetched(h) \/ Pair(h) \/ HostUp(h)
  PROVE  ListInv'
<1>0. /\ server \in ServerType /\ shelf \in ShelfType /\ server.has \in SUBSET Hosts
      /\ server.state \in [Hosts -> HostStates] /\ "ready" \in HostStates
  BY DEF ListInv, ServerType, HostStates
<1>1. CASE OthersRemove(h)
  <2> DEFINE s == [shelf EXCEPT !.missed = TRUE]
  <2>1. /\ shelf' = s /\ UNCHANGED <<fetches, edits>> /\ edits[h] # "adding"
        /\ server' = [server EXCEPT !.has = server.has \ {h}]
    BY <1>1 DEF OthersRemove
  <2>2. s \in ShelfType /\ s.list = shelf.list /\ s.missed
    BY <1>0 DEF ShelfType
  <2> HIDE DEF s
  <2>3. server' \in ServerType /\ server'.has = server.has \ {h}
    BY <1>0, <2>1, ServerFields
  <2> QED BY <2>1, <2>2, <2>3, TileStep
<1>2. CASE HostFetched(h)
  <2>1. shelf' = Told(shelf, h, server.state[h]) /\ UNCHANGED <<fetches, edits>> /\ server' = server
    BY <1>2 DEF HostFetched
  <2>2. shelf' \in ShelfType /\ shelf'.list = shelf.list /\ shelf'.missed = shelf.missed
    BY <1>0, <2>1, ToldHosts
  <2> QED BY <1>0, <2>1, <2>2, TileStep
<1>3. \A x \in HostStates : LET t == [server.state EXCEPT ![h] = x]
                                s == [server EXCEPT !.state = t]
                            IN  s \in ServerType /\ s.has = server.has
  <2> TAKE x \in HostStates
  <2> DEFINE t == [server.state EXCEPT ![h] = x]
             s == [server EXCEPT !.state = t]
  <2>1. t \in [Hosts -> HostStates]
    BY <1>0
  <2> HIDE DEF t
  <2>2. s \in ServerType /\ s.has = server.has
    BY <1>0, <2>1 DEF ServerType
  <2> QED BY <2>2 DEF t
<1>4. CASE Pair(h)
  <2>1. /\ shelf' = Told(shelf, h, "ready") /\ UNCHANGED <<fetches, edits>>
        /\ server' = [server EXCEPT !.state[h] = "ready"]
    BY <1>4 DEF Pair
  <2>2. shelf' \in ShelfType /\ shelf'.list = shelf.list /\ shelf'.missed = shelf.missed
    BY <1>0, <2>1, ToldHosts
  <2>3. server' \in ServerType /\ server'.has = server.has
    BY <1>0, <1>3, <2>1
  <2> QED BY <2>1, <2>2, <2>3, TileStep
<1>5. CASE HostUp(h)
  <2>1. UNCHANGED <<fetches, edits>> /\ shelf' = shelf /\ server' = [server EXCEPT !.state[h] = "ready"]
    BY <1>5 DEF HostUp
  <2>3. server' \in ServerType /\ server'.has = server.has
    BY <1>0, <1>3, <2>1
  <2> QED BY <1>0, <2>1, <2>3, TileStep
<1> QED BY <1>1, <1>2, <1>4, <1>5

LEMMA ListStep ==
  ASSUME HostListAssumption, ListInv, [ListNext]_listVars PROVE ListInv'
<1>1. CASE UNCHANGED listVars
  <2>1. UNCHANGED <<shelf, fetches, edits, server>>
    BY <1>1 DEF listVars
  <2>2. (NoneComing' <=> NoneComing) /\ \A g \in Hosts : Unshown(g)' <=> Unshown(g)
    BY <2>1 DEF NoneComing, Unshown
  <2> QED BY <2>1, <2>2 DEF ListInv
<1>2. CASE \E r \in Fetches :
             \/ FetchAgain(r) \/ ServeHosts(r) \/ HostsArrive(r) \/ FetchFails(r) \/ FetchEnds(r)
             \/ \E h \in Hosts : LineArrives(r, h)
  BY <1>2, FetchAgainStep, ServeHostsStep, HostsArriveStep, FetchFailsStep, FetchEndsStep, LineArrivesStep
<1>3. CASE \E h \in Hosts :
             \/ RemoveHost(h) \/ ServerRemoves(h) \/ RemoveFails(h) \/ HostRemoved(h)
             \/ OthersRemove(h) \/ AddHost(h) \/ HostAdded(h) \/ HostFetched(h) \/ Pair(h) \/ HostUp(h)
  BY <1>3, ServerSteps, HostRemovedStep, HostAddedStep, TileSteps
<1> QED BY <1>1, <1>2, <1>3 DEF ListNext

-----------------------------------------------------------------------------
(* What the pages and the panels show *)

\* A banner of the host's operations is shown to administrators only, once no
\* fetch of the page is under way.
THEOREM BannerKept == BannerSpec => []BannerForAdmin
<1> QED BY BannerInitially, BannerStep, BannerShows, PTL DEF BannerSpec

\* A call that waits for its modal has it on the page, unless the answer to
\* another call took it away.
THEOREM ModalsKept == ModalsSpec => []WaitingIsSeen
<1> QED BY ModalsAssumption, ModalsInitially, ModalsStep, ModalsShow, PTL DEF ModalsSpec

\* Through any pushes, pops, reloads and fetches a reload would bring back what the
\* start page shows, the history's entry is that unless it was left beside, and
\* the address's launch is carried out once unless two fetches waited together.
THEOREM HistoryFollowed == StartSpec => []PageInStep
<1> QED BY StartPageAssumption, StartInitially, StartStep, StartShows, PTL DEF StartSpec

\* A handle that is shown over the stream and kept by nothing has a timer that
\* hides it, at any edge and however far fingers reach, or is one the code left.
THEOREM HandleGoes == BarSpec => []HandleLeaves
<1> QED BY BarInitially, BarStep, BarShows, PTL DEF BarSpec

\* The overlay shows what is stored for its orientation, with the selection among
\* its buttons, and the storage has what the page has once no gesture is going on.
THEOREM LayoutsFollow == LayoutsSpec => []LayoutsInStep
<1> QED BY LayoutsInitially, LayoutsStep, LayoutsShow, PTL DEF LayoutsSpec

\* At most one of the panels that replace each other is open, the cards are those
\* of the open panels, and the statistics an open panel shows are collected.
THEOREM PanelsFollow == PanelsSpec => []PanelsInStep
<1> QED BY PanelsInitially, PanelsStep, PanelsShow, PTL DEF PanelsSpec

\* A list of hosts at rest is the server's, each host once, unless one of the
\* changes the code misses was made.
THEOREM HostsListed == ListSpec => []ListInStep
<1> QED BY HostListAssumption, ListInitially, ListStep, ListShows, PTL DEF ListSpec

\* What the pages and the panels over the stream show is what is behind them, in
\* every behaviour of the web client.
THEOREM PagesFollowed == SuiteSpec => []PagesInStep
<1> DEFINE Inv == /\ focus = "hosts" => ListInv
                  /\ focus = "start" => StartInv
                  /\ focus = "banner" => BannerInv
                  /\ focus = "modals" => ModalsInv
                  /\ focus = "panels" => PanelsInv
                  /\ focus = "handle" => BarInv
                  /\ focus = "layouts" => LayoutsInv
<1>1. SuiteInit => Inv
  BY ListInitially, StartInitially, BannerInitially, ModalsInitially, PanelsInitially,
     BarInitially, LayoutsInitially, HostListAssumption, StartPageAssumption,
     ModalsAssumption DEF SuiteInit
<1>2. Inv /\ [SuiteNext]_suiteVars => Inv'
  <2> SUFFICES ASSUME Inv, [SuiteNext]_suiteVars PROVE Inv'
    OBVIOUS
  <2>1. focus' = focus
    BY FocusStays
  <2>2. focus = "hosts" => ListInv'
    BY FocusSteps, ListStep, HostListAssumption
  <2>3. focus = "start" => StartInv'
    BY FocusSteps, StartStep, StartPageAssumption
  <2>4. focus = "banner" => BannerInv'
    BY FocusSteps, BannerStep
  <2>5. focus = "modals" => ModalsInv'
    BY FocusSteps, ModalsStep, ModalsAssumption
  <2>6. focus = "panels" => PanelsInv'
    BY FocusSteps, PanelsStep
  <2>7. focus = "handle" => BarInv'
    BY FocusSteps, BarStep
  <2>8. focus = "layouts" => LayoutsInv'
    BY FocusSteps, LayoutsStep
  <2> QED BY <2>1, <2>2, <2>3, <2>4, <2>5, <2>6, <2>7, <2>8
<1>3. Inv => PagesInStep
  BY ListShows, StartShows, BannerShows, ModalsShow, PanelsShow, BarShows, LayoutsShow,
     HostListAssumption, StartPageAssumption, ModalsAssumption DEF PagesInStep
<1> QED BY <1>1, <1>2, <1>3, PTL DEF SuiteSpec
=============================================================================

---------------------------- MODULE HostBanner ------------------------------
(***************************************************************************)
(* Who the start page takes its user for.  Each fetch of the page asks for *)
(* the user beside the lists of hosts and games, sets the page's buttons   *)
(* by the answer, and asks for the status of the host's operations, whose  *)
(* banner is for administrators.  Several fetches may be under way, and    *)
(* each may fail at any of its steps.                                      *)
(***************************************************************************)
EXTENDS Naturals

CONSTANT BannerFetches       \* bound: fetches under way

ASSUME BannerAssumption == BannerFetches \in Nat \ {0}

VARIABLES shownTo,    \* role: of the user; buttons: for whom; banner: shown
          refreshes,  \* per fetch: its step, whether the user is still asked for
          unseen      \* history: a fetch failed with a user's answer that no
                      \* other has looked at

bannerVars == <<shownTo, refreshes, unseen>>

Users == {"admin", "user", "default"}
NoRefresh == [step |-> "none", user |-> FALSE]

BannerInit ==
    /\ shownTo = [role |-> "unknown", buttons |-> {}, banner |-> FALSE]
    /\ refreshes = [f \in 1..BannerFetches |-> NoRefresh]
    /\ unseen = FALSE

\* Without a user the page logs in, else it logs out; an administrator has the
\* button of the administration too.
ButtonsFor(role) ==
    (IF role = "default" THEN {"login"} ELSE {"logout"})
        \cup (IF role = "admin" THEN {"admin"} ELSE {})

ForceFetch(f) ==
    /\ refreshes[f] = NoRefresh
    /\ refreshes' = [refreshes EXCEPT ![f] = [step |-> "lists", user |-> TRUE]]
    /\ UNCHANGED <<shownTo, unseen>>

\* The fetch that failed meanwhile has no step left: nothing follows its answer.
RefreshUserRole(f) ==
    /\ refreshes[f].user
    /\ \E role \in Users :
           shownTo' = [shownTo EXCEPT !.role = role, !.buttons = ButtonsFor(role)]
    /\ refreshes' = [refreshes EXCEPT ![f].user = FALSE,
                                      ![f].step = IF @ = "failed" THEN "none" ELSE @]
    /\ unseen' = (unseen \/ refreshes[f].step = "failed")

UserRefused(f) ==
    /\ refreshes[f].user
    /\ refreshes[f].step \in {"user", "failed"}
    /\ refreshes' = [refreshes EXCEPT ![f] = NoRefresh]
    /\ UNCHANGED <<shownTo, unseen>>

ListsCome(f) ==
    /\ refreshes[f].step = "lists"
    /\ refreshes' = [refreshes EXCEPT ![f].step = "user"]
    /\ UNCHANGED <<shownTo, unseen>>

ListsRefused(f) ==
    /\ refreshes[f].step = "lists"
    /\ refreshes' = [refreshes EXCEPT ![f].step = IF refreshes[f].user THEN "failed" ELSE "none"]
    /\ unseen' = (unseen \/ ~refreshes[f].user)
    /\ UNCHANGED shownTo

\* refreshHostOperationsSummary: only an administrator's page asks.
AskOperations(f) ==
    /\ refreshes[f] = [step |-> "user", user |-> FALSE]
    /\ refreshes' = [refreshes EXCEPT ![f].step = IF shownTo.role = "admin" THEN "status" ELSE "none"]
    /\ shownTo' = [shownTo EXCEPT !.banner = @ /\ shownTo.role = "admin"]
    /\ unseen' = FALSE

\* A slip of SetHostOperationsStatus: the role it was asked for is not looked at
\* again.
SetStatusUnasked(status) == status

\* setHostOperationsStatus: the user may be another one by now.
SetHostOperationsStatus(status) == shownTo.role = "admin" /\ status

\* Without a status, or when the request fails, the banner goes.
OperationsAnswer(f) ==
    /\ refreshes[f].step = "status"
    /\ refreshes' = [refreshes EXCEPT ![f] = NoRefresh]
    /\ \E status \in BOOLEAN :
           shownTo' = [shownTo EXCEPT !.banner = SetHostOperationsStatus(status)]
    /\ UNCHANGED unseen

BannerNext ==
    \E f \in DOMAIN refreshes :
        \/ ForceFetch(f) \/ RefreshUserRole(f) \/ UserRefused(f) \/ ListsCome(f)
        \/ ListsRefused(f) \/ AskOperations(f) \/ OperationsAnswer(f)

BannerSpec == BannerInit /\ [][BannerNext]_bannerVars

-----------------------------------------------------------------------------
BannerTypeOK ==
    /\ shownTo \in [role : Users \cup {"unknown"}, buttons : SUBSET {"login", "logout", "admin"},
                    banner : BOOLEAN]
    /\ refreshes \in [1..BannerFetches ->
           [step : {"none", "lists", "user", "status", "failed"}, user : BOOLEAN]]
    /\ unseen \in BOOLEAN

AtRest == \A f \in DOMAIN refreshes : refreshes[f] = NoRefresh

\* However the answers of the fetches cross, with none of them left under way the
\* banner of the operations is shown to an administrator only, unless a fetch that
\* failed brought the role.
BannerForAdmin ==
    AtRest /\ shownTo.banner /\ ~unseen => shownTo.role = "admin"

=============================================================================

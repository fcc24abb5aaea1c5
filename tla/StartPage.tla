----------------------------- MODULE StartPage ------------------------------
(***************************************************************************)
(* The start page: the hosts, the games of a host or the settings, kept in *)
(* step with the tab's history and with the state saved for a reload; the  *)
(* fetches that fill it, of which several may be under way; and the launch *)
(* intent of the page's address, carried out after a fetch.  What a fetch  *)
(* says of the user is in HostBanner.                                      *)
(***************************************************************************)
EXTENDS Naturals, Sequences, FiniteSets

CONSTANTS StartHosts,    \* the hosts the server may list
          MaxHistory,    \* bound: entries of the tab's history
          PageFetches    \* bound: fetches under way

ASSUME StartPageAssumption ==
    StartHosts # {} /\ MaxHistory \in Nat \ {0} /\ PageFetches \in Nat

VARIABLES page,     \* view; games: the host of the game list; listed: hosts;
                    \* launches: of the address's intent, open while it is 0
          tab,      \* entries, at: the history; saved: for a reload
          running,  \* the fetches: each one's step, and the host to launch on
          pageHistory      \* off: the display was set beside the history; raced: two
                    \* fetches waited for the launch's games together

startVars == <<page, tab, running, pageHistory>>

NoGames == "nobody"
View(display, host) == <<display, host>>
Blank == View("blank", NoGames)          \* an entry no page state was put in
HostsView == View("hosts", NoGames)
SettingsView == View("settings", NoGames)
GamesView(h) == View("games", h)
Views == {HostsView, SettingsView} \cup {GamesView(h) : h \in StartHosts}

HistorySteps == {"none", "lists", "rest", "apps"}
Idle == [step |-> "none", host |-> NoGames]
Started == [step |-> "lists", host |-> NoGames]

-----------------------------------------------------------------------------
(* setCurrentDisplay, on the page and the tab together.                    *)

\* A new entry takes the place of those ahead of it.
SetAppState(t, view, push) ==
    [entries |-> IF push THEN Append(SubSeq(t.entries, 1, t.at), view) ELSE t.entries,
     at |-> IF push THEN t.at + 1 ELSE t.at,
     saved |-> view]

Stays(view) == page.view = view

Fits(view, push) == push /\ ~Stays(view) => tab.at < MaxHistory

SetCurrentDisplay(view, push) ==
    IF Stays(view) THEN UNCHANGED <<page, tab>>
    ELSE /\ page' = [page EXCEPT !.view = view,
                                 !.games = IF view[1] = "games" THEN view[2] ELSE @]
         /\ tab' = SetAppState(tab, view, push)

\* The constructor shows the hosts, and the saved state comes after it.
Start(t) ==
    LET first == SetAppState(t, HostsView, TRUE)
        last == IF t.saved \in {Blank, HostsView} THEN first
                ELSE SetAppState(first, t.saved, TRUE)
    IN  /\ page = [view |-> last.saved, games |-> last.saved[2], listed |-> {},
                   launches |-> 0]
        /\ tab = last

StartInit ==
    /\ Start([entries |-> <<Blank>>, at |-> 1, saved |-> Blank])
    /\ running = [f \in 1..PageFetches |-> IF f = 1 THEN Started ELSE Idle]
    /\ pageHistory = [off |-> FALSE, raced |-> FALSE]

-----------------------------------------------------------------------------
(* What the user does.                                                     *)

OpenHost ==
    \E h \in page.listed :
        /\ page.view = HostsView /\ Fits(GamesView(h), TRUE)
        /\ SetCurrentDisplay(GamesView(h), TRUE)
        /\ pageHistory' = [pageHistory EXCEPT !.off = FALSE]
        /\ UNCHANGED running

OpenSettings ==
    /\ page.view # SettingsView /\ Fits(SettingsView, TRUE)
    /\ SetCurrentDisplay(SettingsView, TRUE)
    /\ pageHistory' = [pageHistory EXCEPT !.off = FALSE]
    /\ UNCHANGED running

\* Back and forward.  The entry before the page's own holds no state, and the
\* listener fails on it.
PopState ==
    \E i \in {tab.at - 1, tab.at + 1} \cap DOMAIN tab.entries :
        LET view == tab.entries[i]
            here == [tab EXCEPT !.at = i]
        IN  /\ IF view = Blank \/ Stays(view)
               THEN page' = page /\ tab' = here
               ELSE /\ page' = [page EXCEPT !.view = view,
                                            !.games = IF view[1] = "games" THEN view[2] ELSE @]
                    /\ tab' = SetAppState(here, view, FALSE)
            /\ pageHistory' = [pageHistory EXCEPT !.off = view = Blank]
            /\ UNCHANGED running

Reload ==
    \E f \in DOMAIN running :
        /\ running[f] = Idle
        /\ running' = [running EXCEPT ![f] = Started]
        /\ UNCHANGED <<page, tab, pageHistory>>

-----------------------------------------------------------------------------
(* forceFetch, from one await to the next.                                 *)

Ended(f, r) == [r EXCEPT ![f] = Idle]

\* A host that is gone takes its games off the page.
ListsArrive(f) ==
    /\ running[f].step = "lists"
    /\ \E listed \in SUBSET StartHosts :
           LET gone == page.view[1] = "games" /\ page.games \notin listed
           IN  /\ gone => tab.at < MaxHistory
               /\ page' = [page EXCEPT !.listed = listed,
                                       !.view = IF gone THEN HostsView ELSE @]
               /\ tab' = IF gone THEN SetAppState(tab, HostsView, TRUE) ELSE tab
               /\ pageHistory' = [pageHistory EXCEPT !.off = @ /\ ~gone]
    /\ running' = [running EXCEPT ![f].step = "rest"]

\* maybeHandleLaunchIntent, once the rest of the page is refreshed: the one
\* host's games are fetched first.
PageRefreshed(f) ==
    /\ running[f].step = "rest"
    /\ LET launch == page.launches = 0 /\ Cardinality(page.listed) = 1
           wait == [step |-> "apps", host |-> CHOOSE h \in page.listed : TRUE]
           waits == {g \in DOMAIN running : running[g].step = "apps"}
       IN  /\ running' = IF launch THEN [running EXCEPT ![f] = wait] ELSE Ended(f, running)
           /\ pageHistory' = [pageHistory EXCEPT !.raced = @ \/ (launch /\ waits # {})]
    /\ UNCHANGED <<page, tab>>

\* A request that fails ends the fetch, wherever it stands.
PageFetchFails(f) ==
    /\ running[f] # Idle
    /\ running' = Ended(f, running)
    /\ UNCHANGED <<page, tab, pageHistory>>

\* The intent is handled only now; the games are shown beside the history.
AppsArrive(f) ==
    LET view == GamesView(running[f].host)
    IN  /\ running[f].step = "apps"
        /\ page' = [page EXCEPT !.launches = @ + 1, !.view = view, !.games = view[2]]
        /\ tab' = IF Stays(view) THEN tab ELSE SetAppState(tab, view, FALSE)
        /\ running' = Ended(f, running)
        /\ pageHistory' = [pageHistory EXCEPT !.off = @ \/ ~Stays(view)]

\* The browser loads the page again; its address keeps an intent not handled.
LoadAgain ==
    LET last == SetAppState(tab, HostsView, TRUE)
        end == IF tab.saved = HostsView THEN last ELSE SetAppState(last, tab.saved, TRUE)
    IN  /\ end.at <= MaxHistory
        /\ page' = [view |-> end.saved, games |-> end.saved[2], listed |-> {},
                    launches |-> IF page.launches = 0 THEN 0 ELSE 1]
        /\ tab' = end
        /\ running' = [f \in 1..PageFetches |-> IF f = 1 THEN Started ELSE Idle]
        /\ pageHistory' = [off |-> FALSE, raced |-> FALSE]

StartNext ==
    \/ OpenHost \/ OpenSettings \/ PopState \/ Reload \/ LoadAgain
    \/ \E f \in DOMAIN running :
           ListsArrive(f) \/ PageRefreshed(f) \/ PageFetchFails(f) \/ AppsArrive(f)

StartSpec == StartInit /\ [][StartNext]_startVars

-----------------------------------------------------------------------------
StartTypeOK ==
    /\ page \in [view : Views, games : StartHosts \cup {NoGames},
                 listed : SUBSET StartHosts, launches : 0..PageFetches]
    /\ tab.at \in DOMAIN tab.entries /\ tab.saved \in Views
    /\ \A i \in DOMAIN tab.entries : tab.entries[i] \in Views \cup {Blank}
    /\ running \in [1..PageFetches ->
                       [step : HistorySteps, host : StartHosts \cup {NoGames}]]
    /\ pageHistory \in [off : BOOLEAN, raced : BOOLEAN]

\* What a reload would bring back is what the page shows, and so is the history's
\* entry unless the launch or the tab's first entry left it beside; and the address's
\* launch is carried out once, unless two fetches waited for its games together.
PageInStep ==
    /\ tab.saved = page.view
    /\ pageHistory.off \/ tab.entries[tab.at] = page.view
    /\ page.launches > 1 => pageHistory.raced

=============================================================================

------------------------------ MODULE HostList ------------------------------
(***************************************************************************)
(* The list of hosts on the start page: the fetches that fill it and the   *)
(* hosts a user adds, removes and pairs (component/host, host/list.ts,     *)
(* component/fetch_list.ts, component/list.ts, the requests of api.ts).    *)
(*                                                                         *)
(* A fetch, a removal and an addition are requests whose answers may come  *)
(* in any order; the list is changed by each answer as it comes.           *)
(*                                                                         *)
(* Abstracted: the tiles' markup and animation, the menus' texts, owners   *)
(* and roles; of a host's data only whether it is off, unpaired or ready.  *)
(***************************************************************************)
EXTENDS Naturals, Sequences, FiniteSets, SequencesExt

CONSTANTS MaxHosts,             \* hosts are numbered in the server's order
          MaxFetches            \* bound: fetches of the list
ASSUME HostListAssumption == MaxHosts \in Nat \ {0} /\ MaxFetches \in Nat \ {0}

Hosts == 1 .. MaxHosts
Fetches == 1 .. MaxFetches
HostStates == {"offline", "locked", "ready"}

VARIABLES shelf,                \* the list: its hosts in order, the state on each tile
          fetches,              \* the fetches of the list
          edits,                \* the requests about single hosts
          server                \* the hosts as the server has them
listVars == <<shelf, fetches, edits, server>>

NoFetch == [at |-> "idle", seen |-> {}, rest |-> {}]

ListInit ==
  /\ shelf = [list |-> <<>>, tile |-> [h \in Hosts |-> "offline"], missed |-> FALSE]
  /\ fetches = [r \in Fetches |-> IF r = 1 THEN [NoFetch EXCEPT !.at = "asked"] ELSE NoFetch]
  /\ edits = [h \in Hosts |-> "none"]
  /\ server = [has |-> Hosts, state |-> [h \in Hosts |-> IF h = 1 THEN "locked" ELSE "offline"]]

InList(h) == h \in ToSet(shelf.list)
---------------------------------------------------------------------------
(* The list component. *)

\* The elements of s at the positions of P, in their order.
Picked(s, P) ==
  [k \in 1 .. Cardinality(P) |-> s[CHOOSE i \in P : Cardinality({j \in P : j < i}) = k - 1]]

\* FetchListComponent.updateCache: tiles of hosts that are gone leave, the others are
\* updated in place, new hosts are appended.
Listed(list, has) ==
  Picked(list, {i \in DOMAIN list : list[i] \in has})
    \o Picked([h \in Hosts |-> h], has \ ToSet(list))

\* ListComponent.remove: splice at an index, which for -1 is the last element.
Spliced(list, i) ==
  IF i # 0 THEN RemoveAt(list, i) ELSE IF list = <<>> THEN list ELSE Front(list)

\* removeHostListener: the first tile of the host; no tile is the index -1, here 0.
Unlisted(list, h) ==
  LET at == {i \in DOMAIN list : list[i] = h}
  IN  Spliced(list, IF at = {} THEN 0 ELSE CHOOSE i \in at : \A j \in at : i <= j)

\* ListComponent.append.
Appended(list, h) == Append(list, h)

---------------------------------------------------------------------------
(* HostList.forceFetch, from one await to the next. *)

\* The page is fetched again, by the menu or by a game.
FetchAgain(r) ==
  /\ fetches[r].at = "idle" /\ \A q \in Fetches : q < r => fetches[q].at # "idle"
  /\ fetches' = [fetches EXCEPT ![r].at = "asked"]
  /\ UNCHANGED <<shelf, edits, server>>

\* The server reads its hosts for the request.
ServeHosts(r) ==
  /\ fetches[r].at = "asked"
  /\ fetches' = [fetches EXCEPT ![r] = [at |-> "served", seen |-> server.has, rest |-> server.has]]
  /\ UNCHANGED <<shelf, edits, server>>

\* The first line of the answer names the hosts; it knows no states, so that a tile that is
\* there already shows its host offline until that host's own line.
HostsArrive(r) ==
  LET seen == fetches[r].seen
  IN  /\ fetches[r].at = "served"
      /\ shelf' = [shelf EXCEPT !.list = Listed(@, seen),
                                !.tile = [h \in Hosts |-> "offline"],
                                !.missed = seen # server.has \/ ~IsInjective(shelf.list)]
      /\ fetches' = [fetches EXCEPT ![r].at = "lines", ![r].seen = {}]
      /\ UNCHANGED <<edits, server>>

\* updateCache of a tile, which shows the state and its overlay.
Told(s, h, state) == [s EXCEPT !.tile[h] = state]

\* Each further line is one host, polled; a host without a tile is passed over, and a host
\* whose poll failed has no line.
LineArrives(r, h) ==
  /\ fetches[r].at = "lines" /\ h \in fetches[r].rest
  /\ fetches' = [fetches EXCEPT ![r].rest = @ \ {h}]
  /\ shelf' = IF InList(h) THEN Told(shelf, h, server.state[h]) ELSE shelf
  /\ UNCHANGED <<edits, server>>

\* A request fails; or two lines come in one read, which next() puts together and cannot
\* parse.
FetchFails(r) ==
  /\ fetches[r].at \in {"asked", "served", "lines"}
  /\ fetches' = [fetches EXCEPT ![r] = [NoFetch EXCEPT !.at = "ended"]]
  /\ shelf' = [shelf EXCEPT !.missed = @ \/ fetches[r].at # "lines"]
  /\ UNCHANGED <<edits, server>>

FetchEnds(r) ==
  /\ fetches[r].at = "lines"
  /\ fetches' = [fetches EXCEPT ![r] = [NoFetch EXCEPT !.at = "ended"]]
  /\ UNCHANGED <<shelf, edits, server>>

---------------------------------------------------------------------------
(* Single hosts. *)

\* Bound: one request about a single host at a time.
OneAtATime == \A h \in Hosts : edits[h] \in {"none", "added", "gone"}

\* The entries of a tile's menu that may remove it, for its owner or an administrator.
RemoveHost(h) ==
  /\ InList(h) /\ edits[h] \in {"none", "added"} /\ OneAtATime
  /\ edits' = [edits EXCEPT ![h] = "removing"]
  /\ UNCHANGED <<shelf, fetches, server>>

ServerRemoves(h) ==
  /\ edits[h] = "removing" /\ h \in server.has
  /\ server' = [server EXCEPT !.has = @ \ {h}]
  /\ edits' = [edits EXCEPT ![h] = "removed"]
  /\ UNCHANGED <<shelf, fetches>>

\* Another user's browser removed the host first: the request is refused, and nothing shows it.
RemoveFails(h) ==
  /\ edits[h] = "removing" /\ h \notin server.has
  /\ edits' = [edits EXCEPT ![h] = "gone"]
  /\ UNCHANGED <<shelf, fetches, server>>

\* Another user removes the host, or makes it private.
OthersRemove(h) ==
  /\ h \in server.has /\ edits[h] # "adding"
  /\ server' = [server EXCEPT !.has = @ \ {h}]
  /\ shelf' = [shelf EXCEPT !.missed = TRUE]
  /\ UNCHANGED <<fetches, edits>>

HostRemoved(h) ==
  /\ edits[h] = "removed"
  /\ shelf' = [shelf EXCEPT !.list = Unlisted(@, h), !.missed = @ \/ ~InList(h)]
  /\ edits' = [edits EXCEPT ![h] = "gone"]
  /\ UNCHANGED <<fetches, server>>

AddHost(h) ==
  /\ h \notin server.has /\ edits[h] = "none" /\ OneAtATime
  /\ server' = [server EXCEPT !.has = @ \cup {h}]
  /\ edits' = [edits EXCEPT ![h] = "adding"]
  /\ UNCHANGED <<shelf, fetches>>

\* The dialog's address is reachable: the new host gets a tile, listed already or not.
HostAdded(h) ==
  /\ edits[h] = "adding"
  /\ shelf' = Told([shelf EXCEPT !.list = Appended(@, h), !.missed = @ \/ InList(h)],
                   h, server.state[h])
  /\ edits' = [edits EXCEPT ![h] = "added"]
  /\ UNCHANGED <<fetches, server>>

\* Reload and Show Details of a tile: one host, in detail.
HostFetched(h) ==
  /\ InList(h) /\ h \in server.has
  /\ shelf' = Told(shelf, h, server.state[h])
  /\ UNCHANGED <<fetches, edits, server>>

\* A press on a tile that is up and not paired; the second line of the answer pairs it.
Pair(h) ==
  /\ InList(h) /\ shelf.tile[h] = "locked"
  /\ h \in server.has /\ server.state[h] = "locked"
  /\ server' = [server EXCEPT !.state[h] = "ready"]
  /\ shelf' = Told(shelf, h, "ready")
  /\ UNCHANGED <<fetches, edits>>

\* A host comes up, by itself or by a packet that wakes it.
HostUp(h) ==
  /\ h \in server.has /\ server.state[h] = "offline"
  /\ server' = [server EXCEPT !.state[h] = "ready"]
  /\ UNCHANGED <<shelf, fetches, edits>>

ListNext ==
  \/ \E r \in Fetches :
       \/ FetchAgain(r) \/ ServeHosts(r) \/ HostsArrive(r) \/ FetchFails(r) \/ FetchEnds(r)
       \/ \E h \in Hosts : LineArrives(r, h)
  \/ \E h \in Hosts :
       \/ RemoveHost(h) \/ ServerRemoves(h) \/ RemoveFails(h) \/ HostRemoved(h)
       \/ OthersRemove(h) \/ AddHost(h) \/ HostAdded(h) \/ HostFetched(h) \/ Pair(h) \/ HostUp(h)

ListSpec == ListInit /\ [][ListNext]_listVars
---------------------------------------------------------------------------
ListTypeOK ==
  /\ shelf.list \in Seq(Hosts)
  /\ \A h \in Hosts : shelf.tile[h] \in HostStates /\ server.state[h] \in HostStates
  /\ server.has \subseteq Hosts

ListQuiet ==
  /\ \A r \in Fetches : fetches[r].at \in {"idle", "ended"}
  /\ OneAtATime

\* Once every answer is in, the list shows each of the server's hosts once.  The code misses
\* these, kept in missed until a fetch sets them right: an answer older than a change that
\* is already shown, what another browser removed, a removal answered when a fetch has taken
\* the tile (another tile goes in its place), and an addition answered when a fetch has
\* brought the host (two tiles, which no fetch sets right).
ListInStep ==
  ListQuiet /\ ~shelf.missed =>
    /\ ToSet(shelf.list) = server.has
    /\ Len(shelf.list) = Cardinality(server.has)
=============================================================================

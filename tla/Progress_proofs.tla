-------------------------- MODULE Progress_proofs --------------------------
(***************************************************************************)
(* What holds of the components of MCProgress at every moment, whatever    *)
(* the values of the constants.                                            *)
(***************************************************************************)
EXTENDS MCProgress, SupervisorMailbox_proofs, SequenceTheorems

-----------------------------------------------------------------------------
(* The storage of the web server *)

\* What is known of user u: nobody, there, or once removed.
Known(u) == u = Nobody \/ u \in removed \/ (u \in UserIds /\ rows[u] # None)

\* No user comes or goes while store holds the lock; unread are those to copy.
CopyInv ==
  /\ server # "up" => writer = "recv" /\ task = [c \in Clients |-> Idle]
  /\ writer \in {"recv", "lockUsers", "lockHosts"} => snap = Empty
  /\ writer = "lockHosts" =>
       \A i \in RowIds : i \in unread <=> i \in UserIds /\ rows[i] # None
  /\ writer = "copy" =>
       \A u \in UserIds : rows[u] # None <=> snap[u] # None \/ u \in unread

\* As long as nothing is signalled, what was copied is what there is.
FreshInv ==
  /\ server = "up" /\ writer = "recv" /\ torn => failed
  /\ ~Signalled =>
       /\ server = "up" /\ writer = "recv" /\ ~failed => disk = rows
       /\ writer = "copy" => \A i \in RowIds \ unread : snap[i] = rows[i]
       /\ writer \in {"truncate", "fill"} => snap = rows

\* The owner of a host in table t is a user in t, or was removed.
OwnersIn(t) ==
  \A h \in HostIds : t[h] # None =>
    t[h].owner = Nobody \/ t[h].owner \in removed
      \/ (t[h].owner \in UserIds /\ t[t[h].owner] # None)

OwnerInv ==
  /\ \A c \in Clients : Known(task[c].user)
  /\ OwnersIn(rows)
  /\ OwnersIn(disk)
  /\ writer \in {"copy", "truncate", "fill"} => OwnersIn(snap)

\* A client who is adding a user has a name for it.
NameInv ==
  \A c \in Clients : task[c].pc \in {"check", "insert"} => task[c].name \in Names

StorageInv == StorageTypeOK /\ NameInv /\ CopyInv /\ FreshInv /\ OwnerInv

\* A request takes a step that changes no row and takes no signal back.
Quiet ==
  /\ UNCHANGED <<server, tableVars, writerVars, fileVars>>
  /\ server = "up"
  /\ Signalled => Signalled'
  /\ \A c \in Clients : Known(task[c].user)'

\* A request changes rows, and has signalled it or is about to.
Changing ==
  /\ UNCHANGED <<server, writerVars, fileVars>>
  /\ server = "up"
  /\ Signalled'
  /\ removed \subseteq removed'
  /\ UsersLocked => \A u \in UserIds : rows[u] # None <=> rows'[u] # None
  /\ \A u \in UserIds : rows[u] # None => rows'[u] # None \/ u \in removed'
  /\ \A h \in HostIds : rows'[h] # None =>
       \/ rows[h] # None /\ rows'[h].owner = rows[h].owner
       \/ Known(rows[h].owner)'
  /\ \A c \in Clients : Known(task[c].user)'

-----------------------------------------------------------------------------
(* Tables and tasks *)

LEMMA TableTyped ==
  \A t \in Tables :
    /\ t \in [RowIds -> UserRows \cup HostRows \cup {None}]
    /\ \A u \in UserIds : t[u] \in UserRows \cup {None}
    /\ \A h \in HostIds : t[h] \in HostRows \cup {None}
BY DEF Tables

LEMMA TableExcept ==
  \A t \in Tables : \A i \in RowIds : \A r \in UserRows \cup HostRows \cup {None} :
    (/\ i \in UserIds => r \in UserRows \cup {None}
     /\ i \in HostIds => r \in HostRows \cup {None})
    => [t EXCEPT ![i] = r] \in Tables
<1> SUFFICES ASSUME NEW t \in Tables, NEW i \in RowIds,
                    NEW r \in UserRows \cup HostRows \cup {None},
                    i \in UserIds => r \in UserRows \cup {None},
                    i \in HostIds => r \in HostRows \cup {None}
             PROVE  [t EXCEPT ![i] = r] \in Tables
  OBVIOUS
<1> DEFINE e == [t EXCEPT ![i] = r]
<1>1. e \in [RowIds -> UserRows \cup HostRows \cup {None}]
  BY TableTyped
<1>2. \A u \in UserIds : e[u] \in UserRows \cup {None}
  BY TableTyped DEF RowIds
<1>3. \A h \in HostIds : e[h] \in HostRows \cup {None}
  BY TableTyped DEF RowIds
<1> QED BY <1>1, <1>2, <1>3 DEF Tables

LEMMA EmptyTyped == Empty \in Tables
BY DEF Empty, Tables, RowIds

LEMMA TablesEqual ==
  \A t, u \in Tables : (\A i \in RowIds : t[i] = u[i]) => t = u
BY DEF Tables

LEMMA StorageInitially == StorageInit => StorageInv
<1> SUFFICES ASSUME StorageInit PROVE StorageInv
  OBVIOUS
<1> USE StorageAssumption DEF StorageInit
<1>1. 0 \in Stamps
  BY DEF Stamps
<1>2. rows \in Tables
  BY DEF Files
<1>3. Idle \in TaskStates
  BY DEF Idle, TaskStates
<1>4. StorageTypeOK
  BY <1>1, <1>2, <1>3, EmptyTyped DEF StorageTypeOK, WriterStates
<1>5. CopyInv /\ FreshInv
  BY DEF CopyInv, FreshInv
<1>6. OwnersIn(rows)
  BY DEF OwnersIn, Files, Hosts, Users, Present, RowIds
<1>7. OwnerInv
  BY <1>6 DEF OwnerInv, OwnersIn, Known, Idle
<1> QED BY <1>4, <1>5, <1>7 DEF StorageInv, NameInv, Idle

-----------------------------------------------------------------------------
(* The two shapes of a request's step *)

LEMMA QuietKeeps == StorageInv /\ StorageTypeOK' /\ NameInv' /\ Quiet => StorageInv'
<1> SUFFICES ASSUME StorageInv, StorageTypeOK', NameInv', Quiet PROVE StorageInv'
  OBVIOUS
<1> USE DEF StorageInv, Quiet, tableVars, writerVars, fileVars
<1>1. CopyInv'
  BY DEF CopyInv, Empty
<1>2. FreshInv'
  BY DEF FreshInv
<1>3. OwnerInv'
  BY DEF OwnerInv, OwnersIn, Known
<1> QED BY <1>1, <1>2, <1>3

LEMMA ChangingKeeps == StorageInv /\ StorageTypeOK' /\ NameInv' /\ Changing => StorageInv'
<1> SUFFICES ASSUME StorageInv, StorageTypeOK', NameInv', Changing PROVE StorageInv'
  OBVIOUS
<1> USE DEF StorageInv, Changing, writerVars, fileVars
<1>1. CopyInv'
  <2>1. writer' = "lockHosts" => \A i \in RowIds : i \in unread' <=> i \in UserIds /\ rows'[i] # None
    BY DEF CopyInv, UsersLocked
  <2>2. writer' = "copy" =>
          \A u \in UserIds : rows'[u] # None <=> snap'[u] # None \/ u \in unread'
    BY DEF CopyInv, UsersLocked
  <2> QED BY <2>1, <2>2 DEF CopyInv, Empty
<1>2. FreshInv'
  BY DEF FreshInv
<1>3. OwnerInv'
  <2>1. OwnersIn(rows)'
    BY DEF OwnerInv, OwnersIn, Known
  <2>2. OwnersIn(disk)' /\ (OwnersIn(snap) => OwnersIn(snap)')
    BY DEF OwnerInv, OwnersIn
  <2> QED BY <2>1, <2>2 DEF OwnerInv
<1> QED BY <1>1, <1>2, <1>3

-----------------------------------------------------------------------------
(* The requests *)

\* Where a step leaves its client is a task, and every other client's is as before.
LEMMA TaskExcept ==
  StorageTypeOK => \A c \in Clients : \A t \in TaskStates : [task EXCEPT ![c] = t] \in [Clients -> TaskStates]
BY DEF StorageTypeOK

LEMMA TaskFields ==
  StorageTypeOK => \A c \in Clients :
    /\ task[c] \in TaskStates
    /\ \A pc \in {"idle", "check", "insert", "signal", "insertHost", "list", "assign"} :
         [task[c] EXCEPT !.pc = pc] \in TaskStates
    /\ task[c].user \in UserIds \cup {Nobody}
    /\ task[c].name \in Names \cup {Nobody}
BY DEF StorageTypeOK, TaskStates

LEMMA RowsTyped ==
  ASSUME StorageTypeOK, changes < MaxChanges
  PROVE  /\ changes + 1 \in Stamps
         /\ \A n \in Names : [name |-> n, stamp |-> changes + 1] \in UserRows
         /\ \A u \in UserIds \cup {Nobody} : [owner |-> u, stamp |-> changes + 1] \in HostRows
         /\ \A u \in Users(rows) : Stamped(rows[u]) \in UserRows
         /\ \A h \in Hosts(rows) : Stamped(rows[h]) \in HostRows
<1> USE StorageAssumption
<1>1. changes + 1 \in Stamps
  BY DEF StorageTypeOK, Stamps
<1>2. \A u \in Users(rows) : rows[u] \in UserRows
  BY TableTyped DEF StorageTypeOK, Users, Present
<1>3. \A h \in Hosts(rows) : rows[h] \in HostRows
  BY TableTyped DEF StorageTypeOK, Hosts, Present
<1>4. \A u \in Users(rows) : Stamped(rows[u]) \in UserRows
  BY <1>1, <1>2 DEF Stamped, UserRows
<1>5. \A h \in Hosts(rows) : Stamped(rows[h]) \in HostRows
  BY <1>1, <1>3 DEF Stamped, HostRows
<1> QED BY <1>1, <1>4, <1>5 DEF UserRows, HostRows

\* The steps that change no row: a look at the tables, or a decision.
LEMMA QuietRequests ==
  ASSUME StorageInv, NEW c \in Clients,
         \/ CheckName(c) \/ ListHosts(c)
         \/ \E n \in Names : BeginAddUser(c, n) \/ BeginFirstLogin(c, n)
         \/ \E u \in UserIds : BeginAddHost(c, u)
         \/ \E h \in HostIds : SkipHost(c, h)
  PROVE  StorageInv'
<1> USE DEF StorageInv, tableVars, writerVars, fileVars, At, Become, GoTo
<1>0. /\ server = "up"
      /\ task[c].pc \in {"idle", "check", "list", "assign"}
      /\ UNCHANGED <<server, tableVars, chan, writerVars, fileVars>>
  BY DEF CheckName, ListHosts, BeginAddUser, BeginFirstLogin, BeginAddHost, SkipHost
<1>1. \E t \in TaskStates :
        /\ task' = [task EXCEPT ![c] = t]
        /\ t.pc \in {"check", "insert"} => t.name \in Names
        /\ Known(t.user)
  <2>1. \A hosts \in SUBSET HostIds :
          /\ Assigning(c, hosts) \in TaskStates
          /\ Assigning(c, hosts).pc \in {"idle", "assign"}
          /\ Known(Assigning(c, hosts).user)
    BY DEF Assigning, Idle, TaskStates, StorageTypeOK, OwnerInv, Known
  <2>2. CASE CheckName(c)
    <3>1. Idle \in TaskStates /\ Idle.pc = "idle" /\ Known(Idle.user)
      BY DEF Idle, TaskStates, Known
    <3>2. /\ [task[c] EXCEPT !.pc = "insert"] \in TaskStates
          /\ [task[c] EXCEPT !.pc = "insert"].name = task[c].name
          /\ [task[c] EXCEPT !.pc = "insert"].user = task[c].user
      BY DEF StorageTypeOK, TaskStates
    <3> QED BY <2>2, <3>1, <3>2 DEF CheckName, NameInv, OwnerInv
  <2>3. CASE ListHosts(c)
    BY <2>1, <2>3 DEF ListHosts, Hosts
  <2>4. CASE \E n \in Names : BeginAddUser(c, n) \/ BeginFirstLogin(c, n)
    <3> PICK n \in Names : BeginAddUser(c, n) \/ BeginFirstLogin(c, n)
      BY <2>4
    <3> DEFINE added == [Idle EXCEPT !.pc = "check", !.name = n]
               first == [Idle EXCEPT !.pc = "check", !.name = n, !.first = TRUE]
    <3>1. added \in TaskStates /\ added.name = n /\ Known(added.user)
      BY DEF Idle, TaskStates, Known
    <3>2. first \in TaskStates /\ first.name = n /\ Known(first.user)
      BY DEF Idle, TaskStates, Known
    <3> QED BY <3>1, <3>2 DEF BeginAddUser, BeginFirstLogin
  <2>5. CASE \E u \in UserIds : BeginAddHost(c, u)
    <3> PICK u \in UserIds : BeginAddHost(c, u)
      BY <2>5
    <3> DEFINE t == [Idle EXCEPT !.pc = "insertHost", !.user = u]
    <3>1. t \in TaskStates /\ t.pc = "insertHost" /\ t.user = u
      BY DEF Idle, TaskStates
    <3>2. Known(u)
      BY DEF BeginAddHost, Users, Present, Known
    <3> QED BY <3>1, <3>2 DEF BeginAddHost
  <2>6. CASE \E h \in HostIds : SkipHost(c, h)
    <3> PICK h \in HostIds : SkipHost(c, h)
      BY <2>6
    <3>1. task[c].todo \ {h} \in SUBSET HostIds
      BY DEF StorageTypeOK, TaskStates
    <3> QED BY <2>1, <3>1 DEF SkipHost
  <2> QED BY <2>2, <2>3, <2>4, <2>5, <2>6
<1> PICK t \in TaskStates :
      /\ task' = [task EXCEPT ![c] = t]
      /\ t.pc \in {"check", "insert"} => t.name \in Names
      /\ Known(t.user)
  BY <1>1
<1>2. StorageTypeOK'
  BY <1>0, TaskExcept DEF StorageTypeOK
<1>3. NameInv'
  BY DEF NameInv, StorageTypeOK
<1>4. Quiet
  <2>1. Signalled => Signalled'
    BY <1>0 DEF Signalled, StorageTypeOK
  <2>2. \A d \in Clients : Known(task[d].user)'
    BY <1>0 DEF OwnerInv, Known, StorageTypeOK
  <2> QED BY <1>0, <2>1, <2>2 DEF Quiet
<1> QED BY <1>2, <1>3, <1>4, QuietKeeps

LEMMA SignalKeeps ==
  ASSUME StorageInv, NEW c \in Clients, Signal(c)
  PROVE  StorageInv'
<1> USE DEF StorageInv, tableVars, writerVars, fileVars, At, Become, GoTo
<1>1. PICK t \in TaskStates :
        task' = [task EXCEPT ![c] = t] /\ t.pc \in {"list", "idle"} /\ Known(t.user)
  <2>1. Idle \in TaskStates /\ Idle.pc = "idle" /\ Known(Idle.user)
    BY DEF Idle, TaskStates, Known
  <2>2. /\ [task[c] EXCEPT !.pc = "list"] \in TaskStates
        /\ [task[c] EXCEPT !.pc = "list"].pc = "list"
        /\ [task[c] EXCEPT !.pc = "list"].user = task[c].user
    BY DEF StorageTypeOK, TaskStates
  <2> QED BY <2>1, <2>2 DEF Signal, OwnerInv
<1>2. StorageTypeOK' /\ NameInv'
  BY <1>1, TaskExcept DEF Signal, StorageTypeOK, NameInv
<1>3. Changing
  BY <1>1 DEF Signal, Changing, Signalled, OwnerInv, Known, StorageTypeOK
<1> QED BY <1>2, <1>3, ChangingKeeps

LEMMA InsertUserKeeps ==
  ASSUME StorageInv, NEW c \in Clients, InsertUser(c)
  PROVE  StorageInv'
<1> USE DEF StorageInv, writerVars, fileVars, At, Become
<1> PICK u \in UserIds \ Present(rows) :
      /\ Change(u, [name |-> task[c].name, stamp |-> changes + 1])
      /\ task' = [task EXCEPT ![c] = [task[c] EXCEPT !.pc = "signal", !.user = u]]
  BY DEF InsertUser
<1> DEFINE t == [task[c] EXCEPT !.pc = "signal", !.user = u]
<1>1. t \in TaskStates /\ t.pc = "signal" /\ t.user = u
  BY DEF StorageTypeOK, TaskStates
<1>2. [name |-> task[c].name, stamp |-> changes + 1] \in UserRows
  BY RowsTyped DEF InsertUser, NameInv, Change
<1>3. rows' \in Tables /\ changes' \in Stamps
  BY <1>2, TableExcept, RowsTyped, StorageAssumption DEF Change, RowIds, StorageTypeOK
<1>4. rows'[u] # None /\ rows \in [RowIds -> UserRows \cup HostRows \cup {None}]
  BY <1>2, NoneAssumption, TableTyped DEF Change, RowIds, StorageTypeOK
<1>5. StorageTypeOK' /\ NameInv'
  BY <1>1, <1>3, TaskExcept DEF InsertUser, StorageTypeOK, NameInv
<1>6. \A v \in UserIds : rows[v] # None => rows'[v] # None
  BY <1>4 DEF Change, RowIds
<1>7. \A h \in HostIds : rows'[h] = rows[h]
  BY <1>4, StorageAssumption DEF Change, RowIds
<1>8. Changing
  <2>1. Signalled'
    BY <1>1 DEF Signalled, StorageTypeOK
  <2>2. \A d \in Clients : Known(task[d].user)'
    BY <1>1, <1>4, <1>6 DEF InsertUser, OwnerInv, Known, StorageTypeOK
  <2> QED BY <1>6, <1>7, <2>1, <2>2 DEF InsertUser, Changing
<1> QED BY <1>5, <1>8, ChangingKeeps

LEMMA ModifyUserKeeps ==
  ASSUME StorageInv, NEW c \in Clients, NEW u \in UserIds, ModifyUser(c, u)
  PROVE  StorageInv'
<1> USE DEF StorageInv, writerVars, fileVars, At, Become, GoTo
<1> DEFINE t == [task[c] EXCEPT !.pc = "signal"]
<1>1. t \in TaskStates /\ t.pc = "signal" /\ t.user = task[c].user
  BY DEF StorageTypeOK, TaskStates
<1>2. Stamped(rows[u]) \in UserRows
  BY RowsTyped DEF ModifyUser, Change
<1>3. rows' \in Tables /\ changes' \in Stamps
  BY <1>2, TableExcept, RowsTyped, StorageAssumption DEF ModifyUser, Change, RowIds, StorageTypeOK
<1>4. rows'[u] # None /\ rows \in [RowIds -> UserRows \cup HostRows \cup {None}]
  BY <1>2, NoneAssumption, TableTyped DEF ModifyUser, Change, RowIds, StorageTypeOK
<1>5. StorageTypeOK' /\ NameInv'
  BY <1>1, <1>3, TaskExcept DEF ModifyUser, StorageTypeOK, NameInv
<1>6. \A v \in UserIds : rows[v] # None <=> rows'[v] # None
  BY <1>4 DEF ModifyUser, Change, RowIds, Users, Present
<1>7. \A h \in HostIds : rows'[h] = rows[h]
  BY <1>4, StorageAssumption DEF ModifyUser, Change, RowIds
<1>8. Changing
  <2>1. Signalled'
    BY <1>1 DEF ModifyUser, Signalled, StorageTypeOK
  <2>2. \A d \in Clients : Known(task[d].user)'
    BY <1>1, <1>6 DEF ModifyUser, OwnerInv, Known, StorageTypeOK
  <2> QED BY <1>6, <1>7, <2>1, <2>2 DEF ModifyUser, Changing
<1> QED BY <1>5, <1>8, ChangingKeeps

LEMMA RemoveUserKeeps ==
  ASSUME StorageInv, NEW c \in Clients, NEW u \in UserIds, RemoveUser(c, u)
  PROVE  StorageInv'
<1> USE DEF StorageInv, tableVars, writerVars, fileVars, At, Become, GoTo
<1> DEFINE t == [task[c] EXCEPT !.pc = "signal"]
<1>1. /\ t \in TaskStates /\ t.pc = "signal" /\ t.user = task[c].user
      /\ task' = [task EXCEPT ![c] = t]
  BY DEF RemoveUser, StorageTypeOK, TaskStates
<1>2. rows' \in Tables /\ changes' \in Stamps
  BY TableExcept, RowsTyped, StorageAssumption DEF RemoveUser, Change, RowIds, StorageTypeOK
<1>3. StorageTypeOK' /\ NameInv'
  BY <1>1, <1>2, TaskExcept DEF RemoveUser, StorageTypeOK, NameInv
<1>4. rows \in [RowIds -> UserRows \cup HostRows \cup {None}]
  BY TableTyped DEF StorageTypeOK
<1>5. \A v \in UserIds : rows[v] # None => rows'[v] # None \/ v \in removed'
  BY <1>4 DEF RemoveUser, Change, RowIds
<1>6. \A h \in HostIds : rows'[h] = rows[h]
  BY <1>4, StorageAssumption DEF RemoveUser, Change, RowIds
<1>7. Changing
  <2>1. Signalled'
    BY <1>1 DEF Signalled, StorageTypeOK
  <2>2. \A d \in Clients : Known(task[d].user)'
    BY <1>1, <1>5 DEF RemoveUser, OwnerInv, Known, StorageTypeOK
  <2> QED BY <1>5, <1>6, <2>1, <2>2 DEF RemoveUser, Changing
<1> QED BY <1>3, <1>7, ChangingKeeps

\* A request gives host h the row r, or none, and goes on as t.
HostChange(c, h) ==
  /\ server = "up"
  /\ chan' = TRUE
  /\ UNCHANGED <<server, removed, writerVars, fileVars>>
  /\ \E r \in HostRows \cup {None} :
       /\ Change(h, r)
       /\ r # None => Known(r.owner) \/ (rows[h] # None /\ r.owner = rows[h].owner)
  /\ \E t \in TaskStates :
       /\ task' = [task EXCEPT ![c] = t]
       /\ t.pc \notin {"check", "insert"}
       /\ Known(t.user)

LEMMA HostChangeKeeps ==
  ASSUME StorageInv, NEW c \in Clients, NEW h \in HostIds, HostChange(c, h)
  PROVE  StorageInv'
<1> USE DEF StorageInv, writerVars, fileVars
<1> PICK r \in HostRows \cup {None} :
      /\ Change(h, r)
      /\ r # None => Known(r.owner) \/ (rows[h] # None /\ r.owner = rows[h].owner)
  BY DEF HostChange
<1> PICK t \in TaskStates :
      /\ task' = [task EXCEPT ![c] = t]
      /\ t.pc \notin {"check", "insert"}
      /\ Known(t.user)
  BY DEF HostChange
<1>1. rows' \in Tables /\ changes' \in Stamps
  BY TableExcept, RowsTyped, StorageAssumption DEF Change, RowIds, StorageTypeOK
<1>2. StorageTypeOK' /\ NameInv'
  BY <1>1, TaskExcept DEF HostChange, StorageTypeOK, NameInv
<1>3. rows \in [RowIds -> UserRows \cup HostRows \cup {None}]
  BY TableTyped DEF StorageTypeOK
<1>4. \A u \in UserIds : rows'[u] = rows[u]
  BY <1>3, StorageAssumption DEF Change, RowIds
<1>5. rows'[h] = r /\ \A k \in HostIds \ {h} : rows'[k] = rows[k]
  BY <1>3 DEF Change, RowIds
<1>6. Changing
  <2>1. \A d \in Clients : Known(task[d].user)'
    BY <1>4 DEF HostChange, OwnerInv, Known, StorageTypeOK
  <2>2. \A k \in HostIds : rows'[k] # None =>
          \/ rows[k] # None /\ rows'[k].owner = rows[k].owner
          \/ Known(rows[k].owner)'
    BY <1>4, <1>5 DEF HostChange, Known
  <2> QED BY <1>4, <2>1, <2>2 DEF HostChange, Changing, Signalled
<1> QED BY <1>2, <1>6, ChangingKeeps

\* The four requests that change a host.
LEMMA HostRequestsKeep ==
  ASSUME StorageInv, NEW c \in Clients, NEW h \in HostIds,
         \/ InsertHost(c) \/ ModifyHost(c, h) \/ RemoveHost(c, h) \/ AssignHost(c, h)
  PROVE  StorageInv'
<1> USE DEF StorageInv, At, Become
<1>0. /\ task[c] \in TaskStates /\ Known(task[c].user)
      /\ task \in [Clients -> TaskStates]
      /\ Idle \in TaskStates /\ Idle.pc = "idle" /\ Known(Idle.user)
      /\ task[c].user \in UserIds \cup {Nobody}
  BY DEF StorageTypeOK, TaskStates, OwnerInv, Idle, Known
<1>1. CASE InsertHost(c)
  <2> PICK k \in HostIds \ Present(rows) :
        Change(k, [owner |-> task[c].user, stamp |-> changes + 1])
    BY <1>1 DEF InsertHost
  <2>1. [owner |-> task[c].user, stamp |-> changes + 1] \in HostRows
    BY <1>0, RowsTyped DEF Change
  <2> DEFINE r == [owner |-> task[c].user, stamp |-> changes + 1]
  <2>2. r \in HostRows \cup {None} /\ Change(k, r) /\ Known(r.owner)
    BY <1>0, <2>1
  <2> HIDE DEF r
  <2>3. task' = [task EXCEPT ![c] = Idle]
    BY <1>1 DEF InsertHost
  <2>4. HostChange(c, k)
    BY <1>0, <1>1, <2>2, <2>3 DEF InsertHost, HostChange
  <2> QED BY <2>4, HostChangeKeeps
<1>2. CASE ModifyHost(c, h)
  <2>1. /\ Stamped(rows[h]) \in HostRows
        /\ rows[h] # None
        /\ rows[h] \in HostRows
    BY <1>2, RowsTyped, TableTyped DEF ModifyHost, Change, Hosts, Present, StorageTypeOK
  <2>2. Stamped(rows[h]).owner = rows[h].owner
    BY <2>1 DEF Stamped, HostRows
  <2>3. task' = [task EXCEPT ![c] = task[c]] /\ task[c].pc = "idle"
    BY <1>0, <1>2 DEF ModifyHost
  <2>4. HostChange(c, h)
    BY <1>0, <1>2, <2>1, <2>2, <2>3 DEF ModifyHost, HostChange
  <2> QED BY <2>4, HostChangeKeeps
<1>3. CASE RemoveHost(c, h)
  <2>1. task' = [task EXCEPT ![c] = task[c]] /\ task[c].pc = "idle"
    BY <1>0, <1>3 DEF RemoveHost
  <2>2. HostChange(c, h)
    BY <1>0, <1>3, <2>1 DEF RemoveHost, HostChange
  <2> QED BY <2>2, HostChangeKeeps
<1>4. CASE AssignHost(c, h)
  <2>1. [owner |-> task[c].user, stamp |-> changes + 1] \in HostRows
    BY <1>0, <1>4, RowsTyped DEF AssignHost, Change
  <2> DEFINE t == Assigning(c, task[c].todo \ {h})
  <2>2. t \in TaskStates /\ t.pc \in {"idle", "assign"} /\ Known(t.user)
    BY <1>0 DEF Assigning, Idle, TaskStates
  <2> DEFINE r == [owner |-> task[c].user, stamp |-> changes + 1]
  <2>3. r \in HostRows \cup {None} /\ Change(h, r) /\ Known(r.owner)
    BY <1>0, <1>4, <2>1 DEF AssignHost
  <2>4. task' = [task EXCEPT ![c] = t]
    BY <1>4 DEF AssignHost
  <2> HIDE DEF r, t
  <2>5. HostChange(c, h)
    BY <1>0, <1>4, <2>2, <2>3, <2>4 DEF AssignHost, HostChange
  <2> QED BY <2>5, HostChangeKeeps
<1> QED BY <1>1, <1>2, <1>3, <1>4

LEMMA RequestsKeep == StorageInv /\ (\E c \in Clients : ClientNext(c)) => StorageInv'
<1> SUFFICES ASSUME StorageInv, NEW c \in Clients, ClientNext(c) PROVE StorageInv'
  OBVIOUS
<1>1. CASE InsertHost(c)
  <2>1. HostIds # {}
    BY <1>1 DEF InsertHost
  <2> QED BY <1>1, <2>1, HostRequestsKeep
<1> QED BY <1>1, QuietRequests, SignalKeeps, InsertUserKeeps, ModifyUserKeeps,
           RemoveUserKeeps, HostRequestsKeep DEF ClientNext

-----------------------------------------------------------------------------
(* The writer and the process *)

\* The tables do not change: what is claimed of tasks, tables and file is kept.
LEMMA WriterKeeps == StorageInv /\ (WriterSteps \/ WriteFails) => StorageInv'
<1> SUFFICES ASSUME StorageInv, WriterSteps \/ WriteFails PROVE StorageInv'
  OBVIOUS
<1> USE DEF StorageInv, tableVars, writerVars, fileVars, WriterAt
<1>0. server = "up" /\ UNCHANGED <<server, tableVars, task>>
  BY DEF WriterSteps, WriteFails, Recv, LockUsers, LockHosts, CopyRow, Unlock, TruncateFile, FillFile
<1>a. NameInv'
  BY <1>0 DEF NameInv
<1>b. (\A d \in Clients : Known(task[d].user))' /\ OwnersIn(rows)'
  BY <1>0 DEF OwnerInv, Known, OwnersIn
<1>1. CASE Recv
  <2>1. StorageTypeOK'
    BY <1>0, <1>1 DEF Recv, StorageTypeOK, WriterStates
  <2>2. CopyInv' /\ FreshInv' /\ OwnerInv'
    BY <1>0, <1>1, <1>b DEF Recv, CopyInv, FreshInv, OwnerInv, OwnersIn
  <2> QED BY <1>a, <2>1, <2>2
<1>2. CASE LockUsers
  <2>1. StorageTypeOK'
    BY <1>0, <1>2 DEF LockUsers, StorageTypeOK, WriterStates, Users, RowIds
  <2>2. CopyInv'
    BY <1>0, <1>2 DEF LockUsers, CopyInv, Users, Present, Empty, RowIds
  <2>3. FreshInv' /\ OwnerInv'
    BY <1>0, <1>2, <1>b DEF LockUsers, FreshInv, OwnerInv, OwnersIn
  <2> QED BY <1>a, <2>1, <2>2, <2>3
<1>3. CASE LockHosts
  <2>1. StorageTypeOK'
    BY <1>0, <1>3 DEF LockHosts, StorageTypeOK, WriterStates, Hosts, RowIds
  <2>2. snap' = Empty /\ \A i \in RowIds : i \in unread' <=> rows[i] # None
    BY <1>0, <1>3, StorageAssumption DEF LockHosts, CopyInv, Hosts, Present, RowIds
  <2>3. \A i \in RowIds : snap'[i] = None
    BY <2>2 DEF Empty
  <2>4. CopyInv'
    BY <1>0, <1>3, <2>2, <2>3 DEF LockHosts, CopyInv, RowIds
  <2>5. FreshInv'
    BY <1>0, <1>3, <2>2, <2>3 DEF LockHosts, FreshInv
  <2>6. OwnersIn(snap)'
    BY <2>3 DEF OwnersIn, RowIds
  <2>7. OwnerInv'
    BY <1>0, <1>3, <1>b, <2>6 DEF LockHosts, OwnerInv, OwnersIn
  <2> QED BY <1>a, <2>1, <2>4, <2>5, <2>7
<1>4. CASE \E i \in RowIds : CopyRow(i)
  <2> PICK i \in RowIds : CopyRow(i)
    BY <1>4
  <2>0. /\ snap \in [RowIds -> UserRows \cup HostRows \cup {None}]
        /\ rows[i] \in UserRows \cup HostRows \cup {None}
        /\ i \in UserIds => rows[i] \in UserRows \cup {None}
        /\ i \in HostIds => rows[i] \in HostRows \cup {None}
    BY TableTyped DEF StorageTypeOK
  <2>1. snap' \in Tables /\ snap' = [snap EXCEPT ![i] = rows[i]]
    BY <2>0, TableExcept DEF CopyRow, StorageTypeOK
  <2>2. StorageTypeOK'
    BY <1>0, <2>1 DEF CopyRow, StorageTypeOK
  <2>3. snap'[i] = rows[i] /\ \A j \in RowIds \ {i} : snap'[j] = snap[j]
    BY <2>0, <2>1
  <2>4. CopyInv'
    BY <1>0, <2>3 DEF CopyRow, CopyInv, RowIds
  <2>5. FreshInv'
    BY <1>0, <2>3 DEF CopyRow, FreshInv, Signalled
  <2>6. OwnersIn(snap)'
    <3> SUFFICES ASSUME NEW h \in HostIds, snap'[h] # None
                 PROVE  \/ snap'[h].owner = Nobody \/ snap'[h].owner \in removed
                        \/ (snap'[h].owner \in UserIds /\ snap'[snap'[h].owner] # None)
      BY <1>0 DEF OwnersIn
    <3>1. \A u \in UserIds : snap[u] # None => snap'[u] # None
      BY <2>3 DEF CopyRow, CopyInv, RowIds
    <3>2. CASE h = i
      <4>1. \A u \in UserIds : rows[u] # None => snap'[u] # None
        BY <3>1, <3>2 DEF CopyRow, CopyInv
      <4> QED BY <2>3, <3>2, <4>1 DEF OwnerInv, OwnersIn
    <3>3. CASE h # i
      BY <2>3, <3>1, <3>3 DEF CopyRow, OwnerInv, OwnersIn, RowIds
    <3> QED BY <3>2, <3>3
  <2>7. OwnerInv'
    BY <1>0, <1>b, <2>6 DEF CopyRow, OwnerInv, OwnersIn
  <2> QED BY <1>a, <2>2, <2>4, <2>5, <2>7
<1>5. CASE Unlock
  <2>1. StorageTypeOK'
    BY <1>0, <1>5 DEF Unlock, StorageTypeOK, WriterStates
  <2>2. ~Signalled => snap = rows
    BY <1>5, TablesEqual DEF Unlock, FreshInv, StorageTypeOK
  <2>3. CopyInv' /\ FreshInv'
    BY <1>0, <1>5, <2>2 DEF Unlock, CopyInv, FreshInv, Signalled
  <2>4. OwnerInv'
    BY <1>0, <1>5, <1>b DEF Unlock, OwnerInv, OwnersIn
  <2> QED BY <1>a, <2>1, <2>3, <2>4
<1>6. CASE TruncateFile
  <2>1. StorageTypeOK'
    BY <1>0, <1>6 DEF TruncateFile, StorageTypeOK, WriterStates
  <2>2. CopyInv' /\ FreshInv'
    BY <1>0, <1>6 DEF TruncateFile, CopyInv, FreshInv, Signalled
  <2>3. OwnerInv'
    BY <1>0, <1>6, <1>b DEF TruncateFile, OwnerInv, OwnersIn
  <2> QED BY <1>a, <2>1, <2>2, <2>3
<1>7. CASE FillFile
  <2>1. StorageTypeOK'
    BY <1>0, <1>7, EmptyTyped DEF FillFile, StorageTypeOK, WriterStates
  <2>2. CopyInv' /\ FreshInv'
    BY <1>0, <1>7 DEF FillFile, CopyInv, FreshInv, Signalled
  <2>3. OwnerInv'
    BY <1>0, <1>7, <1>b DEF FillFile, OwnerInv, OwnersIn
  <2> QED BY <1>a, <2>1, <2>2, <2>3
<1>8. CASE WriteFails
  <2>1. StorageTypeOK'
    BY <1>0, <1>8, EmptyTyped DEF WriteFails, StorageTypeOK, WriterStates
  <2>2. CopyInv' /\ FreshInv'
    BY <1>0, <1>8 DEF WriteFails, CopyInv, FreshInv, Signalled
  <2>3. OwnerInv'
    BY <1>0, <1>8, <1>b DEF WriteFails, OwnerInv, OwnersIn
  <2> QED BY <1>a, <2>1, <2>2, <2>3
<1> QED BY <1>1, <1>2, <1>3, <1>4, <1>5, <1>6, <1>7, <1>8 DEF WriterSteps

LEMMA ProcessKeeps == StorageInv /\ (StorageCrash \/ Restart) => StorageInv'
<1> SUFFICES ASSUME StorageInv, StorageCrash \/ Restart PROVE StorageInv'
  OBVIOUS
<1> USE DEF StorageInv, tableVars, writerVars, fileVars
<1>1. Idle \in TaskStates
  BY DEF Idle, TaskStates
<1>2. CASE StorageCrash
  <2>1. StorageTypeOK'
    BY <1>1, <1>2, EmptyTyped DEF StorageCrash, StorageTypeOK, WriterStates
  <2>2. NameInv' /\ (\A d \in Clients : Known(task[d].user))'
    BY <1>2 DEF StorageCrash, NameInv, Idle, Known
  <2>3. CopyInv' /\ FreshInv'
    BY <1>2 DEF StorageCrash, CopyInv, FreshInv
  <2>4. OwnerInv'
    BY <1>2, <2>2 DEF StorageCrash, OwnerInv, OwnersIn
  <2> QED BY <2>1, <2>2, <2>3, <2>4
<1>3. CASE Restart
  <2>1. StorageTypeOK'
    BY <1>3 DEF Restart, StorageTypeOK
  <2>2. NameInv' /\ (\A d \in Clients : Known(task[d].user))'
    BY <1>3 DEF Restart, NameInv, CopyInv, Idle, Known
  <2>3. CopyInv' /\ FreshInv'
    BY <1>3 DEF Restart, CopyInv, FreshInv
  <2>4. OwnerInv'
    BY <1>3, <2>2 DEF Restart, OwnerInv, OwnersIn, CopyInv
  <2> QED BY <2>1, <2>2, <2>3, <2>4
<1> QED BY <1>2, <1>3

-----------------------------------------------------------------------------
(* The theorems *)

LEMMA StorageStutters == StorageInv /\ UNCHANGED storageVars => StorageInv'
BY DEF StorageInv, storageVars, StorageTypeOK, NameInv, CopyInv, FreshInv, Signalled, OwnerInv, OwnersIn, Known

LEMMA StorageStep == StorageInv /\ [StorageNext]_storageVars => StorageInv'
BY RequestsKeep, WriterKeeps, ProcessKeeps, StorageStutters DEF StorageNext

LEMMA StorageInvariance == StorageSpec => []StorageInv
BY StorageInitially, StorageStep, PTL DEF StorageSpec

\* Every variable keeps its type.
THEOREM StorageTyped == StorageSpec => []StorageTypeOK
<1>1. StorageInv => StorageTypeOK
  BY DEF StorageInv
<1> QED BY StorageInvariance, <1>1, PTL

\* No change is forgotten by the channel of capacity one, whatever the requests
\* do while the writer is at any of its steps.
THEOREM NothingForgotten == StorageSpec => []NothingUnsaved
<1>1. StorageInv => NothingUnsaved
  BY DEF StorageInv, FreshInv, NothingUnsaved
<1> QED BY StorageInvariance, <1>1, PTL

\* The file, though copied row by row from tables in use, has the owner of every
\* host in it that was not removed.
THEOREM FileHasOwners == StorageSpec => []OwnersSaved
<1>1. StorageInv => OwnersSaved
  BY DEF StorageInv, OwnerInv, OwnersIn, OwnersSaved, Hosts, Users, Present, RowIds
<1> QED BY StorageInvariance, <1>1, PTL

\* Both at every moment: the file is in step with the tables.
THEOREM FileKept == StorageSpec => []FileInStep
<1>1. NothingUnsaved /\ OwnersSaved => FileInStep
  BY DEF FileInStep
<1> QED BY NothingForgotten, FileHasOwners, <1>1, PTL

-----------------------------------------------------------------------------
(* Versions of a row *)

\* Of two contents of the tables, a row that is in both is not older in the second.
NotNewer(t, u) == \A i \in RowIds : t[i] # None /\ u[i] # None => t[i].stamp <= u[i].stamp

\* The rows of a table are among the changes made so far.
Numbered(t) == \A i \in RowIds : t[i] # None => t[i].stamp <= changes

\* From the file over what store has copied to the tables no row is newer.  The
\* first and the last are ordered on their own: the copy may not have the row.
AgeInv ==
  /\ NotNewer(disk, snap) /\ NotNewer(snap, rows) /\ NotNewer(disk, rows)
  /\ Numbered(disk) /\ Numbered(snap) /\ Numbered(rows)

LEMMA StampTyped ==
  ASSUME NEW t \in Tables, NEW i \in RowIds, t[i] # None PROVE t[i].stamp \in Nat
<1>1. t[i] \in UserRows \cup HostRows
  BY TableTyped
<1> QED BY <1>1, StorageAssumption DEF UserRows, HostRows, Stamps

\* A row that is replaced by a newer one, or taken away, stays in the order.
LEMMA ChangeKeepsAge ==
  ASSUME StorageTypeOK, AgeInv, NEW i \in RowIds, NEW r, Change(i, r),
         r # None => r.stamp = changes + 1, UNCHANGED <<disk, snap>>
  PROVE  AgeInv' /\ NotNewer(disk, disk')
<1>1. /\ disk \in Tables /\ snap \in Tables /\ rows \in Tables /\ changes \in Nat
      /\ changes' = changes + 1 /\ disk' = disk /\ snap' = snap
  BY StorageAssumption DEF StorageTypeOK, Stamps, Change
<1>2. rows'[i] = r /\ \A j \in RowIds \ {i} : rows'[j] = rows[j]
  BY <1>1, TableTyped DEF Change
<1>3. /\ \A j \in RowIds : disk[j] # None => disk[j].stamp \in Nat /\ disk[j].stamp <= changes
      /\ \A j \in RowIds : snap[j] # None => snap[j].stamp \in Nat /\ snap[j].stamp <= changes
      /\ \A j \in RowIds : rows[j] # None => rows[j].stamp \in Nat /\ rows[j].stamp <= changes
  BY <1>1, StampTyped DEF AgeInv, Numbered
<1>4. NotNewer(disk, rows)' /\ NotNewer(snap, rows)'
  BY <1>1, <1>2, <1>3 DEF AgeInv, NotNewer
<1>5. Numbered(rows)'
  BY <1>1, <1>2, <1>3 DEF Numbered
<1>6. Numbered(disk)' /\ Numbered(snap)'
  BY <1>1, <1>3 DEF Numbered
<1>7. NotNewer(disk, snap)' /\ NotNewer(disk, disk')
  BY <1>1, <1>3 DEF AgeInv, NotNewer
<1> QED BY <1>4, <1>5, <1>6, <1>7 DEF AgeInv

\* What a request does to the rows: nothing, or one row that is new or gone.
LEMMA RequestChanges ==
  ASSUME StorageTypeOK, NEW c \in Clients, ClientNext(c)
  PROVE  /\ server' = server /\ UNCHANGED <<disk, snap>>
         /\ \/ UNCHANGED <<rows, changes>>
            \/ \E i \in RowIds : \E r : Change(i, r) /\ (r # None => r.stamp = changes + 1)
<1> USE DEF tableVars, writerVars, fileVars
<1>1. CASE Signal(c) \/ CheckName(c) \/ ListHosts(c) \/ \E n \in Names : BeginAddUser(c, n) \/ BeginFirstLogin(c, n)
  BY <1>1 DEF Signal, CheckName, ListHosts, BeginAddUser, BeginFirstLogin
<1>2. CASE InsertUser(c)
  <2>1. PICK u \in UserIds : Change(u, [name |-> task[c].name, stamp |-> changes + 1])
    BY <1>2 DEF InsertUser
  <2> QED BY <1>2, <2>1 DEF InsertUser, RowIds
<1>3. CASE InsertHost(c)
  <2>1. PICK h \in HostIds : Change(h, [owner |-> task[c].user, stamp |-> changes + 1])
    BY <1>3 DEF InsertHost
  <2> QED BY <1>3, <2>1 DEF InsertHost, RowIds
<1>4. CASE \E u \in UserIds : ModifyUser(c, u) \/ RemoveUser(c, u) \/ BeginAddHost(c, u)
  <2> PICK u \in UserIds : ModifyUser(c, u) \/ RemoveUser(c, u) \/ BeginAddHost(c, u)
    BY <1>4
  <2>1. CASE ModifyUser(c, u)
    <3>1. rows[u] \in UserRows
      BY <2>1, TableTyped DEF ModifyUser, Users, Present, StorageTypeOK
    <3>2. Stamped(rows[u]).stamp = changes + 1
      BY <3>1 DEF Stamped, UserRows
    <3> QED BY <2>1, <3>2 DEF ModifyUser, RowIds
  <2>2. CASE RemoveUser(c, u)
    BY <2>2 DEF RemoveUser, RowIds
  <2>3. CASE BeginAddHost(c, u)
    BY <2>3 DEF BeginAddHost
  <2> QED BY <2>1, <2>2, <2>3
<1>5. CASE \E h \in HostIds : ModifyHost(c, h) \/ RemoveHost(c, h) \/ AssignHost(c, h) \/ SkipHost(c, h)
  <2> PICK h \in HostIds : ModifyHost(c, h) \/ RemoveHost(c, h) \/ AssignHost(c, h) \/ SkipHost(c, h)
    BY <1>5
  <2>1. CASE ModifyHost(c, h)
    <3>1. rows[h] \in HostRows
      BY <2>1, TableTyped DEF ModifyHost, Hosts, Present, StorageTypeOK
    <3>2. Stamped(rows[h]).stamp = changes + 1
      BY <3>1 DEF Stamped, HostRows
    <3> QED BY <2>1, <3>2 DEF ModifyHost, RowIds
  <2>2. CASE RemoveHost(c, h)
    BY <2>2 DEF RemoveHost, RowIds
  <2>3. CASE AssignHost(c, h)
    <3>1. Change(h, [owner |-> task[c].user, stamp |-> changes + 1])
      BY <2>3 DEF AssignHost
    <3> QED BY <2>3, <3>1 DEF AssignHost, RowIds
  <2>4. CASE SkipHost(c, h)
    BY <2>4 DEF SkipHost
  <2> QED BY <2>1, <2>2, <2>3, <2>4
<1> QED BY <1>1, <1>2, <1>3, <1>4, <1>5 DEF ClientNext

LEMMA AgeInitially == StorageInit => AgeInv
<1> SUFFICES ASSUME StorageInit PROVE AgeInv
  OBVIOUS
<1>1. rows \in Files /\ disk = rows /\ snap = Empty /\ changes = 0
  BY DEF StorageInit
<1>2. \A i \in RowIds : rows[i] # None => rows[i].stamp = 0
  BY <1>1 DEF Files, Present
<1>3. \A i \in RowIds : snap[i] = None
  BY <1>1 DEF Empty
<1> QED BY <1>1, <1>2, <1>3 DEF AgeInv, NotNewer, Numbered

LEMMA WriterKeepsAge ==
  ASSUME StorageInv, AgeInv, WriterSteps \/ WriteFails
  PROVE  AgeInv' /\ NotNewer(disk, disk')
<1> USE DEF tableVars, writerVars, fileVars, WriterAt
<1>0. /\ disk \in Tables /\ snap \in Tables /\ rows \in Tables
      /\ \A j \in RowIds : disk[j] # None => disk[j].stamp \in Nat
      /\ \A j \in RowIds : snap[j] # None => snap[j].stamp \in Nat
      /\ \A j \in RowIds : rows[j] # None => rows[j].stamp \in Nat
  BY StampTyped DEF StorageInv, StorageTypeOK
<1>1. rows' = rows /\ changes' = changes
  BY DEF WriterSteps, WriteFails, Recv, LockUsers, LockHosts, CopyRow, Unlock, TruncateFile, FillFile
<1>2. CASE \E i \in RowIds : CopyRow(i)
  <2> PICK i \in RowIds : CopyRow(i)
    BY <1>2
  <2>1. snap' = [snap EXCEPT ![i] = rows[i]] /\ disk' = disk
    BY DEF CopyRow
  <2>2. snap'[i] = rows[i] /\ \A j \in RowIds \ {i} : snap'[j] = snap[j]
    BY <1>0, <2>1, TableTyped
  <2> QED BY <1>0, <1>1, <2>1, <2>2 DEF AgeInv, NotNewer, Numbered
<1>3. CASE FillFile
  <2>1. disk' = snap /\ snap' = Empty
    BY <1>3 DEF FillFile
  <2>2. \A j \in RowIds : snap'[j] = None
    BY <2>1 DEF Empty
  <2> QED BY <1>0, <1>1, <2>1, <2>2 DEF AgeInv, NotNewer, Numbered
<1>4. CASE WriteFails
  <2>1. disk' = disk /\ snap' = Empty
    BY <1>4 DEF WriteFails
  <2>2. \A j \in RowIds : snap'[j] = None
    BY <2>1 DEF Empty
  <2> QED BY <1>0, <1>1, <2>1, <2>2 DEF AgeInv, NotNewer, Numbered
<1>5. CASE Recv \/ LockUsers \/ LockHosts \/ Unlock \/ TruncateFile
  <2>1. disk' = disk /\ snap' = snap
    BY <1>5 DEF Recv, LockUsers, LockHosts, Unlock, TruncateFile
  <2> QED BY <1>0, <1>1, <2>1 DEF AgeInv, NotNewer, Numbered
<1> QED BY <1>2, <1>3, <1>4, <1>5 DEF WriterSteps

LEMMA ProcessKeepsAge ==
  ASSUME StorageInv, AgeInv, StorageCrash \/ Restart
  PROVE  AgeInv' /\ NotNewer(disk, disk')
<1> USE DEF tableVars, writerVars, fileVars
<1>0. disk \in Tables /\ \A j \in RowIds : disk[j] # None => disk[j].stamp \in Nat
  BY StampTyped DEF StorageInv, StorageTypeOK
<1>1. CASE StorageCrash
  <2>1. disk' = disk /\ rows' = rows /\ changes' = changes /\ snap' = Empty
    BY <1>1 DEF StorageCrash
  <2>2. \A j \in RowIds : snap'[j] = None
    BY <2>1 DEF Empty
  <2> QED BY <1>0, <2>1, <2>2 DEF AgeInv, NotNewer, Numbered
<1>2. CASE Restart
  <2>1. disk' = disk /\ changes' = changes /\ snap' = snap /\ rows' \in {rows, disk}
    BY <1>2 DEF Restart
  <2>2. \A j \in RowIds : snap[j] = None
    BY <1>2 DEF Restart, StorageInv, CopyInv, Empty
  <2> QED BY <1>0, <2>1, <2>2 DEF AgeInv, NotNewer, Numbered
<1> QED BY <1>1, <1>2

LEMMA AgeStep ==
  ASSUME StorageInv, AgeInv, [StorageNext]_storageVars
  PROVE  AgeInv' /\ NotNewer(disk, disk')
<1>0. disk \in Tables /\ \A j \in RowIds : disk[j] # None => disk[j].stamp \in Nat
  BY StampTyped DEF StorageInv, StorageTypeOK
<1>1. ASSUME UNCHANGED <<rows, changes, disk, snap>> PROVE AgeInv' /\ NotNewer(disk, disk')
  BY <1>0, <1>1 DEF AgeInv, NotNewer, Numbered
<1>2. ASSUME NEW c \in Clients, ClientNext(c) PROVE AgeInv' /\ NotNewer(disk, disk')
  <2>1. StorageTypeOK
    BY DEF StorageInv
  <2> QED BY <1>1, <1>2, <2>1, RequestChanges, ChangeKeepsAge
<1>3. CASE UNCHANGED storageVars
  BY <1>1, <1>3 DEF storageVars
<1> QED BY <1>2, <1>3, WriterKeepsAge, ProcessKeepsAge DEF StorageNext

\* No write takes the file back: whatever version of a row it holds is replaced
\* by a newer one or goes, never by an older one, through rows that change while
\* they are copied, crashes that undo changes, and ids that are given again.
THEOREM SavesAdvance == StorageSpec => [][NotNewer(disk, disk')]_storageVars
<1>1. StorageInv /\ AgeInv /\ [StorageNext]_storageVars => AgeInv' /\ [NotNewer(disk, disk')]_storageVars
  BY AgeStep
<1> QED BY StorageInvariance, AgeInitially, <1>1, PTL DEF StorageSpec

\* A server that comes up again after a crash, at whichever step of the writer,
\* has no host whose owner was neither saved with it nor removed before.
THEOREM RestartKnowsOwners ==
  StorageSpec => [][server = "down" /\ server' = "up" =>
                      \A h \in Hosts(rows') :
                        rows'[h].owner \in Users(rows') \cup removed' \cup {Nobody}]_storageVars
<1>1. StorageInv /\ [StorageNext]_storageVars =>
        [server = "down" /\ server' = "up" =>
           \A h \in Hosts(rows') : rows'[h].owner \in Users(rows') \cup removed' \cup {Nobody}]_storageVars
  <2> SUFFICES ASSUME StorageInv, StorageNext, server = "down", server' = "up"
               PROVE  \A h \in Hosts(rows') : rows'[h].owner \in Users(rows') \cup removed' \cup {Nobody}
    BY Zenon
  <2>1. StorageTypeOK
    BY DEF StorageInv
  <2>2. Restart
    BY <2>1, RequestChanges DEF StorageNext, WriterSteps, WriteFails, Recv, LockUsers, LockHosts, CopyRow,
       Unlock, TruncateFile, FillFile, WriterAt, StorageCrash
  <2>3. rows' = disk /\ removed' = removed
    BY <2>2 DEF Restart
  <2>4. OwnersIn(disk)
    BY DEF StorageInv, OwnerInv
  <2> QED BY <2>3, <2>4 DEF OwnersIn, Hosts, Users, Present, RowIds
<1> QED BY StorageInvariance, <1>1, PTL DEF StorageSpec

-----------------------------------------------------------------------------
(* The watch of the stream *)

\* The types of WatchTypeOK, by name.
Sessions ==
  [n : 1 .. MaxStreams, at : {"opening", "applying", "live"}, recon : BOOLEAN,
   input : BOOLEAN, mode : BOOLEAN, flow : BOOLEAN, early : BOOLEAN,
   ready : BOOLEAN, steady : BOOLEAN, ghost : BOOLEAN]
Shifts ==
  [phase : {"idle", "reconnecting", "verifying"}, lock : BOOLEAN,
   host : {"unasked", "due", "acked"}, flow : {"unasked", "due", "acked"},
   check : {"none", "wait", "run"}, stable : 0 .. 2, progress : BOOLEAN,
   late : BOOLEAN]
Warmups ==
  [active : BOOLEAN, lock : BOOLEAN, check : BOOLEAN, stable : BOOLEAN,
   sure : BOOLEAN]
Stalls ==
  [on : BOOLEAN, quiet : 0 .. 2, motion : BOOLEAN, hushed : BOOLEAN,
   touched : BOOLEAN, rested : BOOLEAN, renderable : BOOLEAN]

\* Who locks the input, and that a wait for the host's messages belongs to a
\* transition.
InputInv(s, t, w) ==
  /\ s.input <=> t.lock \/ w.lock
  /\ t.lock <=> t.phase # "idle"
  /\ w.lock <=> w.active
  /\ t.check = "wait" => t.phase # "idle"

\* A reconnect was begun with a stream left to create.
RoomInv(s) == s.recon => s.n < MaxStreams

WatchInv ==
  /\ session \in Sessions /\ shift \in Shifts /\ warmup \in Warmups /\ stall \in Stalls
  /\ ticks \subseteq [quiet : 1 .. 2, motion : BOOLEAN, at : {"probe", "render"}]
  /\ InputInv(session, shift, warmup)
  /\ RoomInv(session)

LEMMA SmallNumbers == 0 \in 0 .. 2 /\ 1 \in 0 .. 2 /\ 2 \in 0 .. 2
OBVIOUS

-----------------------------------------------------------------------------
(* The operators the actions are made of *)

\* A transition that is verified keeps its lock and is under way.
LEMMA VerifyKeeps ==
  ASSUME NEW s \in Shifts
  PROVE  /\ Verify(s) \in Shifts
         /\ Verify(s).phase = "verifying"
         /\ Verify(s).lock = s.lock
<1>1. CASE s.host = "due" \/ s.flow = "due"
  <2>1. Verify(s) = [s EXCEPT !.phase = "verifying", !.check = "wait"]
    BY <1>1 DEF Verify
  <2> QED BY <2>1 DEF Shifts
<1>2. CASE ~(s.host = "due" \/ s.flow = "due")
  <2>1. Verify(s) = [s EXCEPT !.phase = "verifying", !.check = "run",
                              !.stable = 0, !.progress = FALSE, !.late = FALSE]
    BY <1>2 DEF Verify
  <2>2. Verify(s) \in Shifts
    BY <2>1, SmallNumbers, Zenon DEF Shifts
  <2> QED BY <2>1, <2>2, Zenon DEF Shifts
<1> QED BY <1>1, <1>2

\* A new session, the idle transition and the cold warm-up.
LEMMA FreshStates ==
  /\ \A n \in 1 .. MaxStreams, b \in BOOLEAN :
       NewSession(n, b) \in Sessions /\ NewSession(n, b).input = b
  /\ IdleShift \in Shifts /\ IdleShift.phase = "idle" /\ IdleShift.lock = FALSE
  /\ IdleShift.check = "none"
  /\ ColdWarmup \in Warmups /\ ColdWarmup.lock = FALSE /\ ColdWarmup.active = FALSE
  /\ QuietStall \in Stalls
<1>1. \A n \in 1 .. MaxStreams, b \in BOOLEAN :
        NewSession(n, b) \in Sessions /\ NewSession(n, b).input = b
  BY Zenon DEF NewSession, Sessions
<1>2. /\ IdleShift \in Shifts /\ IdleShift.phase = "idle" /\ IdleShift.lock = FALSE
      /\ IdleShift.check = "none"
  BY SmallNumbers, Zenon DEF IdleShift, Shifts
<1>3. ColdWarmup \in Warmups /\ ColdWarmup.lock = FALSE /\ ColdWarmup.active = FALSE
  BY Zenon DEF ColdWarmup, Warmups
<1>4. QuietStall \in Stalls
  BY SmallNumbers, Zenon DEF QuietStall, Stalls
<1> QED BY <1>1, <1>2, <1>3, <1>4

\* What the stall watch does to its own state keeps its type.
LEMMA StallsKeep ==
  ASSUME stall \in Stalls
  PROVE  /\ StopWatch \in Stalls /\ Watched \in Stalls
         /\ \A a, b \in BOOLEAN : [Watched EXCEPT !.on = a, !.motion = b] \in Stalls
         /\ [Watched EXCEPT !.rested = FALSE, !.renderable = FALSE, !.hushed = TRUE] \in Stalls
BY SmallNumbers, Zenon DEF StopWatch, Watched, Stalls

\* What the actions do to a session without touching its lock.
LEMMA SessionsKeep ==
  ASSUME NEW s \in Sessions
  PROVE  /\ \A b \in BOOLEAN :
              /\ [s EXCEPT !.ready = b] \in Sessions
              /\ [s EXCEPT !.ready = b].input = s.input
         /\ \A b, c \in BOOLEAN :
              /\ [s EXCEPT !.ghost = b, !.ready = c] \in Sessions
              /\ [s EXCEPT !.ghost = b, !.ready = c].input = s.input
              /\ [s EXCEPT !.ghost = b, !.ready = c].recon = s.recon
              /\ [s EXCEPT !.ghost = b, !.ready = c].n = s.n
BY Zenon DEF Sessions

LEMMA WatchInitially == WatchInit => WatchInv
<1> SUFFICES ASSUME WatchInit PROVE WatchInv
  OBVIOUS
<1>1. NewSession(1, FALSE) \in Sessions /\ NewSession(1, FALSE).input = FALSE
  <2>1. 1 \in 1..MaxStreams
    BY WatchAssumption, SMT
  <2>2. FALSE \in BOOLEAN
    OBVIOUS
  <2> QED BY <2>1, <2>2, FreshStates, Zenon
<1>2. session \in Sessions /\ session.input = FALSE
  <2> DEFINE s == NewSession(1, FALSE)
  <2>1. [s EXCEPT !.ready = TRUE] \in Sessions /\ [s EXCEPT !.ready = TRUE].input = s.input
    <3> HIDE DEF s
    <3> QED BY <1>1, SessionsKeep DEF s
  <2>2. session = [s EXCEPT !.ready = TRUE]
    BY Zenon DEF WatchInit
  <2> HIDE DEF s
  <2>3. s.input = FALSE
    BY <1>1, Zenon DEF s
  <2> QED BY <2>1, <2>2, <2>3, Zenon
<1>3. session.recon = FALSE
  BY Zenon DEF WatchInit, NewSession
<1> QED BY <1>2, <1>3, FreshStates DEF WatchInit, WatchInv, InputInv, RoomInv

-----------------------------------------------------------------------------
(* Reconnecting *)

LEMMA ReconnectsKeep ==
  ASSUME WatchInv, SomethingReconnects \/ ReconnectRestarts
  PROVE  WatchInv'
<1> USE DEF WatchInv
<1>1. CASE SomethingReconnects
  <2>1. session' \in Sessions /\ session'.input = session.input /\ session'.n = session.n
    BY <1>1, Zenon DEF SomethingReconnects, InputReconnects, Sessions
  <2>2. stall' \in Stalls
    BY <1>1, StallsKeep DEF SomethingReconnects
  <2> QED BY <1>1, <2>1, <2>2 DEF SomethingReconnects, InputInv, RoomInv
<1>2. CASE ReconnectRestarts
  <2> DEFINE new == NewSession(session.n + 1, shift.lock)
  <2>1. session.n + 1 \in 1 .. MaxStreams
    BY <1>2, WatchAssumption DEF ReconnectRestarts, Sessions, RoomInv
  <2>2. new \in Sessions /\ new.input = shift.lock
    BY <2>1, FreshStates DEF Shifts
  <2>3. new.recon = FALSE
    BY Zenon DEF NewSession
  <2> HIDE DEF new
  <2>4. session' = [new EXCEPT !.ghost = session.at = "applying", !.ready = session.ready]
    BY <1>2 DEF ReconnectRestarts, new
  <2>5. (session.at = "applying") \in BOOLEAN /\ session.ready \in BOOLEAN
    BY DEF Sessions
  <2>6. session' \in Sessions /\ session'.input = shift.lock /\ session'.recon = FALSE
    BY <2>2, <2>3, <2>4, <2>5, SessionsKeep, Zenon
  <2>7. stall' \in Stalls
    BY <1>2, StallsKeep, Zenon DEF ReconnectRestarts
  <2>8. warmup' \in Warmups /\ warmup'.lock = FALSE /\ warmup'.active = FALSE
    BY <1>2, FreshStates DEF ReconnectRestarts
  <2> QED BY <1>2, <2>6, <2>7, <2>8 DEF ReconnectRestarts, InputInv, RoomInv
<1> QED BY <1>1, <1>2

-----------------------------------------------------------------------------
(* The display transition *)

LEMMA TransitionsKeep ==
  ASSUME WatchInv,
         TransitionBegins \/ ModeApplied \/ DeadlinePasses \/ WaitTimerFires \/ TransitionCheck
  PROVE  WatchInv'
<1> USE DEF WatchInv
<1>1. CASE TransitionBegins
  <2>1. /\ shift' \in Shifts /\ shift'.phase = "reconnecting" /\ shift'.lock = TRUE
        /\ shift'.check = "none"
    BY <1>1, SmallNumbers, Zenon DEF TransitionBegins, IdleShift, Shifts
  <2>2. session' \in Sessions /\ session'.input = TRUE /\ session'.n = session.n
    BY <1>1, Zenon DEF TransitionBegins, InputReconnects, Sessions
  <2>3. stall' \in Stalls
    BY <1>1, StallsKeep DEF TransitionBegins
  <2> QED BY <1>1, <2>1, <2>2, <2>3 DEF TransitionBegins, MayShift, InputInv, RoomInv
<1>2. CASE ModeApplied
  <2> DEFINE s == [shift EXCEPT !.host = "acked"]
  <2>1. s \in Shifts /\ s.lock = shift.lock
    BY Zenon DEF Shifts
  <2> HIDE DEF s
  <2>2. shift' = shift \/ (Shifting /\ shift' = Verify(s))
    BY <1>2 DEF ModeApplied, s
  <2>3. /\ session' \in Sessions /\ session'.input = session.input
        /\ session'.recon = session.recon /\ session'.n = session.n
    BY <1>2, Zenon DEF ModeApplied, Sessions
  <2> QED BY <1>2, <2>1, <2>2, <2>3, VerifyKeeps DEF ModeApplied, InputInv, RoomInv, Shifting
<1>3. CASE DeadlinePasses
  <2>1. /\ shift' \in Shifts /\ shift'.phase = shift.phase /\ shift'.lock = shift.lock
        /\ shift'.check = shift.check
    BY <1>3, Zenon DEF DeadlinePasses, Shifts
  <2> QED BY <1>3, <2>1 DEF DeadlinePasses, InputInv, RoomInv
<1>4. CASE WaitTimerFires
  BY <1>4, VerifyKeeps DEF WaitTimerFires, InputInv, RoomInv
<1>5. CASE TransitionCheck
  <2>1. CASE EndShift
    <3>1. /\ session' \in Sessions /\ session'.input = warmup.lock
          /\ session'.recon = session.recon /\ session'.n = session.n
      BY <2>1, Zenon DEF EndShift, Sessions, Warmups
    <3> QED BY <1>5, <2>1, <3>1, FreshStates
            DEF TransitionCheck, EndShift, InputInv, RoomInv
  <2>2. ASSUME NEW p \in BOOLEAN, NEW n \in 0 .. 2, NEW l \in BOOLEAN,
               shift' = [shift EXCEPT !.progress = p, !.stable = n, !.late = l],
               session' = session
        PROVE  WatchInv'
    <3>1. /\ shift' \in Shifts /\ shift'.phase = shift.phase /\ shift'.lock = shift.lock
          /\ shift'.check = shift.check
      BY <2>2, Zenon DEF Shifts
    <3> QED BY <1>5, <2>2, <3>1 DEF TransitionCheck, InputInv, RoomInv
  <2>3. PICK good \in BOOLEAN, advanced \in BOOLEAN, late \in {shift.late, TRUE} :
          LET progress == shift.progress \/ advanced
              stable == IF good /\ progress
                        THEN IF shift.stable = 0 THEN 1 ELSE 2 ELSE 0
          IN  \/ EndShift
              \/ /\ shift' = [shift EXCEPT !.progress = progress,
                                           !.stable = stable, !.late = late]
                 /\ session' = session
    BY <1>5, Zenon DEF TransitionCheck
  <2>4. (shift.progress \/ advanced) \in BOOLEAN /\ late \in BOOLEAN
    BY DEF Shifts
  <2>5. (IF good /\ (shift.progress \/ advanced)
         THEN IF shift.stable = 0 THEN 1 ELSE 2 ELSE 0) \in 0 .. 2
    OBVIOUS
  <2> QED BY <2>1, <2>2, <2>3, <2>4, <2>5, Zenon
<1> QED BY <1>1, <1>2, <1>3, <1>4, <1>5

-----------------------------------------------------------------------------
(* Connecting and warming up *)

LEMMA OnCompleteKeeps ==
  ASSUME WatchInv, NEW s \in Sessions, OnComplete(s),
         s.input = session.input, s.recon = session.recon, s.n = session.n
  PROVE  WatchInv'
<1> USE DEF WatchInv
<1>1. stall' \in Stalls
  BY SmallNumbers, Zenon DEF OnComplete, Watched, Stalls
<1>2. CASE Shifting
  <2> DEFINE t == [shift EXCEPT !.flow = "due"]
  <2>1. t \in Shifts /\ t.lock = shift.lock
    BY Zenon DEF Shifts
  <2> HIDE DEF t
  <2>2. shift' = Verify(t) /\ warmup' = warmup
    BY <1>2 DEF OnComplete, t
  <2>3. /\ session' \in Sessions /\ session'.input = s.input
        /\ session'.recon = s.recon /\ session'.n = s.n
    BY <1>2, Zenon DEF OnComplete, Sessions
  <2> QED BY <1>1, <1>2, <2>1, <2>2, <2>3, VerifyKeeps
          DEF OnComplete, InputInv, RoomInv, Shifting
<1>3. CASE ~Shifting
  <2>1. warmup' \in Warmups /\ warmup'.lock = TRUE /\ warmup'.active = TRUE
    BY <1>3, Zenon DEF OnComplete, Warmups
  <2>2. /\ session' \in Sessions /\ session'.input = TRUE
        /\ session'.recon = s.recon /\ session'.n = s.n
    BY <1>3, Zenon DEF OnComplete, Sessions
  <2> QED BY <1>1, <1>3, <2>1, <2>2 DEF OnComplete, InputInv, RoomInv
<1> QED BY <1>2, <1>3

LEMMA WarmupsKeep ==
  ASSUME WatchInv,
         Complete \/ SetupApplied \/ GhostSetupApplied \/ FlowReady \/ WarmupCheck
  PROVE  WatchInv'
<1> USE DEF WatchInv
<1>1. CASE Complete
  <2>1. /\ session' \in Sessions /\ session'.input = session.input
        /\ session'.recon = session.recon /\ session'.n = session.n
    BY <1>1, Zenon DEF Complete, Sessions
  <2> QED BY <1>1, <2>1 DEF Complete, InputInv, RoomInv
<1>2. CASE SetupApplied
  <2> DEFINE s == [session EXCEPT !.at = "live"]
  <2>1. s \in Sessions /\ s.input = session.input /\ s.recon = session.recon /\ s.n = session.n
    BY Zenon DEF Sessions
  <2>2. OnComplete(s)
    BY <1>2 DEF SetupApplied
  <2> HIDE DEF s
  <2> QED BY <2>1, <2>2, OnCompleteKeeps
<1>3. CASE GhostSetupApplied
  <2> DEFINE s == [session EXCEPT !.ghost = FALSE]
  <2>1. s \in Sessions /\ s.input = session.input /\ s.recon = session.recon /\ s.n = session.n
    BY Zenon DEF Sessions
  <2>2. OnComplete(s)
    BY <1>3 DEF GhostSetupApplied
  <2> HIDE DEF s
  <2> QED BY <2>1, <2>2, OnCompleteKeeps
<1>4. CASE FlowReady
  <2>1. /\ session' \in Sessions /\ session'.input = session.input
        /\ session'.recon = session.recon /\ session'.n = session.n
    BY <1>4, Zenon DEF FlowReady, Sessions
  <2>2. CASE Shifting
    <3> DEFINE t == [shift EXCEPT !.flow = "acked"]
    <3>1. t \in Shifts /\ t.lock = shift.lock
      BY Zenon DEF Shifts
    <3> HIDE DEF t
    <3>2. shift' = Verify(t) /\ warmup' = warmup
      BY <1>4, <2>2 DEF FlowReady, t
    <3> QED BY <1>4, <2>1, <2>2, <3>1, <3>2, VerifyKeeps
            DEF FlowReady, InputInv, RoomInv, Shifting
  <2>3. CASE ~Shifting
    <3>1. /\ warmup' \in Warmups /\ warmup'.lock = warmup.lock
          /\ warmup'.active = warmup.active
      BY <1>4, <2>3, Zenon DEF FlowReady, Warmups
    <3> QED BY <1>4, <2>1, <2>3, <3>1 DEF FlowReady, InputInv, RoomInv
  <2> QED BY <2>2, <2>3
<1>5. CASE WarmupCheck
  <2>1. ASSUME warmup' = ColdWarmup, session' = [session EXCEPT !.input = shift.lock],
               stall' = Watched
        PROVE  WatchInv'
    <3>1. /\ session' \in Sessions /\ session'.input = shift.lock
          /\ session'.recon = session.recon /\ session'.n = session.n
      BY <2>1, Zenon DEF Sessions, Shifts
    <3> QED BY <1>5, <2>1, <3>1, FreshStates, StallsKeep
            DEF WarmupCheck, InputInv, RoomInv
  <2>2. ASSUME NEW a \in BOOLEAN, NEW b \in BOOLEAN,
               warmup' = [warmup EXCEPT !.stable = a, !.sure = b],
               session' = session, stall' = stall
        PROVE  WatchInv'
    <3>1. /\ warmup' \in Warmups /\ warmup'.lock = warmup.lock
          /\ warmup'.active = warmup.active
      BY <2>2, Zenon DEF Warmups
    <3> QED BY <1>5, <2>2, <3>1 DEF WarmupCheck, InputInv, RoomInv
  <2>3. PICK good \in BOOLEAN, advanced \in BOOLEAN, sure \in {warmup.sure, TRUE} :
          \/ /\ warmup' = ColdWarmup /\ session' = [session EXCEPT !.input = shift.lock]
             /\ stall' = Watched
          \/ /\ warmup' = [warmup EXCEPT !.stable = good /\ (advanced \/ warmup.stable),
                                         !.sure = sure \/ advanced]
             /\ session' = session /\ stall' = stall
    BY <1>5, Zenon DEF WarmupCheck
  <2>4. /\ (good /\ (advanced \/ warmup.stable)) \in BOOLEAN
        /\ (sure \/ advanced) \in BOOLEAN
    OBVIOUS
  <2> QED BY <2>1, <2>2, <2>3, <2>4, Zenon
<1> QED BY <1>1, <1>2, <1>3, <1>4, <1>5

-----------------------------------------------------------------------------
(* The stall watch *)

\* The end of a tick may begin a reconnect, and leaves the locks alone.
LEMMA StallReconnectKeeps ==
  ASSUME WatchInv, StallReconnect
  PROVE  /\ session' \in Sessions /\ session'.input = session.input
         /\ RoomInv(session)'
         /\ stall' \in Stalls
<1> USE DEF WatchInv
<1>1. session' \in Sessions /\ session'.input = session.input /\ session'.n = session.n
  BY Zenon DEF StallReconnect, InputReconnects, Sessions
<1>2. stall' \in Stalls
  BY Zenon DEF StallReconnect, Stalls, Sessions
<1> QED BY <1>1, <1>2 DEF StallReconnect, RoomInv

LEMMA TicksKeep ==
  ASSUME WatchInv, TickSeesProgress \/ TickSeesStall \/ TicksGoOn
  PROVE  WatchInv'
<1> USE DEF WatchInv
<1>1. CASE TickSeesProgress
  BY <1>1, StallsKeep DEF TickSeesProgress, InputInv, RoomInv
<1>2. CASE TickSeesStall
  <2>1. [quiet |-> stall.quiet, motion |-> stall.motion, at |-> "probe"]
          \in [quiet : 1 .. 2, motion : BOOLEAN, at : {"probe", "render"}]
    BY <1>2 DEF TickSeesStall, Stalls
  <2> QED BY <1>2, <2>1 DEF TickSeesStall, InputInv, RoomInv
<1>3. ASSUME NEW tick \in ticks, NEW inbound \in BOOLEAN, ProbeAnswers(tick, inbound)
      PROVE  WatchInv'
  <2>1. [tick EXCEPT !.at = "render"]
          \in [quiet : 1 .. 2, motion : BOOLEAN, at : {"probe", "render"}]
    BY Zenon
  <2>2. ticks' \subseteq [quiet : 1 .. 2, motion : BOOLEAN, at : {"probe", "render"}]
    BY <1>3, <2>1, Zenon DEF ProbeAnswers
  <2>3. /\ session' \in Sessions /\ session'.input = session.input
        /\ RoomInv(session)' /\ stall' \in Stalls
    <3>1. CASE StallReconnect
      BY <3>1, StallReconnectKeeps
    <3>2. CASE session' = session /\ (stall' = stall \/ stall' = Watched)
      BY <3>2, StallsKeep DEF RoomInv
    <3> QED BY <1>3, <3>1, <3>2, Zenon DEF ProbeAnswers
  <2> QED BY <1>3, <2>2, <2>3 DEF ProbeAnswers, InputInv
<1>4. ASSUME NEW tick \in ticks, RendererRecovered(tick)
      PROVE  WatchInv'
  <2>1. /\ session' \in Sessions /\ session'.input = session.input
        /\ RoomInv(session)' /\ stall' \in Stalls
    <3>1. CASE StallReconnect
      BY <3>1, StallReconnectKeeps
    <3>2. CASE /\ session' = session
               /\ stall' = [Watched EXCEPT !.rested = FALSE, !.renderable = FALSE,
                                           !.hushed = TRUE]
      BY <3>2, StallsKeep DEF RoomInv
    <3> QED BY <1>4, <3>1, <3>2, Zenon DEF RendererRecovered
  <2> QED BY <1>4, <2>1 DEF RendererRecovered, InputInv
<1> QED BY <1>1, <1>2, <1>3, <1>4 DEF TicksGoOn

-----------------------------------------------------------------------------
(* The user, the video and the clock *)

LEMMA SurroundingsKeep ==
  ASSUME WatchInv, UserInteracts \/ FramesSettle \/ ReadyTimePasses \/ StallTimePasses
  PROVE  WatchInv'
<1> USE DEF WatchInv
<1>1. CASE UserInteracts
  <2>1. stall' \in Stalls
    BY <1>1, Zenon DEF UserInteracts, Stalls
  <2> QED BY <1>1, <2>1 DEF UserInteracts, InputInv, RoomInv
<1>2. CASE FramesSettle \/ ReadyTimePasses
  <2>1. /\ session' \in Sessions /\ session'.input = session.input
        /\ session'.recon = session.recon /\ session'.n = session.n
    BY <1>2, Zenon DEF FramesSettle, ReadyTimePasses, Sessions
  <2> QED BY <1>2, <2>1 DEF FramesSettle, ReadyTimePasses, InputInv, RoomInv
<1>3. CASE StallTimePasses
  <2>1. stall' \in Stalls
    <3>1. CASE stall.quiet < 2 /\ stall' = [stall EXCEPT !.quiet = @ + 1]
      <4>1. stall.quiet + 1 \in 0 .. 2
        BY <3>1 DEF Stalls
      <4> QED BY <3>1, <4>1, Zenon DEF Stalls
    <3>2. CASE \/ stall' = [stall EXCEPT !.motion = FALSE]
               \/ stall' = [stall EXCEPT !.hushed = FALSE, !.touched = FALSE]
               \/ stall' = [stall EXCEPT !.rested = TRUE, !.renderable = TRUE,
                                         !.hushed = FALSE]
      BY <3>2, Zenon DEF Stalls
    <3> QED BY <1>3, <3>1, <3>2, Zenon DEF StallTimePasses
  <2> QED BY <1>3, <2>1 DEF StallTimePasses, InputInv, RoomInv
<1> QED BY <1>1, <1>2, <1>3

LEMMA WatchStutters == WatchInv /\ UNCHANGED watchVars => WatchInv'
BY DEF WatchInv, watchVars, InputInv, RoomInv

LEMMA WatchStep == WatchInv /\ [WatchNext]_watchVars => WatchInv'
BY ReconnectsKeep, TransitionsKeep, WarmupsKeep, TicksKeep, SurroundingsKeep,
   WatchStutters DEF WatchNext

LEMMA WatchInvariance == WatchSpec => []WatchInv
BY WatchInitially, WatchStep, PTL DEF WatchSpec

LEMMA WatchShows == WatchInv => WatchTypeOK
BY DEF WatchInv, WatchTypeOK, Sessions, Shifts, Warmups, Stalls

-----------------------------------------------------------------------------
(* The theorems *)

\* Every variable keeps its type.
THEOREM WatchTyped == WatchSpec => []WatchTypeOK
BY WatchInvariance, WatchShows, PTL

\* Transition, warm-up and reconnects lock, unlock and replace one input in any
\* order: it is locked exactly while one of the two owners holds its lock.
THEOREM InputLocked == WatchSpec => []InputLockInStep
<1>1. WatchInv => InputLockInStep
  <2> SUFFICES ASSUME WatchInv PROVE InputLockInStep
    OBVIOUS
  <2>1. /\ session.input \in BOOLEAN /\ shift.lock \in BOOLEAN
        /\ warmup.lock \in BOOLEAN /\ warmup.active \in BOOLEAN
    BY DEF WatchInv, Sessions, Shifts, Warmups
  <2> QED BY <2>1, Zenon DEF WatchInv, InputInv, InputLockInStep, Shifting
<1> QED BY WatchInvariance, <1>1, PTL

-----------------------------------------------------------------------------
(* What may still release a lock *)

\* A transition waits for its reconnect or has a check, a check that looks at the
\* video waits for no message, and a warm-up that began before a transition is
\* the replaced stream's.
CheckInv ==
  /\ shift.phase = "reconnecting" => session.recon \/ session.at # "live"
  /\ shift.phase = "verifying" => shift.check # "none"
  /\ shift.check = "run" => shift.host # "due" /\ shift.flow # "due"
  /\ warmup.active => session.recon \/ warmup.check \/ session.flow \/ session.early
  /\ warmup.active /\ Shifting => session.recon

LEMMA VerifyChecks ==
  ASSUME NEW s \in Shifts
  PROVE  /\ Verify(s).phase = "verifying" /\ Verify(s).check # "none"
         /\ Verify(s).check = "run" => Verify(s).host # "due" /\ Verify(s).flow # "due"
<1>1. CASE s.host = "due" \/ s.flow = "due"
  BY <1>1 DEF Verify, Shifts
<1>2. CASE ~(s.host = "due" \/ s.flow = "due")
  BY <1>2 DEF Verify, Shifts
<1> QED BY <1>1, <1>2

\* A session that goes on, with what it was waiting for.
GoesOnWaiting ==
  /\ session.recon => session'.recon
  /\ session.at # "live" => session'.at # "live"
  /\ session.flow => session'.flow
  /\ session.early => session'.early

LEMMA ChecksKept ==
  ASSUME CheckInv, GoesOnWaiting, shift' = shift, warmup' = warmup PROVE CheckInv'
BY DEF CheckInv, GoesOnWaiting, Shifting

\* The transition is verified, the messages of the stream spent or not.
LEMMA VerifyKept ==
  ASSUME CheckInv, NEW s \in Shifts, shift' = Verify(s), Shifting, warmup' = warmup,
         session'.recon = session.recon
  PROVE  CheckInv'
BY VerifyChecks DEF CheckInv, Shifting

LEMMA OnCompleteChecks ==
  ASSUME WatchInv, CheckInv, NEW s \in Sessions, OnComplete(s),
         s.recon = session.recon, s.flow = session.flow, s.early = session.early
  PROVE  CheckInv'
<1>1. session \in Sessions /\ shift \in Shifts /\ warmup \in Warmups
  BY DEF WatchInv
<1>2. CASE Shifting
  <2> DEFINE t == [shift EXCEPT !.flow = "due"]
  <2>1. t \in Shifts
    BY <1>1, Zenon DEF Shifts
  <2> HIDE DEF t
  <2>2. shift' = Verify(t) /\ warmup' = warmup /\ session'.recon = session.recon
    BY <1>2 DEF OnComplete, t, Sessions
  <2> QED BY <1>2, <2>1, <2>2, VerifyKept
<1>3. CASE ~Shifting
  <2>1. /\ session'.recon = session.recon /\ session'.flow = session.flow
        /\ session'.early = (session.early \/ ~session.flow)
    BY <1>3 DEF OnComplete, Sessions
  <2>2. shift' = shift /\ warmup'.active /\ warmup'.check = warmup.check
    BY <1>1, <1>3 DEF OnComplete, Warmups
  <2>3. session'.flow \/ session'.early
    BY <1>1, <2>1 DEF Sessions
  <2> QED BY <1>3, <2>1, <2>2, <2>3 DEF CheckInv, Shifting
<1> QED BY <1>2, <1>3

LEMMA TransitionsCheck ==
  ASSUME WatchInv, CheckInv,
         TransitionBegins \/ ModeApplied \/ DeadlinePasses \/ WaitTimerFires \/ TransitionCheck
  PROVE  CheckInv'
<1>0. session \in Sessions /\ shift \in Shifts
  BY DEF WatchInv
<1>1. CASE TransitionBegins
  <2>1. session'.recon /\ shift'.phase = "reconnecting" /\ shift'.check = "none"
    BY <1>0, <1>1 DEF TransitionBegins, InputReconnects, IdleShift, Sessions
  <2> QED BY <2>1 DEF CheckInv
<1>2. CASE ModeApplied
  <2> DEFINE s == [shift EXCEPT !.host = "acked"]
  <2>1. s \in Shifts
    BY <1>0, Zenon DEF Shifts
  <2> HIDE DEF s
  <2>2. shift' = shift \/ (Shifting /\ shift' = Verify(s))
    BY <1>2 DEF ModeApplied, s
  <2>3. GoesOnWaiting /\ session'.recon = session.recon /\ warmup' = warmup
    BY <1>0, <1>2 DEF ModeApplied, Sessions, GoesOnWaiting
  <2> QED BY <2>1, <2>2, <2>3, ChecksKept, VerifyKept
<1>3. CASE DeadlinePasses
  <2>1. /\ session' = session /\ warmup' = warmup
        /\ shift'.phase = shift.phase /\ shift'.check = shift.check
        /\ shift'.host = "due" => shift.host = "due"
        /\ shift'.flow = "due" => shift.flow = "due"
    BY <1>0, <1>3 DEF DeadlinePasses, Shifts
  <2> QED BY <2>1 DEF CheckInv, Shifting
<1>4. CASE WaitTimerFires
  <2>1. Shifting
    BY <1>4 DEF WaitTimerFires, WatchInv, InputInv, Shifting
  <2> QED BY <1>0, <1>4, <2>1, VerifyKept DEF WaitTimerFires
<1>5. CASE TransitionCheck
  <2>1. CASE EndShift
    <3>1. /\ session'.recon = session.recon /\ session'.flow = session.flow
          /\ session'.early = session.early
      BY <1>0, <2>1 DEF EndShift, Sessions
    <3>2. shift'.phase = "idle" /\ shift'.check = "none"
      BY <2>1, FreshStates DEF EndShift
    <3> QED BY <1>5, <3>1, <3>2 DEF TransitionCheck, CheckInv, Shifting
  <2>2. CASE /\ session' = session /\ shift'.phase = shift.phase /\ shift'.check = shift.check
             /\ shift'.host = shift.host /\ shift'.flow = shift.flow
    BY <1>5, <2>2 DEF TransitionCheck, CheckInv, Shifting
  <2> QED BY <1>0, <1>5, <2>1, <2>2 DEF TransitionCheck, Shifts
<1> QED BY <1>1, <1>2, <1>3, <1>4, <1>5

LEMMA WarmupsCheck ==
  ASSUME WatchInv, CheckInv,
         Complete \/ SetupApplied \/ GhostSetupApplied \/ FlowReady \/ WarmupCheck
  PROVE  CheckInv'
<1>0. session \in Sessions /\ shift \in Shifts /\ warmup \in Warmups
  BY DEF WatchInv
<1>1. CASE Complete
  <2>1. GoesOnWaiting
    BY <1>0, <1>1 DEF Complete, Sessions, GoesOnWaiting
  <2> QED BY <1>1, <2>1, ChecksKept DEF Complete
<1>2. CASE SetupApplied
  <2> DEFINE s == [session EXCEPT !.at = "live"]
  <2>1. s \in Sessions /\ s.recon = session.recon /\ s.flow = session.flow /\ s.early = session.early
    BY <1>0, Zenon DEF Sessions
  <2>2. OnComplete(s)
    BY <1>2 DEF SetupApplied
  <2> HIDE DEF s
  <2> QED BY <2>1, <2>2, OnCompleteChecks
<1>3. CASE GhostSetupApplied
  <2> DEFINE s == [session EXCEPT !.ghost = FALSE]
  <2>1. s \in Sessions /\ s.recon = session.recon /\ s.flow = session.flow /\ s.early = session.early
    BY <1>0, Zenon DEF Sessions
  <2>2. OnComplete(s)
    BY <1>3 DEF GhostSetupApplied
  <2> HIDE DEF s
  <2> QED BY <2>1, <2>2, OnCompleteChecks
<1>4. CASE FlowReady
  <2>1. session'.recon = session.recon /\ session'.at = session.at
    BY <1>0, <1>4 DEF FlowReady, Sessions
  <2>2. CASE Shifting
    <3> DEFINE t == [shift EXCEPT !.flow = "acked"]
    <3>1. t \in Shifts
      BY <1>0, Zenon DEF Shifts
    <3> HIDE DEF t
    <3>2. shift' = Verify(t) /\ warmup' = warmup
      BY <1>4, <2>2 DEF FlowReady, t
    <3> QED BY <2>1, <2>2, <3>1, <3>2, VerifyKept
  <2>3. CASE ~Shifting
    <3>1. shift' = shift /\ warmup'.active = warmup.active /\ (warmup'.active => warmup'.check)
      BY <1>0, <1>4, <2>3 DEF FlowReady, Warmups
    <3> QED BY <2>1, <2>3, <3>1 DEF CheckInv, Shifting
  <2> QED BY <2>2, <2>3
<1>5. CASE WarmupCheck
  <2>1. CASE warmup' = ColdWarmup /\ session' = [session EXCEPT !.input = shift.lock]
    <3>1. session'.recon = session.recon /\ session'.at = session.at /\ ~warmup'.active
      BY <1>0, <2>1, FreshStates DEF Sessions
    <3> QED BY <1>5, <3>1 DEF WarmupCheck, CheckInv, Shifting
  <2>2. CASE session' = session /\ warmup'.active = warmup.active /\ warmup'.check = warmup.check
    BY <1>5, <2>2 DEF WarmupCheck, CheckInv, Shifting
  <2> QED BY <1>0, <1>5, <2>1, <2>2 DEF WarmupCheck, Warmups
<1> QED BY <1>1, <1>2, <1>3, <1>4, <1>5

LEMMA StallReconnectChecks ==
  ASSUME session \in Sessions, StallReconnect PROVE GoesOnWaiting
BY DEF StallReconnect, InputReconnects, Sessions, GoesOnWaiting

LEMMA RestCheck ==
  ASSUME WatchInv, CheckInv,
         \/ SomethingReconnects \/ ReconnectRestarts
         \/ TickSeesProgress \/ TickSeesStall \/ TicksGoOn
         \/ UserInteracts \/ FramesSettle \/ ReadyTimePasses \/ StallTimePasses
         \/ UNCHANGED watchVars
  PROVE  CheckInv'
<1>0. session \in Sessions /\ shift \in Shifts
  BY DEF WatchInv
<1>1. CASE SomethingReconnects
  <2>1. GoesOnWaiting
    BY <1>0, <1>1 DEF SomethingReconnects, InputReconnects, Sessions, GoesOnWaiting
  <2> QED BY <1>1, <2>1, ChecksKept DEF SomethingReconnects
<1>2. CASE ReconnectRestarts
  <2>1. session'.at = "opening" /\ ~warmup'.active /\ shift' = shift
    BY <1>2, FreshStates DEF ReconnectRestarts, NewSession
  <2> QED BY <2>1 DEF CheckInv
<1>3. CASE FramesSettle \/ ReadyTimePasses
  <2>1. GoesOnWaiting
    BY <1>0, <1>3 DEF FramesSettle, ReadyTimePasses, Sessions, GoesOnWaiting
  <2> QED BY <1>3, <2>1, ChecksKept DEF FramesSettle, ReadyTimePasses
<1>4. CASE TicksGoOn
  <2>1. session' = session \/ StallReconnect
    BY <1>4, Zenon DEF TicksGoOn, ProbeAnswers, RendererRecovered
  <2>2. GoesOnWaiting
    BY <1>0, <2>1, StallReconnectChecks DEF GoesOnWaiting
  <2> QED BY <1>4, <2>2, ChecksKept DEF TicksGoOn, ProbeAnswers, RendererRecovered
<1>5. CASE session' = session /\ shift' = shift /\ warmup' = warmup
  BY <1>5, ChecksKept DEF GoesOnWaiting
<1> QED BY <1>1, <1>2, <1>3, <1>4, <1>5
        DEF TickSeesProgress, TickSeesStall, UserInteracts, StallTimePasses, watchVars

\* Nobody is left with a locked input: while it is locked a reconnect, a stream
\* that has still to connect, a check or VideoFlowReady may end the lock, unless
\* that message was spent before the warm-up began.
THEOREM LocksHaveKeys ==
  WatchSpec => [](session.input => \/ session.recon \/ session.at # "live"
                                   \/ shift.check # "none" \/ warmup.check
                                   \/ session.flow \/ session.early)
<1>1. WatchInit => CheckInv
  BY FreshStates DEF WatchInit, CheckInv, ColdWarmup, IdleShift
<1>2. WatchInv /\ CheckInv /\ [WatchNext]_watchVars => CheckInv'
  BY TransitionsCheck, WarmupsCheck, RestCheck DEF WatchNext
<1>3. WatchInv /\ CheckInv =>
        (session.input => \/ session.recon \/ session.at # "live" \/ shift.check # "none"
                          \/ warmup.check \/ session.flow \/ session.early)
  <2> SUFFICES ASSUME WatchInv, CheckInv, session.input
               PROVE  \/ session.recon \/ session.at # "live" \/ shift.check # "none"
                      \/ warmup.check \/ session.flow \/ session.early
    OBVIOUS
  <2>1. warmup.active \/ shift.phase # "idle"
    BY DEF WatchInv, InputInv
  <2>2. shift.phase \in {"idle", "reconnecting", "verifying"}
    BY DEF WatchInv, Shifts
  <2> QED BY <2>1, <2>2 DEF CheckInv
<1> QED BY <1>1, <1>2, <1>3, WatchInvariance, PTL DEF WatchSpec

-----------------------------------------------------------------------------
(* The remote candidates of a peer *)

LEMMA HeldSubset == \A state : Held(state) \subseteq Candidates
  BY DEF Held

LEMMA HeldFinite == \A state : IsFiniteSet(Held(state))
  BY HeldSubset, FS_Subset, PeerAssumption

\* A list that is flushed gives a sequence of calls.
LEMMA FlushedCalls ==
  ASSUME NEW list, NEW how \in {"enter", "skip"}, NEW q \in Flushed(list, how)
  PROVE  q \in Seq(Calls)
  <1> DEFINE n == Cardinality(Held(list))
  <1>1. n \in Nat
    BY HeldFinite, FS_CardinalityType
  <1>2. PICK f \in [1 .. n -> Candidates] :
          q = [i \in DOMAIN f |-> [c |-> f[i], how |-> how]]
    BY DEF Flushed
  <1> HIDE DEF n
  <1>3. DOMAIN f = 1 .. n
    BY <1>2
  <1>4. \A i \in 1 .. n : [c |-> f[i], how |-> how] \in Calls
    BY <1>2 DEF Calls
  <1>5. q \in [1 .. n -> Calls]
    BY <1>2, <1>3, <1>4
  <1>6. QED
    BY <1>1, <1>5, SeqDef

-----------------------------------------------------------------------------
(* The two lists and their timers, apart from the types.                   *)

AddingOK == \A s \in adding : s \in Seq(Calls) /\ s # <<>>
Timed(state, timer) == Held(state) # {} => timer

PeerInv == PeerTypeOK /\ HeldCandidatesHaveTimer

\* A step that puts nobody aside and leaves both timers keeps the lists.
LEMMA NobodyHeld ==
  ASSUME HeldCandidatesHaveTimer,
         rtc'.publicTimer = rtc.publicTimer, rtc'.ipv6Timer = rtc.ipv6Timer,
         \A c \in Candidates : cand'[c] \in {"heldIpv6", "heldPublic"} => cand'[c] = cand[c]
  PROVE  HeldCandidatesHaveTimer'
  BY DEF HeldCandidatesHaveTimer, Held

\* Nobody is put aside any more.
LEMMA NobodyLeft ==
  ASSUME \A c \in Candidates : cand'[c] \notin {"heldIpv6", "heldPublic"}
  PROVE  HeldCandidatesHaveTimer'
  BY DEF HeldCandidatesHaveTimer, Held

LEMMA DropIs ==
  ASSUME cand \in [Candidates -> CandidateState], NEW c \in Candidates
  PROVE  Drop(c) \in CandidateState /\ Drop(c) \notin {"heldIpv6", "heldPublic"}
  BY DEF Drop, CandidateState

\* The records that the handlers leave.
LEMMA Cleared ==
  ASSUME NEW r \in Transport
  PROVE  /\ ClearRecovery(r) \in Transport
         /\ ClearRecovery(r).publicTimer = r.publicTimer
         /\ ClearRecovery(r).ipv6Timer = r.ipv6Timer
         /\ ClearRecovery(r).judging = r.judging
  <1>1. 0 \in 0 .. MaxExtensions
    BY PeerAssumption
  <1>2. ClearRecovery(r) \in Transport
    BY <1>1, Zenon DEF ClearRecovery, Transport
  <1>3. QED
    BY <1>2 DEF ClearRecovery, Transport

LEMMA ClosedReported ==
  ASSUME NEW r \in Transport, NEW shutdown \in Closes
  PROVE  /\ EmitClose(r, shutdown) \in Transport
         /\ EmitClose(r, shutdown).publicTimer = r.publicTimer
         /\ EmitClose(r, shutdown).ipv6Timer = r.ipv6Timer
  <1> DEFINE q == ClearRecovery(r)
  <1>1. q \in Transport /\ q.publicTimer = r.publicTimer /\ q.ipv6Timer = r.ipv6Timer
    BY Cleared
  <1> HIDE DEF q
  <1>2. [q EXCEPT !.connTimer = FALSE, !.closed = shutdown] \in Transport
    BY <1>1, Zenon DEF Transport
  <1>3. /\ [q EXCEPT !.connTimer = FALSE, !.closed = shutdown].publicTimer = q.publicTimer
        /\ [q EXCEPT !.connTimer = FALSE, !.closed = shutdown].ipv6Timer = q.ipv6Timer
    BY <1>1 DEF Transport
  <1>4. QED
    BY <1>1, <1>2, <1>3 DEF EmitClose, q

LEMMA RecoveryArmed ==
  ASSUME NEW r \in Transport
  PROVE  /\ ArmRecovery(r) \in Transport
         /\ ArmRecovery(r).publicTimer = r.publicTimer
         /\ ArmRecovery(r).ipv6Timer = r.ipv6Timer
  <1>1. [r EXCEPT !.recTimer = TRUE] \in Transport
    BY Zenon DEF Transport
  <1>2. QED
    BY <1>1 DEF ArmRecovery, Transport

LEMMA PathJudged ==
  ASSUME NEW r \in Transport, r.judging < 2
  PROVE  /\ Evaluate(r) \in Transport
         /\ Evaluate(r).publicTimer = r.publicTimer
         /\ Evaluate(r).ipv6Timer = r.ipv6Timer
  <1>1. 0 \in 0 .. MaxExtensions /\ r.judging + 1 \in 0 .. 2
    BY PeerAssumption DEF Transport
  <1> DEFINE j == r.judging + 1
  <1> HIDE DEF j
  <1>2. [r EXCEPT !.extensions = 0] \in Transport
    BY <1>1, Zenon DEF Transport
  <1>3. [r EXCEPT !.judging = j] \in Transport
    BY <1>1, Zenon DEF Transport, j
  <1>4. QED
    BY <1>2, <1>3 DEF Evaluate, Transport, j

-----------------------------------------------------------------------------
(* The steps.                                                              *)

LEMMA InvFacts ==
  ASSUME PeerInv
  PROVE  /\ peer \in PeerState /\ rtc \in Transport /\ AddingOK
         /\ cand \in [Candidates -> CandidateState] /\ HeldCandidatesHaveTimer
  BY DEF PeerInv, PeerTypeOK, AddingOK

LEMMA InvMade ==
  ASSUME peer' \in PeerState, rtc' \in Transport,
         cand' \in [Candidates -> CandidateState], AddingOK',
         HeldCandidatesHaveTimer'
  PROVE  PeerInv'
  BY DEF PeerInv, PeerTypeOK, AddingOK

\* Coroutines begin and go on with calls.
LEMMA Goes ==
  ASSUME AddingOK, NEW t \in Seq(Calls),
         Start(t) \/ \E s \in adding : Continue(s, t)
  PROVE  AddingOK'
  BY DEF AddingOK, Start, Continue

LEMMA FirstCall ==
  ASSUME AddingOK, NEW s \in adding
  PROVE  /\ s \in Seq(Calls) /\ Tail(s) \in Seq(Calls)
         /\ Head(s).c \in Candidates
  <1>1. s \in Seq(Calls) /\ s # <<>>
    BY DEF AddingOK
  <1>2. Head(s) \in Calls /\ Tail(s) \in Seq(Calls)
    BY <1>1, HeadTailProperties
  <1>3. QED
    BY <1>1, <1>2 DEF Calls

LEMMA Awaited ==
  ASSUME NEW c \in Candidates, NEW t \in Seq(Calls)
  PROVE  <<[c |-> c, how |-> "await"]>> \o t \in Seq(Calls)
  <1>1. [c |-> c, how |-> "await"] \in Calls
    BY DEF Calls
  <1> DEFINE call == [c |-> c, how |-> "await"]
  <1> HIDE DEF call
  <1>2. <<call>> \in Seq(Calls)
    BY <1>1 DEF call
  <1>3. <<call>> \o t \in Seq(Calls)
    BY <1>2, ConcatProperties
  <1>4. QED
    BY <1>3 DEF call

LEMMA ArrivalStep ==
  ASSUME PeerInv, NEW c \in Candidates, CandidateArrives(c)
  PROVE  PeerInv'
  <1> USE InvFacts
  <1>1. /\ cand' = [cand EXCEPT ![c] = "adding"] /\ UNCHANGED <<peer, rtc>>
        /\ adding' = adding \cup {<<[c |-> c, how |-> "enter"]>>}
    BY DEF CandidateArrives
  <1>2. cand' \in [Candidates -> CandidateState]
    BY <1>1 DEF CandidateState
  <1> DEFINE call == [c |-> c, how |-> "enter"]
  <1>3. call \in Calls
    BY DEF Calls
  <1> HIDE DEF call
  <1>4. <<call>> \in Seq(Calls) /\ <<call>> # <<>>
    BY <1>3
  <1>5. AddingOK'
    BY <1>1, <1>4 DEF AddingOK, call
  <1>6. HeldCandidatesHaveTimer'
    BY <1>1, NobodyHeld
  <1>7. QED
    BY <1>1, <1>2, <1>5, <1>6, InvMade

LEMMA LeaveIs ==
  ASSUME cand \in [Candidates -> CandidateState], NEW list, cand' = Leave(list)
  PROVE  /\ cand' \in [Candidates -> CandidateState]
         /\ list # "adding" => Held(list)' = {}
         /\ \A state : state # "adding" => Held(state)' \subseteq Held(state)
  <1>1. cand' = [c \in Candidates |-> IF cand[c] = list THEN "adding" ELSE cand[c]]
    BY DEF Leave
  <1>2. cand' \in [Candidates -> CandidateState]
    BY <1>1 DEF CandidateState
  <1>3. QED
    BY <1>1, <1>2 DEF Held

LEMMA TurnStep ==
  ASSUME PeerInv, CandidateTurn
  PROVE  PeerInv'
  <1> USE InvFacts
  <1>0. peer' = peer
    BY DEF CandidateTurn
  <1>1. PICK s \in adding : Turn(s, Head(s).c, Head(s).how)
    BY DEF CandidateTurn
  <1> DEFINE c == Head(s).c
             how == Head(s).how
             rest == <<[c |-> c, how |-> "await"]>> \o Tail(s)
  <1>2. Tail(s) \in Seq(Calls) /\ c \in Candidates /\ rest \in Seq(Calls)
    BY FirstCall, Awaited
  <1>3. CASE /\ cand' = [cand EXCEPT ![c] = "ignored"]
             /\ Continue(s, Tail(s)) /\ UNCHANGED rtc
    <2> HIDE DEF c
    <2>1. cand' \in [Candidates -> CandidateState]
      BY <1>3 DEF CandidateState
    <2>2. HeldCandidatesHaveTimer'
      BY <1>2, <1>3, NobodyHeld
    <2>3. AddingOK'
      BY <1>2, <1>3, Goes
    <2>4. QED
      BY <1>0, <1>3, <2>1, <2>2, <2>3, InvMade
  <1>4. CASE /\ cand' = [cand EXCEPT ![c] = "heldPublic"]
             /\ rtc' = [rtc EXCEPT !.publicTimer = TRUE] /\ Continue(s, Tail(s))
    <2> HIDE DEF c
    <2>1. cand' \in [Candidates -> CandidateState]
      BY <1>4 DEF CandidateState
    <2>2. rtc' \in Transport
      BY <1>4, Zenon DEF Transport
    <2>3. rtc'.publicTimer = TRUE /\ rtc'.ipv6Timer = rtc.ipv6Timer
      BY <1>4 DEF Transport
    <2>4. Held("heldIpv6")' \subseteq Held("heldIpv6")
      BY <1>4 DEF Held
    <2>5. HeldCandidatesHaveTimer'
      BY <2>3, <2>4 DEF HeldCandidatesHaveTimer
    <2>6. AddingOK'
      BY <1>2, <1>4, Goes
    <2>7. QED
      BY <1>0, <2>1, <2>2, <2>5, <2>6, InvMade
  <1>5. CASE /\ cand' = [cand EXCEPT ![c] = "heldIpv6"]
             /\ rtc' = [rtc EXCEPT !.ipv6Timer = TRUE] /\ Continue(s, Tail(s))
    <2> HIDE DEF c
    <2>1. cand' \in [Candidates -> CandidateState]
      BY <1>5 DEF CandidateState
    <2>2. rtc' \in Transport
      BY <1>5, Zenon DEF Transport
    <2>3. rtc'.ipv6Timer = TRUE /\ rtc'.publicTimer = rtc.publicTimer
      BY <1>5 DEF Transport
    <2>4. Held("heldPublic")' \subseteq Held("heldPublic")
      BY <1>5 DEF Held
    <2>5. HeldCandidatesHaveTimer'
      BY <2>3, <2>4 DEF HeldCandidatesHaveTimer
    <2>6. AddingOK'
      BY <1>2, <1>5, Goes
    <2>7. QED
      BY <1>0, <2>1, <2>2, <2>5, <2>6, InvMade
  <1>6. CASE /\ cand' = Leave("heldIpv6")
             /\ rtc' = [rtc EXCEPT !.hasIpv4 = TRUE, !.ipv6Timer = FALSE]
             /\ \E q \in Flushed("heldIpv6", "enter") :
                  Continue(s, q \o <<[c |-> c, how |-> "await"]>> \o Tail(s))
    <2>1. PICK q \in Flushed("heldIpv6", "enter") :
            Continue(s, q \o <<[c |-> c, how |-> "await"]>> \o Tail(s))
      BY <1>6
    <2>2. q \in Seq(Calls)
      BY FlushedCalls
    <2>3. [c |-> c, how |-> "await"] \in Calls
      BY <1>2 DEF Calls
    <2> DEFINE call == [c |-> c, how |-> "await"]
    <2> HIDE DEF c, call
    <2>4. (q \o <<call>>) \o Tail(s) \in Seq(Calls)
      BY <1>2, <2>2, <2>3, ConcatProperties DEF call
    <2>5. AddingOK'
      BY <2>1, <2>4, Goes DEF call
    <2>6. rtc' \in Transport
      BY <1>6, Zenon DEF Transport
    <2>7. rtc'.publicTimer = rtc.publicTimer
      BY <1>6 DEF Transport
    <2>8. /\ cand' \in [Candidates -> CandidateState]
          /\ Held("heldIpv6")' = {} /\ Held("heldPublic")' \subseteq Held("heldPublic")
      BY <1>6, LeaveIs
    <2>9. HeldCandidatesHaveTimer'
      BY <2>7, <2>8 DEF HeldCandidatesHaveTimer
    <2>10. QED
      BY <1>0, <2>5, <2>6, <2>8, <2>9, InvMade
  <1>7. CASE Continue(s, rest) /\ UNCHANGED <<cand, rtc>>
    <2> HIDE DEF rest
    <2>1. AddingOK'
      BY <1>2, <1>7, Goes
    <2>2. HeldCandidatesHaveTimer'
      BY <1>7, NobodyHeld
    <2>3. QED
      BY <1>0, <1>7, <2>1, <2>2, InvMade
  <1>8. QED
    BY <1>1, <1>3, <1>4, <1>5, <1>6, <1>7 DEF Turn

LEMMA AddedStep ==
  ASSUME PeerInv, CandidateAdded
  PROVE  PeerInv'
  <1> USE InvFacts
  <1>1. UNCHANGED <<peer, rtc>>
    BY DEF CandidateAdded
  <1>2. PICK s \in adding :
          \/ /\ cand' = [cand EXCEPT ![Head(s).c] = "applied"]
             /\ Continue(s, Tail(s))
          \/ /\ cand' = [d \in Candidates |->
                            IF \E call \in ToSet(s) : call.c = d THEN "lost" ELSE cand[d]]
             /\ Continue(s, <<>>)
    BY DEF CandidateAdded
  <1>3. Head(s).c \in Candidates /\ Tail(s) \in Seq(Calls) /\ <<>> \in Seq(Calls)
    BY FirstCall
  <1>4. AddingOK'
    BY <1>2, <1>3, Goes
  <1>5. /\ cand' \in [Candidates -> CandidateState]
        /\ \A c \in Candidates :
             cand'[c] \in {"heldIpv6", "heldPublic"} => cand'[c] = cand[c]
    BY <1>2, <1>3 DEF CandidateState
  <1>6. HeldCandidatesHaveTimer'
    BY <1>1, <1>5, NobodyHeld
  <1>7. QED
    BY <1>1, <1>4, <1>5, <1>6, InvMade

LEMMA Ipv6TimerStep ==
  ASSUME PeerInv, Ipv6TimerFires
  PROVE  PeerInv'
  <1> USE InvFacts
  <1>1. /\ rtc' = [rtc EXCEPT !.ipv6Timer = FALSE] /\ cand' = Leave("heldIpv6")
        /\ peer' = peer
    BY DEF Ipv6TimerFires
  <1>2. PICK q \in Flushed("heldIpv6", "enter") : Start(q)
    BY DEF Ipv6TimerFires
  <1>3. AddingOK'
    BY <1>2, FlushedCalls, Goes
  <1>4. rtc' \in Transport
    BY <1>1, Zenon DEF Transport
  <1>5. rtc'.publicTimer = rtc.publicTimer
    BY <1>1 DEF Transport
  <1>6. /\ cand' \in [Candidates -> CandidateState]
        /\ Held("heldIpv6")' = {} /\ Held("heldPublic")' \subseteq Held("heldPublic")
    BY <1>1, LeaveIs
  <1>7. HeldCandidatesHaveTimer'
    BY <1>5, <1>6 DEF HeldCandidatesHaveTimer
  <1>8. QED
    BY <1>1, <1>3, <1>4, <1>6, <1>7, InvMade

LEMMA PublicTimerStep ==
  ASSUME PeerInv, PublicTimerFires
  PROVE  PeerInv'
  <1> USE InvFacts
  <1>1. rtc' = [rtc EXCEPT !.publicTimer = FALSE] /\ peer' = peer
    BY DEF PublicTimerFires
  <1>2. rtc' \in Transport
    BY <1>1, Zenon DEF Transport
  <1>3. rtc'.ipv6Timer = rtc.ipv6Timer
    BY <1>1 DEF Transport
  <1>4. CASE /\ cand' = [c \in Candidates |->
                           IF cand[c] = "heldPublic" THEN "discarded" ELSE cand[c]]
             /\ UNCHANGED adding
    <2>1. cand' \in [Candidates -> CandidateState]
      BY <1>4 DEF CandidateState
    <2>2. Held("heldPublic")' = {} /\ Held("heldIpv6")' \subseteq Held("heldIpv6")
      BY <1>4 DEF Held
    <2>3. HeldCandidatesHaveTimer'
      BY <1>3, <2>2 DEF HeldCandidatesHaveTimer
    <2>4. QED
      BY <1>1, <1>2, <1>4, <2>1, <2>3, InvMade DEF AddingOK
  <1>5. CASE /\ cand' = Leave("heldPublic")
             /\ \E q \in Flushed("heldPublic", "skip") : Start(q)
    <2>1. AddingOK'
      BY <1>5, FlushedCalls, Goes
    <2>2. /\ cand' \in [Candidates -> CandidateState]
          /\ Held("heldPublic")' = {} /\ Held("heldIpv6")' \subseteq Held("heldIpv6")
      BY <1>5, LeaveIs
    <2>3. HeldCandidatesHaveTimer'
      BY <1>3, <2>2 DEF HeldCandidatesHaveTimer
    <2>4. QED
      BY <1>1, <1>2, <2>1, <2>2, <2>3, InvMade
  <1>6. QED
    BY <1>4, <1>5 DEF PublicTimerFires

LEMMA IceStep ==
  ASSUME PeerInv, NEW to \in {"connected", "disconnected", "failed"}, IceMoves(to)
  PROVE  PeerInv'
  <1> USE InvFacts
  <1>1. UNCHANGED <<cand, adding>>
    BY DEF IceMoves
  <1>2. /\ peer' = [peer EXCEPT !.ice = to,
                                !.drops = IF to = "disconnected" \/ peer.ice = "failed"
                                          THEN @ + 1 ELSE @]
        /\ \/ to = "connected" /\ peer.ice # "failed"
           \/ to = "disconnected" /\ peer.ice = "connected" /\ peer.drops < MaxDrops
           \/ to = "failed" /\ peer.ice \in {"checking", "disconnected"}
           \/ to = "connected" /\ peer.ice = "failed" /\ peer.drops < MaxDrops
    BY DEF IceMoves
  <1> DEFINE drops == IF to = "disconnected" \/ peer.ice = "failed"
                      THEN peer.drops + 1 ELSE peer.drops
  <1>3. peer.drops \in 0 .. MaxDrops /\ MaxDrops \in Nat
    BY PeerAssumption DEF PeerState
  <1>4. drops \in 0 .. MaxDrops
    BY <1>2, <1>3
  <1>5. peer' = [peer EXCEPT !.ice = to, !.drops = drops]
    BY <1>2
  <1> HIDE DEF drops
  <1>6. to \in {"checking", "connected", "disconnected", "failed"}
    OBVIOUS
  <1>7. peer' \in PeerState
    BY <1>4, <1>5, <1>6, Zenon DEF PeerState
  <1> DEFINE r == ClearRecovery(rtc)
  <1>8. r \in Transport /\ r.publicTimer = rtc.publicTimer /\ r.ipv6Timer = rtc.ipv6Timer
    BY Cleared
  <1> HIDE DEF r
  <1>9. [r EXCEPT !.connTimer = FALSE] \in Transport
    BY <1>8, Zenon DEF Transport
  <1>10. /\ [r EXCEPT !.connTimer = FALSE].publicTimer = r.publicTimer
         /\ [r EXCEPT !.connTimer = FALSE].ipv6Timer = r.ipv6Timer
    BY <1>8 DEF Transport
  <1>11. rtc' = [r EXCEPT !.connTimer = FALSE] \/ rtc' = ArmRecovery(rtc)
    BY DEF IceMoves, r
  <1>12. /\ rtc' \in Transport /\ rtc'.publicTimer = rtc.publicTimer
         /\ rtc'.ipv6Timer = rtc.ipv6Timer
    BY <1>8, <1>9, <1>10, <1>11, RecoveryArmed
  <1>13. HeldCandidatesHaveTimer'
    BY <1>1, <1>12, NobodyHeld
  <1>14. QED
    BY <1>1, <1>7, <1>12, <1>13, InvMade DEF AddingOK

LEMMA ConnectionStep ==
  ASSUME PeerInv, ConnectionFollows
  PROVE  PeerInv'
  <1> USE InvFacts
  <1>1. /\ peer' = [peer EXCEPT !.conn = peer.ice] /\ UNCHANGED adding
        /\ peer.ice # "checking"
    BY DEF ConnectionFollows
  <1>2. peer.ice \in {"connecting", "connected", "disconnected", "failed", "closed"}
    BY <1>1 DEF PeerState
  <1>3. peer' \in PeerState
    BY <1>1, <1>2, Zenon DEF PeerState
  <1>4. CASE peer.ice = "connected"
    <2> DEFINE r == ClearRecovery(rtc)
    <2>1. r \in Transport
      BY Cleared
    <2>2. /\ rtc' = [r EXCEPT !.connTimer = FALSE, !.wasConnected = TRUE,
                              !.ipv6Timer = FALSE, !.publicTimer = FALSE]
          /\ cand' = [c \in Candidates |-> Drop(c)]
      BY <1>4 DEF ConnectionFollows
    <2> HIDE DEF r
    <2>3. rtc' \in Transport
      BY <2>1, <2>2, Zenon DEF Transport
    <2>4. cand' \in [Candidates -> CandidateState]
      BY <2>2, DropIs
    <2>5. HeldCandidatesHaveTimer'
      BY <2>2, DropIs, NobodyLeft
    <2>6. QED
      BY <1>1, <1>3, <2>3, <2>4, <2>5, InvMade DEF AddingOK
  <1>5. CASE peer.ice # "connected"
    <2>1. /\ rtc' \in {rtc, ArmRecovery(rtc), EmitClose(rtc, "failednoconnect")}
          /\ cand' = cand
      BY <1>5, peer.ice \in {"failed", "disconnected"} DEF ConnectionFollows, PeerState
    <2>2. "failednoconnect" \in Closes
      BY DEF Closes
    <2>3. /\ rtc' \in Transport /\ rtc'.publicTimer = rtc.publicTimer
          /\ rtc'.ipv6Timer = rtc.ipv6Timer
      BY <2>1, <2>2, RecoveryArmed, ClosedReported
    <2>4. HeldCandidatesHaveTimer'
      BY <2>1, <2>3, NobodyHeld
    <2>5. QED
      BY <1>1, <1>3, <2>1, <2>3, <2>4, InvMade DEF AddingOK
  <1>6. QED
    BY <1>4, <1>5

LEMMA TimersStep ==
  ASSUME PeerInv, ConnectionTimerFires \/ RecoveryTimerFires \/ RecoveryJudged
  PROVE  PeerInv'
  <1> USE InvFacts
  <1>0. UNCHANGED <<peer, cand, adding>>
    BY DEF ConnectionTimerFires, RecoveryTimerFires, RecoveryJudged
  <1>1. ASSUME rtc' \in Transport, rtc'.publicTimer = rtc.publicTimer,
               rtc'.ipv6Timer = rtc.ipv6Timer
        PROVE  PeerInv'
    <2>1. HeldCandidatesHaveTimer'
      BY <1>0, <1>1, NobodyHeld
    <2>2. QED
      BY <1>0, <1>1, <2>1, InvMade DEF AddingOK
  <1>c. "failednoconnect" \in Closes /\ "failed" \in Closes
    BY DEF Closes
  <1>2. CASE ConnectionTimerFires
    <2>1. [rtc EXCEPT !.connTimer = FALSE] \in Transport
      BY Zenon DEF Transport
    <2>2. /\ [rtc EXCEPT !.connTimer = FALSE].publicTimer = rtc.publicTimer
          /\ [rtc EXCEPT !.connTimer = FALSE].ipv6Timer = rtc.ipv6Timer
      BY DEF Transport
    <2>3. rtc' \in {[rtc EXCEPT !.connTimer = FALSE], EmitClose(rtc, "failednoconnect")}
      BY <1>2 DEF ConnectionTimerFires
    <2>4. QED
      BY <1>1, <1>c, <2>1, <2>2, <2>3, ClosedReported
  <1>3. CASE RecoveryTimerFires
    <2> DEFINE a == [rtc EXCEPT !.recTimer = FALSE]
               b == [rtc EXCEPT !.stray = FALSE]
    <2>1. a \in Transport /\ b \in Transport
      BY Zenon DEF Transport
    <2>2. /\ a.publicTimer = rtc.publicTimer /\ a.ipv6Timer = rtc.ipv6Timer
          /\ b.publicTimer = rtc.publicTimer /\ b.ipv6Timer = rtc.ipv6Timer
          /\ a.judging = rtc.judging /\ b.judging = rtc.judging
      BY DEF Transport
    <2>3. rtc.judging < 2 /\ (rtc' = Evaluate(a) \/ rtc' = Evaluate(b))
      BY <1>3 DEF RecoveryTimerFires
    <2> HIDE DEF a, b
    <2>4. QED
      BY <1>1, <2>1, <2>2, <2>3, PathJudged
  <1>4. CASE RecoveryJudged
    <2>1. rtc.judging > 0
      BY <1>4 DEF RecoveryJudged
    <2>2. PICK active \in BOOLEAN :
            rtc' = IF active /\ rtc.extensions < MaxExtensions
                   THEN [rtc EXCEPT !.judging = @ - 1, !.extensions = @ + 1,
                                    !.stray = rtc.recTimer \/ @, !.recTimer = TRUE]
                   ELSE EmitClose([rtc EXCEPT !.judging = @ - 1], "failed")
      BY <1>4 DEF RecoveryJudged
    <2> DEFINE j == rtc.judging - 1
               e == rtc.extensions + 1
               t == rtc.recTimer \/ rtc.stray
    <2>3. /\ j \in 0 .. 2 /\ t \in BOOLEAN
          /\ rtc.extensions < MaxExtensions => e \in 0 .. MaxExtensions
      BY <2>1, PeerAssumption DEF Transport
    <2>4. rtc' = IF active /\ rtc.extensions < MaxExtensions
                 THEN [rtc EXCEPT !.judging = j, !.extensions = e,
                                  !.stray = t, !.recTimer = TRUE]
                 ELSE EmitClose([rtc EXCEPT !.judging = j], "failed")
      BY <2>2
    <2> HIDE DEF j, e, t
    <2>5. CASE active /\ rtc.extensions < MaxExtensions
      <3>1. rtc' = [rtc EXCEPT !.judging = j, !.extensions = e,
                               !.stray = t, !.recTimer = TRUE]
        BY <2>4, <2>5
      <3>2. rtc' \in Transport
        BY <2>3, <2>5, <3>1, Zenon DEF Transport
      <3>3. rtc'.publicTimer = rtc.publicTimer /\ rtc'.ipv6Timer = rtc.ipv6Timer
        BY <3>1 DEF Transport
      <3>4. QED
        BY <1>1, <3>2, <3>3
    <2>6. CASE ~(active /\ rtc.extensions < MaxExtensions)
      <3> DEFINE r == [rtc EXCEPT !.judging = j]
      <3>1. r \in Transport
        BY <2>3, Zenon DEF Transport
      <3>2. r.publicTimer = rtc.publicTimer /\ r.ipv6Timer = rtc.ipv6Timer
        BY DEF Transport
      <3>3. rtc' = EmitClose(r, "failed")
        BY <2>4, <2>6
      <3> HIDE DEF r
      <3>4. QED
        BY <1>1, <1>c, <3>1, <3>2, <3>3, ClosedReported
    <2>7. QED
      BY <2>5, <2>6
  <1>5. QED
    BY <1>2, <1>3, <1>4

LEMMA CloseStep ==
  ASSUME PeerInv, PeerCloses
  PROVE  PeerInv'
  <1> USE InvFacts
  <1> DEFINE r == ClearRecovery(rtc)
  <1>1. r \in Transport
    BY Cleared
  <1>2. /\ peer' = [peer EXCEPT !.conn = "closed", !.lan = FALSE] /\ UNCHANGED adding
        /\ rtc' = [r EXCEPT !.requested = TRUE, !.connTimer = FALSE,
                            !.hasIpv4 = FALSE, !.ipv6Timer = FALSE,
                            !.publicTimer = FALSE]
        /\ cand' = [c \in Candidates |-> Drop(c)]
    BY DEF PeerCloses
  <1> HIDE DEF r
  <1>3. peer' \in PeerState
    BY <1>2, Zenon DEF PeerState
  <1>4. rtc' \in Transport
    BY <1>1, <1>2, Zenon DEF Transport
  <1>5. cand' \in [Candidates -> CandidateState] /\ HeldCandidatesHaveTimer'
    BY <1>2, DropIs, NobodyLeft
  <1>6. QED
    BY <1>2, <1>3, <1>4, <1>5, InvMade DEF AddingOK

LEMMA SignallingStep ==
  ASSUME PeerInv, LocalCandidatesGathered \/ RemoteDescriptionSet
  PROVE  PeerInv'
  <1> USE InvFacts
  <1>1. UNCHANGED <<rtc, cand, adding>>
    BY DEF LocalCandidatesGathered, RemoteDescriptionSet
  <1>2. peer' \in PeerState
    <2>1. CASE LocalCandidatesGathered
      <3>1. PICK lan \in BOOLEAN : peer' = [peer EXCEPT !.gathered = TRUE, !.lan = lan]
        BY <2>1 DEF LocalCandidatesGathered
      <3>2. QED
        BY <3>1, Zenon DEF PeerState
    <2>2. CASE RemoteDescriptionSet
      <3>1. peer' = [peer EXCEPT !.answered = TRUE]
        BY <2>2 DEF RemoteDescriptionSet
      <3>2. QED
        BY <3>1, Zenon DEF PeerState
    <2>3. QED
      BY <2>1, <2>2
  <1>3. HeldCandidatesHaveTimer'
    BY <1>1, NobodyHeld
  <1>4. QED
    BY <1>1, <1>2, <1>3, InvMade DEF AddingOK

LEMMA PeerInitially == PeerInit => PeerInv
  <1> SUFFICES ASSUME PeerInit PROVE PeerInv
    OBVIOUS
  <1>1. 0 \in 0 .. MaxDrops /\ 0 \in 0 .. MaxExtensions /\ 0 \in 0 .. 2
    BY PeerAssumption
  <1>2. peer \in PeerState
    BY <1>1, Zenon DEF PeerInit, PeerState
  <1>3. rtc \in Transport
    BY <1>1, Zenon DEF PeerInit, Transport, Closes
  <1>4. cand \in [Candidates -> CandidateState] /\ adding = {}
    BY DEF PeerInit, CandidateState
  <1>5. HeldCandidatesHaveTimer
    BY DEF PeerInit, HeldCandidatesHaveTimer, Held
  <1>6. QED
    BY <1>2, <1>3, <1>4, <1>5 DEF PeerInv, PeerTypeOK

LEMMA PeerStep == ASSUME PeerInv, [PeerNext]_peerVars PROVE PeerInv'
  <1>1. CASE UNCHANGED peerVars
    BY <1>1 DEF peerVars, PeerInv, PeerTypeOK, HeldCandidatesHaveTimer, Held
  <1>2. QED
    BY <1>1, SignallingStep, ArrivalStep, TurnStep, AddedStep, Ipv6TimerStep,
       PublicTimerStep, IceStep, ConnectionStep, TimersStep, CloseStep DEF PeerNext, PeerSteps

LEMMA PeerInvariant == PeerSpec => []PeerInv
  <1>1. PeerInv /\ [PeerNext]_peerVars => PeerInv'
    BY PeerStep
  <1> QED BY PeerInitially, <1>1, PTL DEF PeerSpec

\* The transport, its peer connection and what is still to be added keep
\* their types, for any remote candidates.
THEOREM PeerTyped == PeerSpec => []PeerTypeOK
  BY PeerInvariant, PTL DEF PeerInv

\* However candidates, flushes, paths and close() interleave, no candidate is
\* put aside without a timer that will look at it.
THEOREM NoneForgotten == PeerSpec => []HeldCandidatesHaveTimer
  BY PeerInvariant, PTL DEF PeerInv

-----------------------------------------------------------------------------
(* Who still looks at a path that was lost *)

\* A path that failed, which both states of the browser say, has a timer or an
\* evaluation at work, unless it was reported or the page closed the transport.
PathInv ==
  rtc.wasConnected /\ rtc.closed = "" /\ ~rtc.requested /\ peer.ice = "failed" /\ peer.conn = "failed" =>
    rtc.recTimer \/ rtc.judging > 0

\* A step that arms or keeps the timer of a path that was lost.
LEMMA PathKept ==
  ASSUME PeerInv, PathInv, rtc' = ArmRecovery(rtc), peer' \in PeerState
  PROVE  PathInv'
<1>1. rtc \in Transport /\ rtc' \in Transport
  BY InvFacts, RecoveryArmed
<1>2. rtc.requested \/ ~rtc.wasConnected \/ rtc'.recTimer
  BY <1>1 DEF ArmRecovery, Transport
<1>3. rtc'.requested = rtc.requested /\ rtc'.wasConnected = rtc.wasConnected
  BY <1>1 DEF ArmRecovery, Transport
<1> QED BY <1>2, <1>3 DEF PathInv

\* What a report leaves: it was made, or had been made.
LEMMA ReportMade ==
  ASSUME NEW r \in Transport, NEW shutdown \in Closes \ {""}
  PROVE  EmitClose(r, shutdown).closed # ""
<1>1. ClearRecovery(r) \in Transport
  BY Cleared
<1> QED BY <1>1 DEF EmitClose, Transport

LEMMA PathStep ==
  ASSUME PeerInv, PathInv, [PeerNext]_peerVars
  PROVE  PathInv'
<1>0. peer \in PeerState /\ rtc \in Transport
  BY InvFacts
<1>a. peer' \in PeerState /\ rtc' \in Transport
  <2>1. PeerInv'
    BY PeerStep
  <2> QED BY <2>1, Zenon DEF PeerInv, PeerTypeOK
<1>b. "failednoconnect" \in Closes \ {""} /\ "failed" \in Closes \ {""}
  BY DEF Closes
\* The handlers that are about candidates.
<1>1. ASSUME /\ rtc'.wasConnected = rtc.wasConnected /\ rtc'.closed = rtc.closed
             /\ rtc'.requested = rtc.requested /\ rtc'.recTimer = rtc.recTimer
             /\ rtc'.judging = rtc.judging /\ peer'.ice = peer.ice /\ peer'.conn = peer.conn
      PROVE  PathInv'
  BY <1>1 DEF PathInv
<1>2. CASE CandidateTurn
  <2>1. peer' = peer
    BY <1>2 DEF CandidateTurn
  <2>2. \/ rtc' = rtc
        \/ rtc' = [rtc EXCEPT !.publicTimer = TRUE]
        \/ rtc' = [rtc EXCEPT !.ipv6Timer = TRUE]
        \/ rtc' = [rtc EXCEPT !.hasIpv4 = TRUE, !.ipv6Timer = FALSE]
    BY <1>2 DEF CandidateTurn, Turn
  <2> QED BY <1>0, <1>1, <2>1, <2>2 DEF Transport
<1>3. ASSUME \/ LocalCandidatesGathered \/ RemoteDescriptionSet \/ CandidateAdded
             \/ \E c \in Candidates : CandidateArrives(c)
      PROVE  PathInv'
  <2>1. rtc' = rtc /\ peer'.ice = peer.ice /\ peer'.conn = peer.conn
    BY <1>0, <1>3 DEF LocalCandidatesGathered, RemoteDescriptionSet, CandidateAdded,
                      CandidateArrives, PeerState
  <2> QED BY <1>1, <2>1
<1>4. CASE Ipv6TimerFires \/ PublicTimerFires
  <2>1. peer' = peer
    BY <1>4 DEF Ipv6TimerFires, PublicTimerFires
  <2>2. /\ rtc'.wasConnected = rtc.wasConnected /\ rtc'.closed = rtc.closed
        /\ rtc'.requested = rtc.requested /\ rtc'.recTimer = rtc.recTimer
        /\ rtc'.judging = rtc.judging
    BY <1>0, <1>4 DEF Ipv6TimerFires, PublicTimerFires, Transport
  <2> QED BY <1>1, <2>1, <2>2
<1>5. ASSUME NEW to \in {"connected", "disconnected", "failed"}, IceMoves(to) PROVE PathInv'
  <2>1. peer'.ice = to
    BY <1>0, <1>5 DEF IceMoves, PeerState
  <2>2. to = "connected" \/ rtc' = ArmRecovery(rtc)
    BY <1>5 DEF IceMoves
  <2>3. CASE to = "connected"
    BY <2>1, <2>3 DEF PathInv
  <2> QED BY <1>a, <2>2, <2>3, PathKept
<1>6. CASE ConnectionFollows
  <2>1. peer'.ice = peer.ice
    BY <1>0, <1>6 DEF ConnectionFollows, PeerState
  <2>2. CASE peer.ice # "failed"
    BY <2>1, <2>2 DEF PathInv
  <2>3. CASE peer.ice = "failed" /\ rtc.wasConnected
    <3>1. rtc' = ArmRecovery(rtc)
      BY <1>6, <2>3 DEF ConnectionFollows
    <3> QED BY <1>a, <3>1, PathKept
  <2>4. CASE peer.ice = "failed" /\ ~rtc.wasConnected
    <3>1. rtc' = rtc \/ rtc' = EmitClose(rtc, "failednoconnect")
      BY <1>6, <2>4 DEF ConnectionFollows
    <3>2. CASE rtc' = rtc
      BY <2>4, <3>2 DEF PathInv
    <3>3. CASE rtc' = EmitClose(rtc, "failednoconnect")
      BY <1>0, <1>b, <3>3, ReportMade DEF PathInv
    <3> QED BY <3>1, <3>2, <3>3
  <2> QED BY <2>2, <2>3, <2>4
<1>7. CASE ConnectionTimerFires
  <2>1. peer' = peer
    BY <1>7 DEF ConnectionTimerFires
  <2>2. CASE rtc' = [rtc EXCEPT !.connTimer = FALSE]
    BY <1>0, <1>1, <2>1, <2>2 DEF Transport
  <2>3. CASE rtc' = EmitClose(rtc, "failednoconnect")
    BY <1>0, <1>b, <2>3, ReportMade DEF PathInv
  <2> QED BY <1>7, <2>2, <2>3 DEF ConnectionTimerFires
<1>8. CASE RecoveryTimerFires
  <2> DEFINE a == [rtc EXCEPT !.recTimer = FALSE]
             b == [rtc EXCEPT !.stray = FALSE]
  <2>1. /\ a.requested = rtc.requested /\ a.judging = rtc.judging
        /\ b.requested = rtc.requested /\ b.judging = rtc.judging
        /\ a \in Transport /\ b \in Transport
    BY <1>0 DEF Transport
  <2>2. peer' = peer /\ rtc.judging < 2 /\ rtc.judging \in 0 .. 2
    BY <1>0, <1>8 DEF RecoveryTimerFires, Transport
  <2>3. rtc' = Evaluate(a) \/ rtc' = Evaluate(b)
    BY <1>8 DEF RecoveryTimerFires
  <2> HIDE DEF a, b
  <2>4. ASSUME NEW r \in Transport, r.requested = rtc.requested, r.judging = rtc.judging,
               rtc' = Evaluate(r), rtc'.requested = FALSE, peer.ice = "failed", peer.conn = "failed"
        PROVE  rtc'.judging > 0
    <3>1. ~r.requested
      BY <2>4 DEF Evaluate
    <3>2. rtc' = [r EXCEPT !.judging = @ + 1]
      BY <2>4, <3>1 DEF Evaluate
    <3> QED BY <2>2, <2>4, <3>2 DEF Transport
  <2>5. rtc'.requested \in BOOLEAN
    BY <1>a DEF Transport
  <2> QED BY <2>1, <2>2, <2>3, <2>4, <2>5 DEF PathInv
<1>9. CASE RecoveryJudged
  <2> DEFINE r == [rtc EXCEPT !.judging = @ - 1]
  <2>1. \/ rtc' = EmitClose(r, "failed")
        \/ rtc' = [rtc EXCEPT !.judging = @ - 1, !.extensions = @ + 1,
                              !.stray = rtc.recTimer \/ @, !.recTimer = TRUE]
    BY <1>9 DEF RecoveryJudged
  <2>2. CASE rtc' = EmitClose(r, "failed")
    <3>1. rtc.judging - 1 \in 0 .. 2
      BY <1>0, <1>9 DEF RecoveryJudged, Transport
    <3>2. r \in Transport
      BY <1>0, <3>1 DEF Transport
    <3> HIDE DEF r
    <3> QED BY <1>b, <2>2, <3>2, ReportMade DEF PathInv
  <2>3. CASE rtc' = [rtc EXCEPT !.judging = @ - 1, !.extensions = @ + 1,
                                !.stray = rtc.recTimer \/ @, !.recTimer = TRUE]
    BY <1>0, <2>3 DEF PathInv, Transport
  <2> QED BY <2>1, <2>2, <2>3
<1>10. CASE PeerCloses
  <2>1. ClearRecovery(rtc) \in Transport
    BY <1>0, Cleared
  <2>2. rtc'.requested
    BY <1>10, <2>1 DEF PeerCloses, Transport
  <2> QED BY <2>2 DEF PathInv
<1>11. CASE UNCHANGED peerVars
  BY <1>11 DEF peerVars, PathInv
<1> QED BY <1>2, <1>3, <1>4, <1>5, <1>6, <1>7, <1>8, <1>9, <1>10, <1>11
       DEF PeerNext, PeerSteps

\* A failed path does not go unseen: the connection timeout, the recovery
\* timeout, an evaluation of it or a change of state that is still to be
\* reported will look at it, unless nobody watches it, however timers were
\* overwritten and whatever was found out before an await.
THEOREM FailureIsSeen ==
  PeerSpec => [](peer.ice = "failed" /\ ~Unwatched /\ rtc.closed = "" /\ ~rtc.requested =>
                   rtc.connTimer \/ rtc.recTimer \/ rtc.judging > 0 \/ peer.conn # peer.ice)
<1>1. PeerInit => PathInv
  <2> SUFFICES ASSUME PeerInit PROVE PathInv
    OBVIOUS
  <2>1. ~rtc.wasConnected
    BY Zenon DEF PeerInit
  <2> QED BY <2>1 DEF PathInv
<1>2. PeerInv /\ PathInv /\ [PeerNext]_peerVars => PathInv'
  BY PathStep
<1>3. PeerInv /\ PathInv =>
        (peer.ice = "failed" /\ ~Unwatched /\ rtc.closed = "" /\ ~rtc.requested =>
           rtc.connTimer \/ rtc.recTimer \/ rtc.judging > 0 \/ peer.conn # peer.ice)
  BY DEF PathInv, Unwatched
<1> QED BY <1>1, <1>2, <1>3, PeerInvariant, PTL DEF PeerSpec

-----------------------------------------------------------------------------
(* The automatic quality *)

\* Bitrates come in steps of 500, frame rates are taken as they are.
Stepped == {k \in LowKbps .. HighKbps : \E q \in 4 .. 60 : k = q * 500}

LEMMA Limits == LowKbps = 2000 /\ HighKbps = 30000 /\ LowFps = 15 /\ HighFps = 240
BY DEF LowKbps, HighKbps, LowFps, HighFps

LEMMA SteppedNat == Stepped \subseteq Nat
BY Limits DEF Stepped

LEMMA SteppedIn == Stepped \subseteq LowKbps .. HighKbps
BY DEF Stepped

LEMMA SteppedMade ==
  ASSUME NEW q \in 4 .. 60
  PROVE  q * 500 \in Stepped
<1>1. q * 500 \in Nat /\ LowKbps <= q * 500 /\ q * 500 <= HighKbps
  BY Limits
<1>2. q * 500 \in LowKbps .. HighKbps
  BY <1>1, Limits
<1>3. \E p \in 4 .. 60 : q * 500 = p * 500
  OBVIOUS
<1> QED BY <1>2, <1>3 DEF Stepped

LEMMA RoundedIs ==
  ASSUME NEW n \in Nat
  PROVE  /\ Rounded(n, 500) \in Nat
         /\ 1000 * Rounded(n, 500) <= 2 * n + 500
         /\ 2 * n + 500 < 1000 * Rounded(n, 500) + 1000
BY DEF Rounded

LEMMA Normalized ==
  ASSUME NEW n \in Nat
  PROVE  NormalizeKbps(n) \in Stepped
<1> DEFINE r == Rounded(n, 500)
<1>1. r \in Nat
  BY RoundedIs
<1> HIDE DEF r
<1>2. CASE r < 4
  <2>1. AtLeast(LowKbps, AtMost(HighKbps, r * 500)) = 4 * 500
    BY <1>1, <1>2, Limits DEF AtLeast, AtMost
  <2>2. NormalizeKbps(n) = 4 * 500
    BY <2>1 DEF NormalizeKbps, r
  <2>3. 4 * 500 \in Stepped
    BY SteppedMade
  <2> QED BY <2>2, <2>3, Zenon
<1>3. CASE r > 60
  <2>1. AtLeast(LowKbps, AtMost(HighKbps, r * 500)) = 60 * 500
    BY <1>1, <1>3, Limits DEF AtLeast, AtMost
  <2>2. NormalizeKbps(n) = 60 * 500
    BY <2>1 DEF NormalizeKbps, r
  <2>3. 60 * 500 \in Stepped
    BY SteppedMade
  <2> QED BY <2>2, <2>3, Zenon
<1>4. CASE r \in 4 .. 60
  <2>1. AtLeast(LowKbps, AtMost(HighKbps, r * 500)) = r * 500
    BY <1>1, <1>4, Limits DEF AtLeast, AtMost
  <2>2. NormalizeKbps(n) = r * 500
    BY <2>1 DEF NormalizeKbps, r
  <2>3. r * 500 \in Stepped
    BY <1>4, SteppedMade
  <2> QED BY <2>2, <2>3, Zenon
<1> QED BY <1>1, <1>2, <1>3, <1>4

\* The rounding keeps the order, and what is rounded.
LEMMA NormalizedGrows ==
  ASSUME NEW n \in Nat, NEW m \in Nat, n <= m
  PROVE  NormalizeKbps(n) <= NormalizeKbps(m)
<1>1. Rounded(n, 500) <= Rounded(m, 500) /\ Rounded(n, 500) \in Nat /\ Rounded(m, 500) \in Nat
  BY RoundedIs
<1> QED BY <1>1, Limits DEF NormalizeKbps, AtLeast, AtMost

LEMMA NormalizedKeeps ==
  ASSUME NEW k \in Stepped
  PROVE  NormalizeKbps(k) = k
<1>1. PICK q \in 4 .. 60 : k = q * 500
  BY DEF Stepped
<1>2. Rounded(k, 500) = q
  <2> DEFINE r == Rounded(k, 500)
  <2>1. k \in Nat
    BY SteppedNat
  <2>2. r \in Nat /\ 1000 * r <= 2 * k + 500 /\ 2 * k + 500 < 1000 * r + 1000
    BY <2>1, RoundedIs
  <2> HIDE DEF r
  <2>3. r = q
    BY <1>1, <2>2
  <2> QED BY <2>3 DEF r
<1> QED BY <1>1, <1>2, Limits DEF NormalizeKbps, AtLeast, AtMost

LEMMA FloorIs ==
  ASSUME NEW c \in Stepped
  PROVE  FloorKbps(c) \in Stepped /\ FloorKbps(c) <= c
<1> DEFINE low == AtMost(c, AtLeast(LowKbps, Rounded(c * 35, 50000) * 500))
<1>1. c \in Nat
  BY SteppedNat
<1>2. Rounded(c * 35, 50000) \in Nat
  BY <1>1 DEF Rounded
<1>3. low \in Nat /\ low <= c
  BY <1>1, <1>2, Limits DEF AtMost, AtLeast
<1>4. FloorKbps(c) = NormalizeKbps(low)
  BY NormalizedKeeps DEF FloorKbps
<1> HIDE DEF low
<1> QED BY <1>1, <1>3, <1>4, Normalized, NormalizedGrows, NormalizedKeeps

\* A step leads from the floor or above it to the ceiling or below it.
LEMMA KbpsSteps ==
  ASSUME NEW c \in Stepped, NEW f \in Stepped, f <= c, NEW k \in f .. c
  PROVE  StepDownKbps(k, f) \in f .. c /\ StepUpKbps(k, c) \in f .. c
<1>0. f \in Nat /\ c \in Nat /\ f \in LowKbps .. HighKbps
  BY SteppedNat, SteppedIn
<1>1. f \in Nat /\ c \in Nat /\ k \in Nat /\ k >= LowKbps /\ k <= c
  BY <1>0, Limits
<1>2. ASSUME NEW step \in Nat, k >= step PROVE AtLeast(f, NormalizeKbps(k - step)) \in f .. c
  <2>1. k - step \in Nat /\ k - step <= c
    BY <1>1, <1>2
  <2>0. PICK n \in Nat : n = k - step
    BY <2>1
  <2>2. NormalizeKbps(n) <= NormalizeKbps(c) /\ NormalizeKbps(n) \in Stepped
    BY <1>1, <2>0, <2>1, NormalizedGrows, Normalized
  <2>3. NormalizeKbps(c) = c
    BY NormalizedKeeps
  <2>4. NormalizeKbps(n) \in Nat
    BY <2>2, SteppedNat
  <2>5. AtLeast(f, NormalizeKbps(n)) \in f .. c
    BY <1>1, <2>2, <2>3, <2>4 DEF AtLeast
  <2> QED BY <2>0, <2>5
<1>3. ASSUME NEW step \in Nat PROVE AtMost(c, NormalizeKbps(k + step)) \in f .. c
  <2>1. k + step \in Nat /\ f <= k + step
    BY <1>1, <1>3
  <2>0. PICK n \in Nat : n = k + step
    BY <2>1
  <2>2. NormalizeKbps(f) <= NormalizeKbps(n) /\ NormalizeKbps(n) \in Stepped
    BY <1>1, <2>0, <2>1, NormalizedGrows, Normalized
  <2>3. NormalizeKbps(f) = f
    BY NormalizedKeeps
  <2>4. NormalizeKbps(n) \in Nat
    BY <2>2, SteppedNat
  <2>5. AtMost(c, NormalizeKbps(n)) \in f .. c
    BY <1>1, <2>2, <2>3, <2>4 DEF AtMost
  <2> QED BY <2>0, <2>5
<1>4. \E step \in Nat : k >= step /\ StepDownKbps(k, f) = AtLeast(f, NormalizeKbps(k - step))
  BY <1>1, Limits DEF StepDownKbps
<1>5. \E step \in Nat : StepUpKbps(k, c) = AtMost(c, NormalizeKbps(k + step))
  BY <1>1 DEF StepUpKbps, AtLeast
<1> QED BY <1>2, <1>3, <1>4, <1>5

\* A list of steps has a highest and a lowest of any of its frame rates.
LEMMA FpsLimits ==
  ASSUME NEW S \in SUBSET FpsSteps, S # {}
  PROVE  /\ Max(S) \in S /\ \A s \in S : Max(S) >= s
         /\ Min(S) \in S /\ \A s \in S : Min(S) <= s
<1>0. \A y \in S : y \in {24, 30, 45, 60, 90, 120}
  BY DEF FpsSteps
<1>1. \E x \in S : \A y \in S : x >= y
  <2>1. CASE 120 \in S
    BY <1>0, <2>1
  <2>2. CASE 120 \notin S /\ 90 \in S
    BY <1>0, <2>2
  <2>3. CASE 120 \notin S /\ 90 \notin S /\ 60 \in S
    BY <1>0, <2>3
  <2>4. CASE 120 \notin S /\ 90 \notin S /\ 60 \notin S /\ 45 \in S
    BY <1>0, <2>4
  <2>5. CASE \A y \in S : y \in {24, 30}
    BY <2>5, 30 \in S \/ 30 \notin S
  <2> QED BY <1>0, <2>1, <2>2, <2>3, <2>4, <2>5
<1>2. \E x \in S : \A y \in S : x <= y
  <2>1. CASE 24 \in S
    BY <1>0, <2>1
  <2>2. CASE 24 \notin S /\ 30 \in S
    BY <1>0, <2>2
  <2>3. CASE 24 \notin S /\ 30 \notin S /\ 45 \in S
    BY <1>0, <2>3
  <2>4. CASE 24 \notin S /\ 30 \notin S /\ 45 \notin S /\ 60 \in S
    BY <1>0, <2>4
  <2>5. CASE \A y \in S : y \in {90, 120}
    BY <2>5, 90 \in S \/ 90 \notin S
  <2> QED BY <1>0, <2>1, <2>2, <2>3, <2>4, <2>5
<1> QED BY <1>1, <1>2 DEF Max, Min

LEMMA FpsLadder ==
  ASSUME NEW c \in LowFps .. HighFps, NEW f \in FloorFps(c) .. c
  PROVE  /\ FloorFps(c) \in LowFps .. 24 /\ FloorFps(c) <= c
         /\ f \in LowFps .. HighFps
         /\ StepDownFps(f, FloorFps(c)) \in FloorFps(c) .. c
         /\ StepUpFps(f, c) \in FloorFps(c) .. c
<1>1. FloorFps(c) \in LowFps .. 24 /\ FloorFps(c) <= c /\ NormalizeFps(c) = c
  BY Limits DEF FloorFps, NormalizeFps, AtMost, AtLeast
<1>2. f \in LowFps .. HighFps /\ NormalizeFps(f) = f
  BY <1>1, Limits DEF NormalizeFps, AtMost, AtLeast
<1> DEFINE low == FloorFps(c)
           lower == {s \in FpsSteps : s < f}
           higher == {s \in FpsSteps : s > f}
<1>3. StepDownFps(f, low) = IF lower = {} THEN low ELSE AtLeast(low, Max(lower))
  BY <1>2 DEF StepDownFps
<1>4. StepUpFps(f, c) = IF higher = {} THEN c ELSE AtMost(c, Min(higher))
  BY <1>1, <1>2 DEF StepUpFps
<1>5. lower # {} => Max(lower) \in lower
  BY FpsLimits
<1>6. higher # {} => Min(higher) \in higher
  BY FpsLimits
<1>7. lower # {} => Max(lower) \in Nat /\ Max(lower) < f
  BY <1>5 DEF FpsSteps
<1>8. higher # {} => Min(higher) \in Nat /\ Min(higher) > f
  BY <1>6 DEF FpsSteps
<1>9. f \in low .. c /\ low \in Nat /\ c \in Nat /\ low <= c
  BY <1>1, Limits
<1> HIDE DEF lower, higher, low
<1>10. StepDownFps(f, low) \in low .. c
  BY <1>3, <1>7, <1>9 DEF AtLeast
<1>11. StepUpFps(f, c) \in low .. c
  BY <1>4, <1>8, <1>9 DEF AtMost
<1> QED BY <1>1, <1>2, <1>10, <1>11 DEF low

QualityStates ==
  [kbps : LowKbps .. HighKbps, fps : LowFps .. HighFps, poor : 0 .. PoorSamples, steady : 0 .. 2, since : 0 .. 3]

QualityInv == QualityTypeOK /\ QualityInBounds

\* The ceilings of any settings.
LEMMA Ceilings ==
  ASSUME NEW b \in Bitrates, NEW f \in FrameRates
  PROVE  /\ NormalizeKbps(b) \in Stepped /\ FloorKbps(NormalizeKbps(b)) \in Stepped
         /\ FloorKbps(NormalizeKbps(b)) <= NormalizeKbps(b)
         /\ NormalizeFps(f) \in LowFps .. HighFps
         /\ NormalizeFps(f) \in FloorFps(NormalizeFps(f)) .. NormalizeFps(f)
<1>1. b \in Nat /\ f \in Nat
  BY QualityAssumption
<1>2. NormalizeFps(f) \in LowFps .. HighFps
  BY <1>1, Limits DEF NormalizeFps, AtLeast, AtMost
<1>3. NormalizeFps(f) \in FloorFps(NormalizeFps(f)) .. NormalizeFps(f)
  <2>1. PICK m \in LowFps .. HighFps : m = NormalizeFps(f)
    BY <1>2
  <2>2. m \in FloorFps(m) .. m
    BY Limits DEF FloorFps, NormalizeFps, AtLeast, AtMost
  <2> QED BY <2>1, <2>2
<1> QED BY <1>1, <1>2, <1>3, Normalized, FloorIs

LEMMA Between ==
  ASSUME NEW lo \in Int, NEW hi \in Int, NEW a \in lo .. hi, NEW b \in lo .. hi, NEW k \in a .. b
  PROVE  k \in lo .. hi
OBVIOUS

\* A quality in the bounds of the settings is of its type.
LEMMA InBounds ==
  ASSUME wanted \in [kbps : Bitrates, fps : FrameRates],
         NEW k \in FloorKbps(Ceiling) .. Ceiling, NEW f \in FloorFps(CeilingFps) .. CeilingFps
  PROVE  /\ k \in LowKbps .. HighKbps /\ f \in LowFps .. HighFps
         /\ StepDownKbps(k, FloorKbps(Ceiling)) \in FloorKbps(Ceiling) .. Ceiling
         /\ StepUpKbps(k, Ceiling) \in FloorKbps(Ceiling) .. Ceiling
         /\ StepDownFps(f, FloorFps(CeilingFps)) \in FloorFps(CeilingFps) .. CeilingFps
         /\ StepUpFps(f, CeilingFps) \in FloorFps(CeilingFps) .. CeilingFps
<1>1. wanted.kbps \in Bitrates /\ wanted.fps \in FrameRates
  OBVIOUS
<1>2. /\ Ceiling \in Stepped /\ FloorKbps(Ceiling) \in Stepped /\ FloorKbps(Ceiling) <= Ceiling
      /\ CeilingFps \in LowFps .. HighFps
  BY <1>1, Ceilings DEF Ceiling, CeilingFps
<1>3. k \in LowKbps .. HighKbps
  <2>1. Ceiling \in LowKbps .. HighKbps /\ FloorKbps(Ceiling) \in LowKbps .. HighKbps
    BY <1>2, SteppedIn
  <2>2. LowKbps \in Int /\ HighKbps \in Int
    BY Limits
  <2> QED BY <2>1, <2>2, Between
<1>4. f \in LowFps .. HighFps
  BY <1>2, FpsLadder
<1>5. /\ StepDownKbps(k, FloorKbps(Ceiling)) \in FloorKbps(Ceiling) .. Ceiling
      /\ StepUpKbps(k, Ceiling) \in FloorKbps(Ceiling) .. Ceiling
  BY <1>2, KbpsSteps
<1> QED BY <1>2, <1>3, <1>4, <1>5, FpsLadder

LEMMA QualityInitially == QualityInit => QualityInv
<1> SUFFICES ASSUME QualityInit PROVE QualityInv
  OBVIOUS
<1>1. Max(Bitrates) \in Bitrates /\ Max(FrameRates) \in FrameRates
  BY QualityAssumption DEF Max
<1>2. wanted \in [kbps : Bitrates, fps : FrameRates]
  BY <1>1 DEF QualityInit
<1>3. wanted.kbps \in Bitrates /\ wanted.fps \in FrameRates
  BY <1>2
<1>4. /\ quality = [kbps |-> Ceiling, fps |-> CeilingFps, poor |-> 0, steady |-> 0, since |-> 3]
  BY DEF QualityInit, Fresh, Ceiling, CeilingFps
<1>5. /\ Ceiling \in FloorKbps(Ceiling) .. Ceiling /\ CeilingFps \in FloorFps(CeilingFps) .. CeilingFps
  <2>0. Ceiling \in Stepped /\ FloorKbps(Ceiling) \in Stepped /\ FloorKbps(Ceiling) <= Ceiling
    BY <1>3, Ceilings DEF Ceiling
  <2>1. Ceiling \in Nat /\ FloorKbps(Ceiling) \in Nat /\ FloorKbps(Ceiling) <= Ceiling
    BY <2>0, SteppedNat
  <2> QED BY <2>1, <1>3, Ceilings DEF CeilingFps
<1>6. Ceiling \in LowKbps .. HighKbps /\ CeilingFps \in LowFps .. HighFps
  BY <1>2, <1>5, InBounds
<1>7. quality \in QualityStates
  BY <1>4, <1>6 DEF QualityStates, PoorSamples
<1>8. network \in [speed : {"good", "fair", "slow"}, direct : BOOLEAN, warm : BOOLEAN]
  BY DEF QualityInit
<1> QED BY <1>2, <1>4, <1>5, <1>7, <1>8 DEF QualityInv, QualityTypeOK, QualityInBounds, QualityStates

NetworkStates == [speed : {"good", "fair", "slow"}, direct : BOOLEAN, warm : BOOLEAN]

\* What a step has to show that leaves the settings alone.
LEMMA StaysInBounds ==
  ASSUME QualityInv, UNCHANGED wanted, network' \in NetworkStates, quality' \in QualityStates,
         quality'.kbps \in FloorKbps(Ceiling) .. Ceiling,
         quality'.fps \in FloorFps(CeilingFps) .. CeilingFps
  PROVE  QualityInv'
<1>1. Ceiling' = Ceiling /\ CeilingFps' = CeilingFps
  BY DEF Ceiling, CeilingFps
<1>2. QualityTypeOK'
  BY DEF QualityInv, QualityTypeOK, QualityStates, NetworkStates
<1>3. QualityInBounds'
  BY <1>1 DEF QualityInBounds
<1> QED BY <1>2, <1>3 DEF QualityInv

LEMMA QualityFields ==
  ASSUME QualityInv
  PROVE  /\ wanted \in [kbps : Bitrates, fps : FrameRates] /\ quality \in QualityStates
         /\ network \in NetworkStates
         /\ quality.kbps \in FloorKbps(Ceiling) .. Ceiling
         /\ quality.fps \in FloorFps(CeilingFps) .. CeilingFps
         /\ quality.poor \in 0 .. 5 /\ quality.steady \in 0 .. 2 /\ quality.since \in 0 .. 3
BY DEF QualityInv, QualityTypeOK, QualityInBounds, QualityStates, NetworkStates, PoorSamples

\* The samples that are counted, and the changes.
LEMMA Sampled ==
  ASSUME QualityInv, UNCHANGED <<wanted, network>>, NEW p \in 0 .. 5, NEW s \in 0 .. 2,
         quality' = [quality EXCEPT !.poor = p, !.steady = s]
  PROVE  QualityInv'
<1>1. /\ quality' \in QualityStates /\ quality'.kbps = quality.kbps /\ quality'.fps = quality.fps
  BY QualityFields DEF QualityStates, PoorSamples
<1> QED BY <1>1, QualityFields, StaysInBounds

LEMMA Counted ==
  ASSUME QualityInv, UNCHANGED <<wanted, network>>, NEW p \in 0 .. 5,
         quality' = [quality EXCEPT !.poor = p, !.steady = 0]
  PROVE  QualityInv'
<1>1. 0 \in 0 .. 2
  OBVIOUS
<1> QED BY <1>1, Sampled

LEMMA Calmed ==
  ASSUME QualityInv, UNCHANGED <<wanted, network>>, NEW s \in 0 .. 2,
         quality' = [quality EXCEPT !.poor = 0, !.steady = s]
  PROVE  QualityInv'
<1>1. 0 \in 0 .. 5
  OBVIOUS
<1> QED BY <1>1, Sampled

LEMMA Adjusted ==
  ASSUME QualityInv, UNCHANGED <<wanted, network>>, NEW k \in FloorKbps(Ceiling) .. Ceiling,
         NEW f \in FloorFps(CeilingFps) .. CeilingFps, NEW s \in 0 .. 2,
         quality' = QualityChange(k, f, s)
  PROVE  QualityInv'
<1>1. k \in LowKbps .. HighKbps /\ f \in LowFps .. HighFps
  BY QualityFields, InBounds
<1>2. quality' \in QualityStates /\ quality'.kbps = k /\ quality'.fps = f
  BY <1>1 DEF QualityChange, QualityStates, PoorSamples
<1> QED BY <1>2, QualityFields, StaysInBounds

LEMMA PollStep ==
  ASSUME QualityInv, NEW active \in BOOLEAN, NEW fps, PollQuality(active, fps) PROVE QualityInv'
<1>0. UNCHANGED <<wanted, network>>
  BY DEF PollQuality
<1>1. quality' = Unset \/ quality' = PoorSample \/ quality' = StableSample
  BY DEF PollQuality
<1>2. /\ StepDownKbps(quality.kbps, FloorKbps(Ceiling)) \in FloorKbps(Ceiling) .. Ceiling
      /\ StepUpKbps(quality.kbps, Ceiling) \in FloorKbps(Ceiling) .. Ceiling
      /\ StepDownFps(quality.fps, FloorFps(CeilingFps)) \in FloorFps(CeilingFps) .. CeilingFps
      /\ StepUpFps(quality.fps, CeilingFps) \in FloorFps(CeilingFps) .. CeilingFps
  BY QualityFields, InBounds
<1>3. CASE quality' = Unset
  BY <1>0, <1>3, Sampled DEF Unset
<1>4. CASE quality' = PoorSample
  <2> DEFINE more == AtMost(PoorSamples, quality.poor + 1)
  <2>1. more \in 0 .. 5
    BY QualityFields DEF AtMost, PoorSamples
  <2>2. \/ quality' = [quality EXCEPT !.poor = more, !.steady = 0]
        \/ quality' = QualityChange(StepDownKbps(quality.kbps, FloorKbps(Ceiling)), quality.fps, 0)
        \/ quality' = QualityChange(quality.kbps, StepDownFps(quality.fps, FloorFps(CeilingFps)), 0)
    BY <1>4 DEF PoorSample
  <2> HIDE DEF more
  <2>3. CASE quality' = [quality EXCEPT !.poor = more, !.steady = 0]
    BY <1>0, <2>1, <2>3, Counted
  <2>4. CASE quality' = QualityChange(StepDownKbps(quality.kbps, FloorKbps(Ceiling)), quality.fps, 0)
    BY <1>0, <1>2, <2>4, QualityFields, Adjusted
  <2>5. CASE quality' = QualityChange(quality.kbps, StepDownFps(quality.fps, FloorFps(CeilingFps)), 0)
    BY <1>0, <1>2, <2>5, QualityFields, Adjusted
  <2> QED BY <2>2, <2>3, <2>4, <2>5
<1>5. CASE quality' = StableSample
  <2> DEFINE calm == AtLeast(quality.steady, 1)
  <2>1. calm \in 0 .. 2
    BY QualityFields DEF AtLeast
  <2>2. \/ quality' = [quality EXCEPT !.poor = 0, !.steady = calm]
        \/ quality' = QualityChange(StepUpKbps(quality.kbps, Ceiling), quality.fps, 1)
        \/ quality' = QualityChange(quality.kbps, StepUpFps(quality.fps, CeilingFps), 1)
    BY <1>5 DEF StableSample
  <2> HIDE DEF calm
  <2>3. CASE quality' = [quality EXCEPT !.poor = 0, !.steady = calm]
    BY <1>0, <2>1, <2>3, Calmed
  <2>4. CASE quality' = QualityChange(StepUpKbps(quality.kbps, Ceiling), quality.fps, 1)
    BY <1>0, <1>2, <2>4, QualityFields, Adjusted
  <2>5. CASE quality' = QualityChange(quality.kbps, StepUpFps(quality.fps, CeilingFps), 1)
    BY <1>0, <1>2, <2>5, QualityFields, Adjusted
  <2> QED BY <2>2, <2>3, <2>4, <2>5
<1> QED BY <1>1, <1>3, <1>4, <1>5

LEMMA SettingsStep == ASSUME QualityInv, SettingsChange PROVE QualityInv'
<1>1. PICK kbps \in Bitrates, fps \in FrameRates :
        /\ wanted' = [kbps |-> kbps, fps |-> fps]
        /\ quality' = [quality EXCEPT
             !.kbps = IF kbps # wanted.kbps THEN NormalizeKbps(kbps) ELSE @,
             !.fps = IF fps # wanted.fps THEN NormalizeFps(fps) ELSE @,
             !.poor = 0, !.steady = 0]
        /\ UNCHANGED network
  BY DEF SettingsChange
<1> DEFINE k == IF kbps # wanted.kbps THEN NormalizeKbps(kbps) ELSE quality.kbps
           f == IF fps # wanted.fps THEN NormalizeFps(fps) ELSE quality.fps
<1>2. wanted' \in [kbps : Bitrates, fps : FrameRates] /\ wanted'.kbps = kbps /\ wanted'.fps = fps
  BY <1>1
<1>3. quality' = [quality EXCEPT !.kbps = k, !.fps = f, !.poor = 0, !.steady = 0]
  BY <1>1
<1>4. k \in FloorKbps(NormalizeKbps(kbps)) .. NormalizeKbps(kbps)
  <2>0. NormalizeKbps(kbps) \in Stepped /\ FloorKbps(NormalizeKbps(kbps)) \in Stepped
        /\ FloorKbps(NormalizeKbps(kbps)) <= NormalizeKbps(kbps)
    BY Ceilings
  <2>1. NormalizeKbps(kbps) \in Nat /\ FloorKbps(NormalizeKbps(kbps)) \in Nat
        /\ FloorKbps(NormalizeKbps(kbps)) <= NormalizeKbps(kbps)
    BY <2>0, SteppedNat
  <2>2. CASE kbps # wanted.kbps
    BY <2>1, <2>2
  <2>3. CASE kbps = wanted.kbps
    BY <2>3, QualityFields DEF Ceiling
  <2> QED BY <2>2, <2>3
<1>5. f \in FloorFps(NormalizeFps(fps)) .. NormalizeFps(fps)
  BY QualityFields, Ceilings DEF CeilingFps
<1>6. k \in FloorKbps(Ceiling') .. Ceiling' /\ f \in FloorFps(CeilingFps') .. CeilingFps'
  BY <1>2, <1>4, <1>5 DEF Ceiling, CeilingFps
<1> HIDE DEF k, f
<1>7. k \in LowKbps .. HighKbps
  <2>1. NormalizeKbps(kbps) \in LowKbps .. HighKbps /\ FloorKbps(NormalizeKbps(kbps)) \in LowKbps .. HighKbps
    BY Ceilings, SteppedIn
  <2>2. LowKbps \in Int /\ HighKbps \in Int
    BY Limits
  <2> QED BY <1>4, <2>1, <2>2, Between
<1>8. f \in LowFps .. HighFps
  <2>1. NormalizeFps(fps) \in LowFps .. HighFps
    BY Ceilings
  <2> QED BY <1>5, <2>1, FpsLadder
<1>9. quality' \in QualityStates /\ quality'.kbps = k /\ quality'.fps = f
  <2>1. quality \in [kbps : LowKbps .. HighKbps, fps : LowFps .. HighFps,
                     poor : 0 .. PoorSamples, steady : 0 .. 2, since : 0 .. 3]
    BY QualityFields DEF QualityStates
  <2>2. 0 \in 0 .. PoorSamples /\ 0 \in 0 .. 2
    BY DEF PoorSamples
  <2> DEFINE Q == [kbps : LowKbps .. HighKbps, fps : LowFps .. HighFps,
                   poor : 0 .. PoorSamples, steady : 0 .. 2, since : 0 .. 3]
  <2>3. Q = QualityStates
    BY DEF QualityStates
  <2>4. quality' \in Q
    BY <1>3, <1>7, <1>8, <2>1, <2>2
  <2>5. quality'.kbps = k /\ quality'.fps = f
    BY <1>3, <2>1
  <2> QED BY <2>3, <2>4, <2>5
<1>10. QualityTypeOK'
  BY <1>1, <1>2, <1>9, QualityFields DEF QualityTypeOK, QualityStates, NetworkStates
<1>11. QualityInBounds'
  BY <1>6, <1>9 DEF QualityInBounds
<1> QED BY <1>10, <1>11 DEF QualityInv

LEMMA QualityStep == ASSUME QualityInv, [QualityNext]_qualityVars PROVE QualityInv'
<1>1. CASE UNCHANGED qualityVars
  BY <1>1, QualityFields, StaysInBounds DEF qualityVars
<1>2. CASE NetworkChanges \/ RouteChanges
  <2>1. UNCHANGED <<wanted, quality>> /\ network' \in NetworkStates
    BY <1>2, QualityFields DEF NetworkChanges, RouteChanges, NetworkStates
  <2> QED BY <2>1, QualityFields, StaysInBounds
<1>3. CASE TimePasses
  <2>1. CASE network' = [network EXCEPT !.warm = TRUE] /\ UNCHANGED <<wanted, quality>>
    <3>1. network' \in NetworkStates
      BY <2>1, QualityFields DEF NetworkStates
    <3> QED BY <2>1, <3>1, QualityFields, StaysInBounds
  <2>2. CASE quality.since < 3 /\ quality' = [quality EXCEPT !.since = @ + 1] /\ UNCHANGED <<wanted, network>>
    <3>1. quality.since + 1 \in 0 .. 3
      BY <2>2, QualityFields
    <3>2. quality' \in QualityStates /\ quality'.kbps = quality.kbps /\ quality'.fps = quality.fps
      BY <2>2, <3>1, QualityFields DEF QualityStates
    <3> QED BY <2>2, <3>2, QualityFields, StaysInBounds
  <2>3. CASE quality' = [quality EXCEPT !.steady = 2] /\ UNCHANGED <<wanted, network>>
    <3>1. quality' \in QualityStates /\ quality'.kbps = quality.kbps /\ quality'.fps = quality.fps
      BY <2>3, QualityFields DEF QualityStates
    <3> QED BY <2>3, <3>1, QualityFields, StaysInBounds
  <2> QED BY <1>3, <2>1, <2>2, <2>3 DEF TimePasses
<1> QED BY <1>1, <1>2, <1>3, PollStep, SettingsStep DEF QualityNext, Polls

-----------------------------------------------------------------------------
(* The page of the host control app *)

PageStates ==
  [busy : BOOLEAN, progress : {"none", "verify", "binding", "starting"}, synced : 0 .. MaxActs + 1]
RefreshStages ==
  {"idle", "get", "got", "sync", "syncing", "synced", "upload", "uploading", "uploaded"}
RefreshStates == [at : RefreshStages, saw : HostStates]
ClaimStages ==
  {"idle", "submit", "bind", "redeem", "bound", "recheck", "already", "monitor", "auto", "start", "wait"}
ClaimStates == [at : ClaimStages, saw : HostStates, tries : 0 .. AppTries, was : BOOLEAN]
CommandStages == {"idle", "sent", "running", "done", "wait", "sync", "syncing", "synced"}
CommandStates == [at : CommandStages, saw : HostStates, kind : AppCommands, tries : 0 .. AppTries]

AppInv == AppTypeOK /\ DialogInStep

LEMMA AppTypes ==
  AppTypeOK <=>
    /\ backend \in HostStates /\ shown \in HostStates /\ appPage \in PageStates
    /\ refresh \in [Refreshing -> RefreshStates] /\ claim \in ClaimStates
    /\ command \in [Hands -> CommandStates] /\ acts \in 0 .. MaxActs
BY DEF AppTypeOK, PageStates, RefreshStates, RefreshStages, ClaimStates, ClaimStages,
   CommandStates, CommandStages

LEMMA AppTyped ==
  ASSUME backend' \in HostStates, shown' \in HostStates, appPage' \in PageStates,
         refresh' \in [Refreshing -> RefreshStates], claim' \in ClaimStates,
         command' \in [Hands -> CommandStates], acts' \in 0 .. MaxActs,
         appPage'.progress = "none" <=> claim'.at = "idle"
  PROVE  AppInv'
<1>1. AppTypeOK'
  BY DEF AppTypeOK, PageStates, RefreshStates, RefreshStages, ClaimStates, ClaimStages,
     CommandStates, CommandStages, HostStates, Refreshing
<1> QED BY <1>1 DEF AppInv, DialogInStep

\* The constants, and what an action of the user takes.
LEMMA AppNumbers ==
  ASSUME AppInv
  PROVE  /\ MaxActs \in Nat /\ AppTries \in Nat /\ AppTries # 0
         /\ 0 \in 0 .. MaxActs /\ 0 \in 0 .. AppTries /\ MaxActs + 1 \in 0 .. MaxActs + 1
         /\ \A k \in 0 .. MaxActs : k \in 0 .. MaxActs + 1
         /\ \A t \in 0 .. AppTries : t # AppTries => t + 1 \in 0 .. AppTries
         /\ Acts => acts' \in 0 .. MaxActs
         /\ acts' = acts => acts' \in 0 .. MaxActs
<1>1. acts \in 0 .. MaxActs
  BY AppTypes DEF AppInv
<1> QED BY <1>1, AppAssumption DEF Acts

\* What the handlers make of the states.
LEMMA HostFields ==
  ASSUME NEW h \in HostStates
  PROVE  /\ h.phase \in {"waiting", "activated"} /\ h.key \in 0 .. MaxActs
         /\ h.running \in BOOLEAN /\ h.open \in BOOLEAN
BY DEF HostStates

LEMMA HostMade ==
  ASSUME NEW h \in HostStates, NEW k \in 0 .. MaxActs, NEW p \in {"waiting", "activated"},
         NEW b \in BOOLEAN
  PROVE  /\ [h EXCEPT !.running = b] \in HostStates
         /\ [h EXCEPT !.open = b] \in HostStates
         /\ [h EXCEPT !.key = k] \in HostStates
         /\ [h EXCEPT !.phase = p, !.key = k] \in HostStates
         /\ [h EXCEPT !.phase = p, !.key = k, !.running = b] \in HostStates
BY DEF HostStates

LEMMA FreshHost == FreshApp \in HostStates /\ Blank \in HostStates
<1>1. 0 \in 0 .. MaxActs
  BY AppAssumption
<1> QED BY <1>1 DEF FreshApp, Blank, HostStates

LEMMA SyncedHost ==
  ASSUME backend \in HostStates, NEW h \in HostStates
  PROVE  Synced(h) \in HostStates
BY HostFields, HostMade DEF Synced

LEMMA PageFields ==
  ASSUME NEW p \in PageStates
  PROVE  /\ p.busy \in BOOLEAN
         /\ p.progress \in {"none", "verify", "binding", "starting"} /\ p.synced \in 0 .. MaxActs + 1
         /\ NotBusy(p) \in PageStates /\ NotBusy(p).progress = p.progress /\ ~NotBusy(p).busy
BY DEF PageStates, NotBusy

LEMMA PageBusy ==
  ASSUME NEW p \in PageStates, NEW b \in BOOLEAN
  PROVE  /\ [p EXCEPT !.busy = b] \in PageStates /\ [p EXCEPT !.busy = b].progress = p.progress
         /\ [p EXCEPT !.busy = b].busy = b
BY DEF PageStates

LEMMA PageSynced ==
  ASSUME NEW p \in PageStates, NEW s \in 0 .. MaxActs + 1
  PROVE  /\ [p EXCEPT !.synced = s] \in PageStates /\ [p EXCEPT !.synced = s].progress = p.progress
         /\ [p EXCEPT !.synced = s].busy = p.busy
BY DEF PageStates

LEMMA PageProgress ==
  ASSUME NEW p \in PageStates, NEW s \in {"none", "verify", "binding", "starting"}
  PROVE  /\ Progress(p, s) \in PageStates /\ Progress(p, s).progress = s
         /\ Progress(NotBusy(p), s) \in PageStates /\ Progress(NotBusy(p), s).progress = s
         /\ [p EXCEPT !.progress = s, !.busy = TRUE] \in PageStates
         /\ [p EXCEPT !.progress = s, !.busy = TRUE].progress = s
BY DEF PageStates, NotBusy, Progress

LEMMA RefreshFields ==
  ASSUME refresh \in [Refreshing -> RefreshStates], NEW i \in Refreshing
  PROVE  /\ refresh[i].saw \in HostStates
         /\ \A a \in RefreshStages : Takes(i, a) => refresh' \in [Refreshing -> RefreshStates]
         /\ RefreshEnds(i) => refresh' \in [Refreshing -> RefreshStates]
         /\ \A a \in RefreshStages, h \in HostStates :
              GoesOn(i, a, h) => refresh' \in [Refreshing -> RefreshStates]
<1>1. refresh[i] \in RefreshStates
  OBVIOUS
<1>2. \A a \in RefreshStages, h \in HostStates :
        /\ [at |-> a, saw |-> h] \in RefreshStates /\ [refresh[i] EXCEPT !.at = a] \in RefreshStates
        /\ NoRefresh \in RefreshStates
  BY <1>1, FreshHost DEF RefreshStates, RefreshStages, NoRefresh
<1>3. NoRefresh \in RefreshStates
  BY <1>2, FreshHost DEF RefreshStages
<1>4. refresh[i].saw \in HostStates
  BY <1>1 DEF RefreshStates
<1>5. \A a \in RefreshStages : Takes(i, a) => refresh' \in [Refreshing -> RefreshStates]
  BY <1>2, FreshHost DEF Takes
<1>6. RefreshEnds(i) => refresh' \in [Refreshing -> RefreshStates]
  BY <1>3 DEF RefreshEnds
<1>7. \A a \in RefreshStages, h \in HostStates :
        GoesOn(i, a, h) => refresh' \in [Refreshing -> RefreshStates]
  BY <1>2 DEF GoesOn
<1> QED BY <1>4, <1>5, <1>6, <1>7

LEMMA UploadMade ==
  ASSUME refresh \in [Refreshing -> RefreshStates], Uploads \/ UNCHANGED refresh
  PROVE  refresh' \in [Refreshing -> RefreshStates]
BY RefreshFields DEF Uploads, RefreshStages

LEMMA ClaimFields ==
  ASSUME AppInv
  PROVE  /\ claim.at \in ClaimStages /\ claim.saw \in HostStates /\ claim.tries \in 0 .. AppTries
         /\ \A a \in ClaimStages : ClaimAt(a) \in ClaimStates /\ ClaimAt(a).at = a
         /\ \A a \in ClaimStages, h \in HostStates :
              /\ [claim EXCEPT !.at = a, !.saw = h] \in ClaimStates
              /\ [claim EXCEPT !.at = a, !.saw = h].at = a
         /\ \A h \in HostStates : claim.tries # AppTries =>
              /\ [claim EXCEPT !.tries = @ + 1] \in ClaimStates
              /\ [claim EXCEPT !.tries = @ + 1].at = claim.at
              /\ [claim EXCEPT !.tries = @ + 1, !.saw = h] \in ClaimStates
              /\ [claim EXCEPT !.tries = @ + 1, !.saw = h].at = claim.at
<1>1. claim \in ClaimStates
  BY AppTypes DEF AppInv
<1> QED BY <1>1, AppNumbers, FreshHost DEF ClaimStates, ClaimAt

LEMMA CommandFields ==
  ASSUME AppInv, NEW h \in Hands
  PROVE  /\ command[h].saw \in HostStates /\ command[h].kind \in AppCommands
         /\ command[h].tries \in 0 .. AppTries
         /\ [command EXCEPT ![h] = NoCommand] \in [Hands -> CommandStates]
         /\ \A k \in AppCommands :
              [command EXCEPT ![h] = [NoCommand EXCEPT !.at = "sent", !.kind = k]] \in [Hands -> CommandStates]
         /\ \A a \in CommandStages, s \in HostStates :
              GetsOn(h, a, s) => command' \in [Hands -> CommandStates]
         /\ command[h].tries # AppTries =>
              [command EXCEPT ![h].tries = @ + 1] \in [Hands -> CommandStates]
<1>0. command \in [Hands -> CommandStates]
  BY AppTypes DEF AppInv
<1>1. NoCommand \in CommandStates
  BY FreshHost, AppNumbers DEF NoCommand, CommandStates, CommandStages, AppCommands
<1>2. \A k \in AppCommands : [NoCommand EXCEPT !.at = "sent", !.kind = k] \in CommandStates
  BY <1>1 DEF CommandStates, CommandStages
<1>3. command[h] \in CommandStates
  BY <1>0
<1>4. \A a \in CommandStages, s \in HostStates : [command[h] EXCEPT !.at = a, !.saw = s] \in CommandStates
  BY <1>3 DEF CommandStates
<1>5. \A a \in CommandStages, s \in HostStates : [command EXCEPT ![h].at = a, ![h].saw = s]
         = [command EXCEPT ![h] = [command[h] EXCEPT !.at = a, !.saw = s]]
  BY <1>0
<1>6. \A a \in CommandStages, s \in HostStates :
        GetsOn(h, a, s) => command' \in [Hands -> CommandStates]
  <2> SUFFICES ASSUME NEW a \in CommandStages, NEW s \in HostStates, GetsOn(h, a, s)
               PROVE  command' \in [Hands -> CommandStates]
    OBVIOUS
  <2> DEFINE next == [command[h] EXCEPT !.at = a, !.saw = s]
  <2>1. command' = [command EXCEPT ![h] = next]
    BY <1>5 DEF GetsOn
  <2>2. next \in CommandStates
    BY <1>4
  <2> HIDE DEF next
  <2> QED BY <1>0, <2>1, <2>2
<1>7. command[h].tries # AppTries => [command[h] EXCEPT !.tries = @ + 1] \in CommandStates
  BY <1>3, AppNumbers DEF CommandStates
<1>8. [command EXCEPT ![h].tries = @ + 1]
         = [command EXCEPT ![h] = [command[h] EXCEPT !.tries = @ + 1]]
  BY <1>0
<1>9. command[h].tries # AppTries => [command EXCEPT ![h].tries = @ + 1] \in [Hands -> CommandStates]
  BY <1>0, <1>7, <1>8
<1> QED BY <1>0, <1>1, <1>2, <1>3, <1>6, <1>9 DEF CommandStates

LEMMA AppInitially == AppInit => AppInv
<1> SUFFICES ASSUME AppInit PROVE AppInv
  OBVIOUS
<1>1. /\ 0 \in 0 .. MaxActs /\ MaxActs + 1 \in 0 .. MaxActs + 1 /\ 0 \in 0 .. AppTries
  BY AppAssumption
<1>2. /\ backend \in HostStates /\ shown \in HostStates /\ Blank \in HostStates
  BY FreshHost DEF AppInit
<1>3. appPage \in PageStates /\ appPage.progress = "none"
  BY <1>1 DEF AppInit, PageStates
<1>4. refresh \in [Refreshing -> RefreshStates]
  <2>1. \A i \in Refreshing : [NoRefresh EXCEPT !.at = IF i = 1 THEN "get" ELSE "idle"] \in RefreshStates
    BY FreshHost DEF NoRefresh, RefreshStates, RefreshStages
  <2> QED BY <2>1 DEF AppInit
<1>5. claim \in ClaimStates /\ claim.at = "idle"
  BY <1>1, <1>2 DEF AppInit, ClaimStates, ClaimStages
<1>6. command \in [Hands -> CommandStates]
  BY <1>1, <1>2 DEF AppInit, NoCommand, CommandStates, CommandStages, AppCommands
<1>7. acts \in 0 .. MaxActs
  BY <1>1 DEF AppInit
<1> QED BY <1>2, <1>3, <1>4, <1>5, <1>6, <1>7, AppTypes DEF AppInv, DialogInStep

LEMMA AppRefresh ==
  ASSUME AppInv,
         \/ RefreshBegins \/ PollStatus
         \/ \E i \in Refreshing : RefreshSteps(i) \/ RefreshFails(i)
  PROVE  /\ AppInv' /\ UNCHANGED <<claim, command>>
         /\ appPage'.progress = appPage.progress /\ appPage'.busy = appPage.busy
<1>0. /\ backend \in HostStates /\ shown \in HostStates /\ appPage \in PageStates
      /\ refresh \in [Refreshing -> RefreshStates] /\ claim \in ClaimStates
      /\ command \in [Hands -> CommandStates] /\ DialogInStep
  BY AppTypes DEF AppInv
<1>1. CASE RefreshBegins \/ PollStatus
  <2>1. /\ UNCHANGED <<backend, shown, appPage, claim, command>> /\ Refreshes
        /\ Acts \/ acts' = acts
    BY <1>1 DEF RefreshBegins, PollStatus
  <2>2. refresh' \in [Refreshing -> RefreshStates]
    BY <1>0, <2>1, RefreshFields DEF Refreshes, RefreshStages
  <2> QED BY <1>0, <2>1, <2>2, AppNumbers, AppTyped DEF DialogInStep
<1>2. ASSUME NEW i \in Refreshing, RefreshSteps(i) \/ RefreshFails(i)
      PROVE  /\ AppInv' /\ UNCHANGED <<claim, command>>
             /\ appPage'.progress = appPage.progress /\ appPage'.busy = appPage.busy
  <2>0. refresh[i].saw \in HostStates /\ Synced(refresh[i].saw) \in HostStates
    BY <1>0, RefreshFields, SyncedHost
  <2>1. /\ UNCHANGED <<claim, command>> /\ acts' \in 0 .. MaxActs
    BY <1>2, AppNumbers DEF RefreshSteps, RefreshFails,
       RefreshAnswered, RefreshShown, SyncReads, SyncWrites, SyncShown, UploadReads, UploadAnswered, UploadShown
  <2>2. backend' \in HostStates
    BY <1>0, <1>2, <2>0 DEF RefreshSteps, RefreshFails,
       RefreshAnswered, RefreshShown, SyncReads, SyncWrites, SyncShown, UploadReads, UploadAnswered, UploadShown
  <2>3. shown' \in HostStates
    BY <1>0, <1>2, <2>0 DEF RefreshSteps, RefreshFails,
       RefreshAnswered, RefreshShown, SyncReads, SyncWrites, SyncShown, UploadReads, UploadAnswered, UploadShown
  <2>4. RefreshEnds(i) \/ \E a \in RefreshStages, h \in HostStates : GoesOn(i, a, h)
    <3> DEFINE answer == [backend EXCEPT !.open = refresh[i].saw.open]
    <3>1. CASE UploadAnswered(i)
      <4>1. answer \in HostStates
        BY <1>0, <2>0, HostFields, HostMade
      <4>2. GoesOn(i, "uploaded", answer)
        BY <3>1 DEF UploadAnswered
      <4> HIDE DEF answer
      <4> QED BY <4>1, <4>2 DEF RefreshStages
    <3>2. CASE ~UploadAnswered(i)
      BY <1>0, <1>2, <2>2, <3>2, FreshHost DEF RefreshSteps, RefreshFails, RefreshStages,
         RefreshAnswered, RefreshShown, SyncReads, SyncWrites, SyncShown, UploadReads, UploadShown
    <3> QED BY <3>1, <3>2
  <2>5. refresh' \in [Refreshing -> RefreshStates]
    BY <1>0, <2>4, RefreshFields
  <2>6. /\ appPage' \in PageStates
        /\ appPage'.progress = appPage.progress /\ appPage'.busy = appPage.busy
    <3>1. refresh[i].saw.key \in 0 .. MaxActs + 1
      BY <2>0, HostFields, AppNumbers
    <3>2. appPage' = [appPage EXCEPT !.synced = refresh[i].saw.key] \/ appPage' = appPage
      BY <1>2 DEF RefreshSteps, RefreshFails,
         RefreshAnswered, RefreshShown, SyncReads, SyncWrites, SyncShown, UploadReads, UploadAnswered, UploadShown
    <3> QED BY <1>0, <3>1, <3>2, PageSynced
  <2> QED BY <1>0, <2>1, <2>2, <2>3, <2>5, <2>6, AppTyped DEF DialogInStep
<1> QED BY <1>1, <1>2 DEF RefreshBegins, PollStatus

\* A handler of the user goes on: it keeps the dialog, and the overlay but for
\* its beginning and its end.
LEMMA AppCommand ==
  ASSUME AppInv, NEW h \in Hands,
         CommandSteps(h) \/ \E kind \in AppCommands : CommandBegins(h, kind)
  PROVE  AppInv'
<1>0. /\ backend \in HostStates /\ shown \in HostStates /\ appPage \in PageStates
      /\ refresh \in [Refreshing -> RefreshStates] /\ claim \in ClaimStates
      /\ command \in [Hands -> CommandStates] /\ DialogInStep
  BY AppTypes DEF AppInv
<1>1. command[h].saw \in HostStates /\ Synced(command[h].saw) \in HostStates
  BY <1>0, CommandFields, SyncedHost
<1>2. CASE CommandRuns(h) \/ FlowGoesOn(h) \/ FlowSyncReads(h) \/ FlowSyncWrites(h)
  <2>1. /\ UNCHANGED <<appPage, refresh, claim, acts>>
        /\ backend' \in HostStates /\ shown' \in HostStates
    BY <1>0, <1>1, <1>2 DEF CommandRuns, FlowGoesOn, FlowSyncReads, FlowSyncWrites
  <2>2. \E a \in CommandStages, s \in HostStates : GetsOn(h, a, s)
    BY <1>0, <1>2, <2>1, FreshHost DEF CommandRuns, FlowGoesOn, FlowSyncReads, FlowSyncWrites, CommandStages
  <2>3. command' \in [Hands -> CommandStates]
    BY <2>2, CommandFields
  <2> QED BY <1>0, <2>1, <2>3, AppNumbers, AppTyped DEF DialogInStep
<1>3. CASE CommandDone(h)
  <2>1. UNCHANGED <<shown, appPage, refresh, claim, acts>> /\ backend' = Effect(command[h])
    BY <1>3 DEF CommandDone
  <2>2. Effect(command[h]) \in HostStates
    <3>1. /\ command[h].kind \in AppCommands /\ acts \in 0 .. MaxActs
          /\ command[h].saw.key \in 0 .. MaxActs
      BY <1>1, CommandFields, HostFields, AppTypes DEF AppInv
    <3>2. \A b \in BOOLEAN, k \in 0 .. MaxActs :
            /\ [backend EXCEPT !.running = b] \in HostStates /\ [backend EXCEPT !.open = b] \in HostStates
            /\ [backend EXCEPT !.key = k] \in HostStates
            /\ [backend EXCEPT !.phase = "waiting", !.key = k, !.running = b] \in HostStates
            /\ [backend EXCEPT !.phase = "activated", !.key = k] \in HostStates
      BY <1>0, HostMade
    <3> QED BY <1>0, <3>1, <3>2 DEF Effect, AppCommands
  <2>3. backend' \in HostStates
    BY <2>1, <2>2
  <2>4. [backend' EXCEPT !.open = (command[h].kind # "lock")] \in HostStates
    BY <2>3, HostMade, HostFields
  <2>5. command' \in [Hands -> CommandStates]
    <3> DEFINE answer == [backend' EXCEPT !.open = (command[h].kind # "lock")]
    <3>1. GetsOn(h, "done", answer)
      BY <1>3 DEF CommandDone
    <3>2. answer \in HostStates
      BY <2>4
    <3> HIDE DEF answer
    <3> QED BY <3>1, <3>2, CommandFields DEF CommandStages
  <2> QED BY <1>0, <2>1, <2>3, <2>5, AppNumbers, AppTyped DEF DialogInStep
<1>4. CASE CommandShown(h) \/ CommandFails(h)
  <2>1. /\ Ended(h) /\ UNCHANGED <<backend, claim, acts>> /\ shown' \in HostStates
        /\ Uploads \/ UNCHANGED refresh
    BY <1>0, <1>1, <1>4 DEF CommandShown, CommandFails
  <2>2. appPage' \in PageStates /\ appPage'.progress = appPage.progress
    BY <1>0, <2>1, PageFields DEF Ended
  <2>3. command' \in [Hands -> CommandStates]
    BY <2>1, CommandFields DEF Ended
  <2> QED BY <1>0, <2>1, <2>2, <2>3, UploadMade, AppNumbers, AppTyped DEF DialogInStep
<1>5. CASE FlowWaits(h)
  <2>1. UNCHANGED <<backend, refresh, claim, acts>> /\ shown' = backend
    BY <1>5 DEF FlowWaits
  <2>2. \/ Ended(h)
        \/ /\ command[h].tries # AppTries /\ command' = [command EXCEPT ![h].tries = @ + 1]
           /\ UNCHANGED appPage
    BY <1>5 DEF FlowWaits
  <2>3. /\ appPage' \in PageStates /\ appPage'.progress = appPage.progress
        /\ command' \in [Hands -> CommandStates]
    BY <1>0, <2>2, PageFields, CommandFields DEF Ended
  <2> QED BY <1>0, <2>1, <2>3, AppNumbers, AppTyped DEF DialogInStep
<1>6. CASE FlowSynced(h)
  <2>1. UNCHANGED <<backend, refresh, claim, acts>> /\ shown' \in HostStates
    BY <1>1, <1>6 DEF FlowSynced
  <2>2. /\ appPage' = [NotBusy(appPage) EXCEPT !.synced = command[h].saw.key]
        /\ command[h].saw.key \in 0 .. MaxActs + 1 /\ NotBusy(appPage) \in PageStates
        /\ NotBusy(appPage).progress = appPage.progress
    BY <1>0, <1>1, <1>6, HostFields, PageFields, AppNumbers DEF FlowSynced
  <2>3. appPage' \in PageStates /\ appPage'.progress = appPage.progress
    BY <2>2, PageSynced
  <2>4. command' \in [Hands -> CommandStates]
    BY <1>6, CommandFields DEF FlowSynced
  <2> QED BY <1>0, <2>1, <2>3, <2>4, AppNumbers, AppTyped DEF DialogInStep
<1>7. ASSUME NEW kind \in AppCommands, CommandBegins(h, kind) PROVE AppInv'
  <2>1. UNCHANGED <<backend, shown, refresh, claim>> /\ acts' \in 0 .. MaxActs
    BY <1>7, AppNumbers DEF CommandBegins
  <2>2. command' \in [Hands -> CommandStates]
    BY <1>7, CommandFields DEF CommandBegins
  <2>3. appPage' \in PageStates /\ appPage'.progress = appPage.progress
    <3> DEFINE b == appPage.busy \/ kind # "lock"
    <3>1. b \in BOOLEAN
      OBVIOUS
    <3>2. appPage' = [appPage EXCEPT !.busy = b]
      BY <1>7, Zenon DEF CommandBegins
    <3> HIDE DEF b
    <3> QED BY <1>0, <3>1, <3>2, PageBusy
  <2> QED BY <1>0, <2>1, <2>2, <2>3, AppTyped DEF DialogInStep
<1> QED BY <1>2, <1>3, <1>4, <1>5, <1>6, <1>7 DEF CommandSteps

\* A claim that goes on has its dialog, one that ends takes it away.
LEMMA AppClaim == ASSUME AppInv, ClaimBegins \/ ClaimSteps PROVE AppInv'
<1>0. /\ backend \in HostStates /\ shown \in HostStates /\ appPage \in PageStates
      /\ refresh \in [Refreshing -> RefreshStates] /\ claim \in ClaimStates
      /\ command \in [Hands -> CommandStates] /\ DialogInStep
  BY AppTypes DEF AppInv
\* The state, the refreshes and the actions that are left.
<1>1. /\ command' = command /\ refresh' \in [Refreshing -> RefreshStates] /\ acts' \in 0 .. MaxActs
  <2>1. command' = command /\ (Acts \/ acts' = acts) /\ (Uploads \/ UNCHANGED refresh)
    BY DEF ClaimSteps, ClaimBegins, ClaimReads, ClaimWrites, ClaimRedeems, ClaimBound, ClaimRefused, ClaimGivenUp,
       ClaimRechecked, MonitorLooks, MonitorMisses, MonitorEnds, AutoLooks, AutoStarts, AutoWaits, AutoFails
  <2> QED BY <1>0, <2>1, UploadMade, AppNumbers
<1>2. backend' \in HostStates
  <2>1. claim.saw \in HostStates /\ claim.saw.key \in 0 .. MaxActs /\ acts \in 0 .. MaxActs
    BY ClaimFields, HostFields, AppTypes DEF AppInv
  <2>2. CASE ClaimReads
    BY <1>0, <2>1, <2>2, HostMade DEF ClaimReads
  <2>3. CASE ClaimWrites \/ ClaimRedeems
    <3>1. PICK p \in {"waiting", "activated"} : backend' = [backend EXCEPT !.phase = p, !.key = claim.saw.key]
      BY <2>3 DEF ClaimWrites, ClaimRedeems, Binds
    <3> QED BY <1>0, <2>1, <3>1, HostMade
  <2>4. CASE AutoStarts
    <3>1. backend' = [backend EXCEPT !.running = TRUE] \/ backend' = backend
      BY <2>4 DEF AutoStarts
    <3> QED BY <1>0, <3>1, HostMade, HostFields
  <2>5. CASE ~(ClaimReads \/ ClaimWrites \/ ClaimRedeems \/ AutoStarts)
    BY <1>0, <2>5 DEF ClaimSteps, ClaimBegins, ClaimBound, ClaimRefused,
       ClaimRechecked, MonitorLooks, MonitorMisses, MonitorEnds, AutoLooks, AutoWaits, AutoFails
  <2> QED BY <2>2, <2>3, <2>4, <2>5
<1>3. shown' \in HostStates
  BY <1>0, <1>2, ClaimFields DEF ClaimSteps, ClaimBegins, ClaimReads, ClaimWrites, ClaimRedeems, ClaimBound, ClaimRefused,
     ClaimRechecked, MonitorLooks, MonitorMisses, MonitorEnds, AutoLooks, AutoStarts, AutoWaits, AutoFails
<1> DEFINE InStep == /\ appPage' \in PageStates /\ claim' \in ClaimStates
                     /\ appPage'.progress = "none" <=> claim'.at = "idle"
<1> SUFFICES InStep
  BY <1>0, <1>1, <1>2, <1>3, AppTyped
<1>4. ASSUME appPage' = Progress(appPage, "starting") \/ appPage' = Progress(NotBusy(appPage), "starting"),
             claim' = ClaimAt("auto")
      PROVE  InStep
  <2>1. appPage' \in PageStates /\ appPage'.progress = "starting"
    <3>1. /\ Progress(appPage, "starting") \in PageStates
          /\ Progress(appPage, "starting").progress = "starting"
          /\ Progress(NotBusy(appPage), "starting") \in PageStates
          /\ Progress(NotBusy(appPage), "starting").progress = "starting"
      BY <1>0, PageProgress
    <3> QED BY <1>4, <3>1, Zenon
  <2>2. claim' \in ClaimStates /\ claim'.at = "auto"
    BY <1>4, ClaimFields DEF ClaimStages
  <2> QED BY <2>1, <2>2
<1>5. ASSUME appPage' = Progress(appPage, "none") \/ appPage' = Progress(NotBusy(appPage), "none"),
             claim' = ClaimOver
      PROVE  InStep
  <2>1. appPage' \in PageStates /\ appPage'.progress = "none"
    <3>1. /\ Progress(appPage, "none") \in PageStates
          /\ Progress(appPage, "none").progress = "none"
          /\ Progress(NotBusy(appPage), "none") \in PageStates
          /\ Progress(NotBusy(appPage), "none").progress = "none"
      BY <1>0, PageProgress
    <3> QED BY <1>5, <3>1, Zenon
  <2>2. claim' \in ClaimStates /\ claim'.at = "idle"
    BY <1>5, ClaimFields DEF ClaimOver, ClaimStages
  <2> QED BY <2>1, <2>2
<1>6. ASSUME UNCHANGED appPage, claim.at # "idle", claim' \in ClaimStates, claim'.at # "idle"
      PROVE  InStep
  BY <1>0, <1>6 DEF DialogInStep
<1>7. CASE ClaimBegins
  <2>1. appPage' = [appPage EXCEPT !.progress = "verify", !.busy = TRUE]
    BY <1>7 DEF ClaimBegins
  <2>2. claim' = [ClaimAt("submit") EXCEPT !.was = Operable(shown)] /\ Operable(shown) \in BOOLEAN
    BY <1>7 DEF ClaimBegins, Operable
  <2>3. claim' \in ClaimStates /\ claim'.at = "submit"
    <3>1. ClaimAt("submit") \in ClaimStates /\ ClaimAt("submit").at = "submit"
      BY ClaimFields DEF ClaimStages
    <3>2. \A c \in ClaimStates, b \in BOOLEAN :
            [c EXCEPT !.was = b] \in ClaimStates /\ [c EXCEPT !.was = b].at = c.at
      BY DEF ClaimStates
    <3> QED BY <2>2, <3>1, <3>2
  <2> QED BY <1>0, <2>1, <2>3, PageProgress
<1>8. CASE ClaimReads \/ ClaimWrites \/ ClaimRedeems
  <2>1. UNCHANGED appPage /\ claim.at # "idle"
    BY <1>8 DEF ClaimReads, ClaimWrites, ClaimRedeems
  <2>2. CASE ClaimReads
    <3>1. claim' = [claim EXCEPT !.at = "bind", !.saw = backend']
      BY <2>2 DEF ClaimReads
    <3>2. claim' \in ClaimStates /\ claim'.at = "bind"
      BY <1>0, <1>2, <3>1 DEF ClaimStates, ClaimStages
    <3> QED BY <1>6, <2>1, <3>2
  <2>3. CASE claim' = ClaimAt("recheck")
    <3>1. claim' \in ClaimStates /\ claim'.at = "recheck"
      BY <2>3, ClaimFields DEF ClaimStages
    <3> QED BY <1>6, <2>1, <3>1
  <2>4. CASE claim' = [claim EXCEPT !.at = "redeem"]
    <3>1. claim' \in ClaimStates /\ claim'.at = "redeem"
      BY <1>0, <2>4 DEF ClaimStates, ClaimStages
    <3> QED BY <1>6, <2>1, <3>1
  <2>5. CASE claim' = [claim EXCEPT !.at = "bound", !.saw = [backend' EXCEPT !.open = TRUE]]
    <3> DEFINE answer == [backend' EXCEPT !.open = TRUE]
    <3>1. answer \in HostStates
      BY <1>2, HostMade, HostFields
    <3>2. claim' = [claim EXCEPT !.at = "bound", !.saw = answer]
      BY <2>5
    <3> HIDE DEF answer
    <3>3. claim' \in ClaimStates /\ claim'.at = "bound"
      BY <1>0, <3>1, <3>2 DEF ClaimStates, ClaimStages
    <3> QED BY <1>6, <2>1, <3>3
  <2> QED BY <1>8, <2>2, <2>3, <2>4, <2>5 DEF ClaimWrites, ClaimRedeems
<1>9. CASE ClaimBound
  <2>1. CASE Operable(claim.saw)
    BY <1>0, <1>4, <1>9, <2>1 DEF ClaimBound, ClaimStages
  <2>2. CASE ~Operable(claim.saw)
    <3>1. /\ appPage' = Progress(NotBusy(appPage), "binding")
          /\ claim' = [claim EXCEPT !.at = "monitor"]
      BY <1>9, <2>2 DEF ClaimBound
    <3>2. claim' \in ClaimStates /\ claim'.at = "monitor"
      BY <1>0, <3>1 DEF ClaimStates, ClaimStages
    <3>3. appPage' \in PageStates /\ appPage'.progress = "binding"
      BY <1>0, <3>1, PageProgress
    <3> QED BY <3>2, <3>3
  <2> QED BY <2>1, <2>2
<1>10. ASSUME NEW already \in BOOLEAN, ClaimRefused(already) PROVE InStep
  <2>1. UNCHANGED appPage /\ claim.at # "idle"
    BY <1>10 DEF ClaimRefused
  <2>2. claim' = ClaimAt("already") \/ claim' = ClaimAt("recheck")
    BY <1>10 DEF ClaimRefused
  <2>3. /\ ClaimAt("already") \in ClaimStates /\ ClaimAt("already").at = "already"
        /\ ClaimAt("recheck") \in ClaimStates /\ ClaimAt("recheck").at = "recheck"
    BY ClaimFields DEF ClaimStages
  <2> QED BY <1>6, <2>1, <2>2, <2>3
<1>11. ASSUME NEW answered \in BOOLEAN, ClaimRechecked(answered) PROVE InStep
  <2>1. \/ appPage' = Progress(NotBusy(appPage), "starting") /\ claim' = ClaimAt("auto")
        \/ appPage' = Progress(NotBusy(appPage), "none") /\ claim' = ClaimOver
    BY <1>11 DEF ClaimRechecked, ClaimGivenUp
  <2> QED BY <1>0, <1>4, <1>5, <2>1 DEF ClaimStages
<1>12. CASE MonitorLooks
  <2> DEFINE latest == IF claim.tries = 0 THEN claim.saw ELSE backend
  <2>1. latest \in HostStates
    BY <1>0, ClaimFields
  <2>2. \E s \in {"binding", "starting"} : appPage' = Progress(appPage, s)
    BY <1>12 DEF MonitorLooks
  <2>3. \/ claim' = ClaimAt("auto")
        \/ claim' = [claim EXCEPT !.tries = @ + 1, !.saw = latest]
    BY <1>12 DEF MonitorLooks
  <2>4. claim.at = "monitor" /\ claim.tries # AppTries
    <3>1. claim.at = "monitor" /\ claim.tries < AppTries
      BY <1>12 DEF MonitorLooks
    <3>2. claim.tries \in 0 .. AppTries
      BY ClaimFields
    <3> QED BY <3>1, <3>2, AppAssumption
  <2>5. claim' \in ClaimStates /\ claim'.at # "idle"
    <3> HIDE DEF latest
    <3>1. CASE claim' = ClaimAt("auto")
      BY <3>1, ClaimFields DEF ClaimStages
    <3>2. CASE claim' = [claim EXCEPT !.tries = @ + 1, !.saw = latest]
      BY <2>1, <2>4, <3>2, ClaimFields
    <3> QED BY <2>3, <3>1, <3>2
  <2>6. appPage' \in PageStates /\ appPage'.progress # "none"
    <3>1. /\ Progress(appPage, "starting") \in PageStates
          /\ Progress(appPage, "starting").progress = "starting"
          /\ Progress(appPage, "binding") \in PageStates
          /\ Progress(appPage, "binding").progress = "binding"
      BY <1>0, PageProgress
    <3>2. appPage' = Progress(appPage, "starting") \/ appPage' = Progress(appPage, "binding")
      BY <2>2
    <3> QED BY <3>1, <3>2
  <2> QED BY <2>5, <2>6
<1>13. CASE MonitorMisses
  <2>1. /\ claim.at = "monitor" /\ claim.tries # AppTries /\ UNCHANGED appPage
        /\ claim' = [claim EXCEPT !.tries = @ + 1]
    <3>1. /\ claim.at = "monitor" /\ claim.tries \in 1 .. AppTries - 1 /\ UNCHANGED appPage
          /\ claim' = [claim EXCEPT !.tries = @ + 1]
      BY <1>13 DEF MonitorMisses
    <3> QED BY <3>1, AppAssumption
  <2>2. claim' \in ClaimStates /\ claim'.at # "idle"
    BY <2>1, ClaimFields, FreshHost
  <2> QED BY <1>6, <2>1, <2>2
<1>14. CASE MonitorEnds
  <2>1. \/ appPage' = Progress(appPage, "starting") /\ claim' = ClaimAt("auto")
        \/ appPage' = Progress(appPage, "none") /\ claim' = ClaimOver
    BY <1>14 DEF MonitorEnds, ClaimGivenUp
  <2> QED BY <1>0, <1>4, <1>5, <2>1 DEF ClaimStages
<1>15. CASE AutoLooks \/ AutoStarts
  <2>1. /\ UNCHANGED appPage /\ claim.at # "idle"
        /\ claim' = ClaimAt("start") \/ claim' = ClaimAt("wait")
    BY <1>15 DEF AutoLooks, AutoStarts
  <2>2. /\ ClaimAt("start") \in ClaimStates /\ ClaimAt("start").at = "start"
        /\ ClaimAt("wait") \in ClaimStates /\ ClaimAt("wait").at = "wait"
    BY ClaimFields DEF ClaimStages
  <2> QED BY <1>6, <2>1, <2>2
<1>16. CASE AutoWaits
  <2>1. \/ appPage' = Progress(appPage, "none") /\ claim' = ClaimOver
        \/ /\ UNCHANGED appPage /\ claim' = [claim EXCEPT !.tries = @ + 1]
           /\ claim.at = "wait" /\ claim.tries # AppTries
    BY <1>16 DEF AutoWaits
  <2>2. CASE appPage' = Progress(appPage, "none") /\ claim' = ClaimOver
    BY <1>5, <2>2
  <2>3. CASE /\ UNCHANGED appPage /\ claim' = [claim EXCEPT !.tries = @ + 1]
             /\ claim.at = "wait" /\ claim.tries # AppTries
    BY <1>6, <2>3, ClaimFields, FreshHost
  <2> QED BY <2>1, <2>2, <2>3
<1>17. CASE AutoFails
  BY <1>5, <1>17 DEF AutoFails
<1> HIDE DEF InStep
<1> QED BY <1>7, <1>8, <1>9, <1>10, <1>11, <1>12, <1>13, <1>14, <1>15, <1>16, <1>17 DEF ClaimSteps

LEMMA AppStep == ASSUME AppInv, [AppNext]_appVars PROVE AppInv'
<1>1. CASE UNCHANGED appVars
  BY <1>1, AppTypes, AppTyped DEF appVars, AppInv, DialogInStep
<1> QED BY <1>1, AppRefresh, AppCommand, AppClaim DEF AppNext

-----------------------------------------------------------------------------
(* The theorems of the quality and of the app *)

\* Whatever the samples and the settings, and in any order, the page asks the
\* host for no more than the user allows and no less than the floor of it.
THEOREM QualityBounded == QualitySpec => []QualityInBounds
<1>1. QualityInit => QualityInv
  BY QualityInitially
<1>2. QualityInv /\ [QualityNext]_qualityVars => QualityInv'
  BY QualityStep
<1>3. QualityInv => QualityInBounds
  BY DEF QualityInv
<1> QED BY <1>1, <1>2, <1>3, PTL DEF QualitySpec

\* The dialog of the app is open exactly while a claim is under way, whatever
\* its polls, refreshes and commands do meanwhile and wherever the claim fails.
THEOREM DialogFollows == AppSpec => []DialogInStep
<1>1. AppInit => AppInv
  BY AppInitially
<1>2. AppInv /\ [AppNext]_appVars => AppInv'
  BY AppStep
<1>3. AppInv => DialogInStep
  BY DEF AppInv
<1> QED BY <1>1, <1>2, <1>3, PTL DEF AppSpec

-----------------------------------------------------------------------------
(* Who still takes the overlay of the app away *)

\* A handler under way that shows the overlay, and a claim that does.
Covering(h) == command[h].at # "idle" /\ command[h].kind # "lock"
ClaimCovers == claim.at \in {"submit", "bind", "redeem", "bound", "recheck", "already"}
OverlayInv == appPage.busy => ClaimCovers \/ \E h \in Hands : Covering(h)

\* A step of no handler but the claim or the refresh.
LEMMA OverlayStays ==
  ASSUME OverlayInv, command' = command, appPage'.busy => appPage.busy, ClaimCovers => ClaimCovers'
  PROVE  OverlayInv'
BY DEF OverlayInv, Covering

\* A handler that goes on keeps its kind.
LEMMA OverlayGoesOn ==
  ASSUME command \in [Hands -> CommandStates], OverlayInv, NEW h \in Hands, NEW next \in CommandStates,
         command' = [command EXCEPT ![h] = next],
         next.at # "idle", next.kind = command[h].kind,
         UNCHANGED <<appPage, claim>>
  PROVE  OverlayInv'
<1>1. \A k \in Hands : Covering(k) => command'[k].at # "idle" /\ command'[k].kind # "lock"
  <2> SUFFICES ASSUME NEW k \in Hands, Covering(k)
               PROVE  command'[k].at # "idle" /\ command'[k].kind # "lock"
    OBVIOUS
  <2>1. command'[k] = IF k = h THEN next ELSE command[k]
    OBVIOUS
  <2> QED BY <2>1 DEF Covering
<1> QED BY <1>1 DEF OverlayInv, ClaimCovers, Covering

\* A handler that ends: but for the lock it takes the overlay away.
LEMMA OverlayEnds ==
  ASSUME command \in [Hands -> CommandStates], appPage \in PageStates, OverlayInv, NEW h \in Hands,
         command' = [command EXCEPT ![h] = NoCommand], UNCHANGED claim,
         (command[h].kind = "lock" /\ UNCHANGED appPage) \/ ~appPage'.busy
  PROVE  OverlayInv'
<1>1. CASE ~appPage'.busy
  BY <1>1 DEF OverlayInv
<1>2. CASE command[h].kind = "lock" /\ UNCHANGED appPage
  <2>1. \A k \in Hands : Covering(k) => command'[k] = command[k]
    BY <1>2 DEF Covering
  <2> QED BY <1>2, <2>1 DEF OverlayInv, ClaimCovers, Covering
<1> QED BY <1>1, <1>2

LEMMA OverlayCommand ==
  ASSUME AppInv, OverlayInv, NEW h \in Hands,
         CommandSteps(h) \/ \E kind \in AppCommands : CommandBegins(h, kind)
  PROVE  OverlayInv'
<1>0. command \in [Hands -> CommandStates] /\ appPage \in PageStates /\ AppInv'
  BY AppTypes, AppCommand DEF AppInv
<1>a. command' \in [Hands -> CommandStates] /\ command[h] \in CommandStates
  <2>1. AppTypeOK' /\ Hands' = Hands /\ CommandStates' = CommandStates
    BY <1>0 DEF AppInv, CommandStates, CommandStages, AppCommands, HostStates
  <2>2. command' \in [Hands -> CommandStates]
    BY <2>1 DEF AppTypeOK, CommandStates, CommandStages
  <2> QED BY <1>0, <2>2
<1>1. UNCHANGED claim
  BY DEF CommandSteps, CommandBegins, CommandRuns, CommandDone, CommandShown, CommandFails,
     FlowGoesOn, FlowWaits, FlowSyncReads, FlowSyncWrites, FlowSynced
<1>2. ASSUME NEW a \in CommandStages, NEW s, GetsOn(h, a, s), UNCHANGED appPage, a # "idle"
      PROVE  OverlayInv'
  <2> DEFINE next == [command[h] EXCEPT !.at = a, !.saw = s]
  <2>1. command' = [command EXCEPT ![h] = next]
    BY <1>0, <1>2 DEF GetsOn
  <2>2. command'[h] = next
    BY <1>0, <2>1
  <2>3. next \in CommandStates
    BY <1>a, <2>2
  <2>4. next.at # "idle" /\ next.kind = command[h].kind
    BY <1>a, <1>2 DEF CommandStates
  <2> HIDE DEF next
  <2> QED BY <1>0, <1>1, <1>2, <2>1, <2>3, <2>4, OverlayGoesOn
<1>3. CASE CommandRuns(h) \/ CommandDone(h) \/ FlowGoesOn(h) \/ FlowSyncReads(h) \/ FlowSyncWrites(h)
  <2>1. /\ UNCHANGED appPage
        /\ \E s : \/ GetsOn(h, "running", s) \/ GetsOn(h, "done", s) \/ GetsOn(h, "wait", s)
                  \/ GetsOn(h, "sync", s) \/ GetsOn(h, "syncing", s) \/ GetsOn(h, "synced", s)
    BY <1>3 DEF CommandRuns, CommandDone, FlowGoesOn, FlowSyncReads, FlowSyncWrites
  <2>2. {"running", "done", "wait", "sync", "syncing", "synced"} \subseteq CommandStages
    BY DEF CommandStages
  <2> QED BY <1>2, <2>1, <2>2
<1>4. ASSUME Ended(h) PROVE OverlayInv'
  <2>1. /\ command' = [command EXCEPT ![h] = NoCommand]
        /\ (command[h].kind = "lock" /\ UNCHANGED appPage) \/ appPage' = NotBusy(appPage)
    BY <1>4 DEF Ended
  <2>2. ~NotBusy(appPage).busy
    BY <1>0, PageFields
  <2> QED BY <1>0, <1>1, <2>1, <2>2, OverlayEnds
<1>5. CASE CommandShown(h) \/ CommandFails(h)
  BY <1>4, <1>5 DEF CommandShown, CommandFails
<1>6. CASE FlowWaits(h)
  <2>1. CASE Ended(h)
    BY <1>4, <2>1
  <2>2. CASE command' = [command EXCEPT ![h].tries = @ + 1] /\ UNCHANGED appPage
    <3> DEFINE next == [command[h] EXCEPT !.tries = @ + 1]
    <3>1. command' = [command EXCEPT ![h] = next]
      BY <1>0, <2>2
    <3>2. command'[h] = next
      BY <1>0, <3>1
    <3>3. next \in CommandStates
      BY <1>a, <3>2
    <3>4. next.at = command[h].at /\ next.kind = command[h].kind /\ command[h].at = "wait"
      BY <1>a, <1>6 DEF CommandStates, FlowWaits
    <3> HIDE DEF next
    <3> QED BY <1>0, <1>1, <2>2, <3>1, <3>3, <3>4, OverlayGoesOn
  <2> QED BY <1>6, <2>1, <2>2 DEF FlowWaits
<1>7. CASE FlowSynced(h)
  <2>1. /\ command' = [command EXCEPT ![h] = NoCommand]
        /\ appPage' = [NotBusy(appPage) EXCEPT !.synced = command[h].saw.key]
    BY <1>7 DEF FlowSynced
  <2>2. ~appPage'.busy
    <3>1. NotBusy(appPage) \in PageStates /\ ~NotBusy(appPage).busy
      BY <1>0, PageFields
    <3>2. appPage'.busy = NotBusy(appPage).busy
      BY <2>1, <3>1 DEF PageStates
    <3> QED BY <3>1, <3>2
  <2> QED BY <1>0, <1>1, <2>1, <2>2, OverlayEnds
<1>8. ASSUME NEW kind \in AppCommands, CommandBegins(h, kind) PROVE OverlayInv'
  <2>1. /\ command' = [command EXCEPT ![h] = [NoCommand EXCEPT !.at = "sent", !.kind = kind]]
        /\ appPage' = [appPage EXCEPT !.busy = @ \/ kind # "lock"]
        /\ command[h].at = "idle"
    BY <1>8 DEF CommandBegins
  <2>2. command'[h].at = "sent" /\ command'[h].kind = kind
    BY <1>0, <2>1 DEF NoCommand
  <2>3. \A k \in Hands : Covering(k) => command'[k] = command[k]
    BY <1>0, <2>1 DEF Covering
  <2>4. CASE kind = "lock"
    <3>1. appPage'.busy => appPage.busy
      BY <1>0, <2>1, <2>4 DEF PageStates
    <3> QED BY <1>1, <2>3, <3>1 DEF OverlayInv, ClaimCovers, Covering
  <2>5. CASE kind # "lock"
    BY <2>2, <2>5 DEF OverlayInv, Covering
  <2> QED BY <2>4, <2>5
<1> QED BY <1>3, <1>5, <1>6, <1>7, <1>8 DEF CommandSteps

LEMMA OverlayStep == ASSUME AppInv, OverlayInv, [AppNext]_appVars PROVE OverlayInv'
<1>0. appPage \in PageStates /\ claim \in ClaimStates
  BY AppTypes DEF AppInv
<1>1. CASE UNCHANGED appVars
  BY <1>1, OverlayStays DEF appVars, ClaimCovers
<1>2. CASE \/ RefreshBegins \/ PollStatus
           \/ \E i \in Refreshing : RefreshSteps(i) \/ RefreshFails(i)
  <2>1. UNCHANGED <<claim, command>> /\ appPage'.busy = appPage.busy
    BY <1>2, AppRefresh
  <2> QED BY <2>1, OverlayStays DEF ClaimCovers
\* A claim that begins, or is still at work behind the overlay.
<1>3. CASE ClaimBegins \/ ClaimReads \/ ClaimWrites \/ ClaimRedeems \/ \E already \in BOOLEAN : ClaimRefused(already)
  <2>1. claim'.at \in {"submit", "bind", "redeem", "bound", "recheck", "already"}
    BY <1>0, <1>3 DEF ClaimBegins, ClaimReads, ClaimWrites, ClaimRedeems, ClaimRefused, ClaimAt, ClaimStates, ClaimStages
  <2> QED BY <2>1 DEF OverlayInv, ClaimCovers
\* A claim that takes the overlay away.
<1>4. CASE ClaimBound \/ \E answered \in BOOLEAN : ClaimRechecked(answered)
  <2>1. \E s \in {"none", "binding", "starting"} : appPage' = Progress(NotBusy(appPage), s)
    BY <1>4 DEF ClaimBound, ClaimRechecked, ClaimGivenUp
  <2>2. ~appPage'.busy
    BY <1>0, <2>1 DEF Progress, NotBusy, PageStates
  <2> QED BY <2>2 DEF OverlayInv
\* A claim that watches: its overlay is gone.
<1>5. CASE \/ MonitorLooks \/ MonitorMisses \/ MonitorEnds
           \/ AutoLooks \/ AutoStarts \/ AutoWaits \/ AutoFails
  <2>1. command' = command /\ ~ClaimCovers
    BY <1>5 DEF MonitorLooks, MonitorMisses, MonitorEnds, AutoLooks, AutoStarts, AutoWaits, AutoFails, ClaimCovers
  <2>2. appPage' = appPage \/ \E s \in {"none", "binding", "starting"} : appPage' = Progress(appPage, s)
    BY <1>5 DEF MonitorLooks, MonitorMisses, MonitorEnds, ClaimGivenUp, AutoLooks, AutoStarts, AutoWaits, AutoFails
  <2>3. appPage'.busy = appPage.busy
    BY <1>0, <2>2 DEF Progress, PageStates
  <2> QED BY <2>1, <2>3, OverlayStays
<1> QED BY <1>1, <1>2, <1>3, <1>4, <1>5, OverlayCommand DEF AppNext, ClaimSteps

\* The overlay that stops the mouse, and the poll with it, is never left behind:
\* while it is there a handler that takes it away at its end is under way,
\* although every handler that ends takes away the overlay of the others too.
THEOREM OverlayHasHandler ==
  AppSpec => [](appPage.busy =>
                  \/ claim.at \in {"submit", "bind", "redeem", "bound", "recheck", "already"}
                  \/ \E h \in Hands : command[h].at # "idle" /\ command[h].kind # "lock")
<1>1. AppInit => AppInv /\ OverlayInv
  <2>1. AppInit => OverlayInv
    BY DEF AppInit, OverlayInv
  <2> QED BY <2>1, AppInitially
<1>2. AppInv /\ OverlayInv /\ [AppNext]_appVars => AppInv' /\ OverlayInv'
  BY AppStep, OverlayStep
<1>3. OverlayInv =>
        (appPage.busy => \/ claim.at \in {"submit", "bind", "redeem", "bound", "recheck", "already"}
                         \/ \E h \in Hands : command[h].at # "idle" /\ command[h].kind # "lock")
  BY DEF OverlayInv, ClaimCovers, Covering
<1> QED BY <1>1, <1>2, <1>3, PTL DEF AppSpec

-----------------------------------------------------------------------------
(* The suite *)

LEMMA FocusStays == ASSUME [SuiteNext]_suiteVars PROVE focus' = focus
BY Zenon DEF SuiteNext, suiteVars, OnlySupervisorMailbox, OnlyAdaptiveQuality,
   OnlyStreamWatch, OnlyHostControlApp, OnlyWebRtcPeer, OnlyJsonStorage

LEMMA FocusSteps ==
  ASSUME [SuiteNext]_suiteVars
  PROVE  /\ focus = "mailbox" => [MailboxNext]_mailboxVars
         /\ focus = "quality" => [QualityNext]_qualityVars
         /\ focus = "watch" => [WatchNext]_watchVars
         /\ focus = "app" => [AppNext]_appVars
         /\ focus = "peer" => [PeerNext]_peerVars
         /\ focus = "storage" => [StorageNext]_storageVars
<1>1. CASE UNCHANGED suiteVars
  BY <1>1 DEF suiteVars
<1>2. CASE SuiteNext
  <2>1. \/ focus = "mailbox" /\ MailboxNext
        \/ focus = "quality" /\ QualityNext
        \/ focus = "watch" /\ WatchNext
        \/ focus = "app" /\ AppNext
        \/ focus = "peer" /\ PeerNext
        \/ focus = "storage" /\ StorageNext
    BY <1>2, Zenon DEF SuiteNext, OnlySupervisorMailbox, OnlyAdaptiveQuality,
       OnlyStreamWatch, OnlyHostControlApp, OnlyWebRtcPeer, OnlyJsonStorage
  <2> QED BY <2>1
<1> QED BY <1>1, <1>2

\* Every component keeps the types of its state and the quality its bounds, in
\* every behaviour of the suite.
THEOREM ProgressTyped == SuiteSpec => []ProgressTypeOK
<1> DEFINE Inv == /\ focus = "mailbox" => TypeInv
                  /\ focus = "quality" => QualityInv
                  /\ focus = "watch" => WatchInv
                  /\ focus = "app" => AppInv
                  /\ focus = "peer" => PeerInv
                  /\ focus = "storage" => StorageInv
<1>1. SuiteInit => Inv
  BY TypeInit, MailboxAssumption, QualityInitially, WatchInitially, AppInitially,
     PeerInitially, StorageInitially DEF SuiteInit
<1>2. Inv /\ [SuiteNext]_suiteVars => Inv'
  <2> SUFFICES ASSUME Inv, [SuiteNext]_suiteVars PROVE Inv'
    OBVIOUS
  <2>1. focus' = focus
    BY FocusStays
  <2>2. focus = "mailbox" => TypeInv'
    BY FocusSteps, TypeStep, MailboxAssumption
  <2>3. focus = "quality" => QualityInv'
    BY FocusSteps, QualityStep
  <2>4. focus = "watch" => WatchInv'
    BY FocusSteps, WatchStep
  <2>5. focus = "app" => AppInv'
    BY FocusSteps, AppStep
  <2>6. focus = "peer" => PeerInv'
    BY FocusSteps, PeerStep
  <2>7. focus = "storage" => StorageInv'
    BY FocusSteps, StorageStep
  <2> QED BY <2>1, <2>2, <2>3, <2>4, <2>5, <2>6, <2>7
<1>3. Inv => ProgressTypeOK
  <2>1. /\ TypeInv => MailboxTypeOK
        /\ QualityInv => QualityTypeOK /\ QualityInBounds
        /\ WatchInv => WatchTypeOK
        /\ AppInv => AppTypeOK
        /\ PeerInv => PeerTypeOK
        /\ StorageInv => StorageTypeOK
    BY WatchShows DEF TypeInv, QualityInv, AppInv, PeerInv, StorageInv
  <2> QED BY <2>1 DEF ProgressTypeOK
<1> QED BY <1>1, <1>2, <1>3, PTL DEF SuiteSpec

=============================================================================

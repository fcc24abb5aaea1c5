---------------------------- MODULE JsonStorage ----------------------------
(***************************************************************************)
(* The storage of users and hosts: JsonStorage in                          *)
(* src/src/app/storage/json/mod.rs, with the operations of the web server  *)
(* that take more than one of its calls (src/src/app/mod.rs, user.rs).     *)
(*                                                                         *)
(* The tables live in memory. A change is made under a lock and is         *)
(* followed by force_write, a try_send into a channel of capacity one; one *)
(* task, file_writer, empties the channel and rewrites the whole file.     *)
(* store holds the two table locks, so that no row comes or goes, while it *)
(* copies row by row; rows may change meanwhile. A lock that is held with  *)
(* no await inside is one atomic step; only the two that store keeps while *)
(* it awaits more are visible as a state of the writer.                    *)
(*                                                                         *)
(* A row is what tells its versions apart: the name of a user, the owner   *)
(* of a host and a stamp that numbers every change ever made to a row.     *)
(* Session tokens are never written to the file and are left out.          *)
(***************************************************************************)
EXTENDS Naturals, FiniteSets

CONSTANTS
  UserIds,     \* the u32 a user can be given
  HostIds,     \* the u32 a host can be given
  Names,       \* the names users ask for
  Clients,     \* requests that run at the same time
  Nobody,      \* no user, no name
  None,        \* no row
  MaxChanges   \* bound: how many changes are ever made

RowIds == UserIds \cup HostIds

ASSUME StorageAssumption ==
  /\ UserIds \cap HostIds = {}
  /\ Nobody \notin UserIds \cup Names
  /\ MaxChanges \in Nat

Stamps   == 0..MaxChanges
UserRows == [name : Names, stamp : Stamps]
HostRows == [owner : UserIds \cup {Nobody}, stamp : Stamps]

ASSUME NoneAssumption == None \notin UserRows \cup HostRows

Tables == {t \in [RowIds -> UserRows \cup HostRows \cup {None}] :
             /\ \A u \in UserIds : t[u] \in UserRows \cup {None}
             /\ \A h \in HostIds : t[h] \in HostRows \cup {None}}

Present(t) == {i \in RowIds : t[i] # None}
Users(t)   == Present(t) \cap UserIds
Hosts(t)   == Present(t) \cap HostIds

VARIABLES
  server,    \* "up", "down", or "refused": load failed and main returned
  rows,      \* users and hosts
  changes,     \* changes made so far
  removed,   \* history: the users ever removed
  chan,      \* is there a message in store_sender's channel?
  writer,    \* where file_writer is
  unread,    \* the rows store has still to copy
  snap,      \* the rows it has copied
  disk,      \* the last content the file had in full
  torn,      \* has the file been truncated since, and not yet filled?
  failed,    \* history: did the last write fail?
  task       \* what each client is doing

storageVars == <<server, rows, changes, removed, chan, writer, unread, snap,
          disk, torn, failed, task>>

tableVars  == <<rows, changes, removed>>
writerVars == <<writer, unread, snap>>
fileVars   == <<disk, torn, failed>>

WriterStates == {"recv", "lockUsers", "lockHosts", "copy", "truncate", "fill"}

Idle == [pc |-> "idle", user |-> Nobody, name |-> Nobody, first |-> FALSE, todo |-> {}]

TaskStates == [pc : {"idle", "check", "insert", "signal", "insertHost", "list", "assign"},
               user : UserIds \cup {Nobody}, name : Names \cup {Nobody},
               first : BOOLEAN, todo : SUBSET HostIds]

StorageTypeOK ==
  /\ server \in {"up", "down", "refused"}
  /\ rows \in Tables
  /\ changes \in Stamps
  /\ removed \in SUBSET UserIds
  /\ chan \in BOOLEAN
  /\ writer \in WriterStates
  /\ unread \in SUBSET RowIds
  /\ snap \in Tables
  /\ disk \in Tables
  /\ torn \in BOOLEAN
  /\ failed \in BOOLEAN
  /\ task \in [Clients -> TaskStates]

Empty == [i \in RowIds |-> None]

\* The file may be missing, or left by an earlier run with its owners in it; one of
\* version 1, which migrate_v1_to_v2 converts, has hosts of nobody and no user.
Files == {t \in Tables :
            /\ \A i \in Present(t) : t[i].stamp = 0
            /\ \A h \in Hosts(t) : t[h].owner \in Users(t) \cup {Nobody}}

StorageInit ==
  /\ server = "up"
  /\ rows \in Files
  /\ changes = 0
  /\ removed = {}
  /\ chan = FALSE
  /\ writer = "recv"
  /\ unread = {}
  /\ snap = Empty
  /\ disk = rows
  /\ torn = FALSE
  /\ failed = FALSE
  /\ task = [c \in Clients |-> Idle]

-----------------------------------------------------------------------------
(* The tables *)

\* store keeps users.read() from here on, and hosts.read() once it has it:
\* add and remove wait for them, modify does not.
UsersLocked == writer \in {"lockHosts", "copy"}
HostsLocked == writer = "copy"

\* Row i becomes r, with a stamp of its own.
Change(i, r) ==
  /\ changes < MaxChanges
  /\ changes' = changes + 1
  /\ rows' = [rows EXCEPT ![i] = r]

Stamped(r) == [r EXCEPT !.stamp = changes + 1]

-----------------------------------------------------------------------------
(* The requests *)

At(c, pc) == server = "up" /\ task[c].pc = pc

Become(c, t) == task' = [task EXCEPT ![c] = t]
GoTo(c, pc)  == Become(c, [task[c] EXCEPT !.pc = pc])

\* A slip of Signal: no signal is sent while the file is being written.
SignalUnlessBusy(c) ==
  /\ At(c, "signal")
  /\ chan' = (chan \/ writer = "recv")
  /\ IF task[c].first THEN GoTo(c, "list") ELSE Become(c, Idle)
  /\ UNCHANGED <<server, tableVars, writerVars, fileVars>>

\* force_write, after the lock is dropped. A full channel is as good.
Signal(c) ==
  /\ At(c, "signal")
  /\ chan' = TRUE
  /\ IF task[c].first THEN GoTo(c, "list") ELSE Become(c, Idle)
  /\ UNCHANGED <<server, tableVars, writerVars, fileVars>>

BeginAddUser(c, n) ==
  /\ At(c, "idle")
  /\ Become(c, [Idle EXCEPT !.pc = "check", !.name = n])
  /\ UNCHANGED <<server, tableVars, chan, writerVars, fileVars>>

\* try_add_first_login goes on only when any_user_exists says no.
BeginFirstLogin(c, n) ==
  /\ At(c, "idle")
  /\ Users(rows) = {}
  /\ Become(c, [Idle EXCEPT !.pc = "check", !.name = n, !.first = TRUE])
  /\ UNCHANGED <<server, tableVars, chan, writerVars, fileVars>>

\* add_user asks get_user_by_name, which takes the lock and returns it.
CheckName(c) ==
  /\ At(c, "check")
  /\ IF \E u \in Users(rows) : rows[u].name = task[c].name
       THEN Become(c, Idle)
       ELSE GoTo(c, "insert")
  /\ UNCHANGED <<server, tableVars, chan, writerVars, fileVars>>

\* Then it takes the lock again and inserts under an id no user has.
InsertUser(c) ==
  /\ At(c, "insert")
  /\ ~UsersLocked
  /\ \E u \in UserIds \ Present(rows) :
       /\ Change(u, [name |-> task[c].name, stamp |-> changes + 1])
       /\ Become(c, [task[c] EXCEPT !.pc = "signal", !.user = u])
  /\ UNCHANGED <<server, removed, chan, writerVars, fileVars>>

ModifyUser(c, u) ==
  /\ At(c, "idle")
  /\ u \in Users(rows)
  /\ Change(u, Stamped(rows[u]))
  /\ GoTo(c, "signal")
  /\ UNCHANGED <<server, removed, chan, writerVars, fileVars>>

\* The user's hosts stay. A user who is not there is an error, after force_write.
RemoveUser(c, u) ==
  /\ At(c, "idle")
  /\ ~UsersLocked
  /\ \/ u \in Users(rows) /\ Change(u, None) /\ removed' = removed \cup {u}
     \/ u \notin Users(rows) /\ UNCHANGED tableVars
  /\ GoTo(c, "signal")
  /\ UNCHANGED <<server, chan, writerVars, fileVars>>

\* host_add, for a user who was there when the request was authenticated,
\* first asks the host for its name and address.
BeginAddHost(c, u) ==
  /\ At(c, "idle")
  /\ u \in Users(rows)
  /\ Become(c, [Idle EXCEPT !.pc = "insertHost", !.user = u])
  /\ UNCHANGED <<server, tableVars, chan, writerVars, fileVars>>

\* A slip of InsertHost: the id is drawn from those of users, too.
InsertHostAnywhere(c) ==
  /\ At(c, "insertHost")
  /\ ~HostsLocked
  /\ \E h \in RowIds \ Hosts(rows) :
       Change(h, [owner |-> task[c].user, stamp |-> changes + 1])
  /\ chan' = TRUE
  /\ Become(c, Idle)
  /\ UNCHANGED <<server, removed, writerVars, fileVars>>

\* The operations on hosts call force_write under the lock.
InsertHost(c) ==
  /\ At(c, "insertHost")
  /\ ~HostsLocked
  /\ \E h \in HostIds \ Present(rows) :
       Change(h, [owner |-> task[c].user, stamp |-> changes + 1])
  /\ chan' = TRUE
  /\ Become(c, Idle)
  /\ UNCHANGED <<server, removed, writerVars, fileVars>>

ModifyHost(c, h) ==
  /\ At(c, "idle")
  /\ h \in Hosts(rows)
  /\ Change(h, Stamped(rows[h]))
  /\ chan' = TRUE
  /\ UNCHANGED <<server, removed, writerVars, fileVars, task>>

RemoveHost(c, h) ==
  /\ At(c, "idle")
  /\ ~HostsLocked
  /\ h \in Hosts(rows)
  /\ Change(h, None)
  /\ chan' = TRUE
  /\ UNCHANGED <<server, removed, writerVars, fileVars, task>>

\* What is left of a first login with these hosts to assign.
Assigning(c, hosts) ==
  IF hosts = {} THEN Idle ELSE [task[c] EXCEPT !.pc = "assign", !.todo = hosts]

\* The first login lists the hosts its user can see: those of nobody and its own.
ListHosts(c) ==
  /\ At(c, "list")
  /\ Become(c, Assigning(c, {h \in Hosts(rows) : rows[h].owner \in {Nobody, task[c].user}}))
  /\ UNCHANGED <<server, tableVars, chan, writerVars, fileVars>>

\* ... and makes them its user's, one by one.
AssignHost(c, h) ==
  /\ At(c, "assign")
  /\ h \in task[c].todo \cap Hosts(rows)
  /\ Change(h, [owner |-> task[c].user, stamp |-> changes + 1])
  /\ chan' = TRUE
  /\ Become(c, Assigning(c, task[c].todo \ {h}))
  /\ UNCHANGED <<server, removed, writerVars, fileVars>>

\* A host removed since it was listed is passed over with a warning.
SkipHost(c, h) ==
  /\ At(c, "assign")
  /\ h \in task[c].todo \ Hosts(rows)
  /\ Become(c, Assigning(c, task[c].todo \ {h}))
  /\ UNCHANGED <<server, tableVars, chan, writerVars, fileVars>>

ClientNext(c) ==
  \/ Signal(c) \/ CheckName(c) \/ InsertUser(c) \/ InsertHost(c) \/ ListHosts(c)
  \/ \E n \in Names : BeginAddUser(c, n) \/ BeginFirstLogin(c, n)
  \/ \E u \in UserIds : ModifyUser(c, u) \/ RemoveUser(c, u) \/ BeginAddHost(c, u)
  \/ \E h \in HostIds :
       ModifyHost(c, h) \/ RemoveHost(c, h) \/ AssignHost(c, h) \/ SkipHost(c, h)

-----------------------------------------------------------------------------
(* file_writer and store *)

WriterAt(pc) == server = "up" /\ writer = pc

Recv ==
  /\ WriterAt("recv")
  /\ chan
  /\ chan' = FALSE
  /\ writer' = "lockUsers"
  /\ UNCHANGED <<server, tableVars, unread, snap, fileVars, task>>

LockUsers ==
  /\ WriterAt("lockUsers")
  /\ writer' = "lockHosts"
  /\ unread' = Users(rows)
  /\ UNCHANGED <<server, tableVars, chan, snap, fileVars, task>>

LockHosts ==
  /\ WriterAt("lockHosts")
  /\ writer' = "copy"
  /\ unread' = unread \cup Hosts(rows)
  /\ UNCHANGED <<server, tableVars, chan, snap, fileVars, task>>

\* The users come first.
CopyRow(i) ==
  /\ WriterAt("copy")
  /\ i \in unread
  /\ i \in HostIds => unread \cap UserIds = {}
  /\ snap' = [snap EXCEPT ![i] = rows[i]]
  /\ unread' = unread \ {i}
  /\ UNCHANGED <<server, tableVars, chan, writer, fileVars, task>>

Unlock ==
  /\ WriterAt("copy")
  /\ unread = {}
  /\ writer' = "truncate"
  /\ UNCHANGED <<server, tableVars, chan, unread, snap, fileVars, task>>

\* fs::write opens the file, which empties it, and then writes it.
TruncateFile ==
  /\ WriterAt("truncate")
  /\ writer' = "fill"
  /\ torn' = TRUE
  /\ UNCHANGED <<server, tableVars, chan, unread, snap, disk, failed, task>>

\* A slip of Fill: the channel is drained once the file is written.
FillAndDrain ==
  /\ WriterAt("fill")
  /\ writer' = "recv"
  /\ disk' = snap
  /\ torn' = FALSE
  /\ failed' = FALSE
  /\ chan' = FALSE
  /\ snap' = Empty
  /\ UNCHANGED <<server, tableVars, unread, task>>

FillFile ==
  /\ WriterAt("fill")
  /\ writer' = "recv"
  /\ disk' = snap
  /\ torn' = FALSE
  /\ failed' = FALSE
  /\ snap' = Empty
  /\ UNCHANGED <<server, tableVars, chan, unread, task>>

\* Either half can fail. The error is logged, and nobody signals again.
WriteFails ==
  /\ WriterAt("truncate") \/ WriterAt("fill")
  /\ writer' = "recv"
  /\ failed' = TRUE
  /\ snap' = Empty
  /\ UNCHANGED <<server, tableVars, chan, unread, disk, torn, task>>

WriterSteps ==
  \/ Recv \/ LockUsers \/ LockHosts \/ Unlock \/ TruncateFile \/ FillFile
  \/ \E i \in RowIds : CopyRow(i)

-----------------------------------------------------------------------------
(* The process *)

StorageCrash ==
  /\ server = "up"
  /\ server' = "down"
  /\ chan' = FALSE
  /\ writer' = "recv"
  /\ unread' = {}
  /\ snap' = Empty
  /\ task' = [c \in Clients |-> Idle]
  /\ UNCHANGED <<tableVars, fileVars>>

\* load_internal: a file that is no JSON is an error, and App::new fails.
Restart ==
  /\ server = "down"
  /\ IF torn
       THEN server' = "refused" /\ UNCHANGED rows
       ELSE server' = "up" /\ rows' = disk
  /\ failed' = FALSE
  /\ UNCHANGED <<changes, removed, chan, writerVars, disk, torn, task>>

StorageNext ==
  \/ \E c \in Clients : ClientNext(c)
  \/ WriterSteps
  \/ WriteFails
  \/ StorageCrash
  \/ Restart

\* file_writer is a task of its own, and nothing is awaited between a change
\* and its force_write. Clients may stop asking, the file may fail, the
\* process may die.
StorageFairness == WF_storageVars(WriterSteps) /\ WF_storageVars(\E c \in Clients : Signal(c))

StorageSpec == StorageInit /\ [][StorageNext]_storageVars /\ StorageFairness
-----------------------------------------------------------------------------
(* Correctness *)

Signalled == chan \/ \E c \in Clients : task[c].pc = "signal"

\* The channel holds one message and force_write drops what does not fit; still
\* no change is forgotten: when the writer rests, nothing is signalled and the
\* last write went well, the file is the tables, row for row.
NothingUnsaved ==
  server = "up" /\ writer = "recv" /\ ~Signalled /\ ~failed
    => ~torn /\ disk = rows

\* store copies rows while requests run, and what it writes never existed as a
\* whole at one time. It is consistent all the same: the owner of every host in
\* the file is a user in the file, or one that was removed.
OwnersSaved ==
  \A h \in Hosts(disk) :
    disk[h].owner \in Users(disk) \cup removed \cup {Nobody}

\* What the file holds: nothing less than the tables when the writer rests, and
\* never a host without its owner.
FileInStep == NothingUnsaved /\ OwnersSaved

\* No version of a row stays in memory only, however many others change
\* meanwhile: in the end it is in the file or a newer one is in the table, unless
\* the row is removed, the file fails or the process dies.
Unsaved(i, s) ==
  /\ server = "up" /\ ~failed
  /\ rows[i] # None /\ rows[i].stamp = s
  /\ disk[i] = None \/ disk[i].stamp < s

EventuallySaved == \A i \in RowIds, s \in 1..MaxChanges : []<>~Unsaved(i, s)
=============================================================================

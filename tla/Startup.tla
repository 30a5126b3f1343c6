------------------------------ MODULE Startup ------------------------------
(***************************************************************************)
(* main (keyro-core/main.rs) from SingleInstanceGuard::acquire to the      *)
(* listening socket, by any number of processes on one data directory,     *)
(* each of which may fail, or be killed, between any two steps.            *)
(*                                                                         *)
(* The lock is of the file that is open, not of its path, so files have an *)
(* identity (Inode); it ends with the process.  What a killed process      *)
(* leaves is its pid in the lock file, a part of the schema and a socket   *)
(* nobody listens on.                                                      *)
(*                                                                         *)
(* execute_batch runs the statements of the migration one by one, each of  *)
(* them durable by itself; `schema` holds those that have ever run.  Of    *)
(* the profiles only the active rows count here.                           *)
(***************************************************************************)
EXTENDS Naturals

CONSTANTS
  Process, NoProcess,
  Inode, NoInode,           \* lock files
  NoSocket, StaleSocket,    \* the socket's path, besides the process listening on it
  MaxFailures, MaxKills     \* bounds

ASSUME StartupAssumption ==
  /\ NoProcess \notin Process /\ NoInode \notin Inode
  /\ NoSocket \notin Process /\ StaleSocket \notin Process /\ NoSocket # StaleSocket
ASSUME StartupBounds == MaxFailures \in Nat /\ MaxKills \in Nat

VARIABLES
  pc,        \* where each process is
  handle,    \* the lock file each process has open
  path,      \* the file keyro-core.lock names
  holder,    \* who holds the exclusive lock of a file
  pid,       \* the pid written in it
  step,      \* the migration's statements each process has run
  schema,    \* the migration's statements whose objects are in the database
  active,    \* active profiles
  socket,    \* what keyro-core-dev.sock is
  failures, kills

vars == <<pc, handle, path, holder, pid, step, schema, active, socket, failures, kills>>
files == <<path, handle, holder, pid>>
database == <<step, schema, active>>
counters == <<failures, kills>>

\* After the lock is taken, in order.
Guarded == {"locked", "truncated", "guarded", "migrating", "loading", "inserting", "checking",
            "initialized", "removing", "binding", "serving"}
Ended == {"stopped", "killed"}

\* CREATE TABLE schema_migrations, profiles, CREATE UNIQUE INDEX, CREATE TABLE
\* assignments, INSERT OR IGNORE INTO schema_migrations.
Statements == 5
UniqueIndex == 3

\* Mutation: the version is inserted without OR IGNORE.
RepeatableButVersion == 1 .. Statements - 1

\* Statements that succeed when their object is there: each CREATE says IF NOT EXISTS,
\* the INSERT says OR IGNORE.
Repeatable == 1 .. Statements

TypeOK ==
  /\ pc \in [Process -> Guarded \cup Ended \cup {"opened", "refused", "failed", "aborted"}]
  /\ handle \in [Process -> Inode \cup {NoInode}]
  /\ path \in Inode \cup {NoInode}
  /\ holder \in [Inode -> Process \cup {NoProcess}]
  /\ pid \in [Inode -> Process \cup {NoProcess}]
  /\ step \in [Process -> 0 .. Statements] /\ schema \subseteq 1 .. Statements
  /\ active \in {0, 1}
  /\ socket \in Process \cup {NoSocket, StaleSocket}
  /\ failures \in 0 .. MaxFailures /\ kills \in 0 .. MaxKills
  /\ \A p \in Process : handle[p] = NoInode <=> pc[p] \in Ended

Init ==
  /\ pc = [p \in Process |-> "stopped"]
  /\ handle = [p \in Process |-> NoInode]
  /\ path = NoInode
  /\ holder = [i \in Inode |-> NoProcess] /\ pid = [i \in Inode |-> NoProcess]
  /\ step = [p \in Process |-> 0] /\ schema = {} /\ active = 0
  /\ socket = NoSocket
  /\ failures = 0 /\ kills = 0

Goto(p, place) == pc' = [pc EXCEPT ![p] = place]
-----------------------------------------------------------------------------
(***************************************************************************)
(* SingleInstanceGuard.                                                    *)
(***************************************************************************)
\* Mutation: truncate(true).
OpenLockTruncates(p) ==
  /\ pc[p] \in Ended
  /\ path' \in IF path = NoInode THEN {i \in Inode : \A q \in Process : handle[q] # i} ELSE {path}
  /\ handle' = [handle EXCEPT ![p] = path']
  /\ pid' = [pid EXCEPT ![path'] = NoProcess]
  /\ Goto(p, "opened")
  /\ UNCHANGED <<holder, database, socket, counters>>

\* acquire opens the lock file, and creates it if there is none.
OpenLock(p) ==
  /\ pc[p] \in Ended
  /\ path' \in IF path = NoInode THEN {i \in Inode : \A q \in Process : handle[q] # i} ELSE {path}
  /\ handle' = [handle EXCEPT ![p] = path']
  /\ Goto(p, "opened")
  /\ UNCHANGED <<holder, pid, database, socket, counters>>

\* Mutation: a lock that others may hold too.
TryLockShared(p) ==
  /\ pc[p] = "opened"
  /\ holder' = [holder EXCEPT ![handle[p]] = p]
  /\ Goto(p, "locked")
  /\ UNCHANGED <<path, handle, pid, database, socket, counters>>

\* Mutation: a pid in the file counts as a lock.
TryLockByPid(p) ==
  /\ pc[p] = "opened"
  /\ IF holder[handle[p]] = NoProcess /\ pid[handle[p]] = NoProcess
     THEN holder' = [holder EXCEPT ![handle[p]] = p] /\ Goto(p, "locked")
     ELSE Goto(p, "refused") /\ UNCHANGED holder
  /\ UNCHANGED <<path, handle, pid, database, socket, counters>>

\* try_lock_exclusive: "another Keyro Core instance is already running".
TryLock(p) ==
  /\ pc[p] = "opened"
  /\ IF holder[handle[p]] = NoProcess
     THEN holder' = [holder EXCEPT ![handle[p]] = p] /\ Goto(p, "locked")
     ELSE Goto(p, "refused") /\ UNCHANGED holder
  /\ UNCHANGED <<path, handle, pid, database, socket, counters>>

Truncate(p) ==
  /\ pc[p] = "locked"
  /\ pid' = [pid EXCEPT ![handle[p]] = NoProcess]
  /\ Goto(p, "truncated")
  /\ UNCHANGED <<path, handle, holder, database, socket, counters>>

WritePid(p) ==
  /\ pc[p] = "truncated"
  /\ pid' = [pid EXCEPT ![handle[p]] = p]
  /\ Goto(p, "guarded")
  /\ UNCHANGED <<path, handle, holder, database, socket, counters>>

\* Mutation: drop also removes the lock file.
ReleaseRemoves(p) ==
  /\ handle' = [handle EXCEPT ![p] = NoInode]
  /\ holder' = [i \in Inode |-> IF holder[i] = p THEN NoProcess ELSE holder[i]]
  /\ path' = IF \E i \in Inode : holder[i] = p THEN NoInode ELSE path

\* Mutation: drop unlocks the file, but it stays open.
ReleaseLeaks(p) ==
  /\ handle' = handle
  /\ holder' = [i \in Inode |-> IF holder[i] = p THEN NoProcess ELSE holder[i]]
  /\ path' = path

\* Drop, or the kernel when the process is gone: the lock ends, the file stays.
Release(p) ==
  /\ handle' = [handle EXCEPT ![p] = NoInode]
  /\ holder' = [i \in Inode |-> IF holder[i] = p THEN NoProcess ELSE holder[i]]
  /\ path' = path
-----------------------------------------------------------------------------
(***************************************************************************)
(* SqliteProfileRepository::open and CoreService::initialize.              *)
(***************************************************************************)
\* init_logging, and the connection of SqliteProfileRepository::open.
OpenDatabase(p) ==
  /\ pc[p] = "guarded"
  /\ step' = [step EXCEPT ![p] = 0]
  /\ Goto(p, "migrating")
  /\ UNCHANGED <<files, schema, active, socket, counters>>

\* The next statement of migrate.  One whose object is there has no effect if it may
\* be repeated; if not, it fails and execute_batch stops.
Migrate(p) ==
  LET next == step[p] + 1 IN
  /\ pc[p] = "migrating"
  /\ IF next \in schema \ Repeatable
     THEN Goto(p, "failed") /\ UNCHANGED <<step, schema>>
     ELSE /\ step' = [step EXCEPT ![p] = next]
          /\ schema' = schema \cup {next}
          /\ Goto(p, IF next = Statements THEN "loading" ELSE "migrating")
  /\ UNCHANGED <<files, active, socket, counters>>

\* ensure_default_profile: an active profile is there, or one is inserted.
LoadActive(p) ==
  /\ pc[p] = "loading"
  /\ Goto(p, IF active > 0 THEN "checking" ELSE "inserting")
  /\ UNCHANGED <<files, database, socket, counters>>

\* A second active row violates only_one_active_profile.
InsertDefault(p) ==
  /\ pc[p] = "inserting"
  /\ IF active > 0 /\ UniqueIndex \in schema
     THEN Goto(p, "failed") /\ UNCHANGED active
     ELSE Goto(p, "checking") /\ active' = active + 1
  /\ UNCHANGED <<files, step, schema, socket, counters>>

\* initialize: ensure_exactly_one_active.
CheckActive(p) ==
  /\ pc[p] = "checking"
  /\ Goto(p, IF active = 1 THEN "initialized" ELSE "failed")
  /\ UNCHANGED <<files, database, socket, counters>>
-----------------------------------------------------------------------------
(***************************************************************************)
(* run_dev_ipc.                                                            *)
(***************************************************************************)
\* Mutation: a socket that is there is left.
FindSocketLeft(p) ==
  /\ pc[p] = "initialized"
  /\ Goto(p, "binding")
  /\ UNCHANGED <<files, database, socket, counters>>

\* socket_path.exists(), whoever bound it.
FindSocket(p) ==
  /\ pc[p] = "initialized"
  /\ Goto(p, IF socket # NoSocket THEN "removing" ELSE "binding")
  /\ UNCHANGED <<files, database, socket, counters>>

RemoveSocket(p) ==
  /\ pc[p] = "removing"
  /\ Goto(p, IF socket # NoSocket THEN "binding" ELSE "failed")
  /\ socket' = NoSocket
  /\ UNCHANGED <<files, database, counters>>

\* UnixListener::bind fails if the path exists; a process that has bound serves.
Bind(p) ==
  /\ pc[p] = "binding"
  /\ IF socket = NoSocket THEN Goto(p, "serving") /\ socket' = p
     ELSE Goto(p, "failed") /\ UNCHANGED socket
  /\ UNCHANGED <<files, database, counters>>
-----------------------------------------------------------------------------
(***************************************************************************)
(* The ends of a process.                                                  *)
(***************************************************************************)
Running(p) == pc[p] \notin Ended
Starting(p) == pc[p] \in (Guarded \ {"serving"}) \cup {"opened"}

\* An operation fails for a reason of its own and `?` returns from main.
Fail(p) ==
  /\ Starting(p) /\ failures < MaxFailures
  /\ failures' = failures + 1
  /\ Goto(p, "aborted")
  /\ UNCHANGED <<files, database, socket, kills>>

\* main returns and the guard is dropped.
Exit(p) ==
  /\ pc[p] \in {"refused", "failed", "aborted"}
  /\ Release(p)
  /\ Goto(p, "stopped")
  /\ UNCHANGED <<pid, database, socket, counters>>

\* A serving Core only ends this way (Ctrl+C).
Kill(p) ==
  /\ Running(p) /\ kills < MaxKills
  /\ kills' = kills + 1
  /\ Release(p)
  /\ Goto(p, "killed")
  /\ socket' = IF socket = p THEN StaleSocket ELSE socket
  /\ UNCHANGED <<pid, database, failures>>

Continue(p) ==
  \/ TryLock(p) \/ Truncate(p) \/ WritePid(p)
  \/ OpenDatabase(p) \/ Migrate(p) \/ LoadActive(p) \/ InsertDefault(p) \/ CheckActive(p)
  \/ FindSocket(p) \/ RemoveSocket(p) \/ Bind(p)
  \/ Exit(p)

Next == \E p \in Process : OpenLock(p) \/ Continue(p) \/ Fail(p) \/ Kill(p)

Spec == Init /\ [][Next]_vars

\* A process that has been started runs.  Nobody has to start one.
FairSpec == Spec /\ \A p \in Process : WF_vars(Continue(p))
-----------------------------------------------------------------------------
(***************************************************************************)
(* Properties.                                                             *)
(***************************************************************************)
\* At most one process is past the lock, whatever earlier ones left behind and in
\* whatever order others start and end.
OneCore == \A p, q \in Process : pc[p] \in Guarded /\ pc[q] \in Guarded => p = q

\* The lock file names the Core that holds it: neither a start that is refused
\* nor one that ended before overwrites the owner's pid.
LockNamesOwner ==
  \A p \in Process : pc[p] \in Guarded \ {"locked", "truncated"} => pid[handle[p]] = p

\* The stale socket another process removes is never that of a serving Core.
LiveSocketStays == \A p \in Process : pc[p] = "serving" => socket = p

\* What was left half-way by a process that failed or was killed never makes a
\* later start fail: a statement of the migration that ran before may run again, no
\* second default profile is inserted, and the path is free when it is bound.
NoConflict == \A p \in Process : pc[p] # "failed"

\* A lock file that is there, with the pid of a process that died, does not keep
\* Core from starting: a process that starts alone comes to serve, unless another
\* is started, an operation fails, or it is killed.
AloneItServes ==
  \A p \in Process :
    (pc[p] = "opened" /\ \A q \in Process \ {p} : ~ Running(q))
      ~> (pc[p] \in {"serving", "aborted", "killed"} \/ \E q \in Process \ {p} : Running(q))

\* The strengthening: the lock file never changes once it is created, everyone has
\* that one open, and what the process past the lock has seen is still so.
OneFile == \A p \in Process : handle[p] \in {NoInode, path}
LockIsHeld ==
  /\ \A p \in Process : pc[p] \in Guarded => holder[handle[p]] = p
  /\ \A i \in Inode : holder[i] # NoProcess => handle[holder[i]] = i
StillSo ==
  \A p \in Process :
    /\ pc[p] = "migrating" => step[p] < Statements
    /\ pc[p] = "inserting" => active = 0
    /\ pc[p] = "checking" => active = 1
    /\ pc[p] = "removing" => socket # NoSocket
    /\ pc[p] = "binding" => socket = NoSocket
IndInv == TypeOK /\ OneFile /\ LockIsHeld /\ LockNamesOwner /\ LiveSocketStays /\ StillSo /\ NoConflict
=============================================================================

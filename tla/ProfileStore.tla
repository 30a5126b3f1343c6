---------------------------- MODULE ProfileStore ----------------------------
(***************************************************************************)
(* SqliteProfileRepository (core-storage-sqlite): the profile repository   *)
(* that every IPC worker of Core shares, one SQL statement per step.       *)
(*                                                                         *)
(* There is one SQLite connection behind Arc<Mutex<..>>.  conn is what     *)
(* that connection sees, its open transaction included; disk is what is    *)
(* committed and therefore survives a crash.  Outside a transaction every  *)
(* statement commits by itself.  A Transaction that is dropped without     *)
(* commit() rolls back, which is what every early return inside one does.  *)
(*                                                                         *)
(* Startup is CoreService::initialize, which main() runs before it accepts *)
(* connections: ensure_default_profile, then the check that exactly one    *)
(* profile is active.  Any startup error ends the process, as Crash does.  *)
(***************************************************************************)
EXTENDS ProfileDomain

CONSTANTS
  Worker,    \* the threads that call the repository
  NoWorker   \* the mutex is free

ASSUME WorkerAssumption == NoWorker \notin Worker

VARIABLES
  disk,      \* the committed database
  conn,      \* the database as the connection sees it
  mutex,     \* the worker that holds the connection's mutex
  phase,     \* how far the process has started
  pc,        \* where each worker is in its call
  call,      \* the arguments of each worker's call
  position,  \* next action_position save_assignment inserts
  view,      \* the rows each worker's call has read, as its reply carries them
  status     \* how the worker's last call returned

vars == <<disk, conn, mutex, phase, pc, call, position, view, status>>
workerVars == <<pc, call, position, view, status>>

(***************************************************************************)
(* The schema.  active is the set of ids whose row has is_active = 1; the  *)
(* rows of one (profile, control) in the order of action_position form a   *)
(* sequence, so its length is the first free position.                     *)
(***************************************************************************)
Database ==
  [profiles : SUBSET ProfileId,
   name     : [ProfileId -> Name \cup {NoName}],
   active   : SUBSET ProfileId,
   actions  : [Slot -> Seq(Action)]]

EmptyDatabase ==
  [profiles |-> {},
   name     |-> [p \in ProfileId |-> NoName],
   active   |-> {},
   actions  |-> [s \in Slot |-> <<>>]]

\* A row with is_active = 0.
InsertProfile(db, p, n) ==
  [db EXCEPT !.profiles = @ \cup {p},
             !.name     = [@ EXCEPT ![p] = n]]

UpdateName(db, p, n) == [db EXCEPT !.name = [@ EXCEPT ![p] = n]]

SetActive(db, ps) == [db EXCEPT !.active = ps]

\* A row with is_active = 1.
InsertActive(db, p, n) == SetActive(InsertProfile(db, p, n), db.active \cup {p})

SetActions(db, s, acts) == [db EXCEPT !.actions = [@ EXCEPT ![s] = acts]]

\* ensure_exactly_one_active over the rows of a listing.
ExactlyOneActive(db) == \E p \in db.profiles : db.active = {p}

\* What SELECT id, name, is_active FROM profiles returns, and what the rows of
\* assignments add to it.
ProfileRows(db) == [EmptyDatabase EXCEPT !.profiles = db.profiles,
                                         !.name = db.name, !.active = db.active]
WithAssignmentRows(rows, db) == [rows EXCEPT !.actions = db.actions]

(***************************************************************************)
(* The calls of trait ProfileRepository.                                   *)
(***************************************************************************)
NoCall == [op |-> "none", profile |-> NoProfile, name |-> NoName,
           slot |-> <<>>, actions |-> <<>>]

ProfileCalls ==
  [op : {"create", "rename"}, profile : ProfileId, name : Name,
   slot : {<<>>}, actions : {<<>>}]
ActiveCalls ==
  [op : {"set_active"}, profile : ProfileId, name : {NoName},
   slot : {<<>>}, actions : {<<>>}]
SaveCalls ==
  {[op |-> "save", profile |-> s[1], name |-> NoName, slot |-> s, actions |-> acts] :
     s \in Slot, acts \in ActionList}
SlotCalls ==
  {[op |-> o, profile |-> s[1], name |-> NoName, slot |-> s, actions |-> <<>>] :
     o \in {"clear", "find"}, s \in Slot}
ReadCalls ==
  {[NoCall EXCEPT !.op = o] : o \in {"list", "snapshot"}}
Call == ProfileCalls \cup ActiveCalls \cup SaveCalls \cup SlotCalls \cup ReadCalls

Locked == {"deactivate", "activate", "commit", "delete", "insert", "assignments"}
PC == Locked \cup {"idle", "called", "update", "done"}
Status == {"none", "ok", "not_found", "blank_name", "no_active", "storage_error"}

TypeOK ==
  /\ disk \in Database /\ conn \in Database
  /\ mutex \in Worker \cup {NoWorker}
  /\ phase \in {"down", "ensure", "check", "serving"}
  /\ pc \in [Worker -> PC]
  /\ call \in [Worker -> Call \cup {NoCall}]
  /\ position \in [Worker -> Nat]
  /\ \A w \in Worker : position[w] <= Len(call[w].actions)
  /\ view \in [Worker -> Database]
  /\ status \in [Worker -> Status]

Init ==
  /\ disk = EmptyDatabase /\ conn = EmptyDatabase
  /\ mutex = NoWorker
  /\ phase = "down"
  /\ pc = [w \in Worker |-> "idle"]
  /\ call = [w \in Worker |-> NoCall]
  /\ position = [w \in Worker |-> 0]
  /\ view = [w \in Worker |-> EmptyDatabase]
  /\ status = [w \in Worker |-> "none"]
-----------------------------------------------------------------------------
(***************************************************************************)
(* Startup, crash and restart.                                             *)
(***************************************************************************)
\* open: connect and migrate (CREATE ... IF NOT EXISTS leaves the rows alone).
Open ==
  /\ phase = "down"
  /\ phase' = "ensure"
  /\ UNCHANGED <<disk, conn, mutex, workerVars>>

EnsureDefaultProfile ==
  /\ phase = "ensure"
  /\ \/ /\ conn.active # {}
        /\ UNCHANGED conn
     \/ /\ conn.active = {}
        /\ \E p \in ProfileId \ conn.profiles :
             conn' = InsertActive(conn, p, DefaultName)
  /\ disk' = conn'
  /\ phase' = "check"
  /\ UNCHANGED <<mutex, workerVars>>

CheckActive ==
  /\ phase = "check"
  /\ phase' = IF ExactlyOneActive(conn) THEN "serving" ELSE "down"
  /\ UNCHANGED <<disk, conn, mutex, workerVars>>

\* The process ends; SQLite rolls the open transaction back on the next open.
Crash ==
  /\ phase # "down"
  /\ phase' = "down"
  /\ conn' = disk
  /\ mutex' = NoWorker
  /\ pc' = [w \in Worker |-> "idle"]
  /\ call' = [w \in Worker |-> NoCall]
  /\ position' = [w \in Worker |-> 0]
  /\ view' = [w \in Worker |-> EmptyDatabase]
  /\ status' = [w \in Worker |-> "none"]
  /\ UNCHANGED disk
-----------------------------------------------------------------------------
(***************************************************************************)
(* How a call begins, fails and ends.                                      *)
(***************************************************************************)
\* Profile::new draws a UUID no row and no other call has.
Fresh(p) ==
  /\ p \notin disk.profiles
  /\ \A w \in Worker : call[w].op = "create" => call[w].profile # p

Invoke(w, c) ==
  /\ phase = "serving"
  /\ pc[w] = "idle"
  /\ c.op = "create" => Fresh(c.profile)
  /\ call' = [call EXCEPT ![w] = c]
  /\ pc' = [pc EXCEPT ![w] = "called"]
  /\ UNCHANGED <<disk, conn, mutex, phase, position, view, status>>

\* Mutation: the position survives into the next call.
ReturnKeepsPosition(w) ==
  /\ pc[w] = "done"
  /\ pc' = [pc EXCEPT ![w] = "idle"]
  /\ call' = [call EXCEPT ![w] = NoCall]
  /\ view' = [view EXCEPT ![w] = EmptyDatabase]
  /\ status' = [status EXCEPT ![w] = "none"]
  /\ UNCHANGED <<disk, conn, mutex, phase, position>>

\* The caller takes the reply.
Return(w) ==
  /\ pc[w] = "done"
  /\ pc' = [pc EXCEPT ![w] = "idle"]
  /\ call' = [call EXCEPT ![w] = NoCall]
  /\ position' = [position EXCEPT ![w] = 0]
  /\ view' = [view EXCEPT ![w] = EmptyDatabase]
  /\ status' = [status EXCEPT ![w] = "none"]
  /\ UNCHANGED <<disk, conn, mutex, phase>>

\* The call's first statement: the worker takes the mutex.
Enters(w, op) ==
  /\ pc[w] = "called"
  /\ call[w].op = op
  /\ mutex = NoWorker

\* The worker keeps the mutex and goes on to the next statement.
Continue(w, next) ==
  /\ pc' = [pc EXCEPT ![w] = next]
  /\ mutex' = w
  /\ UNCHANGED <<phase, call, status>>

\* Mutation: the guard outlives the call.
ReplyKeepsMutex(w, result) ==
  /\ pc' = [pc EXCEPT ![w] = "done"]
  /\ status' = [status EXCEPT ![w] = result]
  /\ UNCHANGED <<mutex, phase, call>>

\* The worker drops the mutex guard and its call has this result.
Reply(w, result) ==
  /\ pc' = [pc EXCEPT ![w] = "done"]
  /\ status' = [status EXCEPT ![w] = result]
  /\ mutex' = NoWorker
  /\ UNCHANGED <<phase, call>>

\* Mutation: BEGIN without a Transaction value, so nobody rolls back.
FailWithoutRollback(w, error) ==
  /\ Reply(w, error)
  /\ UNCHANGED <<disk, conn, position, view>>

\* Early return or `?`: the transaction, if any, is dropped and rolls back.
Fail(w, error) ==
  /\ Reply(w, error)
  /\ conn' = disk
  /\ UNCHANGED <<disk, position, view>>

\* create_profile validates the name before it takes the mutex.
BlankCreate(w) == call[w].op = "create" /\ call[w].name \in BlankName

\* Any statement, COMMIT included, may fail (disk full, I/O error).
StatementFails(w) ==
  /\ \/ pc[w] \in {"called", "update"} /\ mutex = NoWorker /\ ~ BlankCreate(w)
     \/ pc[w] \in Locked /\ mutex = w
  /\ Fail(w, "storage_error")
-----------------------------------------------------------------------------
(***************************************************************************)
(* create_profile: one autocommitted INSERT, after validate_profile_name.  *)
(***************************************************************************)
CreateProfile(w) ==
  LET c == call[w]
      db == InsertProfile(conn, c.profile, c.name) IN
  /\ Enters(w, "create") /\ ~ BlankCreate(w)
  /\ conn' = db /\ disk' = db
  /\ view' = [view EXCEPT ![w] = InsertProfile(@, c.profile, c.name)]
  /\ Reply(w, "ok")
  /\ UNCHANGED position

RejectName(w) ==
  /\ pc[w] = "called" /\ BlankCreate(w)
  /\ pc' = [pc EXCEPT ![w] = "done"]
  /\ status' = [status EXCEPT ![w] = "blank_name"]
  /\ UNCHANGED <<disk, conn, mutex, phase, call, position, view>>

(***************************************************************************)
(* rename_profile: list under one hold of the mutex, UPDATE under another. *)
(* The reply is the listed row with the new name.                          *)
(***************************************************************************)
RenameList(w) ==
  LET p == call[w].profile
      rows == ProfileRows(conn) IN
  /\ Enters(w, "rename")
  /\ IF p \notin rows.profiles THEN Fail(w, "not_found")
     ELSE IF call[w].name \in BlankName THEN Fail(w, "blank_name")
     ELSE /\ view' = [view EXCEPT ![w] = rows]
          /\ pc' = [pc EXCEPT ![w] = "update"]
          /\ UNCHANGED <<disk, conn, mutex, phase, call, position, status>>

RenameUpdate(w) ==
  LET p == call[w].profile
      db == UpdateName(conn, p, call[w].name) IN
  /\ pc[w] = "update" /\ mutex = NoWorker
  /\ IF p \notin conn.profiles THEN Fail(w, "not_found")
     ELSE /\ conn' = db /\ disk' = db
          /\ view' = [view EXCEPT ![w] = UpdateName(@, p, call[w].name)]
          /\ Reply(w, "ok")
          /\ UNCHANGED position

(***************************************************************************)
(* set_active_profile: one transaction of two UPDATEs.                     *)
(***************************************************************************)
SetActiveBegin(w) ==
  /\ Enters(w, "set_active")
  /\ IF call[w].profile \notin conn.profiles THEN Fail(w, "not_found")
     ELSE /\ Continue(w, "deactivate")
          /\ UNCHANGED <<disk, conn, position, view>>

\* Mutation: no transaction around the two UPDATEs.
DeactivateAutocommits(w) ==
  /\ pc[w] = "deactivate"
  /\ conn' = SetActive(conn, {})
  /\ disk' = conn'
  /\ Continue(w, "activate")
  /\ UNCHANGED <<position, view>>

Deactivate(w) ==
  /\ pc[w] = "deactivate"
  /\ IF conn.active = {} THEN Fail(w, "no_active")
     ELSE /\ conn' = SetActive(conn, {})
          /\ Continue(w, "activate")
          /\ UNCHANGED <<disk, position, view>>

\* The partial unique index only_one_active_profile refuses a second active row.
Activate(w) ==
  LET p == call[w].profile IN
  /\ pc[w] = "activate"
  /\ IF p \notin conn.profiles THEN Fail(w, "not_found")
     ELSE IF ~ (conn.active \subseteq {p}) THEN Fail(w, "storage_error")
     ELSE /\ conn' = SetActive(conn, {p})
          /\ Continue(w, "commit")
          /\ UNCHANGED <<disk, position, view>>

\* COMMIT, of set_active_profile and of save_assignment.
Commit(w) ==
  /\ pc[w] = "commit"
  /\ disk' = conn
  /\ Reply(w, "ok")
  /\ UNCHANGED <<conn, position, view>>

(***************************************************************************)
(* save_assignment: one transaction, DELETE and an INSERT per action.      *)
(***************************************************************************)
SaveBegin(w) ==
  /\ Enters(w, "save")
  /\ IF call[w].profile \notin conn.profiles THEN Fail(w, "not_found")
     ELSE /\ Continue(w, "delete")
          /\ UNCHANGED <<disk, conn, position, view>>

\* Mutation: the loop stops one action early.
AfterInsertStopsEarly(w, inserted) ==
  IF inserted + 1 < Len(call[w].actions) THEN "insert" ELSE "commit"

\* After a row the loop goes on while there are actions left.
AfterInsert(w, inserted) ==
  IF inserted < Len(call[w].actions) THEN "insert" ELSE "commit"

DeleteRows(w) ==
  /\ pc[w] = "delete"
  /\ conn' = SetActions(conn, call[w].slot, <<>>)
  /\ Continue(w, AfterInsert(w, 0))
  /\ UNCHANGED <<disk, position, view>>

\* Mutation: the rows are committed one by one.
InsertRowAutocommits(w) ==
  LET s == call[w].slot IN
  /\ pc[w] = "insert"
  /\ conn' = SetActions(conn, s, Append(conn.actions[s], call[w].actions[position[w] + 1]))
  /\ disk' = conn'
  /\ position' = [position EXCEPT ![w] = @ + 1]
  /\ Continue(w, AfterInsert(w, position[w] + 1))
  /\ UNCHANGED view

\* The primary key refuses a position that is taken, the foreign key a profile
\* that does not exist.
InsertRow(w) ==
  LET s == call[w].slot
      rows == conn.actions[s] IN
  /\ pc[w] = "insert"
  /\ IF Len(rows) # position[w] \/ s[1] \notin conn.profiles
     THEN Fail(w, "storage_error")
     ELSE /\ conn' = SetActions(conn, s, Append(rows, call[w].actions[position[w] + 1]))
          /\ position' = [position EXCEPT ![w] = @ + 1]
          /\ Continue(w, AfterInsert(w, position[w] + 1))
          /\ UNCHANGED <<disk, view>>

(***************************************************************************)
(* clear_assignment: an autocommitted DELETE.                              *)
(***************************************************************************)
ClearAssignment(w) ==
  LET s == call[w].slot
      db == SetActions(conn, s, <<>>) IN
  /\ Enters(w, "clear")
  /\ IF call[w].profile \notin conn.profiles THEN Fail(w, "not_found")
     ELSE /\ conn' = db /\ disk' = db
          /\ Reply(w, "ok")
          /\ UNCHANGED <<position, view>>

(***************************************************************************)
(* Reads.  load_snapshot_state runs two SELECTs under one hold of the      *)
(* mutex but outside any transaction.                                      *)
(***************************************************************************)
ListProfiles(w) ==
  /\ Enters(w, "list")
  /\ view' = [view EXCEPT ![w] = ProfileRows(conn)]
  /\ Reply(w, "ok")
  /\ UNCHANGED <<disk, conn, position>>

\* Mutation: each SELECT takes the mutex for itself.
SnapshotUnlocks(w) ==
  /\ Enters(w, "snapshot")
  /\ view' = [view EXCEPT ![w] = ProfileRows(conn)]
  /\ pc' = [pc EXCEPT ![w] = "assignments"]
  /\ UNCHANGED <<disk, conn, mutex, phase, call, position, status>>

SnapshotProfiles(w) ==
  /\ Enters(w, "snapshot")
  /\ view' = [view EXCEPT ![w] = ProfileRows(conn)]
  /\ Continue(w, "assignments")
  /\ UNCHANGED <<disk, conn, position>>

SnapshotAssignments(w) ==
  /\ pc[w] = "assignments"
  /\ view' = [view EXCEPT ![w] = WithAssignmentRows(@, conn)]
  /\ Reply(w, "ok")
  /\ UNCHANGED <<disk, conn, position>>

FindAssignment(w) ==
  LET s == call[w].slot IN
  /\ Enters(w, "find")
  /\ view' = [view EXCEPT ![w] = SetActions(EmptyDatabase, s, conn.actions[s])]
  /\ Reply(w, "ok")
  /\ UNCHANGED <<disk, conn, position>>
-----------------------------------------------------------------------------
\* A worker's next statement.
Step(w) ==
  \/ CreateProfile(w) \/ RejectName(w)
  \/ RenameList(w) \/ RenameUpdate(w)
  \/ SetActiveBegin(w) \/ Deactivate(w) \/ Activate(w) \/ Commit(w)
  \/ SaveBegin(w) \/ DeleteRows(w) \/ InsertRow(w)
  \/ ClearAssignment(w)
  \/ ListProfiles(w) \/ SnapshotProfiles(w) \/ SnapshotAssignments(w)
  \/ FindAssignment(w)

Startup == Open \/ EnsureDefaultProfile \/ CheckActive

Next ==
  \/ Startup
  \/ Crash
  \/ \E w \in Worker :
       \/ \E c \in Call : Invoke(w, c)
       \/ Step(w)
       \/ StatementFails(w)
       \/ Return(w)

Spec == Init /\ [][Next]_vars

\* The operating system runs every thread that can run, so a worker that can
\* take its next statement eventually does.  Nothing is assumed of who gets a
\* free mutex: std::sync::Mutex is not fair.
FairSpec == Spec /\ WF_vars(Startup) /\ \A w \in Worker : WF_vars(Step(w) \/ StatementFails(w))
-----------------------------------------------------------------------------
(***************************************************************************)
(* Properties.                                                             *)
(***************************************************************************)
\* "Exactly one active profile at a time" (README): in every committed state,
\* so after a crash at any statement of set_active_profile too, once the first
\* start has inserted the default profile.
OneActive ==
  /\ disk.active \subseteq disk.profiles
  /\ disk.profiles # {} => ExactlyOneActive(disk)
  /\ phase \in {"check", "serving"} => ExactlyOneActive(disk)

\* Whoever takes the mutex finds no transaction left open by a call that failed
\* half way: the connection shows the committed state.
UnlockedIsCommitted == mutex = NoWorker => conn = disk

\* The whole effect of a call that returns Ok, as one step.
Effect(c, db) ==
  CASE c.op = "create"     -> InsertProfile(db, c.profile, c.name)
    [] c.op = "rename"     -> UpdateName(db, c.profile, c.name)
    [] c.op = "set_active" -> SetActive(db, {c.profile})
    [] c.op = "save"       -> SetActions(db, c.slot, c.actions)
    [] c.op = "clear"      -> SetActions(db, c.slot, <<>>)
    [] OTHER               -> db

\* The call's reply is Ok in this step.
Acknowledges(w) == pc[w] # "done" /\ pc'[w] = "done" /\ status'[w] = "ok"

\* A call that returns Ok has its whole effect in the committed state, exactly
\* when it returns; nothing else a worker does, a failed call included, changes
\* the committed state.
AcknowledgedStep ==
  /\ \A w \in Worker : Acknowledges(w) => disk' = Effect(call[w], disk)
  /\ disk' # disk => phase = "ensure" \/ \E w \in Worker : Acknowledges(w)
AcknowledgedIffApplied == [][AcknowledgedStep]_vars

\* Every listing, snapshot and lookup returns rows of one committed state: no
\* half-done transaction of another worker, no mixture of two states.
CommittedRows(w) ==
  /\ call[w].op = "list" => view'[w] = ProfileRows(disk)
  /\ call[w].op = "snapshot" => view'[w] = disk
  /\ call[w].op = "find" => view'[w].actions[call[w].slot] = disk.actions[call[w].slot]
ReadsAreCommitted == [][\A w \in Worker : Acknowledges(w) => CommittedRows(w)]_vars

\* The strengthening that makes OneActive, UnlockedIsCommitted and
\* AcknowledgedIffApplied inductive: who holds the mutex, which call a worker is
\* in, and how far each open transaction has come.
MutexHeld == \A w \in Worker : mutex = w <=> pc[w] \in Locked

CallInProgress(w) ==
  /\ pc[w] # "idle" => phase = "serving"
  /\ pc[w] \in {"deactivate", "activate"} => call[w].op = "set_active"
  /\ pc[w] \in {"delete", "insert"} => call[w].op = "save"
  /\ pc[w] = "commit" => call[w].op \in {"set_active", "save"}
  /\ pc[w] = "assignments" => call[w].op = "snapshot" /\ view[w] = ProfileRows(disk)
  /\ pc[w] = "update" => call[w].op = "rename" /\ call[w].name \notin BlankName
  /\ pc[w] \in {"idle", "called", "delete"} => position[w] = 0
  /\ pc[w] = "called" => call[w] \in Call

OpenTransaction(w) ==
  LET c == call[w] IN
  /\ pc[w] \in {"deactivate", "delete", "assignments"} => conn = disk
  /\ pc[w] \in Locked \ {"assignments"} => c.profile \in disk.profiles
  /\ pc[w] = "activate" => conn = SetActive(disk, {})
  /\ pc[w] = "insert" => /\ position[w] < Len(c.actions)
                         /\ conn = SetActions(disk, c.slot, SubSeq(c.actions, 1, position[w]))
  /\ pc[w] = "commit" => conn = Effect(c, disk)

IndInv ==
  /\ TypeOK
  /\ MutexHeld
  /\ UnlockedIsCommitted
  /\ \A w \in Worker : CallInProgress(w) /\ OpenTransaction(w)
  /\ OneActive

\* The id of a profile that is being created has no row and is in no other call.
FreshIds ==
  \A w \in Worker : pc[w] = "called" /\ call[w].op = "create" =>
    /\ call[w].profile \notin disk.profiles
    /\ \A v \in Worker \ {w} : call[v].op = "create" => call[v].profile # call[w].profile

\* The row with is_active = 1.
ActiveRow(db) == IF db.active = {} THEN NoProfile ELSE CHOOSE p \in ProfileId : p \in db.active

\* The committed database behaves as the abstract registry: workers, statements,
\* failures and crashes are invisible in it.
Registry == INSTANCE ProfileRegistry WITH
  profiles <- disk.profiles,
  name     <- disk.name,
  active   <- ActiveRow(disk),
  bindings <- disk.actions
ImplementsRegistry == Registry!RegistrySpec

\* No worker leaves with the mutex: while a call waits, some call is answered or
\* the process ends.
CallsMakeProgress ==
  \A w \in Worker : pc[w] = "called" ~> phase = "down" \/ \E v \in Worker : pc[v] = "done"
=============================================================================

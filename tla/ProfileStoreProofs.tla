------------------------- MODULE ProfileStoreProofs -------------------------
(***************************************************************************)
(* Proofs about ProfileStore, for any number of workers, profiles, names,  *)
(* controls and actions.                                                   *)
(***************************************************************************)
EXTENDS ProfileStore, SequenceTheorems, TLAPS

(***************************************************************************)
(* The database operators keep the schema, and each touches one column.    *)
(***************************************************************************)
\* What the fields of a call may hold, by operation.
LEMMA CallType ==
  ASSUME NEW c \in Call \cup {NoCall}
  PROVE  /\ c.op \in {"none", "create", "rename", "set_active", "save", "clear",
                      "find", "list", "snapshot"}
         /\ c.actions \in Seq(Action)
         /\ c.op \in {"create", "rename"} => c.name \in Name
         /\ c.op \in {"create", "rename", "set_active", "save", "clear", "find"}
              => c.profile \in ProfileId
         /\ c.op \in {"save", "clear", "find"} => c.slot \in Slot /\ c.slot[1] = c.profile
         /\ c.op = "save" => c.actions \in ActionList
<1> USE ActionListAssumption
<1>1. CASE c \in ProfileCalls \cup ActiveCalls
  <2>1. c.op \in {"create", "rename", "set_active"}
    BY <1>1 DEF ProfileCalls, ActiveCalls
  <2>2. c.actions = <<>> /\ c.profile \in ProfileId /\ (c.op # "set_active" => c.name \in Name)
    BY <1>1 DEF ProfileCalls, ActiveCalls
  <2> QED
    BY <2>1, <2>2
<1>2. CASE c \in SaveCalls
  <2>1. PICK s \in Slot, acts \in ActionList :
          c = [op |-> "save", profile |-> s[1], name |-> NoName, slot |-> s, actions |-> acts]
    BY <1>2 DEF SaveCalls
  <2> QED
    BY <2>1 DEF Slot
<1>3. CASE c \in SlotCalls
  <2>1. PICK o \in {"clear", "find"}, s \in Slot :
          c = [op |-> o, profile |-> s[1], name |-> NoName, slot |-> s, actions |-> <<>>]
    BY <1>3 DEF SlotCalls
  <2> QED
    BY <2>1 DEF Slot
<1>4. CASE c \in ReadCalls \cup {NoCall}
  <2>1. c.op \in {"none", "list", "snapshot"} /\ c.actions = <<>>
    BY <1>4 DEF ReadCalls, NoCall
  <2> QED
    BY <2>1
<1> QED
  BY <1>1, <1>2, <1>3, <1>4 DEF Call

\* The empty database satisfies the schema.
LEMMA EmptyDatabaseType == EmptyDatabase \in Database
  BY DEF EmptyDatabase, Database

\* INSERT INTO profiles adds one row.
LEMMA InsertProfileType ==
  ASSUME NEW db \in Database, NEW p \in ProfileId, NEW n \in Name
  PROVE  /\ InsertProfile(db, p, n) \in Database
         /\ InsertProfile(db, p, n).profiles = db.profiles \cup {p}
         /\ InsertProfile(db, p, n).name = [db.name EXCEPT ![p] = n]
         /\ InsertProfile(db, p, n).active = db.active
         /\ InsertProfile(db, p, n).actions = db.actions
  BY DEF InsertProfile, Database

\* UPDATE profiles SET name changes names only.
LEMMA UpdateNameType ==
  ASSUME NEW db \in Database, NEW p \in ProfileId, NEW n \in Name
  PROVE  /\ UpdateName(db, p, n) \in Database
         /\ UpdateName(db, p, n).profiles = db.profiles
         /\ UpdateName(db, p, n).name = [db.name EXCEPT ![p] = n]
         /\ UpdateName(db, p, n).active = db.active
         /\ UpdateName(db, p, n).actions = db.actions
  BY DEF UpdateName, Database

\* UPDATE profiles SET is_active changes the active set only.
LEMMA SetActiveType ==
  ASSUME NEW db \in Database, NEW ps \in SUBSET ProfileId
  PROVE  /\ SetActive(db, ps) \in Database
         /\ SetActive(db, ps).profiles = db.profiles
         /\ SetActive(db, ps).name = db.name
         /\ SetActive(db, ps).active = ps
         /\ SetActive(db, ps).actions = db.actions
  BY DEF SetActive, Database

\* The default profile is inserted active.
LEMMA InsertActiveType ==
  ASSUME NEW db \in Database, NEW p \in ProfileId, NEW n \in Name
  PROVE  /\ InsertActive(db, p, n) \in Database
         /\ InsertActive(db, p, n).profiles = db.profiles \cup {p}
         /\ InsertActive(db, p, n).name = [db.name EXCEPT ![p] = n]
         /\ InsertActive(db, p, n).active = db.active \cup {p}
         /\ InsertActive(db, p, n).actions = db.actions
<1>1. db.active \cup {p} \in SUBSET ProfileId
  BY DEF Database
<1> QED
  BY <1>1, InsertProfileType, SetActiveType DEF InsertActive

\* DELETE and INSERT on assignments change one slot only.
LEMMA SetActionsType ==
  ASSUME NEW db \in Database, NEW s \in Slot, NEW acts \in Seq(Action)
  PROVE  /\ SetActions(db, s, acts) \in Database
         /\ SetActions(db, s, acts).profiles = db.profiles
         /\ SetActions(db, s, acts).name = db.name
         /\ SetActions(db, s, acts).active = db.active
         /\ SetActions(db, s, acts).actions = [db.actions EXCEPT ![s] = acts]
  BY DEF SetActions, Database

\* A listing is a database without assignments.
LEMMA ProfileRowsType ==
  ASSUME NEW db \in Database
  PROVE  /\ ProfileRows(db) \in Database
         /\ ProfileRows(db).profiles = db.profiles
         /\ ProfileRows(db).name = db.name
         /\ ProfileRows(db).active = db.active
  BY EmptyDatabaseType DEF ProfileRows, Database

\* The second SELECT of a snapshot adds the assignments of a database.
LEMMA WithAssignmentRowsType ==
  ASSUME NEW rows \in Database, NEW db \in Database
  PROVE  /\ WithAssignmentRows(rows, db) \in Database
         /\ WithAssignmentRows(ProfileRows(db), db) = db
  BY DEF WithAssignmentRows, ProfileRows, EmptyDatabase, Database

\* A later write of the same column or slot overwrites the earlier one.
LEMMA OverwriteActive ==
  ASSUME NEW db \in Database, NEW ps \in SUBSET ProfileId, NEW qs \in SUBSET ProfileId
  PROVE  SetActive(SetActive(db, ps), qs) = SetActive(db, qs)
  BY DEF SetActive, Database

\* The same for the rows of one (profile, control).
LEMMA OverwriteActions ==
  ASSUME NEW db \in Database, NEW s \in Slot, NEW a1 \in Seq(Action), NEW a2 \in Seq(Action)
  PROVE  SetActions(SetActions(db, s, a1), s, a2) = SetActions(db, s, a2)
  BY DEF SetActions, Database

\* A prefix of an action list is an action list.
LEMMA PrefixType ==
  ASSUME NEW acts \in Seq(Action), NEW i \in Nat, i <= Len(acts)
  PROVE  /\ SubSeq(acts, 1, i) \in Seq(Action)
         /\ SubSeq(acts, 1, Len(acts)) = acts
<1>1. \A k \in 1 .. i : acts[k] \in Action
  OBVIOUS
<1> QED
  BY <1>1, SubSeqProperties, SubSeqFull

\* Inserting the rows of an action list one position at a time.
LEMMA NextRow ==
  ASSUME NEW acts \in Seq(Action), NEW i \in Nat, i < Len(acts)
  PROVE  /\ SubSeq(acts, 1, i) \in Seq(Action)
         /\ SubSeq(acts, 1, i + 1) \in Seq(Action)
         /\ Append(SubSeq(acts, 1, i), acts[i + 1]) = SubSeq(acts, 1, i + 1)
<1> DEFINE done == SubSeq(acts, 1, i)
           next == SubSeq(acts, 1, i + 1)
<1>1. \A k \in 1 .. Len(acts) : acts[k] \in Action
  OBVIOUS
<1>2. /\ done \in Seq(Action) /\ Len(done) = i
      /\ \A k \in 1 .. i : done[k] = acts[k]
  BY <1>1, SubSeqProperties
<1>3. /\ next \in Seq(Action) /\ Len(next) = i + 1
      /\ \A k \in 1 .. i + 1 : next[k] = acts[k]
  BY <1>1, SubSeqProperties
<1>4. acts[i + 1] \in Action
  BY <1>1
<1>5. /\ Append(done, acts[i + 1]) \in Seq(Action)
      /\ Len(Append(done, acts[i + 1])) = i + 1
      /\ \A k \in 1 .. i : Append(done, acts[i + 1])[k] = done[k]
      /\ Append(done, acts[i + 1])[i + 1] = acts[i + 1]
  BY <1>2, <1>4, AppendProperties
<1>6. \A k \in 1 .. i + 1 : Append(done, acts[i + 1])[k] = next[k]
  BY <1>2, <1>3, <1>5
<1>7. Append(done, acts[i + 1]) = next
  BY <1>3, <1>5, <1>6, SeqEqual
<1> QED
  BY <1>2, <1>3, <1>7

(***************************************************************************)
(* The initial state satisfies the inductive invariant.                    *)
(***************************************************************************)
\* Init establishes IndInv.
LEMMA InitIndInv == Init => IndInv
<1> SUFFICES ASSUME Init PROVE IndInv
  OBVIOUS
<1> USE DEF Init
<1>1. TypeOK
  BY EmptyDatabaseType DEF TypeOK, PC, Status, NoCall
<1>2. MutexHeld /\ \A w \in Worker : CallInProgress(w) /\ OpenTransaction(w)
  BY WorkerAssumption DEF MutexHeld, CallInProgress, OpenTransaction, Locked
<1>3. UnlockedIsCommitted /\ OneActive
  BY DEF UnlockedIsCommitted, OneActive, EmptyDatabase
<1> QED
  BY <1>1, <1>2, <1>3 DEF IndInv

\* A worker in the middle of a call: the process is up, so one profile is
\* active, and no other worker is inside a critical section.
LEMMA InCall ==
  ASSUME IndInv, NEW w \in Worker, pc[w] # "idle", mutex \in {w, NoWorker}
  PROVE  /\ phase = "serving"
         /\ ExactlyOneActive(disk) /\ disk.active \subseteq disk.profiles
         /\ \A v \in Worker \ {w} : pc[v] \notin Locked
  BY WorkerAssumption DEF IndInv, CallInProgress, MutexHeld, OneActive

\* A step that ends a call keeps IndInv if it leaves a committed state with one
\* active profile and no transaction open.
LEMMA ReplyIndInv ==
  ASSUME IndInv, NEW w \in Worker, NEW result \in Status,
         pc[w] # "idle",
         mutex \in {w, NoWorker},
         Reply(w, result),
         UNCHANGED position,
         conn' = disk', disk' \in Database,
         view' \in [Worker -> Database], \A v \in Worker \ {w} : view'[v] = view[v],
         ExactlyOneActive(disk'), disk'.active \subseteq disk'.profiles
  PROVE  IndInv'
<1> USE InCall DEF IndInv, Reply
<1>1. TypeOK'
  BY DEF TypeOK, PC
<1>2. MutexHeld'
  BY WorkerAssumption DEF MutexHeld, Locked, TypeOK
<1>3. ASSUME NEW v \in Worker PROVE CallInProgress(v)'
  BY <1>3 DEF CallInProgress, TypeOK, Locked
<1>4. ASSUME NEW v \in Worker PROVE OpenTransaction(v)'
  BY <1>4 DEF OpenTransaction, TypeOK, Locked
<1>5. UnlockedIsCommitted' /\ OneActive'
  BY DEF UnlockedIsCommitted, OneActive
<1> QED
  BY <1>1, <1>2, <1>3, <1>4, <1>5

\* A step to the next statement of a call keeps IndInv if it keeps the parts
\* of it that are about this worker.
LEMMA ContinueIndInv ==
  ASSUME IndInv, NEW w \in Worker, NEW next \in Locked,
         pc[w] # "idle",
         mutex \in {w, NoWorker},
         Continue(w, next),
         UNCHANGED disk,
         conn' \in Database,
         position' \in [Worker -> Nat], \A v \in Worker \ {w} : position'[v] = position[v],
         position'[w] <= Len(call[w].actions),
         view' \in [Worker -> Database], \A v \in Worker \ {w} : view'[v] = view[v],
         CallInProgress(w)',
         OpenTransaction(w)'
  PROVE  IndInv'
<1> USE InCall DEF IndInv, Continue
<1>1. TypeOK'
  BY DEF TypeOK, PC
<1>2. MutexHeld' /\ UnlockedIsCommitted'
  BY WorkerAssumption DEF MutexHeld, UnlockedIsCommitted, TypeOK
<1>3. OneActive'
  BY DEF OneActive
<1>4. ASSUME NEW v \in Worker \ {w} PROVE CallInProgress(v)' /\ OpenTransaction(v)'
  BY <1>4 DEF CallInProgress, OpenTransaction, TypeOK, Locked
<1> QED
  BY <1>1, <1>2, <1>3, <1>4

\* A call that fails keeps IndInv: its transaction is rolled back.
LEMMA FailIndInv ==
  ASSUME IndInv, NEW w \in Worker, NEW error \in Status,
         pc[w] # "idle",
         mutex \in {w, NoWorker},
         Fail(w, error)
  PROVE  IndInv'
<1>1. disk \in Database /\ view \in [Worker -> Database]
  BY DEF IndInv, TypeOK
<1> QED
  BY <1>1, InCall, ReplyIndInv DEF Fail

\* Startup keeps IndInv; it inserts a profile only when there is none.
LEMMA StartupIndInv ==
  ASSUME IndInv, Startup \/ Crash
  PROVE  IndInv'
<1> USE DEF IndInv
<1>1. CASE Open \/ CheckActive
  <2> USE <1>1 DEF Open, CheckActive, workerVars
  <2>1. /\ phase # "serving"
        /\ UNCHANGED <<disk, conn, mutex, pc, call, position, view, status>>
    OBVIOUS
  <2>2. \A w \in Worker : pc[w] = "idle"
    BY <2>1 DEF CallInProgress
  <2>3. conn = disk
    BY <2>2 DEF MutexHeld, UnlockedIsCommitted, TypeOK, Locked
  <2>4. TypeOK'
    BY <2>1 DEF TypeOK
  <2>5. MutexHeld' /\ UnlockedIsCommitted' /\ \A w \in Worker : CallInProgress(w)' /\ OpenTransaction(w)'
    BY <2>1, <2>2, <2>3 DEF MutexHeld, UnlockedIsCommitted, CallInProgress, OpenTransaction, Locked
  <2>6. OneActive'
    BY <2>1, <2>3 DEF OneActive
  <2> QED
    BY <2>4, <2>5, <2>6
<1>2. CASE EnsureDefaultProfile
  <2> USE <1>2 DEF EnsureDefaultProfile, workerVars
  <2>1. \A w \in Worker : pc[w] = "idle"
    BY DEF CallInProgress
  <2>2. conn = disk
    BY <2>1 DEF MutexHeld, UnlockedIsCommitted, TypeOK, Locked
  <2>3. conn' \in Database /\ ExactlyOneActive(conn') /\ conn'.active \subseteq conn'.profiles
    <3>1. CASE conn.active # {}
      BY <3>1, <2>2 DEF OneActive, ExactlyOneActive, TypeOK
    <3>2. CASE conn.active = {}
      <4>1. PICK p \in ProfileId \ conn.profiles : conn' = InsertActive(conn, p, DefaultName)
        BY <3>2
      <4>2. conn \in Database /\ DefaultName \in Name /\ p \in ProfileId
        BY NameAssumption DEF TypeOK
      <4>3. /\ InsertActive(conn, p, DefaultName) \in Database
            /\ InsertActive(conn, p, DefaultName).profiles = conn.profiles \cup {p}
            /\ InsertActive(conn, p, DefaultName).active = conn.active \cup {p}
        BY ONLY <4>2, InsertActiveType
      <4>4. conn.active \cup {p} = {p}
        BY <3>2
      <4>5. conn' \in Database /\ conn'.profiles = conn.profiles \cup {p} /\ conn'.active = {p}
        BY <4>1, <4>3, <4>4
      <4> QED
        BY <4>5 DEF ExactlyOneActive
    <3> QED
      BY <3>1, <3>2
  <2>4. TypeOK'
    BY <2>3 DEF TypeOK
  <2>5. MutexHeld' /\ UnlockedIsCommitted' /\ \A w \in Worker : CallInProgress(w)' /\ OpenTransaction(w)'
    BY <2>1 DEF MutexHeld, UnlockedIsCommitted, CallInProgress, OpenTransaction, Locked
  <2>6. OneActive'
    BY <2>3 DEF OneActive
  <2> QED
    BY <2>4, <2>5, <2>6
<1>3. CASE Crash
  <2> USE <1>3 DEF Crash
  <2>1. TypeOK'
    BY EmptyDatabaseType DEF TypeOK, PC, Status, NoCall
  <2>2. MutexHeld' /\ UnlockedIsCommitted' /\ \A w \in Worker : CallInProgress(w)' /\ OpenTransaction(w)'
    BY WorkerAssumption DEF MutexHeld, UnlockedIsCommitted, CallInProgress, OpenTransaction, Locked
  <2>3. OneActive'
    BY DEF OneActive
  <2> QED
    BY <2>1, <2>2, <2>3
<1> QED
  BY <1>1, <1>2, <1>3 DEF Startup

\* Beginning a call and taking its reply keep IndInv.
LEMMA CallBoundaryIndInv ==
  ASSUME IndInv, NEW w \in Worker, Return(w) \/ \E c \in Call : Invoke(w, c)
  PROVE  IndInv'
<1> USE DEF IndInv
<1>1. CASE Return(w)
  <2> USE <1>1 DEF Return
  <2>1. TypeOK'
    BY EmptyDatabaseType DEF TypeOK, PC, Status, NoCall
  <2>2. MutexHeld' /\ UnlockedIsCommitted' /\ \A v \in Worker : OpenTransaction(v)'
    BY DEF MutexHeld, UnlockedIsCommitted, OpenTransaction, Locked, TypeOK
  <2>3. OneActive' /\ \A v \in Worker : CallInProgress(v)'
    BY DEF CallInProgress, OneActive, TypeOK
  <2> QED
    BY <2>1, <2>2, <2>3
<1>2. ASSUME NEW c \in Call, Invoke(w, c) PROVE IndInv'
  <2> USE <1>2 DEF Invoke
  <2>1. position[w] = 0 /\ Len(c.actions) \in Nat
    BY CallType DEF CallInProgress
  <2>2. TypeOK'
    BY <2>1 DEF TypeOK, PC
  <2>3. MutexHeld' /\ UnlockedIsCommitted' /\ \A v \in Worker : OpenTransaction(v)'
    BY DEF MutexHeld, UnlockedIsCommitted, OpenTransaction, Locked, TypeOK
  <2>4. OneActive' /\ \A v \in Worker : CallInProgress(v)'
    BY DEF CallInProgress, OneActive, TypeOK
  <2> QED
    BY <2>2, <2>3, <2>4
<1> QED
  BY <1>1, <1>2

\* Facts about a worker in IndInv that every step below needs.
LEMMA WorkerFacts ==
  ASSUME IndInv, NEW w \in Worker
  PROVE  /\ disk \in Database /\ conn \in Database /\ view \in [Worker -> Database]
         /\ call[w] \in Call \cup {NoCall}
         /\ {"ok", "not_found", "blank_name", "no_active", "storage_error"} \subseteq Status
         /\ mutex = NoWorker => conn = disk
         /\ mutex = w <=> pc[w] \in Locked
         /\ position \in [Worker -> Nat] /\ position[w] <= Len(call[w].actions)
         /\ CallInProgress(w) /\ OpenTransaction(w)
  BY DEF IndInv, TypeOK, Status, UnlockedIsCommitted, MutexHeld

\* create_profile keeps IndInv.
LEMMA CreateProfileIndInv ==
  ASSUME IndInv, NEW w \in Worker, CreateProfile(w)
  PROVE  IndInv'
<1> DEFINE c == call[w]
           db == InsertProfile(disk, c.profile, c.name)
<1>1. pc[w] = "called" /\ c.op = "create" /\ mutex = NoWorker
  BY DEF CreateProfile, Enters
<1>2. c.profile \in ProfileId /\ c.name \in Name /\ disk \in Database /\ view[w] \in Database
  BY <1>1, WorkerFacts, CallType
<1>3. /\ db \in Database /\ db.active = disk.active /\ db.profiles = disk.profiles \cup {c.profile}
      /\ InsertProfile(view[w], c.profile, c.name) \in Database
  <2>1. db \in Database /\ db.active = disk.active
    BY <1>2, InsertProfileType
  <2>2. db.profiles = disk.profiles \cup {c.profile}
    BY <1>2 DEF InsertProfile, Database
  <2>3. InsertProfile(view[w], c.profile, c.name) \in Database
    BY <1>2, InsertProfileType
  <2> QED
    BY <2>1, <2>2, <2>3
<1>4. /\ disk' = db /\ conn' = db
      /\ view' = [view EXCEPT ![w] = InsertProfile(@, c.profile, c.name)]
      /\ Reply(w, "ok") /\ UNCHANGED position
  BY <1>1, WorkerFacts DEF CreateProfile
<1>5. ExactlyOneActive(disk') /\ disk'.active \subseteq disk'.profiles
  BY <1>1, <1>3, <1>4, InCall DEF ExactlyOneActive
<1>6. view' \in [Worker -> Database] /\ \A v \in Worker \ {w} : view'[v] = view[v]
  BY <1>3, <1>4, WorkerFacts
<1> QED
  BY <1>1, <1>3, <1>4, <1>5, <1>6, WorkerFacts, ReplyIndInv

\* A blank name is rejected without the mutex, so another worker may hold it.
LEMMA RejectNameIndInv ==
  ASSUME IndInv, NEW w \in Worker, RejectName(w)
  PROVE  IndInv'
<1> USE DEF IndInv, RejectName
<1>1. TypeOK'
  BY DEF TypeOK, PC, Status
<1>2. MutexHeld' /\ UnlockedIsCommitted' /\ OneActive'
  BY DEF MutexHeld, UnlockedIsCommitted, OneActive, TypeOK, Locked
<1>3. ASSUME NEW v \in Worker PROVE CallInProgress(v)' /\ OpenTransaction(v)'
  BY <1>3 DEF CallInProgress, OpenTransaction, TypeOK, Locked
<1> QED
  BY <1>1, <1>2, <1>3

\* rename_profile keeps IndInv between its two holds of the mutex and after them.
LEMMA RenameIndInv ==
  ASSUME IndInv, NEW w \in Worker, RenameList(w) \/ RenameUpdate(w)
  PROVE  IndInv'
<1> DEFINE c == call[w]
<1>1. pc[w] # "idle" /\ mutex = NoWorker /\ c.op = "rename"
  BY WorkerFacts DEF RenameList, RenameUpdate, Enters, CallInProgress
<1>2. c.profile \in ProfileId /\ c.name \in Name
  BY <1>1, WorkerFacts, CallType
<1>3. CASE Fail(w, "not_found") \/ Fail(w, "blank_name")
  BY <1>1, <1>3, WorkerFacts, FailIndInv
<1>4. CASE RenameList(w) /\ ~ (Fail(w, "not_found") \/ Fail(w, "blank_name"))
  <2>1. /\ view' = [view EXCEPT ![w] = ProfileRows(conn)]
        /\ pc' = [pc EXCEPT ![w] = "update"]
        /\ c.name \notin BlankName
        /\ UNCHANGED <<disk, conn, mutex, phase, call, position, status>>
    BY <1>4 DEF RenameList
  <2>2. ProfileRows(conn) \in Database
    BY WorkerFacts, ProfileRowsType
  <2> USE DEF IndInv
  <2>3. TypeOK'
    BY <2>1, <2>2 DEF TypeOK, PC
  <2>4. MutexHeld' /\ UnlockedIsCommitted' /\ OneActive'
    BY <1>1, <2>1, WorkerAssumption DEF MutexHeld, UnlockedIsCommitted, OneActive, TypeOK, Locked
  <2>5. ASSUME NEW v \in Worker PROVE CallInProgress(v)' /\ OpenTransaction(v)'
    BY <1>1, <2>1, <2>5 DEF CallInProgress, OpenTransaction, TypeOK, Locked
  <2> QED
    BY <2>3, <2>4, <2>5
<1>5. CASE RenameUpdate(w) /\ ~ Fail(w, "not_found")
  <2> DEFINE db == UpdateName(disk, c.profile, c.name)
  <2>1. /\ disk' = db /\ conn' = db
        /\ view' = [view EXCEPT ![w] = UpdateName(@, c.profile, c.name)]
        /\ Reply(w, "ok") /\ UNCHANGED position
    BY <1>1, <1>5, WorkerFacts DEF RenameUpdate
  <2>2. /\ db \in Database /\ UpdateName(view[w], c.profile, c.name) \in Database
        /\ db.active = disk.active /\ db.profiles = disk.profiles
    BY <1>2, WorkerFacts, UpdateNameType
  <2>3. ExactlyOneActive(disk') /\ disk'.active \subseteq disk'.profiles
    BY <1>1, <2>1, <2>2, InCall DEF ExactlyOneActive
  <2>4. view' \in [Worker -> Database] /\ \A v \in Worker \ {w} : view'[v] = view[v]
    BY <2>1, <2>2, WorkerFacts
  <2> QED
    BY <1>1, <2>1, <2>2, <2>3, <2>4, WorkerFacts, ReplyIndInv
<1> QED
  BY <1>3, <1>4, <1>5

\* Reads keep IndInv.
LEMMA ReadIndInv ==
  ASSUME IndInv, NEW w \in Worker,
         ListProfiles(w) \/ SnapshotAssignments(w) \/ FindAssignment(w)
  PROVE  IndInv'
<1> DEFINE c == call[w]
<1>1. pc[w] # "idle" /\ mutex \in {w, NoWorker} /\ conn = disk
  BY WorkerFacts DEF ListProfiles, SnapshotAssignments, FindAssignment, Enters, OpenTransaction, Locked
<1>2. Reply(w, "ok") /\ UNCHANGED <<disk, conn, position>>
  BY DEF ListProfiles, SnapshotAssignments, FindAssignment
<1>3. PICK rows \in Database : view' = [view EXCEPT ![w] = rows]
  <2>1. CASE ListProfiles(w)
    BY <2>1, WorkerFacts, ProfileRowsType DEF ListProfiles
  <2>2. CASE SnapshotAssignments(w)
    BY <2>2, WorkerFacts, WithAssignmentRowsType DEF SnapshotAssignments
  <2>3. CASE FindAssignment(w)
    <3>1. c.op = "find"
      BY <2>3 DEF FindAssignment, Enters
    <3>2. c.slot \in Slot
      BY <3>1, WorkerFacts, CallType
    <3>3. conn.actions[c.slot] \in Seq(Action)
      BY <3>2, WorkerFacts DEF Database
    <3>4. SetActions(EmptyDatabase, c.slot, conn.actions[c.slot]) \in Database
      BY <3>2, <3>3, EmptyDatabaseType, SetActionsType
    <3> QED
      BY <2>3, <3>4 DEF FindAssignment
  <2> QED
    BY <2>1, <2>2, <2>3
<1>4. view' \in [Worker -> Database] /\ \A v \in Worker \ {w} : view'[v] = view[v]
  BY <1>3, WorkerFacts
<1>5. ExactlyOneActive(disk') /\ disk'.active \subseteq disk'.profiles /\ disk' \in Database /\ conn' = disk'
  BY <1>1, <1>2, WorkerFacts, InCall
<1> QED
  BY <1>1, <1>2, <1>4, <1>5, WorkerFacts, ReplyIndInv

\* clear_assignment keeps IndInv.
LEMMA ClearIndInv ==
  ASSUME IndInv, NEW w \in Worker, ClearAssignment(w)
  PROVE  IndInv'
<1> DEFINE c == call[w]
           db == SetActions(disk, c.slot, <<>>)
<1>1. pc[w] # "idle" /\ mutex = NoWorker /\ c.op = "clear"
  BY DEF ClearAssignment, Enters
<1>2. CASE Fail(w, "not_found")
  BY <1>1, <1>2, WorkerFacts, FailIndInv
<1>3. CASE ~ Fail(w, "not_found")
  <2>1. c.slot \in Slot /\ disk \in Database /\ <<>> \in Seq(Action)
    BY <1>1, WorkerFacts, CallType
  <2>2. db \in Database /\ db.active = disk.active /\ db.profiles = disk.profiles
    BY ONLY <2>1, SetActionsType
  <2>3. disk' = db /\ conn' = db /\ Reply(w, "ok") /\ UNCHANGED <<position, view>>
    BY <1>1, <1>3, WorkerFacts DEF ClearAssignment
  <2>4. ExactlyOneActive(disk') /\ disk'.active \subseteq disk'.profiles
    BY <1>1, <2>2, <2>3, InCall DEF ExactlyOneActive
  <2> QED
    BY <1>1, <2>2, <2>3, <2>4, WorkerFacts, ReplyIndInv
<1> QED
  BY <1>2, <1>3

\* Taking the mutex for a transaction or a snapshot keeps IndInv.
LEMMA BeginIndInv ==
  ASSUME IndInv, NEW w \in Worker, SetActiveBegin(w) \/ SaveBegin(w) \/ SnapshotProfiles(w)
  PROVE  IndInv'
<1> DEFINE c == call[w]
<1>1. pc[w] = "called" /\ mutex = NoWorker
  BY DEF SetActiveBegin, SaveBegin, SnapshotProfiles, Enters
<1>2. CASE Fail(w, "not_found")
  BY <1>1, <1>2, WorkerFacts, FailIndInv
<1>3. CASE (SetActiveBegin(w) \/ SaveBegin(w)) /\ ~ Fail(w, "not_found")
  <2>1. PICK next \in {"deactivate", "delete"} :
          /\ Continue(w, next)
          /\ next = "deactivate" => c.op = "set_active"
          /\ next = "delete" => c.op = "save"
    BY <1>3 DEF SetActiveBegin, SaveBegin, Enters
  <2>2. UNCHANGED <<disk, conn, position, view>> /\ c.profile \in conn.profiles
    BY <1>3 DEF SetActiveBegin, SaveBegin
  <2>3. CallInProgress(w)' /\ OpenTransaction(w)'
    BY <1>1, <2>1, <2>2, WorkerFacts DEF CallInProgress, OpenTransaction, Continue, Locked, IndInv, TypeOK
  <2> QED
    BY <1>1, <2>1, <2>2, <2>3, WorkerFacts, ContinueIndInv DEF Locked
<1>4. CASE SnapshotProfiles(w)
  <2>1. /\ Continue(w, "assignments") /\ UNCHANGED <<disk, conn, position>>
        /\ view' = [view EXCEPT ![w] = ProfileRows(conn)]
        /\ c.op = "snapshot"
    BY <1>4 DEF SnapshotProfiles, Enters
  <2>2. ProfileRows(conn) \in Database
    BY WorkerFacts, ProfileRowsType
  <2>3. view' \in [Worker -> Database] /\ \A v \in Worker \ {w} : view'[v] = view[v]
    BY <2>1, <2>2, WorkerFacts
  <2>4. CallInProgress(w)' /\ OpenTransaction(w)'
    BY <1>1, <2>1, WorkerFacts DEF CallInProgress, OpenTransaction, Continue, Locked, IndInv, TypeOK
  <2> QED
    BY <1>1, <2>1, <2>3, <2>4, WorkerFacts, ContinueIndInv DEF Locked
<1> QED
  BY <1>2, <1>3, <1>4

\* The two UPDATEs of set_active_profile keep IndInv.
LEMMA SetActiveIndInv ==
  ASSUME IndInv, NEW w \in Worker, Deactivate(w) \/ Activate(w)
  PROVE  IndInv'
<1> DEFINE c == call[w]
<1>1. /\ pc[w] \in {"deactivate", "activate"} /\ mutex = w
      /\ c.op = "set_active" /\ c.profile \in disk.profiles
  BY WorkerFacts DEF Deactivate, Activate, CallInProgress, OpenTransaction, Locked
<1>2. c.profile \in ProfileId /\ {c.profile} \in SUBSET ProfileId /\ {} \in SUBSET ProfileId
  BY <1>1, WorkerFacts, CallType
<1>3. CASE \E error \in Status : Fail(w, error)
  BY <1>1, <1>3, FailIndInv
<1>4. CASE Deactivate(w) /\ ~ \E error \in Status : Fail(w, error)
  <2>1. /\ pc[w] = "deactivate" /\ conn' = SetActive(disk, {}) /\ Continue(w, "activate")
        /\ UNCHANGED <<disk, position, view>>
    BY <1>4, WorkerFacts DEF Deactivate, OpenTransaction
  <2>2. conn' \in Database
    BY <1>2, <2>1, WorkerFacts, SetActiveType
  <2>3. CallInProgress(w)' /\ OpenTransaction(w)'
    BY <1>1, <2>1, WorkerFacts DEF CallInProgress, OpenTransaction, Continue, Locked, IndInv, TypeOK
  <2> QED
    BY <1>1, <2>1, <2>2, <2>3, WorkerFacts, ContinueIndInv DEF Locked
<1>5. CASE Activate(w) /\ ~ \E error \in Status : Fail(w, error)
  <2>1. /\ pc[w] = "activate" /\ conn' = SetActive(conn, {c.profile}) /\ Continue(w, "commit")
        /\ UNCHANGED <<disk, position, view>>
    BY <1>5, WorkerFacts DEF Activate
  <2>2. conn = SetActive(disk, {})
    BY <2>1, WorkerFacts DEF OpenTransaction
  <2>3. conn' = SetActive(disk, {c.profile})
    BY <1>2, <2>1, <2>2, WorkerFacts, OverwriteActive
  <2>4. conn' \in Database
    BY <1>2, <2>3, WorkerFacts, SetActiveType
  <2>5. conn' = Effect(c, disk)
    BY <1>1, <2>3 DEF Effect
  <2>6. CallInProgress(w)' /\ OpenTransaction(w)'
    BY <1>1, <2>1, <2>5, WorkerFacts DEF CallInProgress, OpenTransaction, Continue, Locked, IndInv, TypeOK
  <2> QED
    BY <1>1, <2>1, <2>4, <2>6, WorkerFacts, ContinueIndInv DEF Locked
<1> QED
  BY <1>3, <1>4, <1>5

\* The DELETE and the INSERTs of save_assignment keep IndInv.
LEMMA SaveIndInv ==
  ASSUME IndInv, NEW w \in Worker, DeleteRows(w) \/ InsertRow(w)
  PROVE  IndInv'
<1> DEFINE c == call[w]
           s == c.slot
           i == position[w]
<1>1. /\ pc[w] \in {"delete", "insert"} /\ mutex = w
      /\ c.op = "save" /\ c.profile \in disk.profiles
  BY WorkerFacts DEF DeleteRows, InsertRow, CallInProgress, OpenTransaction, Locked
<1>2. /\ s \in Slot /\ c.actions \in Seq(Action) /\ i \in Nat /\ Len(c.actions) \in Nat
      /\ disk \in Database /\ <<>> \in Seq(Action)
  BY <1>1, WorkerFacts, CallType
<1>3. CASE \E error \in Status : Fail(w, error)
  BY <1>1, <1>3, FailIndInv
<1>4. ASSUME NEW n \in Nat, n <= Len(c.actions),
             Continue(w, AfterInsert(w, n)),
             conn' = SetActions(disk, s, SubSeq(c.actions, 1, n)),
             position' = [position EXCEPT ![w] = n],
             UNCHANGED <<disk, view>>
      PROVE  IndInv'
  <2>1. SubSeq(c.actions, 1, n) \in Seq(Action) /\ SubSeq(c.actions, 1, Len(c.actions)) = c.actions
    BY <1>2, <1>4, PrefixType
  <2>2. conn' \in Database
    BY <1>2, <1>4, <2>1, SetActionsType
  <2>3. position' \in [Worker -> Nat] /\ position'[w] = n
        /\ \A v \in Worker \ {w} : position'[v] = position[v]
    BY <1>4, WorkerFacts
  <2>4. CASE n < Len(c.actions)
    <3>1. Continue(w, "insert")
      BY <1>4, <2>4 DEF AfterInsert
    <3>2. CallInProgress(w)' /\ OpenTransaction(w)'
      BY <1>1, <1>4, <2>3, <2>4, <3>1, WorkerFacts DEF CallInProgress, OpenTransaction, Continue, Locked, IndInv, TypeOK
    <3> QED
      BY <1>1, <1>4, <2>2, <2>3, <3>1, <3>2, WorkerFacts, ContinueIndInv DEF Locked
  <2>5. CASE n = Len(c.actions)
    <3>1. Continue(w, "commit")
      BY <1>4, <2>5 DEF AfterInsert
    <3>2. conn' = Effect(c, disk)
      BY <1>1, <1>4, <2>1, <2>5 DEF Effect
    <3>3. CallInProgress(w)' /\ OpenTransaction(w)'
      BY <1>1, <1>4, <3>1, <3>2, WorkerFacts DEF CallInProgress, OpenTransaction, Continue, Locked, IndInv, TypeOK
    <3> QED
      BY <1>1, <1>4, <2>2, <2>3, <3>1, <3>3, WorkerFacts, ContinueIndInv DEF Locked
  <2> QED
    BY <1>2, <1>4, <2>4, <2>5
<1>5. CASE DeleteRows(w)
  <2>1. i = 0 /\ conn = disk
    BY <1>5, WorkerFacts DEF DeleteRows, CallInProgress, OpenTransaction
  <2>2. /\ Continue(w, AfterInsert(w, 0)) /\ UNCHANGED <<disk, position, view>>
        /\ conn' = SetActions(disk, s, <<>>)
    BY <1>5, <2>1 DEF DeleteRows
  <2>3. SubSeq(c.actions, 1, 0) = <<>>
    BY <1>2, SubSeqEmpty
  <2>4. position' = [position EXCEPT ![w] = 0]
    BY <2>1, <2>2, WorkerFacts
  <2>5. conn' = SetActions(disk, s, SubSeq(c.actions, 1, 0))
    BY ONLY <2>2, <2>3
  <2>6. 0 \in Nat /\ 0 <= Len(c.actions)
    BY ONLY <1>2
  <2> QED
    BY <1>4, <2>2, <2>4, <2>5, <2>6
<1>6. CASE InsertRow(w) /\ ~ \E error \in Status : Fail(w, error)
  <2>1. pc[w] = "insert" /\ i < Len(c.actions) /\ conn = SetActions(disk, s, SubSeq(c.actions, 1, i))
    BY <1>6, WorkerFacts DEF InsertRow, OpenTransaction
  <2>2. /\ conn' = SetActions(conn, s, Append(conn.actions[s], c.actions[i + 1]))
        /\ position' = [position EXCEPT ![w] = @ + 1]
        /\ Continue(w, AfterInsert(w, i + 1))
        /\ UNCHANGED <<disk, view>>
    BY <1>6, WorkerFacts DEF InsertRow
  <2>3. /\ SubSeq(c.actions, 1, i) \in Seq(Action)
        /\ Append(SubSeq(c.actions, 1, i), c.actions[i + 1]) = SubSeq(c.actions, 1, i + 1)
        /\ SubSeq(c.actions, 1, i + 1) \in Seq(Action)
    BY <1>2, <2>1, NextRow
  <2>4. conn.actions[s] = SubSeq(c.actions, 1, i)
    <3>1. conn.actions = [disk.actions EXCEPT ![s] = SubSeq(c.actions, 1, i)]
      BY <1>2, <2>1, <2>3, SetActionsType
    <3> QED
      BY <1>2, <3>1 DEF Database
  <2>5. conn' = SetActions(disk, s, SubSeq(c.actions, 1, i + 1))
    <3>1. conn' = SetActions(SetActions(disk, s, SubSeq(c.actions, 1, i)), s, SubSeq(c.actions, 1, i + 1))
      BY <2>1, <2>2, <2>3, <2>4
    <3> QED
      BY ONLY <1>2, <2>3, <3>1, OverwriteActions
  <2>6. i + 1 \in Nat /\ i + 1 <= Len(c.actions) /\ position' = [position EXCEPT ![w] = i + 1]
    BY <1>2, <2>1, <2>2
  <2> QED
    BY <1>4, <2>2, <2>5, <2>6
<1> QED
  BY <1>3, <1>5, <1>6

\* COMMIT publishes the effect of the whole call and keeps IndInv.
LEMMA CommitIndInv ==
  ASSUME IndInv, NEW w \in Worker, Commit(w)
  PROVE  IndInv' /\ disk' = Effect(call[w], disk)
<1> DEFINE c == call[w]
<1>1. /\ pc[w] = "commit" /\ mutex = w /\ c.op \in {"set_active", "save"}
      /\ c.profile \in disk.profiles /\ conn = Effect(c, disk)
  BY WorkerFacts DEF Commit, CallInProgress, OpenTransaction, Locked
<1>2. disk' = conn /\ conn' = conn /\ Reply(w, "ok") /\ UNCHANGED <<position, view>>
  BY DEF Commit
<1>3. ExactlyOneActive(conn) /\ conn.active \subseteq conn.profiles
  <2>1. CASE c.op = "set_active"
    <3>1. {c.profile} \in SUBSET ProfileId
      BY <2>1, WorkerFacts, CallType
    <3>2. conn = SetActive(disk, {c.profile})
      BY <1>1, <2>1 DEF Effect
    <3>3. conn.active = {c.profile} /\ conn.profiles = disk.profiles
      BY <3>1, <3>2, WorkerFacts, SetActiveType
    <3> QED
      BY <1>1, <3>3 DEF ExactlyOneActive
  <2>2. CASE c.op = "save"
    <3>1. c.slot \in Slot /\ c.actions \in Seq(Action)
      BY <2>2, WorkerFacts, CallType
    <3>2. conn = SetActions(disk, c.slot, c.actions)
      BY <1>1, <2>2 DEF Effect
    <3>3. conn.active = disk.active /\ conn.profiles = disk.profiles
      BY <3>1, <3>2, WorkerFacts, SetActionsType
    <3> QED
      BY <1>1, <3>3, InCall DEF ExactlyOneActive
  <2> QED
    BY <1>1, <2>1, <2>2
<1> QED
  BY <1>1, <1>2, <1>3, WorkerFacts, ReplyIndInv

\* A statement that fails keeps IndInv.
LEMMA StatementFailsIndInv ==
  ASSUME IndInv, NEW w \in Worker, StatementFails(w)
  PROVE  IndInv'
<1>1. pc[w] # "idle" /\ mutex \in {w, NoWorker}
  BY DEF StatementFails, Locked
<1> QED
  BY <1>1, FailIndInv DEF StatementFails, Status

\* Every step keeps IndInv.
LEMMA NextIndInv == IndInv /\ [Next]_vars => IndInv'
<1> SUFFICES ASSUME IndInv, [Next]_vars PROVE IndInv'
  OBVIOUS
<1>1. CASE UNCHANGED vars
  BY <1>1 DEF vars, IndInv, TypeOK, MutexHeld, UnlockedIsCommitted, CallInProgress,
              OpenTransaction, OneActive
<1>2. CASE Startup \/ Crash
  BY <1>2, StartupIndInv
<1>3. ASSUME NEW w \in Worker, (\E c \in Call : Invoke(w, c)) \/ Return(w) PROVE IndInv'
  BY <1>3, CallBoundaryIndInv
<1>4. ASSUME NEW w \in Worker, Step(w) PROVE IndInv'
  BY <1>4, CreateProfileIndInv, RejectNameIndInv, RenameIndInv, ReadIndInv, ClearIndInv,
     BeginIndInv, SetActiveIndInv, SaveIndInv, CommitIndInv DEF Step
<1>5. ASSUME NEW w \in Worker, StatementFails(w) PROVE IndInv'
  BY <1>5, StatementFailsIndInv
<1> QED
  BY <1>1, <1>2, <1>3, <1>4, <1>5 DEF Next

\* IndInv holds in every reachable state.
LEMMA Invariance == Spec => []IndInv
  BY InitIndInv, NextIndInv, PTL DEF Spec

\* Type correctness of the repository's state.
THEOREM TypeCorrect == Spec => []TypeOK
<1>1. IndInv => TypeOK
  BY DEF IndInv
<1> QED
  BY <1>1, Invariance, PTL

\* Exactly one profile is active in every committed state, for any number of
\* workers and profiles: no interleaving, failed statement or crash inside
\* set_active_profile leaves none or two.
THEOREM AlwaysOneActive == Spec => []OneActive
<1>1. IndInv => OneActive
  BY DEF IndInv
<1> QED
  BY <1>1, Invariance, PTL

\* No call, failed or not, leaves a transaction open behind the mutex.
THEOREM AlwaysUnlockedIsCommitted == Spec => []UnlockedIsCommitted
<1>1. IndInv => UnlockedIsCommitted
  BY DEF IndInv
<1> QED
  BY <1>1, Invariance, PTL

-----------------------------------------------------------------------------
(***************************************************************************)
(* What a worker's step does to the committed state: it answers Ok and     *)
(* applies the call, or it leaves the committed state alone.               *)
(***************************************************************************)
Applies(w) == Acknowledges(w) /\ disk' = Effect(call[w], disk) /\ CommittedRows(w)
LeavesDisk(w) == ~ Acknowledges(w) /\ disk' = disk

\* A call that fails, and one that goes on, leave the committed state alone.
LEMMA UnfinishedLeavesDisk ==
  ASSUME IndInv, NEW w \in Worker,
         \/ \E error \in Status \ {"ok"} : Fail(w, error)
         \/ (\E next \in Locked : Continue(w, next)) /\ disk' = disk
  PROVE  LeavesDisk(w)
<1>0. pc \in [Worker -> PC] /\ status \in [Worker -> Status]
  BY DEF IndInv, TypeOK
<1>1. CASE \E error \in Status \ {"ok"} : Fail(w, error)
  BY <1>0, <1>1 DEF LeavesDisk, Acknowledges, Fail, Reply
<1>2. CASE (\E next \in Locked : Continue(w, next)) /\ disk' = disk
  BY <1>0, <1>2 DEF LeavesDisk, Acknowledges, Continue, Locked
<1> QED
  BY <1>1, <1>2

\* The methods that write with one statement.
LEMMA WriteApplies ==
  ASSUME IndInv, NEW w \in Worker,
         CreateProfile(w) \/ RenameUpdate(w) \/ ClearAssignment(w) \/ Commit(w)
  PROVE  Applies(w) \/ LeavesDisk(w)
<1>0. /\ pc \in [Worker -> PC] /\ status \in [Worker -> Status]
      /\ {"not_found"} \subseteq Status \ {"ok"}
  BY DEF IndInv, TypeOK, Status
<1>1. CASE Fail(w, "not_found")
  BY <1>0, <1>1, UnfinishedLeavesDisk
<1>2. ASSUME pc[w] # "done", Reply(w, "ok"), disk' = Effect(call[w], disk),
             call[w].op \notin {"list", "snapshot", "find"}
      PROVE  Applies(w)
  BY <1>0, <1>2 DEF Applies, Acknowledges, CommittedRows, Reply
<1>3. CASE CreateProfile(w)
  <2>1. /\ pc[w] = "called" /\ mutex = NoWorker /\ call[w].op = "create" /\ Reply(w, "ok")
        /\ disk' = InsertProfile(conn, call[w].profile, call[w].name)
    BY <1>3 DEF CreateProfile, Enters
  <2>2. disk' = Effect(call[w], disk)
    BY <2>1, WorkerFacts DEF Effect
  <2> QED
    BY <1>2, <2>1, <2>2
<1>4. CASE RenameUpdate(w) /\ ~ Fail(w, "not_found")
  <2>1. /\ pc[w] = "update" /\ mutex = NoWorker /\ Reply(w, "ok")
        /\ disk' = UpdateName(conn, call[w].profile, call[w].name)
    BY <1>4 DEF RenameUpdate
  <2>2. call[w].op = "rename"
    BY <2>1, WorkerFacts DEF CallInProgress
  <2>3. disk' = Effect(call[w], disk)
    BY <2>1, <2>2, WorkerFacts DEF Effect
  <2> QED
    BY <1>2, <2>1, <2>2, <2>3
<1>5. CASE ClearAssignment(w) /\ ~ Fail(w, "not_found")
  <2>1. /\ pc[w] = "called" /\ mutex = NoWorker /\ call[w].op = "clear" /\ Reply(w, "ok")
        /\ disk' = SetActions(conn, call[w].slot, <<>>)
    BY <1>5 DEF ClearAssignment, Enters
  <2>2. disk' = Effect(call[w], disk)
    BY <2>1, WorkerFacts DEF Effect
  <2> QED
    BY <1>2, <2>1, <2>2
<1>6. CASE Commit(w)
  <2>1. pc[w] = "commit" /\ Reply(w, "ok")
    BY <1>6 DEF Commit
  <2>2. call[w].op \in {"set_active", "save"}
    BY <2>1, WorkerFacts DEF CallInProgress
  <2> QED
    BY <1>2, <1>6, <2>1, <2>2, CommitIndInv
<1> QED
  BY <1>1, <1>3, <1>4, <1>5, <1>6

\* The methods that read.
LEMMA ReadApplies ==
  ASSUME IndInv, NEW w \in Worker,
         ListProfiles(w) \/ SnapshotAssignments(w) \/ FindAssignment(w)
  PROVE  Applies(w)
<1>0. pc \in [Worker -> PC] /\ status \in [Worker -> Status] /\ view \in [Worker -> Database]
  BY DEF IndInv, TypeOK
<1>1. ASSUME pc[w] # "done", Reply(w, "ok"), disk' = disk, CommittedRows(w),
             call[w].op \in {"list", "snapshot", "find"}
      PROVE  Applies(w)
  BY <1>0, <1>1 DEF Applies, Acknowledges, Reply, Effect
<1>2. CASE ListProfiles(w)
  <2>1. /\ pc[w] = "called" /\ mutex = NoWorker /\ call[w].op = "list" /\ Reply(w, "ok")
        /\ disk' = disk /\ view' = [view EXCEPT ![w] = ProfileRows(conn)]
    BY <1>2 DEF ListProfiles, Enters
  <2>2. CommittedRows(w)
    BY <1>0, <2>1, WorkerFacts DEF CommittedRows
  <2> QED
    BY <1>1, <2>1, <2>2
<1>3. CASE SnapshotAssignments(w)
  <2>1. /\ pc[w] = "assignments" /\ Reply(w, "ok") /\ disk' = disk
        /\ view' = [view EXCEPT ![w] = WithAssignmentRows(@, conn)]
    BY <1>3 DEF SnapshotAssignments
  <2>2. call[w].op = "snapshot" /\ view[w] = ProfileRows(disk) /\ conn = disk
    BY <2>1, WorkerFacts DEF CallInProgress, OpenTransaction
  <2>3. view'[w] = WithAssignmentRows(ProfileRows(disk), disk)
    BY <1>0, <2>1, <2>2
  <2>4. view'[w] = disk
    BY <2>3, WorkerFacts, ProfileRowsType, WithAssignmentRowsType
  <2>5. CommittedRows(w)
    BY <2>2, <2>4 DEF CommittedRows
  <2> QED
    BY <1>1, <2>1, <2>2, <2>5
<1>4. CASE FindAssignment(w)
  <2> DEFINE s == call[w].slot
  <2>1. /\ pc[w] = "called" /\ mutex = NoWorker /\ call[w].op = "find" /\ Reply(w, "ok")
        /\ disk' = disk
        /\ view' = [view EXCEPT ![w] = SetActions(EmptyDatabase, s, conn.actions[s])]
    BY <1>4 DEF FindAssignment, Enters
  <2>2. s \in Slot /\ conn = disk /\ disk \in Database
    BY <2>1, WorkerFacts, CallType
  <2>3. disk.actions[s] \in Seq(Action)
    BY <2>2 DEF Database
  <2>4. view'[w] = SetActions(EmptyDatabase, s, disk.actions[s])
    BY <1>0, <2>1, <2>2
  <2>5. view'[w].actions = [EmptyDatabase.actions EXCEPT ![s] = disk.actions[s]]
    BY <2>2, <2>3, <2>4, EmptyDatabaseType, SetActionsType
  <2>6. view'[w].actions[s] = disk.actions[s]
    BY <2>2, <2>5, EmptyDatabaseType DEF Database
  <2>7. CommittedRows(w)
    BY <2>1, <2>6 DEF CommittedRows
  <2> QED
    BY <1>1, <2>1, <2>7
<1> QED
  BY <1>2, <1>3, <1>4

\* The statements inside a method, and those that may end it early.
LEMMA StatementLeavesDisk ==
  ASSUME IndInv, NEW w \in Worker,
         \/ RejectName(w) \/ RenameList(w) \/ SetActiveBegin(w) \/ Deactivate(w) \/ Activate(w)
         \/ SaveBegin(w) \/ DeleteRows(w) \/ InsertRow(w) \/ SnapshotProfiles(w)
         \/ StatementFails(w) \/ Return(w) \/ \E c \in Call : Invoke(w, c)
  PROVE  LeavesDisk(w)
<1>0. /\ pc \in [Worker -> PC] /\ status \in [Worker -> Status]
      /\ {"not_found", "blank_name", "no_active", "storage_error"} \subseteq Status \ {"ok"}
      /\ {"deactivate", "activate", "commit", "delete", "insert", "assignments"} \subseteq Locked
  BY DEF IndInv, TypeOK, Status, Locked
<1>1. CASE RejectName(w) \/ Return(w) \/ \E c \in Call : Invoke(w, c)
  BY <1>0, <1>1 DEF RejectName, Return, Invoke, LeavesDisk, Acknowledges
<1>2. CASE \E error \in Status \ {"ok"} : Fail(w, error)
  BY <1>2, UnfinishedLeavesDisk
<1>3. CASE StatementFails(w)
  BY <1>0, <1>2, <1>3 DEF StatementFails
<1>4. CASE RenameList(w) /\ ~ \E error \in Status \ {"ok"} : Fail(w, error)
  <2>1. pc' = [pc EXCEPT ![w] = "update"] /\ disk' = disk
    BY <1>0, <1>4 DEF RenameList
  <2> QED
    BY <1>0, <2>1 DEF LeavesDisk, Acknowledges
<1>5. CASE /\ SetActiveBegin(w) \/ Deactivate(w) \/ Activate(w) \/ SaveBegin(w)
              \/ InsertRow(w) \/ DeleteRows(w) \/ SnapshotProfiles(w)
           /\ ~ \E error \in Status \ {"ok"} : Fail(w, error)
  <2>1. AfterInsert(w, 0) \in Locked /\ AfterInsert(w, position[w] + 1) \in Locked
    BY <1>0 DEF AfterInsert
  <2>2. (\E next \in Locked : Continue(w, next)) /\ disk' = disk
    BY <1>0, <1>5, <2>1 DEF SetActiveBegin, Deactivate, Activate, SaveBegin, InsertRow, DeleteRows,
                            SnapshotProfiles
  <2> QED
    BY <2>2, UnfinishedLeavesDisk
<1> QED
  BY <1>1, <1>2, <1>3, <1>4, <1>5

\* A step of one worker is not a reply of another.
LEMMA OthersKeepTheirPlace ==
  ASSUME IndInv, NEW w \in Worker, NEW v \in Worker, v # w,
         Step(w) \/ StatementFails(w) \/ Return(w) \/ \E c \in Call : Invoke(w, c)
  PROVE  ~ Acknowledges(v)
<1>0. pc \in [Worker -> PC]
  BY DEF IndInv, TypeOK
<1>1. \E next : pc' = [pc EXCEPT ![w] = next]
  <2>1. CASE Return(w) \/ StatementFails(w) \/ \E c \in Call : Invoke(w, c)
    BY <2>1 DEF Return, Invoke, StatementFails, Fail, Reply
  <2>2. CASE Step(w)
    BY <2>2 DEF Step, CreateProfile, RejectName, RenameList, RenameUpdate, SetActiveBegin, Deactivate,
      Activate, Commit, SaveBegin, DeleteRows, InsertRow, ClearAssignment, ListProfiles,
      SnapshotProfiles, SnapshotAssignments, FindAssignment, Fail, Reply, Continue
  <2> QED
    BY <2>1, <2>2
<1> QED
  BY <1>0, <1>1 DEF Acknowledges

\* Every step of the repository: some worker applies its call and nobody else
\* answers, or nobody answers and the committed state stays, except for the
\* default profile that startup inserts.
LEMMA NextOutcome ==
  ASSUME IndInv, [Next]_vars
  PROVE  \/ \E w \in Worker : Applies(w) /\ \A v \in Worker \ {w} : ~ Acknowledges(v)
         \/ /\ \A w \in Worker : ~ Acknowledges(w)
            /\ phase = "ensure" \/ disk' = disk
<1>1. CASE UNCHANGED vars
  BY <1>1 DEF vars, Acknowledges
<1>2. CASE Startup
  <2>1. pc' = pc /\ (phase = "ensure" \/ disk' = disk)
    BY <1>2 DEF Startup, Open, EnsureDefaultProfile, CheckActive, workerVars
  <2> QED
    BY <2>1 DEF Acknowledges
<1>3. CASE Crash
  <2>1. disk' = disk /\ \A w \in Worker : pc'[w] = "idle"
    BY <1>3 DEF Crash
  <2> QED
    BY <2>1 DEF Acknowledges
<1>4. ASSUME NEW w \in Worker,
             Step(w) \/ StatementFails(w) \/ Return(w) \/ \E c \in Call : Invoke(w, c)
      PROVE  /\ Applies(w) \/ LeavesDisk(w)
             /\ \A v \in Worker \ {w} : ~ Acknowledges(v)
  <2>1. Applies(w) \/ LeavesDisk(w)
    BY <1>4, WriteApplies, ReadApplies, StatementLeavesDisk DEF Step
  <2>2. \A v \in Worker \ {w} : ~ Acknowledges(v)
    BY <1>4, OthersKeepTheirPlace
  <2> QED
    BY <2>1, <2>2
<1> QED
  BY <1>1, <1>2, <1>3, <1>4 DEF Next, LeavesDisk

\* A call that returns Ok has its whole effect in the committed state at that
\* moment, and nothing else a worker does changes the committed state: no
\* failure, crash or other worker makes a call half done.
THEOREM CallsAreAllOrNothing == Spec => AcknowledgedIffApplied
<1>1. ASSUME IndInv, [Next]_vars PROVE [AcknowledgedStep]_vars
  BY <1>1, NextOutcome DEF AcknowledgedStep, Applies
<1> QED
  BY <1>1, Invariance, PTL DEF Spec, AcknowledgedIffApplied

\* Every listing, snapshot and lookup shows one committed state.
THEOREM ReadsAlwaysCommitted == Spec => ReadsAreCommitted
<1>1. ASSUME IndInv, [Next]_vars
      PROVE  [\A w \in Worker : Acknowledges(w) => CommittedRows(w)]_vars
  BY <1>1, NextOutcome DEF Applies
<1> QED
  BY <1>1, Invariance, PTL DEF Spec, ReadsAreCommitted
=============================================================================

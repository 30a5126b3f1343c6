----------------------- MODULE ProfileStoreRefinement -----------------------
(***************************************************************************)
(* The proof that ProfileStore implements ProfileRegistry: the committed   *)
(* database of the SQLite repository takes the steps of the abstract       *)
(* registry and no others.                                                 *)
(***************************************************************************)
EXTENDS ProfileStoreProofs

(***************************************************************************)
(* Ids of profiles that are being created stay fresh.                      *)
(***************************************************************************)
\* What an answered call adds to the profiles: the created one, or nothing.
LEMMA AppliedProfiles ==
  ASSUME IndInv, NEW w \in Worker, Applies(w)
  PROVE  /\ call[w].op = "create" => disk'.profiles = disk.profiles \cup {call[w].profile}
         /\ call[w].op # "create" => disk'.profiles = disk.profiles
<1> DEFINE c == call[w]
<1>1. disk' = Effect(c, disk) /\ disk \in Database /\ c \in Call \cup {NoCall}
  BY WorkerFacts DEF Applies
<1>2. CASE c.op = "create"
  <2>1. disk' = InsertProfile(disk, c.profile, c.name)
    BY <1>1, <1>2 DEF Effect
  <2> QED
    BY <1>1, <1>2, <2>1 DEF InsertProfile, Database
<1>3. CASE c.op = "rename"
  <2>1. disk' = UpdateName(disk, c.profile, c.name)
    BY <1>1, <1>3 DEF Effect
  <2>2. disk'.profiles = disk.profiles
    BY <1>1, <2>1 DEF UpdateName, Database
  <2> QED
    BY <1>3, <2>2
<1>4. CASE c.op = "set_active"
  <2>1. disk' = SetActive(disk, {c.profile})
    BY <1>1, <1>4 DEF Effect
  <2>2. disk'.profiles = disk.profiles
    BY <1>1, <2>1 DEF SetActive, Database
  <2> QED
    BY <1>4, <2>2
<1>5. CASE c.op \in {"save", "clear"}
  <2>1. disk' = SetActions(disk, c.slot, c.actions) \/ disk' = SetActions(disk, c.slot, <<>>)
    BY <1>1, <1>5 DEF Effect
  <2>2. disk'.profiles = disk.profiles
    BY <1>1, <2>1 DEF SetActions, Database
  <2> QED
    BY <1>5, <2>2
<1>6. CASE c.op \notin {"create", "rename", "set_active", "save", "clear"}
  <2>1. disk' = disk
    BY <1>1, <1>6 DEF Effect
  <2> QED
    BY <1>6, <2>1
<1> QED
  BY <1>2, <1>3, <1>4, <1>5, <1>6

\* A worker's statement leaves the calls alone and does not begin one.
LEMMA StatementKeepsCalls ==
  ASSUME IndInv, NEW w \in Worker, Step(w) \/ StatementFails(w)
  PROVE  /\ call' = call /\ pc'[w] # "called" /\ pc[w] # "idle"
         /\ \A v \in Worker \ {w} : pc'[v] = pc[v]
<1>0. pc \in [Worker -> PC]
  BY DEF IndInv, TypeOK
<1>1. /\ call' = call /\ pc[w] # "idle"
      /\ \E next \in PC \ {"called"} : pc' = [pc EXCEPT ![w] = next]
  BY DEF Step, StatementFails, CreateProfile, RejectName, RenameList, RenameUpdate, SetActiveBegin,
    Deactivate, Activate, Commit, SaveBegin, DeleteRows, InsertRow, ClearAssignment, ListProfiles,
    SnapshotProfiles, SnapshotAssignments, FindAssignment, Fail, Reply, Continue, Enters,
    AfterInsert, PC, Locked
<1> QED
  BY <1>0, <1>1

LEMMA FreshIdsNext ==
  ASSUME IndInv, FreshIds, [Next]_vars
  PROVE  FreshIds'
<1>0. pc \in [Worker -> PC] /\ call \in [Worker -> Call \cup {NoCall}]
  BY DEF IndInv, TypeOK
<1>1. CASE UNCHANGED vars
  BY <1>1 DEF vars, FreshIds
<1>2. CASE Startup
  <2>1. phase # "serving" /\ pc' = pc
    BY <1>2 DEF Startup, Open, EnsureDefaultProfile, CheckActive, workerVars
  <2>2. \A w \in Worker : pc[w] = "idle"
    BY <2>1 DEF IndInv, CallInProgress
  <2> QED
    BY <2>1, <2>2 DEF FreshIds
<1>3. CASE Crash
  BY <1>3 DEF Crash, FreshIds
<1>4. ASSUME NEW w \in Worker, NEW c \in Call, Invoke(w, c) PROVE FreshIds'
  <2>1. /\ c.op = "create" => Fresh(c.profile)
        /\ call' = [call EXCEPT ![w] = c] /\ pc' = [pc EXCEPT ![w] = "called"] /\ disk' = disk
    BY <1>4 DEF Invoke
  <2> QED
    BY <1>0, <2>1 DEF FreshIds, Fresh
<1>5. ASSUME NEW w \in Worker, Return(w) PROVE FreshIds'
  <2>1. /\ call' = [call EXCEPT ![w] = NoCall] /\ pc' = [pc EXCEPT ![w] = "idle"] /\ disk' = disk
        /\ NoCall.op # "create"
    BY <1>5 DEF Return, NoCall
  <2> QED
    BY <1>0, <2>1 DEF FreshIds
<1>6. ASSUME NEW w \in Worker, Step(w) \/ StatementFails(w) PROVE FreshIds'
  <2>1. /\ call' = call /\ pc'[w] # "called"
        /\ \A v \in Worker \ {w} : pc'[v] = pc[v]
    BY <1>6, StatementKeepsCalls
  <2>2. \/ disk' = disk
        \/ /\ call[w].op = "create" => disk'.profiles = disk.profiles \cup {call[w].profile}
           /\ call[w].op # "create" => disk'.profiles = disk.profiles
    BY <1>6, WriteApplies, ReadApplies, StatementLeavesDisk, AppliedProfiles DEF Step, LeavesDisk
  <2> QED
    BY <2>1, <2>2 DEF FreshIds
<1> QED
  BY <1>1, <1>2, <1>3, <1>4, <1>5, <1>6 DEF Next

LEMMA AlwaysFresh == Spec => [](IndInv /\ FreshIds)
<1>1. Init => FreshIds
  BY DEF Init, FreshIds
<1>2. IndInv /\ FreshIds /\ [Next]_vars => FreshIds'
  BY FreshIdsNext
<1> QED
  BY <1>1, <1>2, Invariance, PTL DEF Spec

-----------------------------------------------------------------------------
(***************************************************************************)
(* The refinement mapping: which abstract step each commit is.             *)
(***************************************************************************)
\* The abstract active profile is the one active row.
LEMMA ActiveRowOfOne ==
  ASSUME NEW db, NEW p \in ProfileId, db.active = {p}
  PROVE  ActiveRow(db) = p
  BY DEF ActiveRow

\* While calls are served there is an abstract active profile.
LEMMA ActiveRowExists ==
  ASSUME IndInv, ExactlyOneActive(disk)
  PROVE  ActiveRow(disk) # NoProfile
<1>1. PICK p \in disk.profiles : disk.active = {p}
  BY DEF ExactlyOneActive
<1>2. p \in ProfileId
  BY <1>1 DEF IndInv, TypeOK, Database
<1> QED
  BY <1>1, <1>2, ActiveRowOfOne, ProfileIdAssumption

LEMMA InitRefines == Init => Registry!RegistryInit
  BY DEF Init, EmptyDatabase, ActiveRow, Slot, Registry!Slot, Registry!RegistryInit

\* The first start.
LEMMA EnsureRefines ==
  ASSUME IndInv, EnsureDefaultProfile
  PROVE  Registry!RegistryNext \/ UNCHANGED disk
<1>1. phase = "ensure"
  BY DEF EnsureDefaultProfile
<1>2. conn = disk /\ disk \in Database
  <2>1. \A w \in Worker : pc[w] = "idle"
    BY <1>1 DEF IndInv, CallInProgress
  <2>2. mutex = NoWorker
    BY <2>1 DEF IndInv, MutexHeld, TypeOK, Locked
  <2> QED
    BY <2>2 DEF IndInv, UnlockedIsCommitted, TypeOK
<1>3. CASE conn.active # {}
  BY <1>2, <1>3 DEF EnsureDefaultProfile
<1>4. CASE conn.active = {}
  <2>1. PICK p \in ProfileId \ disk.profiles : disk' = InsertActive(disk, p, DefaultName)
    BY <1>2, <1>4 DEF EnsureDefaultProfile
  <2>2. /\ disk'.profiles = disk.profiles \cup {p} /\ disk'.actions = disk.actions
        /\ disk'.name = [disk.name EXCEPT ![p] = DefaultName] /\ disk'.active = {p}
    BY <1>2, <1>4, <2>1 DEF InsertActive, InsertProfile, SetActive, Database
  <2>3. ActiveRow(disk) = NoProfile /\ ActiveRow(disk') = p
    BY <1>2, <1>4, <2>2, ActiveRowOfOne DEF ActiveRow
  <2>4. ActiveRow(disk)' = p
    BY <2>3 DEF ActiveRow
  <2>5. Registry!AddDefault(p)
    BY <2>1, <2>2, <2>3, <2>4 DEF Registry!AddDefault
  <2> QED
    BY <2>5 DEF Registry!RegistryNext
<1> QED
  BY <1>3, <1>4

\* create_profile: its id is fresh and its name not blank.
LEMMA CreateRefines ==
  ASSUME IndInv, FreshIds, NEW w \in Worker, CreateProfile(w)
  PROVE  Registry!RegistryNext
<1> DEFINE c == call[w]
<1>1. /\ pc[w] = "called" /\ mutex = NoWorker /\ c.op = "create" /\ c.name \notin BlankName
      /\ disk' = InsertProfile(conn, c.profile, c.name)
  BY DEF CreateProfile, Enters, BlankCreate
<1>2. /\ c.profile \in ProfileId /\ c.name \in Name /\ disk \in Database /\ conn = disk
      /\ c.profile \notin disk.profiles
  BY <1>1, WorkerFacts, CallType DEF FreshIds
<1>3. /\ disk'.profiles = disk.profiles \cup {c.profile} /\ disk'.actions = disk.actions
      /\ disk'.name = [disk.name EXCEPT ![c.profile] = c.name] /\ disk'.active = disk.active
  BY <1>1, <1>2 DEF InsertProfile, Database
<1>4. ActiveRow(disk) # NoProfile
  BY <1>1, InCall, ActiveRowExists
<1>5. ActiveRow(disk)' = ActiveRow(disk)
  BY <1>3 DEF ActiveRow
<1>6. Registry!AddProfile(c.profile, c.name)
  BY <1>1, <1>2, <1>3, <1>4, <1>5 DEF Registry!AddProfile
<1> QED
  BY <1>2, <1>6 DEF Registry!RegistryNext

\* rename_profile: the UPDATE is the abstract step; the row is still there.
LEMMA RenameRefines ==
  ASSUME IndInv, NEW w \in Worker, RenameUpdate(w)
  PROVE  Registry!RegistryNext \/ UNCHANGED disk
<1> DEFINE c == call[w]
<1>1. CASE Fail(w, "not_found")
  BY <1>1 DEF Fail
<1>2. CASE ~ Fail(w, "not_found")
  <2>1. /\ pc[w] = "update" /\ mutex = NoWorker /\ c.profile \in conn.profiles
        /\ disk' = UpdateName(conn, c.profile, c.name)
    BY <1>2 DEF RenameUpdate
  <2>2. c.op = "rename" /\ c.name \notin BlankName /\ disk \in Database /\ conn = disk
    BY <2>1, WorkerFacts DEF CallInProgress
  <2>3. c.profile \in ProfileId /\ c.name \in Name
    BY <2>2, WorkerFacts, CallType
  <2>4. /\ disk'.profiles = disk.profiles /\ disk'.actions = disk.actions
        /\ disk'.name = [disk.name EXCEPT ![c.profile] = c.name] /\ disk'.active = disk.active
    BY <2>1, <2>2 DEF UpdateName, Database
  <2>5. ActiveRow(disk)' = ActiveRow(disk)
    BY <2>4 DEF ActiveRow
  <2>6. Registry!Rename(c.profile, c.name)
    BY <2>1, <2>2, <2>4, <2>5 DEF Registry!Rename
  <2> QED
    BY <2>3, <2>6 DEF Registry!RegistryNext
<1> QED
  BY <1>1, <1>2

\* Replacing the rows of one slot is an abstract Bind.
LEMMA BindRefines ==
  ASSUME IndInv, NEW w \in Worker, call[w].op \in {"save", "clear"},
         NEW acts \in ActionList \cup {<<>>},
         call[w].profile \in disk.profiles,
         disk' = SetActions(disk, call[w].slot, acts)
  PROVE  Registry!RegistryNext
<1> DEFINE s == call[w].slot
<1>1. disk \in Database /\ s \in Slot /\ s[1] = call[w].profile
  BY WorkerFacts, CallType
<1>2. PICK p \in ProfileId, k \in ControlId : s = <<p, k>>
  BY <1>1 DEF Slot
<1>3. /\ disk'.profiles = disk.profiles /\ disk'.name = disk.name /\ disk'.active = disk.active
      /\ disk'.actions = [disk.actions EXCEPT ![s] = acts]
  BY <1>1 DEF SetActions, Database
<1>4. ActiveRow(disk)' = ActiveRow(disk)
  BY <1>3 DEF ActiveRow
<1>5. p \in disk.profiles
  BY <1>1, <1>2
<1>6. Registry!Bind(p, k, acts)
  BY <1>2, <1>3, <1>4, <1>5 DEF Registry!Bind
<1> QED
  BY <1>2, <1>6 DEF Registry!RegistryNext

LEMMA ClearRefines ==
  ASSUME IndInv, NEW w \in Worker, ClearAssignment(w)
  PROVE  Registry!RegistryNext \/ UNCHANGED disk
<1>1. CASE Fail(w, "not_found")
  BY <1>1 DEF Fail
<1>2. CASE ~ Fail(w, "not_found")
  <2>1. /\ mutex = NoWorker /\ call[w].op = "clear" /\ call[w].profile \in conn.profiles
        /\ disk' = SetActions(conn, call[w].slot, <<>>)
    BY <1>2 DEF ClearAssignment, Enters
  <2>2. conn = disk
    BY <2>1, WorkerFacts
  <2> QED
    BY <2>1, <2>2, BindRefines
<1> QED
  BY <1>1, <1>2

\* COMMIT is the one abstract step of set_active_profile and of save_assignment.
LEMMA CommitRefines ==
  ASSUME IndInv, NEW w \in Worker, Commit(w)
  PROVE  Registry!RegistryNext
<1> DEFINE c == call[w]
<1>1. /\ pc[w] = "commit" /\ disk' = Effect(c, disk) /\ disk \in Database
      /\ c.op \in {"set_active", "save"} /\ c.profile \in disk.profiles
  BY WorkerFacts, CommitIndInv DEF Commit, CallInProgress, OpenTransaction, Locked
<1>2. CASE c.op = "save"
  <2>1. disk' = SetActions(disk, c.slot, c.actions)
    BY <1>1, <1>2 DEF Effect
  <2>2. c.actions \in ActionList
    BY <1>2, WorkerFacts, CallType
  <2> QED
    BY <1>1, <1>2, <2>1, <2>2, BindRefines
<1>3. CASE c.op = "set_active"
  <2>1. disk' = SetActive(disk, {c.profile})
    BY <1>1, <1>3 DEF Effect
  <2>2. /\ disk'.profiles = disk.profiles /\ disk'.name = disk.name
        /\ disk'.active = {c.profile} /\ disk'.actions = disk.actions
    BY <1>1, <2>1 DEF SetActive, Database
  <2>3. c.profile \in ProfileId
    BY <1>1 DEF Database
  <2>4. ActiveRow(disk') = c.profile
    BY <2>2, <2>3, ActiveRowOfOne
  <2>5. ActiveRow(disk)' = c.profile
    BY <2>4 DEF ActiveRow
  <2>6. mutex = w
    BY <1>1, WorkerFacts DEF Locked
  <2>7. ActiveRow(disk) # NoProfile
    BY <1>1, <2>6, InCall, ActiveRowExists
  <2>8. Registry!SetActive(c.profile)
    BY <1>1, <2>2, <2>5, <2>7 DEF Registry!SetActive
  <2> QED
    BY <2>3, <2>8 DEF Registry!RegistryNext
<1> QED
  BY <1>1, <1>2, <1>3

\* Reads change nothing.
LEMMA ReadRefines ==
  ASSUME NEW w \in Worker, ListProfiles(w) \/ SnapshotAssignments(w) \/ FindAssignment(w)
  PROVE  UNCHANGED disk
  BY DEF ListProfiles, SnapshotAssignments, FindAssignment

\* Every step is an abstract step or leaves the committed database alone.
LEMMA NextRefines ==
  ASSUME IndInv, FreshIds, [Next]_vars
  PROVE  [Registry!RegistryNext]_(Registry!registryVars)
<1>1. Registry!RegistryNext \/ UNCHANGED disk
  <2>1. CASE UNCHANGED vars
    BY <2>1 DEF vars
  <2>2. CASE Startup \/ Crash
    BY <2>2, EnsureRefines DEF Startup, Crash, Open, CheckActive
  <2>3. ASSUME NEW w \in Worker, (\E c \in Call : Invoke(w, c)) \/ Return(w) \/ StatementFails(w)
        PROVE  UNCHANGED disk
    BY <2>3, StatementLeavesDisk DEF LeavesDisk
  <2>4. ASSUME NEW w \in Worker, Step(w) PROVE Registry!RegistryNext \/ UNCHANGED disk
    <3>1. CASE CreateProfile(w)
      BY <3>1, CreateRefines
    <3>2. CASE RenameUpdate(w)
      BY <3>2, RenameRefines
    <3>3. CASE ClearAssignment(w)
      BY <3>3, ClearRefines
    <3>4. CASE Commit(w)
      BY <3>4, CommitRefines
    <3>5. CASE ListProfiles(w) \/ SnapshotAssignments(w) \/ FindAssignment(w)
      BY <3>5, ReadRefines
    <3>6. CASE ~ (CreateProfile(w) \/ RenameUpdate(w) \/ ClearAssignment(w) \/ Commit(w)
                    \/ ListProfiles(w) \/ SnapshotAssignments(w) \/ FindAssignment(w))
      BY <2>4, <3>6, StatementLeavesDisk DEF Step, LeavesDisk
    <3> QED
      BY <3>1, <3>2, <3>3, <3>4, <3>5, <3>6
  <2> QED
    BY <2>1, <2>2, <2>3, <2>4 DEF Next
<1>2. UNCHANGED disk => UNCHANGED Registry!registryVars
  BY DEF Registry!registryVars, ActiveRow
<1> QED
  BY <1>1, <1>2

\* The SQLite repository implements the abstract registry, for any number of
\* workers, profiles and controls: transactions, failed statements, the two
\* critical sections of rename_profile, crashes and restarts are invisible in the
\* committed database.
THEOREM StoreImplementsRegistry == Spec => ImplementsRegistry
<1>1. Init => Registry!RegistryInit
  BY InitRefines
<1>2. IndInv /\ FreshIds /\ [Next]_vars => [Registry!RegistryNext]_(Registry!registryVars)
  BY NextRefines
<1> QED
  BY <1>1, <1>2, AlwaysFresh, PTL DEF Spec, ImplementsRegistry, Registry!RegistrySpec
=============================================================================

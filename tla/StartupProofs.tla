---------------------------- MODULE StartupProofs ----------------------------
(***************************************************************************)
(* Proofs about Startup, for any set of processes and any bounds on how    *)
(* often they fail or are killed.                                          *)
(***************************************************************************)
EXTENDS Startup, TLAPS

LEMMA InitIndInv == Init => IndInv
BY StartupAssumption, StartupBounds
DEF Init, IndInv, TypeOK, OneFile, LockIsHeld, LockNamesOwner, LiveSocketStays, StillSo,
    NoConflict, Guarded, Ended, Statements

\* The mutual exclusion: past the lock there is one process.
LEMMA OneGuarded ==
  ASSUME IndInv, NEW p \in Process, NEW q \in Process, pc[p] \in Guarded, pc[q] \in Guarded
  PROVE  p = q
<1>1. handle[p] # NoInode /\ handle[q] # NoInode
  BY DEF IndInv, TypeOK, Guarded, Ended
<1>2. handle[p] = handle[q]
  BY <1>1 DEF IndInv, OneFile
<1> QED
  BY <1>2 DEF IndInv, LockIsHeld

\* The steps that touch the lock file.
LEMMA LockStep ==
  ASSUME IndInv, NEW p \in Process, OpenLock(p) \/ TryLock(p) \/ Truncate(p) \/ WritePid(p)
  PROVE  IndInv'
<1> USE DEF IndInv
<1>1. CASE OpenLock(p)
  <2>1. /\ pc[p] \in Ended /\ pc' = [pc EXCEPT ![p] = "opened"]
        /\ path' \in Inode /\ (path # NoInode => path' = path)
        /\ handle' = [handle EXCEPT ![p] = path']
        /\ UNCHANGED <<holder, pid, step, schema, active, socket, failures, kills>>
    BY <1>1 DEF OpenLock, Goto, database, counters, TypeOK
  <2>2. TypeOK'
    BY <2>1, StartupAssumption DEF TypeOK, Ended
  <2>3. OneFile' /\ LockIsHeld'
    BY <2>1, StartupAssumption DEF TypeOK, OneFile, LockIsHeld, Guarded, Ended
  <2>4. LockNamesOwner' /\ LiveSocketStays' /\ StillSo' /\ NoConflict'
    BY <2>1 DEF TypeOK, LockNamesOwner, LiveSocketStays, StillSo, NoConflict, Guarded, Ended
  <2> QED
    BY <2>2, <2>3, <2>4
<1>2. CASE TryLock(p)
  <2>1. /\ pc[p] = "opened" /\ handle[p] \in Inode
        /\ UNCHANGED <<path, handle, pid, step, schema, active, socket, failures, kills>>
    BY <1>2 DEF TryLock, database, counters, TypeOK, Ended
  <2>2. CASE holder[handle[p]] = NoProcess
    <3>1. /\ holder' = [holder EXCEPT ![handle[p]] = p]
          /\ pc' = [pc EXCEPT ![p] = "locked"]
      BY <1>2, <2>2 DEF TryLock, Goto
    <3>2. TypeOK'
      BY <2>1, <3>1 DEF TypeOK, Guarded, Ended
    <3>3. LockIsHeld'
      BY <2>1, <2>2, <3>1, StartupAssumption DEF TypeOK, LockIsHeld
    <3>4. OneFile' /\ LockNamesOwner' /\ LiveSocketStays' /\ StillSo' /\ NoConflict'
      BY <2>1, <3>1 DEF TypeOK, OneFile, LockNamesOwner, LiveSocketStays, StillSo, NoConflict
    <3> QED
      BY <3>2, <3>3, <3>4
  <2>3. CASE holder[handle[p]] # NoProcess
    <3>1. holder' = holder /\ pc' = [pc EXCEPT ![p] = "refused"]
      BY <1>2, <2>3 DEF TryLock, Goto
    <3> QED
      BY <2>1, <3>1 DEF TypeOK, OneFile, LockIsHeld, LockNamesOwner, LiveSocketStays, StillSo,
                        NoConflict, Guarded, Ended
  <2> QED
    BY <2>2, <2>3
<1>3. CASE Truncate(p) \/ WritePid(p)
  <2>1. PICK owner \in {p, NoProcess} :
          /\ pid' = [pid EXCEPT ![handle[p]] = owner]
          /\ \/ pc[p] = "locked" /\ pc' = [pc EXCEPT ![p] = "truncated"]
             \/ owner = p /\ pc[p] = "truncated" /\ pc' = [pc EXCEPT ![p] = "guarded"]
          /\ UNCHANGED <<path, handle, holder, step, schema, active, socket, failures, kills>>
    BY <1>3 DEF Truncate, WritePid, Goto, database, counters
  <2>2. handle[p] \in Inode
    BY <2>1 DEF TypeOK, Ended
  <2>3. TypeOK' /\ OneFile' /\ LockIsHeld' /\ LiveSocketStays' /\ StillSo' /\ NoConflict'
    BY <2>1, <2>2 DEF TypeOK, OneFile, LockIsHeld, LiveSocketStays, StillSo, NoConflict,
                      Guarded, Ended
  <2>4. LockNamesOwner'
    <3>1. \A q \in Process : pc[q] \in Guarded => q = p
      BY <2>1, OneGuarded DEF Guarded
    <3> QED
      BY <2>1, <2>2, <3>1 DEF TypeOK, LockNamesOwner
  <2> QED
    BY <2>3, <2>4
<1> QED
  BY <1>1, <1>2, <1>3

\* The steps past the lock: they only touch the database and the socket.
LEMMA GuardedStep ==
  ASSUME IndInv, NEW p \in Process,
         \/ OpenDatabase(p) \/ Migrate(p) \/ LoadActive(p) \/ InsertDefault(p) \/ CheckActive(p)
         \/ FindSocket(p) \/ RemoveSocket(p) \/ Bind(p)
  PROVE  IndInv'
<1> USE DEF IndInv
<1>0. \A q \in Process : pc[q] \in Guarded => q = p
  <2>1. pc[p] \in Guarded
    BY DEF OpenDatabase, Migrate, LoadActive, InsertDefault, CheckActive, FindSocket,
           RemoveSocket, Bind, Guarded
  <2> QED
    BY <2>1, OneGuarded
<1>1. CASE OpenDatabase(p)
  BY <1>0, <1>1 DEF OpenDatabase, Goto, files, counters, TypeOK, OneFile, LockIsHeld,
     LockNamesOwner, LiveSocketStays, StillSo, NoConflict, Guarded, Ended, Statements
<1>2. CASE Migrate(p)
  <2>1. /\ pc[p] = "migrating" /\ step[p] \in 0 .. Statements - 1
        /\ schema \subseteq 1 .. Statements
    BY <1>2 DEF Migrate, TypeOK, StillSo, Statements
  <2>2. step[p] + 1 \in Repeatable /\ step[p] + 1 \in 1 .. Statements
    BY <2>1 DEF Repeatable, Statements
  <2>3. /\ step' = [step EXCEPT ![p] = step[p] + 1]
        /\ schema' = schema \cup {step[p] + 1}
        /\ pc' = [pc EXCEPT ![p] = IF step[p] + 1 = Statements THEN "loading" ELSE "migrating"]
        /\ UNCHANGED <<path, handle, holder, pid, active, socket, failures, kills>>
    BY <1>2, <2>2 DEF Migrate, Goto, files, counters
  <2>4. schema' \subseteq 1 .. Statements
    BY <2>1, <2>2, <2>3
  <2>5. TypeOK'
    BY <2>1, <2>2, <2>3, <2>4 DEF TypeOK, Guarded, Ended, Statements
  <2>6. StillSo'
    BY <1>0, <2>1, <2>2, <2>3, <2>4 DEF TypeOK, StillSo, Guarded, Statements
  <2> QED
    BY <1>0, <2>1, <2>3, <2>5, <2>6 DEF TypeOK, OneFile, LockIsHeld, LockNamesOwner, LiveSocketStays,
       NoConflict, Guarded, Ended
<1>3. CASE LoadActive(p)
  BY <1>0, <1>3 DEF LoadActive, Goto, files, database, counters, TypeOK, OneFile, LockIsHeld,
     LockNamesOwner, LiveSocketStays, StillSo, NoConflict, Guarded, Ended
<1>4. CASE InsertDefault(p)
  BY <1>0, <1>4 DEF InsertDefault, Goto, files, counters, TypeOK, OneFile, LockIsHeld,
     LockNamesOwner, LiveSocketStays, StillSo, NoConflict, Guarded, Ended
<1>5. CASE CheckActive(p)
  BY <1>0, <1>5 DEF CheckActive, Goto, files, database, counters, TypeOK, OneFile, LockIsHeld,
     LockNamesOwner, LiveSocketStays, StillSo, NoConflict, Guarded, Ended
<1>6. CASE FindSocket(p)
  BY <1>0, <1>6 DEF FindSocket, Goto, files, database, counters, TypeOK, OneFile, LockIsHeld,
     LockNamesOwner, LiveSocketStays, StillSo, NoConflict, Guarded, Ended
<1>7. CASE RemoveSocket(p)
  BY <1>0, <1>7 DEF RemoveSocket, Goto, files, database, counters, TypeOK, OneFile, LockIsHeld,
     LockNamesOwner, LiveSocketStays, StillSo, NoConflict, Guarded, Ended
<1>8. CASE Bind(p)
  BY <1>0, <1>8 DEF Bind, Goto, files, database, counters, TypeOK, OneFile, LockIsHeld,
     LockNamesOwner, LiveSocketStays, StillSo, NoConflict, Guarded, Ended
<1> QED
  BY <1>1, <1>2, <1>3, <1>4, <1>5, <1>6, <1>7, <1>8

\* The steps that end a process.
LEMMA EndStep ==
  ASSUME IndInv, NEW p \in Process, Fail(p) \/ Exit(p) \/ Kill(p)
  PROVE  IndInv'
<1> USE DEF IndInv
<1>1. CASE Fail(p)
  BY <1>1, StartupBounds DEF Fail, Starting, Goto, files, database, TypeOK, OneFile, LockIsHeld,
     LockNamesOwner, LiveSocketStays, StillSo, NoConflict, Guarded, Ended
<1>2. CASE Exit(p) \/ Kill(p)
  <2>1. /\ pc[p] \notin Ended
        /\ \E place \in Ended : pc' = [pc EXCEPT ![p] = place]
        /\ handle' = [handle EXCEPT ![p] = NoInode]
        /\ holder' = [i \in Inode |-> IF holder[i] = p THEN NoProcess ELSE holder[i]]
        /\ path' = path
        /\ UNCHANGED <<pid, step, schema, active, failures>>
    BY <1>2 DEF Exit, Kill, Running, Release, Goto, database, counters, Ended
  <2>2. /\ socket' \in {socket, StaleSocket}
        /\ socket' # socket => socket = p
        /\ kills' \in 0 .. MaxKills
    BY <1>2, StartupBounds DEF Exit, Kill, counters, TypeOK
  <2>3. TypeOK'
    BY <2>1, <2>2, StartupAssumption DEF TypeOK, Ended
  <2>4. OneFile' /\ LockNamesOwner' /\ NoConflict'
    BY <2>1 DEF TypeOK, OneFile, LockNamesOwner, NoConflict, Guarded, Ended
  <2>5. LockIsHeld'
    BY <2>1, StartupAssumption DEF TypeOK, LockIsHeld, OneFile, Guarded, Ended
  <2>6. LiveSocketStays'
    BY <2>1, <2>2 DEF TypeOK, LiveSocketStays, Ended
  <2>7. StillSo'
    BY <2>1, <2>2, StartupAssumption DEF TypeOK, StillSo, Ended
  <2> QED
    BY <2>3, <2>4, <2>5, <2>6, <2>7
<1> QED
  BY <1>1, <1>2

LEMMA NextIndInv == IndInv /\ [Next]_vars => IndInv'
<1>1. IndInv /\ UNCHANGED vars => IndInv'
  BY DEF vars, IndInv, TypeOK, OneFile, LockIsHeld, LockNamesOwner, LiveSocketStays, StillSo,
         NoConflict
<1> QED
  BY <1>1, LockStep, GuardedStep, EndStep DEF Next, Continue

LEMMA Invariance == Spec => []IndInv
BY InitIndInv, NextIndInv, PTL DEF Spec

\* The state of a start always has its types, and only a running process has the
\* lock file open.
THEOREM TypeCorrect == Spec => []TypeOK
<1>1. IndInv => TypeOK
  BY DEF IndInv
<1> QED
  BY <1>1, Invariance, PTL

\* However many processes are started, fail and are killed, one of them at most is
\* past the lock: one opens the database, and one binds the socket.
THEOREM OnlyOneCore == Spec => []OneCore
<1>1. IndInv => OneCore
  BY OneGuarded DEF OneCore
<1> QED
  BY <1>1, Invariance, PTL

\* The lock file always names the Core that holds it.
THEOREM LockAlwaysNamesOwner == Spec => []LockNamesOwner
<1>1. IndInv => LockNamesOwner
  BY DEF IndInv
<1> QED
  BY <1>1, Invariance, PTL

\* A serving Core is never cut off by the removal of a stale socket.
THEOREM SocketAlwaysStays == Spec => []LiveSocketStays
<1>1. IndInv => LiveSocketStays
  BY DEF IndInv
<1> QED
  BY <1>1, Invariance, PTL

\* Whatever earlier processes left half-way, a start meets neither a second active
\* profile nor a socket in its way.
THEOREM NeverConflicts == Spec => []NoConflict
<1>1. IndInv => NoConflict
  BY DEF IndInv
<1> QED
  BY <1>1, Invariance, PTL
=============================================================================

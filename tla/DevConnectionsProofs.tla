----------------------- MODULE DevConnectionsProofs -----------------------
(***************************************************************************)
(* Proofs about DevConnections, for any limit and any set of connections.  *)
(***************************************************************************)
EXTENDS DevConnections, SequenceTheorems, TLAPS

\* Vec::swap_remove shortens the vector by one, and each slot that is left holds
\* what it held, except the removed one, which holds what was last.
LEMMA SwapRemoveProperties ==
  ASSUME NEW S, NEW s \in Seq(S), NEW i \in 1 .. Len(s)
  PROVE  /\ SwapRemove(s, i) \in Seq(S)
         /\ Len(SwapRemove(s, i)) = Len(s) - 1
         /\ \A k \in 1 .. Len(s) - 1 :
              SwapRemove(s, i)[k] = IF k = i THEN s[Len(s)] ELSE s[k]
<1>1. Len(s) \in Nat /\ Len(s) - 1 \in Nat
  OBVIOUS
<1>2. \A k \in 1 .. Len(s) : s[k] \in S
  OBVIOUS
<1>3. \A k \in 1 .. Len(s) - 1 : (IF k = i THEN s[Len(s)] ELSE s[k]) \in S
  BY <1>1, <1>2
<1>4. SwapRemove(s, i) \in [1 .. Len(s) - 1 -> S]
  BY <1>3 DEF SwapRemove
<1> QED
  BY <1>1, <1>4 DEF SwapRemove

\* Joining the worker of slot i removes exactly that worker from the vector.
LEMMA JoinRemovesOne ==
  ASSUME IndInv, NEW i \in 1 .. Len(workers), Join(i)
  PROVE  /\ workers' \in Seq(Handle)
         /\ Len(workers') = Len(workers) - 1
         /\ \A k \in 1 .. Len(workers') :
              workers'[k] = IF k = i THEN workers[Len(workers)] ELSE workers[k]
         /\ Tracked' = Tracked \ {workers[i]}
         /\ \A j, k \in 1 .. Len(workers') : workers'[j] = workers'[k] => j = k
<1>0. workers \in Seq(Handle) /\ Len(workers) \in Nat
  BY DEF IndInv, TypeOK
<1>1. /\ workers' \in Seq(Handle)
      /\ Len(workers') = Len(workers) - 1
      /\ \A k \in 1 .. Len(workers') :
           workers'[k] = IF k = i THEN workers[Len(workers)] ELSE workers[k]
  BY <1>0, SwapRemoveProperties DEF Join
<1>2. \A j, k \in 1 .. Len(workers) : workers[j] = workers[k] => j = k
  BY DEF IndInv, EveryThreadTracked
<1>3. \A j, k \in 1 .. Len(workers') : workers'[j] = workers'[k] => j = k
  BY <1>0, <1>1, <1>2
<1>4. ASSUME NEW h PROVE h \in Tracked' => h \in Tracked \ {workers[i]}
  BY <1>0, <1>1, <1>2 DEF Tracked
<1>5. ASSUME NEW h \in Tracked \ {workers[i]} PROVE h \in Tracked'
  <2>1. PICK k \in 1 .. Len(workers) : h = workers[k] /\ k # i
    BY DEF Tracked
  <2>2. CASE k = Len(workers)
    <3>1. i \in 1 .. Len(workers') /\ workers'[i] = h
      BY <1>0, <1>1, <2>1, <2>2
    <3> QED
      BY <3>1 DEF Tracked
  <2>3. CASE k # Len(workers)
    <3>1. k \in 1 .. Len(workers') /\ workers'[k] = h
      BY <1>0, <1>1, <2>1, <2>3
    <3> QED
      BY <3>1 DEF Tracked
  <2> QED
    BY <2>2, <2>3
<1> QED
  BY <1>1, <1>3, <1>4, <1>5

LEMMA InitIndInv == Init => IndInv
<1> SUFFICES ASSUME Init PROVE IndInv
  OBVIOUS
<1>1. Len(workers) = 0
  BY DEF Init
<1>2. TypeOK /\ WithinLimit /\ FinishedAtCall /\ PassedSlots /\ ScanDone
  BY <1>1, MaxAssumption DEF Init, TypeOK, WithinLimit, FinishedAtCall, PassedSlots, ScanDone
<1>3. EveryThreadTracked
  BY <1>1 DEF Init, EveryThreadTracked, Tracked, Threads
<1> QED
  BY <1>2, <1>3 DEF IndInv

\* A turn of the reaping loop.
LEMMA ReapIndInv == IndInv /\ Reap => IndInv'
<1> SUFFICES ASSUME IndInv, Reap PROVE IndInv'
  OBVIOUS
<1> USE DEF IndInv
<1>0. /\ workers \in Seq(Handle) /\ Len(workers) \in Nat
      /\ index \in 1 .. Len(workers) /\ pc = "reap"
      /\ UNCHANGED <<client, pc, stream, exited>>
  BY DEF Reap, TypeOK
<1>1. CASE thread[workers[index]] = "finished"
  <2>1. Join(index) /\ index' = index
    BY <1>1 DEF Reap
  <2>2. /\ workers' \in Seq(Handle)
        /\ Len(workers') = Len(workers) - 1
        /\ \A k \in 1 .. Len(workers') :
             workers'[k] = IF k = index THEN workers[Len(workers)] ELSE workers[k]
        /\ Tracked' = Tracked \ {workers[index]}
        /\ \A j, k \in 1 .. Len(workers') : workers'[j] = workers'[k] => j = k
    BY <1>0, <2>1, JoinRemovesOne
  <2>3. /\ workers[index] \in Handle
        /\ thread' = [thread EXCEPT ![workers[index]] = "none"]
    BY <1>0, <2>1 DEF Join
  <2>4. TypeOK'
    BY <1>0, <1>1, <2>1, <2>2, <2>3 DEF TypeOK
  <2>5. EveryThreadTracked'
    BY <2>2, <2>3 DEF EveryThreadTracked, Threads, TypeOK
  <2>6. WithinLimit' /\ PassedSlots' /\ ScanDone'
    BY <1>0, <2>1, <2>2, MaxAssumption DEF WithinLimit, PassedSlots, ScanDone
  <2>7. FinishedAtCall'
    BY <1>0, <2>3 DEF FinishedAtCall, TypeOK
  <2> QED
    BY <2>4, <2>5, <2>6, <2>7
<1>2. CASE thread[workers[index]] # "finished"
  <2>1. index' = index + 1 /\ UNCHANGED <<workers, thread>>
    BY <1>2 DEF Reap
  <2>2. TypeOK'
    BY <1>0, <2>1 DEF TypeOK
  <2>3. EveryThreadTracked' /\ WithinLimit' /\ FinishedAtCall' /\ ScanDone'
    BY <1>0, <2>1
    DEF EveryThreadTracked, Tracked, Threads, WithinLimit, FinishedAtCall, ScanDone
  <2>4. PassedSlots'
    <3>1. workers[index] \in Threads
      BY <1>0 DEF EveryThreadTracked, Tracked
    <3>2. workers[index] \notin exited
      BY <1>0, <1>2, <3>1 DEF FinishedAtCall, Threads
    <3> QED
      BY <1>0, <2>1, <3>2 DEF PassedSlots
  <2> QED
    BY <2>2, <2>3, <2>4
<1> QED
  BY <1>1, <1>2

\* What the other steps do to the workers' vector: nothing, or Append.
LEMMA OtherIndInv ==
  IndInv /\ (ReapDone \/ Refuse \/ SpawnFails \/ \E h \in Handle : Incoming(h) \/ ClientLeaves(h) \/ Finish(h))
    => IndInv'
<1> USE DEF IndInv
<1>1. ASSUME IndInv, ReapDone PROVE IndInv'
  BY <1>1 DEF ReapDone, TypeOK, EveryThreadTracked, Tracked, Threads, WithinLimit,
              FinishedAtCall, PassedSlots, ScanDone
<1>2. ASSUME IndInv, Refuse \/ SpawnFails PROVE IndInv'
  BY <1>2 DEF Refuse, SpawnFails, Return, TypeOK, EveryThreadTracked, Tracked, Threads,
              WithinLimit, FinishedAtCall, PassedSlots, ScanDone
<1>3. ASSUME IndInv, NEW h \in Handle, Incoming(h) PROVE IndInv'
  BY <1>3 DEF Incoming, TypeOK, EveryThreadTracked, Tracked, Threads, WithinLimit,
              FinishedAtCall, PassedSlots, ScanDone
<1>4. ASSUME IndInv, NEW h \in Handle, ClientLeaves(h) PROVE IndInv'
  BY <1>4 DEF ClientLeaves, TypeOK, EveryThreadTracked, Tracked, Threads, WithinLimit,
              FinishedAtCall, PassedSlots, ScanDone
<1>5. ASSUME IndInv, NEW h \in Handle, Finish(h) PROVE IndInv'
  BY <1>5 DEF Finish, TypeOK, EveryThreadTracked, Tracked, Threads, WithinLimit,
              FinishedAtCall, PassedSlots, ScanDone
<1> QED
  BY <1>1, <1>2, <1>3, <1>4, <1>5

LEMMA SpawnIndInv == IndInv /\ Spawn => IndInv'
<1> SUFFICES ASSUME IndInv, Spawn PROVE IndInv'
  OBVIOUS
<1> USE DEF IndInv
<1>0. /\ workers \in Seq(Handle) /\ Len(workers) \in Nat
      /\ stream \in Handle /\ thread[stream] = "pending"
      /\ pc' = "accept" /\ index' = 1 /\ exited' = {} /\ stream' = NoHandle
      /\ thread' = [thread EXCEPT ![stream] = "running"]
      /\ workers' = Append(workers, stream) /\ client' = client
  BY DEF Spawn, Return, TypeOK
<1>1. /\ workers' \in Seq(Handle) /\ Len(workers') = Len(workers) + 1
      /\ \A k \in 1 .. Len(workers) : workers'[k] = workers[k]
      /\ workers'[Len(workers) + 1] = stream
  BY <1>0
<1>2. TypeOK'
  BY <1>0, <1>1 DEF TypeOK
<1>3. WithinLimit' /\ FinishedAtCall' /\ PassedSlots' /\ ScanDone'
  BY <1>0, <1>1, MaxAssumption DEF Spawn, WithinLimit, FinishedAtCall, PassedSlots, ScanDone
<1>4. stream \notin Tracked
  BY <1>0 DEF EveryThreadTracked, Threads
<1>5. Tracked' = Tracked \cup {stream}
  <2>1. ASSUME NEW h \in Tracked' PROVE h \in Tracked \cup {stream}
    BY <1>0, <1>1, <2>1 DEF Tracked
  <2>2. ASSUME NEW h \in Tracked PROVE h \in Tracked'
    <3>1. PICK k \in 1 .. Len(workers) : h = workers[k]
      BY DEF Tracked
    <3>2. k \in 1 .. Len(workers') /\ workers'[k] = h
      BY <1>0, <1>1, <3>1
    <3> QED
      BY <3>2 DEF Tracked
  <2>3. stream \in Tracked'
    <3>1. Len(workers) + 1 \in 1 .. Len(workers')
      BY <1>0, <1>1
    <3> QED
      BY <1>1, <3>1 DEF Tracked
  <2> QED
    BY <2>1, <2>2, <2>3
<1>6. Threads' = Threads \cup {stream}
  BY <1>0 DEF Threads, TypeOK
<1>7. \A j, k \in 1 .. Len(workers') : workers'[j] = workers'[k] => j = k
  <2>1. \A k \in 1 .. Len(workers) : workers[k] # stream
    BY <1>4 DEF Tracked
  <2>2. \A j, k \in 1 .. Len(workers) : workers[j] = workers[k] => j = k
    BY DEF EveryThreadTracked
  <2> QED
    BY <1>0, <1>1, <2>1, <2>2
<1>8. EveryThreadTracked'
  BY <1>5, <1>6, <1>7 DEF EveryThreadTracked
<1> QED
  BY <1>2, <1>3, <1>8

LEMMA NextIndInv == IndInv /\ [Next]_vars => IndInv'
<1>1. IndInv /\ UNCHANGED vars => IndInv'
  BY DEF vars, IndInv, TypeOK, EveryThreadTracked, Tracked, Threads, WithinLimit,
         FinishedAtCall, PassedSlots, ScanDone
<1> QED
  BY <1>1, ReapIndInv, OtherIndInv, SpawnIndInv DEF Next, Accept

LEMMA Invariance == Spec => []IndInv
  BY InitIndInv, NextIndInv, PTL DEF Spec

\* The state of the accept loop always has its types.
THEOREM TypeCorrect == Spec => []TypeOK
<1>1. IndInv => TypeOK
  BY DEF IndInv
<1> QED
  BY <1>1, Invariance, PTL

\* Whatever the limit and however workers end while accept reaps: every thread
\* that was spawned and not joined is tracked by exactly one slot of workers.
THEOREM AlwaysTracked == Spec => []EveryThreadTracked
<1>1. IndInv => EveryThreadTracked
  BY DEF IndInv
<1> QED
  BY <1>1, Invariance, PTL

\* The worker threads never exceed MAX_DEV_CONNECTIONS.
THEOREM AlwaysWithinLimit == Spec => []WithinLimit
<1>1. IndInv => WithinLimit
  BY DEF IndInv
<1> QED
  BY <1>1, Invariance, PTL

\* When accept checks the limit, no worker that had finished when it was called
\* still occupies a slot.
THEOREM ReapAlwaysComplete == Spec => []ReapIsComplete
<1>1. ASSUME IndInv PROVE ReapIsComplete
  <2>1. SUFFICES ASSUME pc = "admit", NEW k \in 1 .. Len(workers) PROVE workers[k] \notin exited
    BY DEF ReapIsComplete, Tracked
  <2>2. k \in 1 .. index - 1
    BY <1>1, <2>1 DEF IndInv, TypeOK, ScanDone
  <2> QED
    BY <1>1, <2>1, <2>2 DEF IndInv, PassedSlots
<1> QED
  BY <1>1, Invariance, PTL

\* A handle leaves the vector only when its thread has ended, so the join in the
\* accept loop never waits for a client.
THEOREM JoinNeverWaits == Spec => JoinedHasFinished
<1>1. ASSUME IndInv, [Next]_vars PROVE [\A h \in Tracked \ Tracked' : thread[h] = "finished"]_vars
  <2>1. CASE Reap
    <3>0. index \in 1 .. Len(workers)
      BY <1>1, <2>1 DEF IndInv, TypeOK, Reap
    <3>1. CASE thread[workers[index]] = "finished"
      <4>1. Tracked' = Tracked \ {workers[index]}
        BY <1>1, <2>1, <3>0, <3>1, JoinRemovesOne DEF Reap
      <4> QED
        BY <3>1, <4>1
    <3>2. CASE thread[workers[index]] # "finished"
      BY <2>1, <3>2 DEF Reap, Tracked
    <3> QED
      BY <3>1, <3>2
  <2>2. CASE Spawn
    <3>1. ASSUME NEW k \in 1 .. Len(workers) PROVE workers[k] \in Tracked'
      <4>1. workers \in Seq(Handle) /\ stream \in Handle /\ workers' = Append(workers, stream)
        BY <1>1, <2>2 DEF IndInv, TypeOK, Spawn
      <4>2. k \in 1 .. Len(workers') /\ workers'[k] = workers[k]
        BY <4>1
      <4> QED
        BY <4>2 DEF Tracked
    <3> QED
      BY <3>1 DEF Tracked
  <2>3. CASE ~ Reap /\ ~ Spawn
    <3>1. workers' = workers
      BY <1>1, <2>3 DEF Next, Accept, ReapDone, Refuse, SpawnFails, Incoming, ClientLeaves,
                        Finish, vars
    <3> QED
      BY <3>1 DEF Tracked
  <2> QED
    BY <2>1, <2>2, <2>3
<1> QED
  BY <1>1, Invariance, PTL DEF Spec, JoinedHasFinished
=============================================================================

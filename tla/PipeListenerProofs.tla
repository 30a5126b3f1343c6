------------------------- MODULE PipeListenerProofs -------------------------
(***************************************************************************)
(* Proofs about PipeListener, for any limit and any finite set of          *)
(* connections: its steps are steps of DevConnections, so the invariant    *)
(* proved there bounds the instances of the pipe.                          *)
(***************************************************************************)
EXTENDS PipeListener, DevConnectionsProofs, FiniteSetTheorems

\* Only the connection accept was called with is between the listener and a worker.
OnePending == \A h \in Handle : thread[h] = "pending" => pc # "accept" /\ h = stream

\* A state of the listener and of accept that fit each other.
PipeInv == IndInv /\ OnePending /\ PipeTypeOK

\* Every step of the listener is a step of DevConnections or leaves it alone.
LEMMA PipeStep == [PipeNext]_pipeVars => [Next]_vars
<1>1. ASSUME CreateFirst \/ Connect \/ ConnectReturns \/ CreateFails \/ Open \/ Abandon
      PROVE  UNCHANGED vars
  BY <1>1 DEF CreateFirst, Connect, ConnectReturns, CreateFails, Open, Abandon
<1>2. ASSUME Renew PROVE UNCHANGED vars \/ \E h \in Handle : Incoming(h)
  BY <1>2 DEF Renew
<1>3. PipeAccept => Accept
  BY DEF PipeAccept
<1>4. Workers => \E h \in Handle : ClientLeaves(h) \/ Finish(h)
  BY DEF Workers
<1>5. UNCHANGED pipeVars => UNCHANGED vars
  BY DEF pipeVars, vars
<1> QED
  BY <1>1, <1>2, <1>3, <1>4, <1>5 DEF PipeNext, Listen, Next

\* The pipe listener implements DevConnections: what holds of the accept loop of
\* the development listener holds of the one that renews pipe instances.
THEOREM PipeRefinesDevConnections == PipeSpec => Spec
<1>1. PipeInit => Init
  BY DEF PipeInit
<1> QED
  BY <1>1, PipeStep, PTL DEF PipeSpec, Spec

\* What accept does to the listener's state.
LEMMA AcceptPc ==
  ASSUME IndInv, Accept
  PROVE  pc # "accept" /\ pc' \in {"accept", "reap", "admit"}
BY DEF Accept, Reap, ReapDone, Refuse, Spawn, SpawnFails, Return, IndInv, TypeOK

LEMMA OnePendingStep ==
  ASSUME IndInv, OnePending, [Next]_vars
  PROVE  OnePending'
<1> USE DEF OnePending
<1>0. thread \in [Handle -> {"none", "pending", "running", "finished"}]
  BY DEF IndInv, TypeOK
<1>1. CASE Reap
  <2>1. CASE thread[workers[index]] = "finished"
    BY <1>0, <1>1, <2>1 DEF Reap, Join
  <2>2. CASE thread[workers[index]] # "finished"
    BY <1>1, <2>2 DEF Reap
  <2> QED
    BY <2>1, <2>2
<1>2. CASE ReapDone
  BY <1>2 DEF ReapDone
<1>3. CASE Refuse \/ Spawn \/ SpawnFails
  <2>1. \E outcome \in {"none", "running"} : thread' = [thread EXCEPT ![stream] = outcome]
    BY <1>3 DEF Refuse, Spawn, SpawnFails, Return
  <2> QED
    BY <1>0, <2>1
<1>4. ASSUME NEW g \in Handle, Incoming(g) PROVE OnePending'
  BY <1>0, <1>4 DEF Incoming
<1>5. ASSUME NEW g \in Handle, ClientLeaves(g) \/ Finish(g) PROVE OnePending'
  BY <1>0, <1>5 DEF ClientLeaves, Finish
<1>6. CASE UNCHANGED vars
  BY <1>6 DEF vars
<1> QED
  BY <1>1, <1>2, <1>3, <1>4, <1>5, <1>6 DEF Next, Accept

LEMMA PipeTypeStep ==
  ASSUME PipeInv, TypeOK', [PipeNext]_pipeVars
  PROVE  PipeTypeOK'
<1> USE DEF PipeInv, PipeTypeOK
<1>1. CASE CreateFirst \/ Connect \/ ConnectReturns \/ CreateFails \/ Open \/ Abandon
  <2>1. pc' = pc
    BY <1>1 DEF CreateFirst, Connect, ConnectReturns, CreateFails, Open, Abandon, vars
  <2>2. CASE Connect
    <3>1. CASE pending = "listening"
      BY <2>1, <2>2, <3>1 DEF Connect
    <3>2. CASE pending = "opened"
      BY <2>1, <2>2, <3>2 DEF Connect, Connected
    <3>3. CASE pending = "abandoned"
      BY <2>1, <2>2, <3>3 DEF Connect, Connected
    <3> QED
      BY <2>2, <3>1, <3>2, <3>3 DEF Connect
  <2>3. CASE CreateFirst \/ ConnectReturns \/ CreateFails
    BY <2>1, <2>3 DEF CreateFirst, ConnectReturns, CreateFails, Connected
  <2>4. CASE Open \/ Abandon
    BY <2>1, <2>4 DEF Open, Abandon
  <2> QED
    BY <1>1, <2>2, <2>3, <2>4
<1>2. CASE Renew
  BY <1>2 DEF Renew, Incoming, vars
<1>3. CASE PipeAccept
  <2>1. pc # "accept" /\ pc' \in {"accept", "reap", "admit"}
    BY <1>3, AcceptPc DEF PipeAccept
  <2> QED
    BY <1>3, <2>1 DEF PipeAccept
<1>4. CASE Workers
  BY <1>4 DEF Workers, ClientLeaves, Finish
<1>5. CASE UNCHANGED pipeVars
  BY <1>5 DEF pipeVars
<1> QED
  BY <1>1, <1>2, <1>3, <1>4, <1>5 DEF PipeNext, Listen

LEMMA PipeInvariance == PipeSpec => []PipeInv
<1>1. PipeInit => PipeInv
  <2>1. PipeInit => Init /\ pc = "accept"
    BY DEF PipeInit, Init
  <2> QED
    BY <2>1, InitIndInv DEF PipeInit, PipeInv, PipeTypeOK, IndInv, OnePending, Init
<1>2. ASSUME PipeInv, [PipeNext]_pipeVars PROVE PipeInv'
  <2>1. IndInv'
    BY <1>2, PipeStep, NextIndInv DEF PipeInv
  <2>2. TypeOK'
    BY <2>1 DEF IndInv
  <2>3. PipeTypeOK'
    BY <1>2, <2>2, PipeTypeStep
  <2>4. OnePending'
    BY <1>2, PipeStep, OnePendingStep DEF PipeInv
  <2> QED
    BY <2>1, <2>3, <2>4 DEF PipeInv
<1> QED
  BY <1>1, <1>2, PTL DEF PipeSpec

\* The listener's state always has its types, and is waiting for accept exactly
\* while accept runs.
THEOREM PipeTypeCorrect == PipeSpec => []PipeTypeOK
<1>1. PipeInv => PipeTypeOK
  BY DEF PipeInv
<1> QED
  BY <1>1, PipeInvariance, PTL

\* The threads that hold a stream are at most as many as workers has entries.
LEMMA RunningBounded ==
  ASSUME IndInv
  PROVE  LET running == {h \in Handle : thread[h] = "running"} IN
         IsFiniteSet(running) /\ Cardinality(running) <= MaxDevConnections
<1> DEFINE running == {h \in Handle : thread[h] = "running"}
           slots == 1 .. Len(workers)
           slotOf == [k \in slots |-> workers[k]]
<1>1. workers \in Seq(Handle) /\ Len(workers) \in Nat
  BY DEF IndInv, TypeOK
<1>2. IsFiniteSet(slots) /\ Cardinality(slots) = Len(workers)
  BY <1>1, FS_Interval
<1>3. slotOf \in Surjection(slots, Tracked)
  BY <1>1 DEF Surjection, Tracked
<1>4. IsFiniteSet(Tracked) /\ Cardinality(Tracked) <= Len(workers)
  BY <1>2, <1>3, FS_Surjection
<1>5. running \subseteq Tracked
  BY DEF IndInv, EveryThreadTracked, Threads
<1>6. IsFiniteSet(running) /\ Cardinality(running) <= Cardinality(Tracked)
  BY <1>4, <1>5, FS_Subset
<1>7. Cardinality(running) \in Nat /\ Cardinality(Tracked) \in Nat
  BY <1>4, <1>6, FS_CardinalityType
<1> QED
  BY <1>1, <1>4, <1>6, <1>7, MaxAssumption DEF IndInv, WithinLimit

\* Whatever the limit, and however clients and workers come and go, Core never
\* holds so many instances that the pipe cannot be renewed.
THEOREM RenewalAlwaysHasRoom == PipeSpec => []RenewalHasRoom
<1>1. ASSUME PipeInv PROVE RenewalHasRoom
  <2> SUFFICES ASSUME listener = "renew" PROVE Instances < MaxInstances
    BY DEF RenewalHasRoom
  <2> DEFINE running == {h \in Handle : thread[h] = "running"}
  <2>1. IsFiniteSet(running) /\ Cardinality(running) <= MaxDevConnections
    BY <1>1, RunningBounded DEF PipeInv
  <2>2. \A h \in Handle : thread[h] # "pending"
    BY <1>1 DEF PipeInv, PipeTypeOK, OnePending
  <2>3. {h \in Handle : thread[h] \in {"pending", "running"}} = running
    BY <2>2
  <2>4. Cardinality(running) \in Nat
    BY <2>1, FS_CardinalityType
  <2> QED
    BY <2>1, <2>3, <2>4, MaxAssumption DEF Instances, MaxInstances
<1> QED
  BY <1>1, PipeInvariance, PTL
=============================================================================

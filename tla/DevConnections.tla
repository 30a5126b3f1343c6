--------------------------- MODULE DevConnections ---------------------------
(***************************************************************************)
(* DevConnections::accept (keyro-core): the accept loop of the development *)
(* listener and the worker threads it spawns, reaps and bounds.            *)
(*                                                                         *)
(* The listener's thread runs accept for one connection at a time, while   *)
(* workers end at any moment, also in the middle of its reaping loop: a    *)
(* worker whose end comes after its slot was examined stays until the next *)
(* connection.  A connection goes through "none", "pending" (accepted by   *)
(* the listener), "running" (its worker's thread) and "finished" (the      *)
(* thread has ended and is not joined); an id is used again once joined.   *)
(* next_id, which only labels log lines, is left out.                      *)
(***************************************************************************)
EXTENDS Naturals, Sequences, FiniteSets

CONSTANTS
  Handle,             \* connections and the join handles of their workers
  NoHandle,           \* no connection is being accepted
  MaxDevConnections   \* MAX_DEV_CONNECTIONS

ASSUME HandleAssumption == NoHandle \notin Handle
ASSUME MaxAssumption == MaxDevConnections \in Nat \ {0}

VARIABLES
  workers,   \* DevConnections::workers
  thread,    \* where each connection is
  client,    \* connections whose client is still there
  pc,        \* where accept is
  index,     \* the reaping loop's index, counted from 1
  stream,    \* the connection accept was called with
  exited     \* (auxiliary) workers already finished when accept was called

vars == <<workers, thread, client, pc, index, stream, exited>>

Tracked == {workers[k] : k \in 1 .. Len(workers)}
Threads == {h \in Handle : thread[h] \in {"running", "finished"}}

TypeOK ==
  /\ workers \in Seq(Handle)
  /\ thread \in [Handle -> {"none", "pending", "running", "finished"}]
  /\ client \in SUBSET Handle
  /\ pc \in {"accept", "reap", "admit"}
  /\ index \in 1 .. Len(workers) + 1
  /\ stream \in Handle \cup {NoHandle}
  /\ exited \in SUBSET Handle
  /\ pc # "accept" => stream \in Handle /\ thread[stream] = "pending"

Init ==
  /\ workers = <<>>
  /\ thread = [h \in Handle |-> "none"]
  /\ client = {}
  /\ pc = "accept"
  /\ index = 1
  /\ stream = NoHandle
  /\ exited = {}
-----------------------------------------------------------------------------
(***************************************************************************)
(* Clients and workers.                                                    *)
(***************************************************************************)
\* listener.incoming() yields a connection.
Incoming(h) ==
  /\ pc = "accept" /\ thread[h] = "none"
  /\ thread' = [thread EXCEPT ![h] = "pending"]
  /\ client' = client \cup {h}
  /\ pc' = "reap"
  /\ index' = 1
  /\ stream' = h
  /\ exited' = {g \in Handle : thread[g] = "finished"}
  /\ UNCHANGED workers

ClientLeaves(h) ==
  /\ h \in client
  /\ client' = client \ {h}
  /\ UNCHANGED <<workers, thread, pc, index, stream, exited>>

\* handle_dev_connection returns or panics and the thread ends; after a read
\* error its client may still be there, and sees the connection closed.
Finish(h) ==
  /\ thread[h] = "running"
  /\ thread' = [thread EXCEPT ![h] = "finished"]
  /\ client' = client \ {h}
  /\ UNCHANGED <<workers, pc, index, stream, exited>>
-----------------------------------------------------------------------------
(***************************************************************************)
(* accept.                                                                 *)
(***************************************************************************)
\* Vec::swap_remove: the last element takes the place of the removed one.
SwapRemove(s, i) == [k \in 1 .. Len(s) - 1 |-> IF k = i THEN s[Len(s)] ELSE s[k]]

\* Mutation: pop in place of swap_remove, so another worker's handle is dropped.
JoinDropsLast(i) ==
  /\ workers' = SubSeq(workers, 1, Len(workers) - 1)
  /\ thread' = [thread EXCEPT ![workers[i]] = "none"]

\* Remove the slot and join its thread.
Join(i) ==
  /\ workers' = SwapRemove(workers, i)
  /\ thread' = [thread EXCEPT ![workers[i]] = "none"]

\* Mutation: join whoever is next, which waits for it to end.
ReapWaits ==
  /\ pc = "reap" /\ index <= Len(workers)
  /\ thread[workers[index]] = "finished"
  /\ Join(index)
  /\ UNCHANGED <<index, client, pc, stream, exited>>

\* Mutation: the index moves on past the element swapped into the slot.
ReapSkipsSwapped ==
  /\ pc = "reap" /\ index <= Len(workers)
  /\ IF thread[workers[index]] = "finished" THEN Join(index)
     ELSE UNCHANGED <<workers, thread>>
  /\ index' = IF index <= Len(workers') THEN index + 1 ELSE index
  /\ UNCHANGED <<client, pc, stream, exited>>

\* Mutation: a worker is removed without asking whether it has finished.
ReapUnasked ==
  /\ pc = "reap" /\ index <= Len(workers)
  /\ Join(index)
  /\ UNCHANGED <<index, client, pc, stream, exited>>

\* One turn of the loop.
Reap ==
  /\ pc = "reap" /\ index <= Len(workers)
  /\ IF thread[workers[index]] = "finished"
     THEN Join(index) /\ UNCHANGED index
     ELSE index' = index + 1 /\ UNCHANGED <<workers, thread>>
  /\ UNCHANGED <<client, pc, stream, exited>>

ReapDone ==
  /\ pc = "reap" /\ index > Len(workers)
  /\ pc' = "admit"
  /\ UNCHANGED <<workers, thread, client, index, stream, exited>>

\* accept returns.
Return(outcome) ==
  /\ pc' = "accept"
  /\ index' = 1
  /\ stream' = NoHandle
  /\ thread' = [thread EXCEPT ![stream] = outcome]
  /\ exited' = {}

\* At the limit the stream is dropped without an answer.
Refuse ==
  /\ pc = "admit" /\ Len(workers) >= MaxDevConnections
  /\ Return("none")
  /\ client' = client \ {stream}
  /\ UNCHANGED workers

\* Mutation: the limit is compared with >.
SpawnOneMore ==
  /\ pc = "admit" /\ Len(workers) <= MaxDevConnections
  /\ Return("running")
  /\ workers' = Append(workers, stream)
  /\ UNCHANGED client

Spawn ==
  /\ pc = "admit" /\ Len(workers) < MaxDevConnections
  /\ Return("running")
  /\ workers' = Append(workers, stream)
  /\ UNCHANGED client

\* Builder::spawn fails: the closure, and the stream in it, are dropped.
SpawnFails ==
  /\ pc = "admit" /\ Len(workers) < MaxDevConnections
  /\ Return("none")
  /\ client' = client \ {stream}
  /\ UNCHANGED workers

Accept == Reap \/ ReapDone \/ Refuse \/ Spawn \/ SpawnFails

Next ==
  \/ Accept
  \/ \E h \in Handle : Incoming(h) \/ ClientLeaves(h) \/ Finish(h)

Spec == Init /\ [][Next]_vars

\* The listener's thread is scheduled.  Nothing is assumed of clients and workers.
FairSpec == Spec /\ WF_vars(Accept)
-----------------------------------------------------------------------------
(***************************************************************************)
(* Properties.                                                             *)
(***************************************************************************)
\* No thread is lost and none is forgotten: the threads that were spawned and
\* not joined are exactly the entries of workers, each of them once.
EveryThreadTracked ==
  /\ Tracked = Threads
  /\ \A j, k \in 1 .. Len(workers) : workers[j] = workers[k] => j = k

\* MAX_DEV_CONNECTIONS bounds the workers' threads, also while connections and
\* ends of workers race with the reaping loop.
WithinLimit == Len(workers) <= MaxDevConnections

\* Every worker that had finished when accept was called is joined before the
\* limit is checked, wherever swap_remove moved it.
ReapIsComplete == pc = "admit" => exited \cap Tracked = {}

\* A handle leaves workers only after its thread has ended: join never waits.
JoinedHasFinished == [][\A h \in Tracked \ Tracked' : thread[h] = "finished"]_vars

\* "Reap only finished workers so an idle client cannot block acceptance": accept
\* returns although no client leaves and no worker ends.
AcceptReturns == pc = "reap" ~> pc = "accept"

\* The strengthening: a worker that had finished when accept was called still has,
\* or is joined; none is left in a slot the loop has passed; and the loop ends
\* when it has passed them all.
FinishedAtCall == pc # "accept" => \A h \in exited : thread[h] \in {"finished", "none"}
PassedSlots == pc # "accept" => \A k \in 1 .. index - 1 : workers[k] \notin exited
ScanDone == pc = "admit" => index = Len(workers) + 1
IndInv == /\ TypeOK /\ EveryThreadTracked /\ WithinLimit
          /\ FinishedAtCall /\ PassedSlots /\ ScanDone

\* "The ninth concurrent connection is closed without a protocol response"
\* (CORE_TASKS.md): a connection that is refused finds MAX_DEV_CONNECTIONS other
\* clients connected.
RefusedOnlyAtLimit ==
  [][Refuse => Cardinality(client \ {stream}) >= MaxDevConnections]_vars
=============================================================================

---------------------------- MODULE PipeListener ----------------------------
(***************************************************************************)
(* run (keyro-core/windows_ipc.rs): the named-pipe listener that feeds     *)
(* DevConnections on Windows.                                              *)
(*                                                                         *)
(* A pipe has at most MaxDevConnections + 2 instances.  One, `pending`, is *)
(* waiting for the next client.  Once ConnectNamedPipe returns, the next   *)
(* instance is created first, and only then is the connected one handed to *)
(* DevConnections::accept, whose steps are those of DevConnections.        *)
(*                                                                         *)
(* Clients are not synchronised with any of this: one may open an instance *)
(* before ConnectNamedPipe is called on it, and be gone again by then.     *)
(* An instance counts while Core holds its handle.                         *)
(***************************************************************************)
EXTENDS DevConnections

VARIABLES
  listener,    \* where run is
  pending,     \* the instance a client may open next
  connected    \* what connect_pipe returned

pipeVars == <<workers, thread, client, pc, index, stream, exited, listener, pending, connected>>

PipeTypeOK ==
  /\ TypeOK
  /\ listener \in {"create", "connect", "waiting", "renew", "accept", "ended"}
  /\ pending \in {"none", "listening", "opened", "abandoned"}
  /\ connected \in {"none", "ok", "error"}
  /\ listener = "accept" <=> pc # "accept"
  /\ listener \notin {"create", "ended"} => pending # "none"
  /\ listener = "renew" => connected # "none"

PipeInit == Init /\ listener = "create" /\ pending = "none" /\ connected = "none"

\* Instances whose handle Core holds: pending, the one accept was called with,
\* and those of the workers.
Instances ==
  Cardinality({h \in Handle : thread[h] \in {"pending", "running"}})
    + IF pending = "none" THEN 0 ELSE 1

\* Mutation: there is no room for the connection accept is about to refuse.
MaxInstancesTight == MaxDevConnections + 1

\* The nMaxInstances of create_pipe.
MaxInstances == MaxDevConnections + 2
-----------------------------------------------------------------------------
(***************************************************************************)
(* Clients.                                                                *)
(***************************************************************************)
Open ==
  /\ pending = "listening"
  /\ pending' = "opened"
  /\ UNCHANGED <<vars, listener, connected>>

\* A client leaves before its connection is handed over.
Abandon ==
  /\ pending = "opened"
  /\ pending' = "abandoned"
  /\ UNCHANGED <<vars, listener, connected>>
-----------------------------------------------------------------------------
(***************************************************************************)
(* run.                                                                    *)
(***************************************************************************)
CreateFirst ==
  /\ listener = "create" /\ pending = "none"
  /\ listener' = "connect" /\ pending' = "listening"
  /\ UNCHANGED <<vars, connected>>

\* connect_pipe returned.
Connected(result) == listener' = "renew" /\ connected' = result

\* Mutation: ERROR_PIPE_CONNECTED is an error like any other.
ConnectRejectsEarly ==
  /\ listener = "connect"
  /\ IF pending = "listening" THEN listener' = "waiting" /\ UNCHANGED connected
     ELSE Connected("error")
  /\ UNCHANGED <<vars, pending>>

\* ConnectNamedPipe waits for a client; one that came before the call is
\* ERROR_PIPE_CONNECTED, one that came and went is an error.
Connect ==
  /\ listener = "connect"
  /\ CASE pending = "listening" -> listener' = "waiting" /\ UNCHANGED connected
       [] pending = "opened"    -> Connected("ok")
       [] pending = "abandoned" -> Connected("error")
  /\ UNCHANGED <<vars, pending>>

ConnectReturns ==
  /\ listener = "waiting" /\ pending # "listening"
  /\ Connected("ok")
  /\ UNCHANGED <<vars, pending>>

\* Mutation: run spawns the worker itself, past the limit of accept.
RenewSpawns ==
  /\ listener = "renew" /\ Instances < MaxInstances
  /\ pending' = "listening" /\ connected' = "none" /\ listener' = "connect"
  /\ IF connected = "ok"
     THEN /\ \E h \in Handle : /\ thread[h] = "none"
                             /\ thread' = [thread EXCEPT ![h] = "running"]
                             /\ client' = client \cup {h}
          /\ UNCHANGED <<workers, pc, index, stream, exited>>
     ELSE UNCHANGED vars

\* Mutation: the listener goes on without waiting for accept.
RenewGoesOn ==
  /\ listener = "renew" /\ Instances < MaxInstances
  /\ pending' = "listening" /\ connected' = "none" /\ listener' = "connect"
  /\ IF connected = "ok" THEN \E h \in Handle : Incoming(h) ELSE UNCHANGED vars

\* The next instance is created and takes the place of `pending`; the connected
\* one goes to accept, one whose connect failed is dropped.
Renew ==
  /\ listener = "renew" /\ Instances < MaxInstances
  /\ pending' = "listening" /\ connected' = "none"
  /\ IF connected = "ok"
     THEN listener' = "accept" /\ \E h \in Handle : Incoming(h)
     ELSE listener' = "connect" /\ UNCHANGED vars

\* CreateNamedPipeW fails, at the latest when there are MaxInstances: run returns
\* and the process ends.
CreateFails ==
  /\ listener \in {"create", "renew"}
  /\ listener' = "ended"
  /\ UNCHANGED <<vars, pending, connected>>

\* accept, and the way back to connect_pipe when it returns.
PipeAccept ==
  /\ Accept
  /\ listener' = IF pc' = "accept" THEN "connect" ELSE "accept"
  /\ UNCHANGED <<pending, connected>>

Listen == CreateFirst \/ Connect \/ ConnectReturns \/ Renew \/ CreateFails \/ PipeAccept

Workers ==
  /\ \E h \in Handle : ClientLeaves(h) \/ Finish(h)
  /\ UNCHANGED <<listener, pending, connected>>

PipeNext == listener # "ended" /\ (Listen \/ Open \/ Abandon \/ Workers)

PipeSpec == PipeInit /\ [][PipeNext]_pipeVars

\* The listener's thread runs; nothing is assumed of clients and workers.
FairPipeSpec == PipeSpec /\ WF_pipeVars(listener # "ended" /\ Listen)
-----------------------------------------------------------------------------
(***************************************************************************)
(* Properties.                                                             *)
(***************************************************************************)
\* "(MAX_DEV_CONNECTIONS + 2) as u32": whatever clients and workers do, renewing
\* the pipe is never refused because of the instances Core itself holds, which
\* would end the process with every connection it serves.
RenewalHasRoom == listener = "renew" => Instances < MaxInstances

\* A client that opened the pipe before Core came to wait for it is not lost: it
\* reaches accept, unless it leaves or Core ends.
EarlyClientIsServed ==
  (listener = "connect" /\ pending = "opened")
    ~> (listener = "accept" \/ pending = "abandoned" \/ listener = "ended")

\* The listener drives accept as DevConnections has it; the loop of accept goes on
\* until it returns.
ImplementsDevConnections == FairSpec
=============================================================================

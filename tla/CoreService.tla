---------------------------- MODULE CoreService ----------------------------
(***************************************************************************)
(* The IPC workers of Core: handle_dev_connection_inner (keyro-core),      *)
(* ProtocolSession (core-ipc) and CoreService (core-app), one worker per   *)
(* connection, over the registry of profiles they share.                   *)
(*                                                                         *)
(* A worker reads a line, dispatches it, runs the command and writes the   *)
(* reply, then reads the next line.  Between two of its repository calls,  *)
(* and while it writes or opens a URL, the other workers run.  Each call   *)
(* of the repository is one step (ProfileStore shows that it is), and any  *)
(* of them may fail with a storage error.                                  *)
(*                                                                         *)
(* A client may send lines ahead of the replies.  At any moment it may     *)
(* close the direction it writes in and still read the replies, or go      *)
(* away: then the first write fails, and lines it had sent are still read  *)
(* unless the read fails too, as on a connection that was reset.  A client *)
(* may also stay and never read: once the buffer of its stream is full the *)
(* worker waits in its write, which has no timeout.                        *)
(***************************************************************************)
EXTENDS ProfileRegistry, ProtocolSession, SequencesExt

CONSTANTS
  Conn,       \* connections, at most MAX_DEV_CONNECTIONS of them at a time
  Line(_),    \* the lines the client of a connection may send
  Stalling,   \* the connections whose clients do not read what is written
  BufferSize, \* messages that fit into the buffer of a stream
  MaxLines,   \* bound: lines sent on each connection
  MaxAhead    \* bound: lines sent and not yet read

\* What command_from_message converts before it makes a command: names, controls and
\* URLs.  A profile id is any UUID.
Converted(line) ==
  /\ line.kind \in LineKind
  /\ line.kind = "create_profile" => line.arg[1] \in Name
  /\ line.kind = "rename_profile" => line.arg[2] \in Name
  /\ line.kind \in {"save_assignment", "clear_assignment"} => line.arg[2] \in ControlId
  /\ line.kind = "save_assignment" => <<line.arg[3]>> \in ActionList
  /\ line.kind = "virtual_control_input" => line.arg[1] \in ControlId

ASSUME LineAssumption ==
  /\ MaxLines \in [Conn -> Nat] /\ MaxAhead \in Nat
  /\ \A c \in Conn : \A l \in Line(c) : Converted(l)

ASSUME StallingAssumption == Stalling \subseteq Conn /\ BufferSize \in Nat

VARIABLES
  peer,       \* the client: may send lines, has closed its writing direction, or is gone
  sent,       \* lines the client has sent on this connection
  read,       \* how many of them the worker has read
  session,    \* ProtocolSession::state
  pc,         \* where the worker is
  error,      \* AppError of the command, or "none"
  reply,      \* the reply to write
  route,      \* route_virtual_control: the profile and the actions it found
  written,    \* messages written to the client
  opened,     \* URLs opened: the line that asked, the profile and the action
  moments     \* (auxiliary) what the active profile had for the control of the
              \* line in process, at each moment since the line was read

connVars == <<peer, sent, read, session, pc, error, reply, route, written, opened>>
vars == <<registryVars, connVars, moments>>

NoRoute == [profile |-> NoProfile, actions |-> <<>>]
There(c) == peer[c] # "gone"
Current(c) == sent[c][read[c]]
Routing == {"command", "find", "emit_running", "open", "emit_succeeded", "emit_failed", "reply"}
PC == Routing \cup {"closed", "read"}

Event == {"running", "succeeded", "failed"}
Message == [line : Nat \ {0}, kind : ReplyKind \cup Event, profile : ProfileId \cup {NoProfile}]
Opening == [line : Nat \ {0}, profile : ProfileId, action : Action]
Found == [profile : ProfileId \cup {NoProfile}, actions : Seq(Action)]

TypeOK ==
  /\ RegistryTypeOK
  /\ peer \in [Conn -> {"sending", "silent", "gone"}]
  /\ sent \in [Conn -> Seq(UNION {Line(c) : c \in Conn})]
  /\ read \in [Conn -> Nat]
  /\ session \in [Conn -> {"awaiting", "established"}]
  /\ pc \in [Conn -> PC]
  /\ error \in [Conn -> AppError \cup {"none"}]
  /\ reply \in [Conn -> ReplyKind \cup {"none"}]
  /\ route \in [Conn -> Found]
  /\ written \in [Conn -> Seq(Message)]
  /\ opened \in [Conn -> Seq(Opening)]
  /\ moments \in [Conn -> SUBSET Found]
  /\ \A c \in Conn :
       /\ sent[c] \in Seq(Line(c)) /\ Len(sent[c]) <= MaxLines[c]
       /\ read[c] <= Len(sent[c])
       /\ pc[c] \in Routing => read[c] > 0

\* The state after CoreService::initialize on a new database.
Init ==
  /\ \E p \in ProfileId :
       /\ profiles = {p}
       /\ name = [q \in ProfileId |-> IF q = p THEN DefaultName ELSE NoName]
       /\ active = p
  /\ bindings = [s \in Slot |-> <<>>]
  /\ peer = [c \in Conn |-> "gone"]
  /\ sent = [c \in Conn |-> <<>>]
  /\ read = [c \in Conn |-> 0]
  /\ session = [c \in Conn |-> "awaiting"]
  /\ pc = [c \in Conn |-> "closed"]
  /\ error = [c \in Conn |-> "none"]
  /\ reply = [c \in Conn |-> "none"]
  /\ route = [c \in Conn |-> NoRoute]
  /\ written = [c \in Conn |-> <<>>]
  /\ opened = [c \in Conn |-> <<>>]
  /\ moments = [c \in Conn |-> {}]
-----------------------------------------------------------------------------
(***************************************************************************)
(* The auxiliary variable, part of every step: what the active profile has *)
(* for the control of the input in process.                                *)
(***************************************************************************)
InputInProcess(c) == pc[c] \in Routing /\ Current(c).kind = "virtual_control_input"
Moment(c) == [profile |-> active, actions |-> bindings[<<active, Current(c).arg[1]>>]]
Observe ==
  moments' = [c \in Conn |->
    IF ~ InputInProcess(c)' THEN {}
    ELSE {Moment(c)'} \cup (IF InputInProcess(c) THEN moments[c] ELSE {})]
-----------------------------------------------------------------------------
(***************************************************************************)
(* The client, and the connection it opens.                                *)
(***************************************************************************)
\* accept spawns a worker: BufReader::new, ProtocolSession::new.  A worker whose
\* try_clone fails ends at once, which leaves the connection closed.
Connect(c) ==
  /\ pc[c] = "closed"
  /\ pc' = [pc EXCEPT ![c] = "read"]
  /\ peer' = [peer EXCEPT ![c] = "sending"]
  /\ UNCHANGED <<registryVars, sent, read, session, error, reply, route, written, opened>>
  /\ Observe

Send(c, line) ==
  /\ pc[c] # "closed" /\ peer[c] = "sending"
  /\ Len(sent[c]) < MaxLines[c] /\ Len(sent[c]) - read[c] < MaxAhead
  /\ sent' = [sent EXCEPT ![c] = Append(@, line)]
  /\ UNCHANGED <<registryVars, peer, read, session, pc, error, reply, route, written, opened>>
  /\ Observe

\* shutdown(Shutdown::Write): the client sends no more and still reads.
Shutdown(c) ==
  /\ pc[c] # "closed" /\ peer[c] = "sending"
  /\ peer' = [peer EXCEPT ![c] = "silent"]
  /\ UNCHANGED <<registryVars, sent, read, session, pc, error, reply, route, written, opened>>
  /\ Observe

Leave(c) ==
  /\ pc[c] # "closed" /\ There(c)
  /\ peer' = [peer EXCEPT ![c] = "gone"]
  /\ UNCHANGED <<registryVars, sent, read, session, pc, error, reply, route, written, opened>>
  /\ Observe

\* The process ends; the registry is on disk.
Crash ==
  /\ \E c \in Conn : pc[c] # "closed"
  /\ peer' = [c \in Conn |-> "gone"]
  /\ sent' = [c \in Conn |-> <<>>]
  /\ read' = [c \in Conn |-> 0]
  /\ session' = [c \in Conn |-> "awaiting"]
  /\ pc' = [c \in Conn |-> "closed"]
  /\ error' = [c \in Conn |-> "none"]
  /\ reply' = [c \in Conn |-> "none"]
  /\ route' = [c \in Conn |-> NoRoute]
  /\ written' = [c \in Conn |-> <<>>]
  /\ opened' = [c \in Conn |-> <<>>]
  /\ UNCHANGED registryVars
  /\ Observe
-----------------------------------------------------------------------------
(***************************************************************************)
(* The loop of handle_dev_connection_inner.                                *)
(***************************************************************************)
\* What a worker that ends drops besides its session and its reader.
DropWorker(c) ==
  /\ pc' = [pc EXCEPT ![c] = "closed"]
  /\ peer' = [peer EXCEPT ![c] = "gone"]
  /\ sent' = [sent EXCEPT ![c] = <<>>]
  /\ error' = [error EXCEPT ![c] = "none"]
  /\ reply' = [reply EXCEPT ![c] = "none"]
  /\ route' = [route EXCEPT ![c] = NoRoute]
  /\ written' = [written EXCEPT ![c] = <<>>]
  /\ opened' = [opened EXCEPT ![c] = <<>>]
  /\ UNCHANGED registryVars

\* Mutation: the session outlives its connection.
CloseKeepsSession(c) ==
  /\ DropWorker(c)
  /\ read' = [read EXCEPT ![c] = 0]
  /\ UNCHANGED session
  /\ Observe

\* Mutation: the reader outlives its connection.
CloseKeepsReader(c) ==
  /\ DropWorker(c)
  /\ session' = [session EXCEPT ![c] = "awaiting"]
  /\ UNCHANGED read
  /\ Observe

\* The worker returns: its connection, session, reader and writer are dropped.
Close(c) ==
  /\ DropWorker(c)
  /\ read' = [read EXCEPT ![c] = 0]
  /\ session' = [session EXCEPT ![c] = "awaiting"]
  /\ Observe

\* lines() ends when the client sends no more and its lines are read.
Eof(c) ==
  /\ pc[c] = "read" /\ peer[c] # "sending" /\ read[c] = Len(sent[c])
  /\ Close(c)

\* `let line = line?`: once the client is gone the read may fail before its lines are read.
ReadFails(c) ==
  /\ pc[c] = "read" /\ ~ There(c) /\ read[c] < Len(sent[c])
  /\ Close(c)

\* `let line = line?; session.receive_line(&line)`.
Receive(c) ==
  LET line == sent[c][read[c] + 1]
      d == ReceiveLine(session[c], line) IN
  /\ pc[c] = "read" /\ read[c] < Len(sent[c])
  /\ IF line.kind = "not_utf8" THEN Close(c)
     ELSE /\ read' = [read EXCEPT ![c] = @ + 1]
          /\ session' = [session EXCEPT ![c] = d.state]
          /\ error' = [error EXCEPT ![c] = "none"]
          /\ reply' = [reply EXCEPT ![c] = d.reply]
          /\ pc' = [pc EXCEPT ![c] = IF d.command THEN "command" ELSE "reply"]
          /\ UNCHANGED <<registryVars, peer, sent, route, written, opened>>
          /\ Observe

\* Mutation: a write that waits does not see that the client has left.
BlockedForGood(c) == c \in Stalling /\ Len(written[c]) >= BufferSize

\* writeln does not return: the buffer is full and the client is still there.
Blocked(c) == c \in Stalling /\ There(c) /\ Len(written[c]) >= BufferSize

Put(c, kind, p) == [written EXCEPT ![c] = Append(@, [line |-> read[c], kind |-> kind, profile |-> p])]

\* Mutation: a reply that cannot be written is dropped.
WriteReplyDrops(c) ==
  /\ pc[c] = "reply"
  /\ written' = IF There(c) THEN Put(c, reply[c], NoProfile) ELSE written
  /\ pc' = [pc EXCEPT ![c] = "read"]
  /\ UNCHANGED <<registryVars, peer, sent, read, session, error, reply, route, opened>>
  /\ Observe

\* write_protocol_message: fails once the client has left, and `?` then ends the
\* connection.
WriteReply(c) ==
  /\ pc[c] = "reply" /\ ~ Blocked(c)
  /\ IF There(c) THEN /\ written' = Put(c, reply[c], NoProfile)
                      /\ pc' = [pc EXCEPT ![c] = "read"]
                      /\ UNCHANGED <<registryVars, peer, sent, read, session, error, reply, route, opened>>
                      /\ Observe
                 ELSE Close(c)
-----------------------------------------------------------------------------
(***************************************************************************)
(* CoreService::handle_command.                                            *)
(***************************************************************************)
\* The command has this result; handle_dev_connection_inner turns it into a reply.
Finish(c, e) ==
  /\ error' = [error EXCEPT ![c] = e]
  /\ reply' = [reply EXCEPT ![c] = IF e = "none" THEN Response(Current(c).kind) ELSE ErrorMessage(e)]
  /\ pc' = [pc EXCEPT ![c] = "reply"]

\* The command goes on.
Goto(c, next) ==
  /\ pc' = [pc EXCEPT ![c] = next]
  /\ UNCHANGED <<error, reply>>

\* Mutation: one mutex around handle_command, and so around the writes of its events.
RunsAlone(c, kind) ==
  /\ pc[c] = "command" /\ Current(c).kind = kind
  /\ \A d \in Conn \ {c} : pc[d] \notin Routing \ {"command", "reply"}

Runs(c, kind) == pc[c] = "command" /\ Current(c).kind = kind
Arg(c, i) == Current(c).arg[i]

\* What a command leaves alone that is neither routed nor written to the client.
CommandOnly == UNCHANGED <<peer, sent, read, session, route, written, opened>> /\ Observe

\* ensure_exactly_one_active over the profiles that were listed.
ActiveCheck == IF active \in profiles THEN "none" ELSE "active_invariant"

ReadProfiles(c) ==
  /\ Runs(c, "get_snapshot") \/ Runs(c, "list_profiles")
  /\ Finish(c, ActiveCheck)
  /\ UNCHANGED registryVars
  /\ CommandOnly

CreateProfile(c) ==
  /\ Runs(c, "create_profile")
  /\ IF Arg(c, 1) \in BlankName
     THEN UNCHANGED registryVars /\ Finish(c, "blank_name")
     ELSE (\E p \in ProfileId : AddProfile(p, Arg(c, 1))) /\ Finish(c, "none")
  /\ CommandOnly

\* The other commands that write name a profile, which must exist.
WithProfile(c, change) ==
  /\ IF Arg(c, 1) \in profiles
     THEN change /\ Finish(c, "none")
     ELSE UNCHANGED registryVars /\ Finish(c, "profile_not_found")
  /\ CommandOnly

RenameProfile(c) ==
  /\ Runs(c, "rename_profile")
  /\ IF Arg(c, 1) \in profiles /\ Arg(c, 2) \in BlankName
     THEN UNCHANGED registryVars /\ Finish(c, "blank_name") /\ CommandOnly
     ELSE WithProfile(c, Rename(Arg(c, 1), Arg(c, 2)))

SetActiveProfile(c) ==
  /\ Runs(c, "set_active_profile")
  /\ WithProfile(c, SetActive(Arg(c, 1)))

\* Over IPC an assignment has exactly one action (Assignment::single).
SaveAssignment(c) ==
  /\ Runs(c, "save_assignment")
  /\ WithProfile(c, Bind(Arg(c, 1), Arg(c, 2), <<Arg(c, 3)>>))

ClearAssignment(c) ==
  /\ Runs(c, "clear_assignment")
  /\ WithProfile(c, Bind(Arg(c, 1), Arg(c, 2), <<>>))

\* Any repository call may fail; create_profile validates before it makes one.
StorageFails(c) ==
  /\ \/ pc[c] = "find"
     \/ \E kind \in CommandKind :
          Runs(c, kind) /\ ~ (kind = "create_profile" /\ Arg(c, 1) \in BlankName)
  /\ Finish(c, "storage")
  /\ UNCHANGED registryVars
  /\ CommandOnly
-----------------------------------------------------------------------------
(***************************************************************************)
(* CoreService::route_virtual_control.                                     *)
(***************************************************************************)
RouteOnly == UNCHANGED <<registryVars, peer, sent, read, session>> /\ Observe

\* Mutation: whichever profile is listed first is taken for the active one.
FirstProfile(c) ==
  /\ Runs(c, "virtual_control_input")
  /\ \E p \in profiles : route' = [route EXCEPT ![c].profile = p]
  /\ Goto(c, "find")
  /\ RouteOnly /\ UNCHANGED <<written, opened>>

\* active_profile: list, check, find.
ActiveProfile(c) ==
  /\ Runs(c, "virtual_control_input")
  /\ route' = [route EXCEPT ![c].profile = active]
  /\ IF ActiveCheck = "none" THEN Goto(c, "find") ELSE Finish(c, ActiveCheck)
  /\ RouteOnly /\ UNCHANGED <<written, opened>>

\* find_assignment returns None for an empty list, so first_action is there.
FindAssignment(c) ==
  LET found == bindings[<<route[c].profile, Arg(c, 1)>>] IN
  /\ pc[c] = "find"
  /\ route' = [route EXCEPT ![c].actions = found]
  /\ IF found = <<>> THEN Finish(c, "assignment_not_found") ELSE Goto(c, "emit_running")
  /\ RouteOnly /\ UNCHANGED <<written, opened>>

\* IpcEventSink::emit reaches the client while it is there.
Emit(c, event, p) == written' = IF There(c) THEN Put(c, event, p) ELSE written

\* Mutation: a lost event is not an error.
EmitRunningIgnoresLoss(c) ==
  /\ pc[c] = "emit_running"
  /\ Emit(c, "running", route[c].profile)
  /\ Goto(c, "open")
  /\ RouteOnly /\ UNCHANGED <<route, opened>>

\* An event that cannot be written fails the command.
EmitRunning(c) ==
  /\ pc[c] = "emit_running" /\ ~ Blocked(c)
  /\ Emit(c, "running", route[c].profile)
  /\ IF There(c) THEN Goto(c, "open") ELSE Finish(c, "event_sink")
  /\ RouteOnly /\ UNCHANGED <<route, opened>>

\* SystemUrlOpener either opens the first action's URL or fails.
OpenUrl(c) ==
  /\ pc[c] = "open"
  /\ \/ /\ opened' = [opened EXCEPT ![c] = Append(@, [line |-> read[c], profile |-> route[c].profile,
                                                       action |-> Head(route[c].actions)])]
        /\ Goto(c, "emit_succeeded")
     \/ /\ Goto(c, "emit_failed")
        /\ UNCHANGED opened
  /\ RouteOnly /\ UNCHANGED <<route, written>>

\* Mutation: the failure is sent as an event but not returned.
EmitOutcomeLosesError(c) ==
  /\ pc[c] \in {"emit_succeeded", "emit_failed"}
  /\ Emit(c, IF pc[c] = "emit_failed" THEN "failed" ELSE "succeeded", NoProfile)
  /\ Finish(c, IF There(c) THEN "none" ELSE "event_sink")
  /\ RouteOnly /\ UNCHANGED <<route, opened>>

\* Mutation: the write of the event waits for a client that is there.
EmitOutcomeWaits(c) ==
  /\ pc[c] \in {"emit_succeeded", "emit_failed"} /\ There(c)
  /\ Emit(c, IF pc[c] = "emit_failed" THEN "failed" ELSE "succeeded", NoProfile)
  /\ Finish(c, IF pc[c] = "emit_failed" THEN "open_url" ELSE "none")
  /\ RouteOnly /\ UNCHANGED <<route, opened>>

\* The outcome's event, then the result of the command.
EmitOutcome(c) ==
  LET failed == pc[c] = "emit_failed" IN
  /\ pc[c] \in {"emit_succeeded", "emit_failed"} /\ ~ Blocked(c)
  /\ Emit(c, IF failed THEN "failed" ELSE "succeeded", NoProfile)
  /\ Finish(c, IF ~ There(c) THEN "event_sink" ELSE IF failed THEN "open_url" ELSE "none")
  /\ RouteOnly /\ UNCHANGED <<route, opened>>
-----------------------------------------------------------------------------
Command(c) ==
  \/ ReadProfiles(c) \/ CreateProfile(c) \/ RenameProfile(c) \/ SetActiveProfile(c)
  \/ SaveAssignment(c) \/ ClearAssignment(c) \/ StorageFails(c)
  \/ ActiveProfile(c) \/ FindAssignment(c) \/ EmitRunning(c) \/ OpenUrl(c) \/ EmitOutcome(c)

Work(c) == Eof(c) \/ ReadFails(c) \/ Receive(c) \/ Command(c) \/ WriteReply(c)

Next ==
  \/ Crash
  \/ \E c \in Conn :
       \/ Connect(c) \/ Shutdown(c) \/ Leave(c) \/ \E line \in Line(c) : Send(c, line)
       \/ Work(c)

Spec == Init /\ [][Next]_vars

\* Every worker's thread is scheduled, the command that launches the browser
\* returns, and a write into a buffer that has room ends.  Clients owe nothing: they
\* may stay idle, stop sending, leave, or (Stalling) never read.
FairSpec == Spec /\ \A c \in Conn : WF_vars(Work(c))
-----------------------------------------------------------------------------
(***************************************************************************)
(* Properties.                                                             *)
(***************************************************************************)
\* What a client has been told by the messages ms, in the order they were written.
Accepted(ms, n) == \E k \in 1 .. n : ms[k].kind = "handshake_accepted"
Answered(ms, l) == \E n \in 1 .. Len(ms) : ms[n].line = l /\ ms[n].kind \in ReplyKind
Told(ms, l, n) == {ms[k].kind : k \in {k \in 1 .. n : ms[k].line = l}}

\* Has the browser been started for line l?
Opened(os, l) == \E k \in 1 .. Len(os) : os[k].line = l

SuccessAfterAccept(ms) ==
  \A n \in 1 .. Len(ms) : ms[n].kind \in SuccessKind \cup Event => Accepted(ms, n - 1)

\* "Each IPC connection must complete a successful handshake before normal
\* command routing" (protocol/README.md): no command is answered with success,
\* no event is sent and no URL opened before this connection's own
\* handshake_accepted was written, whatever connection came before it.
HandshakeFirst ==
  \A c \in Conn :
    /\ SuccessAfterAccept(written[c])
    /\ opened[c] # <<>> => Accepted(written[c], Len(written[c]))

ReplyEndsLine(ms) ==
  \A m, n \in 1 .. Len(ms) : m < n /\ ms[m].kind \in ReplyKind => ms[m].line < ms[n].line

\* One reply per line, in the order of the lines: whatever is written after a reply is
\* about a later line, and a worker has answered the lines before the one it works on,
\* no other, and all of them when it reads the next.
RepliesInOrder ==
  \A c \in Conn :
    /\ ReplyEndsLine(written[c])
    /\ \A l \in 1 .. read[c] : Answered(written[c], l) <=> l < read[c] \/ pc[c] = "read"

\* A line that runs an action is told of by running, the outcome and the reply that
\* agrees with it; any other by one reply.
Follows(told, kind) ==
  \/ told = {} /\ kind \in ReplyKind \cup {"running"}
  \/ told = {"running"} /\ kind \in {"succeeded", "failed"}
  \/ told = {"running", "succeeded"} /\ kind = "acknowledged"
  \/ told = {"running", "failed"} /\ kind = "internal"

OpensOnce(os) == \A j, k \in 1 .. Len(os) : os[j].line = os[k].line => j = k

\* Does message n come in order, and agree with what was done to the browser?
Reported(ms, os, n) ==
  LET told == Told(ms, ms[n].line, n - 1) IN
  /\ Follows(told, ms[n].kind)
  /\ ms[n].kind # "running" =>
       (Opened(os, ms[n].line) <=> "succeeded" \in told \cup {ms[n].kind})

\* The messages about a line that runs an action come in the order of Follows, each at
\* most once; no line opens two URLs, and one is opened exactly if the client is told
\* that it succeeded.
RunIsReportedInOrder ==
  \A c \in Conn :
    /\ OpensOnce(opened[c])
    /\ \A n \in 1 .. Len(written[c]) : Reported(written[c], opened[c], n)

\* A URL is opened only after its running event reached the client, for the
\* profile that event names.
OpenedAfterRunning ==
  [][\A c \in Conn : Len(opened'[c]) > Len(opened[c]) =>
       LET m == Last(written[c]) IN
       /\ m.kind = "running" /\ m.line = read[c]
       /\ m.profile = Last(opened'[c]).profile]_vars

\* The profile whose action is opened was the active one at some moment after
\* the input was read.
OpenedProfileWasActive ==
  \A c \in Conn : pc[c] \in {"emit_running", "open", "emit_succeeded", "emit_failed"} =>
    \E m \in moments[c] : m.profile = route[c].profile

\* Every line of a client that reads is answered, or its connection ends, whatever
\* the other clients do: a worker that waits in a write holds nothing they need.
LinesAreAnswered ==
  \A c \in Conn \ Stalling : \A l \in 1 .. MaxLines[c] :
    (pc[c] # "closed" /\ Len(sent[c]) >= l)
      ~> (pc[c] = "closed" \/ Answered(written[c], l))

\* A worker does not outlive its client for good, not even one that waits in a write:
\* the write fails when the client is gone, and the slot becomes free.  Nor does it
\* outlive the lines of a client that has stopped sending and reads its replies.
LeftConnectionEnds ==
  \A c \in Conn :
    (pc[c] # "closed" /\ (There(c) => peer[c] = "silent" /\ c \notin Stalling)) ~> pc[c] = "closed"

\* "assignment was not found for the active profile and control" (core-app
\* AppError): when it is returned, some moment of the call had no assignment
\* for the active profile and control.
NotFoundIsTrue ==
  \A c \in Conn : error[c] = "assignment_not_found" /\ pc[c] = "reply" =>
    \E m \in moments[c] : m.actions = <<>>

\* "Unknown messages must produce structured errors" (protocol/README.md): a
\* client that is still there and has a line waiting gets a reply to it, not the
\* end of its connection; only the end of Core closes every connection.
WaitingLineIsAnswered ==
  [][\A c \in Conn : pc[c] = "read" /\ There(c) /\ read[c] < Len(sent[c]) /\ pc'[c] = "closed" =>
       \A d \in Conn : pc'[d] = "closed"]_vars
=============================================================================

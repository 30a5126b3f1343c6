------------------------- MODULE CoreServiceProofs -------------------------
(***************************************************************************)
(* Proofs about CoreService.                                               *)
(***************************************************************************)
EXTENDS CoreService, SequenceTheorems, TLAPS

\* Whether a client is there only abbreviates a comparison.
USE DEF There

-----------------------------------------------------------------------------
(***************************************************************************)
(* The inductive invariant.  Every part speaks about one connection.       *)
(***************************************************************************)
\* The kinds of the messages about the line in process.
ToldNow(c) == Told(written[c], read[c], Len(written[c]))
OpenedNow(c) == Opened(opened[c], read[c])
AcceptedNow(c) == Accepted(written[c], Len(written[c]))

\* A connection nobody serves keeps nothing of an earlier one.
ClosedIsEmpty(c) ==
  pc[c] = "closed" =>
    /\ ~ There(c) /\ read[c] = 0 /\ session[c] = "awaiting"
    /\ written[c] = <<>> /\ opened[c] = <<>>

\* What route_virtual_control holds between its steps.
RouteHolds(c) ==
  /\ pc[c] \in Routing \ {"command", "reply"} =>
       Current(c).kind = "virtual_control_input" /\ route[c].profile \in ProfileId
  /\ pc[c] \in {"emit_running", "open"} => route[c].actions # <<>>

ReplyReady(c) == pc[c] = "reply" => reply[c] \in ReplyKind

\* An established session has told its client, or is about to.
SessionHolds(c) ==
  /\ pc[c] \in Routing \ {"reply"} => AcceptedNow(c)
  /\ session[c] = "established" =>
       AcceptedNow(c) \/ (pc[c] = "reply" /\ reply[c] = "handshake_accepted")
  /\ pc[c] = "reply" /\ reply[c] \in SuccessKind => AcceptedNow(c)
  /\ opened[c] # <<>> => AcceptedNow(c)
  /\ SuccessAfterAccept(written[c])

\* Nothing is written or opened for a line that is not read yet, and nothing is
\* written about a line after its reply.
AnswersHold(c) ==
  /\ \A n \in 1 .. Len(written[c]) : written[c][n].line <= read[c]
  /\ ReplyEndsLine(written[c])
  /\ \A l \in 1 .. read[c] : Answered(written[c], l) <=> l < read[c] \/ pc[c] = "read"

\* How far the line in process has come.
ReportHolds(c) ==
  /\ \A k \in 1 .. Len(opened[c]) : opened[c][k].line <= read[c]
  /\ OpensOnce(opened[c])
  /\ \A n \in 1 .. Len(written[c]) : Reported(written[c], opened[c], n)
  /\ pc[c] \in {"command", "find", "emit_running"} => ToldNow(c) = {} /\ ~ OpenedNow(c)
  /\ pc[c] \in {"open", "emit_succeeded", "emit_failed"} =>
       /\ ToldNow(c) = {"running"}
       /\ OpenedNow(c) <=> pc[c] = "emit_succeeded"
  /\ pc[c] = "reply" /\ There(c) =>
       /\ Follows(ToldNow(c), reply[c])
       /\ OpenedNow(c) <=> "succeeded" \in ToldNow(c)

\* The running event was the last message, and names the profile of the route.
RunningWasLast(c) ==
  pc[c] = "open" =>
    /\ written[c] # <<>>
    /\ Last(written[c]) = [line |-> read[c], kind |-> "running", profile |-> route[c].profile]

\* The active profile that the route took is among the moments of the input.
MomentKept(c) ==
  pc[c] \in Routing \ {"command", "reply"} =>
    \E m \in moments[c] : m.profile = route[c].profile

ConnInv(c) ==
  /\ ClosedIsEmpty(c) /\ RouteHolds(c) /\ ReplyReady(c) /\ SessionHolds(c)
  /\ AnswersHold(c) /\ ReportHolds(c) /\ RunningWasLast(c)

IInv ==
  /\ TypeOK
  /\ RegistryInv /\ active \in profiles
  /\ \A c \in Conn : ConnInv(c) /\ MomentKept(c)

-----------------------------------------------------------------------------
(***************************************************************************)
(* Lemmas about what is said by a sequence of messages.                    *)
(***************************************************************************)
\* A message that is appended leaves what was said before it.
LEMMA AppendTold ==
  ASSUME NEW ms \in Seq(Message), NEW m \in Message, NEW l, NEW n \in 0 .. Len(ms)
  PROVE  Told(Append(ms, m), l, n) = Told(ms, l, n)
<1>1. \A k \in 1 .. n : Append(ms, m)[k] = ms[k]
  BY AppendProperties
<1>2. {k \in 1 .. n : Append(ms, m)[k].line = l} = {k \in 1 .. n : ms[k].line = l}
  BY <1>1
<1>3. QED BY <1>1, <1>2 DEF Told

\* What it adds is its own kind, for its own line.
LEMMA AppendTells ==
  ASSUME NEW ms \in Seq(Message), NEW m \in Message, NEW l
  PROVE  Told(Append(ms, m), l, Len(Append(ms, m)))
           = Told(ms, l, Len(ms)) \cup (IF m.line = l THEN {m.kind} ELSE {})
<1> DEFINE n == Len(ms)
           new == Append(ms, m)
<1>1. n \in Nat /\ Len(new) = n + 1 /\ new[n + 1] = m /\ \A k \in 1 .. n : new[k] = ms[k]
  BY AppendProperties, LenProperties
<1>2. 1 .. Len(new) = (1 .. n) \cup {n + 1}
  BY <1>1
<1>3. ASSUME NEW x PROVE x \in Told(new, l, Len(new)) <=>
        (\E k \in 1 .. n : ms[k].line = l /\ x = ms[k].kind) \/ (m.line = l /\ x = m.kind)
  <2>1. x \in Told(new, l, Len(new)) <=>
          \E k \in 1 .. Len(new) : new[k].line = l /\ x = new[k].kind
    BY DEF Told
  <2>2. QED BY <2>1, <1>1, <1>2
<1>4. ASSUME NEW x PROVE x \in Told(ms, l, n) <=> \E k \in 1 .. n : ms[k].line = l /\ x = ms[k].kind
  BY DEF Told
<1>5. QED BY <1>3, <1>4

LEMMA AppendAnswered ==
  ASSUME NEW ms \in Seq(Message), NEW m \in Message, NEW l
  PROVE  Answered(Append(ms, m), l) <=>
           Answered(ms, l) \/ (m.line = l /\ m.kind \in ReplyKind)
<1>1. /\ Len(ms) \in Nat /\ Len(Append(ms, m)) = Len(ms) + 1 /\ Append(ms, m)[Len(ms) + 1] = m
      /\ \A k \in 1 .. Len(ms) : Append(ms, m)[k] = ms[k]
  BY AppendProperties, LenProperties
<1>2. QED BY <1>1 DEF Answered

LEMMA AppendAccepted ==
  ASSUME NEW ms \in Seq(Message), NEW m \in Message, NEW n \in 0 .. Len(ms)
  PROVE  /\ Accepted(Append(ms, m), n) <=> Accepted(ms, n)
         /\ Accepted(Append(ms, m), Len(Append(ms, m))) <=>
              Accepted(ms, Len(ms)) \/ m.kind = "handshake_accepted"
<1>1. /\ Len(ms) \in Nat /\ Len(Append(ms, m)) = Len(ms) + 1 /\ Append(ms, m)[Len(ms) + 1] = m
      /\ \A k \in 1 .. Len(ms) : Append(ms, m)[k] = ms[k]
  BY AppendProperties, LenProperties
<1>2. QED BY <1>1 DEF Accepted

LEMMA AppendOpened ==
  ASSUME NEW os \in Seq(Opening), NEW o \in Opening, NEW l
  PROVE  Opened(Append(os, o), l) <=> Opened(os, l) \/ o.line = l
<1>1. /\ Len(os) \in Nat /\ Len(Append(os, o)) = Len(os) + 1 /\ Append(os, o)[Len(os) + 1] = o
      /\ \A k \in 1 .. Len(os) : Append(os, o)[k] = os[k]
  BY AppendProperties, LenProperties
<1>2. QED BY <1>1 DEF Opened

LEMMA AppendReplyEndsLine ==
  ASSUME NEW ms \in Seq(Message), NEW m \in Message, ReplyEndsLine(ms),
         \A n \in 1 .. Len(ms) : ms[n].kind \in ReplyKind => ms[n].line < m.line
  PROVE  ReplyEndsLine(Append(ms, m))
<1>1. /\ Len(ms) \in Nat /\ Len(Append(ms, m)) = Len(ms) + 1 /\ Append(ms, m)[Len(ms) + 1] = m
      /\ \A k \in 1 .. Len(ms) : Append(ms, m)[k] = ms[k]
  BY AppendProperties, LenProperties
<1>2. QED BY <1>1 DEF ReplyEndsLine

LEMMA AppendSuccessAfterAccept ==
  ASSUME NEW ms \in Seq(Message), NEW m \in Message, SuccessAfterAccept(ms),
         m.kind \in SuccessKind \cup Event => Accepted(ms, Len(ms))
  PROVE  SuccessAfterAccept(Append(ms, m))
<1>1. /\ Len(ms) \in Nat /\ Len(Append(ms, m)) = Len(ms) + 1 /\ Append(ms, m)[Len(ms) + 1] = m
      /\ \A k \in 1 .. Len(ms) : Append(ms, m)[k] = ms[k]
  BY AppendProperties, LenProperties
<1> SUFFICES ASSUME NEW n \in 1 .. Len(Append(ms, m)),
                    Append(ms, m)[n].kind \in SuccessKind \cup Event
             PROVE  Accepted(Append(ms, m), n - 1)
  BY DEF SuccessAfterAccept
<1>2. n - 1 \in 0 .. Len(ms)
  BY <1>1
<1>3. Accepted(ms, n - 1)
  BY <1>1, n \in 1 .. Len(ms) \/ n = Len(ms) + 1 DEF SuccessAfterAccept
<1>4. QED BY <1>2, <1>3, AppendAccepted

LEMMA AppendReported ==
  ASSUME NEW ms \in Seq(Message), NEW m \in Message, NEW os,
         \A n \in 1 .. Len(ms) : Reported(ms, os, n),
         Follows(Told(ms, m.line, Len(ms)), m.kind),
         m.kind # "running" =>
           (Opened(os, m.line) <=> "succeeded" \in Told(ms, m.line, Len(ms)) \cup {m.kind})
  PROVE  \A n \in 1 .. Len(Append(ms, m)) : Reported(Append(ms, m), os, n)
<1>1. /\ Len(ms) \in Nat /\ Len(Append(ms, m)) = Len(ms) + 1 /\ Append(ms, m)[Len(ms) + 1] = m
      /\ \A k \in 1 .. Len(ms) : Append(ms, m)[k] = ms[k]
  BY AppendProperties, LenProperties
<1> SUFFICES ASSUME NEW n \in 1 .. Len(Append(ms, m))
             PROVE  Reported(Append(ms, m), os, n)
  OBVIOUS
<1>2. n - 1 \in 0 .. Len(ms)
  BY <1>1
<1>3. Told(Append(ms, m), Append(ms, m)[n].line, n - 1) = Told(ms, Append(ms, m)[n].line, n - 1)
  BY <1>2, AppendTold
<1>4. CASE n = Len(ms) + 1
  BY <1>1, <1>3, <1>4 DEF Reported
<1>5. CASE n \in 1 .. Len(ms)
  <2>1. Reported(ms, os, n) /\ Append(ms, m)[n] = ms[n]
    BY <1>1, <1>5
  <2>2. QED BY <2>1, <1>3 DEF Reported
<1>6. QED BY <1>1, <1>4, <1>5

\* A URL that is opened for a line of which nothing but "running" is told.
LEMMA OpenReported ==
  ASSUME NEW ms \in Seq(Message), NEW os \in Seq(Opening), NEW o \in Opening,
         \A n \in 1 .. Len(ms) : Reported(ms, os, n),
         Told(ms, o.line, Len(ms)) = {"running"}
  PROVE  \A n \in 1 .. Len(ms) : Reported(ms, Append(os, o), n)
<1> SUFFICES ASSUME NEW n \in 1 .. Len(ms)
             PROVE  Reported(ms, Append(os, o), n)
  OBVIOUS
<1>1. Opened(Append(os, o), ms[n].line) <=> Opened(os, ms[n].line) \/ o.line = ms[n].line
  BY AppendOpened
<1>2. ASSUME o.line = ms[n].line PROVE ms[n].kind = "running"
  BY <1>2 DEF Told
<1>3. Reported(ms, os, n)
  OBVIOUS
<1>4. QED BY <1>1, <1>2, <1>3 DEF Reported

LEMMA AppendOpensOnce ==
  ASSUME NEW os \in Seq(Opening), NEW o \in Opening, OpensOnce(os), ~ Opened(os, o.line)
  PROVE  OpensOnce(Append(os, o))
<1>1. /\ Len(os) \in Nat /\ Len(Append(os, o)) = Len(os) + 1 /\ Append(os, o)[Len(os) + 1] = o
      /\ \A k \in 1 .. Len(os) : Append(os, o)[k] = os[k]
  BY AppendProperties, LenProperties
<1>2. QED BY <1>1 DEF OpensOnce, Opened

LEMMA EmptyHistory ==
  /\ \A l : Told(<<>>, l, 0) = {} /\ ~ Answered(<<>>, l) /\ ~ Opened(<<>>, l)
  /\ SuccessAfterAccept(<<>>) /\ ReplyEndsLine(<<>>) /\ OpensOnce(<<>>)
BY DEF Told, Answered, Opened, SuccessAfterAccept, ReplyEndsLine, OpensOnce
-----------------------------------------------------------------------------
(***************************************************************************)
(* The registry: every step of the service is a step of it or leaves it    *)
(* alone.                                                                  *)
(***************************************************************************)
LEMMA CurrentLine ==
  ASSUME TypeOK, NEW c \in Conn, pc[c] \in Routing
  PROVE  /\ read[c] \in 1 .. Len(sent[c]) /\ Len(sent[c]) \in Nat
         /\ Converted(Current(c))
<1>1. sent[c] \in Seq(Line(c)) /\ Len(sent[c]) \in Nat /\ read[c] \in 1 .. Len(sent[c])
  BY LenProperties DEF TypeOK
<1>2. Current(c) \in Line(c)
  BY <1>1, ElementOfSeq DEF Current
<1>3. QED BY <1>1, <1>2, LineAssumption

LEMMA RegistryStepHolds ==
  ASSUME RegistryTypeOK, RegistryInv, active \in profiles, [RegistryNext]_registryVars
  PROVE  RegistryTypeOK' /\ RegistryInv' /\ active' \in profiles'
<1> USE DEF RegistryTypeOK, RegistryInv
<1>1. active # NoProfile
  BY ProfileIdAssumption
<1>2. ASSUME NEW p \in ProfileId, NEW n \in Name, AddProfile(p, n)
      PROVE  RegistryTypeOK' /\ RegistryInv' /\ active' \in profiles'
  BY <1>2 DEF AddProfile
<1>3. ASSUME NEW p \in ProfileId, NEW n \in Name, Rename(p, n)
      PROVE  RegistryTypeOK' /\ RegistryInv' /\ active' \in profiles'
  BY <1>3 DEF Rename
<1>4. ASSUME NEW p \in ProfileId, SetActive(p)
      PROVE  RegistryTypeOK' /\ RegistryInv' /\ active' \in profiles'
  BY <1>4, ProfileIdAssumption DEF SetActive
<1>5. ASSUME NEW p \in ProfileId, NEW k \in ControlId, NEW acts \in ActionList \cup {<<>>},
             Bind(p, k, acts)
      PROVE  RegistryTypeOK' /\ RegistryInv' /\ active' \in profiles'
  <2>1. acts \in Seq(Action)
    BY ActionListAssumption, EmptySeq
  <2>2. bindings' \in [Slot -> Seq(Action)]
    BY <1>5, <2>1 DEF Bind
  <2>3. \A q \in ProfileId, l \in ControlId : bindings'[<<q, l>>] # <<>> => q \in profiles
    BY <1>5, <2>1 DEF Bind, Slot
  <2>4. QED BY <1>5, <2>2, <2>3 DEF Bind
<1>6. CASE UNCHANGED registryVars
  BY <1>6 DEF registryVars
<1>7. QED BY <1>1, <1>2, <1>3, <1>4, <1>5, <1>6 DEF RegistryNext, AddDefault

\* The five commands that change the registry are the five operations of it.
LEMMA CommandIsRegistryStep ==
  ASSUME TypeOK, NEW c \in Conn, Command(c)
  PROVE  [RegistryNext]_registryVars
<1> USE DEF Runs, Arg
<1>1. \A p \in profiles : p \in ProfileId
  BY DEF TypeOK, RegistryTypeOK
<1>2. pc[c] \in Routing => Converted(Current(c))
  BY CurrentLine
<1>3. CASE CreateProfile(c)
  <2>1. Current(c).arg[1] \in Name
    BY <1>2, <1>3 DEF CreateProfile, Converted, Routing
  <2>2. QED BY <1>3, <2>1 DEF CreateProfile, RegistryNext
<1>4. CASE RenameProfile(c)
  <2>1. Current(c).arg[2] \in Name
    BY <1>2, <1>4 DEF RenameProfile, Converted, Routing
  <2>2. UNCHANGED registryVars \/ Rename(Current(c).arg[1], Current(c).arg[2])
    BY <1>4 DEF RenameProfile, WithProfile
  <2>3. QED BY <1>1, <2>1, <2>2 DEF RegistryNext, Rename
<1>5. CASE SetActiveProfile(c)
  <2>1. UNCHANGED registryVars \/ SetActive(Current(c).arg[1])
    BY <1>5 DEF SetActiveProfile, WithProfile
  <2>2. QED BY <1>1, <2>1 DEF RegistryNext, SetActive
<1>6. CASE SaveAssignment(c)
  <2>1. Current(c).arg[2] \in ControlId /\ <<Current(c).arg[3]>> \in ActionList
    BY <1>2, <1>6 DEF SaveAssignment, Converted, Routing
  <2>2. UNCHANGED registryVars \/ Bind(Current(c).arg[1], Current(c).arg[2], <<Current(c).arg[3]>>)
    BY <1>6 DEF SaveAssignment, WithProfile
  <2>3. QED BY <1>1, <2>1, <2>2 DEF RegistryNext, Bind
<1>7. CASE ClearAssignment(c)
  <2>1. Current(c).arg[2] \in ControlId
    BY <1>2, <1>7 DEF ClearAssignment, Converted, Routing
  <2>2. UNCHANGED registryVars \/ Bind(Current(c).arg[1], Current(c).arg[2], <<>>)
    BY <1>7 DEF ClearAssignment, WithProfile
  <2>3. QED BY <1>1, <2>1, <2>2 DEF RegistryNext, Bind
<1>8. CASE ReadProfiles(c) \/ StorageFails(c)
  BY <1>8 DEF ReadProfiles, StorageFails
<1>9. CASE ActiveProfile(c) \/ FindAssignment(c) \/ EmitRunning(c) \/ OpenUrl(c) \/ EmitOutcome(c)
  BY <1>9 DEF ActiveProfile, FindAssignment, EmitRunning, OpenUrl, EmitOutcome, RouteOnly, registryVars
<1>10. QED BY <1>3, <1>4, <1>5, <1>6, <1>7, <1>8, <1>9 DEF Command

LEMMA StepIsRegistryStep == TypeOK /\ [Next]_vars => [RegistryNext]_registryVars
<1> SUFFICES ASSUME TypeOK, [Next]_vars PROVE [RegistryNext]_registryVars
  OBVIOUS
<1> USE DEF registryVars
<1>1. CASE Crash
  BY <1>1 DEF Crash
<1>2. ASSUME NEW c \in Conn, Connect(c) \/ Shutdown(c) \/ Leave(c) \/ \E line \in Line(c) : Send(c, line)
      PROVE  UNCHANGED registryVars
  BY <1>2 DEF Connect, Shutdown, Leave, Send
<1>3. ASSUME NEW c \in Conn, Eof(c) \/ ReadFails(c) \/ Receive(c) \/ WriteReply(c)
      PROVE  UNCHANGED registryVars
  BY <1>3 DEF Eof, ReadFails, Receive, WriteReply, Close, DropWorker
<1>4. CASE UNCHANGED vars
  BY <1>4 DEF vars
<1>5. QED BY <1>1, <1>2, <1>3, <1>4, CommandIsRegistryStep DEF Next, Work
-----------------------------------------------------------------------------
(***************************************************************************)
(* Types.                                                                  *)
(***************************************************************************)
\* TypeOK without the registry and the auxiliary variable.
ConnTypes ==
  /\ peer \in [Conn -> {"sending", "silent", "gone"}]
  /\ sent \in [Conn -> Seq(UNION {Line(c) : c \in Conn})]
  /\ read \in [Conn -> Nat]
  /\ session \in [Conn -> {"awaiting", "established"}]
  /\ pc \in [Conn -> PC]
  /\ error \in [Conn -> AppError \cup {"none"}]
  /\ reply \in [Conn -> ReplyKind \cup {"none"}]
  /\ route \in [Conn -> Found]
  /\ written \in [Conn -> Seq(Message)]
  /\ opened \in [Conn -> Seq(Opening)]
  /\ \A c \in Conn :
       /\ sent[c] \in Seq(Line(c)) /\ Len(sent[c]) <= MaxLines[c]
       /\ read[c] <= Len(sent[c])
       /\ pc[c] \in Routing => read[c] > 0

LEMMA TypeParts == TypeOK <=> RegistryTypeOK /\ ConnTypes /\ moments \in [Conn -> SUBSET Found]
BY DEF TypeOK, ConnTypes

LEMMA ReplyKinds ==
  /\ \A kind : Response(kind) \in SuccessKind
  /\ \A e : ErrorMessage(e) \in ErrorCode
  /\ SuccessKind \subseteq ReplyKind /\ ErrorCode \subseteq ReplyKind
BY DEF Response, ErrorMessage, SuccessKind, ErrorCode, ReplyKind

LEMMA FinishTypes ==
  ASSUME ConnTypes, NEW c \in Conn, NEW e \in AppError \cup {"none"}, Finish(c, e)
  PROVE  /\ error' \in [Conn -> AppError \cup {"none"}]
         /\ reply' \in [Conn -> ReplyKind \cup {"none"}]
         /\ pc' \in [Conn -> PC]
         /\ \A d \in Conn : d # c => pc'[d] = pc[d] /\ reply'[d] = reply[d]
         /\ pc'[c] = "reply" /\ reply'[c] \in ReplyKind
         /\ reply'[c] = IF e = "none" THEN Response(Current(c).kind) ELSE ErrorMessage(e)
<1> DEFINE r == IF e = "none" THEN Response(Current(c).kind) ELSE ErrorMessage(e)
<1>1. r \in ReplyKind
  BY ReplyKinds
<1>2. error' = [error EXCEPT ![c] = e] /\ reply' = [reply EXCEPT ![c] = r]
      /\ pc' = [pc EXCEPT ![c] = "reply"]
  BY DEF Finish
<1> HIDE DEF r
<1>3. /\ error' \in [Conn -> AppError \cup {"none"}] /\ reply' \in [Conn -> ReplyKind \cup {"none"}]
      /\ pc' \in [Conn -> PC] /\ pc'[c] = "reply" /\ reply'[c] = r
      /\ \A d \in Conn : d # c => pc'[d] = pc[d] /\ reply'[d] = reply[d]
  BY <1>1, <1>2 DEF ConnTypes, PC, Routing
<1>4. QED BY <1>1, <1>3 DEF r

LEMMA GotoTypes ==
  ASSUME ConnTypes, NEW c \in Conn, NEW next \in PC, Goto(c, next)
  PROVE  /\ UNCHANGED <<error, reply>>
         /\ pc' \in [Conn -> PC]
         /\ pc'[c] = next /\ \A d \in Conn : d # c => pc'[d] = pc[d]
BY DEF Goto, ConnTypes

\* A message the worker writes while it has a line in process.
LEMMA PutTypes ==
  ASSUME ConnTypes, NEW c \in Conn, read[c] > 0, NEW kind \in ReplyKind \cup Event,
         NEW p \in ProfileId \cup {NoProfile}, written' = Put(c, kind, p)
  PROVE  /\ [line |-> read[c], kind |-> kind, profile |-> p] \in Message
         /\ written' \in [Conn -> Seq(Message)]
         /\ written'[c] = Append(written[c], [line |-> read[c], kind |-> kind, profile |-> p])
         /\ \A d \in Conn : d # c => written'[d] = written[d]
<1> DEFINE m == [line |-> read[c], kind |-> kind, profile |-> p]
<1>1. m \in Message
  BY DEF ConnTypes, Message
<1>2. Append(written[c], m) \in Seq(Message)
  BY <1>1, AppendProperties DEF ConnTypes
<1>3. written' = [written EXCEPT ![c] = Append(@, m)]
  BY DEF Put
<1> HIDE DEF m
<1>4. /\ written' \in [Conn -> Seq(Message)] /\ written'[c] = Append(written[c], m)
      /\ \A d \in Conn : d # c => written'[d] = written[d]
  BY <1>2, <1>3 DEF ConnTypes
<1>5. QED BY <1>1, <1>4 DEF m

\* The auxiliary variable has its type whatever step it belongs to.
LEMMA ObserveTypes ==
  ASSUME RegistryTypeOK', ConnTypes', active' \in ProfileId, Observe,
         moments \in [Conn -> SUBSET Found]
  PROVE  moments' \in [Conn -> SUBSET Found]
<1> SUFFICES ASSUME NEW c \in Conn, InputInProcess(c)'
             PROVE  Moment(c)' \in Found
  BY DEF Observe
<1>1. /\ sent'[c] \in Seq(Line(c)) /\ Len(sent'[c]) \in Nat /\ read'[c] \in 1 .. Len(sent'[c])
      /\ Current(c)'.kind = "virtual_control_input"
  BY LenProperties DEF ConnTypes, InputInProcess
<1>2. Current(c)' \in Line(c)
  BY <1>1, ElementOfSeq DEF Current
<1>3. Current(c)'.arg[1] \in ControlId
  BY <1>1, <1>2, LineAssumption DEF Converted
<1>4. <<active', Current(c)'.arg[1]>> \in Slot
  BY <1>3 DEF Slot
<1>5. bindings'[<<active', Current(c)'.arg[1]>>] \in Seq(Action)
  BY <1>4 DEF RegistryTypeOK
<1>6. QED BY <1>5 DEF Moment, Found
-----------------------------------------------------------------------------
(***************************************************************************)
(* What a step does, seen from the connection it belongs to.               *)
(***************************************************************************)
Same(d) ==
  UNCHANGED <<peer[d], sent[d], read[d], session[d], pc[d], reply[d], route[d], written[d], opened[d]>>
Alone(c) == \A d \in Conn : d # c => Same(d)

Connects(c) ==
  /\ pc[c] = "closed" /\ pc'[c] = "read"
  /\ UNCHANGED <<sent[c], read[c], session[c], reply[c], route[c], written[c], opened[c]>>

Sends(c) ==
  /\ \E line \in Line(c) : sent'[c] = Append(sent[c], line)
  /\ UNCHANGED <<peer[c], read[c], session[c], pc[c], reply[c], route[c], written[c], opened[c]>>

Leaves(c) ==
  /\ There(c) /\ peer'[c] \in {"silent", "gone"}
  /\ UNCHANGED <<sent[c], read[c], session[c], pc[c], reply[c], route[c], written[c], opened[c]>>

Closes(c) ==
  /\ pc'[c] = "closed" /\ peer'[c] = "gone" /\ read'[c] = 0 /\ session'[c] = "awaiting"
  /\ written'[c] = <<>> /\ opened'[c] = <<>>

Takes(c) ==
  LET line == sent[c][read[c] + 1]
      d == ReceiveLine(session[c], line) IN
  /\ pc[c] = "read" /\ line \in Line(c) /\ line.kind # "not_utf8"
  /\ read'[c] = read[c] + 1 /\ session'[c] = d.state /\ reply'[c] = d.reply
  /\ pc'[c] = IF d.command THEN "command" ELSE "reply"
  /\ UNCHANGED <<peer[c], sent[c], route[c], written[c], opened[c]>>

Replies(c) ==
  LET m == [line |-> read[c], kind |-> reply[c], profile |-> NoProfile] IN
  /\ pc[c] = "reply" /\ There(c) /\ pc'[c] = "read"
  /\ m \in Message /\ written'[c] = Append(written[c], m)
  /\ UNCHANGED <<peer[c], sent[c], read[c], session[c], reply[c], route[c], opened[c]>>

\* A command has its result.
Finishes(c) ==
  /\ pc[c] \in {"command", "find"} /\ pc'[c] = "reply" /\ reply'[c] \in ReplyKind
  /\ UNCHANGED <<peer[c], sent[c], read[c], session[c], written[c], opened[c]>>

\* An input goes on to the next call of the repository, or to the running event.
Routes(c) ==
  /\ \/ pc[c] = "command" /\ pc'[c] = "find" /\ Current(c).kind = "virtual_control_input"
        /\ route'[c].profile = active /\ active' = active
     \/ pc[c] = "find" /\ pc'[c] = "emit_running" /\ route'[c].actions # <<>>
        /\ route'[c].profile = route[c].profile
  /\ UNCHANGED <<peer[c], sent[c], read[c], session[c], reply[c], written[c], opened[c]>>

\* An event does not reach the client.
Loses(c) ==
  /\ pc[c] \in {"emit_running", "emit_succeeded", "emit_failed"} /\ ~ There(c)
  /\ pc'[c] = "reply" /\ reply'[c] = "internal"
  /\ UNCHANGED <<peer[c], sent[c], read[c], session[c], route[c], written[c], opened[c]>>

TellsRunning(c) ==
  LET m == [line |-> read[c], kind |-> "running", profile |-> route[c].profile] IN
  /\ pc[c] = "emit_running" /\ There(c) /\ pc'[c] = "open"
  /\ m \in Message /\ written'[c] = Append(written[c], m)
  /\ UNCHANGED <<peer[c], sent[c], read[c], session[c], reply[c], route[c], opened[c]>>

Opens(c) ==
  /\ pc[c] = "open"
  /\ \/ /\ pc'[c] = "emit_succeeded"
        /\ \E o \in Opening : /\ o.line = read[c] /\ o.profile = route[c].profile
                              /\ opened'[c] = Append(opened[c], o)
     \/ pc'[c] = "emit_failed" /\ UNCHANGED opened[c]
  /\ UNCHANGED <<peer[c], sent[c], read[c], session[c], reply[c], route[c], written[c]>>

TellsOutcome(c) ==
  LET failed == pc[c] = "emit_failed"
      m == [line |-> read[c], kind |-> IF failed THEN "failed" ELSE "succeeded", profile |-> NoProfile] IN
  /\ pc[c] \in {"emit_succeeded", "emit_failed"} /\ There(c) /\ pc'[c] = "reply"
  /\ m \in Message /\ written'[c] = Append(written[c], m)
  /\ reply'[c] = IF failed THEN "internal" ELSE "acknowledged"
  /\ UNCHANGED <<peer[c], sent[c], read[c], session[c], route[c], opened[c]>>

Effect(c) ==
  \/ Connects(c) \/ Sends(c) \/ Leaves(c) \/ Closes(c) \/ Takes(c) \/ Replies(c)
  \/ Finishes(c) \/ Routes(c) \/ Loses(c) \/ TellsRunning(c) \/ Opens(c) \/ TellsOutcome(c)

LEMMA ConnectEffect ==
  ASSUME ConnTypes, NEW c \in Conn, Connect(c)
  PROVE  ConnTypes' /\ Connects(c) /\ Alone(c)
BY DEF ConnTypes, Connect, Connects, Alone, Same, PC, Routing

LEMMA SendEffect ==
  ASSUME ConnTypes, NEW c \in Conn, NEW line \in Line(c), Send(c, line)
  PROVE  ConnTypes' /\ Sends(c) /\ Alone(c)
<1>1. /\ sent[c] \in Seq(Line(c)) /\ sent[c] \in Seq(UNION {Line(d) : d \in Conn})
      /\ line \in UNION {Line(d) : d \in Conn} /\ MaxLines[c] \in Nat
  BY LineAssumption DEF ConnTypes
<1>2. /\ Append(sent[c], line) \in Seq(Line(c))
      /\ Append(sent[c], line) \in Seq(UNION {Line(d) : d \in Conn})
      /\ Len(Append(sent[c], line)) = Len(sent[c]) + 1 /\ Len(sent[c]) \in Nat
  BY <1>1, AppendProperties, LenProperties
<1>3. sent' = [sent EXCEPT ![c] = Append(@, line)] /\ Len(sent[c]) < MaxLines[c]
      /\ UNCHANGED <<registryVars, peer, read, session, pc, error, reply, route, written, opened>>
  BY DEF Send
<1>4. sent' \in [Conn -> Seq(UNION {Line(d) : d \in Conn})]
      /\ sent'[c] = Append(sent[c], line) /\ \A d \in Conn : d # c => sent'[d] = sent[d]
  BY <1>2, <1>3 DEF ConnTypes
<1>5. \A d \in Conn : sent'[d] \in Seq(Line(d)) /\ Len(sent'[d]) <= MaxLines[d] /\ read[d] <= Len(sent'[d])
  <2>1. read[c] \in Nat /\ read[c] <= Len(sent[c])
        /\ \A d \in Conn : sent[d] \in Seq(Line(d)) /\ Len(sent[d]) <= MaxLines[d] /\ read[d] <= Len(sent[d])
    BY DEF ConnTypes
  <2>2. Len(sent'[c]) <= MaxLines[c] /\ read[c] <= Len(sent'[c])
    BY <1>1, <1>2, <1>3, <1>4, <2>1
  <2>3. QED BY <1>2, <1>4, <2>1, <2>2
<1>6. ConnTypes'
  BY <1>3, <1>4, <1>5 DEF ConnTypes
<1>7. QED BY <1>3, <1>4, <1>6 DEF Sends, Alone, Same

LEMMA LeaveEffect ==
  ASSUME ConnTypes, NEW c \in Conn, Shutdown(c) \/ Leave(c)
  PROVE  ConnTypes' /\ Leaves(c) /\ Alone(c)
BY DEF ConnTypes, Shutdown, Leave, Leaves, There, Alone, Same

LEMMA CloseEffect ==
  ASSUME ConnTypes, NEW c \in Conn, Close(c)
  PROVE  ConnTypes' /\ Closes(c) /\ Alone(c)
<1>1. /\ <<>> \in Seq(UNION {Line(d) : d \in Conn}) /\ <<>> \in Seq(Message) /\ <<>> \in Seq(Opening)
      /\ <<>> \in Seq(Line(c)) /\ Len(<<>>) = 0 /\ MaxLines[c] \in Nat
  BY EmptySeq, LineAssumption
<1>2. NoRoute \in Found
  BY EmptySeq DEF NoRoute, Found
<1>3. ConnTypes'
  BY <1>1, <1>2 DEF ConnTypes, Close, DropWorker, PC, Routing
<1>4. QED BY <1>3 DEF ConnTypes, Close, DropWorker, Closes, Alone, Same

LEMMA CrashEffect ==
  ASSUME ConnTypes, Crash
  PROVE  ConnTypes' /\ \A c \in Conn : Closes(c)
<1>1. /\ <<>> \in Seq(UNION {Line(d) : d \in Conn}) /\ <<>> \in Seq(Message) /\ <<>> \in Seq(Opening)
      /\ Len(<<>>) = 0
      /\ \A c \in Conn : <<>> \in Seq(Line(c)) /\ MaxLines[c] \in Nat
  BY EmptySeq, LineAssumption
<1>2. NoRoute \in Found
  BY EmptySeq DEF NoRoute, Found
<1>3. ConnTypes'
  BY <1>1, <1>2 DEF ConnTypes, Crash, PC, Routing
<1>4. QED BY <1>3 DEF Crash, Closes

\* What the session makes of a line: only an established one routes a command, and
\* only a handshake that is accepted establishes it.
LEMMA Receiving ==
  ASSUME NEW state \in {"awaiting", "established"}, NEW line
  PROVE  LET d == ReceiveLine(state, line) IN
         /\ d.state \in {"awaiting", "established"}
         /\ d.reply \in ReplyKind \cup {"none"} /\ d.reply \notin SuccessKind
         /\ d.command \in BOOLEAN
         /\ d.command => state = "established" /\ d.state = "established"
         /\ ~ d.command => d.reply \in ReplyKind
         /\ d.state = "established" =>
              state = "established" \/ (~ d.command /\ d.reply = "handshake_accepted")
<1> DEFINE d == ReceiveLine(state, line)
<1>1. \/ d = Immediate(state, "unknown_message")
      \/ d = Immediate(state, "validation_failed")
      \/ d = Immediate(state, "incompatible_protocol")
      \/ d = Immediate("established", "handshake_accepted")
      \/ d = Routed(state) /\ state = "established"
  <2>1. CASE line.kind \in {"undecodable", "empty_request_id"}
    BY <2>1 DEF ReceiveLine, DecodeErrorCode
  <2>2. CASE line.kind \notin {"undecodable", "empty_request_id"}
    <3>1. ReceiveLine(state, line) = DispatchEnvelope(state, line)
      BY <2>2 DEF ReceiveLine
    <3>2. QED BY <3>1 DEF DispatchEnvelope, Handshake, HandshakeResponse
  <2>3. QED BY <2>1, <2>2
<1> HIDE DEF d
<1>2. ASSUME NEW kind \in ErrorCode, d = Immediate(state, kind)
      PROVE  /\ d.state = state /\ d.reply \in ReplyKind \ SuccessKind /\ d.command = FALSE
  BY <1>2 DEF Immediate, ReplyKind, ErrorCode, SuccessKind
<1>3. ASSUME d = Immediate("established", "handshake_accepted")
      PROVE  d.state = "established" /\ d.reply = "handshake_accepted" /\ d.command = FALSE
             /\ "handshake_accepted" \in ReplyKind \ SuccessKind
  BY <1>3 DEF Immediate, ReplyKind, SuccessKind
<1>4. ASSUME d = Routed(state)
      PROVE  d.state = state /\ d.reply = "none" /\ d.command = TRUE
             /\ "none" \notin SuccessKind
  BY <1>4 DEF Routed, SuccessKind
<1>5. {"unknown_message", "validation_failed", "incompatible_protocol"} \subseteq ErrorCode
  BY DEF ErrorCode
<1>6. /\ d.state \in {"awaiting", "established"}
      /\ d.reply \in ReplyKind \cup {"none"} /\ d.reply \notin SuccessKind
      /\ d.command \in BOOLEAN
      /\ d.command => state = "established" /\ d.state = "established"
      /\ ~ d.command => d.reply \in ReplyKind
      /\ d.state = "established" =>
           state = "established" \/ (~ d.command /\ d.reply = "handshake_accepted")
  BY <1>1, <1>2, <1>3, <1>4, <1>5
<1>7. QED BY <1>6 DEF d

LEMMA ReceiveEffect ==
  ASSUME ConnTypes, NEW c \in Conn, Receive(c)
  PROVE  ConnTypes' /\ (Closes(c) \/ Takes(c)) /\ Alone(c)
<1> DEFINE line == sent[c][read[c] + 1]
           d == ReceiveLine(session[c], line)
<1>1. CASE line.kind = "not_utf8"
  BY <1>1, CloseEffect DEF Receive
<1>2. CASE line.kind # "not_utf8"
  <2>1. /\ pc[c] = "read" /\ read[c] < Len(sent[c])
        /\ read' = [read EXCEPT ![c] = @ + 1]
        /\ session' = [session EXCEPT ![c] = d.state]
        /\ error' = [error EXCEPT ![c] = "none"]
        /\ reply' = [reply EXCEPT ![c] = d.reply]
        /\ pc' = [pc EXCEPT ![c] = IF d.command THEN "command" ELSE "reply"]
        /\ UNCHANGED <<registryVars, peer, sent, route, written, opened>>
    BY <1>2 DEF Receive
  <2>2. sent[c] \in Seq(Line(c)) /\ Len(sent[c]) \in Nat /\ read[c] \in Nat
    BY LenProperties DEF ConnTypes
  <2>3. line \in Line(c)
    BY <2>1, <2>2, ElementOfSeq
  <2>4. session[c] \in {"awaiting", "established"}
    BY DEF ConnTypes
  <2>5. /\ d.state \in {"awaiting", "established"} /\ d.reply \in ReplyKind \cup {"none"}
    BY <2>4, Receiving
  <2> HIDE DEF d
  <2>6. ConnTypes'
    <3>1. /\ read' \in [Conn -> Nat] /\ session' \in [Conn -> {"awaiting", "established"}]
          /\ error' \in [Conn -> AppError \cup {"none"}] /\ reply' \in [Conn -> ReplyKind \cup {"none"}]
          /\ pc' \in [Conn -> PC]
      BY <2>1, <2>2, <2>5 DEF ConnTypes, PC, Routing
    <3>2. \A e \in Conn : read'[e] <= Len(sent[e]) /\ (pc'[e] \in Routing => read'[e] > 0)
      BY <2>1, <2>2 DEF ConnTypes
    <3>3. QED BY <2>1, <3>1, <3>2 DEF ConnTypes
  <2>7. Alone(c)
    BY <2>1 DEF ConnTypes, Alone, Same
  <2>8. Takes(c)
    <3>1. /\ read'[c] = read[c] + 1 /\ session'[c] = d.state /\ reply'[c] = d.reply
          /\ pc'[c] = IF d.command THEN "command" ELSE "reply"
      BY <2>1 DEF ConnTypes
    <3>2. QED BY <1>2, <2>1, <2>3, <3>1 DEF Takes, d
  <2>9. QED BY <2>6, <2>7, <2>8
<1>3. QED BY <1>1, <1>2

LEMMA WriteReplyEffect ==
  ASSUME ConnTypes, NEW c \in Conn, ReplyReady(c), WriteReply(c)
  PROVE  ConnTypes' /\ (Closes(c) \/ Replies(c)) /\ Alone(c)
<1>1. CASE ~ There(c)
  BY <1>1, CloseEffect DEF WriteReply
<1>2. CASE There(c)
  <2>1. /\ pc[c] = "reply" /\ written' = Put(c, reply[c], NoProfile)
        /\ pc' = [pc EXCEPT ![c] = "read"]
        /\ UNCHANGED <<registryVars, peer, sent, read, session, error, reply, route, opened>>
    BY <1>2 DEF WriteReply
  <2>2. read[c] > 0 /\ reply[c] \in ReplyKind
    BY <2>1 DEF ConnTypes, Routing, ReplyReady
  <2> DEFINE m == [line |-> read[c], kind |-> reply[c], profile |-> NoProfile]
  <2>3. /\ m \in Message /\ written' \in [Conn -> Seq(Message)] /\ written'[c] = Append(written[c], m)
        /\ \A d \in Conn : d # c => written'[d] = written[d]
    BY <2>1, <2>2, PutTypes
  <2> HIDE DEF m
  <2>4. ConnTypes' /\ pc'[c] = "read"
    BY <2>1, <2>3 DEF ConnTypes, PC, Routing
  <2>5. Alone(c)
    BY <2>1, <2>3 DEF ConnTypes, Alone, Same
  <2>6. QED BY <1>2, <2>1, <2>3, <2>4, <2>5 DEF Replies, m
<1>3. QED BY <1>1, <1>2

LEMMA FinishEffect ==
  ASSUME ConnTypes, NEW c \in Conn, pc[c] \in {"command", "find"},
         NEW e \in AppError \cup {"none"}, Finish(c, e),
         UNCHANGED <<peer, sent, read, session, written, opened>>,
         route' \in [Conn -> Found], \A d \in Conn : d # c => route'[d] = route[d]
  PROVE  ConnTypes' /\ Finishes(c) /\ Alone(c)
<1>1. /\ error' \in [Conn -> AppError \cup {"none"}] /\ reply' \in [Conn -> ReplyKind \cup {"none"}]
      /\ pc' \in [Conn -> PC]
      /\ \A d \in Conn : d # c => pc'[d] = pc[d] /\ reply'[d] = reply[d]
      /\ pc'[c] = "reply" /\ reply'[c] \in ReplyKind
  BY FinishTypes
<1>2. ConnTypes'
  BY <1>1 DEF ConnTypes, Routing
<1>3. QED BY <1>1, <1>2 DEF Finishes, Alone, Same

LEMMA AppErrors ==
  {"blank_name", "active_invariant", "profile_not_found", "assignment_not_found", "storage",
   "event_sink", "open_url"} \subseteq AppError
BY DEF AppError

\* The commands that are one call of the repository.
LEMMA CallEffect ==
  ASSUME ConnTypes, NEW c \in Conn,
         \/ ReadProfiles(c) \/ CreateProfile(c) \/ RenameProfile(c) \/ SetActiveProfile(c)
         \/ SaveAssignment(c) \/ ClearAssignment(c) \/ StorageFails(c)
  PROVE  ConnTypes' /\ Finishes(c) /\ Alone(c)
<1>1. CommandOnly /\ pc[c] \in {"command", "find"} /\ \E e \in AppError \cup {"none"} : Finish(c, e)
  <2>1. CASE ReadProfiles(c)
    BY <2>1, AppErrors DEF ReadProfiles, Runs, ActiveCheck
  <2>2. CASE CreateProfile(c)
    BY <2>2, AppErrors DEF CreateProfile, Runs
  <2>3. CASE RenameProfile(c)
    BY <2>3, AppErrors DEF RenameProfile, WithProfile, Runs
  <2>4. CASE SetActiveProfile(c)
    BY <2>4, AppErrors DEF SetActiveProfile, WithProfile, Runs
  <2>5. CASE SaveAssignment(c)
    BY <2>5, AppErrors DEF SaveAssignment, WithProfile, Runs
  <2>6. CASE ClearAssignment(c)
    BY <2>6, AppErrors DEF ClearAssignment, WithProfile, Runs
  <2>7. CASE StorageFails(c)
    BY <2>7, AppErrors DEF StorageFails, Runs
  <2>8. QED BY <2>1, <2>2, <2>3, <2>4, <2>5, <2>6, <2>7
<1>2. UNCHANGED <<peer, sent, read, session, route, written, opened>>
  BY <1>1 DEF CommandOnly
<1>3. route' \in [Conn -> Found] /\ \A d \in Conn : d # c => route'[d] = route[d]
  BY <1>2 DEF ConnTypes
<1>4. QED BY <1>1, <1>2, <1>3, FinishEffect

LEMMA ActiveProfileEffect ==
  ASSUME TypeOK, ConnTypes, active \in profiles, NEW c \in Conn, ActiveProfile(c)
  PROVE  ConnTypes' /\ Routes(c) /\ Alone(c)
<1>1. /\ pc[c] = "command" /\ Current(c).kind = "virtual_control_input"
      /\ route' = [route EXCEPT ![c].profile = active]
      /\ Goto(c, "find")
      /\ UNCHANGED <<peer, sent, read, session, written, opened, active>>
  BY DEF ActiveProfile, Runs, ActiveCheck, RouteOnly, registryVars
<1>2. active \in ProfileId
  BY DEF TypeOK, RegistryTypeOK
<1>3. /\ route' \in [Conn -> Found] /\ route'[c].profile = active
      /\ \A d \in Conn : d # c => route'[d] = route[d]
  BY <1>1, <1>2 DEF ConnTypes, Found
<1>4. /\ UNCHANGED <<error, reply>> /\ pc' \in [Conn -> PC]
      /\ pc'[c] = "find" /\ \A d \in Conn : d # c => pc'[d] = pc[d]
  BY <1>1, GotoTypes DEF PC, Routing
<1>5. ConnTypes'
  BY <1>1, <1>3, <1>4 DEF ConnTypes, Routing
<1>6. QED BY <1>1, <1>3, <1>4, <1>5 DEF Routes, Alone, Same

LEMMA FindAssignmentEffect ==
  ASSUME TypeOK, ConnTypes, NEW c \in Conn, RouteHolds(c), FindAssignment(c)
  PROVE  ConnTypes' /\ (Routes(c) \/ Finishes(c)) /\ Alone(c)
<1> DEFINE found == bindings[<<route[c].profile, Current(c).arg[1]>>]
<1>1. /\ pc[c] = "find" /\ route' = [route EXCEPT ![c].actions = found]
      /\ IF found = <<>> THEN Finish(c, "assignment_not_found") ELSE Goto(c, "emit_running")
      /\ UNCHANGED <<peer, sent, read, session, written, opened>>
  BY DEF FindAssignment, Arg, RouteOnly
<1>2. found \in Seq(Action)
  <2>1. Current(c).arg[1] \in ControlId /\ route[c].profile \in ProfileId
    BY <1>1, CurrentLine DEF RouteHolds, Routing, Converted
  <2>2. QED BY <2>1 DEF Slot, TypeOK, RegistryTypeOK
<1> HIDE DEF found
<1>3. /\ route' \in [Conn -> Found] /\ route'[c].profile = route[c].profile /\ route'[c].actions = found
      /\ \A d \in Conn : d # c => route'[d] = route[d]
  BY <1>1, <1>2 DEF ConnTypes, Found
<1>4. CASE found = <<>>
  BY <1>1, <1>3, <1>4, FinishEffect, AppErrors
<1>5. CASE found # <<>>
  <2>1. /\ UNCHANGED <<error, reply>> /\ pc' \in [Conn -> PC]
        /\ pc'[c] = "emit_running" /\ \A d \in Conn : d # c => pc'[d] = pc[d]
    BY <1>1, <1>5, GotoTypes DEF PC, Routing
  <2>2. ConnTypes'
    BY <1>1, <1>3, <2>1 DEF ConnTypes, Routing
  <2>3. QED BY <1>1, <1>3, <1>5, <2>1, <2>2 DEF Routes, Alone, Same
<1>6. QED BY <1>4, <1>5

LEMMA EmitRunningEffect ==
  ASSUME ConnTypes, NEW c \in Conn, RouteHolds(c), EmitRunning(c)
  PROVE  ConnTypes' /\ (TellsRunning(c) \/ Loses(c)) /\ Alone(c)
<1>1. /\ pc[c] = "emit_running" /\ Emit(c, "running", route[c].profile)
      /\ IF There(c) THEN Goto(c, "open") ELSE Finish(c, "event_sink")
      /\ UNCHANGED <<peer, sent, read, session, route, opened>>
  BY DEF EmitRunning, RouteOnly
<1>2. read[c] > 0 /\ route[c].profile \in ProfileId
  BY <1>1 DEF ConnTypes, RouteHolds, Routing
<1>3. CASE There(c)
  <2>1. /\ UNCHANGED <<error, reply>> /\ pc' \in [Conn -> PC]
        /\ pc'[c] = "open" /\ \A d \in Conn : d # c => pc'[d] = pc[d]
    BY <1>1, <1>3, GotoTypes DEF PC, Routing
  <2> DEFINE m == [line |-> read[c], kind |-> "running", profile |-> route[c].profile]
  <2>2. /\ m \in Message /\ written' \in [Conn -> Seq(Message)] /\ written'[c] = Append(written[c], m)
        /\ \A d \in Conn : d # c => written'[d] = written[d]
    BY <1>1, <1>2, <1>3, PutTypes DEF Emit, Event
  <2> HIDE DEF m
  <2>3. ConnTypes'
    BY <1>1, <1>2, <2>1, <2>2 DEF ConnTypes, Routing
  <2>4. QED BY <1>1, <1>3, <2>1, <2>2, <2>3 DEF TellsRunning, Alone, Same, m
<1>4. CASE ~ There(c)
  <2>1. /\ error' \in [Conn -> AppError \cup {"none"}] /\ reply' \in [Conn -> ReplyKind \cup {"none"}]
        /\ pc' \in [Conn -> PC] /\ pc'[c] = "reply" /\ reply'[c] = ErrorMessage("event_sink")
        /\ \A d \in Conn : d # c => pc'[d] = pc[d] /\ reply'[d] = reply[d]
    BY <1>1, <1>4, FinishTypes, AppErrors
  <2>2. ConnTypes' /\ written' = written
    BY <1>1, <1>2, <1>4, <2>1 DEF ConnTypes, Routing, Emit
  <2>3. QED BY <1>1, <1>4, <2>1, <2>2 DEF Loses, Alone, Same, ErrorMessage
<1>5. QED BY <1>3, <1>4

LEMMA OpenUrlEffect ==
  ASSUME ConnTypes, NEW c \in Conn, RouteHolds(c), OpenUrl(c)
  PROVE  ConnTypes' /\ Opens(c) /\ Alone(c)
<1> DEFINE o == [line |-> read[c], profile |-> route[c].profile, action |-> Head(route[c].actions)]
<1>1. /\ pc[c] = "open"
      /\ \/ opened' = [opened EXCEPT ![c] = Append(@, o)] /\ Goto(c, "emit_succeeded")
         \/ UNCHANGED opened /\ Goto(c, "emit_failed")
      /\ UNCHANGED <<peer, sent, read, session, route, written>>
  BY DEF OpenUrl, RouteOnly
<1>2. o \in Opening /\ o.line = read[c] /\ o.profile = route[c].profile
  <2>1. read[c] \in Nat \ {0} /\ route[c].profile \in ProfileId
    BY <1>1 DEF ConnTypes, RouteHolds, Routing
  <2>2. route[c].actions \in Seq(Action) /\ route[c].actions # <<>>
    BY <1>1 DEF ConnTypes, RouteHolds, Found
  <2>3. Head(route[c].actions) \in Action
    BY <2>2, HeadTailProperties
  <2>4. QED BY <2>1, <2>3 DEF Opening
<1> HIDE DEF o
<1>3. Append(opened[c], o) \in Seq(Opening)
  BY <1>2, AppendProperties DEF ConnTypes
<1>4. read[c] > 0
  BY <1>1 DEF ConnTypes, Routing
<1>5. CASE opened' = [opened EXCEPT ![c] = Append(@, o)] /\ Goto(c, "emit_succeeded")
  <2>1. /\ UNCHANGED <<error, reply>> /\ pc' \in [Conn -> PC]
        /\ pc'[c] = "emit_succeeded" /\ \A d \in Conn : d # c => pc'[d] = pc[d]
    BY <1>5, GotoTypes DEF PC, Routing
  <2>2. /\ opened' \in [Conn -> Seq(Opening)] /\ opened'[c] = Append(opened[c], o)
        /\ \A d \in Conn : d # c => opened'[d] = opened[d]
    BY <1>3, <1>5 DEF ConnTypes
  <2>3. ConnTypes'
    BY <1>1, <1>4, <2>1, <2>2 DEF ConnTypes, Routing
  <2>4. QED BY <1>1, <1>2, <2>1, <2>2, <2>3 DEF Opens, Alone, Same
<1>6. CASE UNCHANGED opened /\ Goto(c, "emit_failed")
  <2>1. /\ UNCHANGED <<error, reply>> /\ pc' \in [Conn -> PC]
        /\ pc'[c] = "emit_failed" /\ \A d \in Conn : d # c => pc'[d] = pc[d]
    BY <1>6, GotoTypes DEF PC, Routing
  <2>2. ConnTypes'
    BY <1>1, <1>4, <1>6, <2>1 DEF ConnTypes, Routing
  <2>3. QED BY <1>1, <1>6, <2>1, <2>2 DEF Opens, Alone, Same
<1>7. QED BY <1>1, <1>5, <1>6

LEMMA EmitOutcomeEffect ==
  ASSUME ConnTypes, NEW c \in Conn, RouteHolds(c), EmitOutcome(c)
  PROVE  ConnTypes' /\ (TellsOutcome(c) \/ Loses(c)) /\ Alone(c)
<1> DEFINE failed == pc[c] = "emit_failed"
           kind == IF failed THEN "failed" ELSE "succeeded"
           e == IF ~ There(c) THEN "event_sink" ELSE IF failed THEN "open_url" ELSE "none"
<1>1. /\ pc[c] \in {"emit_succeeded", "emit_failed"}
      /\ Emit(c, kind, NoProfile) /\ Finish(c, e)
      /\ UNCHANGED <<peer, sent, read, session, route, opened>>
  BY DEF EmitOutcome, RouteOnly
<1>2. read[c] > 0 /\ kind \in Event /\ e \in AppError \cup {"none"}
  BY <1>1, AppErrors DEF ConnTypes, Routing, Event
<1>3. /\ error' \in [Conn -> AppError \cup {"none"}] /\ reply' \in [Conn -> ReplyKind \cup {"none"}]
      /\ pc' \in [Conn -> PC] /\ pc'[c] = "reply"
      /\ \A d \in Conn : d # c => pc'[d] = pc[d] /\ reply'[d] = reply[d]
      /\ reply'[c] = IF e = "none" THEN Response(Current(c).kind) ELSE ErrorMessage(e)
  BY <1>1, <1>2, FinishTypes
<1>4. CASE There(c)
  <2> DEFINE m == [line |-> read[c], kind |-> kind, profile |-> NoProfile]
  <2>1. /\ m \in Message /\ written' \in [Conn -> Seq(Message)] /\ written'[c] = Append(written[c], m)
        /\ \A d \in Conn : d # c => written'[d] = written[d]
    BY <1>1, <1>2, <1>4, PutTypes DEF Emit
  <2>2. ConnTypes'
    BY <1>1, <1>2, <1>3, <2>1 DEF ConnTypes, Routing
  <2>3. reply'[c] = IF failed THEN "internal" ELSE "acknowledged"
    <3>1. Response(Current(c).kind) = "acknowledged"
      BY <1>1 DEF RouteHolds, Routing, Response
    <3>2. QED BY <1>3, <1>4, <3>1 DEF ErrorMessage
  <2>4. QED BY <1>1, <1>3, <1>4, <2>1, <2>2, <2>3 DEF TellsOutcome, Alone, Same
<1>5. CASE ~ There(c)
  <2>1. reply'[c] = "internal"
    BY <1>3, <1>5 DEF ErrorMessage
  <2>2. ConnTypes' /\ written' = written
    BY <1>1, <1>2, <1>3, <1>5 DEF ConnTypes, Routing, Emit
  <2>3. QED BY <1>1, <1>3, <1>5, <2>1, <2>2 DEF Loses, Alone, Same
<1>6. QED BY <1>4, <1>5

\* Every step closes all connections, or has one of these effects on one of them.
LEMMA StepEffect ==
  ASSUME IInv, Next
  PROVE  ConnTypes' /\ \/ \A c \in Conn : Closes(c)
                       \/ \E c \in Conn : Effect(c) /\ Alone(c)
<1>1. ConnTypes /\ TypeOK /\ active \in profiles
      /\ \A c \in Conn : RouteHolds(c) /\ ReplyReady(c)
  BY TypeParts DEF IInv, ConnInv
<1>2. CASE Crash
  BY <1>1, <1>2, CrashEffect
<1>3. ASSUME NEW c \in Conn,
             Connect(c) \/ Shutdown(c) \/ Leave(c) \/ (\E line \in Line(c) : Send(c, line)) \/ Eof(c) \/ ReadFails(c) \/ Receive(c) \/ WriteReply(c)
      PROVE  ConnTypes' /\ Effect(c) /\ Alone(c)
  BY <1>1, <1>3, ConnectEffect, LeaveEffect, SendEffect, CloseEffect, ReceiveEffect, WriteReplyEffect
     DEF Eof, ReadFails, Effect
<1>4. ASSUME NEW c \in Conn, Command(c)
      PROVE  ConnTypes' /\ Effect(c) /\ Alone(c)
  BY <1>1, <1>4, CallEffect, ActiveProfileEffect, FindAssignmentEffect, EmitRunningEffect, OpenUrlEffect,
     EmitOutcomeEffect DEF Command, Effect
<1>5. QED BY <1>2, <1>3, <1>4 DEF Next, Work
-----------------------------------------------------------------------------
(***************************************************************************)
(* The parts of the invariant, over the effects.                           *)
(***************************************************************************)
LEMMA OthersHold ==
  ASSUME NEW c \in Conn, ConnInv(c), Same(c)
  PROVE  ConnInv(c)'
<1>1. /\ peer'[c] = peer[c] /\ read'[c] = read[c] /\ session'[c] = session[c] /\ pc'[c] = pc[c]
      /\ reply'[c] = reply[c] /\ route'[c] = route[c] /\ written'[c] = written[c] /\ opened'[c] = opened[c]
      /\ Current(c)' = Current(c)
  BY DEF Same, Current
<1>2. ToldNow(c)' = ToldNow(c) /\ (OpenedNow(c)' <=> OpenedNow(c)) /\ (AcceptedNow(c)' <=> AcceptedNow(c))
  BY <1>1 DEF ToldNow, OpenedNow, AcceptedNow
<1>3. ClosedIsEmpty(c)' /\ RouteHolds(c)' /\ ReplyReady(c)' /\ SessionHolds(c)' /\ RunningWasLast(c)'
  BY <1>1, <1>2 DEF ConnInv, ClosedIsEmpty, RouteHolds, ReplyReady, SessionHolds, RunningWasLast
<1>4. AnswersHold(c)'
  BY <1>1 DEF ConnInv, AnswersHold
<1>5. ReportHolds(c)'
  BY <1>1, <1>2 DEF ConnInv, ReportHolds
<1>6. QED BY <1>3, <1>4, <1>5 DEF ConnInv

LEMMA CloseHolds ==
  ASSUME NEW c \in Conn, Closes(c)
  PROVE  ConnInv(c)'
<1>1. pc'[c] = "closed" /\ peer'[c] = "gone" /\ read'[c] = 0 /\ session'[c] = "awaiting"
      /\ written'[c] = <<>> /\ opened'[c] = <<>> /\ Len(<<>>) = 0
  BY DEF Closes
<1>2. ClosedIsEmpty(c)' /\ RouteHolds(c)' /\ ReplyReady(c)' /\ SessionHolds(c)' /\ RunningWasLast(c)'
  BY <1>1, EmptyHistory
     DEF ClosedIsEmpty, RouteHolds, ReplyReady, SessionHolds, RunningWasLast, Routing
<1>3. AnswersHold(c)'
  BY <1>1, EmptyHistory DEF AnswersHold
<1>4. ReportHolds(c)'
  BY <1>1, EmptyHistory DEF ReportHolds, ToldNow, OpenedNow
<1>5. QED BY <1>2, <1>3, <1>4 DEF ConnInv

\* A line that is sent is not the one in process.
LEMMA SendKeepsCurrent ==
  ASSUME ConnTypes, NEW c \in Conn, Sends(c), read[c] > 0
  PROVE  Current(c)' = Current(c)
<1>1. PICK line \in Line(c) : sent'[c] = Append(sent[c], line)
  BY DEF Sends
<1>2. sent[c] \in Seq(Line(c)) /\ read[c] \in 1 .. Len(sent[c])
  BY LenProperties DEF ConnTypes
<1>3. sent'[c][read[c]] = sent[c][read[c]]
  BY <1>1, <1>2, AppendProperties
<1>4. QED BY <1>3 DEF Current, Sends

LEMMA ClosedIsEmptyStep ==
  ASSUME ConnTypes, NEW c \in Conn, ConnInv(c), Effect(c)
  PROVE  ClosedIsEmpty(c)'
BY DEF ConnInv, ClosedIsEmpty, Effect, Connects, Sends, Leaves, Closes, Takes, Replies, Finishes, Routes,
       Loses, TellsRunning, Opens, TellsOutcome

LEMMA ReplyReadyStep ==
  ASSUME ConnTypes, NEW c \in Conn, ConnInv(c), Effect(c)
  PROVE  ReplyReady(c)'
<1>1. CASE Takes(c)
  <2>1. session[c] \in {"awaiting", "established"}
    BY DEF ConnTypes
  <2>2. QED BY <1>1, <2>1, Receiving DEF Takes, ReplyReady
<1>2. CASE ~ Takes(c)
  <2>1. "internal" \in ReplyKind /\ "acknowledged" \in ReplyKind
    BY DEF ReplyKind, ErrorCode, SuccessKind
  <2>2. QED BY <1>2, <2>1 DEF ConnInv, ReplyReady, Effect, Connects, Sends, Leaves, Closes, Replies, Finishes,
                   Routes, Loses, TellsRunning, Opens, TellsOutcome
<1>3. QED BY <1>1, <1>2

LEMMA RouteHoldsStep ==
  ASSUME ConnTypes, active \in ProfileId, NEW c \in Conn, ConnInv(c), Effect(c)
  PROVE  RouteHolds(c)'
<1>1. RouteHolds(c)
  BY DEF ConnInv
<1>2. CASE Sends(c)
  <2>1. pc[c] \in Routing => Current(c)' = Current(c)
    BY <1>2, SendKeepsCurrent DEF ConnTypes
  <2>2. QED BY <1>1, <1>2, <2>1 DEF RouteHolds, Sends
<1>3. CASE Connects(c) \/ Closes(c) \/ Takes(c) \/ Replies(c) \/ Finishes(c) \/ Loses(c) \/ TellsOutcome(c)
  BY <1>3 DEF RouteHolds, Routing, Connects, Closes, Takes, Replies, Finishes, Loses, TellsOutcome
<1>4. CASE Leaves(c) \/ Routes(c) \/ TellsRunning(c) \/ Opens(c)
  <2>1. Current(c)' = Current(c)
    BY <1>4 DEF Leaves, Routes, TellsRunning, Opens, Current
  <2>2. QED BY <1>1, <1>4, <2>1 DEF RouteHolds, Routing, Leaves, Routes, TellsRunning, Opens
<1>5. QED BY <1>2, <1>3, <1>4 DEF Effect

LEMMA RunningWasLastStep ==
  ASSUME ConnTypes, NEW c \in Conn, ConnInv(c), Effect(c)
  PROVE  RunningWasLast(c)'
<1>1. RunningWasLast(c)
  BY DEF ConnInv
<1>2. CASE TellsRunning(c)
  <2> DEFINE m == [line |-> read[c], kind |-> "running", profile |-> route[c].profile]
  <2>1. m \in Message /\ written'[c] = Append(written[c], m) /\ UNCHANGED <<read[c], route[c]>>
    BY <1>2 DEF TellsRunning
  <2>2. written[c] \in Seq(Message)
    BY DEF ConnTypes
  <2> HIDE DEF m
  <2>3. written'[c] # <<>> /\ Last(written'[c]) = m
    BY <2>1, <2>2, AppendProperties DEF Last
  <2>4. QED BY <2>1, <2>3 DEF RunningWasLast, m
<1>3. CASE ~ TellsRunning(c)
  BY <1>1, <1>3 DEF RunningWasLast, Effect, Connects, Sends, Leaves, Closes, Takes, Replies, Finishes, Routes,
                    Loses, Opens, TellsOutcome
<1>4. QED BY <1>2, <1>3

\* What a message that is written does to the parts that speak of all messages.
LEMMA WriteKeepsAccepted ==
  ASSUME ConnTypes, NEW c \in Conn, NEW m \in Message, written'[c] = Append(written[c], m)
  PROVE  AcceptedNow(c)' <=> AcceptedNow(c) \/ m.kind = "handshake_accepted"
<1>1. written[c] \in Seq(Message)
  BY DEF ConnTypes
<1>2. 0 \in 0 .. Len(written[c])
  BY <1>1, LenProperties
<1>3. QED BY <1>1, <1>2, AppendAccepted DEF AcceptedNow

LEMMA SessionHoldsStep ==
  ASSUME ConnTypes, NEW c \in Conn, ConnInv(c), Effect(c)
  PROVE  SessionHolds(c)'
<1>1. SessionHolds(c) /\ ReplyReady(c) /\ ClosedIsEmpty(c)
  BY DEF ConnInv
<1>2. written[c] \in Seq(Message) /\ session[c] \in {"awaiting", "established"} /\ pc[c] \in PC
  BY DEF ConnTypes
<1>3. CASE Takes(c)
  <2>1. AcceptedNow(c)' = AcceptedNow(c) /\ pc[c] = "read"
    BY <1>3 DEF Takes, AcceptedNow
  <2>2. session[c] = "established" => AcceptedNow(c)
    BY <1>1, <2>1 DEF SessionHolds
  <2>3. pc'[c] \in Routing \ {"reply"} => session[c] = "established"
    BY <1>2, <1>3, Receiving DEF Takes
  <2>4. session'[c] = "established" =>
          session[c] = "established" \/ (pc'[c] = "reply" /\ reply'[c] = "handshake_accepted")
    BY <1>2, <1>3, Receiving DEF Takes
  <2>5. reply'[c] \notin SuccessKind
    BY <1>2, <1>3, Receiving DEF Takes
  <2>6. written'[c] = written[c] /\ opened'[c] = opened[c]
    BY <1>3 DEF Takes
  <2>7. QED BY <1>1, <2>1, <2>2, <2>3, <2>4, <2>5, <2>6 DEF SessionHolds
<1>4. CASE Replies(c)
  <2> DEFINE m == [line |-> read[c], kind |-> reply[c], profile |-> NoProfile]
  <2>1. m \in Message /\ m.kind = reply[c] /\ written'[c] = Append(written[c], m) /\ pc[c] = "reply"
        /\ pc'[c] = "read" /\ UNCHANGED <<session[c], reply[c], opened[c]>>
    BY <1>4 DEF Replies
  <2> HIDE DEF m
  <2>2. AcceptedNow(c)' <=> AcceptedNow(c) \/ reply[c] = "handshake_accepted"
    BY <2>1, WriteKeepsAccepted
  <2>3. reply[c] \in ReplyKind /\ reply[c] \notin Event
    BY <1>1, <2>1 DEF ReplyReady, ReplyKind, ErrorCode, SuccessKind, Event
  <2>4. SuccessAfterAccept(Append(written[c], m))
    BY <1>1, <1>2, <2>1, <2>3, AppendSuccessAfterAccept DEF SessionHolds, AcceptedNow
  <2>5. QED BY <1>1, <2>1, <2>2, <2>4 DEF SessionHolds, Routing
<1>5. CASE TellsRunning(c) \/ TellsOutcome(c)
  <2>1. PICK m \in Message : written'[c] = Append(written[c], m)
    BY <1>5 DEF TellsRunning, TellsOutcome
  <2>2. pc[c] \in Routing \ {"reply"} /\ UNCHANGED <<session[c], opened[c]>>
    BY <1>5 DEF TellsRunning, TellsOutcome, Routing
  <2>3. AcceptedNow(c) /\ AcceptedNow(c)'
    BY <1>1, <2>1, <2>2, WriteKeepsAccepted DEF SessionHolds
  <2>4. SuccessAfterAccept(Append(written[c], m))
    BY <1>1, <1>2, <2>3, AppendSuccessAfterAccept DEF SessionHolds, AcceptedNow
  <2>5. QED BY <2>1, <2>3, <2>4 DEF SessionHolds
<1>6. CASE Opens(c) \/ Finishes(c) \/ Routes(c) \/ Loses(c)
  <2>1. pc[c] \in Routing \ {"reply"} /\ written'[c] = written[c]
    BY <1>6 DEF Opens, Finishes, Routes, Loses, Routing
  <2>2. AcceptedNow(c) /\ AcceptedNow(c)'
    BY <1>1, <2>1 DEF SessionHolds, AcceptedNow
  <2>3. QED BY <1>1, <2>1, <2>2 DEF SessionHolds
<1>7. CASE Connects(c) \/ Sends(c) \/ Leaves(c)
  <2>1. UNCHANGED <<session[c], reply[c], written[c], opened[c]>>
        /\ (pc'[c] = pc[c] \/ (pc[c] = "closed" /\ pc'[c] = "read"))
    BY <1>7 DEF Connects, Sends, Leaves
  <2>2. AcceptedNow(c)' = AcceptedNow(c)
    BY <2>1 DEF AcceptedNow
  <2>3. QED BY <1>1, <2>1, <2>2 DEF SessionHolds, Routing
<1>8. CASE Closes(c)
  BY <1>8, CloseHolds DEF ConnInv
<1>9. QED BY <1>3, <1>4, <1>5, <1>6, <1>7, <1>8 DEF Effect

LEMMA AnswersHoldStep ==
  ASSUME ConnTypes, NEW c \in Conn, ConnInv(c), Effect(c)
  PROVE  AnswersHold(c)'
<1>1. AnswersHold(c) /\ ReplyReady(c) /\ ClosedIsEmpty(c)
  BY DEF ConnInv
<1>2. written[c] \in Seq(Message) /\ Len(written[c]) \in Nat /\ read[c] \in Nat
      /\ (pc[c] \in Routing => read[c] > 0)
      /\ \A n \in 1 .. Len(written[c]) : written[c][n].line \in Nat \ {0}
  <2>1. written[c] \in Seq(Message) /\ read[c] \in Nat /\ (pc[c] \in Routing => read[c] > 0)
    BY DEF ConnTypes
  <2>2. Len(written[c]) \in Nat /\ \A n \in 1 .. Len(written[c]) : written[c][n] \in Message
    BY <2>1, LenProperties, ElementOfSeq
  <2>3. QED BY <2>1, <2>2 DEF Message
<1>3. CASE Takes(c)
  <2>1. read'[c] = read[c] + 1 /\ written'[c] = written[c] /\ pc[c] = "read" /\ pc'[c] # "read"
    BY <1>3 DEF Takes
  <2>2. ~ Answered(written[c], read[c] + 1)
    BY <1>1, <1>2 DEF AnswersHold, Answered
  <2>3. QED BY <1>1, <1>2, <2>1, <2>2 DEF AnswersHold
\* A message about the line in process, which has no reply yet.
<1>4. ASSUME NEW m \in Message, m.line = read[c], written'[c] = Append(written[c], m), pc[c] \in Routing,
             read'[c] = read[c], m.kind \in ReplyKind <=> pc'[c] = "read"
      PROVE  AnswersHold(c)'
  <2>1. /\ Len(written'[c]) = Len(written[c]) + 1 /\ written'[c][Len(written[c]) + 1] = m
        /\ \A k \in 1 .. Len(written[c]) : written'[c][k] = written[c][k]
    BY <1>2, <1>4, AppendProperties
  <2>2. \A n \in 1 .. Len(written'[c]) : written'[c][n].line <= read[c]
    BY <1>1, <1>2, <1>4, <2>1 DEF AnswersHold
  <2>3. ~ Answered(written[c], read[c])
    BY <1>1, <1>2, <1>4 DEF AnswersHold, Routing
  <2>4. \A n \in 1 .. Len(written[c]) : written[c][n].kind \in ReplyKind => written[c][n].line < m.line
    BY <1>1, <1>2, <1>4, <2>3 DEF AnswersHold, Answered
  <2>5. ReplyEndsLine(written'[c])
    BY <1>1, <1>2, <1>4, <2>4, AppendReplyEndsLine DEF AnswersHold
  <2>6. ASSUME NEW l \in 1 .. read[c]
        PROVE  Answered(written'[c], l) <=> l < read[c] \/ pc'[c] = "read"
    <3>1. Answered(written'[c], l) <=> Answered(written[c], l) \/ (m.line = l /\ m.kind \in ReplyKind)
      BY <1>2, <1>4, AppendAnswered
    <3>2. Answered(written[c], l) <=> l < read[c]
      BY <1>1, <1>4 DEF AnswersHold, Routing
    <3>3. QED BY <1>2, <1>4, <3>1, <3>2
  <2>7. QED BY <1>4, <2>2, <2>5, <2>6 DEF AnswersHold
<1>5. CASE Replies(c)
  BY <1>1, <1>4, <1>5 DEF Replies, ReplyReady, Routing
<1>6. CASE TellsRunning(c)
  BY <1>4, <1>6 DEF TellsRunning, Routing, ReplyKind, ErrorCode, SuccessKind
<1>7. CASE TellsOutcome(c)
  BY <1>4, <1>7 DEF TellsOutcome, Routing, ReplyKind, ErrorCode, SuccessKind
<1>8. CASE Sends(c) \/ Leaves(c) \/ Finishes(c) \/ Routes(c) \/ Loses(c) \/ Opens(c)
  <2>1. UNCHANGED <<read[c], written[c]>> /\ (pc'[c] = "read" <=> pc[c] = "read")
    BY <1>8 DEF Sends, Leaves, Finishes, Routes, Loses, Opens
  <2>2. QED BY <1>1, <2>1 DEF AnswersHold
<1>9. CASE Connects(c)
  <2>1. read'[c] = 0 /\ written'[c] = <<>> /\ Len(<<>>) = 0
    BY <1>1, <1>9 DEF Connects, ClosedIsEmpty
  <2>2. QED BY <2>1, EmptyHistory DEF AnswersHold
<1>10. CASE Closes(c)
  BY <1>10, CloseHolds DEF ConnInv
<1>11. QED BY <1>3, <1>5, <1>6, <1>7, <1>8, <1>9, <1>10 DEF Effect

LEMMA ReportHoldsStep ==
  ASSUME ConnTypes, NEW c \in Conn, ConnInv(c), Effect(c)
  PROVE  ReportHolds(c)'
<1>1. ReportHolds(c) /\ ReplyReady(c) /\ ClosedIsEmpty(c) /\ AnswersHold(c)
  BY DEF ConnInv
<1>2. /\ written[c] \in Seq(Message) /\ opened[c] \in Seq(Opening) /\ read[c] \in Nat
      /\ Len(written[c]) \in Nat /\ Len(opened[c]) \in Nat
  BY LenProperties DEF ConnTypes
<1>3. CASE Takes(c)
  <2>1. /\ read'[c] = read[c] + 1 /\ written'[c] = written[c] /\ opened'[c] = opened[c]
        /\ pc'[c] \in {"command", "reply"}
    BY <1>3 DEF Takes
  <2>2. \A n \in 1 .. Len(written[c]) : written[c][n].line # read[c] + 1
    BY <1>1, <1>2 DEF AnswersHold
  <2>3. \A k \in 1 .. Len(opened[c]) : opened[c][k].line # read[c] + 1 /\ opened[c][k].line <= read[c] + 1
    <3>1. \A k \in 1 .. Len(opened[c]) : opened[c][k] \in Opening
      BY <1>2, ElementOfSeq
    <3>2. \A k \in 1 .. Len(opened[c]) : opened[c][k].line \in Nat /\ opened[c][k].line <= read[c]
      BY <1>1, <3>1 DEF Opening, ReportHolds
    <3>3. QED BY <1>2, <3>2
  <2>4. ToldNow(c)' = {}
    BY <2>1, <2>2 DEF ToldNow, Told
  <2>5. ~ OpenedNow(c)'
    BY <2>1, <2>3 DEF OpenedNow, Opened
  <2>6. pc'[c] = "reply" => Follows({}, reply'[c])
    BY <1>3, ReplyReadyStep DEF ReplyReady, Follows
  <2>7. QED BY <1>1, <2>1, <2>3, <2>4, <2>5, <2>6 DEF ReportHolds
<1>4. ASSUME NEW m \in Message, m.line = read[c], written'[c] = Append(written[c], m),
             UNCHANGED <<read[c], opened[c]>>, Follows(ToldNow(c), m.kind),
             m.kind # "running" => (OpenedNow(c) <=> "succeeded" \in ToldNow(c) \cup {m.kind})
      PROVE  /\ \A k \in 1 .. Len(opened'[c]) : opened'[c][k].line <= read'[c]
             /\ OpensOnce(opened'[c])
             /\ \A n \in 1 .. Len(written'[c]) : Reported(written'[c], opened'[c], n)
             /\ ToldNow(c)' = ToldNow(c) \cup {m.kind}
             /\ OpenedNow(c)' <=> OpenedNow(c)
  <2>1. \A n \in 1 .. Len(written[c]) : Reported(written[c], opened[c], n)
    BY <1>1 DEF ReportHolds
  <2>2. \A n \in 1 .. Len(Append(written[c], m)) : Reported(Append(written[c], m), opened[c], n)
    BY <1>2, <1>4, <2>1, AppendReported DEF ToldNow, OpenedNow
  <2>3. ToldNow(c)' = ToldNow(c) \cup {m.kind}
    <3>1. PICK ms, l, ms2 : ms = written[c] /\ l = read[c] /\ ms2 = Append(ms, m)
      OBVIOUS
    <3>2. Told(ms2, l, Len(ms2)) = Told(ms, l, Len(ms)) \cup {m.kind}
      BY <1>2, <1>4, <3>1, AppendTells
    <3>3. ToldNow(c)' = Told(ms2, l, Len(ms2)) /\ ToldNow(c) = Told(ms, l, Len(ms))
      BY <1>4, <3>1 DEF ToldNow
    <3>4. QED BY <3>2, <3>3
  <2>4. OpenedNow(c)' <=> OpenedNow(c)
    BY <1>4 DEF OpenedNow
  <2>5. QED BY <1>1, <1>4, <2>2, <2>3, <2>4 DEF ReportHolds
<1>5. CASE Replies(c)
  <2> DEFINE m == [line |-> read[c], kind |-> reply[c], profile |-> NoProfile]
  <2>1. /\ m \in Message /\ m.line = read[c] /\ m.kind = reply[c] /\ written'[c] = Append(written[c], m)
        /\ UNCHANGED <<read[c], opened[c]>> /\ pc[c] = "reply" /\ There(c) /\ pc'[c] = "read"
    BY <1>5 DEF Replies
  <2> HIDE DEF m
  <2>2. Follows(ToldNow(c), reply[c]) /\ (OpenedNow(c) <=> "succeeded" \in ToldNow(c))
    BY <1>1, <2>1 DEF ReportHolds
  <2>3. reply[c] # "succeeded"
    BY <1>1, <2>1 DEF ReplyReady, ReplyKind, ErrorCode, SuccessKind
  <2>4. QED BY <1>4, <2>1, <2>2, <2>3 DEF ReportHolds
<1>6. CASE TellsRunning(c)
  <2> DEFINE m == [line |-> read[c], kind |-> "running", profile |-> route[c].profile]
  <2>1. /\ m \in Message /\ m.line = read[c] /\ m.kind = "running" /\ written'[c] = Append(written[c], m)
        /\ UNCHANGED <<read[c], opened[c]>> /\ pc[c] = "emit_running" /\ pc'[c] = "open"
    BY <1>6 DEF TellsRunning
  <2> HIDE DEF m
  <2>2. ToldNow(c) = {} /\ ~ OpenedNow(c)
    BY <1>1, <2>1 DEF ReportHolds
  <2>3. Follows(ToldNow(c), "running")
    BY <2>2 DEF Follows
  <2>4. /\ \A k \in 1 .. Len(opened'[c]) : opened'[c][k].line <= read'[c]
        /\ OpensOnce(opened'[c])
        /\ \A n \in 1 .. Len(written'[c]) : Reported(written'[c], opened'[c], n)
        /\ ToldNow(c)' = {"running"} /\ ~ OpenedNow(c)'
    BY <1>4, <2>1, <2>2, <2>3
  <2>5. QED BY <2>1, <2>4 DEF ReportHolds
<1>7. CASE TellsOutcome(c)
  <2> DEFINE kind == IF pc[c] = "emit_failed" THEN "failed" ELSE "succeeded"
             m == [line |-> read[c], kind |-> kind, profile |-> NoProfile]
  <2>1. /\ m \in Message /\ m.line = read[c] /\ m.kind = kind /\ written'[c] = Append(written[c], m)
        /\ UNCHANGED <<read[c], opened[c]>> /\ pc[c] \in {"emit_succeeded", "emit_failed"}
        /\ pc'[c] = "reply" /\ reply'[c] = IF pc[c] = "emit_failed" THEN "internal" ELSE "acknowledged"
    BY <1>7 DEF TellsOutcome
  <2> HIDE DEF m
  <2>2. ToldNow(c) = {"running"} /\ (OpenedNow(c) <=> pc[c] = "emit_succeeded")
    BY <1>1, <2>1 DEF ReportHolds
  <2>3. Follows(ToldNow(c), kind) /\ kind # "running"
        /\ (OpenedNow(c) <=> "succeeded" \in ToldNow(c) \cup {kind})
    BY <2>1, <2>2 DEF Follows
  <2>4. /\ \A k \in 1 .. Len(opened'[c]) : opened'[c][k].line <= read'[c]
        /\ OpensOnce(opened'[c])
        /\ \A n \in 1 .. Len(written'[c]) : Reported(written'[c], opened'[c], n)
        /\ ToldNow(c)' = {"running", kind} /\ (OpenedNow(c)' <=> OpenedNow(c))
    BY <1>4, <2>1, <2>2, <2>3
  <2>5. Follows(ToldNow(c)', reply'[c]) /\ (OpenedNow(c)' <=> "succeeded" \in ToldNow(c)')
    BY <2>1, <2>2, <2>3, <2>4 DEF Follows
  <2>6. QED BY <2>1, <2>4, <2>5 DEF ReportHolds
<1>8. CASE Opens(c)
  <2>1. /\ pc[c] = "open" /\ UNCHANGED <<read[c], written[c]>> /\ ToldNow(c)' = ToldNow(c)
    BY <1>8 DEF Opens, ToldNow
  <2>2. ToldNow(c) = {"running"} /\ ~ OpenedNow(c)
    BY <1>1, <2>1 DEF ReportHolds
  <2>3. CASE pc'[c] = "emit_failed" /\ UNCHANGED opened[c]
    BY <1>1, <2>1, <2>2, <2>3 DEF ReportHolds, OpenedNow
  <2>4. CASE pc'[c] = "emit_succeeded"
             /\ \E o \in Opening : o.line = read[c] /\ opened'[c] = Append(opened[c], o)
    <3>1. PICK o \in Opening : o.line = read[c] /\ opened'[c] = Append(opened[c], o)
      BY <2>4
    <3>2. OpensOnce(opened'[c])
      BY <1>1, <1>2, <2>2, <3>1, AppendOpensOnce DEF ReportHolds, OpenedNow
    <3>3. \A n \in 1 .. Len(written[c]) : Reported(written[c], opened'[c], n)
      BY <1>1, <1>2, <2>2, <3>1, OpenReported DEF ReportHolds, ToldNow
    <3>4. OpenedNow(c)'
      BY <1>2, <2>1, <3>1, AppendOpened DEF OpenedNow
    <3>5. \A k \in 1 .. Len(opened'[c]) : opened'[c][k].line <= read[c]
      <4>1. /\ Len(opened'[c]) = Len(opened[c]) + 1 /\ opened'[c][Len(opened[c]) + 1] = o
            /\ \A k \in 1 .. Len(opened[c]) : opened'[c][k] = opened[c][k]
        BY <1>2, <3>1, AppendProperties
      <4>2. QED BY <1>1, <1>2, <3>1, <4>1 DEF ReportHolds
    <3>6. QED BY <2>1, <2>2, <2>4, <3>2, <3>3, <3>4, <3>5 DEF ReportHolds
  <2>5. QED BY <1>8, <2>3, <2>4 DEF Opens
<1>9. CASE Finishes(c)
  <2>1. /\ pc[c] \in {"command", "find"} /\ pc'[c] = "reply" /\ reply'[c] \in ReplyKind
        /\ UNCHANGED <<read[c], written[c], opened[c]>>
        /\ ToldNow(c)' = ToldNow(c) /\ (OpenedNow(c)' <=> OpenedNow(c))
    BY <1>9 DEF Finishes, ToldNow, OpenedNow
  <2>2. ToldNow(c) = {} /\ ~ OpenedNow(c)
    BY <1>1, <2>1 DEF ReportHolds
  <2>3. Follows({}, reply'[c])
    BY <2>1 DEF Follows
  <2>4. QED BY <1>1, <2>1, <2>2, <2>3 DEF ReportHolds
<1>10. CASE Sends(c) \/ Leaves(c) \/ Routes(c) \/ Loses(c)
  <2>1. /\ UNCHANGED <<read[c], written[c], opened[c]>>
        /\ ToldNow(c)' = ToldNow(c) /\ (OpenedNow(c)' <=> OpenedNow(c))
    BY <1>10 DEF Sends, Leaves, Routes, Loses, ToldNow, OpenedNow
  <2>2. QED BY <1>1, <1>10, <2>1 DEF ReportHolds, Sends, Leaves, Routes, Loses
<1>11. CASE Connects(c)
  <2>1. pc'[c] = "read" /\ written'[c] = <<>> /\ opened'[c] = <<>> /\ Len(<<>>) = 0
    BY <1>1, <1>11 DEF Connects, ClosedIsEmpty
  <2>2. QED BY <2>1, EmptyHistory DEF ReportHolds
<1>12. CASE Closes(c)
  BY <1>12, CloseHolds DEF ConnInv
<1>13. QED BY <1>3, <1>5, <1>6, <1>7, <1>8, <1>9, <1>10, <1>11, <1>12 DEF Effect

-----------------------------------------------------------------------------
(***************************************************************************)
(* The auxiliary variable: what the active profile had is kept as long as  *)
(* the input is in process.                                                *)
(***************************************************************************)
LEMMA StepObserves == Next => Observe
BY DEF Next, Connect, Shutdown, Leave, Send, Crash, Work, Eof, ReadFails, Receive, WriteReply, Close, Command, ReadProfiles,
       CreateProfile, RenameProfile, SetActiveProfile, SaveAssignment, ClearAssignment, StorageFails,
       WithProfile, CommandOnly, ActiveProfile, FindAssignment, EmitRunning, OpenUrl, EmitOutcome, RouteOnly

LEMMA MomentKeptStep ==
  ASSUME NEW c \in Conn, RouteHolds(c), RouteHolds(c)', MomentKept(c), Observe, Same(c) \/ Effect(c)
  PROVE  MomentKept(c)'
<1> DEFINE Middle == Routing \ {"command", "reply"}
<1> SUFFICES ASSUME pc'[c] \in Middle
             PROVE  \E m \in moments'[c] : m.profile = route'[c].profile
  BY DEF MomentKept
<1>1. moments'[c] = {Moment(c)'} \cup (IF InputInProcess(c) THEN moments[c] ELSE {})
  BY DEF Observe, InputInProcess, RouteHolds
<1>2. CASE pc[c] = "command" /\ route'[c].profile = active /\ active' = active
  <2>1. Moment(c)'.profile = route'[c].profile
    BY <1>2 DEF Moment
  <2>2. QED BY <1>1, <2>1
<1>3. CASE pc[c] \in Middle /\ route'[c].profile = route[c].profile
  <2>1. InputInProcess(c)
    BY <1>3 DEF InputInProcess, RouteHolds
  <2>2. QED BY <1>1, <1>3, <2>1 DEF MomentKept
<1>4. \/ pc[c] = "command" /\ route'[c].profile = active /\ active' = active
      \/ pc[c] \in Middle /\ route'[c].profile = route[c].profile
  BY DEF Same, Routing, Effect, Connects, Sends, Leaves, Closes, Takes, Replies, Finishes, Routes, Loses,
         TellsRunning, Opens, TellsOutcome
<1>5. QED BY <1>2, <1>3, <1>4

-----------------------------------------------------------------------------
(***************************************************************************)
(* The invariant is inductive.                                             *)
(***************************************************************************)
LEMMA InitIInv == Init => IInv
<1> SUFFICES ASSUME Init PROVE IInv
  OBVIOUS
<1>1. PICK p \in ProfileId : /\ profiles = {p} /\ active = p
                            /\ name = [q \in ProfileId |-> IF q = p THEN DefaultName ELSE NoName]
  BY DEF Init
<1>2. bindings = [s \in Slot |-> <<>>]
  BY DEF Init
<1>3. RegistryTypeOK /\ RegistryInv /\ active \in profiles
  BY <1>1, <1>2, EmptySeq, NameAssumption, ProfileIdAssumption DEF RegistryTypeOK, RegistryInv, Slot
<1>4. ConnTypes
  <2>1. /\ <<>> \in Seq(UNION {Line(d) : d \in Conn}) /\ <<>> \in Seq(Message) /\ <<>> \in Seq(Opening)
        /\ Len(<<>>) = 0 /\ NoRoute \in Found
        /\ \A c \in Conn : <<>> \in Seq(Line(c)) /\ MaxLines[c] \in Nat
    BY EmptySeq, LineAssumption DEF NoRoute, Found
  <2>2. QED BY <2>1 DEF Init, ConnTypes, PC, Routing
<1>5. TypeOK
  BY <1>3, <1>4, TypeParts DEF Init
<1>6. ASSUME NEW c \in Conn PROVE ConnInv(c) /\ MomentKept(c)
  <2>1. /\ pc[c] = "closed" /\ ~ There(c) /\ read[c] = 0 /\ session[c] = "awaiting"
        /\ written[c] = <<>> /\ opened[c] = <<>> /\ Len(<<>>) = 0
    BY DEF Init
  <2>2. ClosedIsEmpty(c) /\ RouteHolds(c) /\ ReplyReady(c) /\ SessionHolds(c) /\ RunningWasLast(c) /\ MomentKept(c)
    BY <2>1, EmptyHistory
       DEF ClosedIsEmpty, RouteHolds, ReplyReady, SessionHolds, RunningWasLast, MomentKept, Routing
  <2>3. AnswersHold(c) /\ ReportHolds(c)
    BY <2>1, EmptyHistory DEF AnswersHold, ReportHolds
  <2>4. QED BY <2>2, <2>3 DEF ConnInv
<1>7. QED BY <1>3, <1>5, <1>6 DEF IInv

LEMMA StepIInv == IInv /\ [Next]_vars => IInv'
<1> SUFFICES ASSUME IInv, [Next]_vars PROVE IInv'
  OBVIOUS
<1>1. ConnTypes /\ TypeOK /\ active \in ProfileId /\ moments \in [Conn -> SUBSET Found]
      /\ \A c \in Conn : ConnInv(c) /\ MomentKept(c)
  BY TypeParts DEF IInv, TypeOK, RegistryTypeOK
<1>2. RegistryTypeOK' /\ RegistryInv' /\ active' \in profiles'
  BY <1>1, StepIsRegistryStep, RegistryStepHolds DEF IInv, TypeOK
<1>3. active' \in ProfileId
  BY <1>2 DEF RegistryTypeOK
<1>4. CASE Next
  <2>1. ConnTypes' /\ Observe
    BY <1>4, StepEffect, StepObserves
  <2>2. TypeOK'
    <3>1. moments' \in [Conn -> SUBSET Found]
      BY <1>1, <1>2, <1>3, <2>1, ObserveTypes
    <3>2. QED BY <1>2, <2>1, <3>1 DEF TypeOK, ConnTypes
  <2>3. \A c \in Conn : Same(c) \/ Effect(c)
    BY <1>4, StepEffect DEF Alone, Effect
  <2>4. ASSUME NEW c \in Conn PROVE ConnInv(c)'
    <3>1. CASE Same(c)
      BY <1>1, <3>1, OthersHold
    <3>2. CASE Effect(c)
      BY <1>1, <3>2, ClosedIsEmptyStep, RouteHoldsStep, ReplyReadyStep, SessionHoldsStep, AnswersHoldStep,
         ReportHoldsStep, RunningWasLastStep DEF ConnInv
    <3>3. QED BY <2>3, <3>1, <3>2
  <2>5. ASSUME NEW c \in Conn PROVE MomentKept(c)'
    BY <1>1, <2>1, <2>3, <2>4, MomentKeptStep DEF ConnInv
  <2>6. QED BY <1>2, <2>2, <2>4, <2>5 DEF IInv
<1>5. CASE UNCHANGED vars
  <2>1. \A c \in Conn : Same(c) /\ UNCHANGED moments
    BY <1>5 DEF Same, vars, connVars
  <2>2. TypeOK'
    BY <1>1, <1>5 DEF TypeOK, RegistryTypeOK, vars, connVars, registryVars
  <2>3. ASSUME NEW c \in Conn PROVE ConnInv(c)' /\ MomentKept(c)'
    BY <1>1, <2>1, OthersHold DEF MomentKept, Same
  <2>4. QED BY <1>2, <2>2, <2>3 DEF IInv
<1>6. QED BY <1>4, <1>5

LEMMA InductiveInvariant == Spec => []IInv
<1>1. QED BY InitIInv, StepIInv, PTL DEF Spec

-----------------------------------------------------------------------------
(***************************************************************************)
(* The theorems.                                                           *)
(***************************************************************************)
\* The state of any number of connections has its types: a worker never reads beyond
\* the lines that were sent, and every message is about a line that was read.
THEOREM TypeCorrect == Spec => []TypeOK
<1>1. IInv => TypeOK
  BY DEF IInv
<1>2. QED BY <1>1, InductiveInvariant, PTL

\* No success, no event and no opened URL before the handshake of the same connection
\* was accepted, for any lines any clients send, crashes and reconnections included.
THEOREM HandshakeAlwaysFirst == Spec => []HandshakeFirst
<1>1. IInv => HandshakeFirst
  BY DEF IInv, ConnInv, SessionHolds, AcceptedNow, HandshakeFirst
<1>2. QED BY <1>1, InductiveInvariant, PTL

\* Every line that is processed has exactly one reply, in the order of the lines,
\* whatever the other workers do to the registry meanwhile.
THEOREM RepliesAlwaysInOrder == Spec => []RepliesInOrder
<1>1. IInv => RepliesInOrder
  BY DEF IInv, ConnInv, AnswersHold, RepliesInOrder
<1>2. QED BY <1>1, InductiveInvariant, PTL

\* What a client is told of a run is what was done, in the order it was done, also
\* when the client leaves or the storage fails between any two steps of it.
THEOREM RunsAlwaysReportedInOrder == Spec => []RunIsReportedInOrder
<1>1. IInv => RunIsReportedInOrder
  BY DEF IInv, ConnInv, ReportHolds, RunIsReportedInOrder
<1>2. QED BY <1>1, InductiveInvariant, PTL

\* A routed input runs an action of a profile that was active while it was in process,
\* however many workers switch profiles meanwhile.
THEOREM RoutesToActiveProfile == Spec => []OpenedProfileWasActive
<1>1. IInv => OpenedProfileWasActive
  BY DEF IInv, MomentKept, OpenedProfileWasActive, Routing
<1>2. QED BY <1>1, InductiveInvariant, PTL

\* The step that opens a URL comes right after the running event of the same line and
\* profile on its connection.
THEOREM OpensAfterRunning == Spec => OpenedAfterRunning
<1> DEFINE A == \A c \in Conn : Len(opened'[c]) > Len(opened[c]) =>
                  LET m == Last(written[c]) IN
                  /\ m.kind = "running" /\ m.line = read[c]
                  /\ m.profile = Last(opened'[c]).profile
<1>1. IInv /\ [Next]_vars => [A]_vars
  <2> SUFFICES ASSUME IInv, Next, NEW c \in Conn, Len(opened'[c]) > Len(opened[c])
               PROVE  LET m == Last(written[c]) IN
                      /\ m.kind = "running" /\ m.line = read[c]
                      /\ m.profile = Last(opened'[c]).profile
    OBVIOUS
  <2>1. /\ opened[c] \in Seq(Opening) /\ Len(opened[c]) \in Nat /\ RunningWasLast(c)
    BY LenProperties DEF IInv, TypeOK, ConnInv
  <2>2. Len(<<>>) = 0 /\ ~ (Len(opened[c]) > Len(opened[c])) /\ ~ (0 > Len(opened[c]))
    BY <2>1
  <2>3. Effect(c) \/ Same(c) \/ Closes(c)
    BY StepEffect DEF Alone
  <2>4. Opens(c)
    BY <2>2, <2>3 DEF Same, Effect, Connects, Sends, Leaves, Closes, Takes, Replies, Finishes, Routes, Loses,
                      TellsRunning, Opens, TellsOutcome
  <2>5. PICK o \in Opening : o.profile = route[c].profile /\ opened'[c] = Append(opened[c], o)
    BY <2>2, <2>4 DEF Opens
  <2>6. Last(opened'[c]) = o
    BY <2>1, <2>5, AppendProperties DEF Last
  <2>7. Last(written[c]) = [line |-> read[c], kind |-> "running", profile |-> route[c].profile]
    BY <2>1, <2>4 DEF RunningWasLast, Opens
  <2>8. QED BY <2>5, <2>6, <2>7
<1>2. QED BY <1>1, InductiveInvariant, PTL DEF Spec, OpenedAfterRunning

\* Exactly one profile is active and it exists: the check of the active profile that
\* ReadProfiles and ActiveProfile make never fails.
THEOREM ActiveAlwaysExists == Spec => [](RegistryInv /\ ActiveCheck = "none")
<1>1. IInv => RegistryInv /\ ActiveCheck = "none"
  BY DEF IInv, ActiveCheck
<1>2. QED BY <1>1, InductiveInvariant, PTL
=============================================================================

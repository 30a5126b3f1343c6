--------------------------- MODULE MCCoreService ---------------------------
(***************************************************************************)
(* Small instances of CoreService.  MCSessionLines exercises the protocol  *)
(* session with every kind of line; MCRoutingLines is what two clients     *)
(* send that race an input against changes of the profile and assignment   *)
(* it is routed by.                                                        *)
(***************************************************************************)
EXTENDS CoreService, TLC

CONSTANTS c1, p1, p2, key, docs, mail, blank, default   \* model values

MCActionLists == {<<docs>>, <<mail>>}

Hello(v) == [kind |-> "handshake", arg |-> <<v>>]
Plain(kind) == [kind |-> kind, arg |-> <<>>]
Input == [kind |-> "virtual_control_input", arg |-> <<key>>]
Activate(p) == [kind |-> "set_active_profile", arg |-> <<p>>]
Save(p, a) == [kind |-> "save_assignment", arg |-> <<p, key, a>>]
Clear(p) == [kind |-> "clear_assignment", arg |-> <<p, key>>]

MCSessionLines(c) ==
  {Hello("0.3"), Hello("0.2"), Plain("undecodable"), Plain("empty_request_id"),
   Plain("invalid"), Plain("not_utf8"), Plain("get_snapshot"),
   [kind |-> "create_profile", arg |-> <<blank>>],
   [kind |-> "rename_profile", arg |-> <<p1, default>>],
   Save(p1, docs), Clear(p1), Input}

MCSessionMax == [c \in Conn |-> 3]

\* c1 presses the key and reads nothing, so that its worker waits in the write of the
\* outcome; the other connection edits and switches profiles there and back.
Create == [kind |-> "create_profile", arg |-> <<default>>]
MCRoutingLines(c) ==
  {Hello("0.3")} \cup
  IF c = c1 THEN {Input} ELSE {Create, Activate(p1), Activate(p2), Save(p1, docs)}
MCRoutingMax == [c \in Conn |-> 2]
MCClearingLines(c) ==
  {Hello("0.3")} \cup
  IF c = c1 THEN {Input} ELSE {Create, Activate(p2), Save(p1, docs), Save(p2, mail), Clear(p1)}
MCClearingMax == [c \in Conn |-> IF c = c1 THEN 2 ELSE 3]

\* Enough for an action to run, and for a connection to end in every way.
MCAnswerLines(c) == {Hello("0.3"), Save(p1, docs), Input, Plain("undecodable"), Plain("not_utf8")}
MCAnswerMax == [c \in Conn |-> 3]
=============================================================================

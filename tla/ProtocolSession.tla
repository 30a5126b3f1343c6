-------------------------- MODULE ProtocolSession --------------------------
(***************************************************************************)
(* ProtocolSession (core-ipc) and the parts of core-protocol it calls: how *)
(* a line a client sends becomes an immediate reply or a command, and how  *)
(* results become replies.                                                 *)
(*                                                                         *)
(* A line is a record [kind, arg].  The JSON text is abstracted to what    *)
(* decoding can make of it: kind is the message's tag, or                  *)
(*   "undecodable"       not a ClientEnvelope (bad JSON, unknown type)     *)
(*   "empty_request_id"  an envelope whose request_id is blank             *)
(*   "invalid"           a command whose ids, indexes or URL do not        *)
(*                       convert (command_from_message fails)              *)
(*   "not_utf8"          bytes BufRead::lines cannot return as a String    *)
(* arg holds the converted arguments.                                      *)
(***************************************************************************)
CONSTANTS
  Version,        \* protocol versions a client may offer
  CurrentVersion  \* ProtocolVersion::current()

ASSUME VersionAssumption == CurrentVersion \in Version

CommandKind == {"get_snapshot", "list_profiles", "create_profile", "rename_profile",
                "set_active_profile", "save_assignment", "clear_assignment",
                "virtual_control_input"}
LineKind == CommandKind \cup
            {"handshake", "undecodable", "empty_request_id", "invalid", "not_utf8"}

ErrorCode == {"incompatible_protocol", "unknown_message", "validation_failed",
              "not_found", "internal"}
SuccessKind == {"snapshot", "profiles", "profile", "acknowledged"}
ReplyKind == ErrorCode \cup SuccessKind \cup {"handshake_accepted"}

\* The reply of a session to a line it does not route.
Immediate(state, kind) == [state |-> state, command |-> FALSE, reply |-> kind]
Routed(state) == [state |-> state, command |-> TRUE, reply |-> "none"]

\* protocol_error_message of the error decode_client_envelope returns.
DecodeErrorCode(kind) ==
  IF kind = "undecodable" THEN "unknown_message" ELSE "validation_failed"

\* handshake_response: versions must be equal.
HandshakeResponse(version) ==
  IF version = CurrentVersion THEN "handshake_accepted" ELSE "incompatible_protocol"

Handshake(state, version) ==
  IF state = "established" THEN Immediate(state, "validation_failed")
  ELSE Immediate(IF HandshakeResponse(version) = "handshake_accepted"
                 THEN "established" ELSE state,
                 HandshakeResponse(version))

\* dispatch_envelope.
DispatchEnvelope(state, line) ==
  CASE line.kind = "handshake"  -> Handshake(state, line.arg[1])
    [] line.kind # "handshake" /\ state # "established" -> Immediate(state, "validation_failed")
    [] line.kind = "invalid" /\ state = "established"   -> Immediate(state, "validation_failed")
    [] OTHER                    -> Routed(state)

ReceiveLine(state, line) ==
  IF line.kind \in {"undecodable", "empty_request_id"}
  THEN Immediate(state, DecodeErrorCode(line.kind))
  ELSE DispatchEnvelope(state, line)

\* error_message: how an AppError is reported.
AppError == {"blank_name", "active_invariant", "active_missing", "profile_not_found",
             "assignment_not_found", "assignment_has_no_action", "open_url", "storage",
             "event_sink"}
ErrorMessage(error) ==
  CASE error = "profile_not_found"                      -> "not_found"
    [] error \in {"open_url", "storage", "event_sink"} -> "internal"
    [] OTHER                                            -> "validation_failed"

\* response_from_core: the reply of a command that succeeds.
Response(kind) ==
  CASE kind = "get_snapshot"                            -> "snapshot"
    [] kind = "list_profiles"                           -> "profiles"
    [] kind \in {"create_profile", "rename_profile"}    -> "profile"
    [] OTHER                                            -> "acknowledged"
=============================================================================

--------------------------- MODULE AssignmentRows ---------------------------
(***************************************************************************)
(* An assignment from the client's message to the table and back: what     *)
(* command_from_message (core-ipc) accepts, the rows save_assignment and   *)
(* clear_assignment (core-storage-sqlite) leave, and what                  *)
(* list_assignments_locked and find_assignment read from them again.       *)
(*                                                                         *)
(* Each command is one step here, its transaction is ProfileStore's        *)
(* subject; a message names one action, so action_position is always 0.    *)
(* A client may spell the UUID of a profile in any form Uuid::parse_str    *)
(* accepts, Core prints the hyphenated one.  A URL is what SafeUrl::parse  *)
(* asks of it; the text of the message is what is stored.                  *)
(***************************************************************************)
EXTENDS ControlCodec

CONSTANTS
  Uuid,                   \* ids of profiles
  Spelling, Malformed,    \* forms of a UUID, and what is none
  Url,                    \* URLs of messages
  Dto                     \* controls of messages

ASSUME SpellingAssumption == Malformed \notin Spelling
ASSUME DtoAssumption == Dto \subseteq ControlDto
ASSUME UrlAssumption ==
  \A url \in Url : url.parses \in BOOLEAN /\ url.credentials \in BOOLEAN

VARIABLES
  profiles,   \* the profiles table
  rows,       \* the assignments table
  accepted    \* (auxiliary) the message about an assignment that was accepted last

vars == <<profiles, rows, accepted>>

ProfileIdDto == [uuid : Uuid, spelling : Spelling \cup {Malformed}]

\* ProfileId::parse.
ParseProfileId(id) == {p \in {id.uuid} : id.spelling # Malformed}

\* Mutation: a URL with a user and a password is not refused.
SafeUrlWithCredentials(url) == {u \in {url} : u.parses /\ u.scheme \in {"http", "https"}}

\* SafeUrl::parse.
SafeUrl(url) == {u \in {url} : u.parses /\ ~ u.credentials /\ u.scheme \in {"http", "https"}}

\* The columns that identify an assignment: assignment_identity_params.
Identity(p, control) == [profile_id |-> p, columns |-> EncodeControl(control)]

Row(p, control, url) == [id |-> Identity(p, control), action_kind |-> "open_url", action_url |-> url]

TypeOK ==
  /\ profiles \subseteq Uuid
  /\ \A r \in rows : r.id.profile_id \in profiles /\ r.action_url \in Url
  /\ \A r, s \in rows : r.id = s.id => r = s
  /\ accepted.op \in {"none", "save", "clear"}

Init == profiles = {} /\ rows = {} /\ accepted = [op |-> "none"]

CreateProfile(p) ==
  /\ p \in Uuid \ profiles
  /\ profiles' = profiles \cup {p}
  /\ UNCHANGED <<rows, accepted>>

\* assignment_from_dto, then save_assignment: delete the control's rows, insert one.
SaveAssignment(id, dto, url) ==
  \E p \in ParseProfileId(id) \cap profiles, control \in ControlFromDto(dto), u \in SafeUrl(url) :
    /\ rows' = {r \in rows : r.id # Identity(p, control)} \cup {Row(p, control, u)}
    /\ accepted' = [op |-> "save", profile |-> p, control |-> dto, url |-> url]
    /\ UNCHANGED profiles

ClearAssignment(id, dto) ==
  \E p \in ParseProfileId(id) \cap profiles, control \in ControlFromDto(dto) :
    /\ rows' = {r \in rows : r.id # Identity(p, control)}
    /\ accepted' = [op |-> "clear", profile |-> p, control |-> dto]
    /\ UNCHANGED profiles

Next ==
  \/ \E p \in Uuid : CreateProfile(p)
  \/ \E id \in ProfileIdDto, dto \in Dto :
       ClearAssignment(id, dto) \/ \E url \in Url : SaveAssignment(id, dto, url)

Spec == Init /\ [][Next]_vars
-----------------------------------------------------------------------------
(***************************************************************************)
(* Reading the table.                                                      *)
(***************************************************************************)
DecodeAction(r) == {u \in SafeUrl(r.action_url) : r.action_kind = "open_url"}

\* list_assignments_locked and snapshot_assignment_to_dto: what a snapshot shows of
\* the rows, one assignment for the rows of the same profile and control.
Decoded ==
  UNION {[profile_id : {r.id.profile_id}, control : DecodeControl(r.id.columns),
          url : DecodeAction(r)] : r \in rows}

SameEntry(d) == {e \in Decoded : e.profile_id = d.profile_id /\ e.control = d.control}

Snapshot ==
  {[profile_id |-> d.profile_id, control |-> ControlToDto(d.control),
    actions |-> {e.url : e \in SameEntry(d)}] : d \in Decoded}

\* Mutation: the operation is not compared.
FindAssignmentAnyOperation(p, control) ==
  UNION {DecodeAction(r) : r \in {r \in rows :
    /\ r.id.profile_id = p
    /\ r.id.columns.page_index = EncodeControl(control).page_index
    /\ r.id.columns.control_kind = EncodeControl(control).control_kind
    /\ r.id.columns.control_index = EncodeControl(control).control_index}}

\* find_assignment: the actions of a control that is pressed.
FindAssignment(p, control) ==
  UNION {DecodeAction(r) : r \in {r \in rows : r.id = Identity(p, control)}}
-----------------------------------------------------------------------------
(***************************************************************************)
(* Properties.                                                             *)
(***************************************************************************)
\* Core can read every row it wrote: one row that cannot be decoded would make
\* every later snapshot fail.
RowsDecode ==
  \A r \in rows : DecodeControl(r.id.columns) # {} /\ DecodeAction(r) # {}

Shown(p, dto) ==
  UNION {a.actions : a \in {a \in Snapshot : a.profile_id = p /\ a.control = dto}}

\* Pressing a control runs what the snapshot shows for it: the two queries agree
\* on every control a client can name.
PressRunsWhatIsShown ==
  \A p \in Uuid, dto \in Dto :
    \A control \in ControlFromDto(dto) : FindAssignment(p, control) = Shown(p, dto)

Book == INSTANCE AssignmentBook WITH known <- profiles, book <- Snapshot

\* A client reads back what it saved, under the control it named and no other, and
\* only controls of the layout it was told can be assigned.
ImplementsBook == Book!BookSpec
=============================================================================

---------------------------- MODULE ControlCodec ----------------------------
(***************************************************************************)
(* A control on its way from a client to the database and back: the        *)
(* protocol's ControlDto with 16 bit indexes (core-protocol), the checked  *)
(* ControlId (core-domain) that core-ipc makes of it, and the columns of   *)
(* its row (core-storage-sqlite).                                          *)
(*                                                                         *)
(* A conversion that may fail gives the set of its results: one or none.   *)
(* A key has no operation in the protocol and "press" in its row.          *)
(***************************************************************************)
EXTENDS Naturals

U8 == 0 .. 255
U16 == 0 .. 65535

\* PAGE_COUNT, KEY_ROWS, KEY_COLUMNS, ENCODERS_PER_PAGE, and the layout every
\* snapshot tells the client.
MvpDeviceLayout == [page_count |-> 4, key_rows |-> 3, key_columns |-> 4, encoder_count |-> 2]

Page == 0 .. MvpDeviceLayout.page_count - 1
Key == 0 .. MvpDeviceLayout.key_rows * MvpDeviceLayout.key_columns - 1
Encoder == 0 .. MvpDeviceLayout.encoder_count - 1
Operation == {"left", "right", "press"}

ControlDto ==
  [kind : {"key"}, page : U16, index : U16, operation : {"none"}]
    \cup [kind : {"encoder"}, page : U16, index : U16, operation : Operation]

ControlId ==
  [kind : {"key"}, page : Page, index : Key, operation : {"none"}]
    \cup [kind : {"encoder"}, page : Page, index : Encoder, operation : Operation]

\* What a client takes from the layout of its snapshot.
OnLayout(layout, dto) ==
  /\ dto.page < layout.page_count
  /\ dto.index < IF dto.kind = "key" THEN layout.key_rows * layout.key_columns
                 ELSE layout.encoder_count
-----------------------------------------------------------------------------
\* Mutation: `value as u8`.
U8IndexTruncates(v) == {v % 256}

\* u8::try_from.
U8Index(v) == {v} \cap U8

IndexOf(kind) == IF kind = "key" THEN Key ELSE Encoder

\* control_from_dto: ControlId::key or ControlId::encoder of the u8_index of both.
ControlFromDto(dto) ==
  [kind : {dto.kind}, page : U8Index(dto.page) \cap Page,
   index : U8Index(dto.index) \cap IndexOf(dto.kind), operation : {dto.operation}]

\* control_to_dto: `as u16`, which keeps every byte as it is.
ControlToDto(control) ==
  [kind |-> control.kind, page |-> control.page % 65536, index |-> control.index % 65536,
   operation |-> control.operation]

\* Mutation: a key's row has no operation, as in the protocol.
EncodeControlPlain(control) ==
  [page_index |-> control.page, control_kind |-> control.kind, control_index |-> control.index,
   control_operation |-> control.operation]

EncodeControl(control) ==
  [page_index |-> control.page, control_kind |-> control.kind, control_index |-> control.index,
   control_operation |-> IF control.kind = "key" THEN "press" ELSE control.operation]

DecodeControl(columns) ==
  [kind : {columns.control_kind} \cap {"key", "encoder"},
   page : U8Index(columns.page_index) \cap Page,
   index : U8Index(columns.control_index) \cap IndexOf(columns.control_kind),
   operation : IF columns.control_kind = "key"
               THEN {op \in {"none"} : columns.control_operation = "press"}
               ELSE {columns.control_operation} \cap Operation]
=============================================================================

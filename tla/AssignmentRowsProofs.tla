------------------------ MODULE AssignmentRowsProofs ------------------------
(***************************************************************************)
(* Proofs about ControlCodec and AssignmentRows, for every index a message *)
(* can hold and any set of profiles, URLs and messages.                    *)
(***************************************************************************)
EXTENDS AssignmentRows, TLAPS

-----------------------------------------------------------------------------
(***************************************************************************)
(* The conversions.                                                        *)
(***************************************************************************)
LEMMA Limits ==
  /\ Page = 0 .. 3 /\ Key = 0 .. 11 /\ Encoder = 0 .. 1
  /\ MvpDeviceLayout.page_count = 4 /\ MvpDeviceLayout.encoder_count = 2
  /\ MvpDeviceLayout.key_rows = 3 /\ MvpDeviceLayout.key_columns = 4
  BY DEF Page, Key, Encoder, MvpDeviceLayout

LEMMA U16IsNat == U16 \subseteq Nat
  BY DEF U16

\* Both checks an index passes, that of its byte and that of its range.
LEMMA ByteBelow ==
  ASSUME NEW n \in Nat, NEW limit \in Nat, limit <= 12
  PROVE  (n \in 0 .. 255 /\ n \in 0 .. limit - 1) <=> n < limit
  OBVIOUS

LEMMA IndexBelow ==
  ASSUME NEW n \in Nat, NEW limit \in Nat, limit <= 12
  PROVE  U8Index(n) \cap (0 .. limit - 1) = {k \in {n} : k < limit}
<1>1. ASSUME NEW k
      PROVE  k \in U8Index(n) \cap (0 .. limit - 1) <=> k = n /\ k \in U8 /\ k \in 0 .. limit - 1
  BY DEF U8Index
<1>2. n \in U8 /\ n \in 0 .. limit - 1 <=> n < limit
  BY ByteBelow DEF U8
<1>3. ASSUME NEW k
      PROVE  k \in U8Index(n) \cap (0 .. limit - 1) <=> k = n /\ k < limit
  BY <1>1, <1>2
<1> QED
  BY <1>3

LEMMA Indexes ==
  ASSUME NEW n \in Nat
  PROVE  /\ U8Index(n) \cap Page = {k \in {n} : k < 4}
         /\ U8Index(n) \cap Key = {k \in {n} : k < 12}
         /\ U8Index(n) \cap Encoder = {k \in {n} : k < 2}
<1>1. 4 - 1 = 3 /\ 12 - 1 = 11 /\ 2 - 1 = 1 /\ 2 <= 12 /\ 4 <= 12 /\ 12 <= 12
  OBVIOUS
<1> QED
  BY <1>1, IndexBelow, Limits

\* A record of these fields is one of its fields' values.
LEMMA Fields ==
  ASSUME NEW k, NEW P, NEW I, NEW O, NEW d
  PROVE  d \in [kind : {k}, page : P, index : I, operation : O] <=>
           \E p \in P, i \in I, o \in O : d = [kind |-> k, page |-> p, index |-> i, operation |-> o]
<1>1. ASSUME d \in [kind : {k}, page : P, index : I, operation : O]
      PROVE  \E p \in P, i \in I, o \in O :
               d = [kind |-> k, page |-> p, index |-> i, operation |-> o]
  <2>1. d = [kind |-> k, page |-> d.page, index |-> d.index, operation |-> d.operation]
    BY <1>1
  <2>2. d.page \in P /\ d.index \in I /\ d.operation \in O
    BY <1>1
  <2> QED
    BY <2>1, <2>2
<1>2. ASSUME NEW p \in P, NEW i \in I, NEW o \in O,
             d = [kind |-> k, page |-> p, index |-> i, operation |-> o]
      PROVE  d \in [kind : {k}, page : P, index : I, operation : O]
  BY <1>2
<1> QED
  BY <1>1, <1>2

\* The controls a message can hold.
LEMMA DtoFields ==
  ASSUME NEW dto \in ControlDto
  PROVE  \E p \in U16, i \in U16 :
           \/ dto = [kind |-> "key", page |-> p, index |-> i, operation |-> "none"]
           \/ \E o \in Operation :
                dto = [kind |-> "encoder", page |-> p, index |-> i, operation |-> o]
  BY Fields DEF ControlDto

LEMMA IdFields ==
  ASSUME NEW c
  PROVE  c \in ControlId <=>
           \E p \in Page :
             \/ \E i \in Key : c = [kind |-> "key", page |-> p, index |-> i, operation |-> "none"]
             \/ \E i \in Encoder, o \in Operation :
                  c = [kind |-> "encoder", page |-> p, index |-> i, operation |-> o]
<1>1. c \in [kind : {"key"}, page : Page, index : Key, operation : {"none"}] <=>
        \E p \in Page, i \in Key : c = [kind |-> "key", page |-> p, index |-> i, operation |-> "none"]
  BY Fields
<1>2. c \in [kind : {"encoder"}, page : Page, index : Encoder, operation : Operation] <=>
        \E p \in Page, i \in Encoder, o \in Operation :
          c = [kind |-> "encoder", page |-> p, index |-> i, operation |-> o]
  BY Fields
<1> QED
  BY <1>1, <1>2 DEF ControlId
-----------------------------------------------------------------------------
(***************************************************************************)
(* The conversions.                                                        *)
(***************************************************************************)
\* control_from_dto accepts exactly the controls of the layout every snapshot tells
\* the client, for all 65536 values of both indexes, and keeps what it accepts.
THEOREM LayoutIsAccepted ==
  ASSUME NEW dto \in ControlDto
  PROVE  ControlFromDto(dto) = {d \in {dto} : OnLayout(MvpDeviceLayout, d)}
<1>1. PICK p \in U16, i \in U16 :
        \/ dto = [kind |-> "key", page |-> p, index |-> i, operation |-> "none"]
        \/ \E o \in Operation :
             dto = [kind |-> "encoder", page |-> p, index |-> i, operation |-> o]
  BY DtoFields
<1>2. p \in Nat /\ i \in Nat
  BY U16IsNat
<1>3. CASE dto = [kind |-> "key", page |-> p, index |-> i, operation |-> "none"]
  <2>1. OnLayout(MvpDeviceLayout, dto) <=> p < 4 /\ i < 12
    BY <1>2, <1>3, Limits DEF OnLayout
  <2>2. ControlFromDto(dto) =
          [kind : {"key"}, page : U8Index(p) \cap Page, index : U8Index(i) \cap Key,
           operation : {"none"}]
    BY <1>3 DEF ControlFromDto, IndexOf
  <2>3. /\ U8Index(p) \cap Page = {k \in {p} : k < 4}
        /\ U8Index(i) \cap Key = {k \in {i} : k < 12}
    BY <1>2, Indexes
  <2>4. ASSUME NEW d
        PROVE  d \in ControlFromDto(dto) <=>
                 \E q \in U8Index(p) \cap Page, j \in U8Index(i) \cap Key, o1 \in {"none"} :
                   d = [kind |-> "key", page |-> q, index |-> j, operation |-> o1]
    BY ONLY <2>2, Fields
  <2>5. ASSUME NEW d
        PROVE  d \in ControlFromDto(dto) <=> d = dto /\ p < 4 /\ i < 12
    BY <1>3, <2>3, <2>4
  <2> QED
    BY <2>1, <2>5
<1>4. ASSUME NEW o \in Operation,
             dto = [kind |-> "encoder", page |-> p, index |-> i, operation |-> o]
      PROVE  ControlFromDto(dto) = {d \in {dto} : OnLayout(MvpDeviceLayout, d)}
  <2>1. OnLayout(MvpDeviceLayout, dto) <=> p < 4 /\ i < 2
    BY <1>2, <1>4, Limits DEF OnLayout
  <2>2. ControlFromDto(dto) =
          [kind : {"encoder"}, page : U8Index(p) \cap Page, index : U8Index(i) \cap Encoder,
           operation : {o}]
    BY <1>4 DEF ControlFromDto, IndexOf
  <2>3. /\ U8Index(p) \cap Page = {k \in {p} : k < 4}
        /\ U8Index(i) \cap Encoder = {k \in {i} : k < 2}
    BY <1>2, Indexes
  <2>4. ASSUME NEW d
        PROVE  d \in ControlFromDto(dto) <=>
                 \E q \in U8Index(p) \cap Page, j \in U8Index(i) \cap Encoder, o1 \in {o} :
                   d = [kind |-> "encoder", page |-> q, index |-> j, operation |-> o1]
    BY ONLY <2>2, Fields
  <2>5. ASSUME NEW d
        PROVE  d \in ControlFromDto(dto) <=> d = dto /\ p < 4 /\ i < 2
    BY <1>4, <2>3, <2>4
  <2> QED
    BY <2>1, <2>5
<1> QED
  BY <1>1, <1>3, <1>4

LEMMA AcceptedIsControl ==
  ASSUME NEW dto \in ControlDto, NEW control \in ControlFromDto(dto)
  PROVE  control = dto /\ control \in ControlId /\ OnLayout(MvpDeviceLayout, dto)
<1>1. control = dto /\ OnLayout(MvpDeviceLayout, dto)
  BY LayoutIsAccepted
<1>2. PICK p \in U16, i \in U16 :
        \/ dto = [kind |-> "key", page |-> p, index |-> i, operation |-> "none"]
        \/ \E o \in Operation :
             dto = [kind |-> "encoder", page |-> p, index |-> i, operation |-> o]
  BY DtoFields
<1>3. p \in Nat /\ i \in Nat
  BY U16IsNat
<1>4. p < 4 /\ IF dto.kind = "key" THEN i < 12 ELSE i < 2
  BY <1>1, <1>2, Limits DEF OnLayout
<1>5. p \in Page /\ IF dto.kind = "key" THEN i \in Key ELSE i \in Encoder
  BY <1>3, <1>4, Limits
<1> QED
  BY <1>1, <1>2, <1>5, IdFields

LEMMA ToDto ==
  ASSUME NEW control \in ControlId
  PROVE  ControlToDto(control) = control
<1>1. PICK p \in Page :
        \/ \E i \in Key : control = [kind |-> "key", page |-> p, index |-> i, operation |-> "none"]
        \/ \E i \in Encoder, o \in Operation :
             control = [kind |-> "encoder", page |-> p, index |-> i, operation |-> o]
  BY IdFields
<1>2. \A n \in 0 .. 11 : n % 65536 = n
  OBVIOUS
<1>3. Page \subseteq 0 .. 11 /\ Key \subseteq 0 .. 11 /\ Encoder \subseteq 0 .. 11
  BY Limits
<1> QED
  BY <1>1, <1>2, <1>3 DEF ControlToDto

\* The columns Core writes for a control are read back as that control, and as no
\* other: encode_control and decode_control are inverse.
THEOREM RowsRoundTrip ==
  ASSUME NEW control \in ControlId
  PROVE  DecodeControl(EncodeControl(control)) = {control}
<1>1. PICK p \in Page :
        \/ \E i \in Key : control = [kind |-> "key", page |-> p, index |-> i, operation |-> "none"]
        \/ \E i \in Encoder, o \in Operation :
             control = [kind |-> "encoder", page |-> p, index |-> i, operation |-> o]
  BY IdFields
<1>2. p \in Nat /\ p < 4 /\ U8Index(p) \cap Page = {p}
  BY Limits, Indexes
<1>3. ASSUME NEW i \in Key,
             control = [kind |-> "key", page |-> p, index |-> i, operation |-> "none"]
      PROVE  DecodeControl(EncodeControl(control)) = {control}
  <2>1. EncodeControl(control) =
          [page_index |-> p, control_kind |-> "key", control_index |-> i, control_operation |-> "press"]
    BY <1>3 DEF EncodeControl
  <2>2. U8Index(i) \cap Key = {i}
    BY Limits, Indexes
  <2>3. DecodeControl(EncodeControl(control)) =
          [kind : {"key"} \cap {"key", "encoder"}, page : {p}, index : {i},
           operation : {op \in {"none"} : "press" = "press"}]
    <3> DEFINE columns == EncodeControl(control)
    <3>1. columns.control_kind = "key" /\ columns.page_index = p /\ columns.control_index = i
      BY <2>1
    <3>2. (IF columns.control_kind = "key" THEN {op \in {"none"} : columns.control_operation = "press"}
           ELSE {columns.control_operation} \cap Operation) = {op \in {"none"} : "press" = "press"}
      BY <2>1
    <3>3. IndexOf(columns.control_kind) = Key
      BY <3>1 DEF IndexOf
    <3>4. U8Index(columns.page_index) \cap Page = {p}
      BY <1>2, <3>1
    <3>5. U8Index(columns.control_index) \cap IndexOf(columns.control_kind) = {i}
      BY <2>2, <3>1, <3>3
    <3> HIDE DEF columns
    <3>6. DecodeControl(columns) =
            [kind : {"key"} \cap {"key", "encoder"}, page : {p}, index : {i}, operation : {op \in {"none"} : "press" = "press"}]
      BY <3>1, <3>2, <3>4, <3>5 DEF DecodeControl
    <3> QED
      BY <3>6 DEF columns
  <2>4. /\ {"key"} \cap {"key", "encoder"} = {"key"}
        /\ {op \in {"none"} : "press" = "press"} = {"none"}
    BY <2>2
  <2>5. ASSUME NEW d
        PROVE  d \in DecodeControl(EncodeControl(control)) <=>
                 \E q \in {p}, j \in {i}, o1 \in {"none"} :
                   d = [kind |-> "key", page |-> q, index |-> j, operation |-> o1]
    BY ONLY <2>3, <2>4, Fields
  <2>6. ASSUME NEW d
        PROVE  d \in DecodeControl(EncodeControl(control)) <=> d = control
    BY <1>3, <2>5
  <2> QED
    BY <2>6
<1>4. ASSUME NEW i \in Encoder, NEW o \in Operation,
             control = [kind |-> "encoder", page |-> p, index |-> i, operation |-> o]
      PROVE  DecodeControl(EncodeControl(control)) = {control}
  <2>1. EncodeControl(control) =
          [page_index |-> p, control_kind |-> "encoder", control_index |-> i, control_operation |-> o]
    BY <1>4 DEF EncodeControl
  <2>2. U8Index(i) \cap Encoder = {i} /\ {o} \cap Operation = {o}
    BY Limits, Indexes
  <2>3. DecodeControl(EncodeControl(control)) =
          [kind : {"encoder"} \cap {"key", "encoder"}, page : {p}, index : {i},
           operation : {o} \cap Operation]
    <3> DEFINE columns == EncodeControl(control)
    <3>1. columns.control_kind = "encoder" /\ columns.page_index = p /\ columns.control_index = i
      BY <2>1
    <3>2. (IF columns.control_kind = "key" THEN {op \in {"none"} : columns.control_operation = "press"}
           ELSE {columns.control_operation} \cap Operation) = {o} \cap Operation
      BY <2>1
    <3>3. IndexOf(columns.control_kind) = Encoder
      BY <3>1 DEF IndexOf
    <3>4. U8Index(columns.page_index) \cap Page = {p}
      BY <1>2, <3>1
    <3>5. U8Index(columns.control_index) \cap IndexOf(columns.control_kind) = {i}
      BY <2>2, <3>1, <3>3
    <3> HIDE DEF columns
    <3>6. DecodeControl(columns) =
            [kind : {"encoder"} \cap {"key", "encoder"}, page : {p}, index : {i}, operation : {o} \cap Operation]
      BY <3>1, <3>2, <3>4, <3>5 DEF DecodeControl
    <3> QED
      BY <3>6 DEF columns
  <2>4. /\ {"encoder"} \cap {"key", "encoder"} = {"encoder"}
        /\ {o} \cap Operation = {o}
    BY <2>2
  <2>5. ASSUME NEW d
        PROVE  d \in DecodeControl(EncodeControl(control)) <=>
                 \E q \in {p}, j \in {i}, o1 \in {o} :
                   d = [kind |-> "encoder", page |-> q, index |-> j, operation |-> o1]
    BY ONLY <2>3, <2>4, Fields
  <2>6. ASSUME NEW d
        PROVE  d \in DecodeControl(EncodeControl(control)) <=> d = control
    BY <1>4, <2>5
  <2> QED
    BY <2>6
<1> QED
  BY <1>1, <1>3, <1>4

LEMMA NoSharedRow ==
  ASSUME NEW c \in ControlId, NEW d \in ControlId, EncodeControl(c) = EncodeControl(d)
  PROVE  c = d
<1>1. {c} = {d}
  BY RowsRoundTrip
<1> QED
  BY <1>1
-----------------------------------------------------------------------------
(***************************************************************************)
(* The table.  A row was written for a control of the layout and a URL     *)
(* that is safe; TypeOK alone would allow rows that cannot be decoded.     *)
(***************************************************************************)
SafeUrls == {url \in Url : SafeUrl(url) = {url}}

WrittenRows ==
  \A r \in rows : \E p \in profiles, c \in ControlId, url \in SafeUrls : r = Row(p, c, url)

IInv == TypeOK /\ WrittenRows

LEMMA SafeUrlIsUrl ==
  ASSUME NEW url \in Url, NEW u \in SafeUrl(url)
  PROVE  u = url /\ u \in SafeUrls
  BY DEF SafeUrl, SafeUrls

LEMMA ParsedIsUuid ==
  ASSUME NEW id \in ProfileIdDto, NEW p \in ParseProfileId(id)
  PROVE  p \in Uuid
  BY DEF ProfileIdDto, ParseProfileId

LEMMA RowFields ==
  ASSUME NEW p, NEW c, NEW url
  PROVE  /\ Row(p, c, url).id = Identity(p, c)
         /\ Row(p, c, url).id.profile_id = p
         /\ Row(p, c, url).id.columns = EncodeControl(c)
         /\ Row(p, c, url).action_url = url
         /\ Row(p, c, url).action_kind = "open_url"
  BY DEF Row, Identity

LEMMA SaveKeeps ==
  ASSUME IInv, NEW id \in ProfileIdDto, NEW dto \in Dto, NEW url \in Url,
         SaveAssignment(id, dto, url)
  PROVE  IInv'
<1>1. PICK p \in ParseProfileId(id) \cap profiles, c \in ControlFromDto(dto), u \in SafeUrl(url) :
        /\ rows' = {r \in rows : r.id # Identity(p, c)} \cup {Row(p, c, u)}
        /\ accepted' = [op |-> "save", profile |-> p, control |-> dto, url |-> url]
        /\ UNCHANGED profiles
  BY DEF SaveAssignment
<1>2. c \in ControlId
  BY DtoAssumption, AcceptedIsControl
<1>3. u \in SafeUrls /\ u \in Url
  BY SafeUrlIsUrl DEF SafeUrls
<1>4. WrittenRows'
  BY <1>1, <1>2, <1>3 DEF IInv, WrittenRows, SafeUrls, SafeUrl
<1>5. \A r \in rows' : r.id.profile_id \in profiles' /\ r.action_url \in Url
  BY <1>1, <1>3, RowFields DEF IInv, TypeOK
<1>6. ASSUME NEW r \in rows', NEW s \in rows', r.id = s.id
      PROVE  r = s
  BY <1>1, <1>6, RowFields DEF IInv, TypeOK
<1>7. accepted'.op \in {"none", "save", "clear"}
  BY <1>1
<1> QED
  BY <1>1, <1>4, <1>5, <1>6, <1>7 DEF IInv, TypeOK

LEMMA ClearKeeps ==
  ASSUME IInv, NEW id \in ProfileIdDto, NEW dto \in Dto, ClearAssignment(id, dto)
  PROVE  IInv'
<1>1. PICK p \in ParseProfileId(id) \cap profiles, c \in ControlFromDto(dto) :
        /\ rows' = {r \in rows : r.id # Identity(p, c)}
        /\ accepted' = [op |-> "clear", profile |-> p, control |-> dto]
        /\ UNCHANGED profiles
  BY DEF ClearAssignment
<1>2. rows' \subseteq rows
  BY <1>1
<1>3. WrittenRows'
  BY <1>1, <1>2 DEF IInv, WrittenRows, SafeUrls, SafeUrl
<1>4. accepted'.op \in {"none", "save", "clear"}
  BY <1>1
<1> QED
  BY <1>1, <1>2, <1>3, <1>4 DEF IInv, TypeOK

LEMMA CreateKeeps ==
  ASSUME IInv, NEW p \in Uuid, CreateProfile(p)
  PROVE  IInv'
  BY DEF IInv, TypeOK, WrittenRows, CreateProfile, SafeUrls, SafeUrl

LEMMA StutterKeeps ==
  ASSUME IInv, UNCHANGED vars
  PROVE  IInv'
  BY DEF IInv, TypeOK, WrittenRows, vars, SafeUrls, SafeUrl

\* The table Core writes holds only rows it can read.
THEOREM RowsInvariant == Spec => []IInv
<1>1. Init => IInv
  BY DEF Init, IInv, TypeOK, WrittenRows
<1>2. IInv /\ [Next]_vars => IInv'
  BY SaveKeeps, ClearKeeps, CreateKeeps, StutterKeeps DEF Next
<1> QED
  BY <1>1, <1>2, PTL DEF Spec

\* The rows name profiles that exist and URLs that were sent, one row for an identity.
THEOREM RowsTypeCorrect == Spec => []TypeOK
<1>1. IInv => TypeOK
  BY DEF IInv
<1> QED
  BY <1>1, RowsInvariant, PTL

LEMMA SameIdentity ==
  ASSUME NEW q, NEW p, NEW c \in ControlId, NEW d \in ControlId, NEW url
  PROVE  Row(q, c, url).id = Identity(p, d) <=> q = p /\ c = d
<1>1. Identity(q, c) = Identity(p, d) <=> q = p /\ EncodeControl(c) = EncodeControl(d)
  BY DEF Identity
<1> QED
  BY <1>1, NoSharedRow, RowFields

LEMMA SafeIsDecoded ==
  ASSUME NEW p, NEW c, NEW url \in SafeUrls
  PROVE  DecodeAction(Row(p, c, url)) = {url}
  BY RowFields DEF DecodeAction, SafeUrls

LEMMA WrittenDecode ==
  ASSUME IInv
  PROVE  RowsDecode
<1>1. ASSUME NEW r \in rows
      PROVE  DecodeControl(r.id.columns) # {} /\ DecodeAction(r) # {}
  <2>1. PICK p \in profiles, c \in ControlId, url \in SafeUrls : r = Row(p, c, url)
    BY DEF IInv, WrittenRows
  <2>2. DecodeControl(r.id.columns) = {c}
    BY <2>1, RowFields, RowsRoundTrip
  <2>3. DecodeAction(r) = {url}
    BY <2>1, SafeIsDecoded
  <2> QED
    BY <2>2, <2>3
<1> QED
  BY <1>1 DEF RowsDecode

\* No message a client sends leaves a row that a later snapshot cannot decode.
THEOREM EveryRowDecodes == Spec => []RowsDecode
<1>1. IInv => RowsDecode
  BY WrittenDecode
<1> QED
  BY <1>1, RowsInvariant, PTL
-----------------------------------------------------------------------------
(***************************************************************************)
(* What a snapshot shows, and what a press runs.                           *)
(***************************************************************************)
Stored(p, c, url) == Row(p, c, url) \in rows /\ url \in SafeUrls

LEMMA RowIsStored ==
  ASSUME IInv, NEW r \in rows
  PROVE  \E p \in profiles, c \in ControlId, url \in SafeUrls : r = Row(p, c, url) /\ Stored(p, c, url)
  BY DEF IInv, WrittenRows, Stored

LEMMA OneUrl ==
  ASSUME IInv, NEW p, NEW c, NEW u1, NEW u2, Stored(p, c, u1), Stored(p, c, u2)
  PROVE  u1 = u2
<1>1. Row(p, c, u1) = Row(p, c, u2)
  BY RowFields DEF IInv, TypeOK, Stored
<1> QED
  BY <1>1, RowFields

LEMMA OneDecoded ==
  ASSUME NEW p, NEW c, NEW url, NEW d
  PROVE  d \in [profile_id : {p}, control : {c}, url : {url}] <=>
           d = [profile_id |-> p, control |-> c, url |-> url]
<1>1. ASSUME d \in [profile_id : {p}, control : {c}, url : {url}]
      PROVE  d = [profile_id |-> p, control |-> c, url |-> url]
  <2>1. d = [profile_id |-> d.profile_id, control |-> d.control, url |-> d.url]
    BY <1>1
  <2>2. d.profile_id = p /\ d.control = c /\ d.url = url
    BY <1>1
  <2> QED
    BY <2>1, <2>2
<1>2. ASSUME d = [profile_id |-> p, control |-> c, url |-> url]
      PROVE  d \in [profile_id : {p}, control : {c}, url : {url}]
  BY <1>2
<1> QED
  BY <1>1, <1>2

LEMMA DecodedRows ==
  ASSUME IInv, NEW d
  PROVE  d \in Decoded <=>
           \E p \in profiles, c \in ControlId, url \in SafeUrls :
             Stored(p, c, url) /\ d = [profile_id |-> p, control |-> c, url |-> url]
<1> DEFINE Of(r) == [profile_id : {r.id.profile_id}, control : DecodeControl(r.id.columns),
                     url : DecodeAction(r)]
<1>1. ASSUME NEW p \in profiles, NEW c \in ControlId, NEW url \in SafeUrls, NEW r, r = Row(p, c, url)
      PROVE  d \in Of(r) <=> d = [profile_id |-> p, control |-> c, url |-> url]
  <2>1. r.id.profile_id = p /\ DecodeControl(r.id.columns) = {c} /\ DecodeAction(r) = {url}
    BY <1>1, RowFields, RowsRoundTrip, SafeIsDecoded
  <2>2. Of(r) = [profile_id : {p}, control : {c}, url : {url}]
    BY <2>1
  <2> HIDE DEF Of
  <2> QED
    BY <2>2, OneDecoded
<1>2. d \in Decoded <=> \E r \in rows : d \in Of(r)
  BY DEF Decoded
<1>3. ASSUME NEW r \in rows, d \in Of(r)
      PROVE  \E p \in profiles, c \in ControlId, url \in SafeUrls :
               Stored(p, c, url) /\ d = [profile_id |-> p, control |-> c, url |-> url]
  <2> HIDE DEF Of
  <2> QED
    BY <1>1, <1>3, RowIsStored
<1>4. ASSUME NEW p \in profiles, NEW c \in ControlId, NEW url \in SafeUrls, Stored(p, c, url),
             d = [profile_id |-> p, control |-> c, url |-> url]
      PROVE  \E r \in rows : d \in Of(r)
  <2> HIDE DEF Of
  <2> QED
    BY <1>1, <1>4 DEF Stored
<1> HIDE DEF Of
<1> QED
  BY <1>2, <1>3, <1>4

LEMMA SnapshotEntries ==
  ASSUME IInv, NEW e
  PROVE  e \in Snapshot <=>
           \E p \in profiles, c \in ControlId, url \in SafeUrls :
             Stored(p, c, url) /\ e = Book!Entry(p, c, url)
<1> DEFINE Shows(d) == [profile_id |-> d.profile_id, control |-> ControlToDto(d.control),
                        actions |-> {x.url : x \in SameEntry(d)}]
<1>1. ASSUME NEW p \in profiles, NEW c \in ControlId, NEW url \in SafeUrls, Stored(p, c, url),
             NEW d, d = [profile_id |-> p, control |-> c, url |-> url]
      PROVE  Shows(d) = Book!Entry(p, c, url)
  <2>1. d \in Decoded
    BY <1>1, DecodedRows
  <2>2. ASSUME NEW x \in Decoded, x.profile_id = p, x.control = c
        PROVE  x = d
    <3>1. PICK u \in SafeUrls : Stored(p, c, u) /\ x = [profile_id |-> p, control |-> c, url |-> u]
      BY <2>2, DecodedRows
    <3>2. u = url
      BY <1>1, <3>1, OneUrl
    <3> QED
      BY <1>1, <3>1, <3>2
  <2>3. SameEntry(d) = {d}
    BY <1>1, <2>1, <2>2 DEF SameEntry
  <2>4. {x.url : x \in SameEntry(d)} = {url}
    BY <1>1, <2>3
  <2>5. ControlToDto(d.control) = c /\ d.profile_id = p
    BY <1>1, ToDto
  <2> QED
    BY <2>4, <2>5 DEF Book!Entry
<1> HIDE DEF Shows
<1>2. e \in Snapshot <=> \E d \in Decoded : e = Shows(d)
  BY DEF Snapshot, Shows
<1>3. ASSUME NEW d \in Decoded, e = Shows(d)
      PROVE  \E p \in profiles, c \in ControlId, url \in SafeUrls :
               Stored(p, c, url) /\ e = Book!Entry(p, c, url)
  <2>1. PICK p \in profiles, c \in ControlId, url \in SafeUrls :
          Stored(p, c, url) /\ d = [profile_id |-> p, control |-> c, url |-> url]
    BY DecodedRows
  <2> QED
    BY <1>1, <1>3, <2>1
<1>4. ASSUME NEW p \in profiles, NEW c \in ControlId, NEW url \in SafeUrls, Stored(p, c, url),
             e = Book!Entry(p, c, url)
      PROVE  \E d \in Decoded : e = Shows(d)
  <2> DEFINE d == [profile_id |-> p, control |-> c, url |-> url]
  <2>1. d \in Decoded
    BY <1>4, DecodedRows
  <2> QED
    BY <1>1, <1>4, <2>1
<1> QED
  BY <1>2, <1>3, <1>4

LEMMA PressAgrees ==
  ASSUME IInv
  PROVE  PressRunsWhatIsShown
<1> SUFFICES ASSUME NEW p \in Uuid, NEW dto \in Dto, NEW control \in ControlFromDto(dto)
             PROVE  FindAssignment(p, control) = Shown(p, dto)
  BY DEF PressRunsWhatIsShown
<1>1. control = dto /\ control \in ControlId
  BY DtoAssumption, AcceptedIsControl
<1>2. ASSUME NEW q, NEW c \in ControlId, NEW url
      PROVE  Row(q, c, url).id = Identity(p, control) <=> q = p /\ c = dto
  BY <1>1, SameIdentity
<1>3. ASSUME NEW u
      PROVE  u \in FindAssignment(p, control) <=> p \in profiles /\ Stored(p, dto, u)
  <2>1. u \in FindAssignment(p, control) <=>
          \E r \in rows : r.id = Identity(p, control) /\ u \in DecodeAction(r)
    BY DEF FindAssignment
  <2>2. ASSUME NEW r \in rows, r.id = Identity(p, control), u \in DecodeAction(r)
        PROVE  p \in profiles /\ Stored(p, dto, u)
    <3>1. PICK q \in profiles, c \in ControlId, url \in SafeUrls :
            r = Row(q, c, url) /\ Stored(q, c, url)
      BY RowIsStored
    <3>2. q = p /\ c = dto
      BY <1>2, <2>2, <3>1
    <3>3. u = url
      BY <2>2, <3>1, SafeIsDecoded
    <3> QED
      BY <3>1, <3>2, <3>3
  <2>3. ASSUME Stored(p, dto, u)
        PROVE  \E r \in rows : r.id = Identity(p, control) /\ u \in DecodeAction(r)
    <3>1. Row(p, dto, u) \in rows /\ u \in SafeUrls
      BY <2>3 DEF Stored
    <3>2. u \in DecodeAction(Row(p, dto, u))
      BY <3>1, SafeIsDecoded
    <3> QED
      BY <1>1, <1>2, <3>1, <3>2
  <2> QED
    BY <2>1, <2>2, <2>3
<1>4. ASSUME NEW u
      PROVE  u \in Shown(p, dto) <=> p \in profiles /\ Stored(p, dto, u)
  <2>1. u \in Shown(p, dto) <=>
          \E a \in Snapshot : a.profile_id = p /\ a.control = dto /\ u \in a.actions
    BY DEF Shown
  <2>2. ASSUME NEW a \in Snapshot, a.profile_id = p, a.control = dto, u \in a.actions
        PROVE  p \in profiles /\ Stored(p, dto, u)
    <3>1. PICK q \in profiles, c \in ControlId, url \in SafeUrls :
            Stored(q, c, url) /\ a = Book!Entry(q, c, url)
      BY SnapshotEntries
    <3>2. q = p /\ c = dto /\ u = url
      BY <2>2, <3>1 DEF Book!Entry
    <3> QED
      BY <3>1, <3>2
  <2>3. ASSUME p \in profiles, Stored(p, dto, u)
        PROVE  \E a \in Snapshot : a.profile_id = p /\ a.control = dto /\ u \in a.actions
    <3>1. Book!Entry(p, dto, u) \in Snapshot
      BY <1>1, <2>3, SnapshotEntries DEF Stored
    <3> QED
      BY <3>1 DEF Book!Entry
  <2> QED
    BY <2>1, <2>2, <2>3
<1> QED
  BY <1>3, <1>4

\* The two queries agree: pressing a control runs exactly what the snapshot shows.
THEOREM PressAlwaysRunsWhatIsShown == Spec => []PressRunsWhatIsShown
<1>1. IInv => PressRunsWhatIsShown
  BY PressAgrees
<1> QED
  BY <1>1, RowsInvariant, PTL
-----------------------------------------------------------------------------
(***************************************************************************)
(* The table implements the book.                                          *)
(***************************************************************************)
ShowsStored ==
  \A e : e \in Snapshot <=>
    \E p \in profiles, c \in ControlId, url \in SafeUrls :
      Stored(p, c, url) /\ e = Book!Entry(p, c, url)

LEMMA SnapshotShowsStored == IInv => ShowsStored
  BY SnapshotEntries DEF ShowsStored

LEMMA EntryFields ==
  ASSUME NEW p, NEW c, NEW url
  PROVE  Book!Entry(p, c, url).profile_id = p /\ Book!Entry(p, c, url).control = c
  BY DEF Book!Entry

LEMMA SaveEnters ==
  ASSUME IInv, ShowsStored, ShowsStored',
         NEW id \in ProfileIdDto, NEW dto \in Dto, NEW url \in Url, SaveAssignment(id, dto, url)
  PROVE  Book!BookNext
<1>1. PICK p \in ParseProfileId(id) \cap profiles, control \in ControlFromDto(dto), u \in SafeUrl(url) :
        /\ rows' = {r \in rows : r.id # Identity(p, control)} \cup {Row(p, control, u)}
        /\ accepted' = [op |-> "save", profile |-> p, control |-> dto, url |-> url]
        /\ UNCHANGED profiles
  BY DEF SaveAssignment
<1>2. control = dto /\ control \in ControlId /\ OnLayout(MvpDeviceLayout, dto)
  BY DtoAssumption, AcceptedIsControl
<1>3. u = url /\ u \in SafeUrls
  BY SafeUrlIsUrl
<1>4. ASSUME NEW q \in profiles, NEW c \in ControlId, NEW v \in SafeUrls
      PROVE  Stored(q, c, v)' <=>
               IF q = p /\ c = dto THEN v = url ELSE Stored(q, c, v)
  <2>1. Row(q, c, v).id = Identity(p, control) <=> q = p /\ c = dto
    BY <1>2, SameIdentity
  <2>2. Row(q, c, v) = Row(p, control, u) <=> q = p /\ c = dto /\ v = url
    BY <1>2, <1>3, <2>1, RowFields
  <2>3. Stored(q, c, v)' <=> Row(q, c, v) \in rows'
    BY DEF Stored, SafeUrls, SafeUrl, Row, Identity
  <2>4. Row(q, c, v) \in rows' <=>
          (Row(q, c, v) \in rows /\ ~ (q = p /\ c = dto)) \/ (q = p /\ c = dto /\ v = url)
    BY <1>1, <2>1, <2>2
  <2> QED
    BY <2>3, <2>4 DEF Stored
<1>5. SafeUrls' = SafeUrls /\ profiles' = profiles
  BY <1>1 DEF SafeUrls, SafeUrl
<1>6. ASSUME NEW e
      PROVE  e \in Snapshot' <=> e \in Book!Others(p, dto) \/ e = Book!Entry(p, dto, url)
  <2>1. e \in Snapshot' <=>
          \E q \in profiles, c \in ControlId, v \in SafeUrls :
            Stored(q, c, v)' /\ e = Book!Entry(q, c, v)
    BY <1>5 DEF ShowsStored
  <2>2. e \in Book!Others(p, dto) <=>
          \E q \in profiles, c \in ControlId, v \in SafeUrls :
            Stored(q, c, v) /\ e = Book!Entry(q, c, v) /\ ~ (q = p /\ c = dto)
    BY EntryFields DEF ShowsStored, Book!Others
  <2> QED
    BY <1>2, <1>3, <1>4, <2>1, <2>2
<1>7. Snapshot' = Book!Others(p, dto) \cup {Book!Entry(p, dto, url)}
  BY <1>6
<1>8. Book!Enter(p, dto, url)
  BY <1>1, <1>7 DEF Book!Enter, Book!Save
<1>9. dto \in Book!OfLayout /\ Book!Safe(url)
  BY <1>2, <1>3 DEF Book!OfLayout, Book!Safe, Book!OnLayout, Book!MvpDeviceLayout, OnLayout,
       MvpDeviceLayout, SafeUrls, SafeUrl
<1> QED
  BY <1>8, <1>9 DEF Book!BookNext

LEMMA ClearErases ==
  ASSUME IInv, ShowsStored, ShowsStored',
         NEW id \in ProfileIdDto, NEW dto \in Dto, ClearAssignment(id, dto)
  PROVE  Book!BookNext
<1>1. PICK p \in ParseProfileId(id) \cap profiles, control \in ControlFromDto(dto) :
        /\ rows' = {r \in rows : r.id # Identity(p, control)}
        /\ accepted' = [op |-> "clear", profile |-> p, control |-> dto]
        /\ UNCHANGED profiles
  BY DEF ClearAssignment
<1>2. control = dto /\ control \in ControlId /\ OnLayout(MvpDeviceLayout, dto)
  BY DtoAssumption, AcceptedIsControl
<1>3. ASSUME NEW q \in profiles, NEW c \in ControlId, NEW v \in SafeUrls
      PROVE  Stored(q, c, v)' <=> Stored(q, c, v) /\ ~ (q = p /\ c = dto)
  <2>1. Row(q, c, v).id = Identity(p, control) <=> q = p /\ c = dto
    BY <1>2, SameIdentity
  <2>2. Stored(q, c, v)' <=> Row(q, c, v) \in rows'
    BY DEF Stored, SafeUrls, SafeUrl, Row, Identity
  <2> QED
    BY <1>1, <2>1, <2>2 DEF Stored
<1>4. SafeUrls' = SafeUrls /\ profiles' = profiles
  BY <1>1 DEF SafeUrls, SafeUrl
<1>5. ASSUME NEW e
      PROVE  e \in Snapshot' <=> e \in Book!Others(p, dto)
  <2>1. e \in Snapshot' <=>
          \E q \in profiles, c \in ControlId, v \in SafeUrls :
            Stored(q, c, v)' /\ e = Book!Entry(q, c, v)
    BY <1>4 DEF ShowsStored
  <2>2. e \in Book!Others(p, dto) <=>
          \E q \in profiles, c \in ControlId, v \in SafeUrls :
            Stored(q, c, v) /\ e = Book!Entry(q, c, v) /\ ~ (q = p /\ c = dto)
    BY EntryFields DEF ShowsStored, Book!Others
  <2> QED
    BY <1>3, <2>1, <2>2
<1>6. Book!Erase(p, dto)
  BY <1>1, <1>5 DEF Book!Erase, Book!Clear
<1>7. dto \in Book!OfLayout
  BY <1>2 DEF Book!OfLayout, Book!OnLayout, Book!MvpDeviceLayout, OnLayout, MvpDeviceLayout
<1> QED
  BY <1>6, <1>7 DEF Book!BookNext

LEMMA SameRowsSameSnapshot ==
  ASSUME UNCHANGED rows
  PROVE  Snapshot' = Snapshot
  BY DEF Snapshot, Decoded, SameEntry, DecodeAction, DecodeControl, SafeUrl, ControlToDto,
       U8Index, IndexOf

LEMMA CreateAdds ==
  ASSUME NEW p \in Uuid, CreateProfile(p)
  PROVE  Book!BookNext
<1>1. Book!Add(p) /\ p \in Uuid \ profiles
  BY SameRowsSameSnapshot DEF CreateProfile, Book!Add
<1> QED
  BY <1>1 DEF Book!BookNext

\* A client reads back what it saved, under the control it named and no other: the
\* conversions and the table implement the book of entries, for all messages.
THEOREM RowsImplementBook == Spec => ImplementsBook
<1>1. Init => Book!BookInit
  BY DEF Init, Snapshot, Decoded, Book!BookInit, Book!Nothing
<1>2. IInv /\ ShowsStored /\ ShowsStored' /\ [Next]_vars =>
        [Book!BookNext]_<<profiles, Snapshot, accepted>>
  <2> SUFFICES ASSUME IInv, ShowsStored, ShowsStored', [Next]_vars
               PROVE  [Book!BookNext]_<<profiles, Snapshot, accepted>>
    OBVIOUS
  <2>1. CASE UNCHANGED vars
    BY <2>1, SameRowsSameSnapshot DEF vars
  <2>2. CASE Next
    BY <2>2, SaveEnters, ClearErases, CreateAdds DEF Next
  <2> QED
    BY <2>1, <2>2
<1>3. IInv => ShowsStored
  BY SnapshotShowsStored
<1> QED
  BY <1>1, <1>2, <1>3, RowsInvariant, PTL DEF Spec, ImplementsBook, Book!BookSpec
=============================================================================

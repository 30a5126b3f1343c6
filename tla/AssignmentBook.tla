--------------------------- MODULE AssignmentBook ---------------------------
(***************************************************************************)
(* What the protocol promises a client about assignments: a book with an   *)
(* entry for every profile and control of the layout it was told.  A save  *)
(* that is possible replaces exactly the entry it names; everything else   *)
(* changes nothing, wherever its indexes point.                            *)
(***************************************************************************)
EXTENDS ControlCodec

CONSTANTS
  Uuid,     \* profiles
  Url,      \* URLs of actions
  Dto       \* controls of messages

VARIABLES
  known,    \* profiles that exist
  book,     \* the entries that have actions
  accepted  \* the message about an assignment that was accepted last

Nothing == [op |-> "none"]
Save(p, dto, url) == [op |-> "save", profile |-> p, control |-> dto, url |-> url]
Clear(p, dto) == [op |-> "clear", profile |-> p, control |-> dto]

Safe(url) == url.parses /\ ~ url.credentials /\ url.scheme \in {"http", "https"}
OfLayout == {dto \in Dto : OnLayout(MvpDeviceLayout, dto)}
Entry(p, dto, url) == [profile_id |-> p, control |-> dto, actions |-> {url}]
Others(p, dto) == {e \in book : ~ (e.profile_id = p /\ e.control = dto)}

BookInit == known = {} /\ book = {} /\ accepted = Nothing

Add(p) == known' = known \cup {p} /\ UNCHANGED <<book, accepted>>

\* An accepted message may change only the entry it names.
Erase(p, dto) ==
  /\ accepted' = Clear(p, dto)
  /\ book' = Others(p, dto)
  /\ UNCHANGED known

Enter(p, dto, url) ==
  /\ accepted' = Save(p, dto, url)
  /\ book' = Others(p, dto) \cup {Entry(p, dto, url)}
  /\ UNCHANGED known

BookNext ==
  \/ \E p \in Uuid \ known : Add(p)
  \/ \E p \in known, dto \in OfLayout :
       Erase(p, dto) \/ \E url \in {u \in Url : Safe(u)} : Enter(p, dto, url)

BookSpec == BookInit /\ [][BookNext]_<<known, book, accepted>>
=============================================================================

--------------------------- MODULE ProfileDomain ---------------------------
(***************************************************************************)
(* The values profiles and assignments are made of (core-domain), shared   *)
(* by the specifications of the repository and of the service.             *)
(***************************************************************************)
EXTENDS Naturals, Sequences

CONSTANTS
  ProfileId,    \* UUIDs, each generated at most once (ProfileId::new)
  NoProfile,    \* the absence of a profile
  Name,         \* profile names, blank ones included
  BlankName,    \* the names for which name.trim().is_empty()
  DefaultName,  \* "Default"
  NoName,       \* the name column of an id that has no row
  ControlId,    \* keys and encoder operations of the layout
  Action,       \* open_url actions, one per URL
  ActionList    \* the action lists callers save (Assignment::actions)

ASSUME ProfileIdAssumption == NoProfile \notin ProfileId
ASSUME NameAssumption ==
  /\ BlankName \subseteq Name
  /\ DefaultName \in Name \ BlankName
  /\ NoName \notin Name
ASSUME ActionListAssumption == ActionList \subseteq Seq(Action)

\* What an action list is assigned to.
Slot == ProfileId \X ControlId
=============================================================================

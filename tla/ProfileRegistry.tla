-------------------------- MODULE ProfileRegistry --------------------------
(***************************************************************************)
(* What the profile storage promises its callers (trait ProfileRepository  *)
(* in core-app): a set of named profiles, one pointer to the active one,   *)
(* and for every profile and control the ordered actions assigned to it.   *)
(* Every operation takes effect in one step; an operation that fails takes *)
(* no step at all.  ProfileStore shows that the SQLite repository keeps    *)
(* this promise; CoreService is built on it.                               *)
(*                                                                         *)
(* ORDER BY created_at, name is abstracted: a listing is a set.            *)
(***************************************************************************)
EXTENDS ProfileDomain

VARIABLES
  profiles,     \* ids of the existing profiles
  name,         \* name of each profile
  active,       \* the active profile
  bindings      \* actions assigned to each control of each profile

registryVars == <<profiles, name, active, bindings>>

RegistryTypeOK ==
  /\ profiles \subseteq ProfileId
  /\ name \in [ProfileId -> Name \cup {NoName}]
  /\ active \in ProfileId \cup {NoProfile}
  /\ bindings \in [Slot -> Seq(Action)]

RegistryInit ==
  /\ profiles = {}
  /\ name = [p \in ProfileId |-> NoName]
  /\ active = NoProfile
  /\ bindings = [s \in Slot |-> <<>>]

(***************************************************************************)
(* The operations.                                                         *)
(***************************************************************************)
\* ensure_default_profile on a registry that has no active profile.
AddDefault(p) ==
  /\ active = NoProfile
  /\ p \notin profiles
  /\ profiles' = profiles \cup {p}
  /\ name' = [name EXCEPT ![p] = DefaultName]
  /\ active' = p
  /\ UNCHANGED bindings

AddProfile(p, n) ==
  /\ active # NoProfile
  /\ p \notin profiles
  /\ n \notin BlankName
  /\ profiles' = profiles \cup {p}
  /\ name' = [name EXCEPT ![p] = n]
  /\ UNCHANGED <<active, bindings>>

Rename(p, n) ==
  /\ p \in profiles
  /\ n \notin BlankName
  /\ name' = [name EXCEPT ![p] = n]
  /\ UNCHANGED <<profiles, active, bindings>>

SetActive(p) ==
  /\ p \in profiles
  /\ active # NoProfile
  /\ active' = p
  /\ UNCHANGED <<profiles, name, bindings>>

\* save_assignment replaces the whole list; clear_assignment is the empty list.
Bind(p, c, acts) ==
  /\ p \in profiles
  /\ bindings' = [bindings EXCEPT ![<<p, c>>] = acts]
  /\ UNCHANGED <<profiles, name, active>>

RegistryNext ==
  \E p \in ProfileId :
    \/ AddDefault(p)
    \/ \E n \in Name : AddProfile(p, n) \/ Rename(p, n)
    \/ SetActive(p)
    \/ \E c \in ControlId, acts \in ActionList \cup {<<>>} : Bind(p, c, acts)

RegistrySpec == RegistryInit /\ [][RegistryNext]_registryVars

(***************************************************************************)
(* Exactly one profile is active once there is any, it exists, and only    *)
(* existing profiles have assignments.                                     *)
(***************************************************************************)
RegistryInv ==
  /\ profiles # {} <=> active # NoProfile
  /\ active # NoProfile => active \in profiles
  /\ \A p \in ProfileId, c \in ControlId : bindings[<<p, c>>] # <<>> => p \in profiles
=============================================================================

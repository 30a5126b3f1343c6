-------------------------- MODULE MCProfileStore --------------------------
(***************************************************************************)
(* A small instance of ProfileStore: two workers contend for the           *)
(* connection, two profile ids (the default one and one that is created),  *)
(* a blank and a non-blank name besides "Default", one control, and an     *)
(* empty list and one of two actions, which replace one another.           *)
(***************************************************************************)
EXTENDS ProfileStore

CONSTANTS docs, mail

MCActions == {docs, mail}
MCActionLists == {<<>>, <<mail, docs>>}
=============================================================================

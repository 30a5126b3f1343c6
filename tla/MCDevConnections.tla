-------------------------- MODULE MCDevConnections --------------------------
(***************************************************************************)
(* A small instance of DevConnections: ids are used again, so the number   *)
(* of connections over time is unbounded.                                  *)
(***************************************************************************)
EXTENDS DevConnections
=============================================================================

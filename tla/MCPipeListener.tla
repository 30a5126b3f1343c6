--------------------------- MODULE MCPipeListener ---------------------------
(***************************************************************************)
(* A small instance of PipeListener, and of DevConnections in it: with one *)
(* connection more than there may be workers, all instances of the pipe    *)
(* are in use at once.  Ids are used again, so the number of connections   *)
(* over time is unbounded.                                                 *)
(***************************************************************************)
EXTENDS PipeListener
=============================================================================

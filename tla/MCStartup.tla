----------------------------- MODULE MCStartup -----------------------------
(***************************************************************************)
(* A small instance of Startup: three processes that start, fail and are   *)
(* killed in any order.                                                    *)
(***************************************************************************)
EXTENDS Startup
=============================================================================

-------------------------- MODULE MCManagedService --------------------------
(***************************************************************************)
(* TLC instance of ManagedService. Two plugins suffice for claims that     *)
(* race the other's release; the bound on operations lets four calls queue *)
(* behind a running hook.                                                  *)
(***************************************************************************)
EXTENDS ManagedService

CONSTANTS a, b      \* plugins
=============================================================================

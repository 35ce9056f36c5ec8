----------------------------- MODULE SessionMC -----------------------------
(***************************************************************************)
(* Session on small instances.                                             *)
(***************************************************************************)
EXTENDS SessionInv
=============================================================================

-------------------------- MODULE ForwardThreadsMC --------------------------
(***************************************************************************)
(* ForwardThreads with few connections.                                    *)
(***************************************************************************)
EXTENDS ForwardInv
=============================================================================

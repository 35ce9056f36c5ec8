------------------------------ MODULE ProxyMC ------------------------------
(***************************************************************************)
(* Proxy with few connections.                                             *)
(***************************************************************************)
EXTENDS ProxyInv
=============================================================================

---------------------------- MODULE SocketMapMC ----------------------------
(***************************************************************************)
(* SocketMap on small processes.  With three sockets a pass of Ripristino  *)
(* may fail at one record and not at the others; two are enough beside an  *)
(* accept that fails.                                                      *)
(***************************************************************************)
EXTENDS SocketMapInv

OneSided ==
    {[role |-> r, sockets |-> 3, errors |-> FALSE] : r \in {"client", "server"}}
    \cup {[role |-> "server", sockets |-> 2, errors |-> TRUE]}
Server == {[role |-> "server", sockets |-> 3, errors |-> FALSE]}
TwoSided == {[role |-> "both", sockets |-> 3, errors |-> FALSE]}
=============================================================================

------------------------------ MODULE Packets ------------------------------
(***************************************************************************)
(* The packets of the session layer: how Write cuts a request of count     *)
(* bytes into packets of at most PKT_DIM body bytes                        *)
(* (Sessione/socket_map_list.h:8-11, Sessione/const.h).  On the wire every *)
(* packet has the same size; its header carries the number of body bytes,  *)
(* its identifier inside the Write and the number of packets of the Write. *)
(***************************************************************************)
EXTENDS Integers

CONSTANT PKT_DIM    \* body bytes of a packet: 2512 in const.h

ASSUME PktDimAssumption == PKT_DIM \in Nat \ {0}

\* get_pkt_number: how many packets a request of count bytes takes.
get_pkt_number(count) ==
    IF count % PKT_DIM = 0 THEN count \div PKT_DIM ELSE (count \div PKT_DIM) + 1

\* get_current_body_bytes: the body bytes of the packet that follows the
\* first k packets of a request of count bytes.
get_current_body_bytes(count, k) ==
    IF count - PKT_DIM * k < PKT_DIM THEN count - PKT_DIM * k ELSE PKT_DIM

\* The headers Write puts in front of a body (TCP_Session.c:844-846).  pos is
\* not on the wire: it names the body, which is the part of the written stream
\* that starts there.
Packet == [hdr : Nat, id : Nat, max : Nat, pos : Nat]
=============================================================================

----------------------------- MODULE SessionInv -----------------------------
(***************************************************************************)
(* The two inductive invariants the proofs about Session rest on: IInv,    *)
(* for connections that end with a FIN and reads that are never short, and *)
(* FaultInv, for every fault, when a Read has room for a whole packet.     *)
(***************************************************************************)
EXTENDS Session

\* The faults the argument is about.
FinOnly == Resets = {} /\ MaxShort = 0 /\ Shared = FALSE

\* The position of the packet the writer is at, and whether there is one.
cur == base + sended_byte
Unacked == pc["w"] # "idle" /\ checkpoint < N

\* The writer may put a packet on its connection: after CallAgain it may be at
\* its send on a connection that has fallen.
Sending == pc["w"] = "send" /\ Sock("w") = "up"

\* Every call is at a place it can be at, with the counters of that place.
CallInv ==
    /\ pc["w"] \in {"idle", "send", "ack", "ripristino", "failed"}
    /\ pc["r"] \in {"idle", "load", "dup", "reload", "take", "ripristino", "failed", "killed"}
    /\ pc["w"] = "idle" => checkpoint = 0 /\ sended_byte = 0
    /\ pc["w"] # "idle" => count > 0 /\ checkpoint <= N
    /\ pc["w"] \in {"ack", "ripristino", "failed"} => checkpoint < N
    /\ pc["w"] # "idle" =>
           sended_byte = IF checkpoint < N THEN checkpoint * PKT_DIM ELSE count
    /\ \A e \in Ends : pc[e] # "failed" => tent[e] < MAX_TENTATIVI

\* The connections: the client is at the last one, and an end leaves one only
\* when it has fallen and nothing is left to read on it.
LinkInv ==
    /\ con[client] = last
    /\ \A e \in Ends : con[e] <= last
    /\ \A c \in Links :
         /\ c <= last <=> st[c]["w"] # "none"
         /\ c <= last <=> st[c]["r"] # "none"
         /\ st[c]["w"] = "up" <=> st[c]["r"] = "up"
         /\ st[c]["w"] # "rst" /\ st[c]["r"] # "rst"
         /\ st[c]["r"] = "dead" => pk[c] = <<>>
         /\ \A e \in Ends : c < con[e] => st[c][e] # "up"
    /\ \A e \in Ends : pc[e] \in {"ripristino", "failed"} =>
           Queue(e) = <<>> /\ Sock(e) \in {"fin", "dead"}

\* What a connection carries is the packet the writer is at, or its ack.
FlightInv ==
    /\ \A c \in Links : pk[c] # <<>> =>
         pk[c] = <<NextPacket>> /\ Unacked /\ con["r"] <= c /\ c <= con["w"]
    /\ \A c \in Links : ak[c] # <<>> =>
         /\ ak[c] = <<checkpoint>> /\ c = con["w"] /\ con["w"] <= con["r"]
         /\ pc["w"] = "ack" /\ pk[c] = <<>> /\ ~ Holding
    /\ Sending => pk[con["w"]] = <<>>

\* The reader has returned everything before that packet and part of it, or
\* all of it.
Fresh ==
    /\ high = cur + quota
    /\ lastid = IF pc["w"] = "idle" \/ Unacked THEN checkpoint - 1 ELSE -1
Consumed ==
    /\ Unacked
    /\ high = cur + Body
    /\ lastid = IF checkpoint = N - 1 THEN -1 ELSE checkpoint
PhaseInv ==
    /\ Fresh \/ Consumed
    /\ \A c \in Links : ak[c] # <<>> => Consumed

\* What the reader holds is that packet too.
HoldInv ==
    /\ Holding =>
         /\ buffer = NextPacket /\ Unacked /\ quota < Body
         /\ con["r"] <= con["w"] /\ (con["r"] = con["w"] => ~ Sending)
         /\ pk[con["r"]] = <<>> /\ Sock("r") \in {"up", "fin"}
    /\ pc["r"] \in {"dup", "reload", "ripristino", "failed", "killed"} => quota = 0
    /\ pc["r"] = "dup" => Consumed /\ checkpoint # N - 1
    /\ (pc["r"] = "take" \/ quota # 0) /\ Consumed => checkpoint = N - 1
    /\ pc["r"] = "reload" =>
         /\ con["r"] <= con["w"]
         /\ Consumed => /\ pk[con["r"]] = <<>>
                        /\ con["r"] = con["w"] => ~ Sending

\* The inductive invariant of a connection whose faults are those of FinOnly.
IInv ==
    /\ TypeOK /\ shorts = 0 /\ pc["r"] # "killed"
    /\ CallInv /\ LinkInv /\ FlightInv /\ PhaseInv /\ HoldInv

-----------------------------------------------------------------------------
(***************************************************************************)
(* With every fault: connections end with a RST, reads are short, the      *)
(* client has other connections, SIGPIPE kills.  When every Read has room  *)
(* for a whole packet no packet is held from one call to the next, and an  *)
(* ack in flight is that of the packet the writer is at.                   *)
(***************************************************************************)
WholeReads == \A n \in ReadCounts : n >= PKT_DIM

\* A packet of the Write in progress, and the last packet of any Write.
PacketOf(i) == [hdr |-> get_current_body_bytes(count, i), id |-> i, max |-> N,
                pos |-> base + i * PKT_DIM]
IsLast(p) == p.id = p.max - 1

\* The packet a Read in progress has in the buffer is still the reader's to
\* take: what its connection holds is that packet, or else the queue.
Held == pc["r"] \in {"dup", "take"}
At(c) == IF Held /\ c = con["r"] THEN <<buffer>> ELSE pk[c]
Ahead == {c \in Links : con["r"] <= c}

\* Reads are whole.
WholeInv == quota = 0 /\ (pc["r"] # "idle" => rcount >= PKT_DIM)

\* The client is at the last connection, and no end has left one that is up.
JoinInv ==
    /\ con[client] = last
    /\ \A e \in Ends : con[e] <= last
    /\ \A c \in Links :
         /\ \A e \in Ends : (c <= last <=> st[c][e] # "none") /\ (c < con[e] => st[c][e] # "up")
         /\ st[c]["w"] = "up" <=> st[c]["r"] = "up"

\* Write recovers a connection that has fallen, and what its ack keeps from an
\* earlier packet is the number of the packet it is at only for packet 0.
WriteInv ==
    /\ pc["w"] \in {"ripristino", "failed"} => Sock("w") # "up"
    /\ pc["w"] \in {"send", "ack"} /\ ack = checkpoint => checkpoint = 0

\* The packet a Read has in the buffer has left its connection, and Write has not
\* gone to an earlier one; past the connection Write is at nothing was sent.
BufferInv ==
    /\ Held => pk[con["r"]] = <<>> /\ con["r"] <= con["w"]
    /\ pc["r"] = "dup" => buffer.id = lastid
    /\ \A c \in Links : c > con["w"] => pk[c] = <<>>

\* A connection holds one packet at most, and what it holds is the last packet
\* of a Write, or one of the Write in progress, up to the one it is at.
ItemInv ==
    \A c \in Ahead : At(c) # <<>> =>
         /\ At(c) = <<At(c)[1]>>
         /\ At(c)[1].hdr \in 1 .. PKT_DIM
         /\ ~ IsLast(At(c)[1]) =>
              /\ Unacked /\ At(c)[1].id <= checkpoint
              /\ At(c)[1] = PacketOf(At(c)[1].id)

\* After a packet that is not the last one of its Write only packets of that
\* Write follow, in order.
OrderInv ==
    \A c, d \in Ahead : c < d /\ At(c) # <<>> /\ At(d) # <<>> /\ ~ IsLast(At(c)[1]) =>
        /\ At(d)[1] = PacketOf(At(d)[1].id)
        /\ At(c)[1].id <= At(d)[1].id

\* While Write waits for an ack, its connection holds the packet it is at or
\* nothing; when it is about to send, nothing.
NowInv ==
    con["r"] <= con["w"] =>
        /\ At(con["w"]) # <<>> /\ (Sock("w") # "dead" \/ pc["w"] = "ack") =>
               Unacked /\ At(con["w"]) = <<NextPacket>>
        /\ pc["w"] \in {"idle", "send"} /\ Sock("w") = "up" =>
               At(con["w"]) = <<>>

\* The ack on its way is that of the packet Write is at: Reads have returned it,
\* no copy of it is left, and the reader remembers it.
AckInv ==
    \A c \in Links : ak[c] # <<>> =>
        /\ c = con["w"] /\ ak[c] = <<checkpoint>>
        /\ pc["w"] = "ack" /\ Unacked /\ con["w"] <= con["r"]
        /\ \A d \in Ahead : At(d) = <<>>
        /\ lastid = IF checkpoint = N - 1 THEN -1 ELSE checkpoint
        /\ Covered(cur, cur + Body)

\* What the reader remembers is a packet of the Write in progress, which Reads
\* have returned, and nothing that comes before it is left.
LastInv ==
    lastid >= 0 =>
        /\ Unacked /\ lastid < N - 1 /\ lastid <= checkpoint
        /\ Covered(base + lastid * PKT_DIM,
                         base + lastid * PKT_DIM + get_current_body_bytes(count, lastid))
        /\ \A c \in Ahead : At(c) # <<>> =>
             At(c)[1] = PacketOf(At(c)[1].id) /\ lastid <= At(c)[1].id

\* The inductive invariant of a connection whose Reads are whole.
FaultInv ==
    /\ TypeOK /\ CallInv /\ WholeInv /\ JoinInv /\ WriteInv
    /\ BufferInv /\ ItemInv /\ OrderInv /\ NowInv /\ AckInv /\ LastInv
=============================================================================

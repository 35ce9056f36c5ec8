--------------------------- MODULE SessionFaults ---------------------------
(***************************************************************************)
(* The proof that FaultInv is an invariant of Session whatever the faults, *)
(* when every Read has room for a whole packet, and what follows from it:  *)
(* an ack too many is never taken for one of a packet no Read returned.    *)
(***************************************************************************)
EXTENDS SessionProofs, SequenceTheorems

\* The parts of FaultInv that TypeStep does not already give.
Sound ==
    /\ WholeInv /\ JoinInv /\ WriteInv /\ BufferInv
    /\ ItemInv /\ OrderInv /\ NowInv /\ AckInv /\ LastInv

-----------------------------------------------------------------------------
(***************************************************************************)
(* What the steps have in common.                                          *)
(***************************************************************************)
\* The types of what the connections and the reader hold.
LEMMA HeldTypes ==
    ASSUME TypeInv
    PROVE  /\ "w" \in Ends /\ "r" \in Ends /\ Ends = {"w", "r"}
           /\ buffer \in Packet /\ lastid \in Int
           /\ \A c \in Links : At(c) \in Seq(Packet)
           /\ \A c \in Links : At(c) # <<>> => At(c)[1] \in Packet /\ Len(At(c)) \in Nat \ {0}
           /\ \A q \in Packet : q.hdr \in Nat /\ q.id \in Nat /\ q.max \in Nat /\ q.pos \in Nat
           /\ \A c \in Links, e \in Ends : st[c][e] \in EndState
           /\ \A e \in Ends : con[e] \in Links /\ con[e] \in Nat /\ Sock(e) = st[con[e]][e]
<1>1. /\ "w" \in Ends /\ "r" \in Ends /\ Ends = {"w", "r"}
      /\ buffer \in Packet /\ lastid \in Int
  BY DEF TypeInv, TypeOK, Ends
<1>2. \A c \in Links : At(c) \in Seq(Packet)
  BY <1>1, Types DEF At, TypeInv
<1>3. \A q \in Packet : q.hdr \in Nat /\ q.id \in Nat /\ q.max \in Nat /\ q.pos \in Nat
  BY DEF Packet
<1>4. \A c \in Links, e \in Ends : st[c][e] \in EndState
  BY DEF TypeInv, TypeOK
<1>5. \A e \in Ends : con[e] \in Links /\ con[e] \in Nat /\ Sock(e) = st[con[e]][e]
  BY <1>1, Types DEF TypeInv, Sock
<1>6. \A s \in Seq(Packet) : s # <<>> => s[1] \in Packet /\ Len(s) \in Nat \ {0}
  OBVIOUS
<1>7. QED
  BY <1>1, <1>2, <1>3, <1>4, <1>5, <1>6

\* What Reads have returned stays returned.
LEMMA ReturnedMore ==
    ASSUME TypeInv, delivered' = delivered \/ \E d : delivered' = Append(delivered, d)
    PROVE  \A p : Returned(p) => Returned(p)'
<1> SUFFICES ASSUME NEW p, Returned(p)
             PROVE  Returned(p)'
  OBVIOUS
<1>1. delivered \in Seq([from : Nat, to : Nat])
  BY DEF TypeInv, TypeOK
<1>2. PICK i \in 1 .. Len(delivered) : delivered[i].from <= p /\ p < delivered[i].to
  BY DEF Returned
<1>3. i \in 1 .. Len(delivered') /\ delivered'[i] = delivered[i]
  <2>1. CASE delivered' = delivered
    BY <2>1
  <2>2. ASSUME NEW d, delivered' = Append(delivered, d)
        PROVE  i \in 1 .. Len(delivered') /\ delivered'[i] = delivered[i]
    <3>1. Len(delivered') = Len(delivered) + 1 /\ Len(delivered) \in Nat
      BY <1>1, <2>2
    <3>2. \A j \in 1 .. Len(delivered) : delivered'[j] = delivered[j]
      BY <1>1, <2>2
    <3>3. QED
      BY <3>1, <3>2
  <2>3. QED
    BY <2>1, <2>2
<1>4. QED
  BY <1>2, <1>3 DEF Returned

\* A step that loses packets, or has them read, and lets Write go on.
LEMMA LaterItems ==
    ASSUME TypeInv, TypeInv', ItemInv, OrderInv,
           UNCHANGED <<base, count>>, checkpoint <= checkpoint',
           Unacked /\ N > 1 => Unacked',
           con["r"] <= con'["r"],
           \A c \in Links : con'["r"] <= c => At(c)' = At(c) \/ At(c)' = <<>>
    PROVE  ItemInv' /\ OrderInv'
<1>1. N' = N
  BY DEF N
<1>2. /\ con["r"] \in Nat /\ con'["r"] \in Nat /\ \A c \in Links : c \in Nat
      /\ checkpoint \in Nat /\ checkpoint' \in Nat
  BY HeldTypes, Types DEF TypeInv, TypeOK
<1>3. \A c \in Ahead' : c \in Ahead /\ c \in Links /\ (At(c)' = At(c) \/ At(c)' = <<>>)
  BY <1>2 DEF Ahead
<1>4. ItemInv'
  <2> SUFFICES ASSUME NEW c \in Ahead', At(c)' # <<>>
               PROVE  /\ At(c)' = <<At(c)'[1]>>
                      /\ At(c)'[1].hdr \in 1 .. PKT_DIM
                      /\ ~ IsLast(At(c)'[1]) =>
                           /\ Unacked' /\ At(c)'[1].id <= checkpoint'
                           /\ At(c)'[1] = PacketOf(At(c)[1].id)'
    BY DEF ItemInv, IsLast
  <2>1. At(c)' = At(c) /\ c \in Ahead /\ At(c) # <<>>
    BY <1>3
  <2> DEFINE q == At(c)[1]
  <2>2. q \in Packet /\ q.id \in Nat
    BY <1>3, HeldTypes, <2>1
  <2>3. At(c) = <<q>> /\ q.hdr \in 1 .. PKT_DIM
    BY <2>1 DEF ItemInv
  <2>4. ASSUME ~ IsLast(q)
        PROVE  Unacked' /\ q.id <= checkpoint' /\ q = PacketOf(q.id)
    <3>1. Unacked /\ q.id <= checkpoint /\ q = PacketOf(q.id)
      BY <2>1, <2>4 DEF ItemInv
    <3>2. q.id # N - 1
      BY <2>4, <3>1 DEF IsLast, PacketOf
    <3>3. N \in Nat /\ checkpoint < N
      BY <3>1, NextPacketType DEF Unacked
    <3>4. N > 1
      BY <1>2, <2>2, <3>1, <3>2, <3>3
    <3>5. Unacked'
      BY <3>1, <3>4
    <3>6. q.id <= checkpoint'
      <4> HIDE DEF q
      <4>1. QED
        BY <1>2, <2>2, <3>1
    <3>7. QED
      BY <3>1, <3>5, <3>6
  <2>5. QED
    BY <1>1, <2>1, <2>3, <2>4 DEF PacketOf, IsLast
<1>5. OrderInv'
  <2> SUFFICES ASSUME NEW c \in Ahead', NEW d \in Ahead', c < d, At(c)' # <<>>, At(d)' # <<>>,
                      ~ IsLast(At(c)'[1])
               PROVE  /\ At(d)'[1] = PacketOf(At(d)[1].id)'
                      /\ At(c)'[1].id <= At(d)'[1].id
    BY DEF OrderInv, IsLast
  <2>1. At(c)' = At(c) /\ At(d)' = At(d) /\ c \in Ahead /\ d \in Ahead
    BY <1>3
  <2>2. At(d)[1] = PacketOf(At(d)[1].id) /\ At(c)[1].id <= At(d)[1].id
    BY <2>1 DEF OrderInv
  <2>3. QED
    BY <1>1, <2>1, <2>2 DEF PacketOf
<1>6. QED
  BY <1>4, <1>5

\* The same step, when the reader remembers the same packet.
LEMMA LaterLast ==
    ASSUME TypeInv, TypeInv', LastInv,
           UNCHANGED <<base, count, lastid>>, checkpoint <= checkpoint',
           Unacked /\ N > 1 => Unacked',
           con["r"] <= con'["r"],
           \A c \in Links : con'["r"] <= c => At(c)' = At(c) \/ At(c)' = <<>>,
           \A p : Returned(p) => Returned(p)'
    PROVE  LastInv'
<1>1. N' = N
  BY DEF N
<1>2. /\ con["r"] \in Nat /\ con'["r"] \in Nat /\ \A c \in Links : c \in Nat
      /\ checkpoint \in Nat /\ checkpoint' \in Nat /\ lastid \in Int
  BY HeldTypes, Types DEF TypeInv, TypeOK
<1> SUFFICES ASSUME lastid >= 0
             PROVE  LastInv'
  BY DEF LastInv
<1>3. \A c \in Ahead' : c \in Ahead /\ (At(c)' = At(c) \/ At(c)' = <<>>)
  BY <1>2 DEF Ahead
<1>4. Unacked /\ lastid < N - 1 /\ lastid <= checkpoint
  BY DEF LastInv
<1>5. N \in Nat /\ checkpoint < N
  BY <1>4, NextPacketType DEF Unacked
<1>6. Unacked' /\ lastid' < N' - 1 /\ lastid' <= checkpoint'
  BY <1>1, <1>2, <1>4, <1>5
<1>7. Covered(base + lastid * PKT_DIM,
              base + lastid * PKT_DIM + get_current_body_bytes(count, lastid))'
  <2>1. Covered(base + lastid * PKT_DIM,
                base + lastid * PKT_DIM + get_current_body_bytes(count, lastid))
    BY DEF LastInv
  <2>2. QED
    BY <2>1 DEF Covered
<1>8. \A c \in Ahead' : At(c)' # <<>> =>
         At(c)'[1] = PacketOf(At(c)[1].id)' /\ lastid <= At(c)'[1].id
  <2> SUFFICES ASSUME NEW c \in Ahead', At(c)' # <<>>
               PROVE  At(c)'[1] = PacketOf(At(c)[1].id)' /\ lastid <= At(c)'[1].id
    OBVIOUS
  <2>1. At(c)' = At(c) /\ c \in Ahead
    BY <1>3
  <2>2. At(c)[1] = PacketOf(At(c)[1].id) /\ lastid <= At(c)[1].id
    BY <2>1 DEF LastInv
  <2>3. QED
    BY <1>1, <2>1, <2>2 DEF PacketOf
<1>9. QED
  BY <1>6, <1>7, <1>8 DEF LastInv

\* The ack on its way, through such a step of the reader or the network.
LEMMA LaterAck ==
    ASSUME TypeInv, TypeInv', AckInv,
           UNCHANGED <<base, count, checkpoint, sended_byte, lastid>>,
           con'["w"] = con["w"], pc'["w"] = pc["w"], con["r"] <= con'["r"],
           \A c \in Links : con'["r"] <= c => At(c)' = At(c) \/ At(c)' = <<>>,
           \A c \in Links : ak'[c] = ak[c] \/ ak'[c] = <<>>,
           \A p : Returned(p) => Returned(p)'
    PROVE  AckInv'
<1>1. N' = N /\ Body' = Body /\ cur' = cur /\ Unacked' = Unacked
  BY SamePacket DEF Unacked
<1>2. con["r"] \in Nat /\ con'["r"] \in Nat /\ con["w"] \in Nat /\ \A c \in Links : c \in Nat
  BY HeldTypes, Types DEF TypeInv, TypeOK
<1> SUFFICES ASSUME NEW c \in Links, ak'[c] # <<>>
             PROVE  /\ c = con'["w"] /\ ak'[c] = <<checkpoint'>>
                    /\ pc'["w"] = "ack" /\ Unacked' /\ con'["w"] <= con'["r"]
                    /\ \A d \in Ahead' : At(d)' = <<>>
                    /\ lastid' = IF checkpoint' = N' - 1 THEN -1 ELSE checkpoint'
                    /\ Covered(cur, cur + Body)'
  BY DEF AckInv
<1>3. /\ c = con["w"] /\ ak[c] = <<checkpoint>>
      /\ pc["w"] = "ack" /\ Unacked /\ con["w"] <= con["r"]
      /\ \A d \in Ahead : At(d) = <<>>
      /\ lastid = IF checkpoint = N - 1 THEN -1 ELSE checkpoint
      /\ Covered(cur, cur + Body)
  BY DEF AckInv
<1>4. \A d \in Ahead' : d \in Ahead /\ (At(d)' = At(d) \/ At(d)' = <<>>)
  BY <1>2 DEF Ahead
<1>5. Covered(cur, cur + Body)'
  BY <1>1, <1>3 DEF Covered
<1>6. con'["w"] <= con'["r"]
  BY <1>2, <1>3
<1>7. QED
  BY <1>1, <1>3, <1>4, <1>5, <1>6

\* Unless Write waits for an ack and its queue holds one, no ack is on its way.
LEMMA NoAcks ==
    ASSUME TypeInv, AckInv, pc["w"] # "ack" \/ ak[con["w"]] = <<>>
    PROVE  \A c \in Links : ak[c] = <<>>
BY DEF AckInv

\* What the connection of Write holds, through such a step.
LEMMA LaterNow ==
    ASSUME TypeInv, TypeInv', NowInv,
           UNCHANGED <<base, count, checkpoint, sended_byte>>,
           con'["w"] = con["w"], pc'["w"] = pc["w"], con["r"] <= con'["r"],
           \A c \in Links : con'["r"] <= c => At(c)' = At(c) \/ At(c)' = <<>>,
           \/ st'[con["w"]]["w"] = st[con["w"]]["w"]
           \/ st[con["w"]]["w"] = "up" /\ st'[con["w"]]["w"] \in {"fin", "rst"}
    PROVE  NowInv'
<1>1. NextPacket' = NextPacket /\ Unacked' = Unacked
  BY SamePacket DEF Unacked
<1>2. con["r"] \in Nat /\ con'["r"] \in Nat /\ con["w"] \in Nat /\ con["w"] \in Links
  BY HeldTypes, Types DEF TypeInv, TypeOK
<1> SUFFICES ASSUME con'["r"] <= con["w"]
             PROVE  /\ At(con["w"])' # <<>> /\ (Sock("w")' # "dead" \/ pc["w"] = "ack") =>
                           Unacked' /\ At(con["w"])' = <<NextPacket'>>
                    /\ pc["w"] \in {"idle", "send"} /\ Sock("w")' = "up" =>
                           At(con["w"])' = <<>>
  BY DEF NowInv
<1>3. con["r"] <= con["w"]
  BY <1>2
<1>4. /\ At(con["w"]) # <<>> /\ (Sock("w") # "dead" \/ pc["w"] = "ack") =>
           Unacked /\ At(con["w"]) = <<NextPacket>>
      /\ pc["w"] \in {"idle", "send"} /\ Sock("w") = "up" => At(con["w"]) = <<>>
  BY <1>3 DEF NowInv
<1>5. Sock("w")' = Sock("w") \/ (Sock("w") = "up" /\ Sock("w")' \in {"fin", "rst"})
  BY DEF Sock
<1>6. At(con["w"])' = At(con["w"]) \/ At(con["w"])' = <<>>
  BY <1>2
<1>7. QED
  BY <1>1, <1>4, <1>5, <1>6

\* The connections, when no end changes its own: at each, an end stays as it is
\* or goes on falling, or both ends fall.
LEMMA JoinFrame ==
    ASSUME TypeInv, JoinInv, UNCHANGED <<client, last, con>>,
           \A c \in Links :
             \/ \A x \in Ends : \/ st'[c][x] = st[c][x]
                                \/ {st[c][x], st'[c][x]} \cap {"up", "none"} = {}
             \/ c <= last /\ \A x \in Ends : st'[c][x] \notin {"up", "none"}
    PROVE  JoinInv'
<1>1. "w" \in Ends /\ "r" \in Ends
  BY HeldTypes
<1>2. ASSUME NEW c \in Links
      PROVE  /\ \A e \in Ends : (c <= last <=> st'[c][e] # "none") /\ (c < con[e] => st'[c][e] # "up")
             /\ st'[c]["w"] = "up" <=> st'[c]["r"] = "up"
  <2>1. /\ \A e \in Ends : (c <= last <=> st[c][e] # "none") /\ (c < con[e] => st[c][e] # "up")
        /\ st[c]["w"] = "up" <=> st[c]["r"] = "up"
    BY DEF JoinInv
  <2>2. CASE \A x \in Ends : st'[c][x] = st[c][x] \/ {st[c][x], st'[c][x]} \cap {"up", "none"} = {}
    <3>1. \A x \in Ends : /\ st'[c][x] = "up" <=> st[c][x] = "up"
                          /\ st'[c][x] = "none" <=> st[c][x] = "none"
      BY <2>2
    <3>2. QED
      BY <1>1, <2>1, <3>1
  <2>3. CASE c <= last /\ \A x \in Ends : st'[c][x] \notin {"up", "none"}
    BY <1>1, <2>3
  <2>4. QED
    BY <1>2, <2>2, <2>3
<1>3. QED
  BY <1>2 DEF JoinInv

\* What an error does to the socket it is reported on: a "rst" gets "dead".
LEMMA ErrorEffect ==
    ASSUME TypeOK, NEW e \in Ends, ErrorReported(e)
    PROVE  \A c \in Links, x \in Ends :
                \/ st'[c][x] = st[c][x] /\ ~ (c = con[e] /\ x = e /\ st[c][x] = "rst")
                \/ c = con[e] /\ x = e /\ st[c][x] = "rst" /\ st'[c][x] = "dead"
<1>1. CASE Sock(e) = "rst"
  <2>1. st' = Put(e, "dead") /\ "dead" \in EndState
    BY <1>1 DEF ErrorReported, EndState
  <2>2. QED
    BY <1>1, <2>1, PutType DEF Sock
<1>2. CASE Sock(e) # "rst"
  BY <1>2 DEF ErrorReported, Sock
<1>3. QED
  BY <1>1, <1>2

-----------------------------------------------------------------------------
(***************************************************************************)
(* Write.                                                                  *)
(***************************************************************************)
\* Between two Writes only last packets are on their way, on a connection that
\* Write will leave or has nothing to read from.
LEMMA Between ==
    ASSUME TypeInv, Sound, ~ Unacked
    PROVE  /\ \A c \in Links : ak[c] = <<>>
           /\ lastid < 0
           /\ \A c \in Ahead : At(c) # <<>> => IsLast(At(c)[1])
           /\ con["r"] <= con["w"] /\ At(con["w"]) # <<>> => Sock("w") = "dead" /\ pc["w"] # "ack"
<1>1. \A c \in Links : ak[c] = <<>>
  BY DEF Sound, AckInv
<1>2. lastid < 0
  BY HeldTypes DEF Sound, LastInv
<1>3. QED
  BY <1>1, <1>2 DEF Sound, ItemInv, NowInv

LEMMA FaultCallWrite ==
    ASSUME TypeInv, Sound, NEW n \in WriteCounts, CallWrite(n), TypeInv'
    PROVE  Sound'
<1> USE DEF GoTo, net, reader
<1>1. ~ Unacked /\ pc["w"] = "idle" /\ pc \in [Ends -> Place]
  BY DEF CallWrite, Unacked, TypeInv, TypeOK
<1>2. /\ pc'["w"] = "send" /\ pc'["r"] = pc["r"]
      /\ UNCHANGED <<client, last, con, pk, ak, st, shorts, base, checkpoint, sended_byte,
                     rcount, quota, buffer, lastid, delivered, high, tent>>
      /\ count' = n /\ ack' = 0
  BY <1>1 DEF CallWrite, Ends
<1>3. /\ \A c : At(c)' = At(c)
      /\ Ahead' = Ahead /\ Sock("w")' = Sock("w") /\ Held' = Held
  BY <1>2 DEF At, Held, Ahead, Sock
<1>4. WholeInv' /\ JoinInv' /\ BufferInv'
  BY <1>2, <1>3 DEF Sound, WholeInv, JoinInv, BufferInv
<1>5. WriteInv'
  BY <1>2 DEF WriteInv
<1>6. ItemInv' /\ OrderInv'
  BY <1>1, <1>3, Between DEF ItemInv, OrderInv, IsLast, Sound
<1>7. NowInv'
  BY <1>1, <1>2, <1>3, Between DEF NowInv
<1>8. AckInv' /\ LastInv'
  BY <1>1, <1>2, Between, HeldTypes DEF AckInv, LastInv
<1>9. QED
  BY <1>4, <1>5, <1>6, <1>7, <1>8 DEF Sound

LEMMA FaultSendPacket ==
    ASSUME TypeInv, Sound, SendPacket, TypeInv'
    PROVE  Sound'
<1> USE DEF GoTo, net, reader, writer
<1>1. /\ pc["w"] = "send" /\ checkpoint < N /\ Unacked /\ pc \in [Ends -> Place]
  BY AtPacket DEF SendPacket, TypeInv, TypeOK
<1>2. /\ pc'["w"] = "ack" /\ pc'["r"] = pc["r"]
      /\ UNCHANGED <<client, last, con, ak, shorts, base, count, checkpoint, sended_byte, ack,
                     rcount, quota, buffer, lastid, delivered, high, tent>>
  BY <1>1 DEF SendPacket, Ends
<1>3. /\ N' = N /\ Body' = Body /\ NextPacket' = NextPacket /\ Unacked'
      /\ Held' = Held /\ Ahead' = Ahead
  BY <1>1, <1>2, SamePacket DEF Unacked, Held, Ahead
<1>4. /\ con["w"] \in Links /\ con["r"] \in Links /\ con["w"] \in Nat /\ con["r"] \in Nat
      /\ \A c \in Links : c \in Nat
  BY Types DEF TypeInv
<1>5. Sock("w") = "up" => con["r"] <= con["w"] /\ At(con["w"]) = <<>> /\ pk[con["w"]] = <<>>
                          /\ ~ (Held /\ con["r"] = con["w"])
  <2> SUFFICES ASSUME Sock("w") = "up"
               PROVE  con["r"] <= con["w"] /\ At(con["w"]) = <<>> /\ pk[con["w"]] = <<>>
                      /\ ~ (Held /\ con["r"] = con["w"])
    OBVIOUS
  <2>1. st[con["w"]]["r"] = "up" /\ ~ (con["w"] < con["r"])
    BY <1>4, HeldTypes DEF Sound, JoinInv
  <2>2. con["r"] <= con["w"]
    BY <1>4, <2>1
  <2>3. At(con["w"]) = <<>>
    BY <1>1, <2>2 DEF Sound, NowInv
  <2>4. ~ (Held /\ con["r"] = con["w"])
    BY <2>3 DEF At
  <2>5. QED
    BY <2>2, <2>3, <2>4 DEF At
<1>6. \A c \in Links : pk'[c] = IF c = con["w"] /\ Sock("w") = "up" THEN <<NextPacket>> ELSE pk[c]
  <2>1. pk \in [Links -> Seq(Packet)] /\ Append(<<>>, NextPacket) = <<NextPacket>>
    BY Types DEF TypeInv
  <2>2. pk' = IF Sock("w") = "up" THEN [pk EXCEPT ![con["w"]] = Append(@, NextPacket)] ELSE pk
    BY DEF SendPacket, Sent
  <2>3. QED
    BY <1>4, <1>5, <2>1, <2>2
<1>7. \A c \in Links : At(c)' = IF c = con["w"] /\ Sock("w") = "up" THEN <<NextPacket>> ELSE At(c)
  BY <1>2, <1>3, <1>5, <1>6 DEF At
<1>8. /\ st' \in [Links -> [Ends -> EndState]]
      /\ \A c \in Links, x \in Ends :
           \/ st'[c][x] = st[c][x]
           \/ c = con["w"] /\ x = "w" /\ st[c][x] = "fin" /\ st'[c][x] = "dead"
  BY SendEffect, HeldTypes DEF TypeInv, SendPacket
<1>9. WholeInv' /\ WriteInv'
  BY <1>1, <1>2 DEF Sound, WholeInv, WriteInv
<1>10. JoinInv'
  <2>1. \A c \in Links : \A x \in Ends :
           st'[c][x] = st[c][x] \/ {st[c][x], st'[c][x]} \cap {"up", "none"} = {}
    BY <1>8
  <2>2. UNCHANGED <<client, last, con>>
    BY <1>2
  <2>3. JoinInv
    BY DEF Sound
  <2>4. QED
    BY <2>1, <2>2, <2>3, JoinFrame
<1>11. BufferInv'
  <2>1. Held => pk[con["r"]] = <<>> /\ con["r"] <= con["w"]
    BY DEF Sound, BufferInv
  <2>2. Held => pk'[con["r"]] = <<>>
    BY <1>4, <1>5, <1>6, <2>1
  <2>3. \A c \in Links : c > con["w"] => pk'[c] = <<>>
    BY <1>4, <1>6 DEF Sound, BufferInv
  <2>4. QED
    BY <1>2, <1>3, <2>1, <2>2, <2>3 DEF Sound, BufferInv
<1>12. NextPacket = PacketOf(checkpoint) /\ NextPacket.hdr \in 1 .. PKT_DIM /\ NextPacket.id = checkpoint
       /\ checkpoint \in Nat
  BY <1>1, NextPacketType, Types DEF NextPacket, PacketOf, Body, TypeInv
<1>13. \A c \in Links : c > con["w"] => At(c) = <<>>
  BY <1>4 DEF Sound, BufferInv, At
<1>14. ItemInv'
  <2> SUFFICES ASSUME NEW c \in Ahead, At(c)' # <<>>
               PROVE  /\ At(c)' = <<At(c)'[1]>>
                      /\ At(c)'[1].hdr \in 1 .. PKT_DIM
                      /\ ~ IsLast(At(c)'[1]) =>
                           /\ Unacked' /\ At(c)'[1].id <= checkpoint'
                           /\ At(c)'[1] = PacketOf(At(c)[1].id)'
    BY <1>3 DEF ItemInv, IsLast
  <2>0. c \in Links
    BY DEF Ahead
  <2>1. CASE c = con["w"] /\ Sock("w") = "up"
    <3>1. At(c)' = <<NextPacket>> /\ At(c)'[1] = NextPacket
      BY <1>7, <2>0, <2>1
    <3>2. QED
      BY <1>2, <1>3, <1>12, <3>1 DEF PacketOf
  <2>2. CASE ~ (c = con["w"] /\ Sock("w") = "up")
    <3>1. At(c)' = At(c)
      BY <1>7, <2>0, <2>2
    <3>2. /\ At(c) = <<At(c)[1]>> /\ At(c)[1].hdr \in 1 .. PKT_DIM
          /\ ~ IsLast(At(c)[1]) =>
               Unacked /\ At(c)[1].id <= checkpoint /\ At(c)[1] = PacketOf(At(c)[1].id)
      BY <3>1 DEF Sound, ItemInv
    <3>3. QED
      BY <1>2, <1>3, <3>1, <3>2 DEF PacketOf
  <2>3. QED
    BY <2>1, <2>2
<1>15. OrderInv'
  <2> SUFFICES ASSUME NEW c \in Ahead, NEW d \in Ahead, c < d, At(c)' # <<>>, At(d)' # <<>>,
                      ~ IsLast(At(c)'[1])
               PROVE  /\ At(d)'[1] = PacketOf(At(d)[1].id)'
                      /\ At(c)'[1].id <= At(d)'[1].id
    BY <1>3 DEF OrderInv, IsLast
  <2>0. c \in Links /\ d \in Links
    BY DEF Ahead
  <2>1. At(c)' = At(c)
    BY <1>4, <1>7, <1>13, <2>0
  <2>2. CASE d = con["w"] /\ Sock("w") = "up"
    <3>1. At(d)'[1] = NextPacket
      BY <1>7, <2>0, <2>2
    <3>2. At(c)[1].id <= checkpoint
      BY <2>1 DEF Sound, ItemInv
    <3>3. QED
      BY <1>2, <1>3, <1>12, <2>1, <3>1, <3>2 DEF PacketOf
  <2>3. CASE ~ (d = con["w"] /\ Sock("w") = "up")
    <3>1. At(d)' = At(d)
      BY <1>7, <2>0, <2>3
    <3>2. At(d)[1] = PacketOf(At(d)[1].id) /\ At(c)[1].id <= At(d)[1].id
      BY <2>1, <3>1 DEF Sound, OrderInv
    <3>3. QED
      BY <1>2, <1>3, <2>1, <3>1, <3>2 DEF PacketOf
  <2>4. QED
    BY <2>2, <2>3
<1>16. NowInv'
  <2>1. CASE Sock("w") = "up"
    <3>1. At(con["w"])' = <<NextPacket>>
      BY <1>2, <1>4, <1>7, <2>1
    <3>2. QED
      BY <1>2, <1>3, <3>1 DEF NowInv
  <2>2. CASE Sock("w") # "up"
    <3>1. At(con["w"])' = At(con["w"]) /\ Sock("w") = "fin"
      BY <1>4, <1>7, <2>2 DEF SendPacket, SendAccepted
    <3>2. con["r"] <= con["w"] /\ At(con["w"]) # <<>> => At(con["w"]) = <<NextPacket>>
      BY <3>1 DEF Sound, NowInv
    <3>3. QED
      BY <1>2, <1>3, <3>1, <3>2 DEF NowInv
  <2>3. QED
    BY <2>1, <2>2
<1>17. AckInv'
  BY <1>1, <1>2 DEF Sound, AckInv
<1>18. LastInv'
  <2> SUFFICES ASSUME lastid >= 0
               PROVE  LastInv'
    BY <1>2 DEF LastInv
  <2>1. /\ Unacked /\ lastid < N - 1 /\ lastid <= checkpoint
        /\ Covered(base + lastid * PKT_DIM,
                   base + lastid * PKT_DIM + get_current_body_bytes(count, lastid))
        /\ \A c \in Ahead : At(c) # <<>> =>
             At(c)[1] = PacketOf(At(c)[1].id) /\ lastid <= At(c)[1].id
    BY DEF Sound, LastInv
  <2>2. Covered(base + lastid * PKT_DIM,
                base + lastid * PKT_DIM + get_current_body_bytes(count, lastid))'
    BY <1>2, <2>1 DEF Covered, Returned
  <2>3. \A c \in Ahead : At(c)' # <<>> =>
           At(c)'[1] = PacketOf(At(c)[1].id)' /\ lastid <= At(c)'[1].id
    <3> SUFFICES ASSUME NEW c \in Ahead, At(c)' # <<>>
                 PROVE  At(c)'[1] = PacketOf(At(c)[1].id)' /\ lastid <= At(c)'[1].id
      OBVIOUS
    <3>1. c \in Links /\ (At(c)' = At(c) \/ At(c)' = <<NextPacket>>)
      BY <1>7 DEF Ahead
    <3>2. CASE At(c)' = At(c)
      BY <1>2, <1>3, <2>1, <3>2 DEF PacketOf
    <3>3. CASE At(c)' = <<NextPacket>>
      <4>1. At(c)'[1] = NextPacket
        BY <3>3
      <4>2. QED
        BY <1>2, <1>3, <1>12, <2>1, <4>1 DEF PacketOf
    <3>4. QED
      BY <3>1, <3>2, <3>3
  <2>4. QED
    BY <1>2, <1>3, <2>1, <2>2, <2>3 DEF LastInv
<1>19. QED
  BY <1>9, <1>10, <1>11, <1>14, <1>15, <1>16, <1>17, <1>18 DEF Sound

LEMMA FaultReadAck ==
    ASSUME TypeInv, Sound, ReadAck, TypeInv'
    PROVE  Sound'
<1> USE DEF GoTo, net, reader, writer
<1>1. /\ pc["w"] = "ack" /\ pc \in [Ends -> Place] /\ ak[con["w"]] # <<>>
      /\ con["w"] \in Links /\ checkpoint \in Nat /\ ak \in [Links -> Seq(Nat)]
  BY Types DEF ReadAck, Queue, TypeInv, TypeOK
<1>2. /\ ak[con["w"]] = <<checkpoint>> /\ Unacked
      /\ \A c \in Ahead : At(c) = <<>>
      /\ lastid = IF checkpoint = N - 1 THEN -1 ELSE checkpoint
      /\ \A c \in Links : c # con["w"] => ak[c] = <<>>
  BY <1>1 DEF Sound, AckInv
<1>3. ack' = checkpoint /\ \A c \in Links : ak'[c] = <<>>
  <2>1. ak' = [ak EXCEPT ![con["w"]] = Tail(@)] /\ ack' = Head(ak[con["w"]])
    BY DEF ReadAck, Queue
  <2>2. Head(<<checkpoint>>) = checkpoint /\ Tail(<<checkpoint>>) = <<>>
    BY <1>1
  <2>3. QED
    BY <1>1, <1>2, <2>1, <2>2
<1>4. /\ pc'["w"] = "send" /\ pc'["r"] = pc["r"]
      /\ UNCHANGED <<client, last, con, pk, st, shorts, base, count,
                     rcount, quota, buffer, lastid, delivered, high, tent>>
      /\ checkpoint' = checkpoint + 1
  BY <1>1, <1>3 DEF ReadAck, AckTest, Ends
<1>5. N' = N /\ N \in Nat /\ Ahead' = Ahead /\ Held' = Held /\ \A c : At(c)' = At(c)
  BY <1>2, <1>4, NextPacketType DEF N, Unacked, Ahead, Held, At
<1>6. WholeInv' /\ JoinInv' /\ BufferInv' /\ AckInv'
  BY <1>3, <1>4, <1>5 DEF Sound, WholeInv, JoinInv, BufferInv, AckInv
<1>7. WriteInv'
  BY <1>1, <1>3, <1>4 DEF WriteInv
<1>8. ItemInv' /\ OrderInv' /\ NowInv'
  <2>1. \A c \in Ahead' : At(c)' = <<>>
    BY <1>2, <1>5
  <2>2. con'["r"] <= con'["w"] => con'["w"] \in Ahead'
    BY <1>1, <1>4 DEF Ahead
  <2>3. QED
    BY <2>1, <2>2, <1>4 DEF ItemInv, OrderInv, NowInv
<1>9. LastInv'
  <2> SUFFICES ASSUME lastid >= 0
               PROVE  LastInv'
    BY <1>4 DEF LastInv
  <2>1. lastid = checkpoint /\ lastid < N - 1
    BY <1>2 DEF Sound, LastInv
  <2>2. Unacked' /\ lastid' < N' - 1 /\ lastid' <= checkpoint'
    BY <1>1, <1>4, <1>5, <2>1 DEF Unacked
  <2>3. Covered(base + lastid * PKT_DIM,
                base + lastid * PKT_DIM + get_current_body_bytes(count, lastid))
    BY DEF Sound, LastInv
  <2>4. Covered(base + lastid * PKT_DIM,
                base + lastid * PKT_DIM + get_current_body_bytes(count, lastid))'
    BY <1>4, <2>3 DEF Covered, Returned
  <2>5. \A c \in Ahead' : At(c)' = <<>>
    BY <1>2, <1>5
  <2>6. QED
    BY <2>2, <2>4, <2>5 DEF LastInv
<1>10. QED
  BY <1>6, <1>7, <1>8, <1>9 DEF Sound

\* The socket of Write falls further, or Write is told so; nothing is carried.
LEMMA FaultSendFails ==
    ASSUME TypeInv, Sound, SendFails, TypeInv'
    PROVE  Sound'
<1> USE DEF GoTo, net, reader, writer
<1>1. /\ pc["w"] = "send" /\ pc \in [Ends -> Place] /\ Sock("w") \notin {"up", "fin"}
      /\ ErrorReported("w")
  BY DEF SendFails, SendAccepted, TypeInv, TypeOK
<1>2. /\ pc'["w"] = "ripristino" /\ pc'["r"] = pc["r"]
      /\ UNCHANGED <<client, last, con, pk, ak, shorts, base, count, checkpoint, sended_byte, ack,
                     rcount, quota, buffer, lastid, delivered, high, tent>>
  BY <1>1 DEF SendFails, Ends
<1>3. /\ Held' = Held /\ Ahead' = Ahead /\ \A c : At(c)' = At(c)
      /\ Unacked' = Unacked /\ N' = N
  BY <1>1, <1>2 DEF Held, Ahead, At, Unacked, N
<1>4. \A c \in Links, x \in Ends :
        \/ st'[c][x] = st[c][x] /\ ~ (c = con["w"] /\ x = "w" /\ st[c][x] = "rst")
        \/ c = con["w"] /\ x = "w" /\ st[c][x] = "rst" /\ st'[c][x] = "dead"
  BY <1>1, ErrorEffect, HeldTypes DEF TypeInv
<1>5. Sock("w")' = "dead"
  <2>1. con["w"] <= last /\ con["w"] \in Links /\ "w" \in Ends
    BY HeldTypes DEF Sound, JoinInv
  <2>2. st[con["w"]]["w"] \in EndState /\ st[con["w"]]["w"] \notin {"none", "up", "fin"}
    BY <1>1, <2>1, HeldTypes DEF Sound, JoinInv, Sock
  <2>3. st'[con["w"]]["w"] = "dead"
    BY <1>4, <2>1, <2>2 DEF EndState
  <2>4. QED
    BY <1>2, <2>3 DEF Sock
<1>6. JoinInv'
  <2>1. \A c \in Links : \A x \in Ends :
           st'[c][x] = st[c][x] \/ {st[c][x], st'[c][x]} \cap {"up", "none"} = {}
    BY <1>4
  <2>2. QED
    BY <1>2, <2>1, JoinFrame DEF Sound
<1>7. WholeInv' /\ WriteInv' /\ BufferInv'
  BY <1>2, <1>3, <1>5 DEF Sound, WholeInv, WriteInv, BufferInv
<1>8. ItemInv' /\ OrderInv' /\ LastInv'
  BY <1>2, <1>3 DEF Sound, ItemInv, OrderInv, LastInv, PacketOf, IsLast, Covered, Returned
<1>9. NowInv'
  BY <1>2, <1>5 DEF NowInv
<1>10. AckInv'
  BY <1>1, <1>2 DEF Sound, AckInv
<1>11. QED
  BY <1>6, <1>7, <1>8, <1>9, <1>10 DEF Sound

LEMMA FaultAckEof ==
    ASSUME TypeInv, Sound, AckEof, TypeInv'
    PROVE  Sound'
<1> USE DEF GoTo, net, reader, writer
<1>1. /\ pc["w"] = "ack" /\ pc \in [Ends -> Place] /\ ak[con["w"]] = <<>>
      /\ Sock("w") \in {"fin", "dead"}
  BY DEF AckEof, AtEof, Queue, TypeInv, TypeOK
<1>2. /\ pc'["w"] = "ripristino" /\ pc'["r"] = pc["r"]
      /\ UNCHANGED <<client, last, con, pk, ak, st, shorts, base, count, checkpoint, sended_byte, ack,
                     rcount, quota, buffer, lastid, delivered, high, tent>>
  BY <1>1 DEF AckEof, Ends
<1>3. /\ Held' = Held /\ Ahead' = Ahead /\ \A c : At(c)' = At(c)
      /\ Unacked' = Unacked /\ N' = N /\ NextPacket' = NextPacket /\ Sock("w")' = Sock("w")
  BY <1>1, <1>2, SamePacket DEF Held, Ahead, At, Unacked, Sock
<1>4. WholeInv' /\ JoinInv' /\ WriteInv' /\ BufferInv'
  BY <1>1, <1>2, <1>3 DEF Sound, WholeInv, JoinInv, WriteInv, BufferInv
<1>5. ItemInv' /\ OrderInv' /\ LastInv'
  BY <1>2, <1>3 DEF Sound, ItemInv, OrderInv, LastInv, PacketOf, IsLast, Covered, Returned
<1>6. NowInv'
  BY <1>1, <1>2, <1>3 DEF Sound, NowInv
<1>7. AckInv'
  BY <1>1, <1>2, NoAcks DEF Sound, AckInv
<1>8. QED
  BY <1>4, <1>5, <1>6, <1>7 DEF Sound

\* The read of the ack fails: Write tests the number its last read left.
LEMMA FaultAckReset ==
    ASSUME TypeInv, Sound, AckReset, TypeInv'
    PROVE  Sound'
<1> USE DEF GoTo, net, reader, writer
<1>1. /\ pc["w"] = "ack" /\ pc \in [Ends -> Place] /\ ak[con["w"]] = <<>>
      /\ Sock("w") = "rst" /\ ErrorReported("w") /\ checkpoint \in Nat
  BY DEF AckReset, AtReset, Queue, TypeInv, TypeOK
<1>2. /\ pc'["w"] = "send" /\ pc'["r"] = pc["r"]
      /\ UNCHANGED <<client, last, con, pk, ak, shorts, base, count, ack,
                     rcount, quota, buffer, lastid, delivered, high, tent>>
      /\ checkpoint' = IF ack = checkpoint THEN checkpoint + 1 ELSE checkpoint
  BY <1>1 DEF AckReset, AckTest, Ends
<1>3. /\ Held' = Held /\ Ahead' = Ahead /\ N' = N /\ \A c : At(c)' = At(c)
  BY <1>1, <1>2 DEF Held, Ahead, At, N
<1>4. \A c \in Links, x \in Ends :
        \/ st'[c][x] = st[c][x] /\ ~ (c = con["w"] /\ x = "w" /\ st[c][x] = "rst")
        \/ c = con["w"] /\ x = "w" /\ st[c][x] = "rst" /\ st'[c][x] = "dead"
  BY <1>1, ErrorEffect, HeldTypes DEF TypeInv
<1>5. Sock("w")' = "dead"
  BY <1>1, <1>2, <1>4, HeldTypes DEF Sock
<1>6. JoinInv'
  <2>1. \A c \in Links : \A x \in Ends :
           st'[c][x] = st[c][x] \/ {st[c][x], st'[c][x]} \cap {"up", "none"} = {}
    BY <1>4
  <2>2. QED
    BY <1>2, <2>1, JoinFrame DEF Sound
<1>7. ack = checkpoint => checkpoint = 0
  BY <1>1 DEF Sound, WriteInv
<1>8. WholeInv' /\ BufferInv'
  BY <1>2, <1>3 DEF Sound, WholeInv, BufferInv
<1>9. WriteInv'
  BY <1>1, <1>2, <1>7 DEF WriteInv
<1>10. checkpoint <= checkpoint' /\ (Unacked /\ N > 1 => Unacked')
  BY <1>1, <1>2, <1>3, <1>7 DEF Unacked
<1>11. \A p : Returned(p) => Returned(p)'
  BY <1>2 DEF Returned
<1>12. con["r"] <= con'["r"]
  BY <1>2, HeldTypes
<1>13. ItemInv' /\ OrderInv'
  BY <1>2, <1>3, <1>10, <1>12, LaterItems DEF Sound
<1>14. LastInv'
  BY <1>2, <1>3, <1>10, <1>11, <1>12, LaterLast DEF Sound
<1>15. NowInv'
  BY <1>2, <1>5 DEF NowInv
<1>16. AckInv'
  BY <1>1, <1>2, NoAcks DEF Sound, AckInv
<1>17. QED
  BY <1>6, <1>8, <1>9, <1>13, <1>14, <1>15, <1>16 DEF Sound

LEMMA FaultReturnFromWrite ==
    ASSUME TypeInv, Sound, ReturnFromWrite, TypeInv'
    PROVE  Sound'
<1> USE DEF GoTo, net, reader
<1>1. /\ pc["w"] = "send" /\ pc \in [Ends -> Place] /\ checkpoint = N /\ checkpoint \in Nat
  BY DEF ReturnFromWrite, TypeInv, TypeOK
<1>2. /\ pc'["w"] = "idle" /\ pc'["r"] = pc["r"]
      /\ UNCHANGED <<client, last, con, pk, ak, st, shorts, count,
                     rcount, quota, buffer, lastid, delivered, high, tent>>
  BY <1>1 DEF ReturnFromWrite, Ends
<1>3. ~ Unacked
  BY <1>1 DEF Unacked
<1>4. Held' = Held /\ Ahead' = Ahead /\ Sock("w")' = Sock("w") /\ \A c : At(c)' = At(c)
  BY <1>2 DEF Held, Ahead, At, Sock
<1>5. WholeInv' /\ JoinInv' /\ WriteInv' /\ BufferInv'
  BY <1>2, <1>4 DEF Sound, WholeInv, JoinInv, WriteInv, BufferInv
<1>6. ItemInv' /\ OrderInv'
  BY <1>3, <1>4, Between DEF Sound, ItemInv, OrderInv, IsLast
<1>7. NowInv'
  BY <1>2, <1>3, <1>4, Between DEF NowInv
<1>8. AckInv' /\ LastInv'
  BY <1>2, <1>3, Between, HeldTypes DEF AckInv, LastInv
<1>9. QED
  BY <1>5, <1>6, <1>7, <1>8 DEF Sound

-----------------------------------------------------------------------------
(***************************************************************************)
(* Read.                                                                   *)
(***************************************************************************)
\* A step of the reader or the network that leaves Write where it is and adds
\* nothing to what is carried.
LEMMA Losing ==
    ASSUME TypeInv, TypeInv', Sound,
           UNCHANGED <<client, last, con, base, count, checkpoint, sended_byte, ack, lastid>>,
           pc'["w"] = pc["w"],
           \A c \in Links : con["r"] <= c => At(c)' = At(c) \/ At(c)' = <<>>,
           \A c \in Links : ak'[c] = ak[c] \/ ak'[c] = <<>>,
           \A p : Returned(p) => Returned(p)',
           \A c \in Links :
             \/ \A x \in Ends : \/ st'[c][x] = st[c][x]
                                \/ {st[c][x], st'[c][x]} \cap {"up", "none"} = {}
             \/ c <= last /\ \A x \in Ends : st'[c][x] \notin {"up", "none"},
           \/ st'[con["w"]]["w"] = st[con["w"]]["w"]
           \/ st[con["w"]]["w"] = "up" /\ st'[con["w"]]["w"] \in {"fin", "rst"}
    PROVE  JoinInv' /\ WriteInv' /\ ItemInv' /\ OrderInv' /\ NowInv' /\ AckInv' /\ LastInv'
<1>1. /\ con["r"] <= con'["r"] /\ con'["w"] = con["w"] /\ con["w"] \in Links
      /\ checkpoint <= checkpoint' /\ Unacked' = Unacked
      /\ \A c \in Links : con'["r"] <= c => At(c)' = At(c) \/ At(c)' = <<>>
  <2>1. con["r"] \in Nat /\ con["w"] \in Links /\ checkpoint \in Nat
    BY Types DEF TypeInv
  <2>2. con["r"] <= con["r"] /\ checkpoint <= checkpoint
    BY <2>1
  <2>3. Unacked' = Unacked
    BY SamePacket DEF Unacked
  <2>4. QED
    BY <2>1, <2>2, <2>3
<1>2. JoinInv'
  BY JoinFrame DEF Sound
<1>3. WriteInv'
  BY DEF Sound, WriteInv, Sock
<1>4. ItemInv' /\ OrderInv'
  BY <1>1, LaterItems DEF Sound
<1>5. LastInv'
  BY <1>1, LaterLast DEF Sound
<1>6. AckInv'
  BY <1>1, LaterAck DEF Sound
<1>7. NowInv'
  BY <1>1, LaterNow DEF Sound
<1>8. QED
  BY <1>2, <1>3, <1>4, <1>5, <1>6, <1>7

\* What a step of the reader leaves to Write and to the connections.
LEMMA FaultCallRead ==
    ASSUME TypeInv, Sound, WholeReads, NEW n \in ReadCounts, CallRead(n), TypeInv'
    PROVE  Sound'
<1> USE DEF GoTo, net, writer
<1>1. /\ pc["r"] = "idle" /\ pc' = [pc EXCEPT !["r"] = "load"] /\ pc \in [Ends -> Place] /\ rcount' = n
      /\ UNCHANGED <<client, last, con, pk, ak, st, base, count, checkpoint, sended_byte, ack,
                     quota, buffer, lastid, delivered>>
  BY DEF CallRead, TypeInv, TypeOK
<1>2. pc'["w"] = pc["w"] /\ pc'["r"] = "load" /\ ~ Held /\ ~ Held'
  BY <1>1 DEF Ends, Held
<1>3. \A c : At(c)' = At(c)
  BY <1>1, <1>2 DEF At
<1>4. WholeInv'
  BY <1>1 DEF Sound, WholeInv, WholeReads
<1>5. BufferInv'
  BY <1>1, <1>2 DEF Sound, BufferInv
<1>6. \A p : Returned(p) => Returned(p)'
  BY <1>1 DEF Returned
<1>7. JoinInv' /\ WriteInv' /\ ItemInv' /\ OrderInv' /\ NowInv' /\ AckInv' /\ LastInv'
  BY <1>1, <1>2, <1>3, <1>6, Losing
<1>8. QED
  BY <1>4, <1>5, <1>7 DEF Sound

LEMMA FaultReadPacket ==
    ASSUME TypeInv, Sound, ReadPacket, TypeInv'
    PROVE  Sound'
<1> USE DEF GoTo, net, writer
<1>1. /\ pc["r"] \in {"load", "reload"} /\ pc \in [Ends -> Place]
      /\ UNCHANGED <<client, last, con, ak, st, base, count, checkpoint, sended_byte, ack,
                     rcount, quota, lastid, delivered>>
      /\ pk[con["r"]] # <<>> /\ buffer' = Head(pk[con["r"]])
      /\ pk' = [pk EXCEPT ![con["r"]] = Tail(@)]
  BY DEF ReadPacket, Loading, Queue, TypeInv, TypeOK
<1>2. pc' = [pc EXCEPT !["r"] = IF pc["r"] = "reload" THEN "take" ELSE AfterHeader(buffer')]
  BY DEF ReadPacket
<1>3. /\ pc'["w"] = pc["w"] /\ pc'["r"] \in {"take", "dup"} /\ ~ Held /\ Held'
      /\ pc'["r"] = "dup" => buffer'.id = lastid
  BY <1>1, <1>2 DEF Ends, Held, AfterHeader
<1>4. /\ con["r"] \in Links /\ con["r"] \in Ahead /\ pk \in [Links -> Seq(Packet)]
      /\ con["w"] \in Nat /\ con["r"] \in Nat
  BY SMTT(30), Types DEF Ahead, TypeInv
<1>5. pk[con["r"]] = <<buffer'>> /\ pk'[con["r"]] = <<>>
  <2>1. At(con["r"]) = pk[con["r"]]
    BY <1>3 DEF At
  <2>2. pk[con["r"]] = <<pk[con["r"]][1]>>
    BY <1>1, <1>4, <2>1 DEF Sound, ItemInv
  <2>3. \A q : Head(<<q>>) = q /\ Tail(<<q>>) = <<>>
    OBVIOUS
  <2>4. QED
    BY <1>1, <1>4, <2>2, <2>3
<1>6. \A c \in Links : At(c)' = At(c)
  BY <1>1, <1>3, <1>4, <1>5 DEF At
<1>7. con["r"] <= con["w"]
  BY <1>1, <1>4 DEF Sound, BufferInv
<1>8. WholeInv'
  BY <1>1, <1>3 DEF Sound, WholeInv
<1>9. BufferInv'
  BY <1>1, <1>3, <1>4, <1>5, <1>7 DEF Sound, BufferInv
<1>10. \A p : Returned(p) => Returned(p)'
  BY <1>1 DEF Returned
<1>11. JoinInv' /\ WriteInv' /\ ItemInv' /\ OrderInv' /\ NowInv' /\ AckInv' /\ LastInv'
  BY <1>1, <1>3, <1>6, <1>10, Losing
<1>12. QED
  BY <1>8, <1>9, <1>11 DEF Sound

\* The reader finds its connection fallen: what it had in the buffer is lost.
LEMMA FaultReaderFalls ==
    ASSUME TypeInv, Sound, TypeInv', pc["r"] # "idle",
           pc' = [pc EXCEPT !["r"] = "ripristino"] \/ pc' = [pc EXCEPT !["r"] = "killed"],
           st' = st \/ ErrorReported("r"),
           UNCHANGED <<client, last, con, pk, ak, base, count, checkpoint, sended_byte, ack,
                       rcount, quota, lastid, delivered>>
    PROVE  Sound'
<1>1. pc'["w"] = pc["w"] /\ pc'["r"] \in {"ripristino", "killed"} /\ ~ Held'
  BY DEF Ends, Held, TypeInv, TypeOK
<1>2. \A c \in Links : At(c)' = At(c) \/ At(c)' = <<>>
  BY <1>1 DEF At, Sound, BufferInv
<1>3. \A c \in Links, x \in Ends :
        st'[c][x] = st[c][x] \/ (x = "r" /\ {st[c][x], st'[c][x]} \cap {"up", "none"} = {})
  <2>1. CASE st' = st
    BY <2>1
  <2>2. CASE ErrorReported("r")
    BY <2>2, ErrorEffect, HeldTypes DEF TypeInv
  <2>3. QED
    BY <2>1, <2>2
<1>4. st'[con["w"]]["w"] = st[con["w"]]["w"]
  BY <1>3, HeldTypes
<1>5. WholeInv'
  BY DEF Sound, WholeInv
<1>6. BufferInv'
  BY <1>1 DEF Sound, BufferInv
<1>7. \A p : Returned(p) => Returned(p)'
  BY DEF Returned
<1>8. JoinInv' /\ WriteInv' /\ ItemInv' /\ OrderInv' /\ NowInv' /\ AckInv' /\ LastInv'
  BY <1>1, <1>2, <1>3, <1>4, <1>7, Losing
<1>9. QED
  BY <1>5, <1>6, <1>8 DEF Sound

\* An ack is written for the packet in the buffer, on the connection of Write
\* if that one is up.
LEMMA Acked ==
    ASSUME TypeInv, Sound, TypeInv', Held, AckWritten,
           UNCHANGED <<client, last, con, pk, buffer, base, count, checkpoint, sended_byte, ack>>,
           pc'["w"] = pc["w"], ~ Held',
           \A p : Returned(p) => Returned(p)',
           \/ pc["r"] = "dup" /\ lastid' = lastid
           \/ lastid' = LastId /\ Covered(buffer.pos, buffer.pos + buffer.hdr)'
    PROVE  JoinInv' /\ WriteInv' /\ ItemInv' /\ OrderInv' /\ NowInv' /\ AckInv' /\ LastInv'
<1>1. /\ con["r"] \in Links /\ con["r"] \in Ahead /\ con["r"] \in Nat /\ con["w"] \in Nat /\ con["w"] \in Links
      /\ \A c \in Links : c \in Nat
  BY SMTT(30), Types DEF Ahead, TypeInv
<1>2. /\ At(con["r"]) = <<buffer>> /\ At(con["r"])[1] = buffer /\ At(con["r"]) # <<>>
      /\ pk[con["r"]] = <<>> /\ con["r"] <= con["w"]
      /\ \A c \in Links : c > con["w"] => pk[c] = <<>>
  BY DEF At, Sound, BufferInv
<1>3. \A c \in Links : At(c)' = IF c = con["r"] THEN <<>> ELSE At(c)
  BY <1>2 DEF At
<1>4. \A c \in Links : ak[c] = <<>>
  BY <1>1, <1>2 DEF Sound, AckInv
<1>5. /\ N' = N /\ Body' = Body /\ cur' = cur /\ Unacked' = Unacked /\ Ahead' = Ahead
  BY SamePacket DEF Unacked, Ahead
<1>6. ~ IsLast(buffer) => Unacked /\ buffer.id <= checkpoint /\ buffer = PacketOf(buffer.id)
  BY <1>1, <1>2 DEF Sound, ItemInv
<1>7. Sock("r") = "up" => con["r"] = con["w"] /\ pc["w"] = "ack" /\ Unacked /\ buffer = NextPacket
  <2> SUFFICES ASSUME Sock("r") = "up"
               PROVE  con["r"] = con["w"] /\ pc["w"] = "ack" /\ Unacked /\ buffer = NextPacket
    OBVIOUS
  <2>1. st[con["r"]]["w"] = "up"
    BY <1>1, HeldTypes DEF Sound, JoinInv
  <2>2. ~ (con["r"] < con["w"])
    BY <1>1, <2>1, HeldTypes DEF Sound, JoinInv
  <2>3. con["r"] = con["w"] /\ Sock("w") = "up"
    BY <1>1, <1>2, <2>1, <2>2, HeldTypes
  <2>4. At(con["w"]) = <<buffer>>
    BY <1>2, <2>3
  <2>5. Unacked /\ <<buffer>> = <<NextPacket>>
    BY <1>2, <2>3, <2>4 DEF Sound, NowInv
  <2>6. pc["w"] \notin {"idle", "send"}
    BY <1>2, <2>3, <2>4 DEF Sound, NowInv
  <2>7. pc["w"] = "ack"
    BY <2>3, <2>6 DEF Sound, WriteInv, TypeInv, CallInv
  <2>8. QED
    BY <2>3, <2>5, <2>7
<1>8. \A c \in Links : ak'[c] = IF c = con["r"] /\ Sock("r") = "up" THEN <<buffer.id>> ELSE <<>>
  <2>1. ak' = IF Sock("r") = "up" THEN [ak EXCEPT ![con["r"]] = Append(@, buffer.id)] ELSE ak
    BY DEF AckWritten, Sent
  <2>2. ak \in [Links -> Seq(Nat)] /\ Append(<<>>, buffer.id) = <<buffer.id>>
    BY Types DEF TypeInv
  <2>3. QED
    BY <1>1, <1>4, <2>1, <2>2
<1>9. \A c \in Links, x \in Ends :
        \/ st'[c][x] = st[c][x]
        \/ c = con["r"] /\ x = "r" /\ st[c][x] = "fin" /\ st'[c][x] = "dead"
  BY SendEffect, HeldTypes DEF AckWritten, TypeInv
<1>10. st'[con["w"]]["w"] = st[con["w"]]["w"]
  BY <1>1, <1>9, HeldTypes
<1>11. JoinInv'
  <2>1. \A c \in Links : \A x \in Ends :
           st'[c][x] = st[c][x] \/ {st[c][x], st'[c][x]} \cap {"up", "none"} = {}
    BY <1>9
  <2>2. QED
    BY <2>1, JoinFrame DEF Sound
<1>12. WriteInv'
  BY <1>10 DEF Sound, WriteInv, Sock
<1>13. con["r"] <= con'["r"] /\ checkpoint <= checkpoint'
       /\ \A c \in Links : con'["r"] <= c => At(c)' = At(c) \/ At(c)' = <<>>
  <2>1. checkpoint \in Nat
    BY Types DEF TypeInv
  <2>2. con["r"] <= con["r"] /\ checkpoint <= checkpoint
    BY <1>1, <2>1
  <2>3. QED
    BY <1>3, <2>2
<1>14. ItemInv' /\ OrderInv'
  BY <1>5, <1>13, LaterItems DEF Sound
<1>15. NowInv'
  BY <1>10, <1>13, LaterNow DEF Sound
<1>16. LastInv'
  <2>1. CASE pc["r"] = "dup" /\ lastid' = lastid
    BY <1>5, <1>13, <2>1, LaterLast DEF Sound
  <2>2. CASE lastid' = LastId /\ Covered(buffer.pos, buffer.pos + buffer.hdr)'
    <3> SUFFICES ASSUME lastid' >= 0
                 PROVE  LastInv'
      BY DEF LastInv
    <3>1. ~ IsLast(buffer) /\ lastid' = buffer.id
      BY <2>2 DEF LastId, IsLast
    <3>2. Unacked /\ buffer.id <= checkpoint /\ buffer = PacketOf(buffer.id)
      BY <1>6, <3>1
    <3>3. buffer.id \in Nat /\ checkpoint \in Nat /\ N \in Nat /\ checkpoint < N /\ base \in Nat
      BY <3>2, HeldTypes, NextPacketType, Types DEF TypeInv, Unacked
    <3>4. buffer.id < N - 1
      <4>1. buffer.id # N - 1
        BY <3>1, <3>2 DEF IsLast, PacketOf
      <4>2. QED
        BY <3>2, <3>3, <4>1
    <3>5. /\ buffer.pos = base + buffer.id * PKT_DIM
          /\ buffer.hdr = get_current_body_bytes(count, buffer.id)
      BY <3>2 DEF PacketOf
    <3>6. Covered(base + lastid * PKT_DIM,
                  base + lastid * PKT_DIM + get_current_body_bytes(count, lastid))'
      BY <2>2, <3>1, <3>5 DEF Covered
    <3>7. \A c \in Ahead : At(c)' # <<>> =>
             At(c)'[1] = PacketOf(At(c)[1].id)' /\ buffer.id <= At(c)'[1].id
      <4> SUFFICES ASSUME NEW c \in Ahead, At(c)' # <<>>
                   PROVE  At(c)'[1] = PacketOf(At(c)[1].id)' /\ buffer.id <= At(c)'[1].id
        OBVIOUS
      <4>1. c \in Links /\ con["r"] <= c /\ c # con["r"] /\ At(c)' = At(c)
        BY <1>3 DEF Ahead
      <4>2. con["r"] < c
        BY <1>1, <4>1
      <4>3. At(c)[1] = PacketOf(At(c)[1].id) /\ buffer.id <= At(c)[1].id
        BY <1>1, <1>2, <3>1, <4>1, <4>2 DEF Sound, OrderInv
      <4>4. QED
        BY <1>5, <4>1, <4>3 DEF PacketOf
    <3>8. QED
      BY <1>5, <3>1, <3>2, <3>4, <3>6, <3>7 DEF LastInv
  <2>3. QED
    BY <2>1, <2>2
<1>17. AckInv'
  <2> SUFFICES ASSUME NEW c \in Links, ak'[c] # <<>>
               PROVE  /\ c = con["w"] /\ ak'[c] = <<checkpoint>>
                      /\ pc["w"] = "ack" /\ Unacked /\ con["w"] <= con["r"]
                      /\ \A d \in Ahead : At(d)' = <<>>
                      /\ lastid' = IF checkpoint = N - 1 THEN -1 ELSE checkpoint
                      /\ Covered(cur, cur + Body)'
    BY <1>5 DEF AckInv
  <2>1. c = con["r"] /\ Sock("r") = "up" /\ ak'[c] = <<buffer.id>>
    BY <1>8
  <2>2. con["r"] = con["w"] /\ pc["w"] = "ack" /\ Unacked /\ buffer = NextPacket
    BY <1>7, <2>1
  <2>3. /\ buffer.id = checkpoint /\ buffer.max = N /\ buffer.hdr = Body
        /\ buffer.pos = base + checkpoint * PKT_DIM
    BY <2>2 DEF NextPacket
  <2>4. \A d \in Ahead : At(d)' = <<>>
    <3> SUFFICES ASSUME NEW d \in Ahead, d # con["r"]
                 PROVE  At(d) = <<>>
      BY <1>3 DEF Ahead
    <3>1. d \in Links /\ d > con["w"]
      BY <1>1, <2>2 DEF Ahead
    <3>2. QED
      BY <1>2, <3>1 DEF At
  <2>5. sended_byte = checkpoint * PKT_DIM /\ N \in Nat /\ checkpoint \in Nat
    BY <2>2, NextPacketType, Types DEF Unacked, TypeInv
  <2>6. /\ lastid' = IF checkpoint = N - 1 THEN -1 ELSE checkpoint
        /\ Covered(cur, cur + Body)'
    <3>1. CASE pc["r"] = "dup" /\ lastid' = lastid
      <4>1. lastid = checkpoint
        BY <2>3, <3>1 DEF Sound, BufferInv
      <4>2. lastid >= 0
        BY <2>5, <4>1
      <4>3. lastid < N - 1 /\ Covered(base + lastid * PKT_DIM,
                base + lastid * PKT_DIM + get_current_body_bytes(count, lastid))
        BY <4>2 DEF Sound, LastInv
      <4>4. Covered(cur, cur + Body)
        BY <2>5, <4>1, <4>3 DEF cur, Body
      <4>5. Covered(cur, cur + Body)'
        BY <1>5, <4>4 DEF Covered
      <4>6. QED
        BY <2>5, <3>1, <4>1, <4>3, <4>5
    <3>2. CASE lastid' = LastId /\ Covered(buffer.pos, buffer.pos + buffer.hdr)'
      <4>1. lastid' = IF checkpoint = N - 1 THEN -1 ELSE checkpoint
        BY <2>3, <3>2 DEF LastId
      <4>2. cur = buffer.pos /\ Body = buffer.hdr
        BY <2>3, <2>5 DEF cur
      <4>3. Covered(cur, cur + Body)'
        BY <1>5, <3>2, <4>2 DEF Covered
      <4>4. QED
        BY <4>1, <4>3
    <3>3. QED
      BY <3>1, <3>2
  <2>7. QED
    BY <1>1, <2>1, <2>2, <2>3, <2>4, <2>6
<1>18. QED
  BY <1>11, <1>12, <1>14, <1>15, <1>16, <1>17

LEMMA FaultReadBroken ==
    ASSUME TypeInv, Sound, ReadBroken \/ ReadShort, TypeInv'
    PROVE  Sound'
<1>1. /\ pc["r"] # "idle" /\ pc' = [pc EXCEPT !["r"] = "ripristino"]
      /\ st' = st \/ ErrorReported("r")
      /\ UNCHANGED <<client, last, con, pk, ak, base, count, checkpoint, sended_byte, ack,
                     rcount, quota, lastid, delivered>>
  BY DEF ReadBroken, ReadShort, Loading, GoTo, net, writer, reader
<1>2. QED
  BY <1>1, FaultReaderFalls

LEMMA FaultAckRefused ==
    ASSUME TypeInv, Sound, pc["r"] # "idle", AckRefused, TypeInv'
    PROVE  Sound'
<1>1. /\ pc' = [pc EXCEPT !["r"] = "ripristino"] \/ pc' = [pc EXCEPT !["r"] = "killed"]
      /\ ErrorReported("r")
      /\ UNCHANGED <<client, last, con, pk, ak, base, count, checkpoint, sended_byte, ack,
                     rcount, quota, lastid, delivered>>
  BY DEF AckRefused, GoTo, writer, reader
<1>2. QED
  BY <1>1, FaultReaderFalls

LEMMA FaultReAck ==
    ASSUME TypeInv, Sound, ReAck, TypeInv'
    PROVE  Sound'
<1> USE DEF GoTo, net, writer, reader
<1>1. CASE AckRefused
  BY <1>1, FaultAckRefused DEF ReAck
<1>2. CASE ~ AckRefused
  <2>1. /\ pc["r"] = "dup" /\ AckWritten /\ pc' = [pc EXCEPT !["r"] = "reload"] /\ pc \in [Ends -> Place]
        /\ UNCHANGED <<client, last, con, pk, base, count, checkpoint, sended_byte, ack,
                       rcount, quota, buffer, lastid, delivered>>
    BY <1>2 DEF ReAck, TypeInv, TypeOK
  <2>2. pc'["w"] = pc["w"] /\ pc'["r"] = "reload" /\ Held /\ ~ Held'
    BY <2>1 DEF Held, Ends
  <2>3. \A p : Returned(p) => Returned(p)'
    BY <2>1 DEF Returned
  <2>4. JoinInv' /\ WriteInv' /\ ItemInv' /\ OrderInv' /\ NowInv' /\ AckInv' /\ LastInv'
    BY <2>1, <2>2, <2>3, Acked
  <2>5. WholeInv' /\ BufferInv'
    BY <2>1, <2>2 DEF Sound, WholeInv, BufferInv
  <2>6. QED
    BY <2>4, <2>5 DEF Sound
<1>3. QED
  BY <1>1, <1>2

\* A Read that has room for a whole packet takes it whole.
LEMMA FaultTakeRest ==
    ASSUME TypeInv, Sound, TakeRest, TypeInv'
    PROVE  Sound'
<1> USE DEF GoTo, net, writer
<1>1. CASE AckRefused
  BY <1>1, FaultAckRefused DEF TakeRest
<1>2. CASE ~ AckRefused
  <2>1. /\ pc["r"] = "take" /\ AckWritten /\ lastid' = LastId /\ quota' = 0 /\ pc \in [Ends -> Place]
        /\ UNCHANGED <<client, last, con, pk, base, count, checkpoint, sended_byte, ack, rcount, buffer>>
    BY <1>2 DEF TakeRest, TypeInv, TypeOK
  <2>2. /\ con["r"] \in Ahead /\ At(con["r"]) = <<buffer>> /\ At(con["r"])[1] = buffer
        /\ At(con["r"]) # <<>>
    BY <2>1, Types DEF Ahead, At, Held, TypeInv
  <2>3. buffer.hdr \in 1 .. PKT_DIM /\ quota = 0 /\ buffer.hdr \in Nat /\ buffer.pos \in Nat
    BY <2>2, HeldTypes DEF Sound, ItemInv, WholeInv
  <2>4. 0 < buffer.hdr /\ buffer.hdr - 0 = buffer.hdr
    BY <2>3, PktDimAssumption
  <2>5. Deliver(buffer.hdr) /\ pc' = [pc EXCEPT !["r"] = "idle"]
    <3>1. IF quota < buffer.hdr
          THEN Deliver(buffer.hdr - quota) /\ pc' = [pc EXCEPT !["r"] = "idle"]
          ELSE /\ GoTo("r", IF quota = buffer.hdr THEN "ripristino" ELSE "killed")
               /\ UNCHANGED <<delivered, high>>
      BY <1>2 DEF TakeRest
    <3>2. QED
      BY <2>3, <2>4, <3>1
  <2>6. pc'["w"] = pc["w"] /\ pc'["r"] = "idle" /\ Held /\ ~ Held'
    BY <2>1, <2>5 DEF Held, Ends
  <2>7. /\ delivered' \in Seq([from : Nat, to : Nat]) /\ Len(delivered') = Len(delivered) + 1
        /\ \E d : delivered' = Append(delivered, d)
        /\ delivered'[Len(delivered')] = [from |-> buffer.pos + quota, to |-> buffer.pos + quota + buffer.hdr]
    BY <2>3, <2>5, DeliverType DEF TypeInv
  <2>8. \A p : Returned(p) => Returned(p)'
    BY <2>7, ReturnedMore
  <2>9. Covered(buffer.pos, buffer.pos + buffer.hdr)'
    <3> DEFINE i == Len(delivered')
    <3>1. i \in 1 .. Len(delivered') /\ buffer' = buffer
      <4>1. Len(delivered) \in Nat
        BY DEF TypeInv, TypeOK
      <4>2. QED
        BY <2>1, <2>7, <4>1
    <3>2. delivered'[i].from = buffer.pos /\ delivered'[i].to = buffer.pos + buffer.hdr
      BY <2>3, <2>7
    <3> HIDE DEF i
    <3>3. \A p \in buffer.pos .. (buffer.pos + buffer.hdr) - 1 : Returned(p)'
      <4> SUFFICES ASSUME NEW p \in buffer.pos .. (buffer.pos + buffer.hdr) - 1
                   PROVE  delivered'[i].from <= p /\ p < delivered'[i].to
        BY <3>1 DEF Returned
      <4>1. QED
        BY <2>3, <3>2
    <3>4. QED
      BY <3>1, <3>3 DEF Covered
  <2>10. JoinInv' /\ WriteInv' /\ ItemInv' /\ OrderInv' /\ NowInv' /\ AckInv' /\ LastInv'
    BY <2>1, <2>6, <2>8, <2>9, Acked
  <2>11. WholeInv' /\ BufferInv'
    BY <2>1, <2>6 DEF Sound, WholeInv, BufferInv
  <2>12. QED
    BY <2>10, <2>11 DEF Sound
<1>3. QED
  BY <1>1, <1>2

LEMMA FaultReader ==
    ASSUME TypeInv, Sound, WholeReads, Reader, TypeInv'
    PROVE  Sound'
<1>1. ~ ReadBuffered
  BY DEF ReadBuffered, Sound, WholeInv
<1>2. ~ TakePart
  <2> SUFFICES ASSUME TakePart PROVE FALSE
    OBVIOUS
  <2>1. pc["r"] = "take" /\ quota = 0 /\ rcount >= PKT_DIM /\ rcount \in Nat
    BY Types DEF TakePart, Sound, WholeInv, TypeInv
  <2>2. /\ con["r"] \in Ahead /\ At(con["r"]) = <<buffer>> /\ At(con["r"])[1] = buffer
        /\ At(con["r"]) # <<>>
    BY <2>1, Types DEF Ahead, At, Held, TypeInv
  <2>3. buffer.hdr \in 1 .. PKT_DIM /\ buffer.hdr \in Nat
    BY <2>2, HeldTypes DEF Sound, ItemInv
  <2>4. quota + rcount < buffer.hdr
    BY DEF TakePart
  <2>5. QED
    BY <2>1, <2>3, <2>4, PktDimAssumption
<1>3. QED
  BY <1>1, <1>2, FaultCallRead, FaultReadPacket, FaultReadBroken, FaultReAck, FaultTakeRest DEF Reader

LEMMA FaultWriter ==
    ASSUME TypeInv, Sound, Writer, TypeInv'
    PROVE  Sound'
BY FaultCallWrite, FaultSendPacket, FaultSendFails, FaultReadAck, FaultAckReset, FaultAckEof,
   FaultReturnFromWrite DEF Writer

LEMMA FaultBreak ==
    ASSUME TypeInv, Sound, Break, TypeInv'
    PROVE  Sound'
<1> USE DEF writer, reader
<1>1. PICK n \in 0 .. Len(pk[last]), m \in 0 .. Len(ak[last]) :
        /\ pk' = [pk EXCEPT ![last] = SubSeq(@, 1, n)]
        /\ ak' = [ak EXCEPT ![last] = SubSeq(@, 1, m)]
  BY DEF Break
<1>2. /\ UNCHANGED <<client, last, con, pc, base, count, checkpoint, sended_byte, ack,
                     rcount, quota, buffer, lastid, delivered>>
      /\ st[last] = [e \in Ends |-> "up"]
  BY DEF Break
<1>3. /\ last \in Links /\ last \in Nat /\ pk \in [Links -> Seq(Packet)] /\ ak \in [Links -> Seq(Nat)]
      /\ con["r"] <= last /\ con["w"] <= last /\ con["r"] \in Nat /\ con["w"] \in Nat
      /\ con["w"] \in Links /\ con["r"] \in Links
  BY Types, HeldTypes DEF TypeInv, Sound, JoinInv
<1>4. \A s \in Seq(Packet) : Len(s) <= 1 => \A k \in 0 .. Len(s) : SubSeq(s, 1, k) = s \/ SubSeq(s, 1, k) = <<>>
  <2> SUFFICES ASSUME NEW s \in Seq(Packet), Len(s) <= 1, NEW k \in 0 .. Len(s)
               PROVE  SubSeq(s, 1, k) = s \/ SubSeq(s, 1, k) = <<>>
    OBVIOUS
  <2>1. CASE k = 0
    BY <2>1
  <2>2. CASE k = Len(s)
    BY <2>2
  <2>3. QED
    BY <2>1, <2>2
<1>5. \A s \in Seq(Nat) : Len(s) <= 1 => \A k \in 0 .. Len(s) : SubSeq(s, 1, k) = s \/ SubSeq(s, 1, k) = <<>>
  <2> SUFFICES ASSUME NEW s \in Seq(Nat), Len(s) <= 1, NEW k \in 0 .. Len(s)
               PROVE  SubSeq(s, 1, k) = s \/ SubSeq(s, 1, k) = <<>>
    OBVIOUS
  <2>1. CASE k = 0
    BY <2>1
  <2>2. CASE k = Len(s)
    BY <2>2
  <2>3. QED
    BY <2>1, <2>2
<1>6. pk'[last] = pk[last] \/ pk'[last] = <<>>
  <2>1. Len(pk[last]) <= 1
    <3>1. CASE pk[last] = <<>>
      BY <3>1
    <3>2. CASE pk[last] # <<>>
      <4>1. At(last) = pk[last] /\ last \in Ahead
        BY <1>3, <3>2 DEF At, Ahead, Sound, BufferInv
      <4>2. pk[last] = <<pk[last][1]>>
        BY <3>2, <4>1 DEF Sound, ItemInv
      <4>3. PICK q : pk[last] = <<q>>
        BY <4>2
      <4>4. QED
        BY <4>3
    <3>3. QED
      BY <3>1, <3>2
  <2>2. SubSeq(pk[last], 1, n) = pk[last] \/ SubSeq(pk[last], 1, n) = <<>>
    BY <1>3, <1>4, <2>1
  <2>3. QED
    BY <1>1, <1>3, <2>2
<1>7. ak'[last] = ak[last] \/ ak'[last] = <<>>
  <2>1. ak[last] = <<>> \/ ak[last] = <<checkpoint>>
    BY <1>3 DEF Sound, AckInv
  <2>2. Len(ak[last]) <= 1
    <3>1. CASE ak[last] = <<>>
      BY <3>1
    <3>2. CASE ak[last] = <<checkpoint>>
      BY <3>2
    <3>3. QED
      BY <2>1, <3>1, <3>2
  <2>3. SubSeq(ak[last], 1, m) = ak[last] \/ SubSeq(ak[last], 1, m) = <<>>
    BY <1>3, <1>5, <2>2
  <2>4. QED
    BY <1>1, <1>3, <2>3
<1>8. \A c \in Links : /\ pk'[c] = pk[c] \/ pk'[c] = <<>>
                       /\ ak'[c] = ak[c] \/ ak'[c] = <<>>
  BY <1>1, <1>3, <1>6, <1>7
<1>9. Held' = Held /\ \A c \in Links : At(c)' = At(c) \/ At(c)' = <<>>
  BY <1>2, <1>8 DEF At, Held
<1>10. PICK how \in Endings : st' = [st EXCEPT ![last] = how]
  BY DEF Break
<1>11. \A x \in Ends : how[x] \in {"fin", "rst"}
  BY <1>10 DEF Endings
<1>12. st \in [Links -> [Ends -> EndState]]
  BY DEF TypeInv, TypeOK
<1>13. \A c \in Links : st'[c] = IF c = last THEN how ELSE st[c]
  BY <1>3, <1>10, <1>12
<1>14. \A p : Returned(p) => Returned(p)'
  BY <1>2 DEF Returned
<1>15. WholeInv' /\ BufferInv'
  BY <1>2, <1>3, <1>8, <1>9 DEF Sound, WholeInv, BufferInv
<1>16. \/ st'[con["w"]]["w"] = st[con["w"]]["w"]
       \/ st[con["w"]]["w"] = "up" /\ st'[con["w"]]["w"] \in {"fin", "rst"}
  BY <1>2, <1>3, <1>11, <1>13, HeldTypes
<1>17. \A c \in Links :
         \/ \A x \in Ends : \/ st'[c][x] = st[c][x]
                            \/ {st[c][x], st'[c][x]} \cap {"up", "none"} = {}
         \/ c <= last /\ \A x \in Ends : st'[c][x] \notin {"up", "none"}
  <2> SUFFICES ASSUME NEW c \in Links, c = last
               PROVE  c <= last /\ \A x \in Ends : st'[c][x] \notin {"up", "none"}
    BY <1>13
  <2>1. c <= last
    BY <1>3
  <2>2. st'[c] = how
    BY <1>13
  <2>3. QED
    BY <1>11, <2>1, <2>2
<1>18. JoinInv' /\ WriteInv' /\ ItemInv' /\ OrderInv' /\ NowInv' /\ AckInv' /\ LastInv'
  BY <1>2, <1>8, <1>9, <1>14, <1>16, <1>17, Losing
<1>19. QED
  BY <1>15, <1>18 DEF Sound

-----------------------------------------------------------------------------
(***************************************************************************)
(* Ripristino.                                                             *)
(***************************************************************************)
\* An end closes its socket: its connection is not up at either end any more.
LEMMA ClosedFacts ==
    ASSUME TypeInv, JoinInv, NEW e \in Ends
    PROVE  /\ con[e] <= last /\ con[e] \in Links
           /\ Closed(e) \in [Links -> [Ends -> EndState]]
           /\ \A c \in Links, x \in Ends : c # con[e] => Closed(e)[c][x] = st[c][x]
           /\ Closed(e)[con[e]][e] = "dead"
           /\ \A x \in Ends : Closed(e)[con[e]][x] \notin {"up", "none"}
           /\ \A c \in Links, x \in Ends : x # e =>
                \/ Closed(e)[c][x] = st[c][x]
                \/ st[c][x] = "up" /\ Closed(e)[c][x] \in {"fin", "rst"}
<1>1. con[e] <= last /\ con[e] \in Links
  BY HeldTypes DEF JoinInv
<1>2. /\ Closed(e) \in [Links -> [Ends -> EndState]]
      /\ \A c \in Links, x \in Ends :
           Closed(e)[c][x] =
               IF c # con[e] THEN st[c][x]
               ELSE IF x = e THEN "dead"
               ELSE IF st[c][x] # "up" THEN st[c][x]
               ELSE IF Queue(e) = <<>> THEN "fin" ELSE "rst"
  BY SocketType DEF TypeInv
<1>3. \A x \in Ends : st[con[e]][x] # "none"
  BY <1>1 DEF JoinInv
<1>4. QED
  BY <1>1, <1>2, <1>3

\* It stays there.
LEMMA JoinClosed ==
    ASSUME TypeInv, JoinInv, NEW e \in Ends, st' = Closed(e), UNCHANGED <<client, last, con>>
    PROVE  JoinInv'
<1>1. \A c \in Links :
         \/ \A x \in Ends : \/ st'[c][x] = st[c][x]
                            \/ {st[c][x], st'[c][x]} \cap {"up", "none"} = {}
         \/ c <= last /\ \A x \in Ends : st'[c][x] \notin {"up", "none"}
  BY ClosedFacts
<1>2. QED
  BY <1>1, JoinFrame

\* The client opens the next connection.
LEMMA JoinConnect ==
    ASSUME TypeInv, JoinInv, NEW e \in Ends, e = client, client' = client, last < MaxLinks,
           last' = last + 1, con' = [con EXCEPT ![e] = last + 1],
           st' = [Closed(e) EXCEPT ![last + 1] = [x \in Ends |-> "up"]]
    PROVE  /\ JoinInv'
           /\ con'[e] = last + 1 /\ con[e] < con'[e] /\ \A x \in Ends : x # e => con'[x] = con[x]
           /\ \A x \in Ends : x # e =>
                \/ st'[con[x]][x] = st[con[x]][x]
                \/ st[con[x]][x] = "up" /\ st'[con[x]][x] \in {"fin", "rst"}
<1>1. /\ last \in Nat /\ con \in [Ends -> Links] /\ con[e] = last /\ last + 1 \in Links
      /\ \A c \in Links : c \in Nat
      /\ \A x \in Ends : con[x] \in Links /\ con[x] \in Nat /\ con[x] <= last
  <2>1. last \in Nat /\ con \in [Ends -> Links] /\ \A c \in Links : c \in Nat
    BY Types DEF TypeInv
  <2>2. last + 1 \in Links
    BY <2>1, SessionAssumption DEF Links
  <2>3. QED
    BY <2>1, <2>2, HeldTypes DEF JoinInv
<1>2. /\ con'[e] = last + 1
      /\ \A x \in Ends : x # e => con'[x] = con[x]
      /\ con[e] < con'[e]
      /\ \A x \in Ends : con'[x] <= last + 1
  BY <1>1
<1>3. /\ \A x \in Ends : st'[last + 1][x] = "up"
      /\ \A c \in Links, x \in Ends : c # last + 1 => st'[c][x] = Closed(e)[c][x]
  BY <1>1, ClosedFacts
<1>4. ASSUME NEW c \in Links
      PROVE  /\ \A x \in Ends : (c <= last + 1 <=> st'[c][x] # "none") /\ (c < con'[x] => st'[c][x] # "up")
             /\ st'[c]["w"] = "up" <=> st'[c]["r"] = "up"
  <2>1. CASE c = last + 1
    BY <1>1, <1>2, <1>3, <2>1, HeldTypes
  <2>2. CASE c = con[e]
    <3>1. c # last + 1 /\ c <= last + 1
      BY <1>1, <2>2
    <3>2. \A x \in Ends : st'[c][x] \notin {"up", "none"}
      BY <1>3, <2>2, <3>1, ClosedFacts
    <3>3. QED
      BY <3>1, <3>2, HeldTypes
  <2>3. CASE c # last + 1 /\ c # con[e]
    <3>1. \A x \in Ends : st'[c][x] = st[c][x]
      BY <1>3, <2>3, ClosedFacts
    <3>2. /\ \A x \in Ends : (c <= last <=> st[c][x] # "none") /\ (c < con[x] => st[c][x] # "up")
          /\ st[c]["w"] = "up" <=> st[c]["r"] = "up"
      BY DEF JoinInv
    <3>3. c <= last + 1 <=> c <= last
      BY <1>1, <2>3
    <3>4. \A x \in Ends : c < con'[x] => c < con[x] \/ st[c][x] # "up"
      BY <1>1, <1>2, <2>3
    <3>5. QED
      BY <3>1, <3>2, <3>3, <3>4, HeldTypes
  <2>4. QED
    BY <2>1, <2>2, <2>3
<1>5. JoinInv'
  BY <1>2, <1>4 DEF JoinInv
<1>6. \A x \in Ends : x # e =>
        \/ st'[con[x]][x] = st[con[x]][x]
        \/ st[con[x]][x] = "up" /\ st'[con[x]][x] \in {"fin", "rst"}
  <2> SUFFICES ASSUME NEW x \in Ends, x # e
               PROVE  \/ st'[con[x]][x] = st[con[x]][x]
                      \/ st[con[x]][x] = "up" /\ st'[con[x]][x] \in {"fin", "rst"}
    OBVIOUS
  <2>1. con[x] \in Links /\ con[x] # last + 1
    BY <1>1
  <2>2. st'[con[x]][x] = Closed(e)[con[x]][x]
    BY <1>3, <2>1
  <2>3. QED
    BY <2>1, <2>2, ClosedFacts
<1>7. QED
  BY <1>2, <1>5, <1>6

\* The server takes the next one.
LEMMA JoinAccept ==
    ASSUME TypeInv, JoinInv, NEW e \in Ends, e # client, UNCHANGED <<client, last>>, con[e] < last,
           con' = [con EXCEPT ![e] = @ + 1], st' = Closed(e)
    PROVE  /\ JoinInv'
           /\ con'[e] = con[e] + 1 /\ con[e] < con'[e] /\ \A x \in Ends : x # e => con'[x] = con[x]
<1>1. /\ last \in Nat /\ con \in [Ends -> Links] /\ con[client] = last /\ client \in Ends
      /\ \A c \in Links : c \in Nat
      /\ \A x \in Ends : con[x] \in Links /\ con[x] \in Nat /\ con[x] <= last
  <2>1. last \in Nat /\ con \in [Ends -> Links] /\ client \in Ends /\ \A c \in Links : c \in Nat
    BY Types DEF TypeInv, TypeOK
  <2>2. QED
    BY <2>1, HeldTypes DEF JoinInv
<1>2. con'[e] = con[e] + 1 /\ con[e] < con'[e] /\ \A x \in Ends : x # e => con'[x] = con[x]
  BY <1>1
<1>3. con'[client] = last /\ \A x \in Ends : con'[x] <= last
  BY <1>1, <1>2
<1>4. ASSUME NEW c \in Links
      PROVE  /\ \A x \in Ends : (c <= last <=> st'[c][x] # "none") /\ (c < con'[x] => st'[c][x] # "up")
             /\ st'[c]["w"] = "up" <=> st'[c]["r"] = "up"
  <2>1. CASE c = con[e]
    <3>1. \A x \in Ends : st'[c][x] \notin {"up", "none"}
      BY <2>1, ClosedFacts
    <3>2. QED
      BY <1>1, <2>1, <3>1, HeldTypes
  <2>2. CASE c # con[e]
    <3>1. \A x \in Ends : st'[c][x] = st[c][x]
      BY <2>2, ClosedFacts
    <3>2. /\ \A x \in Ends : (c <= last <=> st[c][x] # "none") /\ (c < con[x] => st[c][x] # "up")
          /\ st[c]["w"] = "up" <=> st[c]["r"] = "up"
      BY DEF JoinInv
    <3>3. \A x \in Ends : c < con'[x] => c < con[x]
      BY <1>1, <1>2, <2>2
    <3>4. QED
      BY <3>1, <3>2, <3>3, HeldTypes
  <2>3. QED
    BY <2>1, <2>2
<1>5. JoinInv'
  BY <1>3, <1>4 DEF JoinInv
<1>6. QED
  BY <1>2, <1>5

\* Write goes to a later connection: nothing was ever sent there.
LEMMA WriterMoves ==
    ASSUME TypeInv, TypeInv', Sound, JoinInv', WriteInv',
           con["w"] < con'["w"], con'["r"] = con["r"], pc["w"] \in {"idle", "ripristino"},
           pc'["w"] = "idle" <=> pc["w"] = "idle", pc'["w"] # "ack", pc'["r"] = pc["r"],
           UNCHANGED <<pk, ak, base, count, checkpoint, sended_byte,
                       rcount, quota, buffer, lastid, delivered>>
    PROVE  Sound'
<1>1. /\ con["w"] \in Nat /\ con'["w"] \in Nat /\ con'["w"] \in Links /\ con["r"] \in Nat
      /\ \A c \in Links : c \in Nat
  BY HeldTypes, Types DEF TypeInv, TypeOK
<1>2. /\ Held' = Held /\ Ahead' = Ahead /\ N' = N /\ Unacked' = Unacked
      /\ \A c : At(c)' = At(c)
  BY DEF Held, Ahead, N, Unacked, At
<1>3. \A c \in Links : c > con'["w"] => c > con["w"]
  BY <1>1
<1>4. WholeInv' /\ BufferInv'
  BY <1>1, <1>2, <1>3 DEF Sound, WholeInv, BufferInv
<1>5. ItemInv' /\ OrderInv' /\ LastInv'
  BY <1>2 DEF Sound, ItemInv, OrderInv, LastInv, PacketOf, IsLast, Covered, Returned
<1>6. At(con'["w"]) = <<>>
  <2>1. pk[con'["w"]] = <<>>
    BY <1>1 DEF Sound, BufferInv
  <2>2. Held => con["r"] # con'["w"]
    BY <1>1 DEF Sound, BufferInv
  <2>3. QED
    BY <2>1, <2>2 DEF At
<1>7. NowInv'
  BY <1>2, <1>6 DEF NowInv
<1>8. AckInv'
  BY NoAcks DEF Sound, AckInv
<1>9. QED
  BY <1>4, <1>5, <1>7, <1>8 DEF Sound

\* Write stays at its connection, which has fallen.
LEMMA WriterStays ==
    ASSUME TypeInv, TypeInv', Sound, JoinInv', UNCHANGED con,
           pc["w"] \in {"idle", "ripristino", "failed"},
           pc'["w"] = "idle" <=> pc["w"] = "idle", pc'["w"] # "ack", pc'["r"] = pc["r"],
           pc'["w"] = "send" => ack' = 0,
           \/ st'[con["w"]]["w"] = "dead"
           \/ st'[con["w"]]["w"] = st[con["w"]]["w"] /\ pc["w"] \in {"ripristino", "failed"},
           UNCHANGED <<pk, ak, base, count, checkpoint, sended_byte,
                       rcount, quota, buffer, lastid, delivered>>
    PROVE  Sound'
<1>1. /\ Held' = Held /\ Ahead' = Ahead /\ N' = N /\ Unacked' = Unacked /\ NextPacket' = NextPacket
      /\ \A c : At(c)' = At(c)
  BY SamePacket DEF Held, Ahead, Unacked, At
<1>2. Sock("w")' = "dead" \/ (Sock("w")' = Sock("w") /\ Sock("w") # "up")
  BY DEF Sound, WriteInv, Sock
<1>3. WriteInv'
  BY <1>2 DEF WriteInv
<1>4. WholeInv' /\ BufferInv'
  BY <1>1 DEF Sound, WholeInv, BufferInv
<1>5. ItemInv' /\ OrderInv' /\ LastInv'
  BY <1>1 DEF Sound, ItemInv, OrderInv, LastInv, PacketOf, IsLast, Covered, Returned
<1>6. NowInv'
  <2>1. CASE Sock("w")' = "dead"
    BY <2>1 DEF NowInv
  <2>2. CASE Sock("w")' = Sock("w") /\ Sock("w") # "up"
    <3>1. con["r"] <= con["w"] /\ At(con["w"]) # <<>> /\ Sock("w") # "dead"
             => Unacked /\ At(con["w"]) = <<NextPacket>>
      BY DEF Sound, NowInv
    <3>2. QED
      BY <1>1, <2>2, <3>1 DEF NowInv
  <2>3. QED
    BY <1>2, <2>1, <2>2
<1>7. AckInv'
  BY NoAcks DEF Sound, AckInv
<1>8. QED
  BY <1>3, <1>4, <1>5, <1>6, <1>7 DEF Sound

\* The reader goes to a later connection, or stays: what it had not read on the
\* ones it leaves is lost.
LEMMA ReaderMoves ==
    ASSUME TypeInv, TypeInv', Sound, JoinInv',
           con["r"] <= con'["r"], con'["w"] = con["w"], pc'["w"] = pc["w"],
           ~ Held, ~ Held', pc["r"] = "idle" <=> pc'["r"] = "idle",
           UNCHANGED <<pk, ak, base, count, checkpoint, sended_byte, ack,
                       rcount, quota, buffer, lastid, delivered>>,
           \/ st'[con["w"]]["w"] = st[con["w"]]["w"]
           \/ st[con["w"]]["w"] = "up" /\ st'[con["w"]]["w"] \in {"fin", "rst"}
    PROVE  Sound'
<1>1. checkpoint \in Nat /\ Unacked' = Unacked
  BY SamePacket, Types DEF TypeInv, Unacked
<1>2. checkpoint <= checkpoint'
  BY <1>1
<1>3. \A c : At(c)' = At(c)
  BY DEF At
<1>4. \A p : Returned(p) => Returned(p)'
  BY DEF Returned
<1>5. WholeInv' /\ BufferInv'
  BY DEF Sound, WholeInv, BufferInv, Held
<1>6. WriteInv'
  BY DEF Sound, WriteInv, Sock
<1>7. ItemInv' /\ OrderInv'
  BY <1>1, <1>2, <1>3, LaterItems DEF Sound
<1>8. LastInv'
  BY <1>1, <1>2, <1>3, <1>4, LaterLast DEF Sound
<1>9. AckInv'
  BY <1>3, <1>4, LaterAck DEF Sound
<1>10. NowInv'
  BY <1>3, LaterNow DEF Sound
<1>11. QED
  BY <1>5, <1>6, <1>7, <1>8, <1>9, <1>10 DEF Sound

\* Ripristino, of the end that writes and of the one that reads.
LEMMA FaultRipristinoWriter ==
    ASSUME TypeInv, Sound, Ripristino("w"), TypeInv'
    PROVE  Sound'
<1> USE DEF GoTo, reader
<1>1. JoinInv /\ "w" \in Ends /\ "r" \in Ends /\ "r" # "w" /\ pc \in [Ends -> Place]
  BY HeldTypes DEF Sound, TypeInv, TypeOK
<1>2. /\ pc["w"] = "ripristino"
      /\ UNCHANGED <<client, pk, ak, base, count, checkpoint, sended_byte,
                     rcount, quota, buffer, lastid, delivered>>
  BY DEF Ripristino, ReConnect, ReAccept, SelectTimeout, net
<1>3. ASSUME Resume("w")
      PROVE  pc'["w"] = "send" /\ pc'["r"] = pc["r"] /\ ack' = 0 /\ WriteInv'
  BY <1>1, <1>3 DEF Resume, WriteInv
<1>4. ASSUME AttemptFails("w")
      PROVE  pc'["w"] \in {"ripristino", "failed"} /\ pc'["r"] = pc["r"]
  BY <1>1, <1>2, <1>4 DEF AttemptFails
<1>5. CASE ReConnect("w")
  <2>1. CASE /\ last < MaxLinks /\ last' = last + 1
             /\ con' = [con EXCEPT !["w"] = last + 1]
             /\ st' = [Closed("w") EXCEPT ![last + 1] = [x \in Ends |-> "up"]]
             /\ Resume("w")
    <3>1. "w" = client /\ client' = client
      BY <1>5 DEF ReConnect
    <3>2. JoinInv' /\ con["w"] < con'["w"] /\ con'["r"] = con["r"]
      BY <1>1, <2>1, <3>1, JoinConnect
    <3>3. QED
      BY <1>2, <1>3, <2>1, <3>2, WriterMoves
  <2>2. CASE AttemptFails("w") /\ st' = Closed("w") /\ UNCHANGED <<last, con>>
    <3>1. JoinInv' /\ st'[con["w"]]["w"] = "dead"
      BY <1>1, <1>2, <2>2, JoinClosed, ClosedFacts
    <3>2. QED
      BY <1>2, <1>4, <2>2, <3>1, WriterStays
  <2>3. QED
    BY <1>5, <2>1, <2>2 DEF ReConnect
<1>6. CASE ReAccept("w")
  <2>1. /\ "w" # client /\ UNCHANGED <<client, last>> /\ con["w"] < last
        /\ con' = [con EXCEPT !["w"] = @ + 1] /\ st' = Closed("w") /\ Resume("w")
    BY <1>6 DEF ReAccept
  <2>2. JoinInv' /\ con["w"] < con'["w"] /\ con'["r"] = con["r"]
    BY <1>1, <2>1, JoinAccept
  <2>3. QED
    BY <1>2, <1>3, <2>1, <2>2, WriterMoves
<1>7. CASE SelectTimeout("w")
  <2>1. AttemptFails("w") /\ UNCHANGED <<client, last, con, st>>
    BY <1>7 DEF SelectTimeout, net
  <2>2. JoinInv'
    BY <1>1, <2>1 DEF JoinInv
  <2>3. QED
    BY <1>2, <1>4, <2>1, <2>2, WriterStays
<1>8. QED
  BY <1>5, <1>6, <1>7 DEF Ripristino

LEMMA FaultRipristinoReader ==
    ASSUME TypeInv, Sound, Ripristino("r"), TypeInv'
    PROVE  Sound'
<1> USE DEF GoTo, reader
<1>1. /\ JoinInv /\ "w" \in Ends /\ "r" \in Ends /\ "r" # "w" /\ pc \in [Ends -> Place]
      /\ con["w"] \in Links /\ con["r"] \in Nat
  BY HeldTypes DEF Sound, TypeInv, TypeOK
<1>2. /\ pc["r"] = "ripristino" /\ ~ Held
      /\ UNCHANGED <<client, pk, ak, base, count, checkpoint, sended_byte,
                     rcount, quota, buffer, lastid, delivered>>
  BY DEF Ripristino, ReConnect, ReAccept, SelectTimeout, net, Held
<1>3. ASSUME Resume("r")
      PROVE  pc'["r"] = "load" /\ pc'["w"] = pc["w"] /\ ack' = ack /\ ~ Held'
  BY <1>1, <1>3 DEF Resume, Held
<1>4. ASSUME AttemptFails("r")
      PROVE  pc'["r"] \in {"ripristino", "failed"} /\ pc'["w"] = pc["w"] /\ ack' = ack /\ ~ Held'
  BY <1>1, <1>2, <1>4 DEF AttemptFails, Held
<1>5. st' = Closed("r") =>
        \/ st'[con["w"]]["w"] = st[con["w"]]["w"]
        \/ st[con["w"]]["w"] = "up" /\ st'[con["w"]]["w"] \in {"fin", "rst"}
  BY <1>1, ClosedFacts
<1>6. CASE ReConnect("r")
  <2>1. CASE /\ last < MaxLinks /\ last' = last + 1
             /\ con' = [con EXCEPT !["r"] = last + 1]
             /\ st' = [Closed("r") EXCEPT ![last + 1] = [x \in Ends |-> "up"]]
             /\ Resume("r")
    <3>1. "r" = client /\ client' = client
      BY <1>6 DEF ReConnect
    <3>2. /\ JoinInv' /\ con["r"] < con'["r"] /\ con'["w"] = con["w"] /\ con'["r"] = last + 1
          /\ \/ st'[con["w"]]["w"] = st[con["w"]]["w"]
             \/ st[con["w"]]["w"] = "up" /\ st'[con["w"]]["w"] \in {"fin", "rst"}
      <4>1. /\ JoinInv' /\ con'["r"] = last + 1 /\ con["r"] < con'["r"]
            /\ \A x \in Ends : x # "r" => con'[x] = con[x]
            /\ \A x \in Ends : x # "r" =>
                 \/ st'[con[x]][x] = st[con[x]][x]
                 \/ st[con[x]][x] = "up" /\ st'[con[x]][x] \in {"fin", "rst"}
        BY <1>1, <2>1, <3>1, JoinConnect
      <4>2. QED
        BY <1>1, <4>1
    <3>3. con["r"] <= con'["r"]
      BY SMTT(30), <1>1, <3>2, Types DEF TypeInv
    <3>4. pc["r"] = "idle" <=> pc'["r"] = "idle"
      BY <1>2, <1>3, <2>1
    <3>5. QED
      BY <1>2, <1>3, <2>1, <3>2, <3>3, <3>4, ReaderMoves
  <2>2. CASE AttemptFails("r") /\ st' = Closed("r") /\ UNCHANGED <<last, con>>
    <3>1. JoinInv' /\ con["r"] <= con'["r"]
      BY <1>1, <1>2, <2>2, JoinClosed
    <3>2. pc["r"] = "idle" <=> pc'["r"] = "idle"
      BY <1>2, <1>4, <2>2
    <3>3. QED
      BY <1>2, <1>4, <1>5, <2>2, <3>1, <3>2, ReaderMoves
  <2>3. QED
    BY <1>6, <2>1, <2>2 DEF ReConnect
<1>7. CASE ReAccept("r")
  <2>1. /\ "r" # client /\ UNCHANGED <<client, last>> /\ con["r"] < last
        /\ con' = [con EXCEPT !["r"] = @ + 1] /\ st' = Closed("r") /\ Resume("r")
    BY <1>7 DEF ReAccept
  <2>2. JoinInv' /\ con'["r"] = con["r"] + 1 /\ con'["w"] = con["w"]
    BY <1>1, <2>1, JoinAccept
  <2>3. con["r"] <= con'["r"]
    BY <1>1, <2>2
  <2>4. pc["r"] = "idle" <=> pc'["r"] = "idle"
    BY <1>2, <1>3, <2>1
  <2>5. QED
    BY <1>2, <1>3, <1>5, <2>1, <2>2, <2>3, <2>4, ReaderMoves
<1>8. CASE SelectTimeout("r")
  <2>1. AttemptFails("r") /\ UNCHANGED <<client, last, con, st>>
    BY <1>8 DEF SelectTimeout, net
  <2>2. JoinInv' /\ con["r"] <= con'["r"]
    BY <1>1, <2>1 DEF JoinInv
  <2>3. pc["r"] = "idle" <=> pc'["r"] = "idle"
    BY <1>2, <1>4, <2>1
  <2>4. QED
    BY <1>2, <1>4, <2>1, <2>2, <2>3, ReaderMoves
<1>9. QED
  BY <1>6, <1>7, <1>8 DEF Ripristino

\* A Ripristino for another connection of the client reconnects this one too.
LEMMA FaultReConnectOther ==
    ASSUME TypeInv, Sound, NEW e \in Ends, ReConnectOther(e), TypeInv'
    PROVE  Sound'
<1> USE DEF writer, reader
<1>1. /\ JoinInv /\ "w" \in Ends /\ "r" \in Ends /\ "r" # "w"
      /\ con["w"] \in Links /\ con["r"] \in Nat
  BY HeldTypes DEF Sound
<1>2. /\ e = client /\ pc[e] = "idle"
      /\ UNCHANGED <<client, pk, ak, pc, base, count, checkpoint, sended_byte, ack,
                     rcount, quota, buffer, lastid, delivered>>
      /\ \/ /\ last < MaxLinks /\ last' = last + 1
            /\ con' = [con EXCEPT ![e] = last + 1]
            /\ st' = [Closed(e) EXCEPT ![last + 1] = [x \in Ends |-> "up"]]
         \/ st' = Closed(e) /\ UNCHANGED <<last, con>>
  BY DEF ReConnectOther
<1>3. e = "w" \/ e = "r"
  BY DEF Ends
<1>4. CASE e = "w"
  <2>1. CASE /\ last < MaxLinks /\ last' = last + 1
             /\ con' = [con EXCEPT ![e] = last + 1]
             /\ st' = [Closed(e) EXCEPT ![last + 1] = [x \in Ends |-> "up"]]
    <3>1. JoinInv' /\ con["w"] < con'["w"] /\ con'["r"] = con["r"]
      BY ZenonT(40), <1>1, <1>2, <1>4, <2>1, JoinConnect
    <3>2. WriteInv'
      BY <1>2, <1>4 DEF WriteInv
    <3>3. QED
      BY <1>2, <1>4, <3>1, <3>2, WriterMoves
  <2>2. CASE st' = Closed(e) /\ UNCHANGED <<last, con>>
    <3>1. JoinInv' /\ st'[con["w"]]["w"] = "dead"
      BY <1>1, <1>2, <1>4, <2>2, JoinClosed, ClosedFacts
    <3>2. QED
      BY <1>2, <1>4, <2>2, <3>1, WriterStays
  <2>3. QED
    BY <1>2, <2>1, <2>2
<1>5. CASE e = "r"
  <2>1. ~ Held /\ ~ Held'
    BY <1>2, <1>5 DEF Held
  <2>2. CASE /\ last < MaxLinks /\ last' = last + 1
             /\ con' = [con EXCEPT ![e] = last + 1]
             /\ st' = [Closed(e) EXCEPT ![last + 1] = [x \in Ends |-> "up"]]
    <3>1. /\ JoinInv' /\ con["r"] < con'["r"] /\ con'["w"] = con["w"] /\ con'["r"] = last + 1
          /\ \/ st'[con["w"]]["w"] = st[con["w"]]["w"]
             \/ st[con["w"]]["w"] = "up" /\ st'[con["w"]]["w"] \in {"fin", "rst"}
      <4>1. /\ JoinInv' /\ con'[e] = last + 1 /\ con[e] < con'[e]
            /\ \A x \in Ends : x # e => con'[x] = con[x]
            /\ \A x \in Ends : x # e =>
                 \/ st'[con[x]][x] = st[con[x]][x]
                 \/ st[con[x]][x] = "up" /\ st'[con[x]][x] \in {"fin", "rst"}
        BY <1>1, <1>2, <2>2, JoinConnect
      <4>2. QED
        BY <1>1, <1>5, <4>1
    <3>2. con["r"] <= con'["r"]
      BY SMTT(30), <1>1, <3>1, Types DEF TypeInv
    <3>3. QED
      BY <1>2, <2>1, <3>1, <3>2, ReaderMoves
  <2>3. CASE st' = Closed(e) /\ UNCHANGED <<last, con>>
    <3>1. /\ JoinInv' /\ con["r"] <= con'["r"]
          /\ \/ st'[con["w"]]["w"] = st[con["w"]]["w"]
             \/ st[con["w"]]["w"] = "up" /\ st'[con["w"]]["w"] \in {"fin", "rst"}
      BY <1>1, <1>2, <1>5, <2>3, JoinClosed, ClosedFacts
    <3>2. QED
      BY <1>2, <2>1, <2>3, <3>1, ReaderMoves
  <2>4. QED
    BY <1>2, <2>2, <2>3
<1>6. QED
  BY <1>3, <1>4, <1>5

LEMMA FaultCallAgain ==
    ASSUME TypeInv, Sound, NEW e \in Ends, CallAgain(e), TypeInv'
    PROVE  Sound'
<1> USE DEF GoTo, net, reader
<1>1. /\ JoinInv /\ "w" \in Ends /\ "r" \in Ends /\ "r" # "w" /\ pc \in [Ends -> Place]
      /\ con["r"] \in Nat
  BY HeldTypes DEF Sound, TypeInv, TypeOK
<1>2. /\ pc[e] = "failed" /\ pc' = [pc EXCEPT ![e] = IF e = "w" THEN "send" ELSE "load"]
      /\ (IF e = "w" THEN ack' = 0 ELSE ack' = ack)
      /\ UNCHANGED <<client, last, con, st, pk, ak, base, count, checkpoint, sended_byte,
                     rcount, quota, buffer, lastid, delivered>>
  BY DEF CallAgain, Resume
<1>3. JoinInv'
  BY <1>1, <1>2 DEF JoinInv
<1>4. CASE e = "w"
  <2>1. pc'["w"] = "send" /\ pc'["r"] = pc["r"] /\ ack' = 0 /\ pc["w"] = "failed"
    BY <1>1, <1>2, <1>4
  <2>2. QED
    BY <1>2, <1>3, <2>1, WriterStays
<1>5. CASE e = "r"
  <2>1. /\ pc'["r"] = "load" /\ pc'["w"] = pc["w"] /\ ack' = ack /\ pc["r"] = "failed"
        /\ ~ Held /\ ~ Held' /\ con["r"] <= con'["r"]
    BY <1>1, <1>2, <1>5 DEF Held
  <2>2. QED
    BY <1>2, <1>3, <2>1, ReaderMoves
<1>6. QED
  BY <1>4, <1>5 DEF Ends

-----------------------------------------------------------------------------
LEMMA FaultInit ==
    ASSUME Init, TypeInv
    PROVE  Sound
<1>1. /\ \A e \in Ends : con[e] = 1 /\ pc[e] = "idle"
      /\ \A c \in Links : pk[c] = <<>> /\ ak[c] = <<>>
      /\ \A c \in Links, e \in Ends : st[c][e] = IF c = 1 THEN "up" ELSE "none"
      /\ last = 1 /\ client \in Ends /\ quota = 0 /\ lastid = -1
  BY DEF Init
<1>2. /\ con["w"] = 1 /\ con["r"] = 1 /\ pc["w"] = "idle" /\ pc["r"] = "idle" /\ con[client] = 1
      /\ "w" \in Ends /\ "r" \in Ends
  BY <1>1 DEF Ends
<1>3. \A c \in Links : At(c) = <<>>
  BY <1>1, <1>2 DEF At, Held
<1>4. 1 \in Links /\ \A c \in Links : c \in Nat /\ (c <= 1 <=> c = 1) /\ ~ (c < 1)
  BY SessionAssumption DEF Links
<1>5. JoinInv
  BY <1>1, <1>2, <1>4 DEF JoinInv
<1>6. WholeInv /\ WriteInv /\ BufferInv
  BY <1>1, <1>2, <1>4 DEF WholeInv, WriteInv, BufferInv, Held
<1>7. ItemInv /\ OrderInv
  BY <1>3 DEF ItemInv, OrderInv, Ahead
<1>8. NowInv /\ AckInv /\ LastInv
  BY <1>1, <1>2, <1>3, <1>4 DEF NowInv, AckInv, LastInv
<1>9. QED
  BY <1>5, <1>6, <1>7, <1>8 DEF Sound

LEMMA FaultStep ==
    ASSUME WholeReads, TypeInv, Sound, [Next]_vars
    PROVE  TypeInv' /\ Sound'
<1>1. TypeInv'
  BY TypeStep
<1>2. CASE UNCHANGED vars
  <2> USE DEF vars, net, writer, reader
  <2>1. /\ UNCHANGED <<client, last, con, pk, ak, st, pc, base, count, checkpoint, sended_byte, ack,
                       rcount, quota, buffer, lastid, delivered>>
    BY <1>2
  <2>2. /\ Held' = Held /\ Ahead' = Ahead /\ N' = N /\ Unacked' = Unacked /\ NextPacket' = NextPacket
        /\ Body' = Body /\ cur' = cur /\ \A c : At(c)' = At(c)
    BY <2>1, SamePacket DEF Held, Ahead, Unacked, At
  <2>3. WholeInv' /\ JoinInv' /\ WriteInv' /\ BufferInv'
    BY <2>1, <2>2 DEF Sound, WholeInv, JoinInv, WriteInv, BufferInv, Sock
  <2>4. ItemInv' /\ OrderInv' /\ LastInv'
    BY <2>1, <2>2 DEF Sound, ItemInv, OrderInv, LastInv, PacketOf, IsLast, Covered, Returned
  <2>5. NowInv' /\ AckInv'
    BY <2>1, <2>2 DEF Sound, NowInv, AckInv, Sock, Covered, Returned
  <2>6. QED
    BY <1>1, <2>3, <2>4, <2>5 DEF Sound
<1>3. CASE Writer
  BY <1>1, <1>3, FaultWriter
<1>4. CASE Reader
  BY <1>1, <1>4, FaultReader
<1>5. CASE \E e \in Ends : Ripristino(e)
  BY <1>1, <1>5, FaultRipristinoWriter, FaultRipristinoReader DEF Ends
<1>6. CASE \E e \in Ends : ReConnectOther(e)
  BY <1>1, <1>6, FaultReConnectOther
<1>7. CASE \E e \in Ends : CallAgain(e)
  BY <1>1, <1>7, FaultCallAgain
<1>8. CASE Break
  BY <1>1, <1>8, FaultBreak
<1>9. QED
  BY <1>2, <1>3, <1>4, <1>5, <1>6, <1>7, <1>8 DEF Next, Stopped

LEMMA FaultInvariance ==
    ASSUME WholeReads
    PROVE  Spec => [](TypeInv /\ Sound)
<1>1. Init => TypeInv /\ Sound
  BY TypeInit, FaultInit
<1>2. TypeInv /\ Sound /\ [Next]_vars => (TypeInv /\ Sound)'
  BY FaultStep
<1>3. QED
  BY <1>1, <1>2, PTL DEF Spec

\* Whatever the faults, while every Read has room for a whole packet: what is
\* on its way is the packet Write is at, or its ack and nothing else, or copies
\* on connections Write has left (TCP_Session.c:690-800 and 805-926).
THEOREM WholeInvariance ==
    ASSUME WholeReads
    PROVE  Spec => []FaultInv
<1>1. TypeInv /\ Sound => FaultInv
  BY DEF FaultInv, TypeInv, Sound
<1>2. QED
  BY <1>1, FaultInvariance, PTL

\* Whatever the faults, while every Read has room for a whole packet: Write goes
\* past a packet no Read has returned only where its read of the ack of packet 0
\* fails (TCP_Session.c:886-900).
THEOREM FalseAckFirst ==
    ASSUME WholeReads
    PROVE  Spec => FalseAckOnlyFirst
<1>1. TypeInv /\ Sound /\ [Next]_vars => [checkpoint' > checkpoint =>
                             \/ Covered(base + sended_byte, base + sended_byte')
                             \/ AckReset /\ checkpoint = 0]_vars
  <2> SUFFICES ASSUME TypeInv, Sound, [Next]_vars, vars' # vars,
                      checkpoint' > checkpoint, ~ (AckReset /\ checkpoint = 0)
               PROVE  Covered(base + sended_byte, base + sended_byte')
    OBVIOUS
  <2>1. ~ (checkpoint' = checkpoint) /\ ~ (checkpoint' = 0)
    <3>1. checkpoint \in Nat
      BY Types DEF TypeInv
    <3>2. QED
      BY <3>1
  <2>2. ReadAck \/ AckReset
    <3> USE DEF net, writer, reader
    <3>1. CASE Writer
      BY <2>1, <3>1 DEF Writer, CallWrite, SendPacket, SendFails, AckEof, ReturnFromWrite
    <3>2. ~ Reader
      BY <2>1 DEF Reader, CallRead, ReadPacket, ReadBuffered, ReadBroken, ReadShort, ReAck,
                  TakePart, TakeRest, AckRefused
    <3>3. \A e \in Ends : ~ Ripristino(e) /\ ~ ReConnectOther(e) /\ ~ CallAgain(e)
      BY <2>1 DEF Ripristino, ReConnect, ReAccept, SelectTimeout, ReConnectOther, CallAgain
    <3>4. ~ Break /\ ~ Stopped
      BY <2>1 DEF Break, Stopped, vars
    <3>5. QED
      BY <3>1, <3>2, <3>3, <3>4 DEF Next
  <2>3. CASE AckReset
    <3>1. ack' = ack /\ pc["w"] = "ack" /\ ack' = checkpoint
      BY <2>1, <2>3 DEF AckReset, AckTest
    <3>2. checkpoint = 0
      BY <3>1 DEF Sound, WriteInv
    <3>3. QED
      BY <2>3, <3>2
  <2>4. CASE ReadAck
    <3>1. ak[con["w"]] # <<>> /\ sended_byte' = sended_byte + Body
      BY <2>1, <2>4 DEF ReadAck, AckTest, Queue
    <3>2. Unacked /\ Covered(cur, cur + Body)
      BY <3>1, Types DEF Sound, AckInv, TypeInv
    <3>3. Body \in Nat /\ base \in Nat /\ sended_byte \in Nat
      <4>1. Body \in 1 .. PKT_DIM /\ base \in Nat /\ sended_byte \in Nat
        BY <3>2, NextPacketType, Types DEF Unacked, TypeInv
      <4>2. QED
        BY <4>1, PktDimAssumption
    <3>4. base + sended_byte' = cur + Body /\ cur = base + sended_byte
      BY <3>1, <3>3 DEF cur
    <3>5. QED
      BY <3>2, <3>4
  <2>5. QED
    BY <2>2, <2>3, <2>4
<1>2. QED
  BY <1>1, FaultInvariance, PTL DEF Spec, FalseAckOnlyFirst
=============================================================================

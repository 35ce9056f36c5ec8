--------------------------- MODULE SessionProofs ---------------------------
(***************************************************************************)
(* Proofs about Session, for every size of packet, every set of requests   *)
(* and any number of TCP connections.                                      *)
(***************************************************************************)
EXTENDS SessionInv, TLAPS

-----------------------------------------------------------------------------
(***************************************************************************)
(* The arithmetic of get_pkt_number and get_current_body_bytes, for every  *)
(* size of packet and of request.                                          *)
(***************************************************************************)
\* Euclidean division, in the form the lemmas below need.
LEMMA Division ==
    ASSUME NEW bytes \in Nat, NEW d \in Nat \ {0}
    PROVE  /\ bytes \div d \in Nat
           /\ bytes % d \in 0 .. d - 1
           /\ bytes = (d * (bytes \div d)) + (bytes % d)
OBVIOUS

\* The packets of a request hold it, and one packet less would not.
THEOREM PktNumber ==
    ASSUME NEW bytes \in Nat, bytes > 0
    PROVE  /\ get_pkt_number(bytes) \in Nat \ {0}
           /\ PKT_DIM * (get_pkt_number(bytes) - 1) < bytes
           /\ bytes <= PKT_DIM * get_pkt_number(bytes)
<1> DEFINE q == bytes \div PKT_DIM
           r == bytes % PKT_DIM
<1>1. /\ q \in Nat /\ r \in 0 .. PKT_DIM - 1 /\ bytes = PKT_DIM * q + r
  BY Division, PktDimAssumption
<1>2. PKT_DIM \in Nat \ {0}
  BY PktDimAssumption
<1> HIDE DEF q, r
<1>3. /\ PKT_DIM * (q - 1) = PKT_DIM * q - PKT_DIM
      /\ PKT_DIM * (q + 1) = PKT_DIM * q + PKT_DIM
      /\ q = 0 => PKT_DIM * q = 0
  BY <1>1, <1>2
<1>4. CASE r = 0
  <2>1. get_pkt_number(bytes) = q
    BY <1>4 DEF get_pkt_number, q, r
  <2>2. q # 0
    BY <1>1, <1>3, <1>4
  <2>3. QED
    BY <1>1, <1>2, <1>3, <1>4, <2>1, <2>2
<1>5. CASE r # 0
  <2>1. get_pkt_number(bytes) = q + 1
    BY <1>5 DEF get_pkt_number, q, r
  <2>2. (q + 1) - 1 = q
    BY <1>1
  <2>3. QED
    BY <1>1, <1>2, <1>3, <1>5, <2>1, <2>2
<1>6. QED
  BY <1>4, <1>5

\* Every packet of a request has a body, none is larger than PKT_DIM, all but
\* the last are full and the last ends where the request ends: the bodies are
\* the request, with nothing left out and nothing read past its end.
THEOREM BodyBytes ==
    ASSUME NEW bytes \in Nat, bytes > 0,
           NEW k \in Nat, k < get_pkt_number(bytes)
    PROVE  LET body == get_current_body_bytes(bytes, k)
               n == get_pkt_number(bytes)
           IN  /\ body \in 1 .. PKT_DIM
               /\ k < n - 1 => body = PKT_DIM
               /\ k = n - 1 => PKT_DIM * k + body = bytes
               /\ PKT_DIM * k + body <= bytes
<1> DEFINE n == get_pkt_number(bytes)
<1>1. /\ n \in Nat \ {0} /\ PKT_DIM * (n - 1) < bytes /\ bytes <= PKT_DIM * n
  BY PktNumber
<1>2. PKT_DIM \in Nat \ {0}
  BY PktDimAssumption
<1>3. k < n
  OBVIOUS
<1> HIDE DEF n
<1>4. PKT_DIM * k \in Nat
  BY <1>2
<1>5. CASE k = n - 1
  <2>1. PKT_DIM * n = PKT_DIM * k + PKT_DIM
    BY <1>1, <1>2, <1>5
  <2>2. bytes - PKT_DIM * k \in 1 .. PKT_DIM
    BY <1>1, <1>2, <1>4, <1>5, <2>1
  <2>3. QED
    BY <1>1, <1>2, <1>4, <1>5, <2>2 DEF get_current_body_bytes, n
<1>6. CASE k < n - 1
  <2>1. PICK d \in Nat : n - 1 = (k + 1) + d
    <3>1. (n - 1) - (k + 1) \in Nat
      BY <1>1, <1>6
    <3>2. QED
      BY <1>1, <3>1
  <2>2. PKT_DIM * (n - 1) = (PKT_DIM * k + PKT_DIM) + PKT_DIM * d
    BY <1>2, <2>1
  <2>3. PKT_DIM * d \in Nat
    BY <1>2, <2>1
  <2>4. bytes - PKT_DIM * k > PKT_DIM
    BY <1>1, <1>2, <1>4, <2>2, <2>3
  <2>5. QED
    BY <1>1, <1>2, <1>4, <1>6, <2>4 DEF get_current_body_bytes, n
<1>7. QED
  BY <1>1, <1>3, <1>5, <1>6

-----------------------------------------------------------------------------
(***************************************************************************)
(* Types and the counters of the calls, whatever the faults.               *)
(***************************************************************************)
TypeInv == TypeOK /\ CallInv

\* The types of the packet the writer is at.
LEMMA NextPacketType ==
    ASSUME TypeInv, pc["w"] # "idle", checkpoint < N
    PROVE  /\ N \in Nat \ {0}
           /\ Body \in 1 .. PKT_DIM
           /\ NextPacket \in Packet
           /\ checkpoint < N - 1 => Body = PKT_DIM
           /\ checkpoint = N - 1 => checkpoint * PKT_DIM + Body = count
           /\ sended_byte = checkpoint * PKT_DIM
<1>1. /\ count \in Nat /\ count > 0 /\ checkpoint \in Nat /\ base \in Nat
      /\ sended_byte = checkpoint * PKT_DIM
  BY DEF TypeInv, TypeOK, CallInv
<1>2. PKT_DIM \in Nat \ {0}
  BY PktDimAssumption
<1>3. N \in Nat \ {0}
  BY <1>1, PktNumber DEF N
<1>4. /\ Body \in 1 .. PKT_DIM
      /\ checkpoint < N - 1 => Body = PKT_DIM
      /\ checkpoint = N - 1 => PKT_DIM * checkpoint + Body = count
  BY <1>1, BodyBytes DEF N, Body
<1>5. PKT_DIM * checkpoint = checkpoint * PKT_DIM /\ checkpoint * PKT_DIM \in Nat
  BY <1>1, <1>2
<1>6. NextPacket \in Packet
  BY <1>1, <1>2, <1>3, <1>4, <1>5 DEF NextPacket, Packet
<1>7. QED
  BY <1>1, <1>3, <1>4, <1>5, <1>6

LEMMA NType ==
    ASSUME TypeInv, pc["w"] # "idle"
    PROVE  N \in Nat \ {0}
BY PktNumber DEF TypeInv, TypeOK, CallInv, N

LEMMA TypeInit == Init => TypeInv
<1> SUFFICES ASSUME Init PROVE TypeInv
  OBVIOUS
<1> USE SessionAssumption, PktDimAssumption DEF Init
<1>1. TypeOK
  BY DEF TypeOK, Links, Ends, EndState, NoPacket, Packet, Place
<1>2. CallInv
  BY DEF CallInv, Ends
<1>3. QED
  BY <1>1, <1>2 DEF TypeInv

\* One end's state of its connection changes, and nothing else.
LEMMA PutType ==
    ASSUME TypeOK, NEW e \in Ends, NEW v \in EndState
    PROVE  /\ Put(e, v) \in [Links -> [Ends -> EndState]]
           /\ \A c \in Links, x \in Ends :
                Put(e, v)[c][x] = IF c = con[e] /\ x = e THEN v ELSE st[c][x]
<1>1. con[e] \in Links /\ st \in [Links -> [Ends -> EndState]]
  BY DEF TypeOK
<1>2. st[con[e]] \in [Ends -> EndState]
  BY <1>1
<1> DEFINE row == [st[con[e]] EXCEPT ![e] = v]
<1>3. /\ row \in [Ends -> EndState]
      /\ \A x \in Ends : row[x] = IF x = e THEN v ELSE st[con[e]][x]
  BY <1>2
<1>4. Put(e, v) = [st EXCEPT ![con[e]] = row]
  BY DEF Put
<1> HIDE DEF row
<1>5. QED
  BY <1>1, <1>3, <1>4

\* The steps of the sockets keep their states what they can be.
LEMMA SocketType ==
    ASSUME TypeOK, NEW e \in Ends
    PROVE  /\ ErrorReported(e) => st' \in [Links -> [Ends -> EndState]]
           /\ AfterSend(e) => st' \in [Links -> [Ends -> EndState]]
           /\ Closed(e) \in [Links -> [Ends -> EndState]]
           /\ \A c \in Links, x \in Ends :
                Closed(e)[c][x] =
                    IF c # con[e] THEN st[c][x]
                    ELSE IF x = e THEN "dead"
                    ELSE IF st[c][x] # "up" THEN st[c][x]
                    ELSE IF Queue(e) = <<>> THEN "fin" ELSE "rst"
<1>1. /\ con[e] \in Links /\ st \in [Links -> [Ends -> EndState]]
      /\ "dead" \in EndState
  BY DEF TypeOK, EndState
<1>2. Put(e, "dead") \in [Links -> [Ends -> EndState]]
  BY <1>1, PutType
<1>3. ErrorReported(e) => st' \in [Links -> [Ends -> EndState]]
  BY <1>1, <1>2 DEF ErrorReported
<1>4. AfterSend(e) => st' \in [Links -> [Ends -> EndState]]
  BY <1>1, <1>2 DEF AfterSend
<1> DEFINE old == st[con[e]]
           new == [x \in Ends |-> IF x = e THEN "dead"
                                  ELSE IF old[x] # "up" THEN old[x]
                                  ELSE IF Queue(e) = <<>> THEN "fin" ELSE "rst"]
<1>5. old \in [Ends -> EndState]
  BY <1>1
<1>6. new \in [Ends -> EndState]
  BY <1>5 DEF EndState
<1>7. Closed(e) = [st EXCEPT ![con[e]] = new]
  BY <1>1 DEF Closed
<1>8. \A x \in Ends : new[x] = IF x = e THEN "dead"
                                ELSE IF st[con[e]][x] # "up" THEN st[con[e]][x]
                                ELSE IF Queue(e) = <<>> THEN "fin" ELSE "rst"
  OBVIOUS
<1> HIDE DEF new, old
<1>9. Closed(e) \in [Links -> [Ends -> EndState]]
  BY <1>1, <1>6, <1>7
<1>10. \A c \in Links : Closed(e)[c] = IF c = con[e] THEN new ELSE st[c]
  BY <1>1, <1>7
<1>11. QED
  BY <1>3, <1>4, <1>8, <1>9, <1>10

\* A step that leaves the counters of Write alone keeps CallInv if it leaves
\* the calls at places they can be at.
LEMMA CallFrame ==
    ASSUME CallInv, UNCHANGED <<count, checkpoint, sended_byte>>,
           pc'["w"] \in {"idle", "send", "ack", "ripristino", "failed"},
           pc'["r"] \in {"idle", "load", "dup", "reload", "take", "ripristino",
                         "failed", "killed"},
           pc'["w"] = "idle" <=> pc["w"] = "idle",
           pc'["w"] \in {"ack", "ripristino", "failed"} => checkpoint < N,
           \A e \in Ends : pc'[e] # "failed" => tent'[e] < MAX_TENTATIVI
    PROVE  CallInv'
<1>1. N' = N
  BY DEF N
<1>2. QED
  BY <1>1 DEF CallInv

LEMMA TypeWriter ==
    ASSUME TypeInv, Writer
    PROVE  TypeInv'
<1> USE DEF TypeInv, net, reader, writer, GoTo, Place
<1>1. ASSUME NEW n \in WriteCounts, CallWrite(n)
      PROVE  TypeInv'
  <2>1. n \in Nat \ {0}
    BY SessionAssumption
  <2>2. get_pkt_number(n) \in Nat \ {0}
    BY <2>1, PktNumber
  <2>3. TypeOK'
    BY <1>1, <2>1 DEF CallWrite, TypeOK, Ends
  <2>4. N' = get_pkt_number(n)
    BY <1>1 DEF CallWrite, N
  <2>5. CallInv'
    BY <1>1, <2>1, <2>2, <2>4, PktDimAssumption DEF CallWrite, TypeOK, CallInv, Ends
  <2>6. QED
    BY <2>3, <2>5
<1>2. CASE SendPacket
  <2>1. checkpoint < N /\ NextPacket \in Packet
    BY SMTT(30), <1>2, NextPacketType, NType DEF SendPacket, CallInv, TypeOK
  <2>2. TypeOK'
    BY SMTT(30), <1>2, <2>1, SocketType DEF SendPacket, Sent, TypeOK, Ends
  <2>3. CallInv'
    BY <1>2, <2>1 DEF SendPacket, TypeOK, CallInv, Ends, N
  <2>4. QED
    BY <2>2, <2>3
<1>3. CASE SendFails
  <2>1. checkpoint < N
    BY <1>3, NType DEF SendFails, CallInv, TypeOK
  <2>2. TypeOK'
    BY <1>3, SocketType DEF SendFails, TypeOK, Ends
  <2>3. CallInv'
    BY <1>3, <2>1 DEF SendFails, TypeOK, CallInv, Ends, N
  <2>4. QED
    BY <2>2, <2>3
<1>4. ASSUME pc["w"] = "ack", AckTest
      PROVE  /\ checkpoint' \in Nat /\ sended_byte' \in Nat /\ pc' \in [Ends -> Place]
             /\ CallInv'
  <2>1. /\ checkpoint < N /\ N \in Nat \ {0} /\ Body \in 1 .. PKT_DIM
        /\ checkpoint < N - 1 => Body = PKT_DIM
        /\ checkpoint = N - 1 => checkpoint * PKT_DIM + Body = count
        /\ sended_byte = checkpoint * PKT_DIM
    BY <1>4, NextPacketType DEF CallInv
  <2>2. (checkpoint + 1) * PKT_DIM = checkpoint * PKT_DIM + PKT_DIM
    BY PktDimAssumption DEF TypeOK
  <2>3. N' = N
    BY <1>4 DEF AckTest, N
  <2>4. CASE ack' = checkpoint
    <3>1. checkpoint' = checkpoint + 1 /\ sended_byte' = sended_byte + Body
      BY <1>4, <2>4 DEF AckTest
    <3>2. checkpoint' <= N /\ sended_byte' = IF checkpoint' < N THEN checkpoint' * PKT_DIM ELSE count
      BY <2>1, <2>2, <3>1, PktDimAssumption DEF TypeOK
    <3>3. checkpoint' \in Nat /\ sended_byte' \in Nat
      <4>1. checkpoint \in Nat /\ sended_byte \in Nat
        BY DEF TypeOK
      <4>2. Body \in Nat
        BY <2>1, PktDimAssumption
      <4> HIDE DEF TypeInv
      <4>3. QED
        BY <3>1, <4>1, <4>2
    <3>4. /\ pc' = [pc EXCEPT !["w"] = "send"]
          /\ count' = count /\ tent' = tent
      BY <1>4 DEF AckTest
    <3>5. pc'["w"] = "send" /\ pc'["r"] = pc["r"]
      BY <3>4 DEF TypeOK, Ends
    <3>6. count > 0 /\ \A e \in Ends : pc'[e] # "failed" => tent[e] < MAX_TENTATIVI
      BY <1>4, <3>5 DEF CallInv, Ends
    <3>7. CallInv'
      BY <2>3, <3>2, <3>4, <3>5, <3>6 DEF CallInv
    <3>8. QED
      BY <3>3, <3>4, <3>7 DEF TypeOK, Ends
  <2>5. CASE ack' # checkpoint
    BY <1>4, <2>1, <2>3, <2>5 DEF AckTest, TypeOK, CallInv, Ends
  <2>6. QED
    BY <2>4, <2>5
<1>5. CASE ReadAck
  <2>1. ack' \in Nat /\ ak' \in [Links -> Seq(Nat)]
    BY <1>5 DEF ReadAck, Queue, TypeOK, Ends
  <2>2. pc["w"] = "ack" /\ AckTest
    BY <1>5 DEF ReadAck
  <2>3. /\ CallInv'
        /\ checkpoint' \in Nat /\ sended_byte' \in Nat
        /\ pc' \in [Ends -> Place]
    BY <1>4, <2>2
  <2>4. TypeOK'
    BY <1>5, <2>1, <2>2, <2>3 DEF ReadAck, AckTest, TypeOK
  <2>5. QED
    BY <2>3, <2>4
<1>6. CASE AckReset
  <2>1. st' \in [Links -> [Ends -> EndState]]
    BY <1>6, SocketType DEF AckReset, Ends
  <2>2. QED
    BY <1>4, <1>6, <2>1 DEF AckReset, AckTest, TypeOK
<1>7. CASE AckEof
  BY <1>7 DEF AckEof, TypeOK, CallInv, Ends, N
<1>8. CASE ReturnFromWrite
  BY <1>8 DEF ReturnFromWrite, TypeOK, CallInv, Ends, N
<1>9. QED
  BY <1>1, <1>2, <1>3, <1>5, <1>6, <1>7, <1>8 DEF Writer

\* The result of a Read is a part of the stream.
LEMMA DeliverType ==
    ASSUME TypeOK, NEW n \in Nat, Deliver(n)
    PROVE  /\ delivered' \in Seq([from : Nat, to : Nat]) /\ high' \in Nat
           /\ delivered' = Append(delivered,
                  [from |-> buffer.pos + quota, to |-> buffer.pos + quota + n])
           /\ Len(delivered') = Len(delivered) + 1
           /\ delivered'[Len(delivered')] =
                  [from |-> buffer.pos + quota, to |-> buffer.pos + quota + n]
           /\ high' = IF buffer.pos + quota + n > high
                      THEN buffer.pos + quota + n ELSE high
<1>1. buffer.pos \in Nat /\ quota \in Nat /\ high \in Nat
      /\ delivered \in Seq([from : Nat, to : Nat])
  BY DEF TypeOK, Packet
<1>2. [from |-> buffer.pos + quota, to |-> buffer.pos + quota + n] \in [from : Nat, to : Nat]
  BY <1>1
<1>3. QED
  BY <1>1, <1>2 DEF Deliver

LEMMA TypeReader ==
    ASSUME TypeInv, Reader
    PROVE  TypeInv'
<1> USE DEF TypeInv, net, reader, writer, GoTo, Place
<1>0. /\ con["r"] \in Links /\ pk[con["r"]] \in Seq(Packet)
      /\ buffer \in Packet /\ buffer.id \in Nat /\ buffer.hdr \in Nat /\ buffer.max \in Nat
      /\ quota \in Nat
  BY DEF TypeOK, Packet, Ends
<1>1. ASSUME NEW n \in ReadCounts, CallRead(n)
      PROVE  TypeInv'
  BY <1>1, SessionAssumption DEF CallRead, TypeOK, CallInv, Ends, N
<1>2. CASE ReadPacket
  <2>1. /\ buffer' \in Packet /\ pk' \in [Links -> Seq(Packet)]
    BY <1>0, <1>2 DEF ReadPacket, Queue, TypeOK
  <2>2. pc' \in [Ends -> Place] /\ pc'["w"] = pc["w"] /\ pc'["r"] \in {"dup", "take"}
    BY <1>2 DEF ReadPacket, AfterHeader, TypeOK, Ends
  <2>3. TypeOK'
    BY <1>2, <2>1, <2>2 DEF ReadPacket, TypeOK
  <2>4. UNCHANGED <<count, checkpoint, sended_byte, tent>> /\ pc["r"] # "failed"
    BY <1>2 DEF ReadPacket, Loading
  <2>5. \A e \in Ends : pc'[e] # "failed" => tent'[e] < MAX_TENTATIVI
    BY <2>2, <2>4 DEF CallInv, Ends
  <2>6. CallInv'
    BY <2>2, <2>4, <2>5, CallFrame DEF CallInv
  <2>7. QED
    BY <2>3, <2>6
<1>3. CASE ReadBuffered
  BY <1>3 DEF ReadBuffered, AfterHeader, TypeOK, CallInv, Ends, N
<1>4. CASE ReadBroken
  <2>1. st' \in [Links -> [Ends -> EndState]]
    BY <1>4, SocketType DEF ReadBroken, Ends
  <2>2. QED
    BY <1>4, <2>1 DEF ReadBroken, TypeOK, CallInv, Ends, N, Loading
<1>5. CASE ReadShort
  <2>1. buffer' \in Packet
    BY <1>0, <1>5 DEF ReadShort, Queue, TypeOK
  <2>2. shorts' \in 0 .. MaxShort
    BY <1>5, SessionAssumption DEF ReadShort, TypeOK
  <2>3. QED
    BY <1>5, <2>1, <2>2 DEF ReadShort, TypeOK, CallInv, Ends, N, Loading
<1>6. ASSUME AckRefused, pc["r"] # "failed"
      PROVE  TypeInv'
  <2>1. st' \in [Links -> [Ends -> EndState]]
    BY <1>6, SocketType DEF AckRefused, Ends
  <2>2. QED
    BY <1>6, <2>1 DEF AckRefused, TypeOK, CallInv, Ends, N
<1>7. ASSUME AckWritten
      PROVE  st' \in [Links -> [Ends -> EndState]] /\ ak' \in [Links -> Seq(Nat)]
  BY SMTT(30), <1>0, <1>7, SocketType DEF AckWritten, Sent, TypeOK, Ends
<1>8. CASE ReAck
  <2>1. CASE AckRefused
    BY <1>6, <1>8, <2>1 DEF ReAck
  <2>2. CASE ~ AckRefused
    BY <1>7, <1>8, <2>2 DEF ReAck, TypeOK, CallInv, Ends, N
  <2>3. QED
    BY <2>1, <2>2
<1>9. CASE TakePart
  <2>1. rcount \in Nat /\ Deliver(rcount)
    BY <1>9 DEF TakePart, TypeOK
  <2>2. delivered' \in Seq([from : Nat, to : Nat]) /\ high' \in Nat
    BY <2>1, DeliverType
  <2>3. pc' = [pc EXCEPT !["r"] = "idle"] /\ quota' = quota + rcount
    BY <1>9 DEF TakePart
  <2>4. TypeOK'
    <3>1. quota + rcount \in Nat
      BY <2>1 DEF TypeOK
    <3>2. pc' \in [Ends -> Place]
      BY <2>3 DEF TypeOK, Place
    <3>3. UNCHANGED <<client, net, shorts, writer, rcount, buffer, lastid, tent>>
      BY <1>9 DEF TakePart
    <3>4. QED
      BY <2>2, <2>3, <3>1, <3>2, <3>3 DEF TypeOK, net, writer
  <2>5. pc'["w"] = pc["w"] /\ pc'["r"] = "idle"
    BY <2>3 DEF TypeOK, Ends
  <2>6. UNCHANGED <<count, checkpoint, sended_byte, tent>> /\ pc["r"] # "failed"
    BY <1>9 DEF TakePart
  <2>7. \A e \in Ends : pc'[e] # "failed" => tent'[e] < MAX_TENTATIVI
    BY <2>5, <2>6 DEF CallInv, Ends
  <2>8. CallInv'
    BY <2>5, <2>6, <2>7, CallFrame DEF CallInv
  <2>9. QED
    BY <2>4, <2>8
<1>10. CASE TakeRest
  <2>1. CASE AckRefused
    BY <1>6, <1>10, <2>1 DEF TakeRest
  <2>2. CASE ~ AckRefused
    <3>1. /\ AckWritten /\ lastid' = LastId /\ quota' = 0
          /\ UNCHANGED <<client, last, con, pk, shorts, writer, rcount, buffer, tent>>
          /\ pc["r"] = "take"
          /\ IF quota < buffer.hdr
             THEN Deliver(buffer.hdr - quota) /\ GoTo("r", "idle")
             ELSE /\ GoTo("r", IF quota = buffer.hdr THEN "ripristino" ELSE "killed")
                  /\ UNCHANGED <<delivered, high>>
      BY <1>10, <2>2 DEF TakeRest
    <3>2. lastid' \in Nat \cup {-1}
      BY <1>0, <3>1 DEF LastId
    <3>3. delivered' \in Seq([from : Nat, to : Nat]) /\ high' \in Nat
      <4>1. CASE quota < buffer.hdr
        <5>1. buffer.hdr - quota \in Nat /\ Deliver(buffer.hdr - quota)
          BY <1>0, <3>1, <4>1
        <5>2. QED
          BY <5>1, DeliverType
      <4>2. CASE ~ (quota < buffer.hdr)
        BY <3>1, <4>2 DEF TypeOK
      <4>3. QED
        BY <4>1, <4>2
    <3>4. /\ pc' \in [Ends -> Place] /\ pc'["w"] = pc["w"]
          /\ pc'["r"] \in {"idle", "ripristino", "killed"}
      BY <3>1 DEF TypeOK, Ends
    <3>5. st' \in [Links -> [Ends -> EndState]] /\ ak' \in [Links -> Seq(Nat)]
      BY <1>7, <3>1
    <3>6. TypeOK'
      BY <3>1, <3>2, <3>3, <3>4, <3>5 DEF TypeOK
    <3>7. CallInv'
      BY <3>1, <3>4 DEF TypeOK, CallInv, Ends, N
    <3>8. QED
      BY <3>6, <3>7
  <2>3. QED
    BY <2>1, <2>2
<1>11. QED
  BY <1>1, <1>2, <1>3, <1>4, <1>5, <1>8, <1>9, <1>10 DEF Reader

LEMMA TypeRipristino ==
    ASSUME TypeInv, NEW e \in Ends, Ripristino(e)
    PROVE  TypeInv'
<1> USE DEF TypeInv, net, reader, writer, GoTo, Place
<1>0. /\ Closed(e) \in [Links -> [Ends -> EndState]]
      /\ MAX_TENTATIVI \in Nat \ {0} /\ MaxLinks \in Nat \ {0}
      /\ last \in Links /\ con \in [Ends -> Links]
  BY SocketType, SessionAssumption DEF TypeOK
<1>1. ASSUME pc[e] = "ripristino", Resume(e),
             UNCHANGED <<client, pk, ak, shorts, base, count, checkpoint, sended_byte, reader>>,
             last' \in Links, con' \in [Ends -> Links],
             st' \in [Links -> [Ends -> EndState]]
      PROVE  TypeInv'
  <2>1. /\ pc' = [pc EXCEPT ![e] = IF e = "w" THEN "send" ELSE "load"]
        /\ tent' = [tent EXCEPT ![e] = 0]
        /\ ack' = IF e = "w" THEN 0 ELSE ack
    BY <1>1 DEF Resume
  <2>2. 0 \in 0 .. MAX_TENTATIVI
    BY <1>0
  <2>3. ack' \in Nat /\ tent' \in [Ends -> 0 .. MAX_TENTATIVI] /\ pc' \in [Ends -> Place]
    BY <2>1, <2>2 DEF TypeOK
  <2>4. TypeOK'
    BY <1>1, <2>3 DEF TypeOK
  <2>5. /\ pc'[e] = IF e = "w" THEN "send" ELSE "load"
        /\ \A x \in Ends : x # e => pc'[x] = pc[x] /\ tent'[x] = tent[x]
        /\ tent'[e] = 0
    BY <2>1 DEF TypeOK
  <2>6. \A x \in Ends : pc'[x] # "failed" => tent'[x] < MAX_TENTATIVI
    BY <1>0, <2>5 DEF CallInv
  <2>7. CallInv'
    BY <1>1, <2>5, <2>6, CallFrame DEF CallInv, Ends
  <2>8. QED
    BY <2>4, <2>7
<1>2. ASSUME pc[e] = "ripristino", AttemptFails(e),
             UNCHANGED <<client, pk, ak, shorts, base, count, checkpoint, sended_byte, reader>>,
             UNCHANGED <<last, con>>,
             st' \in [Links -> [Ends -> EndState]]
      PROVE  TypeInv'
  <2>1. tent[e] < MAX_TENTATIVI
    BY <1>2 DEF CallInv
  <2>2. tent[e] \in Nat /\ tent[e] + 1 \in 0 .. MAX_TENTATIVI
    BY <1>0, <2>1 DEF TypeOK
  <2>3. /\ tent' = [tent EXCEPT ![e] = tent[e] + 1] /\ ack' = ack
        /\ tent'[e] = tent[e] + 1 /\ \A x \in Ends : x # e => tent'[x] = tent[x]
    BY <1>2 DEF AttemptFails, TypeOK
  <2>4. pc' = IF tent'[e] = MAX_TENTATIVI THEN [pc EXCEPT ![e] = "failed"] ELSE pc
    BY <1>2 DEF AttemptFails
  <2>5. tent' \in [Ends -> 0 .. MAX_TENTATIVI] /\ pc' \in [Ends -> Place]
    BY <2>2, <2>3, <2>4 DEF TypeOK
  <2>6. TypeOK'
    BY <1>2, <2>3, <2>5 DEF TypeOK
  <2>7. /\ pc'[e] = IF tent'[e] = MAX_TENTATIVI THEN "failed" ELSE "ripristino"
        /\ \A x \in Ends : x # e => pc'[x] = pc[x]
    BY <1>2, <2>4 DEF TypeOK
  <2>8. \A x \in Ends : pc'[x] # "failed" => tent'[x] < MAX_TENTATIVI
    <3> SUFFICES ASSUME NEW x \in Ends, pc'[x] # "failed"
                 PROVE  tent'[x] < MAX_TENTATIVI
      OBVIOUS
    <3>1. CASE x = e
      <4>1. tent'[e] # MAX_TENTATIVI
        BY <2>7, <3>1
      <4>2. tent[e] + 1 # MAX_TENTATIVI
        BY <2>3, <4>1
      <4>3. tent[e] + 1 < MAX_TENTATIVI
        <5>1. \A a, b \in Nat : a < b /\ a + 1 # b => a + 1 < b
          OBVIOUS
        <5>2. QED
          BY <1>0, <2>1, <2>2, <4>2, <5>1
      <4>4. QED
        BY <2>3, <3>1, <4>3
    <3>2. CASE x # e
      BY <2>3, <2>7, <3>2 DEF CallInv
    <3>3. QED
      BY <3>1, <3>2
  <2>9. CallInv'
    BY <1>2, <2>7, <2>8, CallFrame DEF CallInv, Ends
  <2>10. QED
    BY <2>6, <2>9
<1>3. CASE ReConnect(e)
  <2>1. CASE /\ last < MaxLinks /\ last' = last + 1
             /\ con' = [con EXCEPT ![e] = last + 1]
             /\ st' = [Closed(e) EXCEPT ![last + 1] = [x \in Ends |-> "up"]]
             /\ Resume(e)
    <3>1. last' \in Links /\ con' \in [Ends -> Links]
      BY <1>0, <2>1 DEF Links
    <3>2. [x \in Ends |-> "up"] \in [Ends -> EndState]
      BY DEF EndState
    <3>3. st' \in [Links -> [Ends -> EndState]]
      BY <1>0, <2>1, <3>2
    <3>4. QED
      BY <1>1, <1>3, <2>1, <3>1, <3>3 DEF ReConnect
  <2>2. CASE AttemptFails(e) /\ st' = Closed(e) /\ UNCHANGED <<last, con>>
    BY <1>0, <1>2, <1>3, <2>2 DEF ReConnect
  <2>3. QED
    BY <1>3, <2>1, <2>2 DEF ReConnect
<1>4. CASE ReAccept(e)
  <2>1. con' \in [Ends -> Links]
    BY <1>0, <1>4 DEF ReAccept, Links
  <2>2. QED
    BY <1>0, <1>1, <1>4, <2>1 DEF ReAccept
<1>5. CASE SelectTimeout(e)
  BY <1>2, <1>5 DEF SelectTimeout, TypeOK
<1>6. QED
  BY <1>3, <1>4, <1>5 DEF Ripristino

LEMMA TypeReConnectOther ==
    ASSUME TypeInv, NEW e \in Ends, ReConnectOther(e)
    PROVE  TypeInv'
<1> USE DEF TypeInv, net, reader, writer
<1>1. last \in Nat /\ Closed(e) \in [Links -> [Ends -> EndState]]
  BY SMTT(30), SocketType DEF TypeOK, Links
<1>2. last' \in Links /\ con' \in [Ends -> Links] /\ st' \in [Links -> [Ends -> EndState]]
  <2>1. [x \in Ends |-> "up"] \in [Ends -> EndState]
    BY DEF EndState
  <2>2. last < MaxLinks => last + 1 \in Links
    BY <1>1, SessionAssumption DEF Links
  <2>3. CASE UNCHANGED <<last, con>> /\ st' = Closed(e)
    BY <1>1, <2>3 DEF TypeOK
  <2>4. CASE /\ last < MaxLinks /\ last' = last + 1 /\ con' = [con EXCEPT ![e] = last + 1]
             /\ st' = [Closed(e) EXCEPT ![last + 1] = [x \in Ends |-> "up"]]
    BY <1>1, <2>1, <2>2, <2>4 DEF TypeOK
  <2>5. QED
    BY <2>3, <2>4 DEF ReConnectOther
<1>3. TypeOK'
  BY <1>2 DEF ReConnectOther, TypeOK
<1>4. CallInv'
  BY DEF ReConnectOther, CallInv, N
<1>5. QED
  BY <1>3, <1>4

LEMMA TypeCallAgain ==
    ASSUME TypeInv, NEW e \in Ends, CallAgain(e)
    PROVE  TypeInv'
<1> USE DEF TypeInv, net, reader, GoTo, Place
<1>1. MAX_TENTATIVI \in Nat \ {0} /\ 0 \in 0 .. MAX_TENTATIVI
  BY SessionAssumption
<1>2. /\ pc[e] = "failed"
      /\ pc' = [pc EXCEPT ![e] = IF e = "w" THEN "send" ELSE "load"]
      /\ tent' = [tent EXCEPT ![e] = 0]
      /\ ack' = IF e = "w" THEN 0 ELSE ack
      /\ UNCHANGED <<client, net, shorts, base, count, checkpoint, sended_byte, reader>>
  BY DEF CallAgain, Resume
<1>3. TypeOK'
  BY <1>1, <1>2 DEF TypeOK
<1>4. /\ pc'[e] = IF e = "w" THEN "send" ELSE "load"
      /\ \A x \in Ends : x # e => pc'[x] = pc[x] /\ tent'[x] = tent[x]
      /\ tent'[e] = 0
  BY <1>2 DEF TypeOK
<1>5. \A x \in Ends : pc'[x] # "failed" => tent'[x] < MAX_TENTATIVI
  BY <1>1, <1>4 DEF CallInv
<1>6. CallInv'
  BY <1>2, <1>4, <1>5, CallFrame DEF CallInv, Ends
<1>7. QED
  BY <1>3, <1>6

LEMMA TypeBreak ==
    ASSUME TypeInv, Break
    PROVE  TypeInv'
<1> USE DEF TypeInv, reader, writer
<1>1. PICK n \in 0 .. Len(pk[last]), m \in 0 .. Len(ak[last]) :
        /\ pk' = [pk EXCEPT ![last] = SubSeq(@, 1, n)]
        /\ ak' = [ak EXCEPT ![last] = SubSeq(@, 1, m)]
  BY DEF Break
<1>2. pk[last] \in Seq(Packet) /\ ak[last] \in Seq(Nat)
  BY DEF TypeOK
<1>3. SubSeq(pk[last], 1, n) \in Seq(Packet) /\ SubSeq(ak[last], 1, m) \in Seq(Nat)
  BY SMTT(30), <1>2
<1>4. pk' \in [Links -> Seq(Packet)] /\ ak' \in [Links -> Seq(Nat)]
  BY <1>1, <1>3 DEF TypeOK
<1>5. PICK how \in Endings : st' = [st EXCEPT ![last] = how]
  BY DEF Break
<1>6. how \in [Ends -> EndState]
  BY DEF Endings, EndState
<1>7. st' \in [Links -> [Ends -> EndState]]
  BY <1>5, <1>6 DEF TypeOK
<1>8. TypeOK'
  BY <1>4, <1>7 DEF Break, TypeOK
<1>9. CallInv'
  BY DEF Break, CallInv, N
<1>10. QED
  BY <1>8, <1>9

LEMMA TypeStep == TypeInv /\ [Next]_vars => TypeInv'
<1> SUFFICES ASSUME TypeInv, [Next]_vars PROVE TypeInv'
  OBVIOUS
<1>1. CASE UNCHANGED vars
  BY <1>1 DEF TypeInv, TypeOK, CallInv, N, vars, net, reader, writer
<1>2. CASE Stopped
  BY <1>1, <1>2 DEF Stopped
<1>3. CASE Writer
  BY <1>3, TypeWriter
<1>4. CASE Reader
  BY <1>4, TypeReader
<1>5. CASE \E e \in Ends : Ripristino(e)
  BY <1>5, TypeRipristino
<1>6. CASE Break
  BY <1>6, TypeBreak
<1>7. CASE \E e \in Ends : ReConnectOther(e)
  BY <1>7, TypeReConnectOther
<1>8. CASE \E e \in Ends : CallAgain(e)
  BY <1>8, TypeCallAgain
<1>9. QED
  BY <1>1, <1>2, <1>3, <1>4, <1>5, <1>6, <1>7, <1>8 DEF Next

\* Whatever the faults, every field of the record and every local of the calls
\* keeps its type, a Write never gets past its last packet, and what it counts
\* as sent is what its packets hold (TCP_Session.c:805-926).
THEOREM TypeCorrect == Spec => []TypeOK
<1>1. Init => TypeInv
  BY TypeInit
<1>2. TypeInv /\ [Next]_vars => TypeInv'
  BY TypeStep
<1>3. TypeInv => TypeOK
  BY DEF TypeInv
<1>4. QED
  BY <1>1, <1>2, <1>3, PTL DEF Spec

-----------------------------------------------------------------------------
(***************************************************************************)
(* What the proofs of the invariants need of the types and of the sends.   *)
(***************************************************************************)
\* The types the steps below use, read off TypeOK.
LEMMA Types ==
    ASSUME TypeOK
    PROVE  /\ con["w"] \in Links /\ con["r"] \in Links /\ con[client] \in Links
           /\ con["w"] \in Nat /\ con["r"] \in Nat /\ last \in Nat /\ last \in Links
           /\ client \in {"w", "r"} /\ con \in [Ends -> Links]
           /\ \A c \in Links : c \in Nat /\ pk[c] \in Seq(Packet) /\ ak[c] \in Seq(Nat)
           /\ pk \in [Links -> Seq(Packet)] /\ ak \in [Links -> Seq(Nat)]
           /\ st \in [Links -> [Ends -> EndState]]
           /\ pc \in [Ends -> Place]
           /\ base \in Nat /\ count \in Nat /\ checkpoint \in Nat /\ sended_byte \in Nat
           /\ quota \in Nat /\ rcount \in Nat /\ high \in Nat
           /\ cur \in Nat
<1>1. /\ con["w"] \in Links /\ con["r"] \in Links /\ con[client] \in Links
      /\ client \in {"w", "r"} /\ con \in [Ends -> Links] /\ last \in Links
  BY DEF TypeOK, Ends
<1>2. \A c \in Links : c \in Nat
  BY SessionAssumption DEF Links
<1>3. \A c \in Links : pk[c] \in Seq(Packet) /\ ak[c] \in Seq(Nat)
  BY DEF TypeOK
<1>4. base \in Nat /\ sended_byte \in Nat /\ cur \in Nat
  BY DEF TypeOK, cur
<1>5. QED
  BY <1>1, <1>2, <1>3, <1>4 DEF TypeOK

\* A step that leaves the counters of Write alone leaves the packet it is at.
LEMMA SamePacket ==
    ASSUME UNCHANGED <<base, count, checkpoint, sended_byte>>
    PROVE  N' = N /\ Body' = Body /\ NextPacket' = NextPacket /\ cur' = cur
BY DEF N, Body, NextPacket, cur

\* A Write that has packets left is at one of them.
LEMMA AtPacket ==
    ASSUME TypeInv, pc["w"] = "send", checkpoint # N
    PROVE  checkpoint < N /\ Unacked
<1>1. N \in Nat /\ checkpoint \in Nat /\ checkpoint <= N
  <2>1. N \in Nat
    BY NType
  <2>2. checkpoint \in Nat /\ checkpoint <= N
    BY DEF TypeInv, TypeOK, CallInv
  <2>3. QED
    BY <2>1, <2>2
<1> HIDE DEF TypeInv
<1>2. checkpoint < N
  BY <1>1
<1>3. QED
  BY <1>2 DEF Unacked

\* What a send does to the socket it uses: nothing, or it makes a "fin" "dead".
LEMMA SendEffect ==
    ASSUME TypeOK, NEW e \in Ends, AfterSend(e)
    PROVE  /\ st' \in [Links -> [Ends -> EndState]]
           /\ \A c \in Links, x \in Ends :
                \/ st'[c][x] = st[c][x]
                \/ c = con[e] /\ x = e /\ st[c][x] = "fin" /\ st'[c][x] = "dead"
<1>1. st \in [Links -> [Ends -> EndState]] /\ "dead" \in EndState
  BY DEF TypeOK, EndState
<1>2. CASE st' = st
  BY <1>1, <1>2
<1>3. CASE Sock(e) = "fin" /\ st' = Put(e, "dead")
  BY <1>1, <1>3, PutType DEF Sock
<1>4. QED
  BY <1>2, <1>3 DEF AfterSend
=============================================================================

--------------------------- MODULE SessionSafety ---------------------------
(***************************************************************************)
(* The proof that IInv is an invariant of Session when connections end     *)
(* with a FIN and no read is short, and what follows from it.              *)
(***************************************************************************)
EXTENDS SessionProofs, SequenceTheorems

\* The parts of IInv that TypeStep does not already give.
Core ==
    /\ shorts = 0 /\ pc["r"] # "killed"
    /\ LinkInv /\ FlightInv /\ PhaseInv /\ HoldInv

\* Between two packets nothing is in flight and nothing is half read.
LEMMA Quiet ==
    ASSUME TypeInv, Core, ~ Unacked
    PROVE  /\ \A c \in Links : pk[c] = <<>> /\ ak[c] = <<>>
           /\ ~ Holding /\ quota = 0 /\ high = cur /\ ~ Consumed /\ pc["r"] # "dup"
           /\ lastid = IF pc["w"] = "idle" THEN checkpoint - 1 ELSE -1
<1>1. ~ Consumed /\ ~ Holding
  BY DEF Consumed, Core, HoldInv
<1>2. \A c \in Links : pk[c] = <<>> /\ ak[c] = <<>>
  BY <1>1 DEF Core, FlightInv, PhaseInv
<1>3. quota = 0 /\ pc["r"] # "dup"
  BY <1>1 DEF Holding
<1>4. high = cur + 0 /\ lastid = IF pc["w"] = "idle" THEN checkpoint - 1 ELSE -1
  BY <1>1, <1>3 DEF Core, PhaseInv, Fresh
<1>5. cur \in Nat
  BY Types DEF TypeInv
<1>6. QED
  BY <1>1, <1>2, <1>3, <1>4, <1>5

LEMMA SafeCallWrite ==
    ASSUME TypeInv, Core, NEW n \in WriteCounts, CallWrite(n), TypeInv'
    PROVE  Core'
<1> USE DEF GoTo, net, reader
<1>1. ~ Unacked /\ pc["w"] = "idle" /\ pc \in [Ends -> Place]
  BY DEF CallWrite, Unacked, TypeInv, TypeOK
<1>2. /\ \A c \in Links : pk[c] = <<>> /\ ak[c] = <<>>
      /\ ~ Holding /\ quota = 0 /\ high = cur /\ lastid = checkpoint - 1 /\ pc["r"] # "dup"
  BY <1>1, Quiet
<1>3. /\ pc'["w"] = "send" /\ pc'["r"] = pc["r"]
      /\ UNCHANGED <<client, last, con, pk, ak, st, shorts, base, checkpoint, sended_byte,
                     rcount, quota, buffer, lastid, delivered, high, tent>>
      /\ count' = n
  BY <1>1 DEF CallWrite, Ends
<1>4. checkpoint = 0 /\ cur' = cur /\ count' > 0 /\ count' \in Nat
  BY <1>1, <1>3, SessionAssumption DEF TypeInv, CallInv, cur
<1>5. N' \in Nat \ {0} /\ Body' \in 1 .. PKT_DIM
  BY <1>3, <1>4, PktNumber, BodyBytes DEF N, Body
<1>6. Unacked'
  BY <1>3, <1>4, <1>5 DEF Unacked
<1>7. ~ Holding'
  BY <1>2, <1>3 DEF Holding
<1>8. LinkInv'
  BY <1>3, Types DEF Core, LinkInv, Queue, Sock, Ends, TypeInv
<1>9. FlightInv'
  BY <1>2, <1>3, Types DEF Core, FlightInv, TypeInv
<1>10. Fresh'
  BY <1>2, <1>3, <1>4, <1>6, Types DEF Fresh, TypeInv
<1>11. ~ Consumed'
  BY <1>2, <1>3, <1>4, <1>5, PktDimAssumption, Types DEF Consumed, TypeInv
<1>12. PhaseInv'
  BY <1>2, <1>3, <1>10 DEF PhaseInv
<1>13. HoldInv'
  BY <1>2, <1>3, <1>7, <1>11 DEF Core, HoldInv, Holding
<1>14. QED
  BY <1>3, <1>8, <1>9, <1>12, <1>13 DEF Core

LEMMA SafeSendPacket ==
    ASSUME TypeInv, Core, SendPacket, TypeInv'
    PROVE  Core'
<1> USE DEF GoTo, net, reader, writer
<1>1. /\ pc["w"] = "send" /\ checkpoint < N /\ Unacked /\ pc \in [Ends -> Place]
  BY AtPacket DEF SendPacket, TypeInv, TypeOK
<1>2. /\ pc'["w"] = "ack" /\ pc'["r"] = pc["r"] /\ ~ Sending'
      /\ UNCHANGED <<client, last, con, ak, shorts, base, count, checkpoint, sended_byte,
                     rcount, quota, buffer, lastid, delivered, high, tent>>
  BY <1>1 DEF SendPacket, Ends, Sending
<1>3. /\ N' = N /\ Body' = Body /\ NextPacket' = NextPacket /\ cur' = cur
      /\ Holding' = Holding /\ Unacked' /\ Consumed' = Consumed /\ Fresh' = Fresh
  BY <1>1, <1>2, SamePacket DEF Holding, Unacked, Consumed, Fresh
<1>4. \A c \in Links : ak[c] = <<>>
  BY <1>1 DEF Core, FlightInv
<1>5. /\ st' \in [Links -> [Ends -> EndState]]
      /\ \A c \in Links, x \in Ends :
           \/ st'[c][x] = st[c][x]
           \/ c = con["w"] /\ x = "w" /\ st[c][x] = "fin" /\ st'[c][x] = "dead"
  BY SendEffect DEF TypeInv, SendPacket, Ends
<1>6. /\ Sock("w") = "up" => pk[con["w"]] = <<>>
      /\ \A c \in Links : pk'[c] = IF c = con["w"] /\ Sock("w") = "up" THEN <<NextPacket>> ELSE pk[c]
  <2>1. /\ Sock("w") = "up" => pk[con["w"]] = <<>>
        /\ con["w"] \in Links /\ pk \in [Links -> Seq(Packet)]
    BY <1>1, Types DEF Core, FlightInv, Sending, TypeInv
  <2>2. Append(<<>>, NextPacket) = <<NextPacket>>
    OBVIOUS
  <2>3. pk' = IF Sock("w") = "up" THEN [pk EXCEPT ![con["w"]] = Append(@, NextPacket)] ELSE pk
    BY DEF SendPacket, Sent
  <2>4. QED
    BY <2>1, <2>2, <2>3
<1>7. /\ Sock("w") = "up" => con["r"] <= con["w"] /\ Sock("w") = st[con["w"]]["r"]
      /\ con["w"] \in Links /\ con["r"] \in Links
  BY SMTT(30), Types DEF Core, LinkInv, Sock, TypeInv, Ends
<1>8. LinkInv'
  <2>1. \A c \in Links :
         /\ c <= last <=> st'[c]["w"] # "none"
         /\ c <= last <=> st'[c]["r"] # "none"
         /\ st'[c]["w"] = "up" <=> st'[c]["r"] = "up"
         /\ st'[c]["w"] # "rst" /\ st'[c]["r"] # "rst"
         /\ \A e \in Ends : c < con[e] => st'[c][e] # "up"
    BY <1>5 DEF Core, LinkInv, Sock, Ends
  <2>2. \A c \in Links : st'[c]["r"] = "dead" => pk'[c] = <<>>
    BY <1>5, <1>6, <1>7 DEF Core, LinkInv, Ends
  <2>3. \A e \in Ends : pc'[e] \in {"ripristino", "failed"} =>
           Queue(e)' = <<>> /\ Sock(e)' \in {"fin", "dead"}
    <3>1. CASE pc["r"] \in {"ripristino", "failed"}
      <4>1. pk[con["r"]] = <<>> /\ st[con["r"]]["r"] \in {"fin", "dead"}
        BY <3>1 DEF Core, LinkInv, Queue, Sock, Ends
      <4>2. pk'[con["r"]] = <<>>
        BY <1>6, <1>7, <4>1
      <4>3. st'[con["r"]]["r"] \in {"fin", "dead"}
        BY <1>5, <1>7, <4>1 DEF Ends
      <4>4. QED
        BY <1>2, <4>2, <4>3 DEF Queue, Sock, Ends
    <3>2. QED
      BY <1>2, <3>1 DEF Ends
  <2>4. QED
    BY <1>2, <2>1, <2>2, <2>3 DEF Core, LinkInv
<1>9. FlightInv'
  <2>1. \A c \in Links : pk'[c] # <<>> =>
         pk'[c] = <<NextPacket>> /\ con["r"] <= c /\ c <= con["w"]
    <3> SUFFICES ASSUME NEW c \in Links, pk'[c] # <<>>
                 PROVE  pk'[c] = <<NextPacket>> /\ con["r"] <= c /\ c <= con["w"]
      OBVIOUS
    <3>1. CASE c = con["w"] /\ Sock("w") = "up"
      BY SMTT(30), <1>6, <1>7, <3>1, Types DEF TypeInv
    <3>2. CASE ~ (c = con["w"] /\ Sock("w") = "up")
      BY <1>6, <3>2 DEF Core, FlightInv
    <3>3. QED
      BY <3>1, <3>2
  <2>2. QED
    BY <1>2, <1>3, <1>4, <2>1 DEF FlightInv
<1>10. PhaseInv'
  BY <1>2, <1>3, <1>4 DEF Core, PhaseInv
<1>11. HoldInv'
  <2>1. Holding => con["r"] # con["w"] \/ Sock("w") # "up"
    BY <1>1 DEF Core, HoldInv, Sending
  <2>2. pc["r"] = "reload" /\ Consumed => con["r"] # con["w"] \/ Sock("w") # "up"
    BY <1>1 DEF Core, HoldInv, Sending
  <2>3. con["r"] # con["w"] \/ Sock("w") # "up" => pk'[con["r"]] = pk[con["r"]]
    BY <1>6, <1>7
  <2>4. Holding => Sock("r")' \in {"up", "fin"}
    BY <1>2, <1>5, <1>7 DEF Core, HoldInv, Sock, Ends
  <2>5. QED
    BY <1>2, <1>3, <2>1, <2>2, <2>3, <2>4 DEF Core, HoldInv
<1>12. QED
  BY <1>2, <1>8, <1>9, <1>10, <1>11 DEF Core

LEMMA SafeSendFails ==
    ASSUME TypeInv, Core, SendFails, TypeInv'
    PROVE  Core'
<1> USE DEF GoTo, net, reader, writer
<1>1. /\ pc["w"] = "send" /\ checkpoint < N /\ Unacked /\ pc \in [Ends -> Place]
  BY AtPacket DEF SendFails, TypeInv, TypeOK
<1>2. /\ pc'["w"] = "ripristino" /\ pc'["r"] = pc["r"] /\ ~ Sending'
      /\ UNCHANGED <<client, last, con, pk, ak, shorts, base, count, checkpoint, sended_byte,
                     rcount, quota, buffer, lastid, delivered, high, tent>>
  BY <1>1 DEF SendFails, Ends, Sending
<1>3. /\ N' = N /\ Body' = Body /\ NextPacket' = NextPacket /\ cur' = cur
      /\ Holding' = Holding /\ Unacked' /\ Consumed' = Consumed /\ Fresh' = Fresh
  BY <1>1, <1>2, SamePacket DEF Holding, Unacked, Consumed, Fresh
<1>4. \A c \in Links : ak[c] = <<>>
  BY <1>1 DEF Core, FlightInv
<1>5. st' = st /\ Sock("w") \in {"fin", "dead"}
  BY Types DEF Core, LinkInv, SendFails, SendAccepted, ErrorReported, Sock, Ends, EndState, TypeInv, TypeOK
<1>6. LinkInv'
  BY <1>1, <1>2, <1>4, <1>5, Types DEF Core, LinkInv, FlightInv, Queue, Sock, Ends, TypeInv
<1>7. FlightInv'
  BY <1>2, <1>3, <1>4 DEF Core, FlightInv
<1>8. PhaseInv'
  BY <1>2, <1>3, <1>4 DEF Core, PhaseInv
<1>9. HoldInv'
  BY <1>1, <1>2, <1>3, <1>5 DEF Core, HoldInv, Sock
<1>10. QED
  BY <1>2, <1>6, <1>7, <1>8, <1>9 DEF Core

LEMMA SafeAckEof ==
    ASSUME TypeInv, Core, AckEof, TypeInv'
    PROVE  Core'
<1> USE DEF GoTo, net, reader, writer
<1>1. /\ pc["w"] = "ack" /\ pc \in [Ends -> Place] /\ Queue("w") = <<>>
      /\ Sock("w") \in {"fin", "dead"}
  BY DEF AckEof, AtEof, TypeInv, TypeOK
<1>2. /\ pc'["w"] = "ripristino" /\ pc'["r"] = pc["r"] /\ ~ Sending'
      /\ UNCHANGED <<client, last, con, pk, ak, st, shorts, base, count, checkpoint, sended_byte,
                     rcount, quota, buffer, lastid, delivered, high, tent>>
  BY <1>1 DEF AckEof, Ends, Sending
<1>3. /\ N' = N /\ Body' = Body /\ NextPacket' = NextPacket /\ cur' = cur
      /\ Holding' = Holding /\ Unacked' = Unacked /\ Consumed' = Consumed /\ Fresh' = Fresh
  BY <1>1, <1>2, SamePacket DEF Holding, Unacked, Consumed, Fresh
<1>4. \A c \in Links : ak[c] = <<>>
  BY <1>1 DEF Core, FlightInv, Queue
<1>5. LinkInv'
  BY <1>1, <1>2, Types DEF Core, LinkInv, Queue, Sock, Ends, TypeInv
<1>6. FlightInv'
  BY <1>2, <1>3, <1>4 DEF Core, FlightInv
<1>7. PhaseInv'
  BY <1>2, <1>3 DEF Core, PhaseInv
<1>8. HoldInv'
  BY <1>1, <1>2, <1>3 DEF Core, HoldInv, Sock
<1>9. QED
  BY <1>2, <1>5, <1>6, <1>7, <1>8 DEF Core

LEMMA SafeReadAck ==
    ASSUME TypeInv, Core, ReadAck, TypeInv'
    PROVE  Core'
<1> USE DEF GoTo, net, reader, writer
<1>1. /\ pc["w"] = "ack" /\ pc \in [Ends -> Place] /\ ak[con["w"]] # <<>>
      /\ con["w"] \in Links /\ con["r"] \in Links
  BY Types DEF ReadAck, Queue, TypeInv, TypeOK
<1>2. /\ ak[con["w"]] = <<checkpoint>> /\ Consumed /\ Unacked /\ checkpoint < N
      /\ con["w"] <= con["r"] /\ pk[con["w"]] = <<>> /\ ~ Holding /\ quota = 0
  <2>1. ak[con["w"]] = <<checkpoint>> /\ Consumed /\ con["w"] <= con["r"]
        /\ pk[con["w"]] = <<>> /\ ~ Holding
    BY <1>1 DEF Core, FlightInv, PhaseInv
  <2>2. QED
    BY <2>1 DEF Holding, Consumed, Unacked
<1>3. \A c \in Links : pk[c] = <<>>
  <2> SUFFICES ASSUME NEW c \in Links, pk[c] # <<>> PROVE FALSE
    OBVIOUS
  <2>1. con["r"] <= c /\ c <= con["w"]
    BY DEF Core, FlightInv
  <2>2. con["w"] \in Nat /\ con["r"] \in Nat /\ c \in Nat
    BY Types DEF TypeInv
  <2>3. c = con["w"]
    BY <1>2, <2>1, <2>2
  <2>4. QED
    BY <1>2, <2>3
<1>4. /\ ack' = checkpoint
      /\ \A c \in Links : ak'[c] = <<>>
  <2>1. ak' = [ak EXCEPT ![con["w"]] = Tail(@)] /\ ack' = Head(ak[con["w"]])
    BY DEF ReadAck, Queue
  <2>2. Head(<<checkpoint>>) = checkpoint /\ Tail(<<checkpoint>>) = <<>>
    BY Types DEF TypeInv
  <2>3. \A c \in Links : c # con["w"] => ak[c] = <<>>
    BY DEF Core, FlightInv
  <2>4. QED
    BY <1>1, <1>2, <2>1, <2>2, <2>3, Types DEF TypeInv
<1>5. /\ pc'["w"] = "send" /\ pc'["r"] = pc["r"]
      /\ UNCHANGED <<client, last, con, pk, st, shorts, base, count,
                     rcount, quota, buffer, lastid, delivered, high, tent>>
      /\ checkpoint' = checkpoint + 1 /\ sended_byte' = sended_byte + Body
  BY <1>1, <1>4 DEF ReadAck, AckTest, Ends
<1>6. N' = N /\ N \in Nat /\ Body \in Nat /\ checkpoint \in Nat
  BY <1>2, <1>5, NextPacketType, Types, PktDimAssumption DEF N, Unacked, TypeInv
<1>7. cur' = cur + Body /\ cur' \in Nat /\ high = cur'
  <2>1. base \in Nat /\ sended_byte \in Nat /\ high = base + sended_byte + Body
    BY <1>2, Types DEF Consumed, cur, TypeInv
  <2>2. cur' = base + (sended_byte + Body)
    BY <1>5 DEF cur
  <2> HIDE DEF TypeInv, Core
  <2>3. QED
    BY <1>6, <2>1, <2>2 DEF cur
<1>8. lastid = IF checkpoint = N - 1 THEN -1 ELSE checkpoint
  BY <1>2 DEF Consumed
<1>9. Unacked' <=> checkpoint + 1 < N
  BY <1>5, <1>6 DEF Unacked
<1>10. Fresh'
  <2>1. lastid = IF Unacked' THEN (checkpoint + 1) - 1 ELSE -1
    BY <1>2, <1>6, <1>8, <1>9
  <2>2. high = cur' + 0
    BY <1>7
  <2>3. QED
    BY <1>2, <1>5, <2>1, <2>2 DEF Fresh
<1>11. ~ Consumed'
  <2>1. ASSUME Unacked' PROVE Body' \in 1 .. PKT_DIM
    <3>1. checkpoint + 1 \in Nat /\ checkpoint + 1 < get_pkt_number(count)
          /\ count \in Nat /\ count > 0
      BY <1>1, <1>6, <1>9, <2>1, Types DEF N, TypeInv, CallInv
    <3>2. QED
      BY <1>5, <3>1, BodyBytes DEF Body
  <2>2. QED
    BY <1>5, <1>7, <2>1, PktDimAssumption DEF Consumed
<1>12. ~ Holding' /\ quota' = 0
  BY <1>2, <1>5 DEF Holding
<1>13. LinkInv'
  BY <1>3, <1>4, <1>5 DEF Core, LinkInv, Queue, Sock, Ends
<1>14. FlightInv'
  BY <1>1, <1>3, <1>4, <1>5 DEF FlightInv
<1>15. PhaseInv'
  BY <1>4, <1>10 DEF PhaseInv
<1>16. HoldInv'
  BY <1>5, <1>2, <1>11, <1>12 DEF Core, HoldInv, Holding
<1>17. QED
  BY <1>5, <1>13, <1>14, <1>15, <1>16 DEF Core

LEMMA NoReset ==
    ASSUME TypeInv, Core, NEW e \in Ends
    PROVE  ~ AtReset(e)
BY Types DEF Core, LinkInv, AtReset, Sock, TypeInv, Ends

LEMMA SafeReturn ==
    ASSUME TypeInv, Core, ReturnFromWrite, TypeInv'
    PROVE  Core'
<1> USE DEF GoTo, net, reader, writer
<1>1. /\ pc["w"] = "send" /\ checkpoint = N /\ pc \in [Ends -> Place] /\ N \in Nat /\ ~ Unacked
      /\ sended_byte = count
  BY NType DEF ReturnFromWrite, TypeInv, TypeOK, CallInv, Unacked
<1>2. /\ \A c \in Links : pk[c] = <<>> /\ ak[c] = <<>>
      /\ ~ Holding /\ quota = 0 /\ high = cur /\ lastid = -1 /\ pc["r"] # "dup"
  BY <1>1, Quiet
<1>3. /\ pc'["w"] = "idle" /\ pc'["r"] = pc["r"] /\ ~ Sending'
      /\ UNCHANGED <<client, last, con, pk, ak, st, shorts, count,
                     rcount, quota, buffer, lastid, delivered, high, tent>>
      /\ checkpoint' = 0 /\ sended_byte' = 0 /\ base' = base + sended_byte
  BY <1>1 DEF ReturnFromWrite, Ends, Sending
<1>4. cur' = cur /\ ~ Holding' /\ ~ Unacked' /\ ~ Consumed'
  BY <1>2, <1>3, Types DEF cur, Holding, Unacked, Consumed, TypeInv
<1>5. Fresh'
  <2>1. high = cur' + 0 /\ 0 - 1 = -1
    BY <1>2, <1>4, Types DEF TypeInv
  <2>2. QED
    BY <1>2, <1>3, <2>1 DEF Fresh
<1>6. LinkInv'
  BY <1>3 DEF Core, LinkInv, Queue, Sock, Ends
<1>7. FlightInv'
  BY <1>2, <1>3 DEF FlightInv
<1>8. PhaseInv'
  BY <1>2, <1>3, <1>5 DEF PhaseInv
<1>9. HoldInv'
  BY <1>2, <1>3, <1>4 DEF Core, HoldInv, Holding
<1>10. QED
  BY <1>3, <1>6, <1>7, <1>8, <1>9 DEF Core

LEMMA SafeWriter ==
    ASSUME TypeInv, Core, Writer, TypeInv'
    PROVE  Core'
<1>1. ~ AckReset
  BY NoReset DEF AckReset, Ends
<1>2. QED
  BY <1>1, SafeCallWrite, SafeSendPacket, SafeSendFails, SafeReadAck, SafeAckEof, SafeReturn
     DEF Writer

\* The writer's side of the invariant does not see a step of the reader.
LEMMA ReaderFrame ==
    ASSUME UNCHANGED <<base, count, checkpoint, sended_byte>>, pc'["w"] = pc["w"]
    PROVE  N' = N /\ Body' = Body /\ NextPacket' = NextPacket /\ cur' = cur /\ Unacked' = Unacked
BY SamePacket DEF Unacked

\* Nor does whether the writer may send depend on the reader's own socket.
LEMMA SendingFrame ==
    ASSUME pc'["w"] = pc["w"], con' = con, st'[con["w"]]["w"] = st[con["w"]]["w"]
    PROVE  Sending' = Sending
BY DEF Sending, Sock

LEMMA SafeCallRead ==
    ASSUME TypeInv, Core, NEW n \in ReadCounts, CallRead(n), TypeInv'
    PROVE  Core'
<1> USE DEF GoTo, net, reader, writer
<1>1. pc["r"] = "idle" /\ pc \in [Ends -> Place]
  BY DEF CallRead, TypeInv, TypeOK
<1>2. /\ pc'["r"] = "load" /\ pc'["w"] = pc["w"]
      /\ UNCHANGED <<client, last, con, pk, ak, st, shorts, base, count, checkpoint, sended_byte,
                     quota, buffer, lastid, delivered, high, tent>>
  BY <1>1 DEF CallRead, Ends
<1>3. /\ N' = N /\ Body' = Body /\ NextPacket' = NextPacket /\ cur' = cur /\ Unacked' = Unacked
      /\ Holding' = Holding /\ Consumed' = Consumed /\ Fresh' = Fresh
      /\ Sending' = Sending
  BY <1>1, <1>2, ReaderFrame, SendingFrame DEF Holding, Consumed, Fresh
<1>4. LinkInv'
  BY <1>1, <1>2, Types DEF Core, LinkInv, Queue, Sock, Ends, TypeInv
<1>5. FlightInv'
  BY <1>2, <1>3 DEF Core, FlightInv
<1>6. PhaseInv'
  BY <1>2, <1>3 DEF Core, PhaseInv
<1>7. HoldInv'
  BY <1>1, <1>2, <1>3 DEF Core, HoldInv, Sock
<1>8. QED
  BY <1>2, <1>4, <1>5, <1>6, <1>7 DEF Core

LEMMA SafeReadPacket ==
    ASSUME TypeInv, Core, ReadPacket, TypeInv'
    PROVE  Core'
<1> USE DEF GoTo, net, reader, writer
<1>1. /\ pc["r"] \in {"load", "reload"} /\ quota = 0 /\ pc \in [Ends -> Place]
      /\ pk[con["r"]] # <<>> /\ con["r"] \in Links /\ con["w"] \in Links
      /\ con["r"] \in Nat /\ con["w"] \in Nat
  BY Types DEF ReadPacket, Loading, Queue, TypeInv, TypeOK, Core, HoldInv, Ends
<1>2. /\ pk[con["r"]] = <<NextPacket>> /\ Unacked /\ con["r"] <= con["w"]
  BY <1>1 DEF Core, FlightInv
<1>3. /\ pc'["r"] \in {"dup", "take"} /\ pc'["w"] = pc["w"]
      /\ pc'["r"] = IF pc["r"] = "reload" THEN "take" ELSE AfterHeader(buffer')
      /\ UNCHANGED <<client, last, con, ak, st, shorts, base, count, checkpoint, sended_byte,
                     quota, lastid, delivered, high, tent>>
  BY <1>1 DEF ReadPacket, Ends, AfterHeader
<1>4. /\ N' = N /\ Body' = Body /\ NextPacket' = NextPacket /\ cur' = cur /\ Unacked' = Unacked
      /\ Consumed' = Consumed /\ Fresh' = Fresh /\ Sending' = Sending
  BY <1>1, <1>3, ReaderFrame, SendingFrame DEF Consumed, Fresh
<1>5. /\ buffer' = NextPacket
      /\ \A c \in Links : pk'[c] = IF c = con["r"] THEN <<>> ELSE pk[c]
  <2>1. Head(<<NextPacket>>) = NextPacket /\ Tail(<<NextPacket>>) = <<>>
    OBVIOUS
  <2>2. buffer' = Head(pk[con["r"]]) /\ pk' = [pk EXCEPT ![con["r"]] = Tail(@)]
    BY DEF ReadPacket, Queue
  <2>3. QED
    BY <1>1, <1>2, <2>1, <2>2, Types DEF TypeInv
<1>6. /\ Body \in Nat \ {0} /\ checkpoint \in Nat /\ checkpoint < N /\ N \in Nat
      /\ NextPacket.id = checkpoint
  <2>1. Body \in 1 .. PKT_DIM
    BY <1>2, NextPacketType DEF Unacked, TypeInv
  <2>2. PKT_DIM \in Nat
    BY PktDimAssumption
  <2>3. checkpoint \in Nat /\ N \in Nat
    BY <1>2, NType, Types DEF TypeInv, Unacked
  <2>4. checkpoint < N /\ NextPacket.id = checkpoint
    BY <1>2 DEF Unacked, NextPacket
  <2>5. \A b \in 1 .. PKT_DIM : b \in Nat \ {0}
    BY <2>2
  <2>6. QED
    BY <2>1, <2>3, <2>4, <2>5
<1>7. \A c \in Links : ak[c] = <<>>
  <2> SUFFICES ASSUME NEW c \in Links, ak[c] # <<>> PROVE FALSE
    OBVIOUS
  <2>1. c = con["w"] /\ con["w"] <= con["r"] /\ pk[c] = <<>>
    BY DEF Core, FlightInv
  <2>2. con["w"] = con["r"]
    BY <1>1, <1>2, <2>1
  <2>3. QED
    BY <1>1, <2>1, <2>2
<1>8. Sock("r") \in {"up", "fin"} /\ (con["r"] = con["w"] => ~ Sending)
  BY <1>1, Types DEF Core, LinkInv, FlightInv, Sock, Ends, EndState, TypeInv
<1>9. pc'["r"] = "dup" => Consumed /\ checkpoint # N - 1
  <2> SUFFICES ASSUME pc'["r"] = "dup" PROVE Consumed /\ checkpoint # N - 1
    OBVIOUS
  <2>1. lastid = checkpoint
    BY <1>3, <1>5, <1>6 DEF AfterHeader
  <2>2. ~ Fresh
    BY <1>2, <1>6, <2>1 DEF Fresh
  <2>3. QED
    BY <1>6, <2>1, <2>2 DEF Core, PhaseInv, Consumed
<1>10. pc'["r"] = "take" /\ Consumed => checkpoint = N - 1
  <2>1. CASE pc["r"] = "reload"
    BY <1>1, <2>1 DEF Core, HoldInv
  <2>2. CASE pc["r"] # "reload"
    BY <1>3, <1>5, <1>6, <2>2 DEF AfterHeader, Consumed
  <2>3. QED
    BY <2>1, <2>2
<1>11. LinkInv'
  <2>1. \A e \in Ends : pc'[e] \in {"ripristino", "failed"} =>
           Queue(e)' = <<>> /\ Sock(e)' \in {"fin", "dead"}
    BY <1>3 DEF Core, LinkInv, Queue, Sock, Ends
  <2>2. QED
    BY <1>3, <1>5, <2>1 DEF Core, LinkInv
<1>12. FlightInv'
  BY <1>1, <1>3, <1>4, <1>5, <1>7 DEF Core, FlightInv
<1>13. PhaseInv'
  BY <1>3, <1>4 DEF Core, PhaseInv
<1>14. HoldInv'
  <2>1. Sock("r")' = Sock("r") /\ pk'[con["r"]] = <<>> /\ 0 < Body
    BY <1>1, <1>3, <1>5, <1>6 DEF Sock
  <2>2. QED
    BY <1>1, <1>2, <1>3, <1>4, <1>5, <1>8, <1>9, <1>10, <2>1 DEF HoldInv
<1>15. QED
  BY <1>3, <1>11, <1>12, <1>13, <1>14 DEF Core

LEMMA SafeReadBuffered ==
    ASSUME TypeInv, Core, ReadBuffered, TypeInv'
    PROVE  Core'
<1> USE DEF GoTo, net, reader, writer
<1>1. pc["r"] = "load" /\ quota # 0 /\ Holding /\ pc \in [Ends -> Place]
  BY DEF ReadBuffered, Holding, TypeInv, TypeOK
<1>2. /\ buffer.id = checkpoint /\ checkpoint \in Nat /\ Unacked
      /\ Consumed => checkpoint = N - 1
  BY <1>1, Types DEF Core, HoldInv, NextPacket, TypeInv
<1>3. lastid # checkpoint
  <2>1. Fresh => lastid = checkpoint - 1
    BY <1>2 DEF Fresh
  <2>2. Consumed => lastid = -1
    BY <1>2 DEF Consumed
  <2>3. QED
    BY <1>2, <2>1, <2>2 DEF Core, PhaseInv
<1>4. /\ pc'["r"] = "take" /\ pc'["w"] = pc["w"]
      /\ UNCHANGED <<client, last, con, pk, ak, st, shorts, base, count, checkpoint, sended_byte,
                     rcount, quota, buffer, lastid, delivered, high, tent>>
  BY <1>1, <1>2, <1>3 DEF ReadBuffered, AfterHeader, Ends
<1>5. /\ N' = N /\ Body' = Body /\ NextPacket' = NextPacket /\ cur' = cur /\ Unacked' = Unacked
      /\ Holding' /\ Consumed' = Consumed /\ Fresh' = Fresh
      /\ Sending' = Sending
  BY <1>1, <1>4, ReaderFrame, SendingFrame DEF Holding, Consumed, Fresh
<1>6. LinkInv'
  BY <1>1, <1>4, Types DEF Core, LinkInv, Queue, Sock, Ends, TypeInv
<1>7. FlightInv'
  BY <1>1, <1>4, <1>5 DEF Core, FlightInv
<1>8. PhaseInv'
  BY <1>4, <1>5 DEF Core, PhaseInv
<1>9. HoldInv'
  BY <1>1, <1>4, <1>5 DEF Core, HoldInv, Sock
<1>10. QED
  BY <1>4, <1>6, <1>7, <1>8, <1>9 DEF Core

LEMMA SafeReadBroken ==
    ASSUME TypeInv, Core, ReadBroken, TypeInv'
    PROVE  Core'
<1> USE DEF GoTo, net, reader, writer
<1>1. /\ pc["r"] \in {"load", "reload"} /\ quota = 0 /\ pc \in [Ends -> Place]
      /\ AtEof("r")
  BY NoReset DEF ReadBroken, Loading, TypeInv, TypeOK, Core, HoldInv, Ends
<1>2. /\ pc'["r"] = "ripristino" /\ pc'["w"] = pc["w"] /\ st' = st
      /\ UNCHANGED <<client, last, con, pk, ak, shorts, base, count, checkpoint, sended_byte,
                     rcount, quota, buffer, lastid, delivered, high, tent>>
  BY <1>1 DEF ReadBroken, Ends, ErrorReported, AtEof
<1>3. /\ N' = N /\ Body' = Body /\ NextPacket' = NextPacket /\ cur' = cur /\ Unacked' = Unacked
      /\ ~ Holding /\ ~ Holding' /\ Consumed' = Consumed /\ Fresh' = Fresh
      /\ Sending' = Sending
  BY <1>1, <1>2, ReaderFrame, SendingFrame DEF Holding, Consumed, Fresh
<1>4. LinkInv'
  BY <1>1, <1>2 DEF Core, LinkInv, Queue, Sock, Ends, AtEof
<1>5. FlightInv'
  BY <1>2, <1>3 DEF Core, FlightInv
<1>6. PhaseInv'
  BY <1>2, <1>3 DEF Core, PhaseInv
<1>7. HoldInv'
  BY <1>1, <1>2, <1>3 DEF Core, HoldInv
<1>8. QED
  BY <1>2, <1>4, <1>5, <1>6, <1>7 DEF Core

\* Writing the ack of the packet the reader holds: the socket takes it, and it
\* is on its way only if the writer waits for it on the same connection.
LEMMA AckEffect ==
    ASSUME TypeInv, Core, pc["r"] \in {"dup", "take"}
    PROVE  /\ ~ AckRefused
           /\ AckWritten =>
                /\ \A c \in Links :
                     /\ ak'[c] # <<>> => ak'[c] = <<checkpoint>> /\ c = con["w"]
                     /\ ak'[c] # <<>> => con["w"] <= con["r"] /\ pc["w"] = "ack" /\ pk[c] = <<>>
                /\ st' \in [Links -> [Ends -> EndState]]
                /\ \A c \in Links, x \in Ends :
                     \/ st'[c][x] = st[c][x]
                     \/ c = con["r"] /\ x = "r" /\ st[c][x] = "fin" /\ st'[c][x] = "dead"
<1>1. Holding
  BY DEF Holding
<1>2. /\ buffer.id = checkpoint /\ Unacked /\ con["r"] <= con["w"]
      /\ con["r"] = con["w"] => ~ Sending
      /\ pk[con["r"]] = <<>> /\ Sock("r") \in {"up", "fin"}
  BY <1>1 DEF Core, HoldInv, NextPacket
<1>3. ~ AckRefused
  BY <1>2 DEF AckRefused, SendAccepted
<1>4. /\ con["r"] \in Links /\ con["w"] \in Links /\ con["r"] \in Nat /\ con["w"] \in Nat
      /\ ak \in [Links -> Seq(Nat)] /\ checkpoint \in Nat
  BY Types DEF TypeInv
<1>5. \A c \in Links : ak[c] = <<>>
  BY <1>1 DEF Core, FlightInv
<1>6. Sock("r") = "up" => con["r"] = con["w"] /\ pc["w"] = "ack"
  <2> SUFFICES ASSUME Sock("r") = "up" PROVE con["r"] = con["w"] /\ pc["w"] = "ack"
    OBVIOUS
  <2>1. st[con["r"]]["w"] = "up"
    BY <1>4 DEF Core, LinkInv, Sock
  <2>2. ~ (con["r"] < con["w"])
    BY <1>4, <2>1 DEF Core, LinkInv, Ends
  <2>3. con["r"] = con["w"]
    BY <1>2, <1>4, <2>2
  <2>4. pc["w"] \notin {"ripristino", "failed"}
    BY <2>1, <2>3 DEF Core, LinkInv, Sock, Ends
  <2>5. pc["w"] # "send"
    BY <1>2, <2>1, <2>3 DEF Sending, Sock
  <2>6. QED
    BY <1>2, <2>3, <2>4, <2>5 DEF TypeInv, CallInv, Unacked
<1>7. ASSUME AckWritten
      PROVE  \A c \in Links : ak'[c] = IF Sock("r") = "up" /\ c = con["w"]
                                       THEN <<checkpoint>> ELSE <<>>
  <2>1. ak' = IF Sock("r") = "up" THEN [ak EXCEPT ![con["r"]] = Append(@, checkpoint)] ELSE ak
    BY <1>2, <1>7 DEF AckWritten, Sent
  <2>2. Append(<<>>, checkpoint) = <<checkpoint>>
    BY <1>4
  <2>3. QED
    BY <1>4, <1>5, <1>6, <2>1, <2>2
<1>8. ASSUME AckWritten
      PROVE  /\ st' \in [Links -> [Ends -> EndState]]
             /\ \A c \in Links, x \in Ends :
                  \/ st'[c][x] = st[c][x]
                  \/ c = con["r"] /\ x = "r" /\ st[c][x] = "fin" /\ st'[c][x] = "dead"
  BY <1>8, SendEffect DEF AckWritten, TypeInv, Ends
<1>9. QED
  BY <1>2, <1>3, <1>4, <1>6, <1>7, <1>8

\* The ack does not touch the writer's socket.
LEMMA AckSending ==
    ASSUME TypeInv, Core, pc["r"] \in {"dup", "take"}, AckWritten,
           con' = con, pc'["w"] = pc["w"]
    PROVE  Sending' = Sending
<1>1. con["w"] \in Links /\ "w" \in Ends
  BY Types DEF TypeInv, Ends
<1>2. st'[con["w"]]["w"] = st[con["w"]]["w"]
  BY <1>1, AckEffect
<1>3. QED
  BY <1>2, SendingFrame

\* LinkInv after the reader wrote an ack.
LEMMA AckLink ==
    ASSUME TypeInv, Core, pc["r"] \in {"dup", "take"}, AckWritten,
           UNCHANGED <<client, last, con, pk>>, pc'["w"] = pc["w"],
           pc'["r"] \notin {"ripristino", "failed"}
    PROVE  LinkInv'
<1>1. pk[con["r"]] = <<>>
  BY DEF Core, HoldInv, Holding
<1>2. /\ \A c \in Links :
           ak'[c] # <<>> => c = con["w"] /\ pc["w"] = "ack"
      /\ \A c \in Links, x \in Ends :
           \/ st'[c][x] = st[c][x]
           \/ c = con["r"] /\ x = "r" /\ st[c][x] = "fin" /\ st'[c][x] = "dead"
  BY AckEffect
<1>3. con["w"] \in Links
  BY Types DEF TypeInv
<1>4. \A c \in Links :
         /\ c <= last <=> st'[c]["w"] # "none"
         /\ c <= last <=> st'[c]["r"] # "none"
         /\ st'[c]["w"] = "up" <=> st'[c]["r"] = "up"
         /\ st'[c]["w"] # "rst" /\ st'[c]["r"] # "rst"
         /\ st'[c]["r"] = "dead" => pk[c] = <<>>
         /\ \A e \in Ends : c < con[e] => st'[c][e] # "up"
  BY <1>1, <1>2 DEF Core, LinkInv, Ends
<1>5. ASSUME pc["w"] \in {"ripristino", "failed"}
      PROVE  ak'[con["w"]] = <<>> /\ st'[con["w"]]["w"] \in {"fin", "dead"}
  BY <1>2, <1>3, <1>5 DEF Core, LinkInv, Sock, Ends
<1>6. QED
  BY <1>4, <1>5 DEF Core, LinkInv, Queue, Sock, Ends

LEMMA SafeReAck ==
    ASSUME TypeInv, Core, ReAck, TypeInv'
    PROVE  Core'
<1> USE DEF GoTo, net, reader, writer
<1>1. pc["r"] = "dup" /\ pc \in [Ends -> Place] /\ Holding /\ quota = 0 /\ Consumed
  BY DEF ReAck, Holding, TypeInv, TypeOK, Core, HoldInv
<1>2. AckWritten
  BY <1>1, AckEffect DEF ReAck
<1>3. /\ pc'["r"] = "reload" /\ pc'["w"] = pc["w"]
      /\ UNCHANGED <<client, last, con, pk, shorts, base, count, checkpoint, sended_byte,
                     rcount, quota, buffer, lastid, delivered, high, tent>>
  BY <1>1, AckEffect DEF ReAck, Ends
<1>4. /\ N' = N /\ Body' = Body /\ NextPacket' = NextPacket /\ cur' = cur /\ Unacked' = Unacked
      /\ ~ Holding' /\ Consumed' = Consumed /\ Fresh' = Fresh
  BY <1>1, <1>3, ReaderFrame DEF Holding, Consumed, Fresh
<1>5. \A c \in Links :
         /\ ak'[c] # <<>> => ak'[c] = <<checkpoint>> /\ c = con["w"]
         /\ ak'[c] # <<>> => con["w"] <= con["r"] /\ pc["w"] = "ack" /\ pk[c] = <<>>
  BY <1>1, <1>2, AckEffect
<1>6. Sending' = Sending
  BY <1>1, <1>2, <1>3, AckSending
<1>7. LinkInv'
  BY <1>1, <1>2, <1>3, AckLink
<1>8. FlightInv'
  BY <1>3, <1>4, <1>5, <1>6 DEF Core, FlightInv
<1>9. PhaseInv'
  BY <1>1, <1>4 DEF PhaseInv
<1>10. HoldInv'
  BY <1>1, <1>3, <1>4, <1>6 DEF Core, HoldInv
<1>11. QED
  BY <1>3, <1>7, <1>8, <1>9, <1>10 DEF Core

\* The part of the stream a Read returns from the packet the reader holds.
LEMMA HeldPacket ==
    ASSUME TypeInv, Core, pc["r"] = "take"
    PROVE  /\ buffer.hdr = Body /\ buffer.id = checkpoint /\ buffer.max = N
           /\ buffer.pos = cur /\ Unacked /\ quota < Body /\ Body \in Nat
           /\ cur \in Nat /\ quota \in Nat /\ rcount \in Nat /\ high \in Nat
           /\ checkpoint \in Nat /\ N \in Nat
           /\ \A c \in Links : ak[c] = <<>>
           /\ Fresh => high = cur + quota
           /\ Consumed => high = cur + Body
<1>1. buffer = NextPacket /\ Unacked /\ quota < Body /\ \A c \in Links : ak[c] = <<>>
  BY DEF Core, HoldInv, Holding, FlightInv
<1>2. sended_byte = checkpoint * PKT_DIM /\ Body \in 1 .. PKT_DIM /\ N \in Nat
  BY <1>1, NextPacketType DEF Unacked
<1>3. buffer.pos = cur
  BY <1>1, <1>2 DEF NextPacket, cur
<1>4. \A b \in 1 .. PKT_DIM : b \in Nat
  BY PktDimAssumption
<1>5. /\ cur \in Nat /\ quota \in Nat /\ rcount \in Nat /\ high \in Nat /\ checkpoint \in Nat
  BY Types DEF TypeInv
<1>6. QED
  BY <1>1, <1>2, <1>3, <1>4, <1>5 DEF NextPacket, Fresh, Consumed

LEMMA SafeTakePart ==
    ASSUME TypeInv, Core, TakePart, TypeInv'
    PROVE  Core'
<1> USE DEF GoTo, net, reader, writer
<1>1. pc["r"] = "take" /\ pc \in [Ends -> Place] /\ Holding
  BY DEF TakePart, Holding, TypeInv, TypeOK
<1>2. /\ pc'["r"] = "idle" /\ pc'["w"] = pc["w"] /\ quota' = quota + rcount
      /\ UNCHANGED <<client, last, con, pk, ak, st, shorts, base, count, checkpoint, sended_byte,
                     rcount, buffer, lastid, tent>>
  BY <1>1 DEF TakePart, Ends
<1>3. /\ N' = N /\ Body' = Body /\ NextPacket' = NextPacket /\ cur' = cur /\ Unacked' = Unacked
      /\ Sending' = Sending
  BY <1>2, ReaderFrame, SendingFrame
<1>4. /\ buffer.hdr = Body /\ buffer.pos = cur /\ Unacked /\ Body \in Nat
      /\ cur \in Nat /\ quota \in Nat /\ rcount \in Nat /\ high \in Nat
      /\ \A c \in Links : ak[c] = <<>>
      /\ Fresh => high = cur + quota
      /\ Consumed => high = cur + Body
  BY <1>1, HeldPacket
<1>5. /\ high' = IF cur + quota + rcount > high THEN cur + quota + rcount ELSE high
      /\ quota + rcount < Body
  BY <1>4 DEF TakePart, Deliver
<1>6. /\ Fresh => high' = cur + quota'
      /\ Consumed => high' = high
  <2> HIDE DEF TypeInv, Core
  <2>1. \A a, b, c \in Nat : a + (b + c) = a + b + c
    OBVIOUS
  <2>2. Fresh => high' = cur + (quota + rcount)
    BY <1>4, <1>5
  <2>3. \A a, b, c, d \in Nat : b + c < d => ~ (a + b + c > a + d)
    OBVIOUS
  <2>4. Consumed => high' = high
    BY <1>4, <1>5, <2>3
  <2>5. QED
    BY <1>2, <2>2, <2>4
<1>7. (Fresh => Fresh') /\ (Consumed' <=> Consumed)
  <2>1. Fresh => Fresh'
    BY <1>2, <1>3, <1>6 DEF Fresh
  <2>2. Consumed => Consumed'
    BY <1>2, <1>3, <1>6 DEF Consumed
  <2>3. Consumed' /\ Fresh => FALSE
    <3>1. \A a, b, c, d \in Nat : b + c < d => a + (b + c) # a + d
      OBVIOUS
    <3>2. cur + (quota + rcount) # cur + Body
      BY <1>4, <1>5, <3>1
    <3>3. Consumed' => high' = cur + Body
      BY <1>3 DEF Consumed
    <3>4. quota' = quota + rcount
      BY <1>2
    <3>5. Fresh => high' = cur + (quota + rcount)
      BY <1>6, <3>4
    <3>6. QED
      BY <3>2, <3>3, <3>5
  <2>4. QED
    BY <2>1, <2>2, <2>3 DEF Core, PhaseInv
<1>8. LinkInv'
  BY <1>1, <1>2, Types DEF Core, LinkInv, Queue, Sock, Ends, TypeInv
<1>9. FlightInv'
  BY <1>2, <1>3, <1>4 DEF Core, FlightInv
<1>10. PhaseInv'
  BY <1>2, <1>4, <1>7 DEF Core, PhaseInv
<1>11. HoldInv'
  <2>1. Sock("r")' = Sock("r")
    BY <1>2 DEF Sock
  <2>2. QED
    BY <1>1, <1>2, <1>3, <1>5, <1>7, <2>1 DEF Core, HoldInv, Holding
<1>12. QED
  BY <1>2, <1>8, <1>9, <1>10, <1>11 DEF Core

LEMMA SafeTakeRest ==
    ASSUME TypeInv, Core, TakeRest, TypeInv'
    PROVE  Core'
<1> USE DEF GoTo, net, reader, writer
<1>1. pc["r"] = "take" /\ pc \in [Ends -> Place] /\ Holding
  BY DEF TakeRest, Holding, TypeInv, TypeOK
<1>2. /\ buffer.hdr = Body /\ buffer.id = checkpoint /\ buffer.max = N /\ buffer.pos = cur
      /\ Unacked /\ quota < Body /\ Body \in Nat
      /\ cur \in Nat /\ quota \in Nat /\ high \in Nat
      /\ Fresh => high = cur + quota
      /\ Consumed => high = cur + Body
  BY <1>1, HeldPacket
<1>3. AckWritten /\ lastid' = LastId /\ quota' = 0
  BY <1>1, AckEffect DEF TakeRest
<1>4. /\ pc'["r"] = "idle" /\ pc'["w"] = pc["w"] /\ Deliver(buffer.hdr - quota)
      /\ UNCHANGED <<client, last, con, pk, shorts, base, count, checkpoint, sended_byte,
                     rcount, buffer, tent>>
  BY <1>1, <1>2, AckEffect DEF TakeRest, Ends
<1>5. /\ N' = N /\ Body' = Body /\ NextPacket' = NextPacket /\ cur' = cur /\ Unacked' = Unacked
      /\ ~ Holding' /\ Sending' = Sending
  BY <1>1, <1>3, <1>4, ReaderFrame, AckSending DEF Holding
<1>6. high' = cur + Body
  <2>1. high' = IF (cur + quota) + (Body - quota) > high
                THEN (cur + quota) + (Body - quota) ELSE high
    BY <1>2, <1>4 DEF Deliver
  <2>2. high = cur + quota \/ high = cur + Body
    BY <1>2 DEF Core, PhaseInv
  <2> HIDE DEF TypeInv, Core
  <2>3. QED
    BY <1>2, <2>1, <2>2
<1>7. Consumed'
  BY <1>2, <1>3, <1>4, <1>5, <1>6 DEF Consumed, LastId
<1>8. \A c \in Links :
         /\ ak'[c] # <<>> => ak'[c] = <<checkpoint>> /\ c = con["w"]
         /\ ak'[c] # <<>> => con["w"] <= con["r"] /\ pc["w"] = "ack" /\ pk[c] = <<>>
  BY <1>1, <1>3, AckEffect
<1>9. LinkInv'
  BY <1>1, <1>3, <1>4, AckLink
<1>10. FlightInv'
  BY <1>4, <1>5, <1>8 DEF Core, FlightInv
<1>11. PhaseInv'
  BY <1>7 DEF PhaseInv
<1>12. HoldInv'
  BY <1>3, <1>4, <1>5 DEF HoldInv
<1>13. QED
  BY <1>4, <1>9, <1>10, <1>11, <1>12 DEF Core

LEMMA SafeReader ==
    ASSUME FinOnly, TypeInv, Core, Reader, TypeInv'
    PROVE  Core'
<1>1. ~ ReadShort
  BY DEF ReadShort, FinOnly, Core
<1>2. QED
  BY <1>1, SafeCallRead, SafeReadPacket, SafeReadBuffered, SafeReadBroken, SafeReAck,
     SafeTakePart, SafeTakeRest DEF Reader

\* An end in Ripristino has read all there was to read, and closing its socket
\* tells the other end nothing new.
LEMMA Leaving ==
    ASSUME TypeInv, Core, NEW e \in Ends, pc[e] = "ripristino"
    PROVE  /\ Queue(e) = <<>> /\ Sock(e) \in {"fin", "dead"}
           /\ Closed(e) \in [Links -> [Ends -> EndState]]
           /\ \A c \in Links, x \in Ends :
                Closed(e)[c][x] = IF c = con[e] /\ x = e THEN "dead" ELSE st[c][x]
           /\ e = "w" => Unacked /\ \A c \in Links : ak[c] = <<>>
           /\ e = "r" => quota = 0 /\ ~ Holding /\ pk[con["r"]] = <<>>
<1>1. Queue(e) = <<>> /\ Sock(e) \in {"fin", "dead"}
  BY DEF Core, LinkInv
<1>2. con[e] \in Links /\ \A x \in Ends : st[con[e]][x] # "up"
  BY <1>1, Types DEF Core, LinkInv, Sock, Ends, TypeInv
<1>3. /\ Closed(e) \in [Links -> [Ends -> EndState]]
      /\ \A c \in Links, x \in Ends :
           Closed(e)[c][x] = IF c = con[e] /\ x = e THEN "dead" ELSE st[c][x]
  BY <1>2, SocketType DEF TypeInv
<1>4. ASSUME e = "w" PROVE Unacked /\ \A c \in Links : ak[c] = <<>>
  BY <1>4 DEF Core, FlightInv, TypeInv, CallInv, Unacked
<1>5. ASSUME e = "r" PROVE quota = 0 /\ ~ Holding /\ pk[con["r"]] = <<>>
  BY <1>1, <1>5 DEF Core, HoldInv, Holding, Queue
<1>6. QED
  BY <1>1, <1>3, <1>4, <1>5

\* An attempt of Ripristino that fails changes nothing the other end can see.
LEMMA SafeAttempt ==
    ASSUME TypeInv, Core, NEW e \in Ends, pc[e] = "ripristino", AttemptFails(e),
           st' = st \/ st' = Closed(e),
           UNCHANGED <<client, last, con, pk, ak, shorts, base, count, checkpoint,
                       sended_byte, reader>>
    PROVE  Core'
<1> USE DEF GoTo, reader
<1>1. /\ pc'[e] \in {"ripristino", "failed"} /\ \A x \in Ends \ {e} : pc'[x] = pc[x]
      /\ pc \in [Ends -> Place]
  BY DEF AttemptFails, TypeInv, TypeOK
<1>2. /\ Queue(e) = <<>> /\ Sock(e) \in {"fin", "dead"}
      /\ \A c \in Links, x \in Ends :
           \/ st'[c][x] = st[c][x]
           \/ c = con[e] /\ x = e /\ st'[c][x] = "dead"
      /\ e = "r" => quota = 0 /\ ~ Holding /\ pk[con["r"]] = <<>>
      /\ e = "w" => Unacked /\ \A c \in Links : ak[c] = <<>>
  BY Leaving
<1>3. /\ N' = N /\ Body' = Body /\ NextPacket' = NextPacket /\ cur' = cur
  BY SamePacket
<1>4. /\ pc'["w"] = "idle" <=> pc["w"] = "idle"
      /\ pc'["w"] = "send" <=> pc["w"] = "send"
      /\ pc'["w"] = "ack" <=> pc["w"] = "ack"
      /\ \A p \in {"dup", "reload", "take", "killed"} : pc'["r"] = p <=> pc["r"] = p
      /\ pc'["r"] \in {"ripristino", "failed"} => quota = 0
  BY <1>1, <1>2 DEF Core, HoldInv, Ends
<1>5. /\ Unacked' <=> Unacked
      /\ Holding' <=> Holding
      /\ Consumed' <=> Consumed
      /\ Fresh' <=> Fresh
      /\ Sending' => Sending
  <2>1. (Unacked' <=> Unacked) /\ (Holding' <=> Holding)
    BY <1>3, <1>4 DEF Unacked, Holding
  <2>2. con["w"] \in Links
    BY Types DEF TypeInv
  <2>3. Sending' => Sending
    BY <1>2, <1>4, <2>2 DEF Sending, Sock, Ends
  <2>4. QED
    BY <1>3, <1>4, <2>1, <2>3 DEF Consumed, Fresh
<1>6. \A x \in Ends : con[x] \in Links
  BY Types DEF TypeInv, Ends
<1>7. LinkInv'
  <2>1. \A c \in Links :
         /\ c <= last <=> st'[c]["w"] # "none"
         /\ c <= last <=> st'[c]["r"] # "none"
         /\ st'[c]["w"] = "up" <=> st'[c]["r"] = "up"
         /\ st'[c]["w"] # "rst" /\ st'[c]["r"] # "rst"
         /\ st'[c]["r"] = "dead" => pk[c] = <<>>
         /\ \A x \in Ends : c < con[x] => st'[c][x] # "up"
    BY <1>2 DEF Core, LinkInv, Ends, Sock
  <2>2. \A x \in Ends : pc'[x] \in {"ripristino", "failed"} =>
           Queue(x) = <<>> /\ st'[con[x]][x] \in {"fin", "dead"}
    BY <1>1, <1>2, <1>6 DEF Core, LinkInv, Sock
  <2>3. QED
    BY <2>1, <2>2 DEF Core, LinkInv, Queue, Sock
<1>8. FlightInv'
  BY <1>3, <1>4, <1>5 DEF Core, FlightInv
<1>9. PhaseInv'
  BY <1>5 DEF Core, PhaseInv
<1>10. HoldInv'
  <2>1. Holding => Sock("r")' \in {"up", "fin"}
    BY <1>2, <1>6 DEF Core, HoldInv, Sock, Ends
  <2>2. QED
    BY <1>3, <1>4, <1>5, <2>1 DEF Core, HoldInv
<1>11. QED
  BY <1>4, <1>7, <1>8, <1>9, <1>10 DEF Core

\* An end that resumes on a later connection k, on which it has missed nothing.
LEMMA SafeResume ==
    ASSUME TypeInv, Core, NEW e \in Ends, NEW k \in Links, pc[e] = "ripristino", Resume(e),
           con' = [con EXCEPT ![e] = k], con[e] < k, k <= last',
           \A c \in Links, x \in Ends :
               \/ st'[c][x] = st[c][x]
               \/ c = con[e] /\ x = e
               \/ c > last,
           \A c \in Links : pk[c] # <<>> => k <= c \/ e = "w",
           e = "w" => k > con["r"] \/ (~ Holding /\ pc["r"] # "reload"),
           UNCHANGED <<client, pk, ak, shorts, base, count, checkpoint, sended_byte, reader>>
    PROVE  FlightInv' /\ PhaseInv' /\ HoldInv'
<1> USE DEF GoTo, reader
<1>1. /\ pc'[e] = (IF e = "w" THEN "send" ELSE "load") /\ \A x \in Ends \ {e} : pc'[x] = pc[x]
      /\ pc \in [Ends -> Place] /\ con'[e] = k /\ \A x \in Ends \ {e} : con'[x] = con[x]
  BY Types DEF Resume, TypeInv, TypeOK
<1>2. /\ e = "r" => quota = 0 /\ ~ Holding /\ pk[con["r"]] = <<>>
      /\ e = "w" => Unacked /\ \A c \in Links : ak[c] = <<>>
  BY Leaving
<1>3. /\ N' = N /\ Body' = Body /\ NextPacket' = NextPacket /\ cur' = cur
  BY SamePacket
<1>4. /\ pc'["w"] = "idle" <=> pc["w"] = "idle"
      /\ pc'["w"] = "ack" <=> pc["w"] = "ack"
      /\ \A p \in {"dup", "reload", "take", "killed"} : pc'["r"] = p <=> pc["r"] = p
      /\ pc'["r"] \in {"ripristino", "failed"} => quota = 0
  BY <1>1, <1>2 DEF Core, HoldInv, Ends
<1>5. /\ Unacked' <=> Unacked
      /\ Holding' <=> Holding
      /\ Consumed' <=> Consumed
      /\ Fresh' <=> Fresh
  <2>1. (Unacked' <=> Unacked) /\ (Holding' <=> Holding)
    BY <1>3, <1>4 DEF Unacked, Holding
  <2>2. QED
    BY <1>3, <1>4, <2>1 DEF Consumed, Fresh
<1>6. /\ con["w"] \in Links /\ con["r"] \in Links
      /\ con["w"] <= last /\ con["r"] <= last
      /\ \A c \in Links : c \in Nat
      /\ last \in Nat
  BY Types DEF TypeInv, Core, LinkInv, Ends
<1>7. \A x \in Ends : con[x] <= con'[x]
  BY <1>1, <1>6 DEF Ends
<1>8. FlightInv'
  <2>1. \A c \in Links : pk[c] # <<>> =>
          pk[c] = <<NextPacket>> /\ Unacked /\ con'["r"] <= c /\ c <= con'["w"]
    <3> SUFFICES ASSUME NEW c \in Links, pk[c] # <<>>
                 PROVE  con'["r"] <= c /\ c <= con'["w"]
      BY DEF Core, FlightInv
    <3>1. con["r"] <= c /\ c <= con["w"]
      BY DEF Core, FlightInv
    <3>2. CASE e = "w"
      BY <1>1, <1>6, <3>1, <3>2 DEF Ends
    <3>3. CASE e = "r"
      BY <1>1, <3>1, <3>3 DEF Ends
    <3>4. QED
      BY <3>2, <3>3 DEF Ends
  <2>2. \A c \in Links : ak[c] # <<>> =>
         /\ ak[c] = <<checkpoint>> /\ c = con'["w"] /\ con'["w"] <= con'["r"]
         /\ pc'["w"] = "ack" /\ pk[c] = <<>> /\ ~ Holding
    <3> SUFFICES ASSUME NEW c \in Links, ak[c] # <<>>
                 PROVE  c = con'["w"] /\ con'["w"] <= con'["r"] /\ pc'["w"] = "ack"
      BY DEF Core, FlightInv
    <3>1. e = "r" /\ con["w"] <= con["r"] /\ c = con["w"] /\ pc["w"] = "ack"
      BY <1>2 DEF Core, FlightInv, Ends
    <3>2. QED
      BY <1>1, <1>4, <1>6, <3>1 DEF Ends
  <2>3. Sending' => pk[con'["w"]] = <<>>
    <3>1. CASE e = "w"
      <4>1. \A c \in Links : pk[c] # <<>> => c <= con["w"]
        BY DEF Core, FlightInv
      <4>2. QED
        BY <1>1, <1>6, <3>1, <4>1
    <3>2. CASE e = "r"
      <4>1. con'["w"] = con["w"] /\ pc'["w"] = pc["w"] /\ ~ (con["w"] > last)
        BY <1>1, <1>6, <3>2 DEF Ends
      <4>2. st'[con["w"]]["w"] = st[con["w"]]["w"]
        BY <1>6, <3>2, <4>1 DEF Ends
      <4>3. QED
        BY <4>1, <4>2 DEF Core, FlightInv, Sending, Sock
    <3>3. QED
      BY <3>1, <3>2 DEF Ends
  <2>4. QED
    BY <1>3, <1>5, <2>1, <2>2, <2>3 DEF FlightInv
<1>9. PhaseInv'
  BY <1>5 DEF Core, PhaseInv
<1>10. HoldInv'
  <2>1. ASSUME Holding \/ pc["r"] = "reload"
        PROVE  /\ con'["r"] <= con'["w"]
               /\ con'["r"] # con'["w"]
    <3>1. e = "w" /\ k > con["r"] /\ con'["r"] = con["r"] /\ con["r"] <= con["w"]
      BY <1>1, <1>2, <2>1 DEF Core, HoldInv, Ends
    <3>2. QED
      BY <1>1, <1>6, <3>1
  <2>2. ASSUME Holding
        PROVE  pk[con'["r"]] = <<>> /\ Sock("r")' \in {"up", "fin"}
    <3>1. con'["r"] = con["r"] /\ e = "w"
      BY <1>2, <2>1, <2>2 DEF Ends
    <3>2. st'[con["r"]]["r"] = st[con["r"]]["r"]
      BY <1>6, <3>1 DEF Ends
    <3>3. QED
      BY <2>2, <3>1, <3>2 DEF Core, HoldInv, Sock
  <2>3. Holding' =>
         /\ buffer' = NextPacket' /\ Unacked' /\ quota' < Body'
         /\ con'["r"] <= con'["w"] /\ (con'["r"] = con'["w"] => ~ Sending')
         /\ pk'[con'["r"]] = <<>> /\ Sock("r")' \in {"up", "fin"}
    BY <1>3, <1>5, <2>1, <2>2 DEF Core, HoldInv
  <2>4. /\ pc'["r"] \in {"dup", "reload", "ripristino", "failed", "killed"} => quota' = 0
        /\ pc'["r"] = "dup" => Consumed' /\ checkpoint' # N' - 1
        /\ (pc'["r"] = "take" \/ quota' # 0) /\ Consumed' => checkpoint' = N' - 1
    BY <1>3, <1>4, <1>5 DEF Core, HoldInv
  <2>5. pc'["r"] = "reload" =>
         /\ con'["r"] <= con'["w"]
         /\ Consumed' => /\ pk'[con'["r"]] = <<>>
                         /\ con'["r"] = con'["w"] => ~ Sending'
    BY <1>4, <1>5, <2>1 DEF Core, HoldInv
  <2>6. QED
    BY <2>3, <2>4, <2>5 DEF HoldInv
<1>11. QED
  BY <1>8, <1>9, <1>10

\* A call made again finds its connection as Ripristino left it: it has fallen,
\* and a packet may still be on its way to the reader.
LEMMA SafeCallAgain ==
    ASSUME TypeInv, Core, NEW e \in Ends, CallAgain(e), TypeInv'
    PROVE  Core'
<1> USE DEF GoTo, net, reader
<1>1. /\ pc[e] = "failed" /\ pc \in [Ends -> Place]
      /\ pc'[e] = (IF e = "w" THEN "send" ELSE "load") /\ \A x \in Ends \ {e} : pc'[x] = pc[x]
      /\ UNCHANGED <<client, last, con, pk, ak, st, shorts, base, count, checkpoint, sended_byte,
                     rcount, quota, buffer, lastid, delivered, high>>
  BY DEF CallAgain, Resume, TypeInv, TypeOK
<1>2. /\ Queue(e) = <<>> /\ Sock(e) \in {"fin", "dead"}
      /\ e = "w" => Unacked /\ \A c \in Links : ak[c] = <<>>
      /\ e = "r" => quota = 0 /\ ~ Holding
  BY <1>1 DEF Core, LinkInv, FlightInv, HoldInv, Holding, TypeInv, CallInv, Unacked
<1>3. /\ N' = N /\ Body' = Body /\ NextPacket' = NextPacket /\ cur' = cur
  BY <1>1, SamePacket
<1>4. /\ pc'["w"] = "idle" <=> pc["w"] = "idle"
      /\ pc'["w"] = "ack" <=> pc["w"] = "ack"
      /\ \A p \in {"dup", "reload", "take", "killed"} : pc'["r"] = p <=> pc["r"] = p
      /\ pc'["r"] \in {"ripristino", "failed"} => quota = 0
  BY <1>1, <1>2 DEF Core, HoldInv, Ends
<1>5. /\ Unacked' <=> Unacked
      /\ Holding' <=> Holding
      /\ Consumed' <=> Consumed
      /\ Fresh' <=> Fresh
  <2>1. (Unacked' <=> Unacked) /\ (Holding' <=> Holding)
    BY <1>1, <1>3, <1>4 DEF Unacked, Holding
  <2>2. QED
    BY <1>1, <1>3, <1>4, <2>1 DEF Consumed, Fresh
<1>6. Sending' => Sending
  BY <1>1, <1>2 DEF Sending, Sock, Ends
<1>7. LinkInv'
  <2>1. \A x \in Ends : pc'[x] \in {"ripristino", "failed"} => pc[x] \in {"ripristino", "failed"}
    BY <1>1
  <2>2. QED
    BY <1>1, <2>1 DEF Core, LinkInv, Queue, Sock
<1>8. FlightInv'
  BY <1>1, <1>3, <1>4, <1>5, <1>6 DEF Core, FlightInv
<1>9. PhaseInv'
  BY <1>1, <1>5 DEF Core, PhaseInv
<1>10. HoldInv'
  BY <1>1, <1>3, <1>4, <1>5, <1>6 DEF Core, HoldInv, Sock
<1>11. QED
  BY <1>1, <1>4, <1>7, <1>8, <1>9, <1>10 DEF Core

LEMMA SafeReConnect ==
    ASSUME TypeInv, Core, NEW e \in Ends, ReConnect(e), TypeInv'
    PROVE  Core'
<1> USE DEF net
<1>1. pc[e] = "ripristino" /\ e = client /\ con[e] = last
  BY DEF ReConnect, Core, LinkInv
<1>2. CASE AttemptFails(e) /\ st' = Closed(e) /\ UNCHANGED <<last, con>>
  BY <1>1, <1>2, SafeAttempt DEF ReConnect
<1>3. ASSUME last < MaxLinks, last' = last + 1, con' = [con EXCEPT ![e] = last + 1],
             st' = [Closed(e) EXCEPT ![last + 1] = [x \in Ends |-> "up"]],
             Resume(e)
      PROVE  Core'
  <2>1. /\ last \in Nat /\ last + 1 \in Links /\ MaxLinks \in Nat /\ \A c \in Links : c \in Nat
        /\ last \in Links /\ con \in [Ends -> Links]
    <3>1. /\ last \in Nat /\ last \in Links /\ con \in [Ends -> Links]
          /\ \A c \in Links : c \in Nat
      BY Types DEF TypeInv
    <3>2. MaxLinks \in Nat
      BY SessionAssumption
    <3> HIDE DEF TypeInv, Core
    <3>3. last + 1 \in Links
      BY <1>3, <3>1, <3>2 DEF Links
    <3>4. QED
      BY <3>1, <3>2, <3>3
  <2>2. /\ Queue(e) = <<>> /\ Closed(e) \in [Links -> [Ends -> EndState]]
        /\ \A c \in Links, x \in Ends :
             Closed(e)[c][x] = IF c = con[e] /\ x = e THEN "dead" ELSE st[c][x]
        /\ e = "r" => pk[con["r"]] = <<>>
    BY <1>1, Leaving
  <2>3. \A c \in Links, x \in Ends :
          st'[c][x] = IF c = last + 1 THEN "up"
                      ELSE IF c = last /\ x = e THEN "dead" ELSE st[c][x]
    BY <1>1, <1>3, <2>1, <2>2
  <2>4. \A c \in Links : (pk[c] # <<>> => con["r"] <= c) /\ (pk[c] # <<>> => c <= con["w"])
                         /\ (pk[c] # <<>> => c <= last)
    <3>1. con["w"] <= last /\ con["w"] \in Nat
      BY Types DEF Core, LinkInv, Ends, TypeInv
    <3>2. \A c \in Links : pk[c] # <<>> => con["r"] <= c /\ c <= con["w"]
      BY DEF Core, FlightInv
    <3> HIDE DEF TypeInv, Core
    <3>3. \A c \in Links : c <= con["w"] => c <= last
      BY <2>1, <3>1
    <3>4. QED
      BY <3>2, <3>3
  <2>5. \A c \in Links : pk[c] # <<>> => last + 1 <= c \/ e = "w"
    <3> SUFFICES ASSUME NEW c \in Links, pk[c] # <<>>, e = "r" PROVE FALSE
      BY DEF Ends
    <3>1. con["r"] <= c /\ c <= last
      BY <2>4
    <3>2. con["r"] = last /\ last \in Nat /\ c \in Nat
      BY <1>1, <2>1
    <3> HIDE DEF TypeInv, Core
    <3>3. c = last
      BY <3>1, <3>2
    <3>4. QED
      BY <1>1, <2>2, <3>3
  <2>6. \A x \in Ends : con[x] <= last /\ con[x] \in Nat
    BY <2>1 DEF Core, LinkInv
  <2>7. FlightInv' /\ PhaseInv' /\ HoldInv'
    <3>1. \A c \in Links, x \in Ends :
               \/ st'[c][x] = st[c][x]
               \/ c = con[e] /\ x = e
               \/ c > last
      <4>1. last + 1 > last
        BY <2>1
      <4>2. QED
        BY <1>1, <2>3, <4>1
    <3>2. e = "w" => last + 1 > con["r"]
      BY <2>1, <2>6 DEF Ends
    <3>3. con[e] < last + 1 /\ last + 1 <= last'
      BY <1>1, <1>3, <2>1
    <3>4. UNCHANGED <<client, pk, ak, shorts, base, count, checkpoint, sended_byte, reader>>
      BY DEF ReConnect
    <3>5. QED
      BY <1>1, <1>3, <2>1, <2>5, <3>1, <3>2, <3>3, <3>4, SafeResume
  <2>8. /\ pc'[e] \in {"send", "load"} /\ \A x \in Ends \ {e} : pc'[x] = pc[x]
        /\ UNCHANGED <<client, pk, ak, shorts>>
        /\ con'[e] = last + 1 /\ \A x \in Ends \ {e} : con'[x] = con[x]
    BY <1>3, <2>1 DEF ReConnect, Resume, GoTo, TypeInv, TypeOK
  <2>9. LinkInv'
    <3>1. con'[client'] = last' /\ \A x \in Ends : con'[x] <= last'
      BY <1>1, <1>3, <2>1, <2>6, <2>8
    <3>2. ASSUME NEW c \in Links
          PROVE  /\ c <= last' <=> st'[c]["w"] # "none"
                 /\ c <= last' <=> st'[c]["r"] # "none"
                 /\ st'[c]["w"] = "up" <=> st'[c]["r"] = "up"
                 /\ st'[c]["w"] # "rst" /\ st'[c]["r"] # "rst"
                 /\ st'[c]["r"] = "dead" => pk'[c] = <<>>
                 /\ \A x \in Ends : c < con'[x] => st'[c][x] # "up"
      <4>1. CASE c = last + 1
        BY <1>3, <2>1, <2>3, <2>6, <2>8, <4>1 DEF Ends
      <4>2. CASE c = last
        <5>1. \A x \in Ends : st[c][x] # "up" /\ st[c][x] # "rst" /\ st[c][x] # "none"
          BY <1>1, <2>1, <4>2, Leaving DEF Core, LinkInv, Sock, Ends
        <5>2. pk'[c] = <<>> \/ st'[c]["r"] # "dead"
          BY <1>1, <2>1, <2>2, <2>3, <2>8, <4>2 DEF Core, LinkInv, Ends
        <5>3. QED
          BY <1>3, <2>1, <2>3, <4>2, <5>1, <5>2 DEF Ends
      <4>3. CASE c # last /\ c # last + 1
        <5>1. /\ \A x \in Ends : st'[c][x] = st[c][x]
              /\ c <= last' <=> c <= last
              /\ \A x \in Ends : x # e => con'[x] = con[x]
              /\ c < con'[e] <=> c < con[e]
          BY <1>1, <1>3, <2>1, <2>3, <2>8, <4>3
        <5>2. QED
          BY <2>8, <5>1 DEF Core, LinkInv, Ends
      <4>4. QED
        BY <4>1, <4>2, <4>3
    <3>3. ASSUME NEW x \in Ends, pc'[x] \in {"ripristino", "failed"}
          PROVE  Queue(x)' = <<>> /\ Sock(x)' \in {"fin", "dead"}
      <4>1. x # e /\ pc[x] \in {"ripristino", "failed"} /\ con'[x] = con[x] /\ con[x] \in Links
        BY <2>1, <2>8, <3>3
      <4>2. st'[con[x]][x] = st[con[x]][x]
        BY <2>1, <2>3, <2>6, <4>1
      <4>3. Queue(x) = <<>> /\ Sock(x) \in {"fin", "dead"}
        BY <4>1 DEF Core, LinkInv
      <4>4. QED
        BY <2>8, <4>1, <4>2, <4>3 DEF Queue, Sock, Ends
    <3>4. QED
      BY <3>1, <3>2, <3>3 DEF LinkInv
  <2>10. QED
    BY <2>7, <2>8, <2>9 DEF Core, Ends
<1>4. QED
  BY <1>2, <1>3 DEF ReConnect

LEMMA SafeReAccept ==
    ASSUME TypeInv, Core, NEW e \in Ends, ReAccept(e), TypeInv'
    PROVE  Core'
<1> DEFINE k == con[e] + 1
<1>1. /\ pc[e] = "ripristino" /\ e # client /\ con[e] < last /\ st' = Closed(e) /\ Resume(e)
      /\ con' = [con EXCEPT ![e] = k]
      /\ UNCHANGED <<client, last, pk, ak, shorts, base, count, checkpoint, sended_byte, reader>>
  BY DEF ReAccept
<1>2. /\ con[e] \in Nat /\ con[e] \in Links /\ last \in Nat /\ last \in Links
      /\ con \in [Ends -> Links] /\ \A c \in Links : c \in Nat
  BY Types DEF TypeInv, Ends
<1>3. k \in Links /\ k <= last /\ con[e] < k
  <2>1. \A c \in Links : c < last => c + 1 \in Links
    BY <1>2, SessionAssumption DEF Links
  <2>2. QED
    BY <1>1, <1>2, <2>1
<1> HIDE DEF k
<1>4. /\ Queue(e) = <<>>
      /\ \A c \in Links, x \in Ends :
           st'[c][x] = IF c = con[e] /\ x = e THEN "dead" ELSE st[c][x]
      /\ e = "r" => pk[con["r"]] = <<>>
  BY <1>1, Leaving
<1>5. ASSUME NEW c \in Links, pk[c] # <<>>, e = "r" PROVE k <= c
  <2>1. con["r"] <= c /\ c # con["r"]
    BY <1>4, <1>5 DEF Core, FlightInv
  <2>2. QED
    BY <1>2, <1>5, <2>1 DEF k
<1>6. ASSUME e = "w" PROVE ~ Holding /\ pc["r"] # "reload"
  <2>1. con["r"] = last
    BY <1>1, <1>6, Types DEF Core, LinkInv, TypeInv
  <2>2. ~ (con["r"] <= con["w"])
    BY <1>1, <1>2, <1>6, <2>1
  <2>3. QED
    BY <2>2 DEF Core, HoldInv
<1>7. FlightInv' /\ PhaseInv' /\ HoldInv'
  <2>1. k <= last' /\ (e = "w" => k > con["r"] \/ (~ Holding /\ pc["r"] # "reload"))
    BY <1>1, <1>3, <1>6
  <2>2. \A c \in Links : pk[c] # <<>> => k <= c \/ e = "w"
    BY <1>5 DEF Ends
  <2>3. \A c \in Links, x \in Ends :
          \/ st'[c][x] = st[c][x]
          \/ c = con[e] /\ x = e
          \/ c > last
    BY <1>4
  <2>4. QED
    BY <1>1, <1>3, <2>1, <2>2, <2>3, SafeResume
<1>8. /\ pc'[e] \in {"send", "load"} /\ \A x \in Ends \ {e} : pc'[x] = pc[x]
      /\ con'[e] = k /\ \A x \in Ends \ {e} : con'[x] = con[x]
  BY <1>1, <1>2 DEF Resume, GoTo, TypeInv, TypeOK
<1>9. LinkInv'
  <2>1. con'[client] = last /\ \A x \in Ends : con'[x] <= last
    BY <1>1, <1>3, <1>8, Types DEF Core, LinkInv, Ends, TypeInv
  <2>2. \A x \in Ends : st[con[e]][x] \notin {"up", "rst", "none"}
    BY <1>1, <1>2, Leaving DEF Core, LinkInv, Sock, Ends
  <2>3. ASSUME NEW c \in Links
        PROVE  /\ c <= last <=> st'[c]["w"] # "none"
               /\ c <= last <=> st'[c]["r"] # "none"
               /\ st'[c]["w"] = "up" <=> st'[c]["r"] = "up"
               /\ st'[c]["w"] # "rst" /\ st'[c]["r"] # "rst"
               /\ st'[c]["r"] = "dead" => pk[c] = <<>>
    BY <1>4, <2>2 DEF Core, LinkInv, Ends
  <2>4. ASSUME NEW c \in Links, NEW x \in Ends, c < con'[x]
        PROVE  st'[c][x] # "up"
    <3>1. CASE x # e
      BY <1>4, <1>8, <2>4, <3>1 DEF Core, LinkInv
    <3>2. CASE x = e /\ c = con[e]
      BY <1>4, <3>2
    <3>3. CASE x = e /\ c # con[e]
      <4>1. c < con[e]
        <5>1. c < con[e] + 1 /\ c # con[e] /\ c \in Nat
          BY <1>2, <1>8, <2>4, <3>3 DEF k
        <5>2. \A a, b \in Nat : a < b + 1 /\ a # b => a < b
          OBVIOUS
        <5>3. QED
          BY <1>2, <5>1, <5>2
      <4>2. QED
        BY <1>4, <3>3, <4>1 DEF Core, LinkInv
    <3>4. QED
      BY <3>1, <3>2, <3>3
  <2>5. ASSUME NEW x \in Ends, pc'[x] \in {"ripristino", "failed"}
        PROVE  Queue(x)' = <<>> /\ Sock(x)' \in {"fin", "dead"}
    <3>1. x # e /\ pc[x] \in {"ripristino", "failed"} /\ con'[x] = con[x] /\ con[x] \in Links
      BY <1>2, <1>8, <2>5
    <3>2. Queue(x) = <<>> /\ Sock(x) \in {"fin", "dead"}
      BY <3>1 DEF Core, LinkInv
    <3>3. st'[con[x]][x] = st[con[x]][x]
      BY <1>4, <3>1
    <3>4. QED
      BY <1>1, <3>1, <3>2, <3>3 DEF Queue, Sock, Ends
  <2>6. QED
    BY <1>1, <2>1, <2>3, <2>4, <2>5 DEF LinkInv
<1>10. QED
  BY <1>1, <1>7, <1>8, <1>9 DEF Core, Ends

LEMMA SafeRipristino ==
    ASSUME TypeInv, Core, NEW e \in Ends, Ripristino(e), TypeInv'
    PROVE  Core'
<1>1. CASE SelectTimeout(e)
  BY <1>1, SafeAttempt DEF SelectTimeout, net
<1>2. QED
  BY <1>1, SafeReConnect, SafeReAccept DEF Ripristino

\* A prefix of a sequence of at most one element.
LEMMA Prefix ==
    ASSUME NEW S, NEW s \in Seq(S), NEW x, s = <<>> \/ s = <<x>>, NEW n \in 0 .. Len(s)
    PROVE  SubSeq(s, 1, n) = <<>> \/ SubSeq(s, 1, n) = s
<1>1. Len(s) = 0 \/ Len(s) = 1
  OBVIOUS
<1>2. n = 0 \/ n = Len(s)
  <2>1. \A k, l : k \in 0 .. l /\ (l = 0 \/ l = 1) => k = 0 \/ k = l
    OBVIOUS
  <2>2. n \in 0 .. Len(s)
    OBVIOUS
  <2>3. QED
    BY <1>1, <2>1, <2>2, Zenon
<1>3. CASE n = 0
  BY <1>3, SubSeqEmpty
<1>4. CASE n = Len(s)
  BY <1>4, SubSeqFull
<1>5. QED
  BY <1>2, <1>3, <1>4

LEMMA SafeBreak ==
    ASSUME FinOnly, TypeInv, Core, Break, TypeInv'
    PROVE  Core'
<1> USE DEF reader, writer
<1>1. PICK n \in 0 .. Len(pk[last]), m \in 0 .. Len(ak[last]), how \in Endings :
        /\ pk' = [pk EXCEPT ![last] = SubSeq(@, 1, n)]
        /\ ak' = [ak EXCEPT ![last] = SubSeq(@, 1, m)]
        /\ st' = [st EXCEPT ![last] = how]
  BY DEF Break
<1>2. /\ st[last]["w"] = "up" /\ st[last]["r"] = "up"
      /\ UNCHANGED <<client, last, con, shorts, pc, base, count, checkpoint, sended_byte,
                     rcount, quota, buffer, lastid, delivered, high, tent>>
  BY DEF Break, Ends
<1>3. /\ last \in Links /\ pk \in [Links -> Seq(Packet)] /\ ak \in [Links -> Seq(Nat)]
      /\ con["r"] \in Links /\ con["w"] \in Links
      /\ st \in [Links -> [Ends -> EndState]]
  BY Types DEF TypeInv
<1>4. \A e \in Ends : how[e] = "fin"
  BY DEF FinOnly, Endings
<1>5. \A c \in Links, e \in Ends : st'[c][e] = IF c = last THEN "fin" ELSE st[c][e]
  BY <1>1, <1>3, <1>4
<1>6. \A c \in Links : pk'[c] = <<>> \/ pk'[c] = pk[c]
  <2>1. pk[last] = <<>> \/ pk[last] = <<NextPacket>>
    BY <1>3 DEF Core, FlightInv
  <2>2. pk'[last] = <<>> \/ pk'[last] = pk[last]
    BY <1>1, <1>3, <2>1, Prefix
  <2>3. QED
    BY <1>1, <1>3, <2>2
<1>7. \A c \in Links : ak'[c] = <<>> \/ ak'[c] = ak[c]
  <2>1. ak[last] = <<>> \/ ak[last] = <<checkpoint>>
    BY <1>3 DEF Core, FlightInv
  <2>2. ak'[last] = <<>> \/ ak'[last] = ak[last]
    BY <1>1, <1>3, <2>1, Prefix
  <2>3. QED
    BY <1>1, <1>3, <2>2
<1>8. /\ N' = N /\ Body' = Body /\ NextPacket' = NextPacket /\ cur' = cur /\ Unacked' = Unacked
      /\ Holding' = Holding /\ Consumed' = Consumed /\ Fresh' = Fresh
  BY <1>2, ReaderFrame DEF Holding, Consumed, Fresh
<1>9. Sending' => Sending
  BY <1>2, <1>3, <1>5 DEF Sending, Sock, Ends
<1>10. LinkInv'
  <2>1. ASSUME NEW c \in Links
        PROVE  /\ c <= last <=> st'[c]["w"] # "none"
               /\ c <= last <=> st'[c]["r"] # "none"
               /\ st'[c]["w"] = "up" <=> st'[c]["r"] = "up"
               /\ st'[c]["w"] # "rst" /\ st'[c]["r"] # "rst"
               /\ st'[c]["r"] = "dead" => pk'[c] = <<>>
               /\ \A e \in Ends : c < con[e] => st'[c][e] # "up"
    <3>1. CASE c = last
      BY <1>2, <1>3, <1>5, <3>1 DEF Core, LinkInv, Ends
    <3>2. CASE c # last
      BY <1>5, <1>6, <3>2 DEF Core, LinkInv, Ends
    <3>3. QED
      BY <3>1, <3>2
  <2>2. ASSUME NEW e \in Ends, pc[e] \in {"ripristino", "failed"}
        PROVE  Queue(e)' = <<>> /\ Sock(e)' \in {"fin", "dead"}
    <3>1. Queue(e) = <<>> /\ Sock(e) \in {"fin", "dead"}
      BY <2>2 DEF Core, LinkInv
    <3>2. con[e] \in Links
      BY <1>3 DEF Ends
    <3>3. QED
      BY <1>2, <1>3, <1>5, <1>6, <1>7, <3>1, <3>2 DEF Queue, Sock
  <2>3. QED
    BY <1>2, <2>1, <2>2 DEF Core, LinkInv
<1>11. FlightInv'
  BY <1>2, <1>3, <1>6, <1>7, <1>8, <1>9 DEF Core, FlightInv
<1>12. PhaseInv'
  BY <1>7, <1>8 DEF Core, PhaseInv
<1>13. HoldInv'
  <2>1. Sock("r") \in {"up", "fin"} => Sock("r")' \in {"up", "fin"}
    BY <1>2, <1>3, <1>5 DEF Sock, Ends
  <2>2. QED
    BY <1>2, <1>3, <1>6, <1>8, <1>9, <2>1 DEF Core, HoldInv
<1>14. QED
  BY <1>2, <1>10, <1>11, <1>12, <1>13 DEF Core

-----------------------------------------------------------------------------
(***************************************************************************)
(* What a CCS connection guarantees while its TCP connections end with a   *)
(* FIN, no read is short and the client has no other connection (FinOnly), *)
(* for any size of packet, any requests and any number of reconnections.   *)
(***************************************************************************)
LEMMA CoreInit ==
    ASSUME Init, TypeInv
    PROVE  Core
<1>1. \A e \in Ends : con[e] = 1 /\ pc[e] = "idle"
  BY DEF Init
<1>2. /\ con["w"] = 1 /\ con["r"] = 1 /\ pc["w"] = "idle" /\ pc["r"] = "idle"
      /\ con[client] = 1 /\ last = 1 /\ quota = 0
      /\ \A c \in Links : pk[c] = <<>> /\ ak[c] = <<>>
      /\ \A c \in Links, e \in Ends : st[c][e] = IF c = 1 THEN "up" ELSE "none"
  BY <1>1 DEF Init, Ends
<1>3. ~ Unacked /\ ~ Holding /\ cur = 0 /\ Fresh
  BY <1>2 DEF Init, Unacked, Holding, Fresh, cur
<1>4. \A c \in Links : c \in Nat /\ (c <= 1 <=> c = 1)
  BY SessionAssumption DEF Links
<1>5. LinkInv
  BY <1>1, <1>2, <1>4 DEF LinkInv, Queue, Sock, Ends
<1>6. FlightInv /\ PhaseInv
  BY <1>2, <1>3 DEF FlightInv, PhaseInv, Sending
<1>7. HoldInv
  BY <1>2, <1>3 DEF HoldInv
<1>8. QED
  BY <1>2, <1>5, <1>6, <1>7 DEF Core, Init

LEMMA CoreStep ==
    ASSUME FinOnly, TypeInv, Core, [Next]_vars
    PROVE  TypeInv' /\ Core'
<1>1. TypeInv'
  BY TypeStep
<1>2. CASE Writer
  BY <1>1, <1>2, SafeWriter
<1>3. CASE Reader
  BY <1>1, <1>3, SafeReader
<1>4. CASE \E e \in Ends : Ripristino(e)
  BY <1>1, <1>4, SafeRipristino
<1>5. CASE Break
  BY <1>1, <1>5, SafeBreak
<1>6. CASE UNCHANGED vars
  <2> USE DEF vars, net, reader, writer
  <2>1. UNCHANGED <<client, last, con, pk, ak, st, shorts, pc, base, count, checkpoint,
                    sended_byte, quota, buffer, lastid, high>>
    BY <1>6
  <2>2. /\ N' = N /\ Body' = Body /\ NextPacket' = NextPacket /\ cur' = cur /\ Unacked' = Unacked
        /\ Holding' = Holding /\ Consumed' = Consumed /\ Fresh' = Fresh
        /\ Sending' = Sending
    BY <2>1, ReaderFrame, SendingFrame DEF Holding, Consumed, Fresh
  <2>3. LinkInv'
    BY <2>1 DEF Core, LinkInv, Queue, Sock
  <2>4. FlightInv'
    BY <2>1, <2>2 DEF Core, FlightInv
  <2>5. PhaseInv' /\ HoldInv'
    BY <2>1, <2>2 DEF Core, PhaseInv, HoldInv, Sock
  <2>6. QED
    BY <1>1, <2>1, <2>3, <2>4, <2>5 DEF Core
<1>7. CASE \E e \in Ends : CallAgain(e)
  BY <1>1, <1>7, SafeCallAgain
<1>8. QED
  BY <1>1, <1>2, <1>3, <1>4, <1>5, <1>6, <1>7 DEF Next, Stopped, ReConnectOther, FinOnly

LEMMA CoreInvariance ==
    ASSUME FinOnly
    PROVE  Spec => [](TypeInv /\ Core)
<1>1. Init => TypeInv /\ Core
  BY TypeInit, CoreInit
<1>2. TypeInv /\ Core /\ [Next]_vars => (TypeInv /\ Core)'
  BY CoreStep
<1>3. QED
  BY <1>1, <1>2, PTL DEF Spec

\* IInv holds in every state: the client is at the last connection and the
\* other end at an earlier one or the same, a connection carries at most the
\* packet Write is at or its ack, and the reader has returned exactly the bytes
\* before that packet, or also all of it.
THEOREM Invariance ==
    ASSUME FinOnly
    PROVE  Spec => []IInv
<1>1. TypeInv /\ Core => IInv
  BY DEF IInv, TypeInv, Core
<1>2. QED
  BY <1>1, CoreInvariance, PTL

\* No ack is taken for bytes that no Read has returned: Write's test of the ack
\* never takes a late or repeated one for another packet.
THEOREM WriteIsSafe ==
    ASSUME FinOnly
    PROVE  Spec => []AckedDelivered
<1>1. TypeInv /\ Core => AckedDelivered
  <2> SUFFICES ASSUME TypeInv, Core PROVE cur <= high
    BY DEF AckedDelivered, cur
  <2>1. cur \in Nat /\ quota \in Nat /\ high \in Nat
    BY Types DEF TypeInv
  <2>2. CASE Fresh
    <3>1. high = cur + quota
      BY <2>2 DEF Fresh
    <3>2. QED
      BY <2>1, <3>1
  <2>3. CASE Consumed
    <3>1. high = cur + Body /\ Body \in 1 .. PKT_DIM
      BY <2>3, NextPacketType DEF Consumed, Unacked
    <3>2. Body \in Nat
      BY <3>1, PktDimAssumption
    <3>3. QED
      BY <2>1, <3>1, <3>2
  <2>4. QED
    BY <2>2, <2>3 DEF Core, PhaseInv
<1>2. QED
  BY <1>1, CoreInvariance, PTL

\* Stop and wait, across reconnections: of the packet Write waits the ack of,
\* the connection holds the packet or its ack, or the reader has the packet.
THEOREM StopAndWait ==
    ASSUME FinOnly
    PROVE  Spec => []AtMostOneInFlight
<1>1. TypeInv /\ Core => AtMostOneInFlight
  <2> SUFFICES ASSUME TypeInv, Core PROVE AtMostOneInFlight
    OBVIOUS
  <2>1. con["w"] \in Links
    BY Types DEF TypeInv
  <2>2. pk[con["w"]] = <<>> \/ pk[con["w"]] = <<NextPacket>>
    BY <2>1 DEF Core, FlightInv
  <2>3. ak[con["w"]] = <<>> \/ ak[con["w"]] = <<checkpoint>>
    BY <2>1 DEF Core, FlightInv
  <2>4. ak[con["w"]] # <<>> => pk[con["w"]] = <<>> /\ ~ Holding
    BY <2>1 DEF Core, FlightInv
  <2>5. Holding /\ con["r"] = con["w"] => pk[con["w"]] = <<>> /\ ak[con["w"]] = <<>>
    BY <2>4 DEF Core, HoldInv
  <2>6. Len(<<>>) = 0 /\ Len(<<NextPacket>>) = 1 /\ Len(<<checkpoint>>) = 1
    OBVIOUS
  <2> DEFINE p == Len(pk[con["w"]])
             a == Len(ak[con["w"]])
             h == IF Holding /\ con["r"] = con["w"] THEN 1 ELSE 0
  <2>7. (p = 0 \/ p = 1) /\ (a = 0 \/ a = 1) /\ (h = 0 \/ h = 1)
    BY <2>2, <2>3, <2>6
  <2>8. (a = 1 => p = 0 /\ h = 0) /\ (h = 1 => p = 0 /\ a = 0)
    BY <2>4, <2>5, <2>6
  <2> HIDE DEF p, a, h
  <2>9. p + a + h <= 1
    BY <2>7, <2>8
  <2>10. QED
    BY <2>9 DEF AtMostOneInFlight, p, a, h
<1>2. QED
  BY <1>1, CoreInvariance, PTL

\* A Read that returns bytes returns them from the packet in the buffer, which
\* is the one Write is at.
LEMMA ReadResult ==
    ASSUME TypeInv, Core, [Next]_vars, delivered' # delivered
    PROVE  /\ pc["r"] = "take"
           /\ \E n \in Nat :
                /\ n <= Body - quota
                /\ n = rcount \/ n = Body - quota
                /\ delivered' = Append(delivered, [from |-> cur + quota, to |-> cur + quota + n])
                /\ high' = IF cur + quota + n > high THEN cur + quota + n ELSE high
                /\ UNCHANGED <<base, count, pc["w"]>>
<1> USE DEF net, reader, writer
<1>1. TakePart \/ TakeRest
  BY DEF Next, Writer, Reader, Ripristino, CallWrite, SendPacket, SendFails, ReadAck, AckReset,
         AckTest, AckEof, ReturnFromWrite, CallRead, ReadPacket, ReadBuffered, ReadBroken,
         ReadShort, ReAck, AckRefused, ReConnect, ReAccept, SelectTimeout, ReConnectOther,
         CallAgain, Break, Stopped, vars
<1>2. pc["r"] = "take"
  BY <1>1 DEF TakePart, TakeRest
<1>3. /\ buffer.hdr = Body /\ buffer.pos = cur /\ quota < Body /\ Body \in Nat
      /\ quota \in Nat /\ rcount \in Nat
  BY <1>2, HeldPacket
<1>4. pc \in [Ends -> Place]
  BY DEF TypeInv, TypeOK
<1>5. CASE TakePart
  <2>1. /\ Deliver(rcount) /\ quota + rcount < Body /\ UNCHANGED <<base, count, pc["w"]>>
    BY <1>3, <1>4, <1>5 DEF TakePart, GoTo, Ends
  <2>2. rcount <= Body - quota
    BY <1>3, <2>1
  <2>3. QED
    BY <1>2, <1>3, <2>1, <2>2 DEF Deliver
<1>6. CASE TakeRest
  <2>1. /\ Deliver(Body - quota) /\ UNCHANGED <<base, count, pc["w"]>>
    BY <1>2, <1>3, <1>4, <1>6, AckEffect DEF TakeRest, GoTo, Ends, AckRefused
  <2>2. Body - quota \in Nat /\ Body - quota <= Body - quota
    BY <1>3
  <2>3. QED
    BY <1>2, <1>3, <2>1, <2>2 DEF Deliver
<1>7. QED
  BY <1>1, <1>5, <1>6

\* The last result of a history with one result more.
LEMMA LastResult ==
    ASSUME TypeOK, NEW r \in [from : Nat, to : Nat], delivered' = Append(delivered, r)
    PROVE  delivered'[Len(delivered')] = r
BY DEF TypeOK

\* What ReadResult says of the bytes returned, in the words of the properties.
LEMMA ResultFrom ==
    ASSUME TypeInv, Core, [Next]_vars, delivered' # delivered
    PROVE  /\ delivered'[Len(delivered')].from = cur + quota
           /\ Fresh => high = cur + quota
           /\ Consumed => cur + quota <= high
           /\ cur + quota \in Nat /\ high \in Nat
<1>1. pc["r"] = "take"
  BY ReadResult
<1>2. PICK n \in Nat :
        delivered' = Append(delivered, [from |-> cur + quota, to |-> cur + quota + n])
  BY ReadResult
<1>3. /\ quota < Body /\ Body \in Nat /\ cur \in Nat /\ quota \in Nat /\ high \in Nat
      /\ Fresh => high = cur + quota
      /\ Consumed => high = cur + Body
  BY <1>1, HeldPacket
<1>4. cur + quota \in Nat /\ cur + quota + n \in Nat
  BY <1>3
<1>5. delivered'[Len(delivered')] = [from |-> cur + quota, to |-> cur + quota + n]
  BY <1>2, <1>4, LastResult DEF TypeInv
<1>6. \A a, b, c \in Nat : b < c => a + b <= a + c
  OBVIOUS
<1>7. QED
  BY <1>3, <1>4, <1>5, <1>6

\* A Read never leaves bytes out: what it returns begins at most where the
\* furthest byte returned so far ends, however often the connection fell.
THEOREM ReadsLeaveNoGap ==
    ASSUME FinOnly
    PROVE  Spec => NoGap
<1>1. TypeInv /\ Core /\ [Next]_vars =>
        [delivered' # delivered => delivered'[Len(delivered')].from <= high]_vars
  <2> SUFFICES ASSUME TypeInv, Core, [Next]_vars, delivered' # delivered
               PROVE  delivered'[Len(delivered')].from <= high
    OBVIOUS
  <2>1. Fresh \/ Consumed
    BY DEF Core, PhaseInv
  <2>2. cur + quota <= high
    BY <2>1, ResultFrom
  <2>3. QED
    BY <2>2, ResultFrom
<1>2. QED
  BY <1>1, CoreInvariance, PTL DEF Spec, NoGap

\* Bytes are returned again only from the last packet of a Write, the one whose
\* acknowledgement update_lastid forgets.
THEOREM OnlyLastPacketsRepeat ==
    ASSUME FinOnly
    PROVE  Spec => DuplicatesOnlyLast
<1>1. TypeInv /\ Core /\ [Next]_vars =>
        [delivered' # delivered /\ delivered'[Len(delivered')].from < high
            => buffer.id = buffer.max - 1]_vars
  <2> SUFFICES ASSUME TypeInv, Core, [Next]_vars, delivered' # delivered,
                      delivered'[Len(delivered')].from < high
               PROVE  buffer.id = buffer.max - 1
    OBVIOUS
  <2>1. pc["r"] = "take"
    BY ReadResult
  <2>2. ~ Fresh
    BY ResultFrom
  <2>3. Consumed
    BY <2>2 DEF Core, PhaseInv
  <2>4. checkpoint = N - 1
    BY <2>1, <2>3 DEF Core, HoldInv
  <2>5. QED
    BY <2>1, <2>4, HeldPacket
<1>2. QED
  BY <1>1, CoreInvariance, PTL DEF Spec, DuplicatesOnlyLast

-----------------------------------------------------------------------------
(***************************************************************************)
(* Session implements AtLeastOnce.                                         *)
(***************************************************************************)
\* A Read in progress was called for at least a byte.
Asking == pc["r"] # "idle" => rcount > 0

LEMMA AskingStep ==
    ASSUME TypeInv, Asking, [Next]_vars
    PROVE  Asking'
<1> USE DEF Asking, GoTo, net, reader, writer
<1>1. pc \in [Ends -> Place] /\ rcount \in Nat
  BY DEF TypeInv, TypeOK
<1>2. ASSUME NEW n \in WriteCounts, CallWrite(n) PROVE Asking'
  BY <1>1, <1>2 DEF CallWrite, Ends
<1>3. CASE SendPacket \/ SendFails \/ ReadAck \/ AckReset \/ AckEof \/ ReturnFromWrite
  BY <1>1, <1>3 DEF SendPacket, SendFails, ReadAck, AckReset, AckTest, AckEof, ReturnFromWrite,
                    Ends
<1>4. ASSUME NEW n \in ReadCounts, CallRead(n) PROVE Asking'
  <2>1. rcount' = n /\ n > 0
    BY <1>4, SessionAssumption DEF CallRead
  <2>2. QED
    BY <2>1
<1>5. CASE ReadPacket \/ ReadBuffered \/ ReadBroken \/ ReadShort \/ ReAck
  BY <1>1, <1>5 DEF ReadPacket, ReadBuffered, ReadBroken, ReadShort, ReAck, Loading, AckRefused
<1>6. CASE TakePart \/ TakeRest
  BY <1>1, <1>6 DEF TakePart, TakeRest, AckRefused
<1>7. ASSUME NEW e \in Ends, Ripristino(e) \/ CallAgain(e) PROVE Asking'
  BY <1>1, <1>7
     DEF Ripristino, CallAgain, ReConnect, ReAccept, SelectTimeout, Resume, AttemptFails, Ends
<1>8. CASE Break
  BY <1>8 DEF Break
<1>9. CASE UNCHANGED vars
  BY <1>9 DEF vars
<1>10. QED
  BY <1>2, <1>3, <1>4, <1>5, <1>6, <1>7, <1>8, <1>9
  DEF Next, Writer, Reader, Stopped, ReConnectOther

\* The count of the abstract Write, and the steps that leave it alone.
writing == IF pc["w"] = "idle" THEN 0 ELSE count

LEMMA WritingStep ==
    ASSUME TypeInv, [Next]_vars
    PROVE  \/ \E n \in WriteCounts : CallWrite(n)
           \/ ReturnFromWrite
           \/ UNCHANGED <<base, writing>>
<1> USE DEF writing, GoTo, net, reader, writer
<1>1. pc \in [Ends -> Place]
  BY DEF TypeInv, TypeOK
<1>2. CASE SendPacket \/ SendFails \/ ReadAck \/ AckReset \/ AckEof
  BY <1>1, <1>2 DEF SendPacket, SendFails, ReadAck, AckReset, AckTest, AckEof, Ends
<1>3. CASE Reader
  BY <1>1, <1>3 DEF Reader, CallRead, ReadPacket, ReadBuffered, ReadBroken, ReadShort, ReAck,
                    AckRefused, TakePart, TakeRest, Ends
<1>4. ASSUME NEW e \in Ends, Ripristino(e) \/ CallAgain(e) PROVE UNCHANGED <<base, writing>>
  BY <1>1, <1>4
     DEF Ripristino, CallAgain, ReConnect, ReAccept, SelectTimeout, Resume, AttemptFails, Ends
<1>5. CASE Break \/ UNCHANGED vars
  BY <1>5 DEF Break, vars
<1>6. QED
  BY <1>2, <1>3, <1>4, <1>5 DEF Next, Writer, Stopped, ReConnectOther

\* Every Read that returns bytes is recorded.
LEMMA HighStep ==
    ASSUME TypeInv, [Next]_vars, delivered' = delivered
    PROVE  high' = high
<1> USE DEF net, reader, writer
<1>1. ASSUME NEW n, Deliver(n) PROVE FALSE
  <2>1. Len(delivered') = Len(delivered) + 1 /\ Len(delivered) \in Nat
    BY <1>1 DEF Deliver, TypeInv, TypeOK
  <2>2. QED
    BY <2>1
<1>2. CASE TakePart
  BY <1>1, <1>2 DEF TakePart
<1>3. CASE TakeRest
  BY <1>1, <1>3 DEF TakeRest, AckRefused
<1>4. QED
  BY <1>2, <1>3
     DEF Next, Writer, Reader, Ripristino, CallWrite, SendPacket, SendFails, ReadAck, AckReset,
         AckTest, AckEof, ReturnFromWrite, CallRead, ReadPacket, ReadBuffered, ReadBroken,
         ReadShort, ReAck, AckRefused, ReConnect, ReAccept, SelectTimeout, ReConnectOther,
         CallAgain, Break, Stopped, vars

\* Every step is a step of AtLeastOnce or leaves its variables alone.
LEMMA Simulation ==
    ASSUME TypeInv, Core, Asking, [Next]_vars
    PROVE  [Promise!Next]_(Promise!vars)
<1> USE DEF net, reader, writer, Promise!vars
<1>0. /\ base \in Nat /\ count \in Nat /\ high \in Nat /\ quota \in Nat /\ sended_byte \in Nat
      /\ cur \in Nat
  BY Types DEF TypeInv
<1>1. ASSUME NEW n \in WriteCounts, CallWrite(n) PROVE Promise!Write(n)
  <2>1. pc["w"] = "idle" /\ pc'["w"] = "send" /\ count' = n
        /\ UNCHANGED <<base, delivered, high>>
    BY <1>1 DEF CallWrite, GoTo, TypeInv, TypeOK, Ends
  <2>2. QED
    BY <2>1 DEF Promise!Write
<1>2. ASSUME ReturnFromWrite PROVE Promise!Return
  <2>1. pc["w"] = "send" /\ pc'["w"] = "idle" /\ base' = base + sended_byte
        /\ UNCHANGED <<delivered, high>> /\ ~ Unacked /\ checkpoint = N
    BY <1>2, NType DEF ReturnFromWrite, GoTo, TypeInv, TypeOK, Ends, Unacked
  <2>2. sended_byte = count /\ count > 0
    BY <2>1, NType DEF TypeInv, CallInv
  <2>3. high = cur
    BY <2>1, Quiet
  <2>4. high = base + count
    BY <2>2, <2>3 DEF cur
  <2>5. QED
    BY <1>0, <2>1, <2>2, <2>4 DEF Promise!Return
<1>3. ASSUME delivered' # delivered PROVE Promise!Read
  <2>1. pc["r"] = "take"
    BY <1>3, ReadResult
  <2>2. PICK n \in Nat :
          /\ n <= Body - quota
          /\ n = rcount \/ n = Body - quota
          /\ delivered' = Append(delivered, [from |-> cur + quota, to |-> cur + quota + n])
          /\ high' = IF cur + quota + n > high THEN cur + quota + n ELSE high
          /\ UNCHANGED <<base, count, pc["w"]>>
    BY <1>3, ReadResult
  <2>3. /\ quota < Body /\ Body \in Nat /\ rcount \in Nat /\ Unacked
        /\ Fresh => high = cur + quota
        /\ Consumed => high = cur + Body
    BY <2>1, HeldPacket
  <2>4. n > 0 /\ n + quota <= Body
    BY <1>0, <2>1, <2>2, <2>3 DEF Asking
  <2>5. sended_byte + Body <= count
    <3>1. /\ checkpoint \in Nat /\ checkpoint < get_pkt_number(count) /\ count > 0
          /\ pc["w"] # "idle" /\ sended_byte = PKT_DIM * checkpoint
      <4>1. checkpoint \in Nat /\ PKT_DIM \in Nat
        BY PktDimAssumption, Types DEF TypeInv
      <4>2. /\ checkpoint < get_pkt_number(count) /\ count > 0 /\ pc["w"] # "idle"
            /\ sended_byte = checkpoint * PKT_DIM
        BY <2>3, NextPacketType DEF Unacked, N, TypeInv, CallInv
      <4>3. \A a, b \in Nat : a * b = b * a
        OBVIOUS
      <4>4. QED
        BY <4>1, <4>2, <4>3
    <3>2. PKT_DIM * checkpoint + Body <= count
      BY <1>0, <3>1, BodyBytes DEF Body
    <3>3. QED
      BY <3>1, <3>2
  <2>6. /\ cur + quota \in base .. high
        /\ cur + quota + n \in (cur + quota + 1) .. (base + writing)
    <3>1. pc["w"] # "idle"
      BY <2>3 DEF Unacked
    <3>2. cur + quota <= high
      BY <1>0, <2>3 DEF Core, PhaseInv
    <3>3. cur + quota + n <= base + count
      BY <1>0, <2>3, <2>4, <2>5 DEF cur
    <3>4. QED
      BY <1>0, <2>4, <3>1, <3>2, <3>3 DEF cur, writing
  <2>7. UNCHANGED <<writing, base>>
    BY <2>2 DEF writing
  <2>8. QED
    BY <2>2, <2>6, <2>7 DEF Promise!Read, writing
<1>4. CASE delivered' = delivered
  <2>1. high' = high
    BY <1>4, HighStep
  <2>2. QED
    BY <1>1, <1>2, <1>4, <2>1, WritingStep DEF writing, Promise!Next
<1>5. QED
  BY <1>3, <1>4 DEF Promise!Next

\* The connection keeps the promise of AtLeastOnce: the stream is returned
\* without a gap, and a Write that has returned has all been returned by Reads.
THEOREM SessionImplementsAtLeastOnce ==
    ASSUME FinOnly
    PROVE  Spec => AtLeastOnceSpec
<1>1. Init => Promise!Init /\ Asking
  BY DEF Init, Promise!Init, Asking, Ends
<1>2. TypeInv /\ Core /\ Asking /\ [Next]_vars => Asking' /\ [Promise!Next]_(Promise!vars)
  BY AskingStep, Simulation
<1>3. QED
  BY <1>1, <1>2, CoreInvariance, PTL DEF Spec, AtLeastOnceSpec, Promise!Spec
=============================================================================

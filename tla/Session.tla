------------------------------ MODULE Session ------------------------------
(***************************************************************************)
(* One CCS connection of the session layer (Sessione/TCP_Session.c): the   *)
(* end that calls Write, the end that calls Read, the TCP connections that *)
(* carry their packets and acknowledgements one after the other, and the   *)
(* recovery (Ripristino) each end runs when its TCP connection falls.      *)
(*                                                                         *)
(* The bytes written form one stream; a byte is its position in it.  Write *)
(* sends one packet and waits for its ack; Read acks a packet when it has  *)
(* handed its last byte to the application.  Either end can be the one     *)
(* that called Connect (the client); the other is the server.              *)
(***************************************************************************)
EXTENDS Packets, Sequences

CONSTANTS
    Total,          \* bound: bytes the application writes in all
    WriteCounts,    \* the counts Write is called with
    ReadCounts,     \* the counts Read is called with
    MaxLinks,       \* bound: TCP connections opened in all
    MAX_TENTATIVI,  \* recovery attempts before giving up: 60 in TCP_Session.h
    MaxShort,       \* bound: reads that return a fragment of a packet
    Resets,         \* the ends that may see a connection end with a RST
    Shared,         \* whether the client process has other CCS connections
    SigPipe         \* what SIGPIPE does to a process: a subset of Dispositions

Ends == {"w", "r"}
Other(e) == IF e = "w" THEN "r" ELSE "w"
Links == 1 .. MaxLinks
Dispositions == {"ignored", "default"}

ASSUME SessionAssumption ==
    /\ Total \in Nat
    /\ WriteCounts \subseteq Nat \ {0}
    /\ ReadCounts \subseteq Nat \ {0}
    /\ MaxLinks \in Nat \ {0}
    /\ MAX_TENTATIVI \in Nat \ {0}
    /\ MaxShort \in Nat
    /\ Resets \subseteq Ends
    /\ Shared \in BOOLEAN
    /\ SigPipe \subseteq Dispositions

VARIABLES
    client,      \* the end that called Connect; it never changes
    \* ---- the TCP connections, in the order the client opened them
    last,        \* the connection opened last
    con,         \* per end: the connection its private descriptor refers to
    pk,          \* per connection: packets on their way to the reader
    ak,          \* per connection: acks on their way to the writer
    st,          \* per connection and end: what the kernel knows of it
    shorts,      \* reads that returned a fragment so far
    \* ---- the application and the call in progress
    pc,          \* per end: where its call is
    base,        \* bytes of the Writes that have returned
    count,       \* the count of the Write in progress
    rcount,      \* the count of the Read in progress
    \* ---- socket_map_list and the locals of the calls
    checkpoint, sended_byte, ack,
    quota, buffer, lastid,
    tent,        \* per end: attempts of the Ripristino in progress
    \* ---- history
    delivered,   \* the result of every Read: the part of the stream it returned
    high         \* the end of the furthest byte a Read has returned

writer == <<base, count, checkpoint, sended_byte, ack>>
reader == <<rcount, quota, buffer, lastid, delivered, high>>
net == <<last, con, pk, ak, st>>
vars == <<client, net, shorts, pc, writer, reader, tent>>

NoPacket == [hdr |-> 0, id |-> 0, max |-> 0, pos |-> 0]

Init ==
    /\ client \in Ends
    /\ last = 1
    /\ con = [e \in Ends |-> 1]
    /\ pk = [c \in Links |-> <<>>]
    /\ ak = [c \in Links |-> <<>>]
    /\ st = [c \in Links |-> [e \in Ends |-> IF c = 1 THEN "up" ELSE "none"]]
    /\ shorts = 0
    /\ pc = [e \in Ends |-> "idle"]
    /\ base = 0 /\ count = 0 /\ rcount = 0
    /\ checkpoint = 0 /\ sended_byte = 0 /\ ack = 0
    /\ quota = 0 /\ buffer = NoPacket /\ lastid = -1
    /\ tent = [e \in Ends |-> 0]
    /\ delivered = <<>> /\ high = 0

-----------------------------------------------------------------------------
(***************************************************************************)
(* The socket of an end.  Its state is "up"; "fin" once the peer's FIN has *)
(* arrived (a read returns what is queued and then 0, a send is accepted   *)
(* and its data thrown away by the peer, whose answer makes it "dead");    *)
(* "rst" when a RST came with no FIN before it (a read returns what is     *)
(* queued and then fails once with ECONNRESET); "dead" (a read returns     *)
(* what is queued and then 0, a send fails with EPIPE).                    *)
(***************************************************************************)
EndState == {"none", "up", "fin", "rst", "dead"}

Sock(e) == st[con[e]][e]
Queue(e) == IF e = "w" THEN ak[con["w"]] ELSE pk[con["r"]]

Put(e, state) == [st EXCEPT ![con[e]][e] = state]

\* A system call that fails reports a pending ECONNRESET, once.
ErrorReported(e) == st' = IF Sock(e) = "rst" THEN Put(e, "dead") ELSE st

SendAccepted(e) == Sock(e) \in {"up", "fin"}

AfterSend(e) ==
    \/ st' = st
    \/ Sock(e) = "fin" /\ st' = Put(e, "dead")

Sent(e, queues, m) ==
    IF Sock(e) = "up" THEN [queues EXCEPT ![con[e]] = Append(@, m)] ELSE queues

AtEof(e) == Queue(e) = <<>> /\ Sock(e) \in {"fin", "dead"}
AtReset(e) == Queue(e) = <<>> /\ Sock(e) = "rst"

GoTo(e, where) == pc' = [pc EXCEPT ![e] = where]

-----------------------------------------------------------------------------
(***************************************************************************)
(* Write.                                                                  *)
(***************************************************************************)
N == get_pkt_number(count)
Body == get_current_body_bytes(count, checkpoint)

\* The application calls Write(fd, buf, n).
CallWrite(n) ==
    /\ pc["w"] = "idle"
    /\ base + n <= Total
    /\ count' = n
    /\ ack' = 0
    /\ GoTo("w", "send")
    /\ UNCHANGED <<client, net, shorts, base, checkpoint, sended_byte, reader, tent>>

\* Mutant: every packet claims to be full, the last one too.
NextPacketFull == [hdr |-> PKT_DIM, id |-> checkpoint, max |-> N,
                   pos |-> base + checkpoint * PKT_DIM]

NextPacket == [hdr |-> Body, id |-> checkpoint, max |-> N,
               pos |-> base + checkpoint * PKT_DIM]

SendPacket ==
    /\ pc["w"] = "send"
    /\ checkpoint # N
    /\ SendAccepted("w")
    /\ pk' = Sent("w", pk, NextPacket)
    /\ AfterSend("w")
    /\ GoTo("w", "ack")
    /\ UNCHANGED <<client, last, con, ak, shorts, writer, reader, tent>>

\* send returned less than a packet.
SendFails ==
    /\ pc["w"] = "send"
    /\ checkpoint # N
    /\ ~ SendAccepted("w")
    /\ ErrorReported("w")
    /\ GoTo("w", "ripristino")
    /\ UNCHANGED <<client, last, con, pk, ak, shorts, writer, reader, tent>>

\* Mutant: whatever was read is taken for the ack of the packet.
AckTestAny ==
    /\ checkpoint' = checkpoint + 1
    /\ sended_byte' = sended_byte + Body
    /\ GoTo("w", "send")
    /\ UNCHANGED <<client, last, con, pk, shorts, base, count, reader, tent>>

\* The test after the read of the ack, whatever that read returned but 0.
AckTest ==
    /\ IF ack' = checkpoint
       THEN /\ checkpoint' = checkpoint + 1
            /\ sended_byte' = sended_byte + Body
       ELSE UNCHANGED <<checkpoint, sended_byte>>
    /\ GoTo("w", "send")
    /\ UNCHANGED <<client, last, con, pk, shorts, base, count, reader, tent>>

ReadAck ==
    /\ pc["w"] = "ack"
    /\ Queue("w") # <<>>
    /\ ack' = Head(Queue("w"))
    /\ ak' = [ak EXCEPT ![con["w"]] = Tail(@)]
    /\ UNCHANGED st
    /\ AckTest

\* The read of the ack failed: ack keeps its value and is tested all the same.
AckReset ==
    /\ pc["w"] = "ack"
    /\ AtReset("w")
    /\ UNCHANGED <<ack, ak>>
    /\ ErrorReported("w")
    /\ AckTest

\* Mutant: the end of the connection is not told from an ack.
AckEofUntested ==
    /\ pc["w"] = "ack"
    /\ AtEof("w")
    /\ UNCHANGED <<ack, ak, st>>
    /\ AckTest

AckEof ==
    /\ pc["w"] = "ack"
    /\ AtEof("w")
    /\ GoTo("w", "ripristino")
    /\ UNCHANGED <<client, net, shorts, writer, reader, tent>>

ReturnFromWrite ==
    /\ pc["w"] = "send"
    /\ checkpoint = N
    /\ base' = base + sended_byte
    /\ checkpoint' = 0
    /\ sended_byte' = 0
    /\ GoTo("w", "idle")
    /\ UNCHANGED <<client, net, shorts, count, ack, reader, tent>>

-----------------------------------------------------------------------------
(***************************************************************************)
(* Read and Read_from_packet.                                              *)
(***************************************************************************)
CallRead(n) ==
    /\ pc["r"] = "idle"
    /\ rcount' = n
    /\ GoTo("r", "load")
    /\ UNCHANGED <<client, net, shorts, writer, quota, buffer, lastid, delivered, high, tent>>

\* Mutant: no packet is recognised as acked before.
AfterHeaderTake(p) == "take"

\* Whether the packet in the buffer is the one acked last.
AfterHeader(p) == IF p.id = lastid THEN "dup" ELSE "take"

\* The first read of Read_from_packet, or the one that follows a re-ack.
Loading == (pc["r"] = "load" /\ quota = 0) \/ pc["r"] = "reload"

ReadPacket ==
    /\ Loading
    /\ Queue("r") # <<>>
    /\ buffer' = Head(Queue("r"))
    /\ pk' = [pk EXCEPT ![con["r"]] = Tail(@)]
    /\ GoTo("r", IF pc["r"] = "reload" THEN "take" ELSE AfterHeader(buffer'))
    /\ UNCHANGED <<client, last, con, ak, st, shorts, writer, rcount, quota, lastid,
                   delivered, high, tent>>

\* Part of the packet in the buffer was returned by an earlier Read.
ReadBuffered ==
    /\ pc["r"] = "load"
    /\ quota # 0
    /\ GoTo("r", AfterHeader(buffer))
    /\ UNCHANGED <<client, net, shorts, writer, reader, tent>>

ReadBroken ==
    /\ Loading
    /\ AtEof("r") \/ AtReset("r")
    /\ ErrorReported("r")
    /\ GoTo("r", "ripristino")
    /\ UNCHANGED <<client, last, con, pk, ak, shorts, writer, reader, tent>>

\* read returned the first segment of a packet: less than PROTOCOL_PKT_DIM.
ReadShort ==
    /\ Loading
    /\ Queue("r") # <<>>
    /\ shorts < MaxShort
    /\ last < MaxLinks
    /\ shorts' = shorts + 1
    /\ buffer' = Head(Queue("r"))
    /\ GoTo("r", "ripristino")
    /\ UNCHANGED <<client, net, writer, rcount, quota, lastid, delivered, high, tent>>

\* write of an ack on a socket that refuses it: the error return, or SIGPIPE
\* when the error is EPIPE and not a pending ECONNRESET.
AckRefused ==
    /\ ~ SendAccepted("r")
    /\ ErrorReported("r")
    /\ \/ Sock("r") = "rst" /\ GoTo("r", "ripristino")
       \/ Sock("r") # "rst" /\ "ignored" \in SigPipe /\ GoTo("r", "ripristino")
       \/ Sock("r") # "rst" /\ "default" \in SigPipe /\ GoTo("r", "killed")
    /\ UNCHANGED <<client, last, con, pk, ak, shorts, writer, reader, tent>>

AckWritten == SendAccepted("r") /\ ak' = Sent("r", ak, buffer.id) /\ AfterSend("r")

\* The packet was acked before: ack it again and read the next one.
ReAck ==
    /\ pc["r"] = "dup"
    /\ \/ AckRefused
       \/ /\ AckWritten
          /\ GoTo("r", "reload")
          /\ UNCHANGED <<client, last, con, pk, shorts, writer, reader, tent>>

\* Read returns n more bytes of the packet in the buffer.
Deliver(n) ==
    LET from == buffer.pos + quota IN
    /\ delivered' = Append(delivered, [from |-> from, to |-> from + n])
    /\ high' = IF from + n > high THEN from + n ELSE high

\* Mutant: the packet is acked as soon as a part of it is returned.
TakePartAcking ==
    /\ pc["r"] = "take"
    /\ quota + rcount < buffer.hdr
    /\ AckWritten
    /\ Deliver(rcount)
    /\ quota' = quota + rcount
    /\ GoTo("r", "idle")
    /\ UNCHANGED <<client, last, con, pk, shorts, writer, rcount, buffer, lastid, tent>>

\* Case 1: the packet holds more than the Read asked for.
TakePart ==
    /\ pc["r"] = "take"
    /\ quota + rcount < buffer.hdr
    /\ Deliver(rcount)
    /\ quota' = quota + rcount
    /\ GoTo("r", "idle")
    /\ UNCHANGED <<client, net, shorts, writer, rcount, buffer, lastid, tent>>

\* Mutant: the last packet of a Write is remembered into the next Write.
LastIdKept == buffer.id

\* update_lastid
LastId == IF buffer.id = buffer.max - 1 THEN -1 ELSE buffer.id

\* Case 2: ack the packet, then return the rest of it.  A rest of 0 bytes is a
\* failed read for Read; memcpy of a negative rest ends the process.
TakeRest ==
    /\ pc["r"] = "take"
    /\ quota + rcount >= buffer.hdr
    /\ \/ AckRefused
       \/ /\ AckWritten
          /\ lastid' = LastId
          /\ quota' = 0
          /\ IF quota < buffer.hdr
             THEN Deliver(buffer.hdr - quota) /\ GoTo("r", "idle")
             ELSE /\ GoTo("r", IF quota = buffer.hdr THEN "ripristino" ELSE "killed")
                  /\ UNCHANGED <<delivered, high>>
          /\ UNCHANGED <<client, last, con, pk, shorts, writer, rcount, buffer, tent>>

-----------------------------------------------------------------------------
(***************************************************************************)
(* Ripristino.  The client closes its socket and connects again, the       *)
(* server waits for the next connection of the listening socket.  Then     *)
(* Write and Read start over, with the record as it is.                    *)
(***************************************************************************)
\* Mutant: a Write that starts over waits for the ack without sending again.
ResumeWaiting(e) ==
    /\ GoTo(e, IF e = "w" THEN "ack" ELSE "load")
    /\ tent' = [tent EXCEPT ![e] = 0]
    /\ IF e = "w" THEN ack' = 0 ELSE UNCHANGED ack

Resume(e) ==
    /\ GoTo(e, IF e = "w" THEN "send" ELSE "load")
    /\ tent' = [tent EXCEPT ![e] = 0]
    /\ IF e = "w" THEN ack' = 0 ELSE UNCHANGED ack

\* Mutants: one attempt too many; attempts that are not counted.
AttemptFailsLate(e) ==
    /\ tent' = [tent EXCEPT ![e] = @ + 1]
    /\ IF tent'[e] > MAX_TENTATIVI THEN GoTo(e, "failed") ELSE UNCHANGED pc
    /\ UNCHANGED ack
AttemptFailsUncounted(e) == UNCHANGED <<tent, pc, ack>>

AttemptFails(e) ==
    /\ tent' = [tent EXCEPT ![e] = @ + 1]
    /\ IF tent'[e] = MAX_TENTATIVI THEN GoTo(e, "failed") ELSE UNCHANGED pc
    /\ UNCHANGED ack

\* close: the peer gets a FIN, or a RST if data is left unread.
Closed(e) ==
    [st EXCEPT ![con[e]] =
        [x \in Ends |-> IF x = e THEN "dead"
                        ELSE IF @[x] # "up" THEN @[x]
                        ELSE IF Queue(e) = <<>> THEN "fin" ELSE "rst"]]

ReConnect(e) ==
    /\ e = client
    /\ pc[e] = "ripristino"
    /\ \/ /\ last < MaxLinks
          /\ last' = last + 1
          /\ con' = [con EXCEPT ![e] = last + 1]
          /\ st' = [Closed(e) EXCEPT ![last + 1] = [x \in Ends |-> "up"]]
          /\ Resume(e)
       \/ /\ AttemptFails(e)
          /\ st' = Closed(e)
          /\ UNCHANGED <<last, con>>
    /\ UNCHANGED <<client, pk, ak, shorts, base, count, checkpoint, sended_byte, reader>>

\* Another connection of the client's process has fallen: its Ripristino closes
\* and connects again this one too, which no call is using.
ReConnectOther(e) ==
    /\ Shared
    /\ e = client
    /\ pc[e] = "idle"
    /\ \/ /\ last < MaxLinks
          /\ last' = last + 1
          /\ con' = [con EXCEPT ![e] = last + 1]
          /\ st' = [Closed(e) EXCEPT ![last + 1] = [x \in Ends |-> "up"]]
       \/ /\ st' = Closed(e)
          /\ UNCHANGED <<last, con>>
    /\ UNCHANGED <<client, pk, ak, shorts, pc, writer, reader, tent>>

ReAccept(e) ==
    /\ e # client
    /\ pc[e] = "ripristino"
    /\ con[e] < last
    /\ con' = [con EXCEPT ![e] = @ + 1]
    /\ st' = Closed(e)
    /\ Resume(e)
    /\ UNCHANGED <<client, last, pk, ak, shorts, base, count, checkpoint, sended_byte, reader>>

SelectTimeout(e) ==
    /\ e # client
    /\ pc[e] = "ripristino"
    /\ con[e] = last
    /\ AttemptFails(e)
    /\ UNCHANGED <<client, net, shorts, base, count, checkpoint, sended_byte, reader>>

\* Writen and Readn: a call that failed because a signal interrupted its last
\* attempt (EINTR) is made again, with the record as the failed one left it.
CallAgain(e) ==
    /\ pc[e] = "failed"
    /\ Resume(e)
    /\ UNCHANGED <<client, net, shorts, base, count, checkpoint, sended_byte, reader>>

-----------------------------------------------------------------------------
(***************************************************************************)
(* The network: the connection in use falls.  What is on its way is lost   *)
(* from some point on, in both directions.                                 *)
(***************************************************************************)
Endings == {how \in [Ends -> {"fin", "rst"}] : \A e \in Ends : how[e] = "rst" => e \in Resets}

Break ==
    /\ last < MaxLinks
    /\ st[last] = [e \in Ends |-> "up"]
    /\ \E n \in 0 .. Len(pk[last]), m \in 0 .. Len(ak[last]) :
         /\ pk' = [pk EXCEPT ![last] = SubSeq(@, 1, n)]
         /\ ak' = [ak EXCEPT ![last] = SubSeq(@, 1, m)]
    /\ \E how \in Endings : st' = [st EXCEPT ![last] = how]
    /\ UNCHANGED <<client, last, con, shorts, pc, writer, reader, tent>>

-----------------------------------------------------------------------------
GaveUp == \E e \in Ends : pc[e] \in {"failed", "killed"}
Finished == pc["w"] = "idle" /\ \A n \in WriteCounts : base + n > Total

Stopped == (Finished \/ GaveUp) /\ UNCHANGED vars

Writer ==
    \/ \E n \in WriteCounts : CallWrite(n)
    \/ SendPacket \/ SendFails \/ ReadAck \/ AckReset \/ AckEof \/ ReturnFromWrite
Reader ==
    \/ \E n \in ReadCounts : CallRead(n)
    \/ ReadPacket \/ ReadBuffered \/ ReadBroken \/ ReadShort \/ ReAck \/ TakePart \/ TakeRest
Ripristino(e) == ReConnect(e) \/ ReAccept(e) \/ SelectTimeout(e)

Next ==
    \/ Writer \/ Reader \/ Break \/ Stopped
    \/ \E e \in Ends : Ripristino(e)
    \/ \E e \in Ends : ReConnectOther(e) \/ CallAgain(e)

Spec == Init /\ [][Next]_vars

\* Each end is a thread that keeps running; the network need not fail and a call
\* that gave up need not be made again.
FairSpec ==
    /\ Spec
    /\ WF_vars(Writer) /\ WF_vars(Reader)
    /\ \A e \in Ends : WF_vars(Ripristino(e))
-----------------------------------------------------------------------------
(***************************************************************************)
(* Properties.                                                             *)
(***************************************************************************)

Place == {"idle", "send", "ack", "load", "dup", "reload", "take",
          "ripristino", "failed", "killed"}

\* Every variable of the record, of the calls and of the sockets has its type.
TypeOK ==
    /\ client \in Ends
    /\ last \in Links /\ con \in [Ends -> Links]
    /\ pk \in [Links -> Seq(Packet)] /\ ak \in [Links -> Seq(Nat)]
    /\ st \in [Links -> [Ends -> EndState]]
    /\ shorts \in 0 .. MaxShort
    /\ pc \in [Ends -> Place]
    /\ base \in Nat /\ count \in Nat /\ rcount \in Nat
    /\ checkpoint \in Nat /\ sended_byte \in Nat /\ ack \in Nat
    /\ quota \in Nat /\ buffer \in Packet /\ lastid \in Nat \cup {-1}
    /\ tent \in [Ends -> 0 .. MAX_TENTATIVI]
    /\ delivered \in Seq([from : Nat, to : Nat]) /\ high \in Nat

\* What Write counts as sent has been returned by Reads: no ack is taken for a
\* packet the other end has not read to its last byte.
AckedDelivered == base + sended_byte <= high

\* Stop and wait: of the packet the writer waits the ack of, its connection
\* carries the packet, or the reader holds it, or the connection carries its
\* ack, never two of these.
Holding == pc["r"] \in {"dup", "take"} \/ quota # 0
AtMostOneInFlight ==
    Len(pk[con["w"]]) + Len(ak[con["w"]])
        + (IF Holding /\ con["r"] = con["w"] THEN 1 ELSE 0) <= 1

\* A Read never returns bytes that lie past a byte no Read has returned.
NoGap ==
    [][delivered' # delivered => delivered'[Len(delivered')].from <= high]_vars

\* The bytes a Read returns a second time are those of the last packet of a
\* Write: of the others the copies are recognised and thrown away.
DuplicatesOnlyLast ==
    [][delivered' # delivered /\ delivered'[Len(delivered')].from < high
        => buffer.id = buffer.max - 1]_vars

\* The comment on Read_from_packet: a packet received twice is thrown away.
ExactlyOnce == \A i \in 1 .. Len(delivered) - 1 : delivered[i + 1].from = delivered[i].to

\* The bytes of the stream from one position up to another have been returned.
Returned(p) == \E i \in 1 .. Len(delivered) : delivered[i].from <= p /\ p < delivered[i].to
Covered(from, to) == \A p \in from .. to - 1 : Returned(p)

\* Write goes past a packet no Read has returned only where its read of the ack
\* of packet 0 fails: no ack that it reads is one too many.
FalseAckOnlyFirst ==
    [][checkpoint' > checkpoint =>
           \/ Covered(base + sended_byte, base + sended_byte')
           \/ AckReset /\ checkpoint = 0]_vars

\* The comment on Read_from_packet: the ack is sent for a packet whose bytes are
\* returned.  An ack that Write reads stands for the bytes it takes as sent.
AcksStandForReads ==
    [][ReadAck /\ checkpoint' > checkpoint =>
           Covered(base + sended_byte, base + sended_byte')]_vars

\* Every call ends: the writer gets all its Writes done, or an end gives up
\* after MAX_TENTATIVI attempts (or is killed).
Termination == <>(Finished \/ GaveUp)

\* With no end that gives up, what has been written is all returned by Reads.
AllReturned == <>((Finished /\ high = base) \/ GaveUp)

\* The connection keeps the promise of AtLeastOnce.
Promise == INSTANCE AtLeastOnce
    WITH writing <- IF pc["w"] = "idle" THEN 0 ELSE count
AtLeastOnceSpec == Promise!Spec
=============================================================================

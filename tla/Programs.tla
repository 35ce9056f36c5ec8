------------------------------ MODULE Programs ------------------------------
(***************************************************************************)
(* The programs of applicazioni/ on top of the layer: a client, one        *)
(* process, opens its connections one after the other and takes turns on   *)
(* them, one in Write while the other end is in Read; a server, another,   *)
(* accepts each connection and gives it a thread, then joins the threads.  *)
(* Session models one direction of one connection; here both directions    *)
(* share a connection, what an end reads is words, so that nothing but its *)
(* place tells a word of a packet from an ack, and the client's Ripristino *)
(* reconnects all its connections, whichever of them fell.                 *)
(*                                                                         *)
(* A packet is its three header words and one word for the body.  A Readn  *)
(* may end inside a packet, as the clients' of 10000 bytes do: the Reads   *)
(* that return a packet are counted, and only the last of them acks it.    *)
(***************************************************************************)
EXTENDS Integers, Sequences, FiniteSets

CONSTANTS
    Tests,          \* the pairs of programs: [first, turns, parts, order, falls], see below
    MAX_TENTATIVI,  \* recovery attempts before giving up
    LastAckLost,    \* whether a fall may lose the ack of the last packet of a Write
    Together        \* whether the connections fall together (one proxy killed)
                    \* and the proxy is not started again in the middle of a pass

Ends == {"c", "s"}
Other(e) == IF e = "c" THEN "s" ELSE "c"

\* first: the end that makes the first Write of a connection; turns: the packets
\* of each Write, the ends take them in turn; parts: in how many Reads each packet
\* of each Write is returned; order: the connections on which the client takes its
\* turns, one after the other; falls, a bound: times the network fails.
PartsOf(turns, parts) ==
    /\ DOMAIN parts = DOMAIN turns
    /\ \A t \in DOMAIN turns : parts[t] \in Seq(Nat \ {0}) /\ Len(parts[t]) = turns[t]

ASSUME ProgramsAssumption ==
    /\ \A t \in Tests : t.first \in Ends /\ t.turns \in Seq(Nat \ {0})
                         /\ PartsOf(t.turns, t.parts)
                         /\ t.order \in Seq(Nat \ {0}) /\ t.order # <<>> /\ t.falls \in Nat
    /\ MAX_TENTATIVI \in Nat \ {0}
    /\ LastAckLost \in BOOLEAN /\ Together \in BOOLEAN

VARIABLES
    test,       \* the pair of programs; it never changes
    links,      \* per connection: the TCP connections opened for it, in order
    up,         \* per connection: whether the network lets it through
    falls,
    rec,        \* per connection and end: its record and the call in progress
    client,     \* the client's main: where it is, and at which connection or turn
    server,     \* the server's main: where it is, and at which connection
    rip         \* the client's Ripristino: record it is at, ris_connect, ntentativi

vars == <<test, links, up, falls, rec, client, server, rip>>

Turns == test.turns
Conns == 1 .. Cardinality({test.order[i] : i \in DOMAIN test.order})
Points == Conns \X Ends
Last(k) == Len(links[k])

Writes(p) == rec[p].turn \in DOMAIN Turns /\ (rec[p].turn % 2 = 1 <=> p[2] = test.first)
Reads(p) == rec[p].turn \in DOMAIN Turns /\ ~ Writes(p)

\* The Reads that return packet n of turn t: two where a Readn ends inside it.
Parts(t, n) == test.parts[t][n + 1]

\* The words of packet n of turn t.  HDR stands for a count of body bytes, 100t+n
\* for a body: neither is the identifier of a packet of these Writes.
HDR == 50
DIM == 4
Packet(t, n) == <<HDR, n, Turns[t], 100 * t + n>>

NewLink == [queue |-> [e \in Ends |-> <<>>], st |-> [e \in Ends |-> "up"]]

Init ==
    /\ test \in Tests
    /\ links = [k \in Conns |-> <<>>]
    /\ up = [k \in Conns |-> TRUE] /\ falls = 0
    /\ rec = [p \in Points |->
                [con |-> 0, pc |-> "idle", turn |-> 1, checkpoint |-> 0, ack |-> 0,
                 lastid |-> -1, buffer |-> <<>>, quota |-> 0, rd |-> 0, tent |-> 0]]
    /\ client = [pc |-> "connect", at |-> 1]
    /\ server = [pc |-> "accept", at |-> 1]
    /\ rip = [at |-> 1, ris |-> 0, n |-> 0]
-----------------------------------------------------------------------------
(***************************************************************************)
(* Sockets.  The states of one are those of Session.                       *)
(***************************************************************************)
Sock(p) == links[p[1]][rec[p].con].st[p[2]]
Queue(p) == links[p[1]][rec[p].con].queue[p[2]]
Put(p, state) == [links EXCEPT ![p[1]][rec[p].con].st[p[2]] = state]

\* A read of n words: the queue without them, or without the fewer there are.
Taken(p, n) == [links EXCEPT ![p[1]][rec[p].con].queue[p[2]] = SubSeq(@, n + 1, Len(@))]

\* A system call that fails reports a pending ECONNRESET, once.
ErrorReported(p) == links' = IF Sock(p) = "rst" THEN Put(p, "dead") ELSE links

SendAccepted(p) == Sock(p) \in {"up", "fin"}

Sent(p, words) ==
    \/ /\ Sock(p) = "up"
       /\ links' = [links EXCEPT ![p[1]][rec[p].con].queue[Other(p[2])] = @ \o words]
    \/ Sock(p) = "fin" /\ links' \in {links, Put(p, "dead")}

AtEof(p) == Queue(p) = <<>> /\ Sock(p) \in {"fin", "dead"}
AtReset(p) == Queue(p) = <<>> /\ Sock(p) = "rst"

\* close by end e: the kernel frees what is unread, and the peer gets a FIN, or a RST
\* if there was any.
Shut(link, e) ==
    [link EXCEPT !.queue[e] = <<>>,
                 !.st = [x \in Ends |-> IF x = e THEN "dead"
                                        ELSE IF @[x] # "up" THEN @[x]
                                        ELSE IF link.queue[e] = <<>> THEN "fin" ELSE "rst"]]
\* A connection nobody has accepted, when its listening socket is closed.
Refused(link) ==
    [link EXCEPT !.queue["s"] = <<>>,
                 !.st = [x \in Ends |-> IF x = "c" /\ @[x] = "up" THEN "rst" ELSE @[x]]]

Closed(p) == [l \in DOMAIN links[p[1]] |->
                IF l = rec[p].con THEN Shut(links[p[1]][l], p[2]) ELSE links[p[1]][l]]

\* The process of an end ends and closes what it has open.
Exit(e) ==
    links' = [k \in Conns |-> [l \in DOMAIN links[k] |->
                IF e = "s" /\ l > rec[<<k, e>>].con THEN Refused(links[k][l])
                ELSE Closed(<<k, e>>)[l]]]
-----------------------------------------------------------------------------
(***************************************************************************)
(* Whose turn it is: the client's main makes its calls one after the       *)
(* other, each thread of the server those of its connection.               *)
(***************************************************************************)
Alive(e) == IF e = "c" THEN client.pc \notin {"ok", "failed"} ELSE server.pc \notin {"ok", "failed"}

Active(p) ==
    IF p[2] = "c"
    THEN client.pc = "turns" /\ client.at \in DOMAIN test.order /\ test.order[client.at] = p[1]
    ELSE Alive("s") /\ rec[p].con # 0

\* A Writen or a Readn has returned.
TurnOver(p) ==
    client' = IF p[2] = "c" THEN [client EXCEPT !.at = @ + 1] ELSE client

Become(p, r) == rec' = [rec EXCEPT ![p] = r]
GoTo(p, where) == Become(p, [rec[p] EXCEPT !.pc = where])

\* A send or a read that fails ends in Ripristino.
Broken(p) == ErrorReported(p) /\ GoTo(p, "ripristino")
-----------------------------------------------------------------------------
(***************************************************************************)
(* Write.                                                                  *)
(***************************************************************************)
Write(p) ==
    /\ Writes(p) /\ rec[p].pc = "idle"
    /\ Become(p, [rec[p] EXCEPT !.ack = 0, !.pc = "send"])
    /\ UNCHANGED <<links, client>>

SendPacket(p) ==
    /\ rec[p].pc = "send" /\ rec[p].checkpoint # Turns[rec[p].turn]
    /\ IF SendAccepted(p)
       THEN Sent(p, Packet(rec[p].turn, rec[p].checkpoint)) /\ GoTo(p, "ack")
       ELSE Broken(p)
    /\ UNCHANGED client

update_sended_byte(r) == [r EXCEPT !.checkpoint = @ + 1]
reset_sended_byte(r) == [r EXCEPT !.checkpoint = 0]

AckTest(r) == IF r.ack = r.checkpoint THEN update_sended_byte(r) ELSE r

\* The read of the ack returns a word, or fails and leaves ack as it is.
ReadAck(p) ==
    /\ rec[p].pc = "ack"
    /\ \/ /\ Queue(p) # <<>>
          /\ links' = Taken(p, 1)
          /\ Become(p, AckTest([rec[p] EXCEPT !.ack = Queue(p)[1], !.pc = "send"]))
       \/ /\ AtReset(p)
          /\ ErrorReported(p)
          /\ Become(p, AckTest([rec[p] EXCEPT !.pc = "send"]))
    /\ UNCHANGED client

AckEof(p) ==
    /\ rec[p].pc = "ack" /\ AtEof(p)
    /\ GoTo(p, "ripristino")
    /\ UNCHANGED <<links, client>>

ReturnFromWrite(p) ==
    /\ rec[p].pc = "send" /\ rec[p].checkpoint = Turns[rec[p].turn]
    /\ Become(p, reset_sended_byte([rec[p] EXCEPT !.turn = @ + 1, !.pc = "idle"]))
    /\ TurnOver(p)
    /\ UNCHANGED links
-----------------------------------------------------------------------------
(***************************************************************************)
(* Read, called until the packets of the turn have been returned.  quota   *)
(* counts the parts of the packet in the buffer that Reads have returned.  *)
(***************************************************************************)
Loading(p) ==
    /\ Reads(p)
    /\ \/ rec[p].pc = "idle" /\ rec[p].quota = 0
       \/ rec[p].pc = "reload"

\* Where a Read starts: with part of a packet in the buffer it loads none, and
\* only looks again whether it acked this one before.
ReadFrom(r) == IF r.quota = 0 THEN "idle" ELSE IF r.buffer[2] = r.lastid THEN "dup" ELSE "take"

\* Mutant: a packet acked before is not told from a new one.
ReadPacketNew(p) ==
    /\ Loading(p) /\ Len(Queue(p)) >= DIM
    /\ links' = Taken(p, DIM)
    /\ Become(p, [rec[p] EXCEPT !.buffer = SubSeq(Queue(p), 1, DIM), !.pc = "take"])
    /\ UNCHANGED client

ReadPacket(p) ==
    /\ Loading(p) /\ Len(Queue(p)) >= DIM
    /\ links' = Taken(p, DIM)
    /\ Become(p, [rec[p] EXCEPT
         !.buffer = SubSeq(Queue(p), 1, DIM),
         !.pc = IF @ = "idle" /\ Queue(p)[2] = rec[p].lastid THEN "dup" ELSE "take"])
    /\ UNCHANGED client

\* Part of a packet, the end of the connection or an error.
ReadFails(p) ==
    /\ Loading(p)
    /\ \/ /\ Len(Queue(p)) \in 1 .. (DIM - 1)
          /\ links' = Taken(p, DIM) /\ GoTo(p, "ripristino")
       \/ (AtEof(p) \/ AtReset(p)) /\ Broken(p)
    /\ UNCHANGED client

ReAck(p) ==
    /\ rec[p].pc = "dup"
    /\ IF SendAccepted(p)
       THEN Sent(p, <<rec[p].buffer[2]>>) /\ GoTo(p, "reload")
       ELSE Broken(p)
    /\ UNCHANGED client

\* update_lastid
LastId(packet) == IF packet[2] = packet[3] - 1 THEN -1 ELSE packet[2]

\* Part of the body has been returned before the last one: the Readn is over, the
\* packet not acked.  The next Readn calls Read at once.
PartLeft(p) == rec[p].buffer[1] = HDR /\ rec[p].quota + 1 < Parts(rec[p].turn, rec[p].rd)

\* Mutant: every Read acks the packet, not the last one alone.
TakePartAcking(p) ==
    /\ rec[p].pc = "take" /\ PartLeft(p) /\ SendAccepted(p)
    /\ Sent(p, <<rec[p].buffer[2]>>)
    /\ LET r == [rec[p] EXCEPT !.quota = @ + 1] IN Become(p, [r EXCEPT !.pc = ReadFrom(r)])
    /\ UNCHANGED client

TakePart(p) ==
    /\ rec[p].pc = "take" /\ PartLeft(p)
    /\ LET r == [rec[p] EXCEPT !.quota = @ + 1] IN Become(p, [r EXCEPT !.pc = ReadFrom(r)])
    /\ UNCHANGED <<links, client>>

\* The packet is acked and the rest of its body returned; after the last one of
\* the turn the last Readn returns.
Returned(p) ==
    LET r == rec[p]
        over == r.rd + 1 = Turns[r.turn] IN
    /\ Sent(p, <<r.buffer[2]>>)
    /\ Become(p, [r EXCEPT !.lastid = LastId(r.buffer), !.pc = "idle", !.quota = 0,
                           !.rd = IF over THEN 0 ELSE @ + 1,
                           !.turn = IF over THEN @ + 1 ELSE @])
    /\ IF over THEN TurnOver(p) ELSE UNCHANGED client

\* When the first word is not the count of a body, Read returns bytes nobody
\* wrote or memcpy runs past the buffer: what follows is not modelled.
Take(p) ==
    /\ rec[p].pc = "take" /\ ~ PartLeft(p)
    /\ IF SendAccepted(p) /\ rec[p].buffer[1] = HDR THEN Returned(p)
       ELSE /\ UNCHANGED client
            /\ IF SendAccepted(p) THEN GoTo(p, "misread") /\ UNCHANGED links ELSE Broken(p)
-----------------------------------------------------------------------------
(***************************************************************************)
(* Connect and the client's Ripristino.                                    *)
(***************************************************************************)
Reachable(k) == up[k] /\ Alive("s")

\* The connection of record k of the client after a connect that succeeds.
Connected(k, before) ==
    /\ links' = [links EXCEPT ![k] = Append(before, NewLink)]
    /\ rec' = [rec EXCEPT ![<<k, "c">>].con = Last(k) + 1]

\* Connect has returned 0: the next one, or the turns.
AfterConnect ==
    IF client.at = Cardinality(Conns) THEN [pc |-> "turns", at |-> 1]
    ELSE [pc |-> "connect", at |-> client.at + 1]

Connect ==
    /\ client.pc = "connect"
    /\ IF Reachable(client.at)
       THEN Connected(client.at, <<>>) /\ client' = AfterConnect
       ELSE client' = [client EXCEPT !.pc = "reconnect"] /\ UNCHANGED <<links, rec>>
    /\ UNCHANGED <<test, up, falls, server, rip>>

Recovering == client.pc = "reconnect" \/ \E k \in Conns : rec[<<k, "c">>].pc = "ripristino"

\* The records in the client's list.
Records == IF client.pc = "reconnect" THEN 1 .. client.at ELSE Conns

ReConnect(k) ==
    /\ Alive("c") /\ Recovering
    /\ k \in Records /\ k = rip.at
    /\ IF Reachable(k)
       THEN Connected(k, Closed(<<k, "c">>)) /\ rip' = [rip EXCEPT !.at = @ + 1]
       ELSE /\ links' = [links EXCEPT ![k] = Closed(<<k, "c">>)]
            /\ rip' = [rip EXCEPT !.at = @ + 1, !.ris = -1]
            /\ UNCHANGED rec
    /\ UNCHANGED <<test, up, falls, client, server>>

\* Mutant: a Write that starts over waits for the ack without sending again.
ResumeWaiting(p) == [rec[p] EXCEPT !.pc = IF Writes(p) THEN "ack" ELSE ReadFrom(rec[p]), !.ack = 0, !.tent = 0]

\* Ripristino has returned 0: the interrupted call calls itself again.
Resume(p) == [rec[p] EXCEPT !.pc = IF Writes(p) THEN "send" ELSE ReadFrom(rec[p]), !.ack = 0, !.tent = 0]

Passed == rip.at = Cardinality(Records) + 1
NewPass(n) == [at |-> 1, ris |-> 0, n |-> n]

\* Every connection is up again and Ripristino returns.
Recovered ==
    /\ Alive("c") /\ Recovering /\ Passed /\ rip.ris = 0
    /\ IF client.pc = "reconnect"
       THEN client' = AfterConnect /\ UNCHANGED rec
       ELSE /\ \E k \in Conns : rec[<<k, "c">>].pc = "ripristino" /\ Become(<<k, "c">>, Resume(<<k, "c">>))
            /\ UNCHANGED client
    /\ rip' = NewPass(0)
    /\ UNCHANGED <<test, links, up, falls, server>>

\* Mutant: one attempt too many.
PassFailedLate ==
    /\ Alive("c") /\ Recovering /\ Passed /\ rip.ris # 0
    /\ rip' = NewPass(rip.n + 1)
    /\ IF rip.n = MAX_TENTATIVI
       THEN client' = [client EXCEPT !.pc = "failed"] /\ Exit("c")
       ELSE UNCHANGED <<client, links>>
    /\ UNCHANGED <<test, up, falls, rec, server>>

\* Another attempt; when they are spent the call fails and main returns.
PassFailed ==
    /\ Alive("c") /\ Recovering /\ Passed /\ rip.ris # 0
    /\ rip' = NewPass(rip.n + 1)
    /\ IF rip.n + 1 = MAX_TENTATIVI
       THEN client' = [client EXCEPT !.pc = "failed"] /\ Exit("c")
       ELSE UNCHANGED <<client, links>>
    /\ UNCHANGED <<test, up, falls, rec, server>>

\* main has had all its turns.
ClientDone ==
    /\ client.pc = "turns" /\ client.at > Len(test.order)
    /\ client' = [client EXCEPT !.pc = "ok"]
    /\ Exit("c")
    /\ UNCHANGED <<test, up, falls, rec, server, rip>>
-----------------------------------------------------------------------------
(***************************************************************************)
(* The server: Accept, the recovery of a thread's connection, and main.    *)
(***************************************************************************)
Accept ==
    LET k == server.at
        p == <<k, "s">> IN
    /\ server.pc = "accept" /\ links[k] # <<>>
    /\ Become(p, [rec[p] EXCEPT !.con = 1])
    /\ server' = IF k = Cardinality(Conns) THEN [pc |-> "join", at |-> 1] ELSE [server EXCEPT !.at = k + 1]
    /\ UNCHANGED <<test, links, up, falls, client, rip>>

ReAccept(p) ==
    /\ p[2] = "s" /\ rec[p].pc = "ripristino"
    /\ \/ /\ rec[p].con < Last(p[1])
          /\ links' = [links EXCEPT ![p[1]] = Closed(p)]
          /\ Become(p, [Resume(p) EXCEPT !.con = @ + 1])
       \/ /\ rec[p].con = Last(p[1])
          /\ Become(p, [rec[p] EXCEPT !.tent = @ + 1,
                                      !.pc = IF rec[p].tent + 1 = MAX_TENTATIVI THEN "failed" ELSE @])
          /\ UNCHANGED links
    /\ UNCHANGED client

\* Mutant: main does not look at what the thread returned.
JoinAny ==
    /\ server.pc = "join"
    /\ rec[<<server.at, "s">>].turn > Len(Turns) \/ rec[<<server.at, "s">>].pc = "failed"
    /\ IF server.at = Cardinality(Conns)
       THEN server' = [server EXCEPT !.pc = "ok"] /\ Exit("s")
       ELSE server' = [server EXCEPT !.at = @ + 1] /\ UNCHANGED links
    /\ UNCHANGED <<test, up, falls, rec, client, rip>>

\* pthread_join: a thread that gave up ends the process.
Join ==
    LET p == <<server.at, "s">> IN
    /\ server.pc = "join"
    /\ \/ /\ rec[p].turn > Len(Turns)
          /\ IF server.at = Cardinality(Conns)
             THEN server' = [server EXCEPT !.pc = "ok"] /\ Exit("s")
             ELSE server' = [server EXCEPT !.at = @ + 1] /\ UNCHANGED links
       \/ /\ rec[p].pc = "failed"
          /\ server' = [server EXCEPT !.pc = "failed"]
          /\ Exit("s")
    /\ UNCHANGED <<test, up, falls, rec, client, rip>>
-----------------------------------------------------------------------------
(***************************************************************************)
(* The network.                                                            *)
(***************************************************************************)
\* What a fall leaves of a connection: words are lost from some point on.
Remains(link) ==
    {[queue |-> [c |-> SubSeq(link.queue["c"], 1, m), s |-> SubSeq(link.queue["s"], 1, n)],
      st |-> [e \in Ends |-> IF link.st[e] = "up" THEN "fin" ELSE link.st[e]]] :
        m \in 0 .. Len(link.queue["c"]), n \in 0 .. Len(link.queue["s"])}

\* p waits for the ack of the last packet of a Write on the connection that
\* falls: the ack, if sent, is not lost, and if not, the packet is.
AckSafe(p, link) ==
    LET o == <<p[1], Other(p[2])>> IN
    rec[p].pc = "ack" /\ rec[p].checkpoint = Turns[rec[p].turn] - 1 /\ rec[p].con = Last(p[1]) =>
        IF Queue(p) # <<>> THEN link.queue[p[2]] # <<>>
        ELSE rec[o].pc \notin {"take", "dup"} /\ Len(link.queue[o[2]]) < DIM

Fallen(k) ==
    {l \in Remains(links[k][Last(k)]) : LastAckLost \/ \A e \in Ends : AckSafe(<<k, e>>, l)}

\* The connections that fall and come back at once.
Groups == IF Together THEN {Conns} ELSE {{k} : k \in Conns}

Fall(S) ==
    /\ falls < test.falls /\ \A k \in S : up[k]
    /\ \E l \in [{k \in S : links[k] # <<>>} -> UNION {Fallen(k) : k \in {j \in S : links[j] # <<>>}}] :
         /\ \A k \in DOMAIN l : l[k] \in Fallen(k)
         /\ links' = [k \in Conns |-> IF k \in DOMAIN l THEN [links[k] EXCEPT ![Last(k)] = l[k]] ELSE links[k]]
    /\ up' = [k \in Conns |-> up[k] /\ k \notin S]
    /\ falls' = falls + 1
    /\ UNCHANGED <<test, rec, client, server, rip>>

ComeBack(S) ==
    /\ \A k \in S : ~ up[k]
    /\ Together => rip.ris = 0
    /\ up' = [k \in Conns |-> up[k] \/ k \in S]
    /\ UNCHANGED <<test, links, falls, rec, client, server, rip>>
-----------------------------------------------------------------------------
Writer(p) == Write(p) \/ SendPacket(p) \/ ReadAck(p) \/ AckEof(p) \/ ReturnFromWrite(p)
Reader(p) == ReadPacket(p) \/ ReadFails(p) \/ ReAck(p) \/ TakePart(p) \/ Take(p)

Call(p) ==
    /\ Active(p)
    /\ Writer(p) \/ Reader(p) \/ ReAccept(p)
    /\ UNCHANGED <<test, up, falls, server, rip>>

Recovery == (\E k \in Conns : ReConnect(k)) \/ Recovered \/ PassFailed
ClientMain == Connect \/ Recovery \/ ClientDone \/ \E k \in Conns : Call(<<k, "c">>)
ServerMain == Accept \/ Join
Network == \E S \in Groups : Fall(S) \/ ComeBack(S)

Next == ClientMain \/ ServerMain \/ (\E k \in Conns : Call(<<k, "s">>)) \/ Network

Spec == Init /\ [][Next]_vars

\* The connections any of the tests opens.
AllConns == UNION {{t.order[i] : i \in DOMAIN t.order} : t \in Tests}
FairSpec ==
    /\ Spec /\ WF_vars(ClientMain) /\ WF_vars(ServerMain)
    /\ \A k \in AllConns : WF_vars(k \in Conns /\ Call(<<k, "s">>))
-----------------------------------------------------------------------------
Places == {"idle", "send", "ack", "dup", "reload", "take", "ripristino", "failed", "misread"}
Mains == {"connect", "reconnect", "turns", "accept", "join", "ok", "failed"}
TypeOK ==
    /\ client.pc \in Mains /\ server.pc \in Mains
    /\ rip.at \in 1 .. (Cardinality(Conns) + 1) /\ rip.n \in 0 .. MAX_TENTATIVI
    /\ \A p \in Points :
         /\ rec[p].con \in 0 .. Last(p[1]) /\ rec[p].pc \in Places
         /\ rec[p].turn \in 1 .. (Len(Turns) + 1) /\ rec[p].tent \in 0 .. MAX_TENTATIVI
         /\ Writes(p) => rec[p].checkpoint \in 0 .. Turns[rec[p].turn]
         /\ Reads(p) => rec[p].rd < Turns[rec[p].turn]
         /\ rec[p].quota # 0 => Reads(p) /\ rec[p].quota < Parts(rec[p].turn, rec[p].rd)

\* What an end counts as sent, in this Write or an earlier one, the other end's
\* Reads have returned, while the other program lives.  (The sockets a server
\* closes when it gives up answer with a RST, which the client takes for an ack.)
AckedReturned ==
    \A p \in Points : Alive(Other(p[2])) => LET o == rec[<<p[1], Other(p[2])>>] IN
        /\ Writes(p) /\ rec[p].checkpoint > 0 =>
             o.turn > rec[p].turn \/ (o.turn = rec[p].turn /\ o.rd >= rec[p].checkpoint)
        /\ Reads(p) => o.turn >= rec[p].turn

\* In either direction Reads return the packets written, each once, from its first
\* part on, and in order, and never take words of one for another's or for an ack.
Intact ==
    [][\A p \in Points :
         /\ rec[p].pc = "take" /\ rec'[p].pc # "ripristino" /\ rec'[p] # rec[p]
              => rec[p].buffer = Packet(rec[p].turn, rec[p].rd)
         /\ rec[p].pc \in {"idle", "reload"} /\ rec'[p].pc = "take" => rec[p].quota = 0]_vars

\* The two programs agree on how the test ended: the server says "Tutto OK" when
\* the client does, and neither of them alone.
Over(e) == ~ Alive(e)
Agree == Over("c") /\ Over("s") => client.pc = server.pc

\* Both programs end.  Two cases are left out: the server waits for a connection
\* the client never made, Accept having no bound on attempts; and main joins a
\* thread while a later one has given up, whose end of the connection may then be
\* what the client waits for, and the client what the first thread waits for.
NeverConnected == server.pc = "accept" /\ links[server.at] = <<>>
Unjoined == server.pc = "join" /\ \E k \in Conns : k > server.at /\ rec[<<k, "s">>].pc = "failed"
BothEnd == <>((Over("c") /\ (Over("s") \/ NeverConnected)) \/ Unjoined)
=============================================================================

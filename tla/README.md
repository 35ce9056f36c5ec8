# The TCP session layer: models, checks and proofs

A session layer over TCP (`Sessione/`), four sets of test programs
(`applicazioni/`), one for each level of the assignment, and two debugging proxies
(`proxytcp_perdebug/`).  `README.txt` is the assignment, `relazione.pdf` the design
report of the layer, which implements the level called "Livello Basso".  The layer
gives a process connections, which its sources call CCS, that survive the fall of
the TCP connection under them: the application goes on with the same descriptor,
in the middle of the same `Write` or `Read`.  The modules here say what that
amounts to, check it with TLC on small instances, and prove the safety of all its
parts with TLAPS for every value of the constants (of the test programs, on one
connection).

Contents: [inventory](#1-inventory) - [modules](#2-modules) -
[runs](#3-runs) - [fairness](#4-fairness) - [proofs](#5-proofs) -
[where code and comments disagree](#6-where-the-code-and-its-comments-disagree) -
[not modelled](#7-not-modelled) - [plan](#8-plan) - [reproducing](#9-reproducing).

## 1. Inventory

| part | code | state | operations |
|---|---|---|---|
| Write/Read protocol | `TCP_Session.c:670-948`, `socket_map_list.h`, `const.h` | per connection: `checkpoint`, `sended_byte` (Write), `quota`, `buffer`, `lastid` (Read); locals `ack`, `count` | `Write`, `Read`, `Read_from_packet` |
| Recovery | `TCP_Session.c:484-668` | number of attempts, the descriptors of the records | `Ripristino`, `ReConnect`, `ReAccept` |
| Descriptor map | `socket_map_list.h`, `TCP_Session.c:46-482` | a list of records: public and private number of the socket, and of the connection accepted from it, type, addresses | `TCP_Session_IPv4_Socket`, `Socket`, `Bind`, `Listen`, `Connect`, `Accept`, `Close`, `CloseWait`, `Close_TCP_Session_Module`, and the lookups |
| Wrappers | rest of `TCP_Session.c` | none | `Select`, `Send`, `AvailableBytes`, `SetNoBlocking`, ... |
| Proxy | `tcpforward2directionthreads.c` | `fine`, shared by all threads; per direction a buffer | `main`, `forward_bidirezionale`, `setup_connection`, `forward`, `sendn`, `checkfine` |
| Older proxy | `tcpforwardthreads.c` | `fine`; the descriptors, copied to both threads | as above, with `writen` and the two `close` |
| Test programs | `applicazioni/basso`, `minimo` (the other two levels are not this layer's) | descriptors, sums, per-thread arguments | `main`, server threads, `Readn`, `Writen` |

**How they interact.**  A program calls the layer, which keeps a list of records
shared, without a lock, by all the threads of the process.  The two ends of a
connection share nothing but TCP connections, one after the other.  `Write` cuts
the caller's bytes into packets (header: body bytes, id, number of packets of this
Write), sends one, and waits for its id to come back; `Read` sends the id when it
hands the last byte of the packet to the caller.  When a system call shows that
the connection has fallen, `Ripristino` replaces it: a client closes and connects
every connection it has, a server waits in `select` for the next one on its
listening socket; then the interrupted call calls itself again, and continues from
what the record says.  The proxies stand between the two ends on the wire: they
exist to make connections fall while a test runs.

**What is hard.**

* A fall loses a tail of what is on its way, in each direction separately, at any
  moment: the packet, the ack, both or neither.  The ends notice at different
  times, so for a while one is on the new connection and the other on the old one.
* The retransmitted packet must be recognised by its id, and ids start again at 0
  in every Write.
* A packet may be returned to the application in several Reads, with a fall
  between two of them.
* A private descriptor changes under a call in progress, and numbers are reused by
  the kernel at once.
* One end gives up after a bound on attempts, and the other must then stop too.
* Both ends use one connection in turn, and on the wire nothing but its place
  distinguishes an ack from a word of a packet.
* A client's Ripristino reconnects all its connections, also those that work, while
  the threads of the server go on using their ends of them.
* The programs wait for each other: turns, `pthread_join`, `Accept` without a bound.
* Threads share the record list, and in the proxies `fine` and the descriptors.

**What makes each part correct.**

* Protocol: what Write counts, Reads have returned; no gap; what can be returned
  twice; every call ends.
* Programs: with both directions and several connections, each packet once and in
  order, also when a `Readn` ends inside one; both programs end, and agree on how the
  test went.
* Descriptor map: a public descriptor leads to its own connection, whatever was
  recovered; what listens goes on
  listening; nothing open is lost.
* Proxies: each direction is a link that delivers in order and loses at most a
  tail; ends of file are true; one thread's end does not stop another's data;
  descriptors are released.

`PROJECT.json` lists the components, the hazards with the line where each bites,
and for each definition the lines it models.

## 2. Modules

```
Packets ----- Session --- SessionInv --- SessionMC      Programs --- ProgramsInv --- ProgramsMC
                 |            |                                          |
            AtLeastOnce  SessionProofs                            ProgramsProofs
                           |       |                                     |
               SessionSafety    SessionFaults                     ProgramsSafety

SocketMap --- SocketMapInv --- SocketMapMC         ForwardThreads --- ForwardInv --- ForwardThreadsMC
                   |                                                      |
            SocketMapProofs                                     ForwardThreadsProofs

LossyLinks --- Proxy --- ProxyInv --- ProxyMC
                            |
                        ProxyProofs
```

`XMC` modules are what TLC runs; they only add the constants a .cfg cannot write.
`XInv` modules state the inductive invariants, which TLC checks too; the modules of
proofs extend them.

### Packets, Session, AtLeastOnce - one connection, one direction

`Packets` is how a request is cut (`get_pkt_number`, `get_current_body_bytes`).
`Session` is one connection used in one direction: end `"w"` calls `Write` with
any count of `WriteCounts`, end `"r"` calls `Read` with any count of `ReadCounts`;
either may be the one that called `Connect`.  A call that has failed may be made
again.  A byte is its position in the stream of all that is written; `pos` of a
packet (not on the wire) says which bytes its body is, so that returning the wrong
ones shows.

| code | model |
|---|---|
| `checkpoint`, `sended_byte`, `quota`, `buffer`, `lastid` of the record | variables of the same names |
| where a call is | `pc[e]`: `send`, `ack` in Write; `load`, `dup`, `reload`, `take` in Read_from_packet; `ripristino` in either |
| the sequence of TCP connections | `Links`; `con[e]` is the one end e uses, `st[c][e]` what e's kernel knows of it |
| loop of Write (829-918) | `SendPacket`, `SendFails`, `ReadAck`, `AckReset`, `AckEof`, `ReturnFromWrite` |
| Read_from_packet (690-800) | `ReadPacket`, `ReadBuffered`, `ReadBroken`, `ReadShort`, `ReAck`, `TakePart`, `TakeRest` |
| Ripristino, ReConnect, ReAccept | `ReConnect`, `ReAccept`, `SelectTimeout` with `AttemptFails`, `Resume`; `ReConnectOther`: another connection of the process is the one that fell |
| Writen, Readn on EINTR | `CallAgain`: the failed call is made again, with `checkpoint`, `sended_byte`, `quota` and `lastid` as it left them |

The steps between two system calls of one thread are one action, since only
system calls are visible to the other end.  The kernel's part is written out at
the head of the section on sockets: after a FIN a read returns what is queued and
then 0, and a send is accepted, thrown away, and answered so that the next fails;
after a RST the first call fails with ECONNRESET; closing a socket with unread
data sends a RST; a write without `MSG_NOSIGNAL` on a dead socket raises SIGPIPE
unless it is ignored (`SigPipe`).  `Break` truncates both queues of the connection
in use, each at any point, and shows either end a FIN (or a RST, if it is in `Resets`).

`AtLeastOnce` is the abstract promise: a stream of Writes; Reads return the next
bytes of the Write in progress, or some of them again, without a gap; a Write
returns when all its bytes have been returned by Reads.  `Session` implements it
with the mapping `writing <- IF pc["w"] = "idle" THEN 0 ELSE count` and the other
variables unchanged.

### Programs - a client and a server with their connections

The client and server of basso and minimo, two processes on top of the layer: the
client's `main` opens its connections one after the other (`Connect`), then takes
its turns on them in the order of its code (`test.order`); the server's `main`
accepts each (`Accept`), gives it a thread, and joins the threads (`Join`).  On
one connection the ends alternate one `Writen` and the `Readn`s for what it sends
(`test.turns`, the packets of each).  Here the queues hold **words**: a packet is three
header words and one for its body, an ack is one word, and an end reads four words or
one, whichever it expects.  That is what a one-direction model cannot show: an end that
reads an ack may get the first word of a packet.

A `Readn` may end inside a packet.  The server of basso writes its vector with one
Writen of 100000 bytes (`Servbasso.c:84-87`), in packets of 2512; the client reads it
with ten Readn of 10000 (`Clibasso.c:112-126`), and 10000 is three packets and 2464
bytes.  What is left is in the record, not acked, when the next Readn begins, and a
fall in between finds it there.  `test.parts` says in how many Reads each packet is
returned: `TakePart` (CASO 1 of Read_from_packet, which acks nothing and adds to
`quota`) takes all parts but the last, `Take` (CASO 2) that, with the ack.

| code | model |
|---|---|
| record of a connection, call in progress | `rec[<<k, e>>]`: connection k, end e; `turn` is the Writen or the Readns its program is at, `rd` the packets of it returned, `quota` the parts returned of the next |
| Read with `quota` not 0 | `ReadFrom`: it loads no packet (line 706), but compares the id with `lastid` again (line 731) |
| TCP connections opened for it | `links[k]`, the state of a socket as in Session |
| the client's Ripristino | `rip`: the record it is at, `ris_connect`, attempts; `ReConnect(k)` per record, `Recovered`, `PassFailed` |
| a first `connect` that fails | `client.pc = "reconnect"`: Ripristino over the records made so far (line 401) |
| the server thread's Ripristino | `ReAccept(p)`: the next connection in the backlog, or a timeout of select |
| `main` of the client | `Connect`, `ClientDone`; it gives up in `PassFailed` |
| `main` of the server | `Accept`, `Join`; a thread that gave up ends the process, whose sockets are closed (`Exit`) |
| the proxy killed and started again | `Fall`, `ComeBack`; while it is down a connect fails |

Simplifications: `quota` counts parts, not bytes, and the body is one word however
many parts it is returned in.  From the Readn that returns part of a packet to the next
one the client calls nothing, so the next Read follows at once.  A misread header, after
which the code would return bytes nobody wrote or copy beyond the buffer, stops the end
(`"misread"`); `Intact` says that this does not happen.  Connects go straight to the
server: behind a proxy that has lost its server they would succeed and end at once,
which is a fall.  The server of basso also has a TCP connection to itself, made of plain
sockets, which have a record in the list but neither the protocol nor recovery
(`is_ccs` is 0); it is left out.

### SocketMap - descriptors

The kernel's table of descriptors (lowest free number first), the list of records
and the calls that keep both, for a process that is a client, a server with a
thread per accepted connection, or both (`proc.role`).  `Pass` is one pass of the
client's `Ripristino` over its records, one record per step; `ReAccept`,
`CloseOld` and `set_accept_fd` are the three steps of a server thread's recovery
between which other threads run (when `Serial` is FALSE).  `accept` may fail
(`proc.errors`), and `Accept` then still hands out a descriptor, whatever its comment
says (section 6).
`free_all_connection` is `Close_TCP_Session_Module`, called as in the programs when
the sockets have been closed.  A public descriptor is a real
descriptor on `/dev/null`, as in `ReserveFileDescriptor`.  What the connections are
is kept apart from numbers (`fdt[fd].conn`, `handed[fd]`), so that a number that
leads elsewhere shows. `OfSocket(i)` and `OfRecord(i)` are the numbers the lookups
of `socket_map_list.h` compare in record i. A `Connect` on a plain socket changes
nothing here. Once an application has closed a socket it makes no call but `Close`:
a record that `Close` leaves behind would be reconnected by a later Ripristino
(section 7).

### LossyLinks, Proxy - the two-direction proxy

`LossyLinks` is what the session layer may rely on from anything between its ends:
in order, no gap, an end at any moment that loses the rest.  It is the abstract
specification of `Proxy`, and it is what `Break` of Session and `Fall` of
Programs do.
`Proxy` has the main loop (`segnalasimulatimeout`, `segnalacontinua`, `accept`,
`exit`), the setup of a connection and, per direction, the steps of `forward`:
`checkfine` after every `read`, `sendn` in pieces, `shutdown` and `segnalafine`.
What the layer's two ends do is `Send` and `Leave`.

### ForwardThreads - the older proxy

The same structure with what differs: `fine` ends the other direction, and the
STB thread closes both descriptors while its twin may be using them.  So numbers
are part of the state: `fds` is what the threads hold, `table` what the kernel
says of it, and a `read` in progress keeps the socket (`thread[d].file`) when the
number is closed.

## 3. Runs

State counts are distinct states, complete searches.

| run | states | bounds | checks |
|---|---|---|---|
| `session_fin` | 403,570 | PKT_DIM 2, Total 4, Writes of 1-3 bytes, Reads of 1 or 3, 4 connections, 2 attempts; FIN only | TypeOK, IInv, AckedDelivered, AtMostOneInFlight, NoGap, DuplicatesOnlyLast, AtLeastOnceSpec, AllReturned |
| `session_faults` | 798,736 | PKT_DIM 1, Total 4, Writes of 1 to 3 packets, Reads of one, 3 connections, 2 attempts; FIN or RST, one short read, other connections, SIGPIPE ignored or not | FaultInv, FalseAckOnlyFirst, Termination |
| `session_part` | - | Writes of a full packet, Reads of half of one, 2 connections; RST at the reader | AcksStandForReads is violated |
| `session_once` | - | FIN only | ExactlyOnce is violated |
| `programs_ok` | 307,067 | two connections, turns of 1, 1, 2 packets, the first of the 2 returned by two Reads, 2 falls; one connection, turns of 1, 2, 3, 2 packets, one packet of each of the last three returned by two or three Reads, either end first, 3 falls; 2 attempts; connections fall together; the ack of the last packet of a Write is not lost | TypeOK, IInv, AckedReturned, Agree, Intact, BothEnd |
| `programs_turn` | - | one connection, falls at any moment | AckedReturned is violated |
| `programs_shared` | - | two connections, which fall separately | AckedReturned is violated |
| `map_ok` | 205,971 | 13 descriptors, 3 sockets, or 2 and accepts that fail, one Accept on each, 2 attempts; client or server; Serial | TypeOK, IInv, Resolves, NoLeak, ListeningKept, NumbersKept, RipristinoEnds |
| `map_race` | - | not Serial | Resolves is violated |
| `proxy_ok` | 206,066 | 2 connections, 2 units, 1 end that leaves, 1 timeout | TypeOK, IInv, EofIsTrue, LinksSpec, Forwarded |
| `forward_ok` | 211,860 | 2 connections one after the other, 2 units, 2 ends that leave | TypeOK, IInv, Private, Forwarded, Released |
| `forward_reuse` | - | 2 connections at once | Private is violated |

**Why the bounds are enough.**

* *PKT_DIM 2, Writes of 1 to 3 bytes*: one packet, one full packet, two packets
  with a short last one; the next Write begins with id 0 again.  Reads of 1 byte
  split a packet; Reads of 3 ask for more than it holds.  The proofs remove the
  bound for the FIN-only properties.  `session_faults` has packets of one byte: every
  Read is whole, and three packets are what it takes for the two ends to be a packet
  apart while a copy is on its way; a short last packet makes no difference there,
  as the proof, for any PKT_DIM, confirms.
* *3 or 4 connections*: 2 or 3 falls.  One fall leaves the ends on different
  connections; the second can hit the new connection before the slower end has
  left the old one; the third hits a retransmission of a retransmission.
* *2 attempts*: the least at which an attempt may fail without being the
  last.  A client's attempts and a server's timeouts race.
* *Programs*: two connections are what it takes for the recovery of one to disturb
  the other; turns 1, 1, 2 are the sum, the client's vector and the server's, in
  the client's order 2, 1, 2, 2, 1, 1.  On one connection each end writes twice and
  reads twice; Writes of one packet (whose first packet is its last) and of several
  follow each other.  The packets returned in parts are the first of a Write, one in
  the middle and the last.  The third fall is given to the smaller of the two.
* *SocketMap, 3 sockets, 13 descriptors*: three records make a pass that fails in
  the middle repeat what it had done on the first.  Three records need 12
  descriptors at most, four each (public and private, of the socket and of what it
  accepted), and a thread in ReAccept one more.  With 14 the states are the same;
  with 12 or fewer the table runs full: `Accept` fails, which `proc.errors` has
  without a full table, and so does the `open` of `ReserveFileDescriptor`, whose
  caller then returns an uninitialised number (`Reserved`) and Resolves is violated.
* *Proxies*: two connections share `fine` and the table of numbers; two units make
  a `sendn` that takes part of its buffer.

**What they show.**

* `session_fin`: without RST the layer keeps the promise of AtLeastOnce over any
  fall.  `AtMostOneInFlight` is why ids of one Write suffice to recognise a copy:
  the reader never has two packets to tell apart, so that the packet read after a
  copy, which is not compared with `lastid` (line 751), is a new one.
  `DuplicatesOnlyLast` is what the promise's "at least once" amounts to.
  `AllReturned` adds that the end is reached unless an end gives up.
* `session_faults`: with everything else a connection can do, every call still ends
  (`Termination`; a short read is the interesting case: the server waits for a
  connection the client has no reason to open, until the attempts are spent).  With
  Reads that have room for a whole packet, as in the run, an ack nobody stands behind
  is taken for packet 0 only, where the read of the ack fails and its old value is
  tested (`FalseAckOnlyFirst`): no ack that Write reads is one too many.
  (`Termination` holds as well with PKT_DIM 2, Writes and Reads of 1 or 3: 1,009,824
  states.)
* `session_part`: with Reads that take part of a packet that is not so.  The rest of
  the packet is acked on the new connection, the copy Write has sent there is acked
  too, and the second ack waits for the next packet with that id.  In the run only
  the reader sees a RST, so that no read of an ack fails (section 6).
* `session_fin` and `session_faults` have calls made again after a failure: neither
  safety nor the proofs need that an end stops when it has given up.
* `programs_ok`: but for the round trip of the last packet of a Write, falls of all
  connections together are harmless: the two restarted calls always find each
  other, everything arrives once and in order (`Intact`), and both programs end
  (`BothEnd`) and say the same of the test (`Agree`).  Connections fall
  here while the client holds half a packet, as in `session_part`, without its harm.
  They end with a FIN, after which the ack of the last part is still accepted by `write`:
  a Read comes to Ripristino only when it loads the next packet, with `quota` 0.  (TLC
  finds no Read that goes to Ripristino with `quota` not 0, nor one that takes the packet
  it holds for a copy, even when the connections fall separately and last acks are
  lost: 1,405,837 states.)  `AckedReturned` is asked
  only while the other program lives: a server that gives up closes sockets with
  data unread, the client's Write takes the RST for the ack of packet 0, and its
  next call finds that nobody answers.  `BothEnd` leaves out two states in which
  the code has no bound on waiting: the server's `Accept` of a connection the client
  never made, and `main` of the server joining its first thread when the second has
  given up (`Unjoined`).  `Agree` depends on the tests: when the last Write is one
  packet long and the client's, its ack may be the RST of a server that gave up, and
  the client then ends well alone; the tests of the run, as those of the programs,
  end otherwise (`LastSafe`, module ProgramsInv).
* `programs_turn`, `programs_shared`: each of the two conditions of `programs_ok`,
  that last acks arrive and that connections fall together, is needed.
* `map_ok`: with one thread at a time in recovery, any number of recoveries leave
  every descriptor on its connection.  Resolves speaks of a descriptor whose accept has
  failed apart: the code hands it out where the comment of Accept promises -1 (section
  6), and all that can be said of it is that it leads to -1 and to no other connection.  `NumbersKept` is what `Read` relies on when
  it calls itself with its private number after Ripristino.  It is checked with one
  Accept per listening socket: with `MaxAccepts = 2` Resolves is violated, because
  Accept overwrites `fd_accept_pub` and `fd_accept_priv` of the listening record,
  and the first connection's descriptor leads nowhere.  The report has Accept
  called "solamente la prima volta [...] (per ogni connessione)" and the programs of
  its level do so; `applicazioni/mediobasso/Servmediobasso.c:187-188` accepts twice
  on one.
* `proxy_ok`, `forward_ok`: the proxies give the layer the links it assumes, and
  the shared `fine` stops nobody's data (but see section 6 for two connections in
  the older one).

`CHECK_DEADLOCK FALSE` appears where the program ends: sockets closed, both
programs over, proxy ended by its user.  Session has an explicit `Stopped` step and
is checked for deadlock.

The mutants in `PROJECT.json` replace a definition by one with a plausible
mistake (an ack sent too early, a `lastid` kept, an attempt not counted, a socket
not closed, a `shutdown` when a timeout is simulated) and the property must fail.

## 4. Fairness

* Session: weak fairness of the writer's steps, of the reader's steps and of each
  end's Ripristino, none of `CallAgain`; Programs: of the client's `main`, of the
  server's, and of each thread of the server.  An end is a thread in blocking
  calls: when the system call it is in can return, the scheduler lets it.  The
  network is not fair: `Break` and `Fall` need not happen, `ComeBack` need not
  either.  `ReConnect` of Session succeeds or fails by choice, so termination
  comes from the count of attempts and not from a connection that must come.
* SocketMap: weak fairness of the passes of Ripristino and of the thread inside
  ReAccept, which wait for nobody.  The application's calls are not fair.
* Proxies: weak fairness of every thread once begun; what the ends send, when they
  leave, and what the user types is not fair.

Calls are fair in Session because the programs call Read until they have what they
wait for (`Readn`); without a Read nothing obliges a Write to end.

## 5. Proofs

Checked by tlapm, 19,252 obligations, for every value of the constants that
satisfies the ASSUMEs of the modules and what the third column says.

| theorem | of | says |
|---|---|---|
| `PktNumber`, `BodyBytes` | SessionProofs | the packets of a request are all full but the last, none is empty, together they are the request, and one less would not hold it |
| `TypeCorrect` | SessionProofs | `Spec => []TypeOK`, with every fault |
| `Invariance` | SessionSafety | `Spec => []IInv`, under FinOnly |
| `WriteIsSafe` | SessionSafety | `[]AckedDelivered`, under FinOnly |
| `StopAndWait` | SessionSafety | `[]AtMostOneInFlight`, under FinOnly |
| `ReadsLeaveNoGap` | SessionSafety | `NoGap`, under FinOnly |
| `OnlyLastPacketsRepeat` | SessionSafety | `DuplicatesOnlyLast`, under FinOnly |
| `SessionImplementsAtLeastOnce` | SessionSafety | the refinement, under FinOnly |
| `WholeInvariance` | SessionFaults | `[]FaultInv`, with every fault, under WholeReads |
| `FalseAckFirst` | SessionFaults | `FalseAckOnlyFirst`, with every fault, under WholeReads |
| `ProgramsTypes` | ProgramsProofs | `[]TypesInv` and `[]TypeOK`, for all tests, falls and losses |
| `ProgramsInvariance` | ProgramsSafety | `[]IInv`, for all tests; its second part is about those on one connection, when last acks are not lost |
| `ProgramsAcked` | ProgramsSafety | `[]AckedReturned`, on one connection, last acks not lost |
| `ProgramsIntact` | ProgramsSafety | `Intact`, the same |
| `ProgramsAgree` | ProgramsSafety | `[](LastSafe => Agree)`, the same |
| `MapInvariance`, `MapTypes` | SocketMapProofs | `[]IInv`, `[]TypeOK`, under OneSidedProcess |
| `DescriptorsResolve` | SocketMapProofs | `[]Resolves`, under OneSidedProcess |
| `NothingLeaks` | SocketMapProofs | `[]NoLeak`, under OneSidedProcess |
| `ListeningIsKept`, `NumbersAreKept` | SocketMapProofs | `ListeningKept`, `NumbersKept`, under OneSidedProcess |
| `ProxyInvariance`, `ProxyTypes` | ProxyProofs | `[]IInv`, `[]TypeOK` |
| `EofTrue` | ProxyProofs | `[]EofIsTrue` |
| `ProxyImplementsLinks` | ProxyProofs | `LinksSpec`: Proxy implements LossyLinks |
| `ForwardInvariance`, `ForwardTypes` | ForwardThreadsProofs | `[]IInv`, `[]TypeOK`, under Serial |
| `ConnectionsPrivate` | ForwardThreadsProofs | `[]Private`, under Serial |

`FinOnly == Resets = {} /\ MaxShort = 0 /\ Shared = FALSE`: connections end
with a FIN, reads are whole, no other connection of the client falls.  The
assumption is needed and not a convenience: `programs_shared` violates the
conclusion of WriteIsSafe in a client with two connections.  It holds of the test
set-up of one connection and a proxy that shuts down.

`WholeReads == \A n \in ReadCounts : n >= PKT_DIM`: a Read has room for a packet,
packet, whatever its Write.  It leaves every fault in, and it is needed: `session_part`.
It is not true of the clients of basso and minimo, whose Readn of 10000 bytes ends
inside a packet.  Programs has those Reads, with the connections that its own network
lets fall; with a RST nothing is claimed of them.

The theorems about Programs take any turns, with any number of packets in each, each
returned in any number of parts, any number of falls and of attempts.  Their safety assumes `~ LastAckLost`, without
which `programs_turn` violates it, and `\A t \in Tests : Single(t)`: one
connection.  With two, `programs_shared` violates it unless they fall together, which
`programs_ok` checks and no theorem states.

`OneSidedProcess` is a process that connects or listens, not both, whose threads
make no call while one is in ReAccept, that accepts once from a listening socket,
and that may open more than four descriptors for each record.  Each part is needed:
`map_race` violates a conclusion without the second, and a process of
`TwoSided` (module SocketMapMC) another without the first: the recovery of a
connection closes a socket that listens.  Section 3 says what happens without the
others.  The programs of this level are
such processes, but for the client that also listens (section 6) and for threads
that recover at once.  `Serial` of ForwardThreads, that a connection begins when
the threads of the earlier ones are over, is needed too: `forward_reuse`.  Proxy
needs no assumption: any number of connections, threads and units.

**The argument: Session.**  None of the properties is inductive.  That an ack is taken only
for delivered bytes depends on where the ack comes from, hence on what the
connections carry, hence on which connections the two ends are on, hence on when
an end may leave one.  `IInv` (module SessionInv) says all that:

* `CallInv`: the counters of a Write at each of its places (`sended_byte` is
  `checkpoint * PKT_DIM` until the last packet).
* `LinkInv`: the client is on the last connection, an end leaves a connection only
  when it has fallen and nothing is left to read there, no end is `"rst"`.
* `Sending`: a writer about to send on a connection that is up.  A Write that
  failed may be made again from any place, so that the invariant says of it what it
  says of one that has never failed.
* `FlightInv`: a connection carries nothing, or the packet the writer is at and
  that between the reader's and the writer's connection, or its ack on the
  writer's.
* `PhaseInv`: the reader has either not finished the writer's packet (`Fresh`) or
  has finished it and is waited for (`Consumed`), and `lastid` says which, except
  for the last packet of a Write; an ack on its way means `Consumed`.
* `HoldInv`: the packet the reader holds is that packet; a copy of it is
  recognised, or is the last packet of its Write.

`SessionSafety` has one lemma per action of Next that the invariant is preserved
(`SafeSendPacket`, `SafeReadPacket`, ..., `SafeBreak`), with shared facts about
sockets (`AckLink`, `Leaving`, `AtPacket`) as lemmas; its last two sections combine
them and derive the properties, and map each step of Session to a step of
AtLeastOnce or a stutter.  The run `session_fin` checks `IInv` too.

**The argument: Session with every fault.**  With a RST an ack is taken for a packet
nobody has read (`programs_shared`), so Write and the reader may be at different
packets, and copies of more than one packet may be on connections the reader has yet
to come to.  `IInv` has no room for that; `FaultInv` (module SessionInv) is about
every connection from the reader's on, with the packet in the buffer put back
(`At`, `Ahead`):

* `WholeInv`: `quota` is 0, which makes a Read take the whole packet.
* `JoinInv`, `WriteInv`: the client is on the last connection; the old value in
  `ack` passes the test for packet 0 only.
* `ItemInv`: a connection carries one packet at most: the last of a Write, or one of
  the Write in progress up to the one it is at.  `OrderInv`: along the connections
  ids do not go back, and after a packet that is not the last of its Write comes
  only that Write.
* `NowInv`: while Write waits, its connection carries the packet it is at or nothing.
* `AckInv`: an ack on its way is that packet's: its bytes have been returned, no copy
  of anything is left, and `lastid` remembers it.
* `LastInv`: what `lastid` remembers has been returned, and nothing before it is left,
  so a packet with that id is its copy and not a new packet.

The lemmas `LaterItems`, `LaterAck`, `LaterLast`, `LaterNow` say when a step that only
takes packets away, or moves an end on, keeps a conjunct; then one lemma per action.

**The argument: Programs.**  `TypesInv` (module ProgramsInv) holds of every test: the
record of a connection has the counters of the call its program is in and none of
the other (`CallInv`), and the client is on the last TCP connection of each record
(`ConnectInv`).  On one connection both ends write in turn, and that each word read
is what its reader takes it for needs to be known for both at once (`CoreInv`):

* `TurnInv`: both programs are at the same turn (`Even`), and the reader is at the
  writer's packet or the one after; or the writer is waiting for, or has just read,
  the last ack of its turn, and the other is at the next (`Behind`).  There is no
  third case while last acks are not lost.
* `CarriesAck`, `CarriesPacket`: what each TCP connection from an end's own on carries
  to it, word by word: to the end that writes, at most the ack it waits for; to the
  other, the ack still due if it is behind (`Lead`), and then what a fall has left of
  the packet its peer is at.
* `HoldInv`: a packet being taken is the one the peer is at, or the copy of the one
  before it is recognised.
* `RecordInv`, `SocketInv`, `ProgramInv`: no end is `"misread"`; an end with part of a
  packet (`quota` not 0) is at `"take"` and at no other place; which sockets can be up;
  what `main` is at follows from the records.  With `HoldInv` that makes a fall between
  two parts harmless: while an end takes, its socket is not dead, so that the ack is
  accepted and the packet, not its copy, is what it acks.

A client may go on alone when its server gives up: it has taken the RST of the
server's exit for an ack (`LostInv`), and its next call fails, if there is one
(`LastSafe`).  `SingleInv` is `CoreInv` or `LostInv`.  `ProgramsProofs` has the types,
one lemma per step of a call (`TypesSendPacket`, `TypesTake`, ...) and per action.
`ProgramsSafety` first says what a system call changes of a connection (`PutView`,
`TakenView`, `SentView`), then what keeps each conjunct (`AckFrame`, `PacketFrame`,
`SocketFrame`, `ProgramFrame`, `QuietCore` for a call that moves no word), then has one
lemma per step of a call (`CoreSendPacket`, `CoreReadAck`, `CoreTakePart`, `CoreTake`,
..., combined in `CoreCall`), and one per action of the two programs and of the network
(`SingleConnect`, ..., `SingleFall`).

**The argument: SocketMap.**  That a descriptor leads to its connection says nothing
of the next call: the number a call is given must be in no record, in particular
not in one whose connection is being recovered.  `IInv` (module SocketMapInv):

* `FieldsInv`: no number is in two fields of the list, the two of a plain socket
  apart; a field that holds -1 comes from an accept that failed.
* `ObjectsInv`: the kernel has under each field what the record says.  The private
  number of an accepted connection is free between `CloseOld` and `set_accept_fd`,
  which is when `map_race` gives it to another thread.
* `ThreadInv`: the one thread in ReAccept holds a number no record has.
* `HandedInv`, `KnownInv`: what was handed out is a public number of a record, and
  what is open is in a record or with that thread.
* `ProcessInv`: the numbers of a client are the lowest ones (`Dense`), as it closes
  nothing but the socket it replaces.  So the number `ReConnect` frees is the one
  `socket` returns (lemma `SameAgain`), and Ripristino changes no number.

`RoomLeft` counts: with four fields for each record and one number more the table
is never full, by the pigeonhole principle, so that the number the kernel gives is
free and, by `ObjectsInv`, in no record (`FreshNumber`; `SecondNumber` for the
`/dev/null` opened after it).  Then one lemma per action, over lemmas that say what
each conjunct depends on (`FieldsSame`, `ObjectsSame`), what adds a record
(`RecordAdded`) and what changes the accepted numbers of one (`FieldsAccepted`).

**The argument: Proxy.**  `IInv` (module ProxyInv) counts, for each direction, the
units taken from the source, those in `buf` and those delivered: while the receiver
is there and the thread has not ended, none is missing (`DataInv`).  A thread is at
`shutdown` only when its source has finished and nothing is left to take
(`EndInv`), and an end sees an end of file only after that (`SeenInv`).  `fine` is
in none of these: what threads set it to decides when they end, not what they
deliver.  The refinement goes action by action: a `sendn` that delivers is a step of
LossyLinks that receives, most others are stutters.

**The argument: ForwardThreads.**  Threads here go on with numbers that STB has
closed.  `IInv` (module ForwardInv) says that a number a running thread holds is its
own connection's or nobody's (`NumberInv`), since the next connection takes no
number until the last one's threads are over (`SerialInv`); then what is sent, taken
and received is the connection's own (`DataInv`).  The kernel has a number to give,
with as many as there are sockets, again by the pigeonhole principle.

**Only model-checked:** all liveness (AllReturned, Termination, BothEnd,
RipristinoEnds, Forwarded, Released), as fairness is out of the prover's reach; the
safety of Programs with two connections, whose invariant would have to say of each
record what the Ripristino of the other has done to it.  Of Session with faults
outside FinOnly, Reads that take part of a packet have nothing left to prove but
types and termination: `session_part` refutes what holds otherwise.

## 6. Where the code and its comments disagree

Each is a run TLC finds violated; PROJECT.json quotes code and comment.

1. `session_once`, `TCP_Session.c:731`: a repeated last packet of a Write is
   returned again, since `lastid` was set to -1 by its first copy.
2. `session_part`, `TCP_Session.c:706`: the rest of a packet held by a Read is acked on
   the connection that replaces its own, and so is the copy sent there; the second ack
   is taken for the next packet with that id.  It takes a RST at the reader between
   two Reads of one packet: a FIN lets the first ack be written, and lost.
3. `programs_shared`, `TCP_Session.c:899`: when the read of an ack fails the value
   left in `ack`, 0, is taken for the ack of packet 0.  A RST is enough, and the
   layer produces one itself, by closing healthy connections with unread data when
   another connection of the client falls.
4. `programs_turn`, `TCP_Session.c:899`: when the last ack of a Write is lost and
   its reader has gone on to write, each end takes words of the other's packet for
   acks.
5. `map_race`, `TCP_Session.c:651`: between the close of the old socket and
   `set_accept_fd` another thread can be given the number the record still holds.
6. `forward_reuse`, `tcpforwardthreads.c:255`: STB closes numbers its twin uses.

Seen in the models, with no run of its own: `Accept` returns the public descriptor it
has reserved also when `accept` has failed (`TCP_Session.c:310-326`), though its comment
says that it returns "-1 in caso di errore [...] della accept di sistema" (284-286) and
`Servbasso.c:195` tests for that; the program goes on with a descriptor that leads to
-1, and learns of the failure from its first Read or Write (`AcceptFailed` and
`Resolves` of SocketMap: `Resolves` with its first case left out is violated in the run
`map_ok`); in a process that connects and listens, as `README.txt:29-31` says that clients are (as published they are not), Ripristino
takes the listening record for a client's (`TCP_Session.c:527`), closes its socket
and connects another in its place, so that ListeningKept is violated with
`Processes <- TwoSided`; closing the module closes `fd_pub`
of each record, and not the connections as the report says (`relazione.pdf`, page
10), so a program must close its sockets first; in Proxy a simulated timeout,
which is to last until `<ENTER>` (printed at line 680), is cancelled by any thread
that begins or ends; in the older proxy an end that finishes sending is not passed
on while the other side is silent, since nothing is shut down and the twin's
blocked read keeps the socket.

## 7. Not modelled

* `Select`, `Send`, `AvailableBytes`, `SetNoBlocking`, `SetBlocking`, `IsBlocking`:
  they pass the public descriptor, which is `/dev/null`, to the system, so they work
  on plain sockets only.  The `ReuseAddr` wrappers keep no state.
* The programs of mediobasso and medioalto: they test levels this layer does not
  implement, and cannot work on it.  mediobasso accepts two connections on one
  listening socket (see `map_ok` above).  The client of
  medioalto goes from one connection to the other holding part of a packet
  (`Climedioalto.c:93-107`), which Programs has not.  Its server waits in `Select` on public
  descriptors, which are always readable, asks `AvailableBytes` of one, which fails
  (`Servmedioalto.c:261`), and calls `Writen` on its local connection
  (line 397), whose ack only the same thread could send.
* Addresses, ports, endianness of the header words, times: an attempt fails or
  succeeds.  `RETRY_INTERVAL` (10 s) only spaces attempts.
* A connection that stops without FIN or RST: Read and Write wait for ever, as
  `INACTIVITY_TIMEOUT_SECONDS` is not used.
* Memory: the list is a sequence; `free_all_connection` reads a record it has freed.
* What follows when Write ignores that Ripristino failed, at line 887: the end stops
  or makes the call again.
* A Write of other data after one that failed for good, which would start in their
  middle: Writen repeats the same data, and the programs end otherwise.
* Calls after a `Close` on another socket of the process: the record stays in the
  list, and a later Ripristino would reconnect it on a number that may be in use
  again.  The programs close their sockets last.
* The proxy started again while the client is in the middle of a pass that has
  already failed at one connection (`Together` excludes it in `programs_ok`): a
  server thread then gets a connection which the next pass replaces, with a packet
  unread in it, as in `programs_shared`.
* In the proxies: the list of threads (colours of the output), the locks around
  `fine` (every use is one access).
* In the test programs: the numbers they sum; Servbasso's connection to itself.

## 8. Plan

Done: the models of all parts but those of section 7; the proofs of Session under
FinOnly and, with every fault, under WholeReads; of SocketMap, Proxy and
ForwardThreads; of Programs on one connection.  Left, in order:

1. *Prove.*  Programs with two connections that fall together: `CoreInv` of each
   record, and that a pass of the client's Ripristino leaves them all on new
   connections before any call goes on.
2. *Strengthen.*  An abstract specification of the descriptor map (a function from
   public descriptors to connections) that SocketMap implements under
   OneSidedProcess.

## 9. Reproducing

```
tlc -config Session_fin.cfg SessionMC.tla
tlc -config SocketMap_ok.cfg SocketMapMC.tla       # and likewise for each run
tlapm SessionSafety.tla                            # and likewise for each module of proofs
```

Every run ends within about three minutes on two cores; the proofs take longest in
ProgramsSafety (a quarter of an hour), ProgramsProofs and SocketMapProofs.

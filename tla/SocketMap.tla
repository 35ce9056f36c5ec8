----------------------------- MODULE SocketMap -----------------------------
(***************************************************************************)
(* The socket map of a process (Sessione/socket_map_list.h) and the calls  *)
(* that keep it: every socket of the session layer has a record that ties  *)
(* the public descriptor, which the application holds and which never      *)
(* changes, to the private one, which changes when the connection is       *)
(* recovered.  A record of a listening socket also holds the two           *)
(* descriptors of the connection accepted from it.                         *)
(*                                                                         *)
(* The kernel's descriptor table is part of the model: socket, accept and  *)
(* open return the lowest free number, and a record that keeps the number  *)
(* of a closed descriptor finds a stranger's socket under it.              *)
(***************************************************************************)
EXTENDS Integers, Sequences, FiniteSetsExt

CONSTANTS
    NFds,           \* descriptors the process may have open, the standard ones apart
    MaxRecords,     \* bound: sockets the application creates
    MaxAccepts,     \* bound: Accepts on one listening socket
    MAX_TENTATIVI,  \* attempts of the client's Ripristino
    Serial,         \* whether the threads make no call while one is in ReAccept
    Processes       \* what the process may be, see below

\* role: one that is "both" connects and listens, as README.txt says of the clients
\* of minimo and basso; sockets: how many it creates; errors: whether accept may
\* fail in it.
Process == [role : {"client", "server", "both"}, sockets : 1 .. MaxRecords, errors : BOOLEAN]

Fds == 3 .. (NFds + 2)
Records == 1 .. MaxRecords
\* The connections: <<i, 0>> is the socket of record i, <<i, k>> the k-th
\* connection accepted from it.
Conns == Records \X (0 .. MaxAccepts)
Accepted == {c \in Conns : c[2] > 0}
NoConn == <<0, 0>>

ASSUME SocketMapAssumption ==
    /\ NFds \in Nat /\ MaxRecords \in Nat /\ MaxAccepts \in Nat
    /\ MAX_TENTATIVI \in Nat \ {0}
    /\ Serial \in BOOLEAN
    /\ Processes \subseteq Process

VARIABLES
    proc,       \* what the process is; it never changes
    recs,       \* the list: records in the order of their creation
    fdt,        \* the kernel's table: what each descriptor is
    handed,     \* the public descriptors handed out: the connection of each
    accepts,    \* per record: Accepts so far
    thread,     \* per accepted connection: where its thread is in ReAccept
    rip,        \* the record the client's Ripristino is at, 0 outside it
    ris,        \* ris_connect: 0 or -1
    ntentativi, \* attempts of that Ripristino
    closing     \* whether the application has called Close

vars == <<proc, recs, fdt, handed, accepts, thread, rip, ris, ntentativi, closing>>

Free == [kind |-> "free", conn |-> NoConn]
Null == [kind |-> "null", conn |-> NoConn]
Obj(kind, c) == [kind |-> kind, conn |-> c]

Init ==
    /\ proc \in Processes
    /\ recs = <<>>
    /\ fdt = [f \in Fds |-> Free]
    /\ handed = [f \in Fds |-> NoConn]
    /\ accepts = [i \in Records |-> 0]
    /\ thread = [c \in Accepted |-> [at |-> "run", fd |-> 0, tmp |-> 0]]
    /\ rip = 0 /\ ris = 0 /\ ntentativi = 0
    /\ closing = FALSE

-----------------------------------------------------------------------------
\* The number the next descriptor gets, -1 when the table is full.
NextFd(table) ==
    LET free == {f \in Fds : table[f].kind = "free"} IN
    IF free = {} THEN -1 ELSE Min(free)

\* open or accept: the table with one descriptor more, if there is room.
Opened(table, o) == IF NextFd(table) = -1 THEN table ELSE [table EXCEPT ![NextFd(table)] = o]

closed(table, fd) == [f \in Fds |-> IF f = fd THEN Free ELSE table[f]]

\* The numbers of record i: those of its socket, and all of them.
OfSocket(i) == {recs[i].pub, recs[i].priv}
OfRecord(i) == OfSocket(i) \cup {recs[i].apub, recs[i].apriv}

\* The first record of the list among those that are looked for, if any.
FirstOf(hits) == IF hits = {} THEN 0 ELSE Min(hits)

get_connection(fd) == FirstOf({i \in DOMAIN recs : fd \in OfRecord(i)})

get_real_fd(fd) ==
    LET i == get_connection(fd) IN
    IF i = 0 THEN -1 ELSE IF fd \in OfSocket(i) THEN recs[i].priv ELSE recs[i].apriv

is_ccs(fd) ==
    LET i == FirstOf({j \in DOMAIN recs : fd \in OfSocket(j)}) IN
    IF i = 0 THEN -1 ELSE recs[i].type

\* The connections whose thread is inside ReAccept.
Recovering == {c \in Accepted : thread[c].at # "run"}

\* The public descriptors in use.
Public == {fd \in Fds : handed[fd] # NoConn}

\* A thread may make a call: no Ripristino of the client keeps it, and the
\* application has not begun to close its sockets, which is the last it does.
MayCall ==
    /\ rip = 0
    /\ ~ closing
    /\ Serial => Recovering = {}

\* What a new record holds.
NewRecord(pub, priv, type) ==
    [pub |-> pub, priv |-> priv, apub |-> 0, apriv |-> 0, type |-> type, dim_info |-> 0]

socket_map_list_add_tail(record) == recs' = Append(recs, record)

set_connect_info(i) == recs' = [recs EXCEPT ![i].dim_info = 1]
set_connect_fd(i, fd) == recs' = [recs EXCEPT ![i].priv = fd]

-----------------------------------------------------------------------------
\* Socket: a plain socket, whose public and private descriptors are the same.
Socket ==
    LET fd == NextFd(fdt)
        i == Len(recs) + 1 IN
    /\ MayCall
    /\ Len(recs) < proc.sockets
    /\ fd # -1
    /\ socket_map_list_add_tail(NewRecord(fd, fd, 0))
    /\ fdt' = Opened(fdt, Obj("sock", <<i, 0>>))
    /\ handed' = [handed EXCEPT ![fd] = <<i, 0>>]
    /\ UNCHANGED <<proc, accepts, thread, rip, ris, ntentativi, closing>>

\* ReserveFileDescriptor: what the public descriptor is.  When open fails the
\* caller's variable keeps whatever it held.
Reserved(table) == IF NextFd(table) # -1 THEN {NextFd(table)} ELSE Fds \cup {-1}

TCP_Session_IPv4_Socket ==
    LET priv == NextFd(fdt)
        i == Len(recs) + 1
        with == Opened(fdt, Obj("sock", <<i, 0>>)) IN
    /\ MayCall
    /\ Len(recs) < proc.sockets
    /\ priv # -1
    /\ fdt' = Opened(with, Null)
    /\ \E pub \in Reserved(with) :
         IF pub = -1
         THEN UNCHANGED <<recs, handed>>
         ELSE /\ socket_map_list_add_tail(NewRecord(pub, priv, 1))
              /\ handed' = [handed EXCEPT ![pub] = <<i, 0>>]
    /\ UNCHANGED <<proc, accepts, thread, rip, ris, ntentativi, closing>>

\* Bind and Listen on the socket of a public descriptor.
Listen(fd) ==
    LET s == get_real_fd(fd) IN
    /\ fd \in Public /\ MayCall /\ proc.role # "client"
    /\ s # -1
    /\ fdt[s].kind = "sock"
    /\ fdt' = [fdt EXCEPT ![s].kind = "listen"]
    /\ UNCHANGED <<proc, recs, handed, accepts, thread, rip, ris, ntentativi, closing>>

\* A Ripristino of the client begins.
BeginRipristino ==
    /\ rip' = 1
    /\ ris' = 0
    /\ ntentativi' = 0

\* Connect of a CCS: when connect fails it ends in Ripristino.
Connect(fd) ==
    LET s == get_real_fd(fd)
        i == get_connection(s) IN
    /\ fd \in Public /\ MayCall /\ proc.role # "server"
    /\ is_ccs(fd) # 0
    /\ s # -1
    /\ recs[i].dim_info = 0
    /\ set_connect_info(i)
    /\ BeginRipristino \/ UNCHANGED <<rip, ris, ntentativi>>
    /\ UNCHANGED <<proc, fdt, handed, accepts, thread, closing>>

\* What accept may return: a new descriptor, or -1 when it fails.
Acceptable ==
    LET full == NextFd(fdt) = -1 IN
    (IF full THEN {} ELSE {NextFd(fdt)}) \cup (IF full \/ proc.errors THEN {-1} ELSE {})

\* The table after an accept that returned fd.
WithAccepted(fd, c) == IF fd = -1 THEN fdt ELSE Opened(fdt, Obj("acc", c))

\* Accept.  Its result is the descriptor it reserved, whatever accept returned.
Accept(fd) ==
    LET s == get_real_fd(fd)
        i == get_connection(s)
        c == <<i, accepts[i] + 1>> IN
    /\ fd \in Public /\ MayCall /\ proc.role # "client"
    /\ s # -1
    /\ fdt[s].kind = "listen"
    /\ accepts[i] < MaxAccepts
    /\ \E new \in Acceptable : \E pub \in Reserved(WithAccepted(new, c)) :
         /\ fdt' = Opened(WithAccepted(new, c), Null)
         /\ recs' = [recs EXCEPT ![i].apub = pub, ![i].apriv = new]
         /\ handed' = IF pub = -1 THEN handed ELSE [handed EXCEPT ![pub] = c]
    /\ accepts' = [accepts EXCEPT ![i] = @ + 1]
    /\ UNCHANGED <<proc, thread, rip, ris, ntentativi, closing>>

\* Close frees the private descriptor; the record and the public one stay.
Close(fd) ==
    /\ fd \in Public /\ rip = 0 /\ (Serial => Recovering = {})
    /\ fdt' = closed(fdt, get_real_fd(fd))
    /\ handed' = [handed EXCEPT ![fd] = NoConn]
    /\ closing' = TRUE
    /\ UNCHANGED <<proc, recs, accepts, thread, rip, ris, ntentativi>>

\* CloseWait closes the very descriptor it is given.  On that of a CCS, which is
\* no socket, it sets no SO_LINGER and closes nothing.
CloseWait(fd) ==
    /\ fd \in Public /\ rip = 0 /\ (Serial => Recovering = {})
    /\ fdt[fd].kind \notin {"free", "null"}
    /\ fdt' = closed(fdt, fd)
    /\ handed' = [handed EXCEPT ![fd] = NoConn]
    /\ closing' = TRUE
    /\ UNCHANGED <<proc, recs, accepts, thread, rip, ris, ntentativi>>

\* Close_TCP_Session_Module, when every socket has been closed: free_all_connection
\* closes the public descriptor of each record and frees the list.
free_all_connection ==
    /\ closing /\ Public = {} /\ rip = 0 /\ Recovering = {}
    /\ recs # <<>>
    /\ fdt' = [fd \in Fds |-> IF \E i \in DOMAIN recs : recs[i].pub = fd THEN Free ELSE fdt[fd]]
    /\ recs' = <<>>
    /\ UNCHANGED <<proc, handed, accepts, thread, rip, ris, ntentativi, closing>>

-----------------------------------------------------------------------------
(***************************************************************************)
(* The client's Ripristino: all the records of CCSs that are not the       *)
(* server side of a connection are connected again, in the order of the    *)
(* list, until all of them are or MAX_TENTATIVI attempts have failed.      *)
(***************************************************************************)
Fall(fd) ==
    LET tmp == get_connection(get_real_fd(fd)) IN
    /\ fd \in Public /\ MayCall /\ proc.role # "server"
    /\ tmp # 0
    /\ is_ccs(recs[tmp].pub) # 0
    /\ recs[tmp].apub = 0
    /\ recs[tmp].dim_info = 1
    /\ BeginRipristino
    /\ UNCHANGED <<proc, recs, fdt, handed, accepts, thread, closing>>

\* Mutant: the new socket is opened before the old one is closed.
ReConnectOpenFirst(i) ==
    LET with == Opened(fdt, Obj("sock", <<i, 0>>)) IN
    /\ fdt' = closed(with, get_real_fd(recs[i].priv))
    /\ recs' = [recs EXCEPT ![i].priv = NextFd(fdt)]
    /\ \/ ris' = -1
       \/ recs[i].dim_info = 1 /\ NextFd(fdt) # -1 /\ ris' = ris

\* ReConnect of record i: Close, socket, set_connect_fd, connect.
ReConnect(i) ==
    LET with == closed(fdt, get_real_fd(recs[i].priv)) IN
    /\ fdt' = Opened(with, Obj("sock", <<i, 0>>))
    /\ set_connect_fd(i, NextFd(with))
    /\ \/ ris' = -1
       \/ recs[i].dim_info = 1 /\ NextFd(with) # -1 /\ ris' = ris

Pass ==
    /\ rip \in DOMAIN recs
    /\ IF recs[rip].apub = 0 /\ recs[rip].type = 1
       THEN ReConnect(rip)
       ELSE UNCHANGED <<recs, fdt, ris>>
    /\ rip' = rip + 1
    /\ UNCHANGED <<proc, handed, accepts, thread, ntentativi, closing>>

\* Mutants: one attempt too many; attempts that are not counted.
EndOfPassLate ==
    /\ rip = Len(recs) + 1
    /\ ntentativi' = IF ris = 0 THEN 0 ELSE ntentativi + 1
    /\ rip' = IF ris = 0 \/ ntentativi' > MAX_TENTATIVI THEN 0 ELSE 1
    /\ ris' = IF rip' = 0 THEN ris ELSE 0
    /\ UNCHANGED <<proc, recs, fdt, handed, accepts, thread, closing>>
EndOfPassUncounted ==
    /\ rip = Len(recs) + 1
    /\ rip' = IF ris = 0 THEN 0 ELSE 1
    /\ ris' = 0
    /\ UNCHANGED <<proc, recs, fdt, handed, accepts, thread, ntentativi, closing>>

\* The end of an attempt: it is the last one when every connection is up again
\* or when there have been MAX_TENTATIVI.
EndOfPass ==
    /\ rip = Len(recs) + 1
    /\ ntentativi' = IF ris = 0 THEN 0 ELSE ntentativi + 1
    /\ rip' = IF ris = 0 \/ ntentativi' = MAX_TENTATIVI THEN 0 ELSE 1
    /\ ris' = IF rip' = 0 THEN ris ELSE 0
    /\ UNCHANGED <<proc, recs, fdt, handed, accepts, thread, closing>>

-----------------------------------------------------------------------------
(***************************************************************************)
(* ReAccept, run by the thread of an accepted connection.                  *)
(***************************************************************************)
\* The first half: accept on the listening socket of the connection's record.
ReAccept(fd) ==
    LET tmp == get_connection(get_real_fd(fd))
        s == get_real_fd(recs[tmp].pub)
        i == get_connection(s) IN
    /\ handed[fd] \in Accepted
    /\ MayCall /\ thread[handed[fd]].at = "run"
    /\ get_real_fd(fd) # -1
    /\ is_ccs(recs[tmp].pub) # 0 /\ recs[tmp].apub # 0
    /\ s # -1 /\ fdt[s].kind = "listen"
    /\ \E new \in Acceptable :
         /\ fdt' = WithAccepted(new, <<i, accepts[i]>>)
         /\ thread' = [thread EXCEPT ![handed[fd]] = [at |-> "close", fd |-> new, tmp |-> i]]
    /\ UNCHANGED <<proc, recs, handed, accepts, rip, ris, ntentativi, closing>>

\* Mutant: the socket of the connection that fell is not closed.
CloseOldForgotten(c) ==
    /\ thread[c].at = "close"
    /\ thread' = [thread EXCEPT ![c].at = "set"]
    /\ UNCHANGED <<proc, recs, fdt, handed, accepts, rip, ris, ntentativi, closing>>

\* Mutant: the listening socket is shut down with the connection that fell.
CloseListening(c) ==
    /\ thread[c].at = "close"
    /\ fdt' = closed([fdt EXCEPT ![recs[thread[c].tmp].priv].kind = "sock"],
                     get_real_fd(recs[thread[c].tmp].apriv))
    /\ thread' = [thread EXCEPT ![c].at = "set"]
    /\ UNCHANGED <<proc, recs, handed, accepts, rip, ris, ntentativi, closing>>

CloseOld(c) ==
    /\ thread[c].at = "close"
    /\ fdt' = closed(fdt, get_real_fd(recs[thread[c].tmp].apriv))
    /\ thread' = [thread EXCEPT ![c].at = "set"]
    /\ UNCHANGED <<proc, recs, handed, accepts, rip, ris, ntentativi, closing>>

\* Mutant: the accepted socket takes the place of the listening one.
SetConnectFd(c) ==
    /\ thread[c].at = "set"
    /\ recs' = [recs EXCEPT ![thread[c].tmp].priv = thread[c].fd]
    /\ thread' = [thread EXCEPT ![c] = [at |-> "run", fd |-> 0, tmp |-> 0]]
    /\ UNCHANGED <<proc, fdt, handed, accepts, rip, ris, ntentativi, closing>>

set_accept_fd(c) ==
    /\ thread[c].at = "set"
    /\ recs' = [recs EXCEPT ![thread[c].tmp].apriv = thread[c].fd]
    /\ thread' = [thread EXCEPT ![c] = [at |-> "run", fd |-> 0, tmp |-> 0]]
    /\ UNCHANGED <<proc, fdt, handed, accepts, rip, ris, ntentativi, closing>>

-----------------------------------------------------------------------------
Calls(fd) ==
    \/ Listen(fd) \/ Connect(fd) \/ Accept(fd) \/ Close(fd) \/ CloseWait(fd) \/ Fall(fd)
    \/ ReAccept(fd)
ThreadStep == \E c \in Accepted : CloseOld(c) \/ set_accept_fd(c)

Next ==
    \/ Socket \/ TCP_Session_IPv4_Socket \/ free_all_connection
    \/ \E fd \in Fds : Calls(fd)
    \/ Pass \/ EndOfPass
    \/ ThreadStep

Spec == Init /\ [][Next]_vars
FairSpec == Spec /\ WF_vars(Pass) /\ WF_vars(EndOfPass) /\ WF_vars(ThreadStep)

-----------------------------------------------------------------------------
Kinds == {"free", "null", "sock", "listen", "acc"}
Object == [kind : Kinds, conn : Conns \cup {NoConn}]
\* What a variable of the code holds as a descriptor.
Number == Fds \cup {0, -1}
Record == [pub : Number, priv : Number, apub : Number, apriv : Number, type : {0, 1}, dim_info : {0, 1}]
Place == [at : {"run", "close", "set"}, fd : Number, tmp : Records \cup {0}]

TypeOK ==
    /\ proc \in Processes
    /\ recs \in Seq(Record) /\ Len(recs) <= proc.sockets
    /\ fdt \in [Fds -> Object]
    /\ handed \in [Fds -> Conns \cup {NoConn}]
    /\ accepts \in [Records -> 0 .. MaxAccepts]
    /\ thread \in [Accepted -> Place]
    /\ rip \in 0 .. (MaxRecords + 1) /\ ris \in {0, -1}
    /\ ntentativi \in 0 .. MAX_TENTATIVI
    /\ closing \in BOOLEAN

\* A descriptor leads to the socket of its connection and to its record.
LeadsTo(fd, c) ==
    LET real == get_real_fd(fd) IN
    /\ real \in Fds /\ fdt[real].conn = c /\ fdt[real].kind \notin {"free", "null"}
    /\ get_connection(real) = c[1]

AtWork(c) == rip # 0 \/ (c \in Accepted /\ thread[c].at # "run")

\* The accept behind connection c has failed: its record holds the -1.
AcceptFailed(c) == c \in Accepted /\ recs[c[1]].apriv = -1

\* Every descriptor an application holds leads to its own connection, and so
\* does the private number under it, which Read and Write pass on to themselves
\* after a recovery, while the connection is not being recovered.  One whose accept
\* failed, in Accept or in ReAccept, is no exception to the code but is one to this:
\* the comment of Accept (TCP_Session.c:284-286) says that it returns -1 "in caso di
\* errore [...] della accept di sistema" and Servbasso.c:195 tests for that, but
\* line 326 returns the public descriptor it has reserved.  All that holds of such a
\* descriptor is that it leads to -1, and to no stranger's socket.
Resolves ==
    \A fd \in Public : ~ AtWork(handed[fd]) =>
        IF AcceptFailed(handed[fd])
        THEN get_real_fd(fd) = -1
        ELSE LeadsTo(fd, handed[fd]) /\ LeadsTo(get_real_fd(fd), handed[fd])

\* A recovery gives a client's connection the private number it had: the number
\* that Read goes on with when Ripristino returns 0.
NumbersKept ==
    [][\A i \in DOMAIN recs \cap DOMAIN recs' : recs'[i].priv = recs[i].priv]_vars

\* Whatever is open is known to a record or to the thread that opened it, until
\* the module is closed: the /dev/null of accepted connections is left then.
NoLeak ==
    \A fd \in Fds : fdt[fd].kind # "free" =>
        \/ get_connection(fd) # 0
        \/ \E c \in Accepted : thread[c].fd = fd
        \/ closing /\ recs = <<>> /\ fdt[fd].kind = "null"

\* A socket that listens goes on listening until the application closes it,
\* whatever other connections of the process are recovered.
ListeningKept ==
    [][\A fd \in Fds : fdt[fd].kind = "listen" /\ ~ closing' => fdt'[fd] = fdt[fd]]_vars

\* A Ripristino ends, with the connections up again or with its attempts spent.
RipristinoEnds == (rip # 0) ~> (rip = 0)
=============================================================================

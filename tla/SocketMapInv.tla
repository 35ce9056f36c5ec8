---------------------------- MODULE SocketMapInv ----------------------------
(***************************************************************************)
(* The inductive invariant of SocketMap for processes that connect or      *)
(* listen, not both, whose threads make no call while one is in ReAccept:  *)
(* no number is in two fields of the list, and the records and the kernel  *)
(* agree about what is under each.                                         *)
(***************************************************************************)
EXTENDS SocketMap

\* One connection is accepted from a listening socket, and the process may open
\* four descriptors for each record and one more.
OneSidedProcess ==
    /\ Serial /\ \A p \in Processes : p.role # "both"
    /\ MaxAccepts <= 1 /\ NFds > 4 * MaxRecords

\* The fields of record i, and that no other record has one of its numbers.
FieldsInv(i) ==
    LET r == recs[i] IN
    /\ r.pub \in Fds /\ r.priv \in Fds /\ r.apub \in Fds \cup {0}
    /\ r.type = 0 <=> r.pub = r.priv
    /\ r.apub = 0 <=> r.apriv = 0
    /\ r.apub # 0 <=> accepts[i] = 1
    /\ r.apub # 0 => r.apub # r.apriv /\ r.apub \notin OfSocket(i) /\ r.apriv \notin OfSocket(i)
    /\ r.apriv = -1 => proc.errors
    /\ proc.role = "client" => r.apub = 0
    /\ \A j \in DOMAIN recs \ {i} : OfRecord(i) \cap OfRecord(j) \subseteq {0, -1}

\* What the kernel has under them: the socket and the accepted connection until
\* the application closes them, /dev/null under the public ones of a CCS.
ObjectsInv(i) ==
    LET r == recs[i] IN
    /\ IF handed[r.pub] = <<i, 0>>
       THEN fdt[r.priv] \in {Obj("sock", <<i, 0>>), Obj("listen", <<i, 0>>)}
       ELSE closing /\ fdt[r.priv] = Free
    /\ proc.role = "client" => fdt[r.priv].kind # "listen"
    /\ r.type = 1 => fdt[r.pub] = Null
    /\ r.apub # 0 =>
         /\ fdt[r.apub] = Null
         /\ handed[r.apub] # <<i, 1>> => closing
         /\ r.apriv # -1 =>
              fdt[r.apriv] = IF handed[r.apub] = <<i, 1>> /\ thread[<<i, 1>>].at # "set"
                             THEN Obj("acc", <<i, 1>>) ELSE Free

\* A thread in ReAccept is alone in it, and holds a number no record has yet.
ThreadInv(c) ==
    LET t == thread[c] IN
    IF t.at = "run" THEN t = [at |-> "run", fd |-> 0, tmp |-> 0]
    ELSE /\ ~ closing /\ c[1] \in DOMAIN recs /\ t.tmp = c[1]
         /\ recs[c[1]].apub # 0 /\ recs[c[1]].apriv # -1
         /\ \A x \in Accepted \ {c} : thread[x].at = "run"
         /\ IF t.fd = -1 THEN proc.errors
            ELSE /\ t.fd \in Fds /\ fdt[t.fd] = Obj("acc", c)
                 /\ \A j \in DOMAIN recs : t.fd \notin OfRecord(j)

\* A number handed out is a public one of a record, and one in use is known.
HandedInv(fd) ==
    handed[fd] # NoConn =>
        \E i \in DOMAIN recs : \/ fd = recs[i].pub /\ handed[fd] = <<i, 0>>
                               \/ recs[i].apub # 0 /\ fd = recs[i].apub /\ handed[fd] = <<i, 1>>
KnownInv(fd) ==
    fdt[fd].kind # "free" =>
        \/ \E i \in DOMAIN recs : fd \in OfRecord(i)
        \/ \E c \in Accepted : thread[c].fd = fd
        \/ closing /\ recs = <<>> /\ fdt[fd].kind = "null"

\* The numbers in use are the lowest ones.
Dense(table) == \A f, g \in Fds : f < g /\ table[g].kind # "free" => table[f].kind # "free"

\* Only a client is in Ripristino, and until it closes them its numbers are dense.
ProcessInv ==
    /\ rip # 0 => /\ proc.role = "client" /\ ~ closing
                  /\ rip <= Len(recs) + 1 /\ ntentativi < MAX_TENTATIVI
    /\ \A i \in Records \ DOMAIN recs : closing \/ accepts[i] = 0
    /\ proc.role = "client" /\ ~ closing => Dense(fdt)

\* The inductive invariant.
IInv ==
    /\ TypeOK /\ ProcessInv
    /\ \A i \in DOMAIN recs : FieldsInv(i) /\ ObjectsInv(i)
    /\ \A c \in Accepted : ThreadInv(c)
    /\ \A fd \in Fds : HandedInv(fd) /\ KnownInv(fd)
=============================================================================

----------------------------- MODULE ProgramsInv -----------------------------
(***************************************************************************)
(* The inductive invariants of Programs.  TypesInv holds of every test.    *)
(* SingleInv is about a test on one connection whose falls spare the ack   *)
(* of the last packet of a Write, and says what each end knows of the      *)
(* other, and what every TCP connection still carries.                     *)
(***************************************************************************)
EXTENDS Programs

-----------------------------------------------------------------------------
(***************************************************************************)
(* Every test.                                                             *)
(***************************************************************************)
States == {"up", "fin", "rst", "dead"}
LinkStates == [queue : [Ends -> Seq(Int)], st : [Ends -> States]]
RecordStates == [con : Nat, pc : Places, turn : Nat \ {0}, checkpoint : Nat, ack : Int,
             lastid : Int, buffer : Seq(Int), quota : Nat, rd : Nat, tent : Nat]

StateInv ==
    /\ test \in Tests
    /\ links \in [Conns -> Seq(LinkStates)]
    /\ up \in [Conns -> BOOLEAN] /\ falls \in Nat
    /\ rec \in [Points -> RecordStates]
    /\ client \in [pc : {"connect", "reconnect", "turns", "ok", "failed"}, at : Nat \ {0}]
    /\ server \in [pc : {"accept", "join", "ok", "failed"}, at : Conns]
    /\ rip \in [at : 1 .. (Cardinality(Conns) + 1), ris : {0, -1}, n : 0 .. MAX_TENTATIVI]
    /\ Alive("c") => rip.n < MAX_TENTATIVI

WritesAt(e, t) == t \in DOMAIN Turns /\ (t % 2 = 1 <=> e = test.first)
ReadsAt(e, t) == t \in DOMAIN Turns /\ ~ WritesAt(e, t)

\* The counters of the call that end e is in; those of the other call are reset.
CallInv(e, r) ==
    /\ r.turn <= Len(Turns) + 1
    /\ r.pc \in {"send", "ack"} => WritesAt(e, r.turn)
    /\ r.pc \in {"take", "dup", "reload"} => ReadsAt(e, r.turn)
    /\ IF WritesAt(e, r.turn) THEN r.checkpoint <= Turns[r.turn] ELSE r.checkpoint = 0
    /\ IF ReadsAt(e, r.turn) THEN r.rd < Turns[r.turn] ELSE r.rd = 0
    /\ r.quota # 0 => /\ ReadsAt(e, r.turn) /\ r.quota < Parts(r.turn, r.rd)
                      /\ r.pc # "idle" /\ Len(r.buffer) = DIM
    /\ r.pc = "ack" => r.checkpoint < Turns[r.turn]
    /\ r.pc \in {"take", "dup"} => Len(r.buffer) = DIM
    /\ r.tent <= MAX_TENTATIVI
    /\ r.pc # "failed" => r.tent < MAX_TENTATIVI

\* The client is on the last of the TCP connections of each record, has one for
\* each record its Connects are past, and calls nothing before the last Connect.
ConnectInv ==
    /\ \A k \in Conns : rec[<<k, "c">>].con = Last(k)
    /\ client.pc \in {"connect", "reconnect"} =>
         client.at \in Conns /\ \A k \in Conns : rec[<<k, "c">>].pc = "idle"
    /\ \A k \in Conns :
         /\ client.pc = "connect" /\ k >= client.at => links[k] = <<>>
         /\ client.pc = "reconnect" /\ k > client.at => links[k] = <<>>
         /\ client.pc \in {"connect", "reconnect"} /\ k < client.at => links[k] # <<>>
         /\ client.pc \in {"turns", "ok"} => links[k] # <<>>
         /\ rip.ris = 0 /\ k < rip.at => links[k] # <<>>

TypesInv ==
    /\ StateInv /\ ConnectInv
    /\ \A p \in Points : CallInv(p[2], rec[p]) /\ rec[p].con <= Last(p[1])
-----------------------------------------------------------------------------
(***************************************************************************)
(* One connection.                                                         *)
(***************************************************************************)
C == <<1, "c">>
S == <<1, "s">>
Peer(p) == <<1, Other(p[2])>>

Single(t) == t.turns # <<>> /\ t.order = [i \in DOMAIN t.turns |-> 1]

In(p, l) == links[1][l].queue[p[2]]        \* what connection l carries to p
St(p, l) == links[1][l].st[p[2]]
Con(p) == rec[p].con
Pc(p) == rec[p].pc
Turn(p) == rec[p].turn

Even == Turn(C) = Turn(S)
\* p waits for the ack of the last packet of its Write, or has it: its peer is
\* at the next turn.
Behind(p) ==
    /\ Turn(Peer(p)) = Turn(p) + 1 /\ Writes(p)
    /\ \/ Pc(p) = "ack" /\ rec[p].checkpoint = Turns[Turn(p)] - 1
       \/ Pc(p) = "send" /\ rec[p].checkpoint = Turns[Turn(p)]
\* The ack is on its way, ahead of whatever its peer has sent then.
Due(p) == Behind(p) /\ Pc(p) = "ack"
Lead(p, l) == IF Due(p) /\ l = Con(p) THEN 1 ELSE 0

\* p has sent nothing since it is on its connection.
Fresh == rip.at = 2 /\ rip.ris = 0
Sending(p) == Pc(p) \in {"idle", "send"} \/ (p = C /\ Pc(p) = "ripristino" /\ Fresh)
OnLast(p) == Writes(p) /\ rec[p].checkpoint = Turns[Turn(p)] - 1

Current(p) == Packet(Turn(p), rec[p].checkpoint)
Holds(p) == Pc(p) \in {"take", "dup"} \/ (Pc(p) = "reload" /\ rec[p].rd = rec[Peer(p)].checkpoint + 1)

SocketInv ==
    /\ \A l \in 1 .. Last(1) :
         /\ St(S, l) # "rst"
         /\ St(C, l) = "up" => St(S, l) = "up" /\ Alive("c") /\ Alive("s")
         /\ St(S, l) = "up" => St(C, l) = "up" \/ (~ Alive("s") /\ l > Con(S))
         /\ St(C, l) = "rst" => ~ Alive("s") /\ l > Con(S)
         /\ l < Last(1) => St(C, l) = "dead" /\ St(S, l) # "up"
         /\ l < Last(1) \/ l > Con(S) => In(C, l) = <<>>
         /\ ~ Alive("s") /\ l >= Con(S) => In(S, l) = <<>>
    /\ Con(S) = 0 => Pc(S) = "idle" /\ Turn(S) = 1
    /\ Last(1) = 0 => Pc(C) = "idle" /\ Turn(C) = 1
    /\ Pc(S) \in {"ripristino", "failed"} => St(S, Con(S)) # "up"
    /\ Pc(C) = "ripristino" /\ ~ Fresh => St(C, Last(1)) # "up"

ProgramInv ==
    /\ client.pc = "connect" => rip.at = 1
    /\ rip.at = 1 => rip.ris = 0
    /\ client.pc = "reconnect" /\ ~ Fresh => Last(1) = 0
    /\ client.pc \in {"connect", "reconnect"} => Turn(C) = 1
    /\ client.pc = "turns" => client.at = Turn(C)
    /\ client.pc \in {"turns", "ok"} /\ rip.at = 2 => Pc(C) = "ripristino"
    /\ client.pc = "ok" => Turn(C) = Len(Turns) + 1
    /\ client.pc = "failed" => Turn(C) \in DOMAIN Turns /\ Pc(C) \in {"idle", "ripristino"}
    /\ server.pc = "accept" <=> Con(S) = 0
    /\ server.pc = "ok" => Turn(S) = Len(Turns) + 1
    /\ server.pc = "failed" => Pc(S) = "failed"
    /\ Pc(S) = "failed" => Turn(S) \in DOMAIN Turns

RecordInv(p) ==
    /\ Pc(p) # "misread"
    /\ Pc(C) # "failed"
    /\ rec[p].lastid = rec[p].rd - 1
    /\ rec[p].quota # 0 => Pc(p) = "take"
    /\ Writes(p) /\ Pc(p) = "idle" => rec[p].checkpoint = 0
    /\ rec[p].ack \in 0 .. rec[p].checkpoint \/ Pc(p) \notin {"send", "ack"}
    /\ rec[p].ack = rec[p].checkpoint => rec[p].ack = 0 \/ Pc(p) \notin {"send", "ack"}
    /\ Turn(p) = Len(Turns) + 1 => Pc(p) = "idle"

TurnInv ==
    \/ Even /\ \A p \in {C, S} : Writes(p) =>
            /\ rec[Peer(p)].rd \in {rec[p].checkpoint, rec[p].checkpoint + 1}
            /\ rec[p].checkpoint < Turns[Turn(p)]
    \/ \E p \in {C, S} : Behind(p) /\ rec[Peer(p)].checkpoint = 0 /\ (p = C => Con(S) = Last(1))

\* Connection l carries to p, who has sent: at most the ack, to be read there.
CarriesAck(p, l) ==
    LET o == Peer(p) IN
    \/ In(p, l) = <<>>
    \/ /\ In(p, l) = <<rec[p].checkpoint>>
       /\ Pc(p) = "ack" /\ l = Con(p)
       /\ rec[o].rd = rec[p].checkpoint + 1
       /\ In(o, l) = <<>>
       /\ ~ (Pc(o) \in {"take", "dup"} /\ l = Con(o))

\* To p, who reads or is behind: the ack first if it is due, and what a fall has left
\* of the packet that its peer has sent.
CarriesPacket(p, l) ==
    LET o == Peer(p)
        d == Lead(p, l)
        q == In(p, l) IN
    /\ Len(q) \in d .. d + DIM
    /\ d = 1 => q[1] = rec[p].checkpoint
    /\ \A i \in 1 .. DIM : i + d <= Len(q) => q[i + d] = Current(o)[i]
    /\ Len(q) > d => Writes(o) /\ ~ Behind(o) /\ l <= Con(o) /\ (l = Con(o) => ~ Sending(o))
    /\ St(p, l) = "up" => Len(q) \in {d, d + DIM}
    /\ Len(q) > d => St(p, l) \in {"up", "fin"}
    /\ Len(q) = d + DIM /\ OnLast(o) => Pc(o) = "ack" /\ l = Con(o) /\ St(p, l) = "up"

Carries(p, l) == IF Writes(p) /\ Even THEN CarriesAck(p, l) ELSE CarriesPacket(p, l)

HoldInv(p) ==
    LET o == Peer(p) IN
    /\ Pc(p) \in {"take", "dup", "reload"} => Even /\ (p = C => Con(S) = Last(1))
    /\ Pc(p) = "take" => rec[p].rd = rec[o].checkpoint /\ rec[p].buffer = Current(o)
    /\ Pc(p) = "dup" => rec[p].rd = rec[o].checkpoint + 1 /\ rec[p].buffer = Current(o)
    /\ Holds(p) => In(p, Con(p)) = <<>> /\ (Con(o) = Con(p) => ~ Sending(o))
    /\ Pc(p) = "take" => St(p, Con(p)) \in {"up", "fin"}
    /\ Pc(p) = "take" /\ OnLast(o) => Pc(o) = "ack" /\ Con(o) = Con(p) /\ St(p, Con(p)) = "up"

CoreInv ==
    /\ SocketInv
    /\ TurnInv
    /\ \A p \in {C, S} : /\ RecordInv(p)
                         /\ HoldInv(p)
                         /\ \A l \in 1 .. Last(1) : l >= Con(p) => Carries(p, l)

\* The client has taken the RST of a server that gave up for an ack.
LastSafe == (test.first = "s" <=> Len(Turns) % 2 = 1) \/ Turns[Len(Turns)] > 1
LostInv ==
    /\ server.pc = "failed"
    /\ Pc(C) \in {"idle", "send", "ripristino"} /\ ~ Fresh
    /\ Last(1) > 0
    /\ In(C, Last(1)) = <<>> /\ St(C, Last(1)) = "dead"
    /\ Turn(C) = Len(Turns) + 1 => Pc(C) = "idle"
    /\ Turn(S) <= Turn(C) /\ (Writes(S) => Turn(S) < Turn(C))
    /\ Pc(S) = "failed"
    /\ LastSafe => /\ Turn(C) \in DOMAIN Turns
                   /\ Writes(C) => /\ Pc(C) # "idle"
                                   /\ rec[C].checkpoint = 1
                                   /\ Pc(C) = "send" => (Turns[Turn(C)] > 1 \/ Turn(C) < Len(Turns))

SingleInv == ProgramInv /\ (CoreInv \/ LostInv)

IInv == TypesInv /\ (~ LastAckLost /\ Single(test) => SingleInv)
=============================================================================

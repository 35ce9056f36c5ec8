--------------------------- MODULE ProgramsSafety ---------------------------
(***************************************************************************)
(* What the Writes and Reads of a test on one connection do, in both       *)
(* directions, for any turns and any number of falls that spare the acks   *)
(* of the last packets: the inductive invariant, one lemma per action, and *)
(* the theorems that follow from it.                                       *)
(***************************************************************************)
EXTENDS ProgramsProofs

-----------------------------------------------------------------------------
(***************************************************************************)
(* The connection and its two ends.                                        *)
(***************************************************************************)
\* The single connection and its two ends.
LEMMA SoloFacts ==
    ASSUME TypesInv, Single(test)
    PROVE  /\ Conns = {1} /\ Points = {C, S} /\ Cardinality(Conns) = 1 /\ Groups = {{1}}
           /\ Len(test.order) = Len(Turns) /\ Len(Turns) \in Nat \ {0}
           /\ DOMAIN test.order = 1 .. Len(Turns) /\ \A i \in 1 .. Len(Turns) : test.order[i] = 1
           /\ links[1] \in Seq(LinkStates) /\ Last(1) \in Nat /\ Last(1) = Len(links[1])
<1>1. /\ test.turns # <<>> /\ test.order = [i \in DOMAIN Turns |-> 1]
      /\ DOMAIN Turns = 1 .. Len(Turns) /\ Len(Turns) \in Nat \ {0}
  <2>1. /\ test.turns # <<>> /\ test.order = [i \in DOMAIN Turns |-> 1]
        /\ DOMAIN Turns = 1 .. Len(Turns) /\ Turns \in Seq(Nat \ {0})
    BY TypeFacts, TestFacts DEF Single, Turns
  <2>2. Turns # <<>>
    BY <2>1 DEF Turns
  <2>3. QED
    BY <2>1, <2>2
<1>2. DOMAIN test.order = 1 .. Len(Turns) /\ (\A i \in 1 .. Len(Turns) : test.order[i] = 1)
      /\ Len(test.order) = Len(Turns)
  BY <1>1
<1>3. {test.order[i] : i \in DOMAIN test.order} = {1}
  BY <1>1, <1>2
<1>4. Cardinality({1}) = 1
  BY FS_Singleton
<1>5. Conns = {1}
  BY <1>3, <1>4 DEF Conns
<1>6. Points = {C, S}
  BY <1>5 DEF Points, C, S, Ends
<1>7. Groups = {{1}}
  BY <1>5 DEF Groups
<1>8. links[1] \in Seq(LinkStates) /\ Last(1) \in Nat /\ Last(1) = Len(links[1])
  BY <1>5, TypeFacts DEF Last
<1>9. QED
  BY <1>1, <1>2, <1>4, <1>5, <1>6, <1>7, <1>8

\* The two ends of the connection, and the packets they exchange.
LEMMA PeerFacts ==
    /\ C # S /\ C[1] = 1 /\ C[2] = "c" /\ S[1] = 1 /\ S[2] = "s"
    /\ Peer(C) = S /\ Peer(S) = C /\ \A p \in {C, S} : Peer(p) \in {C, S} /\ Peer(p) # p /\ Peer(Peer(p)) = p
    /\ \A p \in {C, S} : p[1] = 1 /\ p[2] \in Ends /\ Other(p[2]) = Peer(p)[2] /\ (p[2] = "c" <=> p = C)
    /\ \A p \in {C, S} : p[2] = "s" <=> p = S
BY DEF C, S, Peer, Other, Ends

\* Who writes at a turn.
LEMMA RoleFacts ==
    ASSUME TypesInv, Single(test)
    PROVE  /\ \A p \in {C, S} : \A t \in 1 .. Len(Turns) : WritesAt(p[2], t) <=> ~ WritesAt(Peer(p)[2], t)
           /\ \A p \in {C, S} : \A t \in 1 .. Len(Turns) : t + 1 \in 1 .. Len(Turns) =>
                (WritesAt(p[2], t + 1) <=> ~ WritesAt(p[2], t))
           /\ \A p \in {C, S} : \A t : WritesAt(p[2], t) => t \in 1 .. Len(Turns)
           /\ \A p \in {C, S} : \A t : ReadsAt(p[2], t) <=> t \in 1 .. Len(Turns) /\ ~ WritesAt(p[2], t)
           /\ \A p \in {C, S} : Writes(p) <=> WritesAt(p[2], Turn(p))
           /\ \A p \in {C, S} : Reads(p) <=> ReadsAt(p[2], Turn(p))
           /\ \A t \in 1 .. Len(Turns) : Turns[t] \in Nat \ {0}
<1>1. DOMAIN Turns = 1 .. Len(Turns) /\ test.first \in Ends /\ \A t \in 1 .. Len(Turns) : Turns[t] \in Nat \ {0}
  BY TypeFacts, TestFacts
<1>2. \A p \in {C, S} : \A t \in 1 .. Len(Turns) : WritesAt(p[2], t) <=> ~ WritesAt(Peer(p)[2], t)
  BY <1>1, PeerFacts DEF WritesAt, Ends
<1>3. \A p \in {C, S} : \A t \in 1 .. Len(Turns) : t + 1 \in 1 .. Len(Turns) =>
        (WritesAt(p[2], t + 1) <=> ~ WritesAt(p[2], t))
  <2>1. \A t \in Nat : (t + 1) % 2 = 1 <=> ~ (t % 2 = 1)
    OBVIOUS
  <2>2. QED
    BY <1>1, <2>1 DEF WritesAt
<1>4. /\ \A p \in {C, S} : \A t : WritesAt(p[2], t) => t \in 1 .. Len(Turns)
      /\ \A p \in {C, S} : \A t : ReadsAt(p[2], t) <=> t \in 1 .. Len(Turns) /\ ~ WritesAt(p[2], t)
  BY <1>1 DEF WritesAt, ReadsAt
<1>5. /\ \A p \in {C, S} : Writes(p) <=> WritesAt(p[2], Turn(p))
      /\ \A p \in {C, S} : Reads(p) <=> ReadsAt(p[2], Turn(p))
  BY DEF Writes, Reads, WritesAt, ReadsAt, Turn
<1>6. QED
  BY <1>1, <1>2, <1>3, <1>4, <1>5

\* The record of an end.
LEMMA EndRecord ==
    ASSUME TypesInv, Single(test), NEW p \in {C, S}
    PROVE  /\ rec[p] \in RecordStates /\ Con(p) \in 0 .. Last(1) /\ Con(C) = Last(1)
           /\ Pc(p) \in Places /\ Turn(p) \in 1 .. Len(Turns) + 1 /\ rec[p].checkpoint \in Nat /\ rec[p].ack \in Int
           /\ rec[p].lastid \in Int /\ rec[p].buffer \in Seq(Int) /\ rec[p].rd \in Nat /\ rec[p].tent \in Nat
           /\ rec[p].quota \in Nat /\ (rec[p].quota # 0 => Reads(p) /\ Pc(p) # "idle")
           /\ Pc(p) \in {"send", "ack"} => Writes(p)
           /\ Pc(p) \in {"take", "dup", "reload"} => Reads(p)
           /\ IF Writes(p) THEN rec[p].checkpoint \in 0 .. Turns[Turn(p)] ELSE rec[p].checkpoint = 0
           /\ IF Reads(p) THEN rec[p].rd < Turns[Turn(p)] ELSE rec[p].rd = 0
           /\ Pc(p) = "ack" => rec[p].checkpoint < Turns[Turn(p)]
           /\ Pc(p) \in {"take", "dup"} => Len(rec[p].buffer) = DIM
           /\ rec[p].tent <= MAX_TENTATIVI /\ (Pc(p) # "failed" => rec[p].tent < MAX_TENTATIVI)
<1>1. p \in Points
  BY SoloFacts
<1>2. rec[p] \in RecordStates /\ CallInv(p[2], rec[p])
  BY <1>1, IsRecord DEF TypesInv
<1>3. /\ Pc(p) \in Places /\ Turn(p) \in Nat \ {0} /\ rec[p].checkpoint \in Nat /\ rec[p].ack \in Int
      /\ rec[p].lastid \in Int /\ rec[p].buffer \in Seq(Int) /\ rec[p].rd \in Nat /\ rec[p].tent \in Nat /\ Con(p) \in Nat
      /\ rec[p].quota \in Nat
  BY <1>2 DEF RecordStates, Pc, Turn, Con
<1>4. Turn(p) \in 1 .. Len(Turns) + 1
  <2>1. Turn(p) <= Len(Turns) + 1
    BY <1>2 DEF CallInv, Turn
  <2>2. QED
    BY <1>3, <2>1, SoloFacts
<1>5. Con(C) = Last(1) /\ Con(p) \in 0 .. Last(1)
  <2>1. rec[<<1, "c">>].con = Len(links[1]) /\ rec[<<1, "s">>].con \in 0 .. Len(links[1])
    BY SoloFacts, TypeFacts
  <2>2. Con(C) = Len(links[1]) /\ Con(S) \in 0 .. Len(links[1])
    BY <2>1 DEF C, S, Con
  <2>3. Len(links[1]) = Last(1) /\ Last(1) \in 0 .. Last(1)
    BY SoloFacts
  <2>4. QED
    BY <2>2, <2>3
<1>6. (Writes(p) <=> WritesAt(p[2], rec[p].turn)) /\ (Reads(p) <=> ReadsAt(p[2], rec[p].turn))
  BY <1>1, CallNames
<1>7. IF Writes(p) THEN rec[p].checkpoint \in 0 .. Turns[Turn(p)] ELSE rec[p].checkpoint = 0
  <2>1. Writes(p) => Turns[Turn(p)] \in Nat
    BY RoleFacts
  <2>2. IF Writes(p) THEN rec[p].checkpoint <= Turns[Turn(p)] ELSE rec[p].checkpoint = 0
    BY <1>2, <1>6 DEF CallInv, Turn
  <2>3. QED
    BY <1>3, <2>1, <2>2
<1>8. /\ Pc(p) \in {"send", "ack"} => Writes(p)
      /\ Pc(p) \in {"take", "dup", "reload"} => Reads(p)
      /\ IF Reads(p) THEN rec[p].rd < Turns[Turn(p)] ELSE rec[p].rd = 0
      /\ Pc(p) = "ack" => rec[p].checkpoint < Turns[Turn(p)]
      /\ Pc(p) \in {"take", "dup"} => Len(rec[p].buffer) = DIM
      /\ rec[p].tent <= MAX_TENTATIVI /\ (Pc(p) # "failed" => rec[p].tent < MAX_TENTATIVI)
      /\ rec[p].quota # 0 => Reads(p) /\ Pc(p) # "idle"
  BY <1>2, <1>6 DEF CallInv, Pc, Turn
<1>9. QED
  BY <1>2, <1>3, <1>4, <1>5, <1>7, <1>8

\* What a connection carries.
LEMMA CarriesTypes ==
    ASSUME TypesInv, Single(test), NEW p \in {C, S}, NEW l \in 1 .. Last(1)
    PROVE  /\ In(p, l) \in Seq(Int) /\ St(p, l) \in States /\ Len(In(p, l)) \in Nat
           /\ \A i \in 1 .. Len(In(p, l)) : In(p, l)[i] \in Int
<1>1. 1 \in Conns /\ l \in 1 .. Len(links[1]) /\ p[2] \in Ends
  BY SoloFacts, PeerFacts
<1>2. links[1][l].queue \in [Ends -> Seq(Int)] /\ links[1][l].st \in [Ends -> States]
  BY <1>1, TypeFacts, LinkFacts
<1>3. In(p, l) \in Seq(Int) /\ St(p, l) \in States
  BY <1>1, <1>2 DEF In, St
<1>4. QED
  BY <1>3

-----------------------------------------------------------------------------
\* The steps of a call, in terms of what the invariant speaks of.
LEMMA PutView ==
    ASSUME TypesInv, Single(test), NEW p \in {C, S}, Con(p) \in 1 .. Last(1), NEW v \in States, links' = Put(p, v)
    PROVE  /\ Last(1)' = Last(1)
           /\ \A x \in {C, S} : \A l \in 1 .. Last(1) :
                In(x, l)' = In(x, l) /\ St(x, l)' = IF x = p /\ l = Con(p) THEN v ELSE St(x, l)
<1>1. p \in Points /\ p[1] = 1 /\ rec[p].con \in 1 .. Len(links[p[1]]) /\ 1 \in Conns /\ Last(1) = Len(links[1])
  BY SoloFacts, PeerFacts DEF Con
<1> DEFINE c == rec[p].con
<1> DEFINE k == links[1][c]
<1> DEFINE y == [queue |-> k.queue, st |-> [k.st EXCEPT ![p[2]] = v]]
<1>2. /\ \A j \in Conns : Len(links'[j]) = Len(links[j])
      /\ \A j \in Conns : \A l \in 1 .. Len(links[j]) : links'[j][l] = IF j = 1 /\ l = c THEN y ELSE links[j][l]
  <2> DEFINE L == Put(p, v)
  <2>1. /\ \A j \in Conns : Len(L[j]) = Len(links[j])
        /\ \A j \in Conns : \A l \in 1 .. Len(links[j]) :
             L[j][l] = IF j = p[1] /\ l = rec[p].con THEN [queue |-> links[p[1]][rec[p].con].queue, st |-> [links[p[1]][rec[p].con].st EXCEPT ![p[2]] = v]] ELSE links[j][l]
    <3>1. links \in [Conns -> Seq(LinkStates)]
      BY TypeFacts
    <3>2. QED
      BY <1>1, <3>1, PutFacts
  <2>2. p[1] = 1 /\ links' = L
    BY <1>1
  <2> HIDE DEF L
  <2>3. QED
    BY <2>1, <2>2
<1>3. k.st \in [Ends -> States] /\ y.queue = k.queue
      /\ \A e \in Ends : y.st[e] = IF e = p[2] THEN v ELSE k.st[e]
  <2>1. k.st \in [Ends -> States]
    BY <1>1, TypeFacts, LinkFacts
  <2>2. QED
    BY <2>1
<1> HIDE DEF y
<1>4. Last(1)' = Last(1)
  BY <1>1, <1>2 DEF Last
<1>5. ASSUME NEW x \in {C, S}, NEW l \in 1 .. Last(1)
      PROVE  In(x, l)' = In(x, l) /\ St(x, l)' = IF x = p /\ l = Con(p) THEN v ELSE St(x, l)
  <2>1. x[2] \in Ends /\ (x[2] = p[2] <=> x = p)
    BY PeerFacts
  <2>2. links'[1][l] = IF l = c THEN y ELSE links[1][l]
    BY <1>1, <1>2
  <2>3. QED
    BY <1>3, <2>1, <2>2 DEF In, St, Con
<1>6. QED
  BY <1>4, <1>5

\* Words are taken from a queue.
LEMMA TakenView ==
    ASSUME TypesInv, Single(test), NEW p \in {C, S}, Con(p) \in 1 .. Last(1), NEW n \in Nat, links' = Taken(p, n)
    PROVE  /\ Last(1)' = Last(1)
           /\ \A x \in {C, S} : \A l \in 1 .. Last(1) :
                /\ In(x, l)' = IF x = p /\ l = Con(p) THEN SubSeq(In(p, Con(p)), n + 1, Len(In(p, Con(p)))) ELSE In(x, l)
                /\ St(x, l)' = St(x, l)
<1>1. /\ p \in Points /\ p[1] = 1 /\ rec[p].con \in 1 .. Len(links[p[1]]) /\ 1 \in Conns /\ Last(1) = Len(links[1])
      /\ Queue(p) = In(p, Con(p))
  BY SoloFacts, PeerFacts DEF Con, Queue, In
<1> DEFINE c == rec[p].con
<1> DEFINE k == links[1][c]
<1> DEFINE q == SubSeq(Queue(p), n + 1, Len(Queue(p)))
<1> DEFINE y == [queue |-> [k.queue EXCEPT ![p[2]] = q], st |-> k.st]
<1>2. /\ \A j \in Conns : Len(links'[j]) = Len(links[j])
      /\ \A j \in Conns : \A l \in 1 .. Len(links[j]) : links'[j][l] = IF j = 1 /\ l = c THEN y ELSE links[j][l]
  <2> DEFINE L == Taken(p, n)
  <2> DEFINE z == [queue |-> [links[p[1]][rec[p].con].queue EXCEPT ![p[2]] = SubSeq(Queue(p), n + 1, Len(Queue(p)))],
                   st |-> links[p[1]][rec[p].con].st]
  <2>1. /\ \A j \in Conns : Len(L[j]) = Len(links[j])
        /\ \A j \in Conns : \A l \in 1 .. Len(links[j]) :
             L[j][l] = IF j = p[1] /\ l = c THEN z ELSE links[j][l]
    <3>1. links \in [Conns -> Seq(LinkStates)]
      BY TypeFacts
    <3>2. QED
      BY <1>1, <3>1, TakenFacts
  <2>2. p[1] = 1 /\ links' = L
    BY <1>1
  <2>3. z = y
    BY <1>1
  <2> HIDE DEF L, z, y, c
  <2>4. QED
    BY <2>1, <2>2, <2>3
<1> HIDE DEF q
<1>3. /\ y.st = k.st
      /\ \A e \in Ends : y.queue[e] = IF e = p[2] THEN q ELSE k.queue[e]
  <2>1. k.queue \in [Ends -> Seq(Int)]
    BY <1>1, TypeFacts, LinkFacts
  <2>2. QED
    BY <2>1
<1> HIDE DEF y
<1>4. Last(1)' = Last(1)
  BY <1>1, <1>2 DEF Last
<1>5. ASSUME NEW x \in {C, S}, NEW l \in 1 .. Last(1)
      PROVE  In(x, l)' = (IF x = p /\ l = Con(p) THEN q ELSE In(x, l)) /\ St(x, l)' = St(x, l)
  <2>1. x[2] \in Ends /\ (x[2] = p[2] <=> x = p)
    BY PeerFacts
  <2>2. links'[1][l] = IF l = c THEN y ELSE links[1][l]
    BY <1>1, <1>2
  <2>3. QED
    BY <1>3, <2>1, <2>2 DEF In, St, Con
<1>6. QED
  BY <1>1, <1>4, <1>5 DEF q

\* Words are sent, or refused by a connection that the peer has closed.
LEMMA SentView ==
    ASSUME TypesInv, Single(test), NEW p \in {C, S}, Con(p) \in 1 .. Last(1), NEW words \in Seq(Int), Sent(p, words)
    PROVE  /\ Last(1)' = Last(1)
           /\ \/ /\ St(p, Con(p)) = "up"
                 /\ \A x \in {C, S} : \A l \in 1 .. Last(1) :
                      /\ In(x, l)' = IF x = Peer(p) /\ l = Con(p) THEN In(x, l) \o words ELSE In(x, l)
                      /\ St(x, l)' = St(x, l)
              \/ /\ St(p, Con(p)) = "fin"
                 /\ \A x \in {C, S} : \A l \in 1 .. Last(1) :
                      /\ In(x, l)' = In(x, l)
                      /\ St(x, l)' = St(x, l) \/ (x = p /\ l = Con(p) /\ St(x, l)' = "dead")
<1>1. /\ p \in Points /\ p[1] = 1 /\ rec[p].con \in 1 .. Len(links[p[1]]) /\ 1 \in Conns /\ Last(1) = Len(links[1])
      /\ Sock(p) = St(p, Con(p)) /\ Other(p[2]) = Peer(p)[2]
  BY SoloFacts, PeerFacts DEF Con, Sock, St
<1>2. CASE Sock(p) = "up"
  <2> DEFINE c == rec[p].con
  <2> DEFINE k == links[1][c]
  <2> DEFINE e == Other(p[2])
  <2> DEFINE q == k.queue[e] \o words
  <2> DEFINE y == [queue |-> [k.queue EXCEPT ![e] = q], st |-> k.st]
  <2>1. /\ \A j \in Conns : Len(links'[j]) = Len(links[j])
        /\ \A j \in Conns : \A l \in 1 .. Len(links[j]) : links'[j][l] = IF j = 1 /\ l = c THEN y ELSE links[j][l]
    <3>1. /\ \A j \in Conns : Len(links'[j]) = Len(links[j])
          /\ \A j \in Conns : \A l \in 1 .. Len(links[j]) :
               links'[j][l] = IF j = p[1] /\ l = rec[p].con
                              THEN [queue |-> [links[p[1]][rec[p].con].queue EXCEPT ![Other(p[2])] =
                                                 links[p[1]][rec[p].con].queue[Other(p[2])] \o words],
                                    st |-> links[p[1]][rec[p].con].st]
                              ELSE links[j][l]
      <4>1. links \in [Conns -> Seq(LinkStates)]
        BY TypeFacts
      <4>2. QED
        BY <1>1, <1>2, <4>1, SentFacts
    <3>2. p[1] = 1
      BY <1>1
    <3>3. QED
      BY ZenonT(40), <3>1, <3>2
  <2>2. e \in Ends
    BY PeerFacts, EndFacts
  <2>3. k.queue \in [Ends -> Seq(Int)]
    BY <1>1, TypeFacts, LinkFacts
  <2> HIDE DEF q, e
  <2>4. y.st = k.st /\ \A d \in Ends : y.queue[d] = IF d = e THEN q ELSE k.queue[d]
    BY <2>2, <2>3
  <2> HIDE DEF y
  <2>5. Last(1)' = Last(1)
    BY <1>1, <2>1 DEF Last
  <2>6. \A x \in {C, S} : \A l \in 1 .. Last(1) :
          /\ In(x, l)' = IF x = Peer(p) /\ l = Con(p) THEN In(x, l) \o words ELSE In(x, l)
          /\ St(x, l)' = St(x, l)
    <3> TAKE x \in {C, S}
    <3> TAKE l \in 1 .. Last(1)
    <3>1. x[2] \in Ends /\ (x[2] = e <=> x = Peer(p)) /\ Peer(p)[2] = e
      BY <1>1, PeerFacts DEF e
    <3>2. links'[1][l] = IF l = c THEN y ELSE links[1][l]
      BY <1>1, <2>1
    <3>3. QED
      BY <2>4, <3>1, <3>2 DEF In, St, Con, q
  <2>7. St(p, Con(p)) = "up"
    BY <1>1, <1>2
  <2>8. QED
    BY <2>5, <2>6, <2>7
<1>3. CASE Sock(p) = "fin" /\ links' \in {links, Put(p, "dead")}
  <2>1. CASE links' = links
    <3>1. Last(1)' = Last(1) /\ \A x \in {C, S} : \A l \in 1 .. Last(1) : In(x, l)' = In(x, l) /\ St(x, l)' = St(x, l)
      BY <2>1 DEF Last, In, St
    <3>2. St(p, Con(p)) = "fin"
      BY <1>1, <1>3
    <3>3. \A x \in {C, S} : \A l \in 1 .. Last(1) :
            /\ In(x, l)' = In(x, l)
            /\ St(x, l)' = St(x, l) \/ (x = p /\ l = Con(p) /\ St(x, l)' = "dead")
      BY <3>1
    <3>4. QED
      BY <3>1, <3>2, <3>3
  <2>2. CASE links' = Put(p, "dead")
    <3>0. "dead" \in States
      BY DEF States
    <3>1. /\ Last(1)' = Last(1)
          /\ \A x \in {C, S} : \A l \in 1 .. Last(1) :
               In(x, l)' = In(x, l) /\ St(x, l)' = IF x = p /\ l = Con(p) THEN "dead" ELSE St(x, l)
      BY <2>2, <3>0, PutView
    <3>2. St(p, Con(p)) = "fin"
      BY <1>1, <1>3
    <3>3. \A x \in {C, S} : \A l \in 1 .. Last(1) :
            /\ In(x, l)' = In(x, l)
            /\ St(x, l)' = St(x, l) \/ (x = p /\ l = Con(p) /\ St(x, l)' = "dead")
      BY <3>1
    <3>4. QED
      BY <3>1, <3>2, <3>3
  <2>3. QED
    BY <1>3, <2>1, <2>2
<1>4. QED
  BY <1>2, <1>3 DEF Sent

\* A failed system call leaves the socket as it is or dead.
LEMMA ErrorView ==
    ASSUME TypesInv, Single(test), NEW p \in {C, S}, Con(p) \in 1 .. Last(1), ErrorReported(p)
    PROVE  /\ Last(1)' = Last(1)
           /\ \A x \in {C, S} : \A l \in 1 .. Last(1) :
                /\ In(x, l)' = In(x, l)
                /\ St(x, l)' = IF x = p /\ l = Con(p) /\ St(x, l) = "rst" THEN "dead" ELSE St(x, l)
<1>1. Sock(p) = St(p, Con(p)) /\ "dead" \in States
  BY PeerFacts DEF Con, Sock, St, States
<1>2. CASE Sock(p) = "rst"
  <2>1. links' = Put(p, "dead")
    BY <1>2 DEF ErrorReported
  <2>2. QED
    BY <1>1, <1>2, <2>1, PutView
<1>3. CASE Sock(p) # "rst"
  <2>1. links' = links
    BY <1>3 DEF ErrorReported
  <2>2. QED
    BY <1>1, <1>3, <2>1 DEF Last, In, St
<1>4. QED
  BY <1>2, <1>3

\* The connections stay.
LEMMA KeepView ==
    ASSUME UNCHANGED links
    PROVE  Last(1)' = Last(1) /\ \A x, l : In(x, l)' = In(x, l) /\ St(x, l)' = St(x, l)
BY DEF Last, In, St

\* What a call leaves alone.
LEMMA CallView ==
    ASSUME TypesInv, Single(test), NEW p \in {C, S}, Call(p), NEW o, o = Peer(p)
    PROVE  /\ TypesInv' /\ UNCHANGED <<test, up, falls, server, rip>> /\ (Alive("s")' <=> Alive("s"))
           /\ Con(p) \in 1 .. Last(1) /\ o \in {C, S} /\ o # p /\ Peer(o) = p
           /\ rec'[o] = rec[o] /\ Con(o)' = Con(o) /\ Pc(o)' = Pc(o) /\ Turn(o)' = Turn(o)
           /\ Turns' = Turns /\ (Fresh' <=> Fresh)
           /\ \A x \in {C, S} : \A t : (WritesAt(x[2], t)' <=> WritesAt(x[2], t)) /\ (ReadsAt(x[2], t)' <=> ReadsAt(x[2], t))
           /\ p = C => client.pc = "turns" /\ client.at \in 1 .. Len(Turns)
           /\ p = S => Alive("s")
           /\ p[2] \in Ends /\ p \in Points
<1>1. p \in Points /\ Active(p) /\ UNCHANGED <<test, up, falls, server, rip>> /\ p[1] = 1 /\ p[2] \in Ends
  BY SoloFacts, PeerFacts DEF Call
<1>2. TypesInv'
  BY <1>1, TypesCall
<1>3. Con(p) \in 1 .. Last(1)
  BY <1>1, OnLink DEF Con, Last
<1>4. o \in {C, S} /\ o # p /\ Peer(o) = p
  BY PeerFacts
<1>5. \E r : rec' = [rec EXCEPT ![p] = r]
  BY DEF Call, Writer, Reader, ReAccept, Write, SendPacket, ReadAck, AckEof, ReturnFromWrite,
         ReadPacket, ReadFails, ReAck, TakePart, Take, Returned, Broken, GoTo, Become
<1>6. o \in Points /\ rec \in [Points -> RecordStates]
  BY <1>4, SoloFacts, TypeFacts
<1>7. rec'[o] = rec[o]
  BY <1>4, <1>5, <1>6
<1>8. p = C => client.pc = "turns" /\ client.at \in 1 .. Len(Turns)
  BY <1>1, SoloFacts, PeerFacts DEF Active
<1>9. p = S => Alive("s")
  BY <1>1, PeerFacts DEF Active
<1>10. Turns' = Turns /\ \A e, t : (WritesAt(e, t)' <=> WritesAt(e, t)) /\ (ReadsAt(e, t)' <=> ReadsAt(e, t))
  BY <1>1 DEF Turns, WritesAt, ReadsAt
<1>11. (Alive("s")' <=> Alive("s")) /\ (Fresh' <=> Fresh)
  BY <1>1 DEF Alive, Fresh
<1>12. QED
  BY <1>1, <1>2, <1>3, <1>4, <1>7, <1>8, <1>9, <1>10, <1>11 DEF Con, Pc, Turn

-----------------------------------------------------------------------------
(***************************************************************************)
(* What the parts of the invariant owe to a step.                          *)
(***************************************************************************)
LEMMA RoleSame ==
    ASSUME test' = test, NEW x \in {C, S}, Turn(x)' = Turn(x)
    PROVE  /\ (Writes(x)' <=> Writes(x)) /\ (Reads(x)' <=> Reads(x)) /\ Turns' = Turns
           /\ rec'[x].checkpoint = rec[x].checkpoint => (OnLast(x)' <=> OnLast(x)) /\ Current(x)' = Current(x)
<1>1. (Writes(x)' <=> Writes(x)) /\ (Reads(x)' <=> Reads(x)) /\ Turns' = Turns
  BY DEF Writes, Reads, Turn, Turns
<1>2. QED
  BY <1>1 DEF OnLast, Current, Packet

\* The sockets, when no connection is opened.
LEMMA SocketFrame ==
    ASSUME SocketInv, TypesInv, Single(test), Last(1)' = Last(1), Con(S)' = Con(S), Con(C)' = Con(C), 
           Alive("c")' <=> Alive("c"), Alive("s")' <=> Alive("s"), Fresh' <=> Fresh,
           \A x \in {C, S} : \A l \in 1 .. Last(1) :
             St(x, l)' = St(x, l) \/ (St(x, l) \in {"fin", "rst"} /\ St(x, l)' = "dead"),
           \A x \in {C, S} : \A l \in 1 .. Last(1) :
             In(x, l) = <<>> => In(x, l)' = <<>> \/ (l = Con(Peer(x)) /\ St(Peer(x), l) = "up"),
           (Pc(S)' = Pc(S) /\ Turn(S)' = Turn(S)) \/
             (Con(S) # 0 /\ (Pc(S)' \in {"ripristino", "failed"} => St(S, Con(S)) # "up")),
           (Pc(C)' = Pc(C) /\ Turn(C)' = Turn(C)) \/
             (Last(1) # 0 /\ (Pc(C)' = "ripristino" => St(C, Con(C)) # "up"))
    PROVE  SocketInv'
<1>1. Con(S) \in 0 .. Last(1) /\ Con(C) = Last(1) /\ Last(1) \in Nat
  BY EndRecord, SoloFacts
<1>2. ASSUME NEW l \in 1 .. Last(1)
      PROVE  /\ St(S, l)' # "rst"
             /\ St(C, l)' = "up" => St(S, l)' = "up" /\ Alive("c") /\ Alive("s")
             /\ St(S, l)' = "up" => St(C, l)' = "up" \/ (~ Alive("s") /\ l > Con(S))
             /\ St(C, l)' = "rst" => ~ Alive("s") /\ l > Con(S)
             /\ l < Last(1) => St(C, l)' = "dead" /\ St(S, l)' # "up"
             /\ l < Last(1) \/ l > Con(S) => In(C, l)' = <<>>
             /\ ~ Alive("s") /\ l >= Con(S) => In(S, l)' = <<>>
  <2>1. /\ St(S, l)' = St(S, l) \/ (St(S, l) \in {"fin", "rst"} /\ St(S, l)' = "dead")
        /\ St(C, l)' = St(C, l) \/ (St(C, l) \in {"fin", "rst"} /\ St(C, l)' = "dead")
        /\ In(C, l) = <<>> => In(C, l)' = <<>> \/ (l = Con(S) /\ St(S, l) = "up")
        /\ In(S, l) = <<>> => In(S, l)' = <<>> \/ (l = Con(C) /\ St(C, l) = "up")
    BY PeerFacts
  <2>2. /\ St(S, l) # "rst"
        /\ St(C, l) = "up" => St(S, l) = "up" /\ Alive("c") /\ Alive("s")
        /\ St(S, l) = "up" => St(C, l) = "up" \/ (~ Alive("s") /\ l > Con(S))
        /\ St(C, l) = "rst" => ~ Alive("s") /\ l > Con(S)
        /\ l < Last(1) => St(C, l) = "dead" /\ St(S, l) # "up"
        /\ l < Last(1) \/ l > Con(S) => In(C, l) = <<>>
        /\ ~ Alive("s") /\ l >= Con(S) => In(S, l) = <<>>
    BY DEF SocketInv
  <2>3. l < Last(1) \/ l > Con(S) => ~ (l = Con(S) /\ St(S, l) = "up")
    BY <1>1, <2>2
  <2>4. QED
    BY <2>1, <2>2, <2>3
<1>3. /\ Con(S) = 0 => Pc(S)' = "idle" /\ Turn(S)' = 1
      /\ Last(1) = 0 => Pc(C)' = "idle" /\ Turn(C)' = 1
  BY DEF SocketInv
<1>4. /\ Pc(S)' \in {"ripristino", "failed"} => St(S, Con(S)) # "up" /\ Con(S) \in 1 .. Last(1)
      /\ Pc(C)' = "ripristino" /\ ~ Fresh => St(C, Last(1)) # "up" /\ Last(1) \in 1 .. Last(1)
  BY <1>1 DEF SocketInv
<1>5. /\ Pc(S)' \in {"ripristino", "failed"} => St(S, Con(S))' # "up"
      /\ Pc(C)' = "ripristino" /\ ~ Fresh => St(C, Last(1))' # "up"
  <2>1. \A x \in {C, S} : \A l \in 1 .. Last(1) : St(x, l) # "up" => St(x, l)' # "up"
    OBVIOUS
  <2>2. Con(S) \in 1 .. Last(1) => (St(S, Con(S)) # "up" => links'[1][Con(S)].st[S[2]] # "up")
    BY <2>1 DEF St
  <2>3. Last(1) \in 1 .. Last(1) => (St(C, Last(1)) # "up" => links'[1][Last(1)].st[C[2]] # "up")
    BY <2>1 DEF St
  <2>4. QED
    BY <1>4, <2>2, <2>3 DEF St
<1>6. QED
  BY <1>2, <1>3, <1>5 DEF SocketInv

\* The mains, when p makes a step of a call.
LEMMA ProgramFrame ==
    ASSUME ProgramInv, TypesInv, Single(test), UNCHANGED <<test, server, rip>>, Con(S)' = 0 <=> Con(S) = 0,
           Last(1)' = Last(1),
           \/ Pc(C)' = Pc(C) /\ Turn(C)' = Turn(C) /\ client' = client
           \/ /\ client.pc = "turns" /\ Pc(C) # "ripristino"
              /\ client'.pc = "turns"
              /\ \/ Turn(C)' = Turn(C) /\ client'.at = client.at
                 \/ Turn(C)' = Turn(C) + 1 /\ client'.at = client.at + 1,
           \/ Pc(S)' = Pc(S) /\ Turn(S)' = Turn(S)
           \/ Alive("s") /\ (Pc(S)' = "failed" => Turn(S)' \in 1 .. Len(Turns))
    PROVE  ProgramInv'
<1>1. Turn(C) \in Nat /\ Turn(C) >= 1 /\ DOMAIN Turns = 1 .. Len(Turns) /\ Turns' = Turns /\ Len(Turns) \in Nat
      /\ client.at \in Nat /\ (Fresh' <=> Fresh)
  <2>1. Turn(C) \in Nat /\ Turn(C) >= 1
    BY EndRecord, SoloFacts
  <2>2. DOMAIN Turns = 1 .. Len(Turns) /\ Len(Turns) \in Nat /\ client.at \in Nat
    BY TypeFacts, TestFacts
  <2>3. Turns' = Turns /\ (Fresh' <=> Fresh)
    BY DEF Turns, Fresh
  <2>4. QED
    BY <2>1, <2>2, <2>3
<1>2. /\ client.pc = "connect" => rip.at = 1
      /\ rip.at = 1 => rip.ris = 0
      /\ client.pc = "reconnect" /\ ~ Fresh => Last(1) = 0
      /\ client.pc \in {"connect", "reconnect"} => Turn(C) = 1
      /\ client.pc = "turns" => client.at = Turn(C)
      /\ client.pc \in {"turns", "ok"} /\ rip.at = 2 => Pc(C) = "ripristino"
      /\ client.pc = "ok" => Turn(C) = Len(Turns) + 1
      /\ client.pc = "failed" => Turn(C) \in DOMAIN Turns /\ Pc(C) \in {"idle", "ripristino"}
      /\ server.pc = "accept" <=> Con(S) = 0
      /\ server.pc = "ok" => Turn(S) = Len(Turns) + 1
      /\ server.pc = "failed" => Pc(S) = "failed"
      /\ Pc(S) = "failed" => Turn(S) \in DOMAIN Turns
  BY DEF ProgramInv
<1>3. /\ client'.pc = "connect" => rip.at = 1
      /\ client'.pc = "reconnect" /\ ~ Fresh' => Last(1)' = 0
      /\ client'.pc \in {"connect", "reconnect"} => Turn(C)' = 1
      /\ client'.pc = "turns" => client'.at = Turn(C)'
      /\ client'.pc \in {"turns", "ok"} /\ rip.at = 2 => Pc(C)' = "ripristino"
      /\ client'.pc = "ok" => Turn(C)' = Len(Turns) + 1
      /\ client'.pc = "failed" => Turn(C)' \in DOMAIN Turns /\ Pc(C)' \in {"idle", "ripristino"}
  <2>1. CASE Pc(C)' = Pc(C) /\ Turn(C)' = Turn(C) /\ client' = client
    BY <1>1, <1>2, <2>1
  <2>2. CASE /\ client.pc = "turns" /\ Pc(C) # "ripristino"
             /\ client'.pc = "turns"
             /\ \/ Turn(C)' = Turn(C) /\ client'.at = client.at
                \/ Turn(C)' = Turn(C) + 1 /\ client'.at = client.at + 1
    <3>1. rip.at # 2 /\ client.at = Turn(C)
      BY <1>2, <2>2
    <3>2. client'.at = Turn(C)'
      BY <2>2, <3>1
    <3>3. QED
      BY <2>2, <3>1, <3>2
  <2>3. QED
    BY <2>1, <2>2
<1>4. /\ server.pc = "accept" <=> Con(S)' = 0
      /\ server.pc = "ok" => Turn(S)' = Len(Turns) + 1
      /\ server.pc = "failed" => Pc(S)' = "failed"
      /\ Pc(S)' = "failed" => Turn(S)' \in DOMAIN Turns
  BY <1>1, <1>2 DEF Alive
<1>5. QED
  BY <1>1, <1>3, <1>4 DEF ProgramInv

\* Where an end is in its turn.
SameTurn(p) ==
    /\ Con(p)' = Con(p) /\ Turn(p)' = Turn(p) /\ rec'[p].checkpoint = rec[p].checkpoint /\ rec'[p].rd = rec[p].rd
    /\ rec'[p].lastid = rec[p].lastid
Kept(p) == SameTurn(p) /\ rec'[p].quota = rec[p].quota

\* A connection that carries an ack goes on doing so,
LEMMA AckFrame ==
    ASSUME NEW x \in {C, S}, NEW l, CarriesAck(x, l), In(x, l)' = In(x, l),
           In(x, l) # <<>> =>
             /\ Pc(x)' = "ack" /\ Con(x)' = Con(x) /\ rec'[x].checkpoint = rec[x].checkpoint
             /\ rec'[Peer(x)].rd = rec[Peer(x)].rd /\ In(Peer(x), l)' = <<>>
             /\ (Pc(Peer(x))' \in {"take", "dup"} /\ l = Con(Peer(x))' => Pc(Peer(x)) \in {"take", "dup"} /\ l = Con(Peer(x)))
    PROVE  CarriesAck(x, l)'
BY DEF CarriesAck

\* and one that carries a packet.
LEMMA PacketFrame ==
    ASSUME NEW x \in {C, S}, NEW l, CarriesPacket(x, l), In(x, l)' = In(x, l), In(x, l) \in Seq(Int),
           Lead(x, l)' = Lead(x, l), Lead(x, l) = 1 => rec'[x].checkpoint = rec[x].checkpoint,
           Len(In(x, l)) > Lead(x, l) =>
             /\ Current(Peer(x))' = Current(Peer(x)) /\ Writes(Peer(x))' /\ ~ Behind(Peer(x))'
             /\ St(x, l)' \in {"up", "fin"}
             /\ l <= Con(Peer(x))' /\ (l = Con(Peer(x))' => ~ Sending(Peer(x))')
             /\ OnLast(Peer(x))' =>
                  /\ OnLast(Peer(x))
                  /\ Pc(Peer(x)) = "ack" /\ l = Con(Peer(x)) /\ St(x, l) = "up" =>
                       Pc(Peer(x))' = "ack" /\ l = Con(Peer(x))' /\ St(x, l)' = "up",
           St(x, l)' = "up" => St(x, l) = "up"
    PROVE  CarriesPacket(x, l)'
<1> DEFINE o == Peer(x)
<1> DEFINE q == In(x, l)
<1> DEFINE d == Lead(x, l)
<1>1. d \in {0, 1} /\ Len(q) \in Nat /\ DIM = 4
  BY DEF DIM, Lead
<1>2. /\ Len(q) \in d .. d + DIM
      /\ d = 1 => q[1] = rec[x].checkpoint
      /\ \A i \in 1 .. DIM : i + d <= Len(q) => q[i + d] = Current(o)[i]
      /\ Len(q) > d => Writes(o) /\ ~ Behind(o) /\ l <= Con(o) /\ (l = Con(o) => ~ Sending(o))
      /\ Len(q) > d => St(x, l)' \in {"up", "fin"}
      /\ St(x, l) = "up" => Len(q) \in {d, d + DIM}
      /\ Len(q) = d + DIM /\ OnLast(o) => Pc(o) = "ack" /\ l = Con(o) /\ St(x, l) = "up"
  BY DEF CarriesPacket
<1>3. Len(q) > d =>
        /\ Current(o)' = Current(o) /\ Writes(o)' /\ ~ Behind(o)' /\ l <= Con(o)' /\ (l = Con(o)' => ~ Sending(o)')
        /\ OnLast(o)' => /\ OnLast(o)
                         /\ Pc(o) = "ack" /\ l = Con(o) /\ St(x, l) = "up" =>
                              Pc(o)' = "ack" /\ l = Con(o)' /\ St(x, l)' = "up"
  OBVIOUS
<1>4. q' = q /\ d' = d
  OBVIOUS
<1> HIDE DEF q, d
<1>5. /\ d = 1 => q[1] = rec'[x].checkpoint
      /\ \A i \in 1 .. DIM : i + d <= Len(q) => q[i + d] = Current(o)'[i]
  <2>1. \A i \in 1 .. DIM : i + d <= Len(q) => Len(q) > d
    BY <1>1
  <2>2. QED
    BY <1>2, <1>3, <2>1 DEF d
<1>6. /\ Len(q) > d => Writes(o)' /\ ~ Behind(o)' /\ l <= Con(o)' /\ (l = Con(o)' => ~ Sending(o)')
      /\ St(x, l)' = "up" => Len(q) \in {d, d + DIM}
      /\ Len(q) = d + DIM /\ OnLast(o)' => Pc(o)' = "ack" /\ l = Con(o)' /\ St(x, l)' = "up"
  BY <1>1, <1>2, <1>3
<1>7. QED
  BY <1>2, <1>4, <1>5, <1>6 DEF CarriesPacket, q, d

\* The parts of CoreInv, at one end.
LEMMA AtCore ==
    ASSUME CoreInv, NEW p \in {C, S}
    PROVE  /\ SocketInv /\ TurnInv /\ RecordInv(p) /\ HoldInv(p)
           /\ \A l \in 1 .. Last(1) : l >= Con(p) => Carries(p, l)
BY DEF CoreInv

\* Which turns the ends are at.
LEMMA TurnFacts ==
    ASSUME TypesInv, Single(test), TurnInv, NEW p \in {C, S}, NEW o, o = Peer(p)
    PROVE  /\ Even \/ Behind(p) \/ Behind(o)
           /\ Reads(p) => Even /\ Writes(o)
           /\ Even => Turn(o) = Turn(p) /\ (Writes(p) <=> Reads(o)) /\ (Writes(o) <=> Reads(p))
           /\ Even /\ Writes(p) => rec[o].rd \in {rec[p].checkpoint, rec[p].checkpoint + 1} /\ rec[p].checkpoint < Turns[Turn(p)]
           /\ Even /\ Writes(o) => rec[p].rd \in {rec[o].checkpoint, rec[o].checkpoint + 1} /\ rec[o].checkpoint < Turns[Turn(o)]
           /\ Behind(p) => /\ ~ Behind(o) /\ ~ Even /\ Writes(p) /\ ~ Reads(o) /\ ~ Reads(p)
                           /\ Turn(o) = Turn(p) + 1 /\ rec[o].checkpoint = 0 /\ (p = C => Con(S) = Last(1))
                           /\ Turn(o) <= Len(Turns) => Writes(o)
           /\ Behind(o) => /\ ~ Behind(p) /\ ~ Even /\ Writes(o) /\ ~ Reads(p) /\ ~ Reads(o)
                           /\ Turn(p) = Turn(o) + 1 /\ rec[p].checkpoint = 0 /\ (p = S => Con(S) = Last(1))
                           /\ Turn(p) <= Len(Turns) => Writes(p)
<1>1. /\ o \in {C, S} /\ o # p /\ Peer(o) = p /\ {p, o} = {C, S} /\ (Even <=> Turn(o) = Turn(p))
      /\ Turn(p) \in 1 .. Len(Turns) + 1 /\ Turn(o) \in 1 .. Len(Turns) + 1 /\ Len(Turns) \in Nat
  BY PeerFacts, EndRecord, SoloFacts DEF Even
<1>2. /\ \A t \in 1 .. Len(Turns) : WritesAt(p[2], t) <=> ~ WritesAt(o[2], t)
      /\ \A t \in 1 .. Len(Turns) : t + 1 \in 1 .. Len(Turns) => (WritesAt(p[2], t + 1) <=> ~ WritesAt(p[2], t))
      /\ \A t \in 1 .. Len(Turns) : t + 1 \in 1 .. Len(Turns) => (WritesAt(o[2], t + 1) <=> ~ WritesAt(o[2], t))
      /\ Writes(p) <=> WritesAt(p[2], Turn(p))
      /\ Writes(o) <=> WritesAt(o[2], Turn(o))
      /\ Writes(p) \/ Reads(p) <=> Turn(p) \in 1 .. Len(Turns)
      /\ Writes(o) \/ Reads(o) <=> Turn(o) \in 1 .. Len(Turns)
      /\ ~ (Writes(p) /\ Reads(p)) /\ ~ (Writes(o) /\ Reads(o))
  BY <1>1, RoleFacts
<1>3. \/ /\ Even
         /\ Writes(p) => rec[o].rd \in {rec[p].checkpoint, rec[p].checkpoint + 1} /\ rec[p].checkpoint < Turns[Turn(p)]
         /\ Writes(o) => rec[p].rd \in {rec[o].checkpoint, rec[o].checkpoint + 1} /\ rec[o].checkpoint < Turns[Turn(o)]
      \/ Behind(p) /\ rec[o].checkpoint = 0 /\ (p = C => Con(S) = Last(1))
      \/ Behind(o) /\ rec[p].checkpoint = 0 /\ (o = C => Con(S) = Last(1))
  BY <1>1 DEF TurnInv
<1>4. /\ Behind(p) => Turn(o) = Turn(p) + 1 /\ Writes(p)
      /\ Behind(o) => Turn(p) = Turn(o) + 1 /\ Writes(o)
  BY <1>1 DEF Behind
<1>5. Turn(p) = Turn(o) + 1 => (Reads(p) => ~ Writes(o)) /\ (Turn(p) <= Len(Turns) /\ Writes(o) => Writes(p))
  BY <1>1, <1>2
<1>6. Turn(o) = Turn(p) + 1 => (Reads(o) => ~ Writes(p)) /\ (Turn(o) <= Len(Turns) /\ Writes(p) => Writes(o))
  BY <1>1, <1>2
<1>7. Even => Turn(o) = Turn(p) /\ (Writes(p) <=> Reads(o)) /\ (Writes(o) <=> Reads(p))
  BY <1>1, <1>2
<1>8. ~ (Behind(p) /\ Behind(o)) /\ ~ (Even /\ Behind(p)) /\ ~ (Even /\ Behind(o))
  BY <1>1, <1>4
<1>9. Reads(p) => Even /\ Writes(o)
  BY <1>2, <1>3, <1>4, <1>5, <1>7
<1>10. QED
  BY <1>1, <1>2, <1>3, <1>4, <1>5, <1>6, <1>7, <1>8, <1>9

\* A connection is up at both ends if it is at one and carries something to it.
LEMMA LinkUp ==
    ASSUME SocketInv, NEW x \in {C, S}, NEW l \in 1 .. Last(1), St(x, l) = "up",
           x = S => Alive("s") \/ (In(x, l) # <<>> /\ l >= Con(S))
    PROVE  St(Peer(x), l) = "up" /\ Alive("s") /\ Alive("c")
BY PeerFacts DEF SocketInv

\* A step of a call that ends in Ripristino.
LEMMA BrokenCore ==
    ASSUME TypesInv, Single(test), ProgramInv, CoreInv, NEW p \in {C, S}, Call(p),
           Kept(p), Pc(p)' = "ripristino", client' = client,
           Pc(p) \in {"send", "ack", "idle", "dup", "reload"}, Writes(p) \/ Reads(p), ~ Behind(p),
           St(p, Con(p)) # "up", Pc(p) = "ack" => In(p, Con(p)) = <<>>, Last(1)' = Last(1),
           \A x \in {C, S} : \A l \in 1 .. Last(1) :
             St(x, l)' = St(x, l) \/ (x = p /\ l = Con(p) /\ St(x, l) = "rst" /\ St(x, l)' = "dead"),
           \A x \in {C, S} : \A l \in 1 .. Last(1) :
             In(x, l)' = In(x, l) \/ (x = p /\ l = Con(p) /\ Reads(p) /\ In(x, l)' = <<>>)
    PROVE  ProgramInv' /\ CoreInv'
<1> DEFINE o == Peer(p)
<1>1. /\ TypesInv' /\ UNCHANGED <<test, up, falls, server, rip>> /\ (Alive("s")' <=> Alive("s"))
      /\ Con(p) \in 1 .. Last(1) /\ o \in {C, S} /\ o # p /\ Peer(o) = p
      /\ rec'[o] = rec[o] /\ Con(o)' = Con(o) /\ Pc(o)' = Pc(o) /\ Turn(o)' = Turn(o)
      /\ Turns' = Turns /\ (Fresh' <=> Fresh)
      /\ p = C => client.pc = "turns"
      /\ p = S => Alive("s")
  BY CallView
<1>2. {C, S} = {p, o} /\ (Alive("c")' <=> Alive("c"))
  BY <1>1 DEF Alive
<1>3. /\ Con(p)' = Con(p) /\ Turn(p)' = Turn(p) /\ rec'[p].checkpoint = rec[p].checkpoint /\ rec'[p].rd = rec[p].rd
      /\ rec'[p].lastid = rec[p].lastid /\ rec'[p].quota = rec[p].quota
  BY DEF Kept, SameTurn
<1>4. \A x \in {C, S} : /\ (Writes(x)' <=> Writes(x)) /\ (Reads(x)' <=> Reads(x)) /\ (OnLast(x)' <=> OnLast(x))
                        /\ Current(x)' = Current(x) /\ Con(x)' = Con(x)
  BY <1>1, <1>2, <1>3, RoleSame
<1>5. p = C => ~ Fresh
  BY <1>1 DEF ProgramInv, Fresh
<1> HIDE DEF o
<1>6. SocketInv'
  <2>1. \A x \in {C, S} : \A l \in 1 .. Last(1) :
          St(x, l)' = St(x, l) \/ (St(x, l) \in {"fin", "rst"} /\ St(x, l)' = "dead")
    OBVIOUS
  <2>2. \A x \in {C, S} : \A l \in 1 .. Last(1) :
          In(x, l) = <<>> => In(x, l)' = <<>> \/ (l = Con(Peer(x)) /\ St(Peer(x), l) = "up")
    OBVIOUS
  <2>3. (Pc(S)' = Pc(S) /\ Turn(S)' = Turn(S)) \/
             (Con(S) # 0 /\ (Pc(S)' \in {"ripristino", "failed"} => St(S, Con(S)) # "up"))
    BY <1>1, <1>2
  <2>4. (Pc(C)' = Pc(C) /\ Turn(C)' = Turn(C)) \/
             (Last(1) # 0 /\ (Pc(C)' = "ripristino" => St(C, Con(C)) # "up"))
    BY <1>1, <1>2, SoloFacts
  <2>5. QED
    BY <1>1, <1>2, <1>4, <2>1, <2>2, <2>3, <2>4, AtCore, SocketFrame
<1>7. ProgramInv'
  <2>1. p = C => Pc(C) # "ripristino"
    OBVIOUS
  <2>2. Turn(p) \in 1 .. Len(Turns)
    BY RoleFacts
  <2>3. QED
    BY <1>1, <1>2, <1>3, <1>4, <2>1, <2>2, ProgramFrame
\* The turns.
<1>8. Even' <=> Even
  BY <1>1, <1>2, <1>3 DEF Even
<1>9. ~ Behind(p)' /\ (Behind(o)' <=> Behind(o)) /\ ~ Due(p)' /\ (Due(o)' <=> Due(o)) /\ ~ Due(p)
  BY <1>1, <1>3, <1>4 DEF Behind, Due
<1>10. TurnInv'
  <2>1. CASE Even
    <3>1. \A x \in {C, S} : Writes(x) =>
            /\ rec[Peer(x)].rd \in {rec[x].checkpoint, rec[x].checkpoint + 1}
            /\ rec[x].checkpoint < Turns[Turn(x)]
      BY <2>1, AtCore, TurnFacts
    <3>2. \A x \in {C, S} : rec'[x].rd = rec[x].rd /\ rec'[x].checkpoint = rec[x].checkpoint /\ Turn(x)' = Turn(x)
      BY <1>1, <1>2, <1>3
    <3>3. QED
      BY <1>1, <1>4, <1>8, <2>1, <3>1, <3>2, PeerFacts DEF TurnInv
  <2>2. CASE Behind(o)
    <3>1. rec[p].checkpoint = 0 /\ (o = C => Con(S) = Last(1))
      BY <1>1, <2>2, AtCore, TurnFacts, PeerFacts
    <3>2. Behind(o)' /\ rec'[Peer(o)].checkpoint = 0 /\ (o = C => Con(S)' = Last(1)')
      BY <1>1, <1>3, <1>4, <1>9, <2>2, <3>1
    <3>3. QED
      BY <1>1, <3>2 DEF TurnInv
  <2>3. QED
    BY <2>1, <2>2, AtCore, TurnFacts DEF o
<1>11. RecordInv(p)' /\ RecordInv(o)'
  <2>1. RecordInv(p) /\ RecordInv(o)
    BY <1>1, AtCore
  <2>2. Turn(p) # Len(Turns) + 1
    BY RoleFacts, SoloFacts
  <2>3. Pc(C)' # "failed"
    BY <1>1, <1>2, <2>1 DEF RecordInv
  <2>4. RecordInv(p)'
    BY <1>1, <1>3, <2>1, <2>2, <2>3 DEF RecordInv
  <2>5. RecordInv(o)'
    BY <1>1, <1>4, <2>1, <2>3 DEF RecordInv
  <2>6. QED
    BY <2>4, <2>5
<1>12. ~ Sending(p)' /\ (Sending(o)' <=> Sending(o))
  BY <1>1, <1>5 DEF Sending
\* o waits for nothing that the broken connection could still have brought.
<1>13. ASSUME NEW l \in 1 .. Last(1), St(o, l) = "up", l = Con(p), In(o, l) # <<>> \/ Pc(o) = "take", l >= Con(o)
       PROVE  FALSE
  <2>1. o = S /\ Pc(o) = "take" => Alive("s")
    <3>1. server.pc = "ok" => Turn(S) = Len(Turns) + 1
      BY DEF ProgramInv
    <3>2. Turn(S) = Len(Turns) + 1 => Pc(S) = "idle"
      BY AtCore DEF RecordInv
    <3>3. QED
      BY <3>1, <3>2 DEF Alive, ProgramInv
  <2>2. St(p, l) = "up"
    BY <1>1, <1>13, <2>1, AtCore, LinkUp
  <2>3. QED
    BY <1>13, <2>2
<1>14. HoldInv(p)'
  BY <1>1 DEF HoldInv, Holds
<1>15. HoldInv(o)'
  <2>1. HoldInv(o)
    BY <1>1, AtCore
  <2>2. Con(o) \in 0 .. Last(1) /\ (Pc(o) = "take" => Con(o) # 0)
    BY <1>1, <2>1, EndRecord, AtCore DEF SocketInv
  <2>3. Pc(o) = "take" /\ OnLast(p) => FALSE
    <3> SUFFICES ASSUME Pc(o) = "take", OnLast(p) PROVE FALSE
      OBVIOUS
    <3>1. Pc(p) = "ack" /\ Con(p) = Con(o) /\ St(o, Con(o)) = "up"
      BY <1>1, <2>1 DEF HoldInv
    <3>2. QED
      BY <1>1, <1>13, <3>1
  <2>4. Holds(o)' <=> Holds(o)
    BY <1>1, <1>3 DEF Holds
  <2>5. In(o, Con(o))' = In(o, Con(o)) \/ Con(o) = 0
    BY <1>1, <2>2 DEF In
  <2>8. Pc(o) = "take" => St(o, Con(o))' = St(o, Con(o))
    <3>1. Con(o) # 0 => links'[1][Con(o)].st[o[2]] = links[1][Con(o)].st[o[2]]
      BY <1>1, <2>2 DEF St
    <3>2. QED
      BY <1>1, <2>2, <3>1 DEF St
  <2>6. Holds(o) => Con(o) # 0
    <3>1. Con(o) = 0 => Pc(o) = "idle"
      BY <1>1, AtCore, EndRecord DEF SocketInv
    <3>2. QED
      BY <3>1 DEF Holds
  <2>7. QED
    BY <1>1, <1>2, <1>3, <1>4, <1>8, <1>12, <2>1, <2>3, <2>4, <2>5, <2>6, <2>8 DEF HoldInv
\* What the connections carry.
<1>16. ASSUME NEW l \in 1 .. Last(1), l >= Con(p)
       PROVE  Carries(p, l)'
  <2>0. Carries(p, l)
    BY <1>16, AtCore
  <2>1. Carries(p, l) /\ In(p, l) \in Seq(Int)
    BY <2>0, CarriesTypes
  <2>2. CASE Writes(p)
    <3>1. In(p, l) = <<>> /\ In(p, l)' = In(p, l)
      <4>1. In(p, l)' = In(p, l)
        BY <2>2, RoleFacts
      <4>2. CASE Even
        BY <2>1, <2>2, <4>1, <4>2 DEF Carries, CarriesAck
      <4>3. CASE ~ Even
        <5>1. Behind(o)
          BY <4>3, AtCore, TurnFacts DEF o
        <5>2. Len(In(p, l)) <= 0
          BY <1>9, <2>1, <4>3, <5>1 DEF Carries, CarriesPacket, Lead, o
        <5>3. QED
          BY <2>1, <4>1, <5>2
      <4>4. QED
        BY <4>2, <4>3
    <3>2. CarriesAck(p, l)'
      BY <3>1 DEF CarriesAck
    <3>3. CarriesPacket(p, l)'
      BY <1>9, <3>1 DEF CarriesPacket, Lead, DIM
    <3>4. QED
      BY <3>2, <3>3 DEF Carries
  <2>3. CASE Reads(p)
    <3>1. Even /\ Writes(o) /\ ~ Writes(p) /\ ~ Behind(o)
      BY <2>3, AtCore, TurnFacts, RoleFacts DEF o
    <3>2. CarriesPacket(p, l)
      BY <2>1, <3>1 DEF Carries
    <3>3. CASE In(p, l)' = <<>>
      <4>1. CarriesPacket(p, l)'
        BY <1>9, <3>3 DEF CarriesPacket, Lead, DIM
      <4>2. QED
        BY <1>4, <3>1, <4>1 DEF Carries
    <3>4. CASE In(p, l)' = In(p, l)
      <4>1. Lead(p, l)' = Lead(p, l) /\ Lead(p, l) = 0
        BY <1>9 DEF Lead
      <4>2. Len(In(p, l)) > 0 => l <= Con(o) /\ (l = Con(o) => ~ Sending(o))
        BY <3>2, <4>1 DEF CarriesPacket, o
      <4>3. St(p, l)' = "up" => St(p, l) = "up"
        OBVIOUS
      <4>4. St(p, l) = "up" => St(p, l)' = "up"
        OBVIOUS
      <4>7. Len(In(p, l)) > Lead(p, l) => St(p, l)' \in {"up", "fin"}
        BY <3>2 DEF CarriesPacket
      <4>5. CarriesPacket(p, l)'
        BY <1>1, <1>4, <1>9, <1>12, <2>1, <3>1, <3>2, <3>4, <4>1, <4>2, <4>3, <4>4, <4>7, PacketFrame DEF o
      <4>6. QED
        BY <1>4, <3>1, <4>5 DEF Carries
    <3>5. QED
      BY <3>3, <3>4
  <2>4. QED
    BY <2>2, <2>3
<1>17. ASSUME NEW l \in 1 .. Last(1), l >= Con(o)
       PROVE  Carries(o, l)'
  <2>0. Carries(o, l) /\ In(o, l)' = In(o, l) /\ St(o, l)' = St(o, l)
    BY <1>1, <1>17, AtCore
  <2>1. Carries(o, l) /\ In(o, l) \in Seq(Int) /\ In(o, l)' = In(o, l) /\ St(o, l)' = St(o, l)
    BY <1>1, <2>0, CarriesTypes
  <2>2. CASE Writes(o) /\ Even
    <3>1. CarriesAck(o, l)
      BY <2>1, <2>2 DEF Carries
    <3>2. In(p, l)' = In(p, l) \/ In(p, l)' = <<>>
      OBVIOUS
    <3>3. CarriesAck(o, l)'
      BY <1>1, <1>3, <2>1, <3>1, <3>2 DEF CarriesAck
    <3>4. QED
      BY <1>4, <1>8, <2>2, <3>3, <1>1 DEF Carries
  <2>3. CASE ~ (Writes(o) /\ Even)
    <3>1. CarriesPacket(o, l)
      BY <2>1, <2>3 DEF Carries
    <3>2. Lead(o, l)' = Lead(o, l)
      BY <1>1, <1>9 DEF Lead
    <3>3. Len(In(o, l)) > Lead(o, l) => Writes(p) /\ l <= Con(p) /\ In(o, l) # <<>>
      BY <1>1, <2>1, <3>1 DEF CarriesPacket, Lead
    <3>4. ~ (Pc(p) = "ack" /\ l = Con(p) /\ St(o, l) = "up" /\ Len(In(o, l)) > Lead(o, l))
      BY <1>13, <1>17, <3>3
    <3>7. Len(In(o, l)) > Lead(o, l) => St(o, l)' \in {"up", "fin"}
      BY <2>1, <3>1 DEF CarriesPacket
    <3>5. CarriesPacket(o, l)'
      BY <1>1, <1>4, <1>9, <1>12, <2>1, <3>1, <3>2, <3>3, <3>4, <3>7, PacketFrame
    <3>6. QED
      BY <1>1, <1>4, <1>8, <2>3, <3>5 DEF Carries
  <2>4. QED
    BY <2>2, <2>3
<1>18. QED
  BY <1>1, <1>2, <1>4, <1>6, <1>7, <1>10, <1>11, <1>14, <1>15, <1>16, <1>17 DEF CoreInv

\* A step that leaves what the connections carry, and where p is in its turn.
LEMMA QuietStep ==
    ASSUME TypesInv, Single(test), CoreInv, NEW p \in {C, S}, NEW o, o = Peer(p), test' = test, rec'[o] = rec[o],
           SameTurn(p), Last(1)' = Last(1),
           \A x \in {C, S} : \A l \in 1 .. Last(1) : In(x, l)' = In(x, l) /\ (St(x, l)' = "up" <=> St(x, l) = "up"),
           \A x \in {C, S} : \A l \in 1 .. Last(1) : St(x, l)' = St(x, l) \/ (x = p /\ In(x, l) = <<>>),
           Behind(p)' <=> Behind(p), Due(p)' <=> Due(p), Sending(p)' => Sending(p), Sending(o)' <=> Sending(o),
           Pc(p) = "ack" => Pc(p)' = "ack", Pc(p)' \in {"take", "dup"} => Pc(p) \in {"take", "dup"},
           SocketInv', RecordInv(p)', HoldInv(p)'
    PROVE  CoreInv'
<1>1. /\ o \in {C, S} /\ o # p /\ Peer(o) = p
      /\ Con(o)' = Con(o) /\ Pc(o)' = Pc(o) /\ Turn(o)' = Turn(o) /\ Turns' = Turns
  BY PeerFacts DEF Con, Pc, Turn, Turns
<1>2. {C, S} = {p, o}
  BY <1>1
<1>3. /\ Con(p)' = Con(p) /\ Turn(p)' = Turn(p) /\ rec'[p].checkpoint = rec[p].checkpoint /\ rec'[p].rd = rec[p].rd
      /\ rec'[p].lastid = rec[p].lastid
  BY DEF SameTurn
<1>4. \A x \in {C, S} : /\ (Writes(x)' <=> Writes(x)) /\ (Reads(x)' <=> Reads(x)) /\ (OnLast(x)' <=> OnLast(x))
                        /\ Current(x)' = Current(x) /\ Con(x)' = Con(x)
  BY <1>1, <1>2, <1>3, RoleSame
<1>5. \A x \in {C, S} : \A l \in 1 .. Last(1) : St(x, l)' = "up" <=> St(x, l) = "up"
  OBVIOUS
<1>8. Even' <=> Even
  BY <1>1, <1>2, <1>3 DEF Even
<1>9. (Behind(o)' <=> Behind(o)) /\ (Due(o)' <=> Due(o))
  BY <1>1, <1>3, <1>4 DEF Behind, Due
<1>10. TurnInv'
  <2>0. \A x \in {C, S} : rec'[x].rd = rec[x].rd /\ rec'[x].checkpoint = rec[x].checkpoint /\ Turn(x)' = Turn(x)
      BY <1>1, <1>2, <1>3
  <2>1. CASE Even
    <3>1. \A x \in {C, S} : Writes(x) =>
            /\ rec[Peer(x)].rd \in {rec[x].checkpoint, rec[x].checkpoint + 1}
            /\ rec[x].checkpoint < Turns[Turn(x)]
      BY <2>1, AtCore, TurnFacts
    <3>2. QED
      BY <1>1, <1>4, <1>8, <2>0, <2>1, <3>1, PeerFacts DEF TurnInv
  <2>2. CASE ~ Even
    <3>1. PICK x \in {C, S} : Behind(x) /\ rec[Peer(x)].checkpoint = 0 /\ (x = C => Con(S) = Last(1))
      BY <2>2, AtCore DEF TurnInv
    <3>2. Behind(x)' /\ rec'[Peer(x)].checkpoint = 0 /\ (x = C => Con(S)' = Last(1)')
      BY <1>2, <1>4, <1>9, <2>0, <3>1, PeerFacts
    <3>3. QED
      BY <3>2 DEF TurnInv
  <2>3. QED
    BY <2>1, <2>2
<1>11. RecordInv(o)'
  <2>1. RecordInv(o) /\ RecordInv(p)
    BY <1>1, AtCore
  <2>2. Pc(C)' # "failed"
    BY DEF RecordInv
  <2>3. QED
    BY <1>1, <1>4, <2>1, <2>2 DEF RecordInv
<1>12. HoldInv(o)'
  <2>1. HoldInv(o)
    BY <1>1, AtCore
  <2>2. Con(o) \in 0 .. Last(1)
    BY <1>1, EndRecord
  <2>3. Holds(o)' <=> Holds(o)
    BY <1>1, <1>3 DEF Holds
  <2>4. Con(o) = 0 => ~ Holds(o) /\ Pc(o) # "take"
    <3>1. Con(o) = 0 => Pc(o) = "idle"
      BY <1>1, AtCore, EndRecord DEF SocketInv
    <3>2. QED
      BY <3>1 DEF Holds
  <2>5. Con(o) # 0 => In(o, Con(o))' = In(o, Con(o)) /\ St(o, Con(o))' = St(o, Con(o))
    BY <1>1, <2>2 DEF In, St
  <2>6. QED
    BY <1>1, <1>2, <1>3, <1>4, <1>8, <2>1, <2>3, <2>4, <2>5 DEF HoldInv
<1>13. ASSUME NEW l \in 1 .. Last(1), l >= Con(p)
       PROVE  Carries(p, l)'
  <2>0. Carries(p, l)
    BY <1>13, AtCore
  <2>1. Carries(p, l) /\ In(p, l) \in Seq(Int)
    BY <2>0, CarriesTypes
  <2>2. CASE Writes(p) /\ Even
    <3>1. CarriesAck(p, l)'
      BY <1>1, <1>3, <2>1, <2>2, AckFrame DEF Carries, CarriesAck
    <3>2. QED
      BY <1>4, <1>8, <2>2, <3>1 DEF Carries
  <2>3. CASE ~ (Writes(p) /\ Even)
    <3>1. CarriesPacket(p, l)
      BY <2>1, <2>3 DEF Carries
    <3>2. Lead(p, l)' = Lead(p, l)
      BY <1>3 DEF Lead
    <3>3. Len(In(p, l)) > Lead(p, l) => Writes(o) /\ ~ Behind(o) /\ l <= Con(o) /\ (l = Con(o) => ~ Sending(o))
      BY <3>1 DEF CarriesPacket
    <3>6. Len(In(p, l)) > Lead(p, l) => St(p, l)' \in {"up", "fin"}
      <4>1. Len(In(p, l)) > Lead(p, l) => In(p, l) # <<>>
        BY DEF Lead
      <4>2. QED
        BY <3>1, <4>1 DEF CarriesPacket
    <3>4. CarriesPacket(p, l)'
      BY <1>1, <1>3, <1>4, <1>5, <1>9, <2>1, <3>1, <3>2, <3>3, <3>6, PacketFrame
    <3>5. QED
      BY <1>4, <1>8, <2>3, <3>4 DEF Carries
  <2>4. QED
    BY <2>2, <2>3
<1>14. ASSUME NEW l \in 1 .. Last(1), l >= Con(o)
       PROVE  Carries(o, l)'
  <2>0. Carries(o, l) /\ In(o, l)' = In(o, l) /\ St(o, l)' = St(o, l)
    BY <1>1, <1>14, AtCore
  <2>1. Carries(o, l) /\ In(o, l) \in Seq(Int) /\ In(o, l)' = In(o, l) /\ St(o, l)' = St(o, l)
    BY <1>1, <2>0, CarriesTypes
  <2>2. CASE Writes(o) /\ Even
    <3>1. CarriesAck(o, l)
      BY <2>1, <2>2 DEF Carries
    <3>2. In(o, l) # <<>> => In(p, l) = <<>>
      BY <1>1, <3>1 DEF CarriesAck
    <3>3. CarriesAck(o, l)'
      BY <1>1, <1>3, <2>1, <3>1, <3>2, AckFrame DEF CarriesAck
    <3>4. QED
      BY <1>4, <1>8, <2>2, <3>3, <1>1 DEF Carries
  <2>3. CASE ~ (Writes(o) /\ Even)
    <3>1. CarriesPacket(o, l)
      BY <2>1, <2>3 DEF Carries
    <3>2. Lead(o, l)' = Lead(o, l)
      BY <1>1, <1>9 DEF Lead
    <3>3. Len(In(o, l)) > Lead(o, l) => Writes(p) /\ ~ Behind(p) /\ l <= Con(p) /\ (l = Con(p) => ~ Sending(p))
      BY <1>1, <2>1, <3>1 DEF CarriesPacket
    <3>6. Len(In(o, l)) > Lead(o, l) => St(o, l)' \in {"up", "fin"}
      BY <2>1, <3>1 DEF CarriesPacket
    <3>4. CarriesPacket(o, l)'
      BY <1>1, <1>3, <1>4, <2>1, <3>1, <3>2, <3>3, <3>6, PacketFrame
    <3>5. QED
      BY <1>1, <1>4, <1>8, <2>3, <3>4 DEF Carries
  <2>4. QED
    BY <2>2, <2>3
<1>15. QED
  BY <1>1, <1>2, <1>4, <1>10, <1>11, <1>12, <1>13, <1>14 DEF CoreInv

\* A step of a call that leaves what the connections carry, and where p is in its turn.
LEMMA QuietCore ==
    ASSUME TypesInv, Single(test), ProgramInv, CoreInv, NEW p \in {C, S}, Call(p),
           SameTurn(p), client' = client, Last(1)' = Last(1),
           \A x \in {C, S} : \A l \in 1 .. Last(1) : In(x, l)' = In(x, l),
           \A x \in {C, S} : \A l \in 1 .. Last(1) :
             St(x, l)' = St(x, l) \/ (/\ x = p /\ l = Con(p) /\ In(x, l) = <<>>
                                      /\ St(x, l) \in {"fin", "rst"} /\ St(x, l)' = "dead"),
           Pc(p)' \in {"ripristino", "failed"} => St(p, Con(p)) # "up",
           Pc(p) = "ripristino" => p = S, Pc(p)' = "failed" => p = S /\ Turn(p) \in 1 .. Len(Turns),
           Behind(p)' <=> Behind(p), Due(p)' <=> Due(p), Sending(p)' => Sending(p),
           Pc(p) = "ack" => Pc(p)' = "ack", Pc(p)' \in {"take", "dup"} => Pc(p) \in {"take", "dup"},
           RecordInv(p)', HoldInv(p)'
    PROVE  ProgramInv' /\ CoreInv'
<1> DEFINE o == Peer(p)
<1>1. /\ UNCHANGED <<test, up, falls, server, rip>> /\ (Alive("s")' <=> Alive("s"))
      /\ Con(p) \in 1 .. Last(1) /\ o \in {C, S} /\ o # p /\ Peer(o) = p
      /\ rec'[o] = rec[o] /\ Con(o)' = Con(o) /\ Pc(o)' = Pc(o) /\ Turn(o)' = Turn(o)
      /\ Turns' = Turns /\ (Fresh' <=> Fresh)
      /\ p = C => client.pc = "turns"
      /\ p = S => Alive("s")
  BY CallView
<1>2. {C, S} = {p, o} /\ (Alive("c")' <=> Alive("c"))
  BY <1>1 DEF Alive
<1>3. /\ Con(p)' = Con(p) /\ Turn(p)' = Turn(p) /\ rec'[p].checkpoint = rec[p].checkpoint /\ rec'[p].rd = rec[p].rd
      /\ rec'[p].lastid = rec[p].lastid
  BY DEF SameTurn
<1>4. \A x \in {C, S} : /\ (Writes(x)' <=> Writes(x)) /\ (Reads(x)' <=> Reads(x)) /\ (OnLast(x)' <=> OnLast(x))
                        /\ Current(x)' = Current(x) /\ Con(x)' = Con(x)
  BY <1>1, <1>2, <1>3, RoleSame
<1> HIDE DEF o
<1>5. \A x \in {C, S} : \A l \in 1 .. Last(1) : St(x, l)' = "up" <=> St(x, l) = "up"
  OBVIOUS
<1>6. SocketInv'
  <2>1. \A x \in {C, S} : \A l \in 1 .. Last(1) :
          St(x, l)' = St(x, l) \/ (St(x, l) \in {"fin", "rst"} /\ St(x, l)' = "dead")
    OBVIOUS
  <2>2. \A x \in {C, S} : \A l \in 1 .. Last(1) :
          In(x, l) = <<>> => In(x, l)' = <<>> \/ (l = Con(Peer(x)) /\ St(Peer(x), l) = "up")
    OBVIOUS
  <2>3. (Pc(S)' = Pc(S) /\ Turn(S)' = Turn(S)) \/
             (Con(S) # 0 /\ (Pc(S)' \in {"ripristino", "failed"} => St(S, Con(S)) # "up"))
    BY <1>1, <1>2
  <2>4. (Pc(C)' = Pc(C) /\ Turn(C)' = Turn(C)) \/
             (Last(1) # 0 /\ (Pc(C)' = "ripristino" => St(C, Con(C)) # "up"))
    BY <1>1, <1>2, SoloFacts
  <2>5. QED
    BY <1>1, <1>2, <1>4, <2>1, <2>2, <2>3, <2>4, AtCore, SocketFrame
<1>7. ProgramInv'
  <2>1. \/ Pc(C)' = Pc(C) /\ Turn(C)' = Turn(C) /\ client' = client
        \/ /\ client.pc = "turns" /\ Pc(C) # "ripristino"
           /\ client'.pc = "turns"
           /\ \/ Turn(C)' = Turn(C) /\ client'.at = client.at
              \/ Turn(C)' = Turn(C) + 1 /\ client'.at = client.at + 1
    BY <1>1, <1>2, <1>3, PeerFacts
  <2>2. \/ Pc(S)' = Pc(S) /\ Turn(S)' = Turn(S)
        \/ Alive("s") /\ (Pc(S)' = "failed" => Turn(S)' \in 1 .. Len(Turns))
    BY <1>1, <1>2, <1>3
  <2>3. QED
    BY <1>1, <1>4, <2>1, <2>2, ProgramFrame
<1>8. Sending(o)' <=> Sending(o)
  BY <1>1 DEF Sending
<1>9. CoreInv'
  <2>1. o = Peer(p) /\ test' = test
    BY <1>1 DEF o
  <2>2. \A x \in {C, S} : \A l \in 1 .. Last(1) : In(x, l)' = In(x, l) /\ (St(x, l)' = "up" <=> St(x, l) = "up")
    BY <1>5
  <2>3. \A x \in {C, S} : \A l \in 1 .. Last(1) : St(x, l)' = St(x, l) \/ (x = p /\ In(x, l) = <<>>)
    OBVIOUS
  <2>4. QED
    BY <1>1, <1>6, <1>8, <2>1, <2>2, <2>3, QuietStep
<1>10. QED
  BY <1>7, <1>9

-----------------------------------------------------------------------------
(***************************************************************************)
(* The steps of a Write.                                                   *)
(***************************************************************************)
LEMMA EndNames ==
    ASSUME NEW p \in {C, S}
    PROVE  Sock(p) = St(p, Con(p)) /\ Queue(p) = In(p, Con(p))
BY PeerFacts DEF Sock, Queue, St, In, Con

\* The record of an end is replaced,
LEMMA BecomeView ==
    ASSUME TypesInv, Single(test), NEW p \in {C, S}, NEW r, Become(p, r)
    PROVE  rec'[p] = r
<1>1. p \in Points /\ rec \in [Points -> RecordStates]
  BY SoloFacts, TypeFacts
<1>2. QED
  BY <1>1 DEF Become

\* goes to another place,
LEMMA GoToView ==
    ASSUME TypesInv, Single(test), NEW p \in {C, S}, NEW v \in Places, GoTo(p, v)
    PROVE  /\ Kept(p) /\ Pc(p)' = v /\ rec'[p].ack = rec[p].ack /\ rec'[p].buffer = rec[p].buffer
           /\ rec'[p].tent = rec[p].tent
<1> DEFINE r == rec[p]
<1> DEFINE q == [r EXCEPT !.pc = v]
<1>1. rec'[p] = q
  BY BecomeView DEF GoTo
<1>2. r \in RecordStates
  BY EndRecord
<1>3. /\ q.con = r.con /\ q.pc = v /\ q.turn = r.turn /\ q.checkpoint = r.checkpoint /\ q.quota = r.quota
      /\ q.ack = r.ack /\ q.lastid = r.lastid /\ q.buffer = r.buffer /\ q.rd = r.rd /\ q.tent = r.tent
  BY <1>2, WithPlace
<1> HIDE DEF q
<1>4. QED
  BY <1>1, <1>3 DEF Kept, SameTurn, Con, Turn, Pc

\* or has its ack set.
LEMMA AckRecord ==
    ASSUME NEW r \in RecordStates, NEW a \in Int, NEW q, q = [r EXCEPT !.ack = a]
    PROVE  /\ q \in RecordStates /\ q.con = r.con /\ q.turn = r.turn /\ q.checkpoint = r.checkpoint /\ q.pc = r.pc
           /\ q.ack = a /\ q.tent = r.tent /\ q.rd = r.rd /\ q.lastid = r.lastid /\ q.buffer = r.buffer
           /\ q.quota = r.quota
BY DEF RecordStates

\* A Write begins,
LEMMA CoreWrite ==
    ASSUME TypesInv, Single(test), ProgramInv, CoreInv, NEW p \in {C, S}, Call(p), Write(p)
    PROVE  ProgramInv' /\ CoreInv'
<1> DEFINE r == rec[p]
<1> DEFINE m == [r EXCEPT !.ack = 0]
<1> DEFINE q == [m EXCEPT !.pc = "send"]
<1>1. rec'[p] = q /\ Writes(p) /\ Pc(p) = "idle" /\ UNCHANGED <<links, client>>
  BY BecomeView DEF Write, Pc
<1>2. r \in RecordStates
  BY EndRecord
<1>3. /\ m \in RecordStates /\ m.con = r.con /\ m.turn = r.turn /\ m.checkpoint = r.checkpoint /\ m.pc = r.pc
      /\ m.ack = 0 /\ m.rd = r.rd /\ m.lastid = r.lastid /\ m.quota = r.quota
  BY <1>2, AckRecord
<1> HIDE DEF m
<1>4. /\ q.con = r.con /\ q.turn = r.turn /\ q.checkpoint = r.checkpoint /\ q.pc = "send"
      /\ q.ack = 0 /\ q.rd = r.rd /\ q.lastid = r.lastid /\ q.quota = r.quota
  BY <1>3, WithPlace, PlaceNames
<1> HIDE DEF q
<1>5. Kept(p) /\ Pc(p)' = "send" /\ rec'[p].ack = 0
  BY <1>1, <1>4 DEF Kept, SameTurn, Con, Turn, Pc
<1>6. Last(1)' = Last(1) /\ \A x \in {C, S} : \A l \in 1 .. Last(1) : In(x, l)' = In(x, l) /\ St(x, l)' = St(x, l)
  BY <1>1, KeepView
<1>7. Turns' = Turns /\ Turn(p)' = Turn(p) /\ rec'[p].checkpoint = rec[p].checkpoint
      /\ test' = test /\ (Writes(p)' <=> Writes(p))
  BY <1>5, RoleSame, CallView DEF Kept, SameTurn
<1>8. rec[p].checkpoint = 0 /\ Turns[Turn(p)] # 0 /\ Turn(p) \in 1 .. Len(Turns) /\ RecordInv(p)
  BY <1>1, AtCore, RoleFacts DEF RecordInv
<1>9. ~ Behind(p)' /\ ~ Behind(p) /\ ~ Due(p)' /\ ~ Due(p)
  BY <1>1, <1>5, <1>7, <1>8 DEF Behind, Due
<1>10. RecordInv(p)'
  <2>1. Pc(C)' # "failed"
    BY <1>5, <1>8, CallView, PeerFacts DEF RecordInv
  <2>2. Turn(p) # Len(Turns) + 1
    BY <1>8, SoloFacts
  <2>3. QED
    BY <1>1, <1>5, <1>7, <1>8, <2>1, <2>2 DEF RecordInv, Kept, SameTurn
<1>11. HoldInv(p)'
  BY <1>5 DEF HoldInv, Holds
<1>12. Sending(p)
  BY <1>1 DEF Sending
<1>13. QED
  BY <1>1, <1>5, <1>6, <1>9, <1>10, <1>11, <1>12, QuietCore DEF Kept

\* The parts of the invariant after a step of p's that keeps the record of its peer.
LEMMA JoinParts ==
    ASSUME CoreInv, TypesInv, Single(test), NEW p \in {C, S}, NEW o, o = Peer(p), test' = test, rec'[o] = rec[o], Last(1)' = Last(1),
           SocketInv', TurnInv', RecordInv(p)', HoldInv(p)', HoldInv(o)',
           \A l \in 1 .. Last(1) : l >= Con(p)' => Carries(p, l)',
           \A l \in 1 .. Last(1) : l >= Con(o) => Carries(o, l)'
    PROVE  CoreInv'
<1>1. o \in {C, S} /\ {C, S} = {p, o} /\ Con(o)' = Con(o) /\ Pc(o)' = Pc(o) /\ Turn(o)' = Turn(o)
  BY PeerFacts DEF Con, Pc, Turn
<1>2. RecordInv(o)'
  <2>1. RecordInv(o)
    BY <1>1, AtCore
  <2>2. Pc(C)' # "failed"
    BY DEF RecordInv
  <2>3. (Writes(o)' <=> Writes(o)) /\ Turns' = Turns
    BY <1>1, RoleSame
  <2>4. QED
    BY <1>1, <2>1, <2>2, <2>3 DEF RecordInv
<1>3. \A x \in {C, S} : /\ RecordInv(x)' /\ HoldInv(x)'
                        /\ \A l \in 1 .. Last(1) : l >= Con(x)' => Carries(x, l)'
  BY <1>1, <1>2
<1>4. QED
  BY <1>3 DEF CoreInv

\* Two sequences, one after the other.
LEMMA Concat ==
    ASSUME NEW a \in Seq(Int), NEW b \in Seq(Int), NEW m \in Nat, Len(a) = m, NEW n \in Nat, Len(b) = n
    PROVE  /\ a \o b \in Seq(Int) /\ Len(a \o b) = m + n
           /\ \A i \in 1 .. m : (a \o b)[i] = a[i]
           /\ \A i \in 1 .. n : (a \o b)[i + m] = b[i]
<1>1. a \o b \in Seq(Int) /\ Len(a \o b) = m + n
  BY ConcatProperties
<1>2. \A i \in 1 .. m : (a \o b)[i] = a[i]
  OBVIOUS
<1>3. \A i \in 1 .. n : (a \o b)[i + m] = b[i]
  OBVIOUS
<1>4. QED
  BY <1>1, <1>2, <1>3

\* Nothing is on its way to an end that writes and waits for no ack.
LEMMA NothingSent ==
    ASSUME TypesInv, Single(test), CoreInv, NEW p \in {C, S}, Writes(p), Pc(p) # "ack", ~ Behind(p),
           NEW l \in 1 .. Last(1), l >= Con(p)
    PROVE  In(p, l) = <<>>
<1> DEFINE o == Peer(p)
<1>1. Carries(p, l) /\ In(p, l) \in Seq(Int) /\ (Even \/ Behind(o)) /\ o \in {C, S} /\ Peer(o) = p
  BY AtCore, CarriesTypes, TurnFacts, PeerFacts
<1>2. CASE Even
  BY <1>1, <1>2 DEF Carries, CarriesAck
<1>3. CASE Behind(o)
  <2>1. CarriesPacket(p, l) /\ Lead(p, l) = 0
    BY <1>1, <1>3, AtCore, TurnFacts DEF Carries, Lead, Due
  <2>2. Len(In(p, l)) <= 0
    BY <1>1, <1>3, <2>1 DEF CarriesPacket
  <2>3. QED
    BY <1>1, <2>2
<1>4. QED
  BY <1>1, <1>2, <1>3

\* The packet is sent, and arrives behind what was on its way.
LEMMA CoreSent ==
    ASSUME TypesInv, Single(test), ProgramInv, CoreInv, NEW p \in {C, S}, Call(p),
           Pc(p) = "send", rec[p].checkpoint # Turns[Turn(p)], St(p, Con(p)) = "up",
           Sent(p, Packet(Turn(p), rec[p].checkpoint)), GoTo(p, "ack"), client' = client
    PROVE  ProgramInv' /\ CoreInv'
<1> DEFINE o == Peer(p)
<1> DEFINE c == Con(p)
<1>1. /\ UNCHANGED <<test, up, falls, server, rip>> /\ (Alive("s")' <=> Alive("s"))
      /\ Con(p) \in 1 .. Last(1) /\ o \in {C, S} /\ o # p /\ Peer(o) = p
      /\ rec'[o] = rec[o] /\ Con(o)' = Con(o) /\ Pc(o)' = Pc(o) /\ Turn(o)' = Turn(o)
      /\ Turns' = Turns /\ (Fresh' <=> Fresh)
      /\ p = C => client.pc = "turns"
      /\ p = S => Alive("s")
  BY CallView
<1>2. {C, S} = {p, o} /\ (Alive("c")' <=> Alive("c"))
  BY <1>1 DEF Alive
<1>3. /\ Kept(p) /\ Con(p)' = Con(p) /\ Turn(p)' = Turn(p) /\ rec'[p].checkpoint = rec[p].checkpoint /\ rec'[p].rd = rec[p].rd
      /\ rec'[p].lastid = rec[p].lastid /\ rec'[p].quota = rec[p].quota /\ Pc(p)' = "ack" /\ rec'[p].ack = rec[p].ack
  BY GoToView, PlaceNames DEF Kept, SameTurn
<1>4. \A x \in {C, S} : /\ (Writes(x)' <=> Writes(x)) /\ (Reads(x)' <=> Reads(x)) /\ (OnLast(x)' <=> OnLast(x))
                        /\ Current(x)' = Current(x) /\ Con(x)' = Con(x)
  BY <1>1, <1>2, <1>3, RoleSame
<1>5. Writes(p) /\ ~ Behind(p) /\ ~ Due(p) /\ (Even \/ Behind(o)) /\ Sending(p)
      /\ Turn(p) \in 1 .. Len(Turns) /\ rec[p].checkpoint \in Nat
  <2>1. Writes(p) /\ rec[p].checkpoint \in Nat
    BY EndRecord
  <2>2. ~ Behind(p)
    BY DEF Behind
  <2>3. QED
    BY <2>1, <2>2, AtCore, TurnFacts, RoleFacts DEF Due, Sending
<1>6. Packet(Turn(p), rec[p].checkpoint) \in Seq(Int) /\ Packet(Turn(p), rec[p].checkpoint) = Current(p)
      /\ Len(Current(p)) = 4 /\ DIM = 4
  <2>1. Turns[Turn(p)] \in Int /\ rec[p].checkpoint \in Int /\ Turn(p) \in Int
    BY <1>5, RoleFacts, SoloFacts
  <2>2. Packet(Turn(p), rec[p].checkpoint) \in Seq(Int)
    BY <2>1 DEF Packet, HDR
  <2>3. QED
    BY <2>2 DEF Current, Packet, DIM
<1> HIDE DEF o
<1>7. /\ Last(1)' = Last(1)
      /\ \A x \in {C, S} : \A l \in 1 .. Last(1) :
           /\ In(x, l)' = IF x = o /\ l = c THEN In(x, l) \o Current(p) ELSE In(x, l)
           /\ St(x, l)' = St(x, l)
  BY <1>1, <1>6, SentView DEF o
<1>8. \A l \in 1 .. Last(1) : In(p, l)' = In(p, l) /\ St(p, l)' = St(p, l) /\ St(o, l)' = St(o, l)
                              /\ In(o, l)' = IF l = c THEN In(o, l) \o Current(p) ELSE In(o, l)
  BY <1>1, <1>7
<1>9. SocketInv' /\ ProgramInv'
  <2>1. \A x \in {C, S} : \A l \in 1 .. Last(1) :
          In(x, l) = <<>> => In(x, l)' = <<>> \/ (l = Con(Peer(x)) /\ St(Peer(x), l) = "up")
    BY <1>1, <1>2, <1>7
  <2>2. SocketInv'
    <3>1. Con(p)' = Con(p) /\ Turn(p)' = Turn(p) /\ Pc(p)' = "ack"
      BY <1>3
    <3>2. QED
      BY <1>1, <1>2, <1>4, <1>7, <2>1, <3>1, SoloFacts, AtCore, SocketFrame
  <2>3. \/ Pc(C)' = Pc(C) /\ Turn(C)' = Turn(C) /\ client' = client
        \/ /\ client.pc = "turns" /\ Pc(C) # "ripristino"
           /\ client'.pc = "turns"
           /\ \/ Turn(C)' = Turn(C) /\ client'.at = client.at
              \/ Turn(C)' = Turn(C) + 1 /\ client'.at = client.at + 1
    BY <1>1, <1>2, <1>3
  <2>4. \/ Pc(S)' = Pc(S) /\ Turn(S)' = Turn(S)
        \/ Alive("s") /\ (Pc(S)' = "failed" => Turn(S)' \in 1 .. Len(Turns))
    BY <1>1, <1>2, <1>3
  <2>5. QED
    BY <1>1, <1>4, <1>7, <2>2, <2>3, <2>4, ProgramFrame
<1>10. (Even' <=> Even) /\ (Behind(o)' <=> Behind(o)) /\ (Due(o)' <=> Due(o)) /\ ~ Behind(p)' /\ ~ Due(p)'
  <2>1. Turn(o) # Turn(p) + 1
    <3>1. Even \/ Turn(p) = Turn(o) + 1
      BY <1>1, <1>5 DEF Behind
    <3>2. Even => Turn(o) = Turn(p)
      BY <1>1, AtCore, TurnFacts DEF o
    <3>3. Turn(o) \in 1 .. Len(Turns) + 1 /\ Turn(p) \in 1 .. Len(Turns) + 1 /\ Len(Turns) \in Nat
      BY <1>1, EndRecord, SoloFacts
    <3>4. QED
      BY <3>1, <3>2, <3>3
  <2>2. Even' <=> Even
    BY <1>1, <1>2, <1>3 DEF Even
  <2>3. Behind(o)' <=> Behind(o)
    BY <1>1, <1>3, <1>4 DEF Behind
  <2>4. ~ Behind(p)'
    BY <1>1, <1>3, <2>1 DEF Behind, o
  <2>5. QED
    BY <1>1, <2>2, <2>3, <2>4 DEF Due
<1>11. TurnInv'
  <2>1. CASE Even
    <3>1. \A x \in {C, S} : Writes(x) =>
            /\ rec[Peer(x)].rd \in {rec[x].checkpoint, rec[x].checkpoint + 1}
            /\ rec[x].checkpoint < Turns[Turn(x)]
      BY <2>1, AtCore, TurnFacts
    <3>2. \A x \in {C, S} : rec'[x].rd = rec[x].rd /\ rec'[x].checkpoint = rec[x].checkpoint /\ Turn(x)' = Turn(x)
      BY <1>1, <1>2, <1>3
    <3>3. QED
      BY <1>1, <1>4, <1>10, <2>1, <3>1, <3>2, PeerFacts DEF TurnInv
  <2>2. CASE Behind(o)
    <3>1. rec[p].checkpoint = 0 /\ (o = C => Con(S) = Last(1))
      BY <1>1, <2>2, AtCore, TurnFacts, PeerFacts
    <3>2. Behind(o)' /\ rec'[Peer(o)].checkpoint = 0 /\ (o = C => Con(S)' = Last(1)')
      BY <1>1, <1>3, <1>4, <1>7, <1>10, <2>2, <3>1
    <3>3. QED
      BY <1>1, <3>2 DEF TurnInv
  <2>3. QED
    BY <1>5, <2>1, <2>2
<1>12. RecordInv(p)' /\ HoldInv(p)' /\ ~ Sending(p)'
  <2>1. RecordInv(p)
    BY AtCore
  <2>2. Pc(C)' # "failed"
    BY <1>1, <1>2, <1>3, <2>1 DEF RecordInv
  <2>3. Turn(p) # Len(Turns) + 1
    BY <1>5, SoloFacts
  <2>4. QED
    BY <1>1, <1>3, <1>4, <2>1, <2>2, <2>3 DEF RecordInv, HoldInv, Holds, Sending
<1>13. HoldInv(o)'
  <2>1. HoldInv(o)
    BY <1>1, AtCore
  <2>2. Con(o) \in 0 .. Last(1)
    BY <1>1, EndRecord
  <2>3. Holds(o)' <=> Holds(o)
    BY <1>1, <1>3 DEF Holds
  <2>4. Holds(o) => Con(o) # c /\ Con(o) # 0
    <3>1. Con(o) = 0 => Pc(o) = "idle"
      BY <1>1, AtCore, EndRecord DEF SocketInv
    <3>2. QED
      BY <1>1, <1>5, <2>1, <3>1 DEF HoldInv, Holds
  <2>5. Holds(o) => In(o, Con(o))' = In(o, Con(o))
    BY <1>1, <1>8, <2>2, <2>4 DEF In
  <2>6. Pc(o) = "take" => ~ OnLast(p)
    BY <1>1, <2>1 DEF HoldInv
  <2>8. Pc(o) = "take" => St(o, Con(o))' = St(o, Con(o))
    BY <1>1, <1>8, <2>2, <2>4 DEF St, Holds
  <2>7. QED
    BY <1>1, <1>3, <1>4, <1>7, <1>10, <1>12, <2>1, <2>3, <2>5, <2>6, <2>8 DEF HoldInv
<1>14. \A l \in 1 .. Last(1) : l >= Con(p)' => Carries(p, l)'
  <2> TAKE l \in 1 .. Last(1)
  <2> HAVE l >= Con(p)'
  <2>3. In(p, l) = <<>>
    BY <1>3, <1>5, NothingSent
  <2>4. In(p, l)' = <<>>
    BY <1>8, <2>3
  <2>5. QED
    BY <1>10, <2>4 DEF Carries, CarriesAck, CarriesPacket, Lead, DIM
<1>15. \A l \in 1 .. Last(1) : l >= Con(o) => Carries(o, l)'
  <2> TAKE l \in 1 .. Last(1)
  <2> HAVE l >= Con(o)
  <2>1. Carries(o, l)
    BY <1>1, AtCore
  <2>2. In(o, l) \in Seq(Int) /\ Len(In(o, l)) \in Nat
    BY <1>1, CarriesTypes
  <2>3. ~ (Writes(o) /\ Even) /\ ~ (Writes(o) /\ Even)'
    BY <1>1, <1>4, <1>5, <1>10, AtCore, TurnFacts, RoleFacts
  <2>4. CarriesPacket(o, l)
    BY <2>1, <2>3 DEF Carries
  <2>5. Lead(o, l)' = Lead(o, l) /\ Lead(o, l) \in {0, 1}
    BY <1>1, <1>10 DEF Lead
  <2>6. CarriesPacket(o, l)'
    <3>1. CASE l # c
      <4>1. In(o, l)' = In(o, l) /\ St(o, l)' = St(o, l)
        BY <1>8, <3>1
      <4>2. Len(In(o, l)) > Lead(o, l) => l <= Con(p)
        BY <1>1, <2>4 DEF CarriesPacket
      <4>4. Len(In(o, l)) > Lead(o, l) => St(o, l)' \in {"up", "fin"}
        BY <2>4, <4>1 DEF CarriesPacket
      <4>3. QED
        BY <1>1, <1>3, <1>4, <1>5, <1>10, <1>12, <2>2, <2>4, <2>5, <3>1, <4>1, <4>2, <4>4, PacketFrame
    <3>2. CASE l = c
      <4> DEFINE q == In(o, l)
      <4> DEFINE d == Lead(o, l)
      <4>1. Len(q) \in d .. d + DIM /\ (d = 1 => q[1] = rec[o].checkpoint) /\ ~ (Len(q) > d)
        BY <1>1, <1>5, <2>4, <3>2 DEF CarriesPacket
      <4>2. Len(q) = d /\ d \in {0, 1}
        BY <1>6, <2>2, <2>5, <4>1
      <4>3. In(o, l)' = q \o Current(p) /\ Current(p) \in Seq(Int)
        BY <1>6, <1>8, <3>2
      <4>4. St(o, l)' = "up"
        <5>1. St(o, l) = "up"
          BY <1>1, <3>2, AtCore, LinkUp DEF o
        <5>2. QED
          BY <1>8, <5>1
      <4>5. In(o, l)' \in Seq(Int) /\ Len(In(o, l)') = d + 4 /\ (d = 1 => In(o, l)'[1] = rec[o].checkpoint)
            /\ \A i \in 1 .. 4 : In(o, l)'[i + d] = Current(p)[i]
        <5>1. q \in Seq(Int)
          BY <2>2
        <5> HIDE DEF q, d
        <5>2. /\ q \o Current(p) \in Seq(Int) /\ Len(q \o Current(p)) = d + 4
              /\ \A i \in 1 .. d : (q \o Current(p))[i] = q[i]
              /\ \A i \in 1 .. 4 : (q \o Current(p))[i + d] = Current(p)[i]
          <6> DEFINE w == Current(p)
          <6> DEFINE n == 4
          <6>1. w \in Seq(Int) /\ Len(w) = n /\ Len(q) = d /\ d \in Nat /\ n \in Nat
            BY <1>6, <4>2, <4>3
          <6> HIDE DEF w, n
          <6>2. /\ q \o w \in Seq(Int) /\ Len(q \o w) = d + n
                /\ \A i \in 1 .. d : (q \o w)[i] = q[i]
                /\ \A i \in 1 .. n : (q \o w)[i + d] = w[i]
            <7>1. \A a, b \in Seq(Int) : \A j, k \in Nat : Len(a) = j /\ Len(b) = k =>
                     /\ a \o b \in Seq(Int) /\ Len(a \o b) = j + k
                     /\ \A i \in 1 .. j : (a \o b)[i] = a[i]
                     /\ \A i \in 1 .. k : (a \o b)[i + j] = b[i]
              BY ZenonT(40), Concat
            <7>2. \A j, k \in Nat : Len(q) = j /\ Len(w) = k =>
                     /\ q \o w \in Seq(Int) /\ Len(q \o w) = j + k
                     /\ \A i \in 1 .. j : (q \o w)[i] = q[i]
                     /\ \A i \in 1 .. k : (q \o w)[i + j] = w[i]
              BY <5>1, <6>1, <7>1, Zenon
            <7>3. \A k \in Nat : Len(w) = k =>
                     /\ q \o w \in Seq(Int) /\ Len(q \o w) = d + k
                     /\ \A i \in 1 .. d : (q \o w)[i] = q[i]
                     /\ \A i \in 1 .. k : (q \o w)[i + d] = w[i]
              BY <6>1, <7>2, Zenon
            <7>4. QED
              BY <6>1, <7>3, Zenon
          <6>3. QED
            BY <6>2 DEF w, n
        <5>3. d = 1 => (q \o Current(p))[1] = rec[o].checkpoint
          BY <4>1, <5>2
        <5>4. QED
          BY <4>3, <5>2, <5>3
      <4>6. l = Con(p)' /\ ~ Sending(p)' /\ Writes(p)' /\ ~ Behind(p)' /\ Pc(p)' = "ack" /\ rec'[o].checkpoint = rec[o].checkpoint
            /\ Current(p)' = Current(p) /\ Lead(o, l)' = d
        BY <1>1, <1>3, <1>4, <1>5, <1>10, <1>12, <2>5, <3>2
      <4> HIDE DEF q, d
      <4>7. QED
        BY <1>1, <1>6, <4>2, <4>4, <4>5, <4>6 DEF CarriesPacket
    <3>3. QED
      BY <3>1, <3>2
  <2>7. QED
    BY <2>3, <2>6 DEF Carries
<1>16. QED
  BY <1>1, <1>3, <1>7, <1>9, <1>11, <1>12, <1>13, <1>14, <1>15, JoinParts DEF o

\* The other end is not at the turn after p's unless p is behind.
LEMMA NotBehind ==
    ASSUME TypesInv, Single(test), CoreInv, NEW p \in {C, S}, ~ Behind(p)
    PROVE  Turn(Peer(p)) # Turn(p) + 1
<1> DEFINE o == Peer(p)
<1>1. o \in {C, S} /\ Peer(o) = p
  BY PeerFacts
<1>2. Turn(o) \in 1 .. Len(Turns) + 1 /\ Turn(p) \in 1 .. Len(Turns) + 1 /\ Len(Turns) \in Nat
  BY <1>1, EndRecord, SoloFacts
<1>3. Even => Turn(o) = Turn(p)
  BY AtCore, TurnFacts
<1>4. Even \/ Behind(o)
  BY AtCore, TurnFacts
<1>5. Even \/ Turn(p) = Turn(o) + 1
  BY <1>1, <1>4 DEF Behind
<1>6. QED
  BY <1>2, <1>3, <1>5

\* A system call that fails.
LEMMA CoreRefused ==
    ASSUME TypesInv, Single(test), ProgramInv, CoreInv, NEW p \in {C, S}, Call(p),
           Broken(p), client' = client, Pc(p) \in {"send", "idle", "dup", "reload"}, Writes(p) \/ Reads(p),
           ~ Behind(p), St(p, Con(p)) # "up"
    PROVE  ProgramInv' /\ CoreInv'
<1>1. Con(p) \in 1 .. Last(1)
  BY CallView
<1>2. ErrorReported(p) /\ GoTo(p, "ripristino")
  BY DEF Broken
<1>3. Kept(p) /\ Pc(p)' = "ripristino"
  BY <1>2, GoToView, PlaceNames
<1>4. /\ Last(1)' = Last(1)
      /\ \A x \in {C, S} : \A l \in 1 .. Last(1) :
           /\ In(x, l)' = In(x, l)
           /\ St(x, l)' = IF x = p /\ l = Con(p) /\ St(x, l) = "rst" THEN "dead" ELSE St(x, l)
  BY <1>1, <1>2, ErrorView
<1>5. \A x \in {C, S} : \A l \in 1 .. Last(1) :
        St(x, l)' = St(x, l) \/ (x = p /\ l = Con(p) /\ St(x, l) = "rst" /\ St(x, l)' = "dead")
  BY <1>4
<1>6. QED
  BY <1>3, <1>4, <1>5, BrokenCore

\* A send on a connection whose other end has closed leaves what it carries.
LEMMA FinView ==
    ASSUME TypesInv, Single(test), NEW p \in {C, S}, Con(p) \in 1 .. Last(1), St(p, Con(p)) = "fin", In(p, Con(p)) = <<>>,
           NEW words \in Seq(Int), Sent(p, words)
    PROVE  /\ Last(1)' = Last(1)
           /\ \A x \in {C, S} : \A l \in 1 .. Last(1) : In(x, l)' = In(x, l)
           /\ \A x \in {C, S} : \A l \in 1 .. Last(1) :
                St(x, l)' = St(x, l) \/ (/\ x = p /\ l = Con(p) /\ In(x, l) = <<>>
                                         /\ St(x, l) \in {"fin", "rst"} /\ St(x, l)' = "dead")
<1>1. /\ Last(1)' = Last(1)
      /\ \A x \in {C, S} : \A l \in 1 .. Last(1) :
           /\ In(x, l)' = In(x, l)
           /\ St(x, l)' = St(x, l) \/ (x = p /\ l = Con(p) /\ St(x, l)' = "dead")
  BY SentView
<1>2. QED
  BY <1>1

\* sends a packet,
LEMMA CoreSendPacket ==
    ASSUME TypesInv, Single(test), ProgramInv, CoreInv, NEW p \in {C, S}, Call(p), SendPacket(p)
    PROVE  ProgramInv' /\ CoreInv'
<1>1. /\ Pc(p) = "send" /\ rec[p].checkpoint # Turns[Turn(p)] /\ client' = client
      /\ (SendAccepted(p) <=> St(p, Con(p)) \in {"up", "fin"})
      /\ IF SendAccepted(p) THEN Sent(p, Packet(Turn(p), rec[p].checkpoint)) /\ GoTo(p, "ack") ELSE Broken(p)
  BY EndNames DEF SendPacket, Pc, Turn, SendAccepted
<1>2. Writes(p) /\ ~ Behind(p) /\ Con(p) \in 1 .. Last(1) /\ Sending(p) /\ RecordInv(p) /\ ~ Due(p)
  BY <1>1, EndRecord, CallView, AtCore DEF Behind, Sending, Due
<1>3. CASE ~ SendAccepted(p)
  BY <1>1, <1>2, <1>3, CoreRefused
<1>4. CASE SendAccepted(p) /\ St(p, Con(p)) = "up"
  BY <1>1, <1>4, CoreSent
<1>5. CASE SendAccepted(p) /\ St(p, Con(p)) = "fin"
  <2>1. Packet(Turn(p), rec[p].checkpoint) \in Seq(Int)
    <3>1. Turns[Turn(p)] \in Int /\ rec[p].checkpoint \in Int /\ Turn(p) \in Int
      BY SMTT(30), <1>2, EndRecord, RoleFacts, SoloFacts
    <3>2. QED
      BY <3>1 DEF Packet, HDR
  <2>2. /\ Last(1)' = Last(1)
        /\ \A x \in {C, S} : \A l \in 1 .. Last(1) : In(x, l)' = In(x, l)
        /\ \A x \in {C, S} : \A l \in 1 .. Last(1) :
             St(x, l)' = St(x, l) \/ (/\ x = p /\ l = Con(p) /\ In(x, l) = <<>>
                                      /\ St(x, l) \in {"fin", "rst"} /\ St(x, l)' = "dead")
    <3>0. Con(p) >= Con(p) /\ Pc(p) # "ack"
      BY <1>1, <1>2
    <3>1. In(p, Con(p)) = <<>>
      BY <1>2, <3>0, NothingSent
    <3>2. QED
      BY <1>1, <1>2, <1>5, <2>1, <3>1, FinView
  <2>3. Kept(p) /\ Pc(p)' = "ack" /\ rec'[p].ack = rec[p].ack
    BY <1>1, <1>5, GoToView, PlaceNames
  <2>4. /\ Turns' = Turns /\ Turn(p)' = Turn(p) /\ rec'[p].checkpoint = rec[p].checkpoint /\ test' = test
        /\ (Writes(p)' <=> Writes(p)) /\ Turn(Peer(p))' = Turn(Peer(p))
    BY <2>3, RoleSame, CallView DEF Kept, SameTurn
  <2>5. ~ Behind(p)' /\ ~ Due(p)' /\ ~ Sending(p)'
    BY <1>2, <2>3, <2>4, NotBehind DEF Behind, Due, Sending
  <2>6. RecordInv(p)'
    <3>1. Pc(C)' # "failed"
      BY <1>2, <2>3, CallView, PeerFacts DEF RecordInv
    <3>2. Turn(p) # Len(Turns) + 1
      BY <1>2, RoleFacts, SoloFacts
    <3>3. QED
      BY <1>1, <1>2, <2>3, <2>4, <3>1, <3>2 DEF RecordInv, Kept, SameTurn
  <2>7. HoldInv(p)'
    BY <2>3 DEF HoldInv, Holds
  <2>8. QED
    BY <1>1, <1>2, <2>2, <2>3, <2>5, <2>6, <2>7, QuietCore DEF Kept
<1>6. QED
  BY <1>1, <1>3, <1>4, <1>5

\* finds the connection closed instead of an ack,
LEMMA CoreAckEof ==
    ASSUME TypesInv, Single(test), ProgramInv, CoreInv, NEW p \in {C, S}, Call(p), AckEof(p)
    PROVE  ProgramInv' /\ CoreInv'
<1>1. /\ Pc(p) = "ack" /\ client' = client /\ links' = links /\ GoTo(p, "ripristino")
      /\ In(p, Con(p)) = <<>> /\ St(p, Con(p)) # "up"
  BY EndNames DEF AckEof, Pc, AtEof
<1>2. Writes(p) /\ Con(p) \in 1 .. Last(1) /\ Kept(p) /\ Pc(p)' = "ripristino"
  BY <1>1, EndRecord, CallView, GoToView, PlaceNames
<1>3. ~ Behind(p)
  <2> SUFFICES ASSUME Behind(p) PROVE FALSE
    OBVIOUS
  <2>1. CarriesPacket(p, Con(p)) /\ Lead(p, Con(p)) = 1
    <3>1. Carries(p, Con(p)) /\ ~ Even
      BY <1>2, AtCore, TurnFacts, EndRecord, SoloFacts
    <3>2. QED
      BY <1>1, <3>1 DEF Carries, Lead, Due
  <2>2. Len(In(p, Con(p))) >= 1
    BY <2>1 DEF CarriesPacket, DIM
  <2>3. QED
    BY <1>1, <2>2
<1>4. Last(1)' = Last(1) /\ \A x \in {C, S} : \A l \in 1 .. Last(1) : In(x, l)' = In(x, l) /\ St(x, l)' = St(x, l)
  BY <1>1, KeepView
<1>5. QED
  BY <1>1, <1>2, <1>3, <1>4, BrokenCore

\* A word read, or not, for the ack.
LEMMA AckView ==
    ASSUME TypesInv, Single(test), NEW p \in {C, S}, NEW a \in Int,
           Become(p, AckTest([rec[p] EXCEPT !.ack = a, !.pc = "send"]))
    PROVE  /\ Con(p)' = Con(p) /\ Turn(p)' = Turn(p) /\ Pc(p)' = "send" /\ rec'[p].ack = a
           /\ rec'[p].rd = rec[p].rd /\ rec'[p].lastid = rec[p].lastid /\ rec'[p].quota = rec[p].quota
           /\ rec'[p].checkpoint = IF a = rec[p].checkpoint THEN rec[p].checkpoint + 1 ELSE rec[p].checkpoint
<1> DEFINE r == rec[p]
<1> DEFINE m == [r EXCEPT !.ack = a]
<1> DEFINE q == [m EXCEPT !.pc = "send"]
<1>1. rec'[p] = AckTest(q)
  BY BecomeView
<1>2. r \in RecordStates
  BY EndRecord
<1>3. /\ m \in RecordStates /\ m.con = r.con /\ m.turn = r.turn /\ m.checkpoint = r.checkpoint /\ m.pc = r.pc
      /\ m.ack = a /\ m.rd = r.rd /\ m.lastid = r.lastid /\ m.quota = r.quota
  BY <1>2, AckRecord
<1> HIDE DEF m
<1>4. /\ q \in RecordStates /\ q.con = r.con /\ q.turn = r.turn /\ q.checkpoint = r.checkpoint /\ q.pc = "send"
      /\ q.ack = a /\ q.rd = r.rd /\ q.lastid = r.lastid /\ q.quota = r.quota
  BY <1>3, WithPlace, PlaceNames
<1> HIDE DEF q
<1> DEFINE y == AckTest(q)
<1>5. y = IF a = r.checkpoint THEN [q EXCEPT !.checkpoint = q.checkpoint + 1] ELSE q
  BY <1>4 DEF AckTest, update_sended_byte
<1>6. /\ y.con = q.con /\ y.turn = q.turn /\ y.pc = q.pc /\ y.ack = q.ack /\ y.rd = q.rd /\ y.lastid = q.lastid
      /\ y.quota = q.quota
      /\ y.checkpoint = IF a = r.checkpoint THEN q.checkpoint + 1 ELSE q.checkpoint
  <2>1. CASE a = r.checkpoint
    <3>1. y = [q EXCEPT !.checkpoint = q.checkpoint + 1]
      BY <1>5, <2>1
    <3> HIDE DEF y
    <3>2. QED
      BY <1>4, <2>1, <3>1 DEF RecordStates
  <2>2. CASE a # r.checkpoint
    <3>1. y = q
      BY <1>5, <2>2
    <3> HIDE DEF y
    <3>2. QED
      BY <2>2, <3>1
  <2>3. QED
    BY <2>1, <2>2
<1> HIDE DEF y
<1>7. QED
  BY <1>1, <1>4, <1>6 DEF y, Con, Turn, Pc

\* The ack of a packet that is not the last of its Write.
LEMMA CoreAcked ==
    ASSUME TypesInv, Single(test), ProgramInv, CoreInv, NEW p \in {C, S}, Call(p), Even,
           Pc(p) = "ack", In(p, Con(p)) # <<>>, links' = Taken(p, 1), client' = client,
           Become(p, AckTest([rec[p] EXCEPT !.ack = In(p, Con(p))[1], !.pc = "send"]))
    PROVE  ProgramInv' /\ CoreInv'
<1> DEFINE o == Peer(p)
<1> DEFINE c == Con(p)
<1> DEFINE k == rec[p].checkpoint
<1>1. /\ UNCHANGED <<test, up, falls, server, rip>> /\ (Alive("s")' <=> Alive("s"))
      /\ Con(p) \in 1 .. Last(1) /\ o \in {C, S} /\ o # p /\ Peer(o) = p
      /\ rec'[o] = rec[o] /\ Con(o)' = Con(o) /\ Pc(o)' = Pc(o) /\ Turn(o)' = Turn(o)
      /\ Turns' = Turns /\ (Fresh' <=> Fresh)
      /\ p = C => client.pc = "turns"
      /\ p = S => Alive("s")
  BY CallView
<1>2. {C, S} = {p, o} /\ (Alive("c")' <=> Alive("c")) /\ Con(C) = Last(1) /\ Con(S) \in 0 .. Last(1) /\ Last(1) \in Nat
  BY <1>1, EndRecord, SoloFacts DEF Alive
<1>3. Writes(p) /\ Turn(p) \in 1 .. Len(Turns) /\ k \in Nat
  BY EndRecord, RoleFacts
<1>4. Reads(o) /\ ~ Writes(o) /\ ~ Behind(p) /\ ~ Behind(o) /\ Turn(o) = Turn(p) /\ rec[o].rd < Turns[Turn(p)]
      /\ rec[o].rd \in Nat
  <2>1. Reads(o) /\ ~ Behind(p) /\ ~ Behind(o) /\ Turn(o) = Turn(p)
    BY <1>1, <1>3, AtCore, TurnFacts
  <2>2. ~ Writes(o) /\ rec[o].rd < Turns[Turn(o)] /\ rec[o].rd \in Nat
    BY <1>1, <2>1, RoleFacts, EndRecord
  <2>3. QED
    BY <2>1, <2>2
<1>5. In(p, c) = <<k>> /\ rec[o].rd = k + 1 /\ In(o, c) = <<>> /\ ~ (Pc(o) \in {"take", "dup"} /\ c = Con(o))
  <2>1. Carries(p, c)
    BY <1>1, <1>2, AtCore
  <2>2. QED
    BY <1>3, <2>1 DEF Carries, CarriesAck
<1>6. /\ Con(p)' = Con(p) /\ Turn(p)' = Turn(p) /\ Pc(p)' = "send" /\ rec'[p].ack = k /\ rec'[p].rd = rec[p].rd
      /\ rec'[p].lastid = rec[p].lastid /\ rec'[p].quota = rec[p].quota /\ rec'[p].checkpoint = k + 1
  <2>1. In(p, c)[1] = k /\ k \in Int
    BY <1>3, <1>5
  <2>2. QED
    BY <2>1, AckView
<1>7. \A x \in {C, S} : (Writes(x)' <=> Writes(x)) /\ (Reads(x)' <=> Reads(x)) /\ Con(x)' = Con(x)
  BY <1>1, <1>2, <1>6, RoleSame
<1> HIDE DEF o
<1>8. /\ Last(1)' = Last(1)
      /\ \A x \in {C, S} : \A l \in 1 .. Last(1) :
           /\ In(x, l)' = IF x = p /\ l = c THEN <<>> ELSE In(x, l)
           /\ St(x, l)' = St(x, l)
  <2>1. /\ Last(1)' = Last(1)
        /\ \A x \in {C, S} : \A l \in 1 .. Last(1) :
             /\ In(x, l)' = IF x = p /\ l = c THEN SubSeq(In(p, c), 1 + 1, Len(In(p, c))) ELSE In(x, l)
             /\ St(x, l)' = St(x, l)
    BY <1>1, TakenView
  <2>2. SubSeq(In(p, c), 1 + 1, Len(In(p, c))) = <<>>
    BY <1>5
  <2>3. QED
    BY <2>1, <2>2
<1>9. SocketInv' /\ ProgramInv'
  <2>1. \A x \in {C, S} : \A l \in 1 .. Last(1) :
          In(x, l) = <<>> => In(x, l)' = <<>> \/ (l = Con(Peer(x)) /\ St(Peer(x), l) = "up")
    BY <1>8
  <2>2. SocketInv'
    BY <1>1, <1>2, <1>6, <1>7, <1>8, <2>1, SoloFacts, AtCore, SocketFrame
  <2>3. \/ Pc(C)' = Pc(C) /\ Turn(C)' = Turn(C) /\ client' = client
        \/ /\ client.pc = "turns" /\ Pc(C) # "ripristino"
           /\ client'.pc = "turns"
           /\ \/ Turn(C)' = Turn(C) /\ client'.at = client.at
              \/ Turn(C)' = Turn(C) + 1 /\ client'.at = client.at + 1
    BY <1>1, <1>2, <1>6
  <2>4. \/ Pc(S)' = Pc(S) /\ Turn(S)' = Turn(S)
        \/ Alive("s") /\ (Pc(S)' = "failed" => Turn(S)' \in 1 .. Len(Turns))
    BY <1>1, <1>2, <1>6
  <2>5. QED
    BY <1>1, <1>7, <1>8, <2>2, <2>3, <2>4, ProgramFrame
<1>10. Even' /\ ~ Behind(p)' /\ ~ Behind(o)' /\ ~ Due(p)' /\ ~ Due(o)'
  <2>1. Even'
    BY <1>1, <1>2, <1>4, <1>6 DEF Even
  <2>2. Turn(o)' = Turn(p)' /\ Turn(p)' \in Nat
    BY <1>1, <1>3, <1>4, <1>6
  <2>3. ~ Behind(p)' /\ ~ Behind(o)'
    BY <1>1, <2>2 DEF Behind, o
  <2>4. QED
    BY <2>1, <2>3 DEF Due
<1>11. TurnInv'
  <2>1. rec'[o].rd = k + 1 /\ rec'[p].checkpoint = k + 1 /\ k + 1 < Turns[Turn(p)]
    BY <1>1, <1>4, <1>5, <1>6
  <2>2. \A x \in {C, S} : Writes(x)' => x = p
    BY <1>2, <1>4, <1>7
  <2>3. \A x \in {C, S} : Writes(x)' =>
          /\ rec'[Peer(x)].rd \in {rec'[x].checkpoint, rec'[x].checkpoint + 1}
          /\ rec'[x].checkpoint < Turns'[Turn(x)']
    BY <1>1, <1>6, <2>1, <2>2 DEF o
  <2>4. QED
    BY <1>10, <2>3 DEF TurnInv
<1>12. RecordInv(p)' /\ HoldInv(p)'
  <2>1. RecordInv(p)
    BY AtCore
  <2>2. Pc(C)' # "failed"
    BY <1>1, <1>2, <1>6, <2>1 DEF RecordInv
  <2>3. Turn(p) # Len(Turns) + 1 /\ k \in 0 .. k + 1 /\ k # k + 1
    BY <1>3, SoloFacts
  <2>4. RecordInv(p)'
    BY <1>1, <1>6, <1>7, <2>1, <2>2, <2>3 DEF RecordInv
  <2>5. HoldInv(p)'
    BY <1>6 DEF HoldInv, Holds
  <2>6. QED
    BY <2>4, <2>5
\* The peer is on this connection.
<1>13. Con(o) = c \/ (o = C /\ Con(o) >= c)
  <2>1. CASE o = C
    BY <1>1, <1>2, <2>1
  <2>2. CASE o = S
    <3>1. p = C /\ c = Last(1)
      BY <1>1, <1>2, <2>2
    <3>2. ~ (c > Con(S))
      BY <1>1, <1>5, <3>1, AtCore DEF SocketInv
    <3>3. QED
      BY <1>2, <2>2, <3>1, <3>2
  <2>3. QED
    BY <1>1, <2>1, <2>2
<1>14. Pc(o) \notin {"take", "dup"}
  <2>1. Pc(o) \in {"take", "dup"} => (o = C => Con(S) = Last(1))
    BY <1>1, AtCore DEF HoldInv
  <2>2. Pc(o) \in {"take", "dup"} => c = Con(o)
    BY <1>1, <1>2, <1>13, <2>1
  <2>3. QED
    BY <1>5, <2>2
<1>15. HoldInv(o)'
  <2>1. HoldInv(o)
    BY <1>1, AtCore
  <2>2. ~ Holds(o)'
    <3>1. rec'[o].rd = k + 1 /\ rec'[p].checkpoint = k + 1
      BY <1>1, <1>5, <1>6
    <3>2. QED
      BY <1>1, <1>3, <1>14, <3>1 DEF Holds
  <2>3. QED
    BY <1>1, <1>7, <1>8, <1>10, <1>14, <2>1, <2>2, PeerFacts DEF HoldInv
<1>16. \A l \in 1 .. Last(1) : l >= Con(p)' => Carries(p, l)'
  <2> TAKE l \in 1 .. Last(1)
  <2> HAVE l >= Con(p)'
  <2>1. In(p, l)' = <<>>
    <3>1. Carries(p, l)
      BY <1>6, AtCore
    <3>2. l # c => In(p, l) = <<>>
      BY <1>3, <3>1 DEF Carries, CarriesAck
    <3>3. QED
      BY <1>8, <3>2
  <2>2. QED
    BY <1>3, <1>7, <1>10, <2>1 DEF Carries, CarriesAck
<1>17. \A l \in 1 .. Last(1) : l >= Con(o) => Carries(o, l)'
  <2> TAKE l \in 1 .. Last(1)
  <2> HAVE l >= Con(o)
  <2>1. Carries(o, l)
    BY <1>1, AtCore
  <2>2. In(o, l) \in Seq(Int) /\ Len(In(o, l)) \in Nat /\ Lead(o, l) = 0
    BY <1>1, <1>4, CarriesTypes DEF Lead, Due
  <2>3. In(o, l) = <<>>
    <3>1. CarriesPacket(o, l)
      BY <1>4, <2>1 DEF Carries
    <3>2. Len(In(o, l)) > 0 => l <= c
      BY <1>1, <2>2, <3>1 DEF CarriesPacket
    <3>3. l <= c => l = c
      BY <1>1, <1>2, <1>13
    <3>4. QED
      BY <1>5, <2>2, <3>2, <3>3
  <2>4. In(o, l)' = <<>> /\ Lead(o, l)' = 0
    BY <1>1, <1>8, <1>10, <2>3 DEF Lead
  <2>5. QED
    BY <2>4 DEF Carries, CarriesAck, CarriesPacket, DIM
<1>18. QED
  BY <1>1, <1>8, <1>9, <1>11, <1>12, <1>15, <1>16, <1>17, JoinParts DEF o

\* A sequence without its first element.
LEMMA Rest ==
    ASSUME NEW a \in Seq(Int), NEW n \in Nat, n >= 1, Len(a) = n
    PROVE  /\ Len(SubSeq(a, 1 + 1, Len(a))) = n - 1
           /\ \A i \in 1 .. n - 1 : SubSeq(a, 1 + 1, Len(a))[i] = a[i + 1]
<1>1. SubSeq(a, 1 + 1, Len(a)) = SubSeq(a, 2, n)
  OBVIOUS
<1>2. Len(SubSeq(a, 2, n)) = n - 1
  OBVIOUS
<1>3. \A i \in 1 .. n - 1 : SubSeq(a, 2, n)[i] = a[i + 1]
  OBVIOUS
<1>4. QED
  BY <1>1, <1>2, <1>3

\* The ack of the last packet of a Write.
LEMMA CoreLastAcked ==
    ASSUME TypesInv, Single(test), ProgramInv, CoreInv, NEW p \in {C, S}, Call(p), Behind(p),
           Pc(p) = "ack", In(p, Con(p)) # <<>>, links' = Taken(p, 1), client' = client,
           Become(p, AckTest([rec[p] EXCEPT !.ack = In(p, Con(p))[1], !.pc = "send"]))
    PROVE  ProgramInv' /\ CoreInv'
<1> DEFINE o == Peer(p)
<1> DEFINE c == Con(p)
<1> DEFINE k == rec[p].checkpoint
<1> DEFINE q == In(p, c)
<1>1. /\ UNCHANGED <<test, up, falls, server, rip>> /\ (Alive("s")' <=> Alive("s"))
      /\ Con(p) \in 1 .. Last(1) /\ o \in {C, S} /\ o # p /\ Peer(o) = p
      /\ rec'[o] = rec[o] /\ Con(o)' = Con(o) /\ Pc(o)' = Pc(o) /\ Turn(o)' = Turn(o)
      /\ Turns' = Turns /\ (Fresh' <=> Fresh)
      /\ p = C => client.pc = "turns"
      /\ p = S => Alive("s")
  BY CallView
<1>2. {C, S} = {p, o} /\ (Alive("c")' <=> Alive("c")) /\ Con(C) = Last(1) /\ Con(S) \in 0 .. Last(1) /\ Last(1) \in Nat
  BY <1>1, EndRecord, SoloFacts DEF Alive
<1>3. /\ Writes(p) /\ Turn(p) \in 1 .. Len(Turns) /\ k \in Nat /\ Turns[Turn(p)] \in Nat
      /\ k = Turns[Turn(p)] - 1 /\ Due(p)
  BY EndRecord, RoleFacts DEF Behind, Due
<1>4. /\ ~ Even /\ ~ Behind(o) /\ ~ Reads(o) /\ ~ Reads(p) /\ Turn(o) = Turn(p) + 1 /\ rec[o].checkpoint = 0
      /\ (p = C => Con(S) = Last(1))
  BY AtCore, TurnFacts
<1>5. q \in Seq(Int) /\ Len(q) \in Nat /\ CarriesPacket(p, c) /\ Lead(p, c) = 1 /\ q[1] = k
  <2>1. Carries(p, c)
    BY <1>1, <1>2, AtCore
  <2>2. CarriesPacket(p, c) /\ Lead(p, c) = 1
    BY <1>3, <1>4, <2>1 DEF Carries, Lead
  <2>3. QED
    BY <1>1, <2>2, CarriesTypes DEF CarriesPacket
<1>6. /\ Con(p)' = Con(p) /\ Turn(p)' = Turn(p) /\ Pc(p)' = "send" /\ rec'[p].ack = k /\ rec'[p].rd = rec[p].rd
      /\ rec'[p].lastid = rec[p].lastid /\ rec'[p].quota = rec[p].quota /\ rec'[p].checkpoint = k + 1
  <2>1. In(p, c)[1] = k /\ k \in Int
    BY <1>3, <1>5
  <2>2. QED
    BY <2>1, AckView
<1>7. \A x \in {C, S} : (Writes(x)' <=> Writes(x)) /\ (Reads(x)' <=> Reads(x)) /\ Con(x)' = Con(x)
  BY <1>1, <1>2, <1>6, RoleSame
<1>8. (OnLast(o)' <=> OnLast(o)) /\ Current(o)' = Current(o) /\ (Sending(o)' <=> Sending(o))
  BY <1>1, RoleSame DEF Sending
<1> HIDE DEF o
<1>9. /\ Last(1)' = Last(1)
      /\ \A x \in {C, S} : \A l \in 1 .. Last(1) :
           /\ In(x, l)' = IF x = p /\ l = c THEN SubSeq(q, 1 + 1, Len(q)) ELSE In(x, l)
           /\ St(x, l)' = St(x, l)
  BY <1>1, TakenView
<1>10. /\ Len(SubSeq(q, 1 + 1, Len(q))) = Len(q) - 1
       /\ \A i \in 1 .. Len(q) - 1 : SubSeq(q, 1 + 1, Len(q))[i] = q[i + 1]
       /\ Len(q) \in 1 .. 1 + DIM
  <2>1. Len(q) \in 1 .. 1 + DIM
    BY <1>5 DEF CarriesPacket
  <2>2. q \in Seq(Int) /\ Len(q) \in Nat
    BY <1>5
  <2>3. 1 \in Nat /\ Len(q) >= 1
    BY <2>1
  <2> HIDE DEF q
  <2>4. QED
    BY <2>1, <2>2, <2>3, Rest
<1>11. SocketInv' /\ ProgramInv'
  <2>1. \A x \in {C, S} : \A l \in 1 .. Last(1) :
          In(x, l) = <<>> => In(x, l)' = <<>> \/ (l = Con(Peer(x)) /\ St(Peer(x), l) = "up")
    BY <1>9
  <2>2. SocketInv'
    BY <1>1, <1>2, <1>6, <1>7, <1>9, <2>1, SoloFacts, AtCore, SocketFrame
  <2>3. \/ Pc(C)' = Pc(C) /\ Turn(C)' = Turn(C) /\ client' = client
        \/ /\ client.pc = "turns" /\ Pc(C) # "ripristino"
           /\ client'.pc = "turns"
           /\ \/ Turn(C)' = Turn(C) /\ client'.at = client.at
              \/ Turn(C)' = Turn(C) + 1 /\ client'.at = client.at + 1
    BY <1>1, <1>2, <1>6
  <2>4. \/ Pc(S)' = Pc(S) /\ Turn(S)' = Turn(S)
        \/ Alive("s") /\ (Pc(S)' = "failed" => Turn(S)' \in 1 .. Len(Turns))
    BY <1>1, <1>2, <1>6
  <2>5. QED
    BY <1>1, <1>7, <1>9, <2>2, <2>3, <2>4, ProgramFrame
<1>12. ~ Even' /\ Behind(p)' /\ ~ Behind(o)' /\ ~ Due(p)' /\ ~ Due(o)'
  <2>1. Turn(o)' = Turn(p)' + 1 /\ Turn(p)' \in Nat
    BY <1>1, <1>3, <1>4, <1>6
  <2>2. ~ Even'
    BY <1>1, <1>2, <2>1 DEF Even
  <2>3. Behind(p)'
    <3>1. rec'[p].checkpoint = Turns'[Turn(p)']
      BY <1>1, <1>3, <1>6
    <3>2. QED
      BY <1>1, <1>3, <1>6, <1>7, <2>1, <3>1 DEF Behind, o
  <2>4. ~ Behind(o)'
    BY <1>1, <2>1 DEF Behind
  <2>5. QED
    BY <1>6, <2>2, <2>3, <2>4 DEF Due
<1>13. TurnInv'
  <2>1. rec'[Peer(p)].checkpoint = 0 /\ (p = C => Con(S)' = Last(1)')
    BY <1>1, <1>4, <1>7, <1>9 DEF o
  <2>2. QED
    BY <1>12, <2>1 DEF TurnInv
<1>14. RecordInv(p)' /\ HoldInv(p)'
  <2>1. RecordInv(p)
    BY AtCore
  <2>2. Pc(C)' # "failed"
    BY <1>1, <1>2, <1>6, <2>1 DEF RecordInv
  <2>3. Turn(p) # Len(Turns) + 1 /\ k \in 0 .. k + 1 /\ k # k + 1
    BY <1>3, SoloFacts
  <2>4. RecordInv(p)'
    BY <1>1, <1>6, <1>7, <2>1, <2>2, <2>3 DEF RecordInv
  <2>5. HoldInv(p)'
    BY <1>6 DEF HoldInv, Holds
  <2>6. QED
    BY <2>4, <2>5
<1>15. HoldInv(o)'
  <2>1. Pc(o) \notin {"take", "dup", "reload"}
    BY <1>1, <1>4, AtCore DEF HoldInv
  <2>2. QED
    BY <1>1, <2>1 DEF HoldInv, Holds
<1>16. \A l \in 1 .. Last(1) : l >= Con(p)' => Carries(p, l)'
  <2> TAKE l \in 1 .. Last(1)
  <2> HAVE l >= Con(p)'
  <2>1. Carries(p, l) /\ In(p, l) \in Seq(Int) /\ Lead(p, l)' = 0
    BY <1>6, <1>12, AtCore, CarriesTypes DEF Lead
  <2>2. CASE l = c
    <3> DEFINE z == SubSeq(q, 1 + 1, Len(q))
    <3>1. /\ Len(q) \in 1 .. 1 + DIM
          /\ \A i \in 1 .. DIM : i + 1 <= Len(q) => q[i + 1] = Current(o)[i]
          /\ Len(q) > 1 => Writes(o) /\ ~ Behind(o) /\ c <= Con(o) /\ (c = Con(o) => ~ Sending(o))
          /\ St(p, c) = "up" => Len(q) \in {1, 1 + DIM}
          /\ Len(q) = 1 + DIM /\ OnLast(o) => Pc(o) = "ack" /\ c = Con(o) /\ St(p, c) = "up"
          /\ Len(q) > 1 => St(p, c) \in {"up", "fin"}
      BY <1>5 DEF CarriesPacket, o
    <3>2. z = In(p, l)' /\ St(p, l)' = St(p, l)
      BY <1>9, <2>2
    <3>3. Len(z) = Len(q) - 1 /\ (\A i \in 1 .. Len(q) - 1 : z[i] = q[i + 1]) /\ Len(q) \in Nat /\ DIM = 4
      BY <1>5, <1>10 DEF DIM
    <3> HIDE DEF z, q
    <3>4. /\ Len(z) \in 0 .. 0 + DIM
          /\ \A i \in 1 .. DIM : i + 0 <= Len(z) => z[i + 0] = Current(o)[i]
          /\ Len(z) > 0 => Writes(o) /\ ~ Behind(o) /\ c <= Con(o) /\ (c = Con(o) => ~ Sending(o))
          /\ St(p, c) = "up" => Len(z) \in {0, 0 + DIM}
          /\ Len(z) = 0 + DIM /\ OnLast(o) => Pc(o) = "ack" /\ c = Con(o) /\ St(p, c) = "up"
          /\ Len(z) > 0 => St(p, c) \in {"up", "fin"}
      <4>1. \A i \in 1 .. DIM : i + 0 <= Len(z) => z[i + 0] = Current(o)[i]
        <5> TAKE i \in 1 .. DIM
        <5> HAVE i + 0 <= Len(z)
        <5>1. i \in 1 .. Len(q) - 1 /\ i + 1 <= Len(q) /\ i + 0 = i
          BY <3>3
        <5>2. QED
          BY <3>1, <3>3, <5>1
      <4>2. QED
        BY SMTT(30), <3>1, <3>3, <4>1
    <3>5. CarriesPacket(p, l)'
      BY <1>1, <1>7, <1>8, <1>12, <2>1, <2>2, <3>2, <3>4 DEF CarriesPacket, o
    <3>6. QED
      BY <1>12, <2>2, <3>5 DEF Carries
  <2>3. CASE l # c
    <3>1. CarriesPacket(p, l) /\ Lead(p, l) = 0
      BY <1>4, <2>1, <2>3 DEF Carries, Lead
    <3>2. In(p, l)' = In(p, l) /\ St(p, l)' = St(p, l)
      BY <1>9, <2>3
    <3>3. Len(In(p, l)) > 0 => Writes(o) /\ ~ Behind(o) /\ l <= Con(o) /\ (l = Con(o) => ~ Sending(o))
      BY <3>1 DEF CarriesPacket, o
    <3>6. Len(In(p, l)) > 0 => St(p, l)' \in {"up", "fin"}
      BY <3>1, <3>2 DEF CarriesPacket
    <3>4. CarriesPacket(p, l)'
      BY <1>1, <1>7, <1>8, <1>12, <2>1, <3>1, <3>2, <3>3, <3>6, PacketFrame DEF o
    <3>5. QED
      BY <1>12, <3>4 DEF Carries
  <2>4. QED
    BY <2>2, <2>3
<1>17. \A l \in 1 .. Last(1) : l >= Con(o) => Carries(o, l)'
  <2> TAKE l \in 1 .. Last(1)
  <2> HAVE l >= Con(o)
  <2>1. Carries(o, l)
    BY <1>1, AtCore
  <2>2. In(o, l) \in Seq(Int) /\ Len(In(o, l)) \in Nat /\ Lead(o, l) = 0
    BY <1>1, <1>4, CarriesTypes DEF Lead, Due
  <2>3. In(o, l) = <<>>
    <3>1. CarriesPacket(o, l)
      BY <1>4, <2>1 DEF Carries
    <3>2. Len(In(o, l)) <= 0
      BY <1>1, <2>2, <3>1 DEF CarriesPacket
    <3>3. QED
      BY <2>2, <3>2
  <2>4. In(o, l)' = <<>> /\ Lead(o, l)' = 0
    BY <1>1, <1>9, <1>12, <2>3 DEF Lead
  <2>5. QED
    BY <2>4 DEF Carries, CarriesAck, CarriesPacket, DIM
<1>18. QED
  BY <1>1, <1>9, <1>11, <1>13, <1>14, <1>15, <1>16, <1>17, JoinParts DEF o

\* The RST of a server that gave up, taken for an ack.
LEMMA CoreReset ==
    ASSUME TypesInv, Single(test), ProgramInv, CoreInv, NEW p \in {C, S}, Call(p),
           Pc(p) = "ack", In(p, Con(p)) = <<>>, St(p, Con(p)) = "rst", ErrorReported(p), client' = client,
           Become(p, AckTest([rec[p] EXCEPT !.pc = "send"]))
    PROVE  ProgramInv' /\ (CoreInv' \/ LostInv')
<1> DEFINE k == rec[C].checkpoint
<1> DEFINE n == Last(1)
<1>1. /\ UNCHANGED <<test, up, falls, server, rip>> /\ (Alive("s")' <=> Alive("s"))
      /\ Con(p) \in 1 .. Last(1) /\ Turns' = Turns /\ (Fresh' <=> Fresh)
      /\ p = C => client.pc = "turns"
  BY CallView
<1>2. p = C
  BY <1>1, AtCore, PeerFacts DEF SocketInv
<1>3. /\ client.pc = "turns" /\ Con(C) = n /\ n \in 1 .. n /\ n \in Nat /\ Con(S) \in 0 .. n
      /\ rec'[S] = rec[S] /\ Con(S)' = Con(S) /\ Pc(S)' = Pc(S) /\ Turn(S)' = Turn(S)
      /\ (Alive("c")' <=> Alive("c"))
  <2>1. rec'[S] = rec[S] /\ Con(S)' = Con(S) /\ Pc(S)' = Pc(S) /\ Turn(S)' = Turn(S)
    BY <1>2, CallView, PeerFacts
  <2>2. Con(C) = n /\ n \in Nat /\ Con(S) \in 0 .. n
    BY EndRecord, SoloFacts
  <2>3. QED
    BY <1>1, <1>2, <2>1, <2>2 DEF Alive
<1>4. Writes(C) /\ Turn(C) \in 1 .. Len(Turns) /\ k \in Nat /\ Turns[Turn(C)] \in Nat
      /\ rec[C].ack \in 0 .. k /\ (rec[C].ack = k => k = 0) /\ ~ Sending(C) /\ ~ Fresh
  <2>1. Writes(C) /\ k \in Nat
    BY <1>2, EndRecord
  <2>2. rec[C].ack \in 0 .. k /\ (rec[C].ack = k => k = 0)
    BY <1>2, AtCore DEF RecordInv
  <2>3. ~ Fresh
    BY <1>2, <1>3 DEF Fresh, ProgramInv
  <2>4. QED
    BY <1>2, <2>1, <2>2, <2>3, RoleFacts DEF Sending
<1>5. ~ Alive("s") /\ In(C, n) = <<>> /\ St(C, n) = "rst"
  BY <1>1, <1>2, <1>3, AtCore DEF SocketInv
\* The server has given up, at the same turn.
<1>6. ~ Behind(C)
  <2> SUFFICES ASSUME Behind(C) PROVE FALSE
    OBVIOUS
  <2>1. Carries(C, n) /\ ~ Even /\ Lead(C, n) = 1
    BY <1>2, <1>3, AtCore, TurnFacts DEF Lead, Due
  <2>2. Len(In(C, n)) >= 1
    BY <2>1 DEF Carries, CarriesPacket, DIM
  <2>3. QED
    BY <1>5, <2>2
<1>7. Even /\ server.pc = "failed" /\ Pc(S) = "failed" /\ ~ Writes(S) /\ Turn(S) = Turn(C)
  <2>1. Even \/ Behind(S)
    BY <1>6, AtCore, TurnFacts, PeerFacts
  <2>2. server.pc \in {"ok", "failed"} /\ (server.pc = "ok" => Turn(S) = Len(Turns) + 1)
        /\ (server.pc = "failed" => Pc(S) = "failed")
    BY <1>5 DEF Alive, ProgramInv
  <2>3. ~ Behind(S)
    <3>1. Turn(S) = Len(Turns) + 1 => ~ Writes(S)
      BY RoleFacts, SoloFacts
    <3>2. QED
      BY <2>2, <3>1 DEF Behind
  <2>4. Even /\ Turn(S) = Turn(C)
    BY <2>1, <2>3 DEF Even
  <2>5. Turn(S) # Len(Turns) + 1
    BY <1>4, <2>4, SoloFacts
  <2>6. ~ Writes(S)
    <3>1. Reads(S)
      BY <1>4, <2>4, AtCore, TurnFacts, PeerFacts
    <3>2. QED
      BY <3>1, RoleFacts
  <2>7. QED
    BY <2>2, <2>4, <2>5, <2>6
\* What the client does.
<1>8. /\ Con(C)' = Con(C) /\ Turn(C)' = Turn(C) /\ Pc(C)' = "send" /\ rec'[C].ack = rec[C].ack
      /\ rec'[C].rd = rec[C].rd /\ rec'[C].lastid = rec[C].lastid /\ rec'[C].quota = rec[C].quota
      /\ rec'[C].checkpoint = IF rec[C].ack = k THEN k + 1 ELSE k
  <2>1. rec[C] \in RecordStates /\ rec[C].ack \in Int
    BY EndRecord
  <2>2. [rec[C] EXCEPT !.pc = "send"] = [rec[C] EXCEPT !.ack = rec[C].ack, !.pc = "send"]
    BY <2>1 DEF RecordStates
  <2>3. Become(C, AckTest([rec[C] EXCEPT !.ack = rec[C].ack, !.pc = "send"]))
    BY <1>2, <2>2
  <2>4. QED
    BY <2>1, <2>3, AckView
<1>9. \A x \in {C, S} : (Writes(x)' <=> Writes(x)) /\ (Reads(x)' <=> Reads(x)) /\ Con(x)' = Con(x) /\ Turn(x)' = Turn(x)
  BY <1>1, <1>3, <1>8, RoleSame
<1>10. /\ Last(1)' = Last(1)
       /\ \A x \in {C, S} : \A l \in 1 .. Last(1) :
            /\ In(x, l)' = In(x, l)
            /\ St(x, l)' = IF x = C /\ l = n THEN "dead" ELSE St(x, l)
  <2>1. /\ Last(1)' = Last(1)
        /\ \A x \in {C, S} : \A l \in 1 .. Last(1) :
             /\ In(x, l)' = In(x, l)
             /\ St(x, l)' = IF x = C /\ l = n /\ St(x, l) = "rst" THEN "dead" ELSE St(x, l)
    BY <1>1, <1>2, <1>3, ErrorView
  <2>2. QED
    BY <1>5, <2>1
<1>11. ProgramInv'
  <2>1. Pc(S)' = Pc(S) /\ Turn(S)' = Turn(S)
    BY <1>3
  <2>2. client'.pc = "turns" /\ Turn(C)' = Turn(C) /\ client'.at = client.at /\ Pc(C) # "ripristino" /\ client.pc = "turns"
    BY <1>2, <1>3, <1>8
  <2>3. QED
    BY <1>1, <1>3, <1>10, <2>1, <2>2, ProgramFrame
<1>12. CASE rec[C].ack # k
  <2>1. rec'[C].checkpoint = k
    BY <1>8, <1>12
  <2>2. SocketInv'
    <3>1. \A x \in {C, S} : \A l \in 1 .. Last(1) :
            St(x, l)' = St(x, l) \/ (St(x, l) \in {"fin", "rst"} /\ St(x, l)' = "dead")
      BY <1>5, <1>10
    <3>2. QED
      BY <1>1, <1>3, <1>8, <1>10, <3>1, AtCore, PeerFacts, SocketFrame
  <2>3. Even' /\ ~ Behind(C)' /\ ~ Behind(S)' /\ ~ Due(C)' /\ ~ Due(S)'
    <3>1. Turn(C)' = Turn(S)' /\ Turn(C)' \in Nat
      BY <1>4, <1>7, <1>9
    <3>2. QED
      BY <3>1, PeerFacts DEF Even, Behind, Due
  <2>4. TurnInv'
    <3>1. \A x \in {C, S} : Writes(x) =>
            /\ rec[Peer(x)].rd \in {rec[x].checkpoint, rec[x].checkpoint + 1}
            /\ rec[x].checkpoint < Turns[Turn(x)]
      BY <1>7, AtCore, TurnFacts
    <3>2. \A x \in {C, S} : rec'[x].rd = rec[x].rd /\ rec'[x].checkpoint = rec[x].checkpoint /\ Turn(x)' = Turn(x)
      BY <1>3, <1>8, <2>1
    <3>3. QED
      BY <1>1, <1>9, <2>3, <3>1, <3>2, PeerFacts DEF TurnInv
  <2>5. RecordInv(C)' /\ HoldInv(C)'
    <3>1. RecordInv(C) /\ Turn(C) # Len(Turns) + 1
      BY <1>4, AtCore, SoloFacts
    <3>2. RecordInv(C)'
      BY <1>1, <1>2, <1>4, <1>8, <1>9, <1>12, <2>1, <3>1 DEF RecordInv
    <3>3. HoldInv(C)'
      BY <1>8 DEF HoldInv, Holds
    <3>4. QED
      BY <3>2, <3>3
  <2>6. HoldInv(S)'
    BY <1>3, <1>7 DEF HoldInv, Holds
  <2>7. \A l \in 1 .. Last(1) : l >= Con(C)' => Carries(C, l)'
    <3> TAKE l \in 1 .. Last(1)
    <3> HAVE l >= Con(C)'
    <3>1. l = n
      BY <1>3, <1>8
    <3>2. In(C, l)' = <<>> /\ Writes(C)' /\ Even'
      BY <1>4, <1>5, <1>9, <1>10, <2>3, <3>1
    <3>3. QED
      BY <3>2 DEF Carries, CarriesAck
  <2>8. \A l \in 1 .. Last(1) : l >= Con(S) => Carries(S, l)'
    <3> TAKE l \in 1 .. Last(1)
    <3> HAVE l >= Con(S)
    <3>1. In(S, l)' = <<>>
      BY <1>5, <1>10, AtCore DEF SocketInv
    <3>2. Lead(S, l)' = 0
      BY <2>3 DEF Lead
    <3>3. QED
      BY <3>1, <3>2 DEF Carries, CarriesAck, CarriesPacket, DIM
  <2>9. CoreInv'
    BY <1>1, <1>3, <1>10, <2>2, <2>4, <2>5, <2>6, <2>7, <2>8, PeerFacts, JoinParts
  <2>10. QED
    BY <1>11, <2>9
<1>13. CASE rec[C].ack = k
  <2>1. rec'[C].checkpoint = 1
    BY <1>4, <1>8, <1>13
  <2>2. In(C, Last(1))' = <<>> /\ St(C, Last(1))' = "dead"
    <3>1. In(C, n)' = <<>> /\ St(C, n)' = "dead" /\ Last(1)' = n
      <4>1. \A l \in 1 .. n : l = n => In(C, l)' = In(C, l) /\ St(C, l)' = "dead"
        BY <1>10
      <4>2. links'[1][n].queue[C[2]] = In(C, n) /\ links'[1][n].st[C[2]] = "dead" /\ Last(1)' = n
        BY <1>3, <1>10, <4>1 DEF In, St
      <4>3. QED
        BY <1>5, <4>2 DEF In, St
    <3>2. QED
      BY <3>1
  <2>3. LastSafe' => Turns[Turn(C)] > 1 \/ Turn(C) < Len(Turns)
    <3>1. LastSafe' <=> LastSafe
      BY <1>1 DEF LastSafe
    <3>2. Turn(C) = Len(Turns) /\ LastSafe => Turns[Turn(C)] > 1
      <4>1. Turn(C) % 2 = 1 <=> test.first = "c"
        BY <1>4, PeerFacts DEF Writes, Turn
      <4>2. test.first \in {"c", "s"}
        BY TypeFacts, TestFacts DEF Ends
      <4>3. QED
        BY <4>1, <4>2 DEF LastSafe
    <3>3. QED
      BY <1>4, <3>1, <3>2, SoloFacts
  <2>4. LostInv'
    <3>1. server'.pc = "failed" /\ Pc(C)' = "send" /\ ~ Fresh' /\ Last(1)' > 0 /\ Pc(S)' = "failed"
      BY <1>1, <1>3, <1>4, <1>7, <1>8, <1>10
    <3>2. Turn(C)' # Len(Turns') + 1 /\ Turn(S)' <= Turn(C)' /\ (Writes(S)' => Turn(S)' < Turn(C)')
      BY <1>1, <1>4, <1>7, <1>9, SoloFacts
    <3>3. LastSafe' => /\ Turn(C)' \in DOMAIN Turns'
                       /\ Turns'[Turn(C)'] > 1 \/ Turn(C)' < Len(Turns')
      BY <1>1, <1>4, <1>8, <2>3, TypeFacts, TestFacts
    <3>4. QED
      BY <2>1, <2>2, <3>1, <3>2, <3>3 DEF LostInv
  <2>5. QED
    BY <1>11, <2>4
<1>14. QED
  BY <1>12, <1>13

\* or takes an ack.
LEMMA CoreReadAck ==
    ASSUME TypesInv, Single(test), ProgramInv, CoreInv, NEW p \in {C, S}, Call(p), ReadAck(p)
    PROVE  ProgramInv' /\ (CoreInv' \/ LostInv')
<1>1. Pc(p) = "ack" /\ client' = client /\ Queue(p) = In(p, Con(p)) /\ Sock(p) = St(p, Con(p)) /\ Writes(p)
  BY EndNames, EndRecord DEF ReadAck, Pc
<1>2. CASE /\ In(p, Con(p)) # <<>>
           /\ links' = Taken(p, 1)
           /\ Become(p, AckTest([rec[p] EXCEPT !.ack = In(p, Con(p))[1], !.pc = "send"]))
  <2>1. CASE Even
    BY <1>1, <1>2, <2>1, CoreAcked
  <2>2. CASE Behind(p)
    BY <1>1, <1>2, <2>2, CoreLastAcked
  <2>3. CASE Behind(Peer(p))
    <3>1. Carries(p, Con(p)) /\ ~ Even /\ Lead(p, Con(p)) = 0
      <4>1. ~ Even /\ ~ Behind(p)
        BY <2>3, AtCore, TurnFacts
      <4>2. Con(p) \in 1 .. Last(1) /\ Con(p) >= Con(p)
        <5>1. Con(p) \in 1 .. Last(1)
          BY CallView
        <5>2. Con(p) \in Nat
          BY <5>1
        <5>3. QED
          BY <5>1, <5>2
      <4>3. Carries(p, Con(p))
        BY <4>2, AtCore
      <4>4. QED
        BY <4>1, <4>3 DEF Lead, Due
    <3>2. Len(In(p, Con(p))) <= 0 /\ In(p, Con(p)) \in Seq(Int)
      BY <2>3, <3>1, CallView, CarriesTypes DEF Carries, CarriesPacket
    <3>3. QED
      BY <1>2, <3>2
  <2>4. QED
    BY <2>1, <2>2, <2>3, AtCore, TurnFacts
<1>3. CASE AtReset(p) /\ ErrorReported(p) /\ Become(p, AckTest([rec[p] EXCEPT !.pc = "send"]))
  BY <1>1, <1>3, CoreReset DEF AtReset
<1>4. QED
  BY <1>1, <1>2, <1>3 DEF ReadAck

\* A Write that returns leaves its record as a Read needs it.
LEMMA ReturnView ==
    ASSUME TypesInv, Single(test), NEW p \in {C, S},
           Become(p, reset_sended_byte([rec[p] EXCEPT !.turn = @ + 1, !.pc = "idle"]))
    PROVE  /\ Con(p)' = Con(p) /\ Turn(p)' = Turn(p) + 1 /\ Pc(p)' = "idle" /\ rec'[p].checkpoint = 0
           /\ rec'[p].rd = rec[p].rd /\ rec'[p].lastid = rec[p].lastid /\ rec'[p].quota = rec[p].quota
<1> DEFINE r == rec[p]
<1> DEFINE q == [r EXCEPT !.turn = @ + 1, !.pc = "idle"]
<1> DEFINE y == [q EXCEPT !.checkpoint = 0]
<1>1. rec'[p] = y
  BY BecomeView DEF reset_sended_byte
<1>2. r \in RecordStates /\ r.turn + 1 \in Nat \ {0}
  <2>1. r \in RecordStates
    BY EndRecord
  <2>2. r.turn \in Nat \ {0}
    BY <2>1 DEF RecordStates
  <2>3. QED
    BY <2>1, <2>2
<1>3. q \in RecordStates
  BY <1>2, PlaceNames DEF RecordStates
<1>4. q.con = r.con /\ q.turn = r.turn + 1 /\ q.pc = "idle"
  BY <1>2, PlaceNames DEF RecordStates
<1>5. q.rd = r.rd /\ q.lastid = r.lastid /\ q.quota = r.quota
  BY <1>2 DEF RecordStates
<1> HIDE DEF q
<1>6. y.con = q.con /\ y.turn = q.turn /\ y.pc = q.pc /\ y.checkpoint = 0 /\ y.rd = q.rd /\ y.lastid = q.lastid
      /\ y.quota = q.quota
  BY <1>3 DEF RecordStates
<1> HIDE DEF y
<1>7. QED
  BY <1>1, <1>4, <1>5, <1>6 DEF Con, Turn, Pc

\* The Write returns, and the turn is over.
LEMMA CoreReturn ==
    ASSUME TypesInv, Single(test), ProgramInv, CoreInv, NEW p \in {C, S}, Call(p), ReturnFromWrite(p)
    PROVE  ProgramInv' /\ CoreInv'
<1> DEFINE o == Peer(p)
<1>1. /\ UNCHANGED <<test, up, falls, server, rip>> /\ (Alive("s")' <=> Alive("s"))
      /\ Con(p) \in 1 .. Last(1) /\ o \in {C, S} /\ o # p /\ Peer(o) = p
      /\ rec'[o] = rec[o] /\ Con(o)' = Con(o) /\ Pc(o)' = Pc(o) /\ Turn(o)' = Turn(o)
      /\ Turns' = Turns /\ (Fresh' <=> Fresh)
      /\ p = C => client.pc = "turns"
      /\ p = S => Alive("s")
  BY CallView
<1>2. Pc(p) = "send" /\ rec[p].checkpoint = Turns[Turn(p)] /\ links' = links /\ TurnOver(p)
      /\ Become(p, reset_sended_byte([rec[p] EXCEPT !.turn = @ + 1, !.pc = "idle"]))
  BY DEF ReturnFromWrite, Pc, Turn
<1>3. Writes(p) /\ Turn(p) \in 1 .. Len(Turns) /\ Turns[Turn(p)] \in Nat \ {0}
  BY <1>2, EndRecord, RoleFacts
<1>4. Behind(p)
  <2>1. ~ Even
    <3>1. Even => rec[p].checkpoint < Turns[Turn(p)]
      BY <1>3, AtCore, TurnFacts
    <3>2. QED
      BY <1>2, <1>3, <3>1
  <2>2. ~ Behind(o)
    BY <1>2, <1>3, AtCore, TurnFacts
  <2>3. QED
    BY <2>1, <2>2, AtCore, TurnFacts
<1>5. /\ ~ Even /\ ~ Behind(o) /\ ~ Reads(o) /\ ~ Reads(p) /\ Turn(o) = Turn(p) + 1 /\ rec[o].checkpoint = 0
      /\ rec[p].rd = 0 /\ ~ Due(p) /\ ~ Due(o)
  <2>1. ~ Even /\ ~ Behind(o) /\ ~ Reads(o) /\ ~ Reads(p) /\ Turn(o) = Turn(p) + 1 /\ rec[o].checkpoint = 0
    BY <1>4, AtCore, TurnFacts
  <2>2. QED
    BY <1>2, <2>1, EndRecord DEF Due
<1>6. /\ Con(p)' = Con(p) /\ Turn(p)' = Turn(p) + 1 /\ Pc(p)' = "idle" /\ rec'[p].checkpoint = 0 /\ rec'[p].rd = rec[p].rd
      /\ rec'[p].lastid = rec[p].lastid /\ rec'[p].quota = rec[p].quota
  BY <1>2, ReturnView
<1>7. /\ client'.pc = client.pc
      /\ p = C => client'.at = client.at + 1
      /\ p = S => client' = client
  <2>1. client \in [pc : {"connect", "reconnect", "turns", "ok", "failed"}, at : Nat \ {0}]
    BY TypeFacts
  <2>2. client' = IF p = C THEN [client EXCEPT !.at = @ + 1] ELSE client
    BY <1>2, PeerFacts DEF TurnOver
  <2>3. QED
    BY <2>1, <2>2, PeerFacts
<1>8. {C, S} = {p, o} /\ (Alive("c")' <=> Alive("c")) /\ Con(C) = Last(1) /\ Con(S) \in 0 .. Last(1) /\ Last(1) \in Nat
  BY <1>1, <1>7, EndRecord, SoloFacts DEF Alive
<1>9. /\ (Writes(o)' <=> Writes(o)) /\ (OnLast(o)' <=> OnLast(o)) /\ Current(o)' = Current(o)
      /\ (Sending(o)' <=> Sending(o))
  BY <1>1, RoleSame DEF Sending
<1>10. TypesInv' /\ Single(test)'
  BY <1>1, CallView
<1>11. Even' /\ ~ Behind(p)' /\ ~ Behind(o)' /\ ~ Due(p)' /\ ~ Due(o)'
  <2>1. Turn(o)' = Turn(p)' /\ Turn(p)' \in Nat
    BY <1>1, <1>3, <1>5, <1>6
  <2>2. Even'
    BY <1>8, <2>1 DEF Even
  <2>3. ~ Behind(p)' /\ ~ Behind(o)'
    BY <1>1, <2>1 DEF Behind
  <2>4. QED
    BY <2>2, <2>3 DEF Due
\* At the new turn the peer writes, if there is one.
<1>12. ~ Writes(p)' /\ (Writes(o)' <=> Turn(o) <= Len(Turns))
  <2>1. /\ Turn(p) + 1 \in 1 .. Len(Turns) => ~ WritesAt(p[2], Turn(p) + 1)
        /\ WritesAt(p[2], Turn(p) + 1) => Turn(p) + 1 \in 1 .. Len(Turns)
    BY <1>3, RoleFacts
  <2>2. Writes(p)' <=> WritesAt(p[2], Turn(p) + 1)
    <3>1. rec'[p].turn = Turn(p) + 1 /\ Turns' = Turns /\ test' = test
      BY <1>1, <1>6 DEF Turn
    <3>2. QED
      BY <3>1 DEF Writes, WritesAt
  <2>3. Turn(o) <= Len(Turns) => Writes(o)
    BY <1>4, AtCore, TurnFacts
  <2>4. Writes(o) => Turn(o) \in 1 .. Len(Turns)
    BY <1>1, RoleFacts
  <2>5. QED
    BY <1>9, <2>1, <2>2, <2>3, <2>4, SoloFacts
<1> HIDE DEF o
<1>13. Last(1)' = Last(1) /\ \A x, l : In(x, l)' = In(x, l) /\ St(x, l)' = St(x, l)
  BY <1>2, KeepView
<1>14. SocketInv' /\ ProgramInv'
  <2>1. SocketInv'
    <3>1. Con(S)' = Con(S) /\ Con(C)' = Con(C) /\ (p = S => Con(S) # 0) /\ (p = C => Last(1) # 0)
      BY <1>1, <1>6, <1>8
    <3>2. /\ (Pc(S)' = Pc(S) /\ Turn(S)' = Turn(S)) \/ (Con(S) # 0 /\ Pc(S)' \notin {"ripristino", "failed"})
          /\ (Pc(C)' = Pc(C) /\ Turn(C)' = Turn(C)) \/ (Last(1) # 0 /\ Pc(C)' # "ripristino")
      <4>1. Pc(p)' \notin {"ripristino", "failed"}
        BY <1>6
      <4>2. QED
        BY <1>1, <1>8, <3>1, <4>1
    <3>3. QED
      BY <1>1, <1>8, <1>13, <3>1, <3>2, AtCore, SocketFrame
  <2>2. \/ Pc(C)' = Pc(C) /\ Turn(C)' = Turn(C) /\ client' = client
        \/ /\ client.pc = "turns" /\ Pc(C) # "ripristino"
           /\ client'.pc = "turns"
           /\ \/ Turn(C)' = Turn(C) /\ client'.at = client.at
              \/ Turn(C)' = Turn(C) + 1 /\ client'.at = client.at + 1
    BY <1>1, <1>2, <1>6, <1>7, <1>8
  <2>3. \/ Pc(S)' = Pc(S) /\ Turn(S)' = Turn(S)
        \/ Alive("s") /\ (Pc(S)' = "failed" => Turn(S)' \in 1 .. Len(Turns))
    BY <1>1, <1>6, <1>8
  <2>4. Con(S)' = 0 <=> Con(S) = 0
    BY <1>1, <1>6, <1>8
  <2>5. QED
    BY <1>1, <1>13, <2>1, <2>2, <2>3, <2>4, ProgramFrame
<1>15. TurnInv'
  <2>1. \A x \in {C, S} : Writes(x)' => x = o /\ Turn(o) \in 1 .. Len(Turns)
    BY <1>8, <1>9, <1>12, <1>1, RoleFacts
  <2>2. Turn(o) \in 1 .. Len(Turns) => 0 < Turns[Turn(o)]
    BY RoleFacts
  <2>3. \A x \in {C, S} : Writes(x)' =>
          /\ rec'[Peer(x)].rd \in {rec'[x].checkpoint, rec'[x].checkpoint + 1}
          /\ rec'[x].checkpoint < Turns'[Turn(x)']
    BY <1>1, <1>5, <1>6, <2>1, <2>2
  <2>4. QED
    BY <1>11, <2>3 DEF TurnInv
<1>16. RecordInv(p)' /\ HoldInv(p)'
  <2>1. RecordInv(p)
    BY AtCore
  <2>2. Pc(C)' # "failed"
    BY <1>1, <1>6, <1>8, <2>1 DEF RecordInv
  <2>3. RecordInv(p)'
    BY <1>2, <1>6, <2>1, <2>2 DEF RecordInv
  <2>4. HoldInv(p)'
    BY <1>6 DEF HoldInv, Holds
  <2>5. QED
    BY <2>3, <2>4
<1>17. HoldInv(o)'
  <2>1. Pc(o) \notin {"take", "dup", "reload"}
    BY <1>1, <1>5, AtCore DEF HoldInv
  <2>2. QED
    BY <1>1, <2>1 DEF HoldInv, Holds
<1>18. \A l \in 1 .. Last(1) : l >= Con(p)' => Carries(p, l)'
  <2> TAKE l \in 1 .. Last(1)
  <2> HAVE l >= Con(p)'
  <2>1. Carries(p, l)
    BY <1>6, AtCore
  <2>2. CarriesPacket(p, l) /\ Lead(p, l) = 0 /\ Lead(p, l)' = 0
    BY <1>5, <1>11, <2>1 DEF Carries, Lead
  <2>3. In(p, l) \in Seq(Int) /\ In(p, l)' = In(p, l) /\ St(p, l)' = St(p, l)
    BY <1>13, CarriesTypes
  <2>4. Len(In(p, l)) > 0 => Writes(o) /\ ~ Behind(o) /\ l <= Con(o) /\ (l = Con(o) => ~ Sending(o))
    BY <2>2 DEF CarriesPacket, o
  <2>7. Len(In(p, l)) > 0 => St(p, l)' \in {"up", "fin"}
    BY <2>2, <2>3 DEF CarriesPacket
  <2>5. CarriesPacket(p, l)'
    BY <1>1, <1>9, <1>11, <2>2, <2>3, <2>4, <2>7, PacketFrame DEF o
  <2>6. QED
    BY <1>12, <2>5 DEF Carries
<1>19. \A l \in 1 .. Last(1) : l >= Con(o) => Carries(o, l)'
  <2> TAKE l \in 1 .. Last(1)
  <2> HAVE l >= Con(o)
  <2>1. Carries(o, l)
    BY <1>1, AtCore
  <2>2. In(o, l) \in Seq(Int) /\ Len(In(o, l)) \in Nat /\ Lead(o, l) = 0
    BY <1>1, <1>5, CarriesTypes DEF Lead
  <2>3. In(o, l) = <<>>
    <3>1. CarriesPacket(o, l)
      BY <1>5, <2>1 DEF Carries
    <3>2. Len(In(o, l)) <= 0
      BY <1>1, <1>4, <2>2, <3>1 DEF CarriesPacket
    <3>3. QED
      BY <2>2, <3>2
  <2>4. In(o, l)' = <<>> /\ Lead(o, l)' = 0
    BY <1>11, <1>13, <2>3 DEF Lead
  <2>5. QED
    BY <2>4 DEF Carries, CarriesAck, CarriesPacket, DIM
<1>20. QED
  BY <1>1, <1>13, <1>14, <1>15, <1>16, <1>17, <1>18, <1>19, JoinParts DEF o

-----------------------------------------------------------------------------
(***************************************************************************)
(* The steps of a Read.                                                    *)
(***************************************************************************)
\* Four words.
LEMMA FourWords ==
    ASSUME NEW a \in Seq(Int), Len(a) = 4
    PROVE  a \in [1 .. 4 -> Int] /\ a = [i \in 1 .. 4 |-> a[i]] /\ SubSeq(a, 1, 4) = a /\ SubSeq(a, 5, 4) = <<>>
<1>1. a \in [1 .. Len(a) -> Int]
  BY LenProperties
<1>2. a \in [1 .. 4 -> Int]
  BY <1>1
<1>3. SubSeq(a, 1, 4) = a
  BY SubSeqFull
<1>4. QED
  BY <1>2, <1>3

\* What a reader finds on its connection.
LEMMA Arrived ==
    ASSUME TypesInv, Single(test), CoreInv, NEW p \in {C, S}, Reads(p), NEW l \in 1 .. Last(1), l >= Con(p)
    PROVE  /\ Even /\ Writes(Peer(p)) /\ ~ Writes(p) /\ ~ Behind(p) /\ ~ Behind(Peer(p)) /\ Lead(p, l) = 0
           /\ CarriesPacket(p, l) /\ In(p, l) \in Seq(Int) /\ Len(In(p, l)) \in 0 .. 4
           /\ St(p, l) = "up" => Len(In(p, l)) \in {0, 4}
           /\ Len(In(p, l)) = 4 => In(p, l) = Current(Peer(p))
           /\ Len(In(p, l)) > 0 => l <= Con(Peer(p)) /\ (l = Con(Peer(p)) => ~ Sending(Peer(p)))
           /\ Len(In(p, l)) = 4 /\ OnLast(Peer(p)) => Pc(Peer(p)) = "ack" /\ l = Con(Peer(p)) /\ St(p, l) = "up"
           /\ Len(In(p, l)) > 0 => St(p, l) \in {"up", "fin"}
<1> DEFINE o == Peer(p)
<1> DEFINE q == In(p, l)
<1>1. Even /\ Writes(o) /\ ~ Writes(p) /\ ~ Behind(p) /\ ~ Behind(o)
  BY AtCore, TurnFacts, RoleFacts
<1>2. Lead(p, l) = 0
  BY <1>1 DEF Lead, Due
<1>3. CarriesPacket(p, l) /\ q \in Seq(Int) /\ Len(q) \in Nat
  <2>1. Carries(p, l)
    BY AtCore
  <2>2. q \in Seq(Int) /\ Len(q) \in Nat
    BY CarriesTypes
  <2>3. QED
    BY <1>1, <2>1, <2>2 DEF Carries
<1>4. /\ Len(q) \in 0 .. 4
      /\ \A i \in 1 .. 4 : i + 0 <= Len(q) => q[i + 0] = Current(o)[i]
      /\ Len(q) > 0 => l <= Con(o) /\ (l = Con(o) => ~ Sending(o))
      /\ St(p, l) = "up" => Len(q) \in {0, 4}
      /\ Len(q) = 4 /\ OnLast(o) => Pc(o) = "ack" /\ l = Con(o) /\ St(p, l) = "up"
      /\ Len(q) > 0 => St(p, l) \in {"up", "fin"}
  <2>1. 0 + DIM = 4 /\ DIM = 4
    BY DEF DIM
  <2>2. QED
    BY <1>2, <1>3, <2>1 DEF CarriesPacket
<1>5. Len(q) = 4 => q = Current(o)
  <2> HAVE Len(q) = 4
  <2>1. \A i \in 1 .. 4 : q[i] = Current(o)[i]
    BY <1>4
  <2>2. q = [i \in 1 .. 4 |-> q[i]]
    BY <1>3, FourWords
  <2>3. Current(o) = [i \in 1 .. 4 |-> Current(o)[i]]
    BY DEF Current, Packet
  <2>4. QED
    BY <2>1, <2>2, <2>3
<1>6. QED
  BY <1>1, <1>2, <1>3, <1>4, <1>5

\* The words of the packet its peer sends to p.
LEMMA CurrentWords ==
    ASSUME TypesInv, Single(test), NEW o \in {C, S}, Writes(o)
    PROVE  /\ Current(o) \in Seq(Int) /\ Len(Current(o)) = 4 /\ Current(o)[1] = HDR
           /\ Current(o)[2] = rec[o].checkpoint /\ rec[o].checkpoint \in Nat /\ Current(o)[3] = Turns[Turn(o)]
           /\ SubSeq(Current(o), 1, 4) = Current(o)
           /\ LastId(Current(o)) = IF rec[o].checkpoint = Turns[Turn(o)] - 1 THEN -1 ELSE rec[o].checkpoint
<1>1. rec[o].checkpoint \in Nat /\ Turns[Turn(o)] \in Int /\ Turn(o) \in Int
  BY SMTT(30), EndRecord, RoleFacts, SoloFacts
<1>2. Current(o) = <<HDR, rec[o].checkpoint, Turns[Turn(o)], 100 * Turn(o) + rec[o].checkpoint>>
  BY DEF Current, Packet
<1>3. HDR \in Int /\ 100 * Turn(o) + rec[o].checkpoint \in Int
  BY <1>1 DEF HDR
<1>4. /\ Current(o) \in Seq(Int) /\ Len(Current(o)) = 4 /\ Current(o)[1] = HDR
      /\ Current(o)[2] = rec[o].checkpoint /\ Current(o)[3] = Turns[Turn(o)]
  BY <1>1, <1>2, <1>3
<1>5. SubSeq(Current(o), 1, 4) = Current(o)
  BY <1>4, FourWords
<1>6. QED
  BY <1>1, <1>4, <1>5 DEF LastId

\* A Read loads its buffer,
LEMMA LoadView ==
    ASSUME TypesInv, Single(test), NEW p \in {C, S}, NEW v \in Places, NEW b \in Seq(Int),
           Become(p, [rec[p] EXCEPT !.buffer = b, !.pc = v])
    PROVE  Kept(p) /\ Pc(p)' = v /\ rec'[p].buffer = b /\ rec'[p].ack = rec[p].ack
<1> DEFINE r == rec[p]
<1> DEFINE q == [r EXCEPT !.buffer = b, !.pc = v]
<1>1. rec'[p] = q
  BY BecomeView
<1>2. r \in RecordStates
  BY EndRecord
<1>3. q.con = r.con /\ q.turn = r.turn /\ q.pc = v /\ q.checkpoint = r.checkpoint
  BY <1>2 DEF RecordStates
<1>4. q.rd = r.rd /\ q.lastid = r.lastid /\ q.buffer = b /\ q.ack = r.ack /\ q.quota = r.quota
  BY <1>2 DEF RecordStates
<1> HIDE DEF q
<1>5. QED
  BY <1>1, <1>3, <1>4 DEF Kept, SameTurn, Con, Turn, Pc

\* A reader is at the turn at which its peer writes.
LEMMA ReaderFacts ==
    ASSUME TypesInv, Single(test), CoreInv, NEW p \in {C, S}, Call(p), Reads(p), NEW o, o = Peer(p)
    PROVE  /\ {C, S} = {p, o} /\ Con(C) = Last(1) /\ Con(S) \in 0 .. Last(1) /\ Last(1) \in Nat
           /\ Even /\ ~ Writes(p) /\ Writes(o) /\ Reads(p) /\ ~ Behind(p) /\ ~ Behind(o) /\ ~ Due(p) /\ ~ Due(o)
           /\ Turn(o) = Turn(p) /\ Turn(p) \in 1 .. Len(Turns) /\ Len(Turns) \in Nat
           /\ rec[o].checkpoint \in Nat /\ rec[p].rd \in {rec[o].checkpoint, rec[o].checkpoint + 1}
           /\ rec[o].checkpoint < Turns[Turn(p)] /\ Turns[Turn(p)] \in Nat \ {0}
           /\ Pc(o) \notin {"take", "dup", "reload"} /\ HoldInv(o)'
           /\ \A l : Lead(p, l) = 0 /\ Lead(o, l) = 0
<1>1. o \in {C, S} /\ o # p /\ Pc(o)' = Pc(o) /\ Con(p) \in 1 .. Last(1)
  BY CallView
<1>2. {C, S} = {p, o} /\ Con(C) = Last(1) /\ Con(S) \in 0 .. Last(1) /\ Last(1) \in Nat
  <2>1. {C, S} = {p, o}
    BY <1>1
  <2>2. S \in {C, S} /\ C \in {C, S}
    OBVIOUS
  <2>3. QED
    BY <2>1, <2>2, EndRecord, SoloFacts
<1>3. Even /\ ~ Writes(p) /\ Writes(o) /\ ~ Behind(p) /\ ~ Behind(o)
  BY <1>1, <1>2, Arrived
<1>4. ~ Due(p) /\ ~ Due(o) /\ \A l : Lead(p, l) = 0 /\ Lead(o, l) = 0
  BY <1>3 DEF Due, Lead
<1>5. /\ Turn(o) = Turn(p) /\ rec[p].rd \in {rec[o].checkpoint, rec[o].checkpoint + 1}
      /\ rec[o].checkpoint < Turns[Turn(p)]
  BY <1>1, <1>3, AtCore, TurnFacts
<1>6. Turn(p) \in 1 .. Len(Turns) /\ Turns[Turn(p)] \in Nat \ {0} /\ Len(Turns) \in Nat
  BY <1>3, RoleFacts, SoloFacts
<1>7. rec[o].checkpoint \in Nat /\ Pc(o) \notin {"take", "dup", "reload"}
  BY <1>1, <1>3, EndRecord, RoleFacts
<1>8. HoldInv(o)'
  BY <1>1, <1>7 DEF HoldInv, Holds
<1>9. QED
  BY <1>2, <1>3, <1>4, <1>5, <1>6, <1>7, <1>8

\* A Read finds the connection closed,
LEMMA CoreReadFails ==
    ASSUME TypesInv, Single(test), ProgramInv, CoreInv, NEW p \in {C, S}, Call(p), ReadFails(p)
    PROVE  ProgramInv' /\ CoreInv'
<1>1. Reads(p) /\ Pc(p) \in {"idle", "reload"} /\ client' = client /\ Con(p) \in 1 .. Last(1)
  BY CallView DEF ReadFails, Loading, Pc
<1>2. ~ Behind(p)
  BY <1>1, ReaderFacts
<1>3. CASE Len(Queue(p)) \in 1 .. (DIM - 1) /\ links' = Taken(p, DIM) /\ GoTo(p, "ripristino")
  <2> DEFINE m == Len(In(p, Con(p)))
  <2>1. m \in 1 .. 3
    BY <1>3, EndNames DEF DIM
  <2>2. St(p, Con(p)) # "up"
    <3>1. Con(p) >= Con(p)
      BY <1>1, SoloFacts
    <3>2. St(p, Con(p)) = "up" => m \in {0, 4}
      BY <1>1, <3>1, Arrived
    <3> HIDE DEF m
    <3>3. QED
      BY <2>1, <3>2
  <2>3. Kept(p) /\ Pc(p)' = "ripristino"
    BY <1>3, GoToView, PlaceNames
  <2>4. /\ Last(1)' = Last(1)
        /\ \A x \in {C, S} : \A l \in 1 .. Last(1) :
             /\ In(x, l)' = IF x = p /\ l = Con(p) THEN SubSeq(In(p, Con(p)), 4 + 1, Len(In(p, Con(p)))) ELSE In(x, l)
             /\ St(x, l)' = St(x, l)
    <3>1. links' = Taken(p, 4)
      BY <1>3 DEF DIM
    <3>2. QED
      BY <1>1, <3>1, TakenView
  <2>5. SubSeq(In(p, Con(p)), 4 + 1, Len(In(p, Con(p)))) = <<>>
    <3>1. 4 + 1 \in Int /\ m \in Int /\ m < 4 + 1
      <4> HIDE DEF m
      <4>1. QED
        BY <2>1
    <3>2. QED
      BY <3>1, SubSeqEmpty
  <2>6. \A x \in {C, S} : \A l \in 1 .. Last(1) :
             In(x, l)' = In(x, l) \/ (x = p /\ l = Con(p) /\ Reads(p) /\ In(x, l)' = <<>>)
    BY <1>1, <2>4, <2>5
  <2>7. QED
    BY <1>1, <1>2, <2>2, <2>3, <2>4, <2>6, BrokenCore
<1>4. CASE (AtEof(p) \/ AtReset(p)) /\ Broken(p)
  <2>1. St(p, Con(p)) # "up"
    BY <1>4, EndNames DEF AtEof, AtReset
  <2>2. QED
    BY <1>1, <1>2, <1>4, <2>1, CoreRefused
<1>5. QED
  BY <1>3, <1>4 DEF ReadFails

\* takes a packet from it,
LEMMA CoreReadPacket ==
    ASSUME TypesInv, Single(test), ProgramInv, CoreInv, NEW p \in {C, S}, Call(p), ReadPacket(p)
    PROVE  ProgramInv' /\ CoreInv'
<1> DEFINE o == Peer(p)
<1> DEFINE c == Con(p)
<1>1. /\ UNCHANGED <<test, up, falls, server, rip>> /\ (Alive("s")' <=> Alive("s"))
      /\ Con(p) \in 1 .. Last(1) /\ o \in {C, S} /\ o # p /\ Peer(o) = p
      /\ rec'[o] = rec[o] /\ Con(o)' = Con(o) /\ Pc(o)' = Pc(o) /\ Turn(o)' = Turn(o)
      /\ Turns' = Turns /\ (Fresh' <=> Fresh)
      /\ p = C => client.pc = "turns"
      /\ p = S => Alive("s")
  BY CallView
<1>2. /\ Reads(p) /\ Pc(p) \in {"idle", "reload"} /\ client' = client /\ links' = Taken(p, 4) /\ Len(In(p, c)) >= 4
      /\ Become(p, [rec[p] EXCEPT !.buffer = SubSeq(In(p, c), 1, 4),
                      !.pc = IF @ = "idle" /\ In(p, c)[2] = rec[p].lastid THEN "dup" ELSE "take"])
  BY EndNames DEF ReadPacket, Loading, Pc, DIM
<1>3. /\ {C, S} = {p, o} /\ Con(C) = Last(1) /\ Con(S) \in 0 .. Last(1) /\ Last(1) \in Nat
      /\ Even /\ ~ Writes(p) /\ Writes(o) /\ ~ Behind(p) /\ ~ Behind(o) /\ ~ Due(p) /\ ~ Due(o)
      /\ Turn(o) = Turn(p) /\ Turn(p) \in 1 .. Len(Turns) /\ Len(Turns) \in Nat
      /\ rec[o].checkpoint \in Nat /\ rec[p].rd \in {rec[o].checkpoint, rec[o].checkpoint + 1}
      /\ rec[o].checkpoint < Turns[Turn(p)]
      /\ Pc(o) \notin {"take", "dup", "reload"} /\ HoldInv(o)'
      /\ \A l : Lead(p, l) = 0 /\ Lead(o, l) = 0
  BY <1>2, ReaderFacts
<1>4. Alive("c")' <=> Alive("c")
  BY <1>2 DEF Alive
\* The packet is whole, and the current one of the peer.
<1>5. /\ In(p, c) = Current(o) /\ In(p, c) \in Seq(Int) /\ Len(In(p, c)) = 4
      /\ c <= Con(o) /\ (c = Con(o) => ~ Sending(o))
      /\ OnLast(o) => Pc(o) = "ack" /\ c = Con(o) /\ St(p, c) = "up"
      /\ St(p, c) \in {"up", "fin"} /\ In(p, c) # <<>>
  <2> DEFINE m == Len(In(p, c))
  <2>1. c >= c
    BY <1>1, <1>3
  <2>2. In(p, c) \in Seq(Int) /\ m \in 0 .. 4
    BY <1>1, <1>2, <2>1, Arrived
  <2>3. m >= 4
    BY <1>2
  <2>4. m = 4
    <3> HIDE DEF m
    <3>1. QED
      BY <2>2, <2>3
  <2>5. m > 0
    <3> HIDE DEF m
    <3>1. QED
      BY <2>4
  <2> HIDE DEF c
  <2>6. In(p, c) # <<>>
    BY <2>5 DEF m
  <2>7. QED
    BY <1>1, <1>2, <2>1, <2>2, <2>4, <2>5, <2>6, Arrived DEF c
<1>6. /\ Current(o)[2] = rec[o].checkpoint /\ SubSeq(In(p, c), 1, 4) = Current(o) /\ Current(o) \in Seq(Int)
      /\ SubSeq(In(p, c), 4 + 1, Len(In(p, c))) = <<>>
  <2>1. SubSeq(Current(o), 5, 4) = <<>> /\ 4 + 1 = 5
    BY <1>5, FourWords
  <2>2. QED
    BY <1>1, <1>3, <1>5, <2>1, CurrentWords
<1>7. RecordInv(p) /\ HoldInv(p) /\ SocketInv
  BY AtCore
<1>8. Pc(p) = "reload" => rec[p].rd = rec[o].checkpoint
  <2>1. ~ Holds(p)
    BY <1>5, <1>7 DEF HoldInv
  <2>2. QED
    BY <1>3, <2>1 DEF Holds
<1>9. PICK v \in {"dup", "take"} : /\ Become(p, [rec[p] EXCEPT !.buffer = Current(o), !.pc = v])
                                   /\ v = "dup" => rec[p].rd = rec[o].checkpoint + 1
                                   /\ v = "take" => rec[p].rd = rec[o].checkpoint
  <2> DEFINE v == IF Pc(p) = "idle" /\ In(p, c)[2] = rec[p].lastid THEN "dup" ELSE "take"
  <2>1. Become(p, [rec[p] EXCEPT !.buffer = Current(o), !.pc = v])
    BY <1>2, <1>6 DEF Pc
  <2>2. In(p, c)[2] = rec[p].lastid <=> rec[o].checkpoint = rec[p].rd - 1
    BY <1>5, <1>6, <1>7 DEF RecordInv
  <2>3. /\ v = "dup" => rec[p].rd = rec[o].checkpoint + 1
        /\ v = "take" => rec[p].rd = rec[o].checkpoint
    <3>1. CASE Pc(p) = "idle" /\ In(p, c)[2] = rec[p].lastid
      <4>1. v = "dup" /\ rec[p].rd = rec[o].checkpoint + 1
        BY <1>3, <2>2, <3>1
      <4>2. QED
        BY <4>1
    <3>2. CASE ~ (Pc(p) = "idle" /\ In(p, c)[2] = rec[p].lastid)
      <4>1. v = "take" /\ rec[p].rd = rec[o].checkpoint
        BY <1>2, <1>3, <1>8, <2>2, <3>2
      <4>2. QED
        BY <4>1
    <3>3. QED
      BY <3>1, <3>2
  <2>4. v \in {"dup", "take"}
    OBVIOUS
  <2> HIDE DEF v
  <2>5. QED
    BY <2>1, <2>3, <2>4
<1>10. Kept(p) /\ Pc(p)' = v /\ rec'[p].buffer = Current(o) /\ v \in Places
  BY <1>6, <1>9, LoadView, PlaceNames
<1>11. /\ Con(p)' = Con(p) /\ Turn(p)' = Turn(p) /\ rec'[p].checkpoint = rec[p].checkpoint /\ rec'[p].rd = rec[p].rd
       /\ rec'[p].lastid = rec[p].lastid /\ rec'[p].quota = rec[p].quota
  BY <1>10 DEF Kept, SameTurn
<1>12. \A x \in {C, S} : /\ (Writes(x)' <=> Writes(x)) /\ (Reads(x)' <=> Reads(x)) /\ (OnLast(x)' <=> OnLast(x))
                        /\ Current(x)' = Current(x) /\ Con(x)' = Con(x)
  BY <1>1, <1>3, <1>11, RoleSame
<1> HIDE DEF o
<1>13. /\ Last(1)' = Last(1)
       /\ \A x \in {C, S} : \A l \in 1 .. Last(1) :
            /\ In(x, l)' = IF x = p /\ l = c THEN <<>> ELSE In(x, l)
            /\ St(x, l)' = St(x, l)
  <2>1. /\ Last(1)' = Last(1)
        /\ \A x \in {C, S} : \A l \in 1 .. Last(1) :
             /\ In(x, l)' = IF x = p /\ l = c THEN SubSeq(In(p, c), 4 + 1, Len(In(p, c))) ELSE In(x, l)
             /\ St(x, l)' = St(x, l)
    BY <1>1, <1>2, TakenView
  <2>2. QED
    BY <1>6, <2>1
<1>14. SocketInv' /\ ProgramInv'
  <2>1. \A x \in {C, S} : \A l \in 1 .. Last(1) :
          In(x, l) = <<>> => In(x, l)' = <<>> \/ (l = Con(Peer(x)) /\ St(Peer(x), l) = "up")
    BY <1>13
  <2>2. Pc(p)' \notin {"ripristino", "failed"} /\ Pc(p) # "ripristino"
    BY <1>2, <1>9, <1>10
  <2>3. SocketInv'
    BY <1>1, <1>3, <1>4, <1>7, <1>11, <1>12, <1>13, <2>1, <2>2, SoloFacts, SocketFrame
  <2>4. \/ Pc(C)' = Pc(C) /\ Turn(C)' = Turn(C) /\ client' = client
        \/ /\ client.pc = "turns" /\ Pc(C) # "ripristino"
           /\ client'.pc = "turns"
           /\ \/ Turn(C)' = Turn(C) /\ client'.at = client.at
              \/ Turn(C)' = Turn(C) + 1 /\ client'.at = client.at + 1
    BY <1>1, <1>2, <1>3, <1>11, <2>2
  <2>5. \/ Pc(S)' = Pc(S) /\ Turn(S)' = Turn(S)
        \/ Alive("s") /\ (Pc(S)' = "failed" => Turn(S)' \in 1 .. Len(Turns))
    BY <1>1, <1>3, <1>11, <2>2
  <2>6. QED
    BY <1>1, <1>12, <1>13, <2>3, <2>4, <2>5, ProgramFrame
<1>15. Even' /\ ~ Behind(p)' /\ ~ Behind(o)' /\ ~ Due(p)' /\ ~ Due(o)'
  <2>1. Even'
    BY <1>1, <1>3, <1>11 DEF Even
  <2>2. ~ Behind(p)' /\ ~ Behind(o)'
    BY <1>1, <1>3, <1>11 DEF Behind, o
  <2>3. QED
    BY <2>1, <2>2 DEF Due
<1>16. TurnInv'
  <2>1. \A x \in {C, S} : Writes(x)' => x = o
    BY <1>3, <1>12
  <2>2. \A x \in {C, S} : Writes(x)' =>
          /\ rec'[Peer(x)].rd \in {rec'[x].checkpoint, rec'[x].checkpoint + 1}
          /\ rec'[x].checkpoint < Turns'[Turn(x)']
    BY <1>1, <1>3, <1>11, <2>1
  <2>3. QED
    BY <1>15, <2>2 DEF TurnInv
<1>17. RecordInv(p)'
  <2>1. Pc(C)' # "failed"
    BY <1>1, <1>3, <1>7, <1>9, <1>10 DEF RecordInv
  <2>2. Turn(p) # Len(Turns) + 1 /\ Pc(p)' \notin {"idle", "send", "ack", "misread"}
    BY <1>3, <1>9, <1>10
  <2>3. QED
    BY <1>1, <1>2, <1>7, <1>11, <1>12, <2>1, <2>2 DEF RecordInv
<1>18. HoldInv(p)'
  <2>1. p = C => Con(S)' = Last(1)'
    BY <1>1, <1>3, <1>5, <1>11, <1>13
  <2>2. \A l \in 1 .. Last(1) : l = c => In(p, l)' = <<>>
    BY <1>13
  <2>3. In(p, Con(p))' = <<>>
    BY <1>1, <1>11, <2>2 DEF In
  <2>4. Con(o)' = Con(p)' => ~ Sending(o)'
    BY <1>1, <1>5, <1>11, <1>12 DEF Sending
  <2>5. St(p, Con(p))' = St(p, c)
    <3>1. \A l \in 1 .. Last(1) : l = c => St(p, l)' = St(p, l)
      BY <1>13
    <3>2. QED
      BY <1>1, <1>11, <3>1 DEF St
  <2>6. Pc(p)' = "take" => rec'[p].rd = rec'[o].checkpoint /\ rec'[p].buffer = Current(o)'
    BY <1>1, <1>9, <1>10, <1>11, <1>12
  <2>7. Pc(p)' = "dup" => rec'[p].rd = rec'[o].checkpoint + 1 /\ rec'[p].buffer = Current(o)'
    BY <1>1, <1>9, <1>10, <1>11, <1>12
  <2>8. OnLast(o)' => Pc(o)' = "ack" /\ Con(o)' = Con(p)' /\ St(p, Con(p))' = "up"
    BY <1>1, <1>5, <1>11, <1>12, <2>5
  <2>9. QED
    BY <1>5, <1>15, <2>1, <2>3, <2>4, <2>5, <2>6, <2>7, <2>8 DEF HoldInv, o
<1>19. \A l \in 1 .. Last(1) : l >= Con(p)' => Carries(p, l)'
  <2> TAKE l \in 1 .. Last(1)
  <2> HAVE l >= Con(p)'
  <2>1. CASE l = c
    <3>1. In(p, l)' = <<>> /\ Lead(p, l)' = 0
      BY <1>13, <1>15, <2>1 DEF Lead
    <3>2. QED
      BY <1>3, <1>12, <3>1 DEF Carries, CarriesPacket, DIM
  <2>2. CASE l # c
    <3>1. CarriesPacket(p, l) /\ In(p, l) \in Seq(Int) /\ Lead(p, l) = 0 /\ Lead(p, l)' = 0
          /\ (Len(In(p, l)) > 0 => l <= Con(o) /\ (l = Con(o) => ~ Sending(o)))
      BY <1>2, <1>11, <1>15, Arrived DEF Lead, o
    <3>2. In(p, l)' = In(p, l) /\ St(p, l)' = St(p, l)
      BY <1>13, <2>2
    <3>3. Sending(o)' <=> Sending(o)
      BY <1>1 DEF Sending
    <3>6. Len(In(p, l)) > 0 => St(p, l)' \in {"up", "fin"}
      BY <3>1, <3>2 DEF CarriesPacket
    <3>4. CarriesPacket(p, l)'
      BY <1>1, <1>3, <1>12, <1>15, <3>1, <3>2, <3>3, <3>6, PacketFrame DEF o
    <3>5. QED
      BY <1>3, <1>12, <3>4 DEF Carries
  <2>3. QED
    BY <2>1, <2>2
<1>20. \A l \in 1 .. Last(1) : l >= Con(o) => Carries(o, l)'
  <2> TAKE l \in 1 .. Last(1)
  <2> HAVE l >= Con(o)
  <2>1. CarriesAck(o, l)
    <3>1. Carries(o, l)
      BY <1>1, AtCore
    <3>2. QED
      BY <1>3, <3>1 DEF Carries
  <2>2. In(o, l)' = In(o, l)
    BY <1>1, <1>13
  <2>3. In(o, l) # <<>> => l # c /\ Pc(o) = "ack" /\ In(p, l) = <<>>
    <3>1. In(o, l) # <<>> => In(p, l) = <<>> /\ Pc(o) = "ack"
      BY <1>1, <2>1 DEF CarriesAck
    <3>2. In(p, l) = <<>> => l # c
      <4>1. Len(In(p, c)) = 4
        BY <1>5
      <4>2. In(p, c) # <<>>
        <5> DEFINE q == In(p, c)
        <5> HIDE DEF q
        <5>1. QED
          BY <4>1 DEF q
      <4>3. QED
        BY <4>2
    <3>3. QED
      BY <3>1, <3>2
  <2>4. In(o, l) # <<>> => In(p, l)' = <<>>
    BY <1>13, <2>3
  <2>5. CarriesAck(o, l)'
    BY <1>1, <1>11, <2>1, <2>2, <2>3, <2>4, AckFrame
  <2>6. QED
    BY <1>3, <1>12, <1>15, <2>5 DEF Carries
<1>21. QED
  BY <1>1, <1>3, <1>13, <1>14, <1>16, <1>17, <1>18, <1>19, <1>20, JoinParts DEF o

\* A reader that answers on a connection that is up: its peer waits there.
LEMMA Awaited ==
    ASSUME TypesInv, Single(test), CoreInv, NEW p \in {C, S}, Call(p), Reads(p), NEW o, o = Peer(p),
           Pc(p) \in {"take", "dup"}, St(p, Con(p)) = "up"
    PROVE  Pc(o) = "ack" /\ Con(o) = Con(p) /\ In(o, Con(p)) = <<>> /\ Con(p) = Last(1)
<1> DEFINE c == Con(p)
<1>1. /\ Con(p) \in 1 .. Last(1) /\ o \in {C, S} /\ o # p /\ Peer(o) = p
      /\ p = S => Alive("s")
  BY CallView
<1>2. /\ {C, S} = {p, o} /\ Con(C) = Last(1) /\ Con(S) \in 0 .. Last(1) /\ Last(1) \in Nat /\ Writes(o) /\ Even
      /\ Pc(o) \notin {"take", "dup", "reload"}
  BY ReaderFacts
<1>3. RecordInv(o) /\ HoldInv(p) /\ SocketInv
  BY <1>1, AtCore
<1>4. St(o, c) = "up"
  BY <1>1, <1>3, LinkUp
<1>5. Con(o) = c /\ c = Last(1)
  <2>1. CASE p = C
    BY <1>1, <1>2, <1>3, <2>1 DEF HoldInv
  <2>2. CASE p = S
    <3>1. St(C, c) = "up"
      BY <1>1, <1>2, <1>4, <2>2
    <3>2. ~ (c < Last(1))
      BY <1>1, <1>3, <3>1 DEF SocketInv
    <3>3. QED
      BY <1>1, <1>2, <2>2, <3>2
  <2>3. QED
    BY <2>1, <2>2
<1>6. ~ Sending(o) /\ In(p, c) = <<>>
  <2>1. Holds(p)
    BY DEF Holds
  <2>2. QED
    BY <1>3, <1>5, <2>1 DEF HoldInv
<1>7. Pc(o) \notin {"ripristino", "failed", "misread", "idle", "send"}
  <2>1. CASE o = S
    <3>1. Pc(S) \notin {"ripristino", "failed"}
      BY <1>3, <1>4, <1>5, <2>1 DEF SocketInv
    <3>2. QED
      BY <1>3, <1>6, <2>1, <3>1 DEF RecordInv, Sending
  <2>2. CASE o = C
    <3>1. ~ (Pc(C) = "ripristino" /\ ~ Fresh)
      BY <1>3, <1>4, <1>5, <2>2 DEF SocketInv
    <3>2. QED
      BY <1>3, <1>6, <2>2, <3>1 DEF RecordInv, Sending
  <2>3. QED
    BY <1>1, <2>1, <2>2
<1>8. Pc(o) = "ack"
  BY <1>1, <1>2, <1>7, EndRecord DEF Places
<1>9. In(o, c) = <<>>
  <2>1. Carries(o, c) /\ c >= Con(o)
    BY <1>1, <1>2, <1>5, AtCore
  <2>2. CarriesAck(o, c)
    BY <1>2, <2>1 DEF Carries
  <2>3. QED
    BY <1>1, <2>2 DEF CarriesAck
<1>10. QED
  BY <1>5, <1>8, <1>9

\* The ack of a packet that is not the last of its Write is sent.
LEMMA CoreReplied ==
    ASSUME TypesInv, Single(test), ProgramInv, CoreInv, NEW p \in {C, S}, Call(p), Reads(p), NEW o, o = Peer(p),
           client' = client, Pc(p) \in {"take", "dup"}, St(p, Con(p)) = "up",
           Con(p)' = Con(p), Turn(p)' = Turn(p), rec'[p].checkpoint = rec[p].checkpoint,
           rec'[p].rd = rec[o].checkpoint + 1, rec'[p].lastid = rec[o].checkpoint, rec'[p].quota = 0,
           Pc(p)' \in {"idle", "reload"},
           Sent(p, <<rec[o].checkpoint>>)
    PROVE  ProgramInv' /\ CoreInv'
<1> DEFINE c == Con(p)
<1>1. /\ UNCHANGED <<test, up, falls, server, rip>> /\ (Alive("s")' <=> Alive("s"))
      /\ Con(p) \in 1 .. Last(1) /\ o \in {C, S} /\ o # p /\ Peer(o) = p
      /\ rec'[o] = rec[o] /\ Con(o)' = Con(o) /\ Pc(o)' = Pc(o) /\ Turn(o)' = Turn(o)
      /\ Turns' = Turns /\ (Fresh' <=> Fresh)
      /\ p = C => client.pc = "turns"
      /\ p = S => Alive("s")
  BY CallView
<1>2. /\ {C, S} = {p, o} /\ Con(C) = Last(1) /\ Con(S) \in 0 .. Last(1) /\ Last(1) \in Nat
      /\ Even /\ ~ Writes(p) /\ Writes(o) /\ ~ Behind(p) /\ ~ Behind(o) /\ ~ Due(p) /\ ~ Due(o)
      /\ Turn(o) = Turn(p) /\ Turn(p) \in 1 .. Len(Turns) /\ Len(Turns) \in Nat
      /\ rec[o].checkpoint \in Nat /\ rec[o].checkpoint < Turns[Turn(p)]
      /\ Pc(o) \notin {"take", "dup", "reload"} /\ HoldInv(o)'
      /\ \A l : Lead(p, l) = 0 /\ Lead(o, l) = 0
  <2>1. /\ {C, S} = {p, o} /\ Con(C) = Last(1) /\ Con(S) \in 0 .. Last(1) /\ Last(1) \in Nat
        /\ Even /\ ~ Writes(p) /\ Writes(o) /\ Reads(p) /\ ~ Behind(p) /\ ~ Behind(o) /\ ~ Due(p) /\ ~ Due(o)
        /\ Turn(o) = Turn(p) /\ Turn(p) \in 1 .. Len(Turns) /\ Len(Turns) \in Nat
        /\ rec[o].checkpoint \in Nat /\ rec[p].rd \in {rec[o].checkpoint, rec[o].checkpoint + 1}
        /\ rec[o].checkpoint < Turns[Turn(p)] /\ Turns[Turn(p)] \in Nat \ {0}
        /\ Pc(o) \notin {"take", "dup", "reload"} /\ HoldInv(o)'
        /\ \A l : Lead(p, l) = 0 /\ Lead(o, l) = 0
    BY ONLY TypesInv, Single(test), CoreInv, p \in {C, S}, Call(p), Reads(p), o = Peer(p), ReaderFacts
  <2>2. QED
    BY <2>1
<1>3. (Alive("c")' <=> Alive("c")) /\ RecordInv(p) /\ RecordInv(o) /\ HoldInv(p) /\ SocketInv
  BY <1>1, AtCore DEF Alive
<1>4. In(p, c) = <<>> /\ (Con(o) = c => ~ Sending(o)) /\ (p = C => Con(S) = Last(1))
  <2>1. Holds(p)
    BY DEF Holds
  <2>2. QED
    BY <1>3, <2>1 DEF HoldInv
<1>5. Pc(o) = "ack" /\ Con(o) = c /\ In(o, c) = <<>> /\ ~ Sending(o)
  BY <1>4, Awaited
<1>6. \A x \in {C, S} : (Writes(x)' <=> Writes(x)) /\ (Reads(x)' <=> Reads(x)) /\ Con(x)' = Con(x)
  BY <1>1, <1>2, RoleSame
<1>7. /\ Last(1)' = Last(1)
      /\ \A x \in {C, S} : \A l \in 1 .. Last(1) :
           /\ In(x, l)' = IF x = o /\ l = c THEN <<rec[o].checkpoint>> ELSE In(x, l)
           /\ St(x, l)' = St(x, l)
  <2>1. <<rec[o].checkpoint>> \in Seq(Int) /\ <<>> \o <<rec[o].checkpoint>> = <<rec[o].checkpoint>>
    BY <1>2
  <2>2. /\ Last(1)' = Last(1)
        /\ \A x \in {C, S} : \A l \in 1 .. Last(1) :
             /\ In(x, l)' = IF x = o /\ l = c THEN In(x, l) \o <<rec[o].checkpoint>> ELSE In(x, l)
             /\ St(x, l)' = St(x, l)
    <3> DEFINE w == <<rec[o].checkpoint>>
    <3>1. w \in Seq(Int) /\ Sent(p, w)
      BY <2>1
    <3> HIDE DEF w
    <3>2. /\ Last(1)' = Last(1)
          /\ \A x \in {C, S} : \A l \in 1 .. Last(1) :
               /\ In(x, l)' = IF x = o /\ l = c THEN In(x, l) \o w ELSE In(x, l)
               /\ St(x, l)' = St(x, l)
      <4>1. o = Peer(p) /\ St(p, Con(p)) = "up" /\ Con(p) \in 1 .. Last(1)
        BY <1>1
      <4>2. /\ Last(1)' = Last(1)
            /\ \/ /\ St(p, Con(p)) = "up"
                  /\ \A x \in {C, S} : \A l \in 1 .. Last(1) :
                       /\ In(x, l)' = IF x = Peer(p) /\ l = Con(p) THEN In(x, l) \o w ELSE In(x, l)
                       /\ St(x, l)' = St(x, l)
               \/ St(p, Con(p)) = "fin"
        BY ONLY TypesInv, Single(test), p \in {C, S}, <3>1, <4>1, SentView
      <4>3. QED
        BY ONLY <4>1, <4>2 DEF c
    <3>3. QED
      BY ONLY <3>2 DEF w
  <2>3. QED
    <3>1. \A x \in {C, S} : \A l \in 1 .. Last(1) : x = o /\ l = c => In(x, l) \o <<rec[o].checkpoint>> = <<rec[o].checkpoint>>
      BY ONLY <1>5, <2>1
    <3>2. QED
      BY ONLY <2>2, <3>1
<1>8. SocketInv' /\ ProgramInv'
  <2>1. \A x \in {C, S} : \A l \in 1 .. Last(1) :
          In(x, l) = <<>> => In(x, l)' = <<>> \/ (l = Con(Peer(x)) /\ St(Peer(x), l) = "up")
    BY <1>1, <1>7
  <2>2. Pc(p)' \notin {"ripristino", "failed"} /\ Pc(p) # "ripristino"
    OBVIOUS
  <2>3. SocketInv'
    BY <1>1, <1>2, <1>3, <1>6, <1>7, <2>1, <2>2, SoloFacts, SocketFrame
  <2>4. \/ Pc(C)' = Pc(C) /\ Turn(C)' = Turn(C) /\ client' = client
        \/ /\ client.pc = "turns" /\ Pc(C) # "ripristino"
           /\ client'.pc = "turns"
           /\ \/ Turn(C)' = Turn(C) /\ client'.at = client.at
              \/ Turn(C)' = Turn(C) + 1 /\ client'.at = client.at + 1
    BY <1>1, <1>2, <2>2
  <2>5. \/ Pc(S)' = Pc(S) /\ Turn(S)' = Turn(S)
        \/ Alive("s") /\ (Pc(S)' = "failed" => Turn(S)' \in 1 .. Len(Turns))
    BY <1>1, <1>2, <2>2
  <2>6. QED
    BY <1>1, <1>6, <1>7, <2>3, <2>4, <2>5, ProgramFrame
<1>9. Even' /\ ~ Behind(p)' /\ ~ Behind(o)' /\ ~ Due(p)' /\ ~ Due(o)'
  <2>1. Even'
    BY <1>1, <1>2 DEF Even
  <2>2. ~ Behind(p)' /\ ~ Behind(o)'
    BY <1>1, <1>2 DEF Behind
  <2>3. QED
    BY <2>1, <2>2 DEF Due
<1>10. TurnInv'
  <2>1. \A x \in {C, S} : Writes(x)' => x = o
    BY <1>2, <1>6
  <2>2. \A x \in {C, S} : Writes(x)' =>
          /\ rec'[Peer(x)].rd \in {rec'[x].checkpoint, rec'[x].checkpoint + 1}
          /\ rec'[x].checkpoint < Turns'[Turn(x)']
    BY <1>1, <1>2, <2>1
  <2>3. QED
    BY <1>9, <2>2 DEF TurnInv
<1>11. RecordInv(p)' /\ HoldInv(p)'
  <2>1. Pc(C)' # "failed"
    BY <1>1, <1>2, <1>3 DEF RecordInv
  <2>2. Turn(p) # Len(Turns) + 1
    BY <1>2
  <2>3. RecordInv(p)'
    BY SMTT(30), <1>1, <1>2, <1>3, <1>6, <2>1, <2>2 DEF RecordInv
  <2>4. \A l \in 1 .. Last(1) : l = c => In(p, l)' = <<>>
    BY <1>1, <1>4, <1>7
  <2>5. In(p, Con(p))' = <<>>
    BY <1>1, <2>4 DEF In
  <2>6. ~ Sending(o)'
    BY <1>1, <1>5 DEF Sending
  <2>7. p = C => Con(S)' = Last(1)'
    BY <1>1, <1>2, <1>4, <1>7
  <2>8. HoldInv(p)'
    BY <1>9, <2>5, <2>6, <2>7 DEF HoldInv
  <2>9. QED
    BY <2>3, <2>8
<1>12. \A l \in 1 .. Last(1) : l >= Con(p)' => Carries(p, l)'
  <2> TAKE l \in 1 .. Last(1)
  <2> HAVE l >= Con(p)'
  <2>1. In(p, l) = <<>>
    <3>1. CASE l = c
      BY <1>4, <3>1
    <3>2. CASE l # c
      <4>1. In(p, l) \in Seq(Int) /\ (Len(In(p, l)) > 0 => l <= Con(o))
        BY Arrived
      <4>2. ~ (l <= Con(o))
        BY <1>1, <1>2, <1>5, <3>2
      <4>3. QED
        BY <4>1, <4>2
    <3>3. QED
      BY <3>1, <3>2
  <2>2. In(p, l)' = <<>> /\ Lead(p, l)' = 0
    BY <1>1, <1>7, <1>9, <2>1 DEF Lead
  <2>3. QED
    BY <1>2, <1>6, <2>2 DEF Carries, CarriesPacket, DIM
<1>13. \A l \in 1 .. Last(1) : l >= Con(o) => Carries(o, l)'
  <2> TAKE l \in 1 .. Last(1)
  <2> HAVE l >= Con(o)
  <2>1. CASE l = c
    <3>1. In(o, l)' = <<rec'[o].checkpoint>> /\ In(p, l)' = <<>>
      BY <1>1, <1>4, <1>7, <2>1
    <3>2. Pc(o)' = "ack" /\ l = Con(o)' /\ rec'[p].rd = rec'[o].checkpoint + 1 /\ Pc(p)' \notin {"take", "dup"}
      BY <1>1, <1>5, <2>1
    <3>3. CarriesAck(o, l)'
      BY <1>1, <3>1, <3>2 DEF CarriesAck
    <3>4. QED
      BY <1>2, <1>6, <1>9, <3>3 DEF Carries
  <2>2. CASE l # c
    <3>1. CarriesAck(o, l)
      <4>1. Carries(o, l)
        BY <1>1, AtCore
      <4>2. QED
        BY <1>2, <4>1 DEF Carries
    <3>2. In(o, l) = <<>>
      BY <1>5, <2>2, <3>1 DEF CarriesAck
    <3>3. In(o, l)' = <<>>
      BY <1>1, <1>7, <2>2, <3>2
    <3>4. QED
      BY <1>2, <1>6, <1>9, <3>3 DEF Carries, CarriesAck
  <2>3. QED
    BY <2>1, <2>2
<1>14. QED
  BY <1>1, <1>2, <1>7, <1>8, <1>10, <1>11, <1>12, <1>13, JoinParts

\* or acks again the packet it has returned already.
LEMMA CoreReAck ==
    ASSUME TypesInv, Single(test), ProgramInv, CoreInv, NEW p \in {C, S}, Call(p), ReAck(p)
    PROVE  ProgramInv' /\ CoreInv'
<1> DEFINE o == Peer(p)
<1>1. /\ Pc(p) = "dup" /\ client' = client
      /\ (SendAccepted(p) <=> St(p, Con(p)) \in {"up", "fin"})
      /\ IF SendAccepted(p) THEN Sent(p, <<rec[p].buffer[2]>>) /\ GoTo(p, "reload") ELSE Broken(p)
  BY EndNames DEF ReAck, Pc, SendAccepted
<1>2. Reads(p) /\ o \in {C, S} /\ Con(p) \in 1 .. Last(1) /\ RecordInv(p) /\ HoldInv(p)
  BY <1>1, EndRecord, CallView, AtCore
<1>3. /\ Even /\ ~ Writes(p) /\ Writes(o) /\ ~ Behind(p) /\ ~ Due(p) /\ Turn(o) = Turn(p) /\ Turn(p) \in 1 .. Len(Turns)
      /\ Len(Turns) \in Nat /\ rec[o].checkpoint \in Nat
  BY <1>2, ReaderFacts
<1>4. rec[p].rd = rec[o].checkpoint + 1 /\ rec[p].buffer = Current(o) /\ rec[p].lastid = rec[o].checkpoint
  <2>1. rec[p].rd = rec[o].checkpoint + 1 /\ rec[p].buffer = Current(o)
    BY <1>1, <1>2 DEF HoldInv
  <2>2. rec[p].lastid = rec[p].rd - 1
    BY <1>2 DEF RecordInv
  <2>3. QED
    BY <1>3, <2>1, <2>2
<1>5. <<rec[p].buffer[2]>> = <<rec[o].checkpoint>>
  BY <1>2, <1>3, <1>4, CurrentWords
<1>6. CASE ~ SendAccepted(p)
  BY <1>1, <1>2, <1>3, <1>6, CoreRefused
<1>7. ASSUME SendAccepted(p) PROVE Kept(p) /\ Pc(p)' = "reload"
  BY <1>1, <1>7, GoToView, PlaceNames
<1>8. CASE SendAccepted(p) /\ St(p, Con(p)) = "up"
  <2>1. /\ Con(p)' = Con(p) /\ Turn(p)' = Turn(p) /\ rec'[p].checkpoint = rec[p].checkpoint
        /\ rec'[p].rd = rec[o].checkpoint + 1 /\ rec'[p].lastid = rec[o].checkpoint /\ rec'[p].quota = 0
        /\ Pc(p)' \in {"idle", "reload"}
    <3>1. rec[p].quota = 0
      BY <1>1, <1>2 DEF RecordInv
    <3>2. QED
      BY <1>4, <1>7, <1>8, <3>1 DEF Kept, SameTurn
  <2>2. Sent(p, <<rec[o].checkpoint>>)
    BY <1>1, <1>5, <1>8
  <2>3. QED
    BY <1>1, <1>2, <1>8, <2>1, <2>2, CoreReplied
<1>9. CASE SendAccepted(p) /\ St(p, Con(p)) = "fin"
  <2>1. Kept(p) /\ Pc(p)' = "reload"
    BY <1>7, <1>9
  <2>2. <<rec[o].checkpoint>> \in Seq(Int)
    BY <1>3
  <2>3. /\ Last(1)' = Last(1)
        /\ \A x \in {C, S} : \A l \in 1 .. Last(1) : In(x, l)' = In(x, l)
        /\ \A x \in {C, S} : \A l \in 1 .. Last(1) :
             St(x, l)' = St(x, l) \/ (/\ x = p /\ l = Con(p) /\ In(x, l) = <<>>
                                      /\ St(x, l) \in {"fin", "rst"} /\ St(x, l)' = "dead")
    <3>1. In(p, Con(p)) = <<>>
      BY <1>1, <1>2 DEF HoldInv, Holds
    <3>2. QED
      BY <1>1, <1>2, <1>5, <1>9, <2>2, <3>1, FinView
  <2>4. /\ rec'[o] = rec[o] /\ Pc(o)' = Pc(o) /\ Con(o)' = Con(o) /\ Turn(o)' = Turn(o) /\ test' = test
        /\ (Fresh' <=> Fresh) /\ Peer(o) = p /\ o # p
        /\ Con(p)' = Con(p) /\ Turn(p)' = Turn(p) /\ rec'[p].rd = rec[p].rd /\ rec'[p].lastid = rec[p].lastid
        /\ rec'[p].checkpoint = rec[p].checkpoint /\ rec'[p].quota = rec[p].quota /\ Turns' = Turns
    BY <2>1, CallView DEF Kept, SameTurn
  <2>5. \A x \in {C, S} : Writes(x)' <=> Writes(x)
    BY <1>2, <2>4, RoleSame, PeerFacts
  <2>6. ~ Behind(p)' /\ ~ Due(p)' /\ ~ Sending(p)'
    BY <1>3, <2>1, <2>5 DEF Behind, Due, Sending
  <2>7. RecordInv(p)'
    <3>1. Pc(C)' # "failed"
      BY <1>2, <2>1, <2>4, PeerFacts DEF RecordInv
    <3>2. Turn(p) # Len(Turns) + 1
      BY <1>3
    <3>3. QED
      BY <1>1, <1>2, <1>3, <2>1, <2>4, <2>5, <3>1, <3>2 DEF RecordInv
  <2>8. HoldInv(p)'
    <3>1. Holds(p)
      BY <1>1 DEF Holds
    <3>2. In(p, Con(p)) = <<>> /\ (Con(o) = Con(p) => ~ Sending(o)) /\ (p = C => Con(S) = Last(1))
      BY <1>1, <1>2, <3>1 DEF HoldInv
    <3>3. \A l \in 1 .. Last(1) : l = Con(p) => In(p, l)' = In(p, l)
      BY <1>2, <2>3
    <3>4. In(p, Con(p))' = <<>>
      BY <1>2, <2>4, <3>2, <3>3 DEF In
    <3>5. Even' /\ (Sending(o)' <=> Sending(o))
      BY <1>2, <1>3, <2>4, PeerFacts DEF Even, Sending
    <3>6. p = C => Con(S)' = Last(1)'
      BY <2>3, <2>4, <3>2, PeerFacts
    <3>7. QED
      BY <2>1, <2>4, <3>2, <3>4, <3>5, <3>6 DEF HoldInv
  <2>9. QED
    BY <1>1, <1>3, <1>9, <2>1, <2>3, <2>6, <2>7, <2>8, QuietCore DEF Kept
<1>10. QED
  BY <1>1, <1>6, <1>8, <1>9

\* A packet is returned, on a connection whose other end has closed: the ack is lost.
LEMMA CoreUnanswered ==
    ASSUME TypesInv, Single(test), ProgramInv, CoreInv, NEW p \in {C, S}, Call(p), Reads(p), NEW o, o = Peer(p),
           client' = client, Pc(p) = "take", rec[p].rd = rec[o].checkpoint,
           Con(p)' = Con(p), Turn(p)' = Turn(p), rec'[p].checkpoint = rec[p].checkpoint,
           rec'[p].rd = rec[o].checkpoint + 1, rec'[p].lastid = rec[o].checkpoint, rec'[p].quota = 0, Pc(p)' = "idle",
           Last(1)' = Last(1), \A x \in {C, S} : \A l \in 1 .. Last(1) : In(x, l)' = In(x, l),
           \A x \in {C, S} : \A l \in 1 .. Last(1) :
             St(x, l)' = St(x, l) \/ (/\ x = p /\ l = Con(p) /\ In(x, l) = <<>>
                                      /\ St(x, l) \in {"fin", "rst"} /\ St(x, l)' = "dead")
    PROVE  ProgramInv' /\ CoreInv'
<1>1. /\ UNCHANGED <<test, up, falls, server, rip>> /\ (Alive("s")' <=> Alive("s"))
      /\ Con(p) \in 1 .. Last(1) /\ o \in {C, S} /\ o # p /\ Peer(o) = p
      /\ rec'[o] = rec[o] /\ Con(o)' = Con(o) /\ Pc(o)' = Pc(o) /\ Turn(o)' = Turn(o)
      /\ Turns' = Turns /\ (Fresh' <=> Fresh)
      /\ p = C => client.pc = "turns"
      /\ p = S => Alive("s")
  BY CallView
<1>2. /\ {C, S} = {p, o} /\ Con(C) = Last(1) /\ Con(S) \in 0 .. Last(1) /\ Last(1) \in Nat
      /\ Even /\ ~ Writes(p) /\ Writes(o) /\ ~ Behind(p) /\ ~ Behind(o) /\ ~ Due(p) /\ ~ Due(o)
      /\ Turn(o) = Turn(p) /\ Turn(p) \in 1 .. Len(Turns) /\ Len(Turns) \in Nat
      /\ rec[o].checkpoint \in Nat /\ rec[o].checkpoint < Turns[Turn(p)]
      /\ Pc(o) \notin {"take", "dup", "reload"} /\ HoldInv(o)'
      /\ \A l : Lead(p, l) = 0 /\ Lead(o, l) = 0
  <2>1. /\ {C, S} = {p, o} /\ Con(C) = Last(1) /\ Con(S) \in 0 .. Last(1) /\ Last(1) \in Nat
        /\ Even /\ ~ Writes(p) /\ Writes(o) /\ Reads(p) /\ ~ Behind(p) /\ ~ Behind(o) /\ ~ Due(p) /\ ~ Due(o)
        /\ Turn(o) = Turn(p) /\ Turn(p) \in 1 .. Len(Turns) /\ Len(Turns) \in Nat
        /\ rec[o].checkpoint \in Nat /\ rec[p].rd \in {rec[o].checkpoint, rec[o].checkpoint + 1}
        /\ rec[o].checkpoint < Turns[Turn(p)] /\ Turns[Turn(p)] \in Nat \ {0}
        /\ Pc(o) \notin {"take", "dup", "reload"} /\ HoldInv(o)'
        /\ \A l : Lead(p, l) = 0 /\ Lead(o, l) = 0
    BY ONLY TypesInv, Single(test), CoreInv, p \in {C, S}, Call(p), Reads(p), o = Peer(p), ReaderFacts
  <2>2. QED
    BY <2>1
<1>3. (Alive("c")' <=> Alive("c")) /\ RecordInv(p) /\ SocketInv
  BY <1>1, AtCore DEF Alive
<1>4. \A x \in {C, S} : /\ (Writes(x)' <=> Writes(x)) /\ (Reads(x)' <=> Reads(x)) /\ (OnLast(x)' <=> OnLast(x))
                        /\ Current(x)' = Current(x) /\ Con(x)' = Con(x)
  BY <1>1, <1>2, RoleSame
<1>5. SocketInv' /\ ProgramInv'
  <2>1. \A x \in {C, S} : \A l \in 1 .. Last(1) :
          In(x, l) = <<>> => In(x, l)' = <<>> \/ (l = Con(Peer(x)) /\ St(Peer(x), l) = "up")
    OBVIOUS
  <2>2. \A x \in {C, S} : \A l \in 1 .. Last(1) :
             St(x, l)' = St(x, l) \/ (St(x, l) \in {"fin", "rst"} /\ St(x, l)' = "dead")
    OBVIOUS
  <2>3. SocketInv'
    BY <1>1, <1>2, <1>3, <1>4, <2>1, <2>2, SoloFacts, SocketFrame
  <2>4. \/ Pc(C)' = Pc(C) /\ Turn(C)' = Turn(C) /\ client' = client
        \/ /\ client.pc = "turns" /\ Pc(C) # "ripristino"
           /\ client'.pc = "turns"
           /\ \/ Turn(C)' = Turn(C) /\ client'.at = client.at
              \/ Turn(C)' = Turn(C) + 1 /\ client'.at = client.at + 1
    BY <1>1, <1>2
  <2>5. \/ Pc(S)' = Pc(S) /\ Turn(S)' = Turn(S)
        \/ Alive("s") /\ (Pc(S)' = "failed" => Turn(S)' \in 1 .. Len(Turns))
    BY <1>1, <1>2
  <2>6. QED
    BY <1>1, <1>4, <2>3, <2>4, <2>5, ProgramFrame
<1>6. Even' /\ ~ Behind(p)' /\ ~ Behind(o)' /\ ~ Due(p)' /\ ~ Due(o)'
  <2>1. Even'
    BY <1>1, <1>2 DEF Even
  <2>2. ~ Behind(p)' /\ ~ Behind(o)'
    BY <1>1, <1>2 DEF Behind
  <2>3. QED
    BY <2>1, <2>2 DEF Due
<1>7. TurnInv'
  <2>1. \A x \in {C, S} : Writes(x)' => x = o
    BY <1>2, <1>4
  <2>2. \A x \in {C, S} : Writes(x)' =>
          /\ rec'[Peer(x)].rd \in {rec'[x].checkpoint, rec'[x].checkpoint + 1}
          /\ rec'[x].checkpoint < Turns'[Turn(x)']
    BY <1>1, <1>2, <2>1
  <2>3. QED
    BY <1>6, <2>2 DEF TurnInv
<1>8. RecordInv(p)' /\ HoldInv(p)'
  <2>1. Pc(C)' # "failed"
    BY <1>1, <1>2, <1>3 DEF RecordInv
  <2>2. Turn(p) # Len(Turns) + 1
    BY <1>2
  <2>3. RecordInv(p)'
    BY <1>1, <1>2, <1>3, <1>4, <2>1, <2>2 DEF RecordInv
  <2>4. HoldInv(p)'
    BY DEF HoldInv, Holds
  <2>5. QED
    BY <2>3, <2>4
<1>9. \A l \in 1 .. Last(1) : l >= Con(p)' => Carries(p, l)'
  <2> TAKE l \in 1 .. Last(1)
  <2> HAVE l >= Con(p)'
  <2>1. CarriesPacket(p, l) /\ In(p, l) \in Seq(Int) /\ Lead(p, l) = 0 /\ Lead(p, l)' = 0
        /\ (Len(In(p, l)) > 0 => l <= Con(o) /\ (l = Con(o) => ~ Sending(o)))
        /\ (Len(In(p, l)) = 4 /\ OnLast(o) => Pc(o) = "ack" /\ l = Con(o) /\ St(p, l) = "up")
        /\ (Len(In(p, l)) > 0 => St(p, l) \in {"up", "fin"})
    BY <1>6, Arrived DEF Lead
  <2>2. In(p, l)' = In(p, l) /\ (St(p, l)' = "up" <=> St(p, l) = "up")
    OBVIOUS
  <2>3. Sending(o)' <=> Sending(o)
    BY <1>1 DEF Sending
  <2>6. Len(In(p, l)) > 0 => St(p, l)' \in {"up", "fin"}
    <3>1. Len(In(p, l)) > 0 => In(p, l) # <<>>
      OBVIOUS
    <3>2. In(p, l) # <<>> => St(p, l)' = St(p, l)
      OBVIOUS
    <3>3. QED
      BY <2>1, <3>1, <3>2
  <2>4. CarriesPacket(p, l)'
    BY <1>1, <1>2, <1>4, <1>6, <2>1, <2>2, <2>3, <2>6, PacketFrame
  <2>5. QED
    BY <1>2, <1>4, <2>4 DEF Carries
<1>10. \A l \in 1 .. Last(1) : l >= Con(o) => Carries(o, l)'
  <2> TAKE l \in 1 .. Last(1)
  <2> HAVE l >= Con(o)
  <2>1. CarriesAck(o, l)
    <3>1. Carries(o, l)
      BY <1>1, AtCore
    <3>2. QED
      BY <1>2, <3>1 DEF Carries
  <2>2. In(o, l) = <<>>
    <3>1. rec[p].rd # rec[o].checkpoint + 1
      BY <1>2
    <3>2. QED
      BY <1>1, <2>1, <3>1 DEF CarriesAck
  <2>3. In(o, l)' = <<>>
    BY <1>1, <2>2
  <2>4. QED
    BY <1>2, <1>4, <1>6, <2>3 DEF Carries, CarriesAck
<1>11. QED
  BY <1>1, <1>2, <1>5, <1>7, <1>8, <1>9, <1>10, JoinParts

\* or returns it.
LEMMA TakeView ==
    ASSUME TypesInv, Single(test), NEW p \in {C, S}, NEW a \in Int, NEW n \in Nat, NEW t \in Nat \ {0},
           Become(p, [rec[p] EXCEPT !.lastid = a, !.pc = "idle", !.quota = 0, !.rd = n, !.turn = t])
    PROVE  /\ Con(p)' = Con(p) /\ Turn(p)' = t /\ Pc(p)' = "idle" /\ rec'[p].checkpoint = rec[p].checkpoint
           /\ rec'[p].rd = n /\ rec'[p].lastid = a /\ rec'[p].quota = 0
<1> DEFINE r == rec[p]
<1> DEFINE q == [r EXCEPT !.lastid = a, !.pc = "idle", !.quota = 0, !.rd = n, !.turn = t]
<1>1. rec'[p] = q
  BY BecomeView
<1>2. r \in RecordStates
  BY EndRecord
<1>3. q.con = r.con /\ q.turn = t /\ q.pc = "idle"
  BY <1>2 DEF RecordStates
<1>4. q.checkpoint = r.checkpoint /\ q.rd = n /\ q.lastid = a /\ q.quota = 0
  BY <1>2 DEF RecordStates
<1> HIDE DEF q
<1>5. QED
  BY <1>1, <1>3, <1>4 DEF Con, Turn, Pc

\* The last packet of the turn is returned and its ack sent.
LEMMA CoreLastTaken ==
    ASSUME TypesInv, Single(test), ProgramInv, CoreInv, NEW p \in {C, S}, Call(p), Reads(p), NEW o, o = Peer(p),
           Pc(p) = "take", St(p, Con(p)) = "up", rec[o].checkpoint = Turns[Turn(o)] - 1,
           client'.pc = client.pc, p = C => client'.at = client.at + 1, p = S => client' = client,
           Con(p)' = Con(p), Turn(p)' = Turn(p) + 1, rec'[p].checkpoint = rec[p].checkpoint,
           rec'[p].rd = 0, rec'[p].lastid = -1, rec'[p].quota = 0, Pc(p)' = "idle",
           Sent(p, <<rec[o].checkpoint>>)
    PROVE  ProgramInv' /\ CoreInv'
<1> DEFINE c == Con(p)
<1>1. /\ UNCHANGED <<test, up, falls, server, rip>> /\ (Alive("s")' <=> Alive("s"))
      /\ Con(p) \in 1 .. Last(1) /\ o \in {C, S} /\ o # p /\ Peer(o) = p
      /\ rec'[o] = rec[o] /\ Con(o)' = Con(o) /\ Pc(o)' = Pc(o) /\ Turn(o)' = Turn(o)
      /\ Turns' = Turns /\ (Fresh' <=> Fresh)
      /\ p = C => client.pc = "turns"
      /\ p = S => Alive("s")
  BY CallView
<1>2. /\ {C, S} = {p, o} /\ Con(C) = Last(1) /\ Con(S) \in 0 .. Last(1) /\ Last(1) \in Nat
      /\ Even /\ ~ Writes(p) /\ Writes(o) /\ ~ Behind(p) /\ ~ Behind(o) /\ ~ Due(p) /\ ~ Due(o)
      /\ Turn(o) = Turn(p) /\ Turn(p) \in 1 .. Len(Turns) /\ Len(Turns) \in Nat
      /\ rec[o].checkpoint \in Nat
      /\ Pc(o) \notin {"take", "dup", "reload"} /\ HoldInv(o)'
  BY ReaderFacts
<1>3. (Alive("c")' <=> Alive("c")) /\ RecordInv(p) /\ HoldInv(p) /\ SocketInv /\ rec[p].checkpoint = 0
  BY <1>1, <1>2, AtCore, EndRecord DEF Alive
<1>4. Pc(o) = "ack" /\ Con(o) = c /\ In(o, c) = <<>> /\ c = Last(1)
  BY Awaited
<1>5. In(p, c) = <<>>
  <2>1. Holds(p)
    BY DEF Holds
  <2>2. QED
    BY <1>3, <2>1 DEF HoldInv
<1>6. /\ (Writes(o)' <=> Writes(o)) /\ \A x \in {C, S} : Con(x)' = Con(x)
  BY <1>1, <1>2, RoleSame
<1>7. /\ Last(1)' = Last(1)
      /\ \A x \in {C, S} : \A l \in 1 .. Last(1) :
           /\ In(x, l)' = IF x = o /\ l = c THEN <<rec[o].checkpoint>> ELSE In(x, l)
           /\ St(x, l)' = St(x, l)
  <2>1. <<rec[o].checkpoint>> \in Seq(Int) /\ <<>> \o <<rec[o].checkpoint>> = <<rec[o].checkpoint>>
    BY <1>2
  <2>2. /\ Last(1)' = Last(1)
        /\ \A x \in {C, S} : \A l \in 1 .. Last(1) :
             /\ In(x, l)' = IF x = o /\ l = c THEN In(x, l) \o <<rec[o].checkpoint>> ELSE In(x, l)
             /\ St(x, l)' = St(x, l)
    <3> DEFINE w == <<rec[o].checkpoint>>
    <3>1. w \in Seq(Int) /\ Sent(p, w)
      BY <2>1
    <3> HIDE DEF w
    <3>2. /\ Last(1)' = Last(1)
          /\ \A x \in {C, S} : \A l \in 1 .. Last(1) :
               /\ In(x, l)' = IF x = o /\ l = c THEN In(x, l) \o w ELSE In(x, l)
               /\ St(x, l)' = St(x, l)
      BY SMTT(30), <1>1, <3>1, SentView
    <3>3. QED
      BY <3>2 DEF w
  <2>3. QED
    BY <1>4, <2>1, <2>2
<1>8. SocketInv' /\ ProgramInv'
  <2>1. \A x \in {C, S} : \A l \in 1 .. Last(1) :
          In(x, l) = <<>> => In(x, l)' = <<>> \/ (l = Con(Peer(x)) /\ St(Peer(x), l) = "up")
    BY <1>1, <1>7
  <2>2. Pc(p)' \notin {"ripristino", "failed"} /\ Pc(p) # "ripristino"
    OBVIOUS
  <2>3. SocketInv'
    BY <1>1, <1>2, <1>3, <1>6, <1>7, <2>1, <2>2, SoloFacts, SocketFrame
  <2>4. \/ Pc(C)' = Pc(C) /\ Turn(C)' = Turn(C) /\ client' = client
        \/ /\ client.pc = "turns" /\ Pc(C) # "ripristino"
           /\ client'.pc = "turns"
           /\ \/ Turn(C)' = Turn(C) /\ client'.at = client.at
              \/ Turn(C)' = Turn(C) + 1 /\ client'.at = client.at + 1
    BY <1>1, <1>2, <2>2
  <2>5. \/ Pc(S)' = Pc(S) /\ Turn(S)' = Turn(S)
        \/ Alive("s") /\ (Pc(S)' = "failed" => Turn(S)' \in 1 .. Len(Turns))
    BY <1>1, <1>2, <2>2
  <2>6. QED
    BY <1>1, <1>6, <1>7, <2>3, <2>4, <2>5, ProgramFrame
<1>9. ~ Even' /\ ~ Behind(p)' /\ Behind(o)' /\ ~ Due(p)' /\ Due(o)'
  <2>1. Turn(p)' = Turn(o)' + 1 /\ Turn(o)' \in Nat
    BY <1>1, <1>2
  <2>2. ~ Even'
    <3>1. Turn(p)' # Turn(o)'
      BY <2>1
    <3>2. Turn(C)' # Turn(S)'
      BY <1>1, <1>2, <3>1
    <3>3. QED
      BY <3>2 DEF Even
  <2>3. ~ Behind(p)' /\ Behind(o)'
    BY <1>1, <1>2, <1>4, <1>6, <2>1 DEF Behind
  <2>4. QED
    BY <1>1, <1>4, <2>2, <2>3 DEF Due
<1>10. TurnInv'
  <2>1. rec'[Peer(o)].checkpoint = 0 /\ (o = C => Con(S)' = Last(1)')
    BY <1>1, <1>2, <1>3, <1>4, <1>7
  <2>2. QED
    BY <1>1, <1>9, <2>1 DEF TurnInv
<1>11. RecordInv(p)' /\ HoldInv(p)'
  <2>1. Pc(C)' # "failed"
    BY <1>1, <1>2, <1>3 DEF RecordInv
  <2>2. RecordInv(p)'
    BY <1>3, <2>1 DEF RecordInv
  <2>3. HoldInv(p)'
    BY DEF HoldInv, Holds
  <2>4. QED
    BY <2>2, <2>3
<1>12. \A l \in 1 .. Last(1) : l >= Con(p)' => Carries(p, l)'
  <2> TAKE l \in 1 .. Last(1)
  <2> HAVE l >= Con(p)'
  <2>1. l = c
    BY <1>2, <1>4
  <2>2. In(p, l)' = <<>> /\ Lead(p, l)' = 0
    BY <1>1, <1>5, <1>7, <1>9, <2>1 DEF Lead
  <2>3. QED
    BY <1>9, <2>2 DEF Carries, CarriesPacket, DIM
<1>13. \A l \in 1 .. Last(1) : l >= Con(o) => Carries(o, l)'
  <2> TAKE l \in 1 .. Last(1)
  <2> HAVE l >= Con(o)
  <2>1. l = c
    BY <1>2, <1>4
  <2>2. In(o, l)' = <<rec'[o].checkpoint>> /\ l = Con(o)'
    BY <1>1, <1>4, <1>7, <2>1
  <2>3. Lead(o, l)' = 1
    BY <1>9, <2>2 DEF Lead
  <2>4. Len(In(o, l)') = 1 /\ In(o, l)'[1] = rec'[o].checkpoint
    BY <2>2
  <2>5. CarriesPacket(o, l)'
    BY <2>3, <2>4 DEF CarriesPacket, DIM
  <2>6. QED
    BY <1>9, <2>5 DEF Carries
<1>14. QED
  BY <1>1, <1>2, <1>7, <1>8, <1>10, <1>11, <1>12, <1>13, JoinParts

\* A Read returns the packet, and acks it.
LEMMA CoreTake ==
    ASSUME TypesInv, Single(test), ProgramInv, CoreInv, NEW p \in {C, S}, Call(p), Take(p)
    PROVE  ProgramInv' /\ CoreInv'
<1> DEFINE o == Peer(p)
<1> DEFINE c == Con(p)
<1> DEFINE k == rec[o].checkpoint
<1> DEFINE over == rec[p].rd + 1 = Turns[rec[p].turn]
<1>1. /\ Pc(p) = "take" /\ (SendAccepted(p) <=> St(p, c) \in {"up", "fin"})
      /\ SendAccepted(p) /\ rec[p].buffer[1] = HDR => Returned(p)
      /\ ~ SendAccepted(p) => client' = client /\ Broken(p)
  BY EndNames DEF Take, Pc, SendAccepted
<1>2. Reads(p) /\ o \in {C, S} /\ Con(p) \in 1 .. Last(1) /\ HoldInv(p)
  BY <1>1, EndRecord, CallView, AtCore
<1>3. /\ Even /\ ~ Writes(p) /\ Writes(o) /\ ~ Behind(p) /\ Turn(o) = Turn(p) /\ Turn(p) \in 1 .. Len(Turns)
      /\ Len(Turns) \in Nat /\ k \in Nat /\ Turns[Turn(p)] \in Nat \ {0}
  BY <1>2, ReaderFacts
<1>4. rec[p].rd = k /\ rec[p].buffer = Current(o) /\ (OnLast(o) => St(p, c) = "up")
  BY <1>1, <1>2 DEF HoldInv
<1>5. /\ rec[p].buffer[1] = HDR /\ <<rec[p].buffer[2]>> = <<k>>
      /\ LastId(rec[p].buffer) = IF k = Turns[Turn(o)] - 1 THEN -1 ELSE k
  BY <1>2, <1>3, <1>4, CurrentWords
<1>6. over <=> k = Turns[Turn(o)] - 1
  <2>1. over <=> k + 1 = Turns[Turn(p)]
    BY <1>4 DEF Turn
  <2>2. QED
    BY <1>3, <2>1
\* The ack is accepted: the packet was taken from a connection not reset since.
<1>7. SendAccepted(p)
  BY <1>1, <1>2 DEF HoldInv
<1>8. ProgramInv' /\ CoreInv'
  <2>1. /\ Sent(p, <<k>>)
        /\ Become(p, [rec[p] EXCEPT !.lastid = LastId(rec[p].buffer), !.pc = "idle", !.quota = 0,
                        !.rd = IF over THEN 0 ELSE rec[p].rd + 1, !.turn = IF over THEN rec[p].turn + 1 ELSE rec[p].turn])
        /\ IF over THEN TurnOver(p) ELSE UNCHANGED client
    <3>1. Returned(p)
      BY <1>1, <1>5, <1>7
    <3>2. Sent(p, <<rec[p].buffer[2]>>)
      BY <3>1 DEF Returned
    <3>3. Sent(p, <<k>>)
      BY <1>5, <3>2
    <3>4. /\ Become(p, [rec[p] EXCEPT !.lastid = LastId(rec[p].buffer), !.pc = "idle", !.quota = 0,
                        !.rd = IF over THEN 0 ELSE rec[p].rd + 1, !.turn = IF over THEN rec[p].turn + 1 ELSE rec[p].turn])
          /\ IF over THEN TurnOver(p) ELSE UNCHANGED client
      BY <3>1 DEF Returned
    <3>5. QED
      BY <3>3, <3>4
  <2>2. CASE over
    <3>1. Become(p, [rec[p] EXCEPT !.lastid = -1, !.pc = "idle", !.quota = 0, !.rd = 0, !.turn = Turn(p) + 1])
      BY <1>5, <1>6, <2>1, <2>2 DEF Turn
    <3>2. Turn(p) + 1 \in Nat \ {0} /\ -1 \in Int /\ 0 \in Nat
      BY <1>3
    <3>3. /\ Con(p)' = Con(p) /\ Turn(p)' = Turn(p) + 1 /\ Pc(p)' = "idle" /\ rec'[p].checkpoint = rec[p].checkpoint
          /\ rec'[p].rd = 0 /\ rec'[p].lastid = -1 /\ rec'[p].quota = 0
      BY <3>1, <3>2, TakeView
    <3>4. St(p, c) = "up" /\ k = Turns[Turn(o)] - 1
      BY <1>3, <1>4, <1>6, <2>2 DEF OnLast
    <3>5. client'.pc = client.pc /\ (p = C => client'.at = client.at + 1) /\ (p = S => client' = client)
      <4>1. client \in [pc : {"connect", "reconnect", "turns", "ok", "failed"}, at : Nat \ {0}]
        BY TypeFacts
      <4>2. client' = IF p = C THEN [client EXCEPT !.at = @ + 1] ELSE client
        BY <2>1, <2>2, PeerFacts DEF TurnOver
      <4>3. QED
        BY <4>1, <4>2, PeerFacts
    <3> HIDE DEF k, over
    <3>6. QED
      BY <1>1, <1>2, <2>1, <3>3, <3>4, <3>5, CoreLastTaken DEF k
  <2>3. CASE ~ over
    <3>1. Become(p, [rec[p] EXCEPT !.lastid = k, !.pc = "idle", !.quota = 0, !.rd = k + 1, !.turn = Turn(p)])
      BY <1>4, <1>5, <1>6, <2>1, <2>3 DEF Turn
    <3>2. Turn(p) \in Nat \ {0} /\ k \in Int /\ k + 1 \in Nat
      BY <1>3
    <3>3. /\ Con(p)' = Con(p) /\ Turn(p)' = Turn(p) /\ Pc(p)' = "idle" /\ rec'[p].checkpoint = rec[p].checkpoint
          /\ rec'[p].rd = k + 1 /\ rec'[p].lastid = k /\ rec'[p].quota = 0 /\ client' = client
      <4>1. client' = client
        BY <2>1, <2>3
      <4> DEFINE n == k + 1
      <4>2. /\ Become(p, [rec[p] EXCEPT !.lastid = k, !.pc = "idle", !.quota = 0, !.rd = n, !.turn = Turn(p)])
            /\ Turn(p) \in Nat \ {0} /\ k \in Int /\ n \in Nat
        BY <3>1, <3>2
      <4> HIDE DEF k, n
      <4>3. /\ Con(p)' = Con(p) /\ Turn(p)' = Turn(p) /\ Pc(p)' = "idle" /\ rec'[p].checkpoint = rec[p].checkpoint
            /\ rec'[p].rd = n /\ rec'[p].lastid = k /\ rec'[p].quota = 0
        BY <4>2, TakeView
      <4>4. QED
        BY <4>1, <4>3 DEF n
    <3>4. CASE St(p, c) = "up"
      BY <1>1, <1>2, <2>1, <3>3, <3>4, CoreReplied
    <3>5. CASE St(p, c) = "fin"
      <4>1. <<k>> \in Seq(Int)
        BY <1>3
      <4>2. /\ Last(1)' = Last(1)
            /\ \A x \in {C, S} : \A l \in 1 .. Last(1) : In(x, l)' = In(x, l)
            /\ \A x \in {C, S} : \A l \in 1 .. Last(1) :
                 St(x, l)' = St(x, l) \/ (/\ x = p /\ l = Con(p) /\ In(x, l) = <<>>
                                          /\ St(x, l) \in {"fin", "rst"} /\ St(x, l)' = "dead")
        <5>1. In(p, Con(p)) = <<>>
          BY <1>1, <1>2 DEF HoldInv, Holds
        <5>2. QED
          BY <1>2, <2>1, <3>5, <4>1, <5>1, FinView
      <4>3. QED
        BY <1>1, <1>2, <1>4, <3>3, <4>2, CoreUnanswered
    <3>6. QED
      BY <1>1, <1>7, <3>4, <3>5
  <2>4. QED
    BY <2>2, <2>3
<1>9. QED
  BY <1>8

\* Part of the packet is returned: it is looked at again by the next Read, which
\* finds the identifier it expects and so does not take it for one acked before.
LEMMA CoreTakePart ==
    ASSUME TypesInv, Single(test), ProgramInv, CoreInv, NEW p \in {C, S}, Call(p), TakePart(p)
    PROVE  ProgramInv' /\ CoreInv'
<1> DEFINE o == Peer(p)
<1> DEFINE n == rec[p].quota + 1
<1> DEFINE q == [rec[p] EXCEPT !.quota = n]
<1> DEFINE v == ReadFrom(q)
<1> DEFINE r == [q EXCEPT !.pc = v]
<1>1. Pc(p) = "take" /\ rec'[p] = r /\ UNCHANGED <<links, client>>
  BY BecomeView DEF TakePart, Pc
<1>2. Reads(p) /\ o \in {C, S} /\ o # p /\ HoldInv(p) /\ RecordInv(p) /\ Con(p) \in 1 .. Last(1)
  BY <1>1, EndRecord, CallView, AtCore
<1>3. /\ Even /\ Writes(o) /\ ~ Writes(p) /\ ~ Behind(p) /\ ~ Due(p) /\ rec[o].checkpoint \in Nat
      /\ Turn(p) \in 1 .. Len(Turns) /\ Len(Turns) \in Nat
  BY <1>2, ReaderFacts
<1>4. rec[p].buffer[2] = rec[p].rd /\ rec[p].rd # rec[p].lastid
  <2>1. rec[p].buffer = Current(o) /\ rec[p].rd = rec[o].checkpoint
    BY <1>1 , <1>2 DEF HoldInv
  <2>2. Current(o)[2] = rec[o].checkpoint
    BY <1>2, <1>3, CurrentWords
  <2>3. rec[p].lastid = rec[p].rd - 1
    BY <1>2 DEF RecordInv
  <2>4. QED
    BY <1>3, <2>1, <2>2, <2>3
<1>5. rec[p] \in RecordStates /\ n \in Nat /\ n # 0
  <2>1. rec[p] \in RecordStates
    BY EndRecord
  <2>2. rec[p].quota \in Nat
    BY <2>1 DEF RecordStates
  <2>3. QED
    BY <2>1, <2>2
<1>6. /\ q \in RecordStates /\ q.con = rec[p].con /\ q.turn = rec[p].turn /\ q.checkpoint = rec[p].checkpoint
      /\ q.rd = rec[p].rd /\ q.lastid = rec[p].lastid /\ q.quota = n /\ q.buffer = rec[p].buffer
  <2> HIDE DEF n
  <2>1. QED
    BY <1>5 DEF RecordStates
<1> HIDE DEF n, q
<1>7. v = "take"
  BY <1>4, <1>5, <1>6 DEF ReadFrom
<1> HIDE DEF v
<1>8. /\ r.con = rec[p].con /\ r.turn = rec[p].turn /\ r.checkpoint = rec[p].checkpoint /\ r.pc = "take"
      /\ r.rd = rec[p].rd /\ r.lastid = rec[p].lastid /\ r.buffer = rec[p].buffer
  BY <1>6, <1>7, WithPlace, PlaceNames
<1> HIDE DEF r
<1>9. SameTurn(p) /\ Pc(p)' = "take" /\ rec'[p].buffer = rec[p].buffer
  BY <1>1, <1>8 DEF SameTurn, Con, Turn, Pc
<1>10. Last(1)' = Last(1) /\ \A x \in {C, S} : \A l \in 1 .. Last(1) : In(x, l)' = In(x, l) /\ St(x, l)' = St(x, l)
  BY <1>1, KeepView
<1>11. /\ rec'[o] = rec[o] /\ Pc(o)' = Pc(o) /\ Con(o)' = Con(o) /\ Turn(o)' = Turn(o) /\ test' = test
       /\ Con(S)' = Con(S) /\ Turns' = Turns /\ (Fresh' <=> Fresh) /\ Peer(o) = p
       /\ Con(p)' = Con(p) /\ Turn(p)' = Turn(p) /\ rec'[p].rd = rec[p].rd /\ rec'[p].checkpoint = rec[p].checkpoint
  BY <1>2, <1>9, CallView, PeerFacts DEF SameTurn
<1>12. /\ \A x \in {C, S} : Writes(x)' <=> Writes(x)
       /\ (OnLast(o)' <=> OnLast(o)) /\ Current(o)' = Current(o)
  BY <1>2, <1>11, RoleSame, PeerFacts
<1>13. ~ Behind(p)' /\ ~ Due(p)' /\ ~ Sending(p)'
  BY <1>3, <1>9, <1>12 DEF Behind, Due, Sending
<1>14. RecordInv(p)'
  <2>1. Pc(C)' # "failed"
    BY <1>2, <1>9, <1>11, PeerFacts DEF RecordInv
  <2>2. Turn(p) # Len(Turns) + 1
    BY <1>3
  <2>3. rec'[p].lastid = rec'[p].rd - 1
    BY <1>2, <1>9 DEF RecordInv, SameTurn
  <2>4. QED
    BY <1>9, <1>11, <2>1, <2>2, <2>3 DEF RecordInv
<1>15. HoldInv(p)'
  <2>1. Holds(p)
    BY <1>1 DEF Holds
  <2>2. /\ rec[p].rd = rec[o].checkpoint /\ rec[p].buffer = Current(o) /\ St(p, Con(p)) \in {"up", "fin"}
        /\ (OnLast(o) => Pc(o) = "ack" /\ Con(o) = Con(p) /\ St(p, Con(p)) = "up")
        /\ In(p, Con(p)) = <<>> /\ (Con(o) = Con(p) => ~ Sending(o)) /\ (p = C => Con(S) = Last(1))
    BY <1>1, <1>2, <2>1 DEF HoldInv
  <2>3. In(p, Con(p))' = <<>> /\ St(p, Con(p))' = St(p, Con(p))
    BY <1>1, <1>11, <2>2 DEF In, St
  <2>4. Even' /\ (Sending(o)' <=> Sending(o))
    BY <1>2, <1>3, <1>11, PeerFacts DEF Even, Sending
  <2>5. QED
    BY <1>9, <1>10, <1>11, <1>12, <2>2, <2>3, <2>4 DEF HoldInv
<1>16. \A x \in {C, S} : \A l \in 1 .. Last(1) : In(x, l)' = In(x, l) /\ St(x, l)' = St(x, l)
  BY <1>10
<1>17. QED
  BY <1>1, <1>3, <1>9, <1>10, <1>13, <1>14, <1>15, <1>16, QuietCore

-----------------------------------------------------------------------------
(***************************************************************************)
(* Closing a connection, and the recovery of the server's thread.          *)
(***************************************************************************)

\* What a close does to each end.
LEMMA ShutParts ==
    ASSUME NEW link \in LinkStates, NEW e \in Ends
    PROVE  /\ Shut(link, e).queue[e] = <<>> /\ Shut(link, e).queue[Other(e)] = link.queue[Other(e)]
           /\ Shut(link, e).st[e] = "dead"
           /\ Shut(link, e).st[Other(e)] = (IF link.st[Other(e)] # "up" THEN link.st[Other(e)]
                                            ELSE IF link.queue[e] = <<>> THEN "fin" ELSE "rst")
           /\ Refused(link).queue["s"] = <<>> /\ Refused(link).queue["c"] = link.queue["c"]
           /\ Refused(link).st["s"] = link.st["s"]
           /\ Refused(link).st["c"] = IF link.st["c"] = "up" THEN "rst" ELSE link.st["c"]
<1> DEFINE f == [link.queue EXCEPT ![e] = <<>>]
<1> DEFINE g == [x \in Ends |-> IF x = e THEN "dead"
                                ELSE IF link.st[x] # "up" THEN link.st[x]
                                ELSE IF link.queue[e] = <<>> THEN "fin" ELSE "rst"]
<1> DEFINE h == [link.queue EXCEPT !["s"] = <<>>]
<1> DEFINE i == [x \in Ends |-> IF x = "c" /\ link.st[x] = "up" THEN "rst" ELSE link.st[x]]
<1>1. link.queue \in [Ends -> Seq(Int)] /\ "s" \in Ends /\ "c" \in Ends /\ Other(e) \in Ends /\ Other(e) # e
  BY EndFacts DEF LinkStates
<1>2. f[e] = <<>> /\ f[Other(e)] = link.queue[Other(e)] /\ h["s"] = <<>> /\ h["c"] = link.queue["c"]
  BY <1>1
<1>3. /\ g[e] = "dead"
      /\ g[Other(e)] = IF link.st[Other(e)] # "up" THEN link.st[Other(e)]
                       ELSE IF link.queue[e] = <<>> THEN "fin" ELSE "rst"
  BY <1>1
<1>4. i["s"] = link.st["s"] /\ i["c"] = IF link.st["c"] = "up" THEN "rst" ELSE link.st["c"]
  BY <1>1
<1>5. Shut(link, e) = [link EXCEPT !.queue = f, !.st = g]
  BY DEF Shut
<1>6. Refused(link) = [link EXCEPT !.queue = h, !.st = i]
  BY DEF Refused
<1> HIDE DEF f, g, h, i
<1>7. [link EXCEPT !.queue = f, !.st = g].queue = f /\ [link EXCEPT !.queue = f, !.st = g].st = g
  BY DEF LinkStates
<1>8. [link EXCEPT !.queue = h, !.st = i].queue = h /\ [link EXCEPT !.queue = h, !.st = i].st = i
  BY DEF LinkStates
<1>9. QED
  BY <1>2, <1>3, <1>4, <1>5, <1>6, <1>7, <1>8

\* p closes its connection.
LEMMA ClosedView ==
    ASSUME TypesInv, Single(test), NEW p \in {C, S}, NEW o, o = Peer(p), Len(links'[1]) = Len(links[1]),
           \A l \in 1 .. Last(1) : links'[1][l] = IF l = Con(p) THEN Shut(links[1][l], p[2]) ELSE links[1][l]
    PROVE  /\ Last(1)' = Last(1)
           /\ \A l \in 1 .. Last(1) :
                /\ In(p, l)' = IF l = Con(p) THEN <<>> ELSE In(p, l)
                /\ In(o, l)' = In(o, l)
                /\ St(p, l)' = IF l = Con(p) THEN "dead" ELSE St(p, l)
                /\ St(o, l)' = IF l = Con(p) /\ St(o, l) = "up" THEN (IF In(p, l) = <<>> THEN "fin" ELSE "rst") ELSE St(o, l)
<1>1. p[2] \in Ends /\ Other(p[2]) = o[2]
  BY PeerFacts
<1>2. ASSUME NEW l \in 1 .. Last(1)
      PROVE  /\ In(p, l)' = IF l = Con(p) THEN <<>> ELSE In(p, l)
             /\ In(o, l)' = In(o, l)
             /\ St(p, l)' = IF l = Con(p) THEN "dead" ELSE St(p, l)
             /\ St(o, l)' = IF l = Con(p) /\ St(o, l) = "up" THEN (IF In(p, l) = <<>> THEN "fin" ELSE "rst") ELSE St(o, l)
  <2>1. links[1][l] \in LinkStates
    BY SoloFacts
  <2>2. CASE l # Con(p)
    <3>1. links'[1][l] = links[1][l]
      BY <2>2
    <3>2. QED
      BY <2>2, <3>1 DEF In, St
  <2>3. CASE l = Con(p)
    <3>1. links'[1][l] = Shut(links[1][l], p[2])
      BY <2>3
    <3>2. /\ links'[1][l].queue[p[2]] = <<>> /\ links'[1][l].queue[o[2]] = links[1][l].queue[o[2]]
          /\ links'[1][l].st[p[2]] = "dead"
          /\ links'[1][l].st[o[2]] = (IF links[1][l].st[o[2]] # "up" THEN links[1][l].st[o[2]]
                                            ELSE IF links[1][l].queue[p[2]] = <<>> THEN "fin" ELSE "rst")
      BY <1>1, <2>1, <3>1, ShutParts
    <3>3. QED
      BY <2>3, <3>2 DEF In, St
  <2>4. QED
    BY <2>2, <2>3
<1>3. QED
  BY <1>2 DEF Last

\* The thread of the server takes the next connection.
LEMMA CoreNext ==
    ASSUME TypesInv, Single(test), ProgramInv, CoreInv, Call(S), Pc(S) = "ripristino", client' = client,
           Con(S) < Last(1), links' = [links EXCEPT ![1] = Closed(S)], Become(S, [Resume(S) EXCEPT !.con = @ + 1])
    PROVE  ProgramInv' /\ CoreInv'
<1> DEFINE c == Con(S)
<1>1. /\ UNCHANGED <<test, up, falls, server, rip>> /\ (Alive("s")' <=> Alive("s"))
      /\ Con(S) \in 1 .. Last(1)
      /\ rec'[C] = rec[C] /\ Con(C)' = Con(C) /\ Pc(C)' = Pc(C) /\ Turn(C)' = Turn(C)
      /\ Turns' = Turns /\ (Fresh' <=> Fresh) /\ Alive("s") /\ S \in Points
  <2>1. S \in {C, S} /\ C = Peer(S)
    BY PeerFacts
  <2>2. QED
    BY <2>1, CallView
<1>2. Con(C) = Last(1) /\ Last(1) \in Nat /\ (Alive("c")' <=> Alive("c"))
  <2>1. C \in {C, S}
    OBVIOUS
  <2>2. QED
    BY <2>1, EndRecord, SoloFacts DEF Alive
<1>3. /\ Con(S)' = c + 1 /\ Turn(S)' = Turn(S) /\ rec'[S].checkpoint = rec[S].checkpoint /\ rec'[S].rd = rec[S].rd
      /\ rec'[S].lastid = rec[S].lastid /\ rec'[S].quota = 0 /\ rec'[S].ack = 0
      /\ Pc(S)' = IF Writes(S) THEN "send" ELSE "idle"
  <2> DEFINE r == Resume(S)
  <2>0. rec[S].quota = 0
    <3>1. S \in {C, S}
      OBVIOUS
    <3>2. RecordInv(S)
      BY <3>1, AtCore
    <3>3. QED
      BY <3>2 DEF RecordInv
  <2>1. /\ r \in RecordStates /\ r.con = rec[S].con /\ r.turn = rec[S].turn /\ r.checkpoint = rec[S].checkpoint
        /\ r.pc = (IF Writes(S) THEN "send" ELSE "idle") /\ r.ack = 0
        /\ r.rd = rec[S].rd /\ r.lastid = rec[S].lastid /\ r.quota = 0
    BY <1>1, <2>0, ResumeRecord DEF ReadFrom
  <2>2. rec'[S] = [r EXCEPT !.con = r.con + 1]
    <3>1. S \in {C, S}
      OBVIOUS
    <3>2. QED
      BY <3>1, BecomeView
  <2> HIDE DEF r
  <2>3. r.con + 1 \in Nat
    BY <1>1, <1>2, <2>1 DEF Con
  <2> DEFINE q == rec'[S]
  <2>4. /\ q.con = r.con + 1 /\ q.turn = r.turn /\ q.checkpoint = r.checkpoint /\ q.pc = r.pc
        /\ q.ack = r.ack /\ q.rd = r.rd /\ q.lastid = r.lastid /\ q.quota = r.quota
    BY <2>1, <2>2, <2>3, MovedRecord
  <2>5. QED
    BY <2>1, <2>4 DEF Con, Turn, Pc
<1>4. SocketInv /\ TurnInv /\ RecordInv(S) /\ RecordInv(C) /\ HoldInv(C)
  BY AtCore
<1>5. Even /\ ~ Behind(C) /\ ~ Behind(S)
  <2>1. ~ Behind(S)
    BY DEF Behind
  <2>2. ~ Behind(C)
    <3>1. C \in {C, S} /\ S = Peer(C)
      BY PeerFacts
    <3>2. Behind(C) => Con(S) = Last(1)
      BY <1>4, <3>1, TurnFacts
    <3>3. QED
      BY <1>1, <1>2, <3>2
  <2>3. QED
    BY <1>4, <2>1, <2>2, TurnFacts, PeerFacts
<1>6. \A x \in {C, S} : /\ (Writes(x)' <=> Writes(x)) /\ (Reads(x)' <=> Reads(x)) /\ (OnLast(x)' <=> OnLast(x))
                        /\ Current(x)' = Current(x)
  BY <1>1, <1>3, RoleSame
<1>7. /\ Last(1)' = Last(1)
      /\ \A l \in 1 .. Last(1) :
           /\ In(S, l)' = IF l = c THEN <<>> ELSE In(S, l)
           /\ In(C, l)' = In(C, l)
           /\ St(S, l)' = IF l = c THEN "dead" ELSE St(S, l)
           /\ St(C, l)' = St(C, l)
  <2>1. links \in [Conns -> Seq(LinkStates)] /\ 1 \in Conns /\ S[1] = 1 /\ S[2] = "s"
    BY SoloFacts, TypeFacts, PeerFacts
  <2>2. Len(links'[1]) = Len(links[1])
        /\ \A l \in 1 .. Last(1) : links'[1][l] = IF l = Con(S) THEN Shut(links[1][l], S[2]) ELSE links[1][l]
    <3>1. links'[1] = Closed(S)
      BY <2>1
    <3>2. QED
      BY <1>1, <2>1, <3>1, ClosedFacts DEF Con, Last
  <2>3. /\ Last(1)' = Last(1)
        /\ \A l \in 1 .. Last(1) :
             /\ In(S, l)' = IF l = c THEN <<>> ELSE In(S, l)
             /\ In(C, l)' = In(C, l)
             /\ St(S, l)' = IF l = c THEN "dead" ELSE St(S, l)
             /\ St(C, l)' = IF l = c /\ St(C, l) = "up" THEN (IF In(S, l) = <<>> THEN "fin" ELSE "rst") ELSE St(C, l)
    <3>1. S \in {C, S} /\ C = Peer(S)
      BY PeerFacts
    <3>2. QED
      BY <2>2, <3>1, ClosedView
  <2>4. \A l \in 1 .. Last(1) : l = c => St(C, l) = "dead"
    BY <1>4 DEF SocketInv
  <2>5. QED
    BY <2>3, <2>4
<1>8. SocketInv'
  <2>1. ASSUME NEW l \in 1 .. Last(1)
        PROVE  /\ St(S, l)' # "rst"
               /\ St(C, l)' = "up" => St(S, l)' = "up" /\ Alive("c") /\ Alive("s")
               /\ St(S, l)' = "up" => St(C, l)' = "up"
               /\ St(C, l)' = "rst" => ~ Alive("s") /\ l > Con(S)
               /\ l < Last(1) => St(C, l)' = "dead" /\ St(S, l)' # "up"
               /\ l < Last(1) \/ l > c + 1 => In(C, l)' = <<>>
    <3>1. /\ St(S, l) # "rst"
          /\ St(C, l) = "up" => St(S, l) = "up" /\ Alive("c") /\ Alive("s")
          /\ St(S, l) = "up" => St(C, l) = "up"
          /\ St(C, l) = "rst" => ~ Alive("s") /\ l > Con(S)
          /\ l < Last(1) => St(C, l) = "dead" /\ St(S, l) # "up"
          /\ l < Last(1) \/ l > Con(S) => In(C, l) = <<>>
      BY <1>1, <1>4 DEF SocketInv
    <3>2. QED
      BY <1>1, <1>2, <1>7, <3>1
  <2>2. Pc(S)' \notin {"ripristino", "failed"} /\ Con(S)' # 0 /\ (Last(1) # 0)
    BY <1>1, <1>2, <1>3
  <2>3. Pc(C) = "ripristino" /\ ~ Fresh => St(C, Last(1))' # "up"
    <3>1. Pc(C) = "ripristino" /\ ~ Fresh => St(C, Last(1)) # "up"
      BY <1>4 DEF SocketInv
    <3>2. \A l \in 1 .. Last(1) : l = Last(1) => St(C, l)' = St(C, l)
      BY <1>7
    <3>3. links'[1][Last(1)].st[C[2]] = St(C, Last(1))
      BY <1>1, <1>2, <3>2 DEF St
    <3>4. QED
      BY <1>7, <3>1, <3>3 DEF St
  <2>4. QED
    BY <1>1, <1>2, <1>3, <1>7, <2>1, <2>2, <2>3 DEF SocketInv
<1>9. ProgramInv'
  <2>1. Pc(S)' # "failed"
    BY <1>3
  <2>2. Con(S)' = 0 <=> Con(S) = 0
    BY <1>1, <1>2, <1>3
  <2>3. QED
    BY <1>1, <1>7, <2>1, <2>2, ProgramFrame
<1>10. Even' /\ ~ Behind(C)' /\ ~ Behind(S)' /\ ~ Due(C)' /\ ~ Due(S)'
  <2>1. Turn(C)' = Turn(S)' /\ Turn(S)' \in Nat
    <3>1. S \in {C, S}
      OBVIOUS
    <3>2. Turn(S) \in Nat
      BY <3>1, EndRecord, SoloFacts
    <3>3. QED
      BY <1>1, <1>3, <1>5, <3>2 DEF Even
  <2>2. ~ Behind(C)' /\ ~ Behind(S)'
    BY <2>1, PeerFacts DEF Behind
  <2>3. QED
    BY <2>1, <2>2 DEF Even, Due
<1>11. TurnInv'
  <2>1. \A x \in {C, S} : Writes(x) =>
          /\ rec[Peer(x)].rd \in {rec[x].checkpoint, rec[x].checkpoint + 1}
          /\ rec[x].checkpoint < Turns[Turn(x)]
    BY <1>4, <1>5, TurnFacts
  <2>2. \A x \in {C, S} : rec'[x].rd = rec[x].rd /\ rec'[x].checkpoint = rec[x].checkpoint /\ Turn(x)' = Turn(x)
    BY <1>1, <1>3
  <2>3. QED
    BY <1>1, <1>6, <1>10, <2>1, <2>2, PeerFacts DEF TurnInv
<1>12. RecordInv(S)' /\ HoldInv(S)'
  <2>1. Pc(C)' # "failed" /\ Pc(S)' \in {"send", "idle"} /\ (Pc(S)' = "idle" => ~ Writes(S))
    BY <1>1, <1>3, <1>4 DEF RecordInv
  <2>2. rec[S].checkpoint \in Nat
    <3>1. S \in {C, S}
      OBVIOUS
    <3>2. QED
      BY <3>1, EndRecord
  <2>3. Writes(S) => Turn(S) # Len(Turns) + 1
    <3>1. S \in {C, S}
      OBVIOUS
    <3>2. QED
      BY <3>1, RoleFacts, SoloFacts
  <2>4. RecordInv(S)'
    BY <1>1, <1>3, <1>4, <1>6, <2>1, <2>2, <2>3 DEF RecordInv
  <2>5. HoldInv(S)'
    BY <2>1 DEF HoldInv, Holds
  <2>6. QED
    BY <2>4, <2>5
<1>13. HoldInv(C)'
  <2>1. Pc(C) \notin {"take", "dup", "reload"}
    <3>1. Pc(C) \in {"take", "dup", "reload"} => Con(S) = Last(1)
      BY <1>4 DEF HoldInv
    <3>2. QED
      BY <1>1, <1>2, <3>1
  <2>2. QED
    BY <1>1, <2>1 DEF HoldInv, Holds
<1>14. \A l \in 1 .. Last(1) : l >= Con(S)' => Carries(S, l)'
  <2> TAKE l \in 1 .. Last(1)
  <2> HAVE l >= Con(S)'
  <2>1. l # c /\ l >= Con(S)
    BY <1>1, <1>2, <1>3
  <2>2. Carries(S, l)
    BY <2>1, AtCore
  <2>3. In(S, l)' = In(S, l) /\ St(S, l)' = St(S, l)
    BY <1>7, <2>1
  <2>4. CASE Writes(S)
    <3>1. In(S, l) = <<>>
      BY <1>5, <2>2, <2>4 DEF Carries, CarriesAck
    <3>2. QED
      BY <1>6, <1>10, <2>3, <2>4, <3>1 DEF Carries, CarriesAck
  <2>5. CASE ~ Writes(S)
    <3>1. CarriesPacket(S, l) /\ Peer(S) = C
      BY <2>2, <2>5, PeerFacts DEF Carries
    <3>2. Lead(S, l) = 0 /\ Lead(S, l)' = 0 /\ In(S, l) \in Seq(Int)
      BY <1>5, <1>10, CarriesTypes DEF Lead, Due
    <3>3. (Sending(C)' <=> Sending(C)) /\ (Len(In(S, l)) > 0 => Writes(C) /\ l <= Con(C) /\ (l = Con(C) => ~ Sending(C)))
      BY <1>1, <3>1, <3>2 DEF Sending, CarriesPacket
    <3>6. Len(In(S, l)) > Lead(S, l) => St(S, l)' \in {"up", "fin"}
      BY <2>3, <3>1 DEF CarriesPacket
    <3>4. CarriesPacket(S, l)'
      BY <1>1, <1>6, <1>10, <2>3, <3>1, <3>2, <3>3, <3>6, PacketFrame
    <3>5. QED
      BY <1>6, <2>5, <3>4 DEF Carries
  <2>6. QED
    BY <2>4, <2>5
<1>15. \A l \in 1 .. Last(1) : l >= Con(C) => Carries(C, l)'
  <2> TAKE l \in 1 .. Last(1)
  <2> HAVE l >= Con(C)
  <2>1. l > Con(S)
    BY <1>1, <1>2
  <2>2. In(C, l) = <<>>
    BY <1>4, <2>1 DEF SocketInv
  <2>3. In(C, l)' = <<>> /\ Lead(C, l)' = 0
    BY <1>7, <1>10, <2>2 DEF Lead
  <2>4. QED
    BY <2>3 DEF Carries, CarriesAck, CarriesPacket, DIM
<1>16. QED
  <2>1. S \in {C, S} /\ C = Peer(S) /\ test' = test
    BY <1>1, PeerFacts
  <2>2. QED
    BY <1>1, <1>7, <1>8, <1>9, <1>11, <1>12, <1>13, <1>14, <1>15, <2>1, JoinParts

\* The thread of the server accepts the connection that the client has made again.
LEMMA CoreReAccept ==
    ASSUME TypesInv, Single(test), ProgramInv, CoreInv, NEW p \in {C, S}, Call(p), ReAccept(p)
    PROVE  ProgramInv' /\ CoreInv'
<1>1. p = S /\ Pc(p) = "ripristino" /\ client' = client /\ p[1] = 1 /\ p \in Points
  BY PeerFacts, SoloFacts DEF ReAccept, Pc
<1>2. CASE /\ rec[p].con < Last(p[1])
           /\ links' = [links EXCEPT ![p[1]] = Closed(p)]
           /\ Become(p, [Resume(p) EXCEPT !.con = @ + 1])
  BY <1>1, <1>2, CoreNext DEF Con
<1>3. CASE /\ rec[p].con = Last(p[1])
           /\ Become(p, [rec[p] EXCEPT !.tent = @ + 1,
                                      !.pc = IF rec[p].tent + 1 = MAX_TENTATIVI THEN "failed" ELSE @])
           /\ UNCHANGED links
  <2> DEFINE v == IF rec[p].tent + 1 = MAX_TENTATIVI THEN "failed" ELSE rec[p].pc
  <2> DEFINE r == [rec[p] EXCEPT !.tent = @ + 1, !.pc = v]
  <2>1. /\ r.con = rec[p].con /\ r.pc = v /\ r.turn = rec[p].turn
        /\ r.checkpoint = rec[p].checkpoint /\ r.rd = rec[p].rd /\ r.lastid = rec[p].lastid
        /\ r.quota = rec[p].quota
    BY <1>1, AttemptRecord DEF Pc
  <2>2. rec'[p] = r
    BY <1>3, BecomeView
  <2> HIDE DEF r
  <2>3. Kept(p) /\ Pc(p)' \in {"ripristino", "failed"}
    BY <1>1, <2>1, <2>2 DEF Kept, SameTurn, Con, Turn, Pc
  <2>4. /\ Con(p)' = Con(p) /\ Turn(p)' = Turn(p) /\ rec'[p].checkpoint = rec[p].checkpoint
        /\ rec'[p].rd = rec[p].rd /\ rec'[p].lastid = rec[p].lastid /\ rec'[p].quota = 0
    <3>1. rec[p].quota = 0
      BY <1>1, AtCore DEF RecordInv
    <3>2. QED
      BY <2>3, <3>1 DEF Kept, SameTurn
  <2>5. /\ Last(1)' = Last(1)
        /\ \A x \in {C, S} : \A l \in 1 .. Last(1) : In(x, l)' = In(x, l) /\ St(x, l)' = St(x, l)
    BY <1>3, KeepView
  <2>6. RecordInv(p) /\ SocketInv
    BY AtCore
  <2>7. St(p, Con(p)) # "up"
    BY <1>1, <2>6 DEF SocketInv
  <2>8. Turn(p) \in 1 .. Len(Turns)
    BY <1>1, <2>6, EndRecord, SoloFacts DEF RecordInv
  <2>9. ~ Behind(p) /\ ~ Behind(p)' /\ ~ Due(p) /\ ~ Due(p)'
    BY <1>1, <2>3 DEF Behind, Due
  <2>10. ~ Sending(p)' /\ HoldInv(p)'
    BY <1>1, <2>3, PeerFacts DEF Sending, HoldInv, Holds
  <2>11. RecordInv(p)'
    <3>1. Pc(C)' # "failed"
      BY <1>1, <2>6, CallView, PeerFacts DEF RecordInv
    <3>2. Turns' = Turns
      BY CallView
    <3>3. Turn(p) # Len(Turns) + 1
      BY <2>8, SoloFacts
    <3>4. QED
      BY <2>3, <2>4, <2>6, <3>1, <3>2, <3>3 DEF RecordInv
  <2>12. QED
    BY <1>1, <2>3, <2>5, <2>7, <2>8, <2>9, <2>10, <2>11, QuietCore DEF Kept
<1>4. QED
  BY <1>2, <1>3 DEF ReAccept

\* A step of a call.
LEMMA CoreCall ==
    ASSUME TypesInv, Single(test), ProgramInv, CoreInv, NEW p \in {C, S}, Call(p)
    PROVE  ProgramInv' /\ (CoreInv' \/ LostInv')
<1>1. Writer(p) \/ Reader(p) \/ ReAccept(p)
  BY DEF Call
<1>2. CASE Writer(p)
  BY <1>2, CoreWrite, CoreSendPacket, CoreReadAck, CoreAckEof, CoreReturn DEF Writer
<1>3. CASE Reader(p)
  BY <1>3, CoreReadPacket, CoreReadFails, CoreReAck, CoreTakePart, CoreTake DEF Reader
<1>4. CASE ReAccept(p)
  BY <1>4, CoreReAccept
<1>5. QED
  BY <1>1, <1>2, <1>3, <1>4

-----------------------------------------------------------------------------
(***************************************************************************)
(* The steps that are not of a call.                                       *)
(***************************************************************************)
LEMMA SameEnds ==
    ASSUME UNCHANGED <<test, rec>>
    PROVE  /\ \A x \in {C, S} : /\ Con(x)' = Con(x) /\ Pc(x)' = Pc(x) /\ Turn(x)' = Turn(x)
                                /\ (Writes(x)' <=> Writes(x)) /\ (Reads(x)' <=> Reads(x)) /\ (OnLast(x)' <=> OnLast(x))
                                /\ Current(x)' = Current(x) /\ (Behind(x)' <=> Behind(x)) /\ (Due(x)' <=> Due(x))
                                /\ (Holds(x)' <=> Holds(x)) /\ (RecordInv(x)' <=> RecordInv(x))
           /\ (Even' <=> Even) /\ Turns' = Turns /\ Sending(S)' = Sending(S)
           /\ \A x \in {C, S} : \A l : Lead(x, l)' = Lead(x, l)
           /\ Last(1)' = Last(1) => (TurnInv' <=> TurnInv)
<1>1. /\ \A x \in {C, S} : /\ Con(x)' = Con(x) /\ Pc(x)' = Pc(x) /\ Turn(x)' = Turn(x)
                           /\ (Writes(x)' <=> Writes(x)) /\ (Reads(x)' <=> Reads(x))
      /\ Turns' = Turns
  BY DEF Con, Pc, Turn, Writes, Reads, Turns
<1>2. \A x \in {C, S} : (OnLast(x)' <=> OnLast(x)) /\ Current(x)' = Current(x) /\ (Holds(x)' <=> Holds(x))
  BY <1>1 DEF OnLast, Current, Packet, Holds
<1>3. \A x \in {C, S} : (Behind(x)' <=> Behind(x)) /\ (Due(x)' <=> Due(x))
  BY <1>1, PeerFacts DEF Behind, Due
<1>4. \A x \in {C, S} : RecordInv(x)' <=> RecordInv(x)
  BY <1>1 DEF RecordInv
<1>5. (Even' <=> Even) /\ Sending(S)' = Sending(S) /\ \A x \in {C, S} : \A l : Lead(x, l)' = Lead(x, l)
  BY <1>1, <1>3, PeerFacts DEF Even, Sending, Lead
<1>6. ASSUME Last(1)' = Last(1) PROVE TurnInv' <=> TurnInv
  BY <1>1, <1>3, <1>5, <1>6 DEF TurnInv
<1>7. QED
  BY <1>1, <1>2, <1>3, <1>4, <1>5, <1>6

\* Nothing of the sockets and the records.
LEMMA CoreSame ==
    ASSUME CoreInv, UNCHANGED <<test, rec, links>>, Alive("c")' <=> Alive("c"), Alive("s")' <=> Alive("s"),
           (Fresh' <=> Fresh) \/ Pc(C) # "ripristino"
    PROVE  CoreInv'
<1>1. Last(1)' = Last(1) /\ \A x, l : In(x, l)' = In(x, l) /\ St(x, l)' = St(x, l)
  BY KeepView
<1>2. /\ \A x \in {C, S} : /\ Con(x)' = Con(x) /\ Pc(x)' = Pc(x) /\ Turn(x)' = Turn(x)
                           /\ (Writes(x)' <=> Writes(x)) /\ (Reads(x)' <=> Reads(x)) /\ (OnLast(x)' <=> OnLast(x))
                           /\ Current(x)' = Current(x) /\ (Behind(x)' <=> Behind(x)) /\ (Due(x)' <=> Due(x))
                           /\ (Holds(x)' <=> Holds(x)) /\ (RecordInv(x)' <=> RecordInv(x))
      /\ (Even' <=> Even) /\ Turns' = Turns
      /\ \A x \in {C, S} : \A l : Lead(x, l)' = Lead(x, l)
      /\ (TurnInv' <=> TurnInv)
  BY <1>1, SameEnds
<1>3. \A x \in {C, S} : Sending(x)' <=> Sending(x)
  BY <1>2 DEF Sending
<1>4. SocketInv'
  BY <1>1, <1>2 DEF CoreInv, SocketInv, St
<1>5. ASSUME NEW x \in {C, S} PROVE RecordInv(x)' /\ HoldInv(x)' /\ \A l \in 1 .. Last(1)' : l >= Con(x)' => Carries(x, l)'
  <2> DEFINE o == Peer(x)
  <2>1. o \in {C, S} /\ RecordInv(x) /\ HoldInv(x)
    BY AtCore, PeerFacts
  <2>2. In(x, Con(x))' = In(x, Con(x)) /\ St(x, Con(x))' = St(x, Con(x))
    BY <1>2 DEF In, St
  <2>3. HoldInv(x)'
    BY <1>1, <1>2, <1>3, <2>1, <2>2 DEF HoldInv
  <2>4. ASSUME NEW l \in 1 .. Last(1), l >= Con(x) PROVE Carries(x, l)'
    <3>1. Carries(x, l)
      BY <2>4, AtCore
    <3>2. CarriesAck(x, l) => CarriesAck(x, l)'
      BY <1>1, <1>2, <2>1 DEF CarriesAck
    <3>3. CarriesPacket(x, l) => CarriesPacket(x, l)'
      BY <1>1, <1>2, <1>3, <2>1 DEF CarriesPacket
    <3>4. QED
      BY <1>2, <3>1, <3>2, <3>3 DEF Carries
  <2>5. QED
    BY <1>1, <1>2, <2>1, <2>3, <2>4
<1>6. QED
  BY <1>2, <1>4, <1>5 DEF CoreInv

\* y closes, and waits for nothing.
LEMMA ShutCore ==
    ASSUME TypesInv, Single(test), CoreInv, NEW y \in {C, S}, NEW z, z = Peer(y), UNCHANGED <<test, rec>>,
           Last(1)' = Last(1), \A l \in 1 .. Last(1) : In(z, l)' = In(z, l),
           \A l \in 1 .. Last(1) : l >= Con(y) => In(y, l)' = <<>>,
           \A x \in {C, S} : \A l \in 1 .. Last(1) : St(x, l)' = "up" => St(x, l) = "up",
           \A l \in 1 .. Last(1) : St(z, l)' = St(z, l) \/ St(z, l)' \in {"fin", "rst"},
           Pc(y) \notin {"send", "ack", "take", "dup", "reload"},
           Sending(y)' => Sending(y), Sending(z)' <=> Sending(z), SocketInv'
    PROVE  CoreInv'
<1>1. z \in {C, S} /\ z # y /\ {C, S} = {y, z} /\ Peer(z) = y /\ rec'[z] = rec[z]
  BY PeerFacts
<1>2. /\ \A x \in {C, S} : /\ Con(x)' = Con(x) /\ Pc(x)' = Pc(x) /\ Turn(x)' = Turn(x)
                           /\ (Writes(x)' <=> Writes(x)) /\ (Reads(x)' <=> Reads(x)) /\ (OnLast(x)' <=> OnLast(x))
                           /\ Current(x)' = Current(x) /\ (Behind(x)' <=> Behind(x)) /\ (Due(x)' <=> Due(x))
                           /\ (Holds(x)' <=> Holds(x)) /\ (RecordInv(x)' <=> RecordInv(x))
      /\ (Even' <=> Even) /\ Turns' = Turns
      /\ \A x \in {C, S} : \A l : Lead(x, l)' = Lead(x, l)
      /\ (TurnInv' <=> TurnInv)
  BY SameEnds
<1>3. ~ Behind(y) /\ ~ Due(y)
  BY DEF Behind, Due
<1>4. Con(z) \in 0 .. Last(1) /\ Last(1) \in Nat /\ (Con(z) = 0 => Pc(z) \notin {"take", "dup", "reload"})
  <2>1. Con(z) = 0 => Pc(z) = "idle"
    BY <1>1, AtCore, EndRecord DEF SocketInv
  <2>2. QED
    BY <1>1, <2>1, EndRecord, SoloFacts
<1>5. HoldInv(y)'
  BY <1>2 DEF HoldInv, Holds
\* Nothing is on its way to z on a connection that is reset.
<1>10. \A l \in 1 .. Last(1) : St(z, l) \in {"up", "fin"} =>
         St(z, l)' \in {"up", "fin"} \/ (z = C /\ l > Con(S) /\ In(z, l) = <<>>)
  <2> TAKE l \in 1 .. Last(1)
  <2>1. St(S, l)' # "rst" /\ (St(C, l)' = "rst" => l > Con(S)' /\ In(C, l)' = <<>>)
    BY DEF SocketInv
  <2>2. Con(S)' = Con(S)
    BY <1>2
  <2>3. QED
    BY <1>1, <2>1, <2>2
<1>6. HoldInv(z)'
  <2>1. HoldInv(z)
    BY <1>1, AtCore
  <2>2. Holds(z) => Con(z) \in 1 .. Last(1)
    BY <1>4 DEF Holds
  <2>3. Con(z) \in 1 .. Last(1) => In(z, Con(z))' = In(z, Con(z))
    BY <1>1, <1>2 DEF In
  <2>4. ~ (Pc(z) = "take" /\ OnLast(y))
    BY <1>1, <2>1 DEF HoldInv
  <2>6. Pc(z) = "take" => St(z, Con(z))' \in {"up", "fin"}
    <3> SUFFICES ASSUME Pc(z) = "take" PROVE St(z, Con(z))' \in {"up", "fin"}
      OBVIOUS
    <3>1. St(z, Con(z)) \in {"up", "fin"} /\ (z = C => Con(S) = Last(1)) /\ Con(z) \in 1 .. Last(1)
      BY <1>4, <2>1 DEF HoldInv
    <3>2. ~ (z = C /\ Con(z) > Con(S))
      BY <1>4, <3>1
    <3>3. links'[1][Con(z)].st[z[2]] \in {"up", "fin"}
      BY <1>10, <3>1, <3>2 DEF St
    <3>4. QED
      BY <1>1, <1>2, <3>3 DEF St
  <2>5. QED
    BY <1>1, <1>2, <2>1, <2>2, <2>3, <2>4, <2>6 DEF HoldInv
<1>7. \A l \in 1 .. Last(1) : l >= Con(y)' => Carries(y, l)'
  <2> TAKE l \in 1 .. Last(1)
  <2> HAVE l >= Con(y)'
  <2>1. In(y, l)' = <<>> /\ Lead(y, l)' = 0
    BY <1>2, <1>3 DEF Lead
  <2>2. QED
    BY <2>1 DEF Carries, CarriesAck, CarriesPacket, DIM
<1>8. \A l \in 1 .. Last(1) : l >= Con(z) => Carries(z, l)'
  <2> TAKE l \in 1 .. Last(1)
  <2> HAVE l >= Con(z)
  <2>1. Carries(z, l) /\ In(z, l) \in Seq(Int) /\ In(z, l)' = In(z, l)
    BY <1>1, AtCore, CarriesTypes
  <2>2. CASE Writes(z) /\ Even
    <3>1. CarriesAck(z, l)
      BY <2>1, <2>2 DEF Carries
    <3>2. In(z, l) # <<>> => In(y, l)' = <<>>
      <4>1. CASE l >= Con(y)
        BY <4>1
      <4>2. CASE ~ (l >= Con(y))
        <5>1. z = C => Con(z) = Last(1)
          BY EndRecord
        <5>2. y = C => Con(y) = Last(1)
          BY EndRecord
        <5>3. y = C
          <6>1. Con(y) \in 0 .. Last(1)
            BY EndRecord
          <6>2. QED
            BY <1>1, <1>4, <4>2, <5>1, <6>1
        <5>4. l < Last(1)
          BY <1>4, <4>2, <5>2, <5>3
        <5>5. In(C, l)' = <<>>
          BY <5>4 DEF SocketInv
        <5>6. QED
          BY <5>3, <5>5
      <4>3. QED
        BY <4>1, <4>2
    <3>3. In(z, l) # <<>> => Pc(z) = "ack"
      BY <3>1 DEF CarriesAck
    <3>4. CarriesAck(z, l)'
      BY <1>1, <1>2, <2>1, <3>1, <3>2, <3>3, AckFrame
    <3>5. QED
      BY <1>1, <1>2, <2>2, <3>4 DEF Carries
  <2>3. CASE ~ (Writes(z) /\ Even)
    <3>1. CarriesPacket(z, l)
      BY <2>1, <2>3 DEF Carries
    <3>2. Len(In(z, l)) > Lead(z, l) => Writes(y) /\ ~ Behind(y) /\ l <= Con(y) /\ (l = Con(y) => ~ Sending(y))
      BY <1>1, <3>1 DEF CarriesPacket
    <3>3. St(z, l)' = "up" => St(z, l) = "up"
      BY <1>1
    <3>6. Len(In(z, l)) > Lead(z, l) => St(z, l)' \in {"up", "fin"}
      <4>1. Len(In(z, l)) > Lead(z, l) => In(z, l) # <<>>
        BY DEF Lead
      <4>2. QED
        BY <1>10, <3>1, <4>1 DEF CarriesPacket
    <3>4. CarriesPacket(z, l)'
      BY <1>1, <1>2, <2>1, <3>1, <3>2, <3>3, <3>6, PacketFrame
    <3>5. QED
      BY <1>1, <1>2, <2>3, <3>4 DEF Carries
  <2>4. QED
    BY <2>2, <2>3
<1>9. QED
  BY <1>1, <1>2, <1>5, <1>6, <1>7, <1>8, AtCore, JoinParts

\* The sockets when the client closes its connection.
LEMMA ClientShut ==
    ASSUME TypesInv, Single(test), SocketInv, UNCHANGED <<test, rec>>, Alive("s")' <=> Alive("s"),
           Len(links'[1]) = Len(links[1]),
           \A l \in 1 .. Last(1) : links'[1][l] = IF l = Con(C) THEN Shut(links[1][l], "c") ELSE links[1][l],
           \A l \in 1 .. Last(1) : l = Last(1) /\ St(S, l) = "up" => In(C, l) = <<>>
    PROVE  /\ SocketInv' /\ Last(1)' = Last(1)
           /\ \A l \in 1 .. Last(1) : In(S, l)' = In(S, l) /\ (l >= Con(C) => In(C, l)' = <<>> /\ St(C, l)' = "dead")
           /\ \A x \in {C, S} : \A l \in 1 .. Last(1) : St(x, l)' = "up" => St(x, l) = "up"
           /\ \A l \in 1 .. Last(1) : St(S, l)' = St(S, l) \/ St(S, l)' \in {"fin", "rst"}
<1>1. C \in {C, S} /\ S = Peer(C) /\ C[2] = "c"
  BY PeerFacts
<1>2. /\ Last(1)' = Last(1)
      /\ \A l \in 1 .. Last(1) :
           /\ In(C, l)' = IF l = Con(C) THEN <<>> ELSE In(C, l)
           /\ In(S, l)' = In(S, l)
           /\ St(C, l)' = IF l = Con(C) THEN "dead" ELSE St(C, l)
           /\ St(S, l)' = IF l = Con(C) /\ St(S, l) = "up" THEN (IF In(C, l) = <<>> THEN "fin" ELSE "rst") ELSE St(S, l)
  BY <1>1, ClosedView
<1>3. Con(C) = Last(1) /\ Last(1) \in Nat /\ Con(S) \in 0 .. Last(1)
  BY <1>1, EndRecord, SoloFacts
<1>4. \A l \in 1 .. Last(1) : l >= Con(C) => l = Con(C)
  BY <1>3
<1>5. /\ \A l \in 1 .. Last(1) : In(S, l)' = In(S, l) /\ (l >= Con(C) => In(C, l)' = <<>> /\ St(C, l)' = "dead")
      /\ \A x \in {C, S} : \A l \in 1 .. Last(1) : St(x, l)' = "up" => St(x, l) = "up"
  <2>1. \A l \in 1 .. Last(1) : (St(C, l)' = "up" => St(C, l) = "up") /\ (St(S, l)' = "up" => St(S, l) = "up")
    BY <1>2
  <2>2. QED
    BY <1>2, <1>4, <2>1
<1>6. /\ \A x \in {C, S} : Con(x)' = Con(x) /\ Pc(x)' = Pc(x) /\ Turn(x)' = Turn(x)
  BY SameEnds
<1>7. ASSUME NEW l \in 1 .. Last(1)
      PROVE  /\ St(S, l)' # "rst"
             /\ St(C, l)' # "up"
             /\ St(S, l)' # "up"
             /\ St(C, l)' = "rst" => ~ Alive("s") /\ l > Con(S)
             /\ l < Last(1) => St(C, l)' = "dead"
             /\ l < Last(1) \/ l > Con(S) => In(C, l)' = <<>>
             /\ ~ Alive("s") /\ l >= Con(S) => In(S, l)' = <<>>
  <2>1. /\ St(S, l) # "rst"
        /\ St(C, l) = "rst" => ~ Alive("s") /\ l > Con(S)
        /\ l < Last(1) => St(C, l) = "dead" /\ St(S, l) # "up"
        /\ l < Last(1) \/ l > Con(S) => In(C, l) = <<>>
        /\ ~ Alive("s") /\ l >= Con(S) => In(S, l) = <<>>
    BY DEF SocketInv
  <2>2. CASE l = Last(1)
    BY <1>2, <1>3, <2>1, <2>2
  <2>3. CASE l # Last(1)
    <3>1. l < Last(1) /\ l # Con(C)
      BY <1>3, <2>3
    <3>2. In(C, l)' = In(C, l) /\ In(S, l)' = In(S, l) /\ St(C, l)' = St(C, l) /\ St(S, l)' = St(S, l)
      BY <1>2, <3>1
    <3>3. QED
      BY <2>1, <3>1, <3>2
  <2>4. QED
    BY <2>2, <2>3
<1>8. /\ Con(S) = 0 => Pc(S) = "idle" /\ Turn(S) = 1
      /\ Last(1) = 0 => Pc(C) = "idle" /\ Turn(C) = 1
  BY DEF SocketInv
<1>9. /\ Pc(S) \in {"ripristino", "failed"} => St(S, Con(S))' # "up"
      /\ Pc(C) = "ripristino" => St(C, Last(1))' # "up"
  <2>1. Pc(S) \in {"ripristino", "failed"} => Con(S) \in 1 .. Last(1)
    BY <1>3, <1>8
  <2>2. Pc(C) = "ripristino" => Last(1) \in 1 .. Last(1)
    BY <1>3, <1>8
  <2>3. \A l \in 1 .. Last(1) : St(S, l)' # "up" /\ St(C, l)' # "up"
    BY <1>7
  <2>4. Con(S) \in 1 .. Last(1) => links'[1][Con(S)].st[S[2]] # "up"
    BY <2>3 DEF St
  <2>5. Last(1) \in 1 .. Last(1) => links'[1][Last(1)].st[C[2]] # "up"
    BY <2>3 DEF St
  <2>6. QED
    BY <1>2, <1>6, <2>1, <2>2, <2>4, <2>5 DEF St
<1>10. SocketInv'
  BY <1>2, <1>6, <1>7, <1>8, <1>9 DEF SocketInv
<1>11. QED
  BY <1>2, <1>5, <1>10

\* The client is in Ripristino, of its Connect or of a call.
LEMMA RecoveringFacts ==
    ASSUME TypesInv, Single(test), ProgramInv, Alive("c"), Recovering, Turn(C) = Len(Turns) + 1 => Pc(C) = "idle"
    PROVE  /\ Records = {1} /\ Cardinality(Records) = 1 /\ Turn(C) \in 1 .. Len(Turns)
           /\ \/ client.pc = "reconnect" /\ client.at = 1 /\ Pc(C) = "idle" /\ Turn(C) = 1
              \/ client.pc = "turns" /\ Pc(C) = "ripristino"
<1>1. Conns = {1} /\ Cardinality(Conns) = 1 /\ 1 .. 1 = {1} /\ Len(Turns) \in Nat \ {0}
  BY SoloFacts
<1>2. client.pc \in {"connect", "reconnect", "turns"}
  BY TypeFacts DEF Alive
<1>3. client.pc \in {"connect", "reconnect"} => client.at = 1 /\ Pc(C) = "idle" /\ Turn(C) = 1
  <2>1. client.pc \in {"connect", "reconnect"} => client.at = 1 /\ rec[<<1, "c">>].pc = "idle"
    BY <1>1 DEF TypesInv, ConnectInv
  <2>2. QED
    BY <2>1 DEF ProgramInv, Pc, C
<1>4. client.pc = "reconnect" \/ Pc(C) = "ripristino"
  BY <1>1 DEF Recovering, Pc, C
<1>5. Turn(C) \in 1 .. Len(Turns)
  <2>1. C \in {C, S}
    OBVIOUS
  <2>2. Turn(C) \in 1 .. Len(Turns) + 1
    BY <2>1, EndRecord
  <2>3. QED
    BY <1>1, <1>3, <1>4, <2>2
<1>6. Records = {1}
  BY <1>1, <1>3 DEF Records
<1>7. QED
  BY <1>1, <1>2, <1>3, <1>4, <1>5, <1>6

\* A client that has begun to reconnect, or has failed to, is on no connection that is up.
LEMMA RecoveringDown ==
    ASSUME TypesInv, Single(test), ProgramInv, SocketInv, Alive("c"), Recovering, ~ Fresh,
           Turn(C) = Len(Turns) + 1 => Pc(C) = "idle"
    PROVE  \A l \in 1 .. Last(1) : l = Last(1) /\ St(S, l) = "up" => In(C, l) = <<>>
<1> TAKE l \in 1 .. Last(1)
<1> HAVE l = Last(1) /\ St(S, l) = "up"
<1>1. client.pc = "reconnect" \/ Pc(C) = "ripristino"
  BY RecoveringFacts
<1>2. client.pc # "reconnect"
  BY SoloFacts DEF ProgramInv
<1>3. St(C, l) # "up"
  BY <1>1, <1>2 DEF SocketInv
<1>4. l > Con(S)
  BY <1>3 DEF SocketInv
<1>5. QED
  BY <1>4 DEF SocketInv

\* A client whose server has given up, as long as its record stays.
LEMMA LostStays ==
    ASSUME LostInv, UNCHANGED <<test, rec, server>>, ~ Fresh', Last(1)' = Last(1), Last(1) \in Nat,
           \A l \in 1 .. Last(1) : l = Last(1) => In(C, l)' = <<>> /\ St(C, l)' = "dead"
    PROVE  LostInv'
<1>1. /\ \A x \in {C, S} : /\ Con(x)' = Con(x) /\ Pc(x)' = Pc(x) /\ Turn(x)' = Turn(x)
                           /\ (Writes(x)' <=> Writes(x)) /\ (Reads(x)' <=> Reads(x))
      /\ Turns' = Turns
  BY SameEnds
<1>2. Last(1) > 0
  BY DEF LostInv
<1>3. In(C, Last(1))' = <<>> /\ St(C, Last(1))' = "dead"
  <2>1. Last(1) \in 1 .. Last(1)
    BY <1>2
  <2>2. links'[1][Last(1)].queue[C[2]] = <<>> /\ links'[1][Last(1)].st[C[2]] = "dead"
    BY <2>1 DEF In, St
  <2>3. QED
    BY <2>2 DEF In, St
<1>4. LastSafe' <=> LastSafe
  BY <1>1 DEF LastSafe
<1>5. QED
  BY <1>1, <1>3, <1>4 DEF LostInv

\* A Turn past the last is that of an end that has nothing left to call.
LEMMA AtRest ==
    ASSUME CoreInv \/ LostInv
    PROVE  Turn(C) = Len(Turns) + 1 => Pc(C) = "idle"
<1>1. CASE CoreInv
  <2>1. C \in {C, S}
    OBVIOUS
  <2>2. RecordInv(C)
    BY <1>1, <2>1, AtCore
  <2>3. QED
    BY <2>2 DEF RecordInv
<1>2. CASE LostInv
  BY <1>2 DEF LostInv
<1>3. QED
  BY <1>1, <1>2

\* The client's process ends or its record's connection is closed.
LEMMA SingleShut ==
    ASSUME TypesInv, Single(test), CoreInv \/ LostInv, UNCHANGED <<test, rec, server>>,
           Len(links'[1]) = Len(links[1]),
           \A l \in 1 .. Last(1) : links'[1][l] = IF l = Con(C) THEN Shut(links[1][l], "c") ELSE links[1][l],
           CoreInv => \A l \in 1 .. Last(1) : l = Last(1) /\ St(S, l) = "up" => In(C, l) = <<>>,
           Pc(C) \in {"idle", "ripristino"}, ~ Fresh, ~ Fresh'
    PROVE  Last(1)' = Last(1) /\ (CoreInv' \/ LostInv')
<1>1. C \in {C, S} /\ S = Peer(C) /\ C[2] = "c"
  BY PeerFacts
<1>2. Con(C) = Last(1) /\ Last(1) \in Nat
  BY <1>1, EndRecord, SoloFacts
<1>3. CASE CoreInv
  <2>1. Alive("s")' <=> Alive("s")
    BY DEF Alive
  <2>2. SocketInv
    BY <1>1, <1>3, AtCore
  <2>3. /\ SocketInv' /\ Last(1)' = Last(1)
        /\ \A l \in 1 .. Last(1) : In(S, l)' = In(S, l) /\ (l >= Con(C) => In(C, l)' = <<>>)
        /\ \A x \in {C, S} : \A l \in 1 .. Last(1) : St(x, l)' = "up" => St(x, l) = "up"
        /\ \A l \in 1 .. Last(1) : St(S, l)' = St(S, l) \/ St(S, l)' \in {"fin", "rst"}
    BY <1>3, <2>1, <2>2, ClientShut
  <2>4. (Sending(C)' => Sending(C)) /\ (Sending(S)' <=> Sending(S))
    <3>1. Pc(C)' = Pc(C) /\ Pc(S)' = Pc(S)
      BY DEF Pc
    <3>2. QED
      BY <3>1, PeerFacts DEF Sending
  <2>5. CoreInv'
    BY <1>1, <1>3, <2>3, <2>4, ShutCore
  <2>6. QED
    BY <2>3, <2>5
<1>4. CASE LostInv
  <2>1. /\ Last(1)' = Last(1)
        /\ \A l \in 1 .. Last(1) :
             /\ In(C, l)' = IF l = Con(C) THEN <<>> ELSE In(C, l)
             /\ St(C, l)' = IF l = Con(C) THEN "dead" ELSE St(C, l)
    BY <1>1, ClosedView
  <2>2. LostInv'
    BY <1>2, <1>4, <2>1, LostStays
  <2>3. QED
    BY <2>1, <2>2
<1>5. QED
  BY <1>3, <1>4

\* Exit of the client, on one connection.
LEMMA ClientExit ==
    ASSUME TypesInv, Single(test), Exit("c")
    PROVE  /\ Len(links'[1]) = Len(links[1])
           /\ \A l \in 1 .. Last(1) : links'[1][l] = IF l = Con(C) THEN Shut(links[1][l], "c") ELSE links[1][l]
<1>1. 1 \in Conns /\ "c" \in Ends /\ "c" # "s"
  BY SoloFacts DEF Ends
<1>2. QED
  BY <1>1, ExitFacts DEF Last, Con, C

\* The client has done its last turn.
LEMMA SingleClientDone ==
    ASSUME TypesInv, Single(test), SingleInv, ClientDone
    PROVE  SingleInv'
<1>1. /\ client.pc = "turns" /\ client.at > Len(test.order) /\ client' = [client EXCEPT !.pc = "ok"]
      /\ Exit("c") /\ UNCHANGED <<test, up, falls, rec, server, rip>>
  BY DEF ClientDone
<1>2. ProgramInv /\ (CoreInv \/ LostInv) /\ Len(test.order) = Len(Turns) /\ Len(Turns) \in Nat
  BY SoloFacts DEF SingleInv
<1>3. C \in {C, S} /\ S = Peer(C) /\ S \in {C, S}
  BY PeerFacts
<1>4. Turn(C) = Len(Turns) + 1
  <2>1. Turn(C) = client.at /\ Turn(C) \in 1 .. Len(Turns) + 1
    BY <1>1, <1>2, <1>3, EndRecord DEF ProgramInv
  <2>2. QED
    BY <1>1, <1>2, <2>1
<1>5. Pc(C) = "idle" /\ ~ Fresh
  <2>1. Pc(C) = "idle"
    BY <1>2, <1>4, AtRest
  <2>2. QED
    BY <1>1, <1>2, <2>1 DEF ProgramInv, Fresh
<1>6. Fresh' <=> Fresh
  BY <1>1 DEF Fresh
\* Everything sent to the client has been read.
<1>7. CoreInv => \A l \in 1 .. Last(1) : l = Last(1) /\ St(S, l) = "up" => In(C, l) = <<>>
  <2> HAVE CoreInv
  <2> TAKE l \in 1 .. Last(1)
  <2> HAVE l = Last(1) /\ St(S, l) = "up"
  <2>1. ~ Writes(C) /\ ~ Reads(C) /\ ~ Behind(C)
    <3>1. ~ Writes(C) /\ ~ Reads(C)
      BY <1>2, <1>3, <1>4, RoleFacts DEF WritesAt, ReadsAt
    <3>2. QED
      BY <3>1 DEF Behind
  <2>2. CarriesPacket(C, l) /\ Lead(C, l) = 0 /\ In(C, l) \in Seq(Int)
    <3>1. Con(C) = Last(1) /\ Last(1) \in Nat
      BY <1>3, EndRecord, SoloFacts
    <3>2. Carries(C, l)
      BY <1>3, <3>1, AtCore
    <3>3. QED
      BY <1>3, <2>1, <3>2, CarriesTypes DEF Carries, Lead, Due
  <2>3. ~ (Writes(S) /\ ~ Behind(S))
    <3>1. Even \/ Behind(C) \/ Behind(S)
      BY <1>3, AtCore, TurnFacts
    <3>2. Even => (Writes(S) <=> Reads(C))
      BY <1>3, AtCore, TurnFacts
    <3>3. QED
      BY <2>1, <3>1, <3>2
  <2>4. ~ (Len(In(C, l)) > 0)
    BY <1>3, <2>2, <2>3 DEF CarriesPacket
  <2>5. QED
    BY <2>2, <2>4
<1>8. Last(1)' = Last(1) /\ (CoreInv' \/ LostInv')
  BY <1>1, <1>2, <1>5, <1>6, <1>7, ClientExit, SingleShut
<1>9. ProgramInv'
  <2>1. client \in [pc : {"connect", "reconnect", "turns", "ok", "failed"}, at : Nat \ {0}]
    BY TypeFacts
  <2>2. client'.pc = "ok"
    BY <1>1, <2>1
  <2>3. \A x \in {C, S} : Con(x)' = Con(x) /\ Pc(x)' = Pc(x) /\ Turn(x)' = Turn(x)
    BY <1>1, SameEnds
  <2>4. Turns' = Turns
    BY <1>1 DEF Turns
  <2>5. QED
    BY <1>1, <1>2, <1>4, <1>8, <2>2, <2>3, <2>4 DEF ProgramInv
<1>10. QED
  BY <1>8, <1>9 DEF SingleInv

\* A pass of Ripristino fails.
LEMMA SinglePassFailed ==
    ASSUME TypesInv, Single(test), SingleInv, PassFailed
    PROVE  SingleInv'
<1>1. /\ Alive("c") /\ Recovering /\ rip.ris # 0 /\ rip' = NewPass(rip.n + 1) /\ UNCHANGED <<test, up, falls, rec, server>>
      /\ IF rip.n + 1 = MAX_TENTATIVI
         THEN client' = [client EXCEPT !.pc = "failed"] /\ Exit("c")
         ELSE UNCHANGED <<client, links>>
  BY DEF PassFailed
<1>2. ProgramInv /\ (CoreInv \/ LostInv)
  BY DEF SingleInv
<1>3. C \in {C, S} /\ S = Peer(C) /\ S \in {C, S}
  BY PeerFacts
<1>4. ~ Fresh /\ ~ Fresh' /\ rip'.at = 1 /\ rip'.ris = 0
  BY <1>1 DEF Fresh, NewPass
<1>5. Turn(C) = Len(Turns) + 1 => Pc(C) = "idle"
  BY <1>2, AtRest
<1>6. /\ Turn(C) \in 1 .. Len(Turns)
      /\ \/ client.pc = "reconnect" /\ client.at = 1 /\ Pc(C) = "idle" /\ Turn(C) = 1
         \/ client.pc = "turns" /\ Pc(C) = "ripristino"
  BY <1>1, <1>2, <1>5, RecoveringFacts
<1>7. /\ \A x \in {C, S} : Con(x)' = Con(x) /\ Pc(x)' = Pc(x) /\ Turn(x)' = Turn(x)
      /\ Turns' = Turns
  BY <1>1, SameEnds
<1>8. CASE rip.n + 1 # MAX_TENTATIVI
  <2>1. UNCHANGED <<client, links>>
    BY <1>1, <1>8
  <2>2. Last(1)' = Last(1) /\ \A x, l : In(x, l)' = In(x, l) /\ St(x, l)' = St(x, l)
    BY <2>1, KeepView
  <2>3. ProgramInv'
    BY <1>1, <1>2, <1>4, <1>7, <2>1, <2>2 DEF ProgramInv
  <2>4. CASE CoreInv
    <3>1. (Alive("c")' <=> Alive("c")) /\ (Alive("s")' <=> Alive("s"))
      BY <1>1, <2>1 DEF Alive
    <3>2. CoreInv'
      BY <1>1, <1>4, <2>1, <2>4, <3>1, CoreSame
    <3>3. QED
      BY <2>3, <3>2 DEF SingleInv
  <2>5. CASE LostInv
    <3>1. \A l \in 1 .. Last(1) : l = Last(1) => In(C, l) = <<>> /\ St(C, l) = "dead"
      BY <2>5 DEF LostInv
    <3>2. LostInv'
      BY <1>1, <1>4, <2>2, <2>5, <3>1, LostStays, SoloFacts
    <3>3. QED
      BY <2>3, <3>2 DEF SingleInv
  <2>6. QED
    BY <1>2, <2>4, <2>5
<1>9. CASE rip.n + 1 = MAX_TENTATIVI
  <2>1. client' = [client EXCEPT !.pc = "failed"] /\ Exit("c")
    BY <1>1, <1>9
  <2>2. CoreInv => \A l \in 1 .. Last(1) : l = Last(1) /\ St(S, l) = "up" => In(C, l) = <<>>
    BY <1>1, <1>2, <1>3, <1>4, <1>5, RecoveringDown, AtCore
  <2>3. Last(1)' = Last(1) /\ (CoreInv' \/ LostInv')
    BY <1>1, <1>2, <1>4, <1>6, <2>1, <2>2, ClientExit, SingleShut
  <2>4. client'.pc = "failed"
    <3>1. client \in [pc : {"connect", "reconnect", "turns", "ok", "failed"}, at : Nat \ {0}]
      BY TypeFacts
    <3>2. QED
      BY <2>1, <3>1
  <2>5. Turn(C)' \in DOMAIN Turns'
    BY <1>6, <1>7, TestFacts
  <2>6. ProgramInv'
    BY <1>1, <1>2, <1>4, <1>6, <1>7, <2>3, <2>4, <2>5 DEF ProgramInv
  <2>7. QED
    BY <2>3, <2>6 DEF SingleInv
<1>10. QED
  BY <1>8, <1>9

\* The client has closed its connection and opened the next, or its first.
LEMMA CoreOpen ==
    ASSUME TypesInv, Single(test), CoreInv, test' = test, rec'[S] = rec[S],
           Last(1)' = Last(1) + 1, Con(C)' = Last(1) + 1, Pc(C)' = Pc(C), Turn(C)' = Turn(C),
           rec'[C].checkpoint = rec[C].checkpoint, rec'[C].rd = rec[C].rd, rec'[C].lastid = rec[C].lastid,
           rec'[C].quota = rec[C].quota,
           Pc(C) \in {"idle", "ripristino"}, Pc(C) = "ripristino" => Fresh',
           Alive("c")', Alive("s")', Alive("s"),
           \A x \in {C, S} : \A l : l = Last(1) + 1 => In(x, l)' = <<>> /\ St(x, l)' = "up",
           \A l \in 1 .. Last(1) : /\ In(S, l)' = In(S, l) /\ In(C, l)' = <<>>
                                   /\ St(C, l)' = "dead" /\ St(S, l)' \notin {"up", "rst"}
                                   /\ St(S, l) \in {"up", "fin"} => St(S, l)' = "fin"
    PROVE  CoreInv'
<1>1. C \in {C, S} /\ S \in {C, S} /\ S = Peer(C) /\ C = Peer(S) /\ C # S
  BY PeerFacts
<1>2. Con(C) = Last(1) /\ Con(S) \in 0 .. Last(1) /\ Last(1) \in Nat
  BY <1>1, EndRecord, SoloFacts
<1>3. Con(S)' = Con(S) /\ Pc(S)' = Pc(S) /\ Turn(S)' = Turn(S)
  BY DEF Con, Pc, Turn
<1>4. \A x \in {C, S} : /\ (Writes(x)' <=> Writes(x)) /\ (Reads(x)' <=> Reads(x)) /\ (OnLast(x)' <=> OnLast(x))
                        /\ Current(x)' = Current(x) /\ rec'[x].rd = rec[x].rd /\ rec'[x].checkpoint = rec[x].checkpoint
                        /\ Pc(x)' = Pc(x) /\ Turn(x)' = Turn(x) /\ rec'[x].lastid = rec[x].lastid
                        /\ rec'[x].quota = rec[x].quota
  BY <1>3, RoleSame
<1>5. Turns' = Turns
  BY DEF Turns
<1>6. /\ ~ Behind(C) /\ ~ Behind(C)' /\ ~ Due(C) /\ ~ Due(C)' /\ (Behind(S)' <=> Behind(S)) /\ (Due(S)' <=> Due(S))
      /\ (Even' <=> Even)
  BY <1>1, <1>4, <1>5 DEF Behind, Due, Even
<1>7. SocketInv /\ TurnInv /\ RecordInv(C) /\ RecordInv(S) /\ HoldInv(S)
  BY <1>1, AtCore
<1>8. /\ Con(S) = 0 => Pc(S) = "idle" /\ Turn(S) = 1
      /\ Last(1) = 0 => Pc(C) = "idle" /\ Turn(C) = 1
  BY <1>7 DEF SocketInv
<1>9. \A l \in 1 .. Last(1)' : l \in 1 .. Last(1) \/ l = Last(1) + 1
  BY <1>2
<1>10. SocketInv'
  <2>1. ASSUME NEW l \in 1 .. Last(1)'
        PROVE  /\ St(S, l)' # "rst"
               /\ St(C, l)' = "up" => St(S, l)' = "up"
               /\ St(S, l)' = "up" => St(C, l)' = "up"
               /\ St(C, l)' # "rst"
               /\ l < Last(1)' => St(C, l)' = "dead" /\ St(S, l)' # "up"
               /\ In(C, l)' = <<>>
    <3>1. CASE l \in 1 .. Last(1)
      BY <3>1
    <3>2. CASE l = Last(1) + 1
      <4>1. St(C, l)' = "up" /\ St(S, l)' = "up" /\ In(C, l)' = <<>>
        BY <1>1, <3>2
      <4>2. ~ (l < Last(1)')
        BY <1>2, <3>2
      <4>3. QED
        BY <4>1, <4>2
    <3>3. QED
      BY <1>9, <3>1, <3>2
  <2>2. Pc(S) \in {"ripristino", "failed"} => St(S, Con(S))' # "up"
    <3>1. Pc(S) \in {"ripristino", "failed"} => Con(S) \in 1 .. Last(1)
      BY <1>2, <1>8
    <3>2. Con(S) \in 1 .. Last(1) => links'[1][Con(S)].st[S[2]] # "up"
      BY DEF St
    <3>3. QED
      BY <1>3, <3>1, <3>2 DEF St
  <2>3. Last(1)' # 0
    BY <1>2
  <2>4. QED
    BY <1>3, <1>8, <2>1, <2>2, <2>3 DEF SocketInv
<1>11. TurnInv'
  <2>1. CASE Even
    <3>1. \A x \in {C, S} : Writes(x) =>
            /\ rec[Peer(x)].rd \in {rec[x].checkpoint, rec[x].checkpoint + 1}
            /\ rec[x].checkpoint < Turns[Turn(x)]
      BY <1>7, <2>1, TurnFacts
    <3>2. QED
      BY <1>1, <1>4, <1>5, <1>6, <2>1, <3>1 DEF TurnInv
  <2>2. CASE Behind(S)
    <3>1. rec[C].checkpoint = 0
      BY <1>1, <1>7, <2>2, TurnFacts
    <3>2. Behind(S)' /\ rec'[Peer(S)].checkpoint = 0
      BY <1>1, <1>6, <2>2, <3>1
    <3>3. QED
      BY <1>1, <3>2 DEF TurnInv
  <2>3. QED
    BY <1>1, <1>6, <1>7, <2>1, <2>2, TurnFacts
<1>12. RecordInv(C)' /\ RecordInv(S)'
  <2>1. RecordInv(C)'
    BY <1>4, <1>5, <1>7 DEF RecordInv
  <2>2. RecordInv(S)'
    BY <1>4, <1>5, <1>7 DEF RecordInv
  <2>3. QED
    BY <2>1, <2>2
<1>13. HoldInv(C)' /\ HoldInv(S)'
  <2>1. HoldInv(C)'
    BY DEF HoldInv, Holds
  <2>2. Holds(S)' <=> Holds(S)
    BY <1>1, <1>4 DEF Holds
  <2>3. Holds(S) => In(S, Con(S))' = In(S, Con(S))
    <3>1. Holds(S) => Con(S) \in 1 .. Last(1)
      BY <1>2, <1>8 DEF Holds
    <3>2. Con(S) \in 1 .. Last(1) => links'[1][Con(S)].queue[S[2]] = In(S, Con(S))
      BY DEF In
    <3>3. QED
      BY <1>3, <3>1, <3>2 DEF In
  <2>4. Con(C)' # Con(S)'
    BY <1>2, <1>3
  <2>5. ~ (Pc(S) = "take" /\ OnLast(C))
    BY <1>1, <1>7 DEF HoldInv
  <2>8. Pc(S) = "take" => St(S, Con(S))' \in {"up", "fin"}
    <3>1. Pc(S) = "take" => St(S, Con(S)) \in {"up", "fin"} /\ Con(S) \in 1 .. Last(1)
      BY <1>2, <1>7, <1>8 DEF HoldInv
    <3>2. Pc(S) = "take" => links'[1][Con(S)].st[S[2]] \in {"up", "fin"}
      BY <3>1 DEF St
    <3>3. QED
      BY <1>3, <3>2 DEF St
  <2>6. HoldInv(S)'
    BY <1>1, <1>3, <1>4, <1>6, <1>7, <2>2, <2>3, <2>4, <2>5, <2>8 DEF HoldInv
  <2>7. QED
    BY <2>1, <2>6
<1>14. \A l \in 1 .. Last(1)' : l >= Con(C)' => Carries(C, l)'
  <2> TAKE l \in 1 .. Last(1)'
  <2> HAVE l >= Con(C)'
  <2>1. l = Last(1) + 1
    BY <1>2, <1>9
  <2>2. In(C, l)' = <<>> /\ Lead(C, l)' = 0
    BY <1>1, <1>6, <2>1 DEF Lead
  <2>3. QED
    BY <2>2 DEF Carries, CarriesAck, CarriesPacket, DIM
<1>15. \A l \in 1 .. Last(1)' : l >= Con(S)' => Carries(S, l)'
  <2> TAKE l \in 1 .. Last(1)'
  <2> HAVE l >= Con(S)'
  <2>1. CASE l = Last(1) + 1
    <3>1. In(S, l)' = <<>>
      BY <1>1, <2>1
    <3>2. Lead(S, l)' = 0
      BY <1>2, <1>3, <2>1 DEF Lead
    <3>3. QED
      BY <3>1, <3>2 DEF Carries, CarriesAck, CarriesPacket, DIM
  <2>2. CASE l \in 1 .. Last(1)
    <3>1. Carries(S, l) /\ In(S, l) \in Seq(Int)
      BY <1>1, <1>3, <2>2, AtCore, CarriesTypes
    <3>2. In(S, l)' = In(S, l) /\ In(C, l)' = <<>> /\ St(S, l)' # "up"
      BY <2>2
    <3>3. Lead(S, l)' = Lead(S, l)
      BY <1>3, <1>6 DEF Lead
    <3>4. CASE Writes(S) /\ Even
      <4>1. CarriesAck(S, l)
        BY <3>1, <3>4 DEF Carries
      <4>2. CarriesAck(S, l)'
        <5>1. In(S, l) # <<>> => Pc(S) = "ack"
          BY <4>1 DEF CarriesAck
        <5>2. Pc(C)' \notin {"take", "dup"}
          OBVIOUS
        <5>3. QED
          BY <1>1, <1>3, <1>4, <3>2, <4>1, <5>1, <5>2, AckFrame
      <4>3. QED
        BY <1>1, <1>4, <1>6, <3>4, <4>2 DEF Carries
    <3>5. CASE ~ (Writes(S) /\ Even)
      <4>1. CarriesPacket(S, l)
        BY <3>1, <3>5 DEF Carries
      <4>2. Len(In(S, l)) > Lead(S, l) => Writes(C)
        BY <1>1, <4>1 DEF CarriesPacket
      <4>3. l <= Con(C)' /\ l # Con(C)'
        BY <1>2, <2>2
      <4>6. Len(In(S, l)) > Lead(S, l) => St(S, l)' \in {"up", "fin"}
        BY <2>2, <4>1 DEF CarriesPacket
      <4>4. CarriesPacket(S, l)'
        BY <1>1, <1>4, <1>6, <3>1, <3>2, <3>3, <4>1, <4>2, <4>3, <4>6, PacketFrame
      <4>5. QED
        BY <1>1, <1>4, <1>6, <3>5, <4>4 DEF Carries
    <3>6. QED
      BY <3>4, <3>5
  <2>3. QED
    BY <1>9, <2>1, <2>2
<1>16. QED
  BY <1>10, <1>11, <1>12, <1>13, <1>14, <1>15 DEF CoreInv

\* A connect of the client that succeeds.
LEMMA OpenView ==
    ASSUME TypesInv, Single(test), NEW before \in Seq(LinkStates), Len(before) = Last(1), Connected(1, before)
    PROVE  /\ Last(1)' = Last(1) + 1 /\ Con(C)' = Last(1) + 1 /\ Pc(C)' = Pc(C) /\ Turn(C)' = Turn(C)
           /\ rec'[S] = rec[S] /\ Con(S)' = Con(S) /\ Pc(S)' = Pc(S) /\ Turn(S)' = Turn(S)
           /\ rec'[C].checkpoint = rec[C].checkpoint /\ rec'[C].rd = rec[C].rd /\ rec'[C].lastid = rec[C].lastid /\ rec'[C].quota = rec[C].quota
           /\ \A l \in 1 .. Last(1) : links'[1][l] = before[l]
           /\ \A x \in {C, S} : \A l : l = Last(1) + 1 => In(x, l)' = <<>> /\ St(x, l)' = "up"
<1>1. 1 \in Conns /\ Points = {C, S} /\ Len(before) = Len(links[1]) /\ Last(1) = Len(links[1]) /\ Last(1) \in Nat
  BY SoloFacts
<1>2. C = <<1, "c">> /\ S \in Points /\ S # <<1, "c">> /\ \A x \in {C, S} : x[2] \in Ends
  BY <1>1, PeerFacts DEF C
<1>3. /\ links'[1] = Append(before, NewLink) /\ Len(links'[1]) = Len(links[1]) + 1
      /\ \A p \in Points : p # <<1, "c">> => rec'[p] = rec[p]
      /\ rec'[C].con = Len(links[1]) + 1 /\ rec'[C].turn = rec[C].turn /\ rec'[C].pc = rec[C].pc
      /\ rec'[C].checkpoint = rec[C].checkpoint /\ rec'[C].rd = rec[C].rd /\ rec'[C].lastid = rec[C].lastid /\ rec'[C].quota = rec[C].quota
  BY <1>1, <1>2, ConnectedFacts
<1>4. NewLink \in LinkStates
  BY NewLinkState
<1>5. /\ \A l \in 1 .. Last(1) : links'[1][l] = before[l]
      /\ links'[1][Last(1) + 1] = NewLink
  BY <1>1, <1>3, <1>4
<1>6. \A x \in {C, S} : NewLink.queue[x[2]] = <<>> /\ NewLink.st[x[2]] = "up"
  BY <1>2 DEF NewLink
<1>7. \A x \in {C, S} : \A l : l = Last(1) + 1 => In(x, l)' = <<>> /\ St(x, l)' = "up"
  BY <1>5, <1>6 DEF In, St
<1>8. rec'[S] = rec[S]
  BY <1>2, <1>3
<1>9. Last(1)' = Last(1) + 1
  BY <1>1, <1>3 DEF Last
<1>10. QED
  BY <1>1, <1>3, <1>5, <1>7, <1>8, <1>9 DEF Con, Pc, Turn

\* Connect.
LEMMA SingleConnect ==
    ASSUME TypesInv, Single(test), SingleInv, Connect
    PROVE  SingleInv'
<1>1. client.pc = "connect" /\ UNCHANGED <<test, up, falls, server, rip>>
  BY DEF Connect
<1>2. Conns = {1} /\ Cardinality(Conns) = 1 /\ links[1] \in Seq(LinkStates) /\ Last(1) = Len(links[1])
  BY SoloFacts
<1>3. client.at = 1 /\ Last(1) = 0
  <2>1. client.at \in Conns
    BY <1>1 DEF TypesInv, ConnectInv
  <2>2. client.at = 1
    BY <1>2, <2>1
  <2>3. links[1] = <<>>
    BY <1>1, <1>2, <2>2 DEF TypesInv, ConnectInv
  <2>4. QED
    BY <1>2, <2>2, <2>3
<1>4. ProgramInv /\ CoreInv
  BY <1>3 DEF SingleInv, LostInv
<1>5. Pc(C) = "idle" /\ Turn(C) = 1 /\ rip.at = 1 /\ rip.ris = 0
  BY <1>1, <1>3, <1>4 DEF CoreInv, SocketInv, ProgramInv
<1>6. CASE Reachable(1)
  <2>1. Connected(1, <<>>) /\ client' = [pc |-> "turns", at |-> 1]
    BY <1>2, <1>3, <1>6 DEF Connect, AfterConnect
  <2>2. <<>> \in Seq(LinkStates) /\ Len(<<>>) = Last(1)
    BY <1>3
  <2>3. /\ Last(1)' = Last(1) + 1 /\ Con(C)' = Last(1) + 1 /\ Pc(C)' = Pc(C) /\ Turn(C)' = Turn(C)
        /\ rec'[S] = rec[S] /\ Con(S)' = Con(S) /\ Pc(S)' = Pc(S) /\ Turn(S)' = Turn(S)
        /\ rec'[C].checkpoint = rec[C].checkpoint /\ rec'[C].rd = rec[C].rd /\ rec'[C].lastid = rec[C].lastid /\ rec'[C].quota = rec[C].quota
        /\ \A x \in {C, S} : \A l : l = Last(1) + 1 => In(x, l)' = <<>> /\ St(x, l)' = "up"
    BY <2>1, <2>2, OpenView
  <2>4. Alive("s") /\ Alive("s")' /\ Alive("c")'
    BY <1>1, <1>6, <2>1 DEF Reachable, Alive
  <2>5. CoreInv'
    BY <1>1, <1>3, <1>4, <1>5, <2>3, <2>4, CoreOpen
  <2>6. ProgramInv'
    BY <1>1, <1>4, <1>5, <2>1, <2>3, PeerFacts DEF ProgramInv, Turns
  <2>7. QED
    BY <2>5, <2>6 DEF SingleInv
<1>7. CASE ~ Reachable(1)
  <2>1. client' = [client EXCEPT !.pc = "reconnect"] /\ UNCHANGED <<links, rec>>
    BY <1>3, <1>7 DEF Connect
  <2>2. client'.pc = "reconnect"
    <3>1. client \in [pc : {"connect", "reconnect", "turns", "ok", "failed"}, at : Nat \ {0}]
      BY TypeFacts
    <3>2. QED
      BY <2>1, <3>1
  <2>3. (Alive("c")' <=> Alive("c")) /\ (Alive("s")' <=> Alive("s"))
    BY <1>1, <2>2 DEF Alive
  <2>4. CoreInv'
    BY <1>1, <1>4, <1>5, <2>1, <2>3, CoreSame
  <2>5. /\ \A x \in {C, S} : Con(x)' = Con(x) /\ Pc(x)' = Pc(x) /\ Turn(x)' = Turn(x)
        /\ Turns' = Turns /\ Last(1)' = Last(1)
    BY <1>1, <2>1, SameEnds, KeepView
  <2>6. ProgramInv'
    BY <1>1, <1>3, <1>4, <1>5, <2>2, <2>5 DEF ProgramInv
  <2>7. QED
    BY <2>4, <2>6 DEF SingleInv
<1>8. QED
  BY <1>6, <1>7

\* A reconnect: what the client's record was on is closed, and when the server
\* is there it is on a connection opened for it.
LEMMA SingleReConnect ==
    ASSUME TypesInv, Single(test), SingleInv, NEW k \in Conns, ReConnect(k)
    PROVE  SingleInv'
<1>1. Conns = {1} /\ k = 1 /\ links[1] \in Seq(LinkStates) /\ Last(1) = Len(links[1]) /\ Last(1) \in Nat
  BY SoloFacts
<1>2. /\ Alive("c") /\ Recovering /\ rip.at = 1 /\ UNCHANGED <<test, up, falls, client, server>>
  BY <1>1 DEF ReConnect
<1>3. ProgramInv /\ (CoreInv \/ LostInv)
  BY DEF SingleInv
<1>4. C \in {C, S} /\ S = Peer(C) /\ S \in {C, S} /\ C = <<1, "c">> /\ C[1] = 1 /\ C[2] = "c" /\ C \in Points
  BY PeerFacts, SoloFacts DEF C
<1>5. ~ Fresh /\ rip.ris = 0
  BY <1>2, <1>3 DEF Fresh, ProgramInv
<1>6. Turn(C) = Len(Turns) + 1 => Pc(C) = "idle"
  BY <1>3, AtRest
<1>7. /\ Turn(C) \in 1 .. Len(Turns)
      /\ \/ client.pc = "reconnect" /\ client.at = 1 /\ Pc(C) = "idle" /\ Turn(C) = 1
         \/ client.pc = "turns" /\ Pc(C) = "ripristino"
  BY <1>2, <1>3, <1>6, RecoveringFacts
<1>8. rip \in [at : 1 .. (Cardinality(Conns) + 1), ris : {0, -1}, n : 0 .. MAX_TENTATIVI]
  BY TypeFacts
<1>9. Con(C) = Last(1) /\ Con(S) \in 0 .. Last(1)
  BY <1>4, EndRecord
<1>10. CoreInv => \A l \in 1 .. Last(1) : l = Last(1) /\ St(S, l) = "up" => In(C, l) = <<>>
  BY <1>2, <1>3, <1>4, <1>5, <1>6, RecoveringDown, AtCore
<1>11. /\ Closed(C) \in Seq(LinkStates) /\ Len(Closed(C)) = Last(1)
       /\ \A l \in 1 .. Last(1) : Closed(C)[l] = IF l = Con(C) THEN Shut(links[1][l], "c") ELSE links[1][l]
  <2>1. links \in [Conns -> Seq(LinkStates)]
    BY TypeFacts
  <2>2. QED
    BY <1>1, <1>4, <2>1, ClosedFacts DEF Con
<1>12. CASE Reachable(1)
  <2>1. Connected(1, Closed(C)) /\ rip' = [rip EXCEPT !.at = @ + 1]
    BY <1>1, <1>4, <1>12 DEF ReConnect
  <2>2. rip'.at = 2 /\ rip'.ris = 0 /\ Fresh'
    BY <1>2, <1>5, <1>8, <2>1 DEF Fresh
  <2>3. Alive("s") /\ Alive("s")' /\ Alive("c")'
    BY <1>2, <1>12 DEF Reachable, Alive
  <2>4. CoreInv
    BY <1>3, <2>3 DEF LostInv, Alive
  <2>5. /\ Last(1)' = Last(1) + 1 /\ Con(C)' = Last(1) + 1 /\ Pc(C)' = Pc(C) /\ Turn(C)' = Turn(C)
        /\ rec'[S] = rec[S] /\ Con(S)' = Con(S) /\ Pc(S)' = Pc(S) /\ Turn(S)' = Turn(S)
        /\ rec'[C].checkpoint = rec[C].checkpoint /\ rec'[C].rd = rec[C].rd /\ rec'[C].lastid = rec[C].lastid /\ rec'[C].quota = rec[C].quota
        /\ \A l \in 1 .. Last(1) : links'[1][l] = Closed(C)[l]
        /\ \A x \in {C, S} : \A l : l = Last(1) + 1 => In(x, l)' = <<>> /\ St(x, l)' = "up"
    BY <1>11, <2>1, OpenView
  <2>6. \A l \in 1 .. Last(1) : /\ In(S, l)' = In(S, l) /\ In(C, l)' = <<>>
                                /\ St(C, l)' = "dead" /\ St(S, l)' \notin {"up", "rst"}
                                /\ St(S, l) \in {"up", "fin"} => St(S, l)' = "fin"
    <3> TAKE l \in 1 .. Last(1)
    <3>1. links[1][l] \in LinkStates
      BY <1>1
    <3>2. links'[1][l] = IF l = Last(1) THEN Shut(links[1][l], "c") ELSE links[1][l]
      BY <1>9, <1>11, <2>5
    <3>3. SocketInv
      BY <2>4 DEF CoreInv
    <3>4. CASE l = Last(1)
      <4>1. links'[1][l] = Shut(links[1][l], "c") /\ "c" \in Ends /\ Other("c") = "s"
        BY <3>2, <3>4, EndFacts
      <4>2. /\ links'[1][l].queue["c"] = <<>> /\ links'[1][l].queue["s"] = links[1][l].queue["s"]
            /\ links'[1][l].st["c"] = "dead"
            /\ links'[1][l].st["s"] = (IF links[1][l].st["s"] # "up" THEN links[1][l].st["s"]
                                       ELSE IF links[1][l].queue["c"] = <<>> THEN "fin" ELSE "rst")
        BY <3>1, <4>1, ShutParts
      <4>3. /\ In(C, l)' = <<>> /\ In(S, l)' = In(S, l) /\ St(C, l)' = "dead"
            /\ St(S, l)' = (IF St(S, l) # "up" THEN St(S, l) ELSE IF In(C, l) = <<>> THEN "fin" ELSE "rst")
        BY <4>2, PeerFacts DEF In, St
      <4>4. St(S, l) # "rst" /\ (St(S, l) = "up" => In(C, l) = <<>>)
        BY <1>10, <2>4, <3>3, <3>4 DEF SocketInv
      <4>5. QED
        BY <4>3, <4>4
    <3>5. CASE l # Last(1)
      <4>1. links'[1][l] = links[1][l]
        BY <3>2, <3>5
      <4>2. In(S, l)' = In(S, l) /\ In(C, l)' = In(C, l) /\ St(C, l)' = St(C, l) /\ St(S, l)' = St(S, l)
        BY <4>1 DEF In, St
      <4>3. l < Last(1)
        BY <1>1, <3>5
      <4>4. QED
        BY <3>3, <4>2, <4>3 DEF SocketInv
    <3>6. QED
      BY <3>4, <3>5
  <2>7. CoreInv'
    BY <1>2, <1>7, <2>2, <2>3, <2>4, <2>5, <2>6, CoreOpen
  <2>8. ProgramInv'
    BY <1>2, <1>3, <1>7, <2>2, <2>5 DEF ProgramInv, Turns
  <2>9. QED
    BY <2>7, <2>8 DEF SingleInv
<1>13. CASE ~ Reachable(1)
  <2>1. links' = [links EXCEPT ![1] = Closed(C)] /\ rip' = [rip EXCEPT !.at = @ + 1, !.ris = -1] /\ UNCHANGED rec
    BY <1>1, <1>4, <1>13 DEF ReConnect
  <2>2. rip'.at = 2 /\ rip'.ris = -1 /\ ~ Fresh'
    BY <1>2, <1>8, <2>1 DEF Fresh
  <2>3. links'[1] = Closed(C)
    <3>1. links \in [Conns -> Seq(LinkStates)] /\ 1 \in Conns
      BY <1>1, TypeFacts
    <3>2. QED
      BY <2>1, <3>1
  <2>4. Last(1)' = Last(1) /\ (CoreInv' \/ LostInv')
    BY <1>1, <1>2, <1>3, <1>5, <1>7, <1>10, <1>11, <2>1, <2>2, <2>3, SingleShut
  <2>5. /\ \A x \in {C, S} : Con(x)' = Con(x) /\ Pc(x)' = Pc(x) /\ Turn(x)' = Turn(x)
        /\ Turns' = Turns
    BY <1>2, <2>1, SameEnds
  <2>6. ProgramInv'
    BY <1>2, <1>3, <1>5, <1>7, <2>2, <2>4, <2>5 DEF ProgramInv
  <2>7. QED
    BY <2>4, <2>6 DEF SingleInv
<1>14. QED
  BY <1>12, <1>13

\* Ripristino has returned 0.
LEMMA SingleRecovered ==
    ASSUME TypesInv, Single(test), SingleInv, Recovered
    PROVE  SingleInv'
<1>1. /\ Alive("c") /\ Recovering /\ rip.at = Cardinality(Records) + 1 /\ rip.ris = 0 /\ rip' = NewPass(0)
      /\ UNCHANGED <<test, links, up, falls, server>>
      /\ client.pc = "reconnect" => client' = AfterConnect /\ rec' = rec
      /\ client.pc = "turns" =>
           /\ client' = client
           /\ \E k \in Conns : rec[<<k, "c">>].pc = "ripristino" /\ rec' = [rec EXCEPT ![<<k, "c">>] = Resume(<<k, "c">>)]
  BY RecoveredFacts DEF Recovered
<1>2. ProgramInv /\ (CoreInv \/ LostInv)
  BY DEF SingleInv
<1>3. Turn(C) = Len(Turns) + 1 => Pc(C) = "idle"
  BY <1>2, AtRest
<1>4. /\ Cardinality(Records) = 1 /\ Turn(C) \in 1 .. Len(Turns)
      /\ \/ client.pc = "reconnect" /\ client.at = 1 /\ Pc(C) = "idle" /\ Turn(C) = 1
         \/ client.pc = "turns" /\ Pc(C) = "ripristino"
  BY <1>1, <1>2, <1>3, RecoveringFacts
<1>5. Fresh /\ rip'.at = 1 /\ rip'.ris = 0 /\ ~ Fresh'
  BY <1>1, <1>4 DEF Fresh, NewPass
<1>6. CoreInv
  BY <1>2, <1>5 DEF LostInv
<1>7. C \in {C, S} /\ S \in {C, S} /\ S = Peer(C) /\ C # S /\ C = <<1, "c">> /\ Conns = {1} /\ C \in Points /\ Cardinality(Conns) = 1
  BY PeerFacts, SoloFacts DEF C
<1>8. Last(1)' = Last(1) /\ \A x, l : In(x, l)' = In(x, l) /\ St(x, l)' = St(x, l)
  BY <1>1, KeepView
<1>9. CASE client.pc = "reconnect"
  <2>1. client' = [pc |-> "turns", at |-> 1] /\ rec' = rec
    BY <1>1, <1>4, <1>7, <1>9 DEF AfterConnect
  <2>2. (Alive("c")' <=> Alive("c")) /\ (Alive("s")' <=> Alive("s"))
    BY <1>1, <2>1 DEF Alive
  <2>3. CoreInv'
    BY <1>1, <1>4, <1>6, <1>9, <2>1, <2>2, CoreSame
  <2>4. /\ \A x \in {C, S} : Con(x)' = Con(x) /\ Pc(x)' = Pc(x) /\ Turn(x)' = Turn(x)
        /\ Turns' = Turns
    BY <1>1, <2>1, SameEnds
  <2>5. ProgramInv'
    BY <1>1, <1>2, <1>4, <1>5, <1>8, <1>9, <2>1, <2>4 DEF ProgramInv
  <2>6. QED
    BY <2>3, <2>5 DEF SingleInv
<1>10. CASE client.pc = "turns"
  <2>1. client' = client /\ rec' = [rec EXCEPT ![C] = Resume(C)] /\ Pc(C) = "ripristino"
    BY <1>1, <1>4, <1>7, <1>10
  <2>2. rec \in [Points -> RecordStates]
    BY TypeFacts
  <2>3. /\ Con(C)' = Con(C) /\ Turn(C)' = Turn(C) /\ rec'[C].checkpoint = rec[C].checkpoint /\ rec'[C].rd = rec[C].rd
        /\ rec'[C].lastid = rec[C].lastid /\ rec'[C].quota = 0 /\ rec[C].quota = 0 /\ rec'[C].ack = 0
        /\ Pc(C)' = IF Writes(C) THEN "send" ELSE "idle"
    <3>0. rec[C].quota = 0
      BY <1>6, <1>7, <2>1, AtCore DEF RecordInv
    <3>1. rec'[C] = Resume(C)
      BY <1>7, <2>1, <2>2
    <3>2. LET r == Resume(C) IN
          /\ r.con = rec[C].con /\ r.turn = rec[C].turn /\ r.checkpoint = rec[C].checkpoint
          /\ r.pc = (IF Writes(C) THEN "send" ELSE "idle") /\ r.ack = 0
          /\ r.rd = rec[C].rd /\ r.lastid = rec[C].lastid /\ r.quota = 0
      BY <1>7, <3>0, ResumeRecord DEF ReadFrom
    <3>3. QED
      BY <3>0, <3>1, <3>2 DEF Con, Turn, Pc
  <2>4. rec'[S] = rec[S] /\ Con(S)' = Con(S) /\ Pc(S)' = Pc(S) /\ Turn(S)' = Turn(S)
    BY <1>7, <2>1, <2>2, SoloFacts DEF Con, Pc, Turn
  <2>5. (Alive("c")' <=> Alive("c")) /\ (Alive("s")' <=> Alive("s")) /\ Turns' = Turns
    BY <1>1, <2>1 DEF Alive, Turns
  <2>6. Kept(C)
    BY <2>3 DEF Kept, SameTurn
  <2>7. ~ Behind(C) /\ ~ Behind(C)' /\ ~ Due(C) /\ ~ Due(C)'
    <3>1. ~ Behind(C)
      BY <2>1 DEF Behind
    <3>2. Turn(S) # Turn(C) + 1
      BY <1>6, <1>7, <3>1, NotBehind
    <3>3. ~ Behind(C)'
      BY <1>7, <2>3, <2>4, <3>2 DEF Behind
    <3>4. QED
      BY <3>1, <3>3 DEF Due
  <2>8. Sending(C) /\ (Sending(S)' <=> Sending(S))
    BY <1>5, <1>7, <2>1, <2>4 DEF Sending
  <2>9. SocketInv'
    <3>1. SocketInv
      BY <1>6 DEF CoreInv
    <3>2. Last(1) # 0
      <4>1. links[1] # <<>>
        BY <1>7, <1>10 DEF TypesInv, ConnectInv
      <4>2. QED
        BY <4>1, SoloFacts
    <3>3. Pc(C)' # "ripristino"
      BY <2>3
    <3>4. \A l : In(C, l)' = In(C, l) /\ St(C, l)' = St(C, l) /\ In(S, l)' = In(S, l) /\ St(S, l)' = St(S, l)
      BY <1>8
    <3>5. Pc(S) \in {"ripristino", "failed"} => links'[1][Con(S)].st[S[2]] # "up"
      BY <3>1, <1>1 DEF SocketInv, St
    <3>6. \A l \in 1 .. Last(1)' :
            /\ St(S, l)' # "rst"
            /\ St(C, l)' = "up" => St(S, l)' = "up" /\ Alive("c")' /\ Alive("s")'
            /\ St(S, l)' = "up" => St(C, l)' = "up" \/ (~ Alive("s")' /\ l > Con(S)')
            /\ St(C, l)' = "rst" => ~ Alive("s")' /\ l > Con(S)'
            /\ l < Last(1)' => St(C, l)' = "dead" /\ St(S, l)' # "up"
            /\ l < Last(1)' \/ l > Con(S)' => In(C, l)' = <<>>
            /\ ~ Alive("s")' /\ l >= Con(S)' => In(S, l)' = <<>>
      BY <1>8, <2>4, <2>5, <3>1, <3>4 DEF SocketInv
    <3>7. /\ Con(S)' = 0 => Pc(S)' = "idle" /\ Turn(S)' = 1
          /\ Last(1)' = 0 => Pc(C)' = "idle" /\ Turn(C)' = 1
          /\ Pc(S)' \in {"ripristino", "failed"} => links'[1][Con(S)'].st[S[2]] # "up"
          /\ ~ (Pc(C)' = "ripristino")
      BY <1>8, <2>4, <3>1, <3>2, <3>3, <3>5 DEF SocketInv
    <3>8. QED
      BY <3>6, <3>7 DEF SocketInv, St
  <2>10. RecordInv(C)' /\ HoldInv(C)'
    <3>1. RecordInv(C) /\ rec[C].checkpoint \in Nat
      BY <1>6, <1>7, AtCore, EndRecord
    <3>2. (Writes(C)' <=> Writes(C))
      BY <1>1, <1>7, <2>3, RoleSame
    <3>3. Pc(C)' \in {"send", "idle"} /\ (Pc(C)' = "idle" => ~ Writes(C))
      BY <2>3
    <3>4. RecordInv(C)'
      BY <1>4, <2>3, <2>5, <3>1, <3>2, <3>3, SoloFacts DEF RecordInv
    <3>5. HoldInv(C)'
      BY <3>3 DEF HoldInv, Holds
    <3>6. QED
      BY <3>4, <3>5
  <2>11. CoreInv'
    BY <1>1, <1>6, <1>7, <1>8, <2>1, <2>3, <2>4, <2>6, <2>7, <2>8, <2>9, <2>10, QuietStep DEF Kept
  <2>12. ProgramInv'
    BY <1>1, <1>2, <1>5, <1>8, <1>10, <2>1, <2>3, <2>4, <2>5 DEF ProgramInv
  <2>13. QED
    BY <2>11, <2>12 DEF SingleInv
<1>11. QED
  BY <1>4, <1>9, <1>10

\* The parts of CoreInv that hold of a server that has not called yet.
LEMMA Unaccepted ==
    ASSUME TypesInv, Single(test), CoreInv, Con(S) = 0
    PROVE  /\ Even /\ Turn(C) = 1 /\ Turn(S) = 1 /\ Pc(S) = "idle"
           /\ \A x \in {C, S} : ~ Behind(x) /\ \A l : Lead(x, l) = 0
           /\ \A l \in 1 .. Last(1) : In(C, l) = <<>>
           /\ Pc(C) \notin {"take", "dup", "reload"} \/ Last(1) = 0
<1>1. C \in {C, S} /\ S \in {C, S} /\ S = Peer(C) /\ C = Peer(S) /\ C # S
  BY PeerFacts
<1>2. SocketInv /\ TurnInv /\ HoldInv(C)
  BY <1>1, AtCore
<1>3. Pc(S) = "idle" /\ Turn(S) = 1
  BY <1>2 DEF SocketInv
<1>4. Last(1) \in Nat /\ Turn(C) \in 1 .. Len(Turns) + 1 /\ Len(Turns) \in Nat
  BY <1>1, SoloFacts, EndRecord
<1>5. ~ Behind(C)
  BY <1>1, <1>3, <1>4 DEF Behind
<1>6. ~ Behind(S)
  BY <1>3 DEF Behind
<1>7. Even
  BY <1>1, <1>2, <1>5, <1>6, TurnFacts
<1>8. \A l \in 1 .. Last(1) : In(C, l) = <<>>
  BY <1>2 DEF SocketInv
<1>9. Pc(C) \notin {"take", "dup", "reload"} \/ Last(1) = 0
  BY <1>2 DEF HoldInv
<1>10. \A x \in {C, S} : \A l : Lead(x, l) = 0
  BY <1>5, <1>6 DEF Lead, Due
<1>11. QED
  BY <1>3, <1>5, <1>6, <1>7, <1>8, <1>9, <1>10 DEF Even

\* Accept.
LEMMA SingleAccept ==
    ASSUME TypesInv, Single(test), SingleInv, Accept
    PROVE  SingleInv'
<1>1. C \in {C, S} /\ S \in {C, S} /\ S = Peer(C) /\ C = Peer(S) /\ C # S /\ S = <<1, "s">>
  BY PeerFacts DEF S
<1>2. Conns = {1} /\ Points = {C, S} /\ Cardinality(Conns) = 1 /\ Last(1) = Len(links[1]) /\ Last(1) \in Nat
  BY SoloFacts
<1>3. server.at = 1
  BY <1>2, TypeFacts
<1>4. /\ server.pc = "accept" /\ links[1] # <<>> /\ rec' = [rec EXCEPT ![S] = [rec[S] EXCEPT !.con = 1]]
      /\ server' = [pc |-> "join", at |-> 1] /\ UNCHANGED <<test, links, up, falls, client, rip>>
  BY <1>1, <1>2, <1>3 DEF Accept, Become
<1>5. ProgramInv /\ CoreInv
  BY <1>4 DEF SingleInv, LostInv
<1>6. Con(S) = 0 /\ Last(1) >= 1
  <2>1. links[1] \in Seq(LinkStates)
    BY SoloFacts
  <2>2. QED
    BY <1>2, <1>4, <1>5, <2>1 DEF ProgramInv
<1>7. /\ Even /\ Turn(C) = 1 /\ Turn(S) = 1 /\ Pc(S) = "idle"
      /\ \A x \in {C, S} : ~ Behind(x) /\ \A l : Lead(x, l) = 0
      /\ \A l \in 1 .. Last(1) : In(C, l) = <<>>
      /\ Pc(C) \notin {"take", "dup", "reload"}
  <2>1. Last(1) # 0
    BY <1>6
  <2>2. QED
    BY <1>5, <1>6, <2>1, Unaccepted
<1>8. rec'[C] = rec[C] /\ rec'[S] = [rec[S] EXCEPT !.con = 1]
  BY <1>1, <1>2, <1>4, TypeFacts
<1>9. /\ Con(C)' = Con(C) /\ Pc(C)' = Pc(C) /\ Turn(C)' = Turn(C)
      /\ Con(S)' = 1 /\ Pc(S)' = Pc(S) /\ Turn(S)' = Turn(S) /\ rec'[S].checkpoint = rec[S].checkpoint
      /\ rec'[S].rd = rec[S].rd /\ rec'[S].lastid = rec[S].lastid /\ rec'[S].ack = rec[S].ack
      /\ rec'[S].quota = rec[S].quota
  <2>1. rec[S] \in RecordStates /\ 1 \in Nat
    BY <1>1, EndRecord
  <2> DEFINE q == rec'[S]
  <2>2. /\ q.con = 1 /\ q.turn = rec[S].turn /\ q.checkpoint = rec[S].checkpoint /\ q.pc = rec[S].pc
        /\ q.ack = rec[S].ack /\ q.rd = rec[S].rd /\ q.lastid = rec[S].lastid /\ q.quota = rec[S].quota
    BY <1>8, <2>1, MovedRecord
  <2>3. QED
    BY <1>8, <2>2 DEF Con, Pc, Turn
<1>10. \A x \in {C, S} : /\ (Writes(x)' <=> Writes(x)) /\ (Reads(x)' <=> Reads(x)) /\ (OnLast(x)' <=> OnLast(x))
                         /\ Current(x)' = Current(x) /\ rec'[x].rd = rec[x].rd /\ rec'[x].checkpoint = rec[x].checkpoint
                         /\ Pc(x)' = Pc(x) /\ Turn(x)' = Turn(x)
  BY <1>4, <1>8, <1>9, RoleSame
<1>11. /\ Turns' = Turns /\ (Alive("c")' <=> Alive("c")) /\ Alive("s") /\ Alive("s")' /\ (Fresh' <=> Fresh)
  BY <1>4 DEF Turns, Alive, Fresh
<1>12. Last(1)' = Last(1) /\ \A x, l : In(x, l)' = In(x, l) /\ St(x, l)' = St(x, l)
  BY <1>4, KeepView
<1>13. Even' /\ \A x \in {C, S} : ~ Behind(x)' /\ \A l : Lead(x, l)' = 0
  <2>1. Even'
    BY <1>1, <1>7, <1>10 DEF Even
  <2>2. \A x \in {C, S} : ~ Behind(x)'
    BY <1>1, <1>7, <1>10, <1>11 DEF Behind
  <2>3. QED
    BY <2>1, <2>2 DEF Lead, Due
<1>14. SocketInv'
  <2>1. SocketInv
    BY <1>5 DEF CoreInv
  <2>2. ASSUME NEW l \in 1 .. Last(1)
        PROVE  /\ St(S, l) # "rst"
               /\ St(C, l) = "up" => St(S, l) = "up" /\ Alive("c")
               /\ St(S, l) = "up" => St(C, l) = "up"
               /\ St(C, l) # "rst"
               /\ l < Last(1) => St(C, l) = "dead" /\ St(S, l) # "up"
               /\ In(C, l) = <<>>
    BY <1>7, <1>11, <2>1 DEF SocketInv
  <2>3. \A l \in 1 .. Last(1) :
               /\ St(S, l)' # "rst"
               /\ St(C, l)' = "up" => St(S, l)' = "up" /\ Alive("c")'
               /\ St(S, l)' = "up" => St(C, l)' = "up"
               /\ St(C, l)' # "rst"
               /\ l < Last(1) => St(C, l)' = "dead" /\ St(S, l)' # "up"
               /\ In(C, l)' = <<>>
    BY <1>11, <1>12, <2>2
  <2>4. Pc(C) = "ripristino" /\ ~ Fresh => St(C, Last(1))' # "up"
    BY <1>4, <2>1 DEF SocketInv, St, Last
  <2>5. QED
    BY <1>6, <1>7, <1>9, <1>11, <1>12, <2>3, <2>4 DEF SocketInv
<1>15. TurnInv'
  <2>1. \A x \in {C, S} : Writes(x) =>
          /\ rec[Peer(x)].rd \in {rec[x].checkpoint, rec[x].checkpoint + 1}
          /\ rec[x].checkpoint < Turns[Turn(x)]
    BY <1>5, <1>7, AtCore, TurnFacts
  <2>2. QED
    BY <1>1, <1>10, <1>11, <1>13, <2>1 DEF TurnInv
<1>16. RecordInv(S)' /\ HoldInv(S)' /\ HoldInv(C)'
  <2>1. RecordInv(S)
    BY <1>1, <1>5, AtCore
  <2>2. RecordInv(S)'
    BY <1>7, <1>9, <1>10, <1>11, <2>1 DEF RecordInv
  <2>3. HoldInv(S)'
    BY <1>7, <1>9 DEF HoldInv, Holds
  <2>4. HoldInv(C)'
    BY <1>7, <1>9 DEF HoldInv, Holds
  <2>5. QED
    BY <2>2, <2>3, <2>4
<1>17. \A l \in 1 .. Last(1) : l >= Con(C) => Carries(C, l)'
  <2> TAKE l \in 1 .. Last(1)
  <2>1. In(C, l)' = <<>> /\ Lead(C, l)' = 0
    BY <1>1, <1>7, <1>12, <1>13
  <2>2. QED
    BY <2>1 DEF Carries, CarriesAck, CarriesPacket, DIM
<1>18. \A l \in 1 .. Last(1) : l >= Con(S)' => Carries(S, l)'
  <2> TAKE l \in 1 .. Last(1)
  <2>1. Carries(S, l) /\ In(S, l) \in Seq(Int)
    BY <1>1, <1>2, <1>5, <1>6, AtCore, CarriesTypes
  <2>2. In(S, l)' = In(S, l) /\ St(S, l)' = St(S, l)
    BY <1>12
  <2>3. CASE Writes(S)
    <3>1. In(S, l) = <<>>
      BY <1>7, <2>1, <2>3 DEF Carries, CarriesAck
    <3>2. QED
      BY <1>1, <1>10, <1>13, <2>2, <2>3, <3>1 DEF Carries, CarriesAck
  <2>4. CASE ~ Writes(S)
    <3>1. CarriesPacket(S, l)
      BY <2>1, <2>4 DEF Carries
    <3>2. Lead(S, l) = 0 /\ Lead(S, l)' = 0
      BY <1>1, <1>7, <1>13
    <3>3. (Sending(C)' <=> Sending(C)) /\ (Len(In(S, l)) > 0 => Writes(C) /\ l <= Con(C) /\ (l = Con(C) => ~ Sending(C)))
      BY <1>1, <1>9, <1>11, <3>1, <3>2 DEF Sending, CarriesPacket
    <3>6. Len(In(S, l)) > Lead(S, l) => St(S, l)' \in {"up", "fin"}
      BY <2>2, <3>1 DEF CarriesPacket
    <3>4. CarriesPacket(S, l)'
      BY <1>1, <1>9, <1>10, <1>13, <2>1, <2>2, <3>1, <3>2, <3>3, <3>6, PacketFrame
    <3>5. QED
      BY <1>1, <1>10, <2>4, <3>4 DEF Carries
  <2>5. QED
    BY <2>3, <2>4
<1>19. CoreInv'
  BY <1>1, <1>4, <1>5, <1>8, <1>9, <1>12, <1>14, <1>15, <1>16, <1>17, <1>18, JoinParts
<1>20. ProgramInv'
  BY <1>4, <1>5, <1>7, <1>9, <1>11, <1>12 DEF ProgramInv
<1>21. QED
  BY <1>19, <1>20 DEF SingleInv

\* Exit of the server, on one connection.
LEMMA ServerExit ==
    ASSUME TypesInv, Single(test), Exit("s")
    PROVE  /\ Last(1)' = Last(1)
           /\ \A l \in 1 .. Last(1) :
                /\ In(C, l)' = In(C, l) /\ (l >= Con(S) => In(S, l)' = <<>>)
                /\ St(S, l)' = IF l = Con(S) THEN "dead" ELSE St(S, l)
                /\ St(C, l)' = St(C, l) \/ (St(C, l)' \in {"fin", "rst"} /\ St(C, l) = "up" /\ l >= Con(S))
                /\ l >= Con(S) => St(C, l)' # "up"
                /\ St(C, l)' = "rst" => St(C, l) = "rst" \/ l > Con(S) \/ In(S, l) # <<>>
<1>1. 1 \in Conns /\ "s" \in Ends /\ Other("s") = "c" /\ Last(1) = Len(links[1]) /\ links[1] \in Seq(LinkStates)
  BY SoloFacts, EndFacts
<1>2. C[2] = "c" /\ S[2] = "s" /\ Con(S) \in Nat
  <2>1. S \in {C, S}
    OBVIOUS
  <2>2. QED
    BY <2>1, PeerFacts, EndRecord, SoloFacts
<1>3. /\ Len(links'[1]) = Len(links[1])
      /\ \A l \in 1 .. Last(1) :
           links'[1][l] = IF l > Con(S) THEN Refused(links[1][l])
                          ELSE IF l = Con(S) THEN Shut(links[1][l], "s") ELSE links[1][l]
  BY <1>1, ExitFacts DEF Con, S
<1>4. Last(1)' = Last(1)
  BY <1>1, <1>3 DEF Last
<1>5. ASSUME NEW l \in 1 .. Last(1)
      PROVE  /\ In(C, l)' = In(C, l) /\ (l >= Con(S) => In(S, l)' = <<>>)
             /\ St(S, l)' = IF l = Con(S) THEN "dead" ELSE St(S, l)
             /\ St(C, l)' = St(C, l) \/ (St(C, l)' \in {"fin", "rst"} /\ St(C, l) = "up" /\ l >= Con(S))
             /\ l >= Con(S) => St(C, l)' # "up"
             /\ St(C, l)' = "rst" => St(C, l) = "rst" \/ l > Con(S) \/ In(S, l) # <<>>
  <2>1. links[1][l] \in LinkStates
    BY <1>1
  <2>2. CASE l > Con(S)
    <3>1. links'[1][l] = Refused(links[1][l])
      BY <1>3, <2>2
    <3>2. /\ links'[1][l].queue["s"] = <<>> /\ links'[1][l].queue["c"] = links[1][l].queue["c"]
          /\ links'[1][l].st["s"] = links[1][l].st["s"]
          /\ links'[1][l].st["c"] = IF links[1][l].st["c"] = "up" THEN "rst" ELSE links[1][l].st["c"]
      BY <1>1, <2>1, <3>1, ShutParts
    <3>3. /\ In(S, l)' = <<>> /\ In(C, l)' = In(C, l) /\ St(S, l)' = St(S, l)
          /\ St(C, l)' = IF St(C, l) = "up" THEN "rst" ELSE St(C, l)
      BY <1>2, <3>2 DEF In, St
    <3>4. QED
      BY <1>2, <2>2, <3>3
  <2>3. CASE l = Con(S)
    <3>1. links'[1][l] = Shut(links[1][l], "s")
      BY <1>2, <1>3, <2>3
    <3>2. /\ links'[1][l].queue["s"] = <<>> /\ links'[1][l].queue["c"] = links[1][l].queue["c"]
          /\ links'[1][l].st["s"] = "dead"
          /\ links'[1][l].st["c"] = (IF links[1][l].st["c"] # "up" THEN links[1][l].st["c"]
                                     ELSE IF links[1][l].queue["s"] = <<>> THEN "fin" ELSE "rst")
      BY <1>1, <2>1, <3>1, ShutParts
    <3>3. /\ In(S, l)' = <<>> /\ In(C, l)' = In(C, l) /\ St(S, l)' = "dead"
          /\ St(C, l)' = (IF St(C, l) # "up" THEN St(C, l) ELSE IF In(S, l) = <<>> THEN "fin" ELSE "rst")
      BY <1>2, <3>2 DEF In, St
    <3>4. QED
      BY <1>2, <2>3, <3>3
  <2>4. CASE l < Con(S)
    <3>1. links'[1][l] = links[1][l]
      BY <1>2, <1>3, <2>4
    <3>2. In(S, l)' = In(S, l) /\ In(C, l)' = In(C, l) /\ St(S, l)' = St(S, l) /\ St(C, l)' = St(C, l)
      BY <3>1 DEF In, St
    <3>3. QED
      BY <1>2, <2>4, <3>2
  <2>5. QED
    BY <1>2, <2>2, <2>3, <2>4
<1>6. QED
  BY <1>4, <1>5

\* The server's main has joined its thread and ends.
LEMMA SingleJoin ==
    ASSUME TypesInv, Single(test), SingleInv, Join
    PROVE  SingleInv'
<1>1. C \in {C, S} /\ S \in {C, S} /\ S = Peer(C) /\ C = Peer(S) /\ C # S /\ S = <<1, "s">>
  BY PeerFacts DEF S
<1>2. Conns = {1} /\ Cardinality(Conns) = 1 /\ Last(1) \in Nat /\ Len(Turns) \in Nat /\ server.at = 1
  BY SoloFacts, TypeFacts
<1>3. /\ server.pc = "join" /\ Exit("s") /\ UNCHANGED <<test, up, falls, rec, client, rip>>
      /\ \/ Turn(S) > Len(Turns) /\ server' = [server EXCEPT !.pc = "ok"]
         \/ Pc(S) = "failed" /\ server' = [server EXCEPT !.pc = "failed"]
  BY <1>1, <1>2 DEF Join, Turn, Pc
<1>4. ProgramInv /\ CoreInv
  BY <1>3 DEF SingleInv, LostInv
<1>5. SocketInv /\ RecordInv(S)
  BY <1>1, <1>4, AtCore
<1>6. /\ \/ Turn(S) = Len(Turns) + 1 /\ Pc(S) = "idle" /\ server'.pc = "ok"
         \/ Pc(S) = "failed" /\ server'.pc = "failed"
  <2>1. Turn(S) \in 1 .. Len(Turns) + 1
    BY <1>1, EndRecord
  <2>2. server \in [pc : {"accept", "join", "ok", "failed"}, at : Conns]
    BY TypeFacts
  <2>3. QED
    BY <1>2, <1>3, <1>5, <2>1, <2>2 DEF RecordInv
<1>7. Con(S) \in 1 .. Last(1)
  <2>1. Con(S) \in 0 .. Last(1) /\ Con(S) # 0
    BY <1>1, <1>3, <1>4, EndRecord DEF ProgramInv
  <2>2. QED
    BY <1>2, <2>1
<1>8. /\ Last(1)' = Last(1)
      /\ \A l \in 1 .. Last(1) :
           /\ In(C, l)' = In(C, l) /\ (l >= Con(S) => In(S, l)' = <<>>)
           /\ St(S, l)' = IF l = Con(S) THEN "dead" ELSE St(S, l)
           /\ St(C, l)' = St(C, l) \/ (St(C, l)' \in {"fin", "rst"} /\ St(C, l) = "up" /\ l >= Con(S))
           /\ l >= Con(S) => St(C, l)' # "up"
           /\ St(C, l)' = "rst" => St(C, l) = "rst" \/ l > Con(S) \/ In(S, l) # <<>>
  BY <1>3, ServerExit
<1>9. /\ \A x \in {C, S} : Con(x)' = Con(x) /\ Pc(x)' = Pc(x) /\ Turn(x)' = Turn(x)
      /\ Turns' = Turns
  BY <1>3, SameEnds
<1>10. /\ Alive("s") /\ ~ Alive("s")' /\ (Fresh' <=> Fresh) /\ (Alive("c")' <=> Alive("c"))
  BY <1>3, <1>6 DEF Alive, Fresh
\* Everything sent to a server that has done its last turn has been read, and a
\* thread that has given up is on no connection that is up.
<1>16. \A l \in 1 .. Last(1) : l = Con(S) /\ St(C, l) = "up" => In(S, l) = <<>>
  <2> TAKE l \in 1 .. Last(1)
  <2> HAVE l = Con(S) /\ St(C, l) = "up"
  <2>1. St(S, l) = "up"
    BY <1>5 DEF SocketInv
  <2>2. Pc(S) # "failed"
    BY <1>5, <2>1 DEF SocketInv
  <2>3. Turn(S) = Len(Turns) + 1
    BY <1>6, <2>2
  <2>4. ~ Writes(S) /\ ~ Reads(S) /\ ~ Behind(S)
    <3>1. ~ Writes(S) /\ ~ Reads(S)
      BY <1>1, <1>2, <2>3, RoleFacts DEF WritesAt, ReadsAt
    <3>2. QED
      BY <3>1 DEF Behind
  <2>5. CarriesPacket(S, l) /\ Lead(S, l) = 0 /\ In(S, l) \in Seq(Int)
    <3>1. Carries(S, l)
      BY <1>1, <1>2, <1>4, <1>7, AtCore
    <3>2. QED
      BY <1>1, <2>4, <3>1, CarriesTypes DEF Carries, Lead, Due
  <2>6. ~ (Writes(C) /\ ~ Behind(C))
    <3>1. Even \/ Behind(C) \/ Behind(S)
      BY <1>1, <1>4, AtCore, TurnFacts
    <3>2. Even => (Writes(C) <=> Reads(S))
      BY <1>1, <1>4, AtCore, TurnFacts
    <3>3. QED
      BY <2>4, <3>1, <3>2
  <2>7. ~ (Len(In(S, l)) > 0)
    BY <1>1, <2>5, <2>6 DEF CarriesPacket
  <2>8. QED
    BY <2>5, <2>7
<1>11. SocketInv'
  <2>1. ASSUME NEW l \in 1 .. Last(1)
        PROVE  /\ St(S, l)' # "rst"
               /\ St(C, l)' # "up"
               /\ St(S, l)' = "up" => l > Con(S)
               /\ l < Last(1) => St(C, l)' = "dead" /\ St(S, l)' # "up"
               /\ l < Last(1) \/ l > Con(S) => In(C, l)' = <<>>
               /\ l >= Con(S) => In(S, l)' = <<>>
               /\ St(C, l)' = "rst" => l > Con(S)
    <3>1. /\ St(S, l) # "rst"
          /\ l < Last(1) => St(C, l) = "dead" /\ St(S, l) # "up"
          /\ l < Last(1) \/ l > Con(S) => In(C, l) = <<>>
          /\ St(C, l) # "rst"
      BY <1>5, <1>10 DEF SocketInv
    <3>2. l < Con(S) => l < Last(1)
      BY <1>2, <1>7
    <3>3. l < Con(S) \/ l = Con(S) \/ l > Con(S)
      BY <1>2, <1>7
    <3>5. St(C, l)' = "rst" => l > Con(S)
      <4>1. SUFFICES ASSUME St(C, l)' = "rst", ~ (l > Con(S)) PROVE FALSE
        OBVIOUS
      <4>2. St(C, l) = "up" /\ l >= Con(S) /\ In(S, l) # <<>>
        BY <1>8, <3>1, <4>1
      <4>3. l = Con(S)
        BY <3>3, <4>1, <4>2, <1>7
      <4>4. QED
        BY <1>16, <4>2, <4>3
    <3>4. QED
      BY <1>2, <1>7, <1>8, <3>1, <3>2, <3>3, <3>5
  <2>2. St(S, Con(S))' # "up"
    <3>1. \A l \in 1 .. Last(1) : l = Con(S) => St(S, l)' # "up"
      BY <1>8
    <3>2. links'[1][Con(S)].st[S[2]] # "up"
      BY <1>7, <3>1 DEF St
    <3>3. QED
      BY <1>1, <1>9, <3>2 DEF St
  <2>3. St(C, Last(1))' # "up"
    <3>1. Last(1) \in 1 .. Last(1)
      BY <1>2, <1>7
    <3>2. \A l \in 1 .. Last(1) : l = Last(1) => St(C, l)' # "up"
      BY <2>1
    <3>3. links'[1][Last(1)].st[C[2]] # "up"
      BY <3>1, <3>2 DEF St
    <3>4. QED
      BY <1>8, <3>3 DEF St
  <2>4. Con(S)' # 0 /\ Last(1)' # 0
    BY <1>1, <1>2, <1>7, <1>8, <1>9
  <2>5. Con(S)' = Con(S)
    BY <1>1, <1>9
  <2>6. QED
    BY <1>8, <1>10, <2>1, <2>2, <2>3, <2>4, <2>5 DEF SocketInv
<1>12. (Sending(S)' <=> Sending(S)) /\ (Sending(C)' <=> Sending(C))
  BY <1>1, <1>9, <1>10 DEF Sending
<1>13. CoreInv'
  <2>1. Pc(S) \notin {"send", "ack", "take", "dup", "reload"}
    BY <1>6
  <2>2. \A x \in {C, S} : \A l \in 1 .. Last(1) : St(x, l)' = "up" => St(x, l) = "up"
    BY <1>8
  <2>4. \A l \in 1 .. Last(1) : St(C, l)' = St(C, l) \/ St(C, l)' \in {"fin", "rst"}
    BY <1>8
  <2>3. QED
    BY <1>1, <1>3, <1>4, <1>8, <1>11, <1>12, <2>1, <2>2, <2>4, ShutCore
<1>14. ProgramInv'
  <2>1. Con(S) # 0
    BY <1>7
  <2>2. QED
    BY <1>1, <1>3, <1>4, <1>6, <1>8, <1>9, <1>10, <2>1 DEF ProgramInv
<1>15. QED
  BY <1>13, <1>14 DEF SingleInv

\* The words that a fall leaves.
LEMMA Leading ==
    ASSUME NEW a \in Seq(Int), NEW m \in 0 .. Len(a), NEW b, b = SubSeq(a, 1, m)
    PROVE  /\ Len(a) \in Nat /\ Len(b) = m /\ \A i \in 1 .. m : b[i] = a[i]
           /\ m = Len(a) => b = a
           /\ m = 0 => b = <<>>
<1>1. Len(a) \in Nat /\ m \in Int /\ 0 \in Int
  OBVIOUS
<1>2. \A i \in 1 .. m : a[i] \in Int
  BY <1>1
<1>3. Len(b) = m /\ \A i \in 1 .. m : b[i] = a[i]
  BY <1>1, <1>2
<1>4. m = Len(a) => b = a
  BY SubSeqFull
<1>5. m = 0 => b = <<>>
  <2> HAVE m = 0
  <2>1. b = SubSeq(a, 1, 0)
    OBVIOUS
  <2>2. QED
    BY <2>1, SubSeqEmpty
<1>6. QED
  BY <1>1, <1>3, <1>4, <1>5

\* A fall that spares the last acks, on one connection.
LEMMA FallView ==
    ASSUME TypesInv, Single(test), ~ LastAckLost, NEW X \in Groups, Fall(X)
    PROVE  /\ UNCHANGED <<test, rec, client, server, rip>> /\ Last(1)' = Last(1)
           /\ \A x \in {C, S} : \A l \in 1 .. Last(1) :
                /\ l # Last(1) => In(x, l)' = In(x, l) /\ St(x, l)' = St(x, l)
                /\ l = Last(1) =>
                     /\ \E m \in 0 .. Len(In(x, l)) : In(x, l)' = SubSeq(In(x, l), 1, m)
                     /\ St(x, l)' = (IF St(x, l) = "up" THEN "fin" ELSE St(x, l))
                     /\ Pc(x) = "ack" /\ rec[x].checkpoint = Turns[Turn(x)] - 1 /\ Con(x) = l =>
                          IF In(x, l) # <<>> THEN In(x, l)' # <<>>
                          ELSE Pc(Peer(x)) \notin {"take", "dup"} /\ Len(In(Peer(x), l)') < DIM
<1>1. Conns = {1} /\ Groups = {{1}} /\ X = {1} /\ links[1] \in Seq(LinkStates) /\ Last(1) = Len(links[1]) /\ Last(1) \in Nat
  BY SoloFacts
<1>2. /\ Len(links'[1]) = Len(links[1])
      /\ links[1] # <<>> => \E x \in Fallen(1) : links'[1] = [links[1] EXCEPT ![Len(links[1])] = x]
      /\ UNCHANGED <<test, rec, client, server, rip>>
  BY <1>1, FallFacts
<1>3. Last(1)' = Last(1)
  BY <1>1, <1>2 DEF Last
<1>4. ASSUME NEW x \in {C, S}, NEW l \in 1 .. Last(1)
      PROVE  /\ l # Last(1) => In(x, l)' = In(x, l) /\ St(x, l)' = St(x, l)
             /\ l = Last(1) =>
                     /\ \E m \in 0 .. Len(In(x, l)) : In(x, l)' = SubSeq(In(x, l), 1, m)
                     /\ St(x, l)' = (IF St(x, l) = "up" THEN "fin" ELSE St(x, l))
                     /\ Pc(x) = "ack" /\ rec[x].checkpoint = Turns[Turn(x)] - 1 /\ Con(x) = l =>
                          IF In(x, l) # <<>> THEN In(x, l)' # <<>>
                          ELSE Pc(Peer(x)) \notin {"take", "dup"} /\ Len(In(Peer(x), l)') < DIM
  <2>1. links[1] # <<>>
    BY <1>1
  <2>2. PICK f \in Fallen(1) : links'[1] = [links[1] EXCEPT ![Last(1)] = f]
    BY <1>1, <1>2, <2>1
  <2>3. /\ \A j \in 1 .. Last(1) : j # Last(1) => links'[1][j] = links[1][j]
        /\ links'[1][Last(1)] = f
    BY <1>1, <2>1, <2>2
  <2>4. f \in Remains(links[1][Last(1)]) /\ \A e \in Ends : AckSafe(<<1, e>>, f)
    BY DEF Fallen
  <2>5. x[2] \in Ends /\ x = <<1, x[2]>> /\ x[1] = 1 /\ Peer(x) = <<1, Other(x[2])>> /\ Peer(x)[2] = Other(x[2])
    BY PeerFacts DEF Peer, C, S
  <2>6. CASE l # Last(1)
    <3>1. links'[1][l] = links[1][l]
      BY <2>3, <2>6
    <3>2. QED
      BY <2>6, <3>1 DEF In, St
  <2>7. CASE l = Last(1)
    <3>1. links'[1][l] = f /\ links[1][l] \in LinkStates /\ f \in Remains(links[1][l])
      BY <1>1, <2>3, <2>4, <2>7
    <3>2. /\ \E m \in 0 .. Len(links[1][l].queue[x[2]]) : f.queue[x[2]] = SubSeq(links[1][l].queue[x[2]], 1, m)
          /\ f.st[x[2]] = IF links[1][l].st[x[2]] = "up" THEN "fin" ELSE links[1][l].st[x[2]]
      BY <2>5, <3>1, RemainsFacts
    <3>3. /\ \E m \in 0 .. Len(In(x, l)) : In(x, l)' = SubSeq(In(x, l), 1, m)
          /\ St(x, l)' = (IF St(x, l) = "up" THEN "fin" ELSE St(x, l))
      BY <3>1, <3>2 DEF In, St
    <3>4. ASSUME Pc(x) = "ack", rec[x].checkpoint = Turns[Turn(x)] - 1, Con(x) = l
          PROVE  IF In(x, l) # <<>> THEN In(x, l)' # <<>>
                 ELSE Pc(Peer(x)) \notin {"take", "dup"} /\ Len(In(Peer(x), l)') < DIM
      <4>1. AckSafe(x, f)
        BY <2>4, <2>5
      <4>2. IF Queue(x) # <<>> THEN f.queue[x[2]] # <<>>
            ELSE rec[Peer(x)].pc \notin {"take", "dup"} /\ Len(f.queue[Peer(x)[2]]) < DIM
        BY <2>5, <2>7, <3>4, <4>1 DEF AckSafe, Pc, Turn, Con
      <4>3. Queue(x) = In(x, l)
        BY <2>5, <3>4 DEF Queue, In, Con
      <4>4. In(x, l)' = f.queue[x[2]] /\ In(Peer(x), l)' = f.queue[Peer(x)[2]]
        BY <3>1 DEF In, Peer
      <4>5. QED
        BY <4>2, <4>3, <4>4 DEF Pc
    <3>5. QED
      BY <2>7, <3>3, <3>4
  <2>8. QED
    BY <2>6, <2>7
<1>5. QED
  BY <1>2, <1>3, <1>4

\* What a fall leaves of a connection that carries words to p.
LEMMA FallCarries ==
    ASSUME TypesInv, Single(test), CoreInv, ~ LastAckLost, NEW X \in Groups, Fall(X), NEW p \in {C, S},
           NEW l \in 1 .. Last(1), l >= Con(p), l = Last(1)
    PROVE  Carries(p, l)'
<1> DEFINE o == Peer(p)
<1>1. o \in {C, S} /\ o # p /\ Peer(o) = p
  BY PeerFacts
<1>2. /\ UNCHANGED <<test, rec, client, server, rip>> /\ Last(1)' = Last(1)
      /\ \A x \in {C, S} :
           /\ \E m \in 0 .. Len(In(x, l)) : In(x, l)' = SubSeq(In(x, l), 1, m)
           /\ St(x, l)' = (IF St(x, l) = "up" THEN "fin" ELSE St(x, l))
           /\ Pc(x) = "ack" /\ rec[x].checkpoint = Turns[Turn(x)] - 1 /\ Con(x) = l =>
                IF In(x, l) # <<>> THEN In(x, l)' # <<>>
                ELSE Pc(Peer(x)) \notin {"take", "dup"} /\ Len(In(Peer(x), l)') < DIM
  BY FallView
<1>3. /\ \A x \in {C, S} : /\ Con(x)' = Con(x) /\ Pc(x)' = Pc(x) /\ Turn(x)' = Turn(x)
                           /\ (Writes(x)' <=> Writes(x)) /\ (Reads(x)' <=> Reads(x)) /\ (OnLast(x)' <=> OnLast(x))
                           /\ Current(x)' = Current(x) /\ (Behind(x)' <=> Behind(x)) /\ (Due(x)' <=> Due(x))
                           /\ rec'[x] = rec[x]
      /\ (Even' <=> Even) /\ Turns' = Turns
      /\ \A x \in {C, S} : \A j : Lead(x, j)' = Lead(x, j)
  BY <1>2, SameEnds
<1>4. \A x \in {C, S} : Sending(x)' <=> Sending(x)
  BY <1>2, <1>3 DEF Sending, Fresh
<1>5. Carries(p, l) /\ In(p, l) \in Seq(Int) /\ In(o, l) \in Seq(Int)
  BY <1>1, AtCore, CarriesTypes
<1> DEFINE q == In(p, l)
<1> DEFINE n == Len(q)
<1>6. PICK m \in 0 .. n : In(p, l)' = SubSeq(q, 1, m)
  BY <1>2
<1>7. /\ n \in Nat /\ Len(In(p, l)') = m /\ \A i \in 1 .. m : In(p, l)'[i] = q[i]
      /\ m = n => In(p, l)' = q
      /\ m = 0 => In(p, l)' = <<>>
  BY <1>5, <1>6, Leading
<1>8. In(o, l) = <<>> => In(o, l)' = <<>>
  <2> HAVE In(o, l) = <<>>
  <2>1. PICK j \in 0 .. Len(In(o, l)) : In(o, l)' = SubSeq(In(o, l), 1, j)
    BY <1>1, <1>2
  <2>2. In(o, l)' = SubSeq(<<>>, 1, 0)
    BY <2>1
  <2>3. QED
    BY <2>2, SubSeqEmpty
<1>9. CASE Writes(p) /\ Even
  <2>1. CarriesAck(p, l)
    BY <1>5, <1>9 DEF Carries
  <2>2. n \in {0, 1} /\ (n = 0 => q = <<>>)
    BY <1>5, <2>1 DEF CarriesAck
  <2>3. In(p, l)' = <<>> \/ In(p, l)' = q
    <3>1. m = 0 \/ m = n
      <4> HIDE DEF n
      <4>1. QED
        BY <2>2
    <3>2. QED
      BY <1>7, <3>1
  <2>4. CarriesAck(p, l)'
    BY <1>1, <1>3, <1>8, <2>1, <2>3, AckFrame DEF CarriesAck
  <2>5. QED
    BY <1>3, <1>9, <2>4 DEF Carries
<1>10. CASE ~ (Writes(p) /\ Even)
  <2> DEFINE d == Lead(p, l)
  <2>1. CarriesPacket(p, l)
    BY <1>5, <1>10 DEF Carries
  <2>2. d \in {0, 1} /\ (d = 1 => Due(p) /\ l = Con(p))
    BY DEF Lead
  <2>3. /\ n \in d .. d + DIM
        /\ d = 1 => q[1] = rec[p].checkpoint
        /\ \A i \in 1 .. DIM : i + d <= n => q[i + d] = Current(o)[i]
        /\ n > d => Writes(o) /\ ~ Behind(o) /\ l <= Con(o) /\ (l = Con(o) => ~ Sending(o))
        /\ n = d + DIM /\ OnLast(o) => Pc(o) = "ack" /\ l = Con(o) /\ St(p, l) = "up"
    BY <2>1 DEF CarriesPacket
\* The ack that is due is the ack of a last packet.
  <2>4. m >= d
    <3>1. SUFFICES ASSUME d = 1 PROVE m # 0
      BY <2>2
    <3>2. Pc(p) = "ack" /\ rec[p].checkpoint = Turns[Turn(p)] - 1 /\ Con(p) = l
      BY <2>2, <3>1 DEF Due, Behind
    <3>3. q # <<>>
      BY <1>7, <2>3, <3>1
    <3>4. In(p, l)' # <<>>
      BY <1>2, <3>2, <3>3
    <3>5. QED
      BY <1>7, <3>4
\* A last packet that is whole is on a connection without the ack.
  <2>5. ~ (m = d + DIM /\ OnLast(o))
    <3>1. SUFFICES ASSUME m = d + DIM, OnLast(o) PROVE FALSE
      OBVIOUS
    <3>2. n = d + DIM /\ n > d
      BY <1>7, <2>2, <2>3, <3>1 DEF DIM
    <3>3. Pc(o) = "ack" /\ l = Con(o) /\ Writes(o) /\ ~ Behind(o)
      BY <2>3, <3>1, <3>2
    <3>4. Carries(o, l)
      BY <1>1, <3>3, AtCore
    <3>5. q # <<>>
      BY <1>5, <2>2, <3>2 DEF DIM
    <3>6. In(o, l) = <<>>
      <4>1. CASE Even
        BY <1>1, <3>3, <3>4, <3>5, <4>1 DEF Carries, CarriesAck
      <4>2. CASE ~ Even
        <5>1. Behind(p)
          BY <1>1, <3>3, <4>2, AtCore, TurnFacts
        <5>2. CarriesPacket(o, l) /\ Lead(o, l) = 0
          BY <3>3, <3>4, <4>2 DEF Carries, Lead, Due
        <5>3. ~ (Len(In(o, l)) > 0)
          BY <1>1, <5>1, <5>2 DEF CarriesPacket
        <5>4. QED
          BY <1>5, <5>3
      <4>3. QED
        BY <4>1, <4>2
    <3>7. Len(In(p, l)') < DIM
      BY <1>1, <1>2, <3>1, <3>3, <3>6 DEF OnLast
    <3>8. QED
      BY <1>7, <2>2, <3>1, <3>7 DEF DIM
  <2>6. CarriesPacket(p, l)'
    <3>1. Lead(p, l)' = d /\ rec'[p].checkpoint = rec[p].checkpoint
      BY <1>3
    <3>2. m \in d .. d + DIM
      BY <1>7, <2>2, <2>3, <2>4 DEF DIM
    <3>3. d = 1 => In(p, l)'[1] = rec[p].checkpoint
      BY <1>7, <2>3, <2>4
    <3>4. \A i \in 1 .. DIM : i + d <= m => In(p, l)'[i + d] = Current(o)[i]
      <4> TAKE i \in 1 .. DIM
      <4> HAVE i + d <= m
      <4>1. i + d <= n /\ i + d \in 1 .. m
        BY <1>7, <2>2 DEF DIM
      <4>2. QED
        BY <1>7, <2>3, <4>1
    <3>5. m > d => Writes(o) /\ ~ Behind(o) /\ l <= Con(o) /\ (l = Con(o) => ~ Sending(o))
      BY <1>7, <2>2, <2>3
    <3>6. St(p, l)' # "up"
      BY <1>2
    <3>9. m > d => St(p, l)' \in {"up", "fin"}
      <4>1. m > d => n > d
        BY <1>7, <2>2
      <4>2. n > d => St(p, l) \in {"up", "fin"}
        BY <2>1 DEF CarriesPacket
      <4>3. QED
        BY <1>2, <4>1, <4>2
    <3> HIDE DEF d, q, n
    <3>7. Peer(p) = o
      OBVIOUS
    <3> HIDE DEF o
    <3>8. QED
      BY <1>1, <1>3, <1>4, <1>7, <2>5, <3>1, <3>2, <3>3, <3>4, <3>5, <3>6, <3>7, <3>9 DEF CarriesPacket
  <2>7. QED
    BY <1>3, <1>10, <2>6 DEF Carries
<1>11. QED
  BY <1>9, <1>10

\* A fall that spares the last acks.
LEMMA SingleFall ==
    ASSUME TypesInv, Single(test), SingleInv, ~ LastAckLost, NEW X \in Groups, Fall(X)
    PROVE  SingleInv'
<1>1. C \in {C, S} /\ S \in {C, S} /\ S = Peer(C) /\ C = Peer(S) /\ C # S
  BY PeerFacts
<1>2. Last(1) \in Nat /\ Con(C) = Last(1) /\ Con(S) \in 0 .. Last(1)
  BY <1>1, EndRecord, SoloFacts
<1>3. ProgramInv /\ (CoreInv \/ LostInv)
  BY DEF SingleInv
<1>4. /\ UNCHANGED <<test, rec, client, server, rip>> /\ Last(1)' = Last(1)
      /\ \A x \in {C, S} : \A l \in 1 .. Last(1) :
           /\ l # Last(1) => In(x, l)' = In(x, l) /\ St(x, l)' = St(x, l)
           /\ l = Last(1) =>
                /\ \E m \in 0 .. Len(In(x, l)) : In(x, l)' = SubSeq(In(x, l), 1, m)
                /\ St(x, l)' = (IF St(x, l) = "up" THEN "fin" ELSE St(x, l))
                /\ Pc(x) = "ack" /\ rec[x].checkpoint = Turns[Turn(x)] - 1 /\ Con(x) = l =>
                     IF In(x, l) # <<>> THEN In(x, l)' # <<>>
                     ELSE Pc(Peer(x)) \notin {"take", "dup"} /\ Len(In(Peer(x), l)') < DIM
  BY FallView
<1>5. /\ \A x \in {C, S} : /\ Con(x)' = Con(x) /\ Pc(x)' = Pc(x) /\ Turn(x)' = Turn(x)
                           /\ (Writes(x)' <=> Writes(x)) /\ (Reads(x)' <=> Reads(x)) /\ (OnLast(x)' <=> OnLast(x))
                           /\ Current(x)' = Current(x) /\ (Behind(x)' <=> Behind(x))
                           /\ (Holds(x)' <=> Holds(x)) /\ (RecordInv(x)' <=> RecordInv(x))
      /\ (Even' <=> Even) /\ Turns' = Turns
      /\ \A x \in {C, S} : \A j : Lead(x, j)' = Lead(x, j)
      /\ (TurnInv' <=> TurnInv)
  BY <1>4, SameEnds
<1>6. (Fresh' <=> Fresh) /\ (Alive("c")' <=> Alive("c")) /\ (Alive("s")' <=> Alive("s"))
  BY <1>4 DEF Fresh, Alive
<1>7. \A x \in {C, S} : \A l \in 1 .. Last(1) : In(x, l) = <<>> => In(x, l)' = <<>>
  <2> TAKE x \in {C, S}
  <2> TAKE l \in 1 .. Last(1)
  <2> HAVE In(x, l) = <<>>
  <2>1. CASE l = Last(1)
    <3>1. PICK m \in 0 .. Len(In(x, l)) : In(x, l)' = SubSeq(In(x, l), 1, m)
      BY <1>4, <2>1
    <3>2. In(x, l)' = SubSeq(<<>>, 1, 0)
      BY <3>1
    <3>3. QED
      BY <3>2, SubSeqEmpty
  <2>2. QED
    BY <1>4, <2>1
<1>8. \A x \in {C, S} : \A l \in 1 .. Last(1) : St(x, l)' = St(x, l) \/ (St(x, l) = "up" /\ St(x, l)' = "fin" /\ l = Last(1))
  BY <1>4
<1>9. ProgramInv'
  BY <1>3, <1>4, <1>5, <1>6 DEF ProgramInv
<1>10. CASE LostInv
  <2>1. \A l \in 1 .. Last(1) : l = Last(1) => In(C, l)' = <<>> /\ St(C, l)' = "dead"
    <3> TAKE l \in 1 .. Last(1)
    <3> HAVE l = Last(1)
    <3>1. In(C, l) = <<>> /\ St(C, l) = "dead"
      BY <1>10 DEF LostInv
    <3>2. QED
      BY <1>1, <1>7, <1>8, <3>1
  <2>2. LostInv'
    BY <1>2, <1>4, <1>6, <1>10, <2>1, LostStays DEF LostInv
  <2>3. QED
    BY <1>9, <2>2 DEF SingleInv
<1>11. CASE CoreInv
  <2>1. SocketInv'
    <3>1. SocketInv
      BY <1>11 DEF CoreInv
    <3>2. ASSUME NEW l \in 1 .. Last(1)
          PROVE  /\ St(S, l)' # "rst"
                 /\ St(C, l)' = "up" => St(S, l)' = "up" /\ Alive("c") /\ Alive("s")
                 /\ St(S, l)' = "up" => St(C, l)' = "up" \/ (~ Alive("s") /\ l > Con(S))
                 /\ St(C, l)' = "rst" => ~ Alive("s") /\ l > Con(S)
                 /\ l < Last(1) => St(C, l)' = "dead" /\ St(S, l)' # "up"
                 /\ l < Last(1) \/ l > Con(S) => In(C, l)' = <<>>
                 /\ ~ Alive("s") /\ l >= Con(S) => In(S, l)' = <<>>
      <4>1. /\ St(S, l) # "rst"
            /\ St(C, l) = "up" => St(S, l) = "up" /\ Alive("c") /\ Alive("s")
            /\ St(S, l) = "up" => St(C, l) = "up" \/ (~ Alive("s") /\ l > Con(S))
            /\ St(C, l) = "rst" => ~ Alive("s") /\ l > Con(S)
            /\ l < Last(1) => St(C, l) = "dead" /\ St(S, l) # "up"
            /\ l < Last(1) \/ l > Con(S) => In(C, l) = <<>>
            /\ ~ Alive("s") /\ l >= Con(S) => In(S, l) = <<>>
        BY <3>1 DEF SocketInv
      <4>2. CASE l = Last(1)
        <5>1. St(S, l)' = (IF St(S, l) = "up" THEN "fin" ELSE St(S, l)) /\ St(C, l)' = (IF St(C, l) = "up" THEN "fin" ELSE St(C, l))
          BY <1>1, <1>4, <4>2
        <5>2. ~ (l < Last(1))
          BY <1>2, <4>2
        <5>3. QED
          BY <1>1, <1>7, <4>1, <5>1, <5>2
      <4>3. CASE l # Last(1)
        BY <1>1, <1>4, <4>1, <4>3
      <4>4. QED
        BY <4>2, <4>3
    <3>3. Pc(S) \in {"ripristino", "failed"} => St(S, Con(S))' # "up"
      <4>1. Pc(S) \in {"ripristino", "failed"} => Con(S) \in 1 .. Last(1)
        BY <1>2, <3>1 DEF SocketInv
      <4>2. \A l \in 1 .. Last(1) : l = Con(S) /\ St(S, l) # "up" => St(S, l)' # "up"
        BY <1>8
      <4>3. Pc(S) \in {"ripristino", "failed"} => links'[1][Con(S)].st[S[2]] # "up"
        BY <3>1, <4>1, <4>2 DEF SocketInv, St
      <4>4. QED
        BY <1>1, <1>5, <4>3 DEF St
    <3>4. Pc(C) = "ripristino" /\ ~ Fresh => St(C, Last(1))' # "up"
      <4>1. Pc(C) = "ripristino" => Last(1) \in 1 .. Last(1)
        BY <1>2, <3>1 DEF SocketInv
      <4>2. \A l \in 1 .. Last(1) : l = Last(1) /\ St(C, l) # "up" => St(C, l)' # "up"
        BY <1>8
      <4>3. Pc(C) = "ripristino" /\ ~ Fresh => links'[1][Last(1)].st[C[2]] # "up"
        BY <3>1, <4>1, <4>2 DEF SocketInv, St
      <4>4. QED
        BY <1>4, <4>3 DEF St
    <3>5. /\ Con(S) = 0 => Pc(S) = "idle" /\ Turn(S) = 1
          /\ Last(1) = 0 => Pc(C) = "idle" /\ Turn(C) = 1
      BY <3>1 DEF SocketInv
    <3>6. QED
      BY <1>1, <1>4, <1>5, <1>6, <3>2, <3>3, <3>4, <3>5 DEF SocketInv
  <2>2. \A x \in {C, S} : \A l \in 1 .. Last(1) : l >= Con(x) => Carries(x, l)'
    <3> TAKE x \in {C, S}
    <3> TAKE l \in 1 .. Last(1)
    <3> HAVE l >= Con(x)
    <3>1. CASE l = Last(1)
      BY <1>11, <3>1, FallCarries
    <3>2. CASE l # Last(1)
      <4>1. Peer(x) \in {C, S}
        BY PeerFacts
      <4>2. /\ In(x, l)' = In(x, l) /\ St(x, l)' = St(x, l) /\ In(Peer(x), l)' = In(Peer(x), l)
        BY <1>4, <3>2, <4>1
      <4>3. Carries(x, l) /\ In(x, l) \in Seq(Int)
        BY <1>11, AtCore, CarriesTypes
      <4>4. rec'[x] = rec[x] /\ rec'[Peer(x)] = rec[Peer(x)] /\ (Sending(Peer(x))' <=> Sending(Peer(x)))
        BY <1>4, <1>5, <1>6, <4>1 DEF Sending
      <4>5. CASE Writes(x) /\ Even
        <5>1. CarriesAck(x, l)
          BY <4>3, <4>5 DEF Carries
        <5>2. CarriesAck(x, l)'
          BY <1>5, <4>1, <4>2, <4>4, <5>1, AckFrame DEF CarriesAck
        <5>3. QED
          BY <1>5, <4>5, <5>2 DEF Carries
      <4>6. CASE ~ (Writes(x) /\ Even)
        <5>1. CarriesPacket(x, l)
          BY <4>3, <4>6 DEF Carries
        <5>2. Len(In(x, l)) > Lead(x, l) =>
                Writes(Peer(x)) /\ ~ Behind(Peer(x)) /\ l <= Con(Peer(x)) /\ (l = Con(Peer(x)) => ~ Sending(Peer(x)))
          BY <5>1 DEF CarriesPacket
        <5>5. Len(In(x, l)) > Lead(x, l) => St(x, l)' \in {"up", "fin"}
          BY <4>2, <5>1 DEF CarriesPacket
        <5>3. CarriesPacket(x, l)'
          BY <1>5, <4>1, <4>2, <4>3, <4>4, <5>1, <5>2, <5>5, PacketFrame
        <5>4. QED
          BY <1>5, <4>6, <5>3 DEF Carries
      <4>7. QED
        BY <4>5, <4>6
    <3>3. QED
      BY <3>1, <3>2
  <2>3. \A p \in {C, S} : HoldInv(p)'
    <3> TAKE p \in {C, S}
    <3> DEFINE o == Peer(p)
    <3>1. o \in {C, S} /\ Peer(o) = p /\ {C, S} = {p, o}
      BY PeerFacts
    <3>2. HoldInv(p) /\ SocketInv
      BY <1>11, AtCore
    <3>3. /\ Con(p)' = Con(p) /\ Con(o)' = Con(o) /\ Pc(p)' = Pc(p) /\ Pc(o)' = Pc(o) /\ Con(S)' = Con(S)
          /\ rec'[p] = rec[p] /\ rec'[o] = rec[o] /\ (Sending(o)' <=> Sending(o))
      BY <1>4, <1>5, <1>6, <3>1 DEF Sending
    <3>4. Pc(p) \in {"take", "dup", "reload"} => Con(p) \in 1 .. Last(1)
      <4>1. Con(p) = 0 => p = S \/ Last(1) = 0
        BY <1>2
      <4>2. Con(p) = 0 => Pc(p) = "idle"
        BY <1>2, <3>2, <4>1 DEF SocketInv
      <4>3. Con(p) \in 0 .. Last(1)
        BY EndRecord
      <4>4. QED
        BY <1>2, <4>2, <4>3
    <3>5. Holds(p) => In(p, Con(p))' = <<>>
      <4>1. Holds(p) => Con(p) \in 1 .. Last(1) /\ In(p, Con(p)) = <<>>
        BY <3>2, <3>4 DEF Holds, HoldInv
      <4>2. \A l \in 1 .. Last(1) : l = Con(p) /\ In(p, l) = <<>> => links'[1][l].queue[p[2]] = <<>>
        BY <1>7 DEF In
      <4>3. Holds(p) => links'[1][Con(p)].queue[p[2]] = <<>>
        BY <4>1, <4>2
      <4>4. QED
        BY <3>3, <4>3 DEF In
    <3>6. ~ (Pc(p) = "take" /\ OnLast(o))
      <4>1. SUFFICES ASSUME Pc(p) = "take", OnLast(o) PROVE FALSE
        OBVIOUS
      <4>2. Pc(o) = "ack" /\ Con(o) = Con(p) /\ Even
        BY <3>2, <4>1 DEF HoldInv
      <4>3. Con(p) = Last(1) /\ Con(p) \in 1 .. Last(1)
        BY <1>1, <1>2, <3>1, <3>4, <4>1, <4>2
      <4>4. \A l \in 1 .. Last(1) : l = Con(o) => In(o, l) = <<>>
        <5> TAKE l \in 1 .. Last(1)
        <5> HAVE l = Con(o)
        <5>1. l >= Con(o)
          BY <4>2, <4>3
        <5>2. Carries(o, l)
          BY <1>11, <3>1, <5>1, AtCore
        <5>3. QED
          BY <3>1, <4>1, <4>2, <5>2 DEF Carries, CarriesAck, OnLast
      <4>5. \A l \in 1 .. Last(1) : l = Con(o) => Pc(p) \notin {"take", "dup"}
        BY <1>4, <3>1, <4>1, <4>2, <4>3, <4>4 DEF OnLast
      <4>6. QED
        BY <4>1, <4>2, <4>3, <4>5
    <3>8. Pc(p) = "take" => St(p, Con(p))' \in {"up", "fin"}
      <4>1. Pc(p) = "take" => St(p, Con(p)) \in {"up", "fin"}
        BY <3>2 DEF HoldInv
      <4>2. \A l \in 1 .. Last(1) : l = Con(p) /\ St(p, l) \in {"up", "fin"} => links'[1][l].st[p[2]] \in {"up", "fin"}
        BY <1>8 DEF St
      <4>3. Pc(p) = "take" => links'[1][Con(p)].st[p[2]] \in {"up", "fin"}
        BY <3>4, <4>1, <4>2
      <4>4. QED
        BY <3>3, <4>3 DEF St
    <3> HIDE DEF o
    <3>7. QED
      BY <1>1, <1>4, <1>5, <3>1, <3>2, <3>3, <3>5, <3>6, <3>8 DEF HoldInv, o
  <2>4. \A x \in {C, S} : RecordInv(x)'
    BY <1>5, <1>11, AtCore
  <2>5. TurnInv'
    BY <1>5, <1>11 DEF CoreInv
  <2>6. CoreInv'
    BY <1>4, <1>5, <2>1, <2>2, <2>3, <2>4, <2>5 DEF CoreInv
  <2>7. QED
    BY <1>9, <2>6 DEF SingleInv
<1>12. QED
  BY <1>3, <1>10, <1>11

\* A step of the network that leaves the connections, or none at all.
LEMMA SingleKept ==
    ASSUME TypesInv, Single(test), SingleInv, UNCHANGED <<test, links, rec, client, server, rip>>
    PROVE  SingleInv'
<1>1. ProgramInv /\ (CoreInv \/ LostInv) /\ Last(1) \in Nat
  BY SoloFacts DEF SingleInv
<1>2. (Fresh' <=> Fresh) /\ (Alive("c")' <=> Alive("c")) /\ (Alive("s")' <=> Alive("s"))
  BY DEF Fresh, Alive
<1>3. Last(1)' = Last(1) /\ \A x, l : In(x, l)' = In(x, l) /\ St(x, l)' = St(x, l)
  BY KeepView
<1>4. /\ \A x \in {C, S} : Con(x)' = Con(x) /\ Pc(x)' = Pc(x) /\ Turn(x)' = Turn(x)
      /\ Turns' = Turns
  BY SameEnds
<1>5. ProgramInv'
  BY <1>1, <1>2, <1>3, <1>4 DEF ProgramInv
<1>6. CoreInv => CoreInv'
  BY <1>2, CoreSame
<1>7. LostInv => LostInv'
  <2> HAVE LostInv
  <2>1. \A l \in 1 .. Last(1) : l = Last(1) => In(C, l)' = <<>> /\ St(C, l)' = "dead"
    <3>1. \A l \in 1 .. Last(1) : l = Last(1) => In(C, l) = <<>> /\ St(C, l) = "dead"
      BY DEF LostInv
    <3>2. QED
      BY <1>3, <3>1
  <2>2. ~ Fresh
    BY DEF LostInv
  <2>3. QED
    BY <1>1, <1>2, <1>3, <2>1, <2>2, LostStays
<1>8. QED
  BY <1>1, <1>5, <1>6, <1>7 DEF SingleInv

\* A call of a client whose server has given up.
LEMMA LostFrame ==
    ASSUME LostInv, UNCHANGED <<test, links, server, rip>>, rec'[S] = rec[S],
           Turn(C) \in Nat, Turn(S) \in Nat, Turn(C)' \in {Turn(C), Turn(C) + 1},
           Pc(C)' \in {"idle", "send", "ripristino"}, Turn(C)' = Len(Turns) + 1 => Pc(C)' = "idle",
           LastSafe => /\ Turn(C)' \in DOMAIN Turns
                       /\ Writes(C)' => /\ Pc(C)' # "idle"
                                        /\ rec'[C].checkpoint = 1
                                        /\ Pc(C)' = "send" => (Turns[Turn(C)'] > 1 \/ Turn(C)' < Len(Turns))
    PROVE  LostInv'
<1>1. Turns' = Turns /\ (LastSafe' <=> LastSafe) /\ (Fresh' <=> Fresh)
  BY DEF Turns, LastSafe, Fresh
<1>2. Pc(S)' = Pc(S) /\ Turn(S)' = Turn(S) /\ (Writes(S)' <=> Writes(S))
  <2>1. S \in {C, S} /\ Turn(S)' = Turn(S)
    BY DEF Turn
  <2>2. QED
    BY <2>1, RoleSame DEF Pc
<1>3. Last(1)' = Last(1) /\ In(C, Last(1))' = In(C, Last(1)) /\ St(C, Last(1))' = St(C, Last(1))
  BY DEF Last, In, St
<1>4. Turn(S)' <= Turn(C)' /\ (Writes(S)' => Turn(S)' < Turn(C)')
  BY <1>2 DEF LostInv
<1>5. /\ server'.pc = "failed"
      /\ ~ Fresh' /\ Last(1)' > 0 /\ In(C, Last(1))' = <<>> /\ St(C, Last(1))' = "dead" /\ Pc(S)' = "failed"
  BY <1>1, <1>2, <1>3 DEF LostInv
<1>6. QED
  BY <1>1, <1>4, <1>5 DEF LostInv

\* The calls of a client that the RST of a server that gave up has misled: the server is gone.
LEMMA LostCall ==
    ASSUME TypesInv, Single(test), ProgramInv, LostInv, NEW p \in {C, S}, Call(p)
    PROVE  ProgramInv' /\ LostInv'
<1>1. p = C
  BY CallView DEF LostInv, Alive
<1>2. /\ UNCHANGED <<test, up, falls, server, rip>> /\ rec'[S] = rec[S] /\ Con(S)' = Con(S) /\ Pc(S)' = Pc(S) /\ Turn(S)' = Turn(S)
      /\ Con(C) \in 1 .. Last(1) /\ Turns' = Turns /\ client.pc = "turns"
  <2>1. C \in {C, S} /\ S = Peer(C)
    BY PeerFacts
  <2>2. QED
    BY <1>1, <2>1, CallView
<1>3. /\ Con(C) = Last(1) /\ Turn(C) \in Nat /\ Turn(S) \in Nat /\ Last(1) \in Nat /\ Turn(C) \in 1 .. Len(Turns) + 1
      /\ Len(Turns) \in Nat \ {0} /\ DOMAIN Turns = 1 .. Len(Turns) /\ C \in {C, S} /\ C[2] = "c"
  <2>1. C \in {C, S} /\ S \in {C, S} /\ C[2] = "c"
    BY PeerFacts
  <2>2. Con(C) = Last(1) /\ Turn(C) \in 1 .. Len(Turns) + 1 /\ Turn(S) \in 1 .. Len(Turns) + 1
    BY <2>1, EndRecord
  <2>3. Last(1) \in Nat /\ Len(Turns) \in Nat \ {0}
    BY SoloFacts
  <2>4. DOMAIN Turns = 1 .. Len(Turns)
    BY TypeFacts, TestFacts
  <2>5. QED
    BY <2>1, <2>2, <2>3, <2>4
<1>4. /\ Pc(C) \in {"idle", "send", "ripristino"} /\ Queue(C) = <<>> /\ Sock(C) = "dead" /\ Len(Queue(C)) = 0
  BY <1>3, EndNames DEF LostInv
<1>5. ErrorReported(C) => links' = links
  BY <1>4 DEF ErrorReported
<1>6. /\ Turn(C) = Len(Turns) + 1 => Pc(C) = "idle"
      /\ LastSafe => /\ Turn(C) \in DOMAIN Turns
                     /\ Writes(C) => /\ Pc(C) # "idle"
                                     /\ rec[C].checkpoint = 1
                                     /\ Pc(C) = "send" => (Turns[Turn(C)] > 1 \/ Turn(C) < Len(Turns))
  BY DEF LostInv
<1>7. Writes(C) \/ Reads(C) => Turn(C) \in 1 .. Len(Turns)
  BY <1>3 DEF Reads, Writes, Turn
\* Its calls fail, one after the other.
<1>8. CASE Broken(C) /\ client' = client /\ (Writes(C) \/ Reads(C)) /\ Pc(C) \in {"send", "idle"}
  <2>1. links' = links /\ Kept(C) /\ Pc(C)' = "ripristino"
    BY <1>3, <1>5, <1>8, GoToView, PlaceNames DEF Broken
  <2>2. Turn(C)' = Turn(C) /\ rec'[C].checkpoint = rec[C].checkpoint /\ (Writes(C)' <=> Writes(C))
    BY <1>2, <1>3, <2>1, RoleSame DEF Kept, SameTurn
  <2>3. LostInv'
    BY <1>2, <1>3, <1>6, <1>7, <1>8, <2>1, <2>2, LostFrame
  <2>4. Last(1)' = Last(1)
    BY <2>1, KeepView
  <2>5. ProgramInv'
    BY <1>2, <1>8, <2>1, <2>2, <2>4, ProgramFrame
  <2>6. QED
    BY <2>3, <2>5
<1>9. CASE Write(C)
  <2>1. Writes(C) /\ Pc(C) = "idle" /\ UNCHANGED <<links, client>> /\ ~ LastSafe
    BY <1>6, <1>9 DEF Write, Pc
  <2>2. Turn(C)' = Turn(C) /\ Pc(C)' = "send"
    <3> DEFINE r == rec[C]
    <3> DEFINE m == [r EXCEPT !.ack = 0]
    <3> DEFINE q == [m EXCEPT !.pc = "send"]
    <3>1. rec'[C] = q
      BY <1>3, <1>9, BecomeView DEF Write
    <3>2. r \in RecordStates
      BY <1>3, EndRecord
    <3>3. m \in RecordStates /\ m.turn = r.turn
      BY <3>2, AckRecord
    <3> HIDE DEF m
    <3>4. q.turn = r.turn /\ q.pc = "send"
      BY <3>3, WithPlace, PlaceNames
    <3>5. QED
      BY <3>1, <3>4 DEF Turn, Pc
  <2>3. LostInv'
    <3>1. Turn(C)' # Len(Turns) + 1
      BY <1>3, <1>7, <2>1, <2>2
    <3>2. QED
      BY <1>2, <1>3, <2>1, <2>2, <3>1, LostFrame
  <2>4. Last(1)' = Last(1)
    BY <2>1, KeepView
  <2>5. ProgramInv'
    BY <1>2, <2>1, <2>2, <2>4, ProgramFrame
  <2>6. QED
    BY <2>3, <2>5
<1>10. CASE SendPacket(C)
  <2>1. Broken(C) /\ client' = client /\ Pc(C) = "send"
    BY <1>4, <1>10 DEF SendPacket, SendAccepted, Pc
  <2>2. Writes(C)
    BY <1>3, <2>1, EndRecord
  <2>3. QED
    BY <1>8, <2>1, <2>2
<1>11. CASE ReturnFromWrite(C)
  <2>1. /\ Pc(C) = "send" /\ rec[C].checkpoint = Turns[Turn(C)] /\ links' = links /\ TurnOver(C)
        /\ Become(C, reset_sended_byte([rec[C] EXCEPT !.turn = @ + 1, !.pc = "idle"]))
    BY <1>11 DEF ReturnFromWrite, Pc, Turn
  <2>2. Turn(C)' = Turn(C) + 1 /\ Pc(C)' = "idle"
    BY <1>3, <2>1, ReturnView
  <2>3. client'.pc = client.pc /\ client'.at = client.at + 1
    <3>1. client \in [pc : {"connect", "reconnect", "turns", "ok", "failed"}, at : Nat \ {0}]
      BY TypeFacts
    <3>2. client' = [client EXCEPT !.at = @ + 1]
      BY <1>3, <2>1 DEF TurnOver
    <3>3. QED
      BY <3>1, <3>2
  <2>4. Writes(C) /\ WritesAt(C[2], Turn(C))
    BY <1>3, <2>1, EndRecord, RoleFacts
  <2>5. LastSafe => Turn(C)' \in 1 .. Len(Turns) /\ ~ Writes(C)'
    <3> HAVE LastSafe
    <3>1. Turns[Turn(C)] = 1 /\ Turn(C) < Len(Turns) /\ Turn(C) \in 1 .. Len(Turns)
      BY <1>3, <1>6, <1>7, <2>1, <2>4
    <3>2. Turn(C) + 1 \in 1 .. Len(Turns)
      BY <1>3, <3>1
    <3>3. ~ WritesAt(C[2], Turn(C) + 1)
      BY <1>3, <2>4, <3>1, <3>2, RoleFacts
    <3>4. ~ Writes(C)'
      BY <1>2, <2>2, <3>3 DEF Writes, WritesAt, Turn
    <3>5. QED
      BY <2>2, <3>2, <3>4
  <2>6. LostInv'
    BY <1>2, <1>3, <2>1, <2>2, <2>5, LostFrame
  <2>7. Last(1)' = Last(1)
    BY <2>1, KeepView
  <2>8. ProgramInv'
    BY <1>2, <2>1, <2>2, <2>3, <2>7, ProgramFrame
  <2>9. QED
    BY <2>6, <2>8
<1>12. CASE ReadFails(C)
  <2>1. Reads(C) /\ Pc(C) \in {"idle", "reload"} /\ client' = client
    BY <1>12 DEF ReadFails, Loading, Pc
  <2>2. Broken(C)
    BY <1>4, <1>12 DEF ReadFails, DIM
  <2>3. QED
    BY <1>4, <1>8, <2>1, <2>2
<1>13. ~ ReadAck(C) /\ ~ AckEof(C) /\ ~ ReAck(C) /\ ~ TakePart(C) /\ ~ Take(C)
  BY <1>4 DEF ReadAck, AckEof, ReAck, TakePart, Take, Pc
<1>14. ~ ReadPacket(C)
  BY <1>4 DEF ReadPacket, DIM
<1>15. ~ ReAccept(C)
  BY <1>3 DEF ReAccept
<1>16. QED
  BY <1>1, <1>9, <1>10, <1>11, <1>12, <1>13, <1>14, <1>15 DEF Call, Writer, Reader

\* The calls, whatever the client knows.
LEMMA SingleCall ==
    ASSUME TypesInv, Single(test), SingleInv, NEW p \in {C, S}, Call(p)
    PROVE  SingleInv'
<1>1. CASE CoreInv
  BY <1>1, CoreCall DEF SingleInv
<1>2. CASE LostInv
  BY <1>2, LostCall DEF SingleInv
<1>3. QED
  BY <1>1, <1>2 DEF SingleInv

\* Every step.
LEMMA SingleStep ==
    ASSUME TypesInv, Single(test), SingleInv, ~ LastAckLost, [Next]_vars
    PROVE  SingleInv'
<1>1. \A k \in Conns : \A e \in Ends : <<k, e>> \in {C, S}
  BY SoloFacts DEF Ends, C, S
<1>2. CASE Connect
  BY <1>2, SingleConnect
<1>3. CASE \E k \in Conns : ReConnect(k)
  BY <1>3, SingleReConnect
<1>4. CASE Recovered
  BY <1>4, SingleRecovered
<1>5. CASE PassFailed
  BY <1>5, SinglePassFailed
<1>6. CASE ClientDone
  BY <1>6, SingleClientDone
<1>7. CASE (\E k \in Conns : Call(<<k, "c">>)) \/ \E k \in Conns : Call(<<k, "s">>)
  BY <1>1, <1>7, SingleCall DEF Ends
<1>8. CASE Accept
  BY <1>8, SingleAccept
<1>9. CASE Join
  BY <1>9, SingleJoin
<1>10. CASE \E X \in Groups : Fall(X) \/ ComeBack(X)
  <2>1. CASE \E X \in Groups : Fall(X)
    BY <2>1, SingleFall
  <2>2. CASE \E X \in Groups : ComeBack(X)
    <3>1. UNCHANGED <<test, links, rec, client, server, rip>>
      BY <2>2 DEF ComeBack
    <3>2. QED
      BY <3>1, SingleKept
  <2>3. QED
    BY <1>10, <2>1, <2>2
<1>11. CASE UNCHANGED vars
  <2>1. UNCHANGED <<test, links, rec, client, server, rip>>
    BY <1>11 DEF vars
  <2>2. QED
    BY <2>1, SingleKept
<1>12. QED
  BY <1>2, <1>3, <1>4, <1>5, <1>6, <1>7, <1>8, <1>9, <1>10, <1>11 DEF Next, ClientMain, Recovery, ServerMain, Network

\* The first state.
LEMMA SingleInit ==
    ASSUME Init, Single(test)
    PROVE  SingleInv
<1> DEFINE r == [con |-> 0, pc |-> "idle", turn |-> 1, checkpoint |-> 0, ack |-> 0,
                 lastid |-> -1, buffer |-> <<>>, quota |-> 0, rd |-> 0, tent |-> 0]
<1>1. /\ test \in Tests /\ links = [k \in Conns |-> <<>>] /\ rec = [p \in Points |-> r]
      /\ client = [pc |-> "connect", at |-> 1]
      /\ server = [pc |-> "accept", at |-> 1] /\ rip = [at |-> 1, ris |-> 0, n |-> 0]
  BY DEF Init
<1>2. TypesInv
  BY TypesInit
<1>3. Points = {C, S} /\ 1 \in Conns /\ Len(Turns) \in Nat \ {0} /\ \A t \in 1 .. Len(Turns) : Turns[t] \in Nat \ {0}
  BY <1>2, SoloFacts, RoleFacts
<1>4. Last(1) = 0
  BY <1>1, <1>3 DEF Last
<1>5. \A p \in {C, S} : /\ Con(p) = 0 /\ Pc(p) = "idle" /\ Turn(p) = 1 /\ rec[p].checkpoint = 0 /\ rec[p].ack = 0
                        /\ rec[p].rd = 0 /\ rec[p].lastid = -1 /\ rec[p].quota = 0
  BY <1>1, <1>3 DEF Con, Pc, Turn
<1>6. SocketInv
  BY <1>4, <1>5 DEF SocketInv
<1>7. TurnInv
  <2>1. Turns[1] \in Nat \ {0}
    BY <1>3
  <2>2. Even
    BY <1>5 DEF Even
  <2>3. QED
    BY <1>5, <2>1, <2>2, PeerFacts DEF TurnInv
<1>8. \A p \in {C, S} : RecordInv(p)
  BY <1>5 DEF RecordInv
<1>9. \A p \in {C, S} : HoldInv(p)
  BY <1>5 DEF HoldInv, Holds
<1>10. CoreInv
  BY <1>4, <1>6, <1>7, <1>8, <1>9 DEF CoreInv
<1>11. ProgramInv
  BY <1>1, <1>4, <1>5 DEF ProgramInv
<1>12. QED
  BY <1>10, <1>11 DEF SingleInv

\* The programs run one test.
LEMMA TestStays ==
    ASSUME [Next]_vars
    PROVE  test' = test
<1>1. CASE Next
  BY <1>1 DEF Next, ClientMain, Recovery, ServerMain, Network, Connect, ReConnect, Recovered, PassFailed, ClientDone,
              Accept, Join, Call, Fall, ComeBack
<1>2. CASE UNCHANGED vars
  BY <1>2 DEF vars
<1>3. QED
  BY <1>1, <1>2

\* What the invariant says of the properties.
LEMMA SingleAcked ==
    ASSUME TypesInv, Single(test), SingleInv
    PROVE  AckedReturned
<1> SUFFICES ASSUME NEW p \in Points, Alive(Other(p[2]))
             PROVE  LET o == rec[<<p[1], Other(p[2])>>] IN
                    /\ Writes(p) /\ rec[p].checkpoint > 0 =>
                         o.turn > rec[p].turn \/ (o.turn = rec[p].turn /\ o.rd >= rec[p].checkpoint)
                    /\ Reads(p) => o.turn >= rec[p].turn
  BY DEF AckedReturned
<1> DEFINE o == Peer(p)
<1>1. p \in {C, S} /\ <<p[1], Other(p[2])>> = o /\ o \in {C, S} /\ Peer(o) = p
  <2>1. p \in {C, S}
    BY SoloFacts
  <2>2. QED
    BY <2>1, PeerFacts DEF Peer
<1>2. /\ Turn(p) \in Nat /\ Turn(o) \in Nat /\ rec[p].checkpoint \in Nat /\ rec[o].rd \in Nat
  <2>1. \A x \in {C, S} : Turn(x) \in 1 .. Len(Turns) + 1 /\ rec[x].checkpoint \in Nat /\ rec[x].rd \in Nat
    BY EndRecord
  <2>2. Len(Turns) \in Nat
    BY SoloFacts
  <2>3. QED
    BY <1>1, <2>1, <2>2
<1> HIDE DEF o
<1>3. SUFFICES /\ Writes(p) /\ rec[p].checkpoint > 0 =>
                    Turn(o) > Turn(p) \/ (Turn(o) = Turn(p) /\ rec[o].rd >= rec[p].checkpoint)
               /\ Reads(p) => Turn(o) >= Turn(p)
  BY <1>1 DEF Turn
<1>4. CASE CoreInv
  <2>1. TurnInv
    BY <1>4 DEF CoreInv
  <2>2. /\ Even \/ Behind(p) \/ Behind(o)
        /\ Reads(p) => Even
        /\ Even => Turn(o) = Turn(p)
        /\ Even /\ Writes(p) => rec[o].rd \in {rec[p].checkpoint, rec[p].checkpoint + 1}
        /\ Behind(p) => Turn(o) = Turn(p) + 1 /\ ~ Reads(p)
        /\ Behind(o) => rec[p].checkpoint = 0 /\ ~ Reads(p)
    BY <1>1, <2>1, TurnFacts DEF o
  <2>3. QED
    BY <1>2, <2>2
<1>5. CASE LostInv
  <2>1. p = S /\ o = C
    <3>1. ~ Alive("s")
      BY <1>5 DEF LostInv, Alive
    <3>2. Other(p[2]) # "s"
      BY <3>1
    <3>3. QED
      BY <1>1, <3>2, PeerFacts, EndFacts DEF o
  <2>2. QED
    BY <1>2, <1>5, <2>1 DEF LostInv
<1>6. QED
  BY <1>4, <1>5 DEF SingleInv

\* A Read returns the packet its peer is at.
LEMMA SingleIntact ==
    ASSUME TypesInv, Single(test), SingleInv, NEW p \in Points, rec[p].pc = "take"
    PROVE  rec[p].buffer = Packet(rec[p].turn, rec[p].rd)
<1>1. p \in {C, S} /\ Pc(p) = "take"
  BY SoloFacts DEF Pc
<1>2. ~ LostInv
  BY <1>1 DEF LostInv
<1>3. HoldInv(p)
  BY <1>1, <1>2, AtCore DEF SingleInv
<1>4. Even /\ rec[p].rd = rec[Peer(p)].checkpoint /\ rec[p].buffer = Current(Peer(p))
  BY <1>1, <1>3 DEF HoldInv
<1>5. Turn(Peer(p)) = Turn(p)
  BY <1>1, <1>4, PeerFacts DEF Even
<1>6. QED
  BY <1>4, <1>5 DEF Current, Turn

\* A Read that loads a packet holds no part of another.
LEMMA SingleWhole ==
    ASSUME TypesInv, Single(test), SingleInv, NEW p \in Points, rec[p].pc \in {"idle", "reload"}
    PROVE  rec[p].quota = 0
<1>1. p \in {C, S} /\ Pc(p) = rec[p].pc
  BY SoloFacts DEF Pc
<1>2. CASE rec[p].pc = "idle"
  BY <1>2 DEF TypesInv, CallInv
<1>3. CASE rec[p].pc = "reload"
  <2>1. ~ LostInv
    BY <1>1, <1>3 DEF LostInv
  <2>2. RecordInv(p)
    BY <1>1, <2>1, AtCore DEF SingleInv
  <2>3. QED
    BY <1>1, <1>3, <2>2 DEF RecordInv
<1>4. QED
  BY <1>2, <1>3

\* Both programs end the same way.
LEMMA SingleAgree ==
    ASSUME TypesInv, Single(test), SingleInv, LastSafe
    PROVE  Agree
<1>1. SUFFICES ASSUME Over("c"), Over("s") PROVE client.pc = server.pc
  BY DEF Agree
<1>2. client.pc \in {"ok", "failed"} /\ server.pc \in {"ok", "failed"}
  BY <1>1, EndFacts DEF Over, Alive
<1>3. ProgramInv /\ DOMAIN Turns = 1 .. Len(Turns) /\ Len(Turns) \in Nat
  BY TypeFacts, TestFacts DEF SingleInv
<1>4. CASE CoreInv
  <2>1. Even \/ Behind(C) \/ Behind(S)
    BY <1>4, PeerFacts, TurnFacts DEF CoreInv
  <2>2. Even => Turn(C) = Turn(S)
    BY DEF Even
  <2>3. Behind(C) => Turn(S) = Turn(C) + 1 /\ Pc(C) \in {"ack", "send"}
    BY PeerFacts DEF Behind
  <2>4. Behind(S) => Turn(C) = Turn(S) + 1 /\ Pc(S) \in {"ack", "send"}
    BY PeerFacts DEF Behind
  <2>5. /\ client.pc = "ok" => Turn(C) = Len(Turns) + 1
        /\ client.pc = "failed" => Turn(C) \in 1 .. Len(Turns) /\ Pc(C) \in {"idle", "ripristino"}
        /\ server.pc = "ok" => Turn(S) = Len(Turns) + 1
        /\ server.pc = "failed" => Pc(S) = "failed" /\ Turn(S) \in 1 .. Len(Turns)
    BY <1>3 DEF ProgramInv
  <2>6. QED
    BY <1>2, <1>3, <2>1, <2>2, <2>3, <2>4, <2>5
<1>5. CASE LostInv
  <2>1. server.pc = "failed" /\ Turn(C) \in 1 .. Len(Turns)
    BY <1>3, <1>5 DEF LostInv
  <2>2. client.pc # "ok"
    BY <1>3, <2>1 DEF ProgramInv
  <2>3. QED
    BY <1>2, <2>1, <2>2
<1>6. QED
  BY <1>4, <1>5 DEF SingleInv

\* The inductive invariant.
THEOREM ProgramsInvariance == Spec => []IInv
<1>1. Init => IInv
  BY TypesInit, SingleInit DEF IInv
<1>2. IInv /\ [Next]_vars => IInv'
  <2> SUFFICES ASSUME IInv, [Next]_vars PROVE IInv'
    OBVIOUS
  <2>1. TypesInv /\ TypesInv'
    BY TypesStep, TypesStutter DEF IInv
  <2>2. Single(test') => Single(test)
    BY TestStays
  <2>3. ~ LastAckLost /\ Single(test) => SingleInv'
    BY <2>1, SingleStep DEF IInv
  <2>4. QED
    BY <2>1, <2>2, <2>3 DEF IInv
<1>3. QED
  BY <1>1, <1>2, PTL DEF Spec

\* On one connection, when falls spare the ack of the last packet of a Write, what an end
\* counts as sent has been returned by the other end's Reads, while the other program lives.
THEOREM ProgramsAcked ==
    ASSUME ~ LastAckLost, \A t \in Tests : Single(t)
    PROVE  Spec => []AckedReturned
<1>1. IInv => AckedReturned
  <2> SUFFICES ASSUME IInv PROVE AckedReturned
    OBVIOUS
  <2>1. TypesInv /\ Single(test)
    BY TypeFacts DEF IInv
  <2>2. QED
    BY <2>1, SingleAcked DEF IInv
<1>2. QED
  BY <1>1, ProgramsInvariance, PTL

\* Under the same assumptions Reads return the packets written, each once, from its first
\* part on, and in order, and never take the words of one for another's or for an ack, in
\* either direction: no packet is loaded over one that is returned in part.
THEOREM ProgramsIntact ==
    ASSUME ~ LastAckLost, \A t \in Tests : Single(t)
    PROVE  Spec => Intact
<1>1. IInv => [\A p \in Points :
                 /\ rec[p].pc = "take" /\ rec'[p].pc # "ripristino" /\ rec'[p] # rec[p]
                      => rec[p].buffer = Packet(rec[p].turn, rec[p].rd)
                 /\ rec[p].pc \in {"idle", "reload"} /\ rec'[p].pc = "take" => rec[p].quota = 0]_vars
  <2> SUFFICES ASSUME IInv, NEW p \in Points
               PROVE  /\ rec[p].pc = "take" => rec[p].buffer = Packet(rec[p].turn, rec[p].rd)
                      /\ rec[p].pc \in {"idle", "reload"} => rec[p].quota = 0
    OBVIOUS
  <2>1. TypesInv /\ Single(test)
    BY TypeFacts DEF IInv
  <2>2. QED
    BY <2>1, SingleIntact, SingleWhole DEF IInv
<1>2. QED
  BY <1>1, ProgramsInvariance, PTL DEF Intact

\* And the two programs agree on how the test ended, unless its last Write is the client's
\* and one packet long: its ack may then be the RST of a server that has given up.
THEOREM ProgramsAgree ==
    ASSUME ~ LastAckLost, \A t \in Tests : Single(t)
    PROVE  Spec => [](LastSafe => Agree)
<1>1. IInv => (LastSafe => Agree)
  <2> SUFFICES ASSUME IInv, LastSafe PROVE Agree
    OBVIOUS
  <2>1. TypesInv /\ Single(test)
    BY TypeFacts DEF IInv
  <2>2. QED
    BY <2>1, SingleAgree DEF IInv
<1>2. QED
  BY <1>1, ProgramsInvariance, PTL
=============================================================================

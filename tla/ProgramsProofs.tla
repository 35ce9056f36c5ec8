--------------------------- MODULE ProgramsProofs ---------------------------
(***************************************************************************)
(* Proofs about Programs, for every test: the types of the programs, and   *)
(* of the TCP connections they leave behind, whatever falls and is lost.   *)
(***************************************************************************)
EXTENDS ProgramsInv, SequenceTheorems, FiniteSetTheorems, TLAPS

-----------------------------------------------------------------------------
(***************************************************************************)
(* The test and the links.                                                 *)
(***************************************************************************)
LEMMA TestFacts ==
    ASSUME test \in Tests
    PROVE  /\ Cardinality(Conns) \in Nat \ {0} /\ Conns = 1 .. Cardinality(Conns)
           /\ Conns \subseteq Nat \ {0}
           /\ Turns \in Seq(Nat \ {0}) /\ Len(Turns) \in Nat /\ DOMAIN Turns = 1 .. Len(Turns)
           /\ \A t \in DOMAIN Turns : Turns[t] \in Nat \ {0}
           /\ test.first \in Ends
<1> DEFINE O == {test.order[i] : i \in DOMAIN test.order}
<1>1. test.order \in Seq(Nat \ {0}) /\ test.order # <<>>
  BY ProgramsAssumption
<1>2. DOMAIN test.order = 1 .. Len(test.order) /\ Len(test.order) \in Nat \ {0}
  BY <1>1
<1>3. IsFiniteSet(1 .. Len(test.order))
  <2>1. 1 \in Int /\ Len(test.order) \in Int
    BY <1>2
  <2>2. QED
    BY ONLY <2>1, FS_Interval
<1>4. IsFiniteSet(O) /\ O # {}
  <2>1. test.order \in Surjection(DOMAIN test.order, O)
    BY <1>1, <1>2 DEF Surjection
  <2>2. IsFiniteSet(DOMAIN test.order)
    BY <1>2, <1>3
  <2>3. IsFiniteSet(O)
    BY <2>1, <2>2, FS_Surjection
  <2>4. test.order[1] \in O
    BY <1>2
  <2>5. QED
    BY <2>3, <2>4
<1>5. Cardinality(O) \in Nat /\ Cardinality(O) # 0
  BY <1>4, FS_CardinalityType, FS_EmptySet
<1>6. Conns = 1 .. Cardinality(O)
  BY DEF Conns
<1>7. Cardinality(Conns) = Cardinality(O)
  BY <1>5, <1>6, FS_Interval
<1>8. Turns \in Seq(Nat \ {0}) /\ test.first \in Ends
  BY ProgramsAssumption DEF Turns
<1>9. Len(Turns) \in Nat /\ DOMAIN Turns = 1 .. Len(Turns) /\ \A t \in DOMAIN Turns : Turns[t] \in Nat \ {0}
  BY <1>8
<1>10. QED
  BY <1>5, <1>6, <1>7, <1>8, <1>9

\* What depends on the test alone stays.
LEMMA SameTest ==
    ASSUME test' = test
    PROVE  Conns' = Conns /\ Points' = Points /\ Turns' = Turns /\ Groups' = Groups
BY DEF Conns, Points, Turns, Groups

\* The two ends.
LEMMA EndFacts ==
    /\ \A e \in Ends : Other(e) \in Ends /\ Other(e) # e /\ Other(Other(e)) = e
    /\ Other("c") = "s" /\ Other("s") = "c"
    /\ "c" \in Ends /\ "s" \in Ends
BY DEF Ends, Other

\* An end of a record is a record and an end,
LEMMA PointFacts ==
    ASSUME NEW p \in Points
    PROVE  p[1] \in Conns /\ p[2] \in Ends /\ p = <<p[1], p[2]>>
BY DEF Points

\* and the other way round.
LEMMA AtPoint ==
    ASSUME NEW k \in Conns, NEW e \in Ends
    PROVE  <<k, e>> \in Points /\ <<k, e>>[1] = k /\ <<k, e>>[2] = e
BY DEF Points

\* A connection of record k is replaced by another state of it.
LEMMA SetLink ==
    ASSUME links \in [Conns -> Seq(LinkStates)], NEW k \in Conns, NEW c \in 1 .. Len(links[k]),
           NEW x \in LinkStates, NEW L, L = [links EXCEPT ![k] = [links[k] EXCEPT ![c] = x]]
    PROVE  /\ L \in [Conns -> Seq(LinkStates)]
           /\ \A j \in Conns : Len(L[j]) = Len(links[j])
           /\ \A j \in Conns : \A l \in 1 .. Len(links[j]) :
                L[j][l] = IF j = k /\ l = c THEN x ELSE links[j][l]
<1> DEFINE s == [links[k] EXCEPT ![c] = x]
<1>1. links[k] \in Seq(LinkStates)
  OBVIOUS
<1>2. /\ s \in Seq(LinkStates) /\ Len(s) = Len(links[k])
      /\ \A j \in 1 .. Len(links[k]) : s[j] = IF j = c THEN x ELSE links[k][j]
  BY <1>1, ExceptSeq
<1>3. L = [links EXCEPT ![k] = s]
  OBVIOUS
<1> HIDE DEF s
<1>4. QED
  BY <1>2, <1>3

\* A connection whose state at one end is set,
LEMMA WithState ==
    ASSUME NEW o \in LinkStates, NEW e \in Ends, NEW v \in States
    PROVE  /\ [o EXCEPT !.st[e] = v] = [queue |-> o.queue, st |-> [o.st EXCEPT ![e] = v]]
           /\ [o EXCEPT !.st[e] = v] \in LinkStates
<1> DEFINE f == [o.st EXCEPT ![e] = v]
<1>1. f \in [Ends -> States]
  BY DEF LinkStates
<1>2. [o EXCEPT !.st[e] = v] = [o EXCEPT !.st = f]
  OBVIOUS
<1> HIDE DEF f
<1>3. [o EXCEPT !.st = f] = [queue |-> o.queue, st |-> f]
  BY <1>1 DEF LinkStates
<1>4. [o EXCEPT !.st = f] \in LinkStates
  BY <1>1 DEF LinkStates
<1>5. QED
  BY <1>2, <1>3, <1>4 DEF f

\* or what it carries to one end.
LEMMA WithQueue ==
    ASSUME NEW o \in LinkStates, NEW e \in Ends, NEW q \in Seq(Int)
    PROVE  /\ [o EXCEPT !.queue[e] = q] = [queue |-> [o.queue EXCEPT ![e] = q], st |-> o.st]
           /\ [o EXCEPT !.queue[e] = q] \in LinkStates
<1> DEFINE f == [o.queue EXCEPT ![e] = q]
<1>1. f \in [Ends -> Seq(Int)]
  BY DEF LinkStates
<1>2. [o EXCEPT !.queue[e] = q] = [o EXCEPT !.queue = f]
  OBVIOUS
<1> HIDE DEF f
<1>3. [o EXCEPT !.queue = f] = [queue |-> f, st |-> o.st]
  BY <1>1 DEF LinkStates
<1>4. [o EXCEPT !.queue = f] \in LinkStates
  BY <1>1 DEF LinkStates
<1>5. QED
  BY <1>2, <1>3, <1>4 DEF f

\* A connection and its parts.
LEMMA LinkFacts ==
    ASSUME links \in [Conns -> Seq(LinkStates)], NEW k \in Conns, NEW c \in 1 .. Len(links[k])
    PROVE  /\ links[k][c] \in LinkStates /\ links[k][c] = [queue |-> links[k][c].queue, st |-> links[k][c].st]
           /\ links[k][c].queue \in [Ends -> Seq(Int)] /\ links[k][c].st \in [Ends -> States]
<1>1. links[k] \in Seq(LinkStates)
  OBVIOUS
<1>2. links[k][c] \in LinkStates
  BY <1>1
<1>3. QED
  BY <1>2 DEF LinkStates

\* The state of a socket is replaced.
LEMMA PutFacts ==
    ASSUME links \in [Conns -> Seq(LinkStates)], NEW p \in Points, rec[p].con \in 1 .. Len(links[p[1]]),
           NEW v \in States
    PROVE  LET c == rec[p].con
               o == links[p[1]][c]
               L == Put(p, v) IN
           /\ L \in [Conns -> Seq(LinkStates)]
           /\ \A j \in Conns : Len(L[j]) = Len(links[j])
           /\ \A j \in Conns : \A l \in 1 .. Len(links[j]) :
                L[j][l] = IF j = p[1] /\ l = c THEN [queue |-> o.queue, st |-> [o.st EXCEPT ![p[2]] = v]]
                          ELSE links[j][l]
<1> DEFINE c == rec[p].con
<1> DEFINE k == p[1]
<1> DEFINE o == links[k][c]
<1> DEFINE x == [o EXCEPT !.st[p[2]] = v]
<1>1. k \in Conns /\ p[2] \in Ends /\ c \in 1 .. Len(links[k])
  BY PointFacts
<1>2. o \in LinkStates
  BY <1>1, LinkFacts
<1>3. x = [queue |-> o.queue, st |-> [o.st EXCEPT ![p[2]] = v]] /\ x \in LinkStates
  BY <1>1, <1>2, WithState
<1>4. Put(p, v) = [links EXCEPT ![k] = [links[k] EXCEPT ![c] = x]]
  BY DEF Put
<1> DEFINE L == Put(p, v)
<1>5. /\ L \in [Conns -> Seq(LinkStates)]
      /\ \A j \in Conns : Len(L[j]) = Len(links[j])
      /\ \A j \in Conns : \A l \in 1 .. Len(links[j]) : L[j][l] = IF j = k /\ l = c THEN x ELSE links[j][l]
  <2> HIDE DEF c, k, x, L
  <2>1. L = [links EXCEPT ![k] = [links[k] EXCEPT ![c] = x]]
    BY <1>4 DEF L
  <2>2. QED
    BY <1>1, <1>3, <2>1, SetLink
<1>6. QED
  BY <1>3, <1>5

\* A read of n words.
LEMMA TakenFacts ==
    ASSUME links \in [Conns -> Seq(LinkStates)], NEW p \in Points, rec[p].con \in 1 .. Len(links[p[1]]),
           NEW n \in Nat
    PROVE  LET c == rec[p].con
               q == SubSeq(Queue(p), n + 1, Len(Queue(p)))
               o == links[p[1]][c]
               L == Taken(p, n) IN
           /\ q \in Seq(Int)
           /\ L \in [Conns -> Seq(LinkStates)]
           /\ \A j \in Conns : Len(L[j]) = Len(links[j])
           /\ \A j \in Conns : \A l \in 1 .. Len(links[j]) :
                L[j][l] = IF j = p[1] /\ l = c THEN [queue |-> [o.queue EXCEPT ![p[2]] = q], st |-> o.st]
                          ELSE links[j][l]
<1> DEFINE c == rec[p].con
<1> DEFINE k == p[1]
<1> DEFINE e == p[2]
<1> DEFINE q == SubSeq(Queue(p), n + 1, Len(Queue(p)))
<1>1. k \in Conns /\ e \in Ends /\ c \in 1 .. Len(links[k])
  BY PointFacts
<1>2. Queue(p) = links[k][c].queue[e] /\ Queue(p) \in Seq(Int)
  <2>1. Queue(p) = links[k][c].queue[e]
    BY DEF Queue
  <2> HIDE DEF k, c, e
  <2>2. links[k][c].queue \in [Ends -> Seq(Int)]
    BY <1>1, LinkFacts
  <2>3. QED
    BY <1>1, <2>1, <2>2
<1>3. q \in Seq(Int)
  <2> DEFINE s == Queue(p)
  <2>1. s \in Seq(Int)
    BY <1>2
  <2> HIDE DEF s
  <2>2. Len(s) \in Nat /\ \A i \in n + 1 .. Len(s) : s[i] \in Int
    BY <2>1
  <2>3. SubSeq(s, n + 1, Len(s)) \in Seq(Int)
    BY <2>1, <2>2, SubSeqProperties
  <2>4. QED
    BY <2>3 DEF s
<1> DEFINE o == links[k][c]
<1> DEFINE x == [o EXCEPT !.queue[e] = q]
<1>4. Taken(p, n) = [links EXCEPT ![k] = [links[k] EXCEPT ![c] = x]]
  BY <1>2 DEF Taken
<1>5. o \in LinkStates
  BY <1>1, LinkFacts
<1>6. x = [queue |-> [o.queue EXCEPT ![e] = q], st |-> o.st]
  BY <1>1, <1>3, <1>5, WithQueue
<1>7. x \in LinkStates
  BY <1>1, <1>3, <1>5, WithQueue
<1> DEFINE L == Taken(p, n)
<1>8. /\ L \in [Conns -> Seq(LinkStates)]
      /\ \A j \in Conns : Len(L[j]) = Len(links[j])
      /\ \A j \in Conns : \A l \in 1 .. Len(links[j]) : L[j][l] = IF j = k /\ l = c THEN x ELSE links[j][l]
  <2> HIDE DEF c, k, x, L
  <2>1. L = [links EXCEPT ![k] = [links[k] EXCEPT ![c] = x]]
    BY <1>4 DEF L
  <2>2. QED
    BY <1>1, <1>7, <2>1, SetLink
<1> HIDE DEF x
<1>9. QED
  BY <1>3, <1>6, <1>8

\* Words sent on a connection that is up.
LEMMA SentFacts ==
    ASSUME links \in [Conns -> Seq(LinkStates)], NEW p \in Points, rec[p].con \in 1 .. Len(links[p[1]]),
           NEW words \in Seq(Int), Sent(p, words), Sock(p) = "up"
    PROVE  LET c == rec[p].con
               e == Other(p[2])
               o == links[p[1]][c] IN
           /\ o.queue[e] \in Seq(Int) /\ o.queue[e] \o words \in Seq(Int)
           /\ links' \in [Conns -> Seq(LinkStates)]
           /\ \A j \in Conns : Len(links'[j]) = Len(links[j])
           /\ \A j \in Conns : \A l \in 1 .. Len(links[j]) :
                links'[j][l] = IF j = p[1] /\ l = c
                               THEN [queue |-> [o.queue EXCEPT ![e] = o.queue[e] \o words], st |-> o.st]
                               ELSE links[j][l]
<1> DEFINE c == rec[p].con
<1> DEFINE k == p[1]
<1> DEFINE e == Other(p[2])
<1> DEFINE q == links[k][c].queue[e] \o words
<1>1. k \in Conns /\ e \in Ends /\ c \in 1 .. Len(links[k])
  BY PointFacts, EndFacts
<1>2. links[k][c].queue[e] \in Seq(Int) /\ q \in Seq(Int)
  <2> HIDE DEF k, c, e
  <2>1. links[k][c].queue \in [Ends -> Seq(Int)]
    BY <1>1, LinkFacts
  <2>2. links[k][c].queue[e] \in Seq(Int)
    BY <1>1, <2>1
  <2>3. QED
    BY <2>2, ConcatProperties
<1> DEFINE o == links[k][c]
<1> DEFINE x == [o EXCEPT !.queue[e] = q]
<1>3. links' = [links EXCEPT ![k] = [links[k] EXCEPT ![c] = x]]
  BY DEF Sent
<1>5. o \in LinkStates
  BY <1>1, LinkFacts
<1>6. x = [queue |-> [o.queue EXCEPT ![e] = q], st |-> o.st]
  BY <1>1, <1>2, <1>5, WithQueue
<1>7. x \in LinkStates
  BY <1>1, <1>2, <1>5, WithQueue
<1>8. /\ links' \in [Conns -> Seq(LinkStates)]
      /\ \A j \in Conns : Len(links'[j]) = Len(links[j])
      /\ \A j \in Conns : \A l \in 1 .. Len(links[j]) : links'[j][l] = IF j = k /\ l = c THEN x ELSE links[j][l]
  <2> HIDE DEF c, k, x
  <2>1. QED
    BY <1>1, <1>3, <1>7, SetLink
<1> HIDE DEF x
<1>9. QED
  BY <1>2, <1>6, <1>8

\* What any step of a call leaves of the links.
LEMMA CallKeepsLinks ==
    ASSUME links \in [Conns -> Seq(LinkStates)], NEW p \in Points, rec[p].con \in 1 .. Len(links[p[1]]),
           \/ UNCHANGED links
           \/ ErrorReported(p)
           \/ \E words \in Seq(Int) : Sent(p, words)
           \/ \E n \in Nat : links' = Taken(p, n)
    PROVE  /\ links' \in [Conns -> Seq(LinkStates)]
           /\ \A j \in Conns : Len(links'[j]) = Len(links[j])
<1>0. "dead" \in States
  BY DEF States
<1>1. links' = Put(p, "dead") => links' \in [Conns -> Seq(LinkStates)] /\ \A j \in Conns : Len(links'[j]) = Len(links[j])
  <2> DEFINE L == Put(p, "dead")
  <2>1. L \in [Conns -> Seq(LinkStates)] /\ \A j \in Conns : Len(L[j]) = Len(links[j])
    BY <1>0, PutFacts
  <2> HIDE DEF L
  <2>2. QED
    BY <2>1 DEF L
<1>2. ErrorReported(p) => links' = links \/ links' = Put(p, "dead")
  BY DEF ErrorReported
<1>3. ASSUME NEW words \in Seq(Int), Sent(p, words)
      PROVE  links' \in [Conns -> Seq(LinkStates)] /\ \A j \in Conns : Len(links'[j]) = Len(links[j])
  <2>1. CASE Sock(p) = "up"
    BY <1>3, <2>1, SentFacts
  <2>2. CASE Sock(p) = "fin" /\ links' \in {links, Put(p, "dead")}
    BY <2>2, <1>1
  <2>3. QED
    BY <1>3, <2>1, <2>2 DEF Sent
<1>4. ASSUME NEW n \in Nat, links' = Taken(p, n)
      PROVE  links' \in [Conns -> Seq(LinkStates)] /\ \A j \in Conns : Len(links'[j]) = Len(links[j])
  <2> DEFINE L == Taken(p, n)
  <2>1. L \in [Conns -> Seq(LinkStates)] /\ \A j \in Conns : Len(L[j]) = Len(links[j])
    BY TakenFacts
  <2> HIDE DEF L
  <2>2. QED
    BY <1>4, <2>1 DEF L
<1>5. QED
  BY <1>1, <1>2, <1>3, <1>4
-----------------------------------------------------------------------------
(***************************************************************************)
(* Types, one lemma per action.                                            *)
(***************************************************************************)
LEMMA CallNames ==
    ASSUME NEW p \in Points
    PROVE  /\ Writes(p) <=> WritesAt(p[2], rec[p].turn)
           /\ Reads(p) <=> ReadsAt(p[2], rec[p].turn)
BY DEF Writes, Reads, WritesAt, ReadsAt

\* The end of a call is on one of its connections.
LEMMA OnLink ==
    ASSUME TypesInv, NEW p \in Points, Active(p)
    PROVE  /\ rec[p].con \in 1 .. Len(links[p[1]]) /\ rec[p] \in RecordStates
           /\ CallInv(p[2], rec[p]) /\ links \in [Conns -> Seq(LinkStates)]
           /\ p[1] \in Conns /\ p[2] \in Ends
           /\ links[p[1]][rec[p].con].queue[p[2]] \in Seq(Int)
           /\ Queue(p) = links[p[1]][rec[p].con].queue[p[2]]
           /\ p[2] = "c" => client.pc = "turns"
<1> DEFINE k == p[1]
<1>1. k \in Conns /\ p[2] \in Ends /\ p = <<k, p[2]>>
  BY PointFacts
<1>2. links \in [Conns -> Seq(LinkStates)] /\ rec[p] \in RecordStates /\ CallInv(p[2], rec[p]) /\ rec[p].con <= Len(links[k])
  BY DEF TypesInv, StateInv, Last
<1>3. rec[p].con \in Nat /\ links[k] \in Seq(LinkStates) /\ Len(links[k]) \in Nat
  BY <1>1, <1>2 DEF RecordStates
<1>4. rec[p].con # 0 /\ (p[2] = "c" => client.pc = "turns")
  <2>1. CASE p[2] = "c"
    <3>1. client.pc = "turns" /\ links[k] # <<>> /\ rec[p].con = Len(links[k])
      BY <1>1, <2>1 DEF Active, TypesInv, ConnectInv, Last
    <3>2. QED
      BY <1>3, <3>1
  <2>2. CASE p[2] # "c"
    BY <2>2 DEF Active
  <2>3. QED
    BY <2>1, <2>2
<1>5. rec[p].con \in 1 .. Len(links[k])
  BY <1>2, <1>3, <1>4
<1>6. links[k][rec[p].con].queue[p[2]] \in Seq(Int)
  <2>1. links[k][rec[p].con].queue \in [Ends -> Seq(Int)]
    BY <1>1, <1>2, <1>5, LinkFacts
  <2>2. QED
    BY <1>1, <2>1
<1>7. QED
  BY <1>1, <1>2, <1>4, <1>5, <1>6 DEF Queue

\* What a step of a call owes to the types.
LEMMA StepTypes ==
    ASSUME TypesInv, NEW p \in Points, Active(p), UNCHANGED <<test, up, falls, server, rip>>,
           NEW r \in RecordStates, rec' = [rec EXCEPT ![p] = r], CallInv(p[2], r),
           r.con <= Len(links[p[1]]), p[2] = "c" => r.con = rec[p].con,
           links' \in [Conns -> Seq(LinkStates)], \A j \in Conns : Len(links'[j]) = Len(links[j]),
           UNCHANGED client \/ TurnOver(p)
    PROVE  TypesInv'
<1>1. Conns' = Conns /\ Points' = Points /\ Turns' = Turns
  BY SameTest
<1>2. \A k \in Conns : Last(k)' = Last(k) /\ (links'[k] = <<>> <=> links[k] = <<>>)
  <2> TAKE k \in Conns
  <2>1. links[k] \in Seq(LinkStates) /\ links'[k] \in Seq(LinkStates) /\ Len(links'[k]) = Len(links[k])
    BY DEF TypesInv, StateInv
  <2>2. QED
    BY <2>1 DEF Last
<1>3. \A q \in Points : rec'[q] = IF q = p THEN r ELSE rec[q]
  BY DEF TypesInv, StateInv
<1>4. /\ client' \in [pc : {"connect", "reconnect", "turns", "ok", "failed"}, at : Nat \ {0}]
      /\ client'.pc = client.pc
      /\ client' = client \/ client.pc = "turns"
  <2>1. client \in [pc : {"connect", "reconnect", "turns", "ok", "failed"}, at : Nat \ {0}]
    BY DEF TypesInv, StateInv
  <2>2. client' = client \/ (p[2] = "c" /\ client' = [client EXCEPT !.at = @ + 1])
    BY DEF TurnOver
  <2>3. p[2] = "c" => client.pc = "turns"
    BY OnLink
  <2>4. QED
    BY ONLY <2>1, <2>2, <2>3
<1>5. StateInv'
  <2>1. rec' \in [Points -> RecordStates]
    BY DEF TypesInv, StateInv
  <2>2. (Alive("c") <=> Alive("c")')
    BY <1>4 DEF Alive
  <2>3. QED
    BY <1>1, <1>4, <2>1, <2>2 DEF TypesInv, StateInv
<1>6. \A q \in Points : (CallInv(q[2], rec[q]) /\ rec[q].con <= Last(q[1]))'
  <2> TAKE q \in Points
  <2>1. CallInv(q[2], rec[q])' <=> CallInv(q[2], rec'[q])
    BY <1>1 DEF CallInv, WritesAt, ReadsAt, Parts
  <2>2. QED
    BY <1>2, <1>3, <2>1, PointFacts DEF TypesInv, Last
<1>7. ConnectInv'
  <2>1. \A k \in Conns : rec'[<<k, "c">>].con = rec[<<k, "c">>].con
    <3> TAKE k \in Conns
    <3>1. <<k, "c">> \in Points /\ <<k, "c">>[2] = "c"
      BY AtPoint, EndFacts
    <3>2. CASE <<k, "c">> = p
      BY <1>3, <3>1, <3>2
    <3>3. CASE <<k, "c">> # p
      BY <1>3, <3>1, <3>3
    <3>4. QED
      BY <3>2, <3>3
  <2>2. client.pc \in {"connect", "reconnect"} => \A k \in Conns : rec'[<<k, "c">>].pc = "idle"
    <3> SUFFICES ASSUME client.pc \in {"connect", "reconnect"}, NEW k \in Conns
                 PROVE  rec'[<<k, "c">>].pc = "idle"
      OBVIOUS
    <3>1. <<k, "c">> \in Points /\ <<k, "c">>[2] = "c"
      BY AtPoint, EndFacts
    <3>2. p # <<k, "c">>
      BY <3>1, OnLink
    <3>3. QED
      BY <1>3, <3>1, <3>2 DEF TypesInv, ConnectInv
  <2>3. QED
    BY <1>1, <1>2, <1>4, <2>1, <2>2 DEF TypesInv, ConnectInv
<1>8. QED
  BY <1>1, <1>5, <1>6, <1>7 DEF TypesInv

\* What is left to show of a step of a call that replaces the record of its end.
LEMMA CallTypes ==
    ASSUME TypesInv, NEW p \in Points, Active(p), UNCHANGED <<test, up, falls, server, rip>>,
           NEW r \in RecordStates, rec' = [rec EXCEPT ![p] = r], r.con = rec[p].con, CallInv(p[2], r),
           links' \in [Conns -> Seq(LinkStates)], \A j \in Conns : Len(links'[j]) = Len(links[j]),
           UNCHANGED client \/ TurnOver(p)
    PROVE  TypesInv'
<1>1. r.con <= Len(links[p[1]])
  BY OnLink
<1>2. QED
  BY <1>1, StepTypes

Ambient == UNCHANGED <<test, up, falls, server, rip>>

\* The record of an end in a call, and the counters that CallInv relates.
LEMMA AtRecord ==
    ASSUME TypesInv, NEW p \in Points, Active(p)
    PROVE  LET r == rec[p] IN
           /\ r \in RecordStates /\ CallInv(p[2], r)
           /\ r.con \in Nat /\ r.pc \in Places /\ r.turn \in Nat \ {0} /\ r.checkpoint \in Nat /\ r.ack \in Int
           /\ r.lastid \in Int /\ r.buffer \in Seq(Int) /\ r.quota \in Nat /\ r.rd \in Nat /\ r.tent \in Nat
           /\ Turns \in Seq(Nat \ {0}) /\ Len(Turns) \in Nat /\ DOMAIN Turns = 1 .. Len(Turns)
           /\ \A t \in DOMAIN Turns : Turns[t] \in Nat \ {0}
           /\ MAX_TENTATIVI \in Nat \ {0}
<1>1. rec[p] \in RecordStates /\ CallInv(p[2], rec[p])
  BY OnLink
<1>2. test \in Tests
  BY DEF TypesInv, StateInv
<1>3. QED
  BY <1>1, <1>2, TestFacts, ProgramsAssumption DEF RecordStates

\* The record of any end.
LEMMA IsRecord ==
    ASSUME TypesInv, NEW p \in Points
    PROVE  rec[p] \in RecordStates
BY DEF TypesInv, StateInv

\* The places a call can be at.
LEMMA PlaceNames ==
    {"idle", "send", "ack", "dup", "reload", "take", "ripristino", "failed", "misread"} \subseteq Places
BY DEF Places

\* A record that goes to another place.
LEMMA WithPlace ==
    ASSUME NEW r \in RecordStates, NEW v \in Places
    PROVE  LET q == [r EXCEPT !.pc = v] IN
           /\ q \in RecordStates /\ q.con = r.con /\ q.pc = v /\ q.turn = r.turn /\ q.checkpoint = r.checkpoint
           /\ q.ack = r.ack /\ q.lastid = r.lastid /\ q.buffer = r.buffer /\ q.rd = r.rd /\ q.quota = r.quota /\ q.tent = r.tent
BY DEF RecordStates

\* A failed system call.
LEMMA TypesBroken ==
    ASSUME TypesInv, NEW p \in Points, Active(p), Ambient, UNCHANGED client,
           GoTo(p, "ripristino"), UNCHANGED links \/ ErrorReported(p) \/ \E n \in Nat : links' = Taken(p, n),
           rec[p].pc # "failed"
    PROVE  TypesInv'
<1> DEFINE r == [rec[p] EXCEPT !.pc = "ripristino"]
<1>1. /\ r \in RecordStates /\ r.con = rec[p].con /\ r.pc = "ripristino" /\ r.turn = rec[p].turn
      /\ r.checkpoint = rec[p].checkpoint /\ r.rd = rec[p].rd /\ r.quota = rec[p].quota /\ r.buffer = rec[p].buffer /\ r.tent = rec[p].tent
  BY PlaceNames, IsRecord, WithPlace
<1>2. CallInv(p[2], r)
  BY <1>1, AtRecord DEF CallInv
<1>3. rec' = [rec EXCEPT ![p] = r]
  BY DEF GoTo, Become
<1>4. links' \in [Conns -> Seq(LinkStates)] /\ \A j \in Conns : Len(links'[j]) = Len(links[j])
  BY OnLink, CallKeepsLinks
<1> HIDE DEF r
<1>5. QED
  BY <1>1, <1>2, <1>3, <1>4, OnLink, CallTypes DEF Ambient

\* The steps of a Write.
LEMMA TypesWrite ==
    ASSUME TypesInv, NEW p \in Points, Active(p), Ambient, Write(p)
    PROVE  TypesInv'
<1> DEFINE q == [rec[p] EXCEPT !.pc = "send"]
<1> DEFINE r == [q EXCEPT !.ack = 0]
<1>0. /\ q \in RecordStates /\ q.con = rec[p].con /\ q.pc = "send" /\ q.turn = rec[p].turn
      /\ q.checkpoint = rec[p].checkpoint /\ q.rd = rec[p].rd /\ q.quota = rec[p].quota /\ q.buffer = rec[p].buffer /\ q.tent = rec[p].tent
  BY PlaceNames, IsRecord, WithPlace
<1>1. /\ r \in RecordStates /\ r.con = rec[p].con /\ r.pc = "send" /\ r.turn = rec[p].turn
      /\ r.checkpoint = rec[p].checkpoint /\ r.rd = rec[p].rd /\ r.quota = rec[p].quota /\ r.buffer = rec[p].buffer /\ r.tent = rec[p].tent
  <2> HIDE DEF q
  <2>1. q \in RecordStates /\ 0 \in Int
    BY <1>0
  <2>2. /\ r \in RecordStates /\ r.con = q.con /\ r.pc = q.pc /\ r.turn = q.turn /\ r.checkpoint = q.checkpoint
        /\ r.rd = q.rd /\ r.quota = q.quota /\ r.buffer = q.buffer /\ r.tent = q.tent
    BY ONLY <2>1 DEF RecordStates
  <2> HIDE DEF r
  <2>3. QED
    BY ONLY <1>0, <2>2
<1>2. CallInv(p[2], r)
  BY <1>1, AtRecord, CallNames DEF CallInv, Write
<1>3. rec' = [rec EXCEPT ![p] = r]
  BY IsRecord DEF Write, Become, RecordStates
<1>4. links' \in [Conns -> Seq(LinkStates)] /\ \A j \in Conns : Len(links'[j]) = Len(links[j])
  BY OnLink DEF Write
<1> HIDE DEF r
<1>5. QED
  BY <1>1, <1>2, <1>3, <1>4, OnLink, CallTypes DEF Ambient, Write

\* A packet is DIM words.
LEMMA PacketWords ==
    ASSUME NEW t \in DOMAIN Turns, NEW n \in Nat, test \in Tests
    PROVE  Packet(t, n) \in Seq(Int) /\ Len(Packet(t, n)) = DIM
BY TestFacts DEF Packet, HDR, DIM

LEMMA TypesSendPacket ==
    ASSUME TypesInv, NEW p \in Points, Active(p), Ambient, SendPacket(p)
    PROVE  TypesInv'
<1>1. CASE ~ SendAccepted(p)
  BY <1>1, TypesBroken DEF SendPacket, Broken
<1>2. CASE SendAccepted(p)
  <2> DEFINE r == [rec[p] EXCEPT !.pc = "ack"]
  <2>1. r \in RecordStates /\ r.con = rec[p].con
    BY IsRecord, PlaceNames DEF RecordStates
  <2>2. rec[p].turn \in DOMAIN Turns /\ rec[p].checkpoint < Turns[rec[p].turn]
    BY SMTT(30), AtRecord DEF SendPacket, CallInv, WritesAt
  <2>3. CallInv(p[2], r)
    BY <2>2, AtRecord DEF CallInv, RecordStates, SendPacket
  <2>4. rec' = [rec EXCEPT ![p] = r]
    BY <1>2 DEF SendPacket, GoTo, Become
  <2>5. Packet(rec[p].turn, rec[p].checkpoint) \in Seq(Int)
    BY <2>2, AtRecord, PacketWords DEF TypesInv, StateInv
  <2>6. \E words \in Seq(Int) : Sent(p, words)
    BY <1>2, <2>5 DEF SendPacket
  <2>7. links' \in [Conns -> Seq(LinkStates)] /\ \A j \in Conns : Len(links'[j]) = Len(links[j])
    BY <2>6, OnLink, CallKeepsLinks
  <2> HIDE DEF r
  <2>8. QED
    BY <2>1, <2>3, <2>4, <2>7, OnLink, CallTypes DEF Ambient, SendPacket
<1>3. QED
  BY <1>1, <1>2

LEMMA TypesReadAck ==
    ASSUME TypesInv, NEW p \in Points, Active(p), Ambient, ReadAck(p)
    PROVE  TypesInv'
<1>1. ASSUME NEW a \in Int, rec' = [rec EXCEPT ![p] = AckTest([rec[p] EXCEPT !.ack = a, !.pc = "send"])],
             links' \in [Conns -> Seq(LinkStates)], \A j \in Conns : Len(links'[j]) = Len(links[j])
      PROVE  TypesInv'
  <2> DEFINE q == [rec[p] EXCEPT !.ack = a, !.pc = "send"]
  <2> DEFINE r == AckTest(q)
  <2>1. q \in RecordStates /\ q.con = rec[p].con /\ q.turn = rec[p].turn /\ q.pc = "send"
        /\ q.checkpoint = rec[p].checkpoint /\ q.rd = rec[p].rd /\ q.quota = rec[p].quota /\ q.buffer = rec[p].buffer /\ q.tent = rec[p].tent
    BY IsRecord, PlaceNames DEF RecordStates
  <2>2. r = q \/ r = [q EXCEPT !.checkpoint = @ + 1]
    BY DEF AckTest, update_sended_byte
  <2> HIDE DEF q, r
  <2>3. r \in RecordStates /\ r.con = rec[p].con /\ r.turn = rec[p].turn /\ r.pc = "send"
        /\ r.checkpoint \in {rec[p].checkpoint, rec[p].checkpoint + 1} /\ r.rd = rec[p].rd /\ r.quota = rec[p].quota /\ r.buffer = rec[p].buffer /\ r.tent = rec[p].tent
    <3>1. CASE r = q
      BY <2>1, <3>1
    <3>2. CASE r = [q EXCEPT !.checkpoint = @ + 1]
      <4>1. q.checkpoint + 1 \in Nat
        BY <2>1 DEF RecordStates
      <4>2. /\ r \in RecordStates /\ r.con = q.con /\ r.turn = q.turn /\ r.pc = q.pc
            /\ r.checkpoint = q.checkpoint + 1 /\ r.rd = q.rd /\ r.quota = q.quota /\ r.buffer = q.buffer /\ r.tent = q.tent
        BY <2>1, <3>2, <4>1 DEF RecordStates
      <4>3. QED
        BY <2>1, <4>2
    <3>3. QED
      BY <2>2, <3>1, <3>2
  <2>4. rec[p].turn \in DOMAIN Turns /\ rec[p].checkpoint < Turns[rec[p].turn]
    BY AtRecord DEF ReadAck, CallInv, WritesAt
  <2>5. CallInv(p[2], r)
    <3>1. r.checkpoint <= Turns[rec[p].turn]
      <4>1. rec[p].checkpoint \in Nat /\ Turns[rec[p].turn] \in Nat
        BY <2>4, AtRecord
      <4>2. QED
        BY ONLY <2>3, <2>4, <4>1
    <3>2. rec[p].pc = "ack"
      BY DEF ReadAck
    <3>3. QED
      BY <2>3, <2>4, <3>1, <3>2, AtRecord DEF CallInv, ReadsAt
  <2>6. QED
    BY <1>1, <2>3, <2>5, OnLink, CallTypes DEF Ambient, ReadAck, r, q
<1>2. CASE Queue(p) # <<>> /\ links' = Taken(p, 1) /\ Become(p, AckTest([rec[p] EXCEPT !.ack = Queue(p)[1], !.pc = "send"]))
  <2>1. Queue(p)[1] \in Int
    BY <1>2, OnLink
  <2>2. links' \in [Conns -> Seq(LinkStates)] /\ \A j \in Conns : Len(links'[j]) = Len(links[j])
    BY <1>2, OnLink, CallKeepsLinks
  <2>3. QED
    BY <1>1, <1>2, <2>1, <2>2 DEF Become
<1>3. CASE ErrorReported(p) /\ Become(p, AckTest([rec[p] EXCEPT !.pc = "send"]))
  <2>1. [rec[p] EXCEPT !.pc = "send"] = [rec[p] EXCEPT !.ack = rec[p].ack, !.pc = "send"] /\ rec[p].ack \in Int
    BY AtRecord DEF RecordStates
  <2>2. links' \in [Conns -> Seq(LinkStates)] /\ \A j \in Conns : Len(links'[j]) = Len(links[j])
    BY <1>3, OnLink, CallKeepsLinks
  <2>3. QED
    BY <1>1, <1>3, <2>1, <2>2 DEF Become
<1>4. QED
  BY <1>2, <1>3 DEF ReadAck

LEMMA TypesAckEof ==
    ASSUME TypesInv, NEW p \in Points, Active(p), Ambient, AckEof(p)
    PROVE  TypesInv'
BY TypesBroken DEF AckEof

LEMMA TypesReturn ==
    ASSUME TypesInv, NEW p \in Points, Active(p), Ambient, ReturnFromWrite(p)
    PROVE  TypesInv'
<1> DEFINE r == reset_sended_byte([rec[p] EXCEPT !.turn = @ + 1, !.pc = "idle"])
<1>1. /\ r \in RecordStates /\ r.con = rec[p].con /\ r.turn = rec[p].turn + 1 /\ r.pc = "idle" /\ r.checkpoint = 0
      /\ r.rd = rec[p].rd /\ r.quota = rec[p].quota /\ r.buffer = rec[p].buffer /\ r.tent = rec[p].tent
  <2> DEFINE q == [rec[p] EXCEPT !.turn = @ + 1, !.pc = "idle"]
  <2>0. rec[p].turn + 1 \in Nat \ {0}
    BY AtRecord
  <2>1. /\ q \in RecordStates /\ q.con = rec[p].con /\ q.turn = rec[p].turn + 1 /\ q.pc = "idle"
        /\ q.rd = rec[p].rd /\ q.quota = rec[p].quota /\ q.buffer = rec[p].buffer /\ q.tent = rec[p].tent
    BY <2>0, IsRecord, PlaceNames DEF RecordStates
  <2> HIDE DEF q
  <2>2. r = [q EXCEPT !.checkpoint = 0]
    BY DEF reset_sended_byte, q
  <2>3. QED
    BY SMTT(30), <2>1, <2>2 DEF RecordStates
<1>2. rec' = [rec EXCEPT ![p] = r]
  BY DEF ReturnFromWrite, Become
<1> HIDE DEF r
<1>3. CallInv(p[2], r)
  <2>1. rec[p].rd = 0 /\ rec[p].quota = 0 /\ rec[p].turn \in DOMAIN Turns /\ rec[p].tent < MAX_TENTATIVI
    BY AtRecord DEF CallInv, ReturnFromWrite, WritesAt, ReadsAt
  <2>2. r.turn \in DOMAIN Turns => 0 < Turns[r.turn]
    BY AtRecord
  <2>3. r.turn <= Len(Turns) + 1
    BY <1>1, <2>1, AtRecord
  <2>4. QED
    BY <1>1, <2>1, <2>2, <2>3, AtRecord DEF CallInv, WritesAt, ReadsAt
<1>4. links' \in [Conns -> Seq(LinkStates)] /\ \A j \in Conns : Len(links'[j]) = Len(links[j])
  BY OnLink DEF ReturnFromWrite
<1>5. QED
  BY <1>1, <1>2, <1>3, <1>4, OnLink, CallTypes DEF Ambient, ReturnFromWrite

\* The steps of a Read.
LEMMA TypesReadPacket ==
    ASSUME TypesInv, NEW p \in Points, Active(p), Ambient, ReadPacket(p)
    PROVE  TypesInv'
<1> DEFINE b == SubSeq(Queue(p), 1, DIM)
<1> DEFINE v == IF rec[p].pc = "idle" /\ Queue(p)[2] = rec[p].lastid THEN "dup" ELSE "take"
<1> DEFINE r == [rec[p] EXCEPT !.buffer = b, !.pc = v]
<1>1. b \in Seq(Int) /\ Len(b) = DIM
  <2>1. Queue(p) \in Seq(Int) /\ Len(Queue(p)) >= 4
    BY OnLink DEF ReadPacket, DIM
  <2>2. \A i \in 1 .. 4 : Queue(p)[i] \in Int
    BY <2>1
  <2>3. QED
    BY <2>1, <2>2, SubSeqProperties DEF DIM
<1>2. v \in Places /\ v \in {"dup", "take"}
  BY PlaceNames
<1>3. rec' = [rec EXCEPT ![p] = r]
  BY DEF ReadPacket, Become
<1>4. Reads(p) /\ rec[p].pc \in {"idle", "reload"}
  BY DEF ReadPacket, Loading
<1> HIDE DEF b, v
<1>5. /\ r \in RecordStates /\ r.con = rec[p].con /\ r.pc = v /\ r.turn = rec[p].turn /\ r.buffer = b
      /\ r.checkpoint = rec[p].checkpoint /\ r.rd = rec[p].rd /\ r.quota = rec[p].quota /\ r.tent = rec[p].tent
  BY <1>1, <1>2, IsRecord DEF RecordStates
<1> HIDE DEF r
<1>6. CallInv(p[2], r)
  BY <1>1, <1>2, <1>4, <1>5, AtRecord, CallNames DEF CallInv
<1>7. links' \in [Conns -> Seq(LinkStates)] /\ \A j \in Conns : Len(links'[j]) = Len(links[j])
  BY OnLink, CallKeepsLinks DEF ReadPacket, DIM
<1>8. QED
  BY <1>3, <1>5, <1>6, <1>7, OnLink, CallTypes DEF Ambient, ReadPacket

LEMMA TypesReadFails ==
    ASSUME TypesInv, NEW p \in Points, Active(p), Ambient, ReadFails(p)
    PROVE  TypesInv'
<1>1. rec[p].pc # "failed" /\ GoTo(p, "ripristino") /\ UNCHANGED client
  BY DEF ReadFails, Loading, Broken
<1>2. ErrorReported(p) \/ \E n \in Nat : links' = Taken(p, n)
  BY DEF ReadFails, Broken, DIM
<1>3. QED
  BY <1>1, <1>2, TypesBroken

LEMMA TypesReAck ==
    ASSUME TypesInv, NEW p \in Points, Active(p), Ambient, ReAck(p)
    PROVE  TypesInv'
<1>1. CASE ~ SendAccepted(p)
  BY <1>1, TypesBroken DEF ReAck, Broken
<1>2. CASE SendAccepted(p)
  <2> DEFINE r == [rec[p] EXCEPT !.pc = "reload"]
  <2>1. /\ r \in RecordStates /\ r.con = rec[p].con /\ r.pc = "reload" /\ r.turn = rec[p].turn
        /\ r.checkpoint = rec[p].checkpoint /\ r.rd = rec[p].rd /\ r.quota = rec[p].quota /\ r.buffer = rec[p].buffer /\ r.tent = rec[p].tent
    BY PlaceNames, IsRecord, WithPlace
  <2>2. rec' = [rec EXCEPT ![p] = r]
    BY <1>2 DEF ReAck, GoTo, Become
  <2> HIDE DEF r
  <2>3. CallInv(p[2], r)
    BY <2>1, AtRecord DEF CallInv, ReAck
  <2>4. rec[p].buffer[2] \in Int
    BY AtRecord DEF ReAck, CallInv, DIM
  <2>5. \E words \in Seq(Int) : Sent(p, words)
    BY <1>2, <2>4 DEF ReAck
  <2>6. links' \in [Conns -> Seq(LinkStates)] /\ \A j \in Conns : Len(links'[j]) = Len(links[j])
    BY <2>5, OnLink, CallKeepsLinks
  <2>7. QED
    BY <2>1, <2>2, <2>3, <2>6, OnLink, CallTypes DEF Ambient, ReAck
<1>3. QED
  BY <1>1, <1>2

LEMMA TypesTakePart ==
    ASSUME TypesInv, NEW p \in Points, Active(p), Ambient, TakePart(p)
    PROVE  TypesInv'
<1> DEFINE n == rec[p].quota + 1
<1> DEFINE q == [rec[p] EXCEPT !.quota = n]
<1> DEFINE v == ReadFrom(q)
<1> DEFINE r == [q EXCEPT !.pc = v]
<1>1. rec[p] \in RecordStates /\ n \in Nat /\ n # 0
  BY AtRecord
<1>2. rec' = [rec EXCEPT ![p] = r] /\ UNCHANGED <<links, client>>
  BY DEF TakePart, Become
<1>3. /\ q \in RecordStates /\ q.con = rec[p].con /\ q.turn = rec[p].turn /\ q.checkpoint = rec[p].checkpoint
      /\ q.rd = rec[p].rd /\ q.quota = n /\ q.buffer = rec[p].buffer /\ q.tent = rec[p].tent
  <2> HIDE DEF n
  <2>1. QED
    BY <1>1 DEF RecordStates
<1>4. n < Parts(rec[p].turn, rec[p].rd) /\ rec[p].pc = "take"
  BY DEF TakePart, PartLeft
<1> HIDE DEF n, q
<1>5. v \in Places /\ v \in {"dup", "take"}
  BY <1>1, <1>3, PlaceNames DEF ReadFrom
<1> HIDE DEF v
<1>6. /\ r \in RecordStates /\ r.con = rec[p].con /\ r.pc = v /\ r.turn = rec[p].turn
      /\ r.checkpoint = rec[p].checkpoint /\ r.rd = rec[p].rd /\ r.quota = n /\ r.buffer = rec[p].buffer
      /\ r.tent = rec[p].tent
  BY <1>3, <1>5, WithPlace DEF RecordStates
<1> HIDE DEF r
<1>7. CallInv(p[2], r)
  BY <1>4, <1>5, <1>6, AtRecord DEF CallInv
<1>8. links' \in [Conns -> Seq(LinkStates)] /\ \A j \in Conns : Len(links'[j]) = Len(links[j])
  BY <1>2, OnLink
<1>9. QED
  BY <1>2, <1>6, <1>7, <1>8, OnLink, CallTypes DEF Ambient

LEMMA TypesTake ==
    ASSUME TypesInv, NEW p \in Points, Active(p), Ambient, Take(p)
    PROVE  TypesInv'
<1>1. CASE ~ SendAccepted(p)
  BY <1>1, TypesBroken DEF Take, Broken
<1>2. CASE SendAccepted(p) /\ rec[p].buffer[1] # HDR
  <2> DEFINE r == [rec[p] EXCEPT !.pc = "misread"]
  <2>1. /\ r \in RecordStates /\ r.con = rec[p].con /\ r.pc = "misread" /\ r.turn = rec[p].turn
        /\ r.checkpoint = rec[p].checkpoint /\ r.rd = rec[p].rd /\ r.quota = rec[p].quota /\ r.buffer = rec[p].buffer /\ r.tent = rec[p].tent
    BY PlaceNames, IsRecord, WithPlace
  <2>2. rec' = [rec EXCEPT ![p] = r] /\ UNCHANGED <<links, client>>
    BY <1>2 DEF Take, GoTo, Become
  <2> HIDE DEF r
  <2>3. CallInv(p[2], r)
    BY <2>1, AtRecord DEF CallInv, Take
  <2>4. QED
    BY <2>1, <2>2, <2>3, OnLink, CallTypes DEF Ambient
<1>3. CASE SendAccepted(p) /\ rec[p].buffer[1] = HDR
  <2> DEFINE over == rec[p].rd + 1 = Turns[rec[p].turn]
  <2> DEFINE i == LastId(rec[p].buffer)
  <2> DEFINE d == IF over THEN 0 ELSE rec[p].rd + 1
  <2> DEFINE t == IF over THEN rec[p].turn + 1 ELSE rec[p].turn
  <2> DEFINE r == [rec[p] EXCEPT !.lastid = i, !.pc = "idle", !.quota = 0, !.rd = d, !.turn = t]
  <2>0. rec[p].pc = "take" /\ Len(rec[p].buffer) = DIM /\ ReadsAt(p[2], rec[p].turn)
    BY AtRecord DEF Take, CallInv
  <2>1. /\ r \in RecordStates /\ r.con = rec[p].con /\ r.pc = "idle" /\ r.checkpoint = rec[p].checkpoint
        /\ r.tent = rec[p].tent /\ r.quota = 0
        /\ r.turn = IF over THEN rec[p].turn + 1 ELSE rec[p].turn
        /\ r.rd = IF over THEN 0 ELSE rec[p].rd + 1
    <3>1. i \in Int
      BY <2>0, AtRecord DEF LastId, DIM
    <3>2. d \in Nat /\ t \in Nat \ {0}
      <4>1. rec[p].rd \in Nat /\ rec[p].turn \in Nat \ {0}
        BY AtRecord
      <4>2. QED
        BY ONLY <4>1 DEF d, t
    <3>3. /\ r \in RecordStates /\ r.con = rec[p].con /\ r.pc = "idle" /\ r.checkpoint = rec[p].checkpoint
          /\ r.tent = rec[p].tent /\ r.quota = 0 /\ r.turn = t /\ r.rd = d
      <4> HIDE DEF i, d, t
      <4>1. rec[p] \in RecordStates /\ "idle" \in Places
        BY IsRecord, PlaceNames
      <4>2. r \in RecordStates
        BY <3>1, <3>2, <4>1 DEF RecordStates
      <4>3. r.con = rec[p].con /\ r.pc = "idle" /\ r.checkpoint = rec[p].checkpoint
        BY <4>1 DEF RecordStates
      <4>4. r.tent = rec[p].tent /\ r.quota = 0
        BY <4>1 DEF RecordStates
      <4>5. r.turn = t
        BY <4>1 DEF RecordStates
      <4>6. r.rd = d
        BY <4>1 DEF RecordStates
      <4>7. QED
        BY <4>2, <4>3, <4>4, <4>5, <4>6
    <3> HIDE DEF r
    <3>4. QED
      BY <3>3
  <2>2. rec' = [rec EXCEPT ![p] = r] /\ Sent(p, <<rec[p].buffer[2]>>) /\ (UNCHANGED client \/ TurnOver(p))
    BY <1>3 DEF Take, Returned, Become
  <2> HIDE DEF r
  <2>3. CallInv(p[2], r)
    <3>1. /\ rec[p].checkpoint = 0 /\ rec[p].rd < Turns[rec[p].turn] /\ rec[p].tent < MAX_TENTATIVI
          /\ rec[p].turn \in DOMAIN Turns
      BY <2>0, AtRecord DEF CallInv, WritesAt, ReadsAt
    <3>2. \A u \in DOMAIN Turns : 0 < Turns[u]
      BY AtRecord
    <3>3. CASE over
      <4>1. r.turn = rec[p].turn + 1 /\ r.rd = 0 /\ r.turn <= Len(Turns) + 1
        BY <2>1, <3>1, <3>3, AtRecord
      <4>2. r.turn \in DOMAIN Turns => 0 <= Turns[r.turn]
        BY AtRecord
      <4>3. QED
        BY SMTT(30), <2>1, <3>1, <3>2, <4>1, <4>2, AtRecord DEF CallInv, WritesAt, ReadsAt
    <3>4. CASE ~ over
      <4>1. r.turn = rec[p].turn /\ r.rd = rec[p].rd + 1
        BY <2>1, <3>4
      <4>2. Turns[rec[p].turn] \in Nat /\ rec[p].rd \in Nat
        BY <3>1, AtRecord
      <4>3. r.rd < Turns[r.turn] /\ r.turn <= Len(Turns) + 1
        <5>1. rec[p].rd + 1 # Turns[rec[p].turn] /\ rec[p].rd < Turns[rec[p].turn]
          BY <3>1, <3>4
        <5>2. \A a, b \in Nat : a < b /\ a + 1 # b => a + 1 < b
          OBVIOUS
        <5>3. rec[p].rd + 1 < Turns[rec[p].turn]
          BY <4>2, <5>1, <5>2
        <5>4. rec[p].turn <= Len(Turns) + 1
          BY <3>1, AtRecord
        <5>5. QED
          BY <4>1, <5>3, <5>4
      <4>4. QED
        BY <2>0, <2>1, <3>1, <4>1, <4>3, AtRecord DEF CallInv, ReadsAt
    <3>5. QED
      BY <3>3, <3>4
  <2>4. rec[p].buffer[2] \in Int
    BY <2>0, AtRecord DEF DIM
  <2>5. links' \in [Conns -> Seq(LinkStates)] /\ \A j \in Conns : Len(links'[j]) = Len(links[j])
    <3>0. <<rec[p].buffer[2]>> \in Seq(Int)
      BY <2>4
    <3>1. \E words \in Seq(Int) : Sent(p, words)
      BY <2>2, <3>0
    <3>2. QED
      BY <3>1, OnLink, CallKeepsLinks
  <2>6. QED
    BY <2>1, <2>2, <2>3, <2>5, OnLink, CallTypes DEF Ambient
<1>4. QED
  BY <1>1, <1>2, <1>3 DEF Take

\* What a close leaves of a connection,
LEMMA ShutStates ==
    ASSUME NEW link \in LinkStates, NEW e \in Ends
    PROVE  Shut(link, e) \in LinkStates /\ Refused(link) \in LinkStates
<1> DEFINE f == [link.queue EXCEPT ![e] = <<>>]
<1> DEFINE g == [x \in Ends |-> IF x = e THEN "dead"
                                ELSE IF link.st[x] # "up" THEN link.st[x]
                                ELSE IF link.queue[e] = <<>> THEN "fin" ELSE "rst"]
<1> DEFINE h == [link.queue EXCEPT !["s"] = <<>>]
<1> DEFINE i == [x \in Ends |-> IF x = "c" /\ link.st[x] = "up" THEN "rst" ELSE link.st[x]]
<1>1. link.queue \in [Ends -> Seq(Int)] /\ link.st \in [Ends -> States]
  BY DEF LinkStates
<1>2. f \in [Ends -> Seq(Int)] /\ h \in [Ends -> Seq(Int)]
  BY <1>1, EndFacts
<1>3. g \in [Ends -> States] /\ i \in [Ends -> States]
  BY <1>1 DEF States
<1>4. Shut(link, e) = [link EXCEPT !.queue = f, !.st = g]
  BY DEF Shut
<1>5. Refused(link) = [link EXCEPT !.queue = h, !.st = i]
  BY DEF Refused
<1> HIDE DEF f, g, h, i
<1>6. [link EXCEPT !.queue = f, !.st = g] \in LinkStates
  BY <1>2, <1>3 DEF LinkStates
<1>7. [link EXCEPT !.queue = h, !.st = i] \in LinkStates
  BY <1>2, <1>3 DEF LinkStates
<1>8. QED
  BY <1>4, <1>5, <1>6, <1>7

\* and of the connections of a record.
LEMMA ClosedFacts ==
    ASSUME links \in [Conns -> Seq(LinkStates)], NEW p \in Points
    PROVE  /\ Closed(p) \in Seq(LinkStates) /\ Len(Closed(p)) = Len(links[p[1]])
           /\ \A l \in 1 .. Len(links[p[1]]) :
                Closed(p)[l] = IF l = rec[p].con THEN Shut(links[p[1]][l], p[2]) ELSE links[p[1]][l]
<1> DEFINE k == p[1]
<1> DEFINE f == [l \in 1 .. Len(links[k]) |-> IF l = rec[p].con THEN Shut(links[k][l], p[2]) ELSE links[k][l]]
<1>1. k \in Conns /\ p[2] \in Ends
  BY PointFacts
<1>2. links[k] \in Seq(LinkStates) /\ Len(links[k]) \in Nat /\ DOMAIN links[k] = 1 .. Len(links[k])
  BY <1>1
<1>3. \A l \in 1 .. Len(links[k]) : links[k][l] \in LinkStates /\ Shut(links[k][l], p[2]) \in LinkStates
  <2> TAKE l \in 1 .. Len(links[k])
  <2>1. links[k][l] \in LinkStates
    BY <1>2
  <2>2. QED
    BY <1>1, <2>1, ShutStates
<1>4. Closed(p) = f
  BY <1>2 DEF Closed
<1>5. f \in [1 .. Len(links[k]) -> LinkStates]
  BY <1>3
<1>6. f \in Seq(LinkStates) /\ Len(f) = Len(links[k])
  BY <1>2, <1>5
<1>7. \A l \in 1 .. Len(links[k]) : f[l] = IF l = rec[p].con THEN Shut(links[k][l], p[2]) ELSE links[k][l]
  OBVIOUS
<1> HIDE DEF f
<1>8. QED
  BY <1>4, <1>6, <1>7

\* The record of an end that resumes its call,
LEMMA ResumeRecord ==
    ASSUME TypesInv, NEW p \in Points
    PROVE  LET r == Resume(p) IN
           /\ r \in RecordStates /\ r.con = rec[p].con /\ r.turn = rec[p].turn /\ r.checkpoint = rec[p].checkpoint
           /\ r.pc = (IF Writes(p) THEN "send" ELSE ReadFrom(rec[p])) /\ r.ack = 0 /\ r.tent = 0
           /\ r.rd = rec[p].rd /\ r.quota = rec[p].quota /\ r.lastid = rec[p].lastid /\ r.buffer = rec[p].buffer
           /\ CallInv(p[2], r)
<1> DEFINE v == IF Writes(p) THEN "send" ELSE ReadFrom(rec[p])
<1> DEFINE q == [rec[p] EXCEPT !.pc = v]
<1>1. v \in Places
  BY PlaceNames DEF ReadFrom
<1>2. q = [rec[p] EXCEPT !.pc = IF Writes(p) THEN "send" ELSE ReadFrom(rec[p])]
  OBVIOUS
<1>21. \/ v = "send" /\ Writes(p)
       \/ v = "idle" /\ rec[p].quota = 0
       \/ v \in {"dup", "take"} /\ rec[p].quota # 0
  BY DEF ReadFrom
<1> HIDE DEF v
<1>3. /\ q \in RecordStates /\ q.con = rec[p].con /\ q.pc = v /\ q.turn = rec[p].turn
      /\ q.checkpoint = rec[p].checkpoint /\ q.rd = rec[p].rd /\ q.quota = rec[p].quota /\ q.lastid = rec[p].lastid /\ q.buffer = rec[p].buffer
  BY <1>1, IsRecord, WithPlace
<1> DEFINE r == [q EXCEPT !.ack = 0, !.tent = 0]
<1>4. Resume(p) = r
  BY IsRecord DEF Resume, RecordStates, v
<1> HIDE DEF q
<1>51. r \in RecordStates
  <2>1. q \in RecordStates
    BY <1>3
  <2>2. \A y \in RecordStates : [y EXCEPT !.ack = 0] \in RecordStates
    BY SMTT(60) DEF RecordStates
  <2>3. \A y \in RecordStates : [y EXCEPT !.tent = 0] \in RecordStates
    BY DEF RecordStates
  <2>4. r = [[q EXCEPT !.ack = 0] EXCEPT !.tent = 0]
    OBVIOUS
  <2>5. QED
    BY <2>1, <2>2, <2>3, <2>4
<1>5. /\ r \in RecordStates /\ r.con = q.con /\ r.turn = q.turn /\ r.checkpoint = q.checkpoint /\ r.pc = q.pc
  BY <1>3, <1>51 DEF RecordStates
<1>6. r.ack = 0 /\ r.tent = 0 /\ r.rd = q.rd /\ r.quota = q.quota /\ r.lastid = q.lastid /\ r.buffer = q.buffer
  BY <1>3 DEF RecordStates
<1> HIDE DEF r
<1>7. CallInv(p[2], rec[p]) /\ MAX_TENTATIVI \in Nat \ {0}
  BY ProgramsAssumption DEF TypesInv
<1>8. CallInv(p[2], r)
  <2>1. /\ r.quota = rec[p].quota /\ r.rd = rec[p].rd /\ r.buffer = rec[p].buffer /\ r.pc = v
        /\ r.turn = rec[p].turn /\ r.checkpoint = rec[p].checkpoint
    BY <1>3, <1>5, <1>6
  <2>2. CASE v = "send" /\ Writes(p)
    BY <1>6, <1>7, <2>1, <2>2, CallNames DEF CallInv
  <2>3. CASE v = "idle" /\ rec[p].quota = 0
    BY <1>6, <1>7, <2>1, <2>3 DEF CallInv
  <2>4. CASE v \in {"dup", "take"} /\ rec[p].quota # 0
    BY <1>6, <1>7, <2>1, <2>4 DEF CallInv
  <2>5. QED
    BY <1>21, <2>2, <2>3, <2>4
<1>9. QED
  BY <1>3, <1>4, <1>5, <1>6, <1>8 DEF v

\* The links of a record after one of its ends has closed.
LEMMA ClosedLinks ==
    ASSUME links \in [Conns -> Seq(LinkStates)], NEW p \in Points,
           NEW L, L = [links EXCEPT ![p[1]] = Closed(p)]
    PROVE  /\ L \in [Conns -> Seq(LinkStates)]
           /\ \A j \in Conns : Len(L[j]) = Len(links[j])
           /\ \A j \in Conns : j # p[1] => L[j] = links[j]
           /\ L[p[1]] = Closed(p)
<1>1. Closed(p) \in Seq(LinkStates) /\ Len(Closed(p)) = Len(links[p[1]]) /\ p[1] \in Conns
  BY ClosedFacts, PointFacts
<1>2. QED
  BY <1>1

\* or moves to another connection.
LEMMA MovedRecord ==
    ASSUME NEW r \in RecordStates, NEW c \in Nat, NEW q, q = [r EXCEPT !.con = c]
    PROVE  /\ q \in RecordStates /\ q.con = c /\ q.turn = r.turn /\ q.checkpoint = r.checkpoint /\ q.pc = r.pc
           /\ q.ack = r.ack /\ q.tent = r.tent /\ q.rd = r.rd /\ q.quota = r.quota /\ q.lastid = r.lastid /\ q.buffer = r.buffer
BY DEF RecordStates

\* One more attempt of a thread of the server.
LEMMA AttemptRecord ==
    ASSUME TypesInv, NEW p \in Points, rec[p].pc = "ripristino"
    PROVE  LET v == IF rec[p].tent + 1 = MAX_TENTATIVI THEN "failed" ELSE rec[p].pc
               r == [rec[p] EXCEPT !.tent = @ + 1, !.pc = v] IN
           /\ r \in RecordStates /\ r.con = rec[p].con /\ r.pc = v /\ r.turn = rec[p].turn
           /\ r.checkpoint = rec[p].checkpoint /\ r.rd = rec[p].rd /\ r.quota = rec[p].quota /\ r.buffer = rec[p].buffer /\ r.lastid = rec[p].lastid
           /\ CallInv(p[2], r)
<1> DEFINE v == IF rec[p].tent + 1 = MAX_TENTATIVI THEN "failed" ELSE rec[p].pc
<1> DEFINE t == rec[p].tent + 1
<1> DEFINE r == [rec[p] EXCEPT !.tent = t, !.pc = v]
<1>1. rec[p] \in RecordStates /\ CallInv(p[2], rec[p]) /\ MAX_TENTATIVI \in Nat \ {0}
  BY IsRecord, ProgramsAssumption DEF TypesInv
<1>2. rec[p].tent \in Nat /\ rec[p].tent < MAX_TENTATIVI
  BY <1>1 DEF CallInv, RecordStates
<1>3. t \in Nat /\ t <= MAX_TENTATIVI /\ v \in Places /\ (v # "failed" => t < MAX_TENTATIVI)
      /\ v \in {"failed", "ripristino"}
  BY <1>1, <1>2, PlaceNames
<1> HIDE DEF v, t
<1>4. r \in RecordStates
  BY <1>1, <1>3 DEF RecordStates
<1>5. r.con = rec[p].con /\ r.pc = v /\ r.turn = rec[p].turn /\ r.checkpoint = rec[p].checkpoint
  BY <1>1 DEF RecordStates
<1>6. r.rd = rec[p].rd /\ r.quota = rec[p].quota /\ r.buffer = rec[p].buffer /\ r.lastid = rec[p].lastid /\ r.tent = t
  BY <1>1 DEF RecordStates
<1> HIDE DEF r
<1>7. CallInv(p[2], r)
  BY <1>1, <1>3, <1>5, <1>6 DEF CallInv
<1>8. QED
  BY <1>4, <1>5, <1>6, <1>7 DEF r, v, t

LEMMA TypesReAccept ==
    ASSUME TypesInv, NEW p \in Points, Active(p), Ambient, ReAccept(p)
    PROVE  TypesInv'
<1>0. links \in [Conns -> Seq(LinkStates)] /\ UNCHANGED client /\ p[2] = "s" /\ rec[p].pc = "ripristino"
  BY OnLink DEF ReAccept
<1>1. CASE /\ rec[p].con < Last(p[1])
           /\ links' = [links EXCEPT ![p[1]] = Closed(p)]
           /\ Become(p, [Resume(p) EXCEPT !.con = @ + 1])
  <2> DEFINE q == Resume(p)
  <2> DEFINE r == [q EXCEPT !.con = q.con + 1]
  <2>1. q \in RecordStates /\ q.con = rec[p].con /\ CallInv(p[2], q)
    BY ResumeRecord
  <2>2. q.con + 1 \in Nat /\ q.con + 1 <= Len(links[p[1]])
    <3>1. rec[p].con \in 1 .. Len(links[p[1]]) /\ links[p[1]] \in Seq(LinkStates)
      BY OnLink
    <3>2. Len(links[p[1]]) \in Nat /\ rec[p].con < Len(links[p[1]]) /\ q.con = rec[p].con
      BY <1>1, <2>1, <3>1 DEF Last
    <3>3. QED
      BY ONLY <3>1, <3>2
  <2>3. rec' = [rec EXCEPT ![p] = r]
    BY <1>1 DEF Become
  <2> HIDE DEF q
  <2>4. /\ r \in RecordStates /\ r.con = q.con + 1 /\ r.turn = q.turn /\ r.checkpoint = q.checkpoint /\ r.pc = q.pc
        /\ r.tent = q.tent /\ r.rd = q.rd /\ r.quota = q.quota /\ r.buffer = q.buffer
    BY <2>1, <2>2, MovedRecord
  <2> HIDE DEF r
  <2>5. CallInv(p[2], r)
    BY <2>1, <2>4 DEF CallInv
  <2>6. links' \in [Conns -> Seq(LinkStates)] /\ \A j \in Conns : Len(links'[j]) = Len(links[j])
    BY <1>0, <1>1, ClosedLinks
  <2>7. QED
    BY <1>0, <2>2, <2>3, <2>4, <2>5, <2>6, StepTypes DEF Ambient
<1>2. CASE /\ Become(p, [rec[p] EXCEPT !.tent = @ + 1,
                                      !.pc = IF rec[p].tent + 1 = MAX_TENTATIVI THEN "failed" ELSE @])
           /\ UNCHANGED links
  <2> DEFINE v == IF rec[p].tent + 1 = MAX_TENTATIVI THEN "failed" ELSE rec[p].pc
  <2> DEFINE r == [rec[p] EXCEPT !.tent = @ + 1, !.pc = v]
  <2>1. r \in RecordStates /\ r.con = rec[p].con /\ CallInv(p[2], r)
    BY <1>0, AttemptRecord
  <2>2. rec' = [rec EXCEPT ![p] = r]
    BY <1>2 DEF Become
  <2> HIDE DEF r
  <2>3. QED
    BY <1>0, <1>2, <2>1, <2>2, CallTypes DEF Ambient
<1>3. QED
  BY <1>1, <1>2 DEF ReAccept

LEMMA TypesCall ==
    ASSUME TypesInv, NEW p \in Points, Call(p)
    PROVE  TypesInv'
<1>1. Active(p) /\ Ambient /\ (Writer(p) \/ Reader(p) \/ ReAccept(p))
  BY DEF Call, Ambient
<1>2. CASE Writer(p)
  BY <1>1, <1>2, TypesWrite, TypesSendPacket, TypesReadAck, TypesAckEof, TypesReturn DEF Writer
<1>3. CASE Reader(p)
  BY <1>1, <1>3, TypesReadPacket, TypesReadFails, TypesReAck, TypesTakePart, TypesTake DEF Reader
<1>4. QED
  BY <1>1, <1>2, <1>3, TypesReAccept

\* What any step owes to the types.
LEMMA TypesFrame ==
    ASSUME test' = test, StateInv', ConnectInv',
           \A p \in Points : CallInv(p[2], rec'[p]) /\ rec'[p].con <= Len(links'[p[1]])
    PROVE  TypesInv'
<1>1. Points' = Points /\ Turns' = Turns
  BY SameTest
<1>2. \A p \in Points : (CallInv(p[2], rec[p]) /\ rec[p].con <= Last(p[1]))'
  BY <1>1 DEF CallInv, WritesAt, ReadsAt, Parts, Last
<1>3. QED
  BY <1>1, <1>2 DEF TypesInv

\* The same when no record changes.
LEMMA TypesFrameRec ==
    ASSUME TypesInv, test' = test, rec' = rec, StateInv', ConnectInv',
           \A k \in Conns : Len(links'[k]) >= Len(links[k])
    PROVE  TypesInv'
<1>1. \A p \in Points : CallInv(p[2], rec'[p]) /\ rec'[p].con <= Len(links'[p[1]])
  <2> TAKE p \in Points
  <2>1. p[1] \in Conns /\ CallInv(p[2], rec[p]) /\ rec[p].con <= Len(links[p[1]]) /\ rec[p].con \in Nat
    BY PointFacts DEF TypesInv, StateInv, RecordStates, Last
  <2>2. Len(links'[p[1]]) >= Len(links[p[1]]) /\ Len(links[p[1]]) \in Nat /\ Len(links'[p[1]]) \in Nat
    <3>1. links[p[1]] \in Seq(LinkStates) /\ links'[p[1]] \in Seq(LinkStates)
      BY <2>1, SameTest DEF TypesInv, StateInv
    <3>2. QED
      BY <2>1, <3>1
  <2>3. QED
    BY <2>1, <2>2
<1>2. QED
  BY <1>1, TypesFrame

\* The types, spelled out.
LEMMA TypeFacts ==
    ASSUME TypesInv
    PROVE  /\ test \in Tests /\ links \in [Conns -> Seq(LinkStates)] /\ up \in [Conns -> BOOLEAN] /\ falls \in Nat
           /\ \A k \in Conns : links[k] \in Seq(LinkStates) /\ Len(links[k]) \in Nat
           /\ \A k \in Conns : links[k] = <<>> <=> Len(links[k]) = 0
           /\ rec \in [Points -> RecordStates]
           /\ client \in [pc : {"connect", "reconnect", "turns", "ok", "failed"}, at : Nat \ {0}]
           /\ server \in [pc : {"accept", "join", "ok", "failed"}, at : Conns]
           /\ rip \in [at : 1 .. (Cardinality(Conns) + 1), ris : {0, -1}, n : 0 .. MAX_TENTATIVI]
           /\ Conns = 1 .. Cardinality(Conns) /\ Cardinality(Conns) \in Nat \ {0}
           /\ \A k \in Conns : k \in Nat \ {0}
           /\ \A k \in Conns : rec[<<k, "c">>].con = Len(links[k]) /\ rec[<<k, "s">>].con \in 0 .. Len(links[k])
<1>1. test \in Tests /\ links \in [Conns -> Seq(LinkStates)] /\ rec \in [Points -> RecordStates]
  BY DEF TypesInv, StateInv
<1>2. Conns = 1 .. Cardinality(Conns) /\ Cardinality(Conns) \in Nat \ {0} /\ \A k \in Conns : k \in Nat \ {0}
  BY <1>1, TestFacts
<1>3. \A k \in Conns : links[k] \in Seq(LinkStates)
  BY <1>1
<1>4. \A k \in Conns : rec[<<k, "c">>].con = Len(links[k]) /\ rec[<<k, "s">>].con \in 0 .. Len(links[k])
  <2> TAKE k \in Conns
  <2>1. <<k, "s">> \in Points /\ <<k, "s">>[1] = k
    BY AtPoint, EndFacts
  <2>2. rec[<<k, "s">>].con \in Nat /\ rec[<<k, "s">>].con <= Len(links[k])
    BY <1>1, <2>1 DEF TypesInv, RecordStates, Last
  <2>3. QED
    BY <1>3, <2>2 DEF TypesInv, ConnectInv, Last
<1>5. QED
  BY <1>1, <1>2, <1>3, <1>4 DEF TypesInv, StateInv

\* A connection just made.
LEMMA NewLinkState == NewLink \in LinkStates
BY DEF NewLink, LinkStates, States

\* What process e leaves when it ends.
LEMMA ExitFacts ==
    ASSUME TypesInv, NEW e \in Ends, Exit(e)
    PROVE  /\ links' \in [Conns -> Seq(LinkStates)]
           /\ \A k \in Conns : Len(links'[k]) = Len(links[k])
           /\ \A k \in Conns : \A l \in 1 .. Len(links[k]) :
                links'[k][l] = IF e = "s" /\ l > rec[<<k, e>>].con THEN Refused(links[k][l])
                               ELSE IF l = rec[<<k, e>>].con THEN Shut(links[k][l], e) ELSE links[k][l]
<1> DEFINE f(k) == [l \in 1 .. Len(links[k]) |->
                      IF e = "s" /\ l > rec[<<k, e>>].con THEN Refused(links[k][l])
                      ELSE IF l = rec[<<k, e>>].con THEN Shut(links[k][l], e) ELSE links[k][l]]
<1>1. \A k \in Conns : links'[k] = f(k)
  <2> TAKE k \in Conns
  <2>1. <<k, e>> \in Points /\ <<k, e>>[1] = k /\ <<k, e>>[2] = e
    BY AtPoint
  <2>2. DOMAIN links[k] = 1 .. Len(links[k])
    BY TypeFacts
  <2>3. links'[k] = [l \in 1 .. Len(links[k]) |-> IF e = "s" /\ l > rec[<<k, e>>].con THEN Refused(links[k][l])
                                                  ELSE Closed(<<k, e>>)[l]]
    BY <2>2 DEF Exit
  <2>4. \A l \in 1 .. Len(links[k]) :
          Closed(<<k, e>>)[l] = IF l = rec[<<k, e>>].con THEN Shut(links[k][l], e) ELSE links[k][l]
    BY <2>1, <2>2 DEF Closed
  <2>5. QED
    BY <2>3, <2>4
<1>2. \A k \in Conns : f(k) \in Seq(LinkStates) /\ Len(f(k)) = Len(links[k])
  <2> TAKE k \in Conns
  <2>1. links[k] \in Seq(LinkStates) /\ Len(links[k]) \in Nat
    BY TypeFacts
  <2>2. \A l \in 1 .. Len(links[k]) : links[k][l] \in LinkStates
    BY <2>1
  <2>3. \A l \in 1 .. Len(links[k]) : Shut(links[k][l], e) \in LinkStates /\ Refused(links[k][l]) \in LinkStates
    BY <2>2, ShutStates
  <2>4. f(k) \in [1 .. Len(links[k]) -> LinkStates]
    BY <2>2, <2>3
  <2>5. QED
    BY <2>1, <2>4
<1>3. links' = [k \in Conns |-> links'[k]]
  BY DEF Exit
<1>4. \A k \in Conns : links'[k] \in Seq(LinkStates)
  BY <1>1, <1>2
<1>5. links' \in [Conns -> Seq(LinkStates)]
  BY <1>3, <1>4
<1>6. \A k \in Conns : Len(links'[k]) = Len(links[k])
  BY <1>1, <1>2
<1>7. \A k \in Conns : \A l \in 1 .. Len(links[k]) :
        links'[k][l] = IF e = "s" /\ l > rec[<<k, e>>].con THEN Refused(links[k][l])
                       ELSE IF l = rec[<<k, e>>].con THEN Shut(links[k][l], e) ELSE links[k][l]
  <2> TAKE k \in Conns
  <2> TAKE l \in 1 .. Len(links[k])
  <2>1. links'[k][l] = f(k)[l]
    BY <1>1
  <2>2. QED
    BY <2>1
<1>8. QED
  BY <1>5, <1>6, <1>7

\* A connect that succeeds, after what has become of the record's connections.
LEMMA ConnectedFacts ==
    ASSUME TypesInv, NEW k \in Conns, NEW before \in Seq(LinkStates), Len(before) = Len(links[k]),
           Connected(k, before)
    PROVE  /\ links' \in [Conns -> Seq(LinkStates)]
           /\ \A j \in Conns : j # k => links'[j] = links[j]
           /\ links'[k] = Append(before, NewLink) /\ Len(links'[k]) = Len(links[k]) + 1
           /\ rec' \in [Points -> RecordStates]
           /\ \A p \in Points : p # <<k, "c">> => rec'[p] = rec[p]
           /\ LET r == rec[<<k, "c">>]
                  q == rec'[<<k, "c">>] IN
              /\ q.con = Len(links[k]) + 1 /\ q.turn = r.turn /\ q.checkpoint = r.checkpoint /\ q.pc = r.pc
              /\ q.ack = r.ack /\ q.tent = r.tent /\ q.rd = r.rd /\ q.quota = r.quota /\ q.lastid = r.lastid /\ q.buffer = r.buffer
<1> DEFINE s == Append(before, NewLink)
<1>1. s \in Seq(LinkStates) /\ Len(s) = Len(links[k]) + 1
  BY NewLinkState
<1>2. links' = [links EXCEPT ![k] = s]
  BY DEF Connected
<1> HIDE DEF s
<1>3. links' \in [Conns -> Seq(LinkStates)] /\ links'[k] = s /\ \A j \in Conns : j # k => links'[j] = links[j]
  BY <1>1, <1>2, TypeFacts
<1> DEFINE p == <<k, "c">>
<1> DEFINE c == Len(links[k]) + 1
<1> DEFINE q == [rec[p] EXCEPT !.con = c]
<1>4. p \in Points /\ rec[p] \in RecordStates /\ c \in Nat
  BY AtPoint, EndFacts, TypeFacts
<1>5. rec' = [rec EXCEPT ![p] = q]
  BY DEF Connected, Last
<1>6. /\ q \in RecordStates /\ q.con = c /\ q.turn = rec[p].turn /\ q.checkpoint = rec[p].checkpoint /\ q.pc = rec[p].pc
      /\ q.ack = rec[p].ack /\ q.tent = rec[p].tent /\ q.rd = rec[p].rd /\ q.quota = rec[p].quota /\ q.lastid = rec[p].lastid
      /\ q.buffer = rec[p].buffer
  BY <1>4, MovedRecord
<1> HIDE DEF p, q
<1>7. rec' \in [Points -> RecordStates] /\ rec'[p] = q /\ \A x \in Points : x # p => rec'[x] = rec[x]
  BY <1>4, <1>5, <1>6, TypeFacts
<1>8. QED
  BY <1>1, <1>3, <1>6, <1>7 DEF s, p

\* What that leaves of the invariant.
LEMMA ConnectedKeeps ==
    ASSUME TypesInv, NEW k \in Conns, NEW before \in Seq(LinkStates), Len(before) = Len(links[k]),
           Connected(k, before)
    PROVE  /\ links' \in [Conns -> Seq(LinkStates)] /\ rec' \in [Points -> RecordStates]
           /\ \A j \in Conns : rec'[<<j, "c">>].con = Len(links'[j])
           /\ \A j \in Conns : rec'[<<j, "c">>].pc = rec[<<j, "c">>].pc
           /\ \A j \in Conns : links'[j] = <<>> <=> links[j] = <<>> /\ j # k
           /\ \A p \in Points : CallInv(p[2], rec'[p]) /\ rec'[p].con <= Len(links'[p[1]])
<1>1. /\ links' \in [Conns -> Seq(LinkStates)]
      /\ \A j \in Conns : j # k => links'[j] = links[j]
      /\ Len(links'[k]) = Len(links[k]) + 1
      /\ rec' \in [Points -> RecordStates]
      /\ \A p \in Points : p # <<k, "c">> => rec'[p] = rec[p]
  BY ConnectedFacts
<1>2. LET r == rec[<<k, "c">>]
          q == rec'[<<k, "c">>] IN
      /\ q.con = Len(links[k]) + 1 /\ q.turn = r.turn /\ q.checkpoint = r.checkpoint /\ q.pc = r.pc
      /\ q.tent = r.tent /\ q.rd = r.rd /\ q.quota = r.quota /\ q.buffer = r.buffer
  BY ConnectedFacts
<1>3. links'[k] # <<>>
  <2>1. links'[k] \in Seq(LinkStates) /\ Len(links[k]) \in Nat
    BY <1>1, TypeFacts
  <2>2. QED
    BY <1>1, <2>1
<1>4. \A j \in Conns : rec'[<<j, "c">>].con = Len(links'[j]) /\ rec'[<<j, "c">>].pc = rec[<<j, "c">>].pc
  <2> TAKE j \in Conns
  <2>1. <<j, "c">> \in Points /\ <<j, "c">>[1] = j /\ rec[<<j, "c">>].con = Len(links[j])
    BY AtPoint, EndFacts, TypeFacts
  <2>2. CASE j = k
    BY <1>1, <1>2, <2>2
  <2>3. CASE j # k
    <3>1. <<j, "c">> # <<k, "c">>
      BY <2>3
    <3>2. QED
      BY <1>1, <2>1, <2>3, <3>1
  <2>4. QED
    BY <2>2, <2>3
<1>5. \A j \in Conns : links'[j] = <<>> <=> links[j] = <<>> /\ j # k
  BY <1>1, <1>3
<1>6. \A p \in Points : CallInv(p[2], rec'[p]) /\ rec'[p].con <= Len(links'[p[1]])
  <2> TAKE p \in Points
  <2>1. /\ p[1] \in Conns /\ p[2] \in Ends /\ CallInv(p[2], rec[p]) /\ rec[p].con <= Len(links[p[1]])
        /\ rec[p].con \in Nat
    BY PointFacts, TypeFacts DEF TypesInv, Last, RecordStates
  <2>2. Len(links'[p[1]]) \in {Len(links[p[1]]), Len(links[p[1]]) + 1} /\ Len(links[p[1]]) \in Nat
    BY <1>1, <2>1, TypeFacts
  <2>3. CASE p = <<k, "c">>
    BY <1>1, <1>2, <2>1, <2>2, <2>3 DEF CallInv
  <2>4. CASE p # <<k, "c">>
    BY <1>1, <2>1, <2>2, <2>4
  <2>5. QED
    BY <2>3, <2>4
<1>7. QED
  BY <1>1, <1>4, <1>5, <1>6

\* Where the client goes after a Connect.
LEMMA AfterConnectFacts ==
    ASSUME TypesInv, client.at \in Conns
    PROVE  /\ AfterConnect \in [pc : {"connect", "reconnect", "turns", "ok", "failed"}, at : Nat \ {0}]
           /\ AfterConnect.pc \in {"turns", "connect"}
           /\ AfterConnect.pc = "turns" => client.at = Cardinality(Conns)
           /\ AfterConnect.pc = "connect" => AfterConnect.at = client.at + 1 /\ client.at + 1 \in Conns
<1>1. Conns = 1 .. Cardinality(Conns) /\ Cardinality(Conns) \in Nat \ {0}
  BY TypeFacts
<1>2. CASE client.at = Cardinality(Conns)
  <2>1. AfterConnect = [pc |-> "turns", at |-> 1]
    BY <1>2 DEF AfterConnect
  <2>2. QED
    BY <1>2, <2>1
<1>3. CASE client.at # Cardinality(Conns)
  <2>1. AfterConnect = [pc |-> "connect", at |-> client.at + 1]
    BY <1>3 DEF AfterConnect
  <2>2. client.at + 1 \in Conns /\ client.at + 1 \in Nat \ {0}
    BY <1>1, <1>3
  <2>3. QED
    BY <2>1, <2>2
<1>4. QED
  BY <1>2, <1>3

\* The steps of the client outside its calls.
LEMMA TypesConnect ==
    ASSUME TypesInv, Connect
    PROVE  TypesInv'
<1> DEFINE k == client.at
<1>1. client.pc = "connect" /\ k \in Conns /\ UNCHANGED <<test, up, falls, server, rip>> /\ links[k] = <<>>
  BY TypeFacts DEF Connect, TypesInv, ConnectInv
<1>2. Conns' = Conns /\ Points' = Points
  BY <1>1, SameTest
<1>3. Alive("c") /\ rip.n < MAX_TENTATIVI
  BY <1>1 DEF Alive, TypesInv, StateInv
<1>4. CASE Reachable(k)
  <2>1. <<>> \in Seq(LinkStates) /\ Len(<<>>) = Len(links[k])
    BY <1>1
  <2>2. Connected(k, <<>>) /\ client' = AfterConnect
    BY <1>4 DEF Connect
  <2>3. /\ links' \in [Conns -> Seq(LinkStates)] /\ rec' \in [Points -> RecordStates]
        /\ \A j \in Conns : rec'[<<j, "c">>].con = Len(links'[j])
        /\ \A j \in Conns : rec'[<<j, "c">>].pc = rec[<<j, "c">>].pc
        /\ \A j \in Conns : links'[j] = <<>> <=> links[j] = <<>> /\ j # k
        /\ \A p \in Points : CallInv(p[2], rec'[p]) /\ rec'[p].con <= Len(links'[p[1]])
    BY <1>1, <2>1, <2>2, ConnectedKeeps
  <2>4. StateInv'
    BY <1>1, <1>2, <1>3, <2>2, <2>3, AfterConnectFacts DEF TypesInv, StateInv
  <2>5. ConnectInv'
    <3>1. \A j \in Conns : rec'[<<j, "c">>].pc = "idle"
      BY <1>1, <2>3 DEF TypesInv, ConnectInv
    <3>2. \A j \in Conns : (j < k => links[j] # <<>>) /\ (j >= k => links[j] = <<>>)
      BY <1>1 DEF TypesInv, ConnectInv
    <3>3. \A j \in Conns : rip.ris = 0 /\ j < rip.at => links[j] # <<>>
      BY DEF TypesInv, ConnectInv
    <3>4. /\ client'.pc \in {"turns", "connect"}
          /\ client'.pc = "turns" => k = Cardinality(Conns)
          /\ client'.pc = "connect" => client'.at = k + 1 /\ k + 1 \in Conns
      BY <1>1, <2>2, AfterConnectFacts
    <3>5. \A j \in Conns : client'.pc = "connect" =>
             (j >= client'.at => links'[j] = <<>>) /\ (j < client'.at => links'[j] # <<>>)
      <4> SUFFICES ASSUME NEW j \in Conns, client'.pc = "connect"
                   PROVE  (j >= client'.at => links'[j] = <<>>) /\ (j < client'.at => links'[j] # <<>>)
        OBVIOUS
      <4>1. client'.at = k + 1 /\ j \in Nat /\ k \in Nat
        BY <1>1, <3>4, TypeFacts
      <4>2. j >= client'.at => j >= k /\ j # k
        BY <4>1
      <4>3. j < client'.at => j = k \/ j < k
        BY <4>1
      <4>4. QED
        BY <2>3, <3>2, <4>2, <4>3
    <3>6. client'.pc = "turns" => \A j \in Conns : links'[j] # <<>>
      <4> SUFFICES ASSUME client'.pc = "turns", NEW j \in Conns PROVE links'[j] # <<>>
        OBVIOUS
      <4>1. j = k \/ j < k
        BY <1>1, <3>4, TypeFacts
      <4>2. QED
        BY <2>3, <3>2, <4>1
    <3> DEFINE N(j) == rip'.ris = 0 /\ j < rip'.at => links'[j] # <<>>
    <3>7. \A j \in Conns : N(j)
      BY <1>1, <2>3, <3>3
    <3>8. \A j \in Conns : rec'[<<j, "c">>].con = Last(j)'
      BY <2>3 DEF Last
    <3> HIDE DEF N
    <3>9. QED
      BY <1>2, <3>1, <3>4, <3>5, <3>6, <3>7, <3>8 DEF ConnectInv, N
  <2>6. QED
    BY <1>1, <2>3, <2>4, <2>5, TypesFrame
<1>5. CASE ~ Reachable(k)
  <2>1. client' = [client EXCEPT !.pc = "reconnect"] /\ UNCHANGED <<links, rec>>
    BY <1>5 DEF Connect
  <2>2. client' \in [pc : {"connect", "reconnect", "turns", "ok", "failed"}, at : Nat \ {0}]
        /\ client'.pc = "reconnect" /\ client'.at = k
    BY <2>1, TypeFacts
  <2>3. StateInv'
    BY <1>1, <1>2, <1>3, <2>1, <2>2 DEF TypesInv, StateInv
  <2>4. ConnectInv'
    <3>1. \A j \in Conns : j > k => j >= k
      BY <1>1, TypeFacts
    <3>2. QED
      BY <1>1, <1>2, <2>1, <2>2, <3>1 DEF TypesInv, ConnectInv, Last
  <2>5. \A j \in Conns : Len(links'[j]) >= Len(links[j])
    BY <2>1, TypeFacts
  <2>6. QED
    BY <1>1, <2>1, <2>3, <2>4, <2>5, TypesFrameRec
<1>6. QED
  BY <1>4, <1>5

LEMMA TypesReConnect ==
    ASSUME TypesInv, NEW k \in Conns, ReConnect(k)
    PROVE  TypesInv'
<1>1. /\ Alive("c") /\ Recovering /\ k \in Records /\ k = rip.at /\ rip.n < MAX_TENTATIVI
      /\ UNCHANGED <<test, up, falls, client, server>>
  BY DEF ReConnect, TypesInv, StateInv
<1>2. Conns' = Conns /\ Points' = Points /\ (Alive("c")' <=> Alive("c"))
  BY <1>1, SameTest DEF Alive
<1>3. <<k, "c">> \in Points /\ <<k, "c">>[1] = k
  BY AtPoint, EndFacts
<1>4. Closed(<<k, "c">>) \in Seq(LinkStates) /\ Len(Closed(<<k, "c">>)) = Len(links[k])
  BY <1>3, ClosedFacts, TypeFacts
<1>5. /\ rip.at + 1 \in 1 .. (Cardinality(Conns) + 1) /\ k \in Nat /\ \A j \in Conns : j \in Nat
      /\ rip \in [at : 1 .. (Cardinality(Conns) + 1), ris : {0, -1}, n : 0 .. MAX_TENTATIVI]
  BY <1>1, TypeFacts
\* The client is past the Connect of record k.
<1>6. /\ client.pc # "connect" /\ (client.pc = "reconnect" => k <= client.at)
      /\ client.pc = "reconnect" => client.at \in Conns
  <2>1. client.pc # "connect"
    BY <1>1 DEF Recovering, TypesInv, ConnectInv
  <2>2. client.pc = "reconnect" => k <= client.at /\ client.at \in Conns
    BY <1>1 DEF Records, TypesInv, ConnectInv
  <2>3. QED
    BY <2>1, <2>2
<1>7. CASE Reachable(k)
  <2>1. Connected(k, Closed(<<k, "c">>)) /\ rip' = [rip EXCEPT !.at = rip.at + 1]
    BY <1>7 DEF ReConnect
  <2>2. /\ links' \in [Conns -> Seq(LinkStates)] /\ rec' \in [Points -> RecordStates]
        /\ \A j \in Conns : rec'[<<j, "c">>].con = Len(links'[j])
        /\ \A j \in Conns : rec'[<<j, "c">>].pc = rec[<<j, "c">>].pc
        /\ \A j \in Conns : links'[j] = <<>> <=> links[j] = <<>> /\ j # k
        /\ \A p \in Points : CallInv(p[2], rec'[p]) /\ rec'[p].con <= Len(links'[p[1]])
    BY <1>4, <2>1, ConnectedKeeps
  <2>3. /\ rip' \in [at : 1 .. (Cardinality(Conns) + 1), ris : {0, -1}, n : 0 .. MAX_TENTATIVI]
        /\ rip'.n = rip.n /\ rip'.ris = rip.ris /\ rip'.at = rip.at + 1
    BY <1>5, <2>1
  <2>4. StateInv'
    BY <1>1, <1>2, <2>2, <2>3 DEF TypesInv, StateInv
  <2>5. ConnectInv'
    <3>1. \A j \in Conns : rec'[<<j, "c">>].con = Last(j)'
      BY <2>2 DEF Last
    <3>2. client.pc = "reconnect" =>
            client.at \in Conns /\ \A j \in Conns : rec'[<<j, "c">>].pc = "idle"
      BY <1>6, <2>2 DEF TypesInv, ConnectInv
    <3>3. \A j \in Conns : client.pc = "reconnect" =>
            (j > client.at => links'[j] = <<>>) /\ (j < client.at => links'[j] # <<>>)
      <4> SUFFICES ASSUME NEW j \in Conns, client.pc = "reconnect"
                   PROVE  (j > client.at => links'[j] = <<>>) /\ (j < client.at => links'[j] # <<>>)
        OBVIOUS
      <4>1. j > client.at => j # k
        <5>1. client.at \in Nat /\ k <= client.at /\ j \in Nat /\ k \in Nat
          BY <1>5, <1>6
        <5>2. QED
          BY <5>1
      <4>2. QED
        BY <2>2, <4>1 DEF TypesInv, ConnectInv
    <3>4. \A j \in Conns : client.pc \in {"turns", "ok"} => links'[j] # <<>>
      BY <2>2 DEF TypesInv, ConnectInv
    <3>5. \A j \in Conns : rip'.ris = 0 /\ j < rip'.at => links'[j] # <<>>
      <4> SUFFICES ASSUME NEW j \in Conns, rip.ris = 0, j < rip.at + 1 PROVE links'[j] # <<>>
        BY <2>3
      <4>1. j = k \/ j < rip.at
        BY <1>1, <1>5
      <4>2. QED
        BY <2>2, <4>1 DEF TypesInv, ConnectInv
    <3>6. QED
      BY <1>1, <1>2, <1>6, <3>1, <3>2, <3>3, <3>4, <3>5 DEF ConnectInv
  <2>6. QED
    BY <1>1, <2>2, <2>4, <2>5, TypesFrame
<1>8. CASE ~ Reachable(k)
  <2>1. /\ links' = [links EXCEPT ![k] = Closed(<<k, "c">>)]
        /\ rip' = [rip EXCEPT !.at = rip.at + 1, !.ris = -1] /\ rec' = rec
    BY <1>8 DEF ReConnect
  <2>2. links' \in [Conns -> Seq(LinkStates)] /\ \A j \in Conns : Len(links'[j]) = Len(links[j])
    BY ZenonT(40), <1>3, <2>1, ClosedLinks, TypeFacts
  <2>3. /\ rip' \in [at : 1 .. (Cardinality(Conns) + 1), ris : {0, -1}, n : 0 .. MAX_TENTATIVI]
        /\ rip'.n = rip.n /\ rip'.ris = -1
    BY <1>5, <2>1
  <2>4. StateInv'
    BY <1>1, <1>2, <2>1, <2>2, <2>3 DEF TypesInv, StateInv
  <2>5. \A j \in Conns : (links'[j] = <<>> <=> links[j] = <<>>) /\ Last(j)' = Last(j)
    <3> TAKE j \in Conns
    <3>1. links[j] \in Seq(LinkStates) /\ links'[j] \in Seq(LinkStates) /\ Len(links'[j]) = Len(links[j])
      BY <2>2, TypeFacts
    <3>2. QED
      BY <3>1 DEF Last
  <2>6. ConnectInv'
    BY <1>1, <1>2, <2>1, <2>3, <2>5 DEF TypesInv, ConnectInv
  <2>7. \A j \in Conns : Len(links'[j]) >= Len(links[j])
    BY <2>2, TypeFacts
  <2>8. QED
    BY <1>1, <2>1, <2>4, <2>6, <2>7, TypesFrameRec
<1>9. QED
  BY <1>7, <1>8

\* The client returns from Ripristino.
LEMMA RecoveredFacts ==
    ASSUME TypesInv, Recovered
    PROVE  /\ rip.at = Cardinality(Records) + 1 /\ rip.ris = 0 /\ rip' = NewPass(0)
           /\ UNCHANGED <<test, links, up, falls, server>>
           /\ client.pc \in {"reconnect", "turns"}
           /\ client.pc = "reconnect" => rip.at = client.at + 1 /\ client' = AfterConnect /\ rec' = rec
           /\ client.pc = "turns" =>
                /\ rip.at = Cardinality(Conns) + 1 /\ client' = client
                /\ \E k \in Conns : rec[<<k, "c">>].pc = "ripristino" /\ rec' = [rec EXCEPT ![<<k, "c">>] = Resume(<<k, "c">>)]
<1>1. /\ Alive("c") /\ Recovering /\ rip.at = Cardinality(Records) + 1 /\ rip.ris = 0 /\ rip' = NewPass(0)
      /\ UNCHANGED <<test, links, up, falls, server>>
  BY DEF Recovered, Passed
<1>2. client.pc \in {"reconnect", "turns"}
  BY <1>1, TypeFacts DEF Alive, Recovering, TypesInv, ConnectInv
<1>3. client.pc = "reconnect" => rip.at = client.at + 1 /\ client' = AfterConnect /\ rec' = rec
  <2> HAVE client.pc = "reconnect"
  <2>1. Records = 1 .. client.at /\ client.at \in Nat
    BY TypeFacts DEF Records
  <2>2. Cardinality(Records) = client.at
    BY <2>1, FS_Interval
  <2>3. QED
    BY <1>1, <2>2 DEF Recovered
<1>4. client.pc = "turns" => /\ rip.at = Cardinality(Conns) + 1 /\ client' = client
                             /\ \E k \in Conns : rec[<<k, "c">>].pc = "ripristino" /\ rec' = [rec EXCEPT ![<<k, "c">>] = Resume(<<k, "c">>)]
  BY <1>1 DEF Recovered, Records, Become
<1>5. QED
  BY <1>1, <1>2, <1>3, <1>4

\* A pass over the records begins.
LEMMA NewPassFacts ==
    ASSUME TypesInv, NEW n \in 0 .. MAX_TENTATIVI
    PROVE  /\ NewPass(n) \in [at : 1 .. (Cardinality(Conns) + 1), ris : {0, -1}, n : 0 .. MAX_TENTATIVI]
           /\ NewPass(n).at = 1 /\ NewPass(n).ris = 0 /\ NewPass(n).n = n
<1>1. 1 \in 1 .. (Cardinality(Conns) + 1)
  BY TypeFacts
<1>2. QED
  BY <1>1 DEF NewPass

LEMMA TypesRecovered ==
    ASSUME TypesInv, Recovered
    PROVE  TypesInv'
<1>1. /\ UNCHANGED <<test, links, up, falls, server>> /\ rip.ris = 0 /\ rip' = NewPass(0)
      /\ client.pc \in {"reconnect", "turns"}
  BY RecoveredFacts
<1>2. Conns' = Conns /\ Points' = Points /\ MAX_TENTATIVI \in Nat \ {0} /\ 0 \in 0 .. MAX_TENTATIVI
  BY <1>1, SameTest, ProgramsAssumption
<1>3. /\ rip' \in [at : 1 .. (Cardinality(Conns) + 1), ris : {0, -1}, n : 0 .. MAX_TENTATIVI]
      /\ rip'.at = 1 /\ rip'.n = 0
  BY <1>1, <1>2, NewPassFacts
<1>4. \A j \in Conns : ~ j < 1
  BY TypeFacts
<1>5. CASE client.pc = "reconnect"
  <2>1. rip.at = client.at + 1 /\ client' = AfterConnect /\ rec' = rec /\ client.at \in Conns
    BY <1>5, RecoveredFacts DEF TypesInv, ConnectInv
  <2>2. /\ AfterConnect \in [pc : {"connect", "reconnect", "turns", "ok", "failed"}, at : Nat \ {0}]
        /\ AfterConnect.pc \in {"turns", "connect"}
        /\ AfterConnect.pc = "turns" => client.at = Cardinality(Conns)
        /\ AfterConnect.pc = "connect" => AfterConnect.at = client.at + 1 /\ client.at + 1 \in Conns
    BY <2>1, AfterConnectFacts
  <2>3. StateInv'
    BY <1>1, <1>2, <1>3, <2>1, <2>2 DEF TypesInv, StateInv
  <2>4. ConnectInv'
    <3>1. \A j \in Conns : j <= client.at => links[j] # <<>>
      <4> TAKE j \in Conns
      <4>1. j <= client.at => j < rip.at
        BY SMTT(30), <2>1, TypeFacts
      <4>2. QED
        BY <1>1, <4>1 DEF TypesInv, ConnectInv
    <3>2. \A j \in Conns : j > client.at => links[j] = <<>>
      BY <1>5 DEF TypesInv, ConnectInv
    <3>3. \A j \in Conns : rec'[<<j, "c">>].con = Last(j)' /\ rec'[<<j, "c">>].pc = "idle"
      BY <1>1, <1>5, <2>1 DEF TypesInv, ConnectInv, Last
    <3>4. \A j \in Conns : client'.pc = "connect" =>
            (j >= client'.at => links[j] = <<>>) /\ (j < client'.at => links[j] # <<>>)
      <4> SUFFICES ASSUME NEW j \in Conns, client'.pc = "connect"
                   PROVE  (j >= client'.at => links[j] = <<>>) /\ (j < client'.at => links[j] # <<>>)
        OBVIOUS
      <4>1. client'.at = client.at + 1 /\ j \in Nat /\ client.at \in Nat
        BY <2>1, <2>2, TypeFacts
      <4>2. (j >= client'.at => j > client.at) /\ (j < client'.at => j <= client.at)
        BY <4>1
      <4>3. QED
        BY <3>1, <3>2, <4>2
    <3>5. client'.pc = "turns" => \A j \in Conns : links[j] # <<>>
      <4> SUFFICES ASSUME client'.pc = "turns", NEW j \in Conns PROVE links[j] # <<>>
        OBVIOUS
      <4>1. j <= client.at
        BY <2>1, <2>2, TypeFacts
      <4>2. QED
        BY <3>1, <4>1
    <3>6. client'.pc = "connect" => client'.at \in Conns
      BY <2>1, <2>2
    <3>7. QED
      BY <1>1, <1>2, <1>3, <1>4, <2>1, <2>2, <3>3, <3>4, <3>5, <3>6 DEF ConnectInv
  <2>5. \A j \in Conns : Len(links'[j]) >= Len(links[j])
    BY <1>1, TypeFacts
  <2>6. QED
    BY <1>1, <2>1, <2>3, <2>4, <2>5, TypesFrameRec
<1>6. CASE client.pc = "turns"
  <2>1. client' = client /\ \E k \in Conns : rec[<<k, "c">>].pc = "ripristino" /\ rec' = [rec EXCEPT ![<<k, "c">>] = Resume(<<k, "c">>)]
    BY <1>6, RecoveredFacts
  <2>2. PICK k \in Conns : rec[<<k, "c">>].pc = "ripristino" /\ rec' = [rec EXCEPT ![<<k, "c">>] = Resume(<<k, "c">>)]
    BY <2>1
  <2> DEFINE p == <<k, "c">>
  <2> DEFINE r == Resume(p)
  <2>3. p \in Points /\ p[1] = k /\ p[2] = "c"
    BY AtPoint, EndFacts
  <2>4. r \in RecordStates /\ r.con = rec[p].con /\ CallInv(p[2], r)
    BY <2>3, ResumeRecord
  <2> HIDE DEF p, r
  <2>5. rec' = [rec EXCEPT ![p] = r]
    BY <2>2 DEF p, r
  <2>6. \A x \in Points : rec'[x] = IF x = p THEN r ELSE rec[x]
    BY <2>5, TypeFacts
  <2>7. rec' \in [Points -> RecordStates]
    BY <2>3, <2>4, <2>5, TypeFacts
  <2>8. StateInv'
    BY <1>1, <1>2, <1>3, <2>1, <2>7 DEF TypesInv, StateInv
  <2>9. \A j \in Conns : rec'[<<j, "c">>].con = rec[<<j, "c">>].con
    <3> TAKE j \in Conns
    <3>1. <<j, "c">> \in Points
      BY AtPoint, EndFacts
    <3>2. QED
      BY <2>4, <2>6, <3>1
  <2>10. ConnectInv'
    BY <1>1, <1>2, <1>3, <1>4, <1>6, <2>1, <2>9 DEF TypesInv, ConnectInv, Last
  <2>11. \A x \in Points : CallInv(x[2], rec'[x]) /\ rec'[x].con <= Len(links'[x[1]])
    <3> TAKE x \in Points
    <3>1. CallInv(x[2], rec[x]) /\ rec[x].con <= Len(links[x[1]])
      BY DEF TypesInv, Last
    <3>2. QED
      BY <1>1, <2>4, <2>6, <3>1
  <2>12. QED
    BY <1>1, <2>8, <2>10, <2>11, TypesFrame
<1>7. QED
  BY <1>1, <1>5, <1>6

LEMMA TypesPassFailed ==
    ASSUME TypesInv, PassFailed
    PROVE  TypesInv'
<1>1. /\ Alive("c") /\ rip' = NewPass(rip.n + 1) /\ UNCHANGED <<test, up, falls, rec, server>>
      /\ rip.n + 1 \in 0 .. MAX_TENTATIVI /\ (rip.n + 1 # MAX_TENTATIVI => rip.n + 1 < MAX_TENTATIVI)
  BY TypeFacts, ProgramsAssumption DEF PassFailed, TypesInv, StateInv
<1>2. Conns' = Conns /\ Points' = Points
  BY <1>1, SameTest
<1>3. /\ rip' \in [at : 1 .. (Cardinality(Conns) + 1), ris : {0, -1}, n : 0 .. MAX_TENTATIVI]
      /\ rip'.at = 1 /\ rip'.n = rip.n + 1
  BY <1>1, NewPassFacts
<1>4. \A j \in Conns : ~ j < 1
  BY TypeFacts
<1>5. /\ client' = client \/ client' = [client EXCEPT !.pc = "failed"]
      /\ client' # client => Exit("c")
      /\ client' = client => UNCHANGED links \/ Exit("c")
      /\ rip.n + 1 = MAX_TENTATIVI => client' = [client EXCEPT !.pc = "failed"]
  BY DEF PassFailed
<1>6. links' \in [Conns -> Seq(LinkStates)] /\ \A j \in Conns : Len(links'[j]) = Len(links[j])
  BY <1>5, ExitFacts, EndFacts, TypeFacts
<1>7. \A j \in Conns : (links'[j] = <<>> <=> links[j] = <<>>) /\ Last(j)' = Last(j) /\ Len(links'[j]) >= Len(links[j])
  <2> TAKE j \in Conns
  <2>1. links[j] \in Seq(LinkStates) /\ links'[j] \in Seq(LinkStates) /\ Len(links'[j]) = Len(links[j])
    BY <1>6, TypeFacts
  <2>2. QED
    BY <2>1 DEF Last
<1>8. /\ client' \in [pc : {"connect", "reconnect", "turns", "ok", "failed"}, at : Nat \ {0}]
      /\ client' = client \/ client'.pc = "failed"
      /\ rip.n + 1 = MAX_TENTATIVI => client'.pc = "failed"
  BY <1>5, TypeFacts
<1>9. StateInv'
  BY <1>1, <1>2, <1>3, <1>6, <1>8 DEF TypesInv, StateInv, Alive
<1>10. ConnectInv'
  BY <1>1, <1>2, <1>3, <1>4, <1>7, <1>8 DEF TypesInv, ConnectInv
<1>11. QED
  BY <1>1, <1>7, <1>9, <1>10, TypesFrameRec

LEMMA TypesClientDone ==
    ASSUME TypesInv, ClientDone
    PROVE  TypesInv'
<1>1. /\ client.pc = "turns" /\ client' = [client EXCEPT !.pc = "ok"] /\ Exit("c")
      /\ UNCHANGED <<test, up, falls, rec, server, rip>>
  BY DEF ClientDone
<1>2. Conns' = Conns /\ Points' = Points
  BY <1>1, SameTest
<1>3. links' \in [Conns -> Seq(LinkStates)] /\ \A j \in Conns : Len(links'[j]) = Len(links[j])
  BY <1>1, ExitFacts, EndFacts
<1>4. \A j \in Conns : (links'[j] = <<>> <=> links[j] = <<>>) /\ Last(j)' = Last(j) /\ Len(links'[j]) >= Len(links[j])
  <2> TAKE j \in Conns
  <2>1. links[j] \in Seq(LinkStates) /\ links'[j] \in Seq(LinkStates) /\ Len(links'[j]) = Len(links[j])
    BY <1>3, TypeFacts
  <2>2. QED
    BY <2>1 DEF Last
<1>5. client' \in [pc : {"connect", "reconnect", "turns", "ok", "failed"}, at : Nat \ {0}] /\ client'.pc = "ok"
  BY <1>1, TypeFacts
<1>6. StateInv'
  BY <1>1, <1>2, <1>3, <1>5 DEF TypesInv, StateInv, Alive
<1>7. ConnectInv'
  BY <1>1, <1>2, <1>4, <1>5 DEF TypesInv, ConnectInv
<1>8. QED
  BY <1>1, <1>4, <1>6, <1>7, TypesFrameRec

\* The steps of the main thread of the server.
LEMMA TypesAccept ==
    ASSUME TypesInv, Accept
    PROVE  TypesInv'
<1> DEFINE k == server.at
<1> DEFINE p == <<k, "s">>
<1> DEFINE r == [rec[p] EXCEPT !.con = 1]
<1>1. k \in Conns /\ links[k] # <<>> /\ UNCHANGED <<test, links, up, falls, client, rip>>
  BY TypeFacts DEF Accept
<1>2. Conns' = Conns /\ Points' = Points /\ Cardinality(Conns') = Cardinality(Conns)
  BY <1>1, SameTest
<1>3. p \in Points /\ p[1] = k /\ p[2] = "s"
  BY <1>1, AtPoint, EndFacts
<1>4. rec' = [rec EXCEPT ![p] = r]
  BY DEF Accept, Become
<1>5. r \in RecordStates /\ r.con = 1 /\ CallInv(p[2], r)
  <2>1. rec[p] \in RecordStates /\ CallInv(p[2], rec[p]) /\ 1 \in Nat
    BY <1>3, IsRecord DEF TypesInv
  <2> HIDE DEF p
  <2> DEFINE z == rec[p]
  <2>2. r = [z EXCEPT !.con = 1] /\ z \in RecordStates /\ CallInv(p[2], z)
    BY <2>1
  <2> HIDE DEF r, z
  <2>3. /\ r \in RecordStates /\ r.con = 1 /\ r.turn = z.turn /\ r.checkpoint = z.checkpoint /\ r.pc = z.pc
        /\ r.rd = z.rd /\ r.quota = z.quota /\ r.tent = z.tent /\ r.buffer = z.buffer
    BY <2>1, <2>2, MovedRecord
  <2>4. QED
    BY <2>2, <2>3 DEF CallInv
<1> HIDE DEF r, p
<1>6. rec' \in [Points -> RecordStates] /\ \A x \in Points : rec'[x] = IF x = p THEN r ELSE rec[x]
  BY <1>3, <1>4, <1>5, TypeFacts
<1>7. server' \in [pc : {"accept", "join", "ok", "failed"}, at : Conns]
  <2>1. Conns = 1 .. Cardinality(Conns) /\ Cardinality(Conns) \in Nat \ {0}
    BY TypeFacts
  <2>2. server' = IF k = Cardinality(Conns) THEN [pc |-> "join", at |-> 1] ELSE [server EXCEPT !.at = k + 1]
    BY DEF Accept
  <2>3. k # Cardinality(Conns) => k + 1 \in Conns
    BY <1>1, <2>1
  <2>4. 1 \in Conns
    BY <2>1
  <2>5. QED
    BY <2>2, <2>3, <2>4, TypeFacts
<1>8. StateInv'
  BY <1>1, <1>2, <1>6, <1>7 DEF TypesInv, StateInv, Alive
<1>9. \A j \in Conns : rec'[<<j, "c">>] = rec[<<j, "c">>]
  <2> TAKE j \in Conns
  <2>1. <<j, "c">> \in Points /\ <<j, "c">> # p
    BY AtPoint, EndFacts DEF p
  <2>2. QED
    BY <1>6, <2>1
<1>10. ConnectInv'
  BY <1>1, <1>2, <1>9 DEF TypesInv, ConnectInv, Last
<1>11. \A x \in Points : CallInv(x[2], rec'[x]) /\ rec'[x].con <= Len(links'[x[1]])
  <2> TAKE x \in Points
  <2>1. CallInv(x[2], rec[x]) /\ rec[x].con <= Len(links[x[1]])
    BY DEF TypesInv, Last
  <2>2. Len(links[k]) >= 1
    BY <1>1, TypeFacts
  <2>3. QED
    BY <1>1, <1>3, <1>5, <1>6, <2>1, <2>2
<1>12. QED
  BY <1>1, <1>8, <1>10, <1>11, TypesFrame

LEMMA TypesJoin ==
    ASSUME TypesInv, Join
    PROVE  TypesInv'
<1>1. UNCHANGED <<test, up, falls, rec, client, rip>> /\ server.at \in Conns
  BY TypeFacts DEF Join
<1>2. Conns' = Conns /\ Points' = Points
  BY <1>1, SameTest
<1>3. UNCHANGED links \/ Exit("s")
  BY DEF Join
<1>4. server' \in [pc : {"accept", "join", "ok", "failed"}, at : Conns]
  <2>1. \/ server' = [server EXCEPT !.pc = "ok"] \/ server' = [server EXCEPT !.pc = "failed"]
        \/ server.at # Cardinality(Conns) /\ server' = [server EXCEPT !.at = server.at + 1]
    BY DEF Join
  <2>2. server.at # Cardinality(Conns) => server.at + 1 \in Conns
    BY <1>1, TypeFacts
  <2>3. QED
    BY <2>1, <2>2, TypeFacts
<1>5. links' \in [Conns -> Seq(LinkStates)] /\ \A j \in Conns : Len(links'[j]) = Len(links[j])
  BY <1>3, ExitFacts, EndFacts, TypeFacts
<1>6. \A j \in Conns : (links'[j] = <<>> <=> links[j] = <<>>) /\ Last(j)' = Last(j) /\ Len(links'[j]) >= Len(links[j])
  <2> TAKE j \in Conns
  <2>1. links[j] \in Seq(LinkStates) /\ links'[j] \in Seq(LinkStates) /\ Len(links'[j]) = Len(links[j])
    BY <1>5, TypeFacts
  <2>2. QED
    BY <2>1 DEF Last
<1>7. StateInv'
  BY <1>1, <1>2, <1>4, <1>5 DEF TypesInv, StateInv, Alive
<1>8. ConnectInv'
  BY <1>1, <1>2, <1>6 DEF TypesInv, ConnectInv
<1>9. QED
  BY <1>1, <1>6, <1>7, <1>8, TypesFrameRec

\* What a fall leaves of a connection is a connection.
LEMMA RemainsFacts ==
    ASSUME NEW link \in LinkStates, NEW x \in Remains(link)
    PROVE  /\ x \in LinkStates
           /\ \A e \in Ends : \E m \in 0 .. Len(link.queue[e]) : x.queue[e] = SubSeq(link.queue[e], 1, m)
           /\ \A e \in Ends : x.st[e] = IF link.st[e] = "up" THEN "fin" ELSE link.st[e]
<1>1. PICK m \in 0 .. Len(link.queue["c"]), n \in 0 .. Len(link.queue["s"]) :
        x = [queue |-> [c |-> SubSeq(link.queue["c"], 1, m), s |-> SubSeq(link.queue["s"], 1, n)],
             st |-> [e \in Ends |-> IF link.st[e] = "up" THEN "fin" ELSE link.st[e]]]
  BY DEF Remains
<1> DEFINE q == [c |-> SubSeq(link.queue["c"], 1, m), s |-> SubSeq(link.queue["s"], 1, n)]
<1> DEFINE f == [e \in Ends |-> IF link.st[e] = "up" THEN "fin" ELSE link.st[e]]
<1>2. link.queue["c"] \in Seq(Int) /\ link.queue["s"] \in Seq(Int)
  BY EndFacts DEF LinkStates
<1>3. SubSeq(link.queue["c"], 1, m) \in Seq(Int) /\ SubSeq(link.queue["s"], 1, n) \in Seq(Int)
  <2>1. \A s \in Seq(Int) : \A i \in 0 .. Len(s) : SubSeq(s, 1, i) \in Seq(Int)
    <3> TAKE s \in Seq(Int)
    <3> TAKE i \in 0 .. Len(s)
    <3>1. \A j \in 1 .. i : s[j] \in Int
      OBVIOUS
    <3>2. QED
      BY <3>1, SubSeqProperties
  <2>2. QED
    BY <1>2, <2>1
<1>4. q \in [Ends -> Seq(Int)]
  <2> DEFINE a == SubSeq(link.queue["c"], 1, m)
  <2> DEFINE b == SubSeq(link.queue["s"], 1, n)
  <2> HIDE DEF a, b
  <2>1. q = [c |-> a, s |-> b]
    BY DEF a, b
  <2>2. [c |-> a, s |-> b] = [e \in Ends |-> IF e = "c" THEN a ELSE b]
    BY DEF Ends
  <2>3. a \in Seq(Int) /\ b \in Seq(Int)
    BY <1>3 DEF a, b
  <2>4. QED
    BY <2>1, <2>2, <2>3
<1>5. f \in [Ends -> States]
  BY DEF LinkStates, States
<1>6. x.queue = q /\ x.st = f
  BY <1>1
<1>7. x \in LinkStates
  <2>1. x = [queue |-> q, st |-> f]
    BY <1>1
  <2> HIDE DEF q, f
  <2>2. QED
    BY <1>4, <1>5, <2>1 DEF LinkStates
<1>8. q["c"] = SubSeq(link.queue["c"], 1, m) /\ q["s"] = SubSeq(link.queue["s"], 1, n)
  OBVIOUS
<1>9. \A e \in Ends : \E i \in 0 .. Len(link.queue[e]) : x.queue[e] = SubSeq(link.queue[e], 1, i)
  BY <1>6, <1>8 DEF Ends
<1>10. \A e \in Ends : x.st[e] = IF link.st[e] = "up" THEN "fin" ELSE link.st[e]
  BY <1>6
<1>11. QED
  BY <1>7, <1>9, <1>10

\* What a fall leaves of the connections of a group.
LEMMA FallFacts ==
    ASSUME TypesInv, NEW X \in Groups, Fall(X)
    PROVE  /\ links' \in [Conns -> Seq(LinkStates)]
           /\ \A k \in Conns : Len(links'[k]) = Len(links[k])
           /\ \A k \in Conns : links[k] = <<>> \/ k \notin X => links'[k] = links[k]
           /\ \A k \in X : links[k] # <<>> => \E x \in Fallen(k) : links'[k] = [links[k] EXCEPT ![Len(links[k])] = x]
           /\ up' = [k \in Conns |-> up[k] /\ k \notin X] /\ falls' = falls + 1
           /\ UNCHANGED <<test, rec, client, server, rip>> /\ X \subseteq Conns
<1> DEFINE D == {k \in X : links[k] # <<>>}
<1>0. X \subseteq Conns
  BY DEF Groups
<1>1. PICK l \in [D -> UNION {Fallen(k) : k \in {j \in X : links[j] # <<>>}}] :
        /\ \A k \in DOMAIN l : l[k] \in Fallen(k)
        /\ links' = [k \in Conns |-> IF k \in DOMAIN l THEN [links[k] EXCEPT ![Last(k)] = l[k]] ELSE links[k]]
  BY DEF Fall
<1>2. DOMAIN l = D
  OBVIOUS
<1>3. \A k \in Conns : links'[k] = IF k \in D THEN [links[k] EXCEPT ![Len(links[k])] = l[k]] ELSE links[k]
  BY <1>1, <1>2 DEF Last
<1>4. \A k \in D : l[k] \in Fallen(k)
  BY <1>1, <1>2
<1>5. \A k \in D : [links[k] EXCEPT ![Len(links[k])] = l[k]] \in Seq(LinkStates)
                   /\ Len([links[k] EXCEPT ![Len(links[k])] = l[k]]) = Len(links[k])
  <2> TAKE k \in D
  <2> DEFINE x == l[k]
  <2>1. links[k] \in Seq(LinkStates) /\ Len(links[k]) \in 1 .. Len(links[k])
    BY <1>0, TypeFacts
  <2>2. links[k][Len(links[k])] \in LinkStates
    BY <2>1
  <2>3. x \in Remains(links[k][Len(links[k])])
    BY <1>4 DEF Fallen, Last
  <2>4. x \in LinkStates
    BY <2>2, <2>3, RemainsFacts
  <2> HIDE DEF x
  <2>5. [links[k] EXCEPT ![Len(links[k])] = x] \in Seq(LinkStates) /\ Len([links[k] EXCEPT ![Len(links[k])] = x]) = Len(links[k])
    BY <2>1, <2>4, ExceptSeq
  <2>6. QED
    BY <2>5 DEF x
<1>6. links' = [k \in Conns |-> links'[k]]
  BY <1>1
<1>7. \A k \in Conns : links'[k] \in Seq(LinkStates) /\ Len(links'[k]) = Len(links[k])
  <2> TAKE k \in Conns
  <2>1. CASE k \in D
    BY <1>3, <1>5, <2>1
  <2>2. CASE k \notin D
    BY <1>3, <2>2, TypeFacts
  <2>3. QED
    BY <2>1, <2>2
<1>8. links' \in [Conns -> Seq(LinkStates)]
  BY <1>6, <1>7
<1>9. \A k \in X : links[k] # <<>> => \E x \in Fallen(k) : links'[k] = [links[k] EXCEPT ![Len(links[k])] = x]
  BY <1>0, <1>3, <1>4
<1>10. up' = [k \in Conns |-> up[k] /\ k \notin X] /\ falls' = falls + 1 /\ UNCHANGED <<test, rec, client, server, rip>>
  BY DEF Fall
<1>11. \A k \in Conns : links[k] = <<>> \/ k \notin X => links'[k] = links[k]
  BY <1>3
<1>12. QED
  BY <1>0, <1>7, <1>8, <1>9, <1>10, <1>11

\* What a step of the network owes to the types.
LEMMA TypesNet ==
    ASSUME TypesInv, UNCHANGED <<test, rec, client, server, rip>>, falls' \in Nat, up' \in [Conns -> BOOLEAN],
           links' \in [Conns -> Seq(LinkStates)], \A j \in Conns : Len(links'[j]) = Len(links[j])
    PROVE  TypesInv'
<1>1. Conns' = Conns /\ Points' = Points
  BY SameTest
<1>2. \A j \in Conns : (links'[j] = <<>> <=> links[j] = <<>>) /\ Last(j)' = Last(j) /\ Len(links'[j]) >= Len(links[j])
  <2> TAKE j \in Conns
  <2>1. links[j] \in Seq(LinkStates) /\ links'[j] \in Seq(LinkStates) /\ Len(links'[j]) = Len(links[j])
    BY TypeFacts
  <2>2. QED
    BY <2>1 DEF Last
<1>3. StateInv'
  BY <1>1 DEF TypesInv, StateInv, Alive
<1>4. ConnectInv'
  BY <1>1, <1>2 DEF TypesInv, ConnectInv
<1>5. QED
  BY <1>2, <1>3, <1>4, TypesFrameRec

LEMMA TypesFall ==
    ASSUME TypesInv, NEW X \in Groups, Fall(X)
    PROVE  TypesInv'
<1>1. up' \in [Conns -> BOOLEAN] /\ falls' \in Nat
  <2>1. up \in [Conns -> BOOLEAN] /\ falls \in Nat
    BY TypeFacts
  <2>2. up' = [k \in Conns |-> up[k] /\ k \notin X] /\ falls' = falls + 1
    BY FallFacts
  <2>3. up' \in [Conns -> BOOLEAN]
    BY <2>1, <2>2, Zenon
  <2>4. QED
    BY <2>1, <2>2, <2>3
<1>2. QED
  BY <1>1, FallFacts, TypesNet

LEMMA TypesComeBack ==
    ASSUME TypesInv, NEW X \in Groups, ComeBack(X)
    PROVE  TypesInv'
<1>1. up' \in [Conns -> BOOLEAN] /\ UNCHANGED <<test, links, falls, rec, client, server, rip>>
  BY TypeFacts DEF ComeBack
<1>2. links' \in [Conns -> Seq(LinkStates)] /\ falls' \in Nat /\ \A j \in Conns : Len(links'[j]) = Len(links[j])
  BY <1>1, TypeFacts
<1>3. QED
  BY <1>1, <1>2, TypesNet

\* Every step.
LEMMA TypesStep ==
    ASSUME TypesInv, Next
    PROVE  TypesInv'
<1>1. ASSUME NEW k \in Conns, NEW e \in Ends, Call(<<k, e>>)
      PROVE  TypesInv'
  <2>1. <<k, e>> \in Points
    BY AtPoint
  <2>2. QED
    BY <1>1, <2>1, TypesCall
<1>2. CASE ClientMain
  BY <1>1, <1>2, TypesConnect, TypesReConnect, TypesRecovered, TypesPassFailed, TypesClientDone, EndFacts DEF ClientMain, Recovery
<1>3. CASE ServerMain
  BY <1>3, TypesAccept, TypesJoin DEF ServerMain
<1>4. CASE Network
  BY <1>4, TypesFall, TypesComeBack DEF Network
<1>5. QED
  BY <1>1, <1>2, <1>3, <1>4, EndFacts DEF Next

LEMMA TypesStutter ==
    ASSUME TypesInv, UNCHANGED vars
    PROVE  TypesInv'
<1>1. falls' \in Nat /\ up' \in [Conns -> BOOLEAN]
      /\ links' \in [Conns -> Seq(LinkStates)] /\ \A j \in Conns : Len(links'[j]) = Len(links[j])
  BY TypeFacts DEF vars
<1>2. QED
  BY <1>1, TypesNet DEF vars

\* The first state.
LEMMA TypesInit ==
    ASSUME Init
    PROVE  TypesInv
<1> DEFINE r == [con |-> 0, pc |-> "idle", turn |-> 1, checkpoint |-> 0, ack |-> 0,
                 lastid |-> -1, buffer |-> <<>>, quota |-> 0, rd |-> 0, tent |-> 0]
<1>1. /\ test \in Tests /\ links = [k \in Conns |-> <<>>] /\ up = [k \in Conns |-> TRUE] /\ falls = 0
      /\ rec = [p \in Points |-> r] /\ client = [pc |-> "connect", at |-> 1]
      /\ server = [pc |-> "accept", at |-> 1] /\ rip = [at |-> 1, ris |-> 0, n |-> 0]
  BY DEF Init
<1>2. /\ Conns = 1 .. Cardinality(Conns) /\ Cardinality(Conns) \in Nat \ {0} /\ Conns \subseteq Nat \ {0}
      /\ DOMAIN Turns = 1 .. Len(Turns) /\ Len(Turns) \in Nat /\ \A t \in DOMAIN Turns : Turns[t] \in Nat \ {0}
      /\ MAX_TENTATIVI \in Nat \ {0}
  BY <1>1, TestFacts, ProgramsAssumption
<1>3. r \in RecordStates
  <2>1. "idle" \in Places /\ <<>> \in Seq(Int)
    BY PlaceNames
  <2>2. QED
    BY <2>1 DEF RecordStates
<1>4. /\ r.con = 0 /\ r.pc = "idle" /\ r.turn = 1 /\ r.checkpoint = 0 /\ r.rd = 0 /\ r.tent = 0
      /\ r.quota = 0
  OBVIOUS
<1> HIDE DEF r
<1>5. StateInv
  <2>1. <<>> \in Seq(LinkStates)
    OBVIOUS
  <2>2. links \in [Conns -> Seq(LinkStates)]
    BY <1>1, <2>1
  <2>3. rec \in [Points -> RecordStates]
    BY <1>1, <1>3
  <2>4. rip \in [at : 1 .. (Cardinality(Conns) + 1), ris : {0, -1}, n : 0 .. MAX_TENTATIVI] /\ rip.n < MAX_TENTATIVI
    BY <1>1, <1>2
  <2>5. server \in [pc : {"accept", "join", "ok", "failed"}, at : Conns]
    BY <1>1, <1>2
  <2>6. client \in [pc : {"connect", "reconnect", "turns", "ok", "failed"}, at : Nat \ {0}]
    BY <1>1
  <2>7. up \in [Conns -> BOOLEAN] /\ falls \in Nat
    BY <1>1
  <2>8. QED
    BY <1>1, <2>2, <2>3, <2>4, <2>5, <2>6, <2>7 DEF StateInv
<1>6. \A k \in Conns : links[k] = <<>> /\ Last(k) = 0 /\ ~ k < 1
  BY <1>1, <1>2 DEF Last
<1>7. \A p \in Points : rec[p] = r
  BY <1>1
<1>8. ConnectInv
  <2>1. \A k \in Conns : rec[<<k, "c">>].con = 0 /\ rec[<<k, "c">>].pc = "idle"
    BY <1>4, <1>7, AtPoint, EndFacts
  <2>2. client.pc = "connect" /\ client.at = 1 /\ rip.at = 1 /\ 1 \in Conns
    BY <1>1, <1>2
  <2>3. QED
    BY <1>6, <2>1, <2>2 DEF ConnectInv
<1>9. \A e \in Ends : CallInv(e, r)
  <2>1. 1 \in DOMAIN Turns => Turns[1] \in Nat \ {0}
    BY <1>2
  <2>2. QED
    BY <1>2, <1>4, <2>1 DEF CallInv, WritesAt, ReadsAt
<1>10. \A p \in Points : CallInv(p[2], rec[p]) /\ rec[p].con <= Last(p[1])
  BY <1>4, <1>6, <1>7, <1>9, PointFacts
<1>11. QED
  BY <1>5, <1>8, <1>10 DEF TypesInv

LEMMA TypesTypeOK ==
    ASSUME TypesInv
    PROVE  TypeOK
<1>1. client.pc \in Mains /\ server.pc \in Mains
  BY TypeFacts DEF Mains
<1>2. rip.at \in 1 .. (Cardinality(Conns) + 1) /\ rip.n \in 0 .. MAX_TENTATIVI
  BY TypeFacts
<1>3. ASSUME NEW p \in Points
      PROVE  /\ rec[p].con \in 0 .. Last(p[1]) /\ rec[p].pc \in Places
             /\ rec[p].turn \in 1 .. (Len(Turns) + 1) /\ rec[p].tent \in 0 .. MAX_TENTATIVI
             /\ Writes(p) => rec[p].checkpoint \in 0 .. Turns[rec[p].turn]
             /\ Reads(p) => rec[p].rd < Turns[rec[p].turn]
             /\ rec[p].quota # 0 => Reads(p) /\ rec[p].quota < Parts(rec[p].turn, rec[p].rd)
  <2>1. /\ rec[p] \in RecordStates /\ CallInv(p[2], rec[p]) /\ rec[p].con <= Last(p[1])
        /\ p[1] \in Conns
    BY IsRecord, PointFacts DEF TypesInv
  <2>2. Last(p[1]) \in Nat /\ Len(Turns) \in Nat /\ MAX_TENTATIVI \in Nat
        /\ \A t \in DOMAIN Turns : Turns[t] \in Nat
    BY <2>1, TypeFacts, TestFacts, ProgramsAssumption DEF Last
  <2>3. /\ rec[p].con \in Nat /\ rec[p].pc \in Places /\ rec[p].turn \in Nat \ {0} /\ rec[p].tent \in Nat
        /\ rec[p].checkpoint \in Nat
    BY <2>1 DEF RecordStates
  <2>4. rec[p].turn <= Len(Turns) + 1 /\ rec[p].tent <= MAX_TENTATIVI
    BY <2>1 DEF CallInv
  <2>5. Writes(p) => rec[p].checkpoint <= Turns[rec[p].turn] /\ rec[p].turn \in DOMAIN Turns
    BY <2>1, CallNames DEF CallInv, Writes
  <2>6. Reads(p) => rec[p].rd < Turns[rec[p].turn]
    BY <2>1, CallNames DEF CallInv
  <2>7. rec[p].quota # 0 => Reads(p) /\ rec[p].quota < Parts(rec[p].turn, rec[p].rd)
    BY <2>1, CallNames DEF CallInv
  <2>8. QED
    BY <2>1, <2>2, <2>3, <2>4, <2>5, <2>6, <2>7
<1>4. QED
  BY <1>1, <1>2, <1>3 DEF TypeOK

\* TypesInv, and with it the types, hold in every state of the programs, whatever the
\* tests, the falls and what they lose.
THEOREM ProgramsTypes == Spec => []TypesInv /\ []TypeOK
<1>1. Init => TypesInv
  BY TypesInit
<1>2. TypesInv /\ [Next]_vars => TypesInv'
  BY TypesStep, TypesStutter
<1>3. TypesInv => TypeOK
  BY TypesTypeOK
<1>4. QED
  BY <1>1, <1>2, <1>3, PTL DEF Spec
=============================================================================

------------------------ MODULE ForwardThreadsProofs ------------------------
(***************************************************************************)
(* The proofs about ForwardThreads when connections come one after the     *)
(* other: its invariant, and that no thread touches another connection.    *)
(***************************************************************************)
EXTENDS ForwardInv, SequenceTheorems, FiniteSetTheorems, WellFoundedInduction, TLAPS

-----------------------------------------------------------------------------
(***************************************************************************)
(* Directions, units, and the number the kernel gives.                     *)
(***************************************************************************)
LEMMA AcrossDir ==
    ASSUME NEW d \in Dirs
    PROVE  /\ Across(d) \in Dirs /\ Across(d) # d /\ Across(Across(d)) = d
           /\ d[1] \in Conns /\ Across(d)[1] = d[1] /\ d[2] \in Ends
           /\ d = <<d[1], d[2]>>
           /\ \A e \in Dirs : e[1] = d[1] => e = d \/ e = Across(d)
<1>1. \A e \in Dirs : \E c \in Conns, x \in Ends : e = <<c, x>>
  BY DEF Dirs
<1>2. \A x \in Ends : other(x) \in Ends /\ other(x) # x /\ other(other(x)) = x
  BY DEF Ends, other
<1>3. \A x, y \in Ends : y = x \/ y = other(x)
  BY DEF Ends, other
<1>4. PICK c \in Conns, x \in Ends : d = <<c, x>>
  BY <1>1
<1>5. Across(d) = <<c, other(x)>>
  BY <1>4 DEF Across
<1>6. ASSUME NEW e \in Dirs, e[1] = d[1] PROVE e = d \/ e = Across(d)
  <2>1. PICK y \in Ends : e = <<c, y>>
    BY <1>1, <1>4, <1>6
  <2>2. QED
    BY <1>3, <1>4, <1>5, <2>1
<1>7. QED
  BY <1>2, <1>4, <1>5, <1>6 DEF Dirs, Across

LEMMA FreeIsNoSocket == Free \notin Dirs
<1>1. 0 \notin Conns
  BY ForwardThreadsAssumption DEF Conns
<1>2. QED
  BY <1>1 DEF Free, Dirs

LEMMA UnitsSeq ==
    ASSUME NEW d \in Dirs, NEW n \in Nat, NEW m \in 0 .. n
    PROVE  /\ Units(d, n) \in Seq(Dirs \X Nat) /\ Len(Units(d, n)) = n
           /\ LastUnits(d, m, n) \in Seq(Dirs \X Nat) /\ Len(LastUnits(d, m, n)) = m
<1>1. \A i \in 1 .. n : <<d, i>> \in Dirs \X Nat
  OBVIOUS
<1>2. \A i \in 1 .. m : <<d, n - m + i>> \in Dirs \X Nat
  OBVIOUS
<1>3. /\ Units(d, n) \in [1 .. n -> Dirs \X Nat]
      /\ LastUnits(d, m, n) \in [1 .. m -> Dirs \X Nat]
  BY <1>1, <1>2 DEF Units, LastUnits
<1>4. QED
  BY <1>3 DEF Units, LastUnits

\* Units delivered from the front of the last m of n.
LEMMA FrontUnits ==
    ASSUME NEW d \in Dirs, NEW n \in Nat, NEW m \in 0 .. n, NEW k \in 1 .. m
    PROVE  /\ SubSeq(LastUnits(d, m, n), k + 1, m) = LastUnits(d, m - k, n)
           /\ Units(d, n - m) \o SubSeq(LastUnits(d, m, n), 1, k) = Units(d, n - m + k)
<1> DEFINE S == Dirs \X Nat
           l == LastUnits(d, m, n)
           a == SubSeq(l, k + 1, m)
           b == SubSeq(l, 1, k)
           u == Units(d, n - m)
<1>1. l \in Seq(S) /\ Len(l) = m /\ \A i \in 1 .. m : l[i] = <<d, n - m + i>>
  BY UnitsSeq DEF LastUnits
<1>2. /\ u \in Seq(S) /\ Len(u) = n - m /\ \A i \in 1 .. (n - m) : u[i] = <<d, i>>
      /\ n - m \in Nat /\ m - k \in Nat
  <2>1. n - m \in Nat /\ 0 \in 0 .. (n - m)
    OBVIOUS
  <2>2. QED
    BY <2>1, UnitsSeq DEF Units
<1>3. /\ a \in Seq(S) /\ Len(a) = m - k /\ \A i \in 1 .. (m - k) : a[i] = l[i + k]
      /\ b \in Seq(S) /\ Len(b) = k /\ \A i \in 1 .. k : b[i] = l[i]
  <2>1. a = [i \in 1 .. (m - (k + 1) + 1) |-> l[i + (k + 1) - 1]]
    BY <1>1
  <2>2. b = [i \in 1 .. k |-> l[i]]
    BY <1>1
  <2>3. m - (k + 1) + 1 = m - k /\ \A i \in 1 .. (m - k) : i + (k + 1) - 1 = i + k /\ i + k \in 1 .. m
    OBVIOUS
  <2> HIDE DEF a, b, l, S
  <2>4. \A i \in 1 .. m : l[i] \in S
    BY <1>1
  <2>5. a \in [1 .. (m - k) -> S] /\ \A i \in 1 .. (m - k) : a[i] = l[i + k]
    BY <2>1, <2>3, <2>4
  <2>6. b \in [1 .. k -> S] /\ \A i \in 1 .. k : b[i] = l[i]
    BY <2>2, <2>4
  <2>7. \A j \in Nat : \A s \in [1 .. j -> S] : s \in Seq(S) /\ Len(s) = j
    OBVIOUS
  <2>8. k \in Nat
    OBVIOUS
  <2>9. QED
    BY <1>2, <2>5, <2>6, <2>7, <2>8
<1> HIDE DEF S, l, a, b, u
<1>4. a = LastUnits(d, m - k, n)
  <2>1. LastUnits(d, m - k, n) \in Seq(S) /\ Len(LastUnits(d, m - k, n)) = m - k
    <3>1. m - k \in 0 .. n
      OBVIOUS
    <3>2. QED
      BY ZenonT(40), <3>1, UnitsSeq DEF S
  <2>2. \A i \in 1 .. (m - k) : a[i] = <<d, n - (m - k) + i>>
    <3>1. \A i \in 1 .. (m - k) : i + k \in 1 .. m /\ n - m + (i + k) = n - (m - k) + i
      OBVIOUS
    <3>2. QED
      BY SMTT(30), <1>1, <1>3, <3>1
  <2>3. \A i \in 1 .. (m - k) : LastUnits(d, m - k, n)[i] = <<d, n - (m - k) + i>>
    BY DEF LastUnits
  <2>4. QED
    BY ZenonT(40), <1>3, <2>1, <2>2, <2>3, SeqEqual
<1>5. /\ u \o b \in Seq(S) /\ Len(u \o b) = n - m + k
      /\ \A i \in 1 .. (n - m + k) : (u \o b)[i] = IF i <= n - m THEN u[i] ELSE b[i - (n - m)]
  <2>1. /\ u \o b \in Seq(S) /\ Len(u \o b) = Len(u) + Len(b)
        /\ \A i \in 1 .. Len(u) + Len(b) :
             (u \o b)[i] = IF i <= Len(u) THEN u[i] ELSE b[i - Len(u)]
    BY <1>2, <1>3, ConcatProperties
  <2>2. QED
    BY <1>2, <1>3, <2>1
<1>6. \A i \in 1 .. (n - m + k) : (u \o b)[i] = <<d, i>>
  <2> TAKE i \in 1 .. (n - m + k)
  <2>1. CASE i <= n - m
    BY <1>2, <1>5, <2>1
  <2>2. CASE ~ (i <= n - m)
    <3>1. i - (n - m) \in 1 .. k /\ i - (n - m) \in 1 .. m /\ n - m + (i - (n - m)) = i
      BY <2>2
    <3>2. b[i - (n - m)] = l[i - (n - m)] /\ l[i - (n - m)] = <<d, n - m + (i - (n - m))>>
      BY <1>1, <1>3, <3>1
    <3>3. QED
      BY <1>5, <2>2, <3>1, <3>2
  <2>3. QED
    BY <2>1, <2>2
<1>7. /\ Units(d, n - m + k) \in Seq(S) /\ Len(Units(d, n - m + k)) = n - m + k
      /\ \A i \in 1 .. (n - m + k) : Units(d, n - m + k)[i] = <<d, i>>
  <2>1. n - m + k \in Nat /\ 0 \in 0 .. (n - m + k)
    OBVIOUS
  <2>2. QED
    BY <2>1, UnitsSeq DEF Units, S
<1>8. u \o b = Units(d, n - m + k)
  BY <1>5, <1>6, <1>7, SeqEqual
<1>9. QED
  BY <1>4, <1>8 DEF a, b, l, u

\* A set of natural numbers that is not empty has a least one.
LEMMA LeastNumber ==
    ASSUME NEW S \in SUBSET Nat, S # {}
    PROVE  Min(S) \in S
<1>1. PICK x \in S : \A y \in S : ~ (<<y, x>> \in OpToRel(<, Nat))
  BY NatLessThanWellFounded, WFMin
<1>2. \A y \in S : x <= y
  <2> TAKE y \in S
  <2>1. ~ (y < x)
    BY <1>1 DEF OpToRel
  <2>2. QED
    BY <2>1
<1>3. QED
  BY <1>2 DEF Min

LEMMA DirsCount ==
    IsFiniteSet(Dirs) /\ Cardinality(Dirs) = 2 * MaxConns /\ IsFiniteSet(Fds) /\ Cardinality(Fds) = 2 * MaxConns
<1>1. IsFiniteSet(Conns) /\ Cardinality(Conns) = MaxConns
  BY FS_Interval, ForwardThreadsAssumption DEF Conns
<1>2. IsFiniteSet(Ends) /\ Cardinality(Ends) = 2
  <2>1. Ends = {"browser"} \cup {"server"} /\ "server" \notin {"browser"}
    BY DEF Ends
  <2>2. IsFiniteSet({"browser"}) /\ Cardinality({"browser"}) = 1
    BY FS_Singleton
  <2>3. QED
    BY <2>1, <2>2, FS_AddElement
<1>3. IsFiniteSet(Dirs) /\ Cardinality(Dirs) = MaxConns * 2
  BY <1>1, <1>2, FS_Product DEF Dirs
<1>4. IsFiniteSet(Fds) /\ Cardinality(Fds) = 2 * MaxConns
  <2>1. 2 * MaxConns \in Nat
    BY ForwardThreadsAssumption
  <2>2. QED
    BY <2>1, FS_Interval DEF Fds
<1>5. QED
  BY <1>3, <1>4, ForwardThreadsAssumption

\* There are as many numbers as sockets, so one that has no number gets one.
LEMMA FreeNumber ==
    ASSUME IInv, NEW d \in Dirs, fds[d] = 0
    PROVE  NextFd \in Fds /\ table[NextFd] = Free
<1> DEFINE F == {f \in Fds : table[f] = Free}
<1>1. /\ table \in [Fds -> Dirs \cup {Free}]
      /\ \A e \in Dirs : \A f \in Fds : table[f] = e => f = fds[e]
  BY DEF IInv, TypeOK, Inv, NumberInv
<1>2. F # {}
  <2> SUFFICES ASSUME F = {} PROVE FALSE
    OBVIOUS
  <2>1. table \in [Fds -> Dirs \ {d}]
    <3>1. ASSUME NEW f \in Fds PROVE table[f] \in Dirs \ {d}
      <4>1. table[f] \in Dirs
        BY <1>1
      <4>2. f # 0
        BY ForwardThreadsAssumption DEF Fds
      <4>3. QED
        BY <1>1, <4>1, <4>2
    <3>2. QED
      BY <1>1, <3>1
  <2>2. IsFiniteSet(Dirs \ {d}) /\ Cardinality(Dirs \ {d}) = 2 * MaxConns - 1
    BY DirsCount, FS_RemoveElement
  <2>3. Cardinality(Dirs \ {d}) < Cardinality(Fds)
    BY <2>2, DirsCount, ForwardThreadsAssumption
  <2>4. PICK x, y \in Fds : x # y /\ table[x] = table[y]
    BY <2>1, <2>2, <2>3, DirsCount, FS_PigeonHole
  <2>5. table[x] \in Dirs
    BY <2>1
  <2>6. QED
    BY <1>1, <2>4, <2>5
<1>3. F \in SUBSET Nat
  BY ForwardThreadsAssumption DEF Fds
<1>4. Min(F) \in F
  BY <1>2, <1>3, LeastNumber
<1>5. QED
  BY <1>4 DEF NextFd

-----------------------------------------------------------------------------
(***************************************************************************)
(* The invariant at the start, and what its parts depend on.               *)
(***************************************************************************)
Thread == [at : Places, file : Dirs \cup {Free}, buf : Seq(Dirs \X Nat)]

LEMMA InitIInv == Init => IInv
<1> SUFFICES ASSUME Init PROVE IInv
  OBVIOUS
<1>1. TypeOK
  <2>1. Idle \in [at : Places, file : Dirs \cup {Free}, buf : Seq(Dirs \X Nat)]
    BY DEF Idle, Places
  <2>2. \A d \in Dirs : thread[d] = Idle
    BY DEF Init
  <2>3. \A d \in Dirs : thread[d].at \in {"read", "reading"} => thread[d].buf = <<>>
    BY <2>2 DEF Idle
  <2>4. thread \in [Dirs -> [at : Places, file : Dirs \cup {Free}, buf : Seq(Dirs \X Nat)]]
    BY <2>1 DEF Init
  <2>5. QED
    BY <2>3, <2>4 DEF Init, TypeOK
<1>2. ASSUME NEW d \in Dirs PROVE Inv(d)
  <2>1. Across(d) \in Dirs /\ d[1] \in Conns /\ d[1] \in Nat
    BY AcrossDir, ForwardThreadsAssumption DEF Conns
  <2>2. thread[d].at = "none" /\ thread[d].file = Free /\ thread[d].buf = <<>>
    BY DEF Init, Idle
  <2>3. /\ setup[d[1]] = "none" /\ fds[d] = 0 /\ taken[d] = 0 /\ out[d] = 0 /\ got[Across(d)] = <<>>
        /\ thread[d] = Idle
    BY <2>1 DEF Init
  <2>4. Units(d, 0) = <<>>
    BY UnitsSeq
  <2>5. SerialInv(d) /\ ThreadInv(d)
    BY <2>2, <2>3 DEF SerialInv, ThreadInv
  <2>6. NumberInv(d)
    BY <2>3, FreeIsNoSocket DEF Init, NumberInv, Numberless
  <2>7. DataInv(d)
    BY <2>2, <2>3, <2>4 DEF DataInv
  <2>8. QED
    BY <2>5, <2>6, <2>7 DEF Inv
<1>3. QED
  BY <1>1, <1>2 DEF IInv

LEMMA DataSame ==
    ASSUME NEW d \in Dirs, Inv(d), thread'[d] = thread[d], taken'[d] = taken[d],
           got'[Across(d)] = got[Across(d)], out'[d] = out[d],
           way'[Across(d)] = way[Across(d)]
    PROVE  DataInv(d)'
BY DEF Inv, DataInv

LEMMA ThreadSame ==
    ASSUME NEW d \in Dirs, Inv(d), setup'[d[1]] = setup[d[1]], thread'[d] = thread[d]
    PROVE  ThreadInv(d)'
BY DEF Inv, ThreadInv

LEMMA SerialSame ==
    ASSUME NEW d \in Dirs, Inv(d), setup' = setup,
           \A e \in Dirs : thread[e].at \in Over => thread'[e].at \in Over
    PROVE  SerialInv(d)'
<1>1. ASSUME NEW x \in 1 .. (d[1] - 1), NEW e \in Ends PROVE <<x, e>> \in Dirs
  <2>1. d[1] \in 1 .. MaxConns
    BY AcrossDir DEF Conns
  <2>2. x \in 1 .. MaxConns
    BY <2>1, ForwardThreadsAssumption
  <2>3. QED
    BY <2>2 DEF Dirs, Conns
<1>2. QED
  BY <1>1 DEF Inv, SerialInv

\* The other connections, while one is set up or a thread of it runs.
Elsewhere(c) ==
    \A x \in Conns \ {c} : /\ setup[x] \in {"none", "up", "failed"}
                           /\ \A e \in Ends : thread[<<x, e>>].at \in Over

LEMMA EarlierOver ==
    ASSUME IInv, NEW c \in Conns, setup[c] # "none", NEW x \in Conns, x < c
    PROVE  setup[x] \in {"up", "failed"} /\ \A e \in Ends : thread[<<x, e>>].at \in Over
<1>1. <<c, "browser">> \in Dirs /\ x \in 1 .. (c - 1)
  BY ForwardThreadsAssumption DEF Dirs, Ends, Conns
<1>2. SerialInv(<<c, "browser">>)
  BY <1>1 DEF IInv, Inv
<1>3. QED
  BY <1>1, <1>2 DEF SerialInv

LEMMA NoneIdle ==
    ASSUME IInv, NEW c \in Conns, setup[c] # "up", NEW e \in Ends
    PROVE  thread[<<c, e>>] = Idle /\ thread[<<c, e>>].at \in Over
<1>1. <<c, e>> \in Dirs
  BY DEF Dirs
<1>2. QED
  BY <1>1 DEF IInv, Inv, ThreadInv, Idle, Over

LEMMA OneAtATime ==
    ASSUME IInv, NEW c \in Conns,
           \/ setup[c] \in {"accepted", "socket", "connecting"}
           \/ \E e \in Ends : thread[<<c, e>>].at \notin Over
    PROVE  Elsewhere(c) /\ \A x \in Conns : x > c => setup[x] = "none"
<1>1. setup[c] # "none"
  BY NoneIdle
<1>2. ASSUME NEW x \in Conns, x > c PROVE setup[x] = "none"
  <2>1. CASE setup[x] # "none"
    <3>1. c < x
      BY <1>2, ForwardThreadsAssumption DEF Conns
    <3>2. setup[c] \in {"up", "failed"} /\ \A e \in Ends : thread[<<c, e>>].at \in Over
      BY <2>1, <3>1, EarlierOver
    <3>3. QED
      BY <3>2
  <2>2. QED
    BY <2>1
<1>3. ASSUME NEW x \in Conns, x # c
      PROVE  setup[x] \in {"none", "up", "failed"} /\ \A e \in Ends : thread[<<x, e>>].at \in Over
  <2>1. CASE x > c
    BY <1>2, <2>1, NoneIdle
  <2>2. CASE x < c
    BY <1>1, <2>2, EarlierOver
  <2>3. QED
    BY <1>3, <2>1, <2>2, ForwardThreadsAssumption DEF Conns
<1>4. QED
  BY <1>2, <1>3 DEF Elsewhere

-----------------------------------------------------------------------------
(***************************************************************************)
(* main, and forward_bidirezionale until it forwards.                      *)
(***************************************************************************)
SetupPlaces == {"none", "accepted", "socket", "connecting", "up", "failed"}

\* The types the lemmas below use.
LEMMA Types ==
    ASSUME IInv
    PROVE  /\ fine \in {0, 1} /\ setup \in [Conns -> SetupPlaces] /\ fds \in [Dirs -> Fds \cup {0}]
           /\ table \in [Fds -> Dirs \cup {Free}] /\ thread \in [Dirs -> Thread]
           /\ taken \in [Dirs -> Nat] /\ out \in [Dirs -> Nat]
           /\ way \in [Dirs -> {"open", "fin", "gone"}] /\ got \in [Dirs -> Seq(Dirs \X Nat)]
           /\ \A d \in Dirs : thread[d].at \in {"read", "reading"} => thread[d].buf = <<>>
           /\ 0 \notin Fds /\ up \in BOOLEAN
<1>1. 0 \notin Fds
  BY ForwardThreadsAssumption DEF Fds
<1>2. QED
  BY <1>1 DEF IInv, TypeOK, Thread, SetupPlaces

LEMMA NewNumber ==
    ASSUME IInv, NEW d \in Dirs, fds[d] = 0, NewSocket(d)
    PROVE  /\ fds' \in [Dirs -> Fds \cup {0}] /\ table' \in [Fds -> Dirs \cup {Free}]
           /\ fds'[d] \in Fds /\ table'[fds'[d]] = d
           /\ \A e \in Dirs : e # d => fds'[e] = fds[e]
           /\ \A e \in Dirs : fds[e] \in Fds /\ table[fds[e]] = e => table'[fds[e]] = e
           /\ \A e \in Dirs, f \in Fds : table'[f] = e => f = fds'[e]
<1>1. NextFd \in Fds /\ table[NextFd] = Free
  BY FreeNumber
<1>2. /\ fds' = [fds EXCEPT ![d] = NextFd] /\ table' = [table EXCEPT ![NextFd] = d]
      /\ fds \in [Dirs -> Fds \cup {0}] /\ table \in [Fds -> Dirs \cup {Free}] /\ 0 \notin Fds
  BY Types DEF NewSocket
<1> HIDE DEF NextFd
<1>3. \A e \in Dirs, f \in Fds : table[f] = e => f = fds[e]
  BY DEF IInv, Inv, NumberInv
<1>4. \A e \in Dirs, f \in Fds : table'[f] = e => f = fds'[e]
  <2> TAKE e \in Dirs, f \in Fds
  <2> HAVE table'[f] = e
  <2>1. CASE f = NextFd
    BY <1>1, <1>2, <2>1
  <2>2. CASE f # NextFd
    <3>1. table[f] = e
      BY <1>2, <2>2
    <3>2. f = fds[e] /\ e # d
      BY <1>2, <1>3, <3>1
    <3>3. QED
      BY <1>2, <3>2
  <2>3. QED
    BY <2>1, <2>2
<1>5. \A e \in Dirs : fds[e] \in Fds /\ table[fds[e]] = e => table'[fds[e]] = e
  BY <1>1, <1>2, FreeIsNoSocket
<1>6. QED
  BY <1>1, <1>2, <1>4, <1>5

\* A step of the setup of c leaves the other connections as they are.
LEMMA OtherConnections ==
    ASSUME IInv, NEW c \in Conns, Elsewhere(c), \A x \in Conns : x > c => setup[x] = "none",
           NEW s, setup' = [setup EXCEPT ![c] = s], UNCHANGED <<taken, out, way, got>>,
           \A e \in Dirs : e[1] # c => thread'[e] = thread[e] /\ fds'[e] = fds[e],
           \A e \in Dirs, f \in Fds : e[1] # c /\ table'[f] = e => f = fds'[e],
           NEW d \in Dirs, d[1] # c
    PROVE  Inv(d)'
<1>1. /\ d[1] \in Conns /\ Across(d) \in Dirs /\ Across(d)[1] = d[1] /\ Inv(d)
      /\ setup \in [Conns -> SetupPlaces] /\ setup'[d[1]] = setup[d[1]]
      /\ thread'[d] = thread[d] /\ thread'[Across(d)] = thread[Across(d)] /\ fds'[d] = fds[d]
  BY AcrossDir, Types DEF IInv
<1>2. SerialInv(d)'
  <2> SUFFICES ASSUME NEW x \in 1 .. (d[1] - 1), setup[d[1]] # "none"
               PROVE  /\ setup'[x] \in {"up", "failed"}
                      /\ \A e \in Ends : thread'[<<x, e>>].at \in Over
    BY <1>1 DEF SerialInv
  <2>1. /\ ~ (d[1] > c) /\ d[1] \in 1 .. MaxConns /\ c \in 1 .. MaxConns
        /\ MaxConns \in Nat
    BY <1>1, ForwardThreadsAssumption DEF Conns
  <2>2. x \in Conns /\ x # c
    BY <2>1 DEF Conns
  <2>3. setup[x] \in {"up", "failed"} /\ \A e \in Ends : thread[<<x, e>>].at \in Over
    BY <1>1 DEF Inv, SerialInv
  <2>4. \A e \in Ends : thread'[<<x, e>>] = thread[<<x, e>>]
    BY <2>2 DEF Dirs
  <2>5. setup'[x] = setup[x]
    BY <1>1, <2>2
  <2>6. QED
    BY <2>3, <2>4, <2>5
<1>3. ThreadInv(d)'
  BY <1>1, ThreadSame
<1>4. DataInv(d)'
  BY <1>1, DataSame
<1>5. NumberInv(d)'
  <2>1. \A e \in Ends : thread'[<<d[1], e>>].at \in Over
    BY <1>1 DEF Elsewhere, Dirs
  <2>2. setup[d[1]] \in {"none", "up", "failed"}
    BY <1>1 DEF Elsewhere
  <2>3. \A f \in Fds : table'[f] = d => f = fds'[d]
    OBVIOUS
  <2>4. fds'[d] = 0 <=> Numberless(d)'
    BY <1>1 DEF Inv, NumberInv, Numberless
  <2>5. QED
    BY <1>1, <2>1, <2>2, <2>3, <2>4 DEF NumberInv
<1>6. QED
  BY <1>2, <1>3, <1>4, <1>5 DEF Inv

\* When c goes on, the earlier ones are over still.
LEMMA EarlierStill ==
    ASSUME NEW c \in Conns, setup \in [Conns -> SetupPlaces],
           \A x \in 1 .. (c - 1) : /\ setup[x] \in {"up", "failed"}
                                   /\ \A e \in Ends : thread[<<x, e>>].at \in Over,
           NEW s, setup' = [setup EXCEPT ![c] = s],
           \A e \in Dirs : e[1] # c => thread'[e] = thread[e],
           NEW d \in Dirs, d[1] = c
    PROVE  SerialInv(d)'
<1> SUFFICES ASSUME NEW x \in 1 .. (c - 1)
             PROVE  /\ setup'[x] \in {"up", "failed"}
                    /\ \A e \in Ends : thread'[<<x, e>>].at \in Over
  BY DEF SerialInv
<1>1. x \in Conns /\ x # c
  BY ForwardThreadsAssumption DEF Conns
<1>2. \A e \in Ends : thread'[<<x, e>>] = thread[<<x, e>>]
  BY <1>1 DEF Dirs
<1>3. QED
  BY <1>1, <1>2

LEMMA SafeAccept ==
    ASSUME IInv, Serial, NEW c \in Conns, accept(c)
    PROVE  IInv'
<1> DEFINE b == <<c, "browser">>
           s == <<c, "server">>
<1>1. /\ setup[c] = "none" /\ setup' = [setup EXCEPT ![c] = "accepted"] /\ NewSocket(b)
      /\ UNCHANGED <<up, fine, thread, taken, out, way, got>>
      /\ b \in Dirs /\ s \in Dirs /\ b # s
      /\ setup \in [Conns -> SetupPlaces]
  BY Types DEF accept, Dirs, Ends
<1>2. \A x \in 1 .. (c - 1) : /\ setup[x] \in {"up", "failed"}
                              /\ \A e \in Ends : thread[<<x, e>>].at \in Over
  BY DEF accept
<1>3. \A x \in Conns : x > c => setup[x] = "none"
  <2> SUFFICES ASSUME NEW x \in Conns, x > c, setup[x] # "none" PROVE FALSE
    OBVIOUS
  <2>1. c < x
    BY ForwardThreadsAssumption DEF Conns
  <2>2. setup[c] \in {"up", "failed"}
    BY <2>1, EarlierOver
  <2>3. QED
    BY <1>1, <2>2
<1>4. Elsewhere(c)
  <2> SUFFICES ASSUME NEW x \in Conns, x # c
               PROVE  setup[x] \in {"none", "up", "failed"} /\ \A e \in Ends : thread[<<x, e>>].at \in Over
    BY DEF Elsewhere
  <2>1. CASE x > c
    BY <1>3, <2>1, NoneIdle
  <2>2. CASE ~ (x > c)
    <3>1. x \in 1 .. (c - 1)
      BY <2>2, ForwardThreadsAssumption DEF Conns
    <3>2. QED
      BY <1>2, <3>1
  <2>3. QED
    BY <2>1, <2>2
<1>5. fds[b] = 0 /\ fds[s] = 0
  BY <1>1 DEF IInv, Inv, NumberInv, Numberless
<1>6. /\ fds' \in [Dirs -> Fds \cup {0}] /\ table' \in [Fds -> Dirs \cup {Free}]
      /\ fds'[b] \in Fds /\ table'[fds'[b]] = b
      /\ \A e \in Dirs : e # b => fds'[e] = fds[e]
      /\ \A e \in Dirs, f \in Fds : table'[f] = e => f = fds'[e]
  BY <1>1, <1>5, NewNumber
<1>7. setup' \in [Conns -> SetupPlaces] /\ setup'[c] = "accepted"
  BY <1>1 DEF SetupPlaces
<1>8. TypeOK'
  BY <1>1, <1>6, <1>7 DEF IInv, TypeOK, SetupPlaces
<1>9. ASSUME NEW d \in Dirs, d[1] = c PROVE Inv(d)'
  <2>1. d \in {b, s} /\ Inv(d) /\ thread[d] = Idle
    <3>1. d = <<c, d[2]>> /\ d[2] \in Ends
      BY <1>9, AcrossDir
    <3>2. Inv(d)
      BY DEF IInv
    <3>3. QED
      BY <1>1, <1>9, <3>1, <3>2 DEF Ends, Inv, ThreadInv
  <2>2. SerialInv(d)'
    BY <1>1, <1>2, <1>9, EarlierStill
  <2>3. ThreadInv(d)'
    BY <1>1, <1>7, <1>9, <2>1 DEF ThreadInv, Idle
  <2>4. DataInv(d)'
    BY <1>1, <2>1, DataSame
  <2>5. NumberInv(d)'
    <3>1. 0 \notin Fds
      BY Types
    <3>2. \A f \in Fds : table'[f] = d => f = fds'[d]
      BY <1>6
    <3>3. CASE d = b
      BY <1>6, <1>7, <3>1, <3>2, <3>3 DEF NumberInv, Numberless
    <3>4. CASE d = s
      BY <1>1, <1>5, <1>6, <1>7, <3>2, <3>4 DEF NumberInv, Numberless
    <3>5. QED
      BY <2>1, <3>3, <3>4
  <2>6. QED
    BY <2>2, <2>3, <2>4, <2>5 DEF Inv
<1>10. ASSUME NEW d \in Dirs, d[1] # c PROVE Inv(d)'
  <2>1. \A e \in Dirs : e[1] # c => thread'[e] = thread[e] /\ fds'[e] = fds[e]
    BY <1>1, <1>6
  <2>2. \A e \in Dirs, f \in Fds : e[1] # c /\ table'[f] = e => f = fds'[e]
    BY <1>6
  <2>3. UNCHANGED <<taken, out, way, got>> /\ setup' = [setup EXCEPT ![c] = "accepted"]
    BY <1>1
  <2>4. QED
    BY <1>3, <1>4, <1>10, <2>1, <2>2, <2>3, OtherConnections
<1>11. QED
  BY <1>8, <1>9, <1>10 DEF IInv

\* The two sockets of a connection that is being set up, before a step of it.
LEMMA SetupBefore ==
    ASSUME IInv, NEW c \in Conns, setup[c] \in {"accepted", "socket", "connecting"}
    PROVE  /\ Elsewhere(c) /\ \A x \in Conns : x > c => setup[x] = "none"
           /\ \A x \in 1 .. (c - 1) : /\ setup[x] \in {"up", "failed"}
                                      /\ \A e \in Ends : thread[<<x, e>>].at \in Over
           /\ <<c, "browser">> \in Dirs /\ <<c, "server">> \in Dirs
           /\ \A d \in Dirs : d[1] = c => /\ d = <<c, "browser">> \/ d = <<c, "server">>
                                          /\ Inv(d) /\ thread[d] = Idle /\ Across(d)[1] = c
<1>1. Elsewhere(c) /\ \A x \in Conns : x > c => setup[x] = "none"
  BY OneAtATime
<1>2. <<c, "browser">> \in Dirs /\ <<c, "server">> \in Dirs
  BY DEF Dirs, Ends
<1>3. SerialInv(<<c, "browser">>)
  BY <1>2 DEF IInv, Inv
<1>4. \A x \in 1 .. (c - 1) : /\ setup[x] \in {"up", "failed"}
                              /\ \A e \in Ends : thread[<<x, e>>].at \in Over
  BY <1>3 DEF SerialInv
<1>5. ASSUME NEW d \in Dirs, d[1] = c
      PROVE  /\ d = <<c, "browser">> \/ d = <<c, "server">>
             /\ Inv(d) /\ thread[d] = Idle /\ Across(d)[1] = c
  <2>1. d = <<c, d[2]>> /\ d[2] \in Ends /\ Across(d)[1] = c
    BY <1>5, AcrossDir
  <2>2. Inv(d)
    BY DEF IInv
  <2>3. QED
    BY <1>5, <2>1, <2>2 DEF Ends, Inv, ThreadInv
<1>6. QED
  BY <1>1, <1>2, <1>4, <1>5

LEMMA SafeBegin ==
    ASSUME IInv, NEW c \in Conns, begin(c)
    PROVE  IInv'
<1>1. /\ setup[c] = "accepted" /\ setup' = [setup EXCEPT ![c] = "socket"] /\ fine' = 0
      /\ UNCHANGED <<up, fds, table, thread, taken, out, way, got>>
      /\ setup \in [Conns -> SetupPlaces]
  BY Types DEF begin
<1>2. setup' \in [Conns -> SetupPlaces] /\ setup'[c] = "socket"
  BY <1>1 DEF SetupPlaces
<1>3. TypeOK'
  BY <1>1, <1>2 DEF IInv, TypeOK, SetupPlaces
<1>4. ASSUME NEW d \in Dirs, d[1] = c PROVE Inv(d)'
  <2>1. Inv(d) /\ thread[d] = Idle
    BY <1>1, <1>4, SetupBefore
  <2>2. SerialInv(d)'
    <3>1. \A x \in 1 .. (c - 1) : /\ setup[x] \in {"up", "failed"}
                                  /\ \A e \in Ends : thread[<<x, e>>].at \in Over
      BY <1>1, SetupBefore
    <3>2. QED
      BY <1>1, <1>4, <3>1, EarlierStill
  <2>3. ThreadInv(d)'
    BY <1>1, <1>2, <1>4, <2>1 DEF ThreadInv, Idle
  <2>4. DataInv(d)'
    BY <1>1, <2>1, DataSame
  <2>5. NumberInv(d)'
    BY <1>1, <1>2, <1>4, <2>1 DEF Inv, NumberInv, Numberless
  <2>6. QED
    BY <2>2, <2>3, <2>4, <2>5 DEF Inv
<1>5. ASSUME NEW d \in Dirs, d[1] # c PROVE Inv(d)'
  <2>1. \A e \in Dirs : e[1] # c => thread'[e] = thread[e] /\ fds'[e] = fds[e]
    BY <1>1
  <2>2. \A e \in Dirs, f \in Fds : e[1] # c /\ table'[f] = e => f = fds'[e]
    BY <1>1 DEF IInv, Inv, NumberInv
  <2>3. UNCHANGED <<taken, out, way, got>> /\ setup' = [setup EXCEPT ![c] = "socket"]
    BY <1>1
  <2>4. Elsewhere(c) /\ \A x \in Conns : x > c => setup[x] = "none"
    BY <1>1, SetupBefore
  <2>5. QED
    BY <1>5, <2>1, <2>2, <2>3, <2>4, OtherConnections
<1>6. QED
  BY <1>3, <1>4, <1>5 DEF IInv

LEMMA SafeSocket ==
    ASSUME IInv, NEW c \in Conns, socket(c)
    PROVE  IInv'
<1> DEFINE b == <<c, "browser">>
           s == <<c, "server">>
<1>1. /\ setup[c] = "socket" /\ setup' = [setup EXCEPT ![c] = "connecting"] /\ NewSocket(s)
      /\ UNCHANGED <<up, fine, thread, taken, out, way, got>>
      /\ b # s /\ b \in Dirs /\ s \in Dirs
      /\ setup \in [Conns -> SetupPlaces]
  BY Types DEF socket, Dirs, Ends
<1>2. setup' \in [Conns -> SetupPlaces] /\ setup'[c] = "connecting"
  BY <1>1 DEF SetupPlaces
<1>3. /\ fds[s] = 0 /\ fds[b] # 0 /\ table[fds[b]] = b
      /\ fds \in [Dirs -> Fds \cup {0}] /\ 0 \notin Fds
  BY <1>1, Types DEF IInv, Inv, NumberInv, Numberless
<1>4. /\ fds' \in [Dirs -> Fds \cup {0}] /\ table' \in [Fds -> Dirs \cup {Free}]
      /\ fds'[s] \in Fds /\ table'[fds'[s]] = s
      /\ \A e \in Dirs : e # s => fds'[e] = fds[e]
      /\ \A e \in Dirs : fds[e] \in Fds /\ table[fds[e]] = e => table'[fds[e]] = e
      /\ \A e \in Dirs, f \in Fds : table'[f] = e => f = fds'[e]
  BY <1>1, <1>3, NewNumber
<1>5. TypeOK'
  BY <1>1, <1>2, <1>4 DEF IInv, TypeOK, SetupPlaces
<1>6. ASSUME NEW d \in Dirs, d[1] = c PROVE Inv(d)'
  <2>1. Inv(d) /\ thread[d] = Idle /\ (d = b \/ d = s)
    BY <1>1, <1>6, SetupBefore
  <2>2. SerialInv(d)'
    <3>1. \A x \in 1 .. (c - 1) : /\ setup[x] \in {"up", "failed"}
                                  /\ \A e \in Ends : thread[<<x, e>>].at \in Over
      BY <1>1, SetupBefore
    <3>2. QED
      BY <1>1, <1>6, <3>1, EarlierStill
  <2>3. ThreadInv(d)'
    BY <1>1, <1>2, <1>6, <2>1 DEF ThreadInv, Idle
  <2>4. DataInv(d)'
    BY <1>1, <2>1, DataSame
  <2>5. NumberInv(d)'
    <3>1. \A f \in Fds : table'[f] = d => f = fds'[d]
      BY <1>4
    <3>2. fds'[d] \in Fds /\ table'[fds'[d]] = d
      BY <1>1, <1>3, <1>4, <2>1
    <3>3. QED
      BY <1>2, <1>3, <1>6, <3>1, <3>2 DEF NumberInv, Numberless
  <2>6. QED
    BY <2>2, <2>3, <2>4, <2>5 DEF Inv
<1>7. ASSUME NEW d \in Dirs, d[1] # c PROVE Inv(d)'
  <2>1. \A e \in Dirs : e[1] # c => thread'[e] = thread[e] /\ fds'[e] = fds[e]
    BY <1>1, <1>4
  <2>2. \A e \in Dirs, f \in Fds : e[1] # c /\ table'[f] = e => f = fds'[e]
    BY <1>4
  <2>3. UNCHANGED <<taken, out, way, got>> /\ setup' = [setup EXCEPT ![c] = "connecting"]
    BY <1>1
  <2>4. Elsewhere(c) /\ \A x \in Conns : x > c => setup[x] = "none"
    BY <1>1, SetupBefore
  <2>5. QED
    BY <1>7, <2>1, <2>2, <2>3, <2>4, OtherConnections
<1>8. QED
  BY <1>5, <1>6, <1>7 DEF IInv

LEMMA SafeConnect ==
    ASSUME IInv, NEW c \in Conns, connect(c)
    PROVE  IInv'
<1> DEFINE b == <<c, "browser">>
           s == <<c, "server">>
<1>1. /\ setup[c] = "connecting" /\ setup' = [setup EXCEPT ![c] = "up"]
      /\ thread' = [thread EXCEPT ![b].at = "start", ![s].at = "check"]
      /\ UNCHANGED <<up, fine, fds, table, taken, out, way, got>>
      /\ b # s /\ b \in Dirs /\ s \in Dirs
      /\ setup \in [Conns -> SetupPlaces] /\ thread \in [Dirs -> Thread]
  BY Types DEF connect, Dirs, Ends
<1>2. setup' \in [Conns -> SetupPlaces] /\ setup'[c] = "up"
  BY <1>1 DEF SetupPlaces
<1>3. thread[b] = Idle /\ thread[s] = Idle
  BY <1>1, SetupBefore
<1>4. /\ DOMAIN thread' = Dirs
      /\ thread'[b] = [thread[b] EXCEPT !.at = "start"]
      /\ thread'[s] = [thread[s] EXCEPT !.at = "check"]
      /\ \A d \in Dirs \ {b, s} : thread'[d] = thread[d]
  BY <1>1
<1>5. /\ thread'[b] = [at |-> "start", file |-> Free, buf |-> <<>>]
      /\ thread'[s] = [at |-> "check", file |-> Free, buf |-> <<>>]
  BY <1>3, <1>4 DEF Idle
<1>6. thread' \in [Dirs -> Thread]
  <2>1. thread'[b] \in Thread /\ thread'[s] \in Thread
    BY <1>5 DEF Thread, Places
  <2>2. \A d \in Dirs : thread'[d] \in Thread
    BY <1>1, <1>4, <2>1
  <2>3. thread' = [d \in Dirs |-> thread'[d]]
    BY <1>1
  <2>4. QED
    BY <2>2, <2>3
<1>7. /\ \A d \in Dirs : d[1] = c => /\ d = b \/ d = s
                                     /\ thread'[d].at \in {"start", "check"} /\ thread'[d].file = Free
                                     /\ thread'[d].buf = <<>>
      /\ \A d \in Dirs : d[1] # c => thread'[d] = thread[d]
  <2>1. \A d \in Dirs : d[1] = c => d = b \/ d = s
    BY <1>1, SetupBefore
  <2>2. \A d \in Dirs : d[1] # c => d \notin {b, s}
    OBVIOUS
  <2>3. QED
    BY <1>4, <1>5, <2>1, <2>2
<1>8. TypeOK'
  <2>1. \A d \in Dirs : thread[d].at \in {"read", "reading"} => thread[d].buf = <<>>
    BY Types
  <2>2. \A d \in Dirs : thread'[d].at \in {"read", "reading"} => thread'[d].buf = <<>>
    BY <1>7, <2>1
  <2>3. QED
    BY <1>1, <1>2, <1>6, <2>2 DEF IInv, TypeOK, SetupPlaces, Thread
<1>9. ASSUME NEW d \in Dirs, d[1] = c PROVE Inv(d)'
  <2>1. /\ Inv(d) /\ thread[d] = Idle /\ (d = b \/ d = s)
        /\ thread'[d].at \in {"start", "check"} /\ thread'[d].file = Free /\ thread'[d].buf = <<>>
    BY SMTT(30), <1>1, <1>7, <1>9, SetupBefore
  <2>2. SerialInv(d)'
    <3>1. \A x \in 1 .. (c - 1) : /\ setup[x] \in {"up", "failed"}
                                  /\ \A e \in Ends : thread[<<x, e>>].at \in Over
      BY <1>1, SetupBefore
    <3>2. QED
      BY <1>1, <1>7, <1>9, <3>1, EarlierStill
  <2>3. ThreadInv(d)'
    BY <1>2, <1>9, <2>1 DEF ThreadInv
  <2>4. DataInv(d)'
    <3>1. thread[d].at = "none" /\ thread[d].buf = <<>>
      BY <2>1 DEF Idle
    <3>2. UNCHANGED <<taken, out, way, got>>
      BY <1>1
    <3>3. QED
      BY <2>1, <3>1, <3>2 DEF Inv, DataInv
  <2>5. NumberInv(d)'
    BY <1>1, <1>2, <1>9, <2>1 DEF Inv, NumberInv, Numberless
  <2>6. QED
    BY <2>2, <2>3, <2>4, <2>5 DEF Inv
<1>10. ASSUME NEW d \in Dirs, d[1] # c PROVE Inv(d)'
  <2>1. \A e \in Dirs : e[1] # c => thread'[e] = thread[e] /\ fds'[e] = fds[e]
    BY <1>1, <1>7
  <2>2. \A e \in Dirs, f \in Fds : e[1] # c /\ table'[f] = e => f = fds'[e]
    BY <1>1 DEF IInv, Inv, NumberInv
  <2>3. UNCHANGED <<taken, out, way, got>> /\ setup' = [setup EXCEPT ![c] = "up"]
    BY <1>1
  <2>4. Elsewhere(c) /\ \A x \in Conns : x > c => setup[x] = "none"
    BY <1>1, SetupBefore
  <2>5. QED
    BY <1>10, <2>1, <2>2, <2>3, <2>4, OtherConnections
<1>11. QED
  BY <1>8, <1>9, <1>10 DEF IInv

LEMMA SafeSetupFails ==
    ASSUME IInv, NEW c \in Conns, SetupFails(c)
    PROVE  IInv'
<1>1. /\ setup[c] = "connecting" /\ setup' = [setup EXCEPT ![c] = "failed"]
      /\ UNCHANGED <<up, fine, fds, thread, taken, out, way, got>>
      /\ setup \in [Conns -> SetupPlaces] /\ table \in [Fds -> Dirs \cup {Free}]
  BY Types DEF SetupFails
<1>2. setup' \in [Conns -> SetupPlaces] /\ setup'[c] = "failed"
  BY <1>1 DEF SetupPlaces
<1>3. table' \in [Fds -> Dirs \cup {Free}] /\ \A f \in Fds : table'[f] \in {table[f], Free}
  BY <1>1 DEF SetupFails
<1>4. \A e \in Dirs, f \in Fds : table'[f] = e => f = fds'[e]
  BY <1>1, <1>3, FreeIsNoSocket DEF IInv, Inv, NumberInv
<1>5. TypeOK'
  BY <1>1, <1>2, <1>3 DEF IInv, TypeOK, SetupPlaces
<1>6. ASSUME NEW d \in Dirs, d[1] = c PROVE Inv(d)'
  <2>1. Inv(d) /\ thread[d] = Idle
    BY <1>1, <1>6, SetupBefore
  <2>2. SerialInv(d)'
    <3>1. \A x \in 1 .. (c - 1) : /\ setup[x] \in {"up", "failed"}
                                  /\ \A e \in Ends : thread[<<x, e>>].at \in Over
      BY <1>1, SetupBefore
    <3>2. QED
      BY <1>1, <1>6, <3>1, EarlierStill
  <2>3. ThreadInv(d)'
    BY <1>1, <1>2, <1>6, <2>1 DEF ThreadInv, Idle
  <2>4. DataInv(d)'
    BY <1>1, <2>1, DataSame
  <2>5. NumberInv(d)'
    BY <1>1, <1>2, <1>4, <1>6, <2>1 DEF Inv, NumberInv, Numberless
  <2>6. QED
    BY <2>2, <2>3, <2>4, <2>5 DEF Inv
<1>7. ASSUME NEW d \in Dirs, d[1] # c PROVE Inv(d)'
  <2>1. \A e \in Dirs : e[1] # c => thread'[e] = thread[e] /\ fds'[e] = fds[e]
    BY <1>1
  <2>2. \A e \in Dirs, f \in Fds : e[1] # c /\ table'[f] = e => f = fds'[e]
    BY <1>4
  <2>3. UNCHANGED <<taken, out, way, got>> /\ setup' = [setup EXCEPT ![c] = "failed"]
    BY <1>1
  <2>4. Elsewhere(c) /\ \A x \in Conns : x > c => setup[x] = "none"
    BY <1>1, SetupBefore
  <2>5. QED
    BY <1>7, <2>1, <2>2, <2>3, <2>4, OtherConnections
<1>8. QED
  BY <1>5, <1>6, <1>7 DEF IInv

-----------------------------------------------------------------------------
(***************************************************************************)
(* The ends, and the steps of forward.  Each of these changes its own      *)
(* thread, what it has taken, what the other end has received, and may     *)
(* release numbers.                                                        *)
(***************************************************************************)
LEMMA SafeEnds ==
    ASSUME IInv,
           \/ exit
           \/ \E d \in Dirs : Send(d) \/ Leave(d, "fin") \/ Leave(d, "gone")
    PROVE  IInv'
<1>1. UNCHANGED <<fine, setup, fds, table, thread, taken, got>> /\ up' \in BOOLEAN
  BY Types DEF exit, Send, Leave, threads
<1>2. /\ out' \in [Dirs -> Nat] /\ \A d \in Dirs : out[d] <= out'[d]
      /\ way' \in [Dirs -> {"open", "fin", "gone"}] /\ \A d \in Dirs : way[d] = "gone" => way'[d] = "gone"
  <2>1. out \in [Dirs -> Nat] /\ way \in [Dirs -> {"open", "fin", "gone"}]
    BY Types
  <2>2. CASE exit
    BY <2>1, <2>2 DEF exit
  <2>3. ASSUME NEW d \in Dirs, Send(d)
        PROVE  /\ out' \in [Dirs -> Nat] /\ way' = way
               /\ \A e \in Dirs : out[e] <= out'[e]
    BY <2>1, <2>3 DEF Send
  <2>4. ASSUME NEW d \in Dirs, NEW how \in {"fin", "gone"}, Leave(d, how)
        PROVE  /\ way' \in [Dirs -> {"open", "fin", "gone"}] /\ out' = out
               /\ \A e \in Dirs : way[e] = "gone" => way'[e] = "gone"
    BY <2>1, <2>4 DEF Leave
  <2>5. out' = out => \A d \in Dirs : out[d] <= out'[d]
    BY <2>1
  <2>6. QED
    BY <2>1, <2>2, <2>3, <2>4, <2>5
<1>3. TypeOK'
  BY <1>1, <1>2 DEF IInv, TypeOK
<1>4. ASSUME NEW d \in Dirs PROVE Inv(d)'
  <2>1. Inv(d) /\ Across(d) \in Dirs /\ taken[d] \in Nat /\ out[d] \in Nat /\ out'[d] \in Nat
    BY <1>2, AcrossDir, Types DEF IInv
  <2>2. SerialInv(d)' /\ ThreadInv(d)'
    BY <1>1, <2>1, SerialSame, ThreadSame
  <2>3. NumberInv(d)'
    BY <1>1, <2>1 DEF Inv, NumberInv, Numberless
  <2>4. DataInv(d)'
    <3>1. taken[d] <= out'[d]
      <4>1. taken[d] <= out[d]
        BY <2>1 DEF Inv, DataInv
      <4>2. out[d] <= out'[d]
        BY <1>2
      <4>3. QED
        BY <2>1, <4>1, <4>2
    <3>2. way'[Across(d)] # "gone" => way[Across(d)] # "gone"
      BY <1>2, <2>1
    <3>3. DataInv(d)
      BY <2>1 DEF Inv
    <3>4. QED
      BY <1>1, <3>1, <3>2, <3>3 DEF DataInv
  <2>5. QED
    BY <2>2, <2>3, <2>4 DEF Inv
<1>5. QED
  BY <1>3, <1>4 DEF IInv

LEMMA OneThread ==
    ASSUME IInv, NEW d \in Dirs, thread[d].at \notin Over,
           NEW t \in Thread, t.at # "none", t.file = IF t.at = "reading" THEN d ELSE Free,
           t.at \in {"read", "reading"} => t.buf = <<>>,
           NEW n \in Nat, NEW g \in Seq(Dirs \X Nat),
           thread' = [thread EXCEPT ![d] = t], taken' = [taken EXCEPT ![d] = n],
           got' = [got EXCEPT ![Across(d)] = g], fine' \in {0, 1},
           table' \in [Fds -> Dirs \cup {Free}], \A f \in Fds : table'[f] \in {table[f], Free},
           UNCHANGED <<up, setup, fds, out, way>>, DataInv(d)'
    PROVE  IInv'
<1> DEFINE a == Across(d)
<1>1. /\ a \in Dirs /\ a # d /\ Across(a) = d /\ a[1] = d[1] /\ d[1] \in Conns /\ d[2] \in Ends
      /\ d = <<d[1], d[2]>> /\ \A e \in Dirs : e[1] = d[1] => e = d \/ e = a
  BY AcrossDir
<1>2. /\ thread \in [Dirs -> Thread] /\ taken \in [Dirs -> Nat] /\ got \in [Dirs -> Seq(Dirs \X Nat)]
      /\ fds \in [Dirs -> Fds \cup {0}]
      /\ \A e \in Dirs : thread[e].at \in {"read", "reading"} => thread[e].buf = <<>>
  BY Types
<1>3. /\ thread' \in [Dirs -> Thread] /\ taken' \in [Dirs -> Nat] /\ got' \in [Dirs -> Seq(Dirs \X Nat)]
      /\ thread'[d] = t /\ taken'[d] = n /\ got'[a] = g
      /\ \A e \in Dirs : e # d => thread'[e] = thread[e] /\ taken'[e] = taken[e]
      /\ \A e \in Dirs : e # a => got'[e] = got[e]
  BY <1>1, <1>2
<1>4. TypeOK'
  <2>1. \A e \in Dirs : thread'[e].at \in {"read", "reading"} => thread'[e].buf = <<>>
    BY <1>2, <1>3
  <2>2. QED
    BY <1>3, <2>1 DEF IInv, TypeOK, Thread
<1>5. Elsewhere(d[1])
  BY <1>1, OneAtATime
<1>6. setup[d[1]] = "up"
  BY <1>1, NoneIdle
<1>7. \A e \in Dirs : thread[e].at \in Over => thread'[e].at \in Over
  BY <1>3
<1>8. ASSUME NEW e \in Dirs PROVE Inv(e)'
  <2>1. Across(e) \in Dirs /\ Across(Across(e)) = e /\ Inv(e) /\ e[1] \in Conns
    BY AcrossDir DEF IInv
  <2>2. SerialInv(e)'
    BY <1>7, <2>1, SerialSame
  <2>3. ThreadInv(e)'
    <3>1. CASE e = d
      BY <1>3, <1>6, <3>1 DEF ThreadInv
    <3>2. CASE e # d
      BY <1>3, <2>1, <3>2, ThreadSame
    <3>3. QED
      BY <3>1, <3>2
  <2>4. DataInv(e)'
    <3>1. CASE e # d
      <4>1. Across(e) # a
        BY <1>1, <2>1, <3>1
      <4>2. QED
        BY <1>3, <2>1, <3>1, <4>1, DataSame
    <3>2. QED
      BY <3>1
  <2>5. NumberInv(e)'
    <3>1. NumberInv(e)
      BY <2>1 DEF Inv
    <3>2. \A f \in Fds : table'[f] = e => f = fds'[e]
      BY <3>1, FreeIsNoSocket DEF NumberInv
    <3>3. fds'[e] = 0 <=> Numberless(e)'
      BY <3>1 DEF NumberInv, Numberless
    <3>4. CASE e[1] = d[1]
      <4>1. \E x \in Ends : thread[<<e[1], x>>].at \notin Over
        BY <1>1, <3>4
      <4>2. table[fds[e]] \in {e, Free} /\ fds[e] \in Fds
        BY <1>2, <1>6, <3>1, <3>4, <4>1 DEF NumberInv, Numberless
      <4>3. table'[fds'[e]] \in {e, Free}
        BY <4>2
      <4>4. QED
        BY <1>6, <3>2, <3>3, <3>4, <4>3 DEF NumberInv
    <3>5. CASE e[1] # d[1]
      <4>1. setup[e[1]] \in {"none", "up", "failed"} /\ \A x \in Ends : thread[<<e[1], x>>].at \in Over
        BY <1>5, <2>1, <3>5 DEF Elsewhere
      <4>2. \A x \in Ends : thread'[<<e[1], x>>].at \in Over
        BY <1>7, <2>1, <4>1 DEF Dirs
      <4>3. QED
        BY <3>2, <3>3, <4>1, <4>2 DEF NumberInv
    <3>6. QED
      BY <3>4, <3>5
  <2>6. QED
    BY <2>2, <2>3, <2>4, <2>5 DEF Inv
<1>9. QED
  BY <1>4, <1>8 DEF IInv

\* What a thread that runs finds under the numbers it has.
LEMMA OwnNumbers ==
    ASSUME IInv, NEW d \in Dirs, thread[d].at \notin Over
    PROVE  /\ Across(d) \in Dirs /\ Across(Across(d)) = d /\ Inv(d)
           /\ setup[d[1]] = "up" /\ fds[d] \in Fds /\ fds[Across(d)] \in Fds
           /\ From(d) \in {d, Free} /\ To(d) \in {Across(d), Free}
<1>1. /\ Across(d) \in Dirs /\ Across(Across(d)) = d /\ Across(d)[1] = d[1] /\ Inv(d) /\ Inv(Across(d))
      /\ d[1] \in Conns /\ d[2] \in Ends /\ d = <<d[1], d[2]>>
  BY AcrossDir DEF IInv
<1>2. setup[d[1]] = "up" /\ \E e \in Ends : thread[<<d[1], e>>].at \notin Over
  BY <1>1, NoneIdle
<1>3. fds[d] \in Fds /\ fds[Across(d)] \in Fds
  BY <1>1, <1>2, Types DEF Inv, NumberInv, Numberless
<1>4. table[fds[d]] \in {d, Free} /\ table[fds[Across(d)]] \in {Across(d), Free}
  BY <1>1, <1>2 DEF Inv, NumberInv
<1>5. QED
  BY <1>1, <1>2, <1>3, <1>4, Types DEF From, To

\* A thread that goes from one place to another with what it holds.
LEMMA OnlyPlace ==
    ASSUME IInv, NEW d \in Dirs, thread[d].at \notin Over, NEW p \in Places \ {"none", "reading"},
           GoTo(d, p), fine' \in {0, 1},
           table' \in [Fds -> Dirs \cup {Free}], \A f \in Fds : table'[f] \in {table[f], Free},
           UNCHANGED <<up, setup, fds, taken, out, way, got>>,
           thread[d].at # "reading",
           p \in {"start", "check", "read"} => thread[d].at \in {"start", "check", "read"},
           p \in {"writen", "send"} => thread[d].at \in {"writen", "send"}
    PROVE  IInv'
<1> DEFINE t == [at |-> p, file |-> Free, buf |-> thread[d].buf]
<1>1. /\ thread \in [Dirs -> Thread] /\ taken \in [Dirs -> Nat] /\ got \in [Dirs -> Seq(Dirs \X Nat)]
      /\ Inv(d) /\ Across(d) \in Dirs
  BY Types, OwnNumbers
<1>2. thread[d].file = Free
  BY <1>1 DEF Inv, ThreadInv
<1>3. thread' = [thread EXCEPT ![d] = t] /\ t \in Thread
  <2>1. thread[d] \in Thread
    BY <1>1
  <2>2. [thread[d] EXCEPT !.at = p] = t /\ t \in Thread
    BY <1>2, <2>1 DEF Thread
  <2>3. thread' = [thread EXCEPT ![d] = [thread[d] EXCEPT !.at = p]]
    BY DEF GoTo
  <2>4. QED
    BY <2>2, <2>3
<1>4. t.at = p /\ t.file = Free /\ t.buf = thread[d].buf
  OBVIOUS
<1> HIDE DEF t
<1>5. /\ thread'[d] = t /\ taken' = [taken EXCEPT ![d] = taken[d]]
      /\ got' = [got EXCEPT ![Across(d)] = got[Across(d)]]
  BY <1>1, <1>3
<1>6. DataInv(d)' /\ (t.at \in {"read", "reading"} => t.buf = <<>>)
  BY <1>1, <1>4, <1>5 DEF Inv, DataInv
<1>7. /\ t.at # "none" /\ t.file = (IF t.at = "reading" THEN d ELSE Free)
      /\ taken[d] \in Nat /\ got[Across(d)] \in Seq(Dirs \X Nat)
  BY <1>1, <1>4
<1>8. QED
  BY <1>3, <1>5, <1>6, <1>7, OneThread

LEMMA SafeStart ==
    ASSUME IInv, NEW d \in Dirs, start(d)
    PROVE  IInv'
<1>1. /\ thread[d].at = "start" /\ UNCHANGED <<up, setup, fds, table, taken, out, way, got>>
      /\ table' \in [Fds -> Dirs \cup {Free}] /\ \A f \in Fds : table'[f] \in {table[f], Free}
      /\ fine' \in {0, 1}
  BY Types DEF start, At
<1>2. /\ thread[d].at \notin Over /\ thread[d].at # "reading" /\ thread[d].at \in {"start", "check", "read"}
      /\ "check" \in Places \ {"none", "reading"} /\ "lost" \in Places \ {"none", "reading"}
  BY <1>1 DEF Over, Places
<1>3. CASE GoTo(d, "check")
  BY <1>1, <1>2, <1>3, OnlyPlace
<1>4. CASE GoTo(d, "lost")
  BY <1>1, <1>2, <1>4, OnlyPlace
<1>5. QED
  BY <1>3, <1>4 DEF start

LEMMA SafeCheckfine ==
    ASSUME IInv, NEW d \in Dirs, checkfine(d)
    PROVE  IInv'
<1>1. /\ thread[d].at = "check" /\ UNCHANGED <<up, fine, setup, fds, table, taken, out, way, got>>
      /\ table' \in [Fds -> Dirs \cup {Free}] /\ \A f \in Fds : table'[f] \in {table[f], Free}
      /\ fine' \in {0, 1}
  BY Types DEF checkfine, At
<1>2. /\ thread[d].at \notin Over /\ thread[d].at # "reading" /\ thread[d].at \in {"start", "check", "read"}
      /\ "read" \in Places \ {"none", "reading"} /\ "end" \in Places \ {"none", "reading"}
      /\ "done" \in Places \ {"none", "reading"}
  BY <1>1 DEF Over, Places
<1>3. CASE GoTo(d, "read")
  BY <1>1, <1>2, <1>3, OnlyPlace
<1>4. CASE GoTo(d, "end")
  BY <1>1, <1>2, <1>4, OnlyPlace
<1>5. CASE GoTo(d, "done")
  BY <1>1, <1>2, <1>5, OnlyPlace
<1>6. QED
  BY <1>3, <1>4, <1>5 DEF checkfine, Return

LEMMA SafeWriten ==
    ASSUME IInv, NEW d \in Dirs, writen(d)
    PROVE  IInv'
<1>1. /\ thread[d].at = "writen" /\ UNCHANGED <<up, fine, setup, fds, table, taken, out, way, got>>
      /\ table' \in [Fds -> Dirs \cup {Free}] /\ \A f \in Fds : table'[f] \in {table[f], Free}
      /\ fine' \in {0, 1}
  BY Types DEF writen, At
<1>2. /\ thread[d].at \notin Over /\ thread[d].at # "reading" /\ thread[d].at \in {"writen", "send"}
      /\ "send" \in Places \ {"none", "reading"} /\ "signal" \in Places \ {"none", "reading"}
  BY <1>1 DEF Over, Places
<1>3. CASE GoTo(d, "send")
  BY <1>1, <1>2, <1>3, OnlyPlace
<1>4. CASE GoTo(d, "signal")
  BY <1>1, <1>2, <1>4, OnlyPlace
<1>5. QED
  BY <1>3, <1>4 DEF writen

LEMMA SafeSendFails ==
    ASSUME IInv, NEW d \in Dirs, sendFails(d)
    PROVE  IInv'
<1>1. /\ thread[d].at = "send" /\ UNCHANGED <<up, fine, setup, fds, table, taken, out, way, got>>
      /\ table' \in [Fds -> Dirs \cup {Free}] /\ \A f \in Fds : table'[f] \in {table[f], Free}
      /\ fine' \in {0, 1} /\ GoTo(d, "signal")
  BY Types DEF sendFails, At
<1>2. /\ thread[d].at \notin Over /\ thread[d].at # "reading"
      /\ "signal" \in Places \ {"none", "reading"}
  BY <1>1 DEF Over, Places
<1>3. QED
  BY <1>1, <1>2, OnlyPlace

LEMMA SafeEnding ==
    ASSUME IInv, NEW d \in Dirs, segnalafine(d) \/ End(d) \/ close(d)
    PROVE  IInv'
<1>1. /\ thread[d].at \in {"signal", "end", "close browser", "close server"}
      /\ UNCHANGED <<up, setup, fds, taken, out, way, got>> /\ fine' \in {0, 1}
  BY Types DEF segnalafine, End, close, At
<1>2. PICK p \in {"end", "done", "close browser", "close server"} : GoTo(d, p)
  BY DEF segnalafine, End, close, Return
<1>3. /\ thread[d].at \notin Over /\ thread[d].at # "reading"
      /\ p \in Places \ {"none", "reading"}
      /\ p \notin {"start", "check", "read", "writen", "send"}
  BY <1>1, <1>2 DEF Over, Places
<1>4. table' \in [Fds -> Dirs \cup {Free}] /\ \A f \in Fds : table'[f] \in {table[f], Free}
  <2>1. table \in [Fds -> Dirs \cup {Free}]
    BY Types
  <2>2. CASE UNCHANGED table
    BY <2>1, <2>2
  <2>3. ASSUME NEW f, table' = [table EXCEPT ![f] = Free]
        PROVE  table' \in [Fds -> Dirs \cup {Free}] /\ \A x \in Fds : table'[x] \in {table[x], Free}
    BY <2>1, <2>3
  <2>4. QED
    BY <2>2, <2>3 DEF segnalafine, End, close
<1>5. QED
  BY <1>1, <1>2, <1>3, <1>4, OnlyPlace

\* Two fields of a thread's record changed at once.
LEMMA TwoFields ==
    ASSUME NEW x \in Thread, NEW f, NEW p
    PROVE  /\ [[x EXCEPT !.file = f] EXCEPT !.at = p] = [at |-> p, file |-> f, buf |-> x.buf]
           /\ [[x EXCEPT !.at = p] EXCEPT !.file = f] = [at |-> p, file |-> f, buf |-> x.buf]
<1> DEFINE y == [x EXCEPT !.file = f]
           z == [x EXCEPT !.at = p]
<1>1. x = [at |-> x.at, file |-> x.file, buf |-> x.buf]
  BY DEF Thread
<1>2. /\ y = [at |-> x.at, file |-> f, buf |-> x.buf]
      /\ z = [at |-> p, file |-> x.file, buf |-> x.buf]
  BY <1>1
<1> HIDE DEF y, z
<1>3. [y EXCEPT !.at = p] = [at |-> p, file |-> f, buf |-> x.buf]
  BY <1>2
<1>4. [z EXCEPT !.file = f] = [at |-> p, file |-> f, buf |-> x.buf]
  BY <1>2
<1>5. QED
  BY <1>3, <1>4 DEF y, z

LEMMA BufFields ==
    ASSUME NEW x \in Thread, NEW b, NEW p
    PROVE  [[x EXCEPT !.buf = b] EXCEPT !.at = p] = [at |-> p, file |-> x.file, buf |-> b]
<1> DEFINE y == [x EXCEPT !.buf = b]
<1>1. x = [at |-> x.at, file |-> x.file, buf |-> x.buf]
  BY DEF Thread
<1>2. y = [at |-> x.at, file |-> x.file, buf |-> b]
  BY <1>1
<1> HIDE DEF y
<1>3. [y EXCEPT !.at = p] = [at |-> p, file |-> x.file, buf |-> b]
  BY <1>2
<1>4. QED
  BY <1>3 DEF y

LEMMA SafeRead ==
    ASSUME IInv, NEW d \in Dirs, read(d)
    PROVE  IInv'
<1> DEFINE p == IF From(d) = Free THEN "signal" ELSE "reading"
           t == [at |-> p, file |-> From(d), buf |-> thread[d].buf]
<1>1. /\ thread[d].at = "read" /\ thread' = [thread EXCEPT ![d].file = From(d), ![d].at = p]
      /\ UNCHANGED <<up, fine, setup, fds, table, taken, out, way, got>>
  BY DEF read, At
<1>2. /\ thread \in [Dirs -> Thread] /\ taken \in [Dirs -> Nat] /\ got \in [Dirs -> Seq(Dirs \X Nat)]
      /\ table' \in [Fds -> Dirs \cup {Free}] /\ \A f \in Fds : table'[f] \in {table[f], Free}
      /\ fine' \in {0, 1} /\ thread[d].buf = <<>>
  BY <1>1, Types
<1>3. thread[d].at \notin Over
  BY <1>1 DEF Over
<1>4. Across(d) \in Dirs /\ Inv(d) /\ From(d) \in {d, Free}
  BY <1>3, OwnNumbers
<1>5. thread' = [thread EXCEPT ![d] = t]
  <2>1. thread' = [thread EXCEPT ![d] = [[thread[d] EXCEPT !.file = From(d)] EXCEPT !.at = p]]
    BY <1>1, <1>2
  <2>2. thread[d] \in Thread
    BY <1>2
  <2>3. [[thread[d] EXCEPT !.file = From(d)] EXCEPT !.at = p] = t
    BY <2>2, TwoFields
  <2>4. QED
    BY <2>1, <2>3
<1>6. /\ t \in Thread /\ t.at \in {"signal", "reading"} /\ t.buf = <<>>
      /\ t.file = IF t.at = "reading" THEN d ELSE Free
  <2>1. thread[d] \in Thread /\ p \in Places
    BY <1>2 DEF Places
  <2>2. t \in Thread
    BY <1>4, <2>1 DEF Thread
  <2>3. QED
    BY <1>2, <1>4, <2>2, FreeIsNoSocket
<1> HIDE DEF t, p
<1>7. /\ thread'[d] = t /\ taken' = [taken EXCEPT ![d] = taken[d]]
      /\ got' = [got EXCEPT ![Across(d)] = got[Across(d)]]
  BY <1>1, <1>2, <1>4, <1>5
<1>8. DataInv(d)'
  BY <1>1, <1>2, <1>4, <1>6, <1>7 DEF Inv, DataInv
<1>9. t.at # "none" /\ taken[d] \in Nat /\ got[Across(d)] \in Seq(Dirs \X Nat)
  BY <1>2, <1>4, <1>6
<1>10. QED
  BY <1>1, <1>2, <1>3, <1>5, <1>6, <1>7, <1>8, <1>9, OneThread

LEMMA SafeReadReturns ==
    ASSUME IInv, NEW d \in Dirs, ReadReturns(d)
    PROVE  IInv'
<1>1. /\ thread[d].at = "reading"
      /\ UNCHANGED <<up, fine, setup, fds, table, out, way, got>>
  BY DEF ReadReturns, At
<1>2. /\ thread \in [Dirs -> Thread] /\ taken \in [Dirs -> Nat] /\ out \in [Dirs -> Nat]
      /\ got \in [Dirs -> Seq(Dirs \X Nat)]
      /\ table' \in [Fds -> Dirs \cup {Free}] /\ \A f \in Fds : table'[f] \in {table[f], Free}
      /\ fine' \in {0, 1} /\ thread[d].buf = <<>>
  BY <1>1, Types
<1>3. thread[d].at \notin Over
  BY <1>1 DEF Over
<1>4. /\ Across(d) \in Dirs /\ Inv(d) /\ thread[d].file = d
      /\ got' = [got EXCEPT ![Across(d)] = got[Across(d)]] /\ got[Across(d)] \in Seq(Dirs \X Nat)
  BY <1>1, <1>2, <1>3, OwnNumbers DEF Inv, ThreadInv
<1>5. ASSUME NEW n \in (taken[d] + 1) .. out[d],
             thread' = [thread EXCEPT ![d] = [at |-> "writen", file |-> Free,
                           buf |-> [i \in 1 .. (n - taken[d]) |-> <<d, taken[d] + i>>]]],
             taken' = [taken EXCEPT ![d] = n]
      PROVE  IInv'
  <2> DEFINE k == n - taken[d]
             b == LastUnits(d, k, n)
             t == [at |-> "writen", file |-> Free, buf |-> b]
  <2>1. n \in Nat /\ n <= out[d] /\ k \in 0 .. n /\ k > 0 /\ k <= n /\ n - k = taken[d]
    BY <1>2
  <2>2. b \in Seq(Dirs \X Nat) /\ Len(b) = k
    BY ZenonT(40), <2>1, UnitsSeq
  <2>3. b = [i \in 1 .. (n - taken[d]) |-> <<d, taken[d] + i>>]
    BY <2>1 DEF LastUnits
  <2> HIDE DEF b
  <2>4. t \in Thread /\ t.at = "writen" /\ t.file = Free /\ t.buf = b
    BY <2>2 DEF Thread, Places
  <2>5. thread' = [thread EXCEPT ![d] = t]
    BY <1>5, <2>3
  <2> HIDE DEF t
  <2>6. thread'[d] = t /\ taken'[d] = n /\ got'[Across(d)] = got[Across(d)]
    BY <1>1, <1>2, <1>5, <2>5
  <2>7. /\ got[Across(d)] = Units(d, Len(got[Across(d)]))
        /\ way[Across(d)] # "gone" => Len(got[Across(d)]) + Len(thread[d].buf) = taken[d]
    BY <1>1, <1>4 DEF Inv, DataInv
  <2>8. way[Across(d)] # "gone" => Len(got[Across(d)]) + k = n
    <3>1. Len(<<>>) = 0 /\ Len(got[Across(d)]) \in Nat /\ taken[d] \in Nat
      BY <1>2, <1>4
    <3>2. way[Across(d)] # "gone" => Len(got[Across(d)]) = taken[d]
      BY <1>2, <2>7, <3>1
    <3> HIDE DEF k
    <3>3. n = taken[d] + k
      BY <2>1, <3>1
    <3>4. QED
      BY <3>2, <3>3
  <2>9. DataInv(d)'
    <3>1. b = LastUnits(d, Len(b), n) /\ Len(b) > 0 /\ Len(b) <= n
      BY <2>1, <2>2 DEF b
    <3> HIDE DEF k
    <3>2. QED
      BY <1>1, <2>1, <2>2, <2>4, <2>6, <2>7, <2>8, <3>1 DEF DataInv
  <2>10. QED
    BY <1>1, <1>2, <1>3, <1>4, <1>5, <2>1, <2>4, <2>5, <2>9, OneThread
<1>6. ASSUME thread' = [thread EXCEPT ![d].at = "signal", ![d].file = Free], UNCHANGED taken
      PROVE  IInv'
  <2> DEFINE t == [at |-> "signal", file |-> Free, buf |-> thread[d].buf]
  <2>1. thread' = [thread EXCEPT ![d] = t]
    <3>1. thread' = [thread EXCEPT ![d] = [[thread[d] EXCEPT !.at = "signal"] EXCEPT !.file = Free]]
      BY <1>2, <1>6
    <3>2. [[thread[d] EXCEPT !.at = "signal"] EXCEPT !.file = Free] = t
      BY <1>2, TwoFields
    <3>3. QED
      BY <3>1, <3>2
  <2>2. t \in Thread /\ t.at = "signal" /\ t.file = Free /\ t.buf = <<>>
    BY <1>2 DEF Thread, Places
  <2> HIDE DEF t
  <2>3. /\ thread'[d] = t /\ taken' = [taken EXCEPT ![d] = taken[d]] /\ taken[d] \in Nat
        /\ taken'[d] = taken[d] /\ got'[Across(d)] = got[Across(d)]
    BY <1>1, <1>2, <1>6, <2>1
  <2>4. DataInv(d)'
    BY <1>1, <1>4, <2>2, <2>3 DEF Inv, DataInv
  <2>5. QED
    BY <1>1, <1>2, <1>3, <1>4, <2>1, <2>2, <2>3, <2>4, OneThread
<1>7. \/ \E n \in (taken[d] + 1) .. out[d] :
            /\ thread' = [thread EXCEPT ![d] = [at |-> "writen", file |-> Free,
                           buf |-> [i \in 1 .. (n - taken[d]) |-> <<d, taken[d] + i>>]]]
            /\ taken' = [taken EXCEPT ![d] = n]
      \/ thread' = [thread EXCEPT ![d].at = "signal", ![d].file = Free] /\ UNCHANGED taken
  BY <1>4 DEF ReadReturns
<1>8. QED
  BY <1>5, <1>6, <1>7

\* What a send leaves of buf, and what the other end has received by then.
LEMMA SendData ==
    ASSUME IInv, NEW d \in Dirs, thread[d].at = "send", NEW n \in DOMAIN thread[d].buf
    PROVE  LET m == Len(thread[d].buf)
               had == got[Across(d)]
               sent == SubSeq(thread[d].buf, 1, n)
           IN  /\ m \in Nat /\ n \in 1 .. m /\ m <= taken[d]
               /\ Without(d, n) = LastUnits(d, m - n, taken[d])
               /\ Without(d, n) \in Seq(Dirs \X Nat) /\ Len(Without(d, n)) = m - n
               /\ Without(d, n) = <<>> <=> m = n
               /\ had = Units(d, Len(had))
               /\ way[Across(d)] # "gone" =>
                      Len(had) + m = taken[d] /\ had \o sent = Units(d, Len(had) + n)
<1> DEFINE m == Len(thread[d].buf)
           had == got[Across(d)]
           sent == SubSeq(thread[d].buf, 1, n)
<1>1. thread[d].at \notin Over
  BY DEF Over
<1>2. /\ had = Units(d, Len(had)) /\ thread[d].buf = LastUnits(d, m, taken[d]) /\ m <= taken[d]
      /\ way[Across(d)] # "gone" => Len(had) + m = taken[d]
  BY <1>1, OwnNumbers DEF Inv, DataInv
<1>3. taken[d] \in Nat /\ m \in Nat /\ Len(had) \in Nat /\ n \in 1 .. m
  <2>1. /\ thread \in [Dirs -> Thread] /\ got \in [Dirs -> Seq(Dirs \X Nat)]
        /\ taken \in [Dirs -> Nat] /\ Across(d) \in Dirs
    BY <1>1, Types, OwnNumbers
  <2>2. thread[d].buf \in Seq(Dirs \X Nat) /\ had \in Seq(Dirs \X Nat)
    BY <2>1 DEF Thread
  <2>3. \A x \in Seq(Dirs \X Nat) : Len(x) \in Nat /\ DOMAIN x = 1 .. Len(x)
    OBVIOUS
  <2>4. taken[d] \in Nat
    BY <2>1
  <2> HIDE DEF had
  <2>5. QED
    BY <2>2, <2>3, <2>4
<1>4. /\ SubSeq(LastUnits(d, m, taken[d]), n + 1, m) = LastUnits(d, m - n, taken[d])
      /\ Units(d, taken[d] - m) \o SubSeq(LastUnits(d, m, taken[d]), 1, n) = Units(d, taken[d] - m + n)
  <2>1. m \in 0 .. taken[d]
    BY <1>2, <1>3
  <2> HIDE DEF m
  <2>2. QED
    BY <1>3, <2>1, FrontUnits
<1>5. LastUnits(d, m - n, taken[d]) \in Seq(Dirs \X Nat) /\ Len(LastUnits(d, m - n, taken[d])) = m - n
  <2>1. m - n \in 0 .. taken[d]
    BY <1>2, <1>3
  <2>2. QED
    BY ZenonT(40), <1>3, <2>1, UnitsSeq
<1>6. Without(d, n) = LastUnits(d, m - n, taken[d]) /\ sent = SubSeq(LastUnits(d, m, taken[d]), 1, n)
  BY <1>2, <1>4 DEF Without
<1>7. Without(d, n) = <<>> <=> m = n
  BY <1>3, <1>5, <1>6
<1>8. ASSUME way[Across(d)] # "gone"
      PROVE  Len(had) + m = taken[d] /\ had \o sent = Units(d, Len(had) + n)
  <2>1. Len(had) + m = taken[d]
    BY <1>2, <1>8
  <2> HIDE DEF m, had, sent
  <2>2. Len(had) = taken[d] - m
    BY <1>3, <2>1
  <2>3. QED
    BY <1>2, <1>4, <1>6, <2>1, <2>2
<1>9. QED
  BY <1>2, <1>3, <1>5, <1>6, <1>7, <1>8

LEMMA SafeSend ==
    ASSUME IInv, NEW d \in Dirs, send(d)
    PROVE  IInv'
<1>1. /\ thread[d].at = "send" /\ To(d) # Free
      /\ UNCHANGED <<up, fine, setup, fds, table, taken, out, way>>
  BY DEF send, At
<1>2. PICK n \in DOMAIN thread[d].buf :
        /\ Delivers(d, n)
        /\ thread' = [thread EXCEPT ![d].buf = Without(d, n),
                                    ![d].at = IF Without(d, n) = <<>> THEN "check" ELSE "writen"]
  BY DEF send
<1> DEFINE a == Across(d)
           m == Len(thread[d].buf)
           p == IF Without(d, n) = <<>> THEN "check" ELSE "writen"
           t == [at |-> p, file |-> Free, buf |-> Without(d, n)]
           sent == SubSeq(thread[d].buf, 1, n)
           g == IF way[a] = "gone" THEN got[a] ELSE got[a] \o sent
<1>3. thread[d].at \notin Over /\ To(d) = a /\ a \in Dirs /\ Inv(d) /\ thread[d].file = Free
  <2>1. thread[d].at \notin Over
    BY <1>1 DEF Over
  <2>2. QED
    BY <1>1, <2>1, OwnNumbers DEF Inv, ThreadInv
<1>4. /\ m \in Nat /\ n \in 1 .. m /\ m <= taken[d]
      /\ Without(d, n) = LastUnits(d, m - n, taken[d])
      /\ Without(d, n) \in Seq(Dirs \X Nat) /\ Len(Without(d, n)) = m - n
      /\ Without(d, n) = <<>> <=> m = n
      /\ got[a] = Units(d, Len(got[a]))
      /\ way[a] # "gone" => Len(got[a]) + m = taken[d] /\ got[a] \o sent = Units(d, Len(got[a]) + n)
  BY <1>1, SendData
<1>5. /\ thread \in [Dirs -> Thread] /\ taken[d] \in Nat /\ taken \in [Dirs -> Nat]
      /\ got \in [Dirs -> Seq(Dirs \X Nat)] /\ got[a] \in Seq(Dirs \X Nat) /\ Len(got[a]) \in Nat
      /\ fine' \in {0, 1} /\ table' \in [Fds -> Dirs \cup {Free}]
      /\ \A f \in Fds : table'[f] \in {table[f], Free}
  <2>1. got[a] \in Seq(Dirs \X Nat)
    BY <1>3, Types
  <2>2. QED
    BY <1>1, <2>1, Types
<1>6. thread' = [thread EXCEPT ![d] = t]
  <2>1. thread' = [thread EXCEPT ![d] = [[thread[d] EXCEPT !.buf = Without(d, n)] EXCEPT !.at = p]]
    BY <1>2, <1>5
  <2>2. [[thread[d] EXCEPT !.buf = Without(d, n)] EXCEPT !.at = p] = t
    BY ZenonT(40), <1>3, <1>5, BufFields
  <2>3. QED
    BY <2>1, <2>2
<1>7. /\ t \in Thread /\ t.at \in {"check", "writen"} /\ t.file = Free /\ t.buf = Without(d, n)
      /\ t.at = "check" <=> m = n
  BY <1>4 DEF Thread, Places
<1>8. g \in Seq(Dirs \X Nat) /\ got' = [got EXCEPT ![a] = g]
  <2>1. CASE way[a] = "gone"
    BY <1>2, <1>3, <1>5, <2>1 DEF Delivers
  <2>2. CASE way[a] # "gone"
    <3>1. Units(d, Len(got[a]) + n) \in Seq(Dirs \X Nat)
      <4>1. Len(got[a]) + n \in Nat /\ 0 \in 0 .. (Len(got[a]) + n)
        <5>1. Len(got[a]) \in Nat /\ n \in Nat
          BY <1>4, <1>5
        <5> HIDE DEF a
        <5>2. QED
          BY <5>1
      <4>2. QED
        BY <4>1, UnitsSeq
    <3>2. QED
      BY <1>2, <1>3, <1>4, <2>2, <3>1 DEF Delivers
  <2>3. QED
    BY <2>1, <2>2
<1>9. /\ g = Units(d, Len(g))
      /\ way[a] # "gone" => Len(g) + Len(t.buf) = taken[d]
  <2>1. CASE way[a] = "gone"
    BY <1>4, <2>1
  <2>2. CASE way[a] # "gone"
    <3>1. g = Units(d, Len(got[a]) + n) /\ Len(got[a]) + m = taken[d]
      BY <1>4, <2>2
    <3>2. Len(Units(d, Len(got[a]) + n)) = Len(got[a]) + n
      <4>1. Len(got[a]) + n \in Nat /\ 0 \in 0 .. (Len(got[a]) + n)
        <5>1. Len(got[a]) \in Nat /\ n \in Nat
          BY <1>4, <1>5
        <5> HIDE DEF a
        <5>2. QED
          BY <5>1
      <4>2. QED
        BY <4>1, UnitsSeq
    <3>3. Len(g) = Len(got[a]) + n /\ g = Units(d, Len(g))
      BY <3>1, <3>2
    <3>4. Len(t.buf) = m - n
      BY <1>4, <1>7
    <3>5. Len(g) + Len(t.buf) = taken[d]
      <4> HIDE DEF m, a, t, g
      <4>1. Len(got[a]) + n + (m - n) = taken[d]
        BY <1>4, <1>5, <3>1
      <4>2. QED
        BY <3>3, <3>4, <4>1
    <3>6. QED
      BY <3>3, <3>5
  <2>3. QED
    BY <2>1, <2>2
<1> HIDE DEF t, g
<1>10. /\ thread'[d] = t /\ got'[a] = g /\ taken' = [taken EXCEPT ![d] = taken[d]] /\ taken'[d] = taken[d]
  BY <1>1, <1>3, <1>5, <1>6, <1>8
<1>11. DataInv(d)'
  <2>1. t.at = "check" => t.buf = <<>>
    BY <1>4, <1>7
  <2>2. t.at = "writen" => /\ Len(t.buf) > 0 /\ Len(t.buf) <= taken[d]
                           /\ t.buf = LastUnits(d, Len(t.buf), taken[d])
    <3>1. t.buf = LastUnits(d, m - n, taken[d]) /\ Len(t.buf) = m - n
      BY <1>4, <1>7
    <3>2. t.at = "writen" => m # n
      BY <1>7
    <3> HIDE DEF m
    <3>3. QED
      BY <1>4, <1>5, <3>1, <3>2
  <2>3. taken[d] <= out[d]
    BY <1>3 DEF Inv, DataInv
  <2>4. QED
    BY <1>1, <1>7, <1>9, <1>10, <2>1, <2>2, <2>3 DEF DataInv
<1>12. t.at # "none" /\ (t.at \in {"read", "reading"} => t.buf = <<>>)
       /\ t.file = IF t.at = "reading" THEN d ELSE Free
  BY <1>7
<1>13. QED
  BY <1>1, <1>3, <1>5, <1>6, <1>7, <1>8, <1>10, <1>11, <1>12, OneThread

-----------------------------------------------------------------------------
LEMMA Safe ==
    ASSUME IInv, Serial, [Next]_vars
    PROVE  IInv'
<1>1. CASE exit
  BY <1>1, SafeEnds
<1>2. ASSUME NEW c \in Conns, accept(c) \/ Setup(c) PROVE IInv'
  BY <1>2, SafeAccept, SafeBegin, SafeSocket, SafeConnect, SafeSetupFails DEF Setup
<1>3. ASSUME NEW d \in Dirs, Forward(d) PROVE IInv'
  BY <1>3, SafeStart, SafeCheckfine, SafeRead, SafeReadReturns, SafeWriten, SafeSend, SafeSendFails,
     SafeEnding DEF Forward
<1>4. ASSUME NEW d \in Dirs, Send(d) \/ Leave(d, "fin") \/ Leave(d, "gone") PROVE IInv'
  BY <1>4, SafeEnds
<1>5. CASE UNCHANGED vars
  <2>1. UNCHANGED <<up, fine, setup, fds, table, thread, taken, out, way, got>>
    BY <1>5 DEF vars, threads
  <2>2. TypeOK'
    BY <2>1 DEF IInv, TypeOK
  <2>3. ASSUME NEW d \in Dirs PROVE Inv(d)'
    <3>1. Inv(d)
      BY DEF IInv
    <3>2. SerialInv(d)' /\ ThreadInv(d)' /\ DataInv(d)'
      BY <2>1, <3>1, SerialSame, ThreadSame, DataSame
    <3>3. NumberInv(d)'
      BY <2>1, <3>1 DEF Inv, NumberInv, Numberless
    <3>4. QED
      BY <3>2, <3>3 DEF Inv
  <2>4. QED
    BY <2>2, <2>3 DEF IInv
<1>6. QED
  BY <1>1, <1>2, <1>3, <1>4, <1>5 DEF Next

\* The invariant holds when the proxy serves one connection after the other:
\* a number that a running thread uses is its own connection's or nobody's, and
\* each end has received the first units of the other.
THEOREM ForwardInvariance ==
    ASSUME Serial
    PROVE  Spec => []IInv
<1>1. Init => IInv
  BY InitIInv
<1>2. IInv /\ [Next]_vars => IInv'
  BY Safe
<1>3. QED
  BY <1>1, <1>2, PTL DEF Spec

\* The types of the older proxy's state, and that a thread that reads has sent
\* all it had read (lines 133 to 143).
THEOREM ForwardTypes ==
    ASSUME Serial
    PROVE  Spec => []TypeOK
<1>1. IInv => TypeOK
  BY DEF IInv
<1>2. QED
  BY <1>1, ForwardInvariance, PTL

\* Connections that come one after the other are private: each end receives the
\* units of the other end of its own connection, in order and without gaps.
THEOREM ConnectionsPrivate ==
    ASSUME Serial
    PROVE  Spec => []Private
<1>1. IInv => Private
  <2> SUFFICES ASSUME IInv, NEW d \in Dirs
               PROVE  got[d] = [i \in 1 .. Len(got[d]) |-> <<Across(d), i>>]
    BY DEF Private
  <2>1. Across(d) \in Dirs /\ Across(Across(d)) = d
    BY AcrossDir
  <2>2. Inv(Across(d))
    BY <2>1 DEF IInv
  <2>3. QED
    BY <2>1, <2>2 DEF Inv, DataInv, Units
<1>2. QED
  BY <1>1, ForwardInvariance, PTL
=============================================================================

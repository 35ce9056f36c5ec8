-------------------------- MODULE SocketMapProofs --------------------------
(***************************************************************************)
(* The proofs about SocketMap for processes that connect or listen, not    *)
(* both, whose threads make no call while one is in ReAccept.              *)
(***************************************************************************)
EXTENDS SocketMapInv, SequenceTheorems, FiniteSetTheorems, WellFoundedInduction, TLAPS

-----------------------------------------------------------------------------
(***************************************************************************)
(* The types, and the lookups of the list.                                 *)
(***************************************************************************)
LEMMA Types ==
    ASSUME IInv
    PROVE  /\ proc \in Processes /\ proc \in Process /\ proc.sockets <= MaxRecords /\ Len(recs) <= proc.sockets
           /\ Len(recs) \in Nat /\ Len(recs) <= MaxRecords /\ DOMAIN recs = 1 .. Len(recs)
           /\ DOMAIN recs \subseteq Records /\ recs \in Seq(Record)
           /\ \A i \in DOMAIN recs : recs[i] \in Record
           /\ fdt \in [Fds -> Object] /\ handed \in [Fds -> Conns \cup {NoConn}]
           /\ accepts \in [Records -> 0 .. MaxAccepts] /\ thread \in [Accepted -> Place]
           /\ closing \in BOOLEAN /\ rip \in Nat /\ ris \in {0, -1} /\ ntentativi \in 0 .. MAX_TENTATIVI
           /\ Fds \subseteq Nat /\ 0 \notin Fds /\ -1 \notin Fds
<1>1. /\ proc \in Process /\ recs \in Seq(Record) /\ Len(recs) <= proc.sockets
  BY SocketMapAssumption DEF IInv, TypeOK
<1>2. proc.sockets \in 1 .. MaxRecords
  BY <1>1 DEF Process
<1>3. /\ Len(recs) \in Nat /\ DOMAIN recs = 1 .. Len(recs) /\ \A i \in DOMAIN recs : recs[i] \in Record
  BY <1>1
<1>4. /\ Fds \subseteq Nat /\ 0 \notin Fds /\ -1 \notin Fds
  BY SocketMapAssumption DEF Fds
<1>5. proc.sockets <= MaxRecords /\ Len(recs) <= MaxRecords /\ DOMAIN recs \subseteq Records
  BY <1>1, <1>2, <1>3, SocketMapAssumption DEF Records
<1>6. rip \in Nat
  BY SocketMapAssumption DEF IInv, TypeOK
<1>7. QED
  BY <1>1, <1>3, <1>4, <1>5, <1>6 DEF IInv, TypeOK

\* A set of natural numbers that is not empty has a least one.
LEMMA LeastNumber ==
    ASSUME NEW S \in SUBSET Nat, S # {}
    PROVE  Min(S) \in S /\ \A y \in S : Min(S) <= y
<1>1. PICK x \in S : \A y \in S : ~ (<<y, x>> \in OpToRel(<, Nat))
  BY NatLessThanWellFounded, WFMin
<1>2. \A y \in S : x <= y
  <2> TAKE y \in S
  <2>1. ~ (y < x)
    BY <1>1 DEF OpToRel
  <2>2. QED
    BY <2>1
<1>3. QED
  BY <1>2 DEF Min

LEMMA OnlyHit ==
    ASSUME NEW i \in Nat \ {0}, NEW S, S = {i}
    PROVE  FirstOf(S) = i
<1>1. S \in SUBSET Nat /\ S # {}
  OBVIOUS
<1>2. Min(S) \in S
  BY <1>1, LeastNumber
<1>3. QED
  BY <1>1, <1>2 DEF FirstOf

\* A number of a record leads to that record alone.
LEMMA Lookup ==
    ASSUME IInv, NEW i \in DOMAIN recs, NEW n \in OfRecord(i), n \in Fds
    PROVE  /\ get_connection(n) = i
           /\ get_real_fd(n) = IF n \in OfSocket(i) THEN recs[i].priv ELSE recs[i].apriv
           /\ \A j \in DOMAIN recs : n \in OfRecord(j) => j = i
<1>1. \A j \in DOMAIN recs : n \in OfRecord(j) => j = i
  <2> SUFFICES ASSUME NEW j \in DOMAIN recs, n \in OfRecord(j), j # i PROVE FALSE
    OBVIOUS
  <2>1. FieldsInv(i)
    BY DEF IInv
  <2>2. OfRecord(i) \cap OfRecord(j) \subseteq {0, -1}
    BY <2>1 DEF FieldsInv
  <2>3. n \in {0, -1}
    BY <2>2
  <2>4. QED
    BY <2>3, Types
<1>2. i \in Nat \ {0}
  BY Types
<1>3. {j \in DOMAIN recs : n \in OfRecord(j)} = {i}
  BY <1>1
<1>4. get_connection(n) = i
  BY <1>2, <1>3, OnlyHit DEF get_connection
<1>5. QED
  BY <1>1, <1>2, <1>4 DEF get_real_fd

LEMMA NoHit ==
    ASSUME NEW n, \A i \in DOMAIN recs : n \notin OfRecord(i)
    PROVE  get_connection(n) = 0 /\ get_real_fd(n) = -1
<1>1. {i \in DOMAIN recs : n \in OfRecord(i)} = {}
  OBVIOUS
<1>2. QED
  BY <1>1 DEF get_connection, get_real_fd, FirstOf

-----------------------------------------------------------------------------
(***************************************************************************)
(* The numbers the kernel gives.  There is room for all four fields of     *)
(* every record and one number more.                                       *)
(***************************************************************************)
Names == {"pub", "priv", "apub", "apriv"}
Slots == Records \X Names

LEMMA SlotsCount == IsFiniteSet(Slots) /\ Cardinality(Slots) = 4 * MaxRecords
<1>1. IsFiniteSet(Records) /\ Cardinality(Records) = MaxRecords
  BY FS_Interval, SocketMapAssumption DEF Records
<1>2. IsFiniteSet(Names) /\ Cardinality(Names) = 4
  <2>1. IsFiniteSet({"pub"}) /\ Cardinality({"pub"}) = 1
    BY FS_Singleton
  <2>2. IsFiniteSet({"pub", "priv"}) /\ Cardinality({"pub", "priv"}) = 2
    <3>1. {"pub", "priv"} = {"pub"} \cup {"priv"} /\ "priv" \notin {"pub"}
      OBVIOUS
    <3>2. QED
      BY <2>1, <3>1, FS_AddElement
  <2>3. IsFiniteSet({"pub", "priv", "apub"}) /\ Cardinality({"pub", "priv", "apub"}) = 3
    <3>1. {"pub", "priv", "apub"} = {"pub", "priv"} \cup {"apub"} /\ "apub" \notin {"pub", "priv"}
      OBVIOUS
    <3>2. QED
      BY <2>2, <3>1, FS_AddElement
  <2>4. Names = {"pub", "priv", "apub"} \cup {"apriv"} /\ "apriv" \notin {"pub", "priv", "apub"}
    BY DEF Names
  <2>5. QED
    BY <2>3, <2>4, FS_AddElement
<1>3. IsFiniteSet(Slots) /\ Cardinality(Slots) = MaxRecords * 4
  BY <1>1, <1>2, FS_Product DEF Slots
<1>4. QED
  BY <1>3, SocketMapAssumption

\* When what is in use fits in the slots, open gives the lowest number not in use.
LEMMA RoomLeft ==
    ASSUME OneSidedProcess, NEW table \in [Fds -> Object], NEW num,
           \A f \in Fds : table[f].kind # "free" => \E s \in Slots : num[s] = f
    PROVE  /\ NextFd(table) \in Fds /\ table[NextFd(table)].kind = "free"
           /\ \A f \in Fds : table[f].kind = "free" => NextFd(table) <= f
<1> DEFINE F == {f \in Fds : table[f].kind = "free"}
<1>1. IsFiniteSet(Fds) /\ Cardinality(Fds) = NFds /\ Fds \in SUBSET Nat
  BY SMTT(30), FS_Interval, SocketMapAssumption DEF Fds
<1>2. F # {}
  <2> SUFFICES ASSUME F = {} PROVE FALSE
    OBVIOUS
  <2> DEFINE slot == [f \in Fds |-> CHOOSE s \in Slots : num[s] = f]
  <2>1. \A f \in Fds : slot[f] \in Slots /\ num[slot[f]] = f
    OBVIOUS
  <2>2. slot \in [Fds -> Slots]
    BY <2>1
  <2>3. Cardinality(Slots) < Cardinality(Fds)
    BY <1>1, SlotsCount, SocketMapAssumption DEF OneSidedProcess
  <2> HIDE DEF slot, F
  <2>4. PICK x, y \in Fds : x # y /\ slot[x] = slot[y]
    <3>1. IsFiniteSet(Fds) /\ IsFiniteSet(Slots)
      BY <1>1, SlotsCount
    <3>2. QED
      BY <2>2, <2>3, <3>1, FS_PigeonHole
  <2>5. QED
    BY <2>1, <2>4
<1>3. F \in SUBSET Nat
  BY <1>1
<1>4. Min(F) \in F /\ \A f \in F : Min(F) <= f
  BY <1>2, <1>3, LeastNumber
<1>5. NextFd(table) = Min(F)
  BY <1>2 DEF NextFd
<1>6. QED
  BY <1>4, <1>5

\* The field a slot stands for; 0 when there is no such record.
Field(s) ==
    IF s[1] \notin DOMAIN recs THEN 0
    ELSE IF s[2] = "pub" THEN recs[s[1]].pub
    ELSE IF s[2] = "priv" THEN recs[s[1]].priv
    ELSE IF s[2] = "apub" THEN recs[s[1]].apub ELSE recs[s[1]].apriv

\* When no thread is in ReAccept every number in use is in a field.
LEMMA UsedFields ==
    ASSUME IInv, ~ closing, Recovering = {}, NEW f \in Fds, fdt[f].kind # "free"
    PROVE  \E s \in Slots : Field(s) = f
<1>1. \A c \in Accepted : thread[c].fd = 0
  BY DEF IInv, ThreadInv, Recovering
<1>2. PICK i \in DOMAIN recs : f \in OfRecord(i)
  BY <1>1, Types DEF IInv, KnownInv
<1>3. \A a \in Names : <<i, a>> \in Slots
  BY Types DEF Slots
<1>4. PICK a \in Names : Field(<<i, a>>) = f
  BY <1>2 DEF OfRecord, OfSocket, Field, Names
<1>5. QED
  BY <1>3, <1>4

\* What the fields of a record hold while nothing has been closed.
LEMMA InUse ==
    ASSUME IInv, ~ closing, Recovering = {}, NEW i \in DOMAIN recs
    PROVE  /\ handed[recs[i].pub] = <<i, 0>>
           /\ recs[i].apub # 0 => handed[recs[i].apub] = <<i, 1>>
           /\ \A n \in OfRecord(i) : n \in Fds => fdt[n].kind # "free"
<1>1. FieldsInv(i) /\ ObjectsInv(i)
  BY DEF IInv
<1>2. /\ handed[recs[i].pub] = <<i, 0>>
      /\ recs[i].apub # 0 => handed[recs[i].apub] = <<i, 1>>
  BY <1>1 DEF ObjectsInv
<1>3. fdt[recs[i].priv].kind # "free" /\ fdt[recs[i].pub].kind # "free"
  <2>1. recs[i].type \in {0, 1}
    BY Types DEF Record
  <2>2. QED
    BY <1>1, <1>2, <2>1 DEF FieldsInv, ObjectsInv, Obj, Null
<1>4. ASSUME recs[i].apub # 0, recs[i].apriv # -1
      PROVE  fdt[recs[i].apriv] = Obj("acc", <<i, 1>>)
  <2>1. <<i, 1>> \in Accepted
    <3>1. accepts[i] = 1 /\ i \in Records
      BY <1>1, <1>4, Types DEF FieldsInv
    <3>2. 1 \in 0 .. MaxAccepts
      BY <3>1, Types
    <3>3. QED
      BY <3>1, <3>2 DEF Accepted, Conns
  <2>2. thread[<<i, 1>>].at # "set"
    BY <2>1 DEF Recovering
  <2>3. QED
    BY <1>1, <1>2, <1>4, <2>2 DEF ObjectsInv
<1>5. recs[i].apub # 0 => fdt[recs[i].apub].kind # "free"
  BY <1>1 DEF ObjectsInv, Null
<1>6. recs[i].apub = 0 => recs[i].apriv = 0
  BY <1>1 DEF FieldsInv
<1>7. \A n \in OfRecord(i) : n \in Fds => fdt[n].kind # "free"
  BY <1>3, <1>4, <1>5, <1>6, Types DEF OfRecord, OfSocket, Obj
<1>8. QED
  BY <1>2, <1>7

\* The number of the next descriptor is nobody's.
LEMMA FreshNumber ==
    ASSUME IInv, OneSidedProcess, ~ closing, Recovering = {}
    PROVE  /\ NextFd(fdt) \in Fds /\ fdt[NextFd(fdt)].kind = "free"
           /\ \A f \in Fds : fdt[f].kind = "free" => NextFd(fdt) <= f
           /\ \A i \in DOMAIN recs : NextFd(fdt) \notin OfRecord(i)
<1> DEFINE num == [s \in Slots |-> Field(s)]
<1>1. \A f \in Fds : fdt[f].kind # "free" => \E s \in Slots : num[s] = f
  BY UsedFields
<1> HIDE DEF num
<1>2. /\ NextFd(fdt) \in Fds /\ fdt[NextFd(fdt)].kind = "free"
      /\ \A f \in Fds : fdt[f].kind = "free" => NextFd(fdt) <= f
  BY <1>1, RoomLeft, Types
<1>3. QED
  BY <1>2, InUse

\* So is the one after it, when a slot is not in use.
LEMMA SecondNumber ==
    ASSUME IInv, OneSidedProcess, ~ closing, Recovering = {},
           NEW n \in Fds, NEW o \in Object, NEW u \in Slots, Field(u) = 0
    PROVE  LET t == [fdt EXCEPT ![n] = o] IN
           /\ NextFd(t) \in Fds /\ t[NextFd(t)].kind = "free"
           /\ \A f \in Fds : t[f].kind = "free" => NextFd(t) <= f
           /\ NextFd(t) = n \/ \A i \in DOMAIN recs : NextFd(t) \notin OfRecord(i)
<1> DEFINE num == [s \in Slots |-> IF s = u THEN n ELSE Field(s)]
           t == [fdt EXCEPT ![n] = o]
<1>1. t \in [Fds -> Object] /\ \A f \in Fds : f # n => t[f] = fdt[f]
  BY Types
<1>2. ASSUME NEW f \in Fds, t[f].kind # "free" PROVE \E s \in Slots : num[s] = f
  <2>1. CASE f = n
    BY <2>1
  <2>2. CASE f # n
    <3>1. fdt[f].kind # "free"
      BY <1>1, <1>2, <2>2
    <3>2. PICK s \in Slots : Field(s) = f
      BY <3>1, UsedFields
    <3>3. s # u
      BY <3>2, Types
    <3>4. QED
      BY <3>2, <3>3
  <2>3. QED
    BY <2>1, <2>2
<1> HIDE DEF num, t
<1>3. /\ NextFd(t) \in Fds /\ t[NextFd(t)].kind = "free"
      /\ \A f \in Fds : t[f].kind = "free" => NextFd(t) <= f
  BY <1>1, <1>2, RoomLeft
<1>4. NextFd(t) = n \/ \A i \in DOMAIN recs : NextFd(t) \notin OfRecord(i)
  BY <1>1, <1>3, InUse
<1>5. QED
  BY <1>3, <1>4 DEF t

-----------------------------------------------------------------------------
(***************************************************************************)
(* The invariant at the start, and what its parts depend on.               *)
(***************************************************************************)
LEMMA InitIInv == Init => IInv
<1> SUFFICES ASSUME Init PROVE IInv
  OBVIOUS
<1>1. /\ recs = <<>> /\ DOMAIN recs = {} /\ Len(recs) = 0 /\ recs \in Seq(Record)
      /\ proc \in Processes /\ closing = FALSE /\ rip = 0
  BY DEF Init
<1>2. proc.sockets \in Nat
  BY <1>1, SocketMapAssumption DEF Process
<1>3. Free \in Object /\ Free.kind = "free"
  BY DEF Object, Free, Kinds
<1>4. [at |-> "run", fd |-> 0, tmp |-> 0] \in Place
  BY DEF Place, Number
<1>5. TypeOK
  <2>1. Len(recs) <= proc.sockets
    BY <1>1, <1>2
  <2>2. fdt \in [Fds -> Object] /\ thread \in [Accepted -> Place]
    BY <1>3, <1>4 DEF Init
  <2>3. handed \in [Fds -> Conns \cup {NoConn}] /\ accepts \in [Records -> 0 .. MaxAccepts]
    BY SocketMapAssumption DEF Init
  <2>4. rip \in 0 .. (MaxRecords + 1) /\ ris \in {0, -1} /\ ntentativi \in 0 .. MAX_TENTATIVI
    BY SocketMapAssumption DEF Init
  <2>5. QED
    BY <1>1, <2>1, <2>2, <2>3, <2>4 DEF TypeOK
<1>6. \A c \in Accepted : ThreadInv(c)
  BY DEF Init, ThreadInv
<1>7. \A f \in Fds : HandedInv(f) /\ KnownInv(f)
  BY <1>3 DEF Init, HandedInv, KnownInv
<1>8. ProcessInv
  BY <1>1, <1>3 DEF Init, ProcessInv, Dense
<1>9. QED
  BY <1>1, <1>5, <1>6, <1>7, <1>8 DEF IInv

\* What a record's numbers are is not touched.
SameFields ==
    /\ DOMAIN recs' = DOMAIN recs
    /\ \A j \in DOMAIN recs : /\ recs'[j].pub = recs[j].pub /\ recs'[j].priv = recs[j].priv
                              /\ recs'[j].apub = recs[j].apub /\ recs'[j].apriv = recs[j].apriv
                              /\ recs'[j].type = recs[j].type

LEMMA FieldsSame ==
    ASSUME IInv, SameFields, UNCHANGED <<proc, accepts>>, NEW i \in DOMAIN recs
    PROVE  FieldsInv(i)'
<1>1. FieldsInv(i)
  BY DEF IInv
<1>2. \A j \in DOMAIN recs : OfRecord(j)' = OfRecord(j) /\ OfSocket(j)' = OfSocket(j)
  BY DEF SameFields, OfRecord, OfSocket
<1>3. DOMAIN recs' = DOMAIN recs
  BY DEF SameFields
<1>4. /\ recs'[i].pub = recs[i].pub /\ recs'[i].priv = recs[i].priv
      /\ recs'[i].apub = recs[i].apub /\ recs'[i].apriv = recs[i].apriv
      /\ recs'[i].type = recs[i].type
  BY DEF SameFields
<1>5. QED
  BY <1>1, <1>2, <1>3, <1>4 DEF FieldsInv

LEMMA ObjectsSame ==
    ASSUME IInv, NEW i \in DOMAIN recs,
           recs'[i].pub = recs[i].pub, recs'[i].priv = recs[i].priv,
           recs'[i].apub = recs[i].apub, recs'[i].apriv = recs[i].apriv, recs'[i].type = recs[i].type,
           \A n \in OfRecord(i) : n \in Fds => fdt'[n] = fdt[n] /\ handed'[n] = handed[n],
           (thread'[<<i, 1>>].at = "set") <=> (thread[<<i, 1>>].at = "set"), closing => closing', proc' = proc
    PROVE  ObjectsInv(i)'
<1>1. FieldsInv(i) /\ ObjectsInv(i)
  BY DEF IInv
<1>2. /\ fdt'[recs[i].pub] = fdt[recs[i].pub] /\ fdt'[recs[i].priv] = fdt[recs[i].priv]
      /\ handed'[recs[i].pub] = handed[recs[i].pub]
  BY <1>1 DEF FieldsInv, OfRecord, OfSocket
<1>3. recs[i].apub # 0 => /\ fdt'[recs[i].apub] = fdt[recs[i].apub]
                          /\ handed'[recs[i].apub] = handed[recs[i].apub]
                          /\ recs[i].apriv # -1 => fdt'[recs[i].apriv] = fdt[recs[i].apriv]
  <2>1. recs[i].apriv \in Fds \cup {0, -1}
    BY Types DEF Record, Number
  <2>2. QED
    BY <1>1, <2>1 DEF FieldsInv, OfRecord
<1>4. QED
  BY <1>1, <1>2, <1>3 DEF ObjectsInv

\* A record with two new numbers is added to the list.
LEMMA RecordAdded ==
    ASSUME IInv, ~ closing, Recovering = {}, Len(recs) < proc.sockets,
           NEW pub \in Fds, NEW priv \in Fds, NEW type \in {0, 1}, type = 0 <=> pub = priv,
           \A j \in DOMAIN recs : pub \notin OfRecord(j) /\ priv \notin OfRecord(j),
           recs' = Append(recs, NewRecord(pub, priv, type)),
           fdt' \in [Fds -> Object], fdt'[priv] = Obj("sock", <<Len(recs) + 1, 0>>),
           type = 1 => fdt'[pub] = Null,
           \A f \in Fds \ {pub, priv} : fdt'[f] = fdt[f],
           proc.role = "client" => Dense(fdt'),
           handed' = [handed EXCEPT ![pub] = <<Len(recs) + 1, 0>>],
           UNCHANGED <<proc, accepts, thread, rip, ris, ntentativi, closing>>
    PROVE  IInv'
<1> DEFINE r == NewRecord(pub, priv, type)
<1>0. PICK k \in Nat : k = Len(recs) + 1
  BY Types
<1>1. r \in Record
  BY DEF NewRecord, Record, Number
<1>2. /\ r.pub = pub /\ r.priv = priv /\ r.apub = 0 /\ r.apriv = 0 /\ r.type = type
  BY DEF NewRecord
<1> HIDE DEF r
<1>3. /\ recs' \in Seq(Record) /\ Len(recs') = k /\ recs'[k] = r
      /\ \A i \in 1 .. Len(recs) : recs'[i] = recs[i]
  <2>1. recs \in Seq(Record)
    BY Types
  <2>2. QED
    BY <1>1, <1>0, <2>1, AppendProperties DEF r
<1>4. /\ Len(recs) \in Nat /\ k \in Nat /\ DOMAIN recs = 1 .. Len(recs)
      /\ DOMAIN recs' = 1 .. k /\ k \notin DOMAIN recs
      /\ \A i \in 1 .. k : i = k \/ i \in DOMAIN recs
      /\ proc.sockets \in 1 .. MaxRecords /\ k <= proc.sockets
  <2>1. Len(recs) \in Nat /\ DOMAIN recs = 1 .. Len(recs) /\ proc.sockets \in 1 .. MaxRecords
    BY Types DEF Process
  <2>2. DOMAIN recs' = 1 .. k
    BY <1>3
  <2>3. QED
    BY <1>0, <2>1, <2>2, SocketMapAssumption
<1>5. /\ \A i \in DOMAIN recs : recs'[i] = recs[i] /\ OfRecord(i)' = OfRecord(i) /\ OfSocket(i)' = OfSocket(i)
      /\ OfRecord(k)' = {pub, priv, 0}
  <2>1. \A i \in DOMAIN recs : recs'[i] = recs[i]
    BY <1>3, <1>4
  <2>2. OfRecord(k)' = {pub, priv, 0}
    BY <1>2, <1>3 DEF OfRecord, OfSocket
  <2>3. QED
    BY <2>1, <2>2 DEF OfRecord, OfSocket
<1>6. handed' \in [Fds -> Conns \cup {NoConn}] /\ k \in Records
  <2>1. k \in Records
    BY <1>4, SocketMapAssumption DEF Records
  <2>2. <<k, 0>> \in Conns
    BY <2>1, SocketMapAssumption DEF Conns
  <2>3. QED
    BY <1>0, <2>1, <2>2, Types
<1>7. TypeOK'
  BY <1>3, <1>4, <1>6 DEF IInv, TypeOK
<1>8. accepts[k] = 0
  BY <1>4, <1>6 DEF IInv, ProcessInv
<1>9. ASSUME NEW i \in 1 .. k PROVE FieldsInv(i)'
  <2>1. CASE i = k
    <3>1. \A j \in DOMAIN recs : OfRecord(k)' \cap OfRecord(j)' \subseteq {0, -1}
      BY <1>5
    <3>2. QED
      BY <1>2, <1>3, <1>4, <1>8, <2>1, <3>1 DEF FieldsInv
  <2>2. CASE i \in DOMAIN recs
    <3>1. FieldsInv(i)
      BY <2>2 DEF IInv
    <3>2. OfRecord(i)' \cap OfRecord(k)' \subseteq {0, -1}
      BY <1>5, <2>2
    <3>3. \A j \in (DOMAIN recs)' \ {i} : OfRecord(i)' \cap OfRecord(j)' \subseteq {0, -1}
      BY <1>4, <1>5, <2>2, <3>1, <3>2 DEF FieldsInv
    <3>4. recs'[i] = recs[i] /\ OfSocket(i)' = OfSocket(i)
      BY <1>5, <2>2
    <3>5. QED
      BY <3>1, <3>3, <3>4 DEF FieldsInv
  <2>3. QED
    BY <1>4, <2>1, <2>2
<1>10. ASSUME NEW i \in 1 .. k PROVE ObjectsInv(i)'
  <2>1. CASE i = k
    <3>1. handed'[pub] = <<k, 0>>
      BY <1>0, Types
    <3>2. fdt'[priv] = Obj("sock", <<k, 0>>) /\ fdt'[priv].kind = "sock"
      BY <1>0 DEF Obj
    <3>3. QED
      BY <1>2, <1>3, <2>1, <3>1, <3>2 DEF ObjectsInv
  <2>2. CASE i \in DOMAIN recs
    <3>1. \A n \in OfRecord(i) : n \in Fds => fdt'[n] = fdt[n] /\ handed'[n] = handed[n]
      BY <2>2, Types
    <3>2. QED
      BY <1>5, <2>2, <3>1, ObjectsSame
  <2>3. QED
    BY <1>4, <2>1, <2>2
<1>11. \A c \in Accepted : ThreadInv(c)'
  BY DEF IInv, ThreadInv, Recovering
<1>12. ASSUME NEW f \in Fds PROVE HandedInv(f)' /\ KnownInv(f)'
  <2>1. CASE f = pub
    <3>1. f = recs'[k].pub /\ handed'[f] = <<k, 0>> /\ f \in OfRecord(k)'
      BY <1>2, <1>3, <1>5, <1>0, <2>1, Types
    <3>2. k \in DOMAIN recs'
      BY <1>4
    <3>3. QED
      BY <3>1, <3>2 DEF HandedInv, KnownInv
  <2>2. CASE f # pub
    <3>1. handed'[f] = handed[f] /\ HandedInv(f) /\ KnownInv(f)
      BY <2>2, Types DEF IInv
    <3>2. HandedInv(f)'
      BY <1>4, <1>5, <3>1 DEF HandedInv
    <3>3. KnownInv(f)'
      <4>1. CASE f = priv
        BY <1>4, <1>5, <4>1 DEF KnownInv
      <4>2. CASE f # priv
        <5>1. fdt'[f] = fdt[f]
          BY <2>2, <4>2
        <5>2. QED
          BY <1>4, <1>5, <3>1, <5>1 DEF KnownInv
      <4>3. QED
        BY <4>1, <4>2
    <3>4. QED
      BY <3>2, <3>3
  <2>3. QED
    BY <2>1, <2>2
<1>13. ProcessInv'
  <2>1. /\ rip' # 0 => /\ proc'.role = "client" /\ ~ closing'
                      /\ rip' <= Len(recs') + 1 /\ ntentativi' < MAX_TENTATIVI
    BY <1>3, <1>4, <1>0, Types DEF IInv, ProcessInv
  <2>2. \A i \in Records \ DOMAIN recs' : closing' \/ accepts'[i] = 0
    BY <1>4 DEF IInv, ProcessInv
  <2>3. QED
    BY <2>1, <2>2 DEF ProcessInv
<1>14. QED
  BY <1>4, <1>7, <1>9, <1>10, <1>11, <1>12, <1>13 DEF IInv

-----------------------------------------------------------------------------
(***************************************************************************)
(* The calls that make a socket.                                           *)
(***************************************************************************)
\* What the guard of a call says.
LEMMA Called ==
    ASSUME IInv, OneSidedProcess, MayCall
    PROVE  rip = 0 /\ ~ closing /\ Recovering = {}
BY DEF MayCall, OneSidedProcess

LEMMA DenseOpened ==
    ASSUME NEW table \in [Fds -> Object], Dense(table), NEW n \in Fds, NEW o \in Object,
           o.kind # "free", \A f \in Fds : table[f].kind = "free" => n <= f
    PROVE  Dense([table EXCEPT ![n] = o])
<1> DEFINE t == [table EXCEPT ![n] = o]
<1> SUFFICES ASSUME NEW f \in Fds, NEW g \in Fds, f < g, t[g].kind # "free"
             PROVE  t[f].kind # "free"
  BY DEF Dense
<1>1. t[n].kind # "free" /\ \A x \in Fds : x # n => t[x] = table[x]
  OBVIOUS
<1>2. f \in Nat /\ g \in Nat /\ n \in Nat
  BY SocketMapAssumption DEF Fds
<1>3. CASE g = n
  <2>1. ~ (n <= f)
    BY <1>2, <1>3
  <2>2. table[f].kind # "free" /\ f # n
    BY <1>2, <1>3, <2>1
  <2>3. QED
    BY <1>1, <2>2
<1>4. CASE g # n
  <2>1. table[f].kind # "free"
    BY <1>1, <1>4 DEF Dense
  <2>2. QED
    BY <1>1, <2>1
<1>5. QED
  BY <1>3, <1>4

LEMMA SafeSocket ==
    ASSUME IInv, OneSidedProcess, Socket
    PROVE  IInv'
<1>0. PICK k \in Nat : k = Len(recs) + 1
  BY Types
<1>1. PICK n : n = NextFd(fdt)
  OBVIOUS
<1>2. rip = 0 /\ ~ closing /\ Recovering = {}
  BY Called DEF Socket
<1>3. /\ n \in Fds /\ n # -1 /\ \A f \in Fds : fdt[f].kind = "free" => n <= f
      /\ \A i \in DOMAIN recs : n \notin OfRecord(i)
  BY <1>1, <1>2, FreshNumber, Types
<1>4. /\ Len(recs) < proc.sockets /\ recs' = Append(recs, NewRecord(n, n, 0))
      /\ fdt' = Opened(fdt, Obj("sock", <<Len(recs) + 1, 0>>))
      /\ handed' = [handed EXCEPT ![n] = <<Len(recs) + 1, 0>>]
      /\ UNCHANGED <<proc, accepts, thread, rip, ris, ntentativi, closing>>
  BY <1>1 DEF Socket, socket_map_list_add_tail
<1>5. /\ fdt' = [fdt EXCEPT ![n] = Obj("sock", <<k, 0>>)] /\ fdt \in [Fds -> Object]
  BY <1>0, <1>1, <1>3, <1>4, Types DEF Opened
<1>6. Obj("sock", <<k, 0>>) \in Object /\ Obj("sock", <<k, 0>>).kind # "free"
  <2>1. k \in Records
    BY <1>0, <1>4, Types, SocketMapAssumption DEF Process, Records
  <2>2. <<k, 0>> \in Conns
    BY <2>1, SocketMapAssumption DEF Conns
  <2>3. QED
    BY <2>2 DEF Obj, Object, Kinds
<1>7. /\ fdt' \in [Fds -> Object] /\ fdt'[n] = Obj("sock", <<Len(recs) + 1, 0>>)
      /\ \A f \in Fds \ {n, n} : fdt'[f] = fdt[f]
  BY <1>0, <1>3, <1>5, <1>6
<1>8. proc.role = "client" => Dense(fdt')
  <2>1. proc.role = "client" => Dense(fdt)
    BY <1>2 DEF IInv, ProcessInv
  <2>2. QED
    BY <1>3, <1>5, <1>6, <2>1, DenseOpened
<1>9. /\ 0 \in {0, 1} /\ (0 = 0 <=> n = n) /\ (0 = 1 => fdt'[n] = Null)
      /\ \A j \in DOMAIN recs : n \notin OfRecord(j) /\ n \notin OfRecord(j)
  BY <1>3
<1>10. QED
  BY <1>2, <1>3, <1>4, <1>7, <1>8, <1>9, RecordAdded

LEMMA SafeTcpSocket ==
    ASSUME IInv, OneSidedProcess, TCP_Session_IPv4_Socket
    PROVE  IInv'
<1>0. PICK k \in Nat : k = Len(recs) + 1
  BY Types
<1>1. PICK n : n = NextFd(fdt)
  OBVIOUS
<1>2. rip = 0 /\ ~ closing /\ Recovering = {}
  BY Called DEF TCP_Session_IPv4_Socket
<1>3. /\ n \in Fds /\ n # -1 /\ \A f \in Fds : fdt[f].kind = "free" => n <= f
      /\ \A i \in DOMAIN recs : n \notin OfRecord(i)
  BY <1>1, <1>2, FreshNumber, Types
<1>4. PICK o \in Object : o = Obj("sock", <<k, 0>>) /\ o.kind = "sock"
  <2>1. k \in Records
    BY <1>0, Types, SocketMapAssumption DEF TCP_Session_IPv4_Socket, Process, Records
  <2>2. <<k, 0>> \in Conns
    BY <2>1, SocketMapAssumption DEF Conns
  <2>3. Obj("sock", <<k, 0>>) \in Object /\ Obj("sock", <<k, 0>>).kind = "sock"
    BY <2>2 DEF Obj, Object, Kinds
  <2>4. QED
    BY <2>3
<1>5. PICK with \in [Fds -> Object] : with = [fdt EXCEPT ![n] = o]
  BY Types
<1>6. with = Opened(fdt, Obj("sock", <<Len(recs) + 1, 0>>))
  BY <1>0, <1>1, <1>3, <1>4, <1>5 DEF Opened
<1>7. PICK pub : pub = NextFd(with)
  OBVIOUS
<1>8. /\ pub \in Fds /\ with[pub].kind = "free" /\ \A f \in Fds : with[f].kind = "free" => pub <= f
      /\ pub # n /\ \A i \in DOMAIN recs : pub \notin OfRecord(i)
  <2>1. <<k, "pub">> \in Slots /\ Field(<<k, "pub">>) = 0
    <3>1. k \in Records /\ k \notin DOMAIN recs
      BY <1>0, Types, SocketMapAssumption DEF TCP_Session_IPv4_Socket, Process, Records
    <3>2. QED
      BY <3>1 DEF Slots, Names, Field
  <2>2. /\ pub \in Fds /\ with[pub].kind = "free" /\ \A f \in Fds : with[f].kind = "free" => pub <= f
        /\ pub = n \/ \A i \in DOMAIN recs : pub \notin OfRecord(i)
    BY <1>2, <1>3, <1>5, <1>7, <2>1, SecondNumber
  <2>3. with[n].kind = "sock"
    BY <1>3, <1>4, <1>5, Types
  <2>4. QED
    BY <2>2, <2>3
<1>9. /\ fdt' = Opened(with, Null) /\ Len(recs) < proc.sockets
      /\ UNCHANGED <<proc, accepts, thread, rip, ris, ntentativi, closing>>
  BY <1>6 DEF TCP_Session_IPv4_Socket
<1>10. pub # -1
  BY <1>8, Types
<1>11. /\ recs' = Append(recs, NewRecord(pub, n, 1))
       /\ handed' = [handed EXCEPT ![pub] = <<Len(recs) + 1, 0>>]
  BY <1>1, <1>6, <1>7, <1>10 DEF TCP_Session_IPv4_Socket, Reserved, socket_map_list_add_tail
<1>12. fdt' = [with EXCEPT ![pub] = Null]
  BY <1>7, <1>9, <1>10 DEF Opened
<1>13. Null \in Object /\ Null.kind = "null"
  BY DEF Null, Object, Kinds
<1>14. /\ fdt' \in [Fds -> Object] /\ fdt'[n] = Obj("sock", <<Len(recs) + 1, 0>>) /\ fdt'[pub] = Null
       /\ \A f \in Fds \ {pub, n} : fdt'[f] = fdt[f]
  BY <1>0, <1>3, <1>4, <1>5, <1>8, <1>12, <1>13, Types
<1>15. proc.role = "client" => Dense(fdt')
  <2>1. proc.role = "client" => Dense(fdt)
    BY <1>2 DEF IInv, ProcessInv
  <2>2. proc.role = "client" => Dense(with)
    BY <1>3, <1>4, <1>5, <2>1, Types, DenseOpened
  <2>3. QED
    BY <1>8, <1>12, <1>13, <2>2, DenseOpened
<1>16. /\ 1 \in {0, 1} /\ (1 = 0 <=> pub = n) /\ (1 = 1 => fdt'[pub] = Null)
       /\ \A j \in DOMAIN recs : pub \notin OfRecord(j) /\ n \notin OfRecord(j)
  BY <1>3, <1>8, <1>14
<1>17. QED
  BY <1>2, <1>3, <1>8, <1>9, <1>11, <1>14, <1>15, <1>16, RecordAdded

-----------------------------------------------------------------------------
(***************************************************************************)
(* What a descriptor that was handed out stands for.                       *)
(***************************************************************************)
LEMMA NotPublic == \A i \in Records : <<i, 0>> # NoConn /\ <<i, 1>> # NoConn
BY SocketMapAssumption DEF Records, NoConn

LEMMA OwnNumber ==
    ASSUME IInv, NEW i \in DOMAIN recs
    PROVE  /\ recs[i].pub \in Fds /\ recs[i].priv \in Fds
           /\ get_connection(recs[i].priv) = i /\ get_real_fd(recs[i].priv) = recs[i].priv
           /\ get_real_fd(recs[i].pub) = recs[i].priv
<1>1. recs[i].pub \in Fds /\ recs[i].priv \in Fds
  BY DEF IInv, FieldsInv
<1>2. recs[i].pub \in OfSocket(i) /\ recs[i].priv \in OfSocket(i)
  BY DEF OfSocket
<1>3. recs[i].pub \in OfRecord(i) /\ recs[i].priv \in OfRecord(i)
  BY <1>2 DEF OfRecord
<1>4. QED
  BY <1>1, <1>2, <1>3, Lookup

LEMMA AcceptedNumber ==
    ASSUME IInv, NEW i \in DOMAIN recs, recs[i].apub # 0
    PROVE  /\ recs[i].apub \in Fds /\ recs[i].apriv \in Fds \cup {-1} /\ <<i, 1>> \in Accepted
           /\ recs[i].apub \notin OfSocket(i) /\ recs[i].apriv \notin OfSocket(i)
           /\ recs[i].apub # recs[i].apriv /\ (recs[i].apriv = -1 => proc.errors)
           /\ get_real_fd(recs[i].apub) = recs[i].apriv
           /\ recs[i].apriv # -1 => /\ get_connection(recs[i].apriv) = i
                                    /\ get_real_fd(recs[i].apriv) = recs[i].apriv
<1>1. FieldsInv(i) /\ recs[i].apriv \in Fds \cup {0, -1}
  BY Types DEF IInv, Record, Number
<1>2. /\ recs[i].apub \in Fds /\ recs[i].apriv \in Fds \cup {-1}
      /\ recs[i].apub \notin OfSocket(i) /\ recs[i].apriv \notin OfSocket(i)
      /\ recs[i].apub # recs[i].apriv /\ (recs[i].apriv = -1 => proc.errors)
  BY <1>1 DEF FieldsInv
<1>3. <<i, 1>> \in Accepted
  <2>1. accepts[i] = 1 /\ i \in Records
    BY <1>1, Types DEF FieldsInv
  <2>2. 1 \in 0 .. MaxAccepts
    BY <2>1, Types
  <2>3. QED
    BY <2>1, <2>2 DEF Accepted, Conns
<1>4. recs[i].apub \in OfRecord(i) /\ recs[i].apriv \in OfRecord(i)
  BY DEF OfRecord
<1>5. QED
  BY <1>2, <1>3, <1>4, Lookup

\* The record of a descriptor that was handed out, and which one it is of its two.
IsSocketOf(fd, i) == i \in DOMAIN recs /\ fd = recs[i].pub /\ handed[fd] = <<i, 0>>
IsAcceptedOf(fd, i) ==
    i \in DOMAIN recs /\ recs[i].apub # 0 /\ fd = recs[i].apub /\ handed[fd] = <<i, 1>>

LEMMA PublicIs ==
    ASSUME IInv, NEW fd \in Fds, handed[fd] # NoConn
    PROVE  \E i \in DOMAIN recs : IsSocketOf(fd, i) \/ IsAcceptedOf(fd, i)
BY DEF IInv, HandedInv, IsSocketOf, IsAcceptedOf

\* What has the number of a connection: its socket, which is open.
LEMMA SocketIs ==
    ASSUME IInv, NEW fd, NEW i, IsSocketOf(fd, i)
    PROVE  /\ i \in DOMAIN recs /\ i \in Records /\ fd = recs[i].pub /\ handed[fd] = <<i, 0>>
           /\ get_real_fd(fd) = recs[i].priv /\ recs[i].priv \in Fds
           /\ get_connection(recs[i].priv) = i
           /\ fdt[recs[i].priv] \in {Obj("sock", <<i, 0>>), Obj("listen", <<i, 0>>)}
<1>1. i \in DOMAIN recs /\ fd = recs[i].pub /\ handed[fd] = <<i, 0>>
  BY DEF IsSocketOf
<1>2. fdt[recs[i].priv] \in {Obj("sock", <<i, 0>>), Obj("listen", <<i, 0>>)}
  BY <1>1 DEF IInv, ObjectsInv
<1>3. QED
  BY <1>1, <1>2, OwnNumber, Types

\* A descriptor behind which there is a socket that was not accepted.
LEMMA NotAccepted ==
    ASSUME IInv, NEW fd \in Fds, handed[fd] # NoConn, get_real_fd(fd) # -1,
           fdt[get_real_fd(fd)].kind \in {"sock", "listen"}
    PROVE  \E i \in DOMAIN recs : IsSocketOf(fd, i)
<1>1. PICK i \in DOMAIN recs : IsSocketOf(fd, i) \/ IsAcceptedOf(fd, i)
  BY PublicIs
<1>2. ASSUME IsAcceptedOf(fd, i) PROVE FALSE
  <2>1. recs[i].apub # 0 /\ get_real_fd(fd) = recs[i].apriv
    BY <1>2, AcceptedNumber DEF IsAcceptedOf
  <2>2. fdt[recs[i].apriv] \in {Obj("acc", <<i, 1>>), Free}
    BY <2>1 DEF IInv, ObjectsInv
  <2>3. fdt[recs[i].apriv].kind \in {"acc", "free"}
    BY <2>2 DEF Obj, Free
  <2>4. QED
    BY <2>1, <2>3
<1>3. QED
  BY <1>1, <1>2

\* The descriptors of a client are those of its sockets, and it has no threads
\* in ReAccept.
LEMMA ClientHas ==
    ASSUME IInv, proc.role = "client"
    PROVE  /\ Recovering = {}
           /\ \A fd \in Fds : handed[fd] # NoConn => \E i \in DOMAIN recs : IsSocketOf(fd, i)
<1>1. \A i \in DOMAIN recs : recs[i].apub = 0
  BY DEF IInv, FieldsInv
<1>2. ASSUME NEW c \in Accepted, thread[c].at # "run" PROVE FALSE
  BY <1>1, <1>2 DEF IInv, ThreadInv
<1>3. QED
  BY <1>1, <1>2, PublicIs DEF Recovering, IsAcceptedOf

\* When a step touches the numbers of one record, or a number no record has, the
\* objects of the other records are as they were.
LEMMA OthersSame ==
    ASSUME IInv, NEW i \in DOMAIN recs, proc' = proc, closing => closing',
           \A f \in Fds : f \notin OfRecord(i) /\ (\E j \in DOMAIN recs : f \in OfRecord(j)) =>
               fdt'[f] = fdt[f] /\ handed'[f] = handed[f],
           NEW j \in DOMAIN recs, j # i, recs'[j] = recs[j],
           (thread'[<<j, 1>>].at = "set") <=> (thread[<<j, 1>>].at = "set")
    PROVE  ObjectsInv(j)'
<1>1. \A n \in OfRecord(j) : n \in Fds => n \notin OfRecord(i)
  BY Lookup
<1>2. \A n \in OfRecord(j) : n \in Fds => fdt'[n] = fdt[n] /\ handed'[n] = handed[n]
  BY <1>1
<1>3. QED
  BY <1>2, ObjectsSame

-----------------------------------------------------------------------------
(***************************************************************************)
(* Ripristino of the client changes no number and no object.               *)
(***************************************************************************)
LEMMA SafeQuiet ==
    ASSUME IInv, SameFields, recs' \in Seq(Record), Len(recs') = Len(recs),
           UNCHANGED <<proc, fdt, handed, accepts, thread, closing>>,
           rip' \in Nat, rip' <= Len(recs) + 1, ris' \in {0, -1}, ntentativi' \in 0 .. MAX_TENTATIVI,
           rip' # 0 => proc.role = "client" /\ ~ closing /\ ntentativi' < MAX_TENTATIVI
    PROVE  IInv'
<1>1. DOMAIN recs' = DOMAIN recs
  BY DEF SameFields
<1>2. rip' \in 0 .. (MaxRecords + 1)
  <2>1. Len(recs) \in Nat /\ Len(recs) <= MaxRecords
    BY Types
  <2>2. QED
    BY <2>1, SocketMapAssumption
<1>3. TypeOK'
  BY <1>2 DEF IInv, TypeOK
<1>4. ASSUME NEW i \in DOMAIN recs PROVE FieldsInv(i)' /\ ObjectsInv(i)'
  BY FieldsSame, ObjectsSame DEF SameFields
<1>5. \A j \in DOMAIN recs : OfRecord(j)' = OfRecord(j) /\ OfSocket(j)' = OfSocket(j)
  BY DEF SameFields, OfRecord, OfSocket
<1>6. ASSUME NEW c \in Accepted PROVE ThreadInv(c)'
  <2>1. ThreadInv(c)
    BY DEF IInv
  <2>2. CASE thread[c].at = "run"
    BY <2>1, <2>2 DEF ThreadInv
  <2>3. CASE thread[c].at # "run"
    <3>1. c[1] \in DOMAIN recs
      BY <2>1, <2>3 DEF ThreadInv
    <3>2. recs'[c[1]].apub = recs[c[1]].apub /\ recs'[c[1]].apriv = recs[c[1]].apriv
      BY <3>1 DEF SameFields
    <3>3. QED
      BY <1>1, <1>5, <2>1, <2>3, <3>1, <3>2 DEF ThreadInv
  <2>4. QED
    BY <2>2, <2>3
<1>7. ASSUME NEW f \in Fds PROVE HandedInv(f)' /\ KnownInv(f)'
  <2>1. HandedInv(f) /\ KnownInv(f)
    BY DEF IInv
  <2>2. HandedInv(f)'
    BY <1>1, <2>1 DEF HandedInv, SameFields
  <2>3. recs = <<>> => recs' = <<>>
    BY Types
  <2>4. KnownInv(f)'
    BY <1>1, <1>5, <2>1, <2>3 DEF KnownInv
  <2>5. QED
    BY <2>2, <2>4
<1>8. ProcessInv'
  BY <1>1 DEF IInv, ProcessInv
<1>9. QED
  BY <1>1, <1>3, <1>4, <1>6, <1>7, <1>8 DEF IInv

LEMMA ListSame ==
    ASSUME IInv, UNCHANGED recs
    PROVE  SameFields /\ recs' \in Seq(Record) /\ Len(recs') = Len(recs)
BY Types DEF SameFields

LEMMA SafeConnect ==
    ASSUME IInv, OneSidedProcess, NEW fd \in Fds, Connect(fd)
    PROVE  IInv'
<1>1. /\ rip = 0 /\ ~ closing /\ Recovering = {}
      /\ UNCHANGED <<proc, fdt, handed, accepts, thread, closing>>
  BY Called DEF Connect
<1>2. proc.role = "client"
  <2>1. proc.role \in {"client", "server", "both"}
    BY Types DEF Process
  <2>2. QED
    BY <2>1, Types DEF Connect, OneSidedProcess
<1>3. PICK i \in DOMAIN recs : IsSocketOf(fd, i)
  BY <1>2, ClientHas DEF Connect, Public
<1>4. get_connection(get_real_fd(fd)) = i
  BY <1>3, SocketIs
<1>5. recs' = [recs EXCEPT ![i].dim_info = 1]
  BY <1>4 DEF Connect, set_connect_info
<1>6. recs' \in Seq(Record) /\ Len(recs') = Len(recs) /\ SameFields
  <2>1. recs \in Seq(Record) /\ recs[i] \in Record /\ DOMAIN recs = 1 .. Len(recs)
    BY Types
  <2> DEFINE r == [recs[i] EXCEPT !.dim_info = 1]
  <2>2. /\ r \in Record
        /\ r.pub = recs[i].pub /\ r.priv = recs[i].priv /\ r.apub = recs[i].apub
        /\ r.apriv = recs[i].apriv /\ r.type = recs[i].type
    BY <2>1 DEF Record
  <2>3. recs' = [recs EXCEPT ![i] = r]
    BY <1>5
  <2> HIDE DEF r
  <2>4. /\ recs' \in Seq(Record) /\ Len(recs') = Len(recs)
        /\ \A j \in 1 .. Len(recs) : recs'[j] = IF j = i THEN r ELSE recs[j]
    <3>1. i \in 1 .. Len(recs)
      BY <2>1
    <3>2. QED
      BY <2>1, <2>2, <2>3, <3>1, ExceptSeq
  <2>5. DOMAIN recs' = DOMAIN recs
    BY <2>1, <2>3
  <2>6. QED
    BY <2>1, <2>2, <2>4, <2>5 DEF SameFields
<1>7. /\ rip' \in Nat /\ rip' <= Len(recs) + 1 /\ ris' \in {0, -1} /\ ntentativi' \in 0 .. MAX_TENTATIVI
      /\ rip' # 0 => ntentativi' < MAX_TENTATIVI
  BY <1>1, Types, SocketMapAssumption DEF Connect, BeginRipristino
<1>8. QED
  BY <1>1, <1>2, <1>6, <1>7, SafeQuiet

LEMMA SafeFall ==
    ASSUME IInv, OneSidedProcess, NEW fd \in Fds, Fall(fd)
    PROVE  IInv'
<1>1. ~ closing /\ UNCHANGED <<proc, recs, fdt, handed, accepts, thread, closing>>
  BY Called DEF Fall
<1>2. proc.role = "client"
  <2>1. proc.role \in {"client", "server", "both"}
    BY Types DEF Process
  <2>2. QED
    BY <2>1, Types DEF Fall, OneSidedProcess
<1>3. /\ rip' \in Nat /\ rip' <= Len(recs) + 1 /\ ris' \in {0, -1} /\ ntentativi' \in 0 .. MAX_TENTATIVI
      /\ ntentativi' < MAX_TENTATIVI
  BY Types, SocketMapAssumption DEF Fall, BeginRipristino
<1>4. QED
  BY <1>1, <1>2, <1>3, ListSame, SafeQuiet

LEMMA SafeEndOfPass ==
    ASSUME IInv, EndOfPass
    PROVE  IInv'
<1>1. /\ rip = Len(recs) + 1 /\ UNCHANGED <<proc, recs, fdt, handed, accepts, thread, closing>>
      /\ Len(recs) \in Nat /\ ntentativi \in 0 .. MAX_TENTATIVI /\ ris \in {0, -1}
  BY Types DEF EndOfPass
<1>2. proc.role = "client" /\ ~ closing /\ ntentativi < MAX_TENTATIVI
  BY <1>1 DEF IInv, ProcessInv
<1>3. /\ rip' \in {0, 1} /\ ris' \in {0, -1} /\ ntentativi' \in 0 .. MAX_TENTATIVI
      /\ rip' # 0 => ntentativi' < MAX_TENTATIVI
  <2>1. ntentativi' \in 0 .. MAX_TENTATIVI
    BY <1>1, <1>2, SocketMapAssumption DEF EndOfPass
  <2>2. rip' \in {0, 1} /\ (rip' # 0 => ntentativi' # MAX_TENTATIVI)
    BY DEF EndOfPass
  <2>3. ris' \in {0, -1}
    BY <1>1 DEF EndOfPass
  <2>4. QED
    BY <2>1, <2>2, <2>3, SocketMapAssumption
<1>4. rip' \in Nat /\ rip' <= Len(recs) + 1
  BY <1>1, <1>3
<1>5. QED
  BY <1>1, <1>2, <1>3, <1>4, ListSame, SafeQuiet

\* A number that is freed among dense ones is the next one given.
LEMMA SameAgain ==
    ASSUME NEW table \in [Fds -> Object], Dense(table), NEW n \in Fds, table[n].kind # "free"
    PROVE  NextFd(closed(table, n)) = n
<1> DEFINE t == closed(table, n)
           F == {f \in Fds : t[f].kind = "free"}
<1>1. t[n].kind = "free" /\ \A f \in Fds : f # n => t[f] = table[f]
  BY DEF closed, Free
<1>2. F \in SUBSET Nat /\ n \in F
  BY <1>1, SocketMapAssumption DEF Fds
<1>3. Min(F) \in F /\ Min(F) <= n
  BY <1>2, LeastNumber
<1>4. Min(F) \in Fds /\ t[Min(F)].kind = "free" /\ Min(F) \in Nat /\ n \in Nat
  BY <1>2, <1>3
<1>5. Min(F) = n
  <2> SUFFICES ASSUME Min(F) # n PROVE FALSE
    OBVIOUS
  <2>1. Min(F) < n /\ table[Min(F)].kind = "free"
    BY <1>1, <1>3, <1>4
  <2>2. QED
    BY <1>4, <2>1 DEF Dense
<1>6. NextFd(t) = Min(F)
  BY <1>2 DEF NextFd
<1>7. QED
  BY <1>5, <1>6

LEMMA PassSame ==
    ASSUME IInv, Pass
    PROVE  /\ SameFields /\ fdt' = fdt /\ recs' \in Seq(Record) /\ Len(recs') = Len(recs)
           /\ proc.role = "client" /\ ~ closing /\ ris' \in {0, -1}
<1>1. /\ rip \in DOMAIN recs /\ rip # 0
      /\ proc.role = "client" /\ ~ closing /\ ris \in {0, -1}
  BY Types DEF Pass, IInv, ProcessInv
<1>2. PICK i \in DOMAIN recs : i = rip
  BY <1>1
<1>3. CASE UNCHANGED <<recs, fdt, ris>>
  BY <1>1, <1>3, ListSame
<1>4. CASE ReConnect(i)
  <2>1. PICK n \in Fds : n = recs[i].priv /\ get_real_fd(recs[i].priv) = n
    BY OwnNumber
  <2>2. /\ handed[recs[i].pub] = <<i, 0>>
        /\ fdt[n] = Obj("sock", <<i, 0>>)
    <3>1. ObjectsInv(i)
      BY DEF IInv
    <3>2. handed[recs[i].pub] = <<i, 0>> /\ fdt[n] \in {Obj("sock", <<i, 0>>), Obj("listen", <<i, 0>>)}
          /\ fdt[n].kind # "listen"
      BY <1>1, <2>1, <3>1 DEF ObjectsInv
    <3>3. QED
      BY <3>2 DEF Obj
  <2>3. fdt \in [Fds -> Object] /\ Dense(fdt) /\ fdt[n].kind # "free"
    BY <1>1, <2>2, Types DEF IInv, ProcessInv, Obj
  <2>4. NextFd(closed(fdt, n)) = n
    BY <2>3, SameAgain
  <2>5. n # -1
    BY Types
  <2>6. /\ fdt' = [closed(fdt, n) EXCEPT ![n] = Obj("sock", <<i, 0>>)]
        /\ recs' = [recs EXCEPT ![i].priv = n]
    BY <1>4, <2>1, <2>4, <2>5 DEF ReConnect, Opened, set_connect_fd
  <2>7. fdt' = fdt
    <3>1. fdt' \in [Fds -> Object]
      BY <2>2, <2>3, <2>6 DEF closed
    <3>2. \A f \in Fds : fdt'[f] = fdt[f]
      BY <2>2, <2>6 DEF closed
    <3>3. QED
      BY <2>3, <2>6, <3>2 DEF closed
  <2>8. recs' = recs
    <3>1. recs \in Seq(Record) /\ recs[i] \in Record
      BY Types
    <3>2. [recs[i] EXCEPT !.priv = n] = recs[i]
      BY <2>1, <3>1 DEF Record
    <3>3. recs' = [recs EXCEPT ![i] = [recs[i] EXCEPT !.priv = n]]
      BY <2>6
    <3>4. recs' = [recs EXCEPT ![i] = recs[i]]
      BY <3>2, <3>3
    <3>5. QED
      BY <3>1, <3>4
  <2>9. ris' \in {0, -1}
    BY <1>1, <1>4 DEF ReConnect
  <2>10. QED
    BY <1>1, <2>7, <2>8, <2>9, ListSame
<1>5. QED
  BY <1>2, <1>3, <1>4 DEF Pass

LEMMA SafePass ==
    ASSUME IInv, Pass
    PROVE  IInv'
<1>1. /\ SameFields /\ fdt' = fdt /\ recs' \in Seq(Record) /\ Len(recs') = Len(recs)
      /\ proc.role = "client" /\ ~ closing /\ ris' \in {0, -1}
  BY PassSame
<1>2. /\ UNCHANGED <<proc, handed, accepts, thread, ntentativi, closing>> /\ rip' = rip + 1
      /\ rip \in 1 .. Len(recs) /\ Len(recs) \in Nat
  BY Types DEF Pass
<1>3. ntentativi \in 0 .. MAX_TENTATIVI /\ ntentativi < MAX_TENTATIVI
  BY <1>2, Types DEF IInv, ProcessInv
<1>4. rip' \in Nat /\ rip' <= Len(recs) + 1
  BY <1>2
<1>5. QED
  BY <1>1, <1>2, <1>3, <1>4, SafeQuiet

-----------------------------------------------------------------------------
(***************************************************************************)
(* The calls that change the object of a record: Listen, Close, CloseWait. *)
(***************************************************************************)
LEMMA OneRecord ==
    ASSUME IInv, rip = 0, Recovering = {}, NEW i \in DOMAIN recs, ObjectsInv(i)',
           UNCHANGED <<proc, recs, accepts, thread, rip, ris, ntentativi>>,
           fdt' \in [Fds -> Object], handed' \in [Fds -> Conns \cup {NoConn}], closing' \in BOOLEAN,
           closing => closing', proc.role = "client" => closing',
           \A f \in Fds : f \notin OfRecord(i) => fdt'[f] = fdt[f] /\ handed'[f] = handed[f],
           \A f \in Fds : /\ fdt'[f].kind # "free" => fdt[f].kind # "free"
                          /\ handed'[f] \in {handed[f], NoConn}
    PROVE  IInv'
<1>1. TypeOK'
  BY DEF IInv, TypeOK
<1>2. ASSUME NEW j \in DOMAIN recs PROVE FieldsInv(j)' /\ ObjectsInv(j)'
  <2>1. FieldsInv(j)'
    BY ListSame, FieldsSame
  <2>2. ObjectsInv(j)'
    BY OthersSame
  <2>3. QED
    BY <2>1, <2>2
<1>3. ASSUME NEW c \in Accepted PROVE ThreadInv(c)'
  BY DEF IInv, ThreadInv, Recovering
<1>4. ASSUME NEW f \in Fds PROVE HandedInv(f)' /\ KnownInv(f)'
  <2>1. HandedInv(f) /\ KnownInv(f)
    BY DEF IInv
  <2>2. HandedInv(f)'
    BY <2>1 DEF HandedInv
  <2>3. recs # <<>>
    BY Types
  <2>4. KnownInv(f)'
    BY <2>1, <2>3 DEF KnownInv, OfRecord, OfSocket
  <2>5. QED
    BY <2>2, <2>4
<1>5. ProcessInv'
  BY DEF IInv, ProcessInv
<1>6. QED
  BY <1>1, <1>2, <1>3, <1>4, <1>5 DEF IInv

LEMMA SafeListen ==
    ASSUME IInv, OneSidedProcess, NEW fd \in Fds, Listen(fd)
    PROVE  IInv'
<1>1. /\ rip = 0 /\ ~ closing /\ Recovering = {} /\ proc.role # "client"
      /\ UNCHANGED <<proc, recs, handed, accepts, thread, rip, ris, ntentativi, closing>>
  BY Called DEF Listen
<1>2. PICK i \in DOMAIN recs : IsSocketOf(fd, i)
  BY NotAccepted DEF Listen, Public
<1>3. PICK s \in Fds : s = recs[i].priv /\ get_real_fd(fd) = s /\ s \in OfRecord(i)
  BY <1>2, SocketIs DEF OfRecord, OfSocket
<1>4. /\ handed[recs[i].pub] = <<i, 0>> /\ fdt[s] = Obj("sock", <<i, 0>>) /\ fdt[s].kind = "sock"
  <2>1. fdt[s] \in {Obj("sock", <<i, 0>>), Obj("listen", <<i, 0>>)} /\ fdt[s].kind = "sock"
    BY <1>2, <1>3, SocketIs DEF Listen
  <2>2. QED
    BY <1>2, <2>1 DEF Obj, IsSocketOf
<1>5. PICK o \in Object : o = Obj("listen", <<i, 0>>) /\ o.kind = "listen"
  <2>1. i \in Records
    BY Types
  <2>2. <<i, 0>> \in Conns
    BY <2>1, SocketMapAssumption DEF Conns
  <2>3. Obj("listen", <<i, 0>>) \in Object /\ Obj("listen", <<i, 0>>).kind = "listen"
    BY <2>2 DEF Obj, Object, Kinds
  <2>4. QED
    BY <2>3
<1>6. fdt' = [fdt EXCEPT ![s] = o]
  <2>1. fdt' = [fdt EXCEPT ![s] = [fdt[s] EXCEPT !.kind = "listen"]]
    BY <1>3 DEF Listen
  <2>2. [fdt[s] EXCEPT !.kind = "listen"] = o
    BY <1>4, <1>5 DEF Obj
  <2>3. QED
    BY <2>1, <2>2
<1>7. /\ fdt' \in [Fds -> Object] /\ fdt'[s] = o
      /\ \A f \in Fds : f # s => fdt'[f] = fdt[f]
  BY <1>3, <1>6, Types
<1>8. ObjectsInv(i)'
  <2>1. FieldsInv(i) /\ ObjectsInv(i)
    BY DEF IInv
  <2>2. ASSUME recs[i].type = 1 PROVE fdt'[recs[i].pub] = Null
    <3>1. recs[i].pub # s /\ recs[i].pub \in Fds /\ fdt[recs[i].pub] = Null
      BY <1>3, <2>1, <2>2 DEF FieldsInv, ObjectsInv
    <3>2. QED
      BY <1>7, <3>1
  <2>3. ASSUME recs[i].apub # 0
        PROVE  /\ fdt'[recs[i].apub] = fdt[recs[i].apub]
               /\ recs[i].apriv # -1 => fdt'[recs[i].apriv] = fdt[recs[i].apriv]
    <3>1. /\ recs[i].apub \in Fds /\ recs[i].apriv \in Fds \cup {-1}
          /\ recs[i].apub # s /\ recs[i].apriv # s
      BY <1>3, <2>3, AcceptedNumber DEF OfSocket
    <3>2. QED
      BY <1>7, <3>1
  <2>4. QED
    BY <1>1, <1>3, <1>4, <1>5, <1>7, <2>1, <2>2, <2>3 DEF ObjectsInv
<1>9. /\ \A f \in Fds : f \notin OfRecord(i) => fdt'[f] = fdt[f] /\ handed'[f] = handed[f]
      /\ \A f \in Fds : /\ fdt'[f].kind # "free" => fdt[f].kind # "free"
                        /\ handed'[f] \in {handed[f], NoConn}
  BY <1>1, <1>3, <1>4, <1>7
<1>10. handed' \in [Fds -> Conns \cup {NoConn}] /\ closing' \in BOOLEAN
       /\ (closing => closing') /\ (proc.role = "client" => closing')
  BY <1>1, Types
<1>11. QED
  BY <1>1, <1>7, <1>8, <1>9, <1>10, OneRecord

\* A descriptor that was handed out is given back, and what it stands for freed.
LEMMA GivenBack ==
    ASSUME IInv, OneSidedProcess, NEW fd \in Fds, handed[fd] # NoConn, rip = 0, Recovering = {},
           fdt' = closed(fdt, get_real_fd(fd)), handed' = [handed EXCEPT ![fd] = NoConn], closing' = TRUE,
           UNCHANGED <<proc, recs, accepts, thread, rip, ris, ntentativi>>
    PROVE  IInv'
<1>1. PICK i \in DOMAIN recs : IsSocketOf(fd, i) \/ IsAcceptedOf(fd, i)
  BY PublicIs
<1>2. PICK s : s = get_real_fd(fd) /\ s \in OfRecord(i) /\ s \in Fds \cup {-1}
  <2>1. recs[i].priv \in OfRecord(i) /\ recs[i].apriv \in OfRecord(i)
    BY DEF OfRecord, OfSocket
  <2>2. IsSocketOf(fd, i) => get_real_fd(fd) = recs[i].priv /\ recs[i].priv \in Fds
    BY SocketIs
  <2>3. IsAcceptedOf(fd, i) => get_real_fd(fd) = recs[i].apriv /\ recs[i].apriv \in Fds \cup {-1}
    BY AcceptedNumber DEF IsAcceptedOf
  <2>4. QED
    BY <1>1, <2>1, <2>2, <2>3
<1>3. /\ fdt' \in [Fds -> Object] /\ \A f \in Fds : fdt'[f] = IF f = s THEN Free ELSE fdt[f]
  <2>1. Free \in Object
    BY DEF Free, Object, Kinds
  <2>2. QED
    BY <1>2, <2>1, Types DEF closed
<1>4. /\ handed' \in [Fds -> Conns \cup {NoConn}]
      /\ \A f \in Fds : handed'[f] = IF f = fd THEN NoConn ELSE handed[f]
  BY Types
<1>5. FieldsInv(i) /\ ObjectsInv(i) /\ NoConn # <<i, 0>> /\ NoConn # <<i, 1>>
  BY Types, NotPublic DEF IInv
<1>6. /\ recs'[i] = recs[i] /\ recs[i].pub \in Fds /\ recs[i].priv \in Fds
      /\ recs[i].type = 1 => recs[i].pub # recs[i].priv
      /\ recs[i].apub # 0 => /\ recs[i].apub \in Fds /\ recs[i].apriv \in Fds \cup {-1}
                             /\ recs[i].apub # recs[i].pub /\ recs[i].apub # recs[i].priv
                             /\ recs[i].apriv # recs[i].pub /\ recs[i].apriv # recs[i].priv
                             /\ recs[i].apub # recs[i].apriv
  <2>1. /\ recs'[i] = recs[i] /\ recs[i].pub \in Fds /\ recs[i].priv \in Fds
        /\ recs[i].type = 1 => recs[i].pub # recs[i].priv
    BY <1>5 DEF FieldsInv
  <2>2. recs[i].apub # 0 => /\ recs[i].apub \in Fds /\ recs[i].apriv \in Fds \cup {-1}
                            /\ recs[i].apub # recs[i].apriv
                            /\ recs[i].apub \notin OfSocket(i) /\ recs[i].apriv \notin OfSocket(i)
    BY <1>5, AcceptedNumber DEF FieldsInv
  <2>3. QED
    BY <2>1, <2>2 DEF OfSocket
<1>7. Free.kind = "free"
  BY DEF Free
<1>8. ObjectsInv(i)'
  <2>1. CASE IsSocketOf(fd, i)
    <3>1. s = recs[i].priv /\ fd = recs[i].pub
      BY <1>2, <2>1, SocketIs
    <3>2. fdt'[recs[i].priv] = Free /\ handed'[recs[i].pub] = NoConn
      BY <1>3, <1>4, <1>6, <3>1
    <3>3. recs[i].type = 1 => fdt'[recs[i].pub] = Null
      BY <1>3, <1>5, <1>6, <3>1 DEF ObjectsInv
    <3>4. recs[i].apub # 0 => /\ fdt'[recs[i].apub] = fdt[recs[i].apub]
                              /\ handed'[recs[i].apub] = handed[recs[i].apub]
                              /\ recs[i].apriv # -1 => fdt'[recs[i].apriv] = fdt[recs[i].apriv]
      BY <1>3, <1>4, <1>6, <3>1
    <3>5. QED
      BY <1>5, <1>6, <1>7, <3>2, <3>3, <3>4 DEF ObjectsInv
  <2>2. CASE IsAcceptedOf(fd, i)
    <3>1. recs[i].apub # 0 /\ s = recs[i].apriv /\ fd = recs[i].apub
      BY <1>2, <2>2, AcceptedNumber DEF IsAcceptedOf
    <3>2. /\ fdt'[recs[i].priv] = fdt[recs[i].priv] /\ handed'[recs[i].pub] = handed[recs[i].pub]
          /\ fdt'[recs[i].pub] = fdt[recs[i].pub] /\ fdt'[recs[i].apub] = fdt[recs[i].apub]
          /\ handed'[recs[i].apub] = NoConn
          /\ recs[i].apriv # -1 => fdt'[recs[i].apriv] = Free
      BY <1>3, <1>4, <1>6, <3>1
    <3>3. QED
      BY <1>5, <1>6, <3>1, <3>2 DEF ObjectsInv
  <2>3. QED
    BY <1>1, <2>1, <2>2
<1>9. fd \in OfRecord(i)
  BY <1>1 DEF IsSocketOf, IsAcceptedOf, OfRecord, OfSocket
<1>10. /\ \A f \in Fds : f \notin OfRecord(i) => fdt'[f] = fdt[f] /\ handed'[f] = handed[f]
       /\ \A f \in Fds : /\ fdt'[f].kind # "free" => fdt[f].kind # "free"
                         /\ handed'[f] \in {handed[f], NoConn}
  BY <1>2, <1>3, <1>4, <1>7, <1>9
<1>11. closing' \in BOOLEAN /\ (closing => closing') /\ (proc.role = "client" => closing')
  OBVIOUS
<1>12. QED
  BY <1>3, <1>4, <1>8, <1>10, <1>11, OneRecord

LEMMA SafeClose ==
    ASSUME IInv, OneSidedProcess, NEW fd \in Fds, Close(fd)
    PROVE  IInv'
BY GivenBack DEF Close, Public, OneSidedProcess

\* CloseWait closes something only on a plain socket, whose numbers are the same.
LEMMA SafeCloseWait ==
    ASSUME IInv, OneSidedProcess, NEW fd \in Fds, CloseWait(fd)
    PROVE  IInv'
<1>1. PICK i \in DOMAIN recs : IsSocketOf(fd, i) \/ IsAcceptedOf(fd, i)
  BY PublicIs DEF CloseWait, Public
<1>2. FieldsInv(i) /\ ObjectsInv(i) /\ fdt[fd].kind # "null" /\ recs[i].type \in {0, 1}
  BY Types DEF IInv, CloseWait, Record
<1>3. IsSocketOf(fd, i)
  BY <1>1, <1>2 DEF IsAcceptedOf, ObjectsInv, Null
<1>4. fd = recs[i].pub
  BY <1>3 DEF IsSocketOf
<1>5. recs[i].type # 1
  BY <1>2, <1>4 DEF ObjectsInv, Null
<1>6. get_real_fd(fd) = fd
  <2>1. recs[i].priv = fd
    BY <1>2, <1>4, <1>5 DEF FieldsInv
  <2>2. QED
    BY <1>3, <2>1, SocketIs
<1>7. QED
  BY <1>6, GivenBack DEF CloseWait, Public, OneSidedProcess

LEMMA SafeFreeAll ==
    ASSUME IInv, free_all_connection
    PROVE  IInv'
<1>1. /\ closing /\ rip = 0 /\ Recovering = {} /\ recs' = <<>>
      /\ UNCHANGED <<proc, handed, accepts, thread, rip, ris, ntentativi, closing>>
  BY DEF free_all_connection
<1>2. \A f \in Fds : handed[f] = NoConn
  BY DEF free_all_connection, Public
<1>3. Free \in Object /\ Free.kind = "free" /\ Null.kind = "null"
  BY DEF Free, Null, Object, Kinds
<1>4. /\ fdt' \in [Fds -> Object]
      /\ \A f \in Fds : fdt'[f].kind # "free" => /\ fdt'[f] = fdt[f]
                                                 /\ \A i \in DOMAIN recs : recs[i].pub # f
  BY <1>3, Types DEF free_all_connection
<1>5. recs' \in Seq(Record) /\ Len(recs') = 0 /\ DOMAIN recs' = {}
  BY <1>1
<1>6. Len(recs') <= proc'.sockets
  BY <1>1, <1>5, Types DEF Process
<1>7. TypeOK'
  BY <1>1, <1>4, <1>5, <1>6 DEF IInv, TypeOK
<1>8. ASSUME NEW c \in Accepted PROVE ThreadInv(c)'
  BY <1>1 DEF IInv, ThreadInv, Recovering
<1>9. ASSUME NEW f \in Fds, fdt'[f].kind # "free", NEW i \in DOMAIN recs, f \in OfRecord(i)
      PROVE  fdt'[f].kind = "null"
  <2>1. FieldsInv(i) /\ ObjectsInv(i) /\ <<i, 0>> # NoConn /\ <<i, 1>> # NoConn
    BY Types, NotPublic DEF IInv
  <2>2. recs[i].pub \in Fds /\ handed[recs[i].pub] # <<i, 0>>
    BY <1>2, <2>1 DEF FieldsInv
  <2>3. fdt[recs[i].priv] = Free /\ f # recs[i].pub /\ fdt[f].kind # "free" /\ fdt'[f] = fdt[f]
    BY <1>4, <1>9, <2>1, <2>2 DEF ObjectsInv
  <2>4. f # recs[i].priv
    BY <1>3, <2>3
  <2>5. CASE recs[i].apub = 0
    <3>1. OfRecord(i) = OfSocket(i) \cup {0}
      BY <2>1, <2>5 DEF FieldsInv, OfRecord
    <3>2. QED
      BY <1>9, <2>3, <2>4, <3>1, Types DEF OfSocket
  <2>6. CASE recs[i].apub # 0
    <3>1. handed[recs[i].apub] # <<i, 1>> /\ f \in Fds /\ f # -1
      BY <1>2, <2>1, <2>6, AcceptedNumber, Types
    <3>2. fdt[recs[i].apub] = Null /\ (recs[i].apriv # -1 => fdt[recs[i].apriv] = Free)
      BY <2>1, <2>6, <3>1 DEF ObjectsInv
    <3>3. f # recs[i].apriv
      BY <1>3, <2>3, <3>1, <3>2
    <3>4. f = recs[i].apub
      BY <1>9, <2>3, <2>4, <3>3 DEF OfRecord, OfSocket
    <3>5. QED
      BY <1>3, <2>3, <3>2, <3>4
  <2>7. QED
    BY <2>5, <2>6
<1>10. ASSUME NEW f \in Fds PROVE HandedInv(f)' /\ KnownInv(f)'
  <2>1. KnownInv(f) /\ handed'[f] = NoConn /\ recs' = <<>> /\ closing' /\ thread' = thread
    BY <1>1, <1>2 DEF IInv
  <2>2. fdt'[f].kind # "free" => fdt'[f] = fdt[f]
    BY <1>4
  <2>3. KnownInv(f)'
    BY <1>9, <2>1, <2>2 DEF KnownInv
  <2>4. QED
    BY <2>1, <2>3 DEF HandedInv
<1>11. ProcessInv'
  BY <1>1 DEF ProcessInv
<1>12. QED
  BY <1>5, <1>7, <1>8, <1>10, <1>11 DEF IInv

-----------------------------------------------------------------------------
(***************************************************************************)
(* The calls that accept.                                                  *)
(***************************************************************************)
\* The accepted numbers of one record change, to numbers no other record has.
LEMMA FieldsAccepted ==
    ASSUME IInv, NEW i \in DOMAIN recs, NEW r \in Record, recs' = [recs EXCEPT ![i] = r],
           r.pub = recs[i].pub, r.priv = recs[i].priv, r.type = recs[i].type,
           r.apub \in Fds, r.apriv \in Fds \cup {-1}, r.apub # r.apriv,
           r.apub \notin OfSocket(i), r.apriv \notin OfSocket(i), r.apriv = -1 => proc.errors,
           \A j \in DOMAIN recs \ {i} : {r.apub, r.apriv} \cap OfRecord(j) \subseteq {-1},
           proc' = proc, proc.role # "client", accepts'[i] = 1,
           \A j \in DOMAIN recs \ {i} : accepts'[j] = accepts[j]
    PROVE  /\ recs' \in Seq(Record) /\ Len(recs') = Len(recs) /\ DOMAIN recs' = DOMAIN recs
           /\ \A j \in DOMAIN recs : /\ recs'[j] = IF j = i THEN r ELSE recs[j]
                                     /\ FieldsInv(j)'
<1>1. recs \in Seq(Record) /\ DOMAIN recs = 1 .. Len(recs) /\ i \in 1 .. Len(recs)
  BY Types
<1>2. /\ recs' \in Seq(Record) /\ Len(recs') = Len(recs) /\ DOMAIN recs' = DOMAIN recs
      /\ \A j \in DOMAIN recs : recs'[j] = IF j = i THEN r ELSE recs[j]
  BY <1>1, ExceptSeq
<1>3. OfSocket(i)' = OfSocket(i) /\ OfRecord(i)' = OfSocket(i) \cup {r.apub, r.apriv}
  BY <1>2 DEF OfSocket, OfRecord
<1>4. \A j \in DOMAIN recs \ {i} : OfRecord(j)' = OfRecord(j) /\ OfSocket(j)' = OfSocket(j)
  BY <1>2 DEF OfSocket, OfRecord
<1>5. \A j \in DOMAIN recs \ {i} : OfRecord(i) \cap OfRecord(j) \subseteq {0, -1}
  BY DEF IInv, FieldsInv
<1>6. \A j \in DOMAIN recs \ {i} : OfRecord(i)' \cap OfRecord(j)' \subseteq {0, -1}
  BY <1>3, <1>4, <1>5 DEF OfRecord
<1>7. FieldsInv(i)'
  <2>1. FieldsInv(i) /\ recs'[i] = r /\ r.apub # 0 /\ r.apriv # 0
    BY <1>2, Types DEF IInv
  <2>2. QED
    BY <1>2, <1>3, <1>6, <2>1 DEF FieldsInv
<1>8. ASSUME NEW j \in DOMAIN recs \ {i} PROVE FieldsInv(j)'
  <2>1. FieldsInv(j) /\ recs'[j] = recs[j] /\ accepts'[j] = accepts[j] /\ OfSocket(j)' = OfSocket(j)
    BY <1>2, <1>4 DEF IInv
  <2>2. ASSUME NEW x \in DOMAIN recs \ {j} PROVE OfRecord(j)' \cap OfRecord(x)' \subseteq {0, -1}
    <3>1. CASE x = i
      BY <1>6, <3>1
    <3>2. CASE x # i
      <4>1. OfRecord(j) \cap OfRecord(x) \subseteq {0, -1}
        BY <2>1 DEF FieldsInv
      <4>2. QED
        BY <1>4, <3>2, <4>1
    <3>3. QED
      BY <3>1, <3>2
  <2>3. QED
    BY <1>2, <2>1, <2>2 DEF FieldsInv
<1>9. QED
  BY <1>2, <1>7, <1>8

\* What a thread in ReAccept holds.
LEMMA InReAccept ==
    ASSUME IInv, OneSidedProcess, NEW c \in Accepted, thread[c].at # "run"
    PROVE  \E i \in DOMAIN recs :
             /\ c = <<i, 1>> /\ thread[c].tmp = i /\ ~ closing /\ proc.role # "client" /\ rip = 0
             /\ recs[i].apub \in Fds /\ recs[i].apub # 0 /\ recs[i].apriv \in Fds
             /\ handed[recs[i].apub] = c /\ get_real_fd(recs[i].apriv) = recs[i].apriv
             /\ \A x \in Accepted \ {c} : thread[x] = [at |-> "run", fd |-> 0, tmp |-> 0]
             /\ \/ thread[c].fd = -1 /\ proc.errors
                \/ /\ thread[c].fd \in Fds /\ fdt[thread[c].fd] = Obj("acc", c)
                   /\ \A j \in DOMAIN recs : thread[c].fd \notin OfRecord(j)
<1>1. ThreadInv(c)
  BY DEF IInv
<1>2. PICK i \in DOMAIN recs : i = c[1]
  BY <1>1 DEF ThreadInv
<1>3. c = <<i, 1>>
  <2>1. c \in Conns /\ c[2] > 0
    BY DEF Accepted
  <2>2. c[2] = 1 /\ c = <<c[1], c[2]>>
    BY <2>1, SocketMapAssumption DEF Conns, OneSidedProcess
  <2>3. QED
    BY <1>2, <2>2
<1>4. /\ thread[c].tmp = i /\ ~ closing /\ recs[i].apub # 0 /\ recs[i].apriv # -1
      /\ \A x \in Accepted \ {c} : thread[x].at = "run"
  BY <1>1, <1>2 DEF ThreadInv
<1>5. \A x \in Accepted \ {c} : thread[x] = [at |-> "run", fd |-> 0, tmp |-> 0]
  BY <1>4 DEF IInv, ThreadInv
<1>6. /\ recs[i].apub \in Fds /\ recs[i].apriv \in Fds
      /\ get_real_fd(recs[i].apriv) = recs[i].apriv
  BY <1>4, AcceptedNumber
<1>7. proc.role # "client"
  BY <1>4 DEF IInv, FieldsInv
<1>8. handed[recs[i].apub] = c
  <2>1. ObjectsInv(i)
    BY DEF IInv
  <2>2. QED
    BY <1>3, <1>4, <2>1 DEF ObjectsInv
<1>9. rip = 0
  BY <1>7 DEF IInv, ProcessInv
<1>10. \/ thread[c].fd = -1 /\ proc.errors
       \/ /\ thread[c].fd \in Fds /\ fdt[thread[c].fd] = Obj("acc", c)
          /\ \A j \in DOMAIN recs : thread[c].fd \notin OfRecord(j)
  BY <1>1 DEF ThreadInv
<1>11. QED
  BY <1>3, <1>4, <1>5, <1>6, <1>7, <1>8, <1>9, <1>10

LEMMA SafeCloseOld ==
    ASSUME IInv, OneSidedProcess, NEW c \in Accepted, CloseOld(c)
    PROVE  IInv'
<1>1. /\ thread[c].at = "close" /\ thread \in [Accepted -> Place] /\ thread[c] \in Place
      /\ UNCHANGED <<proc, recs, handed, accepts, rip, ris, ntentativi, closing>>
  BY Types DEF CloseOld
<1>2. PICK i \in DOMAIN recs :
        /\ c = <<i, 1>> /\ thread[c].tmp = i /\ ~ closing /\ proc.role # "client" /\ rip = 0
        /\ recs[i].apub \in Fds /\ recs[i].apub # 0 /\ recs[i].apriv \in Fds
        /\ handed[recs[i].apub] = c /\ get_real_fd(recs[i].apriv) = recs[i].apriv
        /\ \A x \in Accepted \ {c} : thread[x] = [at |-> "run", fd |-> 0, tmp |-> 0]
        /\ \/ thread[c].fd = -1 /\ proc.errors
           \/ /\ thread[c].fd \in Fds /\ fdt[thread[c].fd] = Obj("acc", c)
              /\ \A j \in DOMAIN recs : thread[c].fd \notin OfRecord(j)
  BY <1>1, InReAccept
<1>3. PICK n \in Fds : n = recs[i].apriv
  BY <1>2
<1>4. n \in OfRecord(i)
  BY <1>3 DEF OfRecord
<1>5. /\ fdt' \in [Fds -> Object] /\ \A f \in Fds : fdt'[f] = IF f = n THEN Free ELSE fdt[f]
  <2>1. Free \in Object
    BY DEF Free, Object, Kinds
  <2>2. fdt' = closed(fdt, n)
    BY <1>2, <1>3 DEF CloseOld
  <2>3. QED
    BY <2>1, <2>2, Types DEF closed
<1>6. /\ thread' \in [Accepted -> Place] /\ \A x \in Accepted \ {c} : thread'[x] = thread[x]
      /\ thread'[c].at = "set" /\ thread'[c].fd = thread[c].fd /\ thread'[c].tmp = thread[c].tmp
  <2> DEFINE t == [thread[c] EXCEPT !.at = "set"]
  <2>1. t \in Place /\ t.at = "set" /\ t.fd = thread[c].fd /\ t.tmp = thread[c].tmp
    BY <1>1 DEF Place
  <2>2. thread' = [thread EXCEPT ![c] = t]
    BY DEF CloseOld
  <2> HIDE DEF t
  <2>3. QED
    BY <1>1, <2>1, <2>2
<1>7. Free.kind = "free"
  BY DEF Free
<1>8. TypeOK'
  BY <1>1, <1>5, <1>6 DEF IInv, TypeOK
<1>9. ASSUME NEW j \in DOMAIN recs PROVE FieldsInv(j)' /\ ObjectsInv(j)'
  <2>1. FieldsInv(j)'
    BY <1>1, ListSame, FieldsSame
  <2>2. CASE j = i
    <3>1. FieldsInv(i) /\ ObjectsInv(i) /\ recs[i].apriv # -1
      BY <1>3, Types DEF IInv
    <3>2. /\ recs[i].pub \in Fds /\ recs[i].pub # n /\ recs[i].priv \in Fds /\ recs[i].priv # n
          /\ recs[i].apub # n
      BY <1>2, <1>3, AcceptedNumber, <3>1 DEF FieldsInv, OfSocket
    <3>3. /\ fdt'[recs[i].pub] = fdt[recs[i].pub] /\ fdt'[recs[i].priv] = fdt[recs[i].priv]
          /\ fdt'[recs[i].apub] = fdt[recs[i].apub] /\ fdt'[recs[i].apriv] = Free
      BY <1>2, <1>3, <1>5, <3>2
    <3>4. QED
      BY <1>1, <1>2, <1>6, <2>1, <2>2, <3>1, <3>3 DEF ObjectsInv
  <2>3. CASE j # i
    <3>1. \A f \in OfRecord(j) : f \in Fds => f \notin OfRecord(i)
      BY <2>3, Lookup
    <3>2. \A f \in OfRecord(j) : f \in Fds => fdt'[f] = fdt[f] /\ handed'[f] = handed[f]
      BY <1>1, <1>4, <1>5, <3>1
    <3>3. (thread'[<<j, 1>>].at = "set") <=> (thread[<<j, 1>>].at = "set")
      <4>1. <<j, 1>> # c
        BY <1>2, <2>3
      <4>2. thread' = [thread EXCEPT ![c].at = "set"]
        BY DEF CloseOld
      <4>3. QED
        BY <1>1, <4>1, <4>2
    <3>4. QED
      BY <1>1, <2>1, <3>2, <3>3, ObjectsSame
  <2>4. QED
    BY <2>1, <2>2, <2>3
<1>10. ASSUME NEW x \in Accepted PROVE ThreadInv(x)'
  <2>1. CASE x = c
    <3>1. thread[c].fd \in Fds => thread[c].fd # n
      BY <1>2, <1>4, Types
    <3>2. thread[c].fd \in Fds => fdt'[thread[c].fd] = fdt[thread[c].fd]
      BY <1>5, <3>1
    <3>3. thread'[c].at # "run" /\ ~ closing' /\ c[1] \in DOMAIN recs' /\ thread'[c].tmp = c[1]
      BY <1>1, <1>2, <1>6
    <3>4. /\ recs'[c[1]].apub # 0 /\ recs'[c[1]].apriv # -1
          /\ \A y \in Accepted \ {c} : thread'[y].at = "run"
      BY <1>1, <1>2, <1>3, <1>6, Types
    <3>5. IF thread'[c].fd = -1 THEN proc'.errors
          ELSE /\ thread'[c].fd \in Fds /\ fdt'[thread'[c].fd] = Obj("acc", c)
               /\ \A j \in DOMAIN recs' : thread'[c].fd \notin OfRecord(j)'
      <4>1. \A j \in DOMAIN recs : OfRecord(j)' = OfRecord(j)
        BY <1>1 DEF OfRecord, OfSocket
      <4>2. DOMAIN recs' = DOMAIN recs /\ thread'[c].fd = thread[c].fd /\ proc' = proc /\ -1 \notin Fds
        BY <1>1, <1>6, Types
      <4>3. QED
        BY <1>2, <3>2, <4>1, <4>2
    <3>6. QED
      BY <2>1, <3>3, <3>4, <3>5 DEF ThreadInv
  <2>2. CASE x # c
    BY <1>2, <1>6, <2>2 DEF ThreadInv
  <2>3. QED
    BY <2>1, <2>2
<1>11. ASSUME NEW f \in Fds PROVE HandedInv(f)' /\ KnownInv(f)'
  <2>1. HandedInv(f) /\ KnownInv(f)
    BY DEF IInv
  <2>2. HandedInv(f)'
    BY <1>1, <2>1 DEF HandedInv
  <2>3. fdt'[f].kind # "free" => fdt'[f] = fdt[f]
    BY <1>5, <1>7
  <2>4. \A x \in Accepted : thread'[x].fd = thread[x].fd
    BY <1>6
  <2>5. KnownInv(f)'
    BY <1>1, <2>1, <2>3, <2>4 DEF KnownInv, OfRecord, OfSocket
  <2>6. QED
    BY <2>2, <2>5
<1>12. ProcessInv'
  BY <1>1, <1>2 DEF IInv, ProcessInv
<1>13. QED
  BY <1>1, <1>8, <1>9, <1>10, <1>11, <1>12 DEF IInv

LEMMA SafeSetAccept ==
    ASSUME IInv, OneSidedProcess, NEW c \in Accepted, set_accept_fd(c)
    PROVE  IInv'
<1>1. /\ thread[c].at = "set" /\ thread \in [Accepted -> Place] /\ thread[c] \in Place
      /\ UNCHANGED <<proc, fdt, handed, accepts, rip, ris, ntentativi, closing>>
  BY Types DEF set_accept_fd
<1>2. PICK i \in DOMAIN recs :
        /\ c = <<i, 1>> /\ thread[c].tmp = i /\ ~ closing /\ proc.role # "client" /\ rip = 0
        /\ recs[i].apub \in Fds /\ recs[i].apub # 0 /\ recs[i].apriv \in Fds
        /\ handed[recs[i].apub] = c /\ get_real_fd(recs[i].apriv) = recs[i].apriv
        /\ \A x \in Accepted \ {c} : thread[x] = [at |-> "run", fd |-> 0, tmp |-> 0]
        /\ \/ thread[c].fd = -1 /\ proc.errors
           \/ /\ thread[c].fd \in Fds /\ fdt[thread[c].fd] = Obj("acc", c)
              /\ \A j \in DOMAIN recs : thread[c].fd \notin OfRecord(j)
  BY <1>1, InReAccept
<1>3. PICK n \in Fds \cup {-1} : n = thread[c].fd
  BY <1>2
<1>4. /\ thread' \in [Accepted -> Place]
      /\ \A x \in Accepted : thread'[x] = [at |-> "run", fd |-> 0, tmp |-> 0]
  <2>1. [at |-> "run", fd |-> 0, tmp |-> 0] \in Place
    BY DEF Place, Number
  <2>2. QED
    BY <1>1, <1>2, <2>1 DEF set_accept_fd
<1>5. FieldsInv(i) /\ ObjectsInv(i) /\ recs[i] \in Record /\ recs[i].apriv # -1 /\ -1 \notin Fds /\ 0 \notin Fds
  BY <1>2, Types DEF IInv
<1> DEFINE r == [recs[i] EXCEPT !.apriv = n]
<1>6. /\ r \in Record /\ r.pub = recs[i].pub /\ r.priv = recs[i].priv /\ r.type = recs[i].type
      /\ r.apub = recs[i].apub /\ r.apriv = n
  BY <1>3, <1>5 DEF Record, Number
<1>7. recs' = [recs EXCEPT ![i] = r]
  BY <1>2, <1>3 DEF set_accept_fd
<1> HIDE DEF r
<1>8. n \notin OfSocket(i) /\ r.apub # n /\ r.apub \notin OfSocket(i) /\ (n = -1 => proc.errors)
  <2>1. recs[i].apub \notin OfSocket(i) /\ OfSocket(i) \subseteq Fds
    BY <1>2, <1>5 DEF FieldsInv, OfSocket
  <2>2. n = -1 \/ n \notin OfRecord(i)
    BY <1>2, <1>3
  <2>3. QED
    BY <1>2, <1>3, <1>5, <1>6, <2>1, <2>2 DEF OfRecord
<1>9. \A j \in DOMAIN recs \ {i} : {r.apub, r.apriv} \cap OfRecord(j) \subseteq {-1}
  <2>1. recs[i].apub \in OfRecord(i)
    BY DEF OfRecord
  <2>2. \A j \in DOMAIN recs \ {i} : recs[i].apub \notin OfRecord(j)
    BY <1>2, <2>1, Lookup
  <2>3. QED
    BY <1>2, <1>3, <1>6, <2>2
<1>10. r.apub \in Fds /\ r.apriv \in Fds \cup {-1} /\ accepts'[i] = 1
  BY <1>1, <1>2, <1>3, <1>5, <1>6 DEF FieldsInv
<1>11. /\ recs' \in Seq(Record) /\ Len(recs') = Len(recs) /\ DOMAIN recs' = DOMAIN recs
       /\ \A j \in DOMAIN recs : /\ recs'[j] = IF j = i THEN r ELSE recs[j]
                                 /\ FieldsInv(j)'
  BY <1>1, <1>2, <1>6, <1>7, <1>8, <1>9, <1>10, FieldsAccepted
<1>12. TypeOK'
  BY <1>1, <1>4, <1>11 DEF IInv, TypeOK
<1>13. ASSUME NEW j \in DOMAIN recs PROVE ObjectsInv(j)'
  <2>1. CASE j = i
    <3>1. recs'[i] = r /\ thread'[<<i, 1>>].at # "set"
      BY <1>2, <1>4, <1>11
    <3>2. n # -1 => fdt'[n] = Obj("acc", <<i, 1>>)
      BY <1>1, <1>2, <1>3
    <3>3. QED
      BY <1>1, <1>2, <1>5, <1>6, <2>1, <3>1, <3>2 DEF ObjectsInv
  <2>2. CASE j # i
    <3>1. recs'[j] = recs[j]
      BY <1>11, <2>2
    <3>2. (thread'[<<j, 1>>].at = "set") <=> (thread[<<j, 1>>].at = "set")
      <4>1. <<j, 1>> # c
        BY <1>2, <2>2
      <4>2. thread' = [thread EXCEPT ![c] = [at |-> "run", fd |-> 0, tmp |-> 0]]
        BY DEF set_accept_fd
      <4>3. QED
        BY <1>1, <4>1, <4>2
    <3>3. QED
      BY <1>1, <3>1, <3>2, ObjectsSame
  <2>3. QED
    BY <2>1, <2>2
<1>14. \A x \in Accepted : ThreadInv(x)'
  BY <1>4 DEF ThreadInv
<1>15. OfRecord(i)' = OfSocket(i) \cup {recs[i].apub, n}
  BY <1>6, <1>11 DEF OfRecord, OfSocket
<1>16. ASSUME NEW f \in Fds PROVE HandedInv(f)' /\ KnownInv(f)'
  <2>1. HandedInv(f) /\ KnownInv(f)
    BY DEF IInv
  <2>2. HandedInv(f)'
    <3>1. \A j \in DOMAIN recs : recs'[j].pub = recs[j].pub /\ recs'[j].apub = recs[j].apub
      BY <1>6, <1>11
    <3>2. QED
      BY <1>1, <1>11, <2>1, <3>1 DEF HandedInv
  <2>3. ASSUME fdt'[f].kind # "free" PROVE \E j \in DOMAIN recs' : f \in OfRecord(j)'
    <3>1. (\E j \in DOMAIN recs : f \in OfRecord(j)) \/ f = n
      <4>1. \A x \in Accepted : thread[x].fd = f => f = n
        BY <1>2, <1>3, <1>5
      <4>2. recs # <<>> /\ fdt[f].kind # "free"
        BY <1>1, <1>2, <2>3
      <4>3. QED
        BY <2>1, <4>1, <4>2 DEF KnownInv
    <3>2. CASE f = n
      BY <1>11, <1>15, <3>2
    <3>3. ASSUME NEW j \in DOMAIN recs, f \in OfRecord(j), f # n
          PROVE  \E x \in DOMAIN recs' : f \in OfRecord(x)'
      <4>1. CASE j # i
        <5>1. OfRecord(j)' = OfRecord(j)
          BY <1>11, <4>1 DEF OfRecord, OfSocket
        <5>2. QED
          BY <1>11, <3>3, <5>1
      <4>2. CASE j = i
        <5>1. fdt[recs[i].apriv] = Free
          BY <1>1, <1>2, <1>5 DEF ObjectsInv
        <5>2. f # recs[i].apriv
          BY <1>1, <2>3, <5>1 DEF Free
        <5>3. QED
          BY <1>11, <1>15, <3>3, <4>2, <5>2 DEF OfRecord
      <4>3. QED
        BY <4>1, <4>2
    <3>4. QED
      BY <3>1, <3>2, <3>3
  <2>4. QED
    BY <2>2, <2>3 DEF KnownInv
<1>17. ProcessInv'
  BY <1>1, <1>2, <1>11 DEF IInv, ProcessInv
<1>18. QED
  BY <1>11, <1>12, <1>13, <1>14, <1>16, <1>17 DEF IInv

\* What accept gives: a number no record has, or -1 where it may fail.
LEMMA AcceptGives ==
    ASSUME IInv, OneSidedProcess, ~ closing, Recovering = {}, NEW new \in Acceptable,
           NEW c \in Accepted
    PROVE  /\ new \in Fds \cup {-1} /\ (new = -1 => proc.errors)
           /\ \A j \in DOMAIN recs : new \notin OfRecord(j) \/ new = -1
           /\ WithAccepted(new, c) \in [Fds -> Object]
           /\ \A f \in Fds : WithAccepted(new, c)[f] = IF f = new THEN Obj("acc", c) ELSE fdt[f]
           /\ new # -1 => fdt[new].kind = "free" /\ WithAccepted(new, c) = [fdt EXCEPT ![new] = Obj("acc", c)]
<1>1. PICK n \in Fds : n = NextFd(fdt)
  BY FreshNumber
<1>2. fdt[n].kind = "free" /\ \A i \in DOMAIN recs : n \notin OfRecord(i)
  BY <1>1, FreshNumber
<1>3. n # -1 /\ -1 \notin Fds /\ fdt \in [Fds -> Object]
  BY Types
<1>4. new = n \/ (new = -1 /\ proc.errors)
  BY <1>1, <1>3 DEF Acceptable
<1>5. Obj("acc", c) \in Object
  BY DEF Accepted, Obj, Object, Kinds
<1>6. WithAccepted(new, c) = IF new = -1 THEN fdt ELSE [fdt EXCEPT ![n] = Obj("acc", c)]
  BY <1>1, <1>3 DEF WithAccepted, Opened
<1>7. CASE new = -1
  BY <1>3, <1>4, <1>6, <1>7
<1>8. CASE new # -1
  <2>1. new = n /\ WithAccepted(new, c) = [fdt EXCEPT ![n] = Obj("acc", c)]
    BY <1>4, <1>6, <1>8
  <2>2. /\ [fdt EXCEPT ![n] = Obj("acc", c)] \in [Fds -> Object]
        /\ \A f \in Fds : [fdt EXCEPT ![n] = Obj("acc", c)][f] = IF f = n THEN Obj("acc", c) ELSE fdt[f]
    BY <1>3, <1>5
  <2>3. QED
    BY <1>2, <1>8, <2>1, <2>2
<1>9. QED
  BY <1>7, <1>8

LEMMA SafeReAccept ==
    ASSUME IInv, OneSidedProcess, NEW fd \in Fds, ReAccept(fd)
    PROVE  IInv'
<1>1. /\ rip = 0 /\ ~ closing /\ Recovering = {} /\ handed[fd] \in Accepted
      /\ UNCHANGED <<proc, recs, handed, accepts, rip, ris, ntentativi, closing>>
  BY Called DEF ReAccept
<1>2. PICK i \in DOMAIN recs : IsAcceptedOf(fd, i)
  <2>1. handed[fd] # NoConn /\ \A j : handed[fd] # <<j, 0>>
    BY <1>1 DEF Accepted, NoConn
  <2>2. PICK i \in DOMAIN recs : IsSocketOf(fd, i) \/ IsAcceptedOf(fd, i)
    BY <2>1, PublicIs
  <2>3. QED
    BY <2>1, <2>2 DEF IsSocketOf
<1>3. /\ recs[i].apub # 0 /\ fd = recs[i].apub /\ handed[fd] = <<i, 1>> /\ <<i, 1>> \in Accepted
      /\ get_real_fd(fd) = recs[i].apriv /\ recs[i].apriv # -1
  BY <1>2, AcceptedNumber DEF IsAcceptedOf, ReAccept
<1>4. get_connection(get_real_fd(fd)) = i
  BY <1>3, AcceptedNumber
<1>5. get_real_fd(recs[i].pub) = recs[i].priv /\ get_connection(recs[i].priv) = i
  BY OwnNumber
<1>6. accepts[i] = 1 /\ proc.role # "client"
  BY <1>3 DEF IInv, FieldsInv
<1>7. PICK c \in Accepted : c = <<i, 1>>
  BY <1>3
<1>8. PICK new \in Acceptable :
        /\ fdt' = WithAccepted(new, c)
        /\ thread' = [thread EXCEPT ![c] = [at |-> "close", fd |-> new, tmp |-> i]]
  <2>1. \E new \in Acceptable :
          /\ fdt' = WithAccepted(new, <<i, accepts[i]>>)
          /\ thread' = [thread EXCEPT ![handed[fd]] = [at |-> "close", fd |-> new, tmp |-> i]]
    BY <1>4, <1>5 DEF ReAccept
  <2>2. QED
    BY <1>3, <1>6, <1>7, <2>1
<1>9. /\ new \in Fds \cup {-1} /\ (new = -1 => proc.errors)
      /\ \A j \in DOMAIN recs : new \notin OfRecord(j) \/ new = -1
      /\ fdt' \in [Fds -> Object] /\ \A f \in Fds : fdt'[f] = IF f = new THEN Obj("acc", c) ELSE fdt[f]
  BY <1>1, <1>8, AcceptGives
<1>10. /\ thread' \in [Accepted -> Place] /\ \A x \in Accepted \ {c} : thread'[x] = thread[x]
       /\ thread'[c] = [at |-> "close", fd |-> new, tmp |-> i]
  <2>1. [at |-> "close", fd |-> new, tmp |-> i] \in Place
    BY <1>9, Types DEF Place, Number
  <2>2. QED
    BY <1>8, <2>1, Types
<1>11. \A x \in Accepted : thread[x].at = "run" /\ thread[x] = [at |-> "run", fd |-> 0, tmp |-> 0]
  BY <1>1 DEF IInv, ThreadInv, Recovering
<1>12. TypeOK'
  BY <1>1, <1>9, <1>10 DEF IInv, TypeOK
<1>13. ASSUME NEW j \in DOMAIN recs PROVE FieldsInv(j)' /\ ObjectsInv(j)'
  <2>1. FieldsInv(j)'
    BY <1>1, ListSame, FieldsSame
  <2>2. \A f \in OfRecord(j) : f \in Fds => fdt'[f] = fdt[f] /\ handed'[f] = handed[f]
    BY <1>1, <1>9, Types
  <2>3. (thread'[<<j, 1>>].at = "set") <=> (thread[<<j, 1>>].at = "set")
    <3>1. CASE j = i
      BY <1>7, <1>10, <1>11, <3>1
    <3>2. CASE j # i
      <4>1. <<j, 1>> # c
        BY <1>7, <3>2
      <4>2. QED
        BY <1>8, <4>1, Types
    <3>3. QED
      BY <3>1, <3>2
  <2>4. QED
    BY <1>1, <2>1, <2>2, <2>3, ObjectsSame
<1>14. ASSUME NEW x \in Accepted PROVE ThreadInv(x)'
  <2>1. CASE x = c
    <3>1. /\ thread'[c].at # "run" /\ ~ closing' /\ c[1] \in DOMAIN recs' /\ thread'[c].tmp = c[1]
          /\ recs'[c[1]].apub # 0 /\ recs'[c[1]].apriv # -1
          /\ \A y \in Accepted \ {c} : thread'[y].at = "run"
      BY <1>1, <1>3, <1>7, <1>10, <1>11
    <3>2. \A j \in DOMAIN recs : OfRecord(j)' = OfRecord(j)
      BY <1>1 DEF OfRecord, OfSocket
    <3>3. IF thread'[c].fd = -1 THEN proc'.errors
          ELSE /\ thread'[c].fd \in Fds /\ fdt'[thread'[c].fd] = Obj("acc", c)
               /\ \A j \in DOMAIN recs' : thread'[c].fd \notin OfRecord(j)'
      <4>1. DOMAIN recs' = DOMAIN recs /\ thread'[c].fd = new /\ proc' = proc
        BY <1>1, <1>10
      <4>2. QED
        BY <1>9, <3>2, <4>1
    <3>4. QED
      BY <2>1, <3>1, <3>3 DEF ThreadInv
  <2>2. CASE x # c
    BY <1>10, <1>11, <2>2 DEF ThreadInv
  <2>3. QED
    BY <2>1, <2>2
<1>15. ASSUME NEW f \in Fds PROVE HandedInv(f)' /\ KnownInv(f)'
  <2>1. HandedInv(f) /\ KnownInv(f)
    BY DEF IInv
  <2>2. HandedInv(f)'
    BY <1>1, <2>1 DEF HandedInv
  <2>3. CASE f = new
    <3>1. thread'[c].fd = f
      BY <1>10, <2>3
    <3>2. QED
      BY <2>2, <3>1 DEF KnownInv
  <2>4. CASE f # new
    <3>1. \A x \in Accepted : thread[x].fd # f
      BY <1>11, Types
    <3>2. fdt'[f] = fdt[f]
      BY <1>9, <2>4
    <3>3. KnownInv(f)'
      BY <1>1, <2>1, <3>1, <3>2 DEF KnownInv, OfRecord, OfSocket
    <3>4. QED
      BY <2>2, <3>3
  <2>5. QED
    BY <2>3, <2>4
<1>16. ProcessInv'
  BY <1>1, <1>6 DEF IInv, ProcessInv
<1>17. QED
  BY <1>1, <1>12, <1>13, <1>14, <1>15, <1>16 DEF IInv

LEMMA SafeAccept ==
    ASSUME IInv, OneSidedProcess, NEW fd \in Fds, Accept(fd)
    PROVE  IInv'
<1>1. /\ rip = 0 /\ ~ closing /\ Recovering = {} /\ proc.role # "client"
      /\ UNCHANGED <<proc, thread, rip, ris, ntentativi, closing>>
  BY Called DEF Accept
<1>2. PICK i \in DOMAIN recs : IsSocketOf(fd, i)
  BY NotAccepted DEF Accept, Public
<1>3. get_real_fd(fd) = recs[i].priv /\ get_connection(recs[i].priv) = i /\ i \in Records
  BY <1>2, SocketIs
<1>4. /\ accepts[i] = 0 /\ accepts \in [Records -> 0 .. MaxAccepts] /\ MaxAccepts = 1
      /\ recs[i].apub = 0 /\ recs[i].apriv = 0
  <2>1. accepts[i] < MaxAccepts /\ accepts[i] \in 0 .. MaxAccepts /\ MaxAccepts <= 1 /\ MaxAccepts \in Nat
    BY <1>3, Types, SocketMapAssumption DEF Accept, OneSidedProcess
  <2>2. accepts[i] = 0 /\ MaxAccepts = 1
    BY <2>1
  <2>3. QED
    BY <2>2, Types DEF IInv, FieldsInv
<1>5. PICK c \in Accepted : c = <<i, 1>>
  <2>1. <<i, 1>> \in Accepted
    BY <1>3, <1>4 DEF Accepted, Conns
  <2>2. QED
    BY <2>1
<1>6. PICK new \in Acceptable : \E pub \in Reserved(WithAccepted(new, c)) :
        /\ fdt' = Opened(WithAccepted(new, c), Null)
        /\ recs' = [recs EXCEPT ![i].apub = pub, ![i].apriv = new]
        /\ handed' = IF pub = -1 THEN handed ELSE [handed EXCEPT ![pub] = c]
  <2>1. \E new \in Acceptable : \E pub \in Reserved(WithAccepted(new, <<i, accepts[i] + 1>>)) :
         /\ fdt' = Opened(WithAccepted(new, <<i, accepts[i] + 1>>), Null)
         /\ recs' = [recs EXCEPT ![i].apub = pub, ![i].apriv = new]
         /\ handed' = IF pub = -1 THEN handed ELSE [handed EXCEPT ![pub] = <<i, accepts[i] + 1>>]
    BY <1>3 DEF Accept
  <2>2. <<i, accepts[i] + 1>> = c
    BY <1>4, <1>5
  <2>3. QED
    BY <2>1, <2>2
<1>7. accepts' = [accepts EXCEPT ![i] = 1]
  BY <1>3, <1>4 DEF Accept
<1>8. PICK with : with = WithAccepted(new, c)
  OBVIOUS
<1>8b. PICK pub \in Reserved(with) :
        /\ fdt' = Opened(with, Null)
        /\ recs' = [recs EXCEPT ![i].apub = pub, ![i].apriv = new]
        /\ handed' = IF pub = -1 THEN handed ELSE [handed EXCEPT ![pub] = c]
  BY <1>6, <1>8
<1>9. /\ new \in Fds \cup {-1} /\ (new = -1 => proc.errors)
      /\ \A j \in DOMAIN recs : new \notin OfRecord(j) \/ new = -1
      /\ with \in [Fds -> Object]
      /\ \A f \in Fds : with[f] = IF f = new THEN Obj("acc", c) ELSE fdt[f]
      /\ new # -1 => fdt[new].kind = "free" /\ with = [fdt EXCEPT ![new] = Obj("acc", c)]
      /\ new = -1 => with = fdt
  <2>1. new = -1 => with = fdt
    BY <1>8 DEF WithAccepted
  <2>2. QED
    BY <1>1, <1>8, <2>1, AcceptGives
<1>10. /\ NextFd(with) \in Fds /\ NextFd(with) # new
       /\ \A j \in DOMAIN recs : NextFd(with) \notin OfRecord(j)
  <2>1. CASE new = -1
    BY <1>1, <1>9, <2>1, FreshNumber, Types
  <2>2. CASE new # -1
    <3>1. <<i, "apub">> \in Slots /\ Field(<<i, "apub">>) = 0
      BY <1>3, <1>4 DEF Slots, Names, Field
    <3>2. new \in Fds /\ Obj("acc", c) \in Object /\ Obj("acc", c).kind # "free"
      BY <1>9, <2>2 DEF Accepted, Obj, Object, Kinds
    <3>3. /\ NextFd(with) \in Fds /\ with[NextFd(with)].kind = "free"
          /\ NextFd(with) = new \/ \A j \in DOMAIN recs : NextFd(with) \notin OfRecord(j)
      BY <1>1, <1>9, <2>2, <3>1, <3>2, SecondNumber
    <3>4. QED
      BY <1>9, <3>2, <3>3
  <2>3. QED
    BY <2>1, <2>2
<1>11. /\ pub \in Fds /\ pub # new /\ pub # -1 /\ pub = NextFd(with)
       /\ \A j \in DOMAIN recs : pub \notin OfRecord(j)
  <2>1. NextFd(with) # -1
    BY <1>10, Types
  <2>2. pub = NextFd(with)
    BY <2>1 DEF Reserved
  <2>3. QED
    BY <1>10, <2>1, <2>2
<1>12. handed' = [handed EXCEPT ![pub] = c] /\ fdt' = [with EXCEPT ![pub] = Null]
  BY <1>8b, <1>11 DEF Opened
<1>13. /\ fdt' \in [Fds -> Object] /\ fdt'[pub] = Null
       /\ \A f \in Fds \ {pub} : fdt'[f] = IF f = new THEN Obj("acc", c) ELSE fdt[f]
  <2>1. Null \in Object
    BY DEF Null, Object, Kinds
  <2>2. QED
    BY <1>9, <1>11, <1>12, <2>1
<1>14. /\ handed' \in [Fds -> Conns \cup {NoConn}] /\ handed'[pub] = c
       /\ \A f \in Fds \ {pub} : handed'[f] = handed[f]
  <2>1. c \in Conns
    BY DEF Accepted
  <2>2. QED
    BY <1>11, <1>12, <2>1, Types
<1>15. /\ accepts' \in [Records -> 0 .. MaxAccepts] /\ accepts'[i] = 1
       /\ \A j \in Records \ {i} : accepts'[j] = accepts[j]
  BY <1>3, <1>4, <1>7
<1>16. FieldsInv(i) /\ ObjectsInv(i) /\ recs[i] \in Record /\ -1 \notin Fds /\ 0 \notin Fds
  BY Types DEF IInv
<1> DEFINE r0 == [recs[i] EXCEPT !.apub = pub]
           r == [r0 EXCEPT !.apriv = new]
<1>17. /\ r0 \in Record /\ r0.pub = recs[i].pub /\ r0.priv = recs[i].priv /\ r0.type = recs[i].type
       /\ r0.apub = pub
  BY <1>11, <1>16 DEF Record, Number
<1>18. recs' = [recs EXCEPT ![i] = r]
  BY <1>8b, Types
<1> HIDE DEF r0
<1>19. /\ r \in Record /\ r.pub = recs[i].pub /\ r.priv = recs[i].priv /\ r.type = recs[i].type
       /\ r.apub = pub /\ r.apriv = new
  BY <1>9, <1>17 DEF Record, Number
<1> HIDE DEF r
<1>20. pub \notin OfSocket(i) /\ new \notin OfSocket(i)
  <2>1. OfSocket(i) \subseteq OfRecord(i) /\ OfSocket(i) \subseteq Fds
    BY <1>16 DEF OfRecord, OfSocket, FieldsInv
  <2>2. QED
    BY <1>9, <1>11, <1>16, <2>1
<1>21. \A j \in DOMAIN recs \ {i} : {r.apub, r.apriv} \cap OfRecord(j) \subseteq {-1}
  BY <1>9, <1>11, <1>19
<1>22. \A j \in DOMAIN recs \ {i} : accepts'[j] = accepts[j]
  BY <1>15, Types
<1>23. /\ r.apub \in Fds /\ r.apriv \in Fds \cup {-1} /\ r.apub # r.apriv
       /\ r.apub \notin OfSocket(i) /\ r.apriv \notin OfSocket(i) /\ (r.apriv = -1 => proc.errors)
  BY <1>9, <1>11, <1>19, <1>20
<1>24. /\ recs' \in Seq(Record) /\ Len(recs') = Len(recs) /\ DOMAIN recs' = DOMAIN recs
       /\ \A j \in DOMAIN recs : /\ recs'[j] = IF j = i THEN r ELSE recs[j]
                                 /\ FieldsInv(j)'
  BY <1>1, <1>15, <1>18, <1>19, <1>21, <1>22, <1>23, FieldsAccepted
<1>25. TypeOK'
  BY <1>1, <1>13, <1>14, <1>15, <1>24 DEF IInv, TypeOK
<1>26. \A f \in Fds : (\E j \in DOMAIN recs : f \in OfRecord(j)) => fdt'[f] = fdt[f] /\ handed'[f] = handed[f]
  BY <1>9, <1>11, <1>13, <1>14, <1>16
<1>27. ASSUME NEW j \in DOMAIN recs PROVE ObjectsInv(j)'
  <2>1. CASE j = i
    <3>1. recs'[i] = r /\ thread'[<<i, 1>>].at # "set"
      BY <1>1, <1>5, <1>24 DEF Recovering
    <3>2. /\ fdt'[recs[i].pub] = fdt[recs[i].pub] /\ fdt'[recs[i].priv] = fdt[recs[i].priv]
          /\ handed'[recs[i].pub] = handed[recs[i].pub]
      BY <1>16, <1>26 DEF FieldsInv, OfRecord, OfSocket
    <3>3. new # -1 => fdt'[new] = Obj("acc", <<i, 1>>)
      BY <1>5, <1>9, <1>11, <1>13
    <3>4. QED
      BY <1>1, <1>5, <1>13, <1>14, <1>16, <1>19, <2>1, <3>1, <3>2, <3>3 DEF ObjectsInv
  <2>2. CASE j # i
    <3>1. recs'[j] = recs[j]
      BY <1>24, <2>2
    <3>2. QED
      BY <1>1, <1>26, <3>1, ObjectsSame
  <2>3. QED
    BY <2>1, <2>2
<1>28. \A x \in Accepted : ThreadInv(x)'
  BY <1>1 DEF IInv, ThreadInv, Recovering
<1>29. OfRecord(i)' = OfSocket(i) \cup {pub, new}
  BY <1>19, <1>24 DEF OfRecord, OfSocket
<1>30. \A j \in DOMAIN recs, f \in Fds : f \in OfRecord(j) => f \in OfRecord(j)'
  <2>1. \A j \in DOMAIN recs \ {i} : OfRecord(j)' = OfRecord(j)
    BY <1>24 DEF OfRecord, OfSocket
  <2>2. OfRecord(i) = OfSocket(i) \cup {0}
    BY <1>4 DEF OfRecord
  <2>3. QED
    BY <1>16, <1>29, <2>1, <2>2
<1>31. ASSUME NEW f \in Fds PROVE HandedInv(f)' /\ KnownInv(f)'
  <2>1. HandedInv(f) /\ KnownInv(f)
    BY DEF IInv
  <2>2. CASE f = pub
    <3>1. i \in DOMAIN recs' /\ f \in OfRecord(i)' /\ recs'[i].apub = f /\ f # 0 /\ handed'[f] = <<i, 1>>
      BY <1>5, <1>14, <1>16, <1>19, <1>24, <1>29, <2>2
    <3>2. QED
      BY <3>1 DEF HandedInv, KnownInv
  <2>3. CASE f # pub
    <3>1. HandedInv(f)'
      <4>1. \A j \in DOMAIN recs : /\ recs'[j].pub = recs[j].pub
                                   /\ recs[j].apub # 0 => recs'[j].apub = recs[j].apub
        BY <1>4, <1>19, <1>24
      <4>2. handed'[f] = handed[f]
        BY <1>14, <2>3
      <4>3. QED
        BY <1>24, <2>1, <4>1, <4>2 DEF HandedInv
    <3>2. KnownInv(f)'
      <4>1. CASE f = new
        <5>1. f \in OfRecord(i)' /\ i \in DOMAIN recs'
          BY <1>24, <1>29, <4>1
        <5>2. QED
          BY <5>1 DEF KnownInv
      <4>2. CASE f # new
        <5>1. fdt'[f] = fdt[f] /\ recs # <<>>
          BY <1>13, <2>3, <4>2, Types
        <5>2. QED
          BY <1>1, <1>24, <1>30, <2>1, <5>1 DEF KnownInv
      <4>3. QED
        BY <4>1, <4>2
    <3>3. QED
      BY <3>1, <3>2
  <2>4. QED
    BY <2>2, <2>3
<1>32. ProcessInv'
  <2>1. \A j \in Records \ DOMAIN recs' : closing' \/ accepts'[j] = 0
    <3>1. \A j \in Records \ DOMAIN recs : closing \/ accepts[j] = 0
      BY DEF IInv, ProcessInv
    <3>2. \A j \in Records \ DOMAIN recs : accepts'[j] = accepts[j]
      BY <1>15
    <3>3. QED
      BY <1>1, <1>24, <3>1, <3>2
  <2>2. QED
    BY <1>1, <2>1 DEF ProcessInv
<1>33. QED
  BY <1>24, <1>25, <1>27, <1>28, <1>31, <1>32 DEF IInv

-----------------------------------------------------------------------------
(***************************************************************************)
(* The theorems.                                                           *)
(***************************************************************************)
LEMMA SafeNext ==
    ASSUME IInv, OneSidedProcess, [Next]_vars
    PROVE  IInv'
<1>1. CASE Socket
  BY <1>1, SafeSocket
<1>2. CASE TCP_Session_IPv4_Socket
  BY <1>2, SafeTcpSocket
<1>3. CASE free_all_connection
  BY <1>3, SafeFreeAll
<1>4. ASSUME NEW fd \in Fds, Calls(fd) PROVE IInv'
  BY <1>4, SafeListen, SafeConnect, SafeAccept, SafeClose, SafeCloseWait, SafeFall, SafeReAccept
     DEF Calls
<1>5. CASE Pass
  BY <1>5, SafePass
<1>6. CASE EndOfPass
  BY <1>6, SafeEndOfPass
<1>7. CASE ThreadStep
  BY <1>7, SafeCloseOld, SafeSetAccept DEF ThreadStep
<1>8. CASE UNCHANGED vars
  <2>1. UNCHANGED <<proc, recs, fdt, handed, accepts, thread, rip, ris, ntentativi, closing>>
    BY <1>8 DEF vars
  <2>2. TypeOK' /\ ProcessInv'
    BY <2>1 DEF IInv, TypeOK, ProcessInv, Dense
  <2>3. \A i \in DOMAIN recs : FieldsInv(i)' /\ ObjectsInv(i)'
    BY <2>1, ListSame, FieldsSame, ObjectsSame
  <2>4. \A c \in Accepted : ThreadInv(c)'
    BY <2>1 DEF IInv, ThreadInv, OfRecord, OfSocket
  <2>5. \A fd \in Fds : HandedInv(fd)' /\ KnownInv(fd)'
    BY <2>1 DEF IInv, HandedInv, KnownInv, OfRecord, OfSocket
  <2>6. QED
    BY <2>1, <2>2, <2>3, <2>4, <2>5 DEF IInv
<1>9. QED
  BY <1>1, <1>2, <1>3, <1>4, <1>5, <1>6, <1>7, <1>8 DEF Next

\* The list of records, the kernel's table and the threads in ReAccept agree in
\* every state: no number is in two fields of the list, and each has under it
\* the object its record says (socket_map_list_add_tail, set_accept_fd,
\* set_connect_fd and the closes of Close and ReAccept).
THEOREM MapInvariance ==
    ASSUME OneSidedProcess
    PROVE  Spec => []IInv
<1>1. Init => IInv
  BY InitIInv
<1>2. IInv /\ [Next]_vars => IInv'
  BY SafeNext
<1>3. QED
  BY <1>1, <1>2, PTL DEF Spec

\* The fields of the list and the threads hold values of their types.
THEOREM MapTypes ==
    ASSUME OneSidedProcess
    PROVE  Spec => []TypeOK
<1>1. IInv => TypeOK
  BY DEF IInv
<1>2. QED
  BY <1>1, MapInvariance, PTL

LEMMA InvResolves ==
    ASSUME IInv
    PROVE  Resolves
<1> SUFFICES ASSUME NEW fd \in Fds, handed[fd] # NoConn, ~ AtWork(handed[fd])
             PROVE  IF AcceptFailed(handed[fd])
                    THEN get_real_fd(fd) = -1
                    ELSE LeadsTo(fd, handed[fd]) /\ LeadsTo(get_real_fd(fd), handed[fd])
  BY DEF Resolves, Public
<1>1. PICK i \in DOMAIN recs : IsSocketOf(fd, i) \/ IsAcceptedOf(fd, i)
  BY PublicIs
<1>2. CASE IsSocketOf(fd, i)
  <2>1. PICK n \in Fds : /\ n = recs[i].priv /\ get_real_fd(fd) = n /\ get_real_fd(n) = n
                         /\ get_connection(n) = i /\ handed[fd] = <<i, 0>>
                         /\ fdt[n] \in {Obj("sock", <<i, 0>>), Obj("listen", <<i, 0>>)}
    BY <1>2, SocketIs, OwnNumber
  <2>2. fdt[n].conn = <<i, 0>> /\ fdt[n].kind \notin {"free", "null"}
    BY <2>1 DEF Obj
  <2>3. ~ AcceptFailed(handed[fd])
    BY <2>1 DEF AcceptFailed, Accepted
  <2>4. QED
    BY <2>1, <2>2, <2>3 DEF LeadsTo
<1>3. CASE IsAcceptedOf(fd, i)
  <2>1. /\ recs[i].apub # 0 /\ fd = recs[i].apub /\ handed[fd] = <<i, 1>> /\ <<i, 1>> \in Accepted
        /\ get_real_fd(fd) = recs[i].apriv
    BY <1>3, AcceptedNumber DEF IsAcceptedOf
  <2>2. CASE recs[i].apriv = -1
    BY <2>1, <2>2 DEF AcceptFailed
  <2>3. CASE recs[i].apriv # -1
    <3>1. PICK n \in Fds : /\ n = recs[i].apriv /\ get_real_fd(fd) = n /\ get_real_fd(n) = n
                           /\ get_connection(n) = i
      BY <2>1, <2>3, AcceptedNumber
    <3>2. thread[<<i, 1>>].at = "run"
      BY <2>1 DEF AtWork
    <3>3. fdt[n] = Obj("acc", <<i, 1>>)
      BY <2>1, <2>3, <3>1, <3>2 DEF IInv, ObjectsInv
    <3>4. fdt[n].conn = <<i, 1>> /\ fdt[n].kind \notin {"free", "null"}
      BY <3>3 DEF Obj
    <3>5. ~ AcceptFailed(handed[fd])
      BY <2>1, <2>3 DEF AcceptFailed
    <3>6. QED
      BY <2>1, <3>1, <3>4, <3>5 DEF LeadsTo
  <2>4. QED
    BY <2>2, <2>3
<1>4. QED
  BY <1>1, <1>2, <1>3

\* get_real_fd and get_connection lead from every descriptor the application holds
\* to its own connection, recovered or not; one whose accept failed leads to -1, and
\* none ever to a stranger's.
THEOREM DescriptorsResolve ==
    ASSUME OneSidedProcess
    PROVE  Spec => []Resolves
<1>1. IInv => Resolves
  BY InvResolves
<1>2. QED
  BY <1>1, MapInvariance, PTL

LEMMA InvNoLeak ==
    ASSUME IInv
    PROVE  NoLeak
<1> SUFFICES ASSUME NEW fd \in Fds, fdt[fd].kind # "free"
             PROVE  \/ get_connection(fd) # 0
                    \/ \E c \in Accepted : thread[c].fd = fd
                    \/ closing /\ recs = <<>> /\ fdt[fd].kind = "null"
  BY DEF NoLeak
<1>1. \A i \in DOMAIN recs : fd \in OfRecord(i) => get_connection(fd) # 0
  BY Lookup, Types DEF Records
<1>2. QED
  BY <1>1 DEF IInv, KnownInv

\* Whatever the process has open is in its list, or with the thread that is
\* about to put it there; what is left at the end is /dev/null.
THEOREM NothingLeaks ==
    ASSUME OneSidedProcess
    PROVE  Spec => []NoLeak
<1>1. IInv => NoLeak
  BY InvNoLeak
<1>2. QED
  BY <1>1, MapInvariance, PTL

\* What a table has open stays as it is when another descriptor is opened.
LEMMA OpenedBeside ==
    ASSUME NEW table, table = [f \in Fds |-> table[f]], NEW o, NEW fd \in Fds, table[fd].kind # "free"
    PROVE  Opened(table, o) = [f \in Fds |-> Opened(table, o)[f]] /\ Opened(table, o)[fd] = table[fd]
<1> DEFINE free == {f \in Fds : table[f].kind = "free"}
<1>1. free # {} => Min(free) # fd
  <2>1. free \in SUBSET Nat /\ fd \notin free
    BY SocketMapAssumption DEF Fds
  <2>2. QED
    BY <2>1, LeastNumber
<1>2. NextFd(table) = IF free = {} THEN -1 ELSE Min(free)
  BY DEF NextFd
<1> HIDE DEF free
<1>3. fd # -1
  BY SocketMapAssumption DEF Fds
<1>4. QED
  BY <1>1, <1>2, <1>3 DEF Opened

LEMMA StepListening ==
    ASSUME IInv, OneSidedProcess, Next, NEW fd \in Fds, fdt[fd].kind = "listen", ~ closing'
    PROVE  fdt'[fd] = fdt[fd]
<1>1. fdt = [f \in Fds |-> fdt[f]] /\ fdt[fd].kind # "free"
  BY Types
<1>2. CASE Socket
  BY <1>1, <1>2, OpenedBeside DEF Socket
<1>3. CASE TCP_Session_IPv4_Socket
  <2>1. PICK with : /\ with = Opened(fdt, Obj("sock", <<Len(recs) + 1, 0>>)) /\ fdt' = Opened(with, Null)
    BY <1>3 DEF TCP_Session_IPv4_Socket
  <2>2. with = [f \in Fds |-> with[f]] /\ with[fd] = fdt[fd]
    BY <1>1, <2>1, OpenedBeside
  <2>3. QED
    BY <1>1, <2>1, <2>2, OpenedBeside
<1>4. ASSUME NEW x \in Fds, Listen(x) PROVE fdt'[fd] = fdt[fd]
  <2>1. PICK s : s = get_real_fd(x)
    OBVIOUS
  <2>2. fdt[s].kind = "sock" /\ fdt' = [fdt EXCEPT ![s].kind = "listen"]
    BY <1>4, <2>1 DEF Listen
  <2>3. s # fd
    BY <2>2
  <2>4. QED
    BY <1>1, <2>2, <2>3
<1>5. ASSUME NEW c, NEW new PROVE /\ WithAccepted(new, c) = [f \in Fds |-> WithAccepted(new, c)[f]]
                                  /\ WithAccepted(new, c)[fd] = fdt[fd]
  BY <1>1, OpenedBeside DEF WithAccepted
<1>6. ASSUME NEW x \in Fds, Accept(x) PROVE fdt'[fd] = fdt[fd]
  <2>1. PICK with : /\ \E new, c : with = WithAccepted(new, c)
                    /\ fdt' = Opened(with, Null)
    <3>1. \E new, c : fdt' = Opened(WithAccepted(new, c), Null)
      BY <1>6 DEF Accept
    <3>2. QED
      BY <3>1
  <2>2. with = [f \in Fds |-> with[f]] /\ with[fd] = fdt[fd]
    BY <1>5, <2>1
  <2>3. QED
    BY <1>1, <2>1, <2>2, OpenedBeside
<1>7. ASSUME NEW x \in Fds, ReAccept(x) PROVE fdt'[fd] = fdt[fd]
  <2>1. \E new, c : fdt' = WithAccepted(new, c)
    BY <1>7 DEF ReAccept
  <2>2. QED
    BY <1>5, <2>1
<1>8. ASSUME NEW c \in Accepted, CloseOld(c) PROVE fdt'[fd] = fdt[fd]
  <2>1. thread[c].at = "close" /\ thread[c].at # "run"
    BY <1>8 DEF CloseOld
  <2>2. PICK i \in DOMAIN recs :
          /\ thread[c].tmp = i /\ recs[i].apub # 0 /\ recs[i].apriv \in Fds
          /\ get_real_fd(recs[i].apriv) = recs[i].apriv
    BY <2>1, InReAccept
  <2>3. fdt[recs[i].apriv] \in {Obj("acc", <<i, 1>>), Free}
    BY <2>2, Types DEF IInv, ObjectsInv
  <2>4. recs[i].apriv # fd
    BY <2>3 DEF Obj, Free
  <2>5. fdt' = closed(fdt, recs[i].apriv)
    BY <1>8, <2>2 DEF CloseOld
  <2>6. QED
    BY <2>4, <2>5 DEF closed
<1>9. CASE Pass
  BY <1>9, PassSame
<1>10. ASSUME NEW x \in Fds, Close(x) \/ CloseWait(x) PROVE FALSE
  BY <1>10 DEF Close, CloseWait
<1>11. ASSUME free_all_connection PROVE FALSE
  BY <1>11 DEF free_all_connection
<1>12. ASSUME NEW x \in Fds, Connect(x) \/ Fall(x) PROVE fdt'[fd] = fdt[fd]
  BY <1>12 DEF Connect, Fall
<1>13. CASE EndOfPass \/ \E c \in Accepted : set_accept_fd(c)
  BY <1>13 DEF EndOfPass, set_accept_fd
<1>14. QED
  BY <1>2, <1>3, <1>4, <1>6, <1>7, <1>8, <1>9, <1>10, <1>11, <1>12, <1>13 DEF Next, Calls, ThreadStep

\* A listening socket goes on listening until the application closes its sockets:
\* ReAccept and the accepts of other connections never touch it.
THEOREM ListeningIsKept ==
    ASSUME OneSidedProcess
    PROVE  Spec => ListeningKept
<1>1. IInv /\ [Next]_vars =>
        [\A fd \in Fds : fdt[fd].kind = "listen" /\ ~ closing' => fdt'[fd] = fdt[fd]]_vars
  BY StepListening
<1>2. QED
  BY <1>1, MapInvariance, PTL DEF Spec, ListeningKept

LEMMA StepNumbers ==
    ASSUME IInv, OneSidedProcess, Next, NEW i \in DOMAIN recs \cap DOMAIN recs'
    PROVE  recs'[i].priv = recs[i].priv
<1>1. recs[i] \in Record /\ recs \in Seq(Record) /\ i \in 1 .. Len(recs)
  BY Types
<1>2. ASSUME NEW r, recs' = Append(recs, r) PROVE recs'[i].priv = recs[i].priv
  BY <1>1, <1>2
<1>3. CASE Socket \/ TCP_Session_IPv4_Socket
  BY <1>2, <1>3 DEF Socket, TCP_Session_IPv4_Socket, socket_map_list_add_tail
<1>4. ASSUME NEW x \in Fds, Connect(x) PROVE recs'[i].priv = recs[i].priv
  <2>1. PICK k : recs' = [recs EXCEPT ![k].dim_info = 1]
    BY <1>4 DEF Connect, set_connect_info
  <2>2. QED
    BY <1>1, <2>1 DEF Record
<1>5. ASSUME NEW x \in Fds, Accept(x) PROVE recs'[i].priv = recs[i].priv
  <2>1. PICK k, pub, new : recs' = [recs EXCEPT ![k].apub = pub, ![k].apriv = new]
    BY ZenonT(40), <1>5 DEF Accept
  <2>2. QED
    BY <1>1, <2>1 DEF Record
<1>6. ASSUME NEW c \in Accepted, set_accept_fd(c) PROVE recs'[i].priv = recs[i].priv
  <2>1. PICK k, new : recs' = [recs EXCEPT ![k].apriv = new]
    BY <1>6 DEF set_accept_fd
  <2>2. QED
    BY <1>1, <2>1 DEF Record
<1>7. CASE Pass
  BY <1>7, PassSame DEF SameFields
<1>8. ASSUME free_all_connection PROVE FALSE
  BY <1>8 DEF free_all_connection
<1>9. ASSUME NEW x \in Fds, Listen(x) \/ Close(x) \/ CloseWait(x) \/ Fall(x) \/ ReAccept(x)
      PROVE  recs'[i].priv = recs[i].priv
  BY <1>9 DEF Listen, Close, CloseWait, Fall, ReAccept
<1>10. CASE EndOfPass \/ \E c \in Accepted : CloseOld(c)
  BY <1>10 DEF EndOfPass, CloseOld
<1>11. QED
  BY <1>3, <1>4, <1>5, <1>6, <1>7, <1>8, <1>9, <1>10 DEF Next, Calls, ThreadStep

\* Ripristino gives each connection of a client the private number it had: what
\* is freed is the lowest number that is not in use, so socket returns it again.
THEOREM NumbersAreKept ==
    ASSUME OneSidedProcess
    PROVE  Spec => NumbersKept
<1>1. IInv /\ [Next]_vars =>
        [\A i \in DOMAIN recs \cap DOMAIN recs' : recs'[i].priv = recs[i].priv]_vars
  BY StepNumbers
<1>2. QED
  BY <1>1, MapInvariance, PTL DEF Spec, NumbersKept

=============================================================================

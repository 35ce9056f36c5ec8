---------------------------- MODULE ProxyProofs ----------------------------
(***************************************************************************)
(* The proofs about Proxy: its invariant, that an end of file is true, and *)
(* that it implements LossyLinks.                                          *)
(***************************************************************************)
EXTENDS ProxyInv, SequenceTheorems, TLAPS

-----------------------------------------------------------------------------
(***************************************************************************)
(* Directions and sequences of units.                                      *)
(***************************************************************************)
LEMMA AcrossDir ==
    ASSUME NEW d \in Dirs
    PROVE  /\ Across(d) \in Dirs /\ Across(d) # d /\ Across(Across(d)) = d
           /\ d[1] \in Conns /\ Across(d)[1] = d[1]
           /\ d = <<d[1], "browser">> \/ d = <<d[1], "server">>
           /\ d = <<d[1], d[2]>> /\ d[2] \in Ends
<1>1. PICK c \in Conns, e \in Ends : d = <<c, e>>
  BY DEF Dirs
<1>2. other(e) \in Ends /\ other(e) # e /\ other(other(e)) = e
  BY DEF Ends, other
<1>3. QED
  BY <1>1, <1>2 DEF Dirs, Across, Ends

LEMMA UnitsSeq ==
    ASSUME NEW n \in Nat, NEW m \in 0 .. n
    PROVE  /\ Upto(n) \in Seq(Nat) /\ Len(Upto(n)) = n
           /\ Last(m, n) \in Seq(Nat) /\ Len(Last(m, n)) = m
<1>1. Upto(n) \in [1 .. n -> Nat] /\ Last(m, n) \in [1 .. m -> Nat]
  BY DEF Upto, Last
<1>2. QED
  BY <1>1 DEF Upto, Last

\* Units delivered from the front of the last m of n.
LEMMA FrontUnits ==
    ASSUME NEW n \in Nat, NEW m \in 0 .. n, NEW k \in 1 .. m
    PROVE  /\ SubSeq(Last(m, n), k + 1, m) = Last(m - k, n)
           /\ Upto(n - m) \o SubSeq(Last(m, n), 1, k) = Upto(n - m + k)
<1> DEFINE l == Last(m, n)
           a == SubSeq(l, k + 1, m)
           b == SubSeq(l, 1, k)
           u == Upto(n - m)
<1>1. l \in Seq(Nat) /\ Len(l) = m /\ \A i \in 1 .. m : l[i] = n - m + i
  BY UnitsSeq DEF Last
<1>2. u \in Seq(Nat) /\ Len(u) = n - m /\ \A i \in 1 .. (n - m) : u[i] = i
  BY UnitsSeq DEF Upto
<1>3. a = [i \in 1 .. (m - k) |-> l[i + k]] /\ b = [i \in 1 .. k |-> l[i]]
  <2>1. a = [i \in 1 .. (m - (k + 1) + 1) |-> l[i + (k + 1) - 1]]
    BY <1>1
  <2>2. b = [i \in 1 .. k |-> l[i]]
    BY <1>1
  <2>3. \A i \in 1 .. (m - k) : l[i + (k + 1) - 1] = l[i + k]
    OBVIOUS
  <2>4. m - (k + 1) + 1 = m - k
    OBVIOUS
  <2>5. QED
    BY <2>1, <2>2, <2>3, <2>4
<1>4. a = Last(m - k, n)
  BY <1>1, <1>3 DEF Last
<1>5. /\ u \o b \in Seq(Nat) /\ Len(u \o b) = n - m + k
      /\ \A i \in 1 .. (n - m + k) :
           (u \o b)[i] = IF i <= n - m THEN u[i] ELSE b[i - (n - m)]
  <2>1. b \in Seq(Nat) /\ Len(b) = k
    BY <1>1, <1>3
  <2>2. n - m \in Nat /\ k \in Nat
    OBVIOUS
  <2> HIDE DEF u, b
  <2>3. /\ u \o b \in Seq(Nat) /\ Len(u \o b) = Len(u) + Len(b)
        /\ \A i \in 1 .. Len(u) + Len(b) :
             (u \o b)[i] = IF i <= Len(u) THEN u[i] ELSE b[i - Len(u)]
    BY <1>2, <2>1, ConcatProperties
  <2>4. QED
    BY <1>2, <2>1, <2>2, <2>3
<1>6. \A i \in 1 .. (n - m + k) :
        (IF i <= n - m THEN u[i] ELSE b[i - (n - m)]) = i
  <2> SUFFICES ASSUME NEW i \in 1 .. (n - m + k), ~ (i <= n - m)
               PROVE  b[i - (n - m)] = i
    BY <1>2
  <2>1. i - (n - m) \in 1 .. k
    OBVIOUS
  <2>2. b[i - (n - m)] = l[i - (n - m)]
    BY <1>3, <2>1
  <2>3. QED
    BY <1>1, <2>1, <2>2
<1>7. Upto(n - m + k) \in Seq(Nat) /\ Len(Upto(n - m + k)) = n - m + k
  BY DEF Upto
<1>8. u \o b = Upto(n - m + k)
  BY <1>5, <1>6, <1>7, SeqEqual DEF Upto
<1>9. QED
  BY <1>4, <1>8

-----------------------------------------------------------------------------
(***************************************************************************)
(* One lemma per action: it preserves the invariant.                       *)
(***************************************************************************)
LEMMA InitIInv == Init => IInv
<1> SUFFICES ASSUME Init PROVE IInv
  OBVIOUS
<1>1. TypeOK
  BY ProxyAssumption DEF Init, TypeOK, Idle, Places
<1>2. ASSUME NEW d \in Dirs PROVE Inv(d)
  <2>1. Across(d) \in Dirs /\ d[1] \in Conns
    BY AcrossDir
  <2>2. Upto(0) = <<>>
    BY UnitsSeq
  <2>3. SetupInv(d) /\ EndInv(d) /\ SeenInv(d)
    BY <2>1 DEF Init, Idle, SetupInv, EndInv, SeenInv
  <2>4. /\ thread[d].at = "none" /\ thread[d].buf = <<>> /\ got[Across(d)] = <<>>
        /\ taken[d] = 0 /\ out[d] = 0
    BY <2>1 DEF Init, Idle
  <2>5. DataInv(d)
    BY <2>2, <2>4 DEF DataInv
  <2>6. QED
    BY <2>3, <2>5 DEF Inv
<1>3. QED
  BY <1>1, <1>2 DEF IInv

\* What each part of the invariant depends on.
LEMMA SetupSame ==
    ASSUME NEW d \in Dirs, Inv(d), setup'[d[1]] = setup[d[1]], thread'[d] = thread[d]
    PROVE  SetupInv(d)'
BY DEF Inv, SetupInv

LEMMA DataSame ==
    ASSUME NEW d \in Dirs, Inv(d), thread'[d] = thread[d], taken'[d] = taken[d],
           got'[Across(d)] = got[Across(d)], out'[d] = out[d],
           way'[Across(d)] = way[Across(d)]
    PROVE  DataInv(d)'
BY DEF Inv, DataInv

LEMMA EndSame ==
    ASSUME NEW d \in Dirs, Inv(d), thread'[d] = thread[d], taken'[d] = taken[d],
           out'[d] = out[d], way'[d] = way[d]
    PROVE  EndInv(d)'
BY DEF Inv, EndInv, Finished

LEMMA SeenSame ==
    ASSUME NEW d \in Dirs, Inv(d), main' = main \/ ~ Running', setup'[d[1]] = setup[d[1]],
           seen'[d] = seen[d] \/ ~ Running', thread'[Across(d)].at = thread[Across(d)].at,
           taken'[Across(d)] = taken[Across(d)], out'[Across(d)] = out[Across(d)],
           way'[d] = way[d], way'[Across(d)] = way[Across(d)], got'[d] = got[d]
    PROVE  SeenInv(d)'
BY DEF Inv, SeenInv, Finished, Running

LEMMA SafeMain ==
    ASSUME IInv, segnalasimulatimeout \/ segnalacontinua \/ exit
    PROVE  IInv'
<1>1. TypeOK'
  <2>1. /\ main' \in {"select", "timeout", "exited"} /\ fine' \in 0 .. 2
        /\ timeouts' \in 0 .. MaxTimeouts
    BY ProxyAssumption DEF IInv, TypeOK, segnalasimulatimeout, segnalacontinua, exit
  <2>2. seen' \in [Dirs -> {"open", "eof", "reset"}]
    <3>1. CASE exit
      <4>1. \A d \in Dirs : Closed(d) \in {"open", "eof", "reset"}
        BY DEF IInv, TypeOK, Closed
      <4>2. QED
        BY <3>1, <4>1 DEF exit
    <3>2. QED
      BY <3>1 DEF IInv, TypeOK, segnalasimulatimeout, segnalacontinua
  <2>3. UNCHANGED <<setup, thread, taken, out, way, got>>
    BY DEF segnalasimulatimeout, segnalacontinua, exit
  <2>4. QED
    BY <2>1, <2>2, <2>3 DEF IInv, TypeOK
<1>2. ASSUME NEW d \in Dirs PROVE Inv(d)'
  <2>1. /\ Inv(d) /\ UNCHANGED <<setup, thread, taken, out, way, got>>
        /\ (Running' => Running /\ seen' = seen)
    BY DEF IInv, segnalasimulatimeout, segnalacontinua, exit, Running
  <2>2. SeenInv(d)'
    BY <2>1 DEF Inv, SeenInv, Finished
  <2>3. QED
    BY <2>1, <2>2, SetupSame, DataSame, EndSame DEF Inv
<1>3. QED
  BY <1>1, <1>2 DEF IInv

\* While a connection is not up its threads do not run; of the others nothing
\* changes.
LEMMA SafeSetup ==
    ASSUME IInv, NEW c \in Conns, accept(c) \/ Setup(c)
    PROVE  IInv'
<1> DEFINE b == <<c, "browser">>
           s == <<c, "server">>
<1>1. TypeOK /\ b \in Dirs /\ s \in Dirs /\ b # s /\ Running /\ setup[c] # "up"
  BY DEF IInv, Dirs, Ends, accept, Setup, begin, setup_connection, SetupFails, Running
<1>2. Inv(b) /\ Inv(s) /\ thread[b] = Idle /\ thread[s] = Idle /\ thread \in [Dirs -> [at : Places, buf : Seq(Nat)]]
  BY <1>1 DEF IInv, Inv, SetupInv, TypeOK
<1>3. UNCHANGED <<main, taken, out, way, got>>
  BY DEF accept, Setup, begin, setup_connection, SetupFails
<1>4. TypeOK'
  <2>1. /\ fine' \in 0 .. 2 /\ timeouts' = timeouts
        /\ setup' \in [Conns -> {"none", "accepted", "connecting", "up", "failed"}]
    <3>1. CASE accept(c) \/ begin(c)
      <4>1. fine \in 0 .. 2 /\ setup \in [Conns -> {"none", "accepted", "connecting", "up", "failed"}]
        BY <1>1 DEF TypeOK
      <4>2. fine' \in 0 .. 2 /\ timeouts' = timeouts
        BY <3>1, <4>1 DEF accept, begin
      <4>3. setup' = [setup EXCEPT ![c] = "accepted"] \/ setup' = [setup EXCEPT ![c] = "connecting"]
        BY <3>1 DEF accept, begin
      <4>4. QED
        BY <4>1, <4>2, <4>3
    <3>2. CASE setup_connection(c) \/ SetupFails(c)
      BY <1>1, <3>2 DEF TypeOK, setup_connection, SetupFails
    <3>3. QED
      BY <3>1, <3>2 DEF Setup
  <2>2. seen' \in [Dirs -> {"open", "eof", "reset"}]
    BY ZenonT(40), <1>1 DEF TypeOK, accept, Setup, begin, setup_connection, SetupFails, Closed
  <2>3. /\ thread' \in [Dirs -> [at : Places, buf : Seq(Nat)]]
        /\ \A d \in Dirs : thread'[d].at = "read" => thread'[d].buf = <<>>
    <3>1. CASE setup_connection(c)
      <4>1. thread' = [thread EXCEPT ![b].at = "start", ![s].at = "read"]
        BY <3>1 DEF setup_connection
      <4>2. /\ DOMAIN thread' = Dirs
            /\ thread'[b] = [thread[b] EXCEPT !.at = "start"]
            /\ thread'[s] = [thread[s] EXCEPT !.at = "read"]
            /\ \A d \in Dirs \ {b, s} : thread'[d] = thread[d]
        BY <1>1, <1>2, <4>1
      <4>3. /\ thread'[b] = [at |-> "start", buf |-> <<>>]
            /\ thread'[s] = [at |-> "read", buf |-> <<>>]
        BY <1>2, <4>2 DEF Idle
      <4>4. \A d \in Dirs : thread'[d] \in [at : Places, buf : Seq(Nat)]
        <5>1. <<>> \in Seq(Nat)
          OBVIOUS
        <5>2. thread'[b] \in [at : Places, buf : Seq(Nat)] /\ thread'[s] \in [at : Places, buf : Seq(Nat)]
          BY <4>3, <5>1 DEF Places
        <5>3. QED
          BY ZenonT(40), <1>2, <4>2, <5>2
      <4>5. thread' = [d \in Dirs |-> thread'[d]]
        BY <4>1, <1>2
      <4>6. \A d \in Dirs : thread'[d].at = "read" => thread'[d].buf = <<>>
        <5>1. \A d \in Dirs \ {b, s} : thread[d].at = "read" => thread[d].buf = <<>>
          BY <1>1 DEF TypeOK
        <5>2. \A d \in Dirs \ {b, s} : thread'[d].at = "read" => thread'[d].buf = <<>>
          BY <4>2, <5>1
        <5>3. QED
          BY <4>3, <5>2
      <4>7. QED
        BY <4>4, <4>5, <4>6
    <3>2. QED
      BY <1>1, <3>1 DEF TypeOK, accept, Setup, begin, SetupFails
  <2>4. QED
    BY <1>1, <1>3, <2>1, <2>2, <2>3 DEF TypeOK
<1>5. ASSUME NEW d \in Dirs, d[1] = c PROVE Inv(d)'
  <2>1. d \in {b, s} /\ Across(d) \in {b, s} /\ Across(d) \in Dirs /\ Across(d)[1] = c
    BY <1>5, AcrossDir DEF Across, other
  <2>2. Inv(d) /\ thread[d] = Idle /\ thread[Across(d)] = Idle
    BY <1>2, <2>1
  <2>3. /\ thread[d].at = "none" /\ thread[d].buf = <<>>
        /\ setup \in [Conns -> {"none", "accepted", "connecting", "up", "failed"}]
    BY <1>1, <2>2 DEF Idle, TypeOK
  <2>4. \/ setup'[c] = "up" /\ thread'[d].at \in {"start", "read"} /\ thread'[d].buf = <<>> /\ seen' = seen
        \/ setup'[c] \in {"accepted", "connecting"} /\ thread' = thread /\ seen' = seen
        \/ setup'[c] = "failed" /\ thread' = thread
    <3>1. CASE setup_connection(c)
      <4>1. thread' = [thread EXCEPT ![b].at = "start", ![s].at = "read"]
        BY <3>1 DEF setup_connection
      <4>2. /\ thread'[b] = [thread[b] EXCEPT !.at = "start"]
            /\ thread'[s] = [thread[s] EXCEPT !.at = "read"]
        BY <1>1, <1>2, <4>1
      <4>3. /\ thread'[b] = [at |-> "start", buf |-> <<>>]
            /\ thread'[s] = [at |-> "read", buf |-> <<>>]
        BY <1>2, <4>2 DEF Idle
      <4>4. thread'[d].at \in {"start", "read"} /\ thread'[d].buf = <<>>
        BY <2>1, <4>3
      <4>5. setup'[c] = "up" /\ seen' = seen
        BY <2>3, <3>1 DEF setup_connection
      <4>6. QED
        BY <4>4, <4>5
    <3>2. QED
      BY <2>3, <3>1 DEF accept, Setup, begin, SetupFails
  <2>5. thread'[d].at \in {"none", "start", "read"} /\ thread'[d].buf = <<>>
    BY <2>3, <2>4
  <2>6. SetupInv(d)'
    BY <1>5, <2>2, <2>4 DEF SetupInv
  <2>7. DataInv(d)'
    <3>1. /\ taken[d] <= out[d] /\ got[Across(d)] = Upto(Len(got[Across(d)]))
          /\ Len(got[Across(d)]) <= taken[d]
          /\ way[Across(d)] # "gone" => Len(got[Across(d)]) + Len(<<>>) = taken[d]
      BY <2>2, <2>3 DEF Inv, DataInv
    <3>2. QED
      BY <1>3, <2>5, <3>1 DEF DataInv
  <2>8. EndInv(d)'
    BY <2>5 DEF EndInv
  <2>9. SeenInv(d)'
    <3>1. setup[c] \in {"none", "accepted", "connecting"}
      BY DEF accept, Setup, begin, setup_connection, SetupFails
    <3>2. seen[d] = "open"
      BY <1>1, <1>5, <2>2, <3>1 DEF Inv, SeenInv
    <3>3. QED
      BY <1>5, <2>4, <3>2 DEF SeenInv
  <2>10. QED
    BY <2>6, <2>7, <2>8, <2>9 DEF Inv
<1>6. ASSUME NEW d \in Dirs, d[1] # c PROVE Inv(d)'
  <2>1. Across(d) \in Dirs /\ d[1] \in Conns /\ Across(d)[1] = d[1] /\ Inv(d)
    BY AcrossDir DEF IInv
  <2>2. /\ setup'[d[1]] = setup[d[1]] /\ seen'[d] = seen[d]
        /\ thread'[d] = thread[d] /\ thread'[Across(d)] = thread[Across(d)]
    <3>1. d # b /\ Across(d) # s /\ d # s /\ Across(d) # b
      BY <1>6, <2>1
    <3>2. setup'[d[1]] = setup[d[1]]
      BY <1>1, <1>6, <2>1 DEF accept, Setup, begin, setup_connection, SetupFails, TypeOK
    <3>3. seen'[d] = seen[d]
      BY <1>1, <3>1 DEF accept, Setup, begin, setup_connection, SetupFails, TypeOK
    <3>4. thread'[d] = thread[d] /\ thread'[Across(d)] = thread[Across(d)]
      BY <1>2, <2>1, <3>1 DEF accept, Setup, begin, setup_connection, SetupFails
    <3>5. QED
      BY <3>2, <3>3, <3>4
  <2>3. QED
    BY <1>3, <2>1, <2>2, SetupSame, DataSame, EndSame, SeenSame DEF Inv
<1>7. QED
  BY <1>4, <1>5, <1>6 DEF IInv

LEMMA SafeSend ==
    ASSUME IInv, NEW d \in Dirs, Send(d)
    PROVE  IInv'
<1>1. out \in [Dirs -> Nat] /\ out' = [out EXCEPT ![d] = @ + 1] /\ way[d] = "open"
  BY DEF IInv, TypeOK, Send
<1>2. UNCHANGED <<main, fine, setup, thread, taken, way, got, seen, timeouts>>
  BY DEF Send
<1>3. out' \in [Dirs -> Nat] /\ \A e \in Dirs : out'[e] >= out[e] /\ (way[e] # "open" => out'[e] = out[e])
  BY <1>1
<1>4. TypeOK'
  BY <1>2, <1>3 DEF IInv, TypeOK
<1>5. ASSUME NEW e \in Dirs PROVE Inv(e)'
  <2>1. Across(e) \in Dirs /\ Inv(e) /\ taken[e] \in Nat /\ out[e] \in Nat /\ out'[e] \in Nat
    BY <1>1, <1>3, AcrossDir DEF IInv, TypeOK
  <2>2. SetupInv(e)'
    BY <1>2, <2>1, SetupSame
  <2>3. DataInv(e)'
    <3>1. UNCHANGED <<thread, taken, got, way>> /\ DataInv(e)
      BY <1>2, <2>1 DEF Inv
    <3>2. taken[e] <= out'[e]
      <4>1. taken[e] <= out[e]
        BY <3>1 DEF DataInv
      <4>2. out[e] <= out'[e]
        BY <1>3
      <4>3. QED
        BY <2>1, <4>1, <4>2
    <3>3. QED
      BY <3>1, <3>2 DEF DataInv
  <2>4. EndInv(e)' /\ SeenInv(e)'
    BY <1>2, <1>3, <2>1 DEF Inv, EndInv, SeenInv, Finished, Running
  <2>5. QED
    BY <2>2, <2>3, <2>4 DEF Inv
<1>6. QED
  BY <1>4, <1>5 DEF IInv

LEMMA SafeLeave ==
    ASSUME IInv, NEW d \in Dirs, NEW how \in {"fin", "gone"}, Leave(d, how)
    PROVE  IInv'
<1>1. /\ way \in [Dirs -> {"open", "fin", "gone"}] /\ way' = [way EXCEPT ![d] = how]
      /\ way[d] \in {"open", "fin"} \ {how}
  BY DEF IInv, TypeOK, Leave
<1>2. UNCHANGED <<main, fine, setup, thread, taken, out, got, seen, timeouts>>
  BY DEF Leave
<1>3. /\ way' \in [Dirs -> {"open", "fin", "gone"}]
      /\ \A e \in Dirs : way[e] # "open" => way'[e] # "open"
      /\ \A e \in Dirs : way[e] = "gone" => way'[e] = "gone"
      /\ \A e \in Dirs : way'[e] = "fin" => way[e] \in {"open", "fin"}
      /\ \A e \in Dirs : way'[e] = "fin" /\ way[e] # "open" => way[e] = "fin"
  BY <1>1
<1>4. TypeOK'
  BY <1>2, <1>3 DEF IInv, TypeOK
<1>5. ASSUME NEW e \in Dirs PROVE Inv(e)'
  <2>1. Across(e) \in Dirs /\ Inv(e)
    BY AcrossDir DEF IInv
  <2>2. SetupInv(e)'
    BY <1>2, <2>1, SetupSame
  <2>3. DataInv(e)'
    <3>1. way'[Across(e)] # "gone" => way[Across(e)] # "gone"
      BY <1>3, <2>1
    <3>2. UNCHANGED <<thread, taken, out, got>> /\ DataInv(e)
      BY <1>2, <2>1 DEF Inv
    <3>3. QED
      BY <3>1, <3>2 DEF DataInv
  <2>4. EndInv(e)' /\ SeenInv(e)'
    BY <1>2, <1>3, <2>1 DEF Inv, EndInv, SeenInv, Finished, Running
  <2>5. QED
    BY <2>2, <2>3, <2>4 DEF Inv
<1>6. QED
  BY <1>4, <1>5 DEF IInv

-----------------------------------------------------------------------------
(***************************************************************************)
(* The steps of forward.  Each changes its own thread, what it has taken,  *)
(* what the other end has received and how that sees its connection, so    *)
(* that only three parts of the invariant are to be proved of it.          *)
(***************************************************************************)
Thread == [at : Places, buf : Seq(Nat)]

LEMMA OneThread ==
    ASSUME IInv, NEW d \in Dirs, thread[d].at # "none",
           NEW t \in Thread, t.at # "none", t.at = "read" => t.buf = <<>>,
           NEW n \in Nat, NEW g \in Seq(Nat), NEW v \in {"open", "eof", "reset"},
           thread' = [thread EXCEPT ![d] = t], taken' = [taken EXCEPT ![d] = n],
           got' = [got EXCEPT ![Across(d)] = g], seen' = [seen EXCEPT ![Across(d)] = v],
           fine' \in 0 .. 2, UNCHANGED <<main, setup, out, way, timeouts>>,
           DataInv(d)', EndInv(d)', SeenInv(Across(d))'
    PROVE  IInv'
<1> DEFINE a == Across(d)
<1>1. a \in Dirs /\ a # d /\ Across(a) = d /\ a[1] = d[1]
  BY AcrossDir
<1>2. /\ thread \in [Dirs -> Thread] /\ taken \in [Dirs -> Nat] /\ got \in [Dirs -> Seq(Nat)]
      /\ seen \in [Dirs -> {"open", "eof", "reset"}]
      /\ \A e \in Dirs : thread[e].at = "read" => thread[e].buf = <<>>
  BY DEF IInv, TypeOK, Thread
<1>3. /\ thread' \in [Dirs -> Thread] /\ taken' \in [Dirs -> Nat] /\ got' \in [Dirs -> Seq(Nat)]
      /\ seen' \in [Dirs -> {"open", "eof", "reset"}]
      /\ thread'[d] = t /\ taken'[d] = n /\ got'[a] = g /\ seen'[a] = v
      /\ \A e \in Dirs : e # d => thread'[e] = thread[e] /\ taken'[e] = taken[e]
      /\ \A e \in Dirs : e # a => got'[e] = got[e] /\ seen'[e] = seen[e]
  BY <1>1, <1>2
<1>4. TypeOK'
  <2>1. \A e \in Dirs : thread'[e].at = "read" => thread'[e].buf = <<>>
    BY <1>2, <1>3
  <2>2. QED
    BY <1>3, <2>1 DEF IInv, TypeOK, Thread
<1>5. ASSUME NEW e \in Dirs PROVE Inv(e)'
  <2>1. Across(e) \in Dirs /\ Across(Across(e)) = e /\ Inv(e)
    BY AcrossDir DEF IInv
  <2>2. SetupInv(e)'
    <3>1. CASE e = d
      BY <1>3, <2>1, <3>1 DEF Inv, SetupInv, Idle
    <3>2. CASE e # d
      BY <1>3, <2>1, <3>2, SetupSame
    <3>3. QED
      BY <3>1, <3>2
  <2>3. DataInv(e)' /\ EndInv(e)'
    <3>1. CASE e # d
      <4>1. Across(e) # a
        BY <1>1, <2>1, <3>1
      <4>2. QED
        BY <1>3, <2>1, <3>1, <4>1, DataSame, EndSame
    <3>2. QED
      BY <3>1
  <2>4. SeenInv(e)'
    <3>1. CASE e # a
      <4>1. Across(e) # d
        BY <2>1, <3>1
      <4>2. QED
        BY <1>3, <2>1, <3>1, <4>1, SeenSame
    <3>2. QED
      BY <3>1
  <2>5. QED
    BY <2>2, <2>3, <2>4 DEF Inv
<1>6. QED
  BY <1>4, <1>5 DEF IInv

\* What the lemmas below use of the state before the step.
LEMMA Before ==
    ASSUME IInv, NEW d \in Dirs
    PROVE  /\ Across(d) \in Dirs /\ Across(Across(d)) = d /\ Across(d)[1] = d[1]
           /\ Inv(d) /\ Inv(Across(d))
           /\ thread \in [Dirs -> Thread] /\ thread[d] \in Thread
           /\ thread[d].at \in Places /\ thread[d].buf \in Seq(Nat) /\ Len(thread[d].buf) \in Nat
           /\ taken \in [Dirs -> Nat] /\ taken[d] \in Nat /\ out[d] \in Nat
           /\ got \in [Dirs -> Seq(Nat)] /\ got[Across(d)] \in Seq(Nat) /\ Len(got[Across(d)]) \in Nat
           /\ seen \in [Dirs -> {"open", "eof", "reset"}]
           /\ seen[Across(d)] \in {"open", "eof", "reset"} /\ fine \in 0 .. 2
<1>1. Across(d) \in Dirs /\ Across(Across(d)) = d /\ Across(d)[1] = d[1]
  BY AcrossDir
<1>2. thread \in [Dirs -> Thread] /\ fine \in 0 .. 2
  BY DEF IInv, TypeOK, Thread
<1>3. thread[d] \in Thread /\ thread[d].at \in Places /\ thread[d].buf \in Seq(Nat)
  BY <1>2 DEF Thread
<1>4. Len(thread[d].buf) \in Nat
  BY <1>3
<1>5. /\ taken \in [Dirs -> Nat] /\ out \in [Dirs -> Nat] /\ got \in [Dirs -> Seq(Nat)]
      /\ seen \in [Dirs -> {"open", "eof", "reset"}]
  BY DEF IInv, TypeOK
<1>6. Len(got[Across(d)]) \in Nat
  BY <1>1, <1>5
<1>7. QED
  BY <1>1, <1>2, <1>3, <1>4, <1>5, <1>6 DEF IInv

\* A thread that goes from one place to another with what it holds.
LEMMA OnlyPlace ==
    ASSUME IInv, NEW d \in Dirs, thread[d].at # "none", NEW p \in Places \ {"none"},
           thread' = [thread EXCEPT ![d].at = p], fine' \in 0 .. 2,
           UNCHANGED <<main, setup, taken, out, way, got, seen, timeouts>>,
           p = "read" => thread[d].buf = <<>>,
           thread'[d].at = p /\ thread'[d].buf = thread[d].buf =>
               DataInv(d)' /\ EndInv(d)' /\ SeenInv(Across(d))'
    PROVE  IInv'
<1> DEFINE t == [at |-> p, buf |-> thread[d].buf]
<1>1. thread' = [thread EXCEPT ![d] = t] /\ t \in Thread
  <2>1. thread[d] \in Thread
    BY Before
  <2>2. [thread[d] EXCEPT !.at = p] = t /\ t \in Thread
    BY <2>1 DEF Thread
  <2>3. thread' = [thread EXCEPT ![d] = [thread[d] EXCEPT !.at = p]]
    OBVIOUS
  <2>4. QED
    BY <2>2, <2>3
<1>2. thread'[d] = t
  BY <1>1, Before
<1>3. /\ taken' = [taken EXCEPT ![d] = taken[d]]
      /\ got' = [got EXCEPT ![Across(d)] = got[Across(d)]]
      /\ seen' = [seen EXCEPT ![Across(d)] = seen[Across(d)]]
  BY Before
<1>4. /\ thread[d].at # "none" /\ t.at # "none" /\ (t.at = "read" => t.buf = <<>>)
      /\ taken[d] \in Nat /\ got[Across(d)] \in Seq(Nat)
      /\ seen[Across(d)] \in {"open", "eof", "reset"}
  BY Before
<1>5. DataInv(d)' /\ EndInv(d)' /\ SeenInv(Across(d))'
  <2>1. t.at = p /\ t.buf = thread[d].buf
    OBVIOUS
  <2> HIDE DEF t
  <2>2. QED
    BY <1>2, <2>1
<1> HIDE DEF t
<1>6. QED
  BY <1>1, <1>3, <1>4, <1>5, OneThread

LEMMA SafeStart ==
    ASSUME IInv, NEW d \in Dirs, start(d)
    PROVE  IInv'
<1>1. /\ thread[d].at = "start" /\ UNCHANGED <<main, setup, taken, out, way, got, seen, timeouts>>
  BY DEF start
<1>2. thread[d].buf = <<>>
  BY <1>1, Before DEF Inv, DataInv
<1>3. fine' \in 0 .. 2 /\ "read" \in Places \ {"none"} /\ "lost" \in Places \ {"none"}
  <2>1. fine \in 0 .. 2
    BY Before
  <2>2. QED
    BY <2>1 DEF start, Places
<1>4. ASSUME thread'[d].at \in {"read", "lost"}, thread'[d].buf = <<>>
      PROVE  DataInv(d)' /\ EndInv(d)' /\ SeenInv(Across(d))'
  <2>1. DataInv(d)'
    BY <1>1, <1>2, <1>4, Before DEF Inv, DataInv
  <2>2. EndInv(d)'
    BY <1>4 DEF EndInv
  <2>3. SeenInv(Across(d))'
    BY <1>1, <1>4, Before DEF Inv, SeenInv, Running, Finished
  <2>4. QED
    BY <2>1, <2>2, <2>3
<1>5. CASE thread' = [thread EXCEPT ![d].at = "read"]
  <2>1. ASSUME thread'[d].at = "read", thread'[d].buf = thread[d].buf
        PROVE  DataInv(d)' /\ EndInv(d)' /\ SeenInv(Across(d))'
    BY <1>2, <1>4, <2>1
  <2>2. thread[d].at # "none" /\ ("read" = "read" => thread[d].buf = <<>>)
    BY <1>1, <1>2
  <2>3. QED
    BY <1>1, <1>3, <1>5, <2>1, <2>2, OnlyPlace
<1>6. CASE thread' = [thread EXCEPT ![d].at = "lost"]
  <2>1. ASSUME thread'[d].at = "lost", thread'[d].buf = thread[d].buf
        PROVE  DataInv(d)' /\ EndInv(d)' /\ SeenInv(Across(d))'
    BY <1>2, <1>4, <2>1
  <2>2. thread[d].at # "none" /\ ("lost" = "read" => thread[d].buf = <<>>)
    BY <1>1, <1>2
  <2>3. QED
    BY <1>1, <1>3, <1>6, <2>1, <2>2, OnlyPlace
<1>7. QED
  BY <1>5, <1>6 DEF start

LEMMA SafeCheckfine ==
    ASSUME IInv, NEW d \in Dirs, checkfine(d)
    PROVE  IInv'
<1> DEFINE p == CASE fine = 2 -> "timed out"
                  [] fine # 2 /\ thread[d].at = "read data" -> "sendn"
                  [] fine # 2 /\ thread[d].at = "read end" -> "shutdown"
<1>1. /\ thread[d].at \in {"read data", "read end"} /\ thread' = [thread EXCEPT ![d].at = p]
      /\ UNCHANGED <<main, fine, setup, taken, out, way, got, seen, timeouts>>
  BY DEF checkfine
<1>2. /\ p \in {"timed out", "sendn", "shutdown"} /\ p # "read"
      /\ p = "sendn" => thread[d].at = "read data"
      /\ p = "shutdown" => thread[d].at = "read end"
  BY <1>1
<1> HIDE DEF p
<1>3. ASSUME thread'[d].at = p, thread'[d].buf = thread[d].buf
      PROVE  DataInv(d)' /\ EndInv(d)' /\ SeenInv(Across(d))'
  <2>1. DataInv(d)'
    BY <1>1, <1>2, <1>3, Before DEF Inv, DataInv
  <2>2. EndInv(d)'
    <3>1. EndInv(d)
      BY Before DEF Inv
    <3>2. thread'[d].at = p
      BY <1>3
    <3>3. p = "shutdown" \/ p \notin {"read end", "shutdown"}
      BY <1>2
    <3>4. QED
      BY <1>1, <1>2, <3>1, <3>2, <3>3 DEF EndInv, Finished
  <2>3. SeenInv(Across(d))'
    BY <1>1, <1>2, <1>3, Before DEF Inv, SeenInv, Running, Finished
  <2>4. QED
    BY <2>1, <2>2, <2>3
<1>4. p \in Places \ {"none"} /\ fine' \in 0 .. 2
  BY <1>1, <1>2, Before DEF Places
<1>5. QED
  BY <1>1, <1>2, <1>3, <1>4, OnlyPlace

LEMMA SafeSegnalafine ==
    ASSUME IInv, NEW d \in Dirs, segnalafine(d)
    PROVE  IInv'
<1>1. /\ thread[d].at = "again" /\ thread' = [thread EXCEPT ![d].at = "end"] /\ fine' = 1
      /\ UNCHANGED <<main, setup, taken, out, way, got, seen, timeouts>>
  BY DEF segnalafine
<1>2. ASSUME thread'[d].at = "end", thread'[d].buf = thread[d].buf
      PROVE  DataInv(d)' /\ EndInv(d)' /\ SeenInv(Across(d))'
  <2>1. DataInv(d)'
    BY <1>1, <1>2, Before DEF Inv, DataInv
  <2>2. EndInv(d)'
    BY <1>2 DEF EndInv
  <2>3. SeenInv(Across(d))'
    BY <1>1, <1>2, Before DEF Inv, SeenInv, Running, Finished
  <2>4. QED
    BY <2>1, <2>2, <2>3
<1>3. "end" \in Places \ {"none"} /\ fine' \in 0 .. 2
  BY <1>1 DEF Places
<1>4. QED
  BY <1>1, <1>2, <1>3, OnlyPlace

\* A thread whose forward returns; how the other end sees that.
LEMMA SafeReturns ==
    ASSUME IInv, NEW d \in Dirs, thread[d].at \in {"sendn", "shutdown"}, Returns(d),
           UNCHANGED <<main, setup, taken, out, way, got, timeouts>>,
           NEW v \in {"open", "eof", "reset"}, seen' = [seen EXCEPT ![Across(d)] = v],
           seen'[Across(d)] = v => SeenInv(Across(d))' \/ v = seen[Across(d)]
    PROVE  IInv'
<1> DEFINE p == IF d[2] = "server" THEN "again" ELSE "end"
           t == [at |-> p, buf |-> <<>>]
<1>1. /\ fine' = 1 /\ thread' = [thread EXCEPT ![d] = t] /\ t \in Thread
      /\ t.at \in {"again", "end"} /\ t.buf = <<>>
  BY DEF Returns, Thread, Places
<1> HIDE DEF t
<1>2. /\ thread'[d] = t /\ seen'[Across(d)] = v
      /\ taken' = [taken EXCEPT ![d] = taken[d]]
      /\ got' = [got EXCEPT ![Across(d)] = got[Across(d)]]
  BY <1>1, Before
<1>3. DataInv(d)'
  BY <1>1, <1>2, Before DEF Inv, DataInv
<1>4. EndInv(d)'
  BY <1>1, <1>2 DEF EndInv
<1>5. SeenInv(Across(d))'
  BY <1>1, <1>2, Before DEF Inv, SeenInv, Running, Finished
<1>6. thread[d].at # "none" /\ fine' \in 0 .. 2 /\ t.at # "none" /\ t.at # "read"
  BY <1>1
<1>7. taken[d] \in Nat /\ got[Across(d)] \in Seq(Nat)
  BY Before
<1>8. QED
  BY <1>1, <1>2, <1>3, <1>4, <1>5, <1>6, <1>7, OneThread

LEMMA SafeSendnFails ==
    ASSUME IInv, NEW d \in Dirs, sendnFails(d)
    PROVE  IInv'
<1>1. /\ thread[d].at = "sendn" /\ Returns(d)
      /\ UNCHANGED <<main, setup, taken, out, way, got, seen, timeouts>>
  BY DEF sendnFails
<1>2. /\ seen' = [seen EXCEPT ![Across(d)] = seen[Across(d)]]
      /\ seen[Across(d)] \in {"open", "eof", "reset"}
  BY <1>1, Before
<1>3. QED
  BY <1>1, <1>2, SafeReturns

\* The end passed on is true: the thread holds nothing and has taken all.
LEMMA SafeShutdown ==
    ASSUME IInv, NEW d \in Dirs, shutdown(d)
    PROVE  IInv'
<1> DEFINE a == Across(d)
           v == IF seen[a] = "open" THEN "eof" ELSE seen[a]
<1>1. /\ thread[d].at = "shutdown" /\ Returns(d) /\ Running
      /\ seen' = [seen EXCEPT ![a] = v]
      /\ UNCHANGED <<main, setup, taken, out, way, got, timeouts>>
  BY DEF shutdown
<1>2. v \in {"open", "eof", "reset"}
  BY Before
<1>3. a \in Dirs /\ Across(a) = d /\ a[1] = d[1] /\ Inv(d) /\ Len(thread[d].buf) \in Nat
  BY Before
<1>4. ASSUME seen'[a] = v PROVE SeenInv(a)' \/ v = seen[a]
  <2> SUFFICES ASSUME seen[a] = "open" PROVE SeenInv(a)'
    BY <1>4
  <2>1. setup[a[1]] = "up"
    BY <1>1, <1>3 DEF Inv, SetupInv, Idle
  <2>2. Finished(d) /\ (way[a] # "gone" => Len(got[a]) = taken[d])
    <3>1. Finished(d) /\ thread[d].buf = <<>>
      BY <1>1, <1>3 DEF Inv, EndInv, DataInv
    <3>2. way[a] # "gone" => Len(got[a]) + Len(thread[d].buf) = taken[d]
      BY <1>1, <1>3 DEF Inv, DataInv
    <3>3. Len(got[a]) \in Nat /\ taken[d] \in Nat
      BY Before
    <3>4. QED
      BY <3>1, <3>2, <3>3
  <2>3. thread'[d].at \in {"again", "end"}
    BY <1>1, Before DEF Returns
  <2>4. QED
    <3>1. setup' = setup /\ way' = way /\ out' = out /\ taken' = taken /\ got' = got
      BY <1>1
    <3>2. seen'[a] = "eof"
      BY <1>4
    <3>3. QED
      BY <1>3, <2>1, <2>2, <2>3, <3>1, <3>2 DEF SeenInv, Finished
<1> HIDE DEF v
<1>5. QED
  BY <1>1, <1>2, <1>4, SafeReturns

LEMMA SafeRead ==
    ASSUME IInv, NEW d \in Dirs, read(d)
    PROVE  IInv'
<1>1. /\ thread[d].at = "read" /\ thread[d].buf = <<>>
      /\ UNCHANGED <<main, fine, setup, out, way, got, seen, timeouts>>
      /\ fine' \in 0 .. 2
  <2>1. thread[d].at = "read" => thread[d].buf = <<>>
    BY DEF IInv, TypeOK
  <2>2. UNCHANGED <<main, fine, setup, out, way, got, seen, timeouts>> /\ fine \in 0 .. 2
    BY Before DEF read
  <2>3. QED
    BY <2>1, <2>2 DEF read
<1>2. ASSUME NEW n \in (taken[d] + 1) .. out[d],
             thread' = [thread EXCEPT ![d] = [at |-> "read data",
                           buf |-> [i \in 1 .. (n - taken[d]) |-> taken[d] + i]]],
             taken' = [taken EXCEPT ![d] = n]
      PROVE  IInv'
  <2> DEFINE m == n - taken[d]
             t == [at |-> "read data", buf |-> Last(m, n)]
  <2>1. n \in Nat /\ m \in 1 .. n /\ n <= out[d] /\ taken[d] \in Nat /\ n - m = taken[d]
    BY Before
  <2>2. t \in Thread /\ Len(t.buf) = m /\ thread' = [thread EXCEPT ![d] = t]
    <3>1. Last(m, n) \in Seq(Nat) /\ Len(Last(m, n)) = m
      <4>1. m \in 0 .. n
        BY <2>1
      <4>2. QED
        BY <2>1, <4>1, UnitsSeq
    <3>2. Last(m, n) = [i \in 1 .. m |-> taken[d] + i]
      BY <2>1 DEF Last
    <3>3. t \in Thread
      BY <3>1 DEF Thread, Places
    <3>4. QED
      BY <1>2, <3>1, <3>2, <3>3
  <2>0. t.at = "read data" /\ t.buf = Last(m, n)
    OBVIOUS
  <2> HIDE DEF m, t
  <2>3. /\ thread'[d] = t /\ taken'[d] = n
        /\ got' = [got EXCEPT ![Across(d)] = got[Across(d)]]
        /\ seen' = [seen EXCEPT ![Across(d)] = seen[Across(d)]]
    BY <1>1, <1>2, <2>2, Before
  <2>4. DataInv(d)'
    <3>1. /\ got[Across(d)] = Upto(Len(got[Across(d)])) /\ Len(got[Across(d)]) <= taken[d]
          /\ way[Across(d)] # "gone" => Len(got[Across(d)]) + Len(thread[d].buf) = taken[d]
      BY <1>1, Before DEF Inv, DataInv
    <3>2. Len(got[Across(d)]) \in Nat /\ Len(thread[d].buf) = 0
      BY <1>1, Before
    <3>3. n <= out'[d] /\ UNCHANGED <<got, way>>
      BY <1>1, <2>1
    <3>4. Len(got[Across(d)]) <= n /\ 0 < m /\ m <= n
      BY <2>1, <3>1, <3>2
    <3>5. way[Across(d)] # "gone" => Len(got[Across(d)]) + m = n
      BY <2>1, <3>1, <3>2
    <3>6. QED
      BY <2>0, <2>2, <2>3, <3>1, <3>3, <3>4, <3>5 DEF DataInv
  <2>5. EndInv(d)'
    BY <2>0, <2>3 DEF EndInv
  <2>6. SeenInv(Across(d))'
    <3>1. SeenInv(Across(d)) /\ Across(Across(d)) = d
      BY Before DEF Inv
    <3>2. QED
      BY <1>1, <2>0, <2>3, <3>1 DEF SeenInv, Running, Finished
  <2>7. got[Across(d)] \in Seq(Nat) /\ seen[Across(d)] \in {"open", "eof", "reset"}
    BY Before
  <2>8. thread[d].at # "none" /\ t.at # "none" /\ t.at # "read"
    BY <1>1, <2>0
  <2>9. QED
    <3>1. n \in Nat /\ taken' = [taken EXCEPT ![d] = n]
      BY <1>2, <2>1
    <3>2. fine' \in 0 .. 2 /\ UNCHANGED <<main, setup, out, way, timeouts>>
      BY <1>1
    <3>3. QED
      BY <2>2, <2>3, <2>4, <2>5, <2>6, <2>7, <2>8, <3>1, <3>2, OneThread
<1>3. ASSUME way[d] = "gone" \/ (way[d] = "fin" /\ taken[d] = out[d]),
             thread' = [thread EXCEPT ![d].at = "read end"], taken' = taken
      PROVE  IInv'
  <2>1. ASSUME thread'[d].at = "read end", thread'[d].buf = thread[d].buf
        PROVE  DataInv(d)' /\ EndInv(d)' /\ SeenInv(Across(d))'
    <3>1. thread'[d].at = "read end" /\ thread'[d].buf = thread[d].buf
      BY <2>1
    <3>2. UNCHANGED <<main, setup, taken, out, way, got, seen>>
      BY <1>1, <1>3
    <3>3. DataInv(d)'
      <4>1. DataInv(d)
        BY Before DEF Inv
      <4>2. QED
        BY <1>1, <3>1, <3>2, <4>1 DEF DataInv
    <3>4. EndInv(d)'
      BY <1>3, <3>2 DEF EndInv, Finished
    <3>5. SeenInv(Across(d))'
      <4>1. SeenInv(Across(d)) /\ Across(Across(d)) = d
        BY Before DEF Inv
      <4>2. QED
        BY <1>1, <3>1, <3>2, <4>1 DEF SeenInv, Running, Finished
    <3>6. QED
      BY <3>3, <3>4, <3>5
  <2>2. "read end" \in Places \ {"none"} /\ thread[d].at # "none"
    BY <1>1 DEF Places
  <2>3. QED
    BY <1>1, <1>3, <2>1, <2>2, OnlyPlace
<1>4. QED
  BY <1>1, <1>2, <1>3 DEF read

\* What sendn leaves in buf, and what has been received then.
Rest(d, n) == SubSeq(thread[d].buf, n + 1, Len(thread[d].buf))
Taken(d, n) == SubSeq(thread[d].buf, 1, n)

LEMMA SendnData ==
    ASSUME IInv, NEW d \in Dirs, thread[d].at = "sendn", NEW n \in 1 .. Len(thread[d].buf)
    PROVE  LET m == Len(thread[d].buf)
               had == got[Across(d)]
           IN  /\ m <= taken[d] /\ Rest(d, n) = Last(m - n, taken[d])
               /\ Rest(d, n) \in Seq(Nat) /\ Len(Rest(d, n)) = m - n
               /\ Rest(d, n) = <<>> <=> m = n
               /\ way[Across(d)] # "gone" =>
                      /\ Len(had) + m = taken[d]
                      /\ had \o Taken(d, n) = Upto(Len(had) + n)
               /\ had = Upto(Len(had)) /\ Len(had) <= taken[d] /\ taken[d] <= out[d]
<1> DEFINE m == Len(thread[d].buf)
           had == got[Across(d)]
<1>1. /\ taken[d] <= out[d] /\ had = Upto(Len(had)) /\ Len(had) <= taken[d]
      /\ thread[d].buf = Last(m, taken[d]) /\ m <= taken[d]
      /\ way[Across(d)] # "gone" => Len(had) + m = taken[d]
  BY Before DEF Inv, DataInv
<1>2. taken[d] \in Nat /\ m \in Nat /\ Len(had) \in Nat
  BY Before
<1>3. /\ SubSeq(Last(m, taken[d]), n + 1, m) = Last(m - n, taken[d])
      /\ Upto(taken[d] - m) \o SubSeq(Last(m, taken[d]), 1, n) = Upto(taken[d] - m + n)
  <2>1. m \in 0 .. taken[d] /\ n \in 1 .. m
    BY <1>1, <1>2
  <2> HIDE DEF m
  <2>2. QED
    BY <1>2, <2>1, FrontUnits
<1>4. Last(m - n, taken[d]) \in Seq(Nat) /\ Len(Last(m - n, taken[d])) = m - n
  <2>1. m - n \in 0 .. taken[d]
    BY <1>1, <1>2
  <2>2. QED
    BY <1>2, <2>1, UnitsSeq
<1>5. Rest(d, n) = Last(m - n, taken[d]) /\ Taken(d, n) = SubSeq(Last(m, taken[d]), 1, n)
  BY <1>1, <1>3 DEF Rest, Taken
<1>6. Rest(d, n) = <<>> <=> m = n
  BY <1>2, <1>4, <1>5
<1>7. ASSUME way[Across(d)] # "gone"
      PROVE  Len(had) + m = taken[d] /\ had \o Taken(d, n) = Upto(Len(had) + n)
  <2>1. Len(had) + m = taken[d]
    BY <1>1, <1>7
  <2> HIDE DEF m, had
  <2>2. Len(had) = taken[d] - m
    BY <1>2, <2>1
  <2>3. QED
    BY <1>1, <1>3, <1>5, <2>1, <2>2
<1>8. QED
  BY <1>1, <1>4, <1>5, <1>6, <1>7

LEMMA SafeSendn ==
    ASSUME IInv, NEW d \in Dirs, sendn(d)
    PROVE  IInv'
<1>1. PICK n \in 1 .. Len(thread[d].buf) :
        /\ thread' = [thread EXCEPT ![d] =
             [at |-> IF Rest(d, n) = <<>> THEN "read" ELSE "sendn", buf |-> Rest(d, n)]]
        /\ got' = IF way[Across(d)] = "gone" THEN got
                  ELSE [got EXCEPT ![Across(d)] = @ \o Taken(d, n)]
  BY DEF sendn, Rest, Taken
<1> DEFINE a == Across(d)
           m == Len(thread[d].buf)
           t == [at |-> IF Rest(d, n) = <<>> THEN "read" ELSE "sendn", buf |-> Rest(d, n)]
           g == IF way[a] = "gone" THEN got[a] ELSE got[a] \o Taken(d, n)
<1>2. /\ thread[d].at = "sendn"
      /\ UNCHANGED <<main, fine, setup, taken, out, way, seen, timeouts>> /\ fine' \in 0 .. 2
  BY Before DEF sendn
<1>3. /\ m <= taken[d] /\ Rest(d, n) = Last(m - n, taken[d])
      /\ Rest(d, n) \in Seq(Nat) /\ Len(Rest(d, n)) = m - n
      /\ Rest(d, n) = <<>> <=> m = n
      /\ way[a] # "gone" => Len(got[a]) + m = taken[d] /\ got[a] \o Taken(d, n) = Upto(Len(got[a]) + n)
      /\ got[a] = Upto(Len(got[a])) /\ Len(got[a]) <= taken[d] /\ taken[d] <= out[d]
  BY <1>2, SendnData
<1>4. taken[d] \in Nat /\ m \in Nat /\ n \in Nat /\ n >= 1 /\ n <= m /\ Len(got[a]) \in Nat /\ got[a] \in Seq(Nat)
  BY Before
<1>5. /\ t \in Thread /\ t.at \in {"read", "sendn"} /\ t.buf = Rest(d, n)
      /\ t.at = "read" <=> m = n
  BY <1>3 DEF Thread, Places
<1>6. g \in Seq(Nat) /\ got' = [got EXCEPT ![a] = g]
  <2>1. CASE way[a] = "gone"
    BY <1>1, <1>4, <2>1, Before
  <2>2. CASE way[a] # "gone"
    <3>1. Upto(Len(got[a]) + n) \in Seq(Nat)
      BY <1>4, UnitsSeq
    <3>2. QED
      BY <1>1, <1>3, <2>2, <3>1
  <2>3. QED
    BY <2>1, <2>2
<1>7. /\ g = Upto(Len(g)) /\ Len(g) <= taken[d]
      /\ way[a] # "gone" => Len(g) + Len(t.buf) = taken[d]
  <2>1. CASE way[a] = "gone"
    BY <1>3, <2>1
  <2>2. CASE way[a] # "gone"
    <3>1. g = Upto(Len(got[a]) + n) /\ Len(got[a]) + m = taken[d]
      BY <1>3, <2>2
    <3>2. Len(Upto(Len(got[a]) + n)) = Len(got[a]) + n
      <4>1. Len(got[a]) + n \in Nat /\ 0 \in 0 .. (Len(got[a]) + n)
        BY <1>4
      <4>2. QED
        BY <4>1, UnitsSeq
    <3>3. Len(g) = Len(got[a]) + n /\ g = Upto(Len(g))
      BY <3>1, <3>2
    <3>4. Len(t.buf) = m - n
      BY <1>3, <1>5
    <3>5. Len(g) <= taken[d] /\ Len(g) + Len(t.buf) = taken[d]
      <4> HIDE DEF m, a, t, g
      <4>1. Len(got[a]) + n + (m - n) = taken[d] /\ Len(got[a]) + n <= taken[d]
        BY <1>4, <3>1
      <4>2. QED
        BY <3>3, <3>4, <4>1
    <3>6. QED
      BY <3>3, <3>5
  <2>3. QED
    BY <2>1, <2>2
<1>8. thread' = [thread EXCEPT ![d] = t]
  BY <1>1
<1> HIDE DEF t, g
<1>9. /\ thread'[d] = t /\ got'[a] = g /\ taken' = [taken EXCEPT ![d] = taken[d]]
      /\ seen' = [seen EXCEPT ![a] = seen[a]] /\ seen[a] \in {"open", "eof", "reset"}
  BY <1>2, <1>6, <1>8, Before
<1>10. DataInv(d)'
  <2>1. t.buf = IF t.at = "sendn" THEN Last(Len(t.buf), taken[d]) ELSE <<>>
    BY <1>3, <1>4, <1>5
  <2>2. t.at = "sendn" => Len(t.buf) > 0 /\ Len(t.buf) <= taken[d]
    BY SMTT(30), <1>3, <1>4, <1>5
  <2>3. QED
    BY <1>2, <1>3, <1>5, <1>7, <1>9, <2>1, <2>2 DEF DataInv
<1>11. EndInv(d)'
  BY <1>5, <1>9 DEF EndInv
<1>12. SeenInv(a)'
  BY ZenonT(40), <1>2, <1>5, <1>9, Before DEF Inv, SeenInv, Running, Finished
<1>13. thread[d].at # "none" /\ t.at # "none" /\ (t.at = "read" => t.buf = <<>>)
  BY <1>2, <1>3, <1>5
<1>14. QED
  BY <1>2, <1>4, <1>5, <1>6, <1>8, <1>9, <1>10, <1>11, <1>12, <1>13, OneThread

-----------------------------------------------------------------------------
LEMMA Safe ==
    ASSUME IInv, [Next]_vars
    PROVE  IInv'
<1>1. CASE segnalasimulatimeout \/ segnalacontinua \/ exit
  BY <1>1, SafeMain
<1>2. ASSUME NEW c \in Conns, accept(c) \/ Setup(c) PROVE IInv'
  BY <1>2, SafeSetup
<1>3. ASSUME NEW d \in Dirs, Forward(d) PROVE IInv'
  BY <1>3, SafeStart, SafeRead, SafeCheckfine, SafeSendn, SafeSendnFails, SafeShutdown,
     SafeSegnalafine DEF Forward
<1>4. ASSUME NEW d \in Dirs, Send(d) \/ Leave(d, "fin") \/ Leave(d, "gone") PROVE IInv'
  BY <1>4, SafeSend, SafeLeave
<1>5. CASE UNCHANGED vars
  <2>1. UNCHANGED <<main, fine, setup, thread, taken, out, way, got, seen, timeouts>>
    BY <1>5 DEF vars
  <2>2. TypeOK'
    BY <2>1 DEF IInv, TypeOK
  <2>3. ASSUME NEW d \in Dirs PROVE Inv(d)'
    BY <2>1, <2>3, SetupSame, DataSame, EndSame, SeenSame DEF IInv, Inv
  <2>4. QED
    BY <2>2, <2>3 DEF IInv
<1>6. QED
  BY <1>1, <1>2, <1>3, <1>4, <1>5 DEF Next

\* The inductive invariant holds of the proxy, whatever the ends, the user and
\* the other connections do to fine (forward and forward_bidirezionale).
THEOREM ProxyInvariance == Spec => []IInv
<1>1. IInv /\ [Next]_vars => IInv'
  BY Safe
<1>2. QED
  BY <1>1, InitIInv, PTL DEF Spec

\* Types, and a thread that reads has sent all it had read before (forward,
\* lines 330-372: sendn returns when buf is sent).
THEOREM ProxyTypes == Spec => []TypeOK
<1>1. IInv => TypeOK
  BY DEF IInv
<1>2. QED
  BY <1>1, ProxyInvariance, PTL

\* An end of file that an end sees while the proxy runs is true: the other end
\* has finished and, if it only finished sending, all it sent has arrived
\* (forward, line 396: shutdown after the read that returned 0).
THEOREM EofTrue == Spec => []EofIsTrue
<1>1. ASSUME IInv, NEW d \in Dirs, Running, setup[d[1]] = "up", seen[d] = "eof"
      PROVE  /\ way[Across(d)] # "open"
             /\ way[Across(d)] = "fin" /\ way[d] # "gone" => Len(got[d]) = out[Across(d)]
  <2>1. SeenInv(d)
    BY <1>1 DEF IInv, Inv
  <2>2. Finished(Across(d)) /\ (way[d] # "gone" => Len(got[d]) = taken[Across(d)])
    BY <1>1, <2>1 DEF SeenInv
  <2>3. QED
    BY <2>2 DEF Finished
<1>2. IInv => EofIsTrue
  BY <1>1 DEF EofIsTrue
<1>3. QED
  BY <1>2, ProxyInvariance, PTL

-----------------------------------------------------------------------------
(***************************************************************************)
(* Proxy implements LossyLinks.                                            *)
(***************************************************************************)
\* What an end was sent: what the other end has sent.
Sent == [d \in Dirs |-> out[Across(d)]]

\* Connections that end, or nothing that the abstract links show.
LEMMA EndStep ==
    ASSUME TypeOK, UNCHANGED <<out, got>>, seen' \in [Dirs -> {"open", "eof", "reset"}],
           \A d \in Dirs : seen[d] # "open" => seen'[d] = seen[d]
    PROVE  Links!Next \/ UNCHANGED <<Sent, got, seen>>
<1>1. CASE seen' # seen
  <2>1. Links!End
    BY <1>1 DEF Links!End
  <2>2. QED
    BY <2>1 DEF Links!Next
<1>2. QED
  BY <1>1 DEF Sent

LEMMA SendStep ==
    ASSUME IInv, NEW d \in Dirs, Send(d)
    PROVE  Links!Send(Across(d))
<1>1. out \in [Dirs -> Nat] /\ Across(d) \in Dirs /\ Across(Across(d)) = d
  BY AcrossDir DEF IInv, TypeOK
<1>2. out' = [out EXCEPT ![d] = @ + 1] /\ UNCHANGED <<got, seen>>
  BY DEF Send
<1>3. ASSUME NEW e \in Dirs
      PROVE  out'[Across(e)] = IF e = Across(d) THEN out[Across(e)] + 1 ELSE out[Across(e)]
  <2>1. Across(e) \in Dirs /\ Across(Across(e)) = e
    BY AcrossDir
  <2>2. QED
    BY <1>1, <1>2, <2>1
<1>4. [e \in Dirs |-> out'[Across(e)]]
          = [[e \in Dirs |-> out[Across(e)]] EXCEPT ![Across(d)] = @ + 1]
  BY <1>1, <1>3
<1>5. QED
  BY <1>2, <1>4 DEF Links!Send

LEMMA SendnStep ==
    ASSUME IInv, NEW d \in Dirs, sendn(d)
    PROVE  Links!Deliver(Across(d)) \/ UNCHANGED <<Sent, got, seen>>
<1> DEFINE a == Across(d)
<1>1. /\ thread[d].at = "sendn" /\ Running /\ UNCHANGED <<out, seen>>
      /\ a \in Dirs /\ Across(a) = d /\ a[1] = d[1]
  BY Before DEF sendn
<1>2. PICK n \in 1 .. Len(thread[d].buf) :
        got' = IF way[a] = "gone" THEN got ELSE [got EXCEPT ![a] = @ \o Taken(d, n)]
  BY DEF sendn, Taken
<1>3. CASE way[a] = "gone"
  BY <1>1, <1>2, <1>3 DEF Sent
<1>4. CASE way[a] # "gone"
  <2> DEFINE k == Len(got[a]) + n
  <2>1. /\ Len(got[a]) + Len(thread[d].buf) = taken[d] /\ taken[d] <= out[d]
        /\ got[a] \o Taken(d, n) = Upto(k)
    BY <1>1, <1>4, SendnData
  <2>2. Len(got[a]) \in Nat /\ Len(thread[d].buf) \in Nat /\ taken[d] \in Nat /\ out[d] \in Nat
    BY Before
  <2>3. k \in 1 .. out[d] /\ Len(got[a]) < k
    <3>1. n \in Nat /\ 1 <= n /\ n <= Len(thread[d].buf)
      BY <2>2
    <3>2. \A x, y, z, w \in Nat :
            x + y = z /\ z <= w /\ n <= y => x + n \in 1 .. w /\ x < x + n
      BY <3>1
    <3>3. QED
      BY <2>1, <2>2, <3>1, <3>2
  <2>4. seen[a] = "open"
    <3>1. SeenInv(a) /\ SetupInv(d)
      BY <1>1, Before DEF Inv
    <3>2. setup[d[1]] = "up"
      BY <1>1, <3>1 DEF SetupInv, Idle
    <3>3. QED
      BY <1>1, <3>1, <3>2 DEF SeenInv
  <2>5. got' = [got EXCEPT ![a] = [i \in 1 .. k |-> i]]
    BY <1>2, <1>4, <2>1 DEF Upto
  <2>6. [e \in Dirs |-> out[Across(e)]][a] = out[d]
    BY <1>1
  <2> HIDE DEF k
  <2>7. Links!Deliver(a)
    BY <1>1, <2>3, <2>4, <2>5, <2>6 DEF Links!Deliver
  <2>8. QED
    BY <2>7
<1>5. QED
  BY <1>3, <1>4

LEMMA LinksStep ==
    ASSUME IInv, [Next]_vars
    PROVE  Links!Next \/ UNCHANGED <<Sent, got, seen>>
<1>1. TypeOK /\ seen \in [Dirs -> {"open", "eof", "reset"}]
  BY DEF IInv, TypeOK
<1>2. CASE exit
  <2>1. UNCHANGED <<out, got>> /\ seen' = [d \in Dirs |-> Closed(d)]
    BY <1>2 DEF exit
  <2>2. \A d \in Dirs : /\ Closed(d) \in {"open", "eof", "reset"}
                        /\ seen[d] # "open" => Closed(d) = seen[d]
    BY <1>1 DEF Closed
  <2>3. /\ seen' \in [Dirs -> {"open", "eof", "reset"}]
        /\ \A d \in Dirs : seen[d] # "open" => seen'[d] = seen[d]
    BY <2>1, <2>2
  <2>4. QED
    BY <1>1, <2>1, <2>3, EndStep
<1>3. ASSUME NEW c \in Conns, SetupFails(c)
      PROVE  Links!Next \/ UNCHANGED <<Sent, got, seen>>
  <2> DEFINE b == <<c, "browser">>
  <2>1. UNCHANGED <<out, got>> /\ seen' = [seen EXCEPT ![b] = Closed(b)] /\ b \in Dirs
    BY <1>3 DEF SetupFails, Dirs, Ends
  <2>2. Closed(b) \in {"open", "eof", "reset"} /\ (seen[b] # "open" => Closed(b) = seen[b])
    BY <1>1, <2>1 DEF Closed
  <2>3. /\ seen' \in [Dirs -> {"open", "eof", "reset"}]
        /\ \A d \in Dirs : seen[d] # "open" => seen'[d] = seen[d]
    BY <1>1, <2>1, <2>2
  <2>4. QED
    BY <1>1, <2>1, <2>3, EndStep
<1>4. ASSUME NEW d \in Dirs, shutdown(d)
      PROVE  Links!Next \/ UNCHANGED <<Sent, got, seen>>
  <2> DEFINE a == Across(d)
             v == IF seen[a] = "open" THEN "eof" ELSE seen[a]
  <2>1. UNCHANGED <<out, got>> /\ seen' = [seen EXCEPT ![a] = v] /\ a \in Dirs
    BY <1>4, AcrossDir DEF shutdown
  <2>2. v \in {"open", "eof", "reset"} /\ (seen[a] # "open" => v = seen[a])
    BY <1>1, <2>1
  <2> HIDE DEF v
  <2>3. /\ seen' \in [Dirs -> {"open", "eof", "reset"}]
        /\ \A e \in Dirs : seen[e] # "open" => seen'[e] = seen[e]
    BY <1>1, <2>1, <2>2
  <2>4. QED
    BY <1>1, <2>1, <2>3, EndStep
<1>5. ASSUME NEW d \in Dirs, Send(d) PROVE Links!Next
  BY <1>5, SendStep, AcrossDir DEF Links!Next
<1>6. ASSUME NEW d \in Dirs, sendn(d) PROVE Links!Next \/ UNCHANGED <<Sent, got, seen>>
  BY <1>6, SendnStep, AcrossDir DEF Links!Next
<1>7. CASE UNCHANGED <<out, got, seen>>
  BY <1>7 DEF Sent
<1>8. CASE segnalasimulatimeout \/ segnalacontinua
  BY <1>7, <1>8 DEF segnalasimulatimeout, segnalacontinua
<1>9. ASSUME NEW c \in Conns, accept(c) \/ begin(c) \/ setup_connection(c)
      PROVE  UNCHANGED <<out, got, seen>>
  BY <1>9 DEF accept, begin, setup_connection
<1>10. ASSUME NEW d \in Dirs,
              start(d) \/ read(d) \/ checkfine(d) \/ sendnFails(d) \/ segnalafine(d)
              \/ Leave(d, "fin") \/ Leave(d, "gone")
       PROVE  UNCHANGED <<out, got, seen>>
  BY <1>10 DEF start, read, checkfine, sendnFails, segnalafine, Leave
<1>11. CASE UNCHANGED vars
  BY <1>7, <1>11 DEF vars
<1>12. QED
  BY <1>2, <1>3, <1>4, <1>5, <1>6, <1>7, <1>8, <1>9, <1>10, <1>11 DEF Next, Setup, Forward

\* The proxy gives the layer the links it relies on: what an end receives is
\* what the other has sent, in order, without a gap, and it loses only what
\* comes after all that it has delivered (forward, lines 303-375).
THEOREM ProxyImplementsLinks == Spec => LinksSpec
<1>1. Init => Links!Init
  BY AcrossDir DEF Init, Links!Init
<1>2. IInv /\ [Next]_vars => [Links!Next]_(Links!vars)
  BY LinksStep DEF Links!vars, Sent
<1>3. QED
  BY <1>1, <1>2, ProxyInvariance, PTL DEF Spec, LinksSpec, Links!Spec
=============================================================================

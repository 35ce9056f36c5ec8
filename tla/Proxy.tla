------------------------------- MODULE Proxy -------------------------------
(***************************************************************************)
(* The debugging proxy (proxytcp_perdebug/tcpforward2directionthreads.c),  *)
(* which stands between the ends of the session layer and makes their      *)
(* connections fall.  For every connection it accepts from a "browser" a   *)
(* thread connects to the "server" and forwards from server to browser     *)
(* (STB), a second one forwards from browser to server (BTS).  The threads *)
(* of all the connections and main share the variable fine.                *)
(*                                                                         *)
(* A direction is named by the end it comes from; the data are units,      *)
(* numbered in the order an end sends them.  The lock around fine is not   *)
(* modelled, as each use of it is one access; the list of threads is left  *)
(* out, as it only gives the colour of what they print.                    *)
(***************************************************************************)
EXTENDS Integers, FiniteSets, Sequences, Functions

CONSTANTS
    MaxConns,       \* bound: connections accepted
    MaxUnits,       \* bound: units sent on all connections
    MaxLeaving,     \* bound: ends that close or reset their connection
    MaxTimeouts     \* bound: simulated timeouts

Ends == {"browser", "server"}
other(e) == IF e = "browser" THEN "server" ELSE "browser"
Conns == 1 .. MaxConns    \* in the order main accepts them
Dirs == Conns \X Ends

ASSUME ProxyAssumption ==
    MaxConns \in Nat /\ MaxUnits \in Nat /\ MaxLeaving \in Nat /\ MaxTimeouts \in Nat

VARIABLES
    main,       \* "select", "timeout" (it waits for <ENTER>) or "exited"
    fine,       \* 0, 1 (a thread has ended) or 2 (timeout)
    setup,      \* per connection: where forward_bidirezionale is before it forwards
    thread,     \* per direction: where its thread is and the bytes in buf
    taken,      \* per end: units the proxy has read from it
    out,        \* per end: units it has sent
    way,        \* per end: "open", "fin" (it has finished sending) or "gone"
    got,        \* per end: the units it has received
    seen,       \* per end: how it saw the connection end, "open" before
    timeouts    \* simulated timeouts so far

vars == <<main, fine, setup, thread, taken, out, way, got, seen, timeouts>>

Idle == [at |-> "none", buf |-> <<>>]

Init ==
    /\ main = "select" /\ fine = 0
    /\ setup = [c \in Conns |-> "none"]
    /\ thread = [d \in Dirs |-> Idle]
    /\ taken = [d \in Dirs |-> 0]
    /\ out = [d \in Dirs |-> 0]
    /\ way = [d \in Dirs |-> "open"]
    /\ got = [d \in Dirs |-> <<>>]
    /\ seen = [d \in Dirs |-> "open"]
    /\ timeouts = 0

Across(d) == <<d[1], other(d[2])>>
Running == main # "exited"

\* The end is connected to the proxy.
Connected(d) ==
    Running /\ setup[d[1]] \in (IF d[2] = "browser" THEN {"accepted", "connecting", "up"} ELSE {"up"})

Total(n) == FoldFunction(LAMBDA a, b : a + b, 0, n)

-----------------------------------------------------------------------------
(***************************************************************************)
(* The ends.                                                               *)
(***************************************************************************)
Send(d) ==
    /\ Connected(d) /\ way[d] = "open" /\ seen[d] # "reset"
    /\ Total(out) < MaxUnits
    /\ out' = [out EXCEPT ![d] = @ + 1]
    /\ UNCHANGED <<main, fine, setup, thread, taken, way, got, seen, timeouts>>

\* An end finishes sending and still reads, or closes its socket.
Leave(d, how) ==
    /\ Connected(d) /\ way[d] \in {"open", "fin"} \ {how}
    /\ Cardinality({x \in Dirs : way[x] # "open"} \ {d}) < MaxLeaving
    /\ way' = [way EXCEPT ![d] = how]
    /\ UNCHANGED <<main, fine, setup, thread, taken, out, got, seen, timeouts>>

\* What an end sees when the kernel closes the proxy's socket: a reset when
\* units it sent are unread.
Closed(d) ==
    IF ~ Connected(d) \/ seen[d] # "open" THEN seen[d]
    ELSE IF taken[d] < out[d] THEN "reset" ELSE "eof"
-----------------------------------------------------------------------------
(***************************************************************************)
(* main.                                                                   *)
(***************************************************************************)
segnalasimulatimeout ==
    /\ main = "select" /\ timeouts < MaxTimeouts
    /\ main' = "timeout"
    /\ fine' = 2
    /\ timeouts' = timeouts + 1
    /\ UNCHANGED <<setup, thread, taken, out, way, got, seen>>

segnalacontinua ==
    /\ main = "timeout"
    /\ main' = "select"
    /\ fine' = 0
    /\ UNCHANGED <<setup, thread, taken, out, way, got, seen, timeouts>>

\* The user presses <ENTER>, or select or accept fails.
exit ==
    /\ main = "select"
    /\ main' = "exited"
    /\ seen' = [d \in Dirs |-> Closed(d)]
    /\ UNCHANGED <<fine, setup, thread, taken, out, way, got, timeouts>>

accept(c) ==
    /\ main = "select" /\ setup[c] = "none"
    /\ \A x \in 1 .. (c - 1) : setup[x] # "none"
    /\ setup' = [setup EXCEPT ![c] = "accepted"]
    /\ UNCHANGED <<main, fine, thread, taken, out, way, got, seen, timeouts>>
-----------------------------------------------------------------------------
(***************************************************************************)
(* forward_bidirezionale.                                                  *)
(***************************************************************************)
begin(c) ==
    /\ Running /\ setup[c] = "accepted"
    /\ setup' = [setup EXCEPT ![c] = "connecting"]
    /\ fine' = 0
    /\ UNCHANGED <<main, thread, taken, out, way, got, seen, timeouts>>

setup_connection(c) ==
    /\ Running /\ setup[c] = "connecting"
    /\ setup' = [setup EXCEPT ![c] = "up"]
    /\ thread' = [thread EXCEPT ![<<c, "browser">>].at = "start", ![<<c, "server">>].at = "read"]
    /\ UNCHANGED <<main, fine, taken, out, way, got, seen, timeouts>>

\* There is no server, or no thread for BTS: the browser's socket is closed.
SetupFails(c) ==
    /\ Running /\ setup[c] = "connecting"
    /\ setup' = [setup EXCEPT ![c] = "failed"]
    /\ seen' = [seen EXCEPT ![<<c, "browser">>] = Closed(<<c, "browser">>)]
    /\ UNCHANGED <<main, fine, thread, taken, out, way, got, timeouts>>

\* The thread of BTS reads its parameters on the stack of the thread of STB.
\* When that has ended they may be there still or not; it then reads from no
\* socket, signals and ends.
start(d) ==
    /\ Running /\ thread[d].at = "start"
    /\ \/ /\ thread' = [thread EXCEPT ![d].at = "read"]
          /\ UNCHANGED fine
       \/ /\ thread[Across(d)].at = "end"
          /\ thread' = [thread EXCEPT ![d].at = "lost"]
          /\ fine' = 1
    /\ UNCHANGED <<main, setup, taken, out, way, got, seen, timeouts>>
-----------------------------------------------------------------------------
(***************************************************************************)
(* forward, the thread of a direction.                                     *)
(***************************************************************************)
\* read returns some of the units sent, 0 after the last of them, or an error.
read(d) ==
    /\ Running /\ thread[d].at = "read"
    /\ \/ \E n \in (taken[d] + 1) .. out[d] :
            /\ thread' = [thread EXCEPT ![d] = [at |-> "read data",
                           buf |-> [i \in 1 .. (n - taken[d]) |-> taken[d] + i]]]
            /\ taken' = [taken EXCEPT ![d] = n]
       \/ /\ \/ way[d] = "gone"
             \/ way[d] = "fin" /\ taken[d] = out[d]
          /\ thread' = [thread EXCEPT ![d].at = "read end"]
          /\ UNCHANGED taken
    /\ UNCHANGED <<main, fine, setup, out, way, got, seen, timeouts>>

\* Mutants: a thread told to time out reads on; it shuts the receiver's side.
CheckfineAndReadOn(d) ==
    /\ Running /\ thread[d].at \in {"read data", "read end"}
    /\ thread' = [thread EXCEPT ![d] =
         CASE fine = 2 -> [at |-> "read", buf |-> <<>>]
           [] fine # 2 /\ @.at = "read data" -> [@ EXCEPT !.at = "sendn"]
           [] fine # 2 /\ @.at = "read end" -> [@ EXCEPT !.at = "shutdown"]]
    /\ UNCHANGED <<main, fine, setup, taken, out, way, got, seen, timeouts>>
CheckfineAndShut(d) ==
    /\ Running /\ thread[d].at \in {"read data", "read end"}
    /\ thread' = [thread EXCEPT ![d].at =
         IF fine = 2 \/ @ = "read end" THEN "shutdown" ELSE "sendn"]
    /\ UNCHANGED <<main, fine, setup, taken, out, way, got, seen, timeouts>>
\* Mutant, as before the change of 4 January 2005: every thread ends after one.
CheckfineAny(d) ==
    /\ Running /\ thread[d].at \in {"read data", "read end"}
    /\ thread' = [thread EXCEPT ![d].at =
         CASE fine # 0 -> "end" [] fine = 0 /\ @ = "read data" -> "sendn" [] OTHER -> "shutdown"]
    /\ UNCHANGED <<main, fine, setup, taken, out, way, got, seen, timeouts>>

\* checkfine after the read: in a timeout the thread exits, with what it read.
checkfine(d) ==
    /\ Running /\ thread[d].at \in {"read data", "read end"}
    /\ thread' = [thread EXCEPT ![d].at =
         CASE fine = 2 -> "timed out"
           [] fine # 2 /\ @ = "read data" -> "sendn"
           [] fine # 2 /\ @ = "read end" -> "shutdown"]
    /\ UNCHANGED <<main, fine, setup, taken, out, way, got, seen, timeouts>>

\* Mutant: send is called once, whatever it takes.
SendnOnce(d) ==
    /\ Running /\ thread[d].at = "sendn"
    /\ \E n \in 1 .. Len(thread[d].buf) :
         /\ thread' = [thread EXCEPT ![d] =
              [at |-> "read", buf |-> SubSeq(@.buf, n + 1, Len(@.buf))]]
         /\ got' = IF way[Across(d)] = "gone" THEN got
                   ELSE [got EXCEPT ![Across(d)] = @ \o SubSeq(thread[d].buf, 1, n)]
    /\ UNCHANGED <<main, fine, setup, taken, out, way, seen, timeouts>>

\* send takes some of the units; they reach an end that is still there.
sendn(d) ==
    /\ Running /\ thread[d].at = "sendn"
    /\ \E n \in 1 .. Len(thread[d].buf) :
         LET rest == SubSeq(thread[d].buf, n + 1, Len(thread[d].buf)) IN
         /\ thread' = [thread EXCEPT ![d] =
              [at |-> IF rest = <<>> THEN "read" ELSE "sendn", buf |-> rest]]
         /\ got' = IF way[Across(d)] = "gone" THEN got
                   ELSE [got EXCEPT ![Across(d)] = @ \o SubSeq(thread[d].buf, 1, n)]
    /\ UNCHANGED <<main, fine, setup, taken, out, way, seen, timeouts>>

\* segnalafine, and forward returns to the function of its thread.
Returns(d) ==
    /\ fine' = 1
    /\ thread' = [thread EXCEPT ![d] =
         [at |-> IF d[2] = "server" THEN "again" ELSE "end", buf |-> <<>>]]

\* send fails when the receiver is gone; no one reads after shutdown(fromfd).
sendnFails(d) ==
    /\ Running /\ thread[d].at = "sendn" /\ way[Across(d)] = "gone"
    /\ Returns(d)
    /\ UNCHANGED <<main, setup, taken, out, way, got, seen, timeouts>>

\* The source has ended: shutdown(tofd, SHUT_WR), segnalafine, and forward returns.
shutdown(d) ==
    /\ Running /\ thread[d].at = "shutdown"
    /\ seen' = [seen EXCEPT ![Across(d)] = IF @ = "open" THEN "eof" ELSE @]
    /\ Returns(d)
    /\ UNCHANGED <<main, setup, taken, out, way, got, timeouts>>

\* The thread of STB signals again, then calls pthread_join, which does not wait
\* for a detached thread.
segnalafine(d) ==
    /\ Running /\ thread[d].at = "again"
    /\ fine' = 1
    /\ thread' = [thread EXCEPT ![d].at = "end"]
    /\ UNCHANGED <<main, setup, taken, out, way, got, seen, timeouts>>
-----------------------------------------------------------------------------
Forward(d) ==
    start(d) \/ read(d) \/ checkfine(d) \/ sendn(d) \/ sendnFails(d) \/ shutdown(d) \/ segnalafine(d)
Setup(c) == begin(c) \/ setup_connection(c) \/ SetupFails(c)

Next ==
    \/ segnalasimulatimeout \/ segnalacontinua \/ exit
    \/ \E c \in Conns : accept(c) \/ Setup(c)
    \/ \E d \in Dirs : Forward(d) \/ Send(d) \/ Leave(d, "fin") \/ Leave(d, "gone")

Spec == Init /\ [][Next]_vars
\* Every thread of the proxy goes on; the ends read what reaches them.
FairSpec == Spec /\ WF_vars(\E c \in Conns : Setup(c)) /\ \A d \in Dirs : WF_vars(Forward(d))
-----------------------------------------------------------------------------
Places == {"none", "start", "read", "read data", "read end", "sendn", "shutdown",
           "again", "end", "timed out", "lost"}
\* Types, and that a thread that reads has nothing left to send.
TypeOK ==
    /\ main \in {"select", "timeout", "exited"} /\ fine \in 0 .. 2
    /\ setup \in [Conns -> {"none", "accepted", "connecting", "up", "failed"}]
    /\ thread \in [Dirs -> [at : Places, buf : Seq(Nat)]]
    /\ taken \in [Dirs -> Nat] /\ out \in [Dirs -> Nat]
    /\ way \in [Dirs -> {"open", "fin", "gone"}] /\ seen \in [Dirs -> {"open", "eof", "reset"}]
    /\ got \in [Dirs -> Seq(Nat)]
    /\ timeouts \in 0 .. MaxTimeouts
    /\ \A d \in Dirs : thread[d].at = "read" => thread[d].buf = <<>>

\* What an end receives is a link of LossyLinks from the other end: the proxy
\* loses only what comes after all that it has delivered.
Links == INSTANCE LossyLinks WITH
            Links <- Dirs, sent <- [d \in Dirs |-> out[Across(d)]], got <- got, ended <- seen
LinksSpec == Links!Spec

\* While the proxy runs an end of file is true: the other end has finished, and
\* one that only finished sending has had all its units delivered.  A simulated
\* timeout tells an end nothing.
EofIsTrue ==
    \A d \in Dirs : Running /\ setup[d[1]] = "up" /\ seen[d] = "eof" =>
        /\ way[Across(d)] # "open"
        /\ way[Across(d)] = "fin" /\ way[d] # "gone" => Len(got[d]) = out[Across(d)]

\* What stops a direction: the end of the proxy, no server, a timeout, the loss
\* of its parameters, a receiver that is gone or a sender whose data are dropped.
Broken(d) ==
    \/ ~ Running \/ setup[d[1]] = "failed"
    \/ thread[d].at \in {"timed out", "lost"}
    \/ way[Across(d)] = "gone"
    \/ way[d] = "gone" /\ seen[Across(d)] = "eof"

\* The comment at line 320 (modifica 4 gennaio 05, the thread that ends does not
\* end the other): whatever ends another connection or the other direction, a
\* unit sent is delivered and the end of the sender is passed on.
Pending(d) ==
    Connected(d) /\ (Len(got[Across(d)]) < out[d] \/ (way[d] # "open" /\ seen[Across(d)] = "open"))
Forwarded == \A d \in Dirs : []<>(~ Pending(d) \/ Broken(d))
=============================================================================

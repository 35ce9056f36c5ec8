--------------------------- MODULE ForwardThreads ---------------------------
(***************************************************************************)
(* The older debugging proxy (proxytcp_perdebug/tcpforwardthreads.c).  As  *)
(* in Proxy, each connection from a "browser" gets a thread that connects  *)
(* to the "server" and forwards to the browser (STB), and a second thread  *)
(* (BTS).  Here a direction that ends sets fine to end the other one, and  *)
(* STB closes both descriptors while BTS may still use their numbers.      *)
(*                                                                         *)
(* The descriptors are part of the model: a number that is closed may be   *)
(* another connection's when it is used again, and a socket whose read is  *)
(* in progress stays open after its number is closed.                      *)
(***************************************************************************)
EXTENDS Integers, FiniteSetsExt, Sequences, Functions

CONSTANTS
    MaxConns,       \* bound: connections accepted
    MaxUnits,       \* bound: units sent on all connections
    MaxLeaving,     \* bound: ends that finish sending or close their socket
    Serial          \* whether a connection begins when no thread of another is left

Ends == {"browser", "server"}
other(e) == IF e = "browser" THEN "server" ELSE "browser"
Conns == 1 .. MaxConns
Dirs == Conns \X Ends
Across(d) == <<d[1], other(d[2])>>
Fds == 1 .. (2 * MaxConns)

ASSUME ForwardThreadsAssumption ==
    MaxConns \in Nat /\ MaxUnits \in Nat /\ MaxLeaving \in Nat /\ Serial \in BOOLEAN

VARIABLES
    up,         \* whether the proxy runs
    fine,       \* 0, or 1 when a direction has ended
    setup,      \* per connection: where forward_bidirezionale is before it forwards
    fds,        \* per socket of the proxy: its number, 0 before it has one
    table,      \* the kernel's table: the socket each number stands for
    thread,     \* per direction: where its thread is, the socket it reads from, buf
    taken,      \* per end: units the proxy has read from it
    out,        \* per end: units it has sent
    way,        \* per end: "open", "fin" (it has finished sending) or "gone"
    got         \* per end: the units it has received

threads == <<fine, setup, fds, table, thread>>
vars == <<up, threads, taken, out, way, got>>

Free == <<0, "free">>
Idle == [at |-> "none", file |-> Free, buf |-> <<>>]

Init ==
    /\ up = TRUE /\ fine = 0
    /\ setup = [c \in Conns |-> "none"]
    /\ fds = [d \in Dirs |-> 0]
    /\ table = [f \in Fds |-> Free]
    /\ thread = [d \in Dirs |-> Idle]
    /\ taken = [d \in Dirs |-> 0] /\ out = [d \in Dirs |-> 0]
    /\ way = [d \in Dirs |-> "open"] /\ got = [d \in Dirs |-> <<>>]

\* The number accept and socket return: each socket has one, so there is one.
NextFd == Min({f \in Fds : table[f] = Free})

Numbered(d) == \E f \in Fds : table[f] = d
\* The socket is open: under a number, or in the hands of a thread.
Open(d) == Numbered(d) \/ \E x \in Dirs : thread[x].file = d

\* What the thread of d finds under the numbers it has.
From(d) == IF fds[d] = 0 THEN Free ELSE table[fds[d]]
To(d) == From(Across(d))

Over == {"none", "done", "lost"}
Total(n) == FoldFunction(LAMBDA a, b : a + b, 0, n)
-----------------------------------------------------------------------------
(***************************************************************************)
(* The ends.                                                               *)
(***************************************************************************)
Connected(d) ==
    up /\ Open(d) /\ setup[d[1]] \in (IF d[2] = "browser" THEN {"accepted", "socket", "connecting", "up"} ELSE {"up"})

Send(d) ==
    /\ Connected(d) /\ way[d] = "open"
    /\ Total(out) < MaxUnits
    /\ out' = [out EXCEPT ![d] = @ + 1]
    /\ UNCHANGED <<up, threads, taken, way, got>>

Leave(d, how) ==
    /\ Connected(d) /\ way[d] \in {"open", "fin"} \ {how}
    /\ Cardinality({x \in Dirs : way[x] # "open"} \ {d}) < MaxLeaving
    /\ way' = [way EXCEPT ![d] = how]
    /\ UNCHANGED <<up, threads, taken, out, got>>
-----------------------------------------------------------------------------
(***************************************************************************)
(* main, and forward_bidirezionale until it forwards.                      *)
(***************************************************************************)
\* The user presses <ENTER>, or a system call of main fails.
exit == up /\ up' = FALSE /\ UNCHANGED <<threads, taken, out, way, got>>

NewSocket(d) ==
    /\ fds' = [fds EXCEPT ![d] = NextFd]
    /\ table' = [table EXCEPT ![NextFd] = d]

accept(c) ==
    /\ up /\ setup[c] = "none"
    /\ \A x \in 1 .. (c - 1) : setup[x] # "none"
    /\ Serial => \A x \in 1 .. (c - 1) : /\ setup[x] \in {"up", "failed"}
                                         /\ \A e \in Ends : thread[<<x, e>>].at \in Over
    /\ setup' = [setup EXCEPT ![c] = "accepted"]
    /\ NewSocket(<<c, "browser">>)
    /\ UNCHANGED <<up, fine, thread, taken, out, way, got>>

\* Mutant: fine is set to 0 once, where it is declared.
BeginEnded(c) ==
    /\ up /\ setup[c] = "accepted"
    /\ setup' = [setup EXCEPT ![c] = "socket"]
    /\ UNCHANGED <<up, fine, fds, table, thread, taken, out, way, got>>

begin(c) ==
    /\ up /\ setup[c] = "accepted"
    /\ setup' = [setup EXCEPT ![c] = "socket"]
    /\ fine' = 0
    /\ UNCHANGED <<up, fds, table, thread, taken, out, way, got>>

socket(c) ==
    /\ up /\ setup[c] = "socket"
    /\ setup' = [setup EXCEPT ![c] = "connecting"]
    /\ NewSocket(<<c, "server">>)
    /\ UNCHANGED <<up, fine, thread, taken, out, way, got>>

connect(c) ==
    /\ up /\ setup[c] = "connecting"
    /\ setup' = [setup EXCEPT ![c] = "up"]
    /\ thread' = [thread EXCEPT ![<<c, "browser">>].at = "start", ![<<c, "server">>].at = "check"]
    /\ UNCHANGED <<up, fine, fds, table, taken, out, way, got>>

\* There is no server: nothing is closed.  Or no thread for BTS: both are.
SetupFails(c) ==
    /\ up /\ setup[c] = "connecting"
    /\ setup' = [setup EXCEPT ![c] = "failed"]
    /\ \/ UNCHANGED table
       \/ table' = [f \in Fds |-> IF table[f][1] = c THEN Free ELSE table[f]]
    /\ UNCHANGED <<up, fine, fds, thread, taken, out, way, got>>
-----------------------------------------------------------------------------
(***************************************************************************)
(* forward, the thread of a direction.                                     *)
(***************************************************************************)
At(d, where) == up /\ thread[d].at = where
GoTo(d, where) == thread' = [thread EXCEPT ![d].at = where]

\* BTS reads its parameters on the stack of STB: see Proxy.
start(d) ==
    /\ At(d, "start")
    /\ \/ GoTo(d, "check") /\ UNCHANGED fine
       \/ thread[Across(d)].at = "done" /\ GoTo(d, "lost") /\ fine' = 1
    /\ UNCHANGED <<up, setup, fds, table, taken, out, way, got>>

\* forward has returned: STB goes on in forward_bidirezionale.
Return(d) == IF d[2] = "server" THEN "end" ELSE "done"

checkfine(d) ==
    /\ At(d, "check")
    /\ GoTo(d, IF fine = 1 THEN Return(d) ELSE "read")
    /\ UNCHANGED <<up, fine, setup, fds, table, taken, out, way, got>>

\* read is called: on what the number stands for, or on nothing.
read(d) ==
    /\ At(d, "read")
    /\ thread' = [thread EXCEPT ![d].file = From(d),
                                ![d].at = IF From(d) = Free THEN "signal" ELSE "reading"]
    /\ UNCHANGED <<up, fine, setup, fds, table, taken, out, way, got>>

\* read returns: some of the units sent, 0 after the last of them, or an error.
ReadReturns(d) ==
    LET f == thread[d].file IN
    /\ At(d, "reading")
    /\ \/ \E n \in (taken[f] + 1) .. out[f] :
            /\ thread' = [thread EXCEPT ![d] = [at |-> "writen", file |-> Free,
                           buf |-> [i \in 1 .. (n - taken[f]) |-> <<f, taken[f] + i>>]]]
            /\ taken' = [taken EXCEPT ![f] = n]
       \/ /\ way[f] = "gone" \/ (way[f] = "fin" /\ taken[f] = out[f])
          /\ thread' = [thread EXCEPT ![d].at = "signal", ![d].file = Free]
          /\ UNCHANGED taken
    /\ UNCHANGED <<up, fine, setup, fds, table, out, way, got>>

\* writen looks at fine before each send, and returns short when it is set.
writen(d) ==
    /\ At(d, "writen")
    /\ GoTo(d, IF fine = 1 THEN "signal" ELSE "send")
    /\ UNCHANGED <<up, fine, setup, fds, table, taken, out, way, got>>

\* send takes the first n units; they reach an end that is still there.
Delivers(d, n) ==
    got' = IF way[To(d)] = "gone" THEN got
           ELSE [got EXCEPT ![To(d)] = @ \o SubSeq(thread[d].buf, 1, n)]

Without(d, n) == SubSeq(thread[d].buf, n + 1, Len(thread[d].buf))

\* Mutants: what send does not take is never sent; the pointer stays where it was.
SendOnce(d) ==
    /\ At(d, "send") /\ To(d) # Free
    /\ \E n \in DOMAIN thread[d].buf :
         /\ Delivers(d, n)
         /\ thread' = [thread EXCEPT ![d].buf = Without(d, n), ![d].at = "check"]
    /\ UNCHANGED <<up, fine, setup, fds, table, taken, out, way>>
SendAgain(d) ==
    /\ At(d, "send") /\ To(d) # Free
    /\ \E n \in DOMAIN thread[d].buf :
         /\ Delivers(d, n)
         /\ thread' = [thread EXCEPT ![d].buf = IF n = Len(@) THEN <<>> ELSE @,
                                     ![d].at = IF n = Len(thread[d].buf) THEN "check" ELSE "writen"]
    /\ UNCHANGED <<up, fine, setup, fds, table, taken, out, way>>

send(d) ==
    /\ At(d, "send") /\ To(d) # Free
    /\ \E n \in DOMAIN thread[d].buf :
         /\ Delivers(d, n)
         /\ thread' = [thread EXCEPT ![d].buf = Without(d, n),
                                     ![d].at = IF Without(d, n) = <<>> THEN "check" ELSE "writen"]
    /\ UNCHANGED <<up, fine, setup, fds, table, taken, out, way>>

sendFails(d) ==
    /\ At(d, "send") /\ (To(d) # Free => way[To(d)] = "gone")
    /\ GoTo(d, "signal")
    /\ UNCHANGED <<up, fine, setup, fds, table, taken, out, way, got>>

segnalafine(d) ==
    /\ At(d, "signal")
    /\ fine' = 1
    /\ GoTo(d, Return(d))
    /\ UNCHANGED <<up, setup, fds, table, taken, out, way, got>>

\* STB, back in forward_bidirezionale: fine = 1, close(browserfd), close(serverfd).
End(d) ==
    /\ At(d, "end")
    /\ fine' = 1
    /\ GoTo(d, "close browser")
    /\ UNCHANGED <<up, setup, fds, table, taken, out, way, got>>

\* Mutant: the socket of the browser alone is closed.
CloseBrowser(d) ==
    /\ At(d, "close browser")
    /\ table' = [table EXCEPT ![fds[Across(d)]] = Free]
    /\ GoTo(d, "done")
    /\ UNCHANGED <<up, fine, setup, fds, taken, out, way, got>>

close(d) ==
    /\ \/ At(d, "close browser") /\ table' = [table EXCEPT ![fds[Across(d)]] = Free] /\ GoTo(d, "close server")
       \/ At(d, "close server") /\ table' = [table EXCEPT ![fds[d]] = Free] /\ GoTo(d, "done")
    /\ UNCHANGED <<up, fine, setup, fds, taken, out, way, got>>
-----------------------------------------------------------------------------
Forward(d) ==
    \/ start(d) \/ checkfine(d) \/ read(d) \/ ReadReturns(d) \/ writen(d) \/ send(d)
    \/ sendFails(d) \/ segnalafine(d) \/ End(d) \/ close(d)
Setup(c) == begin(c) \/ socket(c) \/ connect(c) \/ SetupFails(c)

Next ==
    \/ exit
    \/ \E c \in Conns : accept(c) \/ Setup(c)
    \/ \E d \in Dirs : Forward(d) \/ Send(d) \/ Leave(d, "fin") \/ Leave(d, "gone")

Spec == Init /\ [][Next]_vars
\* Every thread of the proxy goes on.
FairSpec == Spec /\ WF_vars(\E c \in Conns : Setup(c)) /\ \A d \in Dirs : WF_vars(Forward(d))
-----------------------------------------------------------------------------
Places == {"none", "start", "check", "read", "reading", "writen", "send", "signal", "end",
           "close browser", "close server", "done", "lost"}

\* Types, and that a thread that reads has nothing left to send.
TypeOK ==
    /\ up \in BOOLEAN /\ fine \in {0, 1}
    /\ setup \in [Conns -> {"none", "accepted", "socket", "connecting", "up", "failed"}]
    /\ fds \in [Dirs -> Fds \cup {0}] /\ table \in [Fds -> Dirs \cup {Free}]
    /\ thread \in [Dirs -> [at : Places, file : Dirs \cup {Free}, buf : Seq(Dirs \X Nat)]]
    /\ taken \in [Dirs -> Nat] /\ out \in [Dirs -> Nat]
    /\ way \in [Dirs -> {"open", "fin", "gone"}] /\ got \in [Dirs -> Seq(Dirs \X Nat)]
    /\ \A d \in Dirs : thread[d].at \in {"read", "reading"} => thread[d].buf = <<>>

\* An end receives what the other end of its own connection has sent, in order
\* and without gaps: no thread reads from, or writes to, a number that has become
\* another connection's.
Private ==
    \A d \in Dirs : got[d] = [i \in 1 .. Len(got[d]) |-> <<Across(d), i>>]

\* While neither end leaves, what is sent is delivered: the end of an earlier
\* connection, of which fine is left set, does not stop a later one.
Forwarded ==
    \A d \in Dirs : []<>(\/ ~ up \/ setup[d[1]] # "up"
                         \/ way[d] # "open" \/ way[Across(d)] # "open"
                         \/ Len(got[Across(d)]) = out[d])

\* A server that ends has both numbers of its connection released, and when the
\* browser ends as well no thread is left.
Released ==
    \A c \in Conns :
        /\ (setup[c] = "up" /\ way[<<c, "server">>] # "open") ~>
             (~ up \/ \A e \in Ends : ~ Numbered(<<c, e>>))
        /\ (setup[c] = "up" /\ \A e \in Ends : way[<<c, e>>] # "open") ~>
             (~ up \/ \A e \in Ends : thread[<<c, e>>].at \in Over)
=============================================================================

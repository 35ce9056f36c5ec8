----------------------------- MODULE ForwardInv -----------------------------
(***************************************************************************)
(* The inductive invariant of ForwardThreads when connections come one     *)
(* after the other: a number that a thread uses is its own connection's or *)
(* nobody's.                                                               *)
(***************************************************************************)
EXTENDS ForwardThreads

\* The first n units of an end, and the last m of them.
Units(d, n) == [i \in 1 .. n |-> <<d, i>>]
LastUnits(d, m, n) == [i \in 1 .. m |-> <<d, n - m + i>>]

\* When a connection comes every earlier one is over.
SerialInv(d) ==
    \A x \in 1 .. (d[1] - 1) :
        setup[d[1]] # "none" => /\ setup[x] \in {"up", "failed"}
                                /\ \A e \in Ends : thread[<<x, e>>].at \in Over

\* A thread runs once its connection is set up, and reads its own socket.
ThreadInv(d) ==
    /\ setup[d[1]] # "up" => thread[d] = Idle
    /\ setup[d[1]] = "up" => thread[d].at # "none"
    /\ thread[d].file = IF thread[d].at = "reading" THEN d ELSE Free

\* A socket has one number; while its connection is set up it has it, and while
\* its threads run it has it or nobody has.
Numberless(d) == setup[d[1]] = "none" \/ (setup[d[1]] \in {"accepted", "socket"} /\ d[2] = "server")
NumberInv(d) ==
    /\ \A f \in Fds : table[f] = d => f = fds[d]
    /\ fds[d] = 0 <=> Numberless(d)
    /\ setup[d[1]] \in {"accepted", "socket", "connecting"} /\ ~ Numberless(d) => table[fds[d]] = d
    /\ setup[d[1]] = "up" /\ (\E e \in Ends : thread[<<d[1], e>>].at \notin Over) =>
           table[fds[d]] \in {d, Free}

\* Units are delivered in order, and what was taken and is not delivered is in
\* buf, unless the receiver is gone or the thread is ending.
DataInv(d) ==
    LET at == thread[d].at
        buf == thread[d].buf
        had == got[Across(d)]
    IN  /\ taken[d] <= out[d]
        /\ had = Units(d, Len(had))
        /\ at \in {"none", "start", "check", "read", "reading"} => buf = <<>>
        /\ at \in {"writen", "send"} => /\ Len(buf) > 0 /\ Len(buf) <= taken[d]
                                        /\ buf = LastUnits(d, Len(buf), taken[d])
        /\ way[Across(d)] # "gone"
           /\ at \in {"none", "start", "check", "read", "reading", "writen", "send"} =>
               Len(had) + Len(buf) = taken[d]

Inv(d) == SerialInv(d) /\ ThreadInv(d) /\ NumberInv(d) /\ DataInv(d)
\* The inductive invariant.  While connections come one after the other a thread
\* reads from and writes to the sockets of its own connection or none, although
\* it goes on with numbers that STB has closed (lines 255, 256).
IInv == TypeOK /\ \A d \in Dirs : Inv(d)
=============================================================================

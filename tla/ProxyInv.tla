------------------------------ MODULE ProxyInv ------------------------------
(***************************************************************************)
(* The inductive invariant of Proxy: what each direction has taken, holds  *)
(* and has delivered, and when an end may have seen its connection end.    *)
(***************************************************************************)
EXTENDS Proxy

\* The first n units of an end, and the last m of them.
Upto(n) == [i \in 1 .. n |-> i]
Last(m, n) == [i \in 1 .. m |-> n - m + i]

\* A thread runs from setup_connection on, and only then.
SetupInv(d) ==
    /\ setup[d[1]] # "up" => thread[d] = Idle
    /\ setup[d[1]] = "up" => thread[d].at # "none"

\* Units are delivered in order, and what was taken and is not delivered is in
\* buf, unless the receiver is gone or the thread has ended with it.
DataInv(d) ==
    LET at == thread[d].at
        buf == thread[d].buf
        had == got[Across(d)]
    IN  /\ taken[d] <= out[d]
        /\ had = Upto(Len(had)) /\ Len(had) <= taken[d]
        /\ buf = IF at \in {"read data", "sendn"} THEN Last(Len(buf), taken[d])
                 ELSE IF at = "timed out" THEN buf ELSE <<>>
        /\ at \in {"read data", "sendn"} => Len(buf) > 0 /\ Len(buf) <= taken[d]
        /\ way[Across(d)] # "gone" /\ at \notin {"again", "end", "timed out", "lost"} =>
               Len(had) + Len(buf) = taken[d]

\* The end d comes from has finished, and unless its data are dropped there are
\* no more of them to take.
Finished(d) == way[d] # "open" /\ (way[d] = "fin" => taken[d] = out[d])

\* A thread that passes on an end has read it.
EndInv(d) == thread[d].at \in {"read end", "shutdown"} => Finished(d)

\* An end sees its connection end only when there is no server, or when the
\* thread that sends to it has delivered all there is.
SeenInv(d) ==
    Running /\ seen[d] # "open" =>
        \/ setup[d[1]] = "failed"
        \/ /\ setup[d[1]] = "up" /\ seen[d] = "eof"
           /\ thread[Across(d)].at \in {"again", "end"}
           /\ Finished(Across(d))
           /\ way[d] # "gone" => Len(got[d]) = taken[Across(d)]

Inv(d) == SetupInv(d) /\ DataInv(d) /\ EndInv(d) /\ SeenInv(d)
\* The inductive invariant.  A direction never delivers out of order, twice or
\* with a gap, whatever fine is set to (forward, lines 224-411), and the
\* shutdown at line 396 comes after the last unit its source sent.
IInv == TypeOK /\ \A d \in Dirs : Inv(d)
=============================================================================

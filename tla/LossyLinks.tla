----------------------------- MODULE LossyLinks -----------------------------
(***************************************************************************)
(* What the session layer may rely on from whatever lies between its two   *)
(* ends: one-way links that deliver what was sent in order and without     *)
(* gaps, and that may end at any moment, with what is not delivered lost.  *)
(***************************************************************************)
EXTENDS Integers, Sequences

CONSTANT Links

VARIABLES
    sent,   \* per link: how many units were sent; they are numbered from 1
    got,    \* per link: the units delivered, in order
    ended   \* per link: "open", or how the receiver saw it end

vars == <<sent, got, ended>>

Init ==
    /\ sent = [l \in Links |-> 0]
    /\ got = [l \in Links |-> <<>>]
    /\ ended = [l \in Links |-> "open"]

Send(l) ==
    /\ sent' = [sent EXCEPT ![l] = @ + 1]
    /\ UNCHANGED <<got, ended>>

\* The next units, all of those sent or some.
Deliver(l) ==
    /\ ended[l] = "open"
    /\ \E n \in 1 .. sent[l] :
         /\ Len(got[l]) < n
         /\ got' = [got EXCEPT ![l] = [i \in 1 .. n |-> i]]
    /\ UNCHANGED <<sent, ended>>

\* Links end one at a time, or together when what lies between the ends stops.
End ==
    /\ UNCHANGED <<sent, got>>
    /\ ended' # ended
    /\ ended' \in [Links -> {"open", "eof", "reset"}]
    /\ \A l \in Links : ended[l] # "open" => ended'[l] = ended[l]

Next == End \/ \E l \in Links : Send(l) \/ Deliver(l)
Spec == Init /\ [][Next]_vars
=============================================================================

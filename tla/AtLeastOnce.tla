---------------------------- MODULE AtLeastOnce ----------------------------
(***************************************************************************)
(* What a CCS connection promises in one direction, whatever TCP           *)
(* connections carry it: the stream written is returned by the Reads       *)
(* without a gap, a part of it possibly more than once, and a Write        *)
(* returns only when all it was given has been returned by Reads.          *)
(***************************************************************************)
EXTENDS Integers, Sequences

CONSTANT WriteCounts

VARIABLES
    writing,    \* the count of the Write in progress, 0 between two Writes
    base,       \* bytes of the Writes that have returned
    delivered,  \* the parts of the stream the Reads have returned
    high        \* the end of the furthest byte returned

vars == <<writing, base, delivered, high>>

Init == writing = 0 /\ base = 0 /\ delivered = <<>> /\ high = 0

Write(n) ==
    /\ writing = 0
    /\ writing' = n
    /\ UNCHANGED <<base, delivered, high>>

\* A Read returns bytes of the Write in progress: the next ones, or some again.
Read ==
    \E from \in base .. high :
        \E to \in (from + 1) .. (base + writing) :
            /\ delivered' = Append(delivered, [from |-> from, to |-> to])
            /\ high' = IF to > high THEN to ELSE high
            /\ UNCHANGED <<writing, base>>

Return ==
    /\ writing # 0
    /\ high = base + writing
    /\ base' = high
    /\ writing' = 0
    /\ UNCHANGED <<delivered, high>>

Next == (\E n \in WriteCounts : Write(n)) \/ Read \/ Return

Spec == Init /\ [][Next]_vars
=============================================================================

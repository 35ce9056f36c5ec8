----------------------------- MODULE ProgramsMC -----------------------------
(***************************************************************************)
(* Programs in small.  Basso is the exchange of basso and minimo: the      *)
(* server writes the sum of its vector, the client its own vector, the     *)
(* server its vector; the client reads the sums of the second connection   *)
(* and of the first, then finishes the second and the first.  OneConn has  *)
(* one connection, Writes of different lengths and either end first.       *)
(***************************************************************************)
EXTENDS ProgramsInv

Basso ==
    [first |-> "s", turns |-> <<1, 1, 2>>, parts |-> << <<1>>, <<1>>, <<2, 1>> >>,
     order |-> <<2, 1, 2, 2, 1, 1>>, falls |-> 2]
OneConn ==
    {[first |-> e, turns |-> <<1, 2, 3, 2>>, parts |-> << <<1>>, <<2, 1>>, <<1, 3, 1>>, <<1, 2>> >>,
      order |-> <<1, 1, 1, 1>>, falls |-> 3] : e \in Ends}

TwoConns == {Basso}
MCTests == TwoConns \cup OneConn
=============================================================================

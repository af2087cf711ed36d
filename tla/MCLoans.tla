------------------------------- MODULE MCLoans -------------------------------
(***************************************************************************)
(* Instances of Loans for TLC: a loan of 16 to a user without money.       *)
(***************************************************************************)
EXTENDS Loans

CONSTANTS l1, u1, c1, c2, j1, j2

BorrowerOf == [l \in Loans |-> u1]
Nothing == [u \in Users |-> 0]

=============================================================================

--------------------------- MODULE MCConversions ---------------------------
(***************************************************************************)
(* Instances of Conversions for TLC: a user u1 with 400 of currency a and  *)
(* quotes of 200 and 300 of it, so that the first could be executed twice, *)
(* but not both once.                                                      *)
(***************************************************************************)
EXTENDS Conversions

CONSTANTS q1, q2, r1, r2, u1, u2, a, b, c

OneOwner == [q \in Quotes |-> u1]
FromA == [q \in Quotes |-> a]
ToBAndC == [q \in Quotes |-> IF q = q1 THEN b ELSE c]
TwoAndThreeHundred == [q \in Quotes |-> IF q = q1 THEN 200 ELSE 300]
FourHundredOfA == [u \in Users |-> [x \in Currencies |-> IF x = a THEN 400 ELSE 0]]
AandB == [u \in Users |-> {a, b}]

=============================================================================

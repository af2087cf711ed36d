------------------------------ MODULE MCDisputes ------------------------------
(***************************************************************************)
(* Instances of Disputes for TLC.                                          *)
(***************************************************************************)
EXTENDS Disputes

CONSTANTS c1, c2, j1

=============================================================================

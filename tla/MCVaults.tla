------------------------------ MODULE MCVaults ------------------------------
(***************************************************************************)
(* Instances of Vaults for TLC: a vault of a user with 10, deposits of 10  *)
(* by hand or by the job, a tenth of interest a tick, a tenth of penalty.  *)
(***************************************************************************)
EXTENDS Vaults

CONSTANTS v1, u1, r1, r2, j1, j2

OwnerOf == [v \in Vaults |-> u1]
TenAutomatically == [v \in Vaults |-> 10]
Ten == [u \in Users |-> 10]
TwoRuns == [j \in Jobs |-> IF j = j1 THEN {"accrue", "auto"} ELSE {"mature"}]

=============================================================================

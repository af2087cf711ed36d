-------------------------- MODULE MCScheduledJobs --------------------------
(***************************************************************************)
(* Instances of ScheduledJobs for TLC: up to two application instances a   *)
(* and b; runs r1 and r2 reconcile, run r3 retries.                        *)
(***************************************************************************)
EXTENDS ScheduledJobs

CONSTANTS t1, t2, u1, a, b, r1, r2, r3

\* r1 and r3 on instance a, r2 on instance b.
TwoInstances == [r \in Runs |-> IF r = r2 THEN b ELSE a]

JobOf == [r \in Runs |-> IF r = r3 THEN "retry" ELSE "reconcile"]

OneOwner == [t \in Txs |-> u1]

Deposits == [t \in Txs |-> "DEPOSIT"]
DepositAndWithdrawal == [t \in Txs |-> IF t = t1 THEN "DEPOSIT" ELSE "WITHDRAW"]

=============================================================================

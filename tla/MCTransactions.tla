---------------------------- MODULE MCTransactions ----------------------------
(***************************************************************************)
(* Instances of Transactions for TLC, in two scenes: in "life" there is    *)
(* one transaction, with calls and the job at work on it and a failing     *)
(* statement; in "share" there are two at the same time, without the job.  *)
(* What must happen in the end is asked of the first scene only: in the    *)
(* second the job never runs, and no behaviour is fair.                    *)
(***************************************************************************)
EXTENDS Transactions

CONSTANTS t1, t2, c1, j1

VARIABLE scene

Life ==
  \/ \E k \in Kinds : CheckLimit(t1, k)
  \/ Create(t1)
  \/ \E c \in Clerks : Clerk(c)
  \/ \E j \in Jobs : Tick(j)
  \/ \E p \in Checks : Check(p)
  \/ \E p \in Procs : Fail(p)

Share ==
  /\ \/ \E t \in Txs : Create(t) \/ \E k \in Kinds : CheckLimit(t, k)
     \/ \E c \in Clerks : Clerk(c)
  /\ requests' <= 1

Scenes ==
  /\ scene' = scene
  /\ \/ scene = "life" /\ Life
     \/ scene = "share" /\ Share

MCInit == Init /\ scene \in {"life", "share"}

MCSpec == MCInit /\ [][Scenes]_<<vars, scene>> /\ Fairness
=============================================================================

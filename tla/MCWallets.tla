------------------------------- MODULE MCWallets -------------------------------
(***************************************************************************)
(* Instances of Wallets for TLC: two signing wallets and a watch-only one  *)
(* beside Cash, a deposit and a withdrawal.  The two services share the    *)
(* row of Cash only, so each is run by itself: in the scene "rows" nobody  *)
(* uses the ramp, in the scene "ramp" all requests are about Cash.         *)
(***************************************************************************)
EXTENDS Wallets

CONSTANTS c1, c2, main, cash, watch, second, n1, n2, d1, w1, MaxRampRequests

VARIABLE scene

Rows == (\E p \in Procs : Begin(p)) /\ UNCHANGED asked

Ramp ==
  /\ \/ Environment
     \/ \E p \in Procs : Begin(p) /\ call'[p].on \in {Cash} \cup Withdrawals \cup Events
  /\ requests' <= MaxRampRequests

Scenes ==
  /\ scene' = scene
  /\ \/ scene = "rows" /\ Rows
     \/ scene = "ramp" /\ Ramp
     \/ \E p \in Procs : Step(p) \/ Fail(p)

MCInit == Init /\ scene \in {"rows", "ramp"}

MCSpec == MCInit /\ [][Scenes]_<<vars, scene>> /\ Fairness
===============================================================================

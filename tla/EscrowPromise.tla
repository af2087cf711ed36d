---------------------------- MODULE EscrowPromise ----------------------------
(***************************************************************************)
(* The life of an escrow as its parties see it: it is created, its amount  *)
(* is paid in and it is funded; while it is funded it may be disputed; its *)
(* amount is paid out, and it is released or refunded, which is the end    *)
(* but for a dispute that comes late and opens it again.                   *)
(***************************************************************************)
CONSTANT Escrows

VARIABLES
  status,    \* status[e]
  paidIn,    \* the escrows whose account has been paid into
  paidOut    \* the escrows whose account has been paid out of

Init ==
  /\ status = [e \in Escrows |-> "NONE"]
  /\ paidIn = {}
  /\ paidOut = {}

Become(e, s) == status' = [status EXCEPT ![e] = s] /\ UNCHANGED <<paidIn, paidOut>>

Create(e) == status[e] = "NONE" /\ Become(e, "PENDING")

PayIn(e) ==
  /\ status[e] = "PENDING"
  /\ paidIn' = paidIn \cup {e}
  /\ UNCHANGED <<status, paidOut>>

Fund(e) == status[e] = "PENDING" /\ e \in paidIn /\ Become(e, "FUNDED")

Dispute(e) == status[e] = "FUNDED" /\ Become(e, "DISPUTED")

PayOut(e) ==
  /\ status[e] \in {"FUNDED", "DISPUTED"}
  /\ paidOut' = paidOut \cup {e}
  /\ UNCHANGED <<status, paidIn>>

Settle(e) ==
  /\ status[e] \in {"FUNDED", "DISPUTED"}
  /\ e \in paidOut
  /\ \E s \in {"RELEASED", "REFUNDED"} : Become(e, s)

Reopen(e) == status[e] \in {"RELEASED", "REFUNDED"} /\ Become(e, "DISPUTED")

Next ==
  \E e \in Escrows :
    \/ Create(e) \/ PayIn(e) \/ Fund(e) \/ Dispute(e)
    \/ PayOut(e) \/ Settle(e) \/ Reopen(e)

Spec == Init /\ [][Next]_<<status, paidIn, paidOut>>

=============================================================================

------------------------------ MODULE MCEscrow ------------------------------
(***************************************************************************)
(* Instances of Escrow for TLC: an escrow of 10 from a sender s, who has   *)
(* 15, to a recipient p; two calls and a run of the cron job.              *)
(***************************************************************************)
EXTENDS Escrow

CONSTANTS e1, r1, r2, c1, s, p

BySender == [e \in Escrows |-> s]
ToRecipient == [e \in Escrows |-> p]
Ten == [e \in Escrows |-> 10]
FifteenOfSender == [u \in Parties |-> IF u = s THEN 15 ELSE 0]

=============================================================================

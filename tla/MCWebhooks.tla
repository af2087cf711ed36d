----------------------------- MODULE MCWebhooks -----------------------------
(***************************************************************************)
(* Instances of Webhooks for TLC: one delivery, a worker, a call, a cron run.*)
(***************************************************************************)
EXTENDS Webhooks

CONSTANTS d1, w1, c1, k1

=============================================================================

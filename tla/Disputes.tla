------------------------------- MODULE Disputes -------------------------------
(***************************************************************************)
(* Two services that undo a transaction that has succeeded: DisputesService *)
(* with its disputes, charge-backs and deadlines, and                      *)
(* TransactionReversalService, which adds a compensating transaction in    *)
(* two steps.  No operation relates two transactions, so there is one; the *)
(* rows of both services exist at most once for it (unique columns).       *)
(*                                                                         *)
(* An entity is read at the start of a call and saved at its end, with a   *)
(* SELECT and an UPDATE of the columns that differ; what happens to the    *)
(* row in between is overwritten, or mixed.                                *)
(***************************************************************************)
EXTENDS Integers, FiniteSets

CONSTANTS
  Calls,        \* calls of the two APIs
  Jobs,         \* runs of checkSlaBreaches
  Amount,       \* of the transaction
  Funds,        \* the balance of its user, who has raised the dispute, too
  MaxRequests,  \* bound: calls in a behaviour
  MaxSpent,     \* bound: what the user spends
  MaxFaults     \* bound: failing statements in a behaviour

Procs == Calls \cup Jobs

ASSUME DisputesAssumption ==
  /\ Calls \cap Jobs = {} /\ IsFiniteSet(Calls)
  /\ Amount \in Nat \ {0} /\ Funds \in Nat
  /\ MaxRequests \in Nat /\ MaxSpent \in Nat /\ MaxFaults \in Nat

VARIABLES
  dispute,      \* the row of the dispute
  late,         \* how far it is beyond its deadline: 1, 2 from 24 hours, 3 from 48
  evidence,     \* the evidence: its side, and whether it is released
  reversal,     \* the row of the reversal
  balance,      \* User.balances
  extended,     \* whether the database takes the type CHARGEBACK
  charged,      \* charge-backs with status SUCCESS
  unfunded,     \* charge-backs with status PENDING
  compensating, \* compensating transactions
  pc,           \* pc[p]: the statement a process executes next
  op,           \* op[p]: what it does
  entity,       \* entity[p]: the dispute it holds
  held,         \* held[p]: the status of the reversal it holds
  seen,         \* seen[p]: the dispute the SELECT of its save has read
  looked,       \* looked[p]: the status of the reversal it has read
  known,        \* known[p]: the balance it has read
  outdated,     \* processes that hold a row another one has changed
  mishaps,      \* what went wrong so far
  lost,         \* a balance was written by one who had not read it
  spent,        \* what the user has spent
  requests,     \* calls so far
  faults        \* failures so far

stores == <<dispute, late, evidence, reversal, balance, extended, charged, unfunded, compensating>>
work == <<pc, op, entity, held, seen, looked, known, outdated>>
ghosts == <<mishaps, lost>>
bounds == <<spent, requests, faults>>
vars == <<dispute, late, evidence, reversal, balance, extended, charged, unfunded, compensating,
          pc, op, entity, held, seen, looked, known, outdated, mishaps, lost, spent, requests, faults>>

Open == {"OPEN", "UNDER_REVIEW"}
Resolved == {"RESOLVED_VALID", "RESOLVED_CHARGEBACK"}
NoDispute == [status |-> "NONE", resolvedAt |-> FALSE, breached |-> FALSE, level |-> 0]

\* The code expects the type CHARGEBACK of the enum at runtime; the migrations of
\* the repository do not add it.
Init ==
  /\ dispute = NoDispute
  /\ late = 0
  /\ evidence = {}
  /\ reversal = "NONE"
  /\ balance = Funds
  /\ extended \in BOOLEAN
  /\ charged = 0 /\ unfunded = 0 /\ compensating = 0
  /\ pc = [p \in Procs |-> "idle"]
  /\ op = [p \in Procs |-> "none"]
  /\ entity = [p \in Procs |-> NoDispute]
  /\ held = [p \in Procs |-> "NONE"]
  /\ seen = [p \in Procs |-> NoDispute]
  /\ looked = [p \in Procs |-> "NONE"]
  /\ known = [p \in Procs |-> 0]
  /\ outdated = {}
  /\ mishaps = {}
  /\ lost = FALSE
  /\ spent = 0 /\ requests = 0 /\ faults = 0

-----------------------------------------------------------------------------
\* Time goes by.
Age ==
  /\ dispute.status # "NONE"
  /\ late < 3
  /\ late' = late + 1
  /\ UNCHANGED <<dispute, evidence, reversal, balance, extended, charged, unfunded, compensating,
                 work, ghosts, bounds>>

\* The user pays for something else.
Spend ==
  /\ spent + Amount <= MaxSpent
  /\ balance >= Amount
  /\ balance' = balance - Amount
  /\ spent' = spent + Amount
  /\ UNCHANGED <<dispute, late, evidence, reversal, extended, charged, unfunded, compensating,
                 work, ghosts, requests, faults>>

Goto(p, step) == pc' = [pc EXCEPT ![p] = step]

\* The call is answered.
End(p) ==
  /\ Goto(p, "idle")
  /\ op' = [op EXCEPT ![p] = "none"]
  /\ entity' = [entity EXCEPT ![p] = NoDispute]
  /\ held' = [held EXCEPT ![p] = "NONE"]
  /\ seen' = [seen EXCEPT ![p] = NoDispute]
  /\ looked' = [looked EXCEPT ![p] = "NONE"]
  /\ known' = [known EXCEPT ![p] = 0]
  /\ outdated' = outdated \ {p}

Resolutions == {"valid", "chargeback"}

\* What goes wrong when a call starts while another of its kind is under way.
Overlap(what) ==
  {m \in {"race", "twice"} :
     \/ m = "race" /\ what \in Resolutions /\ \E q \in Calls : op[q] \in Resolutions
     \/ m = "twice" /\ what = "confirm" /\ \E q \in Calls : op[q] = "confirm"}

\* A call with something to do; one that is turned down leaves no trace.
Request(c, what, step, d, r) ==
  /\ pc[c] = "idle"
  /\ requests < MaxRequests
  /\ requests' = requests + 1
  /\ Goto(c, step)
  /\ op' = [op EXCEPT ![c] = what]
  /\ entity' = [entity EXCEPT ![c] = d]
  /\ held' = [held EXCEPT ![c] = r]
  /\ mishaps' = mishaps \cup Overlap(what)
  /\ UNCHANGED <<stores, seen, looked, known, outdated, lost, spent, faults>>

\* The row another process holds is no longer what it was.
Behind(p, changed) ==
  IF changed THEN {q \in Procs \ {p} : pc[q] # "idle"} ELSE {}

-----------------------------------------------------------------------------
\* createDispute: one dispute for a transaction.
CreateDispute(c) ==
  /\ dispute.status = "NONE"
  /\ Request(c, "create", "insert", [NoDispute EXCEPT !.status = "OPEN"], "NONE")

\* addEvidence, and addAdminEvidence, which does not look at the status.
AddEvidence(c) ==
  /\ dispute.status # "NONE"
  /\ Request(c, "evidence", "insert", dispute, "NONE")

\* The INSERT; a second dispute for the transaction violates a unique column.
Insert(p) ==
  /\ pc[p] = "insert"
  /\ CASE op[p] = "create" ->
            /\ dispute' = IF dispute.status = "NONE" THEN entity[p] ELSE dispute
            /\ UNCHANGED <<evidence, reversal>>
       [] op[p] = "evidence" ->
            /\ \E side \in {"CLAIMANT", "RESPONDENT", "ADMIN"} :
                 /\ side # "ADMIN" => entity[p].status \in Open
                 /\ evidence' = evidence \cup {[side |-> side, released |-> side = "ADMIN"]}
            /\ UNCHANGED <<dispute, reversal>>
       [] OTHER ->
            /\ reversal' = IF reversal = "NONE" THEN "PENDING_CONFIRMATION" ELSE reversal
            /\ UNCHANGED <<dispute, evidence>>
  /\ End(p)
  /\ UNCHANGED <<late, balance, extended, charged, unfunded, compensating, ghosts, bounds>>

\* releaseRespondentEvidence: one UPDATE.
Release ==
  /\ evidence' = {IF e.side = "RESPONDENT" THEN [e EXCEPT !.released = TRUE] ELSE e : e \in evidence}
  /\ UNCHANGED <<dispute, late, reversal, balance, extended, charged, unfunded, compensating,
                 work, ghosts, bounds>>

\* assignDispute takes a dispute of any status.
Assign(c) ==
  /\ dispute.status # "NONE"
  /\ Request(c, "assign", "select",
             [dispute EXCEPT !.status = IF @ = "OPEN" THEN "UNDER_REVIEW" ELSE @], "NONE")

Resolvable(d) == d.status \in Open

Outcome(d, status) == [d EXCEPT !.status = status, !.resolvedAt = TRUE]

\* resolveDispute.
Resolve(c, what) ==
  /\ Resolvable(dispute)
  /\ \/ /\ what = "valid"
        /\ Request(c, what, "select", Outcome(dispute, "RESOLVED_VALID"), "NONE")
     \/ /\ what = "chargeback"
        /\ Request(c, what, "respondent", Outcome(dispute, "RESOLVED_CHARGEBACK"), "NONE")

\* processChargeback reads the respondent, who is the user.
ReadRespondent(p) ==
  /\ pc[p] = "respondent"
  /\ known' = [known EXCEPT ![p] = balance]
  /\ Goto(p, "claimant")
  /\ UNCHANGED <<stores, op, entity, held, seen, looked, outdated, ghosts, bounds>>

\* The INSERT of the charge-back violates the enum.
Refused == ~ extended

\* Mutant: the catch of processChargeback does not throw.
RejectedSilently(p) ==
  /\ Goto(p, "select")
  /\ UNCHANGED <<op, entity, held, seen, looked, known, outdated>>

\* The transaction is rolled back and the call fails.
Rejected(p) == End(p)

\* The charge-back is inserted, and with enough funds the claimant, the same user,
\* is read once more; known[p] < Amount stands for "not enough".
ReadClaimant(p) ==
  /\ pc[p] = "claimant"
  /\ IF Refused
       THEN Rejected(p)
       ELSE /\ known' = [known EXCEPT ![p] = IF @ >= Amount THEN balance ELSE -1]
            /\ Goto(p, "commit")
            /\ UNCHANGED <<op, entity, held, seen, looked, outdated>>
  /\ UNCHANGED <<stores, ghosts, bounds>>

\* Mutant: both saves are of one object.
CreditedOnBoth(now, read) == now

\* The debited respondent is saved, and then the claimant, who was read before
\* that: the credit is what remains.
Credited(now, read) == read + Amount

\* The end of processChargeback.
Commit(p) ==
  /\ pc[p] = "commit"
  /\ IF known[p] >= 0
       THEN /\ balance' = Credited(balance, known[p])
            /\ charged' = charged + 1
            /\ lost' = (lost \/ balance # known[p])
            /\ UNCHANGED unfunded
       ELSE /\ unfunded' = unfunded + 1
            /\ UNCHANGED <<balance, charged, lost>>
  /\ Goto(p, "select")
  /\ UNCHANGED <<dispute, late, evidence, reversal, extended, compensating,
                 op, entity, held, seen, looked, known, outdated, mishaps, bounds>>

-----------------------------------------------------------------------------
\* save() selects the dispute.
Select(p) ==
  /\ pc[p] = "select"
  /\ seen' = [seen EXCEPT ![p] = dispute]
  /\ Goto(p, "update")
  /\ UNCHANGED <<stores, op, entity, held, looked, known, outdated, ghosts, bounds>>

\* A column is written if the entity differs from what the SELECT has read.
Column(new, before, now) == IF new # before THEN new ELSE now

\* What an UPDATE makes of the row.
Written(new, before, now) ==
  [status     |-> Column(new.status, before.status, now.status),
   resolvedAt |-> Column(new.resolvedAt, before.resolvedAt, now.resolvedAt),
   breached   |-> Column(new.breached, before.breached, now.breached),
   level      |-> Column(new.level, before.level, now.level)]

\* save() updates it.
Update(p) ==
  LET new == Written(entity[p], seen[p], dispute)
      undone == dispute.status \in Resolved /\ new # dispute
  IN  /\ pc[p] = "update"
      /\ dispute' = new
      /\ mishaps' = IF undone THEN mishaps \cup {"undone"} ELSE mishaps
      /\ Goto(p, "idle")
      /\ op' = [op EXCEPT ![p] = "none"]
      /\ entity' = [entity EXCEPT ![p] = NoDispute]
      /\ seen' = [seen EXCEPT ![p] = NoDispute]
      /\ known' = [known EXCEPT ![p] = 0]
      /\ outdated' = (outdated \cup Behind(p, new # dispute)) \ {p}
      /\ UNCHANGED <<late, evidence, reversal, balance, extended, charged, unfunded, compensating,
                     held, looked, lost, bounds>>

\* Mutant: those nobody has looked at.
BreachingOpen(d) == d.status = "OPEN" /\ late > 0 /\ ~ d.breached

\* What checkSlaBreaches asks for.
Breaching(d) == d.status \in Open /\ late > 0 /\ ~ d.breached

\* 1, 2 from 24 hours beyond the deadline, 3 from 48.
Level == late

\* checkSlaBreaches finds the dispute; the level is fixed here.
FindBreach(j) ==
  /\ pc[j] = "idle"
  /\ Breaching(dispute)
  /\ \E senior \in BOOLEAN :
       entity' = [entity EXCEPT ![j] =
                    [dispute EXCEPT !.breached = TRUE, !.level = Level,
                                    !.status = IF late = 1 /\ senior THEN "UNDER_REVIEW" ELSE @]]
  /\ op' = [op EXCEPT ![j] = "escalate"]
  /\ Goto(j, "select")
  /\ UNCHANGED <<stores, held, seen, looked, known, outdated, ghosts, bounds>>

-----------------------------------------------------------------------------
\* previewReversal: one reversal for a transaction.
Preview(c) ==
  /\ reversal = "NONE"
  /\ Request(c, "preview", "insert", NoDispute, "NONE")

\* Mutant: a reversal may be confirmed again.
ConfirmableAlways == reversal # "NONE"

Confirmable == reversal = "PENDING_CONFIRMATION"

\* confirmReversal.
Confirm(c) ==
  /\ Confirmable
  /\ Request(c, "confirm", "compensate", NoDispute, "COMPLETED")

\* The compensating transaction is saved; nothing changes a balance.
Compensate(p) ==
  /\ pc[p] = "compensate"
  /\ compensating' = compensating + 1
  /\ Goto(p, "selectReversal")
  /\ UNCHANGED <<dispute, late, evidence, reversal, balance, extended, charged, unfunded,
                 op, entity, held, seen, looked, known, outdated, ghosts, bounds>>

\* save() selects the reversal.
SelectReversal(p) ==
  /\ pc[p] = "selectReversal"
  /\ looked' = [looked EXCEPT ![p] = reversal]
  /\ Goto(p, "updateReversal")
  /\ UNCHANGED <<stores, op, entity, held, seen, known, outdated, ghosts, bounds>>

Saved(p) == Column(held[p], looked[p], reversal)

\* save() updates it.
UpdateReversal(p) ==
  /\ pc[p] = "updateReversal"
  /\ reversal' = Saved(p)
  /\ IF held[p] = "COMPLETED"
       THEN Goto(p, "notify") /\ UNCHANGED <<op, entity, held, seen, looked, known, outdated>>
       ELSE End(p)
  /\ UNCHANGED <<dispute, late, evidence, balance, extended, charged, unfunded, compensating,
                 ghosts, bounds>>

\* The audit log and the notification.
Notify(p) ==
  /\ pc[p] = "notify"
  /\ End(p)
  /\ UNCHANGED <<stores, ghosts, bounds>>

-----------------------------------------------------------------------------
\* A failure in the catch of confirmReversal leaves the reversal as it is.
Failure(p) == IF op[p] = "confirm" /\ held[p] = "FAILED" THEN {"fault", "unsaved"} ELSE {"fault"}

\* A statement throws; the catch of confirmReversal saves the reversal as FAILED.
Fail(p) ==
  /\ faults < MaxFaults
  /\ faults' = faults + 1
  /\ pc[p] # "idle"
  /\ mishaps' = mishaps \cup Failure(p)
  /\ IF op[p] = "confirm" /\ held[p] = "COMPLETED"
       THEN /\ Goto(p, "selectReversal")
            /\ held' = [held EXCEPT ![p] = "FAILED"]
            /\ UNCHANGED <<op, entity, seen, looked, known, outdated>>
       ELSE End(p)
  /\ UNCHANGED <<stores, lost, spent, requests>>

Call(c) ==
  \/ CreateDispute(c) \/ AddEvidence(c) \/ Assign(c)
  \/ Resolve(c, "valid") \/ Resolve(c, "chargeback")
  \/ Preview(c) \/ Confirm(c)

Step(p) ==
  \/ Insert(p) \/ ReadRespondent(p) \/ ReadClaimant(p) \/ Commit(p)
  \/ Select(p) \/ Update(p)
  \/ Compensate(p) \/ SelectReversal(p) \/ UpdateReversal(p) \/ Notify(p)

Next ==
  \/ Age \/ Spend \/ Release
  \/ \E c \in Calls : Call(c)
  \/ \E j \in Jobs : FindBreach(j)
  \/ \E p \in Procs : Step(p) \/ Fail(p)

Spec == Init /\ [][Next]_vars

\* The job runs every 30 minutes, and a run goes on.
FairSpec == Spec /\ \A j \in Jobs : WF_vars(FindBreach(j) \/ Step(j))

-----------------------------------------------------------------------------
(***************************************************************************)
(* Properties.                                                             *)
(***************************************************************************)

\* A dispute is charged back twice only if two resolutions overlap, one was undone
\* by a stale save, or one could not be saved after its charge-back.
ChargedBackOnce == charged + unfunded > 1 => mishaps \cap {"race", "undone", "fault"} # {}

\* What the row says of the resolution is what was done with the money, once, unless
\* two resolutions overlap, one was undone, or a statement failed; and
\* RESOLVED_CHARGEBACK is not said without a charge-back whatever happens.
ResolutionIsTrue ==
  /\ ChargedBackOnce
  /\ dispute.status = "RESOLVED_CHARGEBACK" => charged + unfunded > 0
  /\ mishaps \cap {"race", "undone", "fault"} = {} =>
       /\ dispute.resolvedAt <=> dispute.status \in Resolved
       /\ dispute.status = "RESOLVED_VALID" => charged + unfunded = 0

\* A charge-back adds its amount to the balance of the user, who is the respondent
\* and the claimant, unless a balance is overwritten: the debit does not last.
ChargeBackIsACredit == ~ lost => balance = Funds + Amount * charged - spent

\* The row and the balance both tell what the resolution has done.
ResolutionIsPaid == ResolutionIsTrue /\ ChargeBackIsACredit

\* A transaction is compensated by a second row only if two confirmations overlap,
\* or the catch could not save that one has failed; a reversal that is COMPLETED
\* has its row, and at rest a row has its reversal, unless a statement failed.
ReversedOnce ==
  /\ compensating > 1 => mishaps \cap {"twice", "unsaved"} # {}
  /\ reversal = "COMPLETED" => compensating > 0
  /\ (\A p \in Procs : op[p] # "confirm") /\ compensating > 0 =>
       reversal = "COMPLETED" \/ "fault" \in mishaps

\* A dispute that is late is escalated as long as it is open, whatever stale copies
\* of it are saved meanwhile.
LateIsEscalated ==
  dispute.status \in Open /\ late > 0 ~> dispute.breached \/ dispute.status \notin Open

=============================================================================

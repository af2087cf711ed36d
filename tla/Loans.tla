-------------------------------- MODULE Loans --------------------------------
(***************************************************************************)
(* LoansService: a loan is applied for, approved or rejected, paid out     *)
(* with a schedule of instalments, and paid back, by hand or by the job    *)
(* that debits what is due; what cannot be debited is overdue, grows by a  *)
(* penalty at every run, and ends in the default of the loan.              *)
(*                                                                         *)
(* Approvals and payments write in a transaction, from entities and        *)
(* balances that were read before it began.  Each of them updates the row  *)
(* of the user before it looks whether all instalments are paid, so that   *)
(* from there to the commit they are serial and modelled as one step.      *)
(* Everything else is a save() of an entity: a SELECT, and an UPDATE of    *)
(* the columns that differ.  Instances run the daily job at the same time. *)
(***************************************************************************)
EXTENDS Integers, FiniteSets, FiniteSetsExt

CONSTANTS
  Loans, Users,
  Calls,          \* calls of the API
  Jobs,           \* runs of the daily job, on one or several instances
  Borrower,       \* Borrower[l]: the user
  Numbers,        \* 1 .. the number of instalments
  Principal,      \* approvedAmount
  Instalment,     \* totalDue of an instalment
  Amounts,        \* what a repayment, or another payment, may be of
  Funds,          \* Funds[u]: the XLM of the user to begin with
  PenaltyPermille,
  MaxRequests,    \* bound: calls in a behaviour
  MaxSpent,       \* bound: what a user pays for something else
  MaxPenalties,   \* bound: penalties that are counted
  MaxFaults       \* bound: failing statements in a behaviour

Procs == Calls \cup Jobs

ASSUME LoansAssumption ==
  /\ Loans # {} /\ IsFiniteSet(Loans) /\ IsFiniteSet(Users) /\ IsFiniteSet(Numbers)
  /\ IsFiniteSet(Calls) /\ Calls # {} /\ Calls \cap Jobs = {}
  /\ Borrower \in [Loans -> Users]
  /\ Numbers \subseteq Nat /\ Numbers # {}
  /\ Principal \in Nat /\ Instalment \in Nat \ {0}
  /\ Amounts \subseteq Nat \ {0}
  /\ Funds \in [Users -> Nat]
  /\ PenaltyPermille \in Nat
  /\ MaxRequests \in Nat /\ MaxSpent \in Nat /\ MaxPenalties \in Nat /\ MaxFaults \in Nat

VARIABLES
  status,     \* status[l] of the loan
  inst,       \* inst[l][i]: the row of an instalment; i names the approval, too
  age,        \* age[l][n]: not due, due, or late enough for a default
  wallet,     \* wallet[u]: User.balances
  flags,      \* the loans with a compliance flag
  pc,         \* pc[p]: the statement a call or run executes next
  call,       \* call[p]: what it does on which loan and instalment
  known,      \* known[p]: the wallet it has read
  found,      \* found[p]: the entities it works on, as they were found
  seen,       \* seen[p]: what the SELECT of its save has read
  todo,       \* todo[j]: entities a run has found and not yet worked on
  phase,      \* phase[j]: what the run is at
  disbursed,  \* disbursed[l]: LOAN_DISBURSEMENT transactions
  collected,  \* collected[l][i]: the sum of its LOAN_REPAYMENT transactions
  raced,      \* raced[l]: two approvals were between SELECT and commit
  stale,      \* something was overwritten by one who had not read it
  spent,      \* what users have paid for something else
  penalties,  \* penalties so far
  requests,   \* calls so far
  faults      \* failures so far

rows == <<status, inst, wallet, flags>>
work == <<call, known, found, seen>>
run == <<todo, phase>>
ghosts == <<disbursed, collected, raced, stale>>
bounds == <<spent, penalties, requests, faults>>
vars == <<status, inst, age, wallet, flags, pc, call, known, found, seen, todo, phase,
          disbursed, collected, raced, stale, spent, penalties, requests, faults>>

\* An instalment is known by the approval that made it and its number.
Slots == Calls \X Numbers
Number(i) == i[2]

Statuses == {"NONE", "PENDING", "REJECTED", "ACTIVE", "REPAID", "DEFAULTED"}
Rows == [status : {"NONE", "SCHEDULED", "PARTIAL", "OVERDUE", "PAID"}, due : Int, paid : Int]
NoRow == [status |-> "NONE", due |-> 0, paid |-> 0]

\* A row of the schedule.
Scheduled == [status |-> "SCHEDULED", due |-> Instalment, paid |-> 0]

\* What a call or run holds of a loan and one of its instalments.
Entities == [loan : Statuses, row : Rows, scheduled : BOOLEAN]
NoEntity == [loan |-> "NONE", row |-> NoRow, scheduled |-> FALSE]
Entity(l, i) ==
  [loan |-> status[l], row |-> inst[l][i], scheduled |-> \E k \in Slots : inst[l][k] # NoRow]

Ops == {"approve", "reject", "repay", "debit", "overdue", "penalty", "default"}
CallsOf == [op : Ops, loan : Loans, slot : Slots, amount : Nat]
NoCall == [op |-> "reject", loan |-> CHOOSE l \in Loans : TRUE,
           slot |-> CHOOSE i \in Slots : TRUE, amount |-> 0]

TypeOK ==
  /\ status \in [Loans -> Statuses]
  /\ inst \in [Loans -> [Slots -> Rows]]
  /\ age \in [Loans -> [Numbers -> 0 .. 2]]
  /\ wallet \in [Users -> Int]
  /\ flags \subseteq Loans
  /\ pc \in [Procs -> {"idle", "user", "select", "update", "commit", "flag"}]
  /\ call \in [Procs -> CallsOf]
  /\ known \in [Procs -> Int]
  /\ found \in [Procs -> Entities]
  /\ seen \in [Procs -> Entities]
  /\ todo \in [Jobs -> [Loans -> [Slots -> Entities]]]
  /\ phase \in [Jobs -> {"over", "debit", "penalty"}]
  /\ disbursed \in [Loans -> Nat]
  /\ collected \in [Loans -> [Slots -> Int]]
  /\ raced \in [Loans -> BOOLEAN]
  /\ stale \in BOOLEAN
  /\ spent \in Nat
  /\ penalties \in 0 .. MaxPenalties
  /\ requests \in 0 .. MaxRequests
  /\ faults \in 0 .. MaxFaults

Init ==
  /\ status = [l \in Loans |-> "NONE"]
  /\ inst = [l \in Loans |-> [i \in Slots |-> NoRow]]
  /\ age = [l \in Loans |-> [n \in Numbers |-> 0]]
  /\ wallet = Funds
  /\ flags = {}
  /\ pc = [p \in Procs |-> "idle"]
  /\ call = [p \in Procs |-> NoCall]
  /\ known = [p \in Procs |-> 0]
  /\ found = [p \in Procs |-> NoEntity]
  /\ seen = [p \in Procs |-> NoEntity]
  /\ todo = [j \in Jobs |-> [l \in Loans |-> [i \in Slots |-> NoEntity]]]
  /\ phase = [j \in Jobs |-> "over"]
  /\ disbursed = [l \in Loans |-> 0]
  /\ collected = [l \in Loans |-> [i \in Slots |-> 0]]
  /\ raced = [l \in Loans |-> FALSE]
  /\ stale = FALSE
  /\ spent = 0
  /\ penalties = 0
  /\ requests = 0
  /\ faults = 0

-----------------------------------------------------------------------------
\* applyForLoan: the credit score decides.
Apply(l) ==
  /\ status[l] = "NONE"
  /\ \E s \in {"PENDING", "REJECTED"} : status' = [status EXCEPT ![l] = s]
  /\ UNCHANGED <<inst, age, wallet, flags, pc, work, run, ghosts, bounds>>

\* Days pass, and earlier instalments are due earlier.
Grow(l, n) ==
  /\ \E i \in Slots : inst[l][i] # NoRow
  /\ age[l][n] < 2
  /\ \A m \in Numbers : m < n => age[l][m] > age[l][n]
  /\ age' = [age EXCEPT ![l][n] = @ + 1]
  /\ UNCHANGED <<rows, pc, work, run, ghosts, bounds>>

\* The user pays for something else.
Spend(u, a) ==
  /\ spent + a <= MaxSpent
  /\ wallet[u] >= a
  /\ wallet' = [wallet EXCEPT ![u] = @ - a]
  /\ spent' = spent + a
  /\ UNCHANGED <<status, inst, age, flags, pc, work, run, ghosts, penalties, requests, faults>>

Goto(p, step) == pc' = [pc EXCEPT ![p] = step]

\* The call is answered; a run goes on with what is left to do.
Done(p) ==
  /\ Goto(p, "idle")
  /\ call' = [call EXCEPT ![p] = NoCall]
  /\ known' = [known EXCEPT ![p] = 0]
  /\ found' = [found EXCEPT ![p] = NoEntity]
  /\ seen' = [seen EXCEPT ![p] = NoEntity]

Start(p, op, l, i, amount, entity, step) ==
  /\ pc[p] = "idle"
  /\ Goto(p, step)
  /\ call' = [call EXCEPT ![p] = [op |-> op, loan |-> l, slot |-> i, amount |-> amount]]
  /\ found' = [found EXCEPT ![p] = entity]
  /\ UNCHANGED <<rows, known, seen, ghosts, faults>>

Outstanding(r) == r.status \in {"SCHEDULED", "PARTIAL", "OVERDUE"}

\* The instalment a repayment goes to.
FirstOutstanding(l, i) ==
  /\ Outstanding(inst[l][i])
  /\ \A k \in Slots : Outstanding(inst[l][k]) => Number(i) <= Number(k)

\* The first look at the loan; a call it turns down leaves no trace.
Request(p, l) ==
  /\ p \in Calls
  /\ requests < MaxRequests
  /\ requests' = requests + 1
  /\ \E i \in Slots :
       \/ /\ status[l] = "PENDING"
          /\ i = NoCall.slot
          /\ \/ Start(p, "approve", l, i, 0, Entity(l, i), "user")
             \/ Start(p, "reject", l, i, 0, Entity(l, i), "select")
       \/ /\ status[l] = "ACTIVE"
          /\ FirstOutstanding(l, i)
          /\ \E a \in Amounts : Start(p, "repay", l, i, a, Entity(l, i), "user")
  /\ UNCHANGED <<age, run, spent, penalties>>

\* Whether the balance covers the payment.
Affordable(c, e, balance) ==
  CASE c.op = "repay" -> balance >= c.amount
    [] c.op = "debit" -> balance >= e.row.due - e.row.paid
    [] OTHER -> TRUE

\* usersService.findById.  What the job cannot debit it marks as overdue.
ReadUser(p) ==
  LET c == call[p]
      balance == wallet[Borrower[c.loan]]
  IN  /\ pc[p] = "user"
      /\ IF Affordable(c, found[p], balance)
           THEN /\ known' = [known EXCEPT ![p] = balance]
                /\ Goto(p, IF c.op = "debit" THEN "commit" ELSE "select")
                /\ UNCHANGED <<call, found, seen>>
           ELSE IF c.op = "debit"
             THEN /\ call' = [call EXCEPT ![p].op = "overdue"]
                  /\ Goto(p, "select")
                  /\ UNCHANGED <<known, found, seen>>
             ELSE Done(p)
      /\ UNCHANGED <<rows, age, run, ghosts, bounds>>

\* save() selects what it is going to write.
Select(p) ==
  /\ pc[p] = "select"
  /\ seen' = [seen EXCEPT ![p] = Entity(call[p].loan, call[p].slot)]
  /\ Goto(p, IF call[p].op \in {"approve", "repay"} THEN "commit" ELSE "update")
  /\ UNCHANGED <<rows, age, call, known, found, run, ghosts, bounds>>

\* A column is written if the entity differs from what the SELECT has read.
Column(entity, before, now) == IF entity # before THEN entity ELSE now

\* What an UPDATE makes of a row.
Written(entity, before, now) ==
  [status |-> Column(entity.status, before.status, now.status),
   due    |-> Column(entity.due, before.due, now.due),
   paid   |-> Column(entity.paid, before.paid, now.paid)]

\* Mutant: what was read is written as it was, if it was a payment.
WriteWalletUp(p, change) ==
  LET u == Borrower[call[p].loan]
  IN  wallet' = [wallet EXCEPT ![u] = IF change > 0 THEN known[p] + change ELSE known[p]]

\* users.balances is written as a whole, from what was read before.
WriteWallet(p, change) ==
  LET u == Borrower[call[p].loan]
  IN  wallet' = [wallet EXCEPT ![u] = known[p] + change]

WalletIsStale(p) == wallet[Borrower[call[p].loan]] # known[p]

\* Mutant: the schedule is not loaded with the loan, so that nothing fails.
RefusedNever(p) == FALSE

\* The loan was read with an empty schedule, and is saved with it: TypeORM would
\* cut the instalments its SELECT has found loose from the loan, which a NOT NULL
\* column forbids.
Refused(p) == seen[p].scheduled

\* The transaction of adminApproveLoan.
Approve(p) ==
  LET l == call[p].loan
      others == {q \in Calls \ {p} : call[q].op = "approve" /\ call[q].loan = l /\ pc[q] = "commit"}
  IN  /\ pc[p] = "commit"
      /\ call[p].op = "approve"
      /\ IF Refused(p)
           THEN UNCHANGED <<status, inst, wallet, disbursed, raced, stale>>
           ELSE /\ status' = [status EXCEPT ![l] = Column("ACTIVE", seen[p].loan, @)]
                /\ inst' = [inst EXCEPT ![l] =
                              [i \in Slots |-> IF i[1] = p THEN Scheduled ELSE @[i]]]
                /\ WriteWallet(p, Principal)
                /\ disbursed' = [disbursed EXCEPT ![l] = @ + 1]
                /\ raced' = [raced EXCEPT ![l] = @ \/ \E q \in others : ~ Refused(q)]
                /\ stale' = (stale \/ WalletIsStale(p) \/ status[l] # "PENDING")
      /\ Done(p)
      /\ UNCHANGED <<age, flags, run, collected, bounds>>

\* Mutant: a payment always pays the instalment off.
PaidOffWith(r, a) == [r EXCEPT !.paid = r.due, !.status = "PAID"]

\* The instalment after a payment.
PaidWith(r, a) ==
  [status |-> IF r.paid + a >= r.due THEN "PAID" ELSE "PARTIAL", due |-> r.due, paid |-> r.paid + a]

\* What is paid: the whole rest, or at most what the call says.
Payment(c, r) ==
  LET rest == r.due - r.paid
  IN  IF c.op = "repay" /\ c.amount < rest THEN c.amount ELSE rest

AllPaid(paid) == \A i \in Slots : paid[i] # NoRow => paid[i].status = "PAID"

\* The transaction of repayLoan and of autoDebitRepayment, whose save comes after
\* the update of the user.
Pay(p) ==
  LET c == call[p]
      l == c.loan
      i == c.slot
      before == IF c.op = "repay" THEN seen[p].row ELSE inst[l][i]
      amount == Payment(c, found[p].row)
      paid == [inst[l] EXCEPT ![i] = Written(PaidWith(found[p].row, amount), before, @)]
  IN  /\ pc[p] = "commit"
      /\ c.op \in {"repay", "debit"}
      /\ inst' = [inst EXCEPT ![l] = paid]
      /\ WriteWallet(p, - amount)
      /\ status' = [status EXCEPT ![l] = IF AllPaid(paid) THEN "REPAID" ELSE @]
      /\ collected' = [collected EXCEPT ![l][i] = @ + amount]
      /\ stale' = (\/ stale
                   \/ WalletIsStale(p)
                   \/ inst[l][i] # found[p].row
                   \/ before # found[p].row
                   \/ AllPaid(paid) /\ status[l] # "ACTIVE")
      /\ Done(p)
      /\ UNCHANGED <<age, flags, run, disbursed, raced, bounds>>

\* The UPDATE of a loan that was rejected, or defaulted; the latter is flagged
\* after that.
UpdateLoan(p) ==
  LET l == call[p].loan
      op == call[p].op
      entity == IF op = "reject" THEN "REJECTED" ELSE "DEFAULTED"
  IN  /\ pc[p] = "update"
      /\ op \in {"reject", "default"}
      /\ status' = [status EXCEPT ![l] = Column(entity, seen[p].loan, @)]
      /\ stale' = (\/ stale
                   \/ status[l] \notin {found[p].loan, entity}
                   \/ op = "default" /\ inst[l][call[p].slot].status # "OVERDUE")
      /\ IF op = "reject"
           THEN Done(p)
           ELSE Goto(p, "flag") /\ UNCHANGED work
      /\ UNCHANGED <<inst, age, wallet, flags, run, disbursed, collected, raced, bounds>>

\* Mutant: nothing is flagged.
FlagNothing(p) ==
  /\ pc[p] = "flag"
  /\ Done(p)
  /\ UNCHANGED <<rows, age, run, ghosts, bounds>>

\* complianceFlagRepo.save.
Flag(p) ==
  /\ pc[p] = "flag"
  /\ flags' = flags \cup {call[p].loan}
  /\ Done(p)
  /\ UNCHANGED <<status, inst, age, wallet, run, ghosts, bounds>>

-----------------------------------------------------------------------------
(***************************************************************************)
(* processScheduledRepayments and, after it, applyOverduePenalties.        *)
(***************************************************************************)

\* Mutant: nothing is due before the loan defaults.
WantedLate(k, l, i) ==
  IF k = "debit" THEN inst[l][i].status = "SCHEDULED" /\ age[l][Number(i)] >= 2
                 ELSE inst[l][i].status = "OVERDUE"

\* What the job asks the database for.
Wanted(k, l, i) ==
  IF k = "debit" THEN inst[l][i].status = "SCHEDULED" /\ age[l][Number(i)] >= 1
                 ELSE inst[l][i].status = "OVERDUE"

Idle(j) ==
  /\ pc[j] = "idle"
  /\ \A l \in Loans, i \in Slots : todo[j][l][i] = NoEntity

\* Midnight; and the second half of the job.
Find(j, k) ==
  /\ Idle(j)
  /\ phase[j] = IF k = "debit" THEN "over" ELSE "debit"
  /\ phase' = [phase EXCEPT ![j] = k]
  /\ todo' = [todo EXCEPT ![j] = [l \in Loans |-> [i \in Slots |->
                                    IF Wanted(k, l, i) THEN Entity(l, i) ELSE NoEntity]]]
  /\ UNCHANGED <<rows, age, pc, work, ghosts, bounds>>

\* The run is over.
Finish(j) ==
  /\ Idle(j)
  /\ phase[j] = "penalty"
  /\ phase' = [phase EXCEPT ![j] = "over"]
  /\ UNCHANGED <<rows, age, pc, work, todo, ghosts, bounds>>

\* The next entity of the run: autoDebitRepayment turns those of other than
\* active loans down.
Take(j, l, i) ==
  LET e == todo[j][l][i]
  IN  /\ pc[j] = "idle"
      /\ e # NoEntity
      /\ todo' = [todo EXCEPT ![j][l][i] = NoEntity]
      /\ CASE phase[j] = "debit" /\ e.loan = "ACTIVE" -> Start(j, "debit", l, i, 0, e, "user")
           [] phase[j] = "debit" /\ e.loan # "ACTIVE" ->
                UNCHANGED <<rows, pc, call, found, known, seen, ghosts, faults>>
           [] OTHER -> Start(j, "penalty", l, i, 0, e, "select")
      /\ UNCHANGED <<age, phase, spent, penalties, requests>>

Penalty(r) ==
  IF penalties < MaxPenalties THEN ((r.due - r.paid) * PenaltyPermille) \div 1000 ELSE 0

\* Seven days overdue, and not known to be in default.
Defaults(p) ==
  age[call[p].loan][Number(call[p].slot)] = 2 /\ found[p].loan # "DEFAULTED"

\* The UPDATE of an instalment that is marked as overdue, or has grown, from the
\* entity the run has found; then the loan may be in default.
UpdateRow(p) ==
  LET c == call[p]
      l == c.loan
      i == c.slot
      old == found[p].row
      entity == IF c.op = "overdue" THEN [old EXCEPT !.status = "OVERDUE"]
                                    ELSE [old EXCEPT !.due = @ + Penalty(old)]
  IN  /\ pc[p] = "update"
      /\ c.op \in {"overdue", "penalty"}
      /\ inst' = [inst EXCEPT ![l][i] = Written(entity, seen[p].row, @)]
      /\ stale' = (stale \/ inst[l][i] # old \/ seen[p].row # old)
      /\ penalties' = IF c.op = "penalty" /\ penalties < MaxPenalties THEN penalties + 1 ELSE penalties
      /\ IF c.op = "penalty" /\ Defaults(p)
           THEN /\ call' = [call EXCEPT ![p].op = "default"]
                /\ Goto(p, "select")
                /\ UNCHANGED <<known, found, seen>>
           ELSE Done(p)
      /\ UNCHANGED <<status, age, wallet, flags, run, disbursed, collected, raced, spent, requests,
                     faults>>

-----------------------------------------------------------------------------
\* A statement throws: the transaction is rolled back, and a run logs the error
\* and goes on with the next entity.
Fail(p) ==
  /\ pc[p] # "idle"
  /\ faults < MaxFaults
  /\ faults' = faults + 1
  /\ Done(p)
  /\ UNCHANGED <<rows, age, run, ghosts, spent, penalties, requests>>

Step(p) == ReadUser(p) \/ Select(p) \/ Approve(p) \/ Pay(p) \/ UpdateLoan(p) \/ UpdateRow(p) \/ Flag(p)

JobStep(j) ==
  \/ \E k \in {"debit", "penalty"} : Find(j, k)
  \/ Finish(j)
  \/ \E l \in Loans, i \in Slots : Take(j, l, i)
  \/ Step(j)

Next ==
  \/ \E l \in Loans : Apply(l) \/ \E n \in Numbers : Grow(l, n)
  \/ \E u \in Users, a \in Amounts : Spend(u, a)
  \/ \E p \in Calls : Step(p) \/ \E l \in Loans : Request(p, l)
  \/ \E j \in Jobs : JobStep(j)
  \/ \E p \in Procs : Fail(p)

Spec == Init /\ [][Next]_vars

\* The job is run every day, and a run goes on; calls may be given up.
FairSpec == Spec /\ \A j \in Jobs : WF_vars(JobStep(j))

-----------------------------------------------------------------------------
(***************************************************************************)
(* Properties.                                                             *)
(***************************************************************************)

\* No payment, by hand or by the job, takes more than there is, although
\* balances are read before the transaction that writes them.
NoOverdraft == \A u \in Users : wallet[u] >= 0

\* A loan is paid out twice only if two approvals have both looked for a schedule
\* before the first of them has made one.
DisbursedOnce == \A l \in Loans : disbursed[l] > 1 => raced[l]

\* What an instalment says was paid is what was debited for it, a loan that was
\* rejected was not paid out, and one that was repaid has nothing outstanding, unless
\* a call or run wrote over what it had not read (a payment over another, a penalty or
\* an OVERDUE over a payment).
LoansAreTrue ==
  ~ stale => \A l \in Loans :
    /\ \A i \in Slots : inst[l][i].paid = collected[l][i]
    /\ status[l] \in {"NONE", "PENDING", "REJECTED"} <=> disbursed[l] = 0
    /\ status[l] = "REPAID" <=>
         disbursed[l] > 0 /\ \A i \in Slots : inst[l][i].status \in {"NONE", "PAID"}

Total(f, S) == MapThenSumSet(LAMBDA x : f[x], S)
Collected == [l \in Loans |-> Total(collected[l], Slots)]

\* All money comes from payouts and goes into repayments, unless somebody wrote
\* over a balance he had not read.
MoneyIsConserved ==
  ~ stale => Total(wallet, Users) + spent + Total(Collected, Loans)
               = Total(Funds, Users) + Principal * Total(disbursed, Loans)

\* An instalment that is due is debited, or overdue, or the user has begun to
\* pay it, as long as the loan is active.
DueIsCollected ==
  \A l \in Loans, i \in Slots :
    inst[l][i].status = "SCHEDULED" /\ age[l][Number(i)] >= 1
      ~> inst[l][i].status # "SCHEDULED" \/ status[l] # "ACTIVE"

\* A loan in default is flagged for compliance, unless a statement has failed:
\* the next run finds the loan in default and does not come to the flag again.
DefaultedIsFlagged ==
  \A l \in Loans : status[l] = "DEFAULTED" ~> l \in flags \/ faults > 0

\* What is due is pursued, run by run, to the default and its flag, whatever fails.
DueIsPursued == DueIsCollected /\ DefaultedIsFlagged

=============================================================================

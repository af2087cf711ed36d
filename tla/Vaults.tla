-------------------------------- MODULE Vaults --------------------------------
(***************************************************************************)
(* VaultsService: a user moves money from the main wallet into a savings   *)
(* vault; cron jobs add interest, end the term and make automatic          *)
(* deposits; the money is withdrawn, early with a penalty, and an empty or *)
(* matured vault is deleted.                                               *)
(*                                                                         *)
(* Deposits and withdrawals write in a transaction that holds the row lock *)
(* of the vault, so what they write is one step; but what they know of the *)
(* user, and part of what they check, was read before.  The interest and   *)
(* the maturity job take no lock at all: they save the entities they found *)
(* at the start of the run, and a save is a SELECT and an UPDATE of the    *)
(* columns that differ, or an INSERT when the SELECT finds no row.         *)
(***************************************************************************)
EXTENDS Integers, FiniteSets, FiniteSetsExt

CONSTANTS
  Vaults, Users,
  Calls,          \* calls of the API
  Jobs,           \* runs of the cron jobs
  Kinds,          \* Kinds[j]: the jobs it may be a run of
  Owner,          \* Owner[v]: the user
  AutoAmount,     \* AutoAmount[v]: autoDepositAmount; 0: none
  Amounts,        \* what a deposit may be of
  Funds,          \* Funds[u]: the main wallets to begin with
  InterestPermille, PenaltyPermille,
  MaxRequests,    \* bound: calls in a behaviour
  MaxTicks,       \* bound: ticks of the interest and the deposit job
  MaxFaults       \* bound: failing statements in a behaviour

Procs == Calls \cup Jobs
AllKinds == {"accrue", "mature", "auto"}

ASSUME VaultsAssumption ==
  /\ Vaults # {} /\ IsFiniteSet(Vaults) /\ IsFiniteSet(Users)
  /\ Calls \cap Jobs = {}
  /\ Kinds \in [Jobs -> SUBSET AllKinds]
  /\ Owner \in [Vaults -> Users]
  /\ AutoAmount \in [Vaults -> Nat]
  /\ Amounts \subseteq Nat \ {0}
  /\ Funds \in [Users -> Nat]
  /\ InterestPermille \in Nat
  /\ PenaltyPermille \in 0 .. 1000
  /\ MaxRequests \in Nat /\ MaxTicks \in Nat /\ MaxFaults \in Nat

VARIABLES
  row,        \* row[v]: status, currentBalance and accruedInterest
  unlocked,   \* the vaults whose unlockAt has passed
  wallet,     \* wallet[u]: User.balances of the currency
  pc,         \* pc[p]: the statement a call or run executes next
  call,       \* call[p]: what it does on which vault
  known,      \* known[p]: the wallet it has read, and whether it was early
  kind,       \* kind[j]: the job it is a run of
  todo,       \* todo[j]: entities a run has found and not yet worked on
  found,      \* found[p]: the entity a run works on, as it was found
  seen,       \* seen[p]: what the SELECT of its save has read
  payouts,    \* payouts[v]: withdrawals
  revived,    \* revived[v]: saves that made a withdrawn or deleted vault live
  late,       \* late[v]: a deposit that was begun before came after a withdrawal
  sums,       \* what came as interest, and went as penalty or with a deletion
  stale,      \* something was overwritten by one who had not read it
  requests,   \* calls so far
  ticks,      \* ticks of the interest and the deposit job so far
  faults      \* failures so far

vars == <<row, unlocked, wallet, pc, call, known, kind, todo, found, seen, payouts, revived,
          late, sums, stale, requests, ticks, faults>>
counters == <<payouts, revived, late, sums, stale>>
bounds == <<requests, ticks, faults>>
run == <<kind, todo>>
work == <<known, run, found, seen>>

Withdrawn == {"CLOSED", "BROKEN"}
Absent == {"NONE", "GONE"}
Rows == [status : {"ACTIVE", "MATURED"} \cup Withdrawn \cup Absent, balance : Nat, accrued : Nat]
NoRow == [status |-> "NONE", balance |-> 0, accrued |-> 0]

\* What is left of a vault that was deleted.
Removed == [NoRow EXCEPT !.status = "GONE"]

CallsOf == [op : {"deposit", "withdraw", "delete", "accrue", "mature"}, vault : Vaults, amount : Nat]
NoCall == [op |-> "deposit", vault |-> CHOOSE v \in Vaults : TRUE, amount |-> 0]
Nothing == [wallet |-> 0, early |-> FALSE]

TypeOK ==
  /\ row \in [Vaults -> Rows]
  /\ unlocked \subseteq Vaults
  /\ wallet \in [Users -> Int]
  /\ pc \in [Procs -> {"idle", "user", "transact", "remove", "select", "update"}]
  /\ call \in [Procs -> CallsOf]
  /\ known \in [Procs -> [wallet : Int, early : BOOLEAN]]
  /\ kind \in [Jobs -> AllKinds]
  /\ todo \in [Jobs -> [Vaults -> Rows]]
  /\ found \in [Procs -> Rows]
  /\ seen \in [Procs -> Rows]
  /\ payouts \in [Vaults -> Nat]
  /\ revived \in [Vaults -> Nat]
  /\ late \in [Vaults -> BOOLEAN]
  /\ sums \in [interest : Nat, penalty : Nat, deleted : Nat]
  /\ stale \in BOOLEAN
  /\ requests \in 0 .. MaxRequests
  /\ ticks \in 0 .. MaxTicks
  /\ faults \in 0 .. MaxFaults

Init ==
  /\ row = [v \in Vaults |-> NoRow]
  /\ unlocked = {}
  /\ wallet = Funds
  /\ pc = [p \in Procs |-> "idle"]
  /\ call = [p \in Procs |-> NoCall]
  /\ known = [p \in Procs |-> Nothing]
  /\ kind = [j \in Jobs |-> "accrue"]
  /\ todo = [j \in Jobs |-> [v \in Vaults |-> NoRow]]
  /\ found = [p \in Procs |-> NoRow]
  /\ seen = [p \in Procs |-> NoRow]
  /\ payouts = [v \in Vaults |-> 0]
  /\ revived = [v \in Vaults |-> 0]
  /\ late = [v \in Vaults |-> FALSE]
  /\ sums = [interest |-> 0, penalty |-> 0, deleted |-> 0]
  /\ stale = FALSE
  /\ requests = 0
  /\ ticks = 0
  /\ faults = 0

Worth(r) == r.balance + r.accrued

-----------------------------------------------------------------------------
\* createVault.
Create(v) ==
  /\ row[v].status = "NONE"
  /\ row' = [row EXCEPT ![v].status = "ACTIVE"]
  /\ UNCHANGED <<unlocked, wallet, pc, call, work, counters, bounds>>

\* unlockAt passes.
Unlock(v) ==
  /\ row[v].status # "NONE"
  /\ v \notin unlocked
  /\ unlocked' = unlocked \cup {v}
  /\ UNCHANGED <<row, wallet, pc, call, work, counters, bounds>>

Goto(p, step) == pc' = [pc EXCEPT ![p] = step]

\* The call is answered; a run of a job goes on with its next vault.
Done(p) ==
  /\ Goto(p, "idle")
  /\ call' = [call EXCEPT ![p] = NoCall]
  /\ known' = [known EXCEPT ![p] = Nothing]
  /\ found' = [found EXCEPT ![p] = NoRow]
  /\ seen' = [seen EXCEPT ![p] = NoRow]

Start(p, op, v, amount, step) ==
  /\ pc[p] = "idle"
  /\ Goto(p, step)
  /\ call' = [call EXCEPT ![p] = [op |-> op, vault |-> v, amount |-> amount]]
  /\ UNCHANGED <<row, unlocked, wallet, known, counters, faults>>

\* The first look at the vault, without a lock; a call it turns down leaves no
\* trace.
Request(p, v) ==
  /\ p \in Calls
  /\ requests < MaxRequests
  /\ requests' = requests + 1
  /\ \/ /\ row[v].status = "ACTIVE"
        /\ \E a \in Amounts : Start(p, "deposit", v, a, "user")
     \/ /\ row[v].status \notin Withdrawn \cup Absent
        /\ Start(p, "withdraw", v, 0, "user")
     \/ /\ row[v].status \in {"CLOSED", "MATURED"}
        /\ Start(p, "delete", v, 0, "remove")
  /\ UNCHANGED <<run, found, seen, ticks>>

Covered(c) == c.op = "deposit" => wallet[Owner[c.vault]] >= c.amount

\* usersService.findById; a deposit must be covered, and a withdrawal looks at
\* the clock.
ReadUser(p) ==
  LET c == call[p]
  IN  /\ pc[p] = "user"
      /\ IF Covered(c)
           THEN /\ known' = [known EXCEPT ![p] = [wallet |-> wallet[Owner[c.vault]],
                                                  early |-> c.vault \notin unlocked]]
                /\ Goto(p, "transact")
                /\ UNCHANGED <<call, found, seen>>
           ELSE Done(p)
      /\ UNCHANGED <<row, unlocked, wallet, run, counters, bounds>>

\* users.balances is written as a whole, from what was read before.
WriteWallet(p, change) ==
  LET u == Owner[call[p].vault]
  IN  /\ wallet' = [wallet EXCEPT ![u] = known[p].wallet + change]
      /\ stale' = (stale \/ wallet[u] # known[p].wallet)

\* The transaction of a deposit: a vault that was withdrawn meanwhile gets the
\* money all the same.
Deposit(p) ==
  LET c == call[p]
      v == c.vault
  IN  /\ pc[p] = "transact"
      /\ c.op = "deposit"
      /\ IF row[v].status \in Absent
           THEN UNCHANGED <<row, wallet, late, stale>>
           ELSE /\ row' = [row EXCEPT ![v].balance = @ + c.amount]
                /\ late' = [late EXCEPT ![v] = @ \/ row[v].status \in Withdrawn]
                /\ WriteWallet(p, - c.amount)
      /\ Done(p)
      /\ UNCHANGED <<unlocked, run, payouts, revived, sums, bounds>>

Penalty(total) == (total * PenaltyPermille) \div 1000

\* Mutant: the status is not looked at again under the lock.
WithdrawableUnlocked(v) == row[v].status \notin Absent

\* The check made under the row lock.
Withdrawable(v) == row[v].status \notin Withdrawn \cup Absent

Emptied(r, early) ==
  [status |-> IF early THEN "BROKEN" ELSE "CLOSED", balance |-> 0, accrued |-> 0]

\* The transaction of a withdrawal.
Withdraw(p) ==
  LET v == call[p].vault
      early == known[p].early
      penalty == IF early THEN Penalty(Worth(row[v])) ELSE 0
  IN  /\ pc[p] = "transact"
      /\ call[p].op = "withdraw"
      /\ IF Withdrawable(v)
           THEN /\ row' = [row EXCEPT ![v] = Emptied(@, early)]
                /\ WriteWallet(p, Worth(row[v]) - penalty)
                /\ payouts' = [payouts EXCEPT ![v] = @ + 1]
                /\ sums' = [sums EXCEPT !.penalty = @ + penalty]
           ELSE UNCHANGED <<row, wallet, stale, payouts, sums>>
      /\ Done(p)
      /\ UNCHANGED <<unlocked, run, revived, late, bounds>>

\* deleteVault: whatever is in the row by now goes with it.
Remove(p) ==
  LET v == call[p].vault
  IN  /\ pc[p] = "remove"
      /\ row' = [row EXCEPT ![v] = Removed]
      /\ sums' = [sums EXCEPT !.deleted = @ + Worth(row[v])]
      /\ Done(p)
      /\ UNCHANGED <<unlocked, wallet, run, payouts, revived, late, stale, bounds>>

-----------------------------------------------------------------------------
(***************************************************************************)
(* accrueInterest, processMaturity and processAutoDeposits.                *)
(***************************************************************************)

Interest(r) == (r.balance * InterestPermille) \div 1000

\* Mutant: unlockAt is compared the wrong way round.
WantedBefore(k, v) ==
  /\ row[v].status = "ACTIVE"
  /\ k = "mature" => v \notin unlocked
  /\ k = "auto" => AutoAmount[v] > 0

\* Which vaults a job asks the database for.
Wanted(k, v) ==
  /\ row[v].status = "ACTIVE"
  /\ k = "mature" => v \in unlocked
  /\ k = "auto" => AutoAmount[v] > 0

\* A tick of a cron job.
Find(j, k) ==
  /\ pc[j] = "idle"
  /\ \A v \in Vaults : todo[j][v] = NoRow
  /\ \E v \in Vaults : Wanted(k, v)
  /\ IF k = "mature" THEN UNCHANGED ticks ELSE ticks < MaxTicks /\ ticks' = ticks + 1
  /\ kind' = [kind EXCEPT ![j] = k]
  /\ todo' = [todo EXCEPT ![j] = [v \in Vaults |-> IF Wanted(k, v) THEN row[v] ELSE NoRow]]
  /\ UNCHANGED <<row, unlocked, wallet, pc, call, known, found, seen, counters, requests,
                 faults>>

\* The next entity of the run: an automatic deposit goes the way of a deposit,
\* the others are changed in memory and saved, if there is interest to add.
Take(j, v) ==
  LET r == todo[j][v]
  IN  /\ r # NoRow
      /\ pc[j] = "idle"
      /\ todo' = [todo EXCEPT ![j][v] = NoRow]
      /\ CASE kind[j] = "auto" ->
                  /\ Start(j, "deposit", v, AutoAmount[v], "user")
                  /\ UNCHANGED found
           [] kind[j] = "accrue" /\ Interest(r) = 0 ->
                  UNCHANGED <<row, unlocked, wallet, pc, call, known, found, counters, faults>>
           [] OTHER ->
                  /\ Start(j, kind[j], v, 0, "select")
                  /\ found' = [found EXCEPT ![j] = r]
      /\ UNCHANGED <<kind, seen, requests, ticks>>

\* Mutant: the interest is credited and kept as accrued, too.
SavedTwice(op, r) ==
  IF op = "accrue" THEN [r EXCEPT !.accrued = @ + Interest(r)]
                   ELSE [r EXCEPT !.status = "MATURED", !.balance = Worth(r)]

\* The entity as the job has changed it.
Saved(op, r) ==
  IF op = "accrue" THEN [r EXCEPT !.accrued = @ + Interest(r)]
                   ELSE [status |-> "MATURED", balance |-> Worth(r), accrued |-> 0]

\* save() selects the row.
SelectRow(j) ==
  /\ pc[j] = "select"
  /\ seen' = [seen EXCEPT ![j] = row[call[j].vault]]
  /\ Goto(j, "update")
  /\ UNCHANGED <<row, unlocked, wallet, call, known, run, found, counters, bounds>>

\* The columns in which the entity differs from what the SELECT has read; all of
\* them in an INSERT, when there was no row, unless somebody was faster.
Written(entity, before, now) ==
  IF before.status \in Absent
    THEN IF now.status \in Absent THEN entity ELSE now
    ELSE IF now.status \in Absent THEN now
         ELSE [c \in DOMAIN now |-> IF entity[c] # before[c] THEN entity[c] ELSE now[c]]

Live(r) == r.status \notin Withdrawn \cup Absent

\* It updates or inserts the row.
UpdateRow(j) ==
  LET c == call[j]
      v == c.vault
      new == Written(Saved(c.op, found[j]), seen[j], row[v])
  IN  /\ pc[j] = "update"
      /\ row' = [row EXCEPT ![v] = new]
      /\ stale' = (stale \/ row[v] # found[j] \/ seen[j] # found[j])
      /\ revived' = [revived EXCEPT ![v] = IF Live(new) /\ ~ Live(row[v]) THEN @ + 1 ELSE @]
      /\ sums' = [sums EXCEPT !.interest = IF c.op = "accrue" THEN @ + Interest(found[j]) ELSE @]
      /\ Done(j)
      /\ UNCHANGED <<unlocked, wallet, run, payouts, late, bounds>>

-----------------------------------------------------------------------------
\* A statement throws: a transaction is rolled back, a run of a job logs the
\* error and goes on with the next vault.
Fail(p) ==
  /\ faults < MaxFaults
  /\ pc[p] # "idle"
  /\ faults' = faults + 1
  /\ Done(p)
  /\ UNCHANGED <<row, unlocked, wallet, run, counters, requests, ticks>>

Step(p) == ReadUser(p) \/ Deposit(p) \/ Withdraw(p) \/ Remove(p)

JobStep(j) ==
  \/ \E k \in Kinds[j] : Find(j, k)
  \/ SelectRow(j) \/ UpdateRow(j) \/ Step(j)
  \/ \E v \in Vaults : Take(j, v)

Next ==
  \/ \E v \in Vaults : Create(v) \/ Unlock(v)
  \/ \E p \in Calls : Step(p) \/ \E v \in Vaults : Request(p, v)
  \/ \E j \in Jobs : JobStep(j)
  \/ \E p \in Procs : Fail(p)

Spec == Init /\ [][Next]_vars

\* Calls and runs go on, and every job is started at its next tick.
FairSpec ==
  /\ Spec
  /\ \A p \in Calls : WF_vars(Step(p))
  /\ \A j \in Jobs : WF_vars(JobStep(j)) /\ \A k \in Kinds[j] : SF_vars(Find(j, k))

-----------------------------------------------------------------------------
(***************************************************************************)
(* Properties.                                                             *)
(***************************************************************************)

\* Neither a wallet nor a vault is ever overdrawn: wallets are read outside of
\* the transaction that writes them, so two deposits may both be paid with the
\* same money, but no wallet falls below zero for it.
NoOverdraft == \A u \in Users : wallet[u] >= 0

\* A vault is paid out once, however many withdrawals race for it, because the
\* status is looked at again under the row lock; and once more for every save
\* of a job that brings a withdrawn or deleted vault back to life.
WithdrawnOnce == \A v \in Vaults : payouts[v] <= 1 + revived[v]

\* Nothing is left in a withdrawn vault, where nobody could withdraw it any more,
\* but what a deposit has put there that looked at the status before the
\* withdrawal and took the lock after it (or a late save of a job has).
WithdrawnIsEmpty ==
  \A v \in Vaults : row[v].status \in Withdrawn /\ ~ stale => Worth(row[v]) = 0 \/ late[v]

Total(f, S) == MapThenSumSet(LAMBDA x : f[x], S)
InVaults == [v \in Vaults |-> Worth(row[v])]

\* Money is neither made nor lost by deposits, withdrawals and jobs that overlap
\* in any way, unless somebody wrote over a wallet or a vault that was not as he
\* had read it; but a matured vault is deleted with what it holds.
MoneyIsConserved ==
  ~ stale => Total(wallet, Users) + Total(InVaults, Vaults) + sums.penalty + sums.deleted
               = Total(Funds, Users) + sums.interest

\* A vault whose term is over is matured by the job, unless it is withdrawn or
\* deleted, although the interest job may undo that with a late save.
DueMatures == \A v \in Vaults : row[v].status = "ACTIVE" /\ v \in unlocked ~> row[v].status # "ACTIVE"

=============================================================================

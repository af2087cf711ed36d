---------------------------- MODULE ScheduledJobs ----------------------------
(***************************************************************************)
(* The two cron jobs of ScheduledJobsService that bring transaction rows   *)
(* in line with the Stellar network, run by several application instances  *)
(* against one database:                                                   *)
(*   - reconcilePendingTransactions claims the PENDING rows with one       *)
(*     UPDATE, reads the claimed rows back and works them off one by one;  *)
(*   - retryFailedTransactions lists the FAILED rows, claims them one at a *)
(*     time and verifies them again.                                       *)
(* A claim is the pair of columns processingLockedAt/processingLockedBy;   *)
(* it can be taken over when it is older than LOCK_EXPIRY.                 *)
(*                                                                         *)
(* One action is one await of the code: a statement sent to the database,  *)
(* or a question put to Stellar.  Between two awaits the other runs, the   *)
(* other instances and the API handlers take their steps.                  *)
(***************************************************************************)
EXTENDS Naturals, FiniteSets, FiniteSetsExt

CONSTANTS
  Txs,            \* transaction rows
  Users,          \* their owners
  Instances,      \* application instances, known by their hostname
  Runs,           \* executions of a cron job; one run may start again and again
  None,           \* SQL NULL in processingLockedBy
  Host,           \* Host[r]: the instance a run executes on
  Job,            \* Job[r]: "reconcile" or "retry"
  Owner,          \* Owner[t]: the user of a transaction
  Type,           \* Type[t]: "DEPOSIT" or "WITHDRAW"
  LOCK_EXPIRY,    \* LOCK_EXPIRY_MS, in ticks
  MaxFaults,      \* bound: crashes and database errors in a behaviour
  TimelyRuns,     \* TRUE: no run still works on a row when its claim expires
  ApiWaits        \* TRUE: no API handler saves a row that is claimed or settled

Statuses == {"NONE", "PENDING", "SUCCESS", "FAILED"}
ChainStates == {"PENDING", "SUCCESS", "FAILED"}

ASSUME ConstantsAssumption ==
  /\ Txs # {} /\ IsFiniteSet(Txs)
  /\ Host \in [Runs -> Instances]
  /\ Job \in [Runs -> {"reconcile", "retry"}]
  /\ Owner \in [Txs -> Users]
  /\ Type \in [Txs -> {"DEPOSIT", "WITHDRAW"}]
  /\ LOCK_EXPIRY \in Nat
  /\ MaxFaults \in Nat
  /\ TimelyRuns \in BOOLEAN
  /\ ApiWaits \in BOOLEAN
  /\ None \notin Instances

(***************************************************************************)
(* At most one run of a job is under way on an instance.  The scheduler    *)
(* does not see to it: a cron tick starts the job although the last run of *)
(* it is still working.                                                    *)
(***************************************************************************)
OneRunPerInstance ==
  \A r, s \in Runs : Host[r] = Host[s] /\ Job[r] = Job[s] => r = s

VARIABLES
  row,       \* row[t]: the columns of the row the jobs read and write
  chain,     \* chain[t]: what Stellar will say of the transaction
  api,       \* api[t]: the API handler that creates the row
  balance,   \* balance[u]: User.balances of the transaction's currency
  credited,  \* credited[t]: balance updates written on behalf of t
  pc,        \* pc[r]: the statement a run executes next
  todo,      \* todo[r]: rows of the batch not finished yet
  tx,        \* tx[r]: the row a run is working on
  copy,      \* copy[r][t]: the entity a run holds of t since it read the batch
  read,      \* read[r]: the balance a run has read and not written back yet
  faults     \* crashes and errors so far

vars == <<row, chain, api, balance, credited, pc, todo, tx, copy, read, faults>>
runVars == <<pc, todo, tx, copy, read>>

\* Where tx[r] points while the run works on no row.
NoTx == CHOOSE t \in Txs : TRUE

\* A row as an API handler writes it: its entity knows of no claim.
Fresh(s, h) == [status |-> s, hash |-> h, lockedBy |-> None, age |-> 0]
NoRow == Fresh("NONE", FALSE)

Rows == [status : Statuses, hash : BOOLEAN,
         lockedBy : Instances \cup {None}, age : 0 .. LOCK_EXPIRY + 1]

\* The time since processingLockedAt; one value stands for every expired age.
Unlocked(x) == x.lockedBy = None
Expired(x) == x.age > LOCK_EXPIRY
\* Mutant: a claim never expires.
ClaimableIfUnlocked(x, s) == x.status = s /\ Unlocked(x)

Claimable(x, s) == x.status = s /\ (Unlocked(x) \/ Expired(x))
Claimed(x, i) == [status |-> x.status, hash |-> x.hash, lockedBy |-> i, age |-> 0]
Saved(x, s) == [x EXCEPT !.status = s]

Steps == {"idle", "find", "next", "verify", "rescue", "success", "failed",
          "read", "write", "clear"}

TypeOK ==
  /\ row \in [Txs -> Rows]
  /\ chain \in [Txs -> ChainStates]
  /\ api \in [Txs -> {"none", "open", "saved", "done"}]
  /\ balance \in [Users -> Nat]
  /\ credited \in [Txs -> Nat]
  /\ pc \in [Runs -> Steps]
  /\ todo \in [Runs -> SUBSET Txs]
  /\ tx \in [Runs -> Txs]
  /\ copy \in [Runs -> [Txs -> Rows]]
  /\ read \in [Runs -> Nat]
  /\ faults \in 0 .. MaxFaults

Init ==
  /\ row = [t \in Txs |-> NoRow]
  /\ chain = [t \in Txs |-> "PENDING"]
  /\ api = [t \in Txs |-> "none"]
  /\ balance = [u \in Users |-> 0]
  /\ credited = [t \in Txs |-> 0]
  /\ pc = [r \in Runs |-> "idle"]
  /\ todo = [r \in Runs |-> {}]
  /\ tx = [r \in Runs |-> NoTx]
  /\ copy = [r \in Runs |-> [t \in Txs |-> NoRow]]
  /\ read = [r \in Runs |-> 0]
  /\ faults = 0

-----------------------------------------------------------------------------
(***************************************************************************)
(* createDeposit and createWithdrawal, which create the rows, as far as    *)
(* the jobs see them, and the Stellar network.                             *)
(***************************************************************************)

\* The row is saved PENDING, without a hash, before the payment is submitted.
ApiCreate(t) ==
  /\ api[t] = "none"
  /\ api' = [api EXCEPT ![t] = "open"]
  /\ row' = [row EXCEPT ![t] = Fresh("PENDING", FALSE)]
  /\ UNCHANGED <<chain, balance, credited, runVars, faults>>

\* The handler saves the entity it has held since ApiCreate: status and hash
\* are those of the entity, and so are the two claim columns, both NULL.
ApiSave(t, s, h, next) ==
  /\ ApiWaits => Unlocked(row[t]) /\ row[t].status = "PENDING"
  /\ api' = [api EXCEPT ![t] = next]
  /\ row' = [row EXCEPT ![t] = Fresh(s, h)]
  /\ UNCHANGED <<chain, balance, credited, runVars, faults>>

\* The payment went through: createDeposit saves the hash.
ApiSaveHash(t) ==
  /\ api[t] = "open" /\ Type[t] = "DEPOSIT"
  /\ ApiSave(t, "PENDING", TRUE, "saved")

\* An exception: FAILED is saved, with the hash if there was one by then.
ApiSaveFailed(t) ==
  /\ api[t] = "open"
  /\ \E h \in BOOLEAN : ApiSave(t, "FAILED", h, "done")

\* autoAssignCategory, which nobody waits for, has looked a category up and
\* saves the entity once more; createWithdrawal has not saved the hash before.
ApiCategorize(t) ==
  /\ api[t] = IF Type[t] = "DEPOSIT" THEN "saved" ELSE "open"
  /\ ApiSave(t, "PENDING", TRUE, "done")

\* The transaction becomes final on chain.
Settle(t) ==
  /\ api[t] # "none"
  /\ chain[t] = "PENDING"
  /\ \E s \in {"SUCCESS", "FAILED"} : chain' = [chain EXCEPT ![t] = s]
  /\ UNCHANGED <<row, api, balance, credited, runVars, faults>>

-----------------------------------------------------------------------------
(***************************************************************************)
(* Starting a batch.                                                       *)
(***************************************************************************)

\* claimPendingTransactions, its UPDATE: one atomic statement.  When it
\* affects no row the run is over and nothing has changed.
ClaimPending(r) ==
  LET claimable == {t \in Txs : Claimable(row[t], "PENDING")}
  IN  /\ Job[r] = "reconcile"
      /\ pc[r] = "idle"
      /\ claimable # {}
      /\ row' = [t \in Txs |-> IF t \in claimable
                                 THEN Claimed(row[t], Host[r]) ELSE row[t]]
      /\ pc' = [pc EXCEPT ![r] = "find"]
      /\ UNCHANGED <<chain, api, balance, credited, todo, tx, copy, read, faults>>

\* Mutant: the rows read back are not those of the instance only.
AllPending(i) == {t \in Txs : row[t].status = "PENDING"}

\* The rows claimPendingTransactions reads back: all that carry the name of
\* the instance, whichever run of it claimed them.
ClaimedBy(i) == {t \in Txs : row[t].status = "PENDING" /\ row[t].lockedBy = i}

StartBatch(r, batch) ==
  /\ todo' = [todo EXCEPT ![r] = batch]
  /\ copy' = [copy EXCEPT ![r] = [t \in Txs |-> IF t \in batch THEN row[t] ELSE NoRow]]
  /\ pc' = [pc EXCEPT ![r] = IF batch = {} THEN "idle" ELSE "next"]
  /\ UNCHANGED <<row, chain, api, balance, credited, tx, read, faults>>

\* claimPendingTransactions, its find.
FindClaimed(r) ==
  /\ pc[r] = "find"
  /\ StartBatch(r, ClaimedBy(Host[r]))

\* retryFailedTransactions lists the FAILED rows that have a hash; those not
\* updated within the last 24 hours are left out.
FindFailed(r) ==
  /\ Job[r] = "retry"
  /\ pc[r] = "idle"
  /\ \E recent \in SUBSET {t \in Txs : row[t].status = "FAILED" /\ row[t].hash} :
       recent # {} /\ StartBatch(r, recent)

-----------------------------------------------------------------------------
(***************************************************************************)
(* Working on one row of the batch.                                        *)
(***************************************************************************)

AfterRow(rest) == IF rest = {} THEN "idle" ELSE "next"

\* reconcileTransaction: a row whose entity has no hash cannot be verified.
ReconcileNext(r) ==
  /\ Job[r] = "reconcile"
  /\ pc[r] = "next"
  /\ \E t \in todo[r] :
       /\ tx' = [tx EXCEPT ![r] = t]
       /\ pc' = [pc EXCEPT ![r] = IF copy[r][t].hash THEN "verify" ELSE "clear"]
  /\ UNCHANGED <<row, chain, api, balance, credited, todo, copy, read, faults>>

\* claimTransactionForRetry: the UPDATE claims the row ...
ClaimForRetry(r, t) ==
  /\ Job[r] = "retry"
  /\ pc[r] = "next"
  /\ t \in todo[r]
  /\ Claimable(row[t], "FAILED")
  /\ row' = [row EXCEPT ![t] = Claimed(@, Host[r])]
  /\ tx' = [tx EXCEPT ![r] = t]
  /\ pc' = [pc EXCEPT ![r] = "verify"]
  /\ UNCHANGED <<chain, api, balance, credited, todo, copy, read, faults>>

\* ... or affects no row, and the row is left to whoever has it.
SkipUnclaimed(r, t) ==
  /\ Job[r] = "retry"
  /\ pc[r] = "next"
  /\ t \in todo[r]
  /\ ~Claimable(row[t], "FAILED")
  /\ todo' = [todo EXCEPT ![r] = @ \ {t}]
  /\ copy' = [copy EXCEPT ![r][t] = NoRow]
  /\ pc' = [pc EXCEPT ![r] = AfterRow(todo[r] \ {t})]
  /\ UNCHANGED <<row, chain, api, balance, credited, tx, read, faults>>

\* stellarService.verifyTransaction: any failure to look the transaction up
\* is answered with PENDING.
Answers(t) == {chain[t], "PENDING"}

\* Mutant: what has not succeeded has failed.
AfterAnswerPessimistic(r, answer) ==
  IF answer # "SUCCESS" THEN "failed" ELSE IF Job[r] = "retry" THEN "rescue" ELSE "success"

AfterAnswer(r, answer) ==
  CASE answer = "SUCCESS" -> IF Job[r] = "retry" THEN "rescue" ELSE "success"
    [] answer = "FAILED"  -> IF Job[r] = "retry" THEN "clear" ELSE "failed"
    [] answer = "PENDING" -> "clear"

Verify(r) ==
  /\ pc[r] = "verify"
  /\ \E answer \in Answers(tx[r]) :
       pc' = [pc EXCEPT ![r] = AfterAnswer(r, answer)]
  /\ UNCHANGED <<row, chain, api, balance, credited, todo, tx, copy, read, faults>>

\* transactionRepository.save(transaction): every column of the row becomes
\* what the entity holds, the claim columns too (the SELECT that save() sends
\* before its UPDATE to find the columns that differ is one step with it).
SaveEntity(r, s, next) ==
  LET saved == Saved(copy[r][tx[r]], s)
  IN  /\ row' = [row EXCEPT ![tx[r]] = saved]
      /\ copy' = [copy EXCEPT ![r][tx[r]] = saved]
      /\ pc' = [pc EXCEPT ![r] = next]
      /\ UNCHANGED <<chain, api, balance, credited, todo, tx, read, faults>>

\* retryTransaction saves SUCCESS and calls handleSuccessfulTransaction, which
\* saves it again.
Rescue(r) == pc[r] = "rescue" /\ SaveEntity(r, "SUCCESS", "success")

\* Mutant: a withdrawal is credited, and a deposit is not.
SaveSuccessOfWithdrawal(r) ==
  /\ pc[r] = "success"
  /\ SaveEntity(r, "SUCCESS", IF Type[tx[r]] = "WITHDRAW" THEN "read" ELSE "clear")

\* handleSuccessfulTransaction; only a deposit changes the balance.
SaveSuccess(r) ==
  /\ pc[r] = "success"
  /\ SaveEntity(r, "SUCCESS", IF Type[tx[r]] = "DEPOSIT" THEN "read" ELSE "clear")

\* handleFailedTransaction; only a withdrawal is paid back.
SaveFailed(r) ==
  /\ pc[r] = "failed"
  /\ SaveEntity(r, "FAILED", IF Type[tx[r]] = "WITHDRAW" THEN "read" ELSE "clear")

\* updateUserBalance: findById ...
ReadBalance(r) ==
  /\ pc[r] = "read"
  /\ read' = [read EXCEPT ![r] = balance[Owner[tx[r]]]]
  /\ pc' = [pc EXCEPT ![r] = "write"]
  /\ UNCHANGED <<row, chain, api, balance, credited, todo, tx, copy, faults>>

\* Mutant: the amount is added twice.
IncreasedTwice(r) == read[r] + 2

\* The balance computed from what was read, in units of the amount.
Increased(r) == read[r] + 1

\* ... and update, with the sum computed from what was read.
WriteBalance(r) ==
  /\ pc[r] = "write"
  /\ balance' = [balance EXCEPT ![Owner[tx[r]]] = Increased(r)]
  /\ credited' = [credited EXCEPT ![tx[r]] = @ + 1]
  /\ read' = [read EXCEPT ![r] = 0]
  /\ pc' = [pc EXCEPT ![r] = "clear"]
  /\ UNCHANGED <<row, chain, api, todo, tx, copy, faults>>

\* clearTransactionLock, in the finally block: whoever holds the claim by now.
ClearLock(r) ==
  /\ pc[r] = "clear"
  /\ row' = [row EXCEPT ![tx[r]] = Claimed(@, None)]
  /\ todo' = [todo EXCEPT ![r] = @ \ {tx[r]}]
  /\ copy' = [copy EXCEPT ![r][tx[r]] = NoRow]
  /\ tx' = [tx EXCEPT ![r] = NoTx]
  /\ pc' = [pc EXCEPT ![r] = AfterRow(todo[r] \ {tx[r]})]
  /\ UNCHANGED <<chain, api, balance, credited, read, faults>>

-----------------------------------------------------------------------------
(***************************************************************************)
(* Failures and time.                                                      *)
(***************************************************************************)

\* Where a run goes when the statement it is at throws: the errors of one row
\* are caught and its claim is cleared; an error of find, of the claim of a
\* retry or of clearTransactionLock itself ends the whole run.
AfterError(s) ==
  IF s \in {"rescue", "success", "failed", "read", "write"} THEN "clear" ELSE "idle"

DbError(r) ==
  LET next == AfterError(pc[r])
  IN  /\ faults < MaxFaults
      /\ pc[r] \notin {"idle", "verify"}
      /\ pc[r] = "next" => Job[r] = "retry"
      /\ faults' = faults + 1
      /\ pc' = [pc EXCEPT ![r] = next]
      /\ todo' = [todo EXCEPT ![r] = IF next = "idle" THEN {} ELSE @]
      /\ copy' = [copy EXCEPT ![r] = IF next = "idle" THEN [t \in Txs |-> NoRow] ELSE @]
      /\ read' = [read EXCEPT ![r] = 0]
      /\ tx' = [tx EXCEPT ![r] = IF next = "idle" THEN NoTx ELSE @]
      /\ UNCHANGED <<row, chain, api, balance, credited>>

\* An instance stops and is started again: its runs are gone, its claims stay.
Crash(i) ==
  /\ faults < MaxFaults
  /\ \E r \in Runs : Host[r] = i /\ pc[r] # "idle"
  /\ faults' = faults + 1
  /\ pc' = [r \in Runs |-> IF Host[r] = i THEN "idle" ELSE pc[r]]
  /\ todo' = [r \in Runs |-> IF Host[r] = i THEN {} ELSE todo[r]]
  /\ copy' = [r \in Runs |-> IF Host[r] = i THEN [t \in Txs |-> NoRow] ELSE copy[r]]
  /\ read' = [r \in Runs |-> IF Host[r] = i THEN 0 ELSE read[r]]
  /\ tx' = [r \in Runs |-> IF Host[r] = i THEN NoTx ELSE tx[r]]
  /\ UNCHANGED <<row, chain, api, balance, credited>>

\* The rows a run works on, from its claim in the database to the clearing of it.
Held(r) ==
  {t \in Txs :
     \/ pc[r] = "find" /\ t \in ClaimedBy(Host[r])
     \/ pc[r] \notin {"idle", "find"} /\ Job[r] = "reconcile" /\ t \in todo[r]
     \/ pc[r] \notin {"idle", "find", "next"} /\ Job[r] = "retry" /\ t = tx[r]}

Older(x) ==
  IF Unlocked(x) \/ Expired(x) THEN x ELSE [x EXCEPT !.age = @ + 1]

Tick ==
  /\ TimelyRuns => \A r \in Runs : \A t \in Held(r) :
                      Unlocked(row[t]) \/ row[t].age < LOCK_EXPIRY
  /\ row' = [t \in Txs |-> Older(row[t])]
  /\ copy' = [r \in Runs |-> [t \in Txs |-> Older(copy[r][t])]]
  /\ UNCHANGED <<chain, api, balance, credited, pc, todo, tx, read, faults>>

-----------------------------------------------------------------------------
Api(t) ==
  ApiCreate(t) \/ ApiSaveHash(t) \/ ApiSaveFailed(t) \/ ApiCategorize(t) \/ Settle(t)

Work(r) ==
  \/ FindClaimed(r) \/ ReconcileNext(r) \/ Verify(r)
  \/ \E t \in Txs : ClaimForRetry(r, t) \/ SkipUnclaimed(r, t)
  \/ Rescue(r) \/ SaveSuccess(r) \/ SaveFailed(r)
  \/ ReadBalance(r) \/ WriteBalance(r) \/ ClearLock(r)

Next ==
  \/ \E t \in Txs : Api(t)
  \/ \E r \in Runs : ClaimPending(r) \/ FindFailed(r) \/ Work(r) \/ DbError(r)
  \/ \E i \in Instances : Crash(i)
  \/ Tick

Spec == Init /\ [][Next]_vars

-----------------------------------------------------------------------------
(***************************************************************************)
(* What holds whatever the instances, the two handlers and the clock do.   *)
(***************************************************************************)

\* A row says SUCCESS only if Stellar does: however stale the entity a run or
\* an API handler saves, it never turns a failed payment into a success.
SuccessIsOnChain ==
  \A t \in Txs : row[t].status = "SUCCESS" => chain[t] = "SUCCESS"

\* A balance was changed on behalf of a transaction only as a deposit that
\* succeeded on chain or a withdrawal that failed there, whichever run, on
\* whichever copy of the row and after whatever retries it was changed.
CreditIsJustified ==
  \A t \in Txs : credited[t] > 0 =>
    \/ Type[t] = "DEPOSIT" /\ chain[t] = "SUCCESS"
    \/ Type[t] = "WITHDRAW" /\ chain[t] = "FAILED"

(***************************************************************************)
(* What holds under ApiWaits.                                              *)
(***************************************************************************)

\* No step of any actor takes a row out of SUCCESS, and none takes it from
\* FAILED to anything but a SUCCESS that is on chain (the retry job's rescue).
OutcomeIsFinal ==
  [][\A t \in Txs :
       /\ row[t].status = "SUCCESS" => row'[t].status = "SUCCESS"
       /\ row[t].status = "FAILED" =>
            \/ row'[t].status = "FAILED"
            \/ row'[t].status = "SUCCESS" /\ chain[t] = "SUCCESS"]_vars

\* From the balance update on the row carries the outcome it was made for:
\* updateUserBalance runs after the save of the row, and no later save of a
\* stale entity brings another status back.
CreditedRowsAreSettled ==
  \A t \in Txs : credited[t] > 0 => row[t].status = chain[t]

(***************************************************************************)
(* What holds under OneRunPerInstance, TimelyRuns and ApiWaits.            *)
(***************************************************************************)

\* Two runs never work on the same row: "Atomically claim pending transactions
\* for processing by this instance", taken together with the reads, the saves
\* of stale entities and the clearing of claims that follow the UPDATE.
ExclusiveProcessing ==
  \A r, s \in Runs : r # s => Held(r) \cap Held(s) = {}

\* The balance is changed at most once on behalf of a transaction, across both
\* jobs, all instances, crashes and retries.
CreditedAtMostOnce == \A t \in Txs : credited[t] <= 1

(***************************************************************************)
(* The balances.                                                           *)
(***************************************************************************)

\* What the balance updates written so far add up to.
Owed(u) == MapThenSumSet(LAMBDA t : credited[t], {t \in Txs : Owner[t] = u})

\* updateUserBalance reads and writes in two statements, so updates get lost;
\* but the jobs never leave a user with more than was credited to him.
NoMintedBalance == \A u \in Users : balance[u] <= Owed(u)

\* "Balance updates are atomic" (SCHEDULED_JOBS.md): no update is ever lost.
BalanceUpdatesAreAtomic == \A u \in Users : balance[u] = Owed(u)

(***************************************************************************)
(* Progress.  The cron ticks keep starting runs and a run that is not hit  *)
(* by a crash goes on (weak fairness); payments become final; a look-up at *)
(* Stellar may fail again and again, but not for ever (strong fairness).   *)
(***************************************************************************)
TruthfulVerify(r) == Verify(r) /\ pc'[r] = AfterAnswer(r, chain[tx[r]])

Fairness ==
  /\ WF_vars(Tick)
  /\ \A t \in Txs : WF_vars(Settle(t))
  /\ \A r \in Runs : /\ WF_vars(ClaimPending(r))
                     /\ WF_vars(Work(r))
                     /\ SF_vars(TruthfulVerify(r))

FairSpec == Spec /\ Fairness

\* Every pending payment with a hash gets its outcome, although instances
\* crash while they hold its claim and look-ups at Stellar fail for a while.
EventuallyReconciled ==
  \A t \in Txs :
    row[t].status = "PENDING" /\ row[t].hash ~> row[t].status # "PENDING"

\* A deposit that succeeds on chain is credited, unless a crash or a database
\* error hits a run: after the save of SUCCESS nothing else brings it back.
CreditedUnlessFault ==
  \A t \in Txs :
    row[t].status = "PENDING" /\ row[t].hash /\ Type[t] = "DEPOSIT" /\ chain[t] = "SUCCESS"
      ~> credited[t] > 0 \/ faults > 0

\* What the jobs are for: neither the outcome nor the credit of a payment is left behind.
JobsSettle == EventuallyReconciled /\ CreditedUnlessFault

=============================================================================

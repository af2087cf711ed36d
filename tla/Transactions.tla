----------------------------- MODULE Transactions -----------------------------
(***************************************************************************)
(* TransactionsService: deposits, withdrawals and swaps are created,       *)
(* limited, paid on Stellar and written to the balances of their user;     *)
(* users verify, cancel and annotate them; a job verifies what is PENDING. *)
(*                                                                         *)
(* One action is one await.  Every save() of an entity is a SELECT and an  *)
(* UPDATE of the columns in which the entity differs from what the SELECT  *)
(* has read, whatever happened to the row since the entity was made; and   *)
(* every change of a balance is a SELECT of the user and an UPDATE of the  *)
(* whole object.                                                           *)
(***************************************************************************)
EXTENDS Integers, FiniteSets

CONSTANTS
  Txs,          \* calls that create a transaction; each is known by its row
  Clerks,       \* calls that verify, cancel or annotate one
  Jobs,         \* the verification job, one for every instance
  Kinds,        \* which of "DEPOSIT", "WITHDRAW", "SWAP" are created
  Amount, Fee,  \* of every transaction
  Worth,        \* what a swap buys, the spread taken off
  Funds,        \* the balance to begin with
  Limit,        \* of what a user may have in transactions
  MaxRequests,  \* bound: calls of clerks in a behaviour
  MaxFaults     \* bound: failing statements in a behaviour

\* The job verifies all the rows it has found at the same time.
Checks == Jobs \X Txs
Procs == Txs \cup Clerks \cup Checks

ASSUME TransactionsAssumption ==
  /\ Txs # {} /\ IsFiniteSet(Txs)
  /\ Txs \cap Clerks = {} /\ Txs \cap Checks = {} /\ Clerks \cap Checks = {}
  /\ Kinds \subseteq {"DEPOSIT", "WITHDRAW", "SWAP"}
  /\ Amount \in Nat \ {0} /\ Fee \in Nat /\ Worth \in Nat /\ Funds \in Nat /\ Limit \in Nat
  /\ MaxRequests \in Nat /\ MaxFaults \in Nat

VARIABLES
  kind,      \* kind[t]: the type of the transaction
  row,       \* row[t]: the columns of its row that calls decide on
  chain,     \* chain[t]: what became of its payment on Stellar
  balance,   \* User.balances
  pc,        \* pc[p]: the statement a process executes next
  goal,      \* goal[p]: what that statement is for
  on,        \* on[p]: the row it works on
  entity,    \* entity[p]: the entity it holds
  seen,      \* seen[p]: what the SELECT of its save has read
  known,     \* known[p]: the balances it has read
  outdated,  \* processes whose row another one has changed since they read it
  moved,     \* moved[t][g]: how often the balance was changed for goal g
  mishaps,   \* mishaps[t]: what went wrong with the transaction so far
  lost,      \* a balance was written by one who had not read it
  uncounted, \* a transaction was created that another one's limit did not count
  requests,  \* calls of clerks so far
  faults     \* failures so far

work == <<pc, goal, on, entity, seen, known>>
ghosts == <<moved, mishaps, lost, uncounted>>
bounds == <<requests, faults>>
vars == <<kind, row, chain, balance, pc, goal, on, entity, seen, known,
          outdated, moved, mishaps, lost, uncounted, requests, faults>>

Statuses == {"NONE", "PENDING", "SUCCESS", "FAILED", "CANCELLED"}
Settled == {"SUCCESS", "FAILED", "CANCELLED"}
Rows == [status : Statuses, hash : BOOLEAN]
NoRow == [status |-> "NONE", hash |-> FALSE]

Moves == {"debit", "gain", "credit", "refund"}
Goals == Moves \cup {"none", "create", "hash", "done", "notify", "category", "failed", "settle", "edit"}
Balances == [{"from", "to"} -> Int]
NoBalances == [c \in {"from", "to"} |-> 0]

TypeOK ==
  /\ kind \in [Txs -> Kinds \cup {"NONE"}]
  /\ row \in [Txs -> Rows]
  /\ chain \in [Txs -> {"NONE", "SUCCESS", "FAILED"}]
  /\ balance \in Balances
  /\ pc \in [Procs -> {"idle", "new", "balance", "persist", "pay", "notify", "category", "find",
                       "ask", "read", "write", "select", "update"}]
  /\ goal \in [Procs -> Goals]
  /\ on \in [Procs -> Txs]
  /\ entity \in [Procs -> Rows]
  /\ seen \in [Procs -> Rows]
  /\ known \in [Procs -> Balances]
  /\ outdated \subseteq Procs
  /\ moved \in [Txs -> [Moves -> Nat]]
  /\ mishaps \in [Txs -> SUBSET {"fault", "short", "race", "again", "undone", "erased", "unsaved"}]
  /\ lost \in BOOLEAN
  /\ uncounted \in BOOLEAN
  /\ requests \in 0 .. MaxRequests
  /\ faults \in 0 .. MaxFaults

Init ==
  /\ kind = [t \in Txs |-> "NONE"]
  /\ row = [t \in Txs |-> NoRow]
  /\ chain = [t \in Txs |-> "NONE"]
  /\ balance = [c \in {"from", "to"} |-> IF c = "from" THEN Funds ELSE 0]
  /\ pc = [p \in Procs |-> IF p \in Txs THEN "new" ELSE "idle"]
  /\ goal = [p \in Procs |-> IF p \in Txs THEN "create" ELSE "none"]
  /\ on = [p \in Procs |-> IF p \in Txs THEN p ELSE IF p \in Checks THEN p[2] ELSE CHOOSE t \in Txs : TRUE]
  /\ entity = [p \in Procs |-> NoRow]
  /\ seen = [p \in Procs |-> NoRow]
  /\ known = [p \in Procs |-> NoBalances]
  /\ outdated = {}
  /\ moved = [t \in Txs |-> [g \in Moves |-> 0]]
  /\ mishaps = [t \in Txs |-> {}]
  /\ lost = FALSE
  /\ uncounted = FALSE
  /\ requests = 0
  /\ faults = 0

-----------------------------------------------------------------------------
Go(p, step, for) ==
  /\ pc' = [pc EXCEPT ![p] = step]
  /\ goal' = [goal EXCEPT ![p] = for]

\* The call is answered.
End(p) ==
  /\ Go(p, "idle", "none")
  /\ entity' = [entity EXCEPT ![p] = NoRow]
  /\ seen' = [seen EXCEPT ![p] = NoRow]
  /\ known' = [known EXCEPT ![p] = NoBalances]
  /\ outdated' = outdated \ {p}
  /\ UNCHANGED on

\* Where the work for a goal begins.
First(g) ==
  CASE g \in Moves -> "read"
    [] g = "notify" -> "notify"
    [] g = "category" -> "category"
    [] OTHER -> "select"

\* Mutant: a verification ends when the balance is changed.
AfterUnsaved(g, k) ==
  CASE g = "hash" -> "category"
    [] g = "done" -> "debit"
    [] g = "debit" -> IF k = "SWAP" THEN "gain" ELSE "category"
    [] g = "gain" -> "notify"
    [] g = "notify" -> "category"
    [] OTHER -> "none"

\* Mutant: a withdrawal gets no category.
AfterUncategorized(g, k) ==
  CASE g = "hash" -> "category"
    [] g = "done" -> "debit"
    [] g = "debit" -> IF k = "SWAP" THEN "gain" ELSE "none"
    [] g = "gain" -> "notify"
    [] g = "notify" -> "category"
    [] g \in {"credit", "refund"} -> "settle"
    [] OTHER -> "none"

\* What a call does when the work for a goal is done.
After(g, k) ==
  CASE g = "hash" -> "category"
    [] g = "done" -> "debit"
    [] g = "debit" -> IF k = "SWAP" THEN "gain" ELSE "category"
    [] g = "gain" -> "notify"
    [] g = "notify" -> "category"
    [] g \in {"credit", "refund"} -> "settle"
    [] OTHER -> "none"

\* The work for the goal is done, or has nothing to do.
Advance(p) ==
  LET next == After(goal[p], kind[on[p]])
  IN  IF next = "none"
        THEN End(p)
        ELSE /\ Go(p, First(next), next)
             /\ UNCHANGED <<on, entity, seen, known, outdated>>

Mishap(t, what) == mishaps' = [mishaps EXCEPT ![t] = @ \cup {what}]

\* The catch of the calls that create rows; elsewhere an error ends the call, or
\* is only logged.
Throw(p) ==
  IF goal[p] \in {"create", "hash", "done", "debit", "gain", "notify"} /\ p \in Txs
    THEN /\ Go(p, "select", "failed")
         /\ entity' = [entity EXCEPT ![p].status = "FAILED"]
         /\ UNCHANGED <<on, seen, known, outdated>>
    ELSE End(p)

-----------------------------------------------------------------------------
\* getUsageInUsd.
Usage == Amount * Cardinality({t \in Txs : row[t].status \in {"PENDING", "SUCCESS"}})

\* TransactionLimitService.check; a call it turns down leaves no trace.
CheckLimit(t, k) ==
  /\ pc[t] = "new"
  /\ Usage + Amount <= Limit
  /\ kind' = [kind EXCEPT ![t] = k]
  /\ Go(t, IF k = "DEPOSIT" THEN "persist" ELSE "balance", "create")
  /\ UNCHANGED <<row, chain, balance, on, entity, seen, known, outdated, ghosts, bounds>>

\* getUserBalance, for the amount and the fee.
CheckBalance(t) ==
  /\ pc[t] = "balance"
  /\ IF balance["from"] >= Amount + Fee
       THEN Go(t, "persist", "create") /\ UNCHANGED kind
       ELSE Go(t, "new", "create") /\ kind' = [kind EXCEPT ![t] = "NONE"]
  /\ UNCHANGED <<row, chain, balance, on, entity, seen, known, outdated, ghosts, bounds>>

\* persistTransactionArtifacts: the row, the fee and the ledger in one transaction.
Persist(t) ==
  /\ pc[t] = "persist"
  /\ row' = [row EXCEPT ![t].status = "PENDING"]
  /\ entity' = [entity EXCEPT ![t].status = "PENDING"]
  /\ uncounted' = (uncounted \/ \E u \in Txs \ {t} : pc[u] \in {"balance", "persist"})
  /\ Go(t, "pay", "create")
  /\ UNCHANGED <<kind, chain, balance, on, seen, known, outdated, moved, mishaps, lost, bounds>>

\* The payment, or the path payment of a swap, is submitted and accepted.
Pay(t) ==
  /\ pc[t] = "pay"
  /\ \E result \in {"SUCCESS", "FAILED"} : chain' = [chain EXCEPT ![t] = result]
  /\ LET next == CASE kind[t] = "DEPOSIT" -> "hash"
                   [] kind[t] = "WITHDRAW" -> "debit"
                   [] OTHER -> "done"
     IN  /\ next = "done" => chain'[t] = "SUCCESS"
         /\ Go(t, First(next), next)
         /\ entity' = [entity EXCEPT ![t] = [status |-> IF next = "done" THEN "SUCCESS" ELSE @.status,
                                             hash |-> TRUE]]
  /\ UNCHANGED <<kind, row, balance, on, seen, known, outdated, ghosts, bounds>>

\* It is refused; the catch does not try another path, because no error of
\* StellarService names a slippage.
Refuse(t) ==
  /\ pc[t] = "pay"
  /\ Throw(t)
  /\ UNCHANGED <<kind, row, chain, balance, ghosts, bounds>>

\* notificationsService.dispatch.
Notify(t) ==
  /\ pc[t] = "notify"
  /\ Advance(t)
  /\ UNCHANGED <<kind, row, chain, balance, ghosts, bounds>>

\* autoAssignCategory, which nobody awaits, looks for the category.  A withdrawal
\* has no other save that brings the hash to the row.
Category(t) ==
  /\ pc[t] = "category"
  /\ \/ /\ Go(t, "select", "category")
        /\ UNCHANGED <<on, entity, seen, known, outdated, mishaps>>
     \/ /\ End(t)
        /\ IF row[t].hash THEN UNCHANGED mishaps ELSE Mishap(t, "unsaved")
  /\ UNCHANGED <<kind, row, chain, balance, moved, lost, uncounted, bounds>>

-----------------------------------------------------------------------------
\* usersService.findById.
ReadUser(p) ==
  /\ pc[p] = "read"
  /\ known' = [known EXCEPT ![p] = balance]
  /\ Go(p, "write", goal[p])
  /\ UNCHANGED <<kind, row, chain, balance, on, entity, seen, outdated, ghosts, bounds>>

\* Mutant: the fee of a swap is not taken.
ChangeFree(g, k) ==
  CASE g = "debit" -> - Amount
    [] g = "gain" -> Worth
    [] OTHER -> Amount

\* What is added to a balance.
Change(g, k) ==
  CASE g = "debit" -> IF k = "SWAP" THEN - (Amount + Fee) ELSE - Amount
    [] g = "gain" -> Worth
    [] OTHER -> Amount

Currency(g) == IF g = "gain" THEN "to" ELSE "from"

Covered(new) == new >= 0

NewBalances(old, c, new) == [old EXCEPT ![c] = new]

\* usersService.updateByUserId writes all balances, or updateUserBalance throws.
WriteUser(p) ==
  LET t == on[p]
      c == Currency(goal[p])
      new == known[p][c] + Change(goal[p], kind[t])
  IN  /\ pc[p] = "write"
      /\ IF Covered(new)
           THEN /\ balance' = NewBalances(known[p], c, new)
                /\ moved' = [moved EXCEPT ![t][goal[p]] = @ + 1]
                /\ lost' = (lost \/ balance # known[p])
                /\ Advance(p)
                /\ UNCHANGED mishaps
           ELSE /\ Throw(p)
                /\ Mishap(t, "short")
                /\ UNCHANGED <<balance, moved, lost>>
      /\ UNCHANGED <<kind, row, chain, uncounted, bounds>>

\* save() selects the row.
Select(p) ==
  /\ pc[p] = "select"
  /\ seen' = [seen EXCEPT ![p] = row[on[p]]]
  /\ Go(p, "update", goal[p])
  /\ UNCHANGED <<kind, row, chain, balance, on, entity, known, outdated, ghosts, bounds>>

\* A column is written if the entity differs from what the SELECT has read.
Column(new, before, now) == IF new # before THEN new ELSE now

\* What an UPDATE makes of a row; a row that is not there is inserted.
Written(new, before, now) ==
  [status |-> Column(new.status, before.status, now.status),
   hash   |-> Column(new.hash, before.hash, now.hash)]

\* What the UPDATE of a process undoes that has not seen the row as it is.
Undone(p, before, now) ==
  IF p \in outdated
    THEN (IF before.status \in Settled /\ now.status # before.status THEN {"undone"} ELSE {}) \cup
         (IF before.hash /\ ~ now.hash THEN {"erased"} ELSE {})
    ELSE {}

Counted(r) == r.status \in {"PENDING", "SUCCESS"}

\* save() updates it.
Update(p) ==
  LET t == on[p]
      new == Written(entity[p], seen[p], row[t])
  IN  /\ pc[p] = "update"
      /\ row' = [row EXCEPT ![t] = new]
      /\ mishaps' = [mishaps EXCEPT ![t] = @ \cup Undone(p, row[t], new)]
      /\ uncounted' = (uncounted \/ (Counted(new) /\ ~ Counted(row[t])))
      /\ LET next == After(goal[p], kind[t])
             others == {q \in Procs \ {p} : pc[q] \notin {"idle", "new"} /\ on[q] = t}
             behind == IF new = row[t] THEN outdated ELSE outdated \cup others
         IN  IF next = "none"
               THEN /\ Go(p, "idle", "none")
                    /\ entity' = [entity EXCEPT ![p] = NoRow]
                    /\ seen' = [seen EXCEPT ![p] = NoRow]
                    /\ known' = [known EXCEPT ![p] = NoBalances]
                    /\ outdated' = behind \ {p}
               ELSE /\ Go(p, First(next), next)
                    /\ outdated' = behind
                    /\ UNCHANGED <<entity, seen, known>>
      /\ UNCHANGED <<kind, chain, balance, on, moved, lost, bounds>>

-----------------------------------------------------------------------------
Verifying(p) == goal[p] \in {"settle", "credit", "refund"}

\* findOne of verifyTransaction, which asks about every row with a hash: the
\* controller passes no role, and the job passes the one of an administrator.
Look(p, t) ==
  /\ row[t].hash
  /\ Go(p, "ask", "settle")
  /\ on' = [on EXCEPT ![p] = t]
  /\ entity' = [entity EXCEPT ![p] = row[t]]
  /\ outdated' = outdated \ {p}
  /\ mishaps' = [mishaps EXCEPT ![t] = @
       \cup (IF \E q \in Procs \ {p} : Verifying(q) /\ on[q] = t THEN {"race"} ELSE {})
       \cup (IF row[t].status \in Settled THEN {"again"} ELSE {})]
  /\ UNCHANGED <<kind, row, chain, balance, seen, known, moved, lost, uncounted>>

Request(c) ==
  /\ pc[c] = "idle"
  /\ requests < MaxRequests
  /\ requests' = requests + 1
  /\ UNCHANGED faults

Verify(c, t) == Request(c) /\ Look(c, t)

\* Mutant: whatever has no outcome yet, and what has one.
CancellableAlways(r) == r.status # "NONE"

Cancellable(r) == r.status = "PENDING"

\* cancelTransaction (new = "CANCELLED"), updateNote and updateTags (new = the
\* status the row has).
Edit(c, t, new) ==
  /\ Request(c)
  /\ row[t].status # "NONE"
  /\ new = "CANCELLED" => Cancellable(row[t])
  /\ Go(c, "select", "edit")
  /\ on' = [on EXCEPT ![c] = t]
  /\ entity' = [entity EXCEPT ![c] = [row[t] EXCEPT !.status = new]]
  /\ outdated' = outdated \ {c}
  /\ UNCHANGED <<kind, row, chain, balance, seen, known, ghosts>>

\* getPendingTransactions.
Pending == {t \in Txs : row[t].status = "PENDING"}

\* verifyPendingTransactions; the job of an instance does not start before its last
\* run has ended.
Tick(j) ==
  /\ \A t \in Txs : pc[<<j, t>>] = "idle"
  /\ Pending # {}
  /\ pc' = [p \in Procs |-> IF p \in {j} \X Pending THEN "find" ELSE pc[p]]
  /\ UNCHANGED <<kind, row, chain, balance, goal, on, entity, seen, known, outdated, ghosts, bounds>>

\* verifyTransaction for a row the job has found; one without a hash is refused.
Find(p) ==
  /\ pc[p] = "find"
  /\ \/ Look(p, on[p])
     \/ /\ ~ row[on[p]].hash
        /\ End(p)
        /\ UNCHANGED <<kind, row, chain, balance, ghosts>>
  /\ UNCHANGED bounds

\* stellarService.verifyTransaction; a look-up that fails is an answer, too.
Answers(t) == {chain[t], "PENDING"}

\* The answer decides what is done.
Ask(p, answer) ==
  LET t == on[p]
      next == CASE answer = "SUCCESS" /\ kind[t] = "DEPOSIT" -> "credit"
                [] answer = "FAILED" /\ kind[t] = "WITHDRAW" -> "refund"
                [] OTHER -> "settle"
  IN  /\ pc[p] = "ask"
      /\ answer \in Answers(t)
      /\ IF answer = "PENDING"
           THEN End(p)
           ELSE /\ Go(p, First(next), next)
                /\ entity' = [entity EXCEPT ![p].status = answer]
                /\ UNCHANGED <<on, seen, known, outdated>>
      /\ UNCHANGED <<kind, row, chain, balance, ghosts, bounds>>

-----------------------------------------------------------------------------
\* A statement throws; a payment may have been made all the same.
Fail(p) ==
  /\ faults < MaxFaults
  /\ faults' = faults + 1
  /\ pc[p] \in {"persist", "pay", "notify", "category", "read", "write", "select", "update"}
  /\ Throw(p)
  /\ Mishap(on[p], "fault")
  /\ chain' = IF pc[p] = "pay" THEN [chain EXCEPT ![p] = "SUCCESS"] ELSE chain
  /\ UNCHANGED <<kind, row, balance, moved, lost, uncounted, requests>>

Step(p) == ReadUser(p) \/ WriteUser(p) \/ Select(p) \/ Update(p)

Create(t) ==
  \/ CheckBalance(t) \/ Persist(t) \/ Pay(t) \/ Refuse(t) \/ Notify(t) \/ Category(t)
  \/ Step(t)

Clerk(c) ==
  \/ \E t \in Txs : Verify(c, t)
  \/ \E t \in Txs : \E new \in {"CANCELLED", row[t].status} : Edit(c, t, new)
  \/ \E answer \in {"PENDING", "SUCCESS", "FAILED"} : Ask(c, answer)
  \/ Step(c)

Check(p) == Find(p) \/ \E answer \in {"PENDING", "SUCCESS", "FAILED"} : Ask(p, answer) \/ Step(p)

Next ==
  \/ \E t \in Txs : Create(t) \/ \E k \in Kinds : CheckLimit(t, k)
  \/ \E c \in Clerks : Clerk(c)
  \/ \E j \in Jobs : Tick(j)
  \/ \E p \in Checks : Check(p)
  \/ \E p \in Procs : Fail(p)

Spec == Init /\ [][Next]_vars

\* The job is started again and again, what runs goes on, and Stellar does not
\* fail to answer for ever.
Fairness ==
  /\ \A t \in Txs : WF_vars(Create(t))
  /\ \A j \in Jobs : WF_vars(Tick(j))
  /\ \A p \in Checks :
       /\ WF_vars(Check(p))
       /\ SF_vars(\E answer \in {"SUCCESS", "FAILED"} : Ask(p, answer))

FairSpec == Spec /\ Fairness

-----------------------------------------------------------------------------
(***************************************************************************)
(* Properties.                                                             *)
(***************************************************************************)

\* However calls overlap, no balance is written that is below zero, although
\* every one of them is computed from a balance that was read before.
NoOverdraft == \A c \in {"from", "to"} : balance[c] >= 0

\* Deposits are credited, withdrawals refunded and rows SUCCESS only for what
\* Stellar has made of the payment, whoever saves which copy of the row, and when.
OutcomesComeFromChain ==
  \A t \in Txs :
    /\ row[t].status = "SUCCESS" => chain[t] = "SUCCESS"
    /\ moved[t].credit > 0 => kind[t] = "DEPOSIT" /\ chain[t] = "SUCCESS"
    /\ moved[t].refund > 0 => kind[t] = "WITHDRAW" /\ chain[t] = "FAILED"

\* A deposit is credited, and a withdrawal refunded, twice only if two
\* verifications overlap, a settled row is verified, its outcome is undone by a
\* stale save, or a statement fails between the balance and the status.
CreditedOnce ==
  \A t \in Txs :
    moved[t].credit > 1 \/ moved[t].refund > moved[t].debit
      => mishaps[t] \cap {"race", "again", "undone", "fault"} # {}

\* A transaction that was paid is reported as FAILED only if the balance had become
\* too small for it, or a statement failed after the payment.
FailedIsUnpaid ==
  \A t \in Txs :
    row[t].status = "FAILED" /\ chain[t] = "SUCCESS" => mishaps[t] \cap {"short", "fault"} # {}

\* At rest the balances are what the rows say: deposits that succeeded are in them,
\* withdrawals that did not fail and swaps that succeeded are not, and nothing else,
\* unless something went wrong that has a name, or a balance was overwritten.
With(k, S) == {t \in Txs : kind[t] = k /\ row[t].status \in S}
RowsExplainBalances ==
  LET rest == \A p \in Procs : pc[p] \in {"idle", "new"}
      deposits == With("DEPOSIT", {"SUCCESS"})
      withdrawals == With("WITHDRAW", {"PENDING", "SUCCESS", "CANCELLED"})
      swaps == With("SWAP", {"SUCCESS"})
  IN  rest /\ ~ lost /\ (\A t \in Txs : mishaps[t] = {}) =>
        /\ balance["from"] = Funds + Amount * Cardinality(deposits)
             - Amount * Cardinality(withdrawals) - (Amount + Fee) * Cardinality(swaps)
        /\ balance["to"] = Worth * Cardinality(swaps)

\* The limit is exceeded only if one call has checked it before another one's row
\* was there, or if a row counts again that did not.
LimitIsKept ==
  Amount * Cardinality({t \in Txs : Counted(row[t])}) > Limit => uncounted

\* An outcome changes, and a hash is lost, only by a call that has not seen the row
\* as it is; by a verification, or by the call that made the row, when it fails.
Undoes(t) ==
  \/ row[t].status \in Settled /\ row'[t].status # row[t].status
  \/ row[t].hash /\ ~ row'[t].hash
UndoneByLateSaves ==
  [][\A t \in Txs : Undoes(t) =>
       \E p \in Procs :
         /\ pc[p] = "update" /\ pc'[p] # "update" /\ on[p] = t
         /\ \/ p \in outdated
            \/ goal[p] \in {"settle", "failed"} /\ row'[t].hash]_vars

\* What was paid does not stay PENDING, unless a statement failed, or the one save
\* that brings a hash to its row was not made, or undone.
PaidIsSettled ==
  \A t \in Txs :
    chain[t] = "SUCCESS" ~>
      row[t].status # "PENDING" \/ mishaps[t] \cap {"fault", "unsaved", "erased"} # {}

=============================================================================

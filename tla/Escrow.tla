-------------------------------- MODULE Escrow --------------------------------
(***************************************************************************)
(* EscrowService: a sender creates an escrow and funds it, which takes the *)
(* amount from his balance and pays it into a new Stellar account; later   *)
(* it is released to the recipient or refunded, by a call or by the cron   *)
(* job, and may be disputed before.                                        *)
(*                                                                         *)
(* Fund, release and refund run in a database transaction that holds the   *)
(* row lock of the escrow; but the payment, and the two statements by      *)
(* which UsersService changes a balance, are not part of it and stay when  *)
(* it is rolled back.  disputeEscrow takes no lock: it reads the escrow,   *)
(* and saves it.                                                           *)
(*                                                                         *)
(* One action is one await.  What a transaction writes to the escrow is    *)
(* seen when it commits.  A statement outside of a transaction, too, needs *)
(* a connection of the pool, of which the transactions hold one each.      *)
(***************************************************************************)
EXTENDS Integers, FiniteSets

CONSTANTS
  Escrows, Parties,
  Handlers,      \* calls of the API, and runs of the cron job
  Crons,         \* the runs of the cron job among them
  Unlocked,      \* no request holds the lock
  Sender,        \* Sender[e], Recipient[e]: the parties
  Recipient,
  EscrowAmount,  \* EscrowAmount[e]: in units of its currency
  FirstBalance,  \* FirstBalance[u]: the balances to begin with
  Connections,   \* size of the connection pool
  MaxFailures    \* bound: failing statements and payments in a behaviour

ASSUME EscrowAssumption ==
  /\ Escrows # {}
  /\ Crons \subseteq Handlers
  /\ Unlocked \notin Handlers
  /\ Sender \in [Escrows -> Parties]
  /\ Recipient \in [Escrows -> Parties]
  /\ EscrowAmount \in [Escrows -> Nat \ {0}]
  /\ FirstBalance \in [Parties -> Nat]
  /\ Connections \in Nat
  /\ MaxFailures \in Nat

VARIABLES
  status,        \* status[e]: the column of the escrow
  due,           \* the escrows whose autoReleaseAt has passed
  userBalance,   \* userBalance[u]: User.balances of the currency
  debited,       \* debited[e], credited[e]: balance updates on behalf of e
  credited,
  funded,        \* funded[e]: payments into the Stellar account of e
  paid,          \* paid[e]: payments out of it
  reopened,      \* reopened[e]: disputes saved after e was settled
  lock,          \* lock[e]: who holds the row lock
  escrowPc,      \* escrowPc[r]: the statement a request executes next
  call,          \* call[r]: what it does, for whom and on which escrow
  knownBalance,  \* knownBalance[r]: the balance it has read
  todo,          \* todo[r]: escrows a run of the cron job has not come to yet
  failures       \* failures so far

escrowRows == <<status, userBalance, debited, credited, funded, paid, reopened>>
escrowVars == <<status, due, userBalance, debited, credited, funded, paid, reopened, lock,
                escrowPc, call, knownBalance, todo, failures>>

Statuses == {"NONE", "PENDING", "FUNDED", "RELEASED", "REFUNDED", "DISPUTED"}
Ops == {"fund", "release", "forcedRelease", "refund", "dispute"}
EscrowCalls == [op : Ops, user : Parties, escrow : Escrows]
Settled == {"RELEASED", "REFUNDED"}
Steps == {"idle", "lock", "read", "write", "pay", "commit", "select", "update"}

EscrowTypeOK ==
  /\ status \in [Escrows -> Statuses]
  /\ due \subseteq Escrows
  /\ userBalance \in [Parties -> Int]
  /\ debited \in [Escrows -> Nat]
  /\ credited \in [Escrows -> Nat]
  /\ funded \in [Escrows -> Nat]
  /\ paid \in [Escrows -> Nat]
  /\ reopened \in [Escrows -> Nat]
  /\ lock \in [Escrows -> Handlers \cup {Unlocked}]
  /\ escrowPc \in [Handlers -> Steps]
  /\ call \in [Handlers -> EscrowCalls]
  /\ knownBalance \in [Handlers -> Int]
  /\ todo \in [Handlers -> SUBSET Escrows]
  /\ failures \in 0 .. MaxFailures

NoCall ==
  LET e == CHOOSE x \in Escrows : TRUE
  IN  [op |-> "fund", user |-> Sender[e], escrow |-> e]

EscrowInit ==
  /\ status = [e \in Escrows |-> "NONE"]
  /\ due = {}
  /\ userBalance = FirstBalance
  /\ debited = [e \in Escrows |-> 0]
  /\ credited = [e \in Escrows |-> 0]
  /\ funded = [e \in Escrows |-> 0]
  /\ paid = [e \in Escrows |-> 0]
  /\ reopened = [e \in Escrows |-> 0]
  /\ lock = [e \in Escrows |-> Unlocked]
  /\ escrowPc = [r \in Handlers |-> "idle"]
  /\ call = [r \in Handlers |-> NoCall]
  /\ knownBalance = [r \in Handlers |-> 0]
  /\ todo = [r \in Handlers |-> {}]
  /\ failures = 0

-----------------------------------------------------------------------------
\* A transaction holds its connection from its begin to its end, and so does
\* save() from its SELECT to its COMMIT.
Busy == {r \in Handlers : escrowPc[r] \notin {"idle", "select"}}
FreeConnection == Cardinality(Busy) < Connections

\* Mutant: the connection is given back, but the transaction left open.
EndWithLock(r) ==
  /\ escrowPc' = [escrowPc EXCEPT ![r] = "idle"]
  /\ call' = [call EXCEPT ![r] = NoCall]
  /\ knownBalance' = [knownBalance EXCEPT ![r] = 0]
  /\ UNCHANGED lock

\* The end of a call: of its transaction, with the row lock, if it has one.
EndCall(r) ==
  /\ escrowPc' = [escrowPc EXCEPT ![r] = "idle"]
  /\ call' = [call EXCEPT ![r] = NoCall]
  /\ knownBalance' = [knownBalance EXCEPT ![r] = 0]
  /\ lock' = [e \in Escrows |-> IF lock[e] = r THEN Unlocked ELSE lock[e]]

\* createEscrow.
Create(e) ==
  /\ status[e] = "NONE"
  /\ status' = [status EXCEPT ![e] = "PENDING"]
  /\ UNCHANGED <<due, userBalance, debited, credited, funded, paid, reopened, lock, escrowPc, call,
                 knownBalance, todo, failures>>

\* autoReleaseAt passes.
FallDue(e) ==
  /\ status[e] # "NONE"
  /\ e \notin due
  /\ due' = due \cup {e}
  /\ UNCHANGED <<escrowRows, lock, escrowPc, call, knownBalance, todo, failures>>

\* A transaction is begun; an administrator's resolveEscrow calls releaseEscrow
\* or refundEscrow in the name of the sender, by force.
Begin(r, what, u, e) ==
  /\ escrowPc[r] = "idle"
  /\ FreeConnection
  /\ escrowPc' = [escrowPc EXCEPT ![r] = "lock"]
  /\ call' = [call EXCEPT ![r] = [op |-> what, user |-> u, escrow |-> e]]
  /\ UNCHANGED <<escrowRows, due, lock, knownBalance, failures>>

CallEscrow(r, u, e) ==
  /\ r \notin Crons
  /\ status[e] # "NONE"
  /\ \/ \E what \in {"fund", "release", "refund"} : Begin(r, what, u, e)
     \/ u = Sender[e] /\ Begin(r, "forcedRelease", u, e)
  /\ UNCHANGED todo

\* autoReleaseDueEscrows finds the funded escrows that are due ...
AutoFind(r) ==
  LET found == {e \in due : status[e] = "FUNDED"}
  IN  /\ r \in Crons
      /\ escrowPc[r] = "idle"
      /\ todo[r] = {}
      /\ FreeConnection
      /\ found # {}
      /\ todo' = [todo EXCEPT ![r] = found]
      /\ UNCHANGED <<escrowRows, due, lock, escrowPc, call, knownBalance, failures>>

\* ... and releases them one after the other in the name of the sender.
AutoRelease(r, e) ==
  /\ e \in todo[r]
  /\ Begin(r, "release", Sender[e], e)
  /\ todo' = [todo EXCEPT ![r] = @ \ {e}]

-----------------------------------------------------------------------------
(***************************************************************************)
(* fundEscrow, releaseEscrow and refundEscrow.                             *)
(***************************************************************************)

\* Mutant: what was released can be refunded.
PermittedAgain(what, u, e) ==
  CASE what = "fund" -> u = Sender[e] /\ status[e] = "PENDING"
    [] what = "release" -> u = Sender[e] /\ status[e] = "FUNDED"
    [] what = "forcedRelease" -> u = Sender[e] /\ status[e] \in {"FUNDED", "DISPUTED"}
    [] what = "refund" -> u \in {Sender[e], Recipient[e]} /\ status[e] \notin {"NONE", "PENDING"}

\* The checks made under the row lock.
Permitted(what, u, e) ==
  CASE what = "fund" -> u = Sender[e] /\ status[e] = "PENDING"
    [] what = "release" -> u = Sender[e] /\ status[e] = "FUNDED"
    [] what = "forcedRelease" -> u = Sender[e] /\ status[e] \in {"FUNDED", "DISPUTED"}
    [] what = "refund" -> u \in {Sender[e], Recipient[e]} /\ status[e] \in {"FUNDED", "DISPUTED"}

FirstStep(what) == IF what = "fund" THEN "read" ELSE "pay"

\* findOne with pessimistic_write.
Lock(r) ==
  LET c == call[r]
  IN  /\ escrowPc[r] = "lock"
      /\ lock[c.escrow] = Unlocked
      /\ IF Permitted(c.op, c.user, c.escrow)
           THEN /\ lock' = [lock EXCEPT ![c.escrow] = r]
                /\ escrowPc' = [escrowPc EXCEPT ![r] = FirstStep(c.op)]
                /\ UNCHANGED <<call, knownBalance>>
           ELSE EndCall(r)
      /\ UNCHANGED <<escrowRows, due, todo, failures>>

\* Whose balance the call changes, and by how much.
Party(c) == IF c.op \in {"release", "forcedRelease"} THEN Recipient[c.escrow] ELSE Sender[c.escrow]
Change(c) == IF c.op = "fund" THEN - EscrowAmount[c.escrow] ELSE EscrowAmount[c.escrow]

\* usersService.findById; fundEscrow checks that the amount is there.
ReadBalance(r) ==
  LET c == call[r]
  IN  /\ escrowPc[r] = "read"
      /\ FreeConnection
      /\ IF c.op = "fund" /\ userBalance[Party(c)] < EscrowAmount[c.escrow]
           THEN EndCall(r)
           ELSE /\ knownBalance' = [knownBalance EXCEPT ![r] = userBalance[Party(c)]]
                /\ escrowPc' = [escrowPc EXCEPT ![r] = "write"]
                /\ UNCHANGED <<lock, call>>
      /\ UNCHANGED <<escrowRows, due, todo, failures>>

\* usersService.updateByUserId with what was computed from it.
WriteBalance(r) ==
  LET c == call[r]
      e == c.escrow
  IN  /\ escrowPc[r] = "write"
      /\ FreeConnection
      /\ userBalance' = [userBalance EXCEPT ![Party(c)] = knownBalance[r] + Change(c)]
      /\ debited' = [debited EXCEPT ![e] = IF c.op = "fund" THEN @ + 1 ELSE @]
      /\ credited' = [credited EXCEPT ![e] = IF c.op = "fund" THEN @ ELSE @ + 1]
      /\ escrowPc' = [escrowPc EXCEPT ![r] = IF c.op = "fund" THEN "pay" ELSE "commit"]
      /\ UNCHANGED <<status, due, funded, paid, reopened, lock, call, knownBalance, todo, failures>>

\* The payment is in a ledger of Stellar.
Submitted(c) ==
  /\ funded' = [funded EXCEPT ![c.escrow] = IF c.op = "fund" THEN @ + 1 ELSE @]
  /\ paid' = [paid EXCEPT ![c.escrow] = IF c.op = "fund" THEN @ ELSE @ + 1]
  /\ UNCHANGED <<status, userBalance, debited, credited, reopened>>

\* The wallets are looked up and stellarService.sendPayment returns.
Pay(r) ==
  /\ escrowPc[r] = "pay"
  /\ FreeConnection
  /\ Submitted(call[r])
  /\ escrowPc' = [escrowPc EXCEPT ![r] = IF call[r].op = "fund" THEN "commit" ELSE "read"]
  /\ UNCHANGED <<due, lock, call, knownBalance, todo, failures>>

NewStatus(what) ==
  CASE what = "fund" -> "FUNDED"
    [] what = "refund" -> "REFUNDED"
    [] OTHER -> "RELEASED"

\* manager.save(escrow), the notifications, and the end of the transaction.
CommitEscrow(r) ==
  /\ escrowPc[r] = "commit"
  /\ FreeConnection
  /\ status' = [status EXCEPT ![call[r].escrow] = NewStatus(call[r].op)]
  /\ EndCall(r)
  /\ UNCHANGED <<due, userBalance, debited, credited, funded, paid, reopened, todo, failures>>

-----------------------------------------------------------------------------
(***************************************************************************)
(* disputeEscrow.                                                          *)
(***************************************************************************)

Disputable(u, e) == status[e] = "FUNDED" /\ u \in {Sender[e], Recipient[e]}

\* findOne and the checks; a call they turn down leaves no trace.
Dispute(r, u, e) ==
  /\ r \notin Crons
  /\ escrowPc[r] = "idle"
  /\ FreeConnection
  /\ Disputable(u, e)
  /\ escrowPc' = [escrowPc EXCEPT ![r] = "select"]
  /\ call' = [call EXCEPT ![r] = [op |-> "dispute", user |-> u, escrow |-> e]]
  /\ UNCHANGED <<escrowRows, due, lock, knownBalance, todo, failures>>

\* save() selects the row; if it says DISPUTED already there is nothing to do.
SelectEscrow(r) ==
  /\ escrowPc[r] = "select"
  /\ FreeConnection
  /\ IF status[call[r].escrow] = "DISPUTED"
       THEN EndCall(r)
       ELSE escrowPc' = [escrowPc EXCEPT ![r] = "update"] /\ UNCHANGED <<lock, call, knownBalance>>
  /\ UNCHANGED <<escrowRows, due, todo, failures>>

\* It updates the status; an UPDATE waits for the row lock.
UpdateDisputed(r) ==
  LET e == call[r].escrow
  IN  /\ escrowPc[r] = "update"
      /\ lock[e] = Unlocked
      /\ status' = [status EXCEPT ![e] = "DISPUTED"]
      /\ reopened' = [reopened EXCEPT ![e] = IF status[e] \in Settled THEN @ + 1 ELSE @]
      /\ EndCall(r)
      /\ UNCHANGED <<due, userBalance, debited, credited, funded, paid, todo, failures>>

-----------------------------------------------------------------------------
\* A statement or the payment throws, and the transaction is rolled back.
FailCall(r) ==
  /\ failures < MaxFailures
  /\ escrowPc[r] # "idle"
  /\ failures' = failures + 1
  /\ EndCall(r)
  /\ UNCHANGED <<escrowRows, due, todo>>

\* The payment is made, but sendPayment throws: the audit log is written, or
\* the answer of Stellar awaited, in the same try block.
FailAfterPayment(r) ==
  /\ failures < MaxFailures
  /\ escrowPc[r] = "pay"
  /\ failures' = failures + 1
  /\ Submitted(call[r])
  /\ EndCall(r)
  /\ UNCHANGED <<due, todo>>

CallStep(r) ==
  \/ Lock(r) \/ ReadBalance(r) \/ WriteBalance(r) \/ Pay(r) \/ CommitEscrow(r)
  \/ SelectEscrow(r) \/ UpdateDisputed(r)

Cron(r) == AutoFind(r) \/ \E e \in Escrows : AutoRelease(r, e)

EscrowNext ==
  \/ \E e \in Escrows : Create(e) \/ FallDue(e)
  \/ \E r \in Handlers :
       \/ \E u \in Parties, e \in Escrows : CallEscrow(r, u, e) \/ Dispute(r, u, e)
       \/ Cron(r) \/ CallStep(r) \/ FailCall(r) \/ FailAfterPayment(r)

EscrowSpec == EscrowInit /\ [][EscrowNext]_escrowVars

\* Calls go on, the pool and the row locks serve those who wait in turn, and
\* the cron job is started again and again.
FairEscrowSpec == EscrowSpec /\ \A r \in Handlers : SF_escrowVars(CallStep(r)) /\ SF_escrowVars(Cron(r))

-----------------------------------------------------------------------------
(***************************************************************************)
(* Properties.                                                             *)
(***************************************************************************)

\* An escrow says RELEASED or REFUNDED only if money was paid out of its
\* account, and FUNDED or DISPUTED only if money was paid in: whichever calls
\* fail or overlap, the row never claims a payment that was not made.
StatusIsPaidFor ==
  \A e \in Escrows :
    /\ status[e] \in Settled => paid[e] > 0
    /\ status[e] \notin {"NONE", "PENDING"} => funded[e] > 0

\* The balances kept by the application follow the payments: a balance is
\* credited no more often than the escrow paid out, and the escrow is paid into
\* no more often than the balance of the sender was debited.
BalancesFollowPayments ==
  \A e \in Escrows : credited[e] <= paid[e] /\ funded[e] <= debited[e]

\* An escrow pays out once; once more for a call that failed after its payment,
\* because a payment is not rolled back; and once more for a dispute that came
\* late, which opens the escrow to another refund.  No other race of calls and
\* cron jobs pays twice.
PaidOnceUnlessFailed == \A e \in Escrows : paid[e] <= 1 + failures + reopened[e]

\* The life of an escrow as EscrowPromise has it.
Life == INSTANCE EscrowPromise
  WITH paidIn <- {e \in Escrows : funded[e] > 0},
       paidOut <- {e \in Escrows : paid[e] > 0}

ImplementsEscrowPromise == Life!Spec

\* No call waits for ever: neither for a row lock another call holds nor for a
\* connection, if there is one more of these than there are requests.
EveryCallReturns == \A r \in Handlers : escrowPc[r] # "idle" ~> escrowPc[r] = "idle"

\* A funded escrow that is due is released by the cron job, if nobody does
\* anything else with it before; a failed release is tried again.
DueIsReleased ==
  \A e \in Escrows : status[e] = "FUNDED" /\ e \in due ~> status[e] # "FUNDED"

\* Nothing gets stuck: no call in a lock or the pool, and no escrow that is due.
NothingIsStuck == EveryCallReturns /\ DueIsReleased

=============================================================================

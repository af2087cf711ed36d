-------------------------------- MODULE Wallets --------------------------------
(***************************************************************************)
(* The wallets of a user and the fiat ramp that fills and empties one of   *)
(* them.  WalletsService keeps the rows, at most one of them the default,  *)
(* and copies the keys of the default to the row of the user; FiatService  *)
(* credits deposits, debits withdrawals and refunds those that failed, as  *)
(* the webhooks of the payment provider tell it.  No operation relates two *)
(* users, so there is one; of its wallets only Cash holds a fiat balance.  *)
(*                                                                         *)
(* Both services read a row, wait, and save it: a SELECT, then an UPDATE   *)
(* of the columns that differ from what the SELECT has seen, or an INSERT  *)
(* when it has seen no row.  A transaction shows its writes at its commit. *)
(***************************************************************************)
EXTENDS Integers, FiniteSets

CONSTANTS
  Procs,        \* calls of the API, and of the webhook
  Ids,          \* the wallets there may be
  Signing,      \* those with a secret key; the others are watch-only
  Cash,         \* the wallet in NGN, without any key; no service makes one
  Primary,      \* the wallet seeded when the user signed up
  Initial,      \* the wallets the user starts with
  MaxWallets,   \* MAX_WALLETS_PER_USER
  Deposits,     \* deposits the user may make
  Withdrawals,  \* withdrawals the user may ask for
  Amount,       \* of each
  Funds,        \* the balance of Cash at the start, if there is one
  MaxRequests,  \* bound: calls about wallets, and repeated webhooks
  MaxFaults     \* bound: failing statements in a behaviour

ASSUME WalletsAssumption ==
  /\ IsFiniteSet(Procs) /\ IsFiniteSet(Ids) /\ Procs # {}
  /\ Signing \subseteq Ids /\ Initial \subseteq Ids
  /\ Primary \in Initial \cap Signing /\ Cash \in Ids \ Signing
  /\ MaxWallets \in Nat /\ Cardinality(Initial) <= MaxWallets
  /\ Deposits \cap Withdrawals = {}
  /\ Amount \in Nat \ {0} /\ Funds \in Nat
  /\ MaxRequests \in Nat /\ MaxFaults \in Nat

Ramps == Deposits \cup Withdrawals

\* A webhook: the deposit or withdrawal it is about, and whether it succeeded.
Events == Ramps \X BOOLEAN

VARIABLES
  wallets,    \* the rows of the table
  default,    \* those with isDefault
  balance,    \* the balance of Cash
  user,       \* walletPublicKey and walletSecretKeyEncrypted of the user
  status,     \* the rows of deposits and withdrawals
  call,       \* call[p]: where a call is, and what it holds
  asked,      \* withdrawals asked for
  sent,       \* the provider: transfers it has accepted
  emitted,    \* the provider: what it has found out
  owed,       \* the provider: webhooks it has no answer 200 for
  created,    \* wallets that exist or have existed
  due,        \* what the balance is by the operations that took effect
  credited,   \* credited[d]: credits of a deposit
  refunded,   \* refunded[w]: refunds of a withdrawal
  mishaps,    \* what went wrong so far, see Mishaps
  raced,      \* deposits two webhooks were at work on at a time
  repeated,   \* webhooks that came again though answered, or while at work
  dropped,    \* withdrawals whose transfer, or webhook, found no row
  requests,   \* calls so far
  faults      \* failures so far

rows == <<wallets, default, balance, user, status>>
provider == <<asked, sent, emitted, owed>>
ghosts == <<created, due, credited, refunded, mishaps, raced, repeated, dropped>>
vars == <<wallets, default, balance, user, status, call, asked, sent, emitted, owed,
          created, due, credited, refunded, mishaps, raced, repeated, dropped, requests, faults>>

\* A default chosen, saved or deleted by one who had not seen the last choice;
\* a balance saved by one who had not seen the last one; no Cash to be credited.
Mishaps == {"default", "balance", "missing"}

Idle == [at |-> "idle", on |-> Primary, held |-> 0, marked |-> {}, sees |-> "same"]

Init ==
  /\ wallets \in {Initial, Initial \ {Cash}}
  /\ default = {Primary} /\ created = wallets
  /\ balance = IF Cash \in wallets THEN Funds ELSE 0
  /\ due = balance
  /\ user = [key |-> Primary, secret |-> Primary]
  /\ status = [x \in Ramps |-> "NONE"]
  /\ call = [p \in Procs |-> Idle]
  /\ asked = {} /\ sent = {} /\ emitted = {} /\ owed = {}
  /\ credited = [d \in Deposits |-> 0] /\ refunded = [w \in Withdrawals |-> 0]
  /\ mishaps = {m \in {"missing"} : Cash \notin wallets} /\ raced = {} /\ repeated = {} /\ dropped = {}
  /\ requests = 0 /\ faults = 0

At(p, place) == call[p].at = place

Goto(p, place) == call' = [call EXCEPT ![p].at = place]

\* A call that goes to a place with what it has read.
Keep(p, place, held, marked, sees) ==
  call' = [call EXCEPT ![p] = [at |-> place, on |-> call[p].on, held |-> held,
                               marked |-> marked, sees |-> sees]]

End(p) == call' = [call EXCEPT ![p] = Idle]

Start(p, place, on, held, marked) ==
  /\ At(p, "idle")
  /\ call' = [call EXCEPT ![p] = [at |-> place, on |-> on, held |-> held,
                                  marked |-> marked, sees |-> "same"]]

Request == requests < MaxRequests /\ requests' = requests + 1

-------------------------------------------------------------------------------
(* WalletsService *)

UnderLimit == Cardinality(wallets) < MaxWallets

\* generateWallet and importWatchOnly up to the first statement that waits for
\* long: the limit is checked, the key made or the address found to be new.
AddWallet(p, i) ==
  /\ i \notin created \cup {Cash} /\ UnderLimit
  /\ Start(p, "insert", i, 0, {})
  /\ Request /\ UNCHANGED <<rows, provider, ghosts, faults>>

\* The INSERT; a second row for an address violates the unique index.
InsertWallet(p) ==
  /\ At(p, "insert")
  /\ wallets' = wallets \cup {call[p].on} /\ created' = created \cup {call[p].on}
  /\ End(p)
  /\ UNCHANGED <<default, balance, user, status, provider, due, credited, refunded,
                 mishaps, raced, repeated, dropped, requests, faults>>

\* updateLabel: the row is read whole and will be saved whole.
Rename(p, i) ==
  /\ i \in wallets
  /\ Start(p, "label", i, balance, default \cap {i})
  /\ Request /\ UNCHANGED <<rows, provider, ghosts, faults>>

SaveLabel(p) ==
  LET i == call[p].on
      writes == \/ call[p].sees = "gone" /\ i \notin wallets
                \/ call[p].sees = "differs" /\ i \in wallets
      defaultNow == IF writes THEN (default \ {i}) \cup call[p].marked ELSE default
      balanceNow == IF writes /\ i = Cash THEN call[p].held ELSE balance
  IN /\ At(p, "labelSave")
     /\ wallets' = IF writes THEN wallets \cup {i} ELSE wallets
     /\ default' = defaultNow /\ balance' = balanceNow
     /\ mishaps' = mishaps \cup {m \in {"default"} : defaultNow # default}
                           \cup {m \in {"balance"} : balanceNow # balance}
     /\ End(p)
     /\ UNCHANGED <<user, status, provider, created, due, credited, refunded,
                    raced, repeated, dropped, requests, faults>>

\* setDefault, in one transaction.  The target is read without a lock.
SetDefault(p, i) ==
  /\ i \in wallets \ default
  /\ Start(p, "clear", i, 0, {})
  /\ Request /\ UNCHANGED <<rows, provider, ghosts, faults>>

\* The first UPDATE finds the defaults of its snapshot; when another transaction
\* holds one of these rows it waits for its end and clears what is still set.
FindDefaults(p) ==
  /\ At(p, "clear")
  /\ Keep(p, "set", call[p].held, default, call[p].sees)
  /\ UNCHANGED <<rows, provider, ghosts, requests, faults>>

\* Mutant: a watch-only wallet takes the key of the user along, but a signing one
\* does not bring its secret.
KeyAlone(i) == [user EXCEPT !.key = i]

Keys(i) == [key |-> i, secret |-> IF i \in Signing THEN i ELSE user.secret]

Cleared(p) == call[p].marked

Marked(i) == {i} \cap wallets

\* The commit.  Without a key the row of the user cannot be written and all is
\* rolled back; a target deleted meanwhile is not set.
CommitDefault(p) ==
  LET i == call[p].on
  IN /\ At(p, "set") /\ End(p)
     /\ IF i = Cash THEN UNCHANGED <<default, user, mishaps>>
        ELSE /\ default' = (default \ Cleared(p)) \cup Marked(i)
             /\ user' = Keys(i)
             /\ mishaps' = mishaps \cup
                  {m \in {"default"} : call[p].marked # default \/ i \notin wallets}
     /\ UNCHANGED <<wallets, balance, status, provider, created, due, credited, refunded,
                    raced, repeated, dropped, requests, faults>>

Deletable == wallets \ default

DeleteWallet(p, i) ==
  /\ i \in Deletable
  /\ Start(p, "count", i, 0, default \cap {i})
  /\ Request /\ UNCHANGED <<rows, provider, ghosts, faults>>

CountWallets(p) ==
  /\ At(p, "count")
  /\ IF Cardinality(wallets) <= 1 THEN End(p) ELSE Goto(p, "delete")
  /\ UNCHANGED <<rows, provider, ghosts, requests, faults>>

\* The DELETE asks for the id only, not whether the wallet is still no default,
\* nor whether it holds money.
DeleteRow(p) ==
  LET i == call[p].on
  IN /\ At(p, "delete") /\ End(p)
     /\ wallets' = wallets \ {i} /\ default' = default \ {i}
     /\ balance' = IF i = Cash THEN 0 ELSE balance
     /\ mishaps' = mishaps \cup {m \in {"default"} : i \in default /\ call[p].marked = {}}
                           \cup {m \in {"missing"} : i = Cash}
     /\ UNCHANGED <<user, status, provider, created, due, credited, refunded,
                    raced, repeated, dropped, requests, faults>>

-------------------------------------------------------------------------------
(* save of a wallet, by updateLabel and by FiatService *)

Target(p) == IF At(p, "label") \/ At(p, "labelSave") THEN call[p].on ELSE Cash

\* What the caller adds to the balance it holds.
Delta(p) ==
  CASE call[p].at \in {"credit", "creditSave", "refund", "refundSave"} -> Amount
    [] call[p].at \in {"debit", "debitSave"} -> -Amount
    [] OTHER -> 0

\* Mutant: plus and minus are swapped.
NewBalanceSwapped(p) == call[p].held - Delta(p)

NewBalance(p) == call[p].held + Delta(p)

Sees(p) ==
  LET i == Target(p)
  IN CASE i \notin wallets -> "gone"
       [] i \in wallets /\ (\/ i = Cash /\ balance # NewBalance(p)
                            \/ i # Cash /\ default \cap {i} # call[p].marked) -> "differs"
       [] OTHER -> "same"

\* The write that follows a SELECT.
Write == [label |-> "labelSave", credit |-> "creditSave", refund |-> "refundSave", debit |-> "debitSave"]

Select(p) ==
  \E place \in DOMAIN Write :
    /\ At(p, place)
    /\ Keep(p, Write[place], call[p].held, call[p].marked, Sees(p))
    /\ UNCHANGED <<rows, provider, ghosts, requests, faults>>

\* The UPDATE or INSERT of Cash, at a commit of FiatService; "none" when the
\* caller had found no wallet.
SaveCash(p) ==
  LET gone == call[p].sees = "gone" /\ Cash \notin wallets
      writes == gone \/ (call[p].sees = "differs" /\ Cash \in wallets)
      stale == IF writes THEN balance # call[p].held ELSE call[p].sees # "none"
  IN /\ wallets' = IF gone THEN wallets \cup {Cash} ELSE wallets
     /\ balance' = IF writes THEN NewBalance(p) ELSE balance
     /\ due' = IF call[p].sees = "none" THEN due ELSE due + Delta(p)
     /\ mishaps' = mishaps \cup {m \in {"balance"} : stale}

-------------------------------------------------------------------------------
(* FiatService: initiateDeposit and initiateWithdrawal *)

\* The provider makes a payment link; the user has it once the row is there.
InitiateDeposit(d) ==
  /\ status[d] = "NONE" /\ status' = [status EXCEPT ![d] = "PENDING"]
  /\ UNCHANGED <<wallets, default, balance, user, call, provider, ghosts, requests, faults>>

InitiateWithdrawal(p, w) ==
  /\ w \notin asked /\ Cash \in wallets /\ balance >= Amount
  /\ Start(p, "send", w, balance, {})
  /\ asked' = asked \cup {w}
  /\ UNCHANGED <<rows, sent, emitted, owed, ghosts, requests, faults>>

\* The provider accepts the transfer, before any row is written.
Send(p) ==
  /\ At(p, "send") /\ Goto(p, "debit")
  /\ sent' = sent \cup {call[p].on}
  /\ UNCHANGED <<rows, asked, emitted, owed, ghosts, requests, faults>>

Recorded(p) == [status EXCEPT ![call[p].on] = "PROCESSING"]

Debit(p) ==
  /\ At(p, "debitSave") /\ SaveCash(p) /\ End(p)
  /\ status' = Recorded(p)
  /\ UNCHANGED <<default, user, provider, created, credited, refunded,
                 raced, repeated, dropped, requests, faults>>

-------------------------------------------------------------------------------
(* The provider *)

\* An attempt to pay fails, perhaps, and another one succeeds.
Pay(d, ok) ==
  /\ status[d] # "NONE" /\ <<d, ok>> \notin emitted /\ <<d, TRUE>> \notin emitted
  /\ emitted' = emitted \cup {<<d, ok>>} /\ owed' = owed \cup {<<d, ok>>}
  /\ UNCHANGED <<rows, call, asked, sent, ghosts, requests, faults>>

\* A transfer arrives, or fails.
Settle(w, ok) ==
  /\ w \in sent /\ ~ \E b \in BOOLEAN : <<w, b>> \in emitted
  /\ emitted' = emitted \cup {<<w, ok>>} /\ owed' = owed \cup {<<w, ok>>}
  /\ UNCHANGED <<rows, call, asked, sent, ghosts, requests, faults>>

Handling(p) == call[p].at \in {"find", "take", "read", "fail", "complete", "lock",
                               "credit", "creditSave", "refundRead", "refund", "refundSave"}

\* A webhook comes until it is answered with 200 ...
Deliver(p, e) ==
  /\ e \in owed /\ ~ \E q \in Procs : Handling(q) /\ call[q].on = e
  /\ Start(p, "find", e, 0, {})
  /\ UNCHANGED <<rows, provider, ghosts, requests, faults>>

\* ... and may come again.
Repeat(p, e) ==
  /\ e \in emitted
  /\ Start(p, "find", e, 0, {})
  /\ repeated' = repeated \cup {e}
  /\ Request
  /\ UNCHANGED <<rows, provider, created, due, credited, refunded, mishaps, raced, dropped, faults>>

-------------------------------------------------------------------------------
(* processDepositWebhook and processWithdrawalWebhook *)

\* The answer 200.
Answer(p) == End(p) /\ owed' = owed \ {call[p].on}

\* Mutant: a webhook for a completed deposit is worked on.
NeverSettled(x) == status[x] = "NONE"

\* Mutant: a failed attempt to pay is taken for the end, too.
SettledByFailure(x) == status[x] \in {"NONE", "COMPLETED", "FAILED"}

\* Not found, or "Already processed".
Settled(x) == status[x] \in {"NONE", "COMPLETED"}

\* The check for an existing row, outside the transaction.
FindRow(p) ==
  LET x == call[p].on[1]
  IN /\ At(p, "find")
     /\ IF Settled(x) THEN Answer(p) ELSE Goto(p, "take") /\ owed' = owed
     /\ dropped' = dropped \cup {w \in {x} \cap Withdrawals : status[w] = "NONE"}
     /\ raced' = raced \cup {d \in {x} \cap Deposits : ~ Settled(d) /\
          \E q \in Procs \ {p} : Handling(q) /\ ~ At(q, "find") /\ call[q].on[1] = d}
     /\ UNCHANGED <<rows, asked, sent, emitted, created, due, credited, refunded,
                    mishaps, repeated, requests, faults>>

\* The row is read again in the transaction; its status is not looked at again.
TakeRow(p) ==
  LET x == call[p].on[1]
      ok == call[p].on[2]
  IN /\ At(p, "take")
     /\ Goto(p, IF x \in Deposits THEN IF ok THEN "read" ELSE "fail"
                                  ELSE IF ok THEN "complete" ELSE "lock")
     /\ UNCHANGED <<rows, provider, ghosts, requests, faults>>

\* A withdrawal is saved as FAILED first, which locks its row until the commit.
Locked(w) ==
  \E q \in Procs : /\ call[q].at \in {"refundRead", "refund", "refundSave"}
                   /\ call[q].on[1] = w

LockRow(p) ==
  /\ At(p, "lock") /\ ~ Locked(call[p].on[1])
  /\ Goto(p, "refundRead")
  /\ UNCHANGED <<rows, provider, ghosts, requests, faults>>

\* The wallet is read without a lock; there may be none.
ReadWallet(p) ==
  \E next \in {"credit", "refund"} :
    /\ At(p, IF next = "credit" THEN "read" ELSE "refundRead")
    /\ IF Cash \in wallets THEN Keep(p, next, balance, {}, "same")
                          ELSE Keep(p, Write[next], 0, {}, "none")
    /\ UNCHANGED <<rows, provider, ghosts, requests, faults>>

\* 1 if the wallet was there to be credited.
Credited(p) == IF call[p].sees = "none" THEN 0 ELSE 1

PaidRow(d) == [status EXCEPT ![d] = "COMPLETED"]

\* A deposit that was paid: the balance, the row and the notification at once.
Credit(p) ==
  LET d == call[p].on[1]
  IN /\ At(p, "creditSave") /\ SaveCash(p) /\ Answer(p)
     /\ status' = PaidRow(d)
     /\ credited' = [credited EXCEPT ![d] = @ + Credited(p)]
     /\ UNCHANGED <<default, user, asked, sent, emitted, created, refunded,
                    raced, repeated, dropped, requests, faults>>

FailDeposit(p) ==
  /\ At(p, "fail") /\ Answer(p)
  /\ status' = [status EXCEPT ![call[p].on[1]] = "FAILED"]
  /\ UNCHANGED <<wallets, default, balance, user, asked, sent, emitted, ghosts, requests, faults>>

Complete(p) ==
  /\ At(p, "complete") /\ ~ Locked(call[p].on[1]) /\ Answer(p)
  /\ status' = [status EXCEPT ![call[p].on[1]] = "COMPLETED"]
  /\ UNCHANGED <<wallets, default, balance, user, asked, sent, emitted, ghosts, requests, faults>>

\* Mutant: the refund is recorded without a change of the status.
StillProcessing(w) == status

RefundedRow(w) == [status EXCEPT ![w] = "FAILED"]

Refund(p) ==
  LET w == call[p].on[1]
  IN /\ At(p, "refundSave") /\ SaveCash(p) /\ Answer(p)
     /\ status' = RefundedRow(w)
     /\ refunded' = [refunded EXCEPT ![w] = @ + Credited(p)]
     /\ UNCHANGED <<default, user, asked, sent, emitted, created, credited,
                    raced, repeated, dropped, requests, faults>>

\* The controller throws on: the answer is 500.
OwedAfterFault(p) == owed

\* A statement fails: the transaction is rolled back, the transfer is not.
Fail(p) ==
  /\ ~ At(p, "idle") /\ faults < MaxFaults
  /\ End(p) /\ faults' = faults + 1
  /\ dropped' = dropped \cup {w \in sent : call[p].on = w}
  /\ owed' = OwedAfterFault(p)
  /\ UNCHANGED <<rows, asked, sent, emitted, created, due, credited, refunded,
                 mishaps, raced, repeated, requests>>

-------------------------------------------------------------------------------
Step(p) ==
  \/ InsertWallet(p) \/ SaveLabel(p) \/ FindDefaults(p) \/ CommitDefault(p)
  \/ CountWallets(p) \/ DeleteRow(p)
  \/ Select(p) \/ Send(p) \/ Debit(p)
  \/ FindRow(p) \/ TakeRow(p) \/ LockRow(p) \/ ReadWallet(p)
  \/ Credit(p) \/ FailDeposit(p) \/ Complete(p) \/ Refund(p)

Begin(p) ==
  \/ \E i \in Ids : AddWallet(p, i) \/ Rename(p, i) \/ SetDefault(p, i) \/ DeleteWallet(p, i)
  \/ \E w \in Withdrawals : InitiateWithdrawal(p, w)
  \/ \E e \in Events : Deliver(p, e) \/ Repeat(p, e)

Environment ==
  \/ \E d \in Deposits : InitiateDeposit(d) \/ \E ok \in BOOLEAN : Pay(d, ok)
  \/ \E w \in Withdrawals, ok \in BOOLEAN : Settle(w, ok)

Next ==
  \/ \E p \in Procs : Begin(p) \/ Step(p) \/ Fail(p)
  \/ Environment

Spec == Init /\ [][Next]_vars

\* A call goes on, and the provider repeats a webhook until it is answered.
Fairness ==
  /\ \A p \in Procs : WF_vars(Step(p))
  /\ \A e \in Events : WF_vars(\E p \in Procs : Deliver(p, e))

FairSpec == Spec /\ Fairness

-------------------------------------------------------------------------------
(***************************************************************************)
(* Properties.                                                             *)
(***************************************************************************)

Places == {"idle", "insert", "label", "labelSave", "clear", "set", "count", "delete", "send",
           "debit", "debitSave", "find", "take", "read", "credit", "creditSave", "fail",
           "complete", "lock", "refundRead", "refund", "refundSave"}

Statuses == {"NONE", "PENDING", "PROCESSING", "COMPLETED", "FAILED"}

TypeOK ==
  /\ wallets \subseteq created /\ created \subseteq Ids /\ default \subseteq wallets
  /\ balance \in Int /\ due \in Int
  /\ user \in [key : Ids \ {Cash}, secret : Signing]
  /\ status \in [Ramps -> Statuses]
  /\ call \in [Procs -> [at : Places, on : Ids \cup Withdrawals \cup Events, held : Int,
                        marked : SUBSET Ids, sees : {"same", "differs", "gone", "none"}]]
  /\ asked \subseteq Withdrawals /\ sent \subseteq asked
  /\ emitted \subseteq Events /\ owed \subseteq emitted
  /\ credited \in [Deposits -> Nat] /\ refunded \in [Withdrawals -> Nat]
  /\ mishaps \subseteq Mishaps /\ raced \subseteq Deposits
  /\ repeated \subseteq Events /\ dropped \subseteq Withdrawals
  /\ requests \in 0..MaxRequests /\ faults \in 0..MaxFaults

\* A user has exactly one default wallet, however the calls of setDefault,
\* updateLabel and deleteWallet follow each other, unless one of them wrote what
\* had been decided before the last choice of a default.
OneDefault == "default" \notin mishaps => Cardinality(default) = 1

\* The keys on the row of the user, which code older than wallets signs with, are
\* those of the default wallet; the secret stays behind only when the default is
\* watch-only and has none.
UserMirrorsDefault ==
  "default" \notin mishaps => \A i \in default :
    user.key = i /\ (i \in Signing => user.secret = i)

\* The limit is checked before a key is made and stored, and a renaming can bring
\* back a deleted row; still every other call in progress adds at most one wallet.
LimitIsKept == Cardinality(wallets) <= MaxWallets + Cardinality(Procs) - 1

\* What the wallets of a user are at any time: one default, its keys on the row of the
\* user, and not more than the limit and the races for it allow.
WalletsAreInOrder == OneDefault /\ UserMirrorsDefault /\ LimitIsKept

\* However often its webhooks come, a deposit is credited once, unless two of them
\* are at work at a time: the check for COMPLETED is not repeated in the transaction.
CreditedOnce == \A d \in Deposits : credited[d] > 1 => d \in raced

\* A deposit that is COMPLETED was credited, unless there was no wallet in its
\* currency; one that is not COMPLETED was not credited, unless two webhooks raced.
CompletedIsCredited ==
  \A d \in Deposits :
    /\ status[d] = "COMPLETED" => credited[d] > 0 \/ "missing" \in mishaps
    /\ credited[d] > 0 => status[d] = "COMPLETED" \/ d \in raced

\* What a deposit says is what was credited for it, once, except for the named races.
DepositsAreTrue == CreditedOnce /\ CompletedIsCredited

\* A failed transfer is refunded exactly once, and no other one is, unless its
\* webhook came again (only COMPLETED is looked at) or there was no wallet.
RefundsMatchFailures ==
  \A w \in Withdrawals :
    /\ refunded[w] > 0 => status[w] = "FAILED"
    /\ status[w] = "FAILED" =>
         refunded[w] = 1 \/ <<w, FALSE>> \in repeated \/ "missing" \in mishaps

\* The balance is what credits, debits and refunds make of it, unless one of them,
\* or a renaming, saved a balance it had read before another one, or the wallet was
\* deleted with its money.
BalanceIsExact == mishaps \cap {"balance", "missing"} = {} => balance = due

\* Once the provider has accepted a transfer and the call is over there is a row
\* for it, unless a statement failed after the provider had answered.
SentIsRecorded ==
  \A w \in sent :
    \/ status[w] # "NONE" \/ w \in dropped
    \/ \E p \in Procs : call[p].on = w

\* What the provider has decided reaches its row, whatever fails on the way: a deposit
\* that was paid is completed, unless two webhooks raced (the late "failed" one may
\* have the last word), and a transfer that failed is marked FAILED and refunded (see
\* above), unless its row was lost or written only after the webhook was answered.
PaymentsEnd ==
  /\ \A d \in Deposits :
       <<d, TRUE>> \in emitted ~> status[d] = "COMPLETED" \/ d \in raced
  /\ \A w \in Withdrawals :
       <<w, FALSE>> \in emitted ~> status[w] = "FAILED" \/ w \in dropped

===============================================================================

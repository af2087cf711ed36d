----------------------------- MODULE Conversions -----------------------------
(***************************************************************************)
(* ConversionsService: a user asks for a quote, which locks a rate for 30  *)
(* seconds, and executes it.  executeConversion checks the quote as it     *)
(* finds it, asks for the present rate, and then does the conversion in a  *)
(* database transaction under row locks on the quote and on the user.      *)
(* Where a check fails it saves the entity it read before as EXPIRED,      *)
(* outside of any transaction.                                             *)
(*                                                                         *)
(* One action is one await.  The writes of the transaction become visible  *)
(* together when it commits, and until then the locks keep everybody else  *)
(* from the rows; so they are one action, CommitConversion.  Amounts are   *)
(* integers, in units for which the rounding to eight decimals does not    *)
(* matter.                                                                 *)
(***************************************************************************)
EXTENDS Integers, FiniteSets

CONSTANTS
  Quotes, Users, Currencies,
  Requests,       \* calls of executeConversion under way at a time
  None,           \* no request holds the lock
  Owner,          \* Owner[q]: the user a quote is made for
  From, To,       \* From[q], To[q]: its currencies
  FromAmount,     \* FromAmount[q]: its fromAmount
  FEE_PERMILLE,   \* CONVERSION_FEE_PERCENT, ten times
  Rates,          \* rates of a currency pair, in hundredths
  FirstBalances,  \* FirstBalances[u][c]: the balances to begin with
  Labelled,       \* Labelled[u]: currencies u has a wallet for to begin with
  HasKey          \* the users with a walletPublicKey

ASSUME ConversionsAssumption ==
  /\ Quotes # {}
  /\ Owner \in [Quotes -> Users]
  /\ From \in [Quotes -> Currencies]
  /\ To \in [Quotes -> Currencies]
  /\ \A q \in Quotes : From[q] # To[q]
  /\ FromAmount \in [Quotes -> Nat \ {0}]
  /\ FEE_PERMILLE \in 0 .. 1000
  /\ Rates \subseteq Nat \ {0}
  /\ FirstBalances \in [Users -> [Currencies -> Nat]]
  /\ Labelled \in [Users -> SUBSET Currencies]
  /\ HasKey \subseteq Users
  /\ None \notin Requests

VARIABLES
  quote,         \* quote[q]: the columns status, usedAt (set or not) and rate
  aged,          \* the quotes older than 30 seconds
  rate,          \* rate[q]: what getRate answers for the pair of q
  balances,      \* balances[u][c]: User.balances
  wallets,       \* wallets[u][c]: the wallets of u labelled for c
  keyWallet,     \* the users of whom a wallet carries the walletPublicKey
  executed,      \* executed[q]: SUCCESS transactions, with their ledger entries, of q
  conversionPc,  \* conversionPc[r]: the statement a request executes next
  job,           \* job[r]: the quote it is about
  selected,      \* selected[r]: the quote row save() has selected
  read,          \* read[r]: the balances read, and whether the wallet was missing
  quoteLock,     \* quoteLock[q]: who holds the row lock
  userLock       \* userLock[u]: who holds the row lock

database == <<quote, balances, wallets, keyWallet, executed>>
locks == <<quoteLock, userLock>>
conversionVars == <<quote, aged, rate, balances, wallets, keyWallet, executed, conversionPc, job,
                    selected, read, quoteLock, userLock>>

QuoteRows == [status : {"NONE", "PENDING", "USED", "EXPIRED"}, used : BOOLEAN,
              rate : Rates \cup {0}]
NoQuote == [status |-> "NONE", used |-> FALSE, rate |-> 0]

ConversionTypeOK ==
  /\ quote \in [Quotes -> QuoteRows]
  /\ aged \subseteq Quotes
  /\ rate \in [Quotes -> Rates]
  /\ balances \in [Users -> [Currencies -> Int]]
  /\ wallets \in [Users -> [Currencies -> Nat]]
  /\ keyWallet \subseteq HasKey
  /\ executed \in [Quotes -> Nat]
  /\ conversionPc \in [Requests -> {"idle", "rate", "select", "update", "quote", "user", "commit"}]
  /\ job \in [Requests -> Quotes]
  /\ selected \in [Requests -> QuoteRows]
  /\ read \in [Requests -> [funds : [Currencies -> Int], missing : BOOLEAN]]
  /\ quoteLock \in [Quotes -> Requests \cup {None}]
  /\ userLock \in [Users -> Requests \cup {None}]

NothingRead == [funds |-> [c \in Currencies |-> 0], missing |-> FALSE]
NoJob == CHOOSE q \in Quotes : TRUE

ConversionInit ==
  /\ quote = [q \in Quotes |-> NoQuote]
  /\ aged = {}
  /\ rate \in [Quotes -> Rates]
  /\ balances = FirstBalances
  /\ wallets = [u \in Users |-> [c \in Currencies |-> IF c \in Labelled[u] THEN 1 ELSE 0]]
  /\ keyWallet \in SUBSET HasKey
  /\ executed = [q \in Quotes |-> 0]
  /\ conversionPc = [r \in Requests |-> "idle"]
  /\ job = [r \in Requests |-> NoJob]
  /\ selected = [r \in Requests |-> NoQuote]
  /\ read = [r \in Requests |-> NothingRead]
  /\ quoteLock = [q \in Quotes |-> None]
  /\ userLock = [u \in Users |-> None]

-----------------------------------------------------------------------------
(***************************************************************************)
(* The quote and the world around it.                                      *)
(***************************************************************************)
Fee(q) == (FromAmount[q] * FEE_PERMILLE) \div 1000
Proceeds(q, r) == ((FromAmount[q] - Fee(q)) * r) \div 100

\* createQuote, for a pair getRate has a rate for.
CreateQuote(q) ==
  /\ quote[q].status = "NONE"
  /\ quote' = [quote EXCEPT ![q] = [status |-> "PENDING", used |-> FALSE, rate |-> rate[q]]]
  /\ UNCHANGED <<aged, rate, balances, wallets, keyWallet, executed, conversionPc, job, selected, read, locks>>

\* expiresAt passes.
AgeQuote(q) ==
  /\ quote[q].status # "NONE"
  /\ q \notin aged
  /\ aged' = aged \cup {q}
  /\ UNCHANGED <<database, rate, conversionPc, job, selected, read, locks>>

\* The rate moves; getRate may know of it late, which is the same here.
Drift(q) ==
  /\ \E x \in Rates \ {rate[q]} : rate' = [rate EXCEPT ![q] = x]
  /\ UNCHANGED <<database, aged, conversionPc, job, selected, read, locks>>

-----------------------------------------------------------------------------
(***************************************************************************)
(* executeConversion.                                                      *)
(***************************************************************************)

\* Nothing is held and nothing remembered when a call ends.
EndExecution(r) ==
  /\ conversionPc' = [conversionPc EXCEPT ![r] = "idle"]
  /\ job' = [job EXCEPT ![r] = NoJob]
  /\ selected' = [selected EXCEPT ![r] = NoQuote]
  /\ read' = [read EXCEPT ![r] = NothingRead]

\* Mutant: only usedAt is looked at.
Unused(x) == x.status # "NONE" /\ ~x.used

Executable(x) == x.status = "PENDING" /\ ~x.used

\* The first findOne and the checks on what it found, for the caller u.
Execute(r, u, q) ==
  /\ conversionPc[r] = "idle"
  /\ IF Owner[q] = u /\ Executable(quote[q])
       THEN /\ conversionPc' = [conversionPc EXCEPT ![r] = IF q \in aged THEN "select" ELSE "rate"]
            /\ job' = [job EXCEPT ![r] = q]
            /\ UNCHANGED <<selected, read>>
       ELSE EndExecution(r)
  /\ UNCHANGED <<database, aged, rate, locks>>

\* More than 1 % away from the quoted rate.
Slipped(q) ==
  LET d == rate[q] - quote[q].rate
  IN  100 * (IF d < 0 THEN -d ELSE d) > quote[q].rate

CheckRate(r) ==
  /\ conversionPc[r] = "rate"
  /\ conversionPc' = [conversionPc EXCEPT ![r] = IF Slipped(job[r]) THEN "select" ELSE "quote"]
  /\ UNCHANGED <<database, aged, rate, job, selected, read, locks>>

\* getRate has no rate to give, not even a stale one.
NoRate(r) ==
  /\ conversionPc[r] = "rate"
  /\ EndExecution(r)
  /\ UNCHANGED <<database, aged, rate, locks>>

\* quoteRepository.save(quote) with the status EXPIRED: the row is selected ...
SelectQuote(r) ==
  /\ conversionPc[r] = "select"
  /\ selected' = [selected EXCEPT ![r] = quote[job[r]]]
  /\ conversionPc' = [conversionPc EXCEPT ![r] = "update"]
  /\ UNCHANGED <<database, aged, rate, job, read, locks>>

\* ... and the columns in which the entity differs from it are updated.  The
\* entity says EXPIRED and has no usedAt.  An UPDATE waits for the row lock.
UpdateExpired(r) ==
  LET q == job[r]
      x == quote[q]
  IN  /\ conversionPc[r] = "update"
      /\ quoteLock[q] = None
      /\ quote' = [quote EXCEPT ![q] =
           [status |-> IF selected[r].status # "EXPIRED" THEN "EXPIRED" ELSE x.status,
            used   |-> IF selected[r].used THEN FALSE ELSE x.used,
            rate   |-> x.rate]]
      /\ EndExecution(r)
      /\ UNCHANGED <<aged, rate, balances, wallets, keyWallet, executed, locks>>

\* findOne of the quote with pessimistic_write, and the second look at it.
LockQuote(r) ==
  LET q == job[r]
  IN  /\ conversionPc[r] = "quote"
      /\ quoteLock[q] = None
      /\ IF Executable(quote[q])
           THEN /\ quoteLock' = [quoteLock EXCEPT ![q] = r]
                /\ conversionPc' = [conversionPc EXCEPT ![r] = "user"]
                /\ UNCHANGED <<job, selected, read>>
           ELSE /\ EndExecution(r)
                /\ UNCHANGED quoteLock
      /\ UNCHANGED <<database, aged, rate, userLock>>

\* Mutant: the transaction is neither rolled back nor released.
RollbackForgotten(r) == EndExecution(r) /\ UNCHANGED <<database, aged, rate, locks>>

\* rollbackTransaction in the catch block: the locks go, the writes never were.
Rollback(r) ==
  /\ quoteLock' = [quoteLock EXCEPT ![job[r]] = None]
  /\ userLock' = [u \in Users |-> IF userLock[u] = r THEN None ELSE userLock[u]]
  /\ EndExecution(r)
  /\ UNCHANGED <<database, aged, rate>>

\* Mutant: the user is read without pessimistic_write.
LockUserNot(r) ==
  LET q == job[r]
      u == Owner[q]
  IN  /\ conversionPc[r] = "user"
      /\ balances[u][From[q]] >= FromAmount[q]
      /\ read' = [read EXCEPT ![r] = [funds |-> balances[u], missing |-> wallets[u][To[q]] = 0]]
      /\ conversionPc' = [conversionPc EXCEPT ![r] = "commit"]
      /\ UNCHANGED <<database, aged, rate, job, selected, locks>>

\* findOne of the user and find of the wallets with pessimistic_write, the
\* check of the balance, and the look for a wallet of the target currency.
LockUser(r) ==
  LET q == job[r]
      u == Owner[q]
  IN  /\ conversionPc[r] = "user"
      /\ userLock[u] = None
      /\ balances[u][From[q]] >= FromAmount[q]
      /\ userLock' = [userLock EXCEPT ![u] = r]
      /\ read' = [read EXCEPT ![r] = [funds |-> balances[u], missing |-> wallets[u][To[q]] = 0]]
      /\ conversionPc' = [conversionPc EXCEPT ![r] = "commit"]
      /\ UNCHANGED <<database, aged, rate, job, selected, quoteLock>>

RefuseUncovered(r) ==
  LET u == Owner[job[r]]
  IN  /\ conversionPc[r] = "user"
      /\ userLock[u] = None
      /\ balances[u][From[job[r]]] < FromAmount[job[r]]
      /\ Rollback(r)

\* "Auto-create target wallet in wallets table if missing": the insert carries
\* the walletPublicKey of the user, or a name made from user and currency if he
\* has none; and an index allows one wallet of a user with the same.
Insertable(r) ==
  LET u == Owner[job[r]]
  IN  read[r].missing =>
        IF u \in HasKey THEN u \notin keyWallet ELSE wallets[u][To[job[r]]] = 0

RefuseWallet(r) ==
  /\ conversionPc[r] = "commit"
  /\ ~Insertable(r)
  /\ Rollback(r)

\* What the owner gets: the amount without the fee at the rate of the quote.
Bought(q) == Proceeds(q, quote[q].rate)

\* The wallet, the whole balances object, the transaction with its ledger
\* entries and the quote are written, and the transaction commits.
CommitConversion(r) ==
  LET q == job[r]
      u == Owner[q]
  IN  /\ conversionPc[r] = "commit"
      /\ Insertable(r)
      /\ wallets' = [wallets EXCEPT ![u][To[q]] = IF read[r].missing THEN @ + 1 ELSE @]
      /\ keyWallet' = keyWallet \cup (IF read[r].missing THEN {u} \cap HasKey ELSE {})
      /\ balances' = [balances EXCEPT ![u] =
           [read[r].funds EXCEPT ![From[q]] = @ - FromAmount[q],
                                 ![To[q]] = @ + Bought(q)]]
      /\ executed' = [executed EXCEPT ![q] = @ + 1]
      /\ quote' = [quote EXCEPT ![q] = [status |-> "USED", used |-> TRUE, rate |-> @.rate]]
      /\ quoteLock' = [quoteLock EXCEPT ![q] = None]
      /\ userLock' = [userLock EXCEPT ![u] = None]
      /\ EndExecution(r)
      /\ UNCHANGED <<aged, rate>>

\* A statement fails, or the instance stops and the database ends its session.
FailExecution(r) ==
  \/ /\ conversionPc[r] \in {"user", "commit"}
     /\ Rollback(r)
  \/ /\ conversionPc[r] \in {"select", "update", "quote"}
     /\ EndExecution(r)
     /\ UNCHANGED <<database, aged, rate, locks>>

-----------------------------------------------------------------------------
ExecutionStep(r) ==
  \/ CheckRate(r) \/ SelectQuote(r) \/ UpdateExpired(r) \/ LockQuote(r)
  \/ LockUser(r) \/ RefuseUncovered(r) \/ RefuseWallet(r) \/ CommitConversion(r)

ConversionNext ==
  \/ \E q \in Quotes : CreateQuote(q) \/ AgeQuote(q) \/ Drift(q)
  \/ \E r \in Requests : \/ \E u \in Users, q \in Quotes : Execute(r, u, q)
                         \/ ExecutionStep(r) \/ NoRate(r) \/ FailExecution(r)

ConversionSpec == ConversionInit /\ [][ConversionNext]_conversionVars

\* Requests that are not stopped go on, and the database serves every request
\* that waits for a row lock in its turn.
FairConversionSpec == ConversionSpec /\ \A r \in Requests : SF_conversionVars(ExecutionStep(r))

-----------------------------------------------------------------------------
(***************************************************************************)
(* Properties.                                                             *)
(***************************************************************************)

\* However many requests race for a quote, and whatever stale entities are
\* saved over it meanwhile, it is executed at most once.
ExecutedAtMostOnce == \A q \in Quotes : executed[q] <= 1

\* An executed quote can never again pass the checks of executeConversion, and
\* one that says USED was executed: late saves of EXPIRED do no worse than to
\* hide the execution.
ExecutedIsSpent ==
  \A q \in Quotes :
    /\ executed[q] > 0 => ~Executable(quote[q])
    /\ quote[q].status = "USED" \/ quote[q].used => executed[q] > 0

\* A request that has ended holds no lock, however it ended; two requests in a
\* transaction hold different rows.
LocksAreHeldByTransactions ==
  /\ \A q \in Quotes : quoteLock[q] # None =>
       conversionPc[quoteLock[q]] \in {"user", "commit"} /\ job[quoteLock[q]] = q
  /\ \A u \in Users : userLock[u] # None =>
       conversionPc[userLock[u]] = "commit" /\ Owner[job[userLock[u]]] = u

\* What the API promises: ConversionPromise, read off the database.
Promise == INSTANCE ConversionPromise
  WITH Amount <- FromAmount, Funds <- FirstBalances, balance <- balances,
       locked <- [q \in Quotes |-> quote[q].rate],
       executed <- {q \in Quotes : executed[q] > 0}

ImplementsPromise == Promise!Spec

\* Every call is answered: no two transactions wait for each other for ever.
EveryCallIsAnswered == \A r \in Requests : conversionPc[r] # "idle" ~> conversionPc[r] = "idle"

=============================================================================

-------------------------- MODULE ConversionPromise --------------------------
(***************************************************************************)
(* What the conversion API promises its users: a quote locks a rate; it is *)
(* executed at most once; and an execution takes the quoted amount from    *)
(* one balance of the owner and adds what it is worth at the locked rate   *)
(* to the other, in one step, or does nothing at all.                      *)
(***************************************************************************)
EXTENDS Integers

CONSTANTS
  Quotes, Users, Currencies,
  Owner,          \* Owner[q]: who asked for the quote
  From, To,       \* From[q], To[q]: the currencies of a quote
  Amount,         \* Amount[q]: what the owner pays
  Rates,          \* the rates a quote can be made at
  Proceeds(_, _), \* Proceeds(q, r): what he gets at rate r
  Funds           \* Funds[u][c]: the balances to begin with

VARIABLES
  balance,   \* balance[u][c]: User.balances
  locked,    \* locked[q]: the rate of a quote; 0 before it is made
  executed   \* the quotes executed so far

Init ==
  /\ balance = Funds
  /\ locked = [q \in Quotes |-> 0]
  /\ executed = {}

Lock(q) ==
  /\ locked[q] = 0
  /\ \E r \in Rates : locked' = [locked EXCEPT ![q] = r]
  /\ UNCHANGED <<balance, executed>>

Moved(q) ==
  [balance EXCEPT
    ![Owner[q]][From[q]] = @ - Amount[q],
    ![Owner[q]][To[q]] = @ + Proceeds(q, locked[q])]

Execute(q) ==
  /\ locked[q] # 0
  /\ q \notin executed
  /\ balance[Owner[q]][From[q]] >= Amount[q]
  /\ balance' = Moved(q)
  /\ executed' = executed \cup {q}
  /\ UNCHANGED locked

Next == \E q \in Quotes : Lock(q) \/ Execute(q)

Spec == Init /\ [][Next]_<<balance, locked, executed>>

=============================================================================

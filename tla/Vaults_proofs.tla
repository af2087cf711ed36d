---------------------------- MODULE Vaults_proofs ----------------------------
(***************************************************************************)
(* Proofs about Vaults, for any number of vaults, users, calls and runs.   *)
(***************************************************************************)
EXTENDS Vaults, FiniteSetTheorems, TLAPS

LEMMA Defaults == NoRow \in Rows /\ Removed \in Rows /\ NoCall \in CallsOf /\ Procs = Calls \cup Jobs
<1>1. PICK v \in Vaults : v = CHOOSE x \in Vaults : TRUE
  BY VaultsAssumption
<1> QED
  BY <1>1 DEF NoRow, Removed, Rows, Withdrawn, Absent, NoCall, CallsOf, Procs

LEMMA CallVault == ASSUME NEW c \in CallsOf PROVE c.vault \in Vaults /\ Owner[c.vault] \in Users /\ c.amount \in Nat
  BY VaultsAssumption DEF CallsOf

LEMMA WorthIsNat == ASSUME NEW r \in Rows PROVE Worth(r) \in Nat
  BY DEF Rows, Worth

LEMMA InterestIsNat == ASSUME NEW r \in Rows PROVE Interest(r) \in Nat
<1>1. r.balance \in Nat /\ InterestPermille \in Nat
  BY VaultsAssumption DEF Rows
<1>2. \A a, b \in Nat : (a * b) \div 1000 \in Nat
  OBVIOUS
<1> QED
  BY <1>1, <1>2 DEF Interest

\* The penalty is never more than what it is taken from.
LEMMA PenaltyIsPart == ASSUME NEW total \in Nat PROVE Penalty(total) \in Nat /\ Penalty(total) <= total
<1>1. PenaltyPermille \in Nat /\ PenaltyPermille <= 1000
  BY VaultsAssumption
<1>2. total * PenaltyPermille \in Nat /\ total * PenaltyPermille <= total * 1000
  BY <1>1
<1>3. \A a \in Nat : a <= total * 1000 => a \div 1000 \in Nat /\ a \div 1000 <= total
  OBVIOUS
<1> QED
  BY <1>2, <1>3 DEF Penalty

LEMMA SavedType == ASSUME NEW r \in Rows, NEW op PROVE Saved(op, r) \in Rows
<1>1. Worth(r) \in Nat /\ Interest(r) \in Nat
  BY WorthIsNat, InterestIsNat
<1> QED
  BY <1>1 DEF Saved, Rows

LEMMA WrittenType ==
  ASSUME NEW entity \in Rows, NEW before \in Rows, NEW now \in Rows
  PROVE  /\ Written(entity, before, now) \in Rows
         /\ Written(entity, before, now).status \in {entity.status, now.status}
<1>1. CASE before.status \in Absent \/ now.status \in Absent
  BY <1>1 DEF Written
<1>2. CASE ~ (before.status \in Absent \/ now.status \in Absent)
  BY <1>2 DEF Written, Rows
<1> QED
  BY <1>1, <1>2

LEMMA DoneType ==
  ASSUME TypeOK, NEW p \in Procs, Done(p)
  PROVE  /\ pc' \in [Procs -> {"idle", "user", "transact", "remove", "select", "update"}]
         /\ call' \in [Procs -> CallsOf]
         /\ known' \in [Procs -> [wallet : Int, early : BOOLEAN]]
         /\ found' \in [Procs -> Rows]
         /\ seen' \in [Procs -> Rows]
  BY Defaults DEF Done, Goto, TypeOK, Nothing

LEMMA StartType ==
  ASSUME TypeOK, NEW p \in Procs, NEW op \in {"deposit", "withdraw", "delete", "accrue", "mature"},
         NEW v \in Vaults, NEW a \in Nat, NEW s \in {"user", "remove", "select"}, Start(p, op, v, a, s)
  PROVE  /\ pc' \in [Procs -> {"idle", "user", "transact", "remove", "select", "update"}]
         /\ call' \in [Procs -> CallsOf]
  BY DEF Start, Goto, TypeOK, CallsOf

\* A row that is put in its place, and sums that are added to.
LEMMA PutRow ==
  ASSUME TypeOK, NEW v, NEW r \in Rows, row' = [row EXCEPT ![v] = r]
  PROVE  row' \in [Vaults -> Rows]
  BY DEF TypeOK

LEMMA AddSum ==
  ASSUME TypeOK, NEW n \in Nat,
         \/ sums' = [sums EXCEPT !.interest = @ + n]
         \/ sums' = [sums EXCEPT !.penalty = @ + n]
         \/ sums' = [sums EXCEPT !.deleted = @ + n]
         \/ sums' = sums
  PROVE  sums' \in [interest : Nat, penalty : Nat, deleted : Nat]
<1>0. sums \in [interest : Nat, penalty : Nat, deleted : Nat]
  BY DEF TypeOK
<1>1. CASE sums' = [sums EXCEPT !.interest = @ + n]
  BY <1>0, <1>1
<1>2. CASE sums' = [sums EXCEPT !.penalty = @ + n]
  BY <1>0, <1>2
<1>3. CASE sums' = [sums EXCEPT !.deleted = @ + n]
  BY <1>0, <1>3
<1> QED
  BY <1>0, <1>1, <1>2, <1>3

LEMMA TypeInit == Init => TypeOK
<1> SUFFICES ASSUME Init PROVE TypeOK
  OBVIOUS
<1>1. wallet \in [Users -> Int] /\ unlocked \subseteq Vaults
  BY VaultsAssumption DEF Init
<1>2. requests \in 0 .. MaxRequests /\ ticks \in 0 .. MaxTicks /\ faults \in 0 .. MaxFaults
  BY VaultsAssumption DEF Init
<1>3. row \in [Vaults -> Rows] /\ todo \in [Jobs -> [Vaults -> Rows]]
  BY Defaults DEF Init
<1>4. found \in [Procs -> Rows] /\ seen \in [Procs -> Rows] /\ call \in [Procs -> CallsOf]
  BY Defaults DEF Init
<1>5. known \in [Procs -> [wallet : Int, early : BOOLEAN]] /\ kind \in [Jobs -> AllKinds]
  BY DEF Init, Nothing, AllKinds
<1>6. sums \in [interest : Nat, penalty : Nat, deleted : Nat]
  BY DEF Init
<1> QED
  BY <1>1, <1>2, <1>3, <1>4, <1>5, <1>6 DEF Init, TypeOK

-----------------------------------------------------------------------------
LEMMA TypeStep == TypeOK /\ [Next]_vars => TypeOK'
<1> SUFFICES ASSUME TypeOK, [Next]_vars PROVE TypeOK'
  OBVIOUS
<1> USE DEF counters, bounds, run, work
<1>1. ASSUME NEW v \in Vaults, Create(v) \/ Unlock(v) PROVE TypeOK'
  <2>1. CASE Create(v)
    <3>1. row' \in [Vaults -> Rows]
      <4>1. [row[v] EXCEPT !.status = "ACTIVE"] \in Rows
        <5>1. row[v] \in Rows
          BY DEF TypeOK
        <5>2. "ACTIVE" \in {"ACTIVE", "MATURED"} \cup Withdrawn \cup Absent
          OBVIOUS
        <5> QED
          BY <5>1, <5>2 DEF Rows
      <4> QED
        BY <2>1, <4>1 DEF Create, TypeOK
    <3> QED
      BY <2>1, <3>1 DEF Create, TypeOK
  <2>2. CASE Unlock(v)
    <3>1. unlocked' \subseteq Vaults
      BY <2>2 DEF Unlock, TypeOK
    <3>2. UNCHANGED <<row, wallet, pc, call, work, counters, bounds>>
      BY <2>2 DEF Unlock
    <3> QED
      BY <3>1, <3>2, SMTT(20) DEF TypeOK
  <2> QED
    BY <1>1, <2>1, <2>2
<1>2. ASSUME NEW p \in Calls, NEW v \in Vaults, Request(p, v) PROVE TypeOK'
  <2>1. PICK op \in {"deposit", "withdraw", "delete"}, a \in Nat, s \in {"user", "remove"} :
           Start(p, op, v, a, s)
    BY <1>2, VaultsAssumption, Zenon DEF Request
  <2>2. p \in Procs
    BY DEF Procs
  <2>3. requests' \in 0 .. MaxRequests
    BY <1>2, VaultsAssumption DEF Request, TypeOK
  <2>4. UNCHANGED <<row, unlocked, wallet, known, counters, faults, run, found, seen, ticks>>
    BY <1>2, <2>1 DEF Request, Start
  <2> QED
    BY <2>1, <2>2, <2>3, <2>4, StartType DEF TypeOK
<1>3. ASSUME NEW p \in Procs, Step(p) PROVE TypeOK'
  <2> DEFINE c == call[p]
             v == c.vault
  <2>0. c \in CallsOf /\ v \in Vaults /\ Owner[v] \in Users /\ c.amount \in Nat /\ row[v] \in Rows
    BY CallVault DEF TypeOK
  <2>1. CASE ReadUser(p)
    <3>1. CASE Done(p)
      BY <2>1, <3>1, DoneType DEF ReadUser, TypeOK
    <3>2. CASE ~ Done(p)
      <4>1. wallet[Owner[v]] \in Int
        BY <2>0 DEF TypeOK
      <4>2. /\ known' = [known EXCEPT ![p] = [wallet |-> wallet[Owner[v]], early |-> v \notin unlocked]]
            /\ Goto(p, "transact")
            /\ UNCHANGED <<call, found, seen>>
        BY <2>1, <3>2, Zenon DEF ReadUser
      <4>3. known' \in [Procs -> [wallet : Int, early : BOOLEAN]]
        BY <4>1, <4>2 DEF TypeOK
      <4> QED
        BY <2>1, <4>2, <4>3 DEF ReadUser, Goto, TypeOK
    <3> QED
      BY <3>1, <3>2
  <2>w. ASSUME NEW change \in Int, WriteWallet(p, change)
        PROVE  wallet' \in [Users -> Int] /\ stale' \in BOOLEAN
    BY <2>0, <2>w DEF WriteWallet, TypeOK
  <2>2. CASE Deposit(p)
    <3>1. row' \in [Vaults -> Rows] /\ late' \in [Vaults -> BOOLEAN]
      <4>1. [row[v] EXCEPT !.balance = @ + c.amount] \in Rows
        BY <2>0 DEF Rows
      <4> QED
        BY <2>0, <2>2, <4>1 DEF Deposit, TypeOK
    <3>2. wallet' \in [Users -> Int] /\ stale' \in BOOLEAN
      BY <2>0, <2>2, <2>w DEF Deposit, TypeOK
    <3> HIDE DEF c, v
    <3> QED
      BY <2>2, <3>1, <3>2, DoneType DEF Deposit, TypeOK
  <2>3. CASE Withdraw(p)
    <3> DEFINE penalty == IF known[p].early THEN Penalty(Worth(row[v])) ELSE 0
    <3>1. Worth(row[v]) \in Nat /\ penalty \in Nat
      BY <2>0, WorthIsNat, PenaltyIsPart
    <3>2. /\ Emptied(row[v], known[p].early) \in Rows
          /\ row' \in [Vaults -> Rows]
          /\ payouts' \in [Vaults -> Nat]
          /\ sums' \in [interest : Nat, penalty : Nat, deleted : Nat]
      <4>1. Emptied(row[v], known[p].early) \in Rows
        BY DEF Emptied, Rows, Withdrawn
      <4>2. CASE Withdrawable(v)
        <5>1. /\ row' = [row EXCEPT ![v] = Emptied(row[v], known[p].early)]
              /\ payouts' = [payouts EXCEPT ![v] = @ + 1]
              /\ sums' = [sums EXCEPT !.penalty = @ + penalty]
          BY <2>3, <4>2 DEF Withdraw
        <5> HIDE DEF penalty
        <5>2. payouts' \in [Vaults -> Nat]
          BY <5>1, <2>0 DEF TypeOK
        <5> QED
          BY <3>1, <4>1, <5>1, <5>2, PutRow, AddSum
      <4>3. CASE ~ Withdrawable(v)
        <5>1. UNCHANGED <<row, payouts, sums>>
          BY <2>3, <4>3, Zenon DEF Withdraw
        <5> QED
          BY <4>1, <5>1 DEF TypeOK
      <4> QED
        BY <4>1, <4>2, <4>3
    <3>3. wallet' \in [Users -> Int] /\ stale' \in BOOLEAN
      <4>1. CASE Withdrawable(v)
        <5>1. WriteWallet(p, Worth(row[v]) - penalty)
          BY <2>3, <4>1 DEF Withdraw
        <5> HIDE DEF penalty
        <5> QED
          BY <3>1, <5>1, <2>w
      <4>2. CASE ~ Withdrawable(v)
        BY <2>3, <4>2 DEF Withdraw, TypeOK
      <4> QED
        BY <4>1, <4>2
    <3> HIDE DEF c, v
    <3> QED
      BY <2>3, <3>2, <3>3, DoneType DEF Withdraw, TypeOK
  <2>4. CASE Remove(p)
    <3>1. Worth(row[v]) \in Nat
      BY <2>0, WorthIsNat
    <3>2. sums' \in [interest : Nat, penalty : Nat, deleted : Nat] /\ row' \in [Vaults -> Rows]
      BY <2>4, <3>1, Defaults, PutRow, AddSum DEF Remove
    <3> QED
      BY <2>4, <3>2, DoneType DEF Remove, TypeOK
  <2> QED
    BY <1>3, <2>1, <2>2, <2>3, <2>4 DEF Step
<1>4. ASSUME NEW j \in Jobs, NEW k \in Kinds[j], Find(j, k) PROVE TypeOK'
  <2>1. k \in AllKinds /\ ticks' \in 0 .. MaxTicks
    <3>1. k \in AllKinds
      BY VaultsAssumption
    <3>2. ticks' = ticks \/ (ticks < MaxTicks /\ ticks' = ticks + 1)
      BY <1>4 DEF Find
    <3> QED
      BY <3>1, <3>2, VaultsAssumption DEF TypeOK
  <2>2. [v \in Vaults |-> IF Wanted(k, v) THEN row[v] ELSE NoRow] \in [Vaults -> Rows]
    BY Defaults DEF TypeOK
  <2> QED
    BY <1>4, <2>1, <2>2 DEF Find, TypeOK
<1>5. ASSUME NEW j \in Jobs, NEW v \in Vaults, Take(j, v) PROVE TypeOK'
  <2>0. j \in Procs /\ AutoAmount[v] \in Nat /\ todo[j][v] \in Rows
    BY Defaults, VaultsAssumption DEF TypeOK
  <2>1. todo' \in [Jobs -> [Vaults -> Rows]]
    BY <1>5, Defaults DEF Take, TypeOK
  <2>2. UNCHANGED <<row, unlocked, wallet, known, counters, faults, kind, seen, requests, ticks>>
    BY <1>5 DEF Take, Start
  <2>3. CASE kind[j] = "auto"
    <3>1. Start(j, "deposit", v, AutoAmount[v], "user") /\ found' = found
      BY <1>5, <2>3 DEF Take
    <3> QED
      BY <2>0, <2>1, <2>2, <3>1, StartType DEF TypeOK
  <2>4. CASE kind[j] # "auto"
    <3>1. \/ UNCHANGED <<pc, call, found>>
          \/ Start(j, kind[j], v, 0, "select") /\ found' = [found EXCEPT ![j] = todo[j][v]]
      BY <1>5, <2>4 DEF Take
    <3>2. kind[j] \in {"accrue", "mature"}
      BY <2>4 DEF TypeOK, AllKinds
    <3>3. CASE UNCHANGED <<pc, call, found>>
      BY <2>1, <2>2, <3>3 DEF TypeOK
    <3>4. CASE Start(j, kind[j], v, 0, "select") /\ found' = [found EXCEPT ![j] = todo[j][v]]
      <4>1. found' \in [Procs -> Rows]
        BY <2>0, <3>4 DEF TypeOK
      <4> QED
        BY <2>0, <2>1, <2>2, <3>2, <3>4, <4>1, StartType DEF TypeOK
    <3> QED
      BY <3>1, <3>3, <3>4
  <2> QED
    BY <2>3, <2>4
<1>6. ASSUME NEW j \in Jobs, SelectRow(j) PROVE TypeOK'
  BY <1>6, CallVault, Defaults DEF SelectRow, Goto, TypeOK
<1>7. ASSUME NEW j \in Jobs, UpdateRow(j) PROVE TypeOK'
  <2> DEFINE v == call[j].vault
             new == Written(Saved(call[j].op, found[j]), seen[j], row[v])
  <2>0. j \in Procs /\ v \in Vaults /\ found[j] \in Rows /\ seen[j] \in Rows /\ row[v] \in Rows
    BY CallVault, Defaults DEF TypeOK
  <2>1. new \in Rows /\ Interest(found[j]) \in Nat
    BY <2>0, SavedType, WrittenType, InterestIsNat
  <2> HIDE DEF new
  <2>2. /\ row' \in [Vaults -> Rows]
        /\ stale' \in BOOLEAN
        /\ revived' \in [Vaults -> Nat]
        /\ sums' \in [interest : Nat, penalty : Nat, deleted : Nat]
    <3>1. row' = [row EXCEPT ![v] = new]
      BY <1>7 DEF UpdateRow, new
    <3>2. sums' = [sums EXCEPT !.interest = @ + Interest(found[j])] \/ sums' = sums
      <4>1. sums' = [sums EXCEPT !.interest = IF call[j].op = "accrue" THEN @ + Interest(found[j]) ELSE @]
        BY <1>7 DEF UpdateRow
      <4>2. CASE call[j].op = "accrue"
        BY <4>1, <4>2
      <4>3. CASE call[j].op # "accrue"
        BY <4>1, <4>3 DEF TypeOK
      <4> QED
        BY <4>2, <4>3
    <3>3. /\ stale' = (stale \/ row[v] # found[j] \/ seen[j] # found[j])
          /\ revived' \in [Vaults -> Nat]
      <4>1. \E n \in {revived[v], revived[v] + 1} : revived' = [revived EXCEPT ![v] = n]
        BY <1>7 DEF UpdateRow
      <4>2. revived[v] \in Nat /\ revived[v] + 1 \in Nat
        BY <2>0 DEF TypeOK
      <4> QED
        BY <1>7, <4>1, <4>2 DEF UpdateRow, TypeOK
    <3> QED
      BY <2>1, <3>1, <3>2, <3>3, PutRow, AddSum DEF TypeOK
  <2> QED
    BY <1>7, <2>0, <2>2, DoneType DEF UpdateRow, TypeOK
<1>8. ASSUME NEW p \in Procs, Fail(p) PROVE TypeOK'
  <2>1. faults' \in 0 .. MaxFaults
    BY <1>8, VaultsAssumption DEF Fail, TypeOK
  <2> QED
    BY <1>8, <2>1, DoneType DEF Fail, TypeOK
<1>9. CASE UNCHANGED vars
  BY <1>9 DEF vars, TypeOK
<1> QED
  BY <1>1, <1>2, <1>3, <1>4, <1>5, <1>6, <1>7, <1>8, <1>9, Defaults DEF Next, JobStep

\* Every variable has values of its type, for any number of vaults and failures.
THEOREM TypeCorrect == Spec => []TypeOK
<1> QED
  BY TypeInit, TypeStep, PTL DEF Spec

-----------------------------------------------------------------------------
\* What a transaction has read covers what it takes.
KnownIsEnough ==
  \A p \in Procs : pc[p] = "transact" =>
    /\ known[p].wallet >= 0
    /\ call[p].op = "deposit" => call[p].amount <= known[p].wallet

MoneyInv == TypeOK /\ KnownIsEnough /\ NoOverdraft

LEMMA MoneyInit == Init => MoneyInv
<1> SUFFICES ASSUME Init PROVE MoneyInv
  OBVIOUS
<1>1. KnownIsEnough
  BY DEF Init, KnownIsEnough
<1>2. NoOverdraft
  BY VaultsAssumption DEF Init, NoOverdraft
<1> QED
  BY <1>1, <1>2, TypeInit DEF MoneyInv

\* A step that brings nobody into a transaction, and changes nobody's call there,
\* keeps what transactions know true.
LEMMA KnownFrame ==
  ASSUME TypeOK, KnownIsEnough, NEW p \in Procs, pc'[p] # "transact",
         \A q \in Procs \ {p} : UNCHANGED <<pc[q], known[q], call[q]>>
  PROVE  KnownIsEnough'
  BY DEF KnownIsEnough

\* What a step does to the processes.
Frame(p) ==
  /\ pc'[p] # "transact"
  /\ \A q \in Procs \ {p} : UNCHANGED <<pc[q], known[q], call[q]>>

LEMMA DoneFrame == ASSUME TypeOK, NEW p \in Procs, Done(p) PROVE Frame(p)
  BY DEF Done, Goto, Frame, TypeOK

LEMMA StartFrame ==
  ASSUME TypeOK, NEW p \in Procs, NEW op, NEW v, NEW a, NEW s, s # "transact", Start(p, op, v, a, s)
  PROVE  Frame(p) /\ wallet' = wallet
  BY DEF Start, Goto, Frame, TypeOK

LEMMA MoneyStep == MoneyInv /\ [Next]_vars => KnownIsEnough' /\ NoOverdraft'
<1> SUFFICES ASSUME MoneyInv, [Next]_vars PROVE KnownIsEnough' /\ NoOverdraft'
  OBVIOUS
<1> USE DEF counters, bounds, run, work
<1>0. TypeOK /\ KnownIsEnough /\ NoOverdraft
  BY DEF MoneyInv
<1>a. wallet' = wallet => NoOverdraft'
  BY <1>0 DEF NoOverdraft
<1>b. UNCHANGED <<pc, call, known>> => KnownIsEnough'
  BY <1>0 DEF KnownIsEnough
<1>c. ASSUME NEW p \in Procs, Frame(p) PROVE KnownIsEnough'
  BY <1>0, <1>c, KnownFrame DEF Frame
<1>1. ASSUME NEW v \in Vaults, Create(v) \/ Unlock(v) PROVE KnownIsEnough' /\ NoOverdraft'
  BY <1>1, <1>a, <1>b DEF Create, Unlock
<1>2. ASSUME NEW p \in Calls, NEW v \in Vaults, Request(p, v) PROVE KnownIsEnough' /\ NoOverdraft'
  <2>1. PICK op, a, s : s \in {"user", "remove"} /\ Start(p, op, v, a, s)
    BY <1>2, Zenon DEF Request
  <2> QED
    BY <2>1, <1>0, <1>a, <1>c, StartFrame, Defaults
<1>3. ASSUME NEW p \in Procs, ReadUser(p) PROVE KnownIsEnough' /\ NoOverdraft'
  <2> DEFINE u == Owner[call[p].vault]
  <2>1. wallet' = wallet
    BY <1>3 DEF ReadUser
  <2>2. CASE Done(p)
    BY <2>1, <2>2, <1>0, <1>a, <1>c, DoneFrame
  <2>3. CASE ~ Done(p)
    <3>1. /\ Covered(call[p])
          /\ known' = [known EXCEPT ![p] = [wallet |-> wallet[u], early |-> call[p].vault \notin unlocked]]
          /\ Goto(p, "transact")
          /\ call' = call
      BY <1>3, <2>3, Zenon DEF ReadUser
    <3>2. wallet[u] >= 0 /\ wallet[u] \in Int /\ call[p].amount \in Nat
      BY <1>0, CallVault DEF NoOverdraft, TypeOK
    <3>3. known'[p].wallet = wallet[u]
      BY <1>0, <3>1 DEF TypeOK
    <3>4. call[p].op = "deposit" => call[p].amount <= wallet[u]
      BY <3>1, <3>2 DEF Covered
    <3>5. \A q \in Procs \ {p} : UNCHANGED <<pc[q], known[q]>>
      BY <1>0, <3>1 DEF Goto, TypeOK
    <3>6. KnownIsEnough'
      BY <1>0, <3>1, <3>2, <3>3, <3>4, <3>5 DEF KnownIsEnough
    <3> QED
      BY <3>6, <2>1, <1>a
  <2> QED
    BY <2>2, <2>3
<1>4. ASSUME NEW p \in Procs, Deposit(p) \/ Withdraw(p) PROVE KnownIsEnough' /\ NoOverdraft'
  <2> DEFINE c == call[p]
             u == Owner[c.vault]
             penalty == IF known[p].early THEN Penalty(Worth(row[c.vault])) ELSE 0
  <2>1. Done(p) /\ pc[p] = "transact"
    BY <1>4 DEF Deposit, Withdraw
  <2>2. KnownIsEnough'
    BY <1>0, <1>c, <2>1, DoneFrame
  <2>3. /\ c \in CallsOf /\ c.vault \in Vaults /\ u \in Users /\ c.amount \in Nat
        /\ known[p].wallet \in Int /\ known[p].wallet >= 0
    BY <1>0, <2>1, CallVault DEF TypeOK, KnownIsEnough
  <2>4. ASSUME NEW change \in Int, known[p].wallet + change >= 0, WriteWallet(p, change)
        PROVE  NoOverdraft'
    <3>1. wallet' = [wallet EXCEPT ![u] = known[p].wallet + change]
      BY <2>4 DEF WriteWallet
    <3> HIDE DEF u
    <3> QED
      BY <1>0, <3>1, <2>3, <2>4 DEF NoOverdraft, TypeOK
  <2>5. CASE Deposit(p)
    <3>1. wallet' = wallet \/ WriteWallet(p, - c.amount)
      BY <2>5, Zenon DEF Deposit
    <3>2. c.op = "deposit"
      BY <2>5 DEF Deposit
    <3>3. c.amount <= known[p].wallet
      BY <1>0, <2>1, <3>2 DEF KnownIsEnough
    <3>4. - c.amount \in Int /\ known[p].wallet + (- c.amount) >= 0
      BY <2>3, <3>3
    <3>5. CASE wallet' = wallet
      BY <3>5, <2>2, <1>a
    <3>6. CASE WriteWallet(p, - c.amount)
      BY <3>4, <3>6, <2>2, <2>4
    <3> QED
      BY <3>1, <3>5, <3>6
  <2>6. CASE Withdraw(p)
    <3>1. wallet' = wallet \/ WriteWallet(p, Worth(row[c.vault]) - penalty)
      BY <2>6, Zenon DEF Withdraw
    <3>2. Worth(row[c.vault]) \in Nat
      BY <1>0, <2>3, WorthIsNat DEF TypeOK
    <3>3. penalty \in Nat /\ penalty <= Worth(row[c.vault])
      BY <3>2, PenaltyIsPart
    <3> DEFINE change == Worth(row[c.vault]) - penalty
    <3>4. change \in Int /\ known[p].wallet + change >= 0
      BY <3>2, <3>3, <2>3
    <3>5. wallet' = wallet \/ WriteWallet(p, change)
      BY <3>1
    <3>6. CASE wallet' = wallet
      BY <3>6, <2>2, <1>a
    <3>7. CASE WriteWallet(p, change)
      <4> HIDE DEF change
      <4> QED
        BY <3>4, <3>7, <2>2, <2>4
    <3> QED
      BY <3>5, <3>6, <3>7
  <2> QED
    BY <1>4, <2>2, <2>5, <2>6
<1>5. ASSUME NEW p \in Procs, Remove(p) \/ Fail(p) \/ UpdateRow(p) PROVE KnownIsEnough' /\ NoOverdraft'
  <2>1. Done(p) /\ wallet' = wallet
    BY <1>5 DEF Remove, Fail, UpdateRow
  <2> QED
    BY <2>1, <1>0, <1>a, <1>c, DoneFrame
<1>6. ASSUME NEW j \in Jobs, NEW k, Find(j, k) PROVE KnownIsEnough' /\ NoOverdraft'
  BY <1>6, <1>a, <1>b DEF Find
<1>7. ASSUME NEW j \in Jobs, NEW v \in Vaults, Take(j, v) PROVE KnownIsEnough' /\ NoOverdraft'
  <2>1. \/ UNCHANGED <<pc, call, known, wallet>>
        \/ \E op, a, s : s \in {"user", "select"} /\ Start(j, op, v, a, s)
    BY <1>7, Zenon DEF Take
  <2> QED
    BY <2>1, <1>0, <1>a, <1>b, <1>c, StartFrame, Defaults
<1>8. ASSUME NEW j \in Jobs, SelectRow(j) PROVE KnownIsEnough' /\ NoOverdraft'
  <2>1. wallet' = wallet /\ Frame(j)
    BY <1>8, <1>0 DEF SelectRow, Goto, Frame, TypeOK
  <2> QED
    BY <2>1, <1>a, <1>c, Defaults
<1>9. CASE UNCHANGED vars
  BY <1>9, <1>a, <1>b DEF vars
<1> QED
  BY <1>1, <1>2, <1>3, <1>4, <1>5, <1>6, <1>7, <1>8, <1>9, Defaults DEF Next, JobStep, Step

\* However calls and jobs overlap, no wallet falls below zero: what is written is
\* computed from what was read, which covered it.
THEOREM WalletsAreNeverOverdrawn == Spec => []NoOverdraft
<1>1. MoneyInv /\ [Next]_vars => MoneyInv'
  BY MoneyStep, TypeStep DEF MoneyInv
<1>2. MoneyInv => NoOverdraft
  BY DEF MoneyInv
<1> QED
  BY MoneyInit, <1>1, <1>2, PTL DEF Spec

-----------------------------------------------------------------------------
\* What a job has found, and what it saves, was ACTIVE when it found it.
FoundIsActive ==
  /\ \A j \in Jobs : pc[j] \in {"select", "update"} => found[j].status = "ACTIVE"
  /\ \A j \in Jobs, v \in Vaults : todo[j][v] # NoRow => todo[j][v].status = "ACTIVE"

\* A life of a vault ends with a withdrawal, and a late save starts a new one.
Lives(v) ==
  /\ Live(row[v]) \/ row[v].status = "NONE" => payouts[v] <= revived[v]
  /\ payouts[v] <= 1 + revived[v]

LifeInv == TypeOK /\ FoundIsActive /\ WithdrawnIsEmpty /\ \A v \in Vaults : Lives(v)

LEMMA LifeInit == Init => LifeInv
<1> SUFFICES ASSUME Init PROVE LifeInv
  OBVIOUS
<1>1. FoundIsActive
  BY Defaults DEF Init, FoundIsActive
<1>2. WithdrawnIsEmpty
  BY DEF Init, WithdrawnIsEmpty, NoRow, Withdrawn
<1>3. \A v \in Vaults : Lives(v)
  BY DEF Init, Lives
<1> QED
  BY <1>1, <1>2, <1>3, TypeInit DEF LifeInv

LEMMA FoundStep == LifeInv /\ [Next]_vars => FoundIsActive'
<1> SUFFICES ASSUME LifeInv, [Next]_vars PROVE FoundIsActive'
  OBVIOUS
<1> USE DEF counters, bounds, run, work
<1>0. TypeOK /\ FoundIsActive
  BY DEF LifeInv
<1>a. ASSUME NEW p \in Procs, todo' = todo, pc'[p] \notin {"select", "update"},
             \A q \in Procs \ {p} : UNCHANGED <<pc[q], found[q]>>
      PROVE  FoundIsActive'
  BY <1>0, <1>a, Defaults DEF FoundIsActive
<1>b. UNCHANGED <<pc, found, todo>> => FoundIsActive'
  BY <1>0 DEF FoundIsActive
<1>c. ASSUME NEW p \in Procs, Done(p), todo' = todo PROVE FoundIsActive'
  <2>1. pc'[p] = "idle" /\ \A q \in Procs \ {p} : UNCHANGED <<pc[q], found[q]>>
    BY <1>0, <1>c DEF Done, Goto, TypeOK
  <2> QED
    BY <2>1, <1>a, <1>c
<1>1. ASSUME NEW v \in Vaults, Create(v) \/ Unlock(v) PROVE FoundIsActive'
  BY <1>1, <1>b DEF Create, Unlock
<1>2. ASSUME NEW p \in Calls, NEW v \in Vaults, Request(p, v) PROVE FoundIsActive'
  <2>1. PICK op, a, s : s \in {"user", "remove"} /\ Start(p, op, v, a, s)
    BY <1>2, Zenon DEF Request
  <2>2. UNCHANGED <<todo, found>>
    BY <1>2 DEF Request
  <2>3. pc' = [pc EXCEPT ![p] = s]
    BY <2>1 DEF Start, Goto
  <2> QED
    BY <2>1, <2>2, <2>3, <1>0, <1>a, Defaults DEF TypeOK
<1>3. ASSUME NEW p \in Procs, ReadUser(p) PROVE FoundIsActive'
  <2>1. CASE Done(p)
    BY <1>3, <2>1, <1>c DEF ReadUser
  <2>2. CASE ~ Done(p)
    <3>1. Goto(p, "transact") /\ UNCHANGED <<found, todo>>
      BY <1>3, <2>2, Zenon DEF ReadUser
    <3> QED
      BY <3>1, <1>0, <1>a DEF Goto, TypeOK
  <2> QED
    BY <2>1, <2>2
<1>4. ASSUME NEW p \in Procs, Deposit(p) \/ Withdraw(p) \/ Remove(p) \/ Fail(p) \/ UpdateRow(p)
      PROVE  FoundIsActive'
  <2>1. Done(p) /\ todo' = todo
    BY <1>4 DEF Deposit, Withdraw, Remove, Fail, UpdateRow
  <2> QED
    BY <2>1, <1>c
<1>5. ASSUME NEW j \in Jobs, NEW k, Find(j, k) PROVE FoundIsActive'
  <2>1. UNCHANGED <<pc, found>>
    BY <1>5 DEF Find
  <2>2. todo' = [todo EXCEPT ![j] = [v \in Vaults |-> IF Wanted(k, v) THEN row[v] ELSE NoRow]]
    BY <1>5 DEF Find
  <2>3. \A v \in Vaults : Wanted(k, v) => row[v].status = "ACTIVE"
    BY DEF Wanted
  <2> QED
    BY <1>0, <2>1, <2>2, <2>3 DEF FoundIsActive, TypeOK
<1>6. ASSUME NEW j \in Jobs, NEW v \in Vaults, Take(j, v) PROVE FoundIsActive'
  <2>1. todo[j][v] # NoRow /\ todo' = [todo EXCEPT ![j][v] = NoRow]
    BY <1>6 DEF Take
  <2>2. \A i \in Jobs, w \in Vaults : todo'[i][w] # NoRow => todo'[i][w] = todo[i][w]
    BY <1>0, <2>1 DEF TypeOK
  <2>3. \/ UNCHANGED <<pc, found>>
        \/ found' = found /\ \E op, a : Start(j, op, v, a, "user")
        \/ found' = [found EXCEPT ![j] = todo[j][v]] /\ \E op, a : Start(j, op, v, a, "select")
    BY <1>6, Zenon DEF Take
  <2>4. CASE UNCHANGED <<pc, found>>
    BY <1>0, <2>2, <2>4 DEF FoundIsActive
  <2>5. CASE found' = found /\ \E op, a : Start(j, op, v, a, "user")
    BY <1>0, <2>2, <2>5, Defaults DEF FoundIsActive, Start, Goto, TypeOK
  <2>6. CASE found' = [found EXCEPT ![j] = todo[j][v]] /\ \E op, a : Start(j, op, v, a, "select")
    <3>1. todo[j][v].status = "ACTIVE"
      BY <1>0, <2>1 DEF FoundIsActive
    <3> QED
      BY <1>0, <2>2, <2>6, <3>1, Defaults DEF FoundIsActive, Start, Goto, TypeOK
  <2> QED
    BY <2>3, <2>4, <2>5, <2>6
<1>7. ASSUME NEW j \in Jobs, SelectRow(j) PROVE FoundIsActive'
  BY <1>0, <1>7, Defaults DEF SelectRow, Goto, FoundIsActive, TypeOK
<1>8. CASE UNCHANGED vars
  BY <1>8, <1>b DEF vars
<1> QED
  BY <1>1, <1>2, <1>3, <1>4, <1>5, <1>6, <1>7, <1>8, Defaults DEF Next, JobStep, Step

Empty(v) == row[v].status \in Withdrawn /\ ~ stale => Worth(row[v]) = 0 \/ late[v]

\* A step that touches one vault at most.
LEMMA LifeFrame ==
  ASSUME LifeInv, NEW w \in Vaults, stale => stale',
         \A v \in Vaults \ {w} : UNCHANGED <<row[v], payouts[v], revived[v], late[v]>>,
         Lives(w)', Empty(w)'
  PROVE  WithdrawnIsEmpty' /\ \A v \in Vaults : Lives(v)'
<1>1. ASSUME NEW v \in Vaults, v # w PROVE Lives(v)' /\ Empty(v)'
  <2>1. Lives(v) /\ Empty(v)
    BY DEF LifeInv, WithdrawnIsEmpty, Empty
  <2>2. UNCHANGED <<row[v], payouts[v], revived[v], late[v]>>
    BY <1>1
  <2> QED
    BY <2>1, <2>2 DEF Lives, Empty
<1> QED
  BY <1>1 DEF WithdrawnIsEmpty, Empty

LEMMA LifeStep == LifeInv /\ [Next]_vars => WithdrawnIsEmpty' /\ \A v \in Vaults : Lives(v)'
<1> SUFFICES ASSUME LifeInv, [Next]_vars PROVE WithdrawnIsEmpty' /\ \A v \in Vaults : Lives(v)'
  OBVIOUS
<1> USE DEF counters, bounds, run, work
<1>0. TypeOK /\ FoundIsActive /\ \A v \in Vaults : Lives(v) /\ Empty(v)
  BY DEF LifeInv, WithdrawnIsEmpty, Empty
<1>a. UNCHANGED <<row, payouts, revived, late, stale>> => WithdrawnIsEmpty' /\ \A v \in Vaults : Lives(v)'
  BY <1>0 DEF WithdrawnIsEmpty, Lives, Empty
<1>1. ASSUME NEW v \in Vaults, Create(v) PROVE WithdrawnIsEmpty' /\ \A x \in Vaults : Lives(x)'
  <2>1. row[v].status = "NONE" /\ row' = [row EXCEPT ![v].status = "ACTIVE"]
    BY <1>1 DEF Create
  <2>2. UNCHANGED <<payouts, revived, late, stale>>
    BY <1>1 DEF Create
  <2>3. row'[v].status = "ACTIVE" /\ \A x \in Vaults \ {v} : row'[x] = row[x]
    BY <1>0, <2>1 DEF TypeOK, Rows
  <2>4. Lives(v)' /\ Empty(v)'
    BY <1>0, <2>1, <2>2, <2>3 DEF Lives, Empty, Withdrawn
  <2> QED
    BY <2>2, <2>3, <2>4, LifeFrame
<1>2. ASSUME NEW p \in Procs, Deposit(p) PROVE WithdrawnIsEmpty' /\ \A x \in Vaults : Lives(x)'
  <2>1. PICK v \in Vaults : v = call[p].vault /\ call[p].amount \in Nat
    BY <1>0, CallVault DEF TypeOK
  <2>2. UNCHANGED <<payouts, revived>>
    BY <1>2 DEF Deposit
  <2>3. CASE row[v].status \in Absent
    <3>1. UNCHANGED <<row, late, stale>>
      BY <2>1, <1>2, <2>3, Zenon DEF Deposit
    <3> QED
      BY <2>2, <3>1, <1>a
  <2>4. CASE row[v].status \notin Absent
    <3>1. /\ row' = [row EXCEPT ![v].balance = @ + call[p].amount]
          /\ late' = [late EXCEPT ![v] = @ \/ row[v].status \in Withdrawn]
          /\ stale => stale'
      BY <2>1, <1>2, <2>4 DEF Deposit, WriteWallet
    <3>2. row'[v].status = row[v].status /\ \A x \in Vaults \ {v} : row'[x] = row[x] /\ late'[x] = late[x]
      BY <1>0, <2>1, <3>1 DEF TypeOK, Rows
    <3>3. row[v].status \in Withdrawn => late'[v]
      BY <1>0, <2>1, <3>1 DEF TypeOK
    <3>4. Lives(v)' /\ Empty(v)'
      BY <1>0, <2>1, <2>2, <3>2, <3>3 DEF Lives, Empty, Live
    <3> QED
      BY <2>1, <2>2, <3>1, <3>2, <3>4, LifeFrame
  <2> QED
    BY <2>3, <2>4
<1>3. ASSUME NEW p \in Procs, Withdraw(p) PROVE WithdrawnIsEmpty' /\ \A x \in Vaults : Lives(x)'
  <2>1. PICK v \in Vaults : v = call[p].vault
    BY <1>0, CallVault DEF TypeOK
  <2>2. UNCHANGED <<revived, late>>
    BY <1>3 DEF Withdraw
  <2>3. CASE ~ Withdrawable(v)
    <3>1. UNCHANGED <<row, payouts, stale>>
      BY <2>1, <1>3, <2>3, Zenon DEF Withdraw
    <3> QED
      BY <2>2, <3>1, <1>a
  <2>4. CASE Withdrawable(v)
    <3>1. /\ row' = [row EXCEPT ![v] = Emptied(row[v], known[p].early)]
          /\ payouts' = [payouts EXCEPT ![v] = @ + 1]
          /\ stale => stale'
      BY <2>1, <1>3, <2>4 DEF Withdraw, WriteWallet
    <3>2. Live(row[v])
      BY <2>4 DEF Withdrawable, Live
    <3>3. /\ row'[v] = Emptied(row[v], known[p].early)
          /\ payouts'[v] = payouts[v] + 1
          /\ \A x \in Vaults \ {v} : row'[x] = row[x] /\ payouts'[x] = payouts[x]
      BY <1>0, <2>1, <3>1 DEF TypeOK
    <3>4. Lives(v) /\ payouts[v] \in Nat /\ revived[v] \in Nat
      BY <1>0, <2>1 DEF TypeOK
    <3>5. Lives(v)'
      BY <2>2, <3>2, <3>3, <3>4 DEF Lives, Live, Emptied, Withdrawn, Absent
    <3>6. Empty(v)'
      BY <3>3 DEF Empty, Emptied, Worth
    <3> QED
      BY <2>1, <2>2, <3>1, <3>3, <3>5, <3>6, LifeFrame
  <2> QED
    BY <2>3, <2>4
<1>4. ASSUME NEW p \in Procs, Remove(p) PROVE WithdrawnIsEmpty' /\ \A x \in Vaults : Lives(x)'
  <2>1. PICK v \in Vaults : v = call[p].vault
    BY <1>0, CallVault DEF TypeOK
  <2>2. UNCHANGED <<payouts, revived, late, stale>> /\ row' = [row EXCEPT ![v] = Removed]
    BY <2>1, <1>4 DEF Remove
  <2>3. row'[v] = Removed /\ \A x \in Vaults \ {v} : row'[x] = row[x]
    BY <1>0, <2>1, <2>2 DEF TypeOK
  <2>4. Lives(v)' /\ Empty(v)'
    BY <1>0, <2>1, <2>2, <2>3 DEF Lives, Empty, Live, Removed, NoRow, Withdrawn, Absent
  <2> QED
    BY <2>1, <2>2, <2>3, <2>4, LifeFrame
<1>5. ASSUME NEW j \in Jobs, UpdateRow(j) PROVE WithdrawnIsEmpty' /\ \A x \in Vaults : Lives(x)'
  <2>0. PICK v \in Vaults : v = call[j].vault
    BY <1>0, Defaults, CallVault DEF TypeOK
  <2> DEFINE entity == Saved(call[j].op, found[j])
             new == Written(entity, seen[j], row[v])
  <2>1. /\ j \in Procs
        /\ found[j] \in Rows /\ seen[j] \in Rows /\ row[v] \in Rows
        /\ found[j].status = "ACTIVE"
    BY <1>0, <1>5, Defaults, CallVault DEF TypeOK, FoundIsActive, UpdateRow
  <2>2. entity \in Rows /\ entity.status \in {"ACTIVE", "MATURED"}
    BY <2>1, SavedType DEF Saved, Rows
  <2>3. new \in Rows /\ new.status \in {entity.status, row[v].status}
    <3> HIDE DEF entity
    <3> QED
      BY <2>1, <2>2, WrittenType
  <2>4. /\ row' = [row EXCEPT ![v] = new]
        /\ revived' = [revived EXCEPT ![v] = IF Live(new) /\ ~ Live(row[v]) THEN @ + 1 ELSE @]
        /\ stale' = (stale \/ row[v] # found[j] \/ seen[j] # found[j])
        /\ UNCHANGED <<payouts, late>>
    BY <1>5, <2>0 DEF UpdateRow
  <2>5. row[v].status \in {"ACTIVE", "MATURED"} \/ ~ Live(row[v])
    BY <2>1 DEF Rows, Live
  <2>6. ~ stale' => row[v].status = "ACTIVE"
    BY <2>1, <2>4
  <2> HIDE DEF entity, new
  <2>7. /\ row'[v] = new
        /\ revived'[v] = IF Live(new) /\ ~ Live(row[v]) THEN revived[v] + 1 ELSE revived[v]
        /\ \A x \in Vaults \ {v} : row'[x] = row[x] /\ revived'[x] = revived[x]
    BY <1>0, <2>1, <2>4 DEF TypeOK
  <2>8. Lives(v) /\ payouts[v] \in Nat /\ revived[v] \in Nat /\ payouts'[v] = payouts[v]
    BY <1>0, <2>1, <2>4 DEF TypeOK
  <2>9. Lives(v)'
    <3>1. CASE Live(new) /\ ~ Live(row[v])
      BY <2>7, <2>8, <3>1 DEF Lives
    <3>2. CASE Live(new) /\ Live(row[v])
      BY <2>7, <2>8, <3>2 DEF Lives
    <3>3. CASE ~ Live(new)
      <4>1. new.status = row[v].status
        BY <2>2, <2>3, <3>3 DEF Live, Withdrawn, Absent
      <4> QED
        BY <2>7, <2>8, <3>3, <4>1 DEF Lives, Live
    <3> QED
      BY <3>1, <3>2, <3>3
  <2>10. Empty(v)'
    BY <2>2, <2>3, <2>6, <2>7 DEF Empty, Withdrawn
  <2> QED
    BY <2>1, <2>4, <2>7, <2>9, <2>10, LifeFrame
<1>6. ASSUME NEW v \in Vaults, Unlock(v) PROVE WithdrawnIsEmpty' /\ \A x \in Vaults : Lives(x)'
  BY <1>6, <1>a DEF Unlock
<1>7. ASSUME NEW p \in Calls, NEW v \in Vaults, Request(p, v)
      PROVE  WithdrawnIsEmpty' /\ \A x \in Vaults : Lives(x)'
  BY <1>7, <1>a DEF Request, Start
<1>8. ASSUME NEW p \in Procs, ReadUser(p) \/ Fail(p) PROVE WithdrawnIsEmpty' /\ \A x \in Vaults : Lives(x)'
  BY <1>8, <1>a DEF ReadUser, Fail
<1>9. ASSUME NEW j \in Jobs, NEW v \in Vaults, Take(j, v) PROVE WithdrawnIsEmpty' /\ \A x \in Vaults : Lives(x)'
  BY <1>9, <1>a DEF Take, Start
<1>10. ASSUME NEW j \in Jobs, SelectRow(j) PROVE WithdrawnIsEmpty' /\ \A x \in Vaults : Lives(x)'
  BY <1>10, <1>a DEF SelectRow
<1>11. ASSUME NEW j \in Jobs, NEW k, Find(j, k) PROVE WithdrawnIsEmpty' /\ \A x \in Vaults : Lives(x)'
  BY <1>11, <1>a DEF Find
<1>12. CASE UNCHANGED vars
  BY <1>12, <1>a DEF vars
<1> QED
  BY <1>1, <1>2, <1>3, <1>4, <1>5, <1>6, <1>7, <1>8, <1>9, <1>10, <1>11, <1>12, Defaults
  DEF Next, JobStep, Step

LEMMA LifeHolds == Spec => []LifeInv
<1>1. LifeInv /\ [Next]_vars => LifeInv'
  <2>1. LifeInv => TypeOK
    BY DEF LifeInv
  <2> QED
    BY <2>1, TypeStep, FoundStep, LifeStep DEF LifeInv
<1> QED
  BY LifeInit, <1>1, PTL DEF Spec

\* A vault is paid out at most once per life, whatever races for it.
THEOREM VaultsPayOutOnce == Spec => []WithdrawnOnce
<1>1. LifeInv => WithdrawnOnce
  BY DEF LifeInv, Lives, WithdrawnOnce
<1> QED
  BY LifeHolds, <1>1, PTL

\* Only a deposit that comes late, or a save of something stale, leaves money in
\* a vault that was withdrawn.
THEOREM WithdrawnVaultsAreEmpty == Spec => []WithdrawnIsEmpty
<1>1. LifeInv => WithdrawnIsEmpty
  BY DEF LifeInv
<1> QED
  BY LifeHolds, <1>1, PTL

-----------------------------------------------------------------------------
(***************************************************************************)
(* Sums.  The fold of MapThenSumSet is a function defined by recursion     *)
(* over the subsets of a set.  That there is one, what it returns and how  *)
(* it changes with one summand follows by induction; the induction is      *)
(* brought back to theorems that take sets instead of predicates, WFMin    *)
(* about well-founded relations.                                           *)
(***************************************************************************)
Pick(s) == CHOOSE x \in s : TRUE
SumUp(f, g, s) == IF s = {} THEN 0 ELSE f[Pick(s)] + g[s \ {Pick(s)}]
Sums(f, D, g) == g \in [D -> Int] /\ \A s \in D : g[s] = SumUp(f, g, s)
Upto(S, n) == {s \in SUBSET S : Cardinality(s) <= n}

LEMMA Picked == ASSUME NEW s, s # {} PROVE Pick(s) \in s
  BY DEF Pick

LEMMA TotalIsSum ==
  ASSUME NEW f, NEW S
  PROVE  Total(f, S) = (CHOOSE g : g = [s \in SUBSET S |-> SumUp(f, g, s)])[S]
  BY DEF Total, MapThenSumSet, MapThenFoldSet, SumUp, Pick

LEMMA NatSetInduction == ASSUME NEW T, 0 \in T, \A n \in T \cap Nat : n + 1 \in T PROVE Nat \subseteq T
<1> SUFFICES ASSUME Nat \ T # {} PROVE FALSE
  OBVIOUS
<1>1. PICK n \in Nat \ T : \A m \in Nat \ T : <<m, n>> \notin OpToRel(<, Nat)
  BY WFMin, NatLessThanWellFounded
<1>2. \A m \in Nat \ T : ~ (m < n)
  BY <1>1 DEF OpToRel
<1>3. n # 0 /\ n - 1 \in Nat
  OBVIOUS
<1> QED
  BY <1>2, <1>3

\* What holds of the empty set, and of every set if it holds without the element
\* picked from it, holds of all subsets.
LEMMA PickInduction ==
  ASSUME NEW S, IsFiniteSet(S), NEW T, {} \in T,
         \A s \in SUBSET S : s # {} /\ s \ {Pick(s)} \in T => s \in T
  PROVE  SUBSET S \subseteq T
<1> SUFFICES ASSUME (SUBSET S) \ T # {} PROVE FALSE
  OBVIOUS
<1>1. IsWellFoundedOn(StrictSubsetOrdering(S), SUBSET S)
  BY FS_StrictSubsetOrderingWellFounded, FS_FiniteSubsetsOfFinite
<1> DEFINE Bad == (SUBSET S) \ T
<1>2. PICK s \in Bad : \A t \in Bad : <<t, s>> \notin StrictSubsetOrdering(S)
  <2>1. Bad \subseteq SUBSET S /\ Bad # {}
    OBVIOUS
  <2> HIDE DEF Bad
  <2> QED
    BY <1>1, <2>1, WFMin
<1>3. s # {} /\ Pick(s) \in s
  BY Picked
<1>4. <<s \ {Pick(s)}, s>> \in StrictSubsetOrdering(S)
  BY <1>3 DEF StrictSubsetOrdering
<1> QED
  BY <1>2, <1>3, <1>4

\* The recursion has a solution: it is built up for the subsets of at most n elements.
LEMMA SumsExist ==
  ASSUME NEW S, IsFiniteSet(S), NEW f, \A x \in S : f[x] \in Int
  PROVE  \E g : Sums(f, SUBSET S, g)
<1> DEFINE T == {n \in Nat : \E g : Sums(f, Upto(S, n), g)}
<1>0. \A s \in SUBSET S : IsFiniteSet(s) /\ Cardinality(s) \in Nat /\ Cardinality(s) <= Cardinality(S)
  BY FS_Subset, FS_CardinalityType
<1>1. 0 \in T
  <2>1. \A s \in Upto(S, 0) : s = {}
    BY <1>0, FS_EmptySet DEF Upto
  <2>2. Sums(f, Upto(S, 0), [s \in Upto(S, 0) |-> 0])
    BY <2>1 DEF Sums, SumUp
  <2> QED
    BY <2>2
<1>2. ASSUME NEW n \in T \cap Nat PROVE n + 1 \in T
  <2>1. PICK g : Sums(f, Upto(S, n), g)
    OBVIOUS
  <2> DEFINE h == [s \in Upto(S, n + 1) |-> SumUp(f, g, s)]
  <2>2. ASSUME NEW s \in Upto(S, n + 1), s # {}
        PROVE  Pick(s) \in S /\ s \ {Pick(s)} \in Upto(S, n)
    <3>1. Pick(s) \in s /\ s \in SUBSET S /\ IsFiniteSet(s)
      BY <2>2, <1>0, Picked DEF Upto
    <3>2. Cardinality(s \ {Pick(s)}) = Cardinality(s) - 1
      BY <3>1, FS_RemoveElement
    <3>3. Cardinality(s) \in Nat /\ Cardinality(s) <= n + 1
      BY <3>1, <1>0 DEF Upto
    <3> QED
      BY <3>1, <3>2, <3>3 DEF Upto
  <2>3. \A s \in Upto(S, n) : h[s] = g[s]
    <3>1. \A s \in Upto(S, n) : s \in Upto(S, n + 1) /\ g[s] = SumUp(f, g, s)
      BY <2>1, <1>0 DEF Sums, Upto
    <3> QED
      BY <3>1
  <2>4. ASSUME NEW s \in Upto(S, n + 1)
        PROVE  h[s] \in Int /\ h[s] = SumUp(f, h, s)
    <3>1. CASE s = {}
      BY <3>1 DEF SumUp
    <3>2. CASE s # {}
      <4>1. h[s] = f[Pick(s)] + g[s \ {Pick(s)}] /\ SumUp(f, h, s) = f[Pick(s)] + h[s \ {Pick(s)}]
        BY <3>2 DEF SumUp
      <4>2. f[Pick(s)] \in Int /\ g[s \ {Pick(s)}] \in Int /\ h[s \ {Pick(s)}] = g[s \ {Pick(s)}]
        BY <3>2, <2>1, <2>2, <2>3 DEF Sums
      <4> HIDE DEF h
      <4> QED
        BY <4>1, <4>2
    <3> QED
      BY <3>1, <3>2
  <2>5. h \in [Upto(S, n + 1) -> Int]
    BY <2>4
  <2> HIDE DEF h
  <2>6. Sums(f, Upto(S, n + 1), h)
    BY <2>4, <2>5 DEF Sums
  <2> QED
    BY <2>6
<1>3. Nat \subseteq T
  <2> HIDE DEF T
  <2> QED
    BY <1>1, <1>2, NatSetInduction
<1>4. Cardinality(S) \in Nat /\ Upto(S, Cardinality(S)) = SUBSET S
  BY <1>0 DEF Upto
<1> QED
  BY <1>3, <1>4

LEMMA TotalUnfolds ==
  ASSUME NEW S, IsFiniteSet(S), NEW f, \A x \in S : f[x] \in Int
  PROVE  \E g : Sums(f, SUBSET S, g) /\ Total(f, S) = g[S]
<1> DEFINE Is(g) == g = [s \in SUBSET S |-> SumUp(f, g, s)]
           i == CHOOSE g : Is(g)
<1>1. \E g : Is(g)
  <2>1. PICK g : Sums(f, SUBSET S, g)
    BY SumsExist
  <2>2. Is(g)
    BY <2>1 DEF Sums
  <2> QED
    BY <2>2
<1>2. Is(i)
  <2> HIDE DEF Is
  <2> QED
    BY <1>1
<1>3. Total(f, S) = i[S]
  BY TotalIsSum
<1> HIDE DEF i
<1>4. /\ i = [s \in SUBSET S |-> i[s]]
      /\ \A s \in SUBSET S : i[s] = SumUp(f, i, s)
  BY <1>2
<1> HIDE DEF Is
<1> DEFINE T == {s \in SUBSET S : i[s] \in Int}
<1>5. {} \in T
  <2>1. i[{}] = SumUp(f, i, {})
    BY <1>4
  <2> QED
    BY <2>1 DEF SumUp
<1>6. ASSUME NEW s \in SUBSET S, s # {}, s \ {Pick(s)} \in T PROVE s \in T
  <2>1. Pick(s) \in S /\ f[Pick(s)] \in Int /\ i[s \ {Pick(s)}] \in Int
    BY <1>6, Picked
  <2>2. i[s] = f[Pick(s)] + i[s \ {Pick(s)}]
    BY <1>4, <1>6 DEF SumUp
  <2> QED
    BY <2>1, <2>2
<1>7. SUBSET S \subseteq T
  <2> HIDE DEF T
  <2> QED
    BY <1>5, <1>6, PickInduction
<1>8. Sums(f, SUBSET S, i)
  BY <1>4, <1>7 DEF Sums
<1> QED
  BY <1>3, <1>8

\* When one summand changes, the sum changes by as much.
LEMMA TotalChanges ==
  ASSUME NEW S, IsFiniteSet(S), NEW f, NEW g, \A y \in S : f[y] \in Int /\ g[y] \in Int,
         NEW x, \A y \in S \ {x} : g[y] = f[y]
  PROVE  /\ Total(f, S) \in Int
         /\ Total(g, S) = Total(f, S) + (IF x \in S THEN g[x] - f[x] ELSE 0)
<1>1. PICK i : Sums(f, SUBSET S, i) /\ Total(f, S) = i[S]
  BY TotalUnfolds
<1>2. PICK j : Sums(g, SUBSET S, j) /\ Total(g, S) = j[S]
  BY TotalUnfolds
<1> DEFINE T == {s \in SUBSET S : j[s] = i[s] + (IF x \in s THEN g[x] - f[x] ELSE 0)}
<1>3. {} \in T
  <2>1. i[{}] = SumUp(f, i, {}) /\ j[{}] = SumUp(g, j, {})
    BY <1>1, <1>2 DEF Sums
  <2> QED
    BY <2>1 DEF SumUp
<1>4. ASSUME NEW s \in SUBSET S, s # {}, s \ {Pick(s)} \in T PROVE s \in T
  <2> DEFINE y == Pick(s)
             t == s \ {y}
  <2>1. y \in s /\ t \in SUBSET S /\ (y # x => g[y] = f[y])
    BY <1>4, Picked
  <2>2. j[t] = i[t] + (IF x \in t THEN g[x] - f[x] ELSE 0)
    BY <1>4
  <2>3. /\ i[s] = f[y] + i[t] /\ j[s] = g[y] + j[t]
        /\ f[y] \in Int /\ g[y] \in Int /\ i[t] \in Int /\ j[t] \in Int /\ i[s] \in Int
    BY <1>1, <1>2, <1>4, <2>1 DEF SumUp, Sums
  <2>4. x \in s => f[x] \in Int /\ g[x] \in Int
    OBVIOUS
  <2>5. x \in t <=> x \in s /\ x # y
    OBVIOUS
  <2> HIDE DEF y, t
  <2>6. j[s] = i[s] + (IF x \in s THEN g[x] - f[x] ELSE 0)
    <3>1. CASE x \notin s
      BY <3>1, <2>1, <2>2, <2>3, <2>5
    <3>2. CASE x \in s /\ x = y
      BY <3>2, <2>2, <2>3, <2>4, <2>5
    <3>3. CASE x \in s /\ x # y
      BY <3>3, <2>1, <2>2, <2>3, <2>4, <2>5
    <3> QED
      BY <3>1, <3>2, <3>3
  <2> QED
    BY <2>6
<1>5. SUBSET S \subseteq T
  <2> HIDE DEF T
  <2> QED
    BY <1>3, <1>4, PickInduction
<1>6. S \in SUBSET S /\ S \in T /\ i[S] \in Int
  BY <1>1, <1>5 DEF Sums
<1> QED
  BY <1>1, <1>2, <1>6

LEMMA TotalOfNothing ==
  ASSUME NEW S, IsFiniteSet(S), NEW f, \A x \in S : f[x] = 0
  PROVE  Total(f, S) = 0
<1>1. PICK i : Sums(f, SUBSET S, i) /\ Total(f, S) = i[S]
  <2>1. \A x \in S : f[x] \in Int
    OBVIOUS
  <2> QED
    BY <2>1, TotalUnfolds
<1> DEFINE T == {s \in SUBSET S : i[s] = 0}
<1>2. {} \in T
  BY <1>1 DEF Sums, SumUp
<1>3. ASSUME NEW s \in SUBSET S, s # {}, s \ {Pick(s)} \in T PROVE s \in T
  <2>1. f[Pick(s)] = 0 /\ i[s \ {Pick(s)}] = 0
    BY <1>3, Picked
  <2>2. i[s] = f[Pick(s)] + i[s \ {Pick(s)}]
    BY <1>1, <1>3 DEF Sums, SumUp
  <2> QED
    BY <2>1, <2>2
<1>4. SUBSET S \subseteq T
  <2> HIDE DEF T
  <2> QED
    BY <1>2, <1>3, PickInduction
<1> QED
  BY <1>1, <1>4

\* Money that goes from one place to another: a wallet and a vault change, and the
\* interest, the penalties and what was deleted with a vault make up for the difference.
LEMMA Balanced ==
  ASSUME TypeOK, TypeOK', MoneyIsConserved, ~ stale,
         NEW u \in Users, NEW v \in Vaults, NEW a \in Int, NEW r \in Rows,
         wallet'[u] = wallet[u] + a, \A x \in Users \ {u} : wallet'[x] = wallet[x],
         row'[v] = r, \A x \in Vaults \ {v} : row'[x] = row[x],
         a + Worth(r) + sums'.penalty + sums'.deleted - sums'.interest
           = Worth(row[v]) + sums.penalty + sums.deleted - sums.interest
  PROVE  MoneyIsConserved'
<1>1. IsFiniteSet(Users) /\ IsFiniteSet(Vaults)
  BY VaultsAssumption
<1>2. Total(wallet, Users) \in Int /\ Total(wallet', Users) = Total(wallet, Users) + a
  <2>1. \A x \in Users : wallet[x] \in Int /\ wallet'[x] \in Int
    BY DEF TypeOK
  <2>3. /\ Total(wallet, Users) \in Int
        /\ Total(wallet', Users) = Total(wallet, Users) + (IF u \in Users THEN wallet'[u] - wallet[u] ELSE 0)
    BY <1>1, <2>1, TotalChanges
  <2> QED
    BY <2>1, <2>3
<1>3. /\ Total(InVaults, Vaults) \in Int
      /\ Total(InVaults', Vaults) = Total(InVaults, Vaults) + Worth(r) - Worth(row[v])
  <2>1. \A x \in Vaults : InVaults[x] = Worth(row[x]) /\ InVaults'[x] = Worth(row'[x])
    BY DEF InVaults
  <2>2. \A x \in Vaults : row[x] \in Rows /\ row'[x] \in Rows
    BY DEF TypeOK
  <2>3. \A x \in Vaults : InVaults[x] \in Int /\ InVaults'[x] \in Int
    BY <2>1, <2>2, WorthIsNat
  <2>4. (\A x \in Vaults \ {v} : InVaults'[x] = InVaults[x]) /\ InVaults'[v] = Worth(r)
    BY <2>1
  <2>5. PICK f, g : f = InVaults /\ g = InVaults'
    OBVIOUS
  <2>6. /\ \A x \in Vaults : f[x] \in Int /\ g[x] \in Int
        /\ \A x \in Vaults \ {v} : g[x] = f[x]
        /\ g[v] = Worth(r) /\ f[v] = Worth(row[v])
    BY <2>1, <2>3, <2>4, <2>5
  <2>7. Total(f, Vaults) \in Int /\ Total(g, Vaults) = Total(f, Vaults) + (IF v \in Vaults THEN g[v] - f[v] ELSE 0)
    BY <1>1, <2>6, TotalChanges
  <2>8. Total(g, Vaults) = Total(f, Vaults) + Worth(r) - Worth(row[v])
    BY <2>6, <2>7
  <2> QED
    BY <2>5, <2>7, <2>8
<1>4. /\ sums.penalty \in Int /\ sums.deleted \in Int /\ sums.interest \in Int
      /\ sums'.penalty \in Int /\ sums'.deleted \in Int /\ sums'.interest \in Int
      /\ Worth(r) \in Int /\ Worth(row[v]) \in Int
  BY WorthIsNat DEF TypeOK
<1>5. Total(wallet, Users) + Total(InVaults, Vaults) + sums.penalty + sums.deleted
        = Total(Funds, Users) + sums.interest
  BY DEF MoneyIsConserved
<1>6. Total(Funds, Users) \in Int
  <2>1. \A x \in Users : Funds[x] \in Int
    BY VaultsAssumption
  <2> QED
    BY <1>1, <2>1, TotalChanges
<1>7. Total(wallet', Users) + Total(InVaults', Vaults) + sums'.penalty + sums'.deleted
        = Total(Funds, Users) + sums'.interest
  BY <1>2, <1>3, <1>4, <1>5, <1>6
<1> QED
  BY <1>7 DEF MoneyIsConserved

LEMMA StaleStays == TypeOK /\ [Next]_vars /\ ~ stale' => ~ stale
<1> SUFFICES ASSUME TypeOK, [Next]_vars, stale PROVE stale'
  OBVIOUS
<1>1. ASSUME NEW p \in Procs, Deposit(p) \/ Withdraw(p) \/ Remove(p) \/ UpdateRow(p) \/ ReadUser(p) \/ Fail(p)
      PROVE  stale'
  BY <1>1 DEF Deposit, Withdraw, Remove, UpdateRow, ReadUser, Fail, WriteWallet, counters
<1>2. ASSUME NEW v \in Vaults, Create(v) \/ Unlock(v) PROVE stale'
  BY <1>2 DEF Create, Unlock, counters
<1>3. ASSUME NEW p \in Procs, NEW v \in Vaults, Request(p, v) \/ Take(p, v) PROVE stale'
  BY <1>3 DEF Request, Take, Start, counters
<1>4. ASSUME NEW p \in Procs, NEW k, Find(p, k) \/ SelectRow(p) PROVE stale'
  BY <1>4 DEF Find, SelectRow, counters
<1>5. CASE UNCHANGED vars
  BY <1>5 DEF vars
<1> QED
  BY <1>1, <1>2, <1>3, <1>4, <1>5, Defaults DEF Next, JobStep, Step

LEMMA ConservedStep == LifeInv /\ TypeOK' /\ MoneyIsConserved /\ [Next]_vars => MoneyIsConserved'
<1> SUFFICES ASSUME LifeInv, TypeOK', MoneyIsConserved, [Next]_vars, ~ stale' PROVE MoneyIsConserved'
  BY DEF MoneyIsConserved
<1>0. TypeOK /\ FoundIsActive /\ ~ stale
  BY StaleStays DEF LifeInv
<1>a. UNCHANGED <<row, wallet, sums, stale>> => MoneyIsConserved'
  BY DEF MoneyIsConserved, InVaults
<1>b. ASSUME NEW p \in Procs
      PROVE  call[p].vault \in Vaults /\ Owner[call[p].vault] \in Users /\ call[p].amount \in Nat
  BY <1>0, CallVault DEF TypeOK
<1>c. \A v \in Vaults : row[v] \in Rows /\ Worth(row[v]) \in Nat
  BY <1>0, WorthIsNat DEF TypeOK
<1>d. sums.penalty \in Nat /\ sums.deleted \in Nat /\ sums.interest \in Nat
  BY <1>0 DEF TypeOK
<1>1. ASSUME NEW v \in Vaults, Create(v) PROVE MoneyIsConserved'
  <2> DEFINE r == [row[v] EXCEPT !.status = "ACTIVE"]
  <2>1. row' = [row EXCEPT ![v] = r] /\ UNCHANGED <<wallet, sums>>
    BY <1>1 DEF Create, counters
  <2>2. r \in Rows /\ Worth(r) = Worth(row[v])
    BY <1>c DEF Rows, Worth
  <2>3. PICK u \in Users : u = Owner[v]
    BY VaultsAssumption
  <2> HIDE DEF r
  <2>4. row'[v] = r /\ \A x \in Vaults \ {v} : row'[x] = row[x]
    BY <1>0, <2>1 DEF TypeOK
  <2>5. wallet'[u] = wallet[u] + 0 /\ \A x \in Users \ {u} : wallet'[x] = wallet[x]
    BY <1>0, <2>1 DEF TypeOK
  <2>6. 0 + Worth(r) + sums'.penalty + sums'.deleted - sums'.interest
          = Worth(row[v]) + sums.penalty + sums.deleted - sums.interest
    BY <1>c, <1>d, <2>1, <2>2
  <2> QED
    BY <1>0, <2>2, <2>4, <2>5, <2>6, Balanced
<1>2. ASSUME NEW p \in Procs, Deposit(p) PROVE MoneyIsConserved'
  <2>1. PICK v \in Vaults, u \in Users : v = call[p].vault /\ u = Owner[v]
    BY <1>b
  <2>2. CASE row[v].status \in Absent
    BY <1>2, <1>a, <2>1, <2>2, Zenon DEF Deposit
  <2>3. CASE row[v].status \notin Absent
    <3> DEFINE r == [row[v] EXCEPT !.balance = @ + call[p].amount]
    <3>1. /\ row' = [row EXCEPT ![v] = r] /\ sums' = sums
          /\ WriteWallet(p, - call[p].amount)
      BY <1>2, <2>1, <2>3 DEF Deposit
    <3>2. r \in Rows /\ Worth(r) = Worth(row[v]) + call[p].amount
      BY <1>b, <1>c DEF Rows, Worth
    <3> HIDE DEF r
    <3>3. wallet[u] = known[p].wallet /\ wallet' = [wallet EXCEPT ![u] = known[p].wallet + (- call[p].amount)]
      BY <2>1, <3>1 DEF WriteWallet
    <3>4. /\ wallet'[u] = wallet[u] + (- call[p].amount)
          /\ \A x \in Users \ {u} : wallet'[x] = wallet[x]
      BY <1>0, <3>3 DEF TypeOK
    <3>5. row'[v] = r /\ \A x \in Vaults \ {v} : row'[x] = row[x]
      BY <1>0, <3>1 DEF TypeOK
    <3>6. - call[p].amount \in Int
      BY <1>b
    <3>7. (- call[p].amount) + Worth(r) + sums'.penalty + sums'.deleted - sums'.interest
            = Worth(row[v]) + sums.penalty + sums.deleted - sums.interest
      BY <1>b, <1>c, <1>d, <3>1, <3>2
    <3> QED
      BY <1>0, <3>2, <3>4, <3>5, <3>6, <3>7, Balanced
  <2> QED
    BY <2>2, <2>3
<1>3. ASSUME NEW p \in Procs, Withdraw(p) PROVE MoneyIsConserved'
  <2>1. PICK v \in Vaults, u \in Users : v = call[p].vault /\ u = Owner[v]
    BY <1>b
  <2>2. CASE ~ Withdrawable(v)
    BY <1>3, <1>a, <2>1, <2>2, Zenon DEF Withdraw
  <2>3. CASE Withdrawable(v)
    <3> DEFINE r == Emptied(row[v], known[p].early)
               penalty == IF known[p].early THEN Penalty(Worth(row[v])) ELSE 0
               a == Worth(row[v]) - penalty
    <3>1. penalty \in Nat
      BY <1>c, PenaltyIsPart
    <3> HIDE DEF penalty
    <3>2. /\ row' = [row EXCEPT ![v] = r] /\ sums' = [sums EXCEPT !.penalty = @ + penalty]
          /\ WriteWallet(p, a)
      BY <1>3, <2>1, <2>3 DEF Withdraw, penalty
    <3>3. r \in Rows /\ Worth(r) = 0
      BY DEF Emptied, Rows, Withdrawn, Worth
    <3>4. a \in Int
      BY <1>c, <3>1
    <3>5. /\ sums'.penalty = sums.penalty + penalty
          /\ sums'.deleted = sums.deleted /\ sums'.interest = sums.interest
      BY <1>0, <3>2 DEF TypeOK
    <3>6. a + Worth(r) + sums'.penalty + sums'.deleted - sums'.interest
            = Worth(row[v]) + sums.penalty + sums.deleted - sums.interest
      BY <1>c, <1>d, <3>1, <3>3, <3>5
    <3> HIDE DEF r, a
    <3>7. wallet[u] = known[p].wallet /\ wallet' = [wallet EXCEPT ![u] = known[p].wallet + a]
      BY <2>1, <3>2 DEF WriteWallet
    <3>8. wallet'[u] = wallet[u] + a /\ \A x \in Users \ {u} : wallet'[x] = wallet[x]
      BY <1>0, <3>7 DEF TypeOK
    <3>9. row'[v] = r /\ \A x \in Vaults \ {v} : row'[x] = row[x]
      BY <1>0, <3>2 DEF TypeOK
    <3> QED
      BY <1>0, <3>3, <3>4, <3>6, <3>8, <3>9, Balanced
  <2> QED
    BY <2>2, <2>3
<1>4. ASSUME NEW p \in Procs, Remove(p) PROVE MoneyIsConserved'
  <2>1. PICK v \in Vaults, u \in Users : v = call[p].vault /\ u = Owner[v]
    BY <1>b
  <2>2. /\ row' = [row EXCEPT ![v] = Removed] /\ wallet' = wallet
        /\ sums' = [sums EXCEPT !.deleted = @ + Worth(row[v])]
    BY <1>4, <2>1 DEF Remove
  <2>3. Removed \in Rows /\ Worth(Removed) = 0
    BY Defaults DEF Removed, NoRow, Worth
  <2>4. row'[v] = Removed /\ \A x \in Vaults \ {v} : row'[x] = row[x]
    BY <1>0, <2>2 DEF TypeOK
  <2>5. wallet'[u] = wallet[u] + 0 /\ \A x \in Users \ {u} : wallet'[x] = wallet[x]
    BY <1>0, <2>2 DEF TypeOK
  <2>6. /\ sums'.penalty = sums.penalty /\ sums'.interest = sums.interest
        /\ sums'.deleted = sums.deleted + Worth(row[v])
    BY <1>0, <2>2 DEF TypeOK
  <2>7. 0 + Worth(Removed) + sums'.penalty + sums'.deleted - sums'.interest
          = Worth(row[v]) + sums.penalty + sums.deleted - sums.interest
    BY <1>c, <1>d, <2>3, <2>6
  <2> QED
    BY <1>0, <2>3, <2>4, <2>5, <2>7, Balanced
<1>5. ASSUME NEW j \in Jobs, UpdateRow(j) PROVE MoneyIsConserved'
  <2>0. j \in Procs
    BY Defaults
  <2>1. PICK v \in Vaults, u \in Users : v = call[j].vault /\ u = Owner[v]
    BY <1>b, <2>0
  <2> DEFINE accrued == IF call[j].op = "accrue" THEN Interest(found[j]) ELSE 0
             r == Saved(call[j].op, found[j])
  <2>2. /\ found[j] \in Rows /\ found[j].status = "ACTIVE"
        /\ row[v] = found[j] /\ seen[j] = found[j]
    BY <1>0, <1>5, <2>0, <2>1 DEF TypeOK, FoundIsActive, UpdateRow
  <2>3. accrued \in Nat
    BY <2>2, InterestIsNat
  <2>4. r \in Rows
    BY <2>2, SavedType
  <2>5. Worth(r) = Worth(row[v]) + accrued
    BY <2>2, <2>3 DEF Saved, Worth, Rows
  <2> HIDE DEF r, accrued
  <2>6. Written(r, seen[j], row[v]) = r
    BY <2>2, <2>4 DEF Written, Rows, Absent
  <2>7. /\ row' = [row EXCEPT ![v] = r] /\ wallet' = wallet
        /\ sums' = [sums EXCEPT !.interest = @ + accrued]
    <3>1. /\ row' = [row EXCEPT ![v] = Written(r, seen[j], row[v])] /\ wallet' = wallet
          /\ sums' = [sums EXCEPT !.interest = IF call[j].op = "accrue" THEN @ + Interest(found[j]) ELSE @]
      BY <1>5, <2>1 DEF UpdateRow, r
    <3>2. (IF call[j].op = "accrue" THEN sums.interest + Interest(found[j]) ELSE sums.interest)
            = sums.interest + accrued
      BY <1>d DEF accrued
    <3> QED
      BY <2>6, <3>1, <3>2
  <2>8. row'[v] = r /\ \A x \in Vaults \ {v} : row'[x] = row[x]
    BY <1>0, <2>7 DEF TypeOK
  <2>9. wallet'[u] = wallet[u] + 0 /\ \A x \in Users \ {u} : wallet'[x] = wallet[x]
    BY <1>0, <2>7 DEF TypeOK
  <2>10. /\ sums'.penalty = sums.penalty /\ sums'.deleted = sums.deleted
         /\ sums'.interest = sums.interest + accrued
    BY <1>0, <2>7 DEF TypeOK
  <2>11. 0 + Worth(r) + sums'.penalty + sums'.deleted - sums'.interest
           = Worth(row[v]) + sums.penalty + sums.deleted - sums.interest
    BY <1>c, <1>d, <2>3, <2>5, <2>10
  <2> QED
    BY <1>0, <2>4, <2>8, <2>9, <2>11, Balanced
<1>6. ASSUME NEW v \in Vaults, Unlock(v) PROVE MoneyIsConserved'
  BY <1>6, <1>a DEF Unlock, counters
<1>7. ASSUME NEW p \in Procs, NEW v \in Vaults, Request(p, v) \/ Take(p, v) PROVE MoneyIsConserved'
  BY <1>7, <1>a DEF Request, Take, Start, counters
<1>8. ASSUME NEW p \in Procs, NEW k, ReadUser(p) \/ Fail(p) \/ SelectRow(p) \/ Find(p, k) PROVE MoneyIsConserved'
  BY <1>8, <1>a DEF ReadUser, Fail, SelectRow, Find, counters
<1>9. CASE UNCHANGED vars
  BY <1>9, <1>a DEF vars
<1> QED
  BY <1>1, <1>2, <1>3, <1>4, <1>5, <1>6, <1>7, <1>8, <1>9, Defaults DEF Next, JobStep, Step

LEMMA ConservedInit == Init => MoneyIsConserved
<1> SUFFICES ASSUME Init PROVE MoneyIsConserved
  OBVIOUS
<1>1. wallet = Funds /\ sums.interest = 0 /\ sums.penalty = 0 /\ sums.deleted = 0
  BY DEF Init
<1>2. Total(InVaults, Vaults) = 0
  <2>1. \A v \in Vaults : InVaults[v] = 0
    BY DEF Init, InVaults, Worth, NoRow
  <2>2. IsFiniteSet(Vaults)
    BY VaultsAssumption
  <2>3. PICK f : f = InVaults
    OBVIOUS
  <2> QED
    BY <2>1, <2>2, <2>3, TotalOfNothing
<1>3. Total(Funds, Users) \in Int
  <2>1. IsFiniteSet(Users) /\ \A u \in Users : Funds[u] \in Int
    BY VaultsAssumption
  <2> QED
    BY <2>1, TotalChanges
<1> QED
  BY <1>1, <1>2, <1>3 DEF MoneyIsConserved

\* Wallets and vaults together hold what was there, and the interest, less the
\* penalties and what was deleted, until somebody overwrites what he has not read:
\* for any number of users and vaults, and any interleaving of calls and jobs.
THEOREM MoneyStays == Spec => []MoneyIsConserved
<1>1. LifeInv => TypeOK
  BY DEF LifeInv
<1> QED
  BY ConservedInit, ConservedStep, LifeHolds, TypeCorrect, <1>1, PTL DEF Spec

=============================================================================

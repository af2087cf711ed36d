----------------------------- MODULE Loans_proofs -----------------------------
(***************************************************************************)
(* Proofs about Loans, for any number of loans, instalments, calls and     *)
(* runs of the job.                                                        *)
(***************************************************************************)
EXTENDS Loans, FiniteSetTheorems, TLAPS

Steps == {"idle", "user", "select", "update", "commit", "flag"}

LEMMA Defaulted ==
  /\ NoRow \in Rows /\ Scheduled \in Rows
  /\ NoEntity \in Entities /\ NoCall \in CallsOf
  /\ NoCall.slot \in Slots
<1>1. PICK l \in Loans : l = CHOOSE x \in Loans : TRUE
  BY LoansAssumption
<1>2. \E i : i \in Slots
  <2>1. PICK c \in Calls, n \in Numbers : TRUE
    BY LoansAssumption
  <2>2. <<c, n>> \in Slots
    BY DEF Slots
  <2> QED
    BY <2>2
<1>3. PICK i \in Slots : i = CHOOSE x \in Slots : TRUE
  BY <1>2
<1>4. NoRow \in Rows /\ Scheduled \in Rows
  BY LoansAssumption DEF NoRow, Scheduled, Rows
<1> QED
  BY <1>1, <1>3, <1>4 DEF NoEntity, Entities, Statuses, NoCall, CallsOf, Ops

LEMMA SlotParts == ASSUME NEW i \in Slots PROVE i[1] \in Calls /\ Number(i) \in Numbers
  BY DEF Slots, Number

LEMMA EntityType == ASSUME TypeOK, NEW l \in Loans, NEW i \in Slots PROVE Entity(l, i) \in Entities
<1>1. status[l] \in Statuses /\ inst[l][i] \in Rows
  BY DEF TypeOK
<1> QED
  BY <1>1 DEF Entity, Entities

LEMMA CallParts ==
  ASSUME NEW c \in CallsOf
  PROVE  /\ c.loan \in Loans /\ c.slot \in Slots /\ c.op \in Ops /\ c.amount \in Nat
         /\ Borrower[c.loan] \in Users
  BY LoansAssumption DEF CallsOf

LEMMA WrittenType ==
  ASSUME NEW e \in Rows, NEW b \in Rows, NEW n \in Rows
  PROVE  Written(e, b, n) \in Rows
  BY DEF Written, Column, Rows

LEMMA PaymentType ==
  ASSUME NEW c \in CallsOf, NEW r \in Rows
  PROVE  Payment(c, r) \in Int /\ PaidWith(r, Payment(c, r)) \in Rows
<1>1. Payment(c, r) \in Int
  BY DEF Payment, Rows, CallsOf
<1>2. \A a \in Int : PaidWith(r, a) \in Rows
  BY DEF PaidWith, Rows
<1> QED
  BY <1>1, <1>2

LEMMA PenaltyType == ASSUME NEW r \in Rows PROVE Penalty(r) \in Int
<1>1. PenaltyPermille \in Int /\ r.due - r.paid \in Int
  BY LoansAssumption DEF Rows
<1>2. \A a, b \in Int : (a * b) \div 1000 \in Int
  OBVIOUS
<1> QED
  BY <1>1, <1>2 DEF Penalty

\* A row of an instalment that is put in its place.
LEMMA PutRow ==
  ASSUME TypeOK, NEW l \in Loans, NEW i \in Slots, NEW r \in Rows, inst' = [inst EXCEPT ![l][i] = r]
  PROVE  inst' \in [Loans -> [Slots -> Rows]]
  BY DEF TypeOK

LEMMA PutStatus ==
  ASSUME TypeOK, NEW l \in Loans, NEW s \in Statuses, status' = [status EXCEPT ![l] = s]
  PROVE  status' \in [Loans -> Statuses]
  BY DEF TypeOK

\* What the ends and the beginnings of calls do to the types.
WorkType ==
  /\ pc \in [Procs -> {"idle", "user", "select", "update", "commit", "flag"}]
  /\ call \in [Procs -> CallsOf]
  /\ known \in [Procs -> Int]
  /\ found \in [Procs -> Entities]
  /\ seen \in [Procs -> Entities]

LEMMA DoneType == ASSUME TypeOK, NEW p \in Procs, Done(p) PROVE WorkType'
  BY Defaulted DEF Done, Goto, TypeOK, WorkType

LEMMA StartType ==
  ASSUME TypeOK, NEW p \in Procs, NEW op \in Ops, NEW l \in Loans, NEW i \in Slots, NEW a \in Nat,
         NEW e \in Entities, NEW s \in Steps, Start(p, op, l, i, a, e, s)
  PROVE  WorkType' /\ UNCHANGED <<rows, ghosts, faults>>
<1>1. [op |-> op, loan |-> l, slot |-> i, amount |-> a] \in CallsOf
  BY DEF CallsOf
<1> QED
  BY <1>1 DEF Start, Goto, TypeOK, WorkType, Steps

\* The variables other than those of the processes.
RestType ==
  /\ status \in [Loans -> Statuses]
  /\ inst \in [Loans -> [Slots -> Rows]]
  /\ age \in [Loans -> [Numbers -> 0 .. 2]]
  /\ wallet \in [Users -> Int]
  /\ flags \subseteq Loans
  /\ todo \in [Jobs -> [Loans -> [Slots -> Entities]]]
  /\ phase \in [Jobs -> {"over", "debit", "penalty"}]
  /\ disbursed \in [Loans -> Nat]
  /\ collected \in [Loans -> [Slots -> Int]]
  /\ raced \in [Loans -> BOOLEAN]
  /\ stale \in BOOLEAN
  /\ spent \in Nat
  /\ penalties \in 0 .. MaxPenalties
  /\ requests \in 0 .. MaxRequests
  /\ faults \in 0 .. MaxFaults

LEMMA TypeParts == TypeOK <=> WorkType /\ RestType
  BY DEF TypeOK, WorkType, RestType

LEMMA TypeInit == Init => TypeOK
<1> SUFFICES ASSUME Init PROVE TypeOK
  OBVIOUS
<1>1. WorkType
  BY Defaulted DEF Init, WorkType
<1>2. RestType
  <2>1. /\ wallet \in [Users -> Int]
        /\ penalties \in 0 .. MaxPenalties
        /\ requests \in 0 .. MaxRequests
        /\ faults \in 0 .. MaxFaults
    BY LoansAssumption DEF Init
  <2>2. /\ inst \in [Loans -> [Slots -> Rows]]
        /\ todo \in [Jobs -> [Loans -> [Slots -> Entities]]]
    BY Defaulted DEF Init
  <2>3. /\ status \in [Loans -> Statuses]
        /\ age \in [Loans -> [Numbers -> 0 .. 2]]
        /\ collected \in [Loans -> [Slots -> Int]]
    BY DEF Init, Statuses
  <2> QED
    BY <2>1, <2>2, <2>3 DEF Init, RestType
<1> QED
  BY <1>1, <1>2, TypeParts

LEMMA TypeStep == TypeOK /\ [Next]_vars => TypeOK'
<1> SUFFICES ASSUME TypeOK, [Next]_vars PROVE WorkType' /\ RestType'
  BY DEF TypeOK, WorkType, RestType
<1> USE DEF rows, run, work, ghosts, bounds
<1>0. WorkType /\ RestType
  BY TypeParts
<1>a. UNCHANGED <<pc, call, known, found, seen>> => WorkType'
  BY <1>0 DEF WorkType
<1>1. ASSUME NEW l \in Loans, Apply(l) PROVE WorkType' /\ RestType'
  <2>1. status' \in [Loans -> Statuses]
    BY <1>1, <1>0 DEF Apply, RestType, Statuses
  <2> QED
    BY <1>1, <2>1, <1>0, <1>a DEF Apply, RestType
<1>2. ASSUME NEW l \in Loans, NEW n \in Numbers, Grow(l, n) PROVE WorkType' /\ RestType'
  <2>1. age' \in [Loans -> [Numbers -> 0 .. 2]]
    <3>1. age[l][n] \in 0 .. 2 /\ age[l][n] < 2 /\ age' = [age EXCEPT ![l][n] = @ + 1]
      BY <1>2, <1>0 DEF Grow, RestType
    <3>2. age[l][n] + 1 \in 0 .. 2
      BY <3>1
    <3> QED
      BY <3>1, <3>2, <1>0 DEF RestType
  <2> QED
    BY <1>2, <2>1, <1>0, <1>a DEF Grow, RestType
<1>3. ASSUME NEW u \in Users, NEW a \in Amounts, Spend(u, a) PROVE WorkType' /\ RestType'
  <2>1. a \in Nat
    BY LoansAssumption
  <2>2. wallet' \in [Users -> Int] /\ spent' \in Nat
    BY <1>3, <2>1, <1>0 DEF Spend, RestType
  <2> QED
    BY <1>3, <2>2, <1>0, <1>a DEF Spend, RestType
<1>4. ASSUME NEW p \in Calls, NEW l \in Loans, Request(p, l) PROVE WorkType' /\ RestType'
  <2>1. PICK op \in Ops, i \in Slots, a \in Nat, s \in Steps : Start(p, op, l, i, a, Entity(l, i), s)
    BY <1>4, LoansAssumption, Zenon DEF Request, Ops, Steps
  <2>2. p \in Procs /\ Entity(l, i) \in Entities
    BY EntityType DEF Procs
  <2>3. WorkType' /\ UNCHANGED <<rows, ghosts, faults>>
    BY <2>1, <2>2, StartType
  <2>4. requests' \in 0 .. MaxRequests
    BY <1>4, <1>0, LoansAssumption DEF Request, RestType
  <2>5. UNCHANGED <<age, run, spent, penalties>>
    BY <1>4 DEF Request
  <2> QED
    BY <2>3, <2>4, <2>5, <1>0 DEF RestType
<1>5. ASSUME NEW p \in Procs, Step(p) PROVE WorkType' /\ RestType'
  <2>0. PICK l \in Loans, i \in Slots : l = call[p].loan /\ i = call[p].slot
    BY <1>0, CallParts DEF WorkType
  <2>1. /\ call[p] \in CallsOf /\ Borrower[l] \in Users /\ known[p] \in Int
        /\ found[p].row \in Rows /\ seen[p].row \in Rows /\ seen[p].loan \in Statuses
        /\ inst[l][i] \in Rows /\ status[l] \in Statuses /\ wallet[Borrower[l]] \in Int
    BY <2>0, <1>0, CallParts DEF WorkType, RestType, Entities
  <2>w. ASSUME NEW change \in Int, WriteWallet(p, change) PROVE wallet' \in [Users -> Int]
    BY <2>0, <2>1, <2>w, <1>0 DEF WriteWallet, RestType
  <2>2. CASE ReadUser(p)
    <3>1. RestType'
      BY <2>2, <1>0 DEF ReadUser, RestType
    <3>2. CASE Done(p)
      BY <3>1, <3>2, DoneType
    <3>3. CASE ~ Done(p)
      <4>1. \/ /\ known' = [known EXCEPT ![p] = wallet[Borrower[call[p].loan]]]
               /\ \E s \in Steps : Goto(p, s)
               /\ UNCHANGED <<call, found, seen>>
            \/ /\ call' = [call EXCEPT ![p].op = "overdue"]
               /\ Goto(p, "select")
               /\ UNCHANGED <<known, found, seen>>
        BY <2>2, <3>3, Zenon DEF ReadUser, Steps
      <4>2. [call[p] EXCEPT !.op = "overdue"] \in CallsOf
        BY <2>1 DEF CallsOf, Ops
      <4>3. WorkType'
        BY <4>1, <4>2, <2>0, <2>1, <1>0 DEF WorkType, Goto, Steps
      <4> QED
        BY <3>1, <4>3
    <3> QED
      BY <3>2, <3>3
  <2>3. CASE Select(p)
    <3>1. Entity(l, i) \in Entities
      BY EntityType
    <3> QED
      BY <2>3, <2>0, <3>1, <1>0 DEF Select, Goto, WorkType, RestType
  <2>4. CASE Approve(p)
    <3>1. CASE Refused(p)
      BY <2>4, <3>1, <1>0, DoneType DEF Approve, RestType
    <3>2. CASE ~ Refused(p)
      <4>1. /\ status' = [status EXCEPT ![l] = Column("ACTIVE", seen[p].loan, status[l])]
            /\ inst' = [inst EXCEPT ![l] = [k \in Slots |-> IF k[1] = p THEN Scheduled ELSE inst[l][k]]]
            /\ WriteWallet(p, Principal)
            /\ disbursed' = [disbursed EXCEPT ![l] = @ + 1]
            /\ stale' = (stale \/ WalletIsStale(p) \/ status[l] # "PENDING")
        BY <2>4, <3>2, <2>0 DEF Approve
      <4>2. Column("ACTIVE", seen[p].loan, status[l]) \in Statuses
        BY <2>1 DEF Column, Statuses
      <4>3. [k \in Slots |-> IF k[1] = p THEN Scheduled ELSE inst[l][k]] \in [Slots -> Rows]
        BY <1>0, Defaulted DEF RestType
      <4>4. inst' \in [Loans -> [Slots -> Rows]] /\ disbursed' \in [Loans -> Nat] /\ stale' \in BOOLEAN
        BY <4>1, <4>3, <1>0 DEF RestType
      <4>5. status' \in [Loans -> Statuses]
        BY <4>1, <4>2, PutStatus
      <4>6. wallet' \in [Users -> Int]
        BY <4>1, <2>w, LoansAssumption
      <4>7. raced' \in [Loans -> BOOLEAN]
        <5>1. PICK b : raced' = [raced EXCEPT ![l] = @ \/ b]
          BY <2>4, <3>2, <2>0 DEF Approve
        <5> QED
          BY <5>1, <1>0 DEF RestType
      <4>8. Done(p) /\ UNCHANGED <<age, flags, run, collected, bounds>>
        BY <2>4 DEF Approve
      <4> QED
        BY <4>4, <4>5, <4>6, <4>7, <4>8, <1>0, DoneType DEF RestType
    <3> QED
      BY <3>1, <3>2
  <2>5. CASE Pay(p)
    <3> DEFINE before == IF call[p].op = "repay" THEN seen[p].row ELSE inst[l][i]
               amount == Payment(call[p], found[p].row)
               row == Written(PaidWith(found[p].row, amount), before, inst[l][i])
               paid == [inst[l] EXCEPT ![i] = row]
    <3>1. amount \in Int /\ row \in Rows
      BY <2>1, PaymentType, WrittenType
    <3>2. inst' = [inst EXCEPT ![l] = paid]
      BY <2>5, <2>0 DEF Pay
    <3>3. inst' \in [Loans -> [Slots -> Rows]]
      <4> HIDE DEF row
      <4> QED
        BY <3>1, <3>2, <1>0 DEF RestType
    <3>4. WriteWallet(p, - amount) /\ - amount \in Int
      <4>1. WriteWallet(p, - amount)
        BY <2>5 DEF Pay
      <4> HIDE DEF amount
      <4> QED
        BY <3>1, <4>1
    <3>5. wallet' \in [Users -> Int]
      BY <3>4, <2>w
    <3>6. \E s \in {"REPAID", status[l]} : status' = [status EXCEPT ![l] = s]
      BY <2>5, <2>0, Zenon DEF Pay
    <3>7. status' \in [Loans -> Statuses]
      <4>1. "REPAID" \in Statuses
        BY DEF Statuses
      <4> QED
        BY <3>6, <4>1, <2>1, PutStatus
    <3>8. collected' = [collected EXCEPT ![l][i] = @ + amount]
      BY <2>5, <2>0 DEF Pay
    <3>9. collected' \in [Loans -> [Slots -> Int]]
      <4> HIDE DEF amount
      <4> QED
        BY <3>8, <3>1, <1>0 DEF RestType
    <3>10. Done(p) /\ UNCHANGED <<age, flags, run, disbursed, raced, bounds>> /\ stale' \in BOOLEAN
      BY <2>5, <1>0 DEF Pay, RestType
    <3> QED
      BY <3>3, <3>5, <3>7, <3>9, <3>10, <1>0, DoneType DEF RestType
  <2>6. CASE UpdateLoan(p)
    <3>1. PICK s \in {"REJECTED", "DEFAULTED", status[l]} : status' = [status EXCEPT ![l] = s]
      BY <2>6, <2>0 DEF UpdateLoan, Column
    <3>2. status' \in [Loans -> Statuses]
      <4>1. s \in Statuses
        BY <3>1, <2>1 DEF Statuses
      <4> QED
        BY <3>1, <4>1, PutStatus
    <3>3. UNCHANGED <<inst, age, wallet, flags, run, disbursed, collected, raced, bounds>>
      BY <2>6 DEF UpdateLoan
    <3>4. stale' \in BOOLEAN
      BY <2>6, <1>0 DEF UpdateLoan, RestType
    <3>5. RestType'
      BY <3>2, <3>3, <3>4, <1>0 DEF RestType
    <3>6. CASE Done(p)
      BY <3>5, <3>6, DoneType
    <3>7. CASE ~ Done(p)
      <4>1. Goto(p, "flag") /\ UNCHANGED work
        BY <2>6, <3>7, Zenon DEF UpdateLoan
      <4> QED
        BY <3>5, <4>1, <1>0 DEF WorkType, Goto
    <3> QED
      BY <3>6, <3>7
  <2>7. CASE UpdateRow(p)
    <3> DEFINE old == found[p].row
               entity == IF call[p].op = "overdue" THEN [old EXCEPT !.status = "OVERDUE"]
                                                   ELSE [old EXCEPT !.due = @ + Penalty(old)]
               new == Written(entity, seen[p].row, inst[l][i])
    <3>1. new \in Rows
      <4>1. [old EXCEPT !.status = "OVERDUE"] \in Rows
        BY <2>1 DEF Rows
      <4>2. [old EXCEPT !.due = @ + Penalty(old)] \in Rows
        <5>1. Penalty(old) \in Int
          BY <2>1, PenaltyType
        <5> QED
          BY <5>1, <2>1 DEF Rows
      <4>3. entity \in Rows
        BY <4>1, <4>2
      <4> HIDE DEF entity
      <4> QED
        BY <4>3, <2>1, WrittenType
    <3>2. inst' = [inst EXCEPT ![l][i] = new]
      BY <2>7, <2>0 DEF UpdateRow
    <3>3. inst' \in [Loans -> [Slots -> Rows]]
      <4> HIDE DEF new
      <4> QED
        BY <3>1, <3>2, PutRow
    <3>4. stale' \in BOOLEAN
      BY <2>7, <1>0 DEF UpdateRow, RestType
    <3>5. penalties' \in 0 .. MaxPenalties
      <4>1. penalties' = penalties \/ (penalties < MaxPenalties /\ penalties' = penalties + 1)
        BY <2>7 DEF UpdateRow
      <4> QED
        BY <4>1, <1>0, LoansAssumption DEF RestType
    <3>6. UNCHANGED <<status, age, wallet, flags, run, disbursed, collected, raced, spent, requests, faults>>
      BY <2>7 DEF UpdateRow
    <3>7. RestType'
      BY <3>3, <3>4, <3>5, <3>6, <1>0 DEF RestType
    <3>8. CASE Done(p)
      BY <3>7, <3>8, DoneType
    <3>9. CASE ~ Done(p)
      <4>1. call' = [call EXCEPT ![p].op = "default"] /\ Goto(p, "select") /\ UNCHANGED <<known, found, seen>>
        BY <2>7, <3>9, Zenon DEF UpdateRow
      <4>2. [call[p] EXCEPT !.op = "default"] \in CallsOf
        BY <2>1 DEF CallsOf, Ops
      <4> QED
        BY <3>7, <4>1, <4>2, <1>0 DEF WorkType, Goto
    <3> QED
      BY <3>8, <3>9
  <2>8. CASE Flag(p)
    <3>1. flags' \subseteq Loans
      BY <2>8, <2>0, <1>0 DEF Flag, RestType
    <3> QED
      BY <2>8, <3>1, <1>0, DoneType DEF Flag, RestType
  <2> QED
    BY <1>5, <2>2, <2>3, <2>4, <2>5, <2>6, <2>7, <2>8 DEF Step
<1>6. ASSUME NEW j \in Jobs, NEW k \in {"debit", "penalty"}, Find(j, k) PROVE WorkType' /\ RestType'
  <2>1. [l \in Loans |-> [i \in Slots |-> IF Wanted(k, l, i) THEN Entity(l, i) ELSE NoEntity]]
          \in [Loans -> [Slots -> Entities]]
    BY EntityType, Defaulted
  <2>2. todo' \in [Jobs -> [Loans -> [Slots -> Entities]]] /\ phase' \in [Jobs -> {"over", "debit", "penalty"}]
    BY <1>6, <2>1, <1>0 DEF Find, RestType
  <2> QED
    BY <1>6, <2>2, <1>0, <1>a DEF Find, RestType
<1>7. ASSUME NEW j \in Jobs, Finish(j) PROVE WorkType' /\ RestType'
  BY <1>7, <1>0, <1>a DEF Finish, RestType
<1>8. ASSUME NEW j \in Jobs, NEW l \in Loans, NEW i \in Slots, Take(j, l, i) PROVE WorkType' /\ RestType'
  <2>1. todo[j][l][i] \in Entities /\ j \in Procs
    BY <1>0 DEF RestType, Procs
  <2>2. todo' \in [Jobs -> [Loans -> [Slots -> Entities]]]
    BY <1>8, <1>0, Defaulted DEF Take, RestType
  <2>3. \/ UNCHANGED <<rows, pc, call, found, known, seen, ghosts, faults>>
        \/ \E op \in Ops, s \in Steps : Start(j, op, l, i, 0, todo[j][l][i], s)
    BY <1>8, Zenon DEF Take, Ops, Steps
  <2>4. WorkType' /\ UNCHANGED <<rows, ghosts, faults>>
    BY <2>1, <2>3, <1>a, StartType
  <2>5. UNCHANGED <<age, phase, spent, penalties, requests>>
    BY <1>8 DEF Take
  <2> QED
    BY <2>2, <2>4, <2>5, <1>0 DEF RestType
<1>9. ASSUME NEW p \in Procs, Fail(p) PROVE WorkType' /\ RestType'
  <2>1. faults' \in 0 .. MaxFaults
    BY <1>9, <1>0, LoansAssumption DEF Fail, RestType
  <2> QED
    BY <1>9, <2>1, <1>0, DoneType DEF Fail, RestType
<1>10. CASE UNCHANGED vars
  BY <1>10, <1>0, <1>a DEF vars, RestType
<1>11. Calls \subseteq Procs /\ Jobs \subseteq Procs
  BY DEF Procs
<1> QED
  BY <1>1, <1>2, <1>3, <1>4, <1>5, <1>6, <1>7, <1>8, <1>9, <1>10, <1>11 DEF Next, JobStep

\* Every variable has values of its type: no status and no step is ever one that
\* the code does not know.
THEOREM TypeCorrect == Spec => []TypeOK
<1> QED
  BY TypeInit, TypeStep, PTL DEF Spec

-----------------------------------------------------------------------------
\* Only p has moved.
Alone(p) == \A q \in Procs \ {p} : UNCHANGED <<pc[q], call[q], known[q], found[q], seen[q]>>
Frozen == UNCHANGED <<pc, call, known, found, seen>>

LEMMA DoneAlone ==
  ASSUME TypeOK, NEW p \in Procs, Done(p)
  PROVE  Alone(p) /\ pc'[p] = "idle" /\ known'[p] = 0
  BY DEF Done, Goto, Alone, TypeOK

LEMMA StartAlone ==
  ASSUME TypeOK, NEW p \in Procs, NEW op, NEW l, NEW i, NEW a, NEW e, NEW s, Start(p, op, l, i, a, e, s)
  PROVE  /\ Alone(p)
         /\ pc'[p] = s
         /\ call'[p] = [op |-> op, loan |-> l, slot |-> i, amount |-> a]
         /\ found'[p] = e
         /\ UNCHANGED <<rows, known, seen, ghosts>>
  BY DEF Start, Goto, Alone, TypeOK

LEMMA StepAlone ==
  ASSUME TypeOK, NEW p \in Procs, Step(p) \/ Fail(p)
  PROVE  Alone(p) /\ UNCHANGED run
<1> USE DEF work, run
<1>1. CASE Done(p)
  BY <1>1, DoneAlone DEF Step, ReadUser, Select, Approve, Pay, UpdateLoan, UpdateRow, Flag, Fail
<1>2. CASE ~ Done(p)
  <2>1. \E s : Goto(p, s)
    BY <1>2, Zenon DEF Step, ReadUser, Select, Approve, Pay, UpdateLoan, UpdateRow, Flag, Fail
  <2>2. call' = call \/ \E o : call' = [call EXCEPT ![p].op = o]
    BY <1>2, Zenon DEF Step, ReadUser, Select, Approve, Pay, UpdateLoan, UpdateRow, Flag, Fail
  <2>3. /\ found' = found
        /\ known' = known \/ \E b : known' = [known EXCEPT ![p] = b]
        /\ seen' = seen \/ \E e : seen' = [seen EXCEPT ![p] = e]
    BY <1>2, Zenon DEF Step, ReadUser, Select, Approve, Pay, UpdateLoan, UpdateRow, Flag, Fail
  <2>4. UNCHANGED run
    BY <1>2 DEF Step, ReadUser, Select, Approve, Pay, UpdateLoan, UpdateRow, Flag, Fail
  <2> QED
    BY <2>1, <2>2, <2>3, <2>4 DEF Goto, Alone, TypeOK
<1> QED
  BY <1>1, <1>2

\* The kinds of steps.
LEMMA NextCases ==
  ASSUME [Next]_vars
  PROVE  \/ \E l \in Loans : Apply(l)
         \/ \E l \in Loans, n \in Numbers : Grow(l, n)
         \/ \E u \in Users, a \in Amounts : Spend(u, a)
         \/ \E p \in Calls, l \in Loans : Request(p, l)
         \/ \E j \in Jobs : Finish(j) \/ \E k \in {"debit", "penalty"} : Find(j, k)
         \/ \E j \in Jobs, l \in Loans, i \in Slots : Take(j, l, i)
         \/ \E p \in Procs : Step(p) \/ Fail(p)
         \/ UNCHANGED vars
<1>1. Calls \subseteq Procs /\ Jobs \subseteq Procs
  BY DEF Procs
<1> QED
  BY <1>1 DEF Next, JobStep

\* What the steps outside of calls and runs leave alone.
LEMMA OthersFrozen ==
  ASSUME [Next]_vars
  PROVE  \/ Frozen /\ UNCHANGED <<inst, ghosts>>
         \/ \E p \in Calls, l \in Loans : Request(p, l)
         \/ \E j \in Jobs, l \in Loans, i \in Slots : Take(j, l, i)
         \/ \E p \in Procs : Step(p) \/ Fail(p)
<1> USE DEF rows, work, run, ghosts, bounds, Frozen
<1>1. ASSUME NEW l \in Loans, Apply(l) PROVE Frozen /\ UNCHANGED <<inst, ghosts>>
  BY <1>1 DEF Apply
<1>2. ASSUME NEW l \in Loans, NEW n \in Numbers, Grow(l, n) PROVE Frozen /\ UNCHANGED <<inst, ghosts>>
  BY <1>2 DEF Grow
<1>3. ASSUME NEW u \in Users, NEW a \in Amounts, Spend(u, a) PROVE Frozen /\ UNCHANGED <<inst, ghosts>>
  BY <1>3 DEF Spend
<1>4. ASSUME NEW j \in Jobs, NEW k, Find(j, k) \/ Finish(j) PROVE Frozen /\ UNCHANGED <<inst, ghosts>>
  BY <1>4 DEF Find, Finish
<1>5. CASE UNCHANGED vars
  BY <1>5 DEF vars
<1>6. Calls \subseteq Procs /\ Jobs \subseteq Procs
  BY DEF Procs
<1> QED
  BY <1>1, <1>2, <1>3, <1>4, <1>5, <1>6 DEF Next, JobStep

-----------------------------------------------------------------------------
\* What a payment has read covers it.
Enough(p) ==
  /\ known[p] >= 0
  /\ pc[p] \in {"select", "commit"} /\ call[p].op = "repay" => call[p].amount <= known[p]
  /\ pc[p] = "commit" /\ call[p].op = "debit" => found[p].row.due - found[p].row.paid <= known[p]
KnownIsEnough == \A p \in Procs : Enough(p)

MoneyInv == TypeOK /\ KnownIsEnough /\ NoOverdraft

LEMMA MoneyInit == Init => MoneyInv
<1> SUFFICES ASSUME Init PROVE MoneyInv
  OBVIOUS
<1>1. KnownIsEnough
  BY DEF Init, KnownIsEnough, Enough
<1>2. NoOverdraft
  BY LoansAssumption DEF Init, NoOverdraft
<1> QED
  BY <1>1, <1>2, TypeInit DEF MoneyInv

LEMMA EnoughAlone ==
  ASSUME KnownIsEnough, NEW p \in Procs, Alone(p), Enough(p)'
  PROVE  KnownIsEnough'
<1>1. ASSUME NEW q \in Procs, q # p PROVE Enough(q)'
  <2>1. Enough(q) /\ UNCHANGED <<pc[q], call[q], known[q], found[q]>>
    BY <1>1 DEF KnownIsEnough, Alone
  <2> QED
    BY <2>1 DEF Enough
<1> QED
  BY <1>1 DEF KnownIsEnough

\* No payment is of more than what was read.
LEMMA PaymentIsCovered ==
  ASSUME TypeOK, NEW p \in Procs, Enough(p), pc[p] = "commit", call[p].op \in {"repay", "debit"}
  PROVE  Payment(call[p], found[p].row) \in Int /\ Payment(call[p], found[p].row) <= known[p]
<1>1. /\ call[p] \in CallsOf /\ found[p].row \in Rows
      /\ found[p].row.due \in Int /\ found[p].row.paid \in Int
      /\ call[p].amount \in Nat /\ known[p] \in Int
  BY CallParts DEF TypeOK, Entities, Rows
<1>2. CASE call[p].op = "repay"
  BY <1>1, <1>2 DEF Payment, Enough
<1>3. CASE call[p].op = "debit"
  BY <1>1, <1>3 DEF Payment, Enough
<1> QED
  BY <1>2, <1>3

LEMMA MoneyStep == MoneyInv /\ [Next]_vars => KnownIsEnough' /\ NoOverdraft'
<1> SUFFICES ASSUME MoneyInv, [Next]_vars PROVE KnownIsEnough' /\ NoOverdraft'
  OBVIOUS
<1> USE DEF rows, work, run, ghosts, bounds
<1>0. TypeOK /\ KnownIsEnough /\ NoOverdraft
  BY DEF MoneyInv
<1>a. wallet' = wallet => NoOverdraft'
  BY <1>0 DEF NoOverdraft
<1>b. Frozen => KnownIsEnough'
  BY <1>0 DEF KnownIsEnough, Enough, Frozen
<1>c. ASSUME NEW p \in Procs, Done(p) PROVE KnownIsEnough'
  <2>1. Alone(p) /\ pc'[p] = "idle" /\ known'[p] = 0
    BY <1>0, <1>c, DoneAlone
  <2>2. Enough(p)'
    BY <2>1 DEF Enough
  <2> QED
    BY <1>0, <2>1, <2>2, EnoughAlone
<1>d. ASSUME NEW p \in Procs, NEW op, NEW l, NEW i, NEW a, NEW e, NEW s,
             Start(p, op, l, i, a, e, s), s = "user" \/ (s = "select" /\ op # "repay")
      PROVE  KnownIsEnough' /\ NoOverdraft'
  <2>0. Start(p, op, l, i, a, e, s)
    BY <1>d
  <2>1. /\ Alone(p) /\ pc'[p] = s /\ call'[p].op = op
        /\ known' = known /\ wallet' = wallet
    <3>1. Alone(p) /\ pc'[p] = s
      BY <1>0, <2>0 DEF Start, Goto, Alone, TypeOK
    <3>2. call'[p] = [op |-> op, loan |-> l, slot |-> i, amount |-> a]
      BY <1>0, <2>0 DEF Start, TypeOK
    <3>3. known' = known /\ wallet' = wallet
      BY <2>0 DEF Start
    <3> QED
      BY <3>1, <3>2, <3>3
  <2>2. known[p] >= 0
    BY <1>0 DEF KnownIsEnough, Enough
  <2>3. Enough(p)'
    BY <1>d, <2>1, <2>2 DEF Enough
  <2> QED
    BY <1>0, <1>a, <2>1, <2>3, EnoughAlone
<1>1. ASSUME NEW p \in Calls, NEW l \in Loans, Request(p, l) PROVE KnownIsEnough' /\ NoOverdraft'
  <2>1. PICK i \in Slots :
          \/ Start(p, "approve", l, i, 0, Entity(l, i), "user")
          \/ Start(p, "reject", l, i, 0, Entity(l, i), "select")
          \/ \E a \in Amounts : Start(p, "repay", l, i, a, Entity(l, i), "user")
    BY <1>1, Zenon DEF Request
  <2>2. p \in Procs
    BY DEF Procs
  <2>3. CASE Start(p, "approve", l, i, 0, Entity(l, i), "user")
    BY <2>2, <2>3, <1>d
  <2>4. CASE Start(p, "reject", l, i, 0, Entity(l, i), "select")
    BY <2>2, <2>4, <1>d
  <2>5. ASSUME NEW a \in Amounts, Start(p, "repay", l, i, a, Entity(l, i), "user")
        PROVE  KnownIsEnough' /\ NoOverdraft'
    BY <2>2, <2>5, <1>d
  <2> QED
    BY <2>1, <2>3, <2>4, <2>5
<1>2. ASSUME NEW j \in Jobs, NEW l \in Loans, NEW i \in Slots, Take(j, l, i)
      PROVE  KnownIsEnough' /\ NoOverdraft'
  <2>1. \/ UNCHANGED <<pc, call, found, known, seen, wallet>>
        \/ Start(j, "debit", l, i, 0, todo[j][l][i], "user")
        \/ Start(j, "penalty", l, i, 0, todo[j][l][i], "select")
    BY <1>2, Zenon DEF Take
  <2>2. j \in Procs
    BY DEF Procs
  <2> QED
    BY <2>1, <2>2, <1>a, <1>b, <1>d DEF Frozen
<1>3. ASSUME NEW u \in Users, NEW a \in Amounts, Spend(u, a) PROVE KnownIsEnough' /\ NoOverdraft'
  <2>1. a \in Nat /\ wallet[u] >= a /\ wallet' = [wallet EXCEPT ![u] = @ - a] /\ Frozen
    BY <1>3, LoansAssumption DEF Spend, Frozen
  <2>2. NoOverdraft'
    BY <2>1, <1>0 DEF NoOverdraft, TypeOK
  <2> QED
    BY <2>1, <2>2, <1>b
<1>4. ASSUME NEW p \in Procs, ReadUser(p) PROVE KnownIsEnough' /\ NoOverdraft'
  <2> DEFINE balance == wallet[Borrower[call[p].loan]]
  <2>1. wallet' = wallet /\ Alone(p)
    BY <1>0, <1>4, StepAlone DEF ReadUser, Step
  <2>2. balance \in Int /\ balance >= 0 /\ known[p] >= 0
    BY <1>0, CallParts DEF TypeOK, NoOverdraft, KnownIsEnough, Enough
  <2>3. CASE Done(p)
    BY <2>1, <2>3, <1>a, <1>c
  <2>4. CASE ~ Done(p)
    <3>1. \/ /\ Affordable(call[p], found[p], balance)
             /\ known' = [known EXCEPT ![p] = balance]
             /\ Goto(p, IF call[p].op = "debit" THEN "commit" ELSE "select")
             /\ UNCHANGED <<call, found, seen>>
          \/ /\ call' = [call EXCEPT ![p].op = "overdue"]
             /\ Goto(p, "select")
             /\ UNCHANGED <<known, found, seen>>
      BY <1>4, <2>4, Zenon DEF ReadUser
    <3>2. CASE /\ Affordable(call[p], found[p], balance)
               /\ known' = [known EXCEPT ![p] = balance]
               /\ Goto(p, IF call[p].op = "debit" THEN "commit" ELSE "select")
               /\ UNCHANGED <<call, found, seen>>
      <4>1. known'[p] = balance /\ call'[p] = call[p] /\ found'[p] = found[p]
        BY <3>2, <1>0 DEF TypeOK
      <4>2. pc'[p] = "commit" => call[p].op = "debit"
        BY <3>2, <1>0 DEF Goto, TypeOK
      <4>3. /\ call[p].op = "repay" => balance >= call[p].amount
            /\ call[p].op = "debit" => balance >= found[p].row.due - found[p].row.paid
        BY <3>2 DEF Affordable
      <4>4. /\ call[p].amount \in Int /\ found[p].row.due - found[p].row.paid \in Int
        <5>1. call[p] \in CallsOf /\ found[p] \in Entities
          BY <1>0 DEF TypeOK
        <5> QED
          BY <5>1 DEF CallsOf, Entities, Rows
      <4>5. Enough(p)'
        <5> HIDE DEF balance
        <5> QED
          BY <4>1, <4>2, <4>3, <4>4, <2>2 DEF Enough
      <4> QED
        BY <1>0, <1>a, <2>1, <4>5, EnoughAlone
    <3>3. CASE /\ call' = [call EXCEPT ![p].op = "overdue"]
               /\ Goto(p, "select")
               /\ UNCHANGED <<known, found, seen>>
      <4>1. call'[p].op = "overdue" /\ pc'[p] = "select" /\ known'[p] = known[p]
        BY <3>3, <1>0 DEF Goto, TypeOK, CallsOf
      <4>2. Enough(p)'
        BY <4>1, <2>2 DEF Enough
      <4> QED
        BY <1>0, <1>a, <2>1, <4>2, EnoughAlone
    <3> QED
      BY <3>1, <3>2, <3>3
  <2> QED
    BY <2>3, <2>4
<1>5. ASSUME NEW p \in Procs, Select(p) PROVE KnownIsEnough' /\ NoOverdraft'
  <2>1. /\ wallet' = wallet /\ Alone(p) /\ UNCHANGED <<call, known, found>>
        /\ pc[p] = "select"
        /\ pc'[p] \in {"commit", "update"} /\ (pc'[p] = "commit" => call[p].op # "debit")
    BY <1>0, <1>5, StepAlone DEF Select, Step, Goto, TypeOK
  <2>2. Enough(p)'
    BY <2>1, <1>0 DEF KnownIsEnough, Enough
  <2> QED
    BY <1>0, <1>a, <2>1, <2>2, EnoughAlone
<1>6. ASSUME NEW p \in Procs, Approve(p) \/ Pay(p) PROVE KnownIsEnough' /\ NoOverdraft'
  <2>1. Done(p) /\ pc[p] = "commit"
    BY <1>6 DEF Approve, Pay
  <2>2. Borrower[call[p].loan] \in Users /\ known[p] \in Int /\ known[p] >= 0 /\ Enough(p)
    BY <1>0, CallParts DEF TypeOK, KnownIsEnough, Enough
  <2>3. ASSUME NEW change \in Int, known[p] + change >= 0, WriteWallet(p, change) PROVE NoOverdraft'
    BY <2>2, <2>3, <1>0 DEF WriteWallet, NoOverdraft, TypeOK
  <2>4. CASE Approve(p)
    <3>1. wallet' = wallet \/ WriteWallet(p, Principal)
      BY <2>4, Zenon DEF Approve
    <3>2. Principal \in Int /\ known[p] + Principal >= 0
      BY <2>2, LoansAssumption
    <3> QED
      BY <3>1, <3>2, <2>1, <2>3, <1>a, <1>c
  <2>5. CASE Pay(p)
    <3>1. WriteWallet(p, - Payment(call[p], found[p].row)) /\ call[p].op \in {"repay", "debit"}
      BY <2>5 DEF Pay
    <3>2. PICK a \in Int : a = Payment(call[p], found[p].row) /\ a <= known[p]
      BY <1>0, <2>1, <2>2, <3>1, PaymentIsCovered
    <3>3. WriteWallet(p, - a) /\ - a \in Int /\ known[p] + (- a) >= 0
      BY <3>1, <3>2, <2>2
    <3> QED
      BY <3>3, <2>1, <2>3, <1>c
  <2> QED
    BY <1>6, <2>4, <2>5
<1>7. ASSUME NEW p \in Procs, UpdateLoan(p) \/ UpdateRow(p) \/ Flag(p) \/ Fail(p)
      PROVE  KnownIsEnough' /\ NoOverdraft'
  <2>1. wallet' = wallet /\ Alone(p)
    <3>1. Step(p) \/ Fail(p)
      BY <1>7 DEF Step
    <3> QED
      BY <1>0, <1>7, <3>1, StepAlone DEF UpdateLoan, UpdateRow, Flag, Fail
  <2>2. CASE Done(p)
    BY <2>1, <2>2, <1>a, <1>c
  <2>3. CASE ~ Done(p)
    <3>1. /\ known' = known
          /\ \/ Goto(p, "flag")
             \/ call' = [call EXCEPT ![p].op = "default"] /\ Goto(p, "select")
      BY <1>7, <2>3, Zenon DEF UpdateLoan, UpdateRow, Flag, Fail
    <3>2. pc'[p] = "flag" \/ (pc'[p] = "select" /\ call'[p].op = "default")
      BY <3>1, <1>0 DEF Goto, TypeOK, CallsOf
    <3>3. Enough(p)'
      BY <3>1, <3>2, <1>0 DEF KnownIsEnough, Enough
    <3> QED
      BY <1>0, <1>a, <2>1, <3>3, EnoughAlone
  <2> QED
    BY <2>2, <2>3
<1>8. ASSUME NEW l \in Loans, Apply(l) \/ \E n \in Numbers : Grow(l, n) PROVE KnownIsEnough' /\ NoOverdraft'
  BY <1>8, <1>a, <1>b DEF Apply, Grow, Frozen
<1>9. ASSUME NEW j \in Jobs, NEW k, Find(j, k) \/ Finish(j) PROVE KnownIsEnough' /\ NoOverdraft'
  BY <1>9, <1>a, <1>b DEF Find, Finish, Frozen
<1>10. CASE UNCHANGED vars
  BY <1>10, <1>a, <1>b DEF vars, Frozen
<1>11. Calls \subseteq Procs /\ Jobs \subseteq Procs
  BY DEF Procs
<1> QED
  BY <1>1, <1>2, <1>3, <1>4, <1>5, <1>6, <1>7, <1>8, <1>9, <1>10, <1>11 DEF Next, JobStep, Step

\* Payments by hand and by the job may overlap in any way: none of them makes a
\* balance negative.
THEOREM WalletsAreNeverOverdrawn == Spec => []NoOverdraft
<1>1. MoneyInv /\ [Next]_vars => MoneyInv'
  BY MoneyStep, TypeStep DEF MoneyInv
<1>2. MoneyInv => NoOverdraft
  BY DEF MoneyInv
<1> QED
  BY MoneyInit, <1>1, <1>2, PTL DEF Spec

-----------------------------------------------------------------------------
(***************************************************************************)
(* A loan is paid out twice only if two approvals have raced.  An approval *)
(* that selects after a payout finds a schedule, because rows remain, and  *)
(* they remain because a run only lets rows grow that it has found.        *)
(***************************************************************************)
HasRow(p) ==
  /\ pc[p] # "idle" /\ call[p].op = "penalty" => found[p].row.status # "NONE"
  /\ call[p].op = "approve" => p \in Calls
WorkHasRow == \A p \in Procs : HasRow(p)
TodoHasRow ==
  \A j \in Jobs, l \in Loans, i \in Slots : todo[j][l][i] # NoEntity => todo[j][l][i].row.status # "NONE"

PaidOutHasRows == \A l \in Loans : disbursed[l] > 0 => \E i \in Slots : inst[l][i].status # "NONE"

\* An approval that has not seen a schedule.
Unaware(p) == pc[p] = "commit" /\ call[p].op = "approve" /\ ~ Refused(p)
UnawareRaces(p) == Unaware(p) /\ disbursed[call[p].loan] > 0 => raced[call[p].loan]
LateApprovalsRace == \A p \in Calls : UnawareRaces(p)

PayoutInv == TypeOK /\ WorkHasRow /\ TodoHasRow /\ PaidOutHasRows /\ LateApprovalsRace /\ DisbursedOnce

LEMMA PayoutInit == Init => PayoutInv
<1> SUFFICES ASSUME Init PROVE PayoutInv
  OBVIOUS
<1>1. WorkHasRow /\ TodoHasRow
  BY DEF Init, WorkHasRow, TodoHasRow, HasRow, NoCall
<1>2. PaidOutHasRows /\ DisbursedOnce
  BY DEF Init, PaidOutHasRows, DisbursedOnce
<1>3. LateApprovalsRace
  BY DEF Init, LateApprovalsRace, UnawareRaces, Unaware, Procs
<1> QED
  BY <1>1, <1>2, <1>3, TypeInit DEF PayoutInv

LEMMA HasRowAlone ==
  ASSUME WorkHasRow, NEW p \in Procs, Alone(p), HasRow(p)'
  PROVE  WorkHasRow'
<1>1. ASSUME NEW q \in Procs, q # p PROVE HasRow(q)'
  <2>1. HasRow(q) /\ UNCHANGED <<pc[q], call[q], found[q]>>
    BY <1>1 DEF WorkHasRow, Alone
  <2> QED
    BY <2>1 DEF HasRow
<1> QED
  BY <1>1 DEF WorkHasRow

LEMMA WorkHasRowStep == PayoutInv /\ [Next]_vars => WorkHasRow' /\ TodoHasRow'
<1> SUFFICES ASSUME PayoutInv, [Next]_vars PROVE WorkHasRow' /\ TodoHasRow'
  OBVIOUS
<1>0. TypeOK /\ WorkHasRow /\ TodoHasRow
  BY DEF PayoutInv
<1>1. TodoHasRow'
  <2>1. UNCHANGED todo => TodoHasRow'
    BY <1>0 DEF TodoHasRow
  <2>2. ASSUME NEW j \in Jobs, NEW k, Find(j, k) PROVE TodoHasRow'
    <3>1. todo' = [todo EXCEPT ![j] = [l \in Loans |-> [i \in Slots |->
                     IF Wanted(k, l, i) THEN Entity(l, i) ELSE NoEntity]]]
      BY <2>2 DEF Find
    <3>2. ASSUME NEW l \in Loans, NEW i \in Slots, todo'[j][l][i] # NoEntity
          PROVE  todo'[j][l][i].row.status # "NONE"
      <4>1. Wanted(k, l, i) /\ todo'[j][l][i] = Entity(l, i)
        BY <3>1, <3>2, <1>0 DEF TypeOK
      <4> QED
        BY <4>1 DEF Wanted, Entity
    <3>3. ASSUME NEW h \in Jobs, h # j PROVE todo'[h] = todo[h]
      BY <3>1, <3>3, <1>0 DEF TypeOK
    <3> QED
      BY <3>2, <3>3, <1>0 DEF TodoHasRow
  <2>3. ASSUME NEW j \in Jobs, NEW l \in Loans, NEW i \in Slots, Take(j, l, i) PROVE TodoHasRow'
    <3>1. todo' = [todo EXCEPT ![j][l][i] = NoEntity]
      BY <2>3 DEF Take
    <3>2. \A h \in Jobs, m \in Loans, k \in Slots : todo'[h][m][k] \in {todo[h][m][k], NoEntity}
      BY <3>1, <1>0 DEF TypeOK
    <3> QED
      BY <3>2, <1>0 DEF TodoHasRow
  <2>4. ASSUME NEW p \in Procs, Step(p) \/ Fail(p) PROVE TodoHasRow'
    BY <2>1, <2>4, <1>0, StepAlone DEF run
  <2>5. ASSUME NEW p \in Calls, NEW l \in Loans, Request(p, l) PROVE TodoHasRow'
    BY <2>1, <2>5 DEF Request, run
  <2>10. ASSUME NEW l \in Loans, Apply(l) PROVE TodoHasRow'
    BY <2>1, <2>10 DEF Apply, run
  <2>11. ASSUME NEW l \in Loans, NEW n \in Numbers, Grow(l, n) PROVE TodoHasRow'
    BY <2>1, <2>11 DEF Grow, run
  <2>6. ASSUME NEW u \in Users, NEW a \in Amounts, Spend(u, a) PROVE TodoHasRow'
    BY <2>1, <2>6 DEF Spend, run
  <2>7. ASSUME NEW j \in Jobs, Finish(j) PROVE TodoHasRow'
    BY <2>1, <2>7 DEF Finish
  <2>8. CASE UNCHANGED vars
    BY <2>1, <2>8 DEF vars
  <2>9. Calls \subseteq Procs /\ Jobs \subseteq Procs
    BY DEF Procs
  <2> QED
    BY <2>2, <2>3, <2>4, <2>5, <2>10, <2>11, <2>6, <2>7, <2>8, NextCases
<1>2. ASSUME Frozen PROVE WorkHasRow'
  BY <1>2, <1>0 DEF Frozen, WorkHasRow, HasRow
<1>3. ASSUME NEW p \in Calls, NEW l \in Loans, Request(p, l) PROVE WorkHasRow'
  <2>1. PICK i \in Slots :
          \/ Start(p, "approve", l, i, 0, Entity(l, i), "user")
          \/ Start(p, "reject", l, i, 0, Entity(l, i), "select")
          \/ \E a \in Amounts : Start(p, "repay", l, i, a, Entity(l, i), "user")
    BY <1>3, Zenon DEF Request
  <2>2. p \in Procs
    BY DEF Procs
  <2>3. Alone(p) /\ call'[p].op # "penalty"
    BY <2>1, <2>2, <1>0 DEF Start, Goto, Alone, TypeOK
  <2> QED
    BY <2>2, <2>3, <1>0, HasRowAlone DEF HasRow
<1>4. ASSUME NEW j \in Jobs, NEW l \in Loans, NEW i \in Slots, Take(j, l, i) PROVE WorkHasRow'
  <2>1. \/ UNCHANGED <<pc, call, found, known, seen>>
        \/ Start(j, "debit", l, i, 0, todo[j][l][i], "user")
        \/ Start(j, "penalty", l, i, 0, todo[j][l][i], "select")
    BY <1>4, Zenon DEF Take
  <2>2. j \in Procs /\ todo[j][l][i].row.status # "NONE"
    BY <1>0, <1>4 DEF Procs, Take, TodoHasRow
  <2>3. CASE UNCHANGED <<pc, call, found, known, seen>>
    BY <2>3, <1>2 DEF Frozen
  <2>4. ASSUME NEW op, NEW s, op # "approve", Start(j, op, l, i, 0, todo[j][l][i], s) PROVE WorkHasRow'
    <3>1. Alone(j) /\ found'[j] = todo[j][l][i] /\ call'[j].op = op
      BY <2>2, <2>4, <1>0 DEF Start, Goto, Alone, TypeOK
    <3> QED
      BY <2>2, <2>4, <3>1, <1>0, HasRowAlone DEF HasRow
  <2> QED
    BY <2>1, <2>3, <2>4
<1>5. ASSUME NEW p \in Procs, Step(p) \/ Fail(p) PROVE WorkHasRow'
  <2>1. Alone(p)
    BY <1>0, <1>5, StepAlone
  <2>2. CASE Done(p)
    <3>1. pc'[p] = "idle" /\ call'[p].op # "approve"
      BY <1>0, <2>2 DEF Done, Goto, TypeOK, NoCall
    <3> QED
      BY <1>0, <2>1, <3>1, HasRowAlone DEF HasRow
  <2>3. CASE ~ Done(p)
    <3>1. pc[p] # "idle" /\ found' = found
      BY <1>5, <2>3 DEF Step, ReadUser, Select, Approve, Pay, UpdateLoan, UpdateRow, Flag, Fail, work
    <3>2. call' = call \/ call' = [call EXCEPT ![p].op = "overdue"] \/ call' = [call EXCEPT ![p].op = "default"]
      BY <1>5, <2>3, Zenon DEF Step, ReadUser, Select, Approve, Pay, UpdateLoan, UpdateRow, Flag, Fail, work
    <3>3. call'[p].op \in {"penalty", "approve"} => call'[p].op = call[p].op
      BY <3>2, <1>0 DEF TypeOK, CallsOf
    <3> QED
      BY <3>1, <3>3, <2>1, <1>0, HasRowAlone DEF HasRow, WorkHasRow
  <2> QED
    BY <2>2, <2>3
<1> QED
  BY <1>1, <1>2, <1>3, <1>4, <1>5, OthersFrozen

\* A row of a schedule remains one.
LEMMA WrittenHasRow ==
  ASSUME NEW e, NEW b, NEW n, e.status # "NONE", n.status # "NONE"
  PROVE  Written(e, b, n).status # "NONE"
  BY DEF Written, Column

LEMMA RowsRemain ==
  ASSUME TypeOK, WorkHasRow, [Next]_vars, NEW l \in Loans, NEW i \in Slots, inst[l][i].status # "NONE"
  PROVE  inst'[l][i].status # "NONE"
<1>1. CASE inst' = inst
  BY <1>1
<1>2. ASSUME NEW m \in Loans, NEW k \in Slots, NEW e, NEW b, e.status # "NONE",
             inst' = [inst EXCEPT ![m][k] = Written(e, b, @)]
      PROVE  inst'[l][i].status # "NONE"
  <2>1. CASE m = l /\ k = i
    <3>1. inst'[l][i] = Written(e, b, inst[l][i])
      BY <1>2, <2>1 DEF TypeOK
    <3> QED
      BY <1>2, <3>1, WrittenHasRow
  <2>2. CASE ~ (m = l /\ k = i)
    <3>1. inst'[l][i] = inst[l][i]
      BY <1>2, <2>2 DEF TypeOK
    <3> QED
      BY <3>1
  <2> QED
    BY <2>1, <2>2
<1>3. ASSUME NEW p \in Procs, Approve(p), inst' # inst PROVE inst'[l][i].status # "NONE"
  <2>1. inst' = [inst EXCEPT ![call[p].loan] =
                   [k \in Slots |-> IF k[1] = p THEN Scheduled ELSE inst[call[p].loan][k]]]
    BY <1>3 DEF Approve
  <2>2. inst'[l][i] \in {Scheduled, inst[l][i]}
    BY <2>1, CallParts DEF TypeOK
  <2> QED
    BY <2>2 DEF Scheduled
<1>4. ASSUME NEW p \in Procs, Pay(p) PROVE inst'[l][i].status # "NONE"
  <2>1. call[p].loan \in Loans /\ call[p].slot \in Slots
    BY CallParts DEF TypeOK
  <2>2. PICK r : r = PaidWith(found[p].row, Payment(call[p], found[p].row))
    OBVIOUS
  <2>3. r.status # "NONE"
    BY <2>2 DEF PaidWith
  <2>4. PICK b : inst' = [inst EXCEPT ![call[p].loan] =
                           [inst[call[p].loan] EXCEPT ![call[p].slot] = Written(r, b, @)]]
    BY <1>4, <2>2 DEF Pay
  <2>5. inst' = [inst EXCEPT ![call[p].loan][call[p].slot] = Written(r, b, @)]
    BY <2>4
  <2> QED
    BY <1>2, <2>1, <2>3, <2>5
<1>5. ASSUME NEW p \in Procs, UpdateRow(p) PROVE inst'[l][i].status # "NONE"
  <2>1. call[p].loan \in Loans /\ call[p].slot \in Slots
    BY CallParts DEF TypeOK
  <2>2. pc[p] = "update" /\ call[p].op \in {"overdue", "penalty"}
    BY <1>5 DEF UpdateRow
  <2>3. PICK r : r = (IF call[p].op = "overdue" THEN [found[p].row EXCEPT !.status = "OVERDUE"]
                        ELSE [found[p].row EXCEPT !.due = @ + Penalty(found[p].row)])
    OBVIOUS
  <2>4. found[p] \in Entities /\ found[p].row \in Rows
    BY DEF TypeOK, Entities
  <2>5. r.status # "NONE"
    BY <2>2, <2>3, <2>4 DEF WorkHasRow, HasRow, Rows
  <2>6. inst' = [inst EXCEPT ![call[p].loan][call[p].slot] = Written(r, seen[p].row, @)]
    BY <1>5, <2>3 DEF UpdateRow
  <2> QED
    BY <1>2, <2>1, <2>5, <2>6
<1>6. ASSUME NEW p \in Procs, ReadUser(p) \/ Select(p) \/ UpdateLoan(p) \/ Flag(p) \/ Fail(p)
      PROVE  inst' = inst
  BY <1>6 DEF ReadUser, Select, UpdateLoan, Flag, Fail, rows
<1>7. ASSUME \/ \E p \in Calls, m \in Loans : Request(p, m)
             \/ \E j \in Jobs, m \in Loans, k \in Slots : Take(j, m, k)
      PROVE  inst' = inst
  BY <1>7 DEF Request, Take, Start, rows
<1> QED
  BY <1>1, <1>3, <1>4, <1>5, <1>6, <1>7, OthersFrozen DEF Step

LEMMA PayoutStep ==
  ASSUME PayoutInv, [Next]_vars
  PROVE  PaidOutHasRows' /\ LateApprovalsRace' /\ DisbursedOnce'
<1>0. TypeOK /\ WorkHasRow /\ PaidOutHasRows /\ LateApprovalsRace /\ DisbursedOnce
  BY DEF PayoutInv
<1>1. ASSUME UNCHANGED <<disbursed, raced>> PROVE PaidOutHasRows' /\ DisbursedOnce'
  <2>1. PaidOutHasRows'
    BY <1>0, <1>1, RowsRemain DEF PaidOutHasRows
  <2>2. DisbursedOnce'
    BY <1>0, <1>1 DEF DisbursedOnce
  <2> QED
    BY <2>1, <2>2
<1>2. ASSUME NEW q \in Calls, UNCHANGED <<disbursed, raced, pc[q], call[q], seen[q]>>
      PROVE  UnawareRaces(q)'
  BY <1>0, <1>2 DEF LateApprovalsRace, UnawareRaces, Unaware, Refused
<1>3. ASSUME Frozen, UNCHANGED ghosts PROVE LateApprovalsRace'
  BY <1>2, <1>3 DEF LateApprovalsRace, Frozen, ghosts
<1>4. ASSUME NEW p \in Procs, Alone(p), UNCHANGED <<disbursed, raced>>,
             pc'[p] # "commit" \/ call'[p].op # "approve"
      PROVE  LateApprovalsRace'
  <2>1. ASSUME NEW q \in Calls PROVE UnawareRaces(q)'
    <3>1. CASE q = p
      BY <1>4, <3>1 DEF UnawareRaces, Unaware
    <3>2. CASE q # p
      <4>1. UNCHANGED <<disbursed, raced, pc[q], call[q], seen[q]>>
        BY <1>4, <3>2 DEF Alone, Procs
      <4> QED
        BY <1>2, <4>1
    <3> QED
      BY <3>1, <3>2
  <2> QED
    BY <2>1 DEF LateApprovalsRace
<1>5. ASSUME NEW p \in Calls, NEW l \in Loans, Request(p, l) PROVE UNCHANGED ghosts /\ LateApprovalsRace'
  <2>1. PICK i \in Slots :
          \/ Start(p, "approve", l, i, 0, Entity(l, i), "user")
          \/ Start(p, "reject", l, i, 0, Entity(l, i), "select")
          \/ \E a \in Amounts : Start(p, "repay", l, i, a, Entity(l, i), "user")
    BY <1>5, Zenon DEF Request
  <2>2. p \in Procs
    BY DEF Procs
  <2>3. Alone(p) /\ pc'[p] # "commit" /\ UNCHANGED ghosts
    BY <2>1, <2>2, <1>0 DEF Start, Goto, Alone, TypeOK
  <2> QED
    BY <2>2, <2>3, <1>4 DEF ghosts
<1>6. ASSUME NEW j \in Jobs, NEW l \in Loans, NEW i \in Slots, Take(j, l, i)
      PROVE  UNCHANGED ghosts /\ LateApprovalsRace'
  <2>1. \/ UNCHANGED <<pc, call, found, known, seen, ghosts>>
        \/ Start(j, "debit", l, i, 0, todo[j][l][i], "user")
        \/ Start(j, "penalty", l, i, 0, todo[j][l][i], "select")
    BY <1>6, Zenon DEF Take
  <2>2. j \in Procs
    BY DEF Procs
  <2>3. CASE UNCHANGED <<pc, call, found, known, seen, ghosts>>
    BY <2>3, <1>3 DEF Frozen
  <2>4. ASSUME NEW op, NEW s \in {"user", "select"}, Start(j, op, l, i, 0, todo[j][l][i], s)
        PROVE  UNCHANGED ghosts /\ LateApprovalsRace'
    <3>1. Alone(j) /\ pc'[j] # "commit" /\ UNCHANGED ghosts
      BY <2>2, <2>4, <1>0 DEF Start, Goto, Alone, TypeOK
    <3> QED
      BY <2>2, <3>1, <1>4 DEF ghosts
  <2> QED
    BY <2>1, <2>3, <2>4
<1>7. ASSUME NEW p \in Procs, Step(p) \/ Fail(p), ~ Approve(p), ~ Select(p)
      PROVE  UNCHANGED <<disbursed, raced>> /\ LateApprovalsRace'
  <2>1. Alone(p) /\ UNCHANGED <<disbursed, raced>>
    BY <1>0, <1>7, StepAlone DEF Step, ReadUser, Pay, UpdateLoan, UpdateRow, Flag, Fail, ghosts
  <2>2. pc'[p] # "commit" \/ call'[p].op # "approve"
    <3>1. CASE Done(p)
      BY <1>0, <3>1, DoneAlone
    <3>2. CASE ~ Done(p)
      <4>1. \/ Goto(p, IF call[p].op = "debit" THEN "commit" ELSE "select") /\ call' = call
            \/ Goto(p, "select") \/ Goto(p, "flag")
        BY <1>7, <3>2, Zenon DEF Step, ReadUser, Pay, UpdateLoan, UpdateRow, Flag, Fail
      <4> QED
        BY <4>1, <1>0 DEF Goto, TypeOK
    <3> QED
      BY <3>1, <3>2
  <2> QED
    BY <1>4, <2>1, <2>2
<1>8. ASSUME NEW p \in Procs, Select(p) PROVE UNCHANGED <<disbursed, raced>> /\ LateApprovalsRace'
  <2>1. Alone(p) /\ UNCHANGED <<disbursed, raced, call>>
    BY <1>0, <1>8, StepAlone DEF Step, Select, ghosts
  <2>2. ASSUME NEW q \in Calls PROVE UnawareRaces(q)'
    <3>1. CASE q = p
      <4>1. call[p].loan \in Loans /\ call[p].slot \in Slots
        BY <1>0, CallParts DEF TypeOK
      <4>2. seen'[p] = Entity(call[p].loan, call[p].slot)
        BY <1>8, <1>0 DEF Select, TypeOK
      <4>3. disbursed[call[p].loan] > 0 => seen'[p].scheduled
        BY <4>1, <4>2, <1>0 DEF PaidOutHasRows, Entity, NoRow
      <4> QED
        BY <2>1, <3>1, <4>3 DEF UnawareRaces, Unaware, Refused
    <3>2. CASE q # p
      <4>1. UNCHANGED <<disbursed, raced, pc[q], call[q], seen[q]>>
        BY <2>1, <3>2 DEF Alone, Procs
      <4> QED
        BY <1>2, <4>1
    <3> QED
      BY <3>1, <3>2
  <2> QED
    BY <2>1, <2>2 DEF LateApprovalsRace
<1>9. ASSUME NEW p \in Procs, Approve(p) PROVE PaidOutHasRows' /\ LateApprovalsRace' /\ DisbursedOnce'
  <2>1. Alone(p) /\ pc'[p] = "idle"
    BY <1>0, <1>9, DoneAlone DEF Approve
  <2>2. CASE Refused(p)
    <3>1. UNCHANGED <<disbursed, raced>>
      BY <1>9, <2>2 DEF Approve
    <3> QED
      BY <1>1, <1>4, <2>1, <3>1
  <2>3. CASE ~ Refused(p)
    <3>1. PICK l \in Loans : l = call[p].loan
      BY <1>0, CallParts DEF TypeOK
    <3>2. /\ pc[p] = "commit" /\ call[p].op = "approve"
          /\ disbursed' = [disbursed EXCEPT ![l] = @ + 1]
          /\ inst' = [inst EXCEPT ![l] = [i \in Slots |-> IF i[1] = p THEN Scheduled ELSE @[i]]]
      BY <1>9, <2>3, <3>1 DEF Approve
    <3>3. raced' = [raced EXCEPT ![l] = \/ raced[l]
                      \/ \E q \in Calls \ {p} : /\ call[q].op = "approve" /\ call[q].loan = l
                                                /\ pc[q] = "commit" /\ ~ Refused(q)]
      BY <1>9, <2>3, <3>1, Zenon DEF Approve
    <3>4. p \in Calls
      BY <3>2, <1>0 DEF WorkHasRow, HasRow
    <3>5. /\ raced'[l] <=> \/ raced[l]
                           \/ \E q \in Calls \ {p} : /\ call[q].op = "approve" /\ call[q].loan = l
                                                     /\ pc[q] = "commit" /\ ~ Refused(q)
          /\ \A m \in Loans \ {l} : raced'[m] = raced[m] /\ disbursed'[m] = disbursed[m]
          /\ disbursed'[l] = disbursed[l] + 1 /\ disbursed[l] \in Nat
      BY <3>2, <3>3, <1>0 DEF TypeOK
    <3>6. disbursed[l] > 0 => raced[l]
      BY <3>1, <3>2, <3>4, <2>3, <1>0 DEF LateApprovalsRace, UnawareRaces, Unaware
    <3>7. DisbursedOnce'
      BY <3>5, <3>6, <1>0 DEF DisbursedOnce
    <3>8. PaidOutHasRows'
      <4>1. PICK n \in Numbers : TRUE
        BY LoansAssumption
      <4>2. <<p, n>> \in Slots
        BY <3>4 DEF Slots
      <4>3. inst'[l][<<p, n>>].status # "NONE"
        BY <3>2, <4>2, <1>0 DEF Scheduled, TypeOK
      <4>4. \A m \in Loans \ {l} : disbursed'[m] > 0 => \E i \in Slots : inst'[m][i].status # "NONE"
        BY <3>5, <1>0, RowsRemain DEF PaidOutHasRows
      <4> QED
        BY <4>2, <4>3, <4>4 DEF PaidOutHasRows
    <3>9. ASSUME NEW q \in Calls PROVE UnawareRaces(q)'
      <4>1. CASE q = p
        BY <2>1, <4>1 DEF UnawareRaces, Unaware
      <4>2. CASE q # p
        <5>1. UNCHANGED <<pc[q], call[q], seen[q]>> /\ call[q].loan \in Loans /\ q \in Calls \ {p}
          BY <2>1, <4>2, <1>0, CallParts DEF Alone, Procs, TypeOK
        <5>2. CASE call[q].loan = l
          BY <5>1, <5>2, <3>5 DEF UnawareRaces, Unaware, Refused
        <5>3. CASE call[q].loan # l
          <6>1. UnawareRaces(q)
            BY <1>0 DEF LateApprovalsRace
          <6> QED
            BY <5>1, <5>3, <3>5, <6>1 DEF UnawareRaces, Unaware, Refused
        <5> QED
          BY <5>2, <5>3
      <4> QED
        BY <4>1, <4>2
    <3> QED
      BY <3>7, <3>8, <3>9 DEF LateApprovalsRace
  <2> QED
    BY <2>2, <2>3
<1>10. CASE Frozen /\ UNCHANGED ghosts
  BY <1>10, <1>1, <1>3 DEF ghosts
<1>11. CASE \E p \in Procs : Step(p) \/ Fail(p)
  BY <1>11, <1>1, <1>7, <1>8, <1>9
<1>12. CASE \/ \E p \in Calls, l \in Loans : Request(p, l)
            \/ \E j \in Jobs, l \in Loans, i \in Slots : Take(j, l, i)
  BY <1>12, <1>1, <1>5, <1>6 DEF ghosts
<1> QED
  BY <1>10, <1>11, <1>12, OthersFrozen

\* Of two approvals of one loan the later pays out too only if it had looked for
\* the schedule before the other's commit: one that looks after it is refused.
THEOREM LoansAreDisbursedOnce == Spec => []DisbursedOnce
<1>1. PayoutInv /\ [Next]_vars => PayoutInv'
  BY PayoutStep, WorkHasRowStep, TypeStep DEF PayoutInv
<1>2. PayoutInv => DisbursedOnce
  BY DEF PayoutInv
<1> QED
  BY PayoutInit, <1>1, <1>2, PTL DEF Spec

-----------------------------------------------------------------------------
(***************************************************************************)
(* Sums.  The fold of MapThenSumSet is a function defined by recursion     *)
(* over the subsets of a set.  That there is one, what it returns and how  *)
(* it changes with one summand follows by induction; the induction is      *)
(* brought back to theorems that take sets instead of predicates, WFMin    *)
(* about well-founded relations.                                           *)
(***************************************************************************)
Pick(s) == CHOOSE x \in s : TRUE
SumUp(f, g, s) == IF s = {} THEN 0 ELSE f[Pick(s)] + g[s \ {Pick(s)}]
Sums(f, D, g) == g \in [D -> Int] /\ \A s \in D : g[s] = SumUp(f, g, s)
Upto(S, n) == {s \in SUBSET S : Cardinality(s) <= n}

LEMMA Picked == ASSUME NEW s, s # {} PROVE Pick(s) \in s
  BY DEF Pick

LEMMA TotalIsSum ==
  ASSUME NEW f, NEW S
  PROVE  Total(f, S) = (CHOOSE g : g = [s \in SUBSET S |-> SumUp(f, g, s)])[S]
  BY DEF Total, MapThenSumSet, MapThenFoldSet, SumUp, Pick

LEMMA NatSetInduction == ASSUME NEW T, 0 \in T, \A n \in T \cap Nat : n + 1 \in T PROVE Nat \subseteq T
<1> SUFFICES ASSUME Nat \ T # {} PROVE FALSE
  OBVIOUS
<1>1. PICK n \in Nat \ T : \A m \in Nat \ T : <<m, n>> \notin OpToRel(<, Nat)
  BY WFMin, NatLessThanWellFounded
<1>2. \A m \in Nat \ T : ~ (m < n)
  BY <1>1 DEF OpToRel
<1>3. n # 0 /\ n - 1 \in Nat
  OBVIOUS
<1> QED
  BY <1>2, <1>3

\* What holds of the empty set, and of every set if it holds without the element
\* picked from it, holds of all subsets.
LEMMA PickInduction ==
  ASSUME NEW S, IsFiniteSet(S), NEW T, {} \in T,
         \A s \in SUBSET S : s # {} /\ s \ {Pick(s)} \in T => s \in T
  PROVE  SUBSET S \subseteq T
<1> SUFFICES ASSUME (SUBSET S) \ T # {} PROVE FALSE
  OBVIOUS
<1>1. IsWellFoundedOn(StrictSubsetOrdering(S), SUBSET S)
  BY FS_StrictSubsetOrderingWellFounded, FS_FiniteSubsetsOfFinite
<1> DEFINE Bad == (SUBSET S) \ T
<1>2. PICK s \in Bad : \A t \in Bad : <<t, s>> \notin StrictSubsetOrdering(S)
  <2>1. Bad \subseteq SUBSET S /\ Bad # {}
    OBVIOUS
  <2> HIDE DEF Bad
  <2> QED
    BY <1>1, <2>1, WFMin
<1>3. s # {} /\ Pick(s) \in s
  BY Picked
<1>4. <<s \ {Pick(s)}, s>> \in StrictSubsetOrdering(S)
  BY <1>3 DEF StrictSubsetOrdering
<1> QED
  BY <1>2, <1>3, <1>4

\* The recursion has a solution: it is built up for the subsets of at most n elements.
LEMMA SumsExist ==
  ASSUME NEW S, IsFiniteSet(S), NEW f, \A x \in S : f[x] \in Int
  PROVE  \E g : Sums(f, SUBSET S, g)
<1> DEFINE T == {n \in Nat : \E g : Sums(f, Upto(S, n), g)}
<1>0. \A s \in SUBSET S : IsFiniteSet(s) /\ Cardinality(s) \in Nat /\ Cardinality(s) <= Cardinality(S)
  BY FS_Subset, FS_CardinalityType
<1>1. 0 \in T
  <2>1. \A s \in Upto(S, 0) : s = {}
    BY <1>0, FS_EmptySet DEF Upto
  <2>2. Sums(f, Upto(S, 0), [s \in Upto(S, 0) |-> 0])
    BY <2>1 DEF Sums, SumUp
  <2> QED
    BY <2>2
<1>2. ASSUME NEW n \in T \cap Nat PROVE n + 1 \in T
  <2>1. PICK g : Sums(f, Upto(S, n), g)
    OBVIOUS
  <2> DEFINE h == [s \in Upto(S, n + 1) |-> SumUp(f, g, s)]
  <2>2. ASSUME NEW s \in Upto(S, n + 1), s # {}
        PROVE  Pick(s) \in S /\ s \ {Pick(s)} \in Upto(S, n)
    <3>1. Pick(s) \in s /\ s \in SUBSET S /\ IsFiniteSet(s)
      BY <2>2, <1>0, Picked DEF Upto
    <3>2. Cardinality(s \ {Pick(s)}) = Cardinality(s) - 1
      BY <3>1, FS_RemoveElement
    <3>3. Cardinality(s) \in Nat /\ Cardinality(s) <= n + 1
      BY <3>1, <1>0 DEF Upto
    <3> QED
      BY <3>1, <3>2, <3>3 DEF Upto
  <2>3. \A s \in Upto(S, n) : h[s] = g[s]
    <3>1. \A s \in Upto(S, n) : s \in Upto(S, n + 1) /\ g[s] = SumUp(f, g, s)
      BY <2>1, <1>0 DEF Sums, Upto
    <3> QED
      BY <3>1
  <2>4. ASSUME NEW s \in Upto(S, n + 1)
        PROVE  h[s] \in Int /\ h[s] = SumUp(f, h, s)
    <3>1. CASE s = {}
      BY <3>1 DEF SumUp
    <3>2. CASE s # {}
      <4>1. h[s] = f[Pick(s)] + g[s \ {Pick(s)}] /\ SumUp(f, h, s) = f[Pick(s)] + h[s \ {Pick(s)}]
        BY <3>2 DEF SumUp
      <4>2. f[Pick(s)] \in Int /\ g[s \ {Pick(s)}] \in Int /\ h[s \ {Pick(s)}] = g[s \ {Pick(s)}]
        BY <3>2, <2>1, <2>2, <2>3 DEF Sums
      <4> HIDE DEF h
      <4> QED
        BY <4>1, <4>2
    <3> QED
      BY <3>1, <3>2
  <2>5. h \in [Upto(S, n + 1) -> Int]
    BY <2>4
  <2> HIDE DEF h
  <2>6. Sums(f, Upto(S, n + 1), h)
    BY <2>4, <2>5 DEF Sums
  <2> QED
    BY <2>6
<1>3. Nat \subseteq T
  <2> HIDE DEF T
  <2> QED
    BY <1>1, <1>2, NatSetInduction
<1>4. Cardinality(S) \in Nat /\ Upto(S, Cardinality(S)) = SUBSET S
  BY <1>0 DEF Upto
<1> QED
  BY <1>3, <1>4

LEMMA TotalUnfolds ==
  ASSUME NEW S, IsFiniteSet(S), NEW f, \A x \in S : f[x] \in Int
  PROVE  \E g : Sums(f, SUBSET S, g) /\ Total(f, S) = g[S]
<1> DEFINE Is(g) == g = [s \in SUBSET S |-> SumUp(f, g, s)]
           i == CHOOSE g : Is(g)
<1>1. \E g : Is(g)
  <2>1. PICK g : Sums(f, SUBSET S, g)
    BY SumsExist
  <2>2. Is(g)
    BY <2>1 DEF Sums
  <2> QED
    BY <2>2
<1>2. Is(i)
  <2> HIDE DEF Is
  <2> QED
    BY <1>1
<1>3. Total(f, S) = i[S]
  BY TotalIsSum
<1> HIDE DEF i
<1>4. /\ i = [s \in SUBSET S |-> i[s]]
      /\ \A s \in SUBSET S : i[s] = SumUp(f, i, s)
  BY <1>2
<1> HIDE DEF Is
<1> DEFINE T == {s \in SUBSET S : i[s] \in Int}
<1>5. {} \in T
  <2>1. i[{}] = SumUp(f, i, {})
    BY <1>4
  <2> QED
    BY <2>1 DEF SumUp
<1>6. ASSUME NEW s \in SUBSET S, s # {}, s \ {Pick(s)} \in T PROVE s \in T
  <2>1. Pick(s) \in S /\ f[Pick(s)] \in Int /\ i[s \ {Pick(s)}] \in Int
    BY <1>6, Picked
  <2>2. i[s] = f[Pick(s)] + i[s \ {Pick(s)}]
    BY <1>4, <1>6 DEF SumUp
  <2> QED
    BY <2>1, <2>2
<1>7. SUBSET S \subseteq T
  <2> HIDE DEF T
  <2> QED
    BY <1>5, <1>6, PickInduction
<1>8. Sums(f, SUBSET S, i)
  BY <1>4, <1>7 DEF Sums
<1> QED
  BY <1>3, <1>8

\* When one summand changes, the sum changes by as much.
LEMMA TotalChanges ==
  ASSUME NEW S, IsFiniteSet(S), NEW f, NEW g, \A y \in S : f[y] \in Int /\ g[y] \in Int,
         NEW x, \A y \in S \ {x} : g[y] = f[y]
  PROVE  /\ Total(f, S) \in Int
         /\ Total(g, S) = Total(f, S) + (IF x \in S THEN g[x] - f[x] ELSE 0)
<1>1. PICK i : Sums(f, SUBSET S, i) /\ Total(f, S) = i[S]
  BY TotalUnfolds
<1>2. PICK j : Sums(g, SUBSET S, j) /\ Total(g, S) = j[S]
  BY TotalUnfolds
<1> DEFINE T == {s \in SUBSET S : j[s] = i[s] + (IF x \in s THEN g[x] - f[x] ELSE 0)}
<1>3. {} \in T
  <2>1. i[{}] = SumUp(f, i, {}) /\ j[{}] = SumUp(g, j, {})
    BY <1>1, <1>2 DEF Sums
  <2> QED
    BY <2>1 DEF SumUp
<1>4. ASSUME NEW s \in SUBSET S, s # {}, s \ {Pick(s)} \in T PROVE s \in T
  <2> DEFINE y == Pick(s)
             t == s \ {y}
  <2>1. y \in s /\ t \in SUBSET S /\ (y # x => g[y] = f[y])
    BY <1>4, Picked
  <2>2. j[t] = i[t] + (IF x \in t THEN g[x] - f[x] ELSE 0)
    BY <1>4
  <2>3. /\ i[s] = f[y] + i[t] /\ j[s] = g[y] + j[t]
        /\ f[y] \in Int /\ g[y] \in Int /\ i[t] \in Int /\ j[t] \in Int /\ i[s] \in Int
    BY <1>1, <1>2, <1>4, <2>1 DEF SumUp, Sums
  <2>4. x \in s => f[x] \in Int /\ g[x] \in Int
    OBVIOUS
  <2>5. x \in t <=> x \in s /\ x # y
    OBVIOUS
  <2> HIDE DEF y, t
  <2>6. j[s] = i[s] + (IF x \in s THEN g[x] - f[x] ELSE 0)
    <3>1. CASE x \notin s
      BY <3>1, <2>1, <2>2, <2>3, <2>5
    <3>2. CASE x \in s /\ x = y
      BY <3>2, <2>2, <2>3, <2>4, <2>5
    <3>3. CASE x \in s /\ x # y
      BY <3>3, <2>1, <2>2, <2>3, <2>4, <2>5
    <3> QED
      BY <3>1, <3>2, <3>3
  <2> QED
    BY <2>6
<1>5. SUBSET S \subseteq T
  <2> HIDE DEF T
  <2> QED
    BY <1>3, <1>4, PickInduction
<1>6. S \in SUBSET S /\ S \in T /\ i[S] \in Int
  BY <1>1, <1>5 DEF Sums
<1> QED
  BY <1>1, <1>2, <1>6

LEMMA TotalOfNothing ==
  ASSUME NEW S, IsFiniteSet(S), NEW f, \A x \in S : f[x] = 0
  PROVE  Total(f, S) = 0
<1>1. PICK i : Sums(f, SUBSET S, i) /\ Total(f, S) = i[S]
  <2>1. \A x \in S : f[x] \in Int
    OBVIOUS
  <2> QED
    BY <2>1, TotalUnfolds
<1> DEFINE T == {s \in SUBSET S : i[s] = 0}
<1>2. {} \in T
  BY <1>1 DEF Sums, SumUp
<1>3. ASSUME NEW s \in SUBSET S, s # {}, s \ {Pick(s)} \in T PROVE s \in T
  <2>1. f[Pick(s)] = 0 /\ i[s \ {Pick(s)}] = 0
    BY <1>3, Picked
  <2>2. i[s] = f[Pick(s)] + i[s \ {Pick(s)}]
    BY <1>1, <1>3 DEF Sums, SumUp
  <2> QED
    BY <2>1, <2>2
<1>4. SUBSET S \subseteq T
  <2> HIDE DEF T
  <2> QED
    BY <1>2, <1>3, PickInduction
<1> QED
  BY <1>1, <1>4

-----------------------------------------------------------------------------
(***************************************************************************)
(* What the two transactions do, a payout and a payment.                   *)
(***************************************************************************)
LEMMA ApproveDoes ==
  ASSUME TypeOK, NEW p \in Procs, Approve(p), ~ Refused(p), ~ stale',
         NEW l, l = call[p].loan, NEW u, u = Borrower[l]
  PROVE  /\ l \in Loans /\ u \in Users
         /\ status[l] = "PENDING" /\ status'[l] = Column("ACTIVE", seen[p].loan, "PENDING")
         /\ \A m \in Loans \ {l} : status'[m] = status[m] /\ inst'[m] = inst[m] /\ disbursed'[m] = disbursed[m]
         /\ \A i \in Slots : inst'[l][i] = IF i[1] = p THEN Scheduled ELSE inst[l][i]
         /\ wallet'[u] = wallet[u] + Principal
         /\ \A x \in Users \ {u} : wallet'[x] = wallet[x]
         /\ disbursed'[l] = disbursed[l] + 1
         /\ ~ stale
         /\ UNCHANGED <<collected, spent>>
<1>1. l \in Loans /\ u \in Users
  BY CallParts DEF TypeOK
<1>2. /\ status' = [status EXCEPT ![l] = Column("ACTIVE", seen[p].loan, @)]
      /\ inst' = [inst EXCEPT ![l] = [i \in Slots |-> IF i[1] = p THEN Scheduled ELSE @[i]]]
      /\ wallet' = [wallet EXCEPT ![u] = known[p] + Principal]
      /\ disbursed' = [disbursed EXCEPT ![l] = @ + 1]
      /\ stale' = (stale \/ wallet[u] # known[p] \/ status[l] # "PENDING")
      /\ UNCHANGED <<collected, bounds>>
  BY DEF Approve, WriteWallet, WalletIsStale
<1>3. ~ stale /\ wallet[u] = known[p] /\ status[l] = "PENDING"
  BY <1>2 DEF TypeOK
<1>4. /\ wallet'[u] = wallet[u] + Principal
      /\ \A x \in Users \ {u} : wallet'[x] = wallet[x]
  BY <1>1, <1>2, <1>3 DEF TypeOK
<1>5. /\ status'[l] = Column("ACTIVE", seen[p].loan, "PENDING")
      /\ \A m \in Loans \ {l} : status'[m] = status[m] /\ inst'[m] = inst[m] /\ disbursed'[m] = disbursed[m]
      /\ disbursed'[l] = disbursed[l] + 1
  BY <1>1, <1>2, <1>3 DEF TypeOK
<1>6. \A i \in Slots : inst'[l][i] = IF i[1] = p THEN Scheduled ELSE inst[l][i]
  BY <1>1, <1>2 DEF TypeOK
<1> QED
  BY <1>1, <1>2, <1>3, <1>4, <1>5, <1>6 DEF bounds

\* What was found is still there, and is written as it was meant.
LEMMA WrittenAsMeant == ASSUME NEW e \in Rows, NEW n PROVE Written(e, n, n) = e
  BY DEF Written, Column, Rows

LEMMA PayDoes ==
  ASSUME TypeOK, NEW p \in Procs, Pay(p), ~ stale',
         NEW l, l = call[p].loan, NEW i, i = call[p].slot, NEW u, u = Borrower[l],
         NEW a, a = Payment(call[p], inst[l][i])
  PROVE  /\ l \in Loans /\ i \in Slots /\ u \in Users /\ a \in Int
         /\ call[p].op \in {"repay", "debit"} /\ pc[p] = "commit"
         /\ inst[l][i] = found[p].row
         /\ inst'[l][i] = PaidWith(inst[l][i], a)
         /\ \A k \in Slots \ {i} : inst'[l][k] = inst[l][k]
         /\ collected'[l][i] = collected[l][i] + a
         /\ \A k \in Slots \ {i} : collected'[l][k] = collected[l][k]
         /\ \A m \in Loans \ {l} : status'[m] = status[m] /\ inst'[m] = inst[m] /\ collected'[m] = collected[m]
         /\ status'[l] = IF AllPaid(inst'[l]) THEN "REPAID" ELSE status[l]
         /\ AllPaid(inst'[l]) => status[l] = "ACTIVE"
         /\ wallet'[u] = wallet[u] + (- a)
         /\ \A x \in Users \ {u} : wallet'[x] = wallet[x]
         /\ ~ stale
         /\ UNCHANGED <<disbursed, spent>>
<1>1. /\ l \in Loans /\ i \in Slots /\ u \in Users
      /\ inst[l][i] \in Rows /\ found[p].row \in Rows /\ call[p] \in CallsOf
  BY CallParts DEF TypeOK, Entities
<1> DEFINE before == IF call[p].op = "repay" THEN seen[p].row ELSE inst[l][i]
           amount == Payment(call[p], found[p].row)
           paid == [inst[l] EXCEPT ![i] = Written(PaidWith(found[p].row, amount), before, @)]
<1>2. /\ inst' = [inst EXCEPT ![l] = paid]
      /\ wallet' = [wallet EXCEPT ![u] = known[p] + (- amount)]
      /\ status' = [status EXCEPT ![l] = IF AllPaid(paid) THEN "REPAID" ELSE @]
      /\ collected' = [collected EXCEPT ![l][i] = @ + amount]
      /\ stale' = (\/ stale
                   \/ wallet[u] # known[p]
                   \/ inst[l][i] # found[p].row
                   \/ before # found[p].row
                   \/ AllPaid(paid) /\ status[l] # "ACTIVE")
      /\ UNCHANGED <<disbursed, bounds>>
      /\ call[p].op \in {"repay", "debit"} /\ pc[p] = "commit"
  BY DEF Pay, WriteWallet, WalletIsStale
<1>3. /\ ~ stale /\ wallet[u] = known[p] /\ inst[l][i] = found[p].row /\ before = inst[l][i]
      /\ AllPaid(paid) => status[l] = "ACTIVE"
  BY <1>2 DEF TypeOK
<1>4. amount = a /\ a \in Int /\ PaidWith(inst[l][i], a) \in Rows
  <2>1. amount = a
    BY <1>3
  <2> HIDE DEF before, amount, paid
  <2>2. a \in Int /\ PaidWith(inst[l][i], a) \in Rows
    BY <1>1, PaymentType
  <2> QED
    BY <2>1, <2>2
<1>5. paid = [inst[l] EXCEPT ![i] = PaidWith(inst[l][i], a)]
  BY <1>3, <1>4, WrittenAsMeant
<1> HIDE DEF before, amount, paid
<1>6. inst'[l] = paid /\ \A m \in Loans \ {l} : inst'[m] = inst[m]
  BY <1>1, <1>2 DEF TypeOK
<1>7. inst'[l][i] = PaidWith(inst[l][i], a) /\ \A k \in Slots \ {i} : inst'[l][k] = inst[l][k]
  <2>1. inst[l] \in [Slots -> Rows]
    BY <1>1 DEF TypeOK
  <2>2. inst'[l] = [inst[l] EXCEPT ![i] = PaidWith(inst[l][i], a)]
    BY <1>5, <1>6
  <2>3. i \in Slots
    BY <1>1
  <2> QED
    BY <2>1, <2>2, <2>3
<1>8. /\ collected'[l][i] = collected[l][i] + a
      /\ \A k \in Slots \ {i} : collected'[l][k] = collected[l][k]
      /\ \A m \in Loans \ {l} : collected'[m] = collected[m]
  BY <1>1, <1>2, <1>4 DEF TypeOK
<1>9. /\ wallet'[u] = wallet[u] + (- a)
      /\ \A x \in Users \ {u} : wallet'[x] = wallet[x]
  BY <1>1, <1>2, <1>3, <1>4 DEF TypeOK
<1>10. /\ status'[l] = IF AllPaid(inst'[l]) THEN "REPAID" ELSE status[l]
       /\ \A m \in Loans \ {l} : status'[m] = status[m]
       /\ AllPaid(inst'[l]) => status[l] = "ACTIVE"
  BY <1>1, <1>2, <1>3, <1>6 DEF TypeOK
<1> QED
  BY <1>1, <1>2, <1>3, <1>4, <1>6, <1>7, <1>8, <1>9, <1>10 DEF bounds

-----------------------------------------------------------------------------
(***************************************************************************)
(* All money comes from payouts and goes into repayments.                  *)
(***************************************************************************)
LEMMA Finite == IsFiniteSet(Loans) /\ IsFiniteSet(Users) /\ IsFiniteSet(Slots)
<1>1. IsFiniteSet(Calls) /\ IsFiniteSet(Numbers)
  BY LoansAssumption
<1>2. IsFiniteSet(Slots)
  BY <1>1, FS_Product DEF Slots
<1> QED
  BY <1>2, LoansAssumption

LEMMA BothSidesGrow ==
  ASSUME NEW w \in Int, NEW s \in Int, NEW t \in Int, NEW k \in Int, NEW f \in Int, NEW x \in Int,
         NEW y \in Int, NEW a \in Int, NEW c \in Int,
         w + s + k = f + x, a + c + t - s = y
  PROVE  (w + a) + t + (k + c) = f + (x + y)
  OBVIOUS

\* A wallet changes by a, what was collected for an instalment by c, and the number
\* of payouts of its loan by d.
LEMMA Balanced ==
  ASSUME TypeOK, TypeOK', MoneyIsConserved, ~ stale,
         NEW u \in Users, NEW l \in Loans, NEW i \in Slots, NEW a \in Int, NEW c \in Int, NEW d \in Int,
         wallet'[u] = wallet[u] + a, \A x \in Users \ {u} : wallet'[x] = wallet[x],
         collected'[l][i] = collected[l][i] + c,
         \A k \in Slots \ {i} : collected'[l][k] = collected[l][k],
         \A m \in Loans \ {l} : collected'[m] = collected[m],
         disbursed'[l] = disbursed[l] + d, \A m \in Loans \ {l} : disbursed'[m] = disbursed[m],
         a + c + spent' - spent = Principal * d
  PROVE  MoneyIsConserved'
<1>1. Total(wallet, Users) \in Int /\ Total(wallet', Users) = Total(wallet, Users) + a
  <2>1. \A x \in Users : wallet[x] \in Int /\ wallet'[x] \in Int
    BY DEF TypeOK
  <2>2. /\ Total(wallet, Users) \in Int
        /\ Total(wallet', Users) = Total(wallet, Users) + (IF u \in Users THEN wallet'[u] - wallet[u] ELSE 0)
    BY <2>1, Finite, TotalChanges
  <2> QED
    BY <2>1, <2>2
<1>2. Total(disbursed, Loans) \in Int /\ Total(disbursed', Loans) = Total(disbursed, Loans) + d
  <2>1. PICK f, g : f = disbursed /\ g = disbursed'
    OBVIOUS
  <2>2. \A m \in Loans : f[m] \in Int /\ g[m] \in Int /\ (m # l => g[m] = f[m])
    BY <2>1 DEF TypeOK
  <2>3. g[l] - f[l] = d
    BY <2>1, <2>2
  <2>4. Total(f, Loans) \in Int /\ Total(g, Loans) = Total(f, Loans) + (IF l \in Loans THEN g[l] - f[l] ELSE 0)
    BY <2>2, Finite, TotalChanges
  <2> QED
    BY <2>1, <2>3, <2>4
<1>3. \A m \in Loans : Total(collected[m], Slots) \in Int
  <2>1. ASSUME NEW m \in Loans PROVE Total(collected[m], Slots) \in Int
    <3>1. \A k \in Slots : collected[m][k] \in Int
      BY DEF TypeOK
    <3> QED
      BY <3>1, Finite, TotalChanges
  <2> QED
    BY <2>1
<1>4. Total(collected'[l], Slots) = Total(collected[l], Slots) + c
  <2>1. PICK f, g : f = collected[l] /\ g = collected'[l]
    OBVIOUS
  <2>2. \A k \in Slots : f[k] \in Int /\ g[k] \in Int
    BY <2>1 DEF TypeOK
  <2>3. (\A k \in Slots \ {i} : g[k] = f[k]) /\ g[i] - f[i] = c
    BY <2>1, <2>2
  <2>4. Total(f, Slots) \in Int /\ Total(g, Slots) = Total(f, Slots) + (IF i \in Slots THEN g[i] - f[i] ELSE 0)
    BY <2>2, <2>3, Finite, TotalChanges
  <2> QED
    BY <2>1, <2>3, <2>4
<1>5. Total(Collected, Loans) \in Int /\ Total(Collected', Loans) = Total(Collected, Loans) + c
  <2>1. PICK f, g : f = Collected /\ g = Collected'
    OBVIOUS
  <2>2. \A m \in Loans : f[m] = Total(collected[m], Slots) /\ g[m] = Total(collected'[m], Slots)
    BY <2>1 DEF Collected
  <2>3. \A m \in Loans : f[m] \in Int /\ g[m] \in Int /\ (m # l => g[m] = f[m])
    BY <1>3, <1>4, <2>2
  <2>4. Total(f, Loans) \in Int /\ Total(g, Loans) = Total(f, Loans) + (IF l \in Loans THEN g[l] - f[l] ELSE 0)
    BY <2>3, Finite, TotalChanges
  <2>5. g[l] - f[l] = c
    BY <1>3, <1>4, <2>2
  <2> QED
    BY <2>1, <2>4, <2>5
<1>6. Total(Funds, Users) \in Int
  <2>1. \A x \in Users : Funds[x] \in Int
    BY LoansAssumption
  <2> QED
    BY <2>1, Finite, TotalChanges
<1>7. /\ Principal * Total(disbursed, Loans) \in Int /\ Principal * d \in Int
      /\ Principal * Total(disbursed', Loans) = Principal * Total(disbursed, Loans) + Principal * d
  <2>1. \A q, n, e \in Int : q * n \in Int /\ q * e \in Int /\ q * (n + e) = q * n + q * e
    OBVIOUS
  <2>2. Principal \in Int
    BY LoansAssumption
  <2> QED
    BY <1>2, <2>1, <2>2
<1>8. Total(wallet, Users) + spent + Total(Collected, Loans)
        = Total(Funds, Users) + Principal * Total(disbursed, Loans)
  BY DEF MoneyIsConserved
<1>9. spent \in Int /\ spent' \in Int /\ Principal \in Int
  BY LoansAssumption DEF TypeOK
<1>10. Total(wallet', Users) + spent' + Total(Collected', Loans)
         = Total(Funds, Users) + Principal * Total(disbursed', Loans)
  <2>1. PICK x, y : x = Principal * Total(disbursed, Loans) /\ y = Principal * d
    OBVIOUS
  <2>2. x \in Int /\ y \in Int /\ Principal * Total(disbursed', Loans) = x + y
    BY <1>7, <2>1
  <2>3. /\ Total(wallet, Users) + spent + Total(Collected, Loans) = Total(Funds, Users) + x
        /\ a + c + spent' - spent = y
    BY <1>8, <2>1
  <2>4. Total(wallet', Users) + spent' + Total(Collected', Loans) = Total(Funds, Users) + (x + y)
    <3>1. /\ Total(wallet, Users) \in Int /\ Total(Collected, Loans) \in Int
          /\ Total(Funds, Users) \in Int /\ spent \in Int /\ spent' \in Int
      BY <1>1, <1>5, <1>6, <1>9
    <3>2. (Total(wallet, Users) + a) + spent' + (Total(Collected, Loans) + c) = Total(Funds, Users) + (x + y)
      <4>1. x \in Int /\ y \in Int
        BY <2>2
      <4>2. PICK w \in Int, k \in Int, f \in Int, m \in Int, n \in Int :
              /\ w = Total(wallet, Users) /\ k = Total(Collected, Loans) /\ f = Total(Funds, Users)
              /\ m = spent /\ n = spent'
        BY <3>1
      <4>3. w + m + k = f + x /\ a + c + n - m = y
        BY <2>3, <4>2
      <4>4. (w + a) + n + (k + c) = f + (x + y)
        BY <4>1, <4>3, BothSidesGrow
      <4> QED
        BY <4>2, <4>4
    <3> QED
      BY <1>1, <1>5, <3>2
  <2> QED
    BY <2>2, <2>4
<1> QED
  BY <1>10 DEF MoneyIsConserved

\* What the steps other than the two transactions leave alone.
LEMMA MoneyStaysPut ==
  ASSUME [Next]_vars
  PROVE  \/ UNCHANGED <<wallet, spent, collected, disbursed>> /\ (stale => stale')
         \/ \E u \in Users, a \in Amounts : Spend(u, a)
         \/ \E p \in Procs : Pay(p) \/ (Approve(p) /\ ~ Refused(p))
<1> USE DEF rows, work, run, ghosts, bounds
<1> DEFINE Put == UNCHANGED <<wallet, spent, collected, disbursed>> /\ (stale => stale')
<1>1. ASSUME NEW p \in Procs, Step(p) \/ Fail(p), ~ Pay(p), ~ Approve(p) \/ Refused(p) PROVE Put
  <2>1. CASE Approve(p)
    BY <1>1, <2>1 DEF Approve
  <2>2. CASE UpdateLoan(p) \/ UpdateRow(p)
    BY <2>2 DEF UpdateLoan, UpdateRow
  <2>3. CASE ReadUser(p) \/ Select(p) \/ Flag(p) \/ Fail(p)
    BY <2>3 DEF ReadUser, Select, Flag, Fail
  <2> QED
    BY <1>1, <2>1, <2>2, <2>3 DEF Step
<1>2. ASSUME NEW l \in Loans, Apply(l) \/ \E n \in Numbers : Grow(l, n) PROVE Put
  BY <1>2 DEF Apply, Grow
<1>3. ASSUME NEW j \in Jobs, Finish(j) \/ \E k \in {"debit", "penalty"} : Find(j, k) PROVE Put
  BY <1>3 DEF Finish, Find
<1>4. ASSUME NEW p, NEW l, Request(p, l) PROVE Put
  BY <1>4 DEF Request, Start
<1>5. ASSUME NEW j, NEW l, NEW i, Take(j, l, i) PROVE Put
  BY <1>5 DEF Take, Start
<1>6. ASSUME UNCHANGED vars PROVE Put
  BY <1>6 DEF vars
<1> HIDE DEF Put
<1> DEFINE Moves == \/ \E u \in Users, a \in Amounts : Spend(u, a)
                    \/ \E p \in Procs : Pay(p) \/ (Approve(p) /\ ~ Refused(p))
<1>7. (\E p \in Procs : Step(p) \/ Fail(p)) => Put \/ Moves
  BY <1>1
<1>8. (\E u \in Users, a \in Amounts : Spend(u, a)) => Moves
  OBVIOUS
<1> HIDE DEF Moves
<1>9. Put \/ Moves
  <2>1. (\E l \in Loans : Apply(l)) \/ (\E l \in Loans, n \in Numbers : Grow(l, n)) => Put
    BY <1>2
  <2>2. (\E j \in Jobs : Finish(j) \/ \E k \in {"debit", "penalty"} : Find(j, k)) => Put
    BY <1>3
  <2>3. /\ (\E p \in Calls, l \in Loans : Request(p, l)) => Put
        /\ (\E j \in Jobs, l \in Loans, i \in Slots : Take(j, l, i)) => Put
    BY <1>4, <1>5
  <2> QED
    BY <1>6, <1>7, <1>8, <2>1, <2>2, <2>3, NextCases
<1> QED
  BY <1>9 DEF Put, Moves

LEMMA ConservedStep == TypeOK /\ TypeOK' /\ MoneyIsConserved /\ [Next]_vars => MoneyIsConserved'
<1> SUFFICES ASSUME TypeOK, TypeOK', MoneyIsConserved, [Next]_vars, ~ stale' PROVE MoneyIsConserved'
  BY DEF MoneyIsConserved
<1>1. CASE UNCHANGED <<wallet, spent, collected, disbursed>> /\ (stale => stale')
  BY <1>1 DEF MoneyIsConserved, Collected
<1>2. ASSUME NEW u \in Users, NEW a \in Amounts, Spend(u, a) PROVE MoneyIsConserved'
  <2>1. PICK l \in Loans, i \in Slots : TRUE
    BY Defaulted, LoansAssumption
  <2>2. a \in Int /\ - a \in Int /\ spent \in Int
    BY LoansAssumption DEF TypeOK
  <2>3. /\ wallet' = [wallet EXCEPT ![u] = @ - a] /\ spent' = spent + a
        /\ UNCHANGED <<collected, disbursed, stale>>
    BY <1>2 DEF Spend, ghosts
  <2>4. /\ wallet'[u] = wallet[u] + (- a)
        /\ \A x \in Users \ {u} : wallet'[x] = wallet[x]
    BY <2>2, <2>3 DEF TypeOK
  <2>5. /\ collected'[l][i] = collected[l][i] + 0 /\ disbursed'[l] = disbursed[l] + 0
        /\ \A k \in Slots \ {i} : collected'[l][k] = collected[l][k]
        /\ \A m \in Loans \ {l} : collected'[m] = collected[m] /\ disbursed'[m] = disbursed[m]
    BY <2>3 DEF TypeOK
  <2>6. (- a) + 0 + spent' - spent = Principal * 0
    BY <2>2, <2>3, LoansAssumption
  <2>7. ~ stale /\ 0 \in Int
    BY <2>3
  <2> QED
    BY <2>2, <2>4, <2>5, <2>6, <2>7, Balanced
<1>3. ASSUME NEW p \in Procs, Pay(p) PROVE MoneyIsConserved'
  <2>1. PICK l, i, u, a : l = call[p].loan /\ i = call[p].slot /\ u = Borrower[l] /\ a = Payment(call[p], inst[l][i])
    OBVIOUS
  <2>2. /\ l \in Loans /\ i \in Slots /\ u \in Users /\ a \in Int
        /\ collected'[l][i] = collected[l][i] + a
        /\ \A k \in Slots \ {i} : collected'[l][k] = collected[l][k]
        /\ \A m \in Loans \ {l} : collected'[m] = collected[m]
        /\ wallet'[u] = wallet[u] + (- a)
        /\ \A x \in Users \ {u} : wallet'[x] = wallet[x]
        /\ ~ stale
    BY <1>3, <2>1, PayDoes
  <2>6. UNCHANGED <<disbursed, spent>>
    BY <1>3, <2>1, PayDoes
  <2>0. PICK b, d : b = - a /\ d = 0
    OBVIOUS
  <2>3. /\ b \in Int /\ spent \in Int /\ d \in Int
        /\ disbursed'[l] = disbursed[l] + d /\ wallet'[u] = wallet[u] + b
    BY <2>0, <2>2, <2>6 DEF TypeOK
  <2>4. b + a + spent' - spent = Principal * d
    BY <2>0, <2>2, <2>3, <2>6, LoansAssumption
  <2>5. \A m \in Loans \ {l} : disbursed'[m] = disbursed[m]
    BY <2>6
  <2> QED
    BY <2>2, <2>3, <2>4, <2>5, Balanced
<1>4. ASSUME NEW p \in Procs, Approve(p), ~ Refused(p) PROVE MoneyIsConserved'
  <2>1. PICK l, u : l = call[p].loan /\ u = Borrower[l]
    OBVIOUS
  <2>0. PICK a, d : a = Principal /\ d = 1
    OBVIOUS
  <2>2. /\ l \in Loans /\ u \in Users
        /\ \A m \in Loans \ {l} : disbursed'[m] = disbursed[m]
        /\ wallet'[u] = wallet[u] + Principal
        /\ \A x \in Users \ {u} : wallet'[x] = wallet[x]
        /\ disbursed'[l] = disbursed[l] + 1
        /\ ~ stale
    BY <1>4, <2>1, ApproveDoes
  <2>6. UNCHANGED <<collected, spent>>
    BY <1>4, <2>1, ApproveDoes
  <2>3. PICK i \in Slots : TRUE
    BY Defaulted
  <2>4. /\ collected'[l][i] = collected[l][i] + 0 /\ a \in Int /\ spent \in Int /\ d \in Int
        /\ \A k \in Slots \ {i} : collected'[l][k] = collected[l][k]
        /\ \A m \in Loans \ {l} : collected'[m] = collected[m]
        /\ wallet'[u] = wallet[u] + a
        /\ disbursed'[l] = disbursed[l] + d
    BY <2>0, <2>2, <2>6, LoansAssumption DEF TypeOK
  <2>5. a + 0 + spent' - spent = Principal * d
    BY <2>0, <2>2, <2>4, <2>6, LoansAssumption
  <2> QED
    BY <2>2, <2>4, <2>5, Balanced
<1> QED
  BY <1>1, <1>2, <1>3, <1>4, MoneyStaysPut

LEMMA ConservedInit == Init => MoneyIsConserved
<1> SUFFICES ASSUME Init PROVE MoneyIsConserved
  OBVIOUS
<1>1. Total(Collected, Loans) = 0
  <2>1. ASSUME NEW l \in Loans PROVE Total(collected[l], Slots) = 0
    <3>1. \A i \in Slots : collected[l][i] = 0
      BY DEF Init
    <3> QED
      BY <3>1, Finite, TotalOfNothing
  <2>2. PICK f : f = Collected
    OBVIOUS
  <2>3. \A l \in Loans : f[l] = 0
    BY <2>1, <2>2 DEF Collected
  <2> QED
    BY <2>2, <2>3, Finite, TotalOfNothing
<1>2. Total(disbursed, Loans) = 0
  <2>1. \A l \in Loans : disbursed[l] = 0
    BY DEF Init
  <2> QED
    BY <2>1, Finite, TotalOfNothing
<1>3. Total(Funds, Users) \in Int
  <2>1. \A u \in Users : Funds[u] \in Int
    BY LoansAssumption
  <2> QED
    BY <2>1, Finite, TotalChanges
<1>4. wallet = Funds /\ spent = 0 /\ Principal * 0 = 0
  BY LoansAssumption DEF Init
<1> QED
  BY <1>1, <1>2, <1>3, <1>4 DEF MoneyIsConserved

\* What users have, have paid for something else and have paid back is what they had
\* and what was paid out to them, until somebody writes over a balance he had not
\* read: for any number of users, loans and instalments.
THEOREM MoneyStays == Spec => []MoneyIsConserved
<1> QED
  BY ConservedInit, ConservedStep, TypeCorrect, PTL DEF Spec

-----------------------------------------------------------------------------
(***************************************************************************)
(* LoansAreTrue.  What a call or run holds of a loan may be old, but some  *)
(* things cannot change back: a loan that was paid out has been paid out,  *)
(* and a loan that was decided on is not pending again.  So whoever works  *)
(* on an instalment works on a loan that was paid out (Knows), and an      *)
(* approval that saves finds the loan as pending as its SELECT has         *)
(* (SeenIsPast).  All this holds whatever is overwritten; what the rows    *)
(* say of each other (LoanIsTrue) holds until something is.                *)
(***************************************************************************)
Early == {"NONE", "PENDING"}
Lasting == {"repay", "debit", "overdue", "penalty", "default"}

Knows(p) ==
  pc[p] # "idle" =>
    /\ call[p].op \in Lasting => Outstanding(found[p].row) /\ disbursed[call[p].loan] > 0
    /\ call[p].op = "reject" => found[p].loan = "PENDING"
SeenIsPast(p) ==
  pc[p] = "commit" /\ call[p].op = "approve" /\ seen[p].loan \notin Early => status[call[p].loan] \notin Early
WorkKnows == \A p \in Procs : Knows(p) /\ SeenIsPast(p)

TodoKnows ==
  \A j \in Jobs, l \in Loans, i \in Slots :
    todo[j][l][i] # NoEntity => Outstanding(todo[j][l][i].row) /\ disbursed[l] > 0

PaidOut(l) ==
  /\ \A i \in Slots : inst[l][i] # NoRow => disbursed[l] > 0
  /\ status[l] \in {"ACTIVE", "REPAID", "DEFAULTED"} => disbursed[l] > 0
RowsKnow == \A l \in Loans : PaidOut(l)

KnowsInv == WorkKnows /\ TodoKnows /\ RowsKnow

LoanIsTrue(l) ==
  /\ \A i \in Slots : inst[l][i].paid = collected[l][i] /\ (inst[l][i].status = "NONE" => inst[l][i] = NoRow)
  /\ status[l] \in {"NONE", "PENDING", "REJECTED"} <=> disbursed[l] = 0
  /\ status[l] = "REPAID" <=>
       disbursed[l] > 0 /\ \A i \in Slots : inst[l][i].status \in {"NONE", "PAID"}
RowsAreTrue == ~ stale => \A l \in Loans : LoanIsTrue(l)

LEMMA TrueInit == Init => KnowsInv /\ RowsAreTrue
<1> SUFFICES ASSUME Init PROVE KnowsInv /\ RowsAreTrue
  OBVIOUS
<1>1. WorkKnows
  BY DEF Init, WorkKnows, Knows, SeenIsPast
<1>2. TodoKnows /\ RowsKnow
  BY DEF Init, TodoKnows, RowsKnow, PaidOut
<1>3. RowsAreTrue
  BY DEF Init, RowsAreTrue, LoanIsTrue, NoRow
<1> QED
  BY <1>1, <1>2, <1>3 DEF KnowsInv

\* Payouts are not taken back, and a loan that was decided on is not pending again.
LEMMA Onward ==
  ASSUME TypeOK, [Next]_vars, NEW l \in Loans
  PROVE  disbursed'[l] >= disbursed[l] /\ (status[l] \notin Early => status'[l] \notin Early)
<1> USE DEF rows, ghosts
<1>0. disbursed[l] \in Nat
  BY DEF TypeOK
<1>b. disbursed' = disbursed => disbursed'[l] >= disbursed[l]
  BY <1>0
<1>a. UNCHANGED <<status, disbursed>> => disbursed'[l] >= disbursed[l] /\ (status[l] \notin Early => status'[l] \notin Early)
  BY <1>0
<1>1. ASSUME NEW m \in Loans, NEW s, status' = [status EXCEPT ![m] = s],
             status[m] = "NONE" \/ s \in {"ACTIVE", "REPAID", "REJECTED", "DEFAULTED", status[m]}
      PROVE  status[l] \notin Early => status'[l] \notin Early
  BY <1>1 DEF TypeOK, Early
<1>2. ASSUME NEW p \in Procs, Approve(p) \/ Pay(p) \/ UpdateLoan(p)
      PROVE  status[l] \notin Early => status'[l] \notin Early
  <2>1. call[p].loan \in Loans
    BY CallParts DEF TypeOK
  <2>2. CASE Approve(p)
    BY <1>1, <2>1, <2>2 DEF Approve, Column
  <2>3. CASE Pay(p)
    BY <1>1, <2>1, <2>3 DEF Pay
  <2>4. CASE UpdateLoan(p)
    BY <1>1, <2>1, <2>4 DEF UpdateLoan, Column
  <2> QED
    BY <1>2, <2>2, <2>3, <2>4
<1>3. ASSUME NEW p \in Procs, Approve(p) PROVE disbursed'[l] >= disbursed[l]
  <2>1. disbursed' = disbursed \/ disbursed' = [disbursed EXCEPT ![call[p].loan] = @ + 1]
    BY <1>3 DEF Approve
  <2>2. disbursed'[l] = disbursed[l] \/ disbursed'[l] = disbursed[l] + 1
    BY <2>1 DEF TypeOK
  <2> QED
    BY <1>0, <2>2
<1>4. ASSUME NEW p \in Procs, Pay(p) \/ UpdateLoan(p) PROVE disbursed'[l] >= disbursed[l]
  BY <1>b, <1>4 DEF Pay, UpdateLoan
<1>5. ASSUME NEW p \in Procs, ReadUser(p) \/ Select(p) \/ UpdateRow(p) \/ Flag(p) \/ Fail(p)
      PROVE  UNCHANGED <<status, disbursed>>
  BY <1>5 DEF ReadUser, Select, UpdateRow, Flag, Fail
<1>6. ASSUME NEW m \in Loans, Apply(m)
      PROVE  disbursed'[l] >= disbursed[l] /\ (status[l] \notin Early => status'[l] \notin Early)
  <2>1. /\ status[m] = "NONE" /\ disbursed' = disbursed
        /\ \E s \in {"PENDING", "REJECTED"} : status' = [status EXCEPT ![m] = s]
    BY <1>6 DEF Apply
  <2> QED
    BY <1>b, <1>1, <2>1
<1>7. ASSUME NEW m \in Loans, NEW n \in Numbers, Grow(m, n) PROVE UNCHANGED <<status, disbursed>>
  BY <1>7 DEF Grow
<1>8. ASSUME NEW u, NEW a, Spend(u, a) PROVE UNCHANGED <<status, disbursed>>
  BY <1>8 DEF Spend
<1>9. ASSUME NEW p, NEW m, Request(p, m) PROVE UNCHANGED <<status, disbursed>>
  BY <1>9 DEF Request, Start
<1>10. ASSUME NEW j, NEW m, NEW i, Take(j, m, i) PROVE UNCHANGED <<status, disbursed>>
  BY <1>10 DEF Take, Start
<1>11. ASSUME NEW j, NEW k, Find(j, k) \/ Finish(j) PROVE UNCHANGED <<status, disbursed>>
  BY <1>11 DEF Find, Finish
<1>12. UNCHANGED vars => UNCHANGED <<status, disbursed>>
  BY DEF vars
<1>13. ASSUME NEW p \in Procs, Step(p) \/ Fail(p)
       PROVE  disbursed'[l] >= disbursed[l] /\ (status[l] \notin Early => status'[l] \notin Early)
  BY <1>a, <1>2, <1>3, <1>4, <1>5, <1>13 DEF Step
<1> QED
  BY <1>a, <1>6, <1>7, <1>8, <1>9, <1>10, <1>11, <1>12, <1>13, NextCases

\* What others know remains true; p has to see for itself.
LEMMA KnowsAlone ==
  ASSUME TypeOK, WorkKnows, [Next]_vars, NEW p \in Procs, Alone(p), Knows(p)', SeenIsPast(p)'
  PROVE  WorkKnows'
<1>1. ASSUME NEW q \in Procs, q # p PROVE Knows(q)' /\ SeenIsPast(q)'
  <2>1. UNCHANGED <<pc[q], call[q], found[q], seen[q]>> /\ Knows(q) /\ SeenIsPast(q)
    BY <1>1 DEF Alone, WorkKnows
  <2>2. PICK l \in Loans : l = call[q].loan
    BY CallParts DEF TypeOK
  <2>3. disbursed'[l] >= disbursed[l] /\ (status[l] \notin Early => status'[l] \notin Early)
    BY Onward
  <2>4. disbursed[l] \in Nat /\ (disbursed[l] > 0 => disbursed'[l] > 0)
    <3>1. disbursed[l] \in Nat /\ disbursed'[l] \in Nat
      BY TypeStep DEF TypeOK
    <3> QED
      BY <2>3, <3>1
  <2>5. Knows(q)'
    BY <2>1, <2>2, <2>4 DEF Knows
  <2>6. SeenIsPast(q)'
    BY <2>1, <2>2, <2>3 DEF SeenIsPast
  <2> QED
    BY <2>5, <2>6
<1> QED
  BY <1>1 DEF WorkKnows

LEMMA StartKnows ==
  ASSUME TypeOK, WorkKnows, [Next]_vars, NEW p \in Procs, NEW op, NEW l \in Loans, NEW i, NEW a, NEW e,
         NEW s \in {"user", "select"}, Start(p, op, l, i, a, e, s),
         op \in Lasting => Outstanding(e.row) /\ disbursed[l] > 0,
         op = "reject" => e.loan = "PENDING"
  PROVE  WorkKnows'
<1>1. /\ Alone(p) /\ pc'[p] = s /\ found'[p] = e /\ UNCHANGED <<rows, ghosts>>
      /\ call'[p] = [op |-> op, loan |-> l, slot |-> i, amount |-> a]
  BY StartAlone
<1>2. call'[p].op = op /\ call'[p].loan = l /\ disbursed' = disbursed
  BY <1>1 DEF ghosts
<1>3. Knows(p)' /\ SeenIsPast(p)'
  BY <1>1, <1>2 DEF Knows, SeenIsPast
<1> QED
  BY <1>1, <1>3, KnowsAlone

LEMMA WorkKnowsStep == TypeOK /\ KnowsInv /\ [Next]_vars => WorkKnows'
<1> SUFFICES ASSUME TypeOK, KnowsInv, [Next]_vars PROVE WorkKnows'
  OBVIOUS
<1>0. WorkKnows /\ TodoKnows /\ RowsKnow
  BY DEF KnowsInv
<1>1. ASSUME NEW p \in Calls, NEW l \in Loans, Request(p, l) PROVE WorkKnows'
  <2>1. PICK i \in Slots :
          \/ status[l] = "PENDING" /\ Start(p, "approve", l, i, 0, Entity(l, i), "user")
          \/ status[l] = "PENDING" /\ Start(p, "reject", l, i, 0, Entity(l, i), "select")
          \/ /\ status[l] = "ACTIVE" /\ FirstOutstanding(l, i)
             /\ \E a \in Amounts : Start(p, "repay", l, i, a, Entity(l, i), "user")
    BY <1>1, Zenon DEF Request
  <2>2. p \in Procs
    BY DEF Procs
  <2>3. Entity(l, i).loan = status[l] /\ Entity(l, i).row = inst[l][i]
    BY DEF Entity
  <2>4. CASE Start(p, "approve", l, i, 0, Entity(l, i), "user")
    BY <1>0, <2>2, <2>4, StartKnows DEF Lasting
  <2>5. CASE status[l] = "PENDING" /\ Start(p, "reject", l, i, 0, Entity(l, i), "select")
    BY <1>0, <2>2, <2>3, <2>5, StartKnows DEF Lasting
  <2>6. ASSUME status[l] = "ACTIVE", FirstOutstanding(l, i),
               NEW a \in Amounts, Start(p, "repay", l, i, a, Entity(l, i), "user")
        PROVE  WorkKnows'
    <3>1. Outstanding(Entity(l, i).row) /\ disbursed[l] > 0
      BY <1>0, <2>3, <2>6 DEF FirstOutstanding, RowsKnow, PaidOut
    <3> QED
      BY <1>0, <2>2, <2>6, <3>1, StartKnows
  <2> QED
    BY <2>1, <2>4, <2>5, <2>6
<1>2. ASSUME Frozen, disbursed' = disbursed PROVE WorkKnows'
  <2>1. ASSUME NEW p \in Procs PROVE Knows(p)' /\ SeenIsPast(p)'
    <3>1. PICK l \in Loans : l = call[p].loan
      BY CallParts DEF TypeOK
    <3>2. Knows(p) /\ SeenIsPast(p) /\ (status[l] \notin Early => status'[l] \notin Early)
      BY <1>0, Onward DEF WorkKnows
    <3> QED
      BY <1>2, <3>1, <3>2 DEF Frozen, Knows, SeenIsPast
  <2> QED
    BY <2>1 DEF WorkKnows
<1>3. ASSUME NEW j \in Jobs, NEW l \in Loans, NEW i \in Slots, Take(j, l, i) PROVE WorkKnows'
  <2>1. \/ UNCHANGED <<pc, call, found, known, seen, ghosts>>
        \/ Start(j, "debit", l, i, 0, todo[j][l][i], "user")
        \/ Start(j, "penalty", l, i, 0, todo[j][l][i], "select")
    BY <1>3, Zenon DEF Take
  <2>2. j \in Procs /\ Outstanding(todo[j][l][i].row) /\ disbursed[l] > 0
    BY <1>0, <1>3 DEF Procs, Take, TodoKnows
  <2>3. CASE UNCHANGED <<pc, call, found, known, seen, ghosts>>
    BY <1>2, <2>3 DEF Frozen, ghosts
  <2>4. ASSUME NEW op \in {"debit", "penalty"}, NEW s \in {"user", "select"},
               Start(j, op, l, i, 0, todo[j][l][i], s)
        PROVE  WorkKnows'
    BY <1>0, <2>2, <2>4, StartKnows
  <2> QED
    BY <2>1, <2>3, <2>4
<1>4. ASSUME NEW p \in Procs, Step(p) \/ Fail(p) PROVE WorkKnows'
  <2>1. Alone(p)
    BY <1>4, StepAlone
  <2>2. CASE Done(p)
    <3>1. pc'[p] = "idle"
      BY <2>2, DoneAlone
    <3>2. Knows(p)' /\ SeenIsPast(p)'
      BY <3>1 DEF Knows, SeenIsPast
    <3> QED
      BY <1>0, <2>1, <3>2, KnowsAlone
  <2>3. CASE Select(p)
    <3>1. /\ pc[p] # "idle" /\ UNCHANGED <<call, found, status, disbursed>>
          /\ seen' = [seen EXCEPT ![p] = Entity(call[p].loan, call[p].slot)]
      BY <2>3 DEF Select, rows, ghosts
    <3>2. seen'[p].loan = status[call[p].loan]
      BY <3>1 DEF TypeOK, Entity
    <3>3. Knows(p)' /\ SeenIsPast(p)'
      BY <1>0, <3>1, <3>2 DEF WorkKnows, Knows, SeenIsPast
    <3> QED
      BY <1>0, <2>1, <3>3, KnowsAlone
  <2>4. CASE ~ Done(p) /\ ~ Select(p)
    <3>1. pc[p] # "idle" /\ found' = found /\ disbursed' = disbursed
      BY <1>4, <2>4 DEF Step, ReadUser, Approve, Pay, UpdateLoan, UpdateRow, Flag, Fail, work, ghosts
    <3>2. \/ call' = call /\ Goto(p, IF call[p].op = "debit" THEN "commit" ELSE "select")
          \/ call[p].op = "debit" /\ call' = [call EXCEPT ![p].op = "overdue"] /\ Goto(p, "select")
          \/ call' = call /\ Goto(p, "flag")
          \/ call[p].op = "penalty" /\ call' = [call EXCEPT ![p].op = "default"] /\ Goto(p, "select")
      BY <1>4, <2>4, Zenon DEF Step, ReadUser, Approve, Pay, UpdateLoan, UpdateRow, Flag, Fail, work
    <3>3. /\ call'[p].loan = call[p].loan
          /\ call'[p].op = call[p].op \/ (call'[p].op \in Lasting /\ call[p].op \in Lasting)
          /\ call'[p].op # "reject" \/ call[p].op = "reject"
          /\ pc'[p] # "commit" \/ call'[p].op # "approve"
      BY <3>2 DEF TypeOK, CallsOf, Goto, Lasting
    <3>4. Knows(p)' /\ SeenIsPast(p)'
      BY <1>0, <3>1, <3>3 DEF WorkKnows, Knows, SeenIsPast
    <3> QED
      BY <1>0, <2>1, <3>4, KnowsAlone
  <2> QED
    BY <2>2, <2>3, <2>4
<1>5. CASE Frozen /\ UNCHANGED <<inst, ghosts>>
  BY <1>2, <1>5 DEF ghosts
<1> QED
  BY <1>1, <1>3, <1>4, <1>5, OthersFrozen

LEMMA TodoKnowsStep == TypeOK /\ KnowsInv /\ [Next]_vars => TodoKnows'
<1> SUFFICES ASSUME TypeOK, KnowsInv, [Next]_vars PROVE TodoKnows'
  OBVIOUS
<1>0. TodoKnows /\ RowsKnow
  BY DEF KnowsInv
<1>1. \A l \in Loans : disbursed[l] > 0 => disbursed'[l] > 0
  <2>1. ASSUME NEW l \in Loans, disbursed[l] > 0 PROVE disbursed'[l] > 0
    <3>1. disbursed[l] \in Nat /\ disbursed'[l] \in Nat
      BY TypeStep DEF TypeOK
    <3> QED
      BY <2>1, <3>1, Onward
  <2> QED
    BY <2>1
<1>2. todo' = todo => TodoKnows'
  BY <1>0, <1>1 DEF TodoKnows
<1>3. ASSUME NEW j \in Jobs, NEW k \in {"debit", "penalty"}, Find(j, k) PROVE TodoKnows'
  <2>1. todo' = [todo EXCEPT ![j] = [l \in Loans |-> [i \in Slots |->
                               IF Wanted(k, l, i) THEN Entity(l, i) ELSE NoEntity]]]
    BY <1>3 DEF Find
  <2>2. ASSUME NEW l \in Loans, NEW i \in Slots, Wanted(k, l, i)
        PROVE  Outstanding(Entity(l, i).row) /\ disbursed'[l] > 0
    <3>1. inst[l][i].status \in {"SCHEDULED", "OVERDUE"} /\ Entity(l, i).row = inst[l][i]
      BY <2>2 DEF Wanted, Entity
    <3>2. inst[l][i] # NoRow
      BY <3>1 DEF NoRow
    <3> QED
      BY <1>0, <1>1, <3>1, <3>2 DEF RowsKnow, PaidOut, Outstanding
  <2>3. ASSUME NEW h \in Jobs, NEW l \in Loans, NEW i \in Slots
        PROVE  todo'[h][l][i] \in {todo[h][l][i], NoEntity} \/ (Wanted(k, l, i) /\ todo'[h][l][i] = Entity(l, i))
    BY <2>1 DEF TypeOK
  <2> QED
    BY <1>0, <1>1, <2>2, <2>3 DEF TodoKnows
<1>4. ASSUME NEW j \in Jobs, NEW l \in Loans, NEW i \in Slots, Take(j, l, i) PROVE TodoKnows'
  <2>1. todo' = [todo EXCEPT ![j][l][i] = NoEntity]
    BY <1>4 DEF Take
  <2>2. \A h \in Jobs, m \in Loans, k \in Slots : todo'[h][m][k] \in {todo[h][m][k], NoEntity}
    BY <2>1 DEF TypeOK
  <2> QED
    BY <1>0, <1>1, <2>2 DEF TodoKnows
<1>5. ASSUME NEW p \in Procs, Step(p) \/ Fail(p) PROVE todo' = todo
  BY <1>5, StepAlone DEF run
<1>6. ASSUME NEW l \in Loans, Apply(l) \/ \E n \in Numbers : Grow(l, n) PROVE todo' = todo
  BY <1>6 DEF Apply, Grow, run
<1>7. ASSUME NEW u, NEW a, Spend(u, a) \/ Request(u, a) \/ Finish(u) PROVE todo' = todo
  BY <1>7 DEF Spend, Request, Finish, run
<1>8. UNCHANGED vars => todo' = todo
  BY DEF vars
<1> QED
  BY <1>2, <1>3, <1>4, <1>5, <1>6, <1>7, <1>8, NextCases

\* A step that works on one loan leaves what the rows of the others say.
LEMMA RowsKnowStep == TypeOK /\ KnowsInv /\ [Next]_vars => RowsKnow'
<1> SUFFICES ASSUME TypeOK, KnowsInv, [Next]_vars PROVE RowsKnow'
  OBVIOUS
<1> USE DEF rows, ghosts
<1>0. RowsKnow /\ WorkKnows
  BY DEF KnowsInv
<1>a. UNCHANGED <<status, inst, disbursed>> => RowsKnow'
  BY <1>0 DEF RowsKnow, PaidOut
<1>b. ASSUME NEW l \in Loans, PaidOut(l)',
             \A m \in Loans \ {l} : UNCHANGED <<status[m], inst[m], disbursed[m]>>
      PROVE  RowsKnow'
  BY <1>0, <1>b DEF RowsKnow, PaidOut
<1>1. ASSUME NEW l \in Loans, Apply(l) PROVE RowsKnow'
  <2>1. /\ \A m \in Loans \ {l} : UNCHANGED <<status[m], inst[m], disbursed[m]>>
        /\ status'[l] \in {"PENDING", "REJECTED"} /\ UNCHANGED <<inst, disbursed>>
    BY <1>1 DEF Apply, TypeOK
  <2>2. PaidOut(l)'
    BY <1>0, <2>1 DEF RowsKnow, PaidOut
  <2> QED
    BY <1>b, <2>1, <2>2
<1>2. ASSUME NEW p \in Procs, Approve(p) PROVE RowsKnow'
  <2>1. CASE Refused(p)
    BY <1>a, <1>2, <2>1 DEF Approve
  <2>2. CASE ~ Refused(p)
    <3>1. PICK l \in Loans : l = call[p].loan
      BY CallParts DEF TypeOK
    <3>2. /\ \E s : status' = [status EXCEPT ![l] = s]
          /\ \E r : inst' = [inst EXCEPT ![l] = r]
          /\ disbursed' = [disbursed EXCEPT ![l] = @ + 1]
      BY <1>2, <2>2, <3>1 DEF Approve
    <3>3. disbursed'[l] = disbursed[l] + 1 /\ disbursed[l] \in Nat
      BY <3>2 DEF TypeOK
    <3>4. PaidOut(l)'
      BY <3>3 DEF PaidOut
    <3>5. \A m \in Loans \ {l} : UNCHANGED <<status[m], inst[m], disbursed[m]>>
      BY <3>2 DEF TypeOK
    <3> QED
      BY <1>b, <3>4, <3>5
  <2> QED
    BY <2>1, <2>2
<1>3. ASSUME NEW p \in Procs, Pay(p) \/ UpdateLoan(p) \/ UpdateRow(p) PROVE RowsKnow'
  <2>1. PICK l \in Loans : l = call[p].loan
    BY CallParts DEF TypeOK
  <2>2. /\ pc[p] # "idle" /\ call[p].op \in Lasting \cup {"reject"}
        /\ disbursed' = disbursed
    BY <1>3 DEF Pay, UpdateLoan, UpdateRow, Lasting
  <2>3. /\ status' = status \/ \E s : status' = [status EXCEPT ![l] = s]
        /\ inst' = inst \/ \E r : inst' = [inst EXCEPT ![l] = r]
    <3>1. CASE Pay(p)
      BY <2>1, <3>1 DEF Pay
    <3>2. CASE UpdateLoan(p)
      BY <2>1, <3>2 DEF UpdateLoan
    <3>3. CASE UpdateRow(p)
      <4>1. \E i, r : inst' = [inst EXCEPT ![l][i] = r]
        BY <2>1, <3>3 DEF UpdateRow
      <4>2. status' = status
        BY <3>3 DEF UpdateRow
      <4> QED
        BY <4>1, <4>2
    <3> QED
      BY <1>3, <3>1, <3>2, <3>3
  <2>4. \A m \in Loans \ {l} : UNCHANGED <<status[m], inst[m], disbursed[m]>>
    BY <2>2, <2>3 DEF TypeOK
  <2>5. CASE call[p].op \in Lasting
    <3>1. disbursed'[l] > 0
      BY <1>0, <2>1, <2>2, <2>5 DEF WorkKnows, Knows
    <3>2. PaidOut(l)'
      BY <3>1 DEF PaidOut
    <3> QED
      BY <1>b, <2>4, <3>2
  <2>6. CASE call[p].op = "reject"
    <3>1. inst' = inst /\ status' = [status EXCEPT ![l] = Column("REJECTED", seen[p].loan, @)]
      BY <1>3, <2>1, <2>6 DEF Pay, UpdateLoan, UpdateRow
    <3>2. status'[l] \in {"REJECTED", status[l]}
      BY <3>1 DEF Column, TypeOK
    <3>3. PaidOut(l)'
      BY <1>0, <2>2, <3>1, <3>2 DEF RowsKnow, PaidOut
    <3> QED
      BY <1>b, <2>4, <3>3
  <2> QED
    BY <2>2, <2>5, <2>6
<1>4. ASSUME NEW p \in Procs, ReadUser(p) \/ Select(p) \/ Flag(p) \/ Fail(p)
      PROVE  UNCHANGED <<status, inst, disbursed>>
  BY <1>4 DEF ReadUser, Select, Flag, Fail
<1>5. ASSUME NEW p \in Procs, Step(p) \/ Fail(p) PROVE RowsKnow'
  BY <1>a, <1>2, <1>3, <1>4, <1>5 DEF Step
<1>6. ASSUME NEW l \in Loans, NEW n \in Numbers, Grow(l, n) PROVE UNCHANGED <<status, inst, disbursed>>
  BY <1>6 DEF Grow
<1>7. ASSUME NEW u, NEW a, Spend(u, a) \/ Request(u, a) \/ Finish(u) \/ Find(u, a)
      PROVE  UNCHANGED <<status, inst, disbursed>>
  BY <1>7 DEF Spend, Request, Start, Finish, Find
<1>8. ASSUME NEW j, NEW l, NEW i, Take(j, l, i) PROVE UNCHANGED <<status, inst, disbursed>>
  BY <1>8 DEF Take, Start
<1>9. UNCHANGED vars => UNCHANGED <<status, inst, disbursed>>
  BY DEF vars
<1> QED
  BY <1>a, <1>1, <1>5, <1>6, <1>7, <1>8, <1>9, NextCases

\* Rows that say the truth do so after the steps of everyone.
LEMMA RowsAreTrueStep == PayoutInv /\ TypeOK' /\ KnowsInv /\ RowsAreTrue /\ [Next]_vars => RowsAreTrue'
<1> SUFFICES ASSUME PayoutInv, TypeOK', KnowsInv, RowsAreTrue, [Next]_vars, ~ stale' PROVE RowsAreTrue'
  BY DEF RowsAreTrue
<1> USE DEF rows, ghosts
<1>0. TypeOK /\ RowsKnow /\ WorkKnows /\ WorkHasRow
  BY DEF KnowsInv, PayoutInv
<1>a. ~ stale /\ UNCHANGED <<status, inst, collected, disbursed>> => RowsAreTrue'
  BY DEF RowsAreTrue, LoanIsTrue
<1>b. ASSUME ~ stale, NEW l \in Loans, LoanIsTrue(l)',
             \A m \in Loans \ {l} : UNCHANGED <<status[m], inst[m], collected[m], disbursed[m]>>
      PROVE  RowsAreTrue'
  BY <1>b DEF RowsAreTrue, LoanIsTrue
<1>1. ASSUME NEW l \in Loans, Apply(l) PROVE RowsAreTrue'
  <2>1. /\ \A m \in Loans \ {l} : UNCHANGED <<status[m], inst[m], collected[m], disbursed[m]>>
        /\ status[l] = "NONE" /\ status'[l] \in {"PENDING", "REJECTED"}
        /\ UNCHANGED <<inst, collected, disbursed>> /\ ~ stale
    BY <1>0, <1>1 DEF Apply, TypeOK
  <2>2. LoanIsTrue(l)'
    BY <2>1 DEF RowsAreTrue, LoanIsTrue
  <2> QED
    BY <1>b, <2>1, <2>2
<1>2. ASSUME NEW p \in Procs, Approve(p) PROVE RowsAreTrue'
  <2>1. CASE Refused(p)
    BY <1>a, <1>2, <2>1 DEF Approve
  <2>2. CASE ~ Refused(p)
    <3>1. PICK l, u : l = call[p].loan /\ u = Borrower[l]
      OBVIOUS
    <3>2. /\ l \in Loans /\ ~ stale /\ collected' = collected
          /\ status[l] = "PENDING" /\ status'[l] = Column("ACTIVE", seen[p].loan, "PENDING")
          /\ \A m \in Loans \ {l} : status'[m] = status[m] /\ inst'[m] = inst[m] /\ disbursed'[m] = disbursed[m]
          /\ \A i \in Slots : inst'[l][i] = IF i[1] = p THEN Scheduled ELSE inst[l][i]
          /\ disbursed'[l] = disbursed[l] + 1
      BY <1>0, <1>2, <2>2, <3>1, ApproveDoes
    <3>3. /\ LoanIsTrue(l) /\ disbursed[l] = 0
          /\ \A i \in Slots : inst[l][i] = NoRow
      BY <1>0, <3>2 DEF RowsAreTrue, LoanIsTrue, RowsKnow, PaidOut
    <3>4. p \in Calls /\ status'[l] = "ACTIVE" /\ disbursed'[l] > 0
      <4>1. pc[p] = "commit" /\ call[p].op = "approve"
        BY <1>2 DEF Approve
      <4>2. p \in Calls /\ seen[p].loan \in Early
        BY <1>0, <3>1, <3>2, <4>1 DEF WorkHasRow, HasRow, WorkKnows, SeenIsPast, Early
      <4> QED
        BY <3>2, <3>3, <4>2 DEF Column, Early
    <3>5. \E i \in Slots : inst'[l][i].status = "SCHEDULED"
      <4>1. PICK n \in Numbers : TRUE
        BY LoansAssumption
      <4>2. <<p, n>> \in Slots
        BY <3>4 DEF Slots
      <4>3. inst'[l][<<p, n>>] = Scheduled
        BY <3>2, <4>2
      <4> QED
        BY <4>2, <4>3 DEF Scheduled
    <3>6. \A i \in Slots : inst'[l][i].paid = collected'[l][i] /\ (inst'[l][i].status = "NONE" => inst'[l][i] = NoRow)
      BY <3>2, <3>3 DEF LoanIsTrue, Scheduled, NoRow
    <3>7. LoanIsTrue(l)'
      BY <3>4, <3>5, <3>6 DEF LoanIsTrue
    <3> QED
      BY <1>b, <3>2, <3>7
  <2> QED
    BY <2>1, <2>2
<1>3. ASSUME NEW p \in Procs, Pay(p) PROVE RowsAreTrue'
  <2>1. PICK l, i, u, a : l = call[p].loan /\ i = call[p].slot /\ u = Borrower[l] /\ a = Payment(call[p], inst[l][i])
    OBVIOUS
  <2>2. /\ l \in Loans /\ i \in Slots /\ a \in Int
        /\ call[p].op \in {"repay", "debit"} /\ pc[p] = "commit"
        /\ inst[l][i] = found[p].row
        /\ inst'[l][i] = PaidWith(inst[l][i], a)
        /\ \A k \in Slots \ {i} : inst'[l][k] = inst[l][k]
        /\ collected'[l][i] = collected[l][i] + a
        /\ \A k \in Slots \ {i} : collected'[l][k] = collected[l][k]
        /\ \A m \in Loans \ {l} : status'[m] = status[m] /\ inst'[m] = inst[m] /\ collected'[m] = collected[m]
        /\ status'[l] = IF AllPaid(inst'[l]) THEN "REPAID" ELSE status[l]
        /\ AllPaid(inst'[l]) => status[l] = "ACTIVE"
        /\ ~ stale /\ disbursed' = disbursed
    <3>1. TypeOK /\ Pay(p)
      BY <1>0, <1>3
    <3> QED
      BY <2>1, <3>1, PayDoes
  <2>3. LoanIsTrue(l) /\ Outstanding(inst[l][i]) /\ disbursed[l] > 0 /\ disbursed'[l] > 0
    BY <1>0, <2>1, <2>2 DEF RowsAreTrue, WorkKnows, Knows, Lasting
  <2>4. status[l] \notin {"NONE", "PENDING", "REJECTED", "REPAID"}
    BY <2>2, <2>3 DEF LoanIsTrue, Outstanding
  <2>5. inst'[l][i].paid = collected'[l][i] /\ inst'[l][i].status # "NONE"
    BY <2>2, <2>3 DEF LoanIsTrue, PaidWith
  <2>6. \A k \in Slots : inst'[l][k].paid = collected'[l][k] /\ (inst'[l][k].status = "NONE" => inst'[l][k] = NoRow)
    BY <2>2, <2>3, <2>5 DEF LoanIsTrue
  <2>7. AllPaid(inst'[l]) <=> \A k \in Slots : inst'[l][k].status \in {"NONE", "PAID"}
    BY <2>6 DEF AllPaid, NoRow
  <2>8. LoanIsTrue(l)'
    BY <2>2, <2>3, <2>4, <2>6, <2>7 DEF LoanIsTrue
  <2> QED
    BY <1>b, <2>2, <2>8
<1>4. ASSUME NEW p \in Procs, UpdateLoan(p) PROVE RowsAreTrue'
  <2>1. PICK l \in Loans, i \in Slots : l = call[p].loan /\ i = call[p].slot
    BY <1>0, CallParts DEF TypeOK
  <2> DEFINE entity == IF call[p].op = "reject" THEN "REJECTED" ELSE "DEFAULTED"
  <2>2. /\ pc[p] = "update" /\ call[p].op \in {"reject", "default"}
        /\ status' = [status EXCEPT ![l] = Column(entity, seen[p].loan, @)]
        /\ ~ stale /\ status[l] \in {found[p].loan, entity}
        /\ call[p].op = "default" => inst[l][i].status = "OVERDUE"
        /\ UNCHANGED <<inst, collected, disbursed>>
    BY <1>0, <1>4, <2>1 DEF UpdateLoan, TypeOK
  <2>3. /\ status'[l] \in {entity, status[l]}
        /\ \A m \in Loans \ {l} : UNCHANGED <<status[m], inst[m], collected[m], disbursed[m]>>
    BY <1>0, <2>2 DEF Column, TypeOK
  <2>4. LoanIsTrue(l)
    BY <2>2 DEF RowsAreTrue
  <2>5. CASE call[p].op = "reject"
    <3>1. status[l] \in {"PENDING", "REJECTED"} /\ status'[l] \in {"PENDING", "REJECTED"}
      BY <1>0, <2>2, <2>3, <2>5 DEF WorkKnows, Knows
    <3>2. LoanIsTrue(l)'
      BY <2>2, <2>4, <3>1 DEF LoanIsTrue
    <3> QED
      BY <1>b, <2>2, <2>3, <3>2
  <2>6. CASE call[p].op = "default"
    <3>1. disbursed[l] > 0 /\ disbursed[l] # 0
      BY <1>0, <2>1, <2>2, <2>6 DEF WorkKnows, Knows, Lasting
    <3>2. status[l] \notin {"NONE", "PENDING", "REJECTED", "REPAID"}
      BY <2>2, <2>4, <2>6, <3>1 DEF LoanIsTrue
    <3>3. status'[l] \notin {"NONE", "PENDING", "REJECTED", "REPAID"}
      BY <2>3, <2>6, <3>2
    <3>4. LoanIsTrue(l)'
      BY <2>2, <2>4, <3>1, <3>2, <3>3 DEF LoanIsTrue
    <3> QED
      BY <1>b, <2>2, <2>3, <3>4
  <2> QED
    BY <2>2, <2>5, <2>6
<1>5. ASSUME NEW p \in Procs, UpdateRow(p) PROVE RowsAreTrue'
  <2>1. PICK l \in Loans, i \in Slots : l = call[p].loan /\ i = call[p].slot
    BY <1>0, CallParts DEF TypeOK
  <2> DEFINE old == found[p].row
             entity == IF call[p].op = "overdue" THEN [old EXCEPT !.status = "OVERDUE"]
                                                 ELSE [old EXCEPT !.due = @ + Penalty(old)]
  <2>2. /\ pc[p] = "update" /\ call[p].op \in {"overdue", "penalty"}
        /\ inst' = [inst EXCEPT ![l][i] = Written(entity, seen[p].row, @)]
        /\ ~ stale /\ inst[l][i] = old /\ seen[p].row = old
        /\ UNCHANGED <<status, collected, disbursed>>
    BY <1>0, <1>5, <2>1 DEF UpdateRow, TypeOK
  <2>3. old \in Rows /\ Penalty(old) \in Int
    BY <1>0, PenaltyType DEF TypeOK, Entities
  <2>4. LoanIsTrue(l) /\ Outstanding(old) /\ disbursed[l] > 0
    BY <1>0, <2>1, <2>2 DEF RowsAreTrue, WorkKnows, Knows, Lasting
  <2>5. entity \in Rows /\ entity.paid = old.paid /\ Outstanding(entity)
    BY <2>3, <2>4 DEF Rows, Outstanding
  <2> HIDE DEF entity
  <2>6. Written(entity, seen[p].row, inst[l][i]) = entity
    BY <2>2, <2>5, WrittenAsMeant
  <2>7. /\ inst'[l][i] = entity
        /\ \A k \in Slots \ {i} : inst'[l][k] = inst[l][k]
        /\ \A m \in Loans \ {l} : inst'[m] = inst[m]
    BY <1>0, <2>2, <2>6 DEF TypeOK
  <2>8. inst[l][i].status \notin {"NONE", "PAID"} /\ inst'[l][i].status \notin {"NONE", "PAID"}
    BY <2>2, <2>4, <2>5, <2>7 DEF Outstanding
  <2>9. \A k \in Slots : inst'[l][k].paid = collected'[l][k] /\ (inst'[l][k].status = "NONE" => inst'[l][k] = NoRow)
    BY <2>2, <2>4, <2>5, <2>7, <2>8 DEF LoanIsTrue
  <2>10. status'[l] # "REPAID"
    BY <2>2, <2>4, <2>8 DEF LoanIsTrue
  <2>11. LoanIsTrue(l)'
    BY <2>2, <2>4, <2>8, <2>9, <2>10 DEF LoanIsTrue
  <2> QED
    BY <1>b, <2>2, <2>7, <2>11
<1>6. ASSUME NEW p \in Procs, ReadUser(p) \/ Select(p) \/ Flag(p) \/ Fail(p) PROVE RowsAreTrue'
  BY <1>a, <1>6 DEF ReadUser, Select, Flag, Fail
<1>7. ASSUME NEW p \in Procs, Step(p) \/ Fail(p) PROVE RowsAreTrue'
  BY <1>2, <1>3, <1>4, <1>5, <1>6, <1>7 DEF Step
<1>8. ASSUME NEW l \in Loans, NEW n \in Numbers, Grow(l, n) PROVE RowsAreTrue'
  BY <1>a, <1>8 DEF Grow
<1>9. ASSUME NEW u, NEW a, Spend(u, a) \/ Request(u, a) \/ Finish(u) \/ Find(u, a) PROVE RowsAreTrue'
  BY <1>a, <1>9 DEF Spend, Request, Start, Finish, Find
<1>10. ASSUME NEW j, NEW l, NEW i, Take(j, l, i) PROVE RowsAreTrue'
  BY <1>a, <1>10 DEF Take, Start
<1>11. UNCHANGED vars => RowsAreTrue'
  BY <1>a DEF vars
<1> QED
  BY <1>1, <1>7, <1>8, <1>9, <1>10, <1>11, NextCases

\* Until somebody writes over what he has not read, an instalment says what was
\* debited for it, a rejected loan was not paid out, and a loan is REPAID exactly when
\* it was paid out and nothing of it is outstanding.
THEOREM LoansStayTrue == Spec => []LoansAreTrue
<1>1. PayoutInv /\ [Next]_vars => PayoutInv'
  BY PayoutStep, WorkHasRowStep, TypeStep DEF PayoutInv
<1>2. PayoutInv => TypeOK
  BY DEF PayoutInv
<1>3. TypeOK /\ KnowsInv /\ [Next]_vars => KnowsInv'
  BY WorkKnowsStep, TodoKnowsStep, RowsKnowStep DEF KnowsInv
<1>4. RowsAreTrue => LoansAreTrue
  BY DEF RowsAreTrue, LoanIsTrue, LoansAreTrue
<1> QED
  BY PayoutInit, TrueInit, RowsAreTrueStep, <1>1, <1>2, <1>3, <1>4, PTL DEF Spec

=============================================================================

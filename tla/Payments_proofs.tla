------------------------------ MODULE Payments_proofs ------------------------------
(***************************************************************************)
(* Proofs about the services that move money between a user and another    *)
(* side: Disputes, Conversions and Escrow, each a system of its own.       *)
(*                                                                         *)
(* Disputes, for any number of calls, runs of the job, requests and        *)
(* failing statements: what the row says of a resolution was done, a       *)
(* charge-back is a credit, and a transaction is reversed once.            *)
(***************************************************************************)
EXTENDS Disputes, Conversions, Escrow, TLAPS


DisputeStatuses == {"NONE"} \cup Open \cup Resolved
DisputeRows == [status : DisputeStatuses, resolvedAt : BOOLEAN, breached : BOOLEAN, level : 0..3]
Ended == {"COMPLETED", "FAILED"}
ReversalRows == {"NONE", "PENDING_CONFIRMATION"} \cup Ended

Charging == {"respondent", "claimant", "commit"}
Saving == {"select", "update"}
SavingReversal == {"selectReversal", "updateReversal"}
DisputeSteps == {"idle", "insert", "compensate", "notify"} \cup Charging \cup Saving \cup SavingReversal
DisputeOps == {"none", "create", "evidence", "assign", "valid", "chargeback", "preview", "confirm", "escalate"}

TypeOK ==
  /\ dispute \in DisputeRows /\ late \in 0..3 /\ reversal \in ReversalRows
  /\ balance \in Int /\ extended \in BOOLEAN
  /\ charged \in Nat /\ unfunded \in Nat /\ compensating \in Nat
  /\ pc \in [Procs -> DisputeSteps] /\ op \in [Procs -> DisputeOps]
  /\ entity \in [Procs -> DisputeRows] /\ seen \in [Procs -> DisputeRows]
  /\ held \in [Procs -> ReversalRows] /\ looked \in [Procs -> ReversalRows]
  /\ known \in [Procs -> Int]
  /\ mishaps \subseteq {"race", "twice", "undone", "fault", "unsaved"}
  /\ lost \in BOOLEAN /\ spent \in Nat /\ requests \in Nat /\ faults \in Nat

\* What a process does at which statement, and what it holds then.
InStep(p) ==
  /\ pc[p] = "idle" <=> op[p] = "none"
  /\ op[p] \in {"none", "escalate"} \/ p \in Calls
  /\ pc[p] = "insert" <=> op[p] \in {"create", "evidence", "preview"}
  /\ pc[p] \in Charging => op[p] = "chargeback"
  /\ pc[p] \in Saving => op[p] \in Resolutions \cup {"assign", "escalate"} /\ entity[p].status # "NONE"
  /\ op[p] = "confirm" <=> pc[p] \in {"compensate", "notify"} \cup SavingReversal
  /\ op[p] = "confirm" => held[p] \in Ended
  /\ pc[p] \in {"compensate", "notify"} => held[p] = "COMPLETED"

Entities(p) ==
  /\ op[p] = "create" => entity[p].status = "OPEN" /\ ~ entity[p].resolvedAt
  /\ op[p] = "valid" => entity[p].status = "RESOLVED_VALID" /\ entity[p].resolvedAt
  /\ op[p] = "chargeback" => entity[p].status = "RESOLVED_CHARGEBACK" /\ entity[p].resolvedAt

InOrder == \A p \in Procs : InStep(p) /\ Entities(p)

Done == charged + unfunded

\* No copy of the row says that there was a charge-back before there is one.
Said(d, done) == d.status = "RESOLVED_CHARGEBACK" => done > 0
ClaimsHold ==
  /\ Said(dispute, Done)
  /\ \A p \in Procs : Said(seen[p], Done) /\ (pc[p] \in Charging \/ Said(entity[p], Done))

\* As long as nothing has gone wrong: one resolution at a time, of a dispute that is
\* open; and from then on every copy that is resolved is the row itself.
Clean == mishaps \cap {"race", "undone", "fault"} = {}
Told(d) == d.resolvedAt <=> d.status \in Resolved
Copied(p) ==
  /\ Told(entity[p]) /\ Told(seen[p])
  /\ op[p] \notin Resolutions /\ entity[p].status \in Resolved =>
       /\ dispute.status = entity[p].status
       /\ pc[p] = "update" => seen[p].status = entity[p].status
  /\ pc[p] = "update" /\ seen[p].status \in Resolved => dispute.status = seen[p].status
  /\ op[p] \in Resolutions => dispute.status \in Open
  /\ op[p] = "valid" \/ pc[p] \in Charging => Done = 0
OneAtATime == \A p, q \in Procs : op[p] \in Resolutions /\ op[q] \in Resolutions => p = q
Paid ==
  Done > 0 => \/ dispute.status = "RESOLVED_CHARGEBACK"
              \/ \E p \in Procs : op[p] = "chargeback" /\ pc[p] \in Saving
CleanInv == OneAtATime /\ Done <= 1 /\ Told(dispute) /\ Paid /\ \A p \in Procs : Copied(p)

\* A reversal that has ended does not become pending again.
ReversalInv ==
  /\ reversal = "COMPLETED" => compensating > 0
  /\ \A p \in Procs :
       /\ held[p] = "COMPLETED" /\ pc[p] \in SavingReversal \cup {"notify"} => compensating > 0
       /\ pc[p] = "notify" \/ (pc[p] = "updateReversal" /\ looked[p] \in Ended) => reversal \in Ended

\* Unless two confirmations overlap, or the catch fails.
Single == mishaps \cap {"twice", "unsaved"} = {}
OneConfirms == \A p, q \in Procs : op[p] = "confirm" /\ op[q] = "confirm" => p = q
SingleInv ==
  /\ OneConfirms /\ compensating <= 1
  /\ \A p \in Procs : pc[p] = "compensate" => compensating = 0
  /\ compensating > 0 => reversal \in Ended \/ \E p \in Procs : pc[p] \in SavingReversal

\* Unless a statement fails.
SafeInv ==
  /\ \A p \in Procs : /\ op[p] = "confirm" => held[p] = "COMPLETED"
                      /\ pc[p] = "notify" => reversal = "COMPLETED"
                      /\ pc[p] = "updateReversal" /\ looked[p] = "COMPLETED" => reversal = "COMPLETED"
  /\ compensating > 0 => reversal = "COMPLETED" \/ \E p \in Procs : pc[p] \in SavingReversal
  /\ reversal # "FAILED"

Inv ==
  /\ TypeOK /\ InOrder /\ ClaimsHold /\ ReversalInv
  /\ Clean => CleanInv
  /\ Single => SingleInv
  /\ "fault" \notin mishaps => SafeInv
  /\ ChargeBackIsACredit

USE DEF Procs, Open, Resolved, Resolutions, Ended, Charging, Saving, SavingReversal

LEMMA NoDisputeType == NoDispute \in DisputeRows
  BY DEF NoDispute, DisputeRows, DisputeStatuses

\* What ending a call leaves in order, whatever else the step does.
LEMMA EndType ==
  ASSUME TypeOK, NEW p \in Procs, End(p)
  PROVE  /\ pc' \in [Procs -> DisputeSteps] /\ op' \in [Procs -> DisputeOps]
         /\ entity' \in [Procs -> DisputeRows] /\ seen' \in [Procs -> DisputeRows]
         /\ held' \in [Procs -> ReversalRows] /\ looked' \in [Procs -> ReversalRows]
         /\ known' \in [Procs -> Int]
  BY NoDisputeType DEF End, Goto, TypeOK, DisputeSteps, DisputeOps, ReversalRows

LEMMA RequestType ==
  ASSUME TypeOK, NEW c \in Calls, NEW what \in DisputeOps, NEW step \in DisputeSteps, NEW d \in DisputeRows,
         NEW r \in ReversalRows, Request(c, what, step, d, r)
  PROVE  TypeOK'
<1>1. Overlap(what) \subseteq {"race", "twice"}
  BY DEF Overlap
<1>2. pc' \in [Procs -> DisputeSteps] /\ op' \in [Procs -> DisputeOps] /\ entity' \in [Procs -> DisputeRows]
      /\ held' \in [Procs -> ReversalRows]
  BY DEF Request, Goto, TypeOK
<1>3. requests' \in Nat
  BY DEF Request, TypeOK
<1>4. mishaps' \subseteq {"race", "twice", "undone", "fault", "unsaved"}
  BY <1>1 DEF Request, TypeOK
<1> QED
  BY <1>2, <1>3, <1>4 DEF Request, TypeOK, stores

LEMMA WrittenType ==
  ASSUME NEW new \in DisputeRows, NEW before \in DisputeRows, NEW now \in DisputeRows
  PROVE  Written(new, before, now) \in DisputeRows
  BY DEF Written, Column, DisputeRows

\* What a call asks for, at the row and the reversal it finds.
Asked(what, step, d, r) ==
  \/ what = "create" /\ step = "insert" /\ d.status = "OPEN" /\ ~ d.resolvedAt
  \/ what = "evidence" /\ step = "insert" /\ d = dispute
  \/ /\ what = "assign" /\ step = "select"
     /\ d.status = dispute.status \/ {d.status, dispute.status} \subseteq Open
     /\ d.status # "NONE" /\ d.resolvedAt = dispute.resolvedAt
  \/ /\ what = "valid" /\ step = "select" /\ dispute.status \in Open
     /\ d.status = "RESOLVED_VALID" /\ d.resolvedAt
  \/ /\ what = "chargeback" /\ step = "respondent" /\ dispute.status \in Open
     /\ d.status = "RESOLVED_CHARGEBACK" /\ d.resolvedAt
  \/ what = "preview" /\ step = "insert" /\ d = NoDispute
  \/ /\ what = "confirm" /\ step = "compensate" /\ r = "COMPLETED"
     /\ d = NoDispute /\ reversal = "PENDING_CONFIRMATION"

LEMMA CallIsRequest ==
  ASSUME TypeOK, NEW c \in Calls, Call(c)
  PROVE  \E what \in DisputeOps \ {"none", "escalate"}, step \in DisputeSteps, d \in DisputeRows, r \in ReversalRows :
           Request(c, what, step, d, r) /\ Asked(what, step, d, r) /\ (r = "NONE" \/ what = "confirm")
<1>1. /\ {"create", "evidence", "assign", "valid", "chargeback", "preview", "confirm"}
           \subseteq DisputeOps \ {"none", "escalate"}
      /\ {"insert", "select", "respondent", "compensate"} \subseteq DisputeSteps
      /\ {"NONE", "COMPLETED"} \subseteq ReversalRows
  BY DEF DisputeOps, DisputeSteps, ReversalRows
<1>2. CASE CreateDispute(c)
  <2> DEFINE d == [NoDispute EXCEPT !.status = "OPEN"]
  <2>1. d \in DisputeRows
    BY NoDisputeType DEF DisputeRows, DisputeStatuses
  <2>2. d.status = "OPEN" /\ ~ d.resolvedAt
    BY DEF NoDispute
  <2>3. Request(c, "create", "insert", d, "NONE")
    BY <1>2 DEF CreateDispute
  <2> HIDE DEF d
  <2> QED
    BY <1>1, <2>1, <2>2, <2>3 DEF Asked
<1>3. CASE AddEvidence(c)
  <2>1. Request(c, "evidence", "insert", dispute, "NONE") /\ dispute \in DisputeRows
    BY <1>3 DEF AddEvidence, TypeOK
  <2> QED
    BY <1>1, <2>1 DEF Asked
<1>4. CASE Assign(c)
  <2> DEFINE d == [dispute EXCEPT !.status = IF @ = "OPEN" THEN "UNDER_REVIEW" ELSE @]
  <2>1. d \in DisputeRows
    BY DEF TypeOK, DisputeRows, DisputeStatuses
  <2>2. /\ d.status = dispute.status \/ {d.status, dispute.status} \subseteq Open
        /\ d.status # "NONE" /\ d.resolvedAt = dispute.resolvedAt
    BY <1>4 DEF TypeOK, DisputeRows, DisputeStatuses, Assign
  <2>3. Request(c, "assign", "select", d, "NONE")
    BY <1>4 DEF Assign
  <2> HIDE DEF d
  <2> QED
    BY <1>1, <2>1, <2>2, <2>3 DEF Asked
<1>5. ASSUME NEW now \in Resolved
      PROVE  /\ Outcome(dispute, now) \in DisputeRows
             /\ Outcome(dispute, now).status = now /\ Outcome(dispute, now).resolvedAt
  BY DEF TypeOK, DisputeRows, DisputeStatuses, Outcome
<1>6. CASE Resolve(c, "valid")
  <2> DEFINE d == Outcome(dispute, "RESOLVED_VALID")
  <2>1. d \in DisputeRows /\ d.status = "RESOLVED_VALID" /\ d.resolvedAt
    BY <1>5
  <2>2. Request(c, "valid", "select", d, "NONE") /\ dispute.status \in Open
    BY <1>6 DEF Resolve, Resolvable
  <2> HIDE DEF d
  <2> QED
    BY <1>1, <2>1, <2>2 DEF Asked
<1>7. CASE Resolve(c, "chargeback")
  <2> DEFINE d == Outcome(dispute, "RESOLVED_CHARGEBACK")
  <2>1. d \in DisputeRows /\ d.status = "RESOLVED_CHARGEBACK" /\ d.resolvedAt
    BY <1>5
  <2>2. Request(c, "chargeback", "respondent", d, "NONE") /\ dispute.status \in Open
    BY <1>7 DEF Resolve, Resolvable
  <2> HIDE DEF d
  <2> QED
    BY <1>1, <2>1, <2>2 DEF Asked
<1>8. CASE Preview(c)
  <2>1. Request(c, "preview", "insert", NoDispute, "NONE")
    BY <1>8 DEF Preview
  <2> QED
    BY <1>1, <2>1, NoDisputeType DEF Asked
<1>9. CASE Confirm(c)
  <2>1. Request(c, "confirm", "compensate", NoDispute, "COMPLETED") /\ reversal = "PENDING_CONFIRMATION"
    BY <1>9 DEF Confirm, Confirmable
  <2> QED
    BY <1>1, <2>1, NoDisputeType DEF Asked
<1> QED
  BY <1>2, <1>3, <1>4, <1>6, <1>7, <1>8, <1>9 DEF Call

LEMMA FindBreachType ==
  ASSUME TypeOK, NEW j \in Jobs, FindBreach(j)
  PROVE  TypeOK'
<1>1. PICK senior \in BOOLEAN :
        entity' = [entity EXCEPT ![j] =
                     [dispute EXCEPT !.breached = TRUE, !.level = Level,
                                     !.status = IF late = 1 /\ senior THEN "UNDER_REVIEW" ELSE @]]
  BY DEF FindBreach
<1>2. [dispute EXCEPT !.breached = TRUE, !.level = Level,
                      !.status = IF late = 1 /\ senior THEN "UNDER_REVIEW" ELSE @] \in DisputeRows
  BY DEF TypeOK, DisputeRows, DisputeStatuses, Level
<1>3. entity' \in [Procs -> DisputeRows]
  BY <1>1, <1>2 DEF TypeOK
<1>4. pc' \in [Procs -> DisputeSteps] /\ op' \in [Procs -> DisputeOps]
  BY DEF FindBreach, Goto, TypeOK, DisputeSteps, DisputeOps
<1> QED
  BY <1>3, <1>4 DEF FindBreach, TypeOK, stores, ghosts, bounds

LEMMA StepType ==
  ASSUME TypeOK, NEW p \in Procs, Step(p) \/ Fail(p)
  PROVE  TypeOK'
<1>1. CASE Insert(p)
  <2>1. UNCHANGED <<late, balance, extended, charged, unfunded, compensating, ghosts, bounds>>
    BY <1>1 DEF Insert
  <2>2. dispute' \in DisputeRows /\ reversal' \in ReversalRows
    BY <1>1 DEF Insert, TypeOK, ReversalRows
  <2>3. End(p)
    BY <1>1 DEF Insert
  <2> QED
    BY <2>1, <2>2, <2>3, EndType DEF TypeOK, ghosts, bounds
<1>2. CASE ReadRespondent(p)
  BY <1>2 DEF ReadRespondent, Goto, TypeOK, DisputeSteps, stores, ghosts, bounds
<1>3. CASE ReadClaimant(p)
  <2>1. CASE Refused
    BY <1>3, <2>1, EndType DEF ReadClaimant, Rejected, TypeOK, stores, ghosts, bounds
  <2>2. CASE ~ Refused
    BY <1>3, <2>2 DEF ReadClaimant, Goto, TypeOK, DisputeSteps, stores, ghosts, bounds
  <2> QED
    BY <2>1, <2>2
<1>4. CASE Commit(p)
  <2>1. balance' \in Int
    BY <1>4, DisputesAssumption DEF Commit, Credited, TypeOK
  <2>2. charged' \in Nat /\ unfunded' \in Nat
    BY <1>4 DEF Commit, TypeOK
  <2>3. lost' \in BOOLEAN
    BY <1>4 DEF Commit, TypeOK
  <2> QED
    BY <1>4, <2>1, <2>2, <2>3 DEF Commit, Goto, TypeOK, DisputeSteps, bounds
<1>5. CASE Select(p)
  BY <1>5 DEF Select, Goto, TypeOK, DisputeSteps, stores, ghosts, bounds
<1>6. CASE Update(p)
  <2>1. dispute' \in DisputeRows
    BY <1>6, WrittenType DEF Update, TypeOK
  <2>2. mishaps' \subseteq {"race", "twice", "undone", "fault", "unsaved"}
    BY <1>6 DEF Update, TypeOK
  <2>3. /\ pc' \in [Procs -> DisputeSteps] /\ op' \in [Procs -> DisputeOps]
        /\ entity' \in [Procs -> DisputeRows] /\ seen' \in [Procs -> DisputeRows]
        /\ known' \in [Procs -> Int]
    BY <1>6, NoDisputeType DEF Update, Goto, TypeOK, DisputeSteps, DisputeOps
  <2> QED
    BY <1>6, <2>1, <2>2, <2>3 DEF Update, TypeOK, bounds
<1>7. CASE Compensate(p)
  BY <1>7 DEF Compensate, Goto, TypeOK, DisputeSteps, ghosts, bounds
<1>8. CASE SelectReversal(p)
  BY <1>8 DEF SelectReversal, Goto, TypeOK, DisputeSteps, stores, ghosts, bounds
<1>9. CASE UpdateReversal(p)
  <2>1. reversal' \in ReversalRows
    BY <1>9 DEF UpdateReversal, Saved, Column, TypeOK
  <2>2. CASE held[p] = "COMPLETED"
    BY <1>9, <2>1, <2>2 DEF UpdateReversal, Goto, TypeOK, DisputeSteps, ghosts, bounds
  <2>3. CASE held[p] # "COMPLETED"
    BY <1>9, <2>1, <2>3, EndType DEF UpdateReversal, TypeOK, ghosts, bounds
  <2> QED
    BY <2>2, <2>3
<1>10. CASE Notify(p)
  BY <1>10, EndType DEF Notify, TypeOK, stores, ghosts, bounds
<1>11. CASE Fail(p)
  <2>1. faults' \in Nat /\ mishaps' \subseteq {"race", "twice", "undone", "fault", "unsaved"}
    BY <1>11 DEF Fail, Failure, TypeOK
  <2>2. CASE op[p] = "confirm" /\ held[p] = "COMPLETED"
    BY <1>11, <2>1, <2>2 DEF Fail, Goto, TypeOK, DisputeSteps, ReversalRows, stores
  <2>3. CASE ~(op[p] = "confirm" /\ held[p] = "COMPLETED")
    BY <1>11, <2>1, <2>3, EndType DEF Fail, TypeOK, stores
  <2> QED
    BY <2>2, <2>3
<1> QED
  BY <1>1, <1>2, <1>3, <1>4, <1>5, <1>6, <1>7, <1>8, <1>9, <1>10, <1>11 DEF Step

LEMMA TypeStep == TypeOK /\ [Next]_vars => TypeOK'
<1> SUFFICES ASSUME TypeOK, [Next]_vars PROVE TypeOK'
  OBVIOUS
<1>1. CASE Age
  BY <1>1 DEF Age, TypeOK, work, ghosts, bounds
<1>2. CASE Spend
  BY <1>2, DisputesAssumption DEF Spend, TypeOK, work, ghosts
<1>3. CASE Release
  BY <1>3 DEF Release, TypeOK, work, ghosts, bounds
<1>4. ASSUME NEW c \in Calls, Call(c) PROVE TypeOK'
  BY <1>4, CallIsRequest, RequestType
<1>5. ASSUME NEW j \in Jobs, FindBreach(j) PROVE TypeOK'
  BY <1>5, FindBreachType
<1>6. ASSUME NEW p \in Procs, Step(p) \/ Fail(p) PROVE TypeOK'
  BY <1>6, StepType
<1>7. CASE UNCHANGED vars
  BY <1>7 DEF vars, TypeOK
<1> QED
  BY <1>1, <1>2, <1>3, <1>4, <1>5, <1>6, <1>7 DEF Next

LEMMA Beginning == Init => Inv
<1> SUFFICES ASSUME Init PROVE Inv
  OBVIOUS
<1>1. TypeOK
  <2>1. /\ pc \in [Procs -> DisputeSteps] /\ op \in [Procs -> DisputeOps]
        /\ entity \in [Procs -> DisputeRows] /\ seen \in [Procs -> DisputeRows]
        /\ held \in [Procs -> ReversalRows] /\ looked \in [Procs -> ReversalRows]
        /\ known \in [Procs -> Int]
    BY NoDisputeType DEF Init, DisputeSteps, DisputeOps, ReversalRows
  <2>2. balance \in Int /\ extended \in BOOLEAN
    BY DisputesAssumption DEF Init
  <2>3. dispute \in DisputeRows /\ reversal \in ReversalRows
    BY NoDisputeType DEF Init, ReversalRows
  <2>4. /\ late \in 0..3 /\ charged \in Nat /\ unfunded \in Nat /\ compensating \in Nat
        /\ spent \in Nat /\ requests \in Nat /\ faults \in Nat
    BY DEF Init
  <2>5. mishaps = {} /\ lost \in BOOLEAN
    BY DEF Init
  <2> QED
    BY <2>1, <2>2, <2>3, <2>4, <2>5 DEF TypeOK
<1>2. InOrder
  BY DEF Init, InOrder, InStep, Entities
<1>3. ~ NoDispute.resolvedAt /\ NoDispute.status = "NONE"
  BY DEF NoDispute
<1>4. ClaimsHold
  BY <1>3 DEF Init, ClaimsHold, Said
<1>5. CleanInv
  <2>1. Done = 0
    BY DEF Init, Done
  <2>2. \A p \in Procs : Copied(p)
    BY <1>3, <2>1 DEF Init, Copied, Told
  <2> QED
    BY <1>3, <2>1, <2>2 DEF Init, CleanInv, OneAtATime, Told, Paid
<1>6. ReversalInv /\ SingleInv /\ SafeInv
  BY DEF Init, ReversalInv, SingleInv, OneConfirms, SafeInv
<1>7. ChargeBackIsACredit
  BY DisputesAssumption DEF Init, ChargeBackIsACredit
<1> QED
  BY <1>1, <1>2, <1>4, <1>5, <1>6, <1>7 DEF Inv

\* What a step does to each process: its own, and that of the others.
LEMMA RequestEffect ==
  ASSUME TypeOK, NEW c \in Calls, NEW what, NEW step, NEW d, NEW r, Request(c, what, step, d, r)
  PROVE  /\ pc[c] = "idle"
         /\ pc'[c] = step /\ op'[c] = what /\ entity'[c] = d /\ held'[c] = r
         /\ \A q \in Procs : q # c =>
              pc'[q] = pc[q] /\ op'[q] = op[q] /\ entity'[q] = entity[q] /\ held'[q] = held[q]
         /\ seen' = seen /\ looked' = looked /\ dispute' = dispute /\ reversal' = reversal
         /\ charged' = charged /\ unfunded' = unfunded /\ compensating' = compensating
  BY DEF Request, Goto, TypeOK, stores

LEMMA EndEffect ==
  ASSUME TypeOK, NEW p \in Procs, End(p)
  PROVE  /\ pc'[p] = "idle" /\ op'[p] = "none" /\ entity'[p] = NoDispute /\ seen'[p] = NoDispute
         /\ held'[p] = "NONE"
         /\ \A q \in Procs : q # p =>
              /\ pc'[q] = pc[q] /\ op'[q] = op[q] /\ entity'[q] = entity[q] /\ seen'[q] = seen[q]
              /\ held'[q] = held[q] /\ looked'[q] = looked[q]
  BY DEF End, Goto, TypeOK

LEMMA UpdateEffect ==
  ASSUME TypeOK, NEW p \in Procs, Update(p)
  PROVE  /\ pc[p] = "update"
         /\ dispute' = Written(entity[p], seen[p], dispute)
         /\ pc'[p] = "idle" /\ op'[p] = "none" /\ entity'[p] = NoDispute /\ seen'[p] = NoDispute
         /\ held' = held /\ looked' = looked /\ reversal' = reversal
         /\ charged' = charged /\ unfunded' = unfunded /\ compensating' = compensating
         /\ \A q \in Procs : q # p =>
              pc'[q] = pc[q] /\ op'[q] = op[q] /\ entity'[q] = entity[q] /\ seen'[q] = seen[q]
  BY DEF Update, Goto, TypeOK

LEMMA FindBreachEffect ==
  ASSUME TypeOK, NEW j \in Jobs, FindBreach(j)
  PROVE  /\ pc[j] = "idle" /\ pc'[j] = "select" /\ op'[j] = "escalate"
         /\ dispute.status \in Open /\ entity'[j].status \in Open
         /\ entity'[j].resolvedAt = dispute.resolvedAt
         /\ held' = held /\ looked' = looked /\ reversal' = reversal /\ seen' = seen
         /\ dispute' = dispute /\ mishaps' = mishaps
         /\ charged' = charged /\ unfunded' = unfunded /\ compensating' = compensating
         /\ \A q \in Procs : q # j => pc'[q] = pc[q] /\ op'[q] = op[q] /\ entity'[q] = entity[q]
<1>1. PICK senior \in BOOLEAN :
        entity' = [entity EXCEPT ![j] =
                     [dispute EXCEPT !.breached = TRUE, !.level = Level,
                                     !.status = IF late = 1 /\ senior THEN "UNDER_REVIEW" ELSE @]]
  BY DEF FindBreach
<1> DEFINE d == [dispute EXCEPT !.breached = TRUE, !.level = Level,
                                !.status = IF late = 1 /\ senior THEN "UNDER_REVIEW" ELSE @]
<1>2. dispute.status \in Open
  BY DEF FindBreach, Breaching
<1>3. d.status \in Open /\ d.resolvedAt = dispute.resolvedAt
  BY <1>2 DEF TypeOK, DisputeRows
<1>4. entity' = [entity EXCEPT ![j] = d]
  BY <1>1
<1> HIDE DEF d
<1>5. entity'[j] = d /\ \A q \in Procs : q # j => entity'[q] = entity[q]
  BY <1>4 DEF TypeOK
<1>6. /\ pc[j] = "idle" /\ pc'[j] = "select" /\ op'[j] = "escalate"
      /\ \A q \in Procs : q # j => pc'[q] = pc[q] /\ op'[q] = op[q]
  BY DEF FindBreach, Goto, TypeOK
<1> QED
  BY <1>2, <1>3, <1>5, <1>6 DEF FindBreach, stores, ghosts

\* A statement that moves one process on, and changes none of the copies.
Moves(p, from, to) ==
  /\ pc[p] = from /\ pc'[p] = to
  /\ \A q \in Procs : q # p => pc'[q] = pc[q]

LEMMA GotoMoves ==
  ASSUME TypeOK, NEW p \in Procs, NEW from, NEW to, pc[p] = from, Goto(p, to)
  PROVE  Moves(p, from, to)
  BY DEF Goto, Moves, TypeOK

LEMMA OrderStep == TypeOK /\ InOrder /\ [Next]_vars => InOrder'
<1> SUFFICES ASSUME TypeOK, InOrder, [Next]_vars PROVE InOrder'
  OBVIOUS
<1>0. ASSUME NEW p \in Procs, pc'[p] = "idle", op'[p] = "none" PROVE (InStep(p) /\ Entities(p))'
  BY <1>0 DEF InStep, Entities
<1>1. CASE Age \/ Spend \/ Release \/ UNCHANGED vars
  <2>1. UNCHANGED <<pc, op, entity, held>>
    BY <1>1 DEF Age, Spend, Release, work, vars
  <2> QED
    BY <2>1 DEF InOrder, InStep, Entities
<1>2. ASSUME NEW c \in Calls, Call(c) PROVE InOrder'
  <2>1. PICK what \in DisputeOps \ {"none", "escalate"}, step \in DisputeSteps, d \in DisputeRows, r \in ReversalRows :
          Request(c, what, step, d, r) /\ Asked(what, step, d, r)
    BY <1>2, CallIsRequest
  <2>2. /\ pc'[c] = step /\ op'[c] = what /\ entity'[c] = d /\ held'[c] = r
        /\ \A q \in Procs : q # c =>
             pc'[q] = pc[q] /\ op'[q] = op[q] /\ entity'[q] = entity[q] /\ held'[q] = held[q]
    BY <2>1, RequestEffect
  <2>3. (InStep(c) /\ Entities(c))'
    BY <2>1, <2>2 DEF Asked, InStep, Entities
  <2>4. ASSUME NEW q \in Procs, q # c PROVE (InStep(q) /\ Entities(q))'
    BY <2>2, <2>4 DEF InOrder, InStep, Entities
  <2> QED
    BY <2>3, <2>4 DEF InOrder
<1>3. ASSUME NEW j \in Jobs, FindBreach(j) PROVE InOrder'
  <2>1. (InStep(j) /\ Entities(j))'
    BY <1>3, FindBreachEffect DEF InStep, Entities
  <2>2. ASSUME NEW q \in Procs, q # j PROVE (InStep(q) /\ Entities(q))'
    BY <1>3, <2>2, FindBreachEffect DEF InOrder, InStep, Entities
  <2> QED
    BY <2>1, <2>2 DEF InOrder
<1>4. ASSUME NEW p \in Procs, End(p) PROVE InOrder'
  <2>1. (InStep(p) /\ Entities(p))'
    BY <1>0, <1>4, EndEffect
  <2>2. ASSUME NEW q \in Procs, q # p PROVE (InStep(q) /\ Entities(q))'
    BY <1>4, <2>2, EndEffect DEF InOrder, InStep, Entities
  <2> QED
    BY <2>1, <2>2 DEF InOrder
<1>5. ASSUME NEW p \in Procs, Update(p) PROVE InOrder'
  <2>1. (InStep(p) /\ Entities(p))'
    BY <1>0, <1>5, UpdateEffect
  <2>2. ASSUME NEW q \in Procs, q # p PROVE (InStep(q) /\ Entities(q))'
    BY <1>5, <2>2, UpdateEffect DEF InOrder, InStep, Entities
  <2> QED
    BY <2>1, <2>2 DEF InOrder
<1>6. ASSUME NEW p \in Procs, NEW from, NEW to, Moves(p, from, to), UNCHANGED <<op, entity, held>>,
             \/ from \in {"respondent", "claimant"} /\ to \in Charging
             \/ from \in Charging \cup Saving /\ to \in Saving
             \/ from = "compensate" /\ to = "selectReversal"
             \/ from \in SavingReversal /\ to \in SavingReversal
             \/ from \in SavingReversal /\ to = "notify" /\ held[p] = "COMPLETED"
      PROVE  InOrder'
  <2>1. InStep(p) /\ Entities(p)
    BY DEF InOrder
  <2>2. (InStep(p) /\ Entities(p))'
    BY <1>6, <2>1 DEF Moves, InStep, Entities
  <2>3. ASSUME NEW q \in Procs, q # p PROVE (InStep(q) /\ Entities(q))'
    BY <1>6, <2>3 DEF Moves, InOrder, InStep, Entities
  <2> QED
    BY <2>2, <2>3 DEF InOrder
<1>7. ASSUME NEW p \in Procs, Step(p) PROVE InOrder'
  <2>1. CASE Insert(p)
    BY <1>4, <2>1 DEF Insert
  <2>2. CASE ReadRespondent(p)
    BY <1>6, <2>2, GotoMoves DEF ReadRespondent
  <2>3. CASE ReadClaimant(p)
    BY <1>4, <1>6, <2>3, GotoMoves DEF ReadClaimant, Rejected
  <2>4. CASE Commit(p)
    BY <1>6, <2>4, GotoMoves DEF Commit
  <2>5. CASE Select(p)
    BY <1>6, <2>5, GotoMoves DEF Select
  <2>6. CASE Update(p)
    BY <1>5, <2>6
  <2>7. CASE Compensate(p)
    BY <1>6, <2>7, GotoMoves DEF Compensate
  <2>8. CASE SelectReversal(p)
    BY <1>6, <2>8, GotoMoves DEF SelectReversal
  <2>9. CASE UpdateReversal(p)
    BY <1>4, <1>6, <2>9, GotoMoves DEF UpdateReversal
  <2>10. CASE Notify(p)
    BY <1>4, <2>10 DEF Notify
  <2> QED
    BY <1>7, <2>1, <2>2, <2>3, <2>4, <2>5, <2>6, <2>7, <2>8, <2>9, <2>10 DEF Step
<1>8. ASSUME NEW p \in Procs, Fail(p) PROVE InOrder'
  <2>1. CASE op[p] = "confirm" /\ held[p] = "COMPLETED"
    <3>1. UNCHANGED <<op, entity>> /\ held' = [held EXCEPT ![p] = "FAILED"] /\ Goto(p, "selectReversal")
      BY <1>8, <2>1 DEF Fail
    <3>2. (InStep(p) /\ Entities(p))'
      BY <2>1, <3>1 DEF InOrder, InStep, Entities, Goto, TypeOK
    <3>3. ASSUME NEW q \in Procs, q # p PROVE (InStep(q) /\ Entities(q))'
      BY <3>1, <3>3 DEF InOrder, InStep, Entities, Goto, TypeOK
    <3> QED
      BY <3>2, <3>3 DEF InOrder
  <2>2. CASE ~(op[p] = "confirm" /\ held[p] = "COMPLETED")
    BY <1>4, <1>8, <2>2 DEF Fail
  <2> QED
    BY <2>1, <2>2
<1> QED
  BY <1>1, <1>2, <1>3, <1>7, <1>8 DEF Next

\* Only Commit moves money back.
LEMMA OnlyCommitCharges ==
  ASSUME TypeOK, [Next]_vars, \A p \in Procs : ~ Commit(p)
  PROVE  UNCHANGED <<charged, unfunded>>
<1>1. CASE Age \/ Spend \/ Release \/ UNCHANGED vars
  BY <1>1 DEF Age, Spend, Release, vars
<1>2. ASSUME NEW c \in Calls, Call(c) PROVE UNCHANGED <<charged, unfunded>>
  BY <1>2, CallIsRequest, RequestEffect
<1>3. ASSUME NEW j \in Jobs, FindBreach(j) PROVE UNCHANGED <<charged, unfunded>>
  BY <1>3, FindBreachEffect
<1>4. ASSUME NEW p \in Procs, Step(p) \/ Fail(p) PROVE UNCHANGED <<charged, unfunded>>
  BY <1>4 DEF Step, Insert, ReadRespondent, ReadClaimant, Select, Update, Compensate, SelectReversal,
              UpdateReversal, Notify, Fail, stores
<1> QED
  BY <1>1, <1>2, <1>3, <1>4 DEF Next

LEMMA CommitCharges ==
  ASSUME TypeOK, NEW p \in Procs, Commit(p)
  PROVE  Done' = Done + 1 /\ Done \in Nat
<1>1. \/ charged' = charged + 1 /\ unfunded' = unfunded
      \/ charged' = charged /\ unfunded' = unfunded + 1
  BY DEF Commit
<1>2. charged \in Nat /\ unfunded \in Nat
  BY DEF TypeOK
<1> QED
  BY <1>1, <1>2 DEF Done

LEMMA DoneGrows ==
  ASSUME TypeOK, [Next]_vars
  PROVE  Done \in Nat /\ Done' \in Nat /\ Done' >= Done
<1>1. Done \in Nat
  BY DEF TypeOK, Done
<1>2. CASE \A p \in Procs : ~ Commit(p)
  BY <1>1, <1>2, OnlyCommitCharges DEF Done
<1>3. CASE \E p \in Procs : Commit(p)
  BY <1>1, <1>3, CommitCharges
<1> QED
  BY <1>2, <1>3

LEMMA ClaimsStep == TypeOK /\ InOrder /\ ClaimsHold /\ [Next]_vars => ClaimsHold'
<1> SUFFICES ASSUME TypeOK, InOrder, ClaimsHold, [Next]_vars PROVE ClaimsHold'
  OBVIOUS
<1> DEFINE Fine(q) == Said(seen[q], Done) /\ (pc[q] \in Charging \/ Said(entity[q], Done))
<1>1. ASSUME NEW d, Said(d, Done) PROVE Said(d, Done')
  BY <1>1, DoneGrows DEF Said
<1>2. Said(NoDispute, Done')
  BY DEF Said, NoDispute
<1>3. Said(dispute, Done') /\ \A q \in Procs : Fine(q)
  BY <1>1 DEF ClaimsHold
<1>4. ASSUME NEW q \in Procs, pc'[q] = pc[q], entity'[q] = entity[q], seen'[q] = seen[q]
      PROVE  Fine(q)'
  BY <1>1, <1>3, <1>4
<1>5. ASSUME Said(dispute', Done'), \A q \in Procs : Fine(q)' PROVE ClaimsHold'
  BY <1>5 DEF ClaimsHold
<1> HIDE DEF Fine
<1>6. CASE Age \/ Spend \/ Release \/ UNCHANGED vars
  <2>1. UNCHANGED <<dispute, pc, entity, seen>>
    BY <1>6 DEF Age, Spend, Release, work, vars
  <2> QED
    BY <1>3, <1>4, <1>5, <2>1
<1>7. ASSUME NEW c \in Calls, Call(c) PROVE ClaimsHold'
  <2>1. PICK what \in DisputeOps \ {"none", "escalate"}, step \in DisputeSteps, d \in DisputeRows, r \in ReversalRows :
          Request(c, what, step, d, r) /\ Asked(what, step, d, r)
    BY <1>7, CallIsRequest
  <2>2. /\ pc'[c] = step /\ entity'[c] = d /\ seen' = seen /\ dispute' = dispute
        /\ \A q \in Procs : q # c => pc'[q] = pc[q] /\ entity'[q] = entity[q]
    BY <2>1, RequestEffect
  <2>3. step \in Charging \/ Said(d, Done')
    BY <1>2, <1>3, <2>1 DEF Asked, Said
  <2>4. Fine(c)'
    BY <1>1, <1>3, <2>2, <2>3 DEF Fine
  <2> QED
    BY <1>3, <1>4, <1>5, <2>2, <2>4
<1>8. ASSUME NEW j \in Jobs, FindBreach(j) PROVE ClaimsHold'
  <2>1. Fine(j)'
    BY <1>1, <1>3, <1>8, FindBreachEffect DEF Fine, Said
  <2> QED
    BY <1>3, <1>4, <1>5, <1>8, <2>1, FindBreachEffect
<1>9. ASSUME NEW p \in Procs, End(p), Said(dispute', Done') PROVE ClaimsHold'
  <2>1. Fine(p)'
    BY <1>2, <1>9, EndEffect DEF Fine
  <2> QED
    BY <1>4, <1>5, <1>9, <2>1, EndEffect
<1>10. ASSUME NEW p \in Procs, UNCHANGED <<dispute, entity, seen>>,
              \A q \in Procs : q # p => pc'[q] = pc[q], pc[p] \in Charging => pc'[p] \in Charging
       PROVE  ClaimsHold'
  <2>1. Fine(p)'
    BY <1>1, <1>3, <1>10 DEF Fine
  <2> QED
    BY <1>3, <1>4, <1>5, <1>10, <2>1
<1>11. ASSUME NEW p \in Procs, Step(p) PROVE ClaimsHold'
  <2>1. CASE Insert(p)
    <3>1. dispute' = dispute \/ (op[p] = "create" /\ dispute' = entity[p])
      <4>1. CASE op[p] = "create"
        BY <2>1, <4>1 DEF Insert
      <4>2. CASE op[p] # "create"
        BY <2>1, <4>2 DEF Insert
      <4> QED
        BY <4>1, <4>2
    <3>2. Said(dispute', Done')
      BY <1>3, <3>1 DEF InOrder, Entities, Said
    <3> QED
      BY <1>9, <2>1, <3>2 DEF Insert
  <2>2. CASE ReadRespondent(p)
    BY <1>10, <2>2 DEF ReadRespondent, Goto, TypeOK, stores
  <2>3. CASE ReadClaimant(p)
    BY <1>3, <1>9, <1>10, <2>3 DEF ReadClaimant, Rejected, Goto, TypeOK, stores
  <2>4. CASE Commit(p)
    <3>1. Done' > 0
      BY <2>4, CommitCharges
    <3> QED
      BY <1>5, <3>1 DEF Said, Fine
  <2>5. CASE Select(p)
    <3>1. /\ pc'[p] = "update" /\ pc[p] = "select" /\ seen'[p] = dispute
          /\ UNCHANGED <<dispute, entity>>
          /\ \A q \in Procs : q # p => pc'[q] = pc[q] /\ seen'[q] = seen[q]
      BY <2>5 DEF Select, Goto, TypeOK, stores
    <3>2. Fine(p)'
      BY <1>1, <1>3, <3>1 DEF Fine
    <3> QED
      BY <1>3, <1>4, <1>5, <3>1, <3>2
  <2>6. CASE Update(p)
    <3>1. dispute'.status \in {entity[p].status, dispute.status}
      BY <2>6, UpdateEffect DEF Written, Column
    <3>2. Said(entity[p], Done')
      BY <1>1, <1>3, <2>6, UpdateEffect DEF Fine
    <3>3. Said(dispute', Done')
      BY <1>3, <3>1, <3>2 DEF Said
    <3>4. Fine(p)'
      BY <1>2, <2>6, UpdateEffect DEF Fine
    <3> QED
      BY <1>4, <1>5, <2>6, <3>3, <3>4, UpdateEffect
  <2>7. CASE Compensate(p)
    BY <1>10, <2>7 DEF Compensate, Goto, TypeOK
  <2>8. CASE SelectReversal(p)
    BY <1>10, <2>8 DEF SelectReversal, Goto, TypeOK, stores
  <2>9. CASE UpdateReversal(p)
    BY <1>3, <1>9, <1>10, <2>9 DEF UpdateReversal, Goto, TypeOK
  <2>10. CASE Notify(p)
    BY <1>3, <1>9, <2>10 DEF Notify, stores
  <2> QED
    BY <1>11, <2>1, <2>2, <2>3, <2>4, <2>5, <2>6, <2>7, <2>8, <2>9, <2>10 DEF Step
<1>12. ASSUME NEW p \in Procs, Fail(p) PROVE ClaimsHold'
  <2>1. CASE op[p] = "confirm" /\ held[p] = "COMPLETED"
    <3>1. pc[p] \notin Charging
      BY <2>1 DEF InOrder, InStep
    <3> QED
      BY <1>10, <1>12, <2>1, <3>1 DEF Fail, Goto, TypeOK, stores
  <2>2. CASE ~(op[p] = "confirm" /\ held[p] = "COMPLETED")
    BY <1>3, <1>9, <1>12, <2>2 DEF Fail, stores
  <2> QED
    BY <2>1, <2>2
<1> QED
  BY <1>6, <1>7, <1>8, <1>11, <1>12 DEF Next

\* What has gone wrong stays so.
LEMMA MishapsStay == [Next]_vars => mishaps \subseteq mishaps'
<1>1. CASE Age \/ Spend \/ Release \/ UNCHANGED vars
  BY <1>1 DEF Age, Spend, Release, ghosts, vars
<1>2. ASSUME NEW c \in Calls, Call(c) PROVE mishaps \subseteq mishaps'
  BY <1>2 DEF Call, CreateDispute, AddEvidence, Assign, Resolve, Preview, Confirm, Request
<1>3. ASSUME NEW j \in Jobs, FindBreach(j) PROVE mishaps \subseteq mishaps'
  BY <1>3 DEF FindBreach, ghosts
<1>4. ASSUME NEW p \in Procs, Step(p) \/ Fail(p) PROVE mishaps \subseteq mishaps'
  BY <1>4 DEF Step, Insert, ReadRespondent, ReadClaimant, Commit, Select, Update, Compensate,
              SelectReversal, UpdateReversal, Notify, Fail, ghosts
<1> QED
  BY <1>1, <1>2, <1>3, <1>4 DEF Next

\* A resolution begins alone, or the race is noted; a confirmation, too.
LEMMA BeginsAlone ==
  ASSUME TypeOK, InOrder, NEW c \in Calls, NEW what, NEW step, NEW d, NEW r, Request(c, what, step, d, r)
  PROVE  /\ what \in Resolutions /\ "race" \notin mishaps' => \A q \in Procs : op[q] \notin Resolutions
         /\ what = "confirm" /\ "twice" \notin mishaps' => \A q \in Procs : op[q] # "confirm"
<1>1. \A q \in Procs : op[q] \in Resolutions \cup {"confirm"} => q \in Calls
  BY DEF InOrder, InStep
<1>2. mishaps' = mishaps \cup Overlap(what)
  BY DEF Request
<1> QED
  BY <1>1, <1>2 DEF Overlap

\* A row written by one that is in order and has read a row in order, as long as
\* nothing goes wrong: a resolution is written whole, and nothing else changes one.
LEMMA UpdateClean ==
  ASSUME TypeOK, InOrder, Clean, CleanInv, NEW p \in Procs, Update(p), Clean'
  PROVE  /\ Told(dispute')
         /\ dispute.status \in Resolved => dispute' = dispute
         /\ op[p] \in Resolutions => dispute'.status = entity[p].status
         /\ op[p] \notin Resolutions /\ dispute.status \in Open => dispute'.status \in Open
         /\ op[p] \notin Resolutions => (dispute'.status \in Resolved <=> dispute.status \in Resolved)
<1>1. /\ pc[p] = "update" /\ dispute' = Written(entity[p], seen[p], dispute)
      /\ entity[p] \in DisputeRows /\ seen[p] \in DisputeRows /\ dispute \in DisputeRows
  BY UpdateEffect DEF TypeOK
<1>2. /\ dispute'.status = Column(entity[p].status, seen[p].status, dispute.status)
      /\ dispute'.resolvedAt = Column(entity[p].resolvedAt, seen[p].resolvedAt, dispute.resolvedAt)
  BY <1>1 DEF Written
<1>3. dispute.status \in Resolved => dispute' = dispute
  BY DEF Update, Clean
<1>4. Copied(p) /\ Told(dispute) /\ InStep(p) /\ Entities(p)
  BY DEF CleanInv, InOrder
<1>5. CASE dispute.status \in Resolved
  <2>1. op[p] \notin Resolutions
    BY <1>4, <1>5 DEF Copied
  <2> QED
    BY <1>3, <1>4, <1>5, <2>1
<1>6. CASE dispute.status \notin Resolved
  <2>1. seen[p].status \notin Resolved /\ ~ seen[p].resolvedAt /\ ~ dispute.resolvedAt
    BY <1>1, <1>4, <1>6 DEF Copied, Told
  <2>2. CASE op[p] \in Resolutions
    <3>1. entity[p].status \in Resolved /\ entity[p].resolvedAt
      BY <1>4, <2>2 DEF Entities
    <3>2. dispute'.status = entity[p].status
      BY <1>2, <2>1, <3>1 DEF Column
    <3>3. dispute'.resolvedAt = entity[p].resolvedAt
      BY <1>1, <1>2, <2>1, <3>1 DEF Column, DisputeRows
    <3> QED
      BY <1>6, <2>2, <3>1, <3>2, <3>3 DEF Told
  <2>3. CASE op[p] \notin Resolutions
    <3>1. entity[p].status \notin Resolved /\ ~ entity[p].resolvedAt /\ entity[p].status # "NONE"
      BY <1>1, <1>4, <1>6, <2>3 DEF Copied, Told, InStep
    <3>2. entity[p].status \in Open
      BY <1>1, <3>1 DEF DisputeRows, DisputeStatuses
    <3>3. dispute'.status \in {entity[p].status, dispute.status} /\ ~ dispute'.resolvedAt
      BY <1>2, <2>1, <3>1 DEF Column
    <3> QED
      BY <1>6, <2>3, <3>1, <3>2, <3>3 DEF Told
  <2> QED
    BY <2>2, <2>3
<1> QED
  BY <1>5, <1>6

LEMMA CleanStep == TypeOK /\ InOrder /\ Clean /\ CleanInv /\ [Next]_vars /\ Clean' => CleanInv'
<1> SUFFICES ASSUME TypeOK, InOrder, Clean, CleanInv, [Next]_vars, Clean' PROVE CleanInv'
  OBVIOUS
<1>1. Done \in Nat /\ OneAtATime /\ Done <= 1 /\ Told(dispute) /\ Paid /\ \A q \in Procs : Copied(q)
  BY DoneGrows DEF CleanInv
<1>2. Told(NoDispute) /\ NoDispute.status = "NONE"
  BY DEF Told, NoDispute
<1>3. \A q \in Procs : InStep(q) /\ Entities(q)
  BY DEF InOrder
<1>4. CASE Age \/ Spend \/ Release \/ UNCHANGED vars
  <2>1. UNCHANGED <<dispute, pc, op, entity, seen, charged, unfunded>>
    BY <1>4 DEF Age, Spend, Release, work, vars
  <2> QED
    BY <1>1, <2>1 DEF CleanInv, OneAtATime, Done, Told, Paid, Copied
\* Those the step does not touch, at a row it does not change.
<1>5. ASSUME NEW q \in Procs, UNCHANGED <<dispute, charged, unfunded>>, pc'[q] = pc[q], op'[q] = op[q],
             entity'[q] = entity[q], seen'[q] = seen[q]
      PROVE  Copied(q)'
  BY <1>1, <1>5 DEF Copied, Told, Done
\* A step of one that is not a resolution, before and after it.
<1>6. ASSUME NEW p \in Procs, UNCHANGED <<dispute, charged, unfunded>>,
             op[p] # "chargeback" \/ pc[p] \notin Saving, op'[p] \notin Resolutions, Copied(p)',
             \A q \in Procs : q # p =>
               pc'[q] = pc[q] /\ op'[q] = op[q] /\ entity'[q] = entity[q] /\ seen'[q] = seen[q]
      PROVE  CleanInv'
  <2>1. OneAtATime'
    BY <1>1, <1>6 DEF OneAtATime
  <2>2. Paid'
    BY <1>1, <1>6 DEF Paid, Done
  <2>3. \A q \in Procs : Copied(q)'
    BY <1>5, <1>6
  <2>4. Done' = Done
    BY <1>6 DEF Done
  <2> QED
    BY <1>1, <1>6, <2>1, <2>2, <2>3, <2>4 DEF CleanInv, Told
<1>7. ASSUME NEW c \in Calls, Call(c) PROVE CleanInv'
  <2>1. PICK what \in DisputeOps \ {"none", "escalate"}, step \in DisputeSteps, d \in DisputeRows, r \in ReversalRows :
          Request(c, what, step, d, r) /\ Asked(what, step, d, r)
    BY <1>7, CallIsRequest
  <2>2. /\ pc[c] = "idle"
        /\ pc'[c] = step /\ op'[c] = what /\ entity'[c] = d /\ seen' = seen
        /\ UNCHANGED <<dispute, charged, unfunded>>
        /\ \A q \in Procs : q # c => pc'[q] = pc[q] /\ op'[q] = op[q] /\ entity'[q] = entity[q]
    BY <2>1, RequestEffect
  <2>3. Told(d)
    BY <1>1, <1>2, <2>1 DEF Asked, Told
  <2>4. CASE what \notin Resolutions
    <3>1. d.status \in Resolved => dispute.status = d.status
      BY <1>2, <2>1, <2>4 DEF Asked
    <3>2. step # "update" /\ step \notin Charging
      BY <2>1, <2>4 DEF Asked
    <3>3. Copied(c)'
      BY <1>1, <2>2, <2>3, <2>4, <3>1, <3>2 DEF Copied, Told, Done
    <3> QED
      BY <1>6, <2>2, <2>4, <3>3
  <2>5. CASE what \in Resolutions
    <3>1. \A q \in Procs : op[q] \notin Resolutions
      BY <2>1, <2>5, BeginsAlone DEF Clean
    <3>2. dispute.status \in Open /\ step # "update"
      BY <2>1, <2>5 DEF Asked
    <3>3. Done = 0 /\ Done' = 0
      BY <1>1, <2>2, <3>1, <3>2 DEF Paid, Done
    <3>4. Copied(c)'
      BY <1>1, <2>2, <2>3, <2>5, <3>2, <3>3 DEF Copied, Told
    <3>5. \A q \in Procs : Copied(q)'
      BY <1>5, <2>2, <3>4
    <3>6. OneAtATime'
      BY <2>2, <3>1 DEF OneAtATime
    <3> QED
      BY <1>1, <2>2, <3>3, <3>5, <3>6 DEF CleanInv, Paid, Told
  <2> QED
    BY <2>4, <2>5
<1>8. ASSUME NEW j \in Jobs, FindBreach(j) PROVE CleanInv'
  <2>1. Copied(j)'
    BY <1>1, <1>8, FindBreachEffect DEF Copied, Told, Done
  <2> QED
    BY <1>6, <1>8, <2>1, FindBreachEffect
<1>9. ASSUME NEW p \in Procs, End(p), UNCHANGED <<dispute, charged, unfunded>>, pc[p] \notin Saving
      PROVE  CleanInv'
  <2>1. Copied(p)'
    BY <1>2, <1>9, EndEffect DEF Copied, Told
  <2> QED
    BY <1>6, <1>9, <2>1, EndEffect
\* A step that changes where one is, and nothing else that counts.
<1>10. ASSUME NEW p \in Procs, UNCHANGED <<dispute, charged, unfunded, op, entity, seen>>,
              \A q \in Procs : q # p => pc'[q] = pc[q],
              pc[p] \notin Saving, pc'[p] \notin Saving, pc'[p] \in Charging => pc[p] \in Charging
       PROVE  CleanInv'
  <2>1. Copied(p)'
    BY <1>1, <1>10 DEF Copied, Told, Done
  <2>2. \A q \in Procs : Copied(q)'
    BY <1>5, <1>10, <2>1
  <2>3. Paid'
    BY <1>1, <1>10 DEF Paid, Done
  <2>4. OneAtATime' /\ Done' = Done
    BY <1>1, <1>10 DEF OneAtATime, Done
  <2> QED
    BY <1>1, <1>10, <2>2, <2>3, <2>4 DEF CleanInv, Told
<1>11. ASSUME NEW p \in Procs, Insert(p) PROVE CleanInv'
  <2>1. End(p) /\ pc[p] = "insert" /\ UNCHANGED <<charged, unfunded>>
    BY <1>11 DEF Insert
  <2>2. CASE UNCHANGED dispute
    BY <1>9, <2>1, <2>2
  <2>3. CASE dispute.status = "NONE" /\ op[p] = "create" /\ dispute' = entity[p]
    <3>1. dispute'.status = "OPEN" /\ ~ dispute'.resolvedAt
      BY <1>3, <2>3 DEF Entities
    <3>2. Copied(p)'
      BY <1>2, <2>1, EndEffect DEF Copied, Told
    <3>3. ASSUME NEW q \in Procs, q # p PROVE Copied(q)'
      BY <1>1, <2>1, <2>3, <3>1, <3>3, EndEffect DEF Copied, Told, Done
    <3>4. Paid' /\ OneAtATime' /\ Done' = Done
      BY <1>1, <2>1, <2>3, <3>1, EndEffect DEF Paid, OneAtATime, Done
    <3> QED
      BY <1>1, <3>1, <3>2, <3>3, <3>4 DEF CleanInv, Told
  <2>4. dispute' = dispute \/ (dispute.status = "NONE" /\ op[p] = "create" /\ dispute' = entity[p])
    <3>1. CASE op[p] = "create"
      BY <1>11, <3>1 DEF Insert
    <3>2. CASE op[p] # "create"
      BY <1>11, <3>2 DEF Insert
    <3> QED
      BY <3>1, <3>2
  <2> QED
    BY <2>2, <2>3, <2>4
<1>12. ASSUME NEW p \in Procs, Commit(p) PROVE CleanInv'
  <2>1. /\ pc[p] = "commit" /\ pc'[p] = "select" /\ op[p] = "chargeback"
        /\ UNCHANGED <<dispute, op, entity, seen>> /\ \A q \in Procs : q # p => pc'[q] = pc[q]
    BY <1>3, <1>12 DEF Commit, Goto, TypeOK, InStep
  <2>2. Done = 0 /\ Done' = 1
    BY <1>1, <1>12, <2>1, CommitCharges DEF Copied
  <2>3. Copied(p)'
    BY <1>1, <2>1 DEF Copied, Told
  <2>4. ASSUME NEW q \in Procs, q # p PROVE Copied(q)'
    <3>1. op[q] \notin Resolutions
      BY <1>1, <2>1, <2>4 DEF OneAtATime
    <3>2. op[q] # "valid" /\ pc[q] \notin Charging
      BY <1>3, <3>1 DEF InStep
    <3> QED
      BY <1>1, <2>1, <2>4, <3>1, <3>2 DEF Copied, Told
  <2>5. Paid' /\ OneAtATime'
    BY <1>1, <2>1 DEF Paid, OneAtATime
  <2> QED
    BY <1>1, <2>1, <2>2, <2>3, <2>4, <2>5 DEF CleanInv, Told
<1>13. ASSUME NEW p \in Procs, Select(p) PROVE CleanInv'
  <2>1. /\ pc[p] = "select" /\ pc'[p] = "update" /\ seen'[p] = dispute
        /\ UNCHANGED <<dispute, op, entity, charged, unfunded>>
        /\ \A q \in Procs : q # p => pc'[q] = pc[q] /\ seen'[q] = seen[q]
    BY <1>13 DEF Select, Goto, TypeOK, stores
  <2>2. Copied(p)'
    BY <1>1, <2>1 DEF Copied, Told, Done
  <2>3. \A q \in Procs : Copied(q)'
    BY <1>5, <2>1, <2>2
  <2>4. Paid' /\ OneAtATime' /\ Done' = Done
    BY <1>1, <2>1 DEF Paid, OneAtATime, Done
  <2> QED
    BY <1>1, <2>1, <2>3, <2>4 DEF CleanInv, Told
<1>14. ASSUME NEW p \in Procs, Update(p) PROVE CleanInv'
  <2>1. /\ pc[p] = "update" /\ op'[p] = "none" /\ pc'[p] = "idle" /\ entity'[p] = NoDispute
        /\ seen'[p] = NoDispute /\ Done' = Done
        /\ \A q \in Procs : q # p =>
             pc'[q] = pc[q] /\ op'[q] = op[q] /\ entity'[q] = entity[q] /\ seen'[q] = seen[q]
    BY <1>14, UpdateEffect DEF Done
  <2>2. Copied(p)'
    BY <1>2, <2>1 DEF Copied, Told
  <2>3. ASSUME NEW q \in Procs, q # p PROVE Copied(q)'
    <3>1. CASE op[p] \in Resolutions
      <4>1. op[q] \notin Resolutions /\ dispute.status \in Open
        BY <1>1, <2>3, <3>1 DEF OneAtATime, Copied
      <4>2. op[q] # "valid" /\ pc[q] \notin Charging
        BY <1>3, <4>1 DEF InStep
      <4> QED
        BY <1>1, <2>1, <2>3, <4>1, <4>2 DEF Copied, Told
    <3>2. CASE op[p] \notin Resolutions
      BY <1>1, <1>14, <2>1, <2>3, <3>2, UpdateClean DEF Copied, Told
    <3> QED
      BY <3>1, <3>2
  <2>4. Paid'
    <3>1. CASE op[p] = "chargeback"
      BY <1>3, <1>14, <3>1, UpdateClean DEF Entities, Paid
    <3>2. CASE op[p] = "valid"
      BY <1>1, <2>1, <3>2 DEF Copied, Paid
    <3>3. CASE op[p] \notin Resolutions
      BY <1>1, <1>14, <2>1, <3>3, UpdateClean DEF Paid
    <3> QED
      BY <3>1, <3>2, <3>3
  <2>5. OneAtATime'
    BY <1>1, <2>1 DEF OneAtATime
  <2> QED
    BY <1>1, <1>14, <2>1, <2>2, <2>3, <2>4, <2>5, UpdateClean DEF CleanInv
<1>15. ASSUME NEW p \in Procs, Step(p) PROVE CleanInv'
  <2>1. CASE ReadRespondent(p)
    BY <1>10, <2>1 DEF ReadRespondent, Goto, TypeOK, stores
  <2>2. CASE ReadClaimant(p)
    BY <1>9, <1>10, <2>2 DEF ReadClaimant, Rejected, Goto, TypeOK, stores
  <2>3. CASE Compensate(p)
    BY <1>10, <2>3 DEF Compensate, Goto, TypeOK
  <2>4. CASE SelectReversal(p)
    BY <1>10, <2>4 DEF SelectReversal, Goto, TypeOK, stores
  <2>5. CASE UpdateReversal(p)
    BY <1>9, <1>10, <2>5 DEF UpdateReversal, Goto, TypeOK
  <2>6. CASE Notify(p)
    BY <1>9, <2>6 DEF Notify, stores
  <2> QED
    BY <1>11, <1>12, <1>13, <1>14, <1>15, <2>1, <2>2, <2>3, <2>4, <2>5, <2>6 DEF Step
<1>16. \A p \in Procs : ~ Fail(p)
  BY DEF Fail, Failure, Clean
<1> QED
  BY <1>4, <1>7, <1>8, <1>15, <1>16 DEF Next

\* The reversal.  A row is written once it was selected: what does not differ is left.
LEMMA UpdateReversalEffect ==
  ASSUME TypeOK, InOrder, ReversalInv, NEW p \in Procs, UpdateReversal(p)
  PROVE  /\ pc[p] = "updateReversal" /\ held[p] \in Ended /\ reversal' \in Ended
         /\ reversal' \in {held[p], reversal}
         /\ looked[p] # held[p] => reversal' = held[p]
         /\ \/ held[p] = "COMPLETED" /\ pc'[p] = "notify"
            \/ held[p] = "FAILED" /\ pc'[p] = "idle"
         /\ \A q \in Procs : q # p => pc'[q] = pc[q]
         /\ \A q \in Procs : q # p => op'[q] = op[q] /\ held'[q] = held[q] /\ looked'[q] = looked[q]
         /\ pc'[p] = "notify" => op'[p] = op[p] /\ held'[p] = held[p]
         /\ pc'[p] = "idle" => op'[p] = "none" /\ held'[p] = "NONE"
         /\ compensating' = compensating /\ mishaps' = mishaps
<1>1. pc[p] = "updateReversal"
  BY DEF UpdateReversal
<1>2. held[p] \in Ended
  BY <1>1 DEF InOrder, InStep
<1>3. reversal' = Column(held[p], looked[p], reversal)
  BY DEF UpdateReversal, Saved
<1>4. looked[p] \in Ended => reversal \in Ended
  BY <1>1 DEF ReversalInv
<1>5. compensating' = compensating /\ mishaps' = mishaps
  BY DEF UpdateReversal, ghosts
<1>6. CASE held[p] = "COMPLETED"
  <2>1. Goto(p, "notify") /\ UNCHANGED <<op, entity, held, seen, looked, known, outdated>>
    BY <1>6 DEF UpdateReversal
  <2> QED
    BY <1>1, <1>2, <1>3, <1>4, <1>5, <1>6, <2>1 DEF Goto, TypeOK, Column
<1>7. CASE held[p] = "FAILED"
  <2>1. End(p)
    BY <1>7 DEF UpdateReversal
  <2> QED
    BY <1>1, <1>2, <1>3, <1>4, <1>5, <1>7, <2>1, EndEffect DEF Column
<1> QED
  BY <1>2, <1>6, <1>7

\* Steps that leave those who confirm alone.
Same(q) == pc'[q] = pc[q] /\ op'[q] = op[q] /\ held'[q] = held[q] /\ looked'[q] = looked[q]
Beside ==
  /\ compensating' = compensating
  /\ reversal' = reversal \/ (reversal = "NONE" /\ reversal' = "PENDING_CONFIRMATION")
  /\ \A q \in Procs : Same(q) \/ (op[q] # "confirm" /\ op'[q] # "confirm")

\* A confirmation begins, goes on, and fails.
Begins(c) ==
  /\ reversal = "PENDING_CONFIRMATION" /\ UNCHANGED <<reversal, compensating>>
  /\ pc[c] = "idle" /\ pc'[c] = "compensate" /\ op'[c] = "confirm" /\ held'[c] = "COMPLETED"
  /\ "twice" \notin mishaps' => \A q \in Procs : op[q] # "confirm"
  /\ \A q \in Procs : q # c => Same(q)
Fails(p) ==
  /\ op[p] = "confirm" /\ UNCHANGED <<reversal, compensating>> /\ "fault" \in mishaps'
  /\ \/ pc'[p] = "selectReversal" /\ op'[p] = "confirm" /\ held'[p] = "FAILED"
     \/ op'[p] = "none" /\ pc'[p] = "idle" /\ held'[p] = "NONE" /\ "unsaved" \in mishaps'
  /\ \A q \in Procs : q # p => Same(q)

LEMMA ReversalSteps ==
  ASSUME TypeOK, InOrder, [Next]_vars
  PROVE  \/ Beside
         \/ \E c \in Procs : Begins(c)
         \/ \E p \in Procs : Compensate(p) \/ SelectReversal(p) \/ UpdateReversal(p) \/ Notify(p)
         \/ \E p \in Procs : Fails(p)
<1>0. \A q \in Procs : InStep(q)
  BY DEF InOrder
<1>1. CASE Age \/ Spend \/ Release \/ UNCHANGED vars
  BY <1>1 DEF Age, Spend, Release, work, vars, Beside, Same
<1>2. ASSUME NEW c \in Calls, Call(c) PROVE Beside \/ Begins(c)
  <2>1. PICK what \in DisputeOps \ {"none", "escalate"}, step \in DisputeSteps, d \in DisputeRows, r \in ReversalRows :
          Request(c, what, step, d, r) /\ Asked(what, step, d, r)
    BY <1>2, CallIsRequest
  <2>2. /\ pc[c] = "idle" /\ pc'[c] = step /\ op'[c] = what /\ held'[c] = r
        /\ UNCHANGED <<reversal, compensating>>
        /\ \A q \in Procs : q # c => Same(q)
    BY <2>1, RequestEffect DEF Same
  <2>3. CASE what = "confirm"
    BY <2>1, <2>2, <2>3, BeginsAlone DEF Begins, Asked
  <2>4. CASE what # "confirm"
    BY <1>0, <2>2, <2>4 DEF Beside, InStep
  <2> QED
    BY <2>3, <2>4
<1>3. ASSUME NEW j \in Jobs, FindBreach(j) PROVE Beside
  <2>1. op[j] # "confirm" /\ op'[j] # "confirm"
    BY <1>0, <1>3, FindBreachEffect DEF InStep
  <2>2. \A q \in Procs : q # j => Same(q)
    BY <1>3, FindBreachEffect DEF Same
  <2> QED
    BY <1>3, <2>1, <2>2, FindBreachEffect DEF Beside
<1>4. ASSUME NEW p \in Procs, End(p), op[p] # "confirm", compensating' = compensating,
             reversal' = reversal \/ (reversal = "NONE" /\ reversal' = "PENDING_CONFIRMATION")
      PROVE  Beside
  BY <1>4, EndEffect DEF Beside, Same
<1>5. ASSUME NEW p \in Procs, op[p] # "confirm", UNCHANGED <<op, held, looked, compensating, reversal>>,
             \A q \in Procs : q # p => pc'[q] = pc[q]
      PROVE  Beside
  BY <1>5 DEF Beside, Same
<1>6. ASSUME NEW p \in Procs, Insert(p) PROVE Beside
  <2>1. End(p) /\ op[p] # "confirm" /\ compensating' = compensating
    BY <1>0, <1>6 DEF Insert, InStep
  <2>2. reversal' = reversal \/ (reversal = "NONE" /\ reversal' = "PENDING_CONFIRMATION")
    BY <1>6 DEF Insert
  <2> QED
    BY <1>4, <2>1, <2>2
<1>7. ASSUME NEW p \in Procs, ReadRespondent(p) \/ ReadClaimant(p) \/ Commit(p) \/ Select(p) \/ Update(p)
      PROVE  Beside
  <2>1. op[p] # "confirm"
    BY <1>0, <1>7 DEF ReadRespondent, ReadClaimant, Commit, Select, Update, InStep
  <2>2. CASE ReadRespondent(p)
    BY <1>5, <2>1, <2>2 DEF ReadRespondent, Goto, TypeOK, stores
  <2>3. CASE ReadClaimant(p)
    BY <1>4, <1>5, <2>1, <2>3 DEF ReadClaimant, Rejected, Goto, TypeOK, stores
  <2>4. CASE Commit(p)
    BY <1>5, <2>1, <2>4 DEF Commit, Goto, TypeOK
  <2>5. CASE Select(p)
    BY <1>5, <2>1, <2>5 DEF Select, Goto, TypeOK, stores
  <2>6. CASE Update(p)
    BY <2>1, <2>6, UpdateEffect DEF Beside, Same
  <2> QED
    BY <1>7, <2>2, <2>3, <2>4, <2>5, <2>6
<1>8. ASSUME NEW p \in Procs, Fail(p) PROVE Beside \/ Fails(p)
  <2>1. UNCHANGED <<reversal, compensating>> /\ mishaps' = mishaps \cup Failure(p)
    BY <1>8 DEF Fail, stores
  <2>2. CASE op[p] # "confirm"
    BY <1>4, <1>8, <2>1, <2>2 DEF Fail
  <2>3. CASE op[p] = "confirm" /\ held[p] = "COMPLETED"
    <3>1. Goto(p, "selectReversal") /\ held' = [held EXCEPT ![p] = "FAILED"] /\ UNCHANGED <<op, looked>>
      BY <1>8, <2>3 DEF Fail
    <3>2. \A q \in Procs : q # p => Same(q)
      BY <3>1 DEF Goto, TypeOK, Same
    <3>3. pc'[p] = "selectReversal" /\ op'[p] = "confirm" /\ held'[p] = "FAILED"
      BY <2>3, <3>1 DEF Goto, TypeOK
    <3> QED
      BY <2>1, <2>3, <3>2, <3>3 DEF Fails, Failure
  <2>4. CASE op[p] = "confirm" /\ held[p] # "COMPLETED"
    <3>1. End(p) /\ held[p] = "FAILED"
      BY <1>0, <1>8, <2>4 DEF Fail, InStep
    <3> QED
      BY <2>1, <2>4, <3>1, EndEffect DEF Fails, Failure, Same
  <2> QED
    BY <2>2, <2>3, <2>4
<1> QED
  BY <1>1, <1>2, <1>3, <1>6, <1>7, <1>8 DEF Next, Step

\* The three steps of a confirmation before its row of the reversal is written.
LEMMA CompensateEffect ==
  ASSUME TypeOK, InOrder, NEW p \in Procs, Compensate(p)
  PROVE  /\ pc[p] = "compensate" /\ op[p] = "confirm" /\ held[p] = "COMPLETED"
         /\ pc'[p] = "selectReversal" /\ op'[p] = "confirm" /\ held'[p] = "COMPLETED"
         /\ compensating' = compensating + 1 /\ compensating \in Nat /\ reversal' = reversal
         /\ mishaps' = mishaps /\ \A q \in Procs : q # p => Same(q)
  BY DEF Compensate, Goto, TypeOK, InOrder, InStep, Same, ghosts

LEMMA SelectReversalEffect ==
  ASSUME TypeOK, InOrder, NEW p \in Procs, SelectReversal(p)
  PROVE  /\ pc[p] = "selectReversal" /\ op[p] = "confirm" /\ op' = op /\ held' = held
         /\ pc'[p] = "updateReversal" /\ looked'[p] = reversal
         /\ compensating' = compensating /\ reversal' = reversal
         /\ mishaps' = mishaps /\ \A q \in Procs : q # p => Same(q)
  BY DEF SelectReversal, Goto, TypeOK, InOrder, InStep, Same, stores, ghosts

LEMMA NotifyEffect ==
  ASSUME TypeOK, InOrder, NEW p \in Procs, Notify(p)
  PROVE  /\ pc[p] = "notify" /\ op[p] = "confirm" /\ held[p] = "COMPLETED"
         /\ pc'[p] = "idle" /\ op'[p] = "none"
         /\ compensating' = compensating /\ reversal' = reversal
         /\ mishaps' = mishaps /\ \A q \in Procs : q # p => Same(q)
  BY EndEffect DEF Notify, InOrder, InStep, Same, stores, ghosts

LEMMA ReversalStep ==
  TypeOK /\ InOrder /\ ReversalInv /\ [Next]_vars /\ InOrder' => ReversalInv'
<1> SUFFICES ASSUME TypeOK, InOrder, ReversalInv, [Next]_vars, InOrder' PROVE ReversalInv'
  OBVIOUS
<1>1. \A q \in Procs : InStep(q) /\ InStep(q)'
  BY DEF InOrder
<1>2. CASE Beside
  BY <1>1, <1>2 DEF Beside, Same, ReversalInv, InStep
<1>3. ASSUME NEW c \in Procs, Begins(c) PROVE ReversalInv'
  BY <1>1, <1>3 DEF Begins, Same, ReversalInv, InStep
<1>4. ASSUME NEW p \in Procs, Compensate(p) PROVE ReversalInv'
  BY <1>1, <1>4, CompensateEffect DEF Same, ReversalInv, InStep
<1>5. ASSUME NEW p \in Procs, SelectReversal(p) PROVE ReversalInv'
  BY <1>1, <1>5, SelectReversalEffect DEF Same, ReversalInv, InStep
<1>6. ASSUME NEW p \in Procs, UpdateReversal(p) PROVE ReversalInv'
  <2>1. reversal' = "COMPLETED" => compensating' > 0
    BY <1>6, UpdateReversalEffect DEF ReversalInv
  <2>2. reversal' \in Ended
    BY <1>6, UpdateReversalEffect
  <2>3. ASSUME NEW q \in Procs, held'[q] = "COMPLETED", pc'[q] \in SavingReversal \cup {"notify"}
        PROVE  compensating' > 0
    BY <1>6, <2>3, UpdateReversalEffect DEF ReversalInv
  <2> QED
    BY <2>1, <2>2, <2>3 DEF ReversalInv
<1>7. ASSUME NEW p \in Procs, Notify(p) PROVE ReversalInv'
  BY <1>1, <1>7, NotifyEffect DEF Same, ReversalInv, InStep
<1>8. ASSUME NEW p \in Procs, Fails(p) PROVE ReversalInv'
  BY <1>1, <1>8 DEF Fails, Same, ReversalInv, InStep
<1> QED
  BY <1>2, <1>3, <1>4, <1>5, <1>6, <1>7, <1>8, ReversalSteps

LEMMA SingleStep ==
  TypeOK /\ InOrder /\ ReversalInv /\ Single /\ SingleInv /\ [Next]_vars /\ InOrder' /\ Single' => SingleInv'
<1> SUFFICES ASSUME TypeOK, InOrder, ReversalInv, Single, SingleInv, [Next]_vars, InOrder', Single'
             PROVE  SingleInv'
  OBVIOUS
<1>0. compensating \in Nat /\ reversal \in ReversalRows
  BY DEF TypeOK
<1>1. \A q \in Procs : InStep(q) /\ InStep(q)'
  BY DEF InOrder
<1>2. CASE Beside
  <2>1. OneConfirms'
    BY <1>2 DEF Beside, Same, SingleInv, OneConfirms
  <2>2. ASSUME NEW q \in Procs, pc'[q] = "compensate" PROVE compensating' = 0
    BY <1>1, <1>2, <2>2 DEF Beside, Same, SingleInv, InStep
  <2>3. compensating' > 0 => reversal' \in Ended \/ \E q \in Procs : pc'[q] \in SavingReversal
    BY <1>1, <1>2 DEF Beside, Same, SingleInv, InStep
  <2> QED
    BY <1>2, <2>1, <2>2, <2>3 DEF Beside, SingleInv
<1>3. ASSUME NEW c \in Procs, Begins(c) PROVE SingleInv'
  <2>1. \A q \in Procs : op[q] # "confirm"
    BY <1>3 DEF Begins, Single
  <2>2. \A q \in Procs : pc[q] \notin SavingReversal
    BY <1>1, <2>1 DEF InStep
  <2>3. compensating = 0
    BY <1>0, <1>3, <2>2 DEF Begins, SingleInv
  <2>4. OneConfirms'
    BY <1>3, <2>1 DEF Begins, Same, OneConfirms
  <2> QED
    BY <1>3, <2>3, <2>4 DEF Begins, SingleInv
<1>4. ASSUME NEW p \in Procs, Compensate(p) PROVE SingleInv'
  <2>1. compensating = 0 /\ compensating' = 1
    BY <1>4, CompensateEffect DEF SingleInv
  <2>2. OneConfirms'
    BY <1>4, CompensateEffect DEF Same, SingleInv, OneConfirms
  <2>3. \A q \in Procs : pc'[q] # "compensate"
    BY <1>1, <1>4, <2>2, CompensateEffect DEF OneConfirms, InStep
  <2> QED
    BY <1>4, <2>1, <2>2, <2>3, CompensateEffect DEF SingleInv
<1>5. ASSUME NEW p \in Procs, SelectReversal(p) PROVE SingleInv'
  BY <1>5, SelectReversalEffect DEF Same, SingleInv, OneConfirms
<1>6. ASSUME NEW p \in Procs, UpdateReversal(p) PROVE SingleInv'
  <2>1. OneConfirms'
    BY <1>6, UpdateReversalEffect DEF SingleInv, OneConfirms
  <2>2. \A q \in Procs : pc'[q] = "compensate" => pc[q] = "compensate"
    BY <1>6, UpdateReversalEffect
  <2> QED
    BY <1>6, <2>1, <2>2, UpdateReversalEffect DEF SingleInv
<1>7. ASSUME NEW p \in Procs, Notify(p) PROVE SingleInv'
  BY <1>7, NotifyEffect DEF Same, SingleInv, OneConfirms
<1>8. ASSUME NEW p \in Procs, Fails(p) PROVE SingleInv'
  <2>1. pc'[p] = "selectReversal" /\ op'[p] = "confirm"
    BY <1>8 DEF Fails, Single
  <2> QED
    BY <1>8, <2>1 DEF Fails, Same, SingleInv, OneConfirms
<1> QED
  BY <1>2, <1>3, <1>4, <1>5, <1>6, <1>7, <1>8, ReversalSteps

LEMMA SafeStep ==
  TypeOK /\ InOrder /\ ReversalInv /\ SafeInv /\ [Next]_vars /\ InOrder' /\ "fault" \notin mishaps' => SafeInv'
<1> SUFFICES ASSUME TypeOK, InOrder, ReversalInv, SafeInv, [Next]_vars, InOrder', "fault" \notin mishaps'
             PROVE  SafeInv'
  OBVIOUS
<1>0. compensating \in Nat /\ reversal \in ReversalRows
  BY DEF TypeOK
<1>1. \A q \in Procs : InStep(q) /\ InStep(q)'
  BY DEF InOrder
<1>2. CASE Beside
  <2>1. ASSUME NEW q \in Procs, op'[q] = "confirm" PROVE Same(q)
    BY <1>2, <2>1 DEF Beside
  <2>2. reversal = "COMPLETED" => reversal' = "COMPLETED"
    BY <1>2 DEF Beside
  <2>3. reversal' # "FAILED"
    BY <1>2 DEF Beside, SafeInv
  <2>4. compensating' > 0 => reversal' = "COMPLETED" \/ \E q \in Procs : pc'[q] \in SavingReversal
    BY <1>1, <1>2, <2>2 DEF Beside, Same, SafeInv, InStep
  <2> QED
    BY <1>1, <2>1, <2>2, <2>3, <2>4 DEF Same, SafeInv, InStep
<1>3. ASSUME NEW c \in Procs, Begins(c) PROVE SafeInv'
  BY <1>1, <1>3 DEF Begins, Same, SafeInv, InStep
<1>4. ASSUME NEW p \in Procs, Compensate(p) PROVE SafeInv'
  BY <1>1, <1>4, CompensateEffect DEF Same, SafeInv, InStep
<1>5. ASSUME NEW p \in Procs, SelectReversal(p) PROVE SafeInv'
  BY <1>1, <1>5, SelectReversalEffect DEF Same, SafeInv, InStep
<1>6. ASSUME NEW p \in Procs, UpdateReversal(p) PROVE SafeInv'
  <2>1. held[p] = "COMPLETED" /\ reversal' = "COMPLETED"
    BY <1>1, <1>6, UpdateReversalEffect DEF SafeInv, InStep
  <2>2. ASSUME NEW q \in Procs, op'[q] = "confirm" PROVE held'[q] = "COMPLETED"
    BY <1>6, <2>1, <2>2, UpdateReversalEffect DEF SafeInv
  <2> QED
    BY <2>1, <2>2 DEF SafeInv
<1>7. ASSUME NEW p \in Procs, Notify(p) PROVE SafeInv'
  BY <1>1, <1>7, NotifyEffect DEF Same, SafeInv, InStep
<1>8. \A p \in Procs : ~ Fails(p)
  BY DEF Fails
<1> QED
  BY <1>2, <1>3, <1>4, <1>5, <1>6, <1>7, <1>8, ReversalSteps

\* A charge-back is a credit.
LEMMA OneMore ==
  ASSUME NEW a \in Int, NEW n \in Int
  PROVE  a * (n + 1) = a * n + a
  OBVIOUS

LEMMA CreditStep ==
  TypeOK /\ ChargeBackIsACredit /\ [Next]_vars => ChargeBackIsACredit'
<1> SUFFICES ASSUME TypeOK, ChargeBackIsACredit, [Next]_vars PROVE ChargeBackIsACredit'
  OBVIOUS
<1>0. Amount \in Nat /\ Funds \in Nat /\ balance \in Int /\ charged \in Nat /\ spent \in Nat
  BY DisputesAssumption DEF TypeOK
<1>1. CASE UNCHANGED <<balance, charged, spent, lost>>
  BY <1>1 DEF ChargeBackIsACredit
<1>2. CASE Spend
  <2>1. charged' = charged /\ lost' = lost /\ balance' = balance - Amount /\ spent' = spent + Amount
    BY <1>2 DEF Spend, ghosts
  <2>2. Amount * charged \in Int
    BY <1>0
  <2> DEFINE m == Amount * charged
  <2>3. m' = m
    BY <2>1
  <2>4. ChargeBackIsACredit <=> (~ lost => balance = Funds + m - spent)
    BY DEF ChargeBackIsACredit
  <2>5. ChargeBackIsACredit' <=> (~ lost' => balance' = Funds + m' - spent')
    BY DEF ChargeBackIsACredit
  <2> HIDE DEF m
  <2>6. m \in Int
    BY <2>2 DEF m
  <2> QED
    BY <1>0, <2>1, <2>3, <2>4, <2>5, <2>6
<1>3. ASSUME NEW p \in Procs, Commit(p) PROVE ChargeBackIsACredit'
  <2>1. CASE known[p] >= 0
    <3>1. /\ balance' = known[p] + Amount /\ charged' = charged + 1 /\ spent' = spent
          /\ ~ lost' => ~ lost /\ balance = known[p]
      BY <1>3, <2>1 DEF Commit, Credited, bounds
    <3> DEFINE m == Amount * charged
    <3>2. m \in Int /\ m' = m + Amount
      BY <1>0, <3>1, OneMore
    <3>3. ChargeBackIsACredit <=> (~ lost => balance = Funds + m - spent)
      BY DEF ChargeBackIsACredit
    <3>4. ChargeBackIsACredit' <=> (~ lost' => balance' = Funds + m' - spent')
      BY DEF ChargeBackIsACredit
    <3> HIDE DEF m
    <3> QED
      BY <1>0, <3>1, <3>2, <3>3, <3>4
  <2>2. CASE ~(known[p] >= 0)
    BY <1>1, <1>3, <2>2 DEF Commit, bounds
  <2> QED
    BY <2>1, <2>2
<1>4. CASE Age \/ Release \/ UNCHANGED vars
  BY <1>1, <1>4 DEF Age, Release, ghosts, bounds, vars
<1>5. ASSUME NEW c \in Calls, Call(c) PROVE ChargeBackIsACredit'
  BY <1>1, <1>5 DEF Call, CreateDispute, AddEvidence, Assign, Resolve, Preview, Confirm, Request, stores
<1>6. ASSUME NEW j \in Jobs, FindBreach(j) PROVE ChargeBackIsACredit'
  BY <1>1, <1>6 DEF FindBreach, stores, ghosts, bounds
<1>7. ASSUME NEW p \in Procs, Step(p) \/ Fail(p), ~ Commit(p) PROVE ChargeBackIsACredit'
  BY <1>1, <1>7 DEF Step, Insert, ReadRespondent, ReadClaimant, Select, Update, Compensate, SelectReversal,
                    UpdateReversal, Notify, Fail, stores, ghosts, bounds
<1> QED
  BY <1>2, <1>3, <1>4, <1>5, <1>6, <1>7 DEF Next

LEMMA InvStep == Inv /\ [Next]_vars => Inv'
<1> SUFFICES ASSUME Inv, [Next]_vars PROVE Inv'
  OBVIOUS
<1>1. TypeOK /\ InOrder /\ ClaimsHold /\ ReversalInv /\ ChargeBackIsACredit
  BY DEF Inv
<1>2. TypeOK' /\ InOrder' /\ ClaimsHold' /\ ChargeBackIsACredit'
  BY <1>1, TypeStep, OrderStep, ClaimsStep, CreditStep
<1>3. ReversalInv'
  BY <1>1, <1>2, ReversalStep
<1>4. Clean' => CleanInv'
  BY <1>1, CleanStep, MishapsStay DEF Inv, Clean
<1>5. Single' => SingleInv'
  BY <1>1, <1>2, SingleStep, MishapsStay DEF Inv, Single
<1>6. "fault" \notin mishaps' => SafeInv'
  BY <1>1, <1>2, SafeStep, MishapsStay DEF Inv
<1> QED
  BY <1>2, <1>3, <1>4, <1>5, <1>6 DEF Inv

LEMMA InvHolds == Spec => []Inv
  BY Beginning, InvStep, PTL DEF Spec

\* The states are of their types: the stores, the copies calls hold, and what went wrong.
THEOREM TypeCorrect == Spec => []TypeOK
<1>1. Inv => TypeOK
  BY DEF Inv
<1> QED
  BY <1>1, InvHolds, PTL

\* What the row of a dispute says was done with the money, and once, however many calls
\* and jobs work on it, unless two resolutions overlap, one was undone or a statement
\* failed; a charge-back adds its amount to the balance unless a balance was overwritten.
THEOREM DisputesArePaid == Spec => []ResolutionIsPaid
<1>1. Inv => ResolutionIsPaid
  <2> SUFFICES ASSUME Inv PROVE ResolutionIsPaid
    OBVIOUS
  <2>1. charged \in Nat /\ unfunded \in Nat /\ dispute \in DisputeRows
    BY DEF Inv, TypeOK
  <2>2. ChargedBackOnce
    BY <2>1 DEF Inv, Clean, CleanInv, Done, ChargedBackOnce
  <2>3. dispute.status = "RESOLVED_CHARGEBACK" => charged + unfunded > 0
    BY DEF Inv, ClaimsHold, Said, Done
  <2>4. ASSUME Clean
        PROVE  /\ dispute.resolvedAt <=> dispute.status \in Resolved
               /\ dispute.status = "RESOLVED_VALID" => charged + unfunded = 0
    <3>1. Told(dispute) /\ Paid /\ \A p \in Procs : Copied(p)
      BY <2>4 DEF Inv, CleanInv
    <3>2. dispute.status = "RESOLVED_VALID" => ~ Done > 0
      BY <3>1 DEF Paid, Copied
    <3> QED
      BY <2>1, <3>1, <3>2 DEF Told, Done
  <2>5. ChargeBackIsACredit
    BY DEF Inv
  <2> QED
    BY <2>2, <2>3, <2>4, <2>5 DEF ResolutionIsPaid, ResolutionIsTrue, Clean
<1> QED
  BY <1>1, InvHolds, PTL

\* A transaction is compensated by one row, unless two confirmations overlap or the catch
\* fails; a reversal that is COMPLETED has its row, and a row its reversal.
THEOREM ReversalsAreSingle == Spec => []ReversedOnce
<1>1. Inv => ReversedOnce
  <2> SUFFICES ASSUME Inv PROVE ReversedOnce
    OBVIOUS
  <2>1. compensating \in Nat
    BY DEF Inv, TypeOK
  <2>2. compensating > 1 => mishaps \cap {"twice", "unsaved"} # {}
    BY <2>1 DEF Inv, Single, SingleInv
  <2>3. reversal = "COMPLETED" => compensating > 0
    BY DEF Inv, ReversalInv
  <2>4. ASSUME \A p \in Procs : op[p] # "confirm", compensating > 0, "fault" \notin mishaps
        PROVE  reversal = "COMPLETED"
    BY <2>4 DEF Inv, SafeInv, InOrder, InStep
  <2> QED
    BY <2>2, <2>3, <2>4 DEF ReversedOnce
<1> QED
  BY <1>1, InvHolds, PTL

-----------------------------------------------------------------------------
(***************************************************************************)
(* Conversions, for any number of quotes, users, currencies and requests:  *)
(* the locks are held as they should be, a quote is executed at most once, *)
(* and the whole implements ConversionPromise.                             *)
(***************************************************************************)


LEMMA NoQuoteType == NoQuote \in QuoteRows
  BY DEF NoQuote, QuoteRows

LEMMA ProceedsType ==
  ASSUME NEW q \in Quotes, NEW x \in Rates \cup {0}
  PROVE  Proceeds(q, x) \in Int
<1>1. FromAmount[q] \in Nat /\ FEE_PERMILLE \in Nat /\ x \in Nat
  BY ConversionsAssumption
<1>2. Fee(q) \in Int
  BY <1>1 DEF Fee
<1>3. (FromAmount[q] - Fee(q)) * x \in Int
  BY <1>1, <1>2
<1> QED
  BY <1>3 DEF Proceeds

LEMMA ConversionTypeInit == ConversionInit => ConversionTypeOK
<1>1. NoJob \in Quotes
  BY ConversionsAssumption DEF NoJob
<1> QED
  BY <1>1, NoQuoteType, ConversionsAssumption DEF ConversionInit, ConversionTypeOK, NothingRead

\* What ending a call changes, for the steps below.
LEMMA ConversionEndType ==
  ASSUME ConversionTypeOK, NEW r \in Requests, EndExecution(r)
  PROVE  /\ conversionPc' \in [Requests -> {"idle", "rate", "select", "update", "quote", "user", "commit"}]
         /\ job' \in [Requests -> Quotes]
         /\ selected' \in [Requests -> QuoteRows]
         /\ read' \in [Requests -> [funds : [Currencies -> Int], missing : BOOLEAN]]
<1>1. NoJob \in Quotes
  BY ConversionsAssumption DEF NoJob
<1>2. NothingRead \in [funds : [Currencies -> Int], missing : BOOLEAN]
  BY DEF NothingRead
<1> QED
  BY <1>1, <1>2, NoQuoteType DEF EndExecution, ConversionTypeOK

\* The parts of the type, after a step.
LEMMA ConversionTypeParts ==
  ASSUME quote' \in [Quotes -> QuoteRows], aged' \subseteq Quotes, rate' \in [Quotes -> Rates],
         balances' \in [Users -> [Currencies -> Int]], wallets' \in [Users -> [Currencies -> Nat]],
         keyWallet' \subseteq HasKey, executed' \in [Quotes -> Nat],
         conversionPc' \in [Requests -> {"idle", "rate", "select", "update", "quote", "user", "commit"}],
         job' \in [Requests -> Quotes], selected' \in [Requests -> QuoteRows],
         read' \in [Requests -> [funds : [Currencies -> Int], missing : BOOLEAN]],
         quoteLock' \in [Quotes -> Requests \cup {None}], userLock' \in [Users -> Requests \cup {None}]
  PROVE  ConversionTypeOK'
  BY Zenon DEF ConversionTypeOK

\* What a step that starts a call, or locks its quote, assigns.
LEMMA ExecuteDoes ==
  ASSUME NEW r, NEW u, NEW q, Execute(r, u, q), Owner[q] = u, Executable(quote[q])
  PROVE  /\ conversionPc' = [conversionPc EXCEPT ![r] = IF q \in aged THEN "select" ELSE "rate"]
         /\ job' = [job EXCEPT ![r] = q]
         /\ UNCHANGED <<selected, read>>
  BY Zenon DEF Execute

LEMMA LockQuoteDoes ==
  ASSUME NEW r, LockQuote(r), Executable(quote[job[r]])
  PROVE  /\ quoteLock' = [quoteLock EXCEPT ![job[r]] = r]
         /\ conversionPc' = [conversionPc EXCEPT ![r] = "user"]
         /\ UNCHANGED <<job, selected, read>>
  BY Zenon DEF LockQuote

\* The calls change and the database stays as it is.
LEMMA ConversionCallsType ==
  ASSUME ConversionTypeOK, UNCHANGED <<database, aged, rate, locks>>,
         conversionPc' \in [Requests -> {"idle", "rate", "select", "update", "quote", "user", "commit"}],
         job' \in [Requests -> Quotes], selected' \in [Requests -> QuoteRows],
         read' \in [Requests -> [funds : [Currencies -> Int], missing : BOOLEAN]]
  PROVE  ConversionTypeOK'
<1>1. UNCHANGED <<quote, balances, wallets, keyWallet, executed, aged, rate, quoteLock, userLock>>
  BY DEF database, locks
<1>2. /\ quote' \in [Quotes -> QuoteRows] /\ aged' \subseteq Quotes /\ rate' \in [Quotes -> Rates]
      /\ balances' \in [Users -> [Currencies -> Int]] /\ wallets' \in [Users -> [Currencies -> Nat]]
      /\ keyWallet' \subseteq HasKey /\ executed' \in [Quotes -> Nat]
      /\ quoteLock' \in [Quotes -> Requests \cup {None}] /\ userLock' \in [Users -> Requests \cup {None}]
  BY <1>1 DEF ConversionTypeOK
<1> QED
  BY <1>2, ConversionTypeParts

LEMMA ConversionEndsType ==
  ASSUME ConversionTypeOK, NEW r \in Requests, EndExecution(r), UNCHANGED <<database, aged, rate, locks>>
  PROVE  ConversionTypeOK'
  BY ConversionEndType, ConversionCallsType

LEMMA CheckRateType ==
  ASSUME ConversionTypeOK, NEW r \in Requests, CheckRate(r) PROVE ConversionTypeOK'
<1>1. \E s \in {"select", "quote"} : conversionPc' = [conversionPc EXCEPT ![r] = s]
  BY DEF CheckRate
<1>2. conversionPc' \in [Requests -> {"idle", "rate", "select", "update", "quote", "user", "commit"}]
  BY <1>1 DEF ConversionTypeOK
<1>3. UNCHANGED <<database, aged, rate, job, selected, read, locks>>
  BY DEF CheckRate
<1>4. /\ job' \in [Requests -> Quotes] /\ selected' \in [Requests -> QuoteRows]
      /\ read' \in [Requests -> [funds : [Currencies -> Int], missing : BOOLEAN]]
  BY <1>3 DEF ConversionTypeOK
<1> QED
  BY <1>2, <1>3, <1>4, ConversionCallsType

LEMMA SelectQuoteType ==
  ASSUME ConversionTypeOK, NEW r \in Requests, SelectQuote(r) PROVE ConversionTypeOK'
<1>1. selected' \in [Requests -> QuoteRows]
  BY DEF SelectQuote, ConversionTypeOK
<1>2. conversionPc' \in [Requests -> {"idle", "rate", "select", "update", "quote", "user", "commit"}]
  BY DEF SelectQuote, ConversionTypeOK
<1>3. UNCHANGED <<database, aged, rate, job, read, locks>>
  BY DEF SelectQuote
<1>4. /\ job' \in [Requests -> Quotes]
      /\ read' \in [Requests -> [funds : [Currencies -> Int], missing : BOOLEAN]]
  BY <1>3 DEF ConversionTypeOK
<1> QED
  BY <1>1, <1>2, <1>3, <1>4, ConversionCallsType

LEMMA ExecuteType ==
  ASSUME ConversionTypeOK, NEW r \in Requests, NEW u \in Users, NEW q \in Quotes, Execute(r, u, q)
  PROVE  ConversionTypeOK'
<1>0. UNCHANGED <<database, aged, rate, locks>>
  BY DEF Execute
<1>1. CASE ~(Owner[q] = u /\ Executable(quote[q]))
  <2>1. EndExecution(r)
    BY <1>1 DEF Execute
  <2> QED
    BY <1>0, <2>1, ConversionEndsType
<1>2. CASE Owner[q] = u /\ Executable(quote[q])
  <2>1. /\ conversionPc' = [conversionPc EXCEPT ![r] = IF q \in aged THEN "select" ELSE "rate"]
        /\ job' = [job EXCEPT ![r] = q]
        /\ UNCHANGED <<selected, read>>
    BY <1>2, ExecuteDoes
  <2>2. conversionPc' \in [Requests -> {"idle", "rate", "select", "update", "quote", "user", "commit"}]
    BY <2>1 DEF ConversionTypeOK
  <2>3. job' \in [Requests -> Quotes]
    BY <2>1 DEF ConversionTypeOK
  <2>4. /\ selected' \in [Requests -> QuoteRows]
        /\ read' \in [Requests -> [funds : [Currencies -> Int], missing : BOOLEAN]]
    BY <2>1 DEF ConversionTypeOK
  <2> QED
    BY <1>0, <2>2, <2>3, <2>4, ConversionCallsType
<1> QED
  BY <1>1, <1>2

LEMMA LockQuoteType ==
  ASSUME ConversionTypeOK, NEW r \in Requests, LockQuote(r) PROVE ConversionTypeOK'
<1>0. UNCHANGED <<database, aged, rate, userLock>>
  BY DEF LockQuote
<1>1. CASE ~Executable(quote[job[r]])
  <2>1. EndExecution(r) /\ UNCHANGED quoteLock
    BY <1>1 DEF LockQuote
  <2> QED
    BY <1>0, <2>1, ConversionEndsType DEF locks
<1>2. CASE Executable(quote[job[r]])
  <2>1. /\ quoteLock' = [quoteLock EXCEPT ![job[r]] = r]
        /\ conversionPc' = [conversionPc EXCEPT ![r] = "user"]
        /\ UNCHANGED <<job, selected, read>>
    BY <1>2, LockQuoteDoes
  <2>2. quoteLock' \in [Quotes -> Requests \cup {None}]
    BY <2>1 DEF ConversionTypeOK
  <2>3. conversionPc' \in [Requests -> {"idle", "rate", "select", "update", "quote", "user", "commit"}]
    BY <2>1 DEF ConversionTypeOK
  <2>4. UNCHANGED <<quote, balances, wallets, keyWallet, executed, aged, rate, job, selected, read, userLock>>
    BY <1>0, <2>1 DEF database
  <2>5. /\ quote' \in [Quotes -> QuoteRows] /\ aged' \subseteq Quotes /\ rate' \in [Quotes -> Rates]
        /\ balances' \in [Users -> [Currencies -> Int]] /\ wallets' \in [Users -> [Currencies -> Nat]]
        /\ keyWallet' \subseteq HasKey /\ executed' \in [Quotes -> Nat]
        /\ job' \in [Requests -> Quotes] /\ selected' \in [Requests -> QuoteRows]
        /\ read' \in [Requests -> [funds : [Currencies -> Int], missing : BOOLEAN]]
        /\ userLock' \in [Users -> Requests \cup {None}]
    BY <2>4 DEF ConversionTypeOK
  <2> QED
    BY <2>2, <2>3, <2>5, ConversionTypeParts
<1> QED
  BY <1>1, <1>2

LEMMA LockUserType ==
  ASSUME ConversionTypeOK, NEW r \in Requests, LockUser(r) PROVE ConversionTypeOK'
<1>0. Owner[job[r]] \in Users
  BY ConversionsAssumption DEF ConversionTypeOK
<1>1. userLock' \in [Users -> Requests \cup {None}]
  BY <1>0 DEF LockUser, ConversionTypeOK
<1>2. read' \in [Requests -> [funds : [Currencies -> Int], missing : BOOLEAN]]
  BY <1>0 DEF LockUser, ConversionTypeOK
<1>3. conversionPc' \in [Requests -> {"idle", "rate", "select", "update", "quote", "user", "commit"}]
  BY DEF LockUser, ConversionTypeOK
<1>4. UNCHANGED <<quote, balances, wallets, keyWallet, executed, aged, rate, job, selected, quoteLock>>
  BY DEF LockUser, database
<1>5. /\ quote' \in [Quotes -> QuoteRows] /\ aged' \subseteq Quotes /\ rate' \in [Quotes -> Rates]
      /\ balances' \in [Users -> [Currencies -> Int]] /\ wallets' \in [Users -> [Currencies -> Nat]]
      /\ keyWallet' \subseteq HasKey /\ executed' \in [Quotes -> Nat]
      /\ job' \in [Requests -> Quotes] /\ selected' \in [Requests -> QuoteRows]
      /\ quoteLock' \in [Quotes -> Requests \cup {None}]
  BY <1>4 DEF ConversionTypeOK
<1> QED
  BY <1>1, <1>2, <1>3, <1>5, ConversionTypeParts

LEMMA UpdateExpiredType ==
  ASSUME ConversionTypeOK, NEW r \in Requests, UpdateExpired(r) PROVE ConversionTypeOK'
<1>1. [status |-> IF selected[r].status # "EXPIRED" THEN "EXPIRED" ELSE quote[job[r]].status,
       used   |-> IF selected[r].used THEN FALSE ELSE quote[job[r]].used,
       rate   |-> quote[job[r]].rate] \in QuoteRows
  BY DEF QuoteRows, ConversionTypeOK
<1>2. quote' \in [Quotes -> QuoteRows]
  BY <1>1 DEF UpdateExpired, ConversionTypeOK
<1>3. EndExecution(r) /\ UNCHANGED <<aged, rate, balances, wallets, keyWallet, executed, quoteLock, userLock>>
  BY DEF UpdateExpired, locks
<1>4. /\ aged' \subseteq Quotes /\ rate' \in [Quotes -> Rates]
      /\ balances' \in [Users -> [Currencies -> Int]] /\ wallets' \in [Users -> [Currencies -> Nat]]
      /\ keyWallet' \subseteq HasKey /\ executed' \in [Quotes -> Nat]
      /\ quoteLock' \in [Quotes -> Requests \cup {None}] /\ userLock' \in [Users -> Requests \cup {None}]
  BY <1>3 DEF ConversionTypeOK
<1> QED
  BY <1>2, <1>3, <1>4, ConversionEndType, ConversionTypeParts

LEMMA RollbackType ==
  ASSUME ConversionTypeOK, NEW r \in Requests, Rollback(r) PROVE ConversionTypeOK'
<1>1. quoteLock' \in [Quotes -> Requests \cup {None}]
  BY DEF Rollback, ConversionTypeOK
<1>2. userLock' \in [Users -> Requests \cup {None}]
  BY DEF Rollback, ConversionTypeOK
<1>3. EndExecution(r) /\ UNCHANGED <<quote, balances, wallets, keyWallet, executed, aged, rate>>
  BY DEF Rollback, database
<1>4. /\ quote' \in [Quotes -> QuoteRows]
      /\ aged' \subseteq Quotes /\ rate' \in [Quotes -> Rates]
      /\ balances' \in [Users -> [Currencies -> Int]] /\ wallets' \in [Users -> [Currencies -> Nat]]
      /\ keyWallet' \subseteq HasKey /\ executed' \in [Quotes -> Nat]
  BY <1>3 DEF ConversionTypeOK
<1> QED
  BY <1>1, <1>2, <1>3, <1>4, ConversionEndType, ConversionTypeParts

LEMMA ConversionTypeStep == ConversionTypeOK /\ [ConversionNext]_conversionVars => ConversionTypeOK'
<1> SUFFICES ASSUME ConversionTypeOK, [ConversionNext]_conversionVars PROVE ConversionTypeOK'
  OBVIOUS
<1> USE ConversionsAssumption DEF ConversionTypeOK
<1>1. ASSUME NEW q \in Quotes, CreateQuote(q) PROVE ConversionTypeOK'
  BY <1>1 DEF CreateQuote, QuoteRows, locks
<1>2. ASSUME NEW q \in Quotes, AgeQuote(q) \/ Drift(q) PROVE ConversionTypeOK'
  <2>1. CASE AgeQuote(q)
    BY <2>1 DEF AgeQuote, database, locks
  <2>2. CASE Drift(q)
    BY <2>2 DEF Drift, database, locks
  <2> QED
    BY <1>2, <2>1, <2>2
<1>3. ASSUME NEW r \in Requests, NEW u \in Users, NEW q \in Quotes, Execute(r, u, q)
      PROVE  ConversionTypeOK'
  <2>1. ConversionTypeOK
    OBVIOUS
  <2> HIDE DEF ConversionTypeOK
  <2> QED
    BY <1>3, <2>1, ExecuteType
<1>4. ASSUME NEW r \in Requests, CheckRate(r) \/ SelectQuote(r) PROVE ConversionTypeOK'
  <2>1. ConversionTypeOK
    OBVIOUS
  <2> HIDE DEF ConversionTypeOK
  <2> QED
    BY <1>4, <2>1, CheckRateType, SelectQuoteType
<1>5. ASSUME NEW r \in Requests, UpdateExpired(r) PROVE ConversionTypeOK'
  <2>1. ConversionTypeOK
    OBVIOUS
  <2> HIDE DEF ConversionTypeOK
  <2> QED
    BY <1>5, <2>1, UpdateExpiredType
<1>6. ASSUME NEW r \in Requests, LockQuote(r) \/ LockUser(r) PROVE ConversionTypeOK'
  <2>1. ConversionTypeOK
    OBVIOUS
  <2> HIDE DEF ConversionTypeOK
  <2> QED
    BY <1>6, <2>1, LockQuoteType, LockUserType
<1>7. ASSUME NEW r \in Requests, Rollback(r) PROVE ConversionTypeOK'
  <2>1. ConversionTypeOK
    OBVIOUS
  <2> HIDE DEF ConversionTypeOK
  <2> QED
    BY <1>7, <2>1, RollbackType
<1>8. ASSUME NEW r \in Requests, RefuseUncovered(r) \/ RefuseWallet(r) PROVE ConversionTypeOK'
  BY <1>7, <1>8 DEF RefuseUncovered, RefuseWallet
<1>9. ASSUME NEW r \in Requests, CommitConversion(r) PROVE ConversionTypeOK'
  <2> DEFINE q == job[r]
             u == Owner[q]
             funds == [read[r].funds EXCEPT ![From[q]] = @ - FromAmount[q],
                                            ![To[q]] = @ + Proceeds(q, quote[q].rate)]
  <2>1. q \in Quotes /\ u \in Users
    OBVIOUS
  <2>2. quote[q].rate \in Rates \cup {0}
    BY <2>1 DEF QuoteRows
  <2>3. funds \in [Currencies -> Int]
    <3>1. Proceeds(q, quote[q].rate) \in Int
      BY <2>1, <2>2, ProceedsType
    <3>2. read[r].funds \in [Currencies -> Int] /\ FromAmount[q] \in Int
      BY <2>1
    <3>3. From[q] \in Currencies /\ To[q] \in Currencies /\ From[q] # To[q]
      BY <2>1
    <3> HIDE DEF q
    <3> QED
      BY <3>1, <3>2, <3>3
  <2>4. balances' \in [Users -> [Currencies -> Int]]
    BY <1>9, <2>1, <2>3 DEF CommitConversion, Bought
  <2>a. To[q] \in Currencies
    BY <2>1
  <2> HIDE DEF q, u, funds
  <2>b. q = job[r] /\ u = Owner[q]
    BY DEF q, u
  <2>c. /\ wallets' = [wallets EXCEPT ![u][To[q]] = IF read[r].missing THEN @ + 1 ELSE @]
        /\ keyWallet' \subseteq keyWallet \cup HasKey
        /\ executed' = [executed EXCEPT ![q] = @ + 1]
        /\ quote' = [quote EXCEPT ![q] = [status |-> "USED", used |-> TRUE, rate |-> quote[q].rate]]
        /\ quoteLock' = [quoteLock EXCEPT ![q] = None]
        /\ userLock' = [userLock EXCEPT ![u] = None]
        /\ EndExecution(r) /\ UNCHANGED <<aged, rate>>
    <3> HIDE DEF ConversionTypeOK
    <3> QED
      BY <1>9, <2>b DEF CommitConversion
  <2>5. wallets' \in [Users -> [Currencies -> Nat]]
    <3>1. wallets \in [Users -> [Currencies -> Nat]] /\ wallets[u][To[q]] \in Nat
      BY <2>1, <2>a
    <3> HIDE DEF ConversionTypeOK
    <3> QED
      BY <2>1, <2>a, <2>c, <3>1
  <2>6. quote' \in [Quotes -> QuoteRows]
    BY <2>1, <2>2, <2>c DEF QuoteRows
  <2>7. executed' \in [Quotes -> Nat]
    <3>1. executed \in [Quotes -> Nat]
      OBVIOUS
    <3> HIDE DEF ConversionTypeOK
    <3> QED
      BY <2>1, <2>c, <3>1
  <2>8. keyWallet' \subseteq HasKey
    BY <2>c
  <2>9. quoteLock' \in [Quotes -> Requests \cup {None}] /\ userLock' \in [Users -> Requests \cup {None}]
    <3>1. /\ quoteLock \in [Quotes -> Requests \cup {None}]
          /\ userLock \in [Users -> Requests \cup {None}]
      OBVIOUS
    <3> HIDE DEF ConversionTypeOK
    <3>2. quoteLock' \in [Quotes -> Requests \cup {None}]
      BY <2>c, <3>1
    <3>3. userLock' \in [Users -> Requests \cup {None}]
      BY <2>c, <3>1
    <3> QED
      BY <3>2, <3>3
  <2>10. /\ conversionPc' \in [Requests -> {"idle", "rate", "select", "update", "quote", "user", "commit"}]
         /\ job' \in [Requests -> Quotes]
         /\ selected' \in [Requests -> QuoteRows]
         /\ read' \in [Requests -> [funds : [Currencies -> Int], missing : BOOLEAN]]
    <3>1. EndExecution(r)
      BY <2>c
    <3>2. ConversionTypeOK
      OBVIOUS
    <3> HIDE DEF ConversionTypeOK
    <3> QED
      BY <3>1, <3>2, ConversionEndType
  <2>11. aged' \subseteq Quotes /\ rate' \in [Quotes -> Rates]
    BY <2>c
  <2> HIDE DEF ConversionTypeOK
  <2> QED
    BY <2>4, <2>5, <2>6, <2>7, <2>8, <2>9, <2>10, <2>11, ConversionTypeParts
<1>10. ASSUME NEW r \in Requests, NoRate(r) \/ FailExecution(r) PROVE ConversionTypeOK'
  <2>1. Rollback(r) \/ (EndExecution(r) /\ UNCHANGED <<database, aged, rate, locks>>)
    BY <1>10 DEF NoRate, FailExecution
  <2>2. ConversionTypeOK
    OBVIOUS
  <2> HIDE DEF ConversionTypeOK
  <2> QED
    BY <1>7, <2>1, <2>2, ConversionEndsType
<1>11. CASE UNCHANGED conversionVars
  BY <1>11 DEF conversionVars
<1> HIDE DEF ConversionTypeOK
<1>12. ASSUME NEW r \in Requests, ExecutionStep(r) PROVE ConversionTypeOK'
  BY <1>4, <1>5, <1>6, <1>8, <1>9, <1>12 DEF ExecutionStep
<1> QED
  BY <1>1, <1>2, <1>3, <1>10, <1>11, <1>12 DEF ConversionNext


-----------------------------------------------------------------------------
(***************************************************************************)
(* The inductive invariant.  A request inside its transaction holds the    *)
(* locks of its rows and nobody else does (ConversionLockInv); hence what  *)
(* it has seen of them is still so when it commits (WorkInv).  A quote     *)
(* leaves PENDING for good (QuoteInv, SaveInv), so that an execution       *)
(* cannot be followed by another.                                          *)
(***************************************************************************)
ConversionLockInv ==
  /\ LocksAreHeldByTransactions
  /\ \A r \in Requests :
       /\ conversionPc[r] \in {"user", "commit"} => quoteLock[job[r]] = r
       /\ conversionPc[r] = "commit" => userLock[Owner[job[r]]] = r

QuoteInv ==
  /\ ExecutedIsSpent
  /\ ExecutedAtMostOnce
  /\ \A q \in Quotes :
       /\ quote[q].status = "NONE" <=> quote[q].rate = 0
       /\ quote[q].status = "NONE" => executed[q] = 0
       /\ quote[q].used => quote[q].status # "PENDING"

SaveInv ==
  \A r \in Requests :
    /\ conversionPc[r] # "idle" => quote[job[r]].status # "NONE"
    /\ conversionPc[r] = "update" =>
         /\ selected[r].status # "NONE"
         /\ selected[r].status # "PENDING" => quote[job[r]].status # "PENDING"
         /\ selected[r].used => selected[r].status # "PENDING"

WorkInv ==
  \A r \in Requests :
    /\ conversionPc[r] \in {"user", "commit"} => Executable(quote[job[r]])
    /\ conversionPc[r] = "commit" =>
         /\ read[r].funds = balances[Owner[job[r]]]
         /\ read[r].funds[From[job[r]]] >= FromAmount[job[r]]

ConversionInv == ConversionTypeOK /\ ConversionLockInv /\ QuoteInv /\ SaveInv /\ WorkInv


LEMMA ConversionInvInit == ConversionInit => ConversionInv
  BY ConversionTypeInit, ConversionsAssumption
  DEF ConversionInit, ConversionInv, ConversionLockInv, LocksAreHeldByTransactions, QuoteInv, ExecutedIsSpent,
      ExecutedAtMostOnce, Executable, SaveInv, WorkInv, NoQuote

LEMMA ConversionStep == ConversionInv /\ [ConversionNext]_conversionVars => ConversionInv'
<1> SUFFICES ASSUME ConversionInv, [ConversionNext]_conversionVars PROVE ConversionInv'
  OBVIOUS
<1>0. ConversionTypeOK /\ ConversionTypeOK' /\ ConversionLockInv /\ QuoteInv /\ SaveInv /\ WorkInv
  BY ConversionTypeStep DEF ConversionInv
<1>T. /\ \A r \in Requests : job[r] \in Quotes /\ Owner[job[r]] \in Users
      /\ \A q \in Quotes : quoteLock[q] \in Requests \cup {None} /\ Owner[q] \in Users
      /\ \A u \in Users : userLock[u] \in Requests \cup {None}
      /\ None \notin Requests
  BY <1>0, ConversionsAssumption DEF ConversionTypeOK
<1> USE <1>0, <1>T
<1> DEFINE Others(r) == \A s \in Requests : s # r =>
             /\ conversionPc'[s] = conversionPc[s] /\ job'[s] = job[s]
             /\ selected'[s] = selected[s] /\ read'[s] = read[s]
           OtherQuotes(q) == \A p \in Quotes : p # q => quote'[p] = quote[p]
<1>1. ASSUME UNCHANGED <<quote, balances, executed, conversionPc, job, selected, read, quoteLock, userLock>>
      PROVE  ConversionInv'
  BY <1>1 DEF ConversionInv, ConversionLockInv, LocksAreHeldByTransactions, QuoteInv, ExecutedIsSpent,
     ExecutedAtMostOnce, Executable, SaveInv, WorkInv
<1>2. ASSUME NEW q \in Quotes, CreateQuote(q) PROVE ConversionInv'
  <2>1. /\ quote[q].status = "NONE" /\ OtherQuotes(q)
        /\ quote'[q] = [status |-> "PENDING", used |-> FALSE, rate |-> rate[q]]
        /\ UNCHANGED <<balances, executed, conversionPc, job, selected, read, quoteLock, userLock>>
    BY <1>2 DEF CreateQuote, locks, ConversionTypeOK
  <2>2. ConversionLockInv'
    BY <2>1 DEF ConversionLockInv, LocksAreHeldByTransactions
  <2>3. QuoteInv'
    <3>1. rate[q] \in Rates /\ rate[q] # 0
      BY ConversionsAssumption DEF ConversionTypeOK
    <3>2. executed[q] = 0
      BY <2>1 DEF QuoteInv
    <3>3. quote'[q].status = "PENDING" /\ ~quote'[q].used /\ quote'[q].rate = rate[q]
      BY <2>1
    <3> QED
      BY <2>1, <3>1, <3>2, <3>3 DEF QuoteInv, ExecutedIsSpent, ExecutedAtMostOnce, Executable
  <2>4. \A r \in Requests : conversionPc[r] # "idle" => job[r] # q
    BY <2>1 DEF SaveInv
  <2>5. SaveInv'
    BY <2>1, <2>4 DEF SaveInv, ConversionTypeOK
  <2>6. WorkInv'
    BY <2>1, <2>4 DEF WorkInv, ConversionTypeOK
  <2> QED
    BY <2>2, <2>3, <2>5, <2>6 DEF ConversionInv
\* A step of a request outside of its transaction that writes nothing.
<1>3. ASSUME NEW r \in Requests, Others(r),
             conversionPc[r] \notin {"user", "commit"}, conversionPc'[r] \notin {"user", "commit"},
             conversionPc'[r] # "idle" => quote[job'[r]].status # "NONE",
             conversionPc'[r] = "update" => selected'[r] = quote[job'[r]],
             UNCHANGED <<quote, balances, executed, quoteLock, userLock>>
      PROVE  ConversionInv'
  <2>1. ConversionLockInv'
    BY <1>3 DEF ConversionLockInv, LocksAreHeldByTransactions
  <2>2. QuoteInv'
    BY <1>3 DEF QuoteInv, ExecutedIsSpent, ExecutedAtMostOnce
  <2>3. job'[r] \in Quotes
    BY DEF ConversionTypeOK
  <2>4. SaveInv'
    BY <1>3, <2>3 DEF SaveInv, QuoteInv
  <2>5. WorkInv'
    BY <1>3 DEF WorkInv
  <2> QED
    BY <2>1, <2>2, <2>4, <2>5 DEF ConversionInv
<1>4. ASSUME NEW r \in Requests, NEW u \in Users, NEW q \in Quotes, Execute(r, u, q)
      PROVE  ConversionInv'
  <2>1. CASE ~(Owner[q] = u /\ Executable(quote[q]))
    BY <1>3, <1>4, <2>1 DEF Execute, EndExecution, database, locks, ConversionTypeOK
  <2>2. CASE Owner[q] = u /\ Executable(quote[q])
    <3>1. /\ conversionPc' = [conversionPc EXCEPT ![r] = IF q \in aged THEN "select" ELSE "rate"]
          /\ job' = [job EXCEPT ![r] = q]
          /\ UNCHANGED <<selected, read>>
      BY <1>4, <2>2, ExecuteDoes
    <3>2. conversionPc[r] = "idle" /\ UNCHANGED <<database, locks>>
      BY <1>4 DEF Execute
    <3> QED
      BY <1>3, <2>2, <3>1, <3>2 DEF database, locks, ConversionTypeOK, Executable
  <2> QED
    BY <2>1, <2>2
<1>5. ASSUME NEW r \in Requests, CheckRate(r) \/ SelectQuote(r) \/ NoRate(r) PROVE ConversionInv'
  <2>1. CASE CheckRate(r)
    BY <1>3, <2>1 DEF CheckRate, database, locks, ConversionTypeOK, SaveInv
  <2>2. CASE SelectQuote(r)
    BY <1>3, <2>2 DEF SelectQuote, database, locks, ConversionTypeOK, SaveInv
  <2>3. CASE NoRate(r)
    BY <1>3, <2>3 DEF NoRate, EndExecution, database, locks, ConversionTypeOK
  <2> QED
    BY <1>5, <2>1, <2>2, <2>3
<1>6. ASSUME NEW r \in Requests, UpdateExpired(r) PROVE ConversionInv'
  <2> DEFINE q == job[r]
  <2>1. /\ conversionPc[r] = "update" /\ conversionPc'[r] = "idle" /\ Others(r) /\ OtherQuotes(q)
        /\ quoteLock[q] = None
        /\ UNCHANGED <<balances, executed, quoteLock, userLock>>
    BY <1>6 DEF UpdateExpired, EndExecution, locks, ConversionTypeOK
  <2>2. quote'[q] = [status |-> IF selected[r].status # "EXPIRED" THEN "EXPIRED" ELSE quote[q].status,
                     used   |-> IF selected[r].used THEN FALSE ELSE quote[q].used,
                     rate   |-> quote[q].rate]
    BY <1>6 DEF UpdateExpired, ConversionTypeOK
  <2>3. q \in Quotes
    BY DEF ConversionTypeOK
  <2>4. /\ quote'[q].status \notin {"NONE", "PENDING"} /\ quote[q].status # "NONE"
        /\ quote'[q].rate = quote[q].rate
        /\ quote'[q].status = "USED" => quote[q].status = "USED"
        /\ quote'[q].used => quote[q].used
    BY <2>1, <2>2, <2>3 DEF SaveInv, ConversionTypeOK
  <2>5. ConversionLockInv'
    BY <2>1 DEF ConversionLockInv, LocksAreHeldByTransactions
  <2>6. QuoteInv'
    BY <2>1, <2>3, <2>4 DEF QuoteInv, ExecutedIsSpent, ExecutedAtMostOnce, Executable
  <2>7. SaveInv'
    BY <2>1, <2>3, <2>4 DEF SaveInv
  <2>8. \A s \in Requests : conversionPc[s] \in {"user", "commit"} => job[s] # q
    BY <2>1 DEF ConversionLockInv
  <2>9. WorkInv'
    BY <2>1, <2>8 DEF WorkInv
  <2> QED
    BY <2>5, <2>6, <2>7, <2>9 DEF ConversionInv
<1>7. ASSUME NEW r \in Requests, LockQuote(r) PROVE ConversionInv'
  <2>1. CASE ~Executable(quote[job[r]])
    <3>1. EndExecution(r) /\ UNCHANGED quoteLock
      BY <1>7, <2>1, Zenon DEF LockQuote
    <3>2. conversionPc[r] = "quote" /\ UNCHANGED <<database, userLock>>
      BY <1>7 DEF LockQuote
    <3> QED
      BY <1>3, <3>1, <3>2 DEF EndExecution, database, ConversionTypeOK
  <2>2. CASE Executable(quote[job[r]])
    <3>1. /\ quoteLock' = [quoteLock EXCEPT ![job[r]] = r]
          /\ conversionPc' = [conversionPc EXCEPT ![r] = "user"]
          /\ UNCHANGED <<job, selected, read>>
      BY <1>7, <2>2, Zenon DEF LockQuote
    <3>2. /\ conversionPc[r] = "quote" /\ quoteLock[job[r]] = None
          /\ UNCHANGED <<quote, balances, executed, userLock>>
      BY <1>7 DEF LockQuote, database
    <3>3. ConversionLockInv'
      BY <3>1, <3>2 DEF ConversionLockInv, LocksAreHeldByTransactions, ConversionTypeOK
    <3>4. QuoteInv'
      BY <3>2 DEF QuoteInv, ExecutedIsSpent, ExecutedAtMostOnce
    <3>5. SaveInv'
      BY <3>1, <3>2 DEF SaveInv, ConversionTypeOK
    <3>6. WorkInv'
      BY <2>2, <3>1, <3>2 DEF WorkInv, ConversionTypeOK
    <3> QED
      BY <3>3, <3>4, <3>5, <3>6 DEF ConversionInv
  <2> QED
    BY <2>1, <2>2
<1>8. ASSUME NEW r \in Requests, LockUser(r) PROVE ConversionInv'
  <2>1. /\ conversionPc[r] = "user" /\ userLock[Owner[job[r]]] = None
        /\ balances[Owner[job[r]]][From[job[r]]] >= FromAmount[job[r]]
        /\ userLock' = [userLock EXCEPT ![Owner[job[r]]] = r]
        /\ conversionPc' = [conversionPc EXCEPT ![r] = "commit"]
        /\ read'[r].funds = balances[Owner[job[r]]]
        /\ \A s \in Requests : s # r => read'[s] = read[s]
        /\ UNCHANGED <<quote, balances, executed, job, selected, quoteLock>>
    BY <1>8 DEF LockUser, database, ConversionTypeOK
  <2>2. ConversionLockInv'
    BY <2>1 DEF ConversionLockInv, LocksAreHeldByTransactions, ConversionTypeOK
  <2>3. QuoteInv'
    BY <2>1 DEF QuoteInv, ExecutedIsSpent, ExecutedAtMostOnce
  <2>4. SaveInv'
    BY <2>1 DEF SaveInv, ConversionTypeOK
  <2>5. WorkInv'
    BY <2>1 DEF WorkInv, ConversionTypeOK
  <2> QED
    BY <2>2, <2>3, <2>4, <2>5 DEF ConversionInv
<1>9. ASSUME NEW r \in Requests, conversionPc[r] \in {"user", "commit"}, Rollback(r)
      PROVE  ConversionInv'
  <2>1. /\ conversionPc'[r] = "idle" /\ Others(r)
        /\ quoteLock' = [quoteLock EXCEPT ![job[r]] = None]
        /\ \A u \in Users : userLock'[u] = IF userLock[u] = r THEN None ELSE userLock[u]
        /\ UNCHANGED <<quote, balances, executed>>
    BY <1>9 DEF Rollback, EndExecution, database, ConversionTypeOK
  <2>2. quoteLock[job[r]] = r
    BY <1>9 DEF ConversionLockInv
  <2>3. ConversionLockInv'
    <3>1. /\ quoteLock'[job[r]] = None
          /\ \A q \in Quotes : q # job[r] => quoteLock'[q] = quoteLock[q]
      BY <2>1 DEF ConversionTypeOK
    <3>2. \A q \in Quotes : quoteLock'[q] # None => quoteLock'[q] = quoteLock[q] /\ quoteLock[q] # r
      BY <2>2, <3>1 DEF ConversionLockInv, LocksAreHeldByTransactions
    <3>3. \A u \in Users : userLock'[u] # None => userLock'[u] = userLock[u] /\ userLock[u] # r
      BY <2>1
    <3>4. \A s \in Requests : s # r /\ conversionPc[s] \in {"user", "commit"} => quoteLock'[job[s]] = s
      BY <2>2, <3>1 DEF ConversionLockInv
    <3>5. \A s \in Requests : s # r /\ conversionPc[s] = "commit" => userLock'[Owner[job[s]]] = s
      BY <2>1 DEF ConversionLockInv
    <3> QED
      BY <2>1, <3>2, <3>3, <3>4, <3>5 DEF ConversionLockInv, LocksAreHeldByTransactions
  <2>4. QuoteInv'
    BY <2>1 DEF QuoteInv, ExecutedIsSpent, ExecutedAtMostOnce
  <2>5. SaveInv'
    BY <2>1 DEF SaveInv, ConversionTypeOK
  <2>6. WorkInv'
    <3>1. ASSUME NEW s \in Requests, s # r
          PROVE  conversionPc'[s] = conversionPc[s] /\ job'[s] = job[s] /\ read'[s] = read[s]
      BY <2>1, <3>1
    <3>2. conversionPc'[r] \notin {"user", "commit"} /\ UNCHANGED <<quote, balances>>
      BY <2>1
    <3> QED
      BY <3>1, <3>2 DEF WorkInv
  <2> QED
    BY <2>3, <2>4, <2>5, <2>6 DEF ConversionInv
<1>10. ASSUME NEW r \in Requests, RefuseUncovered(r) \/ RefuseWallet(r) PROVE ConversionInv'
  BY <1>9, <1>10 DEF RefuseUncovered, RefuseWallet
<1>11. ASSUME NEW r \in Requests, FailExecution(r) PROVE ConversionInv'
  <2>1. CASE conversionPc[r] \in {"user", "commit"} /\ Rollback(r)
    BY <1>9, <2>1
  <2>2. CASE conversionPc[r] \in {"select", "update", "quote"}
    <3>1. EndExecution(r) /\ UNCHANGED <<database, locks>>
      BY <1>11, <2>2 DEF FailExecution
    <3>2. conversionPc'[r] = "idle" /\ Others(r)
      BY <3>1 DEF EndExecution, ConversionTypeOK
    <3>3. UNCHANGED <<quote, balances, executed, quoteLock, userLock>>
      BY <3>1 DEF database, locks
    <3> HIDE DEF Others
    <3> QED
      BY <1>3, <2>2, <3>2, <3>3
  <2> QED
    BY <1>11, <2>1, <2>2 DEF FailExecution
<1>12. ASSUME NEW r \in Requests, CommitConversion(r) PROVE ConversionInv'
  <2> DEFINE q == job[r]
             u == Owner[q]
  <2>1. /\ conversionPc[r] = "commit" /\ conversionPc'[r] = "idle" /\ Others(r) /\ OtherQuotes(q)
        /\ quote'[q] = [status |-> "USED", used |-> TRUE, rate |-> quote[q].rate]
        /\ executed' = [executed EXCEPT ![q] = @ + 1]
        /\ quoteLock' = [quoteLock EXCEPT ![q] = None]
        /\ userLock' = [userLock EXCEPT ![u] = None]
        /\ \A v \in Users : v # u => balances'[v] = balances[v]
    <3>1. q \in Quotes /\ q = job[r] /\ u = Owner[q]
      OBVIOUS
    <3> HIDE DEF q, u
    <3>2. /\ conversionPc[r] = "commit" /\ EndExecution(r)
          /\ \E funds : balances' = [balances EXCEPT ![u] = funds]
          /\ executed' = [executed EXCEPT ![q] = @ + 1]
          /\ quote' = [quote EXCEPT ![q] = [status |-> "USED", used |-> TRUE, rate |-> quote[q].rate]]
          /\ quoteLock' = [quoteLock EXCEPT ![q] = None]
          /\ userLock' = [userLock EXCEPT ![u] = None]
      BY <1>12, <3>1 DEF CommitConversion
    <3>3. conversionPc'[r] = "idle" /\ Others(r)
      BY <3>2 DEF EndExecution, ConversionTypeOK
    <3>4. OtherQuotes(q) /\ quote'[q] = [status |-> "USED", used |-> TRUE, rate |-> quote[q].rate]
      BY <3>1, <3>2 DEF ConversionTypeOK
    <3>5. \A v \in Users : v # u => balances'[v] = balances[v]
      BY <3>2 DEF ConversionTypeOK
    <3> HIDE DEF Others, OtherQuotes
    <3> QED
      BY <3>2, <3>3, <3>4, <3>5
  <2>2. q \in Quotes /\ u \in Users
    BY DEF ConversionTypeOK
  <2>3. /\ quoteLock[q] = r /\ userLock[u] = r
        /\ quote[q].status = "PENDING" /\ executed[q] = 0
    BY <2>1, <2>2 DEF ConversionLockInv, WorkInv, QuoteInv, ExecutedIsSpent, Executable, ConversionTypeOK
  <2>4. \A s \in Requests : s # r /\ conversionPc[s] \in {"user", "commit"} => job[s] # q
    BY <2>3 DEF ConversionLockInv
  <2>5. \A s \in Requests : s # r /\ conversionPc[s] = "commit" => Owner[job[s]] # u
    BY <2>3 DEF ConversionLockInv
  <2>6. ConversionLockInv'
    <3>1. /\ quoteLock'[q] = None /\ userLock'[u] = None
          /\ \A p \in Quotes : p # q => quoteLock'[p] = quoteLock[p]
          /\ \A v \in Users : v # u => userLock'[v] = userLock[v]
      BY <2>1, <2>2 DEF ConversionTypeOK
    <3>2. /\ \A p \in Quotes : p # q => quoteLock[p] # r
          /\ \A v \in Users : v # u => userLock[v] # r
      BY DEF ConversionLockInv, LocksAreHeldByTransactions
    <3> HIDE DEF q, u
    <3>3. \A s \in Requests : s # r /\ conversionPc[s] \in {"user", "commit"} => quoteLock'[job[s]] = s
      BY <2>4, <3>1 DEF ConversionLockInv
    <3>4. \A s \in Requests : s # r /\ conversionPc[s] = "commit" => userLock'[Owner[job[s]]] = s
      BY <2>5, <3>1 DEF ConversionLockInv
    <3> QED
      BY <2>1, <3>1, <3>2, <3>3, <3>4 DEF ConversionLockInv, LocksAreHeldByTransactions
  <2>7. QuoteInv'
    <3>1. executed'[q] = 1 /\ \A p \in Quotes : p # q => executed'[p] = executed[p]
      BY <2>1, <2>2, <2>3 DEF ConversionTypeOK
    <3>2. /\ quote'[q].status = "USED" /\ quote'[q].used /\ quote'[q].rate = quote[q].rate
          /\ quote[q].rate # 0
      BY <2>1, <2>2, <2>3 DEF QuoteInv
    <3> HIDE DEF q, u
    <3> QED
      BY <2>1, <2>2, <3>1, <3>2 DEF QuoteInv, ExecutedIsSpent, ExecutedAtMostOnce, Executable
  <2>8. SaveInv'
    <3>1. quote'[q].status = "USED"
      BY <2>1
    <3> HIDE DEF q, u
    <3> QED
      BY <2>1, <2>2, <3>1 DEF SaveInv
  <2>9. WorkInv'
    <3> HIDE DEF q, u
    <3> QED
      BY <2>1, <2>4, <2>5 DEF WorkInv
  <2> QED
    BY <2>6, <2>7, <2>8, <2>9 DEF ConversionInv
<1>13. ASSUME NEW q \in Quotes, AgeQuote(q) \/ Drift(q) PROVE ConversionInv'
  BY <1>1, <1>13 DEF AgeQuote, Drift, database, locks
<1>14. CASE UNCHANGED conversionVars
  BY <1>1, <1>14 DEF conversionVars
<1> QED
  BY <1>2, <1>4, <1>5, <1>6, <1>7, <1>8, <1>10, <1>11, <1>12, <1>13, <1>14 DEF ConversionNext, ExecutionStep

LEMMA ConversionInductive == ConversionSpec => []ConversionInv
  BY ConversionInvInit, ConversionStep, PTL DEF ConversionSpec

\* The variables of Conversions keep their types.
THEOREM ConversionTypeCorrect == ConversionSpec => []ConversionTypeOK
  BY ConversionInductive, PTL DEF ConversionInv

\* No race of executeConversion calls, with any saves of stale quotes between
\* them, executes a quote twice.
THEOREM QuotesExecuteOnce == ConversionSpec => []ExecutedAtMostOnce
<1>1. ConversionInv => ExecutedAtMostOnce
  BY DEF ConversionInv, QuoteInv
<1> QED
  BY <1>1, ConversionInductive, PTL

\* An executed quote is spent, whatever stale entity is saved over it.
THEOREM ExecutedQuotesAreSpent == ConversionSpec => []ExecutedIsSpent
<1>1. ConversionInv => ExecutedIsSpent
  BY DEF ConversionInv, QuoteInv
<1> QED
  BY <1>1, ConversionInductive, PTL

\* Every row lock belongs to a transaction that is under way on that row: no
\* path out of executeConversion leaves one behind.
THEOREM LocksAreReleased == ConversionSpec => []LocksAreHeldByTransactions
<1>1. ConversionInv => LocksAreHeldByTransactions
  BY DEF ConversionInv, ConversionLockInv
<1> QED
  BY <1>1, ConversionInductive, PTL

-----------------------------------------------------------------------------
(***************************************************************************)
(* Refinement.  createQuote is Promise!Lock, CommitConversion is           *)
(* Promise!Execute: it writes balances computed from what LockUser has     *)
(* read, which WorkInv shows are still the balances.  Every other step is  *)
(* a stutter.                                                              *)
(***************************************************************************)
LEMMA ConversionPromiseInit == ConversionInit => Promise!Init
  BY ConversionsAssumption DEF ConversionInit, Promise!Init, NoQuote

\* The rates and the executed quotes a step that keeps them leaves alone.
LEMMA PromiseStutter ==
  ASSUME \A q \in Quotes : quote'[q].rate = quote[q].rate,
         UNCHANGED <<balances, executed>>
  PROVE  UNCHANGED <<balances, [q \in Quotes |-> quote[q].rate], {q \in Quotes : executed[q] > 0}>>
  OBVIOUS

LEMMA PromiseCreate ==
  ASSUME ConversionInv, NEW q \in Quotes, CreateQuote(q)
  PROVE  Promise!Next
<1>1. /\ quote[q].rate = 0 /\ rate[q] \in Rates
      /\ quote'[q].rate = rate[q]
      /\ \A p \in Quotes : p # q => quote'[p].rate = quote[p].rate
      /\ UNCHANGED <<balances, executed>>
  BY DEF CreateQuote, ConversionInv, QuoteInv, ConversionTypeOK
<1>2. Promise!Lock(q)
  <2>1. [p \in Quotes |-> quote[p].rate]' = [[p \in Quotes |-> quote[p].rate] EXCEPT ![q] = rate[q]]
    BY <1>1
  <2> QED
    BY <1>1, <2>1 DEF Promise!Lock
<1> QED
  BY <1>2 DEF Promise!Next

LEMMA ConversionPromiseCommit ==
  ASSUME ConversionInv, NEW r \in Requests, NEW q \in Quotes, q = job[r], CommitConversion(r)
  PROVE  Promise!Next
<1> DEFINE u == Owner[q]
<1>1. /\ q \in Quotes /\ u \in Users /\ From[q] \in Currencies /\ To[q] \in Currencies
      /\ From[q] # To[q]
      /\ ConversionTypeOK /\ conversionPc[r] = "commit"
  <2>1. ConversionTypeOK /\ conversionPc[r] = "commit"
    BY DEF ConversionInv, CommitConversion
  <2>2. /\ Owner[q] \in Users /\ From[q] \in Currencies /\ To[q] \in Currencies
        /\ From[q] # To[q]
    BY ConversionsAssumption
  <2> QED
    BY <2>1, <2>2
<1>2. /\ quote[q].status = "PENDING" /\ quote[q].rate # 0 /\ executed[q] = 0
  BY <1>1 DEF ConversionInv, WorkInv, QuoteInv, ExecutedIsSpent, Executable, ConversionTypeOK
<1>3. read[r].funds = balances[u] /\ balances[u][From[q]] >= FromAmount[q]
  BY <1>1 DEF ConversionInv, WorkInv
<1>4. \A p \in Quotes : quote'[p].rate = quote[p].rate
  BY <1>1 DEF CommitConversion, ConversionTypeOK
<1>5. /\ executed'[q] = 1
      /\ \A p \in Quotes : p # q => executed'[p] = executed[p]
  BY <1>1, <1>2 DEF CommitConversion, ConversionTypeOK
<1>6. balances' = [balances EXCEPT ![u] =
        [balances[u] EXCEPT ![From[q]] = @ - FromAmount[q],
                           ![To[q]] = @ + Proceeds(q, quote[q].rate)]]
  BY <1>3 DEF CommitConversion, Bought
<1>7. balances' = [balances EXCEPT ![u][From[q]] = @ - FromAmount[q],
                                 ![u][To[q]] = @ + Proceeds(q, quote[q].rate)]
  <2>1. balances \in [Users -> [Currencies -> Int]]
    BY <1>1 DEF ConversionTypeOK
  <2> HIDE DEF u
  <2> QED
    BY <1>1, <1>6, <2>1
<1> HIDE DEF u
<1>8. Promise!Execute(q)
  <2>1. [p \in Quotes |-> quote[p].rate]' = [p \in Quotes |-> quote[p].rate]
    BY <1>4
  <2>2. {p \in Quotes : executed[p] > 0}' = {p \in Quotes : executed[p] > 0} \cup {q}
    BY <1>1, <1>5
  <2>3. q \notin {p \in Quotes : executed[p] > 0}
    BY <1>2
  <2> QED
    BY <1>1, <1>2, <1>3, <1>7, <2>1, <2>2, <2>3 DEF Promise!Execute, Promise!Moved, u
<1> QED
  BY <1>8 DEF Promise!Next

LEMMA ConversionPromiseStep ==
  ConversionInv /\ [ConversionNext]_conversionVars =>
    [Promise!Next]_<<balances, [q \in Quotes |-> quote[q].rate], {q \in Quotes : executed[q] > 0}>>
<1> SUFFICES ASSUME ConversionInv, [ConversionNext]_conversionVars
             PROVE  [Promise!Next]_<<balances, [q \in Quotes |-> quote[q].rate],
                                     {q \in Quotes : executed[q] > 0}>>
  OBVIOUS
<1>1. ASSUME NEW q \in Quotes, CreateQuote(q) PROVE Promise!Next
  BY <1>1, PromiseCreate
<1>2. ASSUME NEW r \in Requests, CommitConversion(r) PROVE Promise!Next
  <2>1. job[r] \in Quotes
    BY DEF ConversionInv, ConversionTypeOK
  <2> QED
    BY <1>2, <2>1, ConversionPromiseCommit
<1> DEFINE Kept == /\ \A q \in Quotes : quote'[q].rate = quote[q].rate
                   /\ UNCHANGED <<balances, executed>>
<1>3. ASSUME NEW r \in Requests, UpdateExpired(r) PROVE Kept
  <2>1. quote \in [Quotes -> QuoteRows] /\ job[r] \in Quotes
    BY DEF ConversionInv, ConversionTypeOK
  <2> QED
    BY <1>3, <2>1 DEF UpdateExpired
<1>4. ASSUME NEW q \in Quotes, AgeQuote(q) \/ Drift(q) PROVE Kept
  BY <1>4 DEF AgeQuote, Drift, database
<1>5. ASSUME NEW r \in Requests,
             \/ CheckRate(r) \/ SelectQuote(r) \/ LockQuote(r) \/ LockUser(r)
             \/ RefuseUncovered(r) \/ RefuseWallet(r) \/ NoRate(r) \/ FailExecution(r)
             \/ \E u \in Users, q \in Quotes : Execute(r, u, q)
      PROVE  Kept
  BY <1>5 DEF CheckRate, SelectQuote, LockQuote, LockUser, RefuseUncovered, RefuseWallet,
     NoRate, FailExecution, Execute, Rollback, database
<1>6. CASE UNCHANGED conversionVars
  BY <1>6 DEF conversionVars
<1> HIDE DEF Kept
<1>7. Promise!Next \/ Kept
  BY <1>1, <1>2, <1>3, <1>4, <1>5, <1>6 DEF ConversionNext, ExecutionStep, Kept, conversionVars
<1> QED
  BY <1>7, PromiseStutter DEF Kept

\* executeConversion with its locks, races, rollbacks and stale saves does no
\* more and no less to the balances than the promise of the API.
THEOREM ConversionsKeepTheirPromise == ConversionSpec => ImplementsPromise
<1>1. ConversionSpec => Promise!Init /\ [][Promise!Next]_<<balances, [q \in Quotes |-> quote[q].rate],
                                                          {q \in Quotes : executed[q] > 0}>>
  BY ConversionPromiseInit, ConversionPromiseStep, ConversionInductive, PTL DEF ConversionSpec
<1> QED
  BY <1>1, PTL DEF ImplementsPromise, Promise!Spec

-----------------------------------------------------------------------------
(***************************************************************************)
(* Escrow, for any number of escrows, users and requests and any number of *)
(* failures: what rows and balances say is covered by payments, an escrow  *)
(* pays out once but for failures and late disputes, and it lives as       *)
(* EscrowPromise has it.                                                   *)
(***************************************************************************)


LEMMA NoCallType == NoCall \in EscrowCalls
  BY EscrowAssumption DEF NoCall, EscrowCalls, Ops

LEMMA EscrowTypeInit == EscrowInit => EscrowTypeOK
  BY NoCallType, EscrowAssumption DEF EscrowInit, EscrowTypeOK, Statuses, Steps

LEMMA ChangeType ==
  ASSUME NEW c \in EscrowCalls
  PROVE  Party(c) \in Parties /\ Change(c) \in Int /\ c.escrow \in Escrows
  BY EscrowAssumption DEF EscrowCalls, Party, Change

\* What ending a call does to the variables it changes.
LEMMA EscrowEndType ==
  ASSUME EscrowTypeOK, NEW r \in Handlers, EndCall(r)
  PROVE  /\ escrowPc' \in [Handlers -> Steps]
         /\ call' \in [Handlers -> EscrowCalls]
         /\ knownBalance' \in [Handlers -> Int]
         /\ lock' \in [Escrows -> Handlers \cup {Unlocked}]
  BY NoCallType DEF EndCall, EscrowTypeOK, Steps

LEMMA BeginType ==
  ASSUME EscrowTypeOK, NEW r \in Handlers, NEW what \in Ops, NEW u \in Parties, NEW e \in Escrows,
         Begin(r, what, u, e), todo' \in [Handlers -> SUBSET Escrows]
  PROVE  EscrowTypeOK'
<1>1. [op |-> what, user |-> u, escrow |-> e] \in EscrowCalls
  BY DEF EscrowCalls
<1> QED
  BY <1>1 DEF Begin, EscrowTypeOK, Steps, escrowRows

LEMMA SubmittedType ==
  ASSUME EscrowTypeOK, NEW r \in Handlers, Submitted(call[r])
  PROVE  /\ funded' \in [Escrows -> Nat] /\ paid' \in [Escrows -> Nat]
         /\ UNCHANGED <<status, userBalance, debited, credited, reopened>>
<1>1. call[r].escrow \in Escrows
  BY ChangeType DEF EscrowTypeOK
<1> QED
  BY <1>1 DEF Submitted, EscrowTypeOK

LEMMA EscrowTypeStep == EscrowTypeOK /\ [EscrowNext]_escrowVars => EscrowTypeOK'
<1> SUFFICES ASSUME EscrowTypeOK, [EscrowNext]_escrowVars PROVE EscrowTypeOK'
  OBVIOUS
<1>1. ASSUME NEW e \in Escrows, Create(e) \/ FallDue(e) PROVE EscrowTypeOK'
  <2>1. CASE Create(e)
    BY <2>1 DEF Create, EscrowTypeOK, Statuses
  <2>2. CASE FallDue(e)
    BY <2>2 DEF FallDue, EscrowTypeOK, escrowRows
  <2> QED
    BY <1>1, <2>1, <2>2
<1>2. ASSUME NEW r \in Handlers, NEW u \in Parties, NEW e \in Escrows, CallEscrow(r, u, e) PROVE EscrowTypeOK'
  <2>1. PICK what \in Ops : Begin(r, what, u, e)
    BY <1>2 DEF CallEscrow, Ops
  <2>2. todo' = todo
    BY <1>2 DEF CallEscrow
  <2> QED
    BY <2>1, <2>2, BeginType DEF EscrowTypeOK
<1>3. ASSUME NEW r \in Handlers, Cron(r) PROVE EscrowTypeOK'
  <2>1. CASE AutoFind(r)
    BY <2>1 DEF AutoFind, EscrowTypeOK, escrowRows
  <2>2. ASSUME NEW e \in Escrows, AutoRelease(r, e) PROVE EscrowTypeOK'
    <3>1. Begin(r, "release", Sender[e], e) /\ todo' = [todo EXCEPT ![r] = @ \ {e}]
      BY <2>2 DEF AutoRelease
    <3>2. todo' \in [Handlers -> SUBSET Escrows]
      BY <3>1 DEF EscrowTypeOK
    <3>3. "release" \in Ops /\ Sender[e] \in Parties
      BY EscrowAssumption DEF Ops
    <3> QED
      BY <3>1, <3>2, <3>3, BeginType
  <2> QED
    BY <1>3, <2>1, <2>2 DEF Cron
<1>4. ASSUME NEW r \in Handlers, Lock(r) PROVE EscrowTypeOK'
  <2>1. CASE EndCall(r)
    BY <1>4, <2>1, EscrowEndType DEF Lock, EscrowTypeOK, escrowRows
  <2>2. CASE ~EndCall(r)
    <3>1. /\ lock' = [lock EXCEPT ![call[r].escrow] = r]
          /\ escrowPc' = [escrowPc EXCEPT ![r] = FirstStep(call[r].op)]
          /\ UNCHANGED <<call, knownBalance>>
      BY <1>4, <2>2, Zenon DEF Lock
    <3>2. UNCHANGED <<escrowRows, due, todo, failures>>
      BY <1>4 DEF Lock
    <3> QED
      BY <3>1, <3>2 DEF FirstStep, EscrowTypeOK, Steps, escrowRows
  <2> QED
    BY <2>1, <2>2
<1>5. ASSUME NEW r \in Handlers, ReadBalance(r) PROVE EscrowTypeOK'
  <2>1. CASE EndCall(r)
    BY <1>5, <2>1, EscrowEndType DEF ReadBalance, EscrowTypeOK, escrowRows
  <2>2. CASE ~EndCall(r)
    <3>1. /\ knownBalance' = [knownBalance EXCEPT ![r] = userBalance[Party(call[r])]]
          /\ escrowPc' = [escrowPc EXCEPT ![r] = "write"]
          /\ UNCHANGED <<lock, call>>
      BY <1>5, <2>2, Zenon DEF ReadBalance
    <3>2. UNCHANGED <<escrowRows, due, todo, failures>>
      BY <1>5 DEF ReadBalance
    <3>3. userBalance[Party(call[r])] \in Int
      BY ChangeType DEF EscrowTypeOK
    <3> QED
      BY <3>1, <3>2, <3>3 DEF EscrowTypeOK, Steps, escrowRows
  <2> QED
    BY <2>1, <2>2
<1>6. ASSUME NEW r \in Handlers, WriteBalance(r) PROVE EscrowTypeOK'
  <2>1. Party(call[r]) \in Parties /\ knownBalance[r] + Change(call[r]) \in Int /\ call[r].escrow \in Escrows
    BY ChangeType DEF EscrowTypeOK
  <2> QED
    BY <1>6, <2>1 DEF WriteBalance, EscrowTypeOK, Steps
<1>7. ASSUME NEW r \in Handlers, Pay(r) PROVE EscrowTypeOK'
  BY <1>7, SubmittedType DEF Pay, EscrowTypeOK, Steps
<1>8. ASSUME NEW r \in Handlers, CommitEscrow(r) PROVE EscrowTypeOK'
  BY <1>8, EscrowEndType DEF CommitEscrow, NewStatus, EscrowTypeOK, Statuses, EscrowCalls, Ops
<1>9. ASSUME NEW r \in Handlers, NEW u \in Parties, NEW e \in Escrows, Dispute(r, u, e)
      PROVE  EscrowTypeOK'
  <2>1. [op |-> "dispute", user |-> u, escrow |-> e] \in EscrowCalls
    BY DEF EscrowCalls, Ops
  <2> QED
    BY <1>9, <2>1 DEF Dispute, EscrowTypeOK, Steps, escrowRows
<1>10. ASSUME NEW r \in Handlers, SelectEscrow(r) PROVE EscrowTypeOK'
  <2>1. CASE EndCall(r)
    BY <1>10, <2>1, EscrowEndType DEF SelectEscrow, EscrowTypeOK, escrowRows
  <2>2. CASE ~EndCall(r)
    <3>1. escrowPc' = [escrowPc EXCEPT ![r] = "update"] /\ UNCHANGED <<lock, call, knownBalance>>
      BY <1>10, <2>2, Zenon DEF SelectEscrow
    <3>2. UNCHANGED <<escrowRows, due, todo, failures>>
      BY <1>10 DEF SelectEscrow
    <3> QED
      BY <3>1, <3>2 DEF EscrowTypeOK, Steps, escrowRows
  <2> QED
    BY <2>1, <2>2
<1>11. ASSUME NEW r \in Handlers, UpdateDisputed(r) PROVE EscrowTypeOK'
  <2>1. status' \in [Escrows -> Statuses] /\ reopened' \in [Escrows -> Nat]
    <3>1. /\ status \in [Escrows -> Statuses] /\ reopened \in [Escrows -> Nat]
          /\ call[r].escrow \in Escrows
      BY ChangeType DEF EscrowTypeOK
    <3>2. status' \in [Escrows -> Statuses]
      BY <1>11, <3>1 DEF UpdateDisputed, Statuses
    <3>3. reopened' \in [Escrows -> Nat]
      BY <1>11, <3>1 DEF UpdateDisputed
    <3> QED
      BY <3>2, <3>3
  <2> QED
    BY <1>11, <2>1, EscrowEndType DEF UpdateDisputed, EscrowTypeOK
<1>12. ASSUME NEW r \in Handlers, FailCall(r) PROVE EscrowTypeOK'
  <2>1. failures' \in 0 .. MaxFailures
    BY <1>12, EscrowAssumption DEF FailCall, EscrowTypeOK
  <2> QED
    BY <1>12, <2>1, EscrowEndType DEF FailCall, EscrowTypeOK, escrowRows
<1>13. ASSUME NEW r \in Handlers, FailAfterPayment(r) PROVE EscrowTypeOK'
  <2>1. failures' \in 0 .. MaxFailures
    BY <1>13, EscrowAssumption DEF FailAfterPayment, EscrowTypeOK
  <2> QED
    BY <1>13, <2>1, EscrowEndType, SubmittedType DEF FailAfterPayment, EscrowTypeOK
<1>14. CASE UNCHANGED escrowVars
  BY <1>14 DEF escrowVars, EscrowTypeOK
<1> QED
  BY <1>1, <1>2, <1>3, <1>4, <1>5, <1>6, <1>7, <1>8, <1>9, <1>10, <1>11, <1>12, <1>13, <1>14
  DEF EscrowNext, CallStep

\* The variables of Escrow keep their types.
THEOREM EscrowTypeCorrect == EscrowSpec => []EscrowTypeOK
  BY EscrowTypeInit, EscrowTypeStep, PTL DEF EscrowSpec

-----------------------------------------------------------------------------
(***************************************************************************)
(* What rows and balances say is covered by payments.  A request that is   *)
(* past the checks holds the row lock of its escrow, so that the status    *)
(* stays what the checks saw; and what it still has to do is accounted for *)
(* in advance: a debit that is not followed by its payment yet, a payment  *)
(* that is not followed by its credit yet.                                 *)
(***************************************************************************)
Working(r) == escrowPc[r] \in {"read", "write", "pay", "commit"}
Funding(r) == call[r].op = "fund"
Target(r) == call[r].escrow

EscrowLockInv ==
  \A r \in Handlers :
    /\ escrowPc[r] = "lock" => call[r].op # "dispute"
    /\ Working(r) => lock[Target(r)] = r
    /\ Working(r) /\ Funding(r) => status[Target(r)] = "PENDING"
    /\ Working(r) /\ ~Funding(r) => status[Target(r)] \in {"FUNDED", "DISPUTED"}
    /\ escrowPc[r] \in {"select", "update"} => status[Target(r)] \notin {"NONE", "PENDING"}

PayInv ==
  \A r \in Handlers :
    /\ escrowPc[r] = "commit" /\ Funding(r) => funded[Target(r)] > 0
    /\ escrowPc[r] \in {"read", "write", "commit"} /\ ~Funding(r) => paid[Target(r)] > 0
    /\ escrowPc[r] = "pay" /\ Funding(r) => funded[Target(r)] < debited[Target(r)]
    /\ escrowPc[r] \in {"read", "write"} /\ ~Funding(r) => credited[Target(r)] < paid[Target(r)]

EscrowInv == StatusIsPaidFor /\ BalancesFollowPayments /\ EscrowLockInv /\ PayInv

LEMMA InvInit == EscrowInit => EscrowInv
  BY DEF EscrowInit, EscrowInv, StatusIsPaidFor, Settled, BalancesFollowPayments, EscrowLockInv, PayInv, Working

\* What a step of one request leaves as it is.
Others(r) == \A s \in Handlers : s # r => escrowPc'[s] = escrowPc[s] /\ call'[s] = call[s]
LocksOfOthers(r) == \A e \in Escrows : lock[e] # Unlocked /\ lock[e] # r => lock'[e] = lock[e]

\* A step that changes neither rows nor payments nor balances.
LEMMA QuietStep ==
  ASSUME EscrowTypeOK, EscrowInv, NEW r \in Handlers, UNCHANGED escrowRows,
         Others(r), LocksOfOthers(r),
         \/ escrowPc'[r] = "idle"
         \/ escrowPc'[r] = "lock" /\ call'[r].op # "dispute"
         \/ /\ escrowPc'[r] \in {"select", "update"}
            /\ status[call'[r].escrow] \notin {"NONE", "PENDING"}
         \/ /\ call'[r] = call[r] /\ Working(r) /\ lock'[Target(r)] = r
            /\ escrowPc[r] = "read" /\ escrowPc'[r] = "write"
  PROVE  EscrowInv'
<1>1. StatusIsPaidFor' /\ BalancesFollowPayments'
  BY DEF EscrowInv, StatusIsPaidFor, BalancesFollowPayments, escrowRows
<1>2. \A s \in Handlers : s # r /\ Working(s) => lock'[Target(s)] = s
  BY NoCallType, EscrowAssumption DEF EscrowInv, EscrowLockInv, LocksOfOthers, EscrowTypeOK, EscrowCalls, Target
<1>3. EscrowLockInv'
  BY <1>2 DEF EscrowInv, EscrowLockInv, Others, escrowRows, Working, Funding, Target
<1>4. PayInv'
  BY DEF EscrowInv, PayInv, Others, escrowRows, Working, Funding, Target
<1> QED
  BY <1>1, <1>3, <1>4 DEF EscrowInv

LEMMA EndFrame ==
  ASSUME EscrowTypeOK, NEW r \in Handlers, EndCall(r)
  PROVE  Others(r) /\ LocksOfOthers(r) /\ escrowPc'[r] = "idle"
  BY DEF EndCall, Others, LocksOfOthers, EscrowTypeOK

LEMMA BeginStep ==
  ASSUME EscrowTypeOK, EscrowInv, NEW r \in Handlers, NEW what \in Ops \ {"dispute"},
         NEW u \in Parties, NEW e \in Escrows, Begin(r, what, u, e)
  PROVE  EscrowInv'
<1>1. /\ UNCHANGED escrowRows /\ Others(r) /\ LocksOfOthers(r)
      /\ escrowPc'[r] = "lock" /\ call'[r].op # "dispute"
  BY DEF Begin, Others, LocksOfOthers, EscrowTypeOK
<1> QED
  BY <1>1, QuietStep

\* A request that holds the row lock has the escrow to itself.
LEMMA Alone ==
  ASSUME EscrowTypeOK, EscrowInv, NEW r \in Handlers, lock[Target(r)] \in {r, Unlocked}
  PROVE  \A s \in Handlers : s # r /\ Working(s) => Target(s) # Target(r)
  BY EscrowAssumption DEF EscrowInv, EscrowLockInv

LEMMA TargetType == EscrowTypeOK => \A r \in Handlers : Target(r) \in Escrows
  BY DEF EscrowTypeOK, EscrowCalls, Target

LEMMA EscrowInvStep == EscrowTypeOK /\ EscrowInv /\ [EscrowNext]_escrowVars => EscrowInv'
<1> SUFFICES ASSUME EscrowTypeOK, EscrowInv, [EscrowNext]_escrowVars PROVE EscrowInv'
  OBVIOUS
<1>0. \A r \in Handlers : Target(r) \in Escrows
  BY TargetType
<1>1. ASSUME NEW e \in Escrows, Create(e) PROVE EscrowInv'
  <2>1. /\ status[e] = "NONE" /\ status'[e] = "PENDING"
        /\ \A f \in Escrows : f # e => status'[f] = status[f]
        /\ UNCHANGED <<debited, credited, funded, paid, lock, escrowPc, call>>
    BY <1>1 DEF Create, EscrowTypeOK
  <2>2. \A r \in Handlers : escrowPc[r] \in {"select", "update"} \/ Working(r) => Target(r) # e
    BY <2>1 DEF EscrowInv, EscrowLockInv
  <2>3. StatusIsPaidFor' /\ BalancesFollowPayments'
    BY <2>1 DEF EscrowInv, StatusIsPaidFor, Settled, BalancesFollowPayments
  <2>4. EscrowLockInv'
    BY <1>0, <2>1, <2>2 DEF EscrowInv, EscrowLockInv, Working, Funding, Target
  <2>5. PayInv'
    BY <2>1 DEF EscrowInv, PayInv, Funding, Target
  <2> QED
    BY <2>3, <2>4, <2>5 DEF EscrowInv
<1>2. ASSUME UNCHANGED <<escrowRows, lock, escrowPc, call>> PROVE EscrowInv'
  BY <1>2 DEF EscrowInv, StatusIsPaidFor, BalancesFollowPayments, EscrowLockInv, PayInv, escrowRows,
              Working, Funding, Target
<1>3. ASSUME NEW e \in Escrows, FallDue(e) PROVE EscrowInv'
  BY <1>2, <1>3 DEF FallDue
<1>4. ASSUME NEW r \in Handlers, NEW u \in Parties, NEW e \in Escrows, CallEscrow(r, u, e)
      PROVE  EscrowInv'
  <2>1. PICK what \in Ops \ {"dispute"} : Begin(r, what, u, e)
    BY <1>4 DEF CallEscrow, Ops
  <2> QED
    BY <2>1, BeginStep
<1>5. ASSUME NEW r \in Handlers, Cron(r) PROVE EscrowInv'
  <2>1. CASE AutoFind(r)
    BY <1>2, <2>1 DEF AutoFind
  <2>2. ASSUME NEW e \in Escrows, AutoRelease(r, e) PROVE EscrowInv'
    BY <2>2, BeginStep, EscrowAssumption DEF AutoRelease, Ops
  <2> QED
    BY <1>5, <2>1, <2>2 DEF Cron
<1>6. ASSUME NEW r \in Handlers, EndCall(r), UNCHANGED escrowRows PROVE EscrowInv'
  BY <1>6, EndFrame, QuietStep
<1>7. ASSUME NEW r \in Handlers, Lock(r) PROVE EscrowInv'
  <2>1. CASE EndCall(r)
    BY <1>6, <1>7, <2>1 DEF Lock
  <2>2. CASE ~EndCall(r)
    <3>1. /\ escrowPc[r] = "lock" /\ lock[Target(r)] = Unlocked
          /\ Permitted(call[r].op, call[r].user, Target(r))
          /\ lock' = [lock EXCEPT ![Target(r)] = r]
          /\ escrowPc' = [escrowPc EXCEPT ![r] = FirstStep(call[r].op)]
          /\ UNCHANGED <<call, escrowRows>>
      BY <1>7, <2>2, Zenon DEF Lock, Target
    <3>2. /\ lock'[Target(r)] = r /\ LocksOfOthers(r) /\ Others(r)
          /\ escrowPc'[r] = IF Funding(r) THEN "read" ELSE "pay"
      BY <1>0, <3>1 DEF LocksOfOthers, Others, FirstStep, Funding, EscrowTypeOK
    <3>3. /\ Funding(r) => status[Target(r)] = "PENDING"
          /\ ~Funding(r) => status[Target(r)] \in {"FUNDED", "DISPUTED"}
      <4>1. call[r].op \in {"fund", "release", "forcedRelease", "refund"}
        BY <3>1 DEF EscrowInv, EscrowLockInv, EscrowTypeOK, EscrowCalls, Ops
      <4> QED
        BY <3>1, <4>1 DEF Permitted, Funding
    <3>4. StatusIsPaidFor' /\ BalancesFollowPayments'
      BY <3>1 DEF EscrowInv, StatusIsPaidFor, BalancesFollowPayments, escrowRows
    <3>5. \A s \in Handlers : s # r /\ Working(s) => lock'[Target(s)] = s
      BY <1>0, <3>2, EscrowAssumption DEF EscrowInv, EscrowLockInv, LocksOfOthers
    <3>6. EscrowLockInv'
      BY <3>1, <3>2, <3>3, <3>5 DEF EscrowInv, EscrowLockInv, Others, escrowRows, Working, Funding, Target
    <3>7. PayInv'
      BY <3>1, <3>2 DEF EscrowInv, PayInv, Others, escrowRows, Funding, Target
    <3> QED
      BY <3>4, <3>6, <3>7 DEF EscrowInv
  <2> QED
    BY <2>1, <2>2
<1>8. ASSUME NEW r \in Handlers, ReadBalance(r) PROVE EscrowInv'
  <2>1. CASE EndCall(r)
    BY <1>6, <1>8, <2>1 DEF ReadBalance
  <2>2. CASE ~EndCall(r)
    <3>1. escrowPc[r] = "read" /\ escrowPc' = [escrowPc EXCEPT ![r] = "write"] /\ UNCHANGED <<lock, call, escrowRows>>
      BY <1>8, <2>2, Zenon DEF ReadBalance
    <3>2. Working(r) /\ lock[Target(r)] = r
      BY <3>1 DEF EscrowInv, EscrowLockInv, Working
    <3>3. Others(r) /\ LocksOfOthers(r) /\ escrowPc'[r] = "write" /\ call'[r] = call[r]
      BY <3>1 DEF Others, LocksOfOthers, EscrowTypeOK
    <3> QED
      BY <3>1, <3>2, <3>3, QuietStep
  <2> QED
    BY <2>1, <2>2
<1>9. ASSUME NEW r \in Handlers, WriteBalance(r) PROVE EscrowInv'
  <2>1. /\ escrowPc[r] = "write" /\ Others(r) /\ UNCHANGED <<status, funded, paid, lock, call>>
        /\ escrowPc'[r] = IF Funding(r) THEN "pay" ELSE "commit"
        /\ \A e \in Escrows : e # Target(r) => debited'[e] = debited[e] /\ credited'[e] = credited[e]
        /\ debited'[Target(r)] = IF Funding(r) THEN debited[Target(r)] + 1 ELSE debited[Target(r)]
        /\ credited'[Target(r)] = IF Funding(r) THEN credited[Target(r)] ELSE credited[Target(r)] + 1
    BY <1>0, <1>9 DEF WriteBalance, EscrowTypeOK, Others, Funding, Target
  <2>2. \A s \in Handlers : s # r /\ Working(s) => Target(s) # Target(r)
    BY <2>1, Alone DEF EscrowInv, EscrowLockInv, Working
  <2>3. StatusIsPaidFor'
    BY <2>1 DEF EscrowInv, StatusIsPaidFor
  <2>4. BalancesFollowPayments'
    <3>1. ~Funding(r) => credited[Target(r)] < paid[Target(r)]
      BY <2>1 DEF EscrowInv, PayInv
    <3> QED
      BY <1>0, <2>1, <3>1 DEF EscrowInv, BalancesFollowPayments, EscrowTypeOK
  <2>5. EscrowLockInv'
    BY <2>1 DEF EscrowInv, EscrowLockInv, Others, Working, Funding, Target
  <2>6. PayInv'
    <3>1. ASSUME NEW s \in Handlers, s # r
          PROVE  /\ escrowPc'[s] = "pay" /\ Funding(s)' => funded'[Target(s)'] < debited'[Target(s)']
                 /\ escrowPc'[s] \in {"read", "write"} /\ ~Funding(s)' => credited'[Target(s)'] < paid'[Target(s)']
      BY <1>0, <2>1, <2>2, <3>1 DEF EscrowInv, PayInv, Others, Working, Funding, Target
    <3>2. escrowPc'[r] = "pay" /\ Funding(r) => funded[Target(r)] < debited'[Target(r)]
      BY <1>0, <2>1 DEF EscrowInv, BalancesFollowPayments, EscrowTypeOK
    <3>3. ~Funding(r) => paid[Target(r)] > 0
      BY <2>1 DEF EscrowInv, PayInv
    <3> QED
      BY <2>1, <3>1, <3>2, <3>3 DEF EscrowInv, PayInv, Others, Funding, Target
  <2> QED
    BY <2>3, <2>4, <2>5, <2>6 DEF EscrowInv
<1>10. ASSUME NEW r \in Handlers, Submitted(call[r]) PROVE
         /\ UNCHANGED <<status, debited, credited>>
         /\ \A e \in Escrows : e # Target(r) => funded'[e] = funded[e] /\ paid'[e] = paid[e]
         /\ funded'[Target(r)] = IF Funding(r) THEN funded[Target(r)] + 1 ELSE funded[Target(r)]
         /\ paid'[Target(r)] = IF Funding(r) THEN paid[Target(r)] ELSE paid[Target(r)] + 1
  BY <1>0, <1>10 DEF Submitted, EscrowTypeOK, Funding, Target
<1>11. ASSUME NEW r \in Handlers, escrowPc[r] = "pay", Submitted(call[r]) PROVE
         /\ StatusIsPaidFor' /\ BalancesFollowPayments'
         /\ \A s \in Handlers : s # r /\ Working(s) => Target(s) # Target(r)
  <2>1. \A s \in Handlers : s # r /\ Working(s) => Target(s) # Target(r)
    BY <1>11, Alone DEF EscrowInv, EscrowLockInv, Working
  <2>2. StatusIsPaidFor'
    BY <1>0, <1>10, <1>11 DEF EscrowInv, StatusIsPaidFor, EscrowTypeOK
  <2>3. Funding(r) => funded[Target(r)] < debited[Target(r)]
    BY <1>11 DEF EscrowInv, PayInv
  <2>4. BalancesFollowPayments'
    BY <1>0, <1>10, <1>11, <2>3 DEF EscrowInv, BalancesFollowPayments, EscrowTypeOK
  <2> QED
    BY <2>1, <2>2, <2>4
<1>12. ASSUME NEW r \in Handlers, Pay(r) PROVE EscrowInv'
  <2>1. /\ escrowPc[r] = "pay" /\ Submitted(call[r]) /\ Others(r) /\ UNCHANGED <<lock, call>>
        /\ escrowPc'[r] = IF Funding(r) THEN "commit" ELSE "read"
    BY <1>12 DEF Pay, Others, Funding, EscrowTypeOK
  <2>2. EscrowLockInv'
    BY <1>10, <2>1 DEF EscrowInv, EscrowLockInv, Others, Working, Funding, Target
  <2>3. PayInv'
    <3>1. funded'[Target(r)] >= funded[Target(r)] /\ paid'[Target(r)] >= paid[Target(r)]
      BY <1>0, <1>10, <2>1 DEF EscrowTypeOK
    <3>2. /\ Funding(r) => funded'[Target(r)] > 0
          /\ ~Funding(r) => paid'[Target(r)] > 0 /\ credited[Target(r)] < paid'[Target(r)]
      BY <1>0, <1>10, <2>1 DEF EscrowInv, BalancesFollowPayments, EscrowTypeOK
    <3>3. ASSUME NEW s \in Handlers, s # r, Working(s)
          PROVE  funded'[Target(s)] = funded[Target(s)] /\ paid'[Target(s)] = paid[Target(s)]
      BY <1>0, <1>10, <1>11, <2>1, <3>3
    <3> QED
      BY <1>10, <2>1, <3>2, <3>3 DEF EscrowInv, PayInv, Others, Working, Funding, Target
  <2> QED
    BY <1>11, <2>1, <2>2, <2>3 DEF EscrowInv
<1>13. ASSUME NEW r \in Handlers, FailAfterPayment(r) PROVE EscrowInv'
  <2>1. /\ escrowPc[r] = "pay" /\ Submitted(call[r]) /\ Others(r) /\ LocksOfOthers(r) /\ escrowPc'[r] = "idle"
    BY <1>13, EndFrame DEF FailAfterPayment
  <2>2. \A s \in Handlers : s # r /\ Working(s) => lock'[Target(s)] = s
    BY <1>0, <2>1, EscrowAssumption DEF EscrowInv, EscrowLockInv, LocksOfOthers
  <2>3. EscrowLockInv'
    BY <1>10, <2>1, <2>2 DEF EscrowInv, EscrowLockInv, Others, Working, Funding, Target
  <2>4. PayInv'
    <3>1. ASSUME NEW s \in Handlers, s # r, Working(s)
          PROVE  funded'[Target(s)] = funded[Target(s)] /\ paid'[Target(s)] = paid[Target(s)]
      BY <1>0, <1>10, <1>11, <2>1, <3>1
    <3> QED
      BY <1>10, <2>1, <3>1 DEF EscrowInv, PayInv, Others, Working, Funding, Target
  <2> QED
    BY <1>11, <2>1, <2>3, <2>4 DEF EscrowInv
<1>14. ASSUME NEW r \in Handlers, CommitEscrow(r) PROVE EscrowInv'
  <2>1. /\ escrowPc[r] = "commit" /\ Others(r) /\ LocksOfOthers(r) /\ escrowPc'[r] = "idle"
        /\ UNCHANGED <<debited, credited, funded, paid>>
        /\ \A e \in Escrows : e # Target(r) => status'[e] = status[e]
        /\ status'[Target(r)] = NewStatus(call[r].op)
    BY <1>0, <1>14, EndFrame DEF CommitEscrow, Target, EscrowTypeOK
  <2>2. \A s \in Handlers : s # r /\ Working(s) => Target(s) # Target(r)
    BY <2>1, Alone DEF EscrowInv, EscrowLockInv, Working
  <2>3. /\ status'[Target(r)] \notin {"NONE", "PENDING"}
        /\ Funding(r) => status'[Target(r)] = "FUNDED"
    BY <2>1, Zenon DEF NewStatus, Funding
  <2>4. /\ Funding(r) => funded[Target(r)] > 0
        /\ ~Funding(r) => paid[Target(r)] > 0 /\ status[Target(r)] \in {"FUNDED", "DISPUTED"}
    BY <2>1 DEF EscrowInv, PayInv, EscrowLockInv, Working
  <2>5. StatusIsPaidFor'
    BY <1>0, <2>1, <2>3, <2>4 DEF EscrowInv, StatusIsPaidFor, Settled
  <2>6. BalancesFollowPayments'
    BY <2>1 DEF EscrowInv, BalancesFollowPayments
  <2>7. \A s \in Handlers : s # r /\ Working(s) => lock'[Target(s)] = s
    BY <1>0, <2>1, EscrowAssumption DEF EscrowInv, EscrowLockInv, LocksOfOthers
  <2>8. EscrowLockInv'
    BY <1>0, <2>1, <2>2, <2>3, <2>7 DEF EscrowInv, EscrowLockInv, Others, Working, Funding, Target
  <2>9. PayInv'
    BY <2>1 DEF EscrowInv, PayInv, Others, Funding, Target
  <2> QED
    BY <2>5, <2>6, <2>8, <2>9 DEF EscrowInv
<1>15. ASSUME NEW r \in Handlers, NEW u \in Parties, NEW e \in Escrows, Dispute(r, u, e)
       PROVE  EscrowInv'
  <2>1. /\ UNCHANGED escrowRows /\ Others(r) /\ LocksOfOthers(r) /\ escrowPc'[r] = "select"
        /\ status[call'[r].escrow] = "FUNDED"
    BY <1>15 DEF Dispute, Disputable, Others, LocksOfOthers, EscrowTypeOK
  <2> QED
    BY <2>1, QuietStep
<1>16. ASSUME NEW r \in Handlers, SelectEscrow(r) PROVE EscrowInv'
  <2>1. CASE EndCall(r)
    BY <1>6, <1>16, <2>1 DEF SelectEscrow
  <2>2. CASE ~EndCall(r)
    <3>1. escrowPc[r] = "select" /\ escrowPc' = [escrowPc EXCEPT ![r] = "update"] /\ UNCHANGED <<lock, call, escrowRows>>
      BY <1>16, <2>2, Zenon DEF SelectEscrow
    <3>2. /\ Others(r) /\ LocksOfOthers(r) /\ escrowPc'[r] = "update"
          /\ status[call'[r].escrow] \notin {"NONE", "PENDING"}
      BY <3>1 DEF Others, LocksOfOthers, EscrowTypeOK, EscrowInv, EscrowLockInv, Target
    <3> QED
      BY <3>1, <3>2, QuietStep
  <2> QED
    BY <2>1, <2>2
<1>17. ASSUME NEW r \in Handlers, UpdateDisputed(r) PROVE EscrowInv'
  <2>1. /\ escrowPc[r] = "update" /\ lock[Target(r)] = Unlocked
        /\ Others(r) /\ LocksOfOthers(r) /\ escrowPc'[r] = "idle"
        /\ UNCHANGED <<debited, credited, funded, paid>>
        /\ \A e \in Escrows : e # Target(r) => status'[e] = status[e]
        /\ status'[Target(r)] = "DISPUTED"
    BY <1>0, <1>17, EndFrame DEF UpdateDisputed, Target, EscrowTypeOK
  <2>2. \A s \in Handlers : s # r /\ Working(s) => Target(s) # Target(r)
    BY <2>1, Alone
  <2>3. StatusIsPaidFor'
    BY <1>0, <2>1 DEF EscrowInv, StatusIsPaidFor, Settled, EscrowLockInv
  <2>4. BalancesFollowPayments'
    BY <2>1 DEF EscrowInv, BalancesFollowPayments
  <2>5. \A s \in Handlers : s # r /\ Working(s) => lock'[Target(s)] = s
    BY <1>0, <2>1, EscrowAssumption DEF EscrowInv, EscrowLockInv, LocksOfOthers
  <2>6. EscrowLockInv'
    BY <1>0, <2>1, <2>2, <2>5 DEF EscrowInv, EscrowLockInv, Others, Working, Funding, Target
  <2>7. PayInv'
    BY <2>1 DEF EscrowInv, PayInv, Others, Funding, Target
  <2> QED
    BY <2>3, <2>4, <2>6, <2>7 DEF EscrowInv
<1>18. ASSUME NEW r \in Handlers, FailCall(r) PROVE EscrowInv'
  BY <1>6, <1>18 DEF FailCall
<1>19. CASE UNCHANGED escrowVars
  BY <1>2, <1>19 DEF escrowVars, escrowRows
<1> QED
  BY <1>1, <1>3, <1>4, <1>5, <1>7, <1>8, <1>9, <1>12, <1>13, <1>14, <1>15, <1>16, <1>17,
     <1>18, <1>19
  DEF EscrowNext, CallStep

LEMMA EscrowInvariant == EscrowSpec => [](EscrowTypeOK /\ EscrowInv)
  BY EscrowTypeInit, EscrowTypeStep, InvInit, EscrowInvStep, PTL DEF EscrowSpec

\* Rows never claim a payment that was not made, whatever fails or overlaps.
THEOREM StatusesArePaidFor == EscrowSpec => []StatusIsPaidFor
<1>1. EscrowInv => StatusIsPaidFor
  BY DEF EscrowInv
<1> QED
  BY <1>1, EscrowInvariant, PTL

\* Balances are credited after payments, and debited before them.
THEOREM BalancesAreCovered == EscrowSpec => []BalancesFollowPayments
<1>1. EscrowInv => BalancesFollowPayments
  BY DEF EscrowInv
<1> QED
  BY <1>1, EscrowInvariant, PTL

-----------------------------------------------------------------------------
(***************************************************************************)
(* An escrow pays out once, once more for every call that failed after its *)
(* payment, and once more for every dispute that reopened it.  The         *)
(* invariant says when the allowance is used up: once the escrow is        *)
(* settled, or a call on it has paid and is about to settle it.            *)
(***************************************************************************)
Paying(r) == escrowPc[r] \in {"read", "write", "commit"} /\ ~Funding(r)
InFlight(e) == \E r \in Handlers : Paying(r) /\ Target(r) = e

PaidInv ==
  \A e \in Escrows :
    /\ paid[e] <= 1 + failures + reopened[e]
    /\ status[e] \notin Settled /\ ~InFlight(e) => paid[e] <= failures + reopened[e]

LEMMA PaidInit == EscrowInit => PaidInv
  BY DEF EscrowInit, PaidInv

\* A step of r that pays nothing, and neither gives a payment up nor reopens
\* an escrow.
LEMMA PaidQuiet ==
  ASSUME EscrowTypeOK, PaidInv, NEW r \in Handlers, Others(r), UNCHANGED <<paid, failures, reopened>>,
         \A e \in Escrows : status'[e] \notin Settled => status[e] \notin Settled,
         Paying(r) => \/ Paying(r)' /\ Target(r)' = Target(r)
                      \/ status'[Target(r)] \in Settled
  PROVE  PaidInv'
<1> SUFFICES ASSUME NEW e \in Escrows
             PROVE  /\ paid[e] <= 1 + failures + reopened[e]
                    /\ status'[e] \notin Settled /\ ~InFlight(e)' => paid[e] <= failures + reopened[e]
  BY DEF PaidInv
<1>1. status'[e] \notin Settled /\ InFlight(e) => InFlight(e)'
  <2> SUFFICES ASSUME status'[e] \notin Settled, NEW s \in Handlers, Paying(s), Target(s) = e
               PROVE  InFlight(e)'
    BY DEF InFlight
  <2>1. Paying(s)' /\ Target(s)' = e
    BY DEF Others, Paying, Funding, Target
  <2> QED
    BY <2>1 DEF InFlight
<1> QED
  BY <1>1 DEF PaidInv

\* The end of a call that fails after its payment uses up the failure.
LEMMA PaidFail ==
  ASSUME EscrowTypeOK, PaidInv, UNCHANGED <<status, paid, reopened>>, failures' = failures + 1
  PROVE  PaidInv'
  BY DEF PaidInv, EscrowTypeOK

LEMMA PaidStep == EscrowTypeOK /\ EscrowInv /\ PaidInv /\ [EscrowNext]_escrowVars => PaidInv'
<1> SUFFICES ASSUME EscrowTypeOK, EscrowInv, PaidInv, [EscrowNext]_escrowVars PROVE PaidInv'
  OBVIOUS
<1>0. \A r \in Handlers : Target(r) \in Escrows
  BY TargetType
<1>1. ASSUME UNCHANGED <<paid, failures, reopened, escrowPc, call>>,
             \A e \in Escrows : status'[e] \notin Settled => status[e] \notin Settled
      PROVE  PaidInv'
  BY <1>1 DEF PaidInv, InFlight, Paying, Funding, Target
<1>2. ASSUME NEW e \in Escrows, Create(e) \/ FallDue(e) PROVE PaidInv'
  BY <1>1, <1>2 DEF Create, FallDue, escrowRows, EscrowTypeOK, Settled
<1>3. ASSUME NEW r \in Handlers, escrowPc[r] \in {"idle", "lock", "select", "update"}, Others(r),
             UNCHANGED <<paid, failures, reopened>>,
             \A e \in Escrows : status'[e] \notin Settled => status[e] \notin Settled
      PROVE  PaidInv'
  BY <1>3, PaidQuiet DEF Paying
<1>4. ASSUME NEW r \in Handlers, NEW what \in Ops, NEW u \in Parties, NEW e \in Escrows,
             Begin(r, what, u, e)
      PROVE  PaidInv'
  BY <1>3, <1>4 DEF Begin, Others, EscrowTypeOK, escrowRows
<1>5. ASSUME NEW r \in Handlers, NEW u \in Parties, NEW e \in Escrows,
             CallEscrow(r, u, e) \/ Dispute(r, u, e)
      PROVE  PaidInv'
  <2>1. CASE CallEscrow(r, u, e)
    BY <1>4, <2>1 DEF CallEscrow, Ops
  <2>2. CASE Dispute(r, u, e)
    BY <1>3, <2>2 DEF Dispute, Others, EscrowTypeOK, escrowRows
  <2> QED
    BY <1>5, <2>1, <2>2
<1>6. ASSUME NEW r \in Handlers, Cron(r) PROVE PaidInv'
  <2>1. CASE AutoFind(r)
    BY <1>1, <2>1 DEF AutoFind, escrowRows
  <2>2. ASSUME NEW e \in Escrows, AutoRelease(r, e) PROVE PaidInv'
    BY <1>4, <2>2, EscrowAssumption DEF AutoRelease, Ops
  <2> QED
    BY <1>6, <2>1, <2>2 DEF Cron
<1>7. ASSUME NEW r \in Handlers, Lock(r) PROVE PaidInv'
  <2>1. escrowPc[r] = "lock" /\ UNCHANGED <<status, paid, failures, reopened>>
    BY <1>7 DEF Lock, escrowRows
  <2>2. Others(r)
    <3>1. CASE EndCall(r)
      BY <3>1, EndFrame
    <3>2. CASE ~EndCall(r)
      <4>1. escrowPc' = [escrowPc EXCEPT ![r] = FirstStep(call[r].op)] /\ UNCHANGED call
        BY <1>7, <3>2, Zenon DEF Lock
      <4> QED
        BY <4>1 DEF Others, EscrowTypeOK
    <3> QED
      BY <3>1, <3>2
  <2> QED
    BY <1>3, <2>1, <2>2
<1>8. ASSUME NEW r \in Handlers, ReadBalance(r) PROVE PaidInv'
  <2>1. escrowPc[r] = "read" /\ UNCHANGED <<status, paid, failures, reopened>>
    BY <1>8 DEF ReadBalance, escrowRows
  <2>2. CASE Funding(r)
    <3>1. Others(r)
      <4>1. CASE EndCall(r)
        BY <4>1, EndFrame
      <4>2. CASE ~EndCall(r)
        <5>1. escrowPc' = [escrowPc EXCEPT ![r] = "write"] /\ UNCHANGED call
          BY <1>8, <4>2, Zenon DEF ReadBalance
        <5> QED
          BY <5>1 DEF Others, EscrowTypeOK
      <4> QED
        BY <4>1, <4>2
    <3> QED
      BY <2>1, <2>2, <3>1, PaidQuiet DEF Paying
  <2>3. CASE ~Funding(r)
    <3>1. escrowPc' = [escrowPc EXCEPT ![r] = "write"] /\ UNCHANGED call
      BY <1>8, <2>3 DEF ReadBalance, Funding
    <3>2. Others(r) /\ Paying(r)' /\ Target(r)' = Target(r)
      BY <2>3, <3>1 DEF Others, Paying, Funding, Target, EscrowTypeOK
    <3> QED
      BY <2>1, <3>2, PaidQuiet
  <2> QED
    BY <2>2, <2>3
<1>9. ASSUME NEW r \in Handlers, WriteBalance(r) PROVE PaidInv'
  <2>1. /\ escrowPc[r] = "write" /\ Others(r) /\ UNCHANGED <<status, paid, failures, reopened, call>>
        /\ escrowPc'[r] = IF Funding(r) THEN "pay" ELSE "commit"
    BY <1>9 DEF WriteBalance, Others, Funding, EscrowTypeOK
  <2>2. Paying(r) => Paying(r)' /\ Target(r)' = Target(r)
    BY <2>1 DEF Paying, Funding, Target
  <2> QED
    BY <2>1, <2>2, PaidQuiet
<1>10. ASSUME NEW r \in Handlers, escrowPc[r] = "pay", Submitted(call[r]), ~Funding(r)
       PROVE  /\ \A e \in Escrows : e # Target(r) => paid'[e] = paid[e]
              /\ paid'[Target(r)] = paid[Target(r)] + 1
              /\ paid[Target(r)] <= failures + reopened[Target(r)]
              /\ UNCHANGED <<status, reopened>>
  <2>1. Working(r) /\ lock[Target(r)] = r /\ status[Target(r)] \notin Settled
    BY <1>10 DEF EscrowInv, EscrowLockInv, Working, Settled
  <2>2. ~InFlight(Target(r))
    BY <1>10, <2>1, Alone DEF InFlight, Paying, Working
  <2>3. paid[Target(r)] <= failures + reopened[Target(r)]
    BY <1>0, <2>1, <2>2 DEF PaidInv
  <2> QED
    BY <1>0, <1>10, <2>3 DEF Submitted, Funding, Target, EscrowTypeOK
<1>11. ASSUME NEW r \in Handlers, Submitted(call[r]), Funding(r)
       PROVE  UNCHANGED <<status, paid, reopened>>
  BY <1>0, <1>11 DEF Submitted, Funding, Target, EscrowTypeOK
<1>12. ASSUME NEW r \in Handlers, Pay(r) PROVE PaidInv'
  <2>1. /\ escrowPc[r] = "pay" /\ Submitted(call[r]) /\ Others(r) /\ UNCHANGED <<failures, reopened, call>>
        /\ escrowPc'[r] = IF Funding(r) THEN "commit" ELSE "read"
    BY <1>12 DEF Pay, Submitted, Others, Funding, EscrowTypeOK
  <2>2. CASE Funding(r)
    BY <1>11, <2>1, <2>2, PaidQuiet DEF Paying
  <2>3. CASE ~Funding(r)
    <3>1. InFlight(Target(r))'
      BY <2>1, <2>3 DEF InFlight, Paying, Funding, Target
    <3>2. ASSUME NEW e \in Escrows, e # Target(r), InFlight(e) PROVE InFlight(e)'
      <4>1. PICK s \in Handlers : Paying(s) /\ Target(s) = e
        BY <3>2 DEF InFlight
      <4>2. s # r
        BY <3>2, <4>1
      <4> QED
        BY <2>1, <4>1, <4>2 DEF InFlight, Others, Paying, Funding, Target
    <3>3. paid'[Target(r)] <= 1 + failures + reopened[Target(r)]
      BY <1>0, <1>10, <2>1, <2>3 DEF EscrowTypeOK
    <3>4. ASSUME NEW e \in Escrows, e # Target(r)
          PROVE  /\ paid'[e] <= 1 + failures + reopened[e]
                 /\ status'[e] \notin Settled /\ ~InFlight(e)' => paid'[e] <= failures + reopened[e]
      BY <1>10, <2>1, <2>3, <3>2, <3>4 DEF PaidInv
    <3>5. Target(r)' = Target(r) /\ UNCHANGED <<failures, reopened>>
      BY <2>1 DEF Target
    <3> HIDE DEF InFlight
    <3> QED
      BY <3>1, <3>3, <3>4, <3>5 DEF PaidInv
  <2> QED
    BY <2>2, <2>3
<1>13. ASSUME NEW r \in Handlers, FailAfterPayment(r) PROVE PaidInv'
  <2>1. escrowPc[r] = "pay" /\ Submitted(call[r]) /\ failures' = failures + 1
    BY <1>13 DEF FailAfterPayment
  <2>2. CASE Funding(r)
    BY <1>11, <2>1, <2>2, PaidFail
  <2>3. CASE ~Funding(r)
    <3>1. \A e \in Escrows : paid'[e] <= failures' + reopened'[e]
      BY <1>0, <1>10, <2>1, <2>3 DEF PaidInv, EscrowTypeOK
    <3>2. failures' \in Int /\ \A e \in Escrows : paid'[e] \in Int /\ reopened'[e] \in Int
      BY <1>0, <1>10, <2>1, <2>3 DEF EscrowTypeOK
    <3> QED
      BY <3>1, <3>2 DEF PaidInv
  <2> QED
    BY <2>2, <2>3
<1>14. ASSUME NEW r \in Handlers, CommitEscrow(r) PROVE PaidInv'
  <2>1. /\ escrowPc[r] = "commit" /\ Others(r) /\ UNCHANGED <<paid, failures, reopened>>
        /\ \A e \in Escrows : e # Target(r) => status'[e] = status[e]
        /\ status'[Target(r)] = NewStatus(call[r].op)
    BY <1>0, <1>14, EndFrame DEF CommitEscrow, Target, EscrowTypeOK
  <2>2. Funding(r) => status[Target(r)] = "PENDING"
    BY <2>1 DEF EscrowInv, EscrowLockInv, Working
  <2>3. ~Funding(r) => status'[Target(r)] \in Settled
    BY <2>1, Zenon DEF NewStatus, Funding, Settled
  <2>4. \A e \in Escrows : status'[e] \notin Settled => status[e] \notin Settled
    BY <2>1, <2>2, <2>3 DEF Settled
  <2> QED
    BY <2>1, <2>3, <2>4, PaidQuiet DEF Paying
<1>15. ASSUME NEW r \in Handlers, SelectEscrow(r) PROVE PaidInv'
  <2>1. escrowPc[r] = "select" /\ UNCHANGED <<status, paid, failures, reopened>>
    BY <1>15 DEF SelectEscrow, escrowRows
  <2>2. Others(r)
    <3>1. CASE EndCall(r)
      BY <3>1, EndFrame
    <3>2. CASE ~EndCall(r)
      <4>1. escrowPc' = [escrowPc EXCEPT ![r] = "update"] /\ UNCHANGED call
        BY <1>15, <3>2, Zenon DEF SelectEscrow
      <4> QED
        BY <4>1 DEF Others, EscrowTypeOK
    <3> QED
      BY <3>1, <3>2
  <2> QED
    BY <1>3, <2>1, <2>2
<1>16. ASSUME NEW r \in Handlers, UpdateDisputed(r) PROVE PaidInv'
  <2>1. /\ escrowPc[r] = "update" /\ Others(r) /\ UNCHANGED <<paid, failures>>
        /\ \A e \in Escrows : e # Target(r) => status'[e] = status[e] /\ reopened'[e] = reopened[e]
        /\ reopened'[Target(r)] = IF status[Target(r)] \in Settled THEN reopened[Target(r)] + 1
                                                                  ELSE reopened[Target(r)]
    BY <1>0, <1>16, EndFrame DEF UpdateDisputed, Target, EscrowTypeOK
  <2>2. CASE status[Target(r)] \notin Settled
    <3>1. UNCHANGED reopened
      BY <1>16, <2>2 DEF UpdateDisputed, Target, EscrowTypeOK
    <3>2. \A e \in Escrows : status'[e] \notin Settled => status[e] \notin Settled
      BY <2>1, <2>2
    <3> QED
      BY <1>3, <2>1, <3>1, <3>2
  <2>3. CASE status[Target(r)] \in Settled
    <3>1. ASSUME NEW e \in Escrows, InFlight(e) PROVE InFlight(e)'
      <4>1. PICK s \in Handlers : Paying(s) /\ Target(s) = e
        BY <3>1 DEF InFlight
      <4>2. s # r
        BY <2>1, <4>1 DEF Paying
      <4> QED
        BY <2>1, <4>1, <4>2 DEF InFlight, Others, Paying, Funding, Target
    <3>2. paid[Target(r)] <= failures + reopened'[Target(r)]
      BY <1>0, <2>1, <2>3 DEF PaidInv, EscrowTypeOK
    <3>3. ASSUME NEW e \in Escrows
          PROVE  /\ paid[e] <= 1 + failures + reopened'[e]
                 /\ status'[e] \notin Settled /\ ~InFlight(e)' => paid[e] <= failures + reopened'[e]
      <4>1. CASE e = Target(r)
        BY <1>0, <2>1, <2>3, <3>2, <4>1 DEF EscrowTypeOK
      <4>2. CASE e # Target(r)
        BY <2>1, <3>1, <4>2 DEF PaidInv
      <4> QED
        BY <4>1, <4>2
    <3> HIDE DEF InFlight
    <3> QED
      BY <2>1, <3>3 DEF PaidInv
  <2> QED
    BY <2>2, <2>3
<1>17. ASSUME NEW r \in Handlers, FailCall(r) PROVE PaidInv'
  BY <1>17, PaidFail DEF FailCall, escrowRows
<1>18. CASE UNCHANGED escrowVars
  BY <1>1, <1>18 DEF escrowVars
<1> QED
  BY <1>2, <1>5, <1>6, <1>7, <1>8, <1>9, <1>12, <1>13, <1>14, <1>15, <1>16, <1>17, <1>18
  DEF EscrowNext, CallStep

\* An escrow pays out once, and once more for every call that failed.
THEOREM EscrowPaysOnce == EscrowSpec => []PaidOnceUnlessFailed
<1>1. EscrowTypeOK /\ EscrowInv /\ PaidInv /\ [EscrowNext]_escrowVars => PaidInv'
  BY PaidStep
<1>2. PaidInv => PaidOnceUnlessFailed
  BY DEF PaidInv, PaidOnceUnlessFailed
<1> QED
  BY <1>1, <1>2, PaidInit, EscrowInvariant, PTL DEF EscrowSpec

-----------------------------------------------------------------------------
(***************************************************************************)
(* Refinement.  A payment is Life!PayIn or Life!PayOut, whether the call   *)
(* goes on or fails after it; a commit is Life!Fund or Life!Settle; the    *)
(* other steps touch nothing the parties see.                              *)
(***************************************************************************)
PaidIn == {e \in Escrows : funded[e] > 0}
PaidOut == {e \in Escrows : paid[e] > 0}

LEMMA EscrowPromiseInit == EscrowInit => Life!Init
  BY DEF EscrowInit, Life!Init

LEMMA PromisePay ==
  ASSUME EscrowTypeOK, EscrowInv, NEW r \in Handlers, escrowPc[r] = "pay", Submitted(call[r])
  PROVE  Life!Next
<1>1. PICK t \in Escrows : t = Target(r)
  BY TargetType
<1>2. CASE Funding(r)
  <2>1. UNCHANGED <<status, paid>> /\ funded' = [funded EXCEPT ![t] = @ + 1]
    BY <1>1, <1>2 DEF Submitted, Funding, Target, EscrowTypeOK
  <2>2. status[t] = "PENDING"
    BY <1>1, <1>2 DEF EscrowInv, EscrowLockInv, Working
  <2>3. PaidIn' = PaidIn \cup {t} /\ PaidOut' = PaidOut
    BY <1>1, <2>1 DEF PaidIn, PaidOut, EscrowTypeOK
  <2>4. Life!PayIn(t)
    BY <2>1, <2>2, <2>3 DEF Life!PayIn, PaidIn, PaidOut
  <2> QED
    BY <1>1, <2>4 DEF Life!Next
<1>3. CASE ~Funding(r)
  <2>1. UNCHANGED <<status, funded>> /\ paid' = [paid EXCEPT ![t] = @ + 1]
    BY <1>1, <1>3 DEF Submitted, Funding, Target, EscrowTypeOK
  <2>2. status[t] \in {"FUNDED", "DISPUTED"}
    BY <1>1, <1>3 DEF EscrowInv, EscrowLockInv, Working
  <2>3. PaidOut' = PaidOut \cup {t} /\ PaidIn' = PaidIn
    BY <1>1, <2>1 DEF PaidIn, PaidOut, EscrowTypeOK
  <2>4. Life!PayOut(t)
    BY <2>1, <2>2, <2>3 DEF Life!PayOut, PaidIn, PaidOut
  <2> QED
    BY <1>1, <2>4 DEF Life!Next
<1> QED
  BY <1>2, <1>3

LEMMA EscrowPromiseCommit ==
  ASSUME EscrowTypeOK, EscrowInv, NEW r \in Handlers, CommitEscrow(r)
  PROVE  Life!Next
<1> DEFINE t == Target(r)
<1>1. /\ t \in Escrows /\ escrowPc[r] = "commit" /\ UNCHANGED <<funded, paid>>
      /\ status' = [status EXCEPT ![t] = NewStatus(call[r].op)]
  BY TargetType DEF CommitEscrow, Target
<1>2. UNCHANGED <<PaidIn, PaidOut>>
  BY <1>1 DEF PaidIn, PaidOut
<1>3. CASE Funding(r)
  <2>1. NewStatus(call[r].op) = "FUNDED"
    BY <1>3, Zenon DEF NewStatus, Funding
  <2>2. status[t] = "PENDING" /\ t \in PaidIn
    BY <1>1, <1>3 DEF EscrowInv, EscrowLockInv, PayInv, Working, PaidIn
  <2>3. Life!Fund(t)
    BY <1>1, <1>2, <2>1, <2>2 DEF Life!Fund, Life!Become, PaidIn, PaidOut
  <2> QED
    BY <1>1, <2>3 DEF Life!Next
<1>4. CASE ~Funding(r)
  <2>1. NewStatus(call[r].op) \in {"RELEASED", "REFUNDED"}
    BY <1>4, Zenon DEF NewStatus, Funding
  <2>2. status[t] \in {"FUNDED", "DISPUTED"} /\ t \in PaidOut
    BY <1>1, <1>4 DEF EscrowInv, EscrowLockInv, PayInv, Working, PaidOut
  <2>3. Life!Settle(t)
    BY <1>1, <1>2, <2>1, <2>2 DEF Life!Settle, Life!Become, PaidIn, PaidOut
  <2> QED
    BY <1>1, <2>3 DEF Life!Next
<1> QED
  BY <1>3, <1>4

LEMMA EscrowPromiseStep ==
  EscrowTypeOK /\ EscrowInv /\ [EscrowNext]_escrowVars
    => [Life!Next]_<<status, {e \in Escrows : funded[e] > 0}, {e \in Escrows : paid[e] > 0}>>
<1> DEFINE parties == <<status, {e \in Escrows : funded[e] > 0}, {e \in Escrows : paid[e] > 0}>>
<1> SUFFICES ASSUME EscrowTypeOK, EscrowInv, [EscrowNext]_escrowVars PROVE [Life!Next]_parties
  OBVIOUS
<1>1. ASSUME UNCHANGED <<status, funded, paid>> PROVE UNCHANGED parties
  BY <1>1
<1>2. ASSUME NEW e \in Escrows, Create(e) PROVE Life!Next
  <2>1. Life!Create(e)
    BY <1>2 DEF Create, Life!Create, Life!Become
  <2> QED
    BY <2>1 DEF Life!Next
<1>3. ASSUME NEW e \in Escrows, FallDue(e) PROVE UNCHANGED parties
  BY <1>1, <1>3 DEF FallDue, escrowRows
<1>4. ASSUME NEW r \in Handlers, NEW u \in Parties, NEW e \in Escrows,
             CallEscrow(r, u, e) \/ Dispute(r, u, e)
      PROVE  UNCHANGED parties
  BY <1>1, <1>4 DEF CallEscrow, Begin, Dispute, escrowRows
<1>5. ASSUME NEW r \in Handlers, Cron(r) PROVE UNCHANGED parties
  BY <1>1, <1>5 DEF Cron, AutoFind, AutoRelease, Begin, escrowRows
<1>6. ASSUME NEW r \in Handlers, Lock(r) \/ ReadBalance(r) \/ WriteBalance(r) \/ SelectEscrow(r)
      PROVE  UNCHANGED parties
  <2>1. UNCHANGED <<status, funded, paid>>
    BY <1>6, Zenon DEF Lock, ReadBalance, WriteBalance, SelectEscrow, escrowRows
  <2> QED
    BY <1>1, <2>1
<1>7. ASSUME NEW r \in Handlers, Pay(r) \/ FailAfterPayment(r) PROVE Life!Next
  BY <1>7, PromisePay DEF Pay, FailAfterPayment
<1>8. ASSUME NEW r \in Handlers, UpdateDisputed(r) PROVE Life!Next \/ UNCHANGED parties
  <2>1. /\ Target(r) \in Escrows /\ UNCHANGED <<funded, paid>>
        /\ status' = [status EXCEPT ![Target(r)] = "DISPUTED"]
    BY <1>8, TargetType DEF UpdateDisputed, Target
  <2>2. status[Target(r)] \in {"FUNDED", "DISPUTED", "RELEASED", "REFUNDED"}
    BY <1>8, <2>1 DEF UpdateDisputed, EscrowInv, EscrowLockInv, EscrowTypeOK, Statuses
  <2>3. CASE status[Target(r)] = "FUNDED"
    <3>1. Life!Dispute(Target(r))
      BY <2>1, <2>3 DEF Life!Dispute, Life!Become
    <3> QED
      BY <2>1, <3>1 DEF Life!Next
  <2>4. CASE status[Target(r)] \in {"RELEASED", "REFUNDED"}
    <3>1. Life!Reopen(Target(r))
      BY <2>1, <2>4 DEF Life!Reopen, Life!Become
    <3> QED
      BY <2>1, <3>1 DEF Life!Next
  <2>5. CASE status[Target(r)] = "DISPUTED"
    BY <1>1, <2>1, <2>5 DEF EscrowTypeOK
  <2> QED
    BY <2>2, <2>3, <2>4, <2>5
<1>9. ASSUME NEW r \in Handlers, FailCall(r) PROVE UNCHANGED parties
  BY <1>1, <1>9 DEF FailCall, escrowRows
<1>10. CASE UNCHANGED escrowVars
  BY <1>1, <1>10 DEF escrowVars
<1> QED
  BY <1>2, <1>3, <1>4, <1>5, <1>6, <1>7, <1>8, <1>9, <1>10, EscrowPromiseCommit DEF EscrowNext, CallStep

\* The escrow service with its races, failures and late saves has the life that
\* EscrowPromise describes.
THEOREM EscrowKeepsPromise == EscrowSpec => ImplementsEscrowPromise
<1>1. EscrowTypeOK /\ EscrowInv /\ [EscrowNext]_escrowVars
        => [Life!Next]_<<status, {e \in Escrows : funded[e] > 0}, {e \in Escrows : paid[e] > 0}>>
  BY EscrowPromiseStep
<1> QED
  BY <1>1, EscrowPromiseInit, EscrowInvariant, PTL DEF EscrowSpec, ImplementsEscrowPromise, Life!Spec

==============================================================================

------------------------ MODULE ScheduledJobs_proofs ------------------------
(***************************************************************************)
(* Proofs about ScheduledJobs, for any number of rows, users, instances    *)
(* and runs.                                                               *)
(***************************************************************************)
EXTENDS ScheduledJobs, FiniteSetTheorems, TLAPS

LEMMA NoTxInTxs == NoTx \in Txs
  BY ConstantsAssumption DEF NoTx

LEMMA FreshType ==
  ASSUME NEW s \in Statuses, NEW h \in BOOLEAN
  PROVE  Fresh(s, h) \in Rows
  BY ConstantsAssumption DEF Rows, Fresh

LEMMA NoRowType == NoRow \in Rows
  BY FreshType DEF NoRow, Statuses

LEMMA ClaimedType ==
  ASSUME NEW x \in Rows, NEW i \in Instances \cup {None}
  PROVE  /\ Claimed(x, i) \in Rows
         /\ Claimed(x, i).status = x.status
         /\ Claimed(x, i).hash = x.hash
         /\ Claimed(x, i).lockedBy = i
         /\ Claimed(x, i).age = 0
<1>1. 0 \in 0 .. LOCK_EXPIRY + 1
  BY ConstantsAssumption
<1> QED
  BY <1>1 DEF Claimed, Rows

LEMMA SavedType ==
  ASSUME NEW x \in Rows, NEW s \in Statuses
  PROVE  /\ Saved(x, s) \in Rows
         /\ Saved(x, s).status = s
         /\ Saved(x, s).hash = x.hash
         /\ Saved(x, s).lockedBy = x.lockedBy
         /\ Saved(x, s).age = x.age
  BY DEF Rows, Saved

LEMMA OlderType ==
  ASSUME NEW x \in Rows
  PROVE  /\ Older(x) \in Rows
         /\ Older(x).status = x.status
         /\ Older(x).hash = x.hash
         /\ Older(x).lockedBy = x.lockedBy
<1>1. x.age \in 0 .. LOCK_EXPIRY + 1
  BY DEF Rows
<1>2. CASE Unlocked(x) \/ Expired(x)
  BY <1>2 DEF Older
<1>3. CASE ~(Unlocked(x) \/ Expired(x))
  <2>1. x.age + 1 \in 0 .. LOCK_EXPIRY + 1
    BY <1>1, <1>3, ConstantsAssumption DEF Expired
  <2>2. Older(x) = [status |-> x.status, hash |-> x.hash,
                    lockedBy |-> x.lockedBy, age |-> x.age + 1]
    BY <1>3 DEF Older, Rows
  <2> QED
    BY <2>1, <2>2 DEF Rows
<1> QED
  BY <1>2, <1>3

LEMMA TypeInit == Init => TypeOK
  BY NoTxInTxs, NoRowType, ConstantsAssumption
  DEF Init, TypeOK, ChainStates, Steps

\* The three saves of the API handlers are one action with different arguments.
LEMMA ApiSaves ==
  ASSUME NEW t \in Txs, ApiSaveHash(t) \/ ApiSaveFailed(t) \/ ApiCategorize(t)
  PROVE  \E s \in {"PENDING", "FAILED"}, h \in BOOLEAN, n \in {"saved", "done"} :
            api[t] # "none" /\ ApiSave(t, s, h, n)
<1>1. CASE ApiSaveHash(t)
  BY <1>1 DEF ApiSaveHash
<1>2. CASE ApiSaveFailed(t)
  BY <1>2 DEF ApiSaveFailed
<1>3. CASE ApiCategorize(t)
  <2>1. api[t] # "none"
    BY <1>3 DEF ApiCategorize
  <2> QED
    BY <1>3, <2>1 DEF ApiCategorize
<1> QED
  BY <1>1, <1>2, <1>3

LEMMA TypeStep == TypeOK /\ [Next]_vars => TypeOK'
<1> SUFFICES ASSUME TypeOK, [Next]_vars PROVE TypeOK'
  OBVIOUS
<1> USE NoTxInTxs, ConstantsAssumption DEF TypeOK
<1>1. ASSUME NEW t \in Txs, ApiCreate(t) PROVE TypeOK'
  BY <1>1, FreshType DEF ApiCreate, Statuses, runVars
<1>3. ASSUME NEW t \in Txs, ApiSaveHash(t) \/ ApiSaveFailed(t) \/ ApiCategorize(t) PROVE TypeOK'
  <2> PICK s \in {"PENDING", "FAILED"}, h \in BOOLEAN, n \in {"saved", "done"} : ApiSave(t, s, h, n)
    BY <1>3, ApiSaves
  <2> QED
    BY FreshType DEF ApiSave, Statuses, runVars
<1>4. ASSUME NEW t \in Txs, Settle(t) PROVE TypeOK'
  BY <1>4 DEF Settle, ChainStates, runVars
<1>5. ASSUME NEW r \in Runs, ClaimPending(r) PROVE TypeOK'
  BY <1>5, ClaimedType DEF ClaimPending, Steps
<1>6. ASSUME NEW r \in Runs, NEW batch \in SUBSET Txs, StartBatch(r, batch) PROVE TypeOK'
  BY <1>6, NoRowType DEF StartBatch, Steps
<1>7. ASSUME NEW r \in Runs, FindClaimed(r) PROVE TypeOK'
  BY <1>6, <1>7 DEF FindClaimed, ClaimedBy
<1>8. ASSUME NEW r \in Runs, FindFailed(r) PROVE TypeOK'
  BY <1>6, <1>8 DEF FindFailed
<1>9. ASSUME NEW r \in Runs, ReconcileNext(r) PROVE TypeOK'
  BY <1>9 DEF ReconcileNext, Steps
<1>10. ASSUME NEW r \in Runs, NEW t \in Txs, ClaimForRetry(r, t) \/ SkipUnclaimed(r, t)
       PROVE  TypeOK'
  <2>1. CASE ClaimForRetry(r, t)
    BY <2>1, ClaimedType DEF ClaimForRetry, Steps
  <2>2. CASE SkipUnclaimed(r, t)
    BY <2>2, NoRowType DEF SkipUnclaimed, AfterRow, Steps
  <2> QED
    BY <1>10, <2>1, <2>2
<1>11. ASSUME NEW r \in Runs, Verify(r) PROVE TypeOK'
  BY <1>11 DEF Verify, Answers, AfterAnswer, ChainStates, Steps
<1>12. ASSUME NEW r \in Runs, NEW s \in {"SUCCESS", "FAILED"},
              NEW next \in Steps, SaveEntity(r, s, next)
       PROVE  TypeOK'
  <2>1. Saved(copy[r][tx[r]], s) \in Rows
    BY SavedType DEF Statuses
  <2> QED
    BY <1>12, <2>1 DEF SaveEntity
<1>13. ASSUME NEW r \in Runs, Rescue(r) \/ SaveSuccess(r) \/ SaveFailed(r) PROVE TypeOK'
  BY <1>12, <1>13 DEF Rescue, SaveSuccess, SaveFailed, Steps
<1>14. ASSUME NEW r \in Runs, ReadBalance(r) PROVE TypeOK'
  BY <1>14 DEF ReadBalance, Steps
<1>15. ASSUME NEW r \in Runs, WriteBalance(r) PROVE TypeOK'
  BY <1>15 DEF WriteBalance, Increased, Steps
<1>16. ASSUME NEW r \in Runs, ClearLock(r) PROVE TypeOK'
  BY <1>16, ClaimedType, NoRowType DEF ClearLock, AfterRow, Steps
<1>17. ASSUME NEW r \in Runs, DbError(r) PROVE TypeOK'
  BY <1>17, NoRowType DEF DbError, AfterError, Steps
<1>18. ASSUME NEW i \in Instances, Crash(i) PROVE TypeOK'
  BY <1>18, NoRowType DEF Crash, Steps
<1>19. ASSUME Tick PROVE TypeOK'
  BY <1>19, OlderType DEF Tick
<1>20. CASE UNCHANGED vars
  BY <1>20 DEF vars
<1> QED
  BY <1>1, <1>3, <1>4, <1>5, <1>7, <1>8, <1>9, <1>10, <1>11, <1>13, <1>14,
     <1>15, <1>16, <1>17, <1>18, <1>19, <1>20 DEF Next, Api, Work

\* Every variable keeps its type, for all constants.
THEOREM TypeCorrect == Spec => []TypeOK
  BY TypeInit, TypeStep, PTL DEF Spec

-----------------------------------------------------------------------------
(***************************************************************************)
(* SuccessIsOnChain and CreditIsJustified, under no assumption about the   *)
(* instances, the API or the clock.  Neither is inductive: what keeps them *)
(* is what a run knows at each of its steps (WorkInv), and that only rows  *)
(* an API handler has created can be worked on (ApiInv).  The row keeps    *)
(* the outcome too if ApiWaits (CreditedRowsAreSettled, OutcomeIsFinal).   *)
(***************************************************************************)
Justified(t) ==
  \/ Type[t] = "DEPOSIT" /\ chain[t] = "SUCCESS"
  \/ Type[t] = "WITHDRAW" /\ chain[t] = "FAILED"

ApiInv ==
  \A t \in Txs :
    /\ row[t].hash => api[t] # "none"
    /\ row[t].status \in {"SUCCESS", "FAILED"} => api[t] # "none"

CopyInv ==
  \A r \in Runs, t \in Txs :
    /\ copy[r][t].hash => api[t] # "none"
    /\ Job[r] = "retry" /\ t \in todo[r] => copy[r][t].hash

WorkInv ==
  \A r \in Runs :
    /\ pc[r] = "find" => Job[r] = "reconcile"
    /\ pc[r] \in {"verify", "rescue", "success", "failed"} => copy[r][tx[r]].hash
    /\ pc[r] \in {"rescue", "success"} => chain[tx[r]] = "SUCCESS"
    /\ pc[r] = "failed" => chain[tx[r]] = "FAILED"
    /\ pc[r] \in {"read", "write"} =>
         (ApiWaits => row[tx[r]].status = chain[tx[r]]) /\ Justified(tx[r])

OutcomeInv ==
  /\ TypeOK
  /\ ApiInv
  /\ CopyInv
  /\ WorkInv
  /\ SuccessIsOnChain
  /\ CreditIsJustified
  /\ ApiWaits => CreditedRowsAreSettled

LEMMA OutcomeInit == Init => OutcomeInv
  BY TypeInit, NoTxInTxs, ConstantsAssumption
  DEF Init, OutcomeInv, ApiInv, CopyInv, WorkInv, SuccessIsOnChain, CreditIsJustified,
      CreditedRowsAreSettled, NoRow, Fresh

LEMMA OutcomeStep == OutcomeInv /\ [Next]_vars => OutcomeInv'
<1> SUFFICES ASSUME OutcomeInv, [Next]_vars PROVE OutcomeInv'
  OBVIOUS
<1>0. TypeOK /\ TypeOK'
  BY TypeStep DEF OutcomeInv
<1> USE ConstantsAssumption, <1>0
    DEF OutcomeInv, ApiInv, CopyInv, WorkInv, SuccessIsOnChain, CreditIsJustified,
        CreditedRowsAreSettled, Justified
<1>1. ASSUME NEW t \in Txs, ApiCreate(t) PROVE OutcomeInv'
  BY <1>1 DEF ApiCreate, Fresh, runVars, TypeOK
<1>3. ASSUME NEW t \in Txs, ApiSaveHash(t) \/ ApiSaveFailed(t) \/ ApiCategorize(t)
      PROVE  OutcomeInv'
  <2> PICK s \in {"PENDING", "FAILED"}, h \in BOOLEAN, n \in {"saved", "done"} :
             api[t] # "none" /\ ApiSave(t, s, h, n)
    BY <1>3, ApiSaves
  <2>1. /\ \A q \in Txs : q # t => row'[q] = row[q] /\ api'[q] = api[q]
        /\ row'[t] = Fresh(s, h) /\ api'[t] # "none"
        /\ ApiWaits => row[t].status = "PENDING"
        /\ UNCHANGED <<chain, credited, pc, todo, tx, copy>>
    BY DEF ApiSave, runVars, TypeOK
  <2>2. ApiInv'
    BY <2>1
  <2>3. CopyInv'
    BY <2>1
  <2>4. WorkInv'
    <3>1. \A r \in Runs : tx[r] \in Txs
      BY DEF TypeOK
    <3> QED
      BY <2>1, <3>1
  <2>5. SuccessIsOnChain'
    BY <2>1 DEF Fresh
  <2>6. CreditIsJustified' /\ (ApiWaits => CreditedRowsAreSettled')
    BY <2>1
  <2> QED
    BY <2>2, <2>3, <2>4, <2>5, <2>6
<1>4. ASSUME NEW t \in Txs, Settle(t) PROVE OutcomeInv'
  BY <1>4 DEF Settle, runVars, TypeOK, ChainStates
<1>5. ASSUME NEW r \in Runs, ClaimPending(r) PROVE OutcomeInv'
  <2>1. \A t \in Txs : row'[t].status = row[t].status /\ row'[t].hash = row[t].hash
    <3>1. row' = [t \in Txs |-> IF Claimable(row[t], "PENDING") THEN Claimed(row[t], Host[r]) ELSE row[t]]
      BY <1>5 DEF ClaimPending
    <3>2. \A t \in Txs : Claimed(row[t], Host[r]).status = row[t].status /\ Claimed(row[t], Host[r]).hash = row[t].hash
      BY ClaimedType DEF TypeOK
    <3> QED
      BY <3>1, <3>2
  <2>2. ApiInv'
    BY <1>5, <2>1 DEF ClaimPending, TypeOK
  <2>3. CopyInv'
    BY <1>5, <2>1 DEF ClaimPending, TypeOK
  <2>4. WorkInv'
    BY <1>5, <2>1 DEF ClaimPending, TypeOK
  <2>5. SuccessIsOnChain'
    BY <1>5, <2>1 DEF ClaimPending, TypeOK
  <2>6. CreditIsJustified' /\ (ApiWaits => CreditedRowsAreSettled')
    BY <1>5, <2>1 DEF ClaimPending, TypeOK
  <2> QED
    BY <2>2, <2>3, <2>4, <2>5, <2>6
<1>6. ASSUME NEW r \in Runs, NEW batch \in SUBSET Txs, StartBatch(r, batch),
             Job[r] = "retry" => \A t \in batch : row[t].hash
      PROVE  OutcomeInv'
  <2>1. ApiInv'
    BY <1>6 DEF StartBatch, NoRow, Fresh, TypeOK
  <2>2. CopyInv'
    BY <1>6 DEF StartBatch, NoRow, Fresh, TypeOK
  <2>3. WorkInv'
    BY <1>6 DEF StartBatch, NoRow, Fresh, TypeOK
  <2>4. SuccessIsOnChain'
    BY <1>6 DEF StartBatch, NoRow, Fresh, TypeOK
  <2>5. CreditIsJustified' /\ (ApiWaits => CreditedRowsAreSettled')
    BY <1>6 DEF StartBatch, NoRow, Fresh, TypeOK
  <2> QED
    BY <2>1, <2>2, <2>3, <2>4, <2>5
<1>7. ASSUME NEW r \in Runs, FindClaimed(r) PROVE OutcomeInv'
  BY <1>6, <1>7 DEF FindClaimed, ClaimedBy
<1>8. ASSUME NEW r \in Runs, FindFailed(r) PROVE OutcomeInv'
  BY <1>6, <1>8 DEF FindFailed
<1>9. ASSUME NEW r \in Runs, ReconcileNext(r) PROVE OutcomeInv'
  <2>1. UNCHANGED <<row, chain, api, credited, todo, copy>>
    BY <1>9 DEF ReconcileNext
  <2>2. pc'[r] = "clear" \/ (pc'[r] = "verify" /\ copy[r][tx'[r]].hash)
    BY <1>9 DEF ReconcileNext, TypeOK
  <2>3. \A s \in Runs : s # r => pc'[s] = pc[s] /\ tx'[s] = tx[s]
    BY <1>9 DEF ReconcileNext, TypeOK
  <2>4. ApiInv'
    BY <2>1
  <2>5. CopyInv'
    BY <2>1
  <2>6. WorkInv'
    BY <2>1, <2>2, <2>3
  <2>7. SuccessIsOnChain'
    BY <2>1
  <2>8. CreditIsJustified' /\ (ApiWaits => CreditedRowsAreSettled')
    BY <2>1
  <2> QED
    BY <2>4, <2>5, <2>6, <2>7, <2>8
<1>10. ASSUME NEW r \in Runs, NEW t \in Txs, ClaimForRetry(r, t) PROVE OutcomeInv'
  <2>1. \A q \in Txs : row'[q].status = row[q].status /\ row'[q].hash = row[q].hash
    <3>1. row' = [row EXCEPT ![t] = Claimed(row[t], Host[r])]
      BY <1>10 DEF ClaimForRetry
    <3>2. row \in [Txs -> Rows]
      BY DEF TypeOK
    <3>3. Claimed(row[t], Host[r]).status = row[t].status /\ Claimed(row[t], Host[r]).hash = row[t].hash
      BY <3>2, ClaimedType
    <3> QED
      BY <3>1, <3>2, <3>3
  <2>2. copy[r][t].hash
    BY <1>10 DEF ClaimForRetry
  <2>3. ApiInv'
    BY <1>10, <2>1, <2>2 DEF ClaimForRetry, TypeOK
  <2>4. CopyInv'
    BY <1>10, <2>1, <2>2 DEF ClaimForRetry, TypeOK
  <2>5. WorkInv'
    BY <1>10, <2>1, <2>2 DEF ClaimForRetry, TypeOK
  <2>6. SuccessIsOnChain'
    BY <1>10, <2>1, <2>2 DEF ClaimForRetry, TypeOK
  <2>7. CreditIsJustified' /\ (ApiWaits => CreditedRowsAreSettled')
    BY <1>10, <2>1, <2>2 DEF ClaimForRetry, TypeOK
  <2> QED
    BY <2>3, <2>4, <2>5, <2>6, <2>7
<1>11. ASSUME NEW r \in Runs, NEW t \in Txs, SkipUnclaimed(r, t) PROVE OutcomeInv'
  <2>1. UNCHANGED <<row, chain, api, credited, tx>>
    BY <1>11 DEF SkipUnclaimed
  <2>2. /\ \A s \in Runs, x \in Txs : copy'[s][x].hash => copy[s][x].hash
        /\ \A s \in Runs : \A x \in todo'[s] : x \in todo[s] /\ copy'[s][x] = copy[s][x]
    BY <1>11 DEF SkipUnclaimed, NoRow, Fresh, TypeOK
  <2>3. /\ pc'[r] \in {"idle", "next"}
        /\ \A s \in Runs : s # r => pc'[s] = pc[s] /\ copy'[s] = copy[s]
    BY <1>11 DEF SkipUnclaimed, AfterRow, TypeOK
  <2>4. ApiInv'
    BY <2>1
  <2>5. CopyInv'
    BY <2>1, <2>2 DEF TypeOK
  <2>6. WorkInv'
    BY <2>1, <2>3 DEF TypeOK
  <2>7. SuccessIsOnChain'
    BY <2>1
  <2>8. CreditIsJustified' /\ (ApiWaits => CreditedRowsAreSettled')
    BY <2>1
  <2> QED
    BY <2>4, <2>5, <2>6, <2>7, <2>8
<1>12. ASSUME NEW r \in Runs, Verify(r) PROVE OutcomeInv'
  <2>1. PICK answer \in Answers(tx[r]) : pc' = [pc EXCEPT ![r] = AfterAnswer(r, answer)]
    BY <1>12 DEF Verify
  <2>2. /\ AfterAnswer(r, answer) \in {"rescue", "success", "failed", "clear"}
        /\ AfterAnswer(r, answer) \in {"rescue", "success"} => chain[tx[r]] = "SUCCESS"
        /\ AfterAnswer(r, answer) = "failed" => chain[tx[r]] = "FAILED"
    BY <2>1 DEF Answers, AfterAnswer, TypeOK, ChainStates
  <2>3. pc[r] = "verify" /\ UNCHANGED <<row, chain, api, credited, todo, tx, copy>>
    BY <1>12 DEF Verify
  <2>4. ApiInv'
    BY <2>1, <2>2, <2>3 DEF TypeOK
  <2>5. CopyInv'
    BY <2>1, <2>2, <2>3 DEF TypeOK
  <2>6. WorkInv'
    BY <2>1, <2>2, <2>3 DEF TypeOK
  <2>7. SuccessIsOnChain'
    BY <2>1, <2>2, <2>3 DEF TypeOK
  <2>8. CreditIsJustified' /\ (ApiWaits => CreditedRowsAreSettled')
    BY <2>1, <2>2, <2>3 DEF TypeOK
  <2> QED
    BY <2>4, <2>5, <2>6, <2>7, <2>8
<1>21. ASSUME NEW r \in Runs, NEW s \in {"SUCCESS", "FAILED"}, NEW next \in Steps,
              SaveEntity(r, s, next), copy[r][tx[r]].hash, chain[tx[r]] = s,
              next = "success" => s = "SUCCESS",
              next \in {"read", "write"} => Justified(tx[r]),
              next \notin {"find", "verify", "rescue", "failed"}
       PROVE  OutcomeInv'
  <2> DEFINE saved == Saved(copy[r][tx[r]], s)
  <2>0. tx[r] \in Txs /\ row \in [Txs -> Rows] /\ copy \in [Runs -> [Txs -> Rows]] /\ copy[r][tx[r]] \in Rows
    BY DEF TypeOK
  <2>1. saved.status = s /\ saved.hash
    BY <1>21, <2>0, SavedType DEF Statuses
  <2>2. /\ row' = [row EXCEPT ![tx[r]] = saved] /\ copy' = [copy EXCEPT ![r][tx[r]] = saved]
        /\ pc' = [pc EXCEPT ![r] = next] /\ UNCHANGED <<chain, api, credited, todo, tx>>
    BY <1>21 DEF SaveEntity
  <2> HIDE DEF saved
  <2>3. row'[tx[r]] = saved /\ \A t \in Txs : t # tx[r] => row'[t] = row[t]
    BY <2>0, <2>2
  <2>4. /\ copy'[r][tx[r]] = saved
        /\ \A q \in Runs, t \in Txs : q # r \/ t # tx[r] => copy'[q][t] = copy[q][t]
    BY <2>0, <2>2
  <2>5. pc'[r] = next /\ \A q \in Runs : q # r => pc'[q] = pc[q]
    BY <2>2 DEF TypeOK
  <2>6. api[tx[r]] # "none"
    BY <1>21, <2>0
  <2>7. ApiInv'
    BY <2>1, <2>2, <2>3, <2>6
  <2>8. CopyInv'
    BY <2>1, <2>2, <2>4, <2>6
  <2>9. WorkInv'
    <3>1. \A q \in Runs : tx[q] \in Txs
      BY DEF TypeOK
    <3> QED
      BY <1>21, <2>1, <2>2, <2>3, <2>4, <2>5, <3>1
  <2>10. SuccessIsOnChain'
    BY <1>21, <2>1, <2>2, <2>3
  <2>11. CreditIsJustified' /\ (ApiWaits => CreditedRowsAreSettled')
    BY <1>21, <2>1, <2>2, <2>3
  <2> QED
    BY <2>7, <2>8, <2>9, <2>10, <2>11
<1>13. ASSUME NEW r \in Runs, Rescue(r) \/ SaveSuccess(r) \/ SaveFailed(r) PROVE OutcomeInv'
  <2>1. CASE Rescue(r)
    BY <1>21, <2>1 DEF Rescue, Steps
  <2>2. CASE SaveSuccess(r)
    BY <1>21, <2>2 DEF SaveSuccess, Steps
  <2>3. CASE SaveFailed(r)
    BY <1>21, <2>3 DEF SaveFailed, Steps
  <2> QED
    BY <1>13, <2>1, <2>2, <2>3
<1>14. ASSUME NEW r \in Runs, ReadBalance(r) PROVE OutcomeInv'
  BY <1>14 DEF ReadBalance, TypeOK
<1>15. ASSUME NEW r \in Runs, WriteBalance(r) PROVE OutcomeInv'
  BY <1>15 DEF WriteBalance, TypeOK
<1>16. ASSUME NEW r \in Runs, ClearLock(r) PROVE OutcomeInv'
  <2>1. \A t \in Txs : row'[t].status = row[t].status /\ row'[t].hash = row[t].hash
    <3>1. row' = [row EXCEPT ![tx[r]] = Claimed(row[tx[r]], None)]
      BY <1>16 DEF ClearLock
    <3>2. row \in [Txs -> Rows] /\ tx[r] \in Txs
      BY DEF TypeOK
    <3>3. /\ Claimed(row[tx[r]], None).status = row[tx[r]].status
          /\ Claimed(row[tx[r]], None).hash = row[tx[r]].hash
      BY <3>2, ClaimedType
    <3> QED
      BY <3>1, <3>2, <3>3
  <2>2. \A s \in Runs, t \in Txs : copy'[s][t] = copy[s][t] \/ ~copy'[s][t].hash
    BY <1>16 DEF ClearLock, NoRow, Fresh, TypeOK
  <2>3. \A s \in Runs : s # r => copy'[s] = copy[s] /\ tx'[s] = tx[s] /\ pc'[s] = pc[s] /\ todo'[s] = todo[s]
    BY <1>16 DEF ClearLock, TypeOK
  <2>4. pc'[r] \in {"idle", "next"}
    BY <1>16 DEF ClearLock, AfterRow, TypeOK
  <2>5. \A t \in todo'[r] : t \in todo[r] /\ copy'[r][t] = copy[r][t]
    BY <1>16 DEF ClearLock, TypeOK
  <2>6. UNCHANGED <<chain, api, credited>>
    BY <1>16 DEF ClearLock
  <2>7. ApiInv'
    BY <2>1, <2>2, <2>3, <2>4, <2>5, <2>6
  <2>8. CopyInv'
    BY <2>1, <2>2, <2>3, <2>4, <2>5, <2>6
  <2>9. WorkInv'
    <3>1. \A s \in Runs : tx[s] \in Txs
      BY DEF TypeOK
    <3> QED
      BY <2>1, <2>3, <2>4, <2>6, <3>1
  <2>10. SuccessIsOnChain'
    BY <2>1, <2>2, <2>3, <2>4, <2>5, <2>6
  <2>11. CreditIsJustified' /\ (ApiWaits => CreditedRowsAreSettled')
    BY <2>1, <2>2, <2>3, <2>4, <2>5, <2>6
  <2> QED
    BY <2>7, <2>8, <2>9, <2>10, <2>11
<1>17. ASSUME NEW r \in Runs, DbError(r) PROVE OutcomeInv'
  <2>1. ApiInv'
    BY <1>17 DEF DbError, AfterError, NoRow, Fresh, TypeOK
  <2>2. CopyInv'
    BY <1>17 DEF DbError, AfterError, NoRow, Fresh, TypeOK
  <2>3. WorkInv'
    <3>1. pc'[r] \in {"clear", "idle"} /\ UNCHANGED <<row, chain, api, credited>>
      BY <1>17 DEF DbError, AfterError, TypeOK
    <3>2. \A s \in Runs : s # r => pc'[s] = pc[s] /\ tx'[s] = tx[s] /\ copy'[s] = copy[s]
      BY <1>17 DEF DbError, TypeOK
    <3> QED
      BY <3>1, <3>2
  <2>4. SuccessIsOnChain'
    BY <1>17 DEF DbError, AfterError, NoRow, Fresh, TypeOK
  <2>5. CreditIsJustified' /\ (ApiWaits => CreditedRowsAreSettled')
    BY <1>17 DEF DbError, AfterError, NoRow, Fresh, TypeOK
  <2> QED
    BY <2>1, <2>2, <2>3, <2>4, <2>5
<1>18. ASSUME NEW i \in Instances, Crash(i) PROVE OutcomeInv'
  <2>1. UNCHANGED <<row, chain, api, credited>>
    BY <1>18 DEF Crash
  <2>2. ASSUME NEW r \in Runs, Host[r] = i
        PROVE  pc'[r] = "idle" /\ todo'[r] = {} /\ \A t \in Txs : ~copy'[r][t].hash
    BY <1>18, <2>2 DEF Crash, NoRow, Fresh
  <2>3. ASSUME NEW r \in Runs, Host[r] # i
        PROVE  pc'[r] = pc[r] /\ todo'[r] = todo[r] /\ tx'[r] = tx[r] /\ copy'[r] = copy[r]
    BY <1>18, <2>3 DEF Crash
  <2>4. CopyInv'
    BY <2>1, <2>2, <2>3
  <2>5. WorkInv'
    BY <2>1, <2>2, <2>3
  <2> QED
    BY <2>1, <2>4, <2>5
<1>19. ASSUME Tick PROVE OutcomeInv'
  <2>1. \A t \in Txs : row'[t].status = row[t].status /\ row'[t].hash = row[t].hash
    BY <1>19, OlderType DEF Tick, TypeOK
  <2>2. \A r \in Runs, t \in Txs : copy'[r][t].hash = copy[r][t].hash
    BY <1>19, OlderType DEF Tick, TypeOK
  <2>3. UNCHANGED <<chain, api, credited, pc, todo, tx>>
    BY <1>19 DEF Tick
  <2>4. ApiInv'
    BY <2>1, <2>2, <2>3
  <2>5. CopyInv'
    BY <2>1, <2>2, <2>3
  <2>6. WorkInv'
    <3>1. \A r \in Runs : tx[r] \in Txs
      BY DEF TypeOK
    <3> QED
      BY <2>1, <2>2, <2>3, <3>1
  <2>7. SuccessIsOnChain'
    BY <2>1, <2>2, <2>3
  <2>8. CreditIsJustified' /\ (ApiWaits => CreditedRowsAreSettled')
    BY <2>1, <2>2, <2>3
  <2> QED
    BY <2>4, <2>5, <2>6, <2>7, <2>8
<1>20. CASE UNCHANGED vars
  BY <1>20 DEF vars, TypeOK
<1> QED
  BY <1>1, <1>3, <1>4, <1>5, <1>7, <1>8, <1>9, <1>10, <1>11, <1>12, <1>13, <1>14,
     <1>15, <1>16, <1>17, <1>18, <1>19, <1>20 DEF Next, Api, Work

LEMMA OutcomeInductive == Spec => []OutcomeInv
  BY OutcomeInit, OutcomeStep, PTL DEF Spec

\* A row says SUCCESS only if the payment succeeded on chain.
THEOREM SuccessOnlyFromChain == Spec => []SuccessIsOnChain
  BY OutcomeInductive, PTL DEF OutcomeInv

\* A balance changes only for a deposit that succeeded on chain or a withdrawal
\* that failed there.
THEOREM CreditsAreJustified == Spec => []CreditIsJustified
  BY OutcomeInductive, PTL DEF OutcomeInv

\* If no API handler saves a row that is claimed or settled, the row keeps the
\* outcome the balance was changed for.
THEOREM CreditedRowsStaySettled ==
  ASSUME ApiWaits
  PROVE  Spec => []CreditedRowsAreSettled
<1>1. OutcomeInv => CreditedRowsAreSettled
  BY DEF OutcomeInv
<1> QED
  BY <1>1, OutcomeInductive, PTL

Final(t) ==
  /\ row[t].status = "SUCCESS" => row'[t].status = "SUCCESS"
  /\ row[t].status = "FAILED" =>
       \/ row'[t].status = "FAILED"
       \/ row'[t].status = "SUCCESS" /\ chain[t] = "SUCCESS"

LEMMA FinalStep ==
  ASSUME ApiWaits, OutcomeInv, [Next]_vars
  PROVE  \A t \in Txs : Final(t)
<1> SUFFICES ASSUME NEW q \in Txs PROVE Final(q)
  OBVIOUS
<1>0. CASE row'[q].status = row[q].status
  BY <1>0 DEF Final
<1>1. ASSUME NEW t \in Txs, ApiCreate(t) PROVE Final(q)
  BY <1>1 DEF ApiCreate, Final, OutcomeInv, ApiInv, TypeOK
<1>2. ASSUME NEW t \in Txs, ApiSaveHash(t) \/ ApiSaveFailed(t) \/ ApiCategorize(t)
      PROVE  Final(q)
  <2> PICK s \in {"PENDING", "FAILED"}, h \in BOOLEAN, n \in {"saved", "done"} : ApiSave(t, s, h, n)
    BY <1>2, ApiSaves
  <2> QED
    BY DEF ApiSave, Final, OutcomeInv, TypeOK
<1>3. ASSUME NEW r \in Runs, ClaimPending(r) PROVE Final(q)
  BY <1>0, <1>3, ClaimedType, ConstantsAssumption DEF ClaimPending, OutcomeInv, TypeOK
<1>4. ASSUME NEW r \in Runs, NEW t \in Txs, ClaimForRetry(r, t) PROVE Final(q)
  <2>1. Claimed(row[t], Host[r]).status = row[t].status
    BY ClaimedType, ConstantsAssumption DEF OutcomeInv, TypeOK
  <2>2. row'[q] = row[q] \/ (q = t /\ row'[q] = Claimed(row[t], Host[r]))
    BY <1>4 DEF ClaimForRetry, OutcomeInv, TypeOK
  <2> QED
    BY <1>0, <2>1, <2>2
<1>5. ASSUME NEW r \in Runs, NEW s \in {"SUCCESS", "FAILED"}, NEW next \in Steps,
             SaveEntity(r, s, next), chain[tx[r]] = s
      PROVE  Final(q)
  <2>1. \/ row'[q] = row[q]
        \/ q = tx[r] /\ row'[q] = Saved(copy[r][q], s)
    BY <1>5 DEF SaveEntity, OutcomeInv, TypeOK
  <2>2. Saved(copy[r][q], s).status = s
    BY SavedType DEF Statuses, OutcomeInv, TypeOK
  <2> QED
    BY <1>0, <1>5, <2>1, <2>2 DEF Final, OutcomeInv, SuccessIsOnChain
<1>6. ASSUME NEW r \in Runs, Rescue(r) \/ SaveSuccess(r) \/ SaveFailed(r) PROVE Final(q)
  BY <1>5, <1>6 DEF Rescue, SaveSuccess, SaveFailed, OutcomeInv, WorkInv, Steps
<1>7. ASSUME NEW r \in Runs, ClearLock(r) PROVE Final(q)
  BY <1>0, <1>7, ClaimedType DEF ClearLock, OutcomeInv, TypeOK
<1>8. CASE Tick
  BY <1>0, <1>8, OlderType DEF Tick, OutcomeInv, TypeOK
<1>9. CASE UNCHANGED row
  BY <1>0, <1>9
<1>10. ASSUME NEW r \in Runs, NEW t \in Txs,
              \/ FindClaimed(r) \/ FindFailed(r) \/ ReconcileNext(r) \/ Verify(r)
              \/ SkipUnclaimed(r, t) \/ ReadBalance(r) \/ WriteBalance(r) \/ DbError(r)
       PROVE  UNCHANGED row
  BY <1>10 DEF FindClaimed, FindFailed, StartBatch, ReconcileNext, Verify, SkipUnclaimed,
               ReadBalance, WriteBalance, DbError
<1>11. ASSUME NEW t \in Txs, Api(t) PROVE Final(q)
  BY <1>1, <1>2, <1>9, <1>11 DEF Api, Settle
<1>12. ASSUME NEW r \in Runs, Work(r) PROVE Final(q)
  BY <1>4, <1>6, <1>7, <1>9, <1>10, <1>12, NoTxInTxs DEF Work
<1> QED
  BY <1>3, <1>8, <1>9, <1>10, <1>11, <1>12, NoTxInTxs DEF Next, Crash, vars

\* The outcome of a row is final, apart from the rescue of a payment that
\* turns out to have succeeded.
THEOREM OutcomesAreFinal ==
  ASSUME ApiWaits
  PROVE  Spec => OutcomeIsFinal
<1>1. OutcomeInv /\ [Next]_vars => [\A t \in Txs : Final(t)]_vars
  BY FinalStep
<1> QED
  BY <1>1, OutcomeInductive, PTL DEF Spec, OutcomeIsFinal, Final

-----------------------------------------------------------------------------
(***************************************************************************)
(* ExclusiveProcessing and CreditedAtMostOnce, for instances that run each *)
(* job once at a time, finish with a row before its claim expires, and API *)
(* handlers that do not save a claimed or settled row.                     *)
(*                                                                         *)
(* The argument: a row somebody works on is locked in his name by a claim  *)
(* that has not expired (ClaimInv), or it says SUCCESS and nobody claims   *)
(* it; so no claim can take it away.  It stays so because what a           *)
(* reconciling run saves is an entity read after its claim (BatchInv), and *)
(* because a retrying run saves SUCCESS only (RetryInv).                   *)
(***************************************************************************)
ClaimInv ==
  \A r \in Runs : \A t \in Held(r) :
    /\ row[t].status # "NONE"
    /\ Job[r] = "reconcile" \/ row[t].status = "FAILED" =>
         row[t].lockedBy = Host[r] /\ ~Expired(row[t])
    /\ Job[r] = "retry" => row[t].status \in {"FAILED", "SUCCESS"}

BatchInv ==
  \A r \in Runs : Job[r] = "reconcile" /\ pc[r] \notin {"idle", "find"} =>
    /\ pc[r] # "next" => tx[r] \in todo[r]
    /\ pc[r] # "rescue"
    /\ \A t \in todo[r] :
         /\ copy[r][t].lockedBy = row[t].lockedBy
         /\ copy[r][t].age = row[t].age
         /\ row[t].status = "PENDING" \/ (t = tx[r] /\ pc[r] \in {"read", "write", "clear"})

RetryInv ==
  \A r \in Runs : Job[r] = "retry" =>
    /\ pc[r] # "failed"
    /\ pc[r] \in {"verify", "rescue"} => row[tx[r]].status = "FAILED"
    /\ pc[r] \in {"success", "read", "write"} => row[tx[r]].status = "SUCCESS"

CreditInv ==
  /\ \A r \in Runs : pc[r] \in {"success", "failed", "read", "write"} => credited[tx[r]] = 0
  /\ CreditedAtMostOnce

NoneInv == \A t \in Txs : api[t] = "none" => row[t].status = "NONE"

ExclusiveInv ==
  /\ OutcomeInv
  /\ NoneInv
  /\ ClaimInv
  /\ BatchInv
  /\ RetryInv
  /\ CreditInv
  /\ ExclusiveProcessing

LEMMA ExclusiveInit == Init => ExclusiveInv
  BY OutcomeInit DEF Init, ExclusiveInv, NoneInv, ClaimInv, BatchInv, RetryInv, CreditInv,
     CreditedAtMostOnce, ExclusiveProcessing, Held, NoRow, Fresh, TypeOK

LEMMA OlderAge ==
  ASSUME NEW x \in Rows
  PROVE  Older(x).age = IF x.lockedBy = None \/ x.age > LOCK_EXPIRY THEN x.age ELSE x.age + 1
<1>1. CASE Unlocked(x) \/ Expired(x)
  BY <1>1 DEF Older, Unlocked, Expired
<1>2. CASE ~(Unlocked(x) \/ Expired(x))
  <2>1. Older(x) = [status |-> x.status, hash |-> x.hash,
                    lockedBy |-> x.lockedBy, age |-> x.age + 1]
    BY <1>2 DEF Older, Rows
  <2> QED
    BY <1>2, <2>1 DEF Unlocked, Expired
<1> QED
  BY <1>1, <1>2

LEMMA ExclusiveStep ==
  ASSUME OneRunPerInstance, TimelyRuns, ApiWaits, ExclusiveInv, [Next]_vars
  PROVE  ExclusiveInv'
<1>0. /\ OutcomeInv /\ OutcomeInv' /\ TypeOK /\ TypeOK'
      /\ NoneInv /\ ClaimInv /\ BatchInv /\ RetryInv /\ CreditInv /\ ExclusiveProcessing
  BY OutcomeStep DEF ExclusiveInv, OutcomeInv
<1> USE ConstantsAssumption, <1>0
<1>22. \A r \in Runs : pc[r] \notin {"idle", "find", "next"} => tx[r] \in Held(r)
  BY DEF TypeOK, Held, BatchInv
<1>23. /\ \A t \in Txs : row[t].status = "PENDING" => credited[t] = 0
       /\ \A r \in Runs : pc[r] \in {"rescue", "success", "failed"} => credited[tx[r]] = 0
  <2>1. ASSUME NEW t \in Txs, credited[t] # 0
        PROVE  row[t].status = chain[t] /\ chain[t] \in {"SUCCESS", "FAILED"}
    BY <2>1 DEF OutcomeInv, CreditIsJustified, CreditedRowsAreSettled, TypeOK
  <2>2. ASSUME NEW r \in Runs, pc[r] = "rescue" PROVE credited[tx[r]] = 0
    <3>1. Job[r] = "retry" /\ tx[r] \in Txs /\ tx[r] \in Held(r)
      BY <1>22, <2>2 DEF TypeOK, BatchInv
    <3>2. row[tx[r]].status = "FAILED" /\ chain[tx[r]] = "SUCCESS"
      BY <2>2, <3>1 DEF OutcomeInv, WorkInv, RetryInv
    <3> QED
      BY <2>1, <3>1, <3>2
  <2>3. ASSUME NEW r \in Runs, pc[r] \in {"success", "failed"} PROVE credited[tx[r]] = 0
    BY <2>3 DEF CreditInv
  <2>4. ASSUME NEW t \in Txs, row[t].status = "PENDING" PROVE credited[t] = 0
    BY <2>1, <2>4
  <2> QED
    BY <2>2, <2>3, <2>4
<1>24. \A r \in Runs :
         /\ tx[r] \in Txs /\ todo[r] \subseteq Txs
         /\ Held(r) \subseteq Txs /\ Held(r)' \subseteq Txs
         /\ Job[r] \in {"reconcile", "retry"}
  BY DEF TypeOK, Held
<1>1. ASSUME NEW t \in Txs, ApiCreate(t) PROVE ExclusiveInv'
  <2>1. NoneInv'
    BY <1>1 DEF NoneInv, ApiCreate, Fresh, runVars, TypeOK
  <2>2. ClaimInv'
    BY <1>1 DEF ClaimInv, Held, ClaimedBy, NoneInv, ApiCreate, Fresh, runVars, TypeOK
  <2>3. BatchInv'
    BY <1>1 DEF BatchInv, NoneInv, ClaimInv, Held, ApiCreate, Fresh, runVars, TypeOK
  <2>4. RetryInv'
    BY <1>1 DEF RetryInv, NoneInv, ApiCreate, Fresh, runVars, TypeOK
  <2>5. CreditInv'
    BY <1>1 DEF CreditInv, CreditedAtMostOnce, ApiCreate, Fresh, runVars, TypeOK
  <2>6. ExclusiveProcessing'
    BY <1>1 DEF ExclusiveProcessing, Held, ClaimedBy, NoneInv, ClaimInv, ApiCreate, Fresh,
       runVars, TypeOK
  <2> QED
    BY <2>1, <2>2, <2>3, <2>4, <2>5, <2>6 DEF ExclusiveInv
<1>2. ASSUME NEW t \in Txs, NEW s \in {"PENDING", "FAILED"}, NEW h \in BOOLEAN,
             NEW n \in {"saved", "done"}, ApiSave(t, s, h, n)
      PROVE  ExclusiveInv'
  <2>1. NoneInv'
    BY <1>2 DEF NoneInv, ApiSave, Fresh, runVars, Unlocked, TypeOK
  <2>2. ClaimInv'
    BY <1>2 DEF ClaimInv, Held, ClaimedBy, OutcomeInv, ApiInv, ApiSave, Fresh, runVars,
       Unlocked, TypeOK
  <2>3. BatchInv'
    BY <1>2 DEF BatchInv, ClaimInv, Held, ApiSave, Fresh, runVars, Unlocked, TypeOK
  <2>4. RetryInv'
    BY <1>2 DEF RetryInv, OutcomeInv, ApiInv, ApiSave, Fresh, runVars, Unlocked, TypeOK
  <2>5. CreditInv'
    BY <1>2 DEF CreditInv, CreditedAtMostOnce, ApiSave, Fresh, runVars, Unlocked, TypeOK
  <2>6. ExclusiveProcessing'
    BY <1>2 DEF ExclusiveProcessing, Held, ClaimedBy, ClaimInv, ApiSave, Fresh, runVars,
       Unlocked, TypeOK
  <2> QED
    BY <2>1, <2>2, <2>3, <2>4, <2>5, <2>6 DEF ExclusiveInv
<1>5. ASSUME NEW r \in Runs, ClaimPending(r) PROVE ExclusiveInv'
  <2>1. /\ Job[r] = "reconcile" /\ pc[r] = "idle" /\ pc' = [pc EXCEPT ![r] = "find"]
        /\ UNCHANGED <<api, credited, todo, tx, copy>>
    BY <1>5 DEF ClaimPending
  <2>2. \A t \in Txs :
          /\ row'[t].status = row[t].status
          /\ ~Claimable(row[t], "PENDING") => row'[t] = row[t]
          /\ Claimable(row[t], "PENDING") => row'[t].lockedBy = Host[r] /\ ~Expired(row'[t])
    <3>1. row' = [t \in Txs |-> IF Claimable(row[t], "PENDING") THEN Claimed(row[t], Host[r]) ELSE row[t]]
      BY <1>5 DEF ClaimPending
    <3>2. \A t \in Txs : LET x == Claimed(row[t], Host[r])
                         IN  x.status = row[t].status /\ x.lockedBy = Host[r] /\ x.age = 0
      BY ClaimedType DEF TypeOK
    <3>3. \A t \in Txs : ~Expired(Claimed(row[t], Host[r]))
      BY <3>2 DEF Expired
    <3> QED
      BY <3>1, <3>2, <3>3
  <2>3. \A s \in Runs : \A t \in Held(s) : row'[t] = row[t]
    BY <2>2 DEF TypeOK, Claimable, Unlocked, ClaimInv, Held, ClaimedBy, OutcomeInv, WorkInv
  <2>4. \A s \in Runs : s # r => Held(s)' = Held(s)
    <3> SUFFICES ASSUME NEW s \in Runs, s # r, NEW t \in Txs
                 PROVE  t \in Held(s)' <=> t \in Held(s)
      BY <1>24
    <3>1. CASE pc[s] = "find"
      <4>1. Job[s] = "reconcile" /\ Host[s] # Host[r]
        BY <2>1, <3>1 DEF OutcomeInv, WorkInv, OneRunPerInstance
      <4>2. t \in ClaimedBy(Host[s])' <=> t \in ClaimedBy(Host[s])
        <5>1. t \in ClaimedBy(Host[s]) => t \in Held(s) /\ row[t].lockedBy = Host[s]
          BY <3>1 DEF Held, ClaimedBy
        <5>2. t \in ClaimedBy(Host[s])' => row'[t].lockedBy = Host[s]
          BY DEF ClaimedBy
        <5>3. CASE Claimable(row[t], "PENDING")
          BY <2>2, <2>3, <4>1, <5>1, <5>2, <5>3
        <5>4. CASE ~Claimable(row[t], "PENDING")
          BY <2>2, <5>4 DEF ClaimedBy
        <5> QED
          BY <5>3, <5>4
      <4> QED
        BY <2>1, <3>1, <4>2 DEF TypeOK, Held
    <3>2. CASE pc[s] # "find"
      BY <2>1, <3>2 DEF TypeOK, Held
    <3> QED
      BY <3>1, <3>2
  <2>5. Held(r)' = ClaimedBy(Host[r])'
    BY <2>1 DEF TypeOK, Held, ClaimedBy
  <2>6. \A t \in ClaimedBy(Host[r])' : ~Expired(row'[t])
    BY <2>2 DEF Claimable, Unlocked, ClaimedBy
  <2>7. \A s \in Runs : \A t \in Held(s) : row[t].status # "PENDING" \/ row[t].lockedBy = Host[s]
    BY <1>24 DEF ClaimInv
  <2>8. \A s \in Runs : s # r => Held(s) \cap Held(r)' = {}
    <3> SUFFICES ASSUME NEW s \in Runs, s # r, NEW t \in Held(s), t \in Held(r)' PROVE FALSE
      OBVIOUS
    <3>1. t \in Txs /\ row'[t] = row[t] /\ row[t].status = "PENDING" /\ row[t].lockedBy = Host[r]
      BY <1>24, <2>3, <2>5 DEF ClaimedBy
    <3>2. Job[s] = "reconcile" /\ Host[s] = Host[r]
      BY <1>24, <2>7, <3>1 DEF ClaimInv
    <3> QED
      BY <2>1, <3>2 DEF OneRunPerInstance
  <2>9. NoneInv'
    BY <1>24, <2>1, <2>2, <2>3, <2>4, <2>5, <2>6, <2>8 DEF NoneInv, TypeOK
  <2>10. ClaimInv'
    <3> SUFFICES ASSUME NEW s \in Runs, NEW t \in Held(s)'
                 PROVE  /\ row'[t].status # "NONE"
                        /\ Job[s] = "reconcile" \/ row'[t].status = "FAILED" =>
                             row'[t].lockedBy = Host[s] /\ ~Expired(row'[t])
                        /\ Job[s] = "retry" => row'[t].status \in {"FAILED", "SUCCESS"}
      BY DEF ClaimInv
    <3>1. CASE s = r
      BY <2>1, <2>5, <2>6, <3>1 DEF ClaimedBy
    <3>2. CASE s # r
      BY <2>3, <2>4, <3>2 DEF ClaimInv
    <3> QED
      BY <3>1, <3>2
  <2>11. BatchInv'
    BY <1>24, <2>1, <2>2, <2>3, <2>4, <2>5, <2>6, <2>8 DEF BatchInv, Held, TypeOK
  <2>12. RetryInv'
    <3> SUFFICES ASSUME NEW s \in Runs, Job[s] = "retry"
                 PROVE  /\ pc'[s] # "failed"
                        /\ pc'[s] \in {"verify", "rescue"} => row'[tx'[s]].status = "FAILED"
                        /\ pc'[s] \in {"success", "read", "write"} => row'[tx'[s]].status = "SUCCESS"
      BY DEF RetryInv
    <3>1. tx'[s] = tx[s] /\ tx[s] \in Txs
      BY <2>1 DEF TypeOK
    <3>2. pc'[s] = pc[s]
      BY <2>1 DEF TypeOK
    <3>3. row'[tx[s]].status = row[tx[s]].status
      BY <2>2, <3>1
    <3> QED
      BY <3>1, <3>2, <3>3 DEF RetryInv
  <2>13. CreditInv'
    BY <1>24, <2>1, <2>2, <2>3, <2>4, <2>5, <2>6, <2>8 DEF CreditInv, CreditedAtMostOnce,
       TypeOK
  <2>14. ExclusiveProcessing'
    <3>1. ASSUME NEW s \in Runs, NEW q \in Runs, s # q, s # r
          PROVE  Held(s)' \cap Held(q)' = {}
      BY <2>4, <2>8, <3>1 DEF ExclusiveProcessing
    <3> QED
      BY <2>4, <2>8, <3>1 DEF ExclusiveProcessing
  <2> QED
    BY <2>9, <2>10, <2>11, <2>12, <2>13, <2>14 DEF ExclusiveInv
<1>7. ASSUME NEW r \in Runs, FindClaimed(r) PROVE ExclusiveInv'
  <2>1. NoneInv'
    BY <1>7 DEF NoneInv, FindClaimed, StartBatch, TypeOK
  <2>a. Job[r] = "reconcile" /\ pc[r] = "find"
    BY <1>7 DEF OutcomeInv, WorkInv, FindClaimed
  <2>b. /\ todo' = [todo EXCEPT ![r] = ClaimedBy(Host[r])]
        /\ pc' = [pc EXCEPT ![r] = IF ClaimedBy(Host[r]) = {} THEN "idle" ELSE "next"]
        /\ row' = row /\ tx' = tx
    BY <1>7 DEF FindClaimed, StartBatch
  <2>c. Held(r)' = Held(r)
    <3>1. /\ todo'[r] = ClaimedBy(Host[r])
          /\ pc'[r] = IF ClaimedBy(Host[r]) = {} THEN "idle" ELSE "next"
      BY <2>b DEF TypeOK
    <3>2. ClaimedBy(Host[r]) \subseteq Txs
      BY DEF ClaimedBy
    <3> HIDE DEF ClaimedBy
    <3>3. Held(r) = ClaimedBy(Host[r])
      BY <2>a, <3>2 DEF Held
    <3>4. Held(r)' = ClaimedBy(Host[r])
      BY <2>a, <3>1, <3>2 DEF Held
    <3> QED
      BY <3>3, <3>4
  <2>d. ASSUME NEW s \in Runs, s # r PROVE Held(s)' = Held(s)
    <3>1. pc'[s] = pc[s] /\ todo'[s] = todo[s]
      BY <2>b, <2>d DEF TypeOK
    <3>2. ClaimedBy(Host[s])' = ClaimedBy(Host[s])
      BY <2>b DEF ClaimedBy
    <3> HIDE DEF ClaimedBy
    <3> QED
      BY <2>b, <3>1, <3>2 DEF Held
  <2>e. \A s \in Runs : Held(s)' = Held(s)
    BY <2>c, <2>d
  <2>2. ClaimInv'
    BY <2>b, <2>e DEF ClaimInv
  <2>3. BatchInv'
    BY <1>7 DEF BatchInv, ClaimedBy, FindClaimed, StartBatch, TypeOK
  <2>4. RetryInv'
    BY <1>7 DEF RetryInv, FindClaimed, StartBatch, TypeOK
  <2>5. CreditInv'
    BY <1>7 DEF CreditInv, CreditedAtMostOnce, FindClaimed, StartBatch, TypeOK
  <2>6. ExclusiveProcessing'
    BY <2>e DEF ExclusiveProcessing
  <2> QED
    BY <2>1, <2>2, <2>3, <2>4, <2>5, <2>6 DEF ExclusiveInv
<1>8. ASSUME NEW r \in Runs, FindFailed(r) PROVE ExclusiveInv'
  <2>1. NoneInv'
    BY <1>8 DEF NoneInv, FindFailed, StartBatch, TypeOK
  <2>2. ClaimInv'
    BY <1>8 DEF ClaimInv, Held, ClaimedBy, FindFailed, StartBatch, TypeOK
  <2>3. BatchInv'
    BY <1>8 DEF BatchInv, FindFailed, StartBatch, TypeOK
  <2>4. RetryInv'
    BY <1>8 DEF RetryInv, FindFailed, StartBatch, TypeOK
  <2>5. CreditInv'
    BY <1>8 DEF CreditInv, CreditedAtMostOnce, FindFailed, StartBatch, TypeOK
  <2>6. ExclusiveProcessing'
    BY <1>8 DEF ExclusiveProcessing, Held, ClaimedBy, FindFailed, StartBatch, TypeOK
  <2> QED
    BY <2>1, <2>2, <2>3, <2>4, <2>5, <2>6 DEF ExclusiveInv
<1>9. ASSUME NEW r \in Runs, ReconcileNext(r) PROVE ExclusiveInv'
  <2>1. NoneInv'
    BY <1>9 DEF NoneInv, ReconcileNext, TypeOK
  <2>2. ClaimInv'
    BY <1>9 DEF ClaimInv, Held, ClaimedBy, ReconcileNext, TypeOK
  <2>3. BatchInv'
    BY <1>9 DEF BatchInv, ReconcileNext, TypeOK
  <2>4. RetryInv'
    BY <1>9 DEF RetryInv, ReconcileNext, TypeOK
  <2>5. CreditInv'
    BY <1>9 DEF CreditInv, CreditedAtMostOnce, ReconcileNext, TypeOK
  <2>6. ExclusiveProcessing'
    BY <1>9 DEF ExclusiveProcessing, Held, ClaimedBy, ReconcileNext, TypeOK
  <2> QED
    BY <2>1, <2>2, <2>3, <2>4, <2>5, <2>6 DEF ExclusiveInv
<1>10. ASSUME NEW r \in Runs, NEW t \in Txs, ClaimForRetry(r, t) PROVE ExclusiveInv'
  <2>1. /\ Job[r] = "retry" /\ pc[r] = "next"
        /\ pc' = [pc EXCEPT ![r] = "verify"] /\ tx' = [tx EXCEPT ![r] = t]
        /\ UNCHANGED <<api, credited, todo, copy>>
    BY <1>10 DEF ClaimForRetry
  <2>2. /\ row[t].status = "FAILED" /\ (Unlocked(row[t]) \/ Expired(row[t]))
        /\ row'[t].status = "FAILED" /\ row'[t].lockedBy = Host[r] /\ ~Expired(row'[t])
        /\ \A q \in Txs : q # t => row'[q] = row[q]
    BY <1>10, ClaimedType DEF ClaimForRetry, Claimable, TypeOK, Expired
  <2>3. \A s \in Runs : t \notin Held(s)
    BY <2>2, <1>24 DEF ClaimInv, BatchInv, TypeOK, Unlocked
  <2>4. Held(r) = {} /\ Held(r)' = {t}
    BY <2>1 DEF TypeOK, Held
  <2>5. \A s \in Runs : s # r => Held(s)' = Held(s)
    <3> SUFFICES ASSUME NEW s \in Runs, s # r, NEW q \in Txs
                 PROVE  q \in Held(s)' <=> q \in Held(s)
      BY <1>24
    <3>1. pc'[s] = pc[s] /\ tx'[s] = tx[s] /\ todo'[s] = todo[s]
      BY <2>1 DEF TypeOK
    <3>2. q \in ClaimedBy(Host[s])' <=> q \in ClaimedBy(Host[s])
      BY <2>2 DEF ClaimedBy
    <3> QED
      BY <3>1, <3>2 DEF Held
  <2>6. NoneInv'
    <3>1. \A q \in Txs : row'[q].status = row[q].status
      BY <2>2
    <3> QED
      BY <2>1, <3>1 DEF NoneInv
  <2>7. ClaimInv'
    <3> SUFFICES ASSUME NEW s \in Runs, NEW q \in Held(s)'
                 PROVE  /\ row'[q].status # "NONE"
                        /\ Job[s] = "reconcile" \/ row'[q].status = "FAILED" =>
                             row'[q].lockedBy = Host[s] /\ ~Expired(row'[q])
                        /\ Job[s] = "retry" => row'[q].status \in {"FAILED", "SUCCESS"}
      BY DEF ClaimInv
    <3>1. CASE s = r
      BY <2>1, <2>2, <2>4, <3>1
    <3>2. CASE s # r
      <4>1. q \in Held(s) /\ q \in Txs /\ q # t
        BY <1>24, <2>3, <2>5, <3>2
      <4> QED
        BY <2>2, <4>1 DEF ClaimInv
    <3> QED
      BY <3>1, <3>2
  <2>8. BatchInv'
    <3>1. ASSUME NEW s \in Runs, Job[s] = "reconcile", pc[s] \notin {"idle", "find"}, s # r
          PROVE  t \notin todo[s]
      BY <2>3, <3>1 DEF Held
    <3>2. \A s \in Runs : s # r => pc'[s] = pc[s] /\ tx'[s] = tx[s]
      BY <2>1 DEF TypeOK
    <3> QED
      BY <1>24, <2>1, <2>2, <3>1, <3>2 DEF BatchInv
  <2>9. RetryInv'
    <3>1. ASSUME NEW s \in Runs, Job[s] = "retry", s # r
          PROVE  /\ pc'[s] # "failed"
                 /\ pc'[s] \in {"verify", "rescue"} => row'[tx'[s]].status = "FAILED"
                 /\ pc'[s] \in {"success", "read", "write"} => row'[tx'[s]].status = "SUCCESS"
      <4>1. pc'[s] = pc[s] /\ tx'[s] = tx[s] /\ tx[s] \in Txs
        BY <2>1, <3>1 DEF TypeOK
      <4>2. row'[tx[s]].status = row[tx[s]].status
        BY <2>2, <4>1
      <4> QED
        BY <3>1, <4>1, <4>2 DEF RetryInv
    <3>2. pc'[r] = "verify" /\ row'[tx'[r]].status = "FAILED"
      BY <2>1, <2>2 DEF TypeOK
    <3> QED
      BY <3>1, <3>2 DEF RetryInv
  <2>10. CreditInv'
    <3>1. \A s \in Runs : pc'[s] \in {"success", "failed", "read", "write"} =>
            pc'[s] = pc[s] /\ tx'[s] = tx[s]
      BY <2>1 DEF TypeOK
    <3> QED
      BY <2>1, <3>1 DEF CreditInv, CreditedAtMostOnce
  <2>11. ExclusiveProcessing'
    <3>1. ASSUME NEW s \in Runs, NEW q \in Runs, s # q, s # r PROVE Held(s)' \cap Held(q)' = {}
      <4>1. t \notin Held(s) /\ Held(s) \cap Held(q) = {} /\ Held(s)' = Held(s)
        BY <2>3, <2>5, <3>1 DEF ExclusiveProcessing
      <4> QED
        BY <2>4, <2>5, <4>1
    <3> QED
      BY <2>4, <2>5, <3>1 DEF ExclusiveProcessing
  <2> QED
    BY <2>6, <2>7, <2>8, <2>9, <2>10, <2>11 DEF ExclusiveInv
<1>11. ASSUME NEW r \in Runs, NEW t \in Txs, SkipUnclaimed(r, t) PROVE ExclusiveInv'
  <2>1. NoneInv'
    BY <1>11 DEF NoneInv, SkipUnclaimed, AfterRow, TypeOK
  <2>2. ClaimInv'
    BY <1>11 DEF ClaimInv, Held, ClaimedBy, SkipUnclaimed, AfterRow, TypeOK
  <2>3. BatchInv'
    BY <1>11 DEF BatchInv, SkipUnclaimed, AfterRow, TypeOK
  <2>4. RetryInv'
    BY <1>11 DEF RetryInv, SkipUnclaimed, AfterRow, TypeOK
  <2>5. CreditInv'
    BY <1>11 DEF CreditInv, CreditedAtMostOnce, SkipUnclaimed, AfterRow, TypeOK
  <2>6. ExclusiveProcessing'
    BY <1>11 DEF ExclusiveProcessing, Held, ClaimedBy, SkipUnclaimed, AfterRow, TypeOK
  <2> QED
    BY <2>1, <2>2, <2>3, <2>4, <2>5, <2>6 DEF ExclusiveInv
<1>12. ASSUME NEW r \in Runs, Verify(r) PROVE ExclusiveInv'
  <2>1. PICK answer \in Answers(tx[r]) : pc' = [pc EXCEPT ![r] = AfterAnswer(r, answer)]
    BY <1>12 DEF Verify
  <2>2. /\ AfterAnswer(r, answer) \in {"rescue", "success", "failed", "clear"}
        /\ AfterAnswer(r, answer) = "rescue" => Job[r] = "retry"
        /\ AfterAnswer(r, answer) \in {"success", "failed"} => Job[r] = "reconcile"
    BY <2>1 DEF Answers, AfterAnswer, TypeOK, ChainStates
  <2>3. pc[r] = "verify" /\ UNCHANGED <<row, api, credited, todo, tx, copy>>
    BY <1>12 DEF Verify
  <2>4. \A s \in Runs : Held(s)' = Held(s)
    BY <2>1, <2>2, <2>3 DEF TypeOK, Held, ClaimedBy
  <2>5. NoneInv'
    BY <1>24, <2>1, <2>2, <2>3, <2>4 DEF NoneInv, TypeOK
  <2>6. ClaimInv'
    BY <1>24, <2>1, <2>2, <2>3, <2>4 DEF ClaimInv, TypeOK
  <2>7. BatchInv'
    BY <1>24, <2>1, <2>2, <2>3, <2>4 DEF BatchInv, TypeOK
  <2>8. RetryInv'
    <3>1. ASSUME NEW s \in Runs, Job[s] = "retry", s # r
          PROVE  pc'[s] = pc[s] /\ tx'[s] = tx[s] /\ row'[tx[s]] = row[tx[s]]
      BY <2>1, <2>3, <3>1 DEF TypeOK
    <3>2. Job[r] = "retry" => pc'[r] \in {"rescue", "clear"} /\ row'[tx'[r]].status = "FAILED"
      <4>1. pc'[r] = AfterAnswer(r, answer) /\ tx' = tx /\ row' = row
        BY <2>1, <2>3 DEF TypeOK
      <4>2. Job[r] = "retry" => row[tx[r]].status = "FAILED"
        BY <2>3 DEF RetryInv
      <4>3. Job[r] = "retry" => AfterAnswer(r, answer) \in {"rescue", "clear"}
        BY <2>2
      <4> QED
        BY <4>1, <4>2, <4>3
    <3> QED
      BY <3>1, <3>2 DEF RetryInv
  <2>9. CreditInv'
    <3>1. \A s \in Runs : s # r => pc'[s] = pc[s]
      BY <2>1 DEF TypeOK
    <3>2. pc'[r] \in {"success", "failed", "read", "write"} => credited[tx[r]] = 0
      <4>1. pc'[r] \in {"success", "failed", "read", "write"} => Job[r] = "reconcile"
        BY <2>1, <2>2 DEF TypeOK
      <4>2. Job[r] = "reconcile" => tx[r] \in todo[r] /\ row[tx[r]].status = "PENDING"
        BY <2>3 DEF BatchInv
      <4> QED
        BY <1>23, <1>24, <4>1, <4>2
    <3> QED
      BY <2>3, <3>1, <3>2 DEF CreditInv, CreditedAtMostOnce
  <2>10. ExclusiveProcessing'
    BY <2>4 DEF ExclusiveProcessing
  <2> QED
    BY <2>5, <2>6, <2>7, <2>8, <2>9, <2>10 DEF ExclusiveInv
<1>21. ASSUME NEW r \in Runs, NEW s \in {"SUCCESS", "FAILED"}, NEW next \in Steps,
              SaveEntity(r, s, next),
              pc[r] \in {"rescue", "success", "failed"},
              Job[r] = "retry" => s = "SUCCESS" /\ next \in {"success", "read", "clear"},
              Job[r] = "reconcile" => next \in {"read", "clear"},
              credited[tx[r]] = 0
       PROVE  ExclusiveInv'
  <2>1. /\ pc' = [pc EXCEPT ![r] = next]
        /\ UNCHANGED <<api, credited, todo, tx>>
    BY <1>21 DEF SaveEntity
  <2>2. /\ row'[tx[r]] = Saved(copy[r][tx[r]], s)
        /\ copy'[r][tx[r]] = Saved(copy[r][tx[r]], s)
        /\ \A q \in Txs : q # tx[r] => row'[q] = row[q] /\ copy'[r][q] = copy[r][q]
        /\ \A q \in Runs : q # r => copy'[q] = copy[q]
    BY <1>21 DEF SaveEntity, TypeOK
  <2>3. /\ Saved(copy[r][tx[r]], s).status = s
        /\ Saved(copy[r][tx[r]], s).lockedBy = copy[r][tx[r]].lockedBy
        /\ Saved(copy[r][tx[r]], s).age = copy[r][tx[r]].age
    BY SavedType DEF Statuses, TypeOK
  <2>4. tx[r] \in Held(r)
    BY <1>21, <1>22
  <2>5. \A q \in Runs : Held(q)' = Held(q)
    <3> SUFFICES ASSUME NEW q \in Runs, NEW t \in Txs
                 PROVE  t \in Held(q)' <=> t \in Held(q)
      BY <1>24
    <3>1. t # tx[r] => (t \in ClaimedBy(Host[q])' <=> t \in ClaimedBy(Host[q]))
      BY <2>2 DEF ClaimedBy
    <3>2. CASE q = r
      BY <1>21, <1>24, <2>1, <3>2 DEF Held, TypeOK
    <3>3. CASE q # r
      <4>1. tx[r] \notin Held(q)
        BY <2>4, <3>3 DEF ExclusiveProcessing
      <4>2. tx[r] \notin ClaimedBy(Host[q])'
        BY <2>2, <2>3 DEF ClaimedBy
      <4>3. pc'[q] = pc[q]
        BY <2>1, <3>3 DEF TypeOK
      <4> QED
        BY <2>1, <3>1, <4>1, <4>2, <4>3 DEF Held
    <3> QED
      BY <3>2, <3>3
  <2>6. Job[r] \in {"reconcile", "retry"} /\ tx[r] \in Txs /\ api[tx[r]] # "none"
    BY <1>24, <2>4 DEF ClaimInv, NoneInv
  <2>7. Expired(row'[tx[r]]) <=> Expired(copy[r][tx[r]])
    BY <2>2, <2>3 DEF Expired
  <2>8. Job[r] = "reconcile" => copy[r][tx[r]].lockedBy = Host[r] /\ ~Expired(copy[r][tx[r]])
    BY <1>21, <2>4 DEF Expired, ClaimInv, BatchInv, Held
  <2>9. \A q \in Runs : q # r => tx[r] \notin Held(q)
    BY <2>4 DEF ExclusiveProcessing
  <2>10. NoneInv'
    BY <2>1, <2>2, <2>6 DEF NoneInv
  <2>11. ClaimInv'
    <3>1. \A q \in Runs : \A t \in Held(q) : t # tx[r] => row'[t] = row[t]
      BY <1>24, <2>2
    <3>2. row'[tx[r]].status = s /\ row'[tx[r]].lockedBy = copy[r][tx[r]].lockedBy
      BY <2>2, <2>3
    <3>3. s \in {"SUCCESS", "FAILED"} /\ (Job[r] = "retry" => s = "SUCCESS")
      BY <1>21
    <3> QED
      BY <2>5, <2>6, <2>7, <2>8, <2>9, <3>1, <3>2, <3>3 DEF ClaimInv
  <2>12. BatchInv'
    <3>1. \A q \in Runs : q # r => /\ pc'[q] = pc[q] /\ copy'[q] = copy[q]
                                 /\ todo'[q] = todo[q] /\ tx'[q] = tx[q]
      BY <2>1, <2>2 DEF TypeOK
    <3>2. ASSUME NEW q \in Runs, q # r, Job[q] = "reconcile", pc[q] \notin {"idle", "find"}
          PROVE  tx[r] \notin todo[q]
      BY <2>9, <2>6, <3>2 DEF Held
    <3>3. pc'[r] = next /\ todo'[r] = todo[r] /\ tx'[r] = tx[r]
      BY <2>1 DEF TypeOK
    <3>4. Job[r] = "reconcile" => next \in {"read", "clear"} /\ tx[r] \in todo[r]
      BY <1>21 DEF BatchInv
    <3>5. \A q \in Runs : q # r => \A t \in todo[q] : t # tx[r] => row'[t] = row[t]
      BY <1>24, <2>2
    <3>6. \A t \in todo[r] : t # tx[r] => row'[t] = row[t] /\ copy'[r][t] = copy[r][t]
      BY <1>24, <2>2
    <3>7. copy'[r][tx[r]] = row'[tx[r]]
      BY <2>2
    <3>8. pc[r] \in {"rescue", "success", "failed"}
      BY <1>21
    <3>9. ASSUME NEW q \in Runs, q # r, Job[q] = "reconcile", pc'[q] \notin {"idle", "find"}
          PROVE  /\ pc'[q] # "next" => tx'[q] \in todo'[q]
                 /\ pc'[q] # "rescue"
                 /\ \A t \in todo'[q] :
                      /\ copy'[q][t].lockedBy = row'[t].lockedBy
                      /\ copy'[q][t].age = row'[t].age
                      /\ row'[t].status = "PENDING" \/ (t = tx'[q] /\ pc'[q] \in {"read", "write", "clear"})
      BY <3>1, <3>2, <3>5, <3>9 DEF BatchInv
    <3>10. ASSUME Job[r] = "reconcile", pc'[r] \notin {"idle", "find"}
          PROVE  /\ pc'[r] # "next" => tx'[r] \in todo'[r]
                 /\ pc'[r] # "rescue"
                 /\ \A t \in todo'[r] :
                      /\ copy'[r][t].lockedBy = row'[t].lockedBy
                      /\ copy'[r][t].age = row'[t].age
                      /\ row'[t].status = "PENDING" \/ (t = tx'[r] /\ pc'[r] \in {"read", "write", "clear"})
      BY <3>3, <3>4, <3>6, <3>7, <3>8, <3>10 DEF BatchInv
    <3> QED
      BY <3>9, <3>10 DEF BatchInv
  <2>13. RetryInv'
    BY <1>21, <1>24, <2>1, <2>2, <2>3, <2>4, <2>5, <2>6, <2>7, <2>8, <2>9 DEF RetryInv,
       Held, TypeOK
  <2>14. CreditInv'
    BY <1>21, <1>24, <2>1, <2>2, <2>3, <2>4, <2>5, <2>6, <2>7, <2>8, <2>9 DEF CreditInv,
       CreditedAtMostOnce, TypeOK
  <2>15. ExclusiveProcessing'
    BY <1>21, <1>24, <2>1, <2>2, <2>3, <2>4, <2>5, <2>6, <2>7, <2>8, <2>9 DEF
       ExclusiveProcessing, TypeOK
  <2> QED
    BY <2>10, <2>11, <2>12, <2>13, <2>14, <2>15 DEF ExclusiveInv
<1>13. ASSUME NEW r \in Runs, Rescue(r) \/ SaveSuccess(r) \/ SaveFailed(r) PROVE ExclusiveInv'
  <2>1. CASE Rescue(r)
    BY <1>21, <1>23, <2>1 DEF Rescue, Steps, BatchInv
  <2>2. CASE SaveSuccess(r)
    BY <1>21, <1>23, <2>2 DEF SaveSuccess, Steps
  <2>3. CASE SaveFailed(r)
    BY <1>21, <1>23, <2>3 DEF SaveFailed, Steps, RetryInv
  <2> QED
    BY <1>13, <2>1, <2>2, <2>3
<1>14. ASSUME NEW r \in Runs, ReadBalance(r) PROVE ExclusiveInv'
  <2>1. NoneInv'
    BY <1>14 DEF NoneInv, ReadBalance, TypeOK
  <2>2. ClaimInv'
    BY <1>14 DEF ClaimInv, Held, ClaimedBy, ReadBalance, TypeOK
  <2>3. BatchInv'
    BY <1>14 DEF BatchInv, ReadBalance, TypeOK
  <2>4. RetryInv'
    BY <1>14 DEF RetryInv, ReadBalance, TypeOK
  <2>5. CreditInv'
    BY <1>14 DEF CreditInv, CreditedAtMostOnce, ReadBalance, TypeOK
  <2>6. ExclusiveProcessing'
    BY <1>14 DEF ExclusiveProcessing, Held, ClaimedBy, ReadBalance, TypeOK
  <2> QED
    BY <2>1, <2>2, <2>3, <2>4, <2>5, <2>6 DEF ExclusiveInv
<1>15. ASSUME NEW r \in Runs, WriteBalance(r) PROVE ExclusiveInv'
  <2>1. /\ pc[r] = "write" /\ pc' = [pc EXCEPT ![r] = "clear"]
        /\ credited' = [credited EXCEPT ![tx[r]] = @ + 1]
        /\ UNCHANGED <<row, api, todo, tx, copy>>
    BY <1>15 DEF WriteBalance
  <2>2. \A s \in Runs : Held(s)' = Held(s)
    BY <2>1 DEF TypeOK, Held, ClaimedBy
  <2>3. \A s \in Runs : s # r /\ pc[s] \notin {"idle", "find", "next"} => tx[s] # tx[r]
    BY <1>22, <2>1 DEF ExclusiveProcessing
  <2>4. NoneInv'
    BY <1>24, <2>1, <2>2, <2>3 DEF NoneInv, TypeOK
  <2>5. ClaimInv'
    BY <1>24, <2>1, <2>2, <2>3 DEF ClaimInv, TypeOK
  <2>6. BatchInv'
    BY <1>24, <2>1, <2>2, <2>3 DEF BatchInv, TypeOK
  <2>7. RetryInv'
    BY <1>24, <2>1, <2>2, <2>3 DEF RetryInv, TypeOK
  <2>8. CreditInv'
    <3>1. credited[tx[r]] = 0
      BY <2>1 DEF CreditInv
    <3>2. credited'[tx[r]] = 1 /\ \A t \in Txs : t # tx[r] => credited'[t] = credited[t]
      BY <2>1, <3>1, <1>24 DEF TypeOK
    <3>3. pc'[r] = "clear" /\ \A s \in Runs : s # r => pc'[s] = pc[s]
      BY <2>1 DEF TypeOK
    <3>4. ASSUME NEW s \in Runs, pc'[s] \in {"success", "failed", "read", "write"}
          PROVE  credited'[tx'[s]] = 0
      <4>1. s # r /\ pc[s] = pc'[s] /\ tx'[s] = tx[s]
        BY <2>1, <3>3, <3>4
      <4>2. tx[s] # tx[r] /\ tx[s] \in Txs
        BY <1>24, <2>3, <3>4, <4>1
      <4> QED
        BY <3>2, <3>4, <4>1, <4>2 DEF CreditInv
    <3> QED
      BY <3>2, <3>4 DEF CreditInv, CreditedAtMostOnce
  <2>9. ExclusiveProcessing'
    BY <1>24, <2>1, <2>2, <2>3 DEF ExclusiveProcessing, TypeOK
  <2> QED
    BY <2>4, <2>5, <2>6, <2>7, <2>8, <2>9 DEF ExclusiveInv
<1>16. ASSUME NEW r \in Runs, ClearLock(r) PROVE ExclusiveInv'
  <2>1. /\ pc[r] = "clear" /\ pc'[r] \in {"idle", "next"}
        /\ todo'[r] = todo[r] \ {tx[r]}
        /\ \A q \in Txs : q # tx[r] => row'[q] = row[q] /\ copy'[r][q] = copy[r][q]
        /\ \A s \in Runs : s # r => /\ pc'[s] = pc[s] /\ todo'[s] = todo[s]
                                   /\ tx'[s] = tx[s] /\ copy'[s] = copy[s]
        /\ UNCHANGED <<api, credited>>
    BY <1>16 DEF ClearLock, AfterRow, TypeOK
  <2>2. row'[tx[r]].status = row[tx[r]].status /\ row'[tx[r]].lockedBy = None
    <3>1. row' = [row EXCEPT ![tx[r]] = Claimed(row[tx[r]], None)]
      BY <1>16 DEF ClearLock
    <3>2. row \in [Txs -> Rows] /\ tx[r] \in Txs /\ row[tx[r]] \in Rows
      BY DEF TypeOK
    <3>3. Claimed(row[tx[r]], None).status = row[tx[r]].status /\ Claimed(row[tx[r]], None).lockedBy = None
      BY <3>2, ClaimedType
    <3> QED
      BY <3>1, <3>2, <3>3
  <2>3. tx[r] \in Held(r) /\ Job[r] \in {"reconcile", "retry"}
    BY <1>22, <1>24, <2>1
  <2>4. \A s \in Runs : s # r => tx[r] \notin Held(s)
    BY <2>3 DEF ExclusiveProcessing
  <2>5. Held(r)' \subseteq Held(r) \ {tx[r]}
    BY <2>1, <1>24, <2>3 DEF TypeOK, Held
  <2>6. \A s \in Runs : s # r => Held(s)' = Held(s)
    BY <2>1, <2>2, <2>4 DEF TypeOK, Held, ClaimedBy
  <2>7. NoneInv'
    BY <1>24, <2>1, <2>2, <2>3, <2>4, <2>5, <2>6 DEF NoneInv
  <2>8. ClaimInv'
    BY <1>24, <2>1, <2>2, <2>3, <2>4, <2>5, <2>6 DEF ClaimInv
  <2>9. BatchInv'
    BY <1>24, <2>1, <2>2, <2>3, <2>4, <2>5, <2>6, <1>22 DEF BatchInv, Held
  <2>10. RetryInv'
    BY <1>24, <2>1, <2>2, <2>3, <2>4, <2>5, <2>6, <1>22 DEF RetryInv, Held
  <2>11. CreditInv'
    BY <1>24, <2>1, <2>2, <2>3, <2>4, <2>5, <2>6 DEF CreditInv, CreditedAtMostOnce
  <2>12. ExclusiveProcessing'
    BY <1>24, <2>1, <2>2, <2>3, <2>4, <2>5, <2>6 DEF ExclusiveProcessing
  <2> QED
    BY <2>7, <2>8, <2>9, <2>10, <2>11, <2>12 DEF ExclusiveInv
<1>17. ASSUME NEW r \in Runs, DbError(r) PROVE ExclusiveInv'
  <2>1. NoneInv'
    BY <1>17 DEF NoneInv, DbError, AfterError, TypeOK
  <2>2. ClaimInv'
    BY <1>17 DEF ClaimInv, Held, ClaimedBy, DbError, AfterError, TypeOK
  <2>3. BatchInv'
    BY <1>17 DEF BatchInv, RetryInv, DbError, AfterError, TypeOK
  <2>4. RetryInv'
    BY <1>17 DEF RetryInv, DbError, AfterError, TypeOK
  <2>5. CreditInv'
    BY <1>17 DEF CreditInv, CreditedAtMostOnce, DbError, AfterError, TypeOK
  <2>6. ExclusiveProcessing'
    BY <1>17 DEF ExclusiveProcessing, Held, ClaimedBy, DbError, AfterError, TypeOK
  <2> QED
    BY <2>1, <2>2, <2>3, <2>4, <2>5, <2>6 DEF ExclusiveInv
<1>18. ASSUME NEW i \in Instances, Crash(i) PROVE ExclusiveInv'
  <2>1. NoneInv'
    BY <1>18 DEF NoneInv, Crash, TypeOK
  <2>2. ClaimInv'
    BY <1>18 DEF ClaimInv, Held, ClaimedBy, Crash, TypeOK
  <2>3. BatchInv'
    BY <1>18 DEF BatchInv, Crash, TypeOK
  <2>4. RetryInv'
    BY <1>18 DEF RetryInv, Crash, TypeOK
  <2>5. CreditInv'
    BY <1>18 DEF CreditInv, CreditedAtMostOnce, Crash, TypeOK
  <2>6. ExclusiveProcessing'
    BY <1>18 DEF ExclusiveProcessing, Held, ClaimedBy, Crash, TypeOK
  <2> QED
    BY <2>1, <2>2, <2>3, <2>4, <2>5, <2>6 DEF ExclusiveInv
<1>19. ASSUME Tick PROVE ExclusiveInv'
  <2>1. UNCHANGED <<api, credited, pc, todo, tx>>
    BY <1>19 DEF Tick
  <2>2. /\ \A t \in Txs : row'[t] = Older(row[t])
        /\ \A r \in Runs, t \in Txs : copy'[r][t] = Older(copy[r][t])
    BY <1>19 DEF Tick, TypeOK
  <2>3. \A t \in Txs : row'[t].status = row[t].status /\ row'[t].lockedBy = row[t].lockedBy
    BY <2>2, OlderType DEF TypeOK
  <2>4. \A r \in Runs : Held(r)' = Held(r)
    BY <2>1, <2>3 DEF Held, ClaimedBy
  <2>5. \A x, y \in Rows : x.age = y.age /\ x.lockedBy = y.lockedBy =>
          Older(x).age = Older(y).age /\ Older(x).lockedBy = Older(y).lockedBy
    BY OlderType, OlderAge
  <2>6. \A r \in Runs : \A t \in Held(r) : ~Expired(row[t]) => ~Expired(row'[t])
    <3> SUFFICES ASSUME NEW r \in Runs, NEW t \in Held(r), ~Expired(row[t])
                 PROVE  ~Expired(row'[t])
      OBVIOUS
    <3>1. Unlocked(row[t]) \/ row[t].age < LOCK_EXPIRY
      BY <1>19 DEF Tick
    <3>2. t \in Txs /\ row[t] \in Rows
      BY <1>24 DEF TypeOK
    <3> QED
      BY <2>2, <3>1, <3>2, OlderAge DEF Expired, Unlocked, Rows
  <2>7. \A r \in Runs, t \in Txs : row[t] \in Rows /\ copy[r][t] \in Rows /\ todo[r] \subseteq Txs
    BY DEF TypeOK
  <2>8. NoneInv'
    BY <1>24, <2>1, <2>3, <2>4, <2>6 DEF NoneInv
  <2>9. ClaimInv'
    BY <1>24, <2>1, <2>3, <2>4, <2>6 DEF ClaimInv
  <2>10. BatchInv'
    BY <1>24, <2>1, <2>3, <2>4, <2>6, <2>2, <2>5, <2>7 DEF BatchInv
  <2>11. RetryInv'
    BY <1>24, <2>1, <2>3, <2>4, <2>6 DEF RetryInv
  <2>12. CreditInv'
    BY <1>24, <2>1, <2>3, <2>4, <2>6 DEF CreditInv, CreditedAtMostOnce
  <2>13. ExclusiveProcessing'
    BY <1>24, <2>1, <2>3, <2>4, <2>6 DEF ExclusiveProcessing
  <2> QED
    BY <2>8, <2>9, <2>10, <2>11, <2>12, <2>13 DEF ExclusiveInv
<1>20. CASE UNCHANGED vars
  BY <1>20 DEF vars, ExclusiveInv, NoneInv, ClaimInv, BatchInv, RetryInv, CreditInv,
     CreditedAtMostOnce, ExclusiveProcessing, Held, ClaimedBy
<1>3. ASSUME NEW t \in Txs, Api(t) PROVE ExclusiveInv'
  <2>1. CASE ApiSaveHash(t) \/ ApiSaveFailed(t) \/ ApiCategorize(t)
    <3> PICK s \in {"PENDING", "FAILED"}, h \in BOOLEAN, n \in {"saved", "done"} : ApiSave(t, s, h, n)
      BY <2>1, ApiSaves
    <3> QED
      BY <1>2
  <2>3. CASE Settle(t)
    BY <2>3 DEF Settle, runVars, ExclusiveInv, NoneInv, ClaimInv, BatchInv, RetryInv, CreditInv,
       CreditedAtMostOnce, ExclusiveProcessing, Held, ClaimedBy
  <2> QED
    BY <1>1, <1>3, <2>1, <2>3 DEF Api
<1>4. ASSUME NEW r \in Runs, Work(r) PROVE ExclusiveInv'
  BY <1>4, <1>7, <1>9, <1>10, <1>11, <1>12, <1>13, <1>14, <1>15, <1>16 DEF Work
<1> QED
  BY <1>3, <1>4, <1>5, <1>8, <1>17, <1>18, <1>19, <1>20 DEF Next

LEMMA ExclusiveInductive ==
  ASSUME OneRunPerInstance, TimelyRuns, ApiWaits
  PROVE  Spec => []ExclusiveInv
<1>1. ExclusiveInv /\ [Next]_vars => ExclusiveInv'
  BY ExclusiveStep
<1> QED
  BY <1>1, ExclusiveInit, PTL DEF Spec

\* No two runs ever work on the same row, provided that an instance runs a job
\* once at a time, that no claim expires under the run that holds it and that
\* no API handler saves a claimed or settled row.  The runs of the two violations drop one
\* of these conditions each.
THEOREM ProcessingIsExclusive ==
  ASSUME OneRunPerInstance, TimelyRuns, ApiWaits
  PROVE  Spec => []ExclusiveProcessing
<1>1. ExclusiveInv => ExclusiveProcessing
  BY DEF ExclusiveInv
<1> QED
  BY <1>1, ExclusiveInductive, PTL

\* Under the same conditions the balance changes at most once for a transaction.
THEOREM CreditsAreSingle ==
  ASSUME OneRunPerInstance, TimelyRuns, ApiWaits
  PROVE  Spec => []CreditedAtMostOnce
<1>1. ExclusiveInv => CreditedAtMostOnce
  BY DEF ExclusiveInv, CreditInv
<1> QED
  BY <1>1, ExclusiveInductive, PTL

-----------------------------------------------------------------------------
(***************************************************************************)
(* Sums.  The fold of MapThenSumSet is a function defined by recursion     *)
(* over the subsets of a set.  That there is one, what it returns and how  *)
(* it changes with one summand follows by induction; the induction is      *)
(* brought back to theorems that take sets instead of predicates, WFMin    *)
(* about well-founded relations.                                           *)
(***************************************************************************)
Total(f, S) == MapThenSumSet(LAMBDA x : f[x], S)
Pick(s) == CHOOSE x \in s : TRUE
SumUp(f, g, s) == IF s = {} THEN 0 ELSE f[Pick(s)] + g[s \ {Pick(s)}]
Sums(f, D, g) == g \in [D -> Int] /\ \A s \in D : g[s] = SumUp(f, g, s)
Upto(S, n) == {s \in SUBSET S : Cardinality(s) <= n}

LEMMA Picked == ASSUME NEW s, s # {} PROVE Pick(s) \in s
  BY DEF Pick

LEMMA TotalIsSum ==
  ASSUME NEW f, NEW S
  PROVE  Total(f, S) = (CHOOSE g : g = [s \in SUBSET S |-> SumUp(f, g, s)])[S]
  BY DEF Total, MapThenSumSet, MapThenFoldSet, SumUp, Pick

LEMMA NatSetInduction == ASSUME NEW T, 0 \in T, \A n \in T \cap Nat : n + 1 \in T PROVE Nat \subseteq T
<1> SUFFICES ASSUME Nat \ T # {} PROVE FALSE
  OBVIOUS
<1>1. PICK n \in Nat \ T : \A m \in Nat \ T : <<m, n>> \notin OpToRel(<, Nat)
  BY WFMin, NatLessThanWellFounded
<1>2. \A m \in Nat \ T : ~ (m < n)
  BY <1>1 DEF OpToRel
<1>3. n # 0 /\ n - 1 \in Nat
  OBVIOUS
<1> QED
  BY <1>2, <1>3

\* What holds of the empty set, and of every set if it holds without the element
\* picked from it, holds of all subsets.
LEMMA PickInduction ==
  ASSUME NEW S, IsFiniteSet(S), NEW T, {} \in T,
         \A s \in SUBSET S : s # {} /\ s \ {Pick(s)} \in T => s \in T
  PROVE  SUBSET S \subseteq T
<1> SUFFICES ASSUME (SUBSET S) \ T # {} PROVE FALSE
  OBVIOUS
<1>1. IsWellFoundedOn(StrictSubsetOrdering(S), SUBSET S)
  BY FS_StrictSubsetOrderingWellFounded, FS_FiniteSubsetsOfFinite
<1> DEFINE Bad == (SUBSET S) \ T
<1>2. PICK s \in Bad : \A t \in Bad : <<t, s>> \notin StrictSubsetOrdering(S)
  <2>1. Bad \subseteq SUBSET S /\ Bad # {}
    OBVIOUS
  <2> HIDE DEF Bad
  <2> QED
    BY <1>1, <2>1, WFMin
<1>3. s # {} /\ Pick(s) \in s
  BY Picked
<1>4. <<s \ {Pick(s)}, s>> \in StrictSubsetOrdering(S)
  BY <1>3 DEF StrictSubsetOrdering
<1> QED
  BY <1>2, <1>3, <1>4

\* The recursion has a solution: it is built up for the subsets of at most n elements.
LEMMA SumsExist ==
  ASSUME NEW S, IsFiniteSet(S), NEW f, \A x \in S : f[x] \in Int
  PROVE  \E g : Sums(f, SUBSET S, g)
<1> DEFINE T == {n \in Nat : \E g : Sums(f, Upto(S, n), g)}
<1>0. \A s \in SUBSET S : IsFiniteSet(s) /\ Cardinality(s) \in Nat /\ Cardinality(s) <= Cardinality(S)
  BY FS_Subset, FS_CardinalityType
<1>1. 0 \in T
  <2>1. \A s \in Upto(S, 0) : s = {}
    BY <1>0, FS_EmptySet DEF Upto
  <2>2. Sums(f, Upto(S, 0), [s \in Upto(S, 0) |-> 0])
    BY <2>1 DEF Sums, SumUp
  <2> QED
    BY <2>2
<1>2. ASSUME NEW n \in T \cap Nat PROVE n + 1 \in T
  <2>1. PICK g : Sums(f, Upto(S, n), g)
    OBVIOUS
  <2> DEFINE h == [s \in Upto(S, n + 1) |-> SumUp(f, g, s)]
  <2>2. ASSUME NEW s \in Upto(S, n + 1), s # {}
        PROVE  Pick(s) \in S /\ s \ {Pick(s)} \in Upto(S, n)
    <3>1. Pick(s) \in s /\ s \in SUBSET S /\ IsFiniteSet(s)
      BY <2>2, <1>0, Picked DEF Upto
    <3>2. Cardinality(s \ {Pick(s)}) = Cardinality(s) - 1
      BY <3>1, FS_RemoveElement
    <3>3. Cardinality(s) \in Nat /\ Cardinality(s) <= n + 1
      BY <3>1, <1>0 DEF Upto
    <3> QED
      BY <3>1, <3>2, <3>3 DEF Upto
  <2>3. \A s \in Upto(S, n) : h[s] = g[s]
    <3>1. \A s \in Upto(S, n) : s \in Upto(S, n + 1) /\ g[s] = SumUp(f, g, s)
      BY <2>1, <1>0 DEF Sums, Upto
    <3> QED
      BY <3>1
  <2>4. ASSUME NEW s \in Upto(S, n + 1)
        PROVE  h[s] \in Int /\ h[s] = SumUp(f, h, s)
    <3>1. CASE s = {}
      BY <3>1 DEF SumUp
    <3>2. CASE s # {}
      <4>1. h[s] = f[Pick(s)] + g[s \ {Pick(s)}] /\ SumUp(f, h, s) = f[Pick(s)] + h[s \ {Pick(s)}]
        BY <3>2 DEF SumUp
      <4>2. f[Pick(s)] \in Int /\ g[s \ {Pick(s)}] \in Int /\ h[s \ {Pick(s)}] = g[s \ {Pick(s)}]
        BY <3>2, <2>1, <2>2, <2>3 DEF Sums
      <4> HIDE DEF h
      <4> QED
        BY <4>1, <4>2
    <3> QED
      BY <3>1, <3>2
  <2>5. h \in [Upto(S, n + 1) -> Int]
    BY <2>4
  <2> HIDE DEF h
  <2>6. Sums(f, Upto(S, n + 1), h)
    BY <2>4, <2>5 DEF Sums
  <2> QED
    BY <2>6
<1>3. Nat \subseteq T
  <2> HIDE DEF T
  <2> QED
    BY <1>1, <1>2, NatSetInduction
<1>4. Cardinality(S) \in Nat /\ Upto(S, Cardinality(S)) = SUBSET S
  BY <1>0 DEF Upto
<1> QED
  BY <1>3, <1>4

LEMMA TotalUnfolds ==
  ASSUME NEW S, IsFiniteSet(S), NEW f, \A x \in S : f[x] \in Int
  PROVE  \E g : Sums(f, SUBSET S, g) /\ Total(f, S) = g[S]
<1> DEFINE Is(g) == g = [s \in SUBSET S |-> SumUp(f, g, s)]
           i == CHOOSE g : Is(g)
<1>1. \E g : Is(g)
  <2>1. PICK g : Sums(f, SUBSET S, g)
    BY SumsExist
  <2>2. Is(g)
    BY <2>1 DEF Sums
  <2> QED
    BY <2>2
<1>2. Is(i)
  <2> HIDE DEF Is
  <2> QED
    BY <1>1
<1>3. Total(f, S) = i[S]
  BY TotalIsSum
<1> HIDE DEF i
<1>4. /\ i = [s \in SUBSET S |-> i[s]]
      /\ \A s \in SUBSET S : i[s] = SumUp(f, i, s)
  BY <1>2
<1> HIDE DEF Is
<1> DEFINE T == {s \in SUBSET S : i[s] \in Int}
<1>5. {} \in T
  <2>1. i[{}] = SumUp(f, i, {})
    BY <1>4
  <2> QED
    BY <2>1 DEF SumUp
<1>6. ASSUME NEW s \in SUBSET S, s # {}, s \ {Pick(s)} \in T PROVE s \in T
  <2>1. Pick(s) \in S /\ f[Pick(s)] \in Int /\ i[s \ {Pick(s)}] \in Int
    BY <1>6, Picked
  <2>2. i[s] = f[Pick(s)] + i[s \ {Pick(s)}]
    BY <1>4, <1>6 DEF SumUp
  <2> QED
    BY <2>1, <2>2
<1>7. SUBSET S \subseteq T
  <2> HIDE DEF T
  <2> QED
    BY <1>5, <1>6, PickInduction
<1>8. Sums(f, SUBSET S, i)
  BY <1>4, <1>7 DEF Sums
<1> QED
  BY <1>3, <1>8

\* When one summand changes, the sum changes by as much.
LEMMA TotalChanges ==
  ASSUME NEW S, IsFiniteSet(S), NEW f, NEW g, \A y \in S : f[y] \in Int /\ g[y] \in Int,
         NEW x, \A y \in S \ {x} : g[y] = f[y]
  PROVE  /\ Total(f, S) \in Int
         /\ Total(g, S) = Total(f, S) + (IF x \in S THEN g[x] - f[x] ELSE 0)
<1>1. PICK i : Sums(f, SUBSET S, i) /\ Total(f, S) = i[S]
  BY TotalUnfolds
<1>2. PICK j : Sums(g, SUBSET S, j) /\ Total(g, S) = j[S]
  BY TotalUnfolds
<1> DEFINE T == {s \in SUBSET S : j[s] = i[s] + (IF x \in s THEN g[x] - f[x] ELSE 0)}
<1>3. {} \in T
  <2>1. i[{}] = SumUp(f, i, {}) /\ j[{}] = SumUp(g, j, {})
    BY <1>1, <1>2 DEF Sums
  <2> QED
    BY <2>1 DEF SumUp
<1>4. ASSUME NEW s \in SUBSET S, s # {}, s \ {Pick(s)} \in T PROVE s \in T
  <2> DEFINE y == Pick(s)
             t == s \ {y}
  <2>1. y \in s /\ t \in SUBSET S /\ (y # x => g[y] = f[y])
    BY <1>4, Picked
  <2>2. j[t] = i[t] + (IF x \in t THEN g[x] - f[x] ELSE 0)
    BY <1>4
  <2>3. /\ i[s] = f[y] + i[t] /\ j[s] = g[y] + j[t]
        /\ f[y] \in Int /\ g[y] \in Int /\ i[t] \in Int /\ j[t] \in Int /\ i[s] \in Int
    BY <1>1, <1>2, <1>4, <2>1 DEF SumUp, Sums
  <2>4. x \in s => f[x] \in Int /\ g[x] \in Int
    OBVIOUS
  <2>5. x \in t <=> x \in s /\ x # y
    OBVIOUS
  <2> HIDE DEF y, t
  <2>6. j[s] = i[s] + (IF x \in s THEN g[x] - f[x] ELSE 0)
    <3>1. CASE x \notin s
      BY <3>1, <2>1, <2>2, <2>3, <2>5
    <3>2. CASE x \in s /\ x = y
      BY <3>2, <2>2, <2>3, <2>4, <2>5
    <3>3. CASE x \in s /\ x # y
      BY <3>3, <2>1, <2>2, <2>3, <2>4, <2>5
    <3> QED
      BY <3>1, <3>2, <3>3
  <2> QED
    BY <2>6
<1>5. SUBSET S \subseteq T
  <2> HIDE DEF T
  <2> QED
    BY <1>3, <1>4, PickInduction
<1>6. S \in SUBSET S /\ S \in T /\ i[S] \in Int
  BY <1>1, <1>5 DEF Sums
<1> QED
  BY <1>1, <1>2, <1>6

LEMMA TotalOfNothing ==
  ASSUME NEW S, IsFiniteSet(S), NEW f, \A x \in S : f[x] = 0
  PROVE  Total(f, S) = 0
<1>1. PICK i : Sums(f, SUBSET S, i) /\ Total(f, S) = i[S]
  <2>1. \A x \in S : f[x] \in Int
    OBVIOUS
  <2> QED
    BY <2>1, TotalUnfolds
<1> DEFINE T == {s \in SUBSET S : i[s] = 0}
<1>2. {} \in T
  BY <1>1 DEF Sums, SumUp
<1>3. ASSUME NEW s \in SUBSET S, s # {}, s \ {Pick(s)} \in T PROVE s \in T
  <2>1. f[Pick(s)] = 0 /\ i[s \ {Pick(s)}] = 0
    BY <1>3, Picked
  <2>2. i[s] = f[Pick(s)] + i[s \ {Pick(s)}]
    BY <1>1, <1>3 DEF Sums, SumUp
  <2> QED
    BY <2>1, <2>2
<1>4. SUBSET S \subseteq T
  <2> HIDE DEF T
  <2> QED
    BY <1>2, <1>3, PickInduction
<1> QED
  BY <1>1, <1>4

-----------------------------------------------------------------------------
(***************************************************************************)
(* NoMintedBalance, under no assumption about the instances, the API or    *)
(* the clock.  It is kept because what a run has read and not written back *)
(* yet is no more than what is owed by then (ReadInv): whatever the other  *)
(* runs write in between, what is owed only grows.                         *)
(***************************************************************************)
ReadInv == \A r \in Runs : pc[r] = "write" => read[r] <= Owed(Owner[tx[r]])

BalanceInv ==
  /\ TypeOK
  /\ ReadInv
  /\ NoMintedBalance

\* A step that writes no balance: what a run holds to write, it has read now or before.
KeepsBalances ==
  /\ UNCHANGED <<balance, credited>>
  /\ \A r \in Runs : pc'[r] = "write" =>
       /\ tx'[r] = tx[r]
       /\ \/ pc[r] = "write" /\ read'[r] = read[r]
          \/ read'[r] = balance[Owner[tx[r]]]

Of(u) == {t \in Txs : Owner[t] = u}

LEMMA OwedIsTotal ==
  ASSUME NEW u
  PROVE  /\ IsFiniteSet(Of(u))
         /\ Owed(u) = Total(credited, Of(u))
         /\ Owed(u)' = Total(credited', Of(u))
<1>1. IsFiniteSet(Of(u))
  BY FS_Subset, ConstantsAssumption DEF Of
<1>2. Owed(u) = Total(credited, Of(u))
  BY DEF Owed, Total, Of
<1>3. Owed(u)' = Total(credited', Of(u))
  BY DEF Owed, Total, Of, MapThenSumSet, MapThenFoldSet
<1> QED
  BY <1>1, <1>2, <1>3

LEMMA OwedIsNumber == ASSUME TypeOK, NEW u PROVE Owed(u) \in Int
<1>1. \A t \in Of(u) : credited[t] \in Int
  BY DEF TypeOK, Of
<1>2. \A t \in Of(u) \ {u} : credited[t] = credited[t]
  OBVIOUS
<1>3. Total(credited, Of(u)) \in Int
  BY <1>1, <1>2, OwedIsTotal, TotalChanges
<1> QED
  BY <1>3, OwedIsTotal

\* One more update on behalf of a transaction: its owner is owed one more unit.
LEMMA OwedGrows ==
  ASSUME TypeOK, NEW t \in Txs, credited' = [credited EXCEPT ![t] = @ + 1], NEW u
  PROVE  Owed(u)' = Owed(u) + (IF Owner[t] = u THEN 1 ELSE 0)
<1>1. PICK g : g = credited'
  OBVIOUS
<1>2. /\ \A q \in Of(u) : credited[q] \in Int /\ g[q] \in Int
      /\ \A q \in Of(u) \ {t} : g[q] = credited[q]
      /\ g[t] - credited[t] = 1
      /\ t \in Of(u) <=> Owner[t] = u
  BY <1>1 DEF TypeOK, Of
<1>3. Total(g, Of(u)) = Total(credited, Of(u)) + (IF t \in Of(u) THEN g[t] - credited[t] ELSE 0)
  BY <1>2, OwedIsTotal, TotalChanges
<1>4. Owed(u)' = Total(g, Of(u))
  BY <1>1, OwedIsTotal
<1> QED
  BY <1>2, <1>3, <1>4, OwedIsTotal

LEMMA BalanceInit == Init => BalanceInv
<1> SUFFICES ASSUME Init PROVE BalanceInv
  OBVIOUS
<1>1. TypeOK
  BY TypeInit
<1>2. ReadInv
  BY DEF Init, ReadInv
<1>3. ASSUME NEW u \in Users PROVE balance[u] <= Owed(u)
  <2>1. \A t \in Of(u) : credited[t] = 0
    BY DEF Init, Of
  <2>2. Owed(u) = 0
    BY <2>1, OwedIsTotal, TotalOfNothing
  <2> QED
    BY <2>2 DEF Init
<1> QED
  BY <1>1, <1>2, <1>3 DEF BalanceInv, NoMintedBalance

LEMMA BalanceStep == BalanceInv /\ [Next]_vars => BalanceInv'
<1> SUFFICES ASSUME BalanceInv, [Next]_vars PROVE BalanceInv'
  OBVIOUS
<1>0. TypeOK /\ TypeOK'
  BY TypeStep DEF BalanceInv
<1> USE <1>0
<1>1. ASSUME NEW t \in Txs, Api(t) PROVE KeepsBalances
  <2>1. CASE ApiCreate(t)
    BY <2>1 DEF ApiCreate, KeepsBalances, runVars
  <2>2. CASE ApiSaveHash(t) \/ ApiSaveFailed(t) \/ ApiCategorize(t)
    BY <2>2, ApiSaves DEF ApiSave, KeepsBalances, runVars
  <2>3. CASE Settle(t)
    BY <2>3 DEF Settle, KeepsBalances, runVars
  <2> QED
    BY <1>1, <2>1, <2>2, <2>3 DEF Api
<1>2. ASSUME NEW r \in Runs, ClaimPending(r) PROVE KeepsBalances
  BY <1>2 DEF ClaimPending, KeepsBalances, TypeOK
<1>3. ASSUME NEW r \in Runs, FindClaimed(r) \/ FindFailed(r) PROVE KeepsBalances
  <2>1. PICK batch : StartBatch(r, batch)
    BY <1>3 DEF FindClaimed, FindFailed
  <2> QED
    BY <2>1 DEF StartBatch, KeepsBalances, TypeOK
<1>4. ASSUME NEW r \in Runs, ReconcileNext(r) PROVE KeepsBalances
  BY <1>4 DEF ReconcileNext, KeepsBalances, TypeOK
<1>5. ASSUME NEW r \in Runs, NEW t \in Txs, ClaimForRetry(r, t) PROVE KeepsBalances
  BY <1>5 DEF ClaimForRetry, KeepsBalances, TypeOK
<1>6. ASSUME NEW r \in Runs, NEW t \in Txs, SkipUnclaimed(r, t) PROVE KeepsBalances
  BY <1>6 DEF SkipUnclaimed, AfterRow, KeepsBalances, TypeOK
<1>7. ASSUME NEW r \in Runs, Verify(r) PROVE KeepsBalances
  <2>1. \A answer \in Answers(tx[r]) : AfterAnswer(r, answer) # "write"
    BY DEF Answers, AfterAnswer, TypeOK, ChainStates
  <2> QED
    BY <1>7, <2>1 DEF Verify, KeepsBalances, TypeOK
<1>8. ASSUME NEW r \in Runs, Rescue(r) \/ SaveSuccess(r) \/ SaveFailed(r) PROVE KeepsBalances
  <2>1. PICK s, next : SaveEntity(r, s, next) /\ next \in {"success", "read", "clear"}
    <3>1. CASE Rescue(r)
      BY <3>1 DEF Rescue
    <3>2. CASE SaveSuccess(r)
      BY <3>2 DEF SaveSuccess
    <3>3. CASE SaveFailed(r)
      BY <3>3 DEF SaveFailed
    <3> QED
      BY <1>8, <3>1, <3>2, <3>3
  <2> QED
    BY <2>1 DEF SaveEntity, KeepsBalances, TypeOK
<1>9. ASSUME NEW r \in Runs, ReadBalance(r) PROVE KeepsBalances
  BY <1>9 DEF ReadBalance, KeepsBalances, TypeOK
<1>10. ASSUME NEW r \in Runs, ClearLock(r) PROVE KeepsBalances
  BY <1>10 DEF ClearLock, AfterRow, KeepsBalances, TypeOK
<1>11. ASSUME NEW r \in Runs, DbError(r) PROVE KeepsBalances
  BY <1>11 DEF DbError, AfterError, KeepsBalances, TypeOK
<1>12. ASSUME NEW i \in Instances, Crash(i) PROVE KeepsBalances
  BY <1>12 DEF Crash, KeepsBalances
<1>13. ASSUME Tick \/ UNCHANGED vars PROVE KeepsBalances
  BY <1>13 DEF Tick, vars, KeepsBalances
<1>14. ASSUME KeepsBalances PROVE BalanceInv'
  <2>1. \A u : Owed(u)' = Owed(u)
    BY <1>14, OwedIsTotal DEF KeepsBalances
  <2>2. ReadInv'
    <3>1. \A r \in Runs : Owner[tx[r]] \in Users
      BY ConstantsAssumption DEF TypeOK
    <3> QED
      BY <1>14, <2>1, <3>1 DEF KeepsBalances, ReadInv, BalanceInv, NoMintedBalance
  <2>3. NoMintedBalance'
    BY <1>14, <2>1 DEF KeepsBalances, NoMintedBalance, BalanceInv
  <2> QED
    BY <2>2, <2>3 DEF BalanceInv
<1>15. ASSUME NEW r \in Runs, WriteBalance(r) PROVE BalanceInv'
  <2> DEFINE t == tx[r]
  <2>1. /\ t \in Txs /\ Owner[t] \in Users
        /\ read[r] <= Owed(Owner[t]) /\ read[r] \in Nat
    BY <1>15, ConstantsAssumption DEF WriteBalance, TypeOK, BalanceInv, ReadInv
  <2>2. /\ credited' = [credited EXCEPT ![t] = @ + 1]
        /\ balance'[Owner[t]] = read[r] + 1
        /\ \A u \in Users \ {Owner[t]} : balance'[u] = balance[u]
        /\ tx' = tx
        /\ \A s \in Runs : pc'[s] = "write" => pc[s] = "write" /\ read'[s] = read[s]
    BY <1>15, <2>1 DEF WriteBalance, Increased, TypeOK
  <2> HIDE DEF t
  <2>3. ASSUME NEW u PROVE Owed(u) \in Int /\ Owed(u)' = Owed(u) + (IF Owner[t] = u THEN 1 ELSE 0)
    BY <2>1, <2>2, OwedGrows, OwedIsNumber
  <2>4. ASSUME NEW s \in Runs, pc'[s] = "write" PROVE read'[s] <= Owed(Owner[tx[s]])'
    <3>1. PICK u : u = Owner[tx[s]] /\ u = Owner[tx'[s]]
      BY <2>2
    <3>2. read[s] <= Owed(u) /\ read'[s] = read[s] /\ read[s] \in Nat
      BY <2>2, <2>4, <3>1 DEF ReadInv, BalanceInv, TypeOK
    <3>3. Owed(u) \in Int /\ Owed(u)' = Owed(u) + (IF Owner[t] = u THEN 1 ELSE 0)
      BY <2>3
    <3>4. read'[s] <= Owed(u)'
      BY <3>2, <3>3
    <3>5. Owed(Owner[tx[s]])' = Owed(u)'
      BY <3>1, OwedIsTotal
    <3> QED
      BY <3>4, <3>5
  <2>5. ASSUME NEW u \in Users PROVE balance'[u] <= Owed(u)'
    <3>1. balance[u] <= Owed(u) /\ balance[u] \in Nat
      BY DEF NoMintedBalance, BalanceInv, TypeOK
    <3>2. Owed(u) \in Int /\ Owed(u)' = Owed(u) + (IF Owner[t] = u THEN 1 ELSE 0)
      BY <2>3
    <3>3. CASE u = Owner[t]
      BY <2>1, <2>2, <3>2, <3>3
    <3>4. CASE u # Owner[t]
      BY <2>2, <3>1, <3>2, <3>4
    <3> QED
      BY <3>3, <3>4
  <2> QED
    BY <2>4, <2>5 DEF BalanceInv, ReadInv, NoMintedBalance
<1> QED
  BY <1>1, <1>2, <1>3, <1>4, <1>5, <1>6, <1>7, <1>8, <1>9, <1>10, <1>11, <1>12, <1>13,
     <1>14, <1>15 DEF Next, Work

\* The jobs never leave a user with more than was credited to him, however their
\* reads and writes of a balance overlap and whatever hits them in between.
THEOREM BalancesAreNotMinted == Spec => []NoMintedBalance
<1>1. BalanceInv => NoMintedBalance
  BY DEF BalanceInv
<1> QED
  BY <1>1, BalanceInit, BalanceStep, PTL DEF Spec

=============================================================================

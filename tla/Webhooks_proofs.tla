--------------------------- MODULE Webhooks_proofs ---------------------------
(***************************************************************************)
(* Proofs about Webhooks, for any number of deliveries, workers, calls and *)
(* failures: whoever overwrites it with whichever copy, the history of an  *)
(* endpoint is never better than what happened; one worker attempts a      *)
(* delivery at most MAX_ATTEMPTS times for each cause; and a delivery is   *)
(* forgotten only after a failure, or a save that another one upset.       *)
(***************************************************************************)
EXTENDS Webhooks, FiniteSetsExt, FiniteSetTheorems, TLAPS

LEMMA NowIsADelay == Now \in Delays
<1>1. \A S : Now \in {Now} \cup S
  OBVIOUS
<1> QED
  BY <1>1, Zenon DEF Delays

LEMMA NoWorkType == NoWork \in Jobs /\ NewRow \in Rows
<1>1. PICK d \in Deliveries : d = CHOOSE x \in Deliveries : TRUE
  BY WebhooksAssumption
<1> QED
  BY <1>1, NowIsADelay DEF NoWork, Named, Jobs, NewRow, Rows

LEMMA JobDelivery == \A j \in Jobs : j.delivery \in Deliveries
  BY DEF Jobs

\* An UPDATE leaves a row whose columns are those of the copy or of the row.
LEMMA UpdatedType ==
  ASSUME NEW x \in Rows, NEW old \in Rows, NEW y \in Rows, NEW z \in Updated(x, old, y)
  PROVE  /\ z \in Rows
         /\ z.attemptCount \in {x.attemptCount, y.attemptCount}
         /\ z.deliveredAt => x.deliveredAt \/ y.deliveredAt
<1>1. PICK date \in IF x.deliveredAt = old.deliveredAt
                      THEN {y.deliveredAt, y.deliveredAt \/ x.deliveredAt}
                      ELSE {x.deliveredAt} :
        z = [attemptCount |-> IF x.attemptCount = old.attemptCount THEN y.attemptCount ELSE x.attemptCount,
             nextRetryAt |-> x.nextRetryAt \/ (y.nextRetryAt /\ ~old.nextRetryAt),
             deliveredAt |-> date]
  BY DEF Updated
<1>2. date \in BOOLEAN /\ (date => x.deliveredAt \/ y.deliveredAt)
  BY <1>1 DEF Rows
<1> QED
  BY <1>1, <1>2 DEF Rows

\* What the ends of processes and the additions of jobs do to the types.
LEMMA LeaveType ==
  ASSUME TypeOK, NEW p \in Processes, Leave(p)
  PROVE  /\ pc' \in [Processes -> Steps]
         /\ work' \in [Processes -> Jobs]
         /\ copy' \in [Processes -> Rows]
         /\ seen' \in [Processes -> Rows]
  BY NoWorkType DEF Leave, TypeOK, Steps

LEMMA EnqueueType ==
  ASSUME TypeOK, NEW d \in known, NEW delay, Enqueue(d, delay), known' = known
  PROVE  /\ job' \in [Jobs -> {"none", "ready", "active", "kept"}]
         /\ tries' \in [Jobs -> Nat]
         /\ stalled' \subseteq Jobs
         /\ dropped' \subseteq known'
         /\ faults' \in 0 .. MaxFaults
<1> DEFINE j == Named(d, delay)
<1>1. CASE /\ job' = [job EXCEPT ![j] = IF @ = "none" THEN "ready" ELSE @]
           /\ dropped' = IF job[j] \in {"none", "ready"} THEN dropped \ {d} ELSE dropped
           /\ UNCHANGED <<tries, stalled, faults>>
  <2> HIDE DEF j
  <2> QED
    BY <1>1 DEF TypeOK
<1>2. CASE /\ faults < MaxFaults
           /\ faults' = faults + 1
           /\ dropped' = dropped \cup {d}
           /\ UNCHANGED <<job, tries, stalled>>
  BY <1>2, WebhooksAssumption DEF TypeOK
<1> QED
  BY <1>1, <1>2 DEF Enqueue

\* Whatever is worked on, or has a job, has a row.
WorkIsKnown == \A p \in Processes : pc[p] # "idle" => work[p].delivery \in known
JobsAreKnown == \A j \in Jobs : job[j] # "none" => j.delivery \in known

\* A copy that will be saved says nothing the row may not say.
Honest(x, d) == x.attemptCount <= posts[d] /\ (x.deliveredAt => d \in accepted)
CopiesAreHonest ==
  \A p \in Processes :
    /\ pc[p] = "idle" => copy[p] = NewRow
    /\ pc[p] \in {"post", "save", "update"} => Honest(copy[p], work[p].delivery)
RowsAreHonest == \A d \in Deliveries : Honest(row[d], d)

Known == WorkIsKnown /\ JobsAreKnown
Inv == TypeOK /\ Known /\ CopiesAreHonest /\ RowsAreHonest

LEMMA InvInit == Init => Inv
<1> SUFFICES ASSUME Init PROVE Inv
  OBVIOUS
<1>1. TypeOK
  BY NoWorkType, WebhooksAssumption DEF Init, TypeOK, Steps
<1>2. Known
  BY DEF Init, Known, WorkIsKnown, JobsAreKnown
<1>3. CopiesAreHonest /\ RowsAreHonest
  BY DEF Init, CopiesAreHonest, RowsAreHonest, Honest, NewRow
<1> QED
  BY <1>1, <1>2, <1>3 DEF Inv

LEMMA TypeStep == TypeOK /\ Known /\ [Next]_vars => TypeOK'
<1> SUFFICES ASSUME TypeOK, Known, [Next]_vars PROVE TypeOK'
  OBVIOUS
<1> USE DEF queue, database
<1>1. ASSUME NEW c \in Calls, NEW d \in Deliveries, NEW s \in Steps, Start(c, d, s),
             known' \in SUBSET Deliveries, known \subseteq known',
             redeliveries' \in 0 .. MaxRedeliveries
      PROVE  TypeOK'
  <2>1. Named(d, Now) \in Jobs
    BY NowIsADelay DEF Named, Jobs
  <2>2. c \in Processes
    BY DEF Processes
  <2> QED
    BY <1>1, <2>1, <2>2 DEF Start, TypeOK
<1>2. ASSUME NEW c \in Calls, NEW d \in Deliveries, Api(c, d) PROVE TypeOK'
  <2>1. ASSUME NEW s \in {"add", "post"}, Create(c, d, s) PROVE TypeOK'
    BY <2>1, <1>1 DEF Create, TypeOK, Steps
  <2>2. CASE Redeliver(c, d)
    BY <2>2, <1>1, WebhooksAssumption DEF Redeliver, TypeOK, Steps
  <2> QED
    BY <1>2, <2>1, <2>2 DEF Api
<1>3. ASSUME NEW w \in Workers, NEW j \in Jobs, Take(w, j) PROVE TypeOK'
  BY <1>3 DEF Take, TypeOK, Steps
<1>4. ASSUME NEW j \in Jobs, Stall(j) \/ Remove(j) PROVE TypeOK'
  BY <1>4 DEF Stall, Remove, TypeOK
<1>5. CASE DeleteEndpoint
  BY <1>5 DEF DeleteEndpoint, TypeOK
<1>6. ASSUME NEW k \in Crons, Cron(k) PROVE TypeOK'
  <2>1. ASSUME NEW found \in SUBSET known, FindRetries(k, found) PROVE TypeOK'
    BY <2>1 DEF FindRetries, TypeOK
  <2>2. ASSUME NEW d \in Deliveries, AddRetry(k, d) PROVE TypeOK'
    <3>1. d \in known
      BY <2>2 DEF AddRetry, TypeOK
    <3>2. Enqueue(d, Now) /\ known' = known
      BY <2>2 DEF AddRetry
    <3>3. todo' \in [Crons -> SUBSET known'] /\ retries' \in Nat
      BY <2>2, <3>2 DEF AddRetry, TypeOK
    <3> QED
      BY <2>2, <3>1, <3>2, <3>3, EnqueueType DEF AddRetry, TypeOK
  <2> QED
    BY <1>6, <2>1, <2>2 DEF Cron
<1>7. ASSUME NEW p \in Processes, Load(p) PROVE TypeOK'
  BY <1>7, JobDelivery DEF Load, TypeOK, Steps
<1>8. ASSUME NEW p \in Processes, Post(p) PROVE TypeOK'
  <2>1. PICK ok \in BOOLEAN : /\ accepted' = IF ok THEN accepted \cup {work[p].delivery} ELSE accepted
                              /\ copy' = [copy EXCEPT ![p] = Answered(@, ok)]
    BY <1>8 DEF Post
  <2>2. work[p].delivery \in Deliveries
    BY JobDelivery DEF TypeOK
  <2>3. Answered(copy[p], ok) \in Rows
    BY DEF Answered, Rows, TypeOK
  <2> QED
    BY <1>8, <2>1, <2>2, <2>3 DEF Post, TypeOK, Steps
<1>9. ASSUME NEW p \in Processes, Save(p) \/ Update(p) PROVE TypeOK'
  <2>1. CASE Save(p)
    BY <2>1, JobDelivery DEF Save, TypeOK, Steps
  <2>2. CASE Update(p)
    <3>1. row' \in [Deliveries -> Rows]
      <4>1. PICK x \in Updated(copy[p], seen[p], row[work[p].delivery]) :
               row' = [row EXCEPT ![work[p].delivery] = x]
        BY <2>2 DEF Update
      <4>2. work[p].delivery \in Deliveries
        BY JobDelivery DEF TypeOK
      <4>3. x \in Rows
        BY <4>1, <4>2, UpdatedType DEF TypeOK
      <4> QED
        BY <4>1, <4>3 DEF TypeOK
    <3>2. CASE p \in Workers
      BY <2>2, <3>1, <3>2, NoWorkType DEF Update, TypeOK, Steps
    <3>3. CASE p \notin Workers
      BY <2>2, <3>1, <3>3, LeaveType DEF Update, TypeOK
    <3> QED
      BY <3>2, <3>3
  <2> QED
    BY <1>9, <2>1, <2>2
<1>10. ASSUME NEW p \in Processes, Add(p) PROVE TypeOK'
  <2>1. work[p].delivery \in known
    BY <1>10 DEF Add, Known, WorkIsKnown
  <2>2. known' = known
    BY <1>10 DEF Add
  <2>3. CASE p \in Workers
    <3>1. PICK delay \in DelaysAfter(copy[p].attemptCount) : Enqueue(work[p].delivery, delay)
      BY <1>10, <2>3 DEF Add
    <3>2. /\ pc' = [pc EXCEPT ![p] = "done"]
          /\ copy' = [copy EXCEPT ![p] = NewRow]
          /\ UNCHANGED <<work, seen>>
      BY <1>10, <2>3 DEF Add
    <3> QED
      BY <1>10, <2>1, <2>2, <3>1, <3>2, EnqueueType, NoWorkType DEF Add, TypeOK, Steps
  <2>4. CASE p \notin Workers
    <3>1. Enqueue(work[p].delivery, Now) /\ Leave(p)
      BY <1>10, <2>4 DEF Add
    <3> QED
      BY <1>10, <2>1, <2>2, <3>1, EnqueueType, LeaveType DEF Add, TypeOK
  <2> QED
    BY <2>3, <2>4
<1>11. ASSUME NEW p \in Processes, Complete(p) PROVE TypeOK'
  BY <1>11, LeaveType DEF Complete, TypeOK
<1>12. ASSUME NEW p \in Processes, Throw(p) PROVE TypeOK'
  <2>1. faults' \in 0 .. MaxFaults
    BY <1>12, WebhooksAssumption DEF Throw, TypeOK
  <2>2. /\ job' \in [Jobs -> {"none", "ready", "active", "kept"}]
        /\ tries' \in [Jobs -> Nat]
    BY <1>12 DEF Throw, TypeOK
  <2> QED
    BY <1>12, <2>1, <2>2, LeaveType DEF Throw, TypeOK
<1>13. ASSUME NEW p \in Processes, Crash(p) PROVE TypeOK'
  BY <1>13, LeaveType, WebhooksAssumption DEF Crash, TypeOK
<1>14. CASE UNCHANGED vars
  BY <1>14 DEF vars, TypeOK
<1> QED
  BY <1>2, <1>3, <1>4, <1>5, <1>6, <1>7, <1>8, <1>9, <1>10, <1>11, <1>12, <1>13, <1>14 DEF Next, Step

\* Nothing that is known, or has happened, is forgotten.
LEMMA OnlyMore ==
  ASSUME TypeOK, [Next]_vars
  PROVE  /\ known \subseteq known'
         /\ accepted \subseteq accepted'
         /\ \A d \in Deliveries : posts[d] <= posts'[d]
<1> USE DEF queue, database
<1>1. CASE UNCHANGED vars
  BY <1>1 DEF vars, TypeOK
<1>2. ASSUME NEW c \in Calls, NEW d \in Deliveries, Api(c, d)
      PROVE  known \subseteq known' /\ UNCHANGED <<posts, accepted>>
  BY <1>2 DEF Api, Create, Redeliver, Start
<1>3. ASSUME NEW w \in Workers, NEW j \in Jobs, Take(w, j) PROVE UNCHANGED <<known, posts, accepted>>
  BY <1>3 DEF Take
<1>4. ASSUME NEW j \in Jobs, Stall(j) \/ Remove(j) PROVE UNCHANGED <<known, posts, accepted>>
  BY <1>4 DEF Stall, Remove
<1>5. ASSUME NEW k \in Crons, Cron(k) PROVE UNCHANGED <<known, posts, accepted>>
  BY <1>5 DEF Cron, FindRetries, AddRetry
<1>6. CASE DeleteEndpoint
  BY <1>6 DEF DeleteEndpoint, TypeOK
<1>7. ASSUME NEW p \in Processes, Post(p)
      PROVE  /\ known \subseteq known' /\ accepted \subseteq accepted'
             /\ \A d \in Deliveries : posts[d] <= posts'[d]
  BY <1>7 DEF Post, TypeOK
<1>8. ASSUME NEW p \in Processes, Load(p) \/ Save(p) \/ Update(p) \/ Add(p) \/ Complete(p) \/ Throw(p) \/ Crash(p)
      PROVE  UNCHANGED <<known, posts, accepted>>
  BY <1>8 DEF Load, Save, Update, Add, Complete, Throw, Crash
<1> QED
  BY <1>1, <1>2, <1>3, <1>4, <1>5, <1>6, <1>7, <1>8 DEF Next, Step, TypeOK

LEMMA EnqueueKnown ==
  ASSUME TypeOK, JobsAreKnown, NEW d \in known, NEW delay, Enqueue(d, delay), known' = known
  PROVE  JobsAreKnown'
<1> DEFINE j == Named(d, delay)
<1>1. j.delivery = d
  BY DEF Named
<1> HIDE DEF j
<1>2. \A i \in Jobs : i # j => job'[i] = job[i]
  BY DEF Enqueue, TypeOK, j
<1> QED
  BY <1>1, <1>2 DEF JobsAreKnown

LEMMA KnownStep == Inv /\ [Next]_vars => Known'
<1> SUFFICES ASSUME Inv, [Next]_vars PROVE WorkIsKnown' /\ JobsAreKnown'
  BY DEF Known
<1> USE DEF queue, database
<1>0. TypeOK /\ WorkIsKnown /\ JobsAreKnown /\ known \subseteq known'
  BY OnlyMore DEF Inv, Known
<1>a. job' = job => JobsAreKnown'
  BY <1>0 DEF JobsAreKnown
<1>b. UNCHANGED <<pc, work>> => WorkIsKnown'
  BY <1>0 DEF WorkIsKnown
<1>c. ASSUME NEW p \in Processes, Leave(p) PROVE WorkIsKnown'
  BY <1>0, <1>c DEF Leave, WorkIsKnown, TypeOK
<1>d. ASSUME NEW p \in Processes, pc[p] # "idle", work' = work, NEW s, pc' = [pc EXCEPT ![p] = s]
      PROVE  WorkIsKnown'
  BY <1>0, <1>d DEF WorkIsKnown, TypeOK
<1>e. ASSUME NEW j, \A i \in Jobs : i # j => job'[i] = job[i], j \in Jobs => job[j] # "none"
      PROVE  JobsAreKnown'
  BY <1>0, <1>e DEF JobsAreKnown
<1>1. ASSUME NEW c \in Calls, NEW d \in Deliveries, Api(c, d) PROVE WorkIsKnown' /\ JobsAreKnown'
  <2>1. PICK s \in {"add", "post", "load"} : Start(c, d, s) /\ d \in known'
    BY <1>1 DEF Api, Create, Redeliver
  <2>2. Named(d, Now).delivery = d
    BY DEF Named
  <2>3. WorkIsKnown'
    BY <1>0, <2>1, <2>2 DEF Start, WorkIsKnown, TypeOK, Processes
  <2> QED
    BY <2>1, <2>3, <1>a DEF Start
<1>2. ASSUME NEW w \in Workers, NEW j \in Jobs, Take(w, j) PROVE WorkIsKnown' /\ JobsAreKnown'
  <2>1. j.delivery \in known /\ known' = known
    BY <1>0, <1>2 DEF Take, JobsAreKnown
  <2>2. WorkIsKnown'
    BY <1>0, <1>2, <2>1 DEF Take, WorkIsKnown, TypeOK, Processes
  <2>3. JobsAreKnown'
    BY <1>0, <1>2, <1>e DEF Take, TypeOK
  <2> QED
    BY <2>2, <2>3
<1>3. ASSUME NEW j \in Jobs, Stall(j) \/ Remove(j) PROVE WorkIsKnown' /\ JobsAreKnown'
  BY <1>0, <1>3, <1>b, <1>e DEF Stall, Remove, TypeOK
<1>4. CASE DeleteEndpoint
  BY <1>4, <1>a, <1>b DEF DeleteEndpoint
<1>5. ASSUME NEW k \in Crons, Cron(k) PROVE WorkIsKnown' /\ JobsAreKnown'
  <2>1. ASSUME NEW found \in SUBSET known, FindRetries(k, found) PROVE WorkIsKnown' /\ JobsAreKnown'
    BY <2>1, <1>a, <1>b DEF FindRetries
  <2>2. ASSUME NEW d \in Deliveries, AddRetry(k, d) PROVE WorkIsKnown' /\ JobsAreKnown'
    <3>1. d \in known
      BY <1>0, <2>2 DEF AddRetry, TypeOK
    <3>2. Enqueue(d, Now) /\ UNCHANGED <<known, pc, work>>
      BY <2>2 DEF AddRetry
    <3> QED
      BY <1>0, <1>b, <3>1, <3>2, EnqueueKnown
  <2> QED
    BY <1>5, <2>1, <2>2 DEF Cron
<1>6. ASSUME NEW p \in Processes, Load(p) PROVE WorkIsKnown' /\ JobsAreKnown'
  BY <1>6, <1>a, <1>d DEF Load
<1>7. ASSUME NEW p \in Processes, Post(p) PROVE WorkIsKnown' /\ JobsAreKnown'
  BY <1>7, <1>a, <1>d DEF Post
<1>8. ASSUME NEW p \in Processes, Save(p) \/ Update(p) PROVE WorkIsKnown' /\ JobsAreKnown'
  BY <1>8, <1>a, <1>c, <1>d DEF Save, Update
<1>9. ASSUME NEW p \in Processes, Add(p) PROVE WorkIsKnown' /\ JobsAreKnown'
  <2>1. work[p].delivery \in known /\ known' = known
    BY <1>0, <1>9 DEF Add, WorkIsKnown
  <2>2. PICK delay : Enqueue(work[p].delivery, delay)
    BY <1>9 DEF Add
  <2>3. WorkIsKnown'
    BY <1>9, <1>c, <1>d DEF Add
  <2> QED
    BY <1>0, <2>1, <2>2, <2>3, EnqueueKnown
<1>10. ASSUME NEW p \in Processes, Complete(p) \/ Throw(p) \/ Crash(p) PROVE WorkIsKnown' /\ JobsAreKnown'
  <2>1. WorkIsKnown'
    BY <1>10, <1>c DEF Complete, Throw, Crash
  <2>2. pc[p] # "idle" /\ work[p] \in Jobs /\ known' = known
    BY <1>0, <1>10 DEF Complete, Throw, Crash, TypeOK
  <2>3. work[p].delivery \in known' /\ \A i \in Jobs : i # work[p] => job'[i] = job[i]
    BY <1>0, <1>10, <2>2 DEF Complete, Throw, Crash, TypeOK, WorkIsKnown
  <2> QED
    BY <1>0, <2>1, <2>2, <2>3 DEF JobsAreKnown
<1>11. CASE UNCHANGED vars
  BY <1>11, <1>a, <1>b DEF vars
<1> QED
  BY <1>1, <1>2, <1>3, <1>4, <1>5, <1>6, <1>7, <1>8, <1>9, <1>10, <1>11 DEF Next, Step

LEMMA HonestStep == Inv /\ [Next]_vars => CopiesAreHonest' /\ RowsAreHonest'
<1> SUFFICES ASSUME Inv, [Next]_vars PROVE CopiesAreHonest' /\ RowsAreHonest'
  OBVIOUS
<1> USE DEF queue, database
<1>0. TypeOK /\ CopiesAreHonest /\ RowsAreHonest /\ TypeOK'
  BY TypeStep DEF Inv
<1>1. \A p \in Processes : work[p].delivery \in Deliveries
  BY <1>0, JobDelivery DEF TypeOK
\* What was honest still is.
<1>2. \A x \in Rows, d \in Deliveries : Honest(x, d) => Honest(x, d)'
  BY <1>0, OnlyMore DEF Honest, TypeOK, Rows
<1>a. row' = row => RowsAreHonest'
  BY <1>0, <1>2 DEF RowsAreHonest, TypeOK
<1>b. \A p \in Processes :
        /\ UNCHANGED <<pc[p], work[p], copy[p]>>
        => /\ pc'[p] = "idle" => copy'[p] = NewRow
           /\ pc'[p] \in {"post", "save", "update"} => Honest(copy[p], work[p].delivery)'
  BY <1>0, <1>1, <1>2 DEF CopiesAreHonest, TypeOK
<1>c. \A d \in Deliveries : Honest(NewRow, d)'
  BY <1>0 DEF Honest, TypeOK, NewRow, Rows
\* Only p has moved.
<1>d. ASSUME NEW p \in Processes,
             \A q \in Processes \ {p} : UNCHANGED <<pc[q], work[q], copy[q]>>,
             pc'[p] = "idle" => copy'[p] = NewRow,
             pc'[p] \in {"post", "save", "update"} => Honest(copy[p], work[p].delivery)'
      PROVE  CopiesAreHonest'
  BY <1>b, <1>d DEF CopiesAreHonest
<1>e. UNCHANGED <<pc, work, copy>> => CopiesAreHonest'
  BY <1>b DEF CopiesAreHonest
<1>f. ASSUME NEW p \in Processes, Leave(p) PROVE CopiesAreHonest'
  <2>1. \A q \in Processes \ {p} : UNCHANGED <<pc[q], work[q], copy[q]>>
    BY <1>0, <1>f DEF Leave, TypeOK
  <2>2. pc'[p] = "idle" /\ copy'[p] = NewRow
    BY <1>0, <1>f DEF Leave, TypeOK
  <2> QED
    BY <2>1, <2>2, <1>d
<1>3. ASSUME NEW c \in Calls, NEW d \in Deliveries, Api(c, d) PROVE CopiesAreHonest' /\ RowsAreHonest'
  <2>1. PICK s \in {"add", "post", "load"} : Start(c, d, s)
    BY <1>3 DEF Api, Create, Redeliver
  <2>2. c \in Processes /\ copy[c] = NewRow /\ copy' = copy
    BY <1>0, <2>1 DEF Start, CopiesAreHonest, Processes
  <2>3. \A q \in Processes \ {c} : UNCHANGED <<pc[q], work[q], copy[q]>>
    BY <1>0, <2>1 DEF Start, TypeOK
  <2>4. Honest(copy[c], work[c].delivery)'
    <3>1. work'[c].delivery = d
      BY <1>0, <2>1, <2>2 DEF Start, TypeOK, Named
    <3> QED
      BY <1>c, <2>2, <3>1
  <2>5. pc'[c] # "idle"
    BY <1>0, <2>1, <2>2 DEF Start, TypeOK
  <2> QED
    BY <2>1, <2>2, <2>3, <2>4, <2>5, <1>a, <1>d DEF Start
<1>4. ASSUME NEW w \in Workers, NEW j \in Jobs, Take(w, j) PROVE CopiesAreHonest' /\ RowsAreHonest'
  <2>1. w \in Processes /\ pc'[w] = "load"
    BY <1>0, <1>4 DEF Take, Processes, TypeOK
  <2>2. \A q \in Processes \ {w} : UNCHANGED <<pc[q], work[q], copy[q]>>
    BY <1>0, <1>4 DEF Take, TypeOK
  <2> QED
    BY <1>4, <2>1, <2>2, <1>a, <1>d DEF Take
<1>5. ASSUME NEW j \in Jobs, Stall(j) \/ Remove(j) PROVE CopiesAreHonest' /\ RowsAreHonest'
  BY <1>5, <1>a, <1>e DEF Stall, Remove
<1>6. CASE DeleteEndpoint
  BY <1>6, <1>a, <1>e DEF DeleteEndpoint
<1>7. ASSUME NEW k \in Crons, Cron(k) PROVE CopiesAreHonest' /\ RowsAreHonest'
  BY <1>7, <1>a, <1>e DEF Cron, FindRetries, AddRetry
<1>8. ASSUME NEW p \in Processes, Load(p) PROVE CopiesAreHonest' /\ RowsAreHonest'
  <2>1. \A q \in Processes \ {p} : UNCHANGED <<pc[q], work[q], copy[q]>>
    BY <1>0, <1>8 DEF Load, TypeOK
  <2>2. copy'[p] = row[work[p].delivery] /\ work'[p] = work[p] /\ pc'[p] # "idle"
    BY <1>0, <1>8 DEF Load, TypeOK
  <2>3. Honest(row[work[p].delivery], work[p].delivery)'
    BY <1>0, <1>1, <1>8, <1>a DEF Load, RowsAreHonest
  <2>4. Honest(copy[p], work[p].delivery)'
    BY <1>8, <2>2, <2>3 DEF Load
  <2> QED
    BY <1>8, <2>1, <2>2, <2>4, <1>a, <1>d DEF Load
<1>9. ASSUME NEW p \in Processes, Post(p) PROVE CopiesAreHonest' /\ RowsAreHonest'
  <2> DEFINE d == work[p].delivery
  <2>1. \A q \in Processes \ {p} : UNCHANGED <<pc[q], work[q], copy[q]>>
    BY <1>0, <1>9 DEF Post, TypeOK
  <2>2. d \in Deliveries /\ copy[p] \in Rows /\ Honest(copy[p], d)
    BY <1>0, <1>1, <1>9 DEF Post, TypeOK, CopiesAreHonest
  <2>3. PICK ok \in BOOLEAN : /\ accepted' = IF ok THEN accepted \cup {d} ELSE accepted
                              /\ copy' = [copy EXCEPT ![p] = Answered(@, ok)]
    BY <1>9 DEF Post
  <2>4. copy'[p] = Answered(copy[p], ok) /\ work'[p] = work[p] /\ posts'[d] = posts[d] + 1
    BY <1>0, <1>9, <2>2, <2>3 DEF Post, TypeOK
  <2>5. posts[d] \in Nat
    BY <1>0, <2>2 DEF TypeOK
  <2>6. Honest(copy[p], work[p].delivery)'
    <3>1. copy'[p].attemptCount <= posts'[d]
      BY <2>2, <2>4, <2>5 DEF Answered, Honest, Rows
    <3>2. copy'[p].deliveredAt => d \in accepted'
      BY <2>2, <2>3, <2>4 DEF Answered, Honest
    <3> QED
      BY <2>4, <3>1, <3>2 DEF Honest
  <2>7. pc'[p] = "save"
    BY <1>0, <1>9 DEF Post, TypeOK
  <2> QED
    BY <1>9, <2>1, <2>6, <2>7, <1>a, <1>d DEF Post
<1>10. ASSUME NEW p \in Processes, Save(p) PROVE CopiesAreHonest' /\ RowsAreHonest'
  <2>1. \A q \in Processes \ {p} : UNCHANGED <<pc[q], work[q], copy[q]>>
    BY <1>0, <1>10 DEF Save, TypeOK
  <2>2. pc[p] = "save" /\ pc'[p] = "update" /\ work' = work /\ copy' = copy
    BY <1>0, <1>10 DEF Save, TypeOK
  <2>3. Honest(copy[p], work[p].delivery)'
    BY <1>0, <1>1, <1>2, <2>2 DEF CopiesAreHonest, TypeOK
  <2> QED
    BY <1>10, <2>1, <2>2, <2>3, <1>a, <1>d DEF Save
<1>14. ASSUME NEW p \in Processes, Update(p) PROVE CopiesAreHonest' /\ RowsAreHonest'
  <2> DEFINE d == work[p].delivery
  <2>1. d \in Deliveries /\ Honest(copy[p], d) /\ Honest(row[d], d)
    BY <1>0, <1>1, <1>14 DEF Update, TypeOK, CopiesAreHonest, RowsAreHonest
  <2>2. PICK x \in Updated(copy[p], seen[p], row[d]) : row' = [row EXCEPT ![d] = x]
    BY <1>14 DEF Update
  <2>3. row'[d] = x /\ \A e \in Deliveries \ {d} : row'[e] = row[e]
    BY <1>0, <2>1, <2>2 DEF TypeOK
  <2>4. posts' = posts /\ accepted' = accepted
    BY <1>14 DEF Update
  <2>5. /\ x.attemptCount \in {copy[p].attemptCount, row[d].attemptCount}
        /\ x.deliveredAt => copy[p].deliveredAt \/ row[d].deliveredAt
    <3>1. copy[p] \in Rows /\ seen[p] \in Rows /\ row[d] \in Rows
      BY <1>0, <2>1 DEF TypeOK
    <3> QED
      BY <2>2, <3>1, UpdatedType
  <2>6. RowsAreHonest'
    <3>1. ASSUME NEW e \in Deliveries PROVE Honest(row[e], e)'
      <4>1. CASE e = d
        BY <2>1, <2>3, <2>4, <2>5, <4>1 DEF Honest
      <4>2. CASE e # d
        BY <1>0, <2>3, <2>4, <4>2 DEF Honest, RowsAreHonest
      <4> QED
        BY <4>1, <4>2
    <3> QED
      BY <3>1 DEF RowsAreHonest
  <2>7. CASE p \in Workers
    <3>1. \A q \in Processes \ {p} : UNCHANGED <<pc[q], work[q], copy[q]>>
      BY <1>0, <1>14, <2>7 DEF Update, TypeOK
    <3>2. pc'[p] \in {"add", "done"}
      BY <1>0, <1>14, <2>7 DEF Update, TypeOK
    <3> QED
      BY <2>6, <3>1, <3>2, <1>d
  <2>8. CASE p \notin Workers
    BY <1>14, <2>6, <2>8, <1>f DEF Update
  <2> QED
    BY <2>7, <2>8
<1>11. ASSUME NEW p \in Processes, Add(p) PROVE CopiesAreHonest' /\ RowsAreHonest'
  <2>1. CASE p \in Workers
    <3>1. \A q \in Processes \ {p} : UNCHANGED <<pc[q], work[q], copy[q]>>
      BY <1>0, <1>11, <2>1 DEF Add, TypeOK
    <3>2. pc'[p] = "done"
      BY <1>0, <1>11, <2>1 DEF Add, TypeOK
    <3> QED
      BY <1>11, <3>1, <3>2, <1>a, <1>d DEF Add
  <2>2. CASE p \notin Workers
    BY <1>11, <2>2, <1>a, <1>f DEF Add
  <2> QED
    BY <2>1, <2>2
<1>12. ASSUME NEW p \in Processes, Complete(p) \/ Throw(p) \/ Crash(p)
       PROVE  CopiesAreHonest' /\ RowsAreHonest'
  BY <1>12, <1>a, <1>f DEF Complete, Throw, Crash
<1>13. CASE UNCHANGED vars
  BY <1>13, <1>a, <1>e DEF vars
<1> QED
  BY <1>3, <1>4, <1>5, <1>6, <1>7, <1>8, <1>9, <1>10, <1>11, <1>12, <1>13, <1>14 DEF Next, Step

LEMMA InvStep == Inv /\ [Next]_vars => Inv'
  BY TypeStep, KnownStep, HonestStep DEF Inv

LEMMA InvHolds == Spec => []Inv
  BY InvInit, InvStep, PTL DEF Spec

\* The type invariant, for any numbers of deliveries, workers and calls.
THEOREM TypeCorrect == Spec => []TypeOK
<1>1. Inv => TypeOK
  BY DEF Inv
<1> QED
  BY <1>1, InvHolds, PTL

\* What is marked as delivered was accepted by the endpoint, although jobs and
\* redeliveries save copies of the row over each other.
THEOREM HistoryIsTrue == Spec => []DeliveredIsAccepted
<1>1. Inv => DeliveredIsAccepted
  BY DEF Inv, RowsAreHonest, Honest, DeliveredIsAccepted
<1> QED
  BY <1>1, InvHolds, PTL

\* No row counts an attempt that was not made.
THEOREM CountsAreTrue == Spec => []AttemptsAreMade
<1>1. Inv => AttemptsAreMade
  BY DEF Inv, RowsAreHonest, Honest, AttemptsAreMade
<1> QED
  BY <1>1, InvHolds, PTL

-----------------------------------------------------------------------------
(***************************************************************************)
(* Sums.  The fold of MapThenSumSet is a function defined by recursion     *)
(* over the subsets of a set.  That there is one, what it returns and how  *)
(* it changes with one summand follows by induction; the induction is      *)
(* brought back to theorems that take sets instead of predicates, WFMin    *)
(* about well-founded relations.                                           *)
(***************************************************************************)
Total(f, S) == MapThenSumSet(LAMBDA x : f[x], S)

Pick(s) == CHOOSE x \in s : TRUE
SumUp(f, g, s) == IF s = {} THEN 0 ELSE f[Pick(s)] + g[s \ {Pick(s)}]
Sums(f, D, g) == g \in [D -> Int] /\ \A s \in D : g[s] = SumUp(f, g, s)
Upto(S, n) == {s \in SUBSET S : Cardinality(s) <= n}

LEMMA Picked == ASSUME NEW s, s # {} PROVE Pick(s) \in s
  BY DEF Pick

LEMMA TotalIsSum ==
  ASSUME NEW f, NEW S
  PROVE  Total(f, S) = (CHOOSE g : g = [s \in SUBSET S |-> SumUp(f, g, s)])[S]
  BY DEF Total, MapThenSumSet, MapThenFoldSet, SumUp, Pick

LEMMA NatSetInduction == ASSUME NEW T, 0 \in T, \A n \in T \cap Nat : n + 1 \in T PROVE Nat \subseteq T
<1> SUFFICES ASSUME Nat \ T # {} PROVE FALSE
  OBVIOUS
<1>1. PICK n \in Nat \ T : \A m \in Nat \ T : <<m, n>> \notin OpToRel(<, Nat)
  BY WFMin, NatLessThanWellFounded
<1>2. \A m \in Nat \ T : ~ (m < n)
  BY <1>1 DEF OpToRel
<1>3. n # 0 /\ n - 1 \in Nat
  OBVIOUS
<1> QED
  BY <1>2, <1>3

\* What holds of the empty set, and of every set if it holds without the element
\* picked from it, holds of all subsets.
LEMMA PickInduction ==
  ASSUME NEW S, IsFiniteSet(S), NEW T, {} \in T,
         \A s \in SUBSET S : s # {} /\ s \ {Pick(s)} \in T => s \in T
  PROVE  SUBSET S \subseteq T
<1> SUFFICES ASSUME (SUBSET S) \ T # {} PROVE FALSE
  OBVIOUS
<1>1. IsWellFoundedOn(StrictSubsetOrdering(S), SUBSET S)
  BY FS_StrictSubsetOrderingWellFounded, FS_FiniteSubsetsOfFinite
<1> DEFINE Bad == (SUBSET S) \ T
<1>2. PICK s \in Bad : \A t \in Bad : <<t, s>> \notin StrictSubsetOrdering(S)
  <2>1. Bad \subseteq SUBSET S /\ Bad # {}
    OBVIOUS
  <2> HIDE DEF Bad
  <2> QED
    BY <1>1, <2>1, WFMin
<1>3. s # {} /\ Pick(s) \in s
  BY Picked
<1>4. <<s \ {Pick(s)}, s>> \in StrictSubsetOrdering(S)
  BY <1>3 DEF StrictSubsetOrdering
<1> QED
  BY <1>2, <1>3, <1>4

\* The recursion has a solution: it is built up for the subsets of at most n elements.
LEMMA SumsExist ==
  ASSUME NEW S, IsFiniteSet(S), NEW f, \A x \in S : f[x] \in Int
  PROVE  \E g : Sums(f, SUBSET S, g)
<1> DEFINE T == {n \in Nat : \E g : Sums(f, Upto(S, n), g)}
<1>0. \A s \in SUBSET S : IsFiniteSet(s) /\ Cardinality(s) \in Nat /\ Cardinality(s) <= Cardinality(S)
  BY FS_Subset, FS_CardinalityType
<1>1. 0 \in T
  <2>1. \A s \in Upto(S, 0) : s = {}
    BY <1>0, FS_EmptySet DEF Upto
  <2>2. Sums(f, Upto(S, 0), [s \in Upto(S, 0) |-> 0])
    BY <2>1 DEF Sums, SumUp
  <2> QED
    BY <2>2
<1>2. ASSUME NEW n \in T \cap Nat PROVE n + 1 \in T
  <2>1. PICK g : Sums(f, Upto(S, n), g)
    OBVIOUS
  <2> DEFINE h == [s \in Upto(S, n + 1) |-> SumUp(f, g, s)]
  <2>2. ASSUME NEW s \in Upto(S, n + 1), s # {}
        PROVE  Pick(s) \in S /\ s \ {Pick(s)} \in Upto(S, n)
    <3>1. Pick(s) \in s /\ s \in SUBSET S /\ IsFiniteSet(s)
      BY <2>2, <1>0, Picked DEF Upto
    <3>2. Cardinality(s \ {Pick(s)}) = Cardinality(s) - 1
      BY <3>1, FS_RemoveElement
    <3>3. Cardinality(s) \in Nat /\ Cardinality(s) <= n + 1
      BY <3>1, <1>0 DEF Upto
    <3> QED
      BY <3>1, <3>2, <3>3 DEF Upto
  <2>3. \A s \in Upto(S, n) : h[s] = g[s]
    <3>1. \A s \in Upto(S, n) : s \in Upto(S, n + 1) /\ g[s] = SumUp(f, g, s)
      BY <2>1, <1>0 DEF Sums, Upto
    <3> QED
      BY <3>1
  <2>4. ASSUME NEW s \in Upto(S, n + 1)
        PROVE  h[s] \in Int /\ h[s] = SumUp(f, h, s)
    <3>1. CASE s = {}
      BY <3>1 DEF SumUp
    <3>2. CASE s # {}
      <4>1. h[s] = f[Pick(s)] + g[s \ {Pick(s)}] /\ SumUp(f, h, s) = f[Pick(s)] + h[s \ {Pick(s)}]
        BY <3>2 DEF SumUp
      <4>2. f[Pick(s)] \in Int /\ g[s \ {Pick(s)}] \in Int /\ h[s \ {Pick(s)}] = g[s \ {Pick(s)}]
        BY <3>2, <2>1, <2>2, <2>3 DEF Sums
      <4> HIDE DEF h
      <4> QED
        BY <4>1, <4>2
    <3> QED
      BY <3>1, <3>2
  <2>5. h \in [Upto(S, n + 1) -> Int]
    BY <2>4
  <2> HIDE DEF h
  <2>6. Sums(f, Upto(S, n + 1), h)
    BY <2>4, <2>5 DEF Sums
  <2> QED
    BY <2>6
<1>3. Nat \subseteq T
  <2> HIDE DEF T
  <2> QED
    BY <1>1, <1>2, NatSetInduction
<1>4. Cardinality(S) \in Nat /\ Upto(S, Cardinality(S)) = SUBSET S
  BY <1>0 DEF Upto
<1> QED
  BY <1>3, <1>4

LEMMA TotalUnfolds ==
  ASSUME NEW S, IsFiniteSet(S), NEW f, \A x \in S : f[x] \in Int
  PROVE  \E g : Sums(f, SUBSET S, g) /\ Total(f, S) = g[S]
<1> DEFINE Is(g) == g = [s \in SUBSET S |-> SumUp(f, g, s)]
           i == CHOOSE g : Is(g)
<1>1. \E g : Is(g)
  <2>1. PICK g : Sums(f, SUBSET S, g)
    BY SumsExist
  <2>2. Is(g)
    BY <2>1 DEF Sums
  <2> QED
    BY <2>2
<1>2. Is(i)
  <2> HIDE DEF Is
  <2> QED
    BY <1>1
<1>3. Total(f, S) = i[S]
  BY TotalIsSum
<1> HIDE DEF i
<1>4. /\ i = [s \in SUBSET S |-> i[s]]
      /\ \A s \in SUBSET S : i[s] = SumUp(f, i, s)
  BY <1>2
<1> HIDE DEF Is
<1> DEFINE T == {s \in SUBSET S : i[s] \in Int}
<1>5. {} \in T
  <2>1. i[{}] = SumUp(f, i, {})
    BY <1>4
  <2> QED
    BY <2>1 DEF SumUp
<1>6. ASSUME NEW s \in SUBSET S, s # {}, s \ {Pick(s)} \in T PROVE s \in T
  <2>1. Pick(s) \in S /\ f[Pick(s)] \in Int /\ i[s \ {Pick(s)}] \in Int
    BY <1>6, Picked
  <2>2. i[s] = f[Pick(s)] + i[s \ {Pick(s)}]
    BY <1>4, <1>6 DEF SumUp
  <2> QED
    BY <2>1, <2>2
<1>7. SUBSET S \subseteq T
  <2> HIDE DEF T
  <2> QED
    BY <1>5, <1>6, PickInduction
<1>8. Sums(f, SUBSET S, i)
  BY <1>4, <1>7 DEF Sums
<1> QED
  BY <1>3, <1>8

\* When one summand changes, the sum changes by as much.
LEMMA TotalChanges ==
  ASSUME NEW S, IsFiniteSet(S), NEW f, NEW g, \A y \in S : f[y] \in Int /\ g[y] \in Int,
         NEW x, \A y \in S \ {x} : g[y] = f[y]
  PROVE  /\ Total(f, S) \in Int
         /\ Total(g, S) = Total(f, S) + (IF x \in S THEN g[x] - f[x] ELSE 0)
<1>1. PICK i : Sums(f, SUBSET S, i) /\ Total(f, S) = i[S]
  BY TotalUnfolds
<1>2. PICK j : Sums(g, SUBSET S, j) /\ Total(g, S) = j[S]
  BY TotalUnfolds
<1> DEFINE T == {s \in SUBSET S : j[s] = i[s] + (IF x \in s THEN g[x] - f[x] ELSE 0)}
<1>3. {} \in T
  <2>1. i[{}] = SumUp(f, i, {}) /\ j[{}] = SumUp(g, j, {})
    BY <1>1, <1>2 DEF Sums
  <2> QED
    BY <2>1 DEF SumUp
<1>4. ASSUME NEW s \in SUBSET S, s # {}, s \ {Pick(s)} \in T PROVE s \in T
  <2> DEFINE y == Pick(s)
             t == s \ {y}
  <2>1. y \in s /\ t \in SUBSET S /\ (y # x => g[y] = f[y])
    BY <1>4, Picked
  <2>2. j[t] = i[t] + (IF x \in t THEN g[x] - f[x] ELSE 0)
    BY <1>4
  <2>3. /\ i[s] = f[y] + i[t] /\ j[s] = g[y] + j[t]
        /\ f[y] \in Int /\ g[y] \in Int /\ i[t] \in Int /\ j[t] \in Int /\ i[s] \in Int
    BY <1>1, <1>2, <1>4, <2>1 DEF SumUp, Sums
  <2>4. x \in s => f[x] \in Int /\ g[x] \in Int
    OBVIOUS
  <2>5. x \in t <=> x \in s /\ x # y
    OBVIOUS
  <2> HIDE DEF y, t
  <2>6. j[s] = i[s] + (IF x \in s THEN g[x] - f[x] ELSE 0)
    <3>1. CASE x \notin s
      BY <3>1, <2>1, <2>2, <2>3, <2>5
    <3>2. CASE x \in s /\ x = y
      BY <3>2, <2>2, <2>3, <2>4, <2>5
    <3>3. CASE x \in s /\ x # y
      BY <3>3, <2>1, <2>2, <2>3, <2>4, <2>5
    <3> QED
      BY <3>1, <3>2, <3>3
  <2> QED
    BY <2>6
<1>5. SUBSET S \subseteq T
  <2> HIDE DEF T
  <2> QED
    BY <1>3, <1>4, PickInduction
<1>6. S \in SUBSET S /\ S \in T /\ i[S] \in Int
  BY <1>1, <1>5 DEF Sums
<1> QED
  BY <1>1, <1>2, <1>6

LEMMA TotalOfNothing ==
  ASSUME NEW S, IsFiniteSet(S), NEW f, \A x \in S : f[x] = 0
  PROVE  Total(f, S) = 0
<1>1. PICK i : Sums(f, SUBSET S, i) /\ Total(f, S) = i[S]
  <2>1. \A x \in S : f[x] \in Int
    OBVIOUS
  <2> QED
    BY <2>1, TotalUnfolds
<1> DEFINE T == {s \in SUBSET S : i[s] = 0}
<1>2. {} \in T
  BY <1>1 DEF Sums, SumUp
<1>3. ASSUME NEW s \in SUBSET S, s # {}, s \ {Pick(s)} \in T PROVE s \in T
  <2>1. f[Pick(s)] = 0 /\ i[s \ {Pick(s)}] = 0
    BY <1>3, Picked
  <2>2. i[s] = f[Pick(s)] + i[s \ {Pick(s)}]
    BY <1>1, <1>3 DEF Sums, SumUp
  <2> QED
    BY <2>1, <2>2
<1>4. SUBSET S \subseteq T
  <2> HIDE DEF T
  <2> QED
    BY <1>2, <1>3, PickInduction
<1> QED
  BY <1>1, <1>4

\* A sum of numbers is a number, and not below any of them.
LEMMA TotalIsEnough ==
  ASSUME NEW S, IsFiniteSet(S), NEW f, \A x \in S : f[x] \in Nat
  PROVE  Total(f, S) \in Nat /\ \A x \in S : f[x] <= Total(f, S)
<1>1. ASSUME NEW g, \A x \in S : g[x] \in Nat PROVE Total(g, S) \in Nat
  <2>1. PICK i : Sums(g, SUBSET S, i) /\ Total(g, S) = i[S]
    <3>1. \A x \in S : g[x] \in Int
      BY <1>1
    <3> QED
      BY <3>1, TotalUnfolds
  <2> DEFINE T == {s \in SUBSET S : i[s] \in Nat}
  <2>2. {} \in T
    <3>1. i[{}] = SumUp(g, i, {})
      BY <2>1 DEF Sums
    <3> QED
      BY <3>1 DEF SumUp
  <2>3. ASSUME NEW s \in SUBSET S, s # {}, s \ {Pick(s)} \in T PROVE s \in T
    <3>1. g[Pick(s)] \in Nat /\ i[s \ {Pick(s)}] \in Nat
      BY <1>1, <2>3, Picked
    <3>2. i[s] = g[Pick(s)] + i[s \ {Pick(s)}]
      BY <2>1, <2>3 DEF Sums, SumUp
    <3> QED
      BY <3>1, <3>2
  <2>4. SUBSET S \subseteq T
    <3> HIDE DEF T
    <3> QED
      BY <2>2, <2>3, PickInduction
  <2> QED
    BY <2>1, <2>4
<1>2. ASSUME NEW x \in S PROVE f[x] <= Total(f, S)
  <2>1. PICK g : g = [y \in S |-> IF y = x THEN 0 ELSE f[y]]
    OBVIOUS
  <2>2. Total(g, S) = Total(f, S) - f[x]
    <3>1. \A y \in S \ {x} : g[y] = f[y]
      BY <2>1
    <3>2. g[x] = 0 /\ \A y \in S : g[y] \in Int /\ f[y] \in Int
      BY <2>1
    <3>3. Total(f, S) \in Int /\ Total(g, S) = Total(f, S) + (IF x \in S THEN g[x] - f[x] ELSE 0)
      BY <3>1, <3>2, TotalChanges
    <3> QED
      BY <3>2, <3>3
  <2>3. Total(g, S) \in Nat /\ Total(f, S) \in Nat /\ f[x] \in Nat
    BY <1>1, <2>1
  <2> QED
    BY <2>2, <2>3
<1> QED
  BY <1>1, <1>2

-----------------------------------------------------------------------------
(***************************************************************************)
(* How often a delivery is attempted, by one worker w.  What has been paid *)
(* for, MAX_ATTEMPTS for the delivery itself and for each failure,         *)
(* redelivery and job of the cron job, covers the attempts made, those the *)
(* jobs that wait may still make, and what the calls at work may do: one   *)
(* attempt each, and, since they save a copy, the loss of the attempts the *)
(* row has counted since they loaded it.                                   *)
(***************************************************************************)
At(p, d) == pc[p] # "idle" /\ work[p].delivery = d

\* The worker will not make another attempt for its job, and add none.
Spent(w) == pc[w] = "done" \/ (pc[w] \in {"save", "update"} /\ ~Retriable(copy[w]))
Waits(w, j) == job[j] = "ready" \/ (job[j] = "active" /\ ~(work[w] = j /\ Spent(w)))
Waiting(w, d) == [j \in Jobs |-> IF j.delivery = d /\ Waits(w, j) THEN 1 ELSE 0]

\* The count the row will have when the worker has saved its copy.
Decides(w) == \/ pc[w] \in {"post", "save"}
              \/ pc[w] = "update" /\ seen[w].attemptCount # copy[w].attemptCount
Count(w, d) == IF At(w, d) /\ Decides(w) THEN copy[w].attemptCount ELSE row[d].attemptCount

Left(n) == IF n < MAX_ATTEMPTS - 1 THEN MAX_ATTEMPTS - 1 - n ELSE 0

\* Jobs share the count of their row: while there are attempts left, the next one
\* costs one of them, and then each job makes one more.
Attempts(on, posting, jobs, n) ==
  IF ~on THEN IF posting THEN 1 ELSE 0
  ELSE IF jobs = 0 THEN 0 ELSE jobs + Left(n)
Posting(w, d) == At(w, d) /\ pc[w] = "post"
Coming(w, d) ==
  Attempts(endpoint, Posting(w, d), Total(Waiting(w, d), Jobs), Count(w, d))

Due(d) == [c \in Calls |-> IF ~At(c, d) THEN 0
                           ELSE IF pc[c] \in {"add", "load", "post"} THEN MAX_ATTEMPTS
                           ELSE MAX_ATTEMPTS - 1]

Created(d) == IF d \in known THEN 1 ELSE 0
Causes(d) == Created(d) + faults + redeliveries + retries
Covered(w, d) == posts[d] + Coming(w, d) + Total(Due(d), Calls) <= MAX_ATTEMPTS * Causes(d)

\* The job of the worker is active, and only workers have a job to complete.
Held(w) == /\ pc[w] # "idle" => job[work[w]] = "active"
           /\ \A c \in Calls : pc[c] # "done"

BoundInv(w) == Held(w) /\ \A d \in Deliveries : Covered(w, d)

LEMMA JobsAreFinite == IsFiniteSet(Jobs)
<1> DEFINE Box == (0 .. MAX_ATTEMPTS) \X (0 .. Spread)
<1>1. IsFiniteSet(Box)
  <2>1. MAX_ATTEMPTS \in Int /\ Spread \in Int
    BY WebhooksAssumption
  <2>2. IsFiniteSet(0 .. MAX_ATTEMPTS) /\ IsFiniteSet(0 .. Spread)
    BY <2>1, FS_Interval
  <2> QED
    BY <2>2, FS_Product
<1>2. Delays \subseteq Box
  BY WebhooksAssumption DEF Delays, DelaysAfter, Now
<1> HIDE DEF Box
<1>3. IsFiniteSet(Deliveries \X Delays)
  BY <1>1, <1>2, WebhooksAssumption, FS_Subset, FS_Product
<1> DEFINE f == [x \in Deliveries \X Delays |-> [delivery |-> x[1], delay |-> x[2]]]
<1>4. f \in Surjection(Deliveries \X Delays, Jobs)
  <2>1. f \in [Deliveries \X Delays -> Jobs]
    BY DEF Jobs
  <2>2. ASSUME NEW j \in Jobs PROVE \E x \in Deliveries \X Delays : f[x] = j
    <3>1. <<j.delivery, j.delay>> \in Deliveries \X Delays /\ j = [delivery |-> j.delivery, delay |-> j.delay]
      BY DEF Jobs
    <3> QED
      BY <3>1
  <2> HIDE DEF f
  <2> QED
    BY <2>1, <2>2 DEF Surjection
<1> HIDE DEF f
<1> QED
  BY <1>3, <1>4, FS_Surjection

LEMMA LeftIsPart == ASSUME NEW n \in Nat PROVE Left(n) \in Nat /\ Left(n) <= MAX_ATTEMPTS - 1
  BY WebhooksAssumption DEF Left

\* Fewer jobs, attempts left and POSTs to come are not more to come.
LEMMA FewerAttempts ==
  ASSUME NEW on \in BOOLEAN, NEW posting \in BOOLEAN, NEW jobs \in Nat, NEW n \in Nat,
         NEW posting2 \in BOOLEAN, NEW jobs2 \in Nat, NEW n2 \in Nat,
         on \/ (posting2 => posting), jobs2 <= jobs, Left(n2) <= Left(n)
  PROVE  /\ Attempts(on, posting, jobs, n) \in Nat
         /\ Attempts(on, posting2, jobs2, n2) \in Nat
         /\ Attempts(on, posting2, jobs2, n2) <= Attempts(on, posting, jobs, n)
  BY LeftIsPart DEF Attempts

\* One more job is at most as many attempts as have been paid for it, ...
LEMMA OneMoreJob ==
  ASSUME NEW on \in BOOLEAN, NEW posting \in BOOLEAN, NEW jobs \in Nat, NEW n \in Nat,
         NEW posting2 \in BOOLEAN, NEW jobs2 \in Nat, NEW n2 \in Nat,
         on \/ (posting2 => posting), jobs2 <= jobs + 1
  PROVE  /\ Attempts(on, posting, jobs, n) \in Nat
         /\ Attempts(on, posting2, jobs2, n2) \in Nat
         /\ Attempts(on, posting2, jobs2, n2) <= Attempts(on, posting, jobs, n) + MAX_ATTEMPTS
<1>1. /\ Left(n) \in Nat /\ Left(n2) \in Nat /\ Left(n2) <= MAX_ATTEMPTS - 1
      /\ MAX_ATTEMPTS \in Nat \ {0}
  BY LeftIsPart, WebhooksAssumption
<1> QED
  BY <1>1 DEF Attempts

\* ... and a count that is lost, at most one attempt less.
LEMMA CountedDown ==
  ASSUME NEW on \in BOOLEAN, NEW posting \in BOOLEAN, NEW jobs \in Nat, NEW n \in Nat,
         NEW n2 \in Nat
  PROVE  /\ Attempts(on, posting, jobs, n) \in Nat
         /\ Attempts(on, posting, jobs, n2) \in Nat
         /\ Attempts(on, posting, jobs, n2) <= Attempts(on, posting, jobs, n) + (MAX_ATTEMPTS - 1)
<1>1. /\ Left(n) \in Nat /\ Left(n2) \in Nat /\ Left(n2) <= MAX_ATTEMPTS - 1
      /\ MAX_ATTEMPTS \in Nat \ {0}
  BY LeftIsPart, WebhooksAssumption
<1> QED
  BY <1>1 DEF Attempts

LEMMA HeldStep ==
  ASSUME NEW w, Workers = {w}, Inv, TypeOK', Held(w), [Next]_vars
  PROVE  Held(w)'
<1> USE DEF queue, database
<1>0. /\ TypeOK /\ w \in Processes /\ \A c \in Calls : c \in Processes /\ c # w
      /\ \A p \in Processes : work[p] \in Jobs /\ (p = w \/ p \in Calls)
  BY WebhooksAssumption DEF Inv, TypeOK, Processes
<1>1. Held(w) <=> /\ pc[w] # "idle" => job[work[w]] = "active"
                  /\ \A c \in Calls : pc[c] # "done"
  BY DEF Held
<1>a. UNCHANGED <<pc, work>> /\ (job[work[w]] = "active" => job'[work[w]] = "active") => Held(w)'
  BY <1>1 DEF Held
\* A process that does not begin, and is not the worker of another job, moves on.
<1>b. ASSUME NEW p \in Processes, NEW s, pc' = [pc EXCEPT ![p] = s], s # "done" \/ p = w, pc[p] # "idle",
             work' = work, job[work[w]] = "active" => job'[work[w]] = "active"
      PROVE  Held(w)'
  BY <1>0, <1>1, <1>b DEF Held, TypeOK
<1>c. ASSUME NEW p \in Processes, Leave(p),
             p = w \/ (job[work[w]] = "active" => job'[work[w]] = "active")
      PROVE  Held(w)'
  BY <1>0, <1>1, <1>c DEF Held, TypeOK, Leave
<1>d. ASSUME NEW d, NEW delay, Enqueue(d, delay)
      PROVE  job[work[w]] = "active" => job'[work[w]] = "active"
  BY <1>0, <1>d DEF Enqueue, TypeOK
<1>2. ASSUME NEW c \in Calls, NEW d \in Deliveries, Api(c, d) PROVE Held(w)'
  <2>1. PICK s \in {"add", "post", "load"} : Start(c, d, s)
    BY <1>2 DEF Api, Create, Redeliver
  <2>2. job' = job /\ pc' = [pc EXCEPT ![c] = s] /\ work'[w] = work[w]
    BY <1>0, <2>1 DEF Start, TypeOK
  <2>3. pc'[w] = pc[w] /\ \A q \in Calls : pc'[q] # "done"
    BY <1>0, <1>1, <2>2 DEF TypeOK
  <2> QED
    BY <1>1, <2>2, <2>3 DEF Held
<1>3. ASSUME NEW j \in Jobs, Take(w, j) PROVE Held(w)'
  <2>1. job'[j] = "active" /\ work'[w] = j /\ \A c \in Calls : pc'[c] = pc[c]
    BY <1>0, <1>3 DEF Take, TypeOK
  <2> QED
    BY <1>1, <2>1 DEF Held
<1>4. ASSUME NEW j \in Jobs, Stall(j) \/ Remove(j) PROVE Held(w)'
  <2>1. pc[w] # "idle" => job'[work[w]] = job[work[w]]
    BY <1>0, <1>1, <1>4 DEF Stall, Remove, TypeOK
  <2>2. UNCHANGED <<pc, work>>
    BY <1>4 DEF Stall, Remove
  <2> QED
    BY <1>1, <2>1, <2>2 DEF Held
<1>5. CASE DeleteEndpoint
  BY <1>5, <1>a DEF DeleteEndpoint
<1>6. ASSUME NEW k \in Crons, Cron(k) PROVE Held(w)'
  <2>1. ASSUME NEW found, FindRetries(k, found) PROVE Held(w)'
    BY <2>1, <1>a DEF FindRetries
  <2>2. ASSUME NEW d, AddRetry(k, d) PROVE Held(w)'
    BY <2>2, <1>a, <1>d DEF AddRetry
  <2> QED
    BY <1>6, <2>1, <2>2 DEF Cron
<1>7. ASSUME NEW p \in Processes, Load(p) PROVE Held(w)'
  <2>1. pc' = [pc EXCEPT ![p] = IF p \in Workers /\ ~endpoint THEN "done" ELSE "post"]
    BY <1>7 DEF Load
  <2>2. (IF p \in Workers /\ ~endpoint THEN "done" ELSE "post") # "done" \/ p = w
    OBVIOUS
  <2> QED
    BY <1>7, <1>b, <2>1, <2>2 DEF Load
<1>8. ASSUME NEW p \in Processes, Post(p) \/ Save(p) PROVE Held(w)'
  BY <1>8, <1>b DEF Post, Save
<1>9. ASSUME NEW p \in Processes, Update(p) PROVE Held(w)'
  <2>1. CASE p \in Workers
    <3>1. p = w /\ job' = job /\ work' = work /\ pc[p] # "idle"
      BY <1>9, <2>1 DEF Update
    <3>2. pc' = [pc EXCEPT ![p] = IF Retriable(copy[p]) THEN "add" ELSE "done"]
      BY <1>9, <2>1 DEF Update
    <3> QED
      BY <1>b, <3>1, <3>2
  <2>2. CASE p \notin Workers
    BY <1>9, <1>c, <2>2 DEF Update
  <2> QED
    BY <2>1, <2>2
<1>10. ASSUME NEW p \in Processes, Add(p) PROVE Held(w)'
  <2>1. job[work[w]] = "active" => job'[work[w]] = "active"
    BY <1>10, <1>d DEF Add
  <2>2. CASE p \in Workers
    BY <1>10, <1>b, <2>1, <2>2 DEF Add
  <2>3. CASE p \notin Workers
    BY <1>10, <1>c, <2>1, <2>3 DEF Add
  <2> QED
    BY <2>2, <2>3
<1>11. ASSUME NEW p \in Processes, Complete(p) PROVE Held(w)'
  <2>1. p = w
    BY <1>0, <1>1, <1>11 DEF Complete
  <2> QED
    BY <1>11, <1>c, <2>1 DEF Complete
<1>12. ASSUME NEW p \in Processes, Throw(p) PROVE Held(w)'
  <2>1. p = w \/ job' = job
    BY <1>0, <1>12 DEF Throw
  <2> QED
    BY <1>12, <1>c, <2>1 DEF Throw
<1>13. ASSUME NEW p \in Processes, Crash(p) PROVE Held(w)'
  BY <1>13, <1>c DEF Crash
<1>14. CASE UNCHANGED vars
  BY <1>14, <1>a DEF vars
<1> QED
  BY <1>2, <1>3, <1>4, <1>5, <1>6, <1>7, <1>8, <1>9, <1>10, <1>11, <1>12, <1>13, <1>14 DEF Next, Step

\* When one job changes, so does the number of those that wait.
LEMMA WaitingChanges ==
  ASSUME NEW w, NEW d, NEW j,
         \A i \in Jobs \ {j} : i.delivery = d => (Waits(w, i)' <=> Waits(w, i))
  PROVE  /\ Total(Waiting(w, d), Jobs) \in Nat /\ Total(Waiting(w, d)', Jobs) \in Nat
         /\ Total(Waiting(w, d)', Jobs) <= Total(Waiting(w, d), Jobs) + 1
         /\ (j.delivery = d /\ Waits(w, j)' => Waits(w, j)) => Total(Waiting(w, d)', Jobs) <= Total(Waiting(w, d), Jobs)
         /\ j \in Jobs /\ j.delivery = d /\ Waits(w, j) /\ ~Waits(w, j)'
              => Total(Waiting(w, d)', Jobs) = Total(Waiting(w, d), Jobs) - 1
<1>1. PICK f, g : f = Waiting(w, d) /\ g = Waiting(w, d)'
  OBVIOUS
<1>2. /\ \A i \in Jobs : f[i] = IF i.delivery = d /\ Waits(w, i) THEN 1 ELSE 0
      /\ \A i \in Jobs : g[i] = IF i.delivery = d /\ Waits(w, i)' THEN 1 ELSE 0
  BY <1>1 DEF Waiting
<1>3. \A i \in Jobs : f[i] \in Nat /\ g[i] \in Nat
  BY <1>2
<1>4. \A i \in Jobs \ {j} : g[i] = f[i]
  BY <1>2
<1>5. Total(f, Jobs) \in Nat /\ Total(g, Jobs) \in Nat
  BY <1>3, JobsAreFinite, TotalIsEnough
<1>6. Total(g, Jobs) = Total(f, Jobs) + (IF j \in Jobs THEN g[j] - f[j] ELSE 0)
  <2>1. \A i \in Jobs : f[i] \in Int /\ g[i] \in Int
    BY <1>3
  <2> QED
    BY <1>4, <2>1, JobsAreFinite, TotalChanges
<1>7. /\ Total(g, Jobs) <= Total(f, Jobs) + 1
      /\ (j.delivery = d /\ Waits(w, j)' => Waits(w, j)) => Total(g, Jobs) <= Total(f, Jobs)
      /\ j \in Jobs /\ j.delivery = d /\ Waits(w, j) /\ ~Waits(w, j)' => Total(g, Jobs) = Total(f, Jobs) - 1
  BY <1>2, <1>5, <1>6
<1> QED
  BY <1>1, <1>5, <1>7

\* A job that waits counts.
LEMMA WaitingCounts ==
  ASSUME NEW w, NEW d, NEW j \in Jobs, j.delivery = d, Waits(w, j)
  PROVE  Total(Waiting(w, d), Jobs) \in Nat \ {0}
<1>1. PICK f : f = Waiting(w, d)
  OBVIOUS
<1>2. (\A i \in Jobs : f[i] \in Nat) /\ f[j] = 1
  BY <1>1 DEF Waiting
<1>3. Total(f, Jobs) \in Nat /\ f[j] <= Total(f, Jobs)
  BY <1>2, JobsAreFinite, TotalIsEnough
<1> QED
  BY <1>1, <1>2, <1>3

\* When one process moves, so does what is due to it, if it is a call.
LEMMA DueChanges ==
  ASSUME NEW d, NEW p, \A c \in Calls \ {p} : pc'[c] = pc[c] /\ work'[c] = work[c]
  PROVE  /\ Total(Due(d), Calls) \in Nat /\ Total(Due(d)', Calls) \in Nat
         /\ Total(Due(d)', Calls) = Total(Due(d), Calls) + (IF p \in Calls THEN Due(d)'[p] - Due(d)[p] ELSE 0)
<1>1. PICK f, g : f = Due(d) /\ g = Due(d)'
  OBVIOUS
<1>2. IsFiniteSet(Calls) /\ MAX_ATTEMPTS \in Nat \ {0}
  BY WebhooksAssumption
<1>3. \A c \in Calls : f[c] \in Nat /\ g[c] \in Nat
  BY <1>1, <1>2 DEF Due
<1>4. \A c \in Calls \ {p} : g[c] = f[c]
  BY <1>1 DEF Due, At
<1>5. Total(f, Calls) \in Nat /\ Total(g, Calls) \in Nat
  BY <1>2, <1>3, TotalIsEnough
<1>6. Total(g, Calls) = Total(f, Calls) + (IF p \in Calls THEN g[p] - f[p] ELSE 0)
  <2>1. \A c \in Calls : f[c] \in Int /\ g[c] \in Int
    BY <1>3
  <2> QED
    BY <1>2, <1>4, <2>1, TotalChanges
<1> QED
  BY <1>1, <1>5, <1>6

\* What has been paid for covers an attempt more, if something else is due less.
LEMMA PaidFor ==
  ASSUME NEW m \in Nat, NEW b \in Nat, NEW b2 \in Nat, NEW k \in {0, 1}, b + k <= b2
  PROVE  m * b + m * k <= m * b2
<1>1. PICK i \in Nat : b2 = b + k + i
  <2>1. b2 - (b + k) \in Nat /\ b2 = b + k + (b2 - (b + k))
    OBVIOUS
  <2> QED
    BY <2>1
<1>2. m * (b + k + i) = m * b + m * k + m * i
  OBVIOUS
<1>3. m * i \in Nat /\ m * b \in Nat /\ m * k \in Nat
  OBVIOUS
<1> QED
  BY <1>1, <1>2, <1>3

LEMMA CausesAreNat ==
  ASSUME NEW d
  PROVE  (TypeOK => Causes(d) \in Nat) /\ (TypeOK' => Causes(d)' \in Nat)
<1>1. ASSUME TypeOK PROVE Causes(d) \in Nat
  BY <1>1, WebhooksAssumption DEF TypeOK, Causes, Created
<1>2. ASSUME TypeOK' PROVE Causes(d)' \in Nat
  <2>1. faults' \in Nat /\ redeliveries' \in Nat /\ retries' \in Nat
    BY <1>2, WebhooksAssumption DEF TypeOK
  <2>2. Created(d)' \in {0, 1}
    BY DEF Created
  <2> QED
    BY <2>1, <2>2 DEF Causes
<1> QED
  BY <1>1, <1>2

LEMMA CoversNext ==
  ASSUME NEW w, TypeOK, TypeOK', NEW d \in Deliveries, Covered(w, d),
         NEW p, \A c \in Calls \ {p} : pc'[c] = pc[c] /\ work'[c] = work[c],
         NEW x \in Int, NEW k \in {0, 1}, Causes(d) + k <= Causes(d)',
         Coming(w, d) \in Nat, Coming(w, d)' \in Nat, Coming(w, d)' <= Coming(w, d) + x,
         posts'[d] + (IF p \in Calls THEN Due(d)'[p] - Due(d)[p] ELSE 0) + x <= posts[d] + MAX_ATTEMPTS * k
  PROVE  Covered(w, d)'
<1>1. posts[d] \in Nat /\ posts'[d] \in Nat /\ MAX_ATTEMPTS \in Nat
  BY WebhooksAssumption DEF TypeOK
<1>2. Causes(d) \in Nat /\ Causes(d)' \in Nat
  BY CausesAreNat
<1>3. MAX_ATTEMPTS * Causes(d) + MAX_ATTEMPTS * k <= MAX_ATTEMPTS * Causes(d)'
  BY <1>1, <1>2, PaidFor
<1>4. PICK u, v, e : u = Total(Due(d), Calls) /\ v = Total(Due(d)', Calls)
                     /\ e = IF p \in Calls THEN Due(d)'[p] - Due(d)[p] ELSE 0
  OBVIOUS
<1>5. u \in Nat /\ v \in Nat /\ v = u + e
  BY <1>4, DueChanges
<1>6. e \in Int
  BY <1>4, WebhooksAssumption DEF Due
<1>7. PICK y, z, q : y = MAX_ATTEMPTS * Causes(d) /\ z = MAX_ATTEMPTS * Causes(d)' /\ q = MAX_ATTEMPTS * k
  OBVIOUS
<1>8. y \in Int /\ z \in Int /\ q \in Int /\ y + q <= z
  BY <1>1, <1>2, <1>3, <1>7
<1>9. posts[d] + Coming(w, d) + u <= y
  BY <1>4, <1>7 DEF Covered
<1>10. posts'[d] + e + x <= posts[d] + q
  BY <1>4, <1>7
<1>11. posts'[d] + Coming(w, d)' + v <= z
  BY <1>1, <1>5, <1>6, <1>8, <1>9, <1>10
<1> QED
  BY <1>4, <1>7, <1>11 DEF Covered

\* A job that waits takes the place of another one.
LEMMA WaitingMoves ==
  ASSUME NEW w, NEW d, NEW i \in Jobs, i.delivery = d, Waits(w, i), ~Waits(w, i)',
         NEW j, \A x \in Jobs \ {i, j} : Waits(w, x)' <=> Waits(w, x)
  PROVE  /\ Total(Waiting(w, d), Jobs) \in Nat /\ Total(Waiting(w, d)', Jobs) \in Nat
         /\ Total(Waiting(w, d)', Jobs) <= Total(Waiting(w, d), Jobs)
<1>1. PICK f, g : f = Waiting(w, d) /\ g = Waiting(w, d)'
  OBVIOUS
<1>2. PICK h : h = [x \in Jobs |-> IF x = i THEN 0 ELSE f[x]]
  OBVIOUS
<1>3. /\ \A x \in Jobs : f[x] = IF x.delivery = d /\ Waits(w, x) THEN 1 ELSE 0
      /\ \A x \in Jobs : g[x] = IF x.delivery = d /\ Waits(w, x)' THEN 1 ELSE 0
  BY <1>1 DEF Waiting
<1>4. \A x \in Jobs : f[x] \in {0, 1} /\ g[x] \in {0, 1} /\ h[x] \in {0, 1}
  BY <1>2, <1>3
<1>5. f[i] = 1 /\ h[i] = 0 /\ g[i] = 0 /\ \A x \in Jobs \ {i} : h[x] = f[x]
  BY <1>2, <1>3
<1>6. \A x \in Jobs \ {j} : g[x] = h[x]
  BY <1>3, <1>5
<1>7. Total(f, Jobs) \in Nat /\ Total(g, Jobs) \in Nat /\ Total(h, Jobs) \in Nat
  <2>1. \A x \in Jobs : f[x] \in Nat /\ g[x] \in Nat /\ h[x] \in Nat
    BY <1>4
  <2> QED
    BY <2>1, JobsAreFinite, TotalIsEnough
<1>8. \A x \in Jobs : f[x] \in Int /\ g[x] \in Int /\ h[x] \in Int
  BY <1>4
<1>9. Total(h, Jobs) = Total(f, Jobs) - 1
  <2>1. Total(h, Jobs) = Total(f, Jobs) + (IF i \in Jobs THEN h[i] - f[i] ELSE 0)
    BY <1>5, <1>8, JobsAreFinite, TotalChanges
  <2> QED
    BY <1>5, <1>7, <2>1
<1>10. Total(g, Jobs) <= Total(h, Jobs) + 1
  <2>1. Total(g, Jobs) = Total(h, Jobs) + (IF j \in Jobs THEN g[j] - h[j] ELSE 0)
    BY <1>6, <1>8, JobsAreFinite, TotalChanges
  <2> QED
    BY <1>4, <1>7, <2>1
<1> QED
  BY <1>1, <1>7, <1>9, <1>10

LEMMA CountIsNat ==
  ASSUME NEW w \in Processes, NEW d \in Deliveries
  PROVE  (TypeOK => Count(w, d) \in Nat) /\ (TypeOK' => Count(w, d)' \in Nat)
<1>1. ASSUME TypeOK PROVE Count(w, d) \in Nat
  <2>1. row[d].attemptCount \in Nat /\ copy[w].attemptCount \in Nat
    BY <1>1 DEF TypeOK, Rows
  <2> QED
    BY <2>1 DEF Count
<1>2. ASSUME TypeOK' PROVE Count(w, d)' \in Nat
  <2>1. row'[d].attemptCount \in Nat /\ copy'[w].attemptCount \in Nat
    BY <1>2 DEF TypeOK, Rows
  <2> QED
    BY <2>1 DEF Count
<1> QED
  BY <1>1, <1>2

\* What is to come, when jobs, the count and the worker change.
LEMMA ComingChanges ==
  ASSUME NEW w \in Processes, TypeOK, TypeOK', NEW d \in Deliveries, endpoint' = endpoint,
         endpoint \/ (Posting(w, d)' => Posting(w, d)),
         Total(Waiting(w, d), Jobs) \in Nat, Total(Waiting(w, d)', Jobs) \in Nat
  PROVE  /\ Coming(w, d) \in Nat /\ Coming(w, d)' \in Nat
         /\ Total(Waiting(w, d)', Jobs) <= Total(Waiting(w, d), Jobs) + 1
              => Coming(w, d)' <= Coming(w, d) + MAX_ATTEMPTS
         /\ Total(Waiting(w, d)', Jobs) <= Total(Waiting(w, d), Jobs)
              => Coming(w, d)' <= Coming(w, d) + (MAX_ATTEMPTS - 1)
         /\ Total(Waiting(w, d)', Jobs) <= Total(Waiting(w, d), Jobs) /\ Count(w, d)' = Count(w, d)
              => Coming(w, d)' <= Coming(w, d)
<1>1. PICK on, h, h2, a, a2, n, n2 :
         /\ on = endpoint /\ h = Posting(w, d) /\ h2 = Posting(w, d)'
         /\ a = Total(Waiting(w, d), Jobs) /\ a2 = Total(Waiting(w, d)', Jobs)
         /\ n = Count(w, d) /\ n2 = Count(w, d)'
  OBVIOUS
<1>2. /\ on \in BOOLEAN /\ h \in BOOLEAN /\ h2 \in BOOLEAN /\ (on \/ (h2 => h))
      /\ a \in Nat /\ a2 \in Nat /\ n \in Nat /\ n2 \in Nat
  <2>1. on \in BOOLEAN /\ h \in BOOLEAN /\ h2 \in BOOLEAN /\ (on \/ (h2 => h))
    BY <1>1 DEF TypeOK, Posting
  <2> QED
    BY <1>1, <2>1, CountIsNat
<1>3. Coming(w, d) = Attempts(on, h, a, n) /\ Coming(w, d)' = Attempts(on, h2, a2, n2)
  BY <1>1 DEF Coming
<1>4. /\ Attempts(on, h, a, n) \in Nat /\ Attempts(on, h2, a2, n2) \in Nat
      /\ a2 <= a + 1 => Attempts(on, h2, a2, n2) <= Attempts(on, h, a, n) + MAX_ATTEMPTS
  <2>1. CASE a2 <= a + 1
    BY <1>2, <2>1, OneMoreJob
  <2>2. CASE ~(a2 <= a + 1)
    <3>1. a2 <= a2 /\ a <= a /\ Left(n) <= Left(n) /\ Left(n2) <= Left(n2)
      BY <1>2, LeftIsPart
    <3> QED
      BY <1>2, <2>2, <3>1, FewerAttempts
  <2> QED
    BY <2>1, <2>2
<1>5. a2 <= a => Attempts(on, h2, a2, n2) <= Attempts(on, h, a, n) + (MAX_ATTEMPTS - 1)
  <2> SUFFICES ASSUME a2 <= a PROVE Attempts(on, h2, a2, n2) <= Attempts(on, h, a, n) + (MAX_ATTEMPTS - 1)
    OBVIOUS
  <2>1. Attempts(on, h2, a2, n2) <= Attempts(on, h, a, n2)
    <3>1. Left(n2) <= Left(n2)
      BY <1>2, LeftIsPart
    <3> QED
      BY <1>2, <3>1, FewerAttempts
  <2>2. /\ Attempts(on, h, a, n2) <= Attempts(on, h, a, n) + (MAX_ATTEMPTS - 1)
        /\ Attempts(on, h, a, n2) \in Nat
    BY <1>2, CountedDown
  <2>3. MAX_ATTEMPTS \in Nat
    BY WebhooksAssumption
  <2> QED
    BY <1>4, <2>1, <2>2, <2>3
<1>6. a2 <= a /\ n2 = n => Attempts(on, h2, a2, n2) <= Attempts(on, h, a, n)
  <2>1. Left(n) <= Left(n)
    BY <1>2, LeftIsPart
  <2> QED
    BY <1>2, <2>1, FewerAttempts
<1>8. Coming(w, d) \in Nat /\ Coming(w, d)' \in Nat
  BY <1>3, <1>4
<1>9. Total(Waiting(w, d)', Jobs) <= Total(Waiting(w, d), Jobs) + 1
        => Coming(w, d)' <= Coming(w, d) + MAX_ATTEMPTS
  BY <1>1, <1>3, <1>4
<1>10. Total(Waiting(w, d)', Jobs) <= Total(Waiting(w, d), Jobs)
         => Coming(w, d)' <= Coming(w, d) + (MAX_ATTEMPTS - 1)
  BY <1>1, <1>3, <1>5
<1>11. Total(Waiting(w, d)', Jobs) <= Total(Waiting(w, d), Jobs) /\ Count(w, d)' = Count(w, d)
         => Coming(w, d)' <= Coming(w, d)
  BY <1>1, <1>3, <1>6
<1> QED
  BY <1>8, <1>9, <1>10, <1>11

\* Every step is covered by what has been paid for.
LEMMA CoveredStep ==
  ASSUME NEW w, Workers = {w}, Inv, TypeOK', Held(w), NEW d \in Deliveries, Covered(w, d), [Next]_vars
  PROVE  Covered(w, d)'
<1> DEFINE A == Total(Waiting(w, d), Jobs)
           A2 == Total(Waiting(w, d)', Jobs)
           DueLess(p) == IF p \in Calls THEN Due(d)'[p] - Due(d)[p] ELSE 0
<1> USE DEF queue, database
<1>0. /\ TypeOK /\ w \in Processes /\ w \notin Calls /\ \A p \in Processes : p = w \/ p \in Calls
      /\ MAX_ATTEMPTS \in Nat \ {0} /\ NoWork \in Jobs
  BY WebhooksAssumption, NoWorkType DEF Inv, Processes
<1>1. /\ \A p \in Processes : work[p] \in Jobs /\ work[p].delivery \in Deliveries
      /\ posts[d] \in Nat /\ posts'[d] \in Nat /\ Causes(d) \in Nat /\ Causes(d)' \in Nat
  BY <1>0, JobDelivery, CausesAreNat DEF TypeOK
<1>2. UNCHANGED <<known, faults, redeliveries, retries>> => Causes(d)' = Causes(d) /\ Causes(d) <= Causes(d)'
  <2>1. UNCHANGED <<known, faults, redeliveries, retries>> => Causes(d)' = Causes(d)
    BY DEF Causes, Created
  <2> QED
    BY <1>1, <2>1
<1>3. (\A i \in Jobs : Waits(w, i)' <=> Waits(w, i)) => A \in Nat /\ A2 \in Nat /\ A2 <= A
  BY <1>0, WaitingChanges
<1>4. pc[w] # "idle" => job[work[w]] = "active"
  BY DEF Held
\* What keeps the jobs, the count and the number of attempts.
<1>a. ASSUME NEW p, \A c \in Calls \ {p} : pc'[c] = pc[c] /\ work'[c] = work[c],
             endpoint' = endpoint, endpoint \/ (Posting(w, d)' => Posting(w, d)),
             A \in Nat, A2 \in Nat, A2 <= A, Count(w, d)' = Count(w, d),
             posts'[d] = posts[d], Causes(d) <= Causes(d)', DueLess(p) <= 0
      PROVE  Covered(w, d)'
  <2>1. Coming(w, d) \in Nat /\ Coming(w, d)' \in Nat /\ Coming(w, d)' <= Coming(w, d) + 0
    BY <1>a, <1>0, ComingChanges
  <2>2. Causes(d) + 0 <= Causes(d)'
    BY <1>a, <1>1
  <2>3. posts'[d] + DueLess(p) + 0 <= posts[d] + MAX_ATTEMPTS * 0
    <3>1. DueLess(p) \in Int
      BY <1>0 DEF Due
    <3> HIDE DEF DueLess
    <3> QED
      BY <1>a, <1>0, <1>1, <3>1
  <2> QED
    BY <1>a, <1>0, <2>1, <2>2, <2>3, CoversNext
\* What is paid for another job.
<1>b. ASSUME NEW p, \A c \in Calls \ {p} : pc'[c] = pc[c] /\ work'[c] = work[c],
             endpoint' = endpoint, endpoint \/ (Posting(w, d)' => Posting(w, d)),
             A \in Nat, A2 \in Nat, A2 <= A + 1,
             posts'[d] = posts[d], Causes(d) + 1 <= Causes(d)', DueLess(p) <= 0
      PROVE  Covered(w, d)'
  <2>1. Coming(w, d) \in Nat /\ Coming(w, d)' \in Nat /\ Coming(w, d)' <= Coming(w, d) + MAX_ATTEMPTS
    BY <1>b, <1>0, ComingChanges
  <2>3. posts'[d] + DueLess(p) + MAX_ATTEMPTS <= posts[d] + MAX_ATTEMPTS * 1
    <3>1. DueLess(p) \in Int
      BY <1>0 DEF Due
    <3> HIDE DEF DueLess
    <3> QED
      BY <1>b, <1>0, <1>1, <3>1
  <2> QED
    BY <1>b, <1>0, <2>1, <2>3, CoversNext
\* A call moves, and the worker does not.
<1>c. UNCHANGED <<pc[w], work[w], copy[w]>>
        => /\ (Posting(w, d)' <=> Posting(w, d)) /\ (Spent(w)' <=> Spent(w))
           /\ (job' = job => \A i \in Jobs : Waits(w, i)' <=> Waits(w, i))
           /\ (row'[d] = row[d] /\ seen'[w] = seen[w] => Count(w, d)' = Count(w, d))
  BY DEF Posting, At, Spent, Waits, Count, Decides
<1>d. UNCHANGED <<pc, work>> => \A c \in Calls \ {w} : pc'[c] = pc[c] /\ work'[c] = work[c]
  OBVIOUS
<1>e. DueLess(w) = 0
  BY <1>0
\* Nobody moves, and a job changes.
<1>f. ASSUME UNCHANGED <<pc, work, copy, seen, row, endpoint>>, posts'[d] = posts[d],
             A \in Nat, A2 \in Nat, (A2 <= A /\ Causes(d) <= Causes(d)') \/ (A2 <= A + 1 /\ Causes(d) + 1 <= Causes(d)')
      PROVE  Covered(w, d)'
  <2>1. (Posting(w, d)' => Posting(w, d)) /\ Count(w, d)' = Count(w, d)
    BY <1>c, <1>f
  <2>2. endpoint' = endpoint /\ (\A c \in Calls \ {w} : pc'[c] = pc[c] /\ work'[c] = work[c]) /\ DueLess(w) <= 0
    BY <1>d, <1>e, <1>f
  <2> HIDE DEF A, A2, DueLess
  <2>3. CASE A2 <= A /\ Causes(d) <= Causes(d)'
    BY <1>a, <1>f, <2>1, <2>2, <2>3
  <2>4. CASE A2 <= A + 1 /\ Causes(d) + 1 <= Causes(d)'
    BY <1>b, <1>f, <2>1, <2>2, <2>4
  <2> QED
    BY <1>f, <2>3, <2>4
<1>5. ASSUME NEW j \in Jobs, Take(w, j) PROVE Covered(w, d)'
  <2>1. /\ pc[w] = "idle" /\ pc'[w] = "load" /\ job[j] = "ready" /\ job'[j] = "active"
        /\ \A i \in Jobs \ {j} : job'[i] = job[i]
        /\ \A c \in Calls \ {w} : pc'[c] = pc[c] /\ work'[c] = work[c]
    BY <1>0, <1>5 DEF Take, TypeOK
  <2>2. /\ \A i \in Jobs : Waits(w, i)' <=> Waits(w, i)
        /\ Count(w, d)' = Count(w, d) /\ ~Posting(w, d)'
    BY <1>5, <2>1 DEF Waits, Spent, Count, Decides, At, Posting, Take
  <2>3. A \in Nat /\ A2 \in Nat /\ A2 <= A
    BY <1>3, <2>2
  <2>4. Causes(d) <= Causes(d)' /\ posts' = posts /\ endpoint' = endpoint
    BY <1>5, <1>2 DEF Take
  <2> HIDE DEF A, A2, DueLess
  <2> QED
    BY <1>1, <1>a, <1>e, <2>1, <2>2, <2>3, <2>4
<1>6. ASSUME NEW j \in Jobs, Stall(j) \/ Remove(j) PROVE Covered(w, d)'
  <2>1. (\A i \in Jobs \ {j} : job'[i] = job[i]) /\ UNCHANGED <<pc, work, copy, seen, row, posts, endpoint>>
    BY <1>0, <1>6 DEF Stall, Remove, TypeOK
  <2>2. \A i \in Jobs \ {j} : Waits(w, i)' <=> Waits(w, i)
    BY <2>1 DEF Waits, Spent
  <2>3. Waits(w, j)' => Waits(w, j)
    <3>1. CASE Stall(j)
      <4>1. job[j] = "active" /\ (pc[w] # "idle" => work[w] # j)
        BY <3>1 DEF Stall
      <4> QED
        BY <4>1 DEF Waits, Spent
    <3>2. CASE Remove(j)
      <4>1. job'[j] = "none"
        BY <1>0, <3>2 DEF Remove, TypeOK
      <4> QED
        BY <4>1 DEF Waits
    <3> QED
      BY <1>6, <3>1, <3>2
  <2>4. A \in Nat /\ A2 \in Nat /\ A2 <= A
    BY <2>2, <2>3, WaitingChanges
  <2>5. Causes(d) <= Causes(d)'
    BY <1>6, <1>2 DEF Stall, Remove
  <2> HIDE DEF A, A2
  <2> QED
    BY <1>1, <1>f, <2>1, <2>4, <2>5
\* A worker that is about to POST has a job that waits.
<1>g. Posting(w, d) => A \in Nat \ {0}
  <2> SUFFICES ASSUME Posting(w, d) PROVE A \in Nat \ {0}
    OBVIOUS
  <2>1. work[w] \in Jobs /\ work[w].delivery = d /\ Waits(w, work[w])
    BY <1>0, <1>1, <1>4 DEF Posting, At, Waits, Spent
  <2> QED
    BY <2>1, WaitingCounts
<1>7. CASE DeleteEndpoint
  <2>1. UNCHANGED <<pc, work, copy, seen, row, posts, job>> /\ endpoint /\ ~endpoint'
    BY <1>0, <1>7 DEF DeleteEndpoint, TypeOK
  <2>2. A \in Nat /\ A2 \in Nat /\ (Posting(w, d)' <=> Posting(w, d))
    BY <1>3, <1>c, <2>1
  <2>3. Coming(w, d)' = IF Posting(w, d) THEN 1 ELSE 0
    BY <2>1, <2>2 DEF Coming, Attempts
  <2>4. Coming(w, d) = IF A = 0 THEN 0 ELSE A + Left(Count(w, d))
    BY <2>1 DEF Coming, Attempts
  <2>5. Left(Count(w, d)) \in Nat
    BY <1>0, CountIsNat, LeftIsPart
  <2>6. Coming(w, d) \in Nat /\ Coming(w, d)' \in Nat /\ Coming(w, d)' <= Coming(w, d) + 0
    <3> HIDE DEF A
    <3> QED
      BY <1>g, <2>2, <2>3, <2>4, <2>5
  <2>7. Causes(d) + 0 <= Causes(d)'
    BY <1>1, <1>2, <1>7 DEF DeleteEndpoint
  <2>8. posts'[d] + DueLess(w) + 0 <= posts[d] + MAX_ATTEMPTS * 0
    <3> HIDE DEF DueLess
    <3> QED
      BY <1>0, <1>1, <1>e, <2>1
  <2> QED
    BY <1>0, <1>d, <2>1, <2>6, <2>7, <2>8, CoversNext
<1>8. ASSUME NEW k, NEW found, FindRetries(k, found) PROVE Covered(w, d)'
  <2>1. UNCHANGED <<pc, work, copy, seen, row, posts, endpoint, job>> /\ Causes(d) <= Causes(d)'
    BY <1>8, <1>2 DEF FindRetries
  <2>2. A \in Nat /\ A2 \in Nat /\ A2 <= A
    BY <1>3, <1>c, <2>1
  <2> HIDE DEF A, A2
  <2> QED
    BY <1>1, <1>f, <2>1, <2>2
\* add() leaves the other jobs alone, and does one of four things.
<1>h. ASSUME NEW e, NEW delay, Enqueue(e, delay)
      PROVE  /\ \A i \in Jobs \ {Named(e, delay)} : job'[i] = job[i]
             /\ job[Named(e, delay)] # "none" => job' = job
             /\ faults' = faults \/ (faults' = faults + 1 /\ job' = job)
  BY <1>0, <1>h DEF Enqueue, TypeOK
<1>9. ASSUME NEW k \in Crons, NEW e, AddRetry(k, e) PROVE Covered(w, d)'
  <2>1. /\ UNCHANGED <<pc, work, copy, seen, row, posts, endpoint, known, redeliveries>>
        /\ retries' = IF endpoint /\ job' # job THEN retries + 1 ELSE retries
        /\ faults' = faults \/ (faults' = faults + 1 /\ job' = job)
        /\ \A i \in Jobs \ {Named(e, Now)} : job'[i] = job[i]
    BY <1>9, <1>h DEF AddRetry
  <2>2. \A i \in Jobs \ {Named(e, Now)} : Waits(w, i)' <=> Waits(w, i)
    BY <2>1 DEF Waits, Spent
  <2>3. A \in Nat /\ A2 \in Nat /\ A2 <= A + 1 /\ (job' = job => A2 <= A)
    BY <1>3, <1>c, <2>1, <2>2, WaitingChanges
  <2>4. Causes(d) <= Causes(d)' /\ (endpoint /\ job' # job => Causes(d) + 1 <= Causes(d)')
    <3>1. faults \in Nat /\ redeliveries \in Nat /\ retries \in Nat /\ Created(d) \in Nat
      BY <1>0 DEF TypeOK, Created
    <3>2. Created(d)' = Created(d)
      BY <2>1 DEF Created
    <3> QED
      BY <2>1, <3>1, <3>2 DEF Causes
  <2>5. CASE job' = job \/ endpoint
    <3>1. (A2 <= A /\ Causes(d) <= Causes(d)') \/ (A2 <= A + 1 /\ Causes(d) + 1 <= Causes(d)')
      <4> HIDE DEF A, A2
      <4> QED
        BY <2>3, <2>4, <2>5
    <3> HIDE DEF A, A2
    <3> QED
      BY <1>f, <2>1, <2>3, <3>1
  <2>6. CASE ~endpoint
    <3>1. (Posting(w, d)' <=> Posting(w, d)) /\ ~endpoint'
      BY <1>c, <2>1, <2>6
    <3>2. /\ Coming(w, d) \in Nat /\ Coming(w, d)' \in Nat /\ Coming(w, d)' <= Coming(w, d) + 0
      BY <2>6, <3>1 DEF Coming, Attempts
    <3>3. posts'[d] + DueLess(w) + 0 <= posts[d] + MAX_ATTEMPTS * 0
      <4> HIDE DEF DueLess
      <4> QED
        BY <1>0, <1>1, <1>e, <2>1
    <3>4. Causes(d) + 0 <= Causes(d)'
      BY <1>1, <2>4
    <3> QED
      BY <1>0, <1>d, <2>1, <3>2, <3>3, <3>4, CoversNext
  <2> QED
    BY <2>5, <2>6
<1>i. \A c \in Calls :
        /\ Due(d)[c] = IF ~At(c, d) THEN 0
                       ELSE IF pc[c] \in {"add", "load", "post"} THEN MAX_ATTEMPTS ELSE MAX_ATTEMPTS - 1
        /\ Due(d)'[c] = IF ~At(c, d)' THEN 0
                        ELSE IF pc'[c] \in {"add", "load", "post"} THEN MAX_ATTEMPTS ELSE MAX_ATTEMPTS - 1
  BY DEF Due
<1>10. ASSUME NEW c \in Calls, NEW e \in Deliveries, Api(c, e) PROVE Covered(w, d)'
  <2>1. PICK s \in {"add", "post", "load"} : Start(c, e, s)
    BY <1>10 DEF Api, Create, Redeliver
  <2>2. /\ \A q \in Calls \ {c} : pc'[q] = pc[q] /\ work'[q] = work[q]
        /\ UNCHANGED <<pc[w], work[w], copy[w], seen[w], row, job, posts, endpoint>>
        /\ pc[c] = "idle" /\ pc'[c] = s /\ work'[c].delivery = e
    BY <1>0, <2>1 DEF Start, TypeOK, Named, Processes
  <2>3. A \in Nat /\ A2 \in Nat /\ A2 <= A /\ (Posting(w, d)' <=> Posting(w, d)) /\ Count(w, d)' = Count(w, d)
    BY <1>3, <1>c, <2>2
  <2>4. Due(d)[c] = 0 /\ Due(d)'[c] = IF e = d THEN MAX_ATTEMPTS ELSE 0
    BY <1>i, <2>2 DEF At
  <2>5. faults \in Nat /\ redeliveries \in Nat /\ retries \in Nat
    BY <1>0 DEF TypeOK
  <2>6. faults' = faults /\ retries' = retries
    BY <2>1 DEF Start
  <2>7. CASE e = d
    <3>1. Causes(d) + 1 <= Causes(d)'
      <4>1. CASE \E s2 : Create(c, e, s2)
        <5>1. d \notin known /\ d \in known' /\ redeliveries' = redeliveries
          BY <2>7, <4>1 DEF Create
        <5>2. Created(d) = 0 /\ Created(d)' = 1
          BY <5>1 DEF Created
        <5> QED
          BY <2>5, <2>6, <5>1, <5>2 DEF Causes
      <4>2. CASE Redeliver(c, e)
        <5>1. known' = known /\ redeliveries' = redeliveries + 1
          BY <4>2 DEF Redeliver
        <5>2. Created(d)' = Created(d) /\ Created(d) \in Nat
          BY <5>1 DEF Created
        <5> QED
          BY <2>5, <2>6, <5>1, <5>2 DEF Causes
      <4> QED
        BY <1>10, <4>1, <4>2 DEF Api
    <3>2. Coming(w, d) \in Nat /\ Coming(w, d)' \in Nat /\ Coming(w, d)' <= Coming(w, d) + 0
      BY <1>0, <2>2, <2>3, ComingChanges
    <3>3. posts'[d] + DueLess(c) + 0 <= posts[d] + MAX_ATTEMPTS * 1
      BY <1>0, <1>1, <2>2, <2>4, <2>7
    <3> QED
      BY <1>0, <2>2, <3>1, <3>2, <3>3, CoversNext
  <2>8. CASE e # d
    <3>1. Causes(d) <= Causes(d)'
      <4>1. CASE \E s2 : Create(c, e, s2)
        <5>1. (d \in known' <=> d \in known) /\ redeliveries' = redeliveries
          BY <2>8, <4>1 DEF Create
        <5>2. Created(d)' = Created(d) /\ Created(d) \in Nat
          BY <5>1 DEF Created
        <5> QED
          BY <2>5, <2>6, <5>1, <5>2 DEF Causes
      <4>2. CASE Redeliver(c, e)
        <5>1. known' = known /\ redeliveries' = redeliveries + 1
          BY <4>2 DEF Redeliver
        <5>2. Created(d)' = Created(d) /\ Created(d) \in Nat
          BY <5>1 DEF Created
        <5> QED
          BY <2>5, <2>6, <5>1, <5>2 DEF Causes
      <4> QED
        BY <1>10, <4>1, <4>2 DEF Api
    <3>2. DueLess(c) <= 0
      BY <2>4, <2>8
    <3> HIDE DEF A, A2, DueLess
    <3> QED
      BY <1>a, <2>2, <2>3, <3>1, <3>2
  <2> QED
    BY <2>7, <2>8
<1>11. ASSUME NEW p \in Processes, Load(p) PROVE Covered(w, d)'
  <2>1. /\ \A c \in Calls \ {p} : pc'[c] = pc[c] /\ work'[c] = work[c]
        /\ UNCHANGED <<row, job, work, posts, endpoint>> /\ Causes(d) <= Causes(d)'
    BY <1>0, <1>2, <1>11 DEF Load, TypeOK
  <2>2. CASE p # w
    <3>1. UNCHANGED <<pc[w], work[w], copy[w], seen[w]>>
      BY <1>0, <1>11, <2>2 DEF Load, TypeOK
    <3>2. A \in Nat /\ A2 \in Nat /\ A2 <= A /\ (Posting(w, d)' <=> Posting(w, d)) /\ Count(w, d)' = Count(w, d)
      BY <1>3, <1>c, <2>1, <3>1
    <3>3. p \in Calls /\ p \notin Workers /\ pc[p] = "load" /\ pc'[p] = "post" /\ work'[p] = work[p]
      BY <1>0, <1>11, <2>2 DEF Load, TypeOK
    <3>4. DueLess(p) <= 0
      BY <1>0, <1>i, <3>3 DEF At
    <3> HIDE DEF A, A2, DueLess
    <3> QED
      BY <1>a, <2>1, <3>2, <3>4
  <2>3. CASE p = w
    <3>1. /\ pc[w] = "load" /\ work'[w] = work[w] /\ copy'[w] = row[work[w].delivery]
          /\ pc'[w] = IF ~endpoint THEN "done" ELSE "post"
      BY <1>0, <1>11, <2>3 DEF Load, TypeOK
    <3>2. Count(w, d)' = Count(w, d) /\ (endpoint \/ ~Posting(w, d)')
      BY <2>1, <3>1 DEF Count, Decides, At, Posting
    <3>5. PICK j \in Jobs : j = work[w]
      BY <1>0, <1>1
    <3>3. (\A i \in Jobs \ {j} : Waits(w, i)' <=> Waits(w, i)) /\ (Waits(w, j)' => Waits(w, j))
      BY <2>1, <3>1, <3>5 DEF Waits, Spent
    <3>4. A \in Nat /\ A2 \in Nat /\ A2 <= A
      BY <3>3, WaitingChanges
    <3> HIDE DEF A, A2, DueLess
    <3> QED
      BY <1>a, <1>e, <2>1, <2>3, <3>2, <3>4
  <2> QED
    BY <2>2, <2>3
<1>12. ASSUME NEW p \in Processes, Save(p) PROVE Covered(w, d)'
  <2>1. /\ \A c \in Calls \ {p} : pc'[c] = pc[c] /\ work'[c] = work[c]
        /\ UNCHANGED <<row, job, work, copy, posts, endpoint>> /\ Causes(d) <= Causes(d)'
    BY <1>0, <1>2, <1>12 DEF Save, TypeOK
  <2>2. CASE p # w
    <3>1. UNCHANGED <<pc[w], work[w], copy[w], seen[w]>>
      BY <1>0, <1>12, <2>2 DEF Save, TypeOK
    <3>2. A \in Nat /\ A2 \in Nat /\ A2 <= A /\ (Posting(w, d)' <=> Posting(w, d)) /\ Count(w, d)' = Count(w, d)
      BY <1>3, <1>c, <2>1, <3>1
    <3>3. p \in Calls /\ pc[p] = "save" /\ pc'[p] = "update" /\ work'[p] = work[p]
      BY <1>0, <1>12, <2>2 DEF Save, TypeOK
    <3>4. DueLess(p) <= 0
      BY <1>0, <1>i, <3>3 DEF At
    <3> HIDE DEF A, A2, DueLess
    <3> QED
      BY <1>a, <2>1, <3>2, <3>4
  <2>3. CASE p = w
    <3>1. /\ pc[w] = "save" /\ pc'[w] = "update" /\ work'[w] = work[w] /\ copy'[w] = copy[w]
          /\ seen'[w] = row[work[w].delivery]
      BY <1>0, <1>12, <2>3 DEF Save, TypeOK
    <3>2. Count(w, d)' = Count(w, d) /\ ~Posting(w, d)'
      BY <2>1, <3>1 DEF Count, Decides, At, Posting
    <3>3. \A i \in Jobs : Waits(w, i)' <=> Waits(w, i)
      BY <2>1, <3>1 DEF Waits, Spent
    <3>4. A \in Nat /\ A2 \in Nat /\ A2 <= A
      BY <1>3, <3>3
    <3> HIDE DEF A, A2, DueLess
    <3> QED
      BY <1>a, <1>e, <2>1, <2>3, <3>2, <3>4
  <2> QED
    BY <2>2, <2>3
<1>13. ASSUME NEW p \in Processes, Post(p) PROVE Covered(w, d)'
  <2>1. /\ \A c \in Calls \ {p} : pc'[c] = pc[c] /\ work'[c] = work[c]
        /\ UNCHANGED <<row, job, work, seen, endpoint>> /\ Causes(d) <= Causes(d)'
        /\ pc[p] = "post" /\ pc'[p] = "save"
        /\ posts'[d] = IF work[p].delivery = d THEN posts[d] + 1 ELSE posts[d]
    BY <1>0, <1>1, <1>2, <1>13 DEF Post, TypeOK
  <2>2. CASE p # w
    <3>1. UNCHANGED <<pc[w], work[w], copy[w], seen[w]>> /\ p \in Calls
      BY <1>0, <1>13, <2>2 DEF Post, TypeOK
    <3>2. A \in Nat /\ A2 \in Nat /\ A2 <= A /\ (Posting(w, d)' <=> Posting(w, d)) /\ Count(w, d)' = Count(w, d)
      BY <1>3, <1>c, <2>1, <3>1
    <3>3. Coming(w, d) \in Nat /\ Coming(w, d)' \in Nat /\ Coming(w, d)' <= Coming(w, d) + 0
      BY <1>0, <2>1, <3>2, ComingChanges
    <3>4. posts'[d] + DueLess(p) + 0 <= posts[d] + MAX_ATTEMPTS * 0
      BY <1>0, <1>1, <1>i, <2>1, <3>1 DEF At
    <3>5. Causes(d) + 0 <= Causes(d)'
      BY <1>1, <2>1
    <3> QED
      BY <1>0, <2>1, <3>3, <3>4, <3>5, CoversNext
  <2>3. CASE p = w
    <3>1. PICK j \in Jobs : j = work[w]
      BY <1>0, <1>1
    <3>2. PICK ok \in BOOLEAN : copy'[w] = Answered(copy[w], ok)
      BY <1>0, <1>13, <2>3 DEF Post, TypeOK
    <3>3. \A i \in Jobs \ {j} : Waits(w, i)' <=> Waits(w, i)
      BY <2>1, <3>1 DEF Waits, Spent
    <3>4. job[j] = "active" /\ Waits(w, j)
      BY <1>4, <2>1, <2>3, <3>1 DEF Waits, Spent
    <3>5. A \in Nat /\ A2 \in Nat /\ A2 <= A
      BY <3>3, <3>4, WaitingChanges
    <3>6. CASE j.delivery # d
      <4>1. ~At(w, d) /\ ~At(w, d)'
        BY <2>1, <3>1, <3>6 DEF At
      <4>2. Count(w, d)' = Count(w, d) /\ ~Posting(w, d)'
        BY <2>1, <4>1 DEF Count, Posting
      <4>3. posts'[d] = posts[d]
        BY <2>1, <2>3, <3>1, <3>6
      <4> HIDE DEF A, A2, DueLess
      <4> QED
        BY <1>a, <1>e, <2>1, <2>3, <3>5, <4>2, <4>3
    <3>7. CASE j.delivery = d
      <4>1. At(w, d) /\ At(w, d)' /\ Posting(w, d) /\ ~Posting(w, d)'
        BY <2>1, <2>3, <3>1, <3>7 DEF At, Posting
      <4>2. PICK m \in Nat : m = copy[w].attemptCount
        BY <1>0 DEF TypeOK, Rows
      <4>3. Count(w, d) = m /\ Count(w, d)' = m + 1
        BY <2>1, <2>3, <3>2, <4>1, <4>2 DEF Count, Decides, Answered
      <4>4. PICK a, a2 \in Nat : a = A /\ a2 = A2
        BY <3>5
      <4>5. a # 0 /\ a2 <= a
        BY <1>g, <3>5, <4>1, <4>4
      <4>6. m + 1 >= MAX_ATTEMPTS => a2 = a - 1
        <5> SUFFICES ASSUME m + 1 >= MAX_ATTEMPTS PROVE a2 = a - 1
          OBVIOUS
        <5>1. ~Retriable(copy'[w])
          BY <1>0, <3>2, <4>2 DEF Answered, Retriable
        <5>2. ~Waits(w, j)'
          BY <2>1, <2>3, <3>1, <3>4, <5>1 DEF Waits, Spent
        <5>3. A2 = A - 1
          BY <3>3, <3>4, <3>7, <5>2, WaitingChanges
        <5> QED
          BY <4>4, <5>3
      <4>7. Coming(w, d) = IF ~endpoint THEN 1 ELSE IF a = 0 THEN 0 ELSE a + Left(m)
        BY <4>1, <4>3, <4>4 DEF Coming, Attempts
      <4>8. Coming(w, d)' = IF ~endpoint THEN 0 ELSE IF a2 = 0 THEN 0 ELSE a2 + Left(m + 1)
        BY <2>1, <4>1, <4>3, <4>4 DEF Coming, Attempts
      <4>9. posts'[d] + DueLess(p) + (-1) <= posts[d] + MAX_ATTEMPTS * 0
        <5>1. posts'[d] = posts[d] + 1 /\ DueLess(p) = 0
          BY <1>e, <2>1, <2>3, <3>1, <3>7
        <5> HIDE DEF DueLess
        <5> QED
          BY <1>0, <1>1, <5>1
      <4>10. Causes(d) + 0 <= Causes(d)'
        BY <1>1, <2>1
      <4>11. /\ Coming(w, d) \in Nat /\ Coming(w, d)' \in Nat
             /\ Coming(w, d)' <= Coming(w, d) + (-1)
        <5> HIDE DEF A, A2
        <5>1. CASE ~endpoint
          BY <4>7, <4>8, <5>1
        <5>2. CASE endpoint /\ m + 1 >= MAX_ATTEMPTS
          <6>1. Left(m) = 0 /\ Left(m + 1) = 0
            BY <1>0, <5>2 DEF Left
          <6> QED
            BY <4>4, <4>5, <4>6, <4>7, <4>8, <5>2, <6>1
        <5>3. CASE endpoint /\ m + 1 < MAX_ATTEMPTS
          <6>1. Left(m + 1) = Left(m) - 1 /\ Left(m) \in Nat \ {0}
            BY <1>0, <5>3 DEF Left
          <6> QED
            BY <4>4, <4>5, <4>7, <4>8, <5>3, <6>1
        <5>4. m + 1 >= MAX_ATTEMPTS \/ m + 1 < MAX_ATTEMPTS
          BY <1>0
        <5> QED
          BY <5>1, <5>2, <5>3, <5>4
      <4> QED
        BY <1>0, <2>1, <4>9, <4>10, <4>11, CoversNext
    <3> QED
      BY <3>6, <3>7
  <2> QED
    BY <2>2, <2>3
<1>14. ASSUME NEW p \in Processes, Update(p) PROVE Covered(w, d)'
  <2> DEFINE e == work[p].delivery
  <2>1. /\ \A c \in Calls \ {p} : pc'[c] = pc[c] /\ work'[c] = work[c]
        /\ UNCHANGED <<job, posts, endpoint>> /\ Causes(d) <= Causes(d)' /\ pc[p] = "update"
    <3>1. \A c \in Calls \ {p} : pc'[c] = pc[c] /\ work'[c] = work[c]
      <4>1. CASE p \in Workers
        <5>1. UNCHANGED work /\ pc' = [pc EXCEPT ![p] = IF Retriable(copy[p]) THEN "add" ELSE "done"]
          BY <1>14, <4>1 DEF Update
        <5> QED
          BY <1>0, <5>1 DEF TypeOK, Processes
      <4>2. CASE p \notin Workers
        <5>1. Leave(p)
          BY <1>14, <4>2 DEF Update
        <5> QED
          BY <1>0, <5>1 DEF Leave, TypeOK, Processes
      <4> QED
        BY <4>1, <4>2
    <3>2. UNCHANGED <<job, posts, endpoint>> /\ Causes(d) <= Causes(d)' /\ pc[p] = "update"
      BY <1>2, <1>14 DEF Update
    <3> QED
      BY <3>1, <3>2
  <2>2. PICK x \in Updated(copy[p], seen[p], row[e]) : row' = [row EXCEPT ![e] = x]
    BY <1>14 DEF Update
  <2>3. row'[d] = IF e = d THEN x ELSE row[d]
    BY <1>0, <2>2 DEF TypeOK
  <2>4. CASE p # w
    <3>1. Leave(p) /\ p \in Calls
      BY <1>0, <1>14, <2>4 DEF Update, Processes
    <3>2. UNCHANGED <<pc[w], work[w], copy[w], seen[w]>> /\ pc'[p] = "idle"
      BY <1>0, <2>4, <3>1 DEF Leave, TypeOK
    <3>3. A \in Nat /\ A2 \in Nat /\ A2 <= A /\ (Posting(w, d)' <=> Posting(w, d))
      BY <1>3, <1>c, <2>1, <3>2
    <3>4. Due(d)'[p] = 0 /\ Due(d)[p] = IF e = d THEN MAX_ATTEMPTS - 1 ELSE 0
      BY <1>i, <2>1, <3>1, <3>2 DEF At
    <3>5. CASE e = d
      <4>1. /\ Coming(w, d) \in Nat /\ Coming(w, d)' \in Nat
            /\ Coming(w, d)' <= Coming(w, d) + (MAX_ATTEMPTS - 1)
        BY <1>0, <2>1, <3>3, ComingChanges
      <4>2. posts'[d] + DueLess(p) + (MAX_ATTEMPTS - 1) <= posts[d] + MAX_ATTEMPTS * 0
        BY <1>0, <1>1, <2>1, <3>1, <3>4, <3>5
      <4>3. Causes(d) + 0 <= Causes(d)' /\ MAX_ATTEMPTS - 1 \in Int
        BY <1>0, <1>1, <2>1
      <4> QED
        BY <1>0, <2>1, <4>1, <4>2, <4>3, CoversNext
    <3>6. CASE e # d
      <4>1. Count(w, d)' = Count(w, d)
        BY <1>c, <2>3, <3>2, <3>6
      <4>2. DueLess(p) <= 0 /\ posts'[d] = posts[d]
        BY <2>1, <3>4, <3>6
      <4> HIDE DEF A, A2, DueLess, e
      <4> QED
        BY <1>a, <2>1, <3>3, <4>1, <4>2
    <3> QED
      BY <3>5, <3>6
  <2>5. CASE p = w
    <3>1. /\ pc'[w] = IF Retriable(copy[w]) THEN "add" ELSE "done"
          /\ UNCHANGED <<work, copy>>
      BY <1>0, <1>14, <2>5 DEF Update, TypeOK
    <3>2. \A i \in Jobs : Waits(w, i)' <=> Waits(w, i)
      BY <2>1, <2>5, <3>1 DEF Waits, Spent
    <3>3. A \in Nat /\ A2 \in Nat /\ A2 <= A
      BY <1>3, <3>2
    <3>4. x.attemptCount = IF copy[w].attemptCount = seen[w].attemptCount THEN row[e].attemptCount
                                                                          ELSE copy[w].attemptCount
      BY <2>2, <2>5 DEF Updated
    <3>5. Count(w, d) = IF e = d /\ seen[w].attemptCount # copy[w].attemptCount
                          THEN copy[w].attemptCount ELSE row[d].attemptCount
      BY <2>1, <2>5 DEF Count, Decides, At
    <3>6. Count(w, d)' = row'[d].attemptCount /\ ~Posting(w, d)'
      BY <3>1 DEF Count, Decides, Posting
    <3>7. Count(w, d)' = Count(w, d)
      BY <2>3, <3>4, <3>5, <3>6
    <3>8. posts'[d] = posts[d]
      BY <2>1
    <3> HIDE DEF A, A2, DueLess, e
    <3> QED
      BY <1>a, <1>e, <2>1, <2>5, <3>3, <3>6, <3>7, <3>8
  <2> QED
    BY <2>4, <2>5
<1>15. ASSUME NEW p \in Processes, Add(p) PROVE Covered(w, d)'
  <2>0. PICK e \in Deliveries : e = work[p].delivery
    BY <1>1
  <2>1. /\ UNCHANGED <<row, posts, endpoint, known, redeliveries, retries>> /\ pc[p] = "add"
        /\ faults' = faults \/ faults' = faults + 1
    BY <1>15, <1>h DEF Add
  <2>2. Causes(d) <= Causes(d)' /\ Causes(d) + 0 <= Causes(d)'
    <3>1. faults \in Nat /\ redeliveries \in Nat /\ retries \in Nat /\ Created(d) \in Nat
      BY <1>0 DEF TypeOK, Created
    <3>2. Created(d)' = Created(d)
      BY <2>1 DEF Created
    <3> QED
      BY <2>1, <3>1, <3>2 DEF Causes
  <2>3. CASE p # w
    <3>1. Leave(p) /\ p \in Calls /\ Enqueue(e, Now)
      BY <1>0, <1>15, <2>0, <2>3 DEF Add, Processes
    <3>2. /\ UNCHANGED <<pc[w], work[w], copy[w], seen[w]>> /\ pc'[p] = "idle"
          /\ \A c \in Calls \ {p} : pc'[c] = pc[c] /\ work'[c] = work[c]
      BY <1>0, <2>3, <3>1 DEF Leave, TypeOK
    <3>3. (Posting(w, d)' <=> Posting(w, d)) /\ Count(w, d)' = Count(w, d) /\ (Spent(w)' <=> Spent(w))
      <4>1. row'[d] = row[d] /\ seen'[w] = seen[w]
        BY <2>1, <3>2
      <4>2. UNCHANGED <<pc[w], work[w], copy[w]>>
        BY <3>2
      <4>3. Spent(w)' <=> Spent(w)
        BY <1>c, <4>2
      <4>4. (Posting(w, d)' <=> Posting(w, d)) /\ Count(w, d)' = Count(w, d)
        BY <1>c, <4>1, <4>2
      <4> QED
        BY <4>3, <4>4
    <3>4. PICK j : j = Named(e, Now) /\ j.delivery = e
      <4>1. Named(e, Now).delivery = e
        BY DEF Named
      <4> QED
        BY <4>1
    <3>5. \A i \in Jobs \ {j} : Waits(w, i)' <=> Waits(w, i)
      BY <1>h, <3>1, <3>2, <3>3, <3>4 DEF Waits
    <3>6. A \in Nat /\ A2 \in Nat /\ A2 <= A + 1 /\ (e # d => A2 <= A)
      BY <3>4, <3>5, WaitingChanges
    <3>7. Due(d)'[p] = 0 /\ Due(d)[p] = IF e = d THEN MAX_ATTEMPTS ELSE 0
      BY <1>i, <2>0, <2>1, <3>1, <3>2 DEF At
    <3>8. CASE e = d
      <4>1. /\ Coming(w, d) \in Nat /\ Coming(w, d)' \in Nat
            /\ Coming(w, d)' <= Coming(w, d) + MAX_ATTEMPTS
        BY <1>0, <2>1, <3>3, <3>6, ComingChanges
      <4>2. posts'[d] + DueLess(p) + MAX_ATTEMPTS <= posts[d] + MAX_ATTEMPTS * 0
        BY <1>0, <1>1, <2>1, <3>1, <3>7, <3>8
      <4> QED
        BY <1>0, <2>2, <3>2, <4>1, <4>2, CoversNext
    <3>9. CASE e # d
      <4>1. DueLess(p) <= 0 /\ posts'[d] = posts[d]
        BY <2>1, <3>7, <3>9
      <4> HIDE DEF A, A2, DueLess
      <4> QED
        BY <1>a, <2>1, <2>2, <3>2, <3>3, <3>6, <3>9, <4>1
    <3> QED
      BY <3>8, <3>9
  <2>4. CASE p = w
    <3>1. PICK delay : Enqueue(e, delay)
      <4>1. PICK delay \in DelaysAfter(copy[p].attemptCount) : Enqueue(work[p].delivery, delay)
        BY <1>15, <2>4 DEF Add
      <4> QED
        BY <2>0, <4>1
    <3>2. work' = work /\ pc'[w] = "done" /\ \A c \in Calls \ {p} : pc'[c] = pc[c] /\ work'[c] = work[c]
      <4>1. UNCHANGED work /\ pc' = [pc EXCEPT ![w] = "done"]
        BY <1>15, <2>4 DEF Add
      <4>2. pc \in [Processes -> Steps] /\ w \in Processes /\ Calls \subseteq Processes
        BY <1>0 DEF TypeOK, Processes
      <4> QED
        BY <2>4, <4>1, <4>2
    <3>3. PICK i \in Jobs, j \in {Named(e, delay)} : i = work[w] /\ i.delivery = e /\ j.delivery = e
      <4>1. Named(e, delay).delivery = e
        BY DEF Named
      <4>2. work[w] \in Jobs /\ work[w].delivery = e
        BY <1>1, <1>0, <2>0, <2>4
      <4> QED
        BY <4>1, <4>2
    <3>4. (\A x \in Jobs \ {j} : job'[x] = job[x]) /\ (job[j] # "none" => job' = job)
      BY <1>h, <3>1, <3>3
    <3>5. ~Spent(w) /\ Spent(w)' /\ job[i] = "active" /\ job'[i] = "active"
      BY <1>4, <2>1, <2>4, <3>2, <3>3, <3>4 DEF Spent
    <3>6. Waits(w, i) /\ ~Waits(w, i)' /\ \A x \in Jobs \ {i, j} : Waits(w, x)' <=> Waits(w, x)
      BY <3>2, <3>3, <3>4, <3>5 DEF Waits
    <3>7. A \in Nat /\ A2 \in Nat /\ A2 <= A
      <4>1. CASE e = d
        BY <3>3, <3>6, <4>1, WaitingMoves
      <4>2. CASE e # d
        <5>1. \A x \in Jobs \ {j} : x.delivery = d => (Waits(w, x)' <=> Waits(w, x))
          BY <3>3, <3>6, <4>2
        <5> QED
          BY <3>3, <4>2, <5>1, WaitingChanges
      <4> QED
        BY <4>1, <4>2
    <3>8. Count(w, d)' = Count(w, d) /\ ~Posting(w, d)' /\ posts'[d] = posts[d]
      BY <2>1, <2>4, <3>2 DEF Count, Decides, Posting
    <3> HIDE DEF A, A2, DueLess
    <3> QED
      BY <1>a, <1>e, <2>1, <2>2, <2>4, <3>2, <3>7, <3>8
  <2> QED
    BY <2>3, <2>4
\* A process leaves, and its job does not wait for it any more.
<1>j. ASSUME NEW p \in Processes, Leave(p)
      PROVE  /\ pc'[p] = "idle" /\ DueLess(p) <= 0
             /\ \A c \in Calls \ {p} : pc'[c] = pc[c] /\ work'[c] = work[c]
             /\ p # w => UNCHANGED <<pc[w], work[w], copy[w], seen[w]>>
  <2>1. /\ pc'[p] = "idle" /\ \A c \in Calls \ {p} : pc'[c] = pc[c] /\ work'[c] = work[c]
        /\ p # w => UNCHANGED <<pc[w], work[w], copy[w], seen[w]>>
    BY <1>0, <1>j DEF Leave, TypeOK
  <2>2. DueLess(p) <= 0
    BY <1>0, <1>i, <2>1 DEF At
  <2> QED
    BY <2>1, <2>2
<1>16. ASSUME NEW p \in Processes, Complete(p) PROVE Covered(w, d)'
  <2>1. p = w /\ pc[w] = "done" /\ Leave(w)
    BY <1>0, <1>16 DEF Complete, Held
  <2>2. PICK j \in Jobs : j = work[w]
    BY <1>0, <1>1
  <2>3. /\ UNCHANGED <<row, posts, endpoint>> /\ Causes(d) <= Causes(d)'
        /\ (\A i \in Jobs \ {j} : job'[i] = job[i]) /\ job'[j] = "kept"
    BY <1>0, <1>2, <1>16, <2>1, <2>2 DEF Complete, TypeOK
  <2>4. pc'[w] = "idle" /\ \A c \in Calls \ {w} : pc'[c] = pc[c] /\ work'[c] = work[c]
    BY <1>0, <1>j, <2>1
  <2>5. (\A i \in Jobs \ {j} : Waits(w, i)' <=> Waits(w, i)) /\ ~Waits(w, j)'
    BY <2>1, <2>2, <2>3, <2>4 DEF Waits, Spent
  <2>6. A \in Nat /\ A2 \in Nat /\ A2 <= A
    BY <2>5, WaitingChanges
  <2>7. Count(w, d)' = Count(w, d) /\ ~Posting(w, d)' /\ posts'[d] = posts[d]
    BY <2>1, <2>3, <2>4 DEF Count, Decides, Posting
  <2> HIDE DEF A, A2, DueLess
  <2> QED
    BY <1>a, <1>e, <2>3, <2>4, <2>6, <2>7
<1>17. ASSUME NEW p \in Processes, Throw(p) \/ Crash(p) PROVE Covered(w, d)'
  <2>1. /\ Leave(p) /\ UNCHANGED <<row, posts, endpoint, known, redeliveries, retries>> /\ faults' = faults + 1
        /\ \A i \in Jobs : i # work[p] \/ p # w => job'[i] = job[i]
    BY <1>0, <1>17 DEF Throw, Crash, TypeOK
  <2>2. Causes(d) + 1 <= Causes(d)'
    <3>1. faults \in Nat /\ redeliveries \in Nat /\ retries \in Nat /\ Created(d) \in Nat
      BY <1>0 DEF TypeOK, Created
    <3>2. Created(d)' = Created(d)
      BY <2>1 DEF Created
    <3> QED
      BY <2>1, <3>1, <3>2 DEF Causes
  <2>3. PICK j \in Jobs : j = work[p]
    BY <1>1
  <2>4. /\ pc'[p] = "idle" /\ DueLess(p) <= 0
        /\ \A c \in Calls \ {p} : pc'[c] = pc[c] /\ work'[c] = work[c]
        /\ p # w => UNCHANGED <<pc[w], work[w], copy[w], seen[w]>>
    BY <1>j, <2>1
  <2>5. A \in Nat /\ A2 \in Nat /\ A2 <= A + 1
    <3>1. \A i \in Jobs \ {j} : Waits(w, i)' <=> Waits(w, i)
      <4>1. CASE p = w
        BY <2>1, <2>3, <2>4, <4>1 DEF Waits, Spent
      <4>2. CASE p # w
        BY <2>1, <2>4, <4>2 DEF Waits, Spent
      <4> QED
        BY <4>1, <4>2
    <3> QED
      BY <3>1, WaitingChanges
  <2>6. (Posting(w, d)' => Posting(w, d)) /\ posts'[d] = posts[d]
    BY <2>1, <2>4 DEF Posting, At
  <2> HIDE DEF A, A2, DueLess
  <2> QED
    BY <1>b, <2>1, <2>2, <2>4, <2>5, <2>6
<1>18. CASE UNCHANGED vars
  <2>1. UNCHANGED <<pc, work, copy, seen, row, posts, endpoint, job>> /\ Causes(d) <= Causes(d)'
    BY <1>2, <1>18 DEF vars
  <2>2. A \in Nat /\ A2 \in Nat /\ A2 <= A
    BY <1>3, <1>c, <2>1
  <2> HIDE DEF A, A2
  <2> QED
    BY <1>1, <1>f, <2>1, <2>2
<1> QED
  BY <1>5, <1>6, <1>7, <1>8, <1>9, <1>10, <1>11, <1>12, <1>13, <1>14, <1>15, <1>16, <1>17, <1>18
     DEF Next, Step, Cron

\* Nothing is created, nothing was attempted, and there are no jobs.
LEMMA BoundInit == ASSUME NEW w, Workers = {w}, Init PROVE BoundInv(w)
<1>1. w \in Processes /\ Calls \subseteq Processes /\ MAX_ATTEMPTS \in Nat \ {0}
  BY WebhooksAssumption DEF Processes
<1>2. Held(w)
  BY <1>1 DEF Init, Held
<1>3. ASSUME NEW d \in Deliveries PROVE Covered(w, d)
  <2>1. posts[d] = 0 /\ Causes(d) = 0 /\ endpoint = TRUE
    BY <1>3 DEF Init, Causes, Created
  <2>2. Total(Waiting(w, d), Jobs) = 0
    <3>1. PICK f : f = Waiting(w, d)
      OBVIOUS
    <3>2. \A j \in Jobs : ~Waits(w, j)
      BY DEF Init, Waits
    <3>3. \A j \in Jobs : f[j] = 0
      BY <3>1, <3>2 DEF Waiting
    <3> QED
      BY <3>1, <3>3, JobsAreFinite, TotalOfNothing
  <2>3. Total(Due(d), Calls) = 0
    <3>1. PICK f : f = Due(d)
      OBVIOUS
    <3>2. \A c \in Calls : f[c] = 0
      BY <1>1, <3>1 DEF Init, Due, At
    <3> QED
      BY <3>1, <3>2, WebhooksAssumption, TotalOfNothing
  <2>4. Coming(w, d) = 0
    BY <2>1, <2>2 DEF Coming, Attempts
  <2> QED
    BY <1>1, <2>1, <2>3, <2>4 DEF Covered
<1> QED
  BY <1>2, <1>3 DEF BoundInv

LEMMA BoundHolds == ASSUME NEW CONSTANT w, Workers = {w} PROVE Spec => [](Inv /\ BoundInv(w))
<1>1. Init => Inv /\ BoundInv(w)
  BY InvInit, BoundInit
<1>2. Inv /\ BoundInv(w) /\ [Next]_vars => (Inv /\ BoundInv(w))'
  <2> SUFFICES ASSUME Inv, BoundInv(w), [Next]_vars PROVE Inv' /\ BoundInv(w)'
    OBVIOUS
  <2>1. Inv' /\ TypeOK'
    BY InvStep DEF Inv
  <2>2. Held(w)'
    BY <2>1, HeldStep DEF BoundInv
  <2>3. ASSUME NEW d \in Deliveries PROVE Covered(w, d)'
    BY <2>1, CoveredStep DEF BoundInv
  <2> QED
    BY <2>1, <2>2, <2>3 DEF BoundInv
<1> QED
  BY <1>1, <1>2, PTL DEF Spec

\* What is covered has been attempted as often as was paid for, at most.
LEMMA BoundIsEnough ==
  ASSUME NEW w, Workers = {w}, Inv, BoundInv(w), NEW d \in Deliveries
  PROVE  posts[d] <= MAX_ATTEMPTS * (1 + faults + redeliveries + retries)
<1>1. /\ TypeOK /\ w \in Processes /\ MAX_ATTEMPTS \in Nat /\ posts[d] \in Nat
      /\ faults \in Nat /\ redeliveries \in Nat /\ retries \in Nat
  BY WebhooksAssumption DEF Inv, TypeOK, Processes
<1>2. Total(Waiting(w, d), Jobs) \in Nat
  <2>1. PICK f : f = Waiting(w, d)
    OBVIOUS
  <2>2. \A j \in Jobs : f[j] \in Nat
    BY <2>1 DEF Waiting
  <2> QED
    BY <2>1, <2>2, JobsAreFinite, TotalIsEnough
<1>3. Total(Due(d), Calls) \in Nat
  <2>1. PICK f : f = Due(d)
    OBVIOUS
  <2>2. \A c \in Calls : f[c] \in Nat
    BY <2>1, WebhooksAssumption DEF Due
  <2> QED
    BY <2>1, <2>2, WebhooksAssumption, TotalIsEnough
<1>4. Coming(w, d) \in Nat
  <2>1. Count(w, d) \in Nat /\ Left(Count(w, d)) \in Nat
    BY <1>1, CountIsNat, LeftIsPart
  <2> QED
    BY <1>2, <2>1 DEF Coming, Attempts
<1>5. PICK b, b2 : b = Causes(d) /\ b2 = 1 + faults + redeliveries + retries
  OBVIOUS
<1>6. b \in Nat /\ b2 \in Nat /\ b + 0 <= b2
  BY <1>1, <1>5 DEF Causes, Created
<1>7. MAX_ATTEMPTS * b + MAX_ATTEMPTS * 0 <= MAX_ATTEMPTS * b2
  BY <1>1, <1>6, PaidFor
<1>8. posts[d] <= MAX_ATTEMPTS * b
  <2>1. posts[d] + Coming(w, d) + Total(Due(d), Calls) <= MAX_ATTEMPTS * b
    BY <1>5 DEF BoundInv, Covered
  <2>2. MAX_ATTEMPTS * b \in Nat
    BY <1>1, <1>6
  <2> QED
    BY <1>1, <1>3, <1>4, <2>1, <2>2
<1>9. MAX_ATTEMPTS * b \in Nat /\ MAX_ATTEMPTS * b2 \in Nat
  BY <1>1, <1>6
<1> QED
  BY <1>1, <1>5, <1>7, <1>8, <1>9

\* With one worker, however many calls, redeliveries, stalled and repeated jobs save
\* their copies over each other, a delivery is attempted at most MAX_ATTEMPTS times
\* for each reason there was to begin.
THEOREM AttemptsStayBounded == Spec => []AttemptsAreBounded
<1>1. CASE Cardinality(Workers) = 1
  <2>1. PICK w : Workers = {w}
    BY <1>1, WebhooksAssumption, FS_Singleton
  <2>2. Inv /\ BoundInv(w) => AttemptsAreBounded
    BY <2>1, BoundIsEnough DEF AttemptsAreBounded
  <2>3. Spec => [](Inv /\ BoundInv(w))
    BY <2>1, BoundHolds
  <2> QED
    BY <2>2, <2>3, PTL
<1>2. CASE Cardinality(Workers) # 1
  <2>1. AttemptsAreBounded
    BY <1>2 DEF AttemptsAreBounded
  <2> QED
    BY <2>1, PTL
<1> QED
  BY <1>1, <1>2

-----------------------------------------------------------------------------
(***************************************************************************)
(* No delivery is forgotten.  What a POST makes of a copy has ended or has *)
(* a date, and so has the row such a copy is saved to, unless another copy *)
(* has taken back what the SELECT of the save had seen.  Before its first  *)
(* save a delivery has a job, or somebody is at work on it.                *)
(***************************************************************************)
Fine(x) == x.deliveredAt \/ x.attemptCount >= MAX_ATTEMPTS \/ x.nextRetryAt
CopiesAreFine == \A p \in Processes : pc[p] \in {"save", "update"} => Fine(copy[p])

\* All that failed are additions of jobs, each of another delivery.
Calm == faults = Cardinality(dropped)
DropsAreFaults == IsFiniteSet(dropped) /\ Cardinality(dropped) <= faults

\* Nobody has died: an active job has its worker.
JobsAreHeld ==
  Calm => \A j \in Jobs : job[j] = "active" => \E w \in Workers : pc[w] # "idle" /\ work[w] = j

\* Calls end in Leave: only workers come to "done".
CallsLeave == \A c \in Calls : pc[c] # "done"

Worked(d) == \E p \in Processes : At(p, d)
Queued(d) == \E j \in Jobs : j.delivery = d /\ job[j] \in {"ready", "active"}
Returning(w, d) == At(w, d) /\ pc[w] \in {"add", "done"}

Tended(d) ==
  \/ Fine(row[d])
  \/ /\ \A w \in Workers : ~ Returning(w, d)
     /\ Calm => \A j \in Jobs : j.delivery = d => job[j] # "kept"
     /\ Calm /\ d \in known \ dropped => Worked(d) \/ Queued(d)

Care ==
  /\ CopiesAreFine /\ CallsLeave /\ DropsAreFaults /\ JobsAreHeld
  /\ endpoint => \A d \in Deliveries \ setBack : Tended(d)

\* What the additions of jobs do to the count of failures.
LEMMA EnqueueCalm ==
  ASSUME TypeOK, DropsAreFaults, NEW d \in Deliveries, NEW delay, Enqueue(d, delay)
  PROVE  /\ DropsAreFaults'
         /\ Calm' => Calm /\ dropped \subseteq dropped'
         /\ \A i \in Jobs : \/ job'[i] = job[i]
                            \/ job[i] = "none" /\ job'[i] = "ready"
         /\ Named(d, delay) \in Jobs =>
              d \in dropped' \/ job[Named(d, delay)] = "kept" \/ Queued(d)'
<1> DEFINE j == Named(d, delay)
<1>0. j.delivery = d /\ Cardinality(dropped) \in Nat /\ faults \in Nat
  BY FS_CardinalityType, WebhooksAssumption DEF Named, DropsAreFaults, TypeOK
<1>1. CASE /\ job' = [job EXCEPT ![j] = IF @ = "none" THEN "ready" ELSE @]
           /\ dropped' = IF job[j] \in {"none", "ready"} THEN dropped \ {d} ELSE dropped
           /\ UNCHANGED <<tries, stalled, faults>>
  <2> HIDE DEF j
  <2>1. /\ IsFiniteSet(dropped \ {d})
        /\ Cardinality(dropped \ {d}) = IF d \in dropped THEN Cardinality(dropped) - 1 ELSE Cardinality(dropped)
    BY FS_RemoveElement DEF DropsAreFaults
  <2>2. dropped' = dropped \/ dropped' = dropped \ {d}
    BY <1>1
  <2>3. DropsAreFaults'
    BY <1>0, <1>1, <2>1, <2>2 DEF DropsAreFaults
  <2>4. Calm' => Calm /\ dropped \subseteq dropped'
    BY <1>0, <1>1, <2>1, <2>2 DEF Calm, DropsAreFaults
  <2>5. \A i \in Jobs : job'[i] = job[i] \/ (job[i] = "none" /\ job'[i] = "ready")
    BY <1>1 DEF TypeOK
  <2>6. j \in Jobs => job'[j] \in {"ready", "active"} \/ job[j] = "kept"
    BY <1>1 DEF TypeOK
  <2> QED
    BY <1>0, <2>3, <2>4, <2>5, <2>6 DEF Queued, j
<1>2. CASE /\ faults < MaxFaults
           /\ faults' = faults + 1
           /\ dropped' = dropped \cup {d}
           /\ UNCHANGED <<job, tries, stalled>>
  <2>1. /\ IsFiniteSet(dropped \cup {d})
        /\ Cardinality(dropped \cup {d}) = IF d \in dropped THEN Cardinality(dropped) ELSE Cardinality(dropped) + 1
    BY FS_AddElement DEF DropsAreFaults
  <2>2. DropsAreFaults' /\ (Calm' => Calm /\ dropped \subseteq dropped')
    BY <1>0, <1>2, <2>1 DEF DropsAreFaults, Calm
  <2> QED
    BY <1>2, <2>2
<1> QED
  BY <1>1, <1>2 DEF Enqueue

\* A delivery goes on being tended when nobody touches its row or takes its jobs.
LEMMA TendedStays ==
  ASSUME NEW d \in Deliveries, Tended(d), row'[d] = row[d],
         Calm' => Calm /\ dropped \subseteq dropped' /\ (Queued(d) => Queued(d)'),
         \A w \in Workers : Returning(w, d)' => Returning(w, d),
         Calm' => \A j \in Jobs : job'[j] = "kept" /\ j.delivery = d => job[j] = "kept",
         Calm' /\ d \in known' \ dropped' => d \in known \/ Worked(d)',
         Calm' /\ d \in known' \ dropped' /\ Worked(d) => Worked(d)' \/ Queued(d)'
  PROVE  Tended(d)'
<1>1. CASE Fine(row[d])
  BY <1>1 DEF Tended, Fine
<1>2. CASE ~ Fine(row[d])
  <2>1. \A w \in Workers : ~ Returning(w, d)'
    BY <1>2 DEF Tended
  <2>2. Calm' => \A j \in Jobs : j.delivery = d => job'[j] # "kept"
    BY <1>2 DEF Tended
  <2>3. Calm' /\ d \in known' \ dropped' => Worked(d)' \/ Queued(d)'
    BY <1>2 DEF Tended
  <2> QED
    BY <2>1, <2>2, <2>3 DEF Tended
<1> QED
  BY <1>1, <1>2

\* A POST ends a delivery or sets a date.
LEMMA AnsweredIsFine ==
  ASSUME NEW x \in Rows, NEW ok \in BOOLEAN PROVE Fine(Answered(x, ok))
<1>1. /\ Answered(x, ok).attemptCount = x.attemptCount + 1
      /\ Answered(x, ok).nextRetryAt = (~ok /\ x.attemptCount + 1 < MAX_ATTEMPTS)
      /\ Answered(x, ok).deliveredAt = (ok \/ x.deliveredAt)
  BY DEF Answered
<1>2. x.attemptCount + 1 \in Nat /\ MAX_ATTEMPTS \in Nat
  BY WebhooksAssumption DEF Rows
<1>3. CASE ok
  BY <1>1, <1>3 DEF Fine
<1>4. CASE x.attemptCount + 1 >= MAX_ATTEMPTS
  BY <1>1, <1>4 DEF Fine
<1>5. CASE ~ok /\ ~(x.attemptCount + 1 >= MAX_ATTEMPTS)
  <2>1. x.attemptCount + 1 < MAX_ATTEMPTS
    BY <1>2, <1>5
  <2>2. Answered(x, ok).nextRetryAt
    BY <1>1, <1>5, <2>1
  <2> QED
    BY <2>2 DEF Fine
<1> QED
  BY <1>3, <1>4, <1>5

LEMMA CopiesStayFine == TypeOK /\ CopiesAreFine /\ [Next]_vars => CopiesAreFine'
<1> SUFFICES ASSUME TypeOK, CopiesAreFine, [Next]_vars, NEW q \in Processes, pc'[q] \in {"save", "update"}
             PROVE  Fine(copy'[q])
  BY DEF CopiesAreFine, Fine
<1>1. ASSUME NEW p \in Processes, Leave(p) PROVE Fine(copy'[q])
  BY <1>1 DEF Leave, TypeOK, CopiesAreFine
<1>2. ASSUME UNCHANGED <<pc, copy>> PROVE Fine(copy'[q])
  BY <1>2 DEF CopiesAreFine
<1>3. ASSUME NEW p \in Processes, NEW s \in Steps \ {"save", "update"}, pc' = [pc EXCEPT ![p] = s],
             \A o \in Processes \ {p} : copy'[o] = copy[o]
      PROVE  Fine(copy'[q])
  BY <1>3 DEF TypeOK, CopiesAreFine
<1>4. ASSUME NEW c \in Calls, NEW d \in Deliveries, Api(c, d) PROVE Fine(copy'[q])
  <2>1. c \in Processes /\ copy' = copy /\ \E s \in {"add", "post", "load"} : pc' = [pc EXCEPT ![c] = s]
    BY <1>4 DEF Api, Create, Redeliver, Start, Processes
  <2> QED
    BY <2>1, <1>3 DEF Steps
<1>5. ASSUME NEW w \in Workers, NEW j \in Jobs, Take(w, j) PROVE Fine(copy'[q])
  BY <1>5, <1>3 DEF Take, Processes, Steps
<1>6. ASSUME NEW j \in Jobs, Stall(j) \/ Remove(j) PROVE Fine(copy'[q])
  BY <1>6, <1>2 DEF Stall, Remove
<1>7. CASE DeleteEndpoint
  BY <1>7, <1>2 DEF DeleteEndpoint
<1>8. ASSUME NEW k \in Crons, Cron(k) PROVE Fine(copy'[q])
  BY <1>8, <1>2 DEF Cron, FindRetries, AddRetry
<1>9. ASSUME NEW p \in Processes, Load(p) PROVE Fine(copy'[q])
  <2>1. \E s \in {"done", "post"} : pc' = [pc EXCEPT ![p] = s]
    BY <1>9 DEF Load
  <2>2. \A o \in Processes \ {p} : copy'[o] = copy[o]
    BY <1>9 DEF Load, TypeOK
  <2> QED
    BY <2>1, <2>2, <1>3 DEF Steps
<1>10. ASSUME NEW p \in Processes, Post(p) PROVE Fine(copy'[q])
  <2>1. PICK ok \in BOOLEAN : copy' = [copy EXCEPT ![p] = Answered(copy[p], ok)]
    BY <1>10 DEF Post
  <2>2. Fine(Answered(copy[p], ok))
    BY AnsweredIsFine DEF TypeOK
  <2>3. pc' = [pc EXCEPT ![p] = "save"]
    BY <1>10 DEF Post
  <2>4. CASE q = p
    BY <2>1, <2>2, <2>4 DEF TypeOK
  <2>5. CASE q # p
    BY <2>1, <2>3, <2>5 DEF TypeOK, CopiesAreFine
  <2> QED
    BY <2>4, <2>5
<1>11. ASSUME NEW p \in Processes, Save(p) PROVE Fine(copy'[q])
  BY <1>11 DEF Save, TypeOK, CopiesAreFine
<1>12. ASSUME NEW p \in Processes, Update(p) PROVE Fine(copy'[q])
  <2>1. CASE Leave(p)
    BY <2>1, <1>1
  <2>2. ASSUME NEW s \in {"add", "done"}, pc' = [pc EXCEPT ![p] = s], copy' = copy PROVE Fine(copy'[q])
    BY <2>2, <1>3 DEF Steps
  <2> QED
    BY <1>12, <2>1, <2>2 DEF Update
<1>13. ASSUME NEW p \in Processes, Add(p) PROVE Fine(copy'[q])
  <2>1. CASE Leave(p)
    BY <2>1, <1>1
  <2>2. CASE pc' = [pc EXCEPT ![p] = "done"] /\ copy' = [copy EXCEPT ![p] = NewRow]
    BY <2>2 DEF TypeOK, CopiesAreFine
  <2> QED
    BY <1>13, <2>1, <2>2 DEF Add
<1>14. ASSUME NEW p \in Processes, Complete(p) \/ Throw(p) \/ Crash(p) PROVE Fine(copy'[q])
  BY <1>14, <1>1 DEF Complete, Throw, Crash
<1>15. CASE UNCHANGED vars
  BY <1>15, <1>2 DEF vars
<1> QED
  BY <1>4, <1>5, <1>6, <1>7, <1>8, <1>9, <1>10, <1>11, <1>12, <1>13, <1>14, <1>15 DEF Next, Step

\* Adding a job, for a worker, a call or the cron job.
Adds(d) == \E delay : Enqueue(d, delay)

LEMMA AddAdds ==
  ASSUME NEW p \in Processes, Add(p)
  PROVE  /\ Adds(work[p].delivery)
         /\ p \notin Workers => Enqueue(work[p].delivery, Now) /\ Leave(p)
  BY DEF Add, Adds

\* The count of failures is that of the deliveries dropped as long as nothing else
\* fails, and then no delivery is taken up again that was dropped.
LEMMA CalmStep ==
  ASSUME Inv, DropsAreFaults, [Next]_vars
  PROVE  /\ DropsAreFaults'
         /\ Calm' => Calm /\ dropped \subseteq dropped'
<1> USE DEF queue, database
<1>0. TypeOK /\ Cardinality(dropped) \in Nat /\ faults \in Nat
  BY FS_CardinalityType, WebhooksAssumption DEF Inv, DropsAreFaults, TypeOK
<1> DEFINE Good == DropsAreFaults' /\ (Calm' => Calm /\ dropped \subseteq dropped')
<1>1. ASSUME UNCHANGED <<dropped, faults>> PROVE Good
  BY <1>1 DEF DropsAreFaults, Calm
<1>2. ASSUME NEW d \in Deliveries, Adds(d) PROVE Good
  BY <1>0, <1>2, EnqueueCalm DEF Adds
<1>3. ASSUME NEW p \in Processes, Throw(p) \/ Crash(p) PROVE Good
  <2>1. dropped' = dropped /\ faults' = faults + 1
    BY <1>3 DEF Throw, Crash
  <2> QED
    BY <1>0, <2>1 DEF DropsAreFaults, Calm
<1> HIDE DEF Good
<1>4. ASSUME NEW c \in Calls, NEW d \in Deliveries, Api(c, d) PROVE Good
  BY <1>4, <1>1 DEF Api, Create, Redeliver, Start
<1>5. ASSUME NEW w \in Workers, NEW j \in Jobs, Take(w, j) PROVE Good
  BY <1>5, <1>1 DEF Take
<1>6. ASSUME NEW j \in Jobs, Stall(j) \/ Remove(j) PROVE Good
  BY <1>6, <1>1 DEF Stall, Remove
<1>7. ASSUME DeleteEndpoint PROVE Good
  BY <1>7, <1>1 DEF DeleteEndpoint
<1>8. ASSUME NEW k \in Crons, Cron(k) PROVE Good
  <2>1. ASSUME NEW found \in SUBSET known, FindRetries(k, found) PROVE Good
    BY <2>1, <1>1 DEF FindRetries
  <2>2. ASSUME NEW d \in Deliveries, AddRetry(k, d) PROVE Good
    BY <2>2, <1>2 DEF AddRetry, Adds
  <2> QED
    BY <1>8, <2>1, <2>2 DEF Cron
<1>9. ASSUME NEW p \in Processes, Load(p) \/ Post(p) \/ Save(p) \/ Update(p) \/ Complete(p) PROVE Good
  BY <1>9, <1>1 DEF Load, Post, Save, Update, Complete
<1>10. ASSUME NEW p \in Processes, Add(p) PROVE Good
  BY <1>0, <1>2, <1>10, AddAdds, JobDelivery DEF TypeOK
<1>11. ASSUME UNCHANGED vars PROVE Good
  BY <1>11, <1>1 DEF vars
<1>12. Good
  BY <1>3, <1>4, <1>5, <1>6, <1>7, <1>8, <1>9, <1>10, <1>11 DEF Next, Step
<1> QED
  BY <1>12 DEF Good

LEMMA CallsStillLeave == TypeOK /\ CallsLeave /\ [Next]_vars => CallsLeave'
<1> SUFFICES ASSUME TypeOK, CallsLeave, [Next]_vars, NEW c \in Calls PROVE pc'[c] # "done"
  BY DEF CallsLeave
<1>0. c \notin Workers /\ c \in Processes /\ pc[c] # "done"
  BY WebhooksAssumption DEF Processes, CallsLeave
<1>1. CASE UNCHANGED pc
  BY <1>0, <1>1
<1>2. ASSUME NEW p \in Processes, pc' = [pc EXCEPT ![p] = pc'[p]], pc'[p] # "done" \/ p \in Workers
      PROVE  pc'[c] # "done"
  BY <1>0, <1>2 DEF TypeOK
<1>3. ASSUME NEW k \in Calls, NEW d \in Deliveries, Api(k, d) PROVE pc'[c] # "done"
  <2>1. \E s \in {"add", "post", "load"} : pc' = [pc EXCEPT ![k] = s]
    BY <1>3 DEF Api, Create, Redeliver, Start
  <2> QED
    BY <1>0, <2>1 DEF TypeOK
<1>4. ASSUME NEW w \in Workers, NEW j \in Jobs, Take(w, j) PROVE pc'[c] # "done"
  BY <1>0, <1>4 DEF Take, TypeOK
<1>5. ASSUME NEW p \in Processes, Step(p) \/ Throw(p) \/ Crash(p) PROVE pc'[c] # "done"
  <2>1. CASE Leave(p)
    BY <1>0, <2>1 DEF Leave, TypeOK
  <2>2. CASE Load(p) \/ Post(p) \/ Save(p)
    BY <1>0, <2>2 DEF Load, Post, Save, TypeOK
  <2>3. CASE p \in Workers /\ (Update(p) \/ Add(p))
    BY <1>0, <2>3 DEF Update, Add, TypeOK
  <2> QED
    BY <1>5, <2>1, <2>2, <2>3 DEF Step, Update, Add, Complete, Throw, Crash
<1> QED
  BY <1>1, <1>3, <1>4, <1>5 DEF Next, Cron, FindRetries, AddRetry, Stall, Remove, DeleteEndpoint, vars

LEMMA JobsStayHeld ==
  ASSUME Inv, DropsAreFaults, JobsAreHeld, [Next]_vars PROVE JobsAreHeld'
<1> USE DEF queue, database
<1> DEFINE HasWorker(i) == \E w \in Workers : pc'[w] # "idle" /\ work'[w] = i
<1> SUFFICES ASSUME Calm', NEW i \in Jobs, job'[i] = "active" PROVE HasWorker(i)
  BY DEF JobsAreHeld
<1>0. /\ TypeOK /\ Workers \subseteq Processes
      /\ job[i] = "active" => \E w \in Workers : pc[w] # "idle" /\ work[w] = i
  BY CalmStep DEF Inv, JobsAreHeld, Processes
<1>1. ASSUME job[i] = "active",
             \A w \in Workers : pc[w] # "idle" /\ work[w] = i => pc'[w] # "idle" /\ work'[w] = i
      PROVE  HasWorker(i)
  BY <1>0, <1>1
<1>2. ASSUME NEW p \in Processes, p \notin Workers, Leave(p), job[i] = "active" PROVE HasWorker(i)
  BY <1>0, <1>1, <1>2 DEF Leave, TypeOK
<1>3. ASSUME NEW p \in Processes, job[i] = "active", work' = work, NEW s, s # "idle",
             pc' = [pc EXCEPT ![p] = s]
      PROVE  HasWorker(i)
  BY <1>0, <1>1, <1>3 DEF TypeOK
<1>4. ASSUME NEW d, NEW delay, Enqueue(d, delay) PROVE job[i] = "active"
  BY <1>0, <1>4 DEF Enqueue, TypeOK
<1> HIDE DEF HasWorker
<1>5. ASSUME NEW c \in Calls, NEW d \in Deliveries, Api(c, d) PROVE HasWorker(i)
  <2>1. pc[c] = "idle" /\ job' = job /\ \A w \in Processes \ {c} : pc'[w] = pc[w] /\ work'[w] = work[w]
    BY <1>0, <1>5 DEF Api, Create, Redeliver, Start, TypeOK
  <2> QED
    BY <1>0, <1>1, <2>1
<1>6. ASSUME NEW w \in Workers, NEW j \in Jobs, Take(w, j) PROVE HasWorker(i)
  <2>1. CASE i = j
    BY <1>0, <1>6, <2>1 DEF Take, TypeOK, HasWorker
  <2>2. CASE i # j
    BY <1>0, <1>1, <1>6, <2>2 DEF Take, TypeOK
  <2> QED
    BY <2>1, <2>2
<1>7. ASSUME NEW j \in Jobs, Stall(j) \/ Remove(j) PROVE HasWorker(i)
  BY <1>0, <1>1, <1>7 DEF Stall, Remove, TypeOK
<1>8. ASSUME DeleteEndpoint PROVE HasWorker(i)
  BY <1>1, <1>8 DEF DeleteEndpoint
<1>9. ASSUME NEW k \in Crons, Cron(k) PROVE HasWorker(i)
  <2>1. UNCHANGED <<pc, work>> /\ job[i] = "active"
    BY <1>4, <1>9 DEF Cron, FindRetries, AddRetry
  <2> QED
    BY <1>1, <2>1
<1>10. ASSUME NEW p \in Processes, Load(p) \/ Post(p) \/ Save(p) PROVE HasWorker(i)
  BY <1>3, <1>10 DEF Load, Post, Save
<1>11. ASSUME NEW p \in Processes, Update(p) PROVE HasWorker(i)
  BY <1>2, <1>3, <1>11 DEF Update
<1>12. ASSUME NEW p \in Processes, Add(p) PROVE HasWorker(i)
  <2>1. job[i] = "active"
    BY <1>4, <1>12, AddAdds DEF Adds
  <2> QED
    BY <1>2, <1>3, <1>12, <2>1 DEF Add
<1>13. ASSUME NEW p \in Processes, Complete(p) PROVE HasWorker(i)
  <2>1. i # work[p] /\ job[i] = "active"
    BY <1>0, <1>13 DEF Complete, TypeOK
  <2>2. \A w \in Processes \ {p} : pc'[w] = pc[w] /\ work'[w] = work[w]
    BY <1>0, <1>13 DEF Complete, Leave, TypeOK
  <2> QED
    BY <1>0, <1>1, <2>1, <2>2
<1>14. ASSUME NEW p \in Processes, Throw(p) \/ Crash(p) PROVE HasWorker(i)
  <2>1. dropped' = dropped /\ faults' = faults + 1
    BY <1>14 DEF Throw, Crash
  <2>2. Calm /\ faults \in Nat
    BY <1>0, CalmStep, WebhooksAssumption DEF TypeOK
  <2> QED
    BY <2>1, <2>2 DEF Calm
<1>15. ASSUME UNCHANGED vars PROVE HasWorker(i)
  BY <1>1, <1>15 DEF vars
<1> QED
  BY <1>5, <1>6, <1>7, <1>8, <1>9, <1>10, <1>11, <1>12, <1>13, <1>14, <1>15 DEF Next, Step

\* What a fine copy is saved to is fine, if what was selected has not been taken back.
LEMMA SavedIsFine ==
  ASSUME NEW x \in Rows, NEW old \in Rows, NEW y \in Rows, Fine(x), ~ Lessened(old, y),
         NEW z \in Updated(x, old, y)
  PROVE  Fine(z)
<1>1. PICK date \in {y.deliveredAt, y.deliveredAt \/ x.deliveredAt, x.deliveredAt} :
        /\ z.attemptCount = IF x.attemptCount = old.attemptCount THEN y.attemptCount ELSE x.attemptCount
        /\ z.nextRetryAt = (x.nextRetryAt \/ (y.nextRetryAt /\ ~old.nextRetryAt))
        /\ z.deliveredAt = date
        /\ x.deliveredAt = old.deliveredAt => date \in {y.deliveredAt, y.deliveredAt \/ x.deliveredAt}
        /\ x.deliveredAt # old.deliveredAt => date = x.deliveredAt
  BY DEF Updated
<1>2. CASE x.nextRetryAt
  BY <1>1, <1>2 DEF Fine
<1>3. CASE x.attemptCount >= MAX_ATTEMPTS
  <2>1. y.attemptCount >= old.attemptCount
    BY DEF Lessened, Rows
  <2>2. z.attemptCount >= MAX_ATTEMPTS
    BY <1>1, <1>3, <2>1, WebhooksAssumption DEF Rows
  <2> QED
    BY <2>2 DEF Fine
<1>4. CASE x.deliveredAt
  <2>1. CASE x.deliveredAt = old.deliveredAt
    <3>1. y.deliveredAt
      BY <1>4, <2>1 DEF Lessened
    <3> QED
      BY <1>1, <2>1, <3>1 DEF Fine
  <2>2. CASE x.deliveredAt # old.deliveredAt
    BY <1>1, <1>4, <2>2 DEF Fine
  <2> QED
    BY <2>1, <2>2
<1> QED
  BY <1>2, <1>3, <1>4 DEF Fine

LEMMA TendedStep ==
  ASSUME Inv, Care, [Next]_vars, endpoint', NEW d \in Deliveries \ setBack' PROVE Tended(d)'
<1> USE DEF queue, database
<1>0. /\ TypeOK /\ Calls \subseteq Processes /\ Workers \subseteq Processes
      /\ DropsAreFaults /\ JobsAreHeld /\ CallsLeave
      /\ Calm' => Calm /\ dropped \subseteq dropped'
      /\ Workers \cap Calls = {} /\ d \in Deliveries
  BY CalmStep, WebhooksAssumption DEF Inv, Care, Processes
<1> DEFINE Good == Tended(d)'
<1>1. ASSUME endpoint' => endpoint, setBack \subseteq setBack' PROVE Tended(d)
  BY <1>1 DEF Care
<1>2. ASSUME Tended(d), UNCHANGED <<row, known, job>>,
             \A p \in Processes : At(p, d) => At(p, d)',
             \A w \in Workers : Returning(w, d)' => Returning(w, d)
      PROVE  Good
  <2>1. Worked(d) => Worked(d)'
    BY <1>2 DEF Worked
  <2> QED
    BY <1>0, <1>2, <2>1, TendedStays DEF Queued
<1>3. ASSUME Tended(d), ~ Calm', row' = row, \A w \in Workers : Returning(w, d)' => Returning(w, d)
      PROVE  Good
  BY <1>0, <1>3, TendedStays
<1>4. ASSUME NEW p \in Processes, pc[p] # "idle", Leave(p)
      PROVE  /\ \A q \in Processes \ {p} : At(q, d) => At(q, d)'
             /\ \A w \in Workers : Returning(w, d)' => Returning(w, d)
  BY <1>0, <1>4 DEF Leave, At, Returning, TypeOK
<1>5. ASSUME NEW p \in Processes, pc[p] # "idle", UNCHANGED work, NEW s \in Steps \ {"idle"},
             pc' = [pc EXCEPT ![p] = s]
      PROVE  /\ \A q \in Processes : At(q, d) => At(q, d)'
             /\ \A w \in Workers \ {p} : Returning(w, d)' => Returning(w, d)
             /\ s \notin {"add", "done"} \/ work[p].delivery # d =>
                  \A w \in Workers : Returning(w, d)' => Returning(w, d)
  BY <1>0, <1>5 DEF At, Returning, TypeOK
<1> HIDE DEF Good
<1>6. ASSUME NEW c \in Calls, NEW e \in Deliveries, Api(c, e) PROVE Good
  <2>1. /\ pc[c] = "idle" /\ known' \subseteq known \cup {e} /\ UNCHANGED <<endpoint, row, setBack, job, dropped>>
        /\ \A q \in Processes \ {c} : pc'[q] = pc[q] /\ work'[q] = work[q]
        /\ pc'[c] # "idle" /\ work'[c].delivery = e
    <3>1. PICK s \in {"add", "post", "load"} : Start(c, e, s)
      BY <1>6 DEF Api, Create, Redeliver
    <3>2. known' \subseteq known \cup {e}
      BY <1>6 DEF Api, Create, Redeliver
    <3>3. c \in Processes /\ Named(e, Now).delivery = e
      BY <1>0 DEF Named
    <3>4. /\ \A q \in Processes \ {c} : pc'[q] = pc[q] /\ work'[q] = work[q]
          /\ pc'[c] # "idle" /\ work'[c] = Named(e, Now)
      BY <1>0, <3>1, <3>3 DEF Start, TypeOK
    <3> QED
      BY <3>1, <3>2, <3>3, <3>4 DEF Start
  <2>2. \A w \in Workers : Returning(w, d)' => Returning(w, d)
    BY <1>0, <2>1 DEF Returning, At
  <2>3. Worked(d) => Worked(d)'
    BY <1>0, <2>1 DEF Worked, At
  <2>4. d \in known' => d \in known \/ Worked(d)'
    BY <1>0, <2>1 DEF Worked, At
  <2> QED
    BY <1>0, <1>1, <2>1, <2>2, <2>3, <2>4, TendedStays DEF Queued, Good
<1>7. ASSUME NEW w \in Workers, NEW j \in Jobs, Take(w, j) PROVE Good
  <2>1. /\ pc[w] = "idle" /\ pc'[w] = "load" /\ UNCHANGED <<endpoint, row, known, setBack, dropped>>
        /\ \A q \in Processes \ {w} : pc'[q] = pc[q] /\ work'[q] = work[q]
        /\ job'[j] = "active" /\ \A i \in Jobs \ {j} : job'[i] = job[i]
    BY <1>0, <1>7 DEF Take, TypeOK
  <2>2. \A q \in Workers : Returning(q, d)' => Returning(q, d)
    BY <1>0, <2>1 DEF Returning, At
  <2>3. Worked(d) => Worked(d)'
    BY <1>0, <2>1 DEF Worked, At
  <2>4. Queued(d) => Queued(d)'
    BY <2>1 DEF Queued
  <2>5. \A i \in Jobs : job'[i] = "kept" => job[i] = "kept"
    BY <2>1
  <2> QED
    BY <1>0, <1>1, <2>1, <2>2, <2>3, <2>4, <2>5, TendedStays DEF Good
<1>8. ASSUME NEW j \in Jobs, Stall(j) PROVE Good
  <2>1. ~ Calm /\ UNCHANGED <<endpoint, row, setBack, pc, work>>
    BY <1>0, <1>8 DEF Stall, JobsAreHeld
  <2> QED
    BY <1>0, <1>1, <1>3, <2>1 DEF Returning, At
<1>9. ASSUME NEW j \in Jobs, Remove(j) PROVE Good
  <2>1. /\ UNCHANGED <<endpoint, row, known, setBack, dropped, pc, work>>
        /\ job[j] = "kept" /\ job'[j] = "none" /\ \A i \in Jobs \ {j} : job'[i] = job[i]
    BY <1>0, <1>9 DEF Remove, TypeOK
  <2>2. Queued(d) => Queued(d)'
    BY <2>1 DEF Queued
  <2>3. \A w \in Workers : Returning(w, d)' => Returning(w, d)
    BY <2>1 DEF Returning, At
  <2>4. Worked(d) => Worked(d)'
    BY <2>1 DEF Worked, At
  <2>5. \A i \in Jobs : job'[i] = "kept" => job[i] = "kept"
    BY <2>1
  <2> QED
    BY <1>0, <1>1, <2>1, <2>2, <2>3, <2>4, <2>5, TendedStays DEF Good
<1>10. ASSUME DeleteEndpoint PROVE Good
  BY <1>10 DEF DeleteEndpoint
<1>11. ASSUME NEW e \in Deliveries, Adds(e), UNCHANGED <<endpoint, row, known, setBack>>,
              \A w \in Workers : Returning(w, d)' => Returning(w, d),
              Worked(d) => Worked(d)' \/ Queued(d)' \/ d \in dropped' \/ ~ Calm'
       PROVE  Good
  <2>1. \A i \in Jobs : job'[i] = job[i] \/ (job[i] = "none" /\ job'[i] = "ready")
    BY <1>0, <1>11, EnqueueCalm DEF Adds
  <2>2. Queued(d) => Queued(d)'
    BY <2>1 DEF Queued
  <2>3. \A i \in Jobs : job'[i] = "kept" => job[i] = "kept"
    BY <2>1
  <2> QED
    BY <1>0, <1>1, <1>11, <2>2, <2>3, TendedStays DEF Good
<1>12. ASSUME NEW k \in Crons, Cron(k) PROVE Good
  <2>1. UNCHANGED <<endpoint, row, known, setBack, pc, work>>
    BY <1>12 DEF Cron, FindRetries, AddRetry
  <2>2. /\ \A w \in Workers : Returning(w, d)' => Returning(w, d)
        /\ \A p \in Processes : At(p, d) => At(p, d)'
    BY <2>1 DEF Returning, At
  <2>3. Worked(d) => Worked(d)'
    BY <2>2 DEF Worked
  <2>4. ASSUME NEW found \in SUBSET known, FindRetries(k, found) PROVE Good
    BY <1>1, <1>2, <2>1, <2>2, <2>4 DEF FindRetries
  <2>5. ASSUME NEW e \in Deliveries, AddRetry(k, e) PROVE Good
    BY <1>11, <2>1, <2>2, <2>3, <2>5 DEF AddRetry, Adds
  <2> QED
    BY <1>12, <2>4, <2>5 DEF Cron
<1>13. ASSUME NEW p \in Processes, Load(p) \/ Post(p) \/ Save(p) PROVE Good
  <2>1. UNCHANGED <<endpoint, row, known, setBack, job, work>> /\ pc[p] # "idle"
    BY <1>13 DEF Load, Post, Save
  <2>2. PICK s \in {"post", "save", "update"} : pc' = [pc EXCEPT ![p] = s]
    BY <1>13, <2>1 DEF Load, Post, Save
  <2> QED
    BY <1>1, <1>2, <1>5, <2>1, <2>2 DEF Steps
<1>14. ASSUME NEW p \in Processes, Update(p) PROVE Good
  <2>1. UNCHANGED <<endpoint, known, job>> /\ pc[p] = "update" /\ setBack \subseteq setBack'
    BY <1>14 DEF Update
  <2>2. CASE work[p].delivery = d
    <3>1. PICK x \in Updated(copy[p], seen[p], row[d]) : row' = [row EXCEPT ![d] = x]
      BY <1>14, <2>2 DEF Update
    <3>2. ~ Lessened(seen[p], row[d])
      BY <1>14, <2>2 DEF Update
    <3>3. Fine(copy[p])
      BY <2>1 DEF Care, CopiesAreFine
    <3>4. Fine(x)
      BY <1>0, <3>1, <3>2, <3>3, SavedIsFine DEF TypeOK
    <3>5. row'[d] = x
      BY <1>0, <3>1 DEF TypeOK
    <3> QED
      BY <3>4, <3>5 DEF Tended, Fine, Good
  <2>3. CASE work[p].delivery # d
    <3>1. row'[d] = row[d]
      BY <1>0, <1>14, <2>3 DEF Update, TypeOK
    <3>2. \A w \in Workers : Returning(w, d)' => Returning(w, d)
      <4>1. CASE Leave(p)
        BY <1>4, <2>1, <4>1
      <4>2. ASSUME NEW s \in {"add", "done"}, pc' = [pc EXCEPT ![p] = s], work' = work
            PROVE  \A w \in Workers : Returning(w, d)' => Returning(w, d)
        BY <1>5, <2>1, <2>3, <4>2 DEF Steps
      <4> QED
        BY <1>14, <4>1, <4>2 DEF Update
    <3>3. Worked(d) => Worked(d)'
      <4>1. \A q \in Processes \ {p} : At(q, d) => At(q, d)'
        <5>1. CASE Leave(p)
          BY <1>4, <2>1, <5>1
        <5>2. ASSUME NEW s \in {"add", "done"}, pc' = [pc EXCEPT ![p] = s], work' = work
              PROVE  \A q \in Processes \ {p} : At(q, d) => At(q, d)'
          BY <1>5, <2>1, <5>2 DEF Steps
        <5> QED
          BY <1>14, <5>1, <5>2 DEF Update
      <4> QED
        BY <2>3, <4>1 DEF Worked, At
    <3> QED
      BY <1>0, <1>1, <2>1, <3>1, <3>2, <3>3, TendedStays DEF Queued, Good
  <2> QED
    BY <2>2, <2>3
<1>15. ASSUME NEW p \in Processes, Add(p) PROVE Good
  <2>1. /\ UNCHANGED <<endpoint, row, known, setBack>> /\ pc[p] = "add"
        /\ Adds(work[p].delivery) /\ work[p].delivery \in Deliveries
    BY <1>0, <1>15, AddAdds, JobDelivery DEF Add, TypeOK
  <2>2. CASE p \in Workers /\ work[p].delivery = d
    <3>1. Fine(row[d])
      BY <1>1, <2>1, <2>2 DEF Tended, Returning, At
    <3> QED
      BY <2>1, <3>1 DEF Tended, Fine, Good
  <2>3. CASE p \in Workers /\ work[p].delivery # d
    <3>1. pc' = [pc EXCEPT ![p] = "done"] /\ work' = work
      BY <1>15, <2>3 DEF Add
    <3>2. /\ \A q \in Processes : At(q, d) => At(q, d)'
          /\ \A w \in Workers : Returning(w, d)' => Returning(w, d)
      BY <1>5, <2>1, <2>3, <3>1 DEF Steps
    <3>3. Worked(d) => Worked(d)'
      BY <3>2 DEF Worked
    <3> QED
      BY <1>11, <2>1, <3>2, <3>3
  <2>4. CASE p \notin Workers
    <3>1. Enqueue(work[p].delivery, Now) /\ Leave(p)
      BY <1>15, <2>4, AddAdds
    <3>2. /\ \A q \in Processes \ {p} : At(q, d) => At(q, d)'
          /\ \A w \in Workers : Returning(w, d)' => Returning(w, d)
      BY <1>4, <2>1, <3>1
    <3>3. CASE work[p].delivery # d
      <4>1. Worked(d) => Worked(d)'
        BY <3>2, <3>3 DEF Worked, At
      <4> QED
        BY <1>11, <2>1, <3>2, <4>1
    <3>4. CASE work[p].delivery = d
      <4>1. Named(d, Now) \in Jobs /\ Named(d, Now).delivery = d
        BY <1>0, NowIsADelay DEF Named, Jobs
      <4>2. d \in dropped' \/ job[Named(d, Now)] = "kept" \/ Queued(d)'
        BY <1>0, <3>1, <3>4, <4>1, EnqueueCalm
      <4>3. Tended(d)
        BY <1>1, <2>1
      <4>4. CASE Fine(row[d])
        BY <2>1, <4>4 DEF Tended, Fine, Good
      <4>5. CASE ~ Fine(row[d])
        <5>1. Calm' => job[Named(d, Now)] # "kept"
          BY <1>0, <4>1, <4>3, <4>5 DEF Tended
        <5> QED
          BY <1>11, <2>1, <3>2, <4>2, <5>1
      <4> QED
        BY <4>4, <4>5
    <3> QED
      BY <3>3, <3>4
  <2> QED
    BY <2>2, <2>3, <2>4
<1>16. ASSUME NEW p \in Processes, Complete(p) PROVE Good
  <2>1. /\ UNCHANGED <<endpoint, row, known, setBack, dropped>> /\ pc[p] = "done" /\ p \in Workers
        /\ work[p] \in Jobs /\ Leave(p) /\ job' = [job EXCEPT ![work[p]] = "kept"]
    BY <1>0, <1>16 DEF Complete, TypeOK, CallsLeave, Processes
  <2>2. CASE work[p].delivery = d
    <3>1. Fine(row[d])
      BY <1>1, <2>1, <2>2 DEF Tended, Returning, At
    <3> QED
      BY <2>1, <3>1 DEF Tended, Fine, Good
  <2>3. CASE work[p].delivery # d
    <3>1. \A i \in Jobs : i.delivery = d => job'[i] = job[i]
      BY <2>1, <2>3
    <3>2. /\ \A q \in Processes \ {p} : At(q, d) => At(q, d)'
          /\ \A w \in Workers : Returning(w, d)' => Returning(w, d)
      BY <1>4, <2>1
    <3>3. Worked(d) => Worked(d)'
      BY <2>3, <3>2 DEF Worked, At
    <3>4. Queued(d) => Queued(d)'
      BY <3>1 DEF Queued
    <3> QED
      BY <1>0, <1>1, <2>1, <3>1, <3>2, <3>3, <3>4, TendedStays DEF Good
  <2> QED
    BY <2>2, <2>3
<1>17. ASSUME NEW p \in Processes, Throw(p) \/ Crash(p) PROVE Good
  <2>1. /\ UNCHANGED <<endpoint, row, setBack, dropped>> /\ faults' = faults + 1
        /\ pc[p] # "idle" /\ Leave(p)
    BY <1>17 DEF Throw, Crash
  <2>2. ~ Calm'
    <3>1. faults \in Nat
      BY <1>0, WebhooksAssumption DEF TypeOK
    <3> QED
      BY <1>0, <2>1, <3>1 DEF Calm
  <2> QED
    BY <1>1, <1>3, <1>4, <2>1, <2>2
<1>18. ASSUME UNCHANGED vars PROVE Good
  BY <1>1, <1>2, <1>18 DEF vars, At, Returning
<1>19. Good
  BY <1>6, <1>7, <1>8, <1>9, <1>10, <1>12, <1>13, <1>14, <1>15, <1>16, <1>17, <1>18 DEF Next, Step
<1> QED
  BY <1>19 DEF Good

LEMMA CareStep == Inv /\ Care /\ [Next]_vars => Care'
<1> SUFFICES ASSUME Inv, Care, [Next]_vars PROVE Care'
  OBVIOUS
<1>1. CopiesAreFine' /\ CallsLeave' /\ DropsAreFaults' /\ JobsAreHeld'
  BY CopiesStayFine, CallsStillLeave, CalmStep, JobsStayHeld DEF Inv, Care
<1>2. endpoint' => \A d \in Deliveries \ setBack' : Tended(d)'
  BY TendedStep
<1> QED
  BY <1>1, <1>2 DEF Care

LEMMA CareInit == Init => Care
<1> SUFFICES ASSUME Init PROVE Care
  OBVIOUS
<1>1. CopiesAreFine /\ CallsLeave
  BY DEF Init, CopiesAreFine, CallsLeave, Processes
<1>2. DropsAreFaults /\ JobsAreHeld
  BY FS_EmptySet DEF Init, DropsAreFaults, JobsAreHeld
<1>3. \A d \in Deliveries : Tended(d)
  BY DEF Init, Tended, Returning, At, Processes
<1> QED
  BY <1>1, <1>2, <1>3 DEF Care

\* Whichever copies of its row are saved over each other, a delivery that has not
\* ended has a date, a job, or somebody at work on it, unless its job could not be
\* added, something else failed, or a copy took back what another save had selected.
THEOREM NothingGetsForgotten == Spec => []NothingIsForgotten
<1>1. Inv /\ Care => NothingIsForgotten
  <2> SUFFICES ASSUME Inv, Care, NEW d \in Deliveries, Forgotten(d), d \notin dropped \cup setBack
               PROVE  faults > Cardinality(dropped)
    BY DEF NothingIsForgotten
  <2>1. d \in known /\ endpoint /\ ~ Fine(row[d])
    BY DEF Forgotten, Ended, Fine
  <2>2. ~ Worked(d) /\ ~ Queued(d)
    BY DEF Forgotten, Worked, At, Queued
  <2>3. ~ Calm
    BY <2>1, <2>2 DEF Care, Tended
  <2>4. faults \in Nat /\ Cardinality(dropped) \in Nat /\ Cardinality(dropped) <= faults
    BY FS_CardinalityType, WebhooksAssumption DEF Inv, TypeOK, Care, DropsAreFaults
  <2> QED
    BY <2>3, <2>4 DEF Calm
<1> QED
  BY <1>1, InvHolds, CareInit, CareStep, PTL DEF Spec
=============================================================================

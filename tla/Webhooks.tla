------------------------------- MODULE Webhooks -------------------------------
(***************************************************************************)
(* WebhookService and its queue: the deliveries to one endpoint.           *)
(*                                                                         *)
(* dispatch saves a row and adds a job to a BullMQ queue; a worker takes   *)
(* the job, POSTs, saves the row, and adds a delayed job for the next      *)
(* attempt; a cron job adds jobs for rows whose next attempt is due; and   *)
(* redeliver and testEndpoint POST on their own, in a call nobody awaits.  *)
(* Whoever POSTs works on a copy of the row, and saves it: save() selects  *)
(* the row again and updates the columns that differ from what it has      *)
(* seen, so that two of them can leave a row that neither has meant.       *)
(*                                                                         *)
(* A job is named by its delivery and its delay, and add() does nothing    *)
(* while a job of that name is waiting, active, or kept by the queue among *)
(* the last it has finished.  Times are not modelled: a delay is over, and *)
(* a date has passed, by the time somebody looks.                          *)
(***************************************************************************)
EXTENDS Integers, FiniteSets

CONSTANTS
  Deliveries,
  Workers,         \* of the queue, one job at a time each
  Calls,           \* of the API
  Crons,           \* runs of the cron job
  MAX_ATTEMPTS,
  JOB_ATTEMPTS,    \* how often a job is run that throws
  Spread,          \* how many delays there are for one attempt
  MaxRedeliveries, \* bounds: calls of redeliver; outages of the queue, failing
  MaxFaults        \* statements and crashes

ASSUME WebhooksAssumption ==
  /\ Deliveries # {} /\ IsFiniteSet(Deliveries)
  /\ IsFiniteSet(Workers) /\ IsFiniteSet(Calls)
  /\ Workers \cap Calls = {}
  /\ MAX_ATTEMPTS \in Nat \ {0}
  /\ JOB_ATTEMPTS \in Nat \ {0}
  /\ Spread \in Nat \ {0}
  /\ MaxRedeliveries \in Nat /\ MaxFaults \in Nat

VARIABLES
  endpoint,       \* the endpoint has not been deleted
  known,          \* the deliveries that have a row
  row,            \* row[d]: attemptCount, and whether the dates nextRetryAt and
                  \* deliveredAt are set
  posts,          \* posts[d]: attempts made so far
  accepted,       \* the deliveries the endpoint has said to have accepted
  job,            \* job[j]: its state in the queue
  tries,          \* tries[j]: how often it has thrown
  stalled,        \* the jobs whose worker has crashed once
  dropped,        \* deliveries left to the cron job because the queue was out
  pc,             \* pc[p]: what a worker or a call does next
  work,           \* work[p]: the job, or the delivery, it works on
  copy,           \* copy[p]: its copy of the row
  seen,           \* seen[p]: what the SELECT of its save() has found
  todo,           \* todo[k]: deliveries a run of the cron job has found
  setBack,        \* deliveries whose row lost its date or an attempt, to another copy,
                  \* between the two statements of a save
  retries,        \* jobs the cron job has added while there was an endpoint
  redeliveries, faults

queue == <<job, tries, stalled, dropped>>
database == <<endpoint, known, row, setBack>>
vars == <<endpoint, known, row, setBack, posts, accepted, job, tries, stalled, dropped, pc, work,
          copy, seen, todo, retries, redeliveries, faults>>

Processes == Workers \cup Calls
Now == <<0, 0>>

\* Math.max(0, nextRetryAt - now) after the n-th attempt, in milliseconds: many
\* delays are possible, and another attempt never has the same.
DelaysAfter(n) == {Now} \cup {n} \X (1 .. Spread)

Delays == {Now} \cup UNION {DelaysAfter(n) : n \in 1 .. MAX_ATTEMPTS - 1}
Jobs == [delivery : Deliveries, delay : Delays]
Rows == [attemptCount : Nat, nextRetryAt : BOOLEAN, deliveredAt : BOOLEAN]
NewRow == [attemptCount |-> 0, nextRetryAt |-> FALSE, deliveredAt |-> FALSE]
Steps == {"idle", "load", "post", "save", "update", "add", "done"}

TypeOK ==
  /\ endpoint \in BOOLEAN
  /\ known \subseteq Deliveries
  /\ row \in [Deliveries -> Rows]
  /\ setBack \subseteq Deliveries
  /\ posts \in [Deliveries -> Nat]
  /\ accepted \subseteq Deliveries
  /\ job \in [Jobs -> {"none", "ready", "active", "kept"}]
  /\ tries \in [Jobs -> Nat]
  /\ stalled \subseteq Jobs
  /\ dropped \subseteq known
  /\ pc \in [Processes -> Steps]
  /\ work \in [Processes -> Jobs]
  /\ copy \in [Processes -> Rows]
  /\ seen \in [Processes -> Rows]
  /\ todo \in [Crons -> SUBSET known]
  /\ retries \in Nat
  /\ redeliveries \in 0 .. MaxRedeliveries
  /\ faults \in 0 .. MaxFaults

Named(d, delay) == [delivery |-> d, delay |-> delay]
NoWork == Named(CHOOSE d \in Deliveries : TRUE, Now)

Init ==
  /\ endpoint = TRUE
  /\ known = {}
  /\ row = [d \in Deliveries |-> NewRow]
  /\ setBack = {}
  /\ posts = [d \in Deliveries |-> 0]
  /\ accepted = {}
  /\ job = [j \in Jobs |-> "none"]
  /\ tries = [j \in Jobs |-> 0]
  /\ stalled = {}
  /\ dropped = {}
  /\ pc = [p \in Processes |-> "idle"]
  /\ work = [p \in Processes |-> NoWork]
  /\ copy = [p \in Processes |-> NewRow]
  /\ seen = [p \in Processes |-> NewRow]
  /\ todo = [k \in Crons |-> {}]
  /\ retries = 0
  /\ redeliveries = 0
  /\ faults = 0

-----------------------------------------------------------------------------
(***************************************************************************)
(* The queue.                                                              *)
(***************************************************************************)

\* enqueueDelivery: add(), which does nothing if there is a job of that name,
\* or throws, which is caught.
Enqueue(d, delay) ==
  LET j == Named(d, delay)
  IN  \/ /\ job' = [job EXCEPT ![j] = IF @ = "none" THEN "ready" ELSE @]
         /\ dropped' = IF job[j] \in {"none", "ready"} THEN dropped \ {d} ELSE dropped
         /\ UNCHANGED <<tries, stalled, faults>>
      \/ /\ faults < MaxFaults
         /\ faults' = faults + 1
         /\ dropped' = dropped \cup {d}
         /\ UNCHANGED <<job, tries, stalled>>

\* A process is done with what it did.
Leave(p) ==
  /\ pc' = [pc EXCEPT ![p] = "idle"]
  /\ work' = [work EXCEPT ![p] = NoWork]
  /\ copy' = [copy EXCEPT ![p] = NewRow]
  /\ seen' = [seen EXCEPT ![p] = NewRow]

\* A worker takes a job whose delay is over.
Take(w, j) ==
  /\ pc[w] = "idle"
  /\ job[j] = "ready"
  /\ job' = [job EXCEPT ![j] = "active"]
  /\ pc' = [pc EXCEPT ![w] = "load"]
  /\ work' = [work EXCEPT ![w] = j]
  /\ UNCHANGED <<database, posts, accepted, tries, stalled, dropped, copy, seen,
                 todo, retries, redeliveries, faults>>

\* Mutant: it has thrown, and the job is run again besides the next attempt.
CompleteAsFailed(w) ==
  LET j == work[w]
  IN  /\ pc[w] = "done"
      /\ tries' = [tries EXCEPT ![j] = @ + 1]
      /\ job' = [job EXCEPT ![j] = IF tries[j] + 1 < JOB_ATTEMPTS THEN "ready" ELSE "kept"]
      /\ Leave(w)
      /\ UNCHANGED <<database, posts, accepted, stalled, dropped, todo,
                     retries, redeliveries, faults>>

\* process() has returned.
Complete(w) ==
  /\ pc[w] = "done"
  /\ job' = [job EXCEPT ![work[w]] = "kept"]
  /\ Leave(w)
  /\ UNCHANGED <<database, posts, accepted, tries, stalled, dropped, todo,
                 retries, redeliveries, faults>>

\* Nobody renews the lock of a job whose worker has crashed: it is run again,
\* but only once.
Stall(j) ==
  /\ job[j] = "active"
  /\ \A w \in Workers : pc[w] # "idle" => work[w] # j
  /\ job' = [job EXCEPT ![j] = IF j \in stalled THEN "kept" ELSE "ready"]
  /\ stalled' = stalled \cup {j}
  /\ UNCHANGED <<database, posts, accepted, tries, dropped, pc, work, copy, seen,
                 todo, retries, redeliveries, faults>>

\* So many jobs have finished since that this one is not kept any longer.
Remove(j) ==
  /\ job[j] = "kept"
  /\ job' = [job EXCEPT ![j] = "none"]
  /\ tries' = [tries EXCEPT ![j] = 0]
  /\ stalled' = stalled \ {j}
  /\ UNCHANGED <<database, posts, accepted, dropped, pc, work, copy, seen,
                 todo, retries, redeliveries, faults>>

-----------------------------------------------------------------------------
(***************************************************************************)
(* The API, and processRetries.                                            *)
(***************************************************************************)
Start(c, d, step) ==
  /\ pc[c] = "idle"
  /\ endpoint
  /\ pc' = [pc EXCEPT ![c] = step]
  /\ work' = [work EXCEPT ![c] = Named(d, Now)]
  /\ UNCHANGED <<endpoint, row, setBack, posts, accepted, queue, copy, seen, todo, retries, faults>>

\* dispatch and testEndpoint save a row; the one goes on to add a job, the
\* other to POST.
Create(c, d, step) ==
  /\ d \notin known
  /\ known' = known \cup {d}
  /\ Start(c, d, step)
  /\ UNCHANGED redeliveries

\* redeliver, once it has found the endpoint.
Redeliver(c, d) ==
  /\ d \in known
  /\ redeliveries < MaxRedeliveries
  /\ redeliveries' = redeliveries + 1
  /\ Start(c, d, "load")
  /\ UNCHANGED known

\* deleteEndpoint; the deliveries stay.
DeleteEndpoint ==
  /\ endpoint
  /\ endpoint' = FALSE
  /\ UNCHANGED <<known, row, setBack, posts, accepted, queue, pc, work, copy, seen, todo,
                 retries, redeliveries, faults>>

Retriable(x) == ~x.deliveredAt /\ x.nextRetryAt

\* Those whose date has passed are found ...
FindRetries(k, found) ==
  /\ todo[k] = {}
  /\ found # {}
  /\ \A d \in found : Retriable(row[d])
  /\ todo' = [todo EXCEPT ![k] = found]
  /\ UNCHANGED <<database, posts, accepted, queue, pc, work, copy, seen, retries, redeliveries,
                 faults>>

\* ... and a job is added for each.
AddRetry(k, d) ==
  /\ d \in todo[k]
  /\ Enqueue(d, Now)
  /\ retries' = IF endpoint /\ job' # job THEN retries + 1 ELSE retries
  /\ todo' = [todo EXCEPT ![k] = @ \ {d}]
  /\ UNCHANGED <<database, posts, accepted, pc, work, copy, seen, redeliveries>>

-----------------------------------------------------------------------------
(***************************************************************************)
(* processDeliveryJob and executeDelivery.                                 *)
(***************************************************************************)

\* The row is read and the endpoint, which redeliver has read before; a job for
\* an endpoint that was deleted is done.
Load(p) ==
  /\ pc[p] = "load"
  /\ copy' = [copy EXCEPT ![p] = row[work[p].delivery]]
  /\ pc' = [pc EXCEPT ![p] = IF p \in Workers /\ ~endpoint THEN "done" ELSE "post"]
  /\ UNCHANGED <<database, posts, accepted, queue, work, seen, todo, retries, redeliveries, faults>>

\* Mutants: a refused delivery is marked as delivered; the last attempt but one
\* gets no next one; an attempt is counted twice.
AnsweredAnyway(x, ok) ==
  [attemptCount |-> x.attemptCount + 1,
   nextRetryAt |-> ~ok /\ x.attemptCount + 1 < MAX_ATTEMPTS,
   deliveredAt |-> TRUE]
AnsweredTooSoon(x, ok) ==
  [attemptCount |-> x.attemptCount + 1,
   nextRetryAt |-> ~ok /\ x.attemptCount + 2 < MAX_ATTEMPTS,
   deliveredAt |-> ok \/ x.deliveredAt]

\* What a POST makes of the copy x.
Answered(x, ok) ==
  [attemptCount |-> x.attemptCount + 1,
   nextRetryAt |-> ~ok /\ x.attemptCount + 1 < MAX_ATTEMPTS,
   deliveredAt |-> ok \/ x.deliveredAt]

\* axios.post, with an answer that says accepted, or not; or none in time.
Post(p) ==
  LET d == work[p].delivery
  IN  /\ pc[p] = "post"
      /\ posts' = [posts EXCEPT ![d] = @ + 1]
      /\ \E ok \in BOOLEAN :
           /\ accepted' = IF ok THEN accepted \cup {d} ELSE accepted
           /\ copy' = [copy EXCEPT ![p] = Answered(@, ok)]
      /\ pc' = [pc EXCEPT ![p] = "save"]
      /\ UNCHANGED <<database, queue, work, seen, todo, retries, redeliveries, faults>>

\* The copy is saved: a SELECT ...
Save(p) ==
  /\ pc[p] = "save"
  /\ seen' = [seen EXCEPT ![p] = row[work[p].delivery]]
  /\ pc' = [pc EXCEPT ![p] = "update"]
  /\ UNCHANGED <<database, posts, accepted, queue, work, copy, todo, retries, redeliveries,
                 faults>>

\* What the UPDATE for a copy x, that was compared with old, makes of the row y.
\* A date that is set is a new one, but deliveredAt may be that of the row.
Updated(x, old, y) ==
  {[attemptCount |-> IF x.attemptCount = old.attemptCount THEN y.attemptCount ELSE x.attemptCount,
    nextRetryAt |-> x.nextRetryAt \/ (y.nextRetryAt /\ ~old.nextRetryAt),
    deliveredAt |-> date] :
   date \in IF x.deliveredAt = old.deliveredAt
              THEN {y.deliveredAt, y.deliveredAt \/ x.deliveredAt}
              ELSE {x.deliveredAt}}

Lessened(old, y) == y.attemptCount < old.attemptCount \/ (old.deliveredAt /\ ~y.deliveredAt)

\* ... and an UPDATE; and if there is to be another attempt, a worker adds a job.
Update(p) ==
  LET d == work[p].delivery
  IN  /\ pc[p] = "update"
      /\ \E x \in Updated(copy[p], seen[p], row[d]) : row' = [row EXCEPT ![d] = x]
      /\ setBack' = IF Lessened(seen[p], row[d]) THEN setBack \cup {d} ELSE setBack
      /\ IF p \in Workers
           THEN /\ pc' = [pc EXCEPT ![p] = IF Retriable(copy[p]) THEN "add" ELSE "done"]
                /\ seen' = [seen EXCEPT ![p] = NewRow]
                /\ UNCHANGED <<work, copy>>
           ELSE Leave(p)
      /\ UNCHANGED <<endpoint, known, posts, accepted, queue, todo, retries, redeliveries, faults>>

\* The job of the next attempt, or the first one of dispatch.
Add(p) ==
  LET d == work[p].delivery
  IN  /\ pc[p] = "add"
      /\ IF p \in Workers
           THEN /\ \E delay \in DelaysAfter(copy[p].attemptCount) : Enqueue(d, delay)
                /\ pc' = [pc EXCEPT ![p] = "done"]
                /\ copy' = [copy EXCEPT ![p] = NewRow]
                /\ UNCHANGED <<work, seen>>
           ELSE Enqueue(d, Now) /\ Leave(p)
      /\ UNCHANGED <<database, posts, accepted, todo, retries, redeliveries>>

-----------------------------------------------------------------------------
\* A statement throws: the job is run again after a while, but not for ever; a
\* call ends.
Throw(p) ==
  LET j == work[p]
  IN  /\ faults < MaxFaults
      /\ pc[p] \in {"load", "save", "update"}
      /\ faults' = faults + 1
      /\ IF p \in Workers
           THEN /\ tries' = [tries EXCEPT ![j] = @ + 1]
                /\ job' = [job EXCEPT ![j] = IF tries[j] + 1 < JOB_ATTEMPTS THEN "ready" ELSE "kept"]
           ELSE UNCHANGED <<job, tries>>
      /\ Leave(p)
      /\ UNCHANGED <<database, posts, accepted, stalled, dropped, todo, retries, redeliveries>>

\* The program of a worker or a call dies.
Crash(p) ==
  /\ faults < MaxFaults
  /\ pc[p] # "idle"
  /\ faults' = faults + 1
  /\ Leave(p)
  /\ UNCHANGED <<database, posts, accepted, queue, todo, retries, redeliveries>>

Step(p) ==
  \/ Load(p) \/ Post(p) \/ Save(p) \/ Update(p) \/ Add(p) \/ Complete(p)

Api(c, d) == Create(c, d, "add") \/ Create(c, d, "post") \/ Redeliver(c, d)

Cron(k) == \/ \E found \in SUBSET known : FindRetries(k, found)
           \/ \E d \in Deliveries : AddRetry(k, d)

Next ==
  \/ \E c \in Calls, d \in Deliveries : Api(c, d)
  \/ \E w \in Workers, j \in Jobs : Take(w, j)
  \/ \E p \in Processes : Step(p) \/ Throw(p) \/ Crash(p)
  \/ \E j \in Jobs : Stall(j) \/ Remove(j)
  \/ \E k \in Crons : Cron(k)
  \/ DeleteEndpoint

Spec == Init /\ [][Next]_vars

\* What was begun goes on, the queue serves every job in its turn, and the cron
\* job finds every date that has passed.
FairSpec ==
  /\ Spec
  /\ \A p \in Processes : WF_vars(Step(p))
  /\ \A j \in Jobs : /\ SF_vars(\E w \in Workers : Take(w, j))
                     /\ WF_vars(Stall(j))
                     /\ WF_vars(Remove(j))
  /\ \A k \in Crons, d \in Deliveries :
       /\ WF_vars(\E found \in SUBSET known : d \in found /\ FindRetries(k, found))
       /\ WF_vars(AddRetry(k, d))

-----------------------------------------------------------------------------
(***************************************************************************)
(* Properties.                                                             *)
(***************************************************************************)

\* The history of an endpoint says that a delivery arrived only if the endpoint
\* accepted it, whatever is saved over it by whom.
DeliveredIsAccepted == \A d \in Deliveries : row[d].deliveredAt => d \in accepted

\* The history may count too few attempts, when copies overwrite each other,
\* but never one that was not made.
AttemptsAreMade == \A d \in Deliveries : row[d].attemptCount <= posts[d]

\* With one worker, a delivery is attempted MAX_ATTEMPTS times, and as often again
\* for each failure and each redelivery, and for each job the cron job adds because
\* the queue does not know the name of the first one any more.  (Two workers that
\* save their copies over each other count a delivery down again and again.)
AttemptsAreBounded ==
  Cardinality(Workers) = 1 =>
    \A d \in Deliveries : posts[d] <= MAX_ATTEMPTS * (1 + faults + redeliveries + retries)

Ended(d) == row[d].deliveredAt \/ row[d].attemptCount >= MAX_ATTEMPTS \/ ~endpoint

\* Once the first job of a delivery is in the queue, the delivery arrives or is
\* attempted to the end, although a statement fails or a program dies; twice may
\* be too often for the queue.
QueuedIsEnded ==
  \A d \in Deliveries : job[Named(d, Now)] = "ready" ~> Ended(d) \/ faults > 1

\* What no date, job or call will bring back.
Forgotten(d) ==
  /\ d \in known /\ ~Ended(d) /\ ~row[d].nextRetryAt
  /\ \A p \in Processes : pc[p] # "idle" => work[p].delivery # d
  /\ \A j \in Jobs : j.delivery = d => job[j] \in {"none", "kept"}

\* However many copies of its row are around, no delivery is forgotten before it has
\* ended, but the one whose job could not be added (the cron job, which is to pick it
\* up, looks for a date that was never set), or by another failure, or after a copy
\* took back, between the two statements of a save, what its SELECT had seen: what
\* that save did not write is gone then.
NothingIsForgotten ==
  \A d \in Deliveries :
    Forgotten(d) => d \in dropped \cup setBack \/ faults > Cardinality(dropped)

=============================================================================

------------------------- MODULE Transactions_proofs -------------------------
(***************************************************************************)
(* Proofs about Transactions, for any number of transactions, clerks and   *)
(* instances, and whatever the amounts, the fees and the limit.            *)
(***************************************************************************)
EXTENDS Transactions, FiniteSetTheorems, TLAPS

Places == {"idle", "new", "balance", "persist", "pay", "notify", "category", "find",
           "ask", "read", "write", "select", "update"}

\* The places of a call whose payment has not been tried yet.
Unpaid == {"new", "balance", "persist", "pay"}

\* What the place of a process says about it.
Placed(p) ==
  /\ pc[p] \in {"read", "write"} => goal[p] \in Moves
  /\ pc[p] \in Unpaid => p \in Txs
  /\ p \in Txs => on[p] = p

\* The type invariant, strengthened to an inductive one.
Typed == TypeOK /\ \A p \in Procs : Placed(p)

-----------------------------------------------------------------------------
(* What the pieces of the actions do to a process. *)

\* The work for goals is where it begins, and goals lead to goals.
LEMMA Firsts ==
  /\ \A g \in Goals : First(g) \in {"read", "notify", "category", "select"}
  /\ \A g \in Goals : First(g) = "read" => g \in Moves
  /\ \A g, k : After(g, k) \in Goals
  BY DEF First, After, Goals, Moves

\* A step of p alone, to a place and a goal, with what it holds then.
Becomes(p, place, for, held, read, money) ==
  /\ pc' = [pc EXCEPT ![p] = place]
  /\ goal' = [goal EXCEPT ![p] = for]
  /\ entity' = [entity EXCEPT ![p] = held]
  /\ seen' = [seen EXCEPT ![p] = read]
  /\ known' = [known EXCEPT ![p] = money]

LEMMA EndBecomes ==
  ASSUME NEW p \in Procs, End(p)
  PROVE  /\ Becomes(p, "idle", "none", NoRow, NoRow, NoBalances)
         /\ on' = on /\ outdated' = outdated \ {p}
  BY DEF End, Go, Becomes

LEMMA StaysSame ==
  ASSUME TypeOK, NEW p \in Procs
  PROVE  /\ [entity EXCEPT ![p] = entity[p]] = entity
         /\ [seen EXCEPT ![p] = seen[p]] = seen
         /\ [known EXCEPT ![p] = known[p]] = known
  BY DEF TypeOK

LEMMA GoBecomes ==
  ASSUME TypeOK, NEW p \in Procs, NEW place, NEW for, Go(p, place, for), UNCHANGED <<entity, seen, known>>
  PROVE  Becomes(p, place, for, entity[p], seen[p], known[p])
  BY StaysSame DEF Go, Becomes

\* A process that goes on with what it holds.
Keeps(p) == Becomes(p, pc'[p], goal'[p], entity[p], seen[p], known[p])

LEMMA AdvanceBecomes ==
  ASSUME TypeOK, NEW p \in Procs, Advance(p)
  PROVE  /\ on' = on
         /\ \/ /\ Becomes(p, "idle", "none", NoRow, NoRow, NoBalances)
               /\ outdated' = outdated \ {p}
            \/ \E g \in Goals :
                 /\ g = After(goal[p], kind[on[p]]) /\ g # "none"
                 /\ Becomes(p, First(g), g, entity[p], seen[p], known[p])
                 /\ outdated' = outdated
<1> DEFINE next == After(goal[p], kind[on[p]])
<1>1. CASE next = "none"
  BY <1>1, EndBecomes DEF Advance, End
<1>2. CASE next # "none"
  <2>1. Go(p, First(next), next) /\ UNCHANGED <<on, entity, seen, known, outdated>>
    BY <1>2 DEF Advance
  <2>2. Becomes(p, First(next), next, entity[p], seen[p], known[p])
    BY <2>1, GoBecomes
  <2> QED
    BY <1>2, <2>1, <2>2, Firsts
<1> QED
  BY <1>1, <1>2

Failing(r) == [status |-> "FAILED", hash |-> r.hash]

LEMMA ThrowBecomes ==
  ASSUME TypeOK, NEW p \in Procs, Throw(p)
  PROVE  /\ on' = on
         /\ \/ /\ Becomes(p, "idle", "none", NoRow, NoRow, NoBalances)
               /\ outdated' = outdated \ {p}
            \/ /\ p \in Txs /\ goal[p] \in {"create", "hash", "done", "debit", "gain", "notify"}
               /\ Becomes(p, "select", "failed", Failing(entity[p]), seen[p], known[p])
               /\ outdated' = outdated
<1>1. CASE goal[p] \in {"create", "hash", "done", "debit", "gain", "notify"} /\ p \in Txs
  <2>1. /\ Go(p, "select", "failed")
        /\ entity' = [entity EXCEPT ![p] = [entity[p] EXCEPT !.status = "FAILED"]]
        /\ UNCHANGED <<on, seen, known, outdated>>
    BY <1>1 DEF Throw
  <2>2. [entity[p] EXCEPT !.status = "FAILED"] = Failing(entity[p])
    BY DEF TypeOK, Rows, Failing
  <2>3. seen' = [seen EXCEPT ![p] = seen[p]] /\ known' = [known EXCEPT ![p] = known[p]]
    BY <2>1, StaysSame
  <2> QED
    BY <1>1, <2>1, <2>2, <2>3 DEF Go, Becomes
<1>2. CASE ~ (goal[p] \in {"create", "hash", "done", "debit", "gain", "notify"} /\ p \in Txs)
  BY <1>2, EndBecomes DEF Throw, End
<1> QED
  BY <1>1, <1>2

\* What a step makes of the processes: p becomes what it says, the others stay.
Only(p, place, for, held, read, money) ==
  /\ pc' \in [Procs -> Places] /\ goal' \in [Procs -> Goals]
  /\ entity' \in [Procs -> Rows] /\ seen' \in [Procs -> Rows] /\ known' \in [Procs -> Balances]
  /\ pc'[p] = place /\ goal'[p] = for
  /\ entity'[p] = held /\ seen'[p] = read /\ known'[p] = money
  /\ \A q \in Procs \ {p} : /\ pc'[q] = pc[q] /\ goal'[q] = goal[q] /\ entity'[q] = entity[q]
                            /\ seen'[q] = seen[q] /\ known'[q] = known[q]

LEMMA BecomesOnly ==
  ASSUME TypeOK, NEW p \in Procs, NEW place \in Places, NEW for \in Goals,
         NEW held \in Rows, NEW read \in Rows, NEW money \in Balances,
         Becomes(p, place, for, held, read, money)
  PROVE  Only(p, place, for, held, read, money)
<1>1. /\ pc \in [Procs -> Places] /\ goal \in [Procs -> Goals]
      /\ entity \in [Procs -> Rows] /\ seen \in [Procs -> Rows] /\ known \in [Procs -> Balances]
  BY DEF TypeOK, Places
<1>2. /\ pc' = [pc EXCEPT ![p] = place] /\ goal' = [goal EXCEPT ![p] = for]
      /\ entity' = [entity EXCEPT ![p] = held] /\ seen' = [seen EXCEPT ![p] = read]
      /\ known' = [known EXCEPT ![p] = money]
  BY DEF Becomes
<1> QED
  BY <1>1, <1>2 DEF Only

LEMMA Nothing ==
  /\ NoRow \in Rows /\ NoBalances \in Balances /\ "idle" \in Places /\ "none" \in Goals
  /\ "select" \in Places /\ "failed" \in Goals
  /\ {"read", "notify", "category", "select"} \subseteq Places
  BY DEF NoRow, Rows, Statuses, NoBalances, Balances, Places, Goals

LEMMA Parts ==
  ASSUME TypeOK, NEW p \in Procs
  PROVE  /\ pc[p] \in Places /\ goal[p] \in Goals /\ on[p] \in Txs
         /\ entity[p] \in Rows /\ seen[p] \in Rows /\ known[p] \in Balances
         /\ Failing(entity[p]) \in Rows
  BY DEF TypeOK, Places, Failing, Rows, Statuses

\* The ways a process ends, goes on to the next goal, and gives up.
Ended(p) == Only(p, "idle", "none", NoRow, NoRow, NoBalances)
Advanced(p) ==
  \E g \in Goals : /\ g = After(goal[p], kind[on[p]]) /\ g # "none"
                   /\ Only(p, First(g), g, entity[p], seen[p], known[p])
GaveUp(p) ==
  /\ p \in Txs /\ goal[p] \in {"create", "hash", "done", "debit", "gain", "notify"}
  /\ Only(p, "select", "failed", Failing(entity[p]), seen[p], known[p])

LEMMA Ends ==
  ASSUME TypeOK, NEW p \in Procs, End(p)
  PROVE  Ended(p) /\ on' = on /\ outdated' = outdated \ {p}
  BY EndBecomes, BecomesOnly, Nothing DEF Ended

LEMMA Advances ==
  ASSUME TypeOK, NEW p \in Procs, Advance(p)
  PROVE  /\ on' = on
         /\ \/ Ended(p) /\ outdated' = outdated \ {p}
            \/ Advanced(p) /\ outdated' = outdated
<1>1. ASSUME NEW g \in Goals, Becomes(p, First(g), g, entity[p], seen[p], known[p])
      PROVE  Only(p, First(g), g, entity[p], seen[p], known[p])
  <2>1. First(g) \in Places
    BY Firsts, Nothing
  <2> QED
    BY <1>1, <2>1, Parts, BecomesOnly
<1>2. Becomes(p, "idle", "none", NoRow, NoRow, NoBalances) => Ended(p)
  BY BecomesOnly, Nothing DEF Ended
<1> QED
  BY <1>1, <1>2, AdvanceBecomes DEF Advanced

LEMMA Throws ==
  ASSUME TypeOK, NEW p \in Procs, Throw(p)
  PROVE  /\ on' = on
         /\ \/ Ended(p) /\ outdated' = outdated \ {p}
            \/ GaveUp(p) /\ outdated' = outdated
<1>1. Becomes(p, "idle", "none", NoRow, NoRow, NoBalances) => Ended(p)
  BY BecomesOnly, Nothing DEF Ended
<1>2. Becomes(p, "select", "failed", Failing(entity[p]), seen[p], known[p])
        => Only(p, "select", "failed", Failing(entity[p]), seen[p], known[p])
  BY BecomesOnly, Nothing, Parts
<1> QED
  BY <1>1, <1>2, ThrowBecomes DEF GaveUp

LEMMA Goes ==
  ASSUME TypeOK, NEW p \in Procs, NEW place \in Places, NEW for \in Goals,
         Go(p, place, for), UNCHANGED <<entity, seen, known>>
  PROVE  Only(p, place, for, entity[p], seen[p], known[p])
  BY GoBecomes, BecomesOnly, Parts

-----------------------------------------------------------------------------
(* What the actions do to the process that takes them. *)

LEMMA CheckLimitDoes ==
  ASSUME TypeOK, NEW t \in Txs, NEW k \in Kinds, CheckLimit(t, k)
  PROVE  \E place \in {"persist", "balance"} : Only(t, place, "create", entity[t], seen[t], known[t])
<1>1. t \in Procs /\ "create" \in Goals /\ {"persist", "balance"} \subseteq Places
  BY DEF Procs, Goals, Places
<1>2. PICK place \in {"persist", "balance"} : Go(t, place, "create")
  BY DEF CheckLimit
<1>3. UNCHANGED <<entity, seen, known>>
  BY DEF CheckLimit
<1>4. Only(t, place, "create", entity[t], seen[t], known[t])
  BY <1>1, <1>2, <1>3, Goes
<1> QED
  BY <1>2, <1>4

LEMMA CheckBalanceDoes ==
  ASSUME TypeOK, NEW t \in Txs, CheckBalance(t)
  PROVE  \E place \in {"persist", "new"} : Only(t, place, "create", entity[t], seen[t], known[t])
<1>1. t \in Procs /\ "create" \in Goals /\ {"persist", "new"} \subseteq Places
  BY DEF Procs, Goals, Places
<1>2. PICK place \in {"persist", "new"} : Go(t, place, "create")
  BY DEF CheckBalance
<1>3. UNCHANGED <<entity, seen, known>>
  BY DEF CheckBalance
<1>4. Only(t, place, "create", entity[t], seen[t], known[t])
  BY <1>1, <1>2, <1>3, Goes
<1> QED
  BY <1>2, <1>4

\* An entity with another status.
Marked(r, s) == [status |-> s, hash |-> r.hash]

LEMMA MarkedTyped == \A r \in Rows : \A s \in Statuses : Marked(r, s) \in Rows /\ [r EXCEPT !.status = s] = Marked(r, s)
  BY DEF Rows, Marked

LEMMA PersistDoes ==
  ASSUME TypeOK, NEW t \in Txs, Persist(t)
  PROVE  /\ Only(t, "pay", "create", Marked(entity[t], "PENDING"), seen[t], known[t])
         /\ row' = [row EXCEPT ![t] = Marked(row[t], "PENDING")]
<1>1. t \in Procs /\ "create" \in Goals /\ "pay" \in Places /\ "PENDING" \in Statuses
  BY DEF Procs, Goals, Places, Statuses
<1>2. /\ entity[t] \in Rows /\ row[t] \in Rows
      /\ [entity[t] EXCEPT !.status = "PENDING"] = Marked(entity[t], "PENDING")
      /\ [row[t] EXCEPT !.status = "PENDING"] = Marked(row[t], "PENDING")
      /\ Marked(entity[t], "PENDING") \in Rows
  BY <1>1, MarkedTyped DEF TypeOK
<1>3. /\ entity' = [entity EXCEPT ![t] = [entity[t] EXCEPT !.status = "PENDING"]]
      /\ row' = [row EXCEPT ![t] = [row[t] EXCEPT !.status = "PENDING"]]
      /\ Go(t, "pay", "create") /\ UNCHANGED <<seen, known>>
  BY DEF Persist
<1>4. Becomes(t, "pay", "create", Marked(entity[t], "PENDING"), seen[t], known[t])
  BY <1>1, <1>2, <1>3, StaysSame DEF Go, Becomes
<1> QED
  BY <1>1, <1>2, <1>3, <1>4, Parts, BecomesOnly

LEMMA PayDoes ==
  ASSUME TypeOK, NEW t \in Txs, Pay(t)
  PROVE  \E g \in {"hash", "debit", "done"} :
           /\ g = CASE kind[t] = "DEPOSIT" -> "hash" [] kind[t] = "WITHDRAW" -> "debit" [] OTHER -> "done"
           /\ Only(t, First(g), g,
                   [status |-> IF g = "done" THEN "SUCCESS" ELSE entity[t].status, hash |-> TRUE],
                   seen[t], known[t])
<1> DEFINE next == CASE kind[t] = "DEPOSIT" -> "hash" [] kind[t] = "WITHDRAW" -> "debit" [] OTHER -> "done"
           new == [status |-> IF next = "done" THEN "SUCCESS" ELSE entity[t].status, hash |-> TRUE]
<1>1. t \in Procs /\ next \in Goals /\ next \in {"hash", "debit", "done"}
  BY DEF Procs, Goals, Moves
<1>2. /\ entity' = [entity EXCEPT ![t] = new]
      /\ Go(t, First(next), next) /\ UNCHANGED <<seen, known>>
  BY DEF Pay
<1>3. new \in Rows /\ First(next) \in Places
  BY <1>1, Parts, Firsts, Nothing DEF Rows, Statuses
<1>4. Becomes(t, First(next), next, new, seen[t], known[t])
  BY <1>1, <1>2, StaysSame DEF Go, Becomes
<1>5. Only(t, First(next), next, new, seen[t], known[t])
  BY <1>1, <1>3, <1>4, Parts, BecomesOnly
<1> QED
  BY <1>1, <1>5

LEMMA CategoryDoes ==
  ASSUME TypeOK, NEW t \in Txs, Category(t)
  PROVE  /\ on' = on
         /\ \/ Only(t, "select", "category", entity[t], seen[t], known[t]) /\ outdated' = outdated
            \/ Ended(t) /\ outdated' = outdated \ {t}
<1>1. t \in Procs /\ "category" \in Goals /\ "select" \in Places
  BY DEF Procs, Goals, Places
<1>2. \/ Go(t, "select", "category") /\ UNCHANGED <<on, entity, seen, known, outdated>>
      \/ End(t)
  BY DEF Category
<1> QED
  BY <1>1, <1>2, Goes, Ends

LEMMA ReadUserDoes ==
  ASSUME TypeOK, NEW p \in Procs, ReadUser(p)
  PROVE  Only(p, "write", goal[p], entity[p], seen[p], balance)
<1>1. "write" \in Places /\ balance \in Balances
  BY DEF Places, TypeOK
<1>2. Becomes(p, "write", goal[p], entity[p], seen[p], balance)
  BY StaysSame DEF ReadUser, Go, Becomes
<1> QED
  BY <1>1, <1>2, Parts, BecomesOnly

LEMMA SelectDoes ==
  ASSUME TypeOK, NEW p \in Procs, Select(p)
  PROVE  Only(p, "update", goal[p], entity[p], row[on[p]], known[p])
<1>1. "update" \in Places /\ row[on[p]] \in Rows
  BY Parts DEF Places, TypeOK
<1>2. Becomes(p, "update", goal[p], entity[p], row[on[p]], known[p])
  BY StaysSame DEF Select, Go, Becomes
<1> QED
  BY <1>1, <1>2, Parts, BecomesOnly

\* Those a change of a row leaves behind.
Behind(p, new) ==
  IF new = row[on[p]] THEN outdated
  ELSE outdated \cup {q \in Procs \ {p} : pc[q] \notin {"idle", "new"} /\ on[q] = on[p]}

LEMMA UpdateDoes ==
  ASSUME TypeOK, NEW p \in Procs, Update(p)
  PROVE  LET new == Written(entity[p], seen[p], row[on[p]])
         IN  /\ new \in Rows /\ row' = [row EXCEPT ![on[p]] = new]
             /\ on' = on
             /\ \/ Ended(p) /\ outdated' = Behind(p, new) \ {p}
                \/ Advanced(p) /\ outdated' = Behind(p, new)
<1> DEFINE new == Written(entity[p], seen[p], row[on[p]])
           next == After(goal[p], kind[on[p]])
<1>1. /\ row' = [row EXCEPT ![on[p]] = new] /\ on' = on
  BY DEF Update
<1>2. row[on[p]] \in Rows /\ entity[p] \in Rows /\ seen[p] \in Rows
  BY Parts DEF TypeOK
<1>3. new \in Rows
  BY <1>2 DEF Written, Column, Rows
<1>4. CASE next = "none"
  <2>1. /\ Becomes(p, "idle", "none", NoRow, NoRow, NoBalances)
        /\ outdated' = Behind(p, new) \ {p}
    BY <1>4 DEF Update, Becomes, Behind, Go
  <2> QED
    BY <1>1, <1>3, <2>1, BecomesOnly, Nothing DEF Ended
<1>5. CASE next # "none"
  <2>1. /\ Go(p, First(next), next) /\ UNCHANGED <<entity, seen, known>>
        /\ outdated' = Behind(p, new)
    BY <1>5 DEF Update, Behind
  <2>2. next \in Goals /\ First(next) \in Places
    BY Firsts, Nothing
  <2>3. Only(p, First(next), next, entity[p], seen[p], known[p])
    BY <2>1, <2>2, Goes
  <2> QED
    BY <1>1, <1>3, <1>5, <2>1, <2>2, <2>3 DEF Advanced
<1> QED
  BY <1>4, <1>5

LEMMA LookDoes ==
  ASSUME TypeOK, NEW p \in Procs, NEW t \in Txs, Look(p, t)
  PROVE  Only(p, "ask", "settle", row[t], seen[p], known[p]) /\ on' = [on EXCEPT ![p] = t]
<1>1. "ask" \in Places /\ "settle" \in Goals /\ row[t] \in Rows
  BY DEF Places, Goals, TypeOK
<1>2. Becomes(p, "ask", "settle", row[t], seen[p], known[p]) /\ on' = [on EXCEPT ![p] = t]
  BY StaysSame DEF Look, Go, Becomes
<1> QED
  BY <1>1, <1>2, Parts, BecomesOnly

LEMMA EditDoes ==
  ASSUME TypeOK, NEW c \in Clerks, NEW t \in Txs, NEW s \in {"CANCELLED", row[t].status}, Edit(c, t, s)
  PROVE  /\ Only(c, "select", "edit", Marked(row[t], s), seen[c], known[c])
         /\ on' = [on EXCEPT ![c] = t]
<1>1. "select" \in Places /\ "edit" \in Goals /\ row[t] \in Rows /\ s \in Statuses /\ c \in Procs
  BY DEF Places, Goals, TypeOK, Rows, Statuses, Procs
<1>2. Marked(row[t], s) \in Rows /\ [row[t] EXCEPT !.status = s] = Marked(row[t], s)
  BY <1>1, MarkedTyped
<1>3. Becomes(c, "select", "edit", Marked(row[t], s), seen[c], known[c]) /\ on' = [on EXCEPT ![c] = t]
  BY <1>1, <1>2, StaysSame DEF Edit, Go, Becomes
<1> QED
  BY <1>1, <1>2, <1>3, Parts, BecomesOnly

LEMMA AskDoes ==
  ASSUME TypeOK, NEW p \in Procs, NEW answer \in {"PENDING", "SUCCESS", "FAILED"}, Ask(p, answer)
  PROVE  /\ on' = on
         /\ \/ Ended(p) /\ outdated' = outdated \ {p}
            \/ \E g \in {"credit", "refund", "settle"} :
                 /\ answer = chain[on[p]] /\ outdated' = outdated
                 /\ g = "credit" <=> answer = "SUCCESS" /\ kind[on[p]] = "DEPOSIT"
                 /\ g = "refund" <=> answer = "FAILED" /\ kind[on[p]] = "WITHDRAW"
                 /\ Only(p, First(g), g, Marked(entity[p], answer), seen[p], known[p])
<1>1. CASE answer = "PENDING"
  BY <1>1, Ends DEF Ask, End
<1>2. CASE answer # "PENDING"
  <2> DEFINE next == CASE answer = "SUCCESS" /\ kind[on[p]] = "DEPOSIT" -> "credit"
                       [] answer = "FAILED" /\ kind[on[p]] = "WITHDRAW" -> "refund"
                       [] OTHER -> "settle"
  <2>1. next \in {"credit", "refund", "settle"} /\ next \in Goals /\ answer \in Statuses
    BY DEF Goals, Moves, Statuses
  <2>2. /\ next = "credit" <=> answer = "SUCCESS" /\ kind[on[p]] = "DEPOSIT"
        /\ next = "refund" <=> answer = "FAILED" /\ kind[on[p]] = "WITHDRAW"
    OBVIOUS
  <2>3. /\ Go(p, First(next), next)
        /\ entity' = [entity EXCEPT ![p] = [entity[p] EXCEPT !.status = answer]]
        /\ UNCHANGED <<on, seen, known, outdated>>
        /\ answer = chain[on[p]]
    BY <1>2 DEF Ask, Answers
  <2>4. /\ Marked(entity[p], answer) \in Rows
        /\ [entity[p] EXCEPT !.status = answer] = Marked(entity[p], answer)
    BY <2>1, MarkedTyped, Parts
  <2>5. Becomes(p, First(next), next, Marked(entity[p], answer), seen[p], known[p])
    BY <2>3, <2>4, StaysSame DEF Go, Becomes
  <2>6. First(next) \in Places
    BY <2>1, Firsts, Nothing
  <2>7. Only(p, First(next), next, Marked(entity[p], answer), seen[p], known[p])
    BY <2>1, <2>4, <2>5, <2>6, Parts, BecomesOnly
  <2> HIDE DEF next
  <2> QED
    BY <2>1, <2>2, <2>3, <2>7
<1> QED
  BY <1>1, <1>2

-----------------------------------------------------------------------------
(* Types. *)

\* The steps there are.
LEMMA StepsSplit ==
  ASSUME [Next]_vars
  PROVE  \/ \E t \in Txs : (\E k \in Kinds : CheckLimit(t, k)) \/ CheckBalance(t)
         \/ \E t \in Txs : Persist(t)
         \/ \E t \in Txs : Pay(t)
         \/ \E t \in Txs : Refuse(t)
         \/ \E t \in Txs : Notify(t)
         \/ \E t \in Txs : Category(t)
         \/ \E p \in Procs : ReadUser(p)
         \/ \E p \in Procs : WriteUser(p)
         \/ \E p \in Procs : Select(p)
         \/ \E p \in Procs : Update(p)
         \/ \E c \in Clerks, t \in Txs : Verify(c, t)
         \/ \E c \in Clerks, t \in Txs : \E s \in {"CANCELLED", row[t].status} : Edit(c, t, s)
         \/ \E j \in Jobs : Tick(j)
         \/ \E p \in Checks : Find(p)
         \/ \E p \in Procs : \E answer \in {"PENDING", "SUCCESS", "FAILED"} : Ask(p, answer)
         \/ \E p \in Procs : Fail(p)
         \/ UNCHANGED vars
<1>1. Txs \subseteq Procs /\ Clerks \subseteq Procs /\ Checks \subseteq Procs
  BY DEF Procs
<1>2. ASSUME NEW t \in Txs, Create(t)
      PROVE  \/ CheckBalance(t) \/ Persist(t) \/ Pay(t) \/ Refuse(t) \/ Notify(t) \/ Category(t)
             \/ \E p \in Procs : ReadUser(p) \/ WriteUser(p) \/ Select(p) \/ Update(p)
  BY <1>1, <1>2 DEF Create, Step
<1>3. ASSUME NEW c \in Clerks, Clerk(c)
      PROVE  \/ \E t \in Txs : Verify(c, t)
             \/ \E t \in Txs : \E s \in {"CANCELLED", row[t].status} : Edit(c, t, s)
             \/ \E answer \in {"PENDING", "SUCCESS", "FAILED"} : Ask(c, answer)
             \/ \E p \in Procs : ReadUser(p) \/ WriteUser(p) \/ Select(p) \/ Update(p)
  BY <1>1, <1>3 DEF Clerk, Step
<1>4. ASSUME NEW p \in Checks, Check(p)
      PROVE  \/ Find(p) \/ \E answer \in {"PENDING", "SUCCESS", "FAILED"} : Ask(p, answer)
             \/ \E q \in Procs : ReadUser(q) \/ WriteUser(q) \/ Select(q) \/ Update(q)
  BY <1>1, <1>4 DEF Check, Step
<1>5. \/ \E t \in Txs : Create(t) \/ \E k \in Kinds : CheckLimit(t, k)
      \/ \E c \in Clerks : Clerk(c)
      \/ \E j \in Jobs : Tick(j)
      \/ \E p \in Checks : Check(p)
      \/ \E p \in Procs : Fail(p)
      \/ UNCHANGED vars
  BY DEF Next
<1>6. CASE \E t \in Txs : Create(t)
  BY <1>2, <1>6
<1>7. CASE \E c \in Clerks : Clerk(c)
  <2>1. PICK c \in Clerks : Clerk(c)
    BY <1>7
  <2> QED
    BY <1>1, <1>3, <2>1
<1>8. CASE \E p \in Checks : Check(p)
  <2>1. PICK p \in Checks : Check(p)
    BY <1>8
  <2> QED
    BY <1>1, <1>4, <2>1
<1> QED
  BY <1>5, <1>6, <1>7, <1>8

Troubles == {"fault", "short", "race", "again", "undone", "erased", "unsaved"}

\* The part of the types that is not about processes.
Globals ==
  /\ kind \in [Txs -> Kinds \cup {"NONE"}]
  /\ row \in [Txs -> Rows]
  /\ chain \in [Txs -> {"NONE", "SUCCESS", "FAILED"}]
  /\ balance \in Balances
  /\ on \in [Procs -> Txs]
  /\ outdated \subseteq Procs
  /\ moved \in [Txs -> [Moves -> Nat]]
  /\ mishaps \in [Txs -> SUBSET Troubles]
  /\ lost \in BOOLEAN
  /\ uncounted \in BOOLEAN
  /\ requests \in 0 .. MaxRequests
  /\ faults \in 0 .. MaxFaults

Locals ==
  /\ pc \in [Procs -> Places]
  /\ goal \in [Procs -> Goals]
  /\ entity \in [Procs -> Rows]
  /\ seen \in [Procs -> Rows]
  /\ known \in [Procs -> Balances]

LEMMA TypesSplit == TypeOK <=> Globals /\ Locals
  BY DEF TypeOK, Globals, Locals, Places, Troubles

LEMMA MishapsGrow ==
  ASSUME Globals, NEW t \in Txs, NEW more \in SUBSET Troubles,
         mishaps' = [mishaps EXCEPT ![t] = mishaps[t] \cup more]
  PROVE  /\ mishaps' \in [Txs -> SUBSET Troubles]
         /\ mishaps'[t] = mishaps[t] \cup more
         /\ \A u \in Txs : mishaps[u] \subseteq mishaps'[u]
<1>1. mishaps[t] \cup more \in SUBSET Troubles
  BY DEF Globals
<1> QED
  BY <1>1 DEF Globals

LEMMA MishapTyped ==
  ASSUME Globals, NEW t \in Txs, NEW what \in Troubles, Mishap(t, what)
  PROVE  /\ mishaps' \in [Txs -> SUBSET Troubles]
         /\ mishaps'[t] = mishaps[t] \cup {what}
         /\ \A u \in Txs : mishaps[u] \subseteq mishaps'[u]
<1>1. mishaps' = [mishaps EXCEPT ![t] = mishaps[t] \cup {what}]
  BY DEF Mishap
<1>2. {what} \in SUBSET Troubles
  OBVIOUS
<1> QED
  BY <1>1, <1>2, MishapsGrow

\* A process stays where its place says.
LEMMA PlacedOnly ==
  ASSUME \A q \in Procs : Placed(q), NEW p \in Procs,
         NEW place, NEW for, NEW held, NEW read, NEW money,
         Only(p, place, for, held, read, money),
         place \in {"read", "write"} => for \in Moves,
         place \in Unpaid => p \in Txs,
         \A q \in Procs : q \in Txs => on'[q] = on[q]
  PROVE  \A q \in Procs : Placed(q)'
  BY DEF Only, Placed

LEMMA PlacedAdvance ==
  ASSUME \A q \in Procs : Placed(q), NEW p \in Procs, Ended(p) \/ Advanced(p) \/ GaveUp(p), on' = on
  PROVE  \A q \in Procs : Placed(q)'
<1>1. CASE Ended(p)
  BY <1>1, PlacedOnly DEF Ended, Unpaid
<1>2. CASE Advanced(p)
  <2>1. PICK g \in Goals : Only(p, First(g), g, entity[p], seen[p], known[p])
    BY <1>2 DEF Advanced
  <2>2. First(g) \in {"read", "notify", "category", "select"} /\ (First(g) = "read" => g \in Moves)
    BY Firsts
  <2> QED
    BY <2>1, <2>2, PlacedOnly DEF Unpaid
<1>3. CASE GaveUp(p)
  BY <1>3, PlacedOnly DEF GaveUp, Unpaid
<1> QED
  BY <1>1, <1>2, <1>3

LEMMA LocalsOnly ==
  ASSUME NEW p \in Procs, NEW place, NEW for, NEW held, NEW read, NEW money,
         Only(p, place, for, held, read, money)
  PROVE  Locals'
  BY DEF Only, Locals

LEMMA LocalsEnd ==
  ASSUME NEW p \in Procs, Ended(p) \/ Advanced(p) \/ GaveUp(p)
  PROVE  Locals'
  BY LocalsOnly DEF Ended, Advanced, GaveUp

LEMMA TypedStep == Typed /\ [Next]_vars => Typed'
<1> SUFFICES ASSUME Typed, [Next]_vars PROVE Typed'
  OBVIOUS
<1>0. TypeOK /\ Globals /\ Locals /\ (\A q \in Procs : Placed(q)) /\ Txs \subseteq Procs
      /\ Clerks \subseteq Procs /\ Checks \subseteq Procs
      /\ Txs \cap Clerks = {} /\ Txs \cap Checks = {}
  BY TypesSplit, TransactionsAssumption DEF Typed, Procs
<1> SUFFICES Globals' /\ Locals' /\ (\A q \in Procs : Placed(q)')
  BY DEF Typed, TypeOK, Globals, Locals, Places, Troubles
<1>1. ASSUME NEW t \in Txs, (\E k \in Kinds : CheckLimit(t, k)) \/ CheckBalance(t)
      PROVE  Globals' /\ Locals' /\ (\A q \in Procs : Placed(q)')
  <2>1. Globals'
    BY <1>0, <1>1 DEF CheckLimit, CheckBalance, Globals, ghosts, bounds
  <2>2. PICK place \in {"persist", "balance", "new"} :
          Only(t, place, "create", entity[t], seen[t], known[t])
    BY <1>0, <1>1, CheckLimitDoes, CheckBalanceDoes
  <2>3. on' = on
    BY <1>1 DEF CheckLimit, CheckBalance
  <2> QED
    BY <1>0, <2>1, <2>2, <2>3, LocalsOnly, PlacedOnly
<1>2. ASSUME NEW t \in Txs, Persist(t)
      PROVE  Globals' /\ Locals' /\ (\A q \in Procs : Placed(q)')
  <2>1. /\ Only(t, "pay", "create", Marked(entity[t], "PENDING"), seen[t], known[t])
        /\ row' = [row EXCEPT ![t] = Marked(row[t], "PENDING")]
    BY <1>0, <1>2, PersistDoes
  <2>2. Marked(row[t], "PENDING") \in Rows
    BY <1>0, MarkedTyped DEF Globals, Statuses
  <2>3. Globals'
    <3>1. row' \in [Txs -> Rows]
      BY <1>0, <2>1, <2>2 DEF Globals
    <3>2. uncounted' \in BOOLEAN
      BY <1>2 DEF Persist
    <3> QED
      BY <1>0, <1>2, <3>1, <3>2 DEF Persist, Globals, bounds
  <2>4. on' = on
    BY <1>2 DEF Persist
  <2> QED
    BY <1>0, <2>1, <2>3, <2>4, LocalsOnly, PlacedOnly
<1>3. ASSUME NEW t \in Txs, Pay(t)
      PROVE  Globals' /\ Locals' /\ (\A q \in Procs : Placed(q)')
  <2>1. Globals'
    BY <1>0, <1>3 DEF Pay, Globals, ghosts, bounds
  <2>2. PICK g \in {"hash", "debit", "done"} :
          Only(t, First(g), g,
               [status |-> IF g = "done" THEN "SUCCESS" ELSE entity[t].status, hash |-> TRUE],
               seen[t], known[t])
    BY <1>0, <1>3, PayDoes
  <2>3. on' = on
    BY <1>3 DEF Pay
  <2>4. First(g) \in {"read", "write"} => g \in Moves
    BY DEF First, Moves
  <2> QED
    BY <1>0, <2>1, <2>2, <2>3, <2>4, LocalsOnly, PlacedOnly
<1>4. ASSUME NEW t \in Txs, Refuse(t) \/ Notify(t)
      PROVE  Globals' /\ Locals' /\ (\A q \in Procs : Placed(q)')
  <2>1. on' = on /\ (Ended(t) \/ Advanced(t) \/ GaveUp(t)) /\ outdated' \subseteq outdated
    BY <1>0, <1>4, Advances, Throws DEF Refuse, Notify
  <2>2. Globals'
    BY <1>0, <1>4, <2>1 DEF Refuse, Notify, Globals, ghosts, bounds
  <2> QED
    BY <1>0, <2>1, <2>2, LocalsEnd, PlacedAdvance
<1>5. ASSUME NEW t \in Txs, Category(t)
      PROVE  Globals' /\ Locals' /\ (\A q \in Procs : Placed(q)')
  <2>1. on' = on /\ outdated' \subseteq outdated
    BY <1>0, <1>5, CategoryDoes
  <2>2. Globals'
    <3>1. mishaps' \in [Txs -> SUBSET Troubles]
      BY <1>0, <1>5, MishapTyped DEF Category, Globals, Troubles
    <3> QED
      BY <1>0, <1>5, <2>1, <3>1 DEF Category, Globals, bounds
  <2>3. CASE Ended(t)
    BY <1>0, <2>1, <2>2, <2>3, LocalsEnd, PlacedAdvance
  <2>4. CASE Only(t, "select", "category", entity[t], seen[t], known[t])
    BY <1>0, <2>1, <2>2, <2>4, LocalsOnly, PlacedOnly
  <2> QED
    BY <1>0, <1>5, <2>3, <2>4, CategoryDoes
<1>6. ASSUME NEW p \in Procs, ReadUser(p)
      PROVE  Globals' /\ Locals' /\ (\A q \in Procs : Placed(q)')
  <2>1. Globals'
    BY <1>0, <1>6 DEF ReadUser, Globals, ghosts, bounds
  <2>2. on' = on /\ goal[p] \in Moves
    BY <1>0, <1>6 DEF ReadUser, Placed
  <2> QED
    BY <1>0, <1>6, <2>1, <2>2, ReadUserDoes, LocalsOnly, PlacedOnly DEF Unpaid
<1>7. ASSUME NEW p \in Procs, WriteUser(p)
      PROVE  Globals' /\ Locals' /\ (\A q \in Procs : Placed(q)')
  <2>1. on' = on /\ (Ended(p) \/ Advanced(p) \/ GaveUp(p)) /\ outdated' \subseteq outdated
    BY <1>0, <1>7, Advances, Throws DEF WriteUser
  <2>2. goal[p] \in Moves /\ on[p] \in Txs /\ known[p] \in Balances
    BY <1>0, <1>7 DEF WriteUser, Placed, Globals, Locals
  <2>3. balance' \in Balances /\ moved' \in [Txs -> [Moves -> Nat]] /\ lost' \in BOOLEAN
    <3>1. Change(goal[p], kind[on[p]]) \in Int
      BY TransactionsAssumption DEF Change
    <3>2. Currency(goal[p]) \in {"from", "to"}
      BY DEF Currency
    <3>3. known[p][Currency(goal[p])] \in Int
      BY <2>2, <3>2 DEF Balances
    <3>4. CASE UNCHANGED <<balance, moved, lost>>
      BY <1>0, <3>4 DEF Globals
    <3>5. CASE /\ balance' = NewBalances(known[p], Currency(goal[p]),
                               known[p][Currency(goal[p])] + Change(goal[p], kind[on[p]]))
               /\ moved' = [moved EXCEPT ![on[p]][goal[p]] = @ + 1]
               /\ lost' = (lost \/ balance # known[p])
      <4>1. balance' \in Balances
        BY <2>2, <3>1, <3>2, <3>3, <3>5 DEF NewBalances, Balances
      <4>2. moved' \in [Txs -> [Moves -> Nat]]
        <5>1. moved[on[p]] \in [Moves -> Nat]
          BY <1>0, <2>2 DEF Globals
        <5>2. [moved[on[p]] EXCEPT ![goal[p]] = moved[on[p]][goal[p]] + 1] \in [Moves -> Nat]
          BY <2>2, <5>1
        <5> QED
          BY <1>0, <2>2, <3>5, <5>2 DEF Globals
      <4> QED
        BY <1>0, <3>5, <4>1, <4>2 DEF Globals
    <3> QED
      BY <1>7, <3>4, <3>5 DEF WriteUser
  <2>4. Globals'
    <3>1. mishaps' \in [Txs -> SUBSET Troubles]
      BY <1>0, <1>7, <2>2, MishapTyped DEF WriteUser, Globals, Troubles
    <3> QED
      BY <1>0, <1>7, <2>1, <2>3, <3>1 DEF WriteUser, Globals, bounds
  <2> QED
    BY <1>0, <2>1, <2>4, LocalsEnd, PlacedAdvance
<1>8. ASSUME NEW p \in Procs, Select(p)
      PROVE  Globals' /\ Locals' /\ (\A q \in Procs : Placed(q)')
  <2>1. Globals'
    BY <1>0, <1>8 DEF Select, Globals, ghosts, bounds
  <2>2. on' = on
    BY <1>8 DEF Select
  <2> QED
    BY <1>0, <1>8, <2>1, <2>2, SelectDoes, LocalsOnly, PlacedOnly DEF Unpaid
<1>9. ASSUME NEW p \in Procs, Update(p)
      PROVE  Globals' /\ Locals' /\ (\A q \in Procs : Placed(q)')
  <2>1. PICK new \in Rows :
          /\ new = Written(entity[p], seen[p], row[on[p]])
          /\ row' = [row EXCEPT ![on[p]] = new]
    BY <1>0, <1>9, UpdateDoes
  <2>2. on' = on /\ outdated' \subseteq Behind(p, new) /\ (Ended(p) \/ Advanced(p))
    BY <1>0, <1>9, <2>1, UpdateDoes
  <2>3. outdated' \subseteq Procs
    BY <1>0, <2>2 DEF Behind, Globals
  <2>4. mishaps' \in [Txs -> SUBSET Troubles]
    <3>1. /\ mishaps' = [mishaps EXCEPT ![on[p]] = @ \cup Undone(p, row[on[p]], new)]
          /\ on[p] \in Txs
      BY <1>0, <1>9, <2>1 DEF Update, Globals
    <3>2. Undone(p, row[on[p]], new) \subseteq {"undone", "erased"}
      BY DEF Undone
    <3> QED
      BY <1>0, <3>1, <3>2, MishapsGrow DEF Troubles
  <2>5. Globals'
    BY <1>0, <1>9, <2>1, <2>2, <2>3, <2>4 DEF Update, Globals, bounds
  <2> QED
    BY <1>0, <2>2, <2>5, LocalsEnd, PlacedAdvance
<1>10. ASSUME NEW p \in Procs \ Txs, NEW t \in Txs, Look(p, t), p \in Checks => t = on[p],
              UNCHANGED faults, requests' \in 0 .. MaxRequests
       PROVE  Globals' /\ Locals' /\ (\A q \in Procs : Placed(q)')
  <2>1. Only(p, "ask", "settle", row[t], seen[p], known[p]) /\ on' = [on EXCEPT ![p] = t]
    BY <1>0, <1>10, LookDoes
  <2>2. /\ on' \in [Procs -> Txs]
        /\ \A q \in Procs : q \in Txs => on'[q] = on[q]
    BY <1>0, <2>1 DEF Globals
  <2>3. mishaps' \in [Txs -> SUBSET Troubles]
    <3> DEFINE more == (IF \E q \in Procs \ {p} : Verifying(q) /\ on[q] = t THEN {"race"} ELSE {})
                       \cup (IF row[t].status \in Settled THEN {"again"} ELSE {})
    <3>1. mishaps' = [mishaps EXCEPT ![t] = mishaps[t] \cup more]
      BY <1>10 DEF Look
    <3>2. more \in SUBSET Troubles
      BY DEF Troubles
    <3> HIDE DEF more
    <3> QED
      BY <1>0, <3>1, <3>2, MishapsGrow
  <2>4. Globals'
    BY <1>0, <1>10, <2>2, <2>3 DEF Look, Globals
  <2> QED
    BY <1>0, <2>1, <2>2, <2>4, LocalsOnly, PlacedOnly DEF Unpaid
<1>11. ASSUME NEW c \in Clerks, NEW t \in Txs, Verify(c, t)
       PROVE  Globals' /\ Locals' /\ (\A q \in Procs : Placed(q)')
  <2>1. UNCHANGED faults /\ requests' \in 0 .. MaxRequests
    BY <1>0, <1>11, TransactionsAssumption DEF Verify, Request, Globals
  <2>2. Look(c, t) /\ c \in Procs \ Txs /\ c \notin Checks
    BY <1>0, <1>11, TransactionsAssumption DEF Verify
  <2> QED
    BY <2>1, <2>2, <1>10
<1>12. ASSUME NEW c \in Clerks, NEW t \in Txs, NEW s \in {"CANCELLED", row[t].status}, Edit(c, t, s)
       PROVE  Globals' /\ Locals' /\ (\A q \in Procs : Placed(q)')
  <2>1. UNCHANGED faults /\ requests' \in 0 .. MaxRequests
    BY <1>0, <1>12, TransactionsAssumption DEF Edit, Request, Globals
  <2>2. /\ Only(c, "select", "edit", Marked(row[t], s), seen[c], known[c])
        /\ on' = [on EXCEPT ![c] = t]
    BY <1>0, <1>12, EditDoes
  <2>3. /\ on' \in [Procs -> Txs]
        /\ \A q \in Procs : q \in Txs => on'[q] = on[q]
    BY <1>0, <2>2 DEF Globals
  <2>4. Globals'
    BY <1>0, <1>12, <2>1, <2>3 DEF Edit, Globals, ghosts
  <2> QED
    BY <1>0, <2>2, <2>3, <2>4, LocalsOnly, PlacedOnly DEF Unpaid
<1>13. ASSUME NEW j \in Jobs, Tick(j)
       PROVE  Globals' /\ Locals' /\ (\A q \in Procs : Placed(q)')
  <2>1. /\ pc' = [p \in Procs |-> IF p \in {j} \X Pending THEN "find" ELSE pc[p]]
        /\ UNCHANGED <<kind, row, chain, balance, goal, on, entity, seen, known, outdated, ghosts, bounds>>
    BY <1>13 DEF Tick
  <2>2. Globals' /\ Locals'
    BY <1>0, <2>1 DEF Globals, Locals, ghosts, bounds, Places
  <2>3. \A q \in Procs : pc'[q] \in {"find", pc[q]}
    BY <2>1
  <2> QED
    BY <1>0, <2>1, <2>2, <2>3 DEF Placed, Unpaid
<1>14. ASSUME NEW p \in Checks, Find(p)
       PROVE  Globals' /\ Locals' /\ (\A q \in Procs : Placed(q)')
  <2>1. p \in Procs \ Txs /\ on[p] \in Txs
    BY <1>0 DEF Globals
  <2>2. UNCHANGED bounds
    BY <1>14 DEF Find
  <2>3. CASE Look(p, on[p])
    BY <1>0, <1>10, <2>1, <2>2, <2>3 DEF bounds, Globals
  <2>4. CASE End(p) /\ UNCHANGED <<kind, row, chain, balance, ghosts>>
    <3>1. Ended(p) /\ on' = on /\ outdated' = outdated \ {p}
      BY <1>0, <2>1, <2>4, Ends
    <3>2. Globals'
      BY <1>0, <2>2, <2>4, <3>1 DEF Globals, ghosts, bounds
    <3> QED
      BY <1>0, <2>1, <3>1, <3>2, LocalsEnd, PlacedAdvance
  <2> QED
    BY <1>14, <2>3, <2>4 DEF Find
<1>15. ASSUME NEW p \in Procs, NEW answer \in {"PENDING", "SUCCESS", "FAILED"}, Ask(p, answer)
       PROVE  Globals' /\ Locals' /\ (\A q \in Procs : Placed(q)')
  <2>1. on' = on /\ outdated' \subseteq outdated
    BY <1>0, <1>15, AskDoes
  <2>2. Globals'
    BY <1>0, <1>15, <2>1 DEF Ask, Globals, ghosts, bounds
  <2>3. CASE Ended(p)
    BY <1>0, <2>1, <2>2, <2>3, LocalsEnd, PlacedAdvance
  <2>4. ASSUME NEW g \in {"credit", "refund", "settle"},
               Only(p, First(g), g, Marked(entity[p], answer), seen[p], known[p])
        PROVE  Globals' /\ Locals' /\ (\A q \in Procs : Placed(q)')
    <3>1. (First(g) \in {"read", "write"} => g \in Moves) /\ First(g) \notin Unpaid
      BY DEF First, Moves, Unpaid
    <3> QED
      BY <1>0, <2>1, <2>2, <2>4, <3>1, LocalsOnly, PlacedOnly
  <2> QED
    BY <1>0, <1>15, <2>3, <2>4, AskDoes
<1>16. ASSUME NEW p \in Procs, Fail(p)
       PROVE  Globals' /\ Locals' /\ (\A q \in Procs : Placed(q)')
  <2>1. on' = on /\ (Ended(p) \/ GaveUp(p)) /\ outdated' \subseteq outdated
    BY <1>0, <1>16, Throws DEF Fail
  <2>2. Globals'
    <3>1. mishaps' \in [Txs -> SUBSET Troubles]
      <4>1. on[p] \in Txs /\ "fault" \in Troubles /\ Mishap(on[p], "fault")
        BY <1>0, <1>16 DEF Fail, Globals, Troubles
      <4> QED
        BY <1>0, <4>1, MishapTyped
    <3>2. chain' \in [Txs -> {"NONE", "SUCCESS", "FAILED"}]
      BY <1>0, <1>16 DEF Fail, Globals
    <3>3. faults' \in 0 .. MaxFaults
      BY <1>0, <1>16, TransactionsAssumption DEF Fail, Globals
    <3> QED
      BY <1>0, <1>16, <2>1, <3>1, <3>2, <3>3 DEF Fail, Globals
  <2> QED
    BY <1>0, <2>1, <2>2, LocalsEnd, PlacedAdvance
<1>17. CASE UNCHANGED vars
  BY <1>0, <1>17 DEF vars, Globals, Locals, Placed
<1> QED
  BY StepsSplit, <1>1, <1>2, <1>3, <1>4, <1>5, <1>6, <1>7, <1>8, <1>9, <1>11, <1>12, <1>13,
     <1>14, <1>15, <1>16, <1>17

LEMMA TypedInit == Init => Typed
<1> SUFFICES ASSUME Init PROVE Typed
  OBVIOUS
<1>1. Globals
  <2>1. on \in [Procs -> Txs]
    <3>1. (CHOOSE t \in Txs : TRUE) \in Txs
      BY TransactionsAssumption
    <3>2. \A p \in Checks : p[2] \in Txs
      BY DEF Checks
    <3> QED
      BY <3>1, <3>2 DEF Init
  <2>2. row \in [Txs -> Rows]
    BY Nothing DEF Init
  <2>3. balance \in Balances
    BY TransactionsAssumption DEF Init, Balances
  <2>4. moved \in [Txs -> [Moves -> Nat]] /\ mishaps \in [Txs -> SUBSET Troubles]
    BY DEF Init
  <2>5. kind \in [Txs -> Kinds \cup {"NONE"}] /\ chain \in [Txs -> {"NONE", "SUCCESS", "FAILED"}]
    BY DEF Init
  <2>6. requests \in 0 .. MaxRequests /\ faults \in 0 .. MaxFaults
    BY TransactionsAssumption DEF Init
  <2>7. outdated = {} /\ lost = FALSE /\ uncounted = FALSE
    BY DEF Init
  <2> QED
    BY <2>1, <2>2, <2>3, <2>4, <2>5, <2>6, <2>7 DEF Globals
<1>2. Locals
  BY Nothing DEF Init, Locals, Goals, Places
<1>3. \A p \in Procs : Placed(p)
  BY DEF Init, Placed, Unpaid
<1> QED
  BY <1>1, <1>2, <1>3, TypesSplit DEF Typed

LEMMA TypedAlways == Spec => []Typed
  BY TypedInit, TypedStep, PTL DEF Spec

\* The variables of Transactions keep their types.
THEOREM TypeCorrect == Spec => []TypeOK
<1>1. Typed => TypeOK
  BY DEF Typed
<1> QED
  BY <1>1, TypedAlways, PTL

-----------------------------------------------------------------------------
(* The balances. *)

NotNegative(b) == \A c \in {"from", "to"} : b[c] >= 0

\* The balances, and what has been read of them, are not negative.
Solvent == NotNegative(balance) /\ \A p \in Procs : NotNegative(known[p])

LEMMA KnownOnly ==
  ASSUME Solvent, NEW p \in Procs, NEW place, NEW for, NEW held, NEW read, NEW money,
         Only(p, place, for, held, read, money), NotNegative(money)
  PROVE  \A q \in Procs : NotNegative(known'[q])
  BY DEF Only, Solvent

LEMMA KnownEnd ==
  ASSUME Solvent, NEW p \in Procs, Ended(p) \/ Advanced(p) \/ GaveUp(p)
  PROVE  \A q \in Procs : NotNegative(known'[q])
<1>1. NotNegative(NoBalances) /\ NotNegative(known[p])
  BY DEF NotNegative, NoBalances, Solvent
<1> QED
  BY <1>1, KnownOnly DEF Ended, Advanced, GaveUp

LEMMA SolventStep == Typed /\ Solvent /\ [Next]_vars => Solvent'
<1> SUFFICES ASSUME Typed, Solvent, [Next]_vars PROVE Solvent'
  OBVIOUS
<1>0. TypeOK /\ Txs \subseteq Procs /\ Clerks \subseteq Procs /\ Checks \subseteq Procs
      /\ NotNegative(balance) /\ \A p \in Procs : NotNegative(known[p])
  BY DEF Typed, Procs, Solvent
<1> SUFFICES NotNegative(balance') /\ \A q \in Procs : NotNegative(known'[q])
  BY DEF Solvent, NotNegative
<1>1. ASSUME NEW t \in Txs, (\E k \in Kinds : CheckLimit(t, k)) \/ CheckBalance(t)
      PROVE  balance' = balance /\ \A q \in Procs : NotNegative(known'[q])
  <2>1. PICK place \in {"persist", "balance", "new"} :
          Only(t, place, "create", entity[t], seen[t], known[t])
    BY <1>0, <1>1, CheckLimitDoes, CheckBalanceDoes
  <2> QED
    BY <1>0, <1>1, <2>1, KnownOnly DEF CheckLimit, CheckBalance
<1>2. ASSUME NEW t \in Txs, Persist(t)
      PROVE  balance' = balance /\ \A q \in Procs : NotNegative(known'[q])
  BY <1>0, <1>2, PersistDoes, KnownOnly DEF Persist
<1>3. ASSUME NEW t \in Txs, Pay(t)
      PROVE  balance' = balance /\ \A q \in Procs : NotNegative(known'[q])
  BY <1>0, <1>3, PayDoes, KnownOnly DEF Pay
<1>4. ASSUME NEW t \in Txs, Refuse(t) \/ Notify(t)
      PROVE  balance' = balance /\ \A q \in Procs : NotNegative(known'[q])
  <2>1. Ended(t) \/ Advanced(t) \/ GaveUp(t)
    BY <1>0, <1>4, Advances, Throws DEF Refuse, Notify
  <2> QED
    BY <1>0, <1>4, <2>1, KnownEnd DEF Refuse, Notify
<1>5. ASSUME NEW t \in Txs, Category(t)
      PROVE  balance' = balance /\ \A q \in Procs : NotNegative(known'[q])
  BY <1>0, <1>5, CategoryDoes, KnownOnly, KnownEnd DEF Category
<1>6. ASSUME NEW p \in Procs, ReadUser(p)
      PROVE  balance' = balance /\ \A q \in Procs : NotNegative(known'[q])
  BY <1>0, <1>6, ReadUserDoes, KnownOnly DEF ReadUser
<1>7. ASSUME NEW p \in Procs, WriteUser(p)
      PROVE  NotNegative(balance') /\ \A q \in Procs : NotNegative(known'[q])
  <2>1. Ended(p) \/ Advanced(p) \/ GaveUp(p)
    BY <1>0, <1>7, Advances, Throws DEF WriteUser
  <2>2. \/ balance' = balance
        \/ \E c \in {"from", "to"}, new \in Int :
             new >= 0 /\ balance' = [known[p] EXCEPT ![c] = new]
    <3>1. Change(goal[p], kind[on[p]]) \in Int /\ Currency(goal[p]) \in {"from", "to"}
      BY TransactionsAssumption DEF Change, Currency
    <3>2. known[p][Currency(goal[p])] + Change(goal[p], kind[on[p]]) \in Int
      <4>1. known[p] \in Balances
        BY <1>0, Parts
      <4> QED
        BY <3>1, <4>1 DEF Balances
    <3> QED
      BY <1>7, <3>1, <3>2 DEF WriteUser, Covered, NewBalances
  <2>3. known[p] \in Balances
    BY <1>0, Parts
  <2>4. NotNegative(balance')
    BY <1>0, <2>2, <2>3 DEF NotNegative, Balances
  <2> QED
    BY <2>1, <2>4, KnownEnd
<1>8. ASSUME NEW p \in Procs, Select(p)
      PROVE  balance' = balance /\ \A q \in Procs : NotNegative(known'[q])
  BY <1>0, <1>8, SelectDoes, KnownOnly DEF Select
<1>9. ASSUME NEW p \in Procs, Update(p)
      PROVE  balance' = balance /\ \A q \in Procs : NotNegative(known'[q])
  <2>1. Ended(p) \/ Advanced(p)
    BY <1>0, <1>9, UpdateDoes
  <2> QED
    BY <1>9, <2>1, KnownEnd DEF Update
<1>10. ASSUME NEW p \in Procs, NEW t \in Txs, Look(p, t)
       PROVE  balance' = balance /\ \A q \in Procs : NotNegative(known'[q])
  BY <1>0, <1>10, LookDoes, KnownOnly DEF Look
<1>11. ASSUME NEW c \in Clerks, NEW t \in Txs, NEW s \in {"CANCELLED", row[t].status}, Edit(c, t, s)
       PROVE  balance' = balance /\ \A q \in Procs : NotNegative(known'[q])
  BY <1>0, <1>11, EditDoes, KnownOnly DEF Edit
<1>12. ASSUME NEW p \in Checks, Find(p)
       PROVE  balance' = balance /\ \A q \in Procs : NotNegative(known'[q])
  <2>1. on[p] \in Txs
    BY <1>0, Parts
  <2>2. CASE End(p) /\ balance' = balance
    BY <1>0, <2>2, Ends, KnownEnd
  <2> QED
    BY <1>0, <1>10, <1>12, <2>1, <2>2 DEF Find
<1>13. ASSUME NEW p \in Procs, NEW answer \in {"PENDING", "SUCCESS", "FAILED"}, Ask(p, answer)
       PROVE  balance' = balance /\ \A q \in Procs : NotNegative(known'[q])
  BY <1>0, <1>13, AskDoes, KnownOnly, KnownEnd DEF Ask
<1>14. ASSUME NEW p \in Procs, Fail(p)
       PROVE  balance' = balance /\ \A q \in Procs : NotNegative(known'[q])
  <2>1. Ended(p) \/ GaveUp(p)
    BY <1>0, <1>14, Throws DEF Fail
  <2> QED
    BY <1>14, <2>1, KnownEnd DEF Fail
<1>15. CASE (\E j \in Jobs : Tick(j)) \/ UNCHANGED vars
  BY <1>0, <1>15 DEF Tick, vars
<1> QED
  BY StepsSplit, <1>0, <1>1, <1>2, <1>3, <1>4, <1>5, <1>6, <1>7, <1>8, <1>9, <1>10, <1>11,
     <1>12, <1>13, <1>14, <1>15 DEF Verify

\* No balance falls below zero, however calls overlap: each is written only when it
\* is not negative, and what it is computed from was a balance once.
THEOREM BalancesAreNotNegative == Spec => []NoOverdraft
<1>1. Init => Solvent
  BY TransactionsAssumption DEF Init, Solvent, NotNegative, NoBalances
<1>2. Solvent => NoOverdraft
  BY DEF Solvent, NotNegative, NoOverdraft
<1> QED
  BY <1>1, <1>2, SolventStep, TypedAlways, PTL DEF Spec

-----------------------------------------------------------------------------
(* Outcomes. *)

\* A copy of the row of t says of the payment only what became of it, or that
\* something failed; and nothing before it was tried.
Sound(r, t) ==
  /\ r.status = "SUCCESS" => chain[t] = "SUCCESS"
  /\ r.status = "FAILED" /\ chain[t] = "SUCCESS" => mishaps[t] \cap {"short", "fault"} # {}
  /\ pc[t] \in Unpaid => r.status \notin {"SUCCESS", "FAILED"} /\ ~ r.hash

\* A credit and a refund are due to what became of the payment.
Deserved(g, t) ==
  /\ g = "credit" => kind[t] = "DEPOSIT" /\ chain[t] = "SUCCESS"
  /\ g = "refund" => kind[t] = "WITHDRAW" /\ chain[t] = "FAILED"

HonestRow(t) ==
  /\ Sound(row[t], t)
  /\ pc[t] \in Unpaid => chain[t] = "NONE"
  /\ \A g \in Moves : moved[t][g] > 0 => Deserved(g, t)

HonestProcess(p) == Sound(entity[p], on[p]) /\ Deserved(goal[p], on[p])

Honest == (\A t \in Txs : HonestRow(t)) /\ (\A p \in Procs : HonestProcess(p))

\* Where a call is that has checked the limit and has no row yet.
Waiting == {"balance", "persist"}

\* Where a call is that has no row yet.
Early == Waiting \cup {"new"}

\* What no step takes back.
Onward ==
  \A t \in Txs :
    /\ pc'[t] \in Unpaid => pc[t] \in Unpaid
    /\ pc'[t] \in Early => pc[t] \in Early
    /\ pc'[t] \in Waiting => pc[t] \in Waiting \/ \E k \in Kinds : CheckLimit(t, k)
    /\ chain'[t] = chain[t] \/ (pc[t] \in Unpaid /\ pc'[t] \notin Unpaid)
    /\ kind'[t] = kind[t] \/ pc[t] \in Unpaid
    /\ mishaps[t] \subseteq mishaps'[t]

\* A step that does not touch payments.
LEMMA OnwardOnly ==
  ASSUME Typed, NEW p \in Procs, NEW place, NEW for, NEW held, NEW read, NEW money,
         Only(p, place, for, held, read, money), place \notin Unpaid,
         UNCHANGED <<kind, chain>>, \A t \in Txs : mishaps[t] \subseteq mishaps'[t]
  PROVE  Onward
<1>1. ASSUME NEW t \in Txs, pc'[t] \in Unpaid PROVE pc'[t] = pc[t]
  <2>1. t \in Procs
    BY DEF Procs
  <2> QED
    BY <1>1, <2>1 DEF Only
<1>2. Waiting \subseteq Unpaid /\ Early \subseteq Unpaid
  BY DEF Waiting, Early, Unpaid
<1> QED
  BY <1>1, <1>2 DEF Onward

LEMMA OnwardEnd ==
  ASSUME Typed, NEW p \in Procs, Ended(p) \/ Advanced(p) \/ GaveUp(p),
         UNCHANGED <<kind, chain>>, \A t \in Txs : mishaps[t] \subseteq mishaps'[t]
  PROVE  Onward
<1>1. "idle" \notin Unpaid /\ "select" \notin Unpaid /\ \A g \in Goals : First(g) \notin Unpaid
  BY Firsts DEF Unpaid
<1> QED
  BY <1>1, OnwardOnly DEF Ended, Advanced, GaveUp

LEMMA OnwardStep == Typed /\ [Next]_vars => Onward
<1> SUFFICES ASSUME Typed, [Next]_vars PROVE Onward
  OBVIOUS
<1>0. TypeOK /\ Globals /\ Txs \subseteq Procs /\ Clerks \subseteq Procs /\ Checks \subseteq Procs
  BY TypesSplit DEF Typed, Procs
<1>a. \A g \in Goals : First(g) \notin Unpaid
  BY Firsts DEF Unpaid
<1>1. ASSUME NEW t \in Txs, (\E k \in Kinds : CheckLimit(t, k)) \/ CheckBalance(t) PROVE Onward
  <2>1. PICK place \in {"persist", "balance", "new"} :
          Only(t, place, "create", entity[t], seen[t], known[t])
    BY <1>0, <1>1, CheckLimitDoes, CheckBalanceDoes
  <2>2. pc[t] \in Unpaid /\ chain' = chain /\ mishaps' = mishaps
    BY <1>1 DEF CheckLimit, CheckBalance, Unpaid, ghosts
  <2>3. \A u \in Txs \ {t} : kind'[u] = kind[u]
    BY <1>0, <1>1 DEF CheckLimit, CheckBalance, Globals
  <2>4. \A u \in Txs \ {t} : pc'[u] = pc[u]
    BY <1>0, <2>1 DEF Only
  <2>5. pc[t] \in Early /\ (pc[t] \in Waiting \/ \E k \in Kinds : CheckLimit(t, k))
    BY <1>1 DEF CheckBalance, CheckLimit, Waiting, Early
  <2> QED
    BY <2>2, <2>3, <2>4, <2>5 DEF Onward
<1>2. ASSUME NEW t \in Txs, Persist(t) PROVE Onward
  <2>1. Only(t, "pay", "create", Marked(entity[t], "PENDING"), seen[t], known[t])
    BY <1>0, <1>2, PersistDoes
  <2>2. pc[t] \in Unpaid /\ UNCHANGED <<chain, kind, mishaps>>
    BY <1>2 DEF Persist, Unpaid
  <2>3. \A u \in Txs \ {t} : pc'[u] = pc[u]
    BY <1>0, <2>1 DEF Only
  <2>4. pc[t] \in Waiting /\ pc[t] \in Early
    BY <1>2 DEF Persist, Waiting, Early
  <2> QED
    BY <2>2, <2>3, <2>4 DEF Onward
<1>3. ASSUME NEW t \in Txs, Pay(t) PROVE Onward
  <2>1. PICK g \in {"hash", "debit", "done"} :
          Only(t, First(g), g,
               [status |-> IF g = "done" THEN "SUCCESS" ELSE entity[t].status, hash |-> TRUE],
               seen[t], known[t])
    BY <1>0, <1>3, PayDoes
  <2>2. pc'[t] \notin Unpaid /\ pc[t] \in Unpaid
    <3>1. g \in Goals
      BY DEF Goals, Moves
    <3> QED
      BY <1>0, <1>3, <1>a, <2>1, <3>1 DEF Only, Pay, Unpaid
  <2>3. \A u \in Txs \ {t} : pc'[u] = pc[u]
    BY <1>0, <2>1 DEF Only
  <2>4. /\ \A u \in Txs \ {t} : chain'[u] = chain[u]
        /\ UNCHANGED <<kind, mishaps>>
    BY <1>0, <1>3 DEF Pay, Globals, ghosts
  <2>5. Waiting \subseteq Unpaid /\ Early \subseteq Unpaid
    BY DEF Waiting, Early, Unpaid
  <2> QED
    BY <2>2, <2>3, <2>4, <2>5 DEF Onward
<1>4. ASSUME NEW t \in Txs, Refuse(t) \/ Notify(t) PROVE Onward
  <2>1. Ended(t) \/ Advanced(t) \/ GaveUp(t)
    BY <1>0, <1>4, Advances, Throws DEF Refuse, Notify
  <2>2. UNCHANGED <<kind, chain, mishaps>>
    BY <1>4 DEF Refuse, Notify, ghosts
  <2> QED
    BY <1>0, <2>1, <2>2, OnwardEnd
<1>5. ASSUME NEW t \in Txs, Category(t) PROVE Onward
  <2>1. \/ Only(t, "select", "category", entity[t], seen[t], known[t])
        \/ Ended(t)
    BY <1>0, <1>5, CategoryDoes
  <2>2. UNCHANGED <<kind, chain>> /\ \A u \in Txs : mishaps[u] \subseteq mishaps'[u]
    <3>1. "unsaved" \in Troubles
      BY DEF Troubles
    <3> QED
      BY <1>0, <1>5, <3>1, MishapTyped DEF Category
  <2>3. "select" \notin Unpaid
    BY DEF Unpaid
  <2> QED
    BY <1>0, <2>1, <2>2, <2>3, OnwardEnd, OnwardOnly
<1>6. ASSUME NEW p \in Procs, ReadUser(p) \/ Select(p) PROVE Onward
  <2>1. UNCHANGED <<kind, chain, mishaps>>
    BY <1>6 DEF ReadUser, Select, ghosts
  <2>2. "write" \notin Unpaid /\ "update" \notin Unpaid
    BY DEF Unpaid
  <2> QED
    BY <1>0, <1>6, <2>1, <2>2, ReadUserDoes, SelectDoes, OnwardOnly
<1>7. ASSUME NEW p \in Procs, WriteUser(p) PROVE Onward
  <2>1. Ended(p) \/ Advanced(p) \/ GaveUp(p)
    BY <1>0, <1>7, Advances, Throws DEF WriteUser
  <2>2. UNCHANGED <<kind, chain>> /\ \A u \in Txs : mishaps[u] \subseteq mishaps'[u]
    <3>1. "short" \in Troubles /\ on[p] \in Txs
      BY <1>0, Parts DEF Troubles
    <3> QED
      BY <1>0, <1>7, <3>1, MishapTyped DEF WriteUser
  <2> QED
    BY <2>1, <2>2, OnwardEnd
<1>8. ASSUME NEW p \in Procs, Update(p) PROVE Onward
  <2>1. Ended(p) \/ Advanced(p)
    BY <1>0, <1>8, UpdateDoes
  <2>2. UNCHANGED <<kind, chain>> /\ \A u \in Txs : mishaps[u] \subseteq mishaps'[u]
    <3>1. on[p] \in Txs
      BY <1>0, Parts
    <3> DEFINE more == Undone(p, row[on[p]], Written(entity[p], seen[p], row[on[p]]))
    <3>2. more \in SUBSET Troubles
      BY DEF Undone, Troubles
    <3>3. mishaps' = [mishaps EXCEPT ![on[p]] = mishaps[on[p]] \cup more] /\ UNCHANGED <<kind, chain>>
      BY <1>8 DEF Update
    <3> HIDE DEF more
    <3> QED
      BY <1>0, <3>1, <3>2, <3>3, MishapsGrow
  <2> QED
    BY <2>1, <2>2, OnwardEnd
<1>9. ASSUME NEW p \in Procs, NEW t \in Txs, Look(p, t) PROVE Onward
  <2>1. UNCHANGED <<kind, chain>> /\ \A u \in Txs : mishaps[u] \subseteq mishaps'[u]
    <3> DEFINE more == (IF \E q \in Procs \ {p} : Verifying(q) /\ on[q] = t THEN {"race"} ELSE {})
                       \cup (IF row[t].status \in Settled THEN {"again"} ELSE {})
    <3>1. mishaps' = [mishaps EXCEPT ![t] = mishaps[t] \cup more] /\ UNCHANGED <<kind, chain>>
      BY <1>9 DEF Look
    <3>2. more \in SUBSET Troubles
      BY DEF Troubles
    <3> HIDE DEF more
    <3> QED
      BY <1>0, <3>1, <3>2, MishapsGrow
  <2>2. "ask" \notin Unpaid
    BY DEF Unpaid
  <2> QED
    BY <1>0, <1>9, <2>1, <2>2, LookDoes, OnwardOnly
<1>10. ASSUME NEW c \in Clerks, NEW t \in Txs, NEW s \in {"CANCELLED", row[t].status}, Edit(c, t, s)
       PROVE  Onward
  <2>1. UNCHANGED <<kind, chain, mishaps>>
    BY <1>10 DEF Edit, ghosts
  <2>2. "select" \notin Unpaid
    BY DEF Unpaid
  <2> QED
    BY <1>0, <1>10, <2>1, <2>2, EditDoes, OnwardOnly
<1>11. ASSUME NEW p \in Checks, Find(p) PROVE Onward
  <2>1. on[p] \in Txs
    BY <1>0, Parts
  <2>2. CASE End(p) /\ UNCHANGED <<kind, row, chain, balance, ghosts>>
    BY <1>0, <2>2, Ends, OnwardEnd DEF ghosts
  <2> QED
    BY <1>0, <1>9, <1>11, <2>1, <2>2 DEF Find
<1>12. ASSUME NEW p \in Procs, NEW answer \in {"PENDING", "SUCCESS", "FAILED"}, Ask(p, answer)
       PROVE  Onward
  <2>1. UNCHANGED <<kind, chain, mishaps>>
    BY <1>12 DEF Ask, ghosts
  <2>2. {"credit", "refund", "settle"} \subseteq Goals
    BY DEF Goals, Moves
  <2> QED
    BY <1>0, <1>12, <1>a, <2>1, <2>2, AskDoes, OnwardOnly, OnwardEnd
<1>13. ASSUME NEW p \in Procs, Fail(p) PROVE Onward
  <2>1. Ended(p) \/ GaveUp(p)
    BY <1>0, <1>13, Throws DEF Fail
  <2>2. kind' = kind /\ \A u \in Txs : mishaps[u] \subseteq mishaps'[u]
    <3>1. "fault" \in Troubles /\ on[p] \in Txs
      BY <1>0, Parts DEF Troubles
    <3> QED
      BY <1>0, <1>13, <3>1, MishapTyped DEF Fail
  <2>3. \A u \in Txs : chain'[u] = chain[u] \/ (u = p /\ pc[u] \in Unpaid)
    BY <1>0, <1>13 DEF Fail, Globals, Unpaid
  <2>4. pc'[p] \notin Unpaid /\ \A u \in Txs \ {p} : pc'[u] = pc[u]
    BY <1>0, <2>1 DEF Ended, GaveUp, Only, Unpaid
  <2>5. Waiting \subseteq Unpaid /\ Early \subseteq Unpaid
    BY DEF Waiting, Early, Unpaid
  <2> QED
    BY <2>2, <2>3, <2>4, <2>5 DEF Onward
<1>14. ASSUME NEW j \in Jobs, Tick(j) PROVE Onward
  <2>1. /\ \A p \in Procs : pc'[p] \in {"find", pc[p]}
        /\ UNCHANGED <<kind, chain, mishaps>>
    BY <1>14 DEF Tick, ghosts
  <2> QED
    BY <1>0, <2>1 DEF Onward, Unpaid, Waiting, Early
<1>15. CASE UNCHANGED vars
  BY <1>15 DEF vars, Onward
<1> QED
  BY StepsSplit, <1>0, <1>1, <1>2, <1>3, <1>4, <1>5, <1>6, <1>7, <1>8, <1>9, <1>10, <1>11,
     <1>12, <1>13, <1>14, <1>15 DEF Verify

LEMMA SoundStays ==
  ASSUME Onward, NEW t \in Txs, HonestRow(t), NEW r, Sound(r, t)
  PROVE  Sound(r, t)'
BY DEF Onward, HonestRow, Sound

LEMMA DeservedStays ==
  ASSUME Onward, NEW t \in Txs, HonestRow(t), NEW g, Deserved(g, t)
  PROVE  Deserved(g, t)'
BY DEF Onward, HonestRow, Deserved

LEMMA RowStays ==
  ASSUME Onward, NEW t \in Txs, HonestRow(t), Sound(row[t], t)', moved'[t] = moved[t]
  PROVE  HonestRow(t)'
<1>1. pc'[t] \in Unpaid => chain'[t] = "NONE"
  BY DEF Onward, HonestRow
<1>3. ASSUME NEW g \in Moves, moved'[t][g] > 0 PROVE Deserved(g, t)'
  <2>1. Deserved(g, t)
    BY <1>3 DEF HonestRow
  <2> QED
    BY <2>1, DeservedStays
<1> QED
  BY <1>1, <1>3 DEF HonestRow

LEMMA RowsStay ==
  ASSUME Onward, Honest, row' = row, moved' = moved
  PROVE  \A t \in Txs : HonestRow(t)'
<1> TAKE t \in Txs
<1>1. HonestRow(t) /\ Sound(row[t], t)
  BY DEF Honest, HonestRow
<1>2. Sound(row[t], t)'
  <2> DEFINE r == row[t]
  <2>1. row'[t] = r
    OBVIOUS
  <2>2. Sound(r, t)
    BY <1>1
  <2> HIDE DEF r
  <2>3. \A x : Sound(x, t) => Sound(x, t)'
    BY <1>1, SoundStays
  <2>4. \A x : x = row'[t] /\ Sound(x, t) => Sound(row[t], t)'
    BY <2>3 DEF Sound
  <2> QED
    BY <2>1, <2>2, <2>4
<1> QED
  BY <1>1, <1>2, RowStays

LEMMA ProcessIs ==
  ASSUME NEW q \in Procs, NEW r, NEW t, NEW g, entity'[q] = r, on'[q] = t, goal'[q] = g,
         Sound(r, t)', Deserved(g, t)'
  PROVE  HonestProcess(q)'
BY DEF HonestProcess, Sound, Deserved

LEMMA OthersStay ==
  ASSUME Typed, Onward, Honest, NEW q \in Procs,
         entity'[q] = entity[q], on'[q] = on[q], goal'[q] = goal[q]
  PROVE  HonestProcess(q)'
<1>1. PICK r, t, g : r = entity[q] /\ t = on[q] /\ g = goal[q]
  OBVIOUS
<1>2. t \in Txs
  BY <1>1, Parts DEF Typed
<1>3. Sound(r, t) /\ Deserved(g, t) /\ HonestRow(t)
  BY <1>1, <1>2 DEF Honest, HonestProcess
<1>4. Sound(r, t)' /\ Deserved(g, t)'
  BY <1>2, <1>3, SoundStays, DeservedStays
<1> QED
  BY <1>1, <1>4, ProcessIs

LEMMA ProcessesOnly ==
  ASSUME Typed, Onward, Honest, NEW p \in Procs, NEW place, NEW for, NEW held, NEW read, NEW money,
         Only(p, place, for, held, read, money), \A q \in Procs \ {p} : on'[q] = on[q],
         NEW t, on'[p] = t, Sound(held, t)', Deserved(for, t)'
  PROVE  \A q \in Procs : HonestProcess(q)'
<1>1. HonestProcess(p)'
  BY ProcessIs DEF Only
<1>2. ASSUME NEW q \in Procs \ {p} PROVE HonestProcess(q)'
  BY <1>2, OthersStay DEF Only
<1> QED
  BY <1>1, <1>2

LEMMA Nobody == \A t : Sound(NoRow, t)' /\ \A g \in Goals \ {"credit", "refund"} : Deserved(g, t)'
  BY DEF Sound, NoRow, Deserved

LEMMA AfterIsNoVerdict == \A g, k : After(g, k) \notin {"credit", "refund"}
  BY DEF After

LEMMA ProcessesEnd ==
  ASSUME Typed, Onward, Honest, NEW p \in Procs, on' = on,
         Ended(p) \/ Advanced(p) \/ (GaveUp(p) /\ Sound(Failing(entity[p]), p)')
  PROVE  \A q \in Procs : HonestProcess(q)'
<1>0. on[p] \in Txs /\ TypeOK /\ (p \in Txs => on[p] = p)
  BY Parts DEF Typed, Placed
<1>1. CASE Ended(p)
  <2>1. "none" \in Goals \ {"credit", "refund"}
    BY DEF Goals
  <2> QED
    BY <1>1, <2>1, Nobody, ProcessesOnly DEF Ended
<1>2. CASE Advanced(p)
  <2>1. PICK g \in Goals : /\ g = After(goal[p], kind[on[p]])
                           /\ Only(p, First(g), g, entity[p], seen[p], known[p])
    BY <1>2 DEF Advanced
  <2>2. PICK r, t : r = entity[p] /\ t = on[p]
    OBVIOUS
  <2>3. Deserved(g, t)'
    BY <2>1, AfterIsNoVerdict, Nobody
  <2>4. Sound(r, t)'
    BY <1>0, <2>2, SoundStays DEF Honest, HonestProcess
  <2> QED
    BY <2>1, <2>2, <2>3, <2>4, ProcessesOnly
<1>3. CASE GaveUp(p) /\ Sound(Failing(entity[p]), p)'
  <2>1. PICK r : r = Failing(entity[p])
    OBVIOUS
  <2>2. Sound(r, p)'
    <3>1. Sound(Failing(entity[p]), p)'
      BY <1>3
    <3>2. Failing(entity[p])' = [status |-> "FAILED", hash |-> entity'[p].hash]
      BY DEF Failing
    <3> QED
      BY <1>3, <2>1, <3>2 DEF Sound, Failing, GaveUp, Only
  <2>3. Deserved("failed", p)'
    BY DEF Deserved
  <2> QED
    BY <1>0, <1>3, <2>1, <2>2, <2>3, ProcessesOnly DEF GaveUp
<1> QED
  BY <1>1, <1>2, <1>3

\* A call that gives up after the payment does so for a reason.
LEMMA FailingSound ==
  ASSUME NEW p \in Procs, GaveUp(p),
         chain'[p] = "SUCCESS" => mishaps'[p] \cap {"short", "fault"} # {}
  PROVE  Sound(Failing(entity[p]), p)'
BY DEF GaveUp, Only, Sound, Failing, Unpaid

LEMMA HonestCreate ==
  ASSUME Typed, Honest, Onward, NEW t \in Txs,
         \/ \E k \in Kinds : CheckLimit(t, k)
         \/ CheckBalance(t) \/ Persist(t) \/ Pay(t) \/ Refuse(t) \/ Notify(t) \/ Category(t)
  PROVE  Honest'
<1>0. /\ TypeOK /\ Globals /\ t \in Procs /\ on[t] = t
      /\ HonestRow(t) /\ HonestProcess(t) /\ entity[t] \in Rows /\ row[t] \in Rows
  BY TypesSplit, Parts DEF Typed, Procs, Placed, Honest, Globals
<1> SUFFICES (\A u \in Txs : HonestRow(u)') /\ (\A q \in Procs : HonestProcess(q)')
  BY DEF Honest
<1>1. CASE (\E k \in Kinds : CheckLimit(t, k)) \/ CheckBalance(t)
  <2>1. PICK place \in {"persist", "balance", "new"} :
          Only(t, place, "create", entity[t], seen[t], known[t])
    BY <1>0, <1>1, CheckLimitDoes, CheckBalanceDoes
  <2>2. row' = row /\ moved' = moved /\ on' = on
    BY <1>1 DEF CheckLimit, CheckBalance, ghosts
  <2>3. PICK r : r = entity[t]
    OBVIOUS
  <2>4. Sound(r, t)'
    BY <1>0, <2>3, SoundStays DEF HonestProcess
  <2>5. Deserved("create", t)'
    BY DEF Deserved
  <2> QED
    BY <1>0, <2>1, <2>2, <2>3, <2>4, <2>5, RowsStay, ProcessesOnly
<1>2. CASE Persist(t)
  <2>1. /\ Only(t, "pay", "create", Marked(entity[t], "PENDING"), seen[t], known[t])
        /\ row' = [row EXCEPT ![t] = Marked(row[t], "PENDING")]
    BY <1>0, <1>2, PersistDoes
  <2>2. on' = on /\ moved' = moved /\ pc[t] \in Unpaid
    BY <1>2 DEF Persist, Unpaid
  <2>3. PICK r, s : r = Marked(entity[t], "PENDING") /\ s = Marked(row[t], "PENDING")
    OBVIOUS
  <2>4. Sound(r, t) /\ Sound(s, t)
    BY <1>0, <2>2, <2>3 DEF HonestProcess, HonestRow, Sound, Marked
  <2>5. Sound(r, t)' /\ Sound(s, t)'
    BY <1>0, <2>4, SoundStays
  <2>6. Deserved("create", t)'
    BY DEF Deserved
  <2>7. \A q \in Procs : HonestProcess(q)'
    BY <1>0, <2>1, <2>2, <2>3, <2>5, <2>6, ProcessesOnly
  <2>8. ASSUME NEW u \in Txs PROVE HonestRow(u)'
    <3>1. PICK x : x = row'[u]
      OBVIOUS
    <3>2. x = IF u = t THEN s ELSE row[u]
      BY <1>0, <2>1, <2>3, <3>1 DEF Globals
    <3>3. Sound(x, u)'
      BY <2>5, <3>2, SoundStays DEF Honest, HonestRow
    <3>4. Sound(row[u], u)'
      BY <3>1, <3>3 DEF Sound
    <3> QED
      BY <2>2, <3>4, RowStays DEF Honest
  <2> QED
    BY <2>7, <2>8
<1>3. CASE Pay(t)
  <2>1. PICK g \in {"hash", "debit", "done"} :
          /\ g = CASE kind[t] = "DEPOSIT" -> "hash" [] kind[t] = "WITHDRAW" -> "debit" [] OTHER -> "done"
          /\ Only(t, First(g), g,
                  [status |-> IF g = "done" THEN "SUCCESS" ELSE entity[t].status, hash |-> TRUE],
                  seen[t], known[t])
    BY <1>0, <1>3, PayDoes
  <2>2. row' = row /\ moved' = moved /\ on' = on /\ pc[t] \in Unpaid
    BY <1>3 DEF Pay, ghosts, Unpaid
  <2>3. g = "done" => chain'[t] = "SUCCESS"
    BY <1>3, <2>1 DEF Pay
  <2>4. pc'[t] \notin Unpaid
    BY <1>0, <2>1 DEF Only, First, Unpaid, Moves
  <2>5. PICK r : r = [status |-> IF g = "done" THEN "SUCCESS" ELSE entity[t].status, hash |-> TRUE]
    OBVIOUS
  <2>6. entity[t].status \notin {"SUCCESS", "FAILED"}
    BY <1>0, <2>2 DEF HonestProcess, Sound
  <2>7. Sound(r, t)'
    BY <2>3, <2>4, <2>5, <2>6 DEF Sound
  <2>8. Deserved(g, t)'
    BY DEF Deserved
  <2> QED
    BY <1>0, <2>1, <2>2, <2>5, <2>7, <2>8, RowsStay, ProcessesOnly
<1>4. CASE Refuse(t) \/ Notify(t)
  <2>1. on' = on /\ row' = row /\ moved' = moved /\ chain' = chain
    BY <1>0, <1>4, Advances, Throws DEF Refuse, Notify, ghosts
  <2>2. CASE Refuse(t)
    <3>1. Ended(t) \/ GaveUp(t)
      BY <1>0, <2>2, Throws DEF Refuse
    <3>2. chain'[t] = "NONE"
      BY <1>0, <2>1, <2>2 DEF Refuse, HonestRow, Unpaid
    <3>3. GaveUp(t) => Sound(Failing(entity[t]), t)'
      BY <1>0, <3>2, FailingSound
    <3> QED
      BY <1>0, <2>1, <3>1, <3>3, RowsStay, ProcessesEnd
  <2>3. CASE Notify(t)
    BY <1>0, <2>1, <2>3, Advances, RowsStay, ProcessesEnd DEF Notify
  <2> QED
    BY <1>4, <2>2, <2>3
<1>5. CASE Category(t)
  <2>1. row' = row /\ moved' = moved /\ on' = on
    BY <1>0, <1>5, CategoryDoes DEF Category
  <2>2. CASE Ended(t)
    BY <1>0, <2>1, <2>2, RowsStay, ProcessesEnd
  <2>3. CASE Only(t, "select", "category", entity[t], seen[t], known[t])
    <3>1. PICK r : r = entity[t]
      OBVIOUS
    <3>2. Sound(r, t)'
      BY <1>0, <3>1, SoundStays DEF HonestProcess
    <3>3. Deserved("category", t)'
      BY DEF Deserved
    <3> QED
      BY <1>0, <2>1, <2>3, <3>1, <3>2, <3>3, RowsStay, ProcessesOnly
  <2> QED
    BY <1>0, <1>5, <2>2, <2>3, CategoryDoes
<1> QED
  BY <1>1, <1>2, <1>3, <1>4, <1>5

\* A process that goes on with the goal and the entity it has.
LEMMA HonestKeeps ==
  ASSUME Typed, Honest, Onward, NEW p \in Procs, NEW place, NEW read, NEW money,
         Only(p, place, goal[p], entity[p], read, money), UNCHANGED <<row, moved, on>>
  PROVE  Honest'
<1>0. on[p] \in Txs /\ HonestProcess(p)
  BY Parts DEF Typed, Honest
<1>1. PICK r, t, g : r = entity[p] /\ t = on[p] /\ g = goal[p]
  OBVIOUS
<1>2. Sound(r, t)' /\ Deserved(g, t)'
  BY <1>0, <1>1, SoundStays, DeservedStays DEF HonestProcess, Honest
<1>3. \A q \in Procs : HonestProcess(q)'
  BY <1>1, <1>2, ProcessesOnly
<1> QED
  BY <1>3, RowsStay DEF Honest

LEMMA HonestWrite ==
  ASSUME Typed, Honest, Onward, NEW p \in Procs, WriteUser(p)
  PROVE  Honest'
<1>0. /\ TypeOK /\ Globals /\ on[p] \in Txs /\ goal[p] \in Moves /\ HonestProcess(p)
      /\ (p \in Txs => on[p] = p)
  BY TypesSplit, Parts DEF Typed, Placed, Honest, WriteUser
<1>1. row' = row /\ on' = on
  BY <1>0, Advances, Throws DEF WriteUser
<1>2. CASE /\ moved' = [moved EXCEPT ![on[p]][goal[p]] = @ + 1]
           /\ Advance(p)
  <2>1. \A q \in Procs : HonestProcess(q)'
    BY <1>0, <1>1, <1>2, Advances, ProcessesEnd
  <2>2. ASSUME NEW t \in Txs PROVE HonestRow(t)'
    <3>1. HonestRow(t)
      BY DEF Honest
    <3>2. PICK r : r = row[t]
      OBVIOUS
    <3>3. Sound(r, t)'
      BY <3>1, <3>2, SoundStays DEF HonestRow
    <3>4. Sound(row[t], t)'
      BY <1>1, <3>2, <3>3 DEF Sound
    <3>5. pc'[t] \in Unpaid => chain'[t] = "NONE"
      BY <3>1 DEF Onward, HonestRow
    <3>6. ASSUME NEW g \in Moves, moved'[t][g] > 0 PROVE Deserved(g, t)'
      <4>1. moved[t][g] > 0 \/ (t = on[p] /\ g = goal[p])
        BY <1>0, <1>2, <3>6 DEF Globals
      <4>2. Deserved(g, t)
        BY <1>0, <3>1, <4>1 DEF HonestRow, HonestProcess
      <4> QED
        BY <3>1, <4>2, DeservedStays
    <3> QED
      BY <3>4, <3>5, <3>6 DEF HonestRow
  <2> QED
    BY <2>1, <2>2 DEF Honest
<1>3. CASE /\ Throw(p) /\ Mishap(on[p], "short") /\ UNCHANGED moved
  <2>1. Ended(p) \/ GaveUp(p)
    BY <1>0, <1>3, Throws
  <2>2. "short" \in mishaps'[on[p]]
    <3>1. "short" \in Troubles
      BY DEF Troubles
    <3> QED
      BY <1>0, <1>3, <3>1, MishapTyped
  <2>3. GaveUp(p) => Sound(Failing(entity[p]), p)'
    BY <1>0, <2>2, FailingSound DEF GaveUp
  <2> QED
    BY <1>0, <1>1, <1>3, <2>1, <2>3, RowsStay, ProcessesEnd DEF Honest
<1> QED
  BY <1>2, <1>3 DEF WriteUser

LEMMA HonestUpdate ==
  ASSUME Typed, Honest, Onward, NEW p \in Procs, Update(p)
  PROVE  Honest'
<1>0. TypeOK /\ Globals /\ on[p] \in Txs /\ HonestProcess(p)
  BY TypesSplit, Parts DEF Typed, Honest
<1>1. PICK new \in Rows :
        /\ new = Written(entity[p], seen[p], row[on[p]])
        /\ row' = [row EXCEPT ![on[p]] = new]
  BY <1>0, UpdateDoes
<1>2. on' = on /\ moved' = moved /\ (Ended(p) \/ Advanced(p))
  BY <1>0, UpdateDoes DEF Update
<1>3. Sound(new, on[p])
  <2>1. new.status \in {entity[p].status, row[on[p]].status} /\ new.hash \in {entity[p].hash, row[on[p]].hash}
    BY <1>1 DEF Written, Column
  <2>2. Sound(entity[p], on[p]) /\ Sound(row[on[p]], on[p])
    BY <1>0 DEF Honest, HonestProcess, HonestRow
  <2> QED
    BY <2>1, <2>2 DEF Sound
<1>4. ASSUME NEW u \in Txs PROVE HonestRow(u)'
  <2>1. PICK x : x = row'[u]
    OBVIOUS
  <2>2. x = IF u = on[p] THEN new ELSE row[u]
    BY <1>0, <1>1, <2>1 DEF Globals
  <2>3. Sound(x, u)'
    BY <1>3, <2>2, SoundStays DEF Honest, HonestRow
  <2>4. Sound(row[u], u)'
    BY <2>1, <2>3 DEF Sound
  <2> QED
    BY <1>2, <2>4, RowStays DEF Honest
<1> QED
  BY <1>2, <1>4, ProcessesEnd DEF Honest

LEMMA HonestLook ==
  ASSUME Typed, Honest, Onward, NEW p \in Procs, NEW t \in Txs,
         NEW r \in {row[t], Marked(row[t], "CANCELLED")},
         NEW place, NEW for \in Goals \ {"credit", "refund"}, NEW read, NEW money,
         Only(p, place, for, r, read, money), on' = [on EXCEPT ![p] = t], UNCHANGED <<row, moved>>
  PROVE  Honest'
<1>1. Sound(r, t)
  BY DEF Honest, HonestRow, Sound, Marked
<1>2. Sound(r, t)' /\ Deserved(for, t)'
  BY <1>1, SoundStays, Nobody DEF Honest
<1>3. on'[p] = t /\ \A q \in Procs \ {p} : on'[q] = on[q]
  BY DEF Typed, TypeOK
<1>4. \A q \in Procs : HonestProcess(q)'
  BY <1>2, <1>3, ProcessesOnly
<1> QED
  BY <1>4, RowsStay DEF Honest

LEMMA HonestAsk ==
  ASSUME Typed, Honest, Onward, NEW p \in Procs,
         NEW answer \in {"PENDING", "SUCCESS", "FAILED"}, Ask(p, answer)
  PROVE  Honest'
<1>0. /\ TypeOK /\ on[p] \in Txs /\ HonestProcess(p) /\ HonestRow(on[p])
  BY Parts DEF Typed, Honest
<1>1. on' = on /\ UNCHANGED <<row, moved, chain, kind, mishaps>>
  BY <1>0, AskDoes DEF Ask, ghosts
<1>2. CASE Ended(p)
  BY <1>1, <1>2, ProcessesEnd, RowsStay DEF Honest
<1>3. ASSUME NEW g \in {"credit", "refund", "settle"},
             answer = chain[on[p]],
             g = "credit" => answer = "SUCCESS" /\ kind[on[p]] = "DEPOSIT",
             g = "refund" => answer = "FAILED" /\ kind[on[p]] = "WITHDRAW",
             Only(p, First(g), g, Marked(entity[p], answer), seen[p], known[p])
      PROVE  Honest'
  <2>1. PICK r, t : r = Marked(entity[p], answer) /\ t = on[p]
    OBVIOUS
  <2>2. CASE answer = "PENDING"
    <3>1. Sound(r, t) /\ Deserved(g, t)
      BY <1>3, <2>1, <2>2, <1>0 DEF HonestProcess, Sound, Marked, Deserved
    <3>2. Sound(r, t)' /\ Deserved(g, t)'
      BY <1>0, <2>1, <3>1, SoundStays, DeservedStays
    <3>3. \A q \in Procs : HonestProcess(q)'
      BY <1>1, <1>3, <2>1, <3>2, ProcessesOnly
    <3> QED
      BY <1>1, <3>3, RowsStay DEF Honest
  <2>3. CASE answer # "PENDING"
    <3>1. Deserved(g, t)
      BY <1>3, <2>1 DEF Deserved
    <3>2. Sound(r, t)
      <4>1. pc[t] \notin Unpaid
        BY <1>0, <1>3, <2>1, <2>3 DEF HonestRow
      <4> QED
        BY <1>3, <2>1, <4>1 DEF Sound, Marked
    <3>3. Sound(r, t)' /\ Deserved(g, t)'
      BY <1>0, <2>1, <3>1, <3>2, SoundStays, DeservedStays
    <3>4. \A q \in Procs : HonestProcess(q)'
      BY <1>1, <1>3, <2>1, <3>3, ProcessesOnly
    <3> QED
      BY <1>1, <3>4, RowsStay DEF Honest
  <2> QED
    BY <2>2, <2>3
<1> QED
  BY <1>0, <1>2, <1>3, AskDoes

LEMMA HonestFail ==
  ASSUME Typed, Honest, Onward, NEW p \in Procs, Fail(p)
  PROVE  Honest'
<1>0. TypeOK /\ Globals /\ on[p] \in Txs /\ (p \in Txs => on[p] = p)
  BY TypesSplit, Parts DEF Typed, Placed
<1>1. on' = on /\ row' = row /\ moved' = moved /\ (Ended(p) \/ GaveUp(p))
  BY <1>0, Throws DEF Fail
<1>2. "fault" \in mishaps'[on[p]]
  <2>1. "fault" \in Troubles
    BY DEF Troubles
  <2> QED
    BY <1>0, <2>1, MishapTyped DEF Fail
<1>3. GaveUp(p) => Sound(Failing(entity[p]), p)'
  BY <1>0, <1>2, FailingSound DEF GaveUp
<1> QED
  BY <1>1, <1>3, RowsStay, ProcessesEnd DEF Honest

LEMMA HonestRest ==
  ASSUME Typed, Honest, Onward, UNCHANGED <<row, moved, on, entity, goal>>
  PROVE  Honest'
BY OthersStay, RowsStay DEF Honest

LEMMA HonestStep == Typed /\ Honest /\ [Next]_vars => Honest'
<1> SUFFICES ASSUME Typed, Honest, [Next]_vars PROVE Honest'
  OBVIOUS
<1>0. /\ TypeOK /\ Onward /\ Txs \subseteq Procs /\ Clerks \subseteq Procs /\ Checks \subseteq Procs
      /\ on \in [Procs -> Txs]
  BY OnwardStep DEF Typed, Procs, TypeOK
<1>1. ASSUME NEW p \in Procs, ReadUser(p) \/ Select(p) PROVE Honest'
  <2>1. UNCHANGED <<row, moved, on>>
    BY <1>1 DEF ReadUser, Select, ghosts
  <2> QED
    BY <1>0, <1>1, <2>1, ReadUserDoes, SelectDoes, HonestKeeps
<1>2. ASSUME NEW p \in Procs, NEW t \in Txs, Look(p, t) PROVE Honest'
  <2>1. UNCHANGED <<row, moved>> /\ "settle" \in Goals \ {"credit", "refund"}
    BY <1>2 DEF Look, Goals
  <2> QED
    BY <1>0, <1>2, <2>1, LookDoes, HonestLook
<1>3. ASSUME NEW c \in Clerks, NEW t \in Txs, NEW s \in {"CANCELLED", row[t].status}, Edit(c, t, s)
      PROVE  Honest'
  <2>1. UNCHANGED <<row, moved>> /\ "edit" \in Goals \ {"credit", "refund"}
    BY <1>3 DEF Edit, Goals, ghosts
  <2>2. Marked(row[t], s) \in {row[t], Marked(row[t], "CANCELLED")}
    <3>1. row[t] \in Rows
      BY <1>0 DEF TypeOK
    <3> QED
      BY <3>1 DEF Marked, Rows
  <2> QED
    <3>1. /\ Only(c, "select", "edit", Marked(row[t], s), seen[c], known[c])
          /\ on' = [on EXCEPT ![c] = t]
      BY <1>0, <1>3, EditDoes
    <3>2. c \in Procs
      BY <1>0
    <3>3. PICK r \in {row[t], Marked(row[t], "CANCELLED")} : r = Marked(row[t], s)
      BY <2>2
    <3>4. Only(c, "select", "edit", r, seen[c], known[c])
      BY <3>1, <3>3
    <3> QED
      BY <1>0, <2>1, <3>1, <3>2, <3>4, HonestLook
<1>4. ASSUME NEW p \in Checks, Find(p) PROVE Honest'
  <2>1. on[p] \in Txs
    BY <1>0
  <2>2. CASE End(p) /\ UNCHANGED <<kind, row, chain, balance, ghosts>>
    BY <1>0, <2>2, Ends, RowsStay, ProcessesEnd DEF ghosts, Honest
  <2> QED
    BY <1>0, <1>2, <1>4, <2>1, <2>2 DEF Find
<1>5. CASE (\E j \in Jobs : Tick(j)) \/ UNCHANGED vars
  <2>1. UNCHANGED <<row, moved, on, entity, goal>>
    BY <1>5 DEF Tick, vars, ghosts
  <2> QED
    BY <1>0, <2>1, HonestRest
<1> QED
  BY StepsSplit, <1>0, <1>1, <1>2, <1>3, <1>4, <1>5, HonestCreate, HonestWrite, HonestUpdate,
     HonestAsk, HonestFail DEF Verify

LEMMA HonestInit == Init => Honest
<1> SUFFICES ASSUME Init PROVE Honest
  OBVIOUS
<1>1. \A t \in Txs : Sound(NoRow, t)
  BY DEF Sound, NoRow
<1>2. \A p \in Procs : HonestProcess(p)
  <2> TAKE p \in Procs
  <2>1. entity[p] = NoRow /\ goal[p] \in {"create", "none"} /\ on[p] \in Txs
    BY TypedInit DEF Init, Typed, TypeOK
  <2> QED
    BY <1>1, <2>1 DEF HonestProcess, Deserved
<1>3. \A t \in Txs : HonestRow(t)
  BY <1>1 DEF Init, HonestRow
<1> QED
  BY <1>2, <1>3 DEF Honest

LEMMA HonestAlways == Spec => []Honest
  BY HonestInit, HonestStep, TypedAlways, PTL DEF Spec

\* Rows are SUCCESS, deposits credited and withdrawals refunded only for what became
\* of the payment on Stellar, whoever saves which copy of the row, and when.
THEOREM OutcomesAreOfTheChain == Spec => []OutcomesComeFromChain
<1>1. Honest => OutcomesComeFromChain
  <2> SUFFICES ASSUME Honest, NEW t \in Txs
               PROVE  /\ row[t].status = "SUCCESS" => chain[t] = "SUCCESS"
                      /\ moved[t].credit > 0 => kind[t] = "DEPOSIT" /\ chain[t] = "SUCCESS"
                      /\ moved[t].refund > 0 => kind[t] = "WITHDRAW" /\ chain[t] = "FAILED"
    BY DEF OutcomesComeFromChain
  <2>1. HonestRow(t) /\ {"credit", "refund"} \subseteq Moves
    BY DEF Honest, Moves
  <2> QED
    BY <2>1 DEF HonestRow, Sound, Deserved
<1> QED
  BY <1>1, HonestAlways, PTL

\* A payment that went through is reported as FAILED only if the balance had become
\* too small, or a statement failed.
THEOREM FailuresHaveReasons == Spec => []FailedIsUnpaid
<1>1. Honest => FailedIsUnpaid
  BY DEF Honest, HonestRow, Sound, FailedIsUnpaid
<1> QED
  BY <1>1, HonestAlways, PTL

-----------------------------------------------------------------------------
(* The limit. *)

\* The rows that count, and what they amount to.
Counting == {t \in Txs : Counted(row[t])}

\* Within the limit, and within it with each call that has checked it; unless a
\* call was not counted.
Limited ==
  ~ uncounted =>
    /\ Amount * Cardinality(Counting) <= Limit
    /\ \A t \in Txs : pc[t] \in Waiting => Amount * Cardinality(Counting) + Amount <= Limit

LEMMA CountingIsFinite ==
  /\ IsFiniteSet(Counting) /\ Cardinality(Counting) \in Nat
  /\ Amount * Cardinality(Counting) \in Nat
<1>1. IsFiniteSet(Counting)
  BY TransactionsAssumption, FS_Subset DEF Counting
<1>2. Cardinality(Counting) \in Nat
  BY <1>1, FS_CardinalityType
<1> QED
  BY <1>1, <1>2, TransactionsAssumption

\* Fewer rows amount to less, one more to one amount more.
LEMMA Amounts ==
  ASSUME NEW S, NEW T, IsFiniteSet(T), S \subseteq T
  PROVE  Amount * Cardinality(S) <= Amount * Cardinality(T)
<1>1. IsFiniteSet(S) /\ Cardinality(S) <= Cardinality(T)
  BY FS_Subset
<1>2. Cardinality(S) \in Nat /\ Cardinality(T) \in Nat
  BY <1>1, FS_CardinalityType
<1>3. \A a, m, n \in Nat : m <= n => a * m <= a * n
  OBVIOUS
<1> QED
  BY <1>1, <1>2, <1>3, TransactionsAssumption

LEMMA OneMore ==
  ASSUME NEW T, IsFiniteSet(T), NEW t
  PROVE  Amount * Cardinality(T \cup {t}) <= Amount * Cardinality(T) + Amount
<1>1. /\ IsFiniteSet(T \cup {t}) /\ Cardinality(T \cup {t}) <= Cardinality(T) + 1
      /\ Cardinality(T) \in Nat
  BY FS_AddElement, FS_CardinalityType
<1>2. Cardinality(T \cup {t}) \in Nat
  BY <1>1, FS_CardinalityType
<1>3. \A a, m, n \in Nat : m <= n + 1 => a * m <= a * n + a
  OBVIOUS
<1> QED
  BY <1>1, <1>2, <1>3, TransactionsAssumption

LEMMA LimitedStep == Typed /\ Limited /\ [Next]_vars => Limited'
<1> SUFFICES ASSUME Typed, Limited, [Next]_vars, ~ uncounted'
             PROVE  /\ Amount * Cardinality(Counting') <= Limit
                    /\ \A t \in Txs : pc'[t] \in Waiting =>
                         Amount * Cardinality(Counting') + Amount <= Limit
  BY DEF Limited
<1>0. TypeOK /\ Onward /\ Globals /\ Amount \in Nat /\ Limit \in Nat /\ Txs \subseteq Procs
  BY OnwardStep, TypesSplit, TransactionsAssumption DEF Typed, Procs
<1>a. Amount * Cardinality(Counting) \in Nat /\ IsFiniteSet(Counting)
  BY CountingIsFinite
<1>b. Amount * Cardinality(Counting') \in Nat
  <2>1. IsFiniteSet(Counting')
    BY TransactionsAssumption, FS_Subset DEF Counting
  <2>2. Cardinality(Counting') \in Nat
    BY <2>1, FS_CardinalityType
  <2> QED
    BY <2>2, <1>0
<1>1. ASSUME NEW t \in Txs, Persist(t)
      PROVE  /\ ~ uncounted /\ Counting' \subseteq Counting \cup {t}
             /\ pc[t] \in Waiting /\ \A u \in Txs : pc'[u] \notin Waiting
  <2>1. ~ uncounted /\ \A u \in Txs \ {t} : pc[u] \notin Waiting
    BY <1>1 DEF Persist, Waiting
  <2>2. Only(t, "pay", "create", Marked(entity[t], "PENDING"), seen[t], known[t])
    BY <1>0, <1>1, PersistDoes
  <2>3. \A u \in Txs : pc'[u] \notin Waiting
    BY <1>0, <2>1, <2>2 DEF Only, Waiting
  <2>4. \A u \in Txs \ {t} : row'[u] = row[u]
    BY <1>0, <1>1, PersistDoes DEF Globals
  <2>5. Counting' \subseteq Counting \cup {t}
    BY <2>4 DEF Counting, Counted
  <2>6. pc[t] \in Waiting
    BY <1>1 DEF Persist, Waiting
  <2> QED
    BY <2>1, <2>3, <2>5, <2>6
<1>2. ASSUME NEW t \in Txs, NEW k \in Kinds, CheckLimit(t, k)
      PROVE  Amount * Cardinality(Counting) + Amount <= Limit
  <2>1. Usage = Amount * Cardinality(Counting)
    BY DEF Usage, Counting, Counted
  <2> QED
    BY <1>2, <2>1 DEF CheckLimit
<1>3. ASSUME ~ uncounted, Counting' \subseteq Counting
      PROVE  /\ Amount * Cardinality(Counting') <= Limit
             /\ \A t \in Txs : pc'[t] \in Waiting =>
                  Amount * Cardinality(Counting') + Amount <= Limit
  <2>1. Amount * Cardinality(Counting') <= Amount * Cardinality(Counting)
    BY <1>a, <1>3, Amounts
  <2>2. Amount * Cardinality(Counting) <= Limit
    BY <1>3 DEF Limited
  <2>3. ASSUME NEW t \in Txs, pc'[t] \in Waiting
        PROVE  Amount * Cardinality(Counting) + Amount <= Limit
    BY <1>0, <1>2, <1>3, <2>3 DEF Onward, Limited
  <2> QED
    BY <1>0, <1>a, <1>b, <2>1, <2>2, <2>3
<1>4. CASE \E t \in Txs : Persist(t)
  <2>1. PICK t \in Txs : Persist(t)
    BY <1>4
  <2>2. Amount * Cardinality(Counting) + Amount <= Limit
    BY <1>1, <2>1 DEF Limited
  <2>3. Amount * Cardinality(Counting \cup {t}) <= Amount * Cardinality(Counting) + Amount
    BY <1>a, OneMore
  <2>4. IsFiniteSet(Counting \cup {t})
    BY <1>a, FS_AddElement
  <2>5. Amount * Cardinality(Counting') <= Amount * Cardinality(Counting \cup {t})
    BY <1>1, <2>1, <2>4, Amounts
  <2>6. Amount * Cardinality(Counting \cup {t}) \in Nat
    BY <1>0, <2>4, FS_CardinalityType
  <2>7. Amount * Cardinality(Counting') <= Limit
    BY <1>0, <1>a, <1>b, <2>2, <2>3, <2>5, <2>6
  <2> QED
    BY <1>1, <2>1, <2>7
<1>5. CASE \E p \in Procs : Update(p)
  <2>1. PICK p \in Procs : Update(p)
    BY <1>5
  <2>2. on[p] \in Txs
    BY <1>0, Parts
  <2>3. PICK new \in Rows :
          /\ new = Written(entity[p], seen[p], row[on[p]])
          /\ row' = [row EXCEPT ![on[p]] = new]
    BY <1>0, <2>1, UpdateDoes
  <2>4. ~ uncounted /\ ~ (Counted(new) /\ ~ Counted(row[on[p]]))
    BY <2>1, <2>3 DEF Update
  <2>5. \A u \in Txs : row'[u] = IF u = on[p] THEN new ELSE row[u]
    BY <1>0, <2>3 DEF Globals
  <2>6. \A u \in Txs : Counted(row'[u]) => Counted(row[u])
    BY <2>4, <2>5
  <2>7. Counting' \subseteq Counting
    BY <2>6 DEF Counting, Counted
  <2> QED
    BY <1>3, <2>4, <2>7
<1>6. CASE UNCHANGED <<row, uncounted>>
  BY <1>3, <1>6 DEF Counting
<1>7. \/ \E t \in Txs : Persist(t)
      \/ \E p \in Procs : Update(p)
      \/ UNCHANGED <<row, uncounted>>
  BY StepsSplit DEF CheckLimit, CheckBalance, Pay, Refuse, Notify, Category, ReadUser, WriteUser,
     Select, Verify, Look, Edit, Tick, Find, Ask, Fail, ghosts, vars
<1> QED
  BY <1>4, <1>5, <1>6, <1>7

\* The limit is exceeded only if a call checked it before another one's row was there,
\* or if a row counts again that did not.
THEOREM LimitHolds == Spec => []LimitIsKept
<1>1. Init => Limited
  <2> SUFFICES ASSUME Init PROVE Limited
    OBVIOUS
  <2>1. Counting = {} /\ \A t \in Txs : pc[t] \notin Waiting
    BY DEF Init, Counting, Counted, NoRow, Waiting, Procs
  <2>2. Amount * Cardinality(Counting) = 0
    BY <2>1, FS_EmptySet, TransactionsAssumption
  <2> QED
    BY <2>1, <2>2, TransactionsAssumption DEF Limited
<1>2. Limited => LimitIsKept
  <2> SUFFICES ASSUME Limited, Amount * Cardinality(Counting) > Limit PROVE uncounted
    BY DEF LimitIsKept, Counting
  <2>1. Amount * Cardinality(Counting) \in Nat /\ Limit \in Nat
    BY CountingIsFinite, TransactionsAssumption
  <2> QED
    BY <2>1 DEF Limited, TypeOK
<1> QED
  BY <1>1, <1>2, LimitedStep, TypedAlways, PTL DEF Spec

-----------------------------------------------------------------------------
(* Stale saves. *)

\* There is no row before it is made, and nobody works on it.
Absent(t) == pc[t] \in Early => row[t] = NoRow

Attached(q) == q \notin Txs /\ pc[q] \notin {"idle", "find"} => pc[on[q]] \notin Early

\* The goals of a call for its own row, and of an edit: they set no outcome that
\* another process has decided on.
Own == Goals \ {"settle", "credit", "refund", "failed"}

\* What a process holds, by its goal.
Fits(p, place, for, held) ==
  /\ for \in {"settle", "credit", "refund"} => held.hash
  /\ p \in Txs /\ for \in Own /\ held.status \in Settled => held.hash
  /\ place \in Unpaid => held.status \notin Settled
  /\ place \in Unpaid <=> for = "create"
  /\ place = "ask" => for = "settle"
  /\ place = "category" => for = "category"
  /\ place = "notify" => for = "notify"
  /\ place \in {"idle", "find"} <=> for = "none"
  /\ IF p \in Txs THEN for \notin {"edit", "settle", "credit", "refund"}
                   ELSE for \in {"none", "edit", "settle", "credit", "refund"}
  /\ place \in {"select", "update"} => for \notin Moves
  /\ (for \in {"credit", "refund", "failed"} \/ (for = "settle" /\ place \in {"select", "update"}))
       => held.status \in Settled
  /\ for \in {"done", "credit"} => held.status = "SUCCESS"
  /\ for \in {"failed", "refund"} => held.status = "FAILED"

\* How far the entity of a process may be from the row r that it has seen.
Agrees(place, for, held, read, r) ==
  /\ place = "update" => read = r
  /\ r.hash => held.hash
  /\ for \in Own /\ r.status \in Settled => held.status = r.status
  /\ for = "failed" /\ r.status \in Settled => held.hash

Fitting(p) == Fits(p, pc[p], goal[p], entity[p])

Fresh(p) ==
  pc[p] \notin {"idle", "find"} /\ p \notin outdated
    => Agrees(pc[p], goal[p], entity[p], seen[p], row[on[p]])

Aware ==
  /\ \A t \in Txs : Absent(t)
  /\ \A p \in Procs : Attached(p) /\ Fitting(p) /\ Fresh(p)

LEMMA AfterOwn ==
  ASSUME NEW g \in Goals, NEW k, After(g, k) # "none"
  PROVE  /\ After(g, k) \in Own => g \in Own
         /\ After(g, k) = "settle" => g \in {"credit", "refund"}
         /\ After(g, k) \notin {"credit", "refund", "failed"}
  BY DEF After, Own, Goals, Moves

\* A step of p that changes no row, after which p fits and agrees with the row it
\* works on.
LEMMA AwareOnly ==
  ASSUME Typed, Onward, Aware, NEW p \in Procs,
         NEW place, NEW for, NEW held, NEW read, NEW money, Only(p, place, for, held, read, money),
         row' = row, NEW t \in Txs, on'[p] = t, \A q \in Procs \ {p} : on'[q] = on[q],
         outdated \subseteq outdated' \cup {p}, Fits(p, place, for, held),
         p \notin Txs /\ place # "idle" => pc[t] \notin Early,
         p \in outdated' \/ place = "idle" \/ Agrees(place, for, held, read, row[t])
  PROVE  Aware'
<1>1. ASSUME NEW u \in Txs PROVE Absent(u)'
  BY DEF Aware, Absent, Onward
<1>2. ASSUME NEW q \in Procs, q # p PROVE Attached(q)' /\ Fitting(q)' /\ Fresh(q)'
  <2>1. /\ pc'[q] = pc[q] /\ goal'[q] = goal[q] /\ entity'[q] = entity[q] /\ seen'[q] = seen[q]
        /\ on'[q] = on[q] /\ on[q] \in Txs
    BY <1>2, Parts DEF Only, Typed
  <2>2. Attached(q)'
    BY <2>1 DEF Aware, Attached, Onward
  <2>3. Fitting(q)'
    BY <2>1 DEF Aware, Fitting
  <2>4. Fresh(q)'
    BY <1>2, <2>1 DEF Aware, Fresh
  <2> QED
    BY <2>2, <2>3, <2>4
<1>3. /\ pc'[p] = place /\ goal'[p] = for /\ entity'[p] = held /\ seen'[p] = read
  BY DEF Only
<1>4. Attached(p)'
  BY <1>3 DEF Attached, Onward
<1>5. Fitting(p)'
  BY <1>3 DEF Fitting
<1>6. Fresh(p)'
  BY <1>3 DEF Fresh
<1> QED
  BY <1>1, <1>2, <1>4, <1>5, <1>6 DEF Aware

LEMMA FitsEnd == \A p : Fits(p, "idle", "none", NoRow)
  BY DEF Fits, NoRow, Settled, Unpaid, Moves

LEMMA FitsAdvance ==
  ASSUME NEW p \in Procs, Typed, Fitting(p), NEW g \in Goals,
         g = After(goal[p], kind[on[p]]), g # "none"
  PROVE  Fits(p, First(g), g, entity[p])
<1>1. goal[p] \in Goals
  BY Parts DEF Typed
<1>2. /\ First(g) \notin Unpaid /\ First(g) \notin {"ask", "idle", "find"}
      /\ First(g) \in {"select", "update"} => g \notin Moves
      /\ First(g) = "category" => g = "category"
      /\ First(g) = "notify" => g = "notify"
  BY DEF First, Unpaid
<1>3. /\ g \in Own => goal[p] \in Own
      /\ g = "settle" => goal[p] \in {"credit", "refund"}
      /\ g \notin {"credit", "refund", "failed"}
  BY <1>1, AfterOwn
<1>4. /\ g \notin {"create", "done"}
      /\ IF p \in Txs THEN g \notin {"edit", "settle", "credit", "refund"}
                       ELSE g \in {"none", "edit", "settle", "credit", "refund"}
  <2>1. g \notin {"edit", "create", "done"} /\ (goal[p] \in {"none", "edit", "settle", "credit", "refund"} => g = "settle")
    BY DEF After
  <2> QED
    BY <1>3, <2>1 DEF Fitting, Fits
<1> QED
  BY <1>2, <1>3, <1>4 DEF Fitting, Fits

LEMMA FitsGiveUp ==
  ASSUME NEW p \in Procs, Fitting(p), GaveUp(p)
  PROVE  Fits(p, "select", "failed", Failing(entity[p]))
  BY DEF GaveUp, Failing, Fits, Own, Moves, Unpaid, Settled

LEMMA AwareEnd ==
  ASSUME Typed, Onward, Aware, NEW p \in Procs, row' = row, on' = on,
         \/ Ended(p) /\ outdated' = outdated \ {p}
         \/ Advanced(p) /\ outdated' = outdated /\ pc[p] \notin {"idle", "find"}
         \/ GaveUp(p) /\ outdated' = outdated /\ pc[p] \notin {"idle", "find"}
  PROVE  Aware'
<1>0. /\ TypeOK /\ on[p] \in Txs /\ (p \in Txs => on[p] = p)
      /\ Attached(p) /\ Fitting(p) /\ Fresh(p)
  BY Parts DEF Typed, Placed, Aware
<1>1. CASE Ended(p) /\ outdated' = outdated \ {p}
  BY <1>0, <1>1, FitsEnd, AwareOnly DEF Ended
<1>2. CASE Advanced(p) /\ outdated' = outdated /\ pc[p] \notin {"idle", "find"}
  <2>1. PICK g \in Goals : /\ g = After(goal[p], kind[on[p]]) /\ g # "none"
                           /\ Only(p, First(g), g, entity[p], seen[p], known[p])
    BY <1>2 DEF Advanced
  <2>2. Fits(p, First(g), g, entity[p])
    BY <1>0, <2>1, FitsAdvance
  <2>3. p \notin outdated => Agrees(First(g), g, entity[p], seen[p], row[on[p]])
    <3>1. (g \in Own => goal[p] \in Own) /\ g # "failed" /\ First(g) # "update"
      BY <1>0, <2>1, AfterOwn, Parts DEF First
    <3> QED
      BY <1>0, <1>2, <3>1 DEF Fresh, Agrees
  <2> QED
    BY <1>0, <1>2, <2>1, <2>2, <2>3, AwareOnly DEF Attached
<1>3. CASE GaveUp(p) /\ outdated' = outdated /\ pc[p] \notin {"idle", "find"}
  <2>1. Fits(p, "select", "failed", Failing(entity[p]))
    BY <1>0, <1>3, FitsGiveUp
  <2>2. p \notin outdated => Agrees("select", "failed", Failing(entity[p]), seen[p], row[on[p]])
    <3>1. goal[p] \in Own /\ p \in Txs
      BY <1>3 DEF GaveUp, Own, Goals, Moves
    <3>2. "failed" \notin Own
      BY DEF Own
    <3> QED
      BY <1>0, <1>3, <3>1, <3>2 DEF Fresh, Agrees, Failing, Fitting, Fits
  <2> QED
    BY <1>0, <1>3, <2>1, <2>2, AwareOnly DEF GaveUp
<1> QED
  BY <1>1, <1>2, <1>3

\* What a fresh process saves is its entity, and it undoes nothing that another one
\* has decided.
LEMMA FreshUpdate ==
  ASSUME Typed, Aware, NEW p \in Procs, Update(p)
  PROVE  /\ on[p] \in Txs /\ pc[on[p]] \notin Early
         /\ p \notin outdated => Written(entity[p], seen[p], row[on[p]]) = entity[p]
<1>1. /\ on[p] \in Txs /\ pc[p] = "update" /\ (p \in Txs => on[p] = p)
      /\ Attached(p) /\ Fresh(p) /\ entity[p] \in Rows
  BY Parts DEF Typed, Placed, Aware, Update
<1>2. pc[on[p]] \notin Early
  BY <1>1 DEF Attached, Early, Waiting
<1>3. p \notin outdated => seen[p] = row[on[p]]
  BY <1>1 DEF Fresh, Agrees
<1> QED
  BY <1>1, <1>2, <1>3 DEF Written, Column, Rows

LEMMA AwareUpdate ==
  ASSUME Typed, Onward, Aware, NEW p \in Procs, Update(p)
  PROVE  Aware'
<1>0. /\ TypeOK /\ Globals /\ on[p] \in Txs /\ pc[p] = "update" /\ Attached(p) /\ Fitting(p) /\ Fresh(p)
      /\ pc[on[p]] \notin Early
  BY TypesSplit, FreshUpdate DEF Typed, Aware, Update
<1>1. PICK new \in Rows :
        /\ new = Written(entity[p], seen[p], row[on[p]])
        /\ row' = [row EXCEPT ![on[p]] = new]
        /\ \/ Ended(p) /\ outdated' = Behind(p, new) \ {p}
           \/ Advanced(p) /\ outdated' = Behind(p, new)
  BY <1>0, UpdateDoes
<1>2. on' = on
  BY <1>0, UpdateDoes
<1>3. p \notin outdated => new = entity[p]
  BY <1>1, FreshUpdate
<1>4. ASSUME NEW u \in Txs PROVE Absent(u)'
  <2>1. u # on[p] => row'[u] = row[u]
    BY <1>0, <1>1 DEF Globals
  <2> QED
    BY <1>0, <2>1 DEF Aware, Absent, Onward
<1>5. ASSUME NEW q \in Procs, q # p PROVE Attached(q)' /\ Fitting(q)' /\ Fresh(q)'
  <2>1. /\ pc'[q] = pc[q] /\ goal'[q] = goal[q] /\ entity'[q] = entity[q] /\ seen'[q] = seen[q]
        /\ on'[q] = on[q] /\ on[q] \in Txs
    BY <1>0, <1>1, <1>2, <1>5, Parts DEF Ended, Advanced, Only
  <2>2. Attached(q)'
    BY <2>1 DEF Aware, Attached, Onward
  <2>3. Fitting(q)'
    BY <2>1 DEF Aware, Fitting
  <2>4. q \notin outdated' => q \notin outdated
    BY <1>1, <1>5 DEF Behind
  <2>5. ASSUME q \notin outdated', pc[q] \notin {"idle", "find"} PROVE row'[on[q]] = row[on[q]]
    <3>1. CASE on[q] # on[p]
      BY <1>0, <1>1, <2>1, <3>1 DEF Globals
    <3>2. CASE new = row[on[p]]
      BY <1>0, <1>1, <2>1, <3>2 DEF Globals
    <3>3. CASE on[q] = on[p] /\ new # row[on[p]]
      <4>1. pc[q] \in {"idle", "new"}
        BY <1>1, <1>5, <2>5, <3>3 DEF Behind
      <4>2. q \in Txs /\ on[q] = q
        BY <2>5, <4>1 DEF Typed, Placed, Unpaid
      <4> QED
        BY <1>0, <2>5, <3>3, <4>1, <4>2 DEF Early
    <3> QED
      BY <3>1, <3>2, <3>3
  <2>6. Fresh(q)'
    BY <2>1, <2>4, <2>5 DEF Aware, Fresh
  <2> QED
    BY <2>2, <2>3, <2>6
<1>6. CASE Ended(p)
  <2>1. pc'[p] = "idle" /\ goal'[p] = "none" /\ entity'[p] = NoRow
    BY <1>6 DEF Ended, Only
  <2>2. Attached(p)' /\ Fresh(p)'
    BY <2>1 DEF Attached, Fresh
  <2>3. Fitting(p)'
    BY <2>1, FitsEnd DEF Fitting
  <2> QED
    BY <1>4, <1>5, <2>2, <2>3 DEF Aware
<1>7. CASE Advanced(p) /\ outdated' = Behind(p, new)
  <2>1. PICK g \in Goals : /\ g = After(goal[p], kind[on[p]]) /\ g # "none"
                           /\ Only(p, First(g), g, entity[p], seen[p], known[p])
    BY <1>7 DEF Advanced
  <2>2. pc'[p] = First(g) /\ goal'[p] = g /\ entity'[p] = entity[p] /\ seen'[p] = seen[p]
    BY <2>1 DEF Only
  <2>3. Fits(p, First(g), g, entity[p])
    BY <1>0, <2>1, FitsAdvance
  <2>4. Fitting(p)'
    BY <2>2, <2>3 DEF Fitting
  <2>5. Attached(p)'
    BY <1>0, <1>2 DEF Attached, Onward
  <2>6. p \notin outdated' => row'[on[p]] = entity[p]
    BY <1>0, <1>1, <1>3, <1>7 DEF Behind, Globals
  <2>7. First(g) # "update" /\ g # "failed"
    BY <1>0, <2>1, AfterOwn, Parts DEF First
  <2>8. Fresh(p)'
    BY <1>2, <2>2, <2>6, <2>7 DEF Fresh, Agrees
  <2> QED
    BY <1>4, <1>5, <2>4, <2>5, <2>8 DEF Aware
<1> QED
  BY <1>1, <1>6, <1>7

LEMMA AwareStep == Typed /\ Aware /\ [Next]_vars => Aware'
<1> SUFFICES ASSUME Typed, Aware, [Next]_vars PROVE Aware'
  OBVIOUS
<1>0. /\ TypeOK /\ Globals /\ Onward /\ Txs \subseteq Procs /\ Clerks \subseteq Procs
      /\ Checks \subseteq Procs /\ Txs \cap Clerks = {} /\ Txs \cap Checks = {}
      /\ \A t \in Txs : on[t] = t
      /\ \A p \in Procs : on[p] \in Txs /\ Attached(p) /\ Fitting(p) /\ Fresh(p)
      /\ \A t \in Txs : Absent(t) /\ Fitting(t) /\ Fresh(t)
  BY OnwardStep, TypesSplit, TransactionsAssumption, Parts DEF Typed, Procs, Placed, Aware
<1>1. ASSUME NEW t \in Txs, (\E k \in Kinds : CheckLimit(t, k)) \/ CheckBalance(t) PROVE Aware'
  <2>1. PICK place \in {"persist", "balance", "new"} :
          Only(t, place, "create", entity[t], seen[t], known[t])
    BY <1>0, <1>1, CheckLimitDoes, CheckBalanceDoes
  <2>2. row' = row /\ on' = on /\ outdated' = outdated /\ pc[t] \in Early /\ pc[t] \in Unpaid
    BY <1>1 DEF CheckLimit, CheckBalance, Early, Waiting, Unpaid
  <2>3. row[t] = NoRow
    BY <1>0, <2>2 DEF Absent
  <2>4. Agrees(place, "create", entity[t], seen[t], row[t])
    BY <2>3 DEF Agrees, NoRow, Settled
  <2>5. Fits(t, place, "create", entity[t])
    BY <1>0, <2>2 DEF Fitting, Fits, Moves, Unpaid
  <2> QED
    BY <1>0, <2>1, <2>2, <2>4, <2>5, AwareOnly
<1>2. ASSUME NEW t \in Txs, Persist(t) PROVE Aware'
  <2>1. /\ Only(t, "pay", "create", Marked(entity[t], "PENDING"), seen[t], known[t])
        /\ row' = [row EXCEPT ![t] = Marked(row[t], "PENDING")]
    BY <1>0, <1>2, PersistDoes
  <2>2. on' = on /\ outdated' = outdated /\ pc[t] \in Early
    BY <1>2 DEF Persist, Early, Waiting
  <2>3. row[t] = NoRow
    BY <1>0, <2>2 DEF Absent
  <2>4. ASSUME NEW u \in Txs PROVE Absent(u)'
    <3>1. pc'[t] \notin Early
      BY <1>0, <2>1 DEF Only, Early, Waiting
    <3>2. u # t => row'[u] = row[u]
      BY <2>1 DEF Typed, TypeOK
    <3> QED
      BY <1>0, <3>1, <3>2 DEF Absent, Onward
  <2>5. ASSUME NEW q \in Procs, q # t PROVE Attached(q)' /\ Fitting(q)' /\ Fresh(q)'
    <3>1. /\ pc'[q] = pc[q] /\ goal'[q] = goal[q] /\ entity'[q] = entity[q] /\ seen'[q] = seen[q]
          /\ on'[q] = on[q] /\ on[q] \in Txs
      BY <1>0, <2>1, <2>2, <2>5 DEF Only
    <3>2. Attached(q)'
      BY <1>0, <3>1 DEF Attached, Onward
    <3>3. Fitting(q)'
      BY <1>0, <3>1 DEF Fitting
    <3>4. pc[q] \notin {"idle", "find"} => on[q] # t
      BY <1>0, <2>2, <2>5 DEF Attached
    <3>5. pc[q] \notin {"idle", "find"} => row'[on[q]] = row[on[q]]
      BY <1>0, <2>1, <3>1, <3>4 DEF Globals
    <3>6. Fresh(q)'
      BY <1>0, <2>2, <3>1, <3>5 DEF Fresh
    <3> QED
      BY <3>2, <3>3, <3>6
  <2>6. Attached(t)' /\ Fitting(t)' /\ Fresh(t)'
    <3>1. row'[t] = [status |-> "PENDING", hash |-> FALSE] /\ on'[t] = t
      BY <1>0, <2>1, <2>2, <2>3 DEF Globals, Marked, NoRow
    <3>2. entity'[t].status = "PENDING" /\ pc'[t] = "pay" /\ goal'[t] = "create"
      BY <1>0, <2>1 DEF Only, Marked
    <3>3. Attached(t)'
      BY DEF Attached
    <3>4. Fitting(t)'
      BY <3>2 DEF Fitting, Fits, Settled, Moves, Unpaid
    <3>5. Fresh(t)'
      BY <3>1, <3>2 DEF Fresh, Agrees, Settled
    <3> QED
      BY <3>3, <3>4, <3>5
  <2> QED
    BY <2>4, <2>5, <2>6 DEF Aware
<1>3. ASSUME NEW t \in Txs, Pay(t) PROVE Aware'
  <2>1. PICK g \in {"hash", "debit", "done"} :
          /\ g = CASE kind[t] = "DEPOSIT" -> "hash" [] kind[t] = "WITHDRAW" -> "debit" [] OTHER -> "done"
          /\ Only(t, First(g), g,
                  [status |-> IF g = "done" THEN "SUCCESS" ELSE entity[t].status, hash |-> TRUE],
                  seen[t], known[t])
    BY <1>0, <1>3, PayDoes
  <2>2. row' = row /\ on' = on /\ outdated' = outdated /\ pc[t] = "pay"
    BY <1>3 DEF Pay
  <2>3. PICK r : r = [status |-> IF g = "done" THEN "SUCCESS" ELSE entity[t].status, hash |-> TRUE]
    OBVIOUS
  <2>4. /\ First(g) \notin Unpaid /\ First(g) \notin {"ask", "update", "category", "notify", "idle", "find"}
        /\ First(g) = "select" => g \notin Moves
    BY DEF First, Unpaid
  <2>5. Fits(t, First(g), g, r)
    BY <2>3, <2>4 DEF Fits
  <2>6. t \notin outdated => Agrees(First(g), g, r, seen[t], row[t])
    <3>1. entity[t].status \notin Settled /\ Fresh(t)
      BY <1>0, <2>2 DEF Fitting, Fits, Unpaid
    <3>2. goal[t] \in Own
      BY <1>0, <2>2 DEF Fitting, Fits, Unpaid, Own, Goals
    <3>3. t \notin outdated => row[t].status \notin Settled
      BY <1>0, <2>2, <3>1, <3>2 DEF Fresh, Agrees
    <3> QED
      BY <2>3, <2>4, <3>3 DEF Agrees
  <2> QED
    BY <1>0, <2>1, <2>2, <2>3, <2>5, <2>6, AwareOnly
<1>4. ASSUME NEW t \in Txs, Refuse(t) \/ Notify(t) PROVE Aware'
  <2>1. row' = row /\ pc[t] \notin {"idle", "find"}
    BY <1>4 DEF Refuse, Notify
  <2> QED
    BY <1>0, <1>4, <2>1, Advances, Throws, AwareEnd DEF Refuse, Notify
<1>5. ASSUME NEW t \in Txs, Category(t) PROVE Aware'
  <2>1. row' = row /\ pc[t] = "category"
    BY <1>5 DEF Category
  <2>2. on' = on
    BY <1>0, <1>5, CategoryDoes
  <2>3. CASE Ended(t) /\ outdated' = outdated \ {t}
    BY <1>0, <2>1, <2>2, <2>3, AwareEnd
  <2>4. CASE /\ Only(t, "select", "category", entity[t], seen[t], known[t])
             /\ outdated' = outdated /\ goal[t] \in Own
    <3>1. Fits(t, "select", "category", entity[t])
      BY <1>0, <2>4 DEF Fitting, Fits, Unpaid, Moves
    <3>2. t \notin outdated => Agrees("select", "category", entity[t], seen[t], row[t])
      BY <1>0, <2>1, <2>4 DEF Fresh, Agrees
    <3> QED
      BY <1>0, <2>1, <2>2, <2>4, <3>1, <3>2, AwareOnly
  <2>5. goal[t] \in Own
    BY <1>0, <2>1 DEF Fitting, Fits, Own, Goals
  <2> QED
    BY <1>0, <1>5, <2>3, <2>4, <2>5, CategoryDoes
<1>6. ASSUME NEW p \in Procs, ReadUser(p) PROVE Aware'
  <2>1. /\ Only(p, "write", goal[p], entity[p], seen[p], balance)
        /\ row' = row /\ on' = on /\ outdated' = outdated /\ pc[p] = "read"
    BY <1>0, <1>6, ReadUserDoes DEF ReadUser
  <2>2. Fits(p, "write", goal[p], entity[p])
    BY <1>0, <2>1 DEF Fitting, Fits, Unpaid
  <2>3. p \notin outdated => Agrees("write", goal[p], entity[p], seen[p], row[on[p]])
    BY <1>0, <2>1 DEF Fresh, Agrees
  <2> QED
    BY <1>0, <2>1, <2>2, <2>3, AwareOnly DEF Attached
<1>7. ASSUME NEW p \in Procs, WriteUser(p) PROVE Aware'
  <2>1. row' = row /\ pc[p] \notin {"idle", "find"}
    BY <1>7 DEF WriteUser
  <2> QED
    BY <1>0, <1>7, <2>1, Advances, Throws, AwareEnd DEF WriteUser
<1>8. ASSUME NEW p \in Procs, Select(p) PROVE Aware'
  <2>1. /\ Only(p, "update", goal[p], entity[p], row[on[p]], known[p])
        /\ row' = row /\ on' = on /\ outdated' = outdated /\ pc[p] = "select"
    BY <1>0, <1>8, SelectDoes DEF Select
  <2>2. Fits(p, "update", goal[p], entity[p])
    BY <1>0, <2>1 DEF Fitting, Fits, Unpaid
  <2>3. p \notin outdated => Agrees("update", goal[p], entity[p], row[on[p]], row[on[p]])
    BY <1>0, <2>1 DEF Fresh, Agrees
  <2> QED
    BY <1>0, <2>1, <2>2, <2>3, AwareOnly DEF Attached
<1>9. ASSUME NEW p \in Procs, Update(p) PROVE Aware'
  BY <1>0, <1>9, AwareUpdate
<1>10. ASSUME NEW p \in Procs \ Txs, NEW t \in Txs, Look(p, t) PROVE Aware'
  <2>1. /\ Only(p, "ask", "settle", row[t], seen[p], known[p]) /\ on' = [on EXCEPT ![p] = t]
        /\ row' = row /\ outdated' = outdated \ {p} /\ row[t].hash
    BY <1>0, <1>10, LookDoes DEF Look
  <2>2. pc[t] \notin Early
    BY <1>0, <2>1 DEF Absent, NoRow
  <2>3. Fits(p, "ask", "settle", row[t])
    BY <1>10, <2>1 DEF Fits, Unpaid
  <2>4. Agrees("ask", "settle", row[t], seen[p], row[t])
    BY DEF Agrees
  <2>5. on'[p] = t /\ \A q \in Procs \ {p} : on'[q] = on[q]
    BY <1>0, <2>1 DEF Globals
  <2> QED
    BY <1>0, <2>1, <2>2, <2>3, <2>4, <2>5, AwareOnly
<1>11. ASSUME NEW c \in Clerks, NEW t \in Txs, Verify(c, t) PROVE Aware'
  <2>1. c \in Procs \ Txs /\ Look(c, t)
    BY <1>0, <1>11 DEF Verify
  <2> QED
    BY <1>10, <2>1
<1>12. ASSUME NEW c \in Clerks, NEW t \in Txs, NEW s \in {"CANCELLED", row[t].status}, Edit(c, t, s)
       PROVE  Aware'
  <2>1. /\ Only(c, "select", "edit", Marked(row[t], s), seen[c], known[c])
        /\ on' = [on EXCEPT ![c] = t]
    BY <1>0, <1>12, EditDoes
  <2>2. /\ row' = row /\ outdated' = outdated \ {c} /\ row[t].status # "NONE"
        /\ s = "CANCELLED" => row[t].status = "PENDING"
    BY <1>12 DEF Edit, Cancellable
  <2>3. pc[t] \notin Early
    BY <1>0, <2>2 DEF Absent, NoRow
  <2>4. c \in Procs \ Txs
    BY <1>0
  <2>5. Fits(c, "select", "edit", Marked(row[t], s))
    BY <2>4 DEF Fits, Unpaid, Moves
  <2>6. Agrees("select", "edit", Marked(row[t], s), seen[c], row[t])
    BY <2>2 DEF Agrees, Marked, Settled
  <2>7. on'[c] = t /\ \A q \in Procs \ {c} : on'[q] = on[q]
    BY <1>0, <2>1 DEF Globals
  <2> QED
    BY <1>0, <2>1, <2>2, <2>3, <2>4, <2>5, <2>6, <2>7, AwareOnly
<1>13. ASSUME NEW j \in Jobs, Tick(j) PROVE Aware'
  <2>1. /\ pc' = [p \in Procs |-> IF p \in {j} \X Pending THEN "find" ELSE pc[p]]
        /\ UNCHANGED <<row, goal, on, entity, seen, outdated>>
    BY <1>13 DEF Tick
  <2>2. \A p \in Procs : pc'[p] = pc[p] \/ (pc[p] = "idle" /\ pc'[p] = "find")
    <3>1. Pending \subseteq Txs
      BY DEF Pending
    <3>2. \A p \in {j} \X Pending : pc[p] = "idle"
      BY <1>13, <3>1 DEF Tick
    <3> QED
      BY <2>1, <3>2
  <2>3. \A t \in Txs : Absent(t)'
    BY <1>0, <2>1 DEF Absent, Onward
  <2>4. ASSUME NEW p \in Procs PROVE Attached(p)' /\ Fitting(p)' /\ Fresh(p)'
    <3>1. CASE pc[p] = "idle" /\ pc'[p] = "find"
      BY <1>0, <2>1, <3>1 DEF Attached, Fitting, Fits, Fresh, Unpaid
    <3>2. CASE pc'[p] = pc[p]
      BY <1>0, <2>1, <3>2 DEF Attached, Fitting, Fresh, Onward
    <3> QED
      BY <2>2, <3>1, <3>2
  <2> QED
    BY <2>3, <2>4 DEF Aware
<1>14. ASSUME NEW p \in Checks, Find(p) PROVE Aware'
  <2>1. p \in Procs \ Txs /\ on[p] \in Txs
    BY <1>0
  <2>2. CASE End(p) /\ UNCHANGED <<kind, row, chain, balance, ghosts>>
    BY <1>0, <2>2, Ends, AwareEnd
  <2> QED
    BY <1>10, <1>14, <2>1, <2>2 DEF Find
<1>15. ASSUME NEW p \in Procs, NEW answer \in {"PENDING", "SUCCESS", "FAILED"}, Ask(p, answer)
       PROVE  Aware'
  <2>1. row' = row /\ on' = on /\ pc[p] = "ask"
    BY <1>0, <1>15, AskDoes DEF Ask
  <2>2. CASE Ended(p) /\ outdated' = outdated \ {p}
    BY <1>0, <2>1, <2>2, AwareEnd
  <2>3. ASSUME NEW g \in {"credit", "refund", "settle"}, outdated' = outdated,
               answer = chain[on[p]],
               g = "credit" => answer = "SUCCESS", g = "refund" => answer = "FAILED",
               Only(p, First(g), g, Marked(entity[p], answer), seen[p], known[p])
        PROVE  Aware'
    <3>1. goal[p] = "settle" /\ entity[p].hash
      BY <1>0, <2>1 DEF Fitting, Fits
    <3>2. /\ First(g) \notin Unpaid /\ First(g) \notin {"ask", "update", "category", "notify", "idle", "find"}
          /\ First(g) = "select" => g \notin Moves
      BY DEF First, Unpaid
    <3>3. g \notin Own /\ g # "failed"
      BY DEF Own
    <3>4. Fits(p, First(g), g, Marked(entity[p], answer))
      <4>1. chain[on[p]] \in {"NONE", "SUCCESS", "FAILED"}
        BY <1>0 DEF Globals
      <4>2. answer \in Settled
        BY <2>3, <4>1 DEF Settled
      <4>3. p \notin Txs
        BY <1>0, <3>1 DEF Fitting, Fits
      <4> QED
        BY <2>3, <3>1, <3>2, <3>3, <4>2, <4>3 DEF Fits, Marked
    <3>5. Agrees(First(g), g, Marked(entity[p], answer), seen[p], row[on[p]])
      BY <3>1, <3>2, <3>3 DEF Agrees, Marked
    <3> QED
      BY <1>0, <2>1, <2>3, <3>4, <3>5, AwareOnly DEF Attached
  <2> QED
    BY <1>0, <1>15, <2>2, <2>3, AskDoes
<1>16. ASSUME NEW p \in Procs, Fail(p) PROVE Aware'
  <2>1. row' = row /\ pc[p] \notin {"idle", "find"}
    BY <1>16 DEF Fail
  <2> QED
    BY <1>0, <1>16, <2>1, Throws, AwareEnd DEF Fail
<1>17. CASE UNCHANGED vars
  BY <1>0, <1>17 DEF vars, Aware, Absent, Attached, Fitting, Fresh
<1> QED
  BY StepsSplit, <1>1, <1>2, <1>3, <1>4, <1>5, <1>6, <1>7, <1>8, <1>9, <1>11, <1>12, <1>13,
     <1>14, <1>15, <1>16, <1>17

LEMMA AwareInit == Init => Aware
<1> SUFFICES ASSUME Init PROVE Aware
  OBVIOUS
<1>1. /\ \A t \in Txs : row[t] = NoRow
      /\ \A p \in Procs : entity[p] = NoRow
      /\ \A p \in Procs : IF p \in Txs THEN pc[p] = "new" /\ goal[p] = "create" /\ on[p] = p
                                       ELSE pc[p] = "idle" /\ goal[p] = "none"
  BY DEF Init, Procs
<1>2. \A t \in Txs : Absent(t)
  BY <1>1 DEF Absent
<1>3. ASSUME NEW p \in Procs PROVE Attached(p) /\ Fitting(p) /\ Fresh(p)
  <2>1. entity[p].status \notin Settled /\ ~ entity[p].hash
    BY <1>1 DEF NoRow, Settled
  <2>2. CASE p \in Txs
    <3>1. pc[p] = "new" /\ goal[p] = "create" /\ on[p] = p /\ row[p].status \notin Settled /\ ~ row[p].hash
      BY <1>1, <2>2 DEF NoRow, Settled
    <3> QED
      BY <2>1, <2>2, <3>1 DEF Attached, Fitting, Fits, Fresh, Agrees, Moves, Unpaid
  <2>3. CASE p \notin Txs
    <3>1. pc[p] = "idle" /\ goal[p] = "none"
      BY <1>1, <2>3
    <3> QED
      BY <2>1, <2>3, <3>1 DEF Attached, Fitting, Fits, Fresh, Moves, Unpaid
  <2> QED
    BY <2>2, <2>3
<1> QED
  BY <1>2, <1>3 DEF Aware

LEMMA AwareAlways == Spec => []Aware
  BY AwareInit, AwareStep, OnwardStep, TypedAlways, PTL DEF Spec

LEMMA OnlyLateSavesUndo ==
  ASSUME Typed, Aware, [Next]_vars, NEW t \in Txs, Undoes(t)
  PROVE  \E p \in Procs :
           /\ pc[p] = "update" /\ pc'[p] # "update" /\ on[p] = t
           /\ \/ p \in outdated
              \/ goal[p] \in {"settle", "failed"} /\ row'[t].hash
<1>0. TypeOK /\ Globals /\ row[t] \in Rows
  BY TypesSplit DEF Typed, Globals
<1>1. row'[t] # row[t]
  BY DEF Undoes
<1>2. \/ \E u \in Txs : Persist(u)
      \/ \E p \in Procs : Update(p)
      \/ row' = row
  BY StepsSplit DEF CheckLimit, CheckBalance, Pay, Refuse, Notify, Category, ReadUser, WriteUser,
     Select, Verify, Look, Edit, Tick, Find, Ask, Fail, ghosts, vars
<1>3. ASSUME NEW u \in Txs, Persist(u) PROVE FALSE
  <2>1. row' = [row EXCEPT ![u] = Marked(row[u], "PENDING")]
    BY <1>0, <1>3, PersistDoes
  <2>2. u = t
    BY <1>0, <1>1, <2>1 DEF Globals
  <2>3. row[t] = NoRow
    BY <1>3, <2>2 DEF Aware, Absent, Persist, Early, Waiting
  <2> QED
    BY <2>3 DEF Undoes, NoRow, Settled
<1>4. ASSUME NEW p \in Procs, Update(p)
      PROVE  /\ pc[p] = "update" /\ pc'[p] # "update" /\ on[p] = t
             /\ \/ p \in outdated
                \/ goal[p] \in {"settle", "failed"} /\ row'[t].hash
  <2>1. PICK new \in Rows :
          /\ new = Written(entity[p], seen[p], row[on[p]])
          /\ row' = [row EXCEPT ![on[p]] = new]
    BY <1>0, <1>4, UpdateDoes
  <2>2. Ended(p) \/ Advanced(p)
    BY <1>0, <1>4, UpdateDoes
  <2>3. on[p] = t /\ pc[p] = "update"
    BY <1>0, <1>1, <1>4, <2>1 DEF Globals, Update
  <2>4. pc'[p] # "update"
    <3>1. \A g \in Goals : First(g) # "update"
      BY Firsts
    <3> QED
      BY <2>2, <3>1 DEF Ended, Advanced, Only
  <2>5. ASSUME p \notin outdated PROVE goal[p] \in {"settle", "failed"} /\ row'[t].hash
    <3>1. row'[t] = entity[p]
      BY <1>0, <1>4, <2>1, <2>3, <2>5, FreshUpdate DEF Globals
    <3>2. Fitting(p) /\ Fresh(p) /\ goal[p] \in Goals
      BY <1>0, Parts DEF Aware
    <3>3. /\ row[t].hash => entity[p].hash
          /\ goal[p] \in Own /\ row[t].status \in Settled => entity[p].status = row[t].status
          /\ goal[p] = "failed" /\ row[t].status \in Settled => entity[p].hash
      BY <2>3, <2>5, <3>2 DEF Fresh, Agrees
    <3>4. row[t].status \in Settled /\ entity[p].status # row[t].status
      BY <3>1, <3>3 DEF Undoes
    <3>5. goal[p] \in {"settle", "failed"}
      BY <2>3, <3>2, <3>3, <3>4 DEF Own, Fitting, Fits, Moves
    <3> QED
      BY <3>1, <3>2, <3>3, <3>4, <3>5 DEF Fitting, Fits
  <2> QED
    BY <2>3, <2>4, <2>5
<1> QED
  BY <1>1, <1>2, <1>3, <1>4

\* An outcome changes, or a hash is lost, only by a call that has not seen the row as
\* it is; by a verification; or by the call that made the row, when it fails.
THEOREM LateSavesUndo == Spec => UndoneByLateSaves
<1>1. Typed /\ Aware /\ [Next]_vars =>
        [\A t \in Txs : Undoes(t) =>
           \E p \in Procs :
             /\ pc[p] = "update" /\ pc'[p] # "update" /\ on[p] = t
             /\ \/ p \in outdated
                \/ goal[p] \in {"settle", "failed"} /\ row'[t].hash]_vars
  BY OnlyLateSavesUndo
<1> QED
  BY <1>1, AwareAlways, TypedAlways, PTL DEF Spec, UndoneByLateSaves
-----------------------------------------------------------------------------
(* Verdicts: credits and refunds. *)

Clean(t) == mishaps[t] \cap {"race", "again", "undone", "fault"} = {}
Over(t) == row[t].status \in Settled
Pristine(t) == moved[t].credit = 0 /\ moved[t].refund = 0
\* What is refunded has been taken before.
Taken(t) == kind[t] = "WITHDRAW" => moved[t].debit > 0

Settles(p, t) == Verifying(p) /\ on[p] = t
Alone(p, t) == \A q \in Procs \ {p} : ~ Settles(q, t)
\* A verification that has nothing left to do but to save the outcome.
Finishing(p) == goal[p] = "settle" /\ pc[p] \in {"select", "update"}

\* A process at work on t: it saves an outcome over no other; before it pays nobody
\* has; and it has seen a hash only if the withdrawal was taken.
Minds(p, t) ==
  on[p] = t =>
    /\ pc[p] = "update" /\ seen[p].status \in Settled => Over(t)
    /\ Verifying(p) /\ ~ Finishing(p) => Pristine(t) /\ Taken(t)
    /\ pc[p] \notin {"idle", "find"} /\ entity[p].hash =>
         Taken(t) \/ Over(t) \/ (p = t /\ goal[p] \in {"debit", "failed"})

\* One verification at a time pays once, and its outcome is on its way to the row.
Orderly(t) ==
  /\ \A p \in Procs : Settles(p, t) => Alone(p, t)
  /\ \A p \in Procs : Minds(p, t)
  /\ ~ Pristine(t) => Over(t) \/ \E p \in Procs : Settles(p, t) /\ Finishing(p)
  /\ moved[t].credit <= 1 /\ moved[t].refund <= moved[t].debit
  /\ row[t].hash => Taken(t) \/ Over(t)

Once == \A t \in Txs : Clean(t) => Orderly(t)

\* All but p do nothing.
Others(p) ==
  \A q \in Procs \ {p} : /\ pc'[q] = pc[q] /\ goal'[q] = goal[q] /\ entity'[q] = entity[q]
                         /\ seen'[q] = seen[q] /\ on'[q] = on[q]

LEMMA OthersOnly ==
  ASSUME Typed, NEW p \in Procs, on' = on,
         \/ Ended(p) \/ Advanced(p) \/ GaveUp(p)
         \/ \E place, for, held, read, money : Only(p, place, for, held, read, money)
  PROVE  Others(p)
  BY DEF Ended, Advanced, GaveUp, Only, Others

\* What a step of p does to t, when it keeps what p owes t.
LEMMA OrderlyNext ==
  ASSUME NEW p \in Procs, NEW t \in Txs, Orderly(t), Others(p),
         Over(t) => Over(t)', Taken(t) => Taken(t)',
         moved'[t].credit <= 1 /\ moved'[t].refund <= moved'[t].debit,
         row'[t].hash => row[t].hash \/ Taken(t)' \/ Over(t)',
         \/ Pristine(t)' <=> Pristine(t)
         \/ Settles(p, t) /\ (Settles(p, t) /\ Finishing(p))',
         Settles(p, t) /\ Finishing(p) => Over(t)' \/ (Settles(p, t) /\ Finishing(p))',
         Settles(p, t)' => Settles(p, t) \/ Alone(p, t),
         Minds(p, t)'
  PROVE  Orderly(t)'
<1>1. ASSUME NEW q \in Procs, q # p
      PROVE  /\ Settles(q, t)' <=> Settles(q, t)
             /\ Finishing(q)' <=> Finishing(q)
  BY <1>1 DEF Others, Settles, Finishing, Verifying
<1>2. \A q \in Procs : Settles(q, t)' => Alone(q, t)'
  BY <1>1 DEF Orderly, Alone
<1>3. ASSUME NEW q \in Procs, q # p PROVE Minds(q, t)'
  <2>1. /\ pc'[q] = pc[q] /\ goal'[q] = goal[q] /\ entity'[q] = entity[q]
        /\ seen'[q] = seen[q] /\ on'[q] = on[q] /\ Minds(q, t)
    BY <1>3 DEF Others, Orderly
  <2>2. Settles(q, t) /\ Pristine(t) => Pristine(t)'
    BY <1>3 DEF Orderly, Alone
  <2>3. CASE on[q] # t
    BY <2>1, <2>3 DEF Minds
  <2>4. CASE on[q] = t
    <3>1. pc'[q] = "update" /\ seen'[q].status \in Settled => Over(t)'
      BY <2>1, <2>4 DEF Minds
    <3>2. Verifying(q)' /\ ~ Finishing(q)' => Pristine(t)' /\ Taken(t)'
      BY <2>1, <2>2, <2>4 DEF Minds, Verifying, Finishing, Settles
    <3>3. pc'[q] \notin {"idle", "find"} /\ entity'[q].hash =>
            Taken(t)' \/ Over(t)' \/ (q = t /\ goal'[q] \in {"debit", "failed"})
      BY <2>1, <2>4 DEF Minds
    <3> QED
      BY <3>1, <3>2, <3>3 DEF Minds
  <2> QED
    BY <2>3, <2>4
<1>4. ~ Pristine(t)' => Over(t)' \/ \E q \in Procs : Settles(q, t)' /\ Finishing(q)'
  <2>1. CASE Settles(p, t)' /\ Finishing(p)'
    BY <2>1
  <2>2. CASE Pristine(t)' <=> Pristine(t)
    <3>1. ASSUME NEW q \in Procs, Settles(q, t), Finishing(q)
          PROVE  Over(t)' \/ \E r \in Procs : Settles(r, t)' /\ Finishing(r)'
      BY <1>1, <3>1
    <3> QED
      BY <2>2, <3>1 DEF Orderly
  <2> QED
    BY <2>1, <2>2
<1>5. row'[t].hash => Taken(t)' \/ Over(t)'
  BY DEF Orderly
<1> QED
  BY <1>2, <1>3, <1>4, <1>5 DEF Orderly

\* A step that moves no money and changes no row.
LEMMA OrderlyQuiet ==
  ASSUME NEW p \in Procs, Onward, Once, Others(p), UNCHANGED <<row, moved, kind>>,
         \A t \in Txs : Clean(t)' /\ Orderly(t) =>
           /\ Minds(p, t)'
           /\ Settles(p, t) /\ Finishing(p) => (Settles(p, t) /\ Finishing(p))'
           /\ Settles(p, t)' => Settles(p, t) \/ Alone(p, t)
  PROVE  Once'
<1> SUFFICES ASSUME NEW t \in Txs, Clean(t)' PROVE Orderly(t)'
  BY DEF Once
<1>1. Orderly(t)
  BY DEF Once, Clean, Onward
<1>2. (Over(t)' <=> Over(t)) /\ (Taken(t)' <=> Taken(t)) /\ (Pristine(t)' <=> Pristine(t))
  BY DEF Over, Taken, Pristine
<1>3. moved'[t].credit <= 1 /\ moved'[t].refund <= moved'[t].debit /\ row'[t].hash = row[t].hash
  BY <1>1 DEF Orderly
<1> QED
  BY <1>1, <1>2, <1>3, OrderlyNext

\* A process ends, goes on to the next goal or gives up.
LEMMA OrderlyEnd ==
  ASSUME NEW p \in Procs, Typed, Onward, Aware, Once, on' = on, UNCHANGED <<row, moved, kind>>,
         \/ Ended(p)
         \/ Advanced(p) /\ goal[p] # "debit" /\ pc[p] \notin {"idle", "find"}
         \/ GaveUp(p) /\ pc[p] \notin {"idle", "find"},
         Finishing(p) => ~ Clean(on[p])'
  PROVE  Once'
<1>0. TypeOK /\ on[p] \in Txs /\ goal[p] \in Goals /\ Others(p)
  BY Parts, OthersOnly DEF Typed
<1> SUFFICES ASSUME NEW t \in Txs, Clean(t)', Orderly(t)
             PROVE  /\ Minds(p, t)'
                    /\ Settles(p, t) /\ Finishing(p) => (Settles(p, t) /\ Finishing(p))'
                    /\ Settles(p, t)' => Settles(p, t) \/ Alone(p, t)
  BY <1>0, OrderlyQuiet
<1>1. Settles(p, t) => ~ Finishing(p)
  BY DEF Settles
<1>2. CASE on[p] # t
  BY <1>1, <1>2 DEF Minds, Settles
<1>3. CASE on[p] = t /\ Ended(p)
  <2>1. pc'[p] = "idle" /\ goal'[p] = "none"
    BY <1>3 DEF Ended, Only
  <2> QED
    BY <1>1, <2>1 DEF Minds, Settles, Verifying
<1>4. CASE on[p] = t /\ Advanced(p) /\ goal[p] # "debit" /\ pc[p] \notin {"idle", "find"}
  <2>1. PICK g \in Goals : /\ g = After(goal[p], kind[on[p]]) /\ g # "none"
                           /\ pc'[p] = First(g) /\ goal'[p] = g /\ entity'[p] = entity[p]
    BY <1>4 DEF Advanced, Only
  <2>2. /\ First(g) # "update" /\ (g = "settle" => First(g) = "select")
        /\ g = "settle" => goal[p] \in {"credit", "refund"}
        /\ g \notin {"credit", "refund", "failed"} /\ goal[p] # "failed"
    BY <1>0, <2>1, AfterOwn, Firsts DEF First, After, Moves
  <2>3. Minds(p, t)
    BY DEF Orderly
  <2>4. Taken(t)' <=> Taken(t)
    BY DEF Taken
  <2>5. Over(t)' <=> Over(t)
    BY DEF Over
  <2>6. entity'[p].hash => Taken(t)' \/ Over(t)'
    BY <1>4, <2>1, <2>2, <2>3, <2>4, <2>5 DEF Minds
  <2>7. Verifying(p)' => Finishing(p)' /\ Verifying(p)
    BY <2>1, <2>2 DEF Verifying, Finishing
  <2>8. Minds(p, t)'
    BY <1>4, <2>1, <2>2, <2>6, <2>7 DEF Minds
  <2> QED
    BY <1>1, <1>4, <2>7, <2>8 DEF Settles
<1>5. CASE on[p] = t /\ GaveUp(p) /\ pc[p] \notin {"idle", "find"}
  <2>1. pc'[p] = "select" /\ goal'[p] = "failed" /\ p = t
    BY <1>5 DEF GaveUp, Only, Typed, Placed
  <2> QED
    BY <1>1, <2>1 DEF Minds, Settles, Verifying
<1> QED
  BY <1>2, <1>3, <1>4, <1>5

\* Another outcome comes to a row only by a save that undoes it, or by the outcome of a
\* verification or a failure that has seen none.
LEMMA OutcomeChanges ==
  ASSUME Typed, Aware, [Next]_vars, NEW t \in Txs, Over(t), row'[t].status # row[t].status
  PROVE  \E p \in Procs :
           /\ Update(p) /\ on[p] = t /\ row'[t].status \in {entity[p].status, row[t].status}
           /\ \/ "undone" \in mishaps'[t]
              \/ p \notin outdated /\ goal[p] \in {"settle", "failed"}
<1>0. TypeOK /\ Globals
  BY TypesSplit DEF Typed
<1>1. Undoes(t)
  BY DEF Undoes, Over
<1>2. PICK p \in Procs :
        /\ pc[p] = "update" /\ pc'[p] # "update" /\ on[p] = t
        /\ p \in outdated \/ (goal[p] \in {"settle", "failed"} /\ row'[t].hash)
  BY <1>1, OnlyLateSavesUndo
<1>3. Update(p)
  <2>1. row' # row
    OBVIOUS
  <2>2. \/ \E u \in Txs : Persist(u)
        \/ \E q \in Procs : Update(q)
    BY <2>1, StepsSplit DEF CheckLimit, CheckBalance, Pay, Refuse, Notify, Category, ReadUser,
       WriteUser, Select, Verify, Look, Edit, Tick, Find, Ask, Fail, ghosts, vars
  <2>3. ASSUME NEW u \in Txs, Persist(u) PROVE FALSE
    <3>1. Only(u, "pay", "create", Marked(entity[u], "PENDING"), seen[u], known[u]) /\ pc[u] = "persist"
      BY <1>0, <2>3, PersistDoes DEF Persist
    <3> QED
      BY <1>2, <3>1 DEF Only
  <2>4. ASSUME NEW q \in Procs, Update(q) PROVE q = p
    <3>1. Ended(q) \/ Advanced(q)
      BY <1>0, <2>4, UpdateDoes
    <3> QED
      BY <1>2, <3>1 DEF Ended, Advanced, Only
  <2> QED
    BY <2>2, <2>3, <2>4
<1>4. PICK new : /\ new = Written(entity[p], seen[p], row[t])
                 /\ row' = [row EXCEPT ![t] = new]
                 /\ mishaps' = [mishaps EXCEPT ![t] = mishaps[t] \cup Undone(p, row[t], new)]
  BY <1>2, <1>3 DEF Update
<1>5. row'[t] = new /\ mishaps'[t] = mishaps[t] \cup Undone(p, row[t], new)
  BY <1>0, <1>4 DEF Globals
<1>6. row'[t].status \in {entity[p].status, row[t].status}
  BY <1>4, <1>5 DEF Written, Column
<1>7. p \in outdated => "undone" \in mishaps'[t]
  BY <1>5 DEF Undone, Over
<1> QED
  BY <1>2, <1>3, <1>6, <1>7

\* What is settled stays so, unless that is called undone.
LEMMA OverStays ==
  ASSUME Typed, Aware, [Next]_vars, NEW t \in Txs, Clean(t)', Over(t)
  PROVE  Over(t)'
<1>1. CASE row'[t].status = row[t].status
  BY <1>1 DEF Over
<1>2. CASE row'[t].status # row[t].status
  <2>1. PICK p \in Procs :
          /\ Update(p) /\ on[p] = t /\ row'[t].status \in {entity[p].status, row[t].status}
          /\ \/ "undone" \in mishaps'[t]
             \/ p \notin outdated /\ goal[p] \in {"settle", "failed"}
    BY <1>2, OutcomeChanges
  <2>2. goal[p] \in {"settle", "failed"} /\ pc[p] = "update" /\ Fitting(p)
    BY <2>1 DEF Clean, Update, Aware
  <2> QED
    BY <2>1, <2>2 DEF Fitting, Fits, Over
<1> QED
  BY <1>1, <1>2

LEMMA OnceUpdate ==
  ASSUME Typed, Onward, Aware, Once, [Next]_vars, NEW p \in Procs, Update(p)
  PROVE  Once'
<1> SUFFICES ASSUME NEW t \in Txs, Clean(t)' PROVE Orderly(t)'
  BY DEF Once
<1>0. /\ TypeOK /\ Globals /\ on[p] \in Txs /\ pc[p] = "update" /\ Fitting(p) /\ goal[p] \in Goals
      /\ Orderly(t) /\ Minds(p, t)
  BY TypesSplit, Parts DEF Typed, Aware, Update, Once, Clean, Onward, Orderly
<1>1. PICK new :
        /\ new = Written(entity[p], seen[p], row[on[p]])
        /\ row' = [row EXCEPT ![on[p]] = new]
        /\ UNCHANGED <<on, moved, kind>> /\ (Ended(p) \/ Advanced(p))
  BY <1>0, UpdateDoes DEF Update
<1>2. Others(p)
  BY <1>1, OthersOnly
<1>3. /\ Over(t) => Over(t)'
      /\ Taken(t)' <=> Taken(t)
      /\ Pristine(t)' <=> Pristine(t)
      /\ moved'[t].credit <= 1 /\ moved'[t].refund <= moved'[t].debit
  BY <1>0, <1>1, OverStays DEF Taken, Pristine, Orderly
\* It brings its outcome to the row, if it has one.
<1>4. on[p] = t /\ goal[p] \in {"settle", "failed"} => Over(t)'
  <2> SUFFICES ASSUME on[p] = t, goal[p] \in {"settle", "failed"} PROVE Over(t)'
    OBVIOUS
  <2>1. entity[p].status \in Settled
    BY <1>0 DEF Fitting, Fits
  <2>2. CASE seen[p].status = entity[p].status
    BY <1>0, <1>3, <2>1, <2>2 DEF Minds
  <2>3. CASE seen[p].status # entity[p].status
    <3>1. row'[t].status = entity[p].status
      BY <1>0, <1>1, <2>3 DEF Globals, Written, Column
    <3> QED
      BY <2>1, <3>1 DEF Over
  <2> QED
    BY <2>2, <2>3
<1>5. entity[p].hash /\ on[p] = t => Taken(t)' \/ Over(t)'
  <2>1. goal[p] # "debit"
    BY <1>0 DEF Fitting, Fits, Moves
  <2> QED
    BY <1>0, <1>3, <1>4, <2>1 DEF Minds
<1>6. row'[t].hash => row[t].hash \/ Taken(t)' \/ Over(t)'
  <2>1. CASE on[p] # t
    BY <1>0, <1>1, <2>1 DEF Globals
  <2>2. CASE on[p] = t
    <3>1. row'[t].hash \in {entity[p].hash, row[t].hash}
      BY <1>0, <1>1, <2>2 DEF Globals, Written, Column
    <3> QED
      BY <1>5, <2>2, <3>1
  <2> QED
    BY <2>1, <2>2
<1>7. Settles(p, t) /\ Finishing(p) => Over(t)'
  BY <1>4 DEF Settles, Finishing
<1>8. Settles(p, t)' => Settles(p, t)
  <2>1. goal[p] \notin {"credit", "refund"}
    BY <1>0 DEF Fitting, Fits, Moves
  <2>2. ~ Verifying(p)'
    BY <1>0, <1>1, <2>1, AfterOwn DEF Ended, Advanced, Only, Verifying
  <2> QED
    BY <2>2 DEF Settles
<1>9. Minds(p, t)'
  <2>1. CASE Ended(p)
    BY <2>1 DEF Ended, Only, Minds, Verifying
  <2>2. CASE Advanced(p)
    <3>1. PICK g \in Goals : /\ g = After(goal[p], kind[on[p]]) /\ g # "none"
                             /\ pc'[p] = First(g) /\ goal'[p] = g /\ entity'[p] = entity[p]
      BY <2>2 DEF Advanced, Only
    <3>2. First(g) # "update" /\ g \notin {"settle", "credit", "refund"}
      <4>1. goal[p] \notin {"credit", "refund"}
        BY <1>0 DEF Fitting, Fits, Moves
      <4> QED
        BY <1>0, <3>1, <4>1, AfterOwn DEF First
    <3> QED
      BY <1>1, <1>5, <3>1, <3>2 DEF Minds, Verifying
  <2> QED
    BY <1>1, <2>1, <2>2
<1> QED
  BY <1>0, <1>2, <1>3, <1>6, <1>7, <1>8, <1>9, OrderlyNext

LEMMA OnceWrite ==
  ASSUME Typed, Onward, Honest, Aware, Once, NEW p \in Procs, WriteUser(p)
  PROVE  Once'
<1>0. /\ TypeOK /\ Globals /\ on[p] \in Txs /\ pc[p] = "write" /\ goal[p] \in Moves
      /\ UNCHANGED <<row, kind>> /\ Deserved(goal[p], on[p])
  BY TypesSplit, Parts DEF Typed, Placed, WriteUser, Honest, HonestProcess
<1>1. CASE Throw(p) /\ UNCHANGED moved
  <2>1. on' = on /\ (Ended(p) \/ GaveUp(p)) /\ ~ Finishing(p)
    BY <1>0, <1>1, Throws DEF Finishing
  <2> QED
    BY <1>0, <1>1, <2>1, OrderlyEnd
<1>2. CASE Advance(p) /\ moved' = [moved EXCEPT ![on[p]][goal[p]] = @ + 1]
  <2> SUFFICES ASSUME NEW t \in Txs, Clean(t)' PROVE Orderly(t)'
    BY DEF Once
  <2>0. on' = on /\ (Ended(p) \/ Advanced(p))
    BY <1>0, <1>2, Advances
  <2>1. Orderly(t) /\ Minds(p, t) /\ Others(p)
    BY <2>0, OthersOnly DEF Once, Clean, Onward, Orderly
  <2>2. /\ moved[t] \in [Moves -> Nat] /\ moved[t].debit \in Nat /\ moved[t].credit \in Nat
        /\ moved[t].refund \in Nat
    BY <1>0 DEF Globals, Moves
  <2>3. moved'[t] = IF t = on[p] THEN [moved[t] EXCEPT ![goal[p]] = @ + 1] ELSE moved[t]
    BY <1>0, <1>2 DEF Globals
  <2>4. (Over(t)' <=> Over(t)) /\ (Taken(t) => Taken(t)')
    <3>1. moved[t].debit > 0 => moved'[t].debit > 0
      BY <1>0, <2>2, <2>3 DEF Moves
    <3> QED
      BY <1>0, <3>1 DEF Over, Taken
  <2>5. /\ Settles(p, t) => ~ Finishing(p)
        /\ Settles(p, t) => Pristine(t) /\ Taken(t)
    BY <1>0, <2>1 DEF Finishing, Minds, Settles
  <2>6. CASE on[p] # t
    <3>1. ~ Settles(p, t) /\ ~ Settles(p, t)' /\ Minds(p, t)'
      BY <2>0, <2>6 DEF Settles, Minds
    <3>2. moved'[t] = moved[t]
      BY <2>3, <2>6
    <3>3. /\ Pristine(t)' <=> Pristine(t)
          /\ moved'[t].credit <= 1 /\ moved'[t].refund <= moved'[t].debit
          /\ row'[t].hash = row[t].hash
      BY <1>0, <2>1, <3>2 DEF Pristine, Orderly
    <3> QED
      BY <2>1, <2>4, <3>1, <3>3, OrderlyNext
  <2>7. CASE on[p] = t /\ goal[p] \in {"credit", "refund"}
    <3>1. Settles(p, t) /\ Pristine(t) /\ Taken(t)
      BY <2>5, <2>7 DEF Settles, Verifying
    <3>2. moved'[t].credit <= 1 /\ moved'[t].refund <= moved'[t].debit
      <4>1. moved[t].credit = 0 /\ moved[t].refund = 0 /\ (goal[p] = "refund" => moved[t].debit > 0)
        BY <1>0, <2>7, <3>1 DEF Pristine, Taken, Deserved
      <4> QED
        BY <2>2, <2>3, <2>7, <4>1 DEF Moves
    <3>3. goal'[p] = "settle" /\ pc'[p] = "select" /\ entity'[p] = entity[p]
      <4>1. After(goal[p], kind[on[p]]) = "settle"
        BY <2>7 DEF After
      <4>2. Go(p, First("settle"), "settle") /\ First("settle") = "select" /\ entity' = entity
        BY <1>2, <4>1 DEF Advance, First, Moves
      <4>3. pc \in [Procs -> Places] /\ goal \in [Procs -> Goals]
        BY <1>0 DEF TypeOK, Places
      <4> QED
        BY <4>2, <4>3 DEF Go
    <3>4. (Settles(p, t) /\ Finishing(p))'
      BY <2>0, <2>7, <3>3 DEF Settles, Finishing, Verifying
    <3>5. Minds(p, t)'
      <4>1. entity'[p].hash => Taken(t)' \/ Over(t)'
        BY <2>4, <3>1
      <4> QED
        BY <3>3, <3>4, <4>1 DEF Minds
    <3> QED
      BY <1>0, <2>1, <2>4, <3>1, <3>2, <3>4, <3>5, OrderlyNext
  <2>8. CASE on[p] = t /\ goal[p] \in {"debit", "gain"}
    <3>1. /\ Pristine(t)' <=> Pristine(t)
          /\ moved'[t].credit <= 1 /\ moved'[t].refund <= moved'[t].debit
          /\ goal[p] = "debit" => moved'[t].debit > 0
      <4>1. moved'[t].credit = moved[t].credit /\ moved'[t].refund = moved[t].refund
        BY <1>0, <2>2, <2>3, <2>8
      <4>2. moved'[t].debit >= moved[t].debit /\ (goal[p] = "debit" => moved'[t].debit > 0)
        BY <1>0, <2>2, <2>3, <2>8 DEF Moves
      <4>3. moved'[t].debit \in Nat
        BY <1>0, <2>2, <2>3, <2>8 DEF Moves
      <4> QED
        BY <2>1, <2>2, <4>1, <4>2, <4>3 DEF Pristine, Orderly
    <3>2. ~ Settles(p, t) /\ ~ Settles(p, t)'
      <4>1. goal'[p] \notin {"settle", "credit", "refund"}
        BY <1>0, <2>0, <2>8, AfterOwn DEF Ended, Advanced, Only, Goals
      <4> QED
        BY <2>8, <4>1 DEF Settles, Verifying
    <3>3. Minds(p, t)'
      <4>1. CASE Ended(p)
        BY <3>2, <4>1 DEF Ended, Only, Minds, Settles
      <4>2. CASE Advanced(p)
        <5>1. PICK g \in Goals : pc'[p] = First(g) /\ goal'[p] = g /\ entity'[p] = entity[p]
          BY <4>2 DEF Advanced, Only
        <5>2. pc'[p] # "update"
          BY <5>1, Firsts
        <5>3. entity'[p].hash => Taken(t)' \/ Over(t)'
          BY <1>0, <2>1, <2>4, <2>8, <3>1, <5>1 DEF Minds, Taken
        <5> QED
          BY <2>0, <3>2, <5>2, <5>3 DEF Minds, Settles
      <4> QED
        BY <2>0, <4>1, <4>2
    <3> QED
      BY <1>0, <2>1, <2>4, <3>1, <3>2, <3>3, OrderlyNext
  <2> QED
    BY <1>0, <2>6, <2>7, <2>8 DEF Moves
<1> QED
  BY <1>1, <1>2 DEF WriteUser

\* A process that looks at a row, to verify or to edit it.
LEMMA OnceLook ==
  ASSUME Typed, Onward, Aware, Once, NEW p \in Procs \ Txs, NEW t \in Txs, Look(p, t),
         pc[p] \in {"idle", "find"}
  PROVE  Once'
<1>0. TypeOK /\ Globals
  BY TypesSplit DEF Typed
<1>1. /\ Only(p, "ask", "settle", row[t], seen[p], known[p]) /\ on' = [on EXCEPT ![p] = t]
      /\ UNCHANGED <<row, kind, moved>> /\ row[t].hash
  BY <1>0, LookDoes DEF Look
<1>2. pc'[p] = "ask" /\ goal'[p] = "settle" /\ on'[p] = t /\ Others(p)
  BY <1>0, <1>1 DEF Only, Others, Globals
<1>3. ASSUME NEW u \in Txs, Clean(u)', Orderly(u)
      PROVE  /\ Minds(p, u)'
             /\ Settles(p, u) /\ Finishing(p) => (Settles(p, u) /\ Finishing(p))'
             /\ Settles(p, u)' => Settles(p, u) \/ Alone(p, u)
  <2>1. ~ Finishing(p)
    BY DEF Finishing
  <2>2. CASE u # t
    BY <1>2, <2>1, <2>2 DEF Minds, Settles
  <2>3. CASE u = t
    <3>1. mishaps'[t] = mishaps[t]
            \cup (IF \E q \in Procs \ {p} : Verifying(q) /\ on[q] = t THEN {"race"} ELSE {})
            \cup (IF row[t].status \in Settled THEN {"again"} ELSE {})
      BY <1>0 DEF Look, Globals
    <3>2. Alone(p, t) /\ ~ Over(t)
      BY <1>3, <2>3, <3>1 DEF Clean, Alone, Settles, Over
    <3>3. ~ \E q \in Procs : Settles(q, t) /\ Finishing(q)
      BY <2>1, <3>2 DEF Alone
    <3>4. Pristine(t) /\ Taken(t)
      BY <1>1, <1>3, <2>3, <3>2, <3>3 DEF Orderly
    <3>5. Pristine(t)' /\ Taken(t)'
      BY <1>1, <3>4 DEF Pristine, Taken
    <3>6. Minds(p, t)'
      BY <1>2, <3>5 DEF Minds
    <3> QED
      BY <2>1, <2>3, <3>2, <3>6
  <2> QED
    BY <2>2, <2>3
<1> QED
  BY <1>1, <1>2, <1>3, OrderlyQuiet

\* A process that goes on, with the hash it had, to a place where it does not save.
LEMMA OnceGoes ==
  ASSUME Typed, Onward, Once, NEW p \in Procs, Others(p), on' = on, UNCHANGED <<row, moved, kind>>,
         ~ Finishing(p), pc[p] \notin {"idle", "find"}, pc'[p] # "update",
         entity'[p].hash = entity[p].hash,
         goal'[p] = goal[p] \/ goal[p] \notin {"debit", "failed"},
         Verifying(p)' => Verifying(p)
  PROVE  Once'
<1>1. ASSUME NEW t \in Txs, Clean(t)', Orderly(t) PROVE Minds(p, t)'
  <2>1. Minds(p, t)
    BY <1>1 DEF Orderly
  <2>2. (Over(t)' <=> Over(t)) /\ (Taken(t)' <=> Taken(t)) /\ (Pristine(t)' <=> Pristine(t))
    BY DEF Over, Taken, Pristine
  <2>3. on'[p] = t => on[p] = t
    OBVIOUS
  <2>4. on[p] = t /\ Verifying(p)' => Pristine(t)' /\ Taken(t)'
    BY <2>1, <2>2 DEF Minds
  <2>5. on[p] = t /\ entity'[p].hash => Taken(t)' \/ Over(t)' \/ (p = t /\ goal'[p] \in {"debit", "failed"})
    BY <2>1, <2>2 DEF Minds
  <2> QED
    BY <2>3, <2>4, <2>5 DEF Minds
<1>2. \A t \in Txs : Settles(p, t)' => Settles(p, t)
  BY DEF Settles
<1> QED
  BY <1>1, <1>2, OrderlyQuiet

LEMMA OnceStep == Typed /\ Honest /\ Aware /\ Once /\ [Next]_vars => Once'
<1> SUFFICES ASSUME Typed, Honest, Aware, Once, [Next]_vars PROVE Once'
  OBVIOUS
<1>0. /\ TypeOK /\ Globals /\ Onward /\ Txs \subseteq Procs /\ Clerks \subseteq Procs
      /\ Checks \subseteq Procs /\ Txs \cap Clerks = {} /\ Txs \cap Checks = {}
      /\ \A t \in Txs : on[t] = t /\ Absent(t) /\ Fitting(t) /\ HonestRow(t)
      /\ \A p \in Procs : on[p] \in Txs /\ Attached(p) /\ Fitting(p) /\ HonestProcess(p)
  BY OnwardStep, TypesSplit, TransactionsAssumption, Parts DEF Typed, Procs, Placed, Aware, Honest
<1>1. ASSUME NEW t \in Txs, (\E k \in Kinds : CheckLimit(t, k)) \/ CheckBalance(t) PROVE Once'
  <2>1. PICK place \in {"persist", "balance", "new"} :
          Only(t, place, "create", entity[t], seen[t], known[t])
    BY <1>0, <1>1, CheckLimitDoes, CheckBalanceDoes
  <2>2. /\ UNCHANGED <<row, on, moved>> /\ pc[t] \in Unpaid
        /\ \A u \in Txs \ {t} : kind'[u] = kind[u]
    BY <1>0, <1>1 DEF CheckLimit, CheckBalance, ghosts, Unpaid, Globals
  <2>3. Others(t) /\ pc'[t] = place /\ goal'[t] = "create" /\ entity'[t] = entity[t]
    BY <1>0, <2>1, <2>2, OthersOnly DEF Only
  \* Nobody holds a hash of a payment that was not made.
  <2>4. ASSUME NEW q \in Procs, on[q] = t PROVE ~ entity[q].hash /\ ~ Verifying(q)
    BY <1>0, <2>2, <2>4 DEF HonestProcess, Sound, Fitting, Fits, Verifying
  <2>5. ~ row[t].hash
    BY <1>0, <2>2 DEF HonestRow, Sound
  <2> SUFFICES ASSUME NEW u \in Txs, Clean(u)' PROVE Orderly(u)'
    BY DEF Once
  <2>6. Orderly(u)
    BY <1>0 DEF Once, Clean, Onward
  <2>7. /\ Over(u)' <=> Over(u)
        /\ Pristine(u)' <=> Pristine(u)
        /\ moved'[u].credit <= 1 /\ moved'[u].refund <= moved'[u].debit /\ row'[u].hash = row[u].hash
    BY <2>2, <2>6 DEF Over, Pristine, Orderly
  <2>8. CASE u # t
    <3>1. /\ Taken(u)' <=> Taken(u)
          /\ Minds(t, u)' /\ ~ Settles(t, u) /\ ~ Settles(t, u)'
      BY <1>0, <2>2, <2>8 DEF Taken, Minds, Settles
    <3> QED
      BY <1>0, <2>3, <2>6, <2>7, <3>1, OrderlyNext
  <2>9. CASE u = t
    <3>1. ASSUME NEW q \in Procs PROVE Minds(q, t)' /\ ~ Settles(q, t)'
      <4>1. CASE q = t
        BY <1>0, <2>3, <2>4, <3>1, <4>1 DEF Minds, Settles, Verifying
      <4>2. CASE q # t
        <5>1. /\ pc'[q] = pc[q] /\ goal'[q] = goal[q] /\ entity'[q] = entity[q]
              /\ seen'[q] = seen[q] /\ on'[q] = on[q] /\ Minds(q, t)
          BY <2>3, <2>6, <2>9, <4>2 DEF Others, Orderly
        <5> QED
          BY <2>4, <2>7, <2>9, <5>1 DEF Minds, Settles, Verifying
      <4> QED
        BY <4>1, <4>2
    <3>2. ~ \E q \in Procs : Settles(q, t) /\ Finishing(q)
      BY <2>4 DEF Settles
    <3>3. ~ Pristine(t)' => Over(t)'
      BY <2>6, <2>7, <2>9, <3>2 DEF Orderly
    <3> QED
      BY <2>5, <2>7, <2>9, <3>1, <3>3 DEF Orderly
  <2> QED
    BY <2>8, <2>9
<1>2. ASSUME NEW t \in Txs, Persist(t) PROVE Once'
  <2>1. /\ Only(t, "pay", "create", Marked(entity[t], "PENDING"), seen[t], known[t])
        /\ row' = [row EXCEPT ![t] = Marked(row[t], "PENDING")]
        /\ UNCHANGED <<on, moved, kind>> /\ pc[t] = "persist"
    BY <1>0, <1>2, PersistDoes DEF Persist
  <2>2. row[t] = NoRow /\ goal[t] = "create"
    BY <1>0, <2>1 DEF Absent, Early, Waiting, Fitting, Fits, Unpaid
  <2>3. /\ Others(t) /\ pc'[t] = "pay" /\ goal'[t] = "create" /\ entity'[t].hash = entity[t].hash
    BY <1>0, <2>1, OthersOnly DEF Only, Marked
  <2> SUFFICES ASSUME NEW u \in Txs, Clean(u)' PROVE Orderly(u)'
    BY DEF Once
  <2>4. Orderly(u) /\ Minds(t, u)
    BY <1>0 DEF Once, Clean, Onward, Orderly
  <2>5. /\ Taken(u)' <=> Taken(u)
        /\ Pristine(u)' <=> Pristine(u)
        /\ moved'[u].credit <= 1 /\ moved'[u].refund <= moved'[u].debit
    BY <2>1, <2>4 DEF Taken, Pristine, Orderly
  <2>6. Over(u) => Over(u)'
    BY <1>0, <1>2, <2>4, OverStays DEF Once
  <2>7. row'[u].hash => row[u].hash
    BY <1>0, <2>1 DEF Globals, Marked
  <2>8. ~ Settles(t, u) /\ ~ Settles(t, u)'
    BY <2>2, <2>3 DEF Settles, Verifying
  <2>9. ~ entity'[t].hash
    BY <1>0, <2>1, <2>3 DEF HonestProcess, Sound, Unpaid
  <2>10. Minds(t, u)'
    BY <2>3, <2>8, <2>9 DEF Minds, Settles
  <2> QED
    BY <1>0, <2>3, <2>4, <2>5, <2>6, <2>7, <2>8, <2>10, OrderlyNext
<1>3. ASSUME NEW t \in Txs, Pay(t) PROVE Once'
  <2>1. PICK g \in {"hash", "debit", "done"} :
          /\ g = CASE kind[t] = "DEPOSIT" -> "hash" [] kind[t] = "WITHDRAW" -> "debit" [] OTHER -> "done"
          /\ Only(t, First(g), g,
                  [status |-> IF g = "done" THEN "SUCCESS" ELSE entity[t].status, hash |-> TRUE],
                  seen[t], known[t])
    BY <1>0, <1>3, PayDoes
  <2>2. UNCHANGED <<row, on, moved, kind>> /\ pc[t] = "pay" /\ goal[t] = "create"
    BY <1>0, <1>3 DEF Pay, Fitting, Fits, Unpaid, ghosts
  <2>3. Others(t) /\ pc'[t] # "update" /\ goal'[t] = g
    BY <1>0, <2>1, <2>2, OthersOnly DEF Only, First
  <2>4. kind'[t] = "WITHDRAW" => goal'[t] = "debit"
    BY <2>1, <2>2, <2>3
  <2>5. \A u \in Txs : Minds(t, u)' /\ ~ Settles(t, u) /\ ~ Settles(t, u)'
    BY <1>0, <2>2, <2>3, <2>4 DEF Minds, Settles, Verifying, Taken
  <2> QED
    BY <1>0, <2>2, <2>3, <2>5, OrderlyQuiet
<1>4. ASSUME NEW t \in Txs, Refuse(t) \/ Notify(t) PROVE Once'
  <2>1. UNCHANGED <<row, moved, kind>> /\ pc[t] \in {"pay", "notify"}
    BY <1>4 DEF Refuse, Notify, ghosts
  <2>2. pc[t] = "notify" => goal[t] = "notify"
    BY <1>0 DEF Fitting, Fits
  <2>3. ~ Finishing(t)
    BY <2>1 DEF Finishing
  <2> QED
    BY <1>0, <1>4, <2>1, <2>2, <2>3, Advances, Throws, OrderlyEnd DEF Refuse, Notify
<1>5. ASSUME NEW t \in Txs, Category(t) PROVE Once'
  <2>1. UNCHANGED <<row, moved, kind>> /\ pc[t] = "category" /\ goal[t] = "category" /\ ~ Finishing(t)
    BY <1>0, <1>5 DEF Category, Fitting, Fits, Finishing
  <2>2. on' = on
    BY <1>0, <1>5, CategoryDoes
  <2>3. CASE Ended(t)
    BY <1>0, <2>1, <2>2, <2>3, OrderlyEnd
  <2>4. CASE Only(t, "select", "category", entity[t], seen[t], known[t])
    <3>1. Others(t) /\ pc'[t] = "select" /\ goal'[t] = goal[t] /\ entity'[t] = entity[t]
      BY <1>0, <2>1, <2>2, <2>4, OthersOnly DEF Only
    <3> QED
      BY <1>0, <2>1, <2>2, <3>1, OnceGoes DEF Verifying
  <2> QED
    BY <1>0, <1>5, <2>3, <2>4, CategoryDoes
<1>6. ASSUME NEW p \in Procs, ReadUser(p) PROVE Once'
  <2>1. /\ Only(p, "write", goal[p], entity[p], seen[p], balance)
        /\ UNCHANGED <<row, moved, kind, on>> /\ pc[p] = "read"
    BY <1>0, <1>6, ReadUserDoes DEF ReadUser, ghosts
  <2>2. Others(p) /\ pc'[p] = "write" /\ goal'[p] = goal[p] /\ entity'[p] = entity[p]
    BY <1>0, <2>1, OthersOnly DEF Only
  <2> QED
    BY <1>0, <2>1, <2>2, OnceGoes DEF Verifying, Finishing
<1>7. ASSUME NEW p \in Procs, WriteUser(p) PROVE Once'
  BY <1>0, <1>7, OnceWrite
<1>8. ASSUME NEW p \in Procs, Select(p) PROVE Once'
  <2>1. /\ Only(p, "update", goal[p], entity[p], row[on[p]], known[p])
        /\ UNCHANGED <<row, moved, kind, on>> /\ pc[p] = "select"
    BY <1>0, <1>8, SelectDoes DEF Select, ghosts
  <2>2. /\ Others(p) /\ pc'[p] = "update" /\ goal'[p] = goal[p] /\ entity'[p] = entity[p]
        /\ seen'[p] = row[on[p]]
    BY <1>0, <2>1, OthersOnly DEF Only
  <2>3. (Verifying(p)' <=> Verifying(p)) /\ (Finishing(p)' <=> Finishing(p))
    BY <2>1, <2>2 DEF Verifying, Finishing
  <2>4. ASSUME NEW t \in Txs, Orderly(t) PROVE Minds(p, t)'
    <3>1. Minds(p, t)
      BY <2>4 DEF Orderly
    <3>2. (Over(t)' <=> Over(t)) /\ (Taken(t)' <=> Taken(t)) /\ (Pristine(t)' <=> Pristine(t))
      BY <2>1 DEF Over, Taken, Pristine
    <3>3. on[p] = t /\ seen'[p].status \in Settled => Over(t)
      BY <2>2 DEF Over
    <3> QED
      BY <2>1, <2>2, <2>3, <3>1, <3>2, <3>3 DEF Minds
  <2>5. \A t \in Txs : Settles(p, t)' <=> Settles(p, t)
    BY <2>1, <2>3 DEF Settles
  <2> QED
    BY <1>0, <2>1, <2>2, <2>3, <2>4, <2>5, OrderlyQuiet
<1>9. ASSUME NEW p \in Procs, Update(p) PROVE Once'
  BY <1>0, <1>9, OnceUpdate
<1>10. ASSUME NEW c \in Clerks, NEW t \in Txs, Verify(c, t) PROVE Once'
  <2>1. c \in Procs \ Txs /\ Look(c, t) /\ pc[c] = "idle"
    BY <1>0, <1>10 DEF Verify, Request
  <2> QED
    BY <1>0, <2>1, OnceLook
<1>11. ASSUME NEW c \in Clerks, NEW t \in Txs, NEW s \in {"CANCELLED", row[t].status}, Edit(c, t, s)
       PROVE  Once'
  <2>1. /\ Only(c, "select", "edit", Marked(row[t], s), seen[c], known[c])
        /\ on' = [on EXCEPT ![c] = t]
    BY <1>0, <1>11, EditDoes
  <2>2. UNCHANGED <<row, moved, kind>> /\ pc[c] = "idle" /\ c \in Procs
    BY <1>0, <1>11 DEF Edit, Request, ghosts
  <2>3. /\ Others(c) /\ pc'[c] = "select" /\ goal'[c] = "edit" /\ entity'[c].hash = row[t].hash
        /\ on'[c] = t
    BY <1>0, <2>1, <2>2 DEF Only, Others, Globals, Marked
  <2>4. ~ Finishing(c) /\ ~ Verifying(c)'
    BY <2>2, <2>3 DEF Finishing, Verifying
  <2>5. ASSUME NEW u \in Txs, Orderly(u) PROVE Minds(c, u)'
    <3>1. (Over(u)' <=> Over(u)) /\ (Taken(u)' <=> Taken(u))
      BY <2>2 DEF Over, Taken
    <3>2. row[u].hash => Taken(u) \/ Over(u)
      BY <2>5 DEF Orderly
    <3> QED
      BY <2>3, <2>4, <3>1, <3>2 DEF Minds
  <2> QED
    BY <1>0, <2>2, <2>3, <2>4, <2>5, OrderlyQuiet DEF Settles
<1>12. ASSUME NEW j \in Jobs, Tick(j) PROVE Once'
  <2>1. /\ pc' = [p \in Procs |-> IF p \in {j} \X Pending THEN "find" ELSE pc[p]]
        /\ \A p \in {j} \X Pending : pc[p] = "idle"
        /\ UNCHANGED <<row, kind, moved, goal, on, entity, seen>>
    <3>1. Pending \subseteq Txs
      BY DEF Pending
    <3> QED
      BY <1>12, <3>1 DEF Tick, ghosts
  <2>2. \A p \in Procs : pc'[p] = pc[p] \/ (pc[p] = "idle" /\ pc'[p] = "find")
    BY <2>1
  <2> SUFFICES ASSUME NEW u \in Txs, Clean(u)' PROVE Orderly(u)'
    BY DEF Once
  <2>3. Orderly(u)
    BY <1>0 DEF Once, Clean, Onward
  <2>4. /\ Over(u)' <=> Over(u)
        /\ Taken(u)' <=> Taken(u)
        /\ Pristine(u)' <=> Pristine(u)
        /\ \A p \in Procs : Settles(p, u)' <=> Settles(p, u)
        /\ \A p \in Procs : Alone(p, u)' <=> Alone(p, u)
    BY <2>1 DEF Over, Taken, Pristine, Settles, Verifying, Alone
  <2>5. \A p \in Procs : Finishing(p)' <=> Finishing(p)
    BY <2>1, <2>2 DEF Finishing
  <2>6. ASSUME NEW p \in Procs PROVE Minds(p, u)'
    <3>1. Minds(p, u) /\ goal'[p] = goal[p] /\ entity'[p] = entity[p] /\ seen'[p] = seen[p] /\ on'[p] = on[p]
      BY <2>1, <2>3 DEF Orderly
    <3> QED
      BY <2>2, <2>4, <2>5, <3>1 DEF Minds, Verifying
  <2>7. UNCHANGED <<row, moved>>
    BY <2>1
  <2> QED
    BY <2>3, <2>4, <2>5, <2>6, <2>7 DEF Orderly
<1>13. ASSUME NEW p \in Checks, Find(p) PROVE Once'
  <2>1. p \in Procs \ Txs /\ on[p] \in Txs /\ pc[p] = "find"
    BY <1>0, <1>13 DEF Find
  <2>2. CASE Look(p, on[p])
    BY <1>0, <2>1, <2>2, OnceLook
  <2>3. CASE End(p) /\ UNCHANGED <<kind, row, chain, balance, ghosts>>
    <3>1. ~ Finishing(p) /\ UNCHANGED <<row, moved, kind>>
      BY <2>1, <2>3 DEF Finishing, ghosts
    <3> QED
      BY <1>0, <2>1, <2>3, <3>1, Ends, OrderlyEnd
  <2> QED
    BY <1>13, <2>2, <2>3 DEF Find
<1>14. ASSUME NEW p \in Procs, NEW answer \in {"PENDING", "SUCCESS", "FAILED"}, Ask(p, answer)
       PROVE  Once'
  <2>1. UNCHANGED <<row, moved, kind, on>> /\ pc[p] = "ask" /\ ~ Finishing(p)
    BY <1>0, <1>14, AskDoes DEF Ask, ghosts, Finishing
  <2>2. CASE Ended(p)
    BY <1>0, <2>1, <2>2, OrderlyEnd
  <2>3. ASSUME NEW g \in {"credit", "refund", "settle"},
               Only(p, First(g), g, Marked(entity[p], answer), seen[p], known[p])
        PROVE  Once'
    <3>1. goal[p] = "settle"
      BY <1>0, <2>1 DEF Fitting, Fits
    <3>2. Others(p) /\ pc'[p] # "update" /\ goal'[p] = g /\ entity'[p].hash = entity[p].hash
      BY <1>0, <2>1, <2>3, OthersOnly DEF Only, First, Marked
    <3> QED
      BY <1>0, <2>1, <3>1, <3>2, OnceGoes DEF Verifying
  <2> QED
    BY <1>0, <1>14, <2>2, <2>3, AskDoes
<1>15. ASSUME NEW p \in Procs, Fail(p) PROVE Once'
  <2>1. UNCHANGED <<row, moved, kind>> /\ pc[p] \notin {"idle", "find"}
    BY <1>15 DEF Fail
  <2>2. on' = on /\ (Ended(p) \/ GaveUp(p))
    BY <1>0, <1>15, Throws DEF Fail
  <2>3. ~ Clean(on[p])'
    <3>1. "fault" \in Troubles /\ on'[p] = on[p]
      BY <2>2 DEF Troubles
    <3>2. "fault" \in mishaps'[on[p]]
      BY <1>0, <1>15, <3>1, MishapTyped DEF Fail
    <3> QED
      BY <2>2, <3>2 DEF Clean
  <2> QED
    BY <1>0, <2>1, <2>2, <2>3, OrderlyEnd
<1>16. CASE UNCHANGED vars
  <2>1. UNCHANGED <<kind, row, pc, goal, on, entity, seen, moved, mishaps>>
    BY <1>16 DEF vars
  <2>2. \A t \in Txs : Orderly(t) => Orderly(t)'
    BY <2>1 DEF Orderly, Settles, Alone, Verifying, Minds, Finishing, Over, Taken, Pristine
  <2> QED
    BY <2>1, <2>2 DEF Once, Clean
<1> QED
  BY StepsSplit, <1>1, <1>2, <1>3, <1>4, <1>5, <1>6, <1>7, <1>8, <1>9, <1>10, <1>11, <1>12, <1>13,
     <1>14, <1>15, <1>16

LEMMA OnceInit == Init => Once
<1> SUFFICES ASSUME Init, NEW t \in Txs PROVE Orderly(t)
  BY DEF Once
<1>1. /\ moved[t].credit = 0 /\ moved[t].refund = 0 /\ moved[t].debit = 0 /\ ~ row[t].hash
  BY DEF Init, Moves, NoRow
<1>2. \A p \in Procs : ~ entity[p].hash /\ goal[p] \in {"create", "none"} /\ pc[p] \in {"new", "idle"}
  BY DEF Init, NoRow
<1>3. \A p \in Procs : Minds(p, t) /\ ~ Settles(p, t)
  BY <1>2 DEF Minds, Settles, Verifying
<1> QED
  BY <1>1, <1>3 DEF Orderly, Pristine

LEMMA OnceAlways == Spec => []Once
  BY OnceInit, OnceStep, TypedAlways, HonestAlways, AwareAlways, PTL DEF Spec

\* However many calls and instances of the job verify, cancel and annotate it at the
\* same time, a deposit is credited, and a withdrawal refunded, twice only by two
\* verifications that overlap, by one of a settled row, after a stale save or after
\* a failure.
THEOREM CreditsAreSingle == Spec => []CreditedOnce
<1>1. Typed /\ Once => CreditedOnce
  <2> SUFFICES ASSUME Typed, Once, NEW t \in Txs, Clean(t)
               PROVE  ~ (moved[t].credit > 1 \/ moved[t].refund > moved[t].debit)
    BY DEF CreditedOnce, Clean
  <2>1. moved[t].credit \in Nat /\ moved[t].refund \in Nat /\ moved[t].debit \in Nat
    BY DEF Typed, TypeOK, Moves
  <2> QED
    BY <2>1 DEF Once, Orderly
<1> QED
  BY <1>1, TypedAlways, OnceAlways, PTL
-----------------------------------------------------------------------------
(***************************************************************************)
(* What the balances have of a transaction, while nothing has gone wrong   *)
(* with it: the call that makes it has taken and given what its place      *)
(* says (Stage), and every copy of the row, in memory or in the table,     *)
(* speaks of a payment that is in the balance, or of one that the process  *)
(* that holds it is about to bring there (Backed, Shown).                  *)
(***************************************************************************)
Smooth(t) == mishaps[t] = {}
Verdict(t) == IF kind[t] = "DEPOSIT" THEN "SUCCESS" ELSE "FAILED"

\* The call has not come to the balance yet.
Undebited(t) == goal[t] \in {"create", "debit"}

Has(t, d, g) == moved[t].debit = d /\ moved[t].gain = g
Bought(t) == Has(t, IF kind[t] = "DEPOSIT" THEN 0 ELSE 1, IF kind[t] = "SWAP" THEN 1 ELSE 0)

\* What the call that makes a transaction has taken and given, by what it does next.
Stage(t) ==
  /\ pc[t] = "new" <=> kind[t] = "NONE"
  /\ goal[t] \in {"create", "hash", "done", "debit", "failed"} => Has(t, 0, 0)
  /\ goal[t] = "hash" => kind[t] = "DEPOSIT"
  /\ goal[t] \in {"done", "gain", "notify"} => kind[t] = "SWAP"
  /\ goal[t] = "debit" => kind[t] \in {"SWAP", "WITHDRAW"}
  /\ goal[t] = "gain" => Has(t, 1, 0)
  /\ goal[t] \in {"notify", "category"} => Bought(t)
  /\ goal[t] = "none" => Bought(t) \/ (Has(t, 0, 0) /\ row[t].status = "FAILED")

\* Whoever says that a deposit succeeded or that a withdrawal failed, or will do so
\* when he has changed the balance for g, says it of a balance that is right by then.
Backed(t, s, g) ==
  /\ kind[t] = "DEPOSIT" /\ s = "SUCCESS" /\ g # "credit" => moved[t].credit = 1
  /\ kind[t] = "WITHDRAW" /\ s = "FAILED" =>
       ~ Undebited(t) /\ (g # "refund" => moved[t].refund = moved[t].debit)

\* What was paid is in the row, or about to come to it.
Shown(t) ==
  ~ Pristine(t) =>
    \/ row[t].status = Verdict(t)
    \/ \E p \in Procs : Settles(p, t) /\ Finishing(p) /\ entity[p].status = Verdict(t)

Swapped(t) == kind[t] = "SWAP" /\ (moved[t].debit > 0 \/ goal[t] = "debit") => row[t].status = "SUCCESS"

\* What a process at work on t knows of it.
Tells(p, t) ==
  on[p] = t /\ goal[p] # "none" =>
    /\ entity[p].status = "NONE" => pc[t] \in Early
    /\ pc[p] = "update" /\ seen[p].status \in Settled => row[t].status = seen[p].status
    /\ (Verifying(p) \/ goal[p] = "failed") /\ p \notin outdated => ~ Over(t)
    /\ Backed(t, entity[p].status, goal[p])

Story(t) ==
  /\ pc[t] \notin Early => row[t].status # "NONE"
  /\ Backed(t, row[t].status, "none")
  /\ Shown(t) /\ Swapped(t) /\ Stage(t)
  /\ \A p \in Procs : Tells(p, t)

Stories == \A t \in Txs : Smooth(t) => Story(t)

LEMMA StatusStays ==
  ASSUME Typed, Aware, [Next]_vars, NEW t \in Txs, Smooth(t)', Story(t), Over(t)
  PROVE  row'[t].status = row[t].status
<1> SUFFICES ASSUME row'[t].status # row[t].status PROVE FALSE
  OBVIOUS
<1>1. PICK p \in Procs :
        /\ Update(p) /\ on[p] = t
        /\ \/ "undone" \in mishaps'[t]
           \/ p \notin outdated /\ goal[p] \in {"settle", "failed"}
  BY OutcomeChanges
<1>2. p \notin outdated /\ goal[p] \in {"settle", "failed"}
  BY <1>1 DEF Smooth
<1>3. Tells(p, t)
  BY DEF Story
<1> QED
  BY <1>1, <1>2, <1>3 DEF Tells, Verifying

\* What a step of p must keep of t.
LEMMA StoryNext ==
  ASSUME NEW p \in Procs, NEW t \in Txs, Story(t), Others(p), kind'[t] = kind[t],
         pc'[t] \in Early <=> pc[t] \in Early,
         Over(t) => row'[t].status = row[t].status,
         pc'[t] \notin Early => row'[t].status # "NONE",
         \A q \in Procs \ {p} : on[q] = t /\ goal[q] # "none" /\ q \notin outdated' =>
           q \notin outdated /\ row'[t].status = row[t].status,
         \A s, g : Backed(t, s, g) => Backed(t, s, g)',
         Backed(t, row[t].status, "none")',
         Shown(t)', Swapped(t)', Stage(t)', Tells(p, t)'
  PROVE  Story(t)'
<1>1. ASSUME NEW q \in Procs, q # p PROVE Tells(q, t)'
  <2>1. /\ pc'[q] = pc[q] /\ goal'[q] = goal[q] /\ entity'[q] = entity[q]
        /\ seen'[q] = seen[q] /\ on'[q] = on[q] /\ Tells(q, t)
    BY <1>1 DEF Others, Story
  <2> SUFFICES ASSUME on[q] = t, goal[q] # "none"
               PROVE  /\ entity[q].status = "NONE" => pc'[t] \in Early
                      /\ pc[q] = "update" /\ seen[q].status \in Settled => row'[t].status = seen[q].status
                      /\ (Verifying(q) \/ goal[q] = "failed") /\ q \notin outdated' => ~ Over(t)'
                      /\ Backed(t, entity[q].status, goal[q])'
    BY <2>1 DEF Tells, Verifying
  <2>2. entity[q].status = "NONE" => pc'[t] \in Early
    BY <2>1 DEF Tells
  <2>3. pc[q] = "update" /\ seen[q].status \in Settled => row'[t].status = seen[q].status
    BY <2>1 DEF Tells, Over
  <2>4. (Verifying(q) \/ goal[q] = "failed") /\ q \notin outdated' => ~ Over(t)'
    BY <1>1, <2>1 DEF Tells, Over
  <2>5. PICK s, g : s = entity[q].status /\ g = goal[q] /\ entity'[q].status = s /\ goal'[q] = g
    BY <2>1
  <2>6. Backed(t, s, g)
    BY <2>1, <2>5 DEF Tells
  <2>7. Backed(t, s, g)'
    BY <2>6
  <2>8. Backed(t, entity[q].status, goal[q])'
    BY <2>5, <2>7 DEF Backed, Undebited
  <2> QED
    BY <2>2, <2>3, <2>4, <2>8
<1> QED
  BY <1>1 DEF Story

LEMMA StageStays ==
  ASSUME NEW t \in Txs, Stage(t), row'[t] = row[t], moved'[t] = moved[t], kind'[t] = kind[t],
         goal'[t] = goal[t], pc'[t] = "new" <=> pc[t] = "new"
  PROVE  Stage(t)'
<1>1. \A d, g : Has(t, d, g)' <=> Has(t, d, g)
  BY DEF Has
<1>2. Bought(t)' <=> Bought(t)
  BY DEF Bought, Has
<1> QED
  BY <1>1, <1>2 DEF Stage

\* A step of p that leaves the row and the money of t alone.
LEMMA StoryCalm ==
  ASSUME NEW p \in Procs, NEW t \in Txs, Story(t), Others(p),
         row'[t] = row[t], moved'[t] = moved[t], kind'[t] = kind[t],
         pc'[t] \in Early <=> pc[t] \in Early, outdated \subseteq outdated' \cup {p},
         Settles(p, t) /\ Finishing(p) =>
           (Settles(p, t) /\ Finishing(p))' /\ entity'[p].status = entity[p].status,
         p = t => /\ Stage(t)' /\ (Undebited(t)' => Undebited(t))
                  /\ goal'[t] = "debit" => goal[t] = "debit" \/ kind[t] # "SWAP",
         Tells(p, t)'
  PROVE  Story(t)'
<1>1. t \in Procs
  BY DEF Procs
<1>2. p # t => goal'[t] = goal[t] /\ pc'[t] = pc[t]
  BY <1>1 DEF Others
<1>3. Stage(t)'
  BY <1>2, StageStays DEF Story
<1>4. Undebited(t)' => Undebited(t)
  BY <1>2 DEF Undebited
<1>5. \A s, g : Backed(t, s, g) => Backed(t, s, g)'
  BY <1>4 DEF Backed
<1>6. Backed(t, row[t].status, "none")'
  <2>1. PICK s : s = row[t].status
    OBVIOUS
  <2>2. Backed(t, s, "none")'
    BY <1>5, <2>1 DEF Story
  <2> QED
    BY <2>1, <2>2 DEF Backed, Undebited
<1>7. Shown(t)'
  <2>1. (Pristine(t)' <=> Pristine(t)) /\ (Verdict(t)' = Verdict(t))
    BY DEF Pristine, Verdict
  <2>2. ASSUME NEW q \in Procs, Settles(q, t), Finishing(q), entity[q].status = Verdict(t)
        PROVE  Settles(q, t)' /\ Finishing(q)' /\ entity'[q].status = Verdict(t)'
    BY <2>1, <2>2 DEF Others, Settles, Finishing, Verifying
  <2> QED
    BY <2>1, <2>2 DEF Story, Shown
<1>8. Swapped(t)'
  BY <1>2 DEF Story, Swapped
<1> QED
  BY <1>3, <1>5, <1>6, <1>7, <1>8, StoryNext DEF Story

LEMMA StoryQuiet ==
  ASSUME NEW p \in Procs, Onward, Stories, Others(p), UNCHANGED <<row, moved, kind>>,
         outdated \subseteq outdated' \cup {p},
         \A t \in Txs : Smooth(t)' /\ Story(t) =>
           /\ Settles(p, t) /\ Finishing(p) =>
                (Settles(p, t) /\ Finishing(p))' /\ entity'[p].status = entity[p].status
           /\ p = t => /\ Stage(t)' /\ (Undebited(t)' => Undebited(t))
                       /\ goal'[t] = "debit" => goal[t] = "debit" \/ kind[t] # "SWAP"
                       /\ pc'[t] \in Early <=> pc[t] \in Early
           /\ Tells(p, t)'
  PROVE  Stories'
<1> SUFFICES ASSUME NEW t \in Txs, Smooth(t)' PROVE Story(t)'
  BY DEF Stories
<1>1. Smooth(t) /\ Story(t)
  BY DEF Stories, Smooth, Onward
<1>2. /\ Settles(p, t) /\ Finishing(p) =>
           (Settles(p, t) /\ Finishing(p))' /\ entity'[p].status = entity[p].status
      /\ p = t => /\ Stage(t)' /\ (Undebited(t)' => Undebited(t))
                  /\ goal'[t] = "debit" => goal[t] = "debit" \/ kind[t] # "SWAP"
                  /\ pc'[t] \in Early <=> pc[t] \in Early
      /\ Tells(p, t)'
  BY <1>1
<1>3. p # t => pc'[t] = pc[t]
  BY DEF Procs, Others
<1>4. pc'[t] \in Early <=> pc[t] \in Early
  BY <1>2, <1>3
<1> QED
  BY <1>1, <1>2, <1>4, StoryCalm

\* A call that has no row yet is the only one to work on it.
LEMMA AloneEarly ==
  ASSUME Typed, Aware, NEW t \in Txs, pc[t] \in Early, NEW q \in Procs, q # t, on[q] = t
  PROVE  goal[q] = "none"
<1>1. q \notin Txs /\ Attached(q) /\ Fitting(q)
  BY DEF Typed, Placed, Aware
<1>2. pc[q] \in {"idle", "find"}
  BY <1>1 DEF Attached
<1> QED
  BY <1>1, <1>2 DEF Fitting, Fits

LEMMA StoryEarly ==
  ASSUME Typed, Onward, Honest, Aware, Stories, NEW t \in Txs, Others(t),
         on' = on, moved' = moved, outdated' = outdated,
         \A u \in Txs \ {t} : row'[u] = row[u] /\ kind'[u] = kind[u],
         pc[t] \in Early, goal'[t] = "create", pc'[t] \in Unpaid,
         Story(t) => (pc'[t] = "new" <=> kind'[t] = "NONE"),
         row'[t].status \in {"NONE", "PENDING"}, entity'[t].status \in {"NONE", "PENDING"},
         pc'[t] \notin Early => row'[t].status = "PENDING" /\ entity'[t].status = "PENDING"
  PROVE  Stories'
<1> SUFFICES ASSUME NEW u \in Txs, Smooth(u)' PROVE Story(u)'
  BY DEF Stories
<1>0. /\ TypeOK /\ Story(u) /\ Txs \subseteq Procs /\ on[t] = t /\ t \in Procs
  BY DEF Typed, Placed, Procs, Stories, Smooth, Onward
<1>1. CASE u # t
  <2>1. pc'[u] = pc[u] /\ ~ Settles(t, u) /\ Tells(t, u)'
    BY <1>0, <1>1 DEF Others, Settles, Tells
  <2> QED
    BY <1>0, <1>1, <2>1, StoryCalm
<1>2. CASE u = t
  <2>1. Fitting(t) /\ HonestRow(t) /\ pc[t] \in Unpaid
    BY <1>0 DEF Aware, Honest, Early, Waiting, Unpaid
  <2>2. goal[t] = "create" /\ chain[t] = "NONE"
    BY <2>1 DEF Fitting, Fits, HonestRow
  <2>3. moved[t].credit \in Nat /\ moved[t].refund \in Nat /\ {"credit", "refund"} \subseteq Moves
    BY <1>0 DEF TypeOK, Moves
  <2>4. Pristine(t) /\ Has(t, 0, 0)
    BY <1>0, <1>2, <2>1, <2>2, <2>3 DEF HonestRow, Deserved, Pristine, Story, Stage
  <2>5. Pristine(t)' /\ Has(t, 0, 0)'
    BY <2>4 DEF Pristine, Has
  <2>6. \A s \in {"NONE", "PENDING"} : \A g : Backed(t, s, g)'
    BY DEF Backed
  <2>7. Tells(t, t)'
    <3>1. Backed(t, entity[t].status, goal[t])'
      BY DEF Backed
    <3>2. pc'[t] # "update" /\ ~ Verifying(t)'
      BY DEF Verifying, Unpaid
    <3> QED
      BY <3>1, <3>2 DEF Tells
  <2>8. ASSUME NEW q \in Procs, q # t PROVE Tells(q, t)'
    BY <2>8, AloneEarly DEF Others, Tells
  <2>9. Stage(t)'
    BY <1>0, <1>2, <2>5 DEF Stage
  <2>10. Shown(t)' /\ Swapped(t)' /\ Backed(t, row[t].status, "none")'
    BY <2>5 DEF Shown, Swapped, Has, Backed
  <2>11. pc'[t] \notin Early => row'[t].status # "NONE"
    OBVIOUS
  <2> QED
    BY <1>2, <2>7, <2>8, <2>9, <2>10, <2>11 DEF Story
<1> QED
  BY <1>1, <1>2

\* A save of p changes no other row, and leaves all behind that work on this one.
LEMMA Leaves ==
  ASSUME Typed, Aware, NEW p \in Procs, Update(p)
  PROVE  /\ row'[on[p]] = Written(entity[p], seen[p], row[on[p]])
         /\ \A u \in Txs \ {on[p]} : row'[u] = row[u]
         /\ outdated \subseteq outdated' \cup {p}
         /\ \A q \in Procs \ {p} : on[q] = on[p] /\ goal[q] # "none" /\ q \notin outdated' =>
              q \notin outdated /\ row'[on[p]].status = row[on[p]].status
<1>0. TypeOK /\ Globals /\ on[p] \in Txs /\ pc[on[p]] \notin Early
  BY TypesSplit, FreshUpdate DEF Typed
<1>1. PICK new :
        /\ new = Written(entity[p], seen[p], row[on[p]])
        /\ row' = [row EXCEPT ![on[p]] = new]
        /\ outdated' \in {Behind(p, new) \ {p}, Behind(p, new)}
  BY <1>0, UpdateDoes
<1>2. row'[on[p]] = new /\ \A u \in Txs \ {on[p]} : row'[u] = row[u]
  BY <1>0, <1>1 DEF Globals
<1>3. outdated \subseteq outdated' \cup {p}
  BY <1>1 DEF Behind
<1>4. ASSUME NEW q \in Procs, q # p, on[q] = on[p], goal[q] # "none", q \notin outdated'
      PROVE  q \notin outdated /\ row'[on[p]].status = row[on[p]].status
  <2>1. Fitting(q) /\ Placed(q)
    BY DEF Aware, Typed
  <2>2. pc[q] \notin {"idle", "new"}
    BY <1>0, <1>4, <2>1 DEF Fitting, Fits, Placed, Unpaid, Early
  <2>3. new = row[on[p]]
    BY <1>1, <1>4, <2>2 DEF Behind
  <2> QED
    BY <1>2, <1>3, <1>4, <2>3
<1> QED
  BY <1>1, <1>2, <1>3, <1>4

LEMMA StoryUpdate ==
  ASSUME Typed, Onward, Aware, Stories, [Next]_vars, NEW p \in Procs, Update(p)
  PROVE  Stories'
<1> SUFFICES ASSUME NEW t \in Txs, Smooth(t)' PROVE Story(t)'
  BY DEF Stories
<1>0. /\ TypeOK /\ on[p] \in Txs /\ pc[p] = "update" /\ Fitting(p) /\ goal[p] \in Goals
      /\ Story(t) /\ Tells(p, t) /\ t \in Procs /\ (p \in Txs => on[p] = p)
  BY Parts DEF Typed, Placed, Aware, Update, Stories, Smooth, Onward, Story, Procs
<1>1. UNCHANGED <<on, moved, kind>> /\ (Ended(p) \/ Advanced(p))
  BY <1>0, UpdateDoes DEF Update
<1>2. Others(p)
  BY <1>1, OthersOnly
<1>3. CASE on[p] # t
  <2>1. ~ Settles(p, t) /\ Tells(p, t)' /\ p # t
    BY <1>0, <1>1, <1>3 DEF Settles, Tells
  <2>2. pc'[t] = pc[t]
    BY <1>0, <1>2, <2>1 DEF Others
  <2>3. row'[t] = row[t] /\ outdated \subseteq outdated' \cup {p}
    BY <1>3, Leaves
  <2> QED
    BY <1>0, <1>1, <1>2, <2>1, <2>2, <2>3, StoryCalm
<1>4. CASE on[p] = t
  <2>1. goal[p] \notin Moves \cup {"none", "create"} /\ entity[p].status # "NONE" /\ pc[t] \notin Early
    <3>1. goal[p] \notin Moves \cup {"none", "create"}
      BY <1>0 DEF Fitting, Fits, Unpaid
    <3>2. pc[t] \notin Early
      BY <1>4, FreshUpdate
    <3> QED
      BY <1>0, <1>4, <3>1, <3>2 DEF Tells
  <2>2. row'[t].status = Column(entity[p].status, seen[p].status, row[t].status)
    <3>1. row'[t] = Written(entity[p], seen[p], row[t])
      BY <1>4, Leaves
    <3>2. Written(entity[p], seen[p], row[t]).status = Column(entity[p].status, seen[p].status, row[t].status)
      BY DEF Written
    <3> QED
      BY <3>1, <3>2
  <2>3. row'[t].status \in {entity[p].status, row[t].status}
    BY <2>2 DEF Column
  <2>4. Over(t) => row'[t].status = row[t].status
    BY <1>0, StatusStays
  \* Its outcome comes to the row.
  <2>5. entity[p].status \in Settled => row'[t].status = entity[p].status
    BY <1>0, <1>4, <2>1, <2>2 DEF Column, Tells
  <2>6. goal'[p] = "none" \/ (/\ goal'[p] = After(goal[p], kind[t]) /\ goal'[p] # "none"
                              /\ pc'[p] # "update" /\ entity'[p] = entity[p])
    BY <1>1, <1>4 DEF Ended, Advanced, Only, First
  <2>7. /\ pc'[p] \notin Early
        /\ goal'[p] # "create" /\ (goal'[p] = "debit" => goal[p] = "done")
        /\ goal'[p] \notin {"settle", "credit", "refund", "failed"}
    <3>1. pc'[p] \notin Early
      BY <1>1, Firsts DEF Ended, Advanced, Only, Early, Waiting
    <3>2. goal'[p] # "create" /\ (goal'[p] = "debit" => goal[p] = "done")
      BY <2>6 DEF After
    <3>3. goal'[p] \notin {"settle", "credit", "refund", "failed"}
      BY <1>0, <2>1, <2>6, AfterOwn DEF Moves
    <3> QED
      BY <3>1, <3>2, <3>3
  <2>8. p = t => kind[t] = "SWAP" \/ ~ Undebited(t)'
    BY <1>0, <2>7 DEF Undebited, Story, Stage
  <2>9. pc'[t] \in Early <=> pc[t] \in Early
    BY <1>0, <1>2, <2>1, <2>7 DEF Others
  <2>10. ASSUME NEW s, NEW g, Backed(t, s, g) PROVE Backed(t, s, g)'
    <3>1. p # t => (Undebited(t)' <=> Undebited(t))
      BY <1>0, <1>2 DEF Others, Undebited
    <3> QED
      BY <1>1, <2>8, <2>10, <3>1 DEF Backed
  <2>11. Backed(t, entity[p].status, "none") /\ Backed(t, row[t].status, "none")
    BY <1>0, <1>4, <2>1 DEF Tells, Backed, Story, Moves
  <2>12. Backed(t, row[t].status, "none")'
    <3>1. PICK s : s = row'[t].status
      OBVIOUS
    <3>2. Backed(t, s, "none")
      BY <2>3, <2>11, <3>1
    <3>3. Backed(t, s, "none")'
      BY <2>10, <3>2
    <3> QED
      BY <3>1, <3>3 DEF Backed, Undebited
  <2>13. Shown(t)'
    <3>1. (Pristine(t)' <=> Pristine(t)) /\ Verdict(t)' = Verdict(t) /\ Verdict(t) \in Settled
      BY <1>1 DEF Pristine, Verdict, Settled
    <3>2. row[t].status = Verdict(t) => row'[t].status = Verdict(t)
      BY <2>4, <3>1 DEF Over
    <3>3. ASSUME NEW q \in Procs, q # p, Settles(q, t), Finishing(q), entity[q].status = Verdict(t)
          PROVE  Settles(q, t)' /\ Finishing(q)' /\ entity'[q].status = Verdict(t)'
      BY <1>2, <3>1, <3>3 DEF Others, Settles, Finishing, Verifying
    <3>4. entity[p].status = Verdict(t) => row'[t].status = Verdict(t)
      BY <2>5, <3>1
    <3> QED
      BY <1>0, <3>1, <3>2, <3>3, <3>4 DEF Story, Shown
  <2>14. Swapped(t)'
    <3>1. SUFFICES ASSUME kind[t] = "SWAP", moved[t].debit > 0 \/ goal'[t] = "debit"
                   PROVE  row'[t].status = "SUCCESS"
      BY <1>1 DEF Swapped
    <3>2. CASE moved[t].debit > 0 \/ goal[t] = "debit"
      BY <1>0, <2>4, <3>1, <3>2 DEF Story, Swapped, Over, Settled
    <3>3. CASE goal'[t] = "debit" /\ goal[t] # "debit"
      <4>1. goal[p] = "done"
        BY <1>0, <1>2, <2>7, <3>3 DEF Others
      <4> QED
        BY <1>0, <2>5, <4>1 DEF Fitting, Fits, Settled
    <3> QED
      BY <3>1, <3>2, <3>3
  <2>15. Stage(t)'
    <3>1. (\A d, g : Has(t, d, g)' <=> Has(t, d, g)) /\ (Bought(t)' <=> Bought(t))
      BY <1>1 DEF Has, Bought
    <3>2. row[t].status = "FAILED" => row'[t].status = "FAILED"
      BY <2>4 DEF Over, Settled
    <3>3. CASE p # t
      <4>1. goal'[t] = goal[t] /\ pc'[t] = pc[t]
        BY <1>0, <1>2, <3>3 DEF Others
      <4> QED
        BY <1>0, <1>1, <3>1, <3>2, <4>1 DEF Story, Stage
    <3>4. CASE p = t
      <4>1. goal[t] \in {"hash", "done", "notify", "category", "failed"}
        BY <1>0, <2>1, <3>4 DEF Goals, Moves, Fitting, Fits
      <4>2. goal'[t] = After(goal[t], kind[t])
        <5>1. CASE Ended(p)
          <6>1. goal'[t] = "none" /\ pc'[t] = "idle"
            BY <3>4, <5>1 DEF Ended, Only
          <6>2. After(goal[p], kind[on[p]]) = "none"
            BY <5>1, <6>1, <3>4, Firsts, <1>0 DEF Update, Go, TypeOK
          <6> QED
            BY <1>4, <3>4, <6>1, <6>2
        <5>2. CASE Advanced(p)
          BY <1>4, <3>4, <5>2 DEF Advanced, Only
        <5> QED
          BY <1>1, <5>1, <5>2
      <4>3. CASE goal[t] = "hash"
        BY <1>0, <1>1, <2>7, <3>1, <3>4, <4>2, <4>3 DEF Story, Stage, After, Bought, Early
      <4>4. CASE goal[t] = "done"
        BY <1>0, <1>1, <2>7, <3>1, <3>4, <4>2, <4>4 DEF Story, Stage, After, Early
      <4>5. CASE goal[t] \in {"notify", "category"}
        BY <1>0, <1>1, <2>7, <3>1, <3>4, <4>2, <4>5 DEF Story, Stage, After, Early
      <4>6. CASE goal[t] = "failed"
        <5>1. row'[t].status = "FAILED"
          BY <1>0, <2>5, <3>4, <4>6 DEF Fitting, Fits, Settled
        <5> QED
          BY <1>0, <1>1, <2>7, <3>1, <3>4, <4>2, <4>6, <5>1 DEF Story, Stage, After, Early
      <4> QED
        BY <4>1, <4>3, <4>4, <4>5, <4>6
    <3> QED
      BY <3>3, <3>4
  <2>16. Tells(p, t)'
    <3>1. CASE goal'[p] = "none"
      BY <3>1 DEF Tells
    <3>2. CASE goal'[p] # "none"
      <4>1. PICK s, g : s = entity[p].status /\ g = goal'[p]
        OBVIOUS
      <4>2. Backed(t, s, g)
        BY <2>7, <2>11, <4>1 DEF Backed
      <4>3. Backed(t, s, g)'
        BY <2>10, <4>2
      <4>4. Backed(t, entity[p].status, goal[p])'
        BY <2>6, <3>2, <4>1, <4>3 DEF Backed, Undebited
      <4> QED
        BY <2>1, <2>6, <2>7, <3>2, <4>4 DEF Tells, Verifying
    <3> QED
      BY <3>1, <3>2
  <2>17. \A q \in Procs \ {p} : on[q] = t /\ goal[q] # "none" /\ q \notin outdated' =>
           q \notin outdated /\ row'[t].status = row[t].status
    BY <1>4, Leaves
  <2>18. row'[t].status # "NONE"
    BY <1>0, <2>1, <2>3 DEF Story
  <2> QED
    BY <1>0, <1>1, <1>2, <2>4, <2>9, <2>10, <2>12, <2>13, <2>14, <2>15, <2>16, <2>17, <2>18, StoryNext
<1> QED
  BY <1>3, <1>4

LEMMA StageBounds ==
  ASSUME Typed, Aware, NEW t \in Txs, Stage(t)
  PROVE  moved[t].debit \in {0, 1} /\ moved[t].gain \in {0, 1}
<1>1. goal[t] \in {"create", "hash", "done", "debit", "gain", "notify", "category", "failed", "none"}
  <2>1. t \in Procs
    BY DEF Procs
  <2>2. goal[t] \in Goals /\ Fitting(t)
    BY <2>1, Parts DEF Typed, Aware
  <2> QED
    BY <2>2 DEF Goals, Moves, Fitting, Fits
<1> QED
  BY <1>1 DEF Stage, Has, Bought

LEMMA StoryWrite ==
  ASSUME Typed, Onward, Honest, Aware, Once, Stories, NEW p \in Procs, WriteUser(p)
  PROVE  Stories'
<1> SUFFICES ASSUME NEW t \in Txs, Smooth(t)' PROVE Story(t)'
  BY DEF Stories
<1>0. /\ TypeOK /\ Globals /\ on[p] \in Txs /\ pc[p] = "write" /\ goal[p] \in Moves
      /\ UNCHANGED <<row, kind>> /\ Deserved(goal[p], on[p]) /\ Fitting(p) /\ (p \in Txs => on[p] = p)
      /\ Story(t) /\ Tells(p, t) /\ Smooth(t) /\ t \in Procs
  BY TypesSplit, Parts DEF Typed, Placed, WriteUser, Honest, HonestProcess, Aware, Stories, Smooth,
     Onward, Story, Procs
<1>1. /\ on' = on /\ (Ended(p) \/ Advanced(p) \/ GaveUp(p)) /\ outdated \subseteq outdated' \cup {p}
  BY <1>0, Advances, Throws DEF WriteUser
<1>2. Others(p)
  BY <1>1, OthersOnly
<1>3. CASE on[p] # t
  <2>1. ~ Settles(p, t) /\ Tells(p, t)' /\ p # t
    BY <1>0, <1>1, <1>3 DEF Settles, Tells
  <2>2. pc'[t] = pc[t]
    BY <1>0, <1>2, <2>1 DEF Others
  <2>3. moved'[t] = moved[t]
    BY <1>0, <1>3 DEF WriteUser, Globals
  <2> QED
    BY <1>0, <1>1, <1>2, <2>1, <2>2, <2>3, StoryCalm
<1>4. CASE on[p] = t
  <2>1. Advance(p) /\ moved' = [moved EXCEPT ![t][goal[p]] = @ + 1]
    <3>1. ASSUME Mishap(t, "short") PROVE FALSE
      <4>1. "short" \in Troubles
        BY DEF Troubles
      <4>2. "short" \in mishaps'[t]
        BY <1>0, <3>1, <4>1, MishapTyped
      <4> QED
        BY <4>2 DEF Smooth
    <3> QED
      BY <1>4, <3>1 DEF WriteUser
  <2>2. moved'[t] = [moved[t] EXCEPT ![goal[p]] = @ + 1] /\ moved[t] \in [Moves -> Nat]
    BY <1>0, <2>1 DEF Globals
  <2>3. PICK g \in Goals : /\ g = After(goal[p], kind[t]) /\ g # "none"
                           /\ pc'[p] = First(g) /\ goal'[p] = g /\ entity'[p] = entity[p]
    <3>1. After(goal[p], kind[t]) # "none"
      BY <1>0 DEF After, Moves
    <3>2. ~ Ended(p)
      BY <1>4, <2>1, <3>1, Firsts DEF Advance, Go, Ended, Only, Typed, TypeOK
    <3> QED
      BY <1>0, <1>4, <2>1, <3>2, Advances DEF Advanced, Only
  <2>4. pc'[t] \in Early <=> pc[t] \in Early
    <3>1. pc[p] \notin Early /\ pc'[p] \notin Early
      BY <1>0, <2>3, Firsts DEF Early, Waiting
    <3> QED
      BY <1>0, <1>2, <3>1 DEF Others
  <2>5. \A q \in Procs \ {p} : Settles(q, t) /\ Finishing(q) /\ entity[q].status = Verdict(t) =>
          Settles(q, t)' /\ Finishing(q)' /\ entity'[q].status = Verdict(t)'
    BY <1>0, <1>2 DEF Others, Settles, Finishing, Verifying, Verdict
  <2>6. pc[t] \notin Early => row'[t].status # "NONE"
    BY <1>0 DEF Story
  \* The call that has made the row.
  <2>7. CASE p = t
    <3>1. goal[t] \in {"debit", "gain"}
      BY <1>0, <2>7 DEF Moves, Fitting, Fits
    <3>2. (Pristine(t)' <=> Pristine(t)) /\ moved'[t].credit = moved[t].credit
          /\ moved'[t].refund = moved[t].refund
      BY <2>2, <2>7, <3>1 DEF Pristine, Moves
    <3>3. /\ goal[t] = "debit" => Has(t, 0, 0) /\ Has(t, 1, 0)'
          /\ goal[t] = "gain" => Has(t, 1, 0) /\ Has(t, 1, 1)'
      BY <1>0, <2>2, <2>7 DEF Has, Story, Stage, Moves
    <3>4. /\ goal[t] = "debit" => kind[t] \in {"SWAP", "WITHDRAW"}
          /\ goal[t] = "gain" => kind[t] = "SWAP"
          /\ g = IF goal[t] = "gain" THEN "notify" ELSE IF kind[t] = "SWAP" THEN "gain" ELSE "category"
      BY <1>0, <2>3, <2>7, <3>1 DEF Story, Stage, After
    <3>5. \A s, f : Backed(t, s, f) => Backed(t, s, f)'
      BY <1>0, <3>1, <3>2, <3>4 DEF Backed, Undebited
    <3>6. Backed(t, row[t].status, "none")'
      <4>1. PICK s : s = row[t].status
        OBVIOUS
      <4>2. Backed(t, s, "none")'
        BY <1>0, <3>5, <4>1 DEF Story
      <4> QED
        BY <1>0, <4>1, <4>2 DEF Backed, Undebited
    <3>7. Shown(t)'
      <4>1. ~ Settles(p, t)
        BY <2>7, <3>1 DEF Settles, Verifying
      <4> QED
        BY <1>0, <2>5, <3>2, <4>1 DEF Story, Shown, Verdict
    <3>8. Swapped(t)'
      <4>1. kind[t] = "SWAP" => row[t].status = "SUCCESS"
        BY <1>0, <3>1, <3>3 DEF Story, Swapped, Stage, Has
      <4> QED
        BY <1>0, <4>1 DEF Swapped
    <3>9. Stage(t)'
      <4>1. pc'[t] # "new" /\ kind[t] # "NONE"
        BY <2>3, <2>7, <3>4, <3>1, Firsts
      <4> QED
        BY <1>0, <2>3, <2>7, <3>1, <3>3, <3>4, <4>1 DEF Stage, Bought
    <3>10. Tells(p, t)'
      <4>1. PICK s : s = entity[p].status
        OBVIOUS
      <4>2. Backed(t, s, goal[p])
        BY <1>0, <1>4, <3>1, <2>7, <4>1 DEF Tells
      <4>3. Backed(t, s, "none")
        BY <3>1, <2>7, <4>2 DEF Backed
      <4>4. Backed(t, s, "none")'
        BY <3>5, <4>3
      <4>5. Backed(t, entity[p].status, goal[p])'
        BY <2>3, <4>1, <4>4 DEF Backed, Undebited
      <4>6. pc'[p] # "update" /\ ~ Verifying(p)' /\ goal'[p] # "failed"
        BY <2>3, <3>4, Firsts DEF Verifying
      <4>7. entity[p].status = "NONE" => pc'[t] \in Early
        BY <1>0, <1>4, <2>4, <3>1, <2>7 DEF Tells
      <4> QED
        BY <2>3, <4>5, <4>6, <4>7 DEF Tells
    <3> QED
      BY <1>0, <1>1, <1>2, <2>4, <2>6, <3>5, <3>6, <3>7, <3>8, <3>9, <3>10, StoryNext
  \* A verification.
  <2>8. CASE p # t
    <3>1. p \notin Txs /\ goal[p] \in {"credit", "refund"} /\ goal'[t] = goal[t] /\ pc'[t] = pc[t]
      BY <1>0, <1>2, <1>4, <2>8 DEF Moves, Fitting, Fits, Others
    <3>2. Pristine(t) /\ Taken(t)
      <4>1. Orderly(t)
        BY <1>0 DEF Once, Clean, Smooth
      <4>2. Minds(p, t) /\ Verifying(p) /\ ~ Finishing(p)
        BY <1>0, <3>1, <4>1 DEF Orderly, Verifying, Finishing
      <4> QED
        BY <1>4, <4>2 DEF Minds
    <3>3. /\ goal[p] = "credit" => kind[t] = "DEPOSIT" /\ entity[p].status = "SUCCESS"
          /\ goal[p] = "refund" => kind[t] = "WITHDRAW" /\ entity[p].status = "FAILED"
      BY <1>0, <1>4 DEF Deserved, Fitting, Fits
    <3>4. moved'[t].debit = moved[t].debit /\ moved'[t].gain = moved[t].gain
      BY <2>2, <3>1 DEF Moves
    <3>5. moved'[t].credit = IF goal[p] = "credit" THEN 1 ELSE 0
      BY <2>2, <3>1, <3>2 DEF Moves, Pristine
    <3>6. moved'[t].refund = IF goal[p] = "refund" THEN 1 ELSE 0
      BY <2>2, <3>1, <3>2 DEF Moves, Pristine
    <3>7. goal[p] = "refund" => moved'[t].debit = 1 /\ ~ Undebited(t)
      <4>1. moved[t].debit \in {0, 1}
        BY <1>0, StageBounds DEF Story
      <4>2. goal[p] = "refund" => moved[t].debit > 0
        BY <3>2, <3>3 DEF Taken
      <4>3. goal[p] = "refund" => ~ Undebited(t)
        BY <1>0, <1>4, <3>3 DEF Tells, Backed
      <4> QED
        BY <3>4, <4>1, <4>2, <4>3
    <3>8. g = "settle" /\ pc'[p] = "select"
      BY <2>3, <3>1 DEF After, First, Moves
    <3>9. \A s, f : Backed(t, s, f) => Backed(t, s, f)'
      BY <1>0, <3>1, <3>3, <3>4, <3>5, <3>6, <3>7 DEF Backed, Undebited
    <3>10. Backed(t, row[t].status, "none")'
      <4>1. PICK s : s = row[t].status
        OBVIOUS
      <4>2. Backed(t, s, "none")'
        BY <1>0, <3>9, <4>1 DEF Story
      <4> QED
        BY <1>0, <4>1, <4>2 DEF Backed, Undebited
    <3>11. Shown(t)'
      <4>1. Settles(p, t)' /\ Finishing(p)'
        BY <1>1, <1>4, <2>3, <3>8 DEF Settles, Finishing, Verifying
      <4>2. entity'[p].status = Verdict(t)'
        BY <1>0, <2>3, <3>1, <3>3 DEF Verdict
      <4> QED
        BY <4>1, <4>2 DEF Shown
    <3>12. Swapped(t)'
      BY <1>0, <3>1, <3>3 DEF Swapped
    <3>13. Stage(t)'
      <4>1. (\A d, f : Has(t, d, f)' <=> Has(t, d, f)) /\ (Bought(t)' <=> Bought(t))
        BY <1>0, <3>4 DEF Has, Bought
      <4> QED
        BY <1>0, <3>1, <4>1 DEF Story, Stage
    <3>14. Tells(p, t)'
      <4>1. Backed(t, entity[p].status, goal[p])'
        BY <1>0, <2>3, <3>1, <3>3, <3>4, <3>5, <3>6, <3>7, <3>8 DEF Backed, Undebited
      <4>2. p \notin outdated' => p \notin outdated
        BY <1>0, <1>4, <2>1, <2>3, <3>8, Advances DEF Ended, Only
      <4>3. Verifying(p) /\ (Over(t)' <=> Over(t))
        BY <1>0, <3>1 DEF Verifying, Over
      <4>4. p \notin outdated' => ~ Over(t)'
        BY <1>0, <1>4, <3>1, <4>2, <4>3 DEF Tells
      <4> QED
        BY <2>3, <3>3, <3>1, <3>8, <4>1, <4>4 DEF Tells
    <3> QED
      BY <1>0, <1>1, <1>2, <2>4, <2>6, <3>9, <3>10, <3>11, <3>12, <3>13, <3>14, StoryNext
  <2> QED
    BY <2>7, <2>8
<1> QED
  BY <1>3, <1>4

\* A process goes on with the goal and the entity it has.
LEMMA StoryGoes ==
  ASSUME NEW p \in Procs, Typed, Onward, Stories, Others(p), UNCHANGED <<row, moved, kind, on>>,
         outdated' = outdated, goal'[p] = goal[p], entity'[p] = entity[p],
         pc[p] \notin Early, pc'[p] \notin Early,
         pc'[p] = "update" => seen'[p] = row[on[p]], Finishing(p) => Finishing(p)'
  PROVE  Stories'
<1> SUFFICES ASSUME NEW t \in Txs, Smooth(t)', Story(t)
             PROVE  /\ Settles(p, t) /\ Finishing(p) =>
                         (Settles(p, t) /\ Finishing(p))' /\ entity'[p].status = entity[p].status
                    /\ p = t => /\ Stage(t)' /\ (Undebited(t)' => Undebited(t))
                                /\ goal'[t] = "debit" => goal[t] = "debit" \/ kind[t] # "SWAP"
                                /\ pc'[t] \in Early <=> pc[t] \in Early
                    /\ Tells(p, t)'
  BY StoryQuiet
<1>1. Settles(p, t)' <=> Settles(p, t)
  BY DEF Settles, Verifying
<1>2. p = t => Stage(t)'
  BY StageStays DEF Story, Early
<1>3. p = t => (Undebited(t)' => Undebited(t))
  BY DEF Undebited
<1>4. Tells(p, t)'
  <2>1. Tells(p, t) /\ (Over(t)' <=> Over(t)) /\ (Verifying(p)' <=> Verifying(p))
    BY DEF Story, Over, Verifying
  <2>2. pc'[t] \in Early <=> pc[t] \in Early
    BY DEF Others, Procs
  <2>3. Undebited(t)' <=> Undebited(t)
    BY DEF Undebited, Others, Procs
  <2>4. Backed(t, entity[p].status, goal[p]) => Backed(t, entity[p].status, goal[p])'
    BY <2>3 DEF Backed
  <2> QED
    BY <2>1, <2>2, <2>4 DEF Tells
<1> QED
  BY <1>1, <1>2, <1>3, <1>4

\* A call that is not one of those that make a row ends, or takes something up.
LEMMA StoryTakes ==
  ASSUME NEW p \in Procs \ Txs, Typed, Onward, Stories, Others(p), UNCHANGED <<row, moved, kind>>,
         outdated \subseteq outdated' \cup {p}, ~ Finishing(p),
         NEW t \in Txs, on'[p] = t,
         Smooth(t)' /\ Story(t) /\ goal'[p] # "none" =>
           /\ entity'[p].status # "NONE" /\ pc'[p] # "update"
           /\ Verifying(p)' /\ p \notin outdated' => ~ Over(t)
           /\ goal'[p] # "failed" /\ Backed(t, entity[p].status, goal[p])'
  PROVE  Stories'
<1> SUFFICES ASSUME NEW u \in Txs, Smooth(u)', Story(u) PROVE Tells(p, u)'
  BY StoryQuiet
<1>1. CASE u # t \/ goal'[p] = "none"
  BY <1>1 DEF Tells
<1>2. CASE u = t /\ goal'[p] # "none"
  <2>1. Over(t)' <=> Over(t)
    BY DEF Over
  <2> QED
    BY <1>2, <2>1 DEF Tells
<1> QED
  BY <1>1, <1>2

LEMMA StoryLook ==
  ASSUME Typed, Onward, Aware, Stories, NEW p \in Procs \ Txs, NEW t \in Txs, Look(p, t),
         pc[p] \in {"idle", "find"}
  PROVE  Stories'
<1>0. TypeOK /\ Globals /\ ~ Finishing(p) /\ t \in Procs
  BY TypesSplit DEF Typed, Finishing, Procs
<1>1. /\ Only(p, "ask", "settle", row[t], seen[p], known[p]) /\ on' = [on EXCEPT ![p] = t]
      /\ UNCHANGED <<row, moved, kind>> /\ outdated' = outdated \ {p}
  BY <1>0, LookDoes DEF Look
<1>2. /\ Others(p) /\ on'[p] = t /\ goal'[p] = "settle" /\ pc'[p] = "ask" /\ entity'[p] = row[t]
      /\ pc'[t] = pc[t] /\ goal'[t] = goal[t]
  BY <1>0, <1>1 DEF Only, Others, Globals
<1>3. ASSUME Smooth(t)' PROVE ~ Over(t)
  <2> SUFFICES ASSUME Over(t) PROVE FALSE
    OBVIOUS
  <2> DEFINE races == IF \E q \in Procs \ {p} : Verifying(q) /\ on[q] = t THEN {"race"} ELSE {}
  <2>1. mishaps' = [mishaps EXCEPT ![t] = mishaps[t] \cup races
                      \cup (IF row[t].status \in Settled THEN {"again"} ELSE {})]
    BY DEF Look
  <2> HIDE DEF races
  <2>2. "again" \in mishaps'[t]
    BY <1>0, <2>1 DEF Globals, Over
  <2> QED
    BY <1>3, <2>2 DEF Smooth
<1>4. ASSUME Story(t) PROVE row[t].status # "NONE" /\ Backed(t, entity[p].status, goal[p])'
  <2>1. row[t].status # "NONE"
    <3>1. row[t].hash
      BY DEF Look
    <3>2. pc[t] \notin Early
      BY <3>1 DEF Aware, Absent, NoRow
    <3> QED
      BY <1>4, <3>2 DEF Story
  <2>2. Backed(t, row[t].status, "settle")
    BY <1>4 DEF Story, Backed
  <2> QED
    BY <1>1, <1>2, <2>1, <2>2 DEF Backed, Undebited
<1> QED
  BY <1>0, <1>1, <1>2, <1>3, <1>4, StoryTakes

\* A call that makes a row, and is with its payment or after it.
LEMMA StoryCreates ==
  ASSUME NEW t \in Txs, Typed, Onward, Stories, Others(t), UNCHANGED <<row, moved, kind, on>>,
         outdated \subseteq outdated' \cup {t}, ~ Verifying(t), ~ Verifying(t)',
         pc[t] \notin Early, pc'[t] \notin Early \cup {"update"},
         goal'[t] = "debit" => kind[t] # "SWAP", goal'[t] \in {"create", "debit"} => Undebited(t),
         Smooth(t)' /\ Story(t) =>
           /\ Stage(t)'
           /\ goal'[t] # "none" =>
                /\ entity'[t].status # "NONE" /\ Backed(t, entity[t].status, goal[t])'
                /\ goal'[t] = "failed" /\ t \notin outdated' => ~ Over(t)
  PROVE  Stories'
<1>0. t \in Procs
  BY DEF Procs
<1> SUFFICES ASSUME NEW u \in Txs, Smooth(u)', Story(u)
             PROVE  /\ t = u => Stage(t)'
                    /\ Tells(t, u)'
  BY <1>0, StoryQuiet DEF Settles, Undebited
<1>1. CASE u = t
  <2>1. Over(t)' <=> Over(t)
    BY DEF Over
  <2> QED
    BY <1>1, <2>1 DEF Tells
<1>2. CASE u # t
  BY <1>2 DEF Tells, Typed, Placed, Procs
<1> QED
  BY <1>1, <1>2

LEMMA StoryPays ==
  ASSUME Typed, Onward, Honest, Aware, Stories, NEW t \in Txs, Pay(t) \/ Refuse(t)
  PROVE  Stories'
<1>0. /\ TypeOK /\ t \in Procs /\ on[t] = t /\ Fitting(t) /\ Fresh(t) /\ HonestRow(t) /\ pc[t] = "pay"
      /\ kind[t] \in Kinds \cup {"NONE"} /\ entity[t] \in Rows
  BY Parts DEF Typed, Placed, Procs, Aware, Honest, Pay, Refuse, TypeOK
<1>1. /\ goal[t] = "create" /\ entity[t].status \notin Settled /\ chain[t] = "NONE"
      /\ pc[t] \notin Early
  BY <1>0 DEF Fitting, Fits, HonestRow, Unpaid, Early, Waiting
<1>2. UNCHANGED <<row, on, moved, kind>>
  BY <1>0, Throws DEF Pay, Refuse, ghosts
<1>3. ASSUME Story(t) PROVE Has(t, 0, 0)' /\ entity[t].status # "NONE" /\ kind[t] # "NONE"
  BY <1>0, <1>1, <1>2, <1>3 DEF Story, Stage, Has, Tells
<1>4. CASE Pay(t)
  <2>1. PICK g \in {"hash", "debit", "done"} :
          /\ g = CASE kind[t] = "DEPOSIT" -> "hash" [] kind[t] = "WITHDRAW" -> "debit" [] OTHER -> "done"
          /\ Only(t, First(g), g,
                  [status |-> IF g = "done" THEN "SUCCESS" ELSE entity[t].status, hash |-> TRUE],
                  seen[t], known[t])
    BY <1>0, <1>4, PayDoes
  <2>2. outdated' = outdated /\ Others(t)
    BY <1>0, <1>2, <1>4, <2>1, OthersOnly DEF Pay
  <2>3. /\ pc'[t] = First(g) /\ goal'[t] = g
        /\ entity'[t].status = IF g = "done" THEN "SUCCESS" ELSE entity[t].status
    BY <2>1 DEF Only
  <2>4. First(g) \notin Early \cup {"update", "new"}
    BY <2>1 DEF First, Early, Waiting, Moves
  <2>5. /\ g = "hash" => kind[t] = "DEPOSIT"
        /\ g = "debit" => kind[t] = "WITHDRAW"
        /\ g = "done" => kind[t] \notin {"DEPOSIT", "WITHDRAW"}
    BY <2>1
  <2>6. ASSUME Story(t)
        PROVE  /\ Stage(t)' /\ entity'[t].status # "NONE"
               /\ Backed(t, entity[t].status, goal[t])'
    <3>1. g = "done" => kind[t] = "SWAP"
      BY <1>0, <1>3, <2>5, <2>6, TransactionsAssumption
    <3>2. Stage(t)'
      BY <1>2, <1>3, <2>3, <2>4, <2>5, <2>6, <3>1 DEF Stage
    <3>3. Backed(t, entity[t].status, goal[t])'
      BY <1>1, <1>2, <2>3, <2>5, <3>1 DEF Backed, Settled
    <3> QED
      BY <1>3, <2>3, <2>6, <3>2, <3>3
  <2> QED
    BY <1>1, <1>2, <2>2, <2>3, <2>4, <2>5, <2>6, StoryCreates DEF Verifying, Undebited
<1>5. CASE Refuse(t)
  <2>1. GaveUp(t) /\ outdated' = outdated
    <3>1. ~ Ended(t)
      BY <1>0, <1>1, <1>5 DEF Refuse, Throw, Go, Ended, Only, Typed, TypeOK
    <3> QED
      BY <1>0, <1>5, <3>1, Throws DEF Refuse
  <2>2. pc'[t] = "select" /\ goal'[t] = "failed" /\ entity'[t].status = "FAILED" /\ Others(t)
    BY <1>0, <1>2, <2>1, OthersOnly DEF GaveUp, Only, Failing
  <2>3. moved[t].refund = 0
    <3>1. moved[t].refund \in Nat /\ "refund" \in Moves
      BY <1>0 DEF TypeOK, Moves
    <3> QED
      BY <1>0, <1>1, <3>1 DEF HonestRow, Deserved
  <2>4. t \notin outdated => ~ Over(t)
    <3>1. "create" \in Own
      BY DEF Own, Goals
    <3> QED
      BY <1>0, <1>1, <3>1 DEF Fresh, Agrees, Over
  <2>5. ASSUME Story(t) PROVE Stage(t)' /\ Backed(t, entity[t].status, goal[t])'
    <3>1. Stage(t)'
      BY <1>2, <1>3, <2>2, <2>5 DEF Stage
    <3>2. Backed(t, entity[t].status, goal[t])'
      BY <1>2, <1>3, <2>2, <2>3, <2>5 DEF Backed, Undebited, Has
    <3> QED
      BY <3>1, <3>2
  <2>6. "select" \notin Early
    BY DEF Early, Waiting
  <2> QED
    BY <1>1, <1>2, <2>1, <2>2, <2>4, <2>5, <2>6, StoryCreates DEF Verifying
<1> QED
  BY <1>4, <1>5

\* A call goes to its category, or ends there.
LEMMA StoryCategory ==
  ASSUME Typed, Onward, Aware, Stories, NEW t \in Txs, Notify(t) \/ Category(t)
  PROVE  Stories'
<1>0. /\ TypeOK /\ t \in Procs /\ on[t] = t /\ Fitting(t) /\ goal[t] \in Goals
      /\ UNCHANGED <<row, moved, kind>>
  BY Parts DEF Typed, Placed, Procs, Aware, Notify, Category, ghosts
<1>1. pc[t] \in {"notify", "category"} /\ goal[t] = pc[t] /\ pc[t] \notin Early
  BY <1>0 DEF Notify, Category, Fitting, Fits, Early, Waiting
<1>2. ASSUME Story(t)
      PROVE  Bought(t) /\ Bought(t)' /\ kind[t] # "NONE" /\ entity[t].status # "NONE"
  BY <1>0, <1>1, <1>2 DEF Story, Stage, Bought, Has, Tells
<1>3. \/ Ended(t) /\ on' = on /\ outdated' = outdated \ {t}
      \/ /\ Only(t, pc'[t], "category", entity[t], seen[t], known[t]) /\ on' = on
         /\ outdated' = outdated /\ pc'[t] \in {"select", "category"}
  <2>1. CASE Category(t)
    <3>1. Only(t, "select", "category", entity[t], seen[t], known[t]) => pc'[t] = "select"
      BY DEF Only
    <3> QED
      BY <1>0, <2>1, <3>1, CategoryDoes
  <2>2. CASE Notify(t)
    <3>1. on' = on /\ ((Ended(t) /\ outdated' = outdated \ {t}) \/ (Advanced(t) /\ outdated' = outdated))
      BY <1>0, <2>2, Advances DEF Notify
    <3>2. ASSUME Advanced(t)
          PROVE  Only(t, pc'[t], "category", entity[t], seen[t], known[t]) /\ pc'[t] = "category"
      <4>1. PICK g \in Goals : /\ g = After(goal[t], kind[on[t]])
                               /\ Only(t, First(g), g, entity[t], seen[t], known[t])
        BY <3>2 DEF Advanced
      <4>2. pc[t] = "notify"
        BY <2>2 DEF Notify
      <4>3. g = "category" /\ First(g) = "category"
        BY <1>1, <4>1, <4>2 DEF After, First, Moves
      <4> QED
        BY <4>1, <4>3 DEF Only
    <3> QED
      BY <3>1, <3>2
  <2> QED
    BY <2>1, <2>2
<1>4. Others(t) /\ pc'[t] \notin Early \cup {"new", "update"} /\ ~ Verifying(t) /\ ~ Verifying(t)'
      /\ goal'[t] \in {"none", "category"} /\ UNCHANGED <<row, moved, kind, on>>
      /\ outdated \subseteq outdated' \cup {t}
      /\ (goal'[t] # "none" => entity'[t] = entity[t])
  BY <1>0, <1>1, <1>3, OthersOnly DEF Ended, Only, Early, Waiting, Verifying
<1>5. ASSUME Story(t)
      PROVE  Stage(t)' /\ (goal'[t] # "none" => entity'[t].status # "NONE" /\ Backed(t, entity[t].status, goal[t])')
  <2>1. Stage(t)'
    BY <1>2, <1>4, <1>5 DEF Stage
  <2>2. ASSUME goal'[t] # "none" PROVE Backed(t, entity[t].status, goal[t])'
    <3>1. Backed(t, entity[t].status, goal[t])
      BY <1>0, <1>1, <1>5 DEF Story, Tells
    <3> QED
      BY <1>1, <1>4, <2>2, <3>1 DEF Backed, Undebited
  <2> QED
    BY <1>2, <1>4, <1>5, <2>1, <2>2
<1> QED
  BY <1>1, <1>4, <1>5, StoryCreates

LEMMA StoryAsk ==
  ASSUME Typed, Onward, Honest, Aware, Once, Stories, NEW p \in Procs,
         NEW answer \in {"PENDING", "SUCCESS", "FAILED"}, Ask(p, answer)
  PROVE  Stories'
<1>0. /\ TypeOK /\ on[p] \in Txs /\ Fitting(p) /\ pc[p] = "ask" /\ chain[on[p]] # "PENDING"
      /\ UNCHANGED <<row, moved, kind>>
  BY Parts DEF Typed, Aware, Ask, TypeOK, ghosts
<1>1. goal[p] = "settle" /\ p \notin Txs /\ Verifying(p) /\ ~ Finishing(p)
  BY <1>0 DEF Fitting, Fits, Verifying, Finishing
<1>2. on' = on
  BY <1>0, AskDoes
<1>3. CASE Ended(p)
  <2>1. Others(p) /\ goal'[p] = "none" /\ outdated \subseteq outdated' \cup {p}
    BY <1>0, <1>2, <1>3, OthersOnly, AskDoes DEF Ended, Only
  <2> QED
    BY <1>0, <1>1, <1>2, <2>1, StoryTakes
<1>4. ASSUME NEW g \in {"credit", "refund", "settle"},
             answer = chain[on[p]], outdated' = outdated,
             g = "credit" <=> answer = "SUCCESS" /\ kind[on[p]] = "DEPOSIT",
             g = "refund" <=> answer = "FAILED" /\ kind[on[p]] = "WITHDRAW",
             Only(p, First(g), g, Marked(entity[p], answer), seen[p], known[p])
      PROVE  Stories'
  <2>1. /\ Others(p) /\ goal'[p] = g /\ pc'[p] # "update" /\ entity'[p].status = answer
    BY <1>0, <1>2, <1>4, OthersOnly DEF Only, First, Marked
  <2>2. PICK t \in Txs : t = on[p] /\ t = on'[p]
    BY <1>0, <1>2
  <2>3. ASSUME Smooth(t)', Story(t)
        PROVE  (p \notin outdated => ~ Over(t)) /\ Backed(t, entity[p].status, goal[p])'
    <3>1. Tells(p, t) /\ Stage(t) /\ Smooth(t)
      BY <2>3 DEF Story, Onward, Smooth
    <3>2. p \notin outdated => ~ Over(t)
      BY <1>1, <2>2, <3>1 DEF Tells
    <3>3. Taken(t)
      <4>1. Minds(p, t)
        BY <3>1 DEF Once, Clean, Smooth, Orderly
      <4> QED
        BY <1>1, <2>2, <4>1 DEF Minds
    <3>4. kind[t] = "WITHDRAW" => ~ Undebited(t)
      BY <3>1, <3>3 DEF Taken, Stage, Has, Undebited
    <3>5. Undebited(t)' <=> Undebited(t)
      BY <1>1, <2>1 DEF Undebited, Others, Procs
    <3>6. Backed(t, answer, g)'
      BY <1>0, <1>4, <2>2, <3>4, <3>5 DEF Backed
    <3>7. Backed(t, entity[p].status, goal[p])'
      BY <2>1, <3>6 DEF Backed, Undebited
    <3> QED
      BY <3>2, <3>7
  <2> QED
    BY <1>0, <1>1, <1>4, <2>1, <2>2, <2>3, StoryTakes
<1> QED
  BY <1>0, <1>3, <1>4, AskDoes

LEMMA StoryStarts ==
  ASSUME Typed, Onward, Honest, Aware, Stories, NEW t \in Txs,
         (\E k \in Kinds : CheckLimit(t, k)) \/ CheckBalance(t) \/ Persist(t)
  PROVE  Stories'
<1>0. /\ TypeOK /\ Globals /\ t \in Procs /\ on[t] = t /\ Fitting(t) /\ Absent(t)
      /\ entity[t] \in Rows /\ row[t] \in Rows /\ pc[t] \in Early \cap Unpaid
  BY TypesSplit, Parts DEF Typed, Placed, Procs, Aware, TypeOK, CheckLimit, CheckBalance, Persist,
     Early, Waiting, Unpaid
<1>1. /\ row[t] = NoRow /\ entity[t].status \in {"NONE", "PENDING"}
      /\ UNCHANGED <<on, moved, outdated>>
  <2>1. entity[t].status \in Statuses
    BY <1>0 DEF Rows
  <2>2. entity[t].status \notin Settled
    BY <1>0 DEF Fitting, Fits
  <2>3. row[t] = NoRow
    BY <1>0 DEF Absent
  <2>4. UNCHANGED <<on, moved, outdated>>
    BY DEF CheckLimit, CheckBalance, Persist, ghosts
  <2> QED
    BY <2>1, <2>2, <2>3, <2>4 DEF Statuses, Settled
<1>2. CASE (\E k \in Kinds : CheckLimit(t, k)) \/ CheckBalance(t)
  <2>1. PICK place \in {"persist", "balance", "new"} :
          Only(t, place, "create", entity[t], seen[t], known[t])
    BY <1>0, <1>2, CheckLimitDoes, CheckBalanceDoes
  <2>2. row' = row /\ \A u \in Txs \ {t} : kind'[u] = kind[u]
    BY <1>0, <1>2 DEF CheckLimit, CheckBalance, Globals
  <2>3. /\ Others(t) /\ pc'[t] = place /\ goal'[t] = "create" /\ entity'[t] = entity[t]
        /\ place \in Early /\ place \in Unpaid
    BY <1>0, <1>1, <2>1, OthersOnly DEF Only, Early, Waiting, Unpaid
  <2>4. Story(t) => (pc'[t] = "new" <=> kind'[t] = "NONE")
    <3>1. CASE CheckBalance(t)
      <4>1. Story(t) => kind[t] # "NONE"
        BY <3>1 DEF CheckBalance, Story, Stage
      <4>2. \/ pc' = [pc EXCEPT ![t] = "persist"] /\ kind' = kind
            \/ pc' = [pc EXCEPT ![t] = "new"] /\ kind' = [kind EXCEPT ![t] = "NONE"]
        BY <3>1 DEF CheckBalance, Go
      <4> QED
        BY <1>0, <4>1, <4>2 DEF TypeOK
    <3>2. ASSUME NEW k \in Kinds, CheckLimit(t, k) PROVE pc'[t] # "new" /\ kind'[t] # "NONE"
      <4>1. /\ kind' = [kind EXCEPT ![t] = k]
            /\ pc' = [pc EXCEPT ![t] = IF k = "DEPOSIT" THEN "persist" ELSE "balance"]
        BY <3>2 DEF CheckLimit, Go
      <4>2. k # "NONE"
        BY TransactionsAssumption
      <4> QED
        BY <1>0, <4>1, <4>2 DEF TypeOK
    <3> QED
      BY <1>2, <3>1, <3>2
  <2>5. row'[t].status \in {"NONE", "PENDING"}
    BY <1>1, <2>2 DEF NoRow
  <2> QED
    BY <1>0, <1>1, <2>2, <2>3, <2>4, <2>5, StoryEarly
<1>3. CASE Persist(t)
  <2>1. /\ Only(t, "pay", "create", Marked(entity[t], "PENDING"), seen[t], known[t])
        /\ row' = [row EXCEPT ![t] = Marked(row[t], "PENDING")] /\ kind' = kind /\ pc[t] = "persist"
    BY <1>0, <1>3, PersistDoes DEF Persist
  <2>2. /\ Others(t) /\ pc'[t] = "pay" /\ goal'[t] = "create" /\ entity'[t].status = "PENDING"
    BY <1>0, <1>1, <2>1, OthersOnly DEF Only, Marked
  <2>3. row'[t].status = "PENDING" /\ \A u \in Txs \ {t} : row'[u] = row[u]
    BY <1>0, <2>1 DEF Globals, Marked
  <2>4. Story(t) => (pc'[t] = "new" <=> kind'[t] = "NONE")
    BY <2>1, <2>2 DEF Story, Stage
  <2>5. "pay" \in Unpaid
    BY DEF Unpaid
  <2> QED
    BY <1>0, <1>1, <2>1, <2>2, <2>3, <2>4, <2>5, StoryEarly
<1> QED
  BY <1>2, <1>3

LEMMA StoryTick ==
  ASSUME Typed, Onward, Stories, NEW j \in Jobs, Tick(j)
  PROVE  Stories'
<1>1. /\ pc' = [p \in Procs |-> IF p \in {j} \X Pending THEN "find" ELSE pc[p]]
      /\ \A p \in {j} \X Pending : pc[p] = "idle" /\ p \notin Txs
      /\ UNCHANGED <<row, kind, moved, goal, on, entity, seen, outdated>>
  <2>1. Pending \subseteq Txs /\ {j} \X Pending \subseteq Checks
    BY DEF Pending, Checks
  <2> QED
    BY <2>1, TransactionsAssumption DEF Tick, ghosts
<1>2. \A p \in Procs : pc'[p] = pc[p] \/ (pc[p] = "idle" /\ pc'[p] = "find" /\ p \notin Txs)
  BY <1>1
<1> SUFFICES ASSUME NEW t \in Txs, Smooth(t)' PROVE Story(t)'
  BY DEF Stories
<1>3. Story(t) /\ pc'[t] = pc[t]
  BY <1>2 DEF Stories, Smooth, Onward, Procs
<1>4. /\ \A s, g : Backed(t, s, g)' <=> Backed(t, s, g)
      /\ Pristine(t)' <=> Pristine(t)
      /\ Verdict(t)' = Verdict(t)
      /\ Swapped(t)' <=> Swapped(t)
      /\ \A p \in Procs : Settles(p, t)' <=> Settles(p, t)
      /\ Over(t)' <=> Over(t)
  BY <1>1 DEF Backed, Undebited, Pristine, Verdict, Swapped, Settles, Verifying, Over
<1>5. \A p \in Procs : Finishing(p)' <=> Finishing(p)
  BY <1>1, <1>2 DEF Finishing
<1>6. Shown(t)'
  <2>1. entity' = entity /\ row' = row
    BY <1>1
  <2> QED
    BY <1>3, <1>4, <1>5, <2>1 DEF Story, Shown
<1>7. Stage(t)'
  BY <1>1, <1>3, StageStays DEF Story
<1>8. ASSUME NEW p \in Procs PROVE Tells(p, t)'
  <2>1. /\ Tells(p, t) /\ goal'[p] = goal[p] /\ entity'[p] = entity[p] /\ seen'[p] = seen[p]
        /\ on'[p] = on[p] /\ outdated' = outdated /\ row' = row
    BY <1>1, <1>3 DEF Story
  <2>2. Backed(t, entity[p].status, goal[p])' <=> Backed(t, entity[p].status, goal[p])
    BY <1>1 DEF Backed, Undebited
  <2> QED
    BY <1>2, <1>3, <1>4, <2>1, <2>2 DEF Tells, Verifying
<1>9. Backed(t, row[t].status, "none")'
  BY <1>1, <1>3 DEF Story, Backed, Undebited
<1>10. pc'[t] \notin Early => row'[t].status # "NONE"
  BY <1>1, <1>3 DEF Story
<1> QED
  BY <1>3, <1>4, <1>6, <1>7, <1>8, <1>9, <1>10 DEF Story

\* What fails has gone wrong.
LEMMA StoryFails ==
  ASSUME Typed, Onward, Stories, NEW p \in Procs, Fail(p)
  PROVE  Stories'
<1>0. TypeOK /\ Globals /\ on[p] \in Txs /\ (p \in Txs => on[p] = p)
  BY TypesSplit, Parts DEF Typed, Placed
<1>1. /\ on' = on /\ (Ended(p) \/ GaveUp(p)) /\ outdated \subseteq outdated' \cup {p}
      /\ UNCHANGED <<row, moved, kind>>
  BY <1>0, Throws DEF Fail
<1>2. "fault" \in mishaps'[on[p]]
  <2>1. "fault" \in Troubles
    BY DEF Troubles
  <2> QED
    BY <1>0, <2>1, MishapTyped DEF Fail
<1> SUFFICES ASSUME NEW t \in Txs, Smooth(t)'
             PROVE  /\ ~ Settles(p, t) /\ p # t
                    /\ Tells(p, t)'
  BY <1>1, OthersOnly, StoryQuiet
<1>3. on[p] # t
  BY <1>2 DEF Smooth
<1> QED
  BY <1>0, <1>1, <1>3 DEF Settles, Tells

LEMMA StoryStep == Typed /\ Honest /\ Aware /\ Once /\ Stories /\ [Next]_vars => Stories'
<1> SUFFICES ASSUME Typed, Honest, Aware, Once, Stories, [Next]_vars PROVE Stories'
  OBVIOUS
<1>0. /\ TypeOK /\ Globals /\ Onward /\ Txs \subseteq Procs /\ Clerks \subseteq Procs
      /\ Checks \subseteq Procs /\ Txs \cap Clerks = {} /\ Txs \cap Checks = {}
      /\ \A p \in Procs : on[p] \in Txs /\ Fitting(p)
  BY OnwardStep, TypesSplit, TransactionsAssumption, Parts DEF Typed, Procs, Aware
<1>1. ASSUME NEW t \in Txs, (\E k \in Kinds : CheckLimit(t, k)) \/ CheckBalance(t) \/ Persist(t)
      PROVE  Stories'
  BY <1>0, <1>1, StoryStarts
<1>2. ASSUME NEW t \in Txs, Pay(t) \/ Refuse(t) PROVE Stories'
  BY <1>0, <1>2, StoryPays
<1>3. ASSUME NEW t \in Txs, Notify(t) \/ Category(t) PROVE Stories'
  BY <1>0, <1>3, StoryCategory
<1>4. ASSUME NEW p \in Procs, ReadUser(p) PROVE Stories'
  <2>1. /\ Only(p, "write", goal[p], entity[p], seen[p], balance)
        /\ UNCHANGED <<row, moved, kind, on, outdated>> /\ pc[p] = "read"
    BY <1>0, <1>4, ReadUserDoes DEF ReadUser, ghosts
  <2>2. Others(p) /\ pc'[p] = "write" /\ goal'[p] = goal[p] /\ entity'[p] = entity[p]
    BY <1>0, <2>1, OthersOnly DEF Only
  <2> QED
    BY <1>0, <2>1, <2>2, StoryGoes DEF Finishing, Early, Waiting
<1>5. ASSUME NEW p \in Procs, WriteUser(p) PROVE Stories'
  BY <1>0, <1>5, StoryWrite
<1>6. ASSUME NEW p \in Procs, Select(p) PROVE Stories'
  <2>1. /\ Only(p, "update", goal[p], entity[p], row[on[p]], known[p])
        /\ UNCHANGED <<row, moved, kind, on, outdated>> /\ pc[p] = "select"
    BY <1>0, <1>6, SelectDoes DEF Select, ghosts
  <2>2. /\ Others(p) /\ pc'[p] = "update" /\ goal'[p] = goal[p] /\ entity'[p] = entity[p]
        /\ seen'[p] = row[on[p]]
    BY <1>0, <2>1, OthersOnly DEF Only
  <2> QED
    BY <1>0, <2>1, <2>2, StoryGoes DEF Finishing, Early, Waiting
<1>7. ASSUME NEW p \in Procs, Update(p) PROVE Stories'
  BY <1>0, <1>7, StoryUpdate
<1>8. ASSUME NEW c \in Clerks, NEW t \in Txs, Verify(c, t) PROVE Stories'
  <2>1. c \in Procs \ Txs /\ Look(c, t) /\ pc[c] = "idle"
    BY <1>0, <1>8 DEF Verify, Request
  <2> QED
    BY <1>0, <2>1, StoryLook
<1>9. ASSUME NEW c \in Clerks, NEW t \in Txs, NEW s \in {"CANCELLED", row[t].status}, Edit(c, t, s)
      PROVE  Stories'
  <2>1. /\ Only(c, "select", "edit", Marked(row[t], s), seen[c], known[c])
        /\ on' = [on EXCEPT ![c] = t]
    BY <1>0, <1>9, EditDoes
  <2>2. /\ UNCHANGED <<row, moved, kind>> /\ pc[c] = "idle" /\ c \in Procs \ Txs
        /\ outdated \subseteq outdated' \cup {c} /\ row[t].status # "NONE" /\ ~ Finishing(c)
    BY <1>0, <1>9 DEF Edit, Request, ghosts, Finishing
  <2>3. /\ Others(c) /\ pc'[c] = "select" /\ goal'[c] = "edit" /\ entity'[c].status = s /\ on'[c] = t
    BY <1>0, <2>1, <2>2 DEF Only, Others, Globals, Marked
  <2>4. Story(t) => Backed(t, entity[c].status, goal[c])'
    <3>1. Backed(t, "CANCELLED", "edit")'
      BY DEF Backed
    <3>2. Undebited(t)' <=> Undebited(t)
      BY <1>0, <2>2, <2>3 DEF Others, Undebited
    <3>3. Story(t) /\ s = row[t].status => Backed(t, s, "edit")'
      BY <2>2, <3>2 DEF Story, Backed
    <3> QED
      BY <2>3, <3>1, <3>3 DEF Backed, Undebited
  <2>5. ~ Verifying(c)'
    BY <2>3 DEF Verifying
  <2> QED
    BY <1>0, <2>2, <2>3, <2>4, <2>5, StoryTakes
<1>10. ASSUME NEW j \in Jobs, Tick(j) PROVE Stories'
  BY <1>0, <1>10, StoryTick
<1>11. ASSUME NEW p \in Checks, Find(p) PROVE Stories'
  <2>1. p \in Procs \ Txs /\ on[p] \in Txs /\ pc[p] = "find" /\ ~ Finishing(p)
    BY <1>0, <1>11 DEF Find, Finishing
  <2>2. CASE Look(p, on[p])
    BY <1>0, <2>1, <2>2, StoryLook
  <2>3. CASE End(p) /\ UNCHANGED <<kind, row, chain, balance, ghosts>>
    <3>1. Ended(p) /\ on' = on /\ outdated \subseteq outdated' \cup {p} /\ UNCHANGED <<row, moved, kind>>
      BY <1>0, <2>1, <2>3, Ends DEF ghosts
    <3>2. Others(p) /\ goal'[p] = "none" /\ on'[p] \in Txs
      BY <1>0, <2>1, <3>1, OthersOnly DEF Ended, Only
    <3> QED
      BY <1>0, <2>1, <3>1, <3>2, StoryTakes
  <2> QED
    BY <1>11, <2>2, <2>3 DEF Find
<1>12. ASSUME NEW p \in Procs, NEW answer \in {"PENDING", "SUCCESS", "FAILED"}, Ask(p, answer)
       PROVE  Stories'
  BY <1>0, <1>12, StoryAsk
<1>13. ASSUME NEW p \in Procs, Fail(p) PROVE Stories'
  BY <1>0, <1>13, StoryFails
<1>14. CASE UNCHANGED vars
  <2>1. UNCHANGED <<kind, row, pc, goal, on, entity, seen, moved, mishaps, outdated>>
    BY <1>14 DEF vars
  <2>2. /\ \A t \in Txs : \A s, g : Backed(t, s, g)' <=> Backed(t, s, g)
        /\ \A t \in Txs : (Shown(t) => Shown(t)') /\ (Swapped(t) => Swapped(t)')
    BY <2>1 DEF Backed, Undebited, Shown, Swapped, Pristine, Verdict, Settles, Verifying, Finishing
  <2>3. \A t \in Txs : Stage(t) => Stage(t)'
    BY <2>1, StageStays
  <2>4. \A t \in Txs : \A p \in Procs : Tells(p, t) => Tells(p, t)'
    BY <2>1 DEF Tells, Verifying, Over, Backed, Undebited
  <2>5. \A t \in Txs : Story(t) => Story(t)'
    BY <2>1, <2>2, <2>3, <2>4 DEF Story, Backed, Undebited
  <2> QED
    BY <2>1, <2>5 DEF Stories, Smooth
<1> QED
  BY StepsSplit, <1>1, <1>2, <1>3, <1>4, <1>5, <1>6, <1>7, <1>8, <1>9, <1>10, <1>11, <1>12, <1>13,
     <1>14

LEMMA StoryInit == Init => Stories
<1> SUFFICES ASSUME Init, NEW t \in Txs PROVE Story(t)
  BY DEF Stories
<1>1. t \in Procs /\ pc[t] = "new" /\ goal[t] = "create" /\ kind[t] = "NONE" /\ row[t] = NoRow
  BY DEF Init, Procs
<1>2. /\ moved[t].credit = 0 /\ moved[t].refund = 0 /\ moved[t].debit = 0 /\ moved[t].gain = 0
  BY DEF Init, Moves
<1>3. \A p \in Procs : entity[p] = NoRow /\ goal[p] \in {"create", "none"} /\ pc[p] \in {"new", "idle"}
  BY DEF Init
<1>4. Stage(t) /\ Shown(t) /\ Swapped(t)
  BY <1>1, <1>2 DEF Stage, Has, Shown, Pristine, Swapped
<1>5. \A g : Backed(t, "NONE", g)
  BY DEF Backed
<1>6. ASSUME NEW p \in Procs PROVE Tells(p, t)
  BY <1>1, <1>3, <1>5 DEF Tells, NoRow, Early, Verifying
<1> QED
  BY <1>1, <1>4, <1>5, <1>6 DEF Story, Early, NoRow

LEMMA StoriesAlways == Spec => []Stories
  BY StoryInit, StoryStep, TypedAlways, HonestAlways, AwareAlways, OnceAlways, PTL DEF Spec

-----------------------------------------------------------------------------
(* The balances. *)

\* The transactions of a type for which a balance was changed, and how many they are.
Of(k, g) == {t \in Txs : kind[t] = k /\ moved[t][g] > 0}
Count(k, g) == Cardinality(Of(k, g))

\* While nothing has gone wrong the balances are made of those changes.
Explained ==
  ~ lost /\ (\A t \in Txs : Smooth(t)) =>
    /\ balance["from"] = Funds + Amount * Count("DEPOSIT", "credit") + Amount * Count("WITHDRAW", "refund")
         - Amount * Count("WITHDRAW", "debit") - (Amount + Fee) * Count("SWAP", "debit")
    /\ balance["to"] = Worth * Count("SWAP", "gain")

LEMMA CountsAreNatural == \A k, g : IsFiniteSet(Of(k, g)) /\ Count(k, g) \in Nat
<1> TAKE k, g
<1>1. IsFiniteSet(Of(k, g))
  BY TransactionsAssumption, FS_Subset DEF Of
<1> QED
  BY <1>1, FS_CardinalityType DEF Count

LEMMA CountGrows ==
  ASSUME Globals, NEW t \in Txs, NEW g \in Moves, moved[t][g] = 0, kind' = kind,
         moved' = [moved EXCEPT ![t][g] = @ + 1]
  PROVE  /\ Count(kind[t], g)' = Count(kind[t], g) + 1
         /\ \A k, h : k # kind[t] \/ h # g => Count(k, h)' = Count(k, h)
<1>1. PICK k : k = kind[t]
  OBVIOUS
<1>2. moved'[t][g] = 1 /\ \A u \in Txs : \A h : u # t \/ h # g => moved'[u][h] = moved[u][h]
  BY DEF Globals
<1>3. Of(k, g)' = Of(k, g) \cup {t} /\ t \notin Of(k, g)
  BY <1>1, <1>2 DEF Of
<1>4. ASSUME NEW l, NEW h, l # k \/ h # g PROVE Of(l, h)' = Of(l, h)
  BY <1>1, <1>2, <1>4 DEF Of
<1>5. Count(k, g)' = Count(k, g) + 1
  BY <1>3, CountsAreNatural, FS_AddElement DEF Count
<1>6. \A l, h : l # k \/ h # g => Count(l, h)' = Count(l, h)
  BY <1>4 DEF Count
<1>7. Count(kind[t], g)' = Count(k, g)' /\ Count(kind[t], g) = Count(k, g)
  BY <1>1 DEF Count, Of
<1> QED
  BY <1>1, <1>5, <1>6, <1>7

LEMMA OneTimes ==
  ASSUME NEW a \in Nat, NEW n \in Nat
  PROVE  a * (n + 1) = a * n + a /\ a * n \in Nat
OBVIOUS

\* A transaction that is just checked has changed no balance.
LEMMA NothingMoved ==
  ASSUME Typed, Honest, Aware, NEW t \in Txs, Story(t), pc[t] \in Unpaid
  PROVE  \A g \in Moves : moved[t][g] = 0
<1>1. moved[t] \in [Moves -> Nat] /\ HonestRow(t) /\ Fitting(t) /\ Stage(t)
  BY DEF Typed, TypeOK, Honest, Aware, Procs, Story
<1>2. moved[t].debit = 0 /\ moved[t].gain = 0
  BY <1>1 DEF Fitting, Fits, Stage, Has
<1>3. moved[t].credit = 0 /\ moved[t].refund = 0
  BY <1>1 DEF HonestRow, Deserved, Moves
<1> QED
  BY <1>2, <1>3 DEF Moves

LEMMA ExplainedQuiet ==
  ASSUME Onward, Explained, UNCHANGED <<balance, moved, lost>>,
         (\A t \in Txs : Smooth(t)) => \A t \in Txs : kind'[t] = kind[t] \/ \A g \in Moves : moved[t][g] = 0
  PROVE  Explained'
<1> SUFFICES ASSUME \A t \in Txs : Smooth(t)' PROVE (\A t \in Txs : Smooth(t)) /\ (Explained')
  BY DEF Explained
<1>1. \A t \in Txs : Smooth(t)
  BY DEF Smooth, Onward
<1>2. \A k : \A g \in Moves : Of(k, g)' = Of(k, g)
  BY <1>1 DEF Of
<1>3. \A k : \A g \in Moves : Count(k, g)' = Count(k, g)
  BY <1>2 DEF Count
<1> QED
  BY <1>1, <1>3 DEF Explained, Moves

LEMMA ExplainedWrite ==
  ASSUME Typed, Onward, Honest, Aware, Once, Stories, Explained, NEW p \in Procs, WriteUser(p)
  PROVE  Explained'
<1> SUFFICES ASSUME ~ lost', \A t \in Txs : Smooth(t)' PROVE Explained'
  BY DEF Explained
<1>0. /\ TypeOK /\ Globals /\ on[p] \in Txs /\ pc[p] = "write" /\ goal[p] \in Moves
      /\ UNCHANGED <<row, kind>> /\ Deserved(goal[p], on[p]) /\ Fitting(p) /\ (p \in Txs => on[p] = p)
      /\ \A t \in Txs : Smooth(t) /\ Story(t)
  BY TypesSplit, Parts DEF Typed, Placed, WriteUser, Honest, HonestProcess, Aware, Stories, Smooth, Onward
<1>1. CASE UNCHANGED <<balance, moved, lost>>
  BY <1>0, <1>1, ExplainedQuiet
<1>2. CASE ~ UNCHANGED <<balance, moved, lost>>
  <2>1. PICK t \in Txs, g \in Moves, k \in Kinds \cup {"NONE"} : t = on[p] /\ g = goal[p] /\ k = kind[t]
    BY <1>0 DEF Globals
  <2>2. /\ balance' = [known[p] EXCEPT ![Currency(g)] = known[p][Currency(g)] + Change(g, k)]
        /\ moved' = [moved EXCEPT ![t][g] = @ + 1]
        /\ ~ lost /\ balance = known[p]
    BY <1>0, <1>2, <2>1 DEF WriteUser, NewBalances, TypeOK
  <2>3. balance' = [balance EXCEPT ![Currency(g)] = balance[Currency(g)] + Change(g, k)]
    BY <2>2
  <2>4. /\ g = "debit" => k \in {"SWAP", "WITHDRAW"}
        /\ g = "gain" => k = "SWAP"
        /\ g = "credit" => k = "DEPOSIT"
        /\ g = "refund" => k = "WITHDRAW"
        /\ moved[t][g] = 0
    <3>1. Story(t) /\ Stage(t)
      BY <1>0 DEF Story
    <3>2. CASE g \in {"debit", "gain"}
      <4>1. p = t
        BY <1>0, <2>1, <3>2 DEF Fitting, Fits
      <4> QED
        BY <2>1, <3>1, <3>2, <4>1 DEF Stage, Has
    <3>3. CASE g \in {"credit", "refund"}
      <4>1. Minds(p, t) /\ Verifying(p) /\ ~ Finishing(p)
        BY <1>0, <2>1, <3>3 DEF Once, Clean, Smooth, Orderly, Verifying, Finishing
      <4>2. Pristine(t)
        BY <2>1, <4>1 DEF Minds
      <4> QED
        BY <1>0, <2>1, <3>3, <4>2 DEF Pristine, Deserved
    <3> QED
      BY <3>2, <3>3 DEF Moves
  <2>5. /\ Count(k, g)' = Count(k, g) + 1
        /\ \A l, h : l # k \/ h # g => Count(l, h)' = Count(l, h)
    <3>1. /\ Count(kind[t], g)' = Count(kind[t], g) + 1
          /\ \A l, h : l # kind[t] \/ h # g => Count(l, h)' = Count(l, h)
      BY <1>0, <2>2, <2>4, CountGrows
    <3>2. Count(kind[t], g)' = Count(k, g)' /\ Count(kind[t], g) = Count(k, g)
      BY <1>0, <2>1 DEF Count, Of
    <3> QED
      BY <2>1, <3>1, <3>2
  <2>6. /\ balance["from"] = Funds + Amount * Count("DEPOSIT", "credit") + Amount * Count("WITHDRAW", "refund")
             - Amount * Count("WITHDRAW", "debit") - (Amount + Fee) * Count("SWAP", "debit")
        /\ balance["to"] = Worth * Count("SWAP", "gain")
    BY <1>0, <2>2 DEF Explained
  <2>7. balance \in Balances /\ \A l, h : Count(l, h) \in Nat
    BY <1>0, CountsAreNatural DEF Globals
  <2>8. CASE g = "debit" /\ k = "SWAP"
    <3>1. balance'["from"] = balance["from"] - (Amount + Fee) /\ balance'["to"] = balance["to"]
      BY <2>3, <2>7, <2>8, TransactionsAssumption DEF Currency, Change, Balances
    <3>2. (Amount + Fee) * Count("SWAP", "debit")' = (Amount + Fee) * Count("SWAP", "debit") + (Amount + Fee)
      BY <2>5, <2>7, <2>8, OneTimes, TransactionsAssumption
    <3>3. /\ Count("DEPOSIT", "credit")' = Count("DEPOSIT", "credit")
          /\ Count("WITHDRAW", "refund")' = Count("WITHDRAW", "refund")
          /\ Count("WITHDRAW", "debit")' = Count("WITHDRAW", "debit")
          /\ Count("SWAP", "gain")' = Count("SWAP", "gain")
      BY <2>5, <2>8
    <3> QED
      BY <2>6, <2>7, <3>1, <3>2, <3>3, OneTimes, TransactionsAssumption DEF Explained
  <2>9. CASE g = "debit" /\ k = "WITHDRAW"
    <3>1. balance'["from"] = balance["from"] - Amount /\ balance'["to"] = balance["to"]
      BY <2>3, <2>7, <2>9, TransactionsAssumption DEF Currency, Change, Balances
    <3>2. Amount * Count("WITHDRAW", "debit")' = Amount * Count("WITHDRAW", "debit") + Amount
      BY <2>5, <2>7, <2>9, OneTimes, TransactionsAssumption
    <3>3. /\ Count("DEPOSIT", "credit")' = Count("DEPOSIT", "credit")
          /\ Count("WITHDRAW", "refund")' = Count("WITHDRAW", "refund")
          /\ Count("SWAP", "debit")' = Count("SWAP", "debit")
          /\ Count("SWAP", "gain")' = Count("SWAP", "gain")
      BY <2>5, <2>9
    <3> QED
      BY <2>6, <2>7, <3>1, <3>2, <3>3, OneTimes, TransactionsAssumption DEF Explained
  <2>10. CASE g = "gain"
    <3>1. balance'["to"] = balance["to"] + Worth /\ balance'["from"] = balance["from"]
      BY <2>3, <2>7, <2>10, TransactionsAssumption DEF Currency, Change, Balances
    <3>2. Worth * Count("SWAP", "gain")' = Worth * Count("SWAP", "gain") + Worth
      BY <2>4, <2>5, <2>7, <2>10, OneTimes, TransactionsAssumption
    <3>3. /\ Count("DEPOSIT", "credit")' = Count("DEPOSIT", "credit")
          /\ Count("WITHDRAW", "refund")' = Count("WITHDRAW", "refund")
          /\ Count("WITHDRAW", "debit")' = Count("WITHDRAW", "debit")
          /\ Count("SWAP", "debit")' = Count("SWAP", "debit")
      BY <2>5, <2>10
    <3> QED
      BY <2>6, <2>7, <3>1, <3>2, <3>3, OneTimes, TransactionsAssumption DEF Explained
  <2>11. CASE g \in {"credit", "refund"}
    <3>1. balance'["from"] = balance["from"] + Amount /\ balance'["to"] = balance["to"]
      BY <2>3, <2>7, <2>11, TransactionsAssumption DEF Currency, Change, Balances
    <3>2. Amount * Count(k, g)' = Amount * Count(k, g) + Amount
      BY <2>5, <2>7, OneTimes, TransactionsAssumption
    <3>3. /\ Count("WITHDRAW", "debit")' = Count("WITHDRAW", "debit")
          /\ Count("SWAP", "debit")' = Count("SWAP", "debit")
          /\ Count("SWAP", "gain")' = Count("SWAP", "gain")
      BY <2>5, <2>11
    <3>4. Amount * Count("DEPOSIT", "credit")' + Amount * Count("WITHDRAW", "refund")'
            = Amount * Count("DEPOSIT", "credit") + Amount * Count("WITHDRAW", "refund") + Amount
      <4>1. /\ Amount * Count("DEPOSIT", "credit") \in Nat
            /\ Amount * Count("WITHDRAW", "refund") \in Nat
        BY <2>7, OneTimes, TransactionsAssumption
      <4>2. CASE g = "credit"
        BY <2>4, <2>5, <3>2, <4>1, <4>2, TransactionsAssumption
      <4>3. CASE g = "refund"
        BY <2>4, <2>5, <3>2, <4>1, <4>3, TransactionsAssumption
      <4> QED
        BY <2>11, <4>2, <4>3
    <3>5. PICK d, s \in Nat : /\ d = Amount * Count("WITHDRAW", "debit")
                             /\ s = (Amount + Fee) * Count("SWAP", "debit")
      BY <2>7, OneTimes, TransactionsAssumption
    <3>6. PICK c, r \in Nat : /\ c = Amount * Count("DEPOSIT", "credit")
                             /\ r = Amount * Count("WITHDRAW", "refund")
      BY <2>7, OneTimes, TransactionsAssumption
    <3>7. PICK x, y \in Nat : /\ x = Amount * Count("DEPOSIT", "credit")'
                             /\ y = Amount * Count("WITHDRAW", "refund")'
      <4>1. Count("DEPOSIT", "credit")' \in Nat /\ Count("WITHDRAW", "refund")' \in Nat
        BY <2>5, <2>7, <2>11
      <4> QED
        BY <4>1, OneTimes, TransactionsAssumption
    <3>8. balance["from"] = Funds + c + r - d - s /\ x + y = c + r + Amount
      BY <2>6, <3>4, <3>5, <3>6, <3>7
    <3>9. balance'["from"] = Funds + x + y - d - s
      BY <3>1, <3>8, TransactionsAssumption
    <3> QED
      BY <2>6, <3>1, <3>3, <3>5, <3>7, <3>9 DEF Explained
  <2> QED
    BY <2>4, <2>8, <2>9, <2>10, <2>11 DEF Moves
<1> QED
  BY <1>1, <1>2

LEMMA ExplainedStep == Typed /\ Honest /\ Aware /\ Once /\ Stories /\ Explained /\ [Next]_vars => Explained'
<1> SUFFICES ASSUME Typed, Honest, Aware, Once, Stories, Explained, [Next]_vars PROVE Explained'
  OBVIOUS
<1>0. Onward /\ TypeOK
  BY OnwardStep DEF Typed
<1>1. ASSUME NEW t \in Txs, (\E k \in Kinds : CheckLimit(t, k)) \/ CheckBalance(t) PROVE Explained'
  <2>1. UNCHANGED <<balance, moved, lost>> /\ pc[t] \in Unpaid /\ \A u \in Txs \ {t} : kind'[u] = kind[u]
    BY <1>0, <1>1 DEF CheckLimit, CheckBalance, ghosts, Unpaid, TypeOK
  <2>2. (\A u \in Txs : Smooth(u)) => \A g \in Moves : moved[t][g] = 0
    BY <2>1, NothingMoved DEF Stories
  <2> QED
    BY <1>0, <2>1, <2>2, ExplainedQuiet
<1>2. ASSUME UNCHANGED <<balance, moved, lost, kind>> PROVE Explained'
  BY <1>0, <1>2, ExplainedQuiet
<1>3. ASSUME NEW p \in Procs, WriteUser(p) PROVE Explained'
  BY <1>0, <1>3, ExplainedWrite
<1>4. ASSUME NEW t \in Txs, Persist(t) \/ Pay(t) \/ Refuse(t) \/ Notify(t) \/ Category(t)
      PROVE  UNCHANGED <<balance, moved, lost, kind>>
  BY <1>4 DEF Persist, Pay, Refuse, Notify, Category, ghosts
<1>5. ASSUME NEW p \in Procs, ReadUser(p) \/ Select(p) \/ Update(p) \/ Fail(p)
      PROVE  UNCHANGED <<balance, moved, lost, kind>>
  BY <1>5 DEF ReadUser, Select, Update, Fail, ghosts
<1>6. ASSUME NEW p \in Procs, NEW t \in Txs, Look(p, t) PROVE UNCHANGED <<balance, moved, lost, kind>>
  BY <1>6 DEF Look
<1>7. ASSUME NEW c \in Clerks, NEW t \in Txs, NEW s \in {"CANCELLED", row[t].status}, Edit(c, t, s)
      PROVE  UNCHANGED <<balance, moved, lost, kind>>
  BY <1>7 DEF Edit, ghosts
<1>8. ASSUME NEW c \in Clerks, NEW t \in Txs, Verify(c, t) PROVE UNCHANGED <<balance, moved, lost, kind>>
  <2>1. c \in Procs /\ Look(c, t)
    BY <1>8 DEF Verify, Procs
  <2> QED
    BY <1>6, <2>1
<1>9. ASSUME NEW p \in Checks, Find(p) PROVE UNCHANGED <<balance, moved, lost, kind>>
  <2>1. p \in Procs /\ on[p] \in Txs
    BY <1>0, Parts DEF Procs
  <2> QED
    BY <1>6, <1>9, <2>1 DEF Find, ghosts
<1>10. ASSUME NEW p \in Procs, NEW answer \in {"PENDING", "SUCCESS", "FAILED"}, Ask(p, answer)
       PROVE  UNCHANGED <<balance, moved, lost, kind>>
  BY <1>10 DEF Ask, ghosts
<1>11. ASSUME (\E j \in Jobs : Tick(j)) \/ UNCHANGED vars PROVE UNCHANGED <<balance, moved, lost, kind>>
  BY <1>11 DEF Tick, ghosts, vars
<1> QED
  BY StepsSplit, <1>1, <1>2, <1>3, <1>4, <1>5, <1>7, <1>8, <1>9, <1>10, <1>11

LEMMA ExplainedInit == Init => Explained
<1> SUFFICES ASSUME Init PROVE Explained
  OBVIOUS
<1>1. \A k : \A g \in Moves : Of(k, g) = {}
  BY DEF Init, Of
<1>2. \A k : \A g \in Moves : Count(k, g) = 0
  BY <1>1, FS_EmptySet DEF Count
<1>3. /\ Count("DEPOSIT", "credit") = 0 /\ Count("WITHDRAW", "refund") = 0
      /\ Count("WITHDRAW", "debit") = 0 /\ Count("SWAP", "debit") = 0 /\ Count("SWAP", "gain") = 0
  BY <1>2 DEF Moves
<1>4. balance["from"] = Funds /\ balance["to"] = 0
  BY DEF Init
<1>5. \A a \in Nat : a * 0 = 0
  OBVIOUS
<1> QED
  BY <1>3, <1>4, <1>5, TransactionsAssumption DEF Explained

LEMMA ExplainedAlways == Spec => []Explained
  BY ExplainedInit, ExplainedStep, TypedAlways, HonestAlways, AwareAlways, OnceAlways, StoriesAlways,
     PTL DEF Spec

\* At rest a row says of its transaction which balances were changed for it.
LEMMA RestingTells ==
  ASSUME Typed, Honest, Aware, Once, NEW t \in Txs, Smooth(t), Story(t),
         \A p \in Procs : pc[p] \in {"idle", "new"}
  PROVE  /\ kind[t] = "DEPOSIT" => (moved[t].credit > 0 <=> row[t].status = "SUCCESS")
         /\ kind[t] = "WITHDRAW" =>
              /\ moved[t].debit > 0
                   <=> moved[t].refund > 0 \/ row[t].status \in {"PENDING", "SUCCESS", "CANCELLED"}
              /\ ~ (moved[t].refund > 0 /\ row[t].status \in {"PENDING", "SUCCESS", "CANCELLED"})
         /\ kind[t] = "SWAP" => /\ moved[t].debit > 0 <=> row[t].status = "SUCCESS"
                                /\ moved[t].gain > 0 <=> row[t].status = "SUCCESS"
<1>0. /\ t \in Procs /\ row[t].status \in Statuses /\ moved[t].credit \in Nat /\ moved[t].refund \in Nat
      /\ HonestRow(t) /\ Orderly(t) /\ Fitting(t)
  BY DEF Typed, TypeOK, Rows, Procs, Moves, Honest, Once, Clean, Smooth, Aware
<1>1. ASSUME kind[t] # "NONE" PROVE pc[t] = "idle" /\ goal[t] = "none" /\ row[t].status # "NONE"
  <2>1. pc[t] = "idle"
    BY <1>0, <1>1 DEF Story, Stage
  <2> QED
    BY <1>0, <2>1 DEF Fitting, Fits, Story, Early, Waiting
<1>2. ~ Pristine(t) => row[t].status = Verdict(t)
  <2>1. \A p \in Procs : ~ Finishing(p)
    BY DEF Finishing
  <2> QED
    BY <2>1 DEF Story, Shown
<1>3. kind[t] # "NONE" => Bought(t) \/ (Has(t, 0, 0) /\ row[t].status = "FAILED")
  BY <1>1 DEF Story, Stage
<1>4. CASE kind[t] = "DEPOSIT"
  BY <1>0, <1>2, <1>4 DEF Pristine, Verdict, Story, Backed
<1>5. CASE kind[t] = "WITHDRAW"
  <2>1. CASE Bought(t)
    <3>1. moved[t].debit = 1
      BY <1>5, <2>1 DEF Bought, Has
    <3>2. row[t].status = "FAILED" => moved[t].refund = 1
      BY <1>5, <3>1 DEF Story, Backed
    <3>3. row[t].status \in {"PENDING", "SUCCESS", "CANCELLED", "FAILED"}
      BY <1>0, <1>1, <1>5 DEF Statuses
    <3>4. moved[t].refund > 0 => row[t].status = "FAILED"
      BY <1>2, <1>5 DEF Pristine, Verdict
    <3> QED
      BY <1>5, <3>1, <3>2, <3>3, <3>4
  <2>2. CASE Has(t, 0, 0) /\ row[t].status = "FAILED"
    <3>1. moved[t].debit = 0 /\ moved[t].refund = 0
      BY <1>0, <2>2 DEF Has, Orderly
    <3> QED
      BY <1>5, <2>2, <3>1
  <2> QED
    BY <1>3, <1>5, <2>1, <2>2
<1>6. CASE kind[t] = "SWAP"
  <2>1. CASE Bought(t)
    BY <1>6, <2>1 DEF Bought, Has, Story, Swapped
  <2>2. CASE Has(t, 0, 0) /\ row[t].status = "FAILED"
    BY <1>6, <2>2 DEF Has
  <2> QED
    BY <1>3, <1>6, <2>1, <2>2
<1> QED
  BY <1>4, <1>5, <1>6

\* At rest the balances are what the rows say, if nothing went wrong that has a name:
\* the deposits that succeeded are in them, the withdrawals that did not fail and the
\* swaps that succeeded are not, however the calls that made them overlapped.
THEOREM BalancesAreExplained == Spec => []RowsExplainBalances
<1>1. Typed /\ Honest /\ Aware /\ Once /\ Stories /\ Explained => RowsExplainBalances
  <2> DEFINE deposits == With("DEPOSIT", {"SUCCESS"})
             withdrawals == With("WITHDRAW", {"PENDING", "SUCCESS", "CANCELLED"})
             swaps == With("SWAP", {"SUCCESS"})
  <2> SUFFICES ASSUME Typed, Honest, Aware, Once, Stories, Explained,
                      \A p \in Procs : pc[p] \in {"idle", "new"}, ~ lost, \A t \in Txs : mishaps[t] = {}
               PROVE  /\ balance["from"] = Funds + Amount * Cardinality(deposits)
                           - Amount * Cardinality(withdrawals) - (Amount + Fee) * Cardinality(swaps)
                      /\ balance["to"] = Worth * Cardinality(swaps)
    BY DEF RowsExplainBalances
  <2>1. \A t \in Txs : Smooth(t) /\ Story(t)
    BY DEF Stories, Smooth
  <2>2. /\ balance["from"] = Funds + Amount * Count("DEPOSIT", "credit") + Amount * Count("WITHDRAW", "refund")
             - Amount * Count("WITHDRAW", "debit") - (Amount + Fee) * Count("SWAP", "debit")
        /\ balance["to"] = Worth * Count("SWAP", "gain")
    BY <2>1 DEF Explained
  <2>3. Of("DEPOSIT", "credit") = deposits
    BY <2>1, RestingTells DEF Of, With
  <2>4. Of("SWAP", "debit") = swaps /\ Of("SWAP", "gain") = swaps
    BY <2>1, RestingTells DEF Of, With
  <2>5. /\ Of("WITHDRAW", "debit") = Of("WITHDRAW", "refund") \cup withdrawals
        /\ Of("WITHDRAW", "refund") \cap withdrawals = {}
    BY <2>1, RestingTells DEF Of, With
  <2>6. IsFiniteSet(deposits) /\ IsFiniteSet(withdrawals) /\ IsFiniteSet(swaps)
    BY TransactionsAssumption, FS_Subset DEF With
  <2> HIDE DEF deposits, withdrawals, swaps
  <2>7. Count("WITHDRAW", "debit") = Count("WITHDRAW", "refund") + Cardinality(withdrawals)
    <3>1. Cardinality(Of("WITHDRAW", "refund") \cap withdrawals) = 0
      BY <2>5, FS_EmptySet
    <3>2. Cardinality(Of("WITHDRAW", "debit")) = Cardinality(Of("WITHDRAW", "refund"))
            + Cardinality(withdrawals) - Cardinality(Of("WITHDRAW", "refund") \cap withdrawals)
      BY <2>5, <2>6, CountsAreNatural, FS_Union
    <3>3. Cardinality(withdrawals) \in Nat /\ Cardinality(Of("WITHDRAW", "refund")) \in Nat
      BY <2>6, CountsAreNatural, FS_CardinalityType
    <3> QED
      BY <3>1, <3>2, <3>3 DEF Count
  <2>8. PICK n, m \in Nat : n = Count("WITHDRAW", "refund") /\ m = Cardinality(withdrawals)
    BY <2>6, CountsAreNatural, FS_CardinalityType
  <2>9. Amount * Count("WITHDRAW", "debit") = Amount * n + Amount * m
    <3>1. \A a, b, c \in Nat : a * (b + c) = a * b + a * c
      OBVIOUS
    <3> QED
      BY <2>7, <2>8, <3>1, TransactionsAssumption
  <2>10. PICK r, w, d, s \in Nat : /\ r = Amount * n /\ w = Amount * m
                                  /\ d = Amount * Cardinality(deposits)
                                  /\ s = (Amount + Fee) * Cardinality(swaps)
    <3>1. Cardinality(deposits) \in Nat /\ Cardinality(swaps) \in Nat
      BY <2>6, FS_CardinalityType
    <3>2. \A a, b \in Nat : a * b \in Nat
      OBVIOUS
    <3> QED
      BY <2>8, <3>1, <3>2, TransactionsAssumption
  <2>11. balance["from"] = Funds + d + r - (r + w) - s
    BY <2>2, <2>3, <2>4, <2>8, <2>9, <2>10 DEF Count
  <2>12. balance["from"] = Funds + d - w - s
    BY <2>10, <2>11, TransactionsAssumption
  <2>13. balance["to"] = Worth * Cardinality(swaps)
    BY <2>2, <2>4 DEF Count
  <2> QED
    BY <2>8, <2>10, <2>12, <2>13
<1> QED
  BY <1>1, TypedAlways, HonestAlways, AwareAlways, OnceAlways, StoriesAlways, ExplainedAlways, PTL
=============================================================================

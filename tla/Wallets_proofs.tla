---------------------------- MODULE Wallets_proofs ----------------------------
(***************************************************************************)
(* Proofs about Wallets, for any number of wallets, calls, deposits and    *)
(* withdrawals.                                                            *)
(***************************************************************************)
EXTENDS Wallets, FiniteSetTheorems, TLAPS

Targets == Ids \cup Withdrawals \cup Events

Calls == [at : Places, on : Targets, held : Int, marked : SUBSET Ids,
          sees : {"same", "differs", "gone", "none"}]

\* What a call is at work on, by the place where it is: made, wanted, accepted and
\* known stand for created, asked, sent and emitted.
Sound(c, made, wanted, accepted, known) ==
  /\ c.at \in {"insert", "label", "labelSave", "clear", "set", "count", "delete"} => c.on \in Ids
  /\ c.at = "insert" => c.on # Cash
  /\ c.at \in {"label", "labelSave", "clear", "set", "count", "delete"} => c.on \in made
  /\ c.at \in {"label", "labelSave"} => c.marked \subseteq {c.on}
  /\ c.at \in {"count", "delete"} => c.marked = {}
  /\ c.at \in {"send", "debit", "debitSave"} => c.on \in wanted /\ Cash \in made
  /\ c.at \in {"debit", "debitSave"} => c.on \in accepted
  /\ c.at \in {"find", "take", "read", "credit", "creditSave", "fail",
               "complete", "lock", "refundRead", "refund", "refundSave"} => c.on \in known
  /\ c.at \in {"read", "credit", "creditSave", "fail"} => c.on[1] \in Deposits
  /\ c.at \in {"complete", "lock", "refundRead", "refund", "refundSave"} => c.on[1] \in Withdrawals
  /\ c.at \in {"read", "credit", "creditSave", "complete"} => c.on[2]
  /\ c.at \in {"fail", "lock", "refundRead", "refund", "refundSave"} => ~ c.on[2]
  /\ c.at \in {"credit", "refund"} => Cash \in made
  /\ c.at \in {"creditSave", "refundSave"} /\ c.sees # "none" => Cash \in made

\* The type invariant, strengthened to an inductive one.
Typed == TypeOK /\ \A p \in Procs : Sound(call[p], created, asked, sent, emitted)

LEMMA IdleTyped ==
  /\ Idle \in Calls
  /\ Idle.at = "idle"
  /\ \A a, b, c, d : Sound(Idle, a, b, c, d)
  BY WalletsAssumption DEF Idle, Calls, Targets, Places, Sound

LEMMA SoundGrows ==
  ASSUME NEW c, NEW a, NEW b, NEW s, NEW e, NEW a2, NEW b2, NEW s2, NEW e2,
         a \subseteq a2, b \subseteq b2, s \subseteq s2, e \subseteq e2, Sound(c, a, b, s, e)
  PROVE  Sound(c, a2, b2, s2, e2)
  BY DEF Sound

\* A step of p alone: what its call becomes.
Moves(p, c) ==
  /\ call' \in [Procs -> Calls]
  /\ call'[p] = c
  /\ \A q \in Procs : q # p => call'[q] = call[q]

LEMMA MovesTo ==
  ASSUME TypeOK, NEW p \in Procs, NEW c \in Calls, call' = [call EXCEPT ![p] = c]
  PROVE  Moves(p, c)
  BY DEF TypeOK, Moves, Calls, Targets

LEMMA Parts == ASSUME TypeOK, NEW p \in Procs PROVE call[p] \in Calls
  BY DEF TypeOK, Calls, Targets

LEMMA EndMoves == ASSUME TypeOK, NEW p \in Procs, End(p) PROVE Moves(p, Idle)
  BY IdleTyped, MovesTo DEF End

\* The call of p at a place.
Put(p, place) ==
  [at |-> place, on |-> call[p].on, held |-> call[p].held,
   marked |-> call[p].marked, sees |-> call[p].sees]

LEMMA GotoMoves ==
  ASSUME TypeOK, NEW p \in Procs, NEW place \in Places, Goto(p, place)
  PROVE  Moves(p, Put(p, place))
<1>1. call[p] \in Calls
  BY Parts
<1>2. Put(p, place) \in Calls
  BY <1>1 DEF Put, Calls
<1>3. [call[p] EXCEPT !.at = place] = Put(p, place)
  BY <1>1 DEF Put, Calls
<1>4. call' = [call EXCEPT ![p] = Put(p, place)]
  BY <1>3 DEF Goto
<1> QED
  BY <1>2, <1>4, MovesTo

LEMMA StartMoves ==
  ASSUME TypeOK, NEW p \in Procs, NEW place \in Places, NEW on \in Targets, NEW held \in Int,
         NEW marked \in SUBSET Ids, Start(p, place, on, held, marked)
  PROVE  /\ call[p].at = "idle"
         /\ Moves(p, [at |-> place, on |-> on, held |-> held, marked |-> marked, sees |-> "same"])
<1>1. [at |-> place, on |-> on, held |-> held, marked |-> marked, sees |-> "same"] \in Calls
  BY DEF Calls
<1> QED
  BY <1>1, MovesTo DEF Start, At

LEMMA KeepMoves ==
  ASSUME TypeOK, NEW p \in Procs, NEW place \in Places, NEW held \in Int,
         NEW marked \in SUBSET Ids, NEW sees \in {"same", "differs", "gone", "none"},
         Keep(p, place, held, marked, sees)
  PROVE  Moves(p, [at |-> place, on |-> call[p].on, held |-> held,
                   marked |-> marked, sees |-> sees])
<1>1. call[p] \in Calls
  BY Parts
<1>2. [at |-> place, on |-> call[p].on, held |-> held, marked |-> marked, sees |-> sees] \in Calls
  BY <1>1 DEF Calls
<1> QED
  BY <1>2, MovesTo DEF Keep

LEMMA SeesType == ASSUME NEW p \in Procs PROVE Sees(p) \in {"same", "differs", "gone"}
<1> DEFINE i == Target(p)
<1>1. CASE i \notin wallets
  BY <1>1 DEF Sees
<1>2. CASE i \in wallets
  BY <1>2 DEF Sees
<1> QED
  BY <1>1, <1>2

LEMMA DeltaType == ASSUME NEW p \in Procs PROVE Delta(p) \in Int
  BY WalletsAssumption DEF Delta

LEMMA ResultType == ASSUME TypeOK, NEW p \in Procs PROVE NewBalance(p) \in Int
<1>1. call[p].held \in Int
  BY Parts DEF Calls
<1> QED
  BY <1>1, DeltaType DEF NewBalance

\* The variables other than the calls.
RestType ==
  /\ wallets \subseteq created /\ created \subseteq Ids /\ default \subseteq wallets
  /\ balance \in Int /\ due \in Int
  /\ user \in [key : Ids \ {Cash}, secret : Signing]
  /\ status \in [Ramps -> Statuses]
  /\ asked \subseteq Withdrawals /\ sent \subseteq asked
  /\ emitted \subseteq Events /\ owed \subseteq emitted
  /\ credited \in [Deposits -> Nat] /\ refunded \in [Withdrawals -> Nat]
  /\ mishaps \subseteq Mishaps /\ raced \subseteq Deposits
  /\ repeated \subseteq Events /\ dropped \subseteq Withdrawals
  /\ requests \in 0 .. MaxRequests /\ faults \in 0 .. MaxFaults

LEMMA TypeParts == TypeOK <=> call \in [Procs -> Calls] /\ RestType
  BY DEF TypeOK, RestType, Calls, Targets

\* A step of p keeps what holds of the other calls.
LEMMA OthersSound ==
  ASSUME Typed, NEW p \in Procs, NEW c, Moves(p, c),
         created \subseteq created', asked \subseteq asked', sent \subseteq sent',
         emitted \subseteq emitted',
         Sound(c, created, asked, sent, emitted), RestType'
  PROVE  Typed'
<1>1. \A q \in Procs : Sound(call[q], created, asked, sent, emitted)
  BY DEF Typed
<1>2. \A q \in Procs : Sound(call'[q], created, asked, sent, emitted)
  BY <1>1 DEF Moves
<1>3. \A q \in Procs : Sound(call'[q], created', asked', sent', emitted')
  BY <1>2, SoundGrows
<1>4. TypeOK'
  BY DEF TypeOK, RestType, Moves, Calls, Targets
<1> QED
  BY <1>3, <1>4 DEF Typed

LEMMA EndSound ==
  ASSUME Typed, NEW p \in Procs, End(p),
         created \subseteq created', asked \subseteq asked', sent \subseteq sent',
         emitted \subseteq emitted', RestType'
  PROVE  Typed'
<1>1. Moves(p, Idle)
  BY EndMoves DEF Typed
<1> QED
  BY <1>1, IdleTyped, OthersSound

\* Saves of Cash, and of a row of a deposit or a withdrawal.
LEMMA CashType ==
  ASSUME Typed, NEW p \in Procs, SaveCash(p), created' = created, default' = default,
         At(p, "debitSave") \/ At(p, "creditSave") \/ At(p, "refundSave")
  PROVE  /\ wallets' \subseteq created' /\ default' \subseteq wallets'
         /\ balance' \in Int /\ due' \in Int /\ mishaps' \subseteq Mishaps
<1>1. Sound(call[p], created, asked, sent, emitted) /\ call[p] \in Calls
  BY Parts DEF Typed
<1>2. call[p].sees = "gone" => Cash \in created
  BY <1>1 DEF Sound, At
<1>3. NewBalance(p) \in Int /\ Delta(p) \in Int
  BY ResultType, DeltaType DEF Typed
<1>4. wallets \subseteq created /\ default \subseteq wallets /\ balance \in Int /\ due \in Int
      /\ mishaps \subseteq Mishaps
  BY DEF Typed, TypeOK
<1>5. /\ wallets' = wallets \/ (wallets' = wallets \cup {Cash} /\ call[p].sees = "gone")
      /\ balance' = balance \/ balance' = NewBalance(p)
      /\ due' = due \/ due' = due + Delta(p)
      /\ mishaps' \subseteq mishaps \cup {"balance"}
  BY DEF SaveCash
<1> QED
  BY <1>2, <1>3, <1>4, <1>5 DEF Mishaps

LEMMA TypeInit == Init => Typed
<1> SUFFICES ASSUME Init PROVE Typed
  OBVIOUS
<1>1. call \in [Procs -> Calls] /\ \A p \in Procs : call[p] = Idle
  BY IdleTyped DEF Init
<1>2. RestType
  <2>1. /\ wallets \subseteq created /\ created \subseteq Ids /\ default \subseteq wallets
        /\ balance \in Int /\ due \in Int
        /\ user \in [key : Ids \ {Cash}, secret : Signing]
    BY WalletsAssumption DEF Init
  <2>2. status \in [Ramps -> Statuses]
    BY DEF Init, Statuses
  <2>3. mishaps \subseteq Mishaps
    BY DEF Init, Mishaps
  <2>4. requests \in 0 .. MaxRequests /\ faults \in 0 .. MaxFaults
    BY WalletsAssumption DEF Init
  <2> QED
    BY <2>1, <2>2, <2>3, <2>4 DEF Init, RestType
<1>3. \A p \in Procs : Sound(call[p], created, asked, sent, emitted)
  BY <1>1, IdleTyped
<1> QED
  BY <1>1, <1>2, <1>3, TypeParts DEF Typed

LEMMA TypeOfCalls ==
  ASSUME Typed, NEW p \in Procs
  PROVE  /\ call[p] \in Calls
         /\ Sound(call[p], created, asked, sent, emitted)
         /\ RestType
  BY Parts, TypeParts DEF Typed

LEMMA RequestType == ASSUME RestType, Request PROVE requests' \in 0 .. MaxRequests
<1>1. requests \in 0 .. MaxRequests /\ MaxRequests \in Nat
  BY WalletsAssumption DEF RestType
<1>2. requests' = requests + 1 /\ requests < MaxRequests
  BY DEF Request
<1>3. requests + 1 \in 0 .. MaxRequests
  BY <1>1, <1>2
<1> QED
  BY <1>2, <1>3

\* The calls of the API and the webhooks that begin.
LEMMA TypeBegin == ASSUME Typed, NEW p \in Procs, Begin(p) PROVE Typed'
<1> USE DEF rows, provider, ghosts
<1>0. RestType /\ TypeOK
  BY TypeOfCalls DEF Typed
<1>r. Request => requests' \in 0 .. MaxRequests
  BY <1>0, RequestType
<1>1. ASSUME NEW i \in Ids, AddWallet(p, i) PROVE Typed'
  <2>1. Moves(p, [at |-> "insert", on |-> i, held |-> 0, marked |-> {}, sees |-> "same"])
    <3>1. Start(p, "insert", i, 0, {}) /\ i \in Targets /\ "insert" \in Places
      BY <1>1 DEF AddWallet, Targets, Places
    <3> QED
      BY <1>0, <3>1, StartMoves
  <2>2. RestType'
    BY <1>0, <1>1, <1>r DEF RestType, AddWallet
  <2>3. i # Cash
    BY <1>1 DEF AddWallet
  <2>4. Sound([at |-> "insert", on |-> i, held |-> 0, marked |-> {}, sees |-> "same"],
              created, asked, sent, emitted)
    BY <2>3 DEF Sound
  <2> QED
    BY <1>1, <2>1, <2>2, <2>4, OthersSound DEF AddWallet
<1>2. ASSUME NEW i \in Ids, Rename(p, i) PROVE Typed'
  <2>0. balance \in Int /\ default \cap {i} \in SUBSET Ids
    BY <1>0 DEF RestType
  <2>1. Moves(p, [at |-> "label", on |-> i, held |-> balance, marked |-> default \cap {i},
                  sees |-> "same"])
    BY <1>0, <1>2, <2>0, StartMoves DEF Rename, Targets, Places
  <2>2. RestType'
    BY <1>0, <1>2, <1>r DEF RestType, Rename
  <2>3. i \in created
    BY <1>0, <1>2 DEF Rename, RestType
  <2>4. Sound([at |-> "label", on |-> i, held |-> balance, marked |-> default \cap {i},
               sees |-> "same"], created, asked, sent, emitted)
    BY <2>3 DEF Sound
  <2> QED
    BY <1>2, <2>1, <2>2, <2>4, OthersSound DEF Rename
<1>3. ASSUME NEW i \in Ids, SetDefault(p, i) PROVE Typed'
  <2>1. Moves(p, [at |-> "clear", on |-> i, held |-> 0, marked |-> {}, sees |-> "same"])
    BY <1>0, <1>3, StartMoves DEF SetDefault, Targets, Places
  <2>2. RestType'
    BY <1>0, <1>3, <1>r DEF RestType, SetDefault
  <2>3. i \in created
    BY <1>0, <1>3 DEF SetDefault, RestType
  <2>4. Sound([at |-> "clear", on |-> i, held |-> 0, marked |-> {}, sees |-> "same"],
              created, asked, sent, emitted)
    BY <2>3 DEF Sound
  <2> QED
    BY <1>3, <2>1, <2>2, <2>4, OthersSound DEF SetDefault
<1>4. ASSUME NEW i \in Ids, DeleteWallet(p, i) PROVE Typed'
  <2>0. i \in wallets /\ default \cap {i} = {}
    BY <1>4 DEF DeleteWallet, Deletable
  <2>1. Moves(p, [at |-> "count", on |-> i, held |-> 0, marked |-> {}, sees |-> "same"])
    BY <1>0, <1>4, <2>0, StartMoves DEF DeleteWallet, Targets, Places
  <2>2. RestType'
    BY <1>0, <1>4, <1>r DEF RestType, DeleteWallet
  <2>3. i \in created
    BY <1>0, <2>0 DEF RestType
  <2>4. Sound([at |-> "count", on |-> i, held |-> 0, marked |-> {}, sees |-> "same"],
              created, asked, sent, emitted)
    BY <2>3 DEF Sound
  <2> QED
    BY <1>4, <2>1, <2>2, <2>4, OthersSound DEF DeleteWallet
<1>5. ASSUME NEW w \in Withdrawals, InitiateWithdrawal(p, w) PROVE Typed'
  <2>1. Moves(p, [at |-> "send", on |-> w, held |-> balance, marked |-> {}, sees |-> "same"])
    BY <1>0, <1>5, StartMoves DEF InitiateWithdrawal, Targets, Places, RestType
  <2>2. RestType'
    BY <1>0, <1>5 DEF RestType, InitiateWithdrawal
  <2>3. Cash \in created
    BY <1>0, <1>5 DEF InitiateWithdrawal, RestType
  <2> DEFINE c == [at |-> "send", on |-> w, held |-> balance, marked |-> {}, sees |-> "same"]
  <2>4. Sound(c, created, asked \cup {w}, sent, emitted)
    BY <2>3 DEF Sound
  <2>5. \A q \in Procs : Sound(call[q], created, asked \cup {w}, sent, emitted)
    <3>1. ASSUME NEW q \in Procs PROVE Sound(call[q], created, asked \cup {w}, sent, emitted)
      <4>1. Sound(call[q], created, asked, sent, emitted)
        BY DEF Typed
      <4>2. asked \subseteq asked \cup {w}
        OBVIOUS
      <4> QED
        BY <4>1, <4>2, SoundGrows
    <3> QED
      BY <3>1
  <2>6. \A q \in Procs : Sound(call'[q], created, asked \cup {w}, sent, emitted)
    <3> HIDE DEF c
    <3> QED
      BY <2>1, <2>4, <2>5 DEF Moves, c
  <2>7. created' = created /\ asked' = asked \cup {w} /\ sent' = sent /\ emitted' = emitted
    BY <1>5 DEF InitiateWithdrawal
  <2>8. TypeOK'
    BY <2>1, <2>2 DEF TypeOK, RestType, Moves, Calls, Targets
  <2> QED
    BY <2>6, <2>7, <2>8 DEF Typed
<1>6. ASSUME NEW e \in Events, Deliver(p, e) \/ Repeat(p, e) PROVE Typed'
  <2>1. Moves(p, [at |-> "find", on |-> e, held |-> 0, marked |-> {}, sees |-> "same"])
    <3>1. Start(p, "find", e, 0, {})
      BY <1>6 DEF Deliver, Repeat
    <3>2. e \in Targets /\ "find" \in Places
      BY DEF Targets, Places
    <3>3. 0 \in Int /\ {} \in SUBSET Ids /\ TypeOK /\ p \in Procs
      BY <1>0
    <3> QED
      BY ONLY <3>1, <3>2, <3>3, StartMoves
  <2>2. RestType'
    <3>1. CASE Deliver(p, e)
      BY <1>0, <3>1 DEF RestType, Deliver
    <3>2. CASE Repeat(p, e)
      BY <1>0, <3>2, <1>r DEF RestType, Repeat
    <3> QED
      BY <1>6, <3>1, <3>2
  <2>3. e \in emitted
    BY <1>0, <1>6 DEF Deliver, Repeat, RestType
  <2>4. Sound([at |-> "find", on |-> e, held |-> 0, marked |-> {}, sees |-> "same"],
              created, asked, sent, emitted)
    BY <2>3 DEF Sound
  <2>5. UNCHANGED <<created, asked, sent, emitted>>
    BY <1>6 DEF Deliver, Repeat
  <2> QED
    BY <2>1, <2>2, <2>4, <2>5, OthersSound
<1> QED
  BY <1>1, <1>2, <1>3, <1>4, <1>5, <1>6 DEF Begin

\* The steps of calls about wallets.
LEMMA TypeRows ==
  ASSUME Typed, NEW p \in Procs,
         \/ InsertWallet(p) \/ SaveLabel(p) \/ FindDefaults(p) \/ CommitDefault(p)
         \/ CountWallets(p) \/ DeleteRow(p)
  PROVE  Typed'
<1> USE DEF rows, provider, ghosts, At
<1>0. RestType /\ TypeOK /\ call[p] \in Calls /\ Sound(call[p], created, asked, sent, emitted)
  BY TypeOfCalls DEF Typed
<1>1. CASE InsertWallet(p)
  <2>1. call[p].on \in Ids
    BY <1>0, <1>1 DEF InsertWallet, Sound
  <2>2. RestType'
    BY <1>0, <1>1, <2>1 DEF RestType, InsertWallet
  <2> QED
    BY <1>1, <2>2, EndSound DEF InsertWallet
<1>2. CASE SaveLabel(p)
  <2>1. call[p].on \in created /\ call[p].marked \subseteq {call[p].on} /\ call[p].held \in Int
    BY <1>0, <1>2 DEF SaveLabel, Sound, Calls
  <2> DEFINE i == call[p].on
             writes == \/ call[p].sees = "gone" /\ i \notin wallets
                       \/ call[p].sees = "differs" /\ i \in wallets
  <2>2. /\ wallets' = IF writes THEN wallets \cup {i} ELSE wallets
        /\ default' = IF writes THEN (default \ {i}) \cup call[p].marked ELSE default
        /\ balance' = balance \/ balance' = call[p].held
        /\ mishaps' \subseteq mishaps \cup {"default", "balance"}
    BY <1>2 DEF SaveLabel
  <2>3. wallets' \subseteq created /\ default' \subseteq wallets'
    BY <1>0, <2>1, <2>2 DEF RestType
  <2>4. balance' \in Int /\ mishaps' \subseteq Mishaps
    BY <1>0, <2>1, <2>2 DEF RestType, Mishaps
  <2>5. UNCHANGED <<created, due, user, status, asked, sent, emitted, owed, credited, refunded,
                    raced, repeated, dropped, requests, faults>>
    BY <1>2 DEF SaveLabel
  <2>6. RestType'
    BY <1>0, <2>3, <2>4, <2>5 DEF RestType
  <2> QED
    BY <1>2, <2>5, <2>6, EndSound DEF SaveLabel
<1>3. CASE FindDefaults(p)
  <2>1. call[p].on \in created /\ call[p].on \in Ids /\ call[p].held \in Int
        /\ call[p].sees \in {"same", "differs", "gone", "none"} /\ default \in SUBSET Ids
    BY <1>0, <1>3 DEF FindDefaults, Sound, Calls, RestType
  <2> DEFINE c == [at |-> "set", on |-> call[p].on, held |-> call[p].held, marked |-> default,
                   sees |-> call[p].sees]
  <2>2. Moves(p, c)
    BY <1>0, <1>3, <2>1, KeepMoves DEF FindDefaults, Places
  <2>3. Sound(c, created, asked, sent, emitted)
    BY <2>1 DEF Sound
  <2>4. RestType'
    BY <1>0, <1>3 DEF RestType, FindDefaults
  <2> QED
    BY <1>3, <2>2, <2>3, <2>4, OthersSound DEF FindDefaults
<1>4. CASE CommitDefault(p)
  <2>1. call[p].on \in Ids
    BY <1>0, <1>4 DEF CommitDefault, Sound
  <2>2. default' \subseteq wallets
    BY <1>0, <1>4 DEF CommitDefault, Marked, Cleared, RestType
  <2>3. user' \in [key : Ids \ {Cash}, secret : Signing]
    <3>1. CASE call[p].on = Cash
      BY <1>0, <1>4, <3>1 DEF CommitDefault, RestType
    <3>2. CASE call[p].on # Cash
      <4>1. user' = [key |-> call[p].on,
                     secret |-> IF call[p].on \in Signing THEN call[p].on ELSE user.secret]
        BY <1>4, <3>2 DEF CommitDefault, Keys
      <4>2. user.secret \in Signing
        BY <1>0 DEF RestType
      <4> QED
        BY <2>1, <3>2, <4>1, <4>2
    <3> QED
      BY <3>1, <3>2
  <2>4. mishaps' \subseteq Mishaps
    BY <1>0, <1>4 DEF CommitDefault, RestType, Mishaps
  <2>5. UNCHANGED <<wallets, balance, status, provider, created, due, credited, refunded,
                    raced, repeated, dropped, requests, faults>>
    BY <1>4 DEF CommitDefault
  <2>6. RestType'
    BY <1>0, <2>2, <2>3, <2>4, <2>5 DEF RestType
  <2> QED
    BY <1>4, <2>5, <2>6, EndSound DEF CommitDefault
<1>5. CASE CountWallets(p)
  <2>1. RestType' /\ UNCHANGED <<created, asked, sent, emitted>>
    BY <1>0, <1>5 DEF RestType, CountWallets
  <2>2. CASE End(p)
    BY <2>1, <2>2, EndSound
  <2>3. CASE Goto(p, "delete")
    <3>1. Moves(p, Put(p, "delete"))
      BY <1>0, <2>3, GotoMoves DEF Places
    <3>2. Sound(Put(p, "delete"), created, asked, sent, emitted)
      BY <1>0, <1>5 DEF Sound, Put, CountWallets
    <3> QED
      BY <2>1, <3>1, <3>2, OthersSound
  <2> QED
    BY <1>5, <2>2, <2>3 DEF CountWallets
<1>6. CASE DeleteRow(p)
  <2>1. wallets' \subseteq created /\ default' \subseteq wallets' /\ balance' \in Int
    BY <1>0, <1>6 DEF DeleteRow, RestType
  <2>2. mishaps' \subseteq Mishaps
    BY <1>0, <1>6 DEF DeleteRow, RestType, Mishaps
  <2>3. RestType'
    BY <1>0, <1>6, <2>1, <2>2 DEF DeleteRow, RestType
  <2> QED
    BY <1>6, <2>3, EndSound DEF DeleteRow
<1> QED
  BY <1>1, <1>2, <1>3, <1>4, <1>5, <1>6

\* Select and Send, and the steps of webhooks up to the save.
LEMMA TypeSelect == ASSUME Typed, NEW p \in Procs, Select(p) PROVE Typed'
<1>0. RestType /\ TypeOK /\ call[p] \in Calls /\ Sound(call[p], created, asked, sent, emitted)
  BY TypeOfCalls DEF Typed
<1>1. PICK place \in DOMAIN Write :
        At(p, place) /\ Keep(p, Write[place], call[p].held, call[p].marked, Sees(p))
  BY DEF Select
<1>2. UNCHANGED <<rows, provider, ghosts, requests, faults>>
  BY DEF Select
<1>3. /\ call[p].held \in Int /\ call[p].marked \in SUBSET Ids
      /\ Sees(p) \in {"same", "differs", "gone", "none"}
  BY <1>0, SeesType DEF Calls
<1>4. <<place, Write[place]>> \in {<<"label", "labelSave">>, <<"credit", "creditSave">>,
                                  <<"refund", "refundSave">>, <<"debit", "debitSave">>}
  BY DEF Write
<1> DEFINE c == [at |-> Write[place], on |-> call[p].on, held |-> call[p].held,
                 marked |-> call[p].marked, sees |-> Sees(p)]
<1>5. Moves(p, c)
  <2>1. Write[place] \in Places
    BY <1>4 DEF Places
  <2>2. Keep(p, Write[place], call[p].held, call[p].marked, Sees(p))
    BY <1>1
  <2> QED
    BY <1>0, <1>3, <2>1, <2>2, KeepMoves
<1>6. Sound(c, created, asked, sent, emitted)
  BY <1>0, <1>1, <1>4 DEF Sound, At
<1>7. RestType'
  BY <1>0, <1>2 DEF RestType, rows, provider, ghosts
<1> HIDE DEF c
<1> QED
  BY <1>2, <1>5, <1>6, <1>7, OthersSound DEF ghosts, provider

LEMMA TypeSend == ASSUME Typed, NEW p \in Procs, Send(p) PROVE Typed'
<1>0. RestType /\ TypeOK /\ call[p] \in Calls /\ Sound(call[p], created, asked, sent, emitted)
  BY TypeOfCalls DEF Typed
<1>1. Moves(p, Put(p, "debit"))
  BY <1>0, GotoMoves DEF Send, Places
<1>2. call[p].on \in asked /\ Cash \in created /\ sent' = sent \cup {call[p].on}
      /\ UNCHANGED <<rows, asked, emitted, owed, ghosts, requests, faults>>
  BY <1>0 DEF Send, At, Sound
<1>3. RestType'
  BY <1>0, <1>2 DEF RestType, rows, ghosts
<1>4. Sound(Put(p, "debit"), created, asked, sent', emitted)
  BY <1>2 DEF Sound, Put
<1>5. \A q \in Procs : Sound(call[q], created, asked, sent', emitted)
  <2>1. ASSUME NEW q \in Procs PROVE Sound(call[q], created, asked, sent', emitted)
    <3>1. Sound(call[q], created, asked, sent, emitted)
      BY DEF Typed
    <3>2. sent \subseteq sent'
      BY <1>2
    <3> QED
      BY <3>1, <3>2, SoundGrows
  <2> QED
    BY <2>1
<1>6. \A q \in Procs : Sound(call'[q], created, asked, sent', emitted)
  BY <1>1, <1>4, <1>5 DEF Moves
<1>7. TypeOK'
  BY <1>1, <1>3 DEF TypeOK, RestType, Moves, Calls, Targets
<1> QED
  BY <1>2, <1>6, <1>7 DEF Typed, ghosts

\* The webhooks up to the save.
LEMMA TypeWebhook ==
  ASSUME Typed, NEW p \in Procs, FindRow(p) \/ TakeRow(p) \/ LockRow(p) \/ ReadWallet(p)
  PROVE  Typed'
<1> USE DEF rows, provider, ghosts, At
<1>0. RestType /\ TypeOK /\ call[p] \in Calls /\ Sound(call[p], created, asked, sent, emitted)
  BY TypeOfCalls DEF Typed
<1>1. CASE FindRow(p)
  <2>1. RestType' /\ UNCHANGED <<created, asked, sent, emitted>>
    <3>1. owed' \subseteq emitted
      BY <1>0, <1>1 DEF RestType, FindRow, Answer
    <3>2. dropped' \subseteq Withdrawals /\ raced' \subseteq Deposits
      BY <1>0, <1>1 DEF RestType, FindRow
    <3> QED
      BY <1>0, <1>1, <3>1, <3>2 DEF RestType, FindRow
  <2>2. CASE End(p)
    BY <2>1, <2>2, EndSound
  <2>3. CASE Goto(p, "take")
    <3>1. Moves(p, Put(p, "take"))
      BY <1>0, <2>3, GotoMoves DEF Places
    <3>2. Sound(Put(p, "take"), created, asked, sent, emitted)
      BY <1>0, <1>1 DEF Sound, Put, FindRow
    <3> QED
      BY <2>1, <3>1, <3>2, OthersSound
  <2> QED
    BY <1>1, <2>2, <2>3 DEF FindRow, Answer
<1>2. CASE TakeRow(p)
  <2>1. RestType' /\ UNCHANGED <<created, asked, sent, emitted>>
    BY <1>0, <1>2 DEF RestType, TakeRow
  <2>2. call[p].on \in emitted /\ call[p].on \in Events
    BY <1>0, <1>2 DEF TakeRow, Sound, RestType
  <2>3. call[p].on[1] \in Deposits \cup Withdrawals /\ call[p].on[2] \in BOOLEAN
    BY <2>2 DEF Events, Ramps
  <2>4. PICK place \in {"read", "fail", "complete", "lock"} :
          /\ Goto(p, place)
          /\ place \in {"read", "fail"} => call[p].on[1] \in Deposits
          /\ place \in {"complete", "lock"} => call[p].on[1] \in Withdrawals
          /\ place \in {"read", "complete"} => call[p].on[2]
          /\ place \in {"fail", "lock"} => ~ call[p].on[2]
    <3>1. CASE call[p].on[1] \in Deposits /\ call[p].on[2]
      <4>1. Goto(p, "read")
        BY <1>2, <3>1 DEF TakeRow
      <4> QED
        BY <3>1, <4>1
    <3>2. CASE call[p].on[1] \in Deposits /\ ~ call[p].on[2]
      <4>1. Goto(p, "fail")
        BY <1>2, <3>2 DEF TakeRow
      <4> QED
        BY <3>2, <4>1
    <3>3. CASE call[p].on[1] \notin Deposits /\ call[p].on[2]
      <4>1. Goto(p, "complete")
        BY <1>2, <3>3 DEF TakeRow
      <4> QED
        BY <2>3, <3>3, <4>1
    <3>4. CASE call[p].on[1] \notin Deposits /\ ~ call[p].on[2]
      <4>1. Goto(p, "lock")
        BY <1>2, <3>4 DEF TakeRow
      <4> QED
        BY <2>3, <3>4, <4>1
    <3> QED
      BY <3>1, <3>2, <3>3, <3>4
  <2>5. Moves(p, Put(p, place))
    BY <1>0, <2>4, GotoMoves DEF Places
  <2>6. Sound(Put(p, place), created, asked, sent, emitted)
    BY <2>2, <2>4 DEF Sound, Put
  <2> QED
    BY <2>1, <2>5, <2>6, OthersSound
<1>3. CASE LockRow(p)
  <2>1. RestType' /\ UNCHANGED <<created, asked, sent, emitted>>
    BY <1>0, <1>3 DEF RestType, LockRow
  <2>2. Moves(p, Put(p, "refundRead"))
    BY <1>0, <1>3, GotoMoves DEF LockRow, Places
  <2>3. Sound(Put(p, "refundRead"), created, asked, sent, emitted)
    BY <1>0, <1>3 DEF Sound, Put, LockRow
  <2> QED
    BY <2>1, <2>2, <2>3, OthersSound
<1>4. CASE ReadWallet(p)
  <2>1. RestType' /\ UNCHANGED <<created, asked, sent, emitted>>
    BY <1>0, <1>4 DEF RestType, ReadWallet
  <2>2. PICK next \in {"credit", "refund"} :
          /\ call[p].at = IF next = "credit" THEN "read" ELSE "refundRead"
          /\ IF Cash \in wallets THEN Keep(p, next, balance, {}, "same")
                                 ELSE Keep(p, Write[next], 0, {}, "none")
    BY <1>4 DEF ReadWallet
  <2>3. CASE Cash \in wallets
    <3> DEFINE c == [at |-> next, on |-> call[p].on, held |-> balance, marked |-> {}, sees |-> "same"]
    <3>1. Moves(p, c)
      BY <1>0, <2>2, <2>3, KeepMoves DEF Places, RestType
    <3>2. Cash \in created
      BY <1>0, <2>3 DEF RestType
    <3>3. Sound(c, created, asked, sent, emitted)
      BY <1>0, <2>2, <3>2 DEF Sound
    <3> QED
      BY <2>1, <3>1, <3>3, OthersSound
  <2>4. CASE Cash \notin wallets
    <3>1. PICK place \in {"creditSave", "refundSave"} :
            /\ Keep(p, place, 0, {}, "none")
            /\ next = "credit" => place = "creditSave"
            /\ next = "refund" => place = "refundSave"
      <4>1. Keep(p, Write[next], 0, {}, "none") /\ (next = "credit" \/ next = "refund")
        BY <2>2, <2>4
      <4>2. Write["credit"] = "creditSave" /\ Write["refund"] = "refundSave"
        BY DEF Write
      <4>3. CASE next = "credit"
        BY <4>1, <4>2, <4>3
      <4>4. CASE next = "refund"
        BY <4>1, <4>2, <4>4
      <4> QED
        BY <4>1, <4>3, <4>4
    <3> DEFINE c == [at |-> place, on |-> call[p].on, held |-> 0, marked |-> {}, sees |-> "none"]
    <3>2. Moves(p, c)
      <4>1. /\ place \in Places /\ {} \in SUBSET Ids /\ 0 \in Int
            /\ "none" \in {"same", "differs", "gone", "none"}
        BY <3>1 DEF Places
      <4>2. Keep(p, place, 0, {}, "none")
        BY <3>1
      <4> QED
        BY <1>0, <4>1, <4>2, KeepMoves
    <3>3. Sound(c, created, asked, sent, emitted)
      BY <1>0, <2>2, <3>1 DEF Sound
    <3> HIDE DEF c
    <3> QED
      BY <2>1, <3>2, <3>3, OthersSound
  <2> QED
    BY <2>3, <2>4
<1> QED
  BY <1>1, <1>2, <1>3, <1>4

\* The commits of the fiat ramp, and a failing statement.
LEMMA TypeCommit ==
  ASSUME Typed, NEW p \in Procs,
         Debit(p) \/ Credit(p) \/ FailDeposit(p) \/ Complete(p) \/ Refund(p)
  PROVE  Typed'
<1> USE DEF ghosts, provider, At
<1>0. RestType /\ call[p] \in Calls /\ Sound(call[p], created, asked, sent, emitted)
  BY TypeOfCalls DEF Typed
<1>1. UNCHANGED <<default, user, asked, sent, emitted, created, raced, repeated, dropped,
                  requests, faults>>
  BY DEF Debit, Credit, FailDeposit, Complete, Refund, Answer
<1>2. End(p)
  BY DEF Debit, Credit, FailDeposit, Complete, Refund, Answer
<1>3. owed' \subseteq owed
  BY DEF Debit, Credit, FailDeposit, Complete, Refund, Answer
<1>4. /\ wallets' \subseteq created' /\ default' \subseteq wallets'
      /\ balance' \in Int /\ due' \in Int /\ mishaps' \subseteq Mishaps
  <2>1. CASE SaveCash(p)
    <3>1. CASE FailDeposit(p) \/ Complete(p)
      BY <1>0, <3>1 DEF FailDeposit, Complete, RestType
    <3>2. CASE Debit(p) \/ Credit(p) \/ Refund(p)
      <4>1. At(p, "debitSave") \/ At(p, "creditSave") \/ At(p, "refundSave")
        BY <3>2 DEF Debit, Credit, Refund
      <4> QED
        BY <1>1, <2>1, <4>1, CashType
    <3> QED
      BY <3>1, <3>2
  <2>2. CASE UNCHANGED <<wallets, balance, due, mishaps>>
    BY <1>0, <1>1, <2>2 DEF RestType
  <2> QED
    BY <2>1, <2>2 DEF Debit, Credit, FailDeposit, Complete, Refund
<1>5. status' \in [Ramps -> Statuses] /\ credited' \in [Deposits -> Nat]
      /\ refunded' \in [Withdrawals -> Nat]
  <2>1. CASE Debit(p)
    <3>1. call[p].on \in Ramps
      BY <1>0, <2>1 DEF Debit, Sound, RestType, Ramps
    <3> QED
      BY <1>0, <2>1, <3>1 DEF Debit, Recorded, RestType, Statuses
  <2>2. CASE Credit(p)
    <3>1. call[p].on[1] \in Deposits /\ call[p].on[1] \in Ramps /\ Credited(p) \in Nat
      BY <1>0, <2>2 DEF Credit, Sound, Ramps, Credited
    <3> QED
      BY <1>0, <2>2, <3>1 DEF Credit, PaidRow, RestType, Statuses
  <2>3. CASE FailDeposit(p)
    BY <1>0, <2>3 DEF FailDeposit, Sound, Ramps, RestType, Statuses
  <2>4. CASE Complete(p)
    BY <1>0, <2>4 DEF Complete, Sound, Ramps, RestType, Statuses
  <2>5. CASE Refund(p)
    <3>1. call[p].on[1] \in Withdrawals /\ call[p].on[1] \in Ramps /\ Credited(p) \in Nat
      BY <1>0, <2>5 DEF Refund, Sound, Ramps, Credited
    <3> QED
      BY <1>0, <2>5, <3>1 DEF Refund, RefundedRow, RestType, Statuses
  <2> QED
    BY <2>1, <2>2, <2>3, <2>4, <2>5
<1>6. RestType'
  BY <1>0, <1>1, <1>3, <1>4, <1>5 DEF RestType
<1> QED
  BY <1>1, <1>2, <1>6, EndSound

LEMMA TypeFail == ASSUME Typed, NEW p \in Procs, Fail(p) PROVE Typed'
<1>0. RestType /\ MaxFaults \in Nat
  BY TypeOfCalls, WalletsAssumption
<1>1. faults + 1 \in 0 .. MaxFaults
  BY <1>0 DEF RestType, Fail
<1>2. RestType'
  BY <1>0, <1>1 DEF RestType, Fail, OwedAfterFault, rows
<1> QED
  BY <1>2, EndSound DEF Fail

LEMMA TypeEnvironment == ASSUME Typed, Environment PROVE Typed'
<1>0. RestType /\ TypeOK
  BY TypeParts DEF Typed
<1>1. call' = call /\ UNCHANGED <<created, asked, sent>> /\ emitted \subseteq emitted'
  BY DEF Environment, InitiateDeposit, Pay, Settle, provider, ghosts
<1>2. RestType'
  <2>1. ASSUME NEW d \in Deposits, InitiateDeposit(d) PROVE RestType'
    BY <1>0, <2>1 DEF InitiateDeposit, RestType, Statuses, provider, ghosts
  <2>2. ASSUME NEW d \in Deposits, NEW ok \in BOOLEAN, Pay(d, ok) PROVE RestType'
    <3>1. <<d, ok>> \in Events
      BY DEF Events, Ramps
    <3> QED
      BY <1>0, <2>2, <3>1 DEF Pay, RestType, rows, ghosts
  <2>3. ASSUME NEW w \in Withdrawals, NEW ok \in BOOLEAN, Settle(w, ok) PROVE RestType'
    <3>1. <<w, ok>> \in Events
      BY DEF Events, Ramps
    <3> QED
      BY <1>0, <2>3, <3>1 DEF Settle, RestType, rows, ghosts
  <2> QED
    BY <2>1, <2>2, <2>3 DEF Environment
<1>3. ASSUME NEW q \in Procs PROVE Sound(call'[q], created', asked', sent', emitted')
  <2>1. Sound(call[q], created, asked, sent, emitted)
    BY DEF Typed
  <2>2. Sound(call[q], created, asked, sent, emitted')
    BY <1>1, <2>1, SoundGrows
  <2> QED
    BY <1>1, <2>2
<1>4. TypeOK'
  BY <1>0, <1>1, <1>2 DEF TypeOK, RestType
<1> QED
  BY <1>3, <1>4 DEF Typed

LEMMA TypeStep == Typed /\ [Next]_vars => Typed'
<1> SUFFICES ASSUME Typed, [Next]_vars PROVE Typed'
  OBVIOUS
<1>1. CASE Environment
  BY <1>1, TypeEnvironment
<1>2. ASSUME NEW p \in Procs, Begin(p) PROVE Typed'
  BY <1>2, TypeBegin
<1>3. ASSUME NEW p \in Procs, Step(p) PROVE Typed'
  BY <1>3, TypeRows, TypeSelect, TypeSend, TypeWebhook, TypeCommit DEF Step
<1>4. ASSUME NEW p \in Procs, Fail(p) PROVE Typed'
  BY <1>4, TypeFail
<1>5. CASE UNCHANGED vars
  BY <1>5 DEF vars, Typed, TypeOK
<1> QED
  BY <1>1, <1>2, <1>3, <1>4, <1>5 DEF Next

LEMMA TypedAlways == Spec => []Typed
<1> QED
  BY TypeInit, TypeStep, PTL DEF Spec

\* Every reachable state has the types, and a call is at work on what its place
\* says, whatever the number of calls.
THEOREM TypeCorrect == Spec => []TypeOK
<1>1. Typed => TypeOK
  BY DEF Typed
<1> QED
  BY TypedAlways, <1>1, PTL

-------------------------------------------------------------------------------
\* The default and the keys of the user.
OneChosen ==
  "default" \notin mishaps =>
    \E i \in Ids : default = {i} /\ user.key = i /\ (i \in Signing => user.secret = i)

\* Only three steps write isDefault, or the row of the user.
LEMMA DefaultFrame ==
  ASSUME [Next]_vars,
         \A p \in Procs : ~ (SaveLabel(p) \/ CommitDefault(p) \/ DeleteRow(p))
  PROVE  default' = default /\ user' = user /\ mishaps \subseteq mishaps'
<1> USE DEF rows, provider, ghosts
<1> DEFINE Same == default' = default /\ user' = user /\ mishaps \subseteq mishaps'
<1>1. CASE Environment
  BY <1>1 DEF Environment, InitiateDeposit, Pay, Settle
<1>2. ASSUME NEW p \in Procs, Begin(p) PROVE Same
  <2>1. UNCHANGED rows /\ mishaps' = mishaps
    BY <1>2 DEF Begin, AddWallet, Rename, SetDefault, DeleteWallet, InitiateWithdrawal, Deliver, Repeat
  <2> QED
    BY <2>1
<1>3. ASSUME NEW p \in Procs, Step(p) PROVE Same
  <2>1. CASE InsertWallet(p) \/ FindDefaults(p) \/ CountWallets(p) \/ Select(p) \/ Send(p)
    BY <2>1 DEF InsertWallet, FindDefaults, CountWallets, Select, Send
  <2>2. CASE Debit(p) \/ Credit(p) \/ Refund(p)
    BY <2>2 DEF Debit, Credit, Refund, SaveCash
  <2>3. CASE FindRow(p) \/ TakeRow(p) \/ LockRow(p) \/ ReadWallet(p)
    BY <2>3 DEF FindRow, TakeRow, LockRow, ReadWallet
  <2>4. CASE FailDeposit(p) \/ Complete(p)
    BY <2>4 DEF FailDeposit, Complete
  <2> QED
    BY <1>3, <2>1, <2>2, <2>3, <2>4 DEF Step
<1>4. ASSUME NEW p \in Procs, Fail(p) PROVE Same
  BY <1>4 DEF Fail
<1>5. CASE UNCHANGED vars
  BY <1>5 DEF vars
<1> QED
  BY <1>1, <1>2, <1>3, <1>4, <1>5 DEF Next

LEMMA OneChosenStep == Typed /\ OneChosen /\ [Next]_vars => OneChosen'
<1> SUFFICES ASSUME Typed, OneChosen, [Next]_vars, "default" \notin mishaps'
             PROVE  \E i \in Ids :
               default' = {i} /\ user'.key = i /\ (i \in Signing => user'.secret = i)
  BY DEF OneChosen
<1>1. CASE \A p \in Procs : ~ (SaveLabel(p) \/ CommitDefault(p) \/ DeleteRow(p))
  BY <1>1, DefaultFrame DEF OneChosen
<1>2. ASSUME NEW p \in Procs, SaveLabel(p)
      PROVE  default' = default /\ user' = user /\ "default" \notin mishaps
  BY <1>2 DEF SaveLabel
<1>3. ASSUME NEW p \in Procs, CommitDefault(p)
      PROVE  \E i \in Ids :
               default' = {i} /\ user'.key = i /\ (i \in Signing => user'.secret = i)
  <2> DEFINE i == call[p].on
  <2>1. CASE i = Cash
    <3>1. default' = default /\ user' = user /\ mishaps' = mishaps
      BY <1>3, <2>1 DEF CommitDefault
    <3> QED
      BY <3>1 DEF OneChosen
  <2>2. CASE i # Cash
    <3>1. /\ default' = (default \ call[p].marked) \cup ({i} \cap wallets)
          /\ user' = Keys(i)
          /\ call[p].marked = default /\ i \in wallets
      BY <1>3, <2>2 DEF CommitDefault, Cleared, Marked
    <3>2. default' = {i}
      BY <3>1
    <3>3. i \in Ids
      BY <3>1 DEF Typed, TypeOK
    <3>4. user' = [key |-> i, secret |-> IF i \in Signing THEN i ELSE user.secret]
      BY <3>1 DEF Keys
    <3>5. user'.key = i /\ (i \in Signing => user'.secret = i)
      BY <3>4
    <3> QED
      BY <3>2, <3>3, <3>5
  <2> QED
    BY <2>1, <2>2
<1>4. ASSUME NEW p \in Procs, DeleteRow(p)
      PROVE  default' = default /\ user' = user /\ "default" \notin mishaps
  <2>1. call[p].marked = {}
    BY <1>4 DEF Typed, Sound, DeleteRow, At
  <2> QED
    BY <1>4, <2>1 DEF DeleteRow
<1> QED
  BY <1>1, <1>2, <1>3, <1>4 DEF OneChosen

LEMMA OneChosenAlways == Spec => []OneChosen
<1>1. Init => OneChosen
  BY WalletsAssumption DEF Init, OneChosen
<1> QED
  BY <1>1, OneChosenStep, TypedAlways, PTL DEF Spec

\* However many calls choose, rename and delete wallets, there is one default.
THEOREM DefaultIsOne == Spec => []OneDefault
<1>1. ASSUME OneChosen, "default" \notin mishaps PROVE Cardinality(default) = 1
  <2>1. PICK i \in Ids : default = {i}
    BY <1>1 DEF OneChosen
  <2> QED
    BY <2>1, FS_Singleton
<1>2. OneChosen => OneDefault
  BY <1>1 DEF OneDefault
<1> QED
  BY <1>2, OneChosenAlways, PTL

\* ... and the user has its keys.
THEOREM KeysAreOfDefault == Spec => []UserMirrorsDefault
<1>1. ASSUME OneChosen, "default" \notin mishaps, NEW j \in default
      PROVE  user.key = j /\ (j \in Signing => user.secret = j)
  <2>1. PICK i \in Ids : default = {i} /\ user.key = i /\ (i \in Signing => user.secret = i)
    BY <1>1 DEF OneChosen
  <2>2. i = j
    BY <2>1
  <2> QED
    BY <2>1, <2>2
<1>2. OneChosen => UserMirrorsDefault
  BY <1>1 DEF UserMirrorsDefault
<1> QED
  BY <1>2, OneChosenAlways, PTL

-------------------------------------------------------------------------------
\* The balance of Cash.  A step writes it by SaveCash, saves it with a label,
\* deletes it with its row, or leaves it alone.
LEMMA BalanceFrame ==
  ASSUME [Next]_vars,
         \A p \in Procs : ~ (SaveLabel(p) \/ DeleteRow(p) \/ Debit(p) \/ Credit(p) \/ Refund(p))
  PROVE  balance' = balance /\ due' = due /\ mishaps \subseteq mishaps'
<1> USE DEF rows, provider, ghosts
<1> DEFINE Same == balance' = balance /\ due' = due /\ mishaps \subseteq mishaps'
<1>1. CASE Environment
  BY <1>1 DEF Environment, InitiateDeposit, Pay, Settle
<1>2. ASSUME NEW p \in Procs, Begin(p) PROVE Same
  <2>1. UNCHANGED rows /\ mishaps' = mishaps /\ due' = due
    BY <1>2 DEF Begin, AddWallet, Rename, SetDefault, DeleteWallet, InitiateWithdrawal, Deliver, Repeat
  <2> QED
    BY <2>1
<1>3. ASSUME NEW p \in Procs, Step(p) PROVE Same
  <2>1. CASE InsertWallet(p) \/ FindDefaults(p) \/ CountWallets(p) \/ Select(p) \/ Send(p)
    BY <2>1 DEF InsertWallet, FindDefaults, CountWallets, Select, Send
  <2>2. CASE CommitDefault(p)
    BY <2>2 DEF CommitDefault
  <2>3. CASE FindRow(p) \/ TakeRow(p) \/ LockRow(p) \/ ReadWallet(p)
    BY <2>3 DEF FindRow, TakeRow, LockRow, ReadWallet
  <2>4. CASE FailDeposit(p) \/ Complete(p)
    BY <2>4 DEF FailDeposit, Complete
  <2> QED
    BY <1>3, <2>1, <2>2, <2>3, <2>4 DEF Step
<1>4. ASSUME NEW p \in Procs, Fail(p) PROVE Same
  BY <1>4 DEF Fail
<1>5. CASE UNCHANGED vars
  BY <1>5 DEF vars
<1> QED
  BY <1>1, <1>2, <1>3, <1>4, <1>5 DEF Next

LEMMA SaveIsExact ==
  ASSUME Typed, BalanceIsExact, NEW p \in Procs, SaveCash(p) PROVE BalanceIsExact'
<1> SUFFICES ASSUME mishaps' \cap {"balance", "missing"} = {} PROVE balance' = due'
  BY DEF BalanceIsExact
<1>1. mishaps \subseteq mishaps'
  BY DEF SaveCash
<1>2. balance = due
  BY <1>1 DEF BalanceIsExact
<1>3. call[p].held \in Int /\ Delta(p) \in Int /\ balance \in Int
  BY Parts, DeltaType DEF Typed, TypeOK, Calls
<1> DEFINE writes == \/ call[p].sees = "gone" /\ Cash \notin wallets
                     \/ call[p].sees = "differs" /\ Cash \in wallets
<1>4. CASE writes
  <2>1. balance' = NewBalance(p) /\ due' = due + Delta(p) /\ balance = call[p].held
    BY <1>4 DEF SaveCash
  <2> QED
    BY <1>2, <1>3, <2>1 DEF NewBalance
<1>5. CASE ~ writes
  BY <1>2, <1>5 DEF SaveCash
<1> QED
  BY <1>4, <1>5

LEMMA BalanceStep == Typed /\ BalanceIsExact /\ [Next]_vars => BalanceIsExact'
<1> SUFFICES ASSUME Typed, BalanceIsExact, [Next]_vars PROVE BalanceIsExact'
  OBVIOUS
<1>1. CASE \A p \in Procs : ~ (SaveLabel(p) \/ DeleteRow(p) \/ Debit(p) \/ Credit(p) \/ Refund(p))
  BY <1>1, BalanceFrame DEF BalanceIsExact
<1>2. ASSUME NEW p \in Procs, SaveLabel(p) PROVE BalanceIsExact'
  <2>1. due' = due /\ mishaps \subseteq mishaps' /\ (balance' # balance => "balance" \in mishaps')
    BY <1>2 DEF SaveLabel
  <2> QED
    BY <2>1 DEF BalanceIsExact
<1>3. ASSUME NEW p \in Procs, DeleteRow(p) PROVE BalanceIsExact'
  <2>1. due' = due /\ mishaps \subseteq mishaps' /\ (balance' # balance => "missing" \in mishaps')
    BY <1>3 DEF DeleteRow
  <2> QED
    BY <2>1 DEF BalanceIsExact
<1>4. ASSUME NEW p \in Procs, Debit(p) \/ Credit(p) \/ Refund(p) PROVE BalanceIsExact'
  BY <1>4, SaveIsExact DEF Debit, Credit, Refund
<1> QED
  BY <1>1, <1>2, <1>3, <1>4

\* No credit, debit or refund is lost unless a balance read too early was saved.
THEOREM BalanceExact == Spec => []BalanceIsExact
<1>1. Init => BalanceIsExact
  BY DEF Init, BalanceIsExact
<1> QED
  BY <1>1, BalanceStep, TypedAlways, PTL DEF Spec

-------------------------------------------------------------------------------
\* How a call goes on: from one place to the next, about the same thing.
Follows ==
  {<<"label", "labelSave">>, <<"clear", "set">>, <<"count", "delete">>,
   <<"send", "debit">>, <<"debit", "debitSave">>,
   <<"find", "take">>, <<"take", "read">>, <<"take", "fail">>, <<"take", "complete">>,
   <<"take", "lock">>, <<"lock", "refundRead">>,
   <<"read", "credit">>, <<"read", "creditSave">>, <<"credit", "creditSave">>,
   <<"refundRead", "refund">>, <<"refundRead", "refundSave">>, <<"refund", "refundSave">>}

Advances(p) ==
  \E c \in Calls :
    /\ Moves(p, c) /\ c.on = call[p].on
    /\ <<call[p].at, c.at>> \in Follows
    /\ c.at \in {"creditSave", "refundSave", "debitSave"} /\ c.sees = "none" => Cash \notin wallets
    /\ c.at \in {"credit", "refund"} => Cash \in wallets
    /\ call[p].at \in {"read", "refundRead"} /\ c.at \in {"creditSave", "refundSave"} => c.sees = "none"

LEMMA GoesOn ==
  ASSUME Typed, NEW p \in Procs, NEW place,
         Goto(p, place), <<call[p].at, place>> \in Follows,
         place \in {"delete", "debit", "take", "read", "fail", "complete", "lock", "refundRead"}
  PROVE  Advances(p)
<1>1. Moves(p, Put(p, place)) /\ Put(p, place) \in Calls
  <2>1. place \in Places
    BY DEF Places
  <2>2. call[p] \in Calls
    BY TypeOfCalls
  <2> QED
    BY <2>1, <2>2, GotoMoves DEF Put, Calls, Typed
<1>2. Put(p, place).on = call[p].on /\ Put(p, place).at = place
  BY DEF Put
<1> QED
  BY <1>1, <1>2 DEF Advances

LEMMA KeepsOn ==
  ASSUME Typed, NEW p \in Procs, NEW place \in Places, NEW held \in Int,
         NEW marked \in SUBSET Ids, NEW sees \in {"same", "differs", "gone", "none"},
         Keep(p, place, held, marked, sees), <<call[p].at, place>> \in Follows,
         place \in {"creditSave", "refundSave", "debitSave"} /\ sees = "none" => Cash \notin wallets,
         place \in {"credit", "refund"} => Cash \in wallets,
         call[p].at \in {"read", "refundRead"} /\ place \in {"creditSave", "refundSave"} => sees = "none"
  PROVE  Advances(p)
<1> DEFINE c == [at |-> place, on |-> call[p].on, held |-> held, marked |-> marked, sees |-> sees]
<1>1. call[p] \in Calls
  BY TypeOfCalls
<1>2. Moves(p, c)
  BY KeepMoves DEF Typed
<1>3. c \in Calls
  BY <1>1 DEF Calls
<1>4. c.at = place /\ c.on = call[p].on /\ c.sees = sees
  OBVIOUS
<1> HIDE DEF c
<1> QED
  BY <1>2, <1>3, <1>4 DEF Advances

LEMMA WalletReads ==
  ASSUME Typed, NEW p \in Procs, ReadWallet(p) PROVE Advances(p)
<1>1. PICK next \in {"credit", "refund"} :
        /\ call[p].at = IF next = "credit" THEN "read" ELSE "refundRead"
        /\ IF Cash \in wallets THEN Keep(p, next, balance, {}, "same")
                               ELSE Keep(p, Write[next], 0, {}, "none")
  BY DEF ReadWallet, At
<1>2. balance \in Int /\ 0 \in Int /\ {} \in SUBSET Ids
      /\ "same" \in {"same", "differs", "gone", "none"}
      /\ "none" \in {"same", "differs", "gone", "none"}
  BY DEF Typed, TypeOK
<1>3. CASE Cash \in wallets
  <2>1. next \in Places /\ Keep(p, next, balance, {}, "same")
    BY <1>1, <1>3 DEF Places
  <2>2. <<call[p].at, next>> \in Follows
    BY <1>1 DEF Follows
  <2>3. next \notin {"creditSave", "refundSave", "debitSave"}
    BY <1>1
  <2> QED
    BY <1>2, <1>3, <2>1, <2>2, <2>3, KeepsOn
<1>4. CASE Cash \notin wallets
  <2>0. Keep(p, Write[next], 0, {}, "none") /\ (next = "credit" \/ next = "refund")
    BY <1>1, <1>4
  <2>1. Write["credit"] = "creditSave" /\ Write["refund"] = "refundSave"
    BY DEF Write
  <2>2. CASE next = "credit"
    <3>1. /\ "creditSave" \in Places /\ Keep(p, "creditSave", 0, {}, "none")
          /\ call[p].at = "read"
      BY <1>1, <2>0, <2>1, <2>2 DEF Places
    <3>2. <<call[p].at, "creditSave">> \in Follows
      BY <3>1 DEF Follows
    <3> QED
      BY <1>2, <1>4, <3>1, <3>2, KeepsOn
  <2>3. CASE next = "refund"
    <3>1. /\ "refundSave" \in Places /\ Keep(p, "refundSave", 0, {}, "none")
          /\ call[p].at = "refundRead"
      BY <1>1, <2>0, <2>1, <2>3 DEF Places
    <3>2. <<call[p].at, "refundSave">> \in Follows
      BY <3>1 DEF Follows
    <3> QED
      BY <1>2, <1>4, <3>1, <3>2, KeepsOn
  <2> QED
    BY <2>0, <2>2, <2>3
<1> QED
  BY <1>3, <1>4

LEMMA StepAdvances ==
  ASSUME Typed, NEW p \in Procs,
         \/ FindDefaults(p) \/ CountWallets(p) \/ Select(p) \/ Send(p)
         \/ FindRow(p) \/ TakeRow(p) \/ LockRow(p) \/ ReadWallet(p)
  PROVE  Advances(p) \/ Moves(p, Idle)
<1> USE DEF At
<1>0. RestType /\ TypeOK /\ call[p] \in Calls /\ Sound(call[p], created, asked, sent, emitted)
  BY TypeOfCalls DEF Typed
<1>1. CASE FindDefaults(p)
  <2>1. /\ "set" \in Places /\ default \in SUBSET Ids /\ call[p].held \in Int
        /\ call[p].sees \in {"same", "differs", "gone", "none"}
        /\ <<call[p].at, "set">> \in Follows /\ call[p].at = "clear"
    BY <1>0, <1>1 DEF FindDefaults, Places, Calls, RestType, Follows
  <2> QED
    BY <1>1, <2>1, KeepsOn DEF FindDefaults
<1>2. CASE CountWallets(p)
  <2>1. <<call[p].at, "delete">> \in Follows
    BY <1>2 DEF CountWallets, Follows
  <2> QED
    BY <1>0, <1>2, <2>1, GoesOn, EndMoves DEF CountWallets
<1>3. CASE Select(p)
  <2>1. PICK place \in DOMAIN Write :
          At(p, place) /\ Keep(p, Write[place], call[p].held, call[p].marked, Sees(p))
    BY <1>3 DEF Select
  <2>2. <<call[p].at, Write[place]>> \in {<<"label", "labelSave">>, <<"credit", "creditSave">>,
                                  <<"refund", "refundSave">>, <<"debit", "debitSave">>}
    BY <2>1 DEF Write
  <2>3. PICK to : to = Write[place]
    OBVIOUS
  <2>4. /\ to \in Places /\ <<call[p].at, to>> \in Follows
        /\ to \notin {"credit", "refund"} /\ call[p].at \notin {"read", "refundRead"}
    BY <2>2, <2>3 DEF Places, Follows
  <2>5. /\ call[p].held \in Int /\ call[p].marked \in SUBSET Ids
        /\ Sees(p) \in {"same", "differs", "gone", "none"} /\ Sees(p) # "none"
    BY <1>0, SeesType DEF Calls
  <2>6. Keep(p, to, call[p].held, call[p].marked, Sees(p))
    BY <2>1, <2>3
  <2> QED
    BY <2>4, <2>5, <2>6, KeepsOn
<1>4. CASE Send(p)
  <2>1. <<call[p].at, "debit">> \in Follows
    BY <1>4 DEF Send, Follows
  <2> QED
    BY <1>4, <2>1, GoesOn DEF Send
<1>5. CASE FindRow(p)
  <2>1. <<call[p].at, "take">> \in Follows
    BY <1>5 DEF FindRow, Follows
  <2>2. Goto(p, "take") \/ End(p)
    BY <1>5 DEF FindRow, Answer
  <2> QED
    BY <1>0, <2>1, <2>2, GoesOn, EndMoves
<1>6. CASE TakeRow(p)
  <2>1. PICK place \in {"read", "fail", "complete", "lock"} : Goto(p, place)
    BY <1>6 DEF TakeRow
  <2>2. <<call[p].at, place>> \in Follows
    BY <1>6, <2>1 DEF TakeRow, Follows
  <2> QED
    BY <2>1, <2>2, GoesOn
<1>7. CASE LockRow(p)
  <2>1. <<call[p].at, "refundRead">> \in Follows
    BY <1>7 DEF LockRow, Follows
  <2> QED
    BY <1>7, <2>1, GoesOn DEF LockRow
<1>8. CASE ReadWallet(p)
  BY <1>8, WalletReads
<1> QED
  BY <1>1, <1>2, <1>3, <1>4, <1>5, <1>6, <1>7, <1>8

LEMMA Starts ==
  ASSUME Typed, NEW p \in Procs, NEW place \in Places, NEW on \in Targets, NEW held \in Int,
         NEW marked \in SUBSET Ids, Start(p, place, on, held, marked)
  PROVE  call[p].at = "idle" /\ \E c \in Calls : Moves(p, c) /\ c.at = place /\ c.on = on
<1> DEFINE c == [at |-> place, on |-> on, held |-> held, marked |-> marked, sees |-> "same"]
<1>1. Moves(p, c) /\ call[p].at = "idle"
  BY StartMoves DEF Typed
<1>2. c \in Calls /\ c.at = place /\ c.on = on
  BY DEF Calls
<1> HIDE DEF c
<1> QED
  BY <1>1, <1>2

LEMMA StepEnds ==
  ASSUME Typed, NEW p \in Procs,
         \/ InsertWallet(p) \/ SaveLabel(p) \/ CommitDefault(p) \/ DeleteRow(p)
         \/ Debit(p) \/ Credit(p) \/ FailDeposit(p) \/ Complete(p) \/ Refund(p) \/ Fail(p)
  PROVE  Moves(p, Idle)
<1>1. End(p)
  BY DEF InsertWallet, SaveLabel, CommitDefault, DeleteRow, Debit, Credit, FailDeposit, Complete,
         Refund, Fail, Answer
<1> QED
  BY <1>1, EndMoves DEF Typed

LEMMA StepsSplit ==
  ASSUME NEW p \in Procs, Step(p)
  PROVE  \/ FindDefaults(p) \/ CountWallets(p) \/ Select(p) \/ Send(p)
         \/ FindRow(p) \/ TakeRow(p) \/ LockRow(p) \/ ReadWallet(p)
         \/ InsertWallet(p) \/ SaveLabel(p) \/ CommitDefault(p) \/ DeleteRow(p)
         \/ Debit(p) \/ Credit(p) \/ FailDeposit(p) \/ Complete(p) \/ Refund(p)
  BY DEF Step

-------------------------------------------------------------------------------
\* The limit.  i will be a wallet when c, of those in progress, has come to its end.
MayAdd(c, i) ==
  \/ c.at \in {"insert", "label", "labelSave"} /\ c.on = i
  \/ c.at \in {"send", "debit", "credit", "refund"} /\ i = Cash
  \/ c.at \in {"debitSave", "creditSave", "refundSave"} /\ c.sees # "none" /\ i = Cash

InProgress == {i \in Ids : \E p \in Procs : MayAdd(call[p], i)}

Expected == wallets \cup InProgress

ExpectedIsLimited == Cardinality(Expected) <= MaxWallets + Cardinality(Procs) - 1

LEMMA ExpectedIsFinite == Typed => IsFiniteSet(Expected) /\ IsFiniteSet(wallets) /\ Expected \subseteq Ids
<1>1. Typed => wallets \in SUBSET Ids /\ Expected \in SUBSET Ids
  BY DEF Typed, TypeOK, Expected, InProgress
<1>2. IsFiniteSet(Ids)
  BY WalletsAssumption
<1> QED
  BY <1>1, <1>2, FS_Subset

LEMMA FewInProgress ==
  IsFiniteSet(InProgress) /\ Cardinality(InProgress) <= Cardinality(Procs)
<1> DEFINE f == [p \in Procs |-> IF call[p].at \in {"insert", "label", "labelSave"}
                                  THEN call[p].on ELSE Cash]
           T == {f[p] : p \in Procs}
<1>1. IsFiniteSet(Procs)
  BY WalletsAssumption
<1>2. f \in Surjection(Procs, T)
  BY DEF Surjection
<1>3. IsFiniteSet(T) /\ Cardinality(T) <= Cardinality(Procs)
  BY <1>1, <1>2, FS_Surjection
<1>4. InProgress \in SUBSET T
  BY DEF InProgress, MayAdd
<1>5. IsFiniteSet(InProgress) /\ Cardinality(InProgress) <= Cardinality(T)
  BY <1>3, <1>4, FS_Subset
<1>6. Cardinality(InProgress) \in Nat /\ Cardinality(T) \in Nat /\ Cardinality(Procs) \in Nat
  BY <1>1, <1>3, <1>5, FS_CardinalityType
<1> HIDE DEF T
<1> QED
  BY <1>3, <1>5, <1>6

\* A step that brings no new wallet into sight.
LEMMA NoneExpected ==
  ASSUME Typed, Typed', ExpectedIsLimited, Expected' \subseteq Expected
  PROVE  ExpectedIsLimited'
<1>1. IsFiniteSet(Expected) /\ IsFiniteSet(Expected')
  <2>1. (Typed => IsFiniteSet(Expected))'
    BY ExpectedIsFinite, PTL
  <2> QED
    BY <2>1, ExpectedIsFinite
<1>2. Cardinality(Expected') <= Cardinality(Expected)
  BY <1>1, FS_Subset
<1>3. Cardinality(Expected) \in Nat /\ Cardinality(Expected') \in Nat /\ Cardinality(Procs) \in Nat
      /\ MaxWallets \in Nat
  BY <1>1, FS_CardinalityType, WalletsAssumption
<1> QED
  BY <1>2, <1>3 DEF ExpectedIsLimited

LEMMA WithinExpected ==
  ASSUME NEW p \in Procs, NEW c, Moves(p, c), wallets' \subseteq Expected,
         \A i \in Ids : MayAdd(c, i) => i \in Expected
  PROVE  Expected' \subseteq Expected
<1>1. ASSUME NEW i \in InProgress' PROVE i \in Expected
  <2>1. PICK q \in Procs : MayAdd(call'[q], i) /\ i \in Ids
    BY <1>1 DEF InProgress
  <2>2. CASE q = p
    BY <2>1, <2>2 DEF Moves
  <2>3. CASE q # p
    BY <2>1, <2>3 DEF Moves, Expected, InProgress
  <2> QED
    BY <2>2, <2>3
<1> QED
  BY <1>1 DEF Expected

LEMMA AddWalletLimited ==
  ASSUME Typed, Typed', NEW p \in Procs, NEW i \in Ids, AddWallet(p, i)
  PROVE  ExpectedIsLimited'
<1>1. wallets' = wallets /\ Cardinality(wallets) < MaxWallets
  BY DEF AddWallet, UnderLimit, rows
<1>2. IsFiniteSet(wallets) /\ IsFiniteSet(InProgress')
      /\ Cardinality(InProgress') <= Cardinality(Procs)
  <2>1. (IsFiniteSet(InProgress) /\ Cardinality(InProgress) <= Cardinality(Procs))'
    BY FewInProgress, PTL
  <2> QED
    BY <2>1, ExpectedIsFinite
<1>3. Cardinality(wallets \cup InProgress') <= Cardinality(wallets) + Cardinality(InProgress')
  <2>1. IsFiniteSet(wallets \cap InProgress')
    BY <1>2, FS_Intersection
  <2>2. Cardinality(wallets \cap InProgress') \in Nat /\ Cardinality(wallets) \in Nat
        /\ Cardinality(InProgress') \in Nat
    BY <1>2, <2>1, FS_CardinalityType
  <2>3. Cardinality(wallets \cup InProgress') =
          Cardinality(wallets) + Cardinality(InProgress') - Cardinality(wallets \cap InProgress')
    BY <1>2, FS_Union
  <2> QED
    BY <2>2, <2>3
<1>4. Cardinality(wallets) \in Nat /\ Cardinality(InProgress') \in Nat
      /\ Cardinality(Procs) \in Nat /\ MaxWallets \in Nat
      /\ Cardinality(wallets \cup InProgress') \in Nat
  <2>1. IsFiniteSet(wallets \cup InProgress')
    BY <1>2, FS_Union
  <2> QED
    BY <1>2, <2>1, FS_CardinalityType, WalletsAssumption
<1>5. Cardinality(wallets \cup InProgress') <= MaxWallets + Cardinality(Procs) - 1
  BY <1>1, <1>2, <1>3, <1>4
<1> QED
  BY <1>1, <1>5 DEF ExpectedIsLimited, Expected

LEMMA LimitStep == Typed /\ ExpectedIsLimited /\ [Next]_vars => ExpectedIsLimited'
<1> SUFFICES ASSUME Typed, ExpectedIsLimited, [Next]_vars PROVE ExpectedIsLimited'
  OBVIOUS
<1> USE DEF At
<1>0. Typed'
  BY TypeStep
<1>1. CASE Environment
  <2>1. wallets' = wallets /\ call' = call
    BY <1>1 DEF Environment, InitiateDeposit, Pay, Settle, rows
  <2> QED
    BY <2>1 DEF ExpectedIsLimited, Expected, InProgress
<1>2. ASSUME NEW p \in Procs, Begin(p) PROVE ExpectedIsLimited'
  <2>1. ASSUME NEW i \in Ids, AddWallet(p, i) PROVE ExpectedIsLimited'
    BY <1>0, <2>1, AddWalletLimited
  <2>2. ASSUME NEW i \in Ids, Rename(p, i) PROVE ExpectedIsLimited'
    <3>1. i \in wallets /\ wallets' = wallets
      BY <2>2 DEF Rename, rows
    <3>2. PICK c : Moves(p, c) /\ c.at = "label" /\ c.on = i
      <4>1. balance \in Int /\ default \cap {i} \in SUBSET Ids /\ "label" \in Places /\ i \in Targets
        BY DEF Typed, TypeOK, Places, Targets
      <4>2. Start(p, "label", i, balance, default \cap {i})
        BY <2>2 DEF Rename
      <4> QED
        BY <4>1, <4>2, Starts
    <3>3. Expected' \subseteq Expected
      BY <3>1, <3>2, WithinExpected DEF MayAdd, Expected
    <3> QED
      BY <1>0, <3>3, NoneExpected
  <2>3. ASSUME NEW i \in Ids, SetDefault(p, i) \/ DeleteWallet(p, i) PROVE ExpectedIsLimited'
    <3>1. wallets' = wallets
      BY <2>3 DEF SetDefault, DeleteWallet, rows
    <3>2. PICK c : Moves(p, c) /\ c.at \in {"clear", "count"}
      <4>1. /\ 0 \in Int /\ default \cap {i} \in SUBSET Ids /\ {} \in SUBSET Ids
            /\ "clear" \in Places /\ "count" \in Places /\ i \in Targets
        BY DEF Typed, TypeOK, Places, Targets
      <4>2. Start(p, "clear", i, 0, {}) \/ Start(p, "count", i, 0, default \cap {i})
        BY <2>3 DEF SetDefault, DeleteWallet
      <4> QED
        BY <4>1, <4>2, Starts
    <3>3. Expected' \subseteq Expected
      BY <3>1, <3>2, WithinExpected DEF MayAdd, Expected
    <3> QED
      BY <1>0, <3>3, NoneExpected
  <2>4. ASSUME NEW w \in Withdrawals, InitiateWithdrawal(p, w) PROVE ExpectedIsLimited'
    <3>1. Cash \in wallets /\ wallets' = wallets
      BY <2>4 DEF InitiateWithdrawal, rows
    <3>2. PICK c : Moves(p, c) /\ c.at = "send"
      <4>1. balance \in Int /\ {} \in SUBSET Ids /\ "send" \in Places /\ w \in Targets
        BY DEF Typed, TypeOK, Places, Targets
      <4>2. Start(p, "send", w, balance, {})
        BY <2>4 DEF InitiateWithdrawal
      <4> QED
        BY <4>1, <4>2, Starts
    <3>3. Expected' \subseteq Expected
      BY <3>1, <3>2, WithinExpected DEF MayAdd, Expected
    <3> QED
      BY <1>0, <3>3, NoneExpected
  <2>5. ASSUME NEW e \in Events, Deliver(p, e) \/ Repeat(p, e) PROVE ExpectedIsLimited'
    <3>1. wallets' = wallets
      BY <2>5 DEF Deliver, Repeat, rows
    <3>2. PICK c : Moves(p, c) /\ c.at = "find"
      <4>1. 0 \in Int /\ {} \in SUBSET Ids /\ "find" \in Places /\ e \in Targets
        BY DEF Places, Targets
      <4>2. Start(p, "find", e, 0, {})
        BY <2>5 DEF Deliver, Repeat
      <4> QED
        BY <4>1, <4>2, Starts
    <3>3. Expected' \subseteq Expected
      BY <3>1, <3>2, WithinExpected DEF MayAdd, Expected
    <3> QED
      BY <1>0, <3>3, NoneExpected
  <2> QED
    BY <1>2, <2>1, <2>2, <2>3, <2>4, <2>5 DEF Begin
<1>3. ASSUME NEW p \in Procs,
             \/ FindDefaults(p) \/ CountWallets(p) \/ Select(p) \/ Send(p)
             \/ FindRow(p) \/ TakeRow(p) \/ LockRow(p) \/ ReadWallet(p)
      PROVE  ExpectedIsLimited'
  <2>1. wallets' = wallets
    BY <1>3 DEF FindDefaults, CountWallets, Select, Send, FindRow, TakeRow, LockRow, ReadWallet, rows
  <2>2. CASE Moves(p, Idle)
    BY <1>0, <2>1, <2>2, IdleTyped, WithinExpected, NoneExpected DEF MayAdd, Expected
  <2>3. CASE Advances(p)
    <3>1. PICK c \in Calls :
            /\ Moves(p, c) /\ c.on = call[p].on
            /\ <<call[p].at, c.at>> \in Follows
            /\ c.at \in {"creditSave", "refundSave", "debitSave"} /\ c.sees = "none" => Cash \notin wallets
            /\ c.at \in {"credit", "refund"} => Cash \in wallets
            /\ call[p].at \in {"read", "refundRead"} /\ c.at \in {"creditSave", "refundSave"} => c.sees = "none"
      BY <2>3 DEF Advances
    <3>2. ASSUME NEW i \in Ids, MayAdd(c, i) PROVE i \in Expected
      <4>1. CASE MayAdd(call[p], i)
        BY <4>1 DEF Expected, InProgress
      <4>2. CASE ~ MayAdd(call[p], i)
        <5>1. i = Cash
          BY <3>1, <3>2, <4>2 DEF MayAdd, Follows
        <5>2. Cash \in wallets
          BY <3>1, <3>2, <4>2 DEF MayAdd, Follows
        <5> QED
          BY <5>1, <5>2 DEF Expected
      <4> QED
        BY <4>1, <4>2
    <3>3. Expected' \subseteq Expected
      BY <2>1, <3>1, <3>2, WithinExpected DEF Expected
    <3> QED
      BY <1>0, <3>3, NoneExpected
  <2> QED
    BY <1>3, <2>2, <2>3, StepAdvances
<1>4. ASSUME NEW p \in Procs,
             \/ InsertWallet(p) \/ SaveLabel(p) \/ CommitDefault(p) \/ DeleteRow(p)
             \/ Debit(p) \/ Credit(p) \/ FailDeposit(p) \/ Complete(p) \/ Refund(p) \/ Fail(p)
      PROVE  ExpectedIsLimited'
  <2>1. Moves(p, Idle)
    BY <1>4, StepEnds
  <2>2. wallets' \subseteq Expected
    <3>0. Sound(call[p], created, asked, sent, emitted) /\ wallets \subseteq Expected /\ Cash \in Ids
          /\ created \subseteq Ids
      BY TypeOfCalls, WalletsAssumption DEF Expected, RestType
    <3>1. CASE InsertWallet(p) \/ SaveLabel(p)
      <4>1. wallets' \subseteq wallets \cup {call[p].on} /\ call[p].at \in {"insert", "labelSave"}
        BY <3>1 DEF InsertWallet, SaveLabel
      <4>2. call[p].on \in Ids
        BY <3>0, <4>1 DEF Sound
      <4>3. call[p].on \in Expected
        BY <4>1, <4>2 DEF Expected, InProgress, MayAdd
      <4> QED
        BY <3>0, <4>1, <4>3
    <3>2. CASE Debit(p) \/ Credit(p) \/ Refund(p)
      <4>1. SaveCash(p) /\ call[p].at \in {"debitSave", "creditSave", "refundSave"}
        BY <3>2 DEF Debit, Credit, Refund
      <4>2. CASE wallets' = wallets
        BY <3>0, <4>2
      <4>3. CASE wallets' # wallets
        <5>1. call[p].sees = "gone" /\ wallets' = wallets \cup {Cash}
          BY <4>1, <4>3 DEF SaveCash
        <5>2. Cash \in Expected
          BY <3>0, <4>1, <5>1 DEF Expected, InProgress, MayAdd
        <5> QED
          BY <3>0, <5>1, <5>2
      <4> QED
        BY <4>2, <4>3
    <3>3. CASE CommitDefault(p) \/ DeleteRow(p) \/ FailDeposit(p) \/ Complete(p) \/ Fail(p)
      <4>1. wallets' \subseteq wallets
        BY <3>3 DEF CommitDefault, DeleteRow, FailDeposit, Complete, Fail, rows
      <4> QED
        BY <3>0, <4>1
    <3> QED
      BY <1>4, <3>1, <3>2, <3>3
  <2>3. \A i \in Ids : ~ MayAdd(Idle, i)
    BY IdleTyped DEF MayAdd
  <2> QED
    BY <1>0, <2>1, <2>2, <2>3, WithinExpected, NoneExpected
<1>5. CASE UNCHANGED vars
  BY <1>5 DEF vars, ExpectedIsLimited, Expected, InProgress
<1> QED
  BY <1>1, <1>2, <1>3, <1>4, <1>5, StepsSplit DEF Next

\* Every other call in progress adds at most one wallet to the limit.
THEOREM LimitKept == Spec => []LimitIsKept
<1>1. Init => ExpectedIsLimited
  <2> SUFFICES ASSUME Init PROVE ExpectedIsLimited
    OBVIOUS
  <2>1. InProgress = {}
    BY IdleTyped DEF Init, InProgress, MayAdd
  <2>2. Expected = wallets /\ wallets \in SUBSET Initial
    BY <2>1 DEF Expected, Init
  <2>3. IsFiniteSet(Initial) /\ IsFiniteSet(wallets) /\ IsFiniteSet(Procs)
    BY <2>2, WalletsAssumption, FS_Subset
  <2>4. Cardinality(wallets) <= Cardinality(Initial) /\ Cardinality(Initial) <= MaxWallets
    BY <2>2, <2>3, FS_Subset, WalletsAssumption
  <2>5. /\ Cardinality(wallets) \in Nat /\ Cardinality(Initial) \in Nat
        /\ Cardinality(Procs) \in Nat /\ MaxWallets \in Nat
    BY <2>3, FS_CardinalityType, WalletsAssumption
  <2>6. Cardinality(Procs) # 0
    BY <2>3, FS_EmptySet, WalletsAssumption
  <2> QED
    BY <2>2, <2>4, <2>5, <2>6 DEF ExpectedIsLimited
<1>2. Typed /\ ExpectedIsLimited => LimitIsKept
  <2> SUFFICES ASSUME Typed, ExpectedIsLimited PROVE LimitIsKept
    OBVIOUS
  <2>1. wallets \in SUBSET Expected /\ IsFiniteSet(Expected) /\ IsFiniteSet(wallets)
    BY ExpectedIsFinite DEF Expected
  <2>2. Cardinality(wallets) <= Cardinality(Expected)
    BY <2>1, FS_Subset
  <2>3. Cardinality(wallets) \in Nat /\ Cardinality(Expected) \in Nat /\ MaxWallets \in Nat
        /\ Cardinality(Procs) \in Nat
    BY <2>1, FS_CardinalityType, WalletsAssumption
  <2> QED
    BY <2>2, <2>3 DEF LimitIsKept, ExpectedIsLimited
<1> QED
  BY <1>1, <1>2, LimitStep, TypedAlways, PTL DEF Spec

-------------------------------------------------------------------------------
\* When Cash is not there, or was not when a call looked for it, it is known.
MissingIsKnown ==
  /\ Cash \notin wallets => "missing" \in mishaps
  /\ \A p \in Procs : call[p].at \in {"creditSave", "refundSave", "debitSave"} /\ call[p].sees = "none"
                      => "missing" \in mishaps

LEMMA MishapsGrow == [Next]_vars => mishaps \subseteq mishaps'
<1> SUFFICES ASSUME [Next]_vars PROVE mishaps \subseteq mishaps'
  OBVIOUS
<1>1. CASE \A p \in Procs : ~ (SaveLabel(p) \/ CommitDefault(p) \/ DeleteRow(p))
  BY <1>1, DefaultFrame
<1>2. CASE \E p \in Procs : SaveLabel(p) \/ CommitDefault(p) \/ DeleteRow(p)
  BY <1>2 DEF SaveLabel, CommitDefault, DeleteRow
<1> QED
  BY <1>1, <1>2

LEMMA CashStays ==
  ASSUME [Next]_vars, Cash \in wallets, Cash \notin wallets' PROVE "missing" \in mishaps'
<1> USE DEF rows
<1>1. CASE Environment
  BY <1>1 DEF Environment, InitiateDeposit, Pay, Settle
<1>2. ASSUME NEW p \in Procs, Begin(p) PROVE wallets' = wallets
  <2>1. UNCHANGED rows
    BY <1>2 DEF Begin, AddWallet, Rename, SetDefault, DeleteWallet, InitiateWithdrawal, Deliver, Repeat
  <2> QED
    BY <2>1
<1>3. ASSUME NEW p \in Procs, Step(p), ~ DeleteRow(p) PROVE wallets \subseteq wallets'
  <2>1. CASE FindDefaults(p) \/ CountWallets(p) \/ Select(p) \/ Send(p)
             \/ FindRow(p) \/ TakeRow(p) \/ LockRow(p) \/ ReadWallet(p)
    BY <2>1 DEF FindDefaults, CountWallets, Select, Send, FindRow, TakeRow, LockRow, ReadWallet
  <2>2. CASE InsertWallet(p) \/ SaveLabel(p) \/ CommitDefault(p) \/ FailDeposit(p) \/ Complete(p)
    BY <2>2 DEF InsertWallet, SaveLabel, CommitDefault, FailDeposit, Complete
  <2>3. CASE Debit(p) \/ Credit(p) \/ Refund(p)
    BY <2>3 DEF Debit, Credit, Refund, SaveCash
  <2> QED
    BY <1>3, <2>1, <2>2, <2>3 DEF Step
<1>4. ASSUME NEW p \in Procs, DeleteRow(p) PROVE "missing" \in mishaps'
  BY <1>4 DEF DeleteRow
<1>5. ASSUME NEW p \in Procs, Fail(p) PROVE wallets' = wallets
  BY <1>5 DEF Fail
<1>6. CASE UNCHANGED vars
  BY <1>6 DEF vars
<1> QED
  BY <1>1, <1>2, <1>3, <1>4, <1>5, <1>6 DEF Next

\* What a step may do to a call: nothing, end it, take it further, or begin it.
Begins(p) ==
  \E c \in Calls :
    /\ Moves(p, c) /\ call[p].at = "idle"
    /\ \/ c.at \in {"insert", "label", "clear", "count"} /\ c.on \in Ids
       \/ c.at = "send" /\ c.on \in Withdrawals /\ InitiateWithdrawal(p, c.on)
       \/ c.at = "find" /\ c.on \in Events /\ (Deliver(p, c.on) \/ Repeat(p, c.on))

LEMMA BeginBegins == ASSUME Typed, NEW p \in Procs, Begin(p) PROVE Begins(p)
<1>0. /\ balance \in Int /\ 0 \in Int /\ {} \in SUBSET Ids
      /\ \A i \in Ids : default \cap {i} \in SUBSET Ids
      /\ {"insert", "label", "clear", "count", "send", "find"} \subseteq Places
      /\ Ids \cup Withdrawals \cup Events = Targets
  BY DEF Typed, TypeOK, Places, Targets
<1>1. ASSUME NEW i \in Ids, AddWallet(p, i) \/ Rename(p, i) \/ SetDefault(p, i) \/ DeleteWallet(p, i)
      PROVE  Begins(p)
  <2>1. \E place \in {"insert", "label", "clear", "count"}, held \in Int, marked \in SUBSET Ids :
          Start(p, place, i, held, marked)
    BY <1>0, <1>1 DEF AddWallet, Rename, SetDefault, DeleteWallet
  <2>2. PICK place \in {"insert", "label", "clear", "count"}, held \in Int, marked \in SUBSET Ids :
          Start(p, place, i, held, marked)
    BY <2>1
  <2>3. place \in Places /\ i \in Targets
    BY <1>0, <2>2
  <2>4. call[p].at = "idle" /\ \E c \in Calls : Moves(p, c) /\ c.at = place /\ c.on = i
    BY <2>2, <2>3, Starts
  <2> QED
    BY <2>2, <2>4 DEF Begins
<1>2. ASSUME NEW w \in Withdrawals, InitiateWithdrawal(p, w) PROVE Begins(p)
  <2>1. Start(p, "send", w, balance, {})
    BY <1>2 DEF InitiateWithdrawal
  <2>2. "send" \in Places /\ w \in Targets
    BY <1>0
  <2>3. call[p].at = "idle" /\ \E c \in Calls : Moves(p, c) /\ c.at = "send" /\ c.on = w
    BY <1>0, <2>1, <2>2, Starts
  <2> QED
    BY <1>2, <2>3 DEF Begins
<1>3. ASSUME NEW e \in Events, Deliver(p, e) \/ Repeat(p, e) PROVE Begins(p)
  <2>1. Start(p, "find", e, 0, {})
    BY <1>3 DEF Deliver, Repeat
  <2>2. "find" \in Places /\ e \in Targets
    BY <1>0
  <2>3. call[p].at = "idle" /\ \E c \in Calls : Moves(p, c) /\ c.at = "find" /\ c.on = e
    BY <1>0, <2>1, <2>2, Starts
  <2> QED
    BY <1>3, <2>3 DEF Begins
<1> QED
  BY <1>1, <1>2, <1>3 DEF Begin

LEMMA StepShapes ==
  ASSUME Typed, [Next]_vars
  PROVE  call' = call \/ \E p \in Procs : Moves(p, Idle) \/ Advances(p) \/ Begins(p)
<1>1. CASE Environment
  BY <1>1 DEF Environment, InitiateDeposit, Pay, Settle
<1>2. ASSUME NEW p \in Procs, Begin(p) PROVE Begins(p)
  BY <1>2, BeginBegins
<1>3. ASSUME NEW p \in Procs, Step(p) \/ Fail(p) PROVE Moves(p, Idle) \/ Advances(p)
  BY <1>3, StepsSplit, StepAdvances, StepEnds
<1>4. CASE UNCHANGED vars
  BY <1>4 DEF vars
<1> QED
  BY <1>1, <1>2, <1>3, <1>4 DEF Next

LEMMA MissingStep == Typed /\ MissingIsKnown /\ [Next]_vars => MissingIsKnown'
<1> SUFFICES ASSUME Typed, MissingIsKnown, [Next]_vars PROVE MissingIsKnown'
  OBVIOUS
<1>1. Cash \notin wallets' => "missing" \in mishaps'
  BY CashStays, MishapsGrow DEF MissingIsKnown
<1>2. ASSUME NEW q \in Procs,
             call'[q].at \in {"creditSave", "refundSave", "debitSave"}, call'[q].sees = "none"
      PROVE  "missing" \in mishaps'
  <2>1. CASE call'[q] = call[q]
    BY <1>2, <2>1, MishapsGrow DEF MissingIsKnown
  <2>2. CASE call'[q] # call[q]
    <3>1. PICK p \in Procs : Moves(p, Idle) \/ Advances(p) \/ Begins(p)
      BY <2>2, StepShapes
    <3>2. p = q
      BY <2>2, <3>1 DEF Moves, Advances, Begins
    <3>3. ~ Moves(p, Idle) /\ ~ Begins(p)
      BY <1>2, <3>2, IdleTyped DEF Moves, Begins
    <3>4. Cash \notin wallets
      BY <1>2, <3>1, <3>2, <3>3 DEF Advances, Moves
    <3> QED
      BY <3>4, MishapsGrow DEF MissingIsKnown
  <2> QED
    BY <2>1, <2>2
<1> QED
  BY <1>1, <1>2 DEF MissingIsKnown

LEMMA MissingAlways == Spec => []MissingIsKnown
<1>1. Init => MissingIsKnown
  BY IdleTyped DEF Init, MissingIsKnown
<1> QED
  BY <1>1, MissingStep, TypedAlways, PTL DEF Spec

-------------------------------------------------------------------------------
\* Deposits.  c has found the row of x and will write it.
Working(c, x) ==
  /\ c.at \in {"take", "read", "credit", "creditSave", "fail", "complete", "lock",
               "refundRead", "refund", "refundSave"}
  /\ c.on[1] = x

\* A deposit that is COMPLETED, and one that no two webhooks raced for.
DepositIsSound(d) ==
  /\ status[d] = "COMPLETED" => credited[d] > 0 \/ "missing" \in mishaps
  /\ d \notin raced =>
       /\ credited[d] <= 1
       /\ credited[d] > 0 => status[d] = "COMPLETED"
       /\ \A p \in Procs : Working(call[p], d) => status[d] # "COMPLETED"
       /\ \A p, q \in Procs : Working(call[p], d) /\ Working(call[q], d) => p = q

DepositsAreSound == \A d \in Deposits : DepositIsSound(d)

\* Steps that leave the row of d alone.
LEMMA DepositFrame ==
  ASSUME [Next]_vars, NEW d \in Deposits, DepositIsSound(d),
         status'[d] = status[d], credited'[d] = credited[d], d \in raced => d \in raced',
         \A q \in Procs : Working(call'[q], d) => Working(call[q], d)
  PROVE  DepositIsSound(d)'
  BY MishapsGrow DEF DepositIsSound

\* Only the take of a row begins the work on it.
LEMMA WorkBegins ==
  ASSUME NEW p \in Procs, NEW x, Moves(p, Idle) \/ Begins(p) \/ (Advances(p) /\ call[p].at # "find")
  PROVE  \A q \in Procs : Working(call'[q], x) => Working(call[q], x)
<1>1. ASSUME NEW q \in Procs, Working(call'[q], x) PROVE Working(call[q], x)
  <2>1. CASE q # p
    BY <1>1, <2>1 DEF Moves, Advances, Begins
  <2>2. CASE q = p
    <3>1. ~ Moves(p, Idle) /\ ~ Begins(p)
      BY <1>1, <2>2, IdleTyped DEF Moves, Begins, Working
    <3>2. PICK c \in Calls : Moves(p, c) /\ c.on = call[p].on /\ <<call[p].at, c.at>> \in Follows
      BY <3>1 DEF Advances
    <3> QED
      BY <1>1, <2>2, <3>1, <3>2 DEF Moves, Working, Follows
  <2> QED
    BY <2>1, <2>2
<1> QED
  BY <1>1

LEMMA WebhookRows ==
  ASSUME Typed, NEW p \in Procs,
         call[p].at \in {"find", "take", "read", "credit", "creditSave", "fail", "complete", "lock",
                        "refundRead", "refund", "refundSave"}
  PROVE  /\ call[p].on \in Events /\ call[p].on = <<call[p].on[1], call[p].on[2]>>
         /\ call[p].on[1] \in Ramps /\ call[p].on[2] \in BOOLEAN
<1>1. call[p].on \in Events
  BY TypeOfCalls DEF Sound, RestType
<1> QED
  BY <1>1 DEF Events

LEMMA DepositEnvironment ==
  ASSUME Typed, NEW d \in Deposits, DepositIsSound(d), Environment PROVE DepositIsSound(d)'
<1>1. [Next]_vars
  BY DEF Next
<1>2. call' = call /\ credited' = credited /\ raced' = raced
  BY DEF Environment, InitiateDeposit, Pay, Settle, ghosts
<1>3. CASE status' = status
  BY <1>1, <1>2, <1>3, DepositFrame
<1>4. ASSUME NEW x \in Deposits, InitiateDeposit(x) PROVE DepositIsSound(d)'
  <2>1. status' = [status EXCEPT ![x] = "PENDING"] /\ status[x] = "NONE" /\ status \in [Ramps -> Statuses]
        /\ mishaps' = mishaps
    BY <1>4 DEF InitiateDeposit, Typed, TypeOK, ghosts
  <2>2. CASE x # d
    <3>1. status'[d] = status[d]
      BY <2>1, <2>2
    <3> QED
      BY <1>1, <1>2, <3>1, DepositFrame
  <2>3. CASE x = d
    <3>1. status'[d] = "PENDING" /\ status[d] = "NONE"
      BY <2>1, <2>3 DEF Ramps
    <3> QED
      BY <1>2, <3>1 DEF DepositIsSound
  <2> QED
    BY <2>2, <2>3
<1>5. status' = status \/ \E x \in Deposits : InitiateDeposit(x)
  BY DEF Environment, Pay, Settle, rows
<1> QED
  BY <1>3, <1>4, <1>5

LEMMA DepositBegin ==
  ASSUME Typed, NEW d \in Deposits, DepositIsSound(d), NEW p \in Procs, Begin(p)
  PROVE  DepositIsSound(d)'
<1>1. [Next]_vars
  BY DEF Next
<1>2. status' = status /\ credited' = credited /\ raced' = raced
  <2>1. UNCHANGED rows /\ credited' = credited /\ raced' = raced
    BY DEF Begin, AddWallet, Rename, SetDefault, DeleteWallet, InitiateWithdrawal, Deliver, Repeat, ghosts
  <2> QED
    BY <2>1 DEF rows
<1>3. \A q \in Procs : Working(call'[q], d) => Working(call[q], d)
  BY BeginBegins, WorkBegins
<1> QED
  BY <1>1, <1>2, <1>3, DepositFrame

\* Steps of calls that write no row of a deposit, and do not take one.
LEMMA DepositQuiet ==
  ASSUME Typed, NEW d \in Deposits, DepositIsSound(d), NEW p \in Procs, Step(p) \/ Fail(p),
         ~ FindRow(p), ~ Credit(p), ~ FailDeposit(p)
  PROVE  DepositIsSound(d)'
<1> USE DEF At
<1>1. [Next]_vars
  BY DEF Next
<1>2. \A q \in Procs : Working(call'[q], d) => Working(call[q], d)
  <2>1. CASE Moves(p, Idle)
    BY <2>1, WorkBegins
  <2>2. CASE Advances(p) /\ ~ Moves(p, Idle)
    <3>1. FindDefaults(p) \/ CountWallets(p) \/ Select(p) \/ Send(p)
          \/ TakeRow(p) \/ LockRow(p) \/ ReadWallet(p)
      BY <2>2, StepsSplit, StepEnds
    <3>2. call[p].at # "find"
      <4>1. CASE Select(p)
        BY <4>1 DEF Select, Write
      <4>2. CASE ReadWallet(p)
        BY <4>2 DEF ReadWallet
      <4> QED
        BY <3>1, <4>1, <4>2 DEF FindDefaults, CountWallets, Send, TakeRow, LockRow
    <3> QED
      BY <2>2, <3>2, WorkBegins
  <2> QED
    BY <2>1, <2>2, StepsSplit, StepAdvances, StepEnds
<1>3. status'[d] = status[d]
  <2>1. d \in Ramps /\ status \in [Ramps -> Statuses] /\ d \notin Withdrawals
    BY WalletsAssumption DEF Ramps, Typed, TypeOK
  <2>2. CASE Debit(p)
    <3>1. call[p].on \in Withdrawals /\ status' = [status EXCEPT ![call[p].on] = "PROCESSING"]
      BY <2>2, TypeOfCalls DEF Debit, Recorded, Sound, RestType
    <3> QED
      BY <2>1, <3>1
  <2>3. CASE Complete(p)
    <3>1. call[p].on[1] \in Withdrawals /\ status' = [status EXCEPT ![call[p].on[1]] = "COMPLETED"]
      BY <2>3, TypeOfCalls DEF Complete, Sound
    <3> QED
      BY <2>1, <3>1
  <2>4. CASE Refund(p)
    <3>1. call[p].on[1] \in Withdrawals /\ status' = [status EXCEPT ![call[p].on[1]] = "FAILED"]
      BY <2>4, TypeOfCalls DEF Refund, RefundedRow, Sound
    <3> QED
      BY <2>1, <3>1
  <2>5. CASE ~ (Debit(p) \/ Complete(p) \/ Refund(p))
    <3>1. status' = status
      <4>1. CASE InsertWallet(p) \/ SaveLabel(p) \/ CommitDefault(p) \/ DeleteRow(p)
        BY <4>1 DEF InsertWallet, SaveLabel, CommitDefault, DeleteRow
      <4>2. CASE FindDefaults(p) \/ CountWallets(p) \/ Select(p) \/ Send(p)
                 \/ TakeRow(p) \/ LockRow(p) \/ ReadWallet(p) \/ Fail(p)
        BY <4>2 DEF FindDefaults, CountWallets, Select, Send, TakeRow, LockRow, ReadWallet, Fail, rows
      <4> QED
        BY <2>5, <4>1, <4>2, StepsSplit
    <3> QED
      BY <3>1
  <2> QED
    BY <2>2, <2>3, <2>4, <2>5
<1>4. credited' = credited /\ raced' = raced
  <2>1. CASE InsertWallet(p) \/ SaveLabel(p) \/ CommitDefault(p) \/ DeleteRow(p)
    BY <2>1 DEF InsertWallet, SaveLabel, CommitDefault, DeleteRow
  <2>2. CASE FindDefaults(p) \/ CountWallets(p) \/ Select(p) \/ Send(p)
             \/ TakeRow(p) \/ LockRow(p) \/ ReadWallet(p) \/ Fail(p)
    BY <2>2 DEF FindDefaults, CountWallets, Select, Send, TakeRow, LockRow, ReadWallet, Fail, ghosts
  <2>3. CASE Debit(p) \/ Complete(p) \/ Refund(p)
    BY <2>3 DEF Debit, Complete, Refund, ghosts
  <2> QED
    BY <2>1, <2>2, <2>3, StepsSplit
<1> QED
  BY <1>1, <1>2, <1>3, <1>4, DepositFrame

\* The row is taken while it is not COMPLETED; another webhook at work on it is a race.
LEMMA DepositFind ==
  ASSUME Typed, NEW d \in Deposits, DepositIsSound(d), NEW p \in Procs, FindRow(p)
  PROVE  DepositIsSound(d)'
<1> USE DEF At
<1>1. /\ status' = status /\ credited' = credited /\ mishaps' = mishaps /\ raced \subseteq raced'
      /\ call[p].at = "find" /\ [Next]_vars
  BY DEF FindRow, rows, Next, Step
<1>2. CASE Moves(p, Idle)
  <2>1. \A q \in Procs : Working(call'[q], d) => Working(call[q], d)
    BY <1>2, WorkBegins
  <2> QED
    BY <1>1, <2>1, DepositFrame
<1>3. CASE Advances(p) /\ ~ Moves(p, Idle)
  <2>1. PICK c \in Calls : Moves(p, c) /\ c.on = call[p].on /\ <<call[p].at, c.at>> \in Follows
    BY <1>3 DEF Advances
  <2>2. c.at = "take"
    BY <1>1, <2>1 DEF Follows
  <2>3. \A q \in Procs \ {p} : call'[q] = call[q]
    BY <2>1 DEF Moves
  <2>4. CASE call[p].on[1] # d
    <3>1. \A q \in Procs : Working(call'[q], d) => Working(call[q], d)
      BY <2>1, <2>3, <2>4 DEF Working, Moves
    <3> QED
      BY <1>1, <3>1, DepositFrame
  <2>5. CASE call[p].on[1] = d
    <3>1. ~ Settled(d)
      <4>1. Settled(d) => End(p)
        BY <2>5 DEF FindRow, Answer
      <4> QED
        BY <1>3, <4>1, EndMoves DEF Typed
    <3>2. status[d] # "COMPLETED"
      BY <3>1 DEF Settled
    <3>3. ASSUME d \notin raced' PROVE \A q \in Procs \ {p} : ~ Working(call[q], d)
      <4>1. ~ \E q \in Procs \ {p} : Handling(q) /\ ~ At(q, "find") /\ call[q].on[1] = d
        BY <2>5, <3>1, <3>3 DEF FindRow
      <4> QED
        BY <4>1 DEF Working, Handling
    <3>4. ASSUME d \notin raced', NEW q \in Procs, Working(call'[q], d) PROVE q = p
      BY <2>3, <3>3, <3>4
    <3> QED
      BY <1>1, <3>2, <3>4 DEF DepositIsSound
  <2> QED
    BY <2>4, <2>5
<1> QED
  BY <1>2, <1>3, StepAdvances

\* The webhook of a deposit ends its work on it.
LEMMA DepositPaid ==
  ASSUME Typed, MissingIsKnown, NEW d \in Deposits, DepositIsSound(d), NEW p \in Procs,
         Credit(p) \/ FailDeposit(p)
  PROVE  DepositIsSound(d)'
<1> USE DEF At
<1>1. Moves(p, Idle) /\ [Next]_vars /\ raced' = raced
  BY StepEnds DEF Next, Step, Credit, FailDeposit, ghosts
<1>2. \A q \in Procs : Working(call'[q], d) => Working(call[q], d) /\ q # p
  <2>1. \A q \in Procs : Working(call'[q], d) => Working(call[q], d)
    BY <1>1, WorkBegins
  <2>2. ~ Working(call'[p], d)
    BY <1>1, IdleTyped DEF Moves, Working
  <2> QED
    BY <2>1, <2>2
<1>3. PICK x \in Deposits : x = call[p].on[1]
  BY TypeOfCalls DEF Credit, FailDeposit, Sound
<1>4. status \in [Ramps -> Statuses] /\ credited \in [Deposits -> Nat] /\ d \in Ramps /\ x \in Ramps
  BY DEF Typed, TypeOK, Ramps
<1>5. CASE Credit(p)
  <2>1. /\ status' = [status EXCEPT ![x] = "COMPLETED"]
        /\ credited' = [credited EXCEPT ![x] = @ + Credited(p)]
        /\ call[p].at = "creditSave"
    BY <1>3, <1>5 DEF Credit, PaidRow
  <2>2. CASE x # d
    BY <1>1, <1>2, <1>4, <2>1, <2>2, DepositFrame
  <2>3. CASE x = d
    <3>1. status'[d] = "COMPLETED" /\ credited'[d] = credited[d] + Credited(p)
      BY <1>4, <2>1, <2>3
    <3>2. Credited(p) \in {0, 1} /\ (Credited(p) = 0 => "missing" \in mishaps)
      BY <2>1 DEF Credited, MissingIsKnown
    <3>3. mishaps \subseteq mishaps' /\ credited[d] \in Nat
      BY <1>1, <1>4, MishapsGrow
    <3>4. Working(call[p], d)
      BY <1>3, <2>1, <2>3 DEF Working
    <3>5. d \notin raced => credited[d] = 0
      BY <3>3, <3>4 DEF DepositIsSound
    <3>6. d \notin raced => \A q \in Procs : ~ Working(call'[q], d)
      BY <1>2, <3>4 DEF DepositIsSound
    <3>7. credited'[d] > 0 \/ "missing" \in mishaps'
      BY <3>1, <3>2, <3>3
    <3>8. d \notin raced => credited'[d] <= 1
      BY <3>1, <3>2, <3>5
    <3> QED
      BY <1>1, <3>1, <3>6, <3>7, <3>8 DEF DepositIsSound
  <2> QED
    BY <2>2, <2>3
<1>6. CASE FailDeposit(p)
  <2>1. /\ status' = [status EXCEPT ![x] = "FAILED"] /\ credited' = credited
        /\ call[p].at = "fail"
    BY <1>3, <1>6 DEF FailDeposit, ghosts
  <2>2. CASE x # d
    BY <1>1, <1>2, <1>4, <2>1, <2>2, DepositFrame
  <2>3. CASE x = d
    <3>1. status'[d] = "FAILED" /\ credited'[d] = credited[d] /\ credited[d] \in Nat
      BY <1>4, <2>1, <2>3
    <3>2. Working(call[p], d)
      BY <1>3, <2>1, <2>3 DEF Working
    <3>3. d \notin raced => ~ (credited[d] > 0)
      BY <3>2 DEF DepositIsSound
    <3>4. d \notin raced => \A q \in Procs : ~ Working(call'[q], d)
      BY <1>2, <3>2 DEF DepositIsSound
    <3> QED
      BY <1>1, <3>1, <3>3, <3>4 DEF DepositIsSound
  <2> QED
    BY <2>2, <2>3
<1> QED
  BY <1>5, <1>6

LEMMA DepositStep == Typed /\ MissingIsKnown /\ DepositsAreSound /\ [Next]_vars => DepositsAreSound'
<1> SUFFICES ASSUME Typed, MissingIsKnown, DepositsAreSound, [Next]_vars, NEW d \in Deposits
             PROVE  DepositIsSound(d)'
  BY DEF DepositsAreSound
<1>0. DepositIsSound(d)
  BY DEF DepositsAreSound
<1>1. CASE Environment
  BY <1>0, <1>1, DepositEnvironment
<1>2. ASSUME NEW p \in Procs, Begin(p) PROVE DepositIsSound(d)'
  BY <1>0, <1>2, DepositBegin
<1>3. ASSUME NEW p \in Procs, Step(p) \/ Fail(p) PROVE DepositIsSound(d)'
  BY <1>0, <1>3, DepositQuiet, DepositFind, DepositPaid
<1>4. CASE UNCHANGED vars
  BY <1>0, <1>4 DEF vars, DepositIsSound
<1> QED
  BY <1>1, <1>2, <1>3, <1>4 DEF Next

LEMMA DepositsAlways == Spec => []DepositsAreSound
<1>1. Init => DepositsAreSound
  <2> SUFFICES ASSUME Init, NEW d \in Deposits PROVE DepositIsSound(d)
    BY DEF DepositsAreSound
  <2>1. status[d] = "NONE" /\ credited[d] = 0
    BY DEF Init, Ramps
  <2>2. \A p \in Procs : ~ Working(call[p], d)
    BY IdleTyped DEF Init, Working
  <2> QED
    BY <2>1, <2>2 DEF DepositIsSound
<1> QED
  BY <1>1, DepositStep, TypedAlways, MissingAlways, PTL DEF Spec

\* A deposit is credited once, unless two of its webhooks are at work at a time.
THEOREM DepositsAreCreditedOnce == Spec => []CreditedOnce
<1>1. Typed /\ DepositsAreSound => CreditedOnce
  BY DEF Typed, TypeOK, DepositsAreSound, DepositIsSound, CreditedOnce
<1> QED
  BY <1>1, DepositsAlways, TypedAlways, PTL

\* COMPLETED and credited are the same, but for a missing wallet and for a race.
THEOREM CompletedAreCredited == Spec => []CompletedIsCredited
<1>1. DepositsAreSound => CompletedIsCredited
  BY DEF DepositsAreSound, DepositIsSound, CompletedIsCredited
<1> QED
  BY <1>1, DepositsAlways, PTL

-------------------------------------------------------------------------------
\* Withdrawals.  c is about to send and record w.
Leaving(c, w) == c.at \in {"send", "debit", "debitSave"} /\ c.on = w

\* c handles the webhook e.
Serves(c, e) == (c.at = "find" \/ Working(c, e[1])) /\ c.on = e

Failed(w) == <<w, FALSE>>

\* There is a row once one call has recorded it, and a webhook works on nothing else.
RowIsSound(w) ==
  /\ w \notin asked => status[w] = "NONE"
  /\ \A p \in Procs : Leaving(call[p], w) => status[w] = "NONE"
  /\ \A p, q \in Procs : Leaving(call[p], w) /\ Leaving(call[q], w) => p = q
  /\ \A p \in Procs : Working(call[p], w) => status[w] # "NONE"
  /\ ~ (<<w, TRUE>> \in emitted /\ Failed(w) \in emitted)

\* A refund is one of a transfer that failed; it is not repeated by itself.
RefundIsSound(w) ==
  /\ status[w] = "FAILED" => Failed(w) \in emitted
  /\ refunded[w] > 0 => status[w] = "FAILED"
  /\ Failed(w) \notin repeated =>
       /\ \A p, q \in Procs : Serves(call[p], Failed(w)) /\ Serves(call[q], Failed(w)) => p = q
       /\ status[w] = "FAILED" =>
            /\ Failed(w) \notin owed
            /\ \A p \in Procs : ~ Serves(call[p], Failed(w))
            /\ refunded[w] = 1 \/ "missing" \in mishaps

SentIsKnown(w) ==
  w \in sent => \/ status[w] # "NONE" \/ w \in dropped
               \/ \E p \in Procs : call[p].at \in {"debit", "debitSave"} /\ call[p].on = w

WithdrawalIsSound(w) == RowIsSound(w) /\ RefundIsSound(w) /\ SentIsKnown(w)

WithdrawalsAreSound == \A w \in Withdrawals : WithdrawalIsSound(w)

LEMMA FailedIsEvent == ASSUME NEW w \in Withdrawals PROVE Failed(w) \in Events /\ Failed(w)[1] = w
  BY DEF Failed, Events, Ramps

\* Steps of a call that write no row of w, by what they do to the calls.
LEMMA WithdrawalFrame ==
  ASSUME NEW w \in Withdrawals, WithdrawalIsSound(w), [Next]_vars,
         status'[w] = status[w], refunded'[w] = refunded[w], asked' = asked, emitted' = emitted,
         owed' \subseteq owed, repeated' = repeated, sent' = sent, dropped \subseteq dropped',
         \A q \in Procs : Leaving(call'[q], w) => Leaving(call[q], w),
         \A q \in Procs : Working(call'[q], w) => Working(call[q], w) \/ status[w] # "NONE",
         \A q \in Procs : Serves(call'[q], Failed(w)) => Serves(call[q], Failed(w)),
         \A q \in Procs : call[q].at \in {"debit", "debitSave"} /\ call[q].on = w
           => (call'[q].at \in {"debit", "debitSave"} /\ call'[q].on = w) \/ w \in dropped'
  PROVE  WithdrawalIsSound(w)'
<1>1. RowIsSound(w)'
  BY DEF WithdrawalIsSound, RowIsSound
<1>2. RefundIsSound(w)'
  BY MishapsGrow DEF WithdrawalIsSound, RefundIsSound
<1>3. SentIsKnown(w)'
  BY DEF WithdrawalIsSound, SentIsKnown
<1> QED
  BY <1>1, <1>2, <1>3 DEF WithdrawalIsSound

\* A call that goes on serves what it has served.
LEMMA ServeOn ==
  ASSUME NEW p \in Procs, Advances(p) \/ Moves(p, Idle), NEW w
  PROVE  /\ \A q \in Procs : Leaving(call'[q], w) => Leaving(call[q], w)
         /\ \A q \in Procs : Working(call'[q], w) /\ ~ Working(call[q], w)
              => q = p /\ call[p].at = "find" /\ call[p].on[1] = w
         /\ \A q \in Procs : Serves(call'[q], Failed(w)) => Serves(call[q], Failed(w))
<1>1. ASSUME NEW q \in Procs, q # p PROVE call'[q] = call[q]
  BY <1>1 DEF Advances, Moves
<1>2. CASE Moves(p, Idle)
  <2>1. ~ Leaving(call'[p], w) /\ ~ Working(call'[p], w) /\ ~ Serves(call'[p], Failed(w))
    BY <1>2, IdleTyped DEF Moves, Leaving, Working, Serves
  <2> QED
    BY <1>1, <2>1
<1>3. CASE Advances(p)
  <2>1. PICK c \in Calls : Moves(p, c) /\ c.on = call[p].on /\ <<call[p].at, c.at>> \in Follows
    BY <1>3 DEF Advances
  <2>2. Leaving(c, w) => Leaving(call[p], w)
    BY <2>1 DEF Leaving, Follows
  <2>3. Working(c, w) /\ ~ Working(call[p], w) => call[p].at = "find" /\ call[p].on[1] = w
    BY <2>1 DEF Working, Follows
  <2>4. Serves(c, Failed(w)) => Serves(call[p], Failed(w))
    BY <2>1 DEF Serves, Working, Failed, Follows
  <2>5. call'[p] = c
    BY <2>1 DEF Moves
  <2> QED
    BY <1>1, <2>2, <2>3, <2>4, <2>5
<1> QED
  BY <1>2, <1>3

\* Steps of calls about wallets, and the steps of webhooks that write nothing.
LEMMA WithdrawalQuiet ==
  ASSUME Typed, NEW w \in Withdrawals, WithdrawalIsSound(w), NEW p \in Procs,
         \/ InsertWallet(p) \/ SaveLabel(p) \/ CommitDefault(p) \/ DeleteRow(p)
         \/ FindDefaults(p) \/ CountWallets(p) \/ Select(p)
         \/ FindRow(p) \/ TakeRow(p) \/ LockRow(p) \/ ReadWallet(p) \/ Credit(p) \/ FailDeposit(p)
  PROVE  WithdrawalIsSound(w)'
<1> USE DEF At
<1>1. [Next]_vars
  BY DEF Next, Step
<1>2. Advances(p) \/ Moves(p, Idle)
  BY StepAdvances, StepEnds
<1>3. status'[w] = status[w]
  <2>1. w \in Ramps /\ status \in [Ramps -> Statuses] /\ w \notin Deposits
    BY WalletsAssumption DEF Ramps, Typed, TypeOK
  <2>2. CASE Credit(p) \/ FailDeposit(p)
    <3>1. PICK d \in Deposits : d = call[p].on[1]
      BY <2>2, TypeOfCalls DEF Credit, FailDeposit, Sound
    <3>2. \E s : status' = [status EXCEPT ![d] = s]
      BY <2>2, <3>1 DEF Credit, FailDeposit, PaidRow
    <3> QED
      BY <2>1, <3>1, <3>2
  <2>3. CASE ~ (Credit(p) \/ FailDeposit(p))
    <3>1. status' = status
      BY <2>3 DEF InsertWallet, SaveLabel, CommitDefault, DeleteRow, FindDefaults, CountWallets,
                  Select, FindRow, TakeRow, LockRow, ReadWallet, rows
    <3> QED
      BY <3>1
  <2> QED
    BY <2>2, <2>3
<1>4. /\ UNCHANGED <<asked, sent, emitted, refunded, repeated>>
      /\ owed' \subseteq owed /\ dropped \subseteq dropped'
  <2>1. CASE InsertWallet(p) \/ SaveLabel(p) \/ CommitDefault(p) \/ DeleteRow(p)
             \/ FindDefaults(p) \/ CountWallets(p) \/ Select(p)
    BY <2>1 DEF InsertWallet, SaveLabel, CommitDefault, DeleteRow, FindDefaults, CountWallets,
                Select, provider, ghosts
  <2>2. CASE FindRow(p) \/ TakeRow(p) \/ LockRow(p) \/ ReadWallet(p) \/ Credit(p) \/ FailDeposit(p)
    BY <2>2 DEF FindRow, TakeRow, LockRow, ReadWallet, Credit, FailDeposit, Answer, provider, ghosts
  <2> QED
    BY <2>1, <2>2
<1>5. ASSUME NEW q \in Procs, Working(call'[q], w) PROVE Working(call[q], w) \/ status[w] # "NONE"
  <2>1. CASE Working(call[q], w)
    BY <2>1
  <2>2. CASE ~ Working(call[q], w)
    <3>1. q = p /\ call[p].at = "find" /\ call[p].on[1] = w
      BY <1>2, <1>5, <2>2, ServeOn
    <3>2. FindRow(p)
      <4>1. ~ Select(p) /\ ~ ReadWallet(p)
        BY <3>1 DEF Select, ReadWallet, Write
      <4> QED
        BY <3>1, <4>1 DEF InsertWallet, SaveLabel, CommitDefault, DeleteRow, FindDefaults,
                          CountWallets, TakeRow, LockRow, Credit, FailDeposit
    <3>3. Settled(w) => Moves(p, Idle)
      BY <3>1, <3>2, EndMoves DEF FindRow, Answer, Typed
    <3>4. ~ Moves(p, Idle)
      BY <1>5, <3>1, IdleTyped DEF Moves, Working
    <3> QED
      BY <3>3, <3>4 DEF Settled
  <2> QED
    BY <2>1, <2>2
<1>6. ASSUME NEW q \in Procs, call[q].at \in {"debit", "debitSave"}, call[q].on = w
      PROVE  call'[q].at \in {"debit", "debitSave"} /\ call'[q].on = w
  <2>1. CASE q # p
    BY <1>2, <1>6, <2>1 DEF Advances, Moves
  <2>2. CASE q = p
    <3>1. Select(p)
      <4>1. ~ ReadWallet(p)
        BY <1>6, <2>2 DEF ReadWallet
      <4> QED
        BY <1>6, <2>2, <4>1 DEF InsertWallet, SaveLabel, CommitDefault, DeleteRow, FindDefaults,
                     CountWallets, FindRow, TakeRow, LockRow, Credit, FailDeposit
    <3>2. PICK place \in DOMAIN Write :
            At(p, place) /\ Keep(p, Write[place], call[p].held, call[p].marked, Sees(p))
      BY <3>1 DEF Select
    <3>3. place = "debit" /\ Write[place] = "debitSave"
      BY <1>6, <2>2, <3>2 DEF Write
    <3>4. Keep(p, "debitSave", call[p].held, call[p].marked, Sees(p))
      BY <3>2, <3>3
    <3>5. call \in [Procs -> Calls]
      BY TypeParts DEF Typed
    <3> QED
      BY <1>6, <2>2, <3>4, <3>5 DEF Keep
  <2> QED
    BY <2>1, <2>2
<1>7. /\ \A q \in Procs : Leaving(call'[q], w) => Leaving(call[q], w)
      /\ \A q \in Procs : Serves(call'[q], Failed(w)) => Serves(call[q], Failed(w))
  BY <1>2, ServeOn
<1> QED
  BY <1>1, <1>3, <1>4, <1>5, <1>6, <1>7, WithdrawalFrame

LEMMA WithdrawalSend ==
  ASSUME Typed, NEW w \in Withdrawals, WithdrawalIsSound(w), NEW p \in Procs, Send(p)
  PROVE  WithdrawalIsSound(w)'
<1> USE DEF At
<1>1. [Next]_vars /\ call[p].at = "send"
  BY DEF Next, Step, Send
<1>2. Moves(p, Put(p, "debit"))
  BY GotoMoves DEF Send, Places, Typed
<1>3. Advances(p)
  BY <1>1, GoesOn DEF Send, Follows
<1>4. /\ UNCHANGED <<status, refunded, asked, emitted, owed, repeated, dropped>>
      /\ sent' = sent \cup {call[p].on}
  BY DEF Send, rows, ghosts
<1>5. \A q \in Procs : Working(call'[q], w) => Working(call[q], w)
  BY <1>1, <1>3, ServeOn
<1>6. /\ \A q \in Procs : Leaving(call'[q], w) => Leaving(call[q], w)
      /\ \A q \in Procs : Serves(call'[q], Failed(w)) => Serves(call[q], Failed(w))
  BY <1>3, ServeOn
<1>7. RowIsSound(w)'
  BY <1>4, <1>5, <1>6 DEF RowIsSound, WithdrawalIsSound
<1>8. RefundIsSound(w)'
  BY <1>1, <1>4, <1>6, MishapsGrow DEF RefundIsSound, WithdrawalIsSound
<1>9. SentIsKnown(w)'
  <2>1. CASE call[p].on = w
    <3>1. call'[p].at = "debit" /\ call'[p].on = w
      BY <1>2, <2>1 DEF Moves, Put
    <3> QED
      BY <3>1 DEF SentIsKnown
  <2>2. CASE call[p].on # w
    <3>1. \A q \in Procs : call[q].at \in {"debit", "debitSave"} => call'[q] = call[q]
      BY <1>1, <1>2 DEF Moves
    <3> QED
      BY <1>4, <2>2, <3>1 DEF SentIsKnown, WithdrawalIsSound
  <2> QED
    BY <2>1, <2>2
<1> QED
  BY <1>7, <1>8, <1>9 DEF WithdrawalIsSound

\* The row appears.
LEMMA WithdrawalDebit ==
  ASSUME Typed, NEW w \in Withdrawals, WithdrawalIsSound(w), NEW p \in Procs, Debit(p)
  PROVE  WithdrawalIsSound(w)'
<1> USE DEF At
<1>1. [Next]_vars /\ call[p].at = "debitSave"
  BY DEF Next, Step, Debit
<1>2. Moves(p, Idle)
  BY StepEnds
<1>3. UNCHANGED <<refunded, asked, sent, emitted, owed, repeated, dropped>>
  BY DEF Debit, provider
<1>4. PICK x \in Withdrawals : x = call[p].on /\ x \in asked
  BY <1>1, TypeOfCalls DEF Sound, RestType
<1>5. /\ status' = [status EXCEPT ![x] = "PROCESSING"] /\ status \in [Ramps -> Statuses]
      /\ x \in Ramps /\ w \in Ramps
  BY <1>4 DEF Debit, Recorded, Typed, TypeOK, Ramps
<1>6. /\ \A q \in Procs : Leaving(call'[q], w) => Leaving(call[q], w)
      /\ \A q \in Procs : Working(call'[q], w) => Working(call[q], w)
      /\ \A q \in Procs : Serves(call'[q], Failed(w)) => Serves(call[q], Failed(w))
  BY <1>1, <1>2, ServeOn
<1>7. CASE x # w
  <2>1. status'[w] = status[w]
    BY <1>5, <1>7
  <2>2. \A q \in Procs : call[q].at \in {"debit", "debitSave"} /\ call[q].on = w => call'[q] = call[q]
    BY <1>2, <1>4, <1>7 DEF Moves
  <2> QED
    BY <1>1, <1>3, <1>6, <2>1, <2>2, WithdrawalFrame
<1>8. CASE x = w
  <2>1. status'[w] = "PROCESSING"
    BY <1>5, <1>8
  <2>2. Leaving(call[p], w)
    BY <1>1, <1>4, <1>8 DEF Leaving
  <2>3. status[w] = "NONE" /\ \A q \in Procs : Leaving(call[q], w) => q = p
    BY <2>2 DEF WithdrawalIsSound, RowIsSound
  <2>4. \A q \in Procs : ~ Leaving(call'[q], w)
    <3>1. ~ Leaving(call'[p], w)
      BY <1>2, IdleTyped DEF Moves, Leaving
    <3> QED
      BY <1>6, <2>3, <3>1
  <2>5. RowIsSound(w)'
    BY <1>3, <1>4, <1>6, <1>8, <2>1, <2>4 DEF RowIsSound, WithdrawalIsSound
  <2>6. RefundIsSound(w)'
    BY <1>3, <1>6, <2>1, <2>3 DEF RefundIsSound, WithdrawalIsSound
  <2>7. SentIsKnown(w)'
    BY <2>1 DEF SentIsKnown
  <2> QED
    BY <2>5, <2>6, <2>7 DEF WithdrawalIsSound
<1> QED
  BY <1>7, <1>8

\* The transfer arrived: its webhook writes COMPLETED, and there is no other outcome.
LEMMA WithdrawalComplete ==
  ASSUME Typed, NEW w \in Withdrawals, WithdrawalIsSound(w), NEW p \in Procs, Complete(p)
  PROVE  WithdrawalIsSound(w)'
<1> USE DEF At
<1>1. [Next]_vars /\ call[p].at = "complete"
  BY DEF Next, Step, Complete
<1>2. Moves(p, Idle)
  BY StepEnds
<1>3. UNCHANGED <<refunded, asked, sent, emitted, repeated, dropped>> /\ owed' \subseteq owed
  BY DEF Complete, Answer, ghosts
<1>4. PICK x \in Withdrawals : x = call[p].on[1] /\ <<x, TRUE>> \in emitted
  <2>1. call[p].on[1] \in Withdrawals /\ call[p].on[2] /\ call[p].on \in emitted
    BY <1>1, TypeOfCalls DEF Sound
  <2>2. call[p].on = <<call[p].on[1], call[p].on[2]>> /\ call[p].on[2] \in BOOLEAN
    BY <1>1, WebhookRows
  <2>3. call[p].on[2] = TRUE
    BY <2>1, <2>2
  <2> QED
    BY <2>1, <2>2, <2>3
<1>5. /\ status' = [status EXCEPT ![x] = "COMPLETED"] /\ status \in [Ramps -> Statuses]
      /\ x \in Ramps /\ w \in Ramps
  BY <1>4 DEF Complete, Typed, TypeOK, Ramps
<1>6. /\ \A q \in Procs : Leaving(call'[q], w) => Leaving(call[q], w)
      /\ \A q \in Procs : Working(call'[q], w) => Working(call[q], w)
      /\ \A q \in Procs : Serves(call'[q], Failed(w)) => Serves(call[q], Failed(w))
      /\ \A q \in Procs : call[q].at \in {"debit", "debitSave"} => call'[q] = call[q]
  <2>1. \A q \in Procs : call[q].at \in {"debit", "debitSave"} => call'[q] = call[q]
    BY <1>1, <1>2 DEF Moves
  <2> QED
    BY <1>1, <1>2, <2>1, ServeOn
<1>7. CASE x # w
  <2>1. status'[w] = status[w]
    BY <1>5, <1>7
  <2> QED
    BY <1>1, <1>3, <1>6, <2>1, WithdrawalFrame
<1>8. CASE x = w
  <2>1. status'[w] = "COMPLETED"
    BY <1>5, <1>8
  <2>2. Working(call[p], w)
    BY <1>1, <1>4, <1>8 DEF Working
  <2>3. status[w] # "NONE" /\ Failed(w) \notin emitted
    BY <1>4, <1>8, <2>2 DEF WithdrawalIsSound, RowIsSound
  <2>4. RowIsSound(w)'
    BY <1>3, <1>6, <2>1, <2>3 DEF RowIsSound, WithdrawalIsSound
  <2>5. RefundIsSound(w)'
    BY <1>3, <1>6, <2>1, <2>3 DEF RefundIsSound, WithdrawalIsSound
  <2>6. SentIsKnown(w)'
    BY <2>1 DEF SentIsKnown
  <2> QED
    BY <2>4, <2>5, <2>6 DEF WithdrawalIsSound
<1> QED
  BY <1>7, <1>8

\* The transfer failed: its webhook writes FAILED and the refund.
LEMMA WithdrawalRefund ==
  ASSUME Typed, MissingIsKnown, NEW w \in Withdrawals, WithdrawalIsSound(w), NEW p \in Procs, Refund(p)
  PROVE  WithdrawalIsSound(w)'
<1> USE DEF At
<1>1. [Next]_vars /\ call[p].at = "refundSave"
  BY DEF Next, Step, Refund
<1>2. Moves(p, Idle)
  BY StepEnds
<1>3. UNCHANGED <<asked, sent, emitted, repeated, dropped>> /\ owed' = owed \ {call[p].on}
  BY DEF Refund, Answer
<1>4. PICK x \in Withdrawals : x = call[p].on[1] /\ call[p].on = Failed(x) /\ Failed(x) \in emitted
  <2>1. call[p].on[1] \in Withdrawals /\ ~ call[p].on[2] /\ call[p].on \in emitted
    BY <1>1, TypeOfCalls DEF Sound
  <2>2. call[p].on = <<call[p].on[1], call[p].on[2]>> /\ call[p].on[2] \in BOOLEAN
    BY <1>1, WebhookRows
  <2>3. call[p].on[2] = FALSE
    BY <2>1, <2>2
  <2> QED
    BY <2>1, <2>2, <2>3 DEF Failed
<1>5. /\ status' = [status EXCEPT ![x] = "FAILED"] /\ status \in [Ramps -> Statuses]
      /\ refunded' = [refunded EXCEPT ![x] = @ + Credited(p)] /\ refunded \in [Withdrawals -> Nat]
      /\ x \in Ramps /\ w \in Ramps
  BY <1>4 DEF Refund, RefundedRow, Typed, TypeOK, Ramps
<1>6. /\ \A q \in Procs : Leaving(call'[q], w) => Leaving(call[q], w)
      /\ \A q \in Procs : Working(call'[q], w) => Working(call[q], w)
      /\ \A q \in Procs : Serves(call'[q], Failed(w)) => Serves(call[q], Failed(w))
      /\ \A q \in Procs : call[q].at \in {"debit", "debitSave"} => call'[q] = call[q]
  <2>1. \A q \in Procs : call[q].at \in {"debit", "debitSave"} => call'[q] = call[q]
    BY <1>1, <1>2 DEF Moves
  <2> QED
    BY <1>1, <1>2, <2>1, ServeOn
<1>7. CASE x # w
  <2>1. status'[w] = status[w] /\ refunded'[w] = refunded[w]
    BY <1>5, <1>7
  <2> QED
    BY <1>1, <1>3, <1>6, <2>1, WithdrawalFrame
<1>8. CASE x = w
  <2>1. status'[w] = "FAILED" /\ refunded'[w] = refunded[w] + Credited(p) /\ refunded[w] \in Nat
    BY <1>5, <1>8
  <2>2. Working(call[p], w) /\ Serves(call[p], Failed(w))
    BY <1>1, <1>4, <1>8 DEF Working, Serves, Failed
  <2>3. status[w] # "NONE" /\ Failed(w) \in emitted
    BY <1>4, <1>8, <2>2 DEF WithdrawalIsSound, RowIsSound
  <2>4. RowIsSound(w)'
    BY <1>3, <1>6, <2>1, <2>3 DEF RowIsSound, WithdrawalIsSound
  <2>5. ASSUME Failed(w) \notin repeated
        PROVE  /\ refunded'[w] = 1 \/ "missing" \in mishaps'
               /\ \A q \in Procs : ~ Serves(call'[q], Failed(w))
    <3>1. status[w] # "FAILED"
      BY <2>2, <2>5 DEF WithdrawalIsSound, RefundIsSound
    <3>2. ~ (refunded[w] > 0)
      BY <3>1 DEF WithdrawalIsSound, RefundIsSound
    <3>3. refunded'[w] = Credited(p)
      <4>1. refunded[w] = 0 /\ Credited(p) \in {0, 1}
        BY <2>1, <3>2 DEF Credited
      <4> QED
        BY <2>1, <4>1
    <3>4. Credited(p) = 1 \/ "missing" \in mishaps
      BY <1>1 DEF Credited, MissingIsKnown
    <3>5. \A q \in Procs : Serves(call[q], Failed(w)) => q = p
      BY <2>2, <2>5 DEF WithdrawalIsSound, RefundIsSound
    <3>6. ~ Serves(call'[p], Failed(w))
      BY <1>2, IdleTyped DEF Moves, Serves, Working
    <3> QED
      BY <1>1, <1>6, <3>3, <3>4, <3>5, <3>6, MishapsGrow
  <2>6. RefundIsSound(w)'
    BY <1>3, <1>4, <1>6, <1>8, <2>1, <2>3, <2>5 DEF RefundIsSound, WithdrawalIsSound
  <2>7. SentIsKnown(w)'
    BY <2>1 DEF SentIsKnown
  <2> QED
    BY <2>4, <2>6, <2>7 DEF WithdrawalIsSound
<1> QED
  BY <1>7, <1>8

LEMMA WithdrawalFail ==
  ASSUME Typed, NEW w \in Withdrawals, WithdrawalIsSound(w), NEW p \in Procs, Fail(p)
  PROVE  WithdrawalIsSound(w)'
<1>1. [Next]_vars /\ Moves(p, Idle)
  BY StepEnds DEF Next
<1>2. /\ UNCHANGED <<status, refunded, asked, sent, emitted, owed, repeated>>
      /\ dropped' = dropped \cup {x \in sent : call[p].on = x}
  BY DEF Fail, OwedAfterFault, rows
<1>3. /\ \A q \in Procs : Leaving(call'[q], w) => Leaving(call[q], w)
      /\ \A q \in Procs : Serves(call'[q], Failed(w)) => Serves(call[q], Failed(w))
  BY <1>1, ServeOn
<1>4. \A q \in Procs : Working(call'[q], w) => Working(call[q], w)
  BY <1>1, WorkBegins
<1>5. ASSUME NEW q \in Procs, call[q].at \in {"debit", "debitSave"}, call[q].on = w
      PROVE  (call'[q].at \in {"debit", "debitSave"} /\ call'[q].on = w) \/ w \in dropped'
  <2>1. CASE q # p
    BY <1>1, <1>5, <2>1 DEF Moves
  <2>2. CASE q = p
    <3>1. w \in sent
      BY <1>5, TypeOfCalls DEF Sound
    <3> QED
      BY <1>2, <1>5, <2>2, <3>1
  <2> QED
    BY <2>1, <2>2
<1> QED
  BY <1>1, <1>2, <1>3, <1>4, <1>5, WithdrawalFrame

LEMMA WithdrawalBegin ==
  ASSUME Typed, NEW w \in Withdrawals, WithdrawalIsSound(w), NEW p \in Procs, Begin(p)
  PROVE  WithdrawalIsSound(w)'
<1>1. [Next]_vars
  BY DEF Next
<1>2. /\ UNCHANGED <<status, refunded, sent, emitted, owed, dropped, mishaps>>
      /\ asked \subseteq asked' /\ repeated \subseteq repeated'
  <2>1. CASE UNCHANGED <<rows, provider, ghosts>>
    BY <2>1 DEF rows, provider, ghosts
  <2>2. ASSUME NEW x \in Withdrawals, InitiateWithdrawal(p, x)
        PROVE  UNCHANGED <<rows, sent, emitted, owed, ghosts>> /\ asked \subseteq asked'
    BY <2>2 DEF InitiateWithdrawal
  <2>3. ASSUME NEW e \in Events, Repeat(p, e)
        PROVE  UNCHANGED <<rows, provider, refunded, dropped, mishaps>> /\ repeated \subseteq repeated'
    BY <2>3 DEF Repeat
  <2>4. \/ UNCHANGED <<rows, provider, ghosts>>
        \/ \E x \in Withdrawals : InitiateWithdrawal(p, x)
        \/ \E e \in Events : Repeat(p, e)
    BY DEF Begin, AddWallet, Rename, SetDefault, DeleteWallet, Deliver
  <2> QED
    BY <2>1, <2>2, <2>3, <2>4 DEF rows, provider, ghosts
<1>3. PICK c \in Calls :
        /\ Moves(p, c) /\ call[p].at = "idle"
        /\ \/ c.at \in {"insert", "label", "clear", "count"} /\ c.on \in Ids
           \/ c.at = "send" /\ c.on \in Withdrawals /\ InitiateWithdrawal(p, c.on)
           \/ c.at = "find" /\ c.on \in Events /\ (Deliver(p, c.on) \/ Repeat(p, c.on))
  BY BeginBegins DEF Begins
<1>4. \A q \in Procs : Working(call'[q], w) => Working(call[q], w)
  BY BeginBegins, WorkBegins
<1>5. /\ \A q \in Procs \ {p} : call'[q] = call[q]
      /\ call'[p] = c
      /\ ~ Leaving(call[p], w) /\ ~ Serves(call[p], Failed(w))
  BY <1>3 DEF Moves, Leaving, Serves, Working
<1>6. ASSUME Leaving(c, w)
      PROVE  w \notin asked /\ \A q \in Procs : ~ Leaving(call[q], w)
  <2>1. InitiateWithdrawal(p, w)
    BY <1>3, <1>6 DEF Leaving
  <2>2. w \notin asked
    BY <2>1 DEF InitiateWithdrawal
  <2>3. ASSUME NEW q \in Procs, Leaving(call[q], w) PROVE FALSE
    BY <2>2, <2>3, TypeOfCalls DEF Leaving, Sound
  <2> QED
    BY <2>2, <2>3
<1>7. RowIsSound(w)'
  <2>1. w \notin asked' => status'[w] = "NONE"
    BY <1>2 DEF RowIsSound, WithdrawalIsSound
  <2>2. \A q \in Procs : Leaving(call'[q], w) => status'[w] = "NONE"
    BY <1>2, <1>5, <1>6 DEF RowIsSound, WithdrawalIsSound
  <2>3. \A q, r \in Procs : Leaving(call'[q], w) /\ Leaving(call'[r], w) => q = r
    BY <1>5, <1>6 DEF RowIsSound, WithdrawalIsSound
  <2> QED
    BY <1>2, <1>4, <2>1, <2>2, <2>3 DEF RowIsSound, WithdrawalIsSound
<1>8. ASSUME Serves(c, Failed(w)), Failed(w) \notin repeated'
      PROVE  Failed(w) \in owed /\ \A q \in Procs : ~ Serves(call[q], Failed(w))
  <2>0. c.on = Failed(w) /\ c.at = "find"
    BY <1>3, <1>8 DEF Serves, Working
  <2>1. Deliver(p, Failed(w))
    <3>1. ~ Repeat(p, Failed(w))
      BY <1>8 DEF Repeat
    <3> QED
      BY <1>3, <2>0, <3>1
  <2>2. Failed(w) \in owed /\ \A q \in Procs : ~ (Handling(q) /\ call[q].on = Failed(w))
    BY <2>1 DEF Deliver
  <2> QED
    BY <2>2 DEF Handling, Serves, Working
<1>9. RefundIsSound(w)'
  <2>1. status'[w] = "FAILED" => Failed(w) \in emitted'
    BY <1>2 DEF RefundIsSound, WithdrawalIsSound
  <2>2. refunded'[w] > 0 => status'[w] = "FAILED"
    BY <1>2 DEF RefundIsSound, WithdrawalIsSound
  <2>3. ASSUME Failed(w) \notin repeated'
        PROVE  /\ \A q, r \in Procs : Serves(call'[q], Failed(w)) /\ Serves(call'[r], Failed(w)) => q = r
               /\ status'[w] = "FAILED" =>
                    /\ Failed(w) \notin owed'
                    /\ \A q \in Procs : ~ Serves(call'[q], Failed(w))
                    /\ refunded'[w] = 1 \/ "missing" \in mishaps'
    <3>1. /\ \A q, r \in Procs : Serves(call[q], Failed(w)) /\ Serves(call[r], Failed(w)) => q = r
          /\ status[w] = "FAILED" =>
               /\ Failed(w) \notin owed
               /\ \A q \in Procs : ~ Serves(call[q], Failed(w))
               /\ refunded[w] = 1 \/ "missing" \in mishaps
      BY <1>2, <2>3 DEF RefundIsSound, WithdrawalIsSound
    <3>2. CASE Serves(c, Failed(w))
      BY <1>2, <1>5, <1>8, <2>3, <3>1, <3>2
    <3>3. CASE ~ Serves(c, Failed(w))
      BY <1>2, <1>5, <3>1, <3>3
    <3> QED
      BY <3>2, <3>3
  <2> QED
    BY <2>1, <2>2, <2>3 DEF RefundIsSound
<1>10. SentIsKnown(w)'
  <2>1. \A q \in Procs : call[q].at \in {"debit", "debitSave"} => call'[q] = call[q]
    BY <1>3, <1>5
  <2> QED
    BY <1>2, <2>1 DEF SentIsKnown, WithdrawalIsSound
<1> QED
  BY <1>7, <1>9, <1>10 DEF WithdrawalIsSound

LEMMA WithdrawalEnvironment ==
  ASSUME Typed, NEW w \in Withdrawals, WithdrawalIsSound(w), Environment PROVE WithdrawalIsSound(w)'
<1>1. /\ UNCHANGED <<call, refunded, asked, sent, repeated, dropped, mishaps>>
      /\ emitted \subseteq emitted'
  BY DEF Environment, InitiateDeposit, Pay, Settle, provider, ghosts
<1>2. status'[w] = status[w]
  <2>1. CASE status' = status
    BY <2>1
  <2>2. ASSUME NEW d \in Deposits, InitiateDeposit(d) PROVE status'[w] = status[w]
    <3>1. d # w
      BY WalletsAssumption
    <3> QED
      BY <2>2, <3>1 DEF InitiateDeposit, Typed, TypeOK, Ramps
  <2>3. status' = status \/ \E d \in Deposits : InitiateDeposit(d)
    BY DEF Environment, Pay, Settle, rows
  <2> QED
    BY <2>1, <2>2, <2>3
<1>3. \/ \A b \in BOOLEAN : (<<w, b>> \in emitted' <=> <<w, b>> \in emitted)
                            /\ (<<w, b>> \in owed' <=> <<w, b>> \in owed)
      \/ \A b \in BOOLEAN : <<w, b>> \notin emitted /\
           \E ok \in BOOLEAN : emitted' = emitted \cup {<<w, ok>>} /\ owed' = owed \cup {<<w, ok>>}
  <2>1. ASSUME NEW d \in Deposits, InitiateDeposit(d) PROVE emitted' = emitted /\ owed' = owed
    BY <2>1 DEF InitiateDeposit, provider
  <2>2. ASSUME NEW d \in Deposits, NEW ok \in BOOLEAN, Pay(d, ok)
        PROVE  \A b \in BOOLEAN : (<<w, b>> \in emitted' <=> <<w, b>> \in emitted)
                                /\ (<<w, b>> \in owed' <=> <<w, b>> \in owed)
    <3>1. d # w
      BY WalletsAssumption
    <3>2. emitted' = emitted \cup {<<d, ok>>} /\ owed' = owed \cup {<<d, ok>>}
      BY <2>2 DEF Pay
    <3>3. \A b \in BOOLEAN : <<w, b>> # <<d, ok>>
      BY <3>1
    <3> QED
      BY <3>2, <3>3
  <2>3. ASSUME NEW x \in Withdrawals, NEW ok \in BOOLEAN, Settle(x, ok), x # w
        PROVE  \A b \in BOOLEAN : (<<w, b>> \in emitted' <=> <<w, b>> \in emitted)
                                /\ (<<w, b>> \in owed' <=> <<w, b>> \in owed)
    <3>2. emitted' = emitted \cup {<<x, ok>>} /\ owed' = owed \cup {<<x, ok>>}
      BY <2>3 DEF Settle
    <3>3. \A b \in BOOLEAN : <<w, b>> # <<x, ok>>
      BY <2>3
    <3> QED
      BY <3>2, <3>3
  <2>4. ASSUME NEW ok \in BOOLEAN, Settle(w, ok)
        PROVE  \A b \in BOOLEAN : <<w, b>> \notin emitted /\
           \E k \in BOOLEAN : emitted' = emitted \cup {<<w, k>>} /\ owed' = owed \cup {<<w, k>>}
    BY <2>4 DEF Settle
  <2> QED
    BY <2>1, <2>2, <2>3, <2>4 DEF Environment
<1>4. CASE \A b \in BOOLEAN : (<<w, b>> \in emitted' <=> <<w, b>> \in emitted)
                            /\ (<<w, b>> \in owed' <=> <<w, b>> \in owed)
  <2>1. /\ <<w, TRUE>> \in emitted' <=> <<w, TRUE>> \in emitted
        /\ Failed(w) \in emitted' <=> Failed(w) \in emitted
        /\ Failed(w) \in owed' <=> Failed(w) \in owed
    BY <1>4 DEF Failed
  <2>2. RowIsSound(w)'
    BY <1>1, <1>2, <2>1 DEF RowIsSound, WithdrawalIsSound
  <2>3. RefundIsSound(w)'
    BY <1>1, <1>2, <2>1 DEF RefundIsSound, WithdrawalIsSound
  <2>4. SentIsKnown(w)'
    BY <1>1, <1>2 DEF SentIsKnown, WithdrawalIsSound
  <2> QED
    BY <2>2, <2>3, <2>4 DEF WithdrawalIsSound
<1>5. CASE \A b \in BOOLEAN : <<w, b>> \notin emitted /\
           \E ok \in BOOLEAN : emitted' = emitted \cup {<<w, ok>>} /\ owed' = owed \cup {<<w, ok>>}
  <2>1. Failed(w) \notin emitted /\ <<w, TRUE>> \notin emitted
    BY <1>5 DEF Failed
  <2>2. PICK ok \in BOOLEAN : emitted' = emitted \cup {<<w, ok>>}
    BY <1>5
  <2>3. ~ (<<w, TRUE>> \in emitted' /\ Failed(w) \in emitted')
    BY <2>1, <2>2 DEF Failed
  <2>4. status[w] # "FAILED"
    BY <2>1 DEF WithdrawalIsSound, RefundIsSound
  <2>5. RowIsSound(w)'
    BY <1>1, <1>2, <2>3 DEF RowIsSound, WithdrawalIsSound
  <2>6. RefundIsSound(w)'
    BY <1>1, <1>2, <2>4 DEF RefundIsSound, WithdrawalIsSound
  <2>7. SentIsKnown(w)'
    BY <1>1, <1>2 DEF SentIsKnown, WithdrawalIsSound
  <2> QED
    BY <2>5, <2>6, <2>7 DEF WithdrawalIsSound
<1> QED
  BY <1>3, <1>4, <1>5

LEMMA WithdrawalStep ==
  Typed /\ MissingIsKnown /\ WithdrawalsAreSound /\ [Next]_vars => WithdrawalsAreSound'
<1> SUFFICES ASSUME Typed, MissingIsKnown, WithdrawalsAreSound, [Next]_vars, NEW w \in Withdrawals
             PROVE  WithdrawalIsSound(w)'
  BY DEF WithdrawalsAreSound
<1>0. WithdrawalIsSound(w)
  BY DEF WithdrawalsAreSound
<1>1. CASE Environment
  BY <1>0, <1>1, WithdrawalEnvironment
<1>2. ASSUME NEW p \in Procs, Begin(p) PROVE WithdrawalIsSound(w)'
  BY <1>0, <1>2, WithdrawalBegin
<1>3. ASSUME NEW p \in Procs, Step(p) \/ Fail(p) PROVE WithdrawalIsSound(w)'
  BY <1>0, <1>3, StepsSplit, WithdrawalQuiet, WithdrawalSend, WithdrawalDebit, WithdrawalComplete,
     WithdrawalRefund, WithdrawalFail
<1>4. CASE UNCHANGED vars
  BY <1>0, <1>4 DEF vars, WithdrawalIsSound, RowIsSound, RefundIsSound, SentIsKnown
<1> QED
  BY <1>1, <1>2, <1>3, <1>4 DEF Next

LEMMA WithdrawalsAlways == Spec => []WithdrawalsAreSound
<1>1. Init => WithdrawalsAreSound
  <2> SUFFICES ASSUME Init, NEW w \in Withdrawals PROVE WithdrawalIsSound(w)
    BY DEF WithdrawalsAreSound
  <2>1. status[w] = "NONE" /\ refunded[w] = 0 /\ sent = {} /\ emitted = {}
    BY DEF Init, Ramps
  <2>2. \A p \in Procs : /\ ~ Leaving(call[p], w) /\ ~ Working(call[p], w)
                        /\ ~ Serves(call[p], Failed(w))
    BY IdleTyped DEF Init, Working, Leaving, Serves
  <2> QED
    BY <2>1, <2>2 DEF WithdrawalIsSound, RowIsSound, RefundIsSound, SentIsKnown
<1> QED
  BY <1>1, WithdrawalStep, TypedAlways, MissingAlways, PTL DEF Spec

\* A refund belongs to a failed transfer, and a failed transfer is refunded exactly
\* once unless its webhook was repeated or there was no wallet.
THEOREM RefundsAreOfFailures == Spec => []RefundsMatchFailures
<1>1. WithdrawalsAreSound => RefundsMatchFailures
  BY DEF WithdrawalsAreSound, WithdrawalIsSound, RefundIsSound, RefundsMatchFailures, Failed
<1> QED
  BY <1>1, WithdrawalsAlways, PTL

\* A transfer the provider has accepted has a row, a call about to write it, or a
\* fault that lost it.
THEOREM SentAreRecorded == Spec => []SentIsRecorded
<1>1. WithdrawalsAreSound /\ Typed => SentIsRecorded
  BY DEF WithdrawalsAreSound, WithdrawalIsSound, SentIsKnown, SentIsRecorded, Typed, TypeOK
<1> QED
  BY <1>1, WithdrawalsAlways, TypedAlways, PTL

\* The wallets of a user are in order: the three invariants above, together.
THEOREM WalletsStayInOrder == Spec => []WalletsAreInOrder
<1>1. OneDefault /\ UserMirrorsDefault /\ LimitIsKept => WalletsAreInOrder
  BY DEF WalletsAreInOrder
<1> QED
  BY <1>1, DefaultIsOne, KeysAreOfDefault, LimitKept, PTL

\* Deposits are credited once, and are COMPLETED with their credit.
THEOREM DepositsStayTrue == Spec => []DepositsAreTrue
<1>1. CreditedOnce /\ CompletedIsCredited => DepositsAreTrue
  BY DEF DepositsAreTrue
<1> QED
  BY <1>1, DepositsAreCreditedOnce, CompletedAreCredited, PTL

===============================================================================

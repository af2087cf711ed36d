-------------------------- MODULE AccountLife_proofs --------------------------
(***************************************************************************)
(* Proofs about AccountLife, for any number of requests, applications,     *)
(* codes, tokens, accounts and faults.  The services share the row of the  *)
(* user and little else: a step of one leaves the requests of the others   *)
(* where they are, so each has an invariant of its own.                    *)
(***************************************************************************)
EXTENDS AccountLife, FiniteSetTheorems, WellFoundedInduction, TLAPS

UserRows == [email : BOOLEAN, names : BOOLEAN, password : Nat, active : BOOLEAN, deleted : BOOLEAN,
             tier : Nat, money : Nat, attempts : Nat, locked : BOOLEAN, secret : Nat, second : BOOLEAN]
AppRows == [status : {"NONE", "PENDING"} \cup Decisions, target : Nat]
CodeTypes == {"LOGIN", "PASSWORD_RESET"}
CodeRows == [type : {"NONE"} \cup CodeTypes, used : BOOLEAN, password : Nat]
DemandTypes == {"EXPORT", "DELETION"}
DemandRows == [type : {"NONE"} \cup DemandTypes, status : {"NONE", "COMPLETE", "FAILED"} \cup InProgress]
RoleNames == {"USER", "ADMIN", "SUPER_ADMIN"}
ExperimentRows == [status : Statuses, traffic : BOOLEAN]
PersonRows == [row : {"NEW", "STORED", "GONE"}, verified : BOOLEAN, password : BOOLEAN, wallet : BOOLEAN,
               linked : BOOLEAN, code : BOOLEAN]

\* Where a request may be, by service.
UsersPlaces == {"profile", "preferences", "sync"}
KycPlaces == {"apply.check", "apply.insert", "resubmit", "review.user", "review.save"}
CodePlaces == {"code.find", "code.use", "code.wrong", "clear", "partial", "password"}
IssuingPlaces == {"code.invalidate", "code.insert"}
SessionsPlaces == CodePlaces \cup IssuingPlaces \cup {"token", "revoke", "codes"}
FactorPlaces == {"setup", "confirm", "disable", "disable.delete", "backups.delete", "backups.insert",
                 "factor.check", "factor.clear", "recover.find", "recover.use"}
ErasePlaces == {"erase", "erase.revoke"}
DemandPlaces == {"demand.check", "demand.insert", "demand.process", "demand.work", "demand.notify",
                 "demand.fail"}
RolePlaces == {"role.target", "role.count", "role.save"}
RolesPlaces == RolePlaces \cup {"admin.insert", "admin.verify"}
TrialPlaces == {"experiment.insert", "experiment.variants", "experiment.save", "variant.list",
                "variant.experiment", "variant.find", "variant.insert"}
CreatingPlaces == {"signup.delete", "signup.insert", "oauth.find", "oauth.insert"}
VerifyPlaces == {"verify.code", "verify.user", "verify.update", "verify.token"}
LinkPlaces == {"oauth.save", "oauth.user", "oauth.update", "oauth.wallet", "oauth.link", "oauth.check",
               "oauth.token"}
GuestPlaces == VerifyPlaces \cup LinkPlaces \cup {"signup.wallet", "signup.code", "unlink", "password.first"}
SignupsPlaces == CreatingPlaces \cup GuestPlaces

\* What a request is about, by place.
Typed(at, on) ==
  /\ at = "apply.check" => on \in Nat
  /\ at = "apply.insert" => on.target \in Nat /\ on.open = {}
  /\ at = "resubmit" => on \in Apps
  /\ at \in {"review.user", "review.save"} => on.app \in Apps /\ on.decision \in Decisions
  /\ at \in IssuingPlaces => on \in CodeTypes
  /\ at \in CodePlaces => on.code \in Nat /\ on.type \in CodeTypes
  /\ at \in {"code.use", "clear", "partial"} => on.code \in Codes
  /\ at = "partial" => on.type = "LOGIN"
  /\ at = "token" => IF on.type = "LOGIN" THEN on.code \in Codes ELSE on.begun \in Nat
  /\ at \in {"factor.check", "factor.clear", "recover.find", "recover.use"} =>
       on.type = "FACTOR" /\ on.begun \in Nat
  /\ at \in {"recover.find", "recover.use"} => on.code \in Sets
  /\ at \in {"demand.check", "demand.insert"} => on \in DemandTypes
  /\ at \in {"demand.process", "demand.work", "demand.notify", "demand.fail"} => on \in Demands
  /\ at \in RolesPlaces => on.account \in Staff /\ on.role \in RoleNames
  /\ at = "experiment.insert" => on \in BOOLEAN
  /\ at = "experiment.save" => on.entity \in ExperimentRows
  /\ at = "variant.find" => on \in BOOLEAN
  /\ at = "variant.insert" => on \in Variants
  /\ at = "signup.delete" => on.account \in People /\ ~ on.verified
  /\ at \in GuestPlaces => on \in People

\* A request is a record, whatever it is about.
Shape == call = [p \in Calls |-> [at |-> call[p].at, on |-> call[p].on, seen |-> call[p].seen]]
CallsOK ==
  /\ Shape
  /\ \A p \in Calls : call[p].seen \in UserRows /\ Typed(call[p].at, call[p].on)

RowsOK ==
  /\ user \in UserRows
  /\ apps \in [Apps -> AppRows] /\ codes \in [Codes -> CodeRows] /\ tokens \in [Tokens -> Nat]
  /\ demands \in [Demands -> DemandRows] /\ screening \subseteq Apps /\ screened \subseteq Apps

GhostsOK ==
  /\ due \in Nat /\ accepted \in [Codes -> Nat] /\ wrong \in Nat /\ unchecked \subseteq Apps
  /\ cut \subseteq Demands /\ erased \in BOOLEAN /\ requests \in Nat /\ faults \in Nat

FactorsOK ==
  /\ backups \in [Sets -> {"NONE", "LIVE", "USED", "GONE"}] /\ partials \subseteq Nat /\ shown \in Nat
  /\ confirmed \subseteq Nat /\ wanted \in BOOLEAN /\ recovered \in [Sets -> Nat]

BesideOK ==
  /\ roles \in [Staff -> {"NONE"} \cup RoleNames] /\ verified \subseteq Staff
  /\ experiment \in ExperimentRows \cup {Absent} /\ variants \in BOOLEAN
  /\ assigned \subseteq Variants /\ told \subseteq Variants /\ concluded \in BOOLEAN
  /\ people \in [People -> PersonRows] /\ sessions \subseteq People /\ proven \subseteq People

TypeOK == CallsOK /\ RowsOK /\ GhostsOK /\ FactorsOK /\ BesideOK

\* The bounds keep an id for each request that will take one.
RoomInv ==
  /\ Cardinality(Issuing) <= Cardinality(NextCodes)
  /\ Cardinality(Replacing) <= Cardinality(Unmade)
  /\ Cardinality(Creating) <= Cardinality(Coming)

\* Roles: a super-admin remains when one who has counted demotes another.
RolesInv ==
  "role" \in mishaps \/
    /\ Supers # {}
    /\ \A p \in Calls : At(p, "role.save") /\ call[p].on.role # "SUPER_ADMIN" =>
         Supers \ {call[p].on.account} # {}

\* Experiments.
TrialInv ==
  /\ told \subseteq assigned
  /\ assigned = {} \/ \E v \in Variants : assigned = {v}
  /\ concluded => experiment.status = "CONCLUDED" \/ "experiment" \in mishaps
  /\ \A p \in Calls : At(p, "experiment.save") =>
       /\ experiment # Absent
       /\ ~ (call[p].on.entity.status = "RUNNING" /\ call[p].on.read.status = "CONCLUDED")
  /\ experiment # Absent /\ ~ variants => faults > 0 \/ \E p \in Calls : At(p, "experiment.variants")

\* Signups: one account at a time; what a request has yet to add to it.
Known(i) == people[i].row # "NEW"
Adding(i, places) == faults > 0 \/ \E p \in Calls : call[p].at \in places /\ call[p].on = i
Fits(p) ==
  /\ call[p].at \in GuestPlaces => Known(call[p].on)
  /\ At(p, "signup.delete") => Known(call[p].on.account)
  /\ At(p, "unlink") /\ call[p].on \in Present => people[call[p].on].password
  /\ call[p].at \in {"verify.token", "oauth.token"} /\ call[p].on \in Present => call[p].on \in proven
WalletPlaces == {"signup.wallet", "oauth.user", "oauth.update", "oauth.wallet"}
DoorPlaces == {"oauth.user", "oauth.update", "oauth.wallet", "oauth.link"}
ProofPlaces == {"oauth.user", "oauth.update"}
Whole(i) ==
  /\ people[i].wallet \/ Adding(i, WalletPlaces)
  /\ people[i].password \/ people[i].linked \/ Adding(i, DoorPlaces)
  /\ people[i].verified \/ people[i].password \/ Adding(i, ProofPlaces)
GuestsInv ==
  /\ \A i, j \in Present : i = j
  /\ \A i \in People : ~ Known(i) => people[i] = Nobody
  /\ \A p \in Calls : Fits(p)
  /\ \A i \in proven : Known(i)
  /\ \A i \in Present : people[i].verified <=> i \in proven
  /\ sessions \subseteq proven
  /\ proven \subseteq Present \/ "signup" \in mishaps
  /\ \A i \in Present : Whole(i)

\* The attempts are counted, unless two requests count at a time.
AttemptsInv == "attempts" \in mishaps \/ user.attempts = wrong

\* A copy of the user, too, has two-factor authentication on with a secret that was confirmed.
SecretInv ==
  "secret" \in mishaps \/ erased \/
    /\ user.second => user.secret \in confirmed
    /\ \A p \in Calls : ~ At(p, "idle") /\ Seen(p).second => Seen(p).secret \in confirmed

\* Two-factor is as last wanted, or a copy of the row has brought it back.
SecondInv == user.second = wanted \/ "second" \in mishaps

\* Two-factor is on without codes only while somebody makes them, or after a mishap.
EmptyInv ==
  user.second /\ Stored = {} =>
    \/ mishaps \cap {"second", "backups"} # {} \/ faults > 0
    \/ \E p \in Calls : Replaced(p)

\* One at a time writes backup codes, and there are none when it does.
BackupsInv ==
  "backups" \in mishaps \/
    /\ \A p, q \in Calls : At(p, "backups.insert") /\ At(q, "backups.insert") => p = q
    /\ (\E p \in Calls : At(p, "backups.insert")) => Stored = {}
    /\ \A s, t \in Stored : s = t

\* A code that was taken is not found again.
CodesInv ==
  /\ \A p \in Calls : call[p].at = "code.use" => codes[call[p].on.code].type # "NONE"
  /\ "code" \in mishaps \/
       \A c \in Codes : accepted[c] > 0 =>
         /\ accepted[c] = 1 /\ codes[c].used /\ codes[c].type # "NONE"
         /\ \A p \in Calls : At(p, "code.use") => call[p].on.code # c

RecoveredInv ==
  /\ \A p \in Calls : call[p].at = "recover.use" => backups[call[p].on.code] # "NONE"
  /\ "code" \in mishaps \/
       \A s \in Sets : recovered[s] > 0 =>
         /\ recovered[s] = 1 /\ backups[s] \in {"USED", "GONE"}
         /\ \A p \in Calls : At(p, "recover.use") => call[p].on.code # s

\* A login goes on to a token without the second factor only if it was off.
LoginInv ==
  \A p \in Calls : At(p, "token") /\ call[p].on.type = "LOGIN" => ~ Seen(p).second

\* The tier is the highest one approved, and an application under review is for the next.
Earned(t) ==
  /\ t = BASIC \/ \E a \in Approved : apps[a].target = t
  /\ t >= BASIC
  /\ \A a \in Approved : apps[a].target <= t
TierInv ==
  /\ \A a, b \in Open \ unchecked : a = b
  /\ \A p \in Calls : /\ At(p, "apply.check") => call[p].on = Seen(p).tier + 1
                      /\ At(p, "apply.insert") => call[p].on.target = Seen(p).tier + 1
  /\ mishaps \cap {"tier", "review"} = {} /\ Approved \cap unchecked = {} =>
       /\ Earned(user.tier)
       /\ \A a \in Open \ unchecked : apps[a].target = user.tier + 1

Inv ==
  /\ TypeOK /\ RoomInv /\ RolesInv /\ TrialInv /\ GuestsInv
  /\ AttemptsInv /\ SecretInv /\ SecondInv /\ EmptyInv /\ BackupsInv /\ CodesInv /\ RecoveredInv /\ LoginInv /\ TierInv
  /\ RowIsKept /\ SessionsEndWithPassword

-------------------------------------------------------------------------------
(* What a step does to the requests. *)

Others(p) == \A q \in Calls : q # p => call'[q] = call[q]

Now(p, at, on, seen) == call'[p].at = at /\ call'[p].on = on /\ call'[p].seen = seen

LEMMA Moved ==
  ASSUME Shape, NEW p \in Calls, NEW at, NEW on, NEW seen,
         call' = [call EXCEPT ![p] = [at |-> at, on |-> on, seen |-> seen]]
  PROVE  Shape' /\ Others(p) /\ Now(p, at, on, seen)
<1>1. \A q \in Calls : call'[q] = IF q = p THEN [at |-> at, on |-> on, seen |-> seen] ELSE call[q]
  BY DEF Shape
<1>2. Others(p) /\ Now(p, at, on, seen)
  BY <1>1 DEF Others, Now
<1>3. DOMAIN call' = Calls
  BY DEF Shape
<1>4. call' = [q \in Calls |-> call'[q]]
  BY <1>3 DEF Shape
<1>5. \A q \in Calls : call[q] = [at |-> call[q].at, on |-> call[q].on, seen |-> call[q].seen]
  BY DEF Shape
<1>6. \A q \in Calls : call'[q] = [at |-> call'[q].at, on |-> call'[q].on, seen |-> call'[q].seen]
  BY <1>1, <1>5
<1> QED
  BY <1>2, <1>4, <1>6 DEF Shape

LEMMA GotoEffect ==
  ASSUME Shape, NEW p \in Calls, NEW place, Goto(p, place)
  PROVE  Shape' /\ Others(p) /\ Now(p, place, call[p].on, call[p].seen)
<1>1. call[p] = [at |-> call[p].at, on |-> call[p].on, seen |-> call[p].seen]
  BY DEF Shape
<1>2. [call[p] EXCEPT !.at = place] = [at |-> place, on |-> call[p].on, seen |-> call[p].seen]
  BY <1>1
<1>3. call' = [call EXCEPT ![p] = [at |-> place, on |-> call[p].on, seen |-> call[p].seen]]
  BY <1>2 DEF Goto
<1> QED
  BY <1>3, Moved

LEMMA GoOnEffect ==
  ASSUME Shape, NEW p \in Calls, NEW place, NEW on,
         call' = [call EXCEPT ![p].at = place, ![p].on = on]
  PROVE  Shape' /\ Others(p) /\ Now(p, place, on, call[p].seen)
<1>1. call[p] = [at |-> call[p].at, on |-> call[p].on, seen |-> call[p].seen]
  BY DEF Shape
<1> DEFINE there == [at |-> place, on |-> call[p].on, seen |-> call[p].seen]
<1>2. [call[p] EXCEPT !.at = place] = there
  BY <1>1
<1>3. [there EXCEPT !.on = on] = [at |-> place, on |-> on, seen |-> call[p].seen]
  OBVIOUS
<1> HIDE DEF there
<1>4. DOMAIN call = Calls
  BY DEF Shape
<1>5. call'[p] = [there EXCEPT !.on = on]
  BY <1>2, <1>4
<1>6. \A q \in Calls : q # p => call'[q] = call[q]
  BY <1>4
<1>7. DOMAIN call' = Calls /\ call' = [q \in Calls |-> call'[q]]
  BY <1>4
<1>8. call' = [call EXCEPT ![p] = [at |-> place, on |-> on, seen |-> call[p].seen]]
  BY <1>3, <1>4, <1>5, <1>6, <1>7
<1> QED
  BY <1>8, Moved

LEMMA ReadAgainEffect ==
  ASSUME Shape, NEW p \in Calls, NEW place, NEW seen,
         call' = [call EXCEPT ![p].at = place, ![p].seen = seen]
  PROVE  Shape' /\ Others(p) /\ Now(p, place, call[p].on, seen)
<1>1. call[p] = [at |-> call[p].at, on |-> call[p].on, seen |-> call[p].seen]
  BY DEF Shape
<1> DEFINE there == [at |-> place, on |-> call[p].on, seen |-> call[p].seen]
<1>2. [call[p] EXCEPT !.at = place] = there
  BY <1>1
<1>3. [there EXCEPT !.seen = seen] = [at |-> place, on |-> call[p].on, seen |-> seen]
  OBVIOUS
<1> HIDE DEF there
<1>4. DOMAIN call = Calls
  BY DEF Shape
<1>5. call'[p] = [there EXCEPT !.seen = seen]
  BY <1>2, <1>4
<1>6. \A q \in Calls : q # p => call'[q] = call[q]
  BY <1>4
<1>7. DOMAIN call' = Calls /\ call' = [q \in Calls |-> call'[q]]
  BY <1>4
<1>8. call' = [call EXCEPT ![p] = [at |-> place, on |-> call[p].on, seen |-> seen]]
  BY <1>3, <1>4, <1>5, <1>6, <1>7
<1> QED
  BY <1>8, Moved

LEMMA EndEffect ==
  ASSUME Shape, NEW p \in Calls, End(p)
  PROVE  Shape' /\ Others(p) /\ Now(p, "idle", 0, Fresh(BASIC))
  BY Moved DEF End, Idle

LEMMA BeginEffect ==
  ASSUME Shape, NEW p \in Calls, NEW place, NEW x, Begin(p, place, x)
  PROVE  Shape' /\ Others(p) /\ Now(p, place, x, user) /\ call[p].at = "idle"
  BY Moved DEF Begin, At

\* What holds of a request wherever it has gone to, and where it was.
GoneTo(p, places) ==
  /\ Shape' /\ Others(p) /\ call'[p].at \in places \cup {"idle"}
  /\ call'[p].seen \in UserRows /\ Typed(call'[p].at, call'[p].on)

Moves(p, places) == call[p].at \in places /\ GoneTo(p, places)

LEMMA FreshType == \A t \in Nat : Fresh(t) \in UserRows
  BY DEF Fresh, UserRows

LEMMA IdleTyped == \A on : Typed("idle", on)
  BY DEF Typed, IssuingPlaces, CodePlaces, RolesPlaces, RolePlaces, GuestPlaces, VerifyPlaces, LinkPlaces

LEMMA EndGone ==
  ASSUME Shape, NEW p \in Calls, End(p)
  PROVE  \A places : GoneTo(p, places)
<1>1. Fresh(BASIC) \in UserRows
  BY FreshType DEF BASIC
<1> QED
  BY <1>1, EndEffect, IdleTyped DEF GoneTo, Now

LEMMA GotoGone ==
  ASSUME CallsOK, NEW p \in Calls, NEW places, NEW place \in places, Goto(p, place), Typed(place, call[p].on)
  PROVE  GoneTo(p, places)
  BY GotoEffect DEF GoneTo, Now, CallsOK

LEMMA GoOnGone ==
  ASSUME CallsOK, NEW p \in Calls, NEW places, NEW place \in places, NEW on, Typed(place, on),
         call' = [call EXCEPT ![p].at = place, ![p].on = on]
  PROVE  GoneTo(p, places)
<1>1. Shape /\ call[p].seen \in UserRows
  BY DEF CallsOK
<1>2. Shape' /\ Others(p) /\ Now(p, place, on, call[p].seen)
  BY <1>1, GoOnEffect
<1> QED
  BY <1>1, <1>2 DEF GoneTo, Now

LEMMA BeginGone ==
  ASSUME CallsOK, user \in UserRows, NEW p \in Calls, NEW places, NEW place \in places, NEW on,
         Typed(place, on), Begin(p, place, on)
  PROVE  GoneTo(p, places) /\ call[p].at = "idle"
<1>1. Shape' /\ Others(p) /\ Now(p, place, on, user) /\ call[p].at = "idle"
  BY BeginEffect DEF CallsOK
<1> QED
  BY <1>1 DEF GoneTo, Now

LEMMA StayGone ==
  ASSUME CallsOK, NEW p \in Calls, UNCHANGED call, At(p, "idle")
  PROVE  \A places : GoneTo(p, places)
  BY DEF GoneTo, CallsOK, Shape, Others, At

-------------------------------------------------------------------------------
(* The services, one by one. *)

LEMMA UsersMoves ==
  ASSUME CallsOK, RowsOK, NEW p \in Calls, UsersStep(p) PROVE Moves(p, UsersPlaces)
  BY EndGone DEF UsersStep, WriteProfile, SavePreferences, WriteBalances, At, Moves, CallsOK, UsersPlaces

LEMMA UsersArrive ==
  ASSUME CallsOK, RowsOK, NEW p \in Calls, UsersBegin(p)
  PROVE  GoneTo(p, UsersPlaces) /\ call[p].at = "idle"
<1>1. \A x : Typed("profile", x) /\ Typed("preferences", x) /\ Typed("sync", x)
  BY DEF Typed, IssuingPlaces, CodePlaces, RolesPlaces, RolePlaces, GuestPlaces, VerifyPlaces, LinkPlaces
<1>2. user \in UserRows
  BY DEF RowsOK
<1>3. CASE UpdateProfile(p) \/ UpdatePreferences(p) \/ SyncBalances(p)
  BY <1>1, <1>2, <1>3, BeginGone DEF UpdateProfile, UpdatePreferences, SyncBalances, UsersPlaces
<1>4. CASE DeleteProfile(p) \/ ChangeBalance(p) \/ \E active \in BOOLEAN : UpdateUserStatus(p, active)
  BY <1>4, StayGone DEF DeleteProfile, ChangeBalance, UpdateUserStatus, At
<1> QED
  BY <1>3, <1>4 DEF UsersBegin

LEMMA KycMoves ==
  ASSUME CallsOK, RowsOK, NEW p \in Calls, KycStep(p) PROVE Moves(p, KycPlaces)
<1>0. Shape /\ call[p].seen \in UserRows /\ Typed(call[p].at, call[p].on) /\ user \in UserRows
  BY DEF CallsOK, RowsOK
<1>1. CASE CheckOpen(p)
  <2>1. call[p].at = "apply.check" /\ call[p].on \in Nat
    BY <1>0, <1>1 DEF CheckOpen, At, Typed
  <2>2. CASE End(p)
    BY <1>0, <2>1, <2>2, EndGone DEF Moves, KycPlaces
  <2>3. CASE call' = [call EXCEPT ![p].at = "apply.insert", ![p].on = [target |-> @, open |-> {}]]
    <3> DEFINE on == [target |-> call[p].on, open |-> {}]
    <3>1. call' = [call EXCEPT ![p].at = "apply.insert", ![p].on = on]
      BY <2>3
    <3>2. Typed("apply.insert", on)
      BY <2>1 DEF Typed, IssuingPlaces, CodePlaces, RolesPlaces, RolePlaces, GuestPlaces, VerifyPlaces, LinkPlaces
    <3> QED
      BY <2>1, <3>1, <3>2, GoOnGone DEF Moves, KycPlaces
  <2> QED
    BY <1>1, <2>2, <2>3 DEF CheckOpen
<1>2. CASE ReadReviewed(p)
  <2>1. call[p].at = "review.user" /\ call[p].on.app \in Apps /\ call[p].on.decision \in Decisions
    BY <1>0, <1>2 DEF ReadReviewed, At, Typed
  <2>5. Shape' /\ Others(p) /\ Now(p, "review.save", call[p].on, user)
    BY <1>0, <1>2, ReadAgainEffect DEF ReadReviewed
  <2>6. Typed("review.save", call[p].on)
    BY <2>1 DEF Typed, IssuingPlaces, CodePlaces, RolesPlaces, RolePlaces, GuestPlaces, VerifyPlaces, LinkPlaces
  <2> QED
    BY <1>0, <2>1, <2>5, <2>6 DEF Moves, GoneTo, Now, KycPlaces
<1>3. CASE InsertApplication(p) \/ SaveResubmission(p) \/ SaveReview(p)
  BY <1>0, <1>3, EndGone DEF InsertApplication, SaveResubmission, SaveReview, At, Moves, KycPlaces
<1> QED
  BY <1>1, <1>2, <1>3 DEF KycStep

LEMMA KycArrive ==
  ASSUME CallsOK, RowsOK, NEW p \in Calls, KycBegin(p)
  PROVE  GoneTo(p, KycPlaces) /\ call[p].at = "idle"
<1>0. user \in UserRows
  BY DEF RowsOK
<1>1. CASE \E target \in {STANDARD, ENHANCED} : ApplyForKyc(p, target)
  <2>1. PICK target \in {STANDARD, ENHANCED} : Begin(p, "apply.check", target)
    BY <1>1 DEF ApplyForKyc
  <2>2. Typed("apply.check", target)
    BY DEF STANDARD, ENHANCED, Typed, IssuingPlaces, CodePlaces, RolesPlaces, RolePlaces, GuestPlaces, VerifyPlaces, LinkPlaces
  <2> QED
    BY <1>0, <2>1, <2>2, BeginGone DEF KycPlaces
<1>2. CASE \E a \in Apps : ResubmitKyc(p, a)
  <2>1. PICK a \in Apps : Begin(p, "resubmit", a)
    BY <1>2 DEF ResubmitKyc
  <2>2. Typed("resubmit", a)
    BY DEF Typed, IssuingPlaces, CodePlaces, RolesPlaces, RolePlaces, GuestPlaces, VerifyPlaces, LinkPlaces
  <2> QED
    BY <1>0, <2>1, <2>2, BeginGone DEF KycPlaces
<1>3. CASE \E a \in Apps, decision \in Decisions : Review(p, a, decision)
  <2>1. PICK a \in Apps, decision \in Decisions : Begin(p, "review.user", [app |-> a, decision |-> decision])
    BY <1>3 DEF Review
  <2>2. Typed("review.user", [app |-> a, decision |-> decision])
    BY DEF Typed, IssuingPlaces, CodePlaces, RolesPlaces, RolePlaces, GuestPlaces, VerifyPlaces, LinkPlaces
  <2> QED
    BY <1>0, <2>1, <2>2, BeginGone DEF KycPlaces
<1> QED
  BY <1>1, <1>2, <1>3 DEF KycBegin

LEMMA Least ==
  ASSUME NEW S, S \subseteq Nat, S # {} PROVE Min(S) \in S /\ \A y \in S : Min(S) <= y
<1>1. PICK m \in S : \A n \in S : <<n, m>> \notin OpToRel(<, Nat)
  BY WFMin, NatLessThanWellFounded
<1>2. \A y \in S : ~ (y < m)
  BY <1>1 DEF OpToRel
<1>3. \A y \in S : m <= y
  BY <1>2
<1> QED
  BY <1>3 DEF Min

LEMMA Greatest ==
  ASSUME NEW n \in Nat, NEW S, S \subseteq 1 .. n, S # {} PROVE Max(S) \in S /\ \A y \in S : Max(S) >= y
<1> DEFINE R == {k \in Nat : n - k \in S}
<1>1. R # {}
  <2>1. PICK x \in S : TRUE
    OBVIOUS
  <2> QED
    BY <2>1, n - x \in R
<1>2. PICK k \in R : \A y \in R : k <= y
  BY <1>1, Least
<1>3. n - k \in S
  OBVIOUS
<1>4. \A y \in S : n - y \in R
  <2>1. \A y \in S : y \in Nat /\ n - y \in Nat /\ n - (n - y) = y
    OBVIOUS
  <2> QED
    BY <2>1
<1> HIDE DEF R
<1>5. \A y \in S : y \in Nat /\ k <= n - y
  BY <1>2, <1>4
<1>6. \A y \in S : n - k >= y
  BY <1>5 DEF R
<1> QED
  BY <1>3, <1>6 DEF Max

LEMMA SessionsMoves ==
  ASSUME CallsOK, RowsOK, NEW p \in Calls, SessionsStep(p) PROVE Moves(p, SessionsPlaces)
<1>0. Shape /\ call[p].seen \in UserRows /\ Typed(call[p].at, call[p].on)
  BY DEF CallsOK
<1> USE DEF Typed, SessionsPlaces, IssuingPlaces, CodePlaces, RolesPlaces, RolePlaces, GuestPlaces,
            VerifyPlaces, LinkPlaces
<1>1. CASE Invalidate(p)
  <2>1. call[p].at = "code.invalidate" /\ Goto(p, "code.insert")
    BY <1>1 DEF Invalidate, At
  <2>2. Typed("code.insert", call[p].on)
    BY <1>0, <2>1
  <2> HIDE DEF Typed
  <2> QED
    BY <2>1, <2>2, GotoGone DEF Moves
<1>2. CASE FindCode(p)
  <2>1. call[p].at = "code.find" /\ call[p].on.code \in Nat /\ call[p].on.type \in CodeTypes
    BY <1>0, <1>2 DEF FindCode, At
  <2> DEFINE live == Live(call[p].on.type)
  <2>2. CASE End(p)
    BY <2>1, <2>2, <1>0, EndGone DEF Moves
  <2>3. CASE live # {} /\ Goto(p, IF Max(live) = call[p].on.code THEN "code.use" ELSE "code.wrong")
    <3>1. Max(live) \in Codes
      BY <2>3, Greatest, AccountsAssumption DEF Live, Codes
    <3>2. CASE Max(live) = call[p].on.code
      BY <2>1, <2>3, <3>1, <3>2, GotoGone DEF Moves
    <3>3. CASE Max(live) # call[p].on.code
      BY <2>1, <2>3, <3>3, GotoGone DEF Moves
    <3> QED
      BY <3>2, <3>3
  <2> QED
    BY <1>2, <2>2, <2>3 DEF FindCode
<1>3. CASE MarkUsed(p)
  <2>1. call[p].at = "code.use" /\ Goto(p, "clear")
    BY <1>3 DEF MarkUsed, At
  <2>2. Typed("clear", call[p].on)
    BY <1>0, <2>1
  <2> HIDE DEF Typed
  <2> QED
    BY <2>1, <2>2, GotoGone DEF Moves
<1>4. CASE ClearAttempts(p)
  <2>1. call[p].at = "clear" /\ call[p].on.code \in Codes /\ call[p].on.type \in CodeTypes /\ call[p].on.code \in Nat
    BY <1>0, <1>4 DEF ClearAttempts, At
  <2>2. CASE call[p].on.type # "LOGIN" /\ Goto(p, "password")
    BY <2>1, <2>2, GotoGone DEF Moves
  <2>3. CASE call[p].on.type = "LOGIN" /\ Goto(p, "partial")
    BY <2>1, <2>3, GotoGone DEF Moves
  <2>4. CASE call[p].on.type = "LOGIN" /\ Goto(p, "token")
    BY <2>1, <2>4, GotoGone DEF Moves
  <2> QED
    BY <1>4, <2>2, <2>3, <2>4 DEF ClearAttempts
<1>5. CASE SetPassword(p)
  <2>1. call[p].at = "password" /\ Goto(p, "revoke")
    BY <1>5 DEF SetPassword, At
  <2>2. Typed("revoke", call[p].on)
    BY <1>0, <2>1
  <2> HIDE DEF Typed
  <2> QED
    BY <2>1, <2>2, GotoGone DEF Moves
<1>6. CASE RevokeTokens(p)
  <2>1. call[p].at = "revoke" /\ Goto(p, "codes")
    BY <1>6 DEF RevokeTokens, At
  <2>2. Typed("codes", call[p].on)
    BY <1>0, <2>1
  <2> HIDE DEF Typed
  <2> QED
    BY <2>1, <2>2, GotoGone DEF Moves
<1>7. CASE InsertCode(p) \/ CountWrong(p) \/ IssueToken(p) \/ InvalidateAll(p)
  BY <1>0, <1>7, EndGone DEF InsertCode, CountWrong, IssueToken, InvalidateAll, At, Moves
<1> QED
  BY <1>1, <1>2, <1>3, <1>4, <1>5, <1>6, <1>7 DEF SessionsStep

LEMMA SessionsArrive ==
  ASSUME CallsOK, RowsOK, NEW p \in Calls, SessionsBegin(p)
  PROVE  GoneTo(p, SessionsPlaces) /\ call[p].at = "idle"
<1>0. user \in UserRows
  BY DEF RowsOK
<1> USE DEF Typed, SessionsPlaces, IssuingPlaces, CodePlaces, RolesPlaces, RolePlaces, GuestPlaces,
            VerifyPlaces, LinkPlaces
<1>1. CASE \E type \in CodeTypes : SendCode(p, type)
  <2>1. PICK type \in CodeTypes : Begin(p, "code.invalidate", type)
    BY <1>1 DEF SendCode
  <2> QED
    BY <1>0, <2>1, BeginGone
<1>2. CASE \E type \in CodeTypes, guess \in {0} \cup Codes : UseCode(p, type, guess)
  <2>1. PICK type \in CodeTypes, guess \in {0} \cup Codes : Begin(p, "code.find", [type |-> type, code |-> guess])
    BY <1>2 DEF UseCode
  <2>2. guess \in Nat
    BY AccountsAssumption DEF Codes
  <2>3. Typed("code.find", [type |-> type, code |-> guess])
    BY <2>2
  <2> HIDE DEF Typed
  <2> QED
    BY <1>0, <2>1, <2>3, BeginGone
<1>3. CASE \E S \in {Tokens} \cup {{t} : t \in Tokens} : Logout(p, S)
  BY <1>3, StayGone DEF Logout, At
<1> QED
  BY <1>1, <1>2, <1>3 DEF SessionsBegin, CodeTypes

LEMMA FactorMoves ==
  ASSUME CallsOK, NEW p \in Calls, FactorStep(p) PROVE Moves(p, FactorPlaces \cup {"partial", "token"})
<1>0. Shape /\ call[p].seen \in UserRows /\ Typed(call[p].at, call[p].on)
  BY DEF CallsOK
<1> USE DEF Typed, FactorPlaces, IssuingPlaces, CodePlaces, RolesPlaces, RolePlaces, GuestPlaces,
            VerifyPlaces, LinkPlaces
<1>1. CASE WriteEnabled(p) \/ WriteDisabled(p)
  <2>1. CASE WriteEnabled(p)
    <3>1. call[p].at = "confirm" /\ Goto(p, "backups.delete")
      BY <2>1 DEF WriteEnabled, At
    <3> QED
      BY <3>1, GotoGone DEF Moves
  <2>2. CASE WriteDisabled(p)
    <3>1. call[p].at = "disable" /\ Goto(p, "disable.delete")
      BY <2>2 DEF WriteDisabled, At
    <3> QED
      BY <3>1, GotoGone DEF Moves
  <2> QED
    BY <1>1, <2>1, <2>2
<1>2. CASE DeleteBackups(p)
  <2>1. CASE At(p, "backups.delete") /\ Goto(p, "backups.insert")
    <3>1. call[p].at = "backups.delete" /\ Typed("backups.insert", call[p].on)
      BY <2>1 DEF At
    <3> HIDE DEF Typed
    <3> QED
      BY <2>1, <3>1, GotoGone DEF Moves
  <2>2. CASE At(p, "disable.delete") /\ End(p)
    BY <1>0, <2>2, EndGone DEF At, Moves
  <2> QED
    BY <1>2, <2>1, <2>2 DEF DeleteBackups
<1>3. CASE CheckTotp(p)
  <2>1. call[p].at = "factor.check" /\ call[p].on.type = "FACTOR" /\ call[p].on.begun \in Nat
    BY <1>0, <1>3 DEF CheckTotp, At
  <2>2. CASE End(p)
    BY <1>0, <2>1, <2>2, EndGone DEF Moves
  <2>3. CASE Goto(p, "factor.clear")
    BY <2>1, <2>3, GotoGone DEF Moves
  <2>4. CASE Goto(p, "token")
    BY <2>1, <2>4, GotoGone DEF Moves
  <2> QED
    BY <1>3, <2>2, <2>3, <2>4 DEF CheckTotp
<1>4. CASE ClearFactorAttempts(p)
  <2>1. call[p].at = "factor.clear" /\ Goto(p, "token")
    BY <1>4 DEF ClearFactorAttempts, At
  <2>2. Typed("token", call[p].on)
    BY <1>0, <2>1
  <2> HIDE DEF Typed
  <2> QED
    BY <2>1, <2>2, GotoGone DEF Moves
<1>5. CASE FindBackup(p)
  <2>1. call[p].at = "recover.find" /\ call[p].on.type = "FACTOR" /\ call[p].on.begun \in Nat /\ call[p].on.code \in Sets
    BY <1>0, <1>5 DEF FindBackup, At
  <2>2. CASE End(p)
    BY <1>0, <2>1, <2>2, EndGone DEF Moves
  <2>3. CASE Goto(p, "recover.use")
    BY <2>1, <2>3, GotoGone DEF Moves
  <2> QED
    BY <1>5, <2>2, <2>3 DEF FindBackup
<1>6. CASE UseBackup(p)
  <2>1. call[p].at = "recover.use" /\ Goto(p, "token")
    BY <1>6 DEF UseBackup, At
  <2>2. Typed("token", call[p].on)
    BY <1>0, <2>1
  <2> HIDE DEF Typed
  <2> QED
    BY <2>1, <2>2, GotoGone DEF Moves
<1>7. CASE WriteSecret(p) \/ InsertBackups(p) \/ SignPartial(p)
  <2>1. call[p].at \in {"setup", "backups.insert", "partial"} /\ End(p)
    BY <1>7 DEF WriteSecret, InsertBackups, SignPartial, At
  <2> HIDE DEF Typed
  <2> QED
    BY <1>0, <2>1, EndGone DEF Moves
<1> QED
  BY <1>1, <1>2, <1>3, <1>4, <1>5, <1>6, <1>7 DEF FactorStep

LEMMA FactorArrive ==
  ASSUME CallsOK, RowsOK, FactorsOK, NEW p \in Calls, FactorBegin(p)
  PROVE  GoneTo(p, FactorPlaces) /\ call[p].at = "idle"
<1>0. user \in UserRows
  BY DEF RowsOK
<1> USE DEF Typed, FactorPlaces, IssuingPlaces, CodePlaces, RolesPlaces, RolePlaces, GuestPlaces,
            VerifyPlaces, LinkPlaces
<1>1. CASE GenerateSecret(p) \/ ConfirmTwoFactor(p) \/ DisableTwoFactor(p) \/ RegenerateBackupCodes(p)
  BY <1>0, <1>1, BeginGone DEF GenerateSecret, ConfirmTwoFactor, DisableTwoFactor, RegenerateBackupCodes, Ask
<1>2. CASE \E b \in partials, k \in 1 .. shown : VerifyTwoFactor(p, b, k) \/ ExchangePartial(p, b, k)
  <2>1. PICK b \in partials, k \in 1 .. shown, clears \in BOOLEAN :
          Begin(p, "factor.check", [type |-> "FACTOR", begun |-> b, code |-> k, clears |-> clears])
    BY <1>2 DEF VerifyTwoFactor, ExchangePartial, BeginFactor
  <2>2. b \in Nat
    BY DEF FactorsOK
  <2>3. Typed("factor.check", [type |-> "FACTOR", begun |-> b, code |-> k, clears |-> clears])
    BY <2>2
  <2> HIDE DEF Typed
  <2> QED
    BY <1>0, <2>1, <2>3, BeginGone
<1>3. CASE \E b \in partials, s \in Sets : Recover(p, b, s)
  <2>1. PICK b \in partials, s \in Sets :
          Begin(p, "recover.find", [type |-> "FACTOR", begun |-> b, code |-> s, clears |-> FALSE])
    BY <1>3 DEF Recover, BeginFactor
  <2>2. b \in Nat
    BY DEF FactorsOK
  <2>3. Typed("recover.find", [type |-> "FACTOR", begun |-> b, code |-> s, clears |-> FALSE])
    BY <2>2
  <2> HIDE DEF Typed
  <2> QED
    BY <1>0, <2>1, <2>3, BeginGone
<1> QED
  BY <1>1, <1>2, <1>3 DEF FactorBegin

LEMMA DataMoves ==
  ASSUME CallsOK, NEW p \in Calls, DataStep(p) PROVE Moves(p, ErasePlaces \cup DemandPlaces)
<1>0. Shape /\ call[p].seen \in UserRows /\ Typed(call[p].at, call[p].on)
  BY DEF CallsOK
<1> USE DEF Typed, ErasePlaces, DemandPlaces, IssuingPlaces, CodePlaces, RolesPlaces, RolePlaces, GuestPlaces,
            VerifyPlaces, LinkPlaces
<1>1. CASE Anonymise(p)
  <2>1. call[p].at = "erase" /\ Goto(p, "erase.revoke")
    BY <1>1 DEF Anonymise, At
  <2>2. Typed("erase.revoke", call[p].on)
    BY <1>0, <2>1
  <2> HIDE DEF Typed
  <2> QED
    BY <2>1, <2>2, GotoGone DEF Moves
<1>2. CASE CheckDemands(p)
  <2>1. call[p].at = "demand.check" /\ call[p].on \in DemandTypes
    BY <1>0, <1>2 DEF CheckDemands, At
  <2>2. CASE End(p)
    BY <1>0, <2>1, <2>2, EndGone DEF Moves
  <2>3. CASE Goto(p, "demand.insert")
    BY <2>1, <2>3, GotoGone DEF Moves
  <2> QED
    BY <1>2, <2>2, <2>3 DEF CheckDemands
<1>3. CASE InsertDemand(p)
  <2>1. PICK d \in Demands : call' = [call EXCEPT ![p] = [at |-> "demand.process", on |-> d, seen |-> Seen(p)]]
    BY <1>3 DEF InsertDemand, FreeDemands
  <2>2. Shape' /\ Others(p) /\ Now(p, "demand.process", d, call[p].seen)
    BY <1>0, <2>1, Moved DEF Seen
  <2>3. Typed("demand.process", d)
    OBVIOUS
  <2> QED
    BY <1>0, <1>3, <2>2, <2>3 DEF InsertDemand, At, Moves, GoneTo, Now
<1>4. CASE Process(p)
  <2>1. call[p].at = "demand.process" /\ Goto(p, "demand.work")
    BY <1>4 DEF Process, At
  <2>2. Typed("demand.work", call[p].on)
    BY <1>0, <2>1
  <2> HIDE DEF Typed
  <2> QED
    BY <2>1, <2>2, GotoGone DEF Moves
<1>5. CASE Export(p)
  <2>1. call[p].at = "demand.work" /\ Goto(p, "demand.notify")
    BY <1>5 DEF Export, At
  <2>2. Typed("demand.notify", call[p].on)
    BY <1>0, <2>1
  <2> HIDE DEF Typed
  <2> QED
    BY <2>1, <2>2, GotoGone DEF Moves
<1>6. CASE RollBackDeletion(p)
  <2>1. call[p].at = "demand.work" /\ Goto(p, "demand.fail")
    BY <1>6 DEF RollBackDeletion, At
  <2>2. Typed("demand.fail", call[p].on)
    BY <1>0, <2>1
  <2> HIDE DEF Typed
  <2> QED
    BY <2>1, <2>2, GotoGone DEF Moves
<1>7. CASE RevokeErased(p) \/ NotifyExported(p) \/ SaveFailure(p)
  BY <1>0, <1>7, EndGone DEF RevokeErased, NotifyExported, SaveFailure, At, Moves
<1> QED
  BY <1>1, <1>2, <1>3, <1>4, <1>5, <1>6, <1>7 DEF DataStep

LEMMA DataArrive ==
  ASSUME CallsOK, RowsOK, NEW p \in Calls, DataBegin(p)
  PROVE  GoneTo(p, ErasePlaces \cup DemandPlaces) /\ call[p].at = "idle"
<1>0. user \in UserRows
  BY DEF RowsOK
<1> USE DEF Typed, ErasePlaces, DemandPlaces, IssuingPlaces, CodePlaces, RolesPlaces, RolePlaces, GuestPlaces,
            VerifyPlaces, LinkPlaces
<1>1. CASE EraseUser(p)
  BY <1>0, <1>1, BeginGone DEF EraseUser
<1>2. CASE \E type \in DemandTypes : Demand(p, type)
  BY <1>0, <1>2, BeginGone DEF Demand
<1> QED
  BY <1>1, <1>2 DEF DataBegin, DemandTypes

LEMMA RolesMoves ==
  ASSUME CallsOK, NEW p \in Calls, RolesStep(p) PROVE Moves(p, RolesPlaces)
<1>0. Shape /\ call[p].seen \in UserRows /\ Typed(call[p].at, call[p].on)
  BY DEF CallsOK
<1> USE DEF Typed, IssuingPlaces, CodePlaces, RolesPlaces, RolePlaces, GuestPlaces, VerifyPlaces, LinkPlaces
<1>1. CASE ReadTarget(p)
  <2>1. call[p].at = "role.target" /\ call[p].on.account \in Staff /\ call[p].on.role \in RoleNames
    BY <1>0, <1>1 DEF ReadTarget, At
  <2>2. CASE End(p)
    BY <1>0, <2>1, <2>2, EndGone DEF Moves
  <2>3. CASE Goto(p, "role.count")
    BY <2>1, <2>3, GotoGone DEF Moves
  <2>4. CASE Goto(p, "role.save")
    BY <2>1, <2>4, GotoGone DEF Moves
  <2> QED
    BY <1>1, <2>2, <2>3, <2>4 DEF ReadTarget
<1>2. CASE CountSupers(p)
  <2>1. call[p].at = "role.count" /\ call[p].on.account \in Staff /\ call[p].on.role \in RoleNames
    BY <1>0, <1>2 DEF CountSupers, At
  <2>2. CASE End(p)
    BY <1>0, <2>1, <2>2, EndGone DEF Moves
  <2>3. CASE Goto(p, "role.save")
    BY <2>1, <2>3, GotoGone DEF Moves
  <2> QED
    BY <1>2, <2>2, <2>3 DEF CountSupers
<1>3. CASE InsertAdmin(p)
  <2>1. call[p].at = "admin.insert" /\ call[p].on.account \in Staff /\ call[p].on.role \in RoleNames
    BY <1>0, <1>3 DEF InsertAdmin, At
  <2>2. CASE End(p)
    BY <1>0, <2>1, <2>2, EndGone DEF Moves
  <2>3. CASE Goto(p, "admin.verify")
    BY <2>1, <2>3, GotoGone DEF Moves
  <2> QED
    BY <1>3, <2>2, <2>3 DEF InsertAdmin
<1>4. CASE SaveRole(p) \/ VerifyAdmin(p)
  BY <1>0, <1>4, EndGone DEF SaveRole, VerifyAdmin, At, Moves
<1> QED
  BY <1>1, <1>2, <1>3, <1>4 DEF RolesStep

LEMMA RolesArrive ==
  ASSUME CallsOK, RowsOK, NEW p \in Calls, RolesBegin(p)
  PROVE  GoneTo(p, {"role.target", "admin.insert"}) /\ call[p].at = "idle"
<1>0. user \in UserRows
  BY DEF RowsOK
<1>1. PICK a \in Staff, role \in RoleNames, place \in {"role.target", "admin.insert"} :
        Begin(p, place, [account |-> a, role |-> role])
  BY DEF RolesBegin, ChangeRole, CreateAdmin, RoleNames
<1>2. Typed(place, [account |-> a, role |-> role])
  BY DEF Typed, IssuingPlaces, CodePlaces, RolesPlaces, RolePlaces, GuestPlaces, VerifyPlaces, LinkPlaces
<1> QED
  BY <1>0, <1>1, <1>2, BeginGone

LEMMA ExperimentsMoves ==
  ASSUME CallsOK, BesideOK, NEW p \in Calls, ExperimentsStep(p) PROVE Moves(p, TrialPlaces)
<1>0. Shape /\ call[p].seen \in UserRows /\ Typed(call[p].at, call[p].on)
  BY DEF CallsOK
<1> USE DEF Typed, TrialPlaces, IssuingPlaces, CodePlaces, RolesPlaces, RolePlaces, GuestPlaces,
            VerifyPlaces, LinkPlaces
<1>1. CASE InsertExperiment(p)
  <2>0. call[p].at = "experiment.insert" /\ Typed("experiment.variants", call[p].on)
    BY <1>1 DEF InsertExperiment, At
  <2>1. CASE Goto(p, "experiment.variants")
    <3> HIDE DEF Typed
    <3> QED
      BY <2>0, <2>1, GotoGone DEF Moves
  <2>2. CASE End(p)
    <3> HIDE DEF Typed
    <3> QED
      BY <1>0, <2>0, <2>2, EndGone DEF Moves
  <2> QED
    BY <1>1, <2>1, <2>2 DEF InsertExperiment
<1>2. CASE ListAssignments(p)
  <2>0. call[p].at = "variant.list" /\ Typed("variant.experiment", call[p].on)
    BY <1>2 DEF ListAssignments, At
  <2>1. CASE Goto(p, "variant.experiment")
    <3> HIDE DEF Typed
    <3> QED
      BY <2>0, <2>1, GotoGone DEF Moves
  <2>2. CASE End(p)
    <3> HIDE DEF Typed
    <3> QED
      BY <1>0, <2>0, <2>2, EndGone DEF Moves
  <2> QED
    BY <1>2, <2>1, <2>2 DEF ListAssignments, Tell
<1>3. CASE ReadExperiment(p)
  <2>1. call[p].at = "variant.experiment"
    BY <1>3 DEF ReadExperiment, At
  <2>2. CASE /\ experiment.status = "RUNNING"
             /\ call' = [call EXCEPT ![p].at = "variant.find", ![p].on = experiment.traffic /\ variants]
    <3>1. (experiment.traffic /\ variants) \in BOOLEAN
      OBVIOUS
    <3>2. Typed("variant.find", experiment.traffic /\ variants)
      BY <3>1
    <3> HIDE DEF Typed
    <3> QED
      BY <2>1, <2>2, <3>2, GoOnGone DEF Moves
  <2>3. CASE End(p)
    BY <1>0, <2>1, <2>3, EndGone DEF Moves
  <2> QED
    BY <1>3, <2>2, <2>3 DEF ReadExperiment
<1>4. CASE FindAssignment(p)
  <2>1. call[p].at = "variant.find"
    BY <1>4 DEF FindAssignment, At
  <2>2. CASE \E v \in Variants : call' = [call EXCEPT ![p].at = "variant.insert", ![p].on = v]
    <3>1. PICK v \in Variants : call' = [call EXCEPT ![p].at = "variant.insert", ![p].on = v]
      BY <2>2
    <3>2. Typed("variant.insert", v)
      OBVIOUS
    <3> HIDE DEF Typed
    <3> QED
      BY <2>1, <3>1, <3>2, GoOnGone DEF Moves
  <2>3. CASE End(p)
    BY <1>0, <2>1, <2>3, EndGone DEF Moves
  <2> QED
    BY <1>4, <2>2, <2>3 DEF FindAssignment, Tell
<1>5. CASE InsertVariants(p) \/ SaveExperiment(p) \/ InsertAssignment(p)
  BY <1>0, <1>5, EndGone DEF InsertVariants, SaveExperiment, InsertAssignment, At, Moves
<1> QED
  BY <1>1, <1>2, <1>3, <1>4, <1>5 DEF ExperimentsStep

LEMMA ExperimentsArrive ==
  ASSUME CallsOK, RowsOK, NEW p \in Calls, ExperimentsBegin(p)
  PROVE  GoneTo(p, TrialPlaces \ {"experiment.variants"}) /\ call[p].at = "idle"
<1>0. user \in UserRows
  BY DEF RowsOK
<1> USE DEF Typed, TrialPlaces, IssuingPlaces, CodePlaces, RolesPlaces, RolePlaces, GuestPlaces,
            VerifyPlaces, LinkPlaces
<1>1. CASE AskVariant(p)
  BY <1>0, <1>1, BeginGone DEF AskVariant
<1>2. CASE \E traffic \in BOOLEAN : CreateExperiment(p, traffic)
  BY <1>0, <1>2, BeginGone DEF CreateExperiment
<1>3. CASE \E entity \in ExperimentRows : UpdateExperiment(p, entity)
  <2>1. PICK entity \in ExperimentRows : Begin(p, "experiment.save", [read |-> experiment, entity |-> entity])
    BY <1>3 DEF UpdateExperiment
  <2>2. Typed("experiment.save", [read |-> experiment, entity |-> entity])
    OBVIOUS
  <2> HIDE DEF Typed
  <2> QED
    BY <1>0, <2>1, <2>2, BeginGone
<1> QED
  BY <1>1, <1>2, <1>3 DEF ExperimentsBegin, ExperimentRows

\* An account that comes into being has an id that is still to come.
LEMMA NextComes ==
  ASSUME RoomInv, NEW p \in Calls, call[p].at \in CreatingPlaces
  PROVE  (CHOOSE i \in Coming : TRUE) \in Coming
<1>1. IsFiniteSet(Coming) /\ Cardinality(Coming) \in Nat
  BY SignupsAssumption, FS_Subset, FS_CardinalityType DEF Coming
<1>2. IsFiniteSet(Creating) /\ Cardinality(Creating) \in Nat
  BY AccountsAssumption, FS_Subset, FS_CardinalityType DEF Creating
<1>3. Creating # {}
  BY DEF Creating, CreatingPlaces
<1>4. Cardinality(Creating) # 0
  BY <1>2, <1>3, FS_EmptySet
<1>5. Coming # {}
  BY <1>1, <1>2, <1>4, FS_EmptySet DEF RoomInv
<1> QED
  BY <1>5

LEMMA ChangeMoves ==
  ASSUME CallsOK, NEW p \in Calls, NEW column, NEW value, NEW place \in GuestPlaces,
         call[p].at \in GuestPlaces, Change(p, column, value, place)
  PROVE  Moves(p, GuestPlaces)
<1>1. Shape /\ call[p].on \in People
  BY DEF CallsOK, Typed
<1>2. CASE Goto(p, place)
  <2>1. Typed(place, call[p].on)
    BY <1>1 DEF Typed, IssuingPlaces, CodePlaces, RolesPlaces, RolePlaces, GuestPlaces, VerifyPlaces, LinkPlaces
  <2> QED
    BY <1>2, <2>1, GotoGone DEF Moves
<1>3. CASE End(p)
  BY <1>1, <1>3, EndGone DEF Moves
<1> QED
  BY <1>2, <1>3 DEF Change

LEMMA CreateMoves ==
  ASSUME CallsOK, RoomInv, NEW p \in Calls, NEW password, NEW place \in GuestPlaces,
         call[p].at \in CreatingPlaces, Create(p, password, place)
  PROVE  Moves(p, SignupsPlaces)
<1>1. Shape
  BY DEF CallsOK
<1> DEFINE i == CHOOSE i \in Coming : TRUE
<1>2. i \in People
  BY NextComes DEF Coming
<1> HIDE DEF i
<1>3. CASE call' = [call EXCEPT ![p].at = place, ![p].on = i]
  <2>1. Typed(place, i)
    BY <1>2 DEF Typed, IssuingPlaces, CodePlaces, RolesPlaces, RolePlaces, GuestPlaces, VerifyPlaces, LinkPlaces
  <2> QED
    BY <1>3, <2>1, GoOnGone DEF Moves, SignupsPlaces
<1>4. CASE End(p)
  BY <1>1, <1>4, EndGone DEF Moves, SignupsPlaces
<1> QED
  BY <1>3, <1>4 DEF Create, i

LEMMA SignupsMoves ==
  ASSUME CallsOK, RoomInv, NEW p \in Calls, SignupsStep(p) PROVE Moves(p, SignupsPlaces)
<1>0. Shape /\ call[p].seen \in UserRows /\ Typed(call[p].at, call[p].on)
  BY DEF CallsOK
<1>a. Moves(p, GuestPlaces) => Moves(p, SignupsPlaces)
  BY DEF Moves, GoneTo, SignupsPlaces
<1>1. CASE DeleteUnverified(p)
  <2>1. Typed("signup.insert", call[p].on)
    BY DEF Typed, IssuingPlaces, CodePlaces, RolesPlaces, RolePlaces, GuestPlaces, VerifyPlaces, LinkPlaces
  <2> QED
    BY <1>1, <2>1, GotoGone DEF DeleteUnverified, At, Moves, SignupsPlaces, CreatingPlaces
<1>2. CASE InsertGuest(p) \/ InsertOAuth(p)
  BY <1>2, CreateMoves DEF InsertGuest, InsertOAuth, At, CreatingPlaces, GuestPlaces, LinkPlaces
<1>3. CASE SeedWallet(p) \/ SaveLink(p)
  BY <1>3, <1>a, ChangeMoves DEF SeedWallet, SaveLink, At, GuestPlaces, LinkPlaces
<1>4. CASE SendSignupCode(p) \/ DeleteLink(p) \/ WritePassword(p)
  BY <1>0, <1>4, EndGone
  DEF SendSignupCode, DeleteLink, WritePassword, Finish, At, Moves, SignupsPlaces, GuestPlaces
<1>5. CASE UseSignupCode(p)
  <2>1. call[p].at = "verify.code"
    BY <1>5 DEF UseSignupCode, At
  <2>2. CASE Change(p, "code", FALSE, "verify.user")
    BY <1>a, <2>1, <2>2, ChangeMoves DEF GuestPlaces, VerifyPlaces
  <2>3. CASE End(p)
    BY <1>0, <2>1, <2>3, EndGone DEF Moves, SignupsPlaces, GuestPlaces, VerifyPlaces
  <2> QED
    BY <1>5, <2>2, <2>3 DEF UseSignupCode
<1>6. CASE LookUp(p) \/ CheckVerified(p) \/ MarkVerified(p) \/ OpenSession(p)
  <2>1. call[p].at \in GuestPlaces /\ call[p].on \in People
    BY <1>0, <1>6
    DEF Typed, LookUp, CheckVerified, MarkVerified, OpenSession, At, GuestPlaces, VerifyPlaces, LinkPlaces
  <2>2. CASE End(p)
    BY <1>0, <2>1, <2>2, EndGone DEF Moves, SignupsPlaces
  <2>3. CASE \E place \in GuestPlaces : Goto(p, place)
    <3>1. PICK place \in GuestPlaces : Goto(p, place)
      BY <2>3
    <3>2. Typed(place, call[p].on)
      BY <2>1 DEF Typed, IssuingPlaces, CodePlaces, RolesPlaces, RolePlaces, GuestPlaces, VerifyPlaces, LinkPlaces
    <3> QED
      BY <2>1, <3>1, <3>2, GotoGone DEF Moves, SignupsPlaces
  <2> QED
    BY <1>6, <2>2, <2>3 DEF LookUp, CheckVerified, MarkVerified, OpenSession, GuestPlaces, VerifyPlaces, LinkPlaces
<1>7. CASE FindByEmail(p)
  <2>1. call[p].at = "oauth.find"
    BY <1>7 DEF FindByEmail, At
  <2>2. CASE Goto(p, "oauth.insert")
    <3>1. Typed("oauth.insert", call[p].on)
      BY DEF Typed, IssuingPlaces, CodePlaces, RolesPlaces, RolePlaces, GuestPlaces, VerifyPlaces, LinkPlaces
    <3> QED
      BY <2>1, <2>2, <3>1, GotoGone DEF Moves, SignupsPlaces, CreatingPlaces
  <2>3. CASE \E i \in Present : call' = [call EXCEPT ![p].at = "oauth.link", ![p].on = i]
    <3>1. PICK i \in People : call' = [call EXCEPT ![p].at = "oauth.link", ![p].on = i]
      BY <2>3 DEF Present
    <3>2. Typed("oauth.link", i)
      BY DEF Typed, IssuingPlaces, CodePlaces, RolesPlaces, RolePlaces, GuestPlaces, VerifyPlaces, LinkPlaces
    <3>3. GoneTo(p, SignupsPlaces)
      BY <3>1, <3>2, GoOnGone DEF SignupsPlaces, GuestPlaces, LinkPlaces
    <3> QED
      BY <2>1, <3>3 DEF Moves, SignupsPlaces, CreatingPlaces
  <2> QED
    BY <1>7, <2>2, <2>3 DEF FindByEmail
<1>8. CASE LinkAccount(p)
  <2>1. call[p].at = "oauth.link"
    BY <1>8 DEF LinkAccount, At
  <2>2. CASE Change(p, "linked", TRUE, "oauth.check")
    BY <1>a, <2>1, <2>2, ChangeMoves DEF GuestPlaces, LinkPlaces
  <2>3. CASE End(p)
    BY <1>0, <2>1, <2>3, EndGone DEF Moves, SignupsPlaces, GuestPlaces, LinkPlaces
  <2> QED
    BY <1>8, <2>2, <2>3 DEF LinkAccount
<1> QED
  BY <1>1, <1>2, <1>3, <1>4, <1>5, <1>6, <1>7, <1>8 DEF SignupsStep

LEMMA SignupsArrive ==
  ASSUME CallsOK, RowsOK, NEW p \in Calls, SignupsBegin(p)
  PROVE  GoneTo(p, SignupsPlaces) /\ call[p].at = "idle"
<1>0. user \in UserRows
  BY DEF RowsOK
<1>1. CASE \E place \in GuestPlaces, i \in People : Begin(p, place, i)
  <2>1. PICK place \in GuestPlaces, i \in People : Begin(p, place, i)
    BY <1>1
  <2>2. Typed(place, i)
    BY <2>1 DEF Typed, IssuingPlaces, CodePlaces, RolesPlaces, RolePlaces, GuestPlaces, VerifyPlaces, LinkPlaces
  <2> QED
    BY <1>0, <2>1, <2>2, BeginGone DEF SignupsPlaces
<1>2. CASE \E place \in {"signup.insert", "oauth.find"} : Begin(p, place, 0)
  <2>1. PICK place \in {"signup.insert", "oauth.find"} : Begin(p, place, 0)
    BY <1>2
  <2>2. Typed(place, 0)
    BY <2>1 DEF Typed, IssuingPlaces, CodePlaces, RolesPlaces, RolePlaces, GuestPlaces, VerifyPlaces, LinkPlaces
  <2> QED
    BY <1>0, <2>1, <2>2, BeginGone DEF SignupsPlaces, CreatingPlaces
<1>3. CASE \E i \in People : Begin(p, "signup.delete", [account |-> i, verified |-> FALSE])
  <2>1. PICK i \in People : Begin(p, "signup.delete", [account |-> i, verified |-> FALSE])
    BY <1>3
  <2>2. Typed("signup.delete", [account |-> i, verified |-> FALSE])
    BY DEF Typed, IssuingPlaces, CodePlaces, RolesPlaces, RolePlaces, GuestPlaces, VerifyPlaces, LinkPlaces
  <2> QED
    BY <1>0, <2>1, <2>2, BeginGone DEF SignupsPlaces, CreatingPlaces
<1>4. SignUp(p) \/ ContinueWith(p) \/ ResendCode(p) \/ VerifySignup(p) \/ Unlink(p) \/ SetFirstPassword(p)
  BY DEF SignupsBegin
<1>5. "signup.code" \in GuestPlaces /\ "verify.code" \in GuestPlaces /\ "oauth.save" \in GuestPlaces
        /\ "unlink" \in GuestPlaces /\ "password.first" \in GuestPlaces
  BY DEF GuestPlaces, VerifyPlaces, LinkPlaces
<1>6. Present \subseteq People /\ Linked \subseteq People
  BY DEF Present, Linked
<1> QED
  BY <1>1, <1>2, <1>3, <1>4, <1>5, <1>6
  DEF SignUp, ContinueWith, ResendCode, VerifySignup, Unlink, SetFirstPassword

-------------------------------------------------------------------------------
(* What a step does to the row of the user. *)

LEMMA ColumnsAre ==
  Columns = {"email", "names", "password", "active", "deleted", "tier", "money", "attempts", "locked",
             "secret", "second"}
  BY DEF Columns, Fresh

\* Columns are written by a statement of their own, or with the rest of an entity
\* that was read before; what that overwrites is in mishaps.
Written(columns) == user' \in UserRows /\ \A c \in Columns \ columns : user'[c] = user[c]
Saved(p, columns) ==
  /\ user' \in UserRows
  /\ \A c \in Columns \ columns : user'[c] = Seen(p)[c] /\ (user'[c] = user[c] \/ c \in mishaps')

LEMMA SaveEffect ==
  ASSUME NEW p \in Calls, NEW columns, NEW entity \in UserRows, user' = entity,
         \A c \in Columns \ columns : entity[c] = Seen(p)[c], Undone(Seen(p), entity) \subseteq mishaps'
  PROVE  Saved(p, columns)
  BY DEF Saved, Undone

LEMMA ProfileEffect ==
  ASSUME RowsOK, NEW p \in Calls, WriteProfile(p)
  PROVE  Written({"names"}) /\ user'.names = TRUE
<1>1. user \in UserRows /\ user' = [user EXCEPT !.names = TRUE]
  BY DEF RowsOK, WriteProfile
<1> QED
  BY <1>1, ColumnsAre DEF UserRows, Written

LEMMA StatusEffect ==
  ASSUME RowsOK, NEW p \in Calls, NEW active \in BOOLEAN, UpdateUserStatus(p, active)
  PROVE  Written({"active"}) /\ user'.active = active
<1>1. user \in UserRows /\ user' = [user EXCEPT !.active = active]
  BY DEF RowsOK, UpdateUserStatus
<1> QED
  BY <1>1, ColumnsAre DEF UserRows, Written

LEMMA DeletedEffect ==
  ASSUME RowsOK, NEW p \in Calls, DeleteProfile(p) PROVE  Written({"deleted"})
<1>1. user \in UserRows /\ user' = [user EXCEPT !.deleted = TRUE]
  BY DEF RowsOK, DeleteProfile
<1> QED
  BY <1>1, ColumnsAre DEF UserRows, Written

LEMMA BalanceEffect ==
  ASSUME RowsOK, NEW p \in Calls, ChangeBalance(p) PROVE  Written({"money"}) /\ user'.money = user.money + 1
<1>1. user \in UserRows /\ user' = [user EXCEPT !.money = user.money + 1]
  BY DEF RowsOK, ChangeBalance
<1>2. user.money + 1 \in Nat
  BY <1>1 DEF UserRows
<1> QED
  BY <1>1, <1>2, ColumnsAre DEF UserRows, Written

LEMMA BalancesEffect ==
  ASSUME RowsOK, NEW p \in Calls, WriteBalances(p) PROVE  Written({"money"}) /\ user'.money = 0
<1>1. user \in UserRows /\ user' = [user EXCEPT !.money = 0]
  BY DEF RowsOK, WriteBalances
<1> QED
  BY <1>1, ColumnsAre DEF UserRows, Written

LEMMA UnlockEffect ==
  ASSUME RowsOK, Unlock PROVE  Written({"locked"}) /\ user'.locked = FALSE
<1>1. user \in UserRows /\ user' = [user EXCEPT !.locked = FALSE]
  BY DEF RowsOK, Unlock
<1> QED
  BY <1>1, ColumnsAre DEF UserRows, Written

LEMMA WrongEffect ==
  ASSUME RowsOK, CallsOK, NEW p \in Calls, CountWrong(p)
  PROVE  /\ Written({"attempts", "locked"}) /\ user'.attempts = Seen(p).attempts + 1
         /\ Seen(p).attempts + 1 >= MAX_FAILED_ATTEMPTS => user'.locked = TRUE
<1> DEFINE count == Seen(p).attempts + 1
           locked == user.locked \/ count >= MAX_FAILED_ATTEMPTS
<1>1. user \in UserRows /\ user' = [user EXCEPT !.attempts = count, !.locked = locked]
  BY DEF RowsOK, CountWrong
<1>2. count \in Nat
  BY DEF CallsOK, UserRows, Seen
<1>3. locked \in BOOLEAN
  OBVIOUS
<1>4. count >= MAX_FAILED_ATTEMPTS => locked = TRUE
  OBVIOUS
<1> HIDE DEF count, locked
<1>5. Written({"attempts", "locked"}) /\ user'.attempts = count /\ user'.locked = locked
  BY <1>1, <1>2, <1>3, ColumnsAre DEF UserRows, Written
<1> QED
  BY <1>4, <1>5 DEF count

LEMMA ClearEffect ==
  ASSUME RowsOK, NEW p \in Calls, ClearAttempts(p) \/ ClearFactorAttempts(p)
  PROVE  Written({"attempts", "locked"}) /\ user'.attempts = 0
<1>1. user \in UserRows /\ user' = [user EXCEPT !.attempts = 0, !.locked = FALSE]
  BY DEF RowsOK, ClearAttempts, ClearFactorAttempts
<1> QED
  BY <1>1, ColumnsAre DEF UserRows, Written

LEMMA PasswordEffect ==
  ASSUME RowsOK, CallsOK, NEW p \in Calls, SetPassword(p)
  PROVE  Written({"password"}) /\ user'.password = call[p].on.code + 1 /\ call[p].on.code \in Nat
<1>1. user \in UserRows /\ user' = [user EXCEPT !.password = call[p].on.code + 1]
  BY DEF RowsOK, SetPassword
<1>2. call[p].on.code \in Nat
  BY DEF CallsOK, Typed, SetPassword, At, CodePlaces
<1>3. call[p].on.code + 1 \in Nat
  BY <1>2
<1> QED
  BY <1>1, <1>2, <1>3, ColumnsAre DEF UserRows, Written

LEMMA SecretEffect ==
  ASSUME RowsOK, FactorsOK, NEW p \in Calls, WriteSecret(p)
  PROVE  Written({"secret", "second"}) /\ user'.secret = shown' /\ user'.second = FALSE /\ shown' \in Nat
<1>1. user \in UserRows /\ user' = [user EXCEPT !.secret = shown', !.second = FALSE] /\ shown' \in Nat
  BY DEF RowsOK, WriteSecret, FactorsOK
<1> QED
  BY <1>1, ColumnsAre DEF UserRows, Written

LEMMA EnabledEffect ==
  ASSUME RowsOK, NEW p \in Calls, WriteEnabled(p) PROVE  Written({"second"}) /\ user'.second = TRUE
<1>1. user \in UserRows /\ user' = [user EXCEPT !.second = TRUE]
  BY DEF RowsOK, WriteEnabled
<1> QED
  BY <1>1, ColumnsAre DEF UserRows, Written

LEMMA DisabledEffect ==
  ASSUME RowsOK, NEW p \in Calls, WriteDisabled(p)
  PROVE  Written({"secret", "second"}) /\ user'.secret = 0 /\ user'.second = FALSE
<1>1. user \in UserRows /\ user' = [user EXCEPT !.second = FALSE, !.secret = 0]
  BY DEF RowsOK, WriteDisabled
<1> QED
  BY <1>1, ColumnsAre DEF UserRows, Written

LEMMA PreferencesEffect ==
  ASSUME CallsOK, NEW p \in Calls, SavePreferences(p) PROVE Saved(p, {})
<1>1. Seen(p) \in UserRows
  BY DEF CallsOK, Seen
<1> QED
  BY <1>1, SaveEffect DEF SavePreferences, Save

LEMMA ReviewEffect ==
  ASSUME CallsOK, RowsOK, NEW p \in Calls, SaveReview(p)
  PROVE  IF call[p].on.decision = "APPROVED"
         THEN Saved(p, {"tier"}) /\ user'.tier = apps[call[p].on.app].target
         ELSE UNCHANGED user
<1> DEFINE tier == apps[call[p].on.app].target
           entity == [Seen(p) EXCEPT !.tier = tier]
<1>1. Seen(p) \in UserRows
  BY DEF CallsOK, Seen
<1>2. tier \in Nat
  BY DEF CallsOK, RowsOK, Typed, SaveReview, At, AppRows
<1> HIDE DEF tier
<1>3. entity \in UserRows /\ entity.tier = tier /\ \A c \in Columns \ {"tier"} : entity[c] = Seen(p)[c]
  BY <1>1, <1>2, ColumnsAre DEF UserRows
<1>4. CASE call[p].on.decision = "APPROVED"
  <2>1. user' = entity /\ Undone(Seen(p), entity) \subseteq mishaps'
    BY <1>4 DEF SaveReview, tier
  <2> HIDE DEF entity
  <2> QED
    BY <1>3, <1>4, <2>1, SaveEffect DEF tier
<1> QED
  BY <1>4 DEF SaveReview

LEMMA AnonymiseEffect ==
  ASSUME CallsOK, NEW p \in Calls, Anonymise(p)
  PROVE  /\ Saved(p, {"email", "names", "password", "active", "secret"})
         /\ user'.email = FALSE /\ user'.names = FALSE /\ user'.password = 0 /\ user'.active = FALSE
         /\ user'.secret = 0
<1> DEFINE entity == Anonymised(Seen(p))
<1>1. Seen(p) \in UserRows
  BY DEF CallsOK, Seen
<1>2. /\ entity \in UserRows
      /\ \A c \in Columns \ {"email", "names", "password", "active", "secret"} : entity[c] = Seen(p)[c]
      /\ entity.email = FALSE /\ entity.names = FALSE /\ entity.password = 0 /\ entity.active = FALSE
      /\ entity.secret = 0
  BY <1>1, ColumnsAre DEF UserRows, Anonymised
<1>3. user' = entity /\ Undone(Seen(p), entity) \subseteq mishaps'
  BY DEF Anonymise, Save
<1> HIDE DEF entity
<1> QED
  BY <1>2, <1>3, SaveEffect

\* Who writes the row; the others leave it as it is, and what is noted about it.
Rewrites(p) ==
  \/ UNCHANGED factors /\ \/ WriteProfile(p) \/ SavePreferences(p) \/ WriteBalances(p) \/ SaveReview(p)
                          \/ CountWrong(p) \/ ClearAttempts(p) \/ SetPassword(p) \/ Anonymise(p)
                          \/ ClearFactorAttempts(p) \/ DeleteProfile(p) \/ ChangeBalance(p)
                          \/ \E active \in BOOLEAN : UpdateUserStatus(p, active)
  \/ WriteSecret(p) \/ WriteEnabled(p) \/ WriteDisabled(p)

RowKept == UNCHANGED <<user, due, erased, wrong, shown, confirmed, wanted>>

LEMMA RowWriters ==
  ASSUME [Next]_lifeVars
  PROVE  \/ RowKept
         \/ \E p \in Calls : Rewrites(p)
         \/ Unlock /\ UNCHANGED factors
<1> USE DEF RowKept, ghosts, tables
<1>1. CASE \E p \in Calls : Arrive(p)
  <2>1. PICK p \in Calls : Arrive(p)
    BY <1>1
  <2>2. CASE UNCHANGED beside /\ UsersBegin(p)
    BY <2>2 DEF UsersBegin, UpdateProfile, UpdatePreferences, SyncBalances, Begin, Rewrites, beside, factors
  <2>3. CASE UNCHANGED beside /\ (KycBegin(p) \/ DataBegin(p))
    BY <2>3 DEF KycBegin, ApplyForKyc, ResubmitKyc, Review, DataBegin, EraseUser, Demand, Begin, beside, factors
  <2>4. CASE UNCHANGED beside /\ SessionsBegin(p)
    BY <2>4 DEF SessionsBegin, SendCode, UseCode, Logout, Begin, beside, factors
  <2>5. CASE FactorBegin(p)
    BY <2>5 DEF FactorBegin, GenerateSecret, ConfirmTwoFactor, DisableTwoFactor, RegenerateBackupCodes, Ask,
                VerifyTwoFactor, ExchangePartial, Recover, BeginFactor, Begin, factors
  <2>6. CASE UNCHANGED factors /\ (RolesBegin(p) \/ ExperimentsBegin(p))
    BY <2>6 DEF RolesBegin, ChangeRole, CreateAdmin, ExperimentsBegin, AskVariant, CreateExperiment,
                UpdateExperiment, Begin, factors
  <2>7. CASE UNCHANGED factors /\ SignupsBegin(p)
    BY <2>7 DEF SignupsBegin, SignUp, ResendCode, VerifySignup, ContinueWith, Unlink, SetFirstPassword, Begin, factors
  <2> QED
    BY <2>1, <2>2, <2>3, <2>4, <2>5, <2>6, <2>7 DEF Arrive
<1>2. CASE \E p \in Calls : Step(p)
  <2>1. PICK p \in Calls : Step(p)
    BY <1>2
  <2>2. CASE UNCHANGED beside /\ (UsersStep(p) \/ KycStep(p))
    BY <2>2 DEF UsersStep, KycStep, CheckOpen, InsertApplication, SaveResubmission, ReadReviewed, Rewrites,
                beside, factors
  <2>3. CASE UNCHANGED beside /\ SessionsStep(p)
    BY <2>3 DEF SessionsStep, Invalidate, InsertCode, FindCode, MarkUsed, IssueToken, RevokeTokens, InvalidateAll,
                Rewrites, beside, factors
  <2>4. CASE UNCHANGED beside /\ DataStep(p)
    BY <2>4 DEF DataStep, RevokeErased, CheckDemands, InsertDemand, Process, Export, NotifyExported,
                RollBackDeletion, SaveFailure, KeepAllButDemands, Rewrites, beside, factors
  <2>5. CASE FactorStep(p)
    BY <2>5 DEF FactorStep, DeleteBackups, InsertBackups, SignPartial, CheckTotp, FindBackup, UseBackup,
                ClearFactorAttempts, Rewrites, factors
  <2>6. CASE UNCHANGED factors /\ RolesStep(p)
    BY <2>6 DEF RolesStep, ReadTarget, CountSupers, SaveRole, InsertAdmin, VerifyAdmin, factors
  <2>7. CASE UNCHANGED factors /\ ExperimentsStep(p)
    BY <2>7 DEF ExperimentsStep, InsertExperiment, InsertVariants, SaveExperiment, ListAssignments, ReadExperiment,
                FindAssignment, InsertAssignment, Tell, factors
  <2>8. CASE UNCHANGED factors /\ SignupsStep(p)
    <3>1. \/ DeleteUnverified(p) \/ GuestsOnly
      BY <2>8 DEF SignupsStep, InsertGuest, SeedWallet, SendSignupCode, UseSignupCode, LookUp, MarkVerified,
                  OpenSession, FindByEmail, SaveLink, InsertOAuth, LinkAccount, CheckVerified, DeleteLink,
                  WritePassword, Change, Finish, Create
    <3> QED
      BY <2>8, <3>1 DEF DeleteUnverified, GuestsOnly, factors
  <2> QED
    BY <2>1, <2>2, <2>3, <2>4, <2>5, <2>6, <2>7, <2>8 DEF Step, beside
<1>3. CASE UNCHANGED lifeVars
  BY <1>3 DEF lifeVars, vars, beside, factors
<1>4. CASE \E p \in Calls : UNCHANGED beside /\ (Die(p) \/ FailWork(p))
  BY <1>4 DEF Die, FailWork, beside, factors
<1>5. CASE \E a \in Apps : Screening(a)
  BY <1>5 DEF Screening, Screen, LoseScreening, beside, factors
<1>6. CASE Unlock /\ UNCHANGED beside
  BY <1>6 DEF beside, factors
<1> QED
  BY <1>1, <1>2, <1>3, <1>4, <1>5, <1>6 DEF Next

\* What went wrong is not forgotten.
LEMMA MishapsStay ==
  ASSUME [Next]_lifeVars PROVE mishaps \subseteq mishaps' /\ (faults' = faults \/ faults' = faults + 1)
<1> USE DEF ghosts, tables
<1>1. CASE \E p \in Calls : Arrive(p)
  <2>1. PICK p \in Calls : Arrive(p)
    BY <1>1
  <2>2. CASE UsersBegin(p)
    BY <2>2 DEF UsersBegin, UpdateProfile, UpdatePreferences, SyncBalances, UpdateUserStatus, DeleteProfile,
                ChangeBalance, Begin
  <2>3. CASE KycBegin(p) \/ DataBegin(p)
    BY <2>3 DEF KycBegin, ApplyForKyc, ResubmitKyc, Review, DataBegin, EraseUser, Demand, Begin
  <2>4. CASE SessionsBegin(p)
    BY <2>4 DEF SessionsBegin, SendCode, UseCode, Logout, Begin
  <2>5. CASE FactorBegin(p)
    BY <2>5 DEF FactorBegin, GenerateSecret, ConfirmTwoFactor, DisableTwoFactor, RegenerateBackupCodes, Ask,
                VerifyTwoFactor, ExchangePartial, Recover, BeginFactor, Begin
  <2>6. CASE RolesBegin(p) \/ ExperimentsBegin(p)
    BY <2>6 DEF RolesBegin, ChangeRole, CreateAdmin, ExperimentsBegin, AskVariant, CreateExperiment,
                UpdateExperiment, Begin
  <2>7. CASE SignupsBegin(p)
    BY <2>7 DEF SignupsBegin, SignUp, ResendCode, VerifySignup, ContinueWith, Unlink, SetFirstPassword, Begin
  <2> QED
    BY <2>1, <2>2, <2>3, <2>4, <2>5, <2>6, <2>7 DEF Arrive
<1>2. CASE \E p \in Calls : Step(p)
  <2>1. PICK p \in Calls : Step(p)
    BY <1>2
  <2>2. CASE UsersStep(p) \/ KycStep(p)
    BY <2>2 DEF UsersStep, WriteProfile, SavePreferences, WriteBalances, Save, KycStep, CheckOpen,
                InsertApplication, SaveResubmission, ReadReviewed, SaveReview
  <2>3. CASE SessionsStep(p)
    BY <2>3 DEF SessionsStep, Invalidate, InsertCode, FindCode, CountWrong, MarkUsed, ClearAttempts, IssueToken,
                SetPassword, RevokeTokens, InvalidateAll
  <2>4. CASE DataStep(p)
    BY <2>4 DEF DataStep, Anonymise, Save, RevokeErased, CheckDemands, InsertDemand, Process, Export, NotifyExported,
                RollBackDeletion, SaveFailure, KeepAllButDemands
  <2>5. CASE FactorStep(p)
    BY <2>5 DEF FactorStep, WriteSecret, WriteEnabled, WriteDisabled, DeleteBackups, InsertBackups, SignPartial,
                CheckTotp, ClearFactorAttempts, FindBackup, UseBackup
  <2>6. CASE RolesStep(p)
    BY <2>6 DEF RolesStep, ReadTarget, CountSupers, SaveRole, InsertAdmin, VerifyAdmin
  <2>7. CASE ExperimentsStep(p)
    BY <2>7 DEF ExperimentsStep, InsertExperiment, InsertVariants, SaveExperiment, ListAssignments, ReadExperiment,
                FindAssignment, InsertAssignment, Tell
  <2>8. CASE SignupsStep(p)
    <3>1. DeleteUnverified(p) \/ GuestsOnly
      BY <2>8 DEF SignupsStep, InsertGuest, SeedWallet, SendSignupCode, UseSignupCode, LookUp, MarkVerified,
                  OpenSession, FindByEmail, SaveLink, InsertOAuth, LinkAccount, CheckVerified, DeleteLink,
                  WritePassword, Change, Finish, Create
    <3> QED
      BY <3>1 DEF DeleteUnverified, GuestsOnly
  <2> QED
    BY <2>1, <2>2, <2>3, <2>4, <2>5, <2>6, <2>7, <2>8 DEF Step
<1>3. CASE UNCHANGED lifeVars
  BY <1>3 DEF lifeVars, vars
<1>4. CASE \E p \in Calls : Die(p) \/ FailWork(p)
  BY <1>4 DEF Die, FailWork, Fault
<1>5. CASE \E a \in Apps : Screening(a)
  BY <1>5 DEF Screening, Screen, LoseScreening
<1>6. CASE Unlock
  BY <1>6 DEF Unlock
<1> QED
  BY <1>1, <1>2, <1>3, <1>4, <1>5, <1>6 DEF Next

-------------------------------------------------------------------------------
(* Each service minds its own requests. *)

RowPlaces == UsersPlaces \cup KycPlaces \cup SessionsPlaces \cup ErasePlaces \cup DemandPlaces

\* A request of these places moves among them, begins, or ends.
Within(places) == \E p \in Calls : GoneTo(p, places) /\ call[p].at \in places \cup {"idle"}

\* No request comes to these places, and one that leaves them has met with a fault.
Away(places) ==
  \A p \in Calls : \/ call'[p] = call[p]
                   \/ call'[p].at \notin places /\ (call[p].at \in places => faults' > 0)

\* The users' row, whoever works on it.
RowsAct ==
  /\ UNCHANGED beside
  /\ \E p \in Calls : UsersStep(p) \/ KycStep(p) \/ SessionsStep(p) \/ DataStep(p)
                       \/ UsersBegin(p) \/ KycBegin(p) \/ SessionsBegin(p) \/ DataBegin(p)
FactorsAct == UNCHANGED <<offices, trials, guests>> /\ \E p \in Calls : FactorStep(p) \/ FactorBegin(p)
RolesAct == UNCHANGED <<factors, trials, guests>> /\ \E p \in Calls : RolesStep(p) \/ RolesBegin(p)
TrialsAct == UNCHANGED <<factors, offices, guests>> /\ \E p \in Calls : ExperimentsStep(p) \/ ExperimentsBegin(p)
GuestsAct == UNCHANGED <<factors, offices, trials>> /\ \E p \in Calls : SignupsStep(p) \/ SignupsBegin(p)
Ends == UNCHANGED beside /\ \E p \in Calls : Die(p) \/ FailWork(p)
Stays == UNCHANGED <<call, beside>> /\ (UNCHANGED lifeVars \/ Unlock \/ \E a \in Apps : Screening(a))

LEMMA Acts ==
  ASSUME [Next]_lifeVars
  PROVE  RowsAct \/ FactorsAct \/ RolesAct \/ TrialsAct \/ GuestsAct \/ Ends \/ Stays
<1>1. CASE \E p \in Calls : Arrive(p) \/ Step(p)
  BY <1>1 DEF Arrive, Step, RowsAct, FactorsAct, RolesAct, TrialsAct, GuestsAct
<1>2. CASE \E p \in Calls : UNCHANGED beside /\ (Die(p) \/ FailWork(p))
  BY <1>2 DEF Ends
<1>3. CASE UNCHANGED lifeVars
  BY <1>3 DEF Stays, lifeVars, vars
<1>4. CASE \E a \in Apps : Screening(a)
  BY <1>4 DEF Stays, Screening, Screen, LoseScreening
<1>5. CASE Unlock /\ UNCHANGED beside
  BY <1>5 DEF Stays, Unlock
<1> QED
  BY <1>1, <1>2, <1>3, <1>4, <1>5 DEF Next

LEMMA RowsWithin == ASSUME CallsOK, RowsOK, RowsAct PROVE Within(RowPlaces)
<1>1. PICK p \in Calls : UsersStep(p) \/ KycStep(p) \/ SessionsStep(p) \/ DataStep(p)
                          \/ UsersBegin(p) \/ KycBegin(p) \/ SessionsBegin(p) \/ DataBegin(p)
  BY DEF RowsAct
<1>2. CASE UsersStep(p) \/ UsersBegin(p)
  BY <1>2, UsersMoves, UsersArrive DEF Within, Moves, GoneTo, RowPlaces
<1>3. CASE KycStep(p) \/ KycBegin(p)
  BY <1>3, KycMoves, KycArrive DEF Within, Moves, GoneTo, RowPlaces
<1>4. CASE SessionsStep(p) \/ SessionsBegin(p)
  BY <1>4, SessionsMoves, SessionsArrive DEF Within, Moves, GoneTo, RowPlaces
<1>5. CASE DataStep(p) \/ DataBegin(p)
  BY <1>5, DataMoves, DataArrive DEF Within, Moves, GoneTo, RowPlaces
<1> QED
  BY <1>1, <1>2, <1>3, <1>4, <1>5

LEMMA FactorsWithin ==
  ASSUME CallsOK, RowsOK, FactorsOK, FactorsAct PROVE Within(FactorPlaces \cup {"partial", "token"})
  BY FactorMoves, FactorArrive DEF FactorsAct, Within, Moves, GoneTo

LEMMA RolesWithin == ASSUME CallsOK, RowsOK, RolesAct PROVE Within(RolesPlaces)
<1>1. PICK p \in Calls : RolesStep(p) \/ RolesBegin(p)
  BY DEF RolesAct
<1>2. CASE RolesStep(p)
  BY <1>2, RolesMoves DEF Within, Moves
<1>3. CASE RolesBegin(p)
  BY <1>3, RolesArrive DEF Within, GoneTo, RolesPlaces, RolePlaces
<1> QED
  BY <1>1, <1>2, <1>3

LEMMA TrialsWithin == ASSUME CallsOK, RowsOK, BesideOK, TrialsAct PROVE Within(TrialPlaces)
<1>1. PICK p \in Calls : ExperimentsStep(p) \/ ExperimentsBegin(p)
  BY DEF TrialsAct
<1>2. CASE ExperimentsStep(p)
  BY <1>2, ExperimentsMoves DEF Within, Moves
<1>3. CASE ExperimentsBegin(p)
  BY <1>3, ExperimentsArrive DEF Within, GoneTo
<1> QED
  BY <1>1, <1>2, <1>3

LEMMA GuestsWithin == ASSUME CallsOK, RowsOK, RoomInv, GuestsAct PROVE Within(SignupsPlaces)
  BY SignupsMoves, SignupsArrive DEF GuestsAct, Within, Moves

LEMMA EndsWithin ==
  ASSUME CallsOK, faults \in Nat, Ends
  PROVE  faults' > 0 /\ \E p \in Calls : GoneTo(p, {"demand.fail"})
<1>1. PICK p \in Calls : Die(p) \/ FailWork(p)
  BY DEF Ends
<1>2. faults' > 0
  BY <1>1 DEF Die, FailWork, Fault
<1>3. CASE Die(p)
  BY <1>2, <1>3, EndGone DEF Die, CallsOK
<1>4. CASE FailWork(p)
  <2>1. Typed("demand.fail", call[p].on)
    BY <1>4 DEF CallsOK, FailWork, Typed, IssuingPlaces, CodePlaces, RolesPlaces, RolePlaces, GuestPlaces,
                VerifyPlaces, LinkPlaces
  <2> QED
    BY <1>2, <1>4, <2>1, GotoGone DEF FailWork
<1> QED
  BY <1>1, <1>2, <1>3, <1>4

LEMMA WithinAway ==
  ASSUME NEW places, NEW others, Within(places), places \cap others = {}, "idle" \notin others
  PROVE  Away(others)
  BY DEF Within, Away, GoneTo, Others

LEMMA EndsAway ==
  ASSUME CallsOK, faults \in Nat, Ends, NEW others, others \cap {"idle", "demand.fail"} = {}
  PROVE  Away(others)
  BY EndsWithin DEF Away, GoneTo, Others

LEMMA CallsStay ==
  ASSUME CallsOK, NEW p \in Calls, NEW places, GoneTo(p, places) PROVE CallsOK'
  BY DEF CallsOK, GoneTo, Others

LEMMA CallsStep == ASSUME TypeOK, RoomInv, [Next]_lifeVars PROVE CallsOK'
<1> USE DEF TypeOK
<1>1. CASE \E places : Within(places)
  BY <1>1, CallsStay DEF Within
<1>2. CASE Ends
  BY <1>2, EndsWithin, CallsStay DEF GhostsOK
<1>3. CASE Stays
  BY <1>3 DEF Stays, CallsOK, Shape
<1> QED
  BY <1>1, <1>2, <1>3, Acts, RowsWithin, FactorsWithin, RolesWithin, TrialsWithin, GuestsWithin

-------------------------------------------------------------------------------
(* Types. *)

LEMMA UserStep == ASSUME TypeOK, [Next]_lifeVars PROVE user' \in UserRows
<1> USE DEF TypeOK
<1>1. CASE \E p \in Calls : Rewrites(p)
  <2>1. PICK p \in Calls : Rewrites(p)
    BY <1>1
  <2>2. CASE WriteProfile(p) \/ SavePreferences(p) \/ WriteBalances(p) \/ SaveReview(p) \/ Anonymise(p)
    <3>1. CASE SaveReview(p)
      BY <3>1, ReviewEffect DEF Saved, RowsOK
    <3> QED
      BY <2>2, <3>1, ProfileEffect, PreferencesEffect, BalancesEffect, AnonymiseEffect DEF Written, Saved
  <2>3. CASE CountWrong(p) \/ ClearAttempts(p) \/ SetPassword(p) \/ ClearFactorAttempts(p)
    BY <2>3, WrongEffect, ClearEffect, PasswordEffect DEF Written
  <2>4. CASE DeleteProfile(p) \/ ChangeBalance(p) \/ \E active \in BOOLEAN : UpdateUserStatus(p, active)
    BY <2>4, DeletedEffect, BalanceEffect, StatusEffect DEF Written
  <2>5. CASE WriteSecret(p) \/ WriteEnabled(p) \/ WriteDisabled(p)
    BY <2>5, SecretEffect, EnabledEffect, DisabledEffect DEF Written
  <2> QED
    BY <2>1, <2>2, <2>3, <2>4, <2>5 DEF Rewrites
<1>2. CASE Unlock
  BY <1>2, UnlockEffect DEF Written
<1>3. CASE RowKept
  BY <1>3 DEF RowKept, RowsOK
<1> QED
  BY <1>1, <1>2, <1>3, RowWriters

\* The other rows, and the ghosts.
TablesOK == apps \in [Apps -> AppRows] /\ codes \in [Codes -> CodeRows] /\ tokens \in [Tokens -> Nat]
            /\ demands \in [Demands -> DemandRows] /\ screening \subseteq Apps /\ screened \subseteq Apps

LEMMA TablesSame ==
  ASSUME TypeOK, UNCHANGED <<tables, ghosts>>, requests' \in {requests, requests + 1}, faults' \in {faults, faults + 1}
  PROVE  TablesOK' /\ GhostsOK'
  BY DEF TypeOK, RowsOK, TablesOK, GhostsOK, tables, ghosts

LEMMA BeginSame ==
  ASSUME NEW p \in Calls, NEW place, NEW on, Begin(p, place, on)
  PROVE  UNCHANGED <<user, tables, ghosts, mishaps, faults>> /\ requests' = requests + 1
  BY DEF Begin

LEMMA UsersType ==
  ASSUME TypeOK, NEW p \in Calls, UsersStep(p) \/ UsersBegin(p) PROVE TablesOK' /\ GhostsOK'
<1>1. CASE ChangeBalance(p)
  BY <1>1 DEF ChangeBalance, TypeOK, RowsOK, TablesOK, GhostsOK, tables
<1>2. CASE UsersStep(p)
  BY <1>2, TablesSame DEF UsersStep, WriteProfile, SavePreferences, WriteBalances
<1>3. CASE DeleteProfile(p) \/ \E active \in BOOLEAN : UpdateUserStatus(p, active)
  BY <1>3, TablesSame DEF DeleteProfile, UpdateUserStatus
<1>4. CASE UpdateProfile(p) \/ UpdatePreferences(p) \/ SyncBalances(p)
  BY <1>4, TablesSame, BeginSame DEF UpdateProfile, UpdatePreferences, SyncBalances
<1> QED
  BY <1>1, <1>2, <1>3, <1>4 DEF UsersBegin

LEMMA KycType ==
  ASSUME TypeOK, NEW p \in Calls, KycStep(p) \/ KycBegin(p) PROVE TablesOK' /\ GhostsOK'
<1>0. RowsOK /\ GhostsOK /\ Typed(call[p].at, call[p].on)
  BY DEF TypeOK, CallsOK
<1>1. CASE KycBegin(p)
  BY <1>1, TablesSame, BeginSame DEF KycBegin, ApplyForKyc, ResubmitKyc, Review
<1>2. CASE CheckOpen(p) \/ ReadReviewed(p)
  BY <1>2, TablesSame DEF CheckOpen, ReadReviewed
<1>3. CASE InsertApplication(p)
  <2>1. call[p].on.target \in Nat
    BY <1>0, <1>3 DEF InsertApplication, At, Typed
  <2>2. [status |-> "PENDING", target |-> call[p].on.target] \in AppRows
    BY <2>1 DEF AppRows
  <2>3. apps' \in [Apps -> AppRows] /\ unchecked' \subseteq Apps
    BY <1>0, <1>3, <2>2 DEF InsertApplication, Unused, RowsOK, GhostsOK
  <2> QED
    BY <1>0, <1>3, <2>3 DEF InsertApplication, RowsOK, TablesOK, GhostsOK
<1>4. CASE SaveResubmission(p)
  <2>1. call[p].on \in Apps
    BY <1>0, <1>4 DEF SaveResubmission, At, Typed
  <2>2. apps' \in [Apps -> AppRows] /\ unchecked' \subseteq Apps
    BY <1>0, <1>4, <2>1 DEF SaveResubmission, RowsOK, GhostsOK, AppRows
  <2> QED
    BY <1>0, <1>4, <2>2 DEF SaveResubmission, RowsOK, TablesOK, GhostsOK
<1>5. CASE SaveReview(p)
  <2>1. call[p].on.app \in Apps /\ call[p].on.decision \in Decisions
    BY <1>0, <1>5 DEF SaveReview, At, Typed
  <2>2. apps' \in [Apps -> AppRows] /\ screening' \subseteq Apps
    BY <1>0, <1>5, <2>1 DEF SaveReview, RowsOK, GhostsOK, AppRows
  <2> QED
    BY <1>0, <1>5, <2>2 DEF SaveReview, RowsOK, TablesOK, GhostsOK, ghosts
<1> QED
  BY <1>1, <1>2, <1>3, <1>4, <1>5 DEF KycStep

LEMMA SessionsType ==
  ASSUME TypeOK, NEW p \in Calls, SessionsStep(p) \/ SessionsBegin(p) PROVE TablesOK' /\ GhostsOK'
<1>0. RowsOK /\ GhostsOK /\ Typed(call[p].at, call[p].on) /\ call[p].seen \in UserRows
  BY DEF TypeOK, CallsOK
<1>1. CASE \E S \in {Tokens} \cup {{t} : t \in Tokens} : Logout(p, S)
  BY <1>0, <1>1 DEF Logout, RowsOK, TablesOK, GhostsOK, ghosts
<1>2. CASE \E type \in CodeTypes : SendCode(p, type) \/ \E guess \in {0} \cup Codes : UseCode(p, type, guess)
  BY <1>2, TablesSame, BeginSame DEF SendCode, UseCode
<1>3. CASE Invalidate(p) \/ InvalidateAll(p)
  <2>1. codes' \in [Codes -> CodeRows]
    <3>1. \A c \in Codes : codes[c] \in CodeRows /\ [codes[c] EXCEPT !.used = TRUE] \in CodeRows
      BY <1>0 DEF RowsOK, CodeRows
    <3> QED
      BY <1>3, <3>1 DEF Invalidate, InvalidateAll
  <2> QED
    BY <1>0, <1>3, <2>1 DEF Invalidate, InvalidateAll, RowsOK, TablesOK, GhostsOK, ghosts
<1>4. CASE InsertCode(p)
  <2>1. [type |-> call[p].on, used |-> FALSE, password |-> Seen(p).password] \in CodeRows
    BY <1>0, <1>4 DEF InsertCode, At, Typed, IssuingPlaces, CodeRows, CodeTypes, Seen, UserRows
  <2>2. codes' \in [Codes -> CodeRows]
    BY <1>0, <1>4, <2>1 DEF InsertCode, RowsOK
  <2> QED
    BY <1>0, <1>4, <2>2 DEF InsertCode, RowsOK, TablesOK, GhostsOK, ghosts
<1>5. CASE MarkUsed(p)
  <2>1. call[p].on.code \in Codes
    BY <1>0, <1>5 DEF MarkUsed, At, Typed
  <2>2. codes' \in [Codes -> CodeRows]
    BY <1>0, <1>5, <2>1 DEF MarkUsed, RowsOK, CodeRows
  <2>3. accepted' \in [Codes -> Nat]
    BY <1>0, <1>5, <2>1 DEF MarkUsed, GhostsOK
  <2> QED
    BY <1>0, <1>5, <2>2, <2>3 DEF MarkUsed, RowsOK, TablesOK, GhostsOK
<1>6. CASE IssueToken(p)
  <2>1. CASE call[p].on.type = "LOGIN"
    <3>1. codes[call[p].on.code].password \in Nat
      BY <1>0, <1>6, <2>1 DEF IssueToken, At, Typed, RowsOK, CodeRows
    <3> QED
      BY <1>0, <1>6, <2>1, <3>1 DEF IssueToken, RowsOK, TablesOK, GhostsOK, ghosts
  <2>2. CASE call[p].on.type # "LOGIN"
    <3>1. call[p].on.begun \in Nat
      BY <1>0, <1>6, <2>2 DEF IssueToken, At, Typed
    <3> QED
      BY <1>0, <1>6, <2>2, <3>1 DEF IssueToken, RowsOK, TablesOK, GhostsOK, ghosts
  <2> QED
    BY <2>1, <2>2
<1>7. CASE RevokeTokens(p)
  BY <1>0, <1>7 DEF RevokeTokens, RowsOK, TablesOK, GhostsOK, ghosts
<1>8. CASE FindCode(p) \/ SetPassword(p)
  BY <1>8, TablesSame DEF FindCode, SetPassword
<1>9. CASE CountWrong(p) \/ ClearAttempts(p)
  BY <1>0, <1>9 DEF CountWrong, ClearAttempts, RowsOK, TablesOK, GhostsOK, tables
<1> QED
  BY <1>1, <1>2, <1>3, <1>4, <1>5, <1>6, <1>7, <1>8, <1>9 DEF SessionsStep, SessionsBegin, CodeTypes

\* A step that keeps everything but the data requests keeps the types of the rest.
LEMMA DemandsOnly ==
  ASSUME RowsOK, GhostsOK, KeepAllButDemands, demands' \in [Demands -> DemandRows] PROVE TablesOK' /\ GhostsOK'
<1>1. UNCHANGED <<apps, codes, tokens, screening, screened>>
  BY DEF KeepAllButDemands
<1>2. UNCHANGED <<due, accepted, wrong, unchecked, cut, erased, requests, faults>>
  BY DEF KeepAllButDemands, ghosts
<1>3. TablesOK'
  BY <1>1 DEF RowsOK, TablesOK
<1>4. GhostsOK'
  BY <1>2 DEF GhostsOK
<1> QED
  BY <1>3, <1>4

LEMMA DataType ==
  ASSUME TypeOK, NEW p \in Calls, DataStep(p) \/ DataBegin(p) PROVE TablesOK' /\ GhostsOK'
<1>0. RowsOK /\ GhostsOK /\ Typed(call[p].at, call[p].on)
  BY DEF TypeOK, CallsOK
<1>1. CASE DataBegin(p)
  BY <1>1, TablesSame, BeginSame DEF DataBegin, EraseUser, Demand
<1>2. CASE Anonymise(p)
  BY <1>0, <1>2 DEF Anonymise, RowsOK, TablesOK, GhostsOK, tables
<1>3. CASE RevokeErased(p)
  BY <1>0, <1>3 DEF RevokeErased, RowsOK, TablesOK, GhostsOK, ghosts
<1>4. CASE CheckDemands(p) \/ NotifyExported(p) \/ RollBackDeletion(p)
  BY <1>4, TablesSame DEF CheckDemands, NotifyExported, RollBackDeletion, KeepAllButDemands, tables
<1>5. CASE InsertDemand(p)
  <2>1. [type |-> call[p].on, status |-> "PENDING"] \in DemandRows
    BY <1>0, <1>5 DEF InsertDemand, At, Typed, DemandRows, InProgress
  <2>2. demands' \in [Demands -> DemandRows]
    BY <1>0, <1>5, <2>1 DEF InsertDemand, RowsOK
  <2>3. KeepAllButDemands
    BY <1>5 DEF InsertDemand
  <2> QED
    BY <1>0, <2>2, <2>3, DemandsOnly
<1>6. CASE \E status \in {"PROCESSING", "COMPLETE", "FAILED"} : SetDemand(call[p].on, status) /\ KeepAllButDemands
  <2>1. demands' \in [Demands -> DemandRows]
    <3>1. PICK status \in {"PROCESSING", "COMPLETE", "FAILED"} : SetDemand(call[p].on, status)
      BY <1>6
    <3>2. \A d \in Demands : demands[d] \in DemandRows /\ [demands[d] EXCEPT !.status = status] \in DemandRows
      BY <1>0 DEF RowsOK, DemandRows, InProgress
    <3>3. demands' = [demands EXCEPT ![call[p].on].status = status]
      BY <3>1 DEF SetDemand
    <3>4. demands \in [Demands -> DemandRows]
      BY <1>0 DEF RowsOK
    <3> QED
      BY <3>2, <3>3, <3>4
  <2> QED
    BY <1>0, <1>6, <2>1, DemandsOnly
<1>7. CASE Process(p) \/ Export(p) \/ SaveFailure(p)
  BY <1>6, <1>7 DEF Process, Export, SaveFailure
<1> QED
  BY <1>1, <1>2, <1>3, <1>4, <1>5, <1>7 DEF DataStep

LEMMA FactorType ==
  ASSUME TypeOK, NEW p \in Calls, FactorStep(p) \/ FactorBegin(p) PROVE TablesOK' /\ GhostsOK' /\ FactorsOK'
<1>0. RowsOK /\ GhostsOK /\ FactorsOK /\ Typed(call[p].at, call[p].on) /\ call[p].seen \in UserRows
  BY DEF TypeOK, CallsOK
<1>1. CASE FactorBegin(p)
  <2>1. UNCHANGED <<tables, ghosts, factors, faults>> /\ requests' = requests + 1
    BY <1>1, BeginSame DEF FactorBegin, GenerateSecret, ConfirmTwoFactor, DisableTwoFactor, RegenerateBackupCodes,
                           Ask, VerifyTwoFactor, ExchangePartial, Recover, BeginFactor
  <2> QED
    BY <1>0, <2>1, TablesSame DEF factors, FactorsOK
<1>2. CASE WriteSecret(p)
  <2>1. UNCHANGED <<tables, ghosts, requests, faults, backups, partials, confirmed, recovered>>
        /\ shown' = shown + 1 /\ wanted' = FALSE
    BY <1>2 DEF WriteSecret
  <2>2. TablesOK' /\ GhostsOK'
    BY <2>1, TablesSame
  <2>3. shown' \in Nat
    BY <1>0, <2>1 DEF FactorsOK
  <2>4. wanted' \in BOOLEAN
    BY <2>1
  <2> QED
    BY <1>0, <2>1, <2>2, <2>3, <2>4 DEF FactorsOK
<1>3. CASE WriteEnabled(p)
  <2>1. Seen(p).secret \in Nat
    BY <1>0 DEF Seen, UserRows
  <2> QED
    BY <1>0, <1>3, <2>1, TablesSame DEF WriteEnabled, FactorsOK
<1>4. CASE WriteDisabled(p)
  BY <1>0, <1>4, TablesSame DEF WriteDisabled, FactorsOK
<1>5. CASE DeleteBackups(p)
  BY <1>0, <1>5, TablesSame DEF DeleteBackups, Gone, FactorsOK
<1>6. CASE InsertBackups(p)
  BY <1>0, <1>6, TablesSame DEF InsertBackups, FactorsOK
<1>7. CASE SignPartial(p)
  <2>1. codes[call[p].on.code].password \in Nat
    BY <1>0, <1>7 DEF SignPartial, At, Typed, RowsOK, CodeRows
  <2> QED
    BY <1>0, <1>7, <2>1, TablesSame DEF SignPartial, FactorsOK
<1>8. CASE CheckTotp(p) \/ FindBackup(p)
  BY <1>0, <1>8, TablesSame DEF CheckTotp, FindBackup, FactorsOK, factors
<1>9. CASE ClearFactorAttempts(p)
  BY <1>0, <1>9 DEF ClearFactorAttempts, RowsOK, TablesOK, GhostsOK, FactorsOK, tables, factors
<1>10. CASE UseBackup(p)
  <2>1. call[p].on.code \in Sets
    BY <1>0, <1>10 DEF UseBackup, At, Typed
  <2>2. backups' \in [Sets -> {"NONE", "LIVE", "USED", "GONE"}] /\ recovered' \in [Sets -> Nat]
    BY <1>0, <1>10, <2>1 DEF UseBackup, FactorsOK
  <2> QED
    BY <1>0, <1>10, <2>2, TablesSame DEF UseBackup, FactorsOK
<1> QED
  BY <1>1, <1>2, <1>3, <1>4, <1>5, <1>6, <1>7, <1>8, <1>9, <1>10 DEF FactorStep

LEMMA RolesType ==
  ASSUME TypeOK, UNCHANGED <<factors, trials, guests>>, NEW p \in Calls, RolesStep(p) \/ RolesBegin(p)
  PROVE  TablesOK' /\ GhostsOK' /\ BesideOK'
<1>0. BesideOK /\ Typed(call[p].at, call[p].on)
  BY DEF TypeOK, CallsOK
<1>1. CASE RolesBegin(p)
  <2>1. UNCHANGED <<tables, ghosts, offices, faults>> /\ requests' = requests + 1
    BY <1>1, BeginSame DEF RolesBegin, ChangeRole, CreateAdmin
  <2> QED
    BY <1>0, <2>1, TablesSame DEF BesideOK, offices, trials, guests
<1>2. CASE RolesStep(p)
  <2>1. call[p].on.account \in Staff /\ call[p].on.role \in RoleNames
    BY <1>0, <1>2 DEF RolesStep, ReadTarget, CountSupers, SaveRole, InsertAdmin, VerifyAdmin, At, Typed,
                      RolesPlaces, RolePlaces
  <2>2. UNCHANGED <<tables, ghosts, requests, faults>>
    BY <1>2 DEF RolesStep, ReadTarget, CountSupers, SaveRole, InsertAdmin, VerifyAdmin
  <2>3. roles' \in [Staff -> {"NONE"} \cup RoleNames] /\ verified' \subseteq Staff
    BY <1>0, <1>2, <2>1
    DEF RolesStep, ReadTarget, CountSupers, SaveRole, InsertAdmin, VerifyAdmin, BesideOK, offices
  <2> QED
    BY <1>0, <2>2, <2>3, TablesSame DEF BesideOK, trials, guests
<1> QED
  BY <1>1, <1>2

LEMMA TrialsType ==
  ASSUME TypeOK, UNCHANGED <<factors, offices, guests>>, NEW p \in Calls, ExperimentsStep(p) \/ ExperimentsBegin(p)
  PROVE  TablesOK' /\ GhostsOK' /\ BesideOK'
<1>0. BesideOK /\ Typed(call[p].at, call[p].on)
  BY DEF TypeOK, CallsOK
<1>1. CASE ExperimentsBegin(p)
  <2>1. UNCHANGED <<tables, ghosts, trials, faults>> /\ requests' = requests + 1
    BY <1>1, BeginSame DEF ExperimentsBegin, AskVariant, CreateExperiment, UpdateExperiment
  <2> QED
    BY <1>0, <2>1, TablesSame DEF BesideOK, offices, trials, guests
<1>2. CASE ExperimentsStep(p)
  <2>1. UNCHANGED <<tables, ghosts, requests, faults>>
    BY <1>2 DEF ExperimentsStep, InsertExperiment, InsertVariants, SaveExperiment, ListAssignments, ReadExperiment,
                FindAssignment, InsertAssignment, Tell
  <2>2. experiment' \in ExperimentRows \cup {Absent} /\ concluded' \in BOOLEAN
    <3>1. CASE InsertExperiment(p)
      BY <1>0, <3>1 DEF InsertExperiment, At, Typed, BesideOK, ExperimentRows, Statuses
    <3>2. CASE SaveExperiment(p)
      BY <1>0, <3>2 DEF SaveExperiment, At, Typed, BesideOK
    <3> QED
      BY <1>0, <1>2, <3>1, <3>2 DEF ExperimentsStep, InsertVariants, ListAssignments, ReadExperiment,
                FindAssignment, InsertAssignment, Tell, BesideOK, trials
  <2>3. variants' \in BOOLEAN /\ assigned' \subseteq Variants /\ told' \subseteq Variants
    <3>1. CASE InsertAssignment(p)
      BY <1>0, <3>1 DEF InsertAssignment, At, Typed, BesideOK
    <3> QED
      BY <1>0, <1>2, <3>1 DEF ExperimentsStep, InsertExperiment, InsertVariants, SaveExperiment, ListAssignments,
                ReadExperiment, FindAssignment, Tell, BesideOK, trials
  <2> QED
    BY <1>0, <2>1, <2>2, <2>3, TablesSame DEF BesideOK, offices, guests
<1> QED
  BY <1>1, <1>2

\* What is written into the row of an account.
LEMMA PeopleType ==
  ASSUME people \in [People -> PersonRows], NEW i \in People,
         NEW column \in {"verified", "password", "wallet", "linked", "code"}, NEW value \in BOOLEAN
  PROVE  [people EXCEPT ![i][column] = value] \in [People -> PersonRows]
<1>1. people[i] \in PersonRows
  OBVIOUS
<1>2. [people[i] EXCEPT ![column] = value] \in PersonRows
  BY <1>1 DEF PersonRows
<1> QED
  BY <1>2

LEMMA ChangeType ==
  ASSUME BesideOK, NEW p \in Calls, NEW column \in {"verified", "password", "wallet", "linked", "code"},
         NEW value \in BOOLEAN, NEW place, Change(p, column, value, place) \/ Finish(p, column, value)
  PROVE  people' \in [People -> PersonRows] /\ UNCHANGED <<sessions, proven>> /\ GuestsOnly
<1>1. CASE call[p].on \in Present
  BY <1>1, PeopleType DEF Change, Finish, BesideOK, Present
<1>2. CASE call[p].on \notin Present
  BY <1>2 DEF Change, Finish, BesideOK
<1> QED
  BY <1>1, <1>2 DEF Change, Finish

LEMMA CreateType ==
  ASSUME BesideOK, NEW p \in Calls, NEW password \in BOOLEAN, NEW place, Create(p, password, place)
  PROVE  people' \in [People -> PersonRows] /\ UNCHANGED <<sessions, proven>> /\ GuestsOnly
<1> DEFINE i == CHOOSE i \in Coming : TRUE
<1>0. UNCHANGED <<sessions, proven>> /\ GuestsOnly
  BY DEF Create
<1>1. CASE people' = [people EXCEPT ![i].row = "STORED", ![i].password = password] /\ i \in People
  <2>1. people[i] \in PersonRows /\ people \in [People -> PersonRows]
    BY <1>1 DEF BesideOK
  <2> HIDE DEF i
  <2> DEFINE one == [people[i] EXCEPT !.row = "STORED"]
             two == [one EXCEPT !.password = password]
  <2>2. one \in PersonRows
    BY <2>1 DEF PersonRows
  <2>3. two \in PersonRows
    <3> HIDE DEF one
    <3> QED
      BY <2>2 DEF PersonRows
  <2>4. people' = [people EXCEPT ![i] = two]
    BY <1>1, <2>1
  <2> HIDE DEF two
  <2> QED
    BY <1>0, <2>1, <2>3, <2>4
<1>2. CASE people' = [people EXCEPT ![i].row = "STORED", ![i].password = password] /\ i \notin People
  <2>1. DOMAIN people = People
    BY DEF BesideOK
  <2> HIDE DEF i
  <2> QED
    BY <1>0, <1>2, <2>1 DEF BesideOK
<1>3. CASE UNCHANGED people
  BY <1>0, <1>3 DEF BesideOK
<1> QED
  BY <1>1, <1>2, <1>3 DEF Create

LEMMA SignupsType ==
  ASSUME TypeOK, UNCHANGED <<factors, offices, trials>>, NEW p \in Calls, SignupsStep(p) \/ SignupsBegin(p)
  PROVE  TablesOK' /\ GhostsOK' /\ BesideOK'
<1>0. BesideOK /\ Typed(call[p].at, call[p].on)
  BY DEF TypeOK, CallsOK
<1>1. CASE SignupsBegin(p)
  <2>1. UNCHANGED <<tables, ghosts, guests, faults>> /\ requests' = requests + 1
    BY <1>1, BeginSame DEF SignupsBegin, SignUp, ResendCode, VerifySignup, ContinueWith, Unlink, SetFirstPassword
  <2> QED
    BY <1>0, <2>1, TablesSame DEF BesideOK, offices, trials, guests
<1>2. ASSUME people' \in [People -> PersonRows], sessions' \subseteq People, proven' \subseteq People,
             UNCHANGED <<tables, ghosts, requests, faults>>
      PROVE  TablesOK' /\ GhostsOK' /\ BesideOK'
  BY <1>0, <1>2, TablesSame DEF BesideOK, offices, trials
<1>3. CASE DeleteUnverified(p)
  <2>1. [Nobody EXCEPT !.row = "GONE"] \in PersonRows
    BY DEF Nobody, PersonRows
  <2> QED
    BY <1>0, <1>2, <1>3, <2>1 DEF DeleteUnverified, BesideOK
<1>4. CASE SeedWallet(p) \/ SaveLink(p) \/ SendSignupCode(p) \/ DeleteLink(p) \/ WritePassword(p)
  BY <1>0, <1>2, <1>4, ChangeType
  DEF SeedWallet, SaveLink, SendSignupCode, DeleteLink, WritePassword, GuestsOnly, BesideOK
<1>5. CASE InsertGuest(p) \/ InsertOAuth(p)
  BY <1>0, <1>2, <1>5, CreateType DEF InsertGuest, InsertOAuth, GuestsOnly, BesideOK
<1>6. CASE UseSignupCode(p) \/ LinkAccount(p)
  <2>1. CASE Change(p, "code", FALSE, "verify.user") \/ Change(p, "linked", TRUE, "oauth.check")
    BY <1>0, <1>2, <2>1, ChangeType DEF GuestsOnly, BesideOK
  <2>2. CASE UNCHANGED guests /\ GuestsOnly
    BY <1>0, <1>2, <2>2 DEF GuestsOnly, BesideOK, guests
  <2> QED
    BY <1>6, <2>1, <2>2 DEF UseSignupCode, LinkAccount
<1>7. CASE LookUp(p) \/ FindByEmail(p) \/ CheckVerified(p)
  BY <1>0, <1>2, <1>7 DEF LookUp, FindByEmail, CheckVerified, GuestsOnly, BesideOK, guests
<1>8. CASE MarkVerified(p)
  <2>1. call[p].on \in Present => people' = [people EXCEPT ![call[p].on]["verified"] = TRUE]
    BY <1>8 DEF MarkVerified
  <2>2. people' \in [People -> PersonRows]
    <3>1. CASE call[p].on \in Present
      <4>1. call[p].on \in People /\ people \in [People -> PersonRows]
        BY <1>0, <3>1 DEF BesideOK, Present
      <4>2. [people EXCEPT ![call[p].on]["verified"] = TRUE] \in [People -> PersonRows]
        BY <4>1, PeopleType
      <4> QED
        BY <2>1, <3>1, <4>2
    <3> QED
      BY <1>0, <1>8, <3>1 DEF MarkVerified, BesideOK
  <2>3. proven' \subseteq People
    BY <1>0, <1>8 DEF MarkVerified, BesideOK, Present
  <2> QED
    BY <1>0, <1>2, <1>8, <2>2, <2>3 DEF MarkVerified, GuestsOnly, BesideOK
<1>9. CASE OpenSession(p)
  BY <1>0, <1>2, <1>9 DEF OpenSession, GuestsOnly, BesideOK, Present
<1> QED
  BY <1>1, <1>3, <1>4, <1>5, <1>6, <1>7, <1>8, <1>9 DEF SignupsStep

LEMMA TypeStep == ASSUME TypeOK, RoomInv, [Next]_lifeVars PROVE TypeOK'
<1>0. CallsOK' /\ user' \in UserRows
  BY CallsStep, UserStep
<1>1. ASSUME TablesOK', GhostsOK', FactorsOK', BesideOK' PROVE TypeOK'
  BY <1>0, <1>1 DEF TypeOK, RowsOK, TablesOK
<1>2. UNCHANGED factors => FactorsOK'
  BY DEF TypeOK, FactorsOK, factors
<1>3. UNCHANGED <<offices, trials, guests>> => BesideOK'
  BY DEF TypeOK, BesideOK, offices, trials, guests
<1>4. CASE RowsAct
  <2>1. TablesOK' /\ GhostsOK'
    BY <1>4, UsersType, KycType, SessionsType, DataType DEF RowsAct
  <2> QED
    BY <1>1, <1>2, <1>3, <1>4, <2>1 DEF RowsAct, beside
<1>5. CASE FactorsAct
  BY <1>1, <1>3, <1>5, FactorType DEF FactorsAct
<1>6. CASE RolesAct
  BY <1>1, <1>2, <1>6, RolesType DEF RolesAct
<1>7. CASE TrialsAct
  BY <1>1, <1>2, <1>7, TrialsType DEF TrialsAct
<1>8. CASE GuestsAct
  BY <1>1, <1>2, <1>8, SignupsType DEF GuestsAct
<1>9. CASE Ends
  <2>1. PICK p \in Calls : Die(p) \/ FailWork(p)
    BY <1>9 DEF Ends
  <2>2. CASE Die(p)
    <3>1. cut' \subseteq Demands
      <4>1. call[p].at \in Working => call[p].on \in Demands
        BY DEF TypeOK, CallsOK, Typed, Working
      <4> QED
        BY <2>2, <4>1 DEF Die, TypeOK, GhostsOK
    <3> QED
      BY <1>1, <1>2, <1>3, <1>9, <2>2, <3>1 DEF Ends, Die, Fault, TypeOK, RowsOK, TablesOK, GhostsOK, tables, beside
  <2>3. CASE FailWork(p)
    BY <1>1, <1>2, <1>3, <1>9, <2>3, TablesSame DEF Ends, FailWork, Fault, beside
  <2> QED
    BY <2>1, <2>2, <2>3
<1>10. CASE Stays
  <2>1. CASE \E a \in Apps : Screening(a)
    BY <2>1, <1>1, <1>2, <1>3, <1>10
    DEF Stays, Screening, Screen, LoseScreening, TypeOK, RowsOK, TablesOK, GhostsOK, ghosts, beside
  <2>2. CASE UNCHANGED lifeVars \/ Unlock
    BY <2>2, <1>1, <1>2, <1>3, <1>10, TablesSame DEF Stays, Unlock, lifeVars, vars, tables, ghosts, beside
  <2> QED
    BY <1>10, <2>1, <2>2 DEF Stays
<1> QED
  BY <1>4, <1>5, <1>6, <1>7, <1>8, <1>9, <1>10, Acts

-------------------------------------------------------------------------------
(* Who writes the tables of applications, codes and tokens. *)

TableWrites(p) ==
  \/ InsertApplication(p) \/ SaveResubmission(p) \/ SaveReview(p)
  \/ Invalidate(p) \/ InsertCode(p) \/ MarkUsed(p) \/ InvalidateAll(p)
  \/ IssueToken(p) \/ RevokeTokens(p) \/ RevokeErased(p)
  \/ \E S \in {Tokens} \cup {{t} : t \in Tokens} : Logout(p, S)

TablesKept == UNCHANGED <<apps, unchecked, codes, accepted, tokens>>

LEMMA TableWriters ==
  ASSUME [Next]_lifeVars PROVE TablesKept \/ (UNCHANGED beside /\ \E p \in Calls : TableWrites(p))
<1> USE DEF ghosts, tables, TablesKept
<1>1. CASE RowsAct
  <2>1. PICK p \in Calls : UsersStep(p) \/ KycStep(p) \/ SessionsStep(p) \/ DataStep(p)
                            \/ UsersBegin(p) \/ KycBegin(p) \/ SessionsBegin(p) \/ DataBegin(p)
    BY <1>1 DEF RowsAct
  <2>2. CASE UsersStep(p) \/ UsersBegin(p)
    BY <2>2 DEF UsersStep, WriteProfile, SavePreferences, WriteBalances, UsersBegin, UpdateProfile,
                UpdatePreferences, SyncBalances, DeleteProfile, ChangeBalance, UpdateUserStatus, Begin
  <2>3. CASE KycStep(p) \/ KycBegin(p)
    BY <1>1, <2>3 DEF RowsAct, KycStep, CheckOpen, ReadReviewed, KycBegin, ApplyForKyc, ResubmitKyc, Review, Begin,
                TableWrites
  <2>4. CASE SessionsStep(p) \/ SessionsBegin(p)
    BY <1>1, <2>4 DEF RowsAct, SessionsStep, FindCode, CountWrong, ClearAttempts, SetPassword, SessionsBegin,
                SendCode, UseCode, Begin, TableWrites
  <2>5. CASE DataStep(p) \/ DataBegin(p)
    BY <1>1, <2>5 DEF RowsAct, DataStep, Anonymise, CheckDemands, InsertDemand, Process, Export, NotifyExported,
                RollBackDeletion, SaveFailure, KeepAllButDemands, DataBegin, EraseUser, Demand, Begin, TableWrites
  <2> QED
    BY <2>1, <2>2, <2>3, <2>4, <2>5
<1>2. CASE FactorsAct
  <2>1. PICK p \in Calls : FactorStep(p) \/ FactorBegin(p)
    BY <1>2 DEF FactorsAct
  <2>2. CASE FactorStep(p)
    BY <2>2 DEF FactorStep, WriteSecret, WriteEnabled, WriteDisabled, DeleteBackups, InsertBackups, SignPartial,
                CheckTotp, ClearFactorAttempts, FindBackup, UseBackup
  <2>3. CASE FactorBegin(p)
    BY <2>3 DEF FactorBegin, GenerateSecret, ConfirmTwoFactor, DisableTwoFactor, RegenerateBackupCodes, Ask,
                VerifyTwoFactor, ExchangePartial, Recover, BeginFactor, Begin
  <2> QED
    BY <2>1, <2>2, <2>3
<1>3. CASE RolesAct
  BY <1>3 DEF RolesAct, RolesStep, ReadTarget, CountSupers, SaveRole, InsertAdmin, VerifyAdmin, RolesBegin,
              ChangeRole, CreateAdmin, Begin
<1>4. CASE TrialsAct
  <2>1. PICK p \in Calls : ExperimentsStep(p) \/ ExperimentsBegin(p)
    BY <1>4 DEF TrialsAct
  <2> QED
    BY <2>1 DEF ExperimentsStep, InsertExperiment, InsertVariants, SaveExperiment, ListAssignments, ReadExperiment,
                FindAssignment, InsertAssignment, Tell, ExperimentsBegin, AskVariant, CreateExperiment,
                UpdateExperiment, Begin
<1>5. CASE GuestsAct
  <2>1. PICK p \in Calls : SignupsStep(p) \/ SignupsBegin(p)
    BY <1>5 DEF GuestsAct
  <2>2. CASE SignupsStep(p)
    <3>1. DeleteUnverified(p) \/ GuestsOnly
      BY <2>2 DEF SignupsStep, InsertGuest, SeedWallet, SendSignupCode, UseSignupCode, LookUp, MarkVerified,
                  OpenSession, FindByEmail, SaveLink, InsertOAuth, LinkAccount, CheckVerified, DeleteLink,
                  WritePassword, Change, Finish, Create
    <3> QED
      BY <3>1 DEF DeleteUnverified, GuestsOnly
  <2>3. CASE SignupsBegin(p)
    BY <2>3 DEF SignupsBegin, SignUp, ResendCode, VerifySignup, ContinueWith, Unlink, SetFirstPassword, Begin
  <2> QED
    BY <2>1, <2>2, <2>3
<1>6. CASE Ends
  BY <1>6 DEF Ends, Die, FailWork
<1>7. CASE Stays
  BY <1>7 DEF Stays, Screening, Screen, LoseScreening, Unlock, lifeVars, vars
<1> QED
  BY <1>1, <1>2, <1>3, <1>4, <1>5, <1>6, <1>7, Acts

-------------------------------------------------------------------------------
(* Room: an id for everyone who will take one. *)

LEMMA RoomKept ==
  ASSUME NEW A, NEW B, NEW F, NEW G, IsFiniteSet(A), IsFiniteSet(G), B \subseteq A, F \subseteq G,
         Cardinality(A) <= Cardinality(F)
  PROVE  Cardinality(B) <= Cardinality(G)
<1>1. IsFiniteSet(B) /\ Cardinality(B) <= Cardinality(A)
  BY FS_Subset
<1>2. IsFiniteSet(F) /\ Cardinality(F) <= Cardinality(G)
  BY FS_Subset
<1>3. Cardinality(A) \in Nat /\ Cardinality(B) \in Nat /\ Cardinality(F) \in Nat /\ Cardinality(G) \in Nat
  BY <1>1, <1>2, FS_CardinalityType
<1> QED
  BY <1>1, <1>2, <1>3

LEMMA RoomTaken ==
  ASSUME NEW A, NEW B, NEW F, NEW G, NEW p, IsFiniteSet(A), IsFiniteSet(G), B \subseteq A \cup {p}, F \subseteq G,
         Cardinality(A) < Cardinality(F)
  PROVE  Cardinality(B) <= Cardinality(G)
<1>1. IsFiniteSet(F)
  BY FS_Subset
<1>2. IsFiniteSet(A \cup {p}) /\ Cardinality(A \cup {p}) <= Cardinality(A) + 1
  <2>1. Cardinality(A) \in Nat
    BY FS_CardinalityType
  <2>2. /\ IsFiniteSet(A \cup {p})
        /\ Cardinality(A \cup {p}) = IF p \in A THEN Cardinality(A) ELSE Cardinality(A) + 1
    BY FS_AddElement
  <2>3. CASE p \in A
    BY <2>1, <2>2, <2>3
  <2>4. CASE p \notin A
    BY <2>1, <2>2, <2>4
  <2> QED
    BY <2>3, <2>4
<1>3. Cardinality(A \cup {p}) \in Nat /\ Cardinality(A) \in Nat /\ Cardinality(F) \in Nat
  BY <1>1, <1>2, FS_CardinalityType
<1>4. Cardinality(A \cup {p}) <= Cardinality(F)
  BY <1>2, <1>3
<1> QED
  BY <1>2, <1>4, RoomKept

LEMMA RoomUsed ==
  ASSUME NEW A, NEW B, NEW F, NEW G, NEW p \in A, NEW f, IsFiniteSet(A), IsFiniteSet(F), IsFiniteSet(G),
         B \subseteq A \ {p}, F \ {f} \subseteq G, Cardinality(A) <= Cardinality(F)
  PROVE  Cardinality(B) <= Cardinality(G)
<1>1. IsFiniteSet(A \ {p}) /\ Cardinality(A \ {p}) = Cardinality(A) - 1
  BY FS_RemoveElement
<1>2. IsFiniteSet(F \ {f}) /\ Cardinality(F \ {f}) >= Cardinality(F) - 1
  <2>1. Cardinality(F) \in Nat
    BY FS_CardinalityType
  <2>2. /\ IsFiniteSet(F \ {f})
        /\ Cardinality(F \ {f}) = IF f \in F THEN Cardinality(F) - 1 ELSE Cardinality(F)
    BY FS_RemoveElement
  <2>3. CASE f \in F
    BY <2>1, <2>2, <2>3
  <2>4. CASE f \notin F
    BY <2>1, <2>2, <2>4
  <2> QED
    BY <2>3, <2>4
<1>3. /\ Cardinality(A) \in Nat /\ Cardinality(F) \in Nat
      /\ Cardinality(A \ {p}) \in Nat /\ Cardinality(F \ {f}) \in Nat
  BY <1>1, <1>2, FS_CardinalityType
<1>4. Cardinality(A \ {p}) <= Cardinality(F \ {f})
  BY <1>1, <1>2, <1>3
<1> QED
  BY <1>1, <1>4, RoomKept

LEMMA FiniteSides ==
  /\ IsFiniteSet(Issuing) /\ IsFiniteSet(Replacing) /\ IsFiniteSet(Creating)
  /\ IsFiniteSet(NextCodes) /\ IsFiniteSet(Unmade) /\ IsFiniteSet(Coming)
<1>1. IsFiniteSet(Calls) /\ IsFiniteSet(People)
  BY AccountsAssumption, SignupsAssumption
<1>2. IsFiniteSet(Codes) /\ IsFiniteSet(Sets)
  BY FS_Interval, AccountsAssumption, TwoFactorAssumption DEF Codes, Sets
<1>3. /\ Issuing \subseteq Calls /\ Replacing \subseteq Calls /\ Creating \subseteq Calls
      /\ NextCodes \subseteq Codes /\ Unmade \subseteq Sets /\ Coming \subseteq People
  BY DEF Issuing, Replacing, Creating, NextCodes, Unmade, Coming
<1> QED
  BY <1>1, <1>2, <1>3, FS_Subset

LEMMA FiniteSidesNext ==
  /\ IsFiniteSet(Issuing') /\ IsFiniteSet(Replacing') /\ IsFiniteSet(Creating')
  /\ IsFiniteSet(NextCodes') /\ IsFiniteSet(Unmade') /\ IsFiniteSet(Coming')
<1>1. IsFiniteSet(Calls) /\ IsFiniteSet(People)
  BY AccountsAssumption, SignupsAssumption
<1>2. IsFiniteSet(Codes) /\ IsFiniteSet(Sets)
  BY FS_Interval, AccountsAssumption, TwoFactorAssumption DEF Codes, Sets
<1>3. /\ Issuing' \subseteq Calls /\ Replacing' \subseteq Calls /\ Creating' \subseteq Calls
      /\ NextCodes' \subseteq Codes /\ Unmade' \subseteq Sets /\ Coming' \subseteq People
  BY DEF Issuing, Replacing, Creating, NextCodes, Unmade, Coming
<1> QED
  BY <1>1, <1>2, <1>3, FS_Subset

\* A place that none of these requests goes to.
LEMMA IssuingStays ==
  ASSUME CallsOK, NEW p \in Calls, SessionsStep(p), call[p].at \notin IssuingPlaces
  PROVE  call'[p].at \notin IssuingPlaces
<1>1. Shape
  BY DEF CallsOK
<1>2. FindCode(p) \/ CountWrong(p) \/ MarkUsed(p) \/ ClearAttempts(p) \/ IssueToken(p) \/ SetPassword(p)
        \/ RevokeTokens(p) \/ InvalidateAll(p)
  BY DEF SessionsStep, Invalidate, InsertCode, At, IssuingPlaces
<1>3. CASE End(p)
  BY <1>1, <1>3, EndEffect DEF Now, IssuingPlaces
<1>4. CASE \E place \in SessionsPlaces \ IssuingPlaces : Goto(p, place)
  BY <1>1, <1>4, GotoEffect DEF Now
<1> QED
  BY <1>2, <1>3, <1>4
  DEF FindCode, CountWrong, MarkUsed, ClearAttempts, IssueToken, SetPassword, RevokeTokens, InvalidateAll,
      SessionsPlaces, CodePlaces, IssuingPlaces

LEMMA IssuingComes ==
  ASSUME TypeOK, RoomInv, [Next]_lifeVars
  PROVE  \/ Issuing' \subseteq Issuing
         \/ \E p \in Calls, type \in CodeTypes : SendCode(p, type)
<1>0. CallsOK /\ RowsOK /\ FactorsOK /\ BesideOK /\ faults \in Nat
  BY DEF TypeOK, GhostsOK
<1>1. ASSUME Away(IssuingPlaces) PROVE Issuing' \subseteq Issuing
  BY <1>1 DEF Away, Issuing, IssuingPlaces
<1> USE DEF IssuingPlaces
<1>2. CASE RowsAct
  <2>1. PICK p \in Calls : UsersStep(p) \/ KycStep(p) \/ SessionsStep(p) \/ DataStep(p)
                            \/ UsersBegin(p) \/ KycBegin(p) \/ SessionsBegin(p) \/ DataBegin(p)
    BY <1>2 DEF RowsAct
  <2>2. CASE UsersStep(p) \/ UsersBegin(p)
    <3>1. Within(UsersPlaces)
      BY <1>0, <2>2, UsersMoves, UsersArrive DEF Within, Moves
    <3> QED
      BY <1>1, <3>1, WithinAway DEF UsersPlaces
  <2>3. CASE KycStep(p) \/ KycBegin(p)
    <3>1. Within(KycPlaces)
      BY <1>0, <2>3, KycMoves, KycArrive DEF Within, Moves
    <3> QED
      BY <1>1, <3>1, WithinAway DEF KycPlaces
  <2>4. CASE DataStep(p) \/ DataBegin(p)
    <3>1. Within(ErasePlaces \cup DemandPlaces)
      BY <1>0, <2>4, DataMoves, DataArrive DEF Within, Moves
    <3> QED
      BY <1>1, <3>1, WithinAway DEF ErasePlaces, DemandPlaces
  <2>5. CASE SessionsStep(p)
    <3>1. GoneTo(p, SessionsPlaces)
      BY <1>0, <2>5, SessionsMoves DEF Moves
    <3>2. call'[p].at \in IssuingPlaces => call[p].at \in IssuingPlaces
      BY <1>0, <2>5, IssuingStays
    <3> QED
      BY <3>1, <3>2 DEF GoneTo, Others, Issuing
  <2>6. CASE \E type \in CodeTypes, guess \in {0} \cup Codes : UseCode(p, type, guess)
    <3>1. Shape
      BY <1>0 DEF CallsOK
    <3>2. Others(p) /\ call'[p].at = "code.find"
      BY <2>6, <3>1, BeginEffect DEF UseCode, Now
    <3> QED
      BY <3>2 DEF Others, Issuing
  <2>7. CASE \E S \in {Tokens} \cup {{t} : t \in Tokens} : Logout(p, S)
    BY <2>7 DEF Logout, Issuing
  <2> QED
    BY <2>1, <2>2, <2>3, <2>4, <2>5, <2>6, <2>7 DEF SessionsBegin, CodeTypes
<1>3. CASE FactorsAct
  BY <1>0, <1>1, <1>3, FactorsWithin, WithinAway DEF FactorPlaces
<1>4. CASE RolesAct
  BY <1>0, <1>1, <1>4, RolesWithin, WithinAway DEF RolesPlaces, RolePlaces
<1>5. CASE TrialsAct
  BY <1>0, <1>1, <1>5, TrialsWithin, WithinAway DEF TrialPlaces
<1>6. CASE GuestsAct
  BY <1>0, <1>1, <1>6, GuestsWithin, WithinAway DEF SignupsPlaces, CreatingPlaces, GuestPlaces, VerifyPlaces, LinkPlaces
<1>7. CASE Ends
  BY <1>0, <1>1, <1>7, EndsAway
<1>8. CASE Stays
  BY <1>8 DEF Stays, Issuing
<1> QED
  BY <1>2, <1>3, <1>4, <1>5, <1>6, <1>7, <1>8, Acts

LEMMA CodesRoom ==
  ASSUME TypeOK, RoomInv, [Next]_lifeVars PROVE Cardinality(Issuing') <= Cardinality(NextCodes')
<1>0. CallsOK /\ Shape /\ RowsOK /\ Cardinality(Issuing) <= Cardinality(NextCodes)
  BY DEF TypeOK, CallsOK, RoomInv
<1>1. CASE \E p \in Calls : InsertCode(p)
  <2>1. PICK p \in Calls : InsertCode(p)
    BY <1>1
  <2>2. p \in Issuing /\ Issuing' \subseteq Issuing \ {p}
    BY <1>0, <2>1, EndEffect DEF InsertCode, At, Now, Others, Issuing
  <2>3. NextCodes \ {Min(NextCodes)} \subseteq NextCodes'
    BY <1>0, <2>1 DEF InsertCode, NextCodes, RowsOK
  <2> QED
    BY <1>0, <2>2, <2>3, RoomUsed, FiniteSides, FiniteSidesNext
<1>2. CASE \E p \in Calls, type \in CodeTypes : SendCode(p, type)
  <2>1. PICK p \in Calls, type \in CodeTypes : SendCode(p, type)
    BY <1>2
  <2>2. Cardinality(Issuing) < Cardinality(NextCodes) /\ Begin(p, "code.invalidate", type)
    BY <2>1 DEF SendCode
  <2>3. Issuing' \subseteq Issuing \cup {p}
    BY <1>0, <2>2, BeginEffect DEF Others, Issuing
  <2>4. NextCodes' = NextCodes
    BY <2>2 DEF Begin, tables, NextCodes
  <2> QED
    BY <2>2, <2>3, <2>4, RoomTaken, FiniteSides, FiniteSidesNext
<1>3. CASE ~ (\E p \in Calls : InsertCode(p)) /\ Issuing' \subseteq Issuing
  <2>1. NextCodes \subseteq NextCodes'
    <3>1. CASE TablesKept
      BY <3>1 DEF TablesKept, NextCodes
    <3>2. ASSUME NEW p \in Calls, TableWrites(p) PROVE NextCodes \subseteq NextCodes'
      <4>1. CASE Invalidate(p)
        <5>1. call[p].on \in CodeTypes
          BY <1>0, <4>1 DEF CallsOK, Typed, Invalidate, At, IssuingPlaces
        <5>2. \A c \in NextCodes : c \notin Live(call[p].on)
          BY <5>1 DEF NextCodes, Live, NoCode, CodeTypes
        <5> QED
          BY <4>1, <5>2 DEF Invalidate, NextCodes
      <4>2. CASE MarkUsed(p) \/ InvalidateAll(p)
        <5>1. [NoCode EXCEPT !.used = TRUE] = NoCode
          <6>1. NoCode = [x \in DOMAIN NoCode |-> NoCode[x]] /\ NoCode.used = TRUE
            BY DEF NoCode
          <6> QED
            BY <6>1
        <5>2. \A c \in NextCodes : codes'[c] \in {NoCode, [NoCode EXCEPT !.used = TRUE]}
          BY <1>0, <4>2 DEF MarkUsed, InvalidateAll, NextCodes, RowsOK
        <5> QED
          BY <5>1, <5>2 DEF NextCodes
      <4>3. CASE codes' = codes
        BY <4>3 DEF NextCodes
      <4> QED
        BY <1>3, <3>2, <4>1, <4>2, <4>3 DEF TableWrites, InsertApplication, SaveResubmission, SaveReview,
           IssueToken, RevokeTokens, RevokeErased, Logout
    <3> QED
      BY <3>1, <3>2, TableWriters
  <2> QED
    BY <1>0, <1>3, <2>1, RoomKept, FiniteSides, FiniteSidesNext
<1> QED
  BY <1>1, <1>2, <1>3, IssuingComes

ReplacingPlaces == {"confirm", "backups.delete", "backups.insert"}

LEMMA ReplacingStays ==
  ASSUME CallsOK, NEW p \in Calls, FactorStep(p), call[p].at \notin ReplacingPlaces
  PROVE  call'[p].at \notin ReplacingPlaces
<1>1. Shape
  BY DEF CallsOK
<1>2. WriteSecret(p) \/ WriteDisabled(p) \/ (DeleteBackups(p) /\ End(p)) \/ SignPartial(p) \/ CheckTotp(p)
        \/ ClearFactorAttempts(p) \/ FindBackup(p) \/ UseBackup(p)
  BY DEF FactorStep, WriteEnabled, DeleteBackups, InsertBackups, At, ReplacingPlaces
<1>3. CASE End(p)
  BY <1>1, <1>3, EndEffect DEF Now, ReplacingPlaces
<1>4. CASE \E place \in {"disable.delete", "factor.clear", "recover.use", "token"} : Goto(p, place)
  BY <1>1, <1>4, GotoEffect DEF Now, ReplacingPlaces
<1> QED
  BY <1>2, <1>3, <1>4
  DEF WriteSecret, WriteDisabled, SignPartial, CheckTotp, ClearFactorAttempts, FindBackup, UseBackup

LEMMA BackupsRoom ==
  ASSUME TypeOK, RoomInv, [Next]_lifeVars PROVE Cardinality(Replacing') <= Cardinality(Unmade')
<1>0. CallsOK /\ Shape /\ RowsOK /\ FactorsOK /\ BesideOK /\ faults \in Nat /\ Cardinality(Replacing) <= Cardinality(Unmade)
  BY DEF TypeOK, CallsOK, GhostsOK, RoomInv
<1>1. ASSUME Replacing' \subseteq Replacing, Unmade \subseteq Unmade'
      PROVE  Cardinality(Replacing') <= Cardinality(Unmade')
  BY <1>0, <1>1, RoomKept, FiniteSides, FiniteSidesNext
<1>2. ASSUME Away(ReplacingPlaces), UNCHANGED backups PROVE Cardinality(Replacing') <= Cardinality(Unmade')
  BY <1>1, <1>2 DEF Away, Replacing, ReplacingPlaces, Unmade
<1>3. CASE FactorsAct
  <2>1. PICK p \in Calls : FactorStep(p) \/ FactorBegin(p)
    BY <1>3 DEF FactorsAct
  <2>2. CASE InsertBackups(p)
    <3>1. p \in Replacing /\ Replacing' \subseteq Replacing \ {p}
      BY <1>0, <2>2, EndEffect DEF InsertBackups, At, Now, Others, Replacing
    <3>2. Unmade \ {Min(Unmade)} \subseteq Unmade'
      BY <1>0, <2>2 DEF InsertBackups, Unmade, FactorsOK
    <3> QED
      BY <1>0, <3>1, <3>2, RoomUsed, FiniteSides, FiniteSidesNext
  <2>3. CASE FactorStep(p) /\ ~ InsertBackups(p)
    <3>1. Unmade \subseteq Unmade'
      <4>1. CASE DeleteBackups(p)
        BY <1>0, <4>1 DEF DeleteBackups, Gone, Stored, Unmade, FactorsOK
      <4>2. CASE UseBackup(p)
        BY <1>0, <4>2 DEF UseBackup, Stored, Unmade, FactorsOK
      <4>3. CASE UNCHANGED backups
        BY <4>3 DEF Unmade
      <4> QED
        BY <2>3, <4>1, <4>2, <4>3
        DEF FactorStep, WriteSecret, WriteEnabled, WriteDisabled, SignPartial, CheckTotp, ClearFactorAttempts,
            FindBackup, factors
    <3>2. Others(p) /\ (call'[p].at \in ReplacingPlaces => call[p].at \in ReplacingPlaces)
      BY <1>0, <2>3, FactorMoves, ReplacingStays DEF Moves, GoneTo
    <3> QED
      BY <1>1, <3>1, <3>2 DEF Others, Replacing, ReplacingPlaces
  <2>4. CASE FactorBegin(p)
    <3>1. UNCHANGED backups
      BY <2>4 DEF FactorBegin, GenerateSecret, ConfirmTwoFactor, DisableTwoFactor, RegenerateBackupCodes, Ask,
                  VerifyTwoFactor, ExchangePartial, Recover, BeginFactor, factors
    <3>2. CASE \E place, on : Begin(p, place, on) /\ place \notin ReplacingPlaces
      <4>1. Others(p) /\ call'[p].at \notin ReplacingPlaces
        BY <1>0, <3>2, BeginEffect DEF Now
      <4> QED
        BY <1>1, <3>1, <4>1 DEF Others, Replacing, ReplacingPlaces, Unmade
    <3>3. CASE ConfirmTwoFactor(p) \/ RegenerateBackupCodes(p)
      <4>1. PICK place : Begin(p, place, 0) /\ Cardinality(Replacing) < Cardinality(Unmade)
        BY <3>3 DEF ConfirmTwoFactor, RegenerateBackupCodes, Ask
      <4>2. Replacing' \subseteq Replacing \cup {p}
        BY <1>0, <4>1, BeginEffect DEF Others, Replacing
      <4>3. Unmade' = Unmade
        BY <3>1 DEF Unmade
      <4> QED
        BY <4>1, <4>2, <4>3, RoomTaken, FiniteSides, FiniteSidesNext
    <3>4. CASE GenerateSecret(p) \/ DisableTwoFactor(p)
      <4>1. Begin(p, "setup", 0) \/ Begin(p, "disable", 0)
        BY <3>4 DEF GenerateSecret, DisableTwoFactor, Ask
      <4> QED
        BY <3>2, <4>1 DEF ReplacingPlaces
    <3>5. CASE \E b, k : VerifyTwoFactor(p, b, k) \/ ExchangePartial(p, b, k) \/ Recover(p, b, k)
      <4>1. \E on : Begin(p, "factor.check", on) \/ Begin(p, "recover.find", on)
        BY <3>5 DEF VerifyTwoFactor, ExchangePartial, Recover, BeginFactor
      <4> QED
        BY <3>2, <4>1 DEF ReplacingPlaces
    <3> QED
      BY <2>4, <3>3, <3>4, <3>5 DEF FactorBegin
  <2> QED
    BY <2>1, <2>2, <2>3, <2>4
<1>4. UNCHANGED factors => UNCHANGED backups
  BY DEF factors
<1> USE DEF ReplacingPlaces
<1>5. CASE RowsAct
  <2>1. Away(ReplacingPlaces)
    BY <1>0, <1>5, RowsWithin, WithinAway
    DEF RowPlaces, UsersPlaces, KycPlaces, SessionsPlaces, CodePlaces, IssuingPlaces, ErasePlaces, DemandPlaces
  <2> QED
    BY <1>2, <1>4, <1>5, <2>1 DEF RowsAct, beside
<1>6. CASE RolesAct
  BY <1>0, <1>2, <1>4, <1>6, RolesWithin, WithinAway DEF RolesAct, RolesPlaces, RolePlaces
<1>7. CASE TrialsAct
  BY <1>0, <1>2, <1>4, <1>7, TrialsWithin, WithinAway DEF TrialsAct, TrialPlaces
<1>8. CASE GuestsAct
  <2>1. Away(ReplacingPlaces)
    BY <1>0, <1>8, GuestsWithin, WithinAway DEF SignupsPlaces, CreatingPlaces, GuestPlaces, VerifyPlaces, LinkPlaces
  <2> QED
    BY <1>2, <1>4, <1>8, <2>1 DEF GuestsAct
<1>9. CASE Ends
  BY <1>0, <1>2, <1>4, <1>9, EndsAway DEF Ends, beside
<1>10. CASE Stays
  BY <1>1, <1>4, <1>10 DEF Stays, beside, Replacing, Unmade
<1> QED
  BY <1>3, <1>5, <1>6, <1>7, <1>8, <1>9, <1>10, Acts

\* A step of another service leaves the requests of this one where they are.
LEMMA Foreign ==
  ASSUME TypeOK, RoomInv, [Next]_lifeVars
  PROVE  /\ FactorsAct \/ (Away(FactorPlaces) /\ UNCHANGED factors)
         /\ RolesAct \/ (Away(RolesPlaces) /\ UNCHANGED offices)
         /\ TrialsAct \/ (Away(TrialPlaces) /\ UNCHANGED trials)
         /\ GuestsAct \/ (Away(SignupsPlaces) /\ UNCHANGED guests)
<1>0. CallsOK /\ RowsOK /\ FactorsOK /\ BesideOK /\ faults \in Nat
  BY DEF TypeOK, GhostsOK
<1> DEFINE All == FactorPlaces \cup RolesPlaces \cup TrialPlaces \cup SignupsPlaces
<1>1. All \cap (RowPlaces \cup {"idle"}) = {}
  BY DEF FactorPlaces, RolesPlaces, RolePlaces, TrialPlaces, SignupsPlaces, CreatingPlaces, GuestPlaces, VerifyPlaces,
         LinkPlaces, RowPlaces, UsersPlaces, KycPlaces, SessionsPlaces, CodePlaces, IssuingPlaces, ErasePlaces,
         DemandPlaces
<1>2. /\ FactorPlaces \cap (RolesPlaces \cup TrialPlaces \cup SignupsPlaces) = {}
      /\ {"partial", "token"} \cap All = {}
  BY DEF FactorPlaces, RolesPlaces, RolePlaces, TrialPlaces, SignupsPlaces, CreatingPlaces, GuestPlaces, VerifyPlaces,
         LinkPlaces
<1>3. /\ RolesPlaces \cap (TrialPlaces \cup SignupsPlaces) = {}
      /\ TrialPlaces \cap SignupsPlaces = {}
  BY DEF RolesPlaces, RolePlaces, TrialPlaces, SignupsPlaces, CreatingPlaces, GuestPlaces, VerifyPlaces, LinkPlaces
<1>4. "demand.fail" \in RowPlaces
  BY DEF RowPlaces, DemandPlaces
<1>5. CASE RowsAct \/ Ends \/ Stays
  <2>1. Away(All)
    <3>1. CASE RowsAct
      BY <1>0, <1>1, <3>1, RowsWithin, WithinAway
    <3>2. CASE Ends
      BY <1>0, <1>1, <1>4, <3>2, EndsAway
    <3>3. CASE Stays
      BY <3>3 DEF Stays, Away
    <3> QED
      BY <1>5, <3>1, <3>2, <3>3
  <2>2. UNCHANGED <<factors, offices, trials, guests>>
    BY <1>5 DEF RowsAct, Ends, Stays, beside
  <2> QED
    BY <2>1, <2>2 DEF Away
<1>6. CASE FactorsAct
  <2>1. Away(RolesPlaces \cup TrialPlaces \cup SignupsPlaces)
    BY <1>0, <1>1, <1>2, <1>6, FactorsWithin, WithinAway
  <2> QED
    BY <1>6, <2>1 DEF FactorsAct, Away
<1>7. CASE RolesAct
  <2>1. Away(FactorPlaces \cup TrialPlaces \cup SignupsPlaces)
    BY <1>0, <1>1, <1>2, <1>3, <1>7, RolesWithin, WithinAway
  <2> QED
    BY <1>7, <2>1 DEF RolesAct, Away
<1>8. CASE TrialsAct
  <2>1. Away(FactorPlaces \cup RolesPlaces \cup SignupsPlaces)
    BY <1>0, <1>1, <1>2, <1>3, <1>8, TrialsWithin, WithinAway
  <2> QED
    BY <1>8, <2>1 DEF TrialsAct, Away
<1>9. CASE GuestsAct
  <2>1. Away(FactorPlaces \cup RolesPlaces \cup TrialPlaces)
    BY <1>0, <1>1, <1>2, <1>3, <1>9, GuestsWithin, WithinAway
  <2> QED
    BY <1>9, <2>1 DEF GuestsAct, Away
<1> QED
  BY <1>5, <1>6, <1>7, <1>8, <1>9, Acts

-------------------------------------------------------------------------------
(* Roles. *)

LEMMA TwoSupers ==
  ASSUME NEW a, ~ (Cardinality(Supers) <= 1) PROVE Supers \ {a} # {}
<1> SUFFICES ASSUME Supers \subseteq {a} PROVE FALSE
  OBVIOUS
<1>1. IsFiniteSet({a}) /\ Cardinality({a}) = 1
  BY FS_Singleton
<1>2. Cardinality(Supers) <= 1
  BY <1>1, FS_Subset
<1> QED
  BY <1>2

LEMMA RolesStepInv ==
  ASSUME TypeOK, RolesInv, NEW p \in Calls, RolesStep(p) PROVE RolesInv'
<1>0. CallsOK /\ Shape /\ roles \in [Staff -> {"NONE"} \cup RoleNames] /\ mishaps \subseteq mishaps'
  <2>1. mishaps \subseteq mishaps'
    BY DEF RolesStep, ReadTarget, CountSupers, SaveRole, InsertAdmin, VerifyAdmin
  <2> QED
    BY <2>1 DEF TypeOK, CallsOK, BesideOK
<1>1. Others(p) /\ call[p].at \in RolesPlaces /\ call[p].on.account \in Staff
  <2>1. Moves(p, RolesPlaces)
    BY <1>0, RolesMoves
  <2> QED
    BY <1>0, <2>1 DEF Moves, GoneTo, CallsOK, Typed, RolesPlaces, RolePlaces
<1> SUFFICES ASSUME "role" \notin mishaps' PROVE RolesInv'
  BY DEF RolesInv
<1>2. /\ Supers # {}
      /\ \A q \in Calls : call[q].at = "role.save" /\ call[q].on.role # "SUPER_ADMIN" =>
           Supers \ {call[q].on.account} # {}
  BY <1>0 DEF RolesInv, At
<1>3. ASSUME Supers \subseteq Supers',
             call'[p].at = "role.save" /\ call'[p].on.role # "SUPER_ADMIN" => Supers \ {call'[p].on.account} # {}
      PROVE  RolesInv'
  BY <1>1, <1>2, <1>3 DEF RolesInv, At, Others
<1>4. CASE ReadTarget(p)
  <2>1. Supers' = Supers
    BY <1>4 DEF ReadTarget, offices, Supers
  <2>2. CASE call'[p].at = "role.save"
    <3>1. roles[call[p].on.account] # "SUPER_ADMIN" /\ call'[p].on = call[p].on
      BY <1>0, <1>4, <2>2, EndEffect, GotoEffect DEF ReadTarget, Now
    <3> QED
      BY <1>2, <1>3, <2>1, <3>1 DEF Supers
  <2> QED
    BY <1>3, <2>1, <2>2
<1>5. CASE CountSupers(p)
  <2>1. Supers' = Supers
    BY <1>5 DEF CountSupers, offices, Supers
  <2>2. CASE call'[p].at = "role.save"
    <3>1. ~ (Cardinality(Supers) <= 1)
      BY <1>0, <1>5, <2>2, EndEffect DEF CountSupers, Now
    <3> QED
      BY <1>3, <2>1, <3>1, TwoSupers
  <2> QED
    BY <1>3, <2>1, <2>2
<1>6. CASE SaveRole(p)
  <2> DEFINE a == call[p].on.account
  <2>1. call'[p].at = "idle" /\ roles' = [roles EXCEPT ![a] = call[p].on.role] /\ call[p].at = "role.save"
    BY <1>0, <1>6, EndEffect DEF SaveRole, Now, At
  <2>2. CASE call[p].on.role = "SUPER_ADMIN" \/ roles[a] # "SUPER_ADMIN"
    <3>1. Supers \subseteq Supers'
      BY <1>0, <1>1, <2>1, <2>2 DEF Supers
    <3> QED
      BY <1>3, <2>1, <3>1
  <2>3. CASE call[p].on.role # "SUPER_ADMIN" /\ roles[a] = "SUPER_ADMIN"
    <3>1. Supers' = Supers \ {a} /\ Supers' # {}
      BY <1>0, <1>1, <1>2, <2>1, <2>3 DEF Supers
    <3>2. ASSUME NEW q \in Calls, call'[q].at = "role.save", call'[q].on.role # "SUPER_ADMIN"
          PROVE  Supers' \ {call'[q].on.account} # {}
      <4>1. q # p /\ call'[q] = call[q]
        BY <1>1, <2>1, <3>2 DEF Others
      <4>2. Demotes(p)
        BY <1>6, <2>3 DEF Demotes, SaveRole
      <4>3. ~ Demotes(q)
        BY <1>6, <4>1, <4>2 DEF SaveRole
      <4>4. roles[call[q].on.account] # "SUPER_ADMIN"
        BY <3>2, <4>1, <4>3 DEF Demotes, At
      <4> QED
        BY <3>1, <4>1, <4>4 DEF Supers
    <3> QED
      BY <3>1, <3>2 DEF RolesInv, At
  <2> QED
    BY <2>2, <2>3
<1>7. CASE InsertAdmin(p)
  <2>1. Supers \subseteq Supers'
    BY <1>0, <1>1, <1>7 DEF InsertAdmin, Supers
  <2>2. call'[p].at # "role.save"
    BY <1>0, <1>7, EndEffect, GotoEffect DEF InsertAdmin, Now
  <2> QED
    BY <1>3, <2>1, <2>2
<1>8. CASE VerifyAdmin(p)
  <2>1. Supers' = Supers /\ call'[p].at # "role.save"
    BY <1>0, <1>8, EndEffect DEF VerifyAdmin, Supers, Now
  <2> QED
    BY <1>3, <2>1
<1> QED
  BY <1>4, <1>5, <1>6, <1>7, <1>8 DEF RolesStep

LEMMA RolesInvStep ==
  ASSUME TypeOK, RoomInv, RolesInv, [Next]_lifeVars PROVE RolesInv'
<1>0. CallsOK /\ Shape /\ RowsOK /\ mishaps \subseteq mishaps'
  BY MishapsStay DEF TypeOK, CallsOK
<1>1. CASE RolesAct
  <2>1. PICK p \in Calls : RolesStep(p) \/ RolesBegin(p)
    BY <1>1 DEF RolesAct
  <2>2. CASE RolesBegin(p)
    <3>1. Others(p) /\ call'[p].at # "role.save"
      BY <1>0, <2>2, RolesArrive DEF GoneTo
    <3>2. UNCHANGED roles
      BY <2>2 DEF RolesBegin, ChangeRole, CreateAdmin, offices
    <3> QED
      BY <1>0, <3>1, <3>2 DEF RolesInv, At, Supers, Others
  <2> QED
    BY <2>1, <2>2, RolesStepInv
<1>2. CASE Away(RolesPlaces) /\ UNCHANGED offices
  BY <1>0, <1>2 DEF Away, RolesInv, At, Supers, offices, RolesPlaces, RolePlaces
<1> QED
  BY <1>1, <1>2, Foreign

-------------------------------------------------------------------------------
(* Experiments. *)

LEMMA TrialsStepInv ==
  ASSUME TypeOK, TrialInv, NEW p \in Calls, ExperimentsStep(p) PROVE TrialInv'
<1>0. CallsOK /\ Shape /\ BesideOK /\ mishaps \subseteq mishaps' /\ faults' = faults
  <2>1. mishaps \subseteq mishaps' /\ faults' = faults
    BY DEF ExperimentsStep, InsertExperiment, InsertVariants, SaveExperiment, ListAssignments, ReadExperiment,
           FindAssignment, InsertAssignment, Tell
  <2> QED
    BY <2>1 DEF TypeOK, CallsOK
<1>1. Others(p)
  BY <1>0, ExperimentsMoves DEF Moves, GoneTo
<1>2. Absent.status = "ABSENT" /\ \A r \in ExperimentRows : r # Absent
  BY DEF Absent, ExperimentRows, Statuses
\* What was told, and what is assigned.
<1>3. told' \subseteq assigned' /\ (assigned' = {} \/ \E v \in Variants : assigned' = {v})
  <2>1. told \subseteq assigned /\ (assigned = {} \/ \E v \in Variants : assigned = {v})
    BY DEF TrialInv
  <2>2. CASE InsertAssignment(p)
    <3>1. call[p].on \in Variants
      BY <1>0, <2>2 DEF InsertAssignment, At, CallsOK, Typed
    <3> QED
      BY <2>1, <2>2, <3>1 DEF InsertAssignment
  <2> QED
    BY <2>1, <2>2 DEF ExperimentsStep, InsertExperiment, InsertVariants, SaveExperiment, ListAssignments,
                      ReadExperiment, FindAssignment, Tell, trials
<1>4. \A q \in Calls : q # p => call'[q] = call[q]
  BY <1>1 DEF Others
\* The row.
<1>5. CASE InsertExperiment(p)
  <2>1. CASE experiment = Absent
    <3>1. experiment'.status = "DRAFT" /\ concluded' = concluded
      BY <1>5, <2>1 DEF InsertExperiment
    <3>2. call'[p].at = "experiment.variants"
      BY <1>0, <1>5, <2>1, GotoEffect DEF InsertExperiment, Now
    <3>3. experiment' # Absent
      BY <1>2, <3>1
    <3> QED
      BY <1>0, <1>2, <1>3, <1>4, <2>1, <3>1, <3>2, <3>3 DEF TrialInv, At
  <2>2. CASE experiment # Absent
    <3>1. UNCHANGED <<experiment, variants, concluded>> /\ call'[p].at = "idle" /\ call[p].at = "experiment.insert"
      BY <1>0, <1>5, <2>2, EndEffect DEF InsertExperiment, Now, At
    <3> QED
      BY <1>0, <1>3, <1>4, <3>1 DEF TrialInv, At
  <2> QED
    BY <2>1, <2>2
<1>6. CASE InsertVariants(p)
  <2>1. UNCHANGED <<experiment, concluded>> /\ variants' = TRUE /\ call'[p].at = "idle"
    BY <1>0, <1>6, EndEffect DEF InsertVariants, Now
  <2> QED
    BY <1>0, <1>3, <1>4, <2>1 DEF TrialInv, At
<1>7. CASE SaveExperiment(p)
  <2> DEFINE on == call[p].on
  <2>1. /\ experiment' = on.entity /\ UNCHANGED variants /\ call'[p].at = "idle" /\ call[p].at = "experiment.save"
        /\ concluded' => concluded \/ on.entity.status = "CONCLUDED"
        /\ experiment.status = "CONCLUDED" /\ on.entity.status # "CONCLUDED"
             /\ (on.read.status # "CONCLUDED" \/ on.entity.status # "RUNNING") => "experiment" \in mishaps'
    BY <1>0, <1>7, EndEffect DEF SaveExperiment, Now, At
  <2>2. on.entity \in ExperimentRows
    BY <1>0, <2>1 DEF CallsOK, Typed
  <2>3. experiment # Absent /\ ~ (on.entity.status = "RUNNING" /\ on.read.status = "CONCLUDED")
    BY <2>1 DEF TrialInv, At
  <2> HIDE DEF on
  <2>4. experiment' # Absent
    BY <1>2, <2>1, <2>2
  <2>5. concluded' => experiment'.status = "CONCLUDED" \/ "experiment" \in mishaps'
    BY <1>0, <2>1, <2>3 DEF TrialInv
  <2>6. \A q \in Calls : At(q, "experiment.save")' => call'[q] = call[q] /\ At(q, "experiment.save")
    BY <1>4, <2>1 DEF At
  <2>7. ~ variants' => faults' > 0 \/ \E q \in Calls : At(q, "experiment.variants")'
    BY <1>0, <1>4, <2>1, <2>3 DEF TrialInv, At
  <2> QED
    BY <1>3, <2>4, <2>5, <2>6, <2>7 DEF TrialInv
<1>8. CASE ListAssignments(p) \/ ReadExperiment(p) \/ FindAssignment(p) \/ InsertAssignment(p)
  <2>1. UNCHANGED <<experiment, variants, concluded>>
    BY <1>8 DEF ListAssignments, ReadExperiment, FindAssignment, InsertAssignment, Tell, trials
  <2>2. call[p].at \notin {"experiment.save", "experiment.variants"}
    BY <1>8 DEF ListAssignments, ReadExperiment, FindAssignment, InsertAssignment, At
  <2>3. call'[p].at # "experiment.save"
    BY <1>0, <1>8, EndEffect, GotoEffect, GoOnEffect
    DEF ListAssignments, ReadExperiment, FindAssignment, InsertAssignment, Tell, Now
  <2> QED
    BY <1>0, <1>3, <1>4, <2>1, <2>2, <2>3 DEF TrialInv, At
<1> QED
  BY <1>5, <1>6, <1>7, <1>8 DEF ExperimentsStep

LEMMA TrialInvStep ==
  ASSUME TypeOK, RoomInv, TrialInv, [Next]_lifeVars PROVE TrialInv'
<1>0. CallsOK /\ Shape /\ RowsOK /\ mishaps \subseteq mishaps' /\ faults \in Nat /\ faults' \in {faults, faults + 1}
  BY MishapsStay DEF TypeOK, CallsOK, GhostsOK
<1>1. CASE TrialsAct
  <2>1. PICK p \in Calls : ExperimentsStep(p) \/ ExperimentsBegin(p)
    BY <1>1 DEF TrialsAct
  <2>2. CASE ExperimentsBegin(p)
    <3>1. Others(p) /\ call'[p].at # "experiment.variants" /\ call[p].at = "idle"
      <4>1. "idle" # "experiment.variants"
        OBVIOUS
      <4> QED
        BY <1>0, <2>2, <4>1, ExperimentsArrive DEF GoneTo
    <3>2. UNCHANGED trials
      BY <2>2 DEF ExperimentsBegin, AskVariant, CreateExperiment, UpdateExperiment
    <3>3. call'[p].at = "experiment.save" =>
            /\ experiment # Absent
            /\ ~ (call'[p].on.entity.status = "RUNNING" /\ call'[p].on.read.status = "CONCLUDED")
      <4>1. CASE AskVariant(p) \/ \E traffic \in BOOLEAN : CreateExperiment(p, traffic)
        BY <1>0, <4>1, BeginEffect DEF AskVariant, CreateExperiment, Now
      <4>2. CASE \E entity \in [status : Statuses, traffic : BOOLEAN] : UpdateExperiment(p, entity)
        <5>1. PICK entity : UpdateExperiment(p, entity)
          BY <4>2
        <5>2. call'[p].on = [read |-> experiment, entity |-> entity]
          BY <1>0, <5>1, BeginEffect DEF UpdateExperiment, Now
        <5> QED
          BY <5>1, <5>2 DEF UpdateExperiment
      <4> QED
        BY <2>2, <4>1, <4>2 DEF ExperimentsBegin
    <3> QED
      BY <1>0, <3>1, <3>2, <3>3 DEF TrialInv, At, Others, trials
  <2> QED
    BY <2>1, <2>2, TrialsStepInv
<1>2. CASE Away(TrialPlaces) /\ UNCHANGED trials
  <2>1. \A q \in Calls : At(q, "experiment.save")' => call'[q] = call[q] /\ At(q, "experiment.save")
    BY <1>2 DEF Away, At, TrialPlaces
  <2>2. (\E q \in Calls : At(q, "experiment.variants")) => faults' > 0 \/ \E q \in Calls : At(q, "experiment.variants")'
    BY <1>2 DEF Away, At, TrialPlaces
  <2>3. faults > 0 => faults' > 0
    BY <1>0
  <2> QED
    BY <1>0, <1>2, <2>1, <2>2, <2>3 DEF TrialInv, trials
<1> QED
  BY <1>1, <1>2, Foreign

-------------------------------------------------------------------------------
(* Signups. *)

PersonColumns == {"row", "verified", "password", "wallet", "linked", "code"}

LEMMA ColumnSet ==
  ASSUME people \in [People -> PersonRows], NEW i \in People, NEW column \in PersonColumns, NEW value,
         people' = [people EXCEPT ![i][column] = value]
  PROVE  /\ \A j \in People \ {i} : people'[j] = people[j]
         /\ people'[i][column] = value
         /\ \A c \in PersonColumns \ {column} : people'[i][c] = people[i][c]
<1>1. people[i] \in PersonRows
  OBVIOUS
<1>2. DOMAIN people[i] = PersonColumns
  BY <1>1 DEF PersonRows, PersonColumns
<1>3. people'[i] = [people[i] EXCEPT ![column] = value]
  OBVIOUS
<1> QED
  BY <1>2, <1>3

\* What another request has yet to add.
LEMMA AddingStays ==
  ASSUME NEW p \in Calls, NEW i, NEW places, Others(p), faults > 0 => faults' > 0,
         call[p].at \in places /\ call[p].on = i => call'[p].at \in places /\ call'[p].on = i
  PROVE  Adding(i, places) => Adding(i, places)'
  BY DEF Adding, Others

\* A request goes on, and changes at most the row it is about.
LEMMA GuestsGoOn ==
  ASSUME TypeOK, GuestsInv, NEW p \in Calls, Others(p), mishaps \subseteq mishaps', faults' = faults,
         NEW i, call[p].at \in GuestPlaces => call[p].on = i,
         \A j \in People \ {i} : people'[j] = people[j],
         \A c \in {"row"} : people'[i][c] = people[i][c],
         i \notin Present => people'[i] = people[i],
         i \in Present /\ people[i].password => people'[i].password,
         i \in Present => Whole(i)',
         i \in Present => (people'[i].verified <=> i \in proven'),
         proven \subseteq proven', proven' \subseteq proven \cup ({i} \cap Present), sessions' \subseteq proven',
         Fits(p)'
  PROVE  GuestsInv'
<1>0. /\ \A j, k \in Present : j = k
      /\ \A j \in People : ~ Known(j) => people[j] = Nobody
      /\ \A q \in Calls : Fits(q)
      /\ \A j \in proven : Known(j)
      /\ \A j \in Present : people[j].verified <=> j \in proven
      /\ proven \subseteq Present \/ "signup" \in mishaps
      /\ \A j \in Present : Whole(j)
  BY DEF GuestsInv
<1>1. \A j \in People : people'[j].row = people[j].row
  OBVIOUS
<1>2. Present' = Present /\ \A j \in People : Known(j)' <=> Known(j)
  BY <1>1 DEF Present, Known
<1>3. \A j \in People : ~ Known(j)' => people'[j] = Nobody
  <2>1. \A j \in People : j \notin Present => people'[j] = people[j]
    OBVIOUS
  <2>2. \A j \in People : ~ Known(j) => j \notin Present
    BY DEF Known, Present
  <2> QED
    BY <1>0, <1>2, <2>1, <2>2
<1>4. ASSUME NEW q \in Calls PROVE Fits(q)'
  <2>1. CASE q # p
    <3>1. call'[q] = call[q] /\ Fits(q)
      BY <1>0, <2>1 DEF Others
    <3>2. call[q].at \in GuestPlaces => call[q].on \in People
      BY DEF TypeOK, CallsOK, Typed
    <3>3. At(q, "signup.delete") => call[q].on.account \in People
      BY DEF TypeOK, CallsOK, Typed, At
    <3>4. \A j \in Present : people[j].password => people'[j].password
      BY DEF Present
    <3> QED
      BY <1>2, <3>1, <3>2, <3>3, <3>4 DEF Fits, At, GuestPlaces, VerifyPlaces, LinkPlaces
  <2> QED
    BY <2>1
<1>5. \A j \in proven' : Known(j)'
  <2>1. proven \subseteq People
    BY DEF TypeOK, BesideOK
  <2>2. \A j \in Present : Known(j) /\ j \in People
    BY DEF Present, Known
  <2> QED
    BY <1>0, <1>2, <2>1, <2>2
<1>6. \A j \in Present' : people'[j].verified <=> j \in proven'
  BY <1>0, <1>2 DEF Present
<1>7. proven' \subseteq Present' \/ "signup" \in mishaps'
  BY <1>0, <1>2
<1>8. ASSUME NEW j \in Present' PROVE Whole(j)'
  <2>1. CASE j # i
    <3>1. call[p].at \in GuestPlaces => call[p].on # j
      BY <2>1
    <3>2. \A places \in {WalletPlaces, DoorPlaces, ProofPlaces} : Adding(j, places) => Adding(j, places)'
      BY <3>1, AddingStays DEF WalletPlaces, DoorPlaces, ProofPlaces, GuestPlaces, LinkPlaces
    <3>3. people'[j] = people[j] /\ Whole(j)
      BY <1>0, <1>2, <2>1 DEF Present
    <3> QED
      BY <3>2, <3>3 DEF Whole
  <2> QED
    BY <1>2, <2>1
<1> QED
  BY <1>0, <1>2, <1>3, <1>4, <1>5, <1>6, <1>7, <1>8 DEF GuestsInv

\* A request that has ended asks nothing of the accounts.
LEMMA IdleFits == ASSUME NEW p \in Calls, call'[p].at = "idle" PROVE Fits(p)'
<1>1. "idle" \notin GuestPlaces
  BY DEF GuestPlaces, VerifyPlaces, LinkPlaces
<1> QED
  BY <1>1 DEF Fits, At

\* A request that is not about an account comes, goes on or ends.
LEMMA GuestsCome ==
  ASSUME TypeOK, GuestsInv, NEW p \in Calls, Others(p), mishaps \subseteq mishaps', faults' = faults,
         UNCHANGED guests, call[p].at \notin GuestPlaces, Fits(p)'
  PROVE  GuestsInv'
<1>1. \A i \in Present : Whole(i)'
  <2>1. ASSUME NEW i \in Present PROVE Whole(i)'
    <3>1. \A places \in {WalletPlaces, DoorPlaces, ProofPlaces} : Adding(i, places) => Adding(i, places)'
      BY AddingStays DEF WalletPlaces, DoorPlaces, ProofPlaces, GuestPlaces, LinkPlaces
    <3>2. Whole(i) /\ people'[i] = people[i]
      BY DEF GuestsInv, guests
    <3> QED
      BY <3>1, <3>2 DEF Whole
  <2> QED
    BY <2>1
<1>2. \A q \in Calls : Fits(q)'
  BY DEF GuestsInv, Fits, At, Others, Known, Present, guests
<1> QED
  BY <1>1, <1>2 DEF GuestsInv, Present, Known, guests

\* A column of the row is set: what one request adds, it no longer has to add.
LEMMA GuestsSet ==
  ASSUME TypeOK, GuestsInv, NEW p \in Calls, Others(p), mishaps \subseteq mishaps', faults' = faults,
         UNCHANGED <<sessions, proven>>,
         call[p].at \in GuestPlaces,
         NEW column \in {"password", "wallet", "linked", "code"}, NEW value \in BOOLEAN,
         \A j \in People \ {call[p].on} : people'[j] = people[j],
         call[p].on \notin Present => people'[call[p].on] = people[call[p].on],
         call[p].on \in Present => people'[call[p].on][column] = value
           /\ \A c \in PersonColumns \ {column} : people'[call[p].on][c] = people[call[p].on][c],
         column \in {"password", "wallet"} => value = TRUE,
         column = "linked" /\ value = FALSE /\ call[p].on \in Present => people[call[p].on].password,
         call[p].at \in WalletPlaces => column = "wallet",
         call[p].at \in DoorPlaces /\ call[p].on \in Present =>
           (column = "linked" /\ value = TRUE) \/ (call'[p].at \in DoorPlaces /\ call'[p].on = call[p].on),
         call[p].at \notin ProofPlaces, Fits(p)'
  PROVE  GuestsInv'
<1>0. PICK i : i = call[p].on
  OBVIOUS
<1>1. CASE i \in Present
  <2>1. i \in People /\ Whole(i) /\ (people[i].verified <=> i \in proven)
    BY <1>1 DEF GuestsInv, Present
  <2>2. people[i] \in PersonRows
    BY <1>1 DEF TypeOK, BesideOK, Present
  <2>3. people'[i][column] = value /\ \A c \in PersonColumns \ {column} : people'[i][c] = people[i][c]
    BY <1>0, <1>1
  <2>4. people'[i].verified = people[i].verified /\ people'[i].row = people[i].row
    BY <2>3 DEF PersonColumns
  <2>5. people[i].password => people'[i].password
    BY <2>3 DEF PersonColumns
  <2>6. people[i].wallet => people'[i].wallet
    BY <2>3 DEF PersonColumns
  <2>7. people[i].linked => people'[i].linked \/ people'[i].password
    <3>1. CASE column = "linked"
      <4>1. value = TRUE \/ people'[i].password
        BY <1>0, <1>1, <2>5, <3>1
      <4> QED
        BY <2>3, <3>1, <4>1
    <3>2. CASE column # "linked"
      BY <2>3, <3>2 DEF PersonColumns
    <3> QED
      BY <3>1, <3>2
  <2>8. people'[i].wallet \/ (Adding(i, WalletPlaces) => Adding(i, WalletPlaces)')
    <3>1. CASE column = "wallet"
      BY <2>3, <3>1
    <3>2. CASE call[p].at \notin WalletPlaces
      BY <1>0, <3>2, AddingStays
    <3> QED
      BY <3>1, <3>2
  <2>9. people'[i].linked \/ (Adding(i, DoorPlaces) => Adding(i, DoorPlaces)')
    <3>1. CASE column = "linked" /\ value = TRUE
      BY <2>3, <3>1
    <3>2. CASE call[p].at \notin DoorPlaces \/ (call'[p].at \in DoorPlaces /\ call'[p].on = call[p].on)
      BY <1>0, <3>2, AddingStays
    <3> QED
      BY <1>0, <1>1, <3>1, <3>2
  <2>10. Adding(i, ProofPlaces) => Adding(i, ProofPlaces)'
    BY <1>0, AddingStays
  <2>11. Whole(i)'
    BY <2>1, <2>4, <2>5, <2>6, <2>7, <2>8, <2>9, <2>10 DEF Whole
  <2>12. people'[i].verified <=> i \in proven'
    BY <2>1, <2>4
  <2>13. sessions' \subseteq proven'
    BY DEF GuestsInv
  <2> QED
    BY <1>0, <1>1, <2>4, <2>5, <2>11, <2>12, <2>13, GuestsGoOn
<1>2. CASE i \notin Present
  <2>1. sessions' \subseteq proven'
    BY DEF GuestsInv
  <2>2. people'[i] = people[i]
    BY <1>0, <1>2
  <2> QED
    BY <1>0, <1>2, <2>1, <2>2, GuestsGoOn
<1> QED
  BY <1>1, <1>2

LEMMA ChangeEffect ==
  ASSUME TypeOK, NEW p \in Calls, call[p].at \in GuestPlaces,
         NEW column \in PersonColumns, NEW value, NEW place, Change(p, column, value, place)
  PROVE  /\ Others(p) /\ UNCHANGED <<sessions, proven, mishaps, faults>>
         /\ \A j \in People \ {call[p].on} : people'[j] = people[j]
         /\ IF call[p].on \in Present
            THEN /\ call'[p].at = place /\ call'[p].on = call[p].on /\ people'[call[p].on][column] = value
                 /\ \A c \in PersonColumns \ {column} : people'[call[p].on][c] = people[call[p].on][c]
            ELSE call'[p].at = "idle" /\ people' = people
<1>1. Shape /\ call[p].on \in People /\ people \in [People -> PersonRows]
  BY DEF TypeOK, CallsOK, Typed, BesideOK
<1>2. UNCHANGED <<sessions, proven, mishaps, faults>>
  BY DEF Change, GuestsOnly
<1>3. CASE call[p].on \in Present
  <2>1. people' = [people EXCEPT ![call[p].on][column] = value] /\ Goto(p, place)
    BY <1>3 DEF Change
  <2>2. Others(p) /\ call'[p].at = place /\ call'[p].on = call[p].on
    BY <1>1, <2>1, GotoEffect DEF Now
  <2>3. /\ \A j \in People \ {call[p].on} : people'[j] = people[j]
        /\ people'[call[p].on][column] = value
        /\ \A c \in PersonColumns \ {column} : people'[call[p].on][c] = people[call[p].on][c]
    BY <1>1, <2>1, ColumnSet
  <2> QED
    BY <1>2, <1>3, <2>2, <2>3
<1>4. CASE call[p].on \notin Present
  BY <1>1, <1>2, <1>4, EndEffect DEF Change, Now
<1> QED
  BY <1>3, <1>4

LEMMA FinishEffect ==
  ASSUME TypeOK, NEW p \in Calls, call[p].at \in GuestPlaces,
         NEW column \in PersonColumns, NEW value, Finish(p, column, value)
  PROVE  /\ Others(p) /\ UNCHANGED <<sessions, proven, mishaps, faults>> /\ call'[p].at = "idle"
         /\ \A j \in People \ {call[p].on} : people'[j] = people[j]
         /\ IF call[p].on \in Present
            THEN /\ people'[call[p].on][column] = value
                 /\ \A c \in PersonColumns \ {column} : people'[call[p].on][c] = people[call[p].on][c]
            ELSE people' = people
<1>1. Shape /\ call[p].on \in People /\ people \in [People -> PersonRows]
  BY DEF TypeOK, CallsOK, Typed, BesideOK
<1>2. UNCHANGED <<sessions, proven, mishaps, faults>> /\ Others(p) /\ call'[p].at = "idle"
  BY <1>1, EndEffect DEF Finish, GuestsOnly, Now
<1>3. CASE call[p].on \in Present
  <2>1. people' = [people EXCEPT ![call[p].on][column] = value]
    BY <1>3 DEF Finish
  <2>2. /\ \A j \in People \ {call[p].on} : people'[j] = people[j]
        /\ people'[call[p].on][column] = value
        /\ \A c \in PersonColumns \ {column} : people'[call[p].on][c] = people[call[p].on][c]
    BY <1>1, <2>1, ColumnSet
  <2> QED
    BY <1>2, <1>3, <2>2
<1>4. CASE call[p].on \notin Present
  BY <1>2, <1>4 DEF Finish
<1> QED
  BY <1>3, <1>4

LEMMA SetSteps ==
  ASSUME TypeOK, GuestsInv, NEW p \in Calls,
         SeedWallet(p) \/ SaveLink(p) \/ SendSignupCode(p) \/ DeleteLink(p) \/ WritePassword(p)
           \/ (UseSignupCode(p) /\ people[call[p].on].code) \/ (LinkAccount(p) /\ Linked = {})
  PROVE  GuestsInv'
<1>0. Fits(p)
  BY DEF GuestsInv
<1> USE DEF GuestPlaces, VerifyPlaces, LinkPlaces, WalletPlaces, DoorPlaces, ProofPlaces
<1>1. ASSUME NEW column \in {"wallet", "linked", "code"}, NEW value \in BOOLEAN, NEW place \in GuestPlaces,
             Change(p, column, value, place), call[p].at \in GuestPlaces,
             column = "code" \/ value = TRUE, place \notin {"unlink", "verify.token", "oauth.token"},
             call[p].at \in WalletPlaces => column = "wallet",
             call[p].at \in DoorPlaces => column = "linked" \/ place \in DoorPlaces,
             call[p].at \notin ProofPlaces
      PROVE  GuestsInv'
  <2>1. Known(call[p].on)
    BY <1>0, <1>1 DEF Fits
  <2>a. column \in PersonColumns
    BY DEF PersonColumns
  <2>2. /\ Others(p) /\ UNCHANGED <<sessions, proven, mishaps, faults>>
        /\ \A j \in People \ {call[p].on} : people'[j] = people[j]
        /\ IF call[p].on \in Present
           THEN /\ call'[p].at = place /\ call'[p].on = call[p].on /\ people'[call[p].on][column] = value
                /\ \A c \in PersonColumns \ {column} : people'[call[p].on][c] = people[call[p].on][c]
           ELSE call'[p].at = "idle" /\ people' = people
    BY <1>1, <2>a, ChangeEffect
  <2>3. Fits(p)'
    <3>1. CASE call[p].on \in Present
      <4>1. people'[call[p].on].row = people[call[p].on].row
        BY <2>2, <3>1 DEF PersonColumns
      <4> QED
        BY <1>1, <2>1, <2>2, <3>1, <4>1 DEF Fits, At, Known
    <3>2. CASE call[p].on \notin Present
      BY <2>2, <3>2 DEF Fits, At
    <3> QED
      BY <3>1, <3>2
  <2> QED
    BY <1>1, <2>2, <2>3, GuestsSet
<1>2. CASE SeedWallet(p)
  BY <1>1, <1>2 DEF SeedWallet, At
<1>3. CASE SaveLink(p) \/ (LinkAccount(p) /\ Linked = {})
  BY <1>1, <1>3 DEF SaveLink, LinkAccount, At
<1>4. CASE UseSignupCode(p) /\ people[call[p].on].code
  BY <1>1, <1>4 DEF UseSignupCode, At
<1>5. ASSUME NEW column \in {"password", "linked", "code"}, NEW value \in BOOLEAN, Finish(p, column, value),
             call[p].at \in {"signup.code", "unlink", "password.first"},
             column = "password" => value = TRUE, column = "linked" => call[p].at = "unlink"
      PROVE  GuestsInv'
  <2>a. column \in PersonColumns
    BY DEF PersonColumns
  <2>1. /\ Others(p) /\ UNCHANGED <<sessions, proven, mishaps, faults>> /\ call'[p].at = "idle"
        /\ \A j \in People \ {call[p].on} : people'[j] = people[j]
        /\ IF call[p].on \in Present
           THEN /\ people'[call[p].on][column] = value
                /\ \A c \in PersonColumns \ {column} : people'[call[p].on][c] = people[call[p].on][c]
           ELSE people' = people
    <3>1. call[p].at \in GuestPlaces /\ Finish(p, column, value)
      BY <1>5 DEF GuestPlaces
    <3>2. /\ Others(p) /\ UNCHANGED <<sessions, proven, mishaps, faults>> /\ call'[p].at = "idle"
          /\ \A j \in People \ {call[p].on} : people'[j] = people[j]
      BY <2>a, <3>1, FinishEffect
    <3>3. CASE call[p].on \in Present
      <4>1. /\ people'[call[p].on][column] = value
            /\ \A c \in PersonColumns \ {column} : people'[call[p].on][c] = people[call[p].on][c]
        BY <2>a, <3>1, <3>3, FinishEffect
      <4> QED
        BY <3>2, <3>3, <4>1
    <3>4. CASE call[p].on \notin Present
      <4>1. people' = people
        BY <2>a, <3>1, <3>4, FinishEffect
      <4> QED
        BY <3>2, <3>4, <4>1
    <3> QED
      BY <3>3, <3>4
  <2>2. Fits(p)'
    BY <2>1, IdleFits
  <2>3. column = "linked" /\ call[p].on \in Present => people[call[p].on].password
    BY <1>0, <1>5 DEF Fits, At
  <2> QED
    BY <1>5, <2>1, <2>2, <2>3, GuestsSet
<1>6. CASE SendSignupCode(p) \/ DeleteLink(p) \/ WritePassword(p)
  BY <1>5, <1>6 DEF SendSignupCode, DeleteLink, WritePassword, At
<1> QED
  BY <1>2, <1>3, <1>4, <1>6

\* A request goes on, or ends, and the rows stay as they are.
LEMMA GuestsLook ==
  ASSUME TypeOK, GuestsInv, NEW p \in Calls, Others(p), mishaps' = mishaps, faults' = faults,
         call[p].at \in GuestPlaces, UNCHANGED <<people, proven>>, sessions' \subseteq proven,
         call[p].on \in Present /\ call[p].at \in WalletPlaces => call'[p].at \in WalletPlaces /\ call'[p].on = call[p].on,
         call[p].on \in Present /\ call[p].at \in DoorPlaces =>
           people[call[p].on].linked \/ (call'[p].at \in DoorPlaces /\ call'[p].on = call[p].on),
         call[p].on \in Present /\ call[p].at \in ProofPlaces => call'[p].at \in ProofPlaces /\ call'[p].on = call[p].on,
         Fits(p)'
  PROVE  GuestsInv'
<1>0. PICK i : i = call[p].on
  OBVIOUS
<1>1. i \in Present => Whole(i)'
  <2> SUFFICES ASSUME i \in Present PROVE Whole(i)'
    OBVIOUS
  <2>1. Adding(i, WalletPlaces) => Adding(i, WalletPlaces)'
    BY <1>0, AddingStays
  <2>2. people[i].linked \/ (Adding(i, DoorPlaces) => Adding(i, DoorPlaces)')
    <3>1. CASE ~ people[i].linked
      BY <1>0, <3>1, AddingStays
    <3> QED
      BY <3>1
  <2>3. Adding(i, ProofPlaces) => Adding(i, ProofPlaces)'
    BY <1>0, AddingStays
  <2>4. Whole(i) /\ people'[i] = people[i]
    BY DEF GuestsInv
  <2> QED
    BY <2>1, <2>2, <2>3, <2>4 DEF Whole
<1>2. i \in Present => (people'[i].verified <=> i \in proven')
  BY DEF GuestsInv
<1> QED
  BY <1>0, <1>1, <1>2, GuestsGoOn

LEMMA LookSteps ==
  ASSUME TypeOK, GuestsInv, NEW p \in Calls,
         LookUp(p) \/ OpenSession(p) \/ CheckVerified(p)
           \/ (UseSignupCode(p) /\ ~ people[call[p].on].code) \/ (LinkAccount(p) /\ Linked # {})
  PROVE  GuestsInv'
<1>0. Shape /\ Fits(p) /\ sessions \subseteq proven
  BY DEF GuestsInv, TypeOK, CallsOK
<1> USE DEF GuestPlaces, VerifyPlaces, LinkPlaces, WalletPlaces, DoorPlaces, ProofPlaces
<1>1. ASSUME End(p), UNCHANGED guests, GuestsOnly, call[p].at \in GuestPlaces,
             call[p].on \in Present => call[p].at \notin WalletPlaces \cup ProofPlaces
                                        /\ (call[p].at \in DoorPlaces => people[call[p].on].linked)
      PROVE  GuestsInv'
  <2>1. Others(p) /\ call'[p].at = "idle"
    BY <1>0, <1>1, EndEffect DEF Now
  <2>2. Fits(p)'
    BY <2>1 DEF Fits, At
  <2> QED
    BY <1>0, <1>1, <2>1, <2>2, GuestsLook DEF guests, GuestsOnly
<1>2. CASE LookUp(p)
  <2>1. CASE call[p].on \notin Present
    <3>1. End(p) /\ UNCHANGED guests /\ GuestsOnly /\ call[p].at \in {"verify.user", "oauth.user"}
      BY <1>2, <2>1 DEF LookUp
    <3> QED
      BY <1>1, <2>1, <3>1
  <2>2. CASE call[p].on \in Present
    <3>1. /\ Others(p) /\ call'[p].on = call[p].on /\ call[p].at \in {"verify.user", "oauth.user"}
          /\ call'[p].at = IF call[p].at = "verify.user" THEN "verify.update" ELSE "oauth.update"
      BY <1>0, <1>2, <2>2, GotoEffect DEF LookUp, At, Now
    <3>2. UNCHANGED guests /\ mishaps' = mishaps /\ faults' = faults
      BY <1>2 DEF LookUp, GuestsOnly
    <3>3. Known(call[p].on)
      BY <1>0, <3>1 DEF Fits
    <3>4. Fits(p)'
      BY <3>1, <3>2, <3>3 DEF Fits, At, Known, guests
    <3> QED
      BY <1>0, <3>1, <3>2, <3>4, GuestsLook DEF guests
  <2> QED
    BY <2>1, <2>2
<1>3. CASE OpenSession(p)
  <2>1. Others(p) /\ call'[p].at = "idle" /\ call[p].at \in {"verify.token", "oauth.token"}
    BY <1>0, <1>3, EndEffect DEF OpenSession, Now
  <2>2. UNCHANGED <<people, proven, mishaps, faults>> /\ sessions' = sessions \cup ({call[p].on} \cap Present)
    BY <1>3 DEF OpenSession, GuestsOnly
  <2>3. sessions' \subseteq proven
    BY <1>0, <2>1, <2>2 DEF Fits
  <2>4. Fits(p)'
    BY <2>1 DEF Fits, At
  <2> QED
    BY <2>1, <2>2, <2>3, <2>4, GuestsLook
<1>4. CASE CheckVerified(p)
  <2>1. CASE call[p].on \in Present /\ people[call[p].on].verified
    <3>1. Others(p) /\ call'[p].on = call[p].on /\ call[p].at = "oauth.check" /\ call'[p].at = "oauth.token"
      BY <1>0, <1>4, <2>1, GotoEffect DEF CheckVerified, At, Now
    <3>2. UNCHANGED guests /\ mishaps' = mishaps /\ faults' = faults
      BY <1>4 DEF CheckVerified, GuestsOnly
    <3>3. Known(call[p].on) /\ call[p].on \in proven
      BY <1>0, <2>1, <3>1 DEF Fits, GuestsInv
    <3>4. Fits(p)'
      BY <3>1, <3>2, <3>3 DEF Fits, At, Known, guests
    <3> QED
      BY <1>0, <3>1, <3>2, <3>4, GuestsLook DEF guests
  <2>2. CASE ~ (call[p].on \in Present /\ people[call[p].on].verified)
    <3>1. End(p) /\ UNCHANGED guests /\ GuestsOnly /\ call[p].at = "oauth.check"
      BY <1>4, <2>2 DEF CheckVerified, At
    <3> QED
      BY <1>1, <3>1
  <2> QED
    BY <2>1, <2>2
<1>5. CASE UseSignupCode(p) /\ ~ people[call[p].on].code
  BY <1>1, <1>5 DEF UseSignupCode, At
<1>6. CASE LinkAccount(p) /\ Linked # {}
  <2>1. End(p) /\ UNCHANGED guests /\ GuestsOnly /\ call[p].at = "oauth.link"
    BY <1>6 DEF LinkAccount, At
  <2>2. call[p].on \in Present => people[call[p].on].linked
    BY <1>6 DEF Linked, GuestsInv
  <2> QED
    BY <1>1, <2>1, <2>2
<1> QED
  BY <1>2, <1>3, <1>4, <1>5, <1>6

LEMMA VerifiedStep ==
  ASSUME TypeOK, GuestsInv, NEW p \in Calls, MarkVerified(p) PROVE GuestsInv'
<1>0. Shape /\ Fits(p) /\ sessions \subseteq proven /\ people \in [People -> PersonRows]
  BY DEF GuestsInv, TypeOK, CallsOK, BesideOK
<1> USE DEF GuestPlaces, VerifyPlaces, LinkPlaces, WalletPlaces, DoorPlaces, ProofPlaces
<1>1. /\ Others(p) /\ call'[p].on = call[p].on /\ call[p].at \in {"verify.update", "oauth.update"}
      /\ call'[p].at = IF call[p].at = "verify.update" THEN "verify.token" ELSE "oauth.wallet"
  BY <1>0, GotoEffect DEF MarkVerified, At, Now
<1>2. UNCHANGED <<sessions, mishaps, faults>>
  BY DEF MarkVerified, GuestsOnly
<1>3. Known(call[p].on)
  BY <1>0, <1>1 DEF Fits
<1>4. PICK i : i = call[p].on
  OBVIOUS
<1>5. CASE i \in Present
  <2>1. people' = [people EXCEPT ![i]["verified"] = TRUE] /\ proven' = proven \cup {i} /\ i \in People
    BY <1>4, <1>5 DEF MarkVerified, Present
  <2>2. /\ \A j \in People \ {i} : people'[j] = people[j]
        /\ people'[i]["verified"] = TRUE
        /\ \A c \in PersonColumns \ {"verified"} : people'[i][c] = people[i][c]
    BY <1>0, <2>1, ColumnSet DEF PersonColumns
  <2>3. /\ people'[i].verified = TRUE /\ people'[i].row = people[i].row /\ people'[i].password = people[i].password
        /\ people'[i].wallet = people[i].wallet /\ people'[i].linked = people[i].linked
    BY <2>2 DEF PersonColumns
  <2>4. Whole(i)'
    <3>1. Adding(i, WalletPlaces) => Adding(i, WalletPlaces)'
      BY <1>1, <1>2, <1>4, AddingStays
    <3>2. Adding(i, DoorPlaces) => Adding(i, DoorPlaces)'
      BY <1>1, <1>2, <1>4, AddingStays
    <3>3. Whole(i)
      BY <1>5 DEF GuestsInv
    <3> QED
      BY <2>3, <3>1, <3>2, <3>3 DEF Whole
  <2>5. Fits(p)'
    BY <1>1, <1>3, <1>4, <2>1, <2>3 DEF Fits, At, Known
  <2>6. i \in Present /\ people[i].password => people'[i].password
    BY <2>3
  <2>7. \A c \in {"row"} : people'[i][c] = people[i][c]
    BY <2>3
  <2>8. people'[i].verified <=> i \in proven'
    BY <2>1, <2>3
  <2>9. proven \subseteq proven' /\ proven' \subseteq proven \cup ({i} \cap Present) /\ sessions' \subseteq proven'
    BY <1>0, <1>2, <1>5, <2>1
  <2> QED
    BY <1>1, <1>2, <1>4, <1>5, <2>2, <2>4, <2>5, <2>6, <2>7, <2>8, <2>9, GuestsGoOn
<1>6. CASE i \notin Present
  <2>1. UNCHANGED <<people, proven>>
    BY <1>4, <1>6 DEF MarkVerified
  <2>2. Fits(p)'
    BY <1>1, <1>3, <1>4, <1>6, <2>1 DEF Fits, At, Known, Present
  <2> QED
    BY <1>0, <1>1, <1>2, <1>4, <1>6, <2>1, <2>2, GuestsLook
<1> QED
  BY <1>5, <1>6

LEMMA CreateEffect ==
  ASSUME TypeOK, RoomInv, GuestsInv, NEW p \in Calls, call[p].at \in CreatingPlaces, Present = {},
         NEW password, NEW place, Create(p, password, place)
  PROVE  /\ Others(p) /\ call'[p].at = place
         /\ LET i == call'[p].on
            IN  /\ i \in Coming /\ \A j \in People \ {i} : people'[j] = people[j]
                /\ people'[i].row = "STORED" /\ people'[i].password = password
                /\ ~ people'[i].verified /\ ~ people'[i].linked
<1>0. Shape /\ people \in [People -> PersonRows]
  BY DEF TypeOK, CallsOK, BesideOK
<1> DEFINE i == CHOOSE i \in Coming : TRUE
<1>1. i \in Coming
  BY NextComes
<1>2. /\ people' = [people EXCEPT ![i].row = "STORED", ![i].password = password]
      /\ call' = [call EXCEPT ![p].at = place, ![p].on = i]
  BY DEF Create
<1> HIDE DEF i
<1>3. Others(p) /\ call'[p].at = place /\ call'[p].on = i
  <2>1. Others(p) /\ Now(p, place, i, call[p].seen)
    BY <1>0, <1>2, GoOnEffect
  <2> QED
    BY <2>1 DEF Now
<1>4. i \in People /\ people[i].row = "NEW"
  BY <1>1 DEF Coming
<1>5. people[i] = Nobody
  <2>1. \A k \in People : ~ Known(k) => people[k] = Nobody
    BY DEF GuestsInv
  <2> QED
    BY <1>4, <2>1 DEF Known
<1> DEFINE row == [Nobody EXCEPT !.row = "STORED"]
<1>6. row.row = "STORED" /\ ~ row.verified /\ ~ row.linked /\ DOMAIN row = PersonColumns
  BY DEF Nobody, PersonColumns
<1>7. people'[i] = [row EXCEPT !.password = password]
  BY <1>0, <1>2, <1>4, <1>5
<1> HIDE DEF row
<1>8. /\ people'[i].row = "STORED" /\ people'[i].password = password
      /\ ~ people'[i].verified /\ ~ people'[i].linked
  BY <1>6, <1>7 DEF PersonColumns
<1>9. \A j \in People \ {i} : people'[j] = people[j]
  BY <1>0, <1>2
<1> QED
  BY <1>1, <1>3, <1>8, <1>9

LEMMA CreateSteps ==
  ASSUME TypeOK, RoomInv, GuestsInv, NEW p \in Calls, InsertGuest(p) \/ InsertOAuth(p) PROVE GuestsInv'
<1>0. Shape /\ call[p].at \in {"signup.insert", "oauth.insert"}
  BY DEF TypeOK, CallsOK, InsertGuest, InsertOAuth, At
<1>1. PICK password \in BOOLEAN, place \in {"signup.wallet", "oauth.user"} :
        Create(p, password, place) /\ (password \/ place = "oauth.user")
  BY DEF InsertGuest, InsertOAuth
<1>2. UNCHANGED <<sessions, proven, mishaps, faults>>
  BY <1>1 DEF Create, GuestsOnly
<1>3. CASE Present # {}
  <2>1. End(p) /\ UNCHANGED people
    BY <1>1, <1>3 DEF Create
  <2>2. Others(p) /\ call'[p].at = "idle"
    BY <1>0, <2>1, EndEffect DEF Now
  <2>3. Fits(p)' /\ call[p].at \notin GuestPlaces
    BY <1>0, <2>2 DEF Fits, At, GuestPlaces, VerifyPlaces, LinkPlaces
  <2> QED
    BY <1>2, <2>1, <2>2, <2>3, GuestsCome DEF guests
<1>4. CASE Present = {}
  <2>0. PICK i : i = call'[p].on
    OBVIOUS
  <2>1. /\ Others(p) /\ call'[p].at = place
        /\ i \in Coming /\ \A j \in People \ {i} : people'[j] = people[j]
        /\ people'[i].row = "STORED" /\ people'[i].password = password
        /\ ~ people'[i].verified /\ ~ people'[i].linked
    BY <1>0, <1>1, <1>4, <2>0, CreateEffect DEF CreatingPlaces
  <2>2. i \in People /\ ~ Known(i) /\ Known(i)'
    BY <2>1 DEF Coming, Known
  <2>3. Present' = {i}
    BY <1>4, <2>1, <2>2 DEF Present
  <2>4. \A j \in People : /\ Known(j)' <=> Known(j) \/ j = i
                          /\ ~ Known(j)' => people'[j] = Nobody
    <3>1. \A j \in People : ~ Known(j) => people[j] = Nobody
      BY DEF GuestsInv
    <3> QED
      BY <2>1, <2>2, <3>1 DEF Known
  <2>5. ASSUME NEW q \in Calls PROVE Fits(q)'
    <3>1. CASE q = p
      BY <2>0, <2>1, <2>2, <3>1 DEF Fits, At
    <3>2. CASE q # p
      <4>1. call'[q] = call[q] /\ Fits(q)
        BY <2>1, <3>2 DEF Others, GuestsInv
      <4>2. /\ call[q].at \in GuestPlaces => call[q].on \in People
            /\ At(q, "signup.delete") => call[q].on.account \in People
        BY DEF TypeOK, CallsOK, Typed, At
      <4>3. call[q].at \in GuestPlaces => Known(call[q].on) /\ call[q].on # i
        BY <2>2, <4>1 DEF Fits
      <4> QED
        BY <2>3, <2>4, <4>1, <4>2, <4>3 DEF Fits, At, GuestPlaces, VerifyPlaces, LinkPlaces
    <3> QED
      BY <3>1, <3>2
  <2>6. i \notin proven /\ \A j \in proven' : Known(j)'
    <3>1. (\A j \in proven : Known(j)) /\ proven \subseteq People
      BY DEF GuestsInv, TypeOK, BesideOK
    <3> QED
      BY <1>2, <2>2, <2>4, <3>1
  <2>7. Whole(i)'
    <3>1. \A places : place \in places => Adding(i, places)'
      BY <2>0, <2>1 DEF Adding
    <3>2. /\ Adding(i, WalletPlaces)'
          /\ password \/ (Adding(i, DoorPlaces)' /\ Adding(i, ProofPlaces)')
      BY <1>1, <3>1 DEF WalletPlaces, DoorPlaces, ProofPlaces
    <3> QED
      BY <2>1, <3>2 DEF Whole
  <2>8. proven' \subseteq Present' \/ "signup" \in mishaps'
    BY <1>2, <1>4 DEF GuestsInv
  <2>9. sessions' \subseteq proven' /\ (people'[i].verified <=> i \in proven')
    BY <1>2, <2>1, <2>6 DEF GuestsInv
  <2> QED
    BY <2>3, <2>4, <2>5, <2>6, <2>7, <2>8, <2>9 DEF GuestsInv
<1> QED
  BY <1>3, <1>4

LEMMA DeleteStep ==
  ASSUME TypeOK, GuestsInv, NEW p \in Calls, DeleteUnverified(p) PROVE GuestsInv'
<1>0. Shape /\ call[p].at = "signup.delete" /\ people \in [People -> PersonRows]
  BY DEF TypeOK, CallsOK, BesideOK, DeleteUnverified, At
<1>1. PICK a : a = call[p].on.account
  OBVIOUS
<1>2. a \in People /\ ~ call[p].on.verified /\ Known(a)
  <2>1. Fits(p)
    BY DEF GuestsInv
  <2> QED
    BY <1>0, <1>1, <2>1 DEF TypeOK, CallsOK, Typed, Fits, At
<1>3. Others(p) /\ call'[p].at = "signup.insert"
  BY <1>0, GotoEffect DEF DeleteUnverified, Now
<1>4. /\ people' = [people EXCEPT ![a] = [Nobody EXCEPT !.row = "GONE"]]
      /\ sessions' = sessions \ {a} /\ UNCHANGED <<proven, faults>>
      /\ mishaps' = IF people[a].verified THEN mishaps \cup {"signup"} ELSE mishaps
  BY <1>1, <1>2 DEF DeleteUnverified, ghosts
<1>5. people'[a].row = "GONE" /\ \A j \in People \ {a} : people'[j] = people[j]
  BY <1>0, <1>2, <1>4 DEF Nobody
<1>6. Present' = Present \ {a} /\ \A j \in People : Known(j)' <=> Known(j)
  BY <1>2, <1>5 DEF Present, Known
<1>7. \A j \in People : ~ Known(j)' => people'[j] = Nobody
  BY <1>2, <1>5, <1>6 DEF GuestsInv
<1>8. ASSUME NEW q \in Calls PROVE Fits(q)'
  <2>1. CASE q = p
    BY <1>3, <2>1 DEF Fits, At, GuestPlaces, VerifyPlaces, LinkPlaces
  <2>2. CASE q # p
    <3>1. call'[q] = call[q] /\ Fits(q)
      BY <1>3, <2>2 DEF Others, GuestsInv
    <3>2. /\ call[q].at \in GuestPlaces => call[q].on \in People
          /\ At(q, "signup.delete") => call[q].on.account \in People
      BY DEF TypeOK, CallsOK, Typed, At
    <3>3. \A j \in Present' : j \in Present /\ people'[j] = people[j]
      BY <1>5, <1>6 DEF Present
    <3> QED
      BY <1>4, <1>6, <3>1, <3>2, <3>3 DEF Fits, At, GuestPlaces, VerifyPlaces, LinkPlaces
  <2> QED
    BY <2>1, <2>2
<1>9. \A j \in proven' : Known(j)'
  BY <1>4, <1>6 DEF GuestsInv, TypeOK, BesideOK
<1>10. proven' \subseteq Present' \/ "signup" \in mishaps'
  <2>1. proven \subseteq Present \/ "signup" \in mishaps
    BY DEF GuestsInv
  <2>2. a \in Present /\ a \in proven => people[a].verified
    BY DEF GuestsInv
  <2> QED
    BY <1>4, <1>6, <2>1, <2>2
<1>11. ASSUME NEW j \in Present' PROVE Whole(j)' /\ (people'[j].verified <=> j \in proven')
  <2>1. j \in Present /\ people'[j] = people[j]
    BY <1>5, <1>6 DEF Present
  <2>2. \A places \in {WalletPlaces, DoorPlaces, ProofPlaces} : Adding(j, places) => Adding(j, places)'
    BY <1>0, <1>3, <1>4, AddingStays DEF WalletPlaces, DoorPlaces, ProofPlaces
  <2>3. Whole(j) /\ (people[j].verified <=> j \in proven)
    BY <2>1 DEF GuestsInv
  <2> QED
    BY <1>4, <2>1, <2>2, <2>3 DEF Whole
<1>12. (\A i, j \in Present' : i = j) /\ sessions' \subseteq proven'
  BY <1>4, <1>6 DEF GuestsInv
<1> QED
  BY <1>7, <1>8, <1>9, <1>10, <1>11, <1>12 DEF GuestsInv

LEMMA FindStep ==
  ASSUME TypeOK, GuestsInv, NEW p \in Calls, FindByEmail(p) PROVE GuestsInv'
<1>0. Shape /\ call[p].at = "oauth.find" /\ UNCHANGED <<guests, mishaps, faults>>
  BY DEF TypeOK, CallsOK, FindByEmail, At, GuestsOnly
<1>1. CASE Goto(p, "oauth.insert")
  <2>1. Others(p) /\ call'[p].at = "oauth.insert"
    BY <1>0, <1>1, GotoEffect DEF Now
  <2>2. Fits(p)' /\ call[p].at \notin GuestPlaces
    BY <1>0, <2>1 DEF Fits, At, GuestPlaces, VerifyPlaces, LinkPlaces
  <2> QED
    BY <1>0, <2>1, <2>2, GuestsCome
<1>2. ASSUME NEW i \in Present, call' = [call EXCEPT ![p].at = "oauth.link", ![p].on = i] PROVE GuestsInv'
  <2>1. Others(p) /\ call'[p].at = "oauth.link" /\ call'[p].on = i
    <3>1. Others(p) /\ Now(p, "oauth.link", i, call[p].seen)
      BY <1>0, <1>2, GoOnEffect
    <3> QED
      BY <3>1 DEF Now
  <2>a. people' = people
    BY <1>0 DEF guests
  <2>b. people[i].row = "STORED"
    BY DEF Present
  <2>2. Known(i)'
    BY <2>a, <2>b DEF Known
  <2>3. Fits(p)' /\ call[p].at \notin GuestPlaces
    BY <1>0, <2>1, <2>2 DEF Fits, At, GuestPlaces, VerifyPlaces, LinkPlaces
  <2> QED
    BY <1>0, <2>1, <2>3, GuestsCome
<1> QED
  BY <1>1, <1>2 DEF FindByEmail

LEMMA GuestsBegin ==
  ASSUME TypeOK, GuestsInv, NEW p \in Calls, SignupsBegin(p) PROVE GuestsInv'
<1>0. Shape
  BY DEF TypeOK, CallsOK
<1>1. ASSUME NEW place, NEW x, Begin(p, place, x), UNCHANGED guests,
             place \in {"signup.insert", "oauth.find"}
               \/ (place \in {"signup.code", "verify.code", "oauth.save", "unlink", "password.first"} /\ x \in Present)
               \/ (place = "signup.delete" /\ x.account \in Present),
             place = "unlink" => people[x].password
      PROVE  GuestsInv'
  <2>1. Others(p) /\ call'[p].at = place /\ call'[p].on = x /\ call[p].at = "idle"
    BY <1>0, <1>1, BeginEffect DEF Now
  <2>2. UNCHANGED <<mishaps, faults>>
    BY <1>1 DEF Begin
  <2>3. \A i \in Present : Known(i)'
    BY <1>1 DEF Present, Known, guests
  <2>4. Fits(p)' /\ call[p].at \notin GuestPlaces
    BY <1>1, <2>1, <2>3 DEF Fits, At, GuestPlaces, VerifyPlaces, LinkPlaces, guests
  <2> QED
    BY <1>1, <2>1, <2>2, <2>4, GuestsCome
<1>2. CASE SignUp(p)
  <2>1. CASE Begin(p, "signup.insert", 0)
    BY <1>1, <1>2, <2>1 DEF SignUp
  <2>2. ASSUME NEW i \in Present, Begin(p, "signup.delete", [account |-> i, verified |-> FALSE]) PROVE GuestsInv'
    <3>1. [account |-> i, verified |-> FALSE].account = i
      OBVIOUS
    <3> QED
      BY <1>1, <1>2, <2>2, <3>1 DEF SignUp
  <2> QED
    BY <1>2, <2>1, <2>2 DEF SignUp
<1>3. CASE ResendCode(p) \/ VerifySignup(p)
  BY <1>1, <1>3 DEF ResendCode, VerifySignup
<1>4. CASE ContinueWith(p)
  BY <1>1, <1>4 DEF ContinueWith, Linked
<1>5. CASE Unlink(p)
  BY <1>1, <1>5 DEF Unlink, Linked
<1>6. CASE SetFirstPassword(p)
  BY <1>1, <1>6 DEF SetFirstPassword
<1> QED
  BY <1>2, <1>3, <1>4, <1>5, <1>6 DEF SignupsBegin

LEMMA GuestsInvStep ==
  ASSUME TypeOK, RoomInv, GuestsInv, [Next]_lifeVars PROVE GuestsInv'
<1>1. CASE GuestsAct
  <2>1. PICK p \in Calls : SignupsStep(p) \/ SignupsBegin(p)
    BY <1>1 DEF GuestsAct
  <2>2. CASE SignupsStep(p)
    BY <2>2, SetSteps, LookSteps, VerifiedStep, CreateSteps, DeleteStep, FindStep DEF SignupsStep
  <2> QED
    BY <2>1, <2>2, GuestsBegin
<1>2. CASE Away(SignupsPlaces) /\ UNCHANGED guests
  <2>0. mishaps \subseteq mishaps' /\ faults \in Nat /\ (faults' = faults \/ faults' = faults + 1)
    BY MishapsStay DEF TypeOK, GhostsOK
  <2>1. Present' = Present /\ \A i \in People : Known(i)' <=> Known(i)
    BY <1>2 DEF Present, Known, guests
  <2>2. ASSUME NEW q \in Calls PROVE Fits(q)'
    <3>1. call'[q] = call[q] \/ call'[q].at \notin SignupsPlaces
      BY <1>2 DEF Away
    <3>2. Fits(q)
      BY DEF GuestsInv
    <3> QED
      BY <1>2, <3>1, <3>2 DEF Fits, At, Known, Present, guests, SignupsPlaces, CreatingPlaces, GuestPlaces,
         VerifyPlaces, LinkPlaces
  <2>3. ASSUME NEW i \in Present PROVE Whole(i)'
    <3>1. ASSUME NEW places \in {WalletPlaces, DoorPlaces, ProofPlaces}, Adding(i, places)
          PROVE  Adding(i, places)'
      <4>1. places \subseteq SignupsPlaces
        BY DEF WalletPlaces, DoorPlaces, ProofPlaces, SignupsPlaces, GuestPlaces, LinkPlaces
      <4>2. CASE faults > 0
        BY <2>0, <4>2 DEF Adding
      <4>3. ASSUME NEW q \in Calls, call[q].at \in places, call[q].on = i PROVE Adding(i, places)'
        <5>1. call'[q] = call[q] \/ faults' > 0
          BY <1>2, <4>1, <4>3 DEF Away
        <5> QED
          BY <4>3, <5>1 DEF Adding
      <4> QED
        BY <3>1, <4>2, <4>3 DEF Adding
    <3>2. Whole(i) /\ people'[i] = people[i]
      BY <1>2 DEF GuestsInv, guests
    <3> QED
      BY <3>1, <3>2 DEF Whole
  <2>4. UNCHANGED <<people, sessions, proven>>
    BY <1>2 DEF guests
  <2> QED
    BY <2>0, <2>1, <2>2, <2>3, <2>4 DEF GuestsInv, Known
<1> QED
  BY <1>1, <1>2, Foreign

-------------------------------------------------------------------------------
(* Room for the accounts to come, and all of it. *)

LEMMA CreatingStays ==
  ASSUME TypeOK, NEW p \in Calls, SignupsStep(p), call[p].at \notin CreatingPlaces
  PROVE  call'[p].at \notin CreatingPlaces
<1>0. Shape
  BY DEF TypeOK, CallsOK
<1>1. CASE End(p)
  BY <1>0, <1>1, EndEffect DEF Now, CreatingPlaces
<1>2. CASE \E place \in GuestPlaces : Goto(p, place)
  BY <1>0, <1>2, GotoEffect DEF Now, CreatingPlaces, GuestPlaces, VerifyPlaces, LinkPlaces
<1>3. SeedWallet(p) \/ SendSignupCode(p) \/ UseSignupCode(p) \/ LookUp(p) \/ MarkVerified(p) \/ OpenSession(p)
        \/ SaveLink(p) \/ LinkAccount(p) \/ CheckVerified(p) \/ DeleteLink(p) \/ WritePassword(p)
  BY DEF SignupsStep, DeleteUnverified, InsertGuest, InsertOAuth, FindByEmail, At, CreatingPlaces
<1> QED
  BY <1>1, <1>2, <1>3 DEF SeedWallet, SendSignupCode, UseSignupCode, LookUp, MarkVerified, OpenSession, SaveLink,
     LinkAccount, CheckVerified, DeleteLink, WritePassword, Change, Finish, GuestPlaces, VerifyPlaces, LinkPlaces

LEMMA GuestsRoom ==
  ASSUME TypeOK, RoomInv, GuestsInv, [Next]_lifeVars PROVE Cardinality(Creating') <= Cardinality(Coming')
<1>0. CallsOK /\ Shape /\ RowsOK /\ Cardinality(Creating) <= Cardinality(Coming)
  BY DEF TypeOK, CallsOK, RoomInv
<1>1. ASSUME Creating' \subseteq Creating, Coming \subseteq Coming' PROVE Cardinality(Creating') <= Cardinality(Coming')
  BY <1>0, <1>1, RoomKept, FiniteSides, FiniteSidesNext
<1>2. CASE GuestsAct
  <2>1. PICK p \in Calls : SignupsStep(p) \/ SignupsBegin(p)
    BY <1>2 DEF GuestsAct
  <2>2. CASE SignupsStep(p)
    <3>1. Others(p)
      BY <1>0, <2>2, SignupsMoves DEF Moves, GoneTo
    <3>2. CASE (InsertGuest(p) \/ InsertOAuth(p)) /\ Present = {}
      <4>1. PICK password \in BOOLEAN, place \in {"signup.wallet", "oauth.user"} : Create(p, password, place)
        BY <3>2 DEF InsertGuest, InsertOAuth
      <4>2. call[p].at \in CreatingPlaces
        BY <3>2 DEF InsertGuest, InsertOAuth, At, CreatingPlaces
      <4>3. PICK i : i = call'[p].on
        OBVIOUS
      <4>4. call'[p].at = place /\ i \in Coming /\ \A j \in People \ {i} : people'[j] = people[j]
        BY <3>2, <4>1, <4>2, <4>3, CreateEffect
      <4>5. p \in Creating /\ Creating' \subseteq Creating \ {p}
        BY <3>1, <4>2, <4>4 DEF Others, Creating, CreatingPlaces
      <4>6. Coming \ {i} \subseteq Coming'
        BY <4>4 DEF Coming
      <4> QED
        BY <1>0, <4>5, <4>6, RoomUsed, FiniteSides, FiniteSidesNext
    <3>3. ASSUME ~ ((InsertGuest(p) \/ InsertOAuth(p)) /\ Present = {}) PROVE Creating' \subseteq Creating
      <4>1. call'[p].at \in CreatingPlaces => call[p].at \in CreatingPlaces
        BY <2>2, CreatingStays
      <4> QED
        BY <3>1, <4>1 DEF Others, Creating, CreatingPlaces
    <3>4. ASSUME ~ ((InsertGuest(p) \/ InsertOAuth(p)) /\ Present = {}) PROVE Coming \subseteq Coming'
      <4>1. CASE DeleteUnverified(p)
        <5>1. PICK a : a = call[p].on.account
          OBVIOUS
        <5>2. Fits(p) /\ call[p].at = "signup.delete" /\ people' = [people EXCEPT ![a] = [Nobody EXCEPT !.row = "GONE"]]
          BY <4>1, <5>1 DEF GuestsInv, DeleteUnverified, At
        <5>3. a \notin Coming
          BY <5>1, <5>2 DEF Fits, At, Known, Coming
        <5> QED
          BY <5>2, <5>3 DEF Coming, TypeOK, BesideOK
      <4>2. ASSUME NEW i, NEW column \in PersonColumns \ {"row"}, NEW value, i \in Present,
                   people' = [people EXCEPT ![i][column] = value]
            PROVE  Coming \subseteq Coming'
        <5>1. /\ \A j \in People \ {i} : people'[j] = people[j]
              /\ \A c \in PersonColumns \ {column} : people'[i][c] = people[i][c]
          BY <4>2, ColumnSet DEF TypeOK, BesideOK, Present
        <5>2. people'[i].row = people[i].row
          BY <5>1 DEF PersonColumns
        <5> QED
          BY <5>1, <5>2 DEF Coming
      <4>3. CASE UNCHANGED people
        BY <4>3 DEF Coming
      <4>4. ASSUME NEW column \in PersonColumns \ {"row"}, NEW value, NEW place,
                   Change(p, column, value, place) \/ Finish(p, column, value)
            PROVE  Coming \subseteq Coming'
        BY <4>2, <4>3, <4>4 DEF Change, Finish
      <4>5. {"verified", "password", "wallet", "linked", "code"} \subseteq PersonColumns \ {"row"}
        BY DEF PersonColumns
      <4>6. CASE SeedWallet(p) \/ SendSignupCode(p) \/ UseSignupCode(p) \/ SaveLink(p) \/ LinkAccount(p)
                   \/ DeleteLink(p) \/ WritePassword(p)
        BY <4>3, <4>4, <4>5, <4>6 DEF SeedWallet, SendSignupCode, UseSignupCode, SaveLink, LinkAccount, DeleteLink,
           WritePassword, guests
      <4>7. CASE MarkVerified(p)
        <5>1. CASE UNCHANGED people
          BY <4>3, <5>1
        <5>2. CASE call[p].on \in Present
          <6>1. people' = [people EXCEPT ![call[p].on]["verified"] = TRUE]
            BY <4>7, <5>2 DEF MarkVerified
          <6> QED
            BY <4>2, <4>5, <5>2, <6>1
        <5> QED
          BY <4>7, <5>1, <5>2 DEF MarkVerified
      <4>8. CASE LookUp(p) \/ OpenSession(p) \/ FindByEmail(p) \/ CheckVerified(p)
        BY <4>3, <4>8 DEF LookUp, OpenSession, FindByEmail, CheckVerified, guests
      <4>9. CASE InsertGuest(p) \/ InsertOAuth(p)
        BY <3>4, <4>3, <4>9 DEF InsertGuest, InsertOAuth, Create
      <4> QED
        BY <2>2, <4>1, <4>6, <4>7, <4>8, <4>9 DEF SignupsStep
    <3> QED
      BY <1>1, <3>2, <3>3, <3>4
  <2>3. CASE SignupsBegin(p)
    <3>1. Others(p) /\ UNCHANGED people /\ Coming' = Coming
      BY <1>0, <2>3, SignupsArrive DEF GoneTo, SignupsBegin, SignUp, ResendCode, VerifySignup, ContinueWith, Unlink,
         SetFirstPassword, guests, Coming
    <3>2. CASE Cardinality(Creating) < Cardinality(Coming)
      <4>1. Creating' \subseteq Creating \cup {p}
        BY <3>1 DEF Others, Creating
      <4> QED
        BY <3>1, <3>2, <4>1, RoomTaken, FiniteSides, FiniteSidesNext
    <3>3. CASE \E place \in {"signup.code", "verify.code", "oauth.save", "unlink", "password.first"}, x \in People :
                 Begin(p, place, x)
      <4>1. call'[p].at \notin CreatingPlaces
        BY <1>0, <3>3, BeginEffect DEF Now, CreatingPlaces
      <4>2. Creating' \subseteq Creating
        BY <3>1, <4>1 DEF Others, Creating, CreatingPlaces
      <4> QED
        BY <1>1, <3>1, <4>2
    <3> QED
      BY <2>3, <3>2, <3>3 DEF SignupsBegin, SignUp, ResendCode, VerifySignup, ContinueWith, Unlink, SetFirstPassword,
         Linked, Present
  <2> QED
    BY <2>1, <2>2, <2>3
<1>3. CASE Away(SignupsPlaces) /\ UNCHANGED guests
  <2>1. Creating' \subseteq Creating
    BY <1>3 DEF Away, Creating, SignupsPlaces, CreatingPlaces
  <2>2. Coming' = Coming
    BY <1>3 DEF Coming, guests
  <2> QED
    BY <1>1, <2>1, <2>2
<1> QED
  BY <1>2, <1>3, Foreign

LEMMA RoomInvStep ==
  ASSUME TypeOK, RoomInv, GuestsInv, [Next]_lifeVars PROVE RoomInv'
  BY CodesRoom, BackupsRoom, GuestsRoom DEF RoomInv

-------------------------------------------------------------------------------
(* The copies of the row that requests have read. *)

\* A request goes on with what it has read, ends, or reads the row as it is.
Keeps(q) == call[q].at # "idle" /\ call'[q].seen = call[q].seen
ReadsNow(q) == call'[q].seen = user /\ RowKept

LEMMA KeepsOn ==
  ASSUME Shape, NEW p \in Calls, call[p].at # "idle",
         \/ End(p) \/ \E place : Goto(p, place)
         \/ \E place, on : call' = [call EXCEPT ![p].at = place, ![p].on = on]
         \/ \E place, on : call' = [call EXCEPT ![p] = [at |-> place, on |-> on, seen |-> Seen(p)]]
  PROVE  Others(p) /\ (call'[p].at = "idle" \/ Keeps(p))
<1>1. CASE End(p)
  BY <1>1, EndEffect DEF Now
<1>2. CASE \E place : Goto(p, place)
  BY <1>2, GotoEffect DEF Now, Keeps
<1>3. CASE \E place, on : call' = [call EXCEPT ![p].at = place, ![p].on = on]
  <2>1. PICK place, on : call' = [call EXCEPT ![p].at = place, ![p].on = on]
    BY <1>3
  <2> QED
    BY <2>1, GoOnEffect DEF Now, Keeps
<1>4. CASE \E place, on : call' = [call EXCEPT ![p] = [at |-> place, on |-> on, seen |-> Seen(p)]]
  <2>1. PICK place, on : call' = [call EXCEPT ![p] = [at |-> place, on |-> on, seen |-> call[p].seen]]
    BY <1>4 DEF Seen
  <2>2. Others(p) /\ Now(p, place, on, call[p].seen)
    BY <2>1, Moved
  <2> QED
    BY <2>2 DEF Now, Keeps
<1> QED
  BY <1>1, <1>2, <1>3, <1>4

LEMMA CopiesStay ==
  ASSUME TypeOK, RoomInv, [Next]_lifeVars
  PROVE  \A q \in Calls : call'[q].at = "idle" \/ call'[q] = call[q] \/ Keeps(q) \/ ReadsNow(q)
<1>0. CallsOK /\ Shape /\ RowsOK /\ FactorsOK /\ BesideOK
  BY DEF TypeOK, CallsOK
<1>a. ASSUME NEW p \in Calls, Others(p), call'[p].at = "idle" \/ Keeps(p) \/ ReadsNow(p) \/ UNCHANGED call
      PROVE  \A q \in Calls : call'[q].at = "idle" \/ call'[q] = call[q] \/ Keeps(q) \/ ReadsNow(q)
  BY <1>a DEF Others
<1>b. ASSUME NEW p \in Calls, NEW place, NEW on, Begin(p, place, on), UNCHANGED factors
      PROVE  Others(p) /\ ReadsNow(p)
  BY <1>0, <1>b, BeginEffect DEF Begin, Now, ReadsNow, RowKept, ghosts, factors
<1>c. UNCHANGED beside => UNCHANGED factors
  BY DEF beside
<1>1. CASE RowsAct
  <2>1. PICK p \in Calls : UsersStep(p) \/ KycStep(p) \/ SessionsStep(p) \/ DataStep(p)
                            \/ UsersBegin(p) \/ KycBegin(p) \/ SessionsBegin(p) \/ DataBegin(p)
    BY <1>1 DEF RowsAct
  <2>2. CASE UsersStep(p)
    <3>1. End(p) /\ call[p].at # "idle"
      BY <2>2 DEF UsersStep, WriteProfile, SavePreferences, WriteBalances, At
    <3> QED
      BY <1>0, <1>a, <3>1, KeepsOn
  <2>3. CASE KycStep(p)
    <3>1. CASE ReadReviewed(p)
      <4>a. call' = [call EXCEPT ![p].at = "review.save", ![p].seen = user]
        BY <3>1 DEF ReadReviewed
      <4>1. Others(p) /\ call'[p].seen = user
        <5>1. Others(p) /\ Now(p, "review.save", call[p].on, user)
          BY <1>0, <4>a, ReadAgainEffect
        <5> QED
          BY <5>1 DEF Now
      <4>2. RowKept
        BY <1>1, <1>c, <3>1 DEF RowsAct, ReadReviewed, RowKept, ghosts, factors
      <4> QED
        BY <1>a, <4>1, <4>2 DEF ReadsNow
    <3>2. CASE ~ ReadReviewed(p)
      <4>1. call[p].at # "idle"
        BY <2>3, <3>2 DEF KycStep, CheckOpen, InsertApplication, SaveResubmission, SaveReview, At
      <4>2. End(p) \/ \E place, on : call' = [call EXCEPT ![p].at = place, ![p].on = on]
        <5>1. CASE CheckOpen(p) /\ ~ End(p)
          <6>1. call' = [call EXCEPT ![p].at = "apply.insert", ![p].on = [target |-> call[p].on, open |-> {}]]
            BY <5>1 DEF CheckOpen
          <6> QED
            BY <6>1
        <5> QED
          BY <2>3, <3>2, <5>1 DEF KycStep, InsertApplication, SaveResubmission, SaveReview
      <4> QED
        BY <1>0, <1>a, <4>1, <4>2, KeepsOn
    <3> QED
      BY <3>1, <3>2
  <2>4. CASE SessionsStep(p)
    <3>1. call[p].at # "idle" /\ (End(p) \/ \E place : Goto(p, place))
      BY <2>4 DEF SessionsStep, Invalidate, InsertCode, FindCode, CountWrong, MarkUsed, ClearAttempts, IssueToken,
                  SetPassword, RevokeTokens, InvalidateAll, At
    <3> QED
      BY <1>0, <1>a, <3>1, KeepsOn
  <2>5. CASE DataStep(p)
    <3>1. call[p].at # "idle"
      BY <2>5 DEF DataStep, Anonymise, RevokeErased, CheckDemands, InsertDemand, Process, Export, NotifyExported,
                  RollBackDeletion, SaveFailure, At
    <3>2. \/ End(p) \/ \E place : Goto(p, place)
          \/ \E place, on : call' = [call EXCEPT ![p] = [at |-> place, on |-> on, seen |-> Seen(p)]]
      BY <2>5 DEF DataStep, Anonymise, RevokeErased, CheckDemands, InsertDemand, Process, Export, NotifyExported,
                  RollBackDeletion, SaveFailure
    <3> QED
      BY <1>0, <1>a, <3>1, <3>2, KeepsOn
  <2>6. CASE UNCHANGED call
    BY <2>6
  <2>7. CASE \E place, on : Begin(p, place, on)
    BY <1>1, <1>a, <1>b, <1>c, <2>7 DEF RowsAct
  <2> QED
    BY <2>1, <2>2, <2>3, <2>4, <2>5, <2>6, <2>7
    DEF UsersBegin, UpdateProfile, UpdatePreferences, SyncBalances, DeleteProfile, ChangeBalance, UpdateUserStatus,
        KycBegin, ApplyForKyc, ResubmitKyc, Review, SessionsBegin, SendCode, UseCode, Logout, DataBegin, EraseUser, Demand
<1>2. CASE FactorsAct
  <2>1. PICK p \in Calls : FactorStep(p) \/ FactorBegin(p)
    BY <1>2 DEF FactorsAct
  <2>2. CASE FactorStep(p)
    <3>1. call[p].at # "idle" /\ (End(p) \/ \E place : Goto(p, place))
      BY <2>2 DEF FactorStep, WriteSecret, WriteEnabled, WriteDisabled, DeleteBackups, InsertBackups, SignPartial,
                  CheckTotp, ClearFactorAttempts, FindBackup, UseBackup, At
    <3> QED
      BY <1>0, <1>a, <3>1, KeepsOn
  <2>3. CASE FactorBegin(p)
    <3>1. UNCHANGED factors /\ \E place, on : Begin(p, place, on)
      BY <2>3 DEF FactorBegin, GenerateSecret, ConfirmTwoFactor, DisableTwoFactor, RegenerateBackupCodes, Ask,
                  VerifyTwoFactor, ExchangePartial, Recover, BeginFactor
    <3> QED
      BY <1>a, <1>b, <3>1
  <2> QED
    BY <2>1, <2>2, <2>3
<1>3. CASE RolesAct
  <2>1. PICK p \in Calls : RolesStep(p) \/ RolesBegin(p)
    BY <1>3 DEF RolesAct
  <2>2. CASE RolesStep(p)
    <3>1. call[p].at # "idle" /\ (End(p) \/ \E place : Goto(p, place))
      BY <2>2 DEF RolesStep, ReadTarget, CountSupers, SaveRole, InsertAdmin, VerifyAdmin, At
    <3> QED
      BY <1>0, <1>a, <3>1, KeepsOn
  <2>3. CASE RolesBegin(p)
    BY <1>3, <1>a, <1>b, <2>3 DEF RolesAct, RolesBegin, ChangeRole, CreateAdmin
  <2> QED
    BY <2>1, <2>2, <2>3
<1>4. CASE TrialsAct
  <2>1. PICK p \in Calls : ExperimentsStep(p) \/ ExperimentsBegin(p)
    BY <1>4 DEF TrialsAct
  <2>2. CASE ExperimentsStep(p)
    <3>1. /\ call[p].at # "idle"
          /\ \/ End(p) \/ \E place : Goto(p, place)
             \/ \E place, on : call' = [call EXCEPT ![p].at = place, ![p].on = on]
      BY <2>2 DEF ExperimentsStep, InsertExperiment, InsertVariants, SaveExperiment, ListAssignments, ReadExperiment,
                  FindAssignment, InsertAssignment, Tell, At
    <3> QED
      BY <1>0, <1>a, <3>1, KeepsOn
  <2>3. CASE ExperimentsBegin(p)
    BY <1>4, <1>a, <1>b, <2>3 DEF TrialsAct, ExperimentsBegin, AskVariant, CreateExperiment, UpdateExperiment
  <2> QED
    BY <2>1, <2>2, <2>3
<1>5. CASE GuestsAct
  <2>1. PICK p \in Calls : SignupsStep(p) \/ SignupsBegin(p)
    BY <1>5 DEF GuestsAct
  <2>2. CASE SignupsStep(p)
    <3>1. call[p].at # "idle"
      BY <2>2 DEF SignupsStep, DeleteUnverified, InsertGuest, SeedWallet, SendSignupCode, UseSignupCode, LookUp,
                  MarkVerified, OpenSession, FindByEmail, SaveLink, InsertOAuth, LinkAccount, CheckVerified,
                  DeleteLink, WritePassword, At
    <3> DEFINE GoesOn == \/ End(p) \/ \E place : Goto(p, place)
                         \/ \E place, on : call' = [call EXCEPT ![p].at = place, ![p].on = on]
    <3>a. ASSUME DeleteUnverified(p) \/ InsertGuest(p) \/ InsertOAuth(p)
          PROVE  GoesOn
      <4>1. CASE DeleteUnverified(p)
        BY <4>1 DEF DeleteUnverified
      <4>2. ASSUME NEW password, NEW place, Create(p, password, place) PROVE GoesOn
        BY <4>2 DEF Create
      <4> HIDE DEF GoesOn
      <4> QED
        BY <3>a, <4>1, <4>2 DEF InsertGuest, InsertOAuth
    <3>b. ASSUME SeedWallet(p) \/ SendSignupCode(p) \/ UseSignupCode(p) \/ DeleteLink(p) \/ WritePassword(p)
          PROVE  GoesOn
      BY <3>b DEF SeedWallet, SendSignupCode, UseSignupCode, DeleteLink, WritePassword, Change, Finish
    <3>c. ASSUME LookUp(p) \/ MarkVerified(p) \/ OpenSession(p) \/ CheckVerified(p)
          PROVE  GoesOn
      BY <3>c DEF LookUp, MarkVerified, OpenSession, CheckVerified, Change, Finish
    <3>d. ASSUME FindByEmail(p) \/ SaveLink(p) \/ LinkAccount(p)
          PROVE  GoesOn
      BY <3>d DEF FindByEmail, SaveLink, LinkAccount, Change, Finish
    <3>2. GoesOn
      BY <2>2, <3>a, <3>b, <3>c, <3>d DEF SignupsStep
    <3> QED
      BY <1>0, <1>a, <3>1, <3>2, KeepsOn
  <2>3. CASE SignupsBegin(p)
    BY <1>5, <1>a, <1>b, <2>3 DEF GuestsAct, SignupsBegin, SignUp, ResendCode, VerifySignup, ContinueWith, Unlink,
       SetFirstPassword
  <2> QED
    BY <2>1, <2>2, <2>3
<1>6. CASE Ends
  <2>1. PICK p \in Calls : Die(p) \/ FailWork(p)
    BY <1>6 DEF Ends
  <2>2. call[p].at # "idle" /\ (End(p) \/ \E place : Goto(p, place))
    BY <2>1 DEF Die, FailWork, At
  <2> QED
    BY <1>0, <1>a, <2>2, KeepsOn
<1>7. CASE Stays
  BY <1>7 DEF Stays
<1> QED
  BY <1>1, <1>2, <1>3, <1>4, <1>5, <1>6, <1>7, Acts

-------------------------------------------------------------------------------
(* The columns of the row. *)

\* A column that is neither written nor saved as read before is as it was.
LEMMA ColumnStays ==
  ASSUME NEW p \in Calls, NEW columns, Written(columns) \/ Saved(p, columns), NEW c \in Columns \ columns
  PROVE  user'[c] = user[c] \/ c \in mishaps'
  BY DEF Written, Saved

\* What each writer does to the columns, and to the ghosts that go with them.
RowWrite(p) ==
  \/ /\ \/ Written({"names"}) /\ (user.names \/ "names" \in mishaps') /\ user'.names = TRUE
        \/ Written({"active"}) /\ (erased => "active" \in mishaps')
        \/ Written({"deleted"})
        \/ Written({"money"}) /\ user'.money = 0 /\ (user.money = 0 \/ "money" \in mishaps')
        \/ Written({"password"}) /\ (erased => "password" \in mishaps') /\ Goto(p, "revoke")
        \/ ~ At(p, "idle") /\ Saved(p, {})
        \/ ~ At(p, "idle") /\ Saved(p, {"tier"}) /\ SaveReview(p)
     /\ UNCHANGED <<due, erased, wrong, factors>>
  \/ /\ \/ Written({"attempts", "locked"}) /\ user'.attempts = 0 /\ wrong' = 0
        \/ /\ Written({"attempts", "locked"}) /\ user'.attempts = user.attempts + 1 /\ wrong' = wrong + 1
        \/ Written({"attempts", "locked"}) /\ "attempts" \in mishaps'
     /\ UNCHANGED <<due, erased, factors>>
  \/ Written({"money"}) /\ user'.money = user.money + 1 /\ due' = due + 1 /\ UNCHANGED <<erased, wrong, factors>>
  \/ /\ Saved(p, {"email", "names", "password", "active", "secret"})
     /\ user'.email = FALSE /\ user'.names = FALSE /\ user'.password = 0 /\ user'.active = FALSE
     /\ erased' = TRUE /\ Goto(p, "erase.revoke") /\ UNCHANGED <<due, wrong, factors>>
  \/ /\ Written({"secret", "second"}) /\ user'.second = FALSE /\ wanted' = FALSE
     /\ UNCHANGED <<due, erased, wrong, confirmed>>
  \/ /\ Written({"second"}) /\ user'.second = TRUE /\ wanted' = TRUE
     /\ confirmed' = confirmed \cup {Seen(p).secret} /\ (user.secret = Seen(p).secret \/ "secret" \in mishaps')
     /\ Goto(p, "backups.delete") /\ UNCHANGED <<due, erased, wrong>>

Unlocked == Written({"locked"}) /\ UNCHANGED <<due, erased, wrong, factors>>

LEMMA RowWrites ==
  ASSUME TypeOK, [Next]_lifeVars PROVE RowKept \/ Unlocked \/ \E p \in Calls : RowWrite(p)
<1>0. RowsOK /\ CallsOK /\ FactorsOK /\ faults \in Nat
  BY DEF TypeOK, GhostsOK
<1> USE DEF ghosts
<1>1. CASE \E p \in Calls : Rewrites(p)
  <2>1. PICK p \in Calls : Rewrites(p)
    BY <1>1
  <2>2. CASE WriteProfile(p) /\ UNCHANGED factors
    <3>1. (user.names \/ "names" \in mishaps') /\ UNCHANGED <<due, erased, wrong>>
      BY <2>2 DEF WriteProfile
    <3> QED
      BY <1>0, <2>2, <3>1, ProfileEffect DEF RowWrite
  <2>3. CASE SavePreferences(p) /\ UNCHANGED factors
    <3>1. ~ At(p, "idle") /\ UNCHANGED <<due, erased, wrong>>
      BY <2>3 DEF SavePreferences, At
    <3> QED
      BY <1>0, <2>3, <3>1, PreferencesEffect DEF RowWrite
  <2>4. CASE WriteBalances(p) /\ UNCHANGED factors
    <3>1. (user.money = 0 \/ "money" \in mishaps') /\ UNCHANGED <<due, erased, wrong>>
      BY <2>4 DEF WriteBalances
    <3> QED
      BY <1>0, <2>4, <3>1, BalancesEffect DEF RowWrite
  <2>5. CASE SaveReview(p) /\ UNCHANGED factors
    <3>1. ~ At(p, "idle") /\ UNCHANGED <<due, erased, wrong>>
      BY <2>5 DEF SaveReview, At
    <3>2. CASE call[p].on.decision = "APPROVED"
      BY <1>0, <2>5, <3>1, <3>2, ReviewEffect DEF RowWrite
    <3>3. CASE call[p].on.decision # "APPROVED"
      BY <1>0, <2>5, <3>1, <3>3, ReviewEffect DEF RowKept, factors
    <3> QED
      BY <3>2, <3>3
  <2>6. CASE CountWrong(p) /\ UNCHANGED factors
    <3>1. wrong' = wrong + 1 /\ UNCHANGED <<due, erased>>
      BY <2>6 DEF CountWrong
    <3>2. Written({"attempts", "locked"}) /\ user'.attempts = Seen(p).attempts + 1
      BY <1>0, <2>6, WrongEffect
    <3>3. user.attempts = Seen(p).attempts \/ "attempts" \in mishaps'
      BY <2>6 DEF CountWrong
    <3> QED
      BY <2>6, <3>1, <3>2, <3>3 DEF RowWrite
  <2>7. CASE (ClearAttempts(p) \/ ClearFactorAttempts(p)) /\ UNCHANGED factors
    <3>1. wrong' = 0 /\ UNCHANGED <<due, erased>>
      BY <2>7 DEF ClearAttempts, ClearFactorAttempts
    <3> QED
      BY <1>0, <2>7, <3>1, ClearEffect DEF RowWrite
  <2>8. CASE SetPassword(p) /\ UNCHANGED factors
    <3>1. (erased => "password" \in mishaps') /\ Goto(p, "revoke") /\ UNCHANGED <<due, erased, wrong>>
      BY <2>8 DEF SetPassword
    <3> QED
      BY <1>0, <2>8, <3>1, PasswordEffect DEF RowWrite
  <2>9. CASE Anonymise(p) /\ UNCHANGED factors
    <3>1. erased' = TRUE /\ Goto(p, "erase.revoke") /\ UNCHANGED <<due, wrong>>
      BY <2>9 DEF Anonymise
    <3> QED
      BY <1>0, <2>9, <3>1, AnonymiseEffect DEF RowWrite
  <2>10. CASE DeleteProfile(p) /\ UNCHANGED factors
    BY <1>0, <2>10, DeletedEffect DEF DeleteProfile, RowWrite
  <2>11. CASE ChangeBalance(p) /\ UNCHANGED factors
    <3>1. due' = due + 1 /\ UNCHANGED <<erased, wrong>>
      BY <2>11 DEF ChangeBalance
    <3> QED
      BY <1>0, <2>11, <3>1, BalanceEffect DEF RowWrite
  <2>12. ASSUME NEW active \in BOOLEAN, UpdateUserStatus(p, active), UNCHANGED factors
         PROVE  RowWrite(p)
    <3>1. (erased => "active" \in mishaps') /\ UNCHANGED <<due, erased, wrong>>
      BY <2>12 DEF UpdateUserStatus
    <3> QED
      BY <1>0, <2>12, <3>1, StatusEffect DEF RowWrite
  <2>13. CASE WriteSecret(p)
    <3>1. wanted' = FALSE /\ UNCHANGED <<due, erased, wrong, confirmed>>
      BY <2>13 DEF WriteSecret
    <3> QED
      BY <1>0, <2>13, <3>1, SecretEffect DEF RowWrite
  <2>14. CASE WriteDisabled(p)
    <3>1. wanted' = FALSE /\ UNCHANGED <<due, erased, wrong, confirmed>>
      BY <2>14 DEF WriteDisabled
    <3> QED
      BY <1>0, <2>14, <3>1, DisabledEffect DEF RowWrite
  <2>15. CASE WriteEnabled(p)
    <3>1. /\ wanted' = TRUE /\ Goto(p, "backups.delete") /\ UNCHANGED <<due, erased, wrong>>
          /\ confirmed' = confirmed \cup {Seen(p).secret}
          /\ (user.secret = Seen(p).secret \/ "secret" \in mishaps')
      BY <2>15 DEF WriteEnabled
    <3> QED
      BY <1>0, <2>15, <3>1, EnabledEffect DEF RowWrite
  <2> QED
    BY <2>1, <2>2, <2>3, <2>4, <2>5, <2>6, <2>7, <2>8, <2>9, <2>10, <2>11, <2>12, <2>13, <2>14, <2>15 DEF Rewrites
<1>2. CASE Unlock /\ UNCHANGED factors
  <2>1. Written({"locked"}) /\ UNCHANGED <<due, erased, wrong>>
    BY <1>0, <1>2, UnlockEffect DEF Unlock
  <2> QED
    BY <1>2, <2>1 DEF Unlocked
<1> QED
  BY <1>1, <1>2, RowWriters

LEMMA RowIsKeptStep ==
  ASSUME TypeOK, RowIsKept, [Next]_lifeVars PROVE RowIsKept'
<1>0. mishaps \subseteq mishaps' /\ due \in Nat
  BY MishapsStay DEF TypeOK, GhostsOK
<1>1. /\ erased => /\ user.email => "email" \in mishaps
                   /\ user.names => "names" \in mishaps
                   /\ user.active => "active" \in mishaps
                   /\ user.password # 0 => "password" \in mishaps
      /\ user.money # due => "money" \in mishaps
  BY DEF RowIsKept
<1>2. SUFFICES /\ erased' => /\ user'.email => "email" \in mishaps'
                             /\ user'.names => "names" \in mishaps'
                             /\ user'.active => "active" \in mishaps'
                             /\ user'.password # 0 => "password" \in mishaps'
               /\ user'.money # due' => "money" \in mishaps'
  BY DEF RowIsKept
<1>3. CASE RowKept \/ Unlocked
  BY <1>0, <1>1, <1>3, ColumnsAre DEF RowKept, Unlocked, Written
<1>4. ASSUME NEW p \in Calls, RowWrite(p)
      PROVE  /\ erased' => /\ user'.email => "email" \in mishaps'
                           /\ user'.names => "names" \in mishaps'
                           /\ user'.active => "active" \in mishaps'
                           /\ user'.password # 0 => "password" \in mishaps'
             /\ user'.money # due' => "money" \in mishaps'
  BY <1>0, <1>1, <1>4, ColumnsAre DEF RowWrite, Written, Saved
<1> QED
  BY <1>3, <1>4, RowWrites

LEMMA SecondStep ==
  ASSUME TypeOK, SecondInv, [Next]_lifeVars PROVE SecondInv'
<1>0. mishaps \subseteq mishaps'
  BY MishapsStay
<1>1. CASE RowKept \/ Unlocked
  BY <1>0, <1>1, ColumnsAre DEF RowKept, Unlocked, Written, SecondInv, factors
<1>2. ASSUME NEW p \in Calls, RowWrite(p) PROVE SecondInv'
  <2>1. CASE \/ Written({"secret", "second"}) /\ user'.second = FALSE /\ wanted' = FALSE
             \/ Written({"second"}) /\ user'.second = TRUE /\ wanted' = TRUE
    BY <2>1 DEF SecondInv
  <2>2. CASE wanted' = wanted /\ (user'.second = user.second \/ "second" \in mishaps')
    BY <1>0, <2>2 DEF SecondInv
  <2>3. ASSUME NEW columns, Written(columns) \/ Saved(p, columns), "second" \notin columns, UNCHANGED factors
        PROVE  SecondInv'
    BY <2>2, <2>3, ColumnStays, ColumnsAre DEF factors
  <2>4. \A columns : (Written(columns) \/ Saved(p, columns)) /\ UNCHANGED factors => "second" \in columns \/ SecondInv'
    BY <2>3
  <2> QED
    BY <1>2, <2>1, <2>4 DEF RowWrite
<1> QED
  BY <1>1, <1>2, RowWrites

LEMMA AttemptsStep ==
  ASSUME TypeOK, AttemptsInv, [Next]_lifeVars PROVE AttemptsInv'
<1>0. mishaps \subseteq mishaps'
  BY MishapsStay
<1>1. CASE RowKept \/ Unlocked
  BY <1>0, <1>1, ColumnsAre DEF RowKept, Unlocked, Written, AttemptsInv
<1>2. ASSUME NEW p \in Calls, RowWrite(p) PROVE AttemptsInv'
  BY <1>0, <1>2, ColumnsAre DEF RowWrite, Written, Saved, AttemptsInv
<1> QED
  BY <1>1, <1>2, RowWrites

LEMMA SecretStep ==
  ASSUME TypeOK, RoomInv, SecretInv, [Next]_lifeVars PROVE SecretInv'
<1>0. mishaps \subseteq mishaps'
  BY MishapsStay
<1>1. erased => erased'
  BY RowWrites, ColumnsAre DEF RowKept, Unlocked, RowWrite
<1>2. confirmed \subseteq confirmed'
  BY RowWrites DEF RowKept, Unlocked, RowWrite, factors
<1> SUFFICES ASSUME "secret" \notin mishaps', ~ erased'
             PROVE  /\ user'.second => user'.secret \in confirmed'
                    /\ \A q \in Calls : ~ At(q, "idle")' /\ Seen(q)'.second => Seen(q)'.secret \in confirmed'
  BY DEF SecretInv
<1>3. /\ user.second => user.secret \in confirmed
      /\ \A q \in Calls : ~ At(q, "idle") /\ Seen(q).second => Seen(q).secret \in confirmed
  BY <1>0, <1>1 DEF SecretInv
<1>4. user'.second => user'.secret \in confirmed'
  <2>1. CASE RowKept \/ Unlocked
    BY <1>3, <2>1, ColumnsAre DEF RowKept, Unlocked, Written, factors
  <2>2. ASSUME NEW p \in Calls, RowWrite(p) PROVE user'.second => user'.secret \in confirmed'
    <3>1. CASE Saved(p, {}) /\ ~ At(p, "idle") /\ UNCHANGED factors
      <4>1. user'.second = Seen(p).second /\ user'.secret = Seen(p).secret
        BY <3>1, ColumnsAre DEF Saved
      <4> QED
        BY <1>3, <3>1, <4>1 DEF factors
    <3>2. CASE Saved(p, {"tier"}) /\ ~ At(p, "idle") /\ UNCHANGED factors
      <4>1. user'.second = Seen(p).second /\ user'.secret = Seen(p).secret
        BY <3>2, ColumnsAre DEF Saved
      <4> QED
        BY <1>3, <3>2, <4>1 DEF factors
    <3>3. CASE (\E c \in {"names", "active", "deleted", "money", "password"} : Written({c})) /\ UNCHANGED factors
      BY <1>3, <3>3, ColumnsAre DEF Written, factors
    <3>4. CASE Written({"attempts", "locked"}) /\ UNCHANGED factors
      BY <1>3, <3>4, ColumnsAre DEF Written, factors
    <3>5. CASE user'.second = FALSE
      BY <3>5
    <3>6. CASE /\ Written({"second"}) /\ confirmed' = confirmed \cup {Seen(p).secret}
               /\ (user.secret = Seen(p).secret \/ "secret" \in mishaps')
      BY <3>6, ColumnsAre DEF Written
    <3>7. CASE erased' = TRUE
      BY <3>7
    <3> QED
      BY <2>2, <3>1, <3>2, <3>3, <3>4, <3>5, <3>6, <3>7 DEF RowWrite
  <2> QED
    BY <2>1, <2>2, RowWrites
<1>5. ASSUME NEW q \in Calls, ~ At(q, "idle")', Seen(q)'.second PROVE Seen(q)'.secret \in confirmed'
  <2>1. call'[q] = call[q] \/ Keeps(q) \/ ReadsNow(q)
    BY <1>5, CopiesStay DEF At
  <2>2. CASE call'[q] = call[q] \/ Keeps(q)
    BY <1>2, <1>3, <1>5, <2>2 DEF Keeps, At, Seen
  <2>3. CASE ReadsNow(q)
    BY <1>2, <1>3, <1>5, <2>3 DEF ReadsNow, Seen
  <2> QED
    BY <2>1, <2>2, <2>3
<1> QED
  BY <1>4, <1>5

\* Two-factor comes on with codes to follow, or with an old copy of the row.
LEMMA SecondRises ==
  ASSUME TypeOK, [Next]_lifeVars, user'.second
  PROVE  user.second \/ "second" \in mishaps' \/ \E p \in Calls : Replaced(p)'
<1>0. Shape
  BY DEF TypeOK, CallsOK
<1>1. CASE RowKept \/ Unlocked
  BY <1>1, ColumnsAre DEF RowKept, Unlocked, Written
<1>2. ASSUME NEW p \in Calls, RowWrite(p)
      PROVE  user.second \/ "second" \in mishaps' \/ \E q \in Calls : Replaced(q)'
  <2>1. CASE Goto(p, "backups.delete")
    BY <1>0, <2>1, GotoEffect DEF Now, Replaced
  <2>2. CASE user'.second = FALSE
    BY <2>2
  <2>3. \A columns : Written(columns) \/ Saved(p, columns) =>
          "second" \in columns \/ user'.second = user.second \/ "second" \in mishaps'
    BY ColumnStays, ColumnsAre
  <2> QED
    BY <1>2, <2>1, <2>2, <2>3 DEF RowWrite
<1> QED
  BY <1>1, <1>2, RowWrites

-------------------------------------------------------------------------------
(* Backup codes. *)

\* Who changes them, and what is stored then.
LEMMA BackupsChange ==
  ASSUME TypeOK, RoomInv, NEW p \in Calls, FactorStep(p)
  PROVE  \/ /\ DeleteBackups(p) /\ Stored' = {}
            /\ \A s \in Sets : backups'[s] = IF s \in Stored THEN "GONE" ELSE backups[s]
         \/ /\ InsertBackups(p) /\ \E s \in Unmade : /\ Stored' = Stored \cup {s}
                                                     /\ backups' = [backups EXCEPT ![s] = "LIVE"]
         \/ /\ UseBackup(p) /\ Stored' = Stored
         \/ ~ DeleteBackups(p) /\ ~ InsertBackups(p) /\ ~ UseBackup(p) /\ UNCHANGED backups /\ Stored' = Stored
<1>0. backups \in [Sets -> {"NONE", "LIVE", "USED", "GONE"}] /\ CallsOK
  BY DEF TypeOK, FactorsOK
<1>1. CASE DeleteBackups(p)
  <2>1. \A s \in Sets : backups'[s] = IF s \in Stored THEN "GONE" ELSE backups[s]
    BY <1>1 DEF DeleteBackups, Gone
  <2>2. Stored' = {}
    BY <2>1 DEF Stored
  <2> QED
    BY <1>1, <2>1, <2>2
<1>2. CASE InsertBackups(p)
  <2>1. Unmade # {}
    <3>1. p \in Replacing
      BY <1>2 DEF InsertBackups, At, Replacing
    <3>2. Cardinality(Replacing) # 0 /\ Cardinality(Replacing) \in Nat /\ Cardinality(Unmade) \in Nat
      BY <3>1, FiniteSides, FS_EmptySet, FS_CardinalityType
    <3> QED
      BY <3>2, FiniteSides, FS_EmptySet DEF RoomInv
  <2>2. Unmade \subseteq Nat
    BY DEF Unmade, Sets
  <2>3. PICK s \in Unmade : s = Min(Unmade)
    BY <2>1, <2>2, Least
  <2>4. backups' = [backups EXCEPT ![s] = "LIVE"] /\ s \in Sets
    BY <1>2, <2>3 DEF InsertBackups, Unmade
  <2>5. Stored' = Stored \cup {s}
    BY <1>0, <2>4 DEF Stored
  <2> QED
    BY <1>2, <2>4, <2>5
<1>3. CASE UseBackup(p)
  <2>1. PICK s : s = call[p].on.code
    OBVIOUS
  <2>2. backups' = IF s \in Stored THEN [backups EXCEPT ![s] = "USED"] ELSE backups
    BY <1>3, <2>1 DEF UseBackup
  <2>3. Stored' = Stored
    BY <1>0, <2>2 DEF Stored
  <2> QED
    BY <1>3, <2>3
<1>4. CASE ~ DeleteBackups(p) /\ ~ InsertBackups(p) /\ ~ UseBackup(p)
  <2>1. UNCHANGED backups
    BY <1>4 DEF FactorStep, WriteSecret, WriteEnabled, WriteDisabled, SignPartial, CheckTotp, ClearFactorAttempts,
                FindBackup, factors
  <2> QED
    BY <1>4, <2>1 DEF Stored
<1> QED
  BY <1>1, <1>2, <1>3, <1>4

\* Only a deletion leads to new codes.
LEMMA InsertingComes ==
  ASSUME TypeOK, NEW p \in Calls, FactorStep(p) \/ FactorBegin(p), call'[p].at = "backups.insert"
  PROVE  DeleteBackups(p)
<1>0. CallsOK /\ Shape
  BY DEF TypeOK, CallsOK
<1>1. CASE FactorStep(p) /\ ~ DeleteBackups(p)
  <2>1. End(p) \/ \E place \in {"backups.delete", "disable.delete", "token", "factor.clear", "recover.use"} : Goto(p, place)
    BY <1>1 DEF FactorStep, WriteSecret, WriteEnabled, WriteDisabled, InsertBackups, SignPartial, CheckTotp,
                ClearFactorAttempts, FindBackup, UseBackup
  <2> QED
    BY <1>0, <2>1, EndEffect, GotoEffect DEF Now
<1>2. CASE FactorBegin(p)
  <2>1. \E place \in {"setup", "confirm", "disable", "backups.delete", "factor.check", "recover.find"} :
          \E on : Begin(p, place, on)
    BY <1>2 DEF FactorBegin, GenerateSecret, ConfirmTwoFactor, DisableTwoFactor, RegenerateBackupCodes, Ask,
                VerifyTwoFactor, ExchangePartial, Recover, BeginFactor
  <2> QED
    BY <1>0, <2>1, BeginEffect DEF Now
<1> QED
  BY <1>1, <1>2

LEMMA BackupsStep ==
  ASSUME TypeOK, RoomInv, BackupsInv, [Next]_lifeVars PROVE BackupsInv'
<1>0. CallsOK /\ Shape /\ RowsOK /\ FactorsOK /\ mishaps \subseteq mishaps'
  BY MishapsStay DEF TypeOK, CallsOK
<1> SUFFICES ASSUME "backups" \notin mishaps'
             PROVE  /\ \A p, q \in Calls : At(p, "backups.insert")' /\ At(q, "backups.insert")' => p = q
                    /\ (\E p \in Calls : At(p, "backups.insert")') => Stored' = {}
                    /\ \A s, t \in Stored' : s = t
  BY DEF BackupsInv
<1>1. /\ \A p, q \in Calls : At(p, "backups.insert") /\ At(q, "backups.insert") => p = q
      /\ (\E p \in Calls : At(p, "backups.insert")) => Stored = {}
      /\ \A s, t \in Stored : s = t
  BY <1>0 DEF BackupsInv
<1>2. CASE FactorsAct
  <2>1. PICK p \in Calls : FactorStep(p) \/ FactorBegin(p)
    BY <1>2 DEF FactorsAct
  <2>2. Others(p)
    BY <1>0, <2>1, FactorMoves, FactorArrive DEF Moves, GoneTo
  <2>3. CASE DeleteBackups(p)
    <3>1. \A q \in Calls \ {p} : ~ At(q, "backups.insert")
      BY <2>3 DEF DeleteBackups
    <3>2. Stored' = {}
      BY <2>3, BackupsChange DEF FactorStep, DeleteBackups, InsertBackups, UseBackup, At
    <3> QED
      BY <2>2, <3>1, <3>2 DEF Others, At
  <2>4. CASE InsertBackups(p)
    <3>1. At(p, "backups.insert") /\ call'[p].at = "idle"
      BY <1>0, <2>4, EndEffect DEF InsertBackups, Now
    <3>2. \A q \in Calls : ~ At(q, "backups.insert")'
      BY <1>1, <2>2, <3>1 DEF Others, At
    <3>3. \E s : Stored' = Stored \cup {s}
      BY <2>4, BackupsChange DEF FactorStep, DeleteBackups, InsertBackups, UseBackup, At
    <3> QED
      BY <1>1, <3>1, <3>2, <3>3
  <2>5. CASE ~ DeleteBackups(p) /\ ~ InsertBackups(p)
    <3>1. ~ At(p, "backups.insert")'
      BY <2>1, <2>5, InsertingComes DEF At
    <3>2. Stored' = Stored
      <4>1. CASE FactorStep(p)
        BY <2>5, <4>1, BackupsChange
      <4>2. CASE FactorBegin(p)
        BY <4>2 DEF FactorBegin, GenerateSecret, ConfirmTwoFactor, DisableTwoFactor, RegenerateBackupCodes, Ask,
                    VerifyTwoFactor, ExchangePartial, Recover, BeginFactor, factors, Stored
      <4> QED
        BY <2>1, <4>1, <4>2
    <3>3. \A q \in Calls : At(q, "backups.insert")' => At(q, "backups.insert")
      BY <2>2, <3>1 DEF Others, At
    <3> QED
      BY <1>1, <3>2, <3>3
  <2> QED
    BY <2>3, <2>4, <2>5
<1>3. CASE Away(FactorPlaces) /\ UNCHANGED factors
  <2>1. Stored' = Stored
    BY <1>3 DEF Stored, factors
  <2>2. \A q \in Calls : At(q, "backups.insert")' => At(q, "backups.insert")
    BY <1>3 DEF Away, At, FactorPlaces
  <2> QED
    BY <1>1, <2>1, <2>2
<1> QED
  BY <1>2, <1>3, Foreign

LEMMA EmptyStep ==
  ASSUME TypeOK, RoomInv, EmptyInv, [Next]_lifeVars PROVE EmptyInv'
<1>0. /\ CallsOK /\ Shape /\ RowsOK /\ FactorsOK /\ mishaps \subseteq mishaps'
      /\ faults \in Nat /\ (faults' = faults \/ faults' = faults + 1)
  BY MishapsStay DEF TypeOK, CallsOK, GhostsOK
<1> SUFFICES ASSUME user'.second, Stored' = {}, mishaps' \cap {"second", "backups"} = {}, ~ (faults' > 0),
                    ~ \E p \in Calls : Replaced(p)'
             PROVE  FALSE
  BY DEF EmptyInv
<1>1. user.second
  BY SecondRises
<1>2. Stored = {} => \E p \in Calls : Replaced(p)
  BY <1>0, <1>1 DEF EmptyInv
<1>3. ASSUME NEW p \in Calls, DeleteBackups(p) PROVE FALSE
  <2>1. ~ At(p, "disable.delete")
    BY <1>1, <1>3 DEF DeleteBackups
  <2>2. Goto(p, "backups.insert")
    BY <1>3, <2>1 DEF DeleteBackups
  <2> QED
    BY <1>0, <2>2, GotoEffect DEF Now, Replaced
<1>4. CASE FactorsAct
  <2>1. PICK p \in Calls : FactorStep(p) \/ FactorBegin(p)
    BY <1>4 DEF FactorsAct
  <2>2. Others(p)
    BY <1>0, <2>1, FactorMoves, FactorArrive DEF Moves, GoneTo
  <2>3. ~ InsertBackups(p)
    <3>1. InsertBackups(p) => \E s : Stored' = Stored \cup {s}
      BY BackupsChange DEF FactorStep, DeleteBackups, InsertBackups, UseBackup, At
    <3> QED
      BY <3>1
  <2>4. Stored' = Stored
    <3>1. CASE FactorStep(p)
      BY <1>3, <2>3, <3>1, BackupsChange
    <3>2. CASE FactorBegin(p)
      BY <3>2 DEF FactorBegin, GenerateSecret, ConfirmTwoFactor, DisableTwoFactor, RegenerateBackupCodes, Ask,
                  VerifyTwoFactor, ExchangePartial, Recover, BeginFactor, factors, Stored
    <3> QED
      BY <2>1, <3>1, <3>2
  <2>5. PICK q \in Calls : Replaced(q)
    BY <1>2, <2>4
  <2>6. q = p
    BY <2>2, <2>5 DEF Others, Replaced
  <2>7. FactorStep(p)
    <3>1. call[p].at # "idle"
      BY <2>5, <2>6 DEF Replaced
    <3> QED
      BY <1>0, <2>1, <3>1, FactorArrive
  <2>8. DeleteBackups(p) \/ InsertBackups(p)
    BY <2>5, <2>6, <2>7
    DEF Replaced, FactorStep, WriteSecret, WriteEnabled, WriteDisabled, SignPartial, CheckTotp, ClearFactorAttempts,
        FindBackup, UseBackup, At
  <2> QED
    BY <1>3, <2>3, <2>8
<1>5. CASE Away(FactorPlaces) /\ UNCHANGED factors
  <2>1. Stored' = Stored
    BY <1>5 DEF Stored, factors
  <2>2. PICK q \in Calls : Replaced(q)
    BY <1>2, <2>1
  <2> QED
    BY <1>5, <2>2 DEF Away, Replaced, FactorPlaces
<1> QED
  BY <1>4, <1>5, Foreign

LEMMA FactorIsKeptHolds ==
  ASSUME SecondInv, SecretInv, BackupsInv, EmptyInv PROVE FactorIsKept
<1>1. Cardinality(Stored) <= 1 \/ "backups" \in mishaps
  <2> SUFFICES ASSUME "backups" \notin mishaps PROVE Cardinality(Stored) <= 1
    OBVIOUS
  <2>1. \A s, t \in Stored : s = t
    BY DEF BackupsInv
  <2>2. CASE Stored = {}
    BY <2>2, FS_EmptySet
  <2>3. CASE Stored # {}
    <3>1. PICK s \in Stored : TRUE
      BY <2>3
    <3>2. Stored = {s}
      BY <2>1, <3>1
    <3> QED
      BY <3>2, FS_Singleton
  <2> QED
    BY <2>2, <2>3
<1>2. user.second /\ user.secret \notin confirmed => "secret" \in mishaps \/ erased
  BY DEF SecretInv
<1> QED
  BY <1>1, <1>2 DEF FactorIsKept, SecondInv, EmptyInv

-------------------------------------------------------------------------------
(* Codes, and logins with them. *)

\* Who comes to use a code, or to a session.
LEMMA Using ==
  ASSUME TypeOK, RoomInv, [Next]_lifeVars
  PROVE  \/ UNCHANGED beside /\ \E p \in Calls : SessionsStep(p)
         \/ FactorsAct /\ Away({"code.use"})
         \/ Away({"code.use", "token"})
<1>0. CallsOK /\ Shape /\ RowsOK /\ FactorsOK /\ BesideOK /\ faults \in Nat
  BY DEF TypeOK, CallsOK, GhostsOK
<1>1. CASE RowsAct
  <2>1. PICK p \in Calls : UsersStep(p) \/ KycStep(p) \/ SessionsStep(p) \/ DataStep(p)
                            \/ UsersBegin(p) \/ KycBegin(p) \/ SessionsBegin(p) \/ DataBegin(p)
    BY <1>1 DEF RowsAct
  <2>2. CASE UsersStep(p) \/ UsersBegin(p)
    <3>1. Within(UsersPlaces)
      BY <1>0, <2>2, UsersMoves, UsersArrive DEF Within, Moves
    <3> QED
      BY <3>1, WithinAway DEF UsersPlaces
  <2>3. CASE KycStep(p) \/ KycBegin(p)
    <3>1. Within(KycPlaces)
      BY <1>0, <2>3, KycMoves, KycArrive DEF Within, Moves
    <3> QED
      BY <3>1, WithinAway DEF KycPlaces
  <2>4. CASE DataStep(p) \/ DataBegin(p)
    <3>1. Within(ErasePlaces \cup DemandPlaces)
      BY <1>0, <2>4, DataMoves, DataArrive DEF Within, Moves
    <3> QED
      BY <3>1, WithinAway DEF ErasePlaces, DemandPlaces
  <2>5. CASE SessionsBegin(p)
    <3>1. CASE \E place \in {"code.invalidate", "code.find"} : \E on : Begin(p, place, on)
      <4>1. Others(p) /\ call'[p].at \in {"code.invalidate", "code.find"} /\ call[p].at = "idle"
        BY <1>0, <3>1, BeginEffect DEF Now
      <4> QED
        BY <4>1 DEF Others, Away
    <3>2. CASE UNCHANGED call
      BY <3>2 DEF Away
    <3> QED
      BY <2>5, <3>1, <3>2 DEF SessionsBegin, SendCode, UseCode, Logout
  <2> QED
    BY <1>1, <2>1, <2>2, <2>3, <2>4, <2>5 DEF RowsAct
<1>2. CASE FactorsAct
  BY <1>0, <1>2, FactorsWithin, WithinAway DEF FactorPlaces
<1>3. CASE RolesAct
  BY <1>0, <1>3, RolesWithin, WithinAway DEF RolesPlaces, RolePlaces
<1>4. CASE TrialsAct
  BY <1>0, <1>4, TrialsWithin, WithinAway DEF TrialPlaces
<1>5. CASE GuestsAct
  BY <1>0, <1>5, GuestsWithin, WithinAway DEF SignupsPlaces, CreatingPlaces, GuestPlaces, VerifyPlaces, LinkPlaces
<1>6. CASE Ends
  BY <1>0, <1>6, EndsAway
<1>7. CASE Stays
  BY <1>7 DEF Stays, Away
<1> QED
  BY <1>1, <1>2, <1>3, <1>4, <1>5, <1>6, <1>7, Acts

LEMMA CodesStepInv ==
  ASSUME TypeOK, RoomInv, CodesInv, NEW p \in Calls, SessionsStep(p) PROVE CodesInv'
<1>0. CallsOK /\ Shape /\ RowsOK /\ codes \in [Codes -> CodeRows] /\ accepted \in [Codes -> Nat]
  BY DEF TypeOK, CallsOK, RowsOK, GhostsOK
<1>1. Others(p)
  BY <1>0, SessionsMoves DEF Moves, GoneTo
<1>2. mishaps \subseteq mishaps'
  BY DEF SessionsStep, Invalidate, InsertCode, FindCode, CountWrong, MarkUsed, ClearAttempts, IssueToken,
         SetPassword, RevokeTokens, InvalidateAll
<1>3. /\ \A q \in Calls : call[q].at = "code.use" => codes[call[q].on.code].type # "NONE" /\ call[q].on.code \in Codes
      /\ "code" \notin mishaps =>
           \A c \in Codes : accepted[c] > 0 =>
             /\ accepted[c] = 1 /\ codes[c].used /\ codes[c].type # "NONE"
             /\ \A q \in Calls : At(q, "code.use") => call[q].on.code # c
  BY <1>0 DEF CodesInv, CallsOK, Typed
<1>4. ASSUME accepted' = accepted,
             \A c \in Codes : /\ codes[c].type # "NONE" => codes'[c].type # "NONE"
                              /\ accepted[c] > 0 /\ codes[c].used /\ codes[c].type # "NONE" => codes'[c].used,
             call'[p].at = "code.use" =>
               /\ call'[p].on.code \in Codes /\ codes'[call'[p].on.code].type # "NONE"
               /\ ~ codes[call'[p].on.code].used
      PROVE  CodesInv'
  <2>1. \A q \in Calls : call'[q].at = "code.use" => codes'[call'[q].on.code].type # "NONE"
    BY <1>1, <1>3, <1>4 DEF Others
  <2>2. ASSUME "code" \notin mishaps', NEW c \in Codes, accepted'[c] > 0
        PROVE  /\ accepted'[c] = 1 /\ codes'[c].used /\ codes'[c].type # "NONE"
               /\ \A q \in Calls : call'[q].at = "code.use" => call'[q].on.code # c
    BY <1>1, <1>2, <1>3, <1>4, <2>2 DEF Others, At
  <2> QED
    BY <2>1, <2>2 DEF CodesInv, At
<1>5. ASSUME UNCHANGED <<codes, accepted>>, End(p) \/ \E place : Goto(p, place) /\ place # "code.use" PROVE CodesInv'
  <2>1. call'[p].at # "code.use"
    <3>1. CASE End(p)
      BY <1>0, <3>1, EndEffect DEF Now
    <3>2. CASE \E place : Goto(p, place) /\ place # "code.use"
      BY <1>0, <3>2, GotoEffect DEF Now
    <3> QED
      BY <1>5, <3>1, <3>2
  <2> QED
    BY <1>4, <1>5, <2>1
<1>6. CASE CountWrong(p) \/ ClearAttempts(p) \/ IssueToken(p) \/ SetPassword(p) \/ RevokeTokens(p)
  BY <1>5, <1>6 DEF CountWrong, ClearAttempts, IssueToken, SetPassword, RevokeTokens, tables, ghosts
<1>7. CASE Invalidate(p) \/ InvalidateAll(p)
  <2>1. call'[p].at # "code.use"
    BY <1>0, <1>7, EndEffect, GotoEffect DEF Invalidate, InvalidateAll, Now
  <2>2. \A c \in Codes : codes'[c] \in {codes[c], [codes[c] EXCEPT !.used = TRUE]}
    BY <1>7 DEF Invalidate, InvalidateAll
  <2>3. \A c \in Codes : [codes[c] EXCEPT !.used = TRUE].type = codes[c].type /\ [codes[c] EXCEPT !.used = TRUE].used
    BY <1>0 DEF CodeRows
  <2>4. accepted' = accepted
    BY <1>7 DEF Invalidate, InvalidateAll, ghosts
  <2> QED
    BY <1>4, <2>1, <2>2, <2>3, <2>4
<1>8. CASE InsertCode(p)
  <2>1. PICK c \in NextCodes : c = Min(NextCodes)
    <3>1. p \in Issuing
      BY <1>8 DEF InsertCode, At, Issuing
    <3>2. Cardinality(Issuing) # 0 /\ Cardinality(Issuing) \in Nat /\ Cardinality(NextCodes) \in Nat
      BY <3>1, FiniteSides, FS_EmptySet, FS_CardinalityType
    <3>3. NextCodes # {}
      BY <3>2, FiniteSides, FS_EmptySet DEF RoomInv
    <3> QED
      BY <3>3, Least DEF NextCodes, Codes
  <2>2. c \in Codes /\ codes[c].type = "NONE"
    BY <2>1 DEF NextCodes, NoCode
  <2>3. call'[p].at # "code.use"
    BY <1>0, <1>8, EndEffect DEF InsertCode, Now
  <2>4. \A d \in Codes \ {c} : codes'[d] = codes[d]
    BY <1>0, <1>8, <2>1, <2>2 DEF InsertCode
  <2>5. accepted' = accepted
    BY <1>8 DEF InsertCode, ghosts
  <2> QED
    BY <1>4, <2>2, <2>3, <2>4, <2>5
<1>9. CASE FindCode(p)
  <2>1. UNCHANGED <<codes, accepted>>
    BY <1>9 DEF FindCode, tables, ghosts
  <2>2. CASE End(p) \/ Goto(p, "code.wrong")
    BY <1>5, <2>1, <2>2
  <2>3. CASE Goto(p, "code.use") /\ Live(call[p].on.type) # {} /\ Max(Live(call[p].on.type)) = call[p].on.code
    <3>1. call'[p].at = "code.use" /\ call'[p].on = call[p].on
      BY <1>0, <2>3, GotoEffect DEF Now
    <3>2. Live(call[p].on.type) \subseteq 1 .. MaxCodes /\ MaxCodes \in Nat
      BY AccountsAssumption DEF Live, Codes
    <3>3. call[p].on.code \in Live(call[p].on.type)
      BY <2>3, <3>2, Greatest
    <3>4. call[p].on.type \in CodeTypes
      BY <1>0, <1>9 DEF FindCode, At, CallsOK, Typed, CodePlaces
    <3> QED
      BY <1>4, <2>1, <3>1, <3>3, <3>4 DEF Live, CodeTypes
  <2> QED
    BY <1>9, <2>2, <2>3 DEF FindCode
<1>10. CASE MarkUsed(p)
  <2>1. PICK c : c = call[p].on.code
    OBVIOUS
  <2>2. c \in Codes /\ codes[c].type # "NONE" /\ At(p, "code.use")
    BY <1>3, <1>10, <2>1 DEF MarkUsed, At
  <2>3. call'[p].at = "clear"
    BY <1>0, <1>10, GotoEffect DEF MarkUsed, Now
  <2>4. codes' = [codes EXCEPT ![c].used = TRUE] /\ accepted' = [accepted EXCEPT ![c] = @ + 1]
    BY <1>10, <2>1 DEF MarkUsed
  <2>5. /\ codes'[c].type = codes[c].type /\ codes'[c].used
        /\ \A d \in Codes \ {c} : codes'[d] = codes[d] /\ accepted'[d] = accepted[d]
        /\ accepted'[c] = accepted[c] + 1
    BY <1>0, <2>2, <2>4 DEF CodeRows
  <2>6. \A q \in Calls : call'[q].at = "code.use" => q # p /\ call'[q] = call[q]
    BY <1>1, <2>3 DEF Others
  <2>7. \A q \in Calls : call'[q].at = "code.use" => codes'[call'[q].on.code].type # "NONE"
    BY <1>3, <2>5, <2>6
  <2>8. ASSUME "code" \notin mishaps', NEW d \in Codes, accepted'[d] > 0
        PROVE  /\ accepted'[d] = 1 /\ codes'[d].used /\ codes'[d].type # "NONE"
               /\ \A q \in Calls : call'[q].at = "code.use" => call'[q].on.code # d
    <3>1. ~ Overlaps(p, "code.use")
      BY <1>10, <2>8 DEF MarkUsed
    <3>2. CASE d = c
      <4>1. ~ (accepted[c] > 0)
        BY <1>2, <1>3, <2>1, <2>2, <2>8
      <4>2. accepted[c] = 0
        BY <1>0, <2>2, <4>1
      <4> QED
        BY <2>1, <2>2, <2>5, <2>6, <3>1, <3>2, <4>2 DEF Overlaps, At
    <3>3. CASE d # c
      BY <1>2, <1>3, <2>5, <2>6, <2>8, <3>3 DEF At
    <3> QED
      BY <3>2, <3>3
  <2> QED
    BY <2>7, <2>8 DEF CodesInv, At
<1> QED
  BY <1>6, <1>7, <1>8, <1>9, <1>10 DEF SessionsStep

LEMMA CodesStep ==
  ASSUME TypeOK, RoomInv, CodesInv, [Next]_lifeVars PROVE CodesInv'
<1>0. mishaps \subseteq mishaps'
  BY MishapsStay
<1>1. CASE \E p \in Calls : SessionsStep(p)
  BY <1>1, CodesStepInv
<1>2. CASE ~ \E p \in Calls : SessionsStep(p)
  <2>1. UNCHANGED <<codes, accepted>>
    BY <1>2, TableWriters
    DEF TablesKept, TableWrites, SessionsStep, InsertApplication, SaveResubmission, SaveReview, RevokeErased, Logout, ghosts
  <2>2. Away({"code.use"})
    BY <1>2, Using DEF Away
  <2>3. \A q \in Calls : call'[q].at = "code.use" => call'[q] = call[q]
    BY <2>2 DEF Away
  <2> QED
    BY <1>0, <2>1, <2>3 DEF CodesInv, At
<1> QED
  BY <1>1, <1>2

LEMMA RecoveredStep ==
  ASSUME TypeOK, RoomInv, RecoveredInv, [Next]_lifeVars PROVE RecoveredInv'
<1>0. /\ CallsOK /\ Shape /\ RowsOK /\ FactorsOK /\ mishaps \subseteq mishaps'
      /\ backups \in [Sets -> {"NONE", "LIVE", "USED", "GONE"}] /\ recovered \in [Sets -> Nat]
  BY MishapsStay DEF TypeOK, CallsOK, FactorsOK
<1>1. /\ \A q \in Calls : call[q].at = "recover.use" => backups[call[q].on.code] # "NONE" /\ call[q].on.code \in Sets
      /\ "code" \notin mishaps =>
           \A s \in Sets : recovered[s] > 0 =>
             /\ recovered[s] = 1 /\ backups[s] \in {"USED", "GONE"}
             /\ \A q \in Calls : At(q, "recover.use") => call[q].on.code # s
  BY <1>0 DEF RecoveredInv, CallsOK, Typed
<1>2. ASSUME NEW p \in Calls, Others(p), recovered' = recovered,
             \A s \in Sets : /\ backups[s] # "NONE" => backups'[s] # "NONE"
                             /\ recovered[s] > 0 /\ backups[s] \in {"USED", "GONE"} => backups'[s] \in {"USED", "GONE"},
             call'[p].at = "recover.use" =>
               call'[p].on.code \in Sets /\ backups'[call'[p].on.code] # "NONE" /\ backups[call'[p].on.code] = "LIVE"
      PROVE  RecoveredInv'
  <2>1. \A q \in Calls : call'[q].at = "recover.use" => backups'[call'[q].on.code] # "NONE"
    BY <1>1, <1>2 DEF Others
  <2>2. ASSUME "code" \notin mishaps', NEW s \in Sets, recovered'[s] > 0
        PROVE  /\ recovered'[s] = 1 /\ backups'[s] \in {"USED", "GONE"}
               /\ \A q \in Calls : call'[q].at = "recover.use" => call'[q].on.code # s
    BY <1>0, <1>1, <1>2, <2>2 DEF Others, At
  <2> QED
    BY <2>1, <2>2 DEF RecoveredInv, At
<1>3. CASE FactorsAct
  <2>1. PICK p \in Calls : FactorStep(p) \/ FactorBegin(p)
    BY <1>3 DEF FactorsAct
  <2>2. Others(p)
    BY <1>0, <2>1, FactorMoves, FactorArrive DEF Moves, GoneTo
  <2>3. CASE FactorBegin(p)
    <3>1. UNCHANGED factors
      BY <2>3 DEF FactorBegin, GenerateSecret, ConfirmTwoFactor, DisableTwoFactor, RegenerateBackupCodes, Ask,
                  VerifyTwoFactor, ExchangePartial, Recover, BeginFactor
    <3>2. \E place \in {"setup", "confirm", "disable", "backups.delete", "factor.check", "recover.find"} :
            \E on : Begin(p, place, on)
      BY <2>3 DEF FactorBegin, GenerateSecret, ConfirmTwoFactor, DisableTwoFactor, RegenerateBackupCodes, Ask,
                  VerifyTwoFactor, ExchangePartial, Recover, BeginFactor
    <3>3. call'[p].at # "recover.use"
      BY <1>0, <3>2, BeginEffect DEF Now
    <3> QED
      BY <1>2, <2>2, <3>1, <3>3 DEF factors
  <2>4. CASE DeleteBackups(p)
    <3>1. \A s \in Sets : backups'[s] = IF s \in Stored THEN "GONE" ELSE backups[s]
      BY <2>4 DEF DeleteBackups, Gone
    <3>2. recovered' = recovered /\ call'[p].at # "recover.use"
      BY <1>0, <2>4, EndEffect, GotoEffect DEF DeleteBackups, Now
    <3> QED
      BY <1>2, <2>2, <3>1, <3>2 DEF Stored
  <2>5. CASE InsertBackups(p)
    <3>1. PICK s \in Unmade : backups' = [backups EXCEPT ![s] = "LIVE"]
      BY <2>5, BackupsChange DEF FactorStep, DeleteBackups, InsertBackups, UseBackup, At
    <3>2. recovered' = recovered /\ call'[p].at # "recover.use"
      BY <1>0, <2>5, EndEffect DEF InsertBackups, Now
    <3>3. backups[s] = "NONE" /\ s \in Sets /\ \A r \in Sets \ {s} : backups'[r] = backups[r]
      BY <1>0, <3>1 DEF Unmade
    <3>4. \A r \in Sets : /\ backups[r] # "NONE" => backups'[r] # "NONE"
                          /\ backups[r] \in {"USED", "GONE"} => backups'[r] \in {"USED", "GONE"}
      BY <3>3
    <3> QED
      BY <1>2, <2>2, <3>2, <3>4
  <2>6. CASE FindBackup(p)
    <3>1. UNCHANGED <<backups, recovered>>
      BY <2>6 DEF FindBackup, factors
    <3>2. CASE End(p)
      <4>1. call'[p].at # "recover.use"
        BY <1>0, <3>2, EndEffect DEF Now
      <4> QED
        BY <1>2, <2>2, <3>1, <4>1
    <3>3. CASE Goto(p, "recover.use") /\ backups[call[p].on.code] = "LIVE"
      <4>1. call'[p].on = call[p].on /\ call[p].on.code \in Sets
        BY <1>0, <2>6, <3>3, GotoEffect DEF Now, FindBackup, At, CallsOK, Typed
      <4> QED
        BY <1>2, <2>2, <3>1, <3>3, <4>1
    <3> QED
      BY <2>6, <3>2, <3>3 DEF FindBackup
  <2>7. CASE UseBackup(p)
    <3>1. PICK s : s = call[p].on.code
      OBVIOUS
    <3>2. s \in Sets /\ backups[s] # "NONE" /\ At(p, "recover.use")
      BY <1>1, <2>7, <3>1 DEF UseBackup, At
    <3>3. call'[p].at = "token"
      BY <1>0, <2>7, GotoEffect DEF UseBackup, Now
    <3>4. /\ backups' = IF s \in Stored THEN [backups EXCEPT ![s] = "USED"] ELSE backups
          /\ recovered' = [recovered EXCEPT ![s] = @ + 1]
      BY <2>7, <3>1 DEF UseBackup
    <3>5. /\ backups'[s] \in {"USED", "GONE"} /\ recovered'[s] = recovered[s] + 1
          /\ \A r \in Sets \ {s} : backups'[r] = backups[r] /\ recovered'[r] = recovered[r]
      BY <1>0, <3>2, <3>4 DEF Stored
    <3>6. \A q \in Calls : call'[q].at = "recover.use" => q # p /\ call'[q] = call[q]
      BY <2>2, <3>3 DEF Others
    <3>7. \A q \in Calls : call'[q].at = "recover.use" => backups'[call'[q].on.code] # "NONE"
      BY <1>1, <3>5, <3>6
    <3>8. ASSUME "code" \notin mishaps', NEW r \in Sets, recovered'[r] > 0
          PROVE  /\ recovered'[r] = 1 /\ backups'[r] \in {"USED", "GONE"}
                 /\ \A q \in Calls : call'[q].at = "recover.use" => call'[q].on.code # r
      <4>1. ~ Overlaps(p, "recover.use")
        BY <2>7, <3>8 DEF UseBackup
      <4>2. CASE r = s
        <5>1. ~ (recovered[s] > 0)
          BY <1>0, <1>1, <3>1, <3>2, <3>8
        <5>2. recovered[s] = 0
          BY <1>0, <3>2, <5>1
        <5> QED
          BY <3>1, <3>5, <3>6, <4>1, <4>2, <5>2 DEF Overlaps, At
      <4>3. CASE r # s
        BY <1>0, <1>1, <3>5, <3>6, <3>8, <4>3 DEF At
      <4> QED
        BY <4>2, <4>3
    <3> QED
      BY <3>7, <3>8 DEF RecoveredInv, At
  <2>8. CASE WriteSecret(p) \/ WriteEnabled(p) \/ WriteDisabled(p) \/ SignPartial(p) \/ CheckTotp(p) \/ ClearFactorAttempts(p)
    <3>1. UNCHANGED <<backups, recovered>>
      BY <2>8 DEF WriteSecret, WriteEnabled, WriteDisabled, SignPartial, CheckTotp, ClearFactorAttempts, factors
    <3>2. End(p) \/ \E place \in {"backups.delete", "disable.delete", "factor.clear", "token"} : Goto(p, place)
      BY <2>8 DEF WriteSecret, WriteEnabled, WriteDisabled, SignPartial, CheckTotp, ClearFactorAttempts
    <3>3. call'[p].at # "recover.use"
      BY <1>0, <3>2, EndEffect, GotoEffect DEF Now
    <3> QED
      BY <1>2, <2>2, <3>1, <3>3
  <2> QED
    BY <2>1, <2>3, <2>4, <2>5, <2>6, <2>7, <2>8 DEF FactorStep
<1>4. CASE Away(FactorPlaces) /\ UNCHANGED factors
  <2>1. \A q \in Calls : call'[q].at = "recover.use" => call'[q] = call[q]
    BY <1>4 DEF Away, FactorPlaces
  <2>2. UNCHANGED <<backups, recovered>>
    BY <1>4 DEF factors
  <2> QED
    BY <1>0, <2>1, <2>2 DEF RecoveredInv, At
<1> QED
  BY <1>3, <1>4, Foreign

\* A login skips the second factor only when the user, as read, had none.
LEMMA LoginStep ==
  ASSUME TypeOK, RoomInv, LoginInv, [Next]_lifeVars PROVE LoginInv'
<1>0. CallsOK /\ Shape /\ RowsOK /\ FactorsOK
  BY DEF TypeOK, CallsOK
<1>1. CASE UNCHANGED beside /\ \E p \in Calls : SessionsStep(p)
  <2>1. PICK p \in Calls : SessionsStep(p)
    BY <1>1
  <2>2. Others(p)
    BY <1>0, <2>1, SessionsMoves DEF Moves, GoneTo
  <2>3. call'[p].at = "token" /\ call'[p].on.type = "LOGIN" => ~ call'[p].seen.second
    <3>1. CASE ClearAttempts(p)
      BY <1>0, <3>1, GotoEffect DEF ClearAttempts, Now, Seen
    <3>2. CASE ~ ClearAttempts(p)
      <4>1. End(p) \/ \E place \in {"code.insert", "code.use", "code.wrong", "clear", "revoke", "codes"} : Goto(p, place)
        BY <2>1, <3>2 DEF SessionsStep, Invalidate, InsertCode, FindCode, CountWrong, MarkUsed, IssueToken,
                          SetPassword, RevokeTokens, InvalidateAll
      <4> QED
        BY <1>0, <4>1, EndEffect, GotoEffect DEF Now
    <3> QED
      BY <3>1, <3>2
  <2> QED
    BY <2>2, <2>3 DEF LoginInv, Others, At, Seen
<1>2. CASE FactorsAct
  <2>1. PICK p \in Calls : FactorStep(p) \/ FactorBegin(p)
    BY <1>2 DEF FactorsAct
  <2>2. Others(p)
    BY <1>0, <2>1, FactorMoves, FactorArrive DEF Moves, GoneTo
  <2>3. call'[p].at = "token" => call'[p].on.type = "FACTOR"
    <3>1. CASE CheckTotp(p) \/ ClearFactorAttempts(p) \/ UseBackup(p)
      <4>1. call[p].on.type = "FACTOR"
        BY <1>0, <3>1 DEF CheckTotp, ClearFactorAttempts, UseBackup, At, CallsOK, Typed
      <4> QED
        BY <1>0, <3>1, <4>1, EndEffect, GotoEffect DEF CheckTotp, ClearFactorAttempts, UseBackup, Now
    <3>2. CASE FactorStep(p) /\ ~ (CheckTotp(p) \/ ClearFactorAttempts(p) \/ UseBackup(p))
      <4>1. End(p) \/ \E place \in {"backups.delete", "backups.insert", "disable.delete", "recover.use"} : Goto(p, place)
        BY <3>2 DEF FactorStep, WriteSecret, WriteEnabled, WriteDisabled, DeleteBackups, InsertBackups, SignPartial,
                    FindBackup
      <4> QED
        BY <1>0, <4>1, EndEffect, GotoEffect DEF Now
    <3>3. CASE FactorBegin(p)
      <4>1. \E place \in {"setup", "confirm", "disable", "backups.delete", "factor.check", "recover.find"} :
              \E on : Begin(p, place, on)
        BY <3>3 DEF FactorBegin, GenerateSecret, ConfirmTwoFactor, DisableTwoFactor, RegenerateBackupCodes, Ask,
                    VerifyTwoFactor, ExchangePartial, Recover, BeginFactor
      <4> QED
        BY <1>0, <4>1, BeginEffect DEF Now
    <3> QED
      BY <2>1, <3>1, <3>2, <3>3
  <2> QED
    BY <2>2, <2>3 DEF LoginInv, Others, At, Seen
<1>3. CASE Away({"code.use", "token"})
  BY <1>3 DEF Away, LoginInv, At, Seen
<1> QED
  BY <1>1, <1>2, <1>3, Using

\* The step a login ends with.
LEMMA TokenStep ==
  ASSUME TypeOK, [Next]_lifeVars, NEW p \in Calls, call[p].at = "token", tokens' # tokens, call'[p] = Idle
  PROVE  IssueToken(p)
<1>0. CallsOK /\ Shape
  BY DEF TypeOK, CallsOK
<1>1. PICK q \in Calls : TableWrites(q)
  BY TableWriters DEF TablesKept
<1>2. IssueToken(q) \/ RevokeTokens(q) \/ RevokeErased(q) \/ UNCHANGED call
  BY <1>1 DEF TableWrites, InsertApplication, SaveResubmission, SaveReview, Invalidate, InsertCode, MarkUsed,
              InvalidateAll, Logout
<1>3. call'[p].at = "idle"
  BY DEF Idle
<1>4. Others(q)
  BY <1>0, <1>2, <1>3, EndEffect, GotoEffect DEF IssueToken, RevokeTokens, RevokeErased
<1>5. q = p
  BY <1>3, <1>4 DEF Others
<1> QED
  BY <1>2, <1>3, <1>5 DEF RevokeTokens, RevokeErased, At

\* The wrong code that reaches the limit.
LEMMA WrongStep ==
  ASSUME TypeOK, AttemptsInv, [Next]_lifeVars, wrong' > wrong, wrong' >= MAX_FAILED_ATTEMPTS
  PROVE  user'.locked \/ "attempts" \in mishaps'
<1>0. RowsOK /\ CallsOK /\ wrong \in Nat /\ mishaps \subseteq mishaps'
  BY MishapsStay DEF TypeOK, GhostsOK
<1>1. ASSUME NEW p \in Calls, Rewrites(p) PROVE user'.locked \/ "attempts" \in mishaps'
  <2>1. CASE CountWrong(p)
    <3>1. wrong' = wrong + 1 /\ (user.attempts = Seen(p).attempts \/ "attempts" \in mishaps')
      BY <2>1 DEF CountWrong
    <3>2. Seen(p).attempts + 1 >= MAX_FAILED_ATTEMPTS => user'.locked = TRUE
      BY <1>0, <2>1, WrongEffect
    <3> QED
      BY <1>0, <3>1, <3>2 DEF AttemptsInv
  <2>2. CASE wrong' = 0 \/ wrong' = wrong
    BY <1>0, <2>2
  <2> QED
    BY <1>1, <2>1, <2>2 DEF Rewrites, WriteProfile, SavePreferences, WriteBalances, SaveReview, ClearAttempts, SetPassword,
       Anonymise, ClearFactorAttempts, DeleteProfile, ChangeBalance, UpdateUserStatus, WriteSecret, WriteEnabled,
       WriteDisabled, ghosts
<1>2. CASE RowKept \/ Unlock
  BY <1>0, <1>2 DEF RowKept, Unlock, ghosts
<1> QED
  BY <1>1, <1>2, RowWriters

\* What LoginsAreChecked says of a step.
CheckedStep ==
  /\ \A c \in Codes : accepted'[c] > 1 => "code" \in mishaps'
  /\ wrong' > wrong /\ wrong' >= MAX_FAILED_ATTEMPTS => user'.locked \/ "attempts" \in mishaps'
  /\ \A s \in Sets : recovered'[s] > 1 => "code" \in mishaps'
  /\ \A p \in Calls : call[p].at = "token" /\ call[p].on.type = "LOGIN" /\ tokens' # tokens /\ call'[p] = Idle =>
       ~ wanted \/ "second" \in mishaps'

LEMMA LoginsStep ==
  ASSUME TypeOK, TypeOK', AttemptsInv, SecondInv, LoginInv, CodesInv', RecoveredInv', [Next]_lifeVars PROVE CheckedStep
<1>1. \A c \in Codes : accepted'[c] > 1 => "code" \in mishaps'
  <2>1. \A c \in Codes : accepted'[c] \in Nat
    BY DEF TypeOK, GhostsOK
  <2> QED
    BY <2>1 DEF CodesInv
<1>2. wrong' > wrong /\ wrong' >= MAX_FAILED_ATTEMPTS => user'.locked \/ "attempts" \in mishaps'
  BY WrongStep
<1>3. \A s \in Sets : recovered'[s] > 1 => "code" \in mishaps'
  <2>1. \A s \in Sets : recovered'[s] \in Nat
    BY DEF TypeOK, FactorsOK
  <2> QED
    BY <2>1 DEF RecoveredInv
<1>4. ASSUME NEW p \in Calls, call[p].at = "token", call[p].on.type = "LOGIN", tokens' # tokens, call'[p] = Idle
      PROVE  ~ wanted \/ "second" \in mishaps'
  <2>1. IssueToken(p)
    BY <1>4, TokenStep
  <2>2. ~ Seen(p).second
    BY <1>4 DEF LoginInv, At
  <2>3. user.second # Seen(p).second => "second" \in mishaps'
    BY <1>4, <2>1 DEF IssueToken
  <2>4. mishaps \subseteq mishaps'
    BY MishapsStay
  <2>5. user.second \in BOOLEAN /\ wanted \in BOOLEAN /\ Seen(p).second \in BOOLEAN
    BY DEF TypeOK, RowsOK, CallsOK, FactorsOK, UserRows, Seen
  <2> QED
    BY <2>2, <2>3, <2>4, <2>5 DEF SecondInv
<1> QED
  BY <1>1, <1>2, <1>3, <1>4 DEF CheckedStep

-------------------------------------------------------------------------------
(* Sessions and passwords. *)

\* Who revokes goes on to do so, or is cut off.
LEMMA RevokeStays ==
  ASSUME TypeOK, RoomInv, [Next]_lifeVars, NEW p \in Calls, call[p].at \in {"revoke", "erase.revoke"}
  PROVE  \/ call'[p] = call[p] \/ RevokeTokens(p) \/ RevokeErased(p) \/ "kept" \in mishaps'
<1>0. CallsOK /\ Shape /\ RowsOK /\ FactorsOK /\ BesideOK
  BY DEF TypeOK, CallsOK
<1>a. ASSUME NEW q \in Calls, Others(q), q # p PROVE call'[p] = call[p]
  BY <1>a DEF Others
<1>1. CASE RowsAct
  <2>1. PICK q \in Calls : UsersStep(q) \/ KycStep(q) \/ SessionsStep(q) \/ DataStep(q)
                            \/ UsersBegin(q) \/ KycBegin(q) \/ SessionsBegin(q) \/ DataBegin(q)
    BY <1>1 DEF RowsAct
  <2>2. CASE UsersStep(q) \/ UsersBegin(q)
    <3>1. Others(q) /\ call[q].at \in UsersPlaces \cup {"idle"}
      BY <1>0, <2>2, UsersMoves, UsersArrive DEF Moves, GoneTo
    <3> QED
      BY <1>a, <3>1 DEF UsersPlaces
  <2>3. CASE KycStep(q) \/ KycBegin(q)
    <3>1. Others(q) /\ call[q].at \in KycPlaces \cup {"idle"}
      BY <1>0, <2>3, KycMoves, KycArrive DEF Moves, GoneTo
    <3> QED
      BY <1>a, <3>1 DEF KycPlaces
  <2>4. CASE SessionsStep(q)
    <3>1. Others(q)
      BY <1>0, <2>4, SessionsMoves DEF Moves, GoneTo
    <3>2. q = p => RevokeTokens(p)
      BY <2>4 DEF SessionsStep, Invalidate, InsertCode, FindCode, CountWrong, MarkUsed, ClearAttempts, IssueToken,
                  SetPassword, InvalidateAll, At
    <3> QED
      BY <1>a, <3>1, <3>2
  <2>5. CASE DataStep(q)
    <3>1. Others(q)
      BY <1>0, <2>5, DataMoves DEF Moves, GoneTo
    <3>2. q = p => RevokeErased(p)
      BY <2>5 DEF DataStep, Anonymise, CheckDemands, InsertDemand, Process, Export, NotifyExported, RollBackDeletion,
                  SaveFailure, At
    <3> QED
      BY <1>a, <3>1, <3>2
  <2>6. CASE SessionsBegin(q) \/ DataBegin(q)
    <3>1. Others(q) /\ call[q].at = "idle"
      BY <1>0, <2>6, SessionsArrive, DataArrive DEF GoneTo
    <3> QED
      BY <1>a, <3>1
  <2> QED
    BY <2>1, <2>2, <2>3, <2>4, <2>5, <2>6
<1>2. ASSUME NEW places, Within(places), places \cap {"revoke", "erase.revoke"} = {} PROVE call'[p] = call[p]
  BY <1>2, <1>a DEF Within, GoneTo
<1>3. CASE FactorsAct
  BY <1>0, <1>2, <1>3, FactorsWithin DEF FactorPlaces
<1>4. CASE RolesAct
  BY <1>0, <1>2, <1>4, RolesWithin DEF RolesPlaces, RolePlaces
<1>5. CASE TrialsAct
  BY <1>0, <1>2, <1>5, TrialsWithin DEF TrialPlaces
<1>6. CASE GuestsAct
  BY <1>0, <1>2, <1>6, GuestsWithin DEF SignupsPlaces, CreatingPlaces, GuestPlaces, VerifyPlaces, LinkPlaces
<1>7. CASE Ends
  <2>1. PICK q \in Calls : Die(q) \/ FailWork(q)
    BY <1>7 DEF Ends
  <2>2. Others(q)
    BY <1>0, <2>1, EndEffect, GotoEffect DEF Die, FailWork
  <2>3. q = p => "kept" \in mishaps'
    BY <2>1 DEF Die, FailWork
  <2> QED
    BY <1>a, <2>2, <2>3
<1>8. CASE Stays
  BY <1>8 DEF Stays
<1> QED
  BY <1>1, <1>3, <1>4, <1>5, <1>6, <1>7, <1>8, Acts

\* A new password comes with a request that goes on to revoke.
LEMMA PasswordStays ==
  ASSUME TypeOK, [Next]_lifeVars
  PROVE  \/ user'.password = user.password \/ "password" \in mishaps'
         \/ \E p \in Calls : call'[p].at \in {"revoke", "erase.revoke"}
<1>0. Shape
  BY DEF TypeOK, CallsOK
<1>1. CASE RowKept \/ Unlocked
  BY <1>1, ColumnsAre DEF RowKept, Unlocked, Written
<1>2. ASSUME NEW p \in Calls, RowWrite(p)
      PROVE  \/ user'.password = user.password \/ "password" \in mishaps'
             \/ \E q \in Calls : call'[q].at \in {"revoke", "erase.revoke"}
  <2>1. CASE Goto(p, "revoke") \/ Goto(p, "erase.revoke")
    BY <1>0, <2>1, GotoEffect DEF Now
  <2>2. \A columns : Written(columns) \/ Saved(p, columns) =>
          "password" \in columns \/ user'.password = user.password \/ "password" \in mishaps'
    BY ColumnStays, ColumnsAre
  <2> QED
    BY <1>2, <2>1, <2>2 DEF RowWrite
<1> QED
  BY <1>1, <1>2, RowWrites

LEMMA SessionsEndStep ==
  ASSUME TypeOK, RoomInv, SessionsEndWithPassword, [Next]_lifeVars PROVE SessionsEndWithPassword'
<1>0. mishaps \subseteq mishaps' /\ tokens \in [Tokens -> Nat]
  BY MishapsStay DEF TypeOK, RowsOK
<1> SUFFICES ASSUME mishaps' \cap {"session", "kept", "password"} = {},
                    ~ \E p \in Calls : call'[p].at \in {"revoke", "erase.revoke"}
             PROVE  \A t \in Tokens : tokens'[t] \in {0, user'.password}
  BY DEF SessionsEndWithPassword
<1>1. user'.password = user.password
  BY PasswordStays
<1>2. CASE \E p \in Calls : call[p].at \in {"revoke", "erase.revoke"}
  <2>1. PICK p \in Calls : call[p].at \in {"revoke", "erase.revoke"}
    BY <1>2
  <2>2. RevokeTokens(p) \/ RevokeErased(p)
    BY <2>1, RevokeStays
  <2>3. \A t \in Tokens : tokens'[t] = 0
    BY <2>2 DEF RevokeTokens, RevokeErased
  <2> QED
    BY <2>3
<1>3. CASE \A t \in Tokens : tokens[t] \in {0, user.password}
  <2>1. ASSUME NEW p \in Calls, TableWrites(p), NEW t \in Tokens PROVE tokens'[t] \in {0, user.password}
    <3>1. CASE IssueToken(p)
      <4>1. PICK begun : /\ tokens' = [tokens EXCEPT ![CHOOSE t1 \in FreeTokens : TRUE] = begun]
                         /\ user.password # begun => "session" \in mishaps'
        BY <3>1 DEF IssueToken
      <4>2. begun = user.password
        BY <4>1
      <4>3. tokens'[t] \in {tokens[t], begun}
        BY <1>0, <4>1
      <4> QED
        BY <1>3, <4>2, <4>3
    <3>2. CASE RevokeTokens(p) \/ RevokeErased(p)
      BY <3>2 DEF RevokeTokens, RevokeErased
    <3>3. CASE \E S \in {Tokens} \cup {{u} : u \in Tokens} : Logout(p, S)
      BY <1>3, <3>3 DEF Logout
    <3>4. CASE tokens' = tokens
      BY <1>3, <3>4
    <3> QED
      BY <2>1, <3>1, <3>2, <3>3, <3>4 DEF TableWrites, InsertApplication, SaveResubmission, SaveReview, Invalidate,
         InsertCode, MarkUsed, InvalidateAll
  <2>2. CASE TablesKept
    BY <1>1, <1>3, <2>2 DEF TablesKept
  <2> QED
    BY <1>1, <2>1, <2>2, TableWriters
<1> QED
  BY <1>0, <1>2, <1>3 DEF SessionsEndWithPassword


-------------------------------------------------------------------------------
(* The tier, and the applications for the next one. *)

\* Who comes to apply.
LEMMA ApplyingComes ==
  ASSUME TypeOK, RoomInv, [Next]_lifeVars
  PROVE  (\E p \in Calls : KycStep(p) \/ KycBegin(p)) \/ Away({"apply.check", "apply.insert"})
<1>0. CallsOK /\ Shape /\ RowsOK /\ FactorsOK /\ BesideOK /\ faults \in Nat
  BY DEF TypeOK, CallsOK, GhostsOK
<1>1. CASE RowsAct
  <2>1. PICK p \in Calls : UsersStep(p) \/ KycStep(p) \/ SessionsStep(p) \/ DataStep(p)
                            \/ UsersBegin(p) \/ KycBegin(p) \/ SessionsBegin(p) \/ DataBegin(p)
    BY <1>1 DEF RowsAct
  <2>2. CASE UsersStep(p) \/ UsersBegin(p)
    <3>1. Within(UsersPlaces)
      BY <1>0, <2>2, UsersMoves, UsersArrive DEF Within, Moves
    <3> QED
      BY <3>1, WithinAway DEF UsersPlaces
  <2>3. CASE SessionsStep(p) \/ SessionsBegin(p)
    <3>1. Within(SessionsPlaces)
      BY <1>0, <2>3, SessionsMoves, SessionsArrive DEF Within, Moves
    <3> QED
      BY <3>1, WithinAway DEF SessionsPlaces, CodePlaces, IssuingPlaces
  <2>4. CASE DataStep(p) \/ DataBegin(p)
    <3>1. Within(ErasePlaces \cup DemandPlaces)
      BY <1>0, <2>4, DataMoves, DataArrive DEF Within, Moves
    <3> QED
      BY <3>1, WithinAway DEF ErasePlaces, DemandPlaces
  <2> QED
    BY <2>1, <2>2, <2>3, <2>4
<1>2. CASE FactorsAct
  BY <1>0, <1>2, FactorsWithin, WithinAway DEF FactorPlaces
<1>3. CASE RolesAct
  BY <1>0, <1>3, RolesWithin, WithinAway DEF RolesPlaces, RolePlaces
<1>4. CASE TrialsAct
  BY <1>0, <1>4, TrialsWithin, WithinAway DEF TrialPlaces
<1>5. CASE GuestsAct
  BY <1>0, <1>5, GuestsWithin, WithinAway DEF SignupsPlaces, CreatingPlaces, GuestPlaces, VerifyPlaces, LinkPlaces
<1>6. CASE Ends
  BY <1>0, <1>6, EndsAway
<1>7. CASE Stays
  BY <1>7 DEF Stays, Away
<1> QED
  BY <1>1, <1>2, <1>3, <1>4, <1>5, <1>6, <1>7, Acts

\* Whoever applies does so for the tier above the one that was read.
Applies(p) == /\ At(p, "apply.check") => call[p].on = Seen(p).tier + 1
              /\ At(p, "apply.insert") => call[p].on.target = Seen(p).tier + 1

LEMMA AppliesStep ==
  ASSUME TypeOK, RoomInv, \A p \in Calls : Applies(p), [Next]_lifeVars
  PROVE  \A p \in Calls : Applies(p)'
<1>0. CallsOK /\ Shape /\ RowsOK /\ user \in UserRows
  BY DEF TypeOK, CallsOK, RowsOK
<1>1. CASE Away({"apply.check", "apply.insert"})
  BY <1>1 DEF Away, Applies, At, Seen
<1>2. ASSUME NEW p \in Calls, Others(p), Applies(p)' PROVE \A q \in Calls : Applies(q)'
  <2> SUFFICES ASSUME NEW q \in Calls, q # p PROVE Applies(q)'
    BY <1>2
  <2> QED
    BY <1>2 DEF Others, Applies, At, Seen
<1>3. ASSUME NEW p \in Calls, NEW place, NEW on, NEW seen, Others(p), Now(p, place, on, seen),
             place \notin {"apply.check", "apply.insert"}
      PROVE  \A q \in Calls : Applies(q)'
  BY <1>2, <1>3 DEF Now, Applies, At
<1>4. ASSUME NEW p \in Calls, KycBegin(p) PROVE \A q \in Calls : Applies(q)'
  <2>1. ASSUME NEW target \in {STANDARD, ENHANCED}, ApplyForKyc(p, target) PROVE \A q \in Calls : Applies(q)'
    <3>1. Others(p) /\ Now(p, "apply.check", target, user)
      BY <1>0, <2>1, BeginEffect DEF ApplyForKyc
    <3>2. target = user.tier + 1
      BY <1>0, <2>1 DEF ApplyForKyc, STANDARD, ENHANCED, UserRows
    <3> QED
      BY <1>2, <3>1, <3>2 DEF Now, Applies, At, Seen
  <2>2. ASSUME NEW a \in Apps, ResubmitKyc(p, a) PROVE \A q \in Calls : Applies(q)'
    <3>1. Others(p) /\ Now(p, "resubmit", a, user)
      BY <1>0, <2>2, BeginEffect DEF ResubmitKyc
    <3> QED
      BY <1>3, <3>1
  <2>3. ASSUME NEW a \in Apps, NEW decision \in Decisions, Review(p, a, decision) PROVE \A q \in Calls : Applies(q)'
    <3>1. PICK on : Begin(p, "review.user", on)
      BY <2>3 DEF Review
    <3>2. Others(p) /\ Now(p, "review.user", on, user)
      BY <1>0, <3>1, BeginEffect
    <3> QED
      BY <1>3, <3>2
  <2> QED
    BY <1>4, <2>1, <2>2, <2>3 DEF KycBegin
<1>5. ASSUME NEW p \in Calls, End(p) PROVE \A q \in Calls : Applies(q)'
  <2>1. Others(p) /\ Now(p, "idle", 0, Fresh(BASIC))
    BY <1>0, <1>5, EndEffect
  <2> QED
    BY <1>3, <2>1
<1>6. ASSUME NEW p \in Calls, KycStep(p) PROVE \A q \in Calls : Applies(q)'
  <2>1. CASE InsertApplication(p) \/ SaveResubmission(p) \/ SaveReview(p)
    BY <1>5, <2>1 DEF InsertApplication, SaveResubmission, SaveReview
  <2>2. CASE CheckOpen(p)
    <3>1. CASE End(p)
      BY <1>5, <3>1
    <3>2. CASE ~ End(p)
      <4>1. PICK on : on = [target |-> call[p].on, open |-> {}]
        OBVIOUS
      <4>2. call' = [call EXCEPT ![p].at = "apply.insert", ![p].on = on] /\ At(p, "apply.check")
        BY <2>2, <3>2, <4>1 DEF CheckOpen
      <4>3. Others(p) /\ Now(p, "apply.insert", on, call[p].seen)
        BY <1>0, <4>2, GoOnEffect
      <4>4. on.target = Seen(p).tier + 1
        BY <4>1, <4>2 DEF Applies
      <4> QED
        BY <1>2, <4>3, <4>4 DEF Now, Applies, At, Seen
    <3> QED
      BY <3>1, <3>2
  <2>3. CASE ReadReviewed(p)
    <3>1. Others(p) /\ Now(p, "review.save", call[p].on, user)
      BY <1>0, <2>3, ReadAgainEffect DEF ReadReviewed
    <3> QED
      BY <1>3, <3>1
  <2> QED
    BY <1>6, <2>1, <2>2, <2>3 DEF KycStep
<1> QED
  BY <1>1, <1>4, <1>6, ApplyingComes

\* Who changes the tier, and the applications.
LEMMA TierStays ==
  ASSUME TypeOK, [Next]_lifeVars
  PROVE  user'.tier = user.tier \/ "tier" \in mishaps' \/ \E p \in Calls : SaveReview(p)
<1>1. CASE RowKept \/ Unlocked
  BY <1>1, ColumnsAre DEF RowKept, Unlocked, Written
<1>2. ASSUME NEW p \in Calls, RowWrite(p)
      PROVE  user'.tier = user.tier \/ "tier" \in mishaps' \/ SaveReview(p)
  <2>1. \A columns : Written(columns) \/ Saved(p, columns) =>
          "tier" \in columns \/ user'.tier = user.tier \/ "tier" \in mishaps'
    BY ColumnStays, ColumnsAre
  <2> QED
    BY <1>2, <2>1 DEF RowWrite
<1> QED
  BY <1>1, <1>2, RowWrites

LEMMA AppsStay ==
  ASSUME [Next]_lifeVars
  PROVE  \/ UNCHANGED <<apps, unchecked>>
         \/ \E p \in Calls : InsertApplication(p) \/ SaveResubmission(p) \/ SaveReview(p)
  BY TableWriters
  DEF TablesKept, TableWrites, Invalidate, InsertCode, MarkUsed, InvalidateAll, IssueToken, RevokeTokens, RevokeErased,
      Logout, ghosts

LEMMA InsertedTier ==
  ASSUME TypeOK, TierInv, NEW p \in Calls, InsertApplication(p), \A q \in Calls : Applies(q)'
  PROVE  TierInv'
<1>0. apps \in [Apps -> AppRows] /\ unchecked \subseteq Apps /\ At(p, "apply.insert")
  BY DEF TypeOK, RowsOK, GhostsOK, InsertApplication
<1>1. call[p].on.open = {} /\ call[p].on.target = Seen(p).tier + 1
  BY <1>0 DEF TypeOK, CallsOK, Typed, TierInv, At
<1>2. PICK a \in Unused :
        /\ apps' = [apps EXCEPT ![a] = [status |-> "PENDING", target |-> call[p].on.target]]
        /\ unchecked' = IF ~ Open \subseteq call[p].on.open \/ user.tier # Seen(p).tier
                        THEN unchecked \cup {a} ELSE unchecked
  BY DEF InsertApplication
<1>3. UNCHANGED <<user, mishaps>>
  BY DEF InsertApplication
<1>4. /\ a \in Apps /\ apps[a].status = "NONE" /\ apps'[a].status = "PENDING" /\ apps'[a].target = Seen(p).tier + 1
      /\ \A b \in Apps \ {a} : apps'[b] = apps[b]
  BY <1>0, <1>1, <1>2 DEF Unused
<1>5. Open' = Open \cup {a} /\ Approved' = Approved /\ a \notin Approved
  BY <1>4 DEF Open, Approved
<1>6. Approved \cap unchecked' = Approved \cap unchecked
  BY <1>2, <1>5
<1>7. Earned(user.tier) => Earned(user.tier)'
  <2>1. \A b \in Approved : apps'[b] = apps[b]
    BY <1>4, <1>5 DEF Approved
  <2> QED
    BY <1>3, <1>5, <2>1 DEF Earned
<1>8. CASE Open = {} /\ user.tier = Seen(p).tier
  <2>1. Open' = {a} /\ apps'[a].target = user.tier + 1
    BY <1>4, <1>5, <1>8
  <2> QED
    BY <1>3, <1>5, <1>6, <1>7, <2>1 DEF TierInv, Applies
<1>9. CASE ~ (Open = {} /\ user.tier = Seen(p).tier)
  <2>1. unchecked' = unchecked \cup {a}
    BY <1>1, <1>2, <1>9
  <2>2. (Open \ unchecked)' \subseteq Open \ unchecked /\ a \notin (Open \ unchecked)'
    BY <1>5, <2>1
  <2>3. \A b \in (Open \ unchecked)' : apps'[b] = apps[b]
    BY <1>4, <2>2 DEF Open
  <2> QED
    BY <1>3, <1>5, <1>6, <1>7, <2>2, <2>3 DEF TierInv, Applies
<1> QED
  BY <1>8, <1>9

LEMMA ResubmittedTier ==
  ASSUME TypeOK, TierInv, NEW p \in Calls, SaveResubmission(p), \A q \in Calls : Applies(q)'
  PROVE  TierInv'
<1>0. PICK a : a = call[p].on
  OBVIOUS
<1>1. apps \in [Apps -> AppRows] /\ a \in Apps
  BY <1>0 DEF TypeOK, CallsOK, RowsOK, Typed, SaveResubmission, At
<1>2. /\ apps' = [apps EXCEPT ![a].status = "PENDING"] /\ unchecked' = unchecked \cup {a} /\ user' = user
      /\ mishaps' = IF apps[a].status \in {"APPROVED", "REJECTED"} THEN mishaps \cup {"review"} ELSE mishaps
  BY <1>0 DEF SaveResubmission
<1>3. apps'[a].status = "PENDING" /\ \A b \in Apps \ {a} : apps'[b] = apps[b]
  BY <1>1, <1>2 DEF AppRows
<1>4. (Open \ unchecked)' \subseteq Open \ unchecked /\ \A b \in (Open \ unchecked)' : apps'[b] = apps[b]
  BY <1>2, <1>3 DEF Open
<1>5. ASSUME "review" \notin mishaps' PROVE /\ mishaps' = mishaps /\ Approved' = Approved /\ a \notin Approved
                                            /\ \A b \in Approved : apps'[b] = apps[b]
  BY <1>2, <1>3, <1>5 DEF Approved
<1>6. ASSUME "review" \notin mishaps' PROVE Earned(user.tier) => Earned(user.tier)'
  BY <1>2, <1>5, <1>6 DEF Earned
<1> QED
  BY <1>2, <1>4, <1>5, <1>6 DEF TierInv, Applies

LEMMA ReviewedTier ==
  ASSUME TypeOK, TierInv, NEW p \in Calls, SaveReview(p), \A q \in Calls : Applies(q)'
  PROVE  TierInv'
<1>0. PICK a, decision : a = call[p].on.app /\ decision = call[p].on.decision
  OBVIOUS
<1>1. apps \in [Apps -> AppRows] /\ a \in Apps /\ decision \in Decisions /\ user.tier \in Nat
  BY <1>0 DEF TypeOK, CallsOK, RowsOK, Typed, SaveReview, At, UserRows
<1>2. /\ apps' = [apps EXCEPT ![a].status = decision] /\ unchecked' = unchecked
      /\ mishaps \subseteq mishaps' /\ (apps[a].status # "PENDING" => "review" \in mishaps')
      /\ IF decision = "APPROVED" THEN user'.tier = apps[a].target ELSE user' = user
  BY <1>0, ReviewEffect DEF SaveReview, ghosts, TypeOK
<1>3. apps'[a].status = decision /\ apps'[a].target = apps[a].target /\ \A b \in Apps \ {a} : apps'[b] = apps[b]
  BY <1>1, <1>2 DEF AppRows
<1>4. Open' = Open \ {a} /\ \A b \in Open' : apps'[b] = apps[b]
  BY <1>1, <1>3 DEF Open, Decisions
<1>5. \A b \in Apps : apps'[b].target = apps[b].target
  BY <1>3
<1>6. ASSUME mishaps' \cap {"tier", "review"} = {}, Approved' \cap unchecked' = {}
      PROVE  /\ Earned(user.tier)'
             /\ \A b \in (Open \ unchecked)' : apps'[b].target = user'.tier + 1
  <2>1. a \in Open /\ Approved \subseteq Approved' \cup {a}
    BY <1>1, <1>2, <1>3, <1>6 DEF Open, Approved
  <2>2. a \notin Approved
    BY <2>1 DEF Open, Approved
  <2>3. mishaps \cap {"tier", "review"} = {} /\ Approved \cap unchecked = {}
    BY <1>2, <1>6, <2>1, <2>2
  <2>4. Earned(user.tier) /\ \A b \in Open \ unchecked : apps[b].target = user.tier + 1
    BY <2>3 DEF TierInv
  <2>5. CASE decision = "APPROVED"
    <3>1. Approved' = Approved \cup {a} /\ a \notin unchecked
      BY <1>1, <1>2, <1>3, <1>6, <2>5 DEF Approved
    <3>2. user'.tier = user.tier + 1 /\ apps'[a].target = user'.tier
      BY <1>2, <1>5, <1>1, <2>1, <2>4, <2>5, <3>1
    <3>3. (Open \ unchecked)' = {}
      BY <1>2, <1>4, <2>1, <3>1 DEF TierInv
    <3>4. \A b \in Approved' : apps'[b].target <= user'.tier
      <4>1. \A b \in Approved : apps[b].target <= user.tier /\ apps[b].target \in Nat /\ b \in Apps
        BY <1>1, <2>4 DEF Earned, Approved, AppRows
      <4>2. \A b \in Approved : apps'[b].target <= user'.tier
        BY <1>1, <1>5, <3>2, <4>1
      <4> QED
        BY <1>1, <3>1, <3>2, <4>2
    <3>5. user'.tier >= BASIC
      BY <1>1, <2>4, <3>2 DEF Earned, BASIC
    <3> QED
      BY <3>1, <3>2, <3>3, <3>4, <3>5 DEF Earned
  <2>6. CASE decision # "APPROVED"
    <3>1. Approved' = Approved /\ user' = user
      BY <1>1, <1>2, <1>3, <2>2, <2>6 DEF Approved
    <3>2. \A b \in Approved : apps'[b].target = apps[b].target
      BY <1>5 DEF Approved
    <3>3. Earned(user.tier)'
      BY <2>4, <3>1, <3>2 DEF Earned
    <3> QED
      BY <1>2, <1>4, <2>4, <3>1, <3>3
  <2> QED
    BY <2>5, <2>6
<1>7. \A b, c \in (Open \ unchecked)' : b = c
  BY <1>2, <1>4 DEF TierInv
<1> QED
  BY <1>6, <1>7 DEF TierInv, Applies

LEMMA TierStep ==
  ASSUME TypeOK, RoomInv, TierInv, [Next]_lifeVars PROVE TierInv'
<1>0. mishaps \subseteq mishaps'
  BY MishapsStay
<1>1. \A q \in Calls : Applies(q)'
  <2>1. \A q \in Calls : Applies(q)
    BY DEF TierInv, Applies
  <2> QED
    BY <2>1, AppliesStep
<1>2. CASE \E p \in Calls : InsertApplication(p) \/ SaveResubmission(p) \/ SaveReview(p)
  BY <1>1, <1>2, InsertedTier, ResubmittedTier, ReviewedTier
<1>3. CASE ~ \E p \in Calls : InsertApplication(p) \/ SaveResubmission(p) \/ SaveReview(p)
  <2>1. UNCHANGED <<apps, unchecked>> /\ (user'.tier = user.tier \/ "tier" \in mishaps')
    BY <1>3, AppsStay, TierStays
  <2>2. Open' = Open /\ Approved' = Approved
    BY <2>1 DEF Open, Approved
  <2>3. user'.tier = user.tier /\ Earned(user.tier) => Earned(user.tier)'
    BY <2>1, <2>2 DEF Earned
  <2> QED
    BY <1>0, <1>1, <2>1, <2>2, <2>3 DEF TierInv, Applies
<1> QED
  BY <1>2, <1>3

LEMMA Highest ==
  ASSUME NEW S, NEW t \in S, \A x \in S : x <= t, \A x \in S : x \in Int PROVE Max(S) = t
<1>1. Max(S) = CHOOSE x \in S : \A y \in S : x >= y
  BY DEF Max
<1>2. t \in S /\ \A y \in S : t >= y
  OBVIOUS
<1>3. \A x \in S : (\A y \in S : x >= y) => x = t
  OBVIOUS
<1> QED
  BY <1>1, <1>2, <1>3

LEMMA ReviewsAreTrueHolds == ASSUME TypeOK, TierInv PROVE ReviewsAreTrue
<1>1. OneIsUnderReview
  <2>1. \A a, b \in Open \ unchecked : a = b
    BY DEF TierInv
  <2>2. CASE Open \ unchecked = {}
    BY <2>2, FS_EmptySet DEF OneIsUnderReview
  <2>3. CASE Open \ unchecked # {}
    <3>1. PICK a \in Open \ unchecked : TRUE
      BY <2>3
    <3>2. Open \ unchecked = {a}
      BY <2>1, <3>1
    <3>3. Cardinality({a}) = 1
      BY FS_Singleton
    <3> QED
      BY <3>2, <3>3 DEF OneIsUnderReview
  <2> QED
    BY <2>2, <2>3
<1>2. TierIsEarned
  <2> SUFFICES ASSUME mishaps \cap {"tier", "review"} = {}, Approved \cap unchecked = {}
               PROVE  user.tier = Max({BASIC} \cup {apps[a].target : a \in Approved})
    BY DEF TierIsEarned
  <2> DEFINE S == {BASIC} \cup {apps[a].target : a \in Approved}
  <2>1. Earned(user.tier)
    BY DEF TierInv
  <2>2. \A a \in Approved : apps[a].target \in Nat
    BY DEF TypeOK, RowsOK, AppRows, Approved
  <2>3. user.tier \in Nat
    BY DEF TypeOK, RowsOK, UserRows
  <2>4. user.tier \in S
    BY <2>1 DEF Earned
  <2>5. \A x \in S : x <= user.tier /\ x \in Int
    BY <2>1, <2>2, <2>3 DEF Earned, BASIC
  <2> HIDE DEF S
  <2>6. Max(S) = user.tier
    BY <2>4, <2>5, Highest
  <2> QED
    BY <2>6 DEF S
<1> QED
  BY <1>1, <1>2 DEF ReviewsAreTrue


-------------------------------------------------------------------------------
(* The invariant. *)

\* Two-factor authentication may be on from the start.
LEMMA TurnedOn ==
  ASSUME NEW u, u = [Fresh(BASIC) EXCEPT !.secret = 1, !.second = TRUE]
  PROVE  u.tier = BASIC /\ u.money = 0 /\ u.attempts = 0 /\ u.secret = 1 /\ u.second = TRUE
<1> DEFINE v == [Fresh(BASIC) EXCEPT !.secret = 1]
<1>1. /\ v.tier = BASIC /\ v.money = 0 /\ v.attempts = 0 /\ v.secret = 1
      /\ DOMAIN v = Columns /\ v = [c \in Columns |-> v[c]]
  BY DEF Fresh, Columns
<1>2. u = [v EXCEPT !.second = TRUE]
  OBVIOUS
<1> HIDE DEF v
<1> QED
  BY <1>1, <1>2, ColumnsAre

LEMMA InitTypes == LifeInit => TypeOK
<1> SUFFICES ASSUME LifeInit PROVE TypeOK
  OBVIOUS
<1>1. \A t \in Nat : Fresh(t) \in UserRows /\ [Fresh(t) EXCEPT !.secret = 1, !.second = TRUE] \in UserRows
  BY DEF Fresh, UserRows
<1>2. user \in UserRows
  BY <1>1 DEF LifeInit, Init, BASIC, STANDARD
<1>3. apps \in [Apps -> AppRows]
  BY DEF LifeInit, Init, NoApp, AppRows, BASIC, STANDARD, Decisions
<1>4. /\ codes \in [Codes -> CodeRows] /\ tokens \in [Tokens -> Nat] /\ demands \in [Demands -> DemandRows]
      /\ screening \subseteq Apps /\ screened \subseteq Apps
  BY DEF LifeInit, Init, NoCode, CodeRows, NoDemand, DemandRows
<1>5. CallsOK
  <2>1. call = [p \in Calls |-> Idle]
    BY DEF LifeInit, Init
  <2>2. \A p \in Calls : call[p].at = "idle" /\ call[p].on = 0 /\ call[p].seen = Fresh(BASIC)
    BY <2>1 DEF Idle
  <2>3. Shape
    BY <2>1 DEF Shape, Idle
  <2>4. Fresh(BASIC) \in UserRows
    BY FreshType DEF BASIC
  <2> QED
    BY <2>2, <2>3, <2>4, IdleTyped DEF CallsOK
<1>6. GhostsOK
  BY DEF LifeInit, Init, GhostsOK
<1>7. FactorsOK
  <2>1. user.secret \in Nat /\ user.second \in BOOLEAN
    BY <1>2 DEF UserRows
  <2>2. \A s \in Sets : backups[s] \in {"NONE", "LIVE"} /\ recovered[s] = 0
    BY DEF LifeInit, FactorInit
  <2>3. backups \in [Sets -> {"NONE", "LIVE", "USED", "GONE"}] /\ recovered \in [Sets -> Nat]
    BY <2>2 DEF LifeInit, FactorInit
  <2>4. partials = {} /\ shown = user.secret /\ confirmed = {user.secret} \ {0} /\ wanted = user.second
    BY DEF LifeInit, FactorInit
  <2>5. partials \subseteq Nat /\ shown \in Nat
    BY <2>1, <2>4
  <2>6. confirmed \subseteq Nat
    BY <2>1, <2>4
  <2>7. wanted \in BOOLEAN
    BY <2>1, <2>4
  <2> QED
    BY <2>3, <2>5, <2>6, <2>7 DEF FactorsOK
<1>8. BesideOK
  <2>1. roles \in [Staff -> {"NONE"} \cup RoleNames] /\ verified \subseteq Staff
    BY DEF LifeInit, RolesInit, RoleNames, Supers
  <2>2. experiment \in ExperimentRows \cup {Absent} /\ variants \in BOOLEAN
    <3>1. [status |-> "RUNNING", traffic |-> TRUE] \in ExperimentRows
      BY DEF ExperimentRows, Statuses
    <3>2. CASE experiment = Absent /\ variants = FALSE
      BY <3>2
    <3>3. CASE experiment = [status |-> "RUNNING", traffic |-> TRUE] /\ variants = TRUE
      BY <3>1, <3>3
    <3> QED
      BY <3>2, <3>3 DEF LifeInit, ExperimentsInit
  <2>3. assigned = {} /\ told = {} /\ concluded = FALSE
    BY DEF LifeInit, ExperimentsInit
  <2>4. people \in [People -> PersonRows] /\ sessions = {} /\ proven = {}
    BY DEF LifeInit, SignupsInit, PersonRows, Nobody
  <2> QED
    BY <2>1, <2>2, <2>3, <2>4 DEF BesideOK
<1> QED
  BY <1>2, <1>3, <1>4, <1>5, <1>6, <1>7, <1>8 DEF TypeOK, RowsOK

LEMMA InitRoom == LifeInit => RoomInv
<1> SUFFICES ASSUME LifeInit PROVE RoomInv
  OBVIOUS
<1>1. \A p \in Calls : call[p].at = "idle"
  BY DEF LifeInit, Init, Idle
<1>2. Issuing = {} /\ Replacing = {} /\ Creating = {}
  BY <1>1 DEF Issuing, Replacing, Creating
<1>3. Cardinality(Issuing) = 0 /\ Cardinality(Replacing) = 0 /\ Cardinality(Creating) = 0
  BY <1>2, FS_EmptySet
<1>4. Cardinality(NextCodes) \in Nat /\ Cardinality(Unmade) \in Nat /\ Cardinality(Coming) \in Nat
  BY FiniteSides, FS_CardinalityType
<1> QED
  BY <1>3, <1>4 DEF RoomInv

LEMMA InitRow == LifeInit => RowIsKept /\ AttemptsInv /\ SecondInv /\ SecretInv /\ EmptyInv
<1> SUFFICES ASSUME LifeInit PROVE RowIsKept /\ AttemptsInv /\ SecondInv /\ SecretInv /\ EmptyInv
  OBVIOUS
<1>1. \A p \in Calls : call[p].at = "idle"
  BY DEF LifeInit, Init, Idle
<1>2. user.money = 0 /\ user.attempts = 0 /\ (user.second => user.secret = 1) /\ user.second \in BOOLEAN
  <2>1. CASE user = [Fresh(BASIC) EXCEPT !.secret = 1, !.second = TRUE]
    <3>1. user.money = 0 /\ user.attempts = 0 /\ user.secret = 1 /\ user.second = TRUE
      BY <2>1, TurnedOn
    <3> QED
      BY <3>1
  <2>2. CASE user \in {Fresh(BASIC), Fresh(STANDARD)}
    <3>1. user.money = 0 /\ user.attempts = 0 /\ user.second = FALSE
      BY <2>2 DEF Fresh
    <3> QED
      BY <3>1
  <2> QED
    BY <2>1, <2>2 DEF LifeInit, Init
<1>3. wanted = user.second /\ confirmed = {user.secret} \ {0} /\ wrong = 0 /\ due = 0 /\ erased = FALSE
  BY DEF LifeInit, Init, FactorInit
<1>4. user.second => Stored # {}
  <2>1. 1 \in Sets
    BY TwoFactorAssumption DEF Sets
  <2> QED
    BY <2>1 DEF LifeInit, FactorInit, Stored
<1> QED
  BY <1>1, <1>2, <1>3, <1>4 DEF RowIsKept, AttemptsInv, SecondInv, SecretInv, EmptyInv, At

LEMMA InitTier == LifeInit => TierInv
<1> SUFFICES ASSUME LifeInit PROVE TierInv
  OBVIOUS
<1>1. \A p \in Calls : call[p].at = "idle"
  BY DEF LifeInit, Init, Idle
<1>2. Open = {}
  BY DEF LifeInit, Init, Open, NoApp
<1>3. CASE user.tier = BASIC /\ Approved = {}
  BY <1>1, <1>2, <1>3 DEF TierInv, Earned, At, BASIC
<1>4. CASE \E b \in Apps : user.tier = STANDARD /\ Approved = {b} /\ apps[b].target = STANDARD
  BY <1>1, <1>2, <1>4 DEF TierInv, Earned, At, BASIC, STANDARD
<1>5. CASE apps = [a \in Apps |-> NoApp] /\ user \in {Fresh(BASIC), [Fresh(BASIC) EXCEPT !.secret = 1, !.second = TRUE]}
  <2>1. user.tier = BASIC
    <3>1. CASE user = [Fresh(BASIC) EXCEPT !.secret = 1, !.second = TRUE]
      BY <3>1, TurnedOn
    <3>2. CASE user = Fresh(BASIC)
      BY <3>2 DEF Fresh
    <3> QED
      BY <1>5, <3>1, <3>2
  <2>2. Approved = {}
    BY <1>5 DEF Approved, NoApp
  <2> QED
    BY <1>3, <2>1, <2>2
<1>6. ASSUME user = Fresh(STANDARD),
             NEW b \in Apps,
             apps = [a \in Apps |-> IF a = b THEN [status |-> "APPROVED", target |-> STANDARD] ELSE NoApp]
      PROVE  TierInv
  <2>1. user.tier = STANDARD
    BY <1>6 DEF Fresh
  <2>2. Approved = {b} /\ apps[b].target = STANDARD
    BY <1>6 DEF Approved, NoApp
  <2> QED
    BY <1>4, <2>1, <2>2
<1> QED
  BY <1>5, <1>6 DEF LifeInit, Init

LEMMA Beginning == LifeInit => Inv
<1> SUFFICES ASSUME LifeInit PROVE Inv
  OBVIOUS
<1>1. \A p \in Calls : call[p].at = "idle"
  BY DEF LifeInit, Init, Idle
<1>2. RolesInv
  BY <1>1 DEF LifeInit, RolesInit, RolesInv, At
<1>3. TrialInv
  BY <1>1 DEF LifeInit, ExperimentsInit, TrialInv, At
<1>4. GuestsInv
  <2>1. \A i \in People : people[i] = Nobody /\ people[i].row = "NEW"
    BY DEF LifeInit, SignupsInit, Nobody
  <2>2. Present = {} /\ proven = {} /\ sessions = {}
    BY <2>1 DEF LifeInit, SignupsInit, Present
  <2>3. \A p \in Calls : Fits(p)
    BY <1>1 DEF Fits, At, GuestPlaces, VerifyPlaces, LinkPlaces
  <2> QED
    BY <2>1, <2>2, <2>3 DEF GuestsInv
<1>5. BackupsInv
  BY <1>1 DEF LifeInit, FactorInit, BackupsInv, At, Stored
<1>6. CodesInv /\ LoginInv
  BY <1>1 DEF LifeInit, Init, CodesInv, LoginInv, At
<1>7. RecoveredInv
  BY <1>1 DEF LifeInit, FactorInit, RecoveredInv, At
<1>8. SessionsEndWithPassword
  BY DEF LifeInit, Init, SessionsEndWithPassword
<1> QED
  BY <1>2, <1>3, <1>4, <1>5, <1>6, <1>7, <1>8, InitTypes, InitRoom, InitRow, InitTier DEF Inv

LEMMA InvStep == Inv /\ [Next]_lifeVars => Inv'
<1> SUFFICES ASSUME Inv, [Next]_lifeVars PROVE Inv'
  OBVIOUS
<1> USE DEF Inv
<1>1. TypeOK' /\ RoomInv'
  BY TypeStep, RoomInvStep
<1>2. RolesInv'
  BY RolesInvStep
<1>3. TrialInv'
  BY TrialInvStep
<1>4. GuestsInv'
  BY GuestsInvStep
<1>5. AttemptsInv' /\ SecretInv' /\ SecondInv' /\ EmptyInv' /\ BackupsInv'
  BY AttemptsStep, SecretStep, SecondStep, EmptyStep, BackupsStep
<1>6. CodesInv' /\ RecoveredInv' /\ LoginInv'
  BY CodesStep, RecoveredStep, LoginStep
<1>7. TierInv'
  BY TierStep
<1>8. RowIsKept' /\ SessionsEndWithPassword'
  BY RowIsKeptStep, SessionsEndStep
<1> QED
  BY <1>1, <1>2, <1>3, <1>4, <1>5, <1>6, <1>7, <1>8

LEMMA InvHolds == Spec => []Inv
  BY Beginning, InvStep, PTL DEF Spec

\* Rows are of their types, and so is what every request holds at the place where it is:
\* nobody reads an id that was not handed on to it.
THEOREM RequestsAreTyped == Spec => []TypeOK
<1>1. Inv => TypeOK
  BY DEF Inv
<1> QED
  BY <1>1, InvHolds, PTL

\* The tier is the highest one approved, and one application at a time is under review,
\* whatever saves the user and however reviews overlap; with the exceptions that
\* ReviewsAreTrue names.
THEOREM TiersAreEarned == Spec => []ReviewsAreTrue
<1>1. Inv => ReviewsAreTrue
  BY ReviewsAreTrueHolds DEF Inv
<1> QED
  BY <1>1, InvHolds, PTL

\* What erasure removed stays removed and what was booked stays booked, but for the columns
\* in mishaps; and two-factor authentication is on as last asked for, with a confirmed
\* secret and one set of backup codes.
THEOREM ColumnsAreKept == Spec => []RowsAreKept
<1>1. Inv => RowsAreKept
  BY FactorIsKeptHolds DEF Inv, RowsAreKept
<1> QED
  BY <1>1, InvHolds, PTL

\* No session outlives the password it was begun with, unless a login was under way, the
\* revocation was cut off, or an old password was saved again.
THEOREM PasswordsEndSessions == Spec => []SessionsEndWithPassword
<1>1. Inv => SessionsEndWithPassword
  BY DEF Inv
<1> QED
  BY <1>1, InvHolds, PTL

\* A super-admin remains, a user is shown one variant, and a concluded experiment does not
\* run again; with the exceptions that OfficeIsInOrder names.
THEOREM OfficeStaysInOrder == Spec => []OfficeIsInOrder
<1>1. Inv => OfficeIsInOrder
  <2> SUFFICES ASSUME Inv PROVE OfficeIsInOrder
    OBVIOUS
  <2>1. SomeoneIsInCharge
    BY DEF Inv, RolesInv, SomeoneIsInCharge, InCharge
  <2>2. Cardinality(told) <= 1
    <3>1. told \subseteq assigned /\ (assigned = {} \/ \E v \in Variants : assigned = {v})
      BY DEF Inv, TrialInv
    <3>2. told = {} \/ \E v \in Variants : told = {v}
      BY <3>1
    <3> QED
      BY <3>2, FS_EmptySet, FS_Singleton
  <2>3. concluded /\ experiment.status = "RUNNING" => "experiment" \in mishaps
    BY DEF Inv, TrialInv
  <2>4. experiment # Absent /\ ~ variants => faults > 0 \/ \E p \in Calls : At(p, "experiment.variants")
    BY DEF Inv, TrialInv
  <2> QED
    BY <2>1, <2>2, <2>3, <2>4 DEF OfficeIsInOrder, ExperimentsAreTrue
<1> QED
  BY <1>1, InvHolds, PTL

\* A verified account stays, and has a wallet and a way to log in, and only verified ones
\* have sessions; with the exceptions that SignupsAreTrue names.
THEOREM AccountsAreWhole == Spec => []SignupsAreTrue
<1>1. Inv => SignupsAreTrue
  <2> SUFFICES ASSUME Inv PROVE SignupsAreTrue
    OBVIOUS
  <2>1. GuestsInv
    BY DEF Inv
  <2>2. \A i : \A places : places \subseteq WalletPlaces \cup DoorPlaces /\ Adding(i, places) => faults > 0 \/ Making(i)
    BY DEF Adding, Making, WalletPlaces, DoorPlaces
  <2>3. \A i : Adding(i, WalletPlaces) \/ Adding(i, DoorPlaces) \/ Adding(i, ProofPlaces) => faults > 0 \/ Making(i)
    BY <2>2 DEF WalletPlaces, DoorPlaces, ProofPlaces
  <2>4. \A i \in Present : Whole(i)
    BY <2>1 DEF GuestsInv
  <2> QED
    BY <2>1, <2>3, <2>4 DEF SignupsAreTrue, GuestsInv, Whole
<1> QED
  BY <1>1, InvHolds, PTL

\* A code and a backup code open one session at most, the wrong code that reaches the limit
\* locks the user, and a login without the second factor is one it was off for; with the
\* exceptions that LoginsAreChecked names.
THEOREM LoginsStayChecked == Spec => LoginsAreChecked
<1>1. Inv /\ [Next]_lifeVars => [CheckedStep]_lifeVars
  <2> SUFFICES ASSUME Inv, [Next]_lifeVars PROVE CheckedStep
    OBVIOUS
  <2>1. Inv'
    BY InvStep
  <2> QED
    BY <2>1, LoginsStep DEF Inv
<1>2. Spec => [][CheckedStep]_lifeVars
  BY <1>1, InvHolds, PTL DEF Spec
<1> QED
  BY <1>2 DEF LoginsAreChecked, CheckedStep

==============================================================================

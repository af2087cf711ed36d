----------------------------- MODULE AccountLife -----------------------------
(***************************************************************************)
(* The life of an account: Kyc, Sessions, TwoFactor and DataRequests at    *)
(* work on the row of one user at the same time, with the operations of    *)
(* UsersService, failing statements and crashes; and, next to the row, the *)
(* Roles of administrators, the Experiments that assign users, and the     *)
(* Signups that make other users.                                          *)
(***************************************************************************)
EXTENDS Kyc, TwoFactor, DataRequests, Roles, Experiments, Signups

beside == <<factors, offices, trials, guests>>
lifeVars == <<vars, beside>>

Fault == faults < MaxFaults /\ faults' = faults + 1

\* A statement fails, or the program dies: the request ends where it is.  What was
\* to be done next is not done, unless there was a transaction.
Working == {"demand.process", "demand.work", "demand.fail"}

Die(p) ==
  /\ ~ At(p, "idle") /\ End(p) /\ Fault
  /\ mishaps' = IF call[p].at \in {"revoke", "erase.revoke"} THEN mishaps \cup {"kept"} ELSE mishaps
  /\ cut' = IF call[p].at \in Working THEN cut \cup {call[p].on} ELSE cut
  /\ UNCHANGED <<user, tables, due, accepted, wrong, unchecked, erased, requests>>

\* A statement fails while a request for data is worked off, or its notification.
FailWork(p) ==
  /\ call[p].at \in {"demand.process", "demand.work", "demand.notify"}
  /\ Goto(p, "demand.fail") /\ Fault
  /\ UNCHANGED <<user, tables, ghosts, mishaps, requests>>

Step(p) ==
  \/ UNCHANGED beside /\ (UsersStep(p) \/ KycStep(p) \/ SessionsStep(p) \/ DataStep(p))
  \/ UNCHANGED <<offices, trials, guests>> /\ FactorStep(p)
  \/ UNCHANGED <<factors, trials, guests>> /\ RolesStep(p)
  \/ UNCHANGED <<factors, offices, guests>> /\ ExperimentsStep(p)
  \/ UNCHANGED <<factors, offices, trials>> /\ SignupsStep(p)

Arrive(p) ==
  \/ UNCHANGED beside /\ (UsersBegin(p) \/ KycBegin(p) \/ SessionsBegin(p) \/ DataBegin(p))
  \/ UNCHANGED <<offices, trials, guests>> /\ FactorBegin(p)
  \/ UNCHANGED <<factors, trials, guests>> /\ RolesBegin(p)
  \/ UNCHANGED <<factors, offices, guests>> /\ ExperimentsBegin(p)
  \/ UNCHANGED <<factors, offices, trials>> /\ SignupsBegin(p)

Screening(a) == UNCHANGED beside /\ (Screen(a) \/ LoseScreening(a))

Next ==
  \/ \E p \in Calls : Arrive(p) \/ Step(p) \/ (UNCHANGED beside /\ (Die(p) \/ FailWork(p)))
  \/ \E a \in Apps : Screening(a)
  \/ Unlock /\ UNCHANGED beside

LifeInit == Init /\ FactorInit /\ RolesInit /\ ExperimentsInit /\ SignupsInit

Spec == LifeInit /\ [][Next]_lifeVars

\* What has begun goes on.
Fairness ==
  /\ \A p \in Calls : WF_lifeVars(Step(p))
  /\ \A a \in Apps : WF_lifeVars(Screen(a) /\ UNCHANGED beside)

FairSpec == Spec /\ Fairness

-------------------------------------------------------------------------------
(***************************************************************************)
(* Properties.                                                             *)
(***************************************************************************)

Approved == {a \in Apps : apps[a].status = "APPROVED"}

\* The tier of a user is the highest one approved, although every other operation
\* saves the whole user, and reviews overlap; unless an application was approved
\* that had been submitted past the checks (a resubmission for a tier below, or two
\* at a time), or the tier or the application was not as the reviewer had read it.
TierIsEarned ==
  mishaps \cap {"tier", "review"} = {} /\ Approved \cap unchecked = {} =>
    user.tier = Max({BASIC} \cup {apps[a].target : a \in Approved})

\* Only one application is under review, but for resubmissions and applications
\* that overlap: these alone come past the look for another one.
OneIsUnderReview == Cardinality(Open \ unchecked) <= 1

ReviewsAreTrue == TierIsEarned /\ OneIsUnderReview

\* What erasure has removed stays removed, and what services book stays booked: a
\* column is brought back, or taken away, only by a save of a user read before, by
\* an operation that was under way, by an admin, or by the copy of the balances
\* from Stellar.  Each of these leaves its column in mishaps; no other operation
\* of the four services does it.
RowIsKept ==
  /\ erased =>
       /\ \A c \in {"email", "names", "active"} : user[c] => c \in mishaps
       /\ user.password # 0 => "password" \in mishaps
  /\ user.money # due => "money" \in mishaps

\* Two-factor authentication is on or off as last asked for, and on only with a secret
\* of which a code was checked; unless the user was saved as read before, or another
\* secret was made while the code was being checked.  There is one set of backup codes,
\* and there is one when it is on; unless two requests that write them overlap, or a
\* fault fell between the statements.
Replaced(p) == call[p].at \in {"backups.delete", "backups.insert", "disable.delete"}

FactorIsKept ==
  /\ user.second = wanted \/ "second" \in mishaps
  /\ user.second /\ user.secret \notin confirmed => "secret" \in mishaps \/ erased
  /\ Cardinality(Stored) <= 1 \/ "backups" \in mishaps
  /\ user.second /\ Stored = {} =>
       \/ mishaps \cap {"second", "backups"} # {} \/ faults > 0
       \/ \E p \in Calls : Replaced(p)

\* The columns, and the rows of backup codes that go with them.
RowsAreKept == RowIsKept /\ FactorIsKept

\* A code opens one session or sets one password, unless two requests with it
\* overlap; and the wrong code that reaches the limit locks the user, unless one
\* was not counted, because two requests overlapped or the user was saved as read
\* before.  A backup code opens one session, too; and a login ends in a session without
\* the second factor only if that was off when the login began.
LoginsAreChecked ==
  [][/\ \A c \in Codes : accepted'[c] > 1 => "code" \in mishaps'
     /\ wrong' > wrong /\ wrong' >= MAX_FAILED_ATTEMPTS =>
          user'.locked \/ "attempts" \in mishaps'
     /\ \A s \in Sets : recovered'[s] > 1 => "code" \in mishaps'
     /\ \A p \in Calls : call[p].at = "token" /\ call[p].on.type = "LOGIN" /\ tokens' # tokens /\ call'[p] = Idle =>
          ~ wanted \/ "second" \in mishaps']_lifeVars

\* There is a super-admin who can log in: nobody demotes the last one.  Unless two
\* demotions overlap; and an account that is being made, or was not made to the end,
\* counts as one.
SomeoneIsInCharge == InCharge # {} \/ "role" \in mishaps \/ Supers \ verified # {}

\* A user is only ever shown one variant, whatever requests overlap and however the
\* traffic changes.  A concluded experiment does not run again, unless it was set to
\* another status first, or saved as read before.  Only a fault leaves an experiment
\* without variants, whose key cannot be used again.
ExperimentsAreTrue ==
  /\ Cardinality(told) <= 1
  /\ concluded /\ experiment.status = "RUNNING" => "experiment" \in mishaps
  /\ experiment # Absent /\ ~ variants =>
       faults > 0 \/ \E p \in Calls : At(p, "experiment.variants")

\* What administrators do next to the rows of users.
OfficeIsInOrder == SomeoneIsInCharge /\ ExperimentsAreTrue

\* An account stays once its address was verified, unless a signup had read it before
\* that; and only then are there sessions.  A verified account has a wallet, and a way to
\* log in, a password or a link to the provider, however signups, codes and logins by
\* way of the provider overlap; unless a fault has cut off, or a request still does, what
\* belongs to it.  An account without a password, which no signup has made, is verified,
\* with the same exceptions.
Making(i) == \E p \in Calls :
  call[p].on = i /\ call[p].at \in {"signup.wallet", "oauth.user", "oauth.update", "oauth.wallet", "oauth.link"}

SignupsAreTrue ==
  /\ proven \subseteq Present \/ "signup" \in mishaps
  /\ sessions \subseteq proven
  /\ \A i \in Present :
       \/ people[i].verified => people[i].wallet /\ (people[i].password \/ people[i].linked)
       \/ faults > 0 \/ Making(i)
  /\ \A i \in Present : people[i].verified \/ people[i].password \/ faults > 0 \/ Making(i)

\* No session outlives the password it was begun with: whoever resets it revokes
\* the sessions, and erasure does, too; unless a login was under way that had the
\* old password or code accepted, a fault has cut off the revocation, or an old
\* password was saved again.
SessionsEndWithPassword ==
  mishaps \cap {"session", "kept", "password"} # {}
    \/ (\E p \in Calls : call[p].at \in {"revoke", "erase.revoke"})
    \/ \A t \in Tokens : tokens[t] \in {0, user.password}

\* A request for data is answered, an approved user screened, unless a fault has cut
\* off the work: nothing takes it up again, and an open request refuses new ones.
AccountsSettle ==
  /\ \A d \in Demands :
       demands[d].status \in InProgress ~> demands[d].status \in {"COMPLETE", "FAILED"} \/ d \in cut
  /\ \A a \in Apps : apps[a].status = "APPROVED" ~> a \in screened \/ faults > 0
==============================================================================

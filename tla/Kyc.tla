---------------------------------- MODULE Kyc ----------------------------------
(***************************************************************************)
(* KycService: a user applies for a tier with documents, a reviewer        *)
(* approves, rejects or asks for the documents again, and an approved user *)
(* is screened by SanctionsService, which nobody waits for.                *)
(*                                                                         *)
(* Reviews run in transactions, but read the application and the user      *)
(* without a lock; what they save is written at the commit.                *)
(***************************************************************************)
EXTENDS Accounts

Open == {a \in Apps : apps[a].status = "PENDING"}

\* applyForKyc: the tier must be the one below; then the user's applications are
\* looked at, files are scanned and uploaded, and the row is inserted.
Applying == {p \in Calls : call[p].at \in {"apply.check", "apply.insert"}}
Unused == {a \in Apps : apps[a].status = "NONE"}

ApplyForKyc(p, target) ==
  /\ Authenticated /\ user.tier = target - 1
  /\ Cardinality(Applying) < Cardinality(Unused)
  /\ Begin(p, "apply.check", target)

\* Mutant: other applications under review are not looked for.
CheckNothing(p) ==
  /\ At(p, "apply.check")
  /\ call' = [call EXCEPT ![p].at = "apply.insert", ![p].on = [target |-> @, open |-> Open]]
  /\ UNCHANGED <<user, tables, ghosts, mishaps, requests, faults>>

CheckOpen(p) ==
  /\ At(p, "apply.check")
  /\ IF Open # {} THEN End(p)
     ELSE call' = [call EXCEPT ![p].at = "apply.insert", ![p].on = [target |-> @, open |-> {}]]
  /\ UNCHANGED <<user, tables, ghosts, mishaps, requests, faults>>

InsertApplication(p) ==
  LET target == call[p].on.target
      overtaken == ~ Open \subseteq call[p].on.open \/ user.tier # Seen(p).tier
  IN  /\ At(p, "apply.insert") /\ End(p)
      /\ \E a \in Unused :
           /\ apps' = [apps EXCEPT ![a] = [status |-> "PENDING", target |-> target]]
           /\ unchecked' = IF overtaken THEN unchecked \cup {a} ELSE unchecked
      /\ UNCHANGED <<user, codes, tokens, demands, screening, screened, due, accepted, wrong, cut,
                     erased, mishaps, requests, faults>>

\* resubmitKyc: neither the tier nor other applications are looked at, and the
\* application keeps the tier it was for.
ResubmitKyc(p, a) ==
  /\ Authenticated /\ apps[a].status = "RESUBMISSION_REQUIRED"
  /\ Begin(p, "resubmit", a)

SaveResubmission(p) ==
  LET a == call[p].on
  IN  /\ At(p, "resubmit") /\ End(p)
      /\ apps' = [apps EXCEPT ![a].status = "PENDING"]
      /\ unchecked' = unchecked \cup {a}
      /\ mishaps' = IF apps[a].status \in {"APPROVED", "REJECTED"} THEN mishaps \cup {"review"} ELSE mishaps
      /\ UNCHANGED <<user, codes, tokens, demands, screening, screened, due, accepted, wrong, cut,
                     erased, requests, faults>>

\* approveKyc and rejectKyc: the application is read, then the user.
Decisions == {"APPROVED", "REJECTED", "RESUBMISSION_REQUIRED"}

Review(p, a, decision) ==
  /\ apps[a].status = "PENDING"
  /\ Begin(p, "review.user", [app |-> a, decision |-> decision])

ReadReviewed(p) ==
  /\ At(p, "review.user")
  /\ call' = [call EXCEPT ![p].at = "review.save", ![p].seen = user]
  /\ UNCHANGED <<user, tables, ghosts, mishaps, requests, faults>>

\* The status, and when approved the user with the tier, whole, and the start of
\* the screening.  Two reviewers may both have found the application PENDING.
SaveReview(p) ==
  LET a == call[p].on.app
      decision == call[p].on.decision
      decided == {m \in {"review"} : apps[a].status # "PENDING"}
      entity == [Seen(p) EXCEPT !.tier = apps[a].target]
  IN  /\ At(p, "review.save") /\ End(p)
      /\ apps' = [apps EXCEPT ![a].status = decision]
      /\ IF decision = "APPROVED"
         THEN user' = entity /\ screening' = screening \cup {a}
         ELSE UNCHANGED <<user, screening>>
      /\ mishaps' = mishaps \cup decided
           \cup IF decision = "APPROVED" THEN Undone(Seen(p), entity) ELSE {}
      /\ UNCHANGED <<codes, tokens, demands, screened, ghosts, requests, faults>>

\* screenUser: two providers are asked, and the result is stored.
Screen(a) ==
  /\ a \in screening
  /\ screening' = screening \ {a} /\ screened' = screened \cup {a}
  /\ UNCHANGED <<user, apps, codes, tokens, demands, call, ghosts, mishaps, requests, faults>>

\* A provider fails, or the program dies: the error is logged at most.
LoseScreening(a) ==
  /\ a \in screening /\ faults < MaxFaults /\ faults' = faults + 1
  /\ screening' = screening \ {a}
  /\ UNCHANGED <<user, apps, codes, tokens, demands, screened, call, ghosts, mishaps, requests>>

KycBegin(p) ==
  \/ \E target \in {STANDARD, ENHANCED} : ApplyForKyc(p, target)
  \/ \E a \in Apps : ResubmitKyc(p, a) \/ \E decision \in Decisions : Review(p, a, decision)

KycStep(p) ==
  CheckOpen(p) \/ InsertApplication(p) \/ SaveResubmission(p) \/ ReadReviewed(p) \/ SaveReview(p)
===============================================================================

----------------------------- MODULE DataRequests -----------------------------
(***************************************************************************)
(* What a user may ask for about the own data: GdprService.eraseUser, and  *)
(* the requests for an export or for the deletion of the account, which    *)
(* DataExportService and AccountDeletionService answer at once and then    *)
(* work off without anybody waiting for them.                              *)
(***************************************************************************)
EXTENDS Accounts

\* eraseUser: the password is right; transactions are counted and files deleted
\* before the user that was read is saved, anonymised, as a whole.
EraseUser(p) == Authenticated /\ user.password # 0 /\ Begin(p, "erase", 0)

Anonymised(entity) ==
  [entity EXCEPT !.email = FALSE, !.names = FALSE, !.password = 0, !.active = FALSE, !.secret = 0]

\* Mutant: the account stays open when its data is gone.
AnonymiseOpen(p) ==
  /\ At(p, "erase") /\ Goto(p, "erase.revoke")
  /\ Save(p, [Anonymised(Seen(p)) EXCEPT !.active = Seen(p).active])
  /\ erased' = TRUE
  /\ UNCHANGED <<tables, due, accepted, wrong, unchecked, cut, requests, faults>>

Anonymise(p) ==
  /\ At(p, "erase") /\ Goto(p, "erase.revoke")
  /\ Save(p, Anonymised(Seen(p)))
  /\ erased' = TRUE
  /\ UNCHANGED <<tables, due, accepted, wrong, unchecked, cut, requests, faults>>

\* The tokens are revoked; then rows nothing here depends on are deleted.
RevokeErased(p) ==
  /\ At(p, "erase.revoke") /\ End(p)
  /\ tokens' = [t \in Tokens |-> 0]
  /\ UNCHANGED <<user, apps, codes, demands, screening, screened, ghosts, mishaps, requests, faults>>

-------------------------------------------------------------------------------
InProgress == {"PENDING", "PROCESSING"}
OpenDemands(types) == {d \in Demands : demands[d].type \in types /\ demands[d].status \in InProgress}
FreeDemands == {d \in Demands : demands[d] = NoDemand}
Demanding == {p \in Calls : call[p].at \in {"demand.check", "demand.insert"}}

SetDemand(d, status) == demands' = [demands EXCEPT ![d].status = status]

KeepAllButDemands ==
  UNCHANGED <<user, apps, codes, tokens, screening, screened, ghosts, mishaps, requests, faults>>

\* requestDataExport and requestAccountDeletion.
Demand(p, type) ==
  /\ Authenticated /\ Cardinality(Demanding) < Cardinality(FreeDemands)
  /\ Begin(p, "demand.check", type)

\* A deletion waits for no export, but an export for both.
CheckDemands(p) ==
  LET waitsFor == IF call[p].on = "EXPORT" THEN {"EXPORT", "DELETION"} ELSE {"DELETION"}
  IN  /\ At(p, "demand.check")
      /\ IF OpenDemands(waitsFor) # {} THEN End(p) ELSE Goto(p, "demand.insert")
      /\ UNCHANGED demands /\ KeepAllButDemands

\* The user has an answer from here on.
InsertDemand(p) ==
  /\ At(p, "demand.insert")
  /\ \E d \in FreeDemands :
       /\ demands' = [demands EXCEPT ![d] = [type |-> call[p].on, status |-> "PENDING"]]
       /\ call' = [call EXCEPT ![p] = [at |-> "demand.process", on |-> d, seen |-> Seen(p)]]
  /\ KeepAllButDemands

Process(p) ==
  /\ At(p, "demand.process") /\ Goto(p, "demand.work")
  /\ SetDemand(call[p].on, "PROCESSING") /\ KeepAllButDemands

\* The data is collected and written to an archive; a notification follows.
Export(p) ==
  /\ At(p, "demand.work") /\ demands[call[p].on].type = "EXPORT" /\ Goto(p, "demand.notify")
  /\ SetDemand(call[p].on, "COMPLETE") /\ KeepAllButDemands

NotifyExported(p) ==
  /\ At(p, "demand.notify") /\ End(p) /\ UNCHANGED demands /\ KeepAllButDemands

\* anonymizeUserAccount: its transaction updates the entity 'refresh_token', which
\* does not exist (it is 'refresh_tokens'), and is rolled back.
RollBackDeletion(p) ==
  /\ At(p, "demand.work") /\ demands[call[p].on].type = "DELETION" /\ Goto(p, "demand.fail")
  /\ UNCHANGED demands /\ KeepAllButDemands

\* The catch block.  Mutant: it does not tell.
ForgetFailure(p) ==
  /\ At(p, "demand.fail") /\ End(p) /\ UNCHANGED demands /\ KeepAllButDemands

SaveFailure(p) ==
  /\ At(p, "demand.fail") /\ End(p)
  /\ SetDemand(call[p].on, "FAILED") /\ KeepAllButDemands

DataBegin(p) == EraseUser(p) \/ \E type \in {"EXPORT", "DELETION"} : Demand(p, type)

DataStep(p) ==
  \/ Anonymise(p) \/ RevokeErased(p) \/ CheckDemands(p) \/ InsertDemand(p) \/ Process(p)
  \/ Export(p) \/ NotifyExported(p) \/ RollBackDeletion(p) \/ SaveFailure(p)
===============================================================================

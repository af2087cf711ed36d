------------------------------- MODULE TwoFactor -------------------------------
(***************************************************************************)
(* TwoFactorService, and what AuthService does when it is on: a login with *)
(* password and code ends in a partial token, which a TOTP code or one of  *)
(* the backup codes of the user turns into a session.                      *)
(*                                                                         *)
(* The two columns of the user and the rows of the backup codes are        *)
(* written by single statements, after the user has been read.             *)
(***************************************************************************)
EXTENDS Sessions

CONSTANT MaxSets \* bound: sets of backup codes, one after the other

ASSUME TwoFactorAssumption == MaxSets \in Nat \ {0}

Sets == 1 .. MaxSets

VARIABLES
  backups,   \* backups[s]: a set of backup codes, as one code
  partials,  \* partial tokens, by the password of their login
  shown,     \* secrets shown so far; the user may still hold any of them
  confirmed, \* secrets of which a code was checked when two-factor was turned on
  wanted,    \* whether two-factor was last turned on, or off
  recovered  \* recovered[s]: how often the backup code was accepted

factors == <<backups, partials, shown, confirmed, wanted, recovered>>

FactorInit ==
  LET on == user.second
  IN  /\ backups = [s \in Sets |-> IF on /\ s = 1 THEN "LIVE" ELSE "NONE"]
      /\ partials = {}
      /\ shown = user.secret /\ confirmed = {user.secret} \ {0} /\ wanted = on
      /\ recovered = [s \in Sets |-> 0]

Stored == {s \in Sets : backups[s] \in {"LIVE", "USED"}}
Unmade == {s \in Sets : backups[s] = "NONE"}
Replacing == {p \in Calls : call[p].at \in {"confirm", "backups.delete", "backups.insert"}}

\* A request of the user goes on to a place, when the user read is one the method takes.
Ask(p, place) == Authenticated /\ Begin(p, place, 0) /\ UNCHANGED factors

-------------------------------------------------------------------------------
(* Setting it up. *)

\* generateSecret: a new secret turns it off until it is confirmed.
GenerateSecret(p) == Ask(p, "setup")

WriteSecret(p) ==
  /\ At(p, "setup") /\ End(p)
  /\ shown' = shown + 1
  /\ user' = [user EXCEPT !.secret = shown', !.second = FALSE]
  /\ wanted' = FALSE
  /\ UNCHANGED <<tables, ghosts, mishaps, requests, faults, backups, partials, confirmed, recovered>>

\* confirmTwoFactor, with a code of the secret in the row that is read.
ConfirmTwoFactor(p) ==
  /\ user.secret # 0 /\ Cardinality(Replacing) < Cardinality(Unmade)
  /\ Ask(p, "confirm")

WriteEnabled(p) ==
  /\ At(p, "confirm") /\ Goto(p, "backups.delete")
  /\ user' = [user EXCEPT !.second = TRUE]
  /\ confirmed' = confirmed \cup {Seen(p).secret}
  /\ wanted' = TRUE
  /\ mishaps' = IF user.secret # Seen(p).secret THEN mishaps \cup {"secret"} ELSE mishaps
  /\ UNCHANGED <<tables, ghosts, requests, faults, backups, partials, shown, recovered>>

\* disableTwoFactor, with a code of the secret in the row that is read.
DisableTwoFactor(p) == user.second /\ user.secret # 0 /\ Ask(p, "disable")

WriteDisabled(p) ==
  /\ At(p, "disable") /\ Goto(p, "disable.delete")
  /\ user' = [user EXCEPT !.second = FALSE, !.secret = 0]
  /\ wanted' = FALSE
  /\ UNCHANGED <<tables, ghosts, mishaps, requests, faults, backups, partials, shown, confirmed, recovered>>

\* regenerateBackupCodes, and the same at the end of confirmTwoFactor.
RegenerateBackupCodes(p) ==
  /\ user.second /\ user.secret # 0 /\ Cardinality(Replacing) < Cardinality(Unmade)
  /\ Ask(p, "backups.delete")

Gone(s) == IF s \in Stored THEN "GONE" ELSE backups[s]

\* Another one has deleted codes and not yet stored its own, or two-factor is on
\* again, with codes that belong to it.
DeleteBackups(p) ==
  LET crossed == \/ \E q \in Calls \ {p} : At(q, "backups.insert")
                 \/ At(p, "disable.delete") /\ user.second
  IN  /\ \/ At(p, "backups.delete") /\ Goto(p, "backups.insert")
         \/ At(p, "disable.delete") /\ End(p)
      /\ backups' = [s \in Sets |-> Gone(s)]
      /\ mishaps' = IF crossed THEN mishaps \cup {"backups"} ELSE mishaps
      /\ UNCHANGED <<user, tables, ghosts, requests, faults, partials, shown, confirmed, wanted, recovered>>

InsertBackups(p) ==
  /\ At(p, "backups.insert") /\ End(p)
  /\ backups' = [backups EXCEPT ![Min(Unmade)] = "LIVE"]
  /\ UNCHANGED <<user, tables, ghosts, mishaps, requests, faults, partials, shown, confirmed, wanted, recovered>>

-------------------------------------------------------------------------------
(* Logging in with it. *)

\* The end of verifyLoginOtp.  The token is good for 5 minutes, and for any number
\* of tries.
SignPartial(p) ==
  /\ At(p, "partial") /\ End(p)
  /\ partials' = partials \cup {codes[call[p].on.code].password}
  /\ UNCHANGED <<user, tables, ghosts, mishaps, requests, faults, backups, shown, confirmed, wanted, recovered>>

BeginFactor(p, place, b, code, clears) ==
  /\ b \in partials /\ Cardinality(Opening) < Cardinality(FreeTokens)
  /\ Begin(p, place, [type |-> "FACTOR", begun |-> b, code |-> code, clears |-> clears])
  /\ UNCHANGED factors

\* AuthService.verifyTwoFactor, which does not ask whether the user is active, and
\* POST /two-factor/verify, which leaves the failed attempts as they are; both with
\* a code of some secret the user was shown.
VerifyTwoFactor(p, b, secret) == user.second /\ BeginFactor(p, "factor.check", b, secret, TRUE)
ExchangePartial(p, b, secret) == Authenticated /\ BeginFactor(p, "factor.check", b, secret, FALSE)

\* verifyTotpCode reads the user again.
CheckTotp(p) ==
  LET right == user.second /\ user.secret = call[p].on.code
  IN  /\ At(p, "factor.check")
      /\ IF ~ right THEN End(p) ELSE Goto(p, IF call[p].on.clears THEN "factor.clear" ELSE "token")
      /\ UNCHANGED <<user, tables, ghosts, mishaps, requests, faults, factors>>

ClearFactorAttempts(p) ==
  /\ At(p, "factor.clear") /\ Goto(p, "token")
  /\ user' = [user EXCEPT !.attempts = 0, !.locked = FALSE]
  /\ wrong' = 0
  /\ UNCHANGED <<tables, due, accepted, unchecked, cut, erased, mishaps, requests, faults, factors>>

\* recover, with a backup code: found among those that are not used, then marked,
\* if the row is still there, and then taken in any case.
Recover(p, b, s) == user.second /\ BeginFactor(p, "recover.find", b, s, FALSE)

FindBackup(p) ==
  /\ At(p, "recover.find")
  /\ IF backups[call[p].on.code] = "LIVE" THEN Goto(p, "recover.use") ELSE End(p)
  /\ UNCHANGED <<user, tables, ghosts, mishaps, requests, faults, factors>>

UseBackup(p) ==
  LET s == call[p].on.code
  IN  /\ At(p, "recover.use") /\ Goto(p, "token")
      /\ backups' = IF s \in Stored THEN [backups EXCEPT ![s] = "USED"] ELSE backups
      /\ recovered' = [recovered EXCEPT ![s] = @ + 1]
      /\ mishaps' = IF Overlaps(p, "recover.use") THEN mishaps \cup {"code"} ELSE mishaps
      /\ UNCHANGED <<user, tables, ghosts, requests, faults, partials, shown, confirmed, wanted>>

FactorBegin(p) ==
  \/ GenerateSecret(p) \/ ConfirmTwoFactor(p) \/ DisableTwoFactor(p) \/ RegenerateBackupCodes(p)
  \/ \E b \in partials :
       \/ \E k \in 1 .. shown : VerifyTwoFactor(p, b, k) \/ ExchangePartial(p, b, k)
       \/ \E s \in Sets : Recover(p, b, s)

FactorStep(p) ==
  \/ WriteSecret(p) \/ WriteEnabled(p) \/ WriteDisabled(p) \/ DeleteBackups(p) \/ InsertBackups(p)
  \/ SignPartial(p) \/ CheckTotp(p) \/ ClearFactorAttempts(p) \/ FindBackup(p) \/ UseBackup(p)
===============================================================================

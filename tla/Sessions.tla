------------------------------- MODULE Sessions -------------------------------
(***************************************************************************)
(* AuthService with OtpsService and RefreshTokensService: a password gets  *)
(* a one-time code sent, a code opens a session or sets a new password,    *)
(* and wrong codes lock the user.  When two-factor authentication is on, a *)
(* code opens no session: TwoFactor goes on from there.                    *)
(*                                                                         *)
(* None of it is a transaction: what is checked is read, and what follows  *)
(* from it is written, by single statements.                               *)
(***************************************************************************)
EXTENDS Accounts

Live(type) == {c \in Codes : codes[c].type = type /\ ~ codes[c].used}
NextCodes == {c \in Codes : codes[c] = NoCode}
OpeningPlaces == {"code.find", "code.use", "clear", "partial", "factor.check", "factor.clear",
                  "recover.find", "recover.use", "token"}
Opening == {p \in Calls : call[p].at \in OpeningPlaces}
FreeTokens == {t \in Tokens : tokens[t] = 0}
Issuing == {p \in Calls : call[p].at \in {"code.invalidate", "code.insert"}}

\* login, loginV2 and forgotPassword: the user is found by the address; the first
\* two compare the password of the request, which is the one the user has.
\* loginV2 does not ask whether the user is active.
SendCode(p, type) ==
  /\ user.email /\ (type = "LOGIN" => user.password # 0)
  /\ Cardinality(Issuing) < Cardinality(NextCodes)
  /\ Begin(p, "code.invalidate", type)

\* generateOtp.
Invalidate(p) ==
  /\ At(p, "code.invalidate") /\ Goto(p, "code.insert")
  /\ codes' = [c \in Codes |-> IF c \in Live(call[p].on) THEN [codes[c] EXCEPT !.used = TRUE] ELSE codes[c]]
  /\ UNCHANGED <<user, apps, tokens, demands, screening, screened, ghosts, mishaps, requests, faults>>

InsertCode(p) ==
  /\ At(p, "code.insert") /\ End(p)
  /\ codes' = [codes EXCEPT ![Min(NextCodes)] =
                 [type |-> call[p].on, used |-> FALSE, password |-> Seen(p).password]]
  /\ mishaps' = IF user.password # Seen(p).password THEN mishaps \cup {"session"} ELSE mishaps
  /\ UNCHANGED <<user, apps, tokens, demands, screening, screened, ghosts, requests, faults>>

\* verifyLoginOtp and resetPassword: the lock is looked at in the user as read, and
\* the code of the request is compared with the newest one that lives.
UseCode(p, type, guess) ==
  /\ user.email /\ ~ user.locked
  /\ type = "LOGIN" => user.active
  /\ type = "LOGIN" => Cardinality(Opening) < Cardinality(FreeTokens)
  /\ Begin(p, "code.find", [type |-> type, code |-> guess])

FindCode(p) ==
  LET live == Live(call[p].on.type)
  IN  /\ At(p, "code.find")
      /\ IF live = {} THEN End(p)
         ELSE Goto(p, IF Max(live) = call[p].on.code THEN "code.use" ELSE "code.wrong")
      /\ UNCHANGED <<user, tables, ghosts, mishaps, requests, faults>>

\* handleFailedOtpAttempt: the count is that of the user as read, and one.
\* Mutant: it locks one wrong code too late.
LockLater(p) ==
  LET count == Seen(p).attempts + 1
  IN  /\ At(p, "code.wrong") /\ End(p)
      /\ user' = [user EXCEPT !.attempts = count, !.locked = @ \/ count > MAX_FAILED_ATTEMPTS]
      /\ wrong' = wrong + 1
      /\ mishaps' = IF user.attempts # Seen(p).attempts THEN mishaps \cup {"attempts"} ELSE mishaps
      /\ UNCHANGED <<tables, due, accepted, unchecked, cut, erased, requests, faults>>

CountWrong(p) ==
  LET count == Seen(p).attempts + 1
  IN  /\ At(p, "code.wrong") /\ End(p)
      /\ user' = [user EXCEPT !.attempts = count, !.locked = @ \/ count >= MAX_FAILED_ATTEMPTS]
      /\ wrong' = wrong + 1
      /\ mishaps' = IF user.attempts # Seen(p).attempts THEN mishaps \cup {"attempts"} ELSE mishaps
      /\ UNCHANGED <<tables, due, accepted, unchecked, cut, erased, requests, faults>>

\* Another request has found the same code and not yet marked it.
Overlaps(p, place) == \E q \in Calls \ {p} : At(q, place) /\ call[q].on.code = call[p].on.code

\* The code is marked as used, whether or not somebody else has done so.
MarkUsed(p) ==
  LET c == call[p].on.code
  IN  /\ At(p, "code.use") /\ Goto(p, "clear")
      /\ codes' = [codes EXCEPT ![c].used = TRUE]
      /\ accepted' = [accepted EXCEPT ![c] = @ + 1]
      /\ mishaps' = IF Overlaps(p, "code.use") THEN mishaps \cup {"code"} ELSE mishaps
      /\ UNCHANGED <<user, apps, tokens, demands, screening, screened, due, wrong, unchecked, cut, erased,
                     requests, faults>>

ClearAttempts(p) ==
  /\ At(p, "clear")
  /\ Goto(p, IF call[p].on.type # "LOGIN" THEN "password"
             ELSE IF Seen(p).second THEN "partial" ELSE "token")
  /\ user' = [user EXCEPT !.attempts = 0, !.locked = FALSE]
  /\ wrong' = 0
  /\ UNCHANGED <<tables, due, accepted, unchecked, cut, erased, mishaps, requests, faults>>

\* issueAuthTokens, for the password that has opened the login.
IssueToken(p) ==
  LET first == call[p].on.type = "LOGIN"
      begun == IF first THEN codes[call[p].on.code].password ELSE call[p].on.begun
  IN  /\ At(p, "token") /\ End(p)
      /\ tokens' = [tokens EXCEPT ![CHOOSE t \in FreeTokens : TRUE] = begun]
      /\ mishaps' = mishaps \cup {m \in {"session"} : user.password # begun}
                            \cup {m \in {"second"} : first /\ user.second # Seen(p).second}
      /\ UNCHANGED <<user, apps, codes, demands, screening, screened, ghosts, requests, faults>>

\* updatePassword, revokeAllUserTokens and invalidateAllUserOtps.
SetPassword(p) ==
  /\ At(p, "password") /\ Goto(p, "revoke")
  /\ user' = [user EXCEPT !.password = call[p].on.code + 1]
  /\ mishaps' = IF erased THEN mishaps \cup {"password"} ELSE mishaps
  /\ UNCHANGED <<tables, ghosts, requests, faults>>

\* Mutant: other sessions survive a new password.
RevokeNothing(p) ==
  /\ At(p, "revoke") /\ Goto(p, "codes")
  /\ UNCHANGED <<user, tables, ghosts, mishaps, requests, faults>>

RevokeTokens(p) ==
  /\ At(p, "revoke") /\ Goto(p, "codes")
  /\ tokens' = [t \in Tokens |-> 0]
  /\ UNCHANGED <<user, apps, codes, demands, screening, screened, ghosts, mishaps, requests, faults>>

InvalidateAll(p) ==
  /\ At(p, "codes") /\ End(p)
  /\ codes' = [c \in Codes |-> [codes[c] EXCEPT !.used = TRUE]]
  /\ UNCHANGED <<user, apps, tokens, demands, screening, screened, ghosts, mishaps, requests, faults>>

\* logout, with the token, and logoutAllDevices.
Logout(p, S) ==
  /\ At(p, "idle") /\ requests < MaxRequests /\ requests' = requests + 1
  /\ Authenticated /\ \E t \in S : tokens[t] # 0
  /\ tokens' = [t \in Tokens |-> IF t \in S THEN 0 ELSE tokens[t]]
  /\ UNCHANGED <<user, apps, codes, demands, screening, screened, call, ghosts, mishaps, faults>>

SessionsBegin(p) ==
  \/ \E type \in {"LOGIN", "PASSWORD_RESET"} :
       SendCode(p, type) \/ \E guess \in {0} \cup {c \in Codes : codes[c].type = type} : UseCode(p, type, guess)
  \/ \E S \in {Tokens} \cup {{t} : t \in Tokens} : Logout(p, S)

SessionsStep(p) ==
  \/ Invalidate(p) \/ InsertCode(p) \/ FindCode(p) \/ CountWrong(p) \/ MarkUsed(p) \/ ClearAttempts(p)
  \/ IssueToken(p) \/ SetPassword(p) \/ RevokeTokens(p) \/ InvalidateAll(p)
===============================================================================

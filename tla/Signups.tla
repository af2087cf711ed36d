-------------------------------- MODULE Signups --------------------------------
(***************************************************************************)
(* AuthService: how an account comes to be.  A signup makes an account for *)
(* an address and sends a code, which verifies it; a login by way of an    *)
(* OAuth provider finds the account, links one, or makes one.  As long as  *)
(* the address is not verified, another signup replaces the account.       *)
(*                                                                         *)
(* One address, and one account at one provider.  With the row of a user   *)
(* go the rows that refer to it; a statement that inserts one of these for *)
(* a user who is gone fails, and ends the request.                         *)
(***************************************************************************)
EXTENDS Accounts

CONSTANT People \* the ids of the accounts there may be, one after the other

ASSUME SignupsAssumption == IsFiniteSet(People)

VARIABLES
  people,   \* the row of each, and what refers to it
  sessions, \* those with a refresh token
  proven    \* those whose address was verified

guests == <<people, sessions, proven>>

\* isVerified, password, the wallet, the oauth_accounts row, and whether a code lives.
Nobody == [row |-> "NEW", verified |-> FALSE, password |-> FALSE, wallet |-> FALSE,
           linked |-> FALSE, code |-> FALSE]

Present == {i \in People : people[i].row = "STORED"}
Linked == {i \in Present : people[i].linked}
Coming == {i \in People : people[i].row = "NEW"}
Creating == {p \in Calls : call[p].at \in {"signup.delete", "signup.insert", "oauth.find", "oauth.insert"}}

SignupsInit == people = [i \in People |-> Nobody] /\ sessions = {} /\ proven = {}

GuestsOnly == UNCHANGED <<user, tables, ghosts, mishaps, requests, faults>>

\* The account the call is about, if it is still there, is changed, and the call goes on.
Change(p, column, value, place) ==
  LET i == call[p].on
  IN  /\ IF i \in Present
         THEN people' = [people EXCEPT ![i][column] = value] /\ Goto(p, place)
         ELSE UNCHANGED people /\ End(p)
      /\ UNCHANGED <<sessions, proven>> /\ GuestsOnly

Finish(p, column, value) ==
  LET i == call[p].on
  IN  /\ people' = IF i \in Present THEN [people EXCEPT ![i][column] = value] ELSE people
      /\ End(p) /\ UNCHANGED <<sessions, proven>> /\ GuestsOnly

\* createUser: the address must be free; it is a unique column, too.
Create(p, password, place) ==
  LET i == CHOOSE i \in Coming : TRUE
  IN  /\ IF Present = {}
         THEN /\ people' = [people EXCEPT ![i].row = "STORED", ![i].password = password]
              /\ call' = [call EXCEPT ![p].at = place, ![p].on = i]
         ELSE UNCHANGED people /\ End(p)
      /\ UNCHANGED <<sessions, proven>> /\ GuestsOnly

-------------------------------------------------------------------------------
\* signup.  Mutant: an account is replaced although its address was verified.
SignUpAnyway(p) ==
  /\ Cardinality(Creating) < Cardinality(Coming)
  /\ \/ Present = {} /\ Begin(p, "signup.insert", 0)
     \/ \E i \in Present : Begin(p, "signup.delete", [account |-> i, verified |-> people[i].verified])
  /\ UNCHANGED guests

SignUp(p) ==
  /\ Cardinality(Creating) < Cardinality(Coming)
  /\ \/ Present = {} /\ Begin(p, "signup.insert", 0)
     \/ \E i \in Present :
          ~ people[i].verified /\ Begin(p, "signup.delete", [account |-> i, verified |-> FALSE])
  /\ UNCHANGED guests

\* deleteById: whatever has happened to the account meanwhile.
DeleteUnverified(p) ==
  LET on == call[p].on
  IN  /\ At(p, "signup.delete") /\ Goto(p, "signup.insert")
      /\ people' = [people EXCEPT ![on.account] = [Nobody EXCEPT !.row = "GONE"]]
      /\ sessions' = sessions \ {on.account}
      /\ mishaps' = IF people[on.account].verified /\ ~ on.verified THEN mishaps \cup {"signup"} ELSE mishaps
      /\ UNCHANGED <<user, tables, ghosts, requests, faults, proven>>

InsertGuest(p) == At(p, "signup.insert") /\ Create(p, TRUE, "signup.wallet")

\* seedPrimaryWalletFromUserCredentials.
SeedWallet(p) ==
  \/ At(p, "signup.wallet") /\ Change(p, "wallet", TRUE, "signup.code")
  \/ At(p, "oauth.wallet") /\ Change(p, "wallet", TRUE, "oauth.link")

\* resendSignupOtp; the code is made by generateOtp, here in one step.
ResendCode(p) ==
  /\ \E i \in Present : ~ people[i].verified /\ Begin(p, "signup.code", i)
  /\ UNCHANGED guests

SendSignupCode(p) == At(p, "signup.code") /\ Finish(p, "code", TRUE)

\* verifySignupOtp, with the code: it is found and marked as used, here in one step;
\* Sessions has what happens in between.
VerifySignup(p) ==
  /\ \E i \in Present : ~ people[i].verified /\ Begin(p, "verify.code", i)
  /\ UNCHANGED guests

UseSignupCode(p) ==
  /\ At(p, "verify.code")
  /\ IF people[call[p].on].code THEN Change(p, "code", FALSE, "verify.user")
     ELSE End(p) /\ UNCHANGED guests /\ GuestsOnly

\* verifyUser looks the user up, and updates a row that may be gone by then.
LookUp(p) ==
  /\ call[p].at \in {"verify.user", "oauth.user"}
  /\ IF call[p].on \notin Present THEN End(p)
     ELSE Goto(p, IF At(p, "verify.user") THEN "verify.update" ELSE "oauth.update")
  /\ UNCHANGED guests /\ GuestsOnly

MarkVerified(p) ==
  LET i == call[p].on
  IN  /\ call[p].at \in {"verify.update", "oauth.update"}
      /\ Goto(p, IF At(p, "verify.update") THEN "verify.token" ELSE "oauth.wallet")
      /\ IF i \in Present
         THEN people' = [people EXCEPT ![i].verified = TRUE] /\ proven' = proven \cup {i}
         ELSE UNCHANGED <<people, proven>>
      /\ UNCHANGED sessions /\ GuestsOnly

\* createRefreshToken.
OpenSession(p) ==
  /\ call[p].at \in {"verify.token", "oauth.token"} /\ End(p)
  /\ sessions' = sessions \cup ({call[p].on} \cap Present)
  /\ UNCHANGED <<people, proven>> /\ GuestsOnly

-------------------------------------------------------------------------------
\* handleOAuthLogin: by the account at the provider, or else by the address.
ContinueWith(p) ==
  /\ \/ \E i \in Linked : Begin(p, "oauth.save", i)
     \/ Linked = {} /\ Cardinality(Creating) < Cardinality(Coming) /\ Begin(p, "oauth.find", 0)
  /\ UNCHANGED guests

FindByEmail(p) ==
  /\ At(p, "oauth.find")
  /\ \/ Present = {} /\ Goto(p, "oauth.insert")
     \/ \E i \in Present : call' = [call EXCEPT ![p].at = "oauth.link", ![p].on = i]
  /\ UNCHANGED guests /\ GuestsOnly

\* The save inserts a link again that was deleted meanwhile.
SaveLink(p) == At(p, "oauth.save") /\ Change(p, "linked", TRUE, "oauth.check")

InsertOAuth(p) == At(p, "oauth.insert") /\ Create(p, FALSE, "oauth.user")

\* The account at the provider is a key of oauth_accounts.
LinkAccount(p) ==
  /\ At(p, "oauth.link")
  /\ IF Linked = {} THEN Change(p, "linked", TRUE, "oauth.check")
     ELSE End(p) /\ UNCHANGED guests /\ GuestsOnly

\* issueFullAccessToken.
CheckVerified(p) ==
  LET i == call[p].on
  IN  /\ At(p, "oauth.check")
      /\ IF i \in Present /\ people[i].verified THEN Goto(p, "oauth.token") ELSE End(p)
      /\ UNCHANGED guests /\ GuestsOnly

\* unlinkOAuth, of a user who has a password, and setPassword, of one who has none.
Unlink(p) ==
  /\ \E i \in Linked \cap sessions : people[i].password /\ Begin(p, "unlink", i)
  /\ UNCHANGED guests

DeleteLink(p) == At(p, "unlink") /\ Finish(p, "linked", FALSE)

SetFirstPassword(p) ==
  /\ \E i \in Present \cap sessions : ~ people[i].password /\ Begin(p, "password.first", i)
  /\ UNCHANGED guests

WritePassword(p) == At(p, "password.first") /\ Finish(p, "password", TRUE)

SignupsBegin(p) ==
  \/ SignUp(p) \/ ResendCode(p) \/ VerifySignup(p)
  \/ ContinueWith(p) \/ Unlink(p) \/ SetFirstPassword(p)

SignupsStep(p) ==
  \/ DeleteUnverified(p) \/ InsertGuest(p) \/ SeedWallet(p) \/ SendSignupCode(p)
  \/ UseSignupCode(p) \/ LookUp(p) \/ MarkVerified(p) \/ OpenSession(p)
  \/ FindByEmail(p) \/ SaveLink(p) \/ InsertOAuth(p) \/ LinkAccount(p) \/ CheckVerified(p)
  \/ DeleteLink(p) \/ WritePassword(p)
===============================================================================

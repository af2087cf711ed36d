------------------------------- MODULE Accounts -------------------------------
(***************************************************************************)
(* The row of a user, and the tables that go with it: what Kyc, Sessions   *)
(* and DataRequests share, and the operations of UsersService on the row.  *)
(*                                                                         *)
(* Two ways of writing the row live side by side.  update(id, columns)     *)
(* writes the columns it names; save(entity) writes every column in which  *)
(* the entity differs from the row, among them those that others have      *)
(* changed since the entity was read.  A save, its SELECT and its UPDATE,  *)
(* is one step here, and so is the arrival of a request with the check of  *)
(* its token and its first SELECT of the user.                             *)
(***************************************************************************)
EXTENDS Integers, FiniteSets, FiniteSetsExt

CONSTANTS
  Calls,       \* requests being handled: of the user, reviewers, admins, cron jobs
  Apps,        \* the applications there may be for a tier
  MaxCodes,    \* bound: one-time codes 1 .. MaxCodes, in the order of their rows
  Tokens,      \* the refresh tokens there may be
  Demands,     \* the requests for data, or deletion, there may be
  MAX_FAILED_ATTEMPTS,
  MaxRequests, \* bound: requests in a behaviour
  MaxFaults    \* bound: failing statements, crashes, failing providers

Codes == 1 .. MaxCodes

ASSUME AccountsAssumption ==
  /\ IsFiniteSet(Calls) /\ IsFiniteSet(Apps)
  /\ {MaxCodes, MaxRequests, MaxFaults} \subseteq Nat
  /\ MAX_FAILED_ATTEMPTS \in Nat \ {0}

\* kycTier; NONE is left behind when the address is verified.
BASIC == 1
STANDARD == 2
ENHANCED == 3

VARIABLES
  user,      \* the columns of the row
  apps,      \* kyc_applications: status and target tier
  codes,     \* otps: what for, whether used, and for which password
  tokens,    \* refresh_tokens: the password the session was begun with, 0 if revoked
  demands,   \* data_requests: type and status
  screening, \* approved applications whose screening is under way
  screened,  \* those whose screening is stored
  call,      \* call[p]: where a request is, what it is about, the user it read
  due,       \* the money of the user by all the changes that were committed
  accepted,  \* accepted[c]: how often a code was accepted
  wrong,     \* wrong codes since the attempts were last cleared
  unchecked, \* applications submitted while another one was open or the tier moved
  cut,       \* requests for data whose work a fault has cut off
  erased,    \* the user has been erased
  mishaps,   \* what went wrong so far
  requests,  \* requests so far
  faults     \* faults so far

tables == <<apps, codes, tokens, demands, screening, screened>>
ghosts == <<due, accepted, wrong, unchecked, cut, erased>>
vars == <<user, apps, codes, tokens, demands, screening, screened, call, due, accepted,
          wrong, unchecked, cut, erased, mishaps, requests, faults>>

\* The address the user is found by, the names, the password (a number that
\* grows, 0 for none), isActive, isDeleted, kycTier, balances, failedLoginAttempts,
\* whether lockedUntil lies ahead, twoFactorSecret (a number, too) and isTwoFactorEnabled.
Fresh(tier) == [email |-> TRUE, names |-> TRUE, password |-> 1, active |-> TRUE, deleted |-> FALSE,
                tier |-> tier, money |-> 0, attempts |-> 0, locked |-> FALSE,
                secret |-> 0, second |-> FALSE]

Columns == DOMAIN Fresh(BASIC)

\* A column on which a write was based, or overwritten, that was not as read; an
\* application decided by one who had not seen it decided; a code taken by two
\* requests at a time; a session for a password that has been replaced; tokens a
\* fault has kept alive; backup codes written by two requests at a time; a super-admin
\* demoted by one who had counted another; an experiment run again after its end;
\* an account verified after a signup has read it, and deleted by that.
Mishaps == Columns \cup {"review", "code", "session", "kept", "backups", "role", "experiment", "signup"}

NoApp == [status |-> "NONE", target |-> BASIC]
NoCode == [type |-> "NONE", used |-> TRUE, password |-> 0]
NoDemand == [type |-> "NONE", status |-> "NONE"]

Idle == [at |-> "idle", on |-> 0, seen |-> Fresh(BASIC)]

\* The user has verified the address, and may have turned on two-factor authentication,
\* or been approved for STANDARD.
Init ==
  /\ \/ /\ user \in {Fresh(BASIC), [Fresh(BASIC) EXCEPT !.secret = 1, !.second = TRUE]}
        /\ apps = [a \in Apps |-> NoApp]
     \/ /\ user = Fresh(STANDARD)
        /\ \E b \in Apps : apps = [a \in Apps |->
             IF a = b THEN [status |-> "APPROVED", target |-> STANDARD] ELSE NoApp]
  /\ codes = [c \in Codes |-> NoCode]
  /\ tokens = [t \in Tokens |-> 0]
  /\ demands = [d \in Demands |-> NoDemand]
  /\ screening = {} /\ screened = {a \in Apps : apps[a].status = "APPROVED"}
  /\ call = [p \in Calls |-> Idle]
  /\ due = 0 /\ accepted = [c \in Codes |-> 0] /\ wrong = 0
  /\ unchecked = {} /\ cut = {} /\ erased = FALSE /\ mishaps = {}
  /\ requests = 0 /\ faults = 0

-------------------------------------------------------------------------------
At(p, place) == call[p].at = place

Seen(p) == call[p].seen

Goto(p, place) == call' = [call EXCEPT ![p].at = place]

End(p) == call' = [call EXCEPT ![p] = Idle]

\* A request about x arrives; the user is read, and the handler goes on to a place.
Begin(p, place, x) ==
  /\ At(p, "idle") /\ requests < MaxRequests
  /\ call' = [call EXCEPT ![p] = [at |-> place, on |-> x, seen |-> user]]
  /\ requests' = requests + 1
  /\ UNCHANGED <<user, tables, ghosts, mishaps, faults>>

\* JwtStrategy.validate; the suspension of users is left out.
Authenticated == user.active /\ ~ user.deleted

\* The columns a save overwrites that are not as its entity was read.
Undone(seen, entity) == {c \in Columns : user[c] # seen[c] /\ entity[c] # user[c]}

Save(p, entity) ==
  /\ user' = entity
  /\ mishaps' = mishaps \cup Undone(Seen(p), entity)

-------------------------------------------------------------------------------
(* UsersService, and who else writes the row *)

\* updateProfile writes the names of a user it has looked up.
UpdateProfile(p) == Authenticated /\ Begin(p, "profile", 0)

WriteProfile(p) ==
  /\ At(p, "profile") /\ End(p)
  /\ user' = [user EXCEPT !.names = TRUE]
  /\ mishaps' = IF user.names THEN mishaps ELSE mishaps \cup {"names"}
  /\ UNCHANGED <<tables, ghosts, requests, faults>>

\* updateNotificationPreferences, updateFcmToken and GdprService.updateConsent save
\* the entity, changed in columns nothing here depends on.
UpdatePreferences(p) == Authenticated /\ Begin(p, "preferences", 0)

SavePreferences(p) ==
  /\ At(p, "preferences") /\ End(p)
  /\ Save(p, Seen(p))
  /\ UNCHANGED <<tables, ghosts, requests, faults>>

\* updateUserStatus, by an admin, whoever the user is, and softDelete.
UpdateUserStatus(p, active) ==
  /\ At(p, "idle") /\ requests < MaxRequests /\ requests' = requests + 1
  /\ user.active # active /\ (~ active => Authenticated)
  /\ user' = [user EXCEPT !.active = active]
  /\ mishaps' = IF erased THEN mishaps \cup {"active"} ELSE mishaps
  /\ UNCHANGED <<tables, call, ghosts, faults>>

\* deleteProfile; nothing that runs takes the account further.
DeleteProfile(p) ==
  /\ At(p, "idle") /\ requests < MaxRequests /\ requests' = requests + 1
  /\ Authenticated
  /\ user' = [user EXCEPT !.deleted = TRUE]
  /\ UNCHANGED <<tables, call, ghosts, mishaps, faults>>

\* A service that holds the lock of the row changes the balances.
ChangeBalance(p) ==
  /\ At(p, "idle") /\ requests < MaxRequests /\ requests' = requests + 1
  /\ user' = [user EXCEPT !.money = @ + 1] /\ due' = due + 1
  /\ UNCHANGED <<tables, call, accepted, wrong, unchecked, cut, erased, mishaps, faults>>

\* syncWalletBalanceSnapshots, of two cron jobs, for every user: the balances are
\* replaced by those of the account on Stellar, where no change by a service shows.
SyncBalances(p) == Begin(p, "sync", 0)

WriteBalances(p) ==
  /\ At(p, "sync") /\ End(p)
  /\ user' = [user EXCEPT !.money = 0]
  /\ mishaps' = IF user.money # 0 THEN mishaps \cup {"money"} ELSE mishaps
  /\ UNCHANGED <<tables, ghosts, requests, faults>>

\* lockedUntil passes.
Unlock ==
  /\ user.locked /\ user' = [user EXCEPT !.locked = FALSE]
  /\ UNCHANGED <<tables, call, ghosts, mishaps, requests, faults>>

UsersBegin(p) ==
  \/ UpdateProfile(p) \/ UpdatePreferences(p) \/ SyncBalances(p) \/ DeleteProfile(p)
  \/ ChangeBalance(p) \/ \E active \in BOOLEAN : UpdateUserStatus(p, active)

UsersStep(p) == WriteProfile(p) \/ SavePreferences(p) \/ WriteBalances(p)
===============================================================================

--------------------------------- MODULE Roles ---------------------------------
(***************************************************************************)
(* SuperAdminService: who has the role of a super-admin makes accounts for *)
(* administrators and changes the roles of others, but may not demote the  *)
(* last super-admin.  The target is read, the super-admins are counted,    *)
(* and the role is saved, without a transaction.                           *)
(***************************************************************************)
EXTENDS Accounts

CONSTANT Staff \* the accounts of administrators there are or may be

VARIABLES
  roles,    \* User.role of each, "NONE" for an account not yet made
  verified  \* those with isVerified, who can log in

offices == <<roles, verified>>

Supers == {a \in Staff : roles[a] = "SUPER_ADMIN"}
InCharge == Supers \cap verified

RolesInit ==
  /\ roles \in [Staff -> {"NONE", "SUPER_ADMIN"}] /\ Supers # {}
  /\ verified = Supers

\* updateManagedAdminRole and demoteAdmin: never the own role.
ChangeRole(p, actor, a, role) ==
  /\ actor \in InCharge \ {a} /\ roles[a] # "NONE"
  /\ Begin(p, "role.target", [account |-> a, role |-> role])
  /\ UNCHANGED offices

\* The target is read, as it is now.
ReadTarget(p) ==
  LET a == call[p].on.account
      demotes == roles[a] = "SUPER_ADMIN"
  IN  /\ At(p, "role.target")
      /\ IF roles[a] = call[p].on.role THEN End(p)
         ELSE Goto(p, IF demotes THEN "role.count" ELSE "role.save")
      /\ UNCHANGED <<user, tables, ghosts, mishaps, requests, faults, offices>>

\* assertSuperAdminDemotionSafety.  Mutant: one too few is enough.
CountNone(p) ==
  /\ At(p, "role.count")
  /\ IF Supers = {} THEN End(p) ELSE Goto(p, "role.save")
  /\ UNCHANGED <<user, tables, ghosts, mishaps, requests, faults, offices>>

CountSupers(p) ==
  /\ At(p, "role.count")
  /\ IF Cardinality(Supers) <= 1 THEN End(p) ELSE Goto(p, "role.save")
  /\ UNCHANGED <<user, tables, ghosts, mishaps, requests, faults, offices>>

Demotes(p) ==
  At(p, "role.save") /\ roles[call[p].on.account] = "SUPER_ADMIN" /\ call[p].on.role # "SUPER_ADMIN"

\* Two who demote have both counted before either saves, or one of them has not, for
\* it read another role.
SaveRole(p) ==
  /\ At(p, "role.save") /\ End(p)
  /\ roles' = [roles EXCEPT ![call[p].on.account] = call[p].on.role]
  /\ mishaps' = IF Demotes(p) /\ \E q \in Calls \ {p} : Demotes(q) THEN mishaps \cup {"role"} ELSE mishaps
  /\ UNCHANGED <<user, tables, ghosts, requests, faults, verified>>

\* createAdmin: a wallet and a code are made, the row is inserted, a key of which is
\* the address, the wallet is seeded, and only then is the account verified.
CreateAdmin(p, actor, a, role) ==
  /\ actor \in InCharge /\ roles[a] = "NONE" /\ role # "USER"
  /\ Begin(p, "admin.insert", [account |-> a, role |-> role])
  /\ UNCHANGED offices

InsertAdmin(p) ==
  LET a == call[p].on.account
  IN  /\ At(p, "admin.insert")
      /\ IF roles[a] = "NONE"
         THEN roles' = [roles EXCEPT ![a] = call[p].on.role] /\ Goto(p, "admin.verify")
         ELSE UNCHANGED roles /\ End(p)
      /\ UNCHANGED <<user, tables, ghosts, mishaps, requests, faults, verified>>

VerifyAdmin(p) ==
  /\ At(p, "admin.verify") /\ End(p)
  /\ verified' = verified \cup {call[p].on.account}
  /\ UNCHANGED <<user, tables, ghosts, mishaps, requests, faults, roles>>

RolesBegin(p) ==
  \E actor \in InCharge, a \in Staff, role \in {"USER", "ADMIN", "SUPER_ADMIN"} :
    ChangeRole(p, actor, a, role) \/ CreateAdmin(p, actor, a, role)

RolesStep(p) == ReadTarget(p) \/ CountSupers(p) \/ SaveRole(p) \/ InsertAdmin(p) \/ VerifyAdmin(p)
===============================================================================

---------------------------- MODULE MCAccountLife ----------------------------
(***************************************************************************)
(* Instances of AccountLife for TLC, in seven scenes: in "review" there    *)
(* are applications and their reviews, in "session" codes, passwords and   *)
(* an erasure, in "factor" logins of a user who has two-factor             *)
(* authentication, or turns it on or off, each with a save of the user     *)
(* that was read before; in "row" everybody but Sessions and TwoFactor     *)
(* writes the row; in "roles", "trial" and "signup" there are              *)
(* administrators, an experiment, and accounts that are made.              *)
(***************************************************************************)
EXTENDS AccountLife

CONSTANTS c1, c2, a1, a2, t1, t2, d1, d2, s1, s2, s3, v1, v2, g1, g2, g3, MaxRowRequests,
  MaxSceneRequests

VARIABLE scene

LogIn(p) == SendCode(p, "LOGIN") \/ \E c \in Codes : codes[c].type = "LOGIN" /\ UseCode(p, "LOGIN", c)

Scenes ==
  /\ scene' = scene
  /\ \/ \E p \in Calls :
          \/ Step(p)
          \/ scene = "factor" /\ requests < MaxSceneRequests /\ UNCHANGED <<offices, trials, guests>> /\ FactorBegin(p)
          \/ scene = "roles" /\ requests < MaxSceneRequests /\ UNCHANGED <<factors, trials, guests>> /\ RolesBegin(p)
          \/ scene = "trial" /\ requests < MaxSceneRequests /\ UNCHANGED <<factors, offices, guests>> /\ ExperimentsBegin(p)
          \/ scene = "signup" /\ UNCHANGED <<factors, offices, trials>> /\ SignupsBegin(p)
          \/ /\ UNCHANGED beside
             /\ \/ Die(p) \/ FailWork(p)
                \/ scene = "review" /\ (KycBegin(p) \/ UpdatePreferences(p))
                \/ scene = "session" /\ (SessionsBegin(p) \/ EraseUser(p) \/ UpdatePreferences(p))
                \/ scene = "factor" /\ requests < MaxSceneRequests /\ (LogIn(p) \/ EraseUser(p) \/ UpdatePreferences(p))
                \/ /\ scene = "row" /\ requests < MaxRowRequests
                   /\ (KycBegin(p) \/ DataBegin(p) \/ UsersBegin(p))
     \/ \E a \in Apps : Screening(a)
     \/ Unlock /\ UNCHANGED beside

MCInit ==
  /\ LifeInit /\ scene \in {"review", "session", "factor", "row", "roles", "trial", "signup"}
  /\ user.second => scene = "factor"
  /\ scene \in {"session", "factor", "roles", "trial", "signup"} => user.tier = BASIC
  /\ Supers = IF scene = "roles" THEN {s1, s2} ELSE {s1}
  /\ scene # "trial" => experiment = Absent

MCSpec == MCInit /\ [][Scenes]_<<lifeVars, scene>> /\ Fairness
==============================================================================

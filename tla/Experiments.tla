------------------------------ MODULE Experiments ------------------------------
(***************************************************************************)
(* ExperimentsService: administrators make an experiment, run, pause and   *)
(* conclude it; a user who asks while it runs is assigned to a variant and *)
(* must be shown that one from then on.                                    *)
(*                                                                         *)
(* One experiment, by its key, and the assignment of the user.  The bucket *)
(* of the user lies within the percentage of the traffic or does not.      *)
(***************************************************************************)
EXTENDS Accounts

CONSTANT Variants

VARIABLES
  experiment, \* the row: status, and whether the traffic includes the user
  variants,   \* whether the rows of its variants are stored
  assigned,   \* the variants in the rows of experiment_assignments for the user
  told,       \* the variants the user was shown
  concluded   \* the experiment has been concluded

trials == <<experiment, variants, assigned, told, concluded>>

Absent == [status |-> "ABSENT", traffic |-> FALSE]

ExperimentsInit ==
  /\ \/ experiment = Absent /\ variants = FALSE
     \/ experiment = [status |-> "RUNNING", traffic |-> TRUE] /\ variants = TRUE
  /\ assigned = {} /\ told = {} /\ concluded = FALSE

\* createExperiment: the key must be free; it is a unique column, too.
CreateExperiment(p, traffic) ==
  /\ experiment = Absent /\ Begin(p, "experiment.insert", traffic)
  /\ UNCHANGED trials

InsertExperiment(p) ==
  /\ At(p, "experiment.insert")
  /\ IF experiment = Absent
     THEN /\ experiment' = [status |-> "DRAFT", traffic |-> call[p].on]
          /\ Goto(p, "experiment.variants")
     ELSE UNCHANGED experiment /\ End(p)
  /\ UNCHANGED <<user, tables, ghosts, mishaps, requests, faults, variants, assigned, told, concluded>>

InsertVariants(p) ==
  /\ At(p, "experiment.variants") /\ End(p)
  /\ variants' = TRUE
  /\ UNCHANGED <<user, tables, ghosts, mishaps, requests, faults, experiment, assigned, told, concluded>>

\* updateExperiment: a concluded experiment is not run again.
UpdateExperiment(p, entity) ==
  /\ experiment # Absent /\ entity # experiment
  /\ ~ (entity.status = "RUNNING" /\ experiment.status = "CONCLUDED")
  /\ Begin(p, "experiment.save", [read |-> experiment, entity |-> entity])
  /\ UNCHANGED trials

\* The entity is saved as a whole; nothing keeps a concluded experiment from being
\* paused, or made a draft, first.
SaveExperiment(p) ==
  LET on == call[p].on
      reopens == experiment.status = "CONCLUDED" /\ on.entity.status # "CONCLUDED"
  IN  /\ At(p, "experiment.save") /\ End(p)
      /\ experiment' = on.entity
      /\ concluded' = (concluded \/ on.entity.status = "CONCLUDED")
      /\ mishaps' = IF reopens /\ (on.read.status # "CONCLUDED" \/ on.entity.status # "RUNNING")
                    THEN mishaps \cup {"experiment"} ELSE mishaps
      /\ UNCHANGED <<user, tables, ghosts, requests, faults, variants, assigned, told>>

-------------------------------------------------------------------------------
\* getUserAssignments: for an experiment that runs, the assignments of the user are
\* read, and getVariant is called if there is none.
AskVariant(p) ==
  /\ Authenticated /\ experiment.status = "RUNNING"
  /\ Begin(p, "variant.list", 0)
  /\ UNCHANGED trials

Tell(p) ==
  /\ told' = told \cup assigned /\ End(p)
  /\ UNCHANGED <<user, tables, ghosts, mishaps, requests, faults, experiment, variants, assigned, concluded>>

ListAssignments(p) ==
  /\ At(p, "variant.list")
  /\ \/ assigned # {} /\ Tell(p)
     \/ /\ assigned = {} /\ Goto(p, "variant.experiment")
        /\ UNCHANGED <<user, tables, ghosts, mishaps, requests, faults, trials>>

\* getVariant reads the experiment with its variants, again.
ReadExperiment(p) ==
  /\ At(p, "variant.experiment")
  /\ IF experiment.status = "RUNNING"
     THEN call' = [call EXCEPT ![p].at = "variant.find", ![p].on = experiment.traffic /\ variants]
     ELSE End(p)
  /\ UNCHANGED <<user, tables, ghosts, mishaps, requests, faults, trials>>

\* An assignment there is counts more than the traffic.  The variant is one of those
\* there are by their weights, in the order in which the rows came.
FindAssignment(p) ==
  /\ At(p, "variant.find")
  /\ \/ assigned # {} /\ Tell(p)
     \/ /\ assigned = {}
        /\ \/ ~ call[p].on /\ End(p)
           \/ /\ call[p].on
              /\ \E v \in Variants :
                   call' = [call EXCEPT ![p].at = "variant.insert", ![p].on = v]
        /\ UNCHANGED <<user, tables, ghosts, mishaps, requests, faults, trials>>

\* Experiment and user are a key of the table: a second row is refused, and the
\* request with it.
InsertAssignment(p) ==
  LET v == call[p].on
  IN  /\ At(p, "variant.insert") /\ End(p)
      /\ IF assigned = {} THEN assigned' = {v} /\ told' = told \cup {v} ELSE UNCHANGED <<assigned, told>>
      /\ UNCHANGED <<user, tables, ghosts, mishaps, requests, faults, experiment, variants, concluded>>

Statuses == {"DRAFT", "RUNNING", "PAUSED", "CONCLUDED"}

ExperimentsBegin(p) ==
  \/ AskVariant(p) \/ \E traffic \in BOOLEAN : CreateExperiment(p, traffic)
  \/ \E entity \in [status : Statuses, traffic : BOOLEAN] : UpdateExperiment(p, entity)

ExperimentsStep(p) ==
  \/ InsertExperiment(p) \/ InsertVariants(p) \/ SaveExperiment(p)
  \/ ListAssignments(p) \/ ReadExperiment(p) \/ FindAssignment(p) \/ InsertAssignment(p)
===============================================================================

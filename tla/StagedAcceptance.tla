--------------------------- MODULE StagedAcceptance ---------------------------
(***************************************************************************)
(* The order in which a milestone is accepted: tasks are completed, then   *)
(* each objective is accepted over tasks that are all finished, then the   *)
(* milestone is closed over objectives that are all accepted.  What has    *)
(* been accepted is not reopened, and a closed milestone stays closed.     *)
(***************************************************************************)
CONSTANTS
  Objective,    \* the objectives of the milestone
  Task,         \* every task a plan may hold
  ObjectiveOf,  \* the objective of a task
  Planned       \* the tasks of the first plan

VARIABLES
  unfinished,  \* tasks of the plan that are not finished
  accepted,    \* objectives that are accepted
  closed       \* "no", or the decision that closed the milestone

acceptanceVars == <<unfinished, accepted, closed>>

Init == unfinished = Planned /\ accepted = {} /\ closed = "no"

\* Tasks finish and a plan gains tasks, in objectives still open.
Work ==
  /\ unfinished' \in SUBSET {t \in Task : ObjectiveOf[t] \notin accepted}
  /\ UNCHANGED <<accepted, closed>>

Accept(o) ==
  /\ o \notin accepted
  /\ \A t \in unfinished : ObjectiveOf[t] # o
  /\ accepted' = accepted \cup {o}
  /\ UNCHANGED <<unfinished, closed>>

Close(decision) ==
  /\ closed = "no"
  /\ accepted = Objective
  /\ closed' = decision
  /\ UNCHANGED <<unfinished, accepted>>

Next ==
  \/ Work
  \/ \E o \in Objective : Accept(o)
  \/ \E decision \in {"accepted", "returned"} : Close(decision)

Spec == Init /\ [][Next]_acceptanceVars
===============================================================================

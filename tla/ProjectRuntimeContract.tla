------------------------ MODULE ProjectRuntimeContract ------------------------
(***************************************************************************)
(* What the project state implements: the schedule and the staged          *)
(* acceptance, each seen through a mapping of the records of its tasks.    *)
(***************************************************************************)
EXTENDS ProjectRuntimeState

Schedule == INSTANCE TaskSchedule WITH
  Limit   <- MaxConcurrency,
  working <- ActiveTasks,
  held    <- ReservingTasks \ ActiveTasks,
  done    <- TasksIn({"completed"})

UnfinishedTasks == {t \in Listed(plan) : task[t].state \notin {"completed", "superseded"}}

Acceptance == INSTANCE StagedAcceptance WITH
  Planned    <- Listed(InitialPlan),
  unfinished <- UnfinishedTasks,
  accepted   <- {o \in Objective : objective[o] = "accepted"},
  closed     <- IF milestone \in {"accepted", "returned"} THEN milestone ELSE "no"

\* selectSchedulableProjectTasks and the transitions around it, taken together,
\* are a scheduler: places, files and dependencies are respected through every
\* retry, replan, recovery and owner loss.
SchedulesTasks == Schedule!Spec

\* describeProjectRuntimeStateContract: "task_completion_then_objective_
\* integration_then_milestone_integration", with nothing accepted reopened.
AcceptsInStages == Acceptance!Spec
===============================================================================

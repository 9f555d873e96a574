---------------------- MODULE ProjectRuntimeStateProofs ----------------------
(***************************************************************************)
(* What holds of the project state for every plan and every limit.         *)
(***************************************************************************)
EXTENDS ProjectRuntimeState, FiniteSetTheorems, TLAPS

LEMMA NewTaskType ==
  ASSUME NEW s \in TaskState
  PROVE  NewTask(s) \in TaskRecord
BY DEF NewTask, TaskRecord, NoObligations, StartPhase

LEMMA SettledTaskType ==
  ASSUME NEW r \in TaskRecord, NEW s \in TaskState, NEW cleanup \in BOOLEAN,
         NEW kinds \in SUBSET RecoveryKind, NEW unresolved \in BOOLEAN
  PROVE  SettledTask(r, s, cleanup, kinds, unresolved) \in TaskRecord
<1>1. Required(kinds) \in [RecoveryKind -> ObligationPhase \cup {"none"}]
  BY DEF Required, ObligationPhase
<1> QED
  BY <1>1 DEF SettledTask, TaskRecord, StartPhase

LEMMA ReadyAgainType ==
  ASSUME NEW r \in TaskRecord, NEW cleanup \in BOOLEAN
  PROVE  ReadyAgain(r, cleanup) \in TaskRecord
BY DEF ReadyAgain, TaskRecord, StartPhase, TaskState, NotStarted

\* The records of an attempt on its way from reserved to running.
LEMMA AttemptType ==
  ASSUME NEW r \in TaskRecord, NEW a \in Nat
  PROVE  /\ ReservedTask(r) \in TaskRecord
         /\ [r EXCEPT !.operation = a, !.phase = "handoff_prepared"]
              \in TaskRecord
         /\ [r EXCEPT !.state = "running", !.phase = "running"] \in TaskRecord
<1>1. r.attempts \in Nat /\ r.attempts + 1 \in Nat
  BY DEF TaskRecord
<1>2. ReservedTask(r) \in TaskRecord
  BY <1>1 DEF ReservedTask, TaskRecord, TaskState, StartPhase, NoObligations
<1>3. [r EXCEPT !.operation = a, !.phase = "handoff_prepared"] \in TaskRecord
  BY DEF TaskRecord, StartPhase
<1>4. [r EXCEPT !.state = "running", !.phase = "running"] \in TaskRecord
  BY DEF TaskRecord, TaskState, StartPhase
<1> QED
  BY <1>2, <1>3, <1>4

LEMMA InitType ==
  Init => TypeOK
<1> SUFFICES ASSUME Init PROVE TypeOK
  OBVIOUS
<1>1. task \in [Task -> TaskRecord]
  BY NewTaskType DEF Init, TaskState, NotStarted
<1> QED
  BY <1>1, PlanAssumption DEF Init, TypeOK, MilestoneState, ObjectiveState

LEMMA ReplaceTaskType ==
  ASSUME TypeOK, NEW t \in Task, NEW r \in TaskRecord, ReplaceTask(t, r)
  PROVE  task' \in [Task -> TaskRecord]
BY DEF TypeOK, ReplaceTask

LEMMA WakeDependentsType ==
  ASSUME NEW tasks \in [Task -> TaskRecord]
  PROVE  WakeDependents(tasks) \in [Task -> TaskRecord]
<1> SUFFICES ASSUME NEW u \in Task
             PROVE  [tasks[u] EXCEPT !.state = "ready"] \in TaskRecord
  BY DEF WakeDependents
<1> QED
  BY DEF TaskRecord, TaskState, NotStarted

\* The inputs of the steps, as StateNext enumerates them.
LEMMA StartStepType ==
  ASSUME TypeOK, NEW c \in Caller, NEW t \in Task, StartStep(c, t)
  PROVE  TypeOK'
<1>0. task[t] \in TaskRecord
  BY DEF TypeOK
<1>1. CASE ReserveProjectTaskStart(c, t)
  <2>1. ReservedTask(task[t]) \in TaskRecord
    BY <1>0, AttemptType
  <2>2. task' \in [Task -> TaskRecord]
    BY <1>1, <2>1, ReplaceTaskType DEF ReserveProjectTaskStart
  <2>3. objective' \in [Objective -> ObjectiveState]
    BY <1>1 DEF ReserveProjectTaskStart, TypeOK, ObjectiveState
  <2> QED
    BY <1>1, <2>2, <2>3
    DEF ReserveProjectTaskStart, Advance, TypeOK, MilestoneState
<1>2. ASSUME NEW a \in 1..MaxAttempts, PrepareProjectTaskHandoff(c, t, a)
      PROVE  TypeOK'
  <2>1. [task[t] EXCEPT !.operation = a, !.phase = "handoff_prepared"]
          \in TaskRecord
    <3>1. a \in Nat
      BY BoundAssumption
    <3> QED
      BY <1>0, <3>1, AttemptType
  <2>2. task' \in [Task -> TaskRecord]
    BY <1>2, <2>1, ReplaceTaskType DEF PrepareProjectTaskHandoff
  <2> QED
    BY <1>2, <2>2 DEF PrepareProjectTaskHandoff, Advance, TypeOK
<1>3. ASSUME NEW a \in 1..MaxAttempts, ObserveProjectTaskStarted(c, t, a)
      PROVE  TypeOK'
  <2>1. [task[t] EXCEPT !.state = "running", !.phase = "running"] \in TaskRecord
    BY <1>0, AttemptType
  <2>2. task' \in [Task -> TaskRecord]
    BY <1>3, <2>1, ReplaceTaskType DEF ObserveProjectTaskStarted
  <2> QED
    BY <1>3, <2>2 DEF ObserveProjectTaskStarted, Advance, TypeOK
<1> QED
  BY <1>1, <1>2, <1>3 DEF StartStep

LEMMA SettleStepType ==
  ASSUME TypeOK, NEW c \in Caller, NEW t \in Task, SettleStep(c, t)
  PROVE  TypeOK'
<1>0. task[t] \in TaskRecord
  BY DEF TypeOK
<1> SUFFICES ASSUME NEW a \in 1..MaxAttempts, NEW outcome \in Outcomes,
                    NEW cleanup \in BOOLEAN, NEW unresolved \in BOOLEAN,
                    NEW kinds \in SUBSET RecoveryKind,
                    \/ SettleProjectTask(c, t, a, outcome, cleanup, kinds,
                                         unresolved)
                    \/ SettleProjectTaskBeforeEffect(c, t, a, outcome, cleanup,
                                                     kinds, unresolved)
             PROVE  TypeOK'
  BY DEF SettleStep
<1>1. CASE SettleProjectTask(c, t, a, outcome, cleanup, kinds, unresolved)
  <2> DEFINE next == IF outcome = "failed" /\ ~cleanup
                     THEN "cleanup_pending" ELSE outcome
             settled == [task EXCEPT ![t] =
                           SettledTask(@, next, cleanup, kinds, unresolved)]
             woken == WakeDependents(settled)
  <2>1. next \in TaskState
    BY DEF TaskState, SettledStates, Outcomes
  <2>2. SettledTask(task[t], next, cleanup, kinds, unresolved) \in TaskRecord
    BY <1>0, <2>1, SettledTaskType
  <2>3. settled \in [Task -> TaskRecord]
    BY <2>2 DEF TypeOK
  <2>4. woken \in [Task -> TaskRecord]
    BY <2>3, WakeDependentsType
  <2>5. /\ task' = woken
        /\ objective' = [o \in Objective |-> ObjectiveAfter(o, woken)]
        /\ milestone' = MilestoneAfter(woken)
        /\ UNCHANGED <<evidence, decided, plan>>
        /\ current' = {c}
    BY <1>1 DEF SettleProjectTask, Advance
  <2> HIDE DEF woken
  <2>6. \A o \in Objective : ObjectiveAfter(o, woken) \in ObjectiveState
    BY DEF ObjectiveAfter, TypeOK, ObjectiveState
  <2>7. MilestoneAfter(woken) \in MilestoneState
    BY DEF MilestoneAfter, TypeOK, MilestoneState
  <2> QED
    BY <2>4, <2>5, <2>6, <2>7 DEF TypeOK
<1>2. CASE SettleProjectTaskBeforeEffect(c, t, a, outcome, cleanup, kinds,
                                         unresolved)
  <2>1. outcome \in TaskState
    BY DEF TaskState, SettledStates, Outcomes
  <2>2. SettledTask(task[t], outcome, cleanup, kinds, unresolved) \in TaskRecord
    BY <1>0, <2>1, SettledTaskType
  <2>3. task' \in [Task -> TaskRecord]
    BY <1>2, <2>2, ReplaceTaskType DEF SettleProjectTaskBeforeEffect
  <2>4. objective' \in [Objective -> ObjectiveState]
    BY <1>2 DEF SettleProjectTaskBeforeEffect, TypeOK, ObjectiveState
  <2>5. milestone' \in MilestoneState
    BY <1>2
    DEF SettleProjectTaskBeforeEffect, MilestoneBeforeEffect, TypeOK,
        MilestoneState, Outcomes
  <2> QED
    BY <1>2, <2>3, <2>4, <2>5 DEF SettleProjectTaskBeforeEffect, Advance, TypeOK
<1> QED
  BY <1>1, <1>2

\* The records of a task that starts over, and of one obligation that moves.
LEMMA StartOverType ==
  ASSUME NEW r \in TaskRecord, NEW cleanup \in BOOLEAN
  PROVE  /\ [ReadyAgain(r, cleanup) EXCEPT !.retries = @ + 1] \in TaskRecord
         /\ [ReadyAgain(r, cleanup) EXCEPT !.obligation = NoObligations,
                                           !.unresolved = FALSE] \in TaskRecord
         /\ [ReadyAgain(r, cleanup) EXCEPT !.obligation = NoObligations,
                                           !.unresolved = FALSE,
                                           !.retries = @ + 1] \in TaskRecord
<1> DEFINE q == ReadyAgain(r, cleanup)
<1>1. q \in TaskRecord
  BY ReadyAgainType
<1> HIDE DEF q
<1>2. q.retries \in Nat /\ q.retries + 1 \in Nat
  BY <1>1 DEF TaskRecord
<1>3. [q EXCEPT !.retries = @ + 1] \in TaskRecord
  BY <1>1, <1>2 DEF TaskRecord
<1>4. [q EXCEPT !.obligation = NoObligations, !.unresolved = FALSE] \in TaskRecord
  BY <1>1 DEF TaskRecord, NoObligations
<1>5. [q EXCEPT !.obligation = NoObligations, !.unresolved = FALSE,
                !.retries = @ + 1] \in TaskRecord
  BY <1>1, <1>2 DEF TaskRecord, NoObligations
<1> QED
  BY <1>3, <1>4, <1>5 DEF q

LEMMA MoveObligationType ==
  ASSUME TypeOK, NEW t \in Task, NEW k \in RecoveryKind,
         NEW from, NEW to \in ObligationPhase, MoveObligation(t, k, from, to)
  PROVE  /\ task' \in [Task -> TaskRecord]
         /\ UNCHANGED <<milestone, objective, evidence, decided, plan>>
<1> DEFINE r == task[t]
<1>1. r \in TaskRecord
  BY DEF TypeOK
<1> HIDE DEF r
<1>2. [r EXCEPT !.obligation[k] = to] \in TaskRecord
  BY <1>1 DEF TaskRecord
<1>3. [task[t] EXCEPT !.obligation[k] = to] \in TaskRecord
  BY <1>2 DEF r
<1>4. ReplaceTask(t, [task[t] EXCEPT !.obligation[k] = to])
  BY DEF MoveObligation
<1> QED
  BY <1>3, <1>4, ReplaceTaskType DEF MoveObligation

LEMMA RecoveryStepType ==
  ASSUME TypeOK, NEW c \in Caller, RecoveryStep(c)
  PROVE  TypeOK'
<1>1. ASSUME NEW t \in Task, NEW k \in RecoveryKind,
             \/ MarkProjectTaskRecoveryObligationRecovering(c, t, k)
             \/ SettleProjectTaskRecoveryObligation(c, t, k)
      PROVE  TypeOK'
  <2>1. PICK from \in ObligationPhase, to \in ObligationPhase :
          MoveObligation(t, k, from, to)
    BY <1>1 DEF MarkProjectTaskRecoveryObligationRecovering,
                SettleProjectTaskRecoveryObligation, ObligationPhase
  <2>2. Advance(c)
    BY <1>1 DEF MarkProjectTaskRecoveryObligationRecovering,
                SettleProjectTaskRecoveryObligation
  <2> QED
    BY <2>1, <2>2, MoveObligationType DEF Advance, TypeOK
<1>2. ASSUME NEW t \in Task, NEW a \in 1..MaxAttempts,
             AcknowledgeProjectDockerRecoveryObligation(c, t, a)
      PROVE  TypeOK'
  <2>1. "acknowledged" \in ObligationPhase
    BY DEF ObligationPhase
  <2>2. /\ "docker" \in RecoveryKind
        /\ MoveObligation(t, "docker", "settled", "acknowledged")
        /\ Advance(c)
    BY <1>2 DEF AcknowledgeProjectDockerRecoveryObligation
  <2>3. /\ task' \in [Task -> TaskRecord]
        /\ UNCHANGED <<milestone, objective, evidence, decided, plan>>
    BY <2>1, <2>2, MoveObligationType
  <2> QED
    BY <2>2, <2>3 DEF Advance, TypeOK
<1>3. ASSUME NEW ts \in SUBSET Task, RetrySettledProjectTaskRecoveries(c, ts)
      PROVE  TypeOK'
  <2>1. \A t \in Task :
          [ReadyAgain(task[t], TRUE) EXCEPT !.retries = @ + 1] \in TaskRecord
    BY StartOverType DEF TypeOK
  <2>2. task' \in [Task -> TaskRecord]
    BY <1>3, <2>1 DEF RetrySettledProjectTaskRecoveries, TypeOK
  <2> QED
    BY <1>3, <2>2 DEF RetrySettledProjectTaskRecoveries, Advance, TypeOK,
                      ObjectiveState, MilestoneState
<1>4. ASSUME NEW m \in SUBSET Task, RecordProjectTaskOwnerLossRecoveries(c, m)
      PROVE  TypeOK'
  <2>1. \A t \in Task :
          /\ [ReadyAgain(task[t], TRUE) EXCEPT
                !.obligation = NoObligations, !.unresolved = FALSE] \in TaskRecord
          /\ SettledTask(task[t], "recovery_required", FALSE, {"docker"}, FALSE)
               \in TaskRecord
    <3>1. {"docker"} \in SUBSET RecoveryKind
      BY <1>4 DEF RecordProjectTaskOwnerLossRecoveries
    <3>2. "recovery_required" \in TaskState
      BY DEF TaskState, SettledStates
    <3> QED
      BY <3>1, <3>2, StartOverType, SettledTaskType DEF TypeOK
  <2>2. task' \in [Task -> TaskRecord]
    BY <1>4, <2>1 DEF RecordProjectTaskOwnerLossRecoveries, TypeOK
  <2>3. objective' \in [Objective -> ObjectiveState]
    BY <1>4 DEF RecordProjectTaskOwnerLossRecoveries, TypeOK, ObjectiveState
  <2> QED
    BY <1>4, <2>2, <2>3 DEF RecordProjectTaskOwnerLossRecoveries, Advance, TypeOK,
                            MilestoneState
<1> QED
  BY <1>1, <1>2, <1>3, <1>4 DEF RecoveryStep

LEMMA ReplacementsType ==
  ASSUME NEW new \in Replacements
  PROVE  new \in Seq(Task) /\ Listed(new) \subseteq Task
<1> DEFINE spare == TasksIn({"absent"})
<1>1. PICK n \in 1..Cardinality(spare) : new \in [1..n -> spare]
  BY DEF Replacements
<1>2. spare \subseteq Task /\ n \in Nat
  BY DEF TasksIn
<1>3. new \in [1..n -> Task]
  BY <1>1, <1>2
<1> QED
  BY <1>2, <1>3 DEF Listed

LEMMA ReplanStepType ==
  ASSUME TypeOK, NEW c \in Caller, ReplanStep(c)
  PROVE  TypeOK'
<1>1. ASSUME NEW t \in Task, NEW new \in Replacements,
             ApplyProjectRuntimePartialReplan(c, t, new)
      PROVE  TypeOK'
  <2>1. \A u \in Task : [task[u] EXCEPT !.state = "superseded"] \in TaskRecord
    BY DEF TypeOK, TaskRecord, TaskState, SettledStates
  <2>2. \A u \in Task :
          NewTask(IF Dependencies[u] \subseteq TasksIn({"completed"})
                  THEN "ready" ELSE "waiting_dependency") \in TaskRecord
    BY NewTaskType DEF TaskState, NotStarted
  <2>3. task' \in [Task -> TaskRecord]
    BY <1>1, <2>1, <2>2 DEF ApplyProjectRuntimePartialReplan, TypeOK
  <2>4. plan' \in Seq(Task)
    BY <1>1, ReplacementsType DEF ApplyProjectRuntimePartialReplan, TypeOK
  <2> QED
    BY <1>1, <2>3, <2>4 DEF ApplyProjectRuntimePartialReplan, Advance, TypeOK,
                            ObjectiveState, MilestoneState
<1>2. ASSUME NEW t \in Task, RetryProjectRuntimeTask(c, t)
      PROVE  TypeOK'
  <2>1. task' \in [Task -> TaskRecord]
    BY <1>2, StartOverType, ReplaceTaskType DEF RetryProjectRuntimeTask, TypeOK
  <2> QED
    BY <1>2, <2>1 DEF RetryProjectRuntimeTask, Advance, TypeOK, ObjectiveState,
                      MilestoneState
<1> QED
  BY <1>1, <1>2 DEF ReplanStep

LEMMA DecisionStepType ==
  ASSUME TypeOK, NEW c \in Caller, DecisionStep(c)
  PROVE  TypeOK'
<1>1. ASSUME NEW o \in Objective, RequestProjectRuntimeHumanDecision(c, o)
      PROVE  TypeOK'
  BY <1>1 DEF RequestProjectRuntimeHumanDecision, Advance, TypeOK, MilestoneState
<1>2. ASSUME NEW action, ApplyProjectRuntimeHumanDecision(c, action)
      PROVE  TypeOK'
  BY <1>2 DEF ApplyProjectRuntimeHumanDecision, Advance, TypeOK, MilestoneState
<1>3. ASSUME NEW o \in Objective, NEW decision, NEW complete \in BOOLEAN,
             ApplyObjectiveAcceptance(c, o, decision, complete)
      PROVE  TypeOK'
  BY <1>3 DEF ApplyObjectiveAcceptance, Advance, TypeOK, MilestoneState,
              ObjectiveState
<1>4. ASSUME NEW decision, NEW complete \in BOOLEAN,
             ApplyMilestoneAcceptance(c, decision, complete)
      PROVE  TypeOK'
  BY <1>4 DEF ApplyMilestoneAcceptance, Advance, TypeOK, MilestoneState
<1> QED
  BY <1>1, <1>2, <1>3, <1>4 DEF DecisionStep

LEMMA StepType ==
  ASSUME TypeOK, [StateNext]_stateVars
  PROVE  TypeOK'
<1>1. ASSUME NEW c \in Caller, ObserveState(c)
      PROVE  TypeOK'
  BY <1>1 DEF ObserveState, projectVars, TypeOK
<1>2. CASE UNCHANGED stateVars
  BY <1>2 DEF stateVars, projectVars, TypeOK
<1> QED
  BY <1>1, <1>2, StartStepType, SettleStepType, RecoveryStepType,
     ReplanStepType, DecisionStepType
  DEF StateNext

\* Every state the transitions reach is well formed: the plan, the records and
\* the states of objectives and milestone are those the source enumerates.
THEOREM TypeCorrect == StateSpec => []TypeOK
<1>1. TypeOK /\ [StateNext]_stateVars => TypeOK'
  BY StepType
<1> QED
  BY InitType, <1>1, PTL DEF StateSpec

-----------------------------------------------------------------------------
(* What a step does to one task.  Only a reservation adds a task to those   *)
(* that work or hold a reservation, and no step touches a completed one.    *)

Steady(u) ==
  /\ ActiveForCapacity(task'[u]) => ActiveForCapacity(task[u])
  /\ ReservesConflict(task'[u]) => ReservesConflict(task[u])
  /\ task[u].state = "completed" => task'[u] = task[u]
  /\ task[u].state = "recovery_required" /\ task'[u].state # "recovery_required"
       => Discharged(task[u]) /\ ~task[u].unresolved

LEMMA UnchangedSteady ==
  ASSUME NEW u, task'[u] = task[u]
  PROVE  Steady(u)
BY DEF Steady

\* A task on its way holds its place and its reservation already.
LEMMA OnItsWaySteady ==
  ASSUME NEW u, task[u].state \in {"starting", "running"}
  PROVE  Steady(u)
BY DEF Steady, ActiveForCapacity, ReservesConflict

\* A task that is to start over, or is given up, holds nothing.
LEMMA LetGoSteady ==
  ASSUME NEW u,
         task[u].state # "completed",
         task[u].state = "recovery_required"
           => Discharged(task[u]) /\ ~task[u].unresolved,
         task'[u].state \in {"ready", "waiting_dependency", "superseded"}
  PROVE  Steady(u)
BY DEF Steady, ActiveForCapacity, ReservesConflict

\* The state of a task that starts over is ready, whatever else is reset.
LEMMA ReadyAgainState ==
  ASSUME NEW r \in TaskRecord, NEW cleanup
  PROVE  /\ [ReadyAgain(r, cleanup) EXCEPT !.retries = @ + 1].state = "ready"
         /\ [ReadyAgain(r, cleanup) EXCEPT !.obligation = NoObligations,
                                           !.unresolved = FALSE].state = "ready"
         /\ [ReadyAgain(r, cleanup) EXCEPT !.obligation = NoObligations,
                                           !.unresolved = FALSE,
                                           !.retries = @ + 1].state = "ready"
BY DEF ReadyAgain, TaskRecord

LEMMA ReplaceTaskSteady ==
  ASSUME TypeOK, NEW t \in Task, NEW r, ReplaceTask(t, r), Steady(t)
  PROVE  \A u \in Task : Steady(u)
BY UnchangedSteady DEF TypeOK, ReplaceTask

LEMMA StartStepSteady ==
  ASSUME TypeOK, NEW c \in Caller, NEW t \in Task, StartStep(c, t),
         ~ReserveProjectTaskStart(c, t)
  PROVE  \A u \in Task : Steady(u)
<1>1. PICK r : ReplaceTask(t, r) /\ task[t].state = "starting"
  BY DEF StartStep, PrepareProjectTaskHandoff, ObserveProjectTaskStarted
<1> QED
  BY <1>1, OnItsWaySteady, ReplaceTaskSteady

LEMMA SettleStepSteady ==
  ASSUME TypeOK, NEW c \in Caller, NEW t \in Task, SettleStep(c, t)
  PROVE  \A u \in Task : Steady(u)
<1> SUFFICES ASSUME NEW a \in 1..MaxAttempts, NEW outcome \in Outcomes,
                    NEW cleanup \in BOOLEAN, NEW unresolved \in BOOLEAN,
                    NEW kinds \in SUBSET RecoveryKind,
                    \/ SettleProjectTask(c, t, a, outcome, cleanup, kinds,
                                         unresolved)
                    \/ SettleProjectTaskBeforeEffect(c, t, a, outcome, cleanup,
                                                     kinds, unresolved)
             PROVE  \A u \in Task : Steady(u)
  BY DEF SettleStep
<1>1. CASE SettleProjectTask(c, t, a, outcome, cleanup, kinds, unresolved)
  <2> DEFINE next == IF outcome = "failed" /\ ~cleanup
                     THEN "cleanup_pending" ELSE outcome
             settled == [task EXCEPT ![t] =
                           SettledTask(@, next, cleanup, kinds, unresolved)]
  <2>1. /\ task' = WakeDependents(settled)
        /\ task[t].state = "running"
    BY <1>1 DEF SettleProjectTask
  <2> SUFFICES ASSUME NEW u \in Task PROVE Steady(u)
    OBVIOUS
  <2>2. CASE u = t
    BY <2>1, <2>2, OnItsWaySteady
  <2>3. CASE u # t
    <3>1. settled[u] = task[u]
      BY <2>3 DEF TypeOK
    <3> HIDE DEF settled
    <3>2. \/ task'[u] = task[u]
          \/ /\ task[u].state = "waiting_dependency"
             /\ task'[u] = [task[u] EXCEPT !.state = "ready"]
      BY <2>1, <3>1 DEF WakeDependents
    <3>3. CASE /\ task[u].state = "waiting_dependency"
               /\ task'[u] = [task[u] EXCEPT !.state = "ready"]
      <4>1. task'[u].state = "ready"
        BY <3>3 DEF TypeOK, TaskRecord
      <4> QED
        BY <3>3, <4>1, LetGoSteady
    <3> QED
      BY <3>2, <3>3, UnchangedSteady
  <2> QED
    BY <2>2, <2>3
<1>2. CASE SettleProjectTaskBeforeEffect(c, t, a, outcome, cleanup, kinds,
                                         unresolved)
  <2>1. PICK r : ReplaceTask(t, r) /\ task[t].state = "starting"
    BY <1>2 DEF SettleProjectTaskBeforeEffect
  <2> QED
    BY <2>1, OnItsWaySteady, ReplaceTaskSteady
<1> QED
  BY <1>1, <1>2

\* A moved obligation leaves the task in recovery, and what it held it keeps.
LEMMA MoveObligationSteady ==
  ASSUME TypeOK, NEW t \in Task, NEW k \in RecoveryKind,
         NEW from \in ObligationPhase, NEW to \in ObligationPhase,
         MoveObligation(t, k, from, to)
  PROVE  \A u \in Task : Steady(u)
<1>1. /\ task[t].state = "recovery_required"
      /\ task[t].obligation[k] = from
      /\ ReplaceTask(t, [task[t] EXCEPT !.obligation[k] = to])
  BY DEF MoveObligation
<1>2. /\ task'[t].state = "recovery_required"
      /\ task'[t].cleanup = task[t].cleanup
  BY <1>1 DEF ReplaceTask, TypeOK, TaskRecord
<1>3. ObligationsOf(task[t]) # {}
  BY <1>1 DEF ObligationsOf, ObligationPhase
<1>4. Steady(t)
  BY <1>1, <1>2, <1>3 DEF Steady, ActiveForCapacity, ReservesConflict
<1> QED
  BY <1>1, <1>4, ReplaceTaskSteady

LEMMA RecoveryStepSteady ==
  ASSUME TypeOK, NEW c \in Caller, RecoveryStep(c)
  PROVE  \A u \in Task : Steady(u)
<1>1. ASSUME NEW t \in Task, NEW k \in RecoveryKind,
             \/ MarkProjectTaskRecoveryObligationRecovering(c, t, k)
             \/ SettleProjectTaskRecoveryObligation(c, t, k)
      PROVE  \A u \in Task : Steady(u)
  <2>1. PICK from \in ObligationPhase, to \in ObligationPhase :
          MoveObligation(t, k, from, to)
    BY <1>1 DEF MarkProjectTaskRecoveryObligationRecovering,
                SettleProjectTaskRecoveryObligation, ObligationPhase
  <2> QED
    BY <2>1, MoveObligationSteady
<1>2. ASSUME NEW t \in Task, NEW a \in 1..MaxAttempts,
             AcknowledgeProjectDockerRecoveryObligation(c, t, a)
      PROVE  \A u \in Task : Steady(u)
  <2>1. /\ "docker" \in RecoveryKind
        /\ MoveObligation(t, "docker", "settled", "acknowledged")
    BY <1>2 DEF AcknowledgeProjectDockerRecoveryObligation
  <2>2. "settled" \in ObligationPhase /\ "acknowledged" \in ObligationPhase
    BY DEF ObligationPhase
  <2> QED
    BY <2>1, <2>2, MoveObligationSteady
<1>3. ASSUME NEW ts \in SUBSET Task, RetrySettledProjectTaskRecoveries(c, ts)
      PROVE  \A u \in Task : Steady(u)
  <2> SUFFICES ASSUME NEW u \in Task PROVE Steady(u)
    OBVIOUS
  <2>1. CASE u \in ts /\ task[u].state # "ready"
    <3>1. /\ task[u].state = "recovery_required"
          /\ Discharged(task[u]) /\ ~task[u].unresolved
          /\ task'[u] = [ReadyAgain(task[u], TRUE) EXCEPT !.retries = @ + 1]
      BY <1>3, <2>1
      DEF RetrySettledProjectTaskRecoveries, RecoveryFinished
    <3>2. task'[u].state = "ready"
      BY <3>1, ReadyAgainState DEF TypeOK
    <3> QED
      BY <3>1, <3>2, LetGoSteady
  <2>2. CASE ~(u \in ts /\ task[u].state # "ready")
    BY <1>3, <2>2, UnchangedSteady DEF RetrySettledProjectTaskRecoveries
  <2> QED
    BY <2>1, <2>2
<1>4. ASSUME NEW m \in SUBSET Task, RecordProjectTaskOwnerLossRecoveries(c, m)
      PROVE  \A u \in Task : Steady(u)
  <2> SUFFICES ASSUME NEW u \in Task PROVE Steady(u)
    OBVIOUS
  <2>1. CASE u \in ReservedTasks \cup PreparedTasks
    BY <2>1, OnItsWaySteady DEF ReservedTasks, PreparedTasks
  <2>2. CASE u \notin ReservedTasks \cup PreparedTasks
    BY <1>4, <2>2, UnchangedSteady DEF RecordProjectTaskOwnerLossRecoveries
  <2> QED
    BY <2>1, <2>2
<1> QED
  BY <1>1, <1>2, <1>3, <1>4 DEF RecoveryStep

LEMMA ReplanStepSteady ==
  ASSUME TypeOK, NEW c \in Caller, ReplanStep(c)
  PROVE  \A u \in Task : Steady(u)
<1>1. ASSUME NEW t \in Task, NEW new \in Replacements,
             ApplyProjectRuntimePartialReplan(c, t, new)
      PROVE  \A u \in Task : Steady(u)
  <2> SUFFICES ASSUME NEW u \in Task PROVE Steady(u)
    OBVIOUS
  <2>1. CASE u = t
    <3>1. task[u].state = "failed" /\ task'[u].state = "superseded"
      BY <1>1, <2>1 DEF ApplyProjectRuntimePartialReplan, TypeOK, TaskRecord
    <3> QED
      BY <3>1, LetGoSteady
  <2>2. CASE u # t /\ u \in Listed(new)
    <3>1. task[u].state = "absent"
      BY <1>1, <2>2 DEF ApplyProjectRuntimePartialReplan
    <3>2. task'[u].state \in {"ready", "waiting_dependency"}
      BY <1>1, <2>2 DEF ApplyProjectRuntimePartialReplan, NewTask
    <3> QED
      BY <3>1, <3>2, LetGoSteady
  <2>3. CASE u # t /\ u \notin Listed(new)
    BY <1>1, <2>3, UnchangedSteady DEF ApplyProjectRuntimePartialReplan
  <2> QED
    BY <2>1, <2>2, <2>3
<1>2. ASSUME NEW t \in Task, RetryProjectRuntimeTask(c, t)
      PROVE  \A u \in Task : Steady(u)
  <2> DEFINE r == [ReadyAgain(task[t], FALSE) EXCEPT
                     !.obligation = NoObligations, !.unresolved = FALSE,
                     !.retries = @ + 1]
  <2>1. task[t].state = "failed" /\ ReplaceTask(t, r)
    BY <1>2 DEF RetryProjectRuntimeTask
  <2>2. r.state = "ready"
    BY ReadyAgainState DEF TypeOK
  <2> HIDE DEF r
  <2>3. task'[t].state = "ready"
    BY <2>1, <2>2 DEF ReplaceTask, TypeOK
  <2> QED
    BY <2>1, <2>3, LetGoSteady, ReplaceTaskSteady
<1> QED
  BY <1>1, <1>2 DEF ReplanStep

LEMMA DecisionStepKeepsTasks ==
  ASSUME NEW c \in Caller, DecisionStep(c)
  PROVE  UNCHANGED <<plan, task>>
BY DEF DecisionStep, RequestProjectRuntimeHumanDecision,
       ApplyProjectRuntimeHumanDecision, ApplyObjectiveAcceptance,
       ApplyMilestoneAcceptance

\* The step lemma: a step that reserves no task is steady for every task.
LEMMA StepSteady ==
  ASSUME TypeOK, [StateNext]_stateVars,
         ~\E c \in Caller, t \in Task : ReserveProjectTaskStart(c, t)
  PROVE  \A u \in Task : Steady(u)
<1>1. CASE UNCHANGED task
  BY <1>1, UnchangedSteady
<1>2. CASE ~UNCHANGED task
  <2>1. PICK c \in Caller :
          \/ ObserveState(c)
          \/ \E t \in Task : StartStep(c, t) \/ SettleStep(c, t)
          \/ RecoveryStep(c)
          \/ ReplanStep(c)
          \/ DecisionStep(c)
    BY <1>2 DEF StateNext, stateVars, projectVars
  <2>2. ~ObserveState(c) /\ ~DecisionStep(c)
    BY <1>2, DecisionStepKeepsTasks DEF ObserveState, projectVars
  <2> QED
    BY <2>1, <2>2, StartStepSteady, SettleStepSteady, RecoveryStepSteady,
       ReplanStepSteady
<1> QED
  BY <1>1, <1>2

-----------------------------------------------------------------------------
(* What follows for the schedule.                                          *)

\* A task is reserved only if it is ready, conflicts with no reservation, and
\* a place is left for it.
LEMMA ReserveEligible ==
  ASSUME TypeOK, NEW c \in Caller, NEW t \in Task, ReserveProjectTaskStart(c, t)
  PROVE  /\ t \in EligibleTasks
         /\ Cardinality(ActiveTasks) < MaxConcurrency
         /\ \A u \in Task \ {t} : task'[u] = task[u]
<1>1. PICK S \in SUBSET EligibleTasks : IsSelection(S) /\ t \in S
  BY DEF ReserveProjectTaskStart, Schedulable
<1>2. t \in EligibleTasks
  BY <1>1
<1> DEFINE taken == {u \in S : Before(u, t)}
<1>3. Cardinality(taken) < Available
  BY <1>1, <1>2 DEF IsSelection
<1>4. IsFiniteSet(taken)
  <2>1. taken \subseteq Task
    BY DEF EligibleTasks
  <2> QED
    BY <2>1, FS_Subset, StructureAssumption
<1>5. Cardinality(taken) \in Nat
  BY <1>4, FS_CardinalityType
<1>6. IsFiniteSet(ActiveTasks) /\ Cardinality(ActiveTasks) \in Nat
  BY FS_Subset, FS_CardinalityType, StructureAssumption DEF ActiveTasks
<1> HIDE DEF taken
<1>7. Cardinality(ActiveTasks) < MaxConcurrency
  BY <1>3, <1>5, <1>6, BoundAssumption DEF Available
<1>8. \A u \in Task \ {t} : task'[u] = task[u]
  BY DEF ReserveProjectTaskStart, ReplaceTask, TypeOK
<1> QED
  BY <1>2, <1>7, <1>8

LEMMA ConflictsExcludedStep ==
  ASSUME TypeOK, ConflictsExcluded, [StateNext]_stateVars
  PROVE  ConflictsExcluded'
<1>1. CASE \E c \in Caller, t \in Task : ReserveProjectTaskStart(c, t)
  <2>1. PICK c \in Caller, t \in Task : ReserveProjectTaskStart(c, t)
    BY <1>1
  <2>2. ReservingTasks' \subseteq ReservingTasks \cup {t}
    BY <2>1, ReserveEligible DEF ReservingTasks
  <2>3. \A u \in ReservingTasks : ~Conflicts(t, u) /\ ~Conflicts(u, t)
    BY <2>1, ReserveEligible, StructureAssumption
    DEF EligibleTasks, ReservingTasks, Conflicts
  <2> QED
    BY <2>2, <2>3 DEF ConflictsExcluded, Conflicts
<1>2. CASE ~\E c \in Caller, t \in Task : ReserveProjectTaskStart(c, t)
  <2>1. ReservingTasks' \subseteq ReservingTasks
    BY <1>2, StepSteady DEF Steady, ReservingTasks
  <2> QED
    BY <2>1 DEF ConflictsExcluded, Conflicts
<1> QED
  BY <1>1, <1>2

\* No two tasks that share a path or a key hold their reservation together,
\* whatever the plan, the limits and the order of the transitions.
THEOREM ConflictsNeverShared == StateSpec => []ConflictsExcluded
<1>1. Init => ConflictsExcluded
  BY DEF Init, ConflictsExcluded, ReservingTasks, ReservesConflict,
         ActiveForCapacity, NewTask
<1>2. TypeOK /\ ConflictsExcluded /\ [StateNext]_stateVars => ConflictsExcluded'
  BY ConflictsExcludedStep
<1> QED
  BY <1>1, <1>2, TypeCorrect, PTL DEF StateSpec

LEMMA AtMostOneMore ==
  ASSUME NEW S, NEW x, IsFiniteSet(S)
  PROVE  Cardinality(S \cup {x}) <= Cardinality(S) + 1
<1> DEFINE n == Cardinality(S)
<1>1. n \in Nat
  BY FS_CardinalityType
<1>2. Cardinality(S \cup {x}) = IF x \in S THEN n ELSE n + 1
  BY FS_AddElement
<1> HIDE DEF n
<1>3. Cardinality(S \cup {x}) <= n + 1
  BY <1>1, <1>2
<1> QED
  BY <1>3 DEF n

LEMMA CapacityRespectedStep ==
  ASSUME TypeOK, CapacityRespected, [StateNext]_stateVars
  PROVE  CapacityRespected'
<1>0. /\ IsFiniteSet(ActiveTasks) /\ IsFiniteSet(ActiveTasks')
      /\ Cardinality(ActiveTasks) \in Nat /\ Cardinality(ActiveTasks') \in Nat
  BY FS_Subset, FS_CardinalityType, StructureAssumption DEF ActiveTasks
<1>1. CASE \E c \in Caller, t \in Task : ReserveProjectTaskStart(c, t)
  <2>1. PICK c \in Caller, t \in Task : ReserveProjectTaskStart(c, t)
    BY <1>1
  <2>2. ActiveTasks' \subseteq ActiveTasks \cup {t}
    BY <2>1, ReserveEligible DEF ActiveTasks
  <2>3. Cardinality(ActiveTasks \cup {t}) <= Cardinality(ActiveTasks) + 1
    BY <1>0, AtMostOneMore
  <2>4. IsFiniteSet(ActiveTasks \cup {t})
    BY <1>0, FS_AddElement
  <2>5. Cardinality(ActiveTasks') <= Cardinality(ActiveTasks \cup {t})
    BY <2>2, <2>4, FS_Subset
  <2>6. Cardinality(ActiveTasks \cup {t}) \in Nat
    BY <2>4, FS_CardinalityType
  <2>7. Cardinality(ActiveTasks) < MaxConcurrency
    BY <2>1, ReserveEligible
  <2>8. Cardinality(ActiveTasks') <= MaxConcurrency
    BY <1>0, <2>3, <2>5, <2>6, <2>7, BoundAssumption
  <2> QED
    BY <2>8 DEF CapacityRespected
<1>2. CASE ~\E c \in Caller, t \in Task : ReserveProjectTaskStart(c, t)
  <2>1. ActiveTasks' \subseteq ActiveTasks
    BY <1>2, StepSteady DEF Steady, ActiveTasks
  <2>2. Cardinality(ActiveTasks') <= Cardinality(ActiveTasks)
    BY <1>0, <2>1, FS_Subset
  <2> QED
    BY <1>0, <2>2, BoundAssumption DEF CapacityRespected
<1> QED
  BY <1>1, <1>2

\* The tasks at work, unconfirmed cleanups included, never exceed the limit of
\* the state, for any limit and any plan.
THEOREM CapacityAlwaysRespected == StateSpec => []CapacityRespected
<1>1. Init => CapacityRespected
  <2> SUFFICES ASSUME Init PROVE CapacityRespected
    OBVIOUS
  <2>1. ActiveTasks = {}
    BY DEF Init, ActiveTasks, ActiveForCapacity, NewTask
  <2>2. Cardinality(ActiveTasks) = 0
    BY <2>1, FS_EmptySet
  <2> QED
    BY <2>2, BoundAssumption DEF CapacityRespected
<1>2. TypeOK /\ CapacityRespected /\ [StateNext]_stateVars => CapacityRespected'
  BY CapacityRespectedStep
<1> QED
  BY <1>1, <1>2, TypeCorrect, PTL DEF StateSpec

\* A reservation takes a ready task, so what must not happen to completed and
\* to recovering tasks does not happen in any step.
LEMMA ReserveKeeps ==
  ASSUME TypeOK, NEW c \in Caller, NEW t \in Task, ReserveProjectTaskStart(c, t)
  PROVE  \A u \in Task : task[u].state \in {"completed", "recovery_required"}
           => task'[u] = task[u]
BY ReserveEligible DEF EligibleTasks

\* No late result, retry, replan or owner loss touches the record of a task
\* that completed.
THEOREM CompletedStays == StateSpec => CompletedForGood
<1>1. TypeOK /\ [StateNext]_stateVars
        => [\A t \in Task : task[t].state = "completed"
                            => task'[t] = task[t]]_stateVars
  BY StepSteady, ReserveKeeps DEF Steady
<1> QED
  BY <1>1, TypeCorrect, PTL DEF StateSpec, CompletedForGood

\* Whatever takes a task out of recovery, its obligations are discharged and
\* nothing about it is unresolved.
THEOREM RecoveryAlwaysDischarged == StateSpec => RecoveryNotSkipped
<1>1. TypeOK /\ [StateNext]_stateVars
        => [\A t \in Task :
              task[t].state = "recovery_required"
                /\ task'[t].state # "recovery_required"
                => Discharged(task[t]) /\ ~task[t].unresolved]_stateVars
  BY StepSteady, ReserveKeeps DEF Steady
<1> QED
  BY <1>1, TypeCorrect, PTL DEF StateSpec, RecoveryNotSkipped

=============================================================================

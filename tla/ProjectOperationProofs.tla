------------------------ MODULE ProjectOperationProofs ------------------------
(***************************************************************************)
(* Proofs about the operation of ProjectOperation, for any plan, limits    *)
(* and number of faults: it changes the project state by the transitions   *)
(* of ProjectRuntimeState only, and what its tasks may have at work        *)
(* outside is on record, within the limit, and shares no file.             *)
(***************************************************************************)
EXTENDS ProjectOperation, ProjectRuntimeContractProofs

\* The attempts of a task are numbered from 1 and the last one is counted.
Counted(r) == r.attempts <= MaxAttempts /\ r.attempt <= r.attempts
AttemptsCounted == \A t \in Task : Counted(task[t])

\* The record of a task of which attempt n may be at work: on its way, or in
\* a recovery that cannot end before the container is dealt with.
Covers(r, n) ==
  /\ r.attempt = n
  /\ r.obligation["docker"] \notin {"settled", "acknowledged"}
  /\ \/ r.state = "starting" /\ r.phase = "handoff_prepared"
     \/ r.state = "running"
     \/ /\ r.state = "recovery_required" /\ ~r.cleanup
        /\ r.unresolved \/ r.obligation["docker"] \in {"required", "recovering"}
EffectsCovered == \A e \in effects : Covers(task[e[1]], e[2])

AtWork(t) == \E n \in Nat : <<t, n>> \in effects

\* A task of the wave has nothing at work before it is handed over, and what it
\* has at work when it has answered contradicts the answer.
StageTrue(t) ==
  /\ stage[t] = "prepared" =>
       task[t].state = "starting" /\ task[t].phase = "handoff_prepared"
  /\ stage[t] \in {"reserved", "prepared"} => ~AtWork(t)
  /\ stage[t] \in {"delegated", "seen", "unseen"} => t \in delegated
  /\ stage[t] = "answered" /\ AtWork(t) => t \in delegated /\ EffectUnknown(t)
  /\ stage[t] = "answered_seen" /\ AtWork(t) => ContradictsStart(t)

Begun == {"reserve", "run"}
StagesTrue == pc \in Begun => \A t \in wave : StageTrue(t)

\* The entry is in the state that the executor has put it in, and a replanner
\* between its two writes works on an entry that nobody owns.
EntryOfRun ==
  /\ pc \in {"recovered", "acquired"} => queue.state = "queued"
  /\ pc = "leased" => queue.state = "leased"
  /\ pc \in {"select", "reserve", "run", "terminal"} => queue.state = "running"
  /\ pc = "failing" => queue.state \in {"leased", "running"}
  /\ replan # "none" => queue.state = "replan_required" /\ ~queue.owned

\* What is proved of the project state as such.
ProjectInv == StateInv /\ AttemptsCounted /\ ConflictsExcluded /\ CapacityRespected

OperationInv ==
  /\ ProjectInv /\ OperationTypeOK /\ EntryOfRun
  /\ StagesTrue /\ EffectsCovered

-----------------------------------------------------------------------------
(* The attempts are counted by every transition of the project state.      *)

LEMMA Bounds == MaxAttempts \in Nat /\ MaxConcurrency \in Nat /\ MaxFaults \in Nat
  BY BoundAssumption, OperationAssumption

LEMMA CountedFrom ==
  ASSUME NEW r \in TaskRecord, Counted(r), NEW q, q.attempts = r.attempts,
         q.attempt \in {0, r.attempt}
  PROVE  Counted(q)
<1>1. r.attempts \in Nat /\ r.attempt \in Nat
  BY DEF TaskRecord
<1> QED
  BY <1>1 DEF Counted

LEMMA CountedReserved ==
  ASSUME NEW r \in TaskRecord, r.attempts < MaxAttempts
  PROVE  Counted(ReservedTask(r))
<1>1. r.attempts \in Nat /\ r.attempts + 1 \in Nat /\ r.attempts + 1 <= MaxAttempts
  BY Bounds DEF TaskRecord
<1>2. /\ ReservedTask(r).attempts = r.attempts + 1
      /\ ReservedTask(r).attempt = r.attempts + 1
  BY DEF ReservedTask, TaskRecord
<1> QED
  BY <1>1, <1>2 DEF Counted

LEMMA CountedSettled ==
  ASSUME NEW r \in TaskRecord, Counted(r), NEW s, NEW cleanup, NEW kinds, NEW unresolved
  PROVE  Counted(SettledTask(r, s, cleanup, kinds, unresolved))
<1> DEFINE q == SettledTask(r, s, cleanup, kinds, unresolved)
<1>1. q.attempts = r.attempts /\ q.attempt = r.attempt
  BY DEF SettledTask, TaskRecord
<1> QED
  BY <1>1, CountedFrom

LEMMA CountedReadyAgain ==
  ASSUME NEW r \in TaskRecord, Counted(r), NEW cleanup
  PROVE  /\ Counted([ReadyAgain(r, cleanup) EXCEPT !.retries = @ + 1])
         /\ Counted([ReadyAgain(r, cleanup) EXCEPT !.obligation = NoObligations,
                                                   !.unresolved = FALSE])
         /\ Counted([ReadyAgain(r, cleanup) EXCEPT !.obligation = NoObligations,
                                                   !.unresolved = FALSE,
                                                   !.retries = @ + 1])
<1> DEFINE q1 == [ReadyAgain(r, cleanup) EXCEPT !.retries = @ + 1]
           q2 == [ReadyAgain(r, cleanup) EXCEPT !.obligation = NoObligations,
                                                !.unresolved = FALSE]
           q3 == [ReadyAgain(r, cleanup) EXCEPT !.obligation = NoObligations,
                                                !.unresolved = FALSE,
                                                !.retries = @ + 1]
<1>1. q1.attempts = r.attempts /\ q1.attempt = 0
  BY DEF ReadyAgain, TaskRecord
<1>2. q2.attempts = r.attempts /\ q2.attempt = 0
  BY DEF ReadyAgain, TaskRecord
<1>3. q3.attempts = r.attempts /\ q3.attempt = 0
  BY DEF ReadyAgain, TaskRecord
<1> HIDE DEF q1, q2, q3
<1>4. Counted(q1) /\ Counted(q2) /\ Counted(q3)
  BY <1>1, <1>2, <1>3, CountedFrom
<1> QED
  BY <1>4 DEF q1, q2, q3

LEMMA CountedNew == ASSUME NEW s PROVE Counted(NewTask(s))
  BY Bounds DEF NewTask, Counted

LEMMA CountedStart ==
  ASSUME TypeOK, AttemptsCounted, NEW c \in Caller, NEW t \in Task, StartStep(c, t)
  PROVE  AttemptsCounted'
<1>1. /\ task \in [Task -> TaskRecord] /\ task[t] \in TaskRecord
      /\ \A u \in Task : Counted(task[u])
  BY DEF TypeOK, AttemptsCounted
<1>2. SUFFICES ASSUME NEW r, ReplaceTask(t, r), Counted(r)
               PROVE  AttemptsCounted'
  <2>1. CASE ReserveProjectTaskStart(c, t)
    BY <1>1, <1>2, <2>1, CountedReserved DEF ReserveProjectTaskStart
  <2>2. ASSUME NEW a \in 1..MaxAttempts, PrepareProjectTaskHandoff(c, t, a)
        PROVE  AttemptsCounted'
    <3> DEFINE q == [task[t] EXCEPT !.operation = a, !.phase = "handoff_prepared"]
    <3>1. q.attempts = task[t].attempts /\ q.attempt = task[t].attempt
      BY <1>1 DEF TaskRecord
    <3>2. Counted(q)
      BY <1>1, <3>1, CountedFrom
    <3> QED
      BY <1>2, <2>2, <3>2 DEF PrepareProjectTaskHandoff
  <2>3. ASSUME NEW a \in 1..MaxAttempts, ObserveProjectTaskStarted(c, t, a)
        PROVE  AttemptsCounted'
    <3> DEFINE q == [task[t] EXCEPT !.state = "running", !.phase = "running"]
    <3>1. q.attempts = task[t].attempts /\ q.attempt = task[t].attempt
      BY <1>1 DEF TaskRecord
    <3>2. Counted(q)
      BY <1>1, <3>1, CountedFrom
    <3> QED
      BY <1>2, <2>3, <3>2 DEF ObserveProjectTaskStarted
  <2> QED
    BY <2>1, <2>2, <2>3 DEF StartStep
<1>3. task'[t] = r /\ \A u \in Task \ {t} : task'[u] = task[u]
  BY <1>1, <1>2 DEF ReplaceTask
<1> QED
  BY <1>1, <1>2, <1>3 DEF AttemptsCounted

LEMMA CountedSettle ==
  ASSUME TypeOK, AttemptsCounted, NEW c \in Caller, NEW t \in Task, SettleStep(c, t)
  PROVE  AttemptsCounted'
<1>1. /\ task \in [Task -> TaskRecord] /\ task[t] \in TaskRecord
      /\ \A u \in Task : task[u] \in TaskRecord /\ Counted(task[u])
  BY DEF TypeOK, AttemptsCounted
<1>2. PICK a \in 1..MaxAttempts, outcome \in Outcomes, cleanup \in BOOLEAN,
           unresolved \in BOOLEAN, kinds \in SUBSET RecoveryKind :
        \/ SettleProjectTask(c, t, a, outcome, cleanup, kinds, unresolved)
        \/ SettleProjectTaskBeforeEffect(c, t, a, outcome, cleanup, kinds, unresolved)
  BY DEF SettleStep
<1>3. CASE SettleProjectTask(c, t, a, outcome, cleanup, kinds, unresolved)
  <2> DEFINE s == SettledState(outcome, cleanup)
             r == SettledTask(task[t], s, cleanup, kinds, unresolved)
  <2>1. /\ task'[t] = r
        /\ \A u \in Task \ {t} : task'[u] = task[u]
                                 \/ task'[u] = [task[u] EXCEPT !.state = "ready"]
    BY <1>3, SettleEffect
  <2>2. Counted(r)
    BY <1>1, CountedSettled
  <2>3. ASSUME NEW u \in Task PROVE Counted([task[u] EXCEPT !.state = "ready"])
    <3> DEFINE q == [task[u] EXCEPT !.state = "ready"]
    <3>1. q.attempts = task[u].attempts /\ q.attempt = task[u].attempt
      BY <1>1 DEF TaskRecord
    <3> QED
      BY <1>1, <3>1, CountedFrom
  <2> HIDE DEF r
  <2>4. ASSUME NEW u \in Task PROVE Counted(task'[u])
    <3>1. CASE u = t
      BY <2>1, <2>2, <3>1
    <3>2. CASE u # t
      BY <1>1, <2>1, <2>3, <3>2
    <3> QED
      BY <3>1, <3>2
  <2> QED
    BY <2>4 DEF AttemptsCounted
<1>4. CASE SettleProjectTaskBeforeEffect(c, t, a, outcome, cleanup, kinds, unresolved)
  <2> DEFINE r == SettledTask(task[t], outcome, cleanup, kinds, unresolved)
  <2>1. Counted(r)
    BY <1>1, CountedSettled
  <2>2. task'[t] = r /\ \A u \in Task \ {t} : task'[u] = task[u]
    BY <1>1, <1>4 DEF SettleProjectTaskBeforeEffect, ReplaceTask
  <2> QED
    BY <1>1, <2>1, <2>2 DEF AttemptsCounted
<1> QED
  BY <1>2, <1>3, <1>4

LEMMA CountedRecovery ==
  ASSUME TypeOK, AttemptsCounted, NEW c \in Caller, RecoveryStep(c)
  PROVE  AttemptsCounted'
<1>1. /\ task \in [Task -> TaskRecord]
      /\ \A u \in Task : task[u] \in TaskRecord /\ Counted(task[u])
  BY DEF TypeOK, AttemptsCounted
<1>2. ASSUME NEW t \in Task, NEW k, NEW from, NEW to, MoveObligation(t, k, from, to)
      PROVE  AttemptsCounted'
  <2> DEFINE r == [task[t] EXCEPT !.obligation[k] = to]
  <2>1. r.attempts = task[t].attempts /\ r.attempt = task[t].attempt
    BY <1>1 DEF TaskRecord
  <2>2. Counted(r)
    BY <1>1, <2>1, CountedFrom
  <2>3. task'[t] = r /\ \A u \in Task \ {t} : task'[u] = task[u]
    BY <1>1, <1>2 DEF MoveObligation, ReplaceTask
  <2> QED
    BY <1>1, <2>2, <2>3 DEF AttemptsCounted
<1>3. ASSUME NEW ts \in SUBSET Task, RetrySettledProjectTaskRecoveries(c, ts)
      PROVE  AttemptsCounted'
  <2>1. \A u \in Task :
          \/ task'[u] = task[u]
          \/ task'[u] = [ReadyAgain(task[u], TRUE) EXCEPT !.retries = @ + 1]
    BY <1>3 DEF RetrySettledProjectTaskRecoveries
  <2>2. ASSUME NEW u \in Task PROVE Counted(task'[u])
    <3>1. Counted([ReadyAgain(task[u], TRUE) EXCEPT !.retries = @ + 1])
      BY <1>1, CountedReadyAgain
    <3> QED
      BY <1>1, <2>1, <3>1
  <2> QED
    BY <2>2 DEF AttemptsCounted
<1>4. ASSUME NEW m \in SUBSET Task, RecordProjectTaskOwnerLossRecoveries(c, m)
      PROVE  AttemptsCounted'
  <2>1. \A u \in Task :
          \/ task'[u] = task[u]
          \/ task'[u] = [ReadyAgain(task[u], TRUE) EXCEPT !.obligation = NoObligations,
                                                          !.unresolved = FALSE]
          \/ task'[u] = SettledTask(task[u], "recovery_required", FALSE, {"docker"}, FALSE)
    BY <1>4 DEF RecordProjectTaskOwnerLossRecoveries
  <2>2. ASSUME NEW u \in Task PROVE Counted(task'[u])
    <3>1. Counted([ReadyAgain(task[u], TRUE) EXCEPT !.obligation = NoObligations,
                                                    !.unresolved = FALSE])
      BY <1>1, CountedReadyAgain
    <3>2. Counted(SettledTask(task[u], "recovery_required", FALSE, {"docker"}, FALSE))
      BY <1>1, CountedSettled
    <3> QED
      BY <1>1, <2>1, <3>1, <3>2
  <2> QED
    BY <2>2 DEF AttemptsCounted
<1> QED
  BY <1>2, <1>3, <1>4
  DEF RecoveryStep, MarkProjectTaskRecoveryObligationRecovering,
      SettleProjectTaskRecoveryObligation, AcknowledgeProjectDockerRecoveryObligation

LEMMA CountedReplan ==
  ASSUME TypeOK, AttemptsCounted, NEW c \in Caller, ReplanStep(c)
  PROVE  AttemptsCounted'
<1>1. /\ task \in [Task -> TaskRecord]
      /\ \A u \in Task : task[u] \in TaskRecord /\ Counted(task[u])
  BY DEF TypeOK, AttemptsCounted
<1>2. ASSUME NEW t \in Task, NEW new \in Replacements,
             ApplyProjectRuntimePartialReplan(c, t, new)
      PROVE  AttemptsCounted'
  <2>1. ASSUME NEW u \in Task PROVE Counted([task[u] EXCEPT !.state = "superseded"])
    <3> DEFINE q == [task[u] EXCEPT !.state = "superseded"]
    <3>1. q.attempts = task[u].attempts /\ q.attempt = task[u].attempt
      BY <1>1 DEF TaskRecord
    <3> QED
      BY <1>1, <3>1, CountedFrom
  <2>2. ASSUME NEW u \in Task
        PROVE  \/ task'[u] = task[u]
               \/ task'[u] = [task[u] EXCEPT !.state = "superseded"]
               \/ \E s \in TaskState : task'[u] = NewTask(s)
    BY <1>2 DEF ApplyProjectRuntimePartialReplan, TaskState, NotStarted
  <2> QED
    BY <1>1, <2>1, <2>2, CountedNew DEF AttemptsCounted
<1>3. ASSUME NEW t \in Task, RetryProjectRuntimeTask(c, t)
      PROVE  AttemptsCounted'
  <2> DEFINE r == [ReadyAgain(task[t], FALSE) EXCEPT
                     !.obligation = NoObligations, !.unresolved = FALSE,
                     !.retries = @ + 1]
  <2>1. Counted(r)
    BY <1>1, CountedReadyAgain
  <2>2. task'[t] = r /\ \A u \in Task \ {t} : task'[u] = task[u]
    BY <1>1, <1>3 DEF RetryProjectRuntimeTask, ReplaceTask
  <2> QED
    BY <1>1, <2>1, <2>2 DEF AttemptsCounted
<1> QED
  BY <1>2, <1>3 DEF ReplanStep

LEMMA CountedStep ==
  ASSUME TypeOK, AttemptsCounted, [StateNext]_stateVars
  PROVE  AttemptsCounted'
<1>1. CASE UNCHANGED task
  BY <1>1 DEF AttemptsCounted
<1>2. ASSUME NEW c \in Caller, ObserveState(c) \/ DecisionStep(c)
      PROVE  AttemptsCounted'
  BY <1>1, <1>2, DecisionStepKeepsTasks DEF ObserveState, projectVars
<1>3. CASE UNCHANGED stateVars
  BY <1>1, <1>3 DEF stateVars, projectVars
<1> QED
  BY <1>2, <1>3, CountedStart, CountedSettle, CountedRecovery, CountedReplan DEF StateNext

\* Everything proved of the project state stays true under its transitions.
LEMMA ProjectStep ==
  ASSUME ProjectInv, [StateNext]_stateVars
  PROVE  ProjectInv' /\ TypeOK'
<1>1. TypeOK'
  BY StepType DEF ProjectInv, StateInv
<1> QED
  BY <1>1, NextStateInv, CountedStep, ConflictsExcludedStep, CapacityRespectedStep
  DEF ProjectInv, StateInv

-----------------------------------------------------------------------------
(* Each step of the operation is a transition of the project state, or none. *)

LEMMA Callers == "operation" \in Caller /\ "decision" \in Caller /\ "docker" \in RecoveryKind
                 /\ RecoveryKind = {"docker", "runtime_process"}
  BY OperationAssumption

LEMMA AttemptInRange ==
  ASSUME ProjectInv, NEW t \in Task, task[t].attempt # 0
  PROVE  task[t].attempt \in 1..MaxAttempts
<1>1. task[t] \in TaskRecord /\ Counted(task[t])
  BY DEF ProjectInv, StateInv, TypeOK, AttemptsCounted
<1>2. task[t].attempt \in Nat /\ task[t].attempts \in Nat
  BY <1>1 DEF TaskRecord
<1> QED
  BY <1>1, <1>2, Bounds DEF Counted

\* A task on its way has an attempt.
LEMMA OnItsWayAttempt ==
  ASSUME ProjectInv, NEW t \in Task, task[t].state \in {"starting", "running"}
  PROVE  /\ task[t].attempt \in 1..MaxAttempts
         /\ task[t].state = "running" \/ task[t].phase = "handoff_prepared" =>
              task[t].operation # 0
         /\ ObligationsOf(task[t]) = {}
<1>1. RecordValid(task[t])
  BY DEF ProjectInv, StateInv, RecordsValid
<1>2. task[t].attempt # 0
  BY <1>1 DEF RecordValid, ValidTaskLifecycleTuple, NotStarted, SettledStates
<1>3. task[t].state = "running" \/ task[t].phase = "handoff_prepared" =>
        task[t].operation # 0
  BY <1>1 DEF RecordValid, ValidTaskLifecycleTuple, NotStarted, SettledStates
<1>4. ObligationsOf(task[t]) = {}
  BY <1>1 DEF RecordValid, ValidObligations
<1> QED
  BY <1>2, <1>3, <1>4, AttemptInRange

LEMMA ApplicationStepIsState ==
  ASSUME ProjectInv, ApplicationStep
  PROVE  [StateNext]_stateVars
<1>1. CASE BindOwnerLoss
  <2>1. PICK m \in SUBSET PreparedTasks :
          RecordProjectTaskOwnerLossRecoveries("operation", m)
    BY <1>1 DEF BindOwnerLoss
  <2>2. m \in SUBSET Task
    BY DEF PreparedTasks
  <2>3. RecoveryStep("operation")
    BY <2>1, <2>2 DEF RecoveryStep
  <2> QED
    BY <2>3, Callers DEF StateNext
<1>2. ASSUME NEW t \in Task, NEW k \in RecoveryKind,
             MarkRecovering(t, k) \/ SettleObligation(t, k)
      PROVE  [StateNext]_stateVars
  <2>1. RecoveryStep("operation")
    BY <1>2 DEF MarkRecovering, SettleObligation, RecoveryStep
  <2> QED
    BY <2>1, Callers DEF StateNext
<1>3. ASSUME NEW t \in Task, AcknowledgeDocker(t)
      PROVE  [StateNext]_stateVars
  <2>1. task[t].attempt \in 1..MaxAttempts
    BY <1>3, AttemptInRange DEF AcknowledgeDocker
  <2>2. RecoveryStep("operation")
    BY <1>3, <2>1 DEF AcknowledgeDocker, RecoveryStep
  <2> QED
    BY <2>2, Callers DEF StateNext
<1>4. CASE RetrySettled
  <2>1. RetryableTasks \in SUBSET Task
    BY DEF RetryableTasks, TasksIn
  <2>2. UNCHANGED stateVars \/ RecoveryStep("operation")
    BY <1>4, <2>1 DEF RetrySettled, RecoveryStep
  <2> QED
    BY <2>2, Callers DEF StateNext
<1>5. CASE Acquire
  <2>1. ObserveState("operation") \/ UNCHANGED stateVars
    BY <1>5 DEF Acquire, ObserveState, stateVars
  <2> QED
    BY <2>1, Callers DEF StateNext
<1>6. CASE ReadState("operation")
  BY <1>6, Callers DEF ReadState, StateNext
<1>7. CASE \/ ReconcileOwnerLoss \/ ReconcileUnboundAcquisition \/ ReopenQueue
           \/ RebindQueue \/ SettleQueueRecovery \/ \E t \in Task : RecoverDocker(t)
  BY <1>7 DEF ReconcileOwnerLoss, ReconcileUnboundAcquisition, ReopenQueue, RebindQueue,
              SettleQueueRecovery, RecoverDocker
<1> QED
  BY <1>1, <1>2, <1>3, <1>4, <1>5, <1>6, <1>7 DEF ApplicationStep

\* What the executor stores of an answer is an outcome of the project state.
LEMMA OutcomeType ==
  ASSUME NEW t \in Task, answer \in [Task -> Answer]
  PROVE  /\ SettledOutcome(t) \in Outcomes
         /\ CleanupConfirmed(t) \in BOOLEAN
         /\ ObligationsNeeded(t) \in SUBSET RecoveryKind
         /\ RecoveryUnresolved(t) \in BOOLEAN
<1>1. SettledOutcome(t) \in Outcomes
  BY DEF SettledOutcome, Outcomes
<1>2. answer[t].restart \in BOOLEAN /\ answer[t].docker \in BOOLEAN
  BY DEF Answer
<1>3. /\ ContradictsStart(t) \in BOOLEAN /\ DelegatedUnknown(t) \in BOOLEAN
      /\ EffectUnknown(t) \in BOOLEAN /\ RecoveryNeeded(t) \in BOOLEAN
  BY <1>2 DEF ContradictsStart, DelegatedUnknown, EffectUnknown, RecoveryNeeded, Valid, Seen
<1>4. CleanupConfirmed(t) \in BOOLEAN
  BY <1>2, <1>3 DEF CleanupConfirmed
<1>5. ObligationsNeeded(t) \in SUBSET RecoveryKind
  BY DEF ObligationsNeeded
<1>6. RecoveryUnresolved(t) \in BOOLEAN
  BY <1>2, <1>3 DEF RecoveryUnresolved
<1> QED
  BY <1>1, <1>4, <1>5, <1>6

LEMMA SettleNextIsState ==
  ASSUME ProjectInv, OperationTypeOK, NEW t \in Task, SettleNext(t)
  PROVE  [StateNext]_stateVars
<1> DEFINE n == task[t].attempt
           outcome == SettledOutcome(t)
<1>0. answer \in [Task -> Answer]
  BY DEF OperationTypeOK
<1>1. \/ SettleProjectTask("operation", t, n, outcome, CleanupConfirmed(t),
                           ObligationsNeeded(t), RecoveryUnresolved(t))
      \/ SettleProjectTaskBeforeEffect("operation", t, n, "recovery_required",
                                       FALSE, {}, TRUE)
      \/ SettleProjectTaskBeforeEffect("operation", t, n, outcome, CleanupConfirmed(t),
                                       ObligationsNeeded(t), RecoveryUnresolved(t))
  BY DEF SettleNext
<1>2. task[t].state \in {"starting", "running"}
  BY <1>1 DEF SettleProjectTask, SettleProjectTaskBeforeEffect
<1>3. n \in 1..MaxAttempts
  BY <1>2, OnItsWayAttempt
<1>4. /\ outcome \in Outcomes /\ CleanupConfirmed(t) \in BOOLEAN
      /\ ObligationsNeeded(t) \in SUBSET RecoveryKind
      /\ RecoveryUnresolved(t) \in BOOLEAN
  BY <1>0, OutcomeType
<1>5. "recovery_required" \in Outcomes /\ {} \in SUBSET RecoveryKind
  BY DEF Outcomes
<1> HIDE DEF n, outcome
<1>6. SettleStep("operation", t)
  BY <1>1, <1>3, <1>4, <1>5 DEF SettleStep
<1> QED
  BY <1>6, Callers DEF StateNext

LEMMA ExecutorStepIsState ==
  ASSUME ProjectInv, OperationTypeOK, ExecutorStep
  PROVE  [StateNext]_stateVars
<1>1. ASSUME NEW t \in Task, ReserveNext(t) \/ PrepareNext(t) \/ ObserveStarted(t)
      PROVE  [StateNext]_stateVars
  <2>1. CASE ReserveNext(t)
    BY <2>1, Callers DEF ReserveNext, StartStep, StateNext
  <2>2. CASE PrepareNext(t)
    <3>1. PrepareProjectTaskHandoff("operation", t, task[t].attempt)
      BY <2>2 DEF PrepareNext
    <3>2. task[t].attempt \in 1..MaxAttempts
      BY <3>1, OnItsWayAttempt DEF PrepareProjectTaskHandoff
    <3> QED
      BY <3>1, <3>2, Callers DEF StartStep, StateNext
  <2>3. CASE ObserveStarted(t)
    <3>1. \/ UNCHANGED stateVars
          \/ ObserveProjectTaskStarted("operation", t, task[t].attempt)
      BY <2>3 DEF ObserveStarted
    <3>2. CASE ObserveProjectTaskStarted("operation", t, task[t].attempt)
      <4>1. task[t].attempt \in 1..MaxAttempts
        BY <3>2, OnItsWayAttempt DEF ObserveProjectTaskStarted
      <4> QED
        BY <3>2, <4>1, Callers DEF StartStep, StateNext
    <3> QED
      BY <3>1, <3>2
  <2> QED
    BY <1>1, <2>1, <2>2, <2>3
<1>2. ASSUME NEW t \in Task, AttemptStep(t), ~ObserveStarted(t)
      PROVE  UNCHANGED stateVars
  BY <1>2 DEF AttemptStep, CancelBeforeAuthority, AuthorizationRefused, RevocationUnknown,
              Delegate, RejectStart, AnswerSettled, AnswerUnknown, AnswerWith
<1>3. ASSUME NEW t \in Task, SettleNext(t)
      PROVE  [StateNext]_stateVars
  BY <1>3, SettleNextIsState
<1>4. wave \subseteq Task
  BY DEF OperationTypeOK
<1>5. CASE \/ YieldPriority \/ Claim \/ CancelBeforeRunning \/ StartRunning
           \/ SelectWave \/ FinishTasks \/ EndInVerdict \/ WriteRefused
           \/ FinalizeOwnedFailure \/ Release \/ ClearOwner
  BY <1>5 DEF YieldPriority, Claim, CancelBeforeRunning, StartRunning, SelectWave,
              FinishTasks, EndInVerdict, WriteRefused, FinalizeOwnedFailure, Release,
              ClearOwner
<1> QED
  BY <1>1, <1>2, <1>3, <1>4, <1>5 DEF ExecutorStep, AttemptStep

LEMMA OthersAreState ==
  ASSUME ReplannerStep \/ Abort \/ Crash \/ Restart \/ Accept \/ ReadState("decision")
  PROVE  [StateNext]_stateVars
<1>1. CASE ReplanState
  <2>1. \/ \E t \in Task : RetryProjectRuntimeTask("decision", t)
        \/ \E t \in Task, new \in Replacements :
             ApplyProjectRuntimePartialReplan("decision", t, new)
        \/ \E o \in Objective : RequestProjectRuntimeHumanDecision("decision", o)
    BY <1>1 DEF ReplanState
  <2>2. ReplanStep("decision") \/ DecisionStep("decision")
    BY <2>1 DEF ReplanStep, DecisionStep
  <2> QED
    BY <2>2, Callers DEF StateNext
<1>2. CASE Accept
  <2>1. DecisionStep("decision")
    BY <1>2 DEF Accept, DecisionStep
  <2> QED
    BY <2>1, Callers DEF StateNext
<1>3. CASE ReadState("decision")
  BY <1>3, Callers DEF ReadState, StateNext
<1>4. CASE ReplanQueue \/ ReplanCrash \/ Abort \/ Crash \/ Restart
  BY <1>4 DEF ReplanQueue, ReplanCrash, Abort, Crash, Restart
<1> QED
  BY <1>1, <1>2, <1>3, <1>4 DEF ReplannerStep

LEMMA StepIsState ==
  ASSUME OperationInv, [OperationNext]_operationVars
  PROVE  [StateNext]_stateVars
<1>1. CASE UNCHANGED operationVars
  BY <1>1 DEF operationVars
<1> QED
  BY <1>1, ApplicationStepIsState, ExecutorStepIsState, OthersAreState
  DEF OperationInv, OperationNext

-----------------------------------------------------------------------------
(* The types of the queue entry and of the run.                            *)

RunTypeOK ==
  /\ pc \in PC /\ wave \subseteq Task /\ stage \in [Task -> Stage]
  /\ answer \in [Task -> Answer] /\ delegated \subseteq Task
  /\ verdict \in {"none", "recovery_required", "replan_required", "cancelled"}
  /\ aborted \in BOOLEAN

LEMMA NoAnswerType ==
  /\ NoAnswer \in Answer
  /\ \A status \in {"completed", "blocked", "cancelled", "invalid"},
        effect \in {"no_effect", "settled", "unknown"} :
       /\ Result(status, effect) \in Answer
       /\ \A b \in BOOLEAN :
            /\ [Result(status, effect) EXCEPT !.restart = b] \in Answer
            /\ [Result(status, effect) EXCEPT !.docker = b] \in Answer
  BY DEF NoAnswer, Result, Answer

LEMMA EndRunType == ASSUME EndRun PROVE RunTypeOK'
  BY NoAnswerType DEF EndRun, RunTypeOK, PC, Stage

LEMMA UpdateQueueType ==
  ASSUME queue \in QueueEntry, NEW s, NEW resume \in ResumeCondition,
         NEW reference \in SUBSET (Recovery \cup OtherReference),
         UpdateQueue(s, resume, reference)
  PROVE  /\ queue' \in QueueEntry
         /\ queue'.state = s /\ queue'.owned = (queue.owned \/ s = "leased")
<1>1. queue.state \in QueueState /\ queue.owned \in BOOLEAN
  BY DEF QueueEntry
<1>2. s \in QueueState
  BY <1>1 DEF UpdateQueue, QueueTransitions, QueueState
<1>3. queue' = [state |-> s, owned |-> queue.owned \/ s = "leased",
                resume |-> resume, reference |-> reference]
  BY DEF UpdateQueue
<1>4. (queue.owned \/ s = "leased") \in BOOLEAN
  BY <1>1
<1> QED
  BY <1>2, <1>3, <1>4 DEF QueueEntry

LEMMA References ==
  ASSUME TypeOK
  PROVE  /\ RecoveryApplication \in SUBSET (Recovery \cup OtherReference)
         /\ RecoveryReference \in SUBSET (Recovery \cup OtherReference)
         /\ {} \in SUBSET (Recovery \cup OtherReference)
         /\ {<<"lease">>} \in SUBSET (Recovery \cup OtherReference)
         /\ {<<"failure">>} \in SUBSET (Recovery \cup OtherReference)
<1>1. ASSUME NEW t \in Task PROVE Recoveries(t) \subseteq Recovery
  <2>1. task[t].attempts \in Nat
    BY DEF TypeOK, TaskRecord
  <2> QED
    BY <2>1 DEF Recoveries, Recovery, ObligationsOf
<1>2. {<<"unresolved">>} \subseteq OtherReference /\ {<<"lease">>} \subseteq OtherReference
      /\ {<<"failure">>} \subseteq OtherReference
  BY DEF OtherReference
<1>3. RecoveryApplication \subseteq Recovery
  BY <1>1 DEF RecoveryApplication
<1>4. UNION {Recoveries(t) : t \in TasksIn({"recovery_required"})} \subseteq Recovery
  BY <1>1 DEF TasksIn
<1>5. RecoveryReference \subseteq Recovery \cup OtherReference
  BY <1>2, <1>4 DEF RecoveryReference
<1> QED
  BY <1>2, <1>3, <1>5

LEMMA ApplicationTypes ==
  ASSUME OperationTypeOK, TypeOK', ApplicationStep
  PROVE  OperationTypeOK'
<1>0. TypeOK /\ queue \in QueueEntry /\ queue.reference \in SUBSET (Recovery \cup OtherReference)
  BY DEF OperationTypeOK, QueueEntry
<1>1. CASE ReconcileOwnerLoss
  <2>1. queue' \in QueueEntry
    BY <1>0, <1>1, References DEF ReconcileOwnerLoss, QueueEntry, QueueState, ResumeCondition
  <2> QED
    BY <1>1, <2>1 DEF ReconcileOwnerLoss, OperationTypeOK, runVars
<1>2. CASE ReconcileUnboundAcquisition
  <2>1. queue' \in QueueEntry
    BY <1>0, <1>2, References DEF ReconcileUnboundAcquisition, QueueEntry
  <2> QED
    BY <1>2, <2>1 DEF ReconcileUnboundAcquisition, OperationTypeOK, runVars
<1>3. CASE \/ BindOwnerLoss \/ ReadState("operation")
           \/ \E t \in Task, k \in RecoveryKind : MarkRecovering(t, k) \/ SettleObligation(t, k)
           \/ \E t \in Task : AcknowledgeDocker(t)
  BY <1>3 DEF BindOwnerLoss, ReadState, MarkRecovering, SettleObligation,
              AcknowledgeDocker, OperationTypeOK, runVars
<1>4. CASE ReopenQueue
  <2>1. queue' \in QueueEntry
    BY <1>0, <1>4, References, UpdateQueueType DEF ReopenQueue, ResumeCondition
  <2> QED
    BY <1>4, <2>1 DEF ReopenQueue, OperationTypeOK, runVars
<1>5. CASE RebindQueue
  <2>1. queue' \in QueueEntry
    BY <1>0, <1>5, References, UpdateQueueType DEF RebindQueue, ResumeCondition
  <2> QED
    BY <1>5, <2>1 DEF RebindQueue, OperationTypeOK, runVars
<1>6. CASE \E t \in Task : RecoverDocker(t)
  BY <1>6 DEF RecoverDocker, OperationTypeOK, runVars
<1>7. CASE SettleQueueRecovery
  <2>1. queue' \in QueueEntry
    BY <1>0, <1>7 DEF SettleQueueRecovery, QueueEntry, QueueState, ResumeCondition
  <2> QED
    BY <1>7, <2>1 DEF SettleQueueRecovery, OperationTypeOK, runVars
<1>8. CASE RetrySettled
  BY <1>8 DEF RetrySettled, OperationTypeOK, PC
<1>9. CASE Acquire
  BY <1>9 DEF Acquire, KeepRun, OperationTypeOK, PC
<1> QED
  BY <1>1, <1>2, <1>3, <1>4, <1>5, <1>6, <1>7, <1>8, <1>9 DEF ApplicationStep

LEMMA FaultType ==
  ASSUME faults \in 0..MaxFaults
  PROVE  /\ Fault => faults' \in 0..MaxFaults
         /\ NoFault => faults' \in 0..MaxFaults
         /\ Refused => faults' \in 0..MaxFaults
  BY Bounds DEF Fault, NoFault, Refused

\* An attempt gets its answer.
LEMMA AnswerTypes ==
  ASSUME OperationTypeOK, TypeOK', NEW t \in Task, NEW a \in Answer, AnswerWith(t, a),
         delegated' = delegated, effects' \subseteq effects, faults' \in 0..MaxFaults
  PROVE  OperationTypeOK'
<1>1. stage' \in [Task -> Stage] /\ answer' \in [Task -> Answer]
  BY DEF AnswerWith, OperationTypeOK, Stage
<1> QED
  BY <1>1 DEF AnswerWith, OperationTypeOK

LEMMA AttemptTypes ==
  ASSUME OperationTypeOK, TypeOK', NEW t \in Task, AttemptStep(t)
  PROVE  OperationTypeOK'
<1>0. faults \in 0..MaxFaults
  BY DEF OperationTypeOK
<1>1. CASE CancelBeforeAuthority(t)
  <2>1. Result("cancelled", "no_effect") \in Answer
    BY NoAnswerType
  <2> QED
    BY <1>0, <1>1, <2>1, AnswerTypes DEF CancelBeforeAuthority
<1>2. CASE AuthorizationRefused(t)
  <2>1. Result("blocked", "no_effect") \in Answer /\ NoAnswer \in Answer
    BY NoAnswerType
  <2> QED
    BY <1>0, <1>2, <2>1, AnswerTypes, FaultType DEF AuthorizationRefused
<1>3. CASE RevocationUnknown(t)
  <2>1. [Result("blocked", "unknown") EXCEPT !.restart = TRUE] \in Answer
    BY NoAnswerType
  <2> QED
    BY <1>0, <1>3, <2>1, AnswerTypes, FaultType DEF RevocationUnknown
<1>4. CASE Delegate(t)
  <2>1. task[t].attempt \in Nat
    BY DEF OperationTypeOK, TypeOK, TaskRecord
  <2>2. effects' \subseteq Task \X Nat /\ faults' \in 0..MaxFaults
    BY <1>0, <1>4, <2>1, FaultType DEF Delegate, OperationTypeOK
  <2>3. stage' \in [Task -> Stage] /\ delegated' \subseteq Task
    BY <1>4 DEF Delegate, OperationTypeOK, Stage
  <2> QED
    BY <1>4, <2>2, <2>3 DEF Delegate, OperationTypeOK
<1>5. CASE ObserveStarted(t)
  <2>1. stage' \in [Task -> Stage] /\ faults' \in 0..MaxFaults
    BY <1>0, <1>5, FaultType DEF ObserveStarted, OperationTypeOK, Stage
  <2> QED
    BY <1>5, <2>1 DEF ObserveStarted, OperationTypeOK
<1>6. CASE RejectStart(t)
  <2>1. PICK restart \in BOOLEAN :
          AnswerWith(t, [Result("blocked", "no_effect") EXCEPT !.restart = restart])
    BY <1>6 DEF RejectStart
  <2>2. [Result("blocked", "no_effect") EXCEPT !.restart = restart] \in Answer
    BY NoAnswerType
  <2> QED
    BY <1>0, <1>6, <2>1, <2>2, AnswerTypes DEF RejectStart
<1>7. CASE AnswerSettled(t)
  <2>1. \A status \in {"completed", "blocked", "cancelled"} : Result(status, "settled") \in Answer
    BY NoAnswerType
  <2>2. [Result("blocked", "settled") EXCEPT !.restart = TRUE] \in Answer
    BY NoAnswerType
  <2>3. effects' \subseteq effects /\ delegated' = delegated /\ faults' \in 0..MaxFaults
    BY <1>0, <1>7, FaultType DEF AnswerSettled
  <2>4. PICK a \in Answer : AnswerWith(t, a)
    BY <1>7, <2>1, <2>2 DEF AnswerSettled
  <2> QED
    BY <2>3, <2>4, AnswerTypes
<1>8. CASE AnswerUnknown(t)
  <2>1. \A docker \in BOOLEAN : [Result("blocked", "unknown") EXCEPT !.docker = docker] \in Answer
    BY NoAnswerType
  <2>2. PICK a \in Answer : AnswerWith(t, a)
    BY <1>8, <2>1, NoAnswerType DEF AnswerUnknown
  <2>3. effects' \subseteq effects /\ delegated' = delegated /\ faults' \in 0..MaxFaults
    BY <1>0, <1>8, FaultType DEF AnswerUnknown
  <2> QED
    BY <2>2, <2>3, AnswerTypes
<1> QED
  BY <1>1, <1>2, <1>3, <1>4, <1>5, <1>6, <1>7, <1>8 DEF AttemptStep

LEMMA WaveTypes ==
  ASSUME OperationTypeOK, TypeOK', NEW t \in wave,
         ReserveNext(t) \/ PrepareNext(t) \/ SettleNext(t)
  PROVE  OperationTypeOK'
<1>0. wave \subseteq Task
  BY DEF OperationTypeOK
<1>1. CASE ReserveNext(t)
  BY <1>0, <1>1 DEF ReserveNext, OperationTypeOK, Stage
<1>2. CASE PrepareNext(t)
  BY <1>0, <1>2 DEF PrepareNext, OperationTypeOK, Stage, PC
<1>3. CASE SettleNext(t)
  <2>1. /\ verdict' \in {"none", "recovery_required", "replan_required", "cancelled"}
        /\ poisoned' \subseteq Task /\ wave' \subseteq Task /\ pc' \in PC
    BY <1>0, <1>3 DEF SettleNext, OperationTypeOK, PC
  <2>2. UNCHANGED <<queue, lease, stage, answer, delegated, aborted, effects, replan, faults>>
    BY <1>3 DEF SettleNext
  <2> QED
    BY <2>1, <2>2 DEF OperationTypeOK
<1> QED
  BY <1>1, <1>2, <1>3

LEMMA ExecutorTypes ==
  ASSUME OperationTypeOK, TypeOK', ExecutorStep
  PROVE  OperationTypeOK'
<1>0. /\ TypeOK /\ queue \in QueueEntry /\ wave \subseteq Task /\ faults \in 0..MaxFaults
      /\ lease \in {"free", "held", "orphaned"}
  BY DEF OperationTypeOK
<1>1. CASE YieldPriority
  BY <1>0, <1>1, EndRunType, FaultType DEF YieldPriority, RunTypeOK, OperationTypeOK
<1>2. CASE Claim
  <2>1. queue' \in QueueEntry
    BY <1>0, <1>2, References, UpdateQueueType DEF Claim, ResumeCondition
  <2> QED
    BY <1>2, <2>1 DEF Claim, KeepRun, OperationTypeOK, PC
<1>3. CASE CancelBeforeRunning
  <2>1. queue' \in QueueEntry
    BY <1>0, <1>3, References, UpdateQueueType DEF CancelBeforeRunning, ResumeCondition
  <2> QED
    BY <1>3, <2>1 DEF CancelBeforeRunning, KeepRun, OperationTypeOK, PC
<1>4. CASE StartRunning
  <2>1. queue' \in QueueEntry
    BY <1>0, <1>4, References, UpdateQueueType DEF StartRunning, ResumeCondition
  <2> QED
    BY <1>4, <2>1 DEF StartRunning, KeepRun, OperationTypeOK, PC
<1>5. CASE SelectWave
  <2>1. wave' \subseteq Task
    BY <1>5 DEF SelectWave, SelectSchedulableProjectTasks, EligibleTasks
  <2>2. stage' \in [Task -> Stage] /\ answer' \in [Task -> Answer]
    BY <1>5, NoAnswerType DEF SelectWave, Stage
  <2> QED
    BY <1>5, <2>1, <2>2 DEF SelectWave, OperationTypeOK, PC
<1>6. CASE FinishTasks
  <2>1. queue' \in QueueEntry
    BY <1>0, <1>6, References, UpdateQueueType DEF FinishTasks, ResumeCondition
  <2> QED
    BY <1>6, <2>1 DEF FinishTasks, KeepRun, OperationTypeOK, PC
<1>7. ASSUME NEW t \in wave, AttemptStep(t)
      PROVE  OperationTypeOK'
  BY <1>0, <1>7, AttemptTypes
<1>8. CASE EndInVerdict
  <2>1. queue' \in QueueEntry
    BY <1>0, <1>8, References, UpdateQueueType DEF EndInVerdict, ResumeCondition
  <2> QED
    BY <1>8, <2>1 DEF EndInVerdict, KeepRun, OperationTypeOK, PC
<1>9. CASE WriteRefused
  <2>1. faults' \in 0..MaxFaults
    BY <1>0, <1>9, FaultType DEF WriteRefused
  <2> QED
    BY <1>9, <2>1 DEF WriteRefused, KeepRun, OperationTypeOK, PC
<1>10. CASE FinalizeOwnedFailure
  <2>1. queue' \in QueueEntry /\ faults' \in 0..MaxFaults
    BY <1>0, <1>10, References, UpdateQueueType, FaultType
    DEF FinalizeOwnedFailure, ResumeCondition
  <2>2. lease' \in {"free", "held", "orphaned"}
    BY <1>0, <1>10 DEF FinalizeOwnedFailure
  <2>3. RunTypeOK'
    <3>1. CASE EndRun
      BY <3>1, EndRunType
    <3>2. CASE pc' = "release" /\ KeepRun
      BY <3>2 DEF KeepRun, RunTypeOK, OperationTypeOK, PC
    <3> QED
      BY <1>10, <3>1, <3>2 DEF FinalizeOwnedFailure
  <2> QED
    BY <1>10, <2>1, <2>2, <2>3 DEF FinalizeOwnedFailure, OperationTypeOK, RunTypeOK
<1>11. CASE Release
  <2>1. faults' \in 0..MaxFaults /\ lease' \in {"free", "held", "orphaned"}
    BY <1>0, <1>11, FaultType DEF Release
  <2>2. RunTypeOK'
    <3>1. CASE EndRun
      BY <3>1, EndRunType
    <3>2. CASE pc' = "clear" /\ KeepRun
      BY <3>2 DEF KeepRun, RunTypeOK, OperationTypeOK, PC
    <3> QED
      BY <1>11, <3>1, <3>2 DEF Release
  <2> QED
    BY <1>11, <2>1, <2>2 DEF Release, OperationTypeOK, RunTypeOK
<1>12. CASE ClearOwner
  <2>1. queue' \in QueueEntry /\ faults' \in 0..MaxFaults
    BY <1>0, <1>12, FaultType DEF ClearOwner, QueueEntry
  <2> QED
    BY <1>12, <2>1, EndRunType DEF ClearOwner, OperationTypeOK, RunTypeOK
<1> QED
  BY <1>1, <1>2, <1>3, <1>4, <1>5, <1>6, <1>7, <1>8, <1>9, <1>10, <1>11, <1>12, WaveTypes
  DEF ExecutorStep

LEMMA OtherTypes ==
  ASSUME OperationTypeOK, TypeOK',
         ReplannerStep \/ Abort \/ Crash \/ Restart \/ Accept \/ ReadState("decision")
  PROVE  OperationTypeOK'
<1>0. /\ TypeOK /\ queue \in QueueEntry /\ faults \in 0..MaxFaults
      /\ lease \in {"free", "held", "orphaned"}
  BY DEF OperationTypeOK
<1>1. CASE ReplanState \/ Accept \/ ReadState("decision")
  BY <1>1 DEF ReplanState, Accept, ReadState, OperationTypeOK, runVars
<1>2. CASE ReplanQueue
  <2>1. queue' \in QueueEntry
    BY <1>0, <1>2, References, UpdateQueueType DEF ReplanQueue, ResumeCondition
  <2> QED
    BY <1>2, <2>1 DEF ReplanQueue, OperationTypeOK, runVars
<1>3. CASE ReplanCrash
  BY <1>0, <1>3, FaultType DEF ReplanCrash, OperationTypeOK, runVars
<1>4. CASE Abort
  BY <1>4 DEF Abort, OperationTypeOK
<1>5. CASE Crash
  <2>1. lease' \in {"free", "held", "orphaned"} /\ faults' \in 0..MaxFaults
    BY <1>0, <1>5, FaultType DEF Crash, Orphan
  <2> QED
    BY <1>5, <2>1, EndRunType DEF Crash, OperationTypeOK, RunTypeOK
<1>6. CASE Restart
  BY <1>0, <1>6 DEF Restart, Orphan, OperationTypeOK, runVars
<1> QED
  BY <1>1, <1>2, <1>3, <1>4, <1>5, <1>6 DEF ReplannerStep

LEMMA TypeStep ==
  ASSUME OperationTypeOK, TypeOK', [OperationNext]_operationVars
  PROVE  OperationTypeOK'
<1>1. CASE UNCHANGED operationVars
  BY <1>1 DEF operationVars, runVars, OperationTypeOK
<1> QED
  BY <1>1, ApplicationTypes, ExecutorTypes, OtherTypes DEF OperationNext

-----------------------------------------------------------------------------
(* The state of the entry.                                                 *)

LEMMA ApplicationEntry ==
  ASSUME OperationTypeOK, EntryOfRun, ApplicationStep
  PROVE  EntryOfRun'
<1>0. TypeOK /\ queue \in QueueEntry
  BY DEF OperationTypeOK
<1>1. CASE ReconcileOwnerLoss
  BY <1>1 DEF ReconcileOwnerLoss, EntryOfRun, runVars
<1>2. CASE ReconcileUnboundAcquisition
  BY <1>2 DEF ReconcileUnboundAcquisition, EntryOfRun, runVars
<1>3. CASE \/ BindOwnerLoss \/ ReadState("operation")
           \/ \E t \in Task, k \in RecoveryKind : MarkRecovering(t, k) \/ SettleObligation(t, k)
           \/ \E t \in Task : AcknowledgeDocker(t) \/ RecoverDocker(t)
  BY <1>3 DEF BindOwnerLoss, ReadState, MarkRecovering, SettleObligation, RecoverDocker,
              AcknowledgeDocker, EntryOfRun, runVars
<1>4. CASE ReopenQueue \/ RebindQueue
  BY <1>4 DEF ReopenQueue, RebindQueue, OwnerLost, Idle, EntryOfRun, runVars
<1>5. CASE SettleQueueRecovery
  BY <1>5 DEF SettleQueueRecovery, RecoveryEntered, Idle, EntryOfRun, runVars
<1>6. CASE RetrySettled
  BY <1>6 DEF RetrySettled, EntryOfRun
<1>7. CASE Acquire
  BY <1>7 DEF Acquire, EntryOfRun
<1> QED
  BY <1>1, <1>2, <1>3, <1>4, <1>5, <1>6, <1>7 DEF ApplicationStep

LEMMA ExecutorEntry ==
  ASSUME OperationTypeOK, EntryOfRun, ExecutorStep
  PROVE  EntryOfRun'
<1>0. TypeOK /\ queue \in QueueEntry
  BY DEF OperationTypeOK
<1>1. CASE YieldPriority
  BY <1>1 DEF YieldPriority, EndRun, EntryOfRun
<1>2. CASE Claim
  BY <1>2 DEF Claim, UpdateQueue, EntryOfRun
<1>3. CASE CancelBeforeRunning
  BY <1>3 DEF CancelBeforeRunning, UpdateQueue, EntryOfRun
<1>4. CASE StartRunning
  BY <1>4 DEF StartRunning, UpdateQueue, EntryOfRun
<1>5. CASE SelectWave
  BY <1>5 DEF SelectWave, EntryOfRun
<1>6. CASE FinishTasks
  BY <1>6 DEF FinishTasks, UpdateQueue, EntryOfRun
<1>7. ASSUME NEW t \in wave, ReserveNext(t) \/ PrepareNext(t) \/ SettleNext(t)
      PROVE  EntryOfRun'
  <2>1. pc \in {"reserve", "run"} /\ UNCHANGED <<queue, replan>>
    BY <1>7 DEF ReserveNext, PrepareNext, SettleNext, AllAnswered
  <2>2. pc' \in {"select", "reserve", "run", "terminal"}
    BY <1>7 DEF ReserveNext, PrepareNext, SettleNext, AllAnswered
  <2> QED
    BY <2>1, <2>2 DEF EntryOfRun
<1>8. ASSUME NEW t \in wave, AttemptStep(t)
      PROVE  EntryOfRun'
  <2>1. UNCHANGED <<pc, queue, replan>>
    BY <1>8 DEF AttemptStep, CancelBeforeAuthority, AuthorizationRefused, RevocationUnknown,
                Delegate, ObserveStarted, RejectStart, AnswerSettled, AnswerUnknown, AnswerWith
  <2> QED
    BY <2>1 DEF EntryOfRun
<1>9. CASE EndInVerdict
  BY <1>9 DEF EndInVerdict, UpdateQueue, EntryOfRun
<1>10. CASE WriteRefused
  BY <1>10 DEF WriteRefused, AllAnswered, EntryOfRun
<1>11. CASE FinalizeOwnedFailure
  BY <1>11 DEF FinalizeOwnedFailure, UpdateQueue, EndRun, EntryOfRun
<1>12. CASE Release
  BY <1>12 DEF Release, EndRun, EntryOfRun
<1>13. CASE ClearOwner
  BY <1>0, <1>13 DEF ClearOwner, EndRun, EntryOfRun, QueueEntry
<1> QED
  BY <1>1, <1>2, <1>3, <1>4, <1>5, <1>6, <1>7, <1>8, <1>9, <1>10, <1>11, <1>12, <1>13
  DEF ExecutorStep

LEMMA EntryStep ==
  ASSUME OperationTypeOK, EntryOfRun, [OperationNext]_operationVars
  PROVE  EntryOfRun'
<1>1. CASE UNCHANGED operationVars
  BY <1>1 DEF operationVars, runVars, EntryOfRun
<1>2. CASE ReplanState \/ Accept \/ ReadState("decision")
  BY <1>2 DEF ReplanState, Accept, ReadState, EntryOfRun, runVars
<1>3. CASE ReplanQueue
  BY <1>3 DEF ReplanQueue, EntryOfRun, runVars
<1>4. CASE ReplanCrash \/ Abort \/ Restart
  BY <1>4 DEF ReplanCrash, Abort, Restart, EntryOfRun, runVars
<1>5. CASE Crash
  BY <1>5 DEF Crash, EndRun, EntryOfRun
<1> QED
  BY <1>1, <1>2, <1>3, <1>4, <1>5, ApplicationEntry, ExecutorEntry
  DEF OperationNext, ReplannerStep

-----------------------------------------------------------------------------
(* What is at work, and what its task has on record.                       *)

LEMMA CoveredTask ==
  ASSUME OperationInv, NEW e \in effects
  PROVE  /\ e[1] \in Task /\ e[2] \in Nat /\ e = <<e[1], task[e[1]].attempt>>
         /\ Covers(task[e[1]], e[2])
         /\ task[e[1]].state \in {"starting", "running", "recovery_required"}
         /\ task[e[1]] \in TaskRecord
<1>1. Covers(task[e[1]], e[2])
  BY DEF OperationInv, EffectsCovered
<1>2. e \in Task \X Nat
  BY DEF OperationInv, OperationTypeOK
<1>3. task \in [Task -> TaskRecord]
  BY DEF OperationInv, OperationTypeOK, TypeOK
<1> QED
  BY <1>1, <1>2, <1>3 DEF Covers

LEMMA AtWorkCovered ==
  ASSUME OperationInv, NEW t \in Task, AtWork(t)
  PROVE  /\ <<t, task[t].attempt>> \in effects
         /\ task[t].state \in {"starting", "running", "recovery_required"}
<1>1. PICK n \in Nat : <<t, n>> \in effects
  BY DEF AtWork
<1>2. <<t, n>>[1] = t
  OBVIOUS
<1> QED
  BY <1>1, <1>2, CoveredTask

\* Steps that change no task and start nothing.
LEMMA QuietEffects ==
  ASSUME EffectsCovered, UNCHANGED task, effects' \subseteq effects
  PROVE  EffectsCovered'
  BY DEF EffectsCovered

\* A task whose attempt is left alone by the step stays true to its stage.
LEMMA OtherStages ==
  ASSUME NEW u, StageTrue(u), stage'[u] = stage[u], answer'[u] = answer[u],
         delegated \subseteq delegated', task'[u] = task[u], AtWork(u)' => AtWork(u)
  PROVE  StageTrue(u)'
  BY DEF StageTrue, EffectUnknown, ContradictsStart, Seen, Valid

LEMMA QuietStages ==
  ASSUME StagesTrue, UNCHANGED <<task, effects>>,
         \/ pc' \notin Begun
         \/ /\ UNCHANGED <<wave, stage, answer, delegated>>
            /\ pc' \in Begun => pc \in Begun
  PROVE  StagesTrue'
<1>1. CASE pc' \notin Begun
  BY <1>1 DEF StagesTrue
<1>2. CASE UNCHANGED <<wave, stage, answer, delegated>> /\ pc \in Begun
  <2>1. ASSUME NEW u \in wave PROVE StageTrue(u)'
    BY <1>2, <2>1, OtherStages DEF StagesTrue, AtWork
  <2> QED
    BY <1>2, <2>1 DEF StagesTrue
<1> QED
  BY <1>1, <1>2

Work == StagesTrue /\ EffectsCovered

LEMMA QuietWork ==
  ASSUME Work, UNCHANGED <<task, effects>>,
         \/ pc' \notin Begun
         \/ /\ UNCHANGED <<wave, stage, answer, delegated>>
            /\ pc' \in Begun => pc \in Begun
  PROVE  Work'
  BY QuietStages, QuietEffects DEF Work

-----------------------------------------------------------------------------
(* Recovering, and taking up an operation, when nothing runs.              *)

\* One obligation moves; if that ends it, the container is gone.
LEMMA MovedStillCovers ==
  ASSUME OperationInv, NEW t \in Task, NEW k \in RecoveryKind, NEW from, NEW to,
         MoveObligation(t, k, from, to), UNCHANGED effects,
         k = "docker" => to = "recovering" \/ ~AtWork(t)
  PROVE  EffectsCovered'
<1> DEFINE r == [task[t] EXCEPT !.obligation[k] = to]
<1>1. task[t] \in TaskRecord /\ task \in [Task -> TaskRecord]
  BY DEF OperationInv, OperationTypeOK, TypeOK
<1>2. task'[t] = r /\ \A u \in Task \ {t} : task'[u] = task[u]
  BY <1>1 DEF MoveObligation, ReplaceTask
<1>3. /\ r.attempt = task[t].attempt /\ r.state = task[t].state
      /\ r.cleanup = task[t].cleanup /\ r.unresolved = task[t].unresolved
      /\ r.obligation = [task[t].obligation EXCEPT ![k] = to]
  BY <1>1 DEF TaskRecord
<1>4. /\ task[t].obligation \in [RecoveryKind -> ObligationPhase \cup {"none"}]
      /\ "docker" \in RecoveryKind
  BY <1>1, Callers DEF TaskRecord
<1>5. r.obligation["docker"] = IF k = "docker" THEN to ELSE task[t].obligation["docker"]
  BY <1>3, <1>4
<1>6. task[t].state = "recovery_required"
  BY DEF MoveObligation
<1> HIDE DEF r
<1>7. ASSUME NEW e \in effects PROVE Covers(task'[e[1]], e[2])
  <2>1. /\ e[1] \in Task /\ e[2] \in Nat /\ e = <<e[1], task[e[1]].attempt>>
        /\ Covers(task[e[1]], e[2])
    BY CoveredTask
  <2>2. CASE e[1] # t
    BY <1>2, <2>1, <2>2
  <2>3. CASE e[1] = t
    <3>1. AtWork(t)
      BY <2>1, <2>3 DEF AtWork, Covers
    <3>2. k = "docker" => to = "recovering"
      BY <3>1
    <3> QED
      BY <1>2, <1>3, <1>5, <1>6, <2>1, <2>3, <3>2 DEF Covers
  <2> QED
    BY <2>2, <2>3
<1> QED
  BY <1>7 DEF EffectsCovered

LEMMA RetryStillCovers ==
  ASSUME OperationInv, UNCHANGED effects,
         RetrySettledProjectTaskRecoveries("operation", RetryableTasks)
  PROVE  EffectsCovered'
<1>1. ASSUME NEW e \in effects PROVE Covers(task'[e[1]], e[2])
  <2> DEFINE t == e[1]
  <2>1. /\ t \in Task /\ Covers(task[t], e[2]) /\ task[t] \in TaskRecord
        /\ task[t].state \in {"starting", "running", "recovery_required"}
    BY CoveredTask
  <2>2. ASSUME t \in RetryableTasks PROVE FALSE
    <3>1. /\ task[t].state = "recovery_required" /\ ~task[t].unresolved
          /\ Discharged(task[t])
      BY <2>1, <2>2 DEF RetryableTasks, RecoveryFinished
    <3>2. task[t].obligation["docker"] \in {"required", "recovering"}
      BY <2>1, <3>1 DEF Covers
    <3>3. "docker" \in ObligationsOf(task[t])
      BY <3>2, Callers DEF ObligationsOf
    <3> QED
      BY <3>1, <3>2, <3>3 DEF Discharged
  <2>3. task'[t] = task[t]
    BY <2>1, <2>2 DEF RetrySettledProjectTaskRecoveries
  <2> QED
    BY <2>1, <2>3
<1> QED
  BY <1>1 DEF EffectsCovered

LEMMA OwnerLossStillCovers ==
  ASSUME OperationInv, BindOwnerLoss
  PROVE  EffectsCovered'
<1>1. PICK matched \in SUBSET PreparedTasks :
        /\ {t \in PreparedTasks : <<t, task[t].attempt>> \in effects} \subseteq matched
        /\ RecordProjectTaskOwnerLossRecoveries("operation", matched)
        /\ UNCHANGED effects
  BY DEF BindOwnerLoss
<1>2. ASSUME NEW e \in effects PROVE Covers(task'[e[1]], e[2])
  <2> DEFINE t == e[1]
  <2>1. /\ t \in Task /\ Covers(task[t], e[2]) /\ task[t] \in TaskRecord
        /\ task[t].state \in {"starting", "running", "recovery_required"}
        /\ <<t, task[t].attempt>> \in effects
    BY CoveredTask
  <2> HIDE DEF t
  <2>2. CASE task[t].state = "recovery_required"
    <3>1. t \notin ReservedTasks \cup PreparedTasks
      BY <2>2 DEF ReservedTasks, PreparedTasks
    <3>2. task'[t] = task[t]
      BY <1>1, <2>1, <3>1 DEF RecordProjectTaskOwnerLossRecoveries
    <3> QED
      BY <2>1, <3>2 DEF t
  <2>3. CASE task[t].state # "recovery_required"
    <3>1. task[t].operation # 0
      BY <2>1, <2>3, OnItsWayAttempt DEF Covers, OperationInv
    <3>2. t \in PreparedTasks
      BY <2>1, <2>3, <3>1 DEF PreparedTasks
    <3>3. t \in matched
      BY <1>1, <2>1, <3>2
    <3>4. task'[t] = SettledTask(task[t], "recovery_required", FALSE, {"docker"}, FALSE)
      BY <1>1, <2>1, <3>3 DEF RecordProjectTaskOwnerLossRecoveries
    <3>5. {"docker"} \in SUBSET RecoveryKind
      BY Callers
    <3>6. /\ task'[t].state = "recovery_required" /\ task'[t].cleanup = FALSE
          /\ task'[t].obligation = Required({"docker"})
          /\ task'[t].attempt = task[t].attempt
      <4> DEFINE r == task[t]
                 q == SettledTask(r, "recovery_required", FALSE, {"docker"}, FALSE)
      <4>1. r \in TaskRecord
        BY <2>1
      <4> HIDE DEF r
      <4>2. /\ q.state = "recovery_required" /\ q.cleanup = FALSE
            /\ q.obligation = Required({"docker"}) /\ q.attempt = r.attempt
        BY <4>1 DEF SettledTask, TaskRecord
      <4> QED
        BY <3>4, <4>2 DEF r
    <3>7. Required({"docker"})["docker"] = "required"
      BY Callers DEF Required
    <3> QED
      BY <2>1, <3>6, <3>7 DEF Covers, t
  <2> QED
    BY <2>2, <2>3
<1> QED
  BY <1>1, <1>2 DEF EffectsCovered

LEMMA ApplicationWork ==
  ASSUME OperationInv, ApplicationStep
  PROVE  Work'
<1>0. Work
  BY DEF OperationInv, Work
<1>1. CASE \/ ReconcileOwnerLoss \/ ReconcileUnboundAcquisition \/ ReopenQueue
           \/ RebindQueue \/ SettleQueueRecovery \/ ReadState("operation")
  <2>1. UNCHANGED <<task, effects, runVars>>
    BY <1>1 DEF ReconcileOwnerLoss, ReconcileUnboundAcquisition, ReopenQueue, RebindQueue,
                SettleQueueRecovery, ReadState, ObserveState, stateVars, projectVars
  <2> QED
    BY <1>0, <2>1, QuietWork DEF runVars
<1>2. CASE Acquire
  BY <1>0, <1>2, QuietWork DEF Acquire, projectVars, Begun
<1>3. ASSUME ~Acquire, ~ReconcileOwnerLoss, ~ReconcileUnboundAcquisition, ~ReopenQueue,
             ~RebindQueue, ~SettleQueueRecovery, ~ReadState("operation")
      PROVE  Work'
  <2>1. pc' \in {"idle", "recovered"}
    BY <1>3 DEF ApplicationStep, BindOwnerLoss, MarkRecovering, SettleObligation,
                RecoverDocker, AcknowledgeDocker, RetrySettled, RecoveryEntered, Idle, runVars
  <2>2. StagesTrue'
    BY <2>1 DEF StagesTrue, Begun
  <2>3. CASE BindOwnerLoss
    BY <2>2, <2>3, OwnerLossStillCovers DEF Work
  <2>4. ASSUME NEW t \in Task, NEW k \in RecoveryKind, MarkRecovering(t, k)
        PROVE  Work'
    <3>1. MoveObligation(t, k, "required", "recovering") /\ UNCHANGED effects
      BY <2>4 DEF MarkRecovering, MarkProjectTaskRecoveryObligationRecovering
    <3> QED
      BY <2>2, <3>1, MovedStillCovers DEF Work
  <2>5. ASSUME NEW t \in Task, NEW k \in RecoveryKind, SettleObligation(t, k)
        PROVE  Work'
    <3>1. MoveObligation(t, k, "recovering", "settled") /\ UNCHANGED effects
      BY <2>5 DEF SettleObligation, SettleProjectTaskRecoveryObligation
    <3>2. k = "docker" => ~AtWork(t)
      BY <2>5, AtWorkCovered DEF SettleObligation
    <3> QED
      BY <2>2, <3>1, <3>2, MovedStillCovers DEF Work
  <2>6. ASSUME NEW t \in Task, RecoverDocker(t)
        PROVE  Work'
    <3>1. UNCHANGED task /\ effects' \subseteq effects
      BY <2>6 DEF RecoverDocker, stateVars, projectVars
    <3> QED
      BY <1>0, <2>2, <3>1, QuietEffects DEF Work
  <2>7. ASSUME NEW t \in Task, AcknowledgeDocker(t)
        PROVE  Work'
    <3>1. MoveObligation(t, "docker", "settled", "acknowledged") /\ UNCHANGED effects
      BY <2>7 DEF AcknowledgeDocker, AcknowledgeProjectDockerRecoveryObligation
    <3>2. task[t].obligation["docker"] = "settled"
      BY <3>1 DEF MoveObligation
    <3>3. ~AtWork(t)
      <4>1. ASSUME AtWork(t) PROVE FALSE
        <5>1. <<t, task[t].attempt>> \in effects /\ <<t, task[t].attempt>>[1] = t
          BY <4>1, AtWorkCovered
        <5> QED
          BY <3>2, <5>1, CoveredTask DEF Covers
      <4> QED
        BY <4>1
    <3> QED
      BY <2>2, <3>1, <3>3, Callers, MovedStillCovers DEF Work
  <2>8. CASE RetrySettled
    <3>1. CASE UNCHANGED stateVars
      <4>1. UNCHANGED task /\ effects' \subseteq effects
        BY <2>8, <3>1 DEF RetrySettled, stateVars, projectVars
      <4> QED
        BY <1>0, <2>2, <4>1, QuietEffects DEF Work
    <3>2. CASE RetrySettledProjectTaskRecoveries("operation", RetryableTasks)
      BY <2>2, <2>8, <3>2, RetryStillCovers DEF RetrySettled, Work
    <3> QED
      BY <2>8, <3>1, <3>2 DEF RetrySettled
  <2> QED
    BY <1>3, <2>3, <2>4, <2>5, <2>6, <2>7, <2>8 DEF ApplicationStep
<1> QED
  BY <1>1, <1>2, <1>3

-----------------------------------------------------------------------------
(* A wave: reserved, handed over, answered, settled.                       *)

\* Steps that change the record of one task that has nothing at work.
LEMMA OneTaskEffects ==
  ASSUME OperationInv, NEW t \in Task, ~AtWork(t), UNCHANGED effects,
         \A u \in Task \ {t} : task'[u] = task[u]
  PROVE  EffectsCovered'
<1>1. ASSUME NEW e \in effects PROVE Covers(task'[e[1]], e[2])
  <2>1. /\ e[1] \in Task /\ e[2] \in Nat /\ e = <<e[1], e[2]>>
        /\ Covers(task[e[1]], e[2])
    BY CoveredTask DEF Covers
  <2>2. e[1] # t
    BY <2>1 DEF AtWork
  <2> QED
    BY <2>1, <2>2
<1> QED
  BY <1>1 DEF EffectsCovered

LEMMA ReserveWork ==
  ASSUME OperationInv, NEW t \in wave, ReserveNext(t)
  PROVE  Work'
<1>0. /\ t \in Task /\ task \in [Task -> TaskRecord] /\ stage \in [Task -> Stage]
      /\ wave \subseteq Task
  BY DEF OperationInv, OperationTypeOK, TypeOK
<1>1. /\ pc = "reserve" /\ ReserveProjectTaskStart("operation", t)
      /\ stage' = [stage EXCEPT ![t] = "reserved"]
      /\ UNCHANGED <<pc, wave, answer, delegated, effects>>
  BY DEF ReserveNext
<1>2. /\ task[t].state = "ready" /\ \A u \in Task \ {t} : task'[u] = task[u]
  BY <1>0, <1>1, Callers, ReserveEligible DEF EligibleTasks, OperationInv, OperationTypeOK
<1>3. ~AtWork(t)
  BY <1>0, <1>2, AtWorkCovered
<1>4. StageTrue(t)'
  BY <1>0, <1>1, <1>3 DEF StageTrue, AtWork
<1>5. ASSUME NEW u \in wave, u # t PROVE StageTrue(u)'
  <2>1. StageTrue(u)
    BY <1>1 DEF OperationInv, StagesTrue, Begun
  <2>2. /\ stage'[u] = stage[u] /\ task'[u] = task[u] /\ answer'[u] = answer[u]
        /\ AtWork(u)' => AtWork(u)
    BY <1>0, <1>1, <1>2, <1>5 DEF AtWork
  <2> QED
    BY <1>1, <2>1, <2>2, OtherStages
<1>6. StagesTrue'
  BY <1>1, <1>4, <1>5 DEF StagesTrue
<1> QED
  BY <1>0, <1>1, <1>2, <1>3, <1>6, OneTaskEffects DEF Work

LEMMA PrepareWork ==
  ASSUME OperationInv, NEW t \in wave, PrepareNext(t)
  PROVE  Work'
<1>0. /\ t \in Task /\ task \in [Task -> TaskRecord] /\ stage \in [Task -> Stage]
      /\ wave \subseteq Task
  BY DEF OperationInv, OperationTypeOK, TypeOK
<1> DEFINE r == [task[t] EXCEPT !.operation = task[t].attempt, !.phase = "handoff_prepared"]
<1>1. /\ pc = "reserve" /\ stage[t] = "reserved" /\ task[t].state = "starting"
      /\ ReplaceTask(t, r) /\ stage' = [stage EXCEPT ![t] = "prepared"]
      /\ UNCHANGED <<wave, answer, delegated, effects>>
  BY DEF PrepareNext, PrepareProjectTaskHandoff
<1>2. r.state = task[t].state /\ r.phase = "handoff_prepared"
  BY <1>0 DEF TaskRecord
<1>3. task'[t] = r /\ \A u \in Task \ {t} : task'[u] = task[u]
  BY <1>0, <1>1 DEF ReplaceTask
<1> HIDE DEF r
<1>4. StageTrue(t)
  BY <1>1 DEF OperationInv, StagesTrue, Begun
<1>5. ~AtWork(t)
  BY <1>1, <1>4 DEF StageTrue
<1>6. StageTrue(t)'
  BY <1>0, <1>1, <1>2, <1>3, <1>5 DEF StageTrue, AtWork
<1>7. ASSUME NEW u \in wave, u # t PROVE StageTrue(u)'
  <2>1. StageTrue(u)
    BY <1>1 DEF OperationInv, StagesTrue, Begun
  <2>2. /\ stage'[u] = stage[u] /\ task'[u] = task[u] /\ answer'[u] = answer[u]
        /\ AtWork(u)' => AtWork(u)
    BY <1>0, <1>1, <1>3, <1>7 DEF AtWork
  <2> QED
    BY <1>1, <2>1, <2>2, OtherStages
<1>8. StagesTrue'
  BY <1>1, <1>6, <1>7 DEF StagesTrue
<1> QED
  BY <1>0, <1>1, <1>3, <1>5, <1>8, OneTaskEffects DEF Work

LEMMA DelegateWork ==
  ASSUME OperationInv, NEW t \in wave, Delegate(t)
  PROVE  Work'
<1>0. /\ t \in Task /\ task \in [Task -> TaskRecord] /\ stage \in [Task -> Stage]
      /\ wave \subseteq Task /\ effects \subseteq Task \X Nat
  BY DEF OperationInv, OperationTypeOK, TypeOK
<1>1. /\ pc = "run" /\ stage[t] = "prepared" /\ stage' = [stage EXCEPT ![t] = "delegated"]
      /\ delegated' = delegated \cup {t}
      /\ effects' \subseteq effects \cup {<<t, task[t].attempt>>}
      /\ UNCHANGED <<pc, wave, answer, task>>
  BY DEF Delegate, Beginning, FirstOf, InStage, stateVars, projectVars
<1>2. /\ StageTrue(t) /\ task[t].state = "starting"
      /\ task[t].phase = "handoff_prepared"
  BY <1>1 DEF OperationInv, StagesTrue, Begun, StageTrue
<1>3. task[t].obligation["docker"] = "none"
  BY <1>0, <1>2, Callers, OnItsWayAttempt DEF ObligationsOf, OperationInv
<1>4. Covers(task[t], task[t].attempt)
  BY <1>2, <1>3 DEF Covers
<1>5. EffectsCovered'
  <2>1. ASSUME NEW e \in effects' PROVE Covers(task'[e[1]], e[2])
    <3>1. CASE e \in effects
      BY <1>1, <3>1 DEF OperationInv, EffectsCovered
    <3>2. CASE e = <<t, task[t].attempt>>
      BY <1>1, <1>4, <3>2
    <3> QED
      BY <1>1, <3>1, <3>2
  <2> QED
    BY <2>1 DEF EffectsCovered
<1>6. StageTrue(t)'
  BY <1>0, <1>1 DEF StageTrue
<1>7. ASSUME NEW u \in wave, u # t PROVE StageTrue(u)'
  <2>1. StageTrue(u)
    BY <1>1 DEF OperationInv, StagesTrue, Begun
  <2>2. ASSUME AtWork(u)' PROVE AtWork(u)
    <3>1. PICK n \in Nat : <<u, n>> \in effects'
      BY <2>2 DEF AtWork
    <3>2. <<u, n>> # <<t, task[t].attempt>>
      BY <1>7
    <3> QED
      BY <1>1, <3>1, <3>2 DEF AtWork
  <2>3. stage'[u] = stage[u] /\ task'[u] = task[u] /\ answer'[u] = answer[u]
    BY <1>0, <1>1, <1>7
  <2> QED
    BY <1>1, <2>1, <2>2, <2>3, OtherStages
<1>8. StagesTrue'
  BY <1>1, <1>6, <1>7 DEF StagesTrue
<1> QED
  BY <1>5, <1>8 DEF Work

LEMMA ObserveWork ==
  ASSUME OperationInv, NEW t \in wave, ObserveStarted(t)
  PROVE  Work'
<1>0. /\ t \in Task /\ task \in [Task -> TaskRecord] /\ stage \in [Task -> Stage]
      /\ wave \subseteq Task
  BY DEF OperationInv, OperationTypeOK, TypeOK
<1> DEFINE r == [task[t] EXCEPT !.state = "running", !.phase = "running"]
<1>1. /\ pc = "run" /\ stage[t] = "delegated"
      /\ stage' \in {[stage EXCEPT ![t] = "seen"], [stage EXCEPT ![t] = "unseen"]}
      /\ UNCHANGED <<pc, wave, answer, delegated, effects>>
  BY DEF ObserveStarted, Awaiting
<1>2. \/ UNCHANGED task
      \/ ReplaceTask(t, r)
  BY DEF ObserveStarted, ObserveProjectTaskStarted, stateVars, projectVars
<1>3. /\ r.state = "running" /\ r.attempt = task[t].attempt
      /\ r.obligation = task[t].obligation
  BY <1>0 DEF TaskRecord
<1>4. task'[t] \in {task[t], r} /\ \A u \in Task \ {t} : task'[u] = task[u]
  BY <1>0, <1>2 DEF ReplaceTask
<1> HIDE DEF r
<1>5. ASSUME NEW e \in effects PROVE Covers(task'[e[1]], e[2])
  <2>1. e[1] \in Task /\ Covers(task[e[1]], e[2])
    BY CoveredTask
  <2>2. CASE e[1] = t
    BY <1>3, <1>4, <2>1, <2>2 DEF Covers
  <2>3. CASE e[1] # t
    BY <1>4, <2>1, <2>3
  <2> QED
    BY <2>2, <2>3
<1>6. StageTrue(t)
  BY <1>1 DEF OperationInv, StagesTrue, Begun
<1>7. StageTrue(t)'
  <2>1. stage'[t] \in {"seen", "unseen"} /\ t \in delegated
    BY <1>0, <1>1, <1>6 DEF StageTrue
  <2> QED
    BY <1>1, <2>1 DEF StageTrue
<1>8. ASSUME NEW u \in wave, u # t PROVE StageTrue(u)'
  <2>1. StageTrue(u)
    BY <1>1 DEF OperationInv, StagesTrue, Begun
  <2>2. /\ stage'[u] = stage[u] /\ task'[u] = task[u] /\ answer'[u] = answer[u]
        /\ AtWork(u)' => AtWork(u)
    BY <1>0, <1>1, <1>4, <1>8 DEF AtWork
  <2> QED
    BY <1>1, <2>1, <2>2, OtherStages
<1>9. StagesTrue'
  BY <1>1, <1>7, <1>8 DEF StagesTrue
<1> QED
  BY <1>1, <1>5, <1>9 DEF Work, EffectsCovered

\* An answer is true to what the attempt has at work.
LEMMA AnswerWork ==
  ASSUME OperationInv, NEW t \in wave, pc = "run", NEW a, AnswerWith(t, a),
         effects' \subseteq effects, delegated' = delegated,
         AtWork(t)' => /\ stage[t] \in {"delegated", "seen", "unseen"}
                       /\ a.status = "invalid" \/ a.effect = "unknown"
  PROVE  Work'
<1>0. /\ t \in Task /\ stage \in [Task -> Stage] /\ answer \in [Task -> Answer]
      /\ wave \subseteq Task
  BY DEF OperationInv, OperationTypeOK, TypeOK
<1>1. /\ stage' = [stage EXCEPT ![t] = IF @ = "seen" THEN "answered_seen" ELSE "answered"]
      /\ answer' = [answer EXCEPT ![t] = a]
      /\ UNCHANGED <<task, pc, wave>>
  BY DEF AnswerWith, stateVars, projectVars
<1>2. /\ stage'[t] = (IF stage[t] = "seen" THEN "answered_seen" ELSE "answered")
      /\ answer'[t] = a
  BY <1>0, <1>1
<1>3. StageTrue(t)
  BY DEF OperationInv, StagesTrue, Begun
<1>4. StageTrue(t)'
  BY <1>2, <1>3 DEF StageTrue, EffectUnknown, ContradictsStart, Seen, Valid
<1>5. ASSUME NEW u \in wave, u # t PROVE StageTrue(u)'
  <2>1. StageTrue(u)
    BY DEF OperationInv, StagesTrue, Begun
  <2>2. /\ stage'[u] = stage[u] /\ task'[u] = task[u] /\ answer'[u] = answer[u]
        /\ AtWork(u)' => AtWork(u)
    BY <1>0, <1>1, <1>5 DEF AtWork
  <2> QED
    BY <2>1, <2>2, OtherStages
<1>6. StagesTrue'
  BY <1>1, <1>4, <1>5 DEF StagesTrue
<1> QED
  BY <1>1, <1>6, QuietEffects DEF Work, OperationInv

LEMMA AttemptWork ==
  ASSUME OperationInv, NEW t \in wave, AttemptStep(t)
  PROVE  Work'
<1>0. t \in Task
  BY DEF OperationInv, OperationTypeOK
<1>1. CASE Delegate(t)
  BY <1>1, DelegateWork
<1>2. CASE ObserveStarted(t)
  BY <1>2, ObserveWork
<1>3. CASE CancelBeforeAuthority(t) \/ AuthorizationRefused(t) \/ RevocationUnknown(t)
  <2>1. /\ pc = "run" /\ stage[t] = "prepared" /\ UNCHANGED <<delegated, effects>>
        /\ \E a : AnswerWith(t, a)
    BY <1>3 DEF CancelBeforeAuthority, AuthorizationRefused, RevocationUnknown, Beginning,
                FirstOf, InStage
  <2>2. ~AtWork(t)
    BY <2>1 DEF OperationInv, StagesTrue, Begun, StageTrue
  <2>3. ~AtWork(t)'
    BY <2>1, <2>2 DEF AtWork
  <2> QED
    BY <2>1, <2>3, AnswerWork
<1>4. CASE RejectStart(t)
  <2>1. /\ pc = "run" /\ UNCHANGED <<delegated, effects>> /\ ~Attempting(t)
        /\ \E a : AnswerWith(t, a)
    BY <1>4 DEF RejectStart, Awaiting
  <2>2. ~AtWork(t)'
    BY <1>0, <2>1, AtWorkCovered DEF AtWork, Attempting
  <2> QED
    BY <2>1, <2>2, AnswerWork
<1>5. CASE AnswerSettled(t)
  <2>1. /\ pc = "run" /\ UNCHANGED delegated
        /\ effects' = effects \ {<<t, task[t].attempt>>}
        /\ \E a : AnswerWith(t, a)
    BY <1>5 DEF AnswerSettled, Awaiting
  <2>2. ~AtWork(t)'
    <3>1. ASSUME NEW n \in Nat, <<t, n>> \in effects' PROVE FALSE
      <4>1. <<t, n>> \in effects /\ <<t, n>> # <<t, task[t].attempt>>
        BY <2>1, <3>1
      <4>2. <<t, n>>[1] = t /\ <<t, n>>[2] = n
        OBVIOUS
      <4> QED
        BY <4>1, <4>2, CoveredTask
    <3> QED
      BY <3>1 DEF AtWork
  <2> QED
    BY <2>1, <2>2, AnswerWork
<1>6. CASE AnswerUnknown(t)
  <2>1. /\ pc = "run" /\ stage[t] \in {"delegated", "seen", "unseen"}
        /\ UNCHANGED <<delegated, effects>>
    BY <1>6 DEF AnswerUnknown, Awaiting
  <2>2. /\ NoAnswer.status = "invalid"
        /\ \A docker \in BOOLEAN :
             [Result("blocked", "unknown") EXCEPT !.docker = docker].effect = "unknown"
    BY DEF NoAnswer, Result
  <2>3. PICK a : AnswerWith(t, a) /\ (a.status = "invalid" \/ a.effect = "unknown")
    BY <1>6, <2>2 DEF AnswerUnknown
  <2> QED
    BY <2>1, <2>3, AnswerWork
<1> QED
  BY <1>1, <1>2, <1>3, <1>4, <1>5, <1>6 DEF AttemptStep

\* A task with something at work is settled into a recovery: its answer either
\* contradicts the start that was seen or leaves unknown what was delegated.
LEMMA SettledUnknown ==
  ASSUME OperationInv, NEW t \in wave, AllAnswered, AtWork(t)
  PROVE  /\ Seen(t) => ContradictsStart(t)
         /\ ~Seen(t) => DelegatedUnknown(t) /\ t \in delegated
         /\ RecoveryNeeded(t) /\ SettledOutcome(t) = "recovery_required"
         /\ ~CleanupConfirmed(t)
         /\ \/ RecoveryUnresolved(t)
            \/ "docker" \in ObligationsNeeded(t)
<1>1. /\ pc = "run" /\ stage[t] \in {"answered", "answered_seen"} /\ StageTrue(t)
  BY DEF AllAnswered, OperationInv, StagesTrue, Begun
<1>2. Seen(t) => ContradictsStart(t)
  BY <1>1 DEF StageTrue, Seen
<1>3. ~Seen(t) => DelegatedUnknown(t) /\ t \in delegated
  BY <1>1 DEF StageTrue, Seen, DelegatedUnknown
<1>4. RecoveryNeeded(t)
  BY <1>2, <1>3 DEF RecoveryNeeded
<1>5. SettledOutcome(t) = "recovery_required"
  BY <1>4 DEF SettledOutcome
<1>6. ~CleanupConfirmed(t)
  BY <1>2, <1>3 DEF CleanupConfirmed
<1>7. CASE answer[t].docker
  BY <1>2, <1>3, <1>4, <1>5, <1>6, <1>7, Callers DEF ObligationsNeeded
<1>8. CASE ~answer[t].docker
  BY <1>2, <1>3, <1>4, <1>5, <1>6, <1>8 DEF RecoveryUnresolved
<1> QED
  BY <1>7, <1>8

LEMMA RecoveryCovers ==
  ASSUME NEW r \in TaskRecord, NEW kinds \in SUBSET RecoveryKind, NEW unresolved \in BOOLEAN,
         unresolved \/ "docker" \in kinds
  PROVE  Covers(SettledTask(r, "recovery_required", FALSE, kinds, unresolved), r.attempt)
<1> DEFINE q == SettledTask(r, "recovery_required", FALSE, kinds, unresolved)
<1>1. /\ q.state = "recovery_required" /\ q.cleanup = FALSE /\ q.unresolved = unresolved
      /\ q.obligation = Required(kinds) /\ q.attempt = r.attempt
  BY DEF SettledTask, TaskRecord
<1>2. Required(kinds)["docker"] = IF "docker" \in kinds THEN "required" ELSE "none"
  BY Callers DEF Required
<1> HIDE DEF q
<1>3. Covers(q, r.attempt)
  BY <1>1, <1>2 DEF Covers
<1> QED
  BY <1>3 DEF q

\* What SettleEffect says of the task settled, and that it changes no other one
\* but those it wakes.
LEMMA SettledTaskOf ==
  ASSUME TypeOK, NEW c \in Caller, NEW t \in Task, NEW a \in 1..MaxAttempts,
         NEW outcome \in Outcomes, NEW cleanup \in BOOLEAN, NEW unresolved \in BOOLEAN,
         NEW kinds \in SUBSET RecoveryKind,
         SettleProjectTask(c, t, a, outcome, cleanup, kinds, unresolved)
  PROVE  /\ task'[t] = SettledTask(task[t], SettledState(outcome, cleanup), cleanup,
                                   kinds, unresolved)
         /\ \A u \in Task \ {t} :
              task'[u] = task[u] \/ task[u].state = "waiting_dependency"
<1>1. LET s == SettledState(outcome, cleanup)
          r == SettledTask(task[t], s, cleanup, kinds, unresolved) IN
      /\ s \in SettledStates \ {"superseded"}
      /\ r.state = s /\ task'[t] = r
      /\ \A u \in Task \ {t} :
           \/ task'[u] = task[u]
           \/ /\ task[u].state = "waiting_dependency"
              /\ task'[u] = [task[u] EXCEPT !.state = "ready"]
              /\ task'[u].state = "ready"
              /\ \A d \in Dependencies[u] : task'[d].state = "completed"
  BY SettleEffect
<1> QED
  BY <1>1

LEMMA SettleWork ==
  ASSUME OperationInv, NEW t \in wave, SettleNext(t)
  PROVE  Work'
<1>0. /\ t \in Task /\ task \in [Task -> TaskRecord] /\ task[t] \in TaskRecord
      /\ answer \in [Task -> Answer] /\ ProjectInv /\ TypeOK
  BY DEF OperationInv, OperationTypeOK, TypeOK
<1>1. /\ AllAnswered /\ wave' = wave \ {t}
      /\ UNCHANGED <<stage, answer, delegated, effects>>
  BY DEF SettleNext
<1>2. StagesTrue'
  <2>1. ASSUME NEW u \in wave \ {t} PROVE StageTrue(u)'
    <3>1. StageTrue(u) /\ stage[u] \in {"answered", "answered_seen"}
      BY <1>1 DEF AllAnswered, OperationInv, StagesTrue, Begun
    <3> QED
      BY <1>1, <3>1 DEF StageTrue, EffectUnknown, ContradictsStart, Seen, Valid, AtWork
  <2> QED
    BY <1>1, <2>1 DEF StagesTrue
<1> DEFINE n == task[t].attempt
           outcome == SettledOutcome(t)
           kinds == ObligationsNeeded(t)
           unresolved == RecoveryUnresolved(t)
           cleanup == CleanupConfirmed(t)
<1>3. /\ outcome \in Outcomes /\ cleanup \in BOOLEAN
      /\ kinds \in SUBSET RecoveryKind /\ unresolved \in BOOLEAN
  BY <1>0, OutcomeType
<1>4. \/ SettleProjectTask("operation", t, n, outcome, cleanup, kinds, unresolved)
      \/ /\ ~Seen(t)
         /\ \/ /\ outcome = "completed"
               /\ SettleProjectTaskBeforeEffect("operation", t, n, "recovery_required",
                                                FALSE, {}, TRUE)
            \/ SettleProjectTaskBeforeEffect("operation", t, n, outcome, cleanup, kinds,
                                             unresolved)
  BY DEF SettleNext
<1>5. task[t].state \in {"starting", "running"}
  BY <1>4 DEF SettleProjectTask, SettleProjectTaskBeforeEffect
<1>6. n \in 1..MaxAttempts
  BY <1>0, <1>5, OnItsWayAttempt
<1>7. AtWork(t) => /\ outcome = "recovery_required" /\ cleanup = FALSE
                   /\ unresolved \/ "docker" \in kinds
  BY <1>1, <1>3, SettledUnknown
<1> HIDE DEF outcome, kinds, unresolved, cleanup
\* The task settled is covered, and no other one that is changes.
<1>8. /\ \A u \in Task \ {t} : task[u].state # "waiting_dependency" => task'[u] = task[u]
      /\ AtWork(t) =>
           task'[t] = SettledTask(task[t], "recovery_required", FALSE, kinds, unresolved)
  <2>1. CASE SettleProjectTask("operation", t, n, outcome, cleanup, kinds, unresolved)
    <3> HIDE DEF n
    <3>1. /\ task'[t] = SettledTask(task[t], SettledState(outcome, cleanup), cleanup,
                                    kinds, unresolved)
          /\ \A u \in Task \ {t} :
               task'[u] = task[u] \/ task[u].state = "waiting_dependency"
      BY <1>0, <1>3, <1>6, <2>1, Callers, SettledTaskOf
    <3>2. AtWork(t) => SettledState(outcome, cleanup) = "recovery_required"
      BY <1>7 DEF SettledState
    <3> QED
      BY <1>7, <3>1, <3>2
  <2>2. CASE SettleProjectTaskBeforeEffect("operation", t, n, outcome, cleanup, kinds,
                                           unresolved)
    <3>1. ReplaceTask(t, SettledTask(task[t], outcome, cleanup, kinds, unresolved))
      BY <2>2 DEF SettleProjectTaskBeforeEffect
    <3>2. /\ task'[t] = SettledTask(task[t], outcome, cleanup, kinds, unresolved)
          /\ \A u \in Task \ {t} : task'[u] = task[u]
      BY <1>0, <3>1 DEF ReplaceTask
    <3> QED
      BY <1>7, <3>2
  <2>3. CASE /\ outcome = "completed"
             /\ SettleProjectTaskBeforeEffect("operation", t, n, "recovery_required",
                                              FALSE, {}, TRUE)
    <3>1. ReplaceTask(t, SettledTask(task[t], "recovery_required", FALSE, {}, TRUE))
      BY <2>3 DEF SettleProjectTaskBeforeEffect
    <3>2. \A u \in Task \ {t} : task'[u] = task[u]
      BY <1>0, <3>1 DEF ReplaceTask
    <3> QED
      BY <1>7, <2>3, <3>2
  <2> QED
    BY <1>4, <2>1, <2>2, <2>3
<1>9. ASSUME NEW e \in effects PROVE Covers(task'[e[1]], e[2])
  <2>1. /\ e[1] \in Task /\ e[2] \in Nat /\ e = <<e[1], task[e[1]].attempt>>
        /\ Covers(task[e[1]], e[2])
        /\ task[e[1]].state \in {"starting", "running", "recovery_required"}
    BY CoveredTask
  <2>2. CASE e[1] # t
    BY <1>8, <2>1, <2>2
  <2>3. CASE e[1] = t
    <3>1. e[2] = n /\ AtWork(t)
      BY <2>1, <2>3 DEF AtWork, Covers
    <3> QED
      BY <1>0, <1>3, <1>7, <1>8, <2>3, <3>1, RecoveryCovers
  <2> QED
    BY <2>2, <2>3
<1> QED
  BY <1>1, <1>2, <1>9 DEF Work, EffectsCovered

LEMMA SelectWork ==
  ASSUME OperationInv, SelectWave
  PROVE  Work'
<1>1. /\ wave' \subseteq Task /\ stage' = [t \in Task |-> "none"] /\ UNCHANGED <<task, effects>>
  BY DEF SelectWave, SelectSchedulableProjectTasks, EligibleTasks, stateVars, projectVars
<1>2. ASSUME NEW t \in wave' PROVE StageTrue(t)'
  <2>1. stage'[t] = "none"
    BY <1>1
  <2> QED
    BY <2>1 DEF StageTrue
<1> QED
  BY <1>1, <1>2, QuietEffects DEF Work, StagesTrue, OperationInv

LEMMA ExecutorWork ==
  ASSUME OperationInv, ExecutorStep
  PROVE  Work'
<1>0. Work
  BY DEF OperationInv, Work
<1>1. ASSUME NEW t \in wave, ReserveNext(t) \/ PrepareNext(t) \/ AttemptStep(t) \/ SettleNext(t)
      PROVE  Work'
  BY <1>1, ReserveWork, PrepareWork, AttemptWork, SettleWork
<1>2. CASE SelectWave
  BY <1>2, SelectWork
<1>3. CASE \/ YieldPriority \/ Claim \/ CancelBeforeRunning \/ StartRunning
           \/ FinishTasks \/ EndInVerdict \/ WriteRefused
           \/ FinalizeOwnedFailure \/ Release \/ ClearOwner
  <2>1. UNCHANGED <<task, effects>>
    BY <1>3 DEF YieldPriority, Claim, CancelBeforeRunning, StartRunning, FinishTasks,
                EndInVerdict, WriteRefused, FinalizeOwnedFailure, Release, ClearOwner,
                stateVars, projectVars
  <2>2. pc' \notin Begun
    BY <1>3 DEF YieldPriority, Claim, CancelBeforeRunning, StartRunning, FinishTasks,
                EndInVerdict, WriteRefused, FinalizeOwnedFailure, Release, ClearOwner,
                EndRun, Begun
  <2> QED
    BY <1>0, <2>1, <2>2, QuietWork
<1> QED
  BY <1>1, <1>2, <1>3 DEF ExecutorStep

\* A replanner changes failed tasks and adds new ones, while nothing runs.
LEMMA ReplanWork ==
  ASSUME OperationInv, ReplanState
  PROVE  Work'
<1>1. /\ queue.state = "replan_required" /\ UNCHANGED <<effects, runVars>>
      /\ task \in [Task -> TaskRecord]
  BY DEF ReplanState, OperationInv, OperationTypeOK, TypeOK
<1>2. pc' \notin Begun
  BY <1>1 DEF OperationInv, EntryOfRun, Begun, runVars
<1>3. \A u \in Task : task[u].state \notin {"failed", "absent"} => task'[u] = task[u]
  <2>1. CASE \E o \in Objective : RequestProjectRuntimeHumanDecision("decision", o)
    BY <2>1 DEF RequestProjectRuntimeHumanDecision
  <2>2. ASSUME NEW t \in Task, RetryProjectRuntimeTask("decision", t)
        PROVE  \A u \in Task : task[u].state # "failed" => task'[u] = task[u]
    BY <1>1, <2>2 DEF RetryProjectRuntimeTask, ReplaceTask
  <2>3. ASSUME NEW t \in Task, NEW new \in Replacements,
               ApplyProjectRuntimePartialReplan("decision", t, new)
        PROVE  \A u \in Task : task[u].state \notin {"failed", "absent"} => task'[u] = task[u]
    BY <2>3 DEF ApplyProjectRuntimePartialReplan
  <2> QED
    BY <2>1, <2>2, <2>3 DEF ReplanState
<1>4. ASSUME NEW e \in effects PROVE Covers(task'[e[1]], e[2])
  BY <1>3, CoveredTask
<1> QED
  BY <1>1, <1>2, <1>4 DEF Work, StagesTrue, EffectsCovered

LEMMA WorkStep ==
  ASSUME OperationInv, [OperationNext]_operationVars
  PROVE  Work'
<1>0. Work
  BY DEF OperationInv, Work
<1>1. CASE UNCHANGED operationVars
  BY <1>0, <1>1, QuietWork DEF operationVars, runVars, stateVars, projectVars
<1>2. CASE \/ ReplanQueue \/ ReplanCrash \/ Restart \/ Accept \/ ReadState("decision")
  <2>1. UNCHANGED <<task, effects, runVars>>
    BY <1>2 DEF ReplanQueue, ReplanCrash, Restart, Accept, ReadState, ObserveState,
                ApplyObjectiveAcceptance, ApplyMilestoneAcceptance, stateVars, projectVars
  <2> QED
    BY <1>0, <2>1, QuietWork DEF runVars
<1>3. CASE Abort
  BY <1>0, <1>3, QuietWork DEF Abort, stateVars, projectVars
<1>4. CASE Crash
  BY <1>0, <1>4, QuietWork DEF Crash, EndRun, Begun, stateVars, projectVars
<1> QED
  BY <1>1, <1>2, <1>3, <1>4, ApplicationWork, ExecutorWork, ReplanWork
  DEF OperationNext, ReplannerStep

-----------------------------------------------------------------------------
(* The theorems.                                                           *)

LEMMA OperationStarts == ASSUME OperationInit PROVE OperationInv
<1>1. Init
  BY DEF OperationInit
<1>2. StateInv /\ TypeOK
  BY <1>1, InitStateInv DEF StateInv
<1>3. ConflictsExcluded
  BY <1>1 DEF Init, ConflictsExcluded, ReservingTasks, ReservesConflict,
              ActiveForCapacity, NewTask
<1>4. CapacityRespected
  <2>1. ActiveTasks = {}
    BY <1>1 DEF Init, ActiveTasks, ActiveForCapacity, NewTask
  <2>2. Cardinality(ActiveTasks) = 0
    BY <2>1, FS_EmptySet
  <2> QED
    BY <2>2, BoundAssumption DEF CapacityRespected
<1>5. AttemptsCounted
  BY <1>1, CountedNew DEF Init, AttemptsCounted
<1>6. OperationTypeOK
  <2>1. queue \in QueueEntry
    BY DEF OperationInit, QueueEntry, QueueState, ResumeCondition
  <2>2. answer \in [Task -> Answer] /\ stage \in [Task -> Stage]
    BY NoAnswerType DEF OperationInit, Stage
  <2>3. faults \in 0..MaxFaults
    BY Bounds DEF OperationInit
  <2> QED
    BY <1>2, <2>1, <2>2, <2>3 DEF OperationInit, OperationTypeOK, PC
<1>7. EntryOfRun /\ Work
  BY DEF OperationInit, EntryOfRun, Work, StagesTrue, Begun, EffectsCovered
<1> QED
  BY <1>2, <1>3, <1>4, <1>5, <1>6, <1>7 DEF OperationInv, ProjectInv, Work

LEMMA OperationStep ==
  ASSUME OperationInv, [OperationNext]_operationVars
  PROVE  OperationInv'
<1>1. ProjectInv' /\ TypeOK'
  BY StepIsState, ProjectStep DEF OperationInv
<1> QED
  BY <1>1, TypeStep, EntryStep, WorkStep DEF OperationInv, Work

\* The invariant that the theorems below stand on: the project state is as its
\* own transitions leave it, the queue entry is in the state that the executor
\* has put it in, and the record of a task covers whatever it has at work.
THEOREM OperationHolds == OperationSpec => []OperationInv
<1>1. OperationInv /\ [OperationNext]_operationVars => OperationInv'
  BY OperationStep
<1> QED
  BY <1>1, OperationStarts, PTL DEF OperationSpec

\* The records of queue entry, run and attempts keep their shape.
THEOREM OperationTypeCorrect == OperationSpec => []OperationTypeOK
<1>1. OperationInv => OperationTypeOK
  BY DEF OperationInv
<1> QED
  BY <1>1, OperationHolds, PTL

\* The operation implements the project state: executor, objective application,
\* replanner and decisions change it by its exported transitions, whatever
\* crashes and refused writes come between, so that all that is proved of
\* StateSpec holds of the operation.
THEOREM ImplementsState == OperationSpec => KeepsStateTransitions
<1>1. OperationInit => Init
  BY DEF OperationInit
<1>2. OperationInv /\ [OperationNext]_operationVars => [StateNext]_stateVars
  BY StepIsState
<1> QED
  BY <1>1, <1>2, OperationHolds, PTL DEF OperationSpec, KeepsStateTransitions, StateSpec

\* What is proved of the project state holds through crashes, recoveries and
\* replans of the operation: the store accepts every state written, a completed
\* task is never touched again and a recovery never skipped, tasks are started
\* as a scheduler may, and acceptance goes stage by stage.
THEOREM OperationInherits ==
  OperationSpec => /\ []StoreAccepts
                   /\ CompletedForGood /\ RecoveryNotSkipped
                   /\ SchedulesTasks /\ AcceptsInStages
<1>1. OperationSpec => StateSpec
  BY ImplementsState DEF KeepsStateTransitions
<1> QED
  BY <1>1, AlwaysAccepted, CompletedStays, RecoveryAlwaysDischarged, ImplementsSchedule,
     ImplementsAcceptance

\* The limit holds through crashes, recoveries and replans of an operation.
THEOREM OperationCapacity == OperationSpec => []CapacityRespected
<1>1. OperationInv => CapacityRespected
  BY DEF OperationInv, ProjectInv
<1> QED
  BY <1>1, OperationHolds, PTL

\* Whatever may be at work outside is on record: its task carries the attempt,
\* is on its way or in recovery, and its container has not been settled
\* (INV-DURABLE-BEFORE-TASK-EFFECT, INV-UNKNOWN-PRESERVES-RECOVERY).
THEOREM EffectsOnRecord == OperationSpec => []EffectsAreRecorded
<1>1. OperationInv => EffectsAreRecorded
  <2> SUFFICES ASSUME OperationInv, NEW e \in effects
               PROVE  /\ task[e[1]].attempt = e[2]
                      /\ task[e[1]].state \in {"starting", "running", "recovery_required"}
                      /\ task[e[1]].obligation["docker"] \notin {"settled", "acknowledged"}
    BY DEF EffectsAreRecorded
  <2> QED
    BY CoveredTask DEF Covers
<1> QED
  BY <1>1, OperationHolds, PTL

LEMMA EffectsApart == ASSUME OperationInv PROVE EffectsExcluded
<1>1. ASSUME NEW e \in effects PROVE e[1] \in ActiveTasks
  <2>1. e[1] \in Task /\ Covers(task[e[1]], e[2])
    BY CoveredTask
  <2>2. ActiveForCapacity(task[e[1]])
    BY <2>1 DEF Covers, ActiveForCapacity
  <2> QED
    BY <2>1, <2>2 DEF ActiveTasks
<1>2. ASSUME NEW e \in effects, NEW f \in effects, e # f
      PROVE  e[1] # f[1] /\ ~Conflicts(e[1], f[1])
  <2>1. e[1] # f[1]
    <3>1. e = <<e[1], task[e[1]].attempt>>
      BY CoveredTask
    <3>2. f = <<f[1], task[f[1]].attempt>>
      BY CoveredTask
    <3> QED
      BY <1>2, <3>1, <3>2
  <2>2. e[1] \in ReservingTasks /\ f[1] \in ReservingTasks
    BY <1>1 DEF ActiveTasks, ReservingTasks, ReservesConflict
  <2>3. ConflictsExcluded
    BY DEF OperationInv, ProjectInv
  <2> QED
    BY <2>1, <2>2, <2>3 DEF ConflictsExcluded
<1>3. Cardinality(effects) <= MaxConcurrency
  <2>1. IsFiniteSet(ActiveTasks) /\ Cardinality(ActiveTasks) <= MaxConcurrency
    BY FS_Subset, StructureAssumption DEF ActiveTasks, OperationInv, ProjectInv, CapacityRespected
  <2> DEFINE at == [e \in effects |-> e[1]]
  <2>2. at \in [effects -> ActiveTasks]
    BY <1>1
  <2>3. IsInjective(at)
    BY <1>2 DEF IsInjective
  <2>4. at \in Injection(effects, ActiveTasks)
    BY <2>2, <2>3 DEF Injection
  <2>5. IsFiniteSet(effects) /\ Cardinality(effects) <= Cardinality(ActiveTasks)
    BY <2>1, <2>4, FS_Injection
  <2>6. Cardinality(effects) \in Nat /\ Cardinality(ActiveTasks) \in Nat
    BY <2>1, <2>5, FS_CardinalityType
  <2> QED
    BY <2>1, <2>5, <2>6, Bounds
<1> QED
  BY <1>2, <1>3 DEF EffectsExcluded

\* Attempts at work together, those of a lost owner included, are of different
\* tasks that share no file, and are no more than maximumConcurrency: what the
\* selection keeps apart stays apart through crashes and recoveries.
THEOREM EffectsNeverMeet == OperationSpec => []EffectsExcluded
<1>1. OperationInv => EffectsExcluded
  BY EffectsApart
<1> QED
  BY <1>1, OperationHolds, PTL

=============================================================================

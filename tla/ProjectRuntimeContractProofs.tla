--------------------- MODULE ProjectRuntimeContractProofs ---------------------
(***************************************************************************)
(* What the transitions of the project state promise the store, the        *)
(* executor and the people who decide: its records are always accepted, a  *)
(* selection can be reserved task by task, and it implements the schedule  *)
(* and the staged acceptance, for every plan and every limit.              *)
(***************************************************************************)
EXTENDS ProjectRuntimeContract, ProjectRuntimeStateProofs, WellFoundedInduction

-----------------------------------------------------------------------------
(* The invariants.                                                         *)

\* The tasks that exist are those of the plan, each at one place of it.
PlanKept ==
  /\ \A t \in Task : t \in Listed(plan) <=> task[t].state # "absent"
  /\ \A i, j \in DOMAIN plan : plan[i] = plan[j] => i = j

RecordValid(r) == ValidTaskLifecycleTuple(r) /\ ValidObligations(r)

RecordsValid == \A t \in Task : task[t].state # "absent" => RecordValid(task[t])

\* A task leaves the wait for its dependencies when they are completed.
StartedAfterDependencies ==
  \A t \in Task : task[t].state \notin {"waiting_dependency", "absent"} =>
    \A d \in Dependencies[t] : task[d].state = "completed"

Finished == {"completed", "superseded", "absent"}

\* What is to be accepted, or has been, has nothing left to do.
AcceptedWhenFinished ==
  /\ \A t \in Task :
       objective[ObjectiveOf[t]] \in {"integration_pending", "accepted"} =>
         task[t].state \in Finished
  /\ milestone \in {"accepted", "returned"} =>
       \A o \in Objective : objective[o] = "accepted"

-----------------------------------------------------------------------------
(* The records that the transitions write are valid.                       *)

LEMMA ReservedRecord ==
  ASSUME NEW r \in TaskRecord
  PROVE  RecordValid(ReservedTask(r))
<1>1. r.attempts \in Nat /\ r.attempts + 1 # 0
  BY DEF TaskRecord
<1>2. /\ ReservedTask(r).state = "starting" /\ ReservedTask(r).phase = "reserved"
      /\ ReservedTask(r).attempt = r.attempts + 1 /\ ReservedTask(r).operation = 0
      /\ ReservedTask(r).obligation = NoObligations /\ ReservedTask(r).unresolved = FALSE
  BY DEF ReservedTask, TaskRecord
<1> QED
  BY <1>1, <1>2 DEF RecordValid, ValidTaskLifecycleTuple, ValidObligations, ObligationsOf,
                    NoObligations

LEMMA HandoffRecord ==
  ASSUME NEW r \in TaskRecord, RecordValid(r), NEW a \in 1..MaxAttempts,
         r.state = "starting", r.phase = "reserved", r.attempt = a
  PROVE  RecordValid([r EXCEPT !.operation = a, !.phase = "handoff_prepared"])
<1> DEFINE q == [r EXCEPT !.operation = a, !.phase = "handoff_prepared"]
<1>1. /\ q.state = "starting" /\ q.phase = "handoff_prepared" /\ q.attempt = a
      /\ q.operation = a /\ q.obligation = r.obligation /\ q.unresolved = r.unresolved
  BY DEF TaskRecord
<1>2. a # 0
  BY BoundAssumption
<1> HIDE DEF q
<1>3. RecordValid(q)
  BY <1>1, <1>2 DEF RecordValid, ValidTaskLifecycleTuple, ValidObligations, ObligationsOf
<1> QED
  BY <1>3 DEF q

LEMMA StartedRecord ==
  ASSUME NEW r \in TaskRecord, RecordValid(r),
         r.state = "starting", r.phase = "handoff_prepared"
  PROVE  RecordValid([r EXCEPT !.state = "running", !.phase = "running"])
<1> DEFINE q == [r EXCEPT !.state = "running", !.phase = "running"]
<1>1. /\ q.state = "running" /\ q.phase = "running" /\ q.attempt = r.attempt
      /\ q.operation = r.operation /\ q.obligation = r.obligation
      /\ q.unresolved = r.unresolved
  BY DEF TaskRecord
<1>2. r.attempt # 0 /\ r.operation # 0 /\ ObligationsOf(r) = {} /\ ~r.unresolved
  BY DEF RecordValid, ValidTaskLifecycleTuple, ValidObligations, NotStarted, SettledStates
<1> HIDE DEF q
<1>3. RecordValid(q)
  BY <1>1, <1>2 DEF RecordValid, ValidTaskLifecycleTuple, ValidObligations, ObligationsOf
<1> QED
  BY <1>3 DEF q

\* The fields of a settled record.
LEMMA SettledFields ==
  ASSUME NEW r \in TaskRecord, NEW s, NEW cleanup \in BOOLEAN, NEW kinds,
         NEW unresolved \in BOOLEAN
  PROVE  LET q == SettledTask(r, s, cleanup, kinds, unresolved) IN
         /\ q.state = s /\ q.phase = "settled" /\ q.cleanup = cleanup
         /\ q.obligation = Required(kinds) /\ q.unresolved = unresolved
         /\ q.attempt = r.attempt /\ q.operation = r.operation
<1> DEFINE q == SettledTask(r, s, cleanup, kinds, unresolved)
<1>1. q.state = s /\ q.phase = "settled" /\ q.attempt = r.attempt /\ q.operation = r.operation
  BY DEF SettledTask, TaskRecord
<1>2. q.obligation = Required(kinds)
  BY DEF SettledTask, TaskRecord
<1>3. q.cleanup = cleanup
  BY DEF SettledTask, TaskRecord
<1>4. q.unresolved = unresolved
  BY DEF SettledTask, TaskRecord
<1> QED
  BY <1>1, <1>2, <1>3, <1>4

LEMMA SettledObligations ==
  ASSUME NEW r \in TaskRecord, NEW s, NEW cleanup \in BOOLEAN,
         NEW kinds \in SUBSET RecoveryKind, NEW unresolved \in BOOLEAN
  PROVE  ObligationsOf(SettledTask(r, s, cleanup, kinds, unresolved)) = kinds
<1> DEFINE q == SettledTask(r, s, cleanup, kinds, unresolved)
<1>1. q.obligation = Required(kinds)
  BY SettledFields
<1> HIDE DEF q
<1>2. ObligationsOf(q) = kinds
  BY <1>1 DEF ObligationsOf, Required
<1> QED
  BY <1>2 DEF q

LEMMA SettledRecord ==
  ASSUME NEW r \in TaskRecord, r.attempt # 0, r.operation # 0,
         NEW s \in SettledStates, NEW cleanup \in BOOLEAN,
         NEW kinds \in SUBSET RecoveryKind, NEW unresolved \in BOOLEAN,
         s = "recovery_required" <=> kinds # {} \/ unresolved
  PROVE  RecordValid(SettledTask(r, s, cleanup, kinds, unresolved))
<1> DEFINE q == SettledTask(r, s, cleanup, kinds, unresolved)
<1>1. /\ q.state = s /\ q.phase = "settled" /\ q.unresolved = unresolved
      /\ q.attempt = r.attempt /\ q.operation = r.operation
  BY SettledFields
<1>2. ObligationsOf(q) = kinds
  BY SettledObligations
<1> HIDE DEF q
<1>3. RecordValid(q)
  BY <1>1, <1>2 DEF RecordValid, ValidTaskLifecycleTuple, ValidObligations, SettledStates
<1> QED
  BY <1>3 DEF q

LEMMA NewRecord ==
  ASSUME NEW s \in {"ready", "waiting_dependency"}
  PROVE  RecordValid(NewTask(s))
BY DEF NewTask, RecordValid, ValidTaskLifecycleTuple, ValidObligations, ObligationsOf,
       NoObligations, NotStarted, Discharged

LEMMA WokenRecord ==
  ASSUME NEW r \in TaskRecord, RecordValid(r), r.state = "waiting_dependency"
  PROVE  RecordValid([r EXCEPT !.state = "ready"])
<1> DEFINE q == [r EXCEPT !.state = "ready"]
<1>1. /\ q.state = "ready" /\ q.phase = r.phase /\ q.attempt = r.attempt
      /\ q.operation = r.operation /\ q.obligation = r.obligation
      /\ q.unresolved = r.unresolved
  BY DEF TaskRecord
<1>2. /\ r.phase = "none" /\ r.attempt = 0 /\ r.operation = 0
      /\ ObligationsOf(r) = {} /\ ~r.unresolved
  BY DEF RecordValid, ValidTaskLifecycleTuple, ValidObligations, NotStarted, SettledStates
<1> HIDE DEF q
<1>3. RecordValid(q)
  BY <1>1, <1>2 DEF RecordValid, ValidTaskLifecycleTuple, ValidObligations, ObligationsOf,
                    NotStarted, Discharged
<1> QED
  BY <1>3 DEF q

LEMMA MovedRecord ==
  ASSUME NEW r \in TaskRecord, RecordValid(r), r.state = "recovery_required",
         NEW k \in RecoveryKind, r.obligation[k] # "none",
         NEW to \in ObligationPhase
  PROVE  LET q == [r EXCEPT !.obligation[k] = to] IN
         /\ RecordValid(q) /\ q.state = r.state /\ q.cleanup = r.cleanup
         /\ ObligationsOf(q) # {} /\ ObligationsOf(r) # {}
<1> DEFINE q == [r EXCEPT !.obligation[k] = to]
<1>1. /\ q.state = r.state /\ q.phase = r.phase /\ q.attempt = r.attempt
      /\ q.operation = r.operation /\ q.unresolved = r.unresolved /\ q.cleanup = r.cleanup
      /\ q.obligation[k] = to
  BY DEF TaskRecord
<1>2. to # "none"
  BY DEF ObligationPhase
<1> HIDE DEF q
<1>3. k \in ObligationsOf(q) /\ k \in ObligationsOf(r)
  BY <1>1, <1>2 DEF ObligationsOf
<1>4. RecordValid(q)
  BY <1>1, <1>3 DEF RecordValid, ValidTaskLifecycleTuple, ValidObligations
<1> QED
  BY <1>1, <1>3, <1>4 DEF q

\* A record that starts over, with the obligations and the doubt it is left with.
StartsOver(q, obligation, unresolved) ==
  /\ q.state = "ready" /\ q.phase = "none" /\ q.attempt = 0 /\ q.operation = 0
  /\ q.obligation = obligation /\ q.unresolved = unresolved

LEMMA StartOverFields ==
  ASSUME NEW r \in TaskRecord, NEW cleanup \in BOOLEAN
  PROVE  /\ StartsOver([ReadyAgain(r, cleanup) EXCEPT !.retries = @ + 1],
                       r.obligation, r.unresolved)
         /\ StartsOver([ReadyAgain(r, cleanup) EXCEPT !.obligation = NoObligations,
                                                      !.unresolved = FALSE],
                       NoObligations, FALSE)
         /\ StartsOver([ReadyAgain(r, cleanup) EXCEPT !.obligation = NoObligations,
                                                      !.unresolved = FALSE,
                                                      !.retries = @ + 1],
                       NoObligations, FALSE)
<1> DEFINE q == ReadyAgain(r, cleanup)
<1>1. q \in TaskRecord
  BY ReadyAgainType
<1>2. StartsOver(q, r.obligation, r.unresolved)
  BY DEF StartsOver, ReadyAgain, TaskRecord
<1> HIDE DEF q
<1>3. StartsOver([q EXCEPT !.retries = @ + 1], r.obligation, r.unresolved)
  BY <1>1, <1>2 DEF StartsOver, TaskRecord
<1>4. StartsOver([q EXCEPT !.obligation = NoObligations, !.unresolved = FALSE],
                 NoObligations, FALSE)
  BY <1>1, <1>2 DEF StartsOver, TaskRecord
<1>5. StartsOver([q EXCEPT !.obligation = NoObligations, !.unresolved = FALSE,
                           !.retries = @ + 1], NoObligations, FALSE)
  BY <1>1, <1>2 DEF StartsOver, TaskRecord
<1> QED
  BY <1>3, <1>4, <1>5 DEF q

LEMMA NothingToDischarge ==
  ASSUME NEW q, q.obligation = NoObligations
  PROVE  ObligationsOf(q) = {} /\ Discharged(q)
BY DEF ObligationsOf, Discharged, NoObligations

LEMMA SameObligations ==
  ASSUME NEW r, NEW q, q.obligation = r.obligation, Discharged(r)
  PROVE  Discharged(q)
BY DEF ObligationsOf, Discharged

LEMMA StartOverRecord ==
  ASSUME NEW q, NEW obligation, StartsOver(q, obligation, FALSE), Discharged(q)
  PROVE  RecordValid(q)
BY DEF StartsOver, RecordValid, ValidTaskLifecycleTuple, ValidObligations, NotStarted

-----------------------------------------------------------------------------
(* How a step moves a task, and that its record stays valid.               *)

Moved(u) ==
  LET r == task[u] q == task'[u] IN
  \/ q = r
  \/ r.state = "ready" /\ q.state = "starting"
  \/ /\ r.state \in {"starting", "running"}
     /\ q.state \in {"starting", "running", "ready"} \cup (SettledStates \ {"superseded"})
  \/ /\ r.state = "waiting_dependency" /\ q.state = "ready"
     /\ \A d \in Dependencies[u] : task'[d].state = "completed"
  \/ r.state = "recovery_required" /\ q.state \in {"recovery_required", "ready"}
  \/ r.state = "failed" /\ q.state \in {"ready", "superseded"}

\* Only a replan brings in a task.
Joined(u) ==
  /\ task[u].state = "absent"
  /\ \/ task'[u].state = "waiting_dependency"
     \/ /\ task'[u].state = "ready"
        /\ \A d \in Dependencies[u] : task'[d].state = "completed"

LEMMA ReplaceTaskMoves ==
  ASSUME TypeOK, RecordsValid, NEW t \in Task, NEW r, ReplaceTask(t, r), RecordValid(r),
         task'[t] = r => Moved(t)
  PROVE  RecordsValid' /\ \A u \in Task : Moved(u)
<1>1. task'[t] = r /\ \A u \in Task \ {t} : task'[u] = task[u]
  BY DEF ReplaceTask, TypeOK
<1>2. RecordsValid'
  BY <1>1 DEF RecordsValid
<1>3. \A u \in Task \ {t} : Moved(u)
  BY <1>1 DEF Moved
<1> QED
  BY <1>1, <1>2, <1>3

LEMMA ReserveMoves ==
  ASSUME TypeOK, RecordsValid, NEW c \in Caller, NEW t \in Task,
         ReserveProjectTaskStart(c, t)
  PROVE  RecordsValid' /\ (\A u \in Task : Moved(u)) /\ UNCHANGED plan
<1>1. task[t] \in TaskRecord /\ task[t].state = "ready"
  BY ReserveEligible DEF EligibleTasks, TypeOK
<1>2. ReservedTask(task[t]).state = "starting"
  BY <1>1 DEF ReservedTask, TaskRecord
<1>3. ReplaceTask(t, ReservedTask(task[t])) /\ UNCHANGED plan
  BY DEF ReserveProjectTaskStart
<1> QED
  BY <1>1, <1>2, <1>3, ReservedRecord, ReplaceTaskMoves DEF Moved

LEMMA PrepareMoves ==
  ASSUME TypeOK, RecordsValid, NEW c \in Caller, NEW t \in Task, NEW a \in 1..MaxAttempts,
         PrepareProjectTaskHandoff(c, t, a)
  PROVE  RecordsValid' /\ (\A u \in Task : Moved(u)) /\ UNCHANGED plan
<1> DEFINE r == [task[t] EXCEPT !.operation = a, !.phase = "handoff_prepared"]
<1>1. /\ task[t] \in TaskRecord /\ task[t].state = "starting"
      /\ task[t].phase = "reserved" /\ task[t].attempt = a
      /\ ReplaceTask(t, r) /\ UNCHANGED plan
  BY DEF PrepareProjectTaskHandoff, TypeOK
<1>2. RecordValid(task[t])
  BY <1>1 DEF RecordsValid
<1>3. RecordValid(r) /\ r.state = "starting"
  BY <1>1, <1>2, HandoffRecord DEF TaskRecord
<1> HIDE DEF r
<1> QED
  BY <1>1, <1>3, ReplaceTaskMoves DEF Moved

LEMMA ObserveMoves ==
  ASSUME TypeOK, RecordsValid, NEW c \in Caller, NEW t \in Task, NEW a \in 1..MaxAttempts,
         ObserveProjectTaskStarted(c, t, a)
  PROVE  RecordsValid' /\ (\A u \in Task : Moved(u)) /\ UNCHANGED plan
<1> DEFINE r == [task[t] EXCEPT !.state = "running", !.phase = "running"]
<1>1. /\ task[t] \in TaskRecord /\ task[t].state = "starting"
      /\ task[t].phase = "handoff_prepared"
      /\ ReplaceTask(t, r) /\ UNCHANGED plan
  BY DEF ObserveProjectTaskStarted, TypeOK
<1>2. RecordValid(task[t])
  BY <1>1 DEF RecordsValid
<1>3. RecordValid(r) /\ r.state = "running"
  BY <1>1, <1>2, StartedRecord DEF TaskRecord
<1> HIDE DEF r
<1> QED
  BY <1>1, <1>3, ReplaceTaskMoves DEF Moved

\* What an outcome makes of a task that ran.
SettledState(outcome, cleanup) ==
  IF outcome = "failed" /\ ~cleanup THEN "cleanup_pending" ELSE outcome

\* The task settled, and every other is as it was or has been woken.
LEMMA SettleEffect ==
  ASSUME TypeOK, NEW c \in Caller, NEW t \in Task, NEW a \in 1..MaxAttempts,
         NEW outcome \in Outcomes, NEW cleanup \in BOOLEAN, NEW unresolved \in BOOLEAN,
         NEW kinds \in SUBSET RecoveryKind,
         SettleProjectTask(c, t, a, outcome, cleanup, kinds, unresolved)
  PROVE  LET s == SettledState(outcome, cleanup)
             r == SettledTask(task[t], s, cleanup, kinds, unresolved) IN
         /\ s \in SettledStates \ {"superseded"}
         /\ r.state = s /\ task'[t] = r
         /\ \A u \in Task \ {t} :
              \/ task'[u] = task[u]
              \/ /\ task[u].state = "waiting_dependency"
                 /\ task'[u] = [task[u] EXCEPT !.state = "ready"]
                 /\ task'[u].state = "ready"
                 /\ \A d \in Dependencies[u] : task'[d].state = "completed"
<1> DEFINE s == SettledState(outcome, cleanup)
           r == SettledTask(task[t], s, cleanup, kinds, unresolved)
           settled == [task EXCEPT ![t] = r]
<1>0. task \in [Task -> TaskRecord] /\ Dependencies \in [Task -> SUBSET Task]
  BY StructureAssumption DEF TypeOK
<1>1. s \in SettledStates \ {"superseded"}
  BY DEF SettledState, SettledStates, Outcomes
<1>2. r.state = s
  BY <1>0, SettledFields
<1>3. task' = WakeDependents(settled)
  BY DEF SettleProjectTask, SettledState
<1> HIDE DEF r, s
<1>4. settled[t] = r /\ \A u \in Task \ {t} : settled[u] = task[u]
  BY <1>0
<1> HIDE DEF settled
<1>5. r.state # "waiting_dependency"
  BY <1>1, <1>2 DEF SettledStates
<1>6. task'[t] = r
  BY <1>3, <1>4, <1>5 DEF WakeDependents
<1>7. \A d \in Task : settled[d].state = "completed" => task'[d].state = "completed"
  BY <1>3 DEF WakeDependents
<1>8. ASSUME NEW u \in Task \ {t}, task'[u] # task[u]
      PROVE  /\ task[u].state = "waiting_dependency"
             /\ task'[u] = [task[u] EXCEPT !.state = "ready"]
             /\ task'[u].state = "ready"
             /\ \A d \in Dependencies[u] : task'[d].state = "completed"
  <2>1. /\ settled[u].state = "waiting_dependency"
        /\ \A d \in Dependencies[u] : settled[d].state = "completed"
        /\ task'[u] = [settled[u] EXCEPT !.state = "ready"]
    BY <1>3, <1>4, <1>8 DEF WakeDependents
  <2>2. \A d \in Dependencies[u] : d \in Task
    BY <1>0
  <2>3. task'[u].state = "ready"
    BY <1>0, <1>4, <2>1 DEF TaskRecord
  <2> QED
    BY <1>4, <1>7, <2>1, <2>2, <2>3
<1> QED
  BY <1>1, <1>2, <1>6, <1>8 DEF r, s

LEMMA SettleMoves ==
  ASSUME TypeOK, RecordsValid, NEW c \in Caller, NEW t \in Task, NEW a \in 1..MaxAttempts,
         NEW outcome \in Outcomes, NEW cleanup \in BOOLEAN, NEW unresolved \in BOOLEAN,
         NEW kinds \in SUBSET RecoveryKind,
         SettleProjectTask(c, t, a, outcome, cleanup, kinds, unresolved)
  PROVE  RecordsValid' /\ (\A u \in Task : Moved(u)) /\ UNCHANGED plan
<1> DEFINE s == SettledState(outcome, cleanup)
           r == SettledTask(task[t], s, cleanup, kinds, unresolved)
<1>1. /\ task \in [Task -> TaskRecord] /\ task[t].state = "running" /\ task[t].attempt = a
      /\ task[t].operation = a /\ RecoveryDeclared(outcome, kinds, unresolved)
      /\ UNCHANGED plan
  BY DEF SettleProjectTask, TypeOK
<1>2. /\ s \in SettledStates \ {"superseded"}
      /\ r.state = s /\ task'[t] = r
      /\ \A u \in Task \ {t} :
           \/ task'[u] = task[u]
           \/ /\ task[u].state = "waiting_dependency"
              /\ task'[u] = [task[u] EXCEPT !.state = "ready"]
              /\ task'[u].state = "ready"
              /\ \A d \in Dependencies[u] : task'[d].state = "completed"
  BY SettleEffect
<1>3. a # 0
  BY BoundAssumption
<1>4. s = "recovery_required" <=> kinds # {} \/ unresolved
  BY <1>1 DEF SettledState, RecoveryDeclared
<1>5. RecordValid(r)
  BY <1>1, <1>2, <1>3, <1>4, SettledRecord
<1> HIDE DEF r, s
<1>6. RecordsValid'
  <2> SUFFICES ASSUME NEW u \in Task, task'[u].state # "absent"
               PROVE  RecordValid(task'[u])
    BY DEF RecordsValid
  <2>1. CASE u = t
    BY <1>2, <1>5, <2>1
  <2>2. CASE task'[u] = task[u]
    BY <2>2 DEF RecordsValid
  <2>3. CASE u # t /\ task'[u] # task[u]
    <3>1. /\ task[u].state = "waiting_dependency" /\ task[u] \in TaskRecord
          /\ task'[u] = [task[u] EXCEPT !.state = "ready"]
      BY <1>1, <1>2, <2>3
    <3>2. RecordValid(task[u])
      BY <3>1 DEF RecordsValid
    <3> QED
      BY <3>1, <3>2, WokenRecord
  <2> QED
    BY <2>1, <2>2, <2>3
<1>7. \A u \in Task : Moved(u)
  BY <1>1, <1>2 DEF Moved
<1> QED
  BY <1>1, <1>6, <1>7

LEMMA SettleBeforeEffectMoves ==
  ASSUME TypeOK, RecordsValid, NEW c \in Caller, NEW t \in Task, NEW a \in 1..MaxAttempts,
         NEW outcome \in Outcomes, NEW cleanup \in BOOLEAN, NEW unresolved \in BOOLEAN,
         NEW kinds \in SUBSET RecoveryKind,
         SettleProjectTaskBeforeEffect(c, t, a, outcome, cleanup, kinds, unresolved)
  PROVE  RecordsValid' /\ (\A u \in Task : Moved(u)) /\ UNCHANGED plan
<1> DEFINE r == SettledTask(task[t], outcome, cleanup, kinds, unresolved)
<1>1. /\ task[t] \in TaskRecord /\ task[t].state = "starting" /\ task[t].attempt = a
      /\ task[t].operation = a /\ RecoveryDeclared(outcome, kinds, unresolved)
      /\ ReplaceTask(t, r) /\ UNCHANGED plan
  BY DEF SettleProjectTaskBeforeEffect, TypeOK
<1>2. outcome \in SettledStates \ {"superseded"} /\ a # 0
  BY BoundAssumption DEF SettledStates, Outcomes
<1>3. RecordValid(r) /\ r.state = outcome
  BY <1>1, <1>2, SettledRecord, SettledFields DEF RecoveryDeclared
<1> HIDE DEF r
<1> QED
  BY <1>1, <1>2, <1>3, ReplaceTaskMoves DEF Moved

LEMMA MoveObligationMoves ==
  ASSUME TypeOK, RecordsValid, NEW t \in Task, NEW k \in RecoveryKind,
         NEW from \in ObligationPhase, NEW to \in ObligationPhase,
         MoveObligation(t, k, from, to)
  PROVE  RecordsValid' /\ (\A u \in Task : Moved(u)) /\ UNCHANGED plan
<1> DEFINE r == [task[t] EXCEPT !.obligation[k] = to]
<1>1. /\ task[t] \in TaskRecord /\ task[t].state = "recovery_required"
      /\ task[t].obligation[k] = from /\ ReplaceTask(t, r) /\ UNCHANGED plan
  BY DEF MoveObligation, TypeOK
<1>2. RecordValid(task[t])
  BY <1>1 DEF RecordsValid
<1>3. from # "none"
  BY DEF ObligationPhase
<1>4. RecordValid(r) /\ r.state = "recovery_required"
  BY <1>1, <1>2, <1>3, MovedRecord
<1> HIDE DEF r
<1> QED
  BY <1>1, <1>4, ReplaceTaskMoves DEF Moved

LEMMA RetrySettledMoves ==
  ASSUME TypeOK, RecordsValid, NEW c \in Caller, NEW ts \in SUBSET Task,
         RetrySettledProjectTaskRecoveries(c, ts)
  PROVE  RecordsValid' /\ (\A u \in Task : Moved(u)) /\ UNCHANGED plan
<1>1. ASSUME NEW u \in ts, task[u].state # "ready"
      PROVE  /\ task[u].state = "recovery_required" /\ task'[u].state = "ready"
             /\ RecordValid(task'[u])
  <2>1. /\ task[u].state = "recovery_required" /\ ~task[u].unresolved
        /\ Discharged(task[u]) /\ task[u] \in TaskRecord
        /\ task'[u] = [ReadyAgain(task[u], TRUE) EXCEPT !.retries = @ + 1]
    BY <1>1 DEF RetrySettledProjectTaskRecoveries, RecoveryFinished, TypeOK
  <2>2. task[u].unresolved = FALSE
    BY <2>1 DEF TaskRecord
  <2>3. StartsOver(task'[u], task[u].obligation, FALSE)
    BY <2>1, <2>2, StartOverFields
  <2>4. task'[u].obligation = task[u].obligation
    BY <2>3 DEF StartsOver
  <2>5. Discharged(task'[u])
    BY <2>1, <2>4, SameObligations
  <2> QED
    BY <2>1, <2>3, <2>5, StartOverRecord DEF StartsOver
<1>2. /\ \A u \in Task : ~(u \in ts /\ task[u].state # "ready") => task'[u] = task[u]
      /\ UNCHANGED plan
  BY DEF RetrySettledProjectTaskRecoveries
<1> QED
  BY <1>1, <1>2 DEF Moved, RecordsValid

LEMMA OwnerLossMoves ==
  ASSUME TypeOK, RecordsValid, NEW c \in Caller, NEW m \in SUBSET Task,
         RecordProjectTaskOwnerLossRecoveries(c, m)
  PROVE  RecordsValid' /\ (\A u \in Task : Moved(u)) /\ UNCHANGED plan
<1>1. ASSUME NEW u \in (ReservedTasks \cup PreparedTasks) \ m
      PROVE  /\ task[u].state \in {"starting", "running"} /\ task'[u].state = "ready"
             /\ RecordValid(task'[u])
  <2>1. /\ task[u].state \in {"starting", "running"} /\ task[u] \in TaskRecord
        /\ task'[u] = [ReadyAgain(task[u], TRUE) EXCEPT
                         !.obligation = NoObligations, !.unresolved = FALSE]
    BY DEF RecordProjectTaskOwnerLossRecoveries, ReservedTasks, PreparedTasks, TypeOK
  <2>2. StartsOver(task'[u], NoObligations, FALSE)
    BY <2>1, StartOverFields
  <2> QED
    BY <2>1, <2>2, NothingToDischarge, StartOverRecord DEF StartsOver
<1>2. ASSUME NEW u \in m
      PROVE  /\ task[u].state \in {"starting", "running"}
             /\ task'[u].state = "recovery_required" /\ RecordValid(task'[u])
  <2> DEFINE r == SettledTask(task[u], "recovery_required", FALSE, {"docker"}, FALSE)
  <2>1. /\ task[u].state \in {"starting", "running"} /\ task[u].operation # 0
        /\ task[u] \in TaskRecord /\ task'[u] = r /\ "docker" \in RecoveryKind
    BY DEF RecordProjectTaskOwnerLossRecoveries, PreparedTasks, TypeOK
  <2>2. task[u].attempt # 0
    BY <2>1 DEF RecordsValid, RecordValid, ValidTaskLifecycleTuple, NotStarted, SettledStates
  <2>3. "recovery_required" \in SettledStates /\ {"docker"} \in SUBSET RecoveryKind
    BY <2>1 DEF SettledStates
  <2>4. "recovery_required" = "recovery_required" <=> {"docker"} # {} \/ FALSE
    OBVIOUS
  <2>5. RecordValid(r)
    BY <2>1, <2>2, <2>3, <2>4, SettledRecord
  <2>6. r.state = "recovery_required"
    BY <2>1 DEF SettledTask, TaskRecord
  <2> QED
    BY <2>1, <2>5, <2>6
<1>3. \A u \in Task : u \notin ReservedTasks \cup PreparedTasks \cup m => task'[u] = task[u]
  BY DEF RecordProjectTaskOwnerLossRecoveries
<1>4. ReservedTasks \cup PreparedTasks \cup m \subseteq Task /\ UNCHANGED plan
  BY DEF RecordProjectTaskOwnerLossRecoveries, ReservedTasks, PreparedTasks
<1>5. \A u \in Task : \/ u \in (ReservedTasks \cup PreparedTasks) \ m \/ u \in m
                      \/ task'[u] = task[u]
  BY <1>3
<1>6. \A u \in Task : Moved(u)
  BY <1>1, <1>2, <1>5 DEF Moved, SettledStates
<1> QED
  BY <1>1, <1>2, <1>4, <1>5, <1>6 DEF RecordsValid

LEMMA RecoveryStepMoves ==
  ASSUME TypeOK, RecordsValid, NEW c \in Caller, RecoveryStep(c)
  PROVE  RecordsValid' /\ (\A u \in Task : Moved(u)) /\ UNCHANGED plan
<1> DEFINE Goal == RecordsValid' /\ (\A u \in Task : Moved(u)) /\ UNCHANGED plan
<1>0. "required" \in ObligationPhase /\ "recovering" \in ObligationPhase
      /\ "settled" \in ObligationPhase /\ "acknowledged" \in ObligationPhase
  BY DEF ObligationPhase
<1>1. ASSUME NEW t \in Task, NEW k \in RecoveryKind,
             \/ MarkProjectTaskRecoveryObligationRecovering(c, t, k)
             \/ SettleProjectTaskRecoveryObligation(c, t, k)
      PROVE  Goal
  BY <1>0, <1>1, MoveObligationMoves
  DEF MarkProjectTaskRecoveryObligationRecovering, SettleProjectTaskRecoveryObligation
<1>2. ASSUME NEW t \in Task, NEW a \in 1..MaxAttempts,
             AcknowledgeProjectDockerRecoveryObligation(c, t, a)
      PROVE  Goal
  BY <1>0, <1>2, MoveObligationMoves DEF AcknowledgeProjectDockerRecoveryObligation
<1> HIDE DEF Goal
<1>3. ASSUME NEW ts \in SUBSET Task, RetrySettledProjectTaskRecoveries(c, ts)
      PROVE  Goal
  BY <1>3, RetrySettledMoves DEF Goal
<1>4. ASSUME NEW m \in SUBSET Task, RecordProjectTaskOwnerLossRecoveries(c, m)
      PROVE  Goal
  BY <1>4, OwnerLossMoves DEF Goal
<1>5. Goal
  BY <1>1, <1>2, <1>3, <1>4 DEF RecoveryStep
<1> QED
  BY <1>5 DEF Goal

LEMMA RetryMoves ==
  ASSUME TypeOK, RecordsValid, NEW c \in Caller, NEW t \in Task,
         RetryProjectRuntimeTask(c, t)
  PROVE  RecordsValid' /\ (\A u \in Task : Moved(u)) /\ UNCHANGED plan
<1> DEFINE r == [ReadyAgain(task[t], FALSE) EXCEPT
                   !.obligation = NoObligations, !.unresolved = FALSE,
                   !.retries = @ + 1]
<1>1. /\ task[t] \in TaskRecord /\ task[t].state = "failed"
      /\ ReplaceTask(t, r) /\ UNCHANGED plan
  BY DEF RetryProjectRuntimeTask, TypeOK
<1>2. StartsOver(r, NoObligations, FALSE)
  BY <1>1, StartOverFields
<1> HIDE DEF r
<1>3. RecordValid(r) /\ r.state = "ready"
  BY <1>2, NothingToDischarge, StartOverRecord DEF StartsOver
<1> QED
  BY <1>1, <1>3, ReplaceTaskMoves DEF Moved

LEMMA SupersededRecord ==
  ASSUME NEW r \in TaskRecord, RecordValid(r), r.state = "failed"
  PROVE  RecordValid([r EXCEPT !.state = "superseded"])
<1> DEFINE q == [r EXCEPT !.state = "superseded"]
<1>1. /\ q.state = "superseded" /\ q.phase = r.phase /\ q.attempt = r.attempt
      /\ q.operation = r.operation /\ q.obligation = r.obligation
      /\ q.unresolved = r.unresolved
  BY DEF TaskRecord
<1> HIDE DEF q
<1>2. RecordValid(q)
  BY <1>1 DEF RecordValid, ValidTaskLifecycleTuple, ValidObligations, ObligationsOf,
              NotStarted, SettledStates
<1> QED
  BY <1>2 DEF q

\* A replan moves the failed task, brings in the new ones and appends them.
LEMMA ReplanMoves ==
  ASSUME TypeOK, RecordsValid, NEW c \in Caller, NEW t \in Task, NEW new \in Replacements,
         ApplyProjectRuntimePartialReplan(c, t, new)
  PROVE  /\ RecordsValid'
         /\ plan' = plan \o new
         /\ \A u \in Listed(new) : Joined(u) /\ ObjectiveOf[u] = ObjectiveOf[t]
         /\ \A u \in Task \ Listed(new) : Moved(u)
         /\ \A u \in Task : task[u].state = "completed" => task'[u] = task[u]
         /\ task[t].state = "failed"
<1>0. /\ task \in [Task -> TaskRecord] /\ Dependencies \in [Task -> SUBSET Task]
      /\ Listed(new) \subseteq Task
  BY StructureAssumption, ReplacementsType DEF TypeOK
<1>1. /\ task[t].state = "failed" /\ plan' = plan \o new
      /\ \A u \in Listed(new) : /\ task[u].state = "absent"
                                /\ ObjectiveOf[u] = ObjectiveOf[t]
      /\ t \notin Listed(new)
  BY DEF ApplyProjectRuntimePartialReplan
<1>2. task'[t] = [task[t] EXCEPT !.state = "superseded"]
  BY DEF ApplyProjectRuntimePartialReplan
<1>3. \A u \in Task \ (Listed(new) \cup {t}) : task'[u] = task[u]
  BY DEF ApplyProjectRuntimePartialReplan
<1>4. \A u \in Listed(new) :
        task'[u] = NewTask(IF Dependencies[u] \subseteq TasksIn({"completed"})
                           THEN "ready" ELSE "waiting_dependency")
  BY <1>0, <1>1 DEF ApplyProjectRuntimePartialReplan
<1>5. RecordValid(task'[t]) /\ task'[t].state = "superseded"
  <2>1. RecordValid(task[t]) /\ task[t] \in TaskRecord
    BY <1>0, <1>1 DEF RecordsValid
  <2>2. [task[t] EXCEPT !.state = "superseded"].state = "superseded"
    BY <2>1 DEF TaskRecord
  <2> QED
    BY <1>1, <1>2, <2>1, <2>2, SupersededRecord
<1>6. \A u \in Task : task[u].state = "completed" => task'[u] = task[u]
  BY <1>1, <1>3
<1>7. ASSUME NEW u \in Listed(new)
      PROVE  Joined(u) /\ RecordValid(task'[u])
  <2>1. CASE Dependencies[u] \subseteq TasksIn({"completed"})
    <3>1. task'[u] = NewTask("ready")
      BY <1>4, <2>1
    <3>2. \A d \in Dependencies[u] : task'[d].state = "completed"
      BY <1>6, <2>1 DEF TasksIn
    <3> QED
      BY <1>1, <3>1, <3>2, NewRecord DEF Joined, NewTask
  <2>2. CASE ~(Dependencies[u] \subseteq TasksIn({"completed"}))
    <3>1. task'[u] = NewTask("waiting_dependency")
      BY <1>4, <2>2
    <3> QED
      BY <1>1, <3>1, NewRecord DEF Joined, NewTask
  <2> QED
    BY <2>1, <2>2
<1>8. \A u \in Task \ Listed(new) : Moved(u)
  BY <1>1, <1>3, <1>5 DEF Moved
<1>9. RecordsValid'
  BY <1>3, <1>5, <1>7 DEF RecordsValid
<1> QED
  BY <1>1, <1>6, <1>7, <1>8, <1>9

\* The plan grows by the tasks that join; every other task is moved.
PlanMoved ==
  \/ UNCHANGED plan /\ \A u \in Task : Moved(u)
  \/ \E new \in Replacements, t \in Task :
       /\ plan' = plan \o new
       /\ \A u \in Listed(new) : Joined(u) /\ ObjectiveOf[u] = ObjectiveOf[t]
       /\ \A u \in Task \ Listed(new) : Moved(u)
       /\ task[t].state = "failed"

LEMMA StartStepMoves ==
  ASSUME TypeOK, RecordsValid, NEW c \in Caller, NEW t \in Task, StartStep(c, t)
  PROVE  RecordsValid' /\ (\A u \in Task : Moved(u)) /\ UNCHANGED plan
<1>1. CASE ReserveProjectTaskStart(c, t)
  BY <1>1, ReserveMoves
<1>2. ASSUME NEW a \in 1..MaxAttempts, PrepareProjectTaskHandoff(c, t, a)
      PROVE  RecordsValid' /\ (\A u \in Task : Moved(u)) /\ UNCHANGED plan
  BY <1>2, PrepareMoves
<1>3. ASSUME NEW a \in 1..MaxAttempts, ObserveProjectTaskStarted(c, t, a)
      PROVE  RecordsValid' /\ (\A u \in Task : Moved(u)) /\ UNCHANGED plan
  BY <1>3, ObserveMoves
<1> QED
  BY <1>1, <1>2, <1>3 DEF StartStep

LEMMA SettleStepMoves ==
  ASSUME TypeOK, RecordsValid, NEW c \in Caller, NEW t \in Task, SettleStep(c, t)
  PROVE  RecordsValid' /\ (\A u \in Task : Moved(u)) /\ UNCHANGED plan
<1>1. PICK a \in 1..MaxAttempts, outcome \in Outcomes, cleanup \in BOOLEAN,
           unresolved \in BOOLEAN, kinds \in SUBSET RecoveryKind :
        \/ SettleProjectTask(c, t, a, outcome, cleanup, kinds, unresolved)
        \/ SettleProjectTaskBeforeEffect(c, t, a, outcome, cleanup, kinds, unresolved)
  BY DEF SettleStep
<1>2. CASE SettleProjectTask(c, t, a, outcome, cleanup, kinds, unresolved)
  BY <1>2, SettleMoves
<1>3. CASE SettleProjectTaskBeforeEffect(c, t, a, outcome, cleanup, kinds, unresolved)
  BY <1>3, SettleBeforeEffectMoves
<1> QED
  BY <1>1, <1>2, <1>3

LEMMA StillMoves ==
  ASSUME UNCHANGED <<plan, task>>, RecordsValid
  PROVE  RecordsValid' /\ (\A u \in Task : Moved(u)) /\ UNCHANGED plan
BY DEF Moved, RecordsValid

\* The step lemma.
LEMMA StepMoves ==
  ASSUME TypeOK, RecordsValid, [StateNext]_stateVars
  PROVE  RecordsValid' /\ PlanMoved
<1>1. CASE UNCHANGED <<plan, task>>
  BY <1>1, StillMoves DEF PlanMoved
<1>2. CASE ~UNCHANGED <<plan, task>>
  <2>1. PICK c \in Caller :
          \/ ObserveState(c)
          \/ \E t \in Task : StartStep(c, t) \/ SettleStep(c, t)
          \/ RecoveryStep(c)
          \/ ReplanStep(c)
          \/ DecisionStep(c)
    BY <1>2 DEF StateNext, stateVars, projectVars
  <2>2. ~ObserveState(c) /\ ~DecisionStep(c)
    BY <1>2, DecisionStepKeepsTasks DEF ObserveState, projectVars
  <2>3. ASSUME NEW t \in Task, StartStep(c, t) \/ SettleStep(c, t)
        PROVE  RecordsValid' /\ PlanMoved
    BY <2>3, StartStepMoves, SettleStepMoves DEF PlanMoved
  <2>4. CASE RecoveryStep(c)
    BY <2>4, RecoveryStepMoves DEF PlanMoved
  <2>5. ASSUME NEW t \in Task, NEW new \in Replacements,
               ApplyProjectRuntimePartialReplan(c, t, new)
        PROVE  RecordsValid' /\ PlanMoved
    BY <2>5, ReplanMoves DEF PlanMoved
  <2>6. ASSUME NEW t \in Task, RetryProjectRuntimeTask(c, t)
        PROVE  RecordsValid' /\ PlanMoved
    BY <2>6, RetryMoves DEF PlanMoved
  <2> QED
    BY <2>1, <2>2, <2>3, <2>4, <2>5, <2>6 DEF ReplanStep
<1> QED
  BY <1>1, <1>2

-----------------------------------------------------------------------------
(* The plan, the records and the dependencies, by induction.               *)

LEMMA MovedFacts ==
  ASSUME NEW u \in Task, Moved(u)
  PROVE  /\ task'[u].state = "absent" <=> task[u].state = "absent"
         /\ task[u].state \in Finished => task'[u] = task[u]
         /\ task'[u].state = "waiting_dependency" => task[u].state = "waiting_dependency"
BY DEF Moved, SettledStates, Finished

LEMMA ListedAppend ==
  ASSUME NEW p \in Seq(Task), NEW q \in Seq(Task)
  PROVE  /\ Listed(p \o q) = Listed(p) \cup Listed(q)
         /\ \A i \in 1..Len(p) : (p \o q)[i] = p[i]
         /\ \A i \in 1..Len(q) : (p \o q)[Len(p) + i] = q[i]
         /\ Len(p \o q) = Len(p) + Len(q)
         /\ DOMAIN (p \o q) = 1..(Len(p) + Len(q))
<1> DEFINE s == p \o q
<1>1. /\ s \in Seq(Task) /\ Len(s) = Len(p) + Len(q) /\ Len(p) \in Nat /\ Len(q) \in Nat
      /\ DOMAIN s = 1..(Len(p) + Len(q)) /\ DOMAIN p = 1..Len(p) /\ DOMAIN q = 1..Len(q)
  OBVIOUS
<1>2. \A i \in 1..Len(p) : s[i] = p[i]
  BY <1>1
<1>3. \A i \in 1..Len(q) : s[Len(p) + i] = q[i]
  BY <1>1
<1>4. \A i \in DOMAIN s : i \in 1..Len(p) \/ \E j \in 1..Len(q) : i = Len(p) + j
  <2> SUFFICES ASSUME NEW i \in DOMAIN s, i \notin 1..Len(p)
               PROVE  \E j \in 1..Len(q) : i = Len(p) + j
    OBVIOUS
  <2>1. i - Len(p) \in 1..Len(q) /\ i = Len(p) + (i - Len(p))
    BY <1>1
  <2> QED
    BY <2>1
<1>5. \A i \in 1..Len(p) : i \in DOMAIN s
  BY <1>1
<1>6. \A j \in 1..Len(q) : Len(p) + j \in DOMAIN s
  BY <1>1
<1> HIDE DEF s
<1>7. Listed(s) \subseteq Listed(p) \cup Listed(q)
  <2> SUFFICES ASSUME NEW i \in DOMAIN s
               PROVE  s[i] \in Listed(p) \cup Listed(q)
    BY DEF Listed
  <2>1. CASE i \in 1..Len(p)
    BY <1>1, <1>2, <2>1 DEF Listed
  <2>2. CASE \E j \in 1..Len(q) : i = Len(p) + j
    BY <1>1, <1>3, <2>2 DEF Listed
  <2> QED
    BY <1>4, <2>1, <2>2
<1>8. Listed(p) \subseteq Listed(s) /\ Listed(q) \subseteq Listed(s)
  BY <1>1, <1>2, <1>3, <1>5, <1>6 DEF Listed
<1> QED
  BY <1>1, <1>2, <1>3, <1>7, <1>8 DEF s

LEMMA PlanKeptStep ==
  ASSUME TypeOK, TypeOK', PlanKept, PlanMoved
  PROVE  PlanKept'
<1>1. CASE UNCHANGED plan /\ \A u \in Task : Moved(u)
  BY <1>1, MovedFacts DEF PlanKept, Listed
<1>2. ASSUME NEW new \in Replacements,
             plan' = plan \o new,
             \A u \in Listed(new) : Joined(u),
             \A u \in Task \ Listed(new) : Moved(u)
      PROVE  PlanKept'
  <2> DEFINE m == Len(plan) n == Len(new)
  <2>1. /\ plan \in Seq(Task) /\ new \in Seq(Task) /\ Listed(new) \subseteq Task
        /\ m \in Nat /\ n \in Nat /\ DOMAIN plan = 1..m /\ DOMAIN new = 1..n
    BY ReplacementsType DEF TypeOK
  <2>2. \A i, j \in 1..n : new[i] = new[j] => i = j
    BY <2>1 DEF Replacements
  <2>3. /\ Listed(plan') = Listed(plan) \cup Listed(new)
        /\ \A i \in 1..m : plan'[i] = plan[i] /\ plan'[i] \in Listed(plan)
        /\ \A j \in 1..n : plan'[m + j] = new[j] /\ plan'[m + j] \in Listed(new)
        /\ DOMAIN plan' = 1..(m + n)
    <3>1. /\ Listed(plan') = Listed(plan) \cup Listed(new)
          /\ \A i \in 1..m : plan'[i] = plan[i]
          /\ \A j \in 1..n : plan'[m + j] = new[j]
          /\ DOMAIN plan' = 1..(m + n)
      BY <1>2, <2>1, ListedAppend
    <3>2. /\ \A i \in 1..m : plan[i] \in Listed(plan)
          /\ \A j \in 1..n : new[j] \in Listed(new)
      BY <2>1 DEF Listed
    <3> QED
      BY <3>1, <3>2
  <2>4. Listed(plan) \cap Listed(new) = {}
    BY <1>2, <2>1 DEF PlanKept, Joined
  <2>5. \A t \in Task : t \in Listed(plan') <=> task'[t].state # "absent"
    BY <1>2, <2>1, <2>3, MovedFacts DEF PlanKept, Joined
  <2>6. \A i, j \in 1..m : plan[i] = plan[j] => i = j
    BY <2>1 DEF PlanKept
  <2> HIDE DEF m, n
  <2>7. ASSUME NEW i \in 1..(m + n), NEW j \in 1..(m + n), plan'[i] = plan'[j]
        PROVE  i = j
    <3>1. CASE i \in 1..m /\ j \in 1..m
      BY <2>3, <2>6, <2>7, <3>1
    <3>2. CASE i \in 1..m /\ j \notin 1..m
      <4>1. j - m \in 1..n /\ m + (j - m) = j
        BY <2>1, <3>2
      <4> QED
        BY <2>3, <2>4, <2>7, <3>2, <4>1
    <3>3. CASE i \notin 1..m /\ j \in 1..m
      <4>1. i - m \in 1..n /\ m + (i - m) = i
        BY <2>1, <3>3
      <4> QED
        BY <2>3, <2>4, <2>7, <3>3, <4>1
    <3>4. CASE i \notin 1..m /\ j \notin 1..m
      <4>1. /\ i - m \in 1..n /\ m + (i - m) = i
            /\ j - m \in 1..n /\ m + (j - m) = j
        BY <2>1, <3>4
      <4>2. new[i - m] = new[j - m]
        BY <2>3, <2>7, <4>1
      <4>3. i - m = j - m
        BY <2>2, <4>1, <4>2
      <4> QED
        BY <2>1, <4>1, <4>3
    <3> QED
      BY <3>1, <3>2, <3>3, <3>4
  <2> QED
    BY <2>3, <2>5, <2>7 DEF PlanKept, Listed
<1> QED
  BY <1>1, <1>2 DEF PlanMoved

LEMMA StartedAfterDependenciesStep ==
  ASSUME TypeOK, StartedAfterDependencies, PlanMoved
  PROVE  StartedAfterDependencies'
<1>0. Dependencies \in [Task -> SUBSET Task]
  BY StructureAssumption
<1>1. \A u \in Task : task[u].state = "completed" => task'[u] = task[u]
  BY MovedFacts DEF PlanMoved, Finished, Joined
<1>2. \A u \in Task : Moved(u) \/ Joined(u)
  BY DEF PlanMoved
<1> SUFFICES ASSUME NEW u \in Task, task'[u].state \notin {"waiting_dependency", "absent"}
             PROVE  \A d \in Dependencies[u] : task'[d].state = "completed"
  BY DEF StartedAfterDependencies
<1>3. CASE task[u].state \notin {"waiting_dependency", "absent"}
  BY <1>0, <1>1, <1>3 DEF StartedAfterDependencies
<1>4. CASE task[u].state \in {"waiting_dependency", "absent"}
  <2>1. task'[u].state = "ready" /\ \A d \in Dependencies[u] : task'[d].state = "completed"
    BY <1>2, <1>4 DEF Moved, Joined
  <2> QED
    BY <2>1
<1> QED
  BY <1>3, <1>4

\* The plan, the records and the dependencies, as one inductive invariant.
StateInv == TypeOK /\ PlanKept /\ RecordsValid /\ StartedAfterDependencies

LEMMA InitStateInv == Init => StateInv
<1> SUFFICES ASSUME Init PROVE StateInv
  OBVIOUS
<1>0. Listed(InitialPlan) \subseteq Task /\ Dependencies \in [Task -> SUBSET Task]
  BY PlanAssumption, StructureAssumption DEF Listed
<1>1. \A t \in Task : task[t].state =
        (IF t \notin Listed(InitialPlan) THEN "absent"
         ELSE IF Dependencies[t] = {} THEN "ready" ELSE "waiting_dependency")
  BY DEF Init, NewTask
<1>2. PlanKept
  BY <1>1, PlanAssumption DEF PlanKept, Init
<1>3. RecordsValid
  <2> SUFFICES ASSUME NEW t \in Task, task[t].state # "absent"
               PROVE  RecordValid(task[t])
    BY DEF RecordsValid
  <2>1. PICK s \in {"ready", "waiting_dependency"} : task[t] = NewTask(s)
    BY <1>1 DEF Init
  <2> QED
    BY <2>1, NewRecord
<1>4. StartedAfterDependencies
  BY <1>0, <1>1 DEF StartedAfterDependencies
<1> QED
  BY <1>2, <1>3, <1>4, InitType DEF StateInv

LEMMA NextStateInv ==
  ASSUME StateInv, TypeOK', [StateNext]_stateVars
  PROVE  StateInv' /\ PlanMoved
<1>1. RecordsValid' /\ PlanMoved
  BY StepMoves DEF StateInv
<1> QED
  BY <1>1, PlanKeptStep, StartedAfterDependenciesStep DEF StateInv

\* The invariant that the theorems of this module stand on: the tasks of the
\* plan are those that exist, each listed once; the record of each is valid;
\* and a task leaves the wait for its dependencies when they are completed.
THEOREM StateInvariant == StateSpec => []StateInv
<1>1. StateInv /\ TypeOK' /\ [StateNext]_stateVars => StateInv'
  BY NextStateInv
<1> QED
  BY <1>1, InitStateInv, TypeCorrect, PTL DEF StateSpec

\* Whatever the callers do, the state that a transition produces is one that
\* the durable store accepts: validTaskLifecycleTuple and the task part of
\* validProjectRuntimeState hold of every task of the plan.
THEOREM AlwaysAccepted == StateSpec => []StoreAccepts
<1>1. StateInv => StoreAccepts
  <2> SUFFICES ASSUME StateInv, NEW t \in Listed(plan)
               PROVE  ValidTaskLifecycleTuple(task[t]) /\ ValidObligations(task[t])
    BY DEF StoreAccepts
  <2>1. t \in Task
    BY DEF StateInv, TypeOK, Listed
  <2> QED
    BY <2>1 DEF StateInv, PlanKept, RecordsValid, RecordValid
<1> QED
  BY <1>1, StateInvariant, PTL

-----------------------------------------------------------------------------
(* Acceptance in stages.                                                   *)

Closed == {"accepted", "returned"}

\* A step that accepts nothing and closes nothing, and that makes an objective
\* ready for integration only when its tasks are finished.
StageKept ==
  /\ milestone \notin Closed /\ milestone' \notin Closed
  /\ \A o \in Objective :
       /\ objective'[o] = "accepted" <=> objective[o] = "accepted"
       /\ objective'[o] = "integration_pending" =>
            \/ objective[o] = "integration_pending"
            \/ \A t \in Task : ObjectiveOf[t] = o => task'[t].state \in Finished

LEMMA UnfinishedObjective ==
  ASSUME TypeOK, AcceptedWhenFinished, NEW t \in Task, task[t].state \notin Finished
  PROVE  /\ objective[ObjectiveOf[t]] \notin {"integration_pending", "accepted"}
         /\ milestone \notin Closed
         /\ ObjectiveOf[t] \in Objective
<1>1. ObjectiveOf[t] \in Objective
  BY StructureAssumption
<1> QED
  BY <1>1 DEF AcceptedWhenFinished, Closed

LEMMA UnacceptedObjective ==
  ASSUME AcceptedWhenFinished, NEW o \in Objective, objective[o] # "accepted"
  PROVE  milestone \notin Closed
BY DEF AcceptedWhenFinished, Closed

LEMMA StartStepStage ==
  ASSUME TypeOK, AcceptedWhenFinished, NEW c \in Caller, NEW t \in Task, StartStep(c, t)
  PROVE  StageKept
<1>1. CASE ReserveProjectTaskStart(c, t)
  <2>1. task[t].state \notin Finished
    BY <1>1, ReserveEligible DEF EligibleTasks, Finished
  <2>2. /\ objective' = [objective EXCEPT ![ObjectiveOf[t]] =
                           IF @ = "planned" THEN "executing" ELSE @]
        /\ milestone' = IF milestone = "planned" THEN "executing" ELSE milestone
    BY <1>1 DEF ReserveProjectTaskStart
  <2> QED
    BY <2>1, <2>2, UnfinishedObjective DEF StageKept, Closed, TypeOK
<1>2. CASE ~ReserveProjectTaskStart(c, t)
  <2>1. task[t].state = "starting" /\ UNCHANGED <<milestone, objective>>
    BY <1>2 DEF StartStep, PrepareProjectTaskHandoff, ObserveProjectTaskStarted
  <2>2. milestone \notin Closed
    BY <2>1, UnfinishedObjective DEF Finished
  <2> QED
    BY <2>1, <2>2 DEF StageKept
<1> QED
  BY <1>1, <1>2

LEMMA SettleStepStage ==
  ASSUME TypeOK, AcceptedWhenFinished, NEW c \in Caller, NEW t \in Task, SettleStep(c, t)
  PROVE  StageKept
<1>1. PICK a \in 1..MaxAttempts, outcome \in Outcomes, cleanup \in BOOLEAN,
           unresolved \in BOOLEAN, kinds \in SUBSET RecoveryKind :
        \/ SettleProjectTask(c, t, a, outcome, cleanup, kinds, unresolved)
        \/ SettleProjectTaskBeforeEffect(c, t, a, outcome, cleanup, kinds, unresolved)
  BY DEF SettleStep
<1>2. task[t].state \in {"starting", "running"}
  BY <1>1 DEF SettleProjectTask, SettleProjectTaskBeforeEffect
<1>3. /\ objective[ObjectiveOf[t]] \notin {"integration_pending", "accepted"}
      /\ milestone \notin Closed /\ ObjectiveOf[t] \in Objective
  BY <1>2, UnfinishedObjective DEF Finished
<1>4. CASE SettleProjectTask(c, t, a, outcome, cleanup, kinds, unresolved)
  <2>1. /\ objective' = [o \in Objective |-> ObjectiveAfter(o, task')]
        /\ milestone' = MilestoneAfter(task')
    BY <1>4 DEF SettleProjectTask
  <2>2. milestone' \notin Closed
    BY <1>3, <2>1 DEF MilestoneAfter, Closed
  <2> SUFFICES ASSUME NEW o \in Objective
               PROVE  /\ objective'[o] = "accepted" <=> objective[o] = "accepted"
                      /\ objective'[o] = "integration_pending" =>
                           \/ objective[o] = "integration_pending"
                           \/ \A u \in Task : ObjectiveOf[u] = o => task'[u].state \in Finished
    BY <1>3, <2>2 DEF StageKept
  <2>3. objective'[o] = ObjectiveAfter(o, task')
    BY <2>1
  <2> DEFINE live == {u \in Task : /\ ObjectiveOf[u] = o
                                   /\ task'[u].state \notin {"superseded", "absent"}}
  <2>4. \/ objective'[o] = objective[o]
        \/ /\ objective[o] \notin {"accepted", "cancelled"}
           /\ objective'[o] \in {"cancelled", "blocked"}
        \/ /\ objective[o] \notin {"accepted", "cancelled"}
           /\ objective'[o] = "integration_pending"
           /\ \A u \in live : task'[u].state = "completed"
    BY <2>3 DEF ObjectiveAfter
  <2> QED
    BY <2>4 DEF Finished
<1>5. CASE SettleProjectTaskBeforeEffect(c, t, a, outcome, cleanup, kinds, unresolved)
  <2>1. /\ objective' = [objective EXCEPT ![ObjectiveOf[t]] =
                           IF outcome = "cancelled" THEN "cancelled" ELSE "blocked"]
        /\ milestone' = MilestoneBeforeEffect(outcome)
    BY <1>5 DEF SettleProjectTaskBeforeEffect
  <2>2. milestone' \notin Closed
    BY <1>3, <2>1 DEF MilestoneBeforeEffect, Closed, Outcomes
  <2> QED
    BY <1>3, <2>1, <2>2 DEF StageKept, TypeOK
<1> QED
  BY <1>1, <1>4, <1>5

LEMMA RecoveryStepStage ==
  ASSUME TypeOK, AcceptedWhenFinished, NEW c \in Caller, RecoveryStep(c)
  PROVE  StageKept
<1>1. ASSUME NEW t \in Task, NEW k, NEW from, NEW to, MoveObligation(t, k, from, to)
      PROVE  StageKept
  <2>1. task[t].state \notin Finished /\ UNCHANGED <<milestone, objective>>
    BY <1>1 DEF MoveObligation, Finished
  <2> QED
    BY <2>1, UnfinishedObjective DEF StageKept
<1>2. ASSUME NEW ts \in SUBSET Task, RetrySettledProjectTaskRecoveries(c, ts)
      PROVE  StageKept
  <2>1. /\ ts # {} /\ \A t \in ts : task[t].state \in {"recovery_required", "ready"}
        /\ milestone' = "executing"
        /\ objective' = [o \in Objective |->
                           IF \E t \in ts : ObjectiveOf[t] = o
                           THEN "executing" ELSE objective[o]]
    BY <1>2 DEF RetrySettledProjectTaskRecoveries, RecoveryFinished
  <2>2. \A t \in ts : /\ objective[ObjectiveOf[t]] \notin {"integration_pending", "accepted"}
                      /\ milestone \notin Closed
    BY <2>1, UnfinishedObjective DEF Finished
  <2> QED
    BY <2>1, <2>2 DEF StageKept, Closed
<1>3. ASSUME NEW m \in SUBSET Task, RecordProjectTaskOwnerLossRecoveries(c, m)
      PROVE  StageKept
  <2> DEFINE recovering == {t \in Task : task'[t].state = "recovery_required"}
  <2>1. /\ ReservedTasks \cup PreparedTasks # {} /\ m \subseteq PreparedTasks
        /\ milestone' \in {"recovery_required", "executing"}
        /\ objective' = [o \in Objective |->
                           IF \E t \in recovering : ObjectiveOf[t] = o THEN "blocked"
                           ELSE IF \E t \in ReservedTasks : ObjectiveOf[t] = o
                           THEN "executing" ELSE objective[o]]
        /\ \A t \in Task : t \notin ReservedTasks \cup PreparedTasks => task'[t] = task[t]
    BY <1>3 DEF RecordProjectTaskOwnerLossRecoveries
  <2>2. \A t \in ReservedTasks \cup PreparedTasks : t \in Task /\ task[t].state \notin Finished
    BY DEF ReservedTasks, PreparedTasks, Finished
  <2>3. \A t \in recovering : t \in Task /\ task[t].state \notin Finished
    BY <2>1, <2>2 DEF Finished
  <2>4. \A t \in recovering \cup ReservedTasks \cup PreparedTasks :
          /\ objective[ObjectiveOf[t]] \notin {"integration_pending", "accepted"}
          /\ milestone \notin Closed
    BY <2>2, <2>3, UnfinishedObjective
  <2> HIDE DEF recovering
  <2> QED
    BY <2>1, <2>4 DEF StageKept, Closed
<1> QED
  BY <1>1, <1>2, <1>3
  DEF RecoveryStep, MarkProjectTaskRecoveryObligationRecovering,
      SettleProjectTaskRecoveryObligation, AcknowledgeProjectDockerRecoveryObligation

LEMMA ReplanStepStage ==
  ASSUME TypeOK, AcceptedWhenFinished, NEW c \in Caller, ReplanStep(c)
  PROVE  StageKept
<1>1. PICK t \in Task :
        /\ task[t].state = "failed" /\ milestone' = "executing"
        /\ objective' = [objective EXCEPT ![ObjectiveOf[t]] = "executing"]
  BY DEF ReplanStep, ApplyProjectRuntimePartialReplan, RetryProjectRuntimeTask
<1> QED
  BY <1>1, UnfinishedObjective DEF StageKept, Closed, Finished, TypeOK

\* The two steps that accept or close.
ObjectiveAccepted(o) ==
  /\ objective[o] = "integration_pending"
  /\ objective' = [objective EXCEPT ![o] = "accepted"]
  /\ milestone \notin Closed /\ milestone' \notin Closed
  /\ UNCHANGED <<plan, task>>

MilestoneClosed ==
  /\ milestone \notin Closed /\ milestone' \in Closed
  /\ \A o \in Objective : objective[o] = "accepted"
  /\ UNCHANGED <<objective, plan, task>>

LEMMA DecisionStepStage ==
  ASSUME TypeOK, AcceptedWhenFinished, NEW c \in Caller, DecisionStep(c)
  PROVE  StageKept \/ (\E o \in Objective : ObjectiveAccepted(o)) \/ MilestoneClosed
<1>1. ASSUME NEW o \in Objective, RequestProjectRuntimeHumanDecision(c, o)
      PROVE  StageKept
  BY <1>1, UnacceptedObjective DEF RequestProjectRuntimeHumanDecision, StageKept, Closed
<1>2. ASSUME NEW action, ApplyProjectRuntimeHumanDecision(c, action)
      PROVE  StageKept
  BY <1>2 DEF ApplyProjectRuntimeHumanDecision, StageKept, Closed
<1>3. ASSUME NEW o \in Objective, NEW decision, NEW complete \in BOOLEAN,
             ApplyObjectiveAcceptance(c, o, decision, complete)
      PROVE  StageKept \/ ObjectiveAccepted(o)
  <2>1. /\ objective[o] = "integration_pending" /\ UNCHANGED <<plan, task>>
        /\ objective' = [objective EXCEPT ![o] =
                           IF decision = "accept" THEN "accepted" ELSE "returned"]
        /\ milestone' = "integrating" \/ milestone' = milestone
    BY <1>3 DEF ApplyObjectiveAcceptance
  <2>2. milestone \notin Closed /\ milestone' \notin Closed
    BY <2>1, UnacceptedObjective DEF Closed
  <2> QED
    BY <2>1, <2>2 DEF StageKept, ObjectiveAccepted, TypeOK
<1>4. ASSUME NEW decision, NEW complete \in BOOLEAN,
             ApplyMilestoneAcceptance(c, decision, complete)
      PROVE  MilestoneClosed
  BY <1>4 DEF ApplyMilestoneAcceptance, MilestoneClosed, Closed
<1> QED
  BY <1>1, <1>2, <1>3, <1>4 DEF DecisionStep

\* The step lemma.
LEMMA StepStage ==
  ASSUME TypeOK, AcceptedWhenFinished, [StateNext]_stateVars
  PROVE  \/ StageKept
         \/ \E o \in Objective : ObjectiveAccepted(o)
         \/ MilestoneClosed
         \/ UNCHANGED projectVars
<1>1. CASE UNCHANGED stateVars \/ \E c \in Caller : ObserveState(c)
  BY <1>1 DEF stateVars, ObserveState
<1>2. ASSUME NEW c \in Caller,
             \/ \E t \in Task : StartStep(c, t) \/ SettleStep(c, t)
             \/ RecoveryStep(c)
             \/ ReplanStep(c)
      PROVE  StageKept
  BY <1>2, StartStepStage, SettleStepStage, RecoveryStepStage, ReplanStepStage
<1>3. ASSUME NEW c \in Caller, DecisionStep(c)
      PROVE  StageKept \/ (\E o \in Objective : ObjectiveAccepted(o)) \/ MilestoneClosed
  BY <1>3, DecisionStepStage
<1> QED
  BY <1>1, <1>2, <1>3 DEF StateNext

\* A task that has finished stays so, unless its objective is worked on again.
LEMMA FinishedStays ==
  ASSUME TypeOK, AcceptedWhenFinished, PlanMoved, NEW t \in Task,
         objective[ObjectiveOf[t]] \in {"integration_pending", "accepted"}
  PROVE  task'[t].state \in Finished
<1>0. ObjectiveOf[t] \in Objective
  BY StructureAssumption
<1>1. task[t].state \in Finished
  BY DEF AcceptedWhenFinished
<1>2. CASE Moved(t)
  BY <1>1, <1>2, MovedFacts
<1>3. CASE ~Moved(t)
  <2>1. PICK u \in Task : task[u].state = "failed" /\ ObjectiveOf[t] = ObjectiveOf[u]
    BY <1>3 DEF PlanMoved
  <2> QED
    BY <2>1, UnfinishedObjective DEF Finished
<1> QED
  BY <1>2, <1>3

LEMMA AcceptedWhenFinishedStep ==
  ASSUME TypeOK, AcceptedWhenFinished, PlanMoved, [StateNext]_stateVars
  PROVE  AcceptedWhenFinished'
<1>0. \A t \in Task : ObjectiveOf[t] \in Objective
  BY StructureAssumption
<1>1. CASE StageKept
  <2>1. ASSUME NEW t \in Task,
               objective'[ObjectiveOf[t]] \in {"integration_pending", "accepted"}
        PROVE  task'[t].state \in Finished
    BY <1>0, <1>1, <2>1, FinishedStays DEF StageKept
  <2> QED
    BY <1>1, <2>1 DEF StageKept, Closed, AcceptedWhenFinished
<1>2. ASSUME NEW o \in Objective, ObjectiveAccepted(o)
      PROVE  AcceptedWhenFinished'
  <2>1. ASSUME NEW t \in Task,
               objective'[ObjectiveOf[t]] \in {"integration_pending", "accepted"}
        PROVE  task'[t].state \in Finished
    <3>1. objective[ObjectiveOf[t]] \in {"integration_pending", "accepted"}
      BY <1>0, <1>2, <2>1 DEF ObjectiveAccepted, TypeOK
    <3> QED
      BY <3>1, FinishedStays
  <2> QED
    BY <1>2, <2>1 DEF ObjectiveAccepted, Closed, AcceptedWhenFinished
<1>3. CASE MilestoneClosed
  BY <1>3 DEF MilestoneClosed, AcceptedWhenFinished
<1>4. CASE UNCHANGED projectVars
  BY <1>4 DEF projectVars, AcceptedWhenFinished
<1> QED
  BY <1>1, <1>2, <1>3, <1>4, StepStage

LEMMA InitAcceptedWhenFinished == Init => AcceptedWhenFinished
<1> SUFFICES ASSUME Init PROVE AcceptedWhenFinished
  OBVIOUS
<1>1. \A t \in Task : objective[ObjectiveOf[t]] = "planned"
  BY StructureAssumption DEF Init
<1> QED
  BY <1>1 DEF Init, AcceptedWhenFinished

\* An objective that waits for its integration, or that is accepted, has no
\* task left to do, and a closed milestone has every objective accepted.
THEOREM AcceptedOverFinished == StateSpec => []AcceptedWhenFinished
<1>1. StateInv /\ TypeOK' /\ AcceptedWhenFinished /\ [StateNext]_stateVars
        => AcceptedWhenFinished'
  BY NextStateInv, AcceptedWhenFinishedStep DEF StateInv
<1> QED
  BY <1>1, InitAcceptedWhenFinished, StateInvariant, TypeCorrect, PTL DEF StateSpec

-----------------------------------------------------------------------------
(* The refinement of StagedAcceptance.                                     *)

AcceptedObjectives == {o \in Objective : objective[o] = "accepted"}
ClosedAs == IF milestone \in {"accepted", "returned"} THEN milestone ELSE "no"

UnfinishedAreOpen ==
  UnfinishedTasks \subseteq
    {t \in Task : objective[ObjectiveOf[t]] \notin {"integration_pending", "accepted"}}

LEMMA UnfinishedOpen == StateInv /\ AcceptedWhenFinished => UnfinishedAreOpen
<1> SUFFICES ASSUME StateInv, AcceptedWhenFinished, NEW t \in UnfinishedTasks
             PROVE  /\ t \in Task
                    /\ objective[ObjectiveOf[t]] \notin {"integration_pending", "accepted"}
  BY DEF UnfinishedAreOpen
<1>1. t \in Listed(plan) /\ task[t].state \notin {"completed", "superseded"}
  BY DEF UnfinishedTasks
<1>2. t \in Task
  BY <1>1 DEF StateInv, TypeOK, Listed
<1>3. task[t].state \notin Finished
  BY <1>1, <1>2 DEF StateInv, PlanKept, Finished
<1> QED
  BY <1>2, <1>3, UnfinishedObjective DEF StateInv

LEMMA InitStages == Init => Acceptance!Init
<1> SUFFICES ASSUME Init PROVE Acceptance!Init
  OBVIOUS
<1>1. Listed(InitialPlan) \subseteq Task
  BY PlanAssumption DEF Listed
<1>2. \A t \in Listed(InitialPlan) : task[t].state \notin {"completed", "superseded"}
  BY <1>1 DEF Init, NewTask
<1> QED
  BY <1>2 DEF Init, Acceptance!Init, UnfinishedTasks

LEMMA StageWork ==
  ASSUME StateInv', AcceptedWhenFinished', StageKept
  PROVE  Acceptance!Work
<1>1. AcceptedObjectives' = AcceptedObjectives /\ ClosedAs' = ClosedAs
  BY DEF StageKept, AcceptedObjectives, ClosedAs, Closed
<1>2. UnfinishedAreOpen'
  BY UnfinishedOpen, PTL
<1>3. UnfinishedTasks' \in SUBSET {t \in Task : ObjectiveOf[t] \notin AcceptedObjectives}
  BY <1>1, <1>2 DEF UnfinishedAreOpen, AcceptedObjectives
<1> QED
  BY <1>1, <1>3 DEF Acceptance!Work, AcceptedObjectives, ClosedAs

LEMMA StageAccept ==
  ASSUME StateInv, AcceptedWhenFinished, NEW o \in Objective, ObjectiveAccepted(o)
  PROVE  Acceptance!Accept(o)
<1>1. /\ o \notin AcceptedObjectives
      /\ AcceptedObjectives' = AcceptedObjectives \cup {o}
      /\ ClosedAs' = ClosedAs /\ UnfinishedTasks' = UnfinishedTasks
  BY DEF ObjectiveAccepted, AcceptedObjectives, ClosedAs, Closed, UnfinishedTasks,
         StateInv, TypeOK
<1>2. \A t \in UnfinishedTasks : ObjectiveOf[t] # o
  BY UnfinishedOpen DEF UnfinishedAreOpen, ObjectiveAccepted
<1> QED
  BY <1>1, <1>2 DEF Acceptance!Accept, AcceptedObjectives, ClosedAs

LEMMA StageClose ==
  ASSUME MilestoneClosed
  PROVE  \E decision \in {"accepted", "returned"} : Acceptance!Close(decision)
<1>1. /\ ClosedAs = "no" /\ ClosedAs' \in {"accepted", "returned"}
      /\ AcceptedObjectives = Objective /\ AcceptedObjectives' = AcceptedObjectives
      /\ UnfinishedTasks' = UnfinishedTasks
  BY DEF MilestoneClosed, AcceptedObjectives, ClosedAs, Closed, UnfinishedTasks
<1>2. Acceptance!Close(ClosedAs')
  BY <1>1 DEF Acceptance!Close, AcceptedObjectives, ClosedAs
<1> QED
  BY <1>1, <1>2

\* The project state implements the staged acceptance: objectives are accepted
\* over finished tasks, the milestone is closed over accepted objectives, and
\* nothing that was accepted or closed is reopened.
THEOREM ImplementsAcceptance == StateSpec => AcceptsInStages
<1>1. StateInv /\ StateInv' /\ AcceptedWhenFinished /\ AcceptedWhenFinished'
        /\ [StateNext]_stateVars
        => [Acceptance!Next]_Acceptance!acceptanceVars
  <2> SUFFICES ASSUME StateInv, StateInv', AcceptedWhenFinished, AcceptedWhenFinished',
                      [StateNext]_stateVars
               PROVE  [Acceptance!Next]_Acceptance!acceptanceVars
    OBVIOUS
  <2>1. CASE StageKept
    BY <2>1, StageWork DEF Acceptance!Next
  <2>2. CASE \E o \in Objective : ObjectiveAccepted(o)
    BY <2>2, StageAccept DEF Acceptance!Next
  <2>3. CASE MilestoneClosed
    BY <2>3, StageClose DEF Acceptance!Next
  <2>4. CASE UNCHANGED projectVars
    BY <2>4 DEF projectVars, Acceptance!acceptanceVars, UnfinishedTasks
  <2> QED
    BY <2>1, <2>2, <2>3, <2>4, StepStage DEF StateInv
<1> QED
  BY <1>1, InitStages, StateInvariant, AcceptedOverFinished, PTL
  DEF StateSpec, AcceptsInStages, Acceptance!Spec

-----------------------------------------------------------------------------
(* The refinement of TaskSchedule.                                         *)

HeldTasks == ReservingTasks \ ActiveTasks
DoneTasks == TasksIn({"completed"})

\* The task is to the schedule what it was before the step.
SameClass(u) ==
  /\ ActiveForCapacity(task'[u]) <=> ActiveForCapacity(task[u])
  /\ ReservesConflict(task'[u]) <=> ReservesConflict(task[u])
  /\ task'[u].state = "completed" <=> task[u].state = "completed"

Stutters == [Schedule!Next]_Schedule!scheduleVars

LEMMA ActiveReserves == ActiveTasks \subseteq ReservingTasks /\ ReservingTasks \subseteq Task
BY DEF ActiveTasks, ReservingTasks, ReservesConflict

LEMMA ReleaseStep ==
  ASSUME NEW S \in SUBSET Task, S \subseteq ReservingTasks,
         \A u \in S : /\ ~ReservesConflict(task'[u])
                      /\ task'[u].state # "completed" /\ task[u].state # "completed",
         \A u \in Task \ S : SameClass(u)
  PROVE  Stutters
<1>1. /\ ActiveTasks' = ActiveTasks \ S /\ ReservingTasks' = ReservingTasks \ S
      /\ DoneTasks' = DoneTasks
  BY DEF SameClass, ActiveTasks, ReservingTasks, ReservesConflict, DoneTasks, TasksIn
<1>2. /\ HeldTasks' = HeldTasks \ S /\ S \subseteq ActiveTasks \cup HeldTasks
  BY <1>1 DEF HeldTasks
<1>3. CASE S = {}
  BY <1>1, <1>3 DEF Stutters, Schedule!scheduleVars, DoneTasks
<1>4. CASE S # {}
  <2>1. Schedule!Release(S)
    BY <1>1, <1>2, <1>4 DEF Schedule!Release, HeldTasks, DoneTasks
  <2> QED
    BY <2>1 DEF Stutters, Schedule!Next
<1> QED
  BY <1>3, <1>4

LEMMA NothingScheduled ==
  ASSUME \A u \in Task : SameClass(u)
  PROVE  Stutters
<1> DEFINE S == {}
<1>1. S \in SUBSET Task /\ S \subseteq ReservingTasks
  OBVIOUS
<1>2. \A u \in S : /\ ~ReservesConflict(task'[u])
                   /\ task'[u].state # "completed" /\ task[u].state # "completed"
  OBVIOUS
<1>3. \A u \in Task \ S : SameClass(u)
  OBVIOUS
<1> HIDE DEF S
<1> QED
  BY <1>1, <1>2, <1>3, ReleaseStep

LEMMA UnchangedClass ==
  ASSUME NEW u, task'[u] = task[u]
  PROVE  SameClass(u)
BY DEF SameClass

\* States in which a task has no place in the schedule.
IdleStates ==
  {"planned", "waiting_dependency", "ready", "absent", "failed", "cancelled", "superseded"}

LEMMA IdleClass ==
  ASSUME NEW u, task[u].state \in IdleStates, task'[u].state \in IdleStates
  PROVE  SameClass(u)
BY DEF IdleStates, SameClass, ActiveForCapacity, ReservesConflict

\* An attempt ends: its task finishes, is held or is released.
LEMMA SettleOne ==
  ASSUME NEW t \in Task, task[t].state \in {"starting", "running"},
         \A u \in Task \ {t} : SameClass(u)
  PROVE  Stutters
<1>0. /\ t \in ActiveTasks /\ t \in ReservingTasks /\ t \notin DoneTasks /\ t \notin HeldTasks
  BY DEF ActiveTasks, ActiveForCapacity, ReservingTasks, ReservesConflict, DoneTasks,
         TasksIn, HeldTasks
<1>1. /\ \A u \in Task \ {t} : u \in ActiveTasks' <=> u \in ActiveTasks
      /\ \A u \in Task \ {t} : u \in ReservingTasks' <=> u \in ReservingTasks
      /\ \A u \in Task \ {t} : u \in DoneTasks' <=> u \in DoneTasks
      /\ ActiveTasks \subseteq Task /\ ReservingTasks \subseteq Task /\ DoneTasks \subseteq Task
      /\ ActiveTasks' \subseteq Task /\ ReservingTasks' \subseteq Task
      /\ DoneTasks' \subseteq Task
  BY DEF SameClass, ActiveTasks, ReservingTasks, DoneTasks, TasksIn
<1>2. CASE ActiveForCapacity(task'[t])
  <2>1. SameClass(t)
    BY <1>0, <1>2 DEF SameClass, ActiveForCapacity, ReservesConflict
  <2> QED
    BY <2>1, NothingScheduled
<1>3. CASE ~ActiveForCapacity(task'[t]) /\ ReservesConflict(task'[t])
  <2>1. t \notin ActiveTasks' /\ t \in ReservingTasks' /\ t \notin DoneTasks'
    BY <1>3 DEF ActiveTasks, ReservingTasks, DoneTasks, TasksIn, ReservesConflict
  <2>2. /\ ActiveTasks' = ActiveTasks \ {t} /\ ReservingTasks' = ReservingTasks
        /\ DoneTasks' = DoneTasks
    BY <1>0, <1>1, <2>1
  <2>3. HeldTasks' = HeldTasks \cup {t}
    BY <1>0, <1>1, <2>2 DEF HeldTasks
  <2>4. Schedule!Hold(t)
    BY <1>0, <2>2, <2>3 DEF Schedule!Hold, HeldTasks, DoneTasks
  <2> QED
    BY <2>4 DEF Stutters, Schedule!Next
<1>4. CASE task'[t].state = "completed"
  <2>1. t \notin ActiveTasks' /\ t \notin ReservingTasks' /\ t \in DoneTasks'
    BY <1>4 DEF ActiveTasks, ReservingTasks, DoneTasks, TasksIn, ReservesConflict,
                ActiveForCapacity
  <2>2. /\ ActiveTasks' = ActiveTasks \ {t} /\ ReservingTasks' = ReservingTasks \ {t}
        /\ DoneTasks' = DoneTasks \cup {t}
    BY <1>0, <1>1, <2>1
  <2>3. HeldTasks' = HeldTasks
    BY <1>0, <1>1, <2>2 DEF HeldTasks
  <2>4. Schedule!Finish(t)
    BY <1>0, <2>2, <2>3 DEF Schedule!Finish, HeldTasks, DoneTasks
  <2> QED
    BY <2>4 DEF Stutters, Schedule!Next
<1>5. CASE ~ReservesConflict(task'[t]) /\ task'[t].state # "completed"
  <2> DEFINE S == {t}
  <2>1. \A u \in S : /\ ~ReservesConflict(task'[u])
                     /\ task'[u].state # "completed" /\ task[u].state # "completed"
    BY <1>5
  <2>2. S \in SUBSET Task /\ S \subseteq ReservingTasks /\ \A u \in Task \ S : SameClass(u)
    BY <1>0
  <2> HIDE DEF S
  <2> QED
    BY <2>1, <2>2, ReleaseStep
<1> QED
  BY <1>2, <1>3, <1>4, <1>5

LEMMA SameCardinality ==
  \A S : Schedule!Cardinality(S) = Cardinality(S)
BY DEF Schedule!Cardinality, Cardinality

LEMMA StartStepSchedule ==
  ASSUME StateInv, NEW c \in Caller, NEW t \in Task, StartStep(c, t)
  PROVE  Stutters
<1>1. CASE ReserveProjectTaskStart(c, t)
  <2>1. /\ task[t].state = "ready" /\ task[t] \in TaskRecord
        /\ \A u \in ReservingTasks : ~Conflicts(t, u)
        /\ Cardinality(ActiveTasks) < MaxConcurrency
        /\ \A u \in Task \ {t} : task'[u] = task[u]
    BY <1>1, ReserveEligible DEF EligibleTasks, StateInv, TypeOK
  <2>2. task'[t].state = "starting"
    BY <1>1, <2>1 DEF ReserveProjectTaskStart, ReplaceTask, ReservedTask, TaskRecord, StateInv, TypeOK
  <2>3. /\ t \notin ActiveTasks /\ t \notin ReservingTasks /\ t \notin DoneTasks
    BY <2>1 DEF ActiveTasks, ActiveForCapacity, ReservingTasks, ReservesConflict, DoneTasks,
                TasksIn
  <2>4. /\ ActiveTasks' = ActiveTasks \cup {t} /\ ReservingTasks' = ReservingTasks \cup {t}
        /\ DoneTasks' = DoneTasks
    BY <2>1, <2>2 DEF ActiveTasks, ActiveForCapacity, ReservingTasks, ReservesConflict,
                      DoneTasks, TasksIn
  <2>5. HeldTasks' = HeldTasks
    BY <2>3, <2>4 DEF HeldTasks
  <2>6. Dependencies[t] \subseteq DoneTasks
    BY <2>1, StructureAssumption DEF StateInv, StartedAfterDependencies, DoneTasks, TasksIn
  <2>7. \A u \in ActiveTasks \cup HeldTasks : <<t, u>> \notin Conflict
    BY <2>1, ActiveReserves DEF Conflicts, HeldTasks
  <2>8. Schedule!Start(t)
    BY <2>1, <2>3, <2>4, <2>5, <2>6, <2>7, SameCardinality
    DEF Schedule!Start, HeldTasks, DoneTasks
  <2> QED
    BY <2>8 DEF Stutters, Schedule!Next
<1>2. CASE ~ReserveProjectTaskStart(c, t)
  <2>1. /\ task[t].state = "starting"
        /\ \A u \in Task \ {t} : task'[u] = task[u]
    BY <1>2 DEF StartStep, PrepareProjectTaskHandoff, ObserveProjectTaskStarted, ReplaceTask,
                StateInv, TypeOK
  <2> QED
    BY <2>1, UnchangedClass, SettleOne
<1> QED
  BY <1>1, <1>2

LEMMA SettleStepSchedule ==
  ASSUME StateInv, NEW c \in Caller, NEW t \in Task, SettleStep(c, t)
  PROVE  Stutters
<1>1. PICK a \in 1..MaxAttempts, outcome \in Outcomes, cleanup \in BOOLEAN,
           unresolved \in BOOLEAN, kinds \in SUBSET RecoveryKind :
        \/ SettleProjectTask(c, t, a, outcome, cleanup, kinds, unresolved)
        \/ SettleProjectTaskBeforeEffect(c, t, a, outcome, cleanup, kinds, unresolved)
  BY DEF SettleStep
<1>2. task[t].state \in {"starting", "running"}
  BY <1>1 DEF SettleProjectTask, SettleProjectTaskBeforeEffect
<1>3. \A u \in Task \ {t} :
        \/ task'[u] = task[u]
        \/ task[u].state = "waiting_dependency" /\ task'[u].state = "ready"
  <2>1. CASE SettleProjectTask(c, t, a, outcome, cleanup, kinds, unresolved)
    <3>1. \A u \in Task \ {t} :
            \/ task'[u] = task[u]
            \/ /\ task[u].state = "waiting_dependency"
               /\ task'[u] = [task[u] EXCEPT !.state = "ready"]
               /\ task'[u].state = "ready"
               /\ \A d \in Dependencies[u] : task'[d].state = "completed"
      BY <2>1, SettleEffect DEF StateInv
    <3> QED
      BY <3>1
  <2>2. CASE SettleProjectTaskBeforeEffect(c, t, a, outcome, cleanup, kinds, unresolved)
    BY <2>2 DEF SettleProjectTaskBeforeEffect, ReplaceTask, StateInv, TypeOK
  <2> QED
    BY <1>1, <2>1, <2>2
<1>4. \A u \in Task \ {t} : SameClass(u)
  BY <1>3, UnchangedClass, IdleClass DEF IdleStates
<1> QED
  BY <1>2, <1>4, SettleOne

LEMMA MoveObligationSchedule ==
  ASSUME StateInv, NEW t \in Task, NEW k \in RecoveryKind,
         NEW from \in ObligationPhase, NEW to \in ObligationPhase,
         MoveObligation(t, k, from, to)
  PROVE  Stutters
<1> DEFINE r == [task[t] EXCEPT !.obligation[k] = to]
<1>1. /\ task[t] \in TaskRecord /\ task[t].state = "recovery_required"
      /\ task[t].obligation[k] = from /\ task'[t] = r
      /\ \A u \in Task \ {t} : task'[u] = task[u]
  BY DEF MoveObligation, ReplaceTask, StateInv, TypeOK
<1>2. RecordValid(task[t])
  BY <1>1 DEF StateInv, RecordsValid
<1>3. from # "none"
  BY DEF ObligationPhase
<1>4. /\ r.state = "recovery_required" /\ r.cleanup = task[t].cleanup
      /\ ObligationsOf(r) # {} /\ ObligationsOf(task[t]) # {}
  BY <1>1, <1>2, <1>3, MovedRecord
<1> HIDE DEF r
<1>5. SameClass(t)
  BY <1>1, <1>4 DEF SameClass, ActiveForCapacity, ReservesConflict
<1> QED
  BY <1>1, <1>5, UnchangedClass, NothingScheduled

LEMMA RetrySettledSchedule ==
  ASSUME StateInv, NEW c \in Caller, NEW ts \in SUBSET Task,
         RetrySettledProjectTaskRecoveries(c, ts)
  PROVE  Stutters
<1> DEFINE S == {t \in ts : task[t].state # "ready"}
<1>1. ASSUME NEW u \in S
      PROVE  /\ u \in ReservingTasks /\ ~ReservesConflict(task'[u])
             /\ task'[u].state # "completed" /\ task[u].state # "completed"
  <2>1. /\ task[u].state = "recovery_required" /\ ObligationsOf(task[u]) # {}
        /\ task[u] \in TaskRecord
        /\ task'[u] = [ReadyAgain(task[u], TRUE) EXCEPT !.retries = @ + 1]
    BY DEF RetrySettledProjectTaskRecoveries, RecoveryFinished, StateInv, TypeOK
  <2>2. task'[u].state = "ready"
    BY <2>1, ReadyAgainState
  <2> QED
    BY <2>1, <2>2 DEF ReservingTasks, ReservesConflict, ActiveForCapacity
<1>2. \A u \in Task \ S : SameClass(u)
  BY UnchangedClass DEF RetrySettledProjectTaskRecoveries
<1>3. S \in SUBSET Task
  OBVIOUS
<1> HIDE DEF S
<1>4. S \subseteq ReservingTasks
  BY <1>1
<1> QED
  BY <1>1, <1>2, <1>3, <1>4, ReleaseStep

LEMMA OwnerLossSchedule ==
  ASSUME StateInv, NEW c \in Caller, NEW m \in SUBSET Task,
         RecordProjectTaskOwnerLossRecoveries(c, m)
  PROVE  Stutters
<1> DEFINE S == (ReservedTasks \cup PreparedTasks) \ m
<1>0. /\ m \subseteq PreparedTasks /\ S \subseteq Task
      /\ \A u \in Task : u \notin S \cup m => task'[u] = task[u]
  BY DEF RecordProjectTaskOwnerLossRecoveries, ReservedTasks, PreparedTasks
<1>1. ASSUME NEW u \in S
      PROVE  /\ u \in ReservingTasks /\ ~ReservesConflict(task'[u])
             /\ task'[u].state # "completed" /\ task[u].state # "completed"
  <2>1. /\ task[u].state \in {"starting", "running"} /\ task[u] \in TaskRecord
        /\ task'[u] = [ReadyAgain(task[u], TRUE) EXCEPT
                         !.obligation = NoObligations, !.unresolved = FALSE]
        /\ u \in Task
    BY DEF RecordProjectTaskOwnerLossRecoveries, ReservedTasks, PreparedTasks, StateInv, TypeOK
  <2>2. task'[u].state = "ready"
    BY <2>1, ReadyAgainState
  <2> QED
    BY <2>1, <2>2 DEF ReservingTasks, ReservesConflict, ActiveForCapacity
<1>2. ASSUME NEW u \in m
      PROVE  SameClass(u)
  <2> DEFINE r == SettledTask(task[u], "recovery_required", FALSE, {"docker"}, FALSE)
  <2>1. /\ task[u].state \in {"starting", "running"} /\ task[u] \in TaskRecord /\ task'[u] = r
    BY DEF RecordProjectTaskOwnerLossRecoveries, PreparedTasks, StateInv, TypeOK
  <2>2. r.state = "recovery_required" /\ r.cleanup = FALSE
    BY <2>1 DEF SettledTask, TaskRecord
  <2> HIDE DEF r
  <2> QED
    BY <2>1, <2>2 DEF SameClass, ActiveForCapacity, ReservesConflict
<1>3. \A u \in Task \ S : SameClass(u)
  BY <1>0, <1>2, UnchangedClass
<1> HIDE DEF S
<1>4. S \subseteq ReservingTasks /\ S \in SUBSET Task
  BY <1>0, <1>1
<1> QED
  BY <1>1, <1>3, <1>4, ReleaseStep

LEMMA RecoveryStepSchedule ==
  ASSUME StateInv, NEW c \in Caller, RecoveryStep(c)
  PROVE  Stutters
<1>0. "required" \in ObligationPhase /\ "recovering" \in ObligationPhase
      /\ "settled" \in ObligationPhase /\ "acknowledged" \in ObligationPhase
  BY DEF ObligationPhase
<1>1. ASSUME NEW t \in Task, NEW k \in RecoveryKind,
             \/ MarkProjectTaskRecoveryObligationRecovering(c, t, k)
             \/ SettleProjectTaskRecoveryObligation(c, t, k)
      PROVE  Stutters
  BY <1>0, <1>1, MoveObligationSchedule
  DEF MarkProjectTaskRecoveryObligationRecovering, SettleProjectTaskRecoveryObligation
<1>2. ASSUME NEW t \in Task, NEW a \in 1..MaxAttempts,
             AcknowledgeProjectDockerRecoveryObligation(c, t, a)
      PROVE  Stutters
  BY <1>0, <1>2, MoveObligationSchedule DEF AcknowledgeProjectDockerRecoveryObligation
<1> QED
  BY <1>1, <1>2, RetrySettledSchedule, OwnerLossSchedule DEF RecoveryStep

LEMMA ReplanStepSchedule ==
  ASSUME StateInv, NEW c \in Caller, ReplanStep(c)
  PROVE  Stutters
<1>1. ASSUME NEW t \in Task, NEW new \in Replacements,
             ApplyProjectRuntimePartialReplan(c, t, new)
      PROVE  Stutters
  <2> SUFFICES ASSUME NEW u \in Task PROVE SameClass(u)
    BY NothingScheduled
  <2>1. CASE u = t
    <3>1. task[u].state = "failed" /\ task'[u].state = "superseded"
      BY <1>1, <2>1 DEF ApplyProjectRuntimePartialReplan, StateInv, TypeOK, TaskRecord
    <3> QED
      BY <3>1, IdleClass DEF IdleStates
  <2>2. CASE u # t /\ u \in Listed(new)
    <3>1. task[u].state = "absent"
      BY <1>1, <2>2 DEF ApplyProjectRuntimePartialReplan
    <3>2. task'[u].state \in {"ready", "waiting_dependency"}
      BY <1>1, <2>2 DEF ApplyProjectRuntimePartialReplan, NewTask
    <3> QED
      BY <3>1, <3>2, IdleClass DEF IdleStates
  <2>3. CASE u # t /\ u \notin Listed(new)
    BY <1>1, <2>3, UnchangedClass DEF ApplyProjectRuntimePartialReplan
  <2> QED
    BY <2>1, <2>2, <2>3
<1>2. ASSUME NEW t \in Task, RetryProjectRuntimeTask(c, t)
      PROVE  Stutters
  <2> DEFINE r == [ReadyAgain(task[t], FALSE) EXCEPT
                     !.obligation = NoObligations, !.unresolved = FALSE,
                     !.retries = @ + 1]
  <2>1. /\ task[t].state = "failed" /\ task'[t] = r
        /\ \A u \in Task \ {t} : task'[u] = task[u]
    BY <1>2 DEF RetryProjectRuntimeTask, ReplaceTask, StateInv, TypeOK
  <2>2. r.state = "ready"
    BY ReadyAgainState DEF StateInv, TypeOK
  <2> HIDE DEF r
  <2>3. SameClass(t)
    BY <2>1, <2>2, IdleClass DEF IdleStates
  <2> QED
    BY <2>1, <2>3, UnchangedClass, NothingScheduled
<1> QED
  BY <1>1, <1>2 DEF ReplanStep

LEMMA InitSchedule == Init => Schedule!Init
<1> SUFFICES ASSUME Init PROVE Schedule!Init
  OBVIOUS
<1>1. \A t \in Task : task[t].state \in {"absent", "ready", "waiting_dependency"}
  BY DEF Init, NewTask
<1> QED
  BY <1>1 DEF Schedule!Init, ActiveTasks, ActiveForCapacity, ReservingTasks, ReservesConflict,
              TasksIn

\* The selection and every transition around it implement the schedule: a task
\* is started only over completed dependencies, apart from every task that
\* works or is held, and while a place is free; what is completed stays so.
THEOREM ImplementsSchedule == StateSpec => SchedulesTasks
<1>1. StateInv /\ [StateNext]_stateVars => [Schedule!Next]_Schedule!scheduleVars
  <2> SUFFICES ASSUME StateInv, [StateNext]_stateVars
               PROVE  Stutters
    BY DEF Stutters
  <2>1. CASE UNCHANGED task
    BY <2>1, UnchangedClass, NothingScheduled
  <2>2. CASE ~UNCHANGED task
    <3>1. PICK c \in Caller :
            \/ ObserveState(c)
            \/ \E t \in Task : StartStep(c, t) \/ SettleStep(c, t)
            \/ RecoveryStep(c)
            \/ ReplanStep(c)
            \/ DecisionStep(c)
      BY <2>2 DEF StateNext, stateVars, projectVars
    <3>2. ~ObserveState(c) /\ ~DecisionStep(c)
      BY <2>2, DecisionStepKeepsTasks DEF ObserveState, projectVars
    <3> QED
      BY <3>1, <3>2, StartStepSchedule, SettleStepSchedule, RecoveryStepSchedule,
         ReplanStepSchedule
  <2> QED
    BY <2>1, <2>2
<1> QED
  BY <1>1, InitSchedule, StateInvariant, PTL DEF StateSpec, SchedulesTasks, Schedule!Spec

-----------------------------------------------------------------------------
(* A selection is the only one, and survives the reservation of its tasks. *)

LEMMA LeastNatural ==
  ASSUME NEW I \in SUBSET Nat, I # {}
  PROVE  \E i \in I : \A j \in I : i <= j
<1> DEFINE R == OpToRel(<, Nat)
<1>1. IsWellFoundedOn(R, Nat)
  BY NatLessThanWellFounded
<1>2. \A i, j \in Nat : <<i, j>> \in R <=> i < j
  BY DEF OpToRel
<1> HIDE DEF R
<1>3. PICK i \in I : \A j \in I : ~(<<j, i>> \in R)
  BY <1>1, WFMin
<1>4. \A j \in I : i \in Nat /\ j \in Nat /\ ~(j < i)
  BY <1>2, <1>3
<1>5. \A j \in I : i <= j
  BY <1>4
<1> QED
  BY <1>3, <1>5

\* The order of the plan, on the tasks that it lists.
LEMMA PlanOrder ==
  ASSUME TypeOK, PlanKept
  PROVE  /\ \A t, u \in Listed(plan) : t = u \/ Before(t, u) \/ Before(u, t)
         /\ \A t, u, v \in Task : Before(t, u) /\ Before(u, v) => Before(t, v)
         /\ \A t \in Task : ~Before(t, t)
<1> DEFINE n == Len(plan)
<1>1. plan \in Seq(Task) /\ n \in Nat /\ DOMAIN plan = 1..n
  BY DEF TypeOK
<1>2. \A i, j \in 1..n : plan[i] = plan[j] => i = j
  BY <1>1 DEF PlanKept
<1> HIDE DEF n
<1>3. ASSUME NEW t \in Listed(plan), NEW u \in Listed(plan)
      PROVE  t = u \/ Before(t, u) \/ Before(u, t)
  <2>1. PICK i \in 1..n, j \in 1..n : plan[i] = t /\ plan[j] = u
    BY <1>1 DEF Listed
  <2>2. i = j \/ i < j \/ j < i
    BY <1>1
  <2> QED
    BY <1>1, <2>1, <2>2 DEF Before
<1>4. ASSUME NEW t \in Task, NEW u \in Task, NEW v \in Task, Before(t, u), Before(u, v)
      PROVE  Before(t, v)
  <2>1. PICK i \in 1..n, j \in 1..n : i < j /\ plan[i] = t /\ plan[j] = u
    BY <1>1, <1>4 DEF Before
  <2>2. PICK k \in 1..n, l \in 1..n : k < l /\ plan[k] = u /\ plan[l] = v
    BY <1>1, <1>4 DEF Before
  <2>3. i < l
    BY <1>1, <1>2, <2>1, <2>2
  <2> QED
    BY <1>1, <2>1, <2>2, <2>3 DEF Before
<1>5. \A t \in Task : ~Before(t, t)
  BY <1>1, <1>2 DEF Before
<1> QED
  BY <1>3, <1>4, <1>5

LEMMA FirstInPlan ==
  ASSUME TypeOK, PlanKept, NEW D, D \subseteq Listed(plan), D # {}
  PROVE  \E m \in D : \A d \in D : ~Before(d, m)
<1> DEFINE n == Len(plan) I == {i \in 1..n : plan[i] \in D}
<1>1. n \in Nat /\ DOMAIN plan = 1..n
  BY DEF TypeOK
<1>2. \A i, j \in 1..n : plan[i] = plan[j] => i = j
  BY <1>1 DEF PlanKept
<1>3. I \in SUBSET Nat /\ I # {}
  BY <1>1 DEF Listed
<1>4. PICK i \in I : \A j \in I : i <= j
  BY <1>3, LeastNatural
<1>5. ASSUME NEW d \in D, Before(d, plan[i])
      PROVE  FALSE
  <2>1. PICK k \in 1..n, l \in 1..n : k < l /\ plan[k] = d /\ plan[l] = plan[i]
    BY <1>1, <1>5 DEF Before
  <2>2. k \in I /\ l = i
    BY <1>2, <2>1
  <2> QED
    BY <1>1, <1>4, <2>1, <2>2
<1> QED
  BY <1>5

LEMMA EligibleListed ==
  ASSUME PlanKept
  PROVE  EligibleTasks \subseteq Listed(plan) /\ EligibleTasks \subseteq Task
BY DEF PlanKept, EligibleTasks

LEMMA OneSelection ==
  ASSUME TypeOK, PlanKept, NEW S \in SUBSET EligibleTasks, NEW T \in SUBSET EligibleTasks,
         IsSelection(S), IsSelection(T)
  PROVE  S = T
<1> DEFINE D == (S \ T) \cup (T \ S)
<1> SUFFICES ASSUME D # {} PROVE FALSE
  OBVIOUS
<1>1. PICK m \in D : \A d \in D : ~Before(d, m)
  BY EligibleListed, FirstInPlan
<1>2. {u \in S : Before(u, m)} = {u \in T : Before(u, m)}
  BY <1>1
<1>3. m \in EligibleTasks
  BY <1>1
<1>4. m \in S <=> m \in T
  BY <1>2, <1>3 DEF IsSelection
<1> QED
  BY <1>1, <1>4

LEMMA SelectionApart ==
  ASSUME TypeOK, PlanKept, NEW S \in SUBSET EligibleTasks, IsSelection(S),
         NEW t \in S, NEW u \in S, t # u
  PROVE  ~Conflicts(t, u) /\ ~Conflicts(u, t)
<1>1. Before(t, u) \/ Before(u, t)
  BY EligibleListed, PlanOrder
<1>2. ASSUME NEW a \in S, NEW b \in S, Before(a, b)
      PROVE  ~Conflicts(b, a)
  BY <1>2 DEF IsSelection
<1>3. Conflicts(t, u) <=> Conflicts(u, t)
  BY EligibleListed, StructureAssumption DEF Conflicts
<1> QED
  BY <1>1, <1>2, <1>3

\* The places left, before and after a reservation.
LEMMA ReserveAvailable ==
  ASSUME TypeOK, NEW c \in Caller, NEW t \in Task, ReserveProjectTaskStart(c, t)
  PROVE  /\ Available \in Nat /\ Available > 0
         /\ Available' = Available - 1
         /\ ReservingTasks' = ReservingTasks \cup {t}
         /\ task'[t].state = "starting"
<1>1. /\ task[t].state = "ready" /\ task[t] \in TaskRecord
      /\ Cardinality(ActiveTasks) < MaxConcurrency
      /\ \A u \in Task \ {t} : task'[u] = task[u]
  BY ReserveEligible DEF EligibleTasks, TypeOK
<1>2. task'[t].state = "starting"
  BY <1>1 DEF ReserveProjectTaskStart, ReplaceTask, ReservedTask, TaskRecord, TypeOK
<1>3. /\ ActiveTasks' = ActiveTasks \cup {t} /\ ReservingTasks' = ReservingTasks \cup {t}
      /\ t \notin ActiveTasks
  BY <1>1, <1>2 DEF ActiveTasks, ActiveForCapacity, ReservingTasks, ReservesConflict
<1> DEFINE n == Cardinality(ActiveTasks)
<1>4. IsFiniteSet(ActiveTasks) /\ n \in Nat
  BY FS_Subset, FS_CardinalityType, StructureAssumption DEF ActiveTasks
<1>5. Cardinality(ActiveTasks') = n + 1
  BY <1>3, <1>4, FS_AddElement
<1>6. MaxConcurrency \in Nat
  BY BoundAssumption
<1>7. Available = MaxConcurrency - n
  BY <1>1, <1>4, <1>6 DEF Available
<1>8. Available' = MaxConcurrency - (n + 1)
  <2>1. Available' = IF n + 1 >= MaxConcurrency THEN 0 ELSE MaxConcurrency - (n + 1)
    BY <1>5 DEF Available
  <2> HIDE DEF n
  <2> QED
    BY <1>1, <1>4, <1>6, <2>1 DEF n
<1>9. n < MaxConcurrency
  BY <1>1
<1> HIDE DEF n
<1> QED
  BY <1>2, <1>3, <1>4, <1>6, <1>7, <1>8, <1>9

\* What is left of a selection when one of its tasks is reserved is the
\* selection of the state that the reservation makes.
LEMMA SelectionWithout ==
  ASSUME TypeOK, PlanKept, NEW c \in Caller, NEW t \in Task, ReserveProjectTaskStart(c, t),
         NEW S \in SUBSET EligibleTasks, IsSelection(S), t \in S
  PROVE  S \ {t} \in SUBSET EligibleTasks' /\ IsSelection(S \ {t})'
<1> DEFINE R == S \ {t} A == Available
           Taken(X, u) == {v \in X : Before(v, u)}
<1>0. /\ IsFiniteSet(S) /\ EligibleTasks \subseteq Task /\ S \subseteq Task
      /\ EligibleTasks \subseteq Listed(plan)
  BY EligibleListed, FS_Subset, StructureAssumption
<1>1. /\ A \in Nat /\ Available' = A - 1 /\ A > 0
      /\ ReservingTasks' = ReservingTasks \cup {t}
      /\ task'[t].state = "starting" /\ plan' = plan
      /\ \A u \in Task \ {t} : task'[u] = task[u]
  BY ReserveAvailable, ReserveEligible DEF ReserveProjectTaskStart
<1>2. /\ EligibleTasks' = {u \in EligibleTasks \ {t} : ~Conflicts(u, t)}
      /\ \A u, v : Before(u, v)' <=> Before(u, v)
  BY <1>1 DEF EligibleTasks, Before, Conflicts
<1>3. R \subseteq EligibleTasks'
  BY <1>2, SelectionApart
<1>4. \A u \in EligibleTasks :
        u \in S <=> /\ Cardinality(Taken(S, u)) < A
                    /\ \A v \in Taken(S, u) : ~Conflicts(u, v)
  BY DEF IsSelection
<1>5. \A X, u : X \subseteq S => /\ Taken(X, u) \subseteq S /\ IsFiniteSet(Taken(X, u))
                                 /\ Cardinality(Taken(X, u)) \in Nat
  BY <1>0, FS_Subset, FS_CardinalityType
<1> HIDE DEF A
<1>6. ASSUME NEW u \in EligibleTasks'
      PROVE  u \in R <=> /\ Cardinality(Taken(R, u)) < A - 1
                         /\ \A v \in Taken(R, u) : ~Conflicts(u, v)
  <2>1. u \in EligibleTasks /\ u # t /\ ~Conflicts(u, t) /\ u \in Task
    BY <1>0, <1>2
  <2>2. Before(t, u) \/ Before(u, t)
    BY <1>0, <2>1, PlanOrder
  <2>3. /\ IsFiniteSet(Taken(S, u)) /\ Cardinality(Taken(S, u)) \in Nat
        /\ IsFiniteSet(Taken(S, t)) /\ Cardinality(Taken(S, t)) \in Nat
        /\ Cardinality(Taken(S, t)) < A
    BY <1>4, <1>5
  <2>4. CASE Before(t, u)
    <3>1. Taken(R, u) = Taken(S, u) \ {t} /\ t \in Taken(S, u)
      BY <2>4
    <3>2. Cardinality(Taken(R, u)) = Cardinality(Taken(S, u)) - 1
      <4> DEFINE X == Taken(S, u)
      <4>1. IsFiniteSet(X) /\ t \in X /\ Taken(R, u) = X \ {t}
        BY <2>3, <3>1
      <4> HIDE DEF X
      <4>2. Cardinality(X \ {t}) = Cardinality(X) - 1
        BY <4>1, FS_RemoveElement
      <4>3. Cardinality(Taken(R, u)) = Cardinality(X) - 1
        BY <4>1, <4>2
      <4> QED
        BY <4>3 DEF X
    <3>3. Cardinality(Taken(R, u)) < A - 1 <=> Cardinality(Taken(S, u)) < A
      BY <1>1, <2>3, <3>2
    <3>4. (\A v \in Taken(R, u) : ~Conflicts(u, v)) <=> \A v \in Taken(S, u) : ~Conflicts(u, v)
      BY <2>1, <3>1
    <3> QED
      BY <1>4, <2>1, <3>3, <3>4
  <2>5. CASE ~Before(t, u)
    <3>1. Before(u, t) /\ Taken(R, u) = Taken(S, u)
      BY <2>2, <2>5
    <3>2. Taken(S, u) \subseteq Taken(S, t)
      BY <1>0, <2>1, <3>1, PlanOrder
    <3>3. CASE u \in S
      <4>1. u \notin Taken(S, u) /\ Taken(S, u) \cup {u} \subseteq Taken(S, t)
        BY <2>1, <3>1, <3>2, <3>3, PlanOrder
      <4>2. Cardinality(Taken(S, u) \cup {u}) = Cardinality(Taken(S, u)) + 1
        BY <2>3, <4>1, FS_AddElement
      <4>3. Cardinality(Taken(S, u) \cup {u}) <= Cardinality(Taken(S, t))
        BY <2>3, <4>1, FS_Subset
      <4>4. Cardinality(Taken(S, u)) < A - 1
        BY <1>1, <2>3, <4>2, <4>3
      <4> QED
        BY <1>4, <2>1, <3>1, <3>3, <4>4
    <3>4. CASE u \notin S
      <4>1. Cardinality(Taken(S, u)) <= Cardinality(Taken(S, t))
        BY <2>3, <3>2, FS_Subset
      <4>2. Cardinality(Taken(S, u)) < A
        BY <1>1, <2>3, <4>1
      <4> QED
        BY <1>4, <2>1, <3>1, <3>4, <4>2
    <3> QED
      BY <3>3, <3>4
  <2> QED
    BY <2>4, <2>5
<1>7. \A u : Taken(R, u) = {v \in R : Before(v, u)'}
  BY <1>2
<1>8. IsSelection(R)'
  BY <1>1, <1>6, <1>7 DEF IsSelection, Conflicts
<1> QED
  BY <1>3, <1>8

\* Reserving a task of the selection leaves the others selected: a wave of
\* reservations, taken one by one, cannot fail half way.
THEOREM WavesReserved == StateSpec => SelectionSurvivesReservation
<1>1. StateInv /\ [StateNext]_stateVars =>
        [\A t \in SelectSchedulableProjectTasks :
           task'[t].state = "starting" =>
             SelectSchedulableProjectTasks \ {t}
               \subseteq SelectSchedulableProjectTasks']_stateVars
  <2> SUFFICES ASSUME StateInv, [StateNext]_stateVars,
                      NEW t \in SelectSchedulableProjectTasks, task'[t].state = "starting",
                      NEW w \in SelectSchedulableProjectTasks \ {t}
               PROVE  w \in SelectSchedulableProjectTasks'
    OBVIOUS
  <2>0. TypeOK /\ PlanKept /\ t \in Task /\ task[t].state = "ready"
    BY DEF StateInv, SelectSchedulableProjectTasks, EligibleTasks
  <2>1. PICK c \in Caller, u \in Task : ReserveProjectTaskStart(c, u)
    <3>1. ~Steady(t)
      BY <2>0 DEF Steady, ActiveForCapacity
    <3> QED
      BY <2>0, <3>1, StepSteady
  <2>2. t = u
    BY <2>0, <2>1, ReserveEligible
  <2>3. PICK S \in SUBSET EligibleTasks : IsSelection(S) /\ t \in S
    BY DEF SelectSchedulableProjectTasks, Schedulable
  <2>4. PICK T \in SUBSET EligibleTasks : IsSelection(T) /\ w \in T
    BY DEF SelectSchedulableProjectTasks, Schedulable
  <2>5. w \in S \ {t}
    BY <2>0, <2>3, <2>4, OneSelection
  <2>6. S \ {t} \in SUBSET EligibleTasks' /\ IsSelection(S \ {t})'
    BY <2>0, <2>1, <2>2, <2>3, SelectionWithout
  <2>7. Schedulable(w)'
    BY <2>5, <2>6 DEF Schedulable
  <2> QED
    BY <2>5, <2>6, <2>7 DEF SelectSchedulableProjectTasks
<1> QED
  BY <1>1, StateInvariant, PTL DEF StateSpec, SelectionSurvivesReservation
=============================================================================

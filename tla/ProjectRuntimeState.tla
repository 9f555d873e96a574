------------------------- MODULE ProjectRuntimeState -------------------------
(***************************************************************************)
(* The state of one project of the Project Runtime: a milestone, its       *)
(* objectives and the tasks of its plan, and the transitions that          *)
(* core/project-runtime-state.ts offers on it.  Every exported transition  *)
(* takes the generation its caller believes current and either answers     *)
(* "blocked" and returns the state it was given, or returns a state one    *)
(* generation later.  An action here is one transition that was accepted   *)
(* and stored; a blocked call changes nothing and is a stutter.            *)
(*                                                                         *)
(* Generations are compared only for equality, so the model keeps, instead *)
(* of a number, the set of callers whose copy carries the current one.     *)
(***************************************************************************)
EXTENDS Naturals, Sequences, FiniteSets

CONSTANTS
  Objective,      \* the objectives of the milestone
  Task,           \* every task a plan may hold, the replacements included
  ObjectiveOf,    \* the objective of each task
  Dependencies,   \* the tasks each task depends on
  Conflict,       \* the pairs of tasks that share a conflict key or a path
  InitialPlan,    \* the tasks the state is created with, in order
  RecoveryKind,   \* the kinds of recovery obligation in play
  Caller,         \* those who hold a copy of the state
  MaxConcurrency, \* maximumConcurrency of the state
  MaxReplans,     \* maximumReplans of a replan or a retry
  MaxAttempts     \* bound: attempts ever reserved for one task

\* The tasks a sequence of them names.
Listed(p) == {p[i] : i \in DOMAIN p}

\* hasCycle: some of the tasks wait for one another in a circle.
HasCycle(tasks) ==
  \E S \in SUBSET tasks :
    /\ S # {}
    /\ \A t \in S : Dependencies[t] \cap S # {}

RecoveryKinds ==
  {"host", "docker", "candidate", "candidate_store", "runtime_process"}

\* The checks of createProjectRuntimeState on its input, and what the path
\* and key comparison of conflicts() guarantees: it is symmetric.
ASSUME StructureAssumption ==
  /\ IsFiniteSet(Task)
  /\ ObjectiveOf \in [Task -> Objective]
  /\ Dependencies \in [Task -> SUBSET Task]
  /\ Conflict \subseteq Task \X Task
  /\ \A t, u \in Task : <<t, u>> \in Conflict => <<u, t>> \in Conflict
  /\ RecoveryKind \subseteq RecoveryKinds

ASSUME PlanAssumption ==
  /\ InitialPlan \in Seq(Task)
  /\ Listed(InitialPlan) # {}
  /\ \A i, j \in DOMAIN InitialPlan : InitialPlan[i] = InitialPlan[j] => i = j
  /\ \A o \in Objective : \E t \in Listed(InitialPlan) : ObjectiveOf[t] = o
  /\ \A t \in Listed(InitialPlan) : Dependencies[t] \subseteq Listed(InitialPlan)
  /\ ~HasCycle(Listed(InitialPlan))

ASSUME BoundAssumption ==
  /\ MaxConcurrency \in 1..5
  /\ MaxReplans \in Nat
  /\ MaxAttempts \in Nat

-----------------------------------------------------------------------------
(* States, as the source enumerates them.  "absent" is a task that no plan *)
(* holds yet.                                                              *)

NotStarted == {"planned", "waiting_dependency", "ready"}
SettledStates ==
  {"cleanup_pending", "completed", "failed", "cancelled",
   "recovery_required", "superseded"}
TaskState == NotStarted \cup {"starting", "running", "absent"} \cup SettledStates
StartPhase == {"none", "reserved", "handoff_prepared", "running", "settled"}
ObligationPhase == {"required", "recovering", "settled", "acknowledged"}
ObjectiveState ==
  {"planned", "executing", "integration_pending", "accepted", "returned",
   "blocked", "cancelled"}
MilestoneState ==
  {"planned", "executing", "integrating", "human_decision_required",
   "recovery_required", "accepted", "returned", "cancelled"}

\* attemptId and operationId are numbered per task, zero being null; the
\* attempt stands for the authorityBindingId reserved with it as well.  The
\* obligations of one kind, which the code tells apart by their recoveryId,
\* are taken as one, as far as the last of them; "none" if there is none.
TaskRecord ==
  [state       : TaskState,
   phase       : StartPhase,
   attempts    : Nat,
   attempt     : Nat,
   operation   : Nat,
   cleanup     : BOOLEAN,
   obligation  : [RecoveryKind -> ObligationPhase \cup {"none"}],
   unresolved  : BOOLEAN,
   retries     : Nat]

NoObligations == [k \in RecoveryKind |-> "none"]

NewTask(s) ==
  [state |-> s, phase |-> "none", attempts |-> 0, attempt |-> 0,
   operation |-> 0, cleanup |-> FALSE, obligation |-> NoObligations,
   unresolved |-> FALSE, retries |-> 0]

VARIABLES
  milestone,   \* milestone.state
  objective,   \* objective -> its state
  evidence,    \* objectives that hold an evidence id per acceptance criterion
  decided,     \* a human decision is recorded (decisionApplicationId # null)
  plan,        \* the order of the tasks
  task,        \* task -> its record
  current      \* callers that hold the state of the current generation

projectVars == <<milestone, objective, evidence, decided, plan, task>>
stateVars == <<projectVars, current>>

TypeOK ==
  /\ milestone \in MilestoneState
  /\ objective \in [Objective -> ObjectiveState]
  /\ evidence \subseteq Objective
  /\ decided \in BOOLEAN
  /\ plan \in Seq(Task)
  /\ task \in [Task -> TaskRecord]
  /\ current \subseteq Caller

-----------------------------------------------------------------------------
(* The schedule.                                                           *)

ObligationsOf(r) == {k \in RecoveryKind : r.obligation[k] # "none"}

\* A task that counts against maximumConcurrency.
ActiveForCapacity(r) ==
  \/ r.state \in {"starting", "running", "cleanup_pending"}
  \/ r.state = "recovery_required" /\ ~r.cleanup

\* A task whose paths and keys no other task may touch.
ReservesConflict(r) ==
  \/ ActiveForCapacity(r)
  \/ /\ r.state = "recovery_required"
     /\ r.unresolved \/ ObligationsOf(r) # {}

ActiveTasks == {t \in Task : ActiveForCapacity(task[t])}
ReservingTasks == {t \in Task : ReservesConflict(task[t])}

Conflicts(t, u) == <<t, u>> \in Conflict

\* Mutant of Available: the comparison is off by one.
AvailableOneMore ==
  IF Cardinality(ActiveTasks) > MaxConcurrency
  THEN 0
  ELSE MaxConcurrency - Cardinality(ActiveTasks) + 1

Available ==
  IF Cardinality(ActiveTasks) >= MaxConcurrency
  THEN 0
  ELSE MaxConcurrency - Cardinality(ActiveTasks)

\* Mutant of EligibleTasks: a task being recovered does not keep its files.
EligibleBesideRecovery ==
  {t \in Task : /\ task[t].state = "ready"
                /\ \A u \in ActiveTasks : ~Conflicts(t, u)}

\* Ready tasks that conflict with no reservation.
EligibleTasks ==
  {t \in Task : /\ task[t].state = "ready"
                /\ \A u \in ReservingTasks : ~Conflicts(t, u)}

Before(u, t) == \E i, j \in DOMAIN plan : i < j /\ plan[i] = u /\ plan[j] = t

\* Mutant of IsSelection: the tasks taken are not compared with one another.
IsSelectionUncompared(S) ==
  \A t \in EligibleTasks :
    t \in S <=> Cardinality({u \in S : Before(u, t)}) < Available

\* selectSchedulableProjectTasks walks the plan in order and takes an eligible
\* task unless it conflicts with one already taken or the places are used up.
\* Exactly one set of eligible tasks is such a selection.
IsSelection(S) ==
  \A t \in EligibleTasks :
    t \in S <=> LET taken == {u \in S : Before(u, t)}
                IN /\ Cardinality(taken) < Available
                   /\ \A u \in taken : ~Conflicts(t, u)

Schedulable(t) == \E S \in SUBSET EligibleTasks : IsSelection(S) /\ t \in S

SelectSchedulableProjectTasks == {t \in EligibleTasks : Schedulable(t)}

-----------------------------------------------------------------------------
(* createProjectRuntimeState, and the two sides of the generation check.   *)

Init ==
  /\ milestone = "planned"
  /\ objective = [o \in Objective |-> "planned"]
  /\ evidence = {}
  /\ decided = FALSE
  /\ plan = InitialPlan
  /\ task = [t \in Task |->
               NewTask(IF t \notin Listed(InitialPlan) THEN "absent"
                       ELSE IF Dependencies[t] = {} THEN "ready"
                       ELSE "waiting_dependency")]
  /\ current = Caller

\* The caller's expectedGeneration is the generation of the state.
UpToDate(c) == c \in current

\* The stored state is one generation later: every other copy is stale.
Advance(c) == current' = {c}

\* readState: a caller takes a copy of the stored state.
ObserveState(c) ==
  /\ c \notin current
  /\ current' = current \cup {c}
  /\ UNCHANGED projectVars

ReplaceTask(t, r) == task' = [task EXCEPT ![t] = r]

-----------------------------------------------------------------------------
(* From a ready task to a running one.                                     *)

\* Mutant of ReservedTask: what was recovered before stays on the record.
ReservedTaskKeepsObligations(r) ==
  [r EXCEPT !.state = "starting", !.phase = "reserved", !.attempts = @ + 1,
            !.attempt = r.attempts + 1, !.operation = 0]

\* The record of a task whose start is reserved under a new attempt.
ReservedTask(r) ==
  [r EXCEPT !.state = "starting",
            !.phase = "reserved",
            !.attempts = @ + 1,
            !.attempt = r.attempts + 1,
            !.operation = 0,
            !.obligation = NoObligations,
            !.unresolved = FALSE]

ReserveProjectTaskStart(c, t) ==
  /\ UpToDate(c)
  /\ task[t].attempts < MaxAttempts
  /\ Schedulable(t)
  /\ ReplaceTask(t, ReservedTask(task[t]))
  /\ objective' = [objective EXCEPT ![ObjectiveOf[t]] =
                     IF @ = "planned" THEN "executing" ELSE @]
  /\ milestone' = IF milestone = "planned" THEN "executing" ELSE milestone
  /\ Advance(c)
  /\ UNCHANGED <<evidence, decided, plan>>

PrepareProjectTaskHandoff(c, t, a) ==
  /\ UpToDate(c)
  /\ task[t].state = "starting"
  /\ task[t].phase = "reserved"
  /\ task[t].attempt = a
  /\ ReplaceTask(t, [task[t] EXCEPT !.operation = a, !.phase = "handoff_prepared"])
  /\ Advance(c)
  /\ UNCHANGED <<milestone, objective, evidence, decided, plan>>

ObserveProjectTaskStarted(c, t, a) ==
  /\ UpToDate(c)
  /\ task[t].state = "starting"
  /\ task[t].phase = "handoff_prepared"
  /\ task[t].attempt = a
  /\ task[t].operation = a
  /\ ReplaceTask(t, [task[t] EXCEPT !.state = "running", !.phase = "running"])
  /\ Advance(c)
  /\ UNCHANGED <<milestone, objective, evidence, decided, plan>>

-----------------------------------------------------------------------------
(* Settling an attempt.                                                    *)

Required(kinds) ==
  [k \in RecoveryKind |-> IF k \in kinds THEN "required" ELSE "none"]

\* Recovery is declared exactly when something is left to recover.
RecoveryDeclared(outcome, kinds, unresolved) ==
  (outcome = "recovery_required") <=> (kinds # {} \/ unresolved)

\* The record of a task whose attempt is settled in state s.
SettledTask(r, s, cleanup, kinds, unresolved) ==
  [r EXCEPT !.state = s,
            !.phase = "settled",
            !.cleanup = cleanup,
            !.obligation = Required(kinds),
            !.unresolved = unresolved]

\* Tasks that waited only for completed ones become ready.
WakeDependents(tasks) ==
  [u \in Task |->
     IF /\ tasks[u].state = "waiting_dependency"
        /\ \A d \in Dependencies[u] : tasks[d].state = "completed"
     THEN [tasks[u] EXCEPT !.state = "ready"]
     ELSE tasks[u]]

\* Mutant of ObjectiveAfter: a closed objective is computed again like any other.
ObjectiveAfterReopening(o, tasks) ==
  IF \A t \in Task : ObjectiveOf[t] = o =>
       tasks[t].state \in {"completed", "superseded", "absent"}
  THEN "integration_pending"
  ELSE objective[o]

\* The state an objective takes from its tasks when one of them settles.
ObjectiveAfter(o, tasks) ==
  LET live == {t \in Task : /\ ObjectiveOf[t] = o
                            /\ tasks[t].state \notin {"superseded", "absent"}}
      Some(states) == \E t \in live : tasks[t].state \in states
  IN IF objective[o] \in {"accepted", "cancelled"} THEN objective[o]
     ELSE IF \A t \in live : tasks[t].state = "completed"
          THEN "integration_pending"
     ELSE IF Some({"cancelled"}) THEN "cancelled"
     ELSE IF Some({"failed", "recovery_required"}) THEN "blocked"
     ELSE objective[o]

MilestoneAfter(tasks) ==
  IF \E t \in Task : tasks[t].state = "recovery_required"
  THEN "recovery_required"
  ELSE IF \E t \in Task : tasks[t].state = "cancelled" THEN "cancelled"
  ELSE milestone

\* The result of an attempt whose start was observed.  The candidate of the
\* result, which only a completed outcome may name, is left out.
SettleProjectTask(c, t, a, outcome, cleanup, kinds, unresolved) ==
  /\ UpToDate(c)
  /\ task[t].state = "running"
  /\ task[t].phase = "running"
  /\ task[t].attempt = a
  /\ task[t].operation = a
  /\ outcome \in {"completed", "cancelled"} => cleanup
  /\ RecoveryDeclared(outcome, kinds, unresolved)
  /\ LET next == IF outcome = "failed" /\ ~cleanup
                 THEN "cleanup_pending" ELSE outcome
         settled == [task EXCEPT ![t] =
                       SettledTask(@, next, cleanup, kinds, unresolved)]
         woken == WakeDependents(settled)
     IN /\ task' = woken
        /\ objective' = [o \in Objective |-> ObjectiveAfter(o, woken)]
        /\ milestone' = MilestoneAfter(woken)
  /\ Advance(c)
  /\ UNCHANGED <<evidence, decided, plan>>

\* Mutant of MilestoneBeforeEffect: a failure is passed on to the milestone.
MilestoneTakesOutcome(outcome) == outcome

MilestoneBeforeEffect(outcome) ==
  IF outcome = "failed" THEN milestone ELSE outcome

\* The result of an attempt that was handed over but never seen to start.
SettleProjectTaskBeforeEffect(c, t, a, outcome, cleanup, kinds, unresolved) ==
  /\ UpToDate(c)
  /\ task[t].state = "starting"
  /\ task[t].phase = "handoff_prepared"
  /\ task[t].attempt = a
  /\ task[t].operation = a
  /\ outcome # "completed"
  /\ ~cleanup => outcome = "recovery_required"
  /\ RecoveryDeclared(outcome, kinds, unresolved)
  /\ ReplaceTask(t, SettledTask(task[t], outcome, cleanup, kinds, unresolved))
  /\ objective' = [objective EXCEPT ![ObjectiveOf[t]] =
                     IF outcome = "cancelled" THEN "cancelled" ELSE "blocked"]
  /\ milestone' = MilestoneBeforeEffect(outcome)
  /\ Advance(c)
  /\ UNCHANGED <<evidence, decided, plan>>

-----------------------------------------------------------------------------
(* Recovery of a task, obligation by obligation.                           *)

MoveObligation(t, k, from, to) ==
  /\ task[t].state = "recovery_required"
  /\ task[t].obligation[k] = from
  /\ ReplaceTask(t, [task[t] EXCEPT !.obligation[k] = to])
  /\ UNCHANGED <<milestone, objective, evidence, decided, plan>>

MarkProjectTaskRecoveryObligationRecovering(c, t, k) ==
  /\ UpToDate(c)
  /\ ~task[t].unresolved
  /\ MoveObligation(t, k, "required", "recovering")
  /\ Advance(c)

SettleProjectTaskRecoveryObligation(c, t, k) ==
  /\ UpToDate(c)
  /\ ~task[t].unresolved
  /\ MoveObligation(t, k, "recovering", "settled")
  /\ Advance(c)

AcknowledgeProjectDockerRecoveryObligation(c, t, a) ==
  /\ UpToDate(c)
  /\ "docker" \in RecoveryKind
  /\ task[t].attempt = a
  /\ task[t].operation = a
  /\ MoveObligation(t, "docker", "settled", "acknowledged")
  /\ Advance(c)

\* Every obligation is at the end of its own protocol.
Discharged(r) ==
  \A k \in ObligationsOf(r) :
    r.obligation[k] = IF k = "docker" THEN "acknowledged" ELSE "settled"

\* A task that starts over; the obligations it discharged stay with it.
ReadyAgain(r, cleanup) ==
  [r EXCEPT !.state = "ready", !.phase = "none", !.attempt = 0,
            !.operation = 0, !.cleanup = cleanup]

\* Mutant of RecoveryFinished: a settled container is not acknowledged.
RecoverySettledOnly(r) ==
  /\ r.state \in {"recovery_required", "ready"}
  /\ ~r.unresolved
  /\ ObligationsOf(r) # {}
  /\ \A k \in ObligationsOf(r) : r.obligation[k] \in {"settled", "acknowledged"}

\* A task with obligations, all of them discharged, and none still unknown.
RecoveryFinished(r) ==
  /\ r.state \in {"recovery_required", "ready"}
  /\ ~r.unresolved
  /\ ObligationsOf(r) # {}
  /\ Discharged(r)

RetrySettledProjectTaskRecoveries(c, ts) ==
  /\ UpToDate(c)
  /\ ts # {}
  /\ \A t \in ts : RecoveryFinished(task[t])
  /\ task' = [t \in Task |->
                IF t \in ts /\ task[t].state # "ready"
                THEN [ReadyAgain(task[t], TRUE) EXCEPT !.retries = @ + 1]
                ELSE task[t]]
  /\ objective' = [o \in Objective |->
                     IF \E t \in ts : ObjectiveOf[t] = o
                     THEN "executing" ELSE objective[o]]
  /\ milestone' = "executing"
  /\ Advance(c)
  /\ UNCHANGED <<evidence, decided, plan>>

\* Tasks an owner that is gone had reserved (no operation yet), and tasks it
\* had prepared for handoff or had running.
ReservedTasks ==
  {t \in Task : task[t].state \in {"starting", "running"} /\ task[t].operation = 0}
PreparedTasks ==
  {t \in Task : task[t].state \in {"starting", "running"} /\ task[t].operation # 0}

\* The operations found in the container journal are matched; the others are
\* verified to be absent from it, which a running task may not be.
RecordProjectTaskOwnerLossRecoveries(c, matched) ==
  /\ UpToDate(c)
  /\ "docker" \in RecoveryKind
  /\ ReservedTasks \cup PreparedTasks # {}
  /\ matched \subseteq PreparedTasks
  /\ \A t \in PreparedTasks : task[t].state = "running" => t \in matched
  /\ LET released == (ReservedTasks \cup PreparedTasks) \ matched
         bound == [t \in Task |->
                     IF t \in released
                     THEN [ReadyAgain(task[t], TRUE) EXCEPT
                             !.obligation = NoObligations, !.unresolved = FALSE]
                     ELSE IF t \in matched
                     THEN SettledTask(task[t], "recovery_required", FALSE,
                                      {"docker"}, FALSE)
                     ELSE task[t]]
         In(S, o) == \E t \in S : ObjectiveOf[t] = o
     IN /\ task' = bound
        /\ objective' =
             [o \in Objective |->
                IF In({t \in Task : bound[t].state = "recovery_required"}, o)
                THEN "blocked"
                ELSE IF In(ReservedTasks, o) THEN "executing"
                ELSE objective[o]]
        /\ milestone' = IF matched # {} THEN "recovery_required" ELSE "executing"
  /\ Advance(c)
  /\ UNCHANGED <<evidence, decided, plan>>

-----------------------------------------------------------------------------
(* A failed task is replaced or tried again.                               *)

TasksIn(states) == {t \in Task : task[t].state \in states}

\* A task, not yet finished, waits for the failed one.
HasLiveDependent(t) ==
  \E u \in Task \ ({t} \cup TasksIn({"completed", "cancelled", "failed",
                                     "superseded", "absent"})) :
    t \in Dependencies[u]

ApplyProjectRuntimePartialReplan(c, t, new) ==
  /\ UpToDate(c)
  /\ task[t].state = "failed"
  /\ Cardinality(TasksIn({"superseded"})) < MaxReplans
  /\ ~HasLiveDependent(t)
  /\ new # <<>>
  /\ \A i, j \in DOMAIN new : new[i] = new[j] => i = j
  /\ \A r \in Listed(new) :
       /\ task[r].state = "absent"
       /\ ObjectiveOf[r] = ObjectiveOf[t]
       /\ Dependencies[r] \subseteq TasksIn({"completed"}) \cup Listed(new)
  /\ ~HasCycle(Listed(new)
                 \cup (Task \ TasksIn({"failed", "superseded", "absent"})))
  /\ task' = [u \in Task |->
                IF u = t THEN [task[u] EXCEPT !.state = "superseded"]
                ELSE IF u \in Listed(new)
                THEN NewTask(IF Dependencies[u] \subseteq TasksIn({"completed"})
                             THEN "ready" ELSE "waiting_dependency")
                ELSE task[u]]
  /\ plan' = plan \o new
  /\ objective' = [objective EXCEPT ![ObjectiveOf[t]] = "executing"]
  /\ evidence' = evidence \ {ObjectiveOf[t]}
  /\ milestone' = "executing"
  /\ Advance(c)
  /\ UNCHANGED decided

RetryProjectRuntimeTask(c, t) ==
  /\ UpToDate(c)
  /\ task[t].state = "failed"
  /\ task[t].retries < MaxReplans
  /\ ReplaceTask(t, [ReadyAgain(task[t], FALSE) EXCEPT
                       !.obligation = NoObligations, !.unresolved = FALSE,
                       !.retries = @ + 1])
  /\ objective' = [objective EXCEPT ![ObjectiveOf[t]] = "executing"]
  /\ milestone' = "executing"
  /\ Advance(c)
  /\ UNCHANGED <<evidence, decided, plan>>

-----------------------------------------------------------------------------
(* What people decide.                                                     *)

RequestProjectRuntimeHumanDecision(c, o) ==
  /\ UpToDate(c)
  /\ objective[o] = "blocked"
  /\ milestone \notin {"accepted", "cancelled"}
  /\ milestone' = "human_decision_required"
  /\ decided' = FALSE
  /\ Advance(c)
  /\ UNCHANGED <<objective, evidence, plan, task>>

ApplyProjectRuntimeHumanDecision(c, action) ==
  /\ UpToDate(c)
  /\ milestone = "human_decision_required"
  /\ milestone' = IF action = "resume" THEN "executing" ELSE "cancelled"
  /\ decided' = TRUE
  /\ Advance(c)
  /\ UNCHANGED <<objective, evidence, plan, task>>

\* "accept" or "return" of an objective; complete: as many evidence ids as
\* acceptance criteria, which both need.  "wait" changes nothing.
ApplyObjectiveAcceptance(c, o, decision, complete) ==
  /\ UpToDate(c)
  /\ objective[o] = "integration_pending"
  /\ complete
  /\ objective' = [objective EXCEPT ![o] =
                     IF decision = "accept" THEN "accepted" ELSE "returned"]
  /\ evidence' = IF complete THEN evidence \cup {o} ELSE evidence \ {o}
  /\ milestone' = IF \A p \in Objective : objective'[p] = "accepted"
                  THEN "integrating" ELSE milestone
  /\ Advance(c)
  /\ UNCHANGED <<decided, plan, task>>

\* The same for the milestone, where only "accept" needs the evidence.
ApplyMilestoneAcceptance(c, decision, complete) ==
  /\ UpToDate(c)
  /\ milestone = "integrating"
  /\ \A o \in Objective : objective[o] = "accepted"
  /\ decision = "accept" => complete
  /\ milestone' = IF decision = "accept" THEN "accepted" ELSE "returned"
  /\ Advance(c)
  /\ UNCHANGED <<objective, evidence, decided, plan, task>>

-----------------------------------------------------------------------------
(* The state on its own: any caller, at any time, with any input.          *)

Outcomes == {"completed", "failed", "cancelled", "recovery_required"}

\* Sequences of distinct tasks that no plan holds yet.
Replacements ==
  LET spare == TasksIn({"absent"})
  IN {s \in UNION {[1..n -> spare] : n \in 1..Cardinality(spare)} :
        \A i, j \in DOMAIN s : s[i] = s[j] => i = j}

StartStep(c, t) ==
  \/ ReserveProjectTaskStart(c, t)
  \/ \E a \in 1..MaxAttempts :
       \/ PrepareProjectTaskHandoff(c, t, a)
       \/ ObserveProjectTaskStarted(c, t, a)

SettleStep(c, t) ==
  \E a \in 1..MaxAttempts, outcome \in Outcomes, cleanup, unresolved \in BOOLEAN,
     kinds \in SUBSET RecoveryKind :
    \/ SettleProjectTask(c, t, a, outcome, cleanup, kinds, unresolved)
    \/ SettleProjectTaskBeforeEffect(c, t, a, outcome, cleanup, kinds, unresolved)

RecoveryStep(c) ==
  \/ \E t \in Task, k \in RecoveryKind :
       \/ MarkProjectTaskRecoveryObligationRecovering(c, t, k)
       \/ SettleProjectTaskRecoveryObligation(c, t, k)
  \/ \E t \in Task, a \in 1..MaxAttempts :
       AcknowledgeProjectDockerRecoveryObligation(c, t, a)
  \/ \E ts \in SUBSET Task : RetrySettledProjectTaskRecoveries(c, ts)
  \/ \E m \in SUBSET Task : RecordProjectTaskOwnerLossRecoveries(c, m)

ReplanStep(c) ==
  \E t \in Task :
    \/ \E new \in Replacements : ApplyProjectRuntimePartialReplan(c, t, new)
    \/ RetryProjectRuntimeTask(c, t)

DecisionStep(c) ==
  \/ \E o \in Objective : RequestProjectRuntimeHumanDecision(c, o)
  \/ \E action \in {"resume", "cancel"} :
       ApplyProjectRuntimeHumanDecision(c, action)
  \/ \E decision \in {"accept", "return"}, complete \in BOOLEAN :
       \/ \E o \in Objective : ApplyObjectiveAcceptance(c, o, decision, complete)
       \/ ApplyMilestoneAcceptance(c, decision, complete)

StateNext ==
  \E c \in Caller :
    \/ ObserveState(c)
    \/ \E t \in Task : StartStep(c, t) \/ SettleStep(c, t)
    \/ RecoveryStep(c)
    \/ ReplanStep(c)
    \/ DecisionStep(c)

StateSpec == Init /\ [][StateNext]_stateVars

-----------------------------------------------------------------------------
(* Properties.                                                             *)

\* The durable store refuses a state whose task records are incoherent
\* (validTaskLifecycleTuple and the task part of validProjectRuntimeState);
\* a transition that produced such a state could never be stored, and the
\* owner of the operation could only give up.
ValidTaskLifecycleTuple(r) ==
  \/ r.state \in NotStarted /\ r.phase = "none" /\ r.attempt = 0 /\ r.operation = 0
  \/ r.state = "starting" /\ r.phase = "reserved" /\ r.attempt # 0 /\ r.operation = 0
  \/ r.state = "starting" /\ r.phase = "handoff_prepared"
       /\ r.attempt # 0 /\ r.operation # 0
  \/ r.state = "running" /\ r.phase = "running" /\ r.attempt # 0 /\ r.operation # 0
  \/ r.state \in SettledStates /\ r.phase = "settled"
       /\ r.attempt # 0 /\ r.operation # 0

ValidObligations(r) ==
  /\ r.state = "recovery_required" => ObligationsOf(r) # {} \/ r.unresolved
  /\ r.state # "recovery_required" => ~r.unresolved
  /\ r.state = "ready" => Discharged(r)
  /\ r.state \notin {"ready", "recovery_required"} => ObligationsOf(r) = {}

\* Every state the transitions produce is one that the store accepts.
StoreAccepts ==
  \A t \in Listed(plan) :
    ValidTaskLifecycleTuple(task[t]) /\ ValidObligations(task[t])

\* No sequence of transitions puts more tasks to work, cleanups that were
\* never confirmed included, than maximumConcurrency allows.
CapacityRespected == Cardinality(ActiveTasks) <= MaxConcurrency

\* Two tasks that share a path or a conflict key never hold their reservation
\* together, not even while one of them is only being recovered.
ConflictsExcluded ==
  \A t, u \in ReservingTasks : t # u => ~Conflicts(t, u)

\* A task leaves recovery only with every obligation discharged and nothing
\* unresolved, whichever transition takes it out.
RecoveryNotSkipped ==
  [][\A t \in Task :
       task[t].state = "recovery_required" /\ task'[t].state # "recovery_required"
         => Discharged(task[t]) /\ ~task[t].unresolved]_stateVars

\* A completed task keeps its record for good: no late result, retry, replan
\* or owner loss reopens it.
CompletedForGood ==
  [][\A t \in Task : task[t].state = "completed" => task'[t] = task[t]]_stateVars

\* The tasks of one selection are reserved one by one, the selection being
\* taken again at each: reserving one of them leaves the others selected, in
\* whichever order, so that a wave never fails half reserved.
SelectionSurvivesReservation ==
  [][\A t \in SelectSchedulableProjectTasks :
       task'[t].state = "starting" =>
         SelectSchedulableProjectTasks \ {t}
           \subseteq SelectSchedulableProjectTasks']_stateVars
=============================================================================

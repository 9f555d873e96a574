--------------------------- MODULE ProjectOperation ---------------------------
(***************************************************************************)
(* One project operation around the project state: the queue entry and the *)
(* lease of the operation, the executor that runs the tasks in waves       *)
(* (project-runtime-execution.ts), the objective application that takes up *)
(* an operation whose owner is gone and recovers its tasks                 *)
(* (project-runtime-objective-application.ts), and the replanner.  The     *)
(* process that runs them may be gone between any two durable writes; what *)
(* its tasks have started outside goes on without it.                      *)
(*                                                                         *)
(* The objective application keeps nothing between two of its writes that  *)
(* it would not read back from the stored records, so its writes are       *)
(* actions of their own and a call that ends early is resumed by the next. *)
(***************************************************************************)
EXTENDS ProjectRuntimeState

CONSTANT
  MaxFaults  \* bound: crashes, refused writes and unknown results, together

ASSUME OperationAssumption ==
  /\ Caller = {"operation", "decision"}
  /\ RecoveryKind = {"docker", "runtime_process"}
  /\ MaxFaults \in Nat
  /\ MaxAttempts > MaxFaults + MaxReplans

VARIABLES
  queue,      \* the entry of the operation in the durable queue
  lease,      \* "free", "held", or "orphaned": its holder is gone
  pc,         \* where the executor is, "idle" when it does not run
  wave,       \* tasks of the wave not settled yet
  stage,      \* how far the attempt of each of them is
  answer,     \* what it came back with
  delegated,  \* tasks of the wave handed to the single task adapter
  verdict,    \* the queue state that the wave ends in, "none" to go on
  aborted,    \* the cancellation signal of the running call
  poisoned,   \* tasks this process owes its own restart
  effects,    \* attempts whose containers may be at work
  replan,     \* the queue state a replanner has yet to write
  faults      \* faults so far

runVars == <<pc, wave, stage, answer, delegated, verdict, aborted>>
operationVars == <<stateVars, queue, lease, runVars, poisoned, effects, replan, faults>>

-----------------------------------------------------------------------------
(* The records.                                                            *)

QueueState ==
  {"queued", "leased", "running", "integration_pending", "replan_required",
   "human_decision_required", "recovery_required", "cancelled"}
ResumeCondition ==
  {"none", "exact_recovery", "exact_recovery_settled", "owner_loss",
   "owned_operation_failure", "objective_integration", "replanned"}

\* A reference to exact recoveries names them; the others stand for the
\* stable ids made for the purpose.
Recovery == Task \X RecoveryKind \X Nat
OtherReference == {<<"lease">>, <<"failure">>, <<"unresolved">>}
QueueEntry ==
  [state     : QueueState,
   owned     : BOOLEAN,
   resume    : ResumeCondition,
   reference : SUBSET (Recovery \cup OtherReference)]

\* QUEUE_TRANSITIONS, for the states in play.
QueueTransitions ==
  [queued |-> {"leased", "cancelled"},
   leased |-> {"running", "replan_required", "human_decision_required",
               "recovery_required", "cancelled"},
   running |-> {"integration_pending", "replan_required",
                "human_decision_required", "recovery_required", "cancelled"},
   integration_pending |-> {"replan_required", "human_decision_required",
                            "recovery_required", "cancelled"},
   replan_required |-> {"queued", "human_decision_required",
                        "recovery_required", "cancelled"},
   human_decision_required |-> {"replan_required", "recovery_required", "cancelled"},
   recovery_required |-> {"queued", "recovery_required", "cancelled"},
   cancelled |-> {}]

\* updateProjectOperationQueueState: the owner, once attached by the claim,
\* stays attached until the release of its lease is settled.
UpdateQueue(state, resume, reference) ==
  /\ state \in QueueTransitions[queue.state]
  /\ queue' = [state |-> state, owned |-> queue.owned \/ state = "leased",
               resume |-> resume, reference |-> reference]

\* The result of an attempt, as validSingleTaskResult lets it through, or
\* "invalid".  Cleanup is confirmed exactly when the effect is not unknown.
Answer ==
  [status  : {"completed", "blocked", "cancelled", "invalid"},
   effect  : {"no_effect", "settled", "unknown"},
   docker  : BOOLEAN,   \* it names a docker recovery
   restart : BOOLEAN]   \* processRestartRequired

Result(status, effect) ==
  [status |-> status, effect |-> effect, docker |-> FALSE, restart |-> FALSE]
NoAnswer == Result("invalid", "no_effect")

\* An attempt is reserved, prepared and handed over; its start is seen, or the
\* observation of it was refused; at the end it answers.
Stage ==
  {"none", "reserved", "prepared", "delegated", "seen", "unseen",
   "answered", "answered_seen"}

\* "recovered" is the objective application that goes on to execute; the
\* others are the executor's own.
PC ==
  {"idle", "recovered", "acquired", "leased", "select", "reserve", "run",
   "terminal", "failing", "release", "clear"}

OperationTypeOK ==
  /\ TypeOK
  /\ queue \in QueueEntry
  /\ lease \in {"free", "held", "orphaned"}
  /\ pc \in PC
  /\ wave \subseteq Task
  /\ stage \in [Task -> Stage]
  /\ answer \in [Task -> Answer]
  /\ delegated \subseteq Task
  /\ verdict \in {"none", "recovery_required", "replan_required", "cancelled"}
  /\ aborted \in BOOLEAN
  /\ poisoned \subseteq Task
  /\ effects \subseteq Task \X Nat
  /\ replan \in {"none", "queued", "human_decision_required"}
  /\ faults \in 0..MaxFaults

OperationInit ==
  /\ Init
  /\ queue = [state |-> "queued", owned |-> FALSE, resume |-> "none", reference |-> {}]
  /\ lease = "free"
  /\ pc = "idle"
  /\ wave = {}
  /\ stage = [t \in Task |-> "none"]
  /\ answer = [t \in Task |-> NoAnswer]
  /\ delegated = {}
  /\ verdict = "none"
  /\ aborted = FALSE
  /\ poisoned = {}
  /\ effects = {}
  /\ replan = "none"
  /\ faults = 0

-----------------------------------------------------------------------------
(* Faults.                                                                 *)

Fault == faults < MaxFaults /\ faults' = faults + 1
NoFault == UNCHANGED faults

\* A write is refused: the state has moved on, or the lock is taken.
Refused ==
  \/ ~UpToDate("operation") /\ NoFault
  \/ UpToDate("operation") /\ Fault

EndRun ==
  /\ pc' = "idle"
  /\ wave' = {}
  /\ stage' = [t \in Task |-> "none"]
  /\ answer' = [t \in Task |-> NoAnswer]
  /\ delegated' = {}
  /\ verdict' = "none"
  /\ aborted' = FALSE

Abort ==
  /\ pc \in {"acquired", "leased", "select", "reserve", "run"}
  /\ ~aborted
  /\ aborted' = TRUE
  /\ UNCHANGED <<stateVars, queue, lease, pc, wave, stage, answer, delegated,
                 verdict, poisoned, effects, replan, faults>>

Orphan == lease' = IF lease = "held" THEN "orphaned" ELSE lease

\* The process that executes the operation is gone; containers are not.
Crash ==
  /\ pc # "idle"
  /\ Fault
  /\ EndRun
  /\ Orphan
  /\ poisoned' = {}
  /\ UNCHANGED <<stateVars, queue, effects, replan>>

\* The process is started anew, as it must when a result demands it or when
\* the release of its lease is unknown.
Restart ==
  /\ pc = "idle"
  /\ poisoned # {} \/ lease = "held"
  /\ Orphan
  /\ poisoned' = {}
  /\ UNCHANGED <<stateVars, queue, runVars, effects, replan, faults>>

-----------------------------------------------------------------------------
(* What the objective application finds and recovers before it executes.   *)

\* An obligation keeps its identity, that of the attempt it was declared for,
\* when its task starts over; the next reservation drops it.
Recoveries(t) == {<<t, k, task[t].attempts>> : k \in ObligationsOf(task[t])}

\* recoveryApplicationId names the obligations of all tasks, whatever state
\* the task is in.
RecoveryApplication == UNION {Recoveries(t) : t \in Task}

WorkingTasks == TasksIn({"starting", "running"})

OwnerLost == queue.state = "recovery_required" /\ queue.resume = "owner_loss"

\* The owner is gone, or it has released the lease and not cleared the entry,
\* which it may still be about to do.
ReconcileOwnerLoss ==
  /\ pc \in {"idle", "clear"}
  /\ queue.owned
  /\ lease \in {"orphaned", "free"}
  /\ queue' = IF lease = "orphaned" \/ queue.state \in {"leased", "running"}
              THEN [state |-> "recovery_required", owned |-> FALSE,
                    resume |-> "owner_loss", reference |-> {<<"lease">>}]
              ELSE [queue EXCEPT !.owned = FALSE]
  /\ lease' = "free"
  /\ UNCHANGED <<stateVars, runVars, poisoned, effects, replan, faults>>

\* Mutant of ReconcileUnboundAcquisition: it waits for a claim to undo.
ReconcileClaimedAcquisition ==
  /\ pc = "idle"
  /\ ~queue.owned
  /\ lease = "orphaned"
  /\ queue.state \in {"leased", "running"}
  /\ queue' = [queue EXCEPT !.reference = {<<"lease">>}]
  /\ lease' = "free"
  /\ UNCHANGED <<stateVars, runVars, poisoned, effects, replan, faults>>

\* The owner is gone before it was entered in the queue.
ReconcileUnboundAcquisition ==
  /\ pc = "idle"
  /\ ~queue.owned
  /\ lease = "orphaned"
  /\ queue.state = "queued"
  /\ queue' = [queue EXCEPT !.reference = {<<"lease">>}]
  /\ lease' = "free"
  /\ UNCHANGED <<stateVars, runVars, poisoned, effects, replan, faults>>

Idle == pc = "idle" /\ ~queue.owned /\ lease = "free"

\* Mutant of BindOwnerLoss: what was prepared counts as never started.
BindOwnerLossUnasked ==
  /\ Idle
  /\ OwnerLost
  /\ RecoveryApplication = {}
  /\ \E matched \in SUBSET PreparedTasks :
       RecordProjectTaskOwnerLossRecoveries("operation", matched)
  /\ UNCHANGED <<queue, lease, runVars, poisoned, effects, replan, faults>>

\* The container journal knows the attempts that may be at work, and may know
\* others that it has settled.
BindOwnerLoss ==
  /\ Idle
  /\ OwnerLost
  /\ RecoveryApplication = {}
  /\ \E matched \in SUBSET PreparedTasks :
       /\ {t \in PreparedTasks : <<t, task[t].attempt>> \in effects} \subseteq matched
       /\ RecordProjectTaskOwnerLossRecoveries("operation", matched)
  /\ UNCHANGED <<queue, lease, runVars, poisoned, effects, replan, faults>>

ReopenQueue ==
  /\ Idle
  /\ OwnerLost
  /\ RecoveryApplication = {}
  /\ WorkingTasks = {}
  /\ UpdateQueue("queued", "none", {})
  /\ UNCHANGED <<stateVars, lease, runVars, poisoned, effects, replan, faults>>

\* Mutant of RebindQueue: the entry keeps naming the lost lease.
RebindToLease ==
  /\ Idle
  /\ OwnerLost
  /\ RecoveryApplication # {}
  /\ UpdateQueue("recovery_required", "exact_recovery", queue.reference)
  /\ UNCHANGED <<stateVars, lease, runVars, poisoned, effects, replan, faults>>

RebindQueue ==
  /\ Idle
  /\ OwnerLost
  /\ RecoveryApplication # {}
  /\ UpdateQueue("recovery_required", "exact_recovery", RecoveryApplication)
  /\ UNCHANGED <<stateVars, lease, runVars, poisoned, effects, replan, faults>>

\* The part of a call that recovers: nothing is unresolved and the entry names
\* exactly the recoveries that the tasks carry.
RecoveryEntered ==
  /\ Idle
  /\ queue.state = "recovery_required" \/ queue.resume = "exact_recovery_settled"
  /\ \A t \in TasksIn({"recovery_required"}) : ~task[t].unresolved
  /\ RecoveryApplication # {}
  /\ queue.reference = RecoveryApplication

Unsettled == {"required", "recovering"}

AllSettled ==
  \A t \in Task : \A k \in ObligationsOf(task[t]) : task[t].obligation[k] \notin Unsettled

\* Obligations are taken in the order of the plan, the container of a task
\* before its process.
FirstUnsettled(t, k) ==
  /\ k = "runtime_process" => task[t].obligation["docker"] \notin Unsettled
  /\ \A u \in Task : Before(u, t) =>
       \A j \in ObligationsOf(task[u]) : task[u].obligation[j] \notin Unsettled

\* The loop over the docker obligations asks for the attempt of their task.
Acknowledged(t) ==
  task[t].obligation["docker"] # "none" =>
    task[t].obligation["docker"] = "acknowledged" /\ task[t].attempt # 0
AllAcknowledged == \A t \in Task : Acknowledged(t)

MarkRecovering(t, k) ==
  /\ RecoveryEntered
  /\ queue.state = "recovery_required"
  /\ FirstUnsettled(t, k)
  /\ MarkProjectTaskRecoveryObligationRecovering("operation", t, k)
  /\ UNCHANGED <<queue, lease, runVars, poisoned, effects, replan, faults>>

\* recover(): the container of the attempt and what it left are gone.
RecoverDocker(t) ==
  /\ RecoveryEntered
  /\ queue.state = "recovery_required"
  /\ task[t].obligation["docker"] = "recovering"
  /\ effects' = effects \ {<<t, task[t].attempt>>}
  /\ effects' # effects
  /\ UNCHANGED <<stateVars, queue, lease, runVars, poisoned, replan, faults>>

\* Mutant of SettleObligation: nobody looks whether the container is gone.
SettleUnrecovered(t, k) ==
  /\ RecoveryEntered
  /\ queue.state = "recovery_required"
  /\ k = "runtime_process" => t \notin poisoned
  /\ SettleProjectTaskRecoveryObligation("operation", t, k)
  /\ UNCHANGED <<queue, lease, runVars, poisoned, effects, replan, faults>>

\* A container is settled when it is seen gone, a process when this is another.
SettleObligation(t, k) ==
  /\ RecoveryEntered
  /\ queue.state = "recovery_required"
  /\ IF k = "docker" THEN <<t, task[t].attempt>> \notin effects ELSE t \notin poisoned
  /\ SettleProjectTaskRecoveryObligation("operation", t, k)
  /\ UNCHANGED <<queue, lease, runVars, poisoned, effects, replan, faults>>

\* Mutant of AcknowledgeDocker: the state is written whatever its generation.
AcknowledgeUnconditionally(t) ==
  /\ RecoveryEntered
  /\ queue.state = "recovery_required" => AllSettled
  /\ \A u \in Task : Before(u, t) => Acknowledged(u)
  /\ task[t].attempt # 0
  /\ MoveObligation(t, "docker", "settled", "acknowledged")
  /\ UNCHANGED <<current, queue, lease, runVars, poisoned, effects, replan, faults>>

AcknowledgeDocker(t) ==
  /\ RecoveryEntered
  /\ queue.state = "recovery_required" => AllSettled
  /\ \A u \in Task : Before(u, t) => Acknowledged(u)
  /\ task[t].attempt # 0
  /\ AcknowledgeProjectDockerRecoveryObligation("operation", t, task[t].attempt)
  /\ UNCHANGED <<queue, lease, runVars, poisoned, effects, replan, faults>>

\* settleProjectOperationQueueRecovery
SettleQueueRecovery ==
  /\ RecoveryEntered
  /\ AllSettled
  /\ AllAcknowledged
  /\ queue.state = "recovery_required"
  /\ queue.resume = "exact_recovery"
  /\ queue' = [queue EXCEPT !.state = "queued", !.resume = "exact_recovery_settled"]
  /\ UNCHANGED <<stateVars, lease, runVars, poisoned, effects, replan, faults>>

RetryableTasks ==
  {t \in TasksIn({"recovery_required"}) : RecoveryFinished(task[t])}

\* The call goes on to execute, with what it recovered to be tried again.
RetrySettled ==
  /\ RecoveryEntered
  /\ queue.state = "queued"
  /\ AllAcknowledged
  /\ IF RetryableTasks = {}
     THEN UNCHANGED stateVars
     ELSE RetrySettledProjectTaskRecoveries("operation", RetryableTasks)
  /\ pc' = "recovered"
  /\ UNCHANGED <<queue, lease, wave, stage, answer, delegated, verdict, aborted,
                 poisoned, effects, replan, faults>>

-----------------------------------------------------------------------------
(* The executor: from the lease to the running operation.                  *)

KeepRun == UNCHANGED <<wave, stage, answer, delegated, verdict, aborted>>

\* The state is read before the lease is taken.
Acquire ==
  /\ \/ Idle /\ queue.resume # "exact_recovery_settled"
     \/ pc = "recovered" /\ lease = "free"
  /\ queue.state = "queued"
  /\ lease' = "held"
  /\ current' = current \cup {"operation"}
  /\ pc' = "acquired"
  /\ KeepRun
  /\ UNCHANGED <<projectVars, queue, poisoned, effects, replan, faults>>

\* The selection finds another operation, or the entry cannot be claimed.  The
\* release may not be certain; the lease then stays with the process.
YieldPriority ==
  /\ pc \in {"recovered", "acquired"}
  /\ Fault
  /\ lease' \in {"free", lease}
  /\ EndRun
  /\ UNCHANGED <<stateVars, queue, poisoned, effects, replan>>

Claim ==
  /\ pc = "acquired"
  /\ UpdateQueue("leased", "none", {})
  /\ pc' = "leased"
  /\ KeepRun
  /\ UNCHANGED <<stateVars, lease, poisoned, effects, replan, faults>>

CancelBeforeRunning ==
  /\ pc = "leased"
  /\ aborted
  /\ UpdateQueue("cancelled", "none", {})
  /\ pc' = "release"
  /\ KeepRun
  /\ UNCHANGED <<stateVars, lease, poisoned, effects, replan, faults>>

StartRunning ==
  /\ pc = "leased"
  /\ ~aborted
  /\ UpdateQueue("running", "none", {})
  /\ pc' = "select"
  /\ KeepRun
  /\ UNCHANGED <<stateVars, lease, poisoned, effects, replan, faults>>

-----------------------------------------------------------------------------
(* The executor: one wave.                                                 *)

PlanCompleted == \A t \in Listed(plan) : task[t].state = "completed"

SelectWave ==
  /\ pc = "select"
  /\ SelectSchedulableProjectTasks # {}
  /\ wave' = SelectSchedulableProjectTasks
  /\ stage' = [t \in Task |-> "none"]
  /\ answer' = [t \in Task |-> NoAnswer]
  /\ delegated' = {}
  /\ pc' = "reserve"
  /\ UNCHANGED <<stateVars, queue, lease, verdict, aborted, poisoned, effects,
                 replan, faults>>

\* Mutants of FinishTasks: the plan is over when nothing is at work; a plan
\* that cannot be completed is waited for.
FinishWhenQuiet ==
  /\ pc = "select"
  /\ SelectSchedulableProjectTasks = {}
  /\ UpdateQueue("integration_pending", "objective_integration", {})
  /\ pc' = "release"
  /\ KeepRun
  /\ UNCHANGED <<stateVars, lease, poisoned, effects, replan, faults>>
FinishCompletedOnly ==
  /\ pc = "select"
  /\ SelectSchedulableProjectTasks = {}
  /\ PlanCompleted
  /\ UpdateQueue("integration_pending", "objective_integration", {})
  /\ pc' = "release"
  /\ KeepRun
  /\ UNCHANGED <<stateVars, lease, poisoned, effects, replan, faults>>

\* Nothing is left to start: the objectives are to be integrated if the whole
\* plan is completed.
FinishTasks ==
  /\ pc = "select"
  /\ SelectSchedulableProjectTasks = {}
  /\ IF PlanCompleted
     THEN /\ UpdateQueue("integration_pending", "objective_integration", {})
          /\ pc' = "release"
     ELSE pc' = "failing" /\ UNCHANGED queue
  /\ KeepRun
  /\ UNCHANGED <<stateVars, lease, poisoned, effects, replan, faults>>

FirstOf(t, S) == t \in S /\ \A u \in S : ~Before(u, t)
InStage(s) == {t \in wave : stage[t] = s}

ReserveNext(t) ==
  /\ pc = "reserve"
  /\ InStage("reserved") = {}
  /\ FirstOf(t, InStage("none"))
  /\ ReserveProjectTaskStart("operation", t)
  /\ stage' = [stage EXCEPT ![t] = "reserved"]
  /\ UNCHANGED <<queue, lease, pc, wave, answer, delegated, verdict, aborted,
                 poisoned, effects, replan, faults>>

PrepareNext(t) ==
  /\ pc = "reserve"
  /\ stage[t] = "reserved"
  /\ PrepareProjectTaskHandoff("operation", t, task[t].attempt)
  /\ stage' = [stage EXCEPT ![t] = "prepared"]
  /\ pc' = IF InStage("none") = {} THEN "run" ELSE "reserve"
  /\ UNCHANGED <<queue, lease, wave, answer, delegated, verdict, aborted,
                 poisoned, effects, replan, faults>>

\* The attempts are begun one after the other before any of them is awaited.
Beginning(t) == pc = "run" /\ FirstOf(t, InStage("prepared"))
Awaiting == pc = "run" /\ InStage("prepared") = {}

AnswerWith(t, a) ==
  /\ stage' = [stage EXCEPT ![t] = IF @ = "seen" THEN "answered_seen" ELSE "answered"]
  /\ answer' = [answer EXCEPT ![t] = a]
  /\ UNCHANGED <<stateVars, queue, lease, pc, wave, verdict, aborted, poisoned,
                 replan>>

\* Cancelled before an authority is issued, or before the issued one is used.
CancelBeforeAuthority(t) ==
  /\ Beginning(t)
  /\ aborted
  /\ AnswerWith(t, Result("cancelled", "no_effect"))
  /\ UNCHANGED <<delegated, effects, faults>>

\* The authority is refused, or asking for it throws.
AuthorizationRefused(t) ==
  /\ Beginning(t)
  /\ Fault
  /\ \/ AnswerWith(t, Result("blocked", "no_effect"))
     \/ AnswerWith(t, NoAnswer)
  /\ UNCHANGED <<delegated, effects>>

\* Cancelled, and the issued authority cannot be taken back.
RevocationUnknown(t) ==
  /\ Beginning(t)
  /\ aborted
  /\ Fault
  /\ AnswerWith(t, [Result("blocked", "unknown") EXCEPT !.restart = TRUE])
  /\ UNCHANGED <<delegated, effects>>

\* The attempt is handed to the single task adapter, which starts it or not.
Delegate(t) ==
  /\ Beginning(t)
  /\ stage' = [stage EXCEPT ![t] = "delegated"]
  /\ delegated' = delegated \cup {t}
  /\ \/ effects' = effects \cup {<<t, task[t].attempt>>} /\ NoFault
     \/ UNCHANGED effects /\ Fault
  /\ UNCHANGED <<stateVars, queue, lease, pc, wave, answer, verdict, aborted,
                 poisoned, replan>>

Attempting(t) == <<t, task[t].attempt>> \in effects

\* observeStarted: the start becomes durable, or the observation is refused.
ObserveStarted(t) ==
  /\ Awaiting
  /\ stage[t] = "delegated"
  /\ Attempting(t)
  /\ \/ /\ ObserveProjectTaskStarted("operation", t, task[t].attempt)
        /\ stage' = [stage EXCEPT ![t] = "seen"]
        /\ NoFault
     \/ /\ Refused
        /\ stage' = [stage EXCEPT ![t] = "unseen"]
        /\ UNCHANGED stateVars
  /\ UNCHANGED <<queue, lease, pc, wave, answer, delegated, verdict, aborted,
                 poisoned, effects, replan>>

\* The adapter rejects the attempt without an effect.
RejectStart(t) ==
  /\ Awaiting
  /\ stage[t] = "delegated"
  /\ ~Attempting(t)
  /\ \E restart \in BOOLEAN :
       AnswerWith(t, [Result("blocked", "no_effect") EXCEPT !.restart = restart])
  /\ UNCHANGED <<delegated, effects, faults>>

\* The attempt comes to an end and everything it used is settled, though the
\* process may have to be started anew.
AnswerSettled(t) ==
  /\ Awaiting
  /\ stage[t] \in {"seen", "unseen"}
  /\ \/ /\ NoFault
        /\ \E status \in {"completed", "blocked", "cancelled"} :
             /\ status = "cancelled" => aborted
             /\ AnswerWith(t, Result(status, "settled"))
     \/ /\ Fault
        /\ AnswerWith(t, [Result("blocked", "settled") EXCEPT !.restart = TRUE])
  /\ effects' = effects \ {<<t, task[t].attempt>>}
  /\ UNCHANGED delegated

\* What the attempt left behind, if it began at all, is not known.
AnswerUnknown(t) ==
  /\ Awaiting
  /\ stage[t] \in {"delegated", "seen", "unseen"}
  /\ IF Attempting(t) THEN Fault ELSE NoFault
  /\ \/ AnswerWith(t, NoAnswer)
     \/ \E docker \in BOOLEAN :
          AnswerWith(t, [Result("blocked", "unknown") EXCEPT !.docker = docker])
  /\ UNCHANGED <<delegated, effects>>

\* What the executor makes of an answer, the start having been seen or not.
Seen(t) == stage[t] = "answered_seen"
Valid(t) == answer[t].status # "invalid"
EffectUnknown(t) == ~Valid(t) \/ answer[t].effect = "unknown"
ContradictsStart(t) == Seen(t) /\ (~Valid(t) \/ answer[t].effect # "settled")
DelegatedUnknown(t) == t \in delegated /\ ~Seen(t) /\ EffectUnknown(t)
DiscardProcess(t) ==
  ContradictsStart(t) \/ DelegatedUnknown(t) \/ answer[t].restart

RecoveryNeeded(t) ==
  \/ ContradictsStart(t)
  \/ DelegatedUnknown(t)
  \/ /\ Valid(t)
     /\ answer[t].effect = "unknown" \/ answer[t].restart \/ answer[t].docker

ObligationsNeeded(t) ==
  IF ~RecoveryNeeded(t) THEN {}
  ELSE {k \in RecoveryKind : IF k = "docker" THEN answer[t].docker ELSE DiscardProcess(t)}

RecoveryUnresolved(t) ==
  /\ RecoveryNeeded(t)
  /\ \/ ContradictsStart(t) /\ ~answer[t].docker
     \/ DelegatedUnknown(t) /\ ~answer[t].docker
     \/ ObligationsNeeded(t) = {}

\* Mutant of SettledOutcome: the status of the result is stored as it came.
SettledOutcomeRaw(t) ==
  IF RecoveryNeeded(t) THEN "recovery_required" ELSE answer[t].status

SettledOutcome(t) ==
  IF RecoveryNeeded(t) THEN "recovery_required"
  ELSE IF answer[t].status \in {"completed", "cancelled"} THEN answer[t].status
  ELSE "failed"

CleanupConfirmed(t) ==
  IF ~Seen(t) /\ ~Valid(t)
  THEN t \notin delegated
  ELSE ~ContradictsStart(t) /\ ~DelegatedUnknown(t) /\ ~answer[t].restart
         /\ ~EffectUnknown(t)

\* The attempts are settled in order when the last of them has answered.  One
\* that completed without being seen to start is left unresolved.
AllAnswered ==
  pc = "run" /\ wave # {} /\ \A t \in wave : stage[t] \in {"answered", "answered_seen"}

SettleNext(t) ==
  /\ AllAnswered
  /\ FirstOf(t, wave)
  /\ LET n == task[t].attempt
         outcome == SettledOutcome(t)
     IN IF Seen(t)
        THEN SettleProjectTask("operation", t, n, outcome, CleanupConfirmed(t),
                               ObligationsNeeded(t), RecoveryUnresolved(t))
        ELSE IF outcome = "completed"
        THEN SettleProjectTaskBeforeEffect("operation", t, n, "recovery_required",
                                           FALSE, {}, TRUE)
        ELSE SettleProjectTaskBeforeEffect("operation", t, n, outcome,
                                           CleanupConfirmed(t),
                                           ObligationsNeeded(t), RecoveryUnresolved(t))
  /\ verdict' = IF RecoveryNeeded(t) THEN "recovery_required"
                ELSE IF verdict # "none" THEN verdict
                ELSE IF answer[t].status = "completed" THEN "none"
                ELSE IF answer[t].status = "cancelled" THEN "cancelled"
                ELSE "replan_required"
  /\ poisoned' = IF DiscardProcess(t) THEN poisoned \cup {t} ELSE poisoned
  /\ wave' = wave \ {t}
  /\ pc' = IF wave' # {} THEN "run" ELSE IF verdict' = "none" THEN "select" ELSE "terminal"
  /\ UNCHANGED <<queue, lease, stage, answer, delegated, aborted, effects, replan,
                 faults>>

-----------------------------------------------------------------------------
(* The executor: the end of the run.                                       *)

\* The reference names the recoveries of the tasks in recovery only.
RecoveryReference ==
  LET exact == UNION {Recoveries(t) : t \in TasksIn({"recovery_required"})}
  IN IF exact = {} THEN {<<"unresolved">>} ELSE exact

EndInVerdict ==
  /\ pc = "terminal"
  /\ IF verdict = "recovery_required"
     THEN UpdateQueue(verdict, "exact_recovery", RecoveryReference)
     ELSE UpdateQueue(verdict, "none", {})
  /\ pc' = "release"
  /\ KeepRun
  /\ UNCHANGED <<stateVars, lease, poisoned, effects, replan, faults>>

\* A write that is due is refused.
WriteRefused ==
  /\ \/ pc \in {"leased", "terminal"} /\ Fault
     \/ pc = "select" /\ SelectSchedulableProjectTasks = {} /\ PlanCompleted /\ Fault
     \/ pc = "reserve" /\ Refused
     \/ AllAnswered /\ Refused
  /\ pc' = "failing"
  /\ KeepRun
  /\ UNCHANGED <<stateVars, queue, lease, poisoned, effects, replan>>

\* finalizeOwnedFailure; when that write is refused as well the lease is given
\* back, if it can be, and the entry stays with its owner.
FinalizeOwnedFailure ==
  /\ pc = "failing"
  /\ \/ /\ UpdateQueue("recovery_required", "owned_operation_failure", {<<"failure">>})
        /\ pc' = "release"
        /\ KeepRun
        /\ NoFault
        /\ UNCHANGED lease
     \/ /\ Fault
        /\ lease' \in {"free", lease}
        /\ EndRun
        /\ UNCHANGED queue
  /\ UNCHANGED <<stateVars, poisoned, effects, replan>>

\* A release that is not certain keeps the lease until the process is gone.
Release ==
  /\ pc = "release"
  /\ \/ lease' = "free" /\ pc' = "clear" /\ KeepRun /\ NoFault
     \/ UNCHANGED lease /\ EndRun /\ Fault
  /\ UNCHANGED <<stateVars, queue, poisoned, effects, replan>>

\* settleProjectOperationQueueLeaseRelease
ClearOwner ==
  /\ pc = "clear"
  /\ \/ queue' = [queue EXCEPT !.owned = FALSE] /\ NoFault
     \/ UNCHANGED queue /\ Fault
  /\ EndRun
  /\ UNCHANGED <<stateVars, lease, poisoned, effects, replan>>

-----------------------------------------------------------------------------
(* The replanner and the acceptance of objectives.                         *)

FirstFailed(t) == FirstOf(t, TasksIn({"failed"}))

\* A replanner writes the project state first, for an entry nobody owns.
ReplanState ==
  /\ replan = "none"
  /\ queue.state = "replan_required"
  /\ ~queue.owned
  /\ TasksIn({"failed"}) # {}
  /\ \/ /\ \E t \in Task :
             \/ FirstFailed(t) /\ RetryProjectRuntimeTask("decision", t)
             \/ \E new \in Replacements :
                  ApplyProjectRuntimePartialReplan("decision", t, new)
        /\ replan' = "queued"
     \/ /\ \E o \in Objective : RequestProjectRuntimeHumanDecision("decision", o)
        /\ replan' = "human_decision_required"
  /\ UNCHANGED <<queue, lease, runVars, poisoned, effects, faults>>

ReplanQueue ==
  /\ replan # "none"
  /\ UpdateQueue(replan, "replanned", {})
  /\ replan' = "none"
  /\ UNCHANGED <<stateVars, lease, runVars, poisoned, effects, faults>>

\* The replanner is gone, or its second write is refused.
ReplanCrash ==
  /\ replan # "none"
  /\ Fault
  /\ replan' = "none"
  /\ UNCHANGED <<stateVars, queue, lease, runVars, poisoned, effects>>

\* applyProjectRuntimeAcceptanceDecision does not look at the queue.
Accept ==
  /\ \E decision \in {"accept", "return"} :
       \/ \E o \in Objective : ApplyObjectiveAcceptance("decision", o, decision, TRUE)
       \/ ApplyMilestoneAcceptance("decision", decision, TRUE)
  /\ UNCHANGED <<queue, lease, runVars, poisoned, effects, replan, faults>>

\* The objective application reads the state at each call; the executor works
\* with the copy that it took before the lease.
ReadState(c) ==
  /\ c = "operation" => pc = "idle"
  /\ ObserveState(c)
  /\ UNCHANGED <<queue, lease, runVars, poisoned, effects, replan, faults>>

-----------------------------------------------------------------------------
(* The operation.                                                          *)

\* A call of the objective application, up to the execution it ends in.
ApplicationStep ==
  \/ ReconcileOwnerLoss
  \/ ReconcileUnboundAcquisition
  \/ BindOwnerLoss
  \/ ReopenQueue
  \/ RebindQueue
  \/ \E t \in Task, k \in RecoveryKind : MarkRecovering(t, k) \/ SettleObligation(t, k)
  \/ \E t \in Task : RecoverDocker(t) \/ AcknowledgeDocker(t)
  \/ SettleQueueRecovery
  \/ RetrySettled
  \/ Acquire
  \/ ReadState("operation")

AttemptStep(t) ==
  \/ CancelBeforeAuthority(t)
  \/ AuthorizationRefused(t)
  \/ RevocationUnknown(t)
  \/ Delegate(t)
  \/ ObserveStarted(t)
  \/ RejectStart(t)
  \/ AnswerSettled(t)
  \/ AnswerUnknown(t)

ExecutorStep ==
  \/ YieldPriority
  \/ Claim
  \/ CancelBeforeRunning
  \/ StartRunning
  \/ SelectWave
  \/ FinishTasks
  \/ \E t \in wave : ReserveNext(t) \/ PrepareNext(t) \/ AttemptStep(t) \/ SettleNext(t)
  \/ EndInVerdict
  \/ WriteRefused
  \/ FinalizeOwnedFailure
  \/ Release
  \/ ClearOwner

ReplannerStep == ReplanState \/ ReplanQueue \/ ReplanCrash

OperationNext ==
  \/ ApplicationStep
  \/ ExecutorStep
  \/ ReplannerStep
  \/ Abort
  \/ Crash
  \/ Restart
  \/ Accept
  \/ ReadState("decision")

OperationSpec == OperationInit /\ [][OperationNext]_operationVars

\* A run goes on, its attempts answer, the request is made again as long as
\* there is something to do, and a process that must end does.
FairOperationSpec ==
  /\ OperationSpec
  /\ WF_operationVars(ExecutorStep)
  /\ WF_operationVars(ApplicationStep)
  /\ WF_operationVars(Restart)

-----------------------------------------------------------------------------
(* Properties.                                                             *)

\* Whatever may be at work outside is on record, through crashes, refused
\* writes, unknown answers and every way of recovering from them: the task
\* carries the very attempt and has not been put back or settled meanwhile
\* (INV-DURABLE-BEFORE-TASK-EFFECT, INV-UNKNOWN-PRESERVES-RECOVERY).
EffectsAreRecorded ==
  \A e \in effects :
    /\ task[e[1]].attempt = e[2]
    /\ task[e[1]].state \in {"starting", "running", "recovery_required"}
    /\ task[e[1]].obligation["docker"] \notin {"settled", "acknowledged"}

\* Two attempts at work at once, one of them perhaps left over by an owner that
\* is gone, are of different tasks that share no file, within the limit.
EffectsExcluded ==
  /\ \A e, f \in effects : e # f => e[1] # f[1] /\ ~Conflicts(e[1], f[1])
  /\ Cardinality(effects) <= MaxConcurrency

\* Whatever the queue, the lease and the process go through, the project state
\* changes by its own transitions only.
KeepsStateTransitions == StateSpec

\* A run comes to its end.
RunEnds == (pc # "idle") ~> (pc = "idle")

\* An operation whose recoveries are all known is taken up again.
Recoverable ==
  /\ \/ queue.state = "recovery_required" /\ queue.resume \in {"owner_loss", "exact_recovery"}
     \/ queue.state = "queued" /\ queue.resume = "exact_recovery_settled"
  /\ \A t \in Task : ~task[t].unresolved
RecoveryResumes == Recoverable ~> ~Recoverable
=============================================================================

# CRDD Project Runtime in TLA+

A verification development for the part of this repository that runs projects: the *Project Runtime*
(`src/40_Develop/project-runtime`), the durable store it stands on
(`src/40_Develop/coordinator/src/security/project-runtime-durable-foundation.ts`), and the parts of the
coordinator that put an end to what a lost process has left: the recovery journal of Docker resources, the
restart of the engine and the kernel locks.

Below, PRS is `project-runtime/src/core/project-runtime-state.ts`; execution.ts, objective-application.ts,
replanning.ts and so on are the files of `project-runtime/src/application` with their prefix
`project-runtime-` dropped; DF is `project-runtime-durable-foundation.ts` and DR is
`docker-recovery-runtime-internal.ts`, both in `coordinator/src/security`.

## 1. The system

CRDD lets a person hand an *objective* to AI providers. The Project Runtime turns it into a project: a
milestone, its objectives and a plan of tasks. It runs the tasks in containers, several at a time, records
every step in files before it acts, recovers what a lost process left behind, and asks people to accept the
result.

| Component | State it keeps | Operations | What makes it correct |
|---|---|---|---|
| Project state (PRS) | milestone, objectives, tasks; one generation per change | create, select, reserve, prepare, observe start, settle, recover, retry, replan, decide, accept | limit and conflicts respected, dependencies first, recovery never skipped, acceptance after the work |
| State store (DF) | one file per generation | compare-and-set write, read | only coherent states, no lost update |
| Queue (DF) | one entry per operation: state, owner, resume condition, reference | enqueue, select, update, settle recovery, settle release | transitions, owner = holder of a live lease |
| Lease (DF) | lock directory, three markers, evidence files | acquire, release, inspect, reconcile | one owner per repository binding, recoverable after a crash anywhere |
| Executor (execution.ts) | copy of the state, wave, attempts | run an operation | no effect off the record, always ends, releases |
| Single task adapter (coordinator) | one attempt | start, observe, cancel, complete | an answer never claims more than was seen |
| Objective application (objective-application.ts) | nothing durable of its own | reconcile, recover, retry, execute | finds its way from every durable state |
| Replanning (replanning.ts) | – | retry or replace a failed task, or ask a person | state and queue agree |
| Acceptance and human decision (acceptance-decision.ts, human-decision.ts) | decision records, intents, capabilities | issue, replace, submit, recover, invalidate; accept | applied before it is called final, with the current capability, to the state decided about |
| Integration (integration.ts and its adapter) | records, adoption lease, transaction directory | integrate, adopt, roll back | a receipt means the whole candidate, nothing put aside is lost |
| Docker recovery (DR and around it) | journal of a task, home pointer, host directory and marker | run, recover, recover the host | nothing is called gone that may still come to exist |
| Docker restart (docker-restart-execution.ts) | the phases on record | stop, start, resume | what is unknown is cut, under nobody's feet |
| Kernel locks (candidate-store-kernel-lock.ts …) | a pipe of the kernel, a supervisor process or a worker thread | acquire, confirm, release | held while relied on, given back whatever is lost |
| Providers, grants, trust, checker, coverage, version control, MCP, CROS … | mostly none | validation, parsing, transport | pure functions and I/O |

How they interact: a client calls the objective application. It reads the state, reconciles a lost owner
through the lease port, recovers, and calls the executor. The executor takes the lease, claims the queue
entry, and writes the project state before and after each thing it asks of the single task adapter, which
calls back when a task has really started. The acceptance decision and the replanner write the same project
state *without* the lease; only the generation check keeps them apart. Everything is durable in files, so
that any process may be lost between any two writes, while the containers it has started go on.

The hard parts are therefore: crashes between two writes, callbacks and answers that contradict each other,
stale copies, writers without a lease, recovery that is itself interrupted, and the bookkeeping of
capacity, file conflicts and dependencies over long histories of retries and replans. `PROJECT.json` lists
them one by one under `hazards`; those without a property say why.

## 2. Modules

| Module | What it is |
|---|---|
| `ProjectRuntimeState` | PRS: every exported transition as an action |
| `TaskSchedule` | abstract: a scheduler with places, files and dependencies |
| `StagedAcceptance` | abstract: tasks, then objectives, then the milestone |
| `ProjectRuntimeContract` | the refinement mappings from the project state to these two |
| `ProjectRuntimeStateProofs` | the theorems about the project state |
| `ProjectRuntimeContractProofs` | what the store accepts, waves, and the two refinements, proved |
| `ProjectOperation` | executor, objective application, replanner, queue entry and lease around the project state |
| `ProjectOperationProofs` | the theorems about it, among them that it implements the project state |
| `ProjectRuntimeLease` | the lease of the durable foundation, file by file, among several processes |
| `ProjectRuntimeLeaseProofs` | the theorems about it |
| `ProjectDecision` | decisions of people: human decision and acceptance, with the writes of each |
| `ProjectDecisionProofs` | the theorems about decisions |
| `ProjectIntegration` | integration and adoption of a candidate into the tree, file by file |
| `ProjectIntegrationProofs` | the theorems about integration |
| `DockerRecovery` | a task with its journal, the recovery of it, the restart of the engine |
| `DockerRecoveryProofs` | the theorems about recovery |
| `HostOperationLock` | the named pipe of a host operation, its supervisor process and worker threads |
| `HostOperationLockProofs` | the theorems about it |
| `MC…` | instances of these for TLC |

How they are put together: `ProjectOperation` extends `ProjectRuntimeState` and drives it, with queue entry,
lease and containers reduced to what the operation sees of them; `ProjectRuntimeLease`, `ProjectDecision`,
`ProjectIntegration` and `DockerRecovery` take one of these apart each. `HostOperationLock` is the lock that
`DockerRecovery` takes for granted between a task and the recovery of it.

### ProjectRuntimeState

One action per exported function of PRS, with the function's name. A call that answers `blocked` returns
the state it was given and is a stutter; its conditions are the guards. A call that is accepted and stored
by `writeProjectRuntimeState` is a step. Generations serve only to be compared for equality, so the model
keeps the set `current` of callers whose copy carries the current generation (`UpToDate`, `Advance`,
`ObserveState`); this makes the state space finite without losing a stale writer.

- Attempt and operation ids are numbered per task, zero being null. `authorityBindingId` goes with the
  attempt, `candidateId` and `supersededBy` are never read by a transition and are left out.
- The obligations of one kind are taken as one, which is as far as the last of them. The code refuses two of
  them only when kind and `recoveryId` are equal (PRS:1533-1538), so a task may carry several containers; each goes
  through the same protocol, and the transitions ask for all of them.
- `normalizedConflictPaths` and `conflicts` become the symmetric relation `Conflict`.
- `selectSchedulableProjectTasks` is a greedy walk; the model says which set the walk returns
  (`IsSelection`): an eligible task is in it exactly if a place is left by the ones before it and it shares
  nothing with them. There is exactly one such set.
- `MaxAttempts` bounds the reservations of one task; nothing else in the module is bounded.

`StateNext` lets any caller call any function with any input, which is more than the application does:
what holds here holds whatever the application does wrong.

### ProjectOperation

The whole handler of an operation, one durable write or one external event per action:

- *Entry to the run*: `Acquire`, `YieldPriority`, `Claim`, `CancelBeforeRunning`, `StartRunning`.
- *One wave*: `SelectWave`; `ReserveNext`/`PrepareNext` per task; then, per attempt and interleaved with the
  others, `CancelBeforeAuthority`, `AuthorizationRefused`, `RevocationUnknown`, `Delegate`,
  `ObserveStarted`, `RejectStart`, `AnswerSettled`, `AnswerUnknown`; then `SettleNext` in plan order.
- *Its end*: `EndInVerdict`, `FinishTasks`, `FinalizeOwnedFailure`, `Release`, `ClearOwner`; any write that
  is due may be refused (`WriteRefused`).
- *Taking up an operation*: `ReconcileOwnerLoss`, `ReconcileUnboundAcquisition`, `BindOwnerLoss`,
  `ReopenQueue`, `RebindQueue`, `MarkRecovering`, `RecoverDocker`, `SettleObligation`, `AcknowledgeDocker`,
  `SettleQueueRecovery`, `RetrySettled`. The objective application keeps nothing between two writes that it
  would not read again, so its writes are independent actions and a call that ends early is simply resumed.
- *Others*: the replanner's two writes (`ReplanState`, `ReplanQueue`, with `ReplanCrash` between), the
  acceptance decision (`Accept`) which ignores the queue, the cancellation signal (`Abort`), `Crash` of the
  process at any point, `Restart` of one that must end.

The settlement arithmetic of execution.ts:1205-1303 (contradictions, delegated unknowns, process discard,
obligations, unresolved recovery, outcome, cleanup) is kept condition by condition in `ContradictsStart`
to `CleanupConfirmed`. An `Answer` is what `validSingleTaskResult` lets through, or `invalid`; the answers
enumerated are those the adapter can give.

`effects` is the world outside: the attempts whose containers may be at work. It is changed only by
starting, ending and recovering a container, never by a crash, and it is what the safety properties compare
the records with.

### ProjectRuntimeLease

`ProjectOperation` takes the lease in one step. This module is what that step stands on: five names per
repository binding (`lock`, `release`, `pending`, `owned` and the temporary file in `prepared`), the evidence
files and the owner in the queue entries. Every process runs the synchronous code of DF from one file
operation to the next (`pc`, with what the call remembers in `job`); another process may run between any two.

- *Acquisition*: `Start`, `Look` (four times), `Prepare`, `Write`, `Link` (`Drop` if it fails), `Unprepare`,
  `Confirm`, `MakeLock`, `Own`, `OwnWrite`, `Record`; a failure goes through `Undo`, which stops at the first thing it cannot confirm.
- *The lease held*: `SelectAgain`, `Claim`, `Finish`, the writes under the queue mutation lock.
- *Release*: `Mark`, `MarkWrite`, `RemoveLock`, `RecordRelease`, `Unmark`, `ReadOwned`, `Unown`,
  `ReadPending`, `Unpend`, then `Settle`. A comparison of a marker and its removal are two steps, because
  they are two calls and the second only has the name.
- *Reconciliation* under the queue mutation lock: `Inspect`, `Reconcile`; for an entry without owner `Adopt`,
  `CheckUnbound`, `MarkUnbound`, `RemoveLockUnbound`, `RecordUnbound`; for one with an owner `Find`,
  `ReadRelease`, `ReadEvidence`, `ReadOwnership` and, if the lease is open, `ObserveOwner`, `MarkLost`,
  `RemoveLockLost`, `RecordLost`; then `Clear`, one file at a time in the order of its branch.
- *Faults*: `Exit` of an idle process, `Crash` before a step in `CrashPoints`, `Throw` at a step in
  `ThrowPoints`. A file opened and not yet written is `Torn`.

A generation is the number of the acquisition that drew it; `issued` remembers the process. `job.fresh` says
whether the generation of the entry the call has read is still the last one. What is coarser than the code:
the content of a file is read with its comparison in one step; `Start` and `Inspect` look at everything at
once, since what they find is looked at again; in `CheckUnbound` the two markers are read together. A queue
write is three steps, like `withMutationLock`: `TakeQueue`, then `Claim`, `Finish` or `Settle`, then
`GiveQueue`, which keeps the lock if the process is lost before it. Only `Reopen`, which stands for calls of
other clients, takes and gives it back in one. A process works on
one call at a time, and a process id is not reused while its files remain (the adapter reports a reused one
as alive, which only delays recovery). `running` is part of `leased`, and the verdicts of a run are
`replan_required`, which is reopened, and `cancelled`, which is not.

### ProjectDecision

Project state, decision record, recovery intent, acceptance record and queue entry are five stores, written
one after the other by calls that hold no lease. Every call is a chain of steps (`call[p].pc`) that keeps the
copies it has read (`call[p].copy`, `state`, `queue`) and uses them later; another process may run between
any two. Every durable write is a compare-and-set on the generation the call has read, and has four outcomes:
written, refused because the generation moved, failed without effect, or written and not known to be
(`WriteState`, `CompareAndSet`, `MoveQueue`, `WriteAcceptance`).

- *Asking*: `ReplanRead` … `ReplanQueue` (the replanner gives up), `IntegrateRead` … `Integrate` and
  `Conflict` (integration does), then `RequestDecision` and `Issue`; `HandOver` is their sum.
- *Replacing*: `ReplaceRead`, `ReplaceInvalidate`, `ReplaceReissue`; `InvalidateRead`, `Prove`,
  `InvalidateStale`. A capability is a number and `handed` the ones a client has; `Lapse` ends its lifetime.
- *Submitting*: `SubmitRead`, `Expire`, `Observe`, `Check`, `Prepare`, `Write`, `WriteRefused`, `Readback`,
  `Finalize`, `Move`, in the order of human-decision.ts:512-700.
- *Recovering*: `RecoverRead`, `Recover` (which decides from what it reads between finalizing, invalidating
  and giving up), `RecoverFinalize`, `RecoverInvalidate`, `RecoverQueue`, `RecoverMove`, `Settle`,
  `PersistIntent`.
- *Accepting*: `AcceptRead`, `AcceptObserve`, `AcceptCreate`, `AcceptApply`, `AcceptFinalize`.

Tasks are left out: an objective whose tasks have failed is `blocked`, one whose tasks are completed
`integration_pending`, and `OperationStep` is what the executor does to the two.

### ProjectIntegration

Every process makes one call of integration.ts for one project, and all of them work on one tree. A step is
one durable write or one file operation of the adapter (project-runtime-candidate-integration-adapter.ts):
`Begin`, `CreateCandidate`, `RecordCandidate`, `AskPerson` on a conflict or `Complete` without adoption;
with an authorization `ReconcileLease`, `AcquireLease`, `ObserveRepository` (the paths of the candidate are
those of the base), `AdoptCandidate`, then per entry `SaveFile` (move aside), `WriteFile` (temporary file and
rename) and `CheckFile`, at the end `ClearTransaction`, `CleanBase`, `RecordReceipt`, `ReleaseLease`,
`Complete`. A failure goes through `RollBackItem` and `EndRollback`. Every step may fail, with or without
its effect where the code cannot tell, and a process may be lost before any (`Crash`), leaving its transaction
directory (`backup`) and the lay-out of the base (`left`).

Taking and giving back the adoption lease are one step each. Its reconciliation is three: `ReconcileLease` takes
the queue mutation lock and reads whose lease there is (DF:3336), `LookAtOwner` observes that process (DF:3387),
`RemoveLease` removes what has the names of the lease (DF:3452, 3508-3510). Acquisition and release do not take
that lock, so the lease removed may be one taken since; `seized` remembers that this has happened and drives no
step. The queue is written under the same lock (`WriteQueue`), which a lost process keeps.

### DockerRecovery

A task writes every step to its journal before it takes it. The module has per task the journal, the host
directory and its marker (`disk`), per home the pointer to the task it is reserved for, and per CREATE request
where it is: sent, known to the engine or not, a resource or nothing (`create`). The engine may get a request
long after the client that sent it is gone, unless it is stopped in between.

- *The task's own process* (`Runner`): `RunnerBegins`, `RunnerSubmits`, the start, the wait, cleanup,
  confirmation of absence, completion, and the closing of the record through manifest, tombstone and removal;
  it may give up (`RunnerGivesUp`) or be lost (`RunnerCrashes`).
- *A recovery* (`Recovery`): enters with the locks of the home and the state, puts the record in place,
  inspects, declares the host path it takes, removes what it finds and, depending on what the journal says,
  takes one of the ends `normal`, `complete`, `crash`, `unstarted`, `precleaned` or `cleaned`, each with the
  durable steps of DR in their order; it refuses where DR throws (`RecoveryRefuses`), and may be cut before
  any step (`RecoveryCut`).
- *The host recovery by token* (`HostRecovers`), which knows nothing of the journal.
- *The restart of the engine*: `RestartPrepares`, `RestartRecords`, `RestartActs`, `RestartRefuses`,
  `RestartCut`, along the phases stop intent, stopped, start intent, ready, settled.

A durable write is one step: the journal commits content and mark one after the other and keeps a write that
was cut for a person. The active binding is the exception, because the recovery tells its halves apart.

### HostOperationLock

One generation of one host operation is one named pipe. An `Owner` has it kept by a supervisor process
(host-operation-lock-supervisor.ts: `Listening` … `SupervisorExit`, one action per message, event and deferred
callback) and follows it in candidate-store-kernel-lock-lifecycle-internal.ts (`Acquire` …
`TerminationTimesOut`); the two channels are queues, an exit may overtake messages, every wait may run out at
any moment. A `Recoverer` has it kept by a worker thread (`WorkerListening` … `WorkerClosed`) and blocks on a
shared number (`AcquireReturns`, `ReleaseReturns`). The kernel gives the pipe back with the process or thread
that listens; a lost caller takes its thread with it but not its supervisor, which hears the disconnect.

Assumed: nobody connects to the pipe (so a close completes), a message between living processes is delivered,
and a caller that has asked for confirmation waits for it before it asks for the release. A recovery runs
without turning its event loop, so it does not see its worker exit; what it relies on is therefore stated for
a helper that runs. The other locks of candidate-store-kernel-lock.ts use the same function as `Recoverer`
under other names.

## 3. What is checked

Passing runs (bounds in the `.cfg` files):

| Run | Instance | Properties |
|---|---|---|
| `state_chain` | tasks a, b, c and a spare r; c after a; a–b and b–r share files; two objectives; limit 2, one replan, two attempts; two callers, alike by symmetry, of whom one may hold a stale copy | `TypeOK`, `StoreAccepts`, `ConflictsExcluded`, `RecoveryNotSkipped`, `SelectionSurvivesReservation`, refinements `SchedulesTasks` and `AcceptsInStages` |
| `operation_faults` | a plan of three tasks of which two may run at once, a possible replacement that shares a file with the first; one replan, two faults | `OperationTypeOK`, `EffectsAreRecorded`, `EffectsExcluded`, `CapacityRespected` |
| `operation_live` | a plan of two tasks, a possible replacement that shares a file with the first; one replan, one fault, fairness | refinement `KeepsStateTransitions`, `RunEnds`, `RecoveryResumes` |
| `lease_faults` | three processes, two entries, two leases; one crash anywhere or one failed call at `FailingSteps` | `LeaseTypeOK`, `WorkerOwnsEntry`, `OwnerClearedAfterLease` |
| `lease_live` | three processes of which one is killed, one lease, fairness | `AbandonedLeaseCleared`, `AbandonedEntryTaken` |
| `decisions` | two processes, one objective, one decision with two capabilities, two acceptances, four generations, one fault | `DecisionTypeOK`, `FinalizedMeansApplied`, `AcceptanceHolds`, `OnlyCurrentCapability`, `QueueFollowsDecision` |
| `docker_recovery` | two tasks on one home, one CREATE each, every kind of fault, one cut | `DockerTypeOK`, `AbsenceIsReal`, `ResourcesAreCovered`, `RecoveredIsTrue`, `StoppedMeansCut` |
| `docker_live` | one task with two CREATEs, two cuts, fairness | `RecoveryCompletes` |
| `integration` | three calls for two projects that share no file (a change and an addition; a deletion), two faults | `IntegrationTypeOK`, `AdoptedIsWhole`, `RefusedLeavesNothing`, `NothingDisplacedIsLost`, `AdoptionsExcluded` |
| `host_lock` | an operation and two recoveries of one generation, any wait may run out, one process or thread lost, fairness | `LockTypeOK`, `HeldWhileRelied`, `AnswerMeansGone`, `LockSettles` |

`StoreAccepts` is the shape check of DF (`validTaskLifecycleTuple` and the task part of
`validProjectRuntimeState`) over everything the transitions of PRS can produce: two files that have to agree
and are tested apart. `SelectionSurvivesReservation` is the reason why a wave is never half reserved.
`EffectsAreRecorded` is the heart of the operation: whatever a container may be doing, the record still names
its very attempt in a state that keeps it, and no recovery of it has been declared finished.
`KeepsStateTransitions` says that the composition implements `StateSpec`, so what is proved of the project
state (section 5) holds of the operation too.

Of the lease one would state that two processes never hold it together (`LeaseExclusive`). That is false, though
only over four leases (`lease_overlap`, below). What is left to an executor is `WorkerOwnsEntry`: a process at work
owns its entry in the state it has claimed, whatever has become of the files of its lease, so no two of them work
on one entry. `OwnerClearedAfterLease` is INV-QUEUE-OWNER-CLEARED-AFTER-LEASE-SETTLEMENT of the design.

`FinalizedMeansApplied` and `QueueFollowsDecision` are the order of the four writes of a decision, seen from
outside: whichever of submission and recovery writes which of them, a final record stands for an applied
decision and the entry moves on only for a final record. `AcceptanceHolds` is about the recognition of a
repeated acceptance by the state it would have made. `AbsenceIsReal` is the reason for the restart of the
engine: a recovery that has looked and found nothing has not shown that nothing will come. `AdoptedIsWhole`
and `NothingDisplacedIsLost` are the two halves of an adoption that may fail anywhere; `AdoptionsExcluded` is about
the call that takes over from a lost one. These three hold until an adoption lease has been seized, that is, removed
in the place of the lost one that was read before: then two calls for one project may be at work in the tree
together, and a receipt or a file put aside may be lost with that. `AnswerMeansGone` is
what lets a caller of the lock go on after an answer other than `cleanup_unknown`.

*Why these bounds.* The chain instance has each relation once: dependency, conflict, a second objective, a
replacement that conflicts with a running task. Two attempts let every task fail or be recovered and start
again. Faults are counted together: two of them give a crash in the run and one in the recovery of it; a third,
in the recovery of that, was run once on three tasks without replacement (2.5 million states) and broke
nothing. `MaxAttempts` exceeds the faults, so the bound never stops an operation.
Three tasks under a limit of two are two waves, the
first of them parallel, and a replacement that shares a file with a task shows which waits for which. Three processes and two leases are an owner, its successor and a reconciler that meets both; two entries make
a claim meet the owner of another one. Leases overlap only with the fourth; `lease_overlap` has four, and the
constraint `Overlap` keeps to one order of the acquisitions, since the run only has to show that it can
happen. In `decisions` two processes
are a submitter and whoever recovers, replaces or accepts beside it; `Bound` keeps a decision and the two
acceptances from multiplying (a decision meets at most one acceptance, and then without a fault; of the requests about a target that
cannot be decided, those for anything but acceptance come only where one acceptance is all there is), and four
generations are the first state, the one decided about, the one decided and one more. In `docker_recovery` the
second task is the one that finds the home reserved or wrongly free; one cut besides the loss of both
processes leaves a recovery to be continued by the next. In `integration` the third call meets the remains of
both others, and two faults are a failed step and a failed rollback. In `host_lock` one lost process or thread
is met by every timeout, since these are not counted; with two losses, or with two operations in place of the
recoveries, the same properties hold in larger runs. Deadlock is not checked: an operation that ends in
`integration_pending`, `cancelled` or a recovery that needs a person has nothing left to do in these modules,
and processes that have all ended take no step.

*Fairness* (`FairOperationSpec`): the run goes on and adapters answer (`ExecutorStep`; the adapter awaits a
completion that the container supervisor ends by timeout), clients repeat the request while there is
something to do (`ApplicationStep`), and a process told to end does end (`Restart`). Nothing is assumed of
people, the replanner or crashes. With weak fairness on the disjunction, no single step is promised to be
preferred to another.

`FairSpec` of the lease: a process that lives finishes the call it is in, and a request whose inspection
passes again and again is made by a process that is not killed (strong fairness, because other processes may
make the inspection fail in between; clients that keep asking are the only thing that recovers a lease). The
two properties are stated for behaviours in which no reconciliation overlaps a live lease
(`RecoversAlone`); the seized lease below shows why.

`LiveSpec` of the Docker recovery: a recovery or restart that has begun runs on; a person asks for a recovery
again and again, and for the restart, the host recovery or the engine to be put into the state on record
whenever that is what is missing (strong fairness, since other steps close the opportunity in between);
a CREATE request ends one day. `docker_live` cuts recoveries only where the next one can go on (the dead ends
are listed below) and has one task, because two may wait for each other.

`FairLockSpec`: event loops turn, timers run out, and the system ends the processes and threads it has been
asked to end. Nothing is assumed of the callers, which may keep the lock for ever.

### Where the code and its documents differ

Two are runs that are expected to fail, each on the property that states the sentence.

`adoption_unserialized`. The adoption lease is named by repository binding *and project* (DF:907) and the
operation lease is released before the integration, so two projects of one repository may adopt into the tree
together; the design says canonical adoption is serialized (`02_Detailed_Design.md:300`) and has one
LOCK-ADOPTION in its table of locks (`:79-81`). No fault is needed. If their candidates share a file, the
receipt of one may stand for a tree that has lost its change; the run `integration` and the theorems keep to
candidates that share none (`Apart`).

`lease_overlap`. A release reads the acquisition marker, compares it with its own lease and removes it by name
(DF:2790-2801). In between, a reconciliation of its entry may remove the marker, as the lease is closed by then
(DF:3833), and a second process may acquire and have its own removed. Nothing stops the first process from
acquiring again beside it, and if it is killed before its `mkdir` (DF:2651), a reconciliation that takes the marker
for the whole of an unbound acquisition removes lock and ownership marker of the second (DF:3452, 3509), and a
third acquires while the second holds the lease. The tests of the durable foundation say that this cannot be
(`project-runtime-queue-priority.contract.test.ts:260`, `:308`). One crash is needed.
The proofs of the lease do not use exclusion, and `ProjectOperation` assumes it (section 4).

The others were met while modelling; the modules do as the code does, and the properties are stated so that
they hold of it.

- *A replaced plan.* A failed task is replaced and its replacement completes. The executor wants *every* task
  completed (execution.ts:1463), the superseded one never is, and the operation ends in an owned failure. A
  unit test (`project-runtime-state.contract.test.ts:796`) says such a plan reaches acceptance.
- *A cancelled queue entry* whose owner is lost before the release is rewritten as `recovery_required`
  (DF:4006). The design calls `cancelled` terminal (`02_Detailed_Design.md:164`).
- *A cancelled milestone.* In one wave the first task is cancelled and the second unknown: the milestone goes
  `cancelled`, then `recovery_required` (PRS:1628). The design calls it terminal (`02_Detailed_Design.md:148`).
- *A seized lease.* A reconciliation looks at the lock and the evidence, then the owner finishes its release
  and ends, another process takes the lease, and the reconciliation, finding the first owner absent, writes a
  release marker and removes the lock of the second (DF:3965). The released branch removes the markers of a
  successor in the same way (DF:3833); `lease_overlap` starts from that. An adoption lease is seized likewise:
  its marker is read (DF:3336), the call it names answers and its process ends, another call takes the lease, the
  first process is observed absent (DF:3387) and the lease of the other removed (DF:3452, 3508-3510); the
  reconciler then takes it too and both adopt. The architecture says a lease is not seized by time or the existence
  of a file alone (`01_Architecture.md:219`). `lease_live` is stated for recoveries that do not meet this.
- *A second fault.* After a recovery is settled and the tasks are ready again, a second interruption before
  the claim makes every later call fail: the acknowledged docker obligation has no attempt any more
  (objective-application.ts:783), or the reference was replaced when the lost lease was reconciled (DF:3726).
  The architecture promises re-entry after the settlement (`01_Architecture.md:222`). `operation_live` keeps to
  one fault because of it.
- *A decision after a conflict.* An integration conflict asks a person (integration.ts:588) about a project
  whose objectives are `integration_pending` and whose milestone nobody has made wait; neither option can be
  applied (PRS:2468, 2522). The design blocks the objective and lets the milestone wait (`02_Detailed_Design.md:332`).
- *A precleaned retry.* A recovery cut after its host precleanup is refused by the next one (DR:5967); the
  test `docker-recovery-runtime.contract.test.ts:5457` describes a retry.

What a decision leaves behind: a recovery of a finalized record answers `already_finalized` without moving the
queue or settling the intent; a replacement cut between its two writes leaves an invalidated record that cannot
be replaced; a refused acceptance leaves its record prepared, and two acceptance records for one generation may
both be finalized; a recovery beside a live submitter may invalidate a decision that is then applied
(`02_Detailed_Design.md:315` wants its absence proved; the submitter writes after the proof). A candidate is created before the objectives are
accepted, and the entry completed before the milestone is terminal, where the design has the other order
(`:246`, `:258`).

What an integration leaves behind: an adoption whose receipt, release or queue write failed is refused for
ever, because its own change makes the tree differ from the base, and the answer says no effect was issued; a
release that fails after an unrecovered rollback overwrites the unknown effect in the answer
(integration.ts:763-771); a file is absent between its move and the rename, though the contract says
`atomic_per_path`; a transaction directory that could not be removed and is then rolled back may lose both
contents, which is reported as unknown; temporary files of an interrupted write remain; an entry may be
completed by a call without authorization while an authorized one adopts, since the queue is not read again
after the waits (INV-REVALIDATE-AFTER-WAIT). The composition calls the integration once; a later call of the
operation answers `already_integration_pending`.

Where a Docker recovery ends for a person: a cut after the host cleanup intent on the path of a task that
never started (DR:5995); a cut after the precleanup (DR:5967); a cut between the host marker and the crash
receipt (DR:6334, 6348), after which the journal cannot be loaded (DR:5812); a host directory removed but not
its marker (DR:5418), until the host recovery; a clean host whose submissions outlive the released pointer
(DR:6298, refused at 5878); a task lost after its host completion intent whose recovery is cut in the host
transition (DR:5453-5466); two tasks of which one needs a restart, refused while two identities are left
(DR:6833), and the other the home (DR:5563); a stop intent on record that a client prevents, which only an
engine seen stopped resumes.

What recovery of a lease cannot do. The design allows an unchanged obligation to recover by hand, so these are
limits and no divergences; `lease_live` leaves them out (`CleanCrash`), while the safety run keeps them (crashes at every step):

- a crash between opening and writing the temporary file, the ownership marker or the release marker: the
  torn file is refused by every inspection;
- a crash, or a failed call that is rolled back no further, between the lock directory and its ownership
  marker: refused as `cleanup_unknown` (DF:3378);
- a crash inside a reconciliation, or inside the queue write of a claim, a verdict or a settlement (DF:1846-1866):
  the queue mutation lock stays, every later queue write and reconciliation is refused, and nothing takes it back;
- a reconciliation that fails between the two markers in the recovered branches (DF:3885-3886, 3996-3997) has
  removed the first marker and kept the second; the released branch and the release use the other order;
- a release marker that is the only file left, after a release that failed at its removal: the inspection has
  no candidate (DF:2973);
- an acquirer lost with a prepared or published marker for an entry that was finished meanwhile (DF:3019).

## 4. What is left out

- One executor and one objective application at a time: the lease is taken to exclude a second executor, which
  it does except in the schedule of `lease_overlap`, and the application's writes are compare-and-set. Taking and giving back the lease is one step here; its files are
  in `ProjectRuntimeLease`.
- Other operations appear only in `YieldPriority`. Parking to `waiting_foreground` is for `OperationQueue`.
- `host`, `candidate` and `candidate_store` obligations are recovered by other tools; only `docker` and
  `runtime_process` are in play.
- Integration and human decisions take the entry on from `integration_pending` and
  `human_decision_required`; in `ProjectOperation` the entry stays there, and `ProjectDecision` and
  `ProjectIntegration` begin there, with the tasks left out.
- Of the journal: writes that are torn, the acknowledgement of completion receipts, the handing over of a
  session, checks of identity and hash, containers that still run when the task stops, continuation of a restart
  by another release, the repair of the desktop program.
- Of the tree: commits by people while a candidate is adopted, and the comparison with the base is one step.
- Three modules allow more than the code, which no safety property suffers from: `SettleProjectTask` lacks the
  refusal of a candidate that comes with another outcome than completed (PRS:1557-1562), `RecoveryRemoves` takes
  the purposes of a task in any order where DR:6032-6069 has a fixed one and stops at the first unknown, and a
  blocked reconciliation in `ProjectIntegration` may answer with less confirmed than the code.
- Of the locks: the interactive console lock, a second request on a lock while the first is under way, and
  messages that neither side sends.
- Planning, intake validation, provider selection, wording and reports are not modelled.
- Of the packages listed as `not_modelled` in `PROJECT.json`, most are pure validation or I/O; those with a
  protocol of their own are at the end of the plan.

## 5. What is proved

`ProjectRuntimeStateProofs`, checked by TLAPS for every finite set of tasks, every plan, dependency and
symmetric conflict relation, every limit and every set of callers:

| Theorem | States |
|---|---|
| `TypeCorrect` | `StateSpec => []TypeOK` |
| `ConflictsNeverShared` | `StateSpec => []ConflictsExcluded` |
| `CapacityAlwaysRespected` | `StateSpec => []CapacityRespected` |
| `CompletedStays` | `StateSpec => CompletedForGood` |
| `RecoveryAlwaysDischarged` | `StateSpec => RecoveryNotSkipped` |

They rest on the assumptions named in `ProjectRuntimeState` (`StructureAssumption`, `PlanAssumption`,
`BoundAssumption`: what `createProjectRuntimeState` checks, and the symmetry of `conflicts`), which TLC
evaluates on every instance. `TypeOK /\ ConflictsExcluded` and `TypeOK /\ CapacityRespected` are inductive as
they stand: for conflicts, a reservation gains a member only through `ReserveProjectTaskStart`, and there the
selection keeps it apart from all others; for the limit, the same step is the only one that raises the number
of active tasks, and a selected task shows that `Available` is not zero. Every other transition only keeps or
shrinks these sets, which is one lemma per transition. The two action properties follow from the types and
the guards of each transition.

`ProjectRuntimeContractProofs`, under the same assumptions:

| Theorem | States |
|---|---|
| `StateInvariant` | `StateSpec => []StateInv` |
| `AlwaysAccepted` | `StateSpec => []StoreAccepts` |
| `AcceptedOverFinished` | `StateSpec => []AcceptedWhenFinished` |
| `ImplementsAcceptance` | `StateSpec => AcceptsInStages` (refinement of `StagedAcceptance`) |
| `ImplementsSchedule` | `StateSpec => SchedulesTasks` (refinement of `TaskSchedule`) |
| `WavesReserved` | `StateSpec => SelectionSurvivesReservation` |

`StoreAccepts` alone is not inductive. `StateInv` adds to the types that the plan lists exactly the tasks that
exist, each at one place; that every record has the tuple of state, phase and obligations that the store checks
(`RecordsValid`, one lemma for each record a transition writes); and that a task has left
`waiting_dependency` only over completed dependencies. The refinements go step by step: each transition is a
step of the abstract module or a stutter, and what needs an argument is a start. A wave survives because the
selection of `selectSchedulableProjectTasks` keeps its members apart from each other and counts the places it
takes, so that reserving one takes from `Available` exactly what the others had not counted on.

`ProjectIntegrationProofs`, for any set of processes and projects, any tree and any number of faults:

| Theorem | States |
|---|---|
| `IntegrationTypeCorrect` | `Spec => []IntegrationTypeOK` |
| `AdoptionsMeetOnlyAfterSeizure` | `Spec => []AdoptionsExcluded` |
| `RefusalsAreClean` | `Spec => []RefusedLeavesNothing` |
| `ReceiptMeansWhole` | `Apart` implies `Spec => []AdoptedIsWhole` |
| `DisplacedStays` | `Apart` implies `Spec => NothingDisplacedIsLost` |

They rest on `IntegrationConstants` (a candidate has at most one entry per file and deletes only what the base
has, which the adapter checks); the last two also on `Apart`, that no two candidates share a file, without which
they are false (`adoption_unserialized`). All but the first and `RefusalsAreClean` speak of the states before an
adoption lease is seized, because after that they are false. None of the properties is inductive.
A process whose lease a reconciliation is about to remove is gone (`Looked`), so what is removed is
the lease of a lost process, or the removal is a seizure. Before that `AdoptionInvariant` adds: a call
holds its lease from the acquisition to the release, so two calls for one project are not at work together; the
items applied are the entries of the candidate in their order; the tree has the content of the candidate for
every entry taken, except the one in hand, and that of the base for the others; the transaction directory holds
exactly the files of items not yet taken back; and a receipt, once written, keeps the tree whole, since a later
call finds a file that is not the base's and changes nothing. The type invariant needs part of it: that a
rollback never puts back a file that was not saved.

`HostOperationLockProofs`, for any sets of operations and recoveries and any number of lost processes:

| Theorem | States |
|---|---|
| `LockTypeCorrect` | `LockSpec => []LockTypeOK` |
| `HeldWhileReliedOn` | `LockSpec => []HeldWhileRelied` |
| `AnswersMeanGone` | `LockSpec => []AnswerMeansGone` |

They rest on `LockAssumption` (a call is one of an operation or one of a recovery, and nobody's name is a
call's). Neither property is inductive: a caller never sees the pipe, only messages and a number. `LockInvariant`
ties them together. A helper has the pipe exactly while it listens (`Kept`); an operation trusts only a
supervisor that has said `acquired` and that no release is on the way to, and one still waiting for that word
has no message in its channel from a later state (`Trusted`); an answer that ends a call implies that its
supervisor has exited (`OverMeansExited`); and the number shared with a worker bounds where that worker can be
(`Counted`). Each step changes one call; `UntouchedKeeps` is what the others need, so there is one lemma for
each group of actions and in it one case per action.

`ProjectDecisionProofs`, for any sets of processes, decisions and acceptances and any bounds:

| Theorem | States |
|---|---|
| `DecisionHolds` | `DecisionSpec => []DecisionInv` |
| `DecisionTypeCorrect` | `DecisionSpec => []DecisionTypeOK` |
| `FinalizedIsApplied` | `DecisionSpec => []FinalizedMeansApplied` |
| `AcceptanceIsHeld` | `DecisionSpec => []AcceptanceHolds` |
| `CurrentCapabilityDecides` | `DecisionSpec => OnlyCurrentCapability` |
| `QueueFollows` | `DecisionSpec => QueueFollowsDecision` |

They rest on `DecisionBounds` and the other assumptions of `ProjectDecision`, which TLC evaluates. A call acts on
copies, so the invariant has to say what each copy is worth at each step: `CallOK` ties the step of a call to the
disposition of the copy it holds, a call about to write `finalized` to a generation that has the application, and
one that moves the queue to a record that is finalized and is still its copy. It stays true under the steps of the
others because the stores only grow (`Grow`): generations are never written again and a finalized record never
changes.

`DockerRecoveryProofs`, for any tasks, homes and purposes, any kinds of fault and any number of cuts:

| Theorem | States |
|---|---|
| `DockerHolds` | `Spec => []DockerInv` |
| `DockerTypeCorrect` | `Spec => []DockerTypeOK` |
| `EvidenceIsTrue` | `Spec => []AbsenceIsReal` |
| `WhatExistsIsCovered` | `Spec => []ResourcesAreCovered` |
| `ToldIsTrue` | `Spec => []RecoveredIsTrue` |
| `RestartHasCut` | `Spec => []StoppedMeansCut` |

They rest on `DockerConstants`. None of the properties is inductive, and they need each other. `JournalOK` says
what each record implies of the world: a request comes after its submission and is over once that has a receipt
or a fence; every record of an end, a removed host directory, a marker past `started` and a closed journal mean
that nothing is left with the engine; a phase from `stopped` on means that nothing is on its way. `RunnerOK`,
`RecoveryOK` and `RestartOK` say what the step of each process adds to that: that a recovery works only on a task
whose own process is over, and in the ends only on one that has left nothing. Since all of them may be cut before
any write, what counts is that these are implied by the records a successor reads, and that a task whose process is
over only ever loses (`Calm`): requests, its directory, its pointer. A step of one task leaves the others as they
were except for the pointer of a home, which is set only in `begin` and taken back only from the task it names
(`PointerStep`, `Others`). The TLC run of `DockerInv` itself on the instance of `docker_recovery` found no violation.

`ProjectRuntimeLeaseProofs`, for any processes, entries and leases, and crashes and failed calls at any steps:

| Theorem | States |
|---|---|
| `LeaseHolds` | `Spec => []LeaseInv` |
| `LeaseTypeCorrect` | `Spec => []LeaseTypeOK` |
| `WorkerOwns` | `Spec => []WorkerOwnsEntry` |
| `OwnerCleared` | `Spec => OwnerClearedAfterLease` |

They rest on `ProcessesAndQueues`, `Bounds` and `NoneAndTorn`. Nothing that is proved comes from the files of the
lease, because each can be removed by name under its owner. It comes from what cannot be: the generation a process
has drawn names it for ever (`OwnGeneration`, and `MarkersKnown`, `OwnersKnown` of what is written with it); evidence
only grows towards released or recovered, and is true (`EvidenceKnown`: a release is recorded by the process
itself, a recovery only when it is gone); and entries are written under the mutation lock, which a reconciliation
holds from its inspection to its end (`Recovering`, `Clearing`: its entry is as it read it, and the branch it is in is
backed by evidence) and every other writer from `TakeQueue` to `GiveQueue`; an entry is its worker's from the claim to
the verdict (`Claiming`). So an owner is cleared only over a closed lease, and never under a process at work. `StepOf`
says what a step of one process leaves to the others, and `Others` that this keeps the invariant for them; there is
then one lemma for each action or group of actions. TLC checked `LeaseInv` on the instance of `lease_faults` first.

`ProjectOperationProofs`, for any plan, conflicts and limits and any number of crashes, refused writes and
unknown answers:

| Theorem | States |
|---|---|
| `OperationHolds` | `OperationSpec => []OperationInv` |
| `OperationTypeCorrect` | `OperationSpec => []OperationTypeOK` |
| `ImplementsState` | `OperationSpec => KeepsStateTransitions` (implementation of `StateSpec`) |
| `OperationInherits` | `OperationSpec` implies `[]StoreAccepts`, `CompletedForGood`, `RecoveryNotSkipped`, `SchedulesTasks`, `AcceptsInStages` |
| `OperationCapacity` | `OperationSpec => []CapacityRespected` |
| `EffectsOnRecord` | `OperationSpec => []EffectsAreRecorded` |
| `EffectsNeverMeet` | `OperationSpec => []EffectsExcluded` |

They rest on the assumptions of `ProjectRuntimeState` and on `OperationAssumption`, which fixes the two callers and
the two kinds of recovery and leaves room for the attempts (`MaxAttempts > MaxFaults + MaxReplans`: a bound of the
model, not of the code). The invariant has three parts.

- *The project state* (`ProjectInv`). Every step of the operation is a transition of `ProjectRuntimeState` or leaves
  it alone (`StepIsState`, one lemma per group of actions). What this needs is that the arguments the executor passes
  are ones the transition can have: an attempt on its way is between 1 and the number of attempts of its task
  (`AttemptsCounted`). The invariants of the project state are then carried over (`ProjectStep`), and so is all that
  is proved of `StateSpec`.
- *The entry* (`EntryOfRun`): it is in the state that the executor has put it in, so that a replanner or a recovery,
  which wants another state, never meets a wave.
- *The world outside*. `EffectsCovered`: the record of a task covers what it has at work, that is, the attempt is
  handed over or running, or it is in a recovery without a confirmed cleanup in which either something is unresolved
  or the docker obligation is not yet settled. `StagesTrue` says why that survives the settlement: a task that has
  not been delegated has nothing at work, and when one that has something at work has answered, the answer is
  contradicted by what was observed or its effect is unknown; `SettledUnknown` then computes from the conditions of
  `SettledOutcome` to `CleanupConfirmed` that the settlement is a recovery that keeps the obligation.

`EffectsExcluded` follows: an attempt at work is of an active task that holds its reservation, so that conflicts are
excluded by `ConflictsExcluded`, and since a task has at most one attempt at work, effects inject into the active
tasks, which the limit bounds. TLC checked `AttemptsCounted`, `EntryOfRun`, `StagesTrue` and `EffectsCovered` on the
instance of `operation_faults` first.

Only model-checked, because it is out of the prover's reach: all liveness (`RunEnds`, `RecoveryResumes`,
`AbandonedLeaseCleared`, `AbandonedEntryTaken`, `RecoveryCompletes`, `LockSettles`), which needs fairness and with it
ENABLED. No safety property or action property of a passing run is left without a theorem. What the proofs do not
touch is the choice of the bounds that only TLC needs, and the composition: the theorems on the operation take the
lease as one step, and `lease_overlap` shows where that is more than the code gives.

## 6. Plan

1. `ProjectRuntimeState`, its abstractions and proofs – done.
2. `ProjectOperation` and its proofs, that it implements the project state among them – done.
3. `ProjectRuntimeLease` and its proofs – done. `LeaseExclusive` is false; under which condition on recoveries it
   holds (that none meets a live lease, `RecoversAlone`, is the candidate) is the step to an abstract lease with one
   holder that `ProjectOperation` could be composed with.
4. `ProjectDecision` and its proofs – done.
5. `ProjectIntegration` and its proofs – done.
6. `DockerRecovery`, with the restart of the engine, and its proofs – done.
7. `HostOperationLock` and its proofs – done.
8. `OperationQueue` – several entries, lanes, parking and resumption, mutation lock.
9. The public projection (totality over reachable states); path conflicts as a pure algorithm; temporary
   operation store; shutdown of the MCP server.
10. Proofs: every safety property of a passing run – done; next the exclusion of the lease under `RecoversAlone`,
    and what else the operation should promise over several steps (which effect ends which obligation).

## Not modelled

What is left is mostly validation, parsing and I/O without a state that outlives a call: the checker, semantic
coverage, the domain library, artifact signing, the provisioning and repair of the Windows platform, the
adapters of the providers. Their correctness is that of pure functions over large records, which tests reach
and a model of their control would not say anything about. The components of `PROJECT.json` name each with its
reason.

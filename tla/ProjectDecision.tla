--------------------------- MODULE ProjectDecision ---------------------------
(***************************************************************************)
(* What people decide about a project: whether to resume or cancel when it *)
(* cannot go on (project-runtime-human-decision.ts) and whether to accept  *)
(* what it made (project-runtime-acceptance-decision.ts).  A decision is a *)
(* chain of durable writes in stores of its own: the decision record, the  *)
(* project state, the decision record again, the queue entry.  None of the *)
(* calls holds the lease of the operation; each write is a compare-and-set *)
(* on its own store, and any number of processes run them at once.         *)
(*                                                                         *)
(* The tasks are left out: an objective whose tasks have failed is         *)
(* "blocked", one whose tasks are completed "integration_pending".         *)
(***************************************************************************)
EXTENDS Naturals, Sequences, FiniteSets

CONSTANTS
  Process,        \* processes that serve requests
  Objective,      \* objectives of the milestone
  Decision,       \* decision ids
  Acceptance,     \* acceptance decision ids
  Request,        \* replacement request ids
  MaxGeneration,  \* bound: generations of the project state
  MaxIssues,      \* bound: capabilities issued
  MaxFaults       \* bound: crashes, refused writes and unknown results

ASSUME DecisionSets ==
  /\ IsFiniteSet(Objective) /\ Objective # {} /\ "milestone" \notin Objective
  /\ IsFiniteSet(Decision) /\ IsFiniteSet(Acceptance)
ASSUME DecisionBounds ==
  MaxGeneration \in Nat \ {0} /\ MaxIssues \in Nat /\ MaxFaults \in Nat

VARIABLES
  project,     \* the generations of the project state, the last one current
  queue,       \* the generations of the queue entry
  record,      \* decision records in the protected store
  issued,      \* capabilities issued so far
  handed,      \* those that reached a client
  lapsed,      \* those whose lifetime is over
  intent,      \* recovery intents, by their identity
  acceptance,  \* acceptance records
  call,        \* the call each process is in, with the copies it made
  faults       \* faults so far

stores == <<project, queue, record, issued, handed, lapsed, intent, acceptance>>
decisionVars == <<stores, call, faults>>

-----------------------------------------------------------------------------
(* The records.                                                            *)

Option == {"resume", "cancel"}
ObjectiveState == {"executing", "blocked", "integration_pending", "accepted", "returned"}
MilestoneState ==
  {"executing", "human_decision_required", "integrating", "accepted", "returned", "cancelled"}

\* An application is identified by its record, the generation and the option.
Application == Decision \X (0..MaxGeneration) \X (Option \cup {"none"})
NoApplication == <<>>
ProjectState ==
  [milestone   : MilestoneState,
   objective   : [Objective -> ObjectiveState],
   application : Application \cup {NoApplication}]

\* reference is the record, candidate or task a generation of the entry is for.
QueueEntry ==
  [state     : {"queued", "running", "integration_pending", "replan_required",
                "human_decision_required", "completed", "cancelled"},
   reference : Decision \cup {"none"}]

DecisionRecord ==
  [disposition : {"absent", "pending", "prepared", "finalized", "invalidated", "expired"},
   expected    : 0..MaxGeneration,
   capability  : 0..MaxIssues,
   option      : Option \cup {"none"},
   request     : Request \cup {"none"}]
NoRecord == [disposition |-> "absent", expected |-> 0, capability |-> 0,
             option |-> "none", request |-> "none"]

Target == Objective \cup {"milestone"}
AcceptanceRecord ==
  [disposition : {"absent", "prepared", "finalized"},
   expected    : 0..MaxGeneration,
   target      : Target,
   decision    : {"accept", "return", "wait"},
   new         : 0..MaxGeneration]
NoAcceptance == [disposition |-> "absent", expected |-> 0, target |-> "milestone",
                 decision |-> "wait", new |-> 0]

Latest == Len(project)
Now == project[Latest]
QueueLatest == Len(queue)
Entry == queue[QueueLatest]

ApplicationOf(d, r) == <<d, r.expected, r.option>>

\* Mutant of Resumed: the option is stored as the state.
OptionStored(option) == option

Resumed(option) == IF option = "resume" THEN "executing" ELSE "cancelled"

\* state and queue are the generations the call has read, by their index; copy
\* is the decision record it read or wrote last, about the acceptance record.
Idle == [pc |-> "idle", d |-> "none", state |-> 0, queue |-> 0,
         copy |-> NoRecord, about |-> NoAcceptance]
PC == {"idle", "replan_check", "replan", "replan_queue", "escalate_queue",
       "integrate_check", "integrate", "issue",
       "expire", "observe", "check", "prepare", "write", "readback", "finalize", "move",
       "invalidate", "reissue", "prove", "invalidate_stale",
       "recover", "recover_finalize", "recover_invalidate", "recover_queue",
       "recover_move", "settle", "intent",
       "accept_observe", "accept_create", "accept_apply", "accept_finalize"}

DecisionTypeOK ==
  /\ project \in Seq(ProjectState) /\ Latest \in 1..MaxGeneration
  /\ queue \in Seq(QueueEntry) /\ QueueLatest \in Nat \ {0}
  /\ record \in [Decision -> DecisionRecord]
  /\ issued \in 0..MaxIssues
  /\ handed \subseteq 1..issued /\ lapsed \subseteq 1..issued
  /\ intent \in [Application -> {"absent", "required", "settled"}]
  /\ acceptance \in [Acceptance -> AcceptanceRecord]
  /\ DOMAIN call = Process
  /\ \A p \in Process :
       /\ DOMAIN call[p] = DOMAIN Idle
       /\ call[p].pc \in PC
       /\ call[p].d \in Decision \cup Acceptance \cup {"none"}
       /\ call[p].state \in 0..Latest /\ call[p].queue \in 0..QueueLatest
       /\ call[p].copy \in DecisionRecord /\ call[p].about \in AcceptanceRecord
  /\ faults \in 0..MaxFaults

-----------------------------------------------------------------------------
(* Writes.  A store writes over the value it expects, or refuses; under a  *)
(* fault it refuses all the same, or writes and does not answer.  Done and *)
(* Failed are what follows in the call.                                    *)

Fault == faults < MaxFaults /\ faults' = faults + 1
NoFault == UNCHANGED faults

Answer(due, Written, Unwritten, Done, Failed) ==
  \/ due /\ Written /\ ((Done /\ NoFault) \/ (Failed /\ Fault))
  \/ Unwritten /\ Failed /\ (IF due THEN Fault ELSE NoFault)

At(p, pc) == call[p].pc = pc
Goto(p, pc) == call' = [call EXCEPT ![p].pc = pc]
Return(p) == call' = [call EXCEPT ![p] = Idle]

\* recoveryBlocked: the call goes on to persist an intent about record r.
RecoveryBlocked(p, r) ==
  call' = [call EXCEPT ![p] = [Idle EXCEPT !.pc = "intent", !.d = call[p].d, !.copy = r]]

\* writeProjectRuntimeState: over the generation the call has read.
WriteState(p, value, Done, Failed) ==
  /\ Answer(call[p].state = Latest /\ Latest < MaxGeneration,
            project' = Append(project, value), UNCHANGED project, Done, Failed)
  /\ UNCHANGED <<queue, record, issued, handed, lapsed, intent, acceptance>>

QueueTransitions ==
  [queued |-> {"cancelled"},
   running |-> {},
   integration_pending |-> {"completed", "replan_required", "human_decision_required", "cancelled"},
   replan_required |-> {"queued", "human_decision_required", "cancelled"},
   human_decision_required |-> {"replan_required", "cancelled"},
   completed |-> {},
   cancelled |-> {}]

\* updateProjectOperationQueueState, of an entry without owner.
UpdateQueue(p, state, reference, Done, Failed) ==
  /\ Answer(call[p].queue = QueueLatest /\ state \in QueueTransitions[Entry.state],
            queue' = Append(queue, [state |-> state, reference |-> reference]),
            UNCHANGED queue, Done, Failed)
  /\ UNCHANGED <<project, record, issued, handed, lapsed, intent, acceptance>>

\* Mutant of CompareAndSet: it compares how far the record is, not the record.
CompareDisposition(p, next, Done, Failed) ==
  LET d == call[p].d IN
  /\ Answer(record[d].disposition = call[p].copy.disposition,
            record' = [record EXCEPT ![d] = next], UNCHANGED record, Done, Failed)
  /\ UNCHANGED <<project, queue, lapsed, intent, acceptance>>

\* compareAndSet of the decision store, under the kernel lock of its root.
CompareAndSet(p, next, Done, Failed) ==
  LET d == call[p].d IN
  /\ Answer(record[d] = call[p].copy,
            record' = [record EXCEPT ![d] = next], UNCHANGED record, Done, Failed)
  /\ UNCHANGED <<project, queue, lapsed, intent, acceptance>>

\* The call goes on with the record it has written.
GotoWith(p, pc, r) == call' = [call EXCEPT ![p].pc = pc, ![p].copy = r]

-----------------------------------------------------------------------------
(* The operation, the replanner and the integration, as far as they hand   *)
(* the project over to a person and take it back.                          *)

\* The operation takes the entry, settles tasks and leaves its verdict.
OperationTakes ==
  /\ Entry.state = "queued"
  /\ queue' = Append(queue, [state |-> "running", reference |-> "none"])
  /\ UNCHANGED <<project, record, issued, handed, lapsed, intent, acceptance, call, faults>>

OperationSettles ==
  /\ Entry.state = "running" /\ Latest < MaxGeneration
  /\ \E o \in Objective, s \in {"integration_pending", "blocked"} :
       /\ Now.objective[o] = "executing"
       /\ project' = Append(project, [Now EXCEPT !.objective[o] = s])
  /\ UNCHANGED <<queue, record, issued, handed, lapsed, intent, acceptance, call, faults>>

OperationEnds ==
  LET verdict == IF \E o \in Objective : Now.objective[o] = "blocked"
                 THEN "replan_required" ELSE "integration_pending"
  IN /\ Entry.state = "running"
     /\ \A o \in Objective : Now.objective[o] # "executing"
     /\ queue' = Append(queue, [state |-> verdict, reference |-> "none"])
     /\ UNCHANGED <<project, record, issued, handed, lapsed, intent, acceptance, call, faults>>

\* A call that reads the project state and then the queue entry.
ReadState(p, pc) ==
  /\ At(p, "idle")
  /\ call' = [call EXCEPT ![p].pc = pc, ![p].state = Latest]
  /\ UNCHANGED <<stores, faults>>

ReadQueue(p, required, pc) ==
  /\ IF required THEN call' = [call EXCEPT ![p].pc = pc, ![p].queue = QueueLatest]
     ELSE Return(p)
  /\ UNCHANGED <<stores, faults>>

\* Both are called by clients that have been told of the verdict.
Told(verdict) == \E n \in 1..QueueLatest : queue[n].state = verdict

ReplanRead(p) == Told("replan_required") /\ ReadState(p, "replan_check")
ReplanCheck(p) ==
  At(p, "replan_check") /\ ReadQueue(p, Entry.state = "replan_required", "replan")

\* A failed task is retried or replaced, or the project is handed over.
Replan(p) ==
  LET s == project[call[p].state] IN
  /\ At(p, "replan")
  /\ \E o \in Objective :
       /\ s.objective[o] = "blocked"
       /\ \/ WriteState(p, [s EXCEPT !.objective[o] = "executing", !.milestone = "executing"],
                        Goto(p, "replan_queue"), Return(p))
          \/ /\ s.milestone \notin {"accepted", "cancelled"}
             /\ WriteState(p, [s EXCEPT !.milestone = "human_decision_required",
                                        !.application = NoApplication],
                           Goto(p, "escalate_queue"), Return(p))

\* No task has failed: project_runtime_replan_failed_task_missing.
ReplanRefused(p) ==
  /\ At(p, "replan")
  /\ \A o \in Objective : project[call[p].state].objective[o] # "blocked"
  /\ Return(p)
  /\ UNCHANGED <<stores, faults>>

ReplanQueue(p) ==
  \/ At(p, "replan_queue") /\ UpdateQueue(p, "queued", "none", Return(p), Return(p))
  \/ /\ At(p, "escalate_queue")
     /\ UpdateQueue(p, "human_decision_required", "none", Return(p), Return(p))

IntegrateRead(p) == Told("integration_pending") /\ ReadState(p, "integrate_check")
IntegrateCheck(p) ==
  LET settled == \A o \in Objective :
                   project[call[p].state].objective[o] \notin {"executing", "blocked"}
  IN /\ At(p, "integrate_check")
     /\ ReadQueue(p, Entry.state = "integration_pending" /\ settled, "integrate")

\* What the tasks made does not fit together.  The state is not written: the
\* objective that would have to be blocked is integration_pending.
Conflict(p, d) ==
  /\ At(p, "integrate")
  /\ UpdateQueue(p, "human_decision_required", "none",
       call' = [call EXCEPT ![p].pc = "issue", ![p].d = d], Return(p))

Integrate(p) ==
  /\ At(p, "integrate")
  /\ UpdateQueue(p, "completed", "none", Return(p), Return(p))

-----------------------------------------------------------------------------
(* A decision is issued, replaced, invalidated.                            *)

\* The client of the library asks for a decision on the current generation.
RequestDecision(p, d) ==
  /\ At(p, "idle") /\ Now.milestone = "human_decision_required"
  /\ call' = [call EXCEPT ![p].pc = "issue", ![p].d = d, ![p].state = Latest]
  /\ UNCHANGED <<stores, faults>>

\* The capability of a written record is in no hands until the call answers.
Issue(p) ==
  LET d == call[p].d
      capability == issued + 1
      pending == [NoRecord EXCEPT !.disposition = "pending",
                                  !.expected = call[p].state, !.capability = capability]
  IN /\ At(p, "issue") /\ issued < MaxIssues
     /\ issued' = capability
     /\ Answer(record[d] = NoRecord,
               record' = [record EXCEPT ![d] = pending], UNCHANGED record,
               Return(p) /\ handed' = handed \cup {capability},
               RecoveryBlocked(p, pending) /\ UNCHANGED handed)
     /\ UNCHANGED <<project, queue, lapsed, intent, acceptance>>

Lapse(capability) ==
  /\ capability \in (1..issued) \ lapsed
  /\ lapsed' = lapsed \cup {capability}
  /\ UNCHANGED <<project, queue, record, issued, handed, intent, acceptance, call, faults>>

\* A call reads record d and goes on with the copy.
ReadRecord(p, d, pc) ==
  /\ At(p, "idle")
  /\ call' = [call EXCEPT ![p].pc = pc, ![p].d = d, ![p].copy = record[d]]
  /\ UNCHANGED <<stores, faults>>

ReplaceRead(p, d) ==
  /\ record[d].disposition = "pending"
  /\ \E request \in Request : request # record[d].request
  /\ ReadRecord(p, d, "invalidate")

ReplaceInvalidate(p, request) ==
  LET invalidated == [call[p].copy EXCEPT !.disposition = "invalidated", !.request = request]
  IN /\ At(p, "invalidate") /\ call[p].copy.request # request
     /\ CompareAndSet(p, invalidated,
                      GotoWith(p, "reissue", invalidated), RecoveryBlocked(p, call[p].copy))
     /\ UNCHANGED <<issued, handed>>

ReplaceReissue(p) ==
  LET capability == issued + 1
      pending == [call[p].copy EXCEPT !.disposition = "pending", !.capability = capability]
  IN /\ At(p, "reissue") /\ issued < MaxIssues
     /\ issued' = capability
     /\ CompareAndSet(p, pending,
                      Return(p) /\ handed' = handed \cup {capability},
                      RecoveryBlocked(p, call[p].copy) /\ UNCHANGED handed)

InvalidateRead(p, d) == record[d].disposition = "pending" /\ ReadRecord(p, d, "prove")

\* The project has moved on, or the milestone is over.
Prove(p) ==
  /\ At(p, "prove")
  /\ IF Latest # call[p].copy.expected \/ Now.milestone \in {"accepted", "cancelled"}
     THEN Goto(p, "invalidate_stale") ELSE Return(p)
  /\ UNCHANGED <<stores, faults>>

InvalidateStale(p) ==
  /\ At(p, "invalidate_stale")
  /\ CompareAndSet(p, [call[p].copy EXCEPT !.disposition = "invalidated"],
                   Return(p), RecoveryBlocked(p, call[p].copy))
  /\ UNCHANGED <<issued, handed>>

-----------------------------------------------------------------------------
(* A decision is submitted: the record is prepared, the project state      *)
(* written, the record finalized, the queue entry moved.                   *)

\* The capability presented is the record's: one a client has been handed.
SubmitRead(p, d) ==
  /\ record[d].disposition = "pending"
  /\ \/ record[d].capability \in lapsed /\ ReadRecord(p, d, "expire")
     \/ /\ record[d].capability \in handed \ lapsed
        /\ ReadRecord(p, d, "observe")

Expire(p) ==
  /\ At(p, "expire")
  /\ CompareAndSet(p, [call[p].copy EXCEPT !.disposition = "expired"],
                   Return(p), RecoveryBlocked(p, call[p].copy))
  /\ UNCHANGED <<issued, handed>>

Observe(p) ==
  /\ At(p, "observe")
  /\ call' = [call EXCEPT ![p].pc = "check", ![p].state = Latest]
  /\ UNCHANGED <<stores, faults>>

Check(p) ==
  /\ At(p, "check")
  /\ ReadQueue(p, /\ call[p].state = call[p].copy.expected
                  /\ Entry.state = "human_decision_required", "prepare")

Prepare(p) ==
  \E option \in Option :
    LET prepared == [call[p].copy EXCEPT !.disposition = "prepared", !.option = option]
    IN /\ At(p, "prepare")
       /\ CompareAndSet(p, prepared,
                        GotoWith(p, "write", prepared), RecoveryBlocked(p, call[p].copy))
       /\ UNCHANGED <<issued, handed>>

\* The state the decision is applied to waits for one.
Write(p) ==
  LET s == project[call[p].state]
      r == call[p].copy
  IN /\ At(p, "write") /\ s.milestone = "human_decision_required"
     /\ WriteState(p, [s EXCEPT !.milestone = Resumed(r.option),
                                !.application = ApplicationOf(call[p].d, r)],
                   Goto(p, "readback"), RecoveryBlocked(p, r))

WriteRefused(p) ==
  /\ At(p, "write") /\ project[call[p].state].milestone # "human_decision_required"
  /\ RecoveryBlocked(p, call[p].copy)
  /\ UNCHANGED <<stores, faults>>

\* What has been read of the project holds the application of record r.
Applied(s, generation, d, r) ==
  /\ generation = r.expected + 1
  /\ s.application = ApplicationOf(d, r)
  /\ s.milestone = Resumed(r.option)

Readback(p) ==
  /\ At(p, "readback")
  /\ IF Applied(Now, Latest, call[p].d, call[p].copy)
     THEN Goto(p, "finalize") ELSE RecoveryBlocked(p, call[p].copy)
  /\ UNCHANGED <<stores, faults>>

Finalized(p) == [call[p].copy EXCEPT !.disposition = "finalized"]

\* Mutant of Finalize: the queue entry is moved whatever the store answers.
FinalizeAnyway(p) ==
  /\ At(p, "finalize")
  /\ CompareAndSet(p, Finalized(p),
                   GotoWith(p, "move", Finalized(p)), GotoWith(p, "move", Finalized(p)))
  /\ UNCHANGED <<issued, handed>>

Finalize(p) ==
  /\ At(p, "finalize")
  /\ CompareAndSet(p, Finalized(p),
                   GotoWith(p, "move", Finalized(p)), RecoveryBlocked(p, call[p].copy))
  /\ UNCHANGED <<issued, handed>>

MoveQueue(p, Done) ==
  UpdateQueue(p, IF call[p].copy.option = "resume" THEN "replan_required" ELSE "cancelled",
              call[p].d, Done, RecoveryBlocked(p, call[p].copy))

Move(p) == At(p, "move") /\ MoveQueue(p, Return(p))

-----------------------------------------------------------------------------
(* A prepared decision is recovered, by a call that finds it prepared.     *)

RecoverRead(p, d) == record[d].disposition = "prepared" /\ ReadRecord(p, d, "recover")

\* Mutant of Recover: any later generation is taken for the application.
RecoverAdvanced(p) ==
  LET r == call[p].copy IN
  /\ At(p, "recover")
  /\ IF Latest = r.expected + 1 /\ Now.milestone = Resumed(r.option)
     THEN Goto(p, "recover_finalize")
     ELSE IF /\ Latest = r.expected /\ Now.application = NoApplication
             /\ Now.milestone = "human_decision_required"
          THEN Goto(p, "recover_invalidate")
          ELSE RecoveryBlocked(p, r)
  /\ UNCHANGED <<stores, faults>>

Recover(p) ==
  LET r == call[p].copy IN
  /\ At(p, "recover")
  /\ IF Applied(Now, Latest, call[p].d, r)
     THEN Goto(p, "recover_finalize")
     ELSE IF /\ Latest = r.expected /\ Now.application = NoApplication
             /\ Now.milestone = "human_decision_required"
          THEN Goto(p, "recover_invalidate")
          ELSE RecoveryBlocked(p, r)
  /\ UNCHANGED <<stores, faults>>

RecoverFinalize(p) ==
  /\ At(p, "recover_finalize")
  /\ CompareAndSet(p, Finalized(p),
                   GotoWith(p, "recover_queue", Finalized(p)), RecoveryBlocked(p, call[p].copy))
  /\ UNCHANGED <<issued, handed>>

RecoverInvalidate(p) ==
  /\ At(p, "recover_invalidate")
  /\ CompareAndSet(p, [call[p].copy EXCEPT !.disposition = "invalidated"],
                   Return(p), RecoveryBlocked(p, call[p].copy))
  /\ UNCHANGED <<issued, handed>>

\* An entry that no longer waits has been moved already.
RecoverQueue(p) ==
  /\ At(p, "recover_queue")
  /\ ReadQueue(p, TRUE, IF Entry.state = "human_decision_required"
                        THEN "recover_move" ELSE "settle")

RecoverMove(p) == At(p, "recover_move") /\ MoveQueue(p, Goto(p, "settle"))

IntentOf(p) == ApplicationOf(call[p].d, call[p].copy)

\* settleRecoveryIntent; without an intent there is nothing to settle.
Settle(p) ==
  /\ At(p, "settle")
  /\ Answer(intent[IntentOf(p)] = "required",
            intent' = [intent EXCEPT ![IntentOf(p)] = "settled"], UNCHANGED intent,
            Return(p),
            IF intent[IntentOf(p)] = "required"
            THEN RecoveryBlocked(p, call[p].copy) ELSE Return(p))
  /\ UNCHANGED <<project, queue, record, issued, handed, lapsed, acceptance>>

\* persistRecoveryIntent: the first intent of an identity stays.
PersistIntent(p) ==
  /\ At(p, "intent")
  /\ Answer(intent[IntentOf(p)] = "absent",
            intent' = [intent EXCEPT ![IntentOf(p)] = "required"], UNCHANGED intent,
            Return(p), Return(p))
  /\ UNCHANGED <<project, queue, record, issued, handed, lapsed, acceptance>>

-----------------------------------------------------------------------------
(* Acceptance: the record is prepared, the state written, the record       *)
(* finalized.  A repeated request goes on where the record stands.         *)

AcceptRead(p, a) ==
  /\ At(p, "idle") /\ acceptance[a].disposition # "finalized"
  /\ call' = [call EXCEPT ![p].pc = "accept_observe", ![p].d = a, ![p].about = acceptance[a]]
  /\ UNCHANGED <<stores, faults>>

Acceptable(s, target) ==
  IF target = "milestone"
  THEN s.milestone = "integrating" /\ \A o \in Objective : s.objective[o] = "accepted"
  ELSE s.objective[target] = "integration_pending"

\* A first request names the generation it was made for, the current one.  It is
\* written down whatever the state: what cannot be decided is refused after.
AcceptObserve(p, target, decision) ==
  LET first == call[p].about.disposition = "absent" IN
  /\ At(p, "accept_observe")
  /\ first \/ (target = call[p].about.target /\ decision = call[p].about.decision)
  /\ call' = [call EXCEPT
       ![p].state = Latest,
       ![p].pc = IF first THEN "accept_create" ELSE "accept_apply",
       ![p].about = IF first
                    THEN [disposition |-> "prepared", expected |-> Latest,
                          target |-> target, decision |-> decision, new |-> 0]
                    ELSE @]
  /\ UNCHANGED <<stores, faults>>

\* compareAndSet and create of the acceptance store.
WriteAcceptance(p, due, value, Done) ==
  /\ Answer(due, acceptance' = [acceptance EXCEPT ![call[p].d] = value],
            UNCHANGED acceptance, Done, Return(p))
  /\ UNCHANGED <<project, queue, record, issued, handed, lapsed, intent>>

AcceptCreate(p) ==
  /\ At(p, "accept_create")
  /\ WriteAcceptance(p, acceptance[call[p].d] = NoAcceptance, call[p].about,
                     Goto(p, "accept_apply"))

\* The state a decision leads to.
Decided(target, decision) ==
  CASE decision = "accept" -> "accepted"
    [] decision = "return" -> "returned"
    [] OTHER -> IF target = "milestone" THEN "integrating" ELSE "integration_pending"

StateOf(s, target) == IF target = "milestone" THEN s.milestone ELSE s.objective[target]

\* Mutant of AlreadyApplied: the next generation is taken for the decision's.
GenerationAdvanced(s, generation, r) ==
  generation = r.expected + (IF r.decision = "wait" THEN 0 ELSE 1)

\* decisionAlreadyApplied
AlreadyApplied(s, generation, r) ==
  /\ generation = r.expected + (IF r.decision = "wait" THEN 0 ELSE 1)
  /\ StateOf(s, r.target) = Decided(r.target, r.decision)

\* applyProjectRuntimeAcceptanceDecision
Accept(s, r) ==
  IF r.target = "milestone" THEN [s EXCEPT !.milestone = Decided(r.target, r.decision)]
  ELSE LET objective == [s.objective EXCEPT ![r.target] = Decided(r.target, r.decision)]
       IN [s EXCEPT !.objective = objective,
                    !.milestone = IF \A o \in Objective : objective[o] = "accepted"
                                  THEN "integrating" ELSE @]

AcceptedAs(p, generation) ==
  call' = [call EXCEPT ![p].pc = "accept_finalize", ![p].about.new = generation]

AcceptApply(p) ==
  LET g == call[p].state
      s == project[g]
      r == call[p].about
      refused == g # r.expected \/ ~Acceptable(s, r.target)
  IN /\ At(p, "accept_apply")
     /\ \/ /\ AlreadyApplied(s, g, r) \/ (~refused /\ r.decision = "wait")
           /\ AcceptedAs(p, g)
           /\ UNCHANGED <<stores, faults>>
        \/ /\ ~AlreadyApplied(s, g, r) /\ refused
           /\ Return(p)
           /\ UNCHANGED <<stores, faults>>
        \/ /\ ~AlreadyApplied(s, g, r) /\ ~refused /\ r.decision # "wait"
           /\ WriteState(p, Accept(s, r), AcceptedAs(p, g + 1), Return(p))

AcceptFinalize(p) ==
  /\ At(p, "accept_finalize")
  /\ WriteAcceptance(p, acceptance[call[p].d] = [call[p].about EXCEPT !.new = 0],
                     [call[p].about EXCEPT !.disposition = "finalized"], Return(p))

-----------------------------------------------------------------------------
(* The specification.                                                      *)

\* A process is lost, with the call it was in.
Crash(p) ==
  /\ ~At(p, "idle") /\ Fault
  /\ Return(p)
  /\ UNCHANGED stores

DecisionInit ==
  /\ project = <<[milestone |-> "executing", objective |-> [o \in Objective |-> "executing"],
                  application |-> NoApplication]>>
  /\ queue = <<[state |-> "queued", reference |-> "none"]>>
  /\ record = [d \in Decision |-> NoRecord]
  /\ issued = 0 /\ handed = {} /\ lapsed = {}
  /\ intent = [i \in Application |-> "absent"]
  /\ acceptance = [a \in Acceptance |-> NoAcceptance]
  /\ call = [p \in Process |-> Idle]
  /\ faults = 0

OperationStep == OperationTakes \/ OperationSettles \/ OperationEnds

\* The calls in the order of the code; each goes on from where it stands.
HandOver(p) ==
  \/ ReplanRead(p) \/ ReplanCheck(p) \/ Replan(p) \/ ReplanRefused(p) \/ ReplanQueue(p)
  \/ IntegrateRead(p) \/ IntegrateCheck(p) \/ Integrate(p)
  \/ \E d \in Decision : Conflict(p, d) \/ RequestDecision(p, d)
  \/ Issue(p)

Replace(p) ==
  \/ \E d \in Decision : ReplaceRead(p, d) \/ InvalidateRead(p, d)
  \/ \E request \in Request : ReplaceInvalidate(p, request)
  \/ ReplaceReissue(p) \/ Prove(p) \/ InvalidateStale(p)

Submit(p) ==
  \/ \E d \in Decision : SubmitRead(p, d)
  \/ Expire(p) \/ Observe(p) \/ Check(p) \/ Prepare(p) \/ Write(p) \/ WriteRefused(p)
  \/ Readback(p) \/ Finalize(p) \/ Move(p)

Recovery(p) ==
  \/ \E d \in Decision : RecoverRead(p, d)
  \/ Recover(p) \/ RecoverFinalize(p) \/ RecoverInvalidate(p) \/ RecoverQueue(p)
  \/ RecoverMove(p) \/ Settle(p) \/ PersistIntent(p)

Acceptances(p) ==
  \/ \E a \in Acceptance : AcceptRead(p, a)
  \/ \E target \in Target, decision \in {"accept", "return", "wait"} :
       AcceptObserve(p, target, decision)
  \/ AcceptCreate(p) \/ AcceptApply(p) \/ AcceptFinalize(p)

DecisionNext ==
  \/ OperationStep
  \/ \E capability \in 1..MaxIssues : Lapse(capability)
  \/ \E p \in Process :
       HandOver(p) \/ Replace(p) \/ Submit(p) \/ Recovery(p) \/ Acceptances(p) \/ Crash(p)

DecisionSpec == DecisionInit /\ [][DecisionNext]_decisionVars

-----------------------------------------------------------------------------
(* Properties.                                                             *)

\* A finalized decision has been applied: the generation after the one it was
\* issued for holds its application.  The project was written by one call and
\* the record finalized by another (recovery), each from its own reading.
FinalizedMeansApplied ==
  \A d \in Decision : record[d].disposition = "finalized" =>
    LET g == record[d].expected + 1 IN
    g <= Latest /\ Applied(project[g], g, d, record[d])

\* A person's decision is used with the capability that is current: once the
\* record has been reissued, a submission that was checked with the old
\* capability prepares nothing.
OnlyCurrentCapability ==
  [][\A d \in Decision :
       record[d].disposition = "pending" /\ record'[d].disposition = "prepared" =>
         record'[d].capability = record[d].capability /\ record[d].capability \in handed]_decisionVars

\* The queue entry leaves human_decision_required only for a decision that is
\* finalized and applied to the project.
QueueFollowsDecision ==
  [][Entry.state = "human_decision_required" /\ queue' # queue =>
       LET d == Entry'.reference IN
       /\ d \in Decision
       /\ record[d].disposition = "finalized"
       /\ \E g \in 1..Latest : Applied(project[g], g, d, record[d])]_decisionVars

\* A finalized acceptance names a generation in which its target is in the state
\* the person decided on, whoever wrote it.
AcceptanceHolds ==
  \A a \in Acceptance : acceptance[a].disposition = "finalized" =>
    LET r == acceptance[a] IN
    r.new <= Latest /\ StateOf(project[r.new], r.target) = Decided(r.target, r.decision)

=============================================================================

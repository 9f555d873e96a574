---------------------- MODULE HostOperationLockProofs ----------------------
(***************************************************************************)
(* What holds of the lock for any number of operations and recoveries.     *)
(***************************************************************************)
EXTENDS HostOperationLock, TLAPS

ParentMessages == {"acquired", "unavailable", "ready", "release-ready", "released"}

\* The states of a helper in which it listens on the pipe.
Holding ==
  {"bound", "acquired", "confirmed", "ready", "releasing", "closing", "holding"}

\* A helper has the pipe exactly while it listens, and none runs before the call.
Kept(c) ==
  /\ helper[c] \in Holding <=> pipe = c
  /\ call[c] = "none" => helper[c] = "none"

\* An operation trusts a supervisor that has acquired and was not asked to release.
Trusted(o) ==
  /\ call[o] \in {"none", "acquiring", "acquired"} => toChild[o] = <<>>
  /\ call[o] \in {"none", "acquiring"} => ~report[o]
  /\ helper[o] \in {"none", "starting", "bound", "refused"} => toParent[o] = <<>>
  /\ call[o] = "acquiring" /\ helper[o] # "exited" =>
       /\ helper[o] \in {"starting", "bound", "refused", "acquired", "final", "left"}
       /\ helper[o] \in {"final", "left"} => toParent[o] = <<"unavailable">>
  /\ Trusting(o) =>
       /\ helper[o] \in {"acquired", "confirmed", "ready", "exited"}
       /\ toChild[o] \in {<<>>, <<"confirm-ready">>}

Over == {"released", "unavailable", "cleanup_confirmed_failure"}

OverMeansExited(o) == answer[o] \in Over => helper[o] = "exited"

\* The shared number tells where the worker of a recovery is.
Counted(r) ==
  /\ shared[r] = 1 => helper[r] \in {"holding", "unbound", "exited"}
  /\ shared[r] = 2 => helper[r] \in {"done", "exited"}
  /\ call[r] \in {"none", "acquiring", "held"} =>
       answer[r] = "none" /\ helper[r] # "unbound"
  /\ call[r] = "held" => shared[r] = 1
  /\ answer[r] = "released" => shared[r] = 2

CallInvariant(c) ==
  /\ Kept(c)
  /\ c \in Owner => Trusted(c) /\ OverMeansExited(c)
  /\ c \in Recoverer => Counted(c)

LockInvariant == \A c \in Caller : CallInvariant(c)

\* A step of one call leaves all that belongs to another as it is.
Untouched(c) ==
  /\ helper'[c] = helper[c] /\ call'[c] = call[c] /\ answer'[c] = answer[c]
  /\ toChild'[c] = toChild[c] /\ toParent'[c] = toParent[c]
  /\ report'[c] = report[c] /\ shared'[c] = shared[c]
  /\ pipe' = c <=> pipe = c

LEMMA UntouchedKeeps ==
  ASSUME NEW c \in Caller, CallInvariant(c), Untouched(c)
  PROVE  CallInvariant(c)'
BY DEF CallInvariant, Kept, Trusted, OverMeansExited, Counted, Untouched, Trusting

------------------------------------------------------------------------------
(* Types.                                                                    *)

LEMMA InitType == LockInit => LockTypeOK
BY LockAssumption DEF LockInit, LockTypeOK, Answers, Orderly

LEMMA KernelType ==
  ASSUME LockTypeOK, NEW c \in Caller,
         Listen(c) \/ Killed(c) \/ HelperLost(c) \/ CallerLost(c)
  PROVE  LockTypeOK'
<1>1. CASE Listen(c)
  BY <1>1 DEF LockTypeOK, Listen, supervisorVars
<1>2. CASE Killed(c)
  BY <1>2 DEF LockTypeOK, Killed, Gone, Freed, supervisorVars, Ended
<1>3. CASE HelperLost(c)
  BY <1>3, LockAssumption DEF LockTypeOK, HelperLost, Gone, Freed, Ended
<1>4. CASE CallerLost(c)
  BY <1>4, LockAssumption DEF LockTypeOK, CallerLost, Gone, Freed, supervisorVars
<1> QED
  BY <1>1, <1>2, <1>3, <1>4

\* What a supervisor sends is a message.
LEMMA SaysType ==
  ASSUME LockTypeOK, NEW o \in Caller, NEW m \in ParentMessages, ToParent(o, m)
  PROVE  toParent' \in [Caller -> Seq(ParentMessages)]
<1>1. toParent \in [Caller -> Seq(ParentMessages)]
  BY DEF LockTypeOK, ParentMessages
<1>2. Append(toParent[o], m) \in Seq(ParentMessages)
  BY <1>1
<1> QED
  BY <1>1, <1>2 DEF ToParent

LEMMA SupervisorStepType ==
  ASSUME LockTypeOK, NEW o \in Owner, SupervisorStep(o)
  PROVE  LockTypeOK'
<1> o \in Caller
  BY DEF Caller
<1>1. CASE Listening(o)
  BY <1>1 DEF LockTypeOK, Listening, supervisorVars, ToParent
<1>2. CASE ListenError(o)
  BY <1>2 DEF LockTypeOK, ListenError, supervisorVars, ToParent, ListenFailed
<1>3. CASE HearConfirmReady(o)
  BY <1>3 DEF LockTypeOK, HearConfirmReady, supervisorVars, Message
<1>4. CASE SayReady(o)
  BY <1>4 DEF LockTypeOK, SayReady, supervisorVars, ToParent
<1>5. CASE HearRelease(o)
  BY <1>5 DEF LockTypeOK, HearRelease, supervisorVars, Message
<1>6. CASE ServerClosed(o)
  BY <1>6 DEF LockTypeOK, ServerClosed, supervisorVars, Freed
<1>7. CASE Prepared(o)
  <2>1. CASE UNCHANGED toParent
    BY <1>7, <2>1 DEF LockTypeOK, Prepared, supervisorVars
  <2>2. CASE ToParent(o, "release-ready")
    BY <1>7, <2>2, SaysType DEF LockTypeOK, Prepared, ParentMessages, supervisorVars
  <2> QED
    BY <1>7, <2>1, <2>2 DEF Prepared
<1>8. CASE HearConfirmRelease(o)
  BY <1>8 DEF LockTypeOK, HearConfirmRelease, supervisorVars, Message, Orderly
<1>9. CASE FinalExit(o)
  <2>1. CASE UNCHANGED toParent
    BY <1>9, <2>1 DEF LockTypeOK, FinalExit, supervisorVars
  <2>2. CASE ToParent(o, "released")
    BY <1>9, <2>2, SaysType DEF LockTypeOK, FinalExit, ParentMessages, supervisorVars
  <2> QED
    BY <1>9, <2>1, <2>2 DEF FinalExit
<1>10. CASE HearDisconnect(o)
  BY <1>10 DEF LockTypeOK, HearDisconnect, supervisorVars, Disconnected
<1>11. CASE SupervisorExit(o)
  BY <1>11 DEF LockTypeOK, SupervisorExit, supervisorVars
<1> QED
  BY <1>1, <1>2, <1>3, <1>4, <1>5, <1>6, <1>7, <1>8, <1>9, <1>10,
     <1>11 DEF SupervisorStep

LEMMA LifecycleStepType ==
  ASSUME LockTypeOK, NEW o \in Owner, LifecycleStep(o)
  PROVE  LockTypeOK'
<1> o \in Caller
  BY DEF Caller
<1>1. CASE HearAcquired(o)
  BY <1>1 DEF LockTypeOK, HearAcquired, supervisorVars, Status
<1>2. CASE HearUnavailable(o)
  BY <1>2 DEF LockTypeOK, HearUnavailable, supervisorVars, Status, Terminate, Answers
<1>3. CASE HearReady(o)
  BY <1>3 DEF LockTypeOK, HearReady, supervisorVars, Status, Answers
<1>4. CASE HearReleaseReady(o)
  BY <1>4 DEF LockTypeOK, HearReleaseReady, supervisorVars, Status, ToChild
<1>5. CASE HearReleased(o)
  BY <1>5 DEF LockTypeOK, HearReleased, supervisorVars, Status
<1>6. CASE SeeExit(o)
  BY <1>6 DEF LockTypeOK, SeeExit, supervisorVars, Answers
<1>7. CASE SeeDisconnect(o)
  BY <1>7 DEF LockTypeOK, SeeDisconnect, supervisorVars, FinalizeFailure, Terminate,
     Answers
<1>8. CASE TimeOut(o)
  BY <1>8 DEF LockTypeOK, TimeOut, supervisorVars, FinalizeFailure, Terminate, Answers
<1>9. CASE TerminationTimesOut(o)
  BY <1>9 DEF LockTypeOK, TerminationTimesOut, supervisorVars, Answers
<1> QED
  BY <1>1, <1>2, <1>3, <1>4, <1>5, <1>6, <1>7, <1>8, <1>9 DEF LifecycleStep

LEMMA OwnerAsksType ==
  ASSUME LockTypeOK, NEW o \in Owner, Acquire(o) \/ ConfirmReady(o) \/ Release(o)
  PROVE  LockTypeOK'
<1> o \in Caller
  BY DEF Caller
<1>1. CASE Acquire(o)
  BY <1>1 DEF LockTypeOK, Acquire, supervisorVars
<1>2. CASE ConfirmReady(o)
  BY <1>2 DEF LockTypeOK, ConfirmReady, ToChild, supervisorVars
<1>3. CASE Release(o)
  BY <1>3 DEF LockTypeOK, Release, ToChild, supervisorVars
<1> QED
  BY <1>1, <1>2, <1>3

LEMMA WorkerStepType ==
  ASSUME LockTypeOK, NEW r \in Recoverer, WorkerStep(r)
  PROVE  LockTypeOK'
<1> r \in Caller
  BY DEF Caller
<1>1. CASE WorkerListening(r)
  BY <1>1 DEF LockTypeOK, WorkerListening, supervisorVars, Finish
<1>2. CASE WorkerError(r)
  BY <1>2 DEF LockTypeOK, WorkerError, supervisorVars, Finish
<1>3. CASE WorkerClose(r)
  BY <1>3 DEF LockTypeOK, WorkerClose, supervisorVars, Freed
<1>4. CASE WorkerClosed(r)
  BY <1>4 DEF LockTypeOK, WorkerClosed, supervisorVars, Finish
<1> QED
  BY <1>1, <1>2, <1>3, <1>4 DEF WorkerStep

LEMMA RecovererType ==
  ASSUME LockTypeOK, NEW r \in Recoverer,
         AcquireReturns(r) \/ ReleaseReturns(r)
         \/ AcquireNamedPipe(r) \/ ReleaseNamedPipe(r)
  PROVE  LockTypeOK'
<1> r \in Caller
  BY DEF Caller
<1>1. CASE AcquireReturns(r)
  BY <1>1 DEF LockTypeOK, AcquireReturns, GiveUp, supervisorVars, Answers
<1>2. CASE ReleaseReturns(r)
  BY <1>2 DEF LockTypeOK, ReleaseReturns, GiveUp, supervisorVars, Answers
<1>3. CASE AcquireNamedPipe(r)
  BY <1>3 DEF LockTypeOK, AcquireNamedPipe, supervisorVars
<1>4. CASE ReleaseNamedPipe(r)
  BY <1>4 DEF LockTypeOK, ReleaseNamedPipe, supervisorVars
<1> QED
  BY <1>1, <1>2, <1>3, <1>4

LEMMA StepType ==
  ASSUME LockTypeOK, [LockNext]_lockVars
  PROVE  LockTypeOK'
<1>1. CASE UNCHANGED lockVars
  BY <1>1 DEF LockTypeOK, lockVars, supervisorVars
<1>2. CASE LockNext
  BY <1>2, KernelType, SupervisorStepType, LifecycleStepType, OwnerAsksType,
     WorkerStepType, RecovererType DEF LockNext
<1> QED
  BY <1>1, <1>2

\* Type correctness of the lock (candidate-store-kernel-lock-lifecycle-
\* internal.ts, host-operation-lock-supervisor.ts, candidate-store-kernel-
\* lock.ts, candidate-store-lock-worker.ts).
THEOREM LockTypeCorrect == LockSpec => []LockTypeOK
BY InitType, StepType, PTL DEF LockSpec
------------------------------------------------------------------------------
(* The invariant: each step changes one call, which keeps its own conjunct.  *)

LEMMA InitInvariant == LockInit => LockInvariant
BY LockAssumption DEF LockInit, LockInvariant, CallInvariant, Kept, Trusted, OverMeansExited,
   Over, Counted, Holding, Trusting

LEMMA KernelKeeps ==
  ASSUME LockTypeOK, LockInvariant, NEW c \in Caller,
         Listen(c) \/ Killed(c) \/ HelperLost(c) \/ CallerLost(c)
  PROVE  LockInvariant'
<1>inv. ASSUME CallInvariant(c)', \A d \in Caller \ {c} : Untouched(d)
       PROVE  LockInvariant'
  BY <1>inv, UntouchedKeeps DEF LockInvariant
<1>own. CallInvariant(c)
  BY DEF LockInvariant
<1>1. CASE Listen(c)
  <2>1. CallInvariant(c)'
    BY <1>1, <1>own, LockAssumption DEF Listen, CallInvariant, Kept, Trusted, OverMeansExited,
       Over, Counted, Holding, Trusting, LockTypeOK,
       supervisorVars
  <2>2. \A d \in Caller \ {c} : Untouched(d)
    BY <1>1, LockAssumption DEF Listen, Untouched, LockTypeOK, supervisorVars
  <2> QED
    BY <2>1, <2>2, <1>inv
<1>2. CASE Killed(c)
  <2>1. CallInvariant(c)'
    BY <1>2, <1>own, LockAssumption DEF Killed, CallInvariant, Kept, Trusted, OverMeansExited,
       Over, Counted, Holding, Trusting, LockTypeOK,
       supervisorVars, Gone, Freed, Running, Ended, Orderly
  <2>2. \A d \in Caller \ {c} : Untouched(d)
    BY <1>2, LockAssumption DEF Killed, Untouched, LockTypeOK, supervisorVars, Gone,
       Freed, Running, Ended, Orderly
  <2> QED
    BY <2>1, <2>2, <1>inv
<1>3. CASE HelperLost(c)
  <2>1. CallInvariant(c)'
    BY <1>3, <1>own, LockAssumption DEF HelperLost, CallInvariant, Kept, Trusted,
       OverMeansExited, Over, Counted, Holding, Trusting, LockTypeOK,
       supervisorVars, Gone, Freed, Running, Ended, Orderly
  <2>2. \A d \in Caller \ {c} : Untouched(d)
    BY <1>3, LockAssumption DEF HelperLost, Untouched, LockTypeOK, supervisorVars,
       Gone, Freed, Running, Ended, Orderly
  <2> QED
    BY <2>1, <2>2, <1>inv
<1>4. CASE CallerLost(c)
  <2>1. CallInvariant(c)'
    BY <1>4, <1>own, LockAssumption DEF CallerLost, CallInvariant, Kept, Trusted,
       OverMeansExited, Over, Counted, Holding, Trusting, LockTypeOK,
       supervisorVars, Gone, Freed
  <2>2. \A d \in Caller \ {c} : Untouched(d)
    BY <1>4, LockAssumption DEF CallerLost, Untouched, LockTypeOK, supervisorVars,
       Gone, Freed
  <2> QED
    BY <2>1, <2>2, <1>inv
<1> QED
  BY <1>1, <1>2, <1>3, <1>4

LEMMA SupervisorKeeps ==
  ASSUME LockTypeOK, LockInvariant, NEW o \in Owner,
         SupervisorStep(o)
  PROVE  LockInvariant'
<1> o \in Caller
  BY DEF Caller
<1>inv. ASSUME CallInvariant(o)', \A d \in Caller \ {o} : Untouched(d)
       PROVE  LockInvariant'
  BY <1>inv, UntouchedKeeps DEF LockInvariant
<1>own. CallInvariant(o)
  BY DEF LockInvariant
<1>not. o \notin Recoverer
  BY LockAssumption
<1>1. CASE Listening(o)
  <2>1. CallInvariant(o)'
    BY <1>1, <1>own, <1>not, LockAssumption DEF Listening, CallInvariant, Kept,
       Trusted, OverMeansExited, Over, Holding, Trusting, LockTypeOK,
       supervisorVars, ToParent
  <2>2. \A d \in Caller \ {o} : Untouched(d)
    BY <1>1, LockAssumption DEF Listening, Untouched, LockTypeOK, supervisorVars,
       ToParent
  <2> QED
    BY <2>1, <2>2, <1>inv
<1>2. CASE ListenError(o)
  <2>1. CallInvariant(o)'
    BY <1>2, <1>own, <1>not, LockAssumption DEF ListenError, CallInvariant, Kept,
       Trusted, OverMeansExited, Over, Holding, Trusting, LockTypeOK,
       supervisorVars, ToParent
  <2>2. \A d \in Caller \ {o} : Untouched(d)
    BY <1>2, LockAssumption DEF ListenError, Untouched, LockTypeOK, supervisorVars,
       ToParent
  <2> QED
    BY <2>1, <2>2, <1>inv
<1>3. CASE HearConfirmReady(o)
  <2>0. ASSUME Trusting(o)  PROVE toChild'[o] = <<>>
    <3>1. toChild[o] = <<"confirm-ready">>
      BY <1>3, <1>own, <2>0 DEF HearConfirmReady, Message, CallInvariant, Trusted
    <3>2. toChild'[o] = Tail(<<"confirm-ready">>)
      BY <1>3, <3>1 DEF HearConfirmReady, Message, LockTypeOK
    <3>3. Tail(<<"confirm-ready">>) = <<>>
      OBVIOUS
    <3> QED
      BY <3>2, <3>3
  <2>1. CallInvariant(o)'
    BY <1>3, <2>0, <1>own, <1>not, LockAssumption DEF HearConfirmReady, CallInvariant,
       Kept, Trusted, OverMeansExited, Over, Holding, Trusting, LockTypeOK, Message
  <2>2. \A d \in Caller \ {o} : Untouched(d)
    BY <1>3, LockAssumption DEF HearConfirmReady, Untouched, LockTypeOK, supervisorVars,
       Message
  <2> QED
    BY <2>1, <2>2, <1>inv
<1>4. CASE SayReady(o)
  <2>1. CallInvariant(o)'
    BY <1>4, <1>own, <1>not, LockAssumption DEF SayReady, CallInvariant, Kept,
       Trusted, OverMeansExited, Over, Holding, Trusting, LockTypeOK,
       supervisorVars, ToParent
  <2>2. \A d \in Caller \ {o} : Untouched(d)
    BY <1>4, LockAssumption DEF SayReady, Untouched, LockTypeOK, supervisorVars,
       ToParent
  <2> QED
    BY <2>1, <2>2, <1>inv
<1>5. CASE HearRelease(o)
  <2>1. CallInvariant(o)'
    BY <1>5, <1>own, <1>not, LockAssumption DEF HearRelease, CallInvariant, Kept,
       Trusted, OverMeansExited, Over, Holding, Trusting, LockTypeOK,
       supervisorVars, Message
  <2>2. \A d \in Caller \ {o} : Untouched(d)
    BY <1>5, LockAssumption DEF HearRelease, Untouched, LockTypeOK, supervisorVars,
       Message
  <2> QED
    BY <2>1, <2>2, <1>inv
<1>6. CASE ServerClosed(o)
  <2>1. CallInvariant(o)'
    BY <1>6, <1>own, <1>not, LockAssumption DEF ServerClosed, CallInvariant, Kept,
       Trusted, OverMeansExited, Over, Holding, Trusting, LockTypeOK,
       supervisorVars, Freed
  <2>2. \A d \in Caller \ {o} : Untouched(d)
    BY <1>6, LockAssumption DEF ServerClosed, Untouched, LockTypeOK, supervisorVars,
       Freed
  <2> QED
    BY <2>1, <2>2, <1>inv
<1>7. CASE Prepared(o)
  <2>1. CallInvariant(o)'
    BY <1>7, <1>own, <1>not, LockAssumption DEF Prepared, CallInvariant, Kept,
       Trusted, OverMeansExited, Over, Holding, Trusting, LockTypeOK,
       supervisorVars, ToParent
  <2>2. \A d \in Caller \ {o} : Untouched(d)
    BY <1>7, LockAssumption DEF Prepared, Untouched, LockTypeOK, supervisorVars,
       ToParent
  <2> QED
    BY <2>1, <2>2, <1>inv
<1>8. CASE HearConfirmRelease(o)
  <2>1. CallInvariant(o)'
    BY <1>8, <1>own, <1>not, LockAssumption DEF HearConfirmRelease, CallInvariant,
       Kept, Trusted, OverMeansExited, Over, Holding, Trusting, LockTypeOK,
       supervisorVars, Message
  <2>2. \A d \in Caller \ {o} : Untouched(d)
    BY <1>8, LockAssumption DEF HearConfirmRelease, Untouched, LockTypeOK,
       supervisorVars, Message
  <2> QED
    BY <2>1, <2>2, <1>inv
<1>9. CASE FinalExit(o)
  <2>1. CallInvariant(o)'
    BY <1>9, <1>own, <1>not, LockAssumption DEF FinalExit, CallInvariant, Kept,
       Trusted, OverMeansExited, Over, Holding, Trusting, LockTypeOK,
       supervisorVars, ToParent
  <2>2. \A d \in Caller \ {o} : Untouched(d)
    BY <1>9, LockAssumption DEF FinalExit, Untouched, LockTypeOK, supervisorVars,
       ToParent
  <2> QED
    BY <2>1, <2>2, <1>inv
<1>10. CASE HearDisconnect(o)
  <2>1. CallInvariant(o)'
    BY <1>10, <1>own, <1>not, LockAssumption DEF HearDisconnect, CallInvariant, Kept,
       Trusted, OverMeansExited, Over, Holding, Trusting, LockTypeOK,
       supervisorVars
  <2>2. \A d \in Caller \ {o} : Untouched(d)
    BY <1>10, LockAssumption DEF HearDisconnect, Untouched, LockTypeOK, supervisorVars
  <2> QED
    BY <2>1, <2>2, <1>inv
<1>11. CASE SupervisorExit(o)
  <2>1. CallInvariant(o)'
    BY <1>11, <1>own, <1>not, LockAssumption DEF SupervisorExit, CallInvariant, Kept,
       Trusted, OverMeansExited, Over, Holding, Trusting, LockTypeOK,
       supervisorVars
  <2>2. \A d \in Caller \ {o} : Untouched(d)
    BY <1>11, LockAssumption DEF SupervisorExit, Untouched, LockTypeOK, supervisorVars
  <2> QED
    BY <2>1, <2>2, <1>inv
<1> QED
  BY <1>1, <1>2, <1>3, <1>4, <1>5, <1>6, <1>7, <1>8, <1>9, <1>10,
     <1>11 DEF SupervisorStep

LEMMA LifecycleKeeps ==
  ASSUME LockTypeOK, LockInvariant, NEW o \in Owner,
         LifecycleStep(o)
  PROVE  LockInvariant'
<1> o \in Caller
  BY DEF Caller
<1>inv. ASSUME CallInvariant(o)', \A d \in Caller \ {o} : Untouched(d)
       PROVE  LockInvariant'
  BY <1>inv, UntouchedKeeps DEF LockInvariant
<1>own. CallInvariant(o)
  BY DEF LockInvariant
<1>not. o \notin Recoverer
  BY LockAssumption
<1>1. CASE HearAcquired(o)
  <2>1. CallInvariant(o)'
    BY <1>1, <1>own, <1>not, LockAssumption DEF HearAcquired, CallInvariant, Kept,
       Trusted, OverMeansExited, Over, Holding, Trusting, LockTypeOK,
       supervisorVars, Status
  <2>2. \A d \in Caller \ {o} : Untouched(d)
    BY <1>1, LockAssumption DEF HearAcquired, Untouched, LockTypeOK, supervisorVars,
       Status
  <2> QED
    BY <2>1, <2>2, <1>inv
<1>2. CASE HearUnavailable(o)
  <2>1. CallInvariant(o)'
    BY <1>2, <1>own, <1>not, LockAssumption DEF HearUnavailable, CallInvariant, Kept,
       Trusted, OverMeansExited, Over, Holding, Trusting, LockTypeOK,
       supervisorVars, Status, Terminate
  <2>2. \A d \in Caller \ {o} : Untouched(d)
    BY <1>2, LockAssumption DEF HearUnavailable, Untouched, LockTypeOK,
       supervisorVars, Status, Terminate
  <2> QED
    BY <2>1, <2>2, <1>inv
<1>3. CASE HearReady(o)
  <2>1. CallInvariant(o)'
    BY <1>3, <1>own, <1>not, LockAssumption DEF HearReady, CallInvariant, Kept,
       Trusted, OverMeansExited, Over, Holding, Trusting, LockTypeOK,
       supervisorVars, Status
  <2>2. \A d \in Caller \ {o} : Untouched(d)
    BY <1>3, LockAssumption DEF HearReady, Untouched, LockTypeOK, supervisorVars, Status
  <2> QED
    BY <2>1, <2>2, <1>inv
<1>4. CASE HearReleaseReady(o)
  <2>1. CallInvariant(o)'
    BY <1>4, <1>own, <1>not, LockAssumption DEF HearReleaseReady, CallInvariant,
       Kept, Trusted, OverMeansExited, Over, Holding, Trusting, LockTypeOK,
       supervisorVars, Status, ToChild
  <2>2. \A d \in Caller \ {o} : Untouched(d)
    BY <1>4, LockAssumption DEF HearReleaseReady, Untouched, LockTypeOK,
       supervisorVars, Status, ToChild
  <2> QED
    BY <2>1, <2>2, <1>inv
<1>5. CASE HearReleased(o)
  <2>1. CallInvariant(o)'
    BY <1>5, <1>own, <1>not, LockAssumption DEF HearReleased, CallInvariant, Kept,
       Trusted, OverMeansExited, Over, Holding, Trusting, LockTypeOK,
       supervisorVars, Status
  <2>2. \A d \in Caller \ {o} : Untouched(d)
    BY <1>5, LockAssumption DEF HearReleased, Untouched, LockTypeOK, supervisorVars,
       Status
  <2> QED
    BY <2>1, <2>2, <1>inv
<1>6. CASE SeeExit(o)
  <2>1. CallInvariant(o)'
    BY <1>6, <1>own, <1>not, LockAssumption DEF SeeExit, CallInvariant, Kept,
       Trusted, OverMeansExited, Over, Holding, Trusting, LockTypeOK,
       supervisorVars, Waiting
  <2>2. \A d \in Caller \ {o} : Untouched(d)
    BY <1>6, LockAssumption DEF SeeExit, Untouched, LockTypeOK, supervisorVars, Waiting
  <2> QED
    BY <2>1, <2>2, <1>inv
<1>7. CASE SeeDisconnect(o)
  <2>1. CallInvariant(o)'
    BY <1>7, <1>own, <1>not, LockAssumption DEF SeeDisconnect, CallInvariant, Kept,
       Trusted, OverMeansExited, Over, Holding, Trusting, LockTypeOK,
       supervisorVars, FinalizeFailure, Terminate
  <2>2. \A d \in Caller \ {o} : Untouched(d)
    BY <1>7, LockAssumption DEF SeeDisconnect, Untouched, LockTypeOK, supervisorVars,
       FinalizeFailure, Terminate
  <2> QED
    BY <2>1, <2>2, <1>inv
<1>8. CASE TimeOut(o)
  <2>1. CallInvariant(o)'
    BY <1>8, <1>own, <1>not, LockAssumption DEF TimeOut, CallInvariant, Kept,
       Trusted, OverMeansExited, Over, Holding, Trusting, LockTypeOK,
       supervisorVars, FinalizeFailure, Terminate, Waiting
  <2>2. \A d \in Caller \ {o} : Untouched(d)
    BY <1>8, LockAssumption DEF TimeOut, Untouched, LockTypeOK, supervisorVars,
       FinalizeFailure, Terminate, Waiting
  <2> QED
    BY <2>1, <2>2, <1>inv
<1>9. CASE TerminationTimesOut(o)
  <2>1. CallInvariant(o)'
    BY <1>9, <1>own, <1>not, LockAssumption DEF TerminationTimesOut, CallInvariant,
       Kept, Trusted, OverMeansExited, Over, Holding, Trusting, LockTypeOK,
       supervisorVars
  <2>2. \A d \in Caller \ {o} : Untouched(d)
    BY <1>9, LockAssumption DEF TerminationTimesOut, Untouched, LockTypeOK,
       supervisorVars
  <2> QED
    BY <2>1, <2>2, <1>inv
<1> QED
  BY <1>1, <1>2, <1>3, <1>4, <1>5, <1>6, <1>7, <1>8, <1>9 DEF LifecycleStep

LEMMA OwnerAsksKeeps ==
  ASSUME LockTypeOK, LockInvariant, NEW o \in Owner,
         Acquire(o) \/ ConfirmReady(o) \/ Release(o)
  PROVE  LockInvariant'
<1> o \in Caller
  BY DEF Caller
<1>inv. ASSUME CallInvariant(o)', \A d \in Caller \ {o} : Untouched(d)
       PROVE  LockInvariant'
  BY <1>inv, UntouchedKeeps DEF LockInvariant
<1>own. CallInvariant(o)
  BY DEF LockInvariant
<1>not. o \notin Recoverer
  BY LockAssumption
<1>1. CASE Acquire(o)
  <2>1. CallInvariant(o)'
    BY <1>1, <1>own, <1>not, LockAssumption DEF Acquire, CallInvariant, Kept,
       Trusted, OverMeansExited, Over, Holding, Trusting, LockTypeOK,
       supervisorVars
  <2>2. \A d \in Caller \ {o} : Untouched(d)
    BY <1>1, LockAssumption DEF Acquire, Untouched, LockTypeOK, supervisorVars
  <2> QED
    BY <2>1, <2>2, <1>inv
<1>2. CASE ConfirmReady(o)
  <2>1. CallInvariant(o)'
    BY <1>2, <1>own, <1>not, LockAssumption DEF ConfirmReady, CallInvariant, Kept,
       Trusted, OverMeansExited, Over, Holding, Trusting, LockTypeOK,
       supervisorVars, ToChild
  <2>2. \A d \in Caller \ {o} : Untouched(d)
    BY <1>2, LockAssumption DEF ConfirmReady, Untouched, LockTypeOK, supervisorVars,
       ToChild
  <2> QED
    BY <2>1, <2>2, <1>inv
<1>3. CASE Release(o)
  <2>1. CallInvariant(o)'
    BY <1>3, <1>own, <1>not, LockAssumption DEF Release, CallInvariant, Kept,
       Trusted, OverMeansExited, Over, Holding, Trusting, LockTypeOK,
       supervisorVars, ToChild
  <2>2. \A d \in Caller \ {o} : Untouched(d)
    BY <1>3, LockAssumption DEF Release, Untouched, LockTypeOK, supervisorVars, ToChild
  <2> QED
    BY <2>1, <2>2, <1>inv
<1> QED
  BY <1>1, <1>2, <1>3

LEMMA WorkerKeeps ==
  ASSUME LockTypeOK, LockInvariant, NEW r \in Recoverer,
         WorkerStep(r)
  PROVE  LockInvariant'
<1> r \in Caller
  BY DEF Caller
<1>inv. ASSUME CallInvariant(r)', \A d \in Caller \ {r} : Untouched(d)
       PROVE  LockInvariant'
  BY <1>inv, UntouchedKeeps DEF LockInvariant
<1>own. CallInvariant(r)
  BY DEF LockInvariant
<1>not. r \notin Owner
  BY LockAssumption
<1>1. CASE WorkerListening(r)
  <2>1. CallInvariant(r)'
    BY <1>1, <1>own, <1>not, LockAssumption DEF WorkerListening, CallInvariant, Kept,
       Counted, Holding, LockTypeOK,
       supervisorVars, Finish
  <2>2. \A d \in Caller \ {r} : Untouched(d)
    BY <1>1, LockAssumption DEF WorkerListening, Untouched, LockTypeOK,
       supervisorVars, Finish
  <2> QED
    BY <2>1, <2>2, <1>inv
<1>2. CASE WorkerError(r)
  <2>1. CallInvariant(r)'
    BY <1>2, <1>own, <1>not, LockAssumption DEF WorkerError, CallInvariant, Kept,
       Counted, Holding, LockTypeOK,
       supervisorVars, Finish
  <2>2. \A d \in Caller \ {r} : Untouched(d)
    BY <1>2, LockAssumption DEF WorkerError, Untouched, LockTypeOK, supervisorVars,
       Finish
  <2> QED
    BY <2>1, <2>2, <1>inv
<1>3. CASE WorkerClose(r)
  <2>1. CallInvariant(r)'
    BY <1>3, <1>own, <1>not, LockAssumption DEF WorkerClose, CallInvariant, Kept,
       Counted, Holding, LockTypeOK,
       supervisorVars, Freed
  <2>2. \A d \in Caller \ {r} : Untouched(d)
    BY <1>3, LockAssumption DEF WorkerClose, Untouched, LockTypeOK, supervisorVars,
       Freed
  <2> QED
    BY <2>1, <2>2, <1>inv
<1>4. CASE WorkerClosed(r)
  <2>1. CallInvariant(r)'
    BY <1>4, <1>own, <1>not, LockAssumption DEF WorkerClosed, CallInvariant, Kept,
       Counted, Holding, LockTypeOK,
       supervisorVars, Finish
  <2>2. \A d \in Caller \ {r} : Untouched(d)
    BY <1>4, LockAssumption DEF WorkerClosed, Untouched, LockTypeOK, supervisorVars,
       Finish
  <2> QED
    BY <2>1, <2>2, <1>inv
<1> QED
  BY <1>1, <1>2, <1>3, <1>4 DEF WorkerStep

LEMMA RecovererKeeps ==
  ASSUME LockTypeOK, LockInvariant, NEW r \in Recoverer,
         AcquireReturns(r) \/ ReleaseReturns(r)
         \/ AcquireNamedPipe(r) \/ ReleaseNamedPipe(r)
  PROVE  LockInvariant'
<1> r \in Caller
  BY DEF Caller
<1>inv. ASSUME CallInvariant(r)', \A d \in Caller \ {r} : Untouched(d)
       PROVE  LockInvariant'
  BY <1>inv, UntouchedKeeps DEF LockInvariant
<1>own. CallInvariant(r)
  BY DEF LockInvariant
<1>not. r \notin Owner
  BY LockAssumption
<1>1. CASE AcquireReturns(r)
  <2>1. CallInvariant(r)'
    BY <1>1, <1>own, <1>not, LockAssumption DEF AcquireReturns, CallInvariant, Kept,
       Counted, Holding, LockTypeOK,
       supervisorVars, GiveUp
  <2>2. \A d \in Caller \ {r} : Untouched(d)
    BY <1>1, LockAssumption DEF AcquireReturns, Untouched, LockTypeOK,
       supervisorVars, GiveUp
  <2> QED
    BY <2>1, <2>2, <1>inv
<1>2. CASE ReleaseReturns(r)
  <2>1. CallInvariant(r)'
    BY <1>2, <1>own, <1>not, LockAssumption DEF ReleaseReturns, CallInvariant, Kept,
       Counted, Holding, LockTypeOK,
       supervisorVars, GiveUp
  <2>2. \A d \in Caller \ {r} : Untouched(d)
    BY <1>2, LockAssumption DEF ReleaseReturns, Untouched, LockTypeOK,
       supervisorVars, GiveUp
  <2> QED
    BY <2>1, <2>2, <1>inv
<1>3. CASE AcquireNamedPipe(r)
  <2>1. CallInvariant(r)'
    BY <1>3, <1>own, <1>not, LockAssumption DEF AcquireNamedPipe, CallInvariant,
       Kept, Counted, Holding, LockTypeOK,
       supervisorVars
  <2>2. \A d \in Caller \ {r} : Untouched(d)
    BY <1>3, LockAssumption DEF AcquireNamedPipe, Untouched, LockTypeOK, supervisorVars
  <2> QED
    BY <2>1, <2>2, <1>inv
<1>4. CASE ReleaseNamedPipe(r)
  <2>1. CallInvariant(r)'
    BY <1>4, <1>own, <1>not, LockAssumption DEF ReleaseNamedPipe, CallInvariant,
       Kept, Counted, Holding, LockTypeOK,
       supervisorVars
  <2>2. \A d \in Caller \ {r} : Untouched(d)
    BY <1>4, LockAssumption DEF ReleaseNamedPipe, Untouched, LockTypeOK, supervisorVars
  <2> QED
    BY <2>1, <2>2, <1>inv
<1> QED
  BY <1>1, <1>2, <1>3, <1>4

LEMMA StepKeeps ==
  ASSUME LockTypeOK, LockInvariant, [LockNext]_lockVars
  PROVE  LockInvariant'
<1>1. CASE UNCHANGED lockVars
  <2>1. \A c \in Caller : Untouched(c)
    BY <1>1 DEF Untouched, lockVars, supervisorVars
  <2> QED
    BY <2>1, UntouchedKeeps DEF LockInvariant
<1>2. CASE LockNext
  BY <1>2, KernelKeeps, SupervisorKeeps, LifecycleKeeps, OwnerAsksKeeps, WorkerKeeps,
     RecovererKeeps DEF LockNext
<1> QED
  BY <1>1, <1>2

LEMMA InvariantHolds == LockSpec => [](LockTypeOK /\ LockInvariant)
BY InitType, StepType, InitInvariant, StepKeeps, PTL DEF LockSpec

\* While a caller relies on the lock and its helper runs, the pipe is his,
\* however many operations and recoveries ask for it and whatever is lost
\* (acquireRuntimeOwnedHostOperationSupervisorLock,
\* acquireRuntimeOwnedHostOperationKernelLock).
THEOREM HeldWhileReliedOn == LockSpec => []HeldWhileRelied
<1>1. LockTypeOK /\ LockInvariant => HeldWhileRelied
  BY DEF LockInvariant, CallInvariant, Kept, Trusted, Counted, Holding, HeldWhileRelied,
     Relies, Trusting, Caller
<1> QED
  BY <1>1, InvariantHolds, PTL

\* After released, unavailable or a confirmed failure the call holds nothing
\* (runHostOperationSupervisorLifecycle, releaseNamedPipeKernelLock).
THEOREM AnswersMeanGone == LockSpec => []AnswerMeansGone
<1>1. LockTypeOK /\ LockInvariant => AnswerMeansGone
  BY DEF LockInvariant, CallInvariant, Kept, OverMeansExited, Over, Counted, Holding,
     AnswerMeansGone, Caller
<1> QED
  BY <1>1, InvariantHolds, PTL
=============================================================================

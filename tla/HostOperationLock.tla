------------------------- MODULE HostOperationLock -------------------------
(* The lock of one host operation: a named pipe of the kernel, which exists  *)
(* at most once and goes with the process or the thread that listens on it.  *)
(*                                                                           *)
(* An operation (Owner) has it kept by a supervisor process of its own and   *)
(* talks to that one over IPC (candidate-store-kernel-lock-lifecycle-        *)
(* internal.ts on its side, host-operation-lock-supervisor.ts on the other). *)
(* A recovery of the same operation (Recoverer) has it kept by a worker      *)
(* thread and waits for that one with a shared number (candidate-store-      *)
(* kernel-lock.ts and candidate-store-lock-worker.ts).  Every wait has a     *)
(* timeout, both helpers may be lost, and so may the process that asked.     *)
EXTENDS Integers, Sequences

CONSTANTS
  Owner,       \* calls of acquireRuntimeOwnedHostOperationSupervisorLock
  Recoverer,   \* calls of acquireRuntimeOwnedHostOperationKernelLock
  NoOne,       \* the pipe does not exist
  MaxFaults    \* bound on lost processes and threads

Caller == Owner \cup Recoverer

ASSUME LockAssumption ==
  /\ Owner \cap Recoverer = {} /\ NoOne \notin Caller
  /\ MaxFaults \in Nat

VARIABLES
  pipe,        \* who keeps the pipe
  helper,      \* where the supervisor process or the worker thread is
  call,        \* where the caller is
  answer,      \* what it was told last
  why,         \* what a confirmed termination will be answered as
  detected,    \* onFailureDetected has fired
  killed,      \* the caller has asked the system to end the helper
  toChild, toParent,  \* IPC messages under way
  code,        \* closeExitCode, then the exit code
  report,      \* shouldReportRelease
  reported,    \* the answer to confirm-release has been heard
  shared,      \* the number shared with a worker thread
  faults

supervisorVars == <<toChild, toParent, code, report>>
lockVars == <<pipe, helper, call, answer, why, detected, killed, supervisorVars,
              reported, shared, faults>>

Answers == {"none", "ready", "released", "unavailable",
            "cleanup_confirmed_failure", "cleanup_unknown"}

\* Exit codes of the supervisor.
Orderly == 0
Ended == 1          \* killed or lost
Disconnected == 66
ListenFailed == 67

------------------------------------------------------------------------------
(* Both kinds of helper.                                                     *)

\* server.listen takes the pipe in the same turn, or fails.
Listen(c) ==
  /\ helper[c] = "starting"
  /\ \/ /\ pipe = NoOne
        /\ pipe' = c /\ helper' = [helper EXCEPT ![c] = "bound"]
     \/ /\ pipe # NoOne
        /\ helper' = [helper EXCEPT ![c] = "refused"]
        /\ UNCHANGED pipe
  /\ UNCHANGED <<call, answer, why, detected, killed, supervisorVars, reported,
                 shared, faults>>

Running(c) == helper[c] \notin {"none", "exited"}

Freed(c) == IF pipe = c THEN NoOne ELSE pipe

\* The helper is gone; the kernel closes what it had open.
Gone(c) ==
  /\ pipe' = Freed(c)
  /\ helper' = [helper EXCEPT ![c] = "exited"]

\* The system ends a helper its caller has given up.
Killed(c) ==
  /\ Running(c) /\ killed[c]
  /\ Gone(c)
  /\ code' = [code EXCEPT ![c] = Ended]
  /\ UNCHANGED <<call, answer, why, detected, killed, toChild, toParent, report,
                 reported, shared, faults>>

\* A supervisor process or a worker thread is lost.
HelperLost(c) ==
  /\ Running(c) /\ faults < MaxFaults
  /\ Gone(c)
  /\ code' = [code EXCEPT ![c] = Ended]
  /\ faults' = faults + 1
  /\ UNCHANGED <<call, answer, why, detected, killed, toChild, toParent, report,
                 reported, shared>>

------------------------------------------------------------------------------
(* The supervisor process.                                                   *)

ToParent(o, status) == toParent' = [toParent EXCEPT ![o] = Append(@, status)]

Listening(o) ==
  /\ o \in Owner /\ helper[o] = "bound"
  /\ helper' = [helper EXCEPT ![o] = "acquired"]
  /\ ToParent(o, "acquired")
  /\ UNCHANGED <<pipe, call, answer, why, detected, killed, toChild, code, report,
                 reported, shared, faults>>

ListenError(o) ==
  /\ o \in Owner /\ helper[o] = "refused"
  /\ helper' = [helper EXCEPT ![o] = "final"]
  /\ ToParent(o, "unavailable")
  /\ code' = [code EXCEPT ![o] = ListenFailed]
  /\ UNCHANGED <<pipe, call, answer, why, detected, killed, toChild, report,
                 reported, shared, faults>>

Message(o, m) ==
  /\ o \in Owner /\ toChild[o] # <<>> /\ Head(toChild[o]) = m
  /\ toChild' = [toChild EXCEPT ![o] = Tail(@)]

HearConfirmReady(o) ==
  /\ Message(o, "confirm-ready") /\ helper[o] = "acquired"
  /\ helper' = [helper EXCEPT ![o] = "confirmed"]
  /\ UNCHANGED <<pipe, call, answer, why, detected, killed, toParent, code, report,
                 reported, shared, faults>>

\* The setImmediate of confirm-ready.
SayReady(o) ==
  /\ o \in Owner /\ helper[o] = "confirmed"
  /\ helper' = [helper EXCEPT ![o] = "ready"]
  /\ ToParent(o, "ready")
  /\ UNCHANGED <<pipe, call, answer, why, detected, killed, toChild, code, report,
                 reported, shared, faults>>

\* beginRelease.
HearRelease(o) ==
  /\ Message(o, "release") /\ helper[o] \in {"acquired", "ready"}
  /\ helper' = [helper EXCEPT ![o] = "releasing"]
  /\ UNCHANGED <<pipe, call, answer, why, detected, killed, toParent, code, report,
                 reported, shared, faults>>

\* The pipe is closed and the callback of server.close runs.
ServerClosed(o) ==
  /\ o \in Owner /\ helper[o] \in {"closing", "releasing"}
  /\ pipe' = Freed(o)
  /\ helper' = [helper EXCEPT ![o] = IF @ = "closing" THEN "final" ELSE "prepared"]
  /\ UNCHANGED <<call, answer, why, detected, killed, supervisorVars, reported,
                 shared, faults>>

\* The setImmediate of beginRelease.
Prepared(o) ==
  /\ o \in Owner /\ helper[o] = "prepared"
  /\ \/ /\ code[o] # Orderly
        /\ helper' = [helper EXCEPT ![o] = "left"]
        /\ UNCHANGED toParent
     \/ /\ code[o] = Orderly
        /\ helper' = [helper EXCEPT ![o] = "release_pending"]
        /\ ToParent(o, "release-ready")
  /\ UNCHANGED <<pipe, call, answer, why, detected, killed, toChild, code, report,
                 reported, shared, faults>>

HearConfirmRelease(o) ==
  /\ Message(o, "confirm-release") /\ helper[o] = "release_pending"
  /\ helper' = [helper EXCEPT ![o] = "final"]
  /\ code' = [code EXCEPT ![o] = Orderly]
  /\ report' = [report EXCEPT ![o] = TRUE]
  /\ UNCHANGED <<pipe, call, answer, why, detected, killed, toParent, reported,
                 shared, faults>>

\* The two setImmediate of scheduleFinalExit, then disconnectAndExit.
FinalExit(o) ==
  /\ o \in Owner /\ helper[o] = "final"
  /\ helper' = [helper EXCEPT ![o] = "left"]
  /\ \/ /\ code[o] = Orderly /\ report[o]
        /\ ToParent(o, "released")
     \/ /\ ~(code[o] = Orderly /\ report[o])
        /\ UNCHANGED toParent
  /\ UNCHANGED <<pipe, call, answer, why, detected, killed, toChild, code, report,
                 reported, shared, faults>>

\* The channel is closed from the other side: closeAndExit(false, 66).
HearDisconnect(o) ==
  /\ o \in Owner /\ call[o] = "lost" /\ toChild[o] = <<>> /\ code[o] # Disconnected
  /\ helper[o] \in {"acquired", "confirmed", "ready", "closing", "releasing", "prepared",
                    "release_pending", "final"}
  /\ helper' = [helper EXCEPT ![o] =
                  CASE @ \in {"acquired", "confirmed", "ready"} -> "closing"
                    [] @ = "release_pending" -> "left"
                    [] OTHER -> @]
  /\ code' = [code EXCEPT ![o] = Disconnected]
  /\ report' = [report EXCEPT ![o] = FALSE]
  /\ UNCHANGED <<pipe, call, answer, why, detected, killed, toChild, toParent, reported,
                 shared, faults>>

\* Nothing keeps the process alive any more.
SupervisorExit(o) ==
  /\ o \in Owner /\ helper[o] = "left"
  /\ helper' = [helper EXCEPT ![o] = "exited"]
  /\ UNCHANGED <<pipe, call, answer, why, detected, killed, supervisorVars, reported,
                 shared, faults>>

------------------------------------------------------------------------------
(* runHostOperationSupervisorLifecycle, the side of the operation.           *)

ToChild(o, m) == toChild' = [toChild EXCEPT ![o] = Append(@, m)]

Acquire(o) ==
  /\ o \in Owner /\ call[o] = "none"
  /\ call' = [call EXCEPT ![o] = "acquiring"]
  /\ helper' = [helper EXCEPT ![o] = "starting"]
  /\ UNCHANGED <<pipe, answer, why, detected, killed, supervisorVars, reported,
                 shared, faults>>

\* terminateSupervisor of one that has not been seen to exit.
Terminate(o, outcome) ==
  /\ call' = [call EXCEPT ![o] = "terminating"]
  /\ why' = [why EXCEPT ![o] = outcome]
  /\ killed' = [killed EXCEPT ![o] = TRUE]

\* finalizeFailure: the failure is announced before the supervisor is ended.
FinalizeFailure(o) ==
  /\ Terminate(o, "cleanup_confirmed_failure")
  /\ detected' = [detected EXCEPT ![o] = call[o] # "acquiring"]

Status(o, status) ==
  /\ o \in Owner /\ toParent[o] # <<>> /\ Head(toParent[o]) = status
  /\ toParent' = [toParent EXCEPT ![o] = Tail(@)]

HearAcquired(o) ==
  /\ Status(o, "acquired") /\ call[o] = "acquiring"
  /\ call' = [call EXCEPT ![o] = "acquired"]
  /\ UNCHANGED <<pipe, helper, answer, why, detected, killed, toChild, code, report,
                 reported, shared, faults>>

HearUnavailable(o) ==
  /\ Status(o, "unavailable") /\ call[o] = "acquiring"
  /\ Terminate(o, "unavailable")
  /\ UNCHANGED <<pipe, helper, answer, detected, toChild, code, report, reported,
                 shared, faults>>

ConfirmReady(o) ==
  /\ o \in Owner /\ call[o] = "acquired"
  /\ call' = [call EXCEPT ![o] = "confirming"]
  /\ ToChild(o, "confirm-ready")
  /\ UNCHANGED <<pipe, helper, answer, why, detected, killed, toParent, code, report,
                 reported, shared, faults>>

HearReady(o) ==
  /\ Status(o, "ready") /\ call[o] = "confirming"
  /\ call' = [call EXCEPT ![o] = "ready"]
  /\ answer' = [answer EXCEPT ![o] = "ready"]
  /\ UNCHANGED <<pipe, helper, why, detected, killed, toChild, code, report, reported,
                 shared, faults>>

Release(o) ==
  /\ o \in Owner /\ call[o] \in {"acquired", "ready"}
  /\ call' = [call EXCEPT ![o] = "releasing"]
  /\ ToChild(o, "release")
  /\ UNCHANGED <<pipe, helper, answer, why, detected, killed, toParent, code, report,
                 reported, shared, faults>>

HearReleaseReady(o) ==
  /\ Status(o, "release-ready") /\ call[o] = "releasing"
  /\ call' = [call EXCEPT ![o] = "confirming_release"]
  /\ ToChild(o, "confirm-release")
  /\ UNCHANGED <<pipe, helper, answer, why, detected, killed, code, report, reported,
                 shared, faults>>

HearReleased(o) ==
  /\ Status(o, "released") /\ call[o] = "confirming_release"
  /\ reported' = [reported EXCEPT ![o] = TRUE]
  /\ UNCHANGED <<pipe, helper, call, answer, why, detected, killed, toChild, code,
                 report, shared, faults>>

Waiting(o) == call[o] \in {"acquiring", "confirming", "releasing", "confirming_release"}

Trusting(o) == call[o] \in {"acquired", "confirming", "ready"}

\* The exit event.  It may overtake messages that were sent before it.
SeeExit(o) ==
  /\ o \in Owner /\ helper[o] = "exited"
  /\ Waiting(o) \/ Trusting(o) \/ call[o] = "terminating"
  /\ call' = [call EXCEPT ![o] = "closed"]
  /\ answer' = [answer EXCEPT ![o] =
                  IF call[o] = "terminating" THEN why[o]
                  ELSE IF reported[o] /\ code[o] = Orderly THEN "released"
                  ELSE "cleanup_confirmed_failure"]
  /\ detected' = [detected EXCEPT ![o] =
                    @ \/ (answer'[o] # "released" /\ call[o] \notin {"acquiring", "terminating"})]
  /\ UNCHANGED <<pipe, helper, why, killed, supervisorVars, reported, shared,
                 faults>>

\* The disconnect event, after the last message: unexpectedLoss, unless a
\* closure is expected.
SeeDisconnect(o) ==
  /\ o \in Owner /\ helper[o] \in {"left", "exited"} /\ toParent[o] = <<>>
  /\ Trusting(o)
  /\ FinalizeFailure(o)
  /\ UNCHANGED <<pipe, helper, answer, supervisorVars, reported, shared, faults>>

\* A wait for the supervisor runs out.
TimeOut(o) ==
  /\ o \in Owner /\ Waiting(o)
  /\ FinalizeFailure(o)
  /\ UNCHANGED <<pipe, helper, answer, supervisorVars, reported, shared, faults>>

\* Mutant of TerminationTimesOut: the state of the call is what is answered.
TerminationTimesOutRaw(o) ==
  /\ o \in Owner /\ call[o] = "terminating"
  /\ call' = [call EXCEPT ![o] = "unresolved"]
  /\ answer' = [answer EXCEPT ![o] = call[o]]
  /\ UNCHANGED <<pipe, helper, why, detected, killed, supervisorVars, reported,
                 shared, faults>>

\* Mutant of TerminationTimesOut: the timeout is taken for the end.
TerminationPresumed(o) ==
  /\ o \in Owner /\ call[o] = "terminating"
  /\ call' = [call EXCEPT ![o] = "unresolved"]
  /\ answer' = [answer EXCEPT ![o] = why[o]]
  /\ UNCHANGED <<pipe, helper, why, detected, killed, supervisorVars, reported,
                 shared, faults>>

\* The end of the supervisor is not seen in time.
TerminationTimesOut(o) ==
  /\ o \in Owner /\ call[o] = "terminating"
  /\ call' = [call EXCEPT ![o] = "unresolved"]
  /\ answer' = [answer EXCEPT ![o] = "cleanup_unknown"]
  /\ UNCHANGED <<pipe, helper, why, detected, killed, supervisorVars, reported,
                 shared, faults>>

------------------------------------------------------------------------------
(* The worker thread and the thread that waits for it.                       *)

\* finish: the number is stored and the waiting thread woken.
Finish(r, from, to, value) ==
  /\ r \in Recoverer /\ helper[r] = from
  /\ helper' = [helper EXCEPT ![r] = to]
  /\ shared' = [shared EXCEPT ![r] = value]
  /\ UNCHANGED <<pipe, call, answer, why, detected, killed, supervisorVars, reported,
                 faults>>

WorkerListening(r) == Finish(r, "bound", "holding", 1)
WorkerError(r) == Finish(r, "refused", "done", -1)
WorkerClosed(r) == Finish(r, "unbound", "done", 2)

\* The release message: server.close gives the pipe back, its callback follows.
WorkerClose(r) ==
  /\ r \in Recoverer /\ helper[r] = "holding"
  /\ call[r] = "releasing" \/ answer[r] = "cleanup_unknown"
  /\ pipe' = Freed(r)
  /\ helper' = [helper EXCEPT ![r] = "unbound"]
  /\ UNCHANGED <<call, answer, why, detected, killed, supervisorVars, reported,
                 shared, faults>>

\* acquireNamedPipeKernelLock: the thread blocks until the number changes.
AcquireNamedPipe(r) ==
  /\ r \in Recoverer /\ call[r] = "none"
  /\ call' = [call EXCEPT ![r] = "acquiring"]
  /\ helper' = [helper EXCEPT ![r] = "starting"]
  /\ UNCHANGED <<pipe, answer, why, detected, killed, supervisorVars, reported,
                 shared, faults>>

\* Mutant of GiveUp: the worker is left to itself.
GiveUpQuietly(r, result) ==
  /\ call' = [call EXCEPT ![r] = "closed"]
  /\ answer' = [answer EXCEPT ![r] = result]
  /\ UNCHANGED killed

\* The call ends; worker.terminate() is not waited for.
GiveUp(r, result) ==
  /\ call' = [call EXCEPT ![r] = "closed"]
  /\ answer' = [answer EXCEPT ![r] = result]
  /\ killed' = [killed EXCEPT ![r] = TRUE]

\* Mutant of AcquireReturns: any number but 0 is taken for success.
AcquireReturnsWoken(r) ==
  /\ r \in Recoverer /\ call[r] = "acquiring"
  /\ \/ /\ shared[r] # 0
        /\ call' = [call EXCEPT ![r] = "held"]
        /\ UNCHANGED <<answer, killed>>
     \/ /\ shared[r] = 0
        /\ GiveUp(r, "unavailable")
  /\ UNCHANGED <<pipe, helper, why, detected, supervisorVars, reported, shared,
                 faults>>

AcquireReturns(r) ==
  /\ r \in Recoverer /\ call[r] = "acquiring"
  /\ \/ /\ shared[r] = 1
        /\ call' = [call EXCEPT ![r] = "held"]
        /\ UNCHANGED <<answer, killed>>
     \/ /\ shared[r] # 1      \* refused, or the number is still 0 in the end
        /\ GiveUp(r, "unavailable")
  /\ UNCHANGED <<pipe, helper, why, detected, supervisorVars, reported, shared,
                 faults>>

ReleaseNamedPipe(r) ==
  /\ r \in Recoverer /\ call[r] = "held"
  /\ call' = [call EXCEPT ![r] = "releasing"]
  /\ UNCHANGED <<pipe, helper, answer, why, detected, killed, supervisorVars, reported,
                 shared, faults>>

ReleaseReturns(r) ==
  /\ r \in Recoverer /\ call[r] = "releasing"
  /\ \/ /\ shared[r] = 2
        /\ call' = [call EXCEPT ![r] = "closed"]
        /\ answer' = [answer EXCEPT ![r] = "released"]
        /\ UNCHANGED killed
     \/ /\ shared[r] = 1      \* until the timeout
        /\ GiveUp(r, "cleanup_unknown")
  /\ UNCHANGED <<pipe, helper, why, detected, supervisorVars, reported, shared,
                 faults>>

------------------------------------------------------------------------------

\* The process of the caller is lost.  A worker thread goes with it, a
\* supervisor process does not.
CallerLost(c) ==
  /\ call[c] \notin {"none", "closed", "lost"} /\ faults < MaxFaults
  /\ call' = [call EXCEPT ![c] = "lost"]
  /\ \/ c \in Owner /\ UNCHANGED <<pipe, helper>>
     \/ c \in Recoverer /\ Gone(c)
  /\ faults' = faults + 1
  /\ UNCHANGED <<answer, why, detected, killed, supervisorVars, reported, shared>>

LockInit ==
  /\ pipe = NoOne
  /\ helper = [c \in Caller |-> "none"]
  /\ call = [c \in Caller |-> "none"]
  /\ answer = [c \in Caller |-> "none"]
  /\ why = [c \in Caller |-> "none"]
  /\ detected = [c \in Caller |-> FALSE]
  /\ killed = [c \in Caller |-> FALSE]
  /\ toChild = [c \in Caller |-> <<>>]
  /\ toParent = [c \in Caller |-> <<>>]
  /\ code = [c \in Caller |-> Orderly]
  /\ report = [c \in Caller |-> FALSE]
  /\ reported = [c \in Caller |-> FALSE]
  /\ shared = [c \in Caller |-> 0]
  /\ faults = 0

SupervisorStep(o) ==
  \/ Listening(o) \/ ListenError(o) \/ HearConfirmReady(o) \/ SayReady(o)
  \/ HearRelease(o) \/ ServerClosed(o) \/ Prepared(o) \/ HearConfirmRelease(o)
  \/ FinalExit(o) \/ HearDisconnect(o) \/ SupervisorExit(o)

LifecycleStep(o) ==
  \/ HearAcquired(o) \/ HearUnavailable(o) \/ HearReady(o) \/ HearReleaseReady(o)
  \/ HearReleased(o) \/ SeeExit(o) \/ SeeDisconnect(o) \/ TimeOut(o)
  \/ TerminationTimesOut(o)

WorkerStep(r) ==
  \/ WorkerListening(r) \/ WorkerError(r) \/ WorkerClose(r) \/ WorkerClosed(r)

LockNext ==
  \/ \E c \in Caller : Listen(c) \/ Killed(c) \/ HelperLost(c) \/ CallerLost(c)
  \/ \E o \in Owner :
       \/ SupervisorStep(o) \/ LifecycleStep(o)
       \/ Acquire(o) \/ ConfirmReady(o) \/ Release(o)
  \/ \E r \in Recoverer :
       \/ WorkerStep(r) \/ AcquireReturns(r) \/ ReleaseReturns(r)
       \/ AcquireNamedPipe(r) \/ ReleaseNamedPipe(r)

LockSpec == LockInit /\ [][LockNext]_lockVars

\* Event loops turn, timers run out, the system ends what it was asked to end
\* and reports it.  Nothing is assumed of what the callers ask for.
FairLockSpec ==
  /\ LockSpec
  /\ \A c \in Caller : WF_lockVars(Listen(c)) /\ WF_lockVars(Killed(c))
  /\ \A o \in Owner : WF_lockVars(SupervisorStep(o)) /\ WF_lockVars(LifecycleStep(o))
  /\ \A r \in Recoverer :
       WF_lockVars(WorkerStep(r)) /\ WF_lockVars(AcquireReturns(r) \/ ReleaseReturns(r))

------------------------------------------------------------------------------
(* Properties.                                                               *)

\* Every variable has its type.
LockTypeOK ==
  /\ pipe \in Caller \cup {NoOne}
  /\ helper \in [Caller -> {"none", "starting", "bound", "refused", "acquired",
        "confirmed", "ready", "releasing", "closing", "prepared", "release_pending",
        "final", "left", "holding", "unbound", "done", "exited"}]
  /\ call \in [Caller -> {"none", "acquiring", "acquired", "confirming", "ready",
        "held", "releasing", "confirming_release", "terminating", "closed",
        "unresolved", "lost"}]
  /\ answer \in [Caller -> Answers] /\ why \in [Caller -> Answers]
  /\ detected \in [Caller -> BOOLEAN] /\ killed \in [Caller -> BOOLEAN]
  /\ toChild \in [Caller -> Seq({"confirm-ready", "release", "confirm-release"})]
  /\ toParent \in
       [Caller -> Seq({"acquired", "unavailable", "ready", "release-ready", "released"})]
  /\ code \in [Caller -> {Orderly, Ended, Disconnected, ListenFailed}]
  /\ report \in [Caller -> BOOLEAN] /\ reported \in [Caller -> BOOLEAN]
  /\ shared \in [Caller -> {-1, 0, 1, 2}]
  /\ faults \in 0..MaxFaults

\* A caller that works under the lock: an operation that may issue effects, a
\* recovery for which assertLive answers true.
Relies(c) == IF c \in Owner THEN Trusting(c) ELSE call[c] = "held"

\* As long as a caller relies on the lock and what keeps it for him runs, the
\* pipe is his: no timeout, no late answer and no other caller takes it from
\* him, so that an operation and the recovery of it meet only over a helper
\* that is lost.
HeldWhileRelied ==
  \A c \in Caller : Relies(c) /\ helper[c] # "exited" => pipe = c

\* What is answered as over is over: after released, unavailable or a confirmed
\* failure nothing of the call can hold the pipe any more, and the release of
\* a worker has given it back.
AnswerMeansGone ==
  /\ \A o \in Owner :
       answer[o] \in {"released", "unavailable", "cleanup_confirmed_failure"} =>
         helper[o] = "exited" /\ pipe # o
  /\ \A r \in Recoverer : answer[r] = "released" => pipe # r

\* No pipe stays behind a call that is over, given up or lost with its process;
\* a worker that takes it only after its caller has stopped waiting included.
NothingStaysTaken ==
  \A c \in Caller :
    (pipe = c /\ call[c] \in {"closed", "unresolved", "lost"}) ~> pipe # c

\* An operation whose supervisor is lost learns of it (onFailureDetected).
LossIsNoticed ==
  \A o \in Owner :
    (Trusting(o) /\ helper[o] = "exited") ~> (detected[o] \/ call[o] = "lost")

\* The lock settles: what is lost is noticed, what is over is given back.
LockSettles == NothingStaysTaken /\ LossIsNoticed

=============================================================================

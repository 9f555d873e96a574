--------------------------- MODULE DockerRecovery ---------------------------
(***************************************************************************)
(* The Docker resources of an isolated task and the journal that lets      *)
(* another process put an end to them (docker-recovery-runtime-internal,   *)
(* docker-process-controller, docker-restart-execution).  A task writes    *)
(* down what it is about to do before it does it; when its process is lost *)
(* a recovery reads the journal and finishes the task in small durable     *)
(* steps, any of which may be the last of its process too.                 *)
(*                                                                         *)
(* A durable write is one step: the journal commits content and commit     *)
(* mark one after the other and keeps a write that was cut, for a person   *)
(* to look at.  The active binding is the exception, its two halves are    *)
(* told apart by the recovery.  A lock is held by being in a step that     *)
(* holds it; taking a lock never waits.                                    *)
(***************************************************************************)
EXTENDS Naturals, Sequences, FiniteSets, Functions

CONSTANTS
  Task,        \* isolated tasks, each with an operation nonce of its own
  Home,        \* logical provider homes
  HomeOf,      \* the home a task uses
  Purpose,     \* CREATE purposes of a plan
  Faults,      \* what may go wrong, a subset of FaultKind
  MaxCuts      \* bound: recoveries and restarts that are cut

\* "resumable" cuts a recovery only where the next one can go on.
FaultKind == {"runner", "recovery", "resumable", "restart", "engine", "host"}

ASSUME DockerConstants ==
  /\ HomeOf \in [Task -> Home] /\ Faults \subseteq FaultKind /\ MaxCuts \in Nat
  /\ "none" \notin Task

VARIABLES
  disk,      \* per task: its journal, its host directory and its host marker
  pointer,   \* per home: the task its active-lease pointer names
  create,    \* per task and purpose: where the CREATE request or resource is
  engine,    \* whether the Docker engine runs
  runner,    \* the step each task's own process is in
  recovery,  \* the recovery process: its step and its task
  restart,   \* the engine restart process
  told,      \* tasks a recovery was reported complete for
  cuts       \* cuts so far

durable == <<disk, pointer>>
dockerVars == <<disk, pointer, create, engine, runner, recovery, restart, told, cuts>>

-----------------------------------------------------------------------------
(* The journal.                                                            *)

\* Where the record of a task is: its base moves from the runtime root into a
\* directory, which a manifest closes before it is renamed and removed.
StageOrder == <<"none", "pending", "paired", "directory", "moved", "open",
                "manifest", "tombstone", "removed">>
Stage == {StageOrder[i] : i \in 1..Len(StageOrder)}
StageAfter(s) == StageOrder[1 + CHOOSE i \in 1..Len(StageOrder) : StageOrder[i] = s]

\* The records of an operation directory that are written at most once.
OperationRecord ==
  {"host_begin_intent", "host_begin_receipt", "docker_absence", "mount_completion",
   "host_complete_intent", "host_complete_receipt", "lease_release",
   "normal_run_complete", "docker_absence_crash", "mount_crash_absence",
   "host_crash_absence_intent", "host_crash_absence_receipt",
   "host_precleanup_intent", "host_cleanup_intent", "host_cleanup_receipt"}

Submission == {"none", "submitted", "received", "fenced"}

\* The phases an engine restart records, in order.
RestartOrder == <<"none", "stop_intent", "stopped", "start_intent", "ready", "settled">>
RestartPhase == {RestartOrder[i] : i \in 1..Len(RestartOrder)}

Disk ==
  [stage      : Stage,
   file       : SUBSET OperationRecord,
   submission : [Purpose -> Submission],
   restart    : RestartPhase,
   active     : {"absent", "uncommitted", "committed"},
   root       : BOOLEAN,
   marker     : {"initial", "started", "completed", "docker_absent", "gone"},
   completed  : BOOLEAN]

NewDisk ==
  [stage |-> "none", file |-> {}, submission |-> [p \in Purpose |-> "none"],
   restart |-> "none", active |-> "absent", root |-> TRUE, marker |-> "initial",
   completed |-> FALSE]

RunnerPC == {"ready", "begin", "run", "start", "wait", "cleanup", "confirm", "complete",
             "tidy", "settle", "settled", "closing", "blocked", "done", "dead"}
RecoveryPC == {"idle", "enter", "place", "inspect", "declare", "docker", "confirm",
               "normal", "complete", "crash", "unstarted", "precleaned", "cleaned",
               "manifest", "receipt", "close", "tell"}
RestartPC == {"idle", "stop_intent", "stop", "stopped", "start_intent", "start",
              "ready", "settled"}

DockerTypeOK ==
  /\ disk \in [Task -> Disk]
  /\ pointer \in [Home -> Task \cup {"none"}]
  /\ create \in [Task -> [Purpose -> {"none", "client", "engine", "exists"}]]
  /\ engine \in BOOLEAN
  /\ runner \in [Task -> RunnerPC]
  /\ recovery \in [pc : RecoveryPC, task : Task]
  /\ restart \in [pc : RestartPC, task : Task]
  /\ told \subseteq Task
  /\ cuts \in 0..MaxCuts

Init ==
  /\ disk = [t \in Task |-> NewDisk]
  /\ pointer = [h \in Home |-> "none"]
  /\ create = [t \in Task |-> [p \in Purpose |-> "none"]]
  /\ engine = TRUE
  /\ runner = [t \in Task |-> "ready"]
  /\ recovery \in [pc : {"idle"}, task : Task]
  /\ restart = [pc |-> "idle", task |-> recovery.task]
  /\ told = {}
  /\ cuts = 0

-----------------------------------------------------------------------------
(* Locks.  The owner of a task holds the generation lock of its host        *)
(* directory until the directory is gone; the lock of the home from begin   *)
(* to the end of the run, and afresh for each write after that.             *)

Recovering(t) == recovery.pc # "idle" /\ recovery.task = t
Restarting(t) == restart.pc # "idle" /\ restart.task = t

\* The steps in which a recovery has let go of the host and state locks, to
\* observe the engine, and those in which it has let go of the state lock only.
RecoveryObserves == recovery.pc \in {"idle", "enter", "docker"}
RecoveryActsOnHost ==
  LET d == disk[recovery.task] IN
  \/ /\ recovery.pc = "confirm" /\ d.marker = "started"
     /\ "host_crash_absence_intent" \in d.file
  \/ /\ recovery.pc \in {"complete", "crash", "unstarted"} /\ d.marker # "gone"
     /\ "host_cleanup_intent" \in d.file

HostFree(t) ==
  /\ runner[t] \in {"settle", "settled", "closing", "done", "dead"}
  /\ ~(Recovering(t) /\ ~RecoveryObserves)
  /\ ~Restarting(t)

HomeFree(h) ==
  \A t \in Task : HomeOf[t] = h =>
    /\ runner[t] \in {"ready", "tidy", "settle", "settled", "blocked", "done", "dead"}
    /\ ~Recovering(t) /\ ~Restarting(t)

\* No task's own process and no restart holds the runtime-state lock.
StateLeft ==
  /\ \A t \in Task : runner[t] \notin {"begin", "complete", "closing"}
  /\ restart.pc = "idle"
StateFree == StateLeft /\ (RecoveryObserves \/ RecoveryActsOnHost)

-----------------------------------------------------------------------------
(* Obligations.  What a process must do next, in the order the code does   *)
(* it; one that is met already is passed over, as the presence checks of   *)
(* the code do.                                                            *)

Met(t, o) ==
  LET d == disk[t] IN
  CASE o = "placed"       -> d.stage = "open"
    [] o = "point"        -> pointer[HomeOf[t]] = t
    [] o = "bind"         -> d.active # "absent"
    [] o = "commit_bind"  -> d.active = "committed"
    [] o = "unbind"       -> d.active = "absent"
    [] o = "unpoint"      -> pointer[HomeOf[t]] # t
    [] o = "host_started" -> d.marker = "started"
    [] o = "host_completed" -> d.marker = "completed"
    [] o = "host_docker_absent" -> d.marker = "docker_absent"
    [] o = "host_root"    -> ~d.root
    [] o = "host_marker"  -> d.marker = "gone"
    [] OTHER              -> o \in d.file

\* The journal and the host of a task once it has met o.  The active binding
\* lies in the host directory and goes with it.
After(d, o) ==
  CASE o = "placed"       -> [d EXCEPT !.stage = StageAfter(@)]
    [] o = "bind"         -> [d EXCEPT !.active = "uncommitted"]
    [] o = "commit_bind"  -> [d EXCEPT !.active = "committed"]
    [] o = "unbind"       -> [d EXCEPT !.active = "absent"]
    [] o = "host_started" -> [d EXCEPT !.marker = "started"]
    [] o = "host_completed" -> [d EXCEPT !.marker = "completed"]
    [] o = "host_docker_absent" -> [d EXCEPT !.marker = "docker_absent"]
    [] o = "host_root"    -> [d EXCEPT !.root = FALSE, !.active = "absent"]
    [] o = "host_marker"  -> [d EXCEPT !.marker = "gone"]
    [] o \in {"point", "unpoint"} -> d
    [] OTHER              -> [d EXCEPT !.file = @ \cup {o}]

\* Mutant of Meet: the pointer names the home, not the task.
MeetNamesHome(t, o) ==
  /\ disk' = [disk EXCEPT ![t] = After(@, o)]
  /\ pointer' = CASE o = "point"   -> [pointer EXCEPT ![HomeOf[t]] = HomeOf[t]]
                  [] o = "unpoint" -> [pointer EXCEPT ![HomeOf[t]] = "none"]
                  [] OTHER         -> pointer

Meet(t, o) ==
  /\ disk' = [disk EXCEPT ![t] = After(@, o)]
  /\ pointer' = CASE o = "point"   -> [pointer EXCEPT ![HomeOf[t]] = t]
                  [] o = "unpoint" -> [pointer EXCEPT ![HomeOf[t]] = "none"]
                  [] OTHER         -> pointer

\* o is the first obligation of the plan that is not met.
Due(t, plan, o) ==
  \E i \in 1..Len(plan) :
    /\ plan[i] = o /\ ~Met(t, o)
    /\ \A j \in 1..(i - 1) : Met(t, plan[j])
Fulfilled(t, plan) == \A i \in 1..Len(plan) : Met(t, plan[i])

-----------------------------------------------------------------------------
(* The process of a task.                                                  *)

BeginPlan == <<"placed", "host_begin_intent", "point", "bind", "commit_bind",
               "host_started", "host_begin_receipt">>
ConfirmPlan == <<"docker_absence", "mount_completion", "host_complete_intent",
                 "host_completed">>
CompletePlan == <<"host_complete_receipt", "unbind", "unpoint", "lease_release",
                  "normal_run_complete">>
TidyPlan == <<"host_cleanup_intent", "host_root">>
SettlePlan == <<"host_marker", "host_cleanup_receipt">>

Walk(t, from, to) == runner[t] = from /\ runner' = [runner EXCEPT ![t] = to]

\* One obligation of the plan of a step, the last of which ends the step.
RunnerFollows(t, from, plan, to) ==
  runner[t] = from /\ \E o \in Range(plan) :
    /\ Due(t, plan, o) /\ Meet(t, o)
    /\ Walk(t, from, IF o = plan[Len(plan)] THEN to ELSE from)
    /\ CASE o \in {"docker_absence", "mount_completion", "host_complete_intent"} ->
             StateFree
         [] o \in {"host_cleanup_intent", "host_cleanup_receipt"} ->
             HomeFree(HomeOf[t]) /\ StateFree /\ disk[t].stage = "open"
         [] OTHER -> TRUE
    /\ UNCHANGED <<create, engine, recovery, restart, told, cuts>>

RunnerWrites(t) ==
  \/ RunnerFollows(t, "begin", BeginPlan, "run")
  \/ RunnerFollows(t, "confirm", ConfirmPlan, "complete")
  \/ RunnerFollows(t, "complete", CompletePlan, "tidy")
  \/ RunnerFollows(t, "tidy", TidyPlan, "settle")
  \/ RunnerFollows(t, "settle", SettlePlan, "settled")

KeepOthers == UNCHANGED <<engine, recovery, restart, told, cuts>>

\* Mutant of RunnerBegins: a pointer that is there is written over.
RunnerBeginsAnyway(t) ==
  /\ HomeFree(HomeOf[t]) /\ StateFree
  /\ Walk(t, "ready", "begin")
  /\ UNCHANGED <<durable, create>> /\ KeepOthers

\* Begin takes every lock, and a home some other task's pointer names refuses.
RunnerBegins(t) ==
  /\ HomeFree(HomeOf[t]) /\ StateFree /\ pointer[HomeOf[t]] = "none"
  /\ Walk(t, "ready", "begin")
  /\ UNCHANGED <<durable, create>> /\ KeepOthers

\* The submission is on disk before the command that may create is started.
RunnerSubmits(t, p) ==
  /\ StateFree /\ disk[t].submission[p] = "none"
  /\ Walk(t, "run", "start")
  /\ disk' = [disk EXCEPT ![t].submission[p] = "submitted"]
  /\ UNCHANGED <<pointer, create>> /\ KeepOthers

\* Starting the command, or stopping short of it on a cancellation.
RunnerStarts(t, p) ==
  /\ disk[t].submission[p] = "submitted" /\ Walk(t, "start", "wait")
  /\ create' = [create EXCEPT ![t][p] = "client"]
  /\ UNCHANGED durable /\ KeepOthers

RunnerReceives(t, p) ==
  /\ StateFree /\ disk[t].submission[p] = "submitted" /\ create[t][p] = "exists"
  /\ Walk(t, "wait", "run")
  /\ disk' = [disk EXCEPT ![t].submission[p] = "received"]
  /\ UNCHANGED <<pointer, create>> /\ KeepOthers

\* The run is over, by its end, a failure, a timeout or a cancellation.
RunnerStops(t) ==
  /\ \E from \in {"run", "start", "wait"} : Walk(t, from, "cleanup")
  /\ UNCHANGED <<durable, create>> /\ KeepOthers

\* Cleanup removes by the id a receipt holds, and needs a receipt of every
\* submission to call the task clean.
RunnerRemoves(t, p) ==
  /\ runner[t] = "cleanup" /\ engine
  /\ disk[t].submission[p] = "received" /\ create[t][p] = "exists"
  /\ create' = [create EXCEPT ![t][p] = "none"]
  /\ UNCHANGED <<durable, runner>> /\ KeepOthers

RunnerCleaned(t) ==
  /\ engine
  /\ \A p \in Purpose :
       disk[t].submission[p] # "submitted" /\ create[t][p] # "exists"
  /\ Walk(t, "cleanup", "confirm")
  /\ UNCHANGED <<durable, create>> /\ KeepOthers

\* Nothing is left of the host: the directory of the journal is closed.
RunnerCloses(t) ==
  /\ LET s == disk[t].stage IN
     \/ s = "open" /\ HomeFree(HomeOf[t]) /\ StateFree
        /\ pointer[HomeOf[t]] = "none" /\ Walk(t, "settled", "closing")
     \/ s \in {"manifest", "tombstone"}
        /\ Walk(t, "closing", IF s = "tombstone" THEN "done" ELSE "closing")
  /\ disk' = [disk EXCEPT ![t].stage = StageAfter(@)]
  /\ UNCHANGED <<pointer, create>> /\ KeepOthers

\* A step that cannot be done ends the run; while the host directory is there
\* its owner keeps the generation lock until it exits.
RunnerGivesUp(t) ==
  /\ \/ \E from \in {"begin", "cleanup", "confirm", "complete", "tidy"} :
          Walk(t, from, "blocked")
     \/ \E from \in {"settle", "settled", "closing", "blocked"} : Walk(t, from, "dead")
  /\ UNCHANGED <<durable, create>> /\ KeepOthers

RunnerCrashes(t) ==
  /\ "runner" \in Faults /\ runner[t] \notin {"ready", "done", "dead"}
  /\ runner' = [runner EXCEPT ![t] = "dead"]
  /\ UNCHANGED <<durable, create>> /\ KeepOthers

Runner(t) ==
  \/ RunnerWrites(t) \/ RunnerBegins(t) \/ RunnerStops(t) \/ RunnerCleaned(t)
  \/ RunnerCloses(t)
  \/ \E p \in Purpose : \/ RunnerSubmits(t, p) \/ RunnerStarts(t, p)
                        \/ RunnerReceives(t, p) \/ RunnerRemoves(t, p)

-----------------------------------------------------------------------------
(* The Docker engine and its clients, outside the repository: a request a  *)
(* client has made may reach the engine late, after the process that asked *)
(* is gone, and is lost with the client or with the engine.                *)

KeepProcesses == UNCHANGED <<durable, runner, recovery, restart, told, cuts>>

CreateMoves(t, p) ==
  /\ \/ create[t][p] = "client" /\ engine
        /\ create' = [create EXCEPT ![t][p] = "engine"]
     \/ create[t][p] = "engine"
        /\ create' = [create EXCEPT ![t][p] = "exists"]
  /\ UNCHANGED engine /\ KeepProcesses

CreateFails(t, p) ==
  /\ create[t][p] \in {"client", "engine"}
  /\ create' = [create EXCEPT ![t][p] = "none"]
  /\ UNCHANGED engine /\ KeepProcesses

Cut(c) == [t \in Task |-> [p \in Purpose |-> IF c[t][p] = "engine" THEN "none" ELSE c[t][p]]]

\* A restart that was cut or refused goes on only if it finds the engine as its
\* last record says; a person sees to that.
Pending(t) == Cardinality({p \in Purpose : disk[t].submission[p] = "submitted"}) = 1
Stuck ==
  /\ restart.pc = "idle"
  /\ \E t \in Task :
       LET stopping == Pending(t) /\ disk[t].restart \in {"stop_intent", "stopped"} IN
       disk[t].stage = "open" /\ engine = stopping /\ disk[t].restart # "none"

EngineByHand ==
  /\ "engine" \in Faults \/ Stuck
  /\ engine' = ~engine
  /\ create' = Cut(create)
  /\ KeepProcesses

-----------------------------------------------------------------------------
(* Recovery.  It reads what is there, decides which of the ends of a task  *)
(* this can be, and goes through that end; what it cannot place it refuses *)
(* and leaves as it is.                                                    *)

NormalPlan == <<"unbind", "unpoint", "lease_release", "normal_run_complete">>
FinalPlan == <<"host_cleanup_intent", "host_root", "host_marker", "host_cleanup_receipt">>
ConfirmAbsencePlan ==
  <<"host_crash_absence_intent", "host_docker_absent", "host_crash_absence_receipt">>
\* Mutant of CrashPlan: the home stays reserved.
CrashPlanKeepsPointer == <<"unbind", "mount_crash_absence">> \o FinalPlan

CrashPlan == <<"unbind", "mount_crash_absence", "unpoint">> \o FinalPlan
UnstartedPlan == <<"unbind", "unpoint">> \o FinalPlan
PrecleanedPlan == <<"unbind", "unpoint", "docker_absence_crash", "mount_crash_absence",
                    "host_cleanup_receipt">>
CleanedPlan == <<"mount_crash_absence", "unpoint", "host_cleanup_receipt">>

Clean(d) == ~d.root /\ d.marker = "gone"
Submitted(d) == \E p \in Purpose : d.submission[p] # "none"

\* The pointer of the home and the active binding of the host agree.
Closure(t) ==
  \/ pointer[HomeOf[t]] = t
  \/ pointer[HomeOf[t]] = "none" /\ disk[t].active = "absent"

\* Which end the journal says the task has come to.
End(d) ==
  IF "normal_run_complete" \in d.file THEN "complete"
  ELSE IF "host_complete_receipt" \in d.file THEN "normal"
  ELSE IF "host_crash_absence_receipt" \in d.file THEN "crash"
  ELSE "declare"

\* The host completed and the receipt of it was not written.
Unreceipted(d) ==
  "host_complete_intent" \in d.file /\ "host_complete_receipt" \notin d.file

Inspectable(t) ==
  LET d == disk[t] IN
  /\ d.root <=> d.marker # "gone"
  /\ Unreceipted(d) => d.marker = "started"
  /\ CASE End(d) = "normal" -> /\ {"docker_absence", "mount_completion"} \subseteq d.file
                              /\ Closure(t) /\ d.active # "uncommitted"
       [] End(d) = "complete" -> pointer[HomeOf[t]] = "none" /\ d.active = "absent"
       [] End(d) = "crash" -> /\ "docker_absence_crash" \in d.file
                             /\ Closure(t) /\ d.active # "uncommitted"
       [] OTHER -> TRUE

\* What a recovery that declares the task lost requires of journal, host and
\* pointer.  Two writes of the ends without a submission are not passed over
\* when they are there: the recovery that finds them refuses.
Started(d) == "host_begin_receipt" \in d.file
Released(t) == pointer[HomeOf[t]] = "none" /\ "host_precleanup_intent" \in disk[t].file
Accepts(t) ==
  LET d == disk[t] IN
  /\ Closure(t)
  /\ ~Started(d) => ~Submitted(d)
  /\ "host_precleanup_intent" \in d.file => Clean(d) /\ ~Submitted(d)
  /\ IF Clean(d)
     THEN /\ pointer[HomeOf[t]] = t \/ Released(t)
          /\ ~Started(d) =>
               {"docker_absence_crash", "mount_crash_absence"} \cap d.file = {}
     ELSE /\ d.marker = IF Started(d) THEN "started" ELSE "initial"
          /\ ~Started(d) => "host_cleanup_intent" \notin d.file
  /\ Started(d) => /\ d.active # "uncommitted"
                   /\ d.active = "absent" => pointer[HomeOf[t]] = t \/ Released(t)

\* What is written down about a lost task before its resources are looked for.
DeclarePlan(t) ==
  LET d == disk[t] IN
  <<"host_begin_intent">>
    \o (IF d.marker = "started" THEN <<"host_begin_receipt">> ELSE <<>>)
    \o (IF d.active = "uncommitted" THEN <<"unbind">> ELSE <<>>)
    \o (IF Clean(d) /\ ~Submitted(d) THEN <<"host_precleanup_intent">> ELSE <<>>)

MayDeclare(t, o) ==
  CASE o = "host_begin_intent"  -> ~Clean(disk[t])
    [] o = "host_begin_receipt" -> TRUE
    [] OTHER                    -> Accepts(t)

RecoveryIn(t, pc) == recovery = [pc |-> pc, task |-> t]
RecoveryTo(pc) == recovery' = [recovery EXCEPT !.pc = pc]
KeepWorld == UNCHANGED <<create, engine, runner, restart, told, cuts>>

RecoveryStarts(t) ==
  /\ recovery.pc = "idle" /\ HomeFree(HomeOf[t]) /\ StateFree
  /\ disk[t].stage \notin {"none", "removed"}
  /\ HostFree(t) \/ disk[t].stage = "tombstone"
  /\ recovery' = [pc |-> "enter", task |-> t]
  /\ UNCHANGED durable /\ KeepWorld

\* A record that is gone is answered from its completion receipt.
RecoveryReplays(t) ==
  /\ recovery.pc = "idle" /\ HomeFree(HomeOf[t]) /\ StateFree
  /\ disk[t].stage = "removed" /\ disk[t].completed
  /\ told' = told \cup {t}
  /\ UNCHANGED <<durable, create, engine, runner, recovery, restart, cuts>>

RecoveryEnters(t) ==
  /\ RecoveryIn(t, "enter") /\ StateFree /\ HostFree(t)
  /\ RecoveryTo(CASE disk[t].stage \in {"manifest", "tombstone"} -> "close"
                  [] disk[t].stage = "open" -> "inspect"
                  [] OTHER -> "place")
  /\ UNCHANGED durable /\ KeepWorld

RecoveryInspects(t) ==
  /\ RecoveryIn(t, "inspect")
  /\ IF Unreceipted(disk[t]) /\ disk[t].root /\ disk[t].marker = "completed"
     THEN Meet(t, "host_complete_receipt") /\ UNCHANGED recovery
     ELSE Inspectable(t) /\ RecoveryTo(End(disk[t])) /\ UNCHANGED durable
  /\ KeepWorld

RecoveryDeclares(t) ==
  /\ RecoveryIn(t, "declare")
  /\ \/ \E o \in OperationRecord \cup {"unbind"} :
          Due(t, DeclarePlan(t), o) /\ MayDeclare(t, o) /\ Meet(t, o) /\ UNCHANGED recovery
     \/ /\ Fulfilled(t, DeclarePlan(t)) /\ Accepts(t)
        /\ RecoveryTo(IF Started(disk[t]) THEN "docker"
                      ELSE IF Clean(disk[t]) THEN "precleaned" ELSE "unstarted")
        /\ UNCHANGED durable
  /\ KeepWorld

\* Mutant of RecoveryReconciles: nothing there is taken for nothing created.
RecoveryReconcilesOnEmpty(t, p) ==
  /\ RecoveryIn(t, "docker") /\ StateFree /\ HostFree(t) /\ engine
  /\ \/ /\ disk[t].submission[p] = "submitted"
        /\ disk' = [disk EXCEPT ![t].submission[p] =
                     IF create[t][p] = "exists" THEN "received" ELSE "fenced"]
        /\ UNCHANGED create
     \/ /\ disk[t].submission[p] = "received" /\ create[t][p] = "exists"
        /\ create' = [create EXCEPT ![t][p] = "none"]
        /\ UNCHANGED disk
  /\ UNCHANGED <<pointer, engine, runner, recovery, restart, told, cuts>>

\* One submission after another: a resource that is there gets its receipt and
\* is removed by it.  One that is not there may still be on its way; only a
\* restart of the engine since, settled, says that it is not.
RecoveryReconciles(t, p) ==
  /\ RecoveryIn(t, "docker") /\ StateFree /\ HostFree(t) /\ engine
  /\ \/ /\ disk[t].submission[p] = "submitted"
        /\ \/ create[t][p] = "exists"
              /\ disk' = [disk EXCEPT ![t].submission[p] = "received"]
           \/ create[t][p] # "exists" /\ disk[t].restart = "settled"
              /\ disk' = [disk EXCEPT ![t].submission[p] = "fenced"]
        /\ UNCHANGED create
     \/ /\ disk[t].submission[p] = "received" /\ create[t][p] = "exists"
        /\ create' = [create EXCEPT ![t][p] = "none"]
        /\ UNCHANGED disk
  /\ UNCHANGED <<pointer, engine, runner, recovery, restart, told, cuts>>

Unresolved(t) ==
  \E p \in Purpose :
    \/ disk[t].submission[p] = "submitted"
    \/ disk[t].submission[p] = "received" /\ create[t][p] = "exists"

RecoveryFindsAbsent(t) ==
  /\ RecoveryIn(t, "docker") /\ StateFree /\ HostFree(t)
  /\ Submitted(disk[t]) => engine
  /\ ~Unresolved(t)
  /\ disk' = [disk EXCEPT ![t] = After(@, "docker_absence_crash")]
  /\ RecoveryTo(IF Clean(disk[t]) THEN "cleaned" ELSE "confirm")
  /\ UNCHANGED pointer /\ KeepWorld

\* The ends.  The host directory is removed, and its marker moved on, only
\* from the states the host recovery allows.
Removable(d) == d.marker \in {"initial", "completed", "docker_absent"} /\ d.active = "absent"

RecoveryFollows(t, pc, plan, to) ==
  /\ RecoveryIn(t, pc)
  /\ \/ \E o \in Range(plan) :
          /\ Due(t, plan, o) /\ Meet(t, o) /\ UNCHANGED recovery
          /\ CASE o \in {"host_root", "host_marker"} -> Removable(disk[t])
               [] o = "host_docker_absent"           -> disk[t].marker = "started"
               [] OTHER                              -> StateLeft
     \/ Fulfilled(t, plan) /\ StateLeft /\ RecoveryTo(to) /\ UNCHANGED durable
  /\ KeepWorld

RecoveryWrites(t) ==
  \/ RecoveryFollows(t, "place", <<"placed">>, "inspect")
  \/ RecoveryFollows(t, "normal", NormalPlan, "inspect")
  \/ RecoveryFollows(t, "complete", FinalPlan, "manifest")
  \/ RecoveryFollows(t, "confirm", ConfirmAbsencePlan, "crash")
  \/ RecoveryFollows(t, "crash", CrashPlan, "manifest")
  \/ RecoveryFollows(t, "unstarted", UnstartedPlan, "manifest")
  \/ RecoveryFollows(t, "precleaned", PrecleanedPlan, "manifest")
  \/ RecoveryFollows(t, "cleaned", CleanedPlan, "manifest")

\* Manifest, completion receipt, rename, removal.  A recovery that finds the
\* manifest of another goes on from there.
RecoveryCloses(t) ==
  LET s == disk[t].stage IN
  /\ CASE RecoveryIn(t, "manifest") -> s = "open" /\ RecoveryTo("receipt")
       [] RecoveryIn(t, "close")    -> RecoveryTo(IF s = "tombstone" THEN "tell" ELSE "close")
       [] OTHER                     -> FALSE
  /\ disk' = [disk EXCEPT ![t].stage = StageAfter(@)]
  /\ UNCHANGED pointer /\ KeepWorld

RecoveryReceipts(t) ==
  /\ RecoveryIn(t, "receipt") /\ RecoveryTo("close")
  /\ disk' = [disk EXCEPT ![t].completed = TRUE]
  /\ UNCHANGED pointer /\ KeepWorld

RecoveryTells(t) ==
  /\ RecoveryIn(t, "tell") /\ RecoveryTo("idle") /\ told' = told \cup {t}
  /\ UNCHANGED <<durable, create, engine, runner, restart, cuts>>

Recovery(t) ==
  \/ RecoveryStarts(t) \/ RecoveryReplays(t) \/ RecoveryEnters(t) \/ RecoveryInspects(t)
  \/ RecoveryDeclares(t) \/ RecoveryFindsAbsent(t) \/ RecoveryWrites(t)
  \/ RecoveryCloses(t) \/ RecoveryReceipts(t) \/ RecoveryTells(t)
  \/ \E p \in Purpose : RecoveryReconciles(t, p)

\* The recovery finds nothing it does not know how to end.
CanInspect(t) ==
  Inspectable(t) \/ (Unreceipted(disk[t]) /\ disk[t].root /\ disk[t].marker = "completed")
CanDeclare(t) ==
  LET d == disk[t] IN
  IF "host_begin_intent" \notin d.file THEN ~Clean(d)
                                      ELSE Accepts(t) \/ (d.marker = "started" /\ ~Started(d))
Resumable(t) ==
  \/ disk[t].stage # "open"
  \/ CanInspect(t) /\ (End(disk[t]) = "declare" => CanDeclare(t))

\* What cannot be done is refused, and the locks are let go.
RecoveryRefuses(t) ==
  /\ CASE RecoveryIn(t, "enter")   -> ~(StateFree /\ HostFree(t))
       [] RecoveryIn(t, "inspect") -> ~CanInspect(t)
       [] RecoveryIn(t, "declare") -> ~CanDeclare(t)
       [] RecoveryIn(t, "docker")  ->
            \/ ~(StateFree /\ HostFree(t)) \/ (Submitted(disk[t]) /\ ~engine)
            \/ \E p \in Purpose : /\ disk[t].submission[p] = "submitted"
                                 /\ create[t][p] # "exists" /\ disk[t].restart # "settled"
       [] recovery.task = t /\ recovery.pc \in {"complete", "confirm", "crash", "unstarted"} ->
            ~StateLeft
       [] OTHER -> FALSE
  /\ RecoveryTo("idle")
  /\ UNCHANGED durable /\ KeepWorld

\* The process of a recovery is lost; what it wrote stays.
RecoveryCut(t) ==
  /\ recovery.task = t /\ recovery.pc # "idle" /\ cuts < MaxCuts
  /\ \/ "recovery" \in Faults
     \/ "resumable" \in Faults /\ Resumable(t)
  /\ RecoveryTo("idle") /\ cuts' = cuts + 1
  /\ UNCHANGED <<durable, create, engine, runner, restart, told>>

\* A person gives the host recovery the token of a lost task: it removes the
\* host directory, then the marker, and knows nothing of the journal but that
\* no active binding may be left.
HostRecovers(t) ==
  /\ HostFree(t) /\ disk[t].stage # "none" /\ disk[t].marker # "gone" /\ Removable(disk[t])
  /\ IF disk[t].root THEN "host" \in Faults /\ Meet(t, "host_root")
                     ELSE Meet(t, "host_marker")
  /\ UNCHANGED recovery /\ KeepWorld

-----------------------------------------------------------------------------
(* The restart of the engine that settles one unknown CREATE.  It holds    *)
(* every lock of the task from the first record to the last.               *)

NoClient == \A t \in Task, p \in Purpose : create[t][p] # "client"
Stopped == ~engine /\ NoClient

\* Mutant of ResumesAt: a restart cut after the stop is not taken up.
ResumesAtStart(phase) ==
  CASE phase = "none"                      -> "stop_intent"
    [] phase = "stop_intent" /\ Stopped    -> "stopped"
    [] phase = "start_intent" /\ engine    -> "ready"
    [] phase = "ready" /\ engine           -> "settled"
    [] OTHER                               -> "idle"

\* It goes on from the phase on record once it has seen what that phase says.
ResumesAt(phase) ==
  CASE phase = "none"                      -> "stop_intent"
    [] phase = "stop_intent" /\ Stopped    -> "stopped"
    [] phase = "stopped" /\ Stopped        -> "start_intent"
    [] phase = "start_intent" /\ engine    -> "ready"
    [] phase = "ready" /\ engine           -> "settled"
    [] OTHER                               -> "idle"

RestartPrepares(t) ==
  /\ restart.pc = "idle" /\ HostFree(t) /\ HomeFree(HomeOf[t]) /\ StateFree
  /\ disk[t].stage = "open"
  /\ \A u \in Task \ {t} : disk[u].stage \in {"none", "removed"}
  /\ Pending(t)
  /\ \A p \in Purpose : disk[t].submission[p] # "fenced"
  /\ ResumesAt(disk[t].restart) # "idle"
  /\ restart' = [pc |-> ResumesAt(disk[t].restart), task |-> t]
  /\ UNCHANGED <<durable, create, engine, runner, recovery, told, cuts>>

RestartTo(pc) == restart' = [restart EXCEPT !.pc = pc]
KeepTasks == UNCHANGED <<pointer, runner, recovery, told, cuts>>

\* What a phase on record is followed by.
Follows(phase) ==
  CASE phase = "stop_intent"  -> "stop"
    [] phase = "stopped"      -> "start_intent"
    [] phase = "start_intent" -> "start"
    [] phase = "ready"        -> "settled"
    [] phase = "settled"      -> "idle"

RestartRecords ==
  /\ restart.pc \in {"stop_intent", "stopped", "start_intent", "ready", "settled"}
  /\ disk' = [disk EXCEPT ![restart.task].restart = restart.pc]
  /\ RestartTo(Follows(restart.pc))
  /\ UNCHANGED <<create, engine>> /\ KeepTasks

\* Mutant of RestartActs: clients are not looked for.
RestartActsBlind ==
  /\ \/ /\ restart.pc = "stop" /\ RestartTo("stopped")
        /\ engine' = FALSE /\ create' = Cut(create)
     \/ /\ restart.pc = "start" /\ ~engine /\ RestartTo("ready")
        /\ engine' = TRUE /\ UNCHANGED create
  /\ UNCHANGED disk /\ KeepTasks

\* No client may be about when the engine is stopped, nor when it is started.
RestartActs ==
  /\ \/ /\ restart.pc = "stop" /\ NoClient /\ RestartTo("stopped")
        /\ engine' = FALSE /\ create' = Cut(create)
     \/ /\ restart.pc = "start" /\ Stopped /\ RestartTo("ready")
        /\ engine' = TRUE /\ UNCHANGED create
  /\ UNCHANGED disk /\ KeepTasks

RestartRefuses ==
  /\ \/ restart.pc = "stop" /\ ~NoClient
     \/ restart.pc = "start" /\ ~Stopped
  /\ RestartTo("idle")
  /\ UNCHANGED <<disk, create, engine>> /\ KeepTasks

RestartCut ==
  /\ "restart" \in Faults /\ restart.pc # "idle" /\ cuts < MaxCuts
  /\ RestartTo("idle") /\ cuts' = cuts + 1
  /\ UNCHANGED <<durable, create, engine, runner, recovery, told>>

Next ==
  \/ \E t \in Task :
       \/ Runner(t) \/ RunnerGivesUp(t) \/ RunnerCrashes(t)
       \/ Recovery(t) \/ RecoveryRefuses(t) \/ RecoveryCut(t) \/ HostRecovers(t)
       \/ RestartPrepares(t)
       \/ \E p \in Purpose : CreateMoves(t, p) \/ CreateFails(t, p)
  \/ EngineByHand \/ RestartRecords \/ RestartActs \/ RestartRefuses \/ RestartCut

Spec == Init /\ [][Next]_dockerVars

\* A recovery that has started runs on, a person starts one, or a restart or
\* the host recovery, again and again, and a request is not under way for ever.
Fairness ==
  /\ \A t \in Task :
       /\ WF_dockerVars(Recovery(t)) /\ WF_dockerVars(RecoveryRefuses(t))
       /\ SF_dockerVars(HostRecovers(t)) /\ SF_dockerVars(RestartPrepares(t))
       /\ \A p \in Purpose : WF_dockerVars(CreateMoves(t, p) \/ CreateFails(t, p))
  /\ WF_dockerVars(RestartRecords \/ RestartActs \/ RestartRefuses)
  /\ SF_dockerVars(Stuck /\ EngineByHand)
LiveSpec == Spec /\ Fairness

-----------------------------------------------------------------------------
(* Properties.                                                             *)

\* Evidence that the resources of a task are gone is only on disk when they
\* are and no request for one can still reach the engine.
AbsenceIsReal ==
  \A t \in Task :
    (\/ disk[t].file \cap {"docker_absence", "docker_absence_crash"} # {}
     \/ disk[t].completed)
    => \A p \in Purpose : create[t][p] = "none"

\* As long as a task may have a resource its home is reserved for it and its
\* host directory is there: neither a completion, a recovery, the recovery of
\* the host alone nor the next task on the home takes them away too early.
ResourcesAreCovered ==
  \A t \in Task : (\E p \in Purpose : create[t][p] # "none") =>
    pointer[HomeOf[t]] = t /\ disk[t].root

\* A task reported recovered has left nothing behind.
RecoveredIsTrue ==
  \A t \in told :
    /\ Clean(disk[t]) /\ disk[t].stage = "removed" /\ pointer[HomeOf[t]] # t
    /\ \A p \in Purpose : create[t][p] = "none"

\* From the stopped record on no request made before the restart is under way.
StoppedMeansCut ==
  \A t \in Task : disk[t].restart \in {"stopped", "start_intent", "ready", "settled"} =>
    \A p \in Purpose : create[t][p] \in {"none", "exists"}

\* The record of a task whose process is lost is in the end done away with.
RecoveryCompletes ==
  \A t \in Task : (runner[t] = "dead" /\ disk[t].stage # "none") ~> (disk[t].stage = "removed")

=============================================================================

------------------------ MODULE DockerRecoveryProofs ------------------------
(***************************************************************************)
(* The recovery of Docker resources is safe for any number of tasks, homes *)
(* and CREATE purposes, whatever is lost and whenever: evidence of absence *)
(* is true, what may exist is covered, a restart has cut what was under    *)
(* way, and a task reported recovered has left nothing.                    *)
(***************************************************************************)
EXTENDS DockerRecovery, TLAPS

-----------------------------------------------------------------------------
(* The invariant.                                                          *)

\* Nothing of the task exists or is on its way to the engine.
Gone(t) == \A p \in Purpose : create[t][p] = "none"

\* No request of the task is on its way.
CutOff(t) == \A p \in Purpose : create[t][p] \in {"none", "exists"}

\* The steps of a task's own process: those that may create, those after which
\* it creates no more, those of a clean task, and those without the host lock.
Running == {"run", "start", "wait", "cleanup"}
Past == {"cleanup", "confirm", "complete", "tidy", "settle", "settled", "closing",
         "blocked", "done", "dead"}
Cleaned == {"confirm", "complete", "tidy", "settle", "settled", "closing", "done"}
Over == {"settle", "settled", "closing", "done", "dead"}

\* What is only recorded of a task that has left nothing with the engine.
Evidence == {"docker_absence", "docker_absence_crash", "host_complete_intent",
             "host_complete_receipt", "normal_run_complete", "host_crash_absence_receipt"}

Closing == {"manifest", "tombstone", "removed"}

CreateType == [Task -> [Purpose -> {"none", "client", "engine", "exists"}]]

\* A request is preceded by its submission and followed by its receipt or by
\* the fence that a restart allows.
SubmissionOK(t) ==
  \A p \in Purpose :
    /\ create[t][p] # "none" => disk[t].submission[p] \in {"submitted", "received"}
    /\ disk[t].submission[p] = "received" => create[t][p] \in {"none", "exists"}
    /\ disk[t].submission[p] = "fenced" => create[t][p] = "none"

JournalOK(t) ==
  LET d == disk[t] IN
  /\ SubmissionOK(t)
  /\ Gone(t) \/ pointer[HomeOf[t]] = t
  /\ d.file \cap Evidence # {} \/ d.completed => Gone(t) /\ runner[t] \in Past
  /\ ~d.root => Gone(t) /\ runner[t] \in Past \ {"cleanup", "confirm", "complete"}
  /\ d.marker = "initial" => ~Submitted(d)
  /\ d.marker \in {"completed", "docker_absent"} => Gone(t) /\ runner[t] \in Past
  /\ d.stage \in Closing =>
       Gone(t) /\ Clean(d) /\ pointer[HomeOf[t]] # t /\ runner[t] \in Over
  /\ d.restart # "none" => runner[t] \in Over
  /\ d.restart \in {"stopped", "start_intent", "ready", "settled"} => CutOff(t)

RunnerOK(t) ==
  LET d == disk[t] IN
  /\ runner[t] = "begin" => pointer[HomeOf[t]] \in {"none", t}
  /\ runner[t] \in Running => pointer[HomeOf[t]] = t /\ d.root /\ d.marker = "started"
  /\ runner[t] \in Cleaned => Gone(t)
  /\ runner[t] = "settle" => ~d.root
  /\ runner[t] \in {"settled", "closing", "done"} => Clean(d)
  /\ \A u \in Task : runner[t] = "begin" /\ runner[u] = "begin" => t = u

Ended == {"manifest", "receipt", "close", "tell"}
Ending == {"normal", "confirm", "complete", "crash", "unstarted", "precleaned",
           "cleaned"} \cup Ended

RecoveryOK ==
  LET t == recovery.task
      d == disk[t]
      pc == recovery.pc
  IN
  /\ pc # "idle" => runner[t] \in Over \ {"closing"}
  /\ pc = "enter" => d.stage \notin {"none", "removed"}
  /\ pc = "place" => d.stage \in {"pending", "paired", "directory", "moved", "open"}
  /\ pc \in Ending => Gone(t)
  /\ pc = "complete" => pointer[HomeOf[t]] # t
  /\ pc \in {"precleaned", "cleaned"} => Clean(d)
  /\ pc \in Ended => Clean(d) /\ pointer[HomeOf[t]] # t
  /\ pc = "receipt" => d.stage = "manifest"
  /\ pc = "close" => d.stage \in {"manifest", "tombstone"}
  /\ pc = "tell" => d.stage = "removed"

RestartOK ==
  /\ restart.pc # "idle" => runner[restart.task] \in Over
  /\ restart.pc \in {"stopped", "start_intent", "start", "ready", "settled"} =>
       CutOff(restart.task)
  /\ ~engine => \A t \in Task, p \in Purpose : create[t][p] # "engine"

DockerInv ==
  /\ DockerTypeOK
  /\ \A t \in Task : JournalOK(t) /\ RunnerOK(t)
  /\ RecoveryOK
  /\ RestartOK
  /\ \A t \in told : disk[t].stage = "removed"

-----------------------------------------------------------------------------
(* What a step of one task leaves to the others.                           *)

\* The pointer of a home is set in begin, where none or the task's own is, and
\* taken back only from the task it names.
PointerStep(t) ==
  \/ pointer' = pointer
  \/ /\ runner[t] = "begin" /\ pointer[HomeOf[t]] \in {"none", t}
     /\ pointer' = [pointer EXCEPT ![HomeOf[t]] = t]
  \/ /\ pointer[HomeOf[t]] = t
     /\ pointer' = [pointer EXCEPT ![HomeOf[t]] = "none"]

\* A step that changes no task but t.
Frame(t) ==
  /\ disk' \in [Task -> Disk] /\ create' \in CreateType /\ runner' \in [Task -> RunnerPC]
  /\ \A u \in Task \ {t} :
       disk'[u] = disk[u] /\ create'[u] = create[u] /\ runner'[u] = runner[u]
  /\ PointerStep(t)
  /\ runner'[t] = "begin" => \A u \in Task : runner[u] = "begin" => u = t

\* What a step keeps of a task whose own process is over, and of one that a
\* recovery is at.
Calm(t) ==
  /\ runner[t] \in Over =>
       /\ runner'[t] \in Over
       /\ Gone(t) => Gone(t)'
       /\ CutOff(t) => CutOff(t)'
       /\ Clean(disk[t]) => Clean(disk'[t])
       /\ pointer[HomeOf[t]] # t => pointer'[HomeOf[t]] # t
  /\ Recovering(t) /\ runner[t] # "closing" => runner'[t] # "closing"
  /\ disk[t].stage = "removed" => disk'[t].stage = "removed"
  /\ \A p \in Purpose : create'[t][p] = "engine" => engine \/ create[t][p] = "engine"

\* The record of a task that a recovery is at stays where it is.
Still(t) == Recovering(t) /\ runner[t] \in Over => disk'[t].stage = disk[t].stage

LEMMA Typed ==
  ASSUME DockerInv
  PROVE  /\ disk \in [Task -> Disk]
         /\ pointer \in [Home -> Task \cup {"none"}]
         /\ create \in CreateType
         /\ runner \in [Task -> RunnerPC]
         /\ recovery \in [pc : RecoveryPC, task : Task]
         /\ restart \in [pc : RestartPC, task : Task]
         /\ HomeOf \in [Task -> Home] /\ "none" \notin Task
BY DockerConstants DEF DockerInv, DockerTypeOK, CreateType

LEMMA PointerKept ==
  ASSUME DockerInv, NEW t \in Task, PointerStep(t)
  PROVE  /\ pointer' \in [Home -> Task \cup {"none"}]
         /\ \A u \in Task \ {t} : /\ (pointer'[HomeOf[u]] = u) <=> (pointer[HomeOf[u]] = u)
                                  /\ runner[u] = "begin" => pointer'[HomeOf[u]] \in {"none", u}
<1>1. pointer' \in [Home -> Task \cup {"none"}]
  BY Typed DEF PointerStep
<1>2. ASSUME NEW u \in Task \ {t}
      PROVE  /\ (pointer'[HomeOf[u]] = u) <=> (pointer[HomeOf[u]] = u)
             /\ runner[u] = "begin" => pointer'[HomeOf[u]] \in {"none", u}
  <2>1. runner[u] = "begin" => /\ pointer[HomeOf[u]] \in {"none", u}
                               /\ runner[t] # "begin"
    BY DEF DockerInv, RunnerOK
  <2> QED
    BY <2>1, Typed DEF PointerStep
<1> QED
  BY <1>1, <1>2

LEMMA Others ==
  ASSUME DockerInv, NEW t \in Task, Frame(t), NEW u \in Task \ {t}
  PROVE  JournalOK(u)' /\ RunnerOK(u)' /\ Calm(u) /\ Still(u)
<1>1. /\ disk'[u] = disk[u] /\ create'[u] = create[u] /\ runner'[u] = runner[u]
      /\ (pointer'[HomeOf[u]] = u) <=> (pointer[HomeOf[u]] = u)
      /\ runner[u] = "begin" => pointer'[HomeOf[u]] \in {"none", u}
  BY PointerKept DEF Frame
<1>2. JournalOK(u) /\ RunnerOK(u)
  BY DEF DockerInv
<1>3. (Gone(u)' <=> Gone(u)) /\ (CutOff(u)' <=> CutOff(u)) /\ (SubmissionOK(u)' <=> SubmissionOK(u))
  BY <1>1 DEF Gone, CutOff, SubmissionOK
<1>4. JournalOK(u)'
  BY <1>1, <1>2, <1>3 DEF JournalOK
<1>5. RunnerOK(u)'
  <2>1. ASSUME NEW v \in Task, runner'[u] = "begin", runner'[v] = "begin"
        PROVE  u = v
    BY <1>1, <1>2, <2>1 DEF Frame, RunnerOK
  <2> QED
    BY <1>1, <1>2, <1>3, <2>1 DEF RunnerOK
<1>6. Calm(u) /\ Still(u)
  BY <1>1, <1>3 DEF Calm, Still
<1> QED
  BY <1>4, <1>5, <1>6

\* A recovery that goes on, or that stops, has what it had.
LEMMA RecoveryKept ==
  ASSUME DockerInv, \A t \in Task : Calm(t) /\ Still(t), recovery' \in [pc : RecoveryPC, task : Task],
         recovery' = recovery \/ recovery'.pc = "idle"
  PROVE  RecoveryOK'
<1>1. CASE recovery'.pc = "idle"
  BY <1>1 DEF RecoveryOK, Ending, Ended
<1>2. CASE recovery' = recovery /\ recovery.pc # "idle"
  <2> DEFINE t == recovery.task
  <2>1. t \in Task /\ RecoveryOK /\ Recovering(t) /\ Calm(t) /\ Still(t)
    BY <1>2, Typed DEF DockerInv, Recovering
  <2>2. recovery.pc \in Ending => Gone(t)'
    BY <2>1 DEF RecoveryOK, Calm, Ending, Ended
  <2>3. recovery'.task = t /\ recovery'.pc = recovery.pc
    BY <1>2
  <2> QED
    BY <1>2, <2>1, <2>2, <2>3 DEF RecoveryOK, Calm, Still, Gone, Ended
<1> QED
  BY <1>1, <1>2

LEMMA RestartKept ==
  ASSUME DockerInv, \A t \in Task : Calm(t), engine' = engine,
         restart' = restart \/ restart'.pc = "idle"
  PROVE  RestartOK'
<1>1. restart.task \in Task /\ Calm(restart.task) /\ RestartOK
  BY Typed DEF DockerInv
<1>2. ~engine' => \A t \in Task, p \in Purpose : create'[t][p] # "engine"
  BY <1>1 DEF RestartOK, Calm
<1>3. CASE restart'.pc = "idle"
  BY <1>2, <1>3 DEF RestartOK
<1>4. CASE restart' = restart
  BY <1>1, <1>2, <1>4 DEF RestartOK, Calm, CutOff
<1> QED
  BY <1>3, <1>4

\* A step of a task keeps what the invariant says of tasks.
TaskStep(t) == Frame(t) /\ Calm(t) /\ JournalOK(t)' /\ RunnerOK(t)'

LEMMA TasksKept ==
  ASSUME DockerInv, NEW t \in Task, TaskStep(t), UNCHANGED <<engine, restart>>,
         told' \subseteq Task, \A u \in told' : u \in told \/ disk'[u].stage = "removed",
         cuts' \in 0..MaxCuts, recovery' \in [pc : RecoveryPC, task : Task], RecoveryOK'
  PROVE  DockerInv'
<1>1. \A u \in Task : Calm(u) /\ JournalOK(u)' /\ RunnerOK(u)'
  BY Others DEF TaskStep
<1>2. RestartOK'
  BY <1>1, RestartKept
<1>3. pointer' \in [Home -> Task \cup {"none"}]
  BY PointerKept DEF TaskStep, Frame
<1>4. DockerTypeOK'
  BY <1>3 DEF TaskStep, Frame, DockerTypeOK, DockerInv, CreateType
<1>5. \A u \in told' : disk'[u].stage = "removed"
  BY <1>1 DEF DockerInv, DockerTypeOK, Calm
<1> QED
  BY <1>1, <1>2, <1>4, <1>5 DEF DockerInv

\* A step of a task that a recovery, if it goes on, does not notice.
LEMMA TaskStepKeeps ==
  ASSUME DockerInv, NEW t \in Task, TaskStep(t), Still(t),
         recovery' \in [pc : RecoveryPC, task : Task],
         recovery' = recovery \/ recovery'.pc = "idle",
         UNCHANGED <<engine, restart, told>>, cuts' \in 0..MaxCuts
  PROVE  DockerInv'
<1>1. \A u \in Task : Calm(u) /\ Still(u)
  BY Others DEF TaskStep
<1>2. RecoveryOK'
  BY <1>1, RecoveryKept
<1>3. told' \subseteq Task
  BY DEF DockerInv, DockerTypeOK
<1> QED
  BY <1>2, <1>3, TasksKept

-----------------------------------------------------------------------------
(* Stages, obligations and plans.                                          *)

LEMMA StageNames ==
  /\ Len(StageOrder) = 9
  /\ StageOrder[1] = "none" /\ StageOrder[2] = "pending" /\ StageOrder[3] = "paired"
  /\ StageOrder[4] = "directory" /\ StageOrder[5] = "moved" /\ StageOrder[6] = "open"
  /\ StageOrder[7] = "manifest" /\ StageOrder[8] = "tombstone" /\ StageOrder[9] = "removed"
BY DEF StageOrder

LEMMA StageSet ==
  Stage = {"none", "pending", "paired", "directory", "moved", "open", "manifest",
           "tombstone", "removed"}
<1>1. \A i \in 1..9 : i \in {1, 2, 3, 4, 5, 6, 7, 8, 9}
  OBVIOUS
<1> QED
  BY <1>1, StageNames DEF Stage

LEMMA StageNext ==
  ASSUME NEW k \in 1..8
  PROVE  StageAfter(StageOrder[k]) = StageOrder[k + 1]
<1> DEFINE place == CHOOSE i \in 1..Len(StageOrder) : StageOrder[i] = StageOrder[k]
<1>1. \A i \in 1..9 : i \in {1, 2, 3, 4, 5, 6, 7, 8, 9}
  OBVIOUS
<1>2. \A i \in 1..9 : StageOrder[i] = StageOrder[k] => i = k
  BY <1>1, StageNames
<1>3. place = k
  BY <1>2, StageNames
<1>4. StageAfter(StageOrder[k]) = StageOrder[1 + place]
  BY DEF StageAfter
<1> HIDE DEF place
<1> QED
  BY <1>3, <1>4

LEMMA StageSteps ==
  /\ StageAfter("none") = "pending" /\ StageAfter("pending") = "paired"
  /\ StageAfter("paired") = "directory" /\ StageAfter("directory") = "moved"
  /\ StageAfter("moved") = "open" /\ StageAfter("open") = "manifest"
  /\ StageAfter("manifest") = "tombstone" /\ StageAfter("tombstone") = "removed"
BY StageNext, StageNames

Obligation ==
  {"placed", "point", "bind", "commit_bind", "unbind", "unpoint", "host_started",
   "host_completed", "host_docker_absent", "host_root", "host_marker"} \cup OperationRecord

\* What the journal is once an obligation is met, field by field.
LEMMA AfterFields ==
  ASSUME NEW d \in Disk, NEW o \in Obligation, o = "placed" => d.stage # "removed"
  PROVE  /\ After(d, o) \in Disk
         /\ After(d, o).stage = IF o = "placed" THEN StageAfter(d.stage) ELSE d.stage
         /\ After(d, o).file = IF o \in OperationRecord THEN d.file \cup {o} ELSE d.file
         /\ After(d, o).submission = d.submission
         /\ After(d, o).restart = d.restart
         /\ After(d, o).root = IF o = "host_root" THEN FALSE ELSE d.root
         /\ After(d, o).marker = IF o = "host_started" THEN "started"
                                 ELSE IF o = "host_completed" THEN "completed"
                                 ELSE IF o = "host_docker_absent" THEN "docker_absent"
                                 ELSE IF o = "host_marker" THEN "gone" ELSE d.marker
         /\ After(d, o).completed = d.completed
<1>1. CASE o = "placed"
  <2>1. StageAfter(d.stage) \in Stage
    BY <1>1, StageSet, StageSteps DEF Disk
  <2>2. After(d, o) = [d EXCEPT !.stage = StageAfter(d.stage)]
    BY <1>1 DEF After, Disk
  <2> QED
    BY <1>1, <2>1, <2>2 DEF Disk, OperationRecord
<1>2. CASE o \in OperationRecord
  <2>1. o \notin {"placed", "point", "bind", "commit_bind", "unbind", "unpoint",
                  "host_started", "host_completed", "host_docker_absent", "host_root",
                  "host_marker"}
    BY <1>2 DEF OperationRecord
  <2>2. After(d, o) = [d EXCEPT !.file = d.file \cup {o}]
    BY <2>1 DEF After
  <2>3. d.file \cup {o} \in SUBSET OperationRecord
    BY <1>2 DEF Disk
  <2> QED
    BY <1>2, <2>1, <2>2, <2>3 DEF Disk
<1>3. CASE o \in {"point", "unpoint"}
  BY <1>3 DEF After, OperationRecord
<1>4. CASE o \in {"bind", "commit_bind", "unbind"}
  <2>1. PICK a \in {"uncommitted", "committed", "absent"} : After(d, o) = [d EXCEPT !.active = a]
    BY <1>4 DEF After
  <2> QED
    BY <1>4, <2>1 DEF Disk, OperationRecord
<1>5. CASE o = "host_root"
  <2>1. After(d, o) = [d EXCEPT !.root = FALSE, !.active = "absent"]
    BY <1>5 DEF After
  <2> QED
    BY <1>5, <2>1 DEF Disk, OperationRecord
<1>6. CASE o \in {"host_started", "host_completed", "host_docker_absent", "host_marker"}
  <2> DEFINE m == IF o = "host_started" THEN "started"
                  ELSE IF o = "host_completed" THEN "completed"
                  ELSE IF o = "host_docker_absent" THEN "docker_absent" ELSE "gone"
  <2>1. After(d, o) = [d EXCEPT !.marker = m]
    BY <1>6 DEF After
  <2>2. m \in {"started", "completed", "docker_absent", "gone"}
    OBVIOUS
  <2>3. m = IF o = "host_started" THEN "started"
            ELSE IF o = "host_completed" THEN "completed"
            ELSE IF o = "host_docker_absent" THEN "docker_absent"
            ELSE IF o = "host_marker" THEN "gone" ELSE d.marker
    BY <1>6
  <2> HIDE DEF m
  <2> QED
    BY <1>6, <2>1, <2>2, <2>3 DEF Disk, OperationRecord
<1> QED
  BY <1>1, <1>2, <1>3, <1>4, <1>5, <1>6 DEF Obligation

LEMMA MeetFields ==
  ASSUME DockerInv, NEW t \in Task, NEW o \in Obligation, Meet(t, o),
         o = "placed" => disk[t].stage # "removed"
  PROVE  /\ disk'[t] \in Disk
         /\ disk'[t].stage = IF o = "placed" THEN StageAfter(disk[t].stage) ELSE disk[t].stage
         /\ disk'[t].file = IF o \in OperationRecord THEN disk[t].file \cup {o}
                            ELSE disk[t].file
         /\ disk'[t].submission = disk[t].submission
         /\ disk'[t].restart = disk[t].restart
         /\ disk'[t].root = IF o = "host_root" THEN FALSE ELSE disk[t].root
         /\ disk'[t].marker = IF o = "host_started" THEN "started"
                              ELSE IF o = "host_completed" THEN "completed"
                              ELSE IF o = "host_docker_absent" THEN "docker_absent"
                              ELSE IF o = "host_marker" THEN "gone" ELSE disk[t].marker
         /\ disk'[t].completed = disk[t].completed
         /\ \A u \in Task \ {t} : disk'[u] = disk[u]
<1> DEFINE d == disk[t]
           a == After(d, o)
<1>1. d \in Disk
  BY Typed
<1>2. /\ a \in Disk
      /\ a.stage = IF o = "placed" THEN StageAfter(d.stage) ELSE d.stage
      /\ a.file = IF o \in OperationRecord THEN d.file \cup {o} ELSE d.file
      /\ a.submission = d.submission
      /\ a.restart = d.restart
      /\ a.root = IF o = "host_root" THEN FALSE ELSE d.root
      /\ a.marker = IF o = "host_started" THEN "started"
                    ELSE IF o = "host_completed" THEN "completed"
                    ELSE IF o = "host_docker_absent" THEN "docker_absent"
                    ELSE IF o = "host_marker" THEN "gone" ELSE d.marker
      /\ a.completed = d.completed
  BY <1>1, AfterFields
<1>3. disk' = [disk EXCEPT ![t] = a]
  BY Typed DEF Meet
<1> HIDE DEF a
<1>4. disk'[t] = a /\ \A u \in Task \ {t} : disk'[u] = disk[u]
  BY <1>3, Typed
<1> QED
  BY <1>2, <1>4

\* What may be met when: evidence of an end only of a task that has come to it.
MayMeet(t, o, r) ==
  /\ o \in Evidence \cup {"host_completed", "host_docker_absent", "host_root", "unpoint"} =>
       Gone(t) /\ r \in Past
  /\ o = "host_root" => r \notin {"cleanup", "confirm", "complete"}
  /\ o \in {"point", "host_started"} => runner[t] = "begin"
  /\ o = "host_completed" => runner[t] = "confirm"
  /\ o = "host_docker_absent" => disk[t].marker = "started"
  /\ o = "placed" => disk[t].stage \notin {"open", "manifest", "tombstone", "removed"}
  /\ o = "unpoint" => pointer[HomeOf[t]] = t

\* How the process of a task goes on with its plans.
MayWalk(from, r) ==
  \/ r = from
  \/ from = "begin" /\ r = "run"
  \/ from = "confirm" /\ r = "complete"
  \/ from = "complete" /\ r = "tidy"
  \/ from = "tidy" /\ r = "settle"
  \/ from = "settle" /\ r = "settled"

LEMMA MeetStep ==
  ASSUME DockerInv, NEW t \in Task, NEW o \in Obligation, NEW r \in RunnerPC,
         Meet(t, o), UNCHANGED create, runner' = [runner EXCEPT ![t] = r],
         MayMeet(t, o, r), MayWalk(runner[t], r)
  PROVE  Frame(t) /\ Calm(t) /\ JournalOK(t)'
<1> DEFINE d == disk[t]
           a == disk'[t]
<1>1. /\ d \in Disk /\ runner[t] \in RunnerPC /\ HomeOf[t] \in Home
      /\ JournalOK(t) /\ RunnerOK(t) /\ "none" # t
  BY Typed DEF DockerInv
<1>2. /\ a \in Disk
      /\ a.stage = IF o = "placed" THEN StageAfter(d.stage) ELSE d.stage
      /\ a.file = IF o \in OperationRecord THEN d.file \cup {o} ELSE d.file
      /\ a.submission = d.submission
      /\ a.restart = d.restart
      /\ a.root = IF o = "host_root" THEN FALSE ELSE d.root
      /\ a.marker = IF o = "host_started" THEN "started"
                    ELSE IF o = "host_completed" THEN "completed"
                    ELSE IF o = "host_docker_absent" THEN "docker_absent"
                    ELSE IF o = "host_marker" THEN "gone" ELSE d.marker
      /\ a.completed = d.completed
  BY MeetFields DEF MayMeet
<1>3. \A u \in Task \ {t} : disk'[u] = disk[u]
  BY MeetFields DEF MayMeet
<1>4. disk'[t] = a /\ disk' \in [Task -> Disk] /\ runner'[t] = r
      /\ runner' \in [Task -> RunnerPC] /\ \A u \in Task \ {t} : disk'[u] = disk[u]
  BY <1>2, <1>3, Typed DEF Meet
<1> HIDE DEF a, d
<1>5. PointerStep(t)
  <2>1. CASE o = "point"
    BY <1>1, <2>1 DEF Meet, MayMeet, PointerStep, RunnerOK
  <2>2. CASE o = "unpoint"
    BY <2>2 DEF Meet, MayMeet, PointerStep
  <2>3. CASE o \notin {"point", "unpoint"}
    BY <2>3 DEF Meet, PointerStep
  <2> QED
    BY <2>1, <2>2, <2>3
<1>6. Frame(t)
  <2>1. r = "begin" => \A u \in Task : runner[u] = "begin" => u = t
    BY <1>1 DEF MayWalk, RunnerOK
  <2> QED
    BY <1>4, <1>5, <2>1, Typed DEF Frame
<1>7. (Gone(t)' <=> Gone(t)) /\ (CutOff(t)' <=> CutOff(t))
  BY DEF Gone, CutOff
<1>8. runner[t] \in Over => o \notin {"point", "host_started", "host_completed"}
  BY DEF MayMeet, Over
<1>9. runner[t] \in Over /\ pointer[HomeOf[t]] # t => pointer'[HomeOf[t]] # t
  BY <1>1, <1>5, Typed DEF PointerStep, Over
<1>10. runner[t] \in Over => r \in Over
  BY DEF MayWalk, Over
<1>11. runner[t] \in Over /\ Clean(d) => Clean(a)
  BY <1>2, <1>8 DEF Clean, d, MayMeet
<1>12. d.stage = "removed" => a.stage = "removed"
  BY <1>2 DEF MayMeet, d
<1>13. Calm(t)
  <2>1. Recovering(t) /\ runner[t] # "closing" => r # "closing"
    BY DEF MayWalk
  <2>2. \A p \in Purpose : create'[t][p] = "engine" => create[t][p] = "engine"
    OBVIOUS
  <2> QED
    BY <1>4, <1>7, <1>9, <1>10, <1>11, <1>12, <2>1, <2>2 DEF Calm, d
<1>14. JournalOK(t)'
  <2>1. SubmissionOK(t)'
    BY <1>1, <1>2, <1>4 DEF JournalOK, SubmissionOK, d
  <2>2. a.file \cap Evidence # {} \/ a.completed => Gone(t) /\ r \in Past
    <3>1. a.file \cap Evidence # {} => d.file \cap Evidence # {} \/ o \in Evidence
      BY <1>2
    <3>2. runner[t] \in Past => r \in Past
      BY DEF MayWalk, Past
    <3> QED
      BY <1>1, <1>2, <3>1, <3>2 DEF MayMeet, JournalOK, d
  <2>3. ~a.root => Gone(t) /\ r \in Past \ {"cleanup", "confirm", "complete"}
    <3>1. runner[t] \in Past \ {"cleanup", "confirm", "complete"}
            => r \in Past \ {"cleanup", "confirm", "complete"}
      BY DEF MayWalk, Past
    <3> QED
      BY <1>1, <1>2, <3>1 DEF MayMeet, JournalOK, d
  <2>4. a.marker = "initial" => ~Submitted(a)
    BY <1>1, <1>2 DEF JournalOK, Submitted, d
  <2>5. a.marker \in {"completed", "docker_absent"} => Gone(t) /\ r \in Past
    <3>1. runner[t] \in Past => r \in Past
      BY DEF MayWalk, Past
    <3> QED
      BY <1>1, <1>2, <3>1 DEF MayMeet, JournalOK, d
  <2>6. a.stage \in Closing => Gone(t) /\ Clean(a) /\ pointer'[HomeOf[t]] # t /\ r \in Over
    <3>1. a.stage \in Closing => d.stage \in Closing
      <4>1. d.stage \in Stage
        BY <1>1 DEF Disk
      <4> QED
        BY <1>2, <4>1, StageSet, StageSteps DEF MayMeet, Closing, d
    <3> QED
      BY <1>1, <1>9, <1>10, <1>11, <3>1 DEF JournalOK, d
  <2>7. a.restart # "none" => r \in Over
    BY <1>1, <1>2, <1>10 DEF JournalOK, d
  <2>8. a.restart \in {"stopped", "start_intent", "ready", "settled"} => CutOff(t)
    BY <1>1, <1>2 DEF JournalOK, d
  <2>9. Gone(t) \/ pointer'[HomeOf[t]] = t
    <3>1. o = "unpoint" => Gone(t)
      BY DEF MayMeet
    <3>2. Gone(t) \/ pointer[HomeOf[t]] = t
      BY <1>1 DEF JournalOK
    <3>3. o # "unpoint" /\ pointer[HomeOf[t]] = t => pointer'[HomeOf[t]] = t
      BY <1>1, Typed DEF Meet
    <3> QED
      BY <3>1, <3>2, <3>3
  <2> QED
    BY <1>4, <1>7, <2>1, <2>2, <2>3, <2>4, <2>5, <2>6, <2>7, <2>8, <2>9 DEF JournalOK
<1> QED
  BY <1>6, <1>13, <1>14

-----------------------------------------------------------------------------
(* The process of a task.                                                  *)

LEMMA DueUnmet ==
  ASSUME NEW t, NEW plan, NEW o, Due(t, plan, o)
  PROVE  ~Met(t, o)
BY DEF Due

LEMMA BeginDue ==
  ASSUME NEW t, NEW o, Due(t, BeginPlan, o)
  PROVE  /\ o \in {"placed", "host_begin_intent", "point", "bind", "commit_bind",
                   "host_started", "host_begin_receipt"}
         /\ o = "placed" => disk[t].stage # "open"
         /\ o = "host_begin_receipt" =>
              pointer[HomeOf[t]] = t /\ disk[t].marker = "started"
<1>1. /\ Len(BeginPlan) = 7 /\ BeginPlan[1] = "placed" /\ BeginPlan[2] = "host_begin_intent"
      /\ BeginPlan[3] = "point" /\ BeginPlan[4] = "bind" /\ BeginPlan[5] = "commit_bind"
      /\ BeginPlan[6] = "host_started" /\ BeginPlan[7] = "host_begin_receipt"
  BY DEF BeginPlan
<1>2. PICK i \in 1..7 : /\ BeginPlan[i] = o /\ ~Met(t, o)
                        /\ \A j \in 1..(i - 1) : Met(t, BeginPlan[j])
  BY <1>1 DEF Due
<1>3. i \in {1, 2, 3, 4, 5, 6, 7}
  BY <1>2
<1>4. o \in {"placed", "host_begin_intent", "point", "bind", "commit_bind",
             "host_started", "host_begin_receipt"}
  BY <1>1, <1>2, <1>3
<1>5. ASSUME o = "host_begin_receipt"
      PROVE  Met(t, "point") /\ Met(t, "host_started")
  <2>1. i = 7
    BY <1>1, <1>2, <1>3, <1>5
  <2>2. 3 \in 1..(i - 1) /\ 6 \in 1..(i - 1)
    BY <2>1
  <2> QED
    BY <1>1, <1>2, <2>2
<1> QED
  BY <1>2, <1>4, <1>5 DEF Met

LEMMA OtherPlans ==
  ASSUME NEW o
  PROVE  /\ o \in Range(ConfirmPlan) =>
              o \in {"docker_absence", "mount_completion", "host_complete_intent",
                     "host_completed"}
         /\ o \in Range(CompletePlan) =>
              o \in {"host_complete_receipt", "unbind", "unpoint", "lease_release",
                     "normal_run_complete"}
         /\ o \in Range(TidyPlan) => o \in {"host_cleanup_intent", "host_root"}
         /\ o \in Range(SettlePlan) => o \in {"host_marker", "host_cleanup_receipt"}
         /\ o \in Range(BeginPlan) =>
              o \in {"placed", "host_begin_intent", "point", "bind", "commit_bind",
                     "host_started", "host_begin_receipt"}
BY DEF Range, ConfirmPlan, CompletePlan, TidyPlan, SettlePlan, BeginPlan

LEMMA PlanEnds ==
  /\ BeginPlan[Len(BeginPlan)] = "host_begin_receipt"
  /\ ConfirmPlan[Len(ConfirmPlan)] = "host_completed"
  /\ CompletePlan[Len(CompletePlan)] = "normal_run_complete"
  /\ TidyPlan[Len(TidyPlan)] = "host_root"
  /\ SettlePlan[Len(SettlePlan)] = "host_cleanup_receipt"
BY DEF BeginPlan, ConfirmPlan, CompletePlan, TidyPlan, SettlePlan

LEMMA SettleDue ==
  ASSUME NEW t, Due(t, SettlePlan, "host_cleanup_receipt")
  PROVE  disk[t].marker = "gone"
<1>1. Len(SettlePlan) = 2 /\ SettlePlan[1] = "host_marker"
      /\ SettlePlan[2] = "host_cleanup_receipt"
  BY DEF SettlePlan
<1>2. PICK i \in 1..2 : /\ SettlePlan[i] = "host_cleanup_receipt"
                        /\ \A j \in 1..(i - 1) : Met(t, SettlePlan[j])
  BY <1>1 DEF Due
<1>3. i = 2 /\ 1 \in 1..(i - 1)
  BY <1>1, <1>2
<1>4. Met(t, "host_marker")
  BY <1>1, <1>2, <1>3
<1> QED
  BY <1>4 DEF Met

\* What the invariant says of the process of a task, field by field.
LEMMA RunnerFacts ==
  ASSUME DockerInv, NEW t \in Task
  PROVE  /\ runner[t] = "begin" => pointer[HomeOf[t]] \in {"none", t}
         /\ runner[t] \in Running =>
              pointer[HomeOf[t]] = t /\ disk[t].root /\ disk[t].marker = "started"
         /\ runner[t] \in Cleaned => Gone(t)
         /\ runner[t] = "settle" => ~disk[t].root
         /\ runner[t] \in {"settled", "closing", "done"} => Clean(disk[t])
         /\ JournalOK(t) /\ disk[t] \in Disk /\ runner[t] \in RunnerPC /\ HomeOf[t] \in Home
BY Typed DEF DockerInv, RunnerOK

LEMMA Unnoticed ==
  ASSUME DockerInv, NEW t \in Task, TaskStep(t), Still(t),
         UNCHANGED <<engine, recovery, restart, told, cuts>>
  PROVE  DockerInv'
BY Typed, TaskStepKeeps DEF DockerInv, DockerTypeOK

LEMMA WritesBegin ==
  ASSUME DockerInv, NEW t \in Task, RunnerFollows(t, "begin", BeginPlan, "run")
  PROVE  DockerInv'
<1>1. PICK o \in Range(BeginPlan) :
        /\ Due(t, BeginPlan, o) /\ Meet(t, o)
        /\ Walk(t, "begin", IF o = BeginPlan[Len(BeginPlan)] THEN "run" ELSE "begin")
        /\ UNCHANGED <<create, engine, recovery, restart, told, cuts>>
  BY DEF RunnerFollows
<1> DEFINE r == IF o = "host_begin_receipt" THEN "run" ELSE "begin"
<1>2. runner[t] = "begin" /\ runner' = [runner EXCEPT ![t] = r] /\ r \in RunnerPC
  BY <1>1, PlanEnds DEF Walk, RunnerPC
<1>3. /\ o \in {"placed", "host_begin_intent", "point", "bind", "commit_bind",
                "host_started", "host_begin_receipt"}
      /\ o = "placed" => disk[t].stage # "open"
      /\ o = "host_begin_receipt" => pointer[HomeOf[t]] = t /\ disk[t].marker = "started"
  BY <1>1, BeginDue
<1>4. disk[t].stage \notin Closing /\ disk[t].root
  BY <1>2, RunnerFacts DEF JournalOK, Over, Past, Disk
<1>5. o \in Obligation /\ MayMeet(t, o, r) /\ MayWalk(runner[t], r)
  BY <1>2, <1>3, <1>4 DEF Obligation, OperationRecord, MayMeet, MayWalk, Evidence, Closing
<1>6. Frame(t) /\ Calm(t) /\ JournalOK(t)'
  BY <1>1, <1>2, <1>5, MeetStep
<1>7. RunnerOK(t)'
  <2>1. runner'[t] = r /\ r \in {"begin", "run"}
    BY <1>2, Typed
  <2>2. r = "begin" => pointer'[HomeOf[t]] \in {"none", t}
    BY <1>2, <1>6, RunnerFacts, Typed DEF Frame, PointerStep
  <2>3. r = "run" => pointer'[HomeOf[t]] = t /\ disk'[t].root /\ disk'[t].marker = "started"
    <3> SUFFICES ASSUME r = "run" PROVE pointer'[HomeOf[t]] = t /\ disk'[t].root
                                        /\ disk'[t].marker = "started"
      OBVIOUS
    <3>1. o = "host_begin_receipt"
      OBVIOUS
    <3>2. pointer' = pointer
      BY <1>1, <3>1, Typed DEF Meet
    <3>3. disk'[t].root = disk[t].root /\ disk'[t].marker = disk[t].marker
      BY <1>1, <1>5, <3>1, MeetFields
    <3> QED
      BY <1>3, <1>4, <3>1, <3>2, <3>3
  <2>4. \A u \in Task : runner'[t] = "begin" /\ runner'[u] = "begin" => t = u
    BY <1>6 DEF Frame
  <2> QED
    BY <2>1, <2>2, <2>3, <2>4 DEF RunnerOK, Running, Cleaned
<1> QED
  BY <1>1, <1>2, <1>6, <1>7, Unnoticed DEF TaskStep, Still, Over

\* A plan of a task that has left nothing with the engine.
LEMMA WritesEnd ==
  ASSUME DockerInv, NEW t \in Task, NEW o \in Obligation, NEW r \in RunnerPC,
         runner[t] \in {"confirm", "complete", "tidy", "settle"}, ~Met(t, o), Meet(t, o),
         runner' = [runner EXCEPT ![t] = r], MayWalk(runner[t], r),
         o \notin {"placed", "point", "host_started", "host_docker_absent"},
         o = "host_completed" => runner[t] = "confirm",
         o = "host_root" => r \in {"tidy", "settle"},
         r = "settle" => o = "host_root" \/ runner[t] = "settle",
         r = "settled" => disk[t].marker = "gone" /\ runner[t] = "settle",
         UNCHANGED <<create, engine, recovery, restart, told, cuts>>
  PROVE  DockerInv'
<1>1. Gone(t) /\ runner[t] \in Past /\ r \in Past /\ r \in Cleaned
  BY RunnerFacts DEF Cleaned, Past, MayWalk
<1>2. MayMeet(t, o, r)
  BY <1>1 DEF MayMeet, Met
<1>3. Frame(t) /\ Calm(t) /\ JournalOK(t)'
  BY <1>2, MeetStep
<1>4. disk[t] \in Disk /\ disk'[t] = After(disk[t], o) /\ runner'[t] = r
  BY RunnerFacts, Typed DEF Meet
<1>5. /\ disk'[t].root = IF o = "host_root" THEN FALSE ELSE disk[t].root
      /\ disk'[t].stage = disk[t].stage
      /\ disk[t].marker = "gone" /\ o # "host_completed" => disk'[t].marker = "gone"
  BY MeetFields
<1>6. RunnerOK(t)'
  <2>1. Gone(t)'
    BY <1>1 DEF Gone
  <2>2. r = "settle" => ~disk'[t].root
    BY <1>5, RunnerFacts DEF MayWalk
  <2>3. r = "settled" => Clean(disk'[t])
    BY <1>5, RunnerFacts DEF Clean
  <2>4. r \in {"confirm", "complete", "tidy", "settle", "settled"}
    BY DEF MayWalk
  <2> QED
    BY <1>4, <2>1, <2>2, <2>3, <2>4 DEF RunnerOK, Running
<1>7. Still(t)
  BY <1>5 DEF Still
<1> QED
  BY <1>3, <1>6, <1>7, Unnoticed DEF TaskStep

LEMMA RunnerWritesKeeps ==
  ASSUME DockerInv, NEW t \in Task, RunnerWrites(t)
  PROVE  DockerInv'
<1>1. CASE RunnerFollows(t, "begin", BeginPlan, "run")
  BY <1>1, WritesBegin
<1>2. CASE RunnerFollows(t, "confirm", ConfirmPlan, "complete")
  <2>1. PICK o \in Range(ConfirmPlan) :
          /\ Due(t, ConfirmPlan, o) /\ Meet(t, o)
          /\ Walk(t, "confirm", IF o = ConfirmPlan[Len(ConfirmPlan)] THEN "complete" ELSE "confirm")
          /\ UNCHANGED <<create, engine, recovery, restart, told, cuts>>
    BY <1>2 DEF RunnerFollows
  <2> DEFINE r == IF o = "host_completed" THEN "complete" ELSE "confirm"
  <2>2. runner[t] = "confirm" /\ runner' = [runner EXCEPT ![t] = r] /\ r \in RunnerPC
    BY <2>1, PlanEnds DEF Walk, RunnerPC
  <2>3. o \in {"docker_absence", "mount_completion", "host_complete_intent", "host_completed"}
    BY OtherPlans
  <2>4. o \in Obligation /\ ~Met(t, o) /\ MayWalk(runner[t], r)
    BY <2>1, <2>2, <2>3, DueUnmet DEF Obligation, OperationRecord, MayWalk
  <2> QED
    BY <2>1, <2>2, <2>3, <2>4, WritesEnd
<1>3. CASE RunnerFollows(t, "complete", CompletePlan, "tidy")
  <2>1. PICK o \in Range(CompletePlan) :
          /\ Due(t, CompletePlan, o) /\ Meet(t, o)
          /\ Walk(t, "complete", IF o = CompletePlan[Len(CompletePlan)] THEN "tidy" ELSE "complete")
          /\ UNCHANGED <<create, engine, recovery, restart, told, cuts>>
    BY <1>3 DEF RunnerFollows
  <2> DEFINE r == IF o = "normal_run_complete" THEN "tidy" ELSE "complete"
  <2>2. runner[t] = "complete" /\ runner' = [runner EXCEPT ![t] = r] /\ r \in RunnerPC
    BY <2>1, PlanEnds DEF Walk, RunnerPC
  <2>3. o \in {"host_complete_receipt", "unbind", "unpoint", "lease_release",
               "normal_run_complete"}
    BY OtherPlans
  <2>4. o \in Obligation /\ ~Met(t, o) /\ MayWalk(runner[t], r)
    BY <2>1, <2>2, <2>3, DueUnmet DEF Obligation, OperationRecord, MayWalk
  <2> QED
    BY <2>1, <2>2, <2>3, <2>4, WritesEnd
<1>4. CASE RunnerFollows(t, "tidy", TidyPlan, "settle")
  <2>1. PICK o \in Range(TidyPlan) :
          /\ Due(t, TidyPlan, o) /\ Meet(t, o)
          /\ Walk(t, "tidy", IF o = TidyPlan[Len(TidyPlan)] THEN "settle" ELSE "tidy")
          /\ UNCHANGED <<create, engine, recovery, restart, told, cuts>>
    BY <1>4 DEF RunnerFollows
  <2> DEFINE r == IF o = "host_root" THEN "settle" ELSE "tidy"
  <2>2. runner[t] = "tidy" /\ runner' = [runner EXCEPT ![t] = r] /\ r \in RunnerPC
    BY <2>1, PlanEnds DEF Walk, RunnerPC
  <2>3. o \in {"host_cleanup_intent", "host_root"}
    BY OtherPlans
  <2>4. o \in Obligation /\ ~Met(t, o) /\ MayWalk(runner[t], r)
    BY <2>1, <2>2, <2>3, DueUnmet DEF Obligation, OperationRecord, MayWalk
  <2> QED
    BY <2>1, <2>2, <2>3, <2>4, WritesEnd
<1>5. CASE RunnerFollows(t, "settle", SettlePlan, "settled")
  <2>1. PICK o \in Range(SettlePlan) :
          /\ Due(t, SettlePlan, o) /\ Meet(t, o)
          /\ Walk(t, "settle", IF o = SettlePlan[Len(SettlePlan)] THEN "settled" ELSE "settle")
          /\ UNCHANGED <<create, engine, recovery, restart, told, cuts>>
    BY <1>5 DEF RunnerFollows
  <2> DEFINE r == IF o = "host_cleanup_receipt" THEN "settled" ELSE "settle"
  <2>2. runner[t] = "settle" /\ runner' = [runner EXCEPT ![t] = r] /\ r \in RunnerPC
    BY <2>1, PlanEnds DEF Walk, RunnerPC
  <2>3. o \in {"host_marker", "host_cleanup_receipt"}
    BY OtherPlans
  <2>4. o \in Obligation /\ ~Met(t, o) /\ MayWalk(runner[t], r)
    BY <2>1, <2>2, <2>3, DueUnmet DEF Obligation, OperationRecord, MayWalk
  <2>5. r = "settled" => disk[t].marker = "gone"
    BY <2>1, SettleDue
  <2> QED
    BY <2>1, <2>2, <2>3, <2>4, <2>5, WritesEnd
<1> QED
  BY <1>1, <1>2, <1>3, <1>4, <1>5 DEF RunnerWrites

\* A step of a task's own process that writes no obligation: it walks on, and
\* the journal or the CREATE of a purpose may change.
LEMMA WalkStep ==
  ASSUME DockerInv, NEW t \in Task, NEW r \in RunnerPC, runner' = [runner EXCEPT ![t] = r],
         UNCHANGED <<durable, create, engine, recovery, restart, told, cuts>>,
         runner[t] \in Past => r \in Past,
         runner[t] \in Over => r \in Over,
         runner[t] \in Past \ {"cleanup", "confirm", "complete"}
           => r \in Past \ {"cleanup", "confirm", "complete"},
         Recovering(t) /\ runner[t] # "closing" => r # "closing",
         r = "begin" => /\ pointer[HomeOf[t]] \in {"none", t}
                        /\ \A u \in Task : runner[u] = "begin" => u = t,
         r \in Running => runner[t] \in Running,
         r \in Cleaned => Gone(t),
         r = "settle" => ~disk[t].root,
         r \in {"settled", "closing", "done"} => Clean(disk[t])
  PROVE  DockerInv'
<1>1. runner'[t] = r /\ runner' \in [Task -> RunnerPC]
  BY Typed
<1>2. (Gone(t)' <=> Gone(t)) /\ (CutOff(t)' <=> CutOff(t)) /\ (SubmissionOK(t)' <=> SubmissionOK(t))
      /\ disk' = disk /\ pointer' = pointer /\ create' = create
  BY DEF Gone, CutOff, SubmissionOK, durable
<1>3. Frame(t)
  BY <1>1, <1>2, Typed DEF Frame, PointerStep
<1>4. Calm(t) /\ Still(t)
  BY <1>1, <1>2 DEF Calm, Still
<1>5. JournalOK(t)'
  BY <1>1, <1>2, RunnerFacts DEF JournalOK
<1>6. RunnerOK(t)'
  <2>1. \A u \in Task : runner'[t] = "begin" /\ runner'[u] = "begin" => t = u
    BY <1>3 DEF Frame
  <2> QED
    BY <1>1, <1>2, <2>1, RunnerFacts DEF RunnerOK
<1> QED
  BY <1>3, <1>4, <1>5, <1>6, Unnoticed DEF TaskStep

LEMMA RunnerWalksKeeps ==
  ASSUME DockerInv, NEW t \in Task,
         RunnerBegins(t) \/ RunnerStops(t) \/ RunnerCleaned(t) \/ RunnerGivesUp(t)
         \/ RunnerCrashes(t)
  PROVE  DockerInv'
<1>1. CASE RunnerBegins(t)
  <2>1. /\ runner' = [runner EXCEPT ![t] = "begin"] /\ runner[t] = "ready"
        /\ UNCHANGED <<durable, create, engine, recovery, restart, told, cuts>>
        /\ pointer[HomeOf[t]] = "none" /\ \A u \in Task : runner[u] # "begin"
    BY <1>1 DEF RunnerBegins, Walk, KeepOthers, StateFree, StateLeft
  <2> QED
    BY <2>1, WalkStep DEF RunnerPC, Past, Over, Running, Cleaned
<1>2. CASE RunnerStops(t)
  <2>1. /\ runner' = [runner EXCEPT ![t] = "cleanup"] /\ runner[t] \in {"run", "start", "wait"}
        /\ UNCHANGED <<durable, create, engine, recovery, restart, told, cuts>>
    BY <1>2 DEF RunnerStops, Walk, KeepOthers
  <2> QED
    BY <2>1, WalkStep DEF RunnerPC, Past, Over, Running, Cleaned
<1>3. CASE RunnerCleaned(t)
  <2>1. /\ runner' = [runner EXCEPT ![t] = "confirm"] /\ runner[t] = "cleanup"
        /\ UNCHANGED <<durable, create, engine, recovery, restart, told, cuts>>
        /\ \A p \in Purpose : disk[t].submission[p] # "submitted" /\ create[t][p] # "exists"
    BY <1>3 DEF RunnerCleaned, Walk, KeepOthers
  <2>2. Gone(t)
    BY <2>1, RunnerFacts DEF Gone, JournalOK, SubmissionOK
  <2> QED
    BY <2>1, <2>2, WalkStep DEF RunnerPC, Past, Over, Running, Cleaned
<1>4. CASE RunnerGivesUp(t) \/ RunnerCrashes(t)
  <2>1. PICK r \in {"blocked", "dead"} :
          /\ runner' = [runner EXCEPT ![t] = r]
          /\ runner[t] \in Over => r = "dead"
          /\ UNCHANGED <<durable, create, engine, recovery, restart, told, cuts>>
    BY <1>4 DEF RunnerGivesUp, RunnerCrashes, Walk, KeepOthers, Over
  <2> QED
    BY <2>1, WalkStep DEF RunnerPC, Past, Over, Running, Cleaned
<1> QED
  BY <1>1, <1>2, <1>3, <1>4

\* A step of a task that runs: submissions and requests change.
LEMMA RunStep ==
  ASSUME DockerInv, NEW t \in Task, NEW r \in Running, runner[t] \in Running,
         runner' = [runner EXCEPT ![t] = r], runner[t] = "cleanup" => r = "cleanup",
         NEW s \in [Purpose -> Submission],
         disk' = [disk EXCEPT ![t] = [disk[t] EXCEPT !.submission = s]],
         create' \in CreateType, \A u \in Task \ {t} : create'[u] = create[u],
         SubmissionOK(t)',
         runner[t] = "cleanup" /\ Gone(t) => Gone(t)',
         \A p \in Purpose : create'[t][p] = "engine" => create[t][p] = "engine",
         UNCHANGED <<pointer, engine, recovery, restart, told, cuts>>
  PROVE  DockerInv'
<1> DEFINE d == [disk[t] EXCEPT !.submission = s]
<1>1. /\ d \in Disk /\ d.stage = disk[t].stage /\ d.file = disk[t].file
      /\ d.restart = disk[t].restart /\ d.root = disk[t].root /\ d.marker = disk[t].marker
      /\ d.completed = disk[t].completed
  BY RunnerFacts DEF Disk
<1>2. disk' = [disk EXCEPT ![t] = d]
  OBVIOUS
<1> HIDE DEF d
<1>3. disk'[t] = d /\ disk' \in [Task -> Disk] /\ \A u \in Task \ {t} : disk'[u] = disk[u]
  BY <1>1, <1>2, Typed
<1>4. runner'[t] = r /\ runner' \in [Task -> RunnerPC] /\ \A u \in Task \ {t} : runner'[u] = runner[u]
  BY Typed DEF Running, RunnerPC
<1>5. pointer[HomeOf[t]] = t /\ disk[t].root /\ disk[t].marker = "started"
  BY RunnerFacts
<1>6. Frame(t)
  BY <1>3, <1>4 DEF Frame, PointerStep, Running
<1>7. Calm(t) /\ Still(t)
  BY <1>1, <1>3, <1>4 DEF Calm, Still, Running, Over
<1>8. JournalOK(t)'
  <2>1. /\ disk[t].stage \notin Closing /\ disk[t].restart = "none"
        /\ disk[t].file \cap Evidence # {} \/ disk[t].completed =>
             Gone(t) /\ runner[t] = "cleanup"
    BY RunnerFacts DEF JournalOK, Running, Over, Past
  <2> QED
    BY <1>1, <1>3, <1>4, <1>5, <2>1 DEF JournalOK, Past
<1>9. RunnerOK(t)'
  BY <1>1, <1>3, <1>4, <1>5 DEF RunnerOK, Running, Cleaned
<1> QED
  BY <1>6, <1>7, <1>8, <1>9, Unnoticed DEF TaskStep

LEMMA RunnerRunsKeeps ==
  ASSUME DockerInv, NEW t \in Task, NEW p \in Purpose,
         RunnerSubmits(t, p) \/ RunnerStarts(t, p) \/ RunnerReceives(t, p)
         \/ RunnerRemoves(t, p)
  PROVE  DockerInv'
<1> DEFINE sub == disk[t].submission
<1>1. /\ sub \in [Purpose -> Submission] /\ SubmissionOK(t) /\ disk[t] \in Disk
      /\ disk[t] = [disk[t] EXCEPT !.submission = sub]
  BY RunnerFacts DEF Disk, JournalOK
<1>2. create[t] \in [Purpose -> {"none", "client", "engine", "exists"}]
  BY Typed DEF CreateType
<1>3. CASE RunnerSubmits(t, p)
  <2> DEFINE s == [sub EXCEPT ![p] = "submitted"]
  <2>1. /\ sub[p] = "none" /\ runner[t] = "run" /\ runner' = [runner EXCEPT ![t] = "start"]
        /\ UNCHANGED <<pointer, create, engine, recovery, restart, told, cuts>>
    BY <1>3 DEF RunnerSubmits, Walk, KeepOthers
  <2>2. s \in [Purpose -> Submission] /\ s[p] = "submitted"
        /\ \A q \in Purpose \ {p} : s[q] = sub[q]
    BY <1>1 DEF Submission
  <2>3. disk' = [disk EXCEPT ![t] = [disk[t] EXCEPT !.submission = s]]
    BY <1>1, <1>3, Typed DEF RunnerSubmits, Disk
  <2>4. disk'[t].submission = s
    BY <1>1, <2>3, Typed DEF Disk
  <2> HIDE DEF s, sub
  <2>5. SubmissionOK(t)'
    BY <1>1, <2>1, <2>2, <2>4 DEF SubmissionOK, sub
  <2> QED
    BY <2>1, <2>2, <2>3, <2>5, Typed, RunStep DEF Running
<1>4. CASE RunnerStarts(t, p)
  <2>1. /\ sub[p] = "submitted" /\ runner[t] = "start"
        /\ runner' = [runner EXCEPT ![t] = "wait"] /\ create' = [create EXCEPT ![t][p] = "client"]
        /\ UNCHANGED <<disk, pointer, engine, recovery, restart, told, cuts>>
    BY <1>4 DEF RunnerStarts, Walk, KeepOthers, durable
  <2>2. /\ create' \in CreateType /\ \A u \in Task \ {t} : create'[u] = create[u]
        /\ create'[t][p] = "client" /\ \A q \in Purpose \ {p} : create'[t][q] = create[t][q]
    BY <1>2, <2>1, Typed DEF CreateType
  <2>3. disk' = [disk EXCEPT ![t] = [disk[t] EXCEPT !.submission = sub]]
    BY <1>1, <2>1, Typed
  <2> HIDE DEF sub
  <2>5. SubmissionOK(t)'
    BY <1>1, <2>1, <2>2 DEF SubmissionOK, sub
  <2>6. \A q \in Purpose : create'[t][q] = "engine" => create[t][q] = "engine"
    BY <2>2
  <2> QED
    BY <1>1, <2>1, <2>2, <2>3, <2>5, <2>6, RunStep DEF Running
<1>5. CASE RunnerReceives(t, p)
  <2> DEFINE s == [sub EXCEPT ![p] = "received"]
  <2>1. /\ sub[p] = "submitted" /\ create[t][p] = "exists" /\ runner[t] = "wait"
        /\ runner' = [runner EXCEPT ![t] = "run"]
        /\ UNCHANGED <<pointer, create, engine, recovery, restart, told, cuts>>
    BY <1>5 DEF RunnerReceives, Walk, KeepOthers
  <2>2. s \in [Purpose -> Submission] /\ s[p] = "received"
        /\ \A q \in Purpose \ {p} : s[q] = sub[q]
    BY <1>1 DEF Submission
  <2>3. disk' = [disk EXCEPT ![t] = [disk[t] EXCEPT !.submission = s]]
    BY <1>1, <1>5, Typed DEF RunnerReceives, Disk
  <2>4. disk'[t].submission = s
    BY <1>1, <2>3, Typed DEF Disk
  <2> HIDE DEF s, sub
  <2>5. SubmissionOK(t)'
    BY <1>1, <2>1, <2>2, <2>4 DEF SubmissionOK, sub
  <2> QED
    BY <2>1, <2>2, <2>3, <2>5, Typed, RunStep DEF Running
<1>6. CASE RunnerRemoves(t, p)
  <2>1. /\ runner[t] = "cleanup" /\ runner' = runner /\ create' = [create EXCEPT ![t][p] = "none"]
        /\ UNCHANGED <<disk, pointer, engine, recovery, restart, told, cuts>>
    BY <1>6 DEF RunnerRemoves, KeepOthers, durable
  <2>2. /\ create' \in CreateType /\ \A u \in Task \ {t} : create'[u] = create[u]
        /\ create'[t][p] = "none" /\ \A q \in Purpose \ {p} : create'[t][q] = create[t][q]
    BY <1>2, <2>1, Typed DEF CreateType
  <2>3. disk' = [disk EXCEPT ![t] = [disk[t] EXCEPT !.submission = sub]]
        /\ runner' = [runner EXCEPT ![t] = "cleanup"]
    BY <1>1, <2>1, Typed
  <2> HIDE DEF sub
  <2>5. SubmissionOK(t)'
    BY <1>1, <2>1, <2>2 DEF SubmissionOK, sub
  <2>6. (\A q \in Purpose : create'[t][q] = "engine" => create[t][q] = "engine")
        /\ (Gone(t) => Gone(t)')
    BY <2>2 DEF Gone
  <2> QED
    BY <1>1, <2>1, <2>2, <2>3, <2>5, <2>6, RunStep DEF Running
<1> QED
  BY <1>3, <1>4, <1>5, <1>6

\* A step that changes the record of a task only, and what is left of the task
\* is not changed.
LEMMA RecordStep ==
  ASSUME DockerInv, NEW t \in Task, NEW r \in RunnerPC, runner[t] \in Over, r \in Over,
         NEW s \in Stage, NEW c \in BOOLEAN,
         disk' = [disk EXCEPT ![t] = [disk[t] EXCEPT !.stage = s, !.completed = c]],
         runner' = [runner EXCEPT ![t] = r],
         Recovering(t) /\ runner[t] # "closing" => r # "closing",
         r # runner[t] => Clean(disk[t]) /\ Gone(t) /\ r # "settle",
         disk[t].stage = "removed" => s = "removed",
         s \in Closing => Gone(t) /\ Clean(disk[t]) /\ pointer[HomeOf[t]] # t,
         c => Gone(t),
         UNCHANGED <<pointer, create>>
  PROVE  /\ TaskStep(t) /\ disk'[t].stage = s /\ runner'[t] = r
         /\ (Gone(t)' <=> Gone(t)) /\ (Clean(disk'[t]) <=> Clean(disk[t]))
<1> DEFINE d == disk[t]
           a == [d EXCEPT !.stage = s, !.completed = c]
<1>1. /\ d \in Disk /\ JournalOK(t) /\ RunnerOK(t)
  BY Typed DEF DockerInv
<1>2. /\ a \in Disk /\ a.stage = s /\ a.completed = c /\ a.file = d.file
      /\ a.submission = d.submission /\ a.restart = d.restart /\ a.root = d.root
      /\ a.marker = d.marker
  BY <1>1 DEF Disk
<1>3. disk' = [disk EXCEPT ![t] = a]
  OBVIOUS
<1> HIDE DEF a
<1>4. disk'[t] = a /\ disk' \in [Task -> Disk] /\ \A u \in Task \ {t} : disk'[u] = disk[u]
  BY <1>2, <1>3, Typed
<1>5. runner'[t] = r /\ runner' \in [Task -> RunnerPC] /\ \A u \in Task \ {t} : runner'[u] = runner[u]
  BY Typed
<1>6. Frame(t)
  BY <1>4, <1>5, Typed DEF Frame, PointerStep, Over
<1>7. (Gone(t)' <=> Gone(t)) /\ (CutOff(t)' <=> CutOff(t)) /\ (Clean(disk'[t]) <=> Clean(d))
  BY <1>2, <1>4 DEF Gone, CutOff, Clean
<1>8. Calm(t)
  BY <1>2, <1>4, <1>5, <1>7 DEF Calm
<1>9. JournalOK(t)'
  <2>1. SubmissionOK(t)' /\ (Submitted(a) <=> Submitted(d))
    BY <1>1, <1>2, <1>4 DEF JournalOK, SubmissionOK, Submitted
  <2>2. r \in Past \ {"cleanup", "confirm", "complete"}
    BY DEF Over, Past
  <2> HIDE DEF d
  <2> QED
    BY <1>1, <1>2, <1>4, <1>5, <1>7, <2>1, <2>2 DEF JournalOK, d
<1>10. RunnerOK(t)'
  BY <1>1, <1>2, <1>4, <1>5, <1>7 DEF RunnerOK, Over, Running, Clean
<1> QED
  BY <1>2, <1>4, <1>5, <1>6, <1>7, <1>8, <1>9, <1>10 DEF TaskStep

LEMMA RunnerClosesKeeps ==
  ASSUME DockerInv, NEW t \in Task, RunnerCloses(t)
  PROVE  DockerInv'
<1> DEFINE d == disk[t]
           s == StageAfter(d.stage)
<1>1. /\ d \in Disk /\ runner[t] \in {"settled", "closing"} /\ Clean(d) /\ Gone(t)
      /\ JournalOK(t) /\ "none" # t
  <2>1. runner[t] \in {"settled", "closing"}
    BY DEF RunnerCloses, Walk
  <2> QED
    BY <2>1, RunnerFacts, Typed DEF Cleaned
<1>2. PICK r \in {"closing", "done"} : runner' = [runner EXCEPT ![t] = r]
  BY DEF RunnerCloses, Walk
<1>3. /\ d.stage \in {"open", "manifest", "tombstone"}
      /\ d.stage = "open" => pointer[HomeOf[t]] = "none" /\ HomeFree(HomeOf[t])
      /\ d.stage # "open" => runner[t] = "closing"
      /\ UNCHANGED <<pointer, create, engine, recovery, restart, told, cuts>>
  BY DEF RunnerCloses, Walk, KeepOthers
<1>4. s \in {"manifest", "tombstone", "removed"} /\ s \in Stage
  BY <1>3, StageSteps, StageSet
<1>5. ~Recovering(t)
  BY <1>1, <1>3 DEF HomeFree, DockerInv, RecoveryOK, Recovering
<1>6. pointer[HomeOf[t]] # t
  BY <1>1, <1>3 DEF JournalOK, Closing
<1>7. disk' = [disk EXCEPT ![t] = [d EXCEPT !.stage = s, !.completed = d.completed]]
  BY <1>1, Typed DEF RunnerCloses, Disk
<1>8. d.completed \in BOOLEAN
  BY <1>1 DEF Disk
<1> HIDE DEF s
<1>9. TaskStep(t)
  BY <1>1, <1>2, <1>3, <1>4, <1>5, <1>6, <1>7, <1>8, RecordStep DEF Over, RunnerPC
<1> QED
  BY <1>3, <1>5, <1>9, Unnoticed DEF Still

-----------------------------------------------------------------------------
(* The engine.                                                             *)

LEMMA CreateKeeps ==
  ASSUME DockerInv, NEW t \in Task, NEW p \in Purpose, CreateMoves(t, p) \/ CreateFails(t, p)
  PROVE  DockerInv'
<1>1. PICK c \in {"none", "engine", "exists"} :
        /\ create' = [create EXCEPT ![t][p] = c]
        /\ create[t][p] \in {"client", "engine"}
        /\ c = "engine" => engine
        /\ c = "exists" => create[t][p] = "engine"
        /\ UNCHANGED <<durable, engine, runner, recovery, restart, told, cuts>>
  BY DEF CreateMoves, CreateFails, KeepProcesses
<1>2. create[t] \in [Purpose -> {"none", "client", "engine", "exists"}]
  BY Typed DEF CreateType
<1>3. /\ create' \in CreateType /\ \A u \in Task \ {t} : create'[u] = create[u]
      /\ create'[t][p] = c /\ \A q \in Purpose \ {p} : create'[t][q] = create[t][q]
  BY <1>1, <1>2, Typed DEF CreateType
<1>4. disk' = disk /\ pointer' = pointer /\ runner' = runner
  BY <1>1 DEF durable
<1>5. /\ ~Gone(t) /\ ~CutOff(t)
  BY <1>1, <1>2 DEF Gone, CutOff
<1>6. JournalOK(t) /\ RunnerOK(t)
  BY DEF DockerInv
<1>7. Frame(t) /\ Still(t)
  BY <1>3, <1>4, <1>6, Typed DEF Frame, PointerStep, RunnerOK, Still
<1>8. Calm(t)
  BY <1>1, <1>3, <1>4, <1>5 DEF Calm
<1>9. JournalOK(t)'
  <2>1. SubmissionOK(t)'
    BY <1>1, <1>3, <1>4, <1>6 DEF JournalOK, SubmissionOK
  <2> QED
    BY <1>3, <1>4, <1>5, <1>6, <2>1 DEF JournalOK
<1>10. RunnerOK(t)'
  BY <1>3, <1>4, <1>5, <1>6 DEF RunnerOK
<1> QED
  BY <1>1, <1>7, <1>8, <1>9, <1>10, Unnoticed DEF TaskStep

\* The engine stops or starts: what was on its way to it is gone, and a
\* restart, if it goes on, is at the step the new state of the engine allows.
LEMMA CutStep ==
  ASSUME DockerInv, create' = Cut(create), engine' \in BOOLEAN,
         UNCHANGED <<durable, runner, recovery, told, cuts>>,
         restart' \in [pc : RestartPC, task : Task],
         restart'.task = restart.task,
         restart'.pc = restart.pc
         \/ (restart.pc # "idle" /\ restart'.pc = "stopped" /\ CutOff(restart.task)')
  PROVE  DockerInv'
<1>1. /\ create' \in CreateType
      /\ \A t \in Task, p \in Purpose :
           create'[t][p] = IF create[t][p] = "engine" THEN "none" ELSE create[t][p]
  BY Typed DEF Cut, CreateType
<1>2. disk' = disk /\ pointer' = pointer /\ runner' = runner /\ recovery' = recovery
      /\ told' = told /\ cuts' = cuts
  BY DEF durable
<1>3. \A t \in Task : /\ Gone(t) => Gone(t)'
                      /\ CutOff(t) => CutOff(t)'
                      /\ SubmissionOK(t) => SubmissionOK(t)'
  BY <1>1, <1>2 DEF Gone, CutOff, SubmissionOK
<1>4. ASSUME NEW t \in Task PROVE JournalOK(t)' /\ RunnerOK(t)'
  <2>1. JournalOK(t) /\ RunnerOK(t)
    BY DEF DockerInv
  <2>2. JournalOK(t)'
    BY <1>2, <1>3, <2>1 DEF JournalOK
  <2>3. RunnerOK(t)'
    BY <1>2, <1>3, <2>1 DEF RunnerOK
  <2> QED
    BY <2>2, <2>3
<1>5. RecoveryOK'
  <2>1. RecoveryOK /\ recovery.task \in Task
    BY Typed DEF DockerInv
  <2>2. Gone(recovery.task) => Gone(recovery.task)'
    BY <1>3, <2>1
  <2> QED
    BY <1>2, <2>1, <2>2 DEF RecoveryOK, Gone
<1>6. RestartOK'
  <2>1. RestartOK /\ restart.task \in Task
    BY Typed DEF DockerInv
  <2>2. CutOff(restart.task) => CutOff(restart.task)'
    BY <1>3, <2>1
  <2>3. \A t \in Task, p \in Purpose : create'[t][p] # "engine"
    BY <1>1
  <2>4. restart'.pc # "idle" => runner'[restart'.task] \in Over
    BY <1>2, <2>1 DEF RestartOK
  <2>5. restart'.pc \in {"stopped", "start_intent", "start", "ready", "settled"}
          => CutOff(restart.task)'
    BY <2>1, <2>2 DEF RestartOK
  <2>6. restart'.pc \in {"stopped", "start_intent", "start", "ready", "settled"}
          => \A p \in Purpose : create'[restart'.task][p] \in {"none", "exists"}
    BY <2>5 DEF CutOff
  <2> QED
    BY <2>3, <2>4, <2>6 DEF RestartOK, CutOff
<1>7. DockerTypeOK'
  BY <1>1, <1>2 DEF DockerInv, DockerTypeOK, CreateType
<1> QED
  BY <1>2, <1>4, <1>5, <1>6, <1>7 DEF DockerInv

LEMMA EngineByHandKeeps ==
  ASSUME DockerInv, EngineByHand
  PROVE  DockerInv'
<1>1. engine' \in BOOLEAN
  BY DEF EngineByHand
<1> QED
  BY <1>1, CutStep, Typed DEF EngineByHand, KeepProcesses

-----------------------------------------------------------------------------
(* The restart of the engine.                                              *)

\* A restart that is about to touch a step has what the step needs.
LEMMA RestartMoves ==
  ASSUME DockerInv, restart' \in [pc : RestartPC, task : Task], cuts' \in 0..MaxCuts,
         UNCHANGED <<durable, create, engine, runner, recovery, told>>,
         restart'.pc # "idle" => runner[restart'.task] \in Over,
         restart'.pc \in {"stopped", "start_intent", "start", "ready", "settled"} =>
           CutOff(restart'.task)
  PROVE  DockerInv'
<1>1. disk' = disk /\ pointer' = pointer /\ runner' = runner /\ create' = create
      /\ engine' = engine /\ recovery' = recovery /\ told' = told
  BY DEF durable
<1>2. DockerTypeOK'
  BY <1>1 DEF DockerInv, DockerTypeOK
<1>3. \A t \in Task : JournalOK(t)' /\ RunnerOK(t)'
  BY <1>1 DEF DockerInv, JournalOK, SubmissionOK, RunnerOK, Gone, CutOff
<1>4. RecoveryOK'
  BY <1>1 DEF DockerInv, RecoveryOK, Gone
<1>5. RestartOK'
  BY <1>1 DEF DockerInv, RestartOK, CutOff
<1> QED
  BY <1>1, <1>2, <1>3, <1>4, <1>5 DEF DockerInv

LEMMA RestartPreparesKeeps ==
  ASSUME DockerInv, NEW t \in Task, RestartPrepares(t)
  PROVE  DockerInv'
<1> DEFINE phase == disk[t].restart
           pc == ResumesAt(phase)
<1>1. /\ HostFree(t) /\ pc # "idle" /\ restart' = [pc |-> pc, task |-> t]
      /\ UNCHANGED <<durable, create, engine, runner, recovery, told, cuts>>
  BY DEF RestartPrepares
<1>2. runner[t] \in Over
  BY <1>1 DEF HostFree, Over
<1>3. JournalOK(t) /\ create \in CreateType /\ RestartOK /\ cuts \in 0..MaxCuts
  BY Typed DEF DockerInv, DockerTypeOK
<1>4. /\ pc \in {"stop_intent", "stopped", "start_intent", "ready", "settled"}
      /\ pc = "stopped" => Stopped
      /\ pc = "start_intent" => phase = "stopped"
      /\ pc = "ready" => phase = "start_intent"
      /\ pc = "settled" => phase = "ready"
  BY <1>1 DEF ResumesAt
<1>5. Stopped => CutOff(t)
  BY <1>3 DEF Stopped, NoClient, RestartOK, CreateType, CutOff
<1>6. pc # "stop_intent" => CutOff(t)
  BY <1>3, <1>4, <1>5 DEF JournalOK
<1> HIDE DEF pc
<1> QED
  BY <1>1, <1>2, <1>3, <1>4, <1>6, RestartMoves DEF RestartPC

LEMMA RestartEndsKeeps ==
  ASSUME DockerInv, RestartRefuses \/ RestartCut
  PROVE  DockerInv'
<1>1. /\ restart' = [restart EXCEPT !.pc = "idle"]
      /\ UNCHANGED <<durable, create, engine, runner, recovery, told>>
      /\ cuts' = cuts \/ (cuts < MaxCuts /\ cuts' = cuts + 1)
  BY DEF RestartRefuses, RestartCut, RestartTo, KeepTasks, durable
<1>2. restart' \in [pc : RestartPC, task : Task] /\ restart'.pc = "idle"
  BY <1>1, Typed DEF RestartPC
<1>3. cuts' \in 0..MaxCuts
  BY <1>1, DockerConstants DEF DockerInv, DockerTypeOK
<1> QED
  BY <1>1, <1>2, <1>3, RestartMoves

LEMMA RestartActsKeeps ==
  ASSUME DockerInv, RestartActs
  PROVE  DockerInv'
<1>1. restart.task \in Task /\ RestartOK /\ create \in CreateType /\ cuts \in 0..MaxCuts
  BY Typed DEF DockerInv, DockerTypeOK
<1>2. CASE restart.pc = "stop"
  <2>1. /\ NoClient /\ restart' = [restart EXCEPT !.pc = "stopped"] /\ engine' = FALSE
        /\ create' = Cut(create)
        /\ UNCHANGED <<durable, runner, recovery, told, cuts>>
    BY <1>2 DEF RestartActs, RestartTo, KeepTasks, durable
  <2>2. \A t \in Task, p \in Purpose : create'[t][p] \in {"none", "exists"}
    BY <1>1, <2>1 DEF NoClient, Cut, CreateType
  <2>3. CutOff(restart.task)'
    <3>1. restart'.task = restart.task
      BY <2>1, Typed
    <3> QED
      BY <1>1, <2>2, <3>1 DEF CutOff
  <2>4. restart' \in [pc : RestartPC, task : Task] /\ restart'.pc = "stopped"
        /\ restart'.task = restart.task
    BY <2>1, Typed DEF RestartPC
  <2> QED
    BY <1>2, <2>1, <2>3, <2>4, CutStep
<1>3. CASE restart.pc # "stop"
  <2>1. /\ restart.pc = "start" /\ restart' = [restart EXCEPT !.pc = "ready"] /\ engine' = TRUE
        /\ UNCHANGED <<durable, create, runner, recovery, told, cuts>>
    BY <1>3 DEF RestartActs, RestartTo, KeepTasks, durable
  <2>2. restart' \in [pc : RestartPC, task : Task] /\ restart'.pc = "ready"
        /\ restart'.task = restart.task
    BY <2>1, Typed DEF RestartPC
  <2>3. disk' = disk /\ pointer' = pointer /\ runner' = runner /\ create' = create
        /\ recovery' = recovery /\ told' = told /\ cuts' = cuts
    BY <2>1 DEF durable
  <2>4. DockerTypeOK'
    BY <2>1, <2>2, <2>3 DEF DockerInv, DockerTypeOK
  <2>5. \A t \in Task : JournalOK(t)' /\ RunnerOK(t)'
    BY <2>3 DEF DockerInv, JournalOK, SubmissionOK, RunnerOK, Gone, CutOff
  <2>6. RecoveryOK'
    BY <2>3 DEF DockerInv, RecoveryOK, Gone
  <2>7. RestartOK'
    BY <1>1, <2>1, <2>2, <2>3 DEF RestartOK, CutOff
  <2> QED
    BY <2>3, <2>4, <2>5, <2>6, <2>7 DEF DockerInv
<1> QED
  BY <1>2, <1>3

LEMMA RestartRecordsKeeps ==
  ASSUME DockerInv, RestartRecords
  PROVE  DockerInv'
<1>0. PICK t \in Task : t = restart.task
  BY Typed
<1> DEFINE d == disk[t]
           phase == restart.pc
           a == [d EXCEPT !.restart = phase]
<1>1. /\ phase \in {"stop_intent", "stopped", "start_intent", "ready", "settled"}
      /\ disk' = [disk EXCEPT ![t] = a]
      /\ restart' = [restart EXCEPT !.pc = Follows(phase)]
      /\ UNCHANGED <<pointer, create, engine, runner, recovery, told, cuts>>
  BY <1>0, Typed DEF RestartRecords, RestartTo, KeepTasks
<1>2. t \in Task /\ d \in Disk /\ RestartOK /\ JournalOK(t) /\ RunnerOK(t)
  BY Typed DEF DockerInv
<1>3. phase \in RestartPhase
  <2>1. Len(RestartOrder) = 6 /\ RestartOrder[2] = "stop_intent" /\ RestartOrder[3] = "stopped"
        /\ RestartOrder[4] = "start_intent" /\ RestartOrder[5] = "ready"
        /\ RestartOrder[6] = "settled"
    BY DEF RestartOrder
  <2>2. \A i \in {2, 3, 4, 5, 6} : RestartOrder[i] \in RestartPhase
    BY <2>1 DEF RestartPhase
  <2> QED
    BY <1>1, <2>1, <2>2
<1>4. /\ a \in Disk /\ a.stage = d.stage /\ a.completed = d.completed /\ a.file = d.file
      /\ a.submission = d.submission /\ a.restart = phase /\ a.root = d.root
      /\ a.marker = d.marker
  BY <1>2, <1>3 DEF Disk
<1>5. /\ runner[t] \in Over
      /\ phase # "stop_intent" => CutOff(t)
  BY <1>0, <1>1, <1>2 DEF RestartOK
<1>6. Follows(phase) \in {"stop", "start_intent", "start", "settled", "idle"}
      /\ (phase = "stop_intent" => Follows(phase) = "stop")
  BY <1>1 DEF Follows
<1>7. restart' \in [pc : RestartPC, task : Task] /\ restart'.task = t
      /\ restart'.pc = Follows(phase)
  BY <1>0, <1>1, <1>6, Typed DEF RestartPC
<1> HIDE DEF a, phase
<1>8. disk'[t] = a /\ disk' \in [Task -> Disk] /\ \A u \in Task \ {t} : disk'[u] = disk[u]
  BY <1>1, <1>2, <1>4, Typed
<1>9. Frame(t)
  BY <1>1, <1>2, <1>5, <1>8, Typed DEF Frame, PointerStep, Over
<1>10. (Gone(t)' <=> Gone(t)) /\ (CutOff(t)' <=> CutOff(t)) /\ (Clean(a) <=> Clean(d))
       /\ (Submitted(a) <=> Submitted(d))
  BY <1>1, <1>4 DEF Gone, CutOff, Clean, Submitted
<1>11. Calm(t) /\ Still(t)
  BY <1>1, <1>4, <1>8, <1>10 DEF Calm, Still
<1>12. SubmissionOK(t)'
  BY <1>1, <1>2, <1>4, <1>8 DEF JournalOK, SubmissionOK
<1> HIDE DEF d
<1>13. JournalOK(t)'
  BY <1>1, <1>2, <1>4, <1>5, <1>8, <1>10, <1>12 DEF JournalOK, d
<1>14. RunnerOK(t)'
  BY <1>1, <1>2, <1>4, <1>5, <1>8, <1>10 DEF RunnerOK, d
<1>15. \A u \in Task : Calm(u) /\ Still(u) /\ JournalOK(u)' /\ RunnerOK(u)'
  BY <1>2, <1>9, <1>11, <1>13, <1>14, Others
<1>16. RecoveryOK'
  BY <1>1, <1>15, RecoveryKept, Typed
<1>17. RestartOK'
  <2>1. ~engine' => \A u \in Task, p \in Purpose : create'[u][p] # "engine"
    BY <1>1, <1>2 DEF RestartOK
  <2>2. restart'.pc # "idle" => runner'[t] \in Over
    BY <1>1, <1>5
  <2>3. restart'.pc \in {"stopped", "start_intent", "start", "ready", "settled"} => CutOff(t)'
    BY <1>5, <1>6, <1>7, <1>10
  <2> QED
    BY <1>7, <2>1, <2>2, <2>3 DEF RestartOK, CutOff
<1>18. DockerTypeOK'
  BY <1>1, <1>7, <1>8 DEF DockerInv, DockerTypeOK
<1>19. \A u \in told' : disk'[u].stage = "removed"
  BY <1>1, <1>15 DEF DockerInv, DockerTypeOK, Calm
<1> QED
  BY <1>15, <1>16, <1>17, <1>18, <1>19 DEF DockerInv

-----------------------------------------------------------------------------
(* Recovery.                                                               *)

\* What the invariant says of the task a recovery is at.
LEMMA RecoveryFacts ==
  ASSUME DockerInv, NEW t \in Task, NEW pc, RecoveryIn(t, pc)
  PROVE  /\ recovery.pc = pc /\ recovery.task = t
         /\ pc # "idle" => runner[t] \in Over \ {"closing"}
         /\ pc = "enter" => disk[t].stage \notin {"none", "removed"}
         /\ pc = "place" => disk[t].stage \in {"pending", "paired", "directory", "moved", "open"}
         /\ pc \in Ending => Gone(t)
         /\ pc = "complete" => pointer[HomeOf[t]] # t
         /\ pc \in {"precleaned", "cleaned"} => Clean(disk[t])
         /\ pc \in Ended => Clean(disk[t]) /\ pointer[HomeOf[t]] # t
         /\ pc = "receipt" => disk[t].stage = "manifest"
         /\ pc = "close" => disk[t].stage \in {"manifest", "tombstone"}
         /\ pc = "tell" => disk[t].stage = "removed"
<1>1. recovery.pc = pc /\ recovery.task = t
  BY DEF RecoveryIn
<1>2. RecoveryOK
  BY DEF DockerInv
<1> QED
  BY <1>1, <1>2 DEF RecoveryOK

\* A recovery comes to a step with what the step needs of its task.
Arrives(t, pc) ==
  /\ pc \in RecoveryPC /\ runner[t] \in Over \ {"closing"}
  /\ pc = "enter" => disk[t].stage \notin {"none", "removed"}
  /\ pc = "place" => disk[t].stage \in {"pending", "paired", "directory", "moved", "open"}
  /\ pc \in Ending => Gone(t)
  /\ pc = "complete" => pointer[HomeOf[t]] # t
  /\ pc \in {"precleaned", "cleaned"} => Clean(disk[t])
  /\ pc \in Ended => Clean(disk[t]) /\ pointer[HomeOf[t]] # t
  /\ pc = "receipt" => disk[t].stage = "manifest"
  /\ pc = "close" => disk[t].stage \in {"manifest", "tombstone"}
  /\ pc = "tell" => disk[t].stage = "removed"

LEMMA Arrived ==
  ASSUME DockerInv, NEW t \in Task, NEW pc, recovery' = [pc |-> pc, task |-> t], Arrives(t, pc)'
  PROVE  recovery' \in [pc : RecoveryPC, task : Task] /\ RecoveryOK'
<1>1. recovery'.pc = pc /\ recovery'.task = t /\ pc \in RecoveryPC
  BY DEF Arrives
<1> QED
  BY <1>1 DEF Arrives, RecoveryOK

\* A step with the same record that keeps what is kept of such a task.
LEMMA ArrivesNext ==
  ASSUME NEW t \in Task, NEW pc, Arrives(t, pc), Calm(t), runner'[t] = runner[t],
         disk'[t].stage = disk[t].stage
  PROVE  Arrives(t, pc)'
BY DEF Arrives, Calm, Ended, Ending

\* The recovery moves on, or stops, and nothing else changes.
LEMMA RecoveryMoves ==
  ASSUME DockerInv, NEW t \in Task, NEW pc, recovery' = [pc |-> pc, task |-> t],
         pc = "idle" \/ Arrives(t, pc),
         UNCHANGED <<durable, create, engine, runner, restart>>,
         told' \subseteq Task, \A u \in told' : u \in told \/ disk[u].stage = "removed",
         cuts' \in 0..MaxCuts
  PROVE  DockerInv'
<1>1. disk' = disk /\ pointer' = pointer /\ runner' = runner /\ create' = create
      /\ engine' = engine /\ restart' = restart
  BY DEF durable
<1>2. recovery'.pc = pc /\ recovery'.task = t /\ recovery' \in [pc : RecoveryPC, task : Task]
  BY DEF Arrives, RecoveryPC
<1>3. DockerTypeOK'
  BY <1>1, <1>2 DEF DockerInv, DockerTypeOK
<1>4. \A u \in Task : JournalOK(u)' /\ RunnerOK(u)'
  BY <1>1 DEF DockerInv, JournalOK, SubmissionOK, RunnerOK, Gone, CutOff
<1>5. RestartOK'
  BY <1>1 DEF DockerInv, RestartOK, CutOff
<1>6. RecoveryOK'
  <2>1. CASE pc = "idle"
    BY <1>2, <2>1 DEF RecoveryOK, Ending, Ended
  <2>2. CASE Arrives(t, pc)
    BY <1>1, <1>2, <2>2 DEF Arrives, RecoveryOK, Gone
  <2> QED
    BY <2>1, <2>2
<1> QED
  BY <1>1, <1>3, <1>4, <1>5, <1>6 DEF DockerInv

LEMMA RecoveryStartsKeeps ==
  ASSUME DockerInv, NEW t \in Task,
         RecoveryStarts(t) \/ RecoveryReplays(t) \/ RecoveryRefuses(t) \/ RecoveryCut(t)
         \/ RecoveryTells(t)
  PROVE  DockerInv'
<1>1. told \subseteq Task /\ cuts \in 0..MaxCuts /\ JournalOK(t)
  BY DEF DockerInv, DockerTypeOK
<1>2. CASE RecoveryStarts(t)
  <2>1. /\ recovery' = [pc |-> "enter", task |-> t] /\ disk[t].stage \notin {"none", "removed"}
        /\ HomeFree(HomeOf[t]) /\ (HostFree(t) \/ disk[t].stage = "tombstone")
        /\ UNCHANGED <<durable, create, engine, runner, restart, told, cuts>>
    BY <1>2 DEF RecoveryStarts, KeepWorld
  <2>2. runner[t] \in Over \ {"closing"}
    BY <1>1, <2>1 DEF HomeFree, HostFree, JournalOK, Closing, Over
  <2>3. Arrives(t, "enter")
    BY <2>1, <2>2 DEF Arrives, RecoveryPC, Ending, Ended
  <2> QED
    BY <1>1, <2>1, <2>3, RecoveryMoves
<1>3. CASE RecoveryReplays(t)
  <2>1. /\ recovery.pc = "idle" /\ disk[t].stage = "removed" /\ told' = told \cup {t}
        /\ UNCHANGED <<durable, create, engine, runner, recovery, restart, cuts>>
    BY <1>3 DEF RecoveryReplays
  <2>2. PICK u \in Task : u = recovery.task
    BY Typed
  <2>3. recovery' = [pc |-> "idle", task |-> u]
    BY <2>1, <2>2, Typed
  <2> QED
    BY <1>1, <2>1, <2>3, RecoveryMoves
<1>4. CASE RecoveryRefuses(t) \/ RecoveryCut(t)
  <2>1. /\ recovery' = [recovery EXCEPT !.pc = "idle"] /\ recovery.task = t
        /\ cuts' = cuts \/ (cuts < MaxCuts /\ cuts' = cuts + 1)
        /\ UNCHANGED <<durable, create, engine, runner, restart, told>>
    BY <1>4 DEF RecoveryRefuses, RecoveryCut, RecoveryTo, KeepWorld, RecoveryIn
  <2>2. recovery' = [pc |-> "idle", task |-> t]
    BY <2>1, Typed
  <2>3. cuts' \in 0..MaxCuts
    BY <1>1, <2>1, DockerConstants
  <2> QED
    BY <1>1, <2>1, <2>2, <2>3, RecoveryMoves
<1>5. CASE RecoveryTells(t)
  <2>1. /\ RecoveryIn(t, "tell") /\ recovery' = [pc |-> "idle", task |-> t]
        /\ told' = told \cup {t}
        /\ UNCHANGED <<durable, create, engine, runner, restart, cuts>>
    BY <1>5 DEF RecoveryTells, RecoveryTo, RecoveryIn
  <2>2. disk[t].stage = "removed"
    BY <2>1, RecoveryFacts
  <2> QED
    BY <1>1, <2>1, <2>2, RecoveryMoves
<1> QED
  BY <1>2, <1>3, <1>4, <1>5

LEMMA RecoveryEntersKeeps ==
  ASSUME DockerInv, NEW t \in Task, RecoveryEnters(t)
  PROVE  DockerInv'
<1>1. /\ RecoveryIn(t, "enter")
      /\ UNCHANGED <<durable, create, engine, runner, restart, told, cuts>>
  BY DEF RecoveryEnters, KeepWorld
<1>2. told \subseteq Task /\ cuts \in 0..MaxCuts /\ JournalOK(t) /\ disk[t] \in Disk
  BY Typed DEF DockerInv, DockerTypeOK
<1>3. runner[t] \in Over \ {"closing"} /\ disk[t].stage \notin {"none", "removed"}
  BY <1>1, RecoveryFacts
<1>4. PICK pc \in {"close", "inspect", "place"} :
        /\ recovery' = [recovery EXCEPT !.pc = pc]
        /\ pc = "close" => disk[t].stage \in {"manifest", "tombstone"}
        /\ pc = "place" => disk[t].stage \notin {"manifest", "tombstone", "open"}
  BY DEF RecoveryEnters, RecoveryTo
<1>5. recovery' = [pc |-> pc, task |-> t]
  BY <1>1, <1>4 DEF RecoveryIn
<1>6. disk[t].stage \in Stage
  BY <1>2 DEF Disk
<1>7. pc = "place" => disk[t].stage \in {"pending", "paired", "directory", "moved", "open"}
  BY <1>3, <1>4, <1>6, StageSet
<1>8. pc = "close" => Gone(t) /\ Clean(disk[t]) /\ pointer[HomeOf[t]] # t
  BY <1>2, <1>4 DEF JournalOK, Closing
<1>9. Arrives(t, pc)
  BY <1>3, <1>4, <1>7, <1>8 DEF Arrives, RecoveryPC, Ending, Ended
<1> QED
  BY <1>1, <1>2, <1>5, <1>9, RecoveryMoves

\* An obligation met by a recovery, or for a lost task, with its record where
\* it was.
LEMMA LostMeets ==
  ASSUME DockerInv, NEW t \in Task, NEW o \in Obligation, Meet(t, o), o # "placed",
         runner[t] \in Over, MayMeet(t, o, runner[t]), UNCHANGED <<create, runner>>
  PROVE  TaskStep(t) /\ disk'[t].stage = disk[t].stage
<1>1. runner[t] \in RunnerPC /\ runner' = [runner EXCEPT ![t] = runner[t]]
  BY Typed
<1>2. Frame(t) /\ Calm(t) /\ JournalOK(t)'
  BY <1>1, MeetStep DEF MayWalk
<1>3. /\ disk'[t].stage = disk[t].stage
      /\ disk'[t].root = IF o = "host_root" THEN FALSE ELSE disk[t].root
  BY MeetFields
<1>4. RunnerOK(t)'
  <2>1. RunnerOK(t)
    BY DEF DockerInv
  <2>2. Clean(disk[t]) => Clean(disk'[t])
    BY <1>2 DEF Calm
  <2>3. Gone(t)' <=> Gone(t)
    BY DEF Gone
  <2> QED
    BY <1>3, <2>1, <2>2, <2>3 DEF RunnerOK, Over, Running
<1> QED
  BY <1>2, <1>3, <1>4 DEF TaskStep

LEMMA LostMeetsKeeps ==
  ASSUME DockerInv, NEW t \in Task, NEW o \in Obligation, Meet(t, o), o # "placed",
         runner[t] \in Over, MayMeet(t, o, runner[t]),
         UNCHANGED <<create, runner, engine, recovery, restart, told, cuts>>
  PROVE  DockerInv'
BY LostMeets, Unnoticed DEF Still

LEMMA RecoveryInspectsKeeps ==
  ASSUME DockerInv, NEW t \in Task, RecoveryInspects(t)
  PROVE  DockerInv'
<1>1. /\ RecoveryIn(t, "inspect")
      /\ UNCHANGED <<create, engine, runner, restart, told, cuts>>
  BY DEF RecoveryInspects, KeepWorld
<1>2. told \subseteq Task /\ cuts \in 0..MaxCuts /\ JournalOK(t) /\ disk[t] \in Disk
  BY Typed DEF DockerInv, DockerTypeOK
<1>3. runner[t] \in Over \ {"closing"} /\ runner[t] \in Past
  BY <1>1, RecoveryFacts DEF Over, Past
<1>4. CASE /\ disk[t].marker = "completed" /\ Meet(t, "host_complete_receipt")
           /\ UNCHANGED recovery
  <2>1. Gone(t)
    BY <1>2, <1>4 DEF JournalOK
  <2>2. MayMeet(t, "host_complete_receipt", runner[t])
    BY <1>3, <2>1 DEF MayMeet
  <2>3. "host_complete_receipt" \in Obligation
    BY DEF Obligation, OperationRecord
  <2> QED
    BY <1>1, <1>3, <1>4, <2>2, <2>3, LostMeetsKeeps
<1>5. CASE Inspectable(t) /\ RecoveryTo(End(disk[t])) /\ UNCHANGED durable
  <2>1. PICK pc \in {"complete", "normal", "crash", "declare"} : pc = End(disk[t])
    BY DEF End
  <2>2. pc # "declare" => disk[t].file \cap Evidence # {}
    BY <2>1 DEF End, Evidence
  <2>3. pc # "declare" => Gone(t)
    BY <1>2, <2>2 DEF JournalOK
  <2>4. pc = "complete" => pointer[HomeOf[t]] = "none"
    BY <1>5, <2>1 DEF Inspectable
  <2>5. t # "none"
    BY Typed
  <2>6. Arrives(t, pc)
    BY <1>3, <2>3, <2>4, <2>5 DEF Arrives, RecoveryPC, Ending, Ended
  <2>7. recovery' = [pc |-> pc, task |-> t]
    BY <1>1, <1>5, <2>1 DEF RecoveryTo, RecoveryIn
  <2> QED
    BY <1>1, <1>2, <1>5, <2>6, <2>7, RecoveryMoves
<1> QED
  BY <1>4, <1>5 DEF RecoveryInspects

Declared == {"host_begin_intent", "host_begin_receipt", "unbind", "host_precleanup_intent"}

LEMMA DeclareDue ==
  ASSUME NEW t, NEW o, Due(t, DeclarePlan(t), o)
  PROVE  o \in Declared
<1> DEFINE plan == DeclarePlan(t)
<1>1. PICK a \in Seq(Declared), b \in Seq(Declared), c \in Seq(Declared), e \in Seq(Declared) :
        plan = a \o b \o c \o e
  <2> DEFINE b == IF disk[t].marker = "started" THEN <<"host_begin_receipt">> ELSE <<>>
             c == IF disk[t].active = "uncommitted" THEN <<"unbind">> ELSE <<>>
             e == IF Clean(disk[t]) /\ ~Submitted(disk[t]) THEN <<"host_precleanup_intent">> ELSE <<>>
  <2>1. plan = <<"host_begin_intent">> \o b \o c \o e
    BY DEF DeclarePlan
  <2>2. /\ <<"host_begin_intent">> \in Seq(Declared) /\ <<"host_begin_receipt">> \in Seq(Declared)
        /\ <<"unbind">> \in Seq(Declared) /\ <<"host_precleanup_intent">> \in Seq(Declared)
        /\ <<>> \in Seq(Declared)
    BY DEF Declared
  <2>3. b \in Seq(Declared) /\ c \in Seq(Declared) /\ e \in Seq(Declared)
    BY <2>2
  <2> HIDE DEF b, c, e
  <2> QED
    BY <2>1, <2>2, <2>3
<1>2. plan \in Seq(Declared)
  <2>1. (a \o b) \in Seq(Declared)
    OBVIOUS
  <2>2. ((a \o b) \o c) \in Seq(Declared)
    BY <2>1
  <2> QED
    BY <1>1, <2>2
<1> HIDE DEF plan
<1>3. PICK i \in 1..Len(plan) : plan[i] = o
  BY DEF Due, plan
<1> QED
  BY <1>2, <1>3

\* A task of which nothing was submitted has nothing with the engine.
LEMMA NothingSubmitted ==
  ASSUME DockerInv, NEW t \in Task, ~Submitted(disk[t])
  PROVE  Gone(t)
<1>1. SubmissionOK(t)
  BY DEF DockerInv, JournalOK
<1> QED
  BY <1>1 DEF SubmissionOK, Submitted, Gone

LEMMA RecoveryDeclaresKeeps ==
  ASSUME DockerInv, NEW t \in Task, RecoveryDeclares(t)
  PROVE  DockerInv'
<1>1. /\ RecoveryIn(t, "declare")
      /\ UNCHANGED <<create, engine, runner, restart, told, cuts>>
  BY DEF RecoveryDeclares, KeepWorld
<1>2. told \subseteq Task /\ cuts \in 0..MaxCuts
  BY DEF DockerInv, DockerTypeOK
<1>3. runner[t] \in Over \ {"closing"}
  BY <1>1, RecoveryFacts
<1>4. ASSUME NEW o, Due(t, DeclarePlan(t), o), Meet(t, o), UNCHANGED recovery
      PROVE  DockerInv'
  <2>1. o \in Declared
    BY <1>4, DeclareDue
  <2>2. MayMeet(t, o, runner[t]) /\ o \in Obligation /\ o # "placed"
    BY <2>1 DEF Declared, MayMeet, Evidence, Obligation, OperationRecord
  <2> QED
    BY <1>1, <1>3, <1>4, <2>2, LostMeetsKeeps
<1>5. CASE /\ Accepts(t) /\ UNCHANGED durable
           /\ RecoveryTo(IF Started(disk[t]) THEN "docker"
                         ELSE IF Clean(disk[t]) THEN "precleaned" ELSE "unstarted")
  <2>1. PICK pc \in {"docker", "precleaned", "unstarted"} :
          /\ RecoveryTo(pc)
          /\ pc # "docker" => ~Started(disk[t])
          /\ pc = "precleaned" => Clean(disk[t])
    BY <1>5
  <2>2. pc # "docker" => Gone(t)
    BY <1>5, <2>1, NothingSubmitted DEF Accepts
  <2>3. Arrives(t, pc)
    BY <1>3, <2>1, <2>2 DEF Arrives, RecoveryPC, Ending, Ended
  <2>4. recovery' = [pc |-> pc, task |-> t]
    BY <1>1, <2>1 DEF RecoveryTo, RecoveryIn
  <2> QED
    BY <1>1, <1>2, <1>5, <2>3, <2>4, RecoveryMoves
<1> QED
  BY <1>4, <1>5 DEF RecoveryDeclares

\* The submissions of a lost task are settled, and what exists is removed.
LEMMA SettleStep ==
  ASSUME DockerInv, NEW t \in Task, runner[t] \in Over,
         NEW s \in [Purpose -> Submission],
         disk' = [disk EXCEPT ![t] = [disk[t] EXCEPT !.submission = s]],
         create' \in CreateType, \A u \in Task \ {t} : create'[u] = create[u],
         \A p \in Purpose : create'[t][p] = create[t][p] \/ create'[t][p] = "none",
         \A p \in Purpose : s[p] # "none" => disk[t].submission[p] # "none",
         SubmissionOK(t)',
         UNCHANGED <<pointer, engine, runner, recovery, restart, told, cuts>>
  PROVE  DockerInv'
<1> DEFINE d == [disk[t] EXCEPT !.submission = s]
<1>1. /\ d \in Disk /\ d.stage = disk[t].stage /\ d.file = disk[t].file
      /\ d.restart = disk[t].restart /\ d.root = disk[t].root /\ d.marker = disk[t].marker
      /\ d.completed = disk[t].completed /\ d.submission = s
  BY RunnerFacts DEF Disk
<1>2. disk' = [disk EXCEPT ![t] = d]
  OBVIOUS
<1> HIDE DEF d
<1>3. disk'[t] = d /\ disk' \in [Task -> Disk] /\ \A u \in Task \ {t} : disk'[u] = disk[u]
  BY <1>1, <1>2, Typed
<1>4. Frame(t)
  BY <1>3, Typed DEF Frame, PointerStep, Over
<1>5. /\ Gone(t) => Gone(t)'
      /\ CutOff(t) => CutOff(t)'
      /\ Clean(d) <=> Clean(disk[t])
      /\ Submitted(d) => Submitted(disk[t])
  BY <1>1 DEF Gone, CutOff, Clean, Submitted
<1>6. Calm(t) /\ Still(t)
  BY <1>1, <1>3, <1>5 DEF Calm, Still
<1>7. JournalOK(t) /\ RunnerOK(t)
  BY DEF DockerInv
<1>8. JournalOK(t)'
  BY <1>1, <1>3, <1>5, <1>7 DEF JournalOK
<1>9. RunnerOK(t)'
  BY <1>1, <1>3, <1>5, <1>7 DEF RunnerOK, Over, Running
<1> QED
  BY <1>4, <1>6, <1>8, <1>9, Unnoticed DEF TaskStep

LEMMA RecoveryReconcilesKeeps ==
  ASSUME DockerInv, NEW t \in Task, NEW p \in Purpose, RecoveryReconciles(t, p)
  PROVE  DockerInv'
<1> DEFINE sub == disk[t].submission
<1>1. /\ sub \in [Purpose -> Submission] /\ SubmissionOK(t) /\ disk[t] \in Disk
      /\ disk[t] = [disk[t] EXCEPT !.submission = sub] /\ JournalOK(t)
  BY RunnerFacts DEF Disk, JournalOK
<1>2. create[t] \in [Purpose -> {"none", "client", "engine", "exists"}]
  BY Typed DEF CreateType
<1>3. /\ RecoveryIn(t, "docker") /\ UNCHANGED <<pointer, engine, runner, recovery, restart, told, cuts>>
  BY DEF RecoveryReconciles
<1>4. runner[t] \in Over
  BY <1>3, RecoveryFacts
<1>5. ASSUME NEW x \in {"received", "fenced"}, sub[p] = "submitted",
             disk' = [disk EXCEPT ![t].submission[p] = x], UNCHANGED create,
             x = "received" => create[t][p] = "exists",
             x = "fenced" => create[t][p] # "exists" /\ disk[t].restart = "settled"
      PROVE  DockerInv'
  <2> DEFINE s == [sub EXCEPT ![p] = x]
  <2>1. s \in [Purpose -> Submission] /\ s[p] = x /\ \A q \in Purpose \ {p} : s[q] = sub[q]
    BY <1>1 DEF Submission
  <2>2. disk' = [disk EXCEPT ![t] = [disk[t] EXCEPT !.submission = s]]
    BY <1>1, <1>5, Typed DEF Disk
  <2>3. disk'[t].submission = s
    BY <1>1, <2>2, Typed DEF Disk
  <2>4. x = "fenced" => create[t][p] = "none"
    BY <1>1, <1>5 DEF JournalOK, CutOff
  <2> HIDE DEF s, sub
  <2>5. SubmissionOK(t)'
    BY <1>1, <1>5, <2>1, <2>3, <2>4 DEF SubmissionOK, sub
  <2>6. \A q \in Purpose : s[q] # "none" => sub[q] # "none"
    BY <1>5, <2>1
  <2> QED
    BY <1>3, <1>4, <1>5, <2>1, <2>2, <2>5, <2>6, Typed, SettleStep DEF sub
<1>6. ASSUME sub[p] = "received", create' = [create EXCEPT ![t][p] = "none"], UNCHANGED disk
      PROVE  DockerInv'
  <2>1. /\ create' \in CreateType /\ \A u \in Task \ {t} : create'[u] = create[u]
        /\ create'[t][p] = "none" /\ \A q \in Purpose \ {p} : create'[t][q] = create[t][q]
    BY <1>2, <1>6, Typed DEF CreateType
  <2>2. disk' = [disk EXCEPT ![t] = [disk[t] EXCEPT !.submission = sub]]
    BY <1>1, <1>6, Typed
  <2>3. \A q \in Purpose : create'[t][q] = create[t][q] \/ create'[t][q] = "none"
    BY <2>1
  <2> HIDE DEF sub
  <2>4. SubmissionOK(t)'
    BY <1>1, <1>6, <2>1 DEF SubmissionOK, sub
  <2>5. \A q \in Purpose : sub[q] # "none" => disk[t].submission[q] # "none"
    BY DEF sub
  <2> QED
    BY <1>1, <1>3, <1>4, <2>1, <2>2, <2>3, <2>4, <2>5, SettleStep
<1> QED
  BY <1>5, <1>6 DEF RecoveryReconciles

LEMMA RecoveryFindsAbsentKeeps ==
  ASSUME DockerInv, NEW t \in Task, RecoveryFindsAbsent(t)
  PROVE  DockerInv'
<1>1. /\ RecoveryIn(t, "docker") /\ ~Unresolved(t)
      /\ disk' = [disk EXCEPT ![t] = After(disk[t], "docker_absence_crash")]
      /\ UNCHANGED <<pointer, create, engine, runner, restart, told, cuts>>
  BY Typed DEF RecoveryFindsAbsent, KeepWorld
<1>2. PICK pc \in {"cleaned", "confirm"} :
        RecoveryTo(pc) /\ (pc = "cleaned" => Clean(disk[t]))
  BY DEF RecoveryFindsAbsent
<1>3. runner[t] \in Over \ {"closing"} /\ recovery' = [pc |-> pc, task |-> t]
  BY <1>1, <1>2, RecoveryFacts DEF RecoveryTo, RecoveryIn
<1>4. Gone(t)
  <2>1. SubmissionOK(t) /\ create \in CreateType
    BY Typed DEF DockerInv, JournalOK
  <2> QED
    BY <1>1, <2>1 DEF SubmissionOK, Unresolved, Gone
<1>5. "docker_absence_crash" \in Obligation /\ Meet(t, "docker_absence_crash")
  BY <1>1 DEF Obligation, OperationRecord, Meet
<1>6. MayMeet(t, "docker_absence_crash", runner[t])
  BY <1>3, <1>4 DEF MayMeet, Over, Past
<1>7. TaskStep(t) /\ disk'[t].stage = disk[t].stage
  BY <1>1, <1>3, <1>5, <1>6, LostMeets
<1>8. Arrives(t, pc)
  BY <1>2, <1>3, <1>4 DEF Arrives, RecoveryPC, Ending, Ended
<1>9. Arrives(t, pc)'
  BY <1>1, <1>7, <1>8, ArrivesNext DEF TaskStep
<1>10. recovery' \in [pc : RecoveryPC, task : Task] /\ RecoveryOK'
  BY <1>3, <1>9, Arrived
<1> QED
  BY <1>1, <1>7, <1>10, TasksKept DEF DockerInv, DockerTypeOK

-----------------------------------------------------------------------------
(* The ends of a recovery.                                                 *)

LEMMA EndPlans ==
  ASSUME NEW t
  PROVE  /\ Fulfilled(t, FinalPlan) => Clean(disk[t])
         /\ Fulfilled(t, CrashPlan) => Clean(disk[t]) /\ pointer[HomeOf[t]] # t
         /\ Fulfilled(t, UnstartedPlan) => Clean(disk[t]) /\ pointer[HomeOf[t]] # t
         /\ Fulfilled(t, PrecleanedPlan) => pointer[HomeOf[t]] # t
         /\ Fulfilled(t, CleanedPlan) => pointer[HomeOf[t]] # t
<1>1. Met(t, "host_root") /\ Met(t, "host_marker") => Clean(disk[t])
  BY DEF Met, Clean
<1>2. Met(t, "unpoint") => pointer[HomeOf[t]] # t
  BY DEF Met
<1>3. Len(FinalPlan) = 4 /\ FinalPlan[2] = "host_root" /\ FinalPlan[3] = "host_marker"
  BY DEF FinalPlan
<1>4. Fulfilled(t, FinalPlan) => Clean(disk[t])
  BY <1>1, <1>3 DEF Fulfilled
<1>5. /\ Len(CrashPlan) = 7 /\ CrashPlan[3] = "unpoint" /\ CrashPlan[5] = "host_root"
      /\ CrashPlan[6] = "host_marker"
  BY DEF CrashPlan, FinalPlan
<1>6. Fulfilled(t, CrashPlan) => Clean(disk[t]) /\ pointer[HomeOf[t]] # t
  BY <1>1, <1>2, <1>5 DEF Fulfilled
<1>7. /\ Len(UnstartedPlan) = 6 /\ UnstartedPlan[2] = "unpoint" /\ UnstartedPlan[4] = "host_root"
      /\ UnstartedPlan[5] = "host_marker"
  BY DEF UnstartedPlan, FinalPlan
<1>8. Fulfilled(t, UnstartedPlan) => Clean(disk[t]) /\ pointer[HomeOf[t]] # t
  BY <1>1, <1>2, <1>7 DEF Fulfilled
<1>9. Len(PrecleanedPlan) = 5 /\ PrecleanedPlan[2] = "unpoint"
  BY DEF PrecleanedPlan
<1>10. Len(CleanedPlan) = 3 /\ CleanedPlan[2] = "unpoint"
  BY DEF CleanedPlan
<1>11. Fulfilled(t, PrecleanedPlan) => pointer[HomeOf[t]] # t
  BY <1>2, <1>9 DEF Fulfilled
<1>12. Fulfilled(t, CleanedPlan) => pointer[HomeOf[t]] # t
  BY <1>2, <1>10 DEF Fulfilled
<1> QED
  BY <1>4, <1>6, <1>8, <1>11, <1>12

\* What the plans of a recovery may hold.
EndObligation ==
  {"unbind", "unpoint", "lease_release", "normal_run_complete", "host_cleanup_intent",
   "host_root", "host_marker", "host_cleanup_receipt", "host_crash_absence_intent",
   "host_docker_absent", "host_crash_absence_receipt", "mount_crash_absence",
   "docker_absence_crash"}

LEMMA EndRanges ==
  ASSUME NEW plan \in {NormalPlan, FinalPlan, ConfirmAbsencePlan, CrashPlan, UnstartedPlan,
                       PrecleanedPlan, CleanedPlan}
  PROVE  Range(plan) \subseteq EndObligation
<1>1. FinalPlan \in Seq(EndObligation)
  BY DEF FinalPlan, EndObligation
<1>2. NormalPlan \in Seq(EndObligation) /\ ConfirmAbsencePlan \in Seq(EndObligation)
  BY DEF NormalPlan, ConfirmAbsencePlan, EndObligation
<1>3. PrecleanedPlan \in Seq(EndObligation) /\ CleanedPlan \in Seq(EndObligation)
  BY DEF PrecleanedPlan, CleanedPlan, EndObligation
<1>4. CrashPlan \in Seq(EndObligation)
  <2>1. <<"unbind", "mount_crash_absence", "unpoint">> \in Seq(EndObligation)
    BY DEF EndObligation
  <2> QED
    BY <1>1, <2>1 DEF CrashPlan
<1>5. UnstartedPlan \in Seq(EndObligation)
  <2>1. <<"unbind", "unpoint">> \in Seq(EndObligation)
    BY DEF EndObligation
  <2> QED
    BY <1>1, <2>1 DEF UnstartedPlan
<1>6. plan \in Seq(EndObligation)
  BY <1>1, <1>2, <1>3, <1>4, <1>5
<1> QED
  BY <1>6 DEF Range

\* One obligation of an end, of a task that has left nothing with the engine.
LEMMA EndMeets ==
  ASSUME DockerInv, NEW t \in Task, NEW pc \in Ending, RecoveryIn(t, pc),
         NEW o \in EndObligation, ~Met(t, o), Meet(t, o),
         o = "host_docker_absent" => disk[t].marker = "started",
         UNCHANGED <<recovery, create, engine, runner, restart, told, cuts>>
  PROVE  DockerInv'
<1>1. runner[t] \in Over /\ runner[t] \in Past \ {"cleanup", "confirm", "complete"} /\ Gone(t)
  BY RecoveryFacts DEF Over, Past, Ending, Ended
<1>2. MayMeet(t, o, runner[t])
  BY <1>1 DEF MayMeet, EndObligation, Met
<1>3. o \in Obligation /\ o # "placed"
  BY DEF EndObligation, Obligation, OperationRecord
<1> QED
  BY <1>1, <1>2, <1>3, LostMeetsKeeps

LEMMA EndFollowsKeeps ==
  ASSUME DockerInv, NEW t \in Task, NEW pc \in Ending, NEW to,
         NEW plan \in {NormalPlan, FinalPlan, ConfirmAbsencePlan, CrashPlan, UnstartedPlan,
                       PrecleanedPlan, CleanedPlan},
         RecoveryFollows(t, pc, plan, to),
         Fulfilled(t, plan) => Arrives(t, to)
  PROVE  DockerInv'
<1>1. RecoveryIn(t, pc) /\ UNCHANGED <<create, engine, runner, restart, told, cuts>>
  BY DEF RecoveryFollows, KeepWorld
<1>2. told \subseteq Task /\ cuts \in 0..MaxCuts
  BY DEF DockerInv, DockerTypeOK
<1>3. ASSUME NEW o \in Range(plan), Due(t, plan, o), Meet(t, o), UNCHANGED recovery,
             o = "host_docker_absent" => disk[t].marker = "started"
      PROVE  DockerInv'
  <2>1. o \in EndObligation
    BY EndRanges
  <2>2. ~Met(t, o)
    BY <1>3, DueUnmet
  <2> QED
    BY <1>1, <1>3, <2>1, <2>2, EndMeets
<1>4. ASSUME Fulfilled(t, plan), RecoveryTo(to), UNCHANGED durable
      PROVE  DockerInv'
  <2>1. recovery' = [pc |-> to, task |-> t]
    BY <1>1, <1>4 DEF RecoveryTo, RecoveryIn
  <2> QED
    BY <1>1, <1>2, <1>4, <2>1, RecoveryMoves
<1> QED
  BY <1>3, <1>4 DEF RecoveryFollows

\* The record of a lost task is brought to the directory it is read from.
LEMMA RecoveryPlacesKeeps ==
  ASSUME DockerInv, NEW t \in Task, RecoveryFollows(t, "place", <<"placed">>, "inspect")
  PROVE  DockerInv'
<1>1. RecoveryIn(t, "place") /\ UNCHANGED <<create, engine, runner, restart, told, cuts>>
  BY DEF RecoveryFollows, KeepWorld
<1>2. told \subseteq Task /\ cuts \in 0..MaxCuts /\ JournalOK(t) /\ disk[t] \in Disk
  BY Typed DEF DockerInv, DockerTypeOK
<1>3. /\ runner[t] \in Over \ {"closing"}
      /\ disk[t].stage \in {"pending", "paired", "directory", "moved", "open"}
  BY <1>1, RecoveryFacts
<1>4. ASSUME Due(t, <<"placed">>, "placed"), Meet(t, "placed"), UNCHANGED recovery
      PROVE  DockerInv'
  <2> DEFINE s == StageAfter(disk[t].stage)
  <2>1. disk[t].stage # "open"
    BY <1>4, DueUnmet DEF Met
  <2>2. s \in {"paired", "directory", "moved", "open"}
    BY <1>3, <2>1, StageSteps
  <2>3. "placed" \in Obligation
    BY DEF Obligation
  <2>4. disk'[t].stage = s
    BY <1>3, <1>4, <2>3, MeetFields
  <2>5. MayMeet(t, "placed", runner[t])
    BY <1>3, <2>1 DEF MayMeet, Evidence
  <2>6. runner[t] \in RunnerPC /\ runner' = [runner EXCEPT ![t] = runner[t]]
    BY <1>1, Typed
  <2>7. Frame(t) /\ Calm(t) /\ JournalOK(t)'
    BY <1>1, <1>4, <2>3, <2>5, <2>6, MeetStep DEF MayWalk
  <2>8. RunnerOK(t)'
    <3>1. RunnerOK(t) /\ disk'[t].root = disk[t].root
      BY <1>3, <1>4, <2>3, MeetFields DEF DockerInv
    <3>2. Clean(disk[t]) => Clean(disk'[t])
      BY <1>3, <2>7 DEF Calm
    <3>3. (Gone(t)' <=> Gone(t)) /\ runner' = runner
      BY <1>1 DEF Gone
    <3> QED
      BY <1>3, <3>1, <3>2, <3>3 DEF RunnerOK, Over, Running
  <2>9. RecoveryOK'
    <3>1. recovery'.pc = "place" /\ recovery'.task = t
      BY <1>1, <1>4 DEF RecoveryIn
    <3>2. runner'[t] \in Over \ {"closing"}
      BY <1>1, <1>3
    <3> QED
      BY <2>2, <2>4, <3>1, <3>2 DEF RecoveryOK, Ending, Ended
  <2> QED
    BY <1>1, <1>2, <1>4, <2>7, <2>8, <2>9, Typed, TasksKept DEF TaskStep, DockerInv
<1>5. ASSUME RecoveryTo("inspect"), UNCHANGED durable
      PROVE  DockerInv'
  <2>1. recovery' = [pc |-> "inspect", task |-> t]
    BY <1>1, <1>5 DEF RecoveryTo, RecoveryIn
  <2>2. Arrives(t, "inspect")
    BY <1>3 DEF Arrives, RecoveryPC, Ending, Ended
  <2> QED
    BY <1>1, <1>2, <1>5, <2>1, <2>2, RecoveryMoves
<1>6. Range(<<"placed">>) = {"placed"}
  BY DEF Range
<1> QED
  BY <1>4, <1>5, <1>6 DEF RecoveryFollows

LEMMA RecoveryWritesKeeps ==
  ASSUME DockerInv, NEW t \in Task, RecoveryWrites(t)
  PROVE  DockerInv'
<1>1. ASSUME NEW pc \in Ending, RecoveryIn(t, pc)
      PROVE  /\ runner[t] \in Over \ {"closing"} /\ Gone(t)
             /\ pc = "complete" => pointer[HomeOf[t]] # t
             /\ pc \in {"precleaned", "cleaned"} => Clean(disk[t])
  BY <1>1, RecoveryFacts DEF Ending, Ended
<1>2. CASE RecoveryFollows(t, "place", <<"placed">>, "inspect")
  BY <1>2, RecoveryPlacesKeeps
<1>3. CASE RecoveryFollows(t, "normal", NormalPlan, "inspect")
  <2>1. "normal" \in Ending /\ RecoveryIn(t, "normal")
    BY <1>3 DEF Ending, RecoveryFollows
  <2>2. Arrives(t, "inspect")
    BY <1>1, <2>1 DEF Arrives, RecoveryPC, Ending, Ended
  <2> QED
    BY <1>3, <2>1, <2>2, EndFollowsKeeps
<1>4. CASE RecoveryFollows(t, "complete", FinalPlan, "manifest")
  <2>1. "complete" \in Ending /\ RecoveryIn(t, "complete")
    BY <1>4 DEF Ending, RecoveryFollows
  <2>2. Fulfilled(t, FinalPlan) => Arrives(t, "manifest")
    BY <1>1, <2>1, EndPlans DEF Arrives, RecoveryPC
  <2> QED
    BY <1>4, <2>1, <2>2, EndFollowsKeeps
<1>5. CASE RecoveryFollows(t, "confirm", ConfirmAbsencePlan, "crash")
  <2>1. "confirm" \in Ending /\ RecoveryIn(t, "confirm")
    BY <1>5 DEF Ending, RecoveryFollows
  <2>2. Arrives(t, "crash")
    BY <1>1, <2>1 DEF Arrives, RecoveryPC, Ending, Ended
  <2> QED
    BY <1>5, <2>1, <2>2, EndFollowsKeeps
<1>6. CASE RecoveryFollows(t, "crash", CrashPlan, "manifest")
  <2>1. "crash" \in Ending /\ RecoveryIn(t, "crash")
    BY <1>6 DEF Ending, RecoveryFollows
  <2>2. Fulfilled(t, CrashPlan) => Arrives(t, "manifest")
    BY <1>1, <2>1, EndPlans DEF Arrives, RecoveryPC
  <2> QED
    BY <1>6, <2>1, <2>2, EndFollowsKeeps
<1>7. CASE RecoveryFollows(t, "unstarted", UnstartedPlan, "manifest")
  <2>1. "unstarted" \in Ending /\ RecoveryIn(t, "unstarted")
    BY <1>7 DEF Ending, RecoveryFollows
  <2>2. Fulfilled(t, UnstartedPlan) => Arrives(t, "manifest")
    BY <1>1, <2>1, EndPlans DEF Arrives, RecoveryPC
  <2> QED
    BY <1>7, <2>1, <2>2, EndFollowsKeeps
<1>8. CASE RecoveryFollows(t, "precleaned", PrecleanedPlan, "manifest")
  <2>1. "precleaned" \in Ending /\ RecoveryIn(t, "precleaned")
    BY <1>8 DEF Ending, RecoveryFollows
  <2>2. Fulfilled(t, PrecleanedPlan) => Arrives(t, "manifest")
    BY <1>1, <2>1, EndPlans DEF Arrives, RecoveryPC
  <2> QED
    BY <1>8, <2>1, <2>2, EndFollowsKeeps
<1>9. CASE RecoveryFollows(t, "cleaned", CleanedPlan, "manifest")
  <2>1. "cleaned" \in Ending /\ RecoveryIn(t, "cleaned")
    BY <1>9 DEF Ending, RecoveryFollows
  <2>2. Fulfilled(t, CleanedPlan) => Arrives(t, "manifest")
    BY <1>1, <2>1, EndPlans DEF Arrives, RecoveryPC
  <2> QED
    BY <1>9, <2>1, <2>2, EndFollowsKeeps
<1> QED
  BY <1>2, <1>3, <1>4, <1>5, <1>6, <1>7, <1>8, <1>9 DEF RecoveryWrites

\* The record of a task that is done with is closed, answered for and removed.
LEMMA RecoveryClosesKeeps ==
  ASSUME DockerInv, NEW t \in Task, RecoveryCloses(t) \/ RecoveryReceipts(t)
  PROVE  DockerInv'
<1> DEFINE d == disk[t]
<1>1. PICK from \in {"manifest", "close", "receipt"}, to \in {"receipt", "close", "tell"} :
        /\ RecoveryIn(t, from) /\ RecoveryTo(to)
        /\ \/ /\ from = "manifest" /\ to = "receipt" /\ d.stage = "open"
              /\ disk' = [disk EXCEPT ![t].stage = "manifest"]
           \/ /\ from = "close" /\ to = (IF d.stage = "tombstone" THEN "tell" ELSE "close")
              /\ disk' = [disk EXCEPT ![t].stage = StageAfter(d.stage)]
           \/ /\ from = "receipt" /\ to = "close"
              /\ disk' = [disk EXCEPT ![t].completed = TRUE]
        /\ UNCHANGED <<pointer, create, engine, runner, restart, told, cuts>>
  <2>1. StageAfter("open") = "manifest"
    BY StageSteps
  <2>2. CASE RecoveryIn(t, "manifest") /\ RecoveryCloses(t)
    BY <2>1, <2>2, Typed DEF RecoveryCloses, KeepWorld
  <2>3. CASE RecoveryIn(t, "close") /\ RecoveryCloses(t)
    <3>1. ~RecoveryIn(t, "manifest")
      BY <2>3 DEF RecoveryIn
    <3> QED
      BY <2>3, <3>1, Typed DEF RecoveryCloses, KeepWorld
  <2>4. CASE RecoveryReceipts(t)
    BY <2>4 DEF RecoveryReceipts, KeepWorld
  <2>5. RecoveryCloses(t) => RecoveryIn(t, "manifest") \/ RecoveryIn(t, "close")
    BY DEF RecoveryCloses
  <2> QED
    BY <2>2, <2>3, <2>4, <2>5
<1>2. /\ runner[t] \in Over \ {"closing"} /\ Gone(t) /\ Clean(d) /\ pointer[HomeOf[t]] # t
      /\ from = "receipt" => d.stage = "manifest"
      /\ from = "close" => d.stage \in {"manifest", "tombstone"}
  BY <1>1, RecoveryFacts DEF Ending, Ended
<1>3. d \in Disk /\ told \subseteq Task /\ cuts \in 0..MaxCuts /\ runner[t] \in RunnerPC
  BY Typed DEF DockerInv, DockerTypeOK
<1>4. PICK s \in {"manifest", "tombstone", "removed"}, c \in BOOLEAN :
        /\ disk' = [disk EXCEPT ![t] = [d EXCEPT !.stage = s, !.completed = c]]
        /\ to = "receipt" => s = "manifest"
        /\ to = "close" => s \in {"manifest", "tombstone"}
        /\ to = "tell" => s = "removed"
  <2>1. d.stage \in Stage /\ d.completed \in BOOLEAN
    BY <1>3 DEF Disk
  <2>2. CASE from = "manifest"
    <3>1. disk' = [disk EXCEPT ![t] = [d EXCEPT !.stage = "manifest", !.completed = d.completed]]
      BY <1>1, <1>3, <2>2, Typed DEF Disk
    <3> QED
      BY <1>1, <2>1, <2>2, <3>1
  <2>3. CASE from = "close"
    <3>1. StageAfter("manifest") = "tombstone" /\ StageAfter("tombstone") = "removed"
      BY StageSteps
    <3>2. PICK s \in {"tombstone", "removed"} :
            s = StageAfter(d.stage) /\ (s = "removed" <=> d.stage = "tombstone")
      BY <1>2, <2>3, <3>1
    <3>3. disk' = [disk EXCEPT ![t] = [d EXCEPT !.stage = s, !.completed = d.completed]]
      BY <1>1, <1>3, <2>3, <3>2, Typed DEF Disk
    <3> QED
      BY <1>1, <2>1, <2>3, <3>2, <3>3
  <2>4. CASE from = "receipt"
    <3>1. disk' = [disk EXCEPT ![t] = [d EXCEPT !.completed = TRUE]]
      BY <1>1, <2>4, Typed
    <3>2. d = [d EXCEPT !.stage = "manifest"]
      BY <1>2, <1>3, <2>4 DEF Disk
    <3>3. [d EXCEPT !.completed = TRUE] = [d EXCEPT !.stage = "manifest", !.completed = TRUE]
      BY <3>2, Zenon
    <3> QED
      BY <1>1, <2>4, <3>1, <3>3
  <2> QED
    BY <2>2, <2>3, <2>4
<1>5. s \in Stage /\ s \in Closing /\ d.stage # "removed"
  <2>1. d.stage # "removed"
    BY <1>1, <1>2
  <2> QED
    BY <2>1, StageSet DEF Closing
<1>6. runner' = [runner EXCEPT ![t] = runner[t]]
  BY <1>1, Typed
<1>7. TaskStep(t) /\ disk'[t].stage = s /\ (Gone(t)' <=> Gone(t)) /\ (Clean(disk'[t]) <=> Clean(d))
  <2>1. UNCHANGED <<pointer, create>>
    BY <1>1
  <2>2. disk' = [disk EXCEPT ![t] = [disk[t] EXCEPT !.stage = s, !.completed = c]]
    BY <1>4
  <2> QED
    BY <1>2, <1>3, <1>5, <1>6, <2>1, <2>2, RecordStep
<1>8. Arrives(t, to)'
  <2>1. runner'[t] = runner[t] /\ pointer' = pointer
    BY <1>1
  <2>2. to \in Ended /\ to \in Ending /\ to \in RecoveryPC
    BY DEF Ended, Ending, RecoveryPC
  <2> QED
    BY <1>2, <1>4, <1>7, <2>1, <2>2 DEF Arrives
<1>9. recovery' = [pc |-> to, task |-> t]
  BY <1>1 DEF RecoveryTo, RecoveryIn
<1>10. recovery' \in [pc : RecoveryPC, task : Task] /\ RecoveryOK'
  BY <1>8, <1>9, Arrived
<1> QED
  BY <1>1, <1>3, <1>7, <1>10, TasksKept

\* A person takes away the host of a task that has left nothing.
LEMMA HostRecoversKeeps ==
  ASSUME DockerInv, NEW t \in Task, HostRecovers(t)
  PROVE  DockerInv'
<1>1. /\ HostFree(t) /\ Removable(disk[t])
      /\ UNCHANGED <<create, engine, runner, recovery, restart, told, cuts>>
      /\ Meet(t, "host_root") \/ Meet(t, "host_marker")
  BY DEF HostRecovers, KeepWorld
<1>2. runner[t] \in Over /\ runner[t] \in Past \ {"cleanup", "confirm", "complete"}
  BY <1>1 DEF HostFree, Over, Past
<1>3. Gone(t)
  BY <1>1, NothingSubmitted DEF Removable, DockerInv, JournalOK
<1>4. /\ "host_root" \in Obligation /\ MayMeet(t, "host_root", runner[t])
      /\ "host_marker" \in Obligation /\ MayMeet(t, "host_marker", runner[t])
  BY <1>2, <1>3 DEF Obligation, OperationRecord, MayMeet, Evidence
<1> QED
  BY <1>1, <1>2, <1>4, LostMeetsKeeps

-----------------------------------------------------------------------------
(* The specification.                                                      *)

LEMMA DockerStarts == Init => DockerInv
<1> SUFFICES ASSUME Init PROVE DockerInv
  OBVIOUS
<1>1. NewDisk \in Disk
  <2>1. "none" \in RestartPhase
    <3>1. Len(RestartOrder) = 6 /\ RestartOrder[1] = "none"
      BY DEF RestartOrder
    <3> QED
      BY <3>1 DEF RestartPhase
  <2>2. "none" \in Stage
    BY StageSet
  <2> QED
    BY <2>1, <2>2 DEF NewDisk, Disk, Submission
<1>2. DockerTypeOK
  BY <1>1, DockerConstants DEF Init, DockerTypeOK, RunnerPC, RecoveryPC, RestartPC
<1>3. ASSUME NEW t \in Task PROVE JournalOK(t) /\ RunnerOK(t)
  <2>1. /\ disk[t] = NewDisk /\ runner[t] = "ready" /\ \A p \in Purpose : create[t][p] = "none"
    BY DEF Init
  <2>2. /\ disk[t].file = {} /\ ~disk[t].completed /\ disk[t].root /\ disk[t].marker = "initial"
        /\ disk[t].stage = "none" /\ disk[t].restart = "none"
        /\ \A p \in Purpose : disk[t].submission[p] = "none"
    BY <2>1 DEF NewDisk
  <2>3. JournalOK(t)
    BY <2>1, <2>2 DEF JournalOK, SubmissionOK, Gone, Submitted, Closing
  <2>4. RunnerOK(t)
    BY <2>1 DEF RunnerOK, Running, Cleaned
  <2> QED
    BY <2>3, <2>4
<1>4. RecoveryOK
  BY DEF Init, RecoveryOK, Ending, Ended
<1>5. RestartOK
  BY DEF Init, RestartOK
<1> QED
  BY <1>2, <1>3, <1>4, <1>5 DEF DockerInv, Init

LEMMA DockerSteps == DockerInv /\ [Next]_dockerVars => DockerInv'
<1> SUFFICES ASSUME DockerInv, [Next]_dockerVars PROVE DockerInv'
  OBVIOUS
<1>1. ASSUME NEW t \in Task, Runner(t) \/ RunnerGivesUp(t) \/ RunnerCrashes(t)
      PROVE  DockerInv'
  BY <1>1, RunnerWritesKeeps, RunnerWalksKeeps, RunnerClosesKeeps, RunnerRunsKeeps DEF Runner
<1>2. ASSUME NEW t \in Task,
             Recovery(t) \/ RecoveryRefuses(t) \/ RecoveryCut(t) \/ HostRecovers(t)
      PROVE  DockerInv'
  BY <1>2, RecoveryStartsKeeps, RecoveryEntersKeeps, RecoveryInspectsKeeps,
     RecoveryDeclaresKeeps, RecoveryFindsAbsentKeeps, RecoveryWritesKeeps,
     RecoveryClosesKeeps, RecoveryReconcilesKeeps, HostRecoversKeeps DEF Recovery
<1>3. ASSUME NEW t \in Task, NEW p \in Purpose, CreateMoves(t, p) \/ CreateFails(t, p)
      PROVE  DockerInv'
  BY <1>3, CreateKeeps
<1>4. ASSUME NEW t \in Task, RestartPrepares(t)
      PROVE  DockerInv'
  BY <1>4, RestartPreparesKeeps
<1>5. CASE EngineByHand \/ RestartRecords \/ RestartActs \/ RestartRefuses \/ RestartCut
  BY <1>5, EngineByHandKeeps, RestartRecordsKeeps, RestartActsKeeps, RestartEndsKeeps
<1>6. CASE UNCHANGED dockerVars
  <2>1. \A u \in Task : UNCHANGED <<disk, create, runner>>
    BY <1>6 DEF dockerVars
  <2> QED
    BY <1>6 DEF dockerVars, DockerInv, DockerTypeOK, JournalOK, SubmissionOK, RunnerOK,
       RecoveryOK, RestartOK, Gone, CutOff
<1> QED
  BY <1>1, <1>2, <1>3, <1>4, <1>5, <1>6 DEF Next

\* In every state a task's journal, host, pointer and requests agree with the
\* step its own process, a recovery or a restart is in.
THEOREM DockerHolds == Spec => []DockerInv
BY DockerStarts, DockerSteps, PTL DEF Spec

\* Every variable has its type.
THEOREM DockerTypeCorrect == Spec => []DockerTypeOK
<1>1. DockerInv => DockerTypeOK
  BY DEF DockerInv
<1> QED
  BY <1>1, DockerHolds, PTL

\* Evidence that the resources of a task are gone is on disk only when they are
\* gone and no request for one can still reach the engine.
THEOREM EvidenceIsTrue == Spec => []AbsenceIsReal
<1>1. DockerInv => AbsenceIsReal
  <2> SUFFICES ASSUME DockerInv, NEW t \in Task,
                      \/ disk[t].file \cap {"docker_absence", "docker_absence_crash"} # {}
                      \/ disk[t].completed
               PROVE  \A p \in Purpose : create[t][p] = "none"
    BY DEF AbsenceIsReal
  <2>1. JournalOK(t)
    BY DEF DockerInv
  <2> QED
    BY <2>1 DEF JournalOK, Evidence, Gone
<1> QED
  BY <1>1, DockerHolds, PTL

\* As long as a task may have a resource, its home names it and its host
\* directory is there.
THEOREM WhatExistsIsCovered == Spec => []ResourcesAreCovered
<1>1. DockerInv => ResourcesAreCovered
  BY DEF DockerInv, JournalOK, ResourcesAreCovered, Gone, Disk, DockerTypeOK
<1> QED
  BY <1>1, DockerHolds, PTL

\* A task reported recovered has left nothing behind.
THEOREM ToldIsTrue == Spec => []RecoveredIsTrue
<1>1. DockerInv => RecoveredIsTrue
  <2> SUFFICES ASSUME DockerInv, NEW t \in told
               PROVE  /\ Clean(disk[t]) /\ disk[t].stage = "removed" /\ pointer[HomeOf[t]] # t
                      /\ \A p \in Purpose : create[t][p] = "none"
    BY DEF RecoveredIsTrue
  <2>1. disk[t].stage = "removed" /\ JournalOK(t)
    BY DEF DockerInv, DockerTypeOK
  <2> QED
    BY <2>1 DEF JournalOK, Closing, Gone
<1> QED
  BY <1>1, DockerHolds, PTL

\* From the stopped record on no request made before a restart is under way.
THEOREM RestartHasCut == Spec => []StoppedMeansCut
<1>1. DockerInv => StoppedMeansCut
  BY DEF DockerInv, JournalOK, StoppedMeansCut, CutOff
<1> QED
  BY <1>1, DockerHolds, PTL
=============================================================================

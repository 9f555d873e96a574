------------------------- MODULE ProjectIntegration -------------------------
(***************************************************************************)
(* Integration of a project whose tasks are completed and, where a person  *)
(* has authorized it, the adoption of the result into the repository       *)
(* people work in (project-runtime-integration, the candidate integration  *)
(* adapter, the canonical-adoption lease).  Every process makes one call   *)
(* for one project; all of them work on the same tree.                     *)
(*                                                                         *)
(* One step is one durable write or one file operation on the tree.  The   *)
(* comparison of the tree with the base commit is one step.  Nobody        *)
(* commits to the repository in between.                                   *)
(*                                                                         *)
(* Taking the adoption lease and giving it back are one step each, whose   *)
(* files ProjectRuntimeLease takes apart.  The reconciliation before them  *)
(* is three: it reads whose lease there is, looks at that process and      *)
(* removes by name, holding the lock of the queue, which no acquisition    *)
(* and no release takes.  So it may remove the lease of somebody else;     *)
(* seized remembers that, and what is said of the tree is said until then. *)
(***************************************************************************)
EXTENDS Naturals, Sequences, FiniteSets

CONSTANTS
  Process,    \* processes, each of which makes one call
  Project,    \* projects of one repository binding, one queue entry each
  Path,       \* files of the repository
  Existing,   \* those the base commit has
  Bundle,     \* per project: the entries of its merged candidate, in order
  MaxFaults   \* bound: failed steps and lost processes

Operation == {"upsert", "delete"}

ASSUME IntegrationConstants ==
  /\ Existing \subseteq Path /\ MaxFaults \in Nat
  /\ \A x \in Project :
       /\ Bundle[x] \in Seq([path : Path, operation : Operation])
       /\ \A i \in DOMAIN Bundle[x] :
            Bundle[x][i].operation = "delete" => Bundle[x][i].path \in Existing
       /\ \A i, j \in DOMAIN Bundle[x] : Bundle[x][i].path = Bundle[x][j].path => i = j
  /\ {"none", "base", "absent"} \cap (Project \cup Process) = {}

VARIABLES
  tree,     \* the content of every file
  entry,    \* the queue entry of every project
  record,   \* the integration records written for every project
  lease,    \* the process whose adoption lease of a project is there, or "none"
  mutation, \* the process that holds the lock of the queue, or "none"
  seized,   \* a lease went in place of the lost one read before (drives no step)
  call,     \* the call of every process
  left,     \* what the call of a process has in the runtime area
  backup,   \* the files in the transaction directory of a process
  faults    \* faults so far

integrationVars ==
  <<tree, entry, record, lease, mutation, seized, call, left, backup, faults>>

-----------------------------------------------------------------------------
Content == {"base", "absent"} \cup Project
BaseContent(f) == IF f \in Existing THEN "base" ELSE "absent"

PC == {"ready", "candidate", "record", "ask", "reconcile", "look", "remove", "acquire",
       "observe", "adopt", "save", "write", "check", "clear", "rollback", "clean",
       "receipt", "release", "complete", "answered", "gone"}

\* What a call answers.  "settled" is a completed integration.
Answer == [settled : BOOLEAN, cleanup : BOOLEAN, issued : BOOLEAN, unknown : BOOLEAN]

Blocked(cleanup) ==
  [settled |-> FALSE, cleanup |-> cleanup, issued |-> FALSE, unknown |-> FALSE]
Settled == [settled |-> TRUE, cleanup |-> TRUE, issued |-> FALSE, unknown |-> FALSE]

\* An applied item remembers whether there was a file to put aside.  "at" is the
\* entry to apply, and in a rollback the item to take back; "owner" is the process
\* whose lease a reconciliation has read.
Call ==
  [pc         : PC,
   project    : Project,
   authorized : BOOLEAN,
   conflict   : BOOLEAN,
   owner      : Process \cup {"none"},
   generation : Nat,
   at         : Nat,
   applied    : Seq([path : Path, saved : BOOLEAN]),
   applies    : {"not", "done", "failed", "unrecovered"},
   answer     : Answer]

Entry ==
  [state      : {"integration_pending", "human_decision_required", "completed"},
   generation : Nat,
   reference  : {"none", "candidate", "receipt"}]

IntegrationTypeOK ==
  /\ tree \in [Path -> Content]
  /\ entry \in [Project -> Entry]
  /\ record \in [Project -> SUBSET {"integration", "adoption"}]
  /\ lease \in [Project -> Process \cup {"none"}]
  /\ mutation \in Process \cup {"none"} /\ seized \in BOOLEAN
  /\ call \in [Process -> Call]
  /\ left \in [Process -> SUBSET {"base", "transaction", "temporary"}]
  /\ backup \in [Process -> [Path -> Content \cup {"none"}]]
  /\ faults \in 0..MaxFaults

NewCall(x) ==
  [pc |-> "ready", project |-> x, authorized |-> FALSE, conflict |-> FALSE,
   owner |-> "none", generation |-> 0, at |-> 0, applied |-> <<>>, applies |-> "not",
   answer |-> Blocked(FALSE)]

Init ==
  /\ tree = [f \in Path |-> BaseContent(f)]
  /\ entry = [x \in Project |->
       [state |-> "integration_pending", generation |-> 1, reference |-> "none"]]
  /\ record = [x \in Project |-> {}]
  /\ lease = [x \in Project |-> "none"]
  /\ mutation = "none" /\ seized = FALSE
  /\ call \in [Process -> {NewCall(x) : x \in Project}]
  /\ left = [p \in Process |-> {}]
  /\ backup = [p \in Process |-> [f \in Path |-> "none"]]
  /\ faults = 0

-----------------------------------------------------------------------------
(* The call.                                                               *)

ProjectOf(p) == call[p].project
At(p, pc) == call[p].pc = pc
To(p, pc) == call' = [call EXCEPT ![p].pc = pc]
Answers(p, answer) == call' = [call EXCEPT ![p].pc = "answered", ![p].answer = answer]

Keep == UNCHANGED <<tree, entry, record, lease, mutation, seized, left, backup, faults>>

\* One more failed step, if the bound allows it.
Fault == faults < MaxFaults /\ faults' = faults + 1

\* A call that finds its entry elsewhere is refused before it does anything.
Begin(p) ==
  /\ At(p, "ready") /\ entry[ProjectOf(p)].state = "integration_pending"
  /\ \E authorized \in BOOLEAN :
       call' = [call EXCEPT ![p].pc = "candidate", ![p].authorized = authorized,
                            ![p].generation = entry[ProjectOf(p)].generation]
  /\ Keep

\* The merge of the task candidates is published, disagrees in a path or leaves
\* the allowed ones, or cannot be made.
CreateCandidate(p) ==
  /\ At(p, "candidate")
  /\ \/ \E conflict \in BOOLEAN :
          call' = [call EXCEPT ![p].pc = "record", ![p].conflict = conflict]
     \/ Answers(p, Blocked(FALSE))
  /\ Keep

\* Records are named by their content, so that a repeated write finds its own.
Record(p, kind) == record' = [record EXCEPT ![ProjectOf(p)] = @ \cup {kind}]

RecordCandidate(p) ==
  /\ At(p, "record")
  /\ \/ /\ Record(p, "integration")
        /\ To(p, IF call[p].conflict THEN "ask"
                 ELSE IF call[p].authorized THEN "reconcile" ELSE "complete")
        /\ UNCHANGED faults
     \/ /\ Fault /\ Answers(p, Blocked(FALSE))
        /\ Record(p, "integration") \/ UNCHANGED record
  /\ UNCHANGED <<tree, entry, lease, mutation, seized, left, backup>>

UpdateQueue(p, state, reference) ==
  /\ entry[ProjectOf(p)].generation = call[p].generation
  /\ entry' = [entry EXCEPT ![ProjectOf(p)] =
                [state |-> state, generation |-> @.generation + 1, reference |-> reference]]

\* The queue is written under its lock.  A write that fails, or whose process is
\* lost in it, has taken effect or not, and the lock may stay for ever.
WriteQueue(p, state, reference, answer) ==
  \/ /\ mutation = "none" /\ UpdateQueue(p, state, reference)
     /\ Answers(p, answer) /\ UNCHANGED <<mutation, faults>>
  \/ /\ mutation # "none" \/ entry[ProjectOf(p)].generation # call[p].generation
     /\ Answers(p, Blocked(FALSE)) /\ UNCHANGED <<entry, mutation, faults>>
  \/ /\ Fault /\ mutation = "none" /\ mutation' \in {"none", p}
     /\ UpdateQueue(p, state, reference) \/ UNCHANGED entry
     /\ Answers(p, Blocked(FALSE)) \/ To(p, "gone")

\* A conflict is for a person; the project state refuses the question, which
\* leaves the entry alone to say so (ProjectDecision).
AskPerson(p) ==
  /\ At(p, "ask")
  /\ WriteQueue(p, "human_decision_required", "candidate", Blocked(TRUE))
  /\ UNCHANGED <<tree, record, lease, seized, left, backup>>

Complete(p) ==
  /\ At(p, "complete")
  /\ WriteQueue(p, "completed", IF call[p].applies = "done" THEN "receipt" ELSE "candidate",
                Settled)
  /\ UNCHANGED <<tree, record, lease, seized, left, backup>>

-----------------------------------------------------------------------------
(* The adoption lease, one per project of the binding.                     *)

Lost(p) == At(p, "gone")

\* A reconciliation answers and gives the lock of the queue back.
Refuses(p, cleanup) == Answers(p, Blocked(cleanup)) /\ mutation' = "none"

\* One that fails, or is lost, may leave the lock.
Breaks(p) ==
  /\ Fault /\ mutation' \in {"none", p}
  /\ Answers(p, Blocked(FALSE)) \/ To(p, "gone")

Reads(p, owner) == call' = [call EXCEPT ![p].pc = "look", ![p].owner = owner]

\* Refused while the queue is locked.  Where there are no files of a lease there
\* is nothing to do; else the process they name is read.
ReconcileLease(p) ==
  LET x == ProjectOf(p) IN
  /\ At(p, "reconcile")
  /\ \/ mutation # "none" /\ Answers(p, Blocked(TRUE)) /\ UNCHANGED mutation
     \/ mutation = "none" /\ lease[x] = "none" /\ To(p, "acquire") /\ UNCHANGED mutation
     \/ /\ mutation = "none" /\ lease[x] # "none" /\ mutation' = p
        /\ Reads(p, lease[x])
  /\ UNCHANGED <<tree, entry, record, lease, seized, left, backup, faults>>

\* Mutant of LookAtOwner: the owner is not observed.
LookAway(p) ==
  /\ At(p, "look") /\ To(p, "remove") /\ UNCHANGED mutation
  /\ UNCHANGED <<tree, entry, record, lease, seized, left, backup, faults>>

\* A living owner keeps its lease, also one it could not release.  The files name
\* it twice and are read one after the other.
LookAtOwner(p) ==
  LET owner == call[p].owner IN
  /\ At(p, "look")
  /\ \/ Lost(owner) /\ To(p, "remove") /\ UNCHANGED <<mutation, faults>>
     \/ ~Lost(owner) /\ Refuses(p, TRUE) /\ UNCHANGED faults
     \/ lease[ProjectOf(p)] # owner /\ Refuses(p, FALSE) /\ UNCHANGED faults
     \/ Breaks(p)
  /\ UNCHANGED <<tree, entry, record, lease, seized, left, backup>>

\* What has the name of a lease goes, whoever owns it by now.
TakeAway(p) ==
  /\ lease' = [lease EXCEPT ![ProjectOf(p)] = "none"]
  /\ seized' = (seized \/ lease[ProjectOf(p)] \notin {"none", call[p].owner})

\* Files that are gone already are an error.
RemoveLease(p) ==
  /\ At(p, "remove")
  /\ \/ /\ lease[ProjectOf(p)] # "none" /\ TakeAway(p)
        /\ To(p, "acquire") /\ mutation' = "none" /\ UNCHANGED faults
     \/ /\ lease[ProjectOf(p)] = "none" /\ Refuses(p, FALSE)
        /\ UNCHANGED <<lease, seized, faults>>
     \/ Breaks(p) /\ (TakeAway(p) \/ UNCHANGED <<lease, seized>>)
  /\ UNCHANGED <<tree, entry, record, left, backup>>

\* An acquisition that fails may leave its files.
AcquireLease(p) ==
  LET x == ProjectOf(p)
      taken == [lease EXCEPT ![x] = p]
  IN
  /\ At(p, "acquire")
  /\ \/ lease[x] = "none" /\ lease' = taken /\ To(p, "observe") /\ UNCHANGED faults
     \/ lease[x] # "none" /\ Answers(p, Blocked(FALSE)) /\ UNCHANGED <<lease, faults>>
     \/ /\ lease[x] = "none" /\ Fault /\ lease' \in {lease, taken}
        /\ Answers(p, Blocked(FALSE))
  /\ UNCHANGED <<tree, entry, record, mutation, seized, left, backup>>

Fails(p, answer) == call' = [call EXCEPT ![p].pc = "release", ![p].answer = answer]

\* Every way out of an adoption passes here.  A release that is not confirmed
\* takes the receipt back, and so does one that finds its lease gone; it too
\* removes by name.
ReleaseLease(p) ==
  LET x == ProjectOf(p)
      free == [lease EXCEPT ![x] = "none"]
  IN
  /\ At(p, "release")
  /\ \/ /\ lease[x] = p /\ lease' = free /\ UNCHANGED faults
        /\ To(p, IF call[p].answer.settled THEN "complete" ELSE "answered")
     \/ /\ (lease[x] # p /\ UNCHANGED faults) \/ Fault
        /\ lease' \in {lease, free} /\ Answers(p, Blocked(FALSE))
  /\ UNCHANGED <<tree, entry, record, mutation, seized, left, backup>>

-----------------------------------------------------------------------------
(* The adoption.                                                           *)

Item(p) == Bundle[ProjectOf(p)][call[p].at]

\* The content of the candidate of x, and a tree that has all of it.
Wanted(x, item) == IF item.operation = "upsert" THEN x ELSE "absent"
Whole(x) == \A i \in DOMAIN Bundle[x] : tree[Bundle[x][i].path] = Wanted(x, Bundle[x][i])

MatchesBase(x) ==
  \A i \in DOMAIN Bundle[x] : tree[Bundle[x][i].path] = BaseContent(Bundle[x][i].path)

\* The base commit is laid out beside the tree and compared with it; when the
\* lay-out cannot be made or removed, that is what is answered.
ObserveRepository(p) ==
  /\ At(p, "observe")
  /\ \/ /\ IF MatchesBase(ProjectOf(p)) THEN To(p, "adopt") ELSE Fails(p, Blocked(TRUE))
        /\ UNCHANGED <<left, faults>>
     \/ /\ Fault
        /\ \/ Fails(p, Blocked(TRUE)) /\ UNCHANGED left
           \/ Fails(p, Blocked(FALSE)) /\ left' = [left EXCEPT ![p] = @ \cup {"base"}]
  /\ UNCHANGED <<tree, entry, record, lease, mutation, seized, backup>>

\* It is compared once more, then the transaction directory is made.
AdoptCandidate(p) ==
  /\ At(p, "adopt")
  /\ \/ /\ MatchesBase(ProjectOf(p))
        /\ call' = [call EXCEPT ![p].pc = IF Bundle[ProjectOf(p)] = <<>> THEN "clear" ELSE "save",
                                ![p].at = 1]
        /\ left' = [left EXCEPT ![p] = @ \cup {"base", "transaction"}]
        /\ UNCHANGED faults
     \/ /\ \/ ~MatchesBase(ProjectOf(p)) /\ UNCHANGED faults
           \/ Fault
        /\ To(p, "clean") /\ left' = [left EXCEPT ![p] = @ \cup {"base"}]
     \/ /\ Fault
        /\ \/ \E cleanup \in BOOLEAN : Fails(p, Blocked(cleanup)) /\ UNCHANGED left
           \/ Fails(p, Blocked(FALSE)) /\ left' = [left EXCEPT ![p] = @ \cup {"base"}]
  /\ UNCHANGED <<tree, entry, record, lease, mutation, seized, backup>>

KeepWorld == UNCHANGED <<entry, record, lease, mutation, seized>>
Advance(p) ==
  IF call[p].at = Len(Bundle[ProjectOf(p)])
  THEN [call[p] EXCEPT !.pc = "clear"]
  ELSE [call[p] EXCEPT !.pc = "save", !.at = @ + 1]

\* A step of the application that throws goes to the rollback of what it applied.
RollsBack(p) ==
  call' = [call EXCEPT ![p].pc = "rollback", ![p].at = Len(call[p].applied)]
Throws(p) == Fault /\ RollsBack(p) /\ UNCHANGED <<tree, backup>>

\* The file that is there is moved into the transaction directory.
SaveFile(p) ==
  LET f == Item(p).path
      item == [path |-> f, saved |-> tree[f] # "absent"]
      next == IF Item(p).operation = "upsert" THEN [call[p] EXCEPT !.pc = "write"]
                                              ELSE Advance(p)
  IN
  /\ At(p, "save") /\ UNCHANGED left /\ KeepWorld
  /\ \/ /\ backup' = IF item.saved THEN [backup EXCEPT ![p][f] = tree[f]] ELSE backup
        /\ tree' = [tree EXCEPT ![f] = "absent"]
        /\ call' = [call EXCEPT ![p] = [next EXCEPT !.applied = Append(@, item)]]
        /\ UNCHANGED faults
     \/ Throws(p)

\* A temporary file is written and renamed.
WriteFile(p) ==
  /\ At(p, "write") /\ KeepWorld
  /\ \/ /\ tree' = [tree EXCEPT ![Item(p).path] = ProjectOf(p)]
        /\ To(p, "check") /\ UNCHANGED <<left, backup, faults>>
     \/ Throws(p) /\ left' \in {left, [left EXCEPT ![p] = @ \cup {"temporary"}]}

\* What is there now is read back.
CheckFile(p) ==
  /\ At(p, "check") /\ UNCHANGED left /\ KeepWorld
  /\ \/ /\ tree[Item(p).path] = ProjectOf(p)
        /\ call' = [call EXCEPT ![p] = Advance(p)]
        /\ UNCHANGED <<tree, backup, faults>>
     \/ /\ tree[Item(p).path] # ProjectOf(p)
        /\ RollsBack(p) /\ UNCHANGED <<tree, backup, faults>>
     \/ Throws(p)

NoBackup == [f \in Path |-> "none"]

\* The transaction directory is removed; a removal that fails may have taken
\* some of the files with it, and is followed by the rollback.
ClearTransaction(p) ==
  /\ At(p, "clear") /\ UNCHANGED tree /\ KeepWorld
  /\ \/ /\ backup' = [backup EXCEPT ![p] = NoBackup]
        /\ left' = [left EXCEPT ![p] = @ \ {"transaction"}]
        /\ call' = [call EXCEPT ![p].pc = "clean", ![p].applies = "done"]
        /\ UNCHANGED faults
     \/ /\ Fault /\ RollsBack(p) /\ UNCHANGED left
        /\ \E F \in SUBSET Path :
             backup' = [backup EXCEPT ![p] = [f \in Path |-> IF f \in F THEN "none" ELSE @[f]]]

\* Mutant of RollBackItem: a missing backup is not noticed.
RollBackItemUnseen(p) ==
  LET last == call[p].applied[call[p].at] IN
  /\ At(p, "rollback") /\ call[p].at > 0 /\ UNCHANGED <<left, faults>> /\ KeepWorld
  /\ tree' = [tree EXCEPT ![last.path] = IF last.saved THEN backup[p][last.path] ELSE "absent"]
  /\ backup' = [backup EXCEPT ![p][last.path] = "none"]
  /\ call' = [call EXCEPT ![p].at = @ - 1]

\* The last item still applied is taken back: the file that is there is removed,
\* the one put aside is moved to its place.
RollBackItem(p) ==
  LET last == call[p].applied[call[p].at]
      f == last.path
      rest == [call[p] EXCEPT !.at = @ - 1]
      misses == [rest EXCEPT !.applies = "unrecovered"]
  IN
  /\ At(p, "rollback") /\ call[p].at > 0 /\ UNCHANGED left /\ KeepWorld
  /\ \/ /\ last.saved => backup[p][f] # "none"
        /\ tree' = [tree EXCEPT ![f] = IF last.saved THEN backup[p][f] ELSE "absent"]
        /\ backup' = [backup EXCEPT ![p][f] = "none"]
        /\ call' = [call EXCEPT ![p] = rest] /\ UNCHANGED faults
     \/ /\ last.saved /\ backup[p][f] = "none" /\ UNCHANGED <<backup, faults>>
        /\ tree' = [tree EXCEPT ![f] = "absent"]
        /\ call' = [call EXCEPT ![p] = misses]
     \/ /\ Fault /\ tree' \in {tree, [tree EXCEPT ![f] = "absent"]}
        /\ call' = [call EXCEPT ![p] = misses] /\ UNCHANGED backup

\* Mutant of EndRollback: the transaction goes whatever the rollback did.
EndRollbackAnyway(p) ==
  /\ At(p, "rollback") /\ call[p].at = 0 /\ UNCHANGED tree /\ KeepWorld
  /\ call' = [call EXCEPT ![p].pc = "clean",
                          ![p].applies = IF @ = "not" THEN "failed" ELSE @]
  /\ left' = [left EXCEPT ![p] = @ \ {"transaction"}]
  /\ backup' = [backup EXCEPT ![p] = NoBackup]
  /\ UNCHANGED faults

\* Only a rollback that put everything back removes the transaction directory.
EndRollback(p) ==
  /\ At(p, "rollback") /\ call[p].at = 0 /\ UNCHANGED tree /\ KeepWorld
  /\ \/ /\ call[p].applies = "not" /\ UNCHANGED faults
        /\ call' = [call EXCEPT ![p].pc = "clean", ![p].applies = "failed"]
        /\ left' = [left EXCEPT ![p] = @ \ {"transaction"}]
        /\ backup' = [backup EXCEPT ![p] = NoBackup]
     \/ /\ call[p].applies = "unrecovered" /\ UNCHANGED <<faults, left, backup>>
        /\ To(p, "clean")
     \/ /\ call[p].applies = "not" /\ Fault /\ UNCHANGED <<left, backup>>
        /\ call' = [call EXCEPT ![p].pc = "clean", ![p].applies = "unrecovered"]

\* Mutant of AdoptionAnswer: an application rolled back is answered as refused.
AdoptionAnswerForgets(p, removed) ==
  LET c == call[p] IN
  IF c.applies = "unrecovered"
  THEN [settled |-> FALSE, cleanup |-> FALSE, issued |-> c.applied # <<>>, unknown |-> TRUE]
  ELSE Blocked(c.applies # "done")

\* What the integration makes of the adapter's answer.  An application that was
\* rolled back is a missing receipt, and that is not taken for clean.
AdoptionAnswer(p, removed) ==
  LET c == call[p] IN
  IF c.applies = "unrecovered"
  THEN [settled |-> FALSE, cleanup |-> FALSE, issued |-> c.applied # <<>>, unknown |-> TRUE]
  ELSE IF c.applies # "not" /\ ~removed
  THEN [settled |-> FALSE, cleanup |-> FALSE, issued |-> c.applied # <<>> \/ c.applies = "done",
        unknown |-> FALSE]
  ELSE Blocked(FALSE)

\* The lay-out of the base is removed and the answer made.
CleanBase(p) ==
  /\ At(p, "clean")
  /\ \/ /\ left' = [left EXCEPT ![p] = @ \ {"base"}] /\ UNCHANGED faults
        /\ IF call[p].applies = "done" THEN To(p, "receipt")
                                       ELSE Fails(p, AdoptionAnswer(p, TRUE))
     \/ Fault /\ Fails(p, AdoptionAnswer(p, FALSE)) /\ UNCHANGED left
  /\ UNCHANGED <<tree, entry, record, lease, mutation, seized, backup>>

\* Mutant of RecordReceipt: a receipt that could not be written is passed on.
RecordReceiptAnyway(p) ==
  /\ At(p, "receipt") /\ Fails(p, Settled)
  /\ \/ Record(p, "adoption") /\ UNCHANGED faults
     \/ Fault /\ UNCHANGED record
  /\ UNCHANGED <<tree, entry, lease, mutation, seized, left, backup>>

RecordReceipt(p) ==
  /\ At(p, "receipt")
  /\ \/ Record(p, "adoption") /\ Fails(p, Settled) /\ UNCHANGED faults
     \/ /\ Fault /\ Fails(p, Blocked(FALSE))
        /\ Record(p, "adoption") \/ UNCHANGED record
  /\ UNCHANGED <<tree, entry, lease, mutation, seized, left, backup>>

-----------------------------------------------------------------------------
(* A process ends after its call, or is lost in the middle of it.          *)

Exit(p) == At(p, "answered") /\ To(p, "gone") /\ Keep

Crash(p) ==
  /\ call[p].pc \notin {"ready", "answered", "gone"}
  /\ Fault /\ To(p, "gone")
  /\ UNCHANGED <<tree, entry, record, lease, mutation, seized, left, backup>>

Next ==
  \E p \in Process :
    \/ Begin(p) \/ CreateCandidate(p) \/ RecordCandidate(p) \/ AskPerson(p) \/ Complete(p)
    \/ ReconcileLease(p) \/ LookAtOwner(p) \/ RemoveLease(p)
    \/ AcquireLease(p) \/ ReleaseLease(p)
    \/ ObserveRepository(p) \/ AdoptCandidate(p)
    \/ SaveFile(p) \/ WriteFile(p) \/ CheckFile(p) \/ ClearTransaction(p)
    \/ RollBackItem(p) \/ EndRollback(p) \/ CleanBase(p) \/ RecordReceipt(p)
    \/ Exit(p) \/ Crash(p)

Spec == Init /\ [][Next]_integrationVars

-----------------------------------------------------------------------------
(* Properties.                                                             *)

Adopting(p) == call[p].pc \in {"save", "write", "check", "clear", "rollback"}

\* A receipt stands for a tree that has the whole candidate, whatever failed or
\* was lost on the way and was tried again, as long as no lease has been seized;
\* an entry completed by a receipt always has one.
AdoptedIsWhole ==
  \A x \in Project :
    /\ ~seized /\ "adoption" \in record[x] => Whole(x)
    /\ entry[x].reference = "receipt" => "adoption" \in record[x]

\* An answer that confirms the cleanup and is no success has left nothing in the
\* runtime area and has not touched the tree.
RefusedLeavesNothing ==
  \A p \in Process : (At(p, "answered") /\ call[p].answer.cleanup /\ ~call[p].answer.settled)
    => left[p] = {} /\ call[p].applied = <<>> /\ call[p].applies = "not"

\* As long as no lease has been seized, a file of the base leaves the tree only
\* for a transaction directory, and that only back into the tree or when the
\* whole candidate is there.
NothingDisplacedIsLost ==
  [][~seized => \A f \in Existing :
       /\ tree[f] = "base" =>
            "base" \in {tree'[f]} \cup {backup'[p][f] : p \in Process}
       /\ \A p \in Process : backup[p][f] = "base" =>
            "base" \in {tree'[f], backup'[p][f]} \/ Whole(ProjectOf(p))]_integrationVars

\* Two calls for one project are at work in the tree together only after a lease
\* has been seized: a call that was lost and one that took its lease over never.
AdoptionsExcluded ==
  ~seized => \A p, q \in Process :
    Adopting(p) /\ Adopting(q) /\ ProjectOf(p) = ProjectOf(q) => p = q

\* docs: project-runtime/02_Detailed_Design.md:300, "Canonical repository adoption
\* is serialized".
AdoptionSerialized ==
  \A p, q \in Process : Adopting(p) /\ Adopting(q) => p = q

=============================================================================

------------------------- MODULE ProjectRuntimeLease -------------------------
(***************************************************************************)
(* The project operation lease of one repository binding, file by file.    *)
(* A process takes the lease by linking an acquisition marker, making the  *)
(* lock directory, writing an ownership marker and leaving evidence; it    *)
(* gives it back through a release marker.  None of these steps runs under *)
(* the queue mutation lock, which only orders the writers of queue entries *)
(* and the reconciliations of lost owners.  A step is one operation of the *)
(* file system that another process can see, so acquirers, releasers and   *)
(* reconcilers interleave as their processes do.                           *)
(*                                                                         *)
(* Processes are incarnations: a dead one never comes back, and its        *)
(* process id is not reused while its files remain.                        *)
(***************************************************************************)
EXTENDS Naturals, FiniteSets, Sequences

CONSTANTS
  Process,         \* incarnations of the coordinator on this machine
  Queue,           \* queue entries of the repository binding
  None,            \* an absent file, owner or process
  Torn,            \* a file created whose content was not written
  Mortal,          \* the incarnations that may end while the model runs
  CrashPoints,     \* the steps before which a process may be killed
  ThrowPoints,     \* the steps whose file system call may fail
  MaxGeneration,   \* bound: leases asked for
  MaxFaults        \* bound: crashes and failed calls

ASSUME ProcessesAndQueues ==
  /\ IsFiniteSet(Process) /\ Process # {} /\ Mortal \subseteq Process
  /\ IsFiniteSet(Queue) /\ Queue # {}
ASSUME Bounds == MaxGeneration \in Nat \ {0} /\ MaxFaults \in Nat

Generation == 1 .. MaxGeneration
Disposition == {"acquired", "released", "recovered"}
\* The content of acquire-pending, of acquire-lock-owned and of the
\* temporary file the first is linked from.
Marker == [generation : Generation, process : Process, queue : Queue]
ASSUME NoneAndTorn ==
  /\ None # Torn
  /\ {None, Torn} \cap (Process \cup Queue \cup Generation \cup Marker) = {}

VARIABLES
  lock,       \* the directory <identity>.lock exists
  release,    \* <identity>.release-unknown: None, Torn or a generation
  pending,    \* <identity>.acquire-pending: None or a marker
  owned,      \* <identity>.acquire-lock-owned: None, Torn or a marker
  prepared,   \* temporary file of each process: None, Torn or a marker
  evidence,   \* dispositions recorded for each generation
  entry,      \* queue entries: state and ownerGeneration
  mutation,   \* holder of queue-mutation.lock
  pc,         \* next step of each process
  job,        \* what the running call of each process works on
  issued,     \* the process that drew each generation, in order
  faults      \* crashes and failed calls so far

files == <<lock, release, pending, owned, prepared>>
records == <<evidence, entry, mutation>>
counters == <<issued, faults>>
vars == <<lock, release, pending, owned, prepared, evidence, entry, mutation,
          pc, job, issued, faults>>

AcquireSteps == {"look_release", "look_prepared", "look_pending", "look_owned",
                 "prepare", "write", "link", "drop", "unprepare",
                 "confirm", "mkdir", "own", "own_write", "record"}
HeldSteps == {"select", "claim", "claim_write", "give_work",
              "work", "finish_write", "give_mark"}
ReleaseSteps == {"mark", "mark_write", "rmdir", "record_release", "unmark",
                 "read_owned", "unown", "read_pending", "unpend",
                 "settle", "settle_write", "give_idle"}
\* A queue write under the queue mutation lock, and the lock given back after it.
WriteSteps == {"claim_write", "give_work", "finish_write", "give_mark",
               "settle_write", "give_idle"}
UndoSteps == {"undo_lock", "undo_evidence", "undo_owned", "undo_pending"}
ReconcileSteps == {"reconcile", "adopt", "check", "rec_mark", "rec_rmdir",
                   "rec_evidence", "find", "read", "read_evidence",
                   "read_ownership", "observe", "lost_mark",
                   "lost_rmdir", "lost_evidence", "clear"}
Steps == {"idle", "dead"} \cup AcquireSteps \cup HeldSteps \cup ReleaseSteps
           \cup UndoSteps \cup ReconcileSteps

EntryStates == {"queued", "leased", "replan_required", "cancelled",
                "recovery_required"}
Parts == {"lock", "release", "owned", "pending", "prepared", "entry"}

\* queue and generation of the call; what an acquisition knows it made; the
\* entry it read is still the latest generation; the release is followed by
\* the settlement of the entry; what a reconciliation found, which case it is
\* and what it has left to do.
NoJob == [queue |-> None, generation |-> None, mine |-> {}, fresh |-> FALSE,
          settles |-> FALSE, found |-> {}, outcome |-> None, todo |-> <<>>]

----------------------------------------------------------------------------
(* What a process finds in the lock directory                              *)

MarkerOf(p) ==
  [generation |-> job[p].generation, process |-> p, queue |-> job[p].queue]
Prepared == {r \in Process : prepared[r] # None}
FootprintAbsent ==
  ~lock /\ release = None /\ pending = None /\ owned = None /\ Prepared = {}
Absent(r) == pc[r] = "dead"
\* activeLeaseIsObserved
LeaseObserved == lock /\ release = None

\* inspectProjectRuntimeLeaseAcquisitionOwner: the marker it resolves, if any.
Candidates == ({pending} \cup {prepared[r] : r \in Prepared}) \ {None}
InspectionResolves(m) ==
  /\ Cardinality(Prepared) <= 1
  /\ Candidates = {m} /\ m # Torn
  /\ \/ entry[m.queue].owner = None /\ entry[m.queue].state = "queued"
     \/ entry[m.queue].owner = m.generation
InspectionPasses == FootprintAbsent \/ \E m \in Candidates : InspectionResolves(m)

Goto(p, step) == pc' = [pc EXCEPT ![p] = step]
\* The call returns: nothing of it is remembered.
Return(p) == Goto(p, "idle") /\ job' = [job EXCEPT ![p] = NoJob]
\* A new generation of an entry, written by p in its call: every other
\* process that read the last one is behind.
WriteEntry(p, q, value, call) ==
  /\ entry' = [entry EXCEPT ![q] = value]
  /\ job' = [r \in Process |->
               IF r = p THEN call
               ELSE [job[r] EXCEPT !.fresh = @ /\ job[r].queue # q]]

Init ==
  /\ lock = FALSE /\ release = None /\ pending = None /\ owned = None
  /\ prepared = [p \in Process |-> None]
  /\ evidence = [g \in Generation |-> {}]
  /\ entry = [q \in Queue |-> [state |-> "queued", owner |-> None,
                         recovered |-> FALSE]]
  /\ mutation = None
  /\ pc = [p \in Process |-> "idle"]
  /\ job = [p \in Process |-> NoJob]
  /\ issued = <<>> /\ faults = 0

----------------------------------------------------------------------------
(* acquireProjectRuntimeLease                                              *)

\* A call whose inspection passed selected entry q; its selection is advisory.
Start(p, q) ==
  /\ pc[p] = "idle" /\ InspectionPasses
  /\ \A r \in Queue : entry[r].owner = None
  /\ entry[q].state = "queued"
  /\ Len(issued) < MaxGeneration
  /\ Goto(p, "look_release")
  /\ job' = [job EXCEPT ![p].queue = q, ![p].fresh = TRUE]
  /\ UNCHANGED <<files, records, counters>>

\* The four looks before the marker: each alone sends the call back.
Look(p) ==
  LET next == [look_release  |-> "look_prepared", look_prepared |-> "look_pending",
               look_pending  |-> "look_owned",    look_owned    |-> "prepare"]
      clear == [look_release |-> release = None, look_prepared |-> Prepared = {},
                look_pending |-> pending = None, look_owned |-> owned = None]
  IN /\ pc[p] \in DOMAIN next
     /\ \/ clear[pc[p]] /\ Goto(p, next[pc[p]]) /\ UNCHANGED job
        \/ ~clear[pc[p]] /\ Return(p)
     /\ UNCHANGED <<files, records, counters>>

\* createLeaseAcquisitionMarker: the temporary file is opened ...
Prepare(p) ==
  /\ pc[p] = "prepare"
  /\ \/ /\ Len(issued) < MaxGeneration
        /\ issued' = Append(issued, p)
        /\ job' = [job EXCEPT ![p].generation = Len(issued) + 1]
        /\ prepared' = [prepared EXCEPT ![p] = Torn]
        /\ Goto(p, "write")
     \/ /\ Len(issued) = MaxGeneration   \* the bound: the call is not made
        /\ Return(p) /\ UNCHANGED <<issued, prepared>>
  /\ UNCHANGED <<lock, release, pending, owned, records, faults>>

\* ... written and read back ...
Write(p) ==
  /\ pc[p] = "write"
  /\ prepared' = [prepared EXCEPT ![p] = MarkerOf(p)]
  /\ Goto(p, "link")
  /\ UNCHANGED <<lock, release, pending, owned, records, job, counters>>

\* ... linked to the marker, where exactly one process succeeds ...
LinkOpened(p) ==   \* mutant: the marker itself is opened and written later
  /\ pc[p] = "link"
  /\ \/ pending = None /\ pending' = Torn /\ Goto(p, "unprepare")
     \/ pending # None /\ Goto(p, "drop") /\ UNCHANGED pending
  /\ UNCHANGED <<lock, release, owned, prepared, records, job, counters>>

Link(p) ==
  /\ pc[p] = "link"
  /\ \/ pending = None /\ pending' = MarkerOf(p) /\ Goto(p, "unprepare")
     \/ pending # None /\ Goto(p, "drop") /\ UNCHANGED pending
  /\ UNCHANGED <<lock, release, owned, prepared, records, job, counters>>

\* ... and removed, by a loser and by the winner, who reads the marker before
\* and after: one that is not its own ends the call where it is.
Drop(p) ==
  /\ pc[p] = "drop"
  /\ prepared' = [prepared EXCEPT ![p] = None]
  /\ Return(p)
  /\ UNCHANGED <<lock, release, pending, owned, records, counters>>

Unprepare(p) ==
  /\ pc[p] = "unprepare"
  /\ \/ /\ pending = MarkerOf(p) /\ Goto(p, "confirm") /\ UNCHANGED job
        /\ prepared' = [prepared EXCEPT ![p] = None]
     \/ pending # MarkerOf(p) /\ Return(p) /\ UNCHANGED prepared
  /\ UNCHANGED <<lock, release, pending, owned, records, counters>>

Confirm(p) ==
  /\ pc[p] = "confirm"
  /\ \/ /\ pending = MarkerOf(p) /\ Goto(p, "mkdir")
        /\ job' = [job EXCEPT ![p].mine = {"pending"}]
     \/ pending # MarkerOf(p) /\ Return(p)
  /\ UNCHANGED <<files, records, counters>>

MakeLock(p) ==
  /\ pc[p] = "mkdir"
  /\ \/ /\ ~lock /\ lock' = TRUE /\ Goto(p, "own")
        /\ job' = [job EXCEPT ![p].mine = @ \cup {"lock"}]
     \/ lock /\ Goto(p, "undo_lock") /\ UNCHANGED <<lock, job>>
  /\ UNCHANGED <<release, pending, owned, prepared, records, counters>>

\* createLeaseLockOwnershipMarker: opened exclusively, then written.
Own(p) ==
  /\ pc[p] = "own"
  /\ \/ owned = None /\ owned' = Torn /\ Goto(p, "own_write")
     \/ owned # None /\ Goto(p, "undo_lock") /\ UNCHANGED owned
  /\ UNCHANGED <<lock, release, pending, prepared, records, job, counters>>

OwnWrite(p) ==
  /\ pc[p] = "own_write"
  /\ \/ /\ owned = Torn /\ owned' = MarkerOf(p) /\ Goto(p, "record")
        /\ job' = [job EXCEPT ![p].mine = @ \cup {"owned"}]
     \/ owned # Torn /\ Goto(p, "undo_lock") /\ UNCHANGED <<owned, job>>
  /\ UNCHANGED <<lock, release, pending, prepared, records, counters>>

Record(p) ==
  /\ pc[p] = "record"
  /\ \/ /\ lock /\ Goto(p, "select")
        /\ evidence' = [evidence EXCEPT ![job[p].generation] = @ \cup {"acquired"}]
     \/ ~lock /\ Goto(p, "undo_lock") /\ UNCHANGED evidence
  /\ UNCHANGED <<files, entry, mutation, job, counters>>

\* The rollback of a failed acquisition stops at the first thing it cannot
\* confirm as gone, and leaves the rest to a recovery.
Undo(p) ==
  /\ \/ /\ pc[p] = "undo_lock"
        /\ lock' = (lock /\ "lock" \notin job[p].mine)
        /\ IF lock' THEN Return(p) ELSE Goto(p, "undo_evidence") /\ UNCHANGED job
        /\ UNCHANGED <<pending, owned, evidence>>
     \/ /\ pc[p] = "undo_evidence"
        /\ evidence' = [evidence EXCEPT ![job[p].generation] = {}]
        /\ Goto(p, "undo_owned")
        /\ UNCHANGED <<lock, pending, owned, job>>
     \/ /\ pc[p] = "undo_owned"
        /\ owned' = IF "owned" \in job[p].mine THEN None ELSE owned
        /\ IF owned' # None THEN Return(p)
                            ELSE Goto(p, "undo_pending") /\ UNCHANGED job
        /\ UNCHANGED <<lock, pending, evidence>>
     \/ /\ pc[p] = "undo_pending"
        /\ pending' = None
        /\ Return(p)
        /\ UNCHANGED <<lock, owned, evidence>>
  /\ UNCHANGED <<release, prepared, entry, mutation, counters>>

----------------------------------------------------------------------------
(* The lease held: the entry is claimed, worked on and finished            *)

\* The entry is selected once more now that the lease is held.
SelectAgain(p) ==
  LET unowned == \A q \in Queue : entry[q].owner = None
      waiting == {q \in Queue : entry[q].state = "queued"}
  IN
  /\ pc[p] = "select"
  /\ \/ unowned /\ job[p].queue \in waiting /\ Goto(p, "claim")
     \/ ~(unowned /\ waiting = {job[p].queue}) /\ Goto(p, "mark")
  /\ UNCHANGED <<files, records, job, counters>>

\* withMutationLock: the lock is taken for a claim, a verdict or a settlement;
\* one that is taken already refuses the write.
TakeQueue(p) ==
  LET next == [claim |-> "claim_write", work |-> "finish_write",
               settle |-> "settle_write"]
  IN
  /\ pc[p] \in DOMAIN next
  /\ \/ mutation = None /\ mutation' = p /\ Goto(p, next[pc[p]]) /\ UNCHANGED job
     \/ /\ mutation # None /\ UNCHANGED mutation
        /\ IF pc[p] = "settle" THEN Return(p) ELSE Goto(p, "mark") /\ UNCHANGED job
  /\ UNCHANGED <<files, evidence, entry, counters>>

\* The lock is given back, whatever became of the write.
GiveQueue(p) ==
  LET next == [give_work |-> "work", give_mark |-> "mark", give_idle |-> "idle"] IN
  /\ pc[p] \in DOMAIN next
  /\ mutation' = None
  /\ IF pc[p] = "give_idle" THEN Return(p) ELSE Goto(p, next[pc[p]]) /\ UNCHANGED job
  /\ UNCHANGED <<files, evidence, entry, counters>>

\* updateProjectOperationQueueState to leased
ClaimAllowed(p) ==
  /\ LeaseObserved
  /\ job[p].fresh
  /\ entry[job[p].queue].state = "queued" /\ entry[job[p].queue].owner = None
Claimed(p) == [state |-> "leased", owner |-> job[p].generation, recovered |-> FALSE]
Claim(p) ==
  /\ pc[p] = "claim_write"
  /\ \/ /\ ClaimAllowed(p)
        /\ WriteEntry(p, job[p].queue, Claimed(p), job[p])
        /\ Goto(p, "give_work")
     \/ ~ClaimAllowed(p) /\ Goto(p, "give_mark") /\ UNCHANGED <<entry, job>>
  /\ UNCHANGED <<files, evidence, mutation, counters>>

\* The last update of the entry by its owner: a verdict, kept with the owner
\* until the release is settled.
FinishAllowed(p) ==
  /\ LeaseObserved
  /\ job[p].fresh
  /\ entry[job[p].queue].owner = job[p].generation
Verdict(p, v) == [entry[job[p].queue] EXCEPT !.state = v]
FinishAndClear(p) ==   \* mutant: the verdict clears the owner before the release
  /\ pc[p] = "finish_write"
  /\ \/ /\ FinishAllowed(p)
        /\ \E v \in {"replan_required", "cancelled"} :
             WriteEntry(p, job[p].queue, [Verdict(p, v) EXCEPT !.owner = None], job[p])
     \/ ~FinishAllowed(p) /\ UNCHANGED <<entry, job>>
  /\ Goto(p, "give_mark")
  /\ UNCHANGED <<files, evidence, mutation, counters>>

Finish(p) ==
  /\ pc[p] = "finish_write"
  /\ \/ /\ FinishAllowed(p)
        /\ \E v \in {"replan_required", "cancelled"} :
             WriteEntry(p, job[p].queue, Verdict(p, v),
                        [job[p] EXCEPT !.settles = TRUE])
     \/ ~FinishAllowed(p) /\ UNCHANGED <<entry, job>>
  /\ Goto(p, "give_mark")
  /\ UNCHANGED <<files, evidence, mutation, counters>>

----------------------------------------------------------------------------
(* release                                                                 *)

\* The intent of the release is opened exclusively ...
Mark(p) ==
  /\ pc[p] = "mark"
  /\ \/ release = None /\ release' = Torn /\ Goto(p, "mark_write") /\ UNCHANGED job
     \/ release # None /\ Return(p) /\ UNCHANGED release
  /\ UNCHANGED <<lock, pending, owned, prepared, records, counters>>

MarkWrite(p) ==
  /\ pc[p] = "mark_write"
  /\ \/ release = Torn /\ release' = job[p].generation /\ Goto(p, "rmdir") /\ UNCHANGED job
     \/ release # Torn /\ Return(p) /\ UNCHANGED release
  /\ UNCHANGED <<lock, pending, owned, prepared, records, counters>>

\* ... the lock goes, and the release is recorded.
RemoveLock(p) ==
  /\ pc[p] = "rmdir"
  /\ \/ lock /\ lock' = FALSE /\ Goto(p, "record_release") /\ UNCHANGED job
     \/ ~lock /\ Return(p) /\ UNCHANGED lock
  /\ UNCHANGED <<release, pending, owned, prepared, records, counters>>

RecordRelease(p) ==
  /\ pc[p] = "record_release"
  /\ evidence' = [evidence EXCEPT ![job[p].generation] = @ \cup {"released"}]
  /\ Goto(p, "unmark")
  /\ UNCHANGED <<files, entry, mutation, job, counters>>

Unmark(p) ==
  /\ pc[p] = "unmark"
  /\ \/ release # None /\ release' = None /\ Goto(p, "read_owned") /\ UNCHANGED job
     \/ release = None /\ Return(p) /\ UNCHANGED release
  /\ UNCHANGED <<lock, pending, owned, prepared, records, counters>>

\* The two markers are read, compared with the lease and removed: the removal
\* names the file, not what was read of it.
ReadOwned(p) ==
  /\ pc[p] = "read_owned"
  /\ \/ owned = None /\ Goto(p, "read_pending") /\ UNCHANGED job
     \/ owned = MarkerOf(p) /\ Goto(p, "unown") /\ UNCHANGED job
     \/ owned \notin {None, MarkerOf(p)} /\ Return(p)
  /\ UNCHANGED <<files, records, counters>>

Unown(p) ==
  /\ pc[p] = "unown"
  /\ \/ owned # None /\ owned' = None /\ Goto(p, "read_pending") /\ UNCHANGED job
     \/ owned = None /\ Return(p) /\ UNCHANGED owned
  /\ UNCHANGED <<lock, release, pending, prepared, records, counters>>

Released(p) ==
  IF job[p].settles THEN Goto(p, "settle") /\ UNCHANGED job ELSE Return(p)
ReadPending(p) ==
  /\ pc[p] = "read_pending"
  /\ \/ pending = None /\ Released(p)
     \/ pending = MarkerOf(p) /\ Goto(p, "unpend") /\ UNCHANGED job
     \/ pending \notin {None, MarkerOf(p)} /\ Return(p)
  /\ UNCHANGED <<files, records, counters>>

Unpend(p) ==
  /\ pc[p] = "unpend"
  /\ \/ pending # None /\ pending' = None /\ Released(p)
     \/ pending = None /\ Return(p) /\ UNCHANGED pending
  /\ UNCHANGED <<lock, release, owned, prepared, records, counters>>

\* settleProjectOperationQueueLeaseRelease clears the owner of the entry.
SettleAllowed(p) ==
  /\ entry[job[p].queue].owner = job[p].generation
  /\ entry[job[p].queue].state # "leased"
  /\ job[p].fresh
  /\ ~lock /\ release = None /\ pending = None /\ owned = None
  /\ evidence[job[p].generation] = {"acquired", "released"}
Unowned(p) == [entry[job[p].queue] EXCEPT !.owner = None]
Settle(p) ==
  /\ pc[p] = "settle_write"
  /\ \/ SettleAllowed(p) /\ WriteEntry(p, job[p].queue, Unowned(p), job[p])
     \/ ~SettleAllowed(p) /\ UNCHANGED <<entry, job>>
  /\ Goto(p, "give_idle")
  /\ UNCHANGED <<files, evidence, mutation, counters>>

----------------------------------------------------------------------------
(* reconcileProjectRuntimeLeaseOwnerLoss, under the queue mutation lock    *)

\* A call inspects the acquisition, and turns to the entry it names or to
\* its own entry when that one still has an owner.
InspectMarked(p, q) ==   \* mutant: an entry without files is passed over
  /\ pc[p] = "idle"
  /\ \E m \in Candidates : InspectionResolves(m) /\ m.queue = q
  /\ Goto(p, "reconcile")
  /\ job' = [job EXCEPT ![p].queue = q]
  /\ UNCHANGED <<files, records, counters>>

Inspect(p, q) ==
  /\ pc[p] = "idle"
  /\ \/ \E m \in Candidates : InspectionResolves(m) /\ m.queue = q
     \/ FootprintAbsent /\ entry[q].owner # None
  /\ Goto(p, "reconcile")
  /\ job' = [job EXCEPT ![p].queue = q]
  /\ UNCHANGED <<files, records, counters>>

\* The call gives up: the mutation lock is let go, what it did stays done.
GiveUp(p) == mutation' = None /\ Return(p)

NothingToRecover(q) ==
  /\ entry[q].owner = None
  /\ \/ entry[q].state # "queued"
     \/ FootprintAbsent
     \/ pending = None /\ Prepared = {}
Reconcile(p) ==
  LET q == job[p].queue
      marked == IF pending = None THEN {} ELSE {"pending"}
  IN
  /\ pc[p] = "reconcile"
  /\ \/ (mutation # None \/ NothingToRecover(q)) /\ Return(p) /\ UNCHANGED mutation
     \/ /\ mutation = None /\ ~NothingToRecover(q)
        /\ mutation' = p
        /\ IF entry[q].owner = None
             THEN Goto(p, "adopt") /\ UNCHANGED job
             ELSE /\ Goto(p, "find")
                  /\ job' = [job EXCEPT ![p].found = marked,
                                        ![p].generation = entry[q].owner,
                                        ![p].todo = <<"lock", "owned", "release">>]
  /\ UNCHANGED <<files, evidence, entry, counters>>

\* reconcileUnboundLeaseAcquisition: a marker that was only prepared by a
\* process that is gone is published first.
AdoptionAllowed(p) ==
  /\ Cardinality(Prepared) <= 1
  /\ \A r \in Prepared :
       /\ prepared[r] # Torn
       /\ prepared[r].queue = job[p].queue
       /\ pending = prepared[r] \/ (pending = None /\ Absent(r))
Adopt(p) ==
  /\ pc[p] = "adopt"
  /\ \/ /\ AdoptionAllowed(p)
        /\ \/ Prepared = {} /\ UNCHANGED pending
           \/ \E r \in Prepared : pending' = prepared[r]
        /\ job' = [job EXCEPT ![p].found = IF Prepared = {} THEN {} ELSE {"prepared"}]
        /\ Goto(p, "check")
        /\ UNCHANGED mutation
     \/ ~AdoptionAllowed(p) /\ GiveUp(p) /\ UNCHANGED pending
  /\ UNCHANGED <<lock, release, owned, prepared, evidence, entry, counters>>

\* The marker, the ownership of the lock and the absence of the process.
UnboundIsLost(p) ==
  /\ pending # None
  /\ pending.queue = job[p].queue
  /\ IF owned = None THEN ~lock ELSE owned = pending
  /\ Absent(pending.process)
CheckUnbound(p) ==
  /\ pc[p] = "check"
  /\ \/ /\ UnboundIsLost(p)
        /\ job' = [job EXCEPT ![p].generation = pending.generation]
        /\ Goto(p, "rec_mark")
        /\ UNCHANGED mutation
     \/ ~UnboundIsLost(p) /\ GiveUp(p)
  /\ UNCHANGED <<files, evidence, entry, counters>>

MarkUnbound(p) ==
  /\ pc[p] = "rec_mark"
  /\ \/ /\ release \in {None, job[p].generation}
        /\ release' = job[p].generation
        /\ Goto(p, "rec_rmdir") /\ UNCHANGED <<job, mutation>>
     \/ release \notin {None, job[p].generation} /\ GiveUp(p) /\ UNCHANGED release
  /\ UNCHANGED <<lock, pending, owned, prepared, evidence, entry, counters>>

RemoveLockUnbound(p) ==
  /\ pc[p] = "rec_rmdir"
  /\ lock' = FALSE
  /\ Goto(p, "rec_evidence")
  /\ UNCHANGED <<release, pending, owned, prepared, records, job, counters>>

\* Evidence of the acquisition, when there is any, is closed as recovered.
RecordUnbound(p) ==
  LET known == evidence[job[p].generation]
      closed == known \ {"acquired"}
      sound == IF "acquired" \in known THEN Cardinality(closed) <= 1 ELSE closed = {}
  IN
  /\ pc[p] = "rec_evidence"
  /\ \/ /\ sound
        /\ evidence' = IF known = {"acquired"}
             THEN [evidence EXCEPT ![job[p].generation] = @ \cup {"recovered"}]
             ELSE evidence
        /\ job' = [job EXCEPT
             ![p].outcome = "unbound",
             ![p].found = @ \cup {"release", "pending"},
             ![p].todo = <<"release", "owned", "prepared", "entry", "pending">>]
        /\ Goto(p, "clear")
        /\ UNCHANGED mutation
     \/ ~sound /\ GiveUp(p) /\ UNCHANGED evidence
  /\ UNCHANGED <<files, entry, counters>>

\* An entry that has an owner: its files are looked for, one after the other ...
Find(p) ==
  LET part == Head(job[p].todo)
      seen == CASE part = "lock"    -> lock
                [] part = "owned"   -> owned # None
                [] part = "release" -> release # None
      last == Tail(job[p].todo) = <<>>
      unowned == part = "owned" /\ ~seen /\ "lock" \in job[p].found
  IN
  /\ pc[p] = "find"
  /\ \/ /\ ~unowned
        /\ job' = [job EXCEPT ![p].found = IF seen THEN @ \cup {part} ELSE @,
                              ![p].todo = Tail(@)]
        /\ IF last THEN Goto(p, "read") ELSE UNCHANGED pc
        /\ UNCHANGED mutation
     \/ unowned /\ GiveUp(p)
  /\ UNCHANGED <<files, evidence, entry, counters>>

\* ... and those found must be that owner's: the first marker and the intent
\* of a release,
OwnersMarker(p, m) ==
  m \notin {None, Torn} /\ m.queue = job[p].queue /\ m.generation = job[p].generation
OwnersRelease(p) ==
  /\ "pending" \in job[p].found => OwnersMarker(p, pending)
  /\ "release" \in job[p].found => release = job[p].generation
ReadRelease(p) ==
  /\ pc[p] = "read"
  /\ \/ OwnersRelease(p) /\ Goto(p, "read_evidence") /\ UNCHANGED <<job, mutation>>
     \/ ~OwnersRelease(p) /\ GiveUp(p)
  /\ UNCHANGED <<files, evidence, entry, counters>>

\* the evidence, which tells the three cases apart,
Cases ==
  [acquired  |-> [outcome |-> "observe",  todo |-> <<>>],
   released  |-> [outcome |-> "released", todo |-> <<"release", "owned", "pending", "entry">>],
   recovered |-> [outcome |-> "lost",     todo |-> <<"pending", "owned", "entry">>]]
ReadEvidence(p) ==
  LET known == evidence[job[p].generation]
      exact == "acquired" \in known /\ known # Disposition
  IN
  /\ pc[p] = "read_evidence"
  /\ \/ /\ exact
        /\ \E c \in Disposition :
             /\ known = {"acquired", c}
             /\ job' = [job EXCEPT ![p].outcome = Cases[c].outcome,
                                   ![p].todo = Cases[c].todo]
        /\ Goto(p, "read_ownership") /\ UNCHANGED mutation
     \/ ~exact /\ GiveUp(p)
  /\ UNCHANGED <<files, evidence, entry, counters>>

\* and the second marker.  A closed lease may have left no lock.
OwnersOwnership(p) ==
  LET found == job[p].found IN
  /\ "owned" \in found => OwnersMarker(p, owned)
  /\ "pending" \in found => OwnersMarker(p, pending)
  /\ job[p].outcome = "released" => "lock" \notin found
  /\ job[p].outcome = "lost" => found \cap {"lock", "release"} = {}
ReadOwnership(p) ==
  /\ pc[p] = "read_ownership"
  /\ \/ /\ OwnersOwnership(p)
        /\ Goto(p, IF job[p].outcome = "observe" THEN "observe" ELSE "clear")
        /\ UNCHANGED <<job, mutation>>
     \/ ~OwnersOwnership(p) /\ GiveUp(p)
  /\ UNCHANGED <<files, evidence, entry, counters>>

\* The process of the recorded owner is looked for; the files are not read again.
OwnerIsAssumedLost(p) ==   \* mutant: the process is not looked for
  job[p].found \cap {"lock", "release"} # {}

OwnerIsLostWithLock(p) ==   \* mutant: a release begun is not taken further
  Absent(issued[job[p].generation]) /\ "lock" \in job[p].found

OwnerIsLost(p) ==
  /\ Absent(issued[job[p].generation])
  /\ job[p].found \cap {"lock", "release"} # {}
ObserveOwner(p) ==
  /\ pc[p] = "observe"
  /\ \/ OwnerIsLost(p) /\ Goto(p, "lost_mark") /\ UNCHANGED <<mutation, job>>
     \/ ~OwnerIsLost(p) /\ GiveUp(p)
  /\ UNCHANGED <<files, evidence, entry, counters>>

MarkLost(p) ==
  LET marked == "release" \in job[p].found IN
  /\ pc[p] = "lost_mark"
  /\ \/ /\ marked \/ release = None
        /\ release' = IF marked THEN release ELSE job[p].generation
        /\ Goto(p, "lost_rmdir") /\ UNCHANGED <<job, mutation>>
     \/ ~marked /\ release # None /\ GiveUp(p) /\ UNCHANGED release
  /\ UNCHANGED <<lock, pending, owned, prepared, evidence, entry, counters>>

RemoveLockLost(p) ==
  LET known == "lock" \in job[p].found IN
  /\ pc[p] = "lost_rmdir"
  /\ \/ /\ lock = known
        /\ lock' = FALSE
        /\ Goto(p, "lost_evidence") /\ UNCHANGED <<job, mutation>>
     \/ lock # known /\ GiveUp(p) /\ UNCHANGED lock
  /\ UNCHANGED <<release, pending, owned, prepared, evidence, entry, counters>>

RecordLost(p) ==
  LET known == evidence[job[p].generation] IN
  /\ pc[p] = "lost_evidence"
  /\ evidence' = [evidence EXCEPT ![job[p].generation] = @ \cup {"recovered"}]
  /\ \/ /\ "released" \notin known
        /\ job' = [job EXCEPT
             ![p].outcome = "lost",
             ![p].found = @ \cup {"release"},
             ![p].todo = <<"release", "pending", "owned", "entry">>]
        /\ Goto(p, "clear") /\ UNCHANGED mutation
     \/ "released" \in known /\ GiveUp(p)
  /\ UNCHANGED <<files, entry, counters>>

\* What was found is removed by name (the ownership marker of an unbound
\* acquisition when it is there), and the entry gets its new generation:
\* an unbound acquisition leaves its recovery's identity, a released lease its
\* verdict, and a lost one a recovery of the whole operation.
EntryAfter(p) ==
  LET old == entry[job[p].queue] IN
  IF job[p].outcome = "unbound" THEN [old EXCEPT !.recovered = TRUE]
  ELSE IF job[p].outcome = "released" /\ old.state # "leased"
         THEN [old EXCEPT !.owner = None]
  ELSE [state |-> "recovery_required", owner |-> None, recovered |-> FALSE]
\* The next part is as the reconciliation believes it to be.
AsExpected(p) ==
  LET part == Head(job[p].todo)
      found(name) == part = name /\ name \in job[p].found
      outcome == job[p].outcome
  IN
  /\ found("release") => release # None
  /\ found("owned") => owned # None
  /\ found("pending") => pending # None
  /\ found("prepared") => prepared[issued[job[p].generation]] # None
  /\ part = "entry" =>
       /\ owned = None
       /\ outcome = "unbound" => ~lock /\ pending # None /\ Prepared = {}
       /\ outcome # "unbound" => pending = None
       /\ outcome \in {"unbound", "released"} => release = None
Clear(p) ==
  LET part == Head(job[p].todo)
      next == [job[p] EXCEPT !.todo = Tail(@)]
      outcome == job[p].outcome
      removes(name) == part = name /\ name \in job[p].found
      left(name, file) == IF removes(name) THEN None ELSE file
  IN
  /\ pc[p] = "clear" /\ job[p].todo # <<>>
  /\ \/ /\ AsExpected(p)
        /\ release' = left("release", release)
        /\ owned' = IF part = "owned" /\ outcome = "unbound" THEN None
                    ELSE left("owned", owned)
        /\ pending' = left("pending", pending)
        /\ prepared' = [r \in Process |->
             IF removes("prepared") /\ r = issued[job[p].generation]
               THEN None ELSE prepared[r]]
        /\ IF part = "entry" /\ EntryAfter(p) # entry[job[p].queue]
             THEN WriteEntry(p, job[p].queue, EntryAfter(p), next)
             ELSE job' = [job EXCEPT ![p] = next] /\ UNCHANGED entry
        /\ UNCHANGED <<pc, mutation>>
     \/ /\ ~AsExpected(p) /\ GiveUp(p)
        /\ UNCHANGED <<release, owned, pending, prepared, entry>>
  /\ UNCHANGED <<lock, evidence, counters>>

Reconciled(p) ==
  /\ pc[p] = "clear" /\ job[p].todo = <<>>
  /\ GiveUp(p)
  /\ UNCHANGED <<files, evidence, entry, counters>>

----------------------------------------------------------------------------
(* Other calls, and what goes wrong                                        *)

\* A verdict that is resolved, or a recovery that is settled, puts an entry
\* without owner back in the queue.
Reopen(q) ==
  /\ mutation = None
  /\ entry[q].state \in {"replan_required", "recovery_required"}
  /\ entry[q].owner = None
  /\ entry' = [entry EXCEPT ![q].state = "queued"]
  /\ job' = [p \in Process |-> [job[p] EXCEPT !.fresh = @ /\ job[p].queue # q]]
  /\ UNCHANGED <<files, evidence, mutation, pc, counters>>

\* A process that has nothing to do ends.  One that never drew a generation
\* left no files: its end is the same as its silence.
Exit(p) ==
  /\ pc[p] = "idle" /\ p \in Mortal
  /\ \E g \in DOMAIN issued : issued[g] = p
  /\ Goto(p, "dead")
  /\ UNCHANGED <<files, records, job, counters>>

\* A reconciliation that marks a release opens the file and then writes it.
LeavesTornRelease(p) ==
  pc[p] \in {"rec_mark", "lost_mark"} /\ release = None

\* A process is killed; its files and the locks it held stay.
Crash(p) ==
  /\ p \in Mortal /\ pc[p] \in CrashPoints \ {"idle", "dead"}
  /\ faults < MaxFaults /\ faults' = faults + 1
  /\ Goto(p, "dead")
  /\ job' = [job EXCEPT ![p] = NoJob]
  /\ \/ UNCHANGED release
     \/ LeavesTornRelease(p) /\ release' = Torn
  /\ UNCHANGED <<lock, pending, owned, prepared, records, issued>>

\* A queue write that fails: it is written or not, and answered unknown.
WriteFails(p) ==
  \/ /\ pc[p] = "claim_write" /\ Goto(p, "give_mark")
     /\ \/ ClaimAllowed(p) /\ WriteEntry(p, job[p].queue, Claimed(p), job[p])
        \/ UNCHANGED <<entry, job>>
  \/ /\ pc[p] = "finish_write" /\ Goto(p, "give_mark")
     /\ \/ /\ FinishAllowed(p)
           /\ \E v \in {"replan_required", "cancelled"} :
                WriteEntry(p, job[p].queue, Verdict(p, v), job[p])
        \/ UNCHANGED <<entry, job>>
  \/ /\ pc[p] = "settle_write" /\ Goto(p, "give_idle")
     /\ \/ SettleAllowed(p) /\ WriteEntry(p, job[p].queue, Unowned(p), job[p])
        \/ UNCHANGED <<entry, job>>

\* A call of the file system fails.
Throw(p) ==
  /\ pc[p] \in ThrowPoints /\ faults < MaxFaults
  /\ faults' = faults + 1
  /\ \/ /\ pc[p] \in {"prepare", "write", "link"}
        /\ prepared' = [prepared EXCEPT ![p] = None]
        /\ Return(p) /\ UNCHANGED <<release, evidence, entry, mutation>>
     \/ /\ pc[p] \in {"drop", "unprepare", "confirm"} \cup UndoSteps
                      \cup (ReleaseSteps \ WriteSteps)
        /\ Return(p) /\ UNCHANGED <<release, prepared, evidence, entry, mutation>>
     \/ /\ pc[p] \in {"mkdir", "own", "own_write", "record"}
        /\ Goto(p, "undo_lock")
        /\ \/ UNCHANGED evidence
           \/ /\ pc[p] = "record"
              /\ evidence' = [evidence EXCEPT ![job[p].generation] = @ \cup {"acquired"}]
        /\ UNCHANGED <<release, job, prepared, entry, mutation>>
     \/ /\ pc[p] \in HeldSteps \ WriteSteps
        /\ Goto(p, "mark")
        /\ UNCHANGED <<release, job, prepared, evidence, entry, mutation>>
     \/ /\ pc[p] \in {"claim_write", "finish_write", "settle_write"}
        /\ WriteFails(p)
        /\ UNCHANGED <<release, prepared, evidence, mutation>>
     \/ /\ pc[p] \in {"give_work", "give_mark", "give_idle"}   \* the lock stays or not
        /\ mutation' \in {mutation, None}
        /\ IF pc[p] = "give_idle" THEN Return(p)
           ELSE Goto(p, "mark") /\ job' = [job EXCEPT ![p].settles = FALSE]
        /\ UNCHANGED <<release, prepared, evidence, entry>>
     \/ /\ pc[p] \in ReconcileSteps \ {"reconcile"}
        /\ GiveUp(p) /\ UNCHANGED <<prepared, evidence, entry>>
        /\ \/ UNCHANGED release
           \/ LeavesTornRelease(p) /\ release' = Torn
  /\ UNCHANGED <<lock, pending, owned, issued>>

Acquire(p) ==
  \/ Look(p) \/ Prepare(p) \/ Write(p) \/ Link(p) \/ Drop(p)
  \/ Unprepare(p) \/ Confirm(p)
  \/ MakeLock(p) \/ Own(p) \/ OwnWrite(p) \/ Record(p) \/ Undo(p)
Hold(p) == SelectAgain(p) \/ Claim(p) \/ Finish(p)
LockQueue(p) == TakeQueue(p) \/ GiveQueue(p)
GiveBack(p) ==
  \/ Mark(p) \/ MarkWrite(p) \/ RemoveLock(p) \/ RecordRelease(p) \/ Unmark(p)
  \/ ReadOwned(p) \/ Unown(p) \/ ReadPending(p) \/ Unpend(p) \/ Settle(p)
Recover(p) ==
  \/ Reconcile(p) \/ Adopt(p) \/ CheckUnbound(p) \/ MarkUnbound(p)
  \/ RemoveLockUnbound(p) \/ RecordUnbound(p) \/ Find(p) \/ ReadRelease(p)
  \/ ReadEvidence(p) \/ ReadOwnership(p) \/ ObserveOwner(p)
  \/ MarkLost(p) \/ RemoveLockLost(p) \/ RecordLost(p) \/ Clear(p) \/ Reconciled(p)
Run(p) == Acquire(p) \/ Hold(p) \/ GiveBack(p) \/ LockQueue(p) \/ Recover(p)

Next ==
  \/ \E p \in Process : Run(p) \/ Exit(p) \/ Crash(p) \/ Throw(p)
  \/ \E p \in Process, q \in Queue : Start(p, q) \/ Inspect(p, q)
  \/ \E q \in Queue : Reopen(q)

Spec == Init /\ [][Next]_vars

\* A process that lives carries on with the call it is in.  Callers come back:
\* a call for an entry that can be inspected again and again is made.
Fairness ==
  /\ \A p \in Process : WF_vars(Run(p))
  /\ \A q \in Queue : SF_vars(\E p \in Process \ Mortal : Inspect(p, q))
FairSpec == Spec /\ Fairness

----------------------------------------------------------------------------
(* Properties                                                              *)

Job == [queue : Queue \cup {None}, generation : Generation \cup {None},
        mine : SUBSET {"pending", "lock", "owned"}, fresh : BOOLEAN,
        settles : BOOLEAN, found : SUBSET Parts,
        outcome : {None, "observe", "unbound", "released", "lost"},
        todo : Seq(Parts)]
LeaseTypeOK ==
  /\ lock \in BOOLEAN
  /\ release \in Generation \cup {None, Torn}
  /\ pending \in Marker \cup {None}
  /\ owned \in Marker \cup {None, Torn}
  /\ prepared \in [Process -> Marker \cup {None, Torn}]
  /\ evidence \in [Generation -> SUBSET Disposition]
  /\ entry \in [Queue -> [state : EntryStates, owner : Generation \cup {None},
                          recovered : BOOLEAN]]
  /\ mutation \in Process \cup {None}
  /\ pc \in [Process -> Steps]
  /\ job \in [Process -> Job]
  /\ issued \in Seq(Process) /\ Len(issued) <= MaxGeneration
  /\ faults \in 0 .. MaxFaults

Holds(p) == pc[p] \in HeldSteps

\* A process that works under its lease owns the entry it works on, up to the
\* write of its verdict, whatever other processes recover or claim meanwhile and
\* whatever became of the files of the lease: no operation runs twice, and none
\* is taken from its worker.
WorkerOwnsEntry ==
  \A p \in Process :
    pc[p] \in {"work", "finish_write"} => entry[job[p].queue] = Claimed(p)

\* The owner of an entry is cleared only when its lease is closed by evidence
\* of a release or of a recovery and the process that held it neither works
\* under it nor is about to release it.
OwnerClearedAfterLease ==
  [][\A q \in Queue :
       entry[q].owner # None /\ entry'[q].owner # entry[q].owner =>
         LET g == entry[q].owner IN
         /\ entry'[q].owner = None
         /\ evidence[g] \cap {"released", "recovered"} # {}
         /\ \A p \in Process : ~(Holds(p) /\ job[p].generation = g)]_vars

\* The lease as its tests describe it: "one Repository Binding cannot acquire two
\* Project Operation leases".  A marker that is removed by name after it was
\* read, and a lock directory that is removed after its owner was looked for,
\* may be those of the next acquirer.
LeaseExclusive ==
  \A p, r \in Process : Holds(p) /\ Holds(r) => p = r

\* Recovery starts only when no other process is in its own lease: what a
\* reconciliation reads does not change under it.
RecoversAlone ==
  \A p, r \in Process :
    pc[p] \in ReconcileSteps => pc[r] \in {"idle", "dead"} \cup ReconcileSteps

\* When recovery does not overlap a live lease, the files of a process that was
\* killed do not keep the repository blocked: later calls remove them, up to the
\* last marker.  This is so at every step at which the process may be killed here
\* (CrashPoints), and those leave out the steps that hold the queue mutation
\* lock: a process killed inside a queue write or a reconciliation leaves the
\* directory of that lock behind, and every later reconciliation is refused.
AbandonedLeaseCleared ==
  []RecoversAlone =>
    \A p \in Process :
      pc[p] = "dead" ~> \/ FootprintAbsent
                        \/ pending # None /\ pending.process # p

\* When recovery does not overlap a live lease, an entry whose owner was killed
\* is taken over, at whatever step of its operation the owner was outside the
\* queue writes, which hold the queue mutation lock.
AbandonedEntryTaken ==
  []RecoversAlone =>
    \A q \in Queue :
      (entry[q].owner # None /\ pc[issued[entry[q].owner]] = "dead")
        ~> entry[q].owner = None

=============================================================================

----------------------- MODULE MCProjectRuntimeLease -----------------------
(***************************************************************************)
(* Instances of ProjectRuntimeLease: which steps may be interrupted.       *)
(***************************************************************************)
EXTENDS ProjectRuntimeLease, TLC

CONSTANTS p1, p2, p3, q1, q2

Symmetry == Permutations(Process) \cup Permutations(Queue)

EveryStep == Steps
NoStep == {}

\* One step for each way a call fails: nothing left behind, a marker beside its
\* temporary file, a torn file that is rolled back, an operation that is broken
\* off, a queue write nobody was told of, a queue mutation lock that may stay, a
\* release and a reconciliation that are half done.
FailingSteps ==
  {"link", "unprepare", "own_write", "work", "claim_write", "finish_write",
   "settle_write", "give_work", "record_release", "rec_mark", "clear"}

\* The steps of an acquisition, a lease or a release before which a process can
\* be killed so that a later call can still tell what it left and is let in:
\* every one but those that leave a file without its content, the one that
\* leaves the lock directory without its ownership marker, and those that hold
\* the queue mutation lock.
CleanCrash ==
  (AcquireSteps \cup HeldSteps \cup ReleaseSteps)
    \ (WriteSteps \cup {"write", "own", "own_write", "mark_write"})

BeforeLock == {"mkdir"}

\* Where two leases come to overlap: p1 lets go of a lease, takes another one and
\* is killed, p2 acquires in between, and p3 recovers and acquires last.
Overlap ==
  /\ \A g \in DOMAIN issued : issued[g] = <<p1, p2, p1, p3>>[g]
  /\ \A p \in {p1, p2} : pc[p] \notin ReconcileSteps
  /\ \A p \in Process : pc[p] \notin UndoSteps \cup {"drop"}
  /\ pc[p1] = "dead" => Len(issued) >= 3
  /\ job[p1].queue # q2 /\ job[p2].queue # q1

=============================================================================

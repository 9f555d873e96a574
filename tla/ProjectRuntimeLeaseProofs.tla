----------------------- MODULE ProjectRuntimeLeaseProofs -----------------------
(***************************************************************************)
(* Proofs about the lease of ProjectRuntimeLease, for any number of        *)
(* processes, entries, leases and faults.                                  *)
(*                                                                         *)
(* The files of the lease prove little: every one of them may be removed   *)
(* by name under its owner (LeaseExclusive does not hold).  What remains   *)
(* true rests on three things that cannot be removed: the generation an    *)
(* acquirer has drawn is its own, evidence that a lease was released or    *)
(* recovered stays and is true, and a queue entry is written under the     *)
(* queue mutation lock.                                                    *)
(***************************************************************************)
EXTENDS ProjectRuntimeLease, SequenceTheorems, TLAPS

\* From here on a call has drawn its own generation, up to its return ...
Drawn == {"write", "link", "drop", "unprepare", "confirm", "mkdir", "own",
          "own_write", "record"} \cup HeldSteps \cup ReleaseSteps \cup UndoSteps
\* ... and at these steps its release may be on record.
Closed == {"unmark", "read_owned", "unown", "read_pending", "unpend", "settle",
           "settle_write", "give_idle"}
\* From the claim to the verdict the entry is the call's own.
Claiming == {"give_work", "work", "finish_write"}
\* At the other steps the call holds neither the entry nor the mutation lock.
Plain == Drawn \ (Claiming \cup WriteSteps)

\* A reconciliation that has the queue mutation lock, of an entry without
\* owner, of an entry with one, and one that found the process gone.
Locked == ReconcileSteps \ {"reconcile"}
UnboundSteps == {"adopt", "check", "rec_mark", "rec_rmdir", "rec_evidence"}
LostSteps == {"lost_mark", "lost_rmdir", "lost_evidence"}
BoundSteps == {"find", "read", "read_evidence", "read_ownership", "observe"} \cup LostSteps

\* The entry is the last thing that the reconciliation of a lease clears.
EntryLast(s) == \A i \in DOMAIN s : s[i] = "entry" => i = Len(s)

\* A call works on an entry; the generation it has drawn is its own, and not
\* released before it releases it.
OwnGeneration(p) ==
  /\ pc[p] \notin {"idle", "dead"} => job[p].queue \in Queue
  /\ pc[p] \in Drawn =>
       /\ job[p].generation \in DOMAIN issued
       /\ issued[job[p].generation] = p
       /\ pc[p] \notin Closed => "released" \notin evidence[job[p].generation]
  /\ pc[p] \in Claiming => entry[job[p].queue] = Claimed(p)

\* A queue write holds the queue mutation lock.  A reconciliation
\* does too, so its entry is as it read it, and what it knows of the process of
\* the lease stays true.
Recovering(p) ==
  /\ pc[p] \in Locked \cup WriteSteps => mutation = p
  /\ pc[p] \in UnboundSteps => entry[job[p].queue].owner = None
  /\ pc[p] \in BoundSteps =>
       /\ job[p].generation \in DOMAIN issued
       /\ entry[job[p].queue].owner = job[p].generation
  /\ pc[p] \in {"rec_mark", "rec_rmdir", "rec_evidence"} =>
       job[p].generation \in DOMAIN issued
  /\ pc[p] \in {"rec_mark", "rec_rmdir", "rec_evidence"} \cup LostSteps =>
       pc[issued[job[p].generation]] = "dead"
  /\ pc[p] = "find" => job[p].todo # <<>>

\* Which case a reconciliation is in is backed by evidence, and the entry has its
\* owner until the last step of it.
Clearing(p) ==
  /\ pc[p] = "clear" => job[p].outcome \in {"unbound", "released", "lost"}
  /\ pc[p] = "read_ownership" => job[p].outcome \in {"observe", "released", "lost"}
  /\ pc[p] \in {"read_ownership", "clear"} =>
       /\ job[p].outcome # "unbound" => EntryLast(job[p].todo)
       /\ job[p].outcome = "released" =>
            /\ job[p].generation \in Generation
            /\ "released" \in evidence[job[p].generation]
       /\ job[p].outcome = "lost" =>
            /\ job[p].generation \in Generation
            /\ "recovered" \in evidence[job[p].generation]
  /\ pc[p] = "clear" =>
       IF job[p].outcome = "unbound"
       THEN entry[job[p].queue].owner = None
       ELSE job[p].todo # <<>> =>
              entry[job[p].queue].owner = job[p].generation

\* A marker names the process that drew its generation.
Known(m) ==
  m \notin {None, Torn} =>
    m.generation \in DOMAIN issued /\ issued[m.generation] = m.process
MarkersKnown == Known(pending) /\ Known(owned) /\ \A r \in Process : Known(prepared[r])

\* Evidence exists of generations that were drawn, and that of a recovery only
\* when the process of the lease is gone; an owner is such a generation.
EvidenceKnown ==
  \A g \in Generation :
    /\ evidence[g] # {} => g \in DOMAIN issued
    /\ "recovered" \in evidence[g] => pc[issued[g]] = "dead"
OwnersKnown ==
  \A q \in Queue : entry[q].owner # None => entry[q].owner \in DOMAIN issued

LeaseInv ==
  /\ LeaseTypeOK
  /\ \A p \in Process : OwnGeneration(p) /\ Recovering(p) /\ Clearing(p)
  /\ MarkersKnown /\ EvidenceKnown /\ OwnersKnown

-----------------------------------------------------------------------------
(* What a step leaves alone.                                               *)

\* The call of r stays where it is; what it read may have grown old.
Kept(r) ==
  /\ pc'[r] = pc[r]
  /\ job'[r].queue = job[r].queue /\ job'[r].generation = job[r].generation
  /\ job'[r].outcome = job[r].outcome /\ job'[r].todo = job[r].todo

\* Nothing that others rely on is taken back.
IssuedStays == \A g \in DOMAIN issued : g \in DOMAIN issued' /\ issued'[g] = issued[g]
DeadStays == \A r \in Process : pc[r] = "dead" => pc'[r] = "dead"
ClosingStays ==
  \A g \in Generation : evidence[g] \cap {"released", "recovered"} \subseteq evidence'[g]
ReleasedBy(p) ==
  \A g \in Generation :
    "released" \in evidence'[g] =>
      \/ "released" \in evidence[g]
      \/ pc[p] = "record_release" /\ g = job[p].generation
MutationBy(p) == mutation' = mutation \/ mutation \in {None, p}

\* An entry is written by its owner at work, by the closing of its lease, or
\* when it has no owner, and never under the lock of another process.
EntryBy(p, q) ==
  \/ entry'[q] = entry[q]
  \/ /\ mutation \in {None, p}
     /\ \/ entry[q].owner = None
        \/ /\ pc[p] = "finish_write" /\ entry[q].owner = job[p].generation
           /\ entry'[q].owner = entry[q].owner
        \/ /\ entry'[q].owner = None
           /\ evidence[entry[q].owner] \cap {"released", "recovered"} # {}

StepOf(p) ==
  /\ pc[p] # "dead"
  /\ \A r \in Process \ {p} : Kept(r)
  /\ IssuedStays /\ ClosingStays /\ ReleasedBy(p) /\ MutationBy(p)
  /\ \A q \in Queue : EntryBy(p, q)

-----------------------------------------------------------------------------
(* The values of the constants and of the types.                           *)

LEMMA Constants ==
  /\ None # Torn /\ None \notin Process /\ None \notin Queue
  /\ None \notin Generation /\ Torn \notin Generation
  /\ None \notin Marker /\ Torn \notin Marker
  /\ Generation \subseteq Nat
  BY NoneAndTorn, Bounds DEF Generation

LEMMA Drawns == ASSUME LeaseTypeOK
  PROVE /\ DOMAIN issued = 1 .. Len(issued)
        /\ DOMAIN issued \subseteq Generation
        /\ \A g \in DOMAIN issued : issued[g] \in Process
        /\ Len(issued) \in Nat
  BY Bounds DEF LeaseTypeOK, Generation

LEMMA Jobs == ASSUME LeaseTypeOK, NEW p \in Process
  PROVE /\ job[p] \in Job
        /\ job[p].queue \in Queue \cup {None}
        /\ job[p].generation \in Generation \cup {None}
        /\ job[p].mine \in SUBSET {"pending", "lock", "owned"}
        /\ job[p].fresh \in BOOLEAN /\ job[p].settles \in BOOLEAN
        /\ job[p].found \in SUBSET Parts
        /\ job[p].outcome \in {None, "observe", "unbound", "released", "lost"}
        /\ job[p].todo \in Seq(Parts)
  BY DEF LeaseTypeOK, Job

LEMMA NoJobIsJob == NoJob \in Job
  <1>1. <<>> \in Seq(Parts)
    OBVIOUS
  <1> QED
    BY <1>1 DEF NoJob, Job

LEMMA MarkerIsMarker ==
  ASSUME LeaseInv, NEW p \in Process, pc[p] \in Drawn
  PROVE /\ MarkerOf(p) \in Marker
        /\ Known(MarkerOf(p))
        /\ MarkerOf(p).generation = job[p].generation
        /\ MarkerOf(p).process = p /\ MarkerOf(p).queue = job[p].queue
  <1>1. /\ job[p].queue \in Queue
        /\ job[p].generation \in DOMAIN issued /\ issued[job[p].generation] = p
    BY DEF LeaseInv, OwnGeneration, Drawn, HeldSteps, ReleaseSteps, UndoSteps
  <1>2. job[p].generation \in Generation
    BY <1>1, Drawns DEF LeaseInv
  <1> QED
    BY <1>1, <1>2 DEF MarkerOf, Marker, Known

-----------------------------------------------------------------------------
(* A call keeps what the invariant says of it while others take steps.     *)

LEMMA QuietGeneration ==
  ASSUME LeaseInv, LeaseTypeOK', NEW p \in Process, NEW r \in Process,
         StepOf(p), r # p
  PROVE OwnGeneration(r)'
  <1> DEFINE g == job[r].generation
             q == job[r].queue
  <1>1. Kept(r)
    BY DEF StepOf
  <1>2. CASE pc[r] \notin Drawn
    BY <1>1, <1>2 DEF LeaseInv, OwnGeneration, Kept, Drawn, HeldSteps, Claiming
  <1>3. CASE pc[r] \in Drawn
    <2>1. /\ q \in Queue /\ g \in DOMAIN issued /\ issued[g] = r
          /\ pc[r] \notin Closed => "released" \notin evidence[g]
          /\ pc[r] \in Claiming => entry[q] = Claimed(r)
      BY <1>3 DEF LeaseInv, OwnGeneration, Drawn, HeldSteps, ReleaseSteps, UndoSteps
    <2>2. g \in Generation
      BY <2>1, Drawns DEF LeaseInv
    <2>3. g \in DOMAIN issued' /\ issued'[g] = r
      BY <2>1 DEF StepOf, IssuedStays
    <2>4. pc[p] \in Drawn /\ job[p].generation = g => FALSE
      BY <2>1 DEF LeaseInv, OwnGeneration
    <2>5. ASSUME pc[r] \notin Closed PROVE "released" \notin evidence'[g]
      <3>1. pc[p] = "record_release" => pc[p] \in Drawn
        BY DEF Drawn, ReleaseSteps
      <3> QED
        BY <2>1, <2>2, <2>4, <2>5, <3>1 DEF StepOf, ReleasedBy
    <2>6. ASSUME pc[r] \in Claiming PROVE entry'[q] = Claimed(r)
      <3>1. entry[q] = Claimed(r) /\ entry[q].owner = g /\ "released" \notin evidence[g]
        BY <2>1, <2>6 DEF Claimed, Closed, Claiming
      <3>2. "recovered" \notin evidence[g]
        BY <2>1, <2>2, <2>6 DEF LeaseInv, EvidenceKnown, Claiming
      <3>3. pc[p] = "finish_write" => pc[p] \in Drawn
        BY DEF Drawn, HeldSteps
      <3>4. g # None
        BY <2>2, Constants
      <3> QED
        BY <2>1, <2>4, <3>1, <3>2, <3>3, <3>4 DEF StepOf, EntryBy
    <2>7. Claimed(r)' = Claimed(r)
      BY <1>1 DEF Claimed, Kept
    <2> QED
      BY <1>1, <2>1, <2>3, <2>5, <2>6, <2>7 DEF OwnGeneration, Kept
  <1> QED
    BY <1>2, <1>3

\* While r holds the mutation lock no entry changes under it.
LEMMA LockedEntries ==
  ASSUME LeaseInv, NEW p \in Process, NEW r \in Process, StepOf(p), r # p,
         pc[r] \in Locked
  PROVE mutation' = r /\ \A q \in Queue : entry'[q] = entry[q]
  <1>1. mutation = r
    BY DEF LeaseInv, Recovering
  <1> QED
    BY <1>1, Constants DEF StepOf, MutationBy, EntryBy

LEMMA LockedSteps ==
  /\ UnboundSteps \subseteq Locked /\ BoundSteps \subseteq Locked
  /\ LostSteps \subseteq BoundSteps /\ "clear" \in Locked /\ "read_ownership" \in Locked
  /\ {"rec_mark", "rec_rmdir", "rec_evidence"} \subseteq UnboundSteps
  /\ "idle" \notin Locked /\ "dead" \notin Locked
  /\ Locked \cap Drawn = {} /\ WriteSteps \subseteq Drawn
  BY DEF WriteSteps, UnboundSteps, BoundSteps, LostSteps, Locked, ReconcileSteps, Drawn,
         HeldSteps, ReleaseSteps, UndoSteps

LEMMA QuietRecovering ==
  ASSUME LeaseInv, LeaseTypeOK', NEW p \in Process, NEW r \in Process,
         StepOf(p), r # p
  PROVE Recovering(r)'
  <1> DEFINE g == job[r].generation
             q == job[r].queue
  <1>1. Kept(r)
    BY DEF StepOf
  <1>2. CASE pc[r] \notin Locked
    <2>1. /\ pc[r] \notin UnboundSteps /\ pc[r] \notin BoundSteps /\ pc[r] \notin LostSteps
          /\ pc[r] \notin {"rec_mark", "rec_rmdir", "rec_evidence"} /\ pc[r] # "find"
      BY <1>2, LockedSteps DEF BoundSteps
    <2>2. pc[r] \in WriteSteps => mutation' = r
      BY Constants DEF LeaseInv, Recovering, StepOf, MutationBy
    <2> QED
      BY <1>1, <1>2, <2>1, <2>2 DEF Recovering, Kept
  <1>3. CASE pc[r] \in Locked
    <2>1. mutation' = r /\ \A u \in Queue : entry'[u] = entry[u]
      BY <1>3, LockedEntries
    <2>2. q \in Queue
      BY <1>3, LockedSteps DEF LeaseInv, OwnGeneration
    <2>3. Recovering(r)
      BY DEF LeaseInv
    <2>4. ASSUME g \in DOMAIN issued PROVE g \in DOMAIN issued' /\ issued'[g] = issued[g]
      BY <2>4 DEF StepOf, IssuedStays
    <2>5. ASSUME g \in DOMAIN issued, pc[issued[g]] = "dead"
          PROVE pc'[issued'[g]] = "dead"
      <3>1. issued[g] \in Process
        BY <2>5, Drawns DEF LeaseInv
      <3>2. issued[g] # p
        BY <2>5 DEF StepOf
      <3> QED
        BY <2>4, <2>5, <3>1, <3>2 DEF StepOf, Kept
    <2>6. pc[r] \in {"rec_mark", "rec_rmdir", "rec_evidence"} \cup LostSteps => g \in DOMAIN issued
      BY <2>3, LockedSteps DEF Recovering
    <2> QED
      BY <1>1, <2>1, <2>2, <2>3, <2>4, <2>5, <2>6 DEF Recovering, Kept
  <1> QED
    BY <1>2, <1>3

LEMMA QuietClearing ==
  ASSUME LeaseInv, LeaseTypeOK', NEW p \in Process, NEW r \in Process,
         StepOf(p), r # p
  PROVE Clearing(r)'
  <1> DEFINE g == job[r].generation
             q == job[r].queue
  <1>1. Kept(r)
    BY DEF StepOf
  <1>2. CASE pc[r] \notin {"read_ownership", "clear"}
    BY <1>1, <1>2 DEF Clearing, Kept
  <1>3. CASE pc[r] \in {"read_ownership", "clear"}
    <2>1. mutation' = r /\ \A u \in Queue : entry'[u] = entry[u]
      BY <1>3, LockedEntries, LockedSteps
    <2>2. q \in Queue
      BY <1>3 DEF LeaseInv, OwnGeneration
    <2>3. Clearing(r)
      BY DEF LeaseInv
    <2>4. g \in Generation =>
            /\ "released" \in evidence[g] => "released" \in evidence'[g]
            /\ "recovered" \in evidence[g] => "recovered" \in evidence'[g]
      BY DEF StepOf, ClosingStays
    <2> QED
      BY <1>1, <2>1, <2>2, <2>3, <2>4 DEF Clearing, Kept, EntryLast
  <1> QED
    BY <1>2, <1>3

-----------------------------------------------------------------------------
(* What one step has to show.                                              *)

LEMMA Others ==
  ASSUME LeaseInv, LeaseTypeOK', NEW p \in Process, StepOf(p),
         OwnGeneration(p)', Recovering(p)', Clearing(p)',
         MarkersKnown', EvidenceKnown', OwnersKnown'
  PROVE LeaseInv'
  <1>1. ASSUME NEW r \in Process
        PROVE OwnGeneration(r)' /\ Recovering(r)' /\ Clearing(r)'
    <2>1. CASE r = p
      BY <2>1
    <2>2. CASE r # p
      BY <2>2, QuietGeneration, QuietRecovering, QuietClearing
    <2> QED
      BY <2>1, <2>2
  <1> QED
    BY <1>1 DEF LeaseInv

\* A call that has returned says nothing, and neither does a process that is gone.
LEMMA Idle ==
  ASSUME NEW p \in Process, pc'[p] \in {"idle", "dead"}
  PROVE OwnGeneration(p)' /\ Recovering(p)' /\ Clearing(p)'
  BY DEF OwnGeneration, Recovering, Clearing, Locked, UnboundSteps, BoundSteps, LostSteps,
         ReconcileSteps, Drawn, HeldSteps, ReleaseSteps, UndoSteps, WriteSteps, Claiming

\* A call that goes on with the generation it has drawn.
LEMMA Onward ==
  ASSUME LeaseInv, NEW p \in Process, pc[p] \in Drawn, pc'[p] \in Drawn \ Claiming,
         pc'[p] \in WriteSteps => mutation' = p,
         job'[p].queue = job[p].queue, job'[p].generation = job[p].generation,
         issued' = issued,
         pc'[p] \notin Closed => "released" \notin evidence'[job[p].generation]
  PROVE OwnGeneration(p)' /\ Recovering(p)' /\ Clearing(p)'
  <1>1. /\ job[p].queue \in Queue
        /\ job[p].generation \in DOMAIN issued /\ issued[job[p].generation] = p
    BY DEF LeaseInv, OwnGeneration, Drawn, HeldSteps, ReleaseSteps, UndoSteps
  <1>2. OwnGeneration(p)'
    BY <1>1 DEF OwnGeneration
  <1>3. pc'[p] \notin Locked
    BY LockedSteps
  <1>4. Recovering(p)' /\ Clearing(p)'
    <2>1. /\ pc'[p] \notin UnboundSteps /\ pc'[p] \notin BoundSteps /\ pc'[p] \notin LostSteps
          /\ pc'[p] \notin {"rec_mark", "rec_rmdir", "rec_evidence"}
          /\ pc'[p] \notin {"find", "read_ownership", "clear"}
      BY <1>3, LockedSteps DEF BoundSteps
    <2> QED
      BY <1>3, <2>1 DEF Recovering, Clearing
  <1> QED
    BY <1>2, <1>4

\* A step that writes no evidence and no entry and draws no generation.
LEMMA PlainStep ==
  ASSUME LeaseInv, LeaseTypeOK', NEW p \in Process, pc[p] # "dead",
         issued' = issued, evidence' = evidence, entry' = entry, MutationBy(p),
         \A r \in Process \ {p} : Kept(r),
         OwnGeneration(p)', Recovering(p)', Clearing(p)', MarkersKnown'
  PROVE LeaseInv'
  <1>1. StepOf(p)
    BY DEF StepOf, IssuedStays, ClosingStays, ReleasedBy, EntryBy
  <1>2. EvidenceKnown'
    <2>1. ASSUME NEW g \in Generation
          PROVE /\ evidence'[g] # {} => g \in DOMAIN issued'
                /\ "recovered" \in evidence'[g] => pc'[issued'[g]] = "dead"
      <3>1. /\ evidence[g] # {} => g \in DOMAIN issued
            /\ "recovered" \in evidence[g] => pc[issued[g]] = "dead"
        BY <2>1 DEF LeaseInv, EvidenceKnown
      <3>2. "recovered" \in evidence[g] => issued[g] \in Process \ {p}
        BY <3>1, Drawns DEF LeaseInv
      <3> QED
        BY <3>1, <3>2 DEF Kept
    <2> QED
      BY <2>1 DEF EvidenceKnown
  <1>3. OwnersKnown'
    BY DEF LeaseInv, OwnersKnown
  <1> QED
    BY <1>1, <1>2, <1>3, Others

\* Such a step of a call that has drawn its generation.
LEMMA DrawnStep ==
  ASSUME LeaseInv, LeaseTypeOK', NEW p \in Process, pc[p] \in Drawn,
         issued' = issued, evidence' = evidence, entry' = entry, mutation' = mutation,
         \A r \in Process \ {p} : Kept(r), MarkersKnown',
         \/ pc'[p] = "idle"
         \/ /\ pc'[p] \in Plain
            /\ job'[p].queue = job[p].queue /\ job'[p].generation = job[p].generation
            /\ pc[p] \in Closed => pc'[p] \in Closed
  PROVE LeaseInv'
  <1>1. pc[p] # "dead"
    BY DEF Drawn, HeldSteps, ReleaseSteps, UndoSteps
  <1>2. OwnGeneration(p)' /\ Recovering(p)' /\ Clearing(p)'
    <2>1. CASE pc'[p] = "idle"
      BY <2>1, Idle
    <2>2. CASE pc'[p] # "idle"
      <3>1. pc'[p] \notin Closed => "released" \notin evidence'[job[p].generation]
        BY <2>2 DEF LeaseInv, OwnGeneration
      <3> QED
        BY <2>2, <3>1, Onward DEF Plain
    <2> QED
      BY <2>1, <2>2
  <1>3. MutationBy(p)
    BY DEF MutationBy
  <1> QED
    BY <1>1, <1>2, <1>3, PlainStep

-----------------------------------------------------------------------------
(* The forms that steps take.                                              *)

LEMMA Gone ==
  ASSUME LeaseTypeOK, NEW p \in Process, NEW s \in Steps, Goto(p, s)
  PROVE /\ pc' \in [Process -> Steps] /\ pc'[p] = s
        /\ \A r \in Process \ {p} : pc'[r] = pc[r]
  BY DEF LeaseTypeOK, Goto

LEMMA JobSet ==
  ASSUME LeaseTypeOK, NEW p \in Process, NEW call \in Job,
         job' = [job EXCEPT ![p] = call]
  PROVE /\ job' \in [Process -> Job] /\ job'[p] = call
        /\ \A r \in Process \ {p} : job'[r] = job[r]
  BY DEF LeaseTypeOK

LEMMA Returned ==
  ASSUME LeaseTypeOK, NEW p \in Process, Return(p)
  PROVE /\ pc' \in [Process -> Steps] /\ pc'[p] = "idle"
        /\ \A r \in Process \ {p} : pc'[r] = pc[r]
        /\ job' \in [Process -> Job] /\ job'[p] = NoJob
        /\ \A r \in Process \ {p} : job'[r] = job[r]
  <1>1. "idle" \in Steps
    BY DEF Steps
  <1> QED
    BY <1>1, NoJobIsJob, Gone, JobSet DEF Return

\* No file names an owner that the files before did not name, except for one.
LEMMA MarkersFrom ==
  ASSUME LeaseInv, IssuedStays, NEW m, Known(m),
         pending' \in {pending, None, m},
         owned' \in {owned, None, Torn, m},
         \A r \in Process : prepared'[r] \in {prepared[r], None, Torn, m}
  PROVE MarkersKnown'
  <1>1. ASSUME NEW x, Known(x), x \notin {None, Torn}
        PROVE x.generation \in DOMAIN issued' /\ issued'[x.generation] = x.process
    BY <1>1 DEF Known, IssuedStays
  <1>2. Known(pending) /\ Known(owned) /\ \A r \in Process : Known(prepared[r])
    BY DEF LeaseInv, MarkersKnown
  <1>3. pending' \notin {None, Torn} =>
          pending'.generation \in DOMAIN issued' /\ issued'[pending'.generation] = pending'.process
    BY <1>1, <1>2
  <1>4. owned' \notin {None, Torn} =>
          owned'.generation \in DOMAIN issued' /\ issued'[owned'.generation] = owned'.process
    BY <1>1, <1>2
  <1>5. ASSUME NEW r \in Process, prepared'[r] \notin {None, Torn}
        PROVE /\ prepared'[r].generation \in DOMAIN issued'
              /\ issued'[prepared'[r].generation] = prepared'[r].process
    BY <1>1, <1>2, <1>5
  <1> QED
    BY <1>3, <1>4, <1>5 DEF MarkersKnown, Known

LEMMA MarkersLeft ==
  ASSUME LeaseInv, issued' = issued,
         pending' \in {pending, None}, owned' \in {owned, None, Torn},
         \A r \in Process : prepared'[r] \in {prepared[r], None, Torn}
  PROVE MarkersKnown'
  <1>1. IssuedStays
    BY DEF IssuedStays
  <1>2. Known(None)
    BY DEF Known
  <1> QED
    BY <1>1, <1>2, MarkersFrom

-----------------------------------------------------------------------------
(* The acquisition.                                                        *)

LEMMA DrawnSteps ==
  /\ {"write", "link", "drop", "unprepare", "confirm", "mkdir", "own", "own_write",
      "record", "undo_lock", "undo_evidence", "undo_owned", "undo_pending",
      "select", "claim", "mark", "mark_write", "rmdir", "record_release"}
        \subseteq Plain \ Closed
  /\ {"unmark", "read_owned", "unown", "read_pending", "unpend", "settle"} \subseteq Plain \cap Closed
  /\ Claiming \cup {"claim_write", "give_mark"} \subseteq Drawn \ Closed
  /\ {"settle_write", "give_idle"} \subseteq Closed
  /\ Closed \cup WriteSteps \cup Plain \cup Claiming \subseteq Drawn /\ Drawn \subseteq Steps
  BY DEF Plain, Claiming, WriteSteps, Drawn, Closed, Steps, AcquireSteps, HeldSteps,
         ReleaseSteps, UndoSteps

LEMMA StepLook ==
  ASSUME LeaseInv, NEW p \in Process, Look(p)
  PROVE LeaseInv'
  <1> USE DEF LeaseInv
  <1>1. pc[p] \in {"look_release", "look_prepared", "look_pending", "look_owned"}
    BY DEF Look
  <1>2. UNCHANGED <<lock, release, pending, owned, prepared, evidence, entry, mutation,
                    issued, faults>>
    BY DEF Look, files, records, counters
  <1>3. CASE \E s \in {"look_prepared", "look_pending", "look_owned", "prepare"} :
               Goto(p, s) /\ job' = job
    <2>1. PICK s \in {"look_prepared", "look_pending", "look_owned", "prepare"} :
            Goto(p, s) /\ job' = job
      BY <1>3
    <2>2. /\ pc' \in [Process -> Steps] /\ pc'[p] = s
          /\ \A r \in Process \ {p} : pc'[r] = pc[r]
      BY <2>1, Gone DEF Steps, AcquireSteps
    <2>3. LeaseTypeOK'
      BY <1>2, <2>1, <2>2 DEF LeaseTypeOK
    <2>4. OwnGeneration(p)' /\ Recovering(p)' /\ Clearing(p)'
      <3>1. job[p].queue \in Queue
        BY <1>1 DEF OwnGeneration
      <3>2. pc'[p] \notin Drawn /\ pc'[p] \notin Locked
        BY <2>2 DEF Drawn, HeldSteps, ReleaseSteps, UndoSteps, Locked, ReconcileSteps
      <3> QED
        BY <2>1, <2>2, <3>1, <3>2, LockedSteps, DrawnSteps
        DEF OwnGeneration, Recovering, Clearing, BoundSteps, LostSteps, UnboundSteps
    <2>5. MarkersKnown'
      BY <1>2, MarkersLeft
    <2> QED
      BY <1>1, <1>2, <2>1, <2>2, <2>3, <2>4, <2>5, PlainStep DEF Kept, MutationBy
  <1>4. CASE Return(p)
    <2>1. /\ pc' \in [Process -> Steps] /\ pc'[p] = "idle"
          /\ \A r \in Process \ {p} : pc'[r] = pc[r]
          /\ job' \in [Process -> Job]
          /\ \A r \in Process \ {p} : job'[r] = job[r]
      BY <1>4, Returned
    <2>2. LeaseTypeOK'
      BY <1>2, <2>1 DEF LeaseTypeOK
    <2>3. MarkersKnown'
      BY <1>2, MarkersLeft
    <2> QED
      BY <1>1, <1>2, <2>1, <2>2, <2>3, Idle, PlainStep DEF Kept, MutationBy
  <1> QED
    BY <1>1, <1>3, <1>4 DEF Look

\* A step of a call with its generation that returns, or goes on and at most
\* remembers what it made, and writes neither evidence nor entry.
MovesOn(p) ==
  \/ Return(p)
  \/ \E s \in Plain :
       /\ Goto(p, s) /\ (pc[p] \in Closed => s \in Closed)
       /\ \/ job' = job
          \/ \E made \in SUBSET {"pending", "lock", "owned"} :
               job' = [job EXCEPT ![p].mine = made]

FilesTypeOK ==
  /\ lock \in BOOLEAN /\ release \in Generation \cup {None, Torn}
  /\ pending \in Marker \cup {None} /\ owned \in Marker \cup {None, Torn}
  /\ prepared \in [Process -> Marker \cup {None, Torn}]

LEMMA JobMade ==
  ASSUME LeaseTypeOK, NEW p \in Process,
         NEW made \in SUBSET {"pending", "lock", "owned"},
         job' = [job EXCEPT ![p].mine = made]
  PROVE /\ job' \in [Process -> Job]
        /\ job'[p].queue = job[p].queue /\ job'[p].generation = job[p].generation
        /\ \A r \in Process \ {p} : job'[r] = job[r]
  <1> DEFINE call == [job[p] EXCEPT !.mine = made]
  <1>1. call \in Job /\ call.queue = job[p].queue /\ call.generation = job[p].generation
    BY Jobs DEF Job
  <1>2. job' = [job EXCEPT ![p] = call]
    OBVIOUS
  <1> HIDE DEF call
  <1>3. job' \in [Process -> Job] /\ job'[p] = call /\ \A r \in Process \ {p} : job'[r] = job[r]
    BY <1>1, <1>2, JobSet
  <1> QED
    BY <1>1, <1>3

LEMMA StepMoves ==
  ASSUME LeaseInv, NEW p \in Process, pc[p] \in Drawn, MovesOn(p),
         FilesTypeOK', MarkersKnown', faults' \in 0 .. MaxFaults,
         UNCHANGED <<evidence, entry, mutation, issued>>
  PROVE LeaseInv'
  <1> USE DEF LeaseInv
  <1>1. CASE Return(p)
    <2>1. /\ pc' \in [Process -> Steps] /\ pc'[p] = "idle"
          /\ \A r \in Process \ {p} : pc'[r] = pc[r]
          /\ job' \in [Process -> Job]
          /\ \A r \in Process \ {p} : job'[r] = job[r]
      BY <1>1, Returned
    <2>2. LeaseTypeOK'
      BY <2>1 DEF LeaseTypeOK, FilesTypeOK
    <2> QED
      BY <2>1, <2>2, DrawnStep DEF Kept
  <1>2. ASSUME NEW s \in Plain, Goto(p, s), pc[p] \in Closed => s \in Closed,
               \/ job' = job
               \/ \E made \in SUBSET {"pending", "lock", "owned"} :
                    job' = [job EXCEPT ![p].mine = made]
        PROVE LeaseInv'
    <2>1. /\ pc' \in [Process -> Steps] /\ pc'[p] = s
          /\ \A r \in Process \ {p} : pc'[r] = pc[r]
      BY <1>2, DrawnSteps, Gone
    <2>2. /\ job' \in [Process -> Job]
          /\ job'[p].queue = job[p].queue /\ job'[p].generation = job[p].generation
          /\ \A r \in Process \ {p} : job'[r] = job[r]
      <3>1. CASE job' = job
        BY <3>1 DEF LeaseTypeOK
      <3>2. CASE \E made \in SUBSET {"pending", "lock", "owned"} :
                   job' = [job EXCEPT ![p].mine = made]
        BY <3>2, JobMade
      <3> QED
        BY <1>2, <3>1, <3>2
    <2>3. LeaseTypeOK'
      BY <2>1, <2>2 DEF LeaseTypeOK, FilesTypeOK
    <2> QED
      BY <1>2, <2>1, <2>2, <2>3, DrawnStep DEF Kept
  <1> QED
    BY <1>1, <1>2 DEF MovesOn

\* The files of such a step, when it writes no marker ...
LEMMA StepRemoves ==
  ASSUME LeaseInv, NEW p \in Process, pc[p] \in Drawn, MovesOn(p),
         lock' \in BOOLEAN, release' \in {release, None, Torn, job[p].generation},
         pending' \in {pending, None}, owned' \in {owned, None, Torn},
         \/ prepared' = prepared \/ prepared' = [prepared EXCEPT ![p] = None],
         faults' \in 0 .. MaxFaults,
         UNCHANGED <<evidence, entry, mutation, issued>>
  PROVE LeaseInv'
  <1> USE DEF LeaseInv
  <1>1. job[p].generation \in Generation
    BY Drawns DEF OwnGeneration
  <1>2. \A r \in Process : prepared'[r] \in {prepared[r], None, Torn}
    BY DEF LeaseTypeOK
  <1>3. FilesTypeOK'
    BY <1>1 DEF LeaseTypeOK, FilesTypeOK
  <1>4. MarkersKnown'
    BY <1>2, MarkersLeft
  <1> QED
    BY <1>3, <1>4, StepMoves

\* ... and when it writes the marker of the call.
LEMMA StepMarks ==
  ASSUME LeaseInv, NEW p \in Process, pc[p] \in Drawn, MovesOn(p),
         pending' \in {pending, MarkerOf(p)}, owned' \in {owned, MarkerOf(p)},
         \/ prepared' = prepared \/ prepared' = [prepared EXCEPT ![p] = MarkerOf(p)],
         UNCHANGED <<lock, release, evidence, entry, mutation, issued, faults>>
  PROVE LeaseInv'
  <1> USE DEF LeaseInv
  <1>1. MarkerOf(p) \in Marker /\ Known(MarkerOf(p))
    BY MarkerIsMarker
  <1>2. \A r \in Process : prepared'[r] \in {prepared[r], None, Torn, MarkerOf(p)}
    BY DEF LeaseTypeOK
  <1>3. FilesTypeOK'
    BY <1>1 DEF LeaseTypeOK, FilesTypeOK
  <1>4. IssuedStays
    BY DEF IssuedStays
  <1>5. pending' \in {pending, None, MarkerOf(p)} /\ owned' \in {owned, None, Torn, MarkerOf(p)}
    OBVIOUS
  <1>6. MarkersKnown'
    BY <1>1, <1>2, <1>4, <1>5, MarkersFrom
  <1>7. faults' \in 0 .. MaxFaults
    BY DEF LeaseTypeOK
  <1> QED
    BY <1>3, <1>6, <1>7, StepMoves

LEMMA StepAcquires ==
  ASSUME LeaseInv, NEW p \in Process,
         \/ Write(p) \/ Link(p) \/ Drop(p) \/ Unprepare(p) \/ Confirm(p) \/ MakeLock(p)
         \/ Own(p) \/ OwnWrite(p)
  PROVE LeaseInv'
  <1> USE DEF LeaseInv, records, counters, files
  <1>1. lock \in BOOLEAN /\ faults \in 0 .. MaxFaults /\ job[p].mine \in SUBSET {"pending", "lock", "owned"}
    BY Jobs DEF LeaseTypeOK
  <1>2. CASE Write(p)
    <2>1. pc[p] \in Drawn /\ MovesOn(p)
      BY <1>2, DrawnSteps DEF Write, MovesOn
    <2> QED
      BY <1>2, <2>1, StepMarks DEF Write
  <1>3. CASE Link(p)
    <2>1. pc[p] \in Drawn /\ MovesOn(p)
      BY <1>3, DrawnSteps DEF Link, MovesOn
    <2> QED
      BY <1>3, <2>1, StepMarks DEF Link
  <1>4. CASE Drop(p)
    <2>1. pc[p] \in Drawn /\ MovesOn(p)
      BY <1>4, DrawnSteps DEF Drop, MovesOn
    <2> QED
      BY <1>1, <1>4, <2>1, StepRemoves DEF Drop
  <1>5. CASE Unprepare(p)
    <2>1. pc[p] \in Drawn /\ MovesOn(p)
      BY <1>5, DrawnSteps DEF Unprepare, MovesOn
    <2> QED
      BY <1>1, <1>5, <2>1, StepRemoves DEF Unprepare
  <1>6. CASE Confirm(p)
    <2>1. pc[p] \in Drawn /\ MovesOn(p)
      BY <1>6, DrawnSteps DEF Confirm, MovesOn
    <2> QED
      BY <1>1, <1>6, <2>1, StepRemoves DEF Confirm
  <1>7. CASE MakeLock(p)
    <2>1. pc[p] \in Drawn /\ MovesOn(p)
      BY <1>1, <1>7, DrawnSteps DEF MakeLock, MovesOn
    <2> QED
      BY <1>1, <1>7, <2>1, StepRemoves DEF MakeLock
  <1>8. CASE Own(p)
    <2>1. pc[p] \in Drawn /\ MovesOn(p)
      BY <1>8, DrawnSteps DEF Own, MovesOn
    <2> QED
      BY <1>1, <1>8, <2>1, StepRemoves DEF Own
  <1>9. CASE OwnWrite(p)
    <2>1. pc[p] \in Drawn /\ MovesOn(p)
      BY <1>1, <1>9, DrawnSteps DEF OwnWrite, MovesOn
    <2> QED
      BY <1>9, <2>1, StepMarks DEF OwnWrite
  <1> QED
    BY <1>2, <1>3, <1>4, <1>5, <1>6, <1>7, <1>8, <1>9

LEMMA StepReleases ==
  ASSUME LeaseInv, NEW p \in Process,
         \/ SelectAgain(p) \/ Mark(p) \/ MarkWrite(p) \/ RemoveLock(p) \/ Unmark(p)
         \/ ReadOwned(p) \/ Unown(p) \/ ReadPending(p) \/ Unpend(p)
  PROVE LeaseInv'
  <1> USE DEF LeaseInv, records, counters, files
  <1>1. lock \in BOOLEAN /\ faults \in 0 .. MaxFaults
    BY DEF LeaseTypeOK
  <1>2. CASE SelectAgain(p)
    <2>1. pc[p] \in Drawn /\ MovesOn(p)
      BY <1>2, DrawnSteps DEF SelectAgain, MovesOn
    <2> QED
      BY <1>1, <1>2, <2>1, StepRemoves DEF SelectAgain
  <1>3. CASE Mark(p)
    <2>1. pc[p] \in Drawn /\ MovesOn(p)
      BY <1>3, DrawnSteps DEF Mark, MovesOn
    <2> QED
      BY <1>1, <1>3, <2>1, StepRemoves DEF Mark
  <1>4. CASE MarkWrite(p)
    <2>1. pc[p] \in Drawn /\ MovesOn(p)
      BY <1>4, DrawnSteps DEF MarkWrite, MovesOn
    <2> QED
      BY <1>1, <1>4, <2>1, StepRemoves DEF MarkWrite
  <1>5. CASE RemoveLock(p)
    <2>1. pc[p] \in Drawn /\ MovesOn(p)
      BY <1>5, DrawnSteps DEF RemoveLock, MovesOn
    <2> QED
      BY <1>1, <1>5, <2>1, StepRemoves DEF RemoveLock
  <1>6. CASE Unmark(p)
    <2>1. pc[p] \in Drawn /\ MovesOn(p)
      BY <1>6, DrawnSteps DEF Unmark, MovesOn, Closed
    <2> QED
      BY <1>1, <1>6, <2>1, StepRemoves DEF Unmark
  <1>7. CASE ReadOwned(p)
    <2>1. pc[p] \in Drawn /\ MovesOn(p)
      BY <1>7, DrawnSteps DEF ReadOwned, MovesOn, Closed
    <2> QED
      BY <1>1, <1>7, <2>1, StepRemoves DEF ReadOwned
  <1>8. CASE Unown(p)
    <2>1. pc[p] \in Drawn /\ MovesOn(p)
      BY <1>8, DrawnSteps DEF Unown, MovesOn, Closed
    <2> QED
      BY <1>1, <1>8, <2>1, StepRemoves DEF Unown
  <1>9. CASE ReadPending(p)
    <2>1. pc[p] \in Drawn /\ MovesOn(p)
      BY <1>9, DrawnSteps DEF ReadPending, Released, MovesOn, Closed
    <2> QED
      BY <1>1, <1>9, <2>1, StepRemoves DEF ReadPending
  <1>10. CASE Unpend(p)
    <2>1. pc[p] \in Drawn /\ MovesOn(p)
      BY <1>10, DrawnSteps DEF Unpend, Released, MovesOn, Closed
    <2> QED
      BY <1>1, <1>10, <2>1, StepRemoves DEF Unpend
  <1> QED
    BY <1>2, <1>3, <1>4, <1>5, <1>6, <1>7, <1>8, <1>9, <1>10

\* A step that changes the evidence of one generation.
LEMMA StepRecords ==
  ASSUME LeaseInv, LeaseTypeOK', NEW p \in Process, pc[p] # "dead",
         issued' = issued, entry' = entry, MutationBy(p),
         \A r \in Process \ {p} : Kept(r),
         OwnGeneration(p)', Recovering(p)', Clearing(p)', MarkersKnown',
         NEW g \in DOMAIN issued,
         \A h \in Generation \ {g} : evidence'[h] = evidence[h],
         evidence[g] \cap {"released", "recovered"} \subseteq evidence'[g],
         "released" \in evidence'[g] =>
           "released" \in evidence[g] \/ (pc[p] = "record_release" /\ g = job[p].generation),
         "recovered" \in evidence'[g] => pc[issued[g]] = "dead"
  PROVE LeaseInv'
  <1>1. StepOf(p)
    BY DEF StepOf, IssuedStays, ClosingStays, ReleasedBy, EntryBy
  <1>2. EvidenceKnown'
    <2>1. ASSUME NEW h \in Generation
          PROVE /\ evidence'[h] # {} => h \in DOMAIN issued'
                /\ "recovered" \in evidence'[h] => pc'[issued'[h]] = "dead"
      <3>1. /\ evidence[h] # {} => h \in DOMAIN issued
            /\ "recovered" \in evidence'[h] => h \in DOMAIN issued /\ pc[issued[h]] = "dead"
        BY <2>1 DEF LeaseInv, EvidenceKnown
      <3>2. "recovered" \in evidence'[h] => issued[h] \in Process \ {p}
        BY <3>1, Drawns DEF LeaseInv
      <3> QED
        BY <3>1, <3>2 DEF Kept
    <2> QED
      BY <2>1 DEF EvidenceKnown
  <1>3. OwnersKnown'
    BY DEF LeaseInv, OwnersKnown
  <1> QED
    BY <1>1, <1>2, <1>3, Others

\* Evidence of an acquisition or of a release is written by the call that made it.
LEMMA EvidenceWritten ==
  ASSUME LeaseInv, NEW p \in Process, NEW x \in {"acquired", "released"},
         NEW s \in {"select", "undo_lock", "unmark"},
         pc[p] = IF x = "acquired" THEN "record" ELSE "record_release",
         x = "released" => s = "unmark", Goto(p, s),
         evidence' = [evidence EXCEPT ![job[p].generation] = @ \cup {x}],
         faults' \in 0 .. MaxFaults,
         UNCHANGED <<lock, release, pending, owned, prepared, entry, mutation, job, issued>>
  PROVE LeaseInv'
  <1> USE DEF LeaseInv
  <1> DEFINE g == job[p].generation
  <1>1. /\ pc[p] \in Drawn /\ pc[p] # "dead"
        /\ g \in DOMAIN issued /\ g \in Generation /\ issued[g] = p
        /\ "released" \notin evidence[g]
    BY Drawns, DrawnSteps DEF OwnGeneration
  <1>2. s \in Plain
    BY DrawnSteps DEF Closed
  <1>3. /\ pc' \in [Process -> Steps] /\ pc'[p] = s
        /\ \A r \in Process \ {p} : pc'[r] = pc[r]
    BY <1>2, DrawnSteps, Gone
  <1>4. /\ evidence' \in [Generation -> SUBSET Disposition]
        /\ evidence'[g] = evidence[g] \cup {x}
        /\ \A h \in Generation \ {g} : evidence'[h] = evidence[h]
    BY <1>1 DEF LeaseTypeOK, Disposition
  <1>5. LeaseTypeOK'
    BY <1>3, <1>4 DEF LeaseTypeOK
  <1>6. OwnGeneration(p)' /\ Recovering(p)' /\ Clearing(p)'
    <2>1. "unmark" \in Closed
      BY DEF Closed
    <2>2. pc'[p] \notin Closed => "released" \notin evidence'[g]
      BY <1>1, <1>3, <1>4, <2>1
    <2> QED
      BY <1>1, <1>2, <1>3, <2>2, Onward DEF Plain
  <1>7. MarkersKnown'
    BY MarkersLeft
  <1>8. "recovered" \notin evidence'[g]
    BY <1>1, <1>4 DEF EvidenceKnown
  <1>9. MutationBy(p) /\ \A r \in Process \ {p} : Kept(r)
    BY <1>3 DEF MutationBy, Kept
  <1>10. evidence[g] \cap {"released", "recovered"} \subseteq evidence'[g]
    BY <1>4
  <1>11. "released" \in evidence'[g] => pc[p] = "record_release" /\ g = job[p].generation
    BY <1>1, <1>4
  <1> HIDE DEF g
  <1> QED
    BY <1>1, <1>4, <1>5, <1>6, <1>7, <1>8, <1>9, <1>10, <1>11, StepRecords

LEMMA StepRecord ==
  ASSUME LeaseInv, NEW p \in Process, Record(p) \/ RecordRelease(p)
  PROVE LeaseInv'
  <1> USE DEF LeaseInv, files, counters
  <1>1. lock \in BOOLEAN /\ faults \in 0 .. MaxFaults
    BY DEF LeaseTypeOK
  <1>2. CASE RecordRelease(p)
    BY <1>1, <1>2, EvidenceWritten DEF RecordRelease
  <1>3. CASE Record(p) /\ lock
    BY <1>1, <1>3, EvidenceWritten DEF Record
  <1>4. CASE Record(p) /\ ~lock
    <2>1. pc[p] \in Drawn /\ MovesOn(p)
      BY <1>4, DrawnSteps DEF Record, MovesOn
    <2> QED
      BY <1>1, <1>4, <2>1, StepRemoves DEF Record
  <1> QED
    BY <1>2, <1>3, <1>4

LEMMA StepUndo ==
  ASSUME LeaseInv, NEW p \in Process, Undo(p)
  PROVE LeaseInv'
  <1> USE DEF LeaseInv, counters
  <1> DEFINE g == job[p].generation
  <1>1. pc[p] \in Drawn \ Closed /\ lock \in BOOLEAN /\ faults \in 0 .. MaxFaults
    BY DrawnSteps DEF Undo, LeaseTypeOK
  <1>2. CASE pc[p] # "undo_evidence"
    <2>1. MovesOn(p) /\ evidence' = evidence
      BY <1>1, <1>2, DrawnSteps DEF Undo, MovesOn
    <2> QED
      BY <1>1, <1>2, <2>1, StepRemoves DEF Undo
  <1>3. CASE pc[p] = "undo_evidence"
    <2>1. /\ evidence' = [evidence EXCEPT ![g] = {}] /\ Goto(p, "undo_owned")
          /\ UNCHANGED <<lock, release, pending, owned, prepared, entry, mutation, job,
                         issued, faults>>
      BY <1>3 DEF Undo
    <2>2. /\ pc' \in [Process -> Steps] /\ pc'[p] = "undo_owned"
          /\ \A r \in Process \ {p} : pc'[r] = pc[r]
      BY <2>1, DrawnSteps, Gone
    <2>3. /\ g \in DOMAIN issued /\ g \in Generation /\ issued[g] = p
          /\ "released" \notin evidence[g] /\ "recovered" \notin evidence[g]
      BY <1>1, <1>3, Drawns DEF OwnGeneration, EvidenceKnown
    <2>4. /\ evidence' \in [Generation -> SUBSET Disposition] /\ evidence'[g] = {}
          /\ \A h \in Generation \ {g} : evidence'[h] = evidence[h]
      BY <2>1, <2>3 DEF LeaseTypeOK
    <2>5. LeaseTypeOK'
      BY <2>1, <2>2, <2>4 DEF LeaseTypeOK
    <2>6. OwnGeneration(p)' /\ Recovering(p)' /\ Clearing(p)'
      BY <1>1, <2>1, <2>2, <2>4, DrawnSteps, Onward DEF Plain
    <2>7. MarkersKnown'
      BY <2>1, MarkersLeft
    <2>8. MutationBy(p) /\ \A r \in Process \ {p} : Kept(r)
      BY <2>1, <2>2 DEF MutationBy, Kept
    <2>9. evidence[g] \cap {"released", "recovered"} \subseteq evidence'[g]
      BY <2>3
    <2> HIDE DEF g
    <2> QED
      BY <1>3, <2>1, <2>3, <2>4, <2>5, <2>6, <2>7, <2>8, <2>9, StepRecords
  <1> QED
    BY <1>2, <1>3

\* A generation is drawn: there is no evidence of it yet.
LEMMA StepPrepare ==
  ASSUME LeaseInv, NEW p \in Process, Prepare(p)
  PROVE LeaseInv'
  <1> USE DEF LeaseInv
  <1>1. /\ pc[p] = "prepare" /\ job[p].queue \in Queue
        /\ UNCHANGED <<lock, release, pending, owned, evidence, entry, mutation, faults>>
    BY DEF Prepare, records, OwnGeneration
  <1>2. CASE Return(p) /\ UNCHANGED <<issued, prepared>>
    <2>1. /\ pc' \in [Process -> Steps] /\ pc'[p] = "idle"
          /\ \A r \in Process \ {p} : pc'[r] = pc[r]
          /\ job' \in [Process -> Job]
          /\ \A r \in Process \ {p} : job'[r] = job[r]
      BY <1>2, Returned
    <2>2. LeaseTypeOK'
      BY <1>1, <1>2, <2>1 DEF LeaseTypeOK
    <2>3. MarkersKnown'
      BY <1>1, <1>2, MarkersLeft
    <2> QED
      BY <1>1, <1>2, <2>1, <2>2, <2>3, Idle, PlainStep DEF Kept, MutationBy
  <1>3. CASE Len(issued) < MaxGeneration
    <2> DEFINE g == Len(issued) + 1
               call == [job[p] EXCEPT !.generation = g]
    <2>1. /\ issued' = Append(issued, p) /\ job' = [job EXCEPT ![p] = call]
          /\ prepared' = [prepared EXCEPT ![p] = Torn] /\ Goto(p, "write")
      BY <1>3, Bounds DEF Prepare
    <2>2. g \in Generation /\ g \notin DOMAIN issued /\ Len(issued) \in Nat
      BY <1>3, Drawns, Bounds DEF Generation
    <2>3. call \in Job /\ call.queue = job[p].queue /\ call.generation = g
      BY <2>2, Jobs DEF Job
    <2> HIDE DEF call
    <2>4. /\ job' \in [Process -> Job] /\ job'[p] = call
          /\ \A r \in Process \ {p} : job'[r] = job[r]
      BY <2>1, <2>3, JobSet
    <2>5. /\ pc' \in [Process -> Steps] /\ pc'[p] = "write"
          /\ \A r \in Process \ {p} : pc'[r] = pc[r]
      BY <2>1, DrawnSteps, Gone
    <2>6. /\ issued' \in Seq(Process) /\ Len(issued') = g /\ issued'[g] = p
          /\ DOMAIN issued' = 1 .. g /\ IssuedStays
      BY <2>1, <2>2 DEF LeaseTypeOK, IssuedStays
    <2>7. LeaseTypeOK'
      BY <1>1, <1>3, <2>1, <2>2, <2>4, <2>5, <2>6, Bounds DEF LeaseTypeOK
    <2>8. evidence[g] = {}
      BY <2>2 DEF EvidenceKnown
    <2>9. OwnGeneration(p)'
      BY <1>1, <2>2, <2>3, <2>4, <2>5, <2>6, <2>8 DEF OwnGeneration, Claiming
    <2>10. Recovering(p)' /\ Clearing(p)'
      BY <2>5 DEF Recovering, Clearing, Locked, WriteSteps, ReconcileSteps, UnboundSteps,
                  BoundSteps, LostSteps
    <2>11. MarkersKnown'
      <3>1. \A r \in Process : prepared'[r] \in {prepared[r], None, Torn}
        BY <2>1 DEF LeaseTypeOK
      <3>2. Known(None)
        BY DEF Known
      <3> QED
        BY <1>1, <2>6, <3>1, <3>2, MarkersFrom
    <2>12. EvidenceKnown'
      <3>1. ASSUME NEW h \in Generation
            PROVE /\ evidence'[h] # {} => h \in DOMAIN issued'
                  /\ "recovered" \in evidence'[h] => pc'[issued'[h]] = "dead"
        <4>1. /\ evidence[h] # {} => h \in DOMAIN issued
              /\ "recovered" \in evidence[h] => pc[issued[h]] = "dead"
          BY <3>1 DEF EvidenceKnown
        <4>2. "recovered" \in evidence[h] => issued[h] \in Process \ {p}
          BY <1>1, <4>1, Drawns
        <4> QED
          BY <1>1, <2>5, <2>6, <4>1, <4>2 DEF IssuedStays
      <3> QED
        BY <3>1 DEF EvidenceKnown
    <2>13. OwnersKnown'
      BY <1>1, <2>6 DEF OwnersKnown, IssuedStays
    <2>14. StepOf(p)
      BY <1>1, <2>4, <2>5, <2>6
      DEF StepOf, ClosingStays, ReleasedBy, MutationBy, EntryBy, Kept
    <2> QED
      BY <2>7, <2>9, <2>10, <2>11, <2>12, <2>13, <2>14, Others
  <1> QED
    BY <1>2, <1>3 DEF Prepare

-----------------------------------------------------------------------------
(* The entry.                                                              *)

EntryRecord == [state : EntryStates, owner : Generation \cup {None}, recovered : BOOLEAN]

LEMMA Written ==
  ASSUME LeaseTypeOK, NEW p \in Process, NEW q \in Queue, NEW value \in EntryRecord,
         NEW call \in Job, WriteEntry(p, q, value, call)
  PROVE /\ entry' \in [Queue -> EntryRecord] /\ entry'[q] = value
        /\ \A u \in Queue \ {q} : entry'[u] = entry[u]
        /\ job' \in [Process -> Job] /\ job'[p] = call
        /\ \A r \in Process \ {p} :
             /\ job'[r].queue = job[r].queue /\ job'[r].generation = job[r].generation
             /\ job'[r].outcome = job[r].outcome /\ job'[r].todo = job[r].todo
  <1>1. /\ entry' = [entry EXCEPT ![q] = value]
        /\ job' = [r \in Process |->
                     IF r = p THEN call
                     ELSE [job[r] EXCEPT !.fresh = @ /\ job[r].queue # q]]
    BY DEF WriteEntry
  <1>2. ASSUME NEW r \in Process
        PROVE /\ [job[r] EXCEPT !.fresh = @ /\ job[r].queue # q] \in Job
              /\ [job[r] EXCEPT !.fresh = @ /\ job[r].queue # q].queue = job[r].queue
              /\ [job[r] EXCEPT !.fresh = @ /\ job[r].queue # q].generation = job[r].generation
              /\ [job[r] EXCEPT !.fresh = @ /\ job[r].queue # q].outcome = job[r].outcome
              /\ [job[r] EXCEPT !.fresh = @ /\ job[r].queue # q].todo = job[r].todo
    <2> DEFINE old == job[r].fresh /\ job[r].queue # q
    <2>1. old \in BOOLEAN
      OBVIOUS
    <2> HIDE DEF old
    <2>2. /\ [job[r] EXCEPT !.fresh = old] \in Job
          /\ [job[r] EXCEPT !.fresh = old].queue = job[r].queue
          /\ [job[r] EXCEPT !.fresh = old].generation = job[r].generation
          /\ [job[r] EXCEPT !.fresh = old].outcome = job[r].outcome
          /\ [job[r] EXCEPT !.fresh = old].todo = job[r].todo
      BY <2>1, Jobs DEF Job
    <2> QED
      BY <2>2 DEF old
  <1>3. entry' \in [Queue -> EntryRecord] /\ entry'[q] = value
        /\ \A u \in Queue \ {q} : entry'[u] = entry[u]
    BY <1>1 DEF LeaseTypeOK, EntryRecord
  <1> QED
    BY <1>1, <1>2, <1>3

\* A step that writes an entry.
LEMMA StepEnters ==
  ASSUME LeaseInv, LeaseTypeOK', NEW p \in Process, pc[p] # "dead",
         issued' = issued, evidence' = evidence, MutationBy(p),
         \A r \in Process \ {p} : Kept(r),
         OwnGeneration(p)', Recovering(p)', Clearing(p)', MarkersKnown',
         NEW q \in Queue, \A u \in Queue \ {q} : entry'[u] = entry[u], EntryBy(p, q),
         entry'[q].owner \in {None, entry[q].owner} \cup DOMAIN issued
  PROVE LeaseInv'
  <1>1. StepOf(p)
    BY DEF StepOf, IssuedStays, ClosingStays, ReleasedBy, EntryBy
  <1>2. EvidenceKnown'
    <2>1. ASSUME NEW g \in Generation
          PROVE /\ evidence'[g] # {} => g \in DOMAIN issued'
                /\ "recovered" \in evidence'[g] => pc'[issued'[g]] = "dead"
      <3>1. /\ evidence[g] # {} => g \in DOMAIN issued
            /\ "recovered" \in evidence[g] => pc[issued[g]] = "dead"
        BY <2>1 DEF LeaseInv, EvidenceKnown
      <3>2. "recovered" \in evidence[g] => issued[g] \in Process \ {p}
        BY <3>1, Drawns DEF LeaseInv
      <3> QED
        BY <3>1, <3>2 DEF Kept
    <2> QED
      BY <2>1 DEF EvidenceKnown
  <1>3. OwnersKnown'
    BY DEF LeaseInv, OwnersKnown
  <1> QED
    BY <1>1, <1>2, <1>3, Others

\* A queue write under the mutation lock, whether or not the call hears of it.
LEMMA QueueWritten ==
  ASSUME LeaseInv, NEW p \in Process, NEW value \in EntryRecord, NEW call \in Job,
         pc[p] \in {"claim_write", "finish_write", "settle_write"},
         NEW s \in {"give_work", "give_mark", "give_idle"}, Goto(p, s),
         pc[p] = "settle_write" => s = "give_idle",
         s = "give_work" => value = Claimed(p),
         WriteEntry(p, job[p].queue, value, call),
         call.queue = job[p].queue, call.generation = job[p].generation,
         value.owner \in {None, job[p].generation},
         LET old == entry[job[p].queue].owner IN
           \/ old = None
           \/ pc[p] = "finish_write" /\ old = job[p].generation /\ value.owner = old
           \/ value.owner = None /\ evidence[old] \cap {"released", "recovered"} # {},
         faults' \in 0 .. MaxFaults,
         UNCHANGED <<lock, release, pending, owned, prepared, evidence, mutation, issued>>
  PROVE LeaseInv'
  <1> USE DEF LeaseInv
  <1> DEFINE q == job[p].queue
  <1>1. /\ pc[p] \in Drawn /\ pc[p] # "dead" /\ pc[p] \in WriteSteps /\ q \in Queue
        /\ job[p].generation \in DOMAIN issued
        /\ pc[p] \notin Closed => "released" \notin evidence[job[p].generation]
    BY DrawnSteps DEF OwnGeneration, WriteSteps
  <1>2. s \in Drawn /\ s \in WriteSteps /\ s \in Steps /\ (s \notin Closed => pc[p] \notin Closed)
    BY DrawnSteps DEF WriteSteps, Closed, Claiming
  <1>3. /\ entry' \in [Queue -> EntryRecord] /\ entry'[q] = value
        /\ \A u \in Queue \ {q} : entry'[u] = entry[u]
        /\ job' \in [Process -> Job] /\ job'[p] = call
        /\ \A r \in Process \ {p} :
             /\ job'[r].queue = job[r].queue /\ job'[r].generation = job[r].generation
             /\ job'[r].outcome = job[r].outcome /\ job'[r].todo = job[r].todo
    BY <1>1, Written
  <1>4. /\ pc' \in [Process -> Steps] /\ pc'[p] = s
        /\ \A r \in Process \ {p} : pc'[r] = pc[r]
    BY <1>2, Gone
  <1>5. mutation = p
    BY <1>1 DEF Recovering
  <1>6. LeaseTypeOK'
    BY <1>3, <1>4 DEF LeaseTypeOK, EntryRecord
  <1>7. OwnGeneration(p)'
    <2>1. Claimed(p)' = Claimed(p)
      BY <1>3 DEF Claimed
    <2>2. s \in Claiming => s = "give_work"
      BY DEF Claiming
    <2>3. issued[job[p].generation] = p
      BY <1>1 DEF OwnGeneration
    <2> QED
      BY <1>1, <1>2, <1>3, <1>4, <2>1, <2>2, <2>3 DEF OwnGeneration
  <1>8. Recovering(p)' /\ Clearing(p)'
    BY <1>4, <1>5 DEF Recovering, Clearing, Locked, ReconcileSteps, UnboundSteps, BoundSteps, LostSteps
  <1>9. MarkersKnown'
    BY MarkersLeft
  <1>10. MutationBy(p) /\ EntryBy(p, q) /\ \A r \in Process \ {p} : Kept(r)
    BY <1>1, <1>3, <1>4, <1>5 DEF MutationBy, EntryBy, Kept
  <1> HIDE DEF q
  <1> QED
    BY <1>1, <1>3, <1>6, <1>7, <1>8, <1>9, <1>10, StepEnters

\* A step that takes or gives back the mutation lock, or does not write under it.
LEMMA StepLocks ==
  ASSUME LeaseInv, NEW p \in Process, pc[p] \in Drawn, NEW s \in Drawn, Goto(p, s),
         pc[p] \in Closed => s \in Closed, s \in Claiming => pc[p] \in Claiming,
         s \in WriteSteps => mutation' = p,
         mutation' \in {mutation, None, p}, MutationBy(p),
         \/ job' = job \/ job' = [job EXCEPT ![p].settles = FALSE],
         faults' \in 0 .. MaxFaults,
         UNCHANGED <<lock, release, pending, owned, prepared, evidence, entry, issued>>
  PROVE LeaseInv'
  <1> USE DEF LeaseInv
  <1>1. /\ pc' \in [Process -> Steps] /\ pc'[p] = s
        /\ \A r \in Process \ {p} : pc'[r] = pc[r]
    BY DrawnSteps, Gone
  <1>2. /\ job' \in [Process -> Job]
        /\ job'[p].queue = job[p].queue /\ job'[p].generation = job[p].generation
        /\ \A r \in Process \ {p} : job'[r] = job[r]
    <2>1. CASE job' = job
      BY <2>1 DEF LeaseTypeOK
    <2>2. CASE job' = [job EXCEPT ![p].settles = FALSE]
      <3> DEFINE call == [job[p] EXCEPT !.settles = FALSE]
      <3>1. call \in Job /\ call.queue = job[p].queue /\ call.generation = job[p].generation
        BY Jobs DEF Job
      <3>2. job' = [job EXCEPT ![p] = call]
        BY <2>2
      <3> HIDE DEF call
      <3>3. job' \in [Process -> Job] /\ job'[p] = call
            /\ \A r \in Process \ {p} : job'[r] = job[r]
        BY <3>1, <3>2, JobSet
      <3> QED
        BY <3>1, <3>3
    <2> QED
      BY <2>1, <2>2
  <1>3. LeaseTypeOK'
    BY <1>1, <1>2 DEF LeaseTypeOK
  <1>4. OwnGeneration(p)'
    <2>1. Claimed(p)' = Claimed(p)
      BY <1>2 DEF Claimed
    <2>2. /\ job[p].queue \in Queue
          /\ job[p].generation \in DOMAIN issued /\ issued[job[p].generation] = p
          /\ pc[p] \notin Closed => "released" \notin evidence[job[p].generation]
          /\ pc[p] \in Claiming => entry[job[p].queue] = Claimed(p)
      BY DEF OwnGeneration, Drawn, HeldSteps, ReleaseSteps, UndoSteps
    <2> QED
      BY <1>1, <1>2, <2>1, <2>2 DEF OwnGeneration
  <1>5. Recovering(p)' /\ Clearing(p)'
    <2>1. s \notin Locked
      BY LockedSteps
    <2>2. /\ s \notin UnboundSteps /\ s \notin BoundSteps /\ s \notin LostSteps
          /\ s \notin {"rec_mark", "rec_rmdir", "rec_evidence"}
          /\ s \notin {"find", "read_ownership", "clear"}
      BY <2>1, LockedSteps DEF BoundSteps
    <2> QED
      BY <1>1, <2>1, <2>2 DEF Recovering, Clearing
  <1>6. MarkersKnown'
    BY MarkersLeft
  <1>7. pc[p] # "dead"
    BY DEF Drawn, HeldSteps, ReleaseSteps, UndoSteps
  <1> QED
    BY <1>1, <1>2, <1>3, <1>4, <1>5, <1>6, <1>7, PlainStep DEF Kept

\* A call that is over, and may have given back the mutation lock.
LEMMA StepReturns ==
  ASSUME LeaseInv, NEW p \in Process, pc[p] # "dead", Return(p),
         prepared' = prepared \/ prepared' = [prepared EXCEPT ![p] = None],
         mutation' \in {mutation, None}, MutationBy(p),
         faults' \in 0 .. MaxFaults,
         UNCHANGED <<lock, release, pending, owned, evidence, entry, issued>>
  PROVE LeaseInv'
  <1> USE DEF LeaseInv
  <1>1. /\ pc' \in [Process -> Steps] /\ pc'[p] = "idle"
        /\ \A r \in Process \ {p} : pc'[r] = pc[r]
        /\ job' \in [Process -> Job]
        /\ \A r \in Process \ {p} : job'[r] = job[r]
    BY Returned
  <1>2. LeaseTypeOK'
    BY <1>1 DEF LeaseTypeOK
  <1>3. MarkersKnown'
    <2>1. \A r \in Process : prepared'[r] \in {prepared[r], None, Torn}
      BY DEF LeaseTypeOK
    <2> QED
      BY <2>1, MarkersLeft
  <1> QED
    BY <1>1, <1>2, <1>3, Idle, PlainStep DEF Kept

LEMMA StepTakesQueue ==
  ASSUME LeaseInv, NEW p \in Process, TakeQueue(p)
  PROVE LeaseInv'
  <1> USE DEF LeaseInv
  <1>1. /\ pc[p] \in {"claim", "work", "settle"} /\ faults' \in 0 .. MaxFaults
        /\ pc[p] \in Drawn /\ pc[p] # "dead"
        /\ UNCHANGED <<lock, release, pending, owned, prepared, evidence, entry, issued>>
    BY DrawnSteps DEF TakeQueue, LeaseTypeOK, files, counters, Drawn, HeldSteps, ReleaseSteps
  <1>2. ASSUME mutation = None, mutation' = p, job' = job,
               NEW s \in {"claim_write", "finish_write", "settle_write"}, Goto(p, s),
               pc[p] = "settle" => s = "settle_write",
               s = "finish_write" => pc[p] = "work"
        PROVE LeaseInv'
    <2>1. s \in Drawn /\ (pc[p] \in Closed => s \in Closed) /\ (s \in Claiming => pc[p] \in Claiming)
      BY <1>1, <1>2, DrawnSteps DEF Closed, Claiming
    <2>2. MutationBy(p)
      BY <1>2 DEF MutationBy
    <2> QED
      BY <1>1, <1>2, <2>1, <2>2, StepLocks
  <1>3. ASSUME mutation' = mutation, Return(p)
        PROVE LeaseInv'
    BY <1>1, <1>3, StepReturns DEF MutationBy
  <1>4. ASSUME mutation' = mutation, pc[p] # "settle", Goto(p, "mark"), job' = job
        PROVE LeaseInv'
    <2>1. /\ "mark" \in Drawn /\ "mark" \notin Claiming /\ "mark" \notin WriteSteps
          /\ pc[p] \notin Closed
      BY <1>1, <1>4, DrawnSteps DEF Plain, Closed
    <2>2. MutationBy(p)
      BY <1>4 DEF MutationBy
    <2> QED
      BY <1>1, <1>4, <2>1, <2>2, StepLocks
  <1> QED
    BY <1>1, <1>2, <1>3, <1>4 DEF TakeQueue

\* The lock is given back or stays, and the call goes on or is over.
LEMMA Given ==
  ASSUME LeaseInv, NEW p \in Process, pc[p] \in {"give_work", "give_mark", "give_idle"},
         mutation' \in {mutation, None}, faults' \in 0 .. MaxFaults,
         UNCHANGED <<lock, release, pending, owned, prepared, evidence, entry, issued>>,
         \/ Return(p)
         \/ /\ pc[p] # "give_idle"
            /\ \/ Goto(p, "mark")
               \/ pc[p] = "give_work" /\ Goto(p, "work")
            /\ \/ job' = job \/ job' = [job EXCEPT ![p].settles = FALSE]
  PROVE LeaseInv'
  <1> USE DEF LeaseInv
  <1>1. pc[p] \in Drawn /\ pc[p] \in WriteSteps /\ pc[p] # "dead"
    BY DrawnSteps DEF WriteSteps, Closed, Claiming
  <1>2. mutation = p
    BY <1>1 DEF Recovering
  <1>3. MutationBy(p)
    BY <1>2 DEF MutationBy
  <1>4. CASE Return(p)
    BY <1>1, <1>3, <1>4, StepReturns
  <1>5. ASSUME NEW s \in {"mark", "work"}, Goto(p, s), s = "work" => pc[p] = "give_work",
               pc[p] # "give_idle", job' = job \/ job' = [job EXCEPT ![p].settles = FALSE]
        PROVE LeaseInv'
    <2>1. /\ s \in Drawn /\ pc[p] \notin Closed /\ s \notin WriteSteps
          /\ s \in Claiming => pc[p] \in Claiming
      BY <1>5, DrawnSteps DEF Claiming, Closed, WriteSteps
    <2> QED
      BY <1>1, <1>2, <1>3, <1>5, <2>1, StepLocks
  <1> QED
    BY <1>4, <1>5

LEMMA StepGivesQueue ==
  ASSUME LeaseInv, NEW p \in Process, GiveQueue(p)
  PROVE LeaseInv'
  <1>1. /\ pc[p] \in {"give_work", "give_mark", "give_idle"}
        /\ mutation' = None /\ faults' \in 0 .. MaxFaults
        /\ UNCHANGED <<lock, release, pending, owned, prepared, evidence, entry, issued>>
    BY DEF GiveQueue, LeaseInv, LeaseTypeOK, files, counters
  <1>2. \/ Return(p)
        \/ pc[p] = "give_work" /\ Goto(p, "work") /\ job' = job
        \/ pc[p] = "give_mark" /\ Goto(p, "mark") /\ job' = job
    BY <1>1 DEF GiveQueue
  <1> QED
    BY <1>1, <1>2, Given

\* A queue write is refused or fails, and nothing is written.
LEMMA StepUnwritten ==
  ASSUME LeaseInv, NEW p \in Process,
         pc[p] \in {"claim_write", "finish_write", "settle_write"},
         Goto(p, IF pc[p] = "settle_write" THEN "give_idle" ELSE "give_mark"),
         faults' \in 0 .. MaxFaults,
         UNCHANGED <<lock, release, pending, owned, prepared, evidence, entry, mutation, issued, job>>
  PROVE LeaseInv'
  <1> USE DEF LeaseInv
  <1> DEFINE s == IF pc[p] = "settle_write" THEN "give_idle" ELSE "give_mark"
  <1>1. /\ pc[p] \in Drawn /\ pc[p] \in WriteSteps
        /\ s \in Drawn /\ s \notin Claiming /\ (pc[p] \in Closed => s \in Closed)
    BY DrawnSteps DEF WriteSteps, Closed, Claiming
  <1>2. mutation = p
    BY <1>1 DEF Recovering
  <1>3. MutationBy(p)
    BY DEF MutationBy
  <1> QED
    BY <1>1, <1>2, <1>3, StepLocks

\* The three entries that a call writes.
LEMMA ClaimWritten ==
  ASSUME LeaseInv, NEW p \in Process, NEW s \in {"give_work", "give_mark"},
         pc[p] = "claim_write", ClaimAllowed(p), Goto(p, s), faults' \in 0 .. MaxFaults,
         WriteEntry(p, job[p].queue, Claimed(p), job[p]),
         UNCHANGED <<lock, release, pending, owned, prepared, evidence, mutation, issued>>
  PROVE LeaseInv'
  <1> USE DEF LeaseInv
  <1>1. job[p].generation \in Generation
    BY DrawnSteps, Drawns DEF OwnGeneration
  <1>2. Claimed(p) \in EntryRecord /\ Claimed(p).owner = job[p].generation
    BY <1>1 DEF Claimed, EntryRecord, EntryStates
  <1>3. job[p] \in Job /\ entry[job[p].queue].owner = None
    BY Jobs DEF ClaimAllowed
  <1> QED
    BY <1>2, <1>3, QueueWritten

LEMMA VerdictWritten ==
  ASSUME LeaseInv, NEW p \in Process, NEW v \in {"replan_required", "cancelled"},
         NEW told \in BOOLEAN,
         pc[p] = "finish_write", FinishAllowed(p), Goto(p, "give_mark"), faults' \in 0 .. MaxFaults,
         WriteEntry(p, job[p].queue, Verdict(p, v),
                    IF told THEN [job[p] EXCEPT !.settles = TRUE] ELSE job[p]),
         UNCHANGED <<lock, release, pending, owned, prepared, evidence, mutation, issued>>
  PROVE LeaseInv'
  <1> USE DEF LeaseInv
  <1> DEFINE call == IF told THEN [job[p] EXCEPT !.settles = TRUE] ELSE job[p]
             value == Verdict(p, v)
  <1>1. job[p].queue \in Queue /\ entry[job[p].queue].owner = job[p].generation
    BY DEF OwnGeneration, FinishAllowed
  <1>2. value \in EntryRecord /\ value.owner = job[p].generation
    <2>1. entry[job[p].queue] \in EntryRecord
      BY <1>1 DEF LeaseTypeOK, EntryRecord
    <2> QED
      BY <1>1, <2>1 DEF Verdict, EntryRecord, EntryStates
  <1>3. call \in Job /\ call.queue = job[p].queue /\ call.generation = job[p].generation
    <2>1. /\ [job[p] EXCEPT !.settles = TRUE] \in Job
          /\ [job[p] EXCEPT !.settles = TRUE].queue = job[p].queue
          /\ [job[p] EXCEPT !.settles = TRUE].generation = job[p].generation
      BY Jobs DEF Job
    <2> QED
      BY <2>1, Jobs
  <1>4. WriteEntry(p, job[p].queue, value, call)
    OBVIOUS
  <1> HIDE DEF call, value
  <1> QED
    BY <1>1, <1>2, <1>3, <1>4, QueueWritten

LEMMA SettlementWritten ==
  ASSUME LeaseInv, NEW p \in Process,
         pc[p] = "settle_write", SettleAllowed(p), Goto(p, "give_idle"),
         faults' \in 0 .. MaxFaults, WriteEntry(p, job[p].queue, Unowned(p), job[p]),
         UNCHANGED <<lock, release, pending, owned, prepared, evidence, mutation, issued>>
  PROVE LeaseInv'
  <1> USE DEF LeaseInv
  <1>1. job[p].queue \in Queue /\ job[p] \in Job
    BY Jobs DEF OwnGeneration
  <1>2. Unowned(p) \in EntryRecord /\ Unowned(p).owner = None
    BY <1>1 DEF LeaseTypeOK, EntryRecord, Unowned
  <1>3. evidence[entry[job[p].queue].owner] \cap {"released", "recovered"} # {}
    BY DEF SettleAllowed
  <1> HIDE DEF LeaseInv
  <1> QED
    BY <1>1, <1>2, <1>3, QueueWritten

LEMMA StepWrites ==
  ASSUME LeaseInv, NEW p \in Process, Claim(p) \/ Finish(p) \/ Settle(p)
  PROVE LeaseInv'
  <1> USE DEF counters, files
  <1>1. /\ faults' \in 0 .. MaxFaults
        /\ UNCHANGED <<lock, release, pending, owned, prepared, evidence, mutation, issued>>
    BY DEF Claim, Finish, Settle, LeaseInv, LeaseTypeOK
  <1>2. CASE Claim(p)
    BY <1>1, <1>2, ClaimWritten, StepUnwritten DEF Claim
  <1>3. CASE Finish(p)
    <2>1. pc[p] = "finish_write" /\ Goto(p, "give_mark")
      BY <1>3 DEF Finish
    <2>2. ASSUME FinishAllowed(p), NEW v \in {"replan_required", "cancelled"},
                 WriteEntry(p, job[p].queue, Verdict(p, v), [job[p] EXCEPT !.settles = TRUE])
          PROVE LeaseInv'
      BY <1>1, <2>1, <2>2, VerdictWritten
    <2> QED
      BY <1>1, <1>3, <2>1, <2>2, StepUnwritten DEF Finish
  <1>4. CASE Settle(p)
    BY <1>1, <1>4, SettlementWritten, StepUnwritten DEF Settle
  <1> QED
    BY <1>2, <1>3, <1>4

\* The start of a call, of an operation or of a reconciliation.
LEMMA StepStart ==
  ASSUME LeaseInv, NEW p \in Process, NEW q \in Queue, Start(p, q) \/ Inspect(p, q)
  PROVE LeaseInv'
  <1> USE DEF LeaseInv
  <1>1. /\ pc[p] = "idle"
        /\ UNCHANGED <<lock, release, pending, owned, prepared, evidence, entry, mutation,
                       issued, faults>>
    BY DEF Start, Inspect, files, records, counters
  <1>2. PICK s \in {"look_release", "reconcile"}, call \in Job :
          Goto(p, s) /\ job' = [job EXCEPT ![p] = call] /\ call.queue = q
    <2>1. /\ [job[p] EXCEPT !.queue = q, !.fresh = TRUE] \in Job
          /\ [job[p] EXCEPT !.queue = q, !.fresh = TRUE].queue = q
          /\ [job[p] EXCEPT !.queue = q] \in Job /\ [job[p] EXCEPT !.queue = q].queue = q
      BY Jobs DEF Job
    <2>2. CASE Start(p, q)
      <3>1. Goto(p, "look_release") /\ job' = [job EXCEPT ![p] = [job[p] EXCEPT !.queue = q, !.fresh = TRUE]]
        BY <2>2 DEF Start
      <3> QED
        BY <2>1, <3>1
    <2>3. CASE Inspect(p, q)
      <3>1. Goto(p, "reconcile") /\ job' = [job EXCEPT ![p] = [job[p] EXCEPT !.queue = q]]
        BY <2>3 DEF Inspect
      <3> QED
        BY <2>1, <3>1
    <2> QED
      BY <2>2, <2>3
  <1>3. /\ pc' \in [Process -> Steps] /\ pc'[p] = s
        /\ \A r \in Process \ {p} : pc'[r] = pc[r]
    BY <1>2, Gone DEF Steps, AcquireSteps, ReconcileSteps
  <1>4. /\ job' \in [Process -> Job] /\ job'[p].queue = q
        /\ \A r \in Process \ {p} : job'[r] = job[r]
    BY <1>2, JobSet
  <1>5. LeaseTypeOK'
    BY <1>1, <1>3, <1>4 DEF LeaseTypeOK
  <1>6. OwnGeneration(p)' /\ Recovering(p)' /\ Clearing(p)'
    <2>1. pc'[p] \notin Drawn /\ pc'[p] \notin Locked
      BY <1>2, <1>3 DEF Drawn, HeldSteps, ReleaseSteps, UndoSteps, Locked, ReconcileSteps
    <2> QED
      BY <1>2, <1>3, <1>4, <2>1, DrawnSteps
      DEF OwnGeneration, Recovering, Clearing, BoundSteps, LostSteps, UnboundSteps
  <1>7. MarkersKnown'
    BY <1>1, MarkersLeft
  <1> QED
    BY <1>1, <1>3, <1>4, <1>5, <1>6, <1>7, PlainStep DEF Kept, MutationBy

-----------------------------------------------------------------------------
(* The reconciliation.                                                     *)

\* It gives up, as it may at every step; a failed step may leave a torn intent.
LEMMA StepGivesUp ==
  ASSUME LeaseInv, NEW p \in Process, pc[p] \in Locked, GiveUp(p),
         release' \in {release, Torn}, faults' \in 0 .. MaxFaults,
         UNCHANGED <<lock, pending, owned, prepared, evidence, entry, issued>>
  PROVE LeaseInv'
  <1> USE DEF LeaseInv
  <1>1. /\ pc' \in [Process -> Steps] /\ pc'[p] = "idle"
        /\ \A r \in Process \ {p} : pc'[r] = pc[r]
        /\ job' \in [Process -> Job]
        /\ \A r \in Process \ {p} : job'[r] = job[r]
    BY Returned DEF GiveUp
  <1>2. LeaseTypeOK'
    BY <1>1 DEF LeaseTypeOK, GiveUp
  <1>3. MutationBy(p) /\ pc[p] # "dead"
    BY LockedSteps DEF Recovering, MutationBy
  <1>4. MarkersKnown'
    BY MarkersLeft
  <1> QED
    BY <1>1, <1>2, <1>3, <1>4, Idle, PlainStep DEF Kept

\* It goes on: the step moves files at most, and keeps the entry it works on.
LEMMA StepReconciles ==
  ASSUME LeaseInv, NEW p \in Process, pc[p] \in ReconcileSteps,
         pc' \in [Process -> Steps], pc'[p] \in ReconcileSteps,
         \A r \in Process \ {p} : pc'[r] = pc[r],
         job' \in [Process -> Job], job'[p].queue = job[p].queue,
         \A r \in Process \ {p} : job'[r] = job[r],
         FilesTypeOK', MarkersKnown', mutation' \in {mutation, p}, MutationBy(p),
         UNCHANGED <<evidence, entry, issued, faults>>,
         Recovering(p)', Clearing(p)'
  PROVE LeaseInv'
  <1> USE DEF LeaseInv
  <1>1. LeaseTypeOK'
    BY DEF LeaseTypeOK, FilesTypeOK
  <1>2. /\ pc[p] \notin {"idle", "dead"} /\ pc'[p] \notin Drawn /\ pc'[p] \notin Claiming
    BY DEF ReconcileSteps, Drawn, HeldSteps, ReleaseSteps, UndoSteps, Claiming
  <1>3. OwnGeneration(p)'
    BY <1>2 DEF OwnGeneration
  <1> QED
    BY <1>1, <1>2, <1>3, PlainStep DEF Kept

LEMMA FilesStay ==
  ASSUME LeaseInv, lock' \in BOOLEAN, release' \in Generation \cup {None, Torn},
         UNCHANGED <<pending, owned, prepared, issued>>
  PROVE FilesTypeOK' /\ MarkersKnown'
  BY MarkersLeft DEF LeaseInv, LeaseTypeOK, FilesTypeOK

LEMMA StepReconcile ==
  ASSUME LeaseInv, NEW p \in Process, Reconcile(p)
  PROVE LeaseInv'
  <1> USE DEF LeaseInv
  <1> DEFINE q == job[p].queue
             marked == IF pending = None THEN {} ELSE {"pending"}
             call == [job[p] EXCEPT !.found = marked, !.generation = entry[q].owner,
                                    !.todo = <<"lock", "owned", "release">>]
  <1>1. /\ pc[p] = "reconcile" /\ q \in Queue
        /\ UNCHANGED <<lock, release, pending, owned, prepared, evidence, entry, issued, faults>>
    BY DEF Reconcile, files, counters, OwnGeneration, ReconcileSteps
  <1>2. FilesTypeOK' /\ MarkersKnown'
    BY <1>1, FilesStay DEF LeaseTypeOK
  <1>3. CASE Return(p) /\ UNCHANGED mutation
    <2>1. /\ pc' \in [Process -> Steps] /\ pc'[p] = "idle"
          /\ \A r \in Process \ {p} : pc'[r] = pc[r]
          /\ job' \in [Process -> Job]
          /\ \A r \in Process \ {p} : job'[r] = job[r]
      BY <1>3, Returned
    <2>2. LeaseTypeOK'
      BY <1>1, <1>3, <2>1 DEF LeaseTypeOK
    <2> QED
      BY <1>1, <1>2, <1>3, <2>1, <2>2, Idle, PlainStep DEF Kept, MutationBy
  <1>4. CASE /\ mutation = None /\ mutation' = p /\ entry[q].owner = None
             /\ Goto(p, "adopt") /\ UNCHANGED job
    <2>1. /\ pc' \in [Process -> Steps] /\ pc'[p] = "adopt"
          /\ \A r \in Process \ {p} : pc'[r] = pc[r]
      BY <1>4, Gone DEF Steps, ReconcileSteps
    <2>2. Recovering(p)' /\ Clearing(p)'
      BY <1>1, <1>4, <2>1 DEF Recovering, Clearing, UnboundSteps, BoundSteps, LostSteps
    <2>3. job' \in [Process -> Job] /\ \A r \in Process : job'[r] = job[r]
      BY <1>4 DEF LeaseTypeOK
    <2> QED
      BY <1>1, <1>2, <1>4, <2>1, <2>2, <2>3, StepReconciles DEF MutationBy, ReconcileSteps
  <1>5. CASE /\ mutation = None /\ mutation' = p /\ entry[q].owner # None
             /\ Goto(p, "find") /\ job' = [job EXCEPT ![p] = call]
    <2>1. /\ pc' \in [Process -> Steps] /\ pc'[p] = "find"
          /\ \A r \in Process \ {p} : pc'[r] = pc[r]
      BY <1>5, Gone DEF Steps, ReconcileSteps
    <2>2. entry[q].owner \in DOMAIN issued /\ entry[q].owner \in Generation
      BY <1>1, <1>5, Drawns DEF OwnersKnown
    <2>3. /\ call \in Job /\ call.queue = q /\ call.generation = entry[q].owner
          /\ call.todo # <<>>
      <3>1. <<"lock", "owned", "release">> \in Seq(Parts) /\ <<"lock", "owned", "release">> # <<>>
        BY DEF Parts
      <3>2. marked \in SUBSET Parts
        BY DEF Parts
      <3> HIDE DEF marked
      <3>3. PICK order \in Seq(Parts) : order = <<"lock", "owned", "release">> /\ order # <<>>
        BY <3>1
      <3>4. call = [job[p] EXCEPT !.found = marked, !.generation = entry[q].owner, !.todo = order]
        BY <3>3
      <3> HIDE DEF call
      <3> QED
        BY <2>2, <3>2, <3>3, <3>4, Jobs DEF Job
    <2> HIDE DEF call
    <2>4. /\ job' \in [Process -> Job] /\ job'[p] = call
          /\ \A r \in Process \ {p} : job'[r] = job[r]
      BY <1>5, <2>3, JobSet
    <2>5. Recovering(p)' /\ Clearing(p)'
      BY <1>1, <1>5, <2>1, <2>2, <2>3, <2>4
      DEF Recovering, Clearing, UnboundSteps, BoundSteps, LostSteps
    <2> QED
      BY <1>1, <1>2, <1>5, <2>1, <2>3, <2>4, <2>5, StepReconciles DEF MutationBy, ReconcileSteps
  <1>6. job' = [job EXCEPT ![p].found = marked, ![p].generation = entry[q].owner,
                           ![p].todo = <<"lock", "owned", "release">>]
          => job' = [job EXCEPT ![p] = call]
    OBVIOUS
  <1> QED
    BY <1>3, <1>4, <1>5, <1>6 DEF Reconcile

\* An acquisition without owner: published if it has to be, and its process gone.
LEMMA StepAdopt ==
  ASSUME LeaseInv, NEW p \in Process, Adopt(p)
  PROVE LeaseInv'
  <1> USE DEF LeaseInv
  <1> DEFINE call == [job[p] EXCEPT !.found = IF Prepared = {} THEN {} ELSE {"prepared"}]
  <1>1. /\ pc[p] = "adopt" /\ pc[p] \in Locked /\ pc[p] \in ReconcileSteps /\ mutation = p
        /\ entry[job[p].queue].owner = None
        /\ UNCHANGED <<lock, release, owned, prepared, evidence, entry, issued, faults>>
    BY DEF Adopt, counters, Recovering, Locked, ReconcileSteps, UnboundSteps
  <1>2. CASE /\ AdoptionAllowed(p) /\ UNCHANGED mutation /\ Goto(p, "check")
             /\ pending' \in {pending} \cup {prepared[r] : r \in Prepared}
             /\ job' = [job EXCEPT ![p] = call]
    <2>1. PICK m \in Marker \cup {None} : pending' \in {pending, None, m} /\ Known(m)
      <3>1. CASE pending' = pending
        <4>1. Known(None)
          BY DEF Known
        <4> QED
          BY <3>1, <4>1
      <3>2. ASSUME NEW r \in Prepared, pending' = prepared[r]
            PROVE prepared[r] \in Marker /\ Known(prepared[r])
        BY <1>2, <3>2 DEF Prepared, AdoptionAllowed, LeaseTypeOK, MarkersKnown
      <3> QED
        BY <1>2, <3>1, <3>2
    <2>2. FilesTypeOK'
      BY <1>1, <2>1 DEF LeaseTypeOK, FilesTypeOK
    <2>3. IssuedStays
      BY <1>1 DEF IssuedStays
    <2>4. MarkersKnown'
      BY <1>1, <2>1, <2>3, MarkersFrom
    <2>5. /\ pc' \in [Process -> Steps] /\ pc'[p] = "check"
          /\ \A r \in Process \ {p} : pc'[r] = pc[r]
      BY <1>2, Gone DEF Steps, ReconcileSteps
    <2>6. call \in Job /\ call.queue = job[p].queue
      <3>1. (IF Prepared = {} THEN {} ELSE {"prepared"}) \in SUBSET Parts
        BY DEF Parts
      <3> QED
        BY <3>1, Jobs DEF Job
    <2> HIDE DEF call
    <2>7. /\ job' \in [Process -> Job] /\ job'[p] = call
          /\ \A r \in Process \ {p} : job'[r] = job[r]
      BY <1>2, <2>6, JobSet
    <2>8. Recovering(p)' /\ Clearing(p)'
      BY <1>1, <1>2, <2>5, <2>6, <2>7 DEF Recovering, Clearing, BoundSteps, LostSteps
    <2> QED
      BY <1>1, <1>2, <2>2, <2>4, <2>5, <2>6, <2>7, <2>8, StepReconciles
      DEF MutationBy, ReconcileSteps
  <1>3. CASE GiveUp(p) /\ UNCHANGED pending
    <2>1. faults' \in 0 .. MaxFaults
      BY <1>1 DEF LeaseTypeOK
    <2> QED
      BY <1>1, <1>3, <2>1, StepGivesUp
  <1>4. job' = [job EXCEPT ![p].found = IF Prepared = {} THEN {} ELSE {"prepared"}]
          => job' = [job EXCEPT ![p] = call]
    OBVIOUS
  <1> QED
    BY <1>2, <1>3, <1>4 DEF Adopt

LEMMA StepCheckUnbound ==
  ASSUME LeaseInv, NEW p \in Process, CheckUnbound(p)
  PROVE LeaseInv'
  <1> USE DEF LeaseInv
  <1> DEFINE call == [job[p] EXCEPT !.generation = pending.generation]
  <1>1. /\ pc[p] = "check" /\ pc[p] \in Locked /\ pc[p] \in ReconcileSteps /\ mutation = p
        /\ entry[job[p].queue].owner = None
        /\ UNCHANGED <<lock, release, pending, owned, prepared, evidence, entry, issued, faults>>
    BY DEF CheckUnbound, files, counters, Recovering, Locked, ReconcileSteps, UnboundSteps
  <1>2. FilesTypeOK' /\ MarkersKnown'
    BY <1>1, FilesStay DEF LeaseTypeOK
  <1>3. CASE /\ UnboundIsLost(p) /\ UNCHANGED mutation /\ Goto(p, "rec_mark")
             /\ job' = [job EXCEPT ![p] = call]
    <2>1. pending \in Marker /\ pending # Torn
      BY <1>3, Constants DEF UnboundIsLost, LeaseTypeOK
    <2>2. /\ pending.generation \in DOMAIN issued /\ pending.generation \in Generation
          /\ pc[issued[pending.generation]] = "dead"
      BY <1>3, <2>1, Drawns DEF UnboundIsLost, Absent, MarkersKnown, Known
    <2>3. issued[pending.generation] \in Process \ {p}
      BY <1>1, <2>2, Drawns
    <2>4. call \in Job /\ call.queue = job[p].queue /\ call.generation = pending.generation
      BY <2>2, Jobs DEF Job
    <2> HIDE DEF call
    <2>5. /\ pc' \in [Process -> Steps] /\ pc'[p] = "rec_mark"
          /\ \A r \in Process \ {p} : pc'[r] = pc[r]
      BY <1>3, Gone DEF Steps, ReconcileSteps
    <2>6. /\ job' \in [Process -> Job] /\ job'[p] = call
          /\ \A r \in Process \ {p} : job'[r] = job[r]
      BY <1>3, <2>4, JobSet
    <2>7. Recovering(p)' /\ Clearing(p)'
      BY <1>1, <1>3, <2>2, <2>3, <2>4, <2>5, <2>6 DEF Recovering, Clearing, BoundSteps, LostSteps
    <2> QED
      BY <1>1, <1>2, <1>3, <2>4, <2>5, <2>6, <2>7, StepReconciles DEF MutationBy, ReconcileSteps
  <1>4. CASE GiveUp(p)
    <2>1. faults' \in 0 .. MaxFaults
      BY <1>1 DEF LeaseTypeOK
    <2> QED
      BY <1>1, <1>4, <2>1, StepGivesUp
  <1>5. job' = [job EXCEPT ![p].generation = pending.generation]
          => job' = [job EXCEPT ![p] = call]
    OBVIOUS
  <1> QED
    BY <1>3, <1>4, <1>5 DEF CheckUnbound

\* The intent and the lock of a lease whose process is gone.
LEMMA StepTakesBack ==
  ASSUME LeaseInv, NEW p \in Process,
         MarkUnbound(p) \/ RemoveLockUnbound(p) \/ MarkLost(p) \/ RemoveLockLost(p)
  PROVE LeaseInv'
  <1> USE DEF LeaseInv, files, records, counters
  <1> DEFINE g == job[p].generation
  <1>1. /\ pc[p] \in {"rec_mark", "rec_rmdir", "lost_mark", "lost_rmdir"}
        /\ pc[p] \in Locked /\ pc[p] \in ReconcileSteps
        /\ UNCHANGED <<pending, owned, prepared, evidence, entry, issued, faults>>
        /\ lock \in BOOLEAN /\ release \in Generation \cup {None, Torn}
        /\ faults' \in 0 .. MaxFaults
    BY DEF MarkUnbound, RemoveLockUnbound, MarkLost, RemoveLockLost, Locked, ReconcileSteps,
           LeaseTypeOK
  <1>2. /\ mutation = p /\ g \in DOMAIN issued /\ g \in Generation
        /\ pc[issued[g]] = "dead" /\ issued[g] \in Process \ {p}
        /\ pc[p] \in {"rec_mark", "rec_rmdir"} => entry[job[p].queue].owner = None
        /\ pc[p] \in {"lost_mark", "lost_rmdir"} => entry[job[p].queue].owner = g
    <2>1. mutation = p /\ g \in DOMAIN issued /\ pc[issued[g]] = "dead"
      BY <1>1 DEF Recovering, BoundSteps, LostSteps
    <2>2. /\ pc[p] \in {"rec_mark", "rec_rmdir"} => entry[job[p].queue].owner = None
          /\ pc[p] \in {"lost_mark", "lost_rmdir"} => entry[job[p].queue].owner = g
      BY DEF Recovering, BoundSteps, LostSteps, UnboundSteps
    <2> QED
      BY <1>1, <2>1, <2>2, Drawns
  <1>3. CASE GiveUp(p)
    <2>1. UNCHANGED <<lock, release>>
      BY <1>1, <1>3 DEF MarkUnbound, RemoveLockUnbound, MarkLost, RemoveLockLost,
                        GiveUp, Return, Goto, LeaseTypeOK
    <2> QED
      BY <1>1, <1>3, <2>1, StepGivesUp
  <1>4. ASSUME NEW s \in {"rec_rmdir", "rec_evidence", "lost_rmdir", "lost_evidence"},
               Goto(p, s), UNCHANGED <<job, mutation>>,
               lock' \in {lock, FALSE}, release' \in {release, g},
               /\ s \in {"rec_rmdir", "rec_evidence"} => pc[p] \in {"rec_mark", "rec_rmdir"}
               /\ s \in {"lost_rmdir", "lost_evidence"} => pc[p] \in {"lost_mark", "lost_rmdir"}
        PROVE LeaseInv'
    <2>1. /\ pc' \in [Process -> Steps] /\ pc'[p] = s
          /\ \A r \in Process \ {p} : pc'[r] = pc[r]
      BY <1>4, Gone DEF Steps, ReconcileSteps
    <2>2. FilesTypeOK' /\ MarkersKnown'
      BY <1>1, <1>2, <1>4, FilesStay
    <2>3. job' \in [Process -> Job] /\ \A r \in Process : job'[r] = job[r]
      BY <1>4 DEF LeaseTypeOK
    <2>4. Recovering(p)' /\ Clearing(p)'
      BY <1>1, <1>2, <1>4, <2>1 DEF Recovering, Clearing, UnboundSteps, BoundSteps, LostSteps
    <2> QED
      BY <1>1, <1>4, <2>1, <2>2, <2>3, <2>4, StepReconciles DEF MutationBy, ReconcileSteps
  <1>5. CASE MarkUnbound(p)
    BY <1>3, <1>4, <1>5 DEF MarkUnbound
  <1>6. CASE RemoveLockUnbound(p)
    BY <1>4, <1>6 DEF RemoveLockUnbound
  <1>7. CASE MarkLost(p)
    BY <1>3, <1>4, <1>7 DEF MarkLost
  <1>8. CASE RemoveLockLost(p)
    BY <1>3, <1>4, <1>8 DEF RemoveLockLost
  <1> QED
    BY <1>5, <1>6, <1>7, <1>8

\* The evidence of a recovery, under the lock and for a process that is gone.
LEMMA StepCloses ==
  ASSUME LeaseInv, NEW p \in Process, pc[p] \in {"rec_evidence", "lost_evidence"},
         pc' \in [Process -> Steps], pc'[p] \in {"idle", "clear"},
         \A r \in Process \ {p} : pc'[r] = pc[r],
         job' \in [Process -> Job], \A r \in Process \ {p} : job'[r] = job[r],
         pc'[p] = "clear" => job'[p].queue = job[p].queue /\ Clearing(p)' /\ mutation' = p,
         mutation' \in {None, p},
         \/ evidence' = evidence
         \/ evidence' = [evidence EXCEPT ![job[p].generation] = @ \cup {"recovered"}],
         UNCHANGED <<lock, release, pending, owned, prepared, entry, issued, faults>>
  PROVE LeaseInv'
  <1> USE DEF LeaseInv
  <1> DEFINE g == job[p].generation
  <1>1. /\ mutation = p /\ g \in DOMAIN issued /\ g \in Generation
        /\ pc[issued[g]] = "dead" /\ job[p].queue \in Queue
    <2>1. mutation = p /\ g \in DOMAIN issued /\ pc[issued[g]] = "dead"
      BY DEF Recovering, BoundSteps, LostSteps, Locked, ReconcileSteps
    <2>2. job[p].queue \in Queue
      BY DEF OwnGeneration
    <2> QED
      BY <2>1, <2>2, Drawns
  <1>2. /\ evidence' \in [Generation -> SUBSET Disposition]
        /\ evidence'[g] \in {evidence[g], evidence[g] \cup {"recovered"}}
        /\ \A h \in Generation \ {g} : evidence'[h] = evidence[h]
    BY <1>1 DEF LeaseTypeOK, Disposition
  <1>3. LeaseTypeOK'
    BY <1>2 DEF LeaseTypeOK
  <1>4. MutationBy(p) /\ \A r \in Process \ {p} : Kept(r)
    BY <1>1 DEF MutationBy, Kept
  <1>5. MarkersKnown'
    BY MarkersLeft
  <1>6. OwnGeneration(p)' /\ Recovering(p)' /\ Clearing(p)'
    <2>1. CASE pc'[p] = "idle"
      BY <2>1, Idle
    <2>2. CASE pc'[p] = "clear"
      <3>1. OwnGeneration(p)'
        BY <1>1, <2>2 DEF OwnGeneration, Drawn, HeldSteps, ReleaseSteps, UndoSteps, Claiming
      <3>2. Recovering(p)'
        BY <2>2 DEF Recovering, UnboundSteps, BoundSteps, LostSteps
      <3> QED
        BY <2>2, <3>1, <3>2
    <2> QED
      BY <2>1, <2>2
  <1>7. /\ evidence[g] \cap {"released", "recovered"} \subseteq evidence'[g]
        /\ "released" \in evidence'[g] => "released" \in evidence[g]
    BY <1>2
  <1>8. pc[p] # "dead"
    OBVIOUS
  <1> HIDE DEF g
  <1> QED
    BY <1>1, <1>2, <1>3, <1>4, <1>5, <1>6, <1>7, <1>8, StepRecords

\* The work that is left for a lost owner, and for an unbound acquisition.
LEMMA Orders ==
  /\ <<"release", "owned", "prepared", "entry", "pending">> \in Seq(Parts)
  /\ \A s \in {<<"release", "pending", "owned", "entry">>,
               <<"release", "owned", "pending", "entry">>,
               <<"pending", "owned", "entry">>} :
       s \in Seq(Parts) /\ EntryLast(s) /\ s # <<>>
  /\ <<>> \in Seq(Parts) /\ EntryLast(<<>>)
  <1>1. /\ <<"release", "owned", "prepared", "entry", "pending">> \in Seq(Parts)
        /\ <<"release", "pending", "owned", "entry">> \in Seq(Parts)
        /\ <<"release", "owned", "pending", "entry">> \in Seq(Parts)
        /\ <<"pending", "owned", "entry">> \in Seq(Parts)
        /\ <<>> \in Seq(Parts)
    BY DEF Parts
  <1>2. EntryLast(<<"release", "pending", "owned", "entry">>)
    BY DEF EntryLast
  <1>3. EntryLast(<<"release", "owned", "pending", "entry">>)
    BY DEF EntryLast
  <1>4. EntryLast(<<"pending", "owned", "entry">>)
    BY DEF EntryLast
  <1>5. EntryLast(<<>>)
    BY DEF EntryLast
  <1>6. \A s \in {<<"release", "pending", "owned", "entry">>,
               <<"release", "owned", "pending", "entry">>,
               <<"pending", "owned", "entry">>} : s # <<>>
    OBVIOUS
  <1> QED
    BY <1>1, <1>2, <1>3, <1>4, <1>5, <1>6

\* What a reconciliation that goes on to clear remembers.
LEMMA JobFound ==
  ASSUME LeaseTypeOK, NEW p \in Process,
         NEW outcome \in {"observe", "unbound", "released", "lost"},
         NEW found \in SUBSET Parts, NEW todo \in Seq(Parts),
         job' = [job EXCEPT ![p].outcome = outcome, ![p].found = found, ![p].todo = todo]
  PROVE /\ job' \in [Process -> Job]
        /\ job'[p].queue = job[p].queue /\ job'[p].generation = job[p].generation
        /\ job'[p].outcome = outcome /\ job'[p].todo = todo
        /\ \A r \in Process \ {p} : job'[r] = job[r]
  <1> DEFINE call == [job[p] EXCEPT !.outcome = outcome, !.found = found, !.todo = todo]
  <1>1. /\ call \in Job /\ call.queue = job[p].queue /\ call.generation = job[p].generation
        /\ call.outcome = outcome /\ call.todo = todo
    BY Jobs DEF Job
  <1>2. job' = [job EXCEPT ![p] = call]
    OBVIOUS
  <1> HIDE DEF call
  <1>3. job' \in [Process -> Job] /\ job'[p] = call /\ \A r \in Process \ {p} : job'[r] = job[r]
    BY <1>1, <1>2, JobSet
  <1> QED
    BY <1>1, <1>3

LEMMA StepRecordUnbound ==
  ASSUME LeaseInv, NEW p \in Process, RecordUnbound(p)
  PROVE LeaseInv'
  <1> USE DEF LeaseInv
  <1> DEFINE found == job[p].found \cup {"release", "pending"}
             todo == <<"release", "owned", "prepared", "entry", "pending">>
  <1>1. /\ pc[p] = "rec_evidence" /\ pc[p] \in Locked /\ mutation = p
        /\ entry[job[p].queue].owner = None
        /\ UNCHANGED <<lock, release, pending, owned, prepared, entry, issued, faults>>
    BY DEF RecordUnbound, files, counters, Recovering, Locked, ReconcileSteps, UnboundSteps
  <1>2. CASE GiveUp(p) /\ UNCHANGED evidence
    <2>1. faults' \in 0 .. MaxFaults
      BY <1>1 DEF LeaseTypeOK
    <2> QED
      BY <1>1, <1>2, <2>1, StepGivesUp
  <1>3. CASE /\ Goto(p, "clear") /\ UNCHANGED mutation
             /\ job' = [job EXCEPT ![p].outcome = "unbound", ![p].found = found, ![p].todo = todo]
             /\ evidence' \in {evidence,
                  [evidence EXCEPT ![job[p].generation] = @ \cup {"recovered"}]}
    <2>1. /\ pc' \in [Process -> Steps] /\ pc'[p] = "clear"
          /\ \A r \in Process \ {p} : pc'[r] = pc[r]
      BY <1>3, Gone DEF Steps, ReconcileSteps
    <2>2. found \in SUBSET Parts /\ todo \in Seq(Parts)
      BY Jobs, Orders DEF Parts
    <2> HIDE DEF found, todo
    <2>3. /\ job' \in [Process -> Job] /\ job'[p].queue = job[p].queue
          /\ job'[p].outcome = "unbound"
          /\ \A r \in Process \ {p} : job'[r] = job[r]
      BY <1>3, <2>2, JobFound
    <2>4. Clearing(p)'
      BY <1>1, <2>1, <2>3 DEF Clearing
    <2> QED
      BY <1>1, <1>3, <2>1, <2>3, <2>4, StepCloses
  <1>4. job' = [job EXCEPT
             ![p].outcome = "unbound",
             ![p].found = @ \cup {"release", "pending"},
             ![p].todo = <<"release", "owned", "prepared", "entry", "pending">>]
          => job' = [job EXCEPT ![p].outcome = "unbound", ![p].found = found, ![p].todo = todo]
    OBVIOUS
  <1> QED
    BY <1>2, <1>3, <1>4 DEF RecordUnbound

LEMMA StepRecordLost ==
  ASSUME LeaseInv, NEW p \in Process, RecordLost(p)
  PROVE LeaseInv'
  <1> USE DEF LeaseInv
  <1> DEFINE g == job[p].generation
             found == job[p].found \cup {"release"}
             todo == <<"release", "pending", "owned", "entry">>
  <1>1. /\ pc[p] = "lost_evidence" /\ pc[p] \in Locked /\ mutation = p
        /\ entry[job[p].queue].owner = g /\ g \in DOMAIN issued /\ g \in Generation
        /\ UNCHANGED <<lock, release, pending, owned, prepared, entry, issued, faults>>
        /\ evidence' = [evidence EXCEPT ![g] = @ \cup {"recovered"}]
    BY Drawns DEF RecordLost, files, counters, Recovering, Locked, ReconcileSteps,
                  BoundSteps, LostSteps
  <1>2. CASE GiveUp(p)
    <2>1. /\ pc' \in [Process -> Steps] /\ pc'[p] = "idle" /\ mutation' = None
          /\ \A r \in Process \ {p} : pc'[r] = pc[r]
          /\ job' \in [Process -> Job]
          /\ \A r \in Process \ {p} : job'[r] = job[r]
      BY <1>2, Returned DEF GiveUp
    <2> QED
      BY <1>1, <2>1, StepCloses
  <1>3. CASE /\ Goto(p, "clear") /\ UNCHANGED mutation
             /\ job' = [job EXCEPT ![p].outcome = "lost", ![p].found = found, ![p].todo = todo]
    <2>1. /\ pc' \in [Process -> Steps] /\ pc'[p] = "clear"
          /\ \A r \in Process \ {p} : pc'[r] = pc[r]
      BY <1>3, Gone DEF Steps, ReconcileSteps
    <2>2. found \in SUBSET Parts /\ todo \in Seq(Parts) /\ EntryLast(todo)
      BY Jobs, Orders DEF Parts
    <2> HIDE DEF found, todo
    <2>3. /\ job' \in [Process -> Job] /\ job'[p].queue = job[p].queue
          /\ job'[p].outcome = "lost" /\ job'[p].generation = job[p].generation
          /\ job'[p].todo = todo
          /\ \A r \in Process \ {p} : job'[r] = job[r]
      <3>1. PICK seen \in SUBSET Parts, order \in Seq(Parts) :
              seen = found /\ order = todo
        BY <2>2
      <3>2. job' = [job EXCEPT ![p].outcome = "lost", ![p].found = seen, ![p].todo = order]
        BY <1>3, <3>1
      <3>3. /\ job' \in [Process -> Job]
            /\ job'[p].queue = job[p].queue /\ job'[p].generation = job[p].generation
            /\ job'[p].outcome = "lost" /\ job'[p].todo = order
            /\ \A r \in Process \ {p} : job'[r] = job[r]
        BY ONLY LeaseTypeOK, <3>2, JobFound
      <3> QED
        BY <3>1, <3>3
    <2>4. "recovered" \in evidence'[g]
      BY <1>1 DEF LeaseTypeOK
    <2>5. Clearing(p)'
      BY <1>1, <2>1, <2>2, <2>3, <2>4 DEF Clearing
    <2> QED
      BY <1>1, <1>3, <2>1, <2>3, <2>5, StepCloses
  <1>4. job' = [job EXCEPT ![p].outcome = "lost", ![p].found = @ \cup {"release"},
                           ![p].todo = <<"release", "pending", "owned", "entry">>]
          => job' = [job EXCEPT ![p].outcome = "lost", ![p].found = found, ![p].todo = todo]
    OBVIOUS
  <1> QED
    BY <1>2, <1>3, <1>4 DEF RecordLost

\* The files of an entry with an owner, and what they say.
LEMMA StepFind ==
  ASSUME LeaseInv, NEW p \in Process, Find(p)
  PROVE LeaseInv'
  <1> USE DEF LeaseInv
  <1>1. /\ pc[p] = "find" /\ pc[p] \in Locked /\ pc[p] \in ReconcileSteps /\ mutation = p
        /\ job[p].generation \in DOMAIN issued
        /\ entry[job[p].queue].owner = job[p].generation
        /\ job[p].todo # <<>>
        /\ UNCHANGED <<lock, release, pending, owned, prepared, evidence, entry, issued, faults>>
    BY DEF Find, files, counters, Recovering, Locked, ReconcileSteps, BoundSteps
  <1>2. FilesTypeOK' /\ MarkersKnown' /\ faults' \in 0 .. MaxFaults
    BY <1>1, FilesStay DEF LeaseTypeOK
  <1>3. CASE GiveUp(p)
    BY <1>1, <1>2, <1>3, StepGivesUp
  <1>4. ASSUME NEW found \in {job[p].found, job[p].found \cup {Head(job[p].todo)}},
               job' = [job EXCEPT ![p].found = found, ![p].todo = Tail(job[p].todo)],
               IF Tail(job[p].todo) = <<>> THEN Goto(p, "read") ELSE UNCHANGED pc,
               UNCHANGED mutation
        PROVE LeaseInv'
    <2> DEFINE call == [job[p] EXCEPT !.found = found, !.todo = Tail(job[p].todo)]
    <2>1. /\ job[p].todo \in Seq(Parts) /\ Head(job[p].todo) \in Parts
          /\ Tail(job[p].todo) \in Seq(Parts)
      BY <1>1, Jobs, HeadTailProperties
    <2>2. /\ call \in Job /\ call.queue = job[p].queue /\ call.generation = job[p].generation
          /\ call.todo = Tail(job[p].todo)
      <3>1. found \in SUBSET Parts
        BY <1>4, <2>1, Jobs
      <3> QED
        BY <2>1, <3>1, Jobs DEF Job
    <2>3. job' = [job EXCEPT ![p] = call]
      BY <1>4
    <2> HIDE DEF call
    <2>4. /\ job' \in [Process -> Job] /\ job'[p] = call
          /\ \A r \in Process \ {p} : job'[r] = job[r]
      BY <2>2, <2>3, JobSet
    <2>5. /\ pc' \in [Process -> Steps]
          /\ pc'[p] = "read" \/ (pc'[p] = "find" /\ Tail(job[p].todo) # <<>>)
          /\ \A r \in Process \ {p} : pc'[r] = pc[r]
      <3>1. CASE Goto(p, "read")
        BY <3>1, Gone DEF Steps, ReconcileSteps
      <3>2. CASE UNCHANGED pc /\ Tail(job[p].todo) # <<>>
        BY <1>1, <3>2 DEF LeaseTypeOK
      <3> QED
        BY <1>4, <3>1, <3>2
    <2>6. Recovering(p)' /\ Clearing(p)'
      BY <1>1, <1>4, <2>2, <2>4, <2>5
      DEF Recovering, Clearing, UnboundSteps, BoundSteps, LostSteps
    <2> QED
      BY <1>1, <1>2, <1>4, <2>2, <2>4, <2>5, <2>6, StepReconciles DEF MutationBy, ReconcileSteps
  <1>5. ASSUME NEW found, job' = [job EXCEPT ![p].found = found, ![p].todo = Tail(@)]
        PROVE job' = [job EXCEPT ![p].found = found, ![p].todo = Tail(job[p].todo)]
    BY <1>5
  <1> QED
    BY <1>3, <1>4, <1>5 DEF Find

LEMMA StepRead ==
  ASSUME LeaseInv, NEW p \in Process, ReadRelease(p) \/ ObserveOwner(p) \/ ReadOwnership(p)
  PROVE LeaseInv'
  <1> USE DEF LeaseInv
  <1> DEFINE g == job[p].generation
  <1>1. /\ pc[p] \in {"read", "observe", "read_ownership"}
        /\ pc[p] \in Locked /\ pc[p] \in ReconcileSteps
        /\ UNCHANGED <<lock, release, pending, owned, prepared, evidence, entry, issued, faults>>
    BY DEF ReadRelease, ObserveOwner, ReadOwnership, files, counters, Locked, ReconcileSteps
  <1>2. /\ mutation = p /\ g \in DOMAIN issued /\ g \in Generation /\ issued[g] \in Process
        /\ entry[job[p].queue].owner = g
    BY <1>1, Drawns DEF Recovering, BoundSteps
  <1>3. FilesTypeOK' /\ MarkersKnown' /\ faults' \in 0 .. MaxFaults
    BY <1>1, FilesStay DEF LeaseTypeOK
  <1>4. CASE GiveUp(p)
    BY <1>1, <1>3, <1>4, StepGivesUp
  <1>5. ASSUME NEW s \in {"read_evidence", "observe", "clear", "lost_mark"},
               Goto(p, s), UNCHANGED <<job, mutation>>,
               s = "lost_mark" => pc[issued[g]] = "dead",
               s = "clear" => pc[p] = "read_ownership" /\ job[p].outcome # "observe"
        PROVE LeaseInv'
    <2>1. /\ pc' \in [Process -> Steps] /\ pc'[p] = s
          /\ \A r \in Process \ {p} : pc'[r] = pc[r]
      BY <1>5, Gone DEF Steps, ReconcileSteps
    <2>2. job' \in [Process -> Job] /\ \A r \in Process : job'[r] = job[r]
      BY <1>5 DEF LeaseTypeOK
    <2>3. s = "lost_mark" => issued[g] # p
      BY <1>1, <1>5
    <2>4. Recovering(p)'
      BY <1>1, <1>2, <1>5, <2>1, <2>3 DEF Recovering, UnboundSteps, BoundSteps, LostSteps
    <2>5. Clearing(p)'
      BY <1>1, <1>2, <1>5, <2>1, <2>2 DEF Clearing
    <2> QED
      BY <1>1, <1>3, <1>5, <1>2, <2>1, <2>2, <2>4, <2>5, StepReconciles DEF MutationBy, ReconcileSteps
  <1>6. CASE ReadRelease(p)
    BY <1>4, <1>5, <1>6 DEF ReadRelease
  <1>7. CASE ObserveOwner(p)
    BY <1>4, <1>5, <1>7 DEF ObserveOwner, OwnerIsLost, Absent
  <1>8. CASE ReadOwnership(p)
    <2>1. CASE job[p].outcome = "observe" /\ OwnersOwnership(p)
      BY <1>5, <1>8, <2>1 DEF ReadOwnership
    <2>2. CASE job[p].outcome # "observe" /\ OwnersOwnership(p)
      <3>1. pc[p] = "read_ownership"
        BY <1>8 DEF ReadOwnership
      <3> QED
        BY <1>5, <1>8, <2>2, <3>1 DEF ReadOwnership
    <2> QED
      BY <1>4, <1>8, <2>1, <2>2 DEF ReadOwnership
  <1> QED
    BY <1>6, <1>7, <1>8

LEMMA StepReadEvidence ==
  ASSUME LeaseInv, NEW p \in Process, ReadEvidence(p)
  PROVE LeaseInv'
  <1> USE DEF LeaseInv
  <1> DEFINE g == job[p].generation
  <1>1. /\ pc[p] = "read_evidence" /\ pc[p] \in Locked /\ pc[p] \in ReconcileSteps /\ mutation = p
        /\ g \in DOMAIN issued /\ g \in Generation /\ entry[job[p].queue].owner = g
        /\ UNCHANGED <<lock, release, pending, owned, prepared, evidence, entry, issued, faults>>
    BY Drawns DEF ReadEvidence, files, counters, Recovering, Locked, ReconcileSteps, BoundSteps
  <1>2. FilesTypeOK' /\ MarkersKnown' /\ faults' \in 0 .. MaxFaults
    BY <1>1, FilesStay DEF LeaseTypeOK
  <1>3. CASE GiveUp(p)
    BY <1>1, <1>2, <1>3, StepGivesUp
  <1>4. ASSUME NEW c \in Disposition, evidence[g] = {"acquired", c},
               job' = [job EXCEPT ![p].outcome = Cases[c].outcome, ![p].todo = Cases[c].todo],
               Goto(p, "read_ownership"), UNCHANGED mutation
        PROVE LeaseInv'
    <2>1. /\ Cases[c].todo \in Seq(Parts) /\ EntryLast(Cases[c].todo)
          /\ Cases[c].outcome \in {"observe", "released", "lost"}
          /\ Cases[c].outcome = "released" => c = "released"
          /\ Cases[c].outcome = "lost" => c = "recovered"
      <3>1. CASE c = "acquired"
        <4>1. Cases[c].outcome = "observe" /\ Cases[c].todo = <<>>
          BY <3>1 DEF Cases
        <4> QED
          BY <4>1, Orders
      <3>2. CASE c = "released"
        <4>1. /\ Cases[c].outcome = "released"
              /\ Cases[c].todo = <<"release", "owned", "pending", "entry">>
          BY <3>2 DEF Cases
        <4> QED
          BY <3>2, <4>1, Orders
      <3>3. CASE c = "recovered"
        <4>1. Cases[c].outcome = "lost" /\ Cases[c].todo = <<"pending", "owned", "entry">>
          BY <3>3 DEF Cases
        <4> QED
          BY <3>3, <4>1, Orders
      <3> QED
        BY <3>1, <3>2, <3>3 DEF Disposition
    <2> DEFINE call == [job[p] EXCEPT !.outcome = Cases[c].outcome, !.todo = Cases[c].todo]
    <2>2. /\ call \in Job /\ call.queue = job[p].queue /\ call.generation = g
          /\ call.outcome = Cases[c].outcome /\ call.todo = Cases[c].todo
      BY <2>1, Jobs DEF Job
    <2>3. job' = [job EXCEPT ![p] = call]
      BY <1>4
    <2> HIDE DEF call
    <2>4. /\ job' \in [Process -> Job] /\ job'[p] = call
          /\ \A r \in Process \ {p} : job'[r] = job[r]
      BY <2>2, <2>3, JobSet
    <2>5. /\ pc' \in [Process -> Steps] /\ pc'[p] = "read_ownership"
          /\ \A r \in Process \ {p} : pc'[r] = pc[r]
      BY <1>4, Gone DEF Steps, ReconcileSteps
    <2>6. Recovering(p)'
      BY <1>1, <1>4, <2>2, <2>4, <2>5 DEF Recovering, UnboundSteps, BoundSteps, LostSteps
    <2>7. Clearing(p)'
      <3>1. /\ job'[p].outcome = Cases[c].outcome /\ EntryLast(job'[p].todo)
            /\ job'[p].generation = g
        BY <2>1, <2>2, <2>4
      <3> HIDE DEF g
      <3> QED
        BY <1>1, <1>4, <2>1, <2>5, <3>1 DEF Clearing
    <2> QED
      BY <1>1, <1>2, <1>4, <2>2, <2>4, <2>5, <2>6, <2>7, StepReconciles DEF MutationBy, ReconcileSteps
  <1> QED
    BY <1>3, <1>4 DEF ReadEvidence

\* The next part of an order is its first, and the entry is the last of one.
LEMMA EntryNext ==
  ASSUME NEW s \in Seq(Parts), s # <<>>
  PROVE /\ Head(s) \in Parts /\ Tail(s) \in Seq(Parts)
        /\ EntryLast(s) => EntryLast(Tail(s))
        /\ EntryLast(s) /\ Head(s) = "entry" => Tail(s) = <<>>
  <1>1. /\ Head(s) \in Parts /\ Tail(s) \in Seq(Parts)
        /\ Len(s) \in Nat \ {0} /\ Len(Tail(s)) = Len(s) - 1
        /\ \A i \in 1 .. Len(Tail(s)) : Tail(s)[i] = s[i + 1]
        /\ Head(s) = s[1] /\ DOMAIN s = 1 .. Len(s) /\ DOMAIN Tail(s) = 1 .. Len(Tail(s))
    BY HeadTailProperties, LenProperties
  <1>2. EntryLast(s) => EntryLast(Tail(s))
    BY <1>1 DEF EntryLast
  <1>3. ASSUME EntryLast(s), Head(s) = "entry" PROVE Tail(s) = <<>>
    <2>1. Len(s) = 1
      BY <1>1, <1>3 DEF EntryLast
    <2>2. Len(Tail(s)) = 0 /\ Tail(s) \in Seq(Parts)
      BY <1>1, <2>1
    <2>3. \A t \in Seq(Parts) : Len(t) = 0 => t = <<>>
      BY EmptySeq
    <2> QED
      BY <2>2, <2>3
  <1> QED
    BY <1>1, <1>2, <1>3

\* An entry that a reconciliation has cleared has no owner.
LEMMA EntryCleared ==
  ASSUME LeaseInv, NEW p \in Process, pc[p] = "clear", job[p].todo # <<>>
  PROVE EntryAfter(p) \in EntryRecord /\ EntryAfter(p).owner = None
  <1> DEFINE old == entry[job[p].queue]
  <1>1. /\ old \in EntryRecord /\ job[p].outcome \in {"unbound", "released", "lost"}
        /\ job[p].outcome = "unbound" => old.owner = None
    BY DEF LeaseInv, LeaseTypeOK, EntryRecord, OwnGeneration, Clearing
  <1>2. CASE job[p].outcome = "unbound"
    <2>1. EntryAfter(p) = [old EXCEPT !.recovered = TRUE]
      BY <1>2 DEF EntryAfter
    <2> HIDE DEF old
    <2> QED
      BY <1>1, <1>2, <2>1 DEF EntryRecord
  <1>3. CASE job[p].outcome = "released" /\ old.state # "leased"
    <2>1. EntryAfter(p) = [old EXCEPT !.owner = None]
      BY <1>3 DEF EntryAfter
    <2> HIDE DEF old
    <2> QED
      BY <1>1, <2>1 DEF EntryRecord
  <1>4. CASE /\ job[p].outcome # "unbound"
             /\ ~(job[p].outcome = "released" /\ old.state # "leased")
    <2>1. EntryAfter(p) = [state |-> "recovery_required", owner |-> None, recovered |-> FALSE]
      BY <1>4 DEF EntryAfter
    <2> QED
      BY <2>1 DEF EntryRecord, EntryStates
  <1> QED
    BY <1>2, <1>3, <1>4

\* The entry itself is cleared, by its name and under the lock.
LEMMA ClearsEntry ==
  ASSUME LeaseInv, NEW p \in Process, pc[p] = "clear", job[p].todo # <<>>,
         Head(job[p].todo) = "entry", EntryAfter(p) # entry[job[p].queue],
         WriteEntry(p, job[p].queue, EntryAfter(p), [job[p] EXCEPT !.todo = Tail(@)]),
         UNCHANGED <<lock, release, pending, owned, prepared, evidence, mutation, pc,
                     issued, faults>>
  PROVE LeaseInv'
  <1> USE DEF LeaseInv
  <1> DEFINE q == job[p].queue
             call == [job[p] EXCEPT !.todo = Tail(job[p].todo)]
  <1>1. /\ q \in Queue /\ mutation = p /\ job[p].todo \in Seq(Parts)
        /\ Tail(job[p].todo) \in Seq(Parts)
        /\ EntryLast(job[p].todo) => Tail(job[p].todo) = <<>>
    BY Jobs, EntryNext DEF OwnGeneration, Recovering, Locked, ReconcileSteps
  <1>2. EntryAfter(p) \in EntryRecord /\ EntryAfter(p).owner = None
    BY EntryCleared
  <1>3. /\ call \in Job /\ call.queue = q /\ call.generation = job[p].generation
        /\ call.outcome = job[p].outcome /\ call.todo = Tail(job[p].todo)
    BY <1>1, Jobs DEF Job
  <1>4. WriteEntry(p, q, EntryAfter(p), call)
    OBVIOUS
  <1> HIDE DEF call
  <1>5. /\ entry' \in [Queue -> EntryRecord] /\ entry'[q] = EntryAfter(p)
        /\ \A u \in Queue \ {q} : entry'[u] = entry[u]
        /\ job' \in [Process -> Job] /\ job'[p] = call
        /\ \A r \in Process \ {p} :
             /\ job'[r].queue = job[r].queue /\ job'[r].generation = job[r].generation
             /\ job'[r].outcome = job[r].outcome /\ job'[r].todo = job[r].todo
    BY <1>1, <1>2, <1>3, <1>4, Written
  <1>6. LeaseTypeOK'
    BY <1>5 DEF LeaseTypeOK, EntryRecord
  <1>7. /\ job[p].outcome \in {"unbound", "released", "lost"}
        /\ job[p].outcome # "unbound" => EntryLast(job[p].todo)
        /\ job[p].outcome # "unbound" =>
             /\ entry[q].owner = job[p].generation
             /\ evidence[job[p].generation] \cap {"released", "recovered"} # {}
        /\ job[p].outcome = "unbound" => entry[q].owner = None
    BY DEF Clearing
  <1>8. OwnGeneration(p)' /\ Recovering(p)'
    BY <1>1, <1>3, <1>5 DEF OwnGeneration, Recovering, Drawn, HeldSteps, ReleaseSteps, UndoSteps,
                            UnboundSteps, BoundSteps, LostSteps, Claiming
  <1>9. Clearing(p)'
    <2>1. /\ job'[p].outcome = job[p].outcome /\ job'[p].generation = job[p].generation
          /\ job'[p].queue = q /\ job'[p].todo = Tail(job[p].todo)
          /\ entry'[q].owner = None
      BY <1>2, <1>3, <1>5
    <2>2. job[p].outcome # "unbound" => Tail(job[p].todo) = <<>>
      BY <1>1, <1>7
    <2>3. EntryLast(<<>>)
      BY Orders
    <2> HIDE DEF q
    <2> QED
      BY <2>1, <2>2, <2>3 DEF Clearing
  <1>10. EntryBy(p, q)
    BY <1>1, <1>2, <1>5, <1>7 DEF EntryBy
  <1>11. MutationBy(p) /\ MarkersKnown' /\ \A r \in Process \ {p} : Kept(r)
    BY <1>5, MarkersLeft DEF MutationBy, Kept
  <1>12. entry'[q].owner = None
    BY <1>2, <1>5
  <1> HIDE DEF q
  <1> QED
    BY <1>1, <1>5, <1>6, <1>8, <1>9, <1>10, <1>11, <1>12, StepEnters

LEMMA StepClear ==
  ASSUME LeaseInv, NEW p \in Process, Clear(p)
  PROVE LeaseInv'
  <1> USE DEF LeaseInv
  <1> DEFINE q == job[p].queue
             call == [job[p] EXCEPT !.todo = Tail(job[p].todo)]
  <1>1. /\ pc[p] = "clear" /\ job[p].todo # <<>> /\ mutation = p /\ q \in Queue
        /\ pc[p] \in Locked /\ pc[p] \in ReconcileSteps
        /\ UNCHANGED <<lock, evidence, issued, faults>>
    BY DEF Clear, counters, OwnGeneration, Recovering, Locked, ReconcileSteps
  <1>2. CASE GiveUp(p)
    <2>1. faults' \in 0 .. MaxFaults
      BY <1>1 DEF LeaseTypeOK
    <2>2. UNCHANGED <<release, owned, pending, prepared, entry>>
      BY <1>1, <1>2 DEF Clear, GiveUp, Return, Goto, LeaseTypeOK
    <2> QED
      BY <1>1, <1>2, <2>1, <2>2, StepGivesUp
  <1>3. CASE ~GiveUp(p)
    <2>1. /\ UNCHANGED <<pc, mutation>>
          /\ release' \in {release, None} /\ owned' \in {owned, None} /\ pending' \in {pending, None}
          /\ prepared' \in [Process -> Marker \cup {None, Torn}]
          /\ \A r \in Process : prepared'[r] \in {prepared[r], None}
          /\ Head(job[p].todo) # "entry" =>
               UNCHANGED entry /\ job' = [job EXCEPT ![p] = [job[p] EXCEPT !.todo = Tail(@)]]
      BY <1>3 DEF Clear, LeaseTypeOK
    <2>2. FilesTypeOK' /\ MarkersKnown'
      BY <1>1, <2>1, MarkersLeft DEF LeaseTypeOK, FilesTypeOK
    <2>3. CASE UNCHANGED entry /\ job' = [job EXCEPT ![p] = [job[p] EXCEPT !.todo = Tail(@)]]
      <3>1. /\ job[p].todo \in Seq(Parts) /\ Tail(job[p].todo) \in Seq(Parts)
            /\ EntryLast(job[p].todo) => EntryLast(Tail(job[p].todo))
        BY <1>1, Jobs, EntryNext
      <3>2. /\ call \in Job /\ call.queue = q /\ call.generation = job[p].generation
            /\ call.outcome = job[p].outcome /\ call.todo = Tail(job[p].todo)
        BY <3>1, Jobs DEF Job
      <3>3. job' = [job EXCEPT ![p] = call]
        BY <2>3
      <3> HIDE DEF call
      <3>4. /\ job' \in [Process -> Job] /\ job'[p] = call
            /\ \A r \in Process \ {p} : job'[r] = job[r]
        BY <3>2, <3>3, JobSet
      <3>5. Recovering(p)'
        BY <1>1, <2>1 DEF Recovering, UnboundSteps, BoundSteps, LostSteps
      <3>6. Clearing(p)'
        <4>1. /\ job'[p].outcome = job[p].outcome /\ job'[p].generation = job[p].generation
              /\ job'[p].queue = q /\ job'[p].todo = Tail(job[p].todo)
          BY <3>2, <3>4
        <4>2. Clearing(p)
          OBVIOUS
        <4> HIDE DEF q
        <4> QED
          BY <1>1, <2>1, <2>3, <3>1, <4>1, <4>2 DEF Clearing, q
      <3>7. /\ pc' \in [Process -> Steps] /\ pc'[p] \in ReconcileSteps
            /\ \A r \in Process \ {p} : pc'[r] = pc[r]
        BY <1>1, <2>1 DEF LeaseTypeOK
      <3> QED
        BY <1>1, <2>1, <2>2, <2>3, <3>2, <3>4, <3>5, <3>6, <3>7, StepReconciles DEF MutationBy
    <2>4. CASE /\ Head(job[p].todo) = "entry" /\ EntryAfter(p) # entry[q]
               /\ WriteEntry(p, q, EntryAfter(p), [job[p] EXCEPT !.todo = Tail(@)])
      <3>1. UNCHANGED <<release, owned, pending>> /\ prepared' = prepared
        <4>1. /\ UNCHANGED <<release, owned, pending>>
              /\ prepared' = [r \in Process |-> prepared[r]]
          BY <1>3, <2>4 DEF Clear
        <4> QED
          BY <4>1 DEF LeaseTypeOK
      <3> QED
        BY <1>1, <2>1, <2>4, <3>1, ClearsEntry
    <2> QED
      BY <1>3, <2>3, <2>4 DEF Clear
  <1> QED
    BY <1>2, <1>3

LEMMA StepReconciled ==
  ASSUME LeaseInv, NEW p \in Process, Reconciled(p)
  PROVE LeaseInv'
  <1>1. /\ pc[p] \in Locked /\ faults' \in 0 .. MaxFaults
    BY DEF Reconciled, Locked, ReconcileSteps, LeaseInv, LeaseTypeOK, counters
  <1> QED
    BY <1>1, StepGivesUp DEF Reconciled, files, counters

-----------------------------------------------------------------------------
(* The other calls, and the faults.                                        *)

LEMMA StepReopen ==
  ASSUME LeaseInv, NEW q \in Queue, Reopen(q)
  PROVE LeaseInv'
  <1> USE DEF LeaseInv
  <1> DEFINE value == [entry[q] EXCEPT !.state = "queued"]
  <1>1. /\ mutation = None /\ entry[q].owner = None
        /\ entry' = [entry EXCEPT ![q] = value]
        /\ job' = [p \in Process |-> [job[p] EXCEPT !.fresh = @ /\ job[p].queue # q]]
        /\ UNCHANGED <<lock, release, pending, owned, prepared, evidence, mutation, pc,
                       issued, faults>>
    BY DEF Reopen, files, counters
  <1>2. value \in EntryRecord /\ value.owner = None
    BY <1>1 DEF LeaseTypeOK, EntryRecord, EntryStates
  <1> HIDE DEF value
  <1>3. /\ entry' \in [Queue -> EntryRecord] /\ entry'[q] = value
        /\ \A u \in Queue \ {q} : entry'[u] = entry[u]
    BY <1>1, <1>2 DEF LeaseTypeOK, EntryRecord
  <1>4. ASSUME NEW r \in Process
        PROVE /\ job'[r] \in Job
              /\ job'[r].queue = job[r].queue /\ job'[r].generation = job[r].generation
    <2> DEFINE old == job[r].fresh /\ job[r].queue # q
    <2>1. old \in BOOLEAN
      OBVIOUS
    <2>2. job'[r] = [job[r] EXCEPT !.fresh = old]
      BY <1>1
    <2> HIDE DEF old
    <2> QED
      BY <2>1, <2>2, Jobs DEF Job
  <1>5. job' \in [Process -> Job]
    BY <1>1, <1>4
  <1>6. LeaseTypeOK'
    BY <1>1, <1>3, <1>5 DEF LeaseTypeOK, EntryRecord
  <1>7. ASSUME NEW r \in Process
        PROVE OwnGeneration(r)' /\ Recovering(r)' /\ Clearing(r)'
    <2>1. pc[r] \notin Locked
      BY <1>1, Constants DEF Recovering
    <2>2. Recovering(r)' /\ Clearing(r)'
      BY <1>1, <2>1, LockedSteps DEF Recovering, Clearing, BoundSteps, LostSteps
    <2>3. OwnGeneration(r)'
      <3>1. pc[r] \in Claiming => /\ entry'[job[r].queue] = Claimed(r)
                              /\ job[r].queue \in Queue
        <4>1. pc[r] \in Claiming =>
                /\ job[r].queue \in Queue /\ entry[job[r].queue] = Claimed(r)
                /\ job[r].generation \in DOMAIN issued
          BY DrawnSteps DEF OwnGeneration, Claiming
        <4>2. pc[r] \in Claiming => job[r].generation # None
          BY <4>1, Drawns, Constants
        <4>3. pc[r] \in Claiming => job[r].queue # q
          BY <1>1, <4>1, <4>2 DEF Claimed
        <4> QED
          BY <1>3, <4>1, <4>3
      <3>2. Claimed(r)' = Claimed(r)
        BY <1>4 DEF Claimed
      <3>3. OwnGeneration(r)
        OBVIOUS
      <3> QED
        BY <1>1, <1>4, <3>1, <3>2, <3>3 DEF OwnGeneration
    <2> QED
      BY <2>2, <2>3
  <1>8. MarkersKnown' /\ EvidenceKnown' /\ OwnersKnown'
    BY <1>1, <1>2, <1>3, MarkersLeft DEF EvidenceKnown, OwnersKnown
  <1> QED
    BY <1>6, <1>7, <1>8

LEMMA StepEnds ==
  ASSUME LeaseInv, NEW p \in Process, Exit(p) \/ Crash(p)
  PROVE LeaseInv'
  <1> USE DEF LeaseInv
  <1>1. /\ pc[p] # "dead" /\ Goto(p, "dead")
        /\ UNCHANGED <<lock, pending, owned, prepared, evidence, entry, mutation, issued>>
        /\ release' \in {release, Torn} /\ faults' \in 0 .. MaxFaults
        /\ job' \in [Process -> Job] /\ \A r \in Process \ {p} : job'[r] = job[r]
    <2>1. CASE Exit(p)
      BY <2>1 DEF Exit, files, records, counters, LeaseTypeOK
    <2>2. CASE Crash(p)
      <3>1. job' = [job EXCEPT ![p] = NoJob]
        BY <2>2 DEF Crash
      <3>2. job' \in [Process -> Job] /\ \A r \in Process \ {p} : job'[r] = job[r]
        BY <3>1, NoJobIsJob, JobSet
      <3>3. faults' \in 0 .. MaxFaults
        BY <2>2, Bounds DEF Crash, LeaseTypeOK
      <3> QED
        BY <2>2, <3>2, <3>3 DEF Crash, records
    <2> QED
      BY <2>1, <2>2
  <1>2. /\ pc' \in [Process -> Steps] /\ pc'[p] = "dead"
        /\ \A r \in Process \ {p} : pc'[r] = pc[r]
    BY <1>1, Gone DEF Steps
  <1>3. LeaseTypeOK'
    BY <1>1, <1>2 DEF LeaseTypeOK
  <1>4. MarkersKnown'
    BY <1>1, MarkersLeft
  <1> QED
    BY <1>1, <1>2, <1>3, <1>4, Idle, PlainStep DEF MutationBy, Kept

LEMMA StepThrow ==
  ASSUME LeaseInv, NEW p \in Process, Throw(p)
  PROVE LeaseInv'
  <1> USE DEF LeaseInv
  <1>1. /\ faults' \in 0 .. MaxFaults /\ lock \in BOOLEAN
        /\ UNCHANGED <<lock, pending, owned, issued>>
    BY Bounds DEF Throw, LeaseTypeOK
  <1>2. CASE /\ pc[p] \in {"prepare", "write", "link"}
             /\ prepared' = [prepared EXCEPT ![p] = None]
             /\ Return(p) /\ UNCHANGED <<release, evidence, entry, mutation>>
    BY <1>1, <1>2, StepReturns DEF MutationBy
  <1>3. CASE /\ pc[p] \in {"drop", "unprepare", "confirm"} \cup UndoSteps
                          \cup (ReleaseSteps \ WriteSteps)
             /\ Return(p) /\ UNCHANGED <<release, prepared, evidence, entry, mutation>>
    BY <1>1, <1>3, StepReturns DEF MutationBy, UndoSteps, ReleaseSteps
  <1>4. CASE /\ pc[p] \in {"mkdir", "own", "own_write", "record"} /\ Goto(p, "undo_lock")
             /\ UNCHANGED <<release, evidence, job, prepared, entry, mutation>>
    <2>1. pc[p] \in Drawn /\ MovesOn(p)
      BY <1>4, DrawnSteps DEF MovesOn, Plain
    <2> QED
      BY <1>1, <1>4, <2>1, StepRemoves
  <1>5. CASE /\ pc[p] = "record" /\ Goto(p, "undo_lock")
             /\ evidence' = [evidence EXCEPT ![job[p].generation] = @ \cup {"acquired"}]
             /\ UNCHANGED <<release, job, prepared, entry, mutation>>
    BY <1>1, <1>5, EvidenceWritten
  <1>6. CASE /\ pc[p] \in HeldSteps \ WriteSteps /\ Goto(p, "mark")
             /\ UNCHANGED <<release, job, prepared, evidence, entry, mutation>>
    <2>1. pc[p] \in Drawn /\ MovesOn(p)
      BY <1>6, DrawnSteps DEF MovesOn, HeldSteps, WriteSteps, Claiming, Plain
    <2> QED
      BY <1>1, <1>6, <2>1, StepRemoves
  <1>7. CASE /\ pc[p] \in {"claim_write", "finish_write", "settle_write"} /\ WriteFails(p)
             /\ UNCHANGED <<release, prepared, evidence, mutation>>
    <2>1. CASE pc[p] = "claim_write"
      BY <1>1, <1>7, <2>1, ClaimWritten, StepUnwritten DEF WriteFails
    <2>2. CASE pc[p] = "finish_write"
      <3>1. Goto(p, "give_mark")
        BY <1>7, <2>2 DEF WriteFails
      <3>2. ASSUME FinishAllowed(p), NEW v \in {"replan_required", "cancelled"},
                   WriteEntry(p, job[p].queue, Verdict(p, v), job[p])
            PROVE LeaseInv'
        BY <1>1, <1>7, <2>2, <3>1, <3>2, VerdictWritten
      <3> QED
        BY <1>1, <1>7, <2>2, <3>1, <3>2, StepUnwritten DEF WriteFails
    <2>3. CASE pc[p] = "settle_write"
      BY <1>1, <1>7, <2>3, SettlementWritten, StepUnwritten DEF WriteFails
    <2> QED
      BY <1>7, <2>1, <2>2, <2>3
  <1>8. CASE /\ pc[p] \in {"give_work", "give_mark", "give_idle"}
             /\ mutation' \in {mutation, None}
             /\ IF pc[p] = "give_idle" THEN Return(p)
                ELSE Goto(p, "mark") /\ job' = [job EXCEPT ![p].settles = FALSE]
             /\ UNCHANGED <<release, prepared, evidence, entry>>
    BY <1>1, <1>8, Given
  <1>9. CASE /\ pc[p] \in ReconcileSteps \ {"reconcile"} /\ GiveUp(p)
             /\ UNCHANGED <<prepared, evidence, entry>> /\ release' \in {release, Torn}
    BY <1>1, <1>9, StepGivesUp DEF Locked
  <1> QED
    BY <1>2, <1>3, <1>4, <1>5, <1>6, <1>7, <1>8, <1>9 DEF Throw

-----------------------------------------------------------------------------
(* The theorems.                                                           *)

LEMMA LeaseStarts == ASSUME Init PROVE LeaseInv
  <1>1. LeaseTypeOK
    <2>1. job \in [Process -> Job]
      BY NoJobIsJob DEF Init
    <2>2. entry \in [Queue -> EntryRecord]
      BY DEF Init, EntryRecord, EntryStates
    <2>3. pc \in [Process -> Steps]
      BY DEF Init, Steps
    <2>4. evidence \in [Generation -> SUBSET Disposition]
      BY DEF Init
    <2>5. issued \in Seq(Process) /\ Len(issued) <= MaxGeneration /\ faults \in 0 .. MaxFaults
      BY Bounds DEF Init
    <2>6. /\ lock \in BOOLEAN /\ release \in Generation \cup {None, Torn}
          /\ pending \in Marker \cup {None} /\ owned \in Marker \cup {None, Torn}
          /\ prepared \in [Process -> Marker \cup {None, Torn}]
          /\ mutation \in Process \cup {None}
      BY DEF Init
    <2> QED
      BY <2>1, <2>2, <2>3, <2>4, <2>5, <2>6 DEF LeaseTypeOK, EntryRecord
  <1>2. ASSUME NEW p \in Process
        PROVE OwnGeneration(p) /\ Recovering(p) /\ Clearing(p)
    BY DEF Init, OwnGeneration, Recovering, Clearing, Locked, UnboundSteps, BoundSteps, LostSteps,
           ReconcileSteps, Drawn, HeldSteps, ReleaseSteps, UndoSteps, WriteSteps, Claiming
  <1>3. MarkersKnown /\ EvidenceKnown /\ OwnersKnown
    BY DEF Init, MarkersKnown, Known, EvidenceKnown, OwnersKnown
  <1> QED
    BY <1>1, <1>2, <1>3 DEF LeaseInv

LEMMA LeaseStep == ASSUME LeaseInv, [Next]_vars PROVE LeaseInv'
  <1>1. ASSUME NEW p \in Process, Acquire(p) PROVE LeaseInv'
    BY <1>1, StepLook, StepPrepare, StepAcquires, StepRecord, StepUndo DEF Acquire
  <1>2. ASSUME NEW p \in Process, Hold(p) PROVE LeaseInv'
    BY <1>2, StepReleases, StepWrites DEF Hold
  <1>3. ASSUME NEW p \in Process, GiveBack(p) PROVE LeaseInv'
    BY <1>3, StepReleases, StepRecord, StepWrites DEF GiveBack
  <1>4. ASSUME NEW p \in Process, Recover(p) PROVE LeaseInv'
    BY <1>4, StepReconcile, StepAdopt, StepCheckUnbound, StepTakesBack, StepRecordUnbound,
       StepRecordLost, StepFind, StepRead, StepReadEvidence, StepClear, StepReconciled DEF Recover
  <1>5. ASSUME NEW p \in Process, Run(p) \/ Exit(p) \/ Crash(p) \/ Throw(p) PROVE LeaseInv'
    BY <1>1, <1>2, <1>3, <1>4, <1>5, StepTakesQueue, StepGivesQueue, StepEnds, StepThrow
       DEF Run, LockQueue
  <1>6. ASSUME NEW p \in Process, NEW q \in Queue, Start(p, q) \/ Inspect(p, q) PROVE LeaseInv'
    BY <1>6, StepStart
  <1>7. CASE UNCHANGED vars
    <2>1. \A p \in Process : (MarkerOf(p))' = MarkerOf(p) /\ (Claimed(p))' = Claimed(p)
      BY <1>7 DEF vars, MarkerOf, Claimed
    <2> QED
      BY <1>7, <2>1 DEF vars, LeaseInv, LeaseTypeOK, OwnGeneration, Recovering, Clearing,
                        MarkersKnown, Known, EvidenceKnown, OwnersKnown
  <1> QED
    BY <1>5, <1>6, <1>7, StepReopen DEF Next

\* In every behaviour with any number of processes, entries, leases, crashes and
\* failed calls, calls keep their generation and reconciliations what they found.
THEOREM LeaseHolds == Spec => []LeaseInv
  <1>1. Init => LeaseInv
    BY LeaseStarts
  <1>2. LeaseInv /\ [Next]_vars => LeaseInv'
    BY LeaseStep
  <1> QED
    BY <1>1, <1>2, PTL DEF Spec

\* The files, records and calls have their types in every behaviour.
THEOREM LeaseTypeCorrect == Spec => []LeaseTypeOK
  <1>1. LeaseInv => LeaseTypeOK
    BY DEF LeaseInv
  <1> QED
    BY <1>1, LeaseHolds, PTL

\* A process at work owns its entry, for any number of processes and faults: neither
\* a recovery nor another claim takes the entry from it or changes it.
THEOREM WorkerOwns == Spec => []WorkerOwnsEntry
  <1>1. LeaseInv => WorkerOwnsEntry
    BY DEF LeaseInv, OwnGeneration, WorkerOwnsEntry, Claiming
  <1> QED
    BY <1>1, LeaseHolds, PTL

\* A generation with evidence of its release or of its recovery is held by nobody.
LEMMA ClosedNotHeld ==
  ASSUME LeaseInv, NEW g \in Generation,
         evidence[g] \cap {"released", "recovered"} # {}
  PROVE \A r \in Process : ~(Holds(r) /\ job[r].generation = g)
  <1> SUFFICES ASSUME NEW r \in Process, Holds(r), job[r].generation = g
               PROVE FALSE
    OBVIOUS
  <1>1. pc[r] \in Drawn \ Closed /\ pc[r] # "dead"
    BY DrawnSteps DEF Holds, HeldSteps, Claiming, Plain, Closed
  <1>2. issued[g] = r /\ "released" \notin evidence[g]
    BY <1>1 DEF LeaseInv, OwnGeneration
  <1>3. "recovered" \notin evidence[g]
    BY <1>1, <1>2 DEF LeaseInv, EvidenceKnown
  <1> QED
    BY <1>2, <1>3

\* What clears an owner: the settlement of its release, or its reconciliation.
LEMMA OwnerClears ==
  ASSUME LeaseInv, NEW p \in Process, NEW q \in Queue, Run(p) \/ Throw(p),
         entry[q].owner # None, entry'[q].owner # entry[q].owner
  PROVE /\ entry'[q].owner = None
        /\ entry[q].owner \in Generation
        /\ evidence[entry[q].owner] \cap {"released", "recovered"} # {}
  <1> USE DEF LeaseInv, files, records
  <1>1. entry[q].owner \in Generation
    BY Drawns DEF OwnersKnown
  <1>2. \/ \E call \in {job[p], [job[p] EXCEPT !.settles = TRUE]} :
             \/ /\ pc[p] = "claim_write" /\ ClaimAllowed(p)
                /\ WriteEntry(p, job[p].queue, Claimed(p), call)
             \/ /\ pc[p] = "finish_write" /\ FinishAllowed(p)
                /\ \E v \in {"replan_required", "cancelled"} :
                     WriteEntry(p, job[p].queue, Verdict(p, v), call)
             \/ /\ pc[p] = "settle_write" /\ SettleAllowed(p)
                /\ WriteEntry(p, job[p].queue, Unowned(p), call)
        \/ pc[p] = "clear" /\ Clear(p)
    <2>1. entry' # entry
      OBVIOUS
    <2>2. Acquire(p) => FALSE
      BY <2>1 DEF Acquire, Look, Prepare, Write, Link, Drop, Unprepare, Confirm, MakeLock, Own,
                  OwnWrite, Record, Undo
    <2>3. Hold(p) => Claim(p) \/ Finish(p)
      BY <2>1 DEF Hold, SelectAgain
    <2>4. GiveBack(p) => Settle(p)
      BY <2>1 DEF GiveBack, Mark, MarkWrite, RemoveLock, RecordRelease, Unmark, ReadOwned, Unown,
                  ReadPending, Unpend
    <2>5. Recover(p) => Clear(p)
      BY <2>1 DEF Recover, Reconcile, Adopt, CheckUnbound, MarkUnbound, RemoveLockUnbound,
                  RecordUnbound, Find, ReadRelease, ReadEvidence, ReadOwnership, ObserveOwner,
                  MarkLost, RemoveLockLost, RecordLost, Reconciled
    <2>6. ~LockQueue(p)
      BY <2>1 DEF LockQueue, TakeQueue, GiveQueue
    <2>7. Throw(p) => WriteFails(p)
      BY <2>1 DEF Throw
    <2> QED
      BY <2>1, <2>2, <2>3, <2>4, <2>5, <2>6, <2>7
         DEF Run, Claim, Finish, Settle, WriteFails, Clear
  <1>3. job[p].queue \in Queue
    BY <1>2 DEF OwnGeneration
  <1>4. CASE pc[p] = "claim_write"
    <2>1. entry[job[p].queue].owner = None /\ \A u \in Queue \ {job[p].queue} : entry'[u] = entry[u]
      BY <1>2, <1>3, <1>4 DEF ClaimAllowed, WriteEntry, LeaseTypeOK
    <2> QED
      BY <2>1
  <1>5. CASE pc[p] = "finish_write"
    <2>1. \A u \in Queue : entry'[u].owner = entry[u].owner
      BY <1>2, <1>3, <1>5 DEF Verdict, WriteEntry, LeaseTypeOK
    <2> QED
      BY <2>1
  <1>6. CASE pc[p] = "settle_write"
    <2>1. SettleAllowed(p) /\ q = job[p].queue /\ entry'[q].owner = None
      BY <1>2, <1>3, <1>6 DEF Unowned, WriteEntry, LeaseTypeOK
    <2> QED
      BY <1>1, <2>1 DEF SettleAllowed
  <1>7. CASE pc[p] = "clear"
    <2>1. /\ job[p].todo # <<>> /\ q = job[p].queue /\ entry'[q] = EntryAfter(p)
      BY <1>2, <1>3, <1>7 DEF Clear, WriteEntry, LeaseTypeOK
    <2>2. EntryAfter(p).owner = None
      BY <1>7, <2>1, EntryCleared
    <2>3. /\ entry[q].owner = job[p].generation
          /\ evidence[job[p].generation] \cap {"released", "recovered"} # {}
      BY <1>7, <2>1 DEF Clearing
    <2> QED
      BY <1>1, <2>1, <2>2, <2>3
  <1> QED
    BY <1>2, <1>4, <1>5, <1>6, <1>7

\* The owner of an entry is cleared only when its lease is closed by evidence and
\* nobody works under it, for any number of processes and faults.
THEOREM OwnerCleared == Spec => OwnerClearedAfterLease
  <1>1. ASSUME LeaseInv, [Next]_vars, NEW q \in Queue,
               entry[q].owner # None, entry'[q].owner # entry[q].owner
        PROVE /\ entry'[q].owner = None
              /\ evidence[entry[q].owner] \cap {"released", "recovered"} # {}
              /\ \A p \in Process : ~(Holds(p) /\ job[p].generation = entry[q].owner)
    <2>1. \E p \in Process : Run(p) \/ Throw(p)
      <3>1. entry' # entry
        BY <1>1
      <3>2. ASSUME NEW u \in Queue, Reopen(u) PROVE FALSE
        BY <1>1, <3>2 DEF Reopen, LeaseInv, LeaseTypeOK
      <3>3. ASSUME NEW p \in Process, NEW u \in Queue, Start(p, u) \/ Inspect(p, u) PROVE FALSE
        BY <3>1, <3>3 DEF Start, Inspect, records
      <3>4. ASSUME NEW p \in Process, Exit(p) \/ Crash(p) PROVE FALSE
        BY <3>1, <3>4 DEF Exit, Crash, records
      <3> QED
        BY <1>1, <3>1, <3>2, <3>3, <3>4 DEF Next, vars
    <2>2. /\ entry'[q].owner = None /\ entry[q].owner \in Generation
          /\ evidence[entry[q].owner] \cap {"released", "recovered"} # {}
      BY <1>1, <2>1, OwnerClears
    <2> QED
      BY <1>1, <2>2, ClosedNotHeld
  <1>2. LeaseInv /\ [Next]_vars =>
          [\A q \in Queue :
             entry[q].owner # None /\ entry'[q].owner # entry[q].owner =>
               LET g == entry[q].owner IN
               /\ entry'[q].owner = None
               /\ evidence[g] \cap {"released", "recovered"} # {}
               /\ \A p \in Process : ~(Holds(p) /\ job[p].generation = g)]_vars
    BY <1>1
  <1> QED
    BY <1>2, LeaseHolds, PTL DEF Spec, OwnerClearedAfterLease

=============================================================================

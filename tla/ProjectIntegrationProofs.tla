---------------------- MODULE ProjectIntegrationProofs ----------------------
(***************************************************************************)
(* What holds of the integration for every number of processes, projects   *)
(* and files, and every number of failed steps and lost processes.         *)
(***************************************************************************)
EXTENDS ProjectIntegration, SequenceTheorems, TLAPS

\* The candidates of two projects have no file in common.
Apart ==
  \A x, y \in Project : x # y =>
    \A i \in DOMAIN Bundle[x], j \in DOMAIN Bundle[y] : Bundle[x][i].path # Bundle[y][j].path

-----------------------------------------------------------------------------
(* The parts of the invariant.                                             *)

\* From the acquisition to the release a call holds the lease of its project.
AtWork == {"observe", "adopt", "save", "write", "check", "clear", "rollback", "clean",
           "receipt", "release"}
LeaseHeld == \A p \in Process : call[p].pc \in AtWork => lease[ProjectOf(p)] = p

\* The owner whose lease is removed is lost.
Looked ==
  \A p \in Process :
    /\ call[p].pc \in {"look", "remove"} => call[p].owner \in Process
    /\ call[p].pc = "remove" => Lost(call[p].owner)

\* The entry in hand is one of the candidate, the item to take back one applied.
InRange ==
  \A p \in Process :
    /\ call[p].pc \in {"save", "write", "check"} => call[p].at \in DOMAIN Bundle[ProjectOf(p)]
    /\ call[p].pc = "rollback" => call[p].at <= Len(call[p].applied)
    /\ \A k \in DOMAIN call[p].applied : \E i \in DOMAIN Bundle[ProjectOf(p)] :
         Bundle[ProjectOf(p)][i].path = call[p].applied[k].path

\* The tree has the entries before the one in hand, and all of them after the last.
WholeBefore(x, n) ==
  \A i \in DOMAIN Bundle[x] : i < n => tree[Bundle[x][i].path] = Wanted(x, Bundle[x][i])
Progress ==
  \A p \in Process :
    /\ call[p].pc \in {"save", "write", "check"} => WholeBefore(ProjectOf(p), call[p].at)
    /\ call[p].pc \in {"write", "check"} => Item(p).operation = "upsert"
    /\ call[p].pc \in {"clear", "receipt"} => Whole(ProjectOf(p))
    /\ call[p].pc = "clean" /\ call[p].applies = "done" => Whole(ProjectOf(p))

\* Nothing adopts what has a receipt, unless there is nothing to adopt.
Receipts ==
  /\ \A x \in Project : "adoption" \in record[x] => Whole(x)
  /\ \A p \in Process : Adopting(p) /\ Bundle[ProjectOf(p)] # <<>>
       => "adoption" \notin record[ProjectOf(p)]

\* Before the application nothing is applied.
BeforeAdoption == {"ready", "candidate", "record", "ask", "reconcile", "look", "remove",
                   "acquire", "observe", "adopt"}
Fresh == \A p \in Process : call[p].pc \in BeforeAdoption => call[p].applies = "not"

\* An entry is completed with a receipt only after the receipt is written.
Completion ==
  /\ \A x \in Project : entry[x].reference = "receipt" => "adoption" \in record[x]
  /\ \A p \in Process :
       \/ call[p].pc = "release" /\ call[p].answer.settled
       \/ call[p].pc = "complete" /\ call[p].applies = "done"
       => "adoption" \in record[ProjectOf(p)]

AdoptionInvariant == LeaseHeld /\ InRange /\ Progress /\ Receipts /\ Fresh /\ Completion

-----------------------------------------------------------------------------
(* The types.                                                              *)

LEMMA AnswerTypes ==
  /\ \A cleanup \in BOOLEAN : Blocked(cleanup) \in Answer
  /\ Settled \in Answer
BY DEF Blocked, Settled, Answer

LEMMA AdvanceType ==
  ASSUME NEW p \in Process, call[p] \in Call
  PROVE  Advance(p) \in Call
<1>1. call[p].at + 1 \in Nat
  BY DEF Call
<1> QED
  BY <1>1 DEF Advance, Call, PC

LEMMA BundleType ==
  ASSUME NEW x \in Project, NEW i \in DOMAIN Bundle[x]
  PROVE  /\ Bundle[x][i].path \in Path
         /\ Bundle[x][i].operation \in Operation
         /\ Bundle[x][i].operation = "delete" => Bundle[x][i].path \in Existing
         /\ Len(Bundle[x]) \in Nat /\ DOMAIN Bundle[x] = 1..Len(Bundle[x]) /\ i \in Nat
<1>1. Bundle[x] \in Seq([path : Path, operation : Operation])
  BY IntegrationConstants
<1>2. DOMAIN Bundle[x] = 1..Len(Bundle[x]) /\ Len(Bundle[x]) \in Nat
  BY <1>1
<1>3. Bundle[x][i] \in [path : Path, operation : Operation]
  BY <1>1, <1>2, ElementOfSeq
<1>4. i \in Nat
  BY <1>2
<1> QED
  BY <1>2, <1>3, <1>4, IntegrationConstants

\* What a step of p does to its call keeps the shape of the calls.
LEMMA CallTypes ==
  ASSUME call \in [Process -> Call], NEW p \in Process
  PROVE  /\ \A c \in Call : [call EXCEPT ![p] = c] \in [Process -> Call]
         /\ \A pc \in PC : To(p, pc) => call' \in [Process -> Call]
         /\ \A a \in Answer : Answers(p, a) \/ Fails(p, a) => call' \in [Process -> Call]
<1>1. call[p] \in Call
  OBVIOUS
<1>2. \A c \in Call : [call EXCEPT ![p] = c] \in [Process -> Call]
  OBVIOUS
<1>3. ASSUME NEW pc \in PC, To(p, pc) PROVE call' \in [Process -> Call]
  <2>1. [call[p] EXCEPT !.pc = pc] \in Call
    BY <1>1 DEF Call
  <2> QED
    BY <1>2, <1>3, <2>1 DEF To
<1>4. ASSUME NEW a \in Answer, Answers(p, a) \/ Fails(p, a) PROVE call' \in [Process -> Call]
  <2>1. /\ [call[p] EXCEPT !.pc = "answered", !.answer = a] \in Call
        /\ [call[p] EXCEPT !.pc = "release", !.answer = a] \in Call
    BY <1>1 DEF Call, PC
  <2> QED
    BY <1>2, <1>4, <2>1 DEF Answers, Fails
<1> QED
  BY <1>2, <1>3, <1>4

\* The steps that touch neither the tree nor the transaction directories.
Quiet(p) ==
  \/ Begin(p) \/ CreateCandidate(p) \/ RecordCandidate(p) \/ AskPerson(p) \/ Complete(p)
  \/ ReconcileLease(p) \/ LookAtOwner(p) \/ RemoveLease(p) \/ AcquireLease(p) \/ ReleaseLease(p)
  \/ ObserveRepository(p) \/ AdoptCandidate(p) \/ CleanBase(p) \/ RecordReceipt(p)
  \/ Exit(p) \/ Crash(p)

LEMMA QuietCallType ==
  ASSUME IntegrationTypeOK, NEW p \in Process, Quiet(p)
  PROVE  call' \in [Process -> Call]
<1>1. call \in [Process -> Call] /\ call[p] \in Call
  BY DEF IntegrationTypeOK
<1>2. entry[ProjectOf(p)].generation \in Nat
  BY <1>1 DEF IntegrationTypeOK, Entry, Call, ProjectOf
<1>3. \A cleanup \in BOOLEAN : Blocked(cleanup) \in Answer
  BY AnswerTypes
<1>4. CASE Begin(p)
  <2>1. PICK authorized \in BOOLEAN :
          call' = [call EXCEPT ![p] = [@ EXCEPT !.pc = "candidate", !.authorized = authorized,
                                                !.generation = entry[ProjectOf(p)].generation]]
    BY <1>4 DEF Begin
  <2>2. [call[p] EXCEPT !.pc = "candidate", !.authorized = authorized,
                        !.generation = entry[ProjectOf(p)].generation] \in Call
    BY <1>1, <1>2 DEF Call, PC
  <2> QED
    BY <1>1, <2>1, <2>2
<1>5. CASE CreateCandidate(p)
  <2>1. CASE \E conflict \in BOOLEAN :
               call' = [call EXCEPT ![p] = [@ EXCEPT !.pc = "record", !.conflict = conflict]]
    <3>1. \A conflict \in BOOLEAN :
            [call[p] EXCEPT !.pc = "record", !.conflict = conflict] \in Call
      BY <1>1 DEF Call, PC
    <3> QED
      BY <1>1, <2>1, <3>1
  <2>2. CASE Answers(p, Blocked(FALSE))
    BY <1>1, <1>3, <2>2, CallTypes
  <2> QED
    BY <1>5, <2>1, <2>2 DEF CreateCandidate
<1>6. CASE \/ RecordCandidate(p) \/ AskPerson(p) \/ Complete(p) \/ ReconcileLease(p)
           \/ LookAtOwner(p) \/ RemoveLease(p) \/ AcquireLease(p) \/ ReleaseLease(p)
           \/ RecordReceipt(p) \/ Exit(p) \/ Crash(p)
  <2>1. \/ \E pc \in PC : To(p, pc)
        \/ \E a \in Answer : Answers(p, a) \/ Fails(p, a)
        \/ Reads(p, lease[ProjectOf(p)])
    BY <1>1, <1>3, <1>6, AnswerTypes DEF RecordCandidate, AskPerson, Complete, WriteQueue,
       ReconcileLease, LookAtOwner, RemoveLease, Refuses, Breaks, AcquireLease, ReleaseLease,
       RecordReceipt, Exit, Crash, PC
  <2>2. CASE Reads(p, lease[ProjectOf(p)])
    <3>1. lease[ProjectOf(p)] \in Process \cup {"none"}
      BY <1>1 DEF IntegrationTypeOK, Call, ProjectOf
    <3>2. [call[p] EXCEPT !.pc = "look", !.owner = lease[ProjectOf(p)]] \in Call
      BY <1>1, <3>1 DEF Call, PC
    <3> QED
      BY <1>1, <2>2, <3>2 DEF Reads
  <2> QED
    BY <1>1, <2>1, <2>2, CallTypes
<1>7. CASE ObserveRepository(p)
  BY <1>1, <1>3, <1>7, CallTypes DEF ObserveRepository, PC
<1>8. CASE AdoptCandidate(p)
  <2>1. CASE call' = [call EXCEPT ![p] = [@ EXCEPT
                !.pc = IF Bundle[ProjectOf(p)] = <<>> THEN "clear" ELSE "save", !.at = 1]]
    <3>1. [call[p] EXCEPT
             !.pc = IF Bundle[ProjectOf(p)] = <<>> THEN "clear" ELSE "save", !.at = 1] \in Call
      BY <1>1 DEF Call, PC
    <3> QED
      BY <1>1, <2>1, <3>1
  <2>2. CASE \/ To(p, "clean")
             \/ \E cleanup \in BOOLEAN : Fails(p, Blocked(cleanup))
    BY <1>1, <1>3, <2>2, CallTypes DEF PC
  <2> QED
    BY <1>8, <2>1, <2>2 DEF AdoptCandidate
<1>9. CASE CleanBase(p)
  <2>1. \A b \in BOOLEAN : AdoptionAnswer(p, b) \in Answer
    BY <1>3 DEF AdoptionAnswer, Answer
  <2> QED
    BY <1>1, <1>9, <2>1, CallTypes DEF CleanBase, PC
<1> QED
  BY <1>4, <1>5, <1>6, <1>7, <1>8, <1>9 DEF Quiet

LEMMA QuietType ==
  ASSUME IntegrationTypeOK, NEW p \in Process, Quiet(p)
  PROVE  IntegrationTypeOK'
<1>1. call' \in [Process -> Call]
  BY QuietCallType
<1>2. call[p] \in Call /\ ProjectOf(p) \in Project
  BY DEF IntegrationTypeOK, Call, ProjectOf
<1>3. entry[ProjectOf(p)].generation + 1 \in Nat
  BY <1>2 DEF IntegrationTypeOK, Entry
<1>4. entry' \in [Project -> Entry]
  <2>1. CASE UNCHANGED entry
    BY <2>1 DEF IntegrationTypeOK
  <2>2. CASE \E r \in {"candidate", "receipt"} :
               \/ UpdateQueue(p, "human_decision_required", r) \/ UpdateQueue(p, "completed", r)
    BY <1>2, <1>3, <2>2 DEF UpdateQueue, IntegrationTypeOK, Entry
  <2> QED
    BY <2>1, <2>2 DEF Quiet, Begin, CreateCandidate, RecordCandidate, AskPerson, Complete,
       WriteQueue, ReconcileLease, LookAtOwner, RemoveLease, AcquireLease, ReleaseLease,
       ObserveRepository, AdoptCandidate, CleanBase, RecordReceipt, Exit, Crash, Keep
<1>5. record' \in [Project -> SUBSET {"integration", "adoption"}]
  <2>1. UNCHANGED record \/ Record(p, "integration") \/ Record(p, "adoption")
    BY DEF Quiet, Begin, CreateCandidate, RecordCandidate, AskPerson, Complete, WriteQueue,
       ReconcileLease, LookAtOwner, RemoveLease, AcquireLease, ReleaseLease,
       ObserveRepository, AdoptCandidate, CleanBase, RecordReceipt, Exit, Crash, Keep
  <2> QED
    BY <1>2, <2>1 DEF Record, IntegrationTypeOK
<1>6. lease' \in [Project -> Process \cup {"none"}]
  <2>1. \/ UNCHANGED lease
        \/ \E h \in Process \cup {"none"} : lease' = [lease EXCEPT ![ProjectOf(p)] = h]
    BY <1>2 DEF IntegrationTypeOK, Quiet, Begin, CreateCandidate, RecordCandidate, AskPerson,
       Complete, ReconcileLease, LookAtOwner, RemoveLease, Refuses, Breaks, TakeAway,
       AcquireLease, ReleaseLease, ObserveRepository, AdoptCandidate, CleanBase,
       RecordReceipt, Exit, Crash, Keep
  <2> QED
    BY <1>2, <2>1 DEF IntegrationTypeOK
<1>7. left' \in [Process -> SUBSET {"base", "transaction", "temporary"}]
  <2>1. \/ UNCHANGED left
        \/ \E l \in SUBSET {"base", "transaction", "temporary"} : left' = [left EXCEPT ![p] = l]
    BY DEF IntegrationTypeOK, Quiet, Begin, CreateCandidate, RecordCandidate, AskPerson,
       Complete, ReconcileLease, LookAtOwner, RemoveLease, AcquireLease, ReleaseLease,
       ObserveRepository, AdoptCandidate, CleanBase, RecordReceipt, Exit, Crash, Keep
  <2> QED
    BY <2>1 DEF IntegrationTypeOK
<1>8. faults' \in 0..MaxFaults
  <2>1. UNCHANGED faults \/ Fault
    BY DEF Quiet, Begin, CreateCandidate, RecordCandidate, AskPerson, Complete, WriteQueue,
       ReconcileLease, LookAtOwner, RemoveLease, Breaks, AcquireLease, ReleaseLease,
       ObserveRepository, AdoptCandidate, CleanBase, RecordReceipt, Exit, Crash, Keep
  <2> QED
    BY <2>1, IntegrationConstants DEF Fault, IntegrationTypeOK
<1>10. mutation' \in Process \cup {"none"} /\ seized' \in BOOLEAN
  <2>1. CASE \/ AskPerson(p) \/ Complete(p) \/ ReconcileLease(p) \/ LookAtOwner(p)
             \/ RemoveLease(p)
    BY <2>1 DEF AskPerson, Complete, WriteQueue, ReconcileLease, LookAtOwner, RemoveLease,
       Refuses, Breaks, TakeAway, IntegrationTypeOK
  <2>2. CASE \/ Begin(p) \/ CreateCandidate(p) \/ RecordCandidate(p) \/ AcquireLease(p)
             \/ ReleaseLease(p) \/ ObserveRepository(p) \/ AdoptCandidate(p) \/ CleanBase(p)
             \/ RecordReceipt(p) \/ Exit(p) \/ Crash(p)
    BY <2>2 DEF Begin, CreateCandidate, RecordCandidate, AcquireLease, ReleaseLease,
       ObserveRepository, AdoptCandidate, CleanBase, RecordReceipt, Exit, Crash, Keep,
       IntegrationTypeOK
  <2> QED
    BY <2>1, <2>2 DEF Quiet
<1>9. UNCHANGED <<tree, backup>>
  BY DEF Quiet, Begin, CreateCandidate, RecordCandidate, AskPerson, Complete, ReconcileLease,
     LookAtOwner, RemoveLease, AcquireLease, ReleaseLease, ObserveRepository, AdoptCandidate,
     CleanBase, RecordReceipt, Exit, Crash, Keep
<1> QED
  BY <1>1, <1>4, <1>5, <1>6, <1>7, <1>8, <1>9, <1>10 DEF IntegrationTypeOK

\* The steps of the application and of its rollback.
Applies(p) ==
  \/ SaveFile(p) \/ WriteFile(p) \/ CheckFile(p) \/ ClearTransaction(p)
  \/ RollBackItem(p) \/ EndRollback(p)

LEMMA ItemType ==
  ASSUME IntegrationTypeOK, InRange, NEW p \in Process
  PROVE  /\ call[p].pc \in {"save", "write", "check"} => Item(p).path \in Path
         /\ call[p].pc = "rollback" /\ call[p].at > 0 =>
              /\ call[p].at \in 1..Len(call[p].applied)
              /\ call[p].applied[call[p].at] \in [path : Path, saved : BOOLEAN]
              /\ call[p].at - 1 \in Nat
<1>1. call[p] \in Call /\ ProjectOf(p) \in Project
  BY DEF IntegrationTypeOK, Call, ProjectOf
<1>2. call[p].applied \in Seq([path : Path, saved : BOOLEAN]) /\ call[p].at \in Nat
  BY <1>1 DEF Call
<1>3. call[p].pc \in {"save", "write", "check"} => Item(p).path \in Path
  BY <1>1, BundleType DEF InRange, Item
<1>4. call[p].pc = "rollback" /\ call[p].at > 0 =>
        call[p].at \in 1..Len(call[p].applied) /\ call[p].at - 1 \in Nat
  BY <1>2 DEF InRange
<1> QED
  BY <1>2, <1>3, <1>4, ElementOfSeq

\* What a step of the application makes of its call.
LEMMA AppliesCallType ==
  ASSUME IntegrationTypeOK, InRange, NEW p \in Process, Applies(p)
  PROVE  call' \in [Process -> Call]
<1>1. call \in [Process -> Call] /\ call[p] \in Call
  BY DEF IntegrationTypeOK
<1>2. call[p].applied \in Seq([path : Path, saved : BOOLEAN]) /\ Len(call[p].applied) \in Nat
  BY <1>1 DEF Call
<1>3. Advance(p) \in Call
  BY <1>1, AdvanceType
<1>4. ASSUME RollsBack(p) PROVE call' \in [Process -> Call]
  <2>1. [call[p] EXCEPT !.pc = "rollback", !.at = Len(call[p].applied)] \in Call
    BY <1>1, <1>2 DEF Call, PC
  <2> QED
    BY <1>1, <1>4, <2>1 DEF RollsBack
<1>5. CASE SaveFile(p)
  <2> DEFINE item == [path |-> Item(p).path, saved |-> tree[Item(p).path] # "absent"]
             next == IF Item(p).operation = "upsert" THEN [call[p] EXCEPT !.pc = "write"]
                                                     ELSE Advance(p)
  <2>1. CASE call' = [call EXCEPT ![p] = [next EXCEPT !.applied = Append(@, item)]]
    <3>1. [call[p] EXCEPT !.pc = "write"] \in Call
      BY <1>1 DEF Call, PC
    <3>2. next \in Call
      BY <1>3, <3>1
    <3>3. item \in [path : Path, saved : BOOLEAN]
      BY <1>5, ItemType DEF SaveFile, At
    <3> HIDE DEF next, item
    <3>4. Append(next.applied, item) \in Seq([path : Path, saved : BOOLEAN])
      BY <3>2, <3>3, AppendProperties DEF Call
    <3>5. [next EXCEPT !.applied = Append(@, item)] \in Call
      BY <3>2, <3>4 DEF Call
    <3> QED
      BY <1>1, <2>1, <3>5
  <2> QED
    BY <1>4, <1>5, <2>1 DEF SaveFile, Throws
<1>6. CASE WriteFile(p)
  BY <1>1, <1>4, <1>6, CallTypes DEF WriteFile, Throws, PC
<1>7. CASE CheckFile(p)
  BY <1>1, <1>3, <1>4, <1>7 DEF CheckFile, Throws
<1>8. CASE ClearTransaction(p)
  <2>1. [call[p] EXCEPT !.pc = "clean", !.applies = "done"] \in Call
    BY <1>1 DEF Call, PC
  <2> QED
    BY <1>1, <1>4, <1>8, <2>1 DEF ClearTransaction
<1>9. CASE RollBackItem(p)
  <2>1. call[p].at - 1 \in Nat
    BY <1>9, ItemType DEF RollBackItem, At
  <2>2. [call[p] EXCEPT !.at = @ - 1] \in Call
    BY <1>1, <2>1 DEF Call
  <2>3. [[call[p] EXCEPT !.at = @ - 1] EXCEPT !.applies = "unrecovered"] \in Call
    BY <2>2 DEF Call
  <2> QED
    BY <1>1, <1>9, <2>2, <2>3 DEF RollBackItem
<1>10. CASE EndRollback(p)
  <2>1. /\ [call[p] EXCEPT !.pc = "clean", !.applies = "failed"] \in Call
        /\ [call[p] EXCEPT !.pc = "clean", !.applies = "unrecovered"] \in Call
    BY <1>1 DEF Call, PC
  <2> QED
    BY <1>1, <1>10, <2>1, CallTypes DEF EndRollback, PC
<1> QED
  BY <1>5, <1>6, <1>7, <1>8, <1>9, <1>10 DEF Applies

\* What it makes of the tree and of the transaction directory.
LEMMA AppliesFileType ==
  ASSUME IntegrationTypeOK, InRange, NEW p \in Process, Applies(p)
  PROVE  /\ tree' \in [Path -> Content]
         /\ backup' \in [Process -> [Path -> Content \cup {"none"}]]
<1>1. tree \in [Path -> Content] /\ backup \in [Process -> [Path -> Content \cup {"none"}]]
      /\ ProjectOf(p) \in Content /\ "absent" \in Content
  BY DEF IntegrationTypeOK, Content, Call, ProjectOf
<1>2. ASSUME NEW f \in Path, NEW d \in Content \cup {"none"}
      PROVE  [backup EXCEPT ![p][f] = d] \in [Process -> [Path -> Content \cup {"none"}]]
  BY <1>1
<1>3. CASE SaveFile(p)
  <2>1. Item(p).path \in Path
    BY <1>3, ItemType DEF SaveFile, At
  <2> QED
    BY <1>1, <1>2, <1>3, <2>1 DEF SaveFile, Throws
<1>4. CASE WriteFile(p) \/ CheckFile(p)
  BY <1>1, <1>4 DEF WriteFile, CheckFile, Throws
<1>5. CASE ClearTransaction(p)
  BY <1>1, <1>5 DEF ClearTransaction, NoBackup
<1>6. CASE RollBackItem(p)
  <2> DEFINE f == call[p].applied[call[p].at].path
  <2>1. f \in Path
    BY <1>6, ItemType DEF RollBackItem, At
  <2>2. backup[p][f] # "none" => backup[p][f] \in Content
    BY <1>1, <2>1
  <2>3. \/ tree' = [tree EXCEPT ![f] = "absent"] \/ UNCHANGED tree
        \/ tree' = [tree EXCEPT ![f] = backup[p][f]] /\ backup[p][f] # "none"
    BY <1>6 DEF RollBackItem
  <2>4. UNCHANGED backup \/ backup' = [backup EXCEPT ![p][f] = "none"]
    BY <1>6 DEF RollBackItem
  <2> HIDE DEF f
  <2> QED
    BY <1>1, <1>2, <2>1, <2>2, <2>3, <2>4
<1>7. CASE EndRollback(p)
  BY <1>1, <1>7 DEF EndRollback, NoBackup
<1> QED
  BY <1>3, <1>4, <1>5, <1>6, <1>7 DEF Applies

LEMMA AppliesType ==
  ASSUME IntegrationTypeOK, InRange, NEW p \in Process, Applies(p)
  PROVE  IntegrationTypeOK'
<1>1. UNCHANGED <<entry, record, lease, mutation, seized>>
  BY DEF Applies, SaveFile, WriteFile, CheckFile, ClearTransaction, RollBackItem, EndRollback,
       KeepWorld
<1>2. left' \in [Process -> SUBSET {"base", "transaction", "temporary"}]
  <2>1. \/ UNCHANGED left
        \/ \E l \in SUBSET {"base", "transaction", "temporary"} : left' = [left EXCEPT ![p] = l]
    BY DEF IntegrationTypeOK, Applies, SaveFile, WriteFile, CheckFile, ClearTransaction,
         RollBackItem, EndRollback
  <2> QED
    BY <2>1 DEF IntegrationTypeOK
<1>3. faults' \in 0..MaxFaults
  <2>1. UNCHANGED faults \/ Fault
    BY DEF Applies, SaveFile, WriteFile, CheckFile, ClearTransaction, RollBackItem, EndRollback,
         Throws
  <2> QED
    BY <2>1, IntegrationConstants DEF Fault, IntegrationTypeOK
<1> QED
  BY <1>1, <1>2, <1>3, AppliesCallType, AppliesFileType DEF IntegrationTypeOK

-----------------------------------------------------------------------------
(* A step is of one call, and stays with its project.                      *)

\* What the calls of others and the project, the applied items and the outcome of
\* the own one are after a step.
Alone(p) == \A q \in Process \ {p} : call'[q] = call[q]
KeepsProject(p) == call'[p].project = call[p].project
KeepsWork(p) == call'[p].applied = call[p].applied /\ call'[p].applies = call[p].applies

LEMMA Effects ==
  ASSUME call \in [Process -> Call], NEW p \in Process
  PROVE  /\ \A pc : To(p, pc) =>
              Alone(p) /\ KeepsProject(p) /\ KeepsWork(p) /\ call'[p].pc = pc
              /\ call'[p].at = call[p].at
         /\ \A a : Answers(p, a) =>
              Alone(p) /\ KeepsProject(p) /\ KeepsWork(p) /\ call'[p].pc = "answered"
         /\ \A a : Fails(p, a) =>
              Alone(p) /\ KeepsProject(p) /\ KeepsWork(p) /\ call'[p].pc = "release"
              /\ call'[p].answer = a
         /\ RollsBack(p) =>
              Alone(p) /\ KeepsProject(p) /\ KeepsWork(p) /\ call'[p].pc = "rollback"
              /\ call'[p].at = Len(call[p].applied)
         /\ \A o : Reads(p, o) =>
              Alone(p) /\ KeepsProject(p) /\ KeepsWork(p) /\ call'[p].pc = "look"
              /\ call'[p].owner = o
         /\ \A c : call' = [call EXCEPT ![p] = c] => Alone(p) /\ call'[p] = c
<1>1. call[p] \in Call
  OBVIOUS
<1>2. \A c : call' = [call EXCEPT ![p] = c] => Alone(p) /\ call'[p] = c
  BY DEF Alone
<1>3. ASSUME NEW pc, To(p, pc)
      PROVE  Alone(p) /\ KeepsProject(p) /\ KeepsWork(p) /\ call'[p].pc = pc
             /\ call'[p].at = call[p].at
  <2>1. Alone(p) /\ call'[p] = [call[p] EXCEPT !.pc = pc]
    BY <1>3 DEF To, Alone
  <2> QED
    BY <1>1, <2>1 DEF Call, KeepsProject, KeepsWork
<1>4. ASSUME NEW a, Answers(p, a)
      PROVE  Alone(p) /\ KeepsProject(p) /\ KeepsWork(p) /\ call'[p].pc = "answered"
  <2>1. Alone(p) /\ call'[p] = [call[p] EXCEPT !.pc = "answered", !.answer = a]
    BY <1>4 DEF Answers, Alone
  <2> QED
    BY <1>1, <2>1 DEF Call, KeepsProject, KeepsWork
<1>5. ASSUME NEW a, Fails(p, a)
      PROVE  Alone(p) /\ KeepsProject(p) /\ KeepsWork(p) /\ call'[p].pc = "release"
             /\ call'[p].answer = a
  <2>1. Alone(p) /\ call'[p] = [call[p] EXCEPT !.pc = "release", !.answer = a]
    BY <1>5 DEF Fails, Alone
  <2> QED
    BY <1>1, <2>1 DEF Call, KeepsProject, KeepsWork
<1>6. ASSUME RollsBack(p)
      PROVE  Alone(p) /\ KeepsProject(p) /\ KeepsWork(p) /\ call'[p].pc = "rollback"
             /\ call'[p].at = Len(call[p].applied)
  <2>1. Alone(p) /\ call'[p] = [call[p] EXCEPT !.pc = "rollback", !.at = Len(call[p].applied)]
    BY <1>6 DEF RollsBack, Alone
  <2> QED
    BY <1>1, <2>1 DEF Call, KeepsProject, KeepsWork
<1>7. ASSUME NEW o, Reads(p, o)
      PROVE  Alone(p) /\ KeepsProject(p) /\ KeepsWork(p) /\ call'[p].pc = "look"
             /\ call'[p].owner = o
  <2>1. Alone(p) /\ call'[p] = [call[p] EXCEPT !.pc = "look", !.owner = o]
    BY <1>7 DEF Reads, Alone
  <2> QED
    BY <1>1, <2>1 DEF Call, KeepsProject, KeepsWork
<1> QED
  BY <1>2, <1>3, <1>4, <1>5, <1>6, <1>7

LEMMA BeginCall ==
  ASSUME IntegrationTypeOK, NEW p \in Process, Begin(p) \/ CreateCandidate(p)
  PROVE  /\ Alone(p) /\ KeepsProject(p) /\ KeepsWork(p) /\ UNCHANGED tree
         /\ call'[p].pc \in {"candidate", "record", "answered"}
<1>1. call \in [Process -> Call] /\ call[p] \in Call
  BY DEF IntegrationTypeOK
<1>2. CASE Begin(p)
  <2>1. PICK authorized \in BOOLEAN :
          call' = [call EXCEPT ![p] = [call[p] EXCEPT !.pc = "candidate", !.authorized = authorized,
                                                !.generation = entry[ProjectOf(p)].generation]]
    BY <1>2 DEF Begin
  <2> QED
    BY <1>1, <1>2, <2>1 DEF Call, Alone, KeepsProject, KeepsWork, Begin, Keep
<1>3. CASE CreateCandidate(p)
  <2>1. CASE Answers(p, Blocked(FALSE))
    BY <1>1, <1>3, <2>1, Effects DEF CreateCandidate, Keep
  <2>2. CASE \E conflict \in BOOLEAN : call' =
               [call EXCEPT ![p] = [call[p] EXCEPT !.pc = "record", !.conflict = conflict]]
    <3>1. PICK conflict \in BOOLEAN : call' =
            [call EXCEPT ![p] = [call[p] EXCEPT !.pc = "record", !.conflict = conflict]]
      BY <2>2
    <3>2. Alone(p) /\ call'[p] = [call[p] EXCEPT !.pc = "record", !.conflict = conflict]
      BY <1>1, <3>1, Effects
    <3>3. UNCHANGED tree
      BY <1>3 DEF CreateCandidate, Keep
    <3> QED
      BY <1>1, <3>2, <3>3 DEF Call, KeepsProject, KeepsWork
  <2> QED
    BY <1>3, <2>1, <2>2 DEF CreateCandidate
<1> QED
  BY <1>2, <1>3

\* Where the steps that make or close a call lead.
LEMMA OutsideCall ==
  ASSUME IntegrationTypeOK, NEW p \in Process,
         \/ Begin(p) \/ CreateCandidate(p) \/ RecordCandidate(p) \/ AskPerson(p)
         \/ Complete(p) \/ ReconcileLease(p) \/ LookAtOwner(p) \/ RemoveLease(p)
         \/ ReleaseLease(p) \/ Exit(p) \/ Crash(p)
  PROVE  /\ Alone(p) /\ KeepsProject(p) /\ KeepsWork(p) /\ UNCHANGED tree
         /\ call'[p].pc \in {"candidate", "record", "ask", "reconcile", "look", "remove", "acquire",
                             "complete", "answered", "gone"}
<1>1. call \in [Process -> Call] /\ call[p] \in Call
  BY DEF IntegrationTypeOK
<1>4. CASE \/ RecordCandidate(p) \/ AskPerson(p) \/ Complete(p) \/ ReconcileLease(p)
           \/ LookAtOwner(p) \/ RemoveLease(p) \/ ReleaseLease(p) \/ Exit(p) \/ Crash(p)
  <2>1. /\ UNCHANGED tree
        /\ \/ \E pc \in {"ask", "reconcile", "remove", "acquire", "complete", "answered", "gone"} :
                To(p, pc)
           \/ \E a \in Answer : Answers(p, a)
           \/ \E o : Reads(p, o)
    BY <1>4, AnswerTypes DEF RecordCandidate, AskPerson, Complete, WriteQueue, ReconcileLease,
         LookAtOwner, RemoveLease, Refuses, Breaks, ReleaseLease, Exit, Crash, Keep
  <2> QED
    BY <1>1, <2>1, Effects
<1> QED
  BY <1>4, BeginCall

\* Where a step of the adoption leads that is not of the application.
LEMMA AdoptionCall ==
  ASSUME IntegrationTypeOK, NEW p \in Process,
         \/ AcquireLease(p) \/ ObserveRepository(p) \/ AdoptCandidate(p) \/ CleanBase(p)
         \/ RecordReceipt(p)
  PROVE  /\ Alone(p) /\ KeepsProject(p) /\ KeepsWork(p) /\ UNCHANGED tree
         /\ \/ AcquireLease(p) /\ call'[p].pc \in {"observe", "answered"}
            \/ call[p].pc \in AtWork /\ UNCHANGED lease
         /\ \/ call'[p].pc \in {"observe", "adopt", "release", "answered"}
            \/ /\ At(p, "adopt") /\ MatchesBase(ProjectOf(p)) /\ UNCHANGED record
               /\ call'[p].pc = IF Bundle[ProjectOf(p)] = <<>> THEN "clear" ELSE "save"
               /\ call'[p].at = 1
            \/ At(p, "adopt") /\ call'[p].pc = "clean" /\ UNCHANGED record
            \/ At(p, "clean") /\ call'[p].pc = "receipt" /\ call[p].applies = "done"
               /\ UNCHANGED record
<1>1. call \in [Process -> Call] /\ call[p] \in Call
  BY DEF IntegrationTypeOK
<1>2. CASE AcquireLease(p)
  BY <1>1, <1>2, Effects DEF AcquireLease
<1>3. CASE ObserveRepository(p)
  BY <1>1, <1>3, Effects DEF ObserveRepository, AtWork, At
<1>4. CASE AdoptCandidate(p)
  <2>1. CASE /\ MatchesBase(ProjectOf(p))
             /\ call' = [call EXCEPT ![p] = [call[p] EXCEPT
                  !.pc = IF Bundle[ProjectOf(p)] = <<>> THEN "clear" ELSE "save", !.at = 1]]
    <3>1. Alone(p) /\ call'[p] = [call[p] EXCEPT
            !.pc = IF Bundle[ProjectOf(p)] = <<>> THEN "clear" ELSE "save", !.at = 1]
      BY <1>1, <2>1 DEF Alone
    <3>2. KeepsProject(p) /\ KeepsWork(p) /\ call'[p].at = 1
          /\ call'[p].pc = IF Bundle[ProjectOf(p)] = <<>> THEN "clear" ELSE "save"
      BY <1>1, <3>1 DEF Call, KeepsProject, KeepsWork
    <3> QED
      BY <1>4, <2>1, <3>1, <3>2 DEF AdoptCandidate, AtWork, At
  <2>2. CASE To(p, "clean") \/ \E b \in BOOLEAN : Fails(p, Blocked(b))
    BY <1>1, <1>4, <2>2, Effects DEF AdoptCandidate, AtWork, At
  <2> QED
    BY <1>4, <2>1, <2>2 DEF AdoptCandidate
<1>5. CASE CleanBase(p)
  BY <1>1, <1>5, Effects DEF CleanBase, AtWork, At
<1>6. CASE RecordReceipt(p)
  BY <1>1, <1>6, Effects DEF RecordReceipt, AtWork, At
<1> QED
  BY <1>2, <1>3, <1>4, <1>5, <1>6

\* Where a step of the application leads.
LEMMA AppliesCall ==
  ASSUME IntegrationTypeOK, NEW p \in Process, Applies(p)
  PROVE  /\ Alone(p) /\ KeepsProject(p) /\ Adopting(p) /\ UNCHANGED <<entry, record, lease>>
         /\ call'[p].pc \in {"save", "write", "check", "clear", "rollback", "clean"}
         /\ call'[p].pc = "clean" /\ call'[p].applies = "done" => At(p, "clear") /\ UNCHANGED tree
<1>1. call \in [Process -> Call] /\ call[p] \in Call
  BY DEF IntegrationTypeOK
<1>2. Adopting(p) /\ UNCHANGED <<entry, record, lease>>
  BY DEF Applies, SaveFile, WriteFile, CheckFile, ClearTransaction, RollBackItem, EndRollback,
       KeepWorld, At, Adopting
<1>3. CASE RollsBack(p)
  BY <1>1, <1>2, <1>3, Effects
<1>a. Advance(p).pc \in {"save", "clear"} /\ Advance(p).project = call[p].project
      /\ Advance(p) \in Call
  <2>1. Advance(p) \in Call
    BY <1>1, AdvanceType
  <2> QED
    BY <1>1, <2>1 DEF Advance, Call
<1>4. CASE SaveFile(p) /\ ~RollsBack(p)
  <2> DEFINE item == [path |-> Item(p).path, saved |-> tree[Item(p).path] # "absent"]
             next == IF Item(p).operation = "upsert" THEN [call[p] EXCEPT !.pc = "write"]
                                                     ELSE Advance(p)
  <2>1. call' = [call EXCEPT ![p] = [next EXCEPT !.applied = Append(@, item)]]
    BY <1>4 DEF SaveFile, Throws
  <2>2. next \in Call /\ next.pc \in {"save", "clear", "write"} /\ next.project = call[p].project
    <3>1. [call[p] EXCEPT !.pc = "write"] \in Call
          /\ [call[p] EXCEPT !.pc = "write"].pc = "write"
          /\ [call[p] EXCEPT !.pc = "write"].project = call[p].project
      BY <1>1 DEF Call, PC
    <3> QED
      BY <1>a, <3>1
  <2> HIDE DEF next, item
  <2>3. Alone(p) /\ call'[p] = [next EXCEPT !.applied = Append(@, item)]
    BY <1>1, <2>1, Effects
  <2>4. KeepsProject(p) /\ call'[p].pc \in {"save", "clear", "write"}
    BY <2>2, <2>3 DEF Call, KeepsProject
  <2> QED
    BY <1>2, <2>3, <2>4
<1>5. CASE WriteFile(p) /\ ~RollsBack(p)
  BY <1>1, <1>2, <1>5, Effects DEF WriteFile, Throws
<1>6. CASE CheckFile(p) /\ ~RollsBack(p)
  <2>1. Alone(p) /\ call'[p] = Advance(p)
    BY <1>1, <1>6, Effects DEF CheckFile, Throws
  <2> QED
    BY <1>2, <1>a, <2>1 DEF KeepsProject
<1>7. CASE ClearTransaction(p) /\ ~RollsBack(p)
  <2>1. Alone(p) /\ call'[p] = [call[p] EXCEPT !.pc = "clean", !.applies = "done"]
    BY <1>1, <1>7, Effects DEF ClearTransaction
  <2>2. KeepsProject(p) /\ call'[p].pc = "clean"
    BY <1>1, <2>1 DEF Call, KeepsProject
  <2>3. At(p, "clear") /\ UNCHANGED tree
    BY <1>7 DEF ClearTransaction
  <2> QED
    BY <1>2, <2>1, <2>2, <2>3
<1>8. CASE RollBackItem(p)
  <2>1. /\ Alone(p) /\ KeepsProject(p) /\ call'[p].pc = "rollback"
    <3>1. PICK c \in {[call[p] EXCEPT !.at = @ - 1],
                      [[call[p] EXCEPT !.at = @ - 1] EXCEPT !.applies = "unrecovered"]} :
            call' = [call EXCEPT ![p] = c]
      BY <1>8 DEF RollBackItem
    <3>2. Alone(p) /\ call'[p] = c
      BY <1>1, <3>1, Effects
    <3> QED
      BY <1>1, <1>8, <3>1, <3>2 DEF Call, KeepsProject, RollBackItem, At
  <2> QED
    BY <1>2, <2>1
<1>9. CASE EndRollback(p)
  <2>1. \/ To(p, "clean") /\ call[p].applies = "unrecovered"
        \/ call' = [call EXCEPT ![p] = [call[p] EXCEPT !.pc = "clean", !.applies = "failed"]]
        \/ call' = [call EXCEPT ![p] = [call[p] EXCEPT !.pc = "clean", !.applies = "unrecovered"]]
    BY <1>9 DEF EndRollback
  <2>2. Alone(p) /\ KeepsProject(p) /\ call'[p].pc = "clean" /\ call'[p].applies # "done"
    <3>1. CASE To(p, "clean") /\ call[p].applies = "unrecovered"
      BY <1>1, <3>1, Effects DEF KeepsWork
    <3>2. CASE call' = [call EXCEPT ![p] = [call[p] EXCEPT !.pc = "clean", !.applies = "failed"]]
      <4>1. Alone(p) /\ call'[p] = [call[p] EXCEPT !.pc = "clean", !.applies = "failed"]
        BY <1>1, <3>2, Effects
      <4> QED
        BY <1>1, <4>1 DEF Call, KeepsProject
    <3>3. CASE call' = [call EXCEPT ![p] =
                         [call[p] EXCEPT !.pc = "clean", !.applies = "unrecovered"]]
      <4>1. Alone(p) /\ call'[p] = [call[p] EXCEPT !.pc = "clean", !.applies = "unrecovered"]
        BY <1>1, <3>3, Effects
      <4> QED
        BY <1>1, <4>1 DEF Call, KeepsProject
    <3> QED
      BY <2>1, <3>1, <3>2, <3>3
  <2> QED
    BY <1>2, <2>2
<1> QED
  BY <1>3, <1>4, <1>5, <1>6, <1>7, <1>8, <1>9 DEF Applies

LEMMA Frame ==
  ASSUME IntegrationTypeOK, NEW p \in Process, Quiet(p) \/ Applies(p)
  PROVE  /\ Alone(p)
         /\ \A q \in Process : ProjectOf(q)' = ProjectOf(q)
<1>1. Alone(p) /\ KeepsProject(p)
  BY AppliesCall, AdoptionCall, OutsideCall DEF Quiet
<1> QED
  BY <1>1 DEF Alone, KeepsProject, ProjectOf

-----------------------------------------------------------------------------
(* The lease.                                                              *)

\* A step of p keeps what has been looked at: who is lost takes no step.
LEMMA LookedStep ==
  ASSUME IntegrationTypeOK, Looked, NEW p \in Process, Quiet(p) \/ Applies(p)
  PROVE  Looked'
<1>1. Alone(p) /\ call \in [Process -> Call] /\ call[p] \in Call
  BY Frame DEF IntegrationTypeOK
<1>2. ~At(p, "gone")
  BY DEF Quiet, Applies, Begin, CreateCandidate, RecordCandidate, AskPerson, Complete,
     ReconcileLease, LookAtOwner, RemoveLease, AcquireLease, ReleaseLease, ObserveRepository,
     AdoptCandidate, CleanBase, RecordReceipt, Exit, Crash, SaveFile, WriteFile, CheckFile,
     ClearTransaction, RollBackItem, EndRollback, At
<1>3. \A q \in Process : call[q].pc = "gone" => call'[q].pc = "gone"
  BY <1>1, <1>2 DEF Alone, At
<1>4. ASSUME call'[p].pc = "look" PROVE call'[p].owner \in Process
  <2>1. ReconcileLease(p)
    <3>1. ~Applies(p)
      BY <1>4, AppliesCall
    <3>2. CASE \/ Begin(p) \/ CreateCandidate(p)
      BY <1>1, <1>4, <3>2, BeginCall
    <3>3. CASE \/ RecordCandidate(p) \/ AskPerson(p) \/ Complete(p) \/ LookAtOwner(p)
               \/ RemoveLease(p) \/ ReleaseLease(p) \/ Exit(p) \/ Crash(p)
      <4>1. \/ \E pc \in PC \ {"look"} : To(p, pc)
            \/ \E a : Answers(p, a)
        BY <3>3 DEF RecordCandidate, AskPerson, Complete, WriteQueue, LookAtOwner, RemoveLease,
           Refuses, Breaks, ReleaseLease, Exit, Crash, PC
      <4> QED
        BY <1>1, <1>4, <4>1, Effects
    <3> QED
      BY <1>4, <3>1, <3>2, <3>3, AdoptionCall DEF Quiet
  <2>2. lease[ProjectOf(p)] \in Process \cup {"none"}
    BY <1>1 DEF IntegrationTypeOK, Call, ProjectOf
  <2>3. lease[ProjectOf(p)] # "none" /\ Reads(p, lease[ProjectOf(p)])
    <3>1. \A pc : To(p, pc) => call'[p].pc = pc
      BY <1>1, Effects
    <3>2. \A a : ~Answers(p, a)
      BY <1>1, <1>4, Effects
    <3>3. ~To(p, "acquire")
      BY <1>4, <3>1
    <3> QED
      BY <2>1, <3>2, <3>3 DEF ReconcileLease
  <2> QED
    BY <1>1, <2>2, <2>3, Effects
<1>5. ASSUME call'[p].pc = "remove" PROVE call'[p].owner \in Process /\ call'[call'[p].owner].pc = "gone"
  <2>1. LookAtOwner(p)
    <3>1. ~Applies(p)
      BY <1>5, AppliesCall
    <3>2. CASE \/ Begin(p) \/ CreateCandidate(p)
      BY <1>1, <1>5, <3>2, BeginCall
    <3>3. CASE \/ RecordCandidate(p) \/ AskPerson(p) \/ Complete(p) \/ ReconcileLease(p)
               \/ RemoveLease(p) \/ ReleaseLease(p) \/ Exit(p) \/ Crash(p)
      <4>1. \/ \E pc \in PC \ {"remove"} : To(p, pc)
            \/ \E a : Answers(p, a)
            \/ \E o : Reads(p, o)
        BY <3>3 DEF RecordCandidate, AskPerson, Complete, WriteQueue, ReconcileLease,
           RemoveLease, Refuses, Breaks, ReleaseLease, Exit, Crash, PC
      <4> QED
        BY <1>1, <1>5, <4>1, Effects
    <3> QED
      BY <1>5, <3>1, <3>2, <3>3, AdoptionCall DEF Quiet
  <2>2. At(p, "look") /\ Lost(call[p].owner) /\ To(p, "remove")
    <3>1. ~To(p, "gone") /\ \A a : ~Answers(p, a)
      BY <1>1, <1>5, Effects
    <3> QED
      BY <2>1, <3>1 DEF LookAtOwner, Refuses, Breaks
  <2>3. call'[p].owner = call[p].owner /\ call[p].owner \in Process
    BY <1>1, <2>2 DEF To, Call, Looked, At
  <2> QED
    BY <1>3, <2>2, <2>3 DEF Lost, At
<1>6. ASSUME NEW q \in Process
      PROVE  /\ call'[q].pc \in {"look", "remove"} => call'[q].owner \in Process
             /\ call'[q].pc = "remove" => call'[call'[q].owner].pc = "gone"
  <2>1. CASE q = p
    BY <1>4, <1>5, <2>1
  <2>2. CASE q # p
    <3>1. call'[q] = call[q]
      BY <1>1, <2>2 DEF Alone
    <3> QED
      BY <1>3, <3>1 DEF Looked, Lost, At
  <2> QED
    BY <2>1, <2>2
<1> QED
  BY <1>6 DEF Looked, Lost, At

\* A lease goes from under a call that is at work only when it is seized.
LEMMA LeaseHeldStep ==
  ASSUME IntegrationTypeOK, LeaseHeld, Looked, ~seized', NEW p \in Process, Quiet(p) \/ Applies(p)
  PROVE  LeaseHeld'
<1> SUFFICES ASSUME NEW q \in Process, call'[q].pc \in AtWork
             PROVE  lease'[ProjectOf(q)'] = q
  BY DEF LeaseHeld
<1>1. Alone(p) /\ ProjectOf(q)' = ProjectOf(q)
  BY Frame
<1>2. /\ lease \in [Project -> Process \cup {"none"}] /\ "none" \notin Process
      /\ ProjectOf(q) \in Project /\ ProjectOf(p) \in Project
  BY IntegrationConstants DEF IntegrationTypeOK, Call, ProjectOf
<1>3. q # p => call[q].pc \in AtWork
  BY <1>1 DEF Alone
<1>4. call[q].pc \in AtWork => lease[ProjectOf(q)] = q
  BY DEF LeaseHeld
<1>5. CASE RemoveLease(p)
  <2>1. q # p
    BY <1>5, OutsideCall DEF AtWork
  <2>2. lease[ProjectOf(q)] = q /\ ~Lost(q)
    BY <1>3, <1>4, <2>1 DEF AtWork, Lost, At
  <2>3. Lost(call[p].owner)
    BY <1>5 DEF RemoveLease, Looked, At
  <2>4. UNCHANGED lease \/ TakeAway(p)
    BY <1>5 DEF RemoveLease
  <2>5. CASE TakeAway(p) /\ ProjectOf(q) = ProjectOf(p)
    BY <1>2, <2>2, <2>3, <2>5 DEF TakeAway
  <2> QED
    BY <1>1, <1>2, <2>2, <2>4, <2>5 DEF TakeAway
<1>6. CASE AcquireLease(p)
  <2>1. CASE q = p
    <3>1. call'[p].pc # "answered" /\ call \in [Process -> Call]
      BY <2>1 DEF AtWork, IntegrationTypeOK
    <3>2. lease' = [lease EXCEPT ![ProjectOf(p)] = p]
      BY <1>6, <3>1, Effects DEF AcquireLease
    <3> QED
      BY <1>1, <1>2, <2>1, <3>2
  <2>2. CASE q # p
    BY <1>1, <1>2, <1>3, <1>4, <1>6, <2>2 DEF AcquireLease
  <2> QED
    BY <2>1, <2>2
<1>7. CASE ReleaseLease(p)
  <2>1. q # p
    BY <1>7, OutsideCall DEF AtWork
  <2> QED
    BY <1>1, <1>2, <1>3, <1>4, <1>7, <2>1 DEF ReleaseLease, LeaseHeld, AtWork, At
<1>8. CASE Applies(p)
  BY <1>1, <1>3, <1>4, <1>8, AppliesCall DEF Adopting, AtWork
<1>9. CASE Quiet(p) /\ ~RemoveLease(p) /\ ~AcquireLease(p) /\ ~ReleaseLease(p)
  <2>1. UNCHANGED lease
    BY <1>9 DEF Quiet, Begin, CreateCandidate, RecordCandidate, AskPerson, Complete,
       ReconcileLease, LookAtOwner, ObserveRepository, AdoptCandidate, CleanBase,
       RecordReceipt, Exit, Crash, Keep
  <2>2. call[q].pc \in AtWork
    <3>1. CASE \/ Begin(p) \/ CreateCandidate(p) \/ RecordCandidate(p) \/ AskPerson(p)
               \/ Complete(p) \/ ReconcileLease(p) \/ LookAtOwner(p) \/ Exit(p) \/ Crash(p)
      BY <1>3, <3>1, OutsideCall DEF AtWork
    <3>2. CASE ObserveRepository(p) \/ AdoptCandidate(p) \/ CleanBase(p) \/ RecordReceipt(p)
      BY <1>3, <1>9, <3>2, AdoptionCall
    <3> QED
      BY <1>9, <3>1, <3>2 DEF Quiet
  <2> QED
    BY <1>1, <1>4, <2>1, <2>2
<1> QED
  BY <1>5, <1>6, <1>7, <1>8, <1>9

-----------------------------------------------------------------------------
(* The entry in hand and the applied items.                                *)

\* The path of every item is one of the candidate.
Own(x, items) ==
  \A k \in DOMAIN items : \E i \in DOMAIN Bundle[x] : Bundle[x][i].path = items[k].path

LEMMA InRangeStep ==
  ASSUME IntegrationTypeOK, InRange, NEW p \in Process, Quiet(p) \/ Applies(p)
  PROVE  InRange'
<1> DEFINE x == ProjectOf(p)
           Bounded(c) == /\ c.pc \in {"save", "write", "check"} => c.at \in DOMAIN Bundle[x]
                         /\ c.pc = "rollback" => c.at <= Len(c.applied)
                         /\ Own(x, c.applied)
<1>1. Alone(p) /\ \A q \in Process : ProjectOf(q)' = ProjectOf(q)
  BY Frame
<1>2. call \in [Process -> Call] /\ call[p] \in Call /\ x \in Project /\ Bounded(call[p])
  BY DEF IntegrationTypeOK, InRange, Call, ProjectOf, Own
<1>3. SUFFICES Bounded(call'[p])
  <2>1. ASSUME NEW q \in Process
        PROVE  /\ call'[q].pc \in {"save", "write", "check"}
                    => call'[q].at \in DOMAIN Bundle[ProjectOf(q)']
               /\ call'[q].pc = "rollback" => call'[q].at <= Len(call'[q].applied)
               /\ \A k \in DOMAIN call'[q].applied : \E i \in DOMAIN Bundle[ProjectOf(q)'] :
                    Bundle[ProjectOf(q)'][i].path = call'[q].applied[k].path
    <3>1. CASE q = p
      BY <1>1, <1>3, <3>1 DEF Own
    <3>2. CASE q # p
      BY <1>1, <3>2 DEF InRange, Alone
    <3> QED
      BY <3>1, <3>2
  <2> QED
    BY <2>1 DEF InRange
<1>4. Bundle[x] \in Seq([path : Path, operation : Operation])
      /\ DOMAIN Bundle[x] = 1..Len(Bundle[x]) /\ Len(Bundle[x]) \in Nat
      /\ (Bundle[x] # <<>> => 1 \in DOMAIN Bundle[x])
  <2>1. Bundle[x] \in Seq([path : Path, operation : Operation])
    BY <1>2, IntegrationConstants
  <2> QED
    BY <2>1, EmptySeq, LenProperties
<1>5. CASE Quiet(p)
  <2>1. KeepsWork(p)
    BY <1>5, OutsideCall, AdoptionCall DEF Quiet
  <2>2. \/ call'[p].pc \notin {"save", "write", "check", "rollback"}
        \/ Bundle[x] # <<>> /\ call'[p].pc = "save" /\ call'[p].at = 1
    BY <1>5, OutsideCall, AdoptionCall DEF Quiet
  <2> QED
    BY <1>2, <1>4, <2>1, <2>2 DEF KeepsWork
<1>6. CASE RollsBack(p)
  <2>1. Len(call[p].applied) \in Nat
    BY <1>2 DEF Call
  <2> QED
    BY <1>2, <1>6, <2>1, Effects DEF KeepsWork
<1>7. ASSUME call[p].at \in DOMAIN Bundle[x]
      PROVE  Advance(p).pc = "save" => Advance(p).at \in DOMAIN Bundle[x]
  <2>1. CASE call[p].at = Len(Bundle[x])
    BY <1>2, <2>1 DEF Advance, Call
  <2>2. CASE call[p].at # Len(Bundle[x])
    <3>1. Advance(p) = [call[p] EXCEPT !.pc = "save", !.at = call[p].at + 1]
      BY <2>2 DEF Advance
    <3>2. Advance(p).at = call[p].at + 1
      BY <1>2, <3>1 DEF Call
    <3> QED
      BY <1>4, <1>7, <2>2, <3>2
  <2> QED
    BY <2>1, <2>2
<1>8. Advance(p) \in Call /\ Advance(p).pc \in {"save", "clear"}
      /\ Advance(p).applied = call[p].applied
  <2>1. Advance(p) \in Call
    BY <1>2, AdvanceType
  <2> QED
    BY <1>2, <2>1 DEF Advance, Call
<1>9. CASE SaveFile(p) /\ ~RollsBack(p)
  <2> DEFINE item == [path |-> Item(p).path, saved |-> tree[Item(p).path] # "absent"]
             next == IF Item(p).operation = "upsert" THEN [call[p] EXCEPT !.pc = "write"]
                                                     ELSE Advance(p)
  <2>1. call' = [call EXCEPT ![p] = [next EXCEPT !.applied = Append(@, item)]]
    BY <1>9 DEF SaveFile, Throws
  <2>2. call[p].pc = "save" /\ call[p].at \in DOMAIN Bundle[x] /\ item.path = Bundle[x][call[p].at].path
    BY <1>2, <1>9 DEF SaveFile, At, Item
  <2>3. next \in Call /\ next.pc \in {"save", "write", "clear"} /\ next.applied = call[p].applied
        /\ (next.pc \in {"save", "write"} => next.at \in DOMAIN Bundle[x])
    <3>1. CASE Item(p).operation = "upsert"
      BY <1>2, <2>2, <3>1 DEF Call, PC
    <3>2. CASE Item(p).operation # "upsert"
      BY <1>2, <1>7, <1>8, <2>2, <3>2
    <3> QED
      BY <3>1, <3>2
  <2>4. item \in [path : Path, saved : BOOLEAN]
    BY <1>9, ItemType DEF SaveFile, At
  <2> HIDE DEF next, item
  <2>5. call'[p] = [next EXCEPT !.applied = Append(next.applied, item)]
    BY <1>2, <2>1, Effects
  <2>6. /\ call'[p].pc = next.pc /\ call'[p].at = next.at
        /\ call'[p].applied = Append(call[p].applied, item)
    BY <2>3, <2>5 DEF Call
  <2>7. call[p].applied \in Seq([path : Path, saved : BOOLEAN])
    BY <1>2 DEF Call
  <2>8. Own(x, Append(call[p].applied, item))
    <3>1. ASSUME NEW k \in DOMAIN Append(call[p].applied, item)
          PROVE  \E i \in DOMAIN Bundle[x] : Bundle[x][i].path = Append(call[p].applied, item)[k].path
      <4>1. \/ k \in DOMAIN call[p].applied /\ Append(call[p].applied, item)[k] = call[p].applied[k]
            \/ Append(call[p].applied, item)[k] = item
        BY <2>4, <2>7, <3>1
      <4> QED
        BY <1>2, <2>2, <4>1 DEF Own
    <3> QED
      BY <3>1 DEF Own
  <2> QED
    BY <2>3, <2>6, <2>8
<1>10. CASE WriteFile(p) /\ ~RollsBack(p)
  <2>1. To(p, "check") /\ call[p].pc = "write"
    BY <1>10 DEF WriteFile, Throws, At
  <2> QED
    BY <1>2, <2>1, Effects DEF KeepsWork
<1>11. CASE CheckFile(p) /\ ~RollsBack(p)
  <2>1. call' = [call EXCEPT ![p] = Advance(p)] /\ call[p].pc = "check"
    BY <1>11 DEF CheckFile, Throws, At
  <2>2. call'[p] = Advance(p)
    BY <1>2, <2>1, Effects
  <2> QED
    BY <1>2, <1>7, <1>8, <2>1, <2>2
<1>12. CASE ClearTransaction(p) /\ ~RollsBack(p)
  <2>1. call'[p] = [call[p] EXCEPT !.pc = "clean", !.applies = "done"]
    BY <1>2, <1>12, Effects DEF ClearTransaction
  <2> QED
    BY <1>2, <2>1 DEF Call
<1>13. CASE RollBackItem(p)
  <2>1. PICK c \in {[call[p] EXCEPT !.at = @ - 1],
                    [[call[p] EXCEPT !.at = @ - 1] EXCEPT !.applies = "unrecovered"]} :
          call' = [call EXCEPT ![p] = c]
    BY <1>13 DEF RollBackItem
  <2>2. call'[p] = c
    BY <1>2, <2>1, Effects
  <2>3. call[p].pc = "rollback" /\ call[p].at \in Nat
    BY <1>2, <1>13 DEF RollBackItem, At, Call
  <2>4. call'[p].pc = "rollback" /\ call'[p].at = call[p].at - 1
        /\ call'[p].applied = call[p].applied
    BY <1>2, <2>1, <2>2, <2>3 DEF Call
  <2>5. Len(call[p].applied) \in Nat
    BY <1>2 DEF Call
  <2> QED
    BY <1>2, <2>3, <2>4, <2>5
<1>14. CASE EndRollback(p)
  <2>1. PICK c \in {[call[p] EXCEPT !.pc = "clean"],
                    [call[p] EXCEPT !.pc = "clean", !.applies = "failed"],
                    [call[p] EXCEPT !.pc = "clean", !.applies = "unrecovered"]} :
          call' = [call EXCEPT ![p] = c]
    BY <1>14 DEF EndRollback, To
  <2>2. call'[p] = c
    BY <1>2, <2>1, Effects
  <2> QED
    BY <1>2, <2>1, <2>2 DEF Call
<1> QED
  BY <1>5, <1>6, <1>9, <1>10, <1>11, <1>12, <1>13, <1>14 DEF Applies

-----------------------------------------------------------------------------
(* The tree.                                                               *)

\* A step of the application changes the tree at paths of its candidate only.
LEMMA TreeStep ==
  ASSUME IntegrationTypeOK, InRange, NEW p \in Process, Applies(p)
  PROVE  \A f \in Path : tree'[f] # tree[f] =>
           \E i \in DOMAIN Bundle[ProjectOf(p)] : Bundle[ProjectOf(p)][i].path = f
<1>1. tree \in [Path -> Content]
  BY DEF IntegrationTypeOK
<1>2. CASE SaveFile(p) \/ WriteFile(p)
  <2>1. call[p].at \in DOMAIN Bundle[ProjectOf(p)]
    BY <1>2 DEF SaveFile, WriteFile, At, InRange
  <2> QED
    BY <1>1, <1>2, <2>1 DEF SaveFile, WriteFile, Throws, Item
<1>3. CASE RollBackItem(p)
  <2>1. call[p].at \in 1..Len(call[p].applied)
    BY <1>3, ItemType DEF RollBackItem, At
  <2>2. call[p].at \in DOMAIN call[p].applied
    BY <2>1 DEF IntegrationTypeOK, Call
  <2>3. PICK i \in DOMAIN Bundle[ProjectOf(p)] :
          Bundle[ProjectOf(p)][i].path = call[p].applied[call[p].at].path
    BY <2>2 DEF InRange
  <2>4. \A f \in Path : tree'[f] # tree[f] => f = call[p].applied[call[p].at].path
    BY <1>1, <1>3 DEF RollBackItem
  <2> QED
    BY <2>3, <2>4
<1>4. CASE CheckFile(p) \/ ClearTransaction(p) \/ EndRollback(p)
  BY <1>4 DEF CheckFile, Throws, ClearTransaction, EndRollback
<1> QED
  BY <1>2, <1>3, <1>4 DEF Applies

\* What other candidates have in the tree is left alone.
LEMMA OthersKept ==
  ASSUME Apart, IntegrationTypeOK, InRange, NEW p \in Process, Quiet(p) \/ Applies(p),
         NEW y \in Project, Quiet(p) \/ y # ProjectOf(p),
         NEW i \in DOMAIN Bundle[y]
  PROVE  tree'[Bundle[y][i].path] = tree[Bundle[y][i].path]
<1>1. CASE Quiet(p)
  BY <1>1, OutsideCall, AdoptionCall DEF Quiet
<1>2. CASE Applies(p) /\ ~Quiet(p)
  <2>1. Bundle[y][i].path \in Path /\ ProjectOf(p) \in Project
    BY BundleType DEF IntegrationTypeOK, Call, ProjectOf
  <2>2. \A j \in DOMAIN Bundle[ProjectOf(p)] : Bundle[ProjectOf(p)][j].path # Bundle[y][i].path
    BY <1>2, <2>1 DEF Apart
  <2> QED
    BY <1>2, <2>1, <2>2, TreeStep
<1> QED
  BY <1>1, <1>2

LEMMA AdvanceProgress ==
  ASSUME IntegrationTypeOK, NEW p \in Process, call[p].at \in DOMAIN Bundle[ProjectOf(p)],
         \A i \in DOMAIN Bundle[ProjectOf(p)] : i <= call[p].at =>
           tree'[Bundle[ProjectOf(p)][i].path] = Wanted(ProjectOf(p), Bundle[ProjectOf(p)][i])
  PROVE  /\ Advance(p).pc = "save" =>
              \A i \in DOMAIN Bundle[ProjectOf(p)] : i < Advance(p).at =>
                tree'[Bundle[ProjectOf(p)][i].path] = Wanted(ProjectOf(p), Bundle[ProjectOf(p)][i])
         /\ Advance(p).pc = "clear" =>
              \A i \in DOMAIN Bundle[ProjectOf(p)] :
                tree'[Bundle[ProjectOf(p)][i].path] = Wanted(ProjectOf(p), Bundle[ProjectOf(p)][i])
         /\ Advance(p).pc \in {"save", "clear"}
<1> DEFINE x == ProjectOf(p)
<1>1. call[p] \in Call /\ x \in Project
  BY DEF IntegrationTypeOK, Call, ProjectOf
<1>2. DOMAIN Bundle[x] = 1..Len(Bundle[x]) /\ Len(Bundle[x]) \in Nat
  BY <1>1, BundleType
<1>3. CASE call[p].at = Len(Bundle[x])
  <2>1. Advance(p) = [call[p] EXCEPT !.pc = "clear"]
    BY <1>3 DEF Advance
  <2>2. Advance(p).pc = "clear"
    BY <1>1, <2>1 DEF Call
  <2>3. \A i \in DOMAIN Bundle[x] : i <= call[p].at
    BY <1>2, <1>3
  <2> QED
    BY <2>2, <2>3
<1>4. CASE call[p].at # Len(Bundle[x])
  <2>1. Advance(p) = [call[p] EXCEPT !.pc = "save", !.at = call[p].at + 1]
    BY <1>4 DEF Advance
  <2>2. Advance(p).pc = "save" /\ Advance(p).at = call[p].at + 1
    BY <1>1, <2>1 DEF Call
  <2>3. \A i \in DOMAIN Bundle[x] : i < Advance(p).at => i <= call[p].at
    BY <1>2, <2>2
  <2> QED
    BY <2>2, <2>3
<1> QED
  BY <1>3, <1>4

LEMMA ProgressStep ==
  ASSUME Apart, IntegrationTypeOK, AdoptionInvariant, NEW p \in Process, Quiet(p) \/ Applies(p)
  PROVE  Progress'
<1> DEFINE x == ProjectOf(p)
           Upto(n) == \A i \in DOMAIN Bundle[x] : i < n =>
                        tree'[Bundle[x][i].path] = Wanted(x, Bundle[x][i])
           All == \A i \in DOMAIN Bundle[x] :
                        tree'[Bundle[x][i].path] = Wanted(x, Bundle[x][i])
           Progressed(c) ==
             /\ c.pc \in {"save", "write", "check"} => Upto(c.at)
             /\ c.pc \in {"write", "check"} => Bundle[x][c.at].operation = "upsert"
             /\ c.pc \in {"clear", "receipt"} => All
             /\ c.pc = "clean" /\ c.applies = "done" => All
<1>1. Alone(p) /\ \A q \in Process : ProjectOf(q)' = ProjectOf(q)
  BY Frame
<1>2. call \in [Process -> Call] /\ call[p] \in Call /\ x \in Project
  BY DEF IntegrationTypeOK, Call, ProjectOf
<1>3. LeaseHeld /\ InRange /\ Progress /\ Fresh
  BY DEF AdoptionInvariant
<1>4. ASSUME NEW q \in Process, q # p,
             call[q].pc \in {"save", "write", "check", "clear", "receipt", "clean"},
             NEW i \in DOMAIN Bundle[ProjectOf(q)]
      PROVE  tree'[Bundle[ProjectOf(q)][i].path] = tree[Bundle[ProjectOf(q)][i].path]
  <2>1. ProjectOf(q) \in Project
    BY DEF IntegrationTypeOK, Call, ProjectOf
  <2>2. CASE Quiet(p)
    BY <1>3, <2>1, <2>2, OthersKept
  <2>3. CASE Applies(p)
    <3>1. call[p].pc \in AtWork /\ call[q].pc \in AtWork
      BY <1>4, <2>3, AppliesCall DEF Adopting, AtWork
    <3>2. ProjectOf(q) # x
      BY <1>3, <1>4, <3>1 DEF LeaseHeld
    <3> QED
      BY <1>3, <2>1, <3>2, OthersKept
  <2> QED
    BY <2>2, <2>3
<1>5. SUFFICES Progressed(call'[p])
  <2> DEFINE Good(q) ==
        /\ call[q].pc \in {"save", "write", "check"} => WholeBefore(ProjectOf(q), call[q].at)
        /\ call[q].pc \in {"write", "check"} => Item(q).operation = "upsert"
        /\ call[q].pc \in {"clear", "receipt"} => Whole(ProjectOf(q))
        /\ call[q].pc = "clean" /\ call[q].applies = "done" => Whole(ProjectOf(q))
  <2>1. ASSUME NEW q \in Process PROVE Good(q)'
    <3>1. CASE q = p
      <4>1. ProjectOf(p)' = x
        BY <1>1
      <4> QED
        BY <1>5, <3>1, <4>1 DEF WholeBefore, Whole, Wanted, Item
    <3>2. CASE q # p
      <4>1. call'[q] = call[q] /\ ProjectOf(q)' = ProjectOf(q)
        BY <1>1, <3>2 DEF Alone
      <4>2. Good(q)
        BY <1>3 DEF Progress
      <4> QED
        BY <1>4, <3>2, <4>1, <4>2 DEF WholeBefore, Whole, Wanted, Item
    <3> QED
      BY <3>1, <3>2
  <2> QED
    BY <2>1 DEF Progress
<1>6. CASE Quiet(p)
  <2>1. KeepsWork(p) /\ UNCHANGED tree
    BY <1>6, OutsideCall, AdoptionCall DEF Quiet
  <2>2. \/ call'[p].pc \notin {"save", "write", "check", "clear", "rollback", "clean", "receipt"}
        \/ call'[p].pc = "save" /\ call'[p].at = 1
        \/ call'[p].pc = "clear" /\ Bundle[x] = <<>>
        \/ At(p, "adopt") /\ call'[p].pc = "clean"
        \/ At(p, "clean") /\ call'[p].pc = "receipt" /\ call[p].applies = "done"
    BY <1>6, OutsideCall, AdoptionCall DEF Quiet
  <2>3. Upto(1)
    BY <1>2, BundleType
  <2>4. Bundle[x] = <<>> => All
    OBVIOUS
  <2>5. At(p, "adopt") => call[p].applies # "done"
    BY <1>3 DEF Fresh, BeforeAdoption, At
  <2>6. At(p, "clean") /\ call[p].applies = "done" => All
    BY <1>3, <2>1 DEF Progress, Whole, At
  <2> QED
    BY <2>1, <2>2, <2>3, <2>4, <2>5, <2>6 DEF KeepsWork
<1>7. CASE RollsBack(p)
  BY <1>2, <1>7, Effects
<1>8. ASSUME call[p].pc \in {"save", "write", "check"}
      PROVE  /\ call[p].at \in DOMAIN Bundle[x] /\ call[p].at \in Nat
             /\ Item(p) = Bundle[x][call[p].at] /\ Item(p).path \in Path
             /\ \A i \in DOMAIN Bundle[x] : i < call[p].at =>
                  /\ tree[Bundle[x][i].path] = Wanted(x, Bundle[x][i])
                  /\ Bundle[x][i].path \in Path /\ Bundle[x][i].path # Item(p).path
  <2>1. call[p].at \in DOMAIN Bundle[x] /\ Item(p) = Bundle[x][call[p].at]
    BY <1>3, <1>8 DEF InRange, Item
  <2>2. \A i \in DOMAIN Bundle[x] : i \in Nat /\ Bundle[x][i].path \in Path
    BY <1>2, BundleType
  <2>3. \A i \in DOMAIN Bundle[x] : i < call[p].at => i # call[p].at
    BY <2>1, <2>2
  <2> QED
    BY <1>2, <1>3, <1>8, <2>1, <2>2, <2>3, IntegrationConstants DEF Progress, WholeBefore
<1>9. CASE SaveFile(p) /\ ~RollsBack(p)
  <2> DEFINE item == [path |-> Item(p).path, saved |-> tree[Item(p).path] # "absent"]
             next == IF Item(p).operation = "upsert" THEN [call[p] EXCEPT !.pc = "write"]
                                                     ELSE Advance(p)
  <2>1. call' = [call EXCEPT ![p] = [next EXCEPT !.applied = Append(@, item)]]
        /\ tree' = [tree EXCEPT ![Item(p).path] = "absent"] /\ call[p].pc = "save"
    BY <1>9 DEF SaveFile, Throws, At
  <2>2. next \in Call
    BY <1>2, AdvanceType DEF Call, PC
  <2>3. call'[p].pc = next.pc /\ call'[p].at = next.at /\ call'[p].applies = next.applies
    <3>1. call'[p] = [next EXCEPT !.applied = Append(next.applied, item)]
      BY <1>2, <2>1, Effects
    <3> HIDE DEF next, item
    <3> QED
      BY <2>2, <3>1 DEF Call
  <2>4. Upto(call[p].at)
    BY <1>8, <2>1 DEF IntegrationTypeOK
  <2>5. CASE Item(p).operation = "upsert"
    <3>1. next.pc = "write" /\ next.at = call[p].at
      BY <1>2, <2>5 DEF Call
    <3> HIDE DEF next, item
    <3> QED
      BY <1>8, <2>1, <2>3, <2>4, <2>5, <3>1
  <2>6. CASE Item(p).operation # "upsert"
    <3>1. tree'[Item(p).path] = "absent"
      BY <1>8, <2>1 DEF IntegrationTypeOK
    <3>2. \A i \in DOMAIN Bundle[x] : i <= call[p].at =>
            tree'[Bundle[x][i].path] = Wanted(x, Bundle[x][i])
      <4>1. \A i \in DOMAIN Bundle[x] : i <= call[p].at => i < call[p].at \/ i = call[p].at
        BY <1>2, <1>8, <2>1, BundleType
      <4> QED
        BY <1>8, <2>1, <2>4, <2>6, <3>1, <4>1 DEF Wanted
    <3>3. /\ Advance(p).pc = "save" => Upto(Advance(p).at)
          /\ Advance(p).pc = "clear" => All
          /\ Advance(p).pc \in {"save", "clear"}
      BY <1>8, <2>1, <3>2, AdvanceProgress
    <3>4. call'[p].pc = Advance(p).pc /\ call'[p].at = Advance(p).at
      BY <2>3, <2>6
    <3> QED
      BY <3>3, <3>4
  <2> QED
    BY <2>5, <2>6
<1>10. CASE WriteFile(p) /\ ~RollsBack(p)
  <2>1. To(p, "check") /\ call[p].pc = "write" /\ tree' = [tree EXCEPT ![Item(p).path] = x]
    BY <1>10 DEF WriteFile, Throws, At
  <2>2. Upto(call[p].at)
    BY <1>8, <2>1 DEF IntegrationTypeOK
  <2>3. Bundle[x][call[p].at].operation = "upsert"
    BY <1>3, <2>1 DEF Progress, Item
  <2> QED
    BY <1>2, <2>1, <2>2, <2>3, Effects
<1>11. CASE CheckFile(p) /\ ~RollsBack(p)
  <2>1. /\ call' = [call EXCEPT ![p] = Advance(p)] /\ call[p].pc = "check"
        /\ tree[Item(p).path] = x /\ UNCHANGED tree
    BY <1>11 DEF CheckFile, Throws, At
  <2>2. call'[p] = Advance(p)
    BY <1>2, <2>1, Effects
  <2>3. Item(p).operation = "upsert"
    BY <1>3, <2>1 DEF Progress
  <2>4. \A i \in DOMAIN Bundle[x] : i <= call[p].at =>
          tree'[Bundle[x][i].path] = Wanted(x, Bundle[x][i])
    <3>1. \A i \in DOMAIN Bundle[x] : i <= call[p].at => i < call[p].at \/ i = call[p].at
      BY <1>2, <1>8, <2>1, BundleType
    <3> QED
      BY <1>8, <2>1, <2>3, <3>1 DEF Wanted
  <2>5. /\ Advance(p).pc = "save" => Upto(Advance(p).at)
        /\ Advance(p).pc = "clear" => All
        /\ Advance(p).pc \in {"save", "clear"}
    BY <1>8, <2>1, <2>4, AdvanceProgress
  <2> QED
    BY <2>2, <2>5
<1>12. CASE ClearTransaction(p) /\ ~RollsBack(p)
  <2>1. call'[p] = [call[p] EXCEPT !.pc = "clean", !.applies = "done"]
        /\ UNCHANGED tree /\ call[p].pc = "clear"
    BY <1>2, <1>12, Effects DEF ClearTransaction, At
  <2>2. call'[p].pc = "clean"
    BY <1>2, <2>1 DEF Call
  <2>3. All
    BY <1>3, <2>1 DEF Progress, Whole
  <2> QED
    BY <2>2, <2>3
<1>13. CASE RollBackItem(p) \/ EndRollback(p)
  <2>1. call'[p].pc \in {"rollback", "clean"} /\ (call'[p].pc = "clean" => call'[p].applies # "done")
    <3>1. call[p].pc = "rollback"
      BY <1>13 DEF RollBackItem, EndRollback, At
    <3>2. PICK c \in {[call[p] EXCEPT !.at = @ - 1],
                      [[call[p] EXCEPT !.at = @ - 1] EXCEPT !.applies = "unrecovered"]} :
            RollBackItem(p) => call' = [call EXCEPT ![p] = c]
      BY <1>13 DEF RollBackItem
    <3>3. CASE RollBackItem(p)
      <4>1. call'[p] = c
        BY <1>2, <3>2, <3>3, Effects
      <4> QED
        BY <1>2, <3>1, <3>2, <4>1 DEF Call
    <3>4. CASE EndRollback(p)
      <4>1. call'[p].pc \in {"save", "write", "check", "clear", "rollback", "clean"}
            /\ (call'[p].pc = "clean" /\ call'[p].applies = "done" => At(p, "clear"))
        BY <3>4, AppliesCall DEF Applies
      <4>2. PICK d \in {[call[p] EXCEPT !.pc = "clean"],
                        [call[p] EXCEPT !.pc = "clean", !.applies = "failed"],
                        [call[p] EXCEPT !.pc = "clean", !.applies = "unrecovered"]} :
              call' = [call EXCEPT ![p] = d]
        BY <3>4 DEF EndRollback, To
      <4>3. call'[p] = d
        BY <1>2, <4>2, Effects
      <4>4. call'[p].pc = "clean"
        BY <1>2, <4>2, <4>3 DEF Call
      <4> QED
        BY <3>1, <4>1, <4>4 DEF At
    <3> QED
      BY <1>13, <3>3, <3>4
  <2> QED
    BY <2>1
<1> QED
  BY <1>6, <1>7, <1>9, <1>10, <1>11, <1>12, <1>13 DEF Applies

-----------------------------------------------------------------------------
(* The receipts and the completion.                                        *)

\* Records stay, and the receipt is written by RecordReceipt alone.
LEMMA RecordStep ==
  ASSUME IntegrationTypeOK, NEW p \in Process, Quiet(p) \/ Applies(p), NEW x \in Project
  PROVE  /\ "adoption" \in record[x] => "adoption" \in record'[x]
         /\ "adoption" \in record'[x] /\ "adoption" \notin record[x] =>
              x = ProjectOf(p) /\ RecordReceipt(p)
<1>1. record \in [Project -> SUBSET {"integration", "adoption"}]
  BY DEF IntegrationTypeOK
<1>2. \/ UNCHANGED record \/ Record(p, "integration")
      \/ Record(p, "adoption") /\ RecordReceipt(p)
  BY AppliesCall DEF Quiet, Begin, CreateCandidate, RecordCandidate, AskPerson, Complete,
     ReconcileLease, LookAtOwner, RemoveLease, AcquireLease, ReleaseLease, ObserveRepository,
     AdoptCandidate, CleanBase, RecordReceipt, Exit, Crash, Keep
<1> QED
  BY <1>1, <1>2 DEF Record

\* What has its receipt is not at the base commit.
LEMMA WholeIsNotBase ==
  ASSUME NEW x \in Project, Bundle[x] # <<>>, Whole(x)
  PROVE  ~MatchesBase(x)
<1>1. Bundle[x] \in Seq([path : Path, operation : Operation])
  BY IntegrationConstants
<1>2. 1 \in DOMAIN Bundle[x]
  BY <1>1, EmptySeq
<1>3. tree[Bundle[x][1].path] = Wanted(x, Bundle[x][1])
  BY <1>2 DEF Whole
<1>4. x # "base" /\ x # "absent"
  BY IntegrationConstants
<1>5. CASE Bundle[x][1].operation = "upsert"
  BY <1>2, <1>3, <1>4, <1>5 DEF MatchesBase, BaseContent, Wanted
<1>6. CASE Bundle[x][1].operation # "upsert"
  <2>1. Bundle[x][1].path \in Existing
    BY <1>2, <1>6, BundleType DEF Operation
  <2> QED
    BY <1>2, <1>3, <1>6, <2>1 DEF MatchesBase, BaseContent, Wanted
<1> QED
  BY <1>5, <1>6

LEMMA ReceiptsStep ==
  ASSUME Apart, IntegrationTypeOK, AdoptionInvariant, NEW p \in Process, Quiet(p) \/ Applies(p)
  PROVE  Receipts'
<1>1. Alone(p) /\ \A q \in Process : ProjectOf(q)' = ProjectOf(q)
  BY Frame
<1>2. \A q \in Process : ProjectOf(q) \in Project
  BY DEF IntegrationTypeOK, Call, ProjectOf
<1>3. LeaseHeld /\ InRange /\ Progress /\ Receipts
  BY DEF AdoptionInvariant
<1>4. RecordReceipt(p) => At(p, "receipt") /\ UNCHANGED tree
  BY DEF RecordReceipt
<1>5. ASSUME NEW x \in Project, "adoption" \in record'[x], NEW i \in DOMAIN Bundle[x]
      PROVE  tree'[Bundle[x][i].path] = Wanted(x, Bundle[x][i])
  <2>1. CASE "adoption" \notin record[x]
    BY <1>3, <1>4, <1>5, <2>1, RecordStep DEF Progress, Whole, At
  <2>2. CASE "adoption" \in record[x]
    <3>1. tree[Bundle[x][i].path] = Wanted(x, Bundle[x][i])
      BY <1>3, <2>2 DEF Receipts, Whole
    <3>2. Quiet(p) \/ x # ProjectOf(p)
      <4> SUFFICES ASSUME Applies(p), x = ProjectOf(p) PROVE FALSE
        OBVIOUS
      <4>1. Adopting(p)
        BY AppliesCall
      <4>2. Bundle[x] = <<>>
        BY <1>3, <2>2, <4>1 DEF Receipts
      <4> QED
        BY <1>5, <4>2
    <3> QED
      BY <1>3, <3>1, <3>2, OthersKept
  <2> QED
    BY <2>1, <2>2
<1>6. ASSUME NEW q \in Process, Adopting(q)', Bundle[ProjectOf(q)] # <<>>,
             "adoption" \in record'[ProjectOf(q)]
      PROVE  FALSE
  <2>1. CASE q # p
    <3>1. Adopting(q)
      BY <1>1, <1>6, <2>1 DEF Alone, Adopting
    <3>2. "adoption" \notin record[ProjectOf(q)]
      BY <1>3, <1>6, <3>1 DEF Receipts
    <3>3. ProjectOf(q) = ProjectOf(p) /\ At(p, "receipt")
      BY <1>2, <1>4, <1>6, <3>2, RecordStep
    <3> QED
      BY <1>3, <2>1, <3>1, <3>3 DEF LeaseHeld, AtWork, Adopting, At
  <2>2. CASE q = p /\ Applies(p)
    <3>1. Adopting(p) /\ UNCHANGED record
      BY <2>2, AppliesCall
    <3> QED
      BY <1>3, <1>6, <2>2, <3>1 DEF Receipts
  <2>3. CASE q = p /\ Quiet(p)
    <3>1. MatchesBase(ProjectOf(p)) /\ UNCHANGED record
      BY <1>6, <2>3, OutsideCall, AdoptionCall DEF Quiet, Adopting
    <3>2. Whole(ProjectOf(p))
      BY <1>2, <1>3, <1>6, <2>3, <3>1 DEF Receipts
    <3> QED
      BY <1>2, <1>6, <2>3, <3>1, <3>2, WholeIsNotBase
  <2> QED
    BY <2>1, <2>2, <2>3
<1> QED
  BY <1>1, <1>5, <1>6 DEF Receipts, Whole, Wanted

\* A call comes to the adoption from the steps before it only.
LEMMA BeforeStep ==
  ASSUME IntegrationTypeOK, NEW p \in Process, Quiet(p) \/ Applies(p),
         call'[p].pc \in BeforeAdoption
  PROVE  call[p].pc \in BeforeAdoption /\ KeepsWork(p)
<1>1. ~Applies(p)
  BY AppliesCall DEF BeforeAdoption
<1>2. KeepsWork(p)
  BY <1>1, OutsideCall, AdoptionCall DEF Quiet
<1>3. CASE \/ Begin(p) \/ CreateCandidate(p) \/ RecordCandidate(p) \/ AskPerson(p)
           \/ ReconcileLease(p) \/ LookAtOwner(p) \/ RemoveLease(p) \/ AcquireLease(p)
           \/ ObserveRepository(p) \/ AdoptCandidate(p)
  BY <1>2, <1>3 DEF Begin, CreateCandidate, RecordCandidate, AskPerson, ReconcileLease,
     LookAtOwner, RemoveLease, AcquireLease, ObserveRepository, AdoptCandidate, At,
     BeforeAdoption
<1>4. CASE \/ Complete(p) \/ ReleaseLease(p) \/ CleanBase(p) \/ RecordReceipt(p) \/ Exit(p)
           \/ Crash(p)
  <2>1. \/ \E pc \in {"complete", "answered", "gone", "receipt"} : To(p, pc)
        \/ \E a \in Answer : Answers(p, a)
        \/ \E a : Fails(p, a)
    BY <1>4, AnswerTypes
      DEF Complete, WriteQueue, ReleaseLease, CleanBase, RecordReceipt, Exit, Crash
  <2>2. call'[p].pc \in {"complete", "answered", "gone", "receipt", "release"}
    BY <2>1, Effects DEF IntegrationTypeOK
  <2> QED
    BY <2>2 DEF BeforeAdoption
<1> QED
  BY <1>1, <1>3, <1>4 DEF Quiet

LEMMA FreshStep ==
  ASSUME IntegrationTypeOK, Fresh, NEW p \in Process, Quiet(p) \/ Applies(p)
  PROVE  Fresh'
<1>1. Alone(p)
  BY Frame
<1>2. ASSUME NEW q \in Process, call'[q].pc \in BeforeAdoption
      PROVE  call'[q].applies = "not"
  <2>1. CASE q # p
    BY <1>1, <1>2, <2>1 DEF Alone, Fresh
  <2>2. CASE q = p
    BY <1>2, <2>2, BeforeStep DEF Fresh, KeepsWork
  <2> QED
    BY <2>1, <2>2
<1> QED
  BY <1>2 DEF Fresh

\* How a call comes to an answer that succeeded.
LEMMA SuccessStep ==
  ASSUME IntegrationTypeOK, NEW p \in Process, Quiet(p) \/ Applies(p)
  PROVE  /\ call'[p].pc = "release" /\ call'[p].answer.settled =>
              "adoption" \in record'[ProjectOf(p)]
         /\ call'[p].pc = "complete" =>
              /\ call'[p].applies = call[p].applies
              /\ At(p, "record") \/ (At(p, "release") /\ call[p].answer.settled)
<1>1. call \in [Process -> Call] /\ call[p] \in Call /\ ProjectOf(p) \in Project
      /\ record \in [Project -> SUBSET {"integration", "adoption"}]
  BY DEF IntegrationTypeOK, Call, ProjectOf
<1>2. CASE Applies(p)
  BY <1>2, AppliesCall
<1>3. CASE RecordCandidate(p) \/ ReleaseLease(p)
  <2>1. call'[p].pc # "release" /\ KeepsWork(p)
    BY <1>3, OutsideCall
  <2>2. CASE RecordCandidate(p)
    <3>1. At(p, "record")
      BY <2>2 DEF RecordCandidate
    <3> QED
      BY <2>1, <3>1 DEF KeepsWork
  <2>3. CASE ReleaseLease(p)
    <3>1. At(p, "release") /\ (call[p].answer.settled \/ ~To(p, "complete"))
          /\ (To(p, "complete") \/ To(p, "answered") \/ Answers(p, Blocked(FALSE)))
      <4>1. CASE call[p].answer.settled
        BY <2>3, <4>1 DEF ReleaseLease
      <4>2. CASE ~call[p].answer.settled
        <5>1. At(p, "release") /\ (To(p, "answered") \/ Answers(p, Blocked(FALSE)))
          BY <2>3, <4>2 DEF ReleaseLease
        <5>2. call'[p].pc = "answered"
          BY <1>1, <5>1, Effects
        <5>3. To(p, "complete") => call'[p].pc = "complete"
          BY <1>1, Effects
        <5> QED
          BY <5>1, <5>2, <5>3
      <4> QED
        BY <4>1, <4>2
    <3>2. call'[p].pc = "complete" => call[p].answer.settled
      BY <1>1, <3>1, Effects
    <3> QED
      BY <2>1, <3>1, <3>2 DEF KeepsWork
  <2> QED
    BY <1>3, <2>2, <2>3
<1>4. CASE CreateCandidate(p) \/ Begin(p)
  <2>1. PICK c \in Call : call' = [call EXCEPT ![p] = c] /\ c.pc \in {"candidate", "record", "answered"}
    <3>1. CASE Begin(p)
      <4>1. PICK authorized \in BOOLEAN : call' = [call EXCEPT ![p] =
              [call[p] EXCEPT !.pc = "candidate", !.authorized = authorized,
                              !.generation = entry[ProjectOf(p)].generation]]
        BY <3>1 DEF Begin
      <4> DEFINE c == [call[p] EXCEPT !.pc = "candidate", !.authorized = authorized,
                              !.generation = entry[ProjectOf(p)].generation]
      <4>2. entry[ProjectOf(p)].generation \in Nat
        BY <1>1 DEF IntegrationTypeOK, Entry
      <4>3. c \in Call /\ c.pc = "candidate"
        BY <1>1, <4>2 DEF Call, PC
      <4> QED
        BY <4>1, <4>3
    <3>2. CASE CreateCandidate(p) /\ ~Answers(p, Blocked(FALSE))
      <4>1. PICK conflict \in BOOLEAN : call' =
              [call EXCEPT ![p] = [call[p] EXCEPT !.pc = "record", !.conflict = conflict]]
        BY <3>2 DEF CreateCandidate
      <4>2. [call[p] EXCEPT !.pc = "record", !.conflict = conflict] \in Call
            /\ [call[p] EXCEPT !.pc = "record", !.conflict = conflict].pc = "record"
        BY <1>1 DEF Call, PC
      <4> QED
        BY <4>1, <4>2
    <3>3. CASE Answers(p, Blocked(FALSE))
      <4>1. [call[p] EXCEPT !.pc = "answered", !.answer = Blocked(FALSE)] \in Call
            /\ [call[p] EXCEPT !.pc = "answered", !.answer = Blocked(FALSE)].pc = "answered"
        BY <1>1, AnswerTypes DEF Call, PC
      <4> QED
        BY <3>3, <4>1 DEF Answers
    <3> QED
      BY <1>4, <3>1, <3>2, <3>3
  <2> QED
    BY <1>1, <2>1, Effects
<1>5. CASE \/ AskPerson(p) \/ Complete(p) \/ ReconcileLease(p) \/ LookAtOwner(p)
           \/ RemoveLease(p) \/ AcquireLease(p) \/ Exit(p) \/ Crash(p)
  <2>1. \/ \E pc \in {"remove", "acquire", "observe", "gone"} : To(p, pc)
        \/ \E a \in Answer : Answers(p, a)
        \/ \E o : Reads(p, o)
    BY <1>5, AnswerTypes DEF AskPerson, Complete, WriteQueue, ReconcileLease, LookAtOwner,
       RemoveLease, Refuses, Breaks, AcquireLease, Exit, Crash
  <2> QED
    BY <1>1, <2>1, Effects
<1>6. CASE ObserveRepository(p) \/ AdoptCandidate(p)
  <2>1. call'[p].pc # "complete"
    BY <1>6, AdoptionCall
  <2>2. call'[p].pc = "release" => \E b \in BOOLEAN : call'[p].answer = Blocked(b)
    <3>1. CASE ObserveRepository(p)
      <4>1. To(p, "adopt") \/ \E b \in BOOLEAN : Fails(p, Blocked(b))
        BY <3>1 DEF ObserveRepository
      <4> QED
        BY <1>1, <4>1, Effects
    <3>2. CASE AdoptCandidate(p)
      <4>1. CASE \E b \in BOOLEAN : Fails(p, Blocked(b))
        BY <1>1, <4>1, Effects
      <4>2. CASE To(p, "clean")
        BY <1>1, <4>2, Effects
      <4>3. CASE ~To(p, "clean") /\ ~\E b \in BOOLEAN : Fails(p, Blocked(b))
        <5>1. call' = [call EXCEPT ![p] = [call[p] EXCEPT
                !.pc = IF Bundle[ProjectOf(p)] = <<>> THEN "clear" ELSE "save", !.at = 1]]
          BY <3>2, <4>3 DEF AdoptCandidate
        <5>2. call'[p] = [call[p] EXCEPT
                !.pc = IF Bundle[ProjectOf(p)] = <<>> THEN "clear" ELSE "save", !.at = 1]
          BY <1>1, <5>1, Effects
        <5> QED
          BY <1>1, <5>2 DEF Call
      <4> QED
        BY <4>1, <4>2, <4>3
    <3> QED
      BY <1>6, <3>1, <3>2
  <2>3. \A b \in BOOLEAN : ~Blocked(b).settled
    BY DEF Blocked
  <2> QED
    BY <2>1, <2>2, <2>3
<1>7. CASE CleanBase(p)
  <2>1. To(p, "receipt") \/ \E b \in BOOLEAN : Fails(p, AdoptionAnswer(p, b))
    BY <1>7 DEF CleanBase
  <2>2. \A b \in BOOLEAN : ~AdoptionAnswer(p, b).settled
    BY DEF AdoptionAnswer, Blocked
  <2> QED
    BY <1>1, <2>1, <2>2, Effects
<1>8. CASE RecordReceipt(p)
  <2>1. \/ Record(p, "adoption") /\ Fails(p, Settled)
        \/ Fails(p, Blocked(FALSE))
    BY <1>8 DEF RecordReceipt
  <2> QED
    BY <1>1, <2>1, Effects DEF Record, Blocked
<1> QED
  BY <1>2, <1>3, <1>4, <1>5, <1>6, <1>7, <1>8 DEF Quiet

LEMMA CompletionStep ==
  ASSUME IntegrationTypeOK, Fresh, Completion, NEW p \in Process, Quiet(p) \/ Applies(p)
  PROVE  Completion'
<1>1. Alone(p) /\ \A q \in Process : ProjectOf(q)' = ProjectOf(q)
  BY Frame
<1>2. \A q \in Process : ProjectOf(q) \in Project
  BY DEF IntegrationTypeOK, Call, ProjectOf
<1>3. ASSUME NEW x \in Project, entry'[x].reference = "receipt"
      PROVE  "adoption" \in record'[x]
  <2>1. CASE entry'[x] = entry[x]
    BY <1>3, <2>1, RecordStep DEF Completion
  <2>2. CASE entry'[x] # entry[x]
    <3>1. AskPerson(p) \/ Complete(p)
      BY <2>2, AppliesCall DEF Quiet, Begin, CreateCandidate, RecordCandidate,
         ReconcileLease, LookAtOwner, RemoveLease, AcquireLease, ReleaseLease,
         ObserveRepository, AdoptCandidate, CleanBase, RecordReceipt, Exit, Crash, Keep
    <3>2. \/ UpdateQueue(p, "human_decision_required", "candidate")
          \/ UpdateQueue(p, "completed", "candidate")
          \/ /\ UpdateQueue(p, "completed", "receipt")
             /\ At(p, "complete") /\ call[p].applies = "done"
      BY <2>2, <3>1 DEF AskPerson, Complete, WriteQueue
    <3>3. x = ProjectOf(p) /\ At(p, "complete") /\ call[p].applies = "done"
      BY <1>3, <2>2, <3>2 DEF UpdateQueue, IntegrationTypeOK, Entry
    <3> QED
      BY <3>3, RecordStep DEF Completion, At
  <2> QED
    BY <2>1, <2>2
<1>4. ASSUME NEW q \in Process,
             \/ call'[q].pc = "release" /\ call'[q].answer.settled
             \/ call'[q].pc = "complete" /\ call'[q].applies = "done"
      PROVE  "adoption" \in record'[ProjectOf(q)]
  <2>1. CASE q # p
    BY <1>1, <1>2, <1>4, <2>1, RecordStep DEF Alone, Completion
  <2>2. CASE q = p
    <3>1. CASE call'[p].pc = "release"
      BY <1>4, <2>2, <3>1, SuccessStep
    <3>2. CASE call'[p].pc = "complete"
      <4>1. At(p, "release") /\ call[p].answer.settled
        BY <1>4, <2>2, <3>2, SuccessStep DEF Fresh, BeforeAdoption, At
      <4> QED
        BY <1>2, <2>2, <4>1, RecordStep DEF Completion, At
    <3> QED
      BY <1>4, <2>2, <3>1, <3>2
  <2> QED
    BY <2>1, <2>2
<1> QED
  BY <1>1, <1>3, <1>4 DEF Completion

-----------------------------------------------------------------------------
(* What a refusal leaves.                                                  *)

\* A call that has not begun to adopt, and one that answers with a confirmed
\* cleanup and no success, has nothing in the runtime area or applied.
Refusing(p) ==
  \/ call[p].pc \in BeforeAdoption
  \/ call[p].pc \in {"release", "answered"} /\ call[p].answer.cleanup /\ ~call[p].answer.settled
NothingLeft(p) == left[p] = {} /\ call[p].applied = <<>> /\ call[p].applies = "not"
Refusals == \A p \in Process : Refusing(p) => NothingLeft(p)

LEMMA AnswersKept ==
  ASSUME call \in [Process -> Call], NEW p \in Process
  PROVE  /\ \A pc : To(p, pc) => call'[p].answer = call[p].answer
         /\ \A a : Answers(p, a) => call'[p].answer = a
<1>1. call[p] \in Call
  OBVIOUS
<1>2. ASSUME NEW pc, To(p, pc) PROVE call'[p].answer = call[p].answer
  <2>1. call'[p] = [call[p] EXCEPT !.pc = pc]
    BY <1>2 DEF To
  <2> QED
    BY <1>1, <2>1 DEF Call
<1>3. ASSUME NEW a, Answers(p, a) PROVE call'[p].answer = a
  <2>1. call'[p] = [call[p] EXCEPT !.pc = "answered", !.answer = a]
    BY <1>3 DEF Answers
  <2> QED
    BY <1>1, <2>1 DEF Call
<1> QED
  BY <1>2, <1>3

LEMMA RefusalsStep ==
  ASSUME IntegrationTypeOK, Refusals, NEW p \in Process, Quiet(p) \/ Applies(p)
  PROVE  Refusals'
<1> SUFFICES ASSUME NEW q \in Process, Refusing(q)' PROVE NothingLeft(q)'
  BY DEF Refusals
<1>1. Alone(p)
  BY Frame
<1>2. call \in [Process -> Call] /\ call[p] \in Call
  BY DEF IntegrationTypeOK
<1>3. \A b \in BOOLEAN : Blocked(b).cleanup = b
  BY DEF Blocked
<1>4. CASE q # p
  <2>1. left'[q] = left[q]
    BY <1>4 DEF IntegrationTypeOK, Quiet, Applies, Begin, CreateCandidate, RecordCandidate,
       AskPerson, Complete, ReconcileLease, LookAtOwner, RemoveLease, AcquireLease,
       ReleaseLease, ObserveRepository, AdoptCandidate, CleanBase, RecordReceipt, Exit,
       Crash, Keep, SaveFile, WriteFile, CheckFile, ClearTransaction, RollBackItem,
       EndRollback
  <2> QED
    BY <1>1, <1>4, <2>1 DEF Alone, Refusals, Refusing, NothingLeft
<1>5. CASE q = p /\ Applies(p)
  BY <1>5, AppliesCall DEF Refusing, BeforeAdoption
<1>6. CASE /\ q = p
           /\ \/ Begin(p) \/ CreateCandidate(p) \/ RecordCandidate(p) \/ AskPerson(p)
              \/ ReconcileLease(p) \/ LookAtOwner(p) \/ RemoveLease(p) \/ AcquireLease(p)
              \/ ObserveRepository(p) \/ AdoptCandidate(p)
  <2>1. KeepsWork(p) /\ NothingLeft(p)
    <3>1. call[p].pc \in BeforeAdoption
      BY <1>6 DEF Begin, CreateCandidate, RecordCandidate, AskPerson, ReconcileLease,
         LookAtOwner, RemoveLease, AcquireLease, ObserveRepository, AdoptCandidate, At,
         BeforeAdoption
    <3> QED
      BY <1>6, <3>1, OutsideCall, AdoptionCall DEF Refusals, Refusing
  <2>2. CASE UNCHANGED left
    BY <1>6, <2>1, <2>2 DEF NothingLeft, KeepsWork
  <2>3. CASE ~UNCHANGED left
    <3>1. Fails(p, Blocked(FALSE)) \/ (AdoptCandidate(p) /\ call'[p].pc \in {"save", "clear", "clean"})
      <4>1. CASE ObserveRepository(p)
        BY <2>3, <4>1 DEF ObserveRepository
      <4>2. CASE AdoptCandidate(p)
        <5>1. \/ Fails(p, Blocked(FALSE)) \/ To(p, "clean")
              \/ call' = [call EXCEPT ![p] = [call[p] EXCEPT
                   !.pc = IF Bundle[ProjectOf(p)] = <<>> THEN "clear" ELSE "save", !.at = 1]]
          BY <2>3, <4>2 DEF AdoptCandidate
        <5>2. ASSUME call' = [call EXCEPT ![p] = [call[p] EXCEPT
                   !.pc = IF Bundle[ProjectOf(p)] = <<>> THEN "clear" ELSE "save", !.at = 1]]
              PROVE  call'[p].pc \in {"save", "clear"}
          <6>1. call'[p] = [call[p] EXCEPT
                   !.pc = IF Bundle[ProjectOf(p)] = <<>> THEN "clear" ELSE "save", !.at = 1]
            BY <1>2, <5>2, Effects
          <6> QED
            BY <1>2, <6>1 DEF Call
        <5> QED
          BY <1>2, <4>2, <5>1, <5>2, Effects
      <4> QED
        BY <1>6, <2>3, <4>1, <4>2 DEF Begin, CreateCandidate, RecordCandidate, AskPerson,
           ReconcileLease, LookAtOwner, RemoveLease, AcquireLease, Keep
    <3>2. CASE Fails(p, Blocked(FALSE))
      <4>1. call'[p].pc = "release" /\ ~call'[p].answer.cleanup
        BY <1>2, <1>3, <3>2, Effects
      <4> QED
        BY <1>6, <4>1 DEF Refusing, BeforeAdoption
    <3>3. CASE call'[p].pc \in {"save", "clear", "clean"}
      BY <1>6, <3>3 DEF Refusing, BeforeAdoption
    <3> QED
      BY <3>1, <3>2, <3>3
  <2> QED
    BY <2>2, <2>3
<1>7. CASE q = p /\ (Complete(p) \/ RecordReceipt(p))
  <2>1. \/ To(p, "gone")
        \/ \E a \in {Settled, Blocked(FALSE)} : Answers(p, a) \/ Fails(p, a)
    BY <1>7 DEF Complete, WriteQueue, RecordReceipt
  <2>2. \/ call'[p].pc = "gone"
        \/ call'[p].pc \in {"answered", "release"} /\ call'[p].answer \in {Settled, Blocked(FALSE)}
    BY <1>2, <2>1, Effects, AnswersKept
  <2>3. \A a \in {Settled, Blocked(FALSE)} : ~(a.cleanup /\ ~a.settled)
    BY DEF Settled, Blocked
  <2> QED
    BY <1>7, <2>2, <2>3 DEF Refusing, BeforeAdoption
<1>8. CASE q = p /\ CleanBase(p)
  <2>1. To(p, "receipt") \/ \E b \in BOOLEAN : Fails(p, AdoptionAnswer(p, b))
    BY <1>8 DEF CleanBase
  <2>2. \A b \in BOOLEAN : ~AdoptionAnswer(p, b).cleanup
    BY DEF AdoptionAnswer, Blocked
  <2>3. call'[p].pc = "receipt" \/ (call'[p].pc = "release" /\ ~call'[p].answer.cleanup)
    BY <1>2, <2>1, <2>2, Effects
  <2> QED
    BY <1>8, <2>3 DEF Refusing, BeforeAdoption
<1>9. CASE q = p /\ (Exit(p) \/ Crash(p))
  <2>1. call'[p].pc = "gone"
    BY <1>2, <1>9, Effects DEF Exit, Crash
  <2> QED
    BY <1>9, <2>1 DEF Refusing, BeforeAdoption
<1>10. CASE q = p /\ ReleaseLease(p)
  <2>1. At(p, "release") /\ UNCHANGED left /\ KeepsWork(p)
    BY <1>10, OutsideCall DEF ReleaseLease
  <2>2. \/ \E pc \in {"complete", "answered"} : To(p, pc)
        \/ Answers(p, Blocked(FALSE))
    BY <1>10 DEF ReleaseLease
  <2>3. call'[p].pc \in {"complete", "answered"}
        /\ (call'[p].answer = call[p].answer \/ ~call'[p].answer.cleanup)
    BY <1>2, <1>3, <2>2, Effects, AnswersKept
  <2>4. Refusing(p)
    BY <1>10, <2>1, <2>3 DEF Refusing, BeforeAdoption, At
  <2> QED
    BY <1>10, <2>1, <2>4 DEF Refusals, NothingLeft, KeepsWork
<1> QED
  BY <1>4, <1>5, <1>6, <1>7, <1>8, <1>9, <1>10 DEF Quiet

-----------------------------------------------------------------------------
(* What is put aside.                                                      *)

\* The items of a call are the first entries of its candidate, in their order.
\* Those not yet taken back have no file of the base in the tree, and the
\* transaction directory has files of items only, as long as the rollback could
\* recover everything of items not yet taken back.
Open(c, k) == c.pc = "rollback" => k <= c.at
Aside(x, c, b, t) ==
  /\ \A k \in DOMAIN c.applied :
       k \in DOMAIN Bundle[x] /\ c.applied[k].path = Bundle[x][k].path
  /\ c.pc = "save" => c.at = Len(c.applied) + 1
  /\ c.pc \in {"write", "check"} => c.at = Len(c.applied)
  /\ \A k \in DOMAIN c.applied : Open(c, k) => t[c.applied[k].path] # "base"
  /\ \A f \in Path : b[f] # "none" => \E k \in DOMAIN c.applied :
       c.applied[k].path = f /\ c.applied[k].saved /\ (c.applies = "not" => Open(c, k))

Displaced ==
  \A p \in Process :
    /\ call[p].pc \in BeforeAdoption => backup[p] = NoBackup
    /\ Adopting(p) => Aside(ProjectOf(p), call[p], backup[p], tree)

LEMMA BackupFrame ==
  ASSUME IntegrationTypeOK, NEW p \in Process
  PROVE  /\ Quiet(p) => UNCHANGED backup
         /\ Applies(p) => \A q \in Process : q # p => backup'[q] = backup[q]
<1>1. Quiet(p) => UNCHANGED backup
  BY DEF Quiet, Begin, CreateCandidate, RecordCandidate, AskPerson, Complete, ReconcileLease,
     LookAtOwner, RemoveLease, AcquireLease, ReleaseLease, ObserveRepository, AdoptCandidate,
     CleanBase, RecordReceipt, Exit, Crash, Keep
<1>2. ASSUME Applies(p), NEW q \in Process, q # p PROVE backup'[q] = backup[q]
  <2>1. UNCHANGED backup \/ \E b : backup' = [backup EXCEPT ![p] = b]
    <3>1. CASE SaveFile(p) \/ WriteFile(p) \/ CheckFile(p)
      BY <3>1 DEF SaveFile, WriteFile, CheckFile, Throws
    <3>2. CASE ClearTransaction(p) \/ RollBackItem(p) \/ EndRollback(p)
      BY <3>2 DEF ClearTransaction, RollBackItem, EndRollback
    <3> QED
      BY <1>2, <3>1, <3>2 DEF Applies
  <2> QED
    BY <1>2, <2>1 DEF IntegrationTypeOK
<1> QED
  BY <1>1, <1>2

\* The two files of two items are two files.
LEMMA ItemsDiffer ==
  ASSUME NEW x \in Project, NEW c \in Call, NEW b, NEW t, Aside(x, c, b, t),
         NEW k \in DOMAIN c.applied
  PROVE  /\ \A j \in DOMAIN c.applied : c.applied[j].path = c.applied[k].path => j = k
         /\ \A i \in DOMAIN Bundle[x] : Bundle[x][i].path = c.applied[k].path => i = k
         /\ c.applied[k].path \in Path
         /\ k \in Nat /\ Len(c.applied) \in Nat /\ DOMAIN c.applied = 1..Len(c.applied)
<1>1. \A j \in DOMAIN c.applied :
        j \in DOMAIN Bundle[x] /\ c.applied[j].path = Bundle[x][j].path
  BY DEF Aside
<1>2. c.applied \in Seq([path : Path, saved : BOOLEAN])
  BY DEF Call
<1>3. k \in Nat /\ Len(c.applied) \in Nat /\ DOMAIN c.applied = 1..Len(c.applied)
  BY <1>2
<1>4. c.applied[k] \in [path : Path, saved : BOOLEAN]
  BY <1>2, <1>3, ElementOfSeq
<1> QED
  BY <1>1, <1>3, <1>4, IntegrationConstants

\* A call that stays with its items and its transaction directory, and whose
\* files nobody touches, keeps what it has put aside.
LEMMA AsideKept ==
  ASSUME NEW x \in Project, NEW c \in Call, NEW d \in Call, NEW b, NEW e, NEW t, NEW u,
         Aside(x, c, b, t), d.applied = c.applied, d.pc # "save", d.pc \notin {"write", "check"},
         \A k \in DOMAIN c.applied : Open(d, k) =>
           Open(c, k) /\ u[c.applied[k].path] = t[c.applied[k].path],
         \A f \in Path : e[f] # "none" => e[f] = b[f],
         d.applies = "not" => c.applies = "not" /\ \A k \in DOMAIN c.applied :
           Open(c, k) /\ e[c.applied[k].path] # "none" => Open(d, k)
  PROVE  Aside(x, d, e, u)
<1>1. \A f \in Path : b[f] # "none" => \E k \in DOMAIN c.applied :
       c.applied[k].path = f /\ c.applied[k].saved /\ (c.applies = "not" => Open(c, k))
  BY DEF Aside
<1>2. ASSUME NEW f \in Path, e[f] # "none"
      PROVE  \E k \in DOMAIN d.applied :
               d.applied[k].path = f /\ d.applied[k].saved /\ (d.applies = "not" => Open(d, k))
  <2>1. PICK k \in DOMAIN c.applied :
          c.applied[k].path = f /\ c.applied[k].saved /\ (c.applies = "not" => Open(c, k))
    BY <1>1, <1>2
  <2> QED
    BY <1>2, <2>1
<1>3. \A k \in DOMAIN d.applied : Open(d, k) => u[d.applied[k].path] # "base"
  BY DEF Aside
<1> QED
  BY <1>2, <1>3 DEF Aside

LEMMA DisplacedStep ==
  ASSUME Apart, IntegrationTypeOK, AdoptionInvariant, Refusals, Displaced,
         NEW p \in Process, Quiet(p) \/ Applies(p)
  PROVE  Displaced'
<1> DEFINE x == ProjectOf(p)
           Kept == Aside(x, call'[p], backup'[p], tree')
<1>1. Alone(p) /\ \A q \in Process : ProjectOf(q)' = ProjectOf(q)
  BY Frame
<1>2. /\ call \in [Process -> Call] /\ call[p] \in Call /\ x \in Project
      /\ call' \in [Process -> Call] /\ call'[p] \in Call /\ x # "base"
      /\ backup[p] \in [Path -> Content \cup {"none"}] /\ tree \in [Path -> Content]
  <2>1. InRange
    BY DEF AdoptionInvariant
  <2>2. call' \in [Process -> Call]
    BY <2>1, QuietType, AppliesType DEF IntegrationTypeOK
  <2> QED
    BY <2>2, IntegrationConstants DEF IntegrationTypeOK, Call, ProjectOf
<1>3. LeaseHeld /\ InRange /\ Fresh
  BY DEF AdoptionInvariant
<1>4. Applies(p) => Adopting(p) /\ Aside(x, call[p], backup[p], tree)
  BY AppliesCall DEF Displaced
<1>5. ASSUME NEW q \in Process, q # p, Adopting(q)
      PROVE  Aside(ProjectOf(q), call[q], backup[q], tree')
  <2> DEFINE y == ProjectOf(q)
  <2>1. y \in Project /\ Aside(y, call[q], backup[q], tree)
    BY <1>5 DEF Displaced, IntegrationTypeOK, Call, ProjectOf
  <2>2. Quiet(p) \/ y # x
    <3>1. Applies(p) => call[p].pc \in AtWork /\ call[q].pc \in AtWork
      BY <1>4, <1>5 DEF Adopting, AtWork
    <3> QED
      BY <1>3, <1>5, <3>1 DEF LeaseHeld
  <2>3. \A i \in DOMAIN Bundle[y] : tree'[Bundle[y][i].path] = tree[Bundle[y][i].path]
    BY <1>3, <2>1, <2>2, OthersKept
  <2> HIDE DEF y
  <2>4. \A k \in DOMAIN call[q].applied :
          tree'[call[q].applied[k].path] = tree[call[q].applied[k].path]
    BY <2>1, <2>3 DEF Aside
  <2>5. \A k \in DOMAIN call[q].applied : Open(call[q], k) =>
          tree'[call[q].applied[k].path] # "base"
    BY <2>1, <2>4 DEF Aside
  <2>6. Aside(y, call[q], backup[q], tree')
    BY <2>1, <2>5 DEF Aside
  <2> QED
    BY <2>6 DEF y
<1>6. SUFFICES ASSUME Adopting(p)' PROVE Kept
  <2>1. ASSUME NEW q \in Process
        PROVE  /\ call'[q].pc \in BeforeAdoption => backup'[q] = NoBackup
               /\ Adopting(q)' => Aside(ProjectOf(q), call'[q], backup'[q], tree')
    <3>1. CASE q # p
      <4>1. call'[q] = call[q] /\ backup'[q] = backup[q]
        BY <1>1, <3>1, BackupFrame DEF Alone
      <4> QED
        BY <1>5, <3>1, <4>1 DEF Displaced, Adopting
    <3>2. CASE q = p
      <4>1. call'[p].pc \in BeforeAdoption => Quiet(p) /\ call[p].pc \in BeforeAdoption
        BY BeforeStep, AppliesCall DEF BeforeAdoption
      <4> QED
        BY <1>6, <3>2, <4>1, BackupFrame DEF Displaced
    <3> QED
      BY <3>1, <3>2
  <2> QED
    BY <1>1, <2>1 DEF Displaced, Aside, Open, NoBackup
<1>7. CASE Quiet(p)
  <2>1. /\ At(p, "adopt") /\ call'[p].pc \in {"clear", "save"} /\ call'[p].at = 1
        /\ call'[p].applied = call[p].applied
    BY <1>6, <1>7, OutsideCall, AdoptionCall DEF Quiet, Adopting, KeepsWork
  <2>2. call[p].applied = <<>> /\ backup'[p] = NoBackup
    BY <1>7, <2>1, BackupFrame DEF Refusals, Refusing, NothingLeft, BeforeAdoption,
       Displaced, At
  <2>3. DOMAIN call'[p].applied = {} /\ Len(call'[p].applied) = 0
    BY <2>1, <2>2
  <2> QED
    BY <2>1, <2>2, <2>3 DEF Aside, NoBackup
<1>8. ASSUME Applies(p)
      PROVE  /\ \A k \in DOMAIN call[p].applied :
                  /\ k \in Nat /\ k <= Len(call[p].applied)
                  /\ call[p].applied[k].path \in Path
                  /\ \A j \in DOMAIN call[p].applied :
                       call[p].applied[j].path = call[p].applied[k].path => j = k
             /\ Len(call[p].applied) \in Nat
             /\ DOMAIN call[p].applied = 1..Len(call[p].applied)
  <2>1. Len(call[p].applied) \in Nat /\ DOMAIN call[p].applied = 1..Len(call[p].applied)
    BY <1>2 DEF Call
  <2> QED
    BY <1>2, <1>4, <1>8, <2>1, ItemsDiffer
<1>9. ASSUME Applies(p), RollsBack(p), call[p].pc # "rollback", UNCHANGED tree,
             \A f \in Path : backup'[p][f] # "none" => backup'[p][f] = backup[p][f]
      PROVE  Kept
  <2>1. call'[p].pc = "rollback" /\ call'[p].at = Len(call[p].applied) /\ KeepsWork(p)
    BY <1>2, <1>9, Effects
  <2>2. \A k \in DOMAIN call[p].applied : Open(call[p], k) /\ Open(call'[p], k)
    BY <1>8, <1>9, <2>1 DEF Open
  <2> QED
    BY <1>2, <1>4, <1>9, <2>1, <2>2, AsideKept DEF KeepsWork
<1>10. CASE SaveFile(p)
  <2> DEFINE f == Item(p).path
             item == [path |-> f, saved |-> tree[f] # "absent"]
             next == IF Item(p).operation = "upsert" THEN [call[p] EXCEPT !.pc = "write"]
                                                     ELSE Advance(p)
  <2>1. Applies(p) /\ call[p].pc = "save"
    BY <1>10 DEF Applies, SaveFile, At
  <2>2. CASE Throws(p)
    BY <1>9, <2>1, <2>2 DEF Throws
  <2>3. CASE /\ backup' = IF item.saved THEN [backup EXCEPT ![p][f] = tree[f]] ELSE backup
             /\ tree' = [tree EXCEPT ![f] = "absent"]
             /\ call' = [call EXCEPT ![p] = [next EXCEPT !.applied = Append(@, item)]]
    <3>1. /\ call[p].at \in DOMAIN Bundle[x] /\ Bundle[x][call[p].at].path = f /\ f \in Path
          /\ call[p].at = Len(call[p].applied) + 1
      BY <1>2, <1>3, <1>4, <2>1, BundleType DEF InRange, Item, Aside
    <3>2. next \in Call /\ next.applied = call[p].applied /\ next.applies = call[p].applies
          /\ next.pc \in {"write", "save", "clear"}
          /\ (next.pc = "write" => next.at = call[p].at)
          /\ (next.pc = "save" => next.at = call[p].at + 1)
      <4>1. CASE Item(p).operation = "upsert"
        BY <1>2, <4>1 DEF Call, PC
      <4>2. CASE Item(p).operation # "upsert"
        <5>1. Advance(p) \in Call
          BY <1>2, AdvanceType
        <5> QED
          BY <1>2, <4>2, <5>1 DEF Advance, Call
      <4> QED
        BY <4>1, <4>2
    <3>3. call'[p] = [next EXCEPT !.applied = Append(next.applied, item)]
      BY <1>2, <2>3, Effects
    <3>4. item.path = f /\ item.saved = (tree[f] # "absent")
      OBVIOUS
    <3>5. backup'[p] = IF item.saved THEN [backup[p] EXCEPT ![f] = tree[f]] ELSE backup[p]
      BY <2>3 DEF IntegrationTypeOK
    <3>6. tree'[f] = "absent" /\ \A g \in Path : g # f => tree'[g] = tree[g]
      BY <1>2, <2>3, <3>1
    <3> HIDE DEF next, item, f
    <3>7. /\ call'[p].applied = Append(call[p].applied, item) /\ call'[p].pc = next.pc
          /\ call'[p].at = next.at /\ call'[p].applies = call[p].applies
      BY <3>2, <3>3 DEF Call
    <3>8. /\ Len(call'[p].applied) = Len(call[p].applied) + 1
          /\ DOMAIN call'[p].applied = DOMAIN call[p].applied \cup {call[p].at}
          /\ call'[p].applied[call[p].at] = item
          /\ \A k \in DOMAIN call[p].applied : call'[p].applied[k] = call[p].applied[k]
      <4>1. call[p].applied \in Seq([path : Path, saved : BOOLEAN])
        BY <1>2 DEF Call
      <4> QED
        BY <1>8, <2>1, <3>1, <3>7, <4>1
    <3>9. \A k \in DOMAIN call'[p].applied : Open(call'[p], k)
      BY <3>2, <3>7 DEF Open
    <3>10. \A k \in DOMAIN call[p].applied : tree[call[p].applied[k].path] # "base"
      BY <1>4, <2>1 DEF Aside, Open
    <3>11. \A k \in DOMAIN call'[p].applied : tree'[call'[p].applied[k].path] # "base"
      BY <1>8, <2>1, <3>4, <3>6, <3>8, <3>10
    <3>12. \A g \in Path : backup'[p][g] # "none" => \E k \in DOMAIN call'[p].applied :
             call'[p].applied[k].path = g /\ call'[p].applied[k].saved
      <4>1. ASSUME NEW g \in Path, backup[p][g] # "none"
            PROVE  \E k \in DOMAIN call[p].applied :
                     call[p].applied[k].path = g /\ call[p].applied[k].saved
        BY <1>4, <2>1, <4>1 DEF Aside
      <4>2. ASSUME NEW g \in Path, backup'[p][g] # "none", backup[p][g] = "none"
            PROVE  g = f /\ item.saved
        BY <1>2, <3>1, <3>5, <4>2
      <4> QED
        BY <3>4, <3>8, <4>1, <4>2
    <3>13. \A k \in DOMAIN call'[p].applied :
             k \in DOMAIN Bundle[x] /\ call'[p].applied[k].path = Bundle[x][k].path
      <4>1. \A k \in DOMAIN call[p].applied :
             k \in DOMAIN Bundle[x] /\ call[p].applied[k].path = Bundle[x][k].path
        BY <1>4, <2>1 DEF Aside
      <4> QED
        BY <3>1, <3>4, <3>8, <4>1
    <3>14. /\ call'[p].pc = "save" => call'[p].at = Len(call'[p].applied) + 1
           /\ call'[p].pc \in {"write", "check"} => call'[p].at = Len(call'[p].applied)
      BY <1>8, <2>1, <3>1, <3>2, <3>7, <3>8
    <3> QED
      BY <3>9, <3>11, <3>12, <3>13, <3>14 DEF Aside
  <2> QED
    BY <1>10, <2>2, <2>3 DEF SaveFile
<1>11. CASE WriteFile(p)
  <2>1. Applies(p) /\ call[p].pc = "write"
    BY <1>11 DEF Applies, WriteFile, At
  <2>2. CASE Throws(p)
    BY <1>9, <2>1, <2>2 DEF Throws
  <2>3. CASE tree' = [tree EXCEPT ![Item(p).path] = x] /\ To(p, "check") /\ UNCHANGED backup
    <3>1. call'[p].pc = "check" /\ call'[p].at = call[p].at /\ KeepsWork(p)
      BY <1>2, <2>3, Effects
    <3>2. \A k \in DOMAIN call[p].applied :
            /\ Open(call[p], k) /\ Open(call'[p], k)
            /\ tree[call[p].applied[k].path] # "base" /\ call[p].applied[k].path \in Path
      BY <1>4, <1>8, <2>1, <3>1 DEF Aside, Open
    <3>3. \A k \in DOMAIN call[p].applied : tree'[call[p].applied[k].path] # "base"
      BY <1>2, <2>3, <3>2
    <3>4. call'[p].at = Len(call'[p].applied)
      BY <1>4, <2>1, <3>1 DEF Aside, KeepsWork
    <3> QED
      BY <1>4, <2>1, <2>3, <3>1, <3>2, <3>3, <3>4 DEF Aside, KeepsWork
  <2> QED
    BY <1>11, <2>2, <2>3 DEF WriteFile
<1>12. CASE CheckFile(p)
  <2>1. Applies(p) /\ call[p].pc = "check" /\ UNCHANGED <<tree, backup>>
    BY <1>12 DEF Applies, CheckFile, At, Throws
  <2>2. CASE RollsBack(p)
    BY <1>9, <2>1, <2>2
  <2>3. CASE call' = [call EXCEPT ![p] = Advance(p)]
    <3>1. call'[p] = Advance(p) /\ Advance(p) \in Call
      BY <1>2, <2>3, Effects, AdvanceType
    <3>2. /\ call'[p].pc \in {"save", "clear"}
          /\ call'[p].pc = "save" => call'[p].at = call[p].at + 1
          /\ KeepsWork(p)
      BY <1>2, <3>1 DEF Advance, Call, KeepsWork
    <3>3. \A k \in DOMAIN call[p].applied : Open(call[p], k) /\ Open(call'[p], k)
      BY <2>1, <3>2 DEF Open
    <3>4. call[p].at = Len(call[p].applied)
      BY <1>4, <2>1 DEF Aside
    <3> QED
      BY <1>4, <2>1, <3>2, <3>3, <3>4 DEF Aside, KeepsWork
  <2> QED
    BY <1>12, <2>2, <2>3 DEF CheckFile, Throws
<1>13. CASE ClearTransaction(p)
  <2>1. Applies(p) /\ call[p].pc = "clear" /\ UNCHANGED tree
    BY <1>13 DEF Applies, ClearTransaction, At
  <2>2. call' # [call EXCEPT ![p] = [call[p] EXCEPT !.pc = "clean", !.applies = "done"]]
    <3> SUFFICES ASSUME call' = [call EXCEPT ![p] = [call[p] EXCEPT !.pc = "clean", !.applies = "done"]]
                 PROVE  FALSE
      OBVIOUS
    <3>1. call'[p] = [call[p] EXCEPT !.pc = "clean", !.applies = "done"]
      BY <1>2, Effects
    <3> QED
      BY <1>2, <1>6, <3>1 DEF Call, Adopting
  <2>3. PICK F \in SUBSET Path : RollsBack(p) /\
          backup' = [backup EXCEPT ![p] = [f \in Path |-> IF f \in F THEN "none" ELSE @[f]]]
    BY <1>13, <2>2 DEF ClearTransaction
  <2>4. backup'[p] = [f \in Path |-> IF f \in F THEN "none" ELSE backup[p][f]]
    BY <2>3 DEF IntegrationTypeOK
  <2>5. \A f \in Path : backup'[p][f] # "none" => backup'[p][f] = backup[p][f]
    BY <2>4
  <2> QED
    BY <1>9, <2>1, <2>3, <2>5
<1>14. CASE RollBackItem(p)
  <2> DEFINE k0 == call[p].at
             last == call[p].applied[k0]
             rest == [call[p] EXCEPT !.at = @ - 1]
             misses == [rest EXCEPT !.applies = "unrecovered"]
  <2>1. Applies(p) /\ call[p].pc = "rollback" /\ k0 \in DOMAIN call[p].applied
        /\ k0 - 1 \in Nat /\ k0 \in Nat
    <3>1. Applies(p) /\ call[p].pc = "rollback" /\ k0 > 0
      BY <1>14 DEF Applies, RollBackItem, At
    <3> QED
      BY <1>2, <1>3, <1>8, <3>1, ItemType DEF Call
  <2>2. PICK c \in {rest, misses} : call' = [call EXCEPT ![p] = c]
        /\ (c = rest => backup' = [backup EXCEPT ![p][last.path] = "none"]
                        \/ (c = misses /\ UNCHANGED backup))
        /\ (c = misses => UNCHANGED backup
                        \/ (c = rest /\ backup' = [backup EXCEPT ![p][last.path] = "none"]))
    BY <1>14 DEF RollBackItem
  <2>3. rest \in Call /\ misses \in Call
    <3>1. rest \in Call
      BY <1>2, <2>1 DEF Call
    <3> QED
      BY <3>1 DEF Call
  <2>4. call'[p] = c
    BY <1>2, <2>2, Effects
  <2>5. /\ c.pc = "rollback" /\ c.at = k0 - 1 /\ c.applied = call[p].applied
        /\ c.applies = call[p].applies \/ c.applies = "unrecovered"
    BY <1>2, <2>1, <2>2, <2>3 DEF Call
  <2>6. \A k \in DOMAIN call[p].applied : Open(c, k) => Open(call[p], k) /\ k # k0
    BY <1>8, <2>1, <2>5 DEF Open
  <2>7. \A f \in Path : f # last.path => tree'[f] = tree[f]
    BY <1>2, <1>14 DEF RollBackItem
  <2>8. \A k \in DOMAIN call[p].applied : k # k0 =>
          call[p].applied[k].path # last.path /\ call[p].applied[k].path \in Path
    BY <1>8, <2>1
  <2>9. \A f \in Path : backup'[p][f] # "none" => backup'[p][f] = backup[p][f]
    BY <1>2, <2>2 DEF IntegrationTypeOK
  <2>10. ASSUME c.applies = "not"
         PROVE  /\ call[p].applies = "not"
                /\ \A k \in DOMAIN call[p].applied : Open(call[p], k)
                     /\ backup'[p][call[p].applied[k].path] # "none" => Open(c, k)
    <3>1. call[p].applies = "not"
      BY <2>5, <2>10
    <3>2. c # misses
      BY <2>3, <2>10 DEF Call
    <3>3. backup' = [backup EXCEPT ![p][last.path] = "none"]
      BY <2>2, <3>2
    <3>4. backup'[p][last.path] = "none"
      BY <1>2, <1>8, <2>1, <3>3 DEF IntegrationTypeOK
    <3>5. \A k \in DOMAIN call[p].applied : k # k0 /\ Open(call[p], k) => Open(c, k)
      BY <1>8, <2>1, <2>5 DEF Open
    <3> QED
      BY <3>1, <3>4, <3>5
  <2>11. c \in Call
    BY <2>2, <2>3
  <2> HIDE DEF last, rest, misses
  <2>12. \A k \in DOMAIN call[p].applied : Open(c, k) =>
           Open(call[p], k) /\ tree'[call[p].applied[k].path] = tree[call[p].applied[k].path]
    BY <2>6, <2>7, <2>8
  <2> QED
    BY <1>2, <1>4, <2>1, <2>4, <2>5, <2>9, <2>10, <2>11, <2>12, AsideKept
<1>15. CASE EndRollback(p)
  <2>1. \/ To(p, "clean")
        \/ \E c \in {[call[p] EXCEPT !.pc = "clean", !.applies = "failed"],
                     [call[p] EXCEPT !.pc = "clean", !.applies = "unrecovered"]} :
             call' = [call EXCEPT ![p] = c]
    BY <1>15 DEF EndRollback
  <2>2. CASE To(p, "clean")
    BY <1>2, <1>6, <2>2, Effects DEF Adopting
  <2>3. CASE \E c \in {[call[p] EXCEPT !.pc = "clean", !.applies = "failed"],
                       [call[p] EXCEPT !.pc = "clean", !.applies = "unrecovered"]} :
               call' = [call EXCEPT ![p] = c]
    <3>1. PICK c \in {[call[p] EXCEPT !.pc = "clean", !.applies = "failed"],
                      [call[p] EXCEPT !.pc = "clean", !.applies = "unrecovered"]} :
            call' = [call EXCEPT ![p] = c]
      BY <2>3
    <3>2. call'[p].pc = "clean"
      BY <1>2, <3>1, Effects DEF Call
    <3> QED
      BY <1>6, <3>2 DEF Adopting
  <2> QED
    BY <2>1, <2>2, <2>3
<1> QED
  BY <1>7, <1>10, <1>11, <1>12, <1>13, <1>14, <1>15 DEF Applies

-----------------------------------------------------------------------------
(* The theorems.                                                           *)

LEMMA InitType == Init => IntegrationTypeOK
<1> SUFFICES ASSUME Init PROVE IntegrationTypeOK
  OBVIOUS
<1>1. \A x \in Project : NewCall(x) \in Call
  <2>1. <<>> \in Seq([path : Path, saved : BOOLEAN])
    BY EmptySeq
  <2> QED
    BY <2>1, AnswerTypes DEF NewCall, Call, PC
<1>2. call \in [Process -> Call]
  <2>1. call \in [Process -> {NewCall(x) : x \in Project}]
    BY DEF Init
  <2> QED
    BY <1>1, <2>1
<1>3. entry \in [Project -> Entry]
  BY DEF Init, Entry
<1>4. tree \in [Path -> Content]
  BY DEF Init, Content, BaseContent
<1>5. mutation \in Process \cup {"none"} /\ seized \in BOOLEAN
  BY DEF Init
<1>6. /\ lease \in [Project -> Process \cup {"none"}] /\ faults \in 0..MaxFaults
      /\ record \in [Project -> SUBSET {"integration", "adoption"}]
  BY IntegrationConstants DEF Init
<1>7. /\ left \in [Process -> SUBSET {"base", "transaction", "temporary"}]
      /\ backup \in [Process -> [Path -> Content \cup {"none"}]]
  BY DEF Init
<1> QED
  BY <1>2, <1>3, <1>4, <1>5, <1>6, <1>7 DEF IntegrationTypeOK

LEMMA InitInvariant == Init => AdoptionInvariant /\ Looked /\ ~seized
<1> SUFFICES ASSUME Init PROVE AdoptionInvariant /\ Looked /\ ~seized
  OBVIOUS
<1>1. ASSUME NEW p \in Process
      PROVE  call[p].pc = "ready" /\ call[p].applies = "not" /\ call[p].applied = <<>>
  <2>1. call \in [Process -> {NewCall(x) : x \in Project}]
    BY DEF Init
  <2>2. PICK x \in Project : call[p] = NewCall(x)
    BY <2>1
  <2> QED
    BY <2>2 DEF NewCall
<1>2. \A x \in Project : record[x] = {} /\ entry[x].reference = "none"
  BY DEF Init
<1> QED
  BY <1>1, <1>2 DEF Init, AdoptionInvariant, Looked, LeaseHeld, InRange, Progress, Receipts,
     Fresh, Completion, AtWork, Adopting

\* Every step is one of a call.
LEMMA Steps ==
  ASSUME Next
  PROVE  \E p \in Process : Quiet(p) \/ Applies(p)
BY DEF Next, Quiet, Applies

LEMMA SeizedStays ==
  ASSUME NEW p \in Process, Quiet(p) \/ Applies(p)
  PROVE  seized => seized'
<1>1. CASE Applies(p)
  BY <1>1 DEF Applies, SaveFile, WriteFile, CheckFile, ClearTransaction, RollBackItem,
     EndRollback, KeepWorld
<1>2. CASE Quiet(p)
  BY <1>2 DEF Quiet, Begin, CreateCandidate, RecordCandidate, AskPerson, Complete,
     ReconcileLease, LookAtOwner, RemoveLease, TakeAway, AcquireLease, ReleaseLease,
     ObserveRepository, AdoptCandidate, CleanBase, RecordReceipt, Exit, Crash, Keep
<1> QED
  BY <1>1, <1>2

\* What holds of the calls whatever becomes of the leases, and what holds until
\* one is seized.
Calls == IntegrationTypeOK /\ InRange /\ Looked
Leased == ~seized => LeaseHeld

LEMMA TypeStep ==
  Calls /\ Leased /\ [Next]_integrationVars => (Calls /\ Leased)'
<1> SUFFICES ASSUME Calls, Leased, [Next]_integrationVars
             PROVE  (Calls /\ Leased)'
  OBVIOUS
<1>1. CASE Next
  <2>1. PICK p \in Process : Quiet(p) \/ Applies(p)
    BY <1>1, Steps
  <2>2. Calls'
    BY <2>1, QuietType, AppliesType, InRangeStep, LookedStep DEF Calls
  <2>3. Leased'
    BY <2>1, SeizedStays, LeaseHeldStep DEF Calls, Leased
  <2> QED
    BY <2>2, <2>3
<1>2. CASE UNCHANGED integrationVars
  BY <1>2 DEF integrationVars, Calls, Leased, Looked, Lost, At, IntegrationTypeOK, LeaseHeld,
     InRange, ProjectOf
<1> QED
  BY <1>1, <1>2

LEMMA Typed == Spec => [](Calls /\ Leased)
<1>1. Init => Calls /\ Leased
  BY InitType, InitInvariant DEF AdoptionInvariant, Calls, Leased
<1> QED
  BY <1>1, TypeStep, PTL DEF Spec

\* Every record, answer, file and item of a rollback keeps its shape, for any
\* number of calls, candidates and failed steps.
THEOREM IntegrationTypeCorrect == Spec => []IntegrationTypeOK
<1>1. Calls => IntegrationTypeOK
  BY DEF Calls
<1> QED
  BY <1>1, Typed, PTL

\* Two calls for one project apply or roll back at the same time only after a
\* reconciliation has removed a lease in place of the lost one it had read; the
\* lease of a lost process is taken over without that.
THEOREM AdoptionsMeetOnlyAfterSeizure == Spec => []AdoptionsExcluded
<1>1. Leased => AdoptionsExcluded
  BY DEF Leased, LeaseHeld, AdoptionsExcluded, Adopting, AtWork
<1> QED
  BY <1>1, Typed, PTL

\* The receipts, the refusals and what is put aside, together.
Adoptions ==
  /\ Calls /\ Fresh /\ Completion /\ Refusals
  /\ ~seized => LeaseHeld /\ Progress /\ Receipts /\ Displaced

LEMMA AdoptionsAlways ==
  ASSUME Apart
  PROVE  Spec => []Adoptions
<1>1. Init => Adoptions
  <2> SUFFICES ASSUME Init PROVE Adoptions
    OBVIOUS
  <2>1. ASSUME NEW p \in Process
        PROVE  call[p].pc = "ready" /\ NothingLeft(p) /\ backup[p] = NoBackup
    <3>1. PICK x \in Project : call[p] = NewCall(x)
      BY DEF Init
    <3> QED
      BY <3>1 DEF Init, NewCall, NothingLeft, NoBackup
  <2> QED
    BY <2>1, InitType, InitInvariant
      DEF Adoptions, Calls, AdoptionInvariant, Refusals, Displaced, Adopting
<1>2. Adoptions /\ [Next]_integrationVars => Adoptions'
  <2> SUFFICES ASSUME Adoptions, [Next]_integrationVars PROVE Adoptions'
    OBVIOUS
  <2>1. CASE Next
    <3>1. PICK p \in Process : Quiet(p) \/ Applies(p)
      BY <2>1, Steps
    <3>2. IntegrationTypeOK /\ InRange /\ Looked /\ Fresh /\ Completion /\ Refusals
      BY DEF Adoptions, Calls
    <3>3. Calls' /\ Fresh' /\ Completion' /\ Refusals'
      BY <3>1, <3>2, QuietType, AppliesType, InRangeStep, LookedStep, FreshStep, CompletionStep,
         RefusalsStep DEF Calls
    <3>4. ASSUME ~seized' PROVE LeaseHeld' /\ Progress' /\ Receipts' /\ Displaced'
      <4>1. LeaseHeld /\ Progress /\ Receipts /\ Displaced
        BY <3>1, <3>4, SeizedStays DEF Adoptions
      <4>2. AdoptionInvariant
        BY <3>2, <4>1 DEF AdoptionInvariant
      <4> QED
        BY <3>1, <3>2, <3>4, <4>1, <4>2, LeaseHeldStep, ProgressStep, ReceiptsStep,
           DisplacedStep
    <3> QED
      BY <3>3, <3>4 DEF Adoptions
  <2>2. CASE UNCHANGED integrationVars
    BY <2>2 DEF integrationVars, Adoptions, Calls, Looked, Lost, At, IntegrationTypeOK,
       LeaseHeld, InRange, Progress, Receipts, Fresh, Completion, Refusals, Refusing,
       NothingLeft, Displaced, WholeBefore, Whole, Wanted, Item, Adopting, ProjectOf, Aside,
       Open
  <2> QED
    BY <2>1, <2>2
<1> QED
  BY <1>1, <1>2, PTL DEF Spec

\* If the candidates of the projects have no file in common, a receipt stands for
\* a tree that has the whole candidate, however many steps failed and processes
\* were lost, until a lease is seized; an entry completed by one always has one.
THEOREM ReceiptMeansWhole ==
  ASSUME Apart
  PROVE  Spec => []AdoptedIsWhole
<1>1. Adoptions => AdoptedIsWhole
  BY DEF Adoptions, Receipts, Completion, AdoptedIsWhole
<1> QED
  BY <1>1, AdoptionsAlways, PTL

\* An answer that confirms the cleanup without a success has changed no file and
\* left none behind, for any number of failed steps before it.
THEOREM RefusalsAreClean == Spec => []RefusedLeavesNothing
<1>1. Init => Refusals
  <2> SUFFICES ASSUME Init, NEW p \in Process PROVE NothingLeft(p)
    BY DEF Refusals
  <2>1. PICK x \in Project : call[p] = NewCall(x)
    BY DEF Init
  <2> QED
    BY <2>1 DEF Init, NewCall, NothingLeft
<1>2. IntegrationTypeOK /\ Refusals /\ [Next]_integrationVars => Refusals'
  <2> SUFFICES ASSUME IntegrationTypeOK, Refusals, [Next]_integrationVars PROVE Refusals'
    OBVIOUS
  <2>1. CASE UNCHANGED integrationVars
    BY <2>1 DEF integrationVars, Refusals, Refusing, NothingLeft
  <2> QED
    BY <2>1, Steps, RefusalsStep
<1>3. Refusals => RefusedLeavesNothing
  BY DEF Refusals, Refusing, NothingLeft, RefusedLeavesNothing, At
<1> QED
  BY <1>1, <1>2, <1>3, IntegrationTypeCorrect, PTL DEF Spec


\* A file of the base that is taken out of the tree is in the transaction directory
\* of the call that took it, and leaves that only for the tree or once the whole
\* candidate is there, also when a rollback could not put everything back, until a
\* lease is seized.
THEOREM DisplacedStays ==
  ASSUME Apart
  PROVE  Spec => NothingDisplacedIsLost
<1> DEFINE Lossless ==
      \A f \in Existing :
        /\ tree[f] = "base" =>
             "base" \in {tree'[f]} \cup {backup'[p][f] : p \in Process}
        /\ \A p \in Process : backup[p][f] = "base" =>
             "base" \in {tree'[f], backup'[p][f]} \/ Whole(ProjectOf(p))
<1>1. Adoptions /\ [Next]_integrationVars => [~seized => Lossless]_integrationVars
  <2> SUFFICES ASSUME Adoptions, ~seized, NEW p \in Process, Quiet(p) \/ Applies(p), NEW f \in Existing
               PROVE  /\ tree[f] = "base" =>
                           "base" \in {tree'[f]} \cup {backup'[q][f] : q \in Process}
                      /\ \A q \in Process : backup[q][f] = "base" =>
                           "base" \in {tree'[f], backup'[q][f]} \/ Whole(ProjectOf(q))
    BY Steps DEF Adoptions
  <2> DEFINE x == ProjectOf(p)
  <2>1. /\ IntegrationTypeOK /\ InRange /\ Progress /\ Displaced
        /\ f \in Path /\ x \in Project /\ call[p] \in Call
        /\ tree \in [Path -> Content] /\ backup \in [Process -> [Path -> Content \cup {"none"}]]
    BY IntegrationConstants
      DEF Adoptions, Calls, IntegrationTypeOK, Call, ProjectOf
  <2>2. Quiet(p) => UNCHANGED <<tree, backup>>
    BY <2>1, OutsideCall, AdoptionCall, BackupFrame DEF Quiet
  <2>3. \A q \in Process : q # p => backup'[q] = backup[q]
    BY <2>1, BackupFrame
  <2>4. Applies(p) => Aside(x, call[p], backup[p], tree)
    BY <2>1, AppliesCall DEF Displaced
  <2>5. SUFFICES ASSUME Applies(p)
                 PROVE  /\ tree[f] = "base" => tree'[f] = "base" \/ backup'[p][f] = "base"
                        /\ backup[p][f] = "base" =>
                             tree'[f] = "base" \/ backup'[p][f] = "base" \/ Whole(x)
    BY <2>2, <2>3, <2>5
  <2>6. CASE SaveFile(p)
    <3>1. call[p].pc = "save" /\ call[p].at \in DOMAIN Bundle[x] /\ Item(p).path \in Path
          /\ Item(p).path = Bundle[x][call[p].at].path
      BY <2>1, <2>6, BundleType DEF SaveFile, At, InRange, Item
    <3>2. backup[p][Item(p).path] = "none"
      <4> SUFFICES ASSUME backup[p][Item(p).path] # "none" PROVE FALSE
        OBVIOUS
      <4>1. PICK k \in DOMAIN call[p].applied : call[p].applied[k].path = Item(p).path
        BY <2>4, <2>5, <3>1 DEF Aside
      <4>2. call[p].at = k
        BY <2>1, <2>4, <2>5, <3>1, <4>1, ItemsDiffer
      <4>3. call[p].at = Len(call[p].applied) + 1 /\ k <= Len(call[p].applied)
            /\ Len(call[p].applied) \in Nat
        BY <2>1, <2>4, <2>5, <3>1, ItemsDiffer DEF Aside
      <4> QED
        BY <4>2, <4>3
    <3>3. CASE UNCHANGED <<tree, backup>>
      BY <3>3
    <3>4. CASE /\ backup' = IF tree[Item(p).path] # "absent"
                            THEN [backup EXCEPT ![p][Item(p).path] = tree[Item(p).path]]
                            ELSE backup
               /\ tree' = [tree EXCEPT ![Item(p).path] = "absent"]
      BY <2>1, <3>1, <3>2, <3>4
    <3> QED
      BY <2>6, <3>3, <3>4 DEF SaveFile, Throws
  <2>7. CASE WriteFile(p) \/ CheckFile(p)
    <3>1. UNCHANGED backup
      BY <2>7 DEF WriteFile, CheckFile, Throws
    <3>2. CASE tree[f] = "base" /\ tree'[f] # tree[f]
      <4>1. call[p].pc = "write" /\ f = Item(p).path
        BY <2>1, <2>7, <3>2 DEF WriteFile, CheckFile, Throws, At
      <4>2. call[p].at \in DOMAIN Bundle[x] /\ Bundle[x][call[p].at].path = f
        BY <2>1, <4>1 DEF InRange, Item
      <4>3. call[p].at = Len(call[p].applied)
        BY <2>4, <2>5, <4>1 DEF Aside
      <4>4. call[p].at \in DOMAIN call[p].applied
        <5>1. /\ Len(call[p].applied) \in Nat /\ DOMAIN call[p].applied = 1..Len(call[p].applied)
              /\ call[p].at \in Nat /\ call[p].at >= 1
          BY <2>1, <4>2, BundleType DEF Call
        <5> QED
          BY <4>3, <5>1
      <4>5. call[p].applied[call[p].at].path = f
        BY <2>4, <2>5, <4>2, <4>4 DEF Aside
      <4> QED
        BY <2>4, <2>5, <3>2, <4>1, <4>4, <4>5 DEF Aside, Open
    <3> QED
      BY <3>1, <3>2
  <2>8. CASE ClearTransaction(p)
    BY <2>1, <2>8 DEF ClearTransaction, Progress, At
  <2>9. CASE RollBackItem(p)
    <3> DEFINE k == call[p].at
               last == call[p].applied[k]
    <3>1. k \in DOMAIN call[p].applied /\ call[p].pc = "rollback" /\ last.path \in Path
      <4>1. call[p].pc = "rollback" /\ k > 0
        BY <2>9 DEF RollBackItem, At
      <4>2. k \in 1..Len(call[p].applied) /\ last \in [path : Path, saved : BOOLEAN]
        BY <2>1, <4>1, ItemType
      <4> QED
        BY <2>1, <4>1, <4>2 DEF Call
    <3>2. Open(call[p], k) /\ tree[last.path] # "base"
      <4>1. Open(call[p], k)
        BY <2>1, <3>1 DEF Open, Call
      <4> QED
        BY <2>4, <2>5, <3>1, <4>1 DEF Aside
    <3>3. ~last.saved => backup[p][last.path] = "none"
      <4> SUFFICES ASSUME ~last.saved, backup[p][last.path] # "none" PROVE FALSE
        OBVIOUS
      <4>1. PICK j \in DOMAIN call[p].applied :
              call[p].applied[j].path = last.path /\ call[p].applied[j].saved
        BY <2>4, <2>5, <3>1 DEF Aside
      <4> QED
        BY <2>1, <2>4, <2>5, <3>1, <4>1, ItemsDiffer
    <3>4. CASE /\ tree' = [tree EXCEPT ![last.path] =
                            IF last.saved THEN backup[p][last.path] ELSE "absent"]
               /\ backup' = [backup EXCEPT ![p][last.path] = "none"]
      <4> HIDE DEF last, k
      <4> QED
        BY <2>1, <3>1, <3>2, <3>3, <3>4
    <3>5. CASE UNCHANGED backup /\ tree' \in {tree, [tree EXCEPT ![last.path] = "absent"]}
      <4> HIDE DEF last, k
      <4> QED
        BY <2>1, <3>1, <3>2, <3>5
    <3> QED
      BY <2>9, <3>4, <3>5 DEF RollBackItem
  <2>10. CASE EndRollback(p)
    <3>1. UNCHANGED tree /\ (UNCHANGED backup \/ call[p].applies = "not")
          /\ call[p].pc = "rollback" /\ call[p].at = 0
      BY <2>10 DEF EndRollback, At
    <3>2. call[p].applies = "not" => backup[p][f] = "none"
      <4> SUFFICES ASSUME call[p].applies = "not", backup[p][f] # "none" PROVE FALSE
        OBVIOUS
      <4>1. PICK k \in DOMAIN call[p].applied : Open(call[p], k)
        BY <2>1, <2>4, <2>5 DEF Aside
      <4>2. k <= 0
        BY <3>1, <4>1 DEF Open
      <4> QED
        BY <2>1, <4>2 DEF Call
    <3> QED
      BY <3>1, <3>2
  <2> QED
    BY <2>5, <2>6, <2>7, <2>8, <2>9, <2>10 DEF Applies
<1> QED
  BY <1>1, AdoptionsAlways, PTL DEF Spec, NothingDisplacedIsLost

=============================================================================

------------------------- MODULE ProjectDecisionProofs -------------------------
(***************************************************************************)
(* What people decide holds, for any number of processes, decisions and    *)
(* acceptances, of crashes, refused writes and unknown results: a finalized *)
(* decision is one that the project has applied, the queue follows no      *)
(* other, and a submission is decided by the capability that is current.   *)
(***************************************************************************)
EXTENDS ProjectDecision, TLAPS

-----------------------------------------------------------------------------
(* The invariant.                                                          *)

\* The generation after the one that record r was issued for holds what it
\* decided.
AppliedAt(d, r) ==
  LET g == r.expected + 1 IN
  /\ g <= Latest
  /\ project[g].application = ApplicationOf(d, r)
  /\ project[g].milestone = Resumed(r.option)

\* The generation that acceptance record r names is as it was decided.
AcceptedAt(r) ==
  /\ r.new \in 1..Latest
  /\ StateOf(project[r.new], r.target) = Decided(r.target, r.decision)

CallRecord ==
  [pc    : PC,
   d     : Decision \cup Acceptance \cup {"none"},
   state : 0..MaxGeneration,
   queue : Nat,
   copy  : DecisionRecord,
   about : AcceptanceRecord]

StoresTyped ==
  /\ project \in Seq(ProjectState) /\ Latest \in 1..MaxGeneration
  /\ queue \in Seq(QueueEntry) /\ QueueLatest \in Nat \ {0}
  /\ record \in [Decision -> DecisionRecord]
  /\ issued \in 0..MaxIssues
  /\ handed \subseteq 1..issued /\ lapsed \subseteq 1..issued
  /\ intent \in [Application -> {"absent", "required", "settled"}]
  /\ acceptance \in [Acceptance -> AcceptanceRecord]

\* What the finalized records say has happened.
StoresHold ==
  /\ \A d \in Decision : record[d].disposition = "finalized" => AppliedAt(d, record[d])
  /\ \A a \in Acceptance : acceptance[a].disposition = "finalized" => AcceptedAt(acceptance[a])

StoresOK == StoresTyped /\ StoresHold

\* The steps of a call, by what it has at them: a generation of the project,
\* a decision, a copy of its record at some point of the record's life.
HasRead == {"replan_check", "replan", "check", "prepare", "write", "accept_create",
            "accept_apply"}
Pending == {"expire", "observe", "check", "prepare", "invalidate", "prove",
            "invalidate_stale"}
Prepared == {"write", "readback", "finalize", "recover", "recover_finalize",
             "recover_invalidate"}
Finalizing == {"finalize", "recover_finalize"}
Finalizeds == {"move", "recover_queue", "recover_move", "settle"}
Deciding == Pending \cup Prepared \cup Finalizeds \cup {"issue", "reissue", "intent"}
Submitting == {"observe", "check", "prepare"}

CallOK(p) ==
  LET c == call[p] IN
  /\ c.state <= Latest /\ c.queue <= QueueLatest
  /\ c.pc \in HasRead => c.state # 0
  /\ c.pc \in Deciding => c.d \in Decision
  /\ c.pc \in Pending => c.copy.disposition = "pending"
  /\ c.pc \in Prepared => c.copy.disposition = "prepared"
  /\ c.pc = "reissue" => c.copy.disposition = "invalidated"
  /\ c.pc \in Finalizeds => c.copy.disposition = "finalized" /\ record[c.d] = c.copy
  /\ c.pc \in Submitting => c.copy.capability \in handed
  /\ c.pc \in Finalizing => AppliedAt(c.d, c.copy)
  /\ c.pc = "accept_create" => c.about.disposition = "prepared"
  /\ c.pc = "accept_finalize" => AcceptedAt(c.about)

CallsOK ==
  /\ call \in [Process -> CallRecord]
  /\ \A p \in Process : CallOK(p)

DecisionInv == StoresOK /\ CallsOK /\ faults \in 0..MaxFaults

-----------------------------------------------------------------------------
(* What the stores keep: generations stay, so do finalized records.        *)

Grow ==
  /\ Latest <= Latest' /\ \A g \in 1..Latest : project'[g] = project[g]
  /\ QueueLatest <= QueueLatest'
  /\ handed \subseteq handed'
  /\ \A d \in Decision : record[d].disposition = "finalized" => record'[d] = record[d]

LEMMA BoundsAreNat ==
  MaxGeneration \in Nat /\ MaxGeneration > 0 /\ MaxIssues \in Nat /\ MaxFaults \in Nat
BY DecisionBounds

LEMMA AppliedGrows ==
  ASSUME StoresTyped, StoresTyped', Grow, NEW d, NEW r \in DecisionRecord, AppliedAt(d, r)
  PROVE  AppliedAt(d, r)'
<1> DEFINE g == r.expected + 1
<1>1. r.expected \in 0..MaxGeneration /\ Latest \in 1..MaxGeneration
  BY DEF DecisionRecord, StoresTyped
<1>2. g \in 1..Latest
  BY <1>1, BoundsAreNat DEF AppliedAt
<1>3. project'[g] = project[g] /\ Latest <= Latest'
  BY <1>2 DEF Grow
<1>4. Latest \in Nat /\ Latest' \in Nat
  BY BoundsAreNat DEF StoresTyped
<1>5. g <= Latest'
  BY <1>1, <1>2, <1>3, <1>4, BoundsAreNat
<1> QED
  BY <1>3, <1>5 DEF AppliedAt

LEMMA AcceptedGrows ==
  ASSUME StoresTyped, StoresTyped', Grow, NEW r, AcceptedAt(r)
  PROVE  AcceptedAt(r)'
<1>1. Latest \in Nat /\ Latest' \in Nat /\ Latest <= Latest'
  BY BoundsAreNat DEF StoresTyped, Grow
<1>2. r.new \in 1..Latest /\ project'[r.new] = project[r.new]
  BY DEF AcceptedAt, Grow
<1> QED
  BY <1>1, <1>2 DEF AcceptedAt

\* What a step writes in the stores of the records is true of the project.
WritesHold ==
  /\ \A d \in Decision : record'[d] # record[d] =>
       (record[d].disposition = "finalized" => AppliedAt(d, record[d]))'
  /\ \A a \in Acceptance : acceptance'[a] # acceptance[a] =>
       (acceptance[a].disposition = "finalized" => AcceptedAt(acceptance[a]))'

LEMMA HoldGrows ==
  ASSUME StoresOK, StoresTyped', Grow, WritesHold
  PROVE  StoresOK'
<1>1. ASSUME NEW d \in Decision, record'[d].disposition = "finalized"
      PROVE  AppliedAt(d, record[d])'
  <2>1. CASE record'[d] = record[d]
    <3>1. record[d] \in DecisionRecord /\ AppliedAt(d, record[d])
      BY <1>1, <2>1 DEF StoresOK, StoresTyped, StoresHold
    <3> QED
      BY <2>1, <3>1, AppliedGrows DEF StoresOK, AppliedAt
  <2>2. CASE record'[d] # record[d]
    BY <1>1, <2>2 DEF WritesHold
  <2> QED
    BY <2>1, <2>2
<1>2. ASSUME NEW a \in Acceptance, acceptance'[a].disposition = "finalized"
      PROVE  AcceptedAt(acceptance[a])'
  <2>1. CASE acceptance'[a] = acceptance[a]
    BY <1>2, <2>1, AcceptedGrows DEF StoresOK, StoresHold, AcceptedAt
  <2>2. CASE acceptance'[a] # acceptance[a]
    BY <1>2, <2>2 DEF WritesHold
  <2> QED
    BY <2>1, <2>2
<1> QED
  BY <1>1, <1>2 DEF StoresOK, StoresHold

LEMMA AppendGrows ==
  ASSUME NEW S, NEW s \in Seq(S), NEW v \in S
  PROVE  /\ Append(s, v) \in Seq(S) /\ Len(Append(s, v)) = Len(s) + 1
         /\ Append(s, v)[Len(s) + 1] = v
         /\ \A i \in 1..Len(s) : Append(s, v)[i] = s[i]
OBVIOUS

LEMMA ProjectWritten ==
  ASSUME StoresOK, NEW v \in ProjectState, Latest < MaxGeneration,
         project' = Append(project, v),
         UNCHANGED <<queue, record, issued, handed, lapsed, intent, acceptance>>
  PROVE  StoresOK' /\ Grow /\ Latest' = Latest + 1 /\ project'[Latest + 1] = v
<1>1. /\ project \in Seq(ProjectState) /\ Latest \in 1..MaxGeneration /\ QueueLatest \in Nat
      /\ Latest \in Nat
  BY BoundsAreNat DEF StoresOK, StoresTyped
<1>2. /\ project' \in Seq(ProjectState) /\ Latest' = Latest + 1
      /\ project'[Latest + 1] = v /\ \A g \in 1..Latest : project'[g] = project[g]
  BY <1>1, AppendGrows DEF Latest
<1>3. Latest' \in 1..MaxGeneration
  BY <1>1, <1>2, BoundsAreNat
<1>4. StoresTyped'
  BY <1>2, <1>3 DEF StoresOK, StoresTyped, QueueLatest
<1>5. Grow
  <2>1. Latest <= Latest' /\ QueueLatest <= QueueLatest'
    BY <1>1, <1>2 DEF QueueLatest
  <2> QED
    BY <1>2, <2>1 DEF Grow
<1>6. WritesHold
  BY DEF WritesHold
<1> QED
  BY <1>2, <1>4, <1>5, <1>6, HoldGrows

LEMMA QueueWritten ==
  ASSUME StoresOK, NEW e \in QueueEntry, queue' = Append(queue, e),
         UNCHANGED <<project, record, issued, handed, lapsed, intent, acceptance>>
  PROVE  StoresOK' /\ Grow /\ QueueLatest' = QueueLatest + 1 /\ Entry' = e
<1>1. /\ queue \in Seq(QueueEntry) /\ QueueLatest \in Nat \ {0} /\ Latest \in Nat
      /\ Latest \in 1..MaxGeneration
  BY BoundsAreNat DEF StoresOK, StoresTyped
<1>2. /\ queue' \in Seq(QueueEntry) /\ QueueLatest' = QueueLatest + 1
      /\ queue'[QueueLatest + 1] = e
  BY <1>1, AppendGrows DEF QueueLatest
<1>3. StoresTyped'
  BY <1>1, <1>2 DEF StoresOK, StoresTyped, Latest
<1>4. Grow
  <2>1. QueueLatest <= QueueLatest'
    BY <1>1, <1>2
  <2> QED
    BY <1>1, <2>1 DEF Grow, Latest
<1>5. WritesHold
  BY DEF WritesHold
<1> QED
  BY <1>2, <1>3, <1>4, <1>5, HoldGrows DEF Entry

\* The record of a decision is written, or only a capability is issued.
LEMMA RecordWritten ==
  ASSUME StoresOK, NEW d \in Decision, NEW r \in DecisionRecord,
         record' = [record EXCEPT ![d] = r] \/ record' = record,
         record' # record => record[d].disposition # "finalized",
         r.disposition = "finalized" => AppliedAt(d, r),
         issued' \in 0..MaxIssues, issued <= issued',
         handed \subseteq handed', handed' \subseteq 1..issued',
         UNCHANGED <<project, queue, lapsed, intent, acceptance>>
  PROVE  StoresOK' /\ Grow
<1>1. /\ record \in [Decision -> DecisionRecord] /\ QueueLatest \in Nat /\ Latest \in Nat
      /\ issued \in Nat /\ issued' \in Nat
  BY BoundsAreNat DEF StoresOK, StoresTyped
<1>2. record' \in [Decision -> DecisionRecord]
  BY <1>1
<1>3. lapsed' \subseteq 1..issued'
  BY <1>1 DEF StoresOK, StoresTyped
<1>4. StoresTyped'
  BY <1>2, <1>3 DEF StoresOK, StoresTyped, Latest, QueueLatest
<1>5. Grow
  BY <1>1 DEF Grow, Latest, QueueLatest
<1>6. ASSUME NEW b \in Decision, record'[b] # record[b]
      PROVE  (record[b].disposition = "finalized" => AppliedAt(b, record[b]))'
  <2>1. b = d /\ record'[b] = r
    BY <1>1, <1>6
  <2> QED
    BY <2>1 DEF AppliedAt, Latest, ApplicationOf
<1>7. WritesHold
  BY <1>6 DEF WritesHold
<1> QED
  BY <1>4, <1>5, <1>7, HoldGrows

LEMMA AcceptanceWritten ==
  ASSUME StoresOK, NEW a, NEW r \in AcceptanceRecord,
         acceptance' = [acceptance EXCEPT ![a] = r] \/ acceptance' = acceptance,
         r.disposition = "finalized" => AcceptedAt(r),
         UNCHANGED <<project, queue, record, issued, handed, lapsed, intent>>
  PROVE  StoresOK' /\ Grow
<1>1. /\ acceptance \in [Acceptance -> AcceptanceRecord] /\ QueueLatest \in Nat
      /\ Latest \in Nat
  BY BoundsAreNat DEF StoresOK, StoresTyped
<1>2. acceptance' \in [Acceptance -> AcceptanceRecord]
  BY <1>1
<1>3. StoresTyped'
  BY <1>2 DEF StoresOK, StoresTyped, Latest, QueueLatest
<1>4. Grow
  BY <1>1 DEF Grow, Latest, QueueLatest
<1>5. ASSUME NEW b \in Acceptance, acceptance'[b] # acceptance[b]
      PROVE  (acceptance[b].disposition = "finalized" => AcceptedAt(acceptance[b]))'
  <2>1. acceptance'[b] = r
    BY <1>1, <1>5
  <2> QED
    BY <2>1 DEF AcceptedAt, Latest, StateOf
<1>6. WritesHold
  BY <1>5 DEF WritesHold
<1> QED
  BY <1>3, <1>4, <1>6, HoldGrows

\* The project, the queue and the records stay; an intent may be written, a
\* capability may lapse.
LEMMA RestWritten ==
  ASSUME StoresOK, UNCHANGED <<project, queue, record, issued, handed, acceptance>>,
         intent' \in [Application -> {"absent", "required", "settled"}],
         lapsed' \subseteq 1..issued
  PROVE  StoresOK' /\ Grow
<1>1. QueueLatest \in Nat /\ Latest \in Nat
  BY BoundsAreNat DEF StoresOK, StoresTyped
<1>2. StoresTyped'
  BY DEF StoresOK, StoresTyped, Latest, QueueLatest
<1>3. Grow
  BY <1>1 DEF Grow, Latest, QueueLatest
<1>4. WritesHold
  BY DEF WritesHold
<1> QED
  BY <1>2, <1>3, <1>4, HoldGrows

LEMMA NothingWritten ==
  ASSUME StoresOK, UNCHANGED stores
  PROVE  StoresOK' /\ Grow
BY RestWritten DEF stores, StoresOK, StoresTyped

-----------------------------------------------------------------------------
(* What a step makes of the call that takes it.                            *)

\* The call of p is in order after the step, whatever it did to the stores.
CallStep(p) ==
  /\ call' \in [Process -> CallRecord]
  /\ \A q \in Process \ {p} : call'[q] = call[q]
  /\ CallOK(p)'

LEMMA CallKept ==
  ASSUME StoresTyped, StoresTyped', Grow, call \in [Process -> CallRecord],
         NEW q \in Process, CallOK(q), call'[q] = call[q]
  PROVE  CallOK(q)'
<1> DEFINE c == call[q]
<1>1. /\ c \in CallRecord /\ Latest \in Nat /\ Latest' \in Nat /\ QueueLatest \in Nat
      /\ QueueLatest' \in Nat
  BY BoundsAreNat DEF StoresTyped
<1>2. c.state \in Nat /\ c.queue \in Nat /\ c.copy \in DecisionRecord
  BY <1>1, BoundsAreNat DEF CallRecord
<1>3. c.state <= Latest' /\ c.queue <= QueueLatest'
  BY <1>1, <1>2 DEF CallOK, Grow
<1>4. c.pc \in Finalizing => AppliedAt(c.d, c.copy)'
  BY <1>2, AppliedGrows DEF CallOK
<1>5. c.pc = "accept_finalize" => AcceptedAt(c.about)'
  BY AcceptedGrows DEF CallOK
<1>6. c.pc \in Finalizeds => record'[c.d] = c.copy
  <2> SUFFICES ASSUME c.pc \in Finalizeds PROVE record'[c.d] = c.copy
    OBVIOUS
  <2>1. c.d \in Decision /\ record[c.d] = c.copy /\ c.copy.disposition = "finalized"
    BY DEF CallOK, Deciding
  <2> QED
    BY <2>1 DEF Grow
<1>7. c.pc \in Submitting => c.copy.capability \in handed'
  BY DEF CallOK, Grow
<1>8. /\ c.pc \in HasRead => c.state # 0
      /\ c.pc \in Deciding => c.d \in Decision
      /\ c.pc \in Pending => c.copy.disposition = "pending"
      /\ c.pc \in Prepared => c.copy.disposition = "prepared"
      /\ c.pc = "reissue" => c.copy.disposition = "invalidated"
      /\ c.pc \in Finalizeds => c.copy.disposition = "finalized"
      /\ c.pc = "accept_create" => c.about.disposition = "prepared"
  BY DEF CallOK
<1>9. call'[q] = c
  OBVIOUS
<1>10. (c.pc \in Finalizing => AppliedAt(call[q].d, call[q].copy)')
       /\ (c.pc = "accept_finalize" => AcceptedAt(call[q].about)')
  BY <1>4, <1>5, <1>9 DEF AppliedAt, AcceptedAt
<1> QED
  BY <1>3, <1>6, <1>7, <1>8, <1>9, <1>10 DEF CallOK

\* AppliedAt and AcceptedAt after the step, of what the call has before it.
AppliedNext(d, r) ==
  LET g == r.expected + 1 IN
  /\ g <= Latest'
  /\ project'[g].application = ApplicationOf(d, r)
  /\ project'[g].milestone = Resumed(r.option)

AcceptedNext(r) ==
  /\ r.new \in 1..Latest'
  /\ StateOf(project'[r.new], r.target) = Decided(r.target, r.decision)

\* A call record that is in order in the state that the step makes.
InOrder(c) ==
  /\ c.state <= Latest' /\ c.queue <= QueueLatest'
  /\ c.pc \in HasRead => c.state # 0
  /\ c.pc \in Deciding => c.d \in Decision
  /\ c.pc \in Pending => c.copy.disposition = "pending"
  /\ c.pc \in Prepared => c.copy.disposition = "prepared"
  /\ c.pc = "reissue" => c.copy.disposition = "invalidated"
  /\ c.pc \in Finalizeds => c.copy.disposition = "finalized" /\ record'[c.d] = c.copy
  /\ c.pc \in Submitting => c.copy.capability \in handed'
  /\ c.pc \in Finalizing => AppliedNext(c.d, c.copy)
  /\ c.pc = "accept_create" => c.about.disposition = "prepared"
  /\ c.pc = "accept_finalize" => AcceptedNext(c.about)

LEMMA NewCall ==
  ASSUME call \in [Process -> CallRecord], NEW p \in Process, NEW c \in CallRecord,
         call' = [call EXCEPT ![p] = c], InOrder(c)
  PROVE  CallStep(p)
<1>1. call' \in [Process -> CallRecord] /\ \A q \in Process \ {p} : call'[q] = call[q]
  OBVIOUS
<1>2. call'[p] = c
  OBVIOUS
<1>3. CallOK(p)'
  BY <1>2 DEF CallOK, InOrder, AppliedAt, AppliedNext, AcceptedAt, AcceptedNext
<1> QED
  BY <1>1, <1>3 DEF CallStep

\* What the call of p has, in the state before and in the one after.
LEMMA CallFacts ==
  ASSUME StoresTyped, StoresTyped', Grow, CallsOK, NEW p \in Process
  PROVE  /\ call[p] \in CallRecord
         /\ call[p].state \in Nat /\ call[p].queue \in Nat
         /\ call[p].state <= Latest /\ call[p].queue <= QueueLatest
         /\ call[p].state <= Latest' /\ call[p].queue <= QueueLatest'
         /\ Latest \in Nat /\ Latest' \in Nat /\ QueueLatest \in Nat /\ QueueLatest' \in Nat
         /\ Latest <= Latest' /\ QueueLatest <= QueueLatest'
<1>1. /\ call[p] \in CallRecord /\ Latest \in Nat /\ Latest' \in Nat /\ QueueLatest \in Nat
      /\ QueueLatest' \in Nat
  BY BoundsAreNat DEF StoresTyped, CallsOK
<1>2. call[p].state \in Nat /\ call[p].queue \in Nat
  BY <1>1, BoundsAreNat DEF CallRecord
<1>3. call[p].state <= Latest /\ call[p].queue <= QueueLatest
  BY DEF CallsOK, CallOK
<1>4. Latest <= Latest' /\ QueueLatest <= QueueLatest'
  BY DEF Grow
<1> QED
  BY <1>1, <1>2, <1>3, <1>4

LEMMA IdleRecord == Idle \in CallRecord /\ NoRecord \in DecisionRecord
                    /\ NoAcceptance \in AcceptanceRecord
<1>1. 0 \in 0..MaxGeneration /\ 0 \in 0..MaxIssues /\ 0 \in Nat
  BY BoundsAreNat
<1>2. NoRecord \in DecisionRecord
  BY <1>1 DEF NoRecord, DecisionRecord
<1>3. NoAcceptance \in AcceptanceRecord
  BY <1>1 DEF NoAcceptance, AcceptanceRecord, Target
<1> QED
  BY <1>1, <1>2, <1>3 DEF Idle, CallRecord, PC

LEMMA ReturnStep ==
  ASSUME StoresTyped, StoresTyped', Grow, CallsOK, NEW p \in Process, Return(p)
  PROVE  CallStep(p)
<1>1. 0 <= Latest' /\ 0 <= QueueLatest'
  BY CallFacts
<1>2. InOrder(Idle)
  BY <1>1 DEF InOrder, Idle, HasRead, Deciding, Pending, Prepared, Finalizeds, Submitting,
              Finalizing
<1> QED
  BY <1>2, IdleRecord, NewCall DEF CallsOK, Return

LEMMA BlockedStep ==
  ASSUME StoresTyped, StoresTyped', Grow, CallsOK, NEW p \in Process,
         NEW r \in DecisionRecord, call[p].d \in Decision, RecoveryBlocked(p, r)
  PROVE  CallStep(p)
<1> DEFINE c == [Idle EXCEPT !.pc = "intent", !.d = call[p].d, !.copy = r]
<1>1. 0 <= Latest' /\ 0 <= QueueLatest'
  BY CallFacts
<1>2. /\ c.pc = "intent" /\ c.d = call[p].d /\ c.copy = r /\ c.state = 0 /\ c.queue = 0
      /\ c \in CallRecord
  BY IdleRecord DEF Idle, CallRecord, PC
<1>3. call' = [call EXCEPT ![p] = c]
  BY DEF RecoveryBlocked
<1> HIDE DEF c
<1>4. InOrder(c)
  BY <1>1, <1>2 DEF InOrder, HasRead, Deciding, Pending, Prepared, Finalizeds, Submitting,
                    Finalizing
<1> QED
  BY <1>2, <1>3, <1>4, NewCall DEF CallsOK

LEMMA GotoFields ==
  ASSUME CallsOK, NEW p \in Process, NEW pc \in PC
  PROVE  LET c == [call[p] EXCEPT !.pc = pc] IN
         /\ c \in CallRecord /\ c.pc = pc /\ c.d = call[p].d /\ c.state = call[p].state
         /\ c.queue = call[p].queue /\ c.copy = call[p].copy /\ c.about = call[p].about
         /\ Goto(p, pc) => call' = [call EXCEPT ![p] = c]
BY DEF CallsOK, CallRecord, Goto

\* What the next step of a call needs, in terms of the call it goes on from:
\* the generation it has read, the decision and the copy of its record.
May(pc, state, d, r) ==
  /\ pc \in HasRead => state # 0
  /\ pc \in Deciding => d \in Decision
  /\ pc \in Pending => r.disposition = "pending"
  /\ pc \in Prepared => r.disposition = "prepared"
  /\ pc = "reissue" => r.disposition = "invalidated"
  /\ pc \in Finalizeds => r.disposition = "finalized" /\ record'[d] = r
  /\ pc \in Submitting => r.capability \in handed'
  /\ pc \in Finalizing => AppliedNext(d, r)
  /\ pc \notin {"accept_create", "accept_finalize"}

LEMMA GotoStep ==
  ASSUME StoresTyped, StoresTyped', Grow, CallsOK, NEW p \in Process, NEW pc \in PC,
         Goto(p, pc), May(pc, call[p].state, call[p].d, call[p].copy)
  PROVE  CallStep(p)
<1> DEFINE c == [call[p] EXCEPT !.pc = pc]
<1>1. /\ c \in CallRecord /\ c.pc = pc /\ c.d = call[p].d /\ c.state = call[p].state
      /\ c.queue = call[p].queue /\ c.copy = call[p].copy
      /\ call' = [call EXCEPT ![p] = c]
  BY GotoFields
<1> HIDE DEF c
<1>2. InOrder(c)
  BY <1>1, CallFacts DEF InOrder, May
<1> QED
  BY <1>1, <1>2, NewCall DEF CallsOK

LEMMA GotoWithStep ==
  ASSUME StoresTyped, StoresTyped', Grow, CallsOK, NEW p \in Process, NEW pc \in PC,
         NEW r \in DecisionRecord, GotoWith(p, pc, r), May(pc, call[p].state, call[p].d, r)
  PROVE  CallStep(p)
<1> DEFINE c == [call[p] EXCEPT !.pc = pc, !.copy = r]
<1>1. /\ c \in CallRecord /\ c.pc = pc /\ c.d = call[p].d /\ c.state = call[p].state
      /\ c.queue = call[p].queue /\ c.copy = r
      /\ call' = [call EXCEPT ![p] = c]
  BY DEF GotoWith, CallsOK, CallRecord
<1> HIDE DEF c
<1>2. InOrder(c)
  BY <1>1, CallFacts DEF InOrder, May
<1> QED
  BY <1>1, <1>2, NewCall DEF CallsOK

LEMMA ReadQueueStep ==
  ASSUME StoresTyped, StoresTyped', Grow, CallsOK, NEW p \in Process, NEW pc \in PC,
         NEW required, ReadQueue(p, required, pc),
         required => May(pc, call[p].state, call[p].d, call[p].copy)
  PROVE  CallStep(p)
<1>1. CASE ~required
  BY <1>1, ReturnStep DEF ReadQueue
<1>2. CASE required
  <2> DEFINE c == [call[p] EXCEPT !.pc = pc, !.queue = QueueLatest]
  <2>1. call[p] \in CallRecord /\ QueueLatest \in Nat /\ QueueLatest <= QueueLatest'
    BY CallFacts
  <2>2. /\ c \in CallRecord /\ c.pc = pc /\ c.d = call[p].d /\ c.state = call[p].state
        /\ c.queue = QueueLatest /\ c.copy = call[p].copy
    BY <2>1 DEF CallRecord
  <2>3. call' = [call EXCEPT ![p] = c]
    BY <1>2 DEF ReadQueue
  <2> HIDE DEF c
  <2>4. InOrder(c)
    BY <1>2, <2>1, <2>2, CallFacts DEF InOrder, May
  <2> QED
    BY <2>2, <2>3, <2>4, NewCall DEF CallsOK
<1> QED
  BY <1>1, <1>2

\* A step of p that keeps the stores and its call in order.
Step(p) == StoresOK' /\ Grow /\ CallStep(p)

-----------------------------------------------------------------------------
(* The operation, the replanner and the integration.                       *)

LEMMA Typed ==
  ASSUME DecisionInv
  PROVE  StoresOK /\ StoresTyped /\ CallsOK
BY DEF DecisionInv, StoresOK

LEMMA ReadStateStep ==
  ASSUME DecisionInv, NEW p \in Process, NEW pc \in {"replan_check", "integrate_check"},
         ReadState(p, pc)
  PROVE  Step(p)
<1>1. StoresOK' /\ Grow /\ StoresTyped'
  BY Typed, NothingWritten DEF ReadState, StoresOK
<1> DEFINE c == [call[p] EXCEPT !.pc = pc, !.state = Latest]
<1>2. call[p] \in CallRecord /\ Latest \in 1..MaxGeneration /\ Latest <= Latest'
      /\ Latest \in 0..MaxGeneration
  BY <1>1, Typed, CallFacts, BoundsAreNat DEF StoresTyped
<1>3. c \in CallRecord /\ c.pc = pc /\ c.state = Latest /\ c.queue = call[p].queue
  BY <1>2 DEF CallRecord, PC
<1>4. call' = [call EXCEPT ![p] = c]
  BY DEF ReadState
<1> HIDE DEF c
<1>5. InOrder(c)
  BY <1>1, <1>2, <1>3, Typed, CallFacts
  DEF InOrder, HasRead, Deciding, Pending, Prepared, Finalizeds, Submitting, Finalizing
<1> QED
  BY <1>1, <1>3, <1>4, <1>5, Typed, NewCall DEF CallsOK, Step

LEMMA CheckStep ==
  ASSUME DecisionInv, NEW p \in Process, NEW required, NEW pc \in {"replan", "integrate"},
         call[p].pc \in {"replan_check", "integrate_check"},
         pc = "replan" => call[p].pc = "replan_check",
         ReadQueue(p, required, pc)
  PROVE  Step(p)
<1>1. StoresOK' /\ Grow /\ StoresTyped'
  BY Typed, NothingWritten DEF ReadQueue, StoresOK
<1>2. May(pc, call[p].state, call[p].d, call[p].copy)
  BY DEF May, DecisionInv, CallsOK, CallOK, HasRead, Deciding, Pending, Prepared,
         Finalizeds, Submitting, Finalizing
<1>3. pc \in PC
  BY DEF PC
<1> QED
  BY <1>1, <1>2, <1>3, Typed, ReadQueueStep DEF Step

LEMMA ReplanCheckKeeps ==
  ASSUME DecisionInv, NEW p \in Process, ReplanCheck(p)
  PROVE  Step(p)
BY CheckStep DEF ReplanCheck, At

LEMMA IntegrateCheckKeeps ==
  ASSUME DecisionInv, NEW p \in Process, IntegrateCheck(p)
  PROVE  Step(p)
BY CheckStep DEF IntegrateCheck, At

\* An objective or the milestone of a generation is changed.
LEMMA StateTyped ==
  ASSUME NEW s \in ProjectState, NEW o \in Objective, NEW os \in ObjectiveState,
         NEW m \in MilestoneState, NEW a \in Application \cup {NoApplication}
  PROVE  /\ [s EXCEPT !.objective[o] = os] \in ProjectState
         /\ [s EXCEPT !.objective[o] = os, !.milestone = m] \in ProjectState
         /\ [s EXCEPT !.milestone = m, !.application = a] \in ProjectState
BY DEF ProjectState

LEMMA HasReadState ==
  ASSUME DecisionInv, NEW p \in Process, call[p].pc \in HasRead
  PROVE  project[call[p].state] \in ProjectState
<1>1. call[p].state \in 1..Latest /\ project \in Seq(ProjectState)
  BY BoundsAreNat DEF DecisionInv, StoresOK, StoresTyped, CallsOK, CallOK, CallRecord
<1> QED
  BY <1>1 DEF Latest

LEMMA ReplanKeeps ==
  ASSUME DecisionInv, NEW p \in Process, Replan(p)
  PROVE  Step(p)
<1> DEFINE s == project[call[p].state]
<1>1. PICK o \in Objective :
        \/ WriteState(p, [s EXCEPT !.objective[o] = "executing", !.milestone = "executing"],
                      Goto(p, "replan_queue"), Return(p))
        \/ WriteState(p, [s EXCEPT !.milestone = "human_decision_required",
                                   !.application = NoApplication],
                      Goto(p, "escalate_queue"), Return(p))
  BY DEF Replan
<1>2. s \in ProjectState
  BY HasReadState DEF Replan, At, HasRead
<1> HIDE DEF s
<1>3. PICK v \in ProjectState, pc \in {"replan_queue", "escalate_queue"} :
        WriteState(p, v, Goto(p, pc), Return(p))
  BY <1>1, <1>2, StateTyped DEF ObjectiveState, MilestoneState
<1>4. /\ UNCHANGED <<queue, record, issued, handed, lapsed, intent, acceptance>>
      /\ \/ Latest < MaxGeneration /\ project' = Append(project, v)
         \/ UNCHANGED project
      /\ Goto(p, pc) \/ Return(p)
  BY <1>3 DEF WriteState, Answer
<1>5. StoresOK' /\ Grow /\ StoresTyped'
  BY <1>4, Typed, ProjectWritten, NothingWritten DEF stores, StoresOK
<1>6. May(pc, call[p].state, call[p].d, call[p].copy) /\ pc \in PC
  BY DEF May, HasRead, Deciding, Pending, Prepared, Finalizeds, Submitting, Finalizing, PC
<1> QED
  BY <1>4, <1>5, <1>6, Typed, GotoStep, ReturnStep DEF Step

LEMMA ReplanRefusedKeeps ==
  ASSUME DecisionInv, NEW p \in Process, ReplanRefused(p)
  PROVE  Step(p)
BY Typed, NothingWritten, ReturnStep DEF ReplanRefused, StoresOK, Step

\* What a write of the queue does to the stores.
LEMMA QueueStep ==
  ASSUME DecisionInv, NEW st, NEW d \in Decision \cup {"none"},
         st \in {"queued", "human_decision_required", "replan_required", "completed",
                 "cancelled"},
         \/ queue' = Append(queue, [state |-> st, reference |-> d])
         \/ UNCHANGED queue,
         UNCHANGED <<project, record, issued, handed, lapsed, intent, acceptance>>
  PROVE  StoresOK' /\ Grow /\ StoresTyped'
<1>1. [state |-> st, reference |-> d] \in QueueEntry
  BY DEF QueueEntry
<1>2. CASE UNCHANGED queue
  BY <1>2, Typed, NothingWritten DEF stores, StoresOK
<1>3. CASE queue' = Append(queue, [state |-> st, reference |-> d])
  BY <1>1, <1>3, Typed, QueueWritten DEF StoresOK
<1> QED
  BY <1>2, <1>3

LEMMA EndsWithQueue ==
  ASSUME DecisionInv, NEW p \in Process, ReplanQueue(p) \/ Integrate(p)
  PROVE  Step(p)
<1>1. PICK st \in {"queued", "human_decision_required", "completed"} :
        UpdateQueue(p, st, "none", Return(p), Return(p))
  BY DEF ReplanQueue, Integrate
<1>2. /\ \/ queue' = Append(queue, [state |-> st, reference |-> "none"])
         \/ UNCHANGED queue
      /\ UNCHANGED <<project, record, issued, handed, lapsed, intent, acceptance>>
      /\ Return(p)
  BY <1>1 DEF UpdateQueue, Answer
<1>3. StoresOK' /\ Grow /\ StoresTyped'
  BY <1>2, QueueStep
<1> QED
  BY <1>2, <1>3, Typed, ReturnStep DEF Step

\* A call that turns to decision d; it may read the project anew.
LEMMA IssueNext ==
  ASSUME DecisionInv, NEW p \in Process, NEW d \in Decision, NEW g \in 0..MaxGeneration,
         g <= Latest, StoresTyped', Grow,
         call' = [call EXCEPT ![p] = [call[p] EXCEPT !.pc = "issue", !.d = d, !.state = g]]
  PROVE  CallStep(p)
<1> DEFINE c == [call[p] EXCEPT !.pc = "issue", !.d = d, !.state = g]
<1>1. call[p] \in CallRecord
  BY Typed, CallFacts
<1>2. c \in CallRecord /\ c.pc = "issue" /\ c.d = d /\ c.state = g /\ c.queue = call[p].queue
  BY <1>1 DEF CallRecord, PC
<1> HIDE DEF c
<1>3. c.state <= Latest' /\ c.queue <= QueueLatest'
  BY <1>2, Typed, CallFacts, BoundsAreNat
<1>4. InOrder(c)
  BY <1>2, <1>3 DEF InOrder, HasRead, Deciding, Pending, Prepared, Finalizeds, Submitting,
                    Finalizing
<1>5. call' = [call EXCEPT ![p] = c]
  BY DEF c
<1> QED
  BY <1>2, <1>4, <1>5, Typed, NewCall DEF CallsOK

LEMMA ConflictKeeps ==
  ASSUME DecisionInv, NEW p \in Process, NEW d \in Decision, Conflict(p, d)
  PROVE  Step(p)
<1>1. /\ \/ queue' = Append(queue, [state |-> "human_decision_required",
                                    reference |-> "none"])
         \/ UNCHANGED queue
      /\ UNCHANGED <<project, record, issued, handed, lapsed, intent, acceptance>>
      /\ \/ call' = [call EXCEPT ![p].pc = "issue", ![p].d = d]
         \/ Return(p)
  BY DEF Conflict, UpdateQueue, Answer
<1>2. StoresOK' /\ Grow /\ StoresTyped'
  BY <1>1, QueueStep
<1>3. CASE Return(p)
  BY <1>2, <1>3, Typed, ReturnStep DEF Step
<1>4. CASE call' = [call EXCEPT ![p].pc = "issue", ![p].d = d]
  <2> DEFINE g == call[p].state
  <2>1. call[p] \in CallRecord /\ g \in 0..MaxGeneration /\ g <= Latest
    BY <1>2, Typed, CallFacts DEF CallRecord
  <2>2. [call[p] EXCEPT !.pc = "issue", !.d = d]
        = [call[p] EXCEPT !.pc = "issue", !.d = d, !.state = g]
    BY <2>1 DEF CallRecord
  <2>3. call' = [call EXCEPT ![p] = [call[p] EXCEPT !.pc = "issue", !.d = d]]
    BY <1>4, Typed DEF CallsOK
  <2> QED
    BY <1>2, <2>1, <2>2, <2>3, IssueNext DEF Step
<1> QED
  BY <1>1, <1>3, <1>4

LEMMA RequestDecisionKeeps ==
  ASSUME DecisionInv, NEW p \in Process, NEW d \in Decision, RequestDecision(p, d)
  PROVE  Step(p)
<1>1. StoresOK' /\ Grow /\ StoresTyped'
  BY Typed, NothingWritten DEF RequestDecision, StoresOK
<1>2. Latest \in 0..MaxGeneration /\ Latest <= Latest
  BY Typed, BoundsAreNat DEF StoresTyped
<1>3. call' = [call EXCEPT ![p] = [call[p] EXCEPT !.pc = "issue", !.d = d, !.state = Latest]]
  BY Typed DEF RequestDecision, CallsOK
<1> QED
  BY <1>1, <1>2, <1>3, IssueNext DEF Step

-----------------------------------------------------------------------------
(* The record of a decision is written.                                    *)

\* What a step of a call whose decision is not yet finalized has of it.
LEMMA DecidingFacts ==
  ASSUME DecisionInv, NEW p \in Process, call[p].pc \in Deciding
  PROVE  call[p].d \in Decision /\ call[p].copy \in DecisionRecord
BY DEF DecisionInv, CallsOK, CallOK, CallRecord

LEMMA IssueKeeps ==
  ASSUME DecisionInv, NEW p \in Process, Issue(p)
  PROVE  Step(p)
<1> DEFINE d == call[p].d
           pending == [NoRecord EXCEPT !.disposition = "pending",
                                       !.expected = call[p].state, !.capability = issued + 1]
<1>1. d \in Decision /\ call[p].state \in 0..MaxGeneration
  BY DecidingFacts DEF Issue, At, Deciding, DecisionInv, CallsOK, CallRecord
<1>2. issued + 1 \in 0..MaxIssues /\ issued <= issued + 1 /\ issued \in Nat
      /\ issued + 1 \in 1..(issued + 1)
  BY Typed, BoundsAreNat DEF StoresTyped, Issue
<1>3. pending \in DecisionRecord /\ pending.disposition = "pending"
  BY <1>1, <1>2, IdleRecord DEF DecisionRecord, NoRecord
<1>4. /\ issued' = issued + 1
      /\ UNCHANGED <<project, queue, lapsed, intent, acceptance>>
      /\ \/ record[d] = NoRecord /\ record' = [record EXCEPT ![d] = pending]
         \/ UNCHANGED record
      /\ \/ Return(p) /\ handed' = handed \cup {issued + 1}
         \/ RecoveryBlocked(p, pending) /\ UNCHANGED handed
  BY DEF Issue, Answer
<1> HIDE DEF pending, d
<1>5. handed \subseteq handed' /\ handed' \subseteq 1..issued'
  BY <1>2, <1>4, Typed DEF StoresTyped
<1>6. record' # record => record[d].disposition # "finalized"
  BY <1>4 DEF NoRecord
<1>7. issued' \in 0..MaxIssues /\ issued <= issued'
  BY <1>2, <1>4
<1>8. StoresOK' /\ Grow /\ StoresTyped'
  <2>1. StoresOK' /\ Grow
    BY <1>1, <1>3, <1>4, <1>5, <1>6, <1>7, Typed, RecordWritten
  <2> QED
    BY <2>1 DEF StoresOK
<1>9. CallStep(p)
  BY <1>1, <1>3, <1>4, <1>8, Typed, ReturnStep, BlockedStep DEF d
<1> QED
  BY <1>8, <1>9 DEF Step

LEMMA LapseKeeps ==
  ASSUME DecisionInv, NEW capability, Lapse(capability)
  PROVE  StoresOK' /\ Grow /\ StoresTyped'
<1>1. /\ lapsed' \subseteq 1..issued
      /\ UNCHANGED <<project, queue, record, issued, handed, intent, acceptance>>
  BY Typed DEF Lapse, StoresTyped
<1>2. intent' \in [Application -> {"absent", "required", "settled"}]
  BY <1>1, Typed DEF StoresTyped
<1>3. StoresOK' /\ Grow
  BY <1>1, <1>2, Typed, RestWritten
<1> QED
  BY <1>3 DEF StoresOK

\* A compare-and-set over a copy that is not finalized.
LEMMA SetStep ==
  ASSUME DecisionInv, NEW p \in Process, NEW r \in DecisionRecord,
         call[p].pc \in Deciding, call[p].copy.disposition # "finalized",
         r.disposition = "finalized" => AppliedAt(call[p].d, r),
         \/ /\ record[call[p].d] = call[p].copy
            /\ record' = [record EXCEPT ![call[p].d] = r]
         \/ UNCHANGED record,
         UNCHANGED <<project, queue, issued, handed, lapsed, intent, acceptance>>
  PROVE  StoresOK' /\ Grow /\ StoresTyped'
<1> DEFINE d == call[p].d
<1>1. d \in Decision /\ call[p].copy \in DecisionRecord
  BY DecidingFacts
<1>2. record' # record => record[d].disposition # "finalized"
  OBVIOUS
<1>3. issued' \in 0..MaxIssues /\ issued <= issued' /\ handed' \subseteq 1..issued'
      /\ handed \subseteq handed'
  BY Typed, BoundsAreNat DEF StoresTyped
<1>4. StoresOK' /\ Grow
  BY <1>1, <1>2, <1>3, Typed, RecordWritten
<1> QED
  BY <1>4 DEF StoresOK

\* A compare-and-set with which the call ends.
LEMMA SetAndReturn ==
  ASSUME DecisionInv, NEW p \in Process, NEW r \in DecisionRecord,
         call[p].pc \in Deciding, call[p].copy.disposition # "finalized",
         r.disposition # "finalized",
         CompareAndSet(p, r, Return(p), RecoveryBlocked(p, call[p].copy)),
         UNCHANGED <<issued, handed>>
  PROVE  Step(p)
<1>1. /\ \/ /\ record[call[p].d] = call[p].copy
            /\ record' = [record EXCEPT ![call[p].d] = r]
         \/ UNCHANGED record
      /\ UNCHANGED <<project, queue, issued, handed, lapsed, intent, acceptance>>
      /\ Return(p) \/ RecoveryBlocked(p, call[p].copy)
  BY DEF CompareAndSet, Answer
<1>2. StoresOK' /\ Grow /\ StoresTyped'
  BY <1>1, SetStep
<1> QED
  BY <1>1, <1>2, Typed, DecidingFacts, ReturnStep, BlockedStep DEF Step

\* A compare-and-set after which the call goes on with what it has written.
LEMMA SetAndGoto ==
  ASSUME DecisionInv, NEW p \in Process, NEW r \in DecisionRecord, NEW pc \in PC,
         call[p].pc \in Deciding, call[p].copy.disposition # "finalized",
         r.disposition = "finalized" => AppliedAt(call[p].d, r),
         CompareAndSet(p, r, GotoWith(p, pc, r), RecoveryBlocked(p, call[p].copy)),
         UNCHANGED <<issued, handed>>,
         pc \in {"reissue", "write", "move", "recover_queue"},
         pc = "reissue" => r.disposition = "invalidated",
         pc = "write" => r.disposition = "prepared" /\ call[p].state # 0,
         pc \in {"move", "recover_queue"} => r.disposition = "finalized"
  PROVE  Step(p)
<1>1. /\ \/ /\ record[call[p].d] = call[p].copy
            /\ record' = [record EXCEPT ![call[p].d] = r]
         \/ UNCHANGED record
      /\ UNCHANGED <<project, queue, issued, handed, lapsed, intent, acceptance>>
      /\ \/ GotoWith(p, pc, r) /\ record' = [record EXCEPT ![call[p].d] = r]
         \/ RecoveryBlocked(p, call[p].copy)
  BY DEF CompareAndSet, Answer
<1>2. StoresOK' /\ Grow /\ StoresTyped'
  BY <1>1, SetStep
<1>3. call[p].d \in Decision /\ call[p].copy \in DecisionRecord
  BY DecidingFacts
<1>4. CASE RecoveryBlocked(p, call[p].copy)
  BY <1>2, <1>3, <1>4, Typed, BlockedStep DEF Step
<1>5. CASE GotoWith(p, pc, r) /\ record' = [record EXCEPT ![call[p].d] = r]
  <2>1. record'[call[p].d] = r
    BY <1>3, <1>5, Typed DEF StoresTyped
  <2>2. May(pc, call[p].state, call[p].d, r)
    BY <1>3, <2>1 DEF May, HasRead, Deciding, Pending, Prepared, Finalizeds, Submitting,
                      Finalizing
  <2> QED
    BY <1>2, <1>5, <2>2, Typed, GotoWithStep DEF Step
<1> QED
  BY <1>1, <1>4, <1>5

\* A call that reads the record of decision d: its copy is the record.
LEMMA ReadRecordStep ==
  ASSUME DecisionInv, NEW p \in Process, NEW d \in Decision,
         NEW pc \in {"invalidate", "prove", "expire", "observe", "recover"},
         ReadRecord(p, d, pc),
         pc \in Pending => record[d].disposition = "pending",
         pc = "recover" => record[d].disposition = "prepared",
         pc = "observe" => record[d].capability \in handed
  PROVE  Step(p)
<1> DEFINE c == [call[p] EXCEPT !.pc = pc, !.d = d, !.copy = record[d]]
<1>1. StoresOK' /\ Grow /\ StoresTyped'
  BY Typed, NothingWritten DEF ReadRecord, StoresOK
<1>2. call[p] \in CallRecord /\ record[d] \in DecisionRecord /\ handed \subseteq handed'
  BY <1>1, Typed, CallFacts DEF StoresTyped, Grow
<1>3. /\ c \in CallRecord /\ c.pc = pc /\ c.d = d /\ c.copy = record[d]
      /\ c.state = call[p].state /\ c.queue = call[p].queue
  BY <1>2 DEF CallRecord, PC
<1>4. call' = [call EXCEPT ![p] = c]
  BY Typed DEF ReadRecord, CallsOK
<1> HIDE DEF c
<1>5. c.state <= Latest' /\ c.queue <= QueueLatest'
  BY <1>1, <1>3, Typed, CallFacts
<1>6. InOrder(c)
  BY <1>2, <1>3, <1>5 DEF InOrder, HasRead, Deciding, Pending, Prepared, Finalizeds,
                          Submitting, Finalizing
<1> QED
  BY <1>1, <1>3, <1>4, <1>6, Typed, NewCall DEF CallsOK, Step

LEMMA RecordReadKeeps ==
  ASSUME DecisionInv, NEW p \in Process, NEW d \in Decision,
         ReplaceRead(p, d) \/ InvalidateRead(p, d) \/ SubmitRead(p, d) \/ RecoverRead(p, d)
  PROVE  Step(p)
<1>1. CASE ReplaceRead(p, d)
  BY <1>1, ReadRecordStep DEF ReplaceRead, Pending
<1>2. CASE InvalidateRead(p, d)
  BY <1>2, ReadRecordStep DEF InvalidateRead, Pending
<1>3. CASE SubmitRead(p, d)
  BY <1>3, ReadRecordStep DEF SubmitRead, Pending
<1>4. CASE RecoverRead(p, d)
  BY <1>4, ReadRecordStep DEF RecoverRead, Pending
<1> QED
  BY <1>1, <1>2, <1>3, <1>4

\* What a call at a given step knows of its copy.
LEMMA CopyFacts ==
  ASSUME DecisionInv, NEW p \in Process
  PROVE  /\ call[p].pc \in Pending => call[p].copy.disposition = "pending"
         /\ call[p].pc \in Prepared => call[p].copy.disposition = "prepared"
         /\ call[p].pc \in Finalizeds => /\ call[p].copy.disposition = "finalized"
                                         /\ record[call[p].d] = call[p].copy
         /\ call[p].pc = "reissue" => call[p].copy.disposition = "invalidated"
         /\ call[p].pc \in Submitting => call[p].copy.capability \in handed
         /\ call[p].pc \in HasRead => call[p].state # 0
         /\ call[p].pc \in Finalizing => AppliedAt(call[p].d, call[p].copy)
         /\ call[p].pc = "accept_create" => call[p].about.disposition = "prepared"
         /\ call[p].pc = "accept_finalize" => AcceptedAt(call[p].about)
BY DEF DecisionInv, CallsOK, CallOK

LEMMA ReplaceInvalidateKeeps ==
  ASSUME DecisionInv, NEW p \in Process, NEW request \in Request,
         ReplaceInvalidate(p, request)
  PROVE  Step(p)
<1> DEFINE r == [call[p].copy EXCEPT !.disposition = "invalidated", !.request = request]
<1>1. call[p].pc = "invalidate" /\ "invalidate" \in Deciding /\ "invalidate" \in Pending
  BY DEF ReplaceInvalidate, At, Deciding, Pending
<1>2. call[p].copy \in DecisionRecord /\ call[p].copy.disposition = "pending"
  BY <1>1, DecidingFacts, CopyFacts
<1>3. r \in DecisionRecord /\ r.disposition = "invalidated"
  BY <1>2 DEF DecisionRecord
<1>4. CompareAndSet(p, r, GotoWith(p, "reissue", r), RecoveryBlocked(p, call[p].copy))
      /\ UNCHANGED <<issued, handed>>
  BY DEF ReplaceInvalidate
<1> HIDE DEF r
<1>5. "reissue" \in PC
  BY DEF PC
<1> QED
  BY <1>1, <1>2, <1>3, <1>4, <1>5, SetAndGoto

LEMMA ReplaceReissueKeeps ==
  ASSUME DecisionInv, NEW p \in Process, ReplaceReissue(p)
  PROVE  Step(p)
<1> DEFINE r == [call[p].copy EXCEPT !.disposition = "pending", !.capability = issued + 1]
           d == call[p].d
<1>1. call[p].pc = "reissue" /\ d \in Decision /\ call[p].copy \in DecisionRecord
      /\ call[p].copy.disposition = "invalidated"
  BY DecidingFacts, CopyFacts DEF ReplaceReissue, At, Deciding
<1>2. issued + 1 \in 0..MaxIssues /\ issued <= issued + 1 /\ issued \in Nat
      /\ issued + 1 \in 1..(issued + 1)
  BY Typed, BoundsAreNat DEF StoresTyped, ReplaceReissue
<1>3. r \in DecisionRecord /\ r.disposition = "pending"
  BY <1>1, <1>2 DEF DecisionRecord
<1>4. /\ issued' = issued + 1
      /\ UNCHANGED <<project, queue, lapsed, intent, acceptance>>
      /\ \/ record[d] = call[p].copy /\ record' = [record EXCEPT ![d] = r]
         \/ UNCHANGED record
      /\ \/ Return(p) /\ handed' = handed \cup {issued + 1}
         \/ RecoveryBlocked(p, call[p].copy) /\ UNCHANGED handed
  BY DEF ReplaceReissue, CompareAndSet, Answer
<1> HIDE DEF r, d
<1>5. handed \subseteq handed' /\ handed' \subseteq 1..issued'
  BY <1>2, <1>4, Typed DEF StoresTyped
<1>6. record' # record => record[d].disposition # "finalized"
  BY <1>1, <1>4
<1>7. issued' \in 0..MaxIssues /\ issued <= issued'
  BY <1>2, <1>4
<1>8. StoresOK' /\ Grow /\ StoresTyped'
  <2>1. StoresOK' /\ Grow
    BY <1>1, <1>3, <1>4, <1>5, <1>6, <1>7, Typed, RecordWritten
  <2> QED
    BY <2>1 DEF StoresOK
<1>9. CallStep(p)
  BY <1>1, <1>4, <1>8, Typed, ReturnStep, BlockedStep DEF d
<1> QED
  BY <1>8, <1>9 DEF Step

\* A record is invalidated, or found expired, and the call ends.
LEMMA SetAsideKeeps ==
  ASSUME DecisionInv, NEW p \in Process,
         InvalidateStale(p) \/ Expire(p) \/ RecoverInvalidate(p)
  PROVE  Step(p)
<1>1. PICK x \in {"invalidated", "expired"} :
        /\ CompareAndSet(p, [call[p].copy EXCEPT !.disposition = x],
                         Return(p), RecoveryBlocked(p, call[p].copy))
        /\ UNCHANGED <<issued, handed>>
  BY DEF InvalidateStale, Expire, RecoverInvalidate
<1>2. call[p].pc \in {"invalidate_stale", "expire", "recover_invalidate"}
  BY DEF InvalidateStale, Expire, RecoverInvalidate, At
<1>3. call[p].pc \in Deciding /\ call[p].copy.disposition # "finalized"
  BY <1>2, CopyFacts DEF Deciding, Pending, Prepared
<1>4. /\ [call[p].copy EXCEPT !.disposition = x] \in DecisionRecord
      /\ [call[p].copy EXCEPT !.disposition = x].disposition = x
  <2>1. call[p].copy \in DecisionRecord
    BY <1>3, DecidingFacts
  <2> QED
    BY <2>1 DEF DecisionRecord
<1> QED
  BY <1>1, <1>3, <1>4, SetAndReturn

LEMMA PrepareKeeps ==
  ASSUME DecisionInv, NEW p \in Process, Prepare(p)
  PROVE  Step(p)
<1>1. PICK option \in Option :
        /\ CompareAndSet(p, [call[p].copy EXCEPT !.disposition = "prepared", !.option = option],
                         GotoWith(p, "write", [call[p].copy EXCEPT !.disposition = "prepared",
                                                                   !.option = option]),
                         RecoveryBlocked(p, call[p].copy))
        /\ UNCHANGED <<issued, handed>>
        /\ call[p].pc = "prepare"
  BY DEF Prepare, At
<1> DEFINE r == [call[p].copy EXCEPT !.disposition = "prepared", !.option = option]
<1>2. /\ call[p].pc \in Deciding /\ call[p].copy \in DecisionRecord
      /\ call[p].copy.disposition = "pending" /\ call[p].state # 0
  BY <1>1, DecidingFacts, CopyFacts DEF Deciding, Pending, HasRead
<1>3. r \in DecisionRecord /\ r.disposition = "prepared"
  BY <1>2 DEF DecisionRecord
<1>4. CompareAndSet(p, r, GotoWith(p, "write", r), RecoveryBlocked(p, call[p].copy))
  BY <1>1
<1> HIDE DEF r
<1>5. "write" \in PC
  BY DEF PC
<1> QED
  BY <1>1, <1>2, <1>3, <1>4, <1>5, SetAndGoto

LEMMA FinalizeKeeps ==
  ASSUME DecisionInv, NEW p \in Process, Finalize(p) \/ RecoverFinalize(p)
  PROVE  Step(p)
<1> DEFINE r == [call[p].copy EXCEPT !.disposition = "finalized"]
<1>1. PICK pc \in {"move", "recover_queue"} :
        CompareAndSet(p, r, GotoWith(p, pc, r), RecoveryBlocked(p, call[p].copy))
        /\ UNCHANGED <<issued, handed>>
  BY DEF Finalize, RecoverFinalize, Finalized
<1>2. call[p].pc \in Finalizing
  BY DEF Finalize, RecoverFinalize, At, Finalizing
<1>3. /\ call[p].pc \in Deciding /\ call[p].copy \in DecisionRecord
      /\ call[p].copy.disposition = "prepared"
  BY <1>2, DecidingFacts, CopyFacts DEF Deciding, Prepared, Finalizing
<1>4. /\ r \in DecisionRecord /\ r.disposition = "finalized"
      /\ r.expected = call[p].copy.expected /\ r.option = call[p].copy.option
  BY <1>3 DEF DecisionRecord
<1> HIDE DEF r
<1>5. AppliedAt(call[p].d, r)
  BY <1>2, <1>4, CopyFacts DEF AppliedAt, ApplicationOf
<1>6. pc \in PC
  BY DEF PC
<1> QED
  BY <1>1, <1>3, <1>4, <1>5, <1>6, SetAndGoto

-----------------------------------------------------------------------------
(* A decision is submitted and recovered.                                  *)

\* A call that looks at the project and goes on, or stops.
LEMMA LookStep ==
  ASSUME DecisionInv, NEW p \in Process, NEW pc \in PC, UNCHANGED stores,
         call[p].pc \in Deciding,
         \/ Goto(p, pc) /\ May(pc, call[p].state, call[p].d, call[p].copy)
         \/ Return(p)
         \/ RecoveryBlocked(p, call[p].copy)
  PROVE  Step(p)
<1>1. StoresOK' /\ Grow /\ StoresTyped'
  BY Typed, NothingWritten DEF StoresOK
<1> QED
  BY <1>1, Typed, DecidingFacts, GotoStep, ReturnStep, BlockedStep DEF Step

LEMMA ProveKeeps ==
  ASSUME DecisionInv, NEW p \in Process, Prove(p)
  PROVE  Step(p)
<1>1. call[p].pc = "prove" /\ call[p].pc \in Deciding /\ call[p].pc \in Pending
  BY DEF Prove, At, Deciding, Pending
<1>2. May("invalidate_stale", call[p].state, call[p].d, call[p].copy)
  BY <1>1, CopyFacts, DecidingFacts
  DEF May, HasRead, Deciding, Pending, Prepared, Finalizeds, Submitting, Finalizing
<1>3. "invalidate_stale" \in PC
  BY DEF PC
<1>4. UNCHANGED stores /\ (Goto(p, "invalidate_stale") \/ Return(p))
  BY DEF Prove
<1> QED
  BY <1>1, <1>2, <1>3, <1>4, LookStep

LEMMA ObserveKeeps ==
  ASSUME DecisionInv, NEW p \in Process, Observe(p)
  PROVE  Step(p)
<1> DEFINE c == [call[p] EXCEPT !.pc = "check", !.state = Latest]
<1>1. StoresOK' /\ Grow /\ StoresTyped'
  BY Typed, NothingWritten DEF Observe, StoresOK
<1>2. /\ call[p] \in CallRecord /\ Latest \in 0..MaxGeneration /\ Latest # 0
      /\ Latest <= Latest' /\ handed \subseteq handed'
  <2>1. /\ call[p] \in CallRecord /\ Latest <= Latest' /\ handed \subseteq handed'
    BY <1>1, Typed, CallFacts DEF Grow
  <2>2. Latest \in 1..MaxGeneration
    BY Typed DEF StoresTyped
  <2>3. Latest \in 0..MaxGeneration /\ Latest # 0
    BY <2>2, BoundsAreNat
  <2> QED
    BY <2>1, <2>3
<1>3. /\ c \in CallRecord /\ c.pc = "check" /\ c.d = call[p].d /\ c.copy = call[p].copy
      /\ c.state = Latest /\ c.queue = call[p].queue
  BY <1>2 DEF CallRecord, PC
<1>4. call' = [call EXCEPT ![p] = c]
  BY Typed DEF Observe, CallsOK
<1>5. /\ call[p].d \in Decision /\ call[p].copy.disposition = "pending"
      /\ call[p].copy.capability \in handed
  BY DecidingFacts, CopyFacts DEF Observe, At, Deciding, Pending, Submitting
<1> HIDE DEF c
<1>6. c.state <= Latest' /\ c.queue <= QueueLatest'
  BY <1>1, <1>2, <1>3, Typed, CallFacts
<1>7. InOrder(c)
  BY <1>2, <1>3, <1>5, <1>6 DEF InOrder, HasRead, Deciding, Pending, Prepared, Finalizeds,
                                Submitting, Finalizing
<1> QED
  BY <1>1, <1>3, <1>4, <1>7, Typed, NewCall DEF CallsOK, Step

LEMMA LookQueueStep ==
  ASSUME DecisionInv, NEW p \in Process, NEW pc \in PC, NEW required,
         ReadQueue(p, required, pc),
         StoresOK' /\ Grow => May(pc, call[p].state, call[p].d, call[p].copy)
  PROVE  Step(p)
<1>1. StoresOK' /\ Grow /\ StoresTyped'
  BY Typed, NothingWritten DEF ReadQueue, StoresOK
<1> QED
  BY <1>1, Typed, ReadQueueStep DEF Step

LEMMA CheckKeeps ==
  ASSUME DecisionInv, NEW p \in Process, Check(p)
  PROVE  Step(p)
<1>1. /\ call[p].d \in Decision /\ call[p].copy.disposition = "pending"
      /\ call[p].copy.capability \in handed /\ call[p].state # 0
  BY DecidingFacts, CopyFacts DEF Check, At, Deciding, Pending, Submitting, HasRead
<1>2. Grow => May("prepare", call[p].state, call[p].d, call[p].copy)
  BY <1>1 DEF May, Grow, HasRead, Deciding, Pending, Prepared, Finalizeds, Submitting,
              Finalizing
<1>3. "prepare" \in PC
  BY DEF PC
<1> QED
  BY <1>2, <1>3, LookQueueStep DEF Check

LEMMA WriteKeeps ==
  ASSUME DecisionInv, NEW p \in Process, Write(p)
  PROVE  Step(p)
<1> DEFINE s == project[call[p].state]
           r == call[p].copy
           v == [s EXCEPT !.milestone = Resumed(r.option),
                          !.application = ApplicationOf(call[p].d, r)]
<1>1. call[p].pc = "write" /\ call[p].pc \in Deciding /\ call[p].pc \in HasRead
      /\ call[p].pc \in Prepared
  BY DEF Write, At, Deciding, HasRead, Prepared
<1>2. s \in ProjectState /\ call[p].d \in Decision /\ r \in DecisionRecord
      /\ r.disposition = "prepared"
  BY <1>1, HasReadState, DecidingFacts, CopyFacts
<1>3. Resumed(r.option) \in MilestoneState /\ ApplicationOf(call[p].d, r) \in Application
  BY <1>2 DEF Resumed, MilestoneState, ApplicationOf, Application, DecisionRecord
<1>4. v \in ProjectState
  BY <1>2, <1>3 DEF ProjectState
<1>5. /\ UNCHANGED <<queue, record, issued, handed, lapsed, intent, acceptance>>
      /\ \/ Latest < MaxGeneration /\ project' = Append(project, v)
         \/ UNCHANGED project
      /\ Goto(p, "readback") \/ RecoveryBlocked(p, r)
  BY DEF Write, WriteState, Answer
<1> HIDE DEF v, s
<1>6. StoresOK' /\ Grow /\ StoresTyped'
  BY <1>4, <1>5, Typed, ProjectWritten, NothingWritten DEF stores, StoresOK
<1>7. May("readback", call[p].state, call[p].d, call[p].copy) /\ "readback" \in PC
  BY <1>2 DEF May, HasRead, Deciding, Pending, Prepared, Finalizeds, Submitting, Finalizing,
              PC
<1> QED
  BY <1>2, <1>5, <1>6, <1>7, Typed, GotoStep, BlockedStep DEF Step

LEMMA WriteRefusedKeeps ==
  ASSUME DecisionInv, NEW p \in Process, WriteRefused(p)
  PROVE  Step(p)
<1>1. call[p].pc \in Deciding /\ "intent" \in PC
  BY DEF WriteRefused, At, Deciding, Prepared, PC
<1> QED
  BY <1>1, LookStep DEF WriteRefused

\* Both the submission and the recovery finalize what they have seen applied.
LEMMA SeenApplied ==
  ASSUME DecisionInv, NEW p \in Process, call[p].pc \in Prepared, UNCHANGED stores,
         Applied(Now, Latest, call[p].d, call[p].copy),
         NEW pc \in Finalizing
  PROVE  May(pc, call[p].state, call[p].d, call[p].copy) /\ pc \in PC
<1> DEFINE g == call[p].copy.expected + 1
<1>1. call[p].d \in Decision /\ call[p].copy.disposition = "prepared"
  BY DecidingFacts, CopyFacts DEF Deciding
<1>2. g = Latest /\ Latest \in Nat /\ Latest' = Latest /\ project' = project
  BY Typed, BoundsAreNat DEF Applied, stores, Latest, StoresTyped
<1>3. AppliedNext(call[p].d, call[p].copy)
  BY <1>2 DEF AppliedNext, Applied, Now
<1> QED
  BY <1>1, <1>3 DEF May, HasRead, Deciding, Pending, Prepared, Finalizeds, Submitting,
                    Finalizing, PC

LEMMA ReadbackKeeps ==
  ASSUME DecisionInv, NEW p \in Process, Readback(p)
  PROVE  Step(p)
<1>1. call[p].pc \in Deciding /\ call[p].pc \in Prepared /\ "finalize" \in Finalizing
      /\ "finalize" \in PC
  BY DEF Readback, At, Deciding, Prepared, Finalizing, PC
<1>2. UNCHANGED stores
  BY DEF Readback
<1>3. CASE Applied(Now, Latest, call[p].d, call[p].copy)
  <2>1. Goto(p, "finalize")
    BY <1>3 DEF Readback
  <2>2. May("finalize", call[p].state, call[p].d, call[p].copy)
    BY <1>1, <1>2, <1>3, SeenApplied
  <2> QED
    BY <1>1, <1>2, <2>1, <2>2, LookStep
<1>4. CASE ~Applied(Now, Latest, call[p].d, call[p].copy)
  BY <1>1, <1>2, <1>4, LookStep DEF Readback
<1> QED
  BY <1>3, <1>4

LEMMA RecoverKeeps ==
  ASSUME DecisionInv, NEW p \in Process, Recover(p)
  PROVE  Step(p)
<1>1. call[p].pc \in Deciding /\ call[p].pc \in Prepared /\ "recover_finalize" \in Finalizing
      /\ "recover_finalize" \in PC /\ "recover_invalidate" \in PC
  BY DEF Recover, At, Deciding, Prepared, Finalizing, PC
<1>2. UNCHANGED stores
  BY DEF Recover
<1>3. CASE Applied(Now, Latest, call[p].d, call[p].copy)
  <2>1. Goto(p, "recover_finalize")
    BY <1>3 DEF Recover
  <2>2. May("recover_finalize", call[p].state, call[p].d, call[p].copy)
    BY <1>1, <1>2, <1>3, SeenApplied
  <2> QED
    BY <1>1, <1>2, <2>1, <2>2, LookStep
<1>4. CASE ~Applied(Now, Latest, call[p].d, call[p].copy)
  <2>1. Goto(p, "recover_invalidate") \/ RecoveryBlocked(p, call[p].copy)
    BY <1>4 DEF Recover
  <2>2. May("recover_invalidate", call[p].state, call[p].d, call[p].copy)
    BY <1>1, DecidingFacts, CopyFacts DEF May, HasRead, Deciding, Pending, Prepared,
       Finalizeds, Submitting, Finalizing
  <2> QED
    BY <1>1, <1>2, <2>1, <2>2, LookStep
<1> QED
  BY <1>3, <1>4

\* What a call that has finalized its decision goes on with.
LEMMA FinalizedMay ==
  ASSUME DecisionInv, NEW p \in Process, call[p].pc \in Finalizeds, StoresTyped', Grow,
         NEW pc \in Finalizeds
  PROVE  May(pc, call[p].state, call[p].d, call[p].copy) /\ pc \in PC
<1>1. /\ call[p].d \in Decision /\ call[p].copy.disposition = "finalized"
      /\ record[call[p].d] = call[p].copy
  BY DecidingFacts, CopyFacts DEF Deciding
<1>2. record'[call[p].d] = call[p].copy
  BY <1>1 DEF Grow
<1> QED
  BY <1>1, <1>2 DEF May, HasRead, Deciding, Pending, Prepared, Finalizeds, Submitting,
                    Finalizing, PC

LEMMA MoveKeeps ==
  ASSUME DecisionInv, NEW p \in Process, Move(p) \/ RecoverMove(p)
  PROVE  Step(p)
<1>1. PICK st \in {"replan_required", "cancelled"} :
        /\ \/ queue' = Append(queue, [state |-> st, reference |-> call[p].d])
           \/ UNCHANGED queue
        /\ UNCHANGED <<project, record, issued, handed, lapsed, intent, acceptance>>
        /\ Return(p) \/ Goto(p, "settle") \/ RecoveryBlocked(p, call[p].copy)
  BY DEF Move, RecoverMove, MoveQueue, UpdateQueue, Answer
<1>2. call[p].pc \in Finalizeds /\ call[p].pc \in Deciding /\ "settle" \in Finalizeds
  BY DEF Move, RecoverMove, At, Finalizeds, Deciding
<1>3. call[p].d \in Decision /\ call[p].copy \in DecisionRecord
  BY <1>2, DecidingFacts
<1>4. StoresOK' /\ Grow /\ StoresTyped'
  BY <1>1, <1>3, QueueStep
<1>5. May("settle", call[p].state, call[p].d, call[p].copy) /\ "settle" \in PC
  BY <1>2, <1>4, FinalizedMay
<1> QED
  BY <1>1, <1>3, <1>4, <1>5, Typed, ReturnStep, GotoStep, BlockedStep DEF Step

LEMMA RecoverQueueKeeps ==
  ASSUME DecisionInv, NEW p \in Process, RecoverQueue(p)
  PROVE  Step(p)
<1>1. call[p].pc \in Finalizeds
  BY DEF RecoverQueue, At, Finalizeds
<1>2. PICK pc \in {"recover_move", "settle"} : ReadQueue(p, TRUE, pc)
  BY DEF RecoverQueue
<1>3. StoresOK' /\ Grow /\ StoresTyped'
  BY <1>2, Typed, NothingWritten DEF ReadQueue, StoresOK
<1>4. pc \in Finalizeds
  BY DEF Finalizeds
<1>5. May(pc, call[p].state, call[p].d, call[p].copy) /\ pc \in PC
  BY <1>1, <1>3, <1>4, FinalizedMay
<1> QED
  BY <1>2, <1>5, LookQueueStep

\* A recovery intent is written or settled: none of what is decided is touched.
LEMMA IntentKeeps ==
  ASSUME DecisionInv, NEW p \in Process, Settle(p) \/ PersistIntent(p)
  PROVE  Step(p)
<1>1. PICK x \in {"settled", "required"} :
        /\ \/ intent' = [intent EXCEPT ![IntentOf(p)] = x]
           \/ UNCHANGED intent
        /\ UNCHANGED <<project, queue, record, issued, handed, lapsed, acceptance>>
        /\ Return(p) \/ RecoveryBlocked(p, call[p].copy)
  BY DEF Settle, PersistIntent, Answer
<1>2. call[p].pc \in Deciding
  BY DEF Settle, PersistIntent, At, Deciding, Finalizeds
<1>3. intent' \in [Application -> {"absent", "required", "settled"}]
  BY <1>1, Typed DEF StoresTyped
<1>4. lapsed' \subseteq 1..issued
  BY <1>1, Typed DEF StoresTyped
<1>5. StoresOK' /\ Grow
  BY <1>1, <1>3, <1>4, Typed, RestWritten
<1>6. StoresTyped'
  BY <1>5 DEF StoresOK
<1> QED
  BY <1>1, <1>2, <1>5, <1>6, Typed, DecidingFacts, ReturnStep, BlockedStep DEF Step

LEMMA CrashKeeps ==
  ASSUME DecisionInv, NEW p \in Process, Crash(p)
  PROVE  Step(p)
BY Typed, NothingWritten, ReturnStep DEF Crash, StoresOK, Step

-----------------------------------------------------------------------------
(* Acceptance.                                                             *)

\* A call record at a step of the acceptance that has no application to show.
LEMMA AcceptCall ==
  ASSUME DecisionInv, StoresTyped', Grow, NEW p \in Process, NEW c \in CallRecord,
         call' = [call EXCEPT ![p] = c],
         c.pc \in {"accept_observe", "accept_create", "accept_apply"},
         c.pc # "accept_observe" => c.state # 0,
         c.pc = "accept_create" => c.about.disposition = "prepared",
         c.state <= Latest, c.queue = call[p].queue
  PROVE  CallStep(p)
<1>1. c.state \in Nat /\ c.state <= Latest' /\ c.queue <= QueueLatest'
  BY Typed, CallFacts, BoundsAreNat DEF CallRecord
<1>2. InOrder(c)
  BY <1>1 DEF InOrder, HasRead, Deciding, Pending, Prepared, Finalizeds, Submitting,
              Finalizing
<1> QED
  BY <1>2, Typed, NewCall DEF CallsOK

LEMMA AcceptReadKeeps ==
  ASSUME DecisionInv, NEW p \in Process, NEW a \in Acceptance, AcceptRead(p, a)
  PROVE  Step(p)
<1> DEFINE c == [call[p] EXCEPT !.pc = "accept_observe", !.d = a, !.about = acceptance[a]]
<1>1. StoresOK' /\ Grow /\ StoresTyped'
  BY Typed, NothingWritten DEF AcceptRead, StoresOK
<1>2. call[p] \in CallRecord /\ acceptance[a] \in AcceptanceRecord /\ call[p].state <= Latest
  BY <1>1, Typed, CallFacts DEF StoresTyped
<1>3. /\ c \in CallRecord /\ c.pc = "accept_observe" /\ c.state = call[p].state
      /\ c.queue = call[p].queue
  BY <1>2 DEF CallRecord, PC
<1>4. call' = [call EXCEPT ![p] = c]
  BY Typed DEF AcceptRead, CallsOK
<1> HIDE DEF c
<1> QED
  BY <1>1, <1>2, <1>3, <1>4, AcceptCall DEF Step

LEMMA AcceptObserveKeeps ==
  ASSUME DecisionInv, NEW p \in Process, NEW target \in Target,
         NEW decision \in {"accept", "return", "wait"}, AcceptObserve(p, target, decision)
  PROVE  Step(p)
<1> DEFINE first == call[p].about.disposition = "absent"
           asked == [disposition |-> "prepared", expected |-> Latest,
                     target |-> target, decision |-> decision, new |-> 0]
<1>1. StoresOK' /\ Grow /\ StoresTyped'
  BY Typed, NothingWritten DEF AcceptObserve, StoresOK
<1>2. call[p] \in CallRecord /\ Latest \in 0..MaxGeneration /\ Latest # 0 /\ Latest <= Latest
      /\ 0 \in 0..MaxGeneration
  BY <1>1, Typed, CallFacts, BoundsAreNat DEF StoresTyped
<1>3. asked \in AcceptanceRecord /\ asked.disposition = "prepared"
  BY <1>2 DEF AcceptanceRecord
<1>4. CASE first
  <2> DEFINE c == [call[p] EXCEPT !.state = Latest, !.pc = "accept_create", !.about = asked]
  <2>1. call' = [call EXCEPT ![p] = c]
    BY <1>4, Typed DEF AcceptObserve, CallsOK
  <2> HIDE DEF asked
  <2>2. /\ c \in CallRecord /\ c.pc = "accept_create" /\ c.state = Latest /\ c.about = asked
        /\ c.queue = call[p].queue
    BY <1>2, <1>3 DEF CallRecord, PC
  <2> HIDE DEF c
  <2> QED
    BY <1>1, <1>2, <1>3, <2>1, <2>2, AcceptCall DEF Step
<1>5. CASE ~first
  <2> DEFINE c == [call[p] EXCEPT !.state = Latest, !.pc = "accept_apply"]
  <2>1. call' = [call EXCEPT ![p] = [call[p] EXCEPT !.state = Latest, !.pc = "accept_apply",
                                                   !.about = call[p].about]]
    BY <1>5, Typed DEF AcceptObserve, CallsOK
  <2>2. /\ c \in CallRecord /\ c.pc = "accept_apply" /\ c.state = Latest
        /\ c.queue = call[p].queue
    BY <1>2 DEF CallRecord, PC
  <2>3. c = [call[p] EXCEPT !.state = Latest, !.pc = "accept_apply", !.about = call[p].about]
    BY <1>2 DEF CallRecord
  <2>4. call' = [call EXCEPT ![p] = c]
    BY <2>1, <2>3
  <2> HIDE DEF c
  <2> QED
    BY <1>1, <1>2, <2>2, <2>4, AcceptCall DEF Step
<1> QED
  BY <1>4, <1>5

LEMMA AcceptCreateKeeps ==
  ASSUME DecisionInv, NEW p \in Process, AcceptCreate(p)
  PROVE  Step(p)
<1>1. call[p].pc = "accept_create" /\ call[p].pc \in HasRead /\ "accept_apply" \in PC
  BY DEF AcceptCreate, At, HasRead, PC
<1>2. /\ call[p].about \in AcceptanceRecord /\ call[p].about.disposition = "prepared"
      /\ call[p].state # 0
  BY <1>1, Typed, CopyFacts DEF CallsOK, CallRecord
<1>3. /\ \/ acceptance' = [acceptance EXCEPT ![call[p].d] = call[p].about]
         \/ UNCHANGED acceptance
      /\ UNCHANGED <<project, queue, record, issued, handed, lapsed, intent>>
      /\ Goto(p, "accept_apply") \/ Return(p)
  BY DEF AcceptCreate, WriteAcceptance, Answer
<1>4. StoresOK' /\ Grow
  BY <1>2, <1>3, Typed, AcceptanceWritten
<1>5. StoresTyped'
  BY <1>4 DEF StoresOK
<1>6. May("accept_apply", call[p].state, call[p].d, call[p].copy)
  BY <1>2 DEF May, HasRead, Deciding, Pending, Prepared, Finalizeds, Submitting, Finalizing
<1> QED
  BY <1>1, <1>3, <1>4, <1>5, <1>6, Typed, GotoStep, ReturnStep DEF Step

\* The call goes on with the generation in which the decision holds.
LEMMA AcceptedAsStep ==
  ASSUME DecisionInv, StoresTyped', Grow, NEW p \in Process, NEW g \in 1..Latest',
         AcceptedAs(p, g),
         StateOf(project'[g], call[p].about.target)
           = Decided(call[p].about.target, call[p].about.decision)
  PROVE  CallStep(p)
<1> DEFINE c == [call[p] EXCEPT !.pc = "accept_finalize", !.about.new = g]
<1>1. call[p] \in CallRecord /\ g \in 0..MaxGeneration
  BY Typed, CallFacts, BoundsAreNat DEF StoresTyped
<1>2. /\ [call[p].about EXCEPT !.new = g] \in AcceptanceRecord
      /\ [call[p].about EXCEPT !.new = g].new = g
      /\ [call[p].about EXCEPT !.new = g].target = call[p].about.target
      /\ [call[p].about EXCEPT !.new = g].decision = call[p].about.decision
  BY <1>1 DEF CallRecord, AcceptanceRecord
<1>3. /\ c \in CallRecord /\ c.pc = "accept_finalize" /\ c.state = call[p].state
      /\ c.queue = call[p].queue /\ c.about = [call[p].about EXCEPT !.new = g]
  BY <1>1, <1>2 DEF CallRecord, PC
<1>4. call' = [call EXCEPT ![p] = c]
  BY Typed DEF AcceptedAs, CallsOK
<1> HIDE DEF c
<1>5. c.state <= Latest' /\ c.queue <= QueueLatest'
  BY <1>3, Typed, CallFacts
<1>6. AcceptedNext(c.about)
  BY <1>2, <1>3 DEF AcceptedNext
<1>7. InOrder(c)
  BY <1>3, <1>5, <1>6 DEF InOrder, HasRead, Deciding, Pending, Prepared, Finalizeds,
                          Submitting, Finalizing
<1> QED
  BY <1>3, <1>4, <1>7, Typed, NewCall DEF CallsOK

\* What a decision makes of a generation is a generation, with the target in the
\* state that was decided.
LEMMA AcceptDecides ==
  ASSUME NEW s \in ProjectState, NEW r \in AcceptanceRecord
  PROVE  /\ Accept(s, r) \in ProjectState
         /\ StateOf(Accept(s, r), r.target) = Decided(r.target, r.decision)
<1>1. r.target \in Target /\ r.decision \in {"accept", "return", "wait"}
  BY DEF AcceptanceRecord
<1>2. CASE r.target = "milestone"
  <2>1. Decided(r.target, r.decision) \in MilestoneState
    BY <1>1, <1>2 DEF Decided, MilestoneState
  <2> QED
    BY <1>2, <2>1 DEF Accept, StateOf, ProjectState
<1>3. CASE r.target # "milestone"
  <2> DEFINE objective == [s.objective EXCEPT ![r.target] = Decided(r.target, r.decision)]
             m == IF \A o \in Objective : objective[o] = "accepted"
                  THEN "integrating" ELSE s.milestone
  <2>1. r.target \in Objective
    BY <1>1, <1>3 DEF Target
  <2>2. Decided(r.target, r.decision) \in ObjectiveState
    BY <1>1, <1>3 DEF Decided, ObjectiveState
  <2>3. /\ objective \in [Objective -> ObjectiveState]
        /\ objective[r.target] = Decided(r.target, r.decision)
    BY <2>1, <2>2 DEF ProjectState
  <2>4. m \in MilestoneState
    BY DEF MilestoneState, ProjectState
  <2>5. Accept(s, r) = [s EXCEPT !.objective = objective, !.milestone = m]
    BY <1>3 DEF Accept
  <2> HIDE DEF objective, m
  <2>6. Accept(s, r) \in ProjectState /\ Accept(s, r).objective = objective
    BY <2>3, <2>4, <2>5 DEF ProjectState
  <2> QED
    BY <1>3, <2>3, <2>6 DEF StateOf
<1> QED
  BY <1>2, <1>3

\* An acceptable target that is told to wait is in the state it was told to be in.
LEMMA WaitHolds ==
  ASSUME NEW s, NEW target, Acceptable(s, target)
  PROVE  StateOf(s, target) = Decided(target, "wait")
BY DEF Acceptable, StateOf, Decided

LEMMA AcceptApplyKeeps ==
  ASSUME DecisionInv, NEW p \in Process, AcceptApply(p)
  PROVE  Step(p)
<1> DEFINE g == call[p].state
           s == project[g]
           r == call[p].about
<1>1. call[p].pc = "accept_apply" /\ call[p].pc \in HasRead
  BY DEF AcceptApply, At, HasRead
<1>2. s \in ProjectState /\ r \in AcceptanceRecord /\ g \in 1..Latest /\ Latest \in Nat
  <2>1. g # 0 /\ g <= Latest /\ g \in Nat /\ Latest \in Nat
    BY <1>1, CopyFacts, BoundsAreNat
    DEF DecisionInv, StoresOK, StoresTyped, CallsOK, CallOK, CallRecord
  <2> QED
    BY <1>1, <2>1, HasReadState, Typed DEF CallsOK, CallRecord
<1>3. CASE /\ AcceptedAs(p, g) /\ UNCHANGED stores
           /\ \/ AlreadyApplied(s, g, r)
              \/ Acceptable(s, r.target) /\ r.decision = "wait"
  <2>1. StoresOK' /\ Grow /\ StoresTyped'
    BY <1>3, Typed, NothingWritten DEF StoresOK
  <2>2. project' = project /\ Latest' = Latest
    BY <1>3 DEF stores, Latest
  <2>3. StateOf(s, r.target) = Decided(r.target, r.decision)
    BY <1>3, WaitHolds DEF AlreadyApplied
  <2>4. CallStep(p)
    BY <1>2, <1>3, <2>1, <2>2, <2>3, AcceptedAsStep
  <2> QED
    BY <2>1, <2>4 DEF Step
<1>4. CASE Return(p) /\ UNCHANGED stores
  BY <1>4, Typed, NothingWritten, ReturnStep DEF StoresOK, Step
<1>5. CASE WriteState(p, Accept(s, r), AcceptedAs(p, g + 1), Return(p))
  <2>1. Accept(s, r) \in ProjectState
        /\ StateOf(Accept(s, r), r.target) = Decided(r.target, r.decision)
    BY <1>2, AcceptDecides
  <2>2. /\ UNCHANGED <<queue, record, issued, handed, lapsed, intent, acceptance>>
        /\ \/ /\ g = Latest /\ Latest < MaxGeneration
              /\ project' = Append(project, Accept(s, r))
              /\ AcceptedAs(p, g + 1) \/ Return(p)
           \/ UNCHANGED project /\ Return(p)
    BY <1>5 DEF WriteState, Answer
  <2>3. CASE UNCHANGED project /\ Return(p)
    <3>1. UNCHANGED stores
      BY <2>2, <2>3 DEF stores
    <3> QED
      BY <2>3, <3>1, <1>4
  <2>4. CASE /\ g = Latest /\ Latest < MaxGeneration
             /\ project' = Append(project, Accept(s, r))
             /\ AcceptedAs(p, g + 1) \/ Return(p)
    <3> HIDE DEF g, s, r
    <3>1. /\ StoresOK' /\ Grow /\ Latest' = Latest + 1
          /\ project'[Latest + 1] = Accept(s, r)
      BY <2>1, <2>2, <2>4, Typed, ProjectWritten
    <3>2. StoresTyped'
      BY <3>1 DEF StoresOK
    <3>3. CASE Return(p)
      BY <3>1, <3>2, <3>3, Typed, ReturnStep DEF Step
    <3>4. CASE AcceptedAs(p, g + 1)
      <4>1. g + 1 \in 1..Latest' /\ project'[g + 1] = Accept(s, r)
        BY <1>2, <2>4, <3>1
      <4>2. StateOf(project'[g + 1], call[p].about.target)
              = Decided(call[p].about.target, call[p].about.decision)
        BY <2>1, <4>1 DEF r
      <4>3. CallStep(p)
        BY <3>1, <3>2, <3>4, <4>1, <4>2, AcceptedAsStep
      <4> QED
        BY <3>1, <4>3 DEF Step
    <3> QED
      BY <2>4, <3>3, <3>4
  <2> QED
    BY <2>2, <2>3, <2>4
<1> QED
  BY <1>3, <1>4, <1>5 DEF AcceptApply

LEMMA AcceptFinalizeKeeps ==
  ASSUME DecisionInv, NEW p \in Process, AcceptFinalize(p)
  PROVE  Step(p)
<1> DEFINE r == [call[p].about EXCEPT !.disposition = "finalized"]
<1>1. call[p].about \in AcceptanceRecord /\ AcceptedAt(call[p].about)
  BY Typed, CopyFacts DEF AcceptFinalize, At, CallsOK, CallRecord
<1>2. /\ r \in AcceptanceRecord /\ r.new = call[p].about.new
      /\ r.target = call[p].about.target /\ r.decision = call[p].about.decision
  BY <1>1 DEF AcceptanceRecord
<1>3. /\ \/ acceptance' = [acceptance EXCEPT ![call[p].d] = r]
         \/ UNCHANGED acceptance
      /\ UNCHANGED <<project, queue, record, issued, handed, lapsed, intent>>
      /\ Return(p)
  BY DEF AcceptFinalize, WriteAcceptance, Answer
<1> HIDE DEF r
<1>4. AcceptedAt(r)
  BY <1>1, <1>2 DEF AcceptedAt
<1>5. StoresOK' /\ Grow
  BY <1>2, <1>3, <1>4, Typed, AcceptanceWritten
<1>6. StoresTyped'
  BY <1>5 DEF StoresOK
<1> QED
  BY <1>3, <1>5, <1>6, Typed, ReturnStep DEF Step

-----------------------------------------------------------------------------
(* The steps together.                                                     *)

LEMMA OperationKeeps ==
  ASSUME DecisionInv, OperationStep
  PROVE  StoresOK' /\ Grow /\ StoresTyped'
<1>1. CASE OperationTakes
  <2>1. [state |-> "running", reference |-> "none"] \in QueueEntry
    BY DEF QueueEntry
  <2>2. StoresOK' /\ Grow
    BY <1>1, <2>1, Typed, QueueWritten DEF OperationTakes
  <2> QED
    BY <2>2 DEF StoresOK
<1>2. CASE OperationSettles
  <2>1. PICK o \in Objective, s \in {"integration_pending", "blocked"} :
          project' = Append(project, [Now EXCEPT !.objective[o] = s])
    BY <1>2 DEF OperationSettles
  <2>2. Now \in ProjectState
    BY Typed, BoundsAreNat DEF Now, StoresTyped, Latest
  <2>3. [Now EXCEPT !.objective[o] = s] \in ProjectState
    BY <2>2, StateTyped DEF ObjectiveState, ProjectState
  <2>4. StoresOK' /\ Grow
    BY <1>2, <2>1, <2>3, Typed, ProjectWritten DEF OperationSettles
  <2> QED
    BY <2>4 DEF StoresOK
<1>3. CASE OperationEnds
  <2>1. PICK verdict \in {"replan_required", "integration_pending"} :
          queue' = Append(queue, [state |-> verdict, reference |-> "none"])
    BY <1>3 DEF OperationEnds
  <2>2. [state |-> verdict, reference |-> "none"] \in QueueEntry
    BY DEF QueueEntry
  <2>3. StoresOK' /\ Grow
    BY <1>3, <2>1, <2>2, Typed, QueueWritten DEF OperationEnds
  <2> QED
    BY <2>3 DEF StoresOK
<1> QED
  BY <1>1, <1>2, <1>3 DEF OperationStep

\* The calls stay in order when the stores only grow.
LEMMA CallsKept ==
  ASSUME DecisionInv, StoresTyped', Grow, UNCHANGED call
  PROVE  CallsOK'
BY Typed, CallKept DEF CallsOK

LEMMA StepKeeps ==
  ASSUME DecisionInv, NEW p \in Process, Step(p)
  PROVE  StoresOK' /\ CallsOK'
<1>1. StoresOK' /\ Grow /\ StoresTyped'
  BY DEF Step, StoresOK
<1>2. ASSUME NEW q \in Process PROVE CallOK(q)'
  <2>1. CASE q = p
    BY <2>1 DEF Step, CallStep
  <2>2. CASE q # p
    BY <1>1, <2>2, Typed, CallKept DEF Step, CallStep, CallsOK
  <2> QED
    BY <2>1, <2>2
<1> QED
  BY <1>1, <1>2 DEF Step, CallStep, CallsOK

LEMMA HandOverKeeps ==
  ASSUME DecisionInv, NEW p \in Process, HandOver(p)
  PROVE  Step(p)
<1>1. CASE ReplanRead(p)
  BY <1>1, ReadStateStep DEF ReplanRead
<1>2. CASE IntegrateRead(p)
  BY <1>2, ReadStateStep DEF IntegrateRead
<1> QED
  BY <1>1, <1>2, ReplanCheckKeeps, ReplanKeeps, ReplanRefusedKeeps, EndsWithQueue,
     IntegrateCheckKeeps, ConflictKeeps, RequestDecisionKeeps, IssueKeeps DEF HandOver

LEMMA ReplaceKeeps ==
  ASSUME DecisionInv, NEW p \in Process, Replace(p)
  PROVE  Step(p)
BY RecordReadKeeps, ReplaceInvalidateKeeps, ReplaceReissueKeeps, ProveKeeps, SetAsideKeeps
DEF Replace

LEMMA SubmitKeeps ==
  ASSUME DecisionInv, NEW p \in Process, Submit(p)
  PROVE  Step(p)
BY RecordReadKeeps, SetAsideKeeps, ObserveKeeps, CheckKeeps, PrepareKeeps, WriteKeeps,
   WriteRefusedKeeps, ReadbackKeeps, FinalizeKeeps, MoveKeeps DEF Submit

LEMMA RecoveryKeeps ==
  ASSUME DecisionInv, NEW p \in Process, Recovery(p)
  PROVE  Step(p)
BY RecordReadKeeps, SetAsideKeeps, RecoverKeeps, FinalizeKeeps, RecoverQueueKeeps,
   MoveKeeps, IntentKeeps DEF Recovery

LEMMA AcceptancesKeep ==
  ASSUME DecisionInv, NEW p \in Process, Acceptances(p)
  PROVE  Step(p)
BY AcceptReadKeeps, AcceptObserveKeeps, AcceptCreateKeeps, AcceptApplyKeeps,
   AcceptFinalizeKeeps DEF Acceptances

\* A step has at most one fault.
LEMMA FaultsCounted ==
  ASSUME DecisionNext
  PROVE  Fault \/ UNCHANGED faults
<1>1. ASSUME OperationStep \/ \E capability \in 1..MaxIssues : Lapse(capability)
      PROVE  UNCHANGED faults
  BY <1>1 DEF OperationStep, OperationTakes, OperationSettles, OperationEnds, Lapse
<1>2. ASSUME NEW p \in Process, HandOver(p)
      PROVE  Fault \/ UNCHANGED faults
  BY <1>2 DEF HandOver, ReplanRead, IntegrateRead, ReadState, ReplanCheck, IntegrateCheck,
     ReadQueue, Replan, WriteState, ReplanRefused, ReplanQueue, Integrate, Conflict,
     UpdateQueue, RequestDecision, Issue, Answer, NoFault
<1>3. ASSUME NEW p \in Process, Replace(p)
      PROVE  Fault \/ UNCHANGED faults
  BY <1>3 DEF Replace, ReplaceRead, InvalidateRead, ReadRecord, ReplaceInvalidate,
     ReplaceReissue, Prove, InvalidateStale, CompareAndSet, Answer, NoFault
<1>4. ASSUME NEW p \in Process, Submit(p)
      PROVE  Fault \/ UNCHANGED faults
  BY <1>4 DEF Submit, SubmitRead, ReadRecord, Expire, Observe, Check, ReadQueue, Prepare,
     Write, WriteState, WriteRefused, Readback, Finalize, CompareAndSet, Move, MoveQueue,
     UpdateQueue, Answer, NoFault
<1>5. ASSUME NEW p \in Process, Recovery(p)
      PROVE  Fault \/ UNCHANGED faults
  BY <1>5 DEF Recovery, RecoverRead, ReadRecord, Recover, RecoverFinalize,
     RecoverInvalidate, CompareAndSet, RecoverQueue, ReadQueue, RecoverMove, MoveQueue,
     UpdateQueue, Settle, PersistIntent, Answer, NoFault
<1>6. ASSUME NEW p \in Process, Acceptances(p)
      PROVE  Fault \/ UNCHANGED faults
  BY <1>6 DEF Acceptances, AcceptRead, AcceptObserve, AcceptCreate, AcceptApply,
     AcceptFinalize, WriteState, WriteAcceptance, Answer, NoFault
<1>7. ASSUME NEW p \in Process, Crash(p)
      PROVE  Fault \/ UNCHANGED faults
  BY <1>7 DEF Crash
<1> QED
  BY <1>1, <1>2, <1>3, <1>4, <1>5, <1>6, <1>7 DEF DecisionNext

LEMMA NextKeeps ==
  ASSUME DecisionInv, DecisionNext
  PROVE  DecisionInv'
<1>1. faults' \in 0..MaxFaults
  BY FaultsCounted, BoundsAreNat DEF DecisionInv, Fault
<1>2. CASE OperationStep
  <2>1. StoresOK' /\ Grow /\ StoresTyped' /\ UNCHANGED call
    BY <1>2, OperationKeeps DEF OperationStep, OperationTakes, OperationSettles, OperationEnds
  <2> QED
    BY <1>1, <2>1, CallsKept DEF DecisionInv
<1>3. ASSUME NEW capability, Lapse(capability)
      PROVE  DecisionInv'
  <2>1. StoresOK' /\ Grow /\ StoresTyped' /\ UNCHANGED call
    BY <1>3, LapseKeeps DEF Lapse
  <2> QED
    BY <1>1, <2>1, CallsKept DEF DecisionInv
<1>4. ASSUME NEW p \in Process,
             \/ HandOver(p) \/ Replace(p) \/ Submit(p) \/ Recovery(p) \/ Acceptances(p)
             \/ Crash(p)
      PROVE  DecisionInv'
  <2>1. Step(p)
    BY <1>4, HandOverKeeps, ReplaceKeeps, SubmitKeeps, RecoveryKeeps, AcceptancesKeep,
       CrashKeeps
  <2> QED
    BY <1>1, <2>1, StepKeeps DEF DecisionInv
<1> QED
  BY <1>2, <1>3, <1>4 DEF DecisionNext

LEMMA InitHolds ==
  ASSUME DecisionInit
  PROVE  DecisionInv
<1> DEFINE first == [milestone |-> "executing",
                     objective |-> [o \in Objective |-> "executing"],
                     application |-> NoApplication]
           entry == [state |-> "queued", reference |-> "none"]
<1>1. first \in ProjectState /\ entry \in QueueEntry
  BY DEF ProjectState, QueueEntry, MilestoneState, ObjectiveState
<1>2. project = <<first>> /\ queue = <<entry>>
  BY DEF DecisionInit
<1> HIDE DEF first, entry
<1>3. /\ project \in Seq(ProjectState) /\ Latest = 1
      /\ queue \in Seq(QueueEntry) /\ QueueLatest = 1
  BY <1>1, <1>2 DEF Latest, QueueLatest
<1>4. 1 \in 1..MaxGeneration /\ 0 \in 0..MaxIssues /\ 0 \in 0..MaxFaults
  BY BoundsAreNat
<1>5. StoresTyped
  BY <1>3, <1>4, IdleRecord DEF DecisionInit, StoresTyped
<1>6. StoresHold
  BY DEF DecisionInit, StoresHold, NoRecord, NoAcceptance
<1>7. CallsOK
  <2>1. call \in [Process -> CallRecord] /\ \A p \in Process : call[p] = Idle
    BY IdleRecord DEF DecisionInit
  <2>2. ASSUME NEW p \in Process PROVE CallOK(p)
    BY <1>3, <2>1 DEF CallOK, Idle, HasRead, Deciding, Pending, Prepared, Finalizeds,
                      Submitting, Finalizing
  <2> QED
    BY <2>1, <2>2 DEF CallsOK
<1> QED
  BY <1>4, <1>5, <1>6, <1>7 DEF DecisionInv, StoresOK, DecisionInit

\* What is decided is carried out by calls that only hold copies, and yet the
\* records of the stores and the copies of the calls never contradict the
\* project: a finalized record has been applied, a copy that is about to be
\* written as finalized too.  The invariant on which the theorems below rest.
THEOREM DecisionHolds == DecisionSpec => []DecisionInv
<1>1. DecisionInv /\ UNCHANGED decisionVars => DecisionInv'
  <2> SUFFICES ASSUME DecisionInv, UNCHANGED decisionVars PROVE DecisionInv'
    OBVIOUS
  <2>1. StoresOK' /\ Grow /\ StoresTyped'
    BY Typed, NothingWritten DEF decisionVars, StoresOK
  <2>2. CallsOK'
    BY <2>1, CallsKept DEF decisionVars
  <2> QED
    BY <2>1, <2>2 DEF DecisionInv, decisionVars
<1> QED
  BY <1>1, InitHolds, NextKeeps, PTL DEF DecisionSpec

-----------------------------------------------------------------------------
(* The properties.                                                         *)

\* Every store and every call is of its type: in particular no call has read a
\* generation of the project or of the queue that was not written.
THEOREM DecisionTypeCorrect == DecisionSpec => []DecisionTypeOK
<1>1. DecisionInv => DecisionTypeOK
  <2> SUFFICES ASSUME DecisionInv PROVE DecisionTypeOK
    OBVIOUS
  <2>1. StoresTyped /\ CallsOK
    BY Typed
  <2>2. ASSUME NEW p \in Process
        PROVE  /\ DOMAIN call[p] = DOMAIN Idle
               /\ call[p].pc \in PC
               /\ call[p].d \in Decision \cup Acceptance \cup {"none"}
               /\ call[p].copy \in DecisionRecord /\ call[p].about \in AcceptanceRecord
    BY <2>1 DEF CallsOK, CallRecord, Idle
  <2>3. ASSUME NEW p \in Process
        PROVE  call[p].state \in 0..Latest /\ call[p].queue \in 0..QueueLatest
    BY <2>1, BoundsAreNat DEF CallsOK, CallOK, CallRecord, StoresTyped
  <2> QED
    BY <2>1, <2>2, <2>3 DEF DecisionTypeOK, StoresTyped, DecisionInv, CallsOK
<1> QED
  BY <1>1, DecisionHolds, PTL

\* A decision that is finalized, by the call that submitted it or by one that
\* recovered it, is one the project has applied, whatever the others wrote
\* between the copies they took.
THEOREM FinalizedIsApplied == DecisionSpec => []FinalizedMeansApplied
<1>1. DecisionInv => FinalizedMeansApplied
  BY DEF DecisionInv, StoresOK, StoresHold, FinalizedMeansApplied, AppliedAt, Applied
<1> QED
  BY <1>1, DecisionHolds, PTL

\* A finalized acceptance names a generation in which its target is as the person
\* decided, also when another call has written that generation.
THEOREM AcceptanceIsHeld == DecisionSpec => []AcceptanceHolds
<1>1. DecisionInv => AcceptanceHolds
  <2> SUFFICES ASSUME DecisionInv, NEW a \in Acceptance,
                      acceptance[a].disposition = "finalized"
               PROVE  /\ acceptance[a].new <= Latest
                      /\ StateOf(project[acceptance[a].new], acceptance[a].target)
                           = Decided(acceptance[a].target, acceptance[a].decision)
    BY DEF AcceptanceHolds
  <2>1. AcceptedAt(acceptance[a])
    BY DEF DecisionInv, StoresOK, StoresHold
  <2>2. Latest \in Nat
    BY Typed, BoundsAreNat DEF StoresTyped
  <2> QED
    BY <2>1, <2>2 DEF AcceptedAt
<1> QED
  BY <1>1, DecisionHolds, PTL

\* The value a step writes over a record, and over what.
LEMMA SetWrites ==
  ASSUME DecisionInv, NEW p \in Process, NEW r, NEW x,
         call[p].pc \in Deciding, r.disposition = x, x # "prepared",
         \/ record' = [record EXCEPT ![call[p].d] = r]
         \/ UNCHANGED record,
         NEW d \in Decision, record[d].disposition = "pending"
  PROVE  record'[d].disposition # "prepared"
BY Typed, DecidingFacts DEF StoresTyped

LEMMA OnlyPrepares ==
  ASSUME DecisionInv, DecisionNext, NEW d \in Decision,
         record[d].disposition = "pending", record'[d].disposition = "prepared"
  PROVE  \E p \in Process : Prepare(p)
<1>1. record' # record
  OBVIOUS
<1>2. ASSUME OperationStep \/ \E capability \in 1..MaxIssues : Lapse(capability)
      PROVE  FALSE
  BY <1>1, <1>2 DEF OperationStep, OperationTakes, OperationSettles, OperationEnds, Lapse
<1>3. ASSUME NEW p \in Process, HandOver(p)
      PROVE  FALSE
  <2>1. CASE Issue(p)
    <3> DEFINE r == [NoRecord EXCEPT !.disposition = "pending",
                                     !.expected = call[p].state, !.capability = issued + 1]
    <3>1. record' = [record EXCEPT ![call[p].d] = r] \/ UNCHANGED record
      BY <2>1 DEF Issue, Answer
    <3>2. r.disposition = "pending" /\ call[p].pc \in Deciding
      BY <2>1 DEF NoRecord, Issue, At, Deciding
    <3> QED
      BY <3>1, <3>2, SetWrites
  <2>2. CASE ~Issue(p)
    <3>1. UNCHANGED record
      BY <1>3, <2>2 DEF HandOver, ReplanRead, IntegrateRead, ReadState, ReplanCheck,
         IntegrateCheck, ReadQueue, Replan, WriteState, ReplanRefused, ReplanQueue, Integrate,
         Conflict, UpdateQueue, RequestDecision, stores
    <3> QED
      BY <1>1, <3>1
  <2> QED
    BY <2>1, <2>2
<1>4. ASSUME NEW p \in Process, Replace(p)
      PROVE  FALSE
  <2> DEFINE c == call[p].copy
  <2>1. CASE \E request \in Request : ReplaceInvalidate(p, request)
    <3>1. PICK request \in Request : ReplaceInvalidate(p, request)
      BY <2>1
    <3> DEFINE r == [c EXCEPT !.disposition = "invalidated", !.request = request]
    <3>2. call[p].pc \in Deciding
      BY <3>1 DEF ReplaceInvalidate, At, Deciding, Pending
    <3>3. r.disposition = "invalidated"
      BY <3>2, DecidingFacts DEF DecisionRecord
    <3>4. record' = [record EXCEPT ![call[p].d] = r] \/ UNCHANGED record
      BY <3>1 DEF ReplaceInvalidate, CompareAndSet, Answer
    <3> QED
      BY <3>2, <3>3, <3>4, SetWrites
  <2>2. CASE ReplaceReissue(p)
    <3> DEFINE r == [c EXCEPT !.disposition = "pending", !.capability = issued + 1]
    <3>2. call[p].pc \in Deciding
      BY <2>2 DEF ReplaceReissue, At, Deciding
    <3>3. r.disposition = "pending"
      BY <3>2, DecidingFacts DEF DecisionRecord
    <3>4. record' = [record EXCEPT ![call[p].d] = r] \/ UNCHANGED record
      BY <2>2 DEF ReplaceReissue, CompareAndSet, Answer
    <3> QED
      BY <3>2, <3>3, <3>4, SetWrites
  <2>3. CASE InvalidateStale(p)
    <3> DEFINE r == [c EXCEPT !.disposition = "invalidated"]
    <3>2. call[p].pc \in Deciding
      BY <2>3 DEF InvalidateStale, At, Deciding, Pending
    <3>3. r.disposition = "invalidated"
      BY <3>2, DecidingFacts DEF DecisionRecord
    <3>4. record' = [record EXCEPT ![call[p].d] = r] \/ UNCHANGED record
      BY <2>3 DEF InvalidateStale, CompareAndSet, Answer
    <3> QED
      BY <3>2, <3>3, <3>4, SetWrites
  <2>4. CASE UNCHANGED record
    BY <1>1, <2>4
  <2> QED
    BY <1>4, <2>1, <2>2, <2>3, <2>4 DEF Replace, ReplaceRead, InvalidateRead, ReadRecord,
       Prove, stores
<1>5. ASSUME NEW p \in Process, Expire(p) \/ RecoverInvalidate(p) \/ Finalize(p)
                                \/ RecoverFinalize(p)
      PROVE  FALSE
  <2>1. PICK x \in {"expired", "invalidated", "finalized"} :
          \/ record' = [record EXCEPT ![call[p].d] = [call[p].copy EXCEPT !.disposition = x]]
          \/ UNCHANGED record
    BY <1>5 DEF Expire, RecoverInvalidate, Finalize, RecoverFinalize, Finalized,
                CompareAndSet, Answer
  <2>2. call[p].pc \in Deciding
    BY <1>5 DEF Expire, RecoverInvalidate, Finalize, RecoverFinalize, At, Deciding, Pending,
                Prepared
  <2>3. [call[p].copy EXCEPT !.disposition = x].disposition = x
    BY <2>2, DecidingFacts DEF DecisionRecord
  <2> QED
    BY <2>1, <2>2, <2>3, SetWrites
<1>6. ASSUME NEW p \in Process, Submit(p), ~Prepare(p)
      PROVE  FALSE
  BY <1>1, <1>5, <1>6 DEF Submit, SubmitRead, ReadRecord, Observe, Check, ReadQueue, Write,
     WriteState, WriteRefused, Readback, Move, MoveQueue, UpdateQueue, stores
<1>7. ASSUME NEW p \in Process, Recovery(p)
      PROVE  FALSE
  BY <1>1, <1>5, <1>7 DEF Recovery, RecoverRead, ReadRecord, Recover, RecoverQueue, ReadQueue,
     RecoverMove, MoveQueue, UpdateQueue, Settle, PersistIntent, stores
<1>8. ASSUME NEW p \in Process, Acceptances(p) \/ Crash(p)
      PROVE  FALSE
  BY <1>1, <1>8 DEF Acceptances, AcceptRead, AcceptObserve, AcceptCreate, AcceptApply,
     AcceptFinalize, WriteState, WriteAcceptance, Crash, stores
<1> QED
  BY <1>2, <1>3, <1>4, <1>6, <1>7, <1>8 DEF DecisionNext

\* A submission that has checked a capability decides nothing once the record has
\* been reissued: what it compares with is the whole copy, the capability in it.
THEOREM CurrentCapabilityDecides == DecisionSpec => OnlyCurrentCapability
<1>1. ASSUME DecisionInv, DecisionNext, NEW d \in Decision,
             record[d].disposition = "pending", record'[d].disposition = "prepared"
      PROVE  record'[d].capability = record[d].capability /\ record[d].capability \in handed
  <2>1. PICK p \in Process : Prepare(p)
    BY <1>1, OnlyPrepares
  <2>2. PICK option \in Option :
          /\ \/ /\ record[call[p].d] = call[p].copy
                /\ record' = [record EXCEPT ![call[p].d] =
                     [call[p].copy EXCEPT !.disposition = "prepared", !.option = option]]
             \/ UNCHANGED record
          /\ call[p].pc = "prepare"
    BY <2>1 DEF Prepare, At, CompareAndSet, Answer
  <2>3. call[p].d \in Decision /\ call[p].copy \in DecisionRecord
        /\ call[p].copy.capability \in handed
    BY <1>1, <2>2, DecidingFacts, CopyFacts DEF Deciding, Pending, Submitting
  <2>4. record \in [Decision -> DecisionRecord]
    BY <1>1, Typed DEF StoresTyped
  <2>5. d = call[p].d /\ record[d] = call[p].copy
        /\ record'[d] = [call[p].copy EXCEPT !.disposition = "prepared", !.option = option]
    BY <1>1, <2>2, <2>3, <2>4
  <2>6. record'[d].capability = call[p].copy.capability
    BY <2>3, <2>5 DEF DecisionRecord
  <2> QED
    BY <2>3, <2>5, <2>6
<1>2. DecisionInv /\ [DecisionNext]_decisionVars
        => [\A d \in Decision :
              record[d].disposition = "pending" /\ record'[d].disposition = "prepared" =>
                record'[d].capability = record[d].capability
                /\ record[d].capability \in handed]_decisionVars
  BY <1>1
<1> QED
  BY <1>2, DecisionHolds, PTL DEF DecisionSpec, OnlyCurrentCapability

LEMMA OnlyMoves ==
  ASSUME DecisionNext, Entry.state = "human_decision_required", queue' # queue
  PROVE  \E p \in Process : Move(p) \/ RecoverMove(p)
<1>1. ASSUME OperationStep \/ \E capability \in 1..MaxIssues : Lapse(capability)
      PROVE  FALSE
  BY <1>1 DEF OperationStep, OperationTakes, OperationSettles, OperationEnds, Lapse
<1>2. ASSUME NEW p, NEW st \in {"queued", "human_decision_required", "completed"}, NEW d,
             st \in QueueTransitions[Entry.state]
      PROVE  FALSE
  BY <1>2 DEF QueueTransitions
<1>3. ASSUME NEW p \in Process, HandOver(p)
      PROVE  FALSE
  BY <1>2, <1>3 DEF HandOver, ReplanRead, IntegrateRead, ReadState, ReplanCheck,
     IntegrateCheck, ReadQueue, Replan, WriteState, ReplanRefused, ReplanQueue, Integrate,
     Conflict, UpdateQueue, RequestDecision, Issue, Answer, stores
<1>4. ASSUME NEW p \in Process, Replace(p) \/ Acceptances(p) \/ Crash(p)
      PROVE  FALSE
  BY <1>4 DEF Replace, ReplaceRead, InvalidateRead, ReadRecord, ReplaceInvalidate,
     ReplaceReissue, Prove, InvalidateStale, CompareAndSet, Acceptances, AcceptRead,
     AcceptObserve, AcceptCreate, AcceptApply, AcceptFinalize, WriteState, WriteAcceptance,
     Crash, stores
<1>5. ASSUME NEW p \in Process, Submit(p), ~Move(p)
      PROVE  FALSE
  BY <1>5 DEF Submit, SubmitRead, ReadRecord, Expire, Observe, Check, ReadQueue, Prepare,
     Write, WriteState, WriteRefused, Readback, Finalize, CompareAndSet, stores
<1>6. ASSUME NEW p \in Process, Recovery(p), ~RecoverMove(p)
      PROVE  FALSE
  BY <1>6 DEF Recovery, RecoverRead, ReadRecord, Recover, RecoverFinalize,
     RecoverInvalidate, CompareAndSet, RecoverQueue, ReadQueue, Settle, PersistIntent, stores
<1> QED
  BY <1>1, <1>3, <1>4, <1>5, <1>6 DEF DecisionNext

\* The entry of the queue leaves the hands of the person only for a decision that
\* is finalized and that the project has applied.
THEOREM QueueFollows == DecisionSpec => QueueFollowsDecision
<1>1. ASSUME DecisionInv, DecisionNext, Entry.state = "human_decision_required",
             queue' # queue
      PROVE  /\ Entry'.reference \in Decision
             /\ record[Entry'.reference].disposition = "finalized"
             /\ \E g \in 1..Latest :
                  Applied(project[g], g, Entry'.reference, record[Entry'.reference])
  <2>1. PICK p \in Process : Move(p) \/ RecoverMove(p)
    BY <1>1, OnlyMoves
  <2>2. PICK st \in {"replan_required", "cancelled"} :
          queue' = Append(queue, [state |-> st, reference |-> call[p].d])
    BY <1>1, <2>1 DEF Move, RecoverMove, MoveQueue, UpdateQueue, Answer
  <2>3. /\ UNCHANGED <<project, record, issued, handed, lapsed, intent, acceptance>>
        /\ call[p].pc \in Finalizeds
    BY <2>1 DEF Move, RecoverMove, MoveQueue, UpdateQueue, At, Finalizeds
  <2>4. /\ call[p].d \in Decision /\ record[call[p].d] = call[p].copy
        /\ call[p].copy.disposition = "finalized" /\ call[p].copy \in DecisionRecord
    BY <1>1, <2>3, DecidingFacts, CopyFacts DEF Deciding
  <2>5. [state |-> st, reference |-> call[p].d] \in QueueEntry
    BY <2>4 DEF QueueEntry
  <2>6. Entry' = [state |-> st, reference |-> call[p].d]
    BY <1>1, <2>2, <2>3, <2>5, Typed, QueueWritten
  <2>7. Entry'.reference = call[p].d
    BY <2>6
  <2>8. AppliedAt(call[p].d, record[call[p].d])
    BY <1>1, <2>4, Typed DEF StoresOK, StoresHold
  <2> DEFINE g == record[call[p].d].expected + 1
  <2>9. g \in 1..Latest
    BY <1>1, <2>4, <2>8, Typed, BoundsAreNat DEF AppliedAt, DecisionRecord, StoresTyped
  <2>10. Applied(project[g], g, call[p].d, record[call[p].d])
    BY <2>8 DEF AppliedAt, Applied
  <2> QED
    BY <2>4, <2>7, <2>9, <2>10
<1>2. DecisionInv /\ [DecisionNext]_decisionVars
        => [Entry.state = "human_decision_required" /\ queue' # queue =>
              LET d == Entry'.reference IN
              /\ d \in Decision
              /\ record[d].disposition = "finalized"
              /\ \E g \in 1..Latest : Applied(project[g], g, d, record[d])]_decisionVars
  BY <1>1
<1> QED
  BY <1>2, DecisionHolds, PTL DEF DecisionSpec, QueueFollowsDecision
=============================================================================

------------------------- MODULE MCProjectDecision -------------------------
(* An instance of ProjectDecision for model checking.  Either two acceptances *)
(* race and fail, or a decision does; a decision races at most one acceptance, *)
(* and then without faults.  Requests about what cannot be decided differ by   *)
(* their decision only while one acceptance is all there is.                   *)
EXTENDS ProjectDecision, TLC

Symmetry == Permutations(Process) \cup Permutations(Acceptance)

Deciding == \/ \E d \in Decision : record[d] # NoRecord
            \/ \E p \in Process : call[p].d \in Decision
Accepting == {a \in Acceptance : acceptance[a] # NoAcceptance \/ \E p \in Process : call[p].d = a}

\* A record or a call of a request about what could not be decided.
Undecidable(r) == r.disposition # "absent" /\ ~Acceptable(project[r.expected], r.target)
Requests == {acceptance[a] : a \in Acceptance}
              \cup {call[p].about : p \in {r \in Process : call[r].d \in Acceptance}}

Bound ==
  /\ Deciding /\ Accepting # {} => faults = 0 /\ Cardinality(Accepting) = 1
  /\ \/ Cardinality(Accepting) = 1 /\ ~Deciding
     \/ \A r \in Requests : Undecidable(r) => r.decision = "accept"

=============================================================================

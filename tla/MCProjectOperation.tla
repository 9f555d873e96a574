-------------------------- MODULE MCProjectOperation --------------------------
(***************************************************************************)
(* Small operations.  A plan of two or three tasks of which two may run at *)
(* once, and a spare task that may replace the first one and shares a file *)
(* with it.                                                                *)
(***************************************************************************)
EXTENDS ProjectOperation, TLC

CONSTANTS a, b, c, d, o1

OneObjective == {o1}
Three == {a, b, c}
Four == {a, b, c, d}
OfOneObjective == [t \in Task |-> o1]
Independent == [t \in Task |-> {}]
SharedByAC == {<<a, c>>, <<c, a>>}
SharedByAD == {<<a, d>>, <<d, a>>}
PlanOfTwo == <<a, b>>
PlanOfThree == <<a, b, c>>
==============================================================================

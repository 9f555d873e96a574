------------------------ MODULE MCProjectRuntimeState ------------------------
(***************************************************************************)
(* Small plans for the project state.  In the chained plan c waits for a,  *)
(* a and b share a path, and so do b and r, the spare task that a partial  *)
(* replan may bring in.  Two callers, one of whom may hold a copy that is  *)
(* no longer the stored one, are alike.                                    *)
(***************************************************************************)
EXTENDS ProjectRuntimeContract, TLC

CONSTANTS a, b, c, r, o1, o2, operation, decision

ChainObjective == {o1, o2}
ChainTask == {a, b, c, r}
ChainObjectiveOf == (a :> o1 @@ b :> o2 @@ c :> o1 @@ r :> o1)
ChainDependencies == (a :> {} @@ b :> {} @@ c :> {a} @@ r :> {})
ChainConflict == {<<a, b>>, <<b, a>>, <<b, r>>, <<r, b>>}
ChainPlan == <<a, b, c>>
AlikeCallers == Permutations({operation, decision})
==============================================================================

------------------------ MODULE MCProjectIntegration ------------------------
(***************************************************************************)
(* Two projects of one repository.  The candidate of alpha changes main    *)
(* and adds extra, that of beta deletes old; in the shared instance beta   *)
(* changes main as well.                                                   *)
(***************************************************************************)
EXTENDS ProjectIntegration, TLC

CONSTANTS alpha, beta, main, old, extra

Changes(file) == [path |-> file, operation |-> "upsert"]
Deletes(file) == [path |-> file, operation |-> "delete"]

ApartBundle == (alpha :> <<Changes(main), Changes(extra)>> @@ beta :> <<Deletes(old)>>)
SharedBundle ==
  (alpha :> <<Changes(main), Changes(extra)>> @@ beta :> <<Changes(main), Deletes(old)>>)

Symmetry == Permutations(Process)
=============================================================================

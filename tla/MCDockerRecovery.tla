------------------------- MODULE MCDockerRecovery -------------------------
(* Two tasks that take turns on one home. *)
EXTENDS DockerRecovery
CONSTANT home
MCHomeOf == [t \in Task |-> home]
=============================================================================

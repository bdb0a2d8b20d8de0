------------------------- MODULE MCSandboxLifecycle -------------------------
(* Instances of SandboxLifecycle for TLC.                                   *)
EXTENDS SandboxLifecycle, TLC

AllHazards == HazardKinds
ListErrors == {"exec_error"}
Requests == Permutations(Restore)
=============================================================================

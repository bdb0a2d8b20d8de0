------------------------- MODULE MCInteractiveTurns -------------------------
(* Instances of InteractiveTurns for TLC.                                   *)
EXTENDS InteractiveTurns

AllHazards == HazardKinds
=============================================================================

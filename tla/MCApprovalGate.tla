--------------------------- MODULE MCApprovalGate ---------------------------
(* Instances of ApprovalGate for TLC.                                       *)
EXTENDS ApprovalGate, TLC

CONSTANTS r1, r2, read, send

\* What the one reads, the other reads and sends.
TwoNeeds == r1 :> {read} @@ r2 :> {read, send}

AllHazards == HazardKinds
=============================================================================

------------------------- MODULE MCDocumentIndexing -------------------------
(* Instances of DocumentIndexing for TLC.                                   *)
EXTENDS DocumentIndexing, TLC

NoHazards == {}
AllHazards == HazardKinds

\* Worker threads are interchangeable; used in runs without liveness only.
WorkerSymmetry == Permutations(Worker)
=============================================================================

------------------------ MODULE MCConnectorDeletion ------------------------
(* Instances of ConnectorDeletion for TLC.                                  *)
EXTENDS ConnectorDeletion, TLC

CONSTANTS c1, c2, d1, d2

NoHazards == {}
AllHazards == HazardKinds
Overlap == {"overlap"}
\* c1 alone fetches d1; both fetch d2.
OneShared == c1 :> {d1, d2} @@ c2 :> {d2}
BothShared == c1 :> {d1} @@ c2 :> {d1}
OnePair == c1 :> {d1}
=============================================================================

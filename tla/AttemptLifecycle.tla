-------------------------- MODULE AttemptLifecycle --------------------------
(***************************************************************************)
(* What the scheduler of a connector promises about its index attempts,    *)
(* with nothing of how documents are fetched and indexed: attempts are     *)
(* numbered in the order of their creation, one is created only when none  *)
(* is waiting or running, and one that ended stays ended.                  *)
(* DocumentIndexing implements this under every hazard of its environment. *)
(***************************************************************************)
EXTENDS Integers

CONSTANT MaxAttempts    \* bound: index attempts created for the cc pair

VARIABLE phase          \* how far each attempt has got

Attempts == 1..MaxAttempts
Phases == {"absent", "waiting", "running", "ended"}

TypeOK == phase \in [Attempts -> Phases]

Init == phase = [a \in Attempts |-> "absent"]

Create(a) ==
    /\ phase[a] = "absent"
    /\ \A b \in Attempts : b < a => phase[b] = "ended"
    /\ \A b \in Attempts : b > a => phase[b] = "absent"
    /\ phase' = [phase EXCEPT ![a] = "waiting"]

Start(a) ==
    /\ phase[a] = "waiting"
    /\ phase' = [phase EXCEPT ![a] = "running"]

\* An attempt may be given up before it has started.
End(a) ==
    /\ phase[a] \in {"waiting", "running"}
    /\ phase' = [phase EXCEPT ![a] = "ended"]

Next == \E a \in Attempts : Create(a) \/ Start(a) \/ End(a)

Spec == Init /\ [][Next]_phase
=============================================================================

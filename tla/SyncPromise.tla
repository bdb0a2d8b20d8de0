---------------------------- MODULE SyncPromise ----------------------------
(***************************************************************************)
(* What a connector promises to those who search its documents, with       *)
(* nothing of attempts that share files, checkpoints and counters: the     *)
(* time up to which the source is reported as synchronised only grows, it  *)
(* grows by the verdict of the one attempt that runs, and that verdict is  *)
(* given only when every page of the source up to that time was indexed.   *)
(* DocumentIndexing implements this when its environment shows no hazard.  *)
(***************************************************************************)
EXTENDS Integers

CONSTANTS
    MaxTicks,       \* bound: distinct poll window ends
    PerTick         \* bound: pages the source gains between two windows

VARIABLES
    running,        \* an attempt waits or runs
    upTo,           \* the end of the last window that was a success
    indexed         \* pages that went through the pipeline

vars == <<running, upTo, indexed>>

Ticks == 0..MaxTicks
Pages == 1..MaxTicks * PerTick
Upto(tick) == 1..tick * PerTick

Init == ~running /\ upTo = 0 /\ indexed = {}

Begin == ~running /\ running' = TRUE /\ UNCHANGED <<upTo, indexed>>

\* Work goes on a little after an attempt was given up.
IndexPage(page) == indexed' = indexed \cup {page} /\ UNCHANGED <<running, upTo>>

GiveUp == running /\ running' = FALSE /\ UNCHANGED <<upTo, indexed>>

\* An attempt that completed with errors does not move the window.
Succeed(tick) ==
    /\ running
    /\ Upto(tick) \subseteq indexed
    /\ running' = FALSE
    /\ upTo' = IF tick > upTo THEN tick ELSE upTo
    /\ UNCHANGED indexed

Next ==
    \/ Begin
    \/ \E page \in Pages : IndexPage(page)
    \/ GiveUp
    \/ \E tick \in Ticks : Succeed(tick)

Spec == Init /\ [][Next]_vars
=============================================================================

----------------------- MODULE SandboxLifecycle_proofs -----------------------
(* Safety properties of SandboxLifecycle, for every number of restores, turns, *)
(* snapshots and faults.                                                      *)
EXTENDS SandboxLifecycle, TLAPS

-----------------------------------------------------------------------------
(* The inductive invariant                                                   *)

\* A transaction that may add a row has its created_at; the sweep's own is open
\* while it lists the session and no longer than it reaps.
InFlight(a) == keep[a].id # 0
KeepsHaveIds ==
    /\ \A a \in Snapper : keep[a].pc # "off" => InFlight(a)
    /\ sweep.pc = "list" => InFlight("sweep")
    /\ keep["sweep"].pc # "off" => sweep.pc = "keep"
    /\ sweep.pc \in {"probe", "reap", "sleep"} => sweep.idle

\* created_at is not used twice, although transactions commit in another order than
\* they begin: of two that are open the younger is younger than all rows, and what one
\* has pruned is older than itself or than a row.
IdsFresh ==
    /\ \A a \in Snapper : keep[a].prior # {} => InFlight(a)
    /\ \A a \in Snapper : \A s \in keep[a].prior : s <= keep[a].id \/ \E t \in rows : s <= t
    /\ \A a, b \in Snapper :
          InFlight(a) /\ InFlight(b) /\ keep[b].id < keep[a].id
              => \A s \in rows \cup keep[a].prior \cup keep[b].prior : s < keep[a].id
    /\ \A a, b \in Snapper : InFlight(a) => keep[a].id \notin rows \cup keep[b].prior
    /\ \A a, b \in Snapper : InFlight(a) /\ keep[a].id = keep[b].id => a = b

\* The archive a transaction will refer to is there.
ArchivesThere ==
    \A a \in Snapper : keep[a].pc \in {"prune", "commit"} => blob[keep[a].id].there

\* A restore that is not through holds the lock.
LockHeld ==
    Shown({"slow_restore", "killed"}) \/ \A r \in Restore : restore[r].pc # "off" => lock = r

\* No sweep has its eye on a sandbox that a restore has just set RUNNING.
ReadyRuns ==
    \/ Shown({"woken_midsweep", "slow_restore", "killed"})
    \/ \A r \in Restore : restore[r].pc = "ready" =>
           row.status = "RUNNING" /\ ~row.idle /\ ~sweep.idle

\* A pod that the row or the sweep does not know of is somebody's, who will set the
\* row RUNNING.
Responsible ==
    \/ \E r \in Restore : restore[r].pc \in {"wake", "provision", "up"}
    \/ \E c \in Turn : turn[c] \in {"provision", "commit"}
PodOwned ==
    /\ pod = "sick" => Shown({"sick"})
    /\ \/ Shown({"woken_midsweep", "sick", "raises", "provision_fails", "killed"})
       \/ pod = "none" \/ Responsible
       \/ row.status = "RUNNING" /\ sweep.pc # "sleep"

IInv ==
    /\ TypeOK /\ KeepsHaveIds
    /\ IdsFresh /\ ArchivesThere /\ RowsHaveBlobs
    /\ LockHeld /\ ProvisioningOwned /\ ReadyRuns /\ AnswersHonestly
    /\ PodOwned

-----------------------------------------------------------------------------
(* What the operators do                                                     *)

FaultState == [count : 0..MaxFaults, hazards : SUBSET HazardKinds]

LEMMA FaultEffect ==
    ASSUME TypeOK, NEW kind, Fault(kind)
    PROVE  faults' \in FaultState /\ faults'.hazards = faults.hazards \cup {kind}
BY SandboxAssumption DEF TypeOK, FaultState, Fault

LEMMA UnlessEffect ==
    ASSUME TypeOK, NEW condition \in BOOLEAN, NEW kind, Unless(condition, kind)
    PROVE  /\ faults' \in FaultState /\ faults.hazards \subseteq faults'.hazards
           /\ condition \/ kind \in faults'.hazards
<1>1. CASE condition
  BY <1>1 DEF Unless, TypeOK, FaultState
<1>2. CASE ~condition
  BY <1>2, FaultEffect DEF Unless
<1> QED
  BY <1>1, <1>2

LEMMA MarkEffect ==
    ASSUME TypeOK, NEW condition \in BOOLEAN, NEW kind \in HazardKinds, Mark(condition, kind)
    PROVE  /\ faults' \in FaultState /\ faults.hazards \subseteq faults'.hazards
           /\ condition => kind \in faults'.hazards
BY DEF Mark, TypeOK, FaultState

LEMMA StatusEffect ==
    ASSUME TypeOK, NEW status \in Status, SetStatus(status)
    PROVE  /\ row' \in [status : Status, idle : BOOLEAN]
           /\ row'.status = status /\ row'.idle = row.idle
<1>1. row \in [status : Status, idle : BOOLEAN]
  BY DEF TypeOK
<1>2. row' = [row EXCEPT !.status = status]
  BY DEF SetStatus
<1>3. row' = [status |-> status, idle |-> row.idle]
  BY <1>1, <1>2
<1> QED
  BY <1>1, <1>3

LEMMA RunningEffect ==
    ASSUME TypeOK, SetRunning
    PROVE  /\ row' \in [status : Status, idle : BOOLEAN]
           /\ row'.status = "RUNNING" /\ ~row'.idle
           /\ faults' \in FaultState /\ faults.hazards \subseteq faults'.hazards
           /\ sweep.idle => "woken_midsweep" \in faults'.hazards
<1>1. faults' \in FaultState /\ faults.hazards \subseteq faults'.hazards
      /\ (sweep.idle => "woken_midsweep" \in faults'.hazards)
  <2>1. Mark(sweep.idle, "woken_midsweep")
    BY DEF SetRunning
  <2>2. sweep.idle \in BOOLEAN /\ "woken_midsweep" \in HazardKinds
    BY DEF TypeOK, HazardKinds
  <2> QED
    BY <2>1, <2>2, MarkEffect
<1>2. row' = [status |-> "RUNNING", idle |-> FALSE]
  BY DEF SetRunning
<1>3. "RUNNING" \in Status
  BY DEF Status
<1> QED
  BY <1>1, <1>2, <1>3

LEMMA NoneType == None \in Files
BY DEF None, Files

LEMMA PodEffect ==
    ASSUME TypeOK, Terminate \/ Provision
    PROVE  /\ pod' \in {"none", "well", "sick"} /\ ws' \in Files
           /\ Terminate => pod' = "none"
           /\ Provision => pod' = "well"
BY NoneType DEF TypeOK, Terminate, Provision

LEMMA RestoreToEffect ==
    ASSUME TypeOK, NEW r \in Restore, NEW pc \in RestorePc, RestoreTo(r, pc)
    PROVE  /\ restore' \in [Restore -> RestoreState]
           /\ restore'[r].pc = pc /\ restore'[r].seen = restore[r].seen
           /\ restore'[r].snapshot = restore[r].snapshot
           /\ \A q \in Restore \ {r} : restore'[q] = restore[q]
BY DEF TypeOK, RestoreState, RestoreTo

LEMMA LoadedEffect ==
    ASSUME TypeOK, NEW r \in Restore, Loaded(r)
    PROVE  /\ restore' \in [Restore -> RestoreState]
           /\ restore'[r].pc = "answer" /\ restore'[r].seen
           /\ \A q \in Restore \ {r} : restore'[q] = restore[q]
BY DEF TypeOK, RestoreState, RestorePc, Loaded

LEMMA RestoreDoneEffect ==
    ASSUME TypeOK, NEW r \in Restore, restore' = [restore EXCEPT ![r] = NoRestore]
    PROVE  /\ restore' \in [Restore -> RestoreState]
           /\ restore'[r].pc = "off"
           /\ \A q \in Restore \ {r} : restore'[q] = restore[q]
<1>1. NoRestore \in RestoreState /\ NoRestore.pc = "off"
  BY DEF NoRestore, RestoreState, RestorePc
<1> QED
  BY <1>1 DEF TypeOK

LEMMA MissEffect ==
    ASSUME TypeOK, NEW r \in Restore, RestoreMisses(r)
    PROVE  /\ restore' \in [Restore -> RestoreState]
           /\ restore'[r].pc = "extract"
           /\ \A q \in Restore \ {r} : restore'[q] = restore[q]
           /\ faults' \in FaultState /\ faults.hazards \subseteq faults'.hazards
<1>1. PICK s \in Id \cup {0} :
        restore' = [restore EXCEPT ![r].pc = "extract", ![r].snapshot = s]
  BY DEF RestoreMisses
<1>2. restore' \in [Restore -> RestoreState] /\ restore'[r].pc = "extract"
      /\ \A q \in Restore \ {r} : restore'[q] = restore[q]
  BY <1>1 DEF TypeOK, RestoreState, RestorePc
<1>3. Missing \in BOOLEAN
  BY DEF Missing, TypeOK, Files
<1>4. Unless(Missing, "exec_error")
  BY DEF RestoreMisses
<1> QED
  BY <1>2, <1>3, <1>4, UnlessEffect

LEMMA EntryType == Entry \in RestorePc
BY DEF Entry, RestorePc

LEMMA TurnToEffect ==
    ASSUME TypeOK, NEW c \in Turn, NEW pc \in TurnPc, TurnTo(c, pc)
    PROVE  /\ turn' \in [Turn -> TurnPc] /\ turn'[c] = pc
           /\ \A d \in Turn \ {c} : turn'[d] = turn[d]
BY DEF TypeOK, TurnTo

LEMMA KeepToEffect ==
    ASSUME TypeOK, NEW a \in Snapper, NEW pc \in KeepPc, KeepTo(a, pc)
    PROVE  /\ keep' \in [Snapper -> KeepState]
           /\ keep'[a].pc = pc /\ keep'[a].id = keep[a].id /\ keep'[a].prior = keep[a].prior
           /\ \A b \in Snapper \ {a} : keep'[b] = keep[b]
BY DEF TypeOK, KeepState, KeepTo

LEMMA KeepDoneEffect ==
    ASSUME TypeOK, NEW a \in Snapper, KeepDone(a)
    PROVE  /\ keep' \in [Snapper -> KeepState]
           /\ keep'[a].pc = "off" /\ keep'[a].id = 0 /\ keep'[a].prior = {}
           /\ \A b \in Snapper \ {a} : keep'[b] = keep[b]
<1>1. NoKeep \in KeepState /\ NoKeep.pc = "off" /\ NoKeep.id = 0 /\ NoKeep.prior = {}
  BY DEF NoKeep, KeepState, KeepPc
<1> QED
  BY <1>1 DEF TypeOK, KeepDone

LEMMA SweepToEffect ==
    ASSUME TypeOK, NEW pc \in SweepPc, SweepTo(pc)
    PROVE  /\ sweep' \in [pc : SweepPc, idle : BOOLEAN]
           /\ sweep'.pc = pc /\ sweep'.idle = sweep.idle
BY DEF TypeOK, SweepTo

LEMMA SweepOffEffect ==
    ASSUME SweepOff
    PROVE  /\ sweep' \in [pc : SweepPc, idle : BOOLEAN]
           /\ sweep'.pc = "off" /\ ~sweep'.idle
BY DEF SweepOff, SweepPc

-----------------------------------------------------------------------------
(* Types                                                                     *)

LEMMA RestoreTypes ==
    ASSUME TypeOK, NEW r \in Restore, RestoreStarts(r) \/ RestoreStep(r) \/ RestoreKilled(r)
    PROVE  TypeOK' /\ faults.hazards \subseteq faults'.hazards
<1>0. /\ \A pc \in {"off", "probe", "terminate", "terminated", "wake", "provision", "up",
                   "ready", "load", "extract", "recover", "answer"} : pc \in RestorePc
      /\ {"TERMINATED", "PROVISIONING", "SLEEPING", "RUNNING"} = Status
      /\ lock' = lock \/ Release(r) => lock' \in Restore \cup {Nobody}
      /\ faults \in FaultState
  BY DEF RestorePc, Status, Release, TypeOK, FaultState
<1> USE DEF Elsewhere, FaultState
<1>1. CASE RestoreStarts(r)
  <2>1. restore' \in [Restore -> RestoreState]
    BY <1>1, EntryType, RestoreToEffect DEF RestoreStarts
  <2> QED
    BY <1>1, <2>1 DEF RestoreStarts, TypeOK
<1>2. CASE RestoreProbes(r)
  <2>1. restore' \in [Restore -> RestoreState]
    BY <1>0, <1>2, RestoreToEffect, LoadedEffect DEF RestoreProbes
  <2>2. (~ws.there) \in BOOLEAN
    BY DEF TypeOK, Files
  <2>3. faults' \in FaultState /\ faults.hazards \subseteq faults'.hazards
    BY <1>0, <1>2, <2>2, UnlessEffect DEF RestoreProbes
  <2> QED
    BY <1>2, <2>1, <2>3 DEF RestoreProbes, TypeOK
<1>3. CASE RestoreTerminates(r) \/ RestoreProvisions(r)
  <2>1. restore' \in [Restore -> RestoreState]
    BY <1>0, <1>3, RestoreToEffect DEF RestoreTerminates, RestoreProvisions
  <2> QED
    BY <1>3, <2>1, PodEffect DEF RestoreTerminates, RestoreProvisions, TypeOK
<1>4. CASE RestoreTerminated(r) \/ RestoreWakes(r)
  <2>1. restore' \in [Restore -> RestoreState]
    BY <1>0, <1>4, RestoreToEffect DEF RestoreTerminated, RestoreWakes
  <2>2. row' \in [status : Status, idle : BOOLEAN]
    BY <1>0, <1>4, StatusEffect DEF RestoreTerminated, RestoreWakes
  <2> QED
    BY <1>4, <2>1, <2>2 DEF RestoreTerminated, RestoreWakes, TypeOK
<1>5. CASE RestoreUp(r)
  <2>1. restore' \in [Restore -> RestoreState]
    BY <1>0, <1>5, RestoreToEffect DEF RestoreUp
  <2> QED
    BY <1>5, <2>1, RunningEffect DEF RestoreUp, TypeOK
<1>6. CASE RestoreSkipsLoad(r) \/ RestoreFinds(r)
  <2>1. restore' \in [Restore -> RestoreState]
    BY <1>0, <1>6, RestoreToEffect, LoadedEffect DEF RestoreSkipsLoad, RestoreFinds
  <2> QED
    BY <1>6, <2>1 DEF RestoreSkipsLoad, RestoreFinds, TypeOK
<1>7. CASE RestoreMisses(r)
  BY <1>7, MissEffect DEF RestoreMisses, TypeOK
<1>8. CASE RestoreExtracts(r)
  <2>1. restore' \in [Restore -> RestoreState] /\ faults' \in FaultState
        /\ faults.hazards \subseteq faults'.hazards /\ active' \in BOOLEAN
    BY <1>0, <1>8, RestoreToEffect, LoadedEffect, FaultEffect DEF RestoreExtracts, TypeOK
  <2>2. ws' \in Files
    BY <1>8 DEF RestoreExtracts, Extracted, TypeOK, RestoreState, Files
  <2> QED
    BY <1>8, <2>1, <2>2 DEF RestoreExtracts, TypeOK
<1>9. CASE RestoreFails(r)
  <2>1. restore' \in [Restore -> RestoreState]
    BY <1>0, <1>9, RestoreToEffect DEF RestoreFails
  <2>2. (pod = "sick") \in BOOLEAN
    OBVIOUS
  <2>3. faults' \in FaultState /\ faults.hazards \subseteq faults'.hazards
    BY <1>0, <1>9, <2>2, UnlessEffect, FaultEffect DEF RestoreFails, NotProvisioned
  <2> QED
    BY <1>9, <2>1, <2>3 DEF RestoreFails, TypeOK
<1>10. CASE RestoreRecovers(r)
  <2>1. restore' \in [Restore -> RestoreState]
    BY <1>10, RestoreDoneEffect DEF RestoreRecovers
  <2>2. row' \in [status : Status, idle : BOOLEAN]
    <3>1. row' = row \/ SetStatus("SLEEPING")
      BY <1>10 DEF RestoreRecovers, Rollback, SetStatus
    <3> QED
      BY <1>0, <3>1, StatusEffect DEF TypeOK
  <2>3. ws' \in Files /\ faults' \in FaultState /\ faults.hazards \subseteq faults'.hazards
    BY <1>0, <1>10, FaultEffect, NoneType DEF RestoreRecovers, TypeOK
  <2> QED
    BY <1>0, <1>10, <2>1, <2>2, <2>3 DEF RestoreRecovers, TypeOK
<1>11. CASE RestoreAnswers(r)
  <2>1. restore' \in [Restore -> RestoreState]
    BY <1>11, RestoreDoneEffect DEF RestoreAnswers
  <2>2. row' \in [status : Status, idle : BOOLEAN]
    BY <1>11 DEF RestoreAnswers, TypeOK
  <2> QED
    BY <1>0, <1>11, <2>1, <2>2 DEF RestoreAnswers, TypeOK
<1>12. CASE RestoreKilled(r)
  <2>1. restore' \in [Restore -> RestoreState]
    BY <1>12, RestoreDoneEffect DEF RestoreKilled
  <2> QED
    BY <1>12, <2>1, FaultEffect DEF RestoreKilled, TypeOK
<1> QED
  BY <1>1, <1>2, <1>3, <1>4, <1>5, <1>6, <1>7, <1>8, <1>9, <1>10, <1>11, <1>12 DEF RestoreStep

LEMMA TurnTypes ==
    ASSUME TypeOK, NEW c \in Turn, TurnStarts(c) \/ TurnWorks(c) \/ TurnStep(c) \/ TurnKilled(c)
    PROVE  TypeOK' /\ faults.hazards \subseteq faults'.hazards
<1>0. /\ {"off", "poll", "check", "terminate", "terminated", "provision", "commit", "work"} = TurnPc
      /\ ByStatus \in TurnPc
      /\ Rolled(c) => txn' \in Turn \cup {Nobody}
      /\ faults \in FaultState
  BY DEF TurnPc, ByStatus, Rolled, TypeOK, FaultState
<1> USE DEF snapshots, request, FaultState
<1>1. CASE TurnStarts(c) \/ TurnPolls(c) \/ TurnChecks(c) \/ TurnTerminated(c) \/ TurnEnds(c)
  <2>1. \E pc \in TurnPc : TurnTo(c, pc)
    BY <1>0, <1>1 DEF TurnStarts, TurnPolls, TurnChecks, TurnTerminated, TurnEnds
  <2>2. turn' \in [Turn -> TurnPc]
    BY <2>1, TurnToEffect
  <2> QED
    BY <1>1, <2>2 DEF TurnStarts, TurnPolls, TurnChecks, TurnTerminated, TurnEnds, TypeOK
<1>2. CASE TurnTerminates(c) \/ TurnProvisions(c)
  <2>1. turn' \in [Turn -> TurnPc]
    BY <1>0, <1>2, TurnToEffect DEF TurnTerminates, TurnProvisions
  <2>2. (pod = "well") \in BOOLEAN /\ "late_terminate" \in HazardKinds
    BY DEF HazardKinds
  <2>3. TurnTerminates(c) => faults' \in FaultState /\ faults.hazards \subseteq faults'.hazards
    BY <2>2, MarkEffect DEF TurnTerminates
  <2> QED
    BY <1>2, <2>1, <2>3, PodEffect DEF TurnTerminates, TurnProvisions, TypeOK
<1>3. CASE TurnFails(c) \/ TurnKilled(c)
  <2>1. turn' \in [Turn -> TurnPc]
    BY <1>0, <1>3, TurnToEffect DEF TurnFails, TurnKilled
  <2>2. (pod = "sick") \in BOOLEAN
    OBVIOUS
  <2>3. faults' \in FaultState /\ faults.hazards \subseteq faults'.hazards
    BY <1>0, <1>3, <2>2, UnlessEffect, FaultEffect DEF TurnFails, TurnKilled, NotProvisioned
  <2> QED
    BY <1>0, <1>3, <2>1, <2>3 DEF TurnFails, TurnKilled, TypeOK
<1>4. CASE TurnCommits(c)
  <2>1. turn' \in [Turn -> TurnPc]
    BY <1>0, <1>4, TurnToEffect DEF TurnCommits
  <2> QED
    BY <1>4, <2>1, RunningEffect DEF TurnCommits, TypeOK
<1>5. CASE TurnWorks(c)
  <2>1. PICK w \in Work \ done : /\ done' = done \cup {w}
                                 /\ ws' = [there |-> TRUE, files |-> ws.files \cup {w}]
    BY <1>5 DEF TurnWorks
  <2>2. done' \subseteq Work /\ ws' \in Files
    BY <2>1 DEF TypeOK, Files
  <2>3. (~Reaping) \in BOOLEAN
    OBVIOUS
  <2>4. faults' \in FaultState /\ faults.hazards \subseteq faults'.hazards
    BY <1>0, <1>5, <2>3, UnlessEffect, FaultEffect DEF TurnWorks
  <2> QED
    BY <1>5, <2>2, <2>4 DEF TurnWorks, TypeOK
<1> QED
  BY <1>1, <1>2, <1>3, <1>4, <1>5 DEF TurnStep

LEMMA ArchivesEffect ==
    ASSUME TypeOK, NEW a \in Snapper, KeepArchives(a)
    PROVE  /\ keep' \in [Snapper -> KeepState]
           /\ keep'[a].pc = "prune" /\ keep'[a].id = keep[a].id /\ keep'[a].prior = rows
           /\ \A b \in Snapper \ {a} : keep'[b] = keep[b]
           /\ blob' \in [Id -> Files]
           /\ keep[a].id \in Id => blob'[keep[a].id].there
           /\ \A s \in Id : s # keep[a].id => blob'[s] = blob[s]
<1>1. keep' = [keep EXCEPT ![a].pc = "prune", ![a].prior = rows]
  BY DEF KeepArchives
<1>2. "prune" \in KeepPc /\ rows \in SUBSET Id
  BY DEF KeepPc, TypeOK
<1>3. /\ keep' \in [Snapper -> KeepState]
      /\ keep'[a].pc = "prune" /\ keep'[a].id = keep[a].id /\ keep'[a].prior = rows
      /\ \A b \in Snapper \ {a} : keep'[b] = keep[b]
  BY <1>1, <1>2 DEF TypeOK, KeepState
<1>4. blob' = [blob EXCEPT ![keep[a].id] = ws] /\ ws.there
  BY DEF KeepArchives, Archivable
<1>5. /\ blob' \in [Id -> Files]
      /\ keep[a].id \in Id => blob'[keep[a].id].there
      /\ \A s \in Id : s # keep[a].id => blob'[s] = blob[s]
  BY <1>4 DEF TypeOK
<1> QED
  BY <1>3, <1>5

LEMMA PrunesEffect ==
    ASSUME TypeOK, NEW a \in Snapper, KeepPrunes(a)
    PROVE  /\ keep' \in [Snapper -> KeepState]
           /\ keep'[a].pc = "commit" /\ keep'[a].id = keep[a].id
           /\ keep'[a].prior = keep[a].prior
           /\ \A b \in Snapper \ {a} : keep'[b] = keep[b]
           /\ blob' \in [Id -> Files]
           /\ \A s \in Id : s \notin keep[a].prior => blob'[s] = blob[s]
<1>1. KeepTo(a, "commit") /\ "commit" \in KeepPc
  BY DEF KeepPrunes, KeepPc
<1>2. blob' = [s \in Id |-> IF s \in keep[a].prior THEN None ELSE blob[s]]
  BY DEF KeepPrunes
<1>3. blob' \in [Id -> Files] /\ \A s \in Id : s \notin keep[a].prior => blob'[s] = blob[s]
  BY <1>2, NoneType DEF TypeOK
<1> QED
  BY <1>1, <1>3, KeepToEffect

LEMMA SkipsEffect ==
    ASSUME TypeOK, NEW a \in Snapper, KeepSkipsPrune(a)
    PROVE  /\ keep' \in [Snapper -> KeepState]
           /\ keep'[a].pc = "commit" /\ keep'[a].id = keep[a].id /\ keep'[a].prior = {}
           /\ \A b \in Snapper \ {a} : keep'[b] = keep[b]
<1>1. keep' = [keep EXCEPT ![a].pc = "commit", ![a].prior = {}]
  BY DEF KeepSkipsPrune
<1>2. "commit" \in KeepPc /\ {} \in SUBSET Id
  BY DEF KeepPc
<1> QED
  BY <1>1, <1>2 DEF TypeOK, KeepState

LEMMA KeptEffect ==
    ASSUME TypeOK, KeepsHaveIds, NEW a \in Snapper, keep[a].pc # "off"
    PROVE  keep[a].id \in Id /\ Kept(a) \subseteq Id
BY DEF TypeOK, KeepsHaveIds, InFlight, KeepState, Kept

LEMMA OrphanEffect ==
    ASSUME TypeOK, NEW a \in Snapper, Orphaned(a)
    PROVE  /\ blob' \in [Id -> Files]
           /\ \A s \in Id : s # keep[a].id => blob'[s] = blob[s]
BY NoneType DEF TypeOK, Orphaned

\* Who begins takes the next created_at.
LEMMA BeginEffect ==
    ASSUME TypeOK, UserStarts \/ SweepStarts
    PROVE  /\ keep' \in [Snapper -> KeepState]
           /\ faults' \in FaultState /\ faults.hazards \subseteq faults'.hazards
           /\ \E a \in Snapper :
                /\ keep'[a].id \in Id /\ NewId(keep'[a].id)
                /\ \A b \in Snapper \ {a} : keep'[b] = keep[b]
                /\ \/ /\ a = "user" /\ UserStarts
                      /\ keep'[a].pc = "archive" /\ keep'[a].prior = {}
                   \/ /\ a = "sweep" /\ SweepStarts
                      /\ keep'[a].pc = keep[a].pc /\ keep'[a].prior = keep[a].prior
<1>1. CASE UserStarts
  <2>1. PICK id \in Id :
          /\ NewId(id)
          /\ keep' = [keep EXCEPT !["user"] = [pc |-> "archive", id |-> id, prior |-> {}]]
    BY <1>1 DEF UserStarts
  <2>2. "archive" \in KeepPc /\ "user" \in Snapper /\ (sweep.pc = "off") \in BOOLEAN
    BY DEF KeepPc, Snapper
  <2>3. keep' \in [Snapper -> KeepState]
        /\ keep'["user"].id = id /\ keep'["user"].pc = "archive" /\ keep'["user"].prior = {}
        /\ \A b \in Snapper \ {"user"} : keep'[b] = keep[b]
    BY <2>1, <2>2 DEF TypeOK, KeepState
  <2>4. faults' \in FaultState /\ faults.hazards \subseteq faults'.hazards
    BY <1>1, <2>2, UnlessEffect DEF UserStarts
  <2> QED
    BY <1>1, <2>1, <2>2, <2>3, <2>4
<1>2. CASE SweepStarts
  <2>1. PICK id \in Id : NewId(id) /\ keep' = [keep EXCEPT !["sweep"].id = id]
    BY <1>2 DEF SweepStarts
  <2>2. "sweep" \in Snapper /\ (keep["user"].pc = "off") \in BOOLEAN
    BY DEF Snapper
  <2>3. keep' \in [Snapper -> KeepState]
        /\ keep'["sweep"].id = id /\ keep'["sweep"].pc = keep["sweep"].pc
        /\ keep'["sweep"].prior = keep["sweep"].prior
        /\ \A b \in Snapper \ {"sweep"} : keep'[b] = keep[b]
    BY <2>1, <2>2 DEF TypeOK, KeepState
  <2>4. faults' \in FaultState /\ faults.hazards \subseteq faults'.hazards
    BY <1>2, <2>2, UnlessEffect DEF SweepStarts
  <2> QED
    BY <1>2, <2>1, <2>2, <2>3, <2>4
<1> QED
  BY <1>1, <1>2

LEMMA KeepTypes ==
    ASSUME TypeOK, NEW a \in Snapper, KeepArchives(a) \/ KeepPrunes(a) \/ KeepSkipsPrune(a)
    PROVE  TypeOK' /\ faults.hazards \subseteq faults'.hazards
<1>1. CASE KeepArchives(a)
  BY <1>1, ArchivesEffect DEF KeepArchives, TypeOK, request
<1>2. CASE KeepPrunes(a)
  BY <1>2, PrunesEffect DEF KeepPrunes, TypeOK, request
<1>3. CASE KeepSkipsPrune(a)
  <2>1. faults' \in FaultState /\ faults.hazards \subseteq faults'.hazards
    BY <1>3, FaultEffect DEF KeepSkipsPrune
  <2> QED
    BY <1>3, <2>1, SkipsEffect DEF KeepSkipsPrune, TypeOK, request, FaultState
<1> QED
  BY <1>1, <1>2, <1>3

LEMMA UserTypes ==
    ASSUME TypeOK, KeepsHaveIds, User \/ UserKilled
    PROVE  TypeOK' /\ faults.hazards \subseteq faults'.hazards
<1>0. "user" \in Snapper
  BY DEF Snapper
<1> USE DEF request, FaultState
<1>1. CASE UserStarts
  BY <1>1, BeginEffect DEF UserStarts, TypeOK
<1>2. CASE UserCommits
  <2>1. keep["user"].pc # "off" /\ rows' = Kept("user") /\ KeepDone("user")
    BY <1>2 DEF UserCommits
  <2>2. rows' \subseteq Id /\ keep' \in [Snapper -> KeepState]
    BY <1>0, <2>1, KeptEffect, KeepDoneEffect
  <2> QED
    BY <1>2, <2>2 DEF UserCommits, TypeOK
<1>3. CASE UserFails
  <2>1. (~Archivable) \in BOOLEAN
    BY DEF Archivable, TypeOK, Files
  <2> QED
    BY <1>0, <1>3, <2>1, KeepDoneEffect, UnlessEffect DEF UserFails, TypeOK
<1>4. CASE UserKilled
  <2>1. keep' \in [Snapper -> KeepState] /\ blob' \in [Id -> Files]
    BY <1>0, <1>4, KeepDoneEffect, OrphanEffect DEF UserKilled
  <2> QED
    BY <1>4, <2>1, FaultEffect DEF UserKilled, TypeOK
<1> QED
  BY <1>0, <1>1, <1>2, <1>3, <1>4, KeepTypes DEF User

LEMMA SweepTypes ==
    ASSUME TypeOK, KeepsHaveIds, SweepStarts \/ Sweep \/ SweepKilled
    PROVE  TypeOK' /\ faults.hazards \subseteq faults'.hazards
<1>0. /\ "sweep" \in Snapper /\ "archive" \in KeepPc
      /\ {"off", "list", "keep", "probe", "reap", "sleep"} = SweepPc
      /\ (pod # "well" \/ ~ws.there) \in BOOLEAN /\ (pod # "well") \in BOOLEAN
      /\ faults \in FaultState
  BY DEF Snapper, KeepPc, SweepPc, TypeOK, Files, FaultState
<1> USE DEF request, snapshots, FaultState
<1>1. CASE SweepStarts
  <2>1. sweep' \in [pc : SweepPc, idle : BOOLEAN]
    BY <1>0, <1>1 DEF SweepStarts, TypeOK
  <2> QED
    BY <1>1, <2>1, BeginEffect DEF SweepStarts, TypeOK
<1>2. CASE SweepLists
  <2>1. CASE keep' = [keep EXCEPT !["sweep"].pc = "archive"] /\ SweepTo("keep") /\ UNCHANGED faults
    <3>1. KeepTo("sweep", "archive")
      BY <2>1 DEF KeepTo
    <3> QED
      BY <1>0, <1>2, <2>1, <3>1, KeepToEffect, SweepToEffect DEF SweepLists, TypeOK
  <2>2. CASE /\ IF sweep.idle THEN SweepTo("reap") /\ UNCHANGED keep
                              ELSE SweepOff /\ KeepDone("sweep")
             /\ Unless(pod # "well" \/ ~ws.there, "exec_error")
    <3>1. sweep' \in [pc : SweepPc, idle : BOOLEAN] /\ keep' \in [Snapper -> KeepState]
      BY <1>0, <2>2, SweepToEffect, SweepOffEffect, KeepDoneEffect DEF TypeOK
    <3>2. faults' \in FaultState /\ faults.hazards \subseteq faults'.hazards
      BY <1>0, <2>2, UnlessEffect
    <3> QED
      BY <1>2, <3>1, <3>2 DEF SweepLists, TypeOK
  <2> QED
    BY <1>2, <2>1, <2>2 DEF SweepLists, Listed
<1>3. ASSUME NEW pc \in SweepPc, SweepKept(pc)
      PROVE  sweep' \in [pc : SweepPc, idle : BOOLEAN] /\ keep' \in [Snapper -> KeepState]
  BY <1>0, <1>3, SweepToEffect, SweepOffEffect, KeepDoneEffect DEF SweepKept
<1>4. CASE SweepCommits
  <2>1. keep["sweep"].pc # "off" /\ rows' = Kept("sweep") /\ SweepKept("reap")
    BY <1>4 DEF SweepCommits
  <2>2. rows' \subseteq Id
    BY <1>0, <2>1, KeptEffect
  <2> QED
    BY <1>0, <1>3, <1>4, <2>1, <2>2 DEF SweepCommits, TypeOK
<1>5. CASE SweepFindsNothing
  BY <1>0, <1>3, <1>5 DEF SweepFindsNothing, TypeOK
<1>6. CASE SweepFails
  <2>1. faults' \in FaultState /\ faults.hazards \subseteq faults'.hazards
    BY <1>0, <1>6, UnlessEffect DEF SweepFails
  <2> QED
    BY <1>0, <1>3, <1>6, <2>1 DEF SweepFails, AfterFailure, TypeOK
<1>7. CASE SweepProbes
  BY <1>0, <1>7, SweepToEffect, SweepOffEffect DEF SweepProbes, TypeOK
<1>8. CASE SweepReaps
  <2>1. sweep' \in [pc : SweepPc, idle : BOOLEAN] /\ keep' \in [Snapper -> KeepState]
    BY <1>0, <1>8, SweepToEffect, KeepDoneEffect DEF SweepReaps
  <2> QED
    BY <1>8, <2>1, PodEffect DEF SweepReaps, TypeOK
<1>9. CASE SweepSleeps
  <2>1. row' \in [status : Status, idle : BOOLEAN]
    BY <1>9, StatusEffect DEF SweepSleeps, Status
  <2> QED
    BY <1>9, <2>1, SweepOffEffect DEF SweepSleeps, TypeOK
<1>10. CASE SweepRaises
  BY <1>0, <1>10, SweepOffEffect, KeepDoneEffect, FaultEffect DEF SweepRaises, TypeOK
<1>11. CASE SweepKilled
  <2>1. keep' \in [Snapper -> KeepState] /\ blob' \in [Id -> Files]
    BY <1>0, <1>11, KeepDoneEffect, OrphanEffect DEF SweepKilled
  <2> QED
    BY <1>11, <2>1, SweepOffEffect, FaultEffect DEF SweepKilled, TypeOK
<1> QED
  BY <1>0, <1>1, <1>2, <1>4, <1>5, <1>6, <1>7, <1>8, <1>9, <1>10, <1>11, KeepTypes DEF Sweep

WorldStep == GoesIdle \/ PodDies \/ PodSickens \/ PodRecovers \/ LockExpires

LEMMA WorldTypes ==
    ASSUME TypeOK, WorldStep
    PROVE  TypeOK' /\ faults.hazards \subseteq faults'.hazards
<1> USE DEF request, snapshots, FaultState
<1>1. CASE GoesIdle
  <2>1. row' \in [status : Status, idle : BOOLEAN]
    BY <1>1 DEF GoesIdle, TypeOK
  <2> QED
    BY <1>1, <2>1 DEF GoesIdle, TypeOK
<1>2. CASE PodDies
  BY <1>2, PodEffect, FaultEffect DEF PodDies, TypeOK
<1>3. CASE PodSickens
  BY <1>3, FaultEffect DEF PodSickens, TypeOK
<1>4. CASE PodRecovers
  BY <1>4 DEF PodRecovers, TypeOK
<1>5. CASE LockExpires
  <2>1. (restore[lock].pc = "off") \in BOOLEAN
    OBVIOUS
  <2> QED
    BY <1>5, <2>1, UnlessEffect DEF LockExpires, TypeOK
<1> QED
  BY <1>1, <1>2, <1>3, <1>4, <1>5 DEF WorldStep

RestoreMove(r) == RestoreStarts(r) \/ RestoreStep(r) \/ RestoreKilled(r)
TurnMove(c) == TurnStarts(c) \/ TurnWorks(c) \/ TurnStep(c) \/ TurnKilled(c)
SweepMove == SweepStarts \/ Sweep \/ SweepKilled
UserMove == User \/ UserKilled

LEMMA Moves ==
    Next => \/ SweepMove \/ UserMove \/ WorldStep
            \/ \E r \in Restore : RestoreMove(r)
            \/ \E c \in Turn : TurnMove(c)
BY DEF Next, SweepMove, UserMove, WorldStep, RestoreMove, TurnMove

LEMMA TypesKept ==
    ASSUME TypeOK, KeepsHaveIds, Next
    PROVE  TypeOK' /\ faults.hazards \subseteq faults'.hazards
BY Moves, SweepTypes, UserTypes, WorldTypes, RestoreTypes, TurnTypes
   DEF SweepMove, UserMove, RestoreMove, TurnMove

-----------------------------------------------------------------------------
(* Sweeps and snapshot requests                                              *)

LEMMA Bystanders ==
    ASSUME WorldStep \/ (\E r \in Restore : RestoreMove(r)) \/ (\E c \in Turn : TurnMove(c))
    PROVE  UNCHANGED <<keep, sweep, rows, blob>>
<1>1. ASSUME WorldStep
      PROVE  UNCHANGED <<keep, sweep, rows, blob>>
  BY <1>1 DEF WorldStep, GoesIdle, PodDies, PodSickens, PodRecovers, LockExpires, snapshots
<1>2. ASSUME NEW r \in Restore, RestoreMove(r)
      PROVE  UNCHANGED <<keep, sweep, rows, blob>>
  BY <1>2 DEF RestoreMove, RestoreStarts, RestoreStep, RestoreKilled, RestoreProbes,
     RestoreTerminates, RestoreTerminated, RestoreWakes, RestoreProvisions, RestoreUp,
     RestoreSkipsLoad, RestoreFinds, RestoreMisses, RestoreExtracts, RestoreFails,
     RestoreRecovers, RestoreAnswers, Elsewhere
<1>3. ASSUME NEW c \in Turn, TurnMove(c)
      PROVE  UNCHANGED <<keep, sweep, rows, blob>>
  BY <1>3 DEF TurnMove, TurnStarts, TurnWorks, TurnStep, TurnKilled, TurnPolls, TurnChecks,
     TurnTerminates, TurnTerminated, TurnProvisions, TurnFails, TurnCommits, TurnEnds, snapshots
<1> QED
  BY <1>1, <1>2, <1>3

\* What becomes of the transaction of a, the other being left alone.
Begins(a) == /\ keep'[a].id \in Id /\ NewId(keep'[a].id) /\ keep[a].pc = "off"
             /\ keep'[a].pc \in {"off", "archive"} /\ keep'[a].prior \in {{}, keep[a].prior}
             /\ UNCHANGED <<rows, blob>>
Ends(a) == /\ keep'[a].pc = "off" /\ keep'[a].id = 0 /\ keep'[a].prior = {}
           /\ \/ UNCHANGED <<rows, blob>> /\ keep[a].pc # "commit"
              \/ keep[a].pc = "commit" /\ rows' = Kept(a) /\ UNCHANGED blob
              \/ Orphaned(a) /\ UNCHANGED rows /\ Shown({"killed"})'
Steps(a) == \/ KeepArchives(a) \/ KeepPrunes(a) \/ KeepSkipsPrune(a)
            \/ /\ keep'[a].pc = "archive" /\ keep[a].pc = "off" /\ InFlight(a)
               /\ keep'[a].id = keep[a].id /\ keep'[a].prior = keep[a].prior
               /\ UNCHANGED <<rows, blob>>
SnapshotMove(a) ==
    /\ \A b \in Snapper \ {a} : keep'[b] = keep[b]
    /\ Begins(a) \/ Steps(a) \/ Ends(a)

LEMMA UserMoves ==
    ASSUME TypeOK, UserMove
    PROVE  SnapshotMove("user") /\ sweep' = sweep
<1>0. "user" \in Snapper /\ "sweep" \in Snapper
  BY DEF Snapper
<1>1. CASE UserStarts
  <2>1. keep["user"].pc = "off" /\ UNCHANGED <<rows, blob, sweep>> /\ ~SweepStarts
    BY <1>1 DEF UserStarts, SweepStarts
  <2> QED
    BY <1>1, <2>1, BeginEffect DEF SnapshotMove, Begins
<1>2. CASE KeepArchives("user") \/ KeepPrunes("user") \/ KeepSkipsPrune("user")
  BY <1>0, <1>2, ArchivesEffect, PrunesEffect, SkipsEffect
     DEF SnapshotMove, Steps, KeepArchives, KeepPrunes, KeepSkipsPrune
<1>3. CASE UserCommits
  BY <1>0, <1>3, KeepDoneEffect DEF UserCommits, SnapshotMove, Ends
<1>4. CASE UserFails
  BY <1>0, <1>4, KeepDoneEffect DEF UserFails, SnapshotMove, Ends
<1>5. CASE UserKilled
  BY <1>0, <1>5, KeepDoneEffect, FaultEffect DEF UserKilled, SnapshotMove, Ends, Shown
<1> QED
  BY <1>1, <1>2, <1>3, <1>4, <1>5 DEF UserMove, User

SweepGoes ==
    \/ sweep'.pc = "off" /\ ~sweep'.idle
    \/ sweep.pc = "off" /\ sweep'.pc = "list" /\ sweep'.idle = row.idle
    \/ sweep'.idle = sweep.idle /\ sweep.pc = "list" /\ sweep'.pc = "keep"
    \/ sweep'.idle = sweep.idle /\ sweep.pc = "keep" /\ sweep'.pc = "keep"
    \/ /\ sweep'.idle /\ sweep.idle
       /\ \/ sweep.pc \in {"list", "keep", "probe"} /\ sweep'.pc \in {"probe", "reap"}
          \/ sweep.pc = "reap" /\ sweep'.pc = "sleep"

LEMMA SweepMoves ==
    ASSUME TypeOK, KeepsHaveIds, SweepMove
    PROVE  /\ SnapshotMove("sweep") \/ UNCHANGED <<keep, rows, blob>>
           /\ SweepGoes
           /\ sweep'.pc = "list" => keep'["sweep"].id # 0
           /\ keep'["sweep"].pc # "off" => sweep'.pc = "keep"
<1>0. /\ "user" \in Snapper /\ "sweep" \in Snapper
      /\ \A pc \in {"off", "list", "keep", "probe", "reap", "sleep"} : pc \in SweepPc
      /\ "archive" \in KeepPc
      /\ keep["sweep"].pc # "off" => sweep.pc = "keep"
  BY DEF Snapper, SweepPc, KeepPc, KeepsHaveIds
<1> USE DEF snapshots
<1>1. CASE SweepStarts
  <2>1. keep["sweep"].pc = "off" /\ UNCHANGED <<rows, blob>> /\ ~UserStarts
    BY <1>0, <1>1 DEF UserStarts, SweepStarts
  <2>2. sweep.pc = "off" /\ sweep'.pc = "list" /\ sweep'.idle = row.idle
    BY <1>1 DEF SweepStarts
  <2>3. /\ \A b \in Snapper \ {"sweep"} : keep'[b] = keep[b]
        /\ keep'["sweep"].id \in Id /\ NewId(keep'["sweep"].id)
        /\ keep'["sweep"].pc = keep["sweep"].pc /\ keep'["sweep"].prior = keep["sweep"].prior
    BY <1>1, <2>1, BeginEffect
  <2> QED
    BY <2>1, <2>2, <2>3 DEF SnapshotMove, Begins, SweepGoes, Id
<1>2. CASE SweepLists
  <2>1. CASE keep' = [keep EXCEPT !["sweep"].pc = "archive"] /\ SweepTo("keep")
    <3>1. KeepTo("sweep", "archive")
      BY <2>1 DEF KeepTo
    <3>2. SnapshotMove("sweep")
      BY <1>0, <1>2, <3>1, KeepToEffect DEF SweepLists, SnapshotMove, Steps, KeepsHaveIds
    <3> QED
      BY <1>0, <1>2, <2>1, <3>2, SweepToEffect DEF SweepLists, SweepGoes
  <2>2. CASE IF sweep.idle THEN SweepTo("reap") /\ UNCHANGED keep ELSE SweepOff /\ KeepDone("sweep")
    <3>1. CASE sweep.idle
      BY <1>0, <1>2, <2>2, <3>1, SweepToEffect DEF SweepLists, SweepGoes
    <3>2. CASE ~sweep.idle
      BY <1>0, <1>2, <2>2, <3>2, SweepOffEffect, KeepDoneEffect
         DEF SweepLists, SweepGoes, SnapshotMove, Ends
    <3> QED
      BY <3>1, <3>2
  <2> QED
    BY <1>2, <2>1, <2>2 DEF SweepLists, Listed
<1>3. CASE KeepArchives("sweep") \/ KeepPrunes("sweep") \/ KeepSkipsPrune("sweep")
  <2>1. sweep.pc = "keep" /\ sweep' = sweep
    BY <1>0, <1>3 DEF KeepArchives, KeepPrunes, KeepSkipsPrune
  <2> QED
    BY <1>0, <1>3, <2>1, ArchivesEffect, PrunesEffect, SkipsEffect DEF SnapshotMove, Steps, SweepGoes
<1>4. ASSUME NEW pc \in {"probe", "reap"}, SweepKept(pc)
      PROVE  /\ SweepGoes /\ sweep'.pc # "list"
             /\ keep'["sweep"].pc = "off" /\ keep'["sweep"].id = 0 /\ keep'["sweep"].prior = {}
             /\ \A b \in Snapper \ {"sweep"} : keep'[b] = keep[b]
  BY <1>0, <1>4, SweepToEffect, SweepOffEffect, KeepDoneEffect DEF SweepKept, SweepGoes
<1>5. CASE SweepCommits
  BY <1>4, <1>5 DEF SweepCommits, SnapshotMove, Ends
<1>6. CASE SweepFindsNothing \/ SweepFails
  BY <1>4, <1>6 DEF SweepFindsNothing, SweepFails, AfterFailure, SnapshotMove, Ends
<1>7. CASE SweepProbes
  <2>1. sweep.idle
    BY <1>7 DEF SweepProbes, KeepsHaveIds
  <2> QED
    BY <1>0, <1>7, <2>1, SweepToEffect, SweepOffEffect DEF SweepProbes, SweepGoes
<1>8. CASE SweepReaps
  <2>1. sweep.idle
    BY <1>8 DEF SweepReaps, KeepsHaveIds
  <2> QED
    BY <1>0, <1>8, <2>1, SweepToEffect, KeepDoneEffect DEF SweepReaps, SweepGoes, SnapshotMove, Ends
<1>9. CASE SweepSleeps
  BY <1>0, <1>9, SweepOffEffect DEF SweepSleeps, SweepGoes
<1>10. CASE SweepRaises
  BY <1>0, <1>10, SweepOffEffect, KeepDoneEffect DEF SweepRaises, SweepGoes, SnapshotMove, Ends
<1>11. CASE SweepKilled
  BY <1>0, <1>11, SweepOffEffect, KeepDoneEffect, FaultEffect
     DEF SweepKilled, SweepGoes, SnapshotMove, Ends, Shown
<1> QED
  BY <1>1, <1>2, <1>3, <1>5, <1>6, <1>7, <1>8, <1>9, <1>10, <1>11 DEF SweepMove, Sweep

LEMMA AllSnapshotMoves ==
    ASSUME TypeOK, KeepsHaveIds, Next
    PROVE  (\E a \in Snapper : SnapshotMove(a)) \/ UNCHANGED <<keep, rows, blob>>
BY Moves, Bystanders, UserMoves, SweepMoves DEF Snapper

LEMMA StepIds ==
    ASSUME TypeOK, KeepsHaveIds, NEW a \in Snapper, SnapshotMove(a)
    PROVE  keep'[a].pc # "off" => keep'[a].id # 0
<1>1. CASE Begins(a)
  BY <1>1 DEF Begins, Id
<1>2. CASE Steps(a)
  BY <1>2, ArchivesEffect, PrunesEffect, SkipsEffect
     DEF Steps, KeepArchives, KeepPrunes, KeepSkipsPrune, KeepsHaveIds, InFlight
<1>3. CASE Ends(a)
  BY <1>3 DEF Ends
<1> QED
  BY <1>1, <1>2, <1>3 DEF SnapshotMove

LEMMA KeepsHaveIdsStay ==
    ASSUME TypeOK, KeepsHaveIds, Next
    PROVE  KeepsHaveIds'
<1>1. \A a \in Snapper : keep'[a].pc # "off" => keep'[a].id # 0
  <2>1. ASSUME NEW b \in Snapper, SnapshotMove(b)
        PROVE  \A a \in Snapper : keep'[a].pc # "off" => keep'[a].id # 0
    BY <2>1, StepIds DEF SnapshotMove, KeepsHaveIds, InFlight
  <2> QED
    BY <2>1, AllSnapshotMoves DEF KeepsHaveIds, InFlight
<1>2. CASE SweepMove
  BY <1>1, <1>2, SweepMoves DEF SweepGoes, KeepsHaveIds, InFlight
<1>3. CASE UserMove
  <2>1. keep'["sweep"] = keep["sweep"] /\ sweep' = sweep
    BY <1>3, UserMoves DEF SnapshotMove, Snapper
  <2> QED
    BY <1>1, <2>1 DEF KeepsHaveIds, InFlight
<1>4. CASE UNCHANGED <<keep, sweep>>
  BY <1>4 DEF KeepsHaveIds, InFlight
<1> QED
  BY <1>2, <1>3, <1>4, Moves, Bystanders

-----------------------------------------------------------------------------
(* Snapshots                                                                 *)

LEMMA FreshStays ==
    ASSUME TypeOK, KeepsHaveIds, IdsFresh, NEW a \in Snapper, SnapshotMove(a)
    PROVE  IdsFresh'
<1> USE DEF InFlight
<1>0. /\ rows \subseteq Id /\ \A c \in Snapper : keep[c].id \in Id \cup {0} /\ keep[c].prior \subseteq Id
      /\ \A c \in Snapper : c # a => keep'[c] = keep[c]
      /\ \A c, d \in Snapper : c # a /\ d # a => c = d
  BY DEF TypeOK, KeepState, SnapshotMove, Snapper
<1>1. CASE Begins(a)
  <2> DEFINE n == keep'[a].id
  <2>1. n \in Id /\ (\A s \in rows : s < n) /\ \A c \in Snapper : keep[c].id < n
    BY <1>1 DEF Begins, NewId, Held
  <2>2. \A c \in Snapper : \A s \in keep[c].prior : s < n
    BY <1>0, <2>1 DEF IdsFresh, Id
  <2>3. rows' = rows /\ keep'[a].prior \subseteq keep[a].prior
    BY <1>1 DEF Begins
  <2>4. \A c \in Snapper : keep'[c].prior \subseteq keep[c].prior
    BY <1>0, <2>3
  <2>5. \A c \in Snapper : keep'[c].prior # {} => keep'[c].id # 0
    BY <1>0, <2>1, <2>4 DEF IdsFresh, Id
  <2>6. \A c \in Snapper : \A s \in keep'[c].prior : s <= keep'[c].id \/ \E t \in rows' : s <= t
    <3>1. \A s \in keep'[a].prior : s <= n
      BY <1>0, <2>1, <2>2, <2>4 DEF Id
    <3> QED
      BY <1>0, <2>3, <3>1 DEF IdsFresh
  <2>7. ASSUME NEW c \in Snapper, NEW d \in Snapper, keep'[d].id < keep'[c].id, keep'[d].id # 0
        PROVE  \A s \in rows' \cup keep'[c].prior \cup keep'[d].prior : s < keep'[c].id
    <3>1. c # d
      BY <1>0, <2>1, <2>7 DEF Id
    <3>2. CASE c = a
      BY <2>1, <2>2, <2>3, <2>4, <3>2
    <3>3. CASE d = a
      BY <1>0, <2>1, <2>7, <3>1, <3>3 DEF Id
    <3> QED
      BY <1>0, <3>1, <3>2, <3>3
  <2>8. \A c, d \in Snapper : keep'[c].id # 0 => keep'[c].id \notin rows' \cup keep'[d].prior
    <3>1. \A d \in Snapper : n \notin rows \cup keep[d].prior
      BY <1>0, <2>1, <2>2 DEF Id
    <3> QED
      BY <1>0, <2>3, <2>4, <3>1 DEF IdsFresh
  <2>9. \A c, d \in Snapper : keep'[c].id # 0 /\ keep'[c].id = keep'[d].id => c = d
    <3>1. \A c \in Snapper : keep[c].id # n
      BY <1>0, <2>1 DEF Id
    <3> QED
      BY <1>0, <3>1
  <2> QED
    BY <2>5, <2>6, <2>7, <2>8, <2>9 DEF IdsFresh
<1>2. CASE Steps(a)
  <2>1. /\ rows' = rows /\ \A c \in Snapper : keep'[c].id = keep[c].id
        /\ \/ \A c \in Snapper : keep'[c].prior = keep[c].prior
           \/ /\ keep[a].id # 0 /\ keep'[a].prior \in {rows, {}}
              /\ \A c \in Snapper : c # a => keep'[c].prior = keep[c].prior
    <3>1. CASE KeepArchives(a)
      BY <1>0, <3>1, ArchivesEffect DEF KeepArchives, KeepsHaveIds
    <3>2. CASE KeepPrunes(a)
      BY <1>0, <3>2, PrunesEffect DEF KeepPrunes
    <3>3. CASE KeepSkipsPrune(a)
      BY <1>0, <3>3, SkipsEffect DEF KeepSkipsPrune, KeepsHaveIds
    <3> QED
      BY <1>0, <1>2, <3>1, <3>2, <3>3 DEF Steps
  <2>2. CASE \A c \in Snapper : keep'[c].prior = keep[c].prior
    BY <2>1, <2>2 DEF IdsFresh
  <2>3. CASE /\ keep[a].id # 0 /\ keep'[a].prior \in {rows, {}}
             /\ \A c \in Snapper : c # a => keep'[c].prior = keep[c].prior
    <3>1. \A s \in rows : \E t \in rows : s <= t
      <4>1. \A s \in rows : s <= s
        <5>1. rows \subseteq Int
          BY <1>0 DEF Id
        <5>2. \A s \in Int : s <= s
          OBVIOUS
        <5> QED
          BY <5>1, <5>2
      <4> QED
        BY <4>1
    <3>2. \A c \in Snapper : \A s \in keep'[c].prior : s \in keep[c].prior \/ s \in rows
      BY <2>3
    <3>3. \A c \in Snapper : keep'[c].prior # {} => keep'[c].id # 0
      BY <2>1, <2>3 DEF IdsFresh
    <3>4. \A c \in Snapper : \A s \in keep'[c].prior : s <= keep'[c].id \/ \E t \in rows' : s <= t
      BY <2>1, <3>1, <3>2 DEF IdsFresh
    <3>5. \A c, d \in Snapper : keep'[c].id # 0 /\ keep'[d].id # 0 /\ keep'[d].id < keep'[c].id
             => \A s \in rows' \cup keep'[c].prior \cup keep'[d].prior : s < keep'[c].id
      BY <2>1, <3>2 DEF IdsFresh
    <3>6. \A c, d \in Snapper : keep'[c].id # 0 => keep'[c].id \notin rows' \cup keep'[d].prior
      BY <2>1, <3>2 DEF IdsFresh
    <3>7. \A c, d \in Snapper : keep'[c].id # 0 /\ keep'[c].id = keep'[d].id => c = d
      BY <2>1 DEF IdsFresh
    <3> QED
      BY <3>3, <3>4, <3>5, <3>6, <3>7 DEF IdsFresh
  <2> QED
    BY <2>1, <2>2, <2>3
<1>3. CASE Ends(a)
  <2>1. /\ keep'[a].id = 0 /\ keep'[a].prior = {}
        /\ rows' = rows \/ (keep[a].id # 0 /\ rows' = (rows \ keep[a].prior) \cup {keep[a].id})
    BY <1>3 DEF Ends, Kept, KeepsHaveIds
  <2>2. \A c \in Snapper : keep'[c].prior # {} => keep'[c].id # 0
    BY <1>0, <2>1 DEF IdsFresh
  <2>3. ASSUME NEW c \in Snapper, NEW s \in keep'[c].prior
        PROVE  s <= keep'[c].id \/ \E t \in rows' : s <= t
    <3>1. c # a /\ keep'[c] = keep[c] /\ keep[c].id # 0 /\ s \in Id
      BY <1>0, <2>1, <2>3 DEF IdsFresh
    <3>2. s <= keep[c].id \/ \E t \in rows : s <= t
      BY <2>3, <3>1 DEF IdsFresh
    <3>3. CASE rows' = rows
      BY <3>1, <3>2, <3>3
    <3>4. CASE keep[a].id # 0 /\ rows' = (rows \ keep[a].prior) \cup {keep[a].id}
      <4>1. keep[a].id \in Id /\ keep[c].id \in Id /\ keep[a].id # keep[c].id
        BY <1>0, <3>1, <3>4 DEF IdsFresh
      <4>2. keep[a].id < keep[c].id => s < keep[c].id
        BY <2>3, <3>1, <3>4 DEF IdsFresh
      <4>3. keep[c].id < keep[a].id => s < keep[a].id
        BY <2>3, <3>1, <3>4 DEF IdsFresh
      <4> QED
        BY <3>1, <3>4, <4>1, <4>2, <4>3 DEF Id
    <3> QED
      BY <2>1, <3>3, <3>4
  <2>4. \A c, d \in Snapper : keep'[c].id # 0 /\ keep'[d].id # 0 => c = d
    BY <1>0, <2>1
  <2>5. \A c \in Snapper : ~(keep'[c].id < keep'[c].id)
    BY <1>0, <2>1 DEF Id
  <2>6. \A c, d \in Snapper : keep'[c].id # 0 => keep'[c].id \notin rows' \cup keep'[d].prior
    BY <1>0, <2>1 DEF IdsFresh
  <2>7. \A c, d \in Snapper : keep'[c].id # 0 /\ keep'[c].id = keep'[d].id => c = d
    BY <2>4
  <2> QED
    BY <2>2, <2>3, <2>4, <2>5, <2>6, <2>7 DEF IdsFresh
<1> QED
  BY <1>1, <1>2, <1>3 DEF SnapshotMove

LEMMA ArchivesStay ==
    ASSUME TypeOK, KeepsHaveIds, IdsFresh, ArchivesThere, NEW a \in Snapper, SnapshotMove(a)
    PROVE  ArchivesThere'
<1> SUFFICES ASSUME NEW c \in Snapper, keep'[c].pc \in {"prune", "commit"}
             PROVE  blob'[keep'[c].id].there
  BY DEF ArchivesThere
<1> USE DEF InFlight
<1>0. /\ \A b \in Snapper : b # a => keep'[b] = keep[b]
      /\ \A b \in Snapper : keep[b].id \in Id \cup {0} /\ (keep[b].pc # "off" => keep[b].id \in Id)
  BY DEF TypeOK, KeepState, KeepsHaveIds, SnapshotMove
<1>1. CASE Begins(a)
  BY <1>0, <1>1 DEF Begins, ArchivesThere
<1>2. CASE KeepArchives(a)
  <2>1. CASE c = a
    BY <1>0, <1>2, <2>1, ArchivesEffect DEF KeepArchives
  <2>2. CASE c # a
    <3>1. keep[c].id # keep[a].id
      BY <1>0, <2>2 DEF IdsFresh, KeepsHaveIds
    <3> QED
      BY <1>0, <1>2, <2>2, <3>1, ArchivesEffect DEF ArchivesThere
  <2> QED
    BY <2>1, <2>2
<1>3. CASE KeepPrunes(a)
  <2>1. keep[c].pc \in {"prune", "commit"} /\ keep'[c].id = keep[c].id
    BY <1>0, <1>3, PrunesEffect DEF KeepPrunes
  <2>2. keep[c].id \in Id /\ keep[c].id \notin keep[a].prior
    BY <1>0, <2>1 DEF IdsFresh, KeepsHaveIds
  <2> QED
    BY <1>3, <2>1, <2>2, PrunesEffect DEF ArchivesThere
<1>4. CASE KeepSkipsPrune(a)
  BY <1>0, <1>4, SkipsEffect DEF KeepSkipsPrune, ArchivesThere
<1>5. CASE Steps(a) /\ ~KeepArchives(a) /\ ~KeepPrunes(a) /\ ~KeepSkipsPrune(a)
  BY <1>0, <1>5 DEF Steps, ArchivesThere
<1>6. CASE Ends(a)
  <2>1. c # a /\ keep'[c] = keep[c] /\ keep[c].id \in Id
    BY <1>0, <1>6 DEF Ends
  <2>2. keep[c].id # keep[a].id
    BY <1>0, <2>1 DEF IdsFresh, KeepsHaveIds
  <2> QED
    BY <1>6, <2>1, <2>2, OrphanEffect DEF Ends, ArchivesThere
<1> QED
  BY <1>1, <1>2, <1>3, <1>4, <1>5, <1>6 DEF SnapshotMove

LEMMA BlobsStay ==
    ASSUME TypeOK, KeepsHaveIds, IdsFresh, ArchivesThere, RowsHaveBlobs, Next,
           NEW a \in Snapper, SnapshotMove(a)
    PROVE  RowsHaveBlobs'
<1> SUFFICES ASSUME ~Shown({"killed"})', NEW s \in rows'
             PROVE  blob'[s].there \/ \E b \in Snapper : keep'[b].pc = "commit" /\ s \in keep'[b].prior
  BY DEF RowsHaveBlobs, Committing
<1>0. \A t \in rows : \/ blob[t].there
                      \/ \E b \in Snapper : keep[b].pc = "commit" /\ t \in keep[b].prior
  BY TypesKept DEF RowsHaveBlobs, Committing, Shown
<1> USE DEF InFlight
<1>00. /\ \A b \in Snapper : b # a => keep'[b] = keep[b]
       /\ rows \subseteq Id /\ (keep[a].pc # "off" => keep[a].id \in Id /\ keep[a].id \notin rows)
  BY DEF TypeOK, KeepState, KeepsHaveIds, SnapshotMove, IdsFresh
<1>1. CASE Begins(a)
  BY <1>0, <1>00, <1>1 DEF Begins
<1>2. CASE KeepArchives(a)
  <2>1. rows' = rows /\ blob'[s] = blob[s] /\ keep[a].pc = "archive"
    BY <1>00, <1>2, ArchivesEffect DEF KeepArchives
  <2> QED
    BY <1>0, <1>00, <2>1
<1>3. CASE KeepPrunes(a)
  <2>1. rows' = rows /\ keep'[a].pc = "commit" /\ keep'[a].prior = keep[a].prior
        /\ (s \notin keep[a].prior => blob'[s] = blob[s]) /\ keep[a].pc = "prune"
    BY <1>00, <1>3, PrunesEffect DEF KeepPrunes
  <2> QED
    BY <1>0, <1>00, <2>1
<1>4. CASE KeepSkipsPrune(a)
  BY <1>0, <1>00, <1>4 DEF KeepSkipsPrune
<1>5. CASE Steps(a) /\ ~KeepArchives(a) /\ ~KeepPrunes(a) /\ ~KeepSkipsPrune(a)
  BY <1>0, <1>00, <1>5 DEF Steps
<1>6. CASE Ends(a)
  <2>1. CASE UNCHANGED <<rows, blob>> /\ keep[a].pc # "commit"
    BY <1>0, <1>00, <2>1
  <2>2. CASE keep[a].pc = "commit" /\ rows' = Kept(a) /\ UNCHANGED blob
    <3>1. CASE s = keep[a].id
      BY <2>2, <3>1 DEF ArchivesThere
    <3>2. CASE s # keep[a].id
      BY <1>0, <1>00, <2>2, <3>2 DEF Kept
    <3> QED
      BY <3>1, <3>2
  <2> QED
    BY <1>6, <2>1, <2>2 DEF Ends
<1> QED
  BY <1>1, <1>2, <1>3, <1>4, <1>5, <1>6 DEF SnapshotMove

LEMMA SnapshotsStay ==
    ASSUME TypeOK, KeepsHaveIds, IdsFresh, ArchivesThere, RowsHaveBlobs, Next
    PROVE  IdsFresh' /\ ArchivesThere' /\ RowsHaveBlobs'
<1>1. CASE UNCHANGED <<keep, rows, blob>>
  <2>1. ~Shown({"killed"})' => ~Shown({"killed"})
    BY TypesKept DEF Shown
  <2> QED
    BY <1>1, <2>1 DEF IdsFresh, InFlight, ArchivesThere, RowsHaveBlobs, Committing
<1> QED
  BY <1>1, AllSnapshotMoves, FreshStays, ArchivesStay, BlobsStay

-----------------------------------------------------------------------------
(* Restores                                                                  *)

\* Where a restore goes.
RestoreGoes(r) ==
    LET was == restore[r].pc
        pc == restore'[r].pc IN
    /\ \A q \in Restore \ {r} : restore'[q] = restore[q]
    /\ \/ RestoreStarts(r) /\ was = "off" /\ pc = Entry
       \/ /\ was # "off" /\ pc = "off"
          /\ RestoreRecovers(r) \/ RestoreAnswers(r) \/ Shown({"killed"})'
       \/ was \in {"probe", "load", "ready", "extract"} /\ pc = "answer" /\ restore'[r].seen
       \/ RestoreSkipsLoad(r) /\ was = "ready" /\ pc = "answer"
       \/ RestoreFails(r) /\ was # "off" /\ pc = "recover"
       \/ was = "extract" /\ pc = "recover"
       \/ was = "probe" /\ pc \in {"load", "terminate"}
       \/ was = "terminate" /\ pc = "terminated"
       \/ RestoreTerminated(r) /\ was = "terminated" /\ pc = "wake"
       \/ RestoreWakes(r) /\ was = "wake" /\ pc = "provision"
       \/ RestoreProvisions(r) /\ was = "provision" /\ pc = "up"
       \/ RestoreUp(r) /\ was = "up" /\ pc = "ready"
       \/ was \in {"load", "ready"} /\ pc = "extract"

LEMMA RestoreMoves ==
    ASSUME TypeOK, NEW r \in Restore, RestoreMove(r)
    PROVE  RestoreGoes(r) /\ turn' = turn /\ sweep' = sweep
<1>0. \A pc \in {"off", "probe", "terminate", "terminated", "wake", "provision", "up",
                 "ready", "load", "extract", "recover", "answer"} : pc \in RestorePc
  BY DEF RestorePc
<1> USE DEF RestoreGoes, Elsewhere
<1>1. CASE RestoreStarts(r)
  BY <1>1, EntryType, RestoreToEffect DEF RestoreStarts
<1>2. CASE RestoreProbes(r)
  BY <1>0, <1>2, RestoreToEffect, LoadedEffect DEF RestoreProbes
<1>3. CASE RestoreTerminates(r) \/ RestoreTerminated(r)
  BY <1>0, <1>3, RestoreToEffect DEF RestoreTerminates, RestoreTerminated
<1>4. CASE RestoreWakes(r) \/ RestoreProvisions(r)
  BY <1>0, <1>4, RestoreToEffect DEF RestoreWakes, RestoreProvisions
<1>5. CASE RestoreUp(r) \/ RestoreSkipsLoad(r)
  BY <1>0, <1>5, RestoreToEffect DEF RestoreUp, RestoreSkipsLoad
<1>6. CASE RestoreFinds(r)
  BY <1>6, LoadedEffect DEF RestoreFinds, Loading
<1>7. CASE RestoreMisses(r)
  BY <1>7, MissEffect DEF RestoreMisses, Loading
<1>8. CASE RestoreExtracts(r)
  BY <1>0, <1>8, RestoreToEffect, LoadedEffect DEF RestoreExtracts
<1>9. CASE RestoreFails(r)
  <2>1. restore[r].pc # "off"
    BY <1>9 DEF RestoreFails
  <2> QED
    BY <1>0, <1>9, <2>1, RestoreToEffect DEF RestoreFails
<1>10. CASE RestoreRecovers(r) \/ RestoreAnswers(r)
  BY <1>10, RestoreDoneEffect DEF RestoreRecovers, RestoreAnswers
<1>11. CASE RestoreKilled(r)
  BY <1>11, RestoreDoneEffect, FaultEffect DEF RestoreKilled, Shown
<1> QED
  BY <1>1, <1>2, <1>3, <1>4, <1>5, <1>6, <1>7, <1>8, <1>9, <1>10, <1>11
     DEF RestoreMove, RestoreStep

\* What restores do to the row.
LEMMA RestoreRows ==
    ASSUME TypeOK, NEW r \in Restore, RestoreMove(r)
    PROVE  \/ row' = row
           \/ RestoreTerminated(r) /\ row'.status = "TERMINATED"
           \/ RestoreWakes(r) /\ row'.status = "PROVISIONING"
           \/ RestoreUp(r) /\ row'.status = "RUNNING" /\ ~row'.idle
           \/ RestoreRecovers(r) /\ row.status = "PROVISIONING" /\ row'.status = "SLEEPING"
           \/ RestoreAnswers(r) /\ row'.status = row.status /\ ~row'.idle
<1>1. CASE RestoreTerminated(r) \/ RestoreWakes(r)
  BY <1>1, StatusEffect DEF RestoreTerminated, RestoreWakes, Status
<1>2. CASE RestoreUp(r)
  BY <1>2, RunningEffect DEF RestoreUp
<1>3. CASE RestoreRecovers(r)
  <2>1. row' = row \/ (row.status = "PROVISIONING" /\ SetStatus("SLEEPING"))
    BY <1>3 DEF RestoreRecovers, Rollback, SetStatus
  <2> QED
    BY <1>3, <2>1, StatusEffect DEF Status
<1>4. CASE RestoreAnswers(r)
  <2>1. row' = [row EXCEPT !.idle = FALSE] /\ row \in [status : Status, idle : BOOLEAN]
    BY <1>4 DEF RestoreAnswers, TypeOK
  <2>2. row'.status = row.status /\ ~row'.idle
    BY <2>1
  <2> QED
    BY <1>4, <2>2
<1>5. CASE RestoreStarts(r) \/ RestoreProbes(r) \/ RestoreTerminates(r) \/ RestoreProvisions(r)
           \/ RestoreSkipsLoad(r) \/ RestoreFinds(r) \/ RestoreMisses(r) \/ RestoreExtracts(r)
           \/ RestoreFails(r) \/ RestoreKilled(r)
  BY <1>5 DEF RestoreStarts, RestoreProbes, RestoreTerminates, RestoreProvisions,
     RestoreSkipsLoad, RestoreFinds, RestoreMisses, RestoreExtracts, RestoreFails, RestoreKilled
<1> QED
  BY <1>1, <1>2, <1>3, <1>4, <1>5 DEF RestoreMove, RestoreStep

\* What everybody else does to it, and to the lock.
LEMMA OtherRows ==
    ASSUME TypeOK, SweepMove \/ UserMove \/ WorldStep \/ \E c \in Turn : TurnMove(c)
    PROVE  /\ restore' = restore
           /\ lock' = lock \/ LockExpires
           /\ \/ row' = row
              \/ SweepSleeps /\ row'.status = "SLEEPING"
              \/ /\ \E c \in Turn : TurnCommits(c)
                 /\ row'.status = "RUNNING" /\ ~row'.idle
              \/ GoesIdle /\ row'.status = row.status
<1> USE DEF request, snapshots
<1>1. CASE SweepSleeps
  BY <1>1, StatusEffect DEF SweepSleeps, Status
<1>2. CASE SweepMove /\ ~SweepSleeps
  BY <1>2 DEF SweepMove, SweepStarts, Sweep, SweepKilled, SweepLists, KeepArchives, KeepPrunes,
     KeepSkipsPrune, SweepCommits, SweepFindsNothing, SweepFails, SweepProbes, SweepReaps, SweepRaises
<1>3. CASE UserMove
  BY <1>3 DEF UserMove, User, UserKilled, UserStarts, KeepArchives, KeepPrunes, KeepSkipsPrune,
     UserCommits, UserFails
<1>4. ASSUME NEW c \in Turn, TurnCommits(c)
      PROVE  UNCHANGED <<lock, restore>> /\ row'.status = "RUNNING" /\ ~row'.idle
  BY <1>4, RunningEffect DEF TurnCommits
<1>5. ASSUME NEW c \in Turn, TurnMove(c), ~TurnCommits(c)
      PROVE  UNCHANGED <<lock, restore, row>>
  BY <1>5 DEF TurnMove, TurnStarts, TurnWorks, TurnStep, TurnKilled, TurnPolls, TurnChecks,
     TurnTerminates, TurnTerminated, TurnProvisions, TurnFails, TurnEnds
<1>6. CASE GoesIdle
  <2>1. row' = [row EXCEPT !.idle = TRUE] /\ row \in [status : Status, idle : BOOLEAN]
    BY <1>6 DEF GoesIdle, TypeOK
  <2>2. row'.status = row.status
    BY <2>1
  <2> QED
    BY <1>6, <2>2 DEF GoesIdle
<1>7. CASE PodDies \/ PodSickens \/ PodRecovers \/ LockExpires
  BY <1>7 DEF PodDies, PodSickens, PodRecovers, LockExpires
<1> QED
  BY <1>1, <1>2, <1>3, <1>4, <1>5, <1>6, <1>7 DEF WorldStep

LEMMA LockStaysHeld ==
    ASSUME TypeOK, KeepsHaveIds, LockHeld, Next
    PROVE  LockHeld'
<1> SUFFICES ASSUME ~Shown({"slow_restore", "killed"})', NEW q \in Restore, restore'[q].pc # "off"
             PROVE  lock' = q
  BY DEF LockHeld
<1>0. \A p \in Restore : restore[p].pc # "off" => lock = p
  BY TypesKept DEF LockHeld, Shown
<1>1. ASSUME NEW r \in Restore, RestoreMove(r)
      PROVE  lock' = q
  <2>1. CASE RestoreStarts(r)
    <3>1. lock = Nobody /\ lock' = r
      BY <2>1 DEF RestoreStarts
    <3>2. q # r => restore'[q] = restore[q]
      BY <1>1, RestoreMoves DEF RestoreGoes
    <3> QED
      BY <1>0, <3>1, <3>2, SandboxAssumption
  <2>2. CASE RestoreRecovers(r) \/ RestoreAnswers(r)
    <3>1. q # r /\ restore'[q] = restore[q] /\ restore[r].pc # "off"
      BY <2>2, RestoreDoneEffect DEF RestoreRecovers, RestoreAnswers
    <3> QED
      BY <1>0, <3>1
  <2>3. CASE ~RestoreStarts(r) /\ ~RestoreRecovers(r) /\ ~RestoreAnswers(r)
    <3>1. lock' = lock
      BY <1>1, <2>3 DEF RestoreMove, RestoreStep, RestoreProbes, RestoreTerminates,
         RestoreTerminated, RestoreWakes, RestoreProvisions, RestoreUp, RestoreSkipsLoad,
         RestoreFinds, RestoreMisses, RestoreExtracts, RestoreFails, RestoreKilled
    <3>2. restore[r].pc # "off"
      BY <1>1, <2>3, RestoreMoves DEF RestoreGoes
    <3> QED
      BY <1>0, <1>1, <3>1, <3>2, RestoreMoves DEF RestoreGoes
  <2> QED
    BY <2>1, <2>2, <2>3
<1>2. CASE LockExpires
  <2>1. lock # Nobody /\ restore' = restore /\ Unless(restore[lock].pc = "off", "slow_restore")
    BY <1>2 DEF LockExpires
  <2>2. "slow_restore" \notin faults'.hazards
    BY DEF Shown
  <2>3. (restore[lock].pc = "off") \in BOOLEAN
    OBVIOUS
  <2>4. restore[lock].pc = "off"
    BY <2>1, <2>2, <2>3, UnlessEffect
  <2> QED
    BY <1>0, <2>1, <2>4
<1>3. CASE (SweepMove \/ UserMove \/ WorldStep \/ \E c \in Turn : TurnMove(c)) /\ ~LockExpires
  BY <1>0, <1>3, OtherRows
<1> QED
  BY <1>1, <1>2, <1>3, Moves DEF WorldStep

LEMMA ProvisioningStays ==
    ASSUME TypeOK, KeepsHaveIds, ProvisioningOwned, Next
    PROVE  ProvisioningOwned'
<1> SUFFICES ASSUME ~Shown({"killed"})', row'.status = "PROVISIONING"
             PROVE  \E q \in Restore : restore'[q].pc \in {"provision", "up", "recover"}
  BY DEF ProvisioningOwned
<1>0. row.status = "PROVISIONING" => \E q \in Restore : restore[q].pc \in {"provision", "up", "recover"}
  BY TypesKept DEF ProvisioningOwned, Shown
<1>1. ASSUME NEW r \in Restore, RestoreMove(r)
      PROVE  \E q \in Restore : restore'[q].pc \in {"provision", "up", "recover"}
  <2>1. CASE RestoreWakes(r)
    BY <2>1, RestoreToEffect DEF RestoreWakes, RestorePc
  <2>2. CASE ~RestoreWakes(r)
    <3>1. row.status = "PROVISIONING" /\ ~RestoreUp(r)
      BY <1>1, <2>2, RestoreRows, RunningEffect DEF RestoreUp
    <3>2. ~RestoreRecovers(r)
      <4>1. ASSUME RestoreRecovers(r)
            PROVE  FALSE
        <5>1. row' = [row EXCEPT !.status = "SLEEPING"]
          BY <3>1, <4>1 DEF RestoreRecovers, Rollback
        <5> QED
          BY <5>1, StatusEffect DEF SetStatus, Status
      <4> QED
        BY <4>1
    <3>3. restore[r].pc \in {"provision", "up", "recover"}
            => restore'[r].pc \in {"provision", "up", "recover"}
      BY <1>1, <2>2, <3>1, <3>2, RestoreMoves DEF RestoreGoes, RestoreStarts, RestoreAnswers
    <3> QED
      BY <1>0, <1>1, <3>1, <3>3, RestoreMoves DEF RestoreGoes
  <2> QED
    BY <2>1, <2>2
<1>2. CASE SweepMove \/ UserMove \/ WorldStep \/ \E c \in Turn : TurnMove(c)
  BY <1>0, <1>2, OtherRows
<1> QED
  BY <1>1, <1>2, Moves

LEMMA ReadyStaysRunning ==
    ASSUME TypeOK, KeepsHaveIds, LockHeld, ReadyRuns, Next
    PROVE  ReadyRuns'
<1> SUFFICES ASSUME ~Shown({"woken_midsweep", "slow_restore", "killed"})', NEW q \in Restore,
                    restore'[q].pc = "ready"
             PROVE  row'.status = "RUNNING" /\ ~row'.idle /\ ~sweep'.idle
  BY DEF ReadyRuns
<1>0. /\ \A p \in Restore : restore[p].pc = "ready" => row.status = "RUNNING" /\ ~row.idle /\ ~sweep.idle
      /\ \A p \in Restore : restore[p].pc # "off" => lock = p
  BY TypesKept DEF LockHeld, ReadyRuns, Shown
<1>1. ASSUME NEW r \in Restore, RestoreMove(r)
      PROVE  row'.status = "RUNNING" /\ ~row'.idle /\ ~sweep'.idle
  <2>1. q = r
    <3>1. restore[r].pc # "off" \/ lock = Nobody
      BY <1>1, RestoreMoves DEF RestoreGoes, RestoreStarts
    <3>2. q # r => restore[q].pc = "ready"
      BY <1>1, RestoreMoves DEF RestoreGoes
    <3> QED
      BY <1>0, <3>1, <3>2, SandboxAssumption
  <2>2. RestoreUp(r)
    BY <1>1, <2>1, RestoreMoves DEF RestoreGoes, Entry
  <2>3. row'.status = "RUNNING" /\ ~row'.idle /\ (sweep.idle => "woken_midsweep" \in faults'.hazards)
    BY <2>2, RunningEffect DEF RestoreUp
  <2> QED
    BY <1>1, <2>3, RestoreMoves DEF Shown
<1>2. CASE SweepMove \/ UserMove \/ WorldStep \/ \E c \in Turn : TurnMove(c)
  <2>1. restore' = restore /\ row.status = "RUNNING" /\ ~row.idle /\ ~sweep.idle
    BY <1>0, <1>2, OtherRows
  <2>2. ~SweepSleeps
    BY <2>1 DEF SweepSleeps, KeepsHaveIds
  <2>3. ~GoesIdle
    BY <2>1 DEF GoesIdle
  <2>4. row'.status = "RUNNING" /\ ~row'.idle
    BY <1>2, <2>1, <2>2, <2>3, OtherRows
  <2>5. ~sweep'.idle
    <3>1. CASE SweepMove
      BY <2>1, <3>1, SweepMoves DEF SweepGoes
    <3>2. CASE UserMove
      BY <2>1, <3>2, UserMoves
    <3> QED
      BY <1>2, <2>1, <3>1, <3>2, Bystanders
  <2> QED
    BY <2>4, <2>5
<1> QED
  BY <1>1, <1>2, Moves

LEMMA AnswersStayHonest ==
    ASSUME TypeOK, KeepsHaveIds, LockHeld, ProvisioningOwned, ReadyRuns, AnswersHonestly, Next
    PROVE  AnswersHonestly'
<1> SUFFICES ASSUME ~Shown({"woken_midsweep", "slow_restore", "killed"})', NEW q \in Restore,
                    restore'[q].pc = "answer"
             PROVE  restore'[q].seen
  BY DEF AnswersHonestly
<1>0. /\ \A p \in Restore : restore[p].pc = "answer" => restore[p].seen
      /\ \A p \in Restore : restore[p].pc = "ready" => row.status = "RUNNING"
      /\ \A p \in Restore : restore[p].pc # "off" => lock = p
      /\ row.status = "PROVISIONING"
            => \E p \in Restore : restore[p].pc \in {"provision", "up", "recover"}
  BY TypesKept DEF LockHeld, ReadyRuns, AnswersHonestly, ProvisioningOwned, Shown
<1>1. ASSUME NEW r \in Restore, RestoreMove(r)
      PROVE  restore'[q].seen
  <2>1. CASE q # r
    BY <1>0, <1>1, <2>1, RestoreMoves DEF RestoreGoes
  <2>2. CASE q = r
    <3>1. ~(RestoreStarts(r) /\ Entry = "answer")
      <4>1. Entry = "answer" => row.status = "PROVISIONING"
        BY DEF Entry, TypeOK, Status
      <4>2. row.status = "PROVISIONING" => lock # Nobody
        BY <1>0, SandboxAssumption
      <4> QED
        BY <4>1, <4>2 DEF RestoreStarts
    <3>2. ~RestoreSkipsLoad(r)
      BY <1>0 DEF RestoreSkipsLoad
    <3> QED
      BY <1>1, <2>2, <3>1, <3>2, RestoreMoves DEF RestoreGoes
  <2> QED
    BY <2>1, <2>2
<1>2. CASE SweepMove \/ UserMove \/ WorldStep \/ \E c \in Turn : TurnMove(c)
  BY <1>0, <1>2, OtherRows
<1> QED
  BY <1>1, <1>2, Moves

-----------------------------------------------------------------------------
(* The pod                                                                   *)

LEMMA TurnMoves ==
    ASSUME TypeOK, NEW c \in Turn, TurnMove(c)
    PROVE  /\ \A d \in Turn \ {c} : turn'[d] = turn[d]
           /\ UNCHANGED <<restore, sweep>>
           /\ pod' = pod \/ pod' = "none" \/ TurnProvisions(c)
           /\ row' = row \/ TurnCommits(c)
           /\ turn[c] = "provision" => \/ TurnProvisions(c) \/ TurnFails(c) \/ Shown({"killed"})'
           /\ turn[c] = "commit" => TurnCommits(c) \/ Shown({"killed"})'
<1>0. \A pc \in {"off", "poll", "check", "terminate", "terminated", "provision", "commit", "work"} :
        pc \in TurnPc
  BY DEF TurnPc
<1> USE DEF snapshots, request
<1>1. CASE TurnStarts(c) \/ TurnPolls(c) \/ TurnChecks(c)
  <2>1. ByStatus \in TurnPc
    BY <1>0 DEF ByStatus
  <2> QED
    BY <1>0, <1>1, <2>1, TurnToEffect DEF TurnStarts, TurnPolls, TurnChecks
<1>2. CASE TurnTerminates(c) \/ TurnTerminated(c) \/ TurnEnds(c)
  BY <1>0, <1>2, TurnToEffect, PodEffect DEF TurnTerminates, TurnTerminated, TurnEnds
<1>3. CASE TurnProvisions(c) \/ TurnFails(c) \/ TurnCommits(c)
  BY <1>0, <1>3, TurnToEffect DEF TurnProvisions, TurnFails, TurnCommits
<1>4. CASE TurnWorks(c)
  BY <1>4 DEF TurnWorks
<1>5. CASE TurnKilled(c)
  BY <1>0, <1>5, TurnToEffect, FaultEffect DEF TurnKilled, Shown
<1> QED
  BY <1>1, <1>2, <1>3, <1>4, <1>5 DEF TurnMove, TurnStep

\* Whoever gives up on a provision has an error to show for it.
LEMMA ProvisionErrors ==
    ASSUME TypeOK, KeepsHaveIds, PodOwned, Next,
           NotProvisioned \/ Fault("raises")
    PROVE  Shown({"sick", "raises", "provision_fails"})'
<1>1. CASE Fault("raises")
  BY <1>1, FaultEffect DEF Shown
<1>2. CASE NotProvisioned /\ pod = "sick"
  BY <1>2, TypesKept DEF PodOwned, Shown
<1>3. CASE NotProvisioned /\ pod # "sick"
  <2>1. (pod = "sick") \in BOOLEAN
    OBVIOUS
  <2> QED
    BY <1>3, <2>1, UnlessEffect DEF NotProvisioned, Shown
<1> QED
  BY <1>1, <1>2, <1>3

LEMMA RestorePods ==
    ASSUME TypeOK, NEW r \in Restore, RestoreMove(r)
    PROVE  pod' = pod \/ pod' = "none" \/ RestoreProvisions(r)
BY PodEffect DEF RestoreMove, RestoreStarts, RestoreStep, RestoreKilled, RestoreProbes,
   RestoreTerminates, RestoreTerminated, RestoreWakes, RestoreUp, RestoreSkipsLoad,
   RestoreFinds, RestoreMisses, RestoreExtracts, RestoreFails, RestoreRecovers, RestoreAnswers

LEMMA SweepPods ==
    ASSUME TypeOK, SweepMove \/ UserMove
    PROVE  /\ turn' = turn
           /\ pod' = pod \/ pod' = "none"
           /\ UserMove => sweep' = sweep
           /\ sweep'.pc = "sleep" => sweep.pc = "sleep" \/ pod' = "none"
<1> USE DEF request, snapshots
<1>1. CASE SweepReaps
  BY <1>1, PodEffect, UserMoves DEF SweepReaps
<1>2. CASE SweepMove /\ ~SweepReaps
  <2>1. turn' = turn /\ pod' = pod
    BY <1>2 DEF SweepMove, SweepStarts, Sweep, SweepKilled, SweepLists, KeepArchives, KeepPrunes,
       KeepSkipsPrune, SweepCommits, SweepFindsNothing, SweepFails, SweepProbes, SweepSleeps, SweepRaises
  <2>2. sweep'.pc # "sleep" \/ sweep' = sweep
    BY <1>2, SweepToEffect, SweepOffEffect
       DEF SweepMove, SweepStarts, Sweep, SweepKilled, SweepLists, Listed, KeepArchives, KeepPrunes,
           KeepSkipsPrune, SweepCommits, SweepFindsNothing, SweepFails, SweepKept, AfterFailure,
           SweepProbes, SweepSleeps, SweepRaises, SweepPc
  <2> QED
    BY <2>1, <2>2, UserMoves
<1>3. CASE UserMove
  BY <1>3, UserMoves DEF UserMove, User, UserKilled, UserStarts, KeepArchives, KeepPrunes,
     KeepSkipsPrune, UserCommits, UserFails
<1> QED
  BY <1>1, <1>2, <1>3

LEMMA PodStaysOwned ==
    ASSUME TypeOK, KeepsHaveIds, PodOwned, Next
    PROVE  PodOwned'
<1> DEFINE open == Shown({"woken_midsweep", "sick", "raises", "provision_fails", "killed"})'
<1>1. pod' = "sick" => Shown({"sick"})'
  <2>1. pod = "sick" => Shown({"sick"})'
    BY TypesKept DEF PodOwned, Shown
  <2>2. CASE pod' = pod \/ pod' = "none"
    BY <2>1, <2>2
  <2>3. ASSUME NEW r \in Restore, RestoreProvisions(r)
        PROVE  pod' = "well"
    BY <2>3, PodEffect DEF RestoreProvisions
  <2>4. ASSUME NEW c \in Turn, TurnProvisions(c)
        PROVE  pod' = "well"
    BY <2>4, PodEffect DEF TurnProvisions
  <2>5. CASE WorldStep
    <3>1. PodSickens => Shown({"sick"})'
      BY FaultEffect DEF PodSickens, Shown
    <3> QED
      BY <2>1, <2>5, <3>1, PodEffect DEF WorldStep, GoesIdle, PodDies, PodRecovers, LockExpires
  <2> QED
    BY <2>2, <2>3, <2>4, <2>5, Moves, RestorePods, TurnMoves, SweepPods
<1>2. ASSUME ~open, pod' # "none"
      PROVE  Responsible' \/ (row'.status = "RUNNING" /\ sweep'.pc # "sleep")
  <2>0. pod = "none" \/ Responsible \/ (row.status = "RUNNING" /\ sweep.pc # "sleep")
    BY <1>2, TypesKept DEF PodOwned, Shown
  <2>00. sweep.pc = "sleep" => sweep.idle
    BY DEF KeepsHaveIds
  <2>1. ASSUME SetRunning, sweep' = sweep
        PROVE  row'.status = "RUNNING" /\ sweep'.pc # "sleep"
    BY <1>2, <2>1, <2>00, RunningEffect DEF Shown
  <2>2. ~NotProvisioned /\ ~Fault("raises") /\ ~Shown({"killed"})'
    BY <1>2, ProvisionErrors DEF Shown
  <2>3. ASSUME NEW r \in Restore, RestoreMove(r)
        PROVE  Responsible' \/ (row'.status = "RUNNING" /\ sweep'.pc # "sleep")
    <3>0. /\ turn' = turn /\ sweep' = sweep
          /\ \A q \in Restore \ {r} : restore'[q] = restore[q]
      BY <2>3, RestoreMoves DEF RestoreGoes
    <3>1. CASE RestoreUp(r)
      BY <2>1, <3>0, <3>1 DEF RestoreUp
    <3>2. CASE restore'[r].pc \in {"wake", "provision", "up"}
      BY <3>2 DEF Responsible
    <3>3. CASE ~RestoreUp(r) /\ restore'[r].pc \notin {"wake", "provision", "up"}
      <4>1. restore[r].pc \notin {"wake", "provision", "up"}
        <5>1. RestoreFails(r) => restore[r].pc \notin {"wake", "provision", "up"}
          BY <2>2 DEF RestoreFails
        <5>2. restore[r].pc # "recover" => ~RestoreRecovers(r)
          BY DEF RestoreRecovers
        <5> QED
          BY <2>2, <2>3, <3>3, <5>1, <5>2, RestoreMoves DEF RestoreGoes, RestoreRecovers, RestoreAnswers
      <4>2. ~RestoreProvisions(r) /\ ~RestoreWakes(r)
        BY <4>1 DEF RestoreProvisions, RestoreWakes
      <4>3. ~RestoreTerminated(r)
        BY <3>3, RestoreToEffect DEF RestoreTerminated, RestorePc
      <4>4. pod' = pod
        BY <1>2, <2>3, <4>2, RestorePods
      <4>5. Responsible => Responsible'
        BY <3>0, <4>1 DEF Responsible
      <4>6. row.status = "RUNNING" => row'.status = "RUNNING"
        BY <2>3, <3>3, <4>2, <4>3, RestoreRows
      <4> QED
        BY <1>2, <2>0, <3>0, <4>4, <4>5, <4>6
    <3> QED
      BY <3>1, <3>2, <3>3
  <2>4. ASSUME NEW c \in Turn, TurnMove(c)
        PROVE  Responsible' \/ (row'.status = "RUNNING" /\ sweep'.pc # "sleep")
    <3>0. /\ restore' = restore /\ sweep' = sweep
          /\ \A d \in Turn \ {c} : turn'[d] = turn[d]
      BY <2>4, TurnMoves
    <3>1. CASE TurnCommits(c)
      BY <2>1, <3>0, <3>1 DEF TurnCommits
    <3>2. CASE TurnProvisions(c)
      <4>1. turn'[c] = "commit"
        BY <3>2, TurnToEffect DEF TurnProvisions, TurnPc
      <4> QED
        BY <4>1 DEF Responsible
    <3>3. CASE ~TurnCommits(c) /\ ~TurnProvisions(c)
      <4>1. turn[c] \notin {"provision", "commit"}
        BY <2>2, <2>4, <3>3, TurnMoves DEF TurnFails
      <4>2. pod' = pod /\ row' = row
        BY <1>2, <2>4, <3>3, TurnMoves
      <4>3. Responsible => Responsible'
        BY <3>0, <4>1 DEF Responsible
      <4> QED
        BY <1>2, <2>0, <3>0, <4>2, <4>3
    <3> QED
      BY <3>1, <3>2, <3>3
  <2>5. CASE SweepMove \/ UserMove
    <3>1. restore' = restore /\ turn' = turn /\ pod' = pod
      BY <1>2, <2>5, OtherRows, SweepPods
    <3>2. Responsible => Responsible'
      BY <3>1 DEF Responsible
    <3>3. sweep.pc # "sleep" => sweep'.pc # "sleep" /\ row' = row
      <4>1. sweep.pc # "sleep" => sweep'.pc # "sleep"
        BY <1>2, <2>5, SweepPods
      <4>2. sweep.pc # "sleep" => row' = row
        BY <2>5 DEF SweepMove, UserMove, SweepStarts, Sweep, SweepKilled, SweepLists, KeepArchives,
           KeepPrunes, KeepSkipsPrune, SweepCommits, SweepFindsNothing, SweepFails, SweepProbes,
           SweepReaps, SweepSleeps, SweepRaises, User, UserKilled, UserStarts, UserCommits, UserFails
      <4> QED
        BY <4>1, <4>2
    <3> QED
      BY <1>2, <2>0, <3>1, <3>2, <3>3
  <2>6. CASE WorldStep
    <3>1. restore' = restore /\ turn' = turn /\ sweep' = sweep
      BY <2>6 DEF WorldStep, GoesIdle, PodDies, PodSickens, PodRecovers, LockExpires, request, snapshots
    <3>2. Responsible => Responsible'
      BY <3>1 DEF Responsible
    <3>3. row'.status = row.status
      <4>1. CASE GoesIdle
        <5>1. row' = [row EXCEPT !.idle = TRUE] /\ row \in [status : Status, idle : BOOLEAN]
          BY <4>1 DEF GoesIdle, TypeOK
        <5> QED
          BY <5>1
      <4> QED
        BY <2>6, <4>1 DEF WorldStep, PodDies, PodSickens, PodRecovers, LockExpires
    <3>4. pod' = pod
      <4>1. ~PodSickens
        BY <1>2, FaultEffect DEF PodSickens, Shown
      <4>2. ~PodRecovers
        BY <1>2, TypesKept DEF PodRecovers, PodOwned, Shown
      <4>3. ~PodDies
        BY <1>2, PodEffect DEF PodDies
      <4> QED
        BY <2>6, <4>1, <4>2, <4>3 DEF WorldStep, GoesIdle, LockExpires
    <3> QED
      BY <1>2, <2>0, <3>1, <3>2, <3>3, <3>4
  <2> QED
    BY <2>3, <2>4, <2>5, <2>6, Moves
<1> QED
  BY <1>1, <1>2 DEF PodOwned

-----------------------------------------------------------------------------
(* The invariant                                                             *)

LEMMA IInvInit == Init => IInv
<1> SUFFICES ASSUME Init PROVE IInv
  OBVIOUS
<1>1. NoKeep \in KeepState /\ NoKeep.pc = "off" /\ NoKeep.id = 0 /\ NoKeep.prior = {}
  BY DEF NoKeep, KeepState, KeepPc
<1>2. NoRestore \in RestoreState /\ NoRestore.pc = "off"
  BY DEF NoRestore, RestoreState, RestorePc
<1>3. TypeOK
  BY <1>1, <1>2, NoneType, SandboxAssumption
     DEF Init, TypeOK, Status, Files, SweepPc, TurnPc, HazardKinds
<1>4. KeepsHaveIds /\ IdsFresh /\ ArchivesThere /\ RowsHaveBlobs
  <2>1. \A a \in Snapper : keep[a].pc = "off" /\ keep[a].id = 0 /\ keep[a].prior = {}
    BY <1>1 DEF Init
  <2>2. sweep.pc = "off" /\ rows = {} /\ "sweep" \in Snapper
    BY DEF Init, Snapper
  <2>3. KeepsHaveIds /\ ArchivesThere /\ RowsHaveBlobs
    BY <2>1, <2>2 DEF KeepsHaveIds, InFlight, ArchivesThere, RowsHaveBlobs
  <2>4. IdsFresh
    BY <2>1, <2>2 DEF IdsFresh, InFlight
  <2> QED
    BY <2>3, <2>4
<1>5. LockHeld /\ ProvisioningOwned /\ ReadyRuns /\ AnswersHonestly /\ PodOwned
  <2>1. \A r \in Restore : restore[r].pc = "off"
    BY <1>2 DEF Init
  <2>2. row.status = "RUNNING" /\ sweep.pc = "off" /\ pod = "well"
    BY DEF Init
  <2> QED
    BY <2>1, <2>2 DEF LockHeld, ProvisioningOwned, ReadyRuns, AnswersHonestly, PodOwned
<1> QED
  BY <1>3, <1>4, <1>5 DEF IInv

LEMMA IInvStep == IInv /\ [Next]_vars => IInv'
<1> SUFFICES ASSUME IInv, [Next]_vars PROVE IInv'
  OBVIOUS
<1>1. CASE Next
  BY <1>1, TypesKept, KeepsHaveIdsStay, SnapshotsStay, LockStaysHeld, ProvisioningStays,
     ReadyStaysRunning, AnswersStayHonest, PodStaysOwned DEF IInv
<1>2. CASE UNCHANGED vars
  <2> USE <1>2 DEF IInv, vars, Shown, InFlight
  <2>1. TypeOK' /\ KeepsHaveIds'
    BY DEF TypeOK, KeepsHaveIds
  <2>2. IdsFresh' /\ ArchivesThere' /\ RowsHaveBlobs'
    BY DEF IdsFresh, ArchivesThere, RowsHaveBlobs, Committing
  <2>3. LockHeld' /\ ProvisioningOwned' /\ ReadyRuns' /\ AnswersHonestly'
    BY DEF LockHeld, ProvisioningOwned, ReadyRuns, AnswersHonestly
  <2>4. PodOwned'
    BY DEF PodOwned, Responsible
  <2> QED
    BY <2>1, <2>2, <2>3, <2>4
<1> QED
  BY <1>1, <1>2

LEMMA IInvAlways == Spec => []IInv
BY IInvInit, IInvStep, PTL DEF Spec

-----------------------------------------------------------------------------
(* Theorems                                                                  *)

\* Row, pod, workspace, snapshots and the state of everybody who works on them keep
\* their types.
THEOREM TypeCorrect == Spec => []TypeOK
<1>1. IInv => TypeOK
  BY DEF IInv
<1> QED
  BY <1>1, IInvAlways, PTL

\* create_session_snapshot_keep_latest deletes the blobs of the rows it is about to
\* delete, and of no others.
THEOREM SnapshotsIntact == Spec => []RowsHaveBlobs
<1>1. IInv => RowsHaveBlobs
  BY DEF IInv
<1> QED
  BY <1>1, IInvAlways, PTL

\* A restore that has said PROVISIONING takes it back, whoever else writes the row.
THEOREM ProvisioningNotStuck == Spec => []ProvisioningOwned
<1>1. IInv => ProvisioningOwned
  BY DEF IInv
<1> QED
  BY <1>1, IInvAlways, PTL

\* session_loaded_in_sandbox=True is true of every branch of restore_session.
THEOREM AnswersHonest == Spec => []AnswersHonestly
<1>1. IInv => AnswersHonestly
  BY DEF IInv
<1> QED
  BY <1>1, IInvAlways, PTL

\* A pod outside a RUNNING row is about to be accounted for.
THEOREM PodsAccounted == Spec => []PodAccounted
<1>1. IInv => PodAccounted
  BY DEF IInv, PodOwned, Responsible, PodAccounted
<1> QED
  BY <1>1, IInvAlways, PTL

-----------------------------------------------------------------------------
(* No work is lost                                                           *)

\* The hazards that can lose what was done since the last snapshot whether or not
\* the agent works while the sweep looks away.
Losses == HazardKinds \ (Lossless \cup {"reaped_midturn"})
Calm == ~Shown(Losses)
Archived(a) == keep[a].pc \in {"prune", "commit"}

\* The sweep and the requests take turns, and who does not snapshot holds no created_at.
KeepersApart ==
    /\ sweep.pc = "off" \/ keep["user"].pc = "off"
    /\ keep["user"].pc = "off" => keep["user"].id = 0
    /\ sweep.pc \in {"off", "probe", "sleep"} => keep["sweep"].id = 0

RowsOlder == \A a \in Snapper : keep[a].id # 0 => \A s \in rows : s < keep[a].id

\* A pod comes up empty; a restore only terminates, loads and drops what is not there,
\* and loads what is the latest snapshot still.
WorkspaceGone ==
    /\ pod = "none" => ~ws.there
    /\ \A r \in Restore : restore[r].pc \in {"terminate", "extract", "recover"} => ~ws.there
RestoresLatest ==
    \A r \in Restore : restore[r].pc = "extract" =>
        IF rows = {} THEN restore[r].snapshot = 0 ELSE Latest(restore[r].snapshot)

\* The workspace has grown from the latest snapshot, and an archive lies between.
WorkspaceCovers == ws.there => Safe \subseteq ws.files
ArchivesCover ==
    \A a \in Snapper : Archived(a) =>
        /\ ws.there
        /\ Safe \subseteq blob[keep[a].id].files
        /\ blob[keep[a].id].files \subseteq ws.files

Covered ==
    /\ KeepersApart /\ RowsOlder
    /\ WorkspaceGone /\ RestoresLatest
    /\ WorkspaceCovers /\ ArchivesCover

\* What the sweep is about to reap, and what it is about to commit before it does, is
\* all the work there is.
WorkSaved ==
    /\ IF ws.there THEN done \subseteq ws.files ELSE done \subseteq Safe
    /\ sweep.pc = "reap" => done \subseteq Safe
    /\ sweep.idle /\ Archived("sweep") => done \subseteq blob[keep["sweep"].id].files

WInv ==
    /\ IInv
    /\ Calm => Covered
    /\ Calm /\ ~Shown({"reaped_midturn"}) => WorkSaved

LEMMA LossesAre ==
    /\ Losses = {"pod_lost", "sick", "exec_error", "raises", "provision_fails", "load_fails",
                 "killed", "slow_restore", "overlapping", "unrestored_turn", "late_terminate"}
    /\ Losses \subseteq HazardKinds
BY DEF Losses, HazardKinds, Lossless

\* What does not show did not happen.
LEMMA CalmNow ==
    ASSUME TypeOK, KeepsHaveIds, Next, Calm'
    PROVE  /\ Calm
           /\ \A kind \in Losses : kind \notin faults'.hazards /\ ~Fault(kind)
           /\ \A kind \in Losses, condition \in BOOLEAN : Unless(condition, kind) => condition
<1>1. \A kind \in Losses : kind \notin faults'.hazards
  BY DEF Calm, Shown
<1>2. Calm
  BY <1>1, TypesKept DEF Calm, Shown
<1>3. ASSUME NEW kind \in Losses, Fault(kind)
      PROVE  FALSE
  BY <1>1, <1>3, FaultEffect
<1>4. ASSUME NEW kind \in Losses, NEW condition \in BOOLEAN, Unless(condition, kind)
      PROVE  condition
  BY <1>1, <1>4, UnlessEffect
<1> QED
  BY <1>1, <1>2, <1>3, <1>4

LEMMA CalmNames ==
    ASSUME TypeOK, KeepsHaveIds, Next, Calm'
    PROVE  /\ ~Shown({"killed"})' /\ ~Shown({"slow_restore", "killed"})' /\ ~Shown({"sick"})'
           /\ ~Fault("pod_lost") /\ ~Fault("sick") /\ ~Fault("exec_error") /\ ~Fault("raises")
           /\ ~Fault("provision_fails") /\ ~Fault("load_fails") /\ ~Fault("killed")
           /\ ~Fault("unrestored_turn")
BY CalmNow, LossesAre DEF Shown

LEMMA SafeMembers ==
    /\ \A w : w \in Safe <=>
          \/ \E s \in rows : (\A t \in rows : t <= s) /\ w \in blob[s].files
          \/ \E a \in Snapper : keep[a].pc = "commit" /\ w \in blob[keep[a].id].files
    /\ \A w : w \in Safe' <=>
          \/ \E s \in rows' : (\A t \in rows' : t <= s) /\ w \in blob'[s].files
          \/ \E a \in Snapper : keep'[a].pc = "commit" /\ w \in blob'[keep'[a].id].files
BY DEF Safe, Latest, Committing

LEMMA SafeSame ==
    ASSUME UNCHANGED <<keep, rows, blob>>
    PROVE  /\ Safe' = Safe
           /\ RowsOlder => RowsOlder'
           /\ \A s : Latest(s)' = Latest(s)
BY DEF Safe, Latest, Committing, RowsOlder

\* What one transaction does to what a restore would load, while the other is off.
LEMMA SnapshotSafe ==
    ASSUME TypeOK, KeepsHaveIds, IdsFresh, RowsOlder, WorkspaceCovers, ArchivesCover,
           ~Shown({"killed"})', NEW a \in Snapper, SnapshotMove(a),
           \A b \in Snapper \ {a} : keep[b].pc = "off" /\ keep[b].id = 0
    PROVE  /\ RowsOlder'
           /\ Safe \subseteq Safe'
           /\ ws.there => Safe' \subseteq ws.files
           /\ rows' = rows \/ keep[a].pc = "commit"
           /\ keep'[a].pc \in {"prune", "commit"} =>
                /\ ws.there
                /\ Safe' \subseteq blob'[keep'[a].id].files
                /\ blob'[keep'[a].id].files \subseteq ws.files
                /\ blob'[keep'[a].id] = IF Archived(a) THEN blob[keep[a].id] ELSE ws
<1>0. /\ \A b \in Snapper : b # a => keep'[b] = keep[b] /\ keep[b].pc = "off" /\ keep[b].id = 0
      /\ rows \subseteq Id
      /\ keep[a].pc # "off" => keep[a].id \in Id /\ keep[a].id # 0 /\ keep[a].id \notin rows
  BY DEF TypeOK, KeepState, KeepsHaveIds, SnapshotMove, IdsFresh, InFlight
<1>1. CASE Begins(a)
  <2>1. rows' = rows /\ blob' = blob /\ \A b \in Snapper : keep'[b].pc = "commit" <=> keep[b].pc = "commit"
    BY <1>0, <1>1 DEF Begins
  <2>2. \A b \in Snapper : keep[b].pc # "commit"
    BY <1>0, <1>1 DEF Begins
  <2>3. Safe' = Safe
    BY <2>1, <2>2, SafeMembers
  <2>4. RowsOlder'
    BY <1>0, <1>1, <2>1 DEF RowsOlder, Begins, NewId, Held
  <2> QED
    BY <1>1, <2>1, <2>3, <2>4 DEF Begins, WorkspaceCovers
<1>2. CASE KeepArchives(a)
  <2>1. /\ rows' = rows /\ keep[a].pc = "archive" /\ keep'[a].pc = "prune" /\ keep'[a].id = keep[a].id
        /\ \A s \in rows : blob'[s] = blob[s]
    BY <1>0, <1>2, ArchivesEffect DEF KeepArchives
  <2>2. blob'[keep[a].id] = ws /\ ws.there
    BY <1>0, <1>2, <2>1 DEF KeepArchives, Archivable, TypeOK
  <2>3. \A b \in Snapper : keep[b].pc # "commit" /\ keep'[b].pc # "commit"
    BY <1>0, <2>1
  <2>4. Safe' = Safe
    BY <2>1, <2>3, SafeMembers
  <2>5. RowsOlder'
    BY <1>0, <2>1 DEF RowsOlder
  <2> QED
    BY <2>1, <2>2, <2>4, <2>5 DEF WorkspaceCovers, Archived
<1>3. CASE KeepPrunes(a) \/ KeepSkipsPrune(a)
  <2>1. /\ rows' = rows /\ keep[a].pc = "prune" /\ keep'[a].pc = "commit" /\ keep'[a].id = keep[a].id
        /\ \A s \in rows : blob'[s] = blob[s] \/ blob'[s] = None
        /\ blob'[keep[a].id] = blob[keep[a].id]
    <3>1. CASE KeepPrunes(a)
      <4>1. blob' = [s \in Id |-> IF s \in keep[a].prior THEN None ELSE blob[s]]
        BY <3>1 DEF KeepPrunes
      <4>2. keep[a].pc = "prune" /\ rows' = rows /\ keep[a].id \in Id
        BY <1>0, <3>1 DEF KeepPrunes
      <4>3. keep[a].id \notin keep[a].prior
        BY <1>0, <4>2 DEF IdsFresh, InFlight
      <4> QED
        BY <1>0, <3>1, <4>1, <4>2, <4>3, PrunesEffect
    <3>2. CASE KeepSkipsPrune(a)
      BY <3>2, SkipsEffect DEF KeepSkipsPrune
    <3> QED
      BY <1>3, <3>1, <3>2
  <2>2. /\ ws.there /\ Safe \subseteq blob[keep[a].id].files
        /\ blob[keep[a].id].files \subseteq ws.files
    BY <2>1 DEF ArchivesCover, Archived
  <2>3. blob[keep[a].id].files \subseteq Safe'
    BY <2>1, SafeMembers
  <2>4. ASSUME NEW w \in Safe'
        PROVE  w \in blob[keep[a].id].files
    <3>1. CASE \E b \in Snapper : keep'[b].pc = "commit" /\ w \in blob'[keep'[b].id].files
      BY <1>0, <2>1, <3>1
    <3>2. ASSUME NEW s \in rows, \A t \in rows : t <= s, w \in blob'[s].files
          PROVE  w \in blob[keep[a].id].files
      <4>1. None.files = {}
        BY DEF None
      <4>2. w \in blob[s].files
        BY <2>1, <3>2, <4>1
      <4> QED
        BY <2>2, <3>2, <4>2, SafeMembers
    <3> QED
      BY <2>1, <2>4, <3>1, <3>2, SafeMembers
  <2>5. RowsOlder'
    BY <1>0, <2>1 DEF RowsOlder
  <2> QED
    BY <2>1, <2>2, <2>3, <2>4, <2>5 DEF Archived
<1>4. CASE Steps(a) /\ ~KeepArchives(a) /\ ~KeepPrunes(a) /\ ~KeepSkipsPrune(a)
  <2>1. /\ rows' = rows /\ blob' = blob /\ keep'[a].pc = "archive" /\ keep[a].pc = "off"
        /\ keep'[a].id = keep[a].id
    BY <1>4 DEF Steps
  <2>2. \A b \in Snapper : keep[b].pc # "commit" /\ keep'[b].pc # "commit"
    BY <1>0, <2>1
  <2>3. Safe' = Safe
    BY <2>1, <2>2, SafeMembers
  <2>4. RowsOlder'
    BY <1>0, <2>1 DEF RowsOlder
  <2> QED
    BY <2>1, <2>3, <2>4 DEF WorkspaceCovers
<1>5. CASE Ends(a)
  <2>1. keep'[a].pc = "off" /\ \A b \in Snapper : keep'[b].id = 0 /\ keep'[b].pc # "commit"
    BY <1>0, <1>5 DEF Ends
  <2>2. RowsOlder'
    BY <2>1 DEF RowsOlder
  <2>3. CASE UNCHANGED <<rows, blob>> /\ keep[a].pc # "commit"
    <3>1. \A b \in Snapper : keep[b].pc # "commit"
      BY <1>0, <2>3
    <3>2. Safe' = Safe
      BY <2>1, <2>3, <3>1, SafeMembers
    <3> QED
      BY <2>1, <2>2, <2>3, <3>2 DEF WorkspaceCovers
  <2>4. CASE keep[a].pc = "commit" /\ rows' = Kept(a) /\ UNCHANGED blob
    <3>1. keep[a].id \in rows' /\ rows' \subseteq rows \cup {keep[a].id}
      BY <2>4 DEF Kept
    <3>2. \A t \in rows' : t <= keep[a].id /\ (keep[a].id <= t => t = keep[a].id)
      <4>1. \A t \in rows : t \in Int /\ t < keep[a].id
        BY <1>0, <2>4 DEF RowsOlder, Id
      <4>2. keep[a].id \in Int
        BY <1>0, <2>4 DEF Id
      <4>3. ASSUME NEW t \in rows'
            PROVE  t <= keep[a].id /\ (keep[a].id <= t => t = keep[a].id)
        <5>1. t \in Int /\ (t < keep[a].id \/ t = keep[a].id)
          BY <3>1, <4>1, <4>2, <4>3
        <5> QED
          BY <4>2, <5>1
      <4> QED
        BY <4>3
    <3>3. \A w : w \in Safe' <=> w \in blob[keep[a].id].files
      BY <2>1, <2>4, <3>1, <3>2, SafeMembers
    <3>4. /\ ws.there /\ Safe \subseteq blob[keep[a].id].files
          /\ blob[keep[a].id].files \subseteq ws.files
      BY <2>4 DEF ArchivesCover, Archived
    <3> QED
      BY <2>1, <2>2, <2>4, <3>3, <3>4
  <2> QED
    BY <1>5, <2>3, <2>4 DEF Ends
<1> QED
  BY <1>1, <1>2, <1>3, <1>4, <1>5 DEF SnapshotMove, Steps

LEMMA UserSafe ==
    ASSUME TypeOK, KeepsHaveIds, Next, KeepersApart, Calm', UserMove
    PROVE  /\ KeepersApart'
           /\ \A b \in Snapper \ {"user"} : keep[b].pc = "off" /\ keep[b].id = 0
           /\ UNCHANGED <<pod, ws, restore, done, sweep>>
<1>0. "user" \in Snapper /\ Snapper \ {"user"} = {"sweep"} /\ {"overlapping", "killed"} \subseteq Losses
  BY LossesAre DEF Snapper
<1>1. UNCHANGED <<pod, ws, restore, done, sweep>> /\ keep'["sweep"] = keep["sweep"]
  <2>1. sweep' = sweep /\ keep'["sweep"] = keep["sweep"]
    BY <1>0, UserMoves DEF SnapshotMove
  <2> QED
    BY <2>1 DEF UserMove, User, UserKilled, UserStarts, KeepArchives, KeepPrunes, KeepSkipsPrune,
       UserCommits, UserFails, request
<1>2. sweep.pc = "off" /\ (keep'["user"].pc = "off" => keep'["user"].id = 0)
  <2>1. CASE UserStarts
    <3>1. sweep.pc = "off"
      BY <1>0, <2>1, CalmNow DEF UserStarts
    <3>2. ~SweepStarts
      BY <2>1, <3>1 DEF UserStarts, SweepStarts
    <3>3. keep'["user"].pc = "archive"
      BY <2>1, <3>2, BeginEffect
    <3> QED
      BY <3>1, <3>3
  <2>2. CASE KeepArchives("user") \/ KeepPrunes("user") \/ KeepSkipsPrune("user")
    BY <1>0, <2>2, ArchivesEffect, PrunesEffect, SkipsEffect
       DEF KeepArchives, KeepPrunes, KeepSkipsPrune, KeepersApart
  <2>3. CASE UserCommits \/ UserFails
    BY <1>0, <2>3, KeepDoneEffect DEF UserCommits, UserFails, KeepersApart
  <2>4. ~UserKilled
    BY CalmNames DEF UserKilled
  <2> QED
    BY <2>1, <2>2, <2>3, <2>4 DEF UserMove, User
<1>3. keep["sweep"].pc = "off" /\ keep["sweep"].id = 0
  BY <1>2 DEF KeepersApart, KeepsHaveIds
<1> QED
  BY <1>0, <1>1, <1>2, <1>3 DEF KeepersApart

\* The ways a sweep goes that is neither killed nor fails for good.
LEMMA SweepCalm ==
    ASSUME TypeOK, KeepsHaveIds, Next, Calm', SweepMove
    PROVE  \/ SweepStarts /\ keep["user"].pc = "off"
           \/ SweepLists /\ keep' = [keep EXCEPT !["sweep"].pc = "archive"] /\ SweepTo("keep")
           \/ /\ SweepLists /\ (pod # "well" \/ ~ws.there)
              /\ IF sweep.idle THEN SweepTo("reap") /\ UNCHANGED keep
                               ELSE SweepOff /\ KeepDone("sweep")
           \/ KeepArchives("sweep") \/ KeepPrunes("sweep") \/ KeepSkipsPrune("sweep")
           \/ SweepCommits \/ SweepFindsNothing \/ SweepFails \/ SweepProbes \/ SweepReaps
           \/ SweepSleeps
<1>0. {"overlapping", "killed", "raises", "exec_error"} \subseteq Losses
  BY LossesAre
<1>1. SweepStarts => keep["user"].pc = "off"
  BY <1>0, CalmNow DEF SweepStarts
<1>2. (pod # "well" \/ ~ws.there) \in BOOLEAN
  BY DEF TypeOK, Files
<1>3. Unless(pod # "well" \/ ~ws.there, "exec_error") => pod # "well" \/ ~ws.there
  BY <1>0, <1>2, CalmNow
<1>4. ~SweepKilled /\ ~SweepRaises
  BY CalmNames DEF SweepKilled, SweepRaises
<1> QED
  BY <1>1, <1>3, <1>4 DEF SweepMove, Sweep, SweepLists, Listed

LEMMA SweepApart ==
    ASSUME TypeOK, KeepsHaveIds, Next, KeepersApart, Calm', SweepMove
    PROVE  /\ KeepersApart'
           /\ \A b \in Snapper \ {"sweep"} : keep[b].pc = "off" /\ keep[b].id = 0
           /\ UNCHANGED <<restore, done>>
<1>0. /\ "sweep" \in Snapper /\ Snapper \ {"sweep"} = {"user"} /\ "archive" \in KeepPc
      /\ \A pc \in {"off", "list", "keep", "probe", "reap", "sleep"} : pc \in SweepPc
  BY DEF Snapper, KeepPc, SweepPc
<1> USE DEF request, snapshots
<1>1. UNCHANGED <<restore, done>>
  BY SweepCalm DEF SweepStarts, SweepLists, KeepArchives, KeepPrunes, KeepSkipsPrune, SweepCommits,
     SweepFindsNothing, SweepFails, SweepProbes, SweepReaps, SweepSleeps
<1>2. keep'["user"] = keep["user"]
  BY <1>0, SweepMoves DEF SnapshotMove
<1>3. keep["user"].pc = "off"
  BY SweepCalm DEF SweepStarts, SweepLists, KeepArchives, KeepPrunes, KeepSkipsPrune, SweepCommits,
     SweepFindsNothing, SweepFails, SweepProbes, SweepReaps, SweepSleeps, KeepersApart, KeepsHaveIds
<1>4. sweep'.pc \in {"off", "probe", "sleep"} => keep'["sweep"].id = 0
  <2>1. CASE SweepStarts
    BY <2>1 DEF SweepStarts
  <2>2. CASE SweepLists
    <3>1. SweepTo("keep") \/ SweepTo("reap") \/ KeepDone("sweep")
      BY <2>2 DEF SweepLists, Listed
    <3> QED
      BY <1>0, <3>1, SweepToEffect, KeepDoneEffect
  <2>3. CASE KeepArchives("sweep") \/ KeepPrunes("sweep") \/ KeepSkipsPrune("sweep")
    BY <2>3 DEF KeepArchives, KeepPrunes, KeepSkipsPrune, KeepsHaveIds
  <2>4. CASE SweepCommits \/ SweepFindsNothing \/ SweepFails
    BY <1>0, <2>4, KeepDoneEffect DEF SweepCommits, SweepFindsNothing, SweepFails, SweepKept
  <2>5. CASE SweepProbes \/ SweepSleeps
    BY <2>5 DEF SweepProbes, SweepSleeps, KeepersApart
  <2>6. CASE SweepReaps
    BY <1>0, <2>6, KeepDoneEffect DEF SweepReaps
  <2> QED
    BY <2>1, <2>2, <2>3, <2>4, <2>5, <2>6, SweepCalm
<1> QED
  BY <1>0, <1>1, <1>2, <1>3, <1>4 DEF KeepersApart

\* A pod is well or there is none.
LEMMA NoneSick ==
    ASSUME TypeOK, KeepsHaveIds, PodOwned, Next, Calm'
    PROVE  pod \in {"none", "well"}
<1>1. ~Shown({"sick"})
  BY CalmNow, LossesAre DEF Calm, Shown
<1> QED
  BY <1>1 DEF TypeOK, PodOwned

\* What provisioning, and terminating a pod that is not well, do to the workspace.
LEMMA PodSafe ==
    ASSUME pod = "none" \/ pod = "well", WorkspaceGone
    PROVE  /\ Provision => pod' = "well" /\ (ws' = ws \/ (~ws.there /\ ~ws'.there))
           /\ Terminate => pod' = "none" /\ ~ws'.there
<1>1. None.there = FALSE
  BY DEF None
<1> QED
  BY <1>1 DEF Provision, Terminate, WorkspaceGone

LEMMA OneRestore ==
    ASSUME TypeOK, KeepsHaveIds, LockHeld, Next, Calm', NEW r \in Restore, RestoreMove(r)
    PROVE  \A q \in Restore \ {r} : restore'[q] = restore[q] /\ restore[q].pc = "off"
<1>1. \A p \in Restore : restore[p].pc # "off" => lock = p
  <2>1. ~Shown({"slow_restore", "killed"})
    BY CalmNow, LossesAre DEF Calm, Shown
  <2> QED
    BY <2>1 DEF LockHeld
<1>2. restore[r].pc # "off" \/ lock = Nobody
  BY RestoreMoves DEF RestoreGoes, RestoreStarts
<1> QED
  BY <1>1, <1>2, RestoreMoves, SandboxAssumption DEF RestoreGoes

\* A restore touches the workspace only where there is none, and then loads all that is safe.
LEMMA RestoreSafe ==
    ASSUME IInv, Covered, Next, Calm', NEW r \in Restore, RestoreMove(r)
    PROVE  /\ WorkspaceGone' /\ RestoresLatest'
           /\ ws.there => ws' = ws
           /\ ws'.there => Safe' \subseteq ws'.files
           /\ UNCHANGED <<keep, sweep, rows, blob, done>>
<1>0. TypeOK /\ KeepsHaveIds /\ LockHeld /\ PodOwned /\ WorkspaceGone /\ RestoresLatest
      /\ WorkspaceCovers /\ ArchivesCover
  BY DEF IInv, Covered
<1>1. pod \in {"none", "well"}
  BY <1>0, NoneSick
<1>2. UNCHANGED <<keep, sweep, rows, blob, done>>
  <2>1. done' = done
    BY DEF RestoreMove, RestoreStarts, RestoreStep, RestoreKilled, RestoreProbes,
       RestoreTerminates, RestoreTerminated, RestoreWakes, RestoreProvisions, RestoreUp,
       RestoreSkipsLoad, RestoreFinds, RestoreMisses, RestoreExtracts, RestoreFails,
       RestoreRecovers, RestoreAnswers, Elsewhere
  <2> QED
    BY <2>1, Bystanders
<1>3. \A q \in Restore \ {r} : restore'[q] = restore[q] /\ restore[q].pc = "off"
  BY <1>0, OneRestore
<1>4. /\ restore[r].pc \in {"terminate", "extract", "recover"} => ~ws.there
      /\ pod = "none" => ~ws.there
  BY <1>0 DEF WorkspaceGone
<1>5. \A pc \in {"off", "probe", "terminate", "terminated", "wake", "provision", "up",
                 "ready", "load", "extract", "recover", "answer"} : pc \in RestorePc
  BY DEF RestorePc
<1>6. Safe' = Safe /\ (\A s : Latest(s)' = Latest(s)) /\ rows' = rows
  BY <1>2, SafeSame
<1> DEFINE Goal == /\ ws.there => ws' = ws
                   /\ ws'.there => Safe \subseteq ws'.files
                   /\ pod' = "none" => ~ws'.there
                   /\ restore'[r].pc \in {"terminate", "extract", "recover"} => ~ws'.there
                   /\ restore'[r].pc = "extract" =>
                        IF rows = {} THEN restore'[r].snapshot = 0 ELSE Latest(restore'[r].snapshot)
<1>7. Safe \subseteq ws.files \/ ~ws.there
  BY <1>0 DEF WorkspaceCovers
<1>8. CASE RestoreStarts(r)
  <2>1. restore'[r].pc = Entry
    BY <1>0, <1>8, EntryType, RestoreToEffect DEF RestoreStarts
  <2>2. Entry \notin {"terminate", "extract", "recover"}
    BY DEF Entry
  <2>3. Goal
    BY <1>4, <1>7, <1>8, <2>1, <2>2 DEF RestoreStarts
  <2> QED
    BY <1>2, <1>3, <1>6, <2>3 DEF WorkspaceGone, RestoresLatest
<1>9. CASE RestoreProbes(r)
  <2>1. pod' = pod /\ ws' = ws
    BY <1>9 DEF RestoreProbes
  <2>2. \/ restore'[r].pc \in {"answer", "load"}
        \/ restore'[r].pc = "terminate" /\ pod # "well"
    BY <1>0, <1>5, <1>9, LoadedEffect, RestoreToEffect DEF RestoreProbes
  <2>3. Goal
    BY <1>1, <1>4, <1>7, <2>1, <2>2
  <2> QED
    BY <1>2, <1>3, <1>6, <2>3 DEF WorkspaceGone, RestoresLatest
<1>10. CASE RestoreTerminates(r) \/ RestoreProvisions(r)
  <2>1. restore'[r].pc \in {"terminated", "up"}
    BY <1>0, <1>5, <1>10, RestoreToEffect DEF RestoreTerminates, RestoreProvisions
  <2>2. \/ pod' = "well" /\ (ws' = ws \/ (~ws.there /\ ~ws'.there))
        \/ pod' = "none" /\ ~ws'.there /\ ~ws.there
    BY <1>0, <1>1, <1>4, <1>10, PodSafe DEF RestoreTerminates, RestoreProvisions
  <2>3. Goal
    BY <1>7, <2>1, <2>2
  <2> QED
    BY <1>2, <1>3, <1>6, <2>3 DEF WorkspaceGone, RestoresLatest
<1>11. CASE RestoreTerminated(r) \/ RestoreWakes(r) \/ RestoreUp(r) \/ RestoreSkipsLoad(r)
            \/ RestoreFinds(r)
  <2>1. restore'[r].pc \in {"wake", "provision", "ready", "answer"}
    BY <1>0, <1>5, <1>11, LoadedEffect, RestoreToEffect
       DEF RestoreTerminated, RestoreWakes, RestoreUp, RestoreSkipsLoad, RestoreFinds
  <2>2. pod' = pod /\ ws' = ws
    BY <1>11 DEF RestoreTerminated, RestoreWakes, RestoreUp, RestoreSkipsLoad, RestoreFinds
  <2>3. Goal
    BY <1>4, <1>7, <2>1, <2>2
  <2> QED
    BY <1>2, <1>3, <1>6, <2>3 DEF WorkspaceGone, RestoresLatest
<1>12. CASE RestoreMisses(r)
  <2>1. PICK s \in Id \cup {0} :
          /\ IF rows = {} THEN s = 0 ELSE Latest(s)
          /\ restore' = [restore EXCEPT ![r].pc = "extract", ![r].snapshot = s]
    BY <1>12 DEF RestoreMisses
  <2>2. restore'[r].pc = "extract" /\ restore'[r].snapshot = s
    BY <1>0, <2>1 DEF TypeOK, RestoreState
  <2>3. pod' = pod /\ ws' = ws
    BY <1>12 DEF RestoreMisses
  <2>4. ~ws.there
    <3>1. Missing \in BOOLEAN /\ "exec_error" \in Losses
      BY <1>0, LossesAre DEF Missing, TypeOK, Files
    <3>2. Missing
      BY <1>0, <1>12, <3>1, CalmNow DEF RestoreMisses
    <3> QED
      BY <1>1, <1>4, <3>2 DEF Missing
  <2>5. Goal
    BY <2>1, <2>2, <2>3, <2>4
  <2> QED
    BY <1>2, <1>3, <1>6, <2>5 DEF WorkspaceGone, RestoresLatest
<1>13. CASE RestoreExtracts(r)
  <2>1. pod' = "well" /\ pod' = pod /\ ~ws.there /\ restore[r].pc = "extract"
    BY <1>4, <1>13 DEF RestoreExtracts, Extractable
  <2>2. restore'[r].pc = "answer"
    BY <1>0, <1>13, CalmNames, LoadedEffect DEF RestoreExtracts
  <2>3. Safe \subseteq ws'.files
    <3>1. ws' = Extracted(restore[r].snapshot)
          /\ IF rows = {} THEN restore[r].snapshot = 0 ELSE Latest(restore[r].snapshot)
      BY <1>0, <1>13, <2>1 DEF RestoreExtracts, RestoresLatest
    <3>2. \A a \in Snapper : keep[a].pc # "commit"
      BY <1>0, <2>1 DEF ArchivesCover, Archived
    <3>3. CASE rows = {}
      BY <3>2, <3>3, SafeMembers
    <3>4. CASE rows # {}
      <4> DEFINE n == restore[r].snapshot
      <4>0. n \in rows /\ \A t \in rows : t <= n
        BY <3>1, <3>4 DEF Latest
      <4>1. n # 0 /\ rows \subseteq Int
        <5>1. rows \subseteq Id
          BY <1>0 DEF TypeOK
        <5> QED
          BY <4>0, <5>1 DEF Id
      <4>2. ws' = blob[restore[r].snapshot]
        BY <3>1, <4>1 DEF Extracted
      <4>3. ASSUME NEW s \in rows, \A t \in rows : t <= s
            PROVE  s = n
        <5>1. n <= s /\ s <= n /\ n \in Int /\ s \in Int
          BY <4>0, <4>1, <4>3
        <5> QED
          BY <5>1
      <4> QED
        BY <3>2, <4>2, <4>3, SafeMembers
    <3> QED
      BY <3>3, <3>4
  <2>4. Goal
    BY <2>1, <2>2, <2>3
  <2> QED
    BY <1>2, <1>3, <1>6, <2>4 DEF WorkspaceGone, RestoresLatest
<1>14. CASE RestoreFails(r)
  <2>1. restore[r].pc = "extract"
    <3>1. (pod = "sick") \in BOOLEAN /\ "provision_fails" \in Losses
      BY LossesAre
    <3>2. ~NotProvisioned
      BY <1>0, <1>1, <3>1, CalmNow DEF NotProvisioned
    <3> QED
      BY <1>0, <1>14, <3>2, CalmNames DEF RestoreFails
  <2>2. pod' = pod /\ ws' = ws /\ restore'[r].pc = "recover"
    BY <1>0, <1>5, <1>14, RestoreToEffect DEF RestoreFails
  <2>3. Goal
    BY <1>4, <2>1, <2>2
  <2> QED
    BY <1>2, <1>3, <1>6, <2>3 DEF WorkspaceGone, RestoresLatest
<1>15. CASE RestoreRecovers(r) \/ RestoreAnswers(r)
  <2>1. restore'[r].pc = "off" /\ pod' = pod
    BY <1>0, <1>15, RestoreDoneEffect DEF RestoreRecovers, RestoreAnswers
  <2>2. ws' = ws \/ (~ws.there /\ ws' = None)
    BY <1>4, <1>15 DEF RestoreRecovers, RestoreAnswers
  <2>3. None.there = FALSE
    BY DEF None
  <2>4. Goal
    BY <1>4, <1>7, <2>1, <2>2, <2>3
  <2> QED
    BY <1>2, <1>3, <1>6, <2>4 DEF WorkspaceGone, RestoresLatest
<1>16. ~RestoreKilled(r)
  BY <1>0, CalmNames DEF RestoreKilled
<1> QED
  BY <1>8, <1>9, <1>10, <1>11, <1>12, <1>13, <1>14, <1>15, <1>16 DEF RestoreMove, RestoreStep

LEMMA TurnSafe ==
    ASSUME IInv, Covered, Next, Calm', NEW c \in Turn, TurnMove(c)
    PROVE  /\ WorkspaceGone'
           /\ ws.there => ws'.there /\ ws.files \subseteq ws'.files
           /\ ~ws.there => ~ws'.there
           /\ done' = done \/ (TurnWorks(c) /\ ws.there /\ done' \subseteq done \cup ws'.files)
           /\ UNCHANGED <<keep, sweep, rows, blob, restore>>
<1>0. TypeOK /\ KeepsHaveIds /\ PodOwned /\ WorkspaceGone /\ pod \in {"none", "well"}
  BY NoneSick DEF IInv, Covered
<1>1. UNCHANGED <<keep, sweep, rows, blob, restore>>
  BY <1>0, Bystanders, TurnMoves
<1>2. pod = "none" => ~ws.there
  BY <1>0 DEF WorkspaceGone
<1>3. CASE TurnTerminates(c)
  <2>1. pod = "none"
    <3>1. (pod = "well") \in BOOLEAN /\ "late_terminate" \in HazardKinds /\ "late_terminate" \in Losses
      BY LossesAre
    <3> QED
      BY <1>0, <1>3, <3>1, CalmNow, MarkEffect DEF TurnTerminates
  <2>2. ~ws.there /\ ~ws'.there /\ done' = done
    BY <1>0, <1>2, <1>3, <2>1, PodSafe DEF TurnTerminates
  <2> QED
    BY <1>0, <1>1, <2>2 DEF WorkspaceGone
<1>4. CASE TurnProvisions(c)
  <2>1. pod' = "well" /\ (ws' = ws \/ (~ws.there /\ ~ws'.there)) /\ done' = done
    BY <1>0, <1>4, PodSafe DEF TurnProvisions
  <2> QED
    BY <1>0, <1>1, <2>1 DEF WorkspaceGone
<1>5. CASE TurnWorks(c)
  <2>1. ws.there /\ pod' = pod
    BY <1>0, <1>5, CalmNames DEF TurnWorks
  <2>2. PICK w \in Work \ done : /\ done' = done \cup {w}
                                 /\ ws' = [there |-> TRUE, files |-> ws.files \cup {w}]
    BY <1>5 DEF TurnWorks
  <2>3. ws'.there /\ ws'.files = ws.files \cup {w}
    BY <2>2
  <2> QED
    BY <1>0, <1>1, <1>2, <1>5, <2>1, <2>2, <2>3 DEF WorkspaceGone
<1>6. CASE TurnStarts(c) \/ TurnPolls(c) \/ TurnChecks(c) \/ TurnTerminated(c) \/ TurnFails(c)
           \/ TurnCommits(c) \/ TurnEnds(c) \/ TurnKilled(c)
  <2>1. UNCHANGED <<pod, ws, done>>
    BY <1>6 DEF TurnStarts, TurnPolls, TurnChecks, TurnTerminated, TurnFails, TurnCommits,
       TurnEnds, TurnKilled
  <2> QED
    BY <1>0, <1>1, <2>1 DEF WorkspaceGone
<1> QED
  BY <1>3, <1>4, <1>5, <1>6 DEF TurnMove, TurnStep

LEMMA WorldSafe ==
    ASSUME IInv, Covered, Next, Calm', WorldStep
    PROVE  UNCHANGED <<keep, sweep, rows, blob, restore, pod, ws, done>>
<1>0. TypeOK /\ KeepsHaveIds /\ PodOwned /\ pod \in {"none", "well"}
  BY NoneSick DEF IInv, Covered
<1>1. ~PodDies /\ ~PodSickens /\ ~PodRecovers
  BY <1>0, CalmNames DEF PodDies, PodSickens, PodRecovers
<1> QED
  BY <1>1 DEF WorldStep, GoesIdle, LockExpires, snapshots, request

LEMMA CoveredStays ==
    ASSUME IInv, Covered, Next, Calm'
    PROVE  Covered' /\ Safe \subseteq Safe'
<1>0. /\ TypeOK /\ KeepsHaveIds /\ IdsFresh /\ KeepersApart /\ RowsOlder /\ WorkspaceGone
      /\ RestoresLatest /\ WorkspaceCovers /\ ArchivesCover /\ ~Shown({"killed"})'
  BY CalmNames DEF IInv, Covered
<1>1. ASSUME UNCHANGED <<keep, sweep, rows, blob>>, WorkspaceGone', RestoresLatest',
             ws.there => ws'.there /\ ws.files \subseteq ws'.files,
             ws'.there => Safe' \subseteq ws'.files
      PROVE  Covered' /\ Safe \subseteq Safe'
  <2>1. Safe' = Safe /\ RowsOlder'
    BY <1>0, <1>1, SafeSame
  <2>2. KeepersApart'
    BY <1>0, <1>1 DEF KeepersApart
  <2>3. WorkspaceCovers'
    BY <1>1 DEF WorkspaceCovers
  <2>4. ArchivesCover'
    BY <1>0, <1>1, <2>1 DEF ArchivesCover, Archived
  <2> QED
    BY <1>1, <2>1, <2>2, <2>3, <2>4 DEF Covered
<1>2. ASSUME UNCHANGED <<keep, sweep, rows, blob, restore>>, WorkspaceGone',
             ws.there => ws'.there /\ ws.files \subseteq ws'.files,
             ~ws.there => ~ws'.there
      PROVE  Covered' /\ Safe \subseteq Safe'
  <2>1. Safe' = Safe /\ \A s : Latest(s)' = Latest(s)
    BY <1>2, SafeSame
  <2>2. RestoresLatest'
    BY <1>0, <1>2, <2>1 DEF RestoresLatest
  <2>3. ws'.there => Safe' \subseteq ws'.files
    BY <1>0, <1>2, <2>1 DEF WorkspaceCovers
  <2> QED
    BY <1>1, <1>2, <2>2, <2>3
<1>3. ASSUME NEW a \in Snapper, SnapshotMove(a), KeepersApart',
             \A b \in Snapper \ {a} : keep[b].pc = "off" /\ keep[b].id = 0,
             UNCHANGED <<restore, pod, ws>>
      PROVE  Covered' /\ Safe \subseteq Safe'
  <2>1. /\ RowsOlder' /\ Safe \subseteq Safe'
        /\ ws.there => Safe' \subseteq ws.files
        /\ rows' = rows \/ keep[a].pc = "commit"
        /\ keep'[a].pc \in {"prune", "commit"} =>
             /\ ws.there
             /\ Safe' \subseteq blob'[keep'[a].id].files
             /\ blob'[keep'[a].id].files \subseteq ws.files
    BY <1>0, <1>3, SnapshotSafe
  <2>2. WorkspaceGone' /\ WorkspaceCovers'
    BY <1>0, <1>3, <2>1 DEF WorkspaceGone, WorkspaceCovers
  <2>3. RestoresLatest'
    <3>1. ASSUME NEW r \in Restore, restore[r].pc = "extract"
          PROVE  rows' = rows
      BY <1>0, <2>1, <3>1 DEF WorkspaceGone, ArchivesCover, Archived
    <3> QED
      BY <1>0, <1>3, <3>1 DEF RestoresLatest, Latest
  <2>4. ArchivesCover'
    <3>1. \A b \in Snapper \ {a} : keep'[b].pc = "off"
      BY <1>3 DEF SnapshotMove
    <3> QED
      BY <1>3, <2>1, <3>1 DEF ArchivesCover, Archived
  <2> QED
    BY <1>3, <2>1, <2>2, <2>3, <2>4 DEF Covered
<1>4. CASE SweepMove
  <2>1. /\ KeepersApart' /\ UNCHANGED <<restore, done>>
        /\ \A b \in Snapper \ {"sweep"} : keep[b].pc = "off" /\ keep[b].id = 0
        /\ SnapshotMove("sweep") \/ UNCHANGED <<keep, rows, blob>>
        /\ "sweep" \in Snapper
    BY <1>0, <1>4, SweepApart, SweepMoves DEF Snapper
  <2>2. CASE SweepReaps
    <3>1. UNCHANGED <<rows, blob>> /\ pod' = "none" /\ ws' = None /\ None.there = FALSE
      BY <2>2 DEF SweepReaps, Terminate, None
    <3>2. keep["sweep"].pc = "off" /\ \A b \in Snapper : keep'[b].pc = "off" /\ keep'[b].id = 0
      <4>1. keep["sweep"].pc = "off"
        BY <1>0, <2>2 DEF SweepReaps, KeepsHaveIds
      <4> QED
        BY <1>0, <2>1, <2>2, <4>1, KeepDoneEffect DEF SweepReaps
    <3>3. \A b \in Snapper : keep[b].pc = "off"
      BY <2>1, <3>2
    <3>4. Safe' = Safe
      BY <3>1, <3>2, <3>3, SafeMembers
    <3>5. RowsOlder' /\ ArchivesCover' /\ WorkspaceCovers'
      BY <3>1, <3>2 DEF RowsOlder, ArchivesCover, Archived, WorkspaceCovers
    <3>6. WorkspaceGone' /\ RestoresLatest'
      BY <1>0, <2>1, <3>1 DEF WorkspaceGone, RestoresLatest, Latest
    <3> QED
      BY <2>1, <3>4, <3>5, <3>6 DEF Covered
  <2>3. CASE ~SweepReaps
    <3>1. pod' = pod /\ ws' = ws
      BY <1>4, <2>3 DEF SweepMove, SweepStarts, Sweep, SweepKilled, SweepLists, KeepArchives,
         KeepPrunes, KeepSkipsPrune, SweepCommits, SweepFindsNothing, SweepFails, SweepProbes,
         SweepSleeps, SweepRaises
    <3>2. CASE SnapshotMove("sweep")
      BY <1>3, <2>1, <3>1, <3>2
    <3>3. CASE UNCHANGED <<keep, rows, blob>>
      <4>1. Safe' = Safe /\ RowsOlder' /\ \A s : Latest(s)' = Latest(s)
        BY <1>0, <3>3, SafeSame
      <4>2. WorkspaceGone' /\ RestoresLatest'
        BY <1>0, <2>1, <3>1, <3>3, <4>1 DEF WorkspaceGone, RestoresLatest
      <4>3. WorkspaceCovers' /\ ArchivesCover'
        BY <1>0, <3>1, <3>3, <4>1 DEF WorkspaceCovers, ArchivesCover, Archived
      <4> QED
        BY <2>1, <4>1, <4>2, <4>3 DEF Covered
    <3> QED
      BY <2>1, <3>2, <3>3
  <2> QED
    BY <2>2, <2>3
<1>5. CASE UserMove
  <2>1. SnapshotMove("user") /\ "user" \in Snapper
    BY <1>0, <1>5, UserMoves DEF Snapper
  <2> QED
    BY <1>0, <1>3, <1>5, <2>1, UserSafe
<1>6. CASE WorldStep
  <2>1. UNCHANGED <<keep, sweep, rows, blob, restore, pod, ws>>
    BY <1>6, WorldSafe
  <2>2. WorkspaceGone'
    BY <1>0, <2>1 DEF WorkspaceGone
  <2> QED
    BY <1>2, <2>1, <2>2
<1>7. ASSUME NEW r \in Restore, RestoreMove(r)
      PROVE  Covered' /\ Safe \subseteq Safe'
  BY <1>1, <1>7, RestoreSafe
<1>8. ASSUME NEW c \in Turn, TurnMove(c)
      PROVE  Covered' /\ Safe \subseteq Safe'
  BY <1>2, <1>8, TurnSafe
<1> QED
  BY <1>4, <1>5, <1>6, <1>7, <1>8, Moves

LEMMA SweepSaves ==
    ASSUME IInv, Covered, WorkSaved, Next, Calm', SweepMove
    PROVE  WorkSaved'
<1>0. /\ TypeOK /\ KeepsHaveIds /\ IdsFresh /\ KeepersApart /\ RowsOlder /\ WorkspaceGone
      /\ WorkspaceCovers /\ ArchivesCover /\ ~Shown({"killed"})' /\ pod \in {"none", "well"}
      /\ "sweep" \in Snapper /\ "archive" \in KeepPc
      /\ \A pc \in {"off", "list", "keep", "probe", "reap", "sleep"} : pc \in SweepPc
  BY CalmNames, NoneSick DEF IInv, Covered, Snapper, KeepPc, SweepPc
<1>1. /\ done' = done /\ Safe \subseteq Safe'
      /\ \A b \in Snapper \ {"sweep"} : keep[b].pc = "off" /\ keep[b].id = 0
  BY <1>0, SweepApart, CoveredStays
<1>2. pod = "none" => ~ws.there
  BY <1>0 DEF WorkspaceGone
<1>3. ~ws.there => done \subseteq Safe'
  BY <1>1 DEF WorkSaved
<1> DEFINE First == IF ws'.there THEN done \subseteq ws'.files ELSE done \subseteq Safe'
<1>4. ws' = ws => First
  BY <1>1 DEF WorkSaved
<1>5. ASSUME keep'["sweep"].pc \notin {"prune", "commit"}, sweep'.pc = "reap" => done \subseteq Safe', First
      PROVE  WorkSaved'
  BY <1>1, <1>5 DEF WorkSaved, Archived
<1>6. ASSUME NEW pc \in {"probe", "reap"}, SweepKept(pc)
      PROVE  /\ keep'["sweep"].pc = "off"
             /\ sweep'.pc = "reap" => pc = "reap" /\ sweep.idle
  BY <1>0, <1>6, SweepToEffect, SweepOffEffect, KeepDoneEffect DEF SweepKept
<1>7. CASE SweepStarts
  <2>1. sweep'.pc = "list" /\ keep'["sweep"].pc = "off" /\ ws' = ws
    <3>1. keep["sweep"].pc = "off" /\ sweep'.pc = "list" /\ ws' = ws
      BY <1>0, <1>7 DEF SweepStarts, KeepsHaveIds
    <3>2. keep'["sweep"].pc = keep["sweep"].pc
      BY <1>0, <1>7 DEF SweepStarts, TypeOK
    <3> QED
      BY <3>1, <3>2
  <2> QED
    BY <1>4, <1>5, <2>1
<1>8. CASE SweepLists /\ keep' = [keep EXCEPT !["sweep"].pc = "archive"] /\ SweepTo("keep")
  <2>1. KeepTo("sweep", "archive") /\ ws' = ws
    BY <1>8 DEF KeepTo, SweepLists
  <2>2. keep'["sweep"].pc = "archive" /\ sweep'.pc = "keep"
    BY <1>0, <1>8, <2>1, KeepToEffect, SweepToEffect
  <2> QED
    BY <1>4, <1>5, <2>1, <2>2
<1>9. CASE /\ SweepLists /\ (pod # "well" \/ ~ws.there)
           /\ IF sweep.idle THEN SweepTo("reap") /\ UNCHANGED keep
                            ELSE SweepOff /\ KeepDone("sweep")
  <2>1. ws' = ws /\ ~ws.there /\ keep["sweep"].pc = "off"
    BY <1>0, <1>2, <1>9 DEF SweepLists, KeepsHaveIds
  <2>2. keep'["sweep"].pc = "off"
    BY <1>0, <1>9, <2>1, KeepDoneEffect
  <2> QED
    BY <1>3, <1>4, <1>5, <2>1, <2>2
<1>10. CASE KeepArchives("sweep") \/ KeepPrunes("sweep") \/ KeepSkipsPrune("sweep")
  <2>1. ws' = ws /\ sweep' = sweep /\ sweep.pc = "keep"
    BY <1>0, <1>10 DEF KeepArchives, KeepPrunes, KeepSkipsPrune, KeepsHaveIds
  <2>2. SnapshotMove("sweep")
    BY <1>0, <1>10, ArchivesEffect, PrunesEffect, SkipsEffect DEF SnapshotMove, Steps
  <2>3. keep'["sweep"].pc \in {"prune", "commit"} =>
          /\ ws.there
          /\ blob'[keep'["sweep"].id] = IF Archived("sweep") THEN blob[keep["sweep"].id] ELSE ws
    BY <1>0, <1>1, <2>2, SnapshotSafe
  <2>4. sweep.idle /\ keep'["sweep"].pc \in {"prune", "commit"}
          => done \subseteq blob'[keep'["sweep"].id].files
    BY <2>3 DEF WorkSaved
  <2> QED
    BY <1>1, <1>4, <2>1, <2>4 DEF WorkSaved, Archived
<1>11. CASE SweepCommits
  <2>1. ws' = ws /\ keep["sweep"].pc = "commit" /\ SweepKept("reap")
    BY <1>11 DEF SweepCommits
  <2>2. sweep'.pc = "reap" => sweep.idle
    BY <1>6, <2>1
  <2>3. sweep.idle => done \subseteq blob[keep["sweep"].id].files
    BY <2>1 DEF WorkSaved, Archived
  <2>4. blob[keep["sweep"].id].files \subseteq Safe
    BY <1>0, <2>1, SafeMembers
  <2> QED
    BY <1>1, <1>4, <1>5, <1>6, <2>1, <2>2, <2>3, <2>4
<1>12. CASE SweepFindsNothing
  <2>1. ws' = ws /\ ~ws.there /\ SweepKept("reap")
    BY <1>12 DEF SweepFindsNothing
  <2> QED
    BY <1>3, <1>4, <1>5, <1>6, <2>1
<1>13. CASE SweepFails
  <2>1. ws' = ws /\ SweepKept("probe")
    BY <1>13 DEF SweepFails, AfterFailure
  <2>2. keep'["sweep"].pc = "off" /\ sweep'.pc # "reap"
    BY <1>6, <2>1
  <2> QED
    BY <1>4, <1>5, <2>1, <2>2
<1>14. CASE SweepProbes
  <2>1. ws' = ws /\ keep'["sweep"].pc = "off"
    BY <1>0, <1>14 DEF SweepProbes, KeepsHaveIds, snapshots
  <2>2. sweep'.pc = "reap" => ~ws.there
    BY <1>0, <1>2, <1>14, SweepOffEffect DEF SweepProbes
  <2> QED
    BY <1>3, <1>4, <1>5, <2>1, <2>2
<1>15. CASE SweepReaps
  <2>1. /\ sweep.pc = "reap" /\ sweep'.pc = "sleep" /\ keep'["sweep"].pc = "off"
        /\ ws' = None /\ None.there = FALSE
    BY <1>0, <1>15, SweepToEffect, KeepDoneEffect DEF SweepReaps, Terminate, None
  <2>2. done \subseteq Safe'
    BY <1>1, <2>1 DEF WorkSaved
  <2> QED
    BY <1>5, <2>1, <2>2
<1>16. CASE SweepSleeps
  <2>1. ws' = ws /\ keep'["sweep"].pc = "off" /\ sweep'.pc = "off"
    BY <1>0, <1>16, SweepOffEffect DEF SweepSleeps, KeepsHaveIds, snapshots
  <2> QED
    BY <1>4, <1>5, <2>1
<1> QED
  BY <1>0, <1>7, <1>8, <1>9, <1>10, <1>11, <1>12, <1>13, <1>14, <1>15, <1>16, SweepCalm

LEMMA SavedStays ==
    ASSUME IInv, Covered, WorkSaved, Next, Calm', ~Shown({"reaped_midturn"})'
    PROVE  WorkSaved'
<1>0. TypeOK /\ KeepsHaveIds /\ KeepersApart /\ Safe \subseteq Safe'
  BY CoveredStays DEF IInv, Covered
<1>1. CASE UserMove
  <2>1. UNCHANGED <<ws, done, sweep>> /\ keep["sweep"].pc = "off" /\ keep'["sweep"] = keep["sweep"]
    BY <1>0, <1>1, UserSafe, UserMoves DEF SnapshotMove, Snapper
  <2> QED
    BY <1>0, <2>1 DEF WorkSaved, Archived
<1>2. CASE WorldStep
  <2>1. UNCHANGED <<keep, sweep, rows, blob, ws, done>>
    BY <1>2, WorldSafe
  <2> QED
    BY <1>0, <2>1 DEF WorkSaved, Archived
<1>3. ASSUME NEW r \in Restore, RestoreMove(r)
      PROVE  WorkSaved'
  <2>1. /\ ws.there => ws' = ws
        /\ ws'.there => Safe' \subseteq ws'.files
        /\ UNCHANGED <<keep, sweep, rows, blob, done>>
    BY <1>3, RestoreSafe
  <2> QED
    BY <1>0, <2>1 DEF WorkSaved, Archived
<1>4. ASSUME NEW c \in Turn, TurnMove(c)
      PROVE  WorkSaved'
  <2>1. /\ ws.there => ws'.there /\ ws.files \subseteq ws'.files
        /\ ~ws.there => ~ws'.there
        /\ done' = done \/ (TurnWorks(c) /\ ws.there /\ done' \subseteq done \cup ws'.files)
        /\ UNCHANGED <<keep, sweep, rows, blob>>
    BY <1>4, TurnSafe
  <2>2. CASE done' = done
    BY <1>0, <2>1, <2>2 DEF WorkSaved, Archived
  <2>3. CASE TurnWorks(c) /\ ws.there /\ done' \subseteq done \cup ws'.files
    <3>1. Unless(~Reaping, "reaped_midturn") /\ (~Reaping) \in BOOLEAN
      BY <2>3 DEF TurnWorks
    <3>2. "reaped_midturn" \notin faults'.hazards
      BY DEF Shown
    <3>3. ~Reaping
      BY <1>0, <3>1, <3>2, UnlessEffect
    <3>4. sweep.pc # "reap" /\ ~(sweep.idle /\ Archived("sweep"))
      BY <1>0, <3>3 DEF Reaping, Archived, KeepsHaveIds
    <3>5. done' \subseteq ws'.files /\ ws'.there
      BY <2>1, <2>3 DEF WorkSaved
    <3> QED
      BY <2>1, <3>4, <3>5 DEF WorkSaved, Archived
  <2> QED
    BY <2>1, <2>2, <2>3
<1> QED
  BY <1>0, <1>1, <1>2, <1>3, <1>4, Moves, SweepSaves

-----------------------------------------------------------------------------
(* The invariant, and what follows                                           *)

LEMMA WInvInit == Init => WInv
<1> SUFFICES ASSUME Init PROVE WInv
  OBVIOUS
<1>1. /\ \A a \in Snapper : keep[a].pc = "off" /\ keep[a].id = 0
      /\ \A r \in Restore : restore[r].pc = "off"
      /\ sweep.pc = "off" /\ ~sweep.idle /\ rows = {} /\ done = {} /\ pod = "well" /\ ws.there
      /\ "sweep" \in Snapper /\ "user" \in Snapper
  BY DEF Init, NoKeep, NoRestore, Snapper
<1>2. Safe = {}
  BY <1>1, SafeMembers
<1>3. KeepersApart /\ RowsOlder /\ WorkspaceGone /\ RestoresLatest
  BY <1>1 DEF KeepersApart, RowsOlder, WorkspaceGone, RestoresLatest
<1>4. WorkspaceCovers /\ ArchivesCover /\ WorkSaved
  BY <1>1, <1>2 DEF WorkspaceCovers, ArchivesCover, Archived, WorkSaved
<1> QED
  BY <1>3, <1>4, IInvInit DEF WInv, Covered

LEMMA WInvStep == WInv /\ [Next]_vars => WInv'
<1> SUFFICES ASSUME WInv, [Next]_vars PROVE WInv'
  OBVIOUS
<1>1. IInv'
  BY IInvStep DEF WInv
<1>2. CASE Next
  <2>1. TypeOK /\ KeepsHaveIds /\ IInv
    BY DEF WInv, IInv
  <2>2. Calm' => Calm
    BY <1>2, <2>1, CalmNow
  <2>3. ~Shown({"reaped_midturn"})' => ~Shown({"reaped_midturn"})
    BY <1>2, <2>1, TypesKept DEF Shown
  <2> QED
    BY <1>1, <1>2, <2>1, <2>2, <2>3, CoveredStays, SavedStays DEF WInv
<1>3. CASE UNCHANGED vars
  <2>1. Safe' = Safe /\ (RowsOlder => RowsOlder') /\ \A s : Latest(s)' = Latest(s)
    BY <1>3, SafeSame DEF vars
  <2>2. Covered => Covered'
    BY <1>3, <2>1 DEF vars, Covered, KeepersApart, WorkspaceGone, RestoresLatest, WorkspaceCovers,
       ArchivesCover, Archived
  <2>3. WorkSaved => WorkSaved'
    BY <1>3, <2>1 DEF vars, WorkSaved, Archived
  <2> QED
    BY <1>1, <1>3, <2>2, <2>3 DEF WInv, Calm, Shown, vars
<1> QED
  BY <1>2, <1>3

LEMMA WInvAlways == Spec => []WInv
BY WInvInit, WInvStep, PTL DEF Spec

\* Whatever sweeps, requests, restores and turns do to a sandbox, no work is lost unless
\* a hazard shows that loses it: not because a snapshot or a prune fails, nor because
\* the sandbox is woken while the sweep puts it to sleep.
THEOREM WorkSafe == Spec => []WorkKept
<1>1. WInv => WorkKept
  <2>1. ~Shown(HazardKinds \ Lossless) => Calm /\ ~Shown({"reaped_midturn"})
    BY DEF Shown, Calm, Losses, HazardKinds, Lossless
  <2> QED
    BY <2>1 DEF WInv, WorkSaved, WorkKept
<1> QED
  BY <1>1, WInvAlways, PTL

\* create_session_snapshot_keep_latest replaces a snapshot by one that holds all of its
\* work.
THEOREM SnapshotsOnlyGrow == Spec => SnapshotsGrow
<1>1. WInv /\ [Next]_vars =>
        [Safe \subseteq Safe' \/ Shown(HazardKinds \ (Lossless \cup {"reaped_midturn"}))']_vars
  <2> SUFFICES ASSUME WInv, [Next]_vars, vars' # vars, Calm' PROVE Safe \subseteq Safe'
    BY DEF Calm, Losses
  <2>1. Next /\ IInv /\ TypeOK /\ KeepsHaveIds
    BY DEF WInv, IInv
  <2>2. Covered
    BY <2>1, CalmNow DEF WInv
  <2> QED
    BY <2>1, <2>2, CoveredStays
<1> QED
  BY <1>1, WInvAlways, PTL DEF Spec, SnapshotsGrow
=============================================================================

-------------------------- MODULE SandboxLifecycle --------------------------
(***************************************************************************)
(* The sandbox of one Craft user, with the workspace of one session:       *)
(*                                                                         *)
(*   cleanup_idle_sandboxes_task  snapshots the workspace, and puts an     *)
(*                                idle sandbox to sleep                    *)
(*   POST /sessions/{id}/snapshot snapshots it too                         *)
(*   POST /sessions/{id}/restore  wakes the sandbox and loads the session  *)
(*   ensure_sandbox_ready         wakes it for a turn, loading nothing     *)
(*                                                                         *)
(* They meet at the sandbox row, at the pod and at the snapshots.  Only    *)
(* restores exclude one another, and only for five minutes; sweeps too.    *)
(* A step ends where the code commits, or calls the pod or the file store. *)
(***************************************************************************)
EXTENDS Integers

CONSTANTS
    Work,          \* pieces of work the agent leaves in the workspace
    Restore,       \* restore requests running at a time
    Turn,          \* turns (or scheduled runs) running at a time
    MaxSnapshots,  \* bound: transactions that may record a snapshot
    MaxFaults,     \* bound: faults
    Hazards        \* which of HazardKinds the environment may show

HazardKinds == {
    "pod_lost",        \* the pod dies ungracefully
    "sick",            \* the pod does not answer for a while
    "exec_error",      \* an exec into a healthy pod fails
    "raises",          \* any other call of the Kubernetes API fails
    "provision_fails", \* no pod comes up
    "snapshot_fails",  \* the archive of a reachable pod cannot be had or saved
    "prune_fails",     \* a blob cannot be deleted
    "load_fails",      \* a restore fails after the files are in place
    "killed",          \* a worker or an API pod goes
    "slow_restore",    \* a restore takes longer than its lock lives
    "overlapping",     \* a sweep and a request snapshot the session together
    "reaped_midturn",  \* the agent works on after the sweep has looked
    "unrestored_turn", \* a turn runs before the session is loaded
    \* No faults, but orders of steps:
    "woken_midsweep",  \* the sandbox is woken while the sweep is putting it to sleep
    "late_terminate"   \* a turn terminates a pod that has come up since it looked
}

Nobody == "nobody"

ASSUME SandboxAssumption ==
    /\ Nobody \notin Restore
    /\ MaxSnapshots \in Nat
    /\ MaxFaults \in Nat
    /\ Hazards \subseteq HazardKinds

VARIABLES
    row,      \* the sandbox: its status, and whether its heartbeat is an hour old
    txn,      \* whose uncommitted update of it locks it
    active,   \* BuildSession.status = ACTIVE
    pod,      \* the pod
    ws,       \* the session's directory in the pod
    rows,     \* the session's snapshots, by the order of their created_at
    blob,     \* their archives in the file store
    sweep,    \* cleanup_idle_sandboxes_task
    keep,     \* create_session_snapshot_keep_latest, by the sweep and by a request
    lock,     \* sandbox_restore:{id}
    restore,  \* restore_session
    turn,     \* turns, from ensure_sandbox_ready on
    done,     \* for checking only: the work the agent has left in the workspace
    faults    \* how many faults so far, and the hazards that showed

vars == <<row, txn, active, pod, ws, rows, blob, sweep, keep, lock, restore, turn,
          done, faults>>
request == <<lock, restore>>
snapshots == <<rows, blob, keep>>

-----------------------------------------------------------------------------
(* Types *)

Id == 1..MaxSnapshots

Status == {"PROVISIONING", "RUNNING", "SLEEPING", "TERMINATED"}
Files == [there : BOOLEAN, files : SUBSET Work]
None == [there |-> FALSE, files |-> {}]

SweepPc == {"off", "list", "keep", "probe", "reap", "sleep"}
KeepPc == {"off", "archive", "prune", "commit"}
Snapper == {"sweep", "user"}
KeepState == [pc : KeepPc,
              id : Id \cup {0},      \* the row it would add: as old as its transaction
              prior : SUBSET Id]     \* prior_snapshots
NoKeep == [pc |-> "off", id |-> 0, prior |-> {}]

RestorePc == {"off", "probe", "terminate", "terminated", "wake", "provision", "up",
              "ready", "load", "extract", "recover", "answer"}
RestoreState == [pc : RestorePc,
                 snapshot : Id \cup {0},  \* the latest snapshot, 0 if there is none
                 seen : BOOLEAN]          \* it found or loaded the workspace
NoRestore == [pc |-> "off", snapshot |-> 0, seen |-> FALSE]
TurnPc == {"off", "poll", "check", "terminate", "terminated", "provision", "commit", "work"}

TypeOK ==
    /\ row \in [status : Status, idle : BOOLEAN]
    /\ txn \in Turn \cup {Nobody}
    /\ active \in BOOLEAN
    /\ pod \in {"none", "well", "sick"}
    /\ ws \in Files
    /\ rows \subseteq Id
    /\ blob \in [Id -> Files]
    /\ sweep \in [pc : SweepPc, idle : BOOLEAN]
    /\ keep \in [Snapper -> KeepState]
    /\ lock \in Restore \cup {Nobody}
    /\ restore \in [Restore -> RestoreState]
    /\ turn \in [Turn -> TurnPc]
    /\ done \subseteq Work
    /\ faults \in [count : 0..MaxFaults, hazards : SUBSET HazardKinds]

-----------------------------------------------------------------------------
(* Rows, pods, faults *)

Fault(kind) ==
    /\ kind \in Hazards
    /\ faults.count < MaxFaults
    /\ faults' = [count |-> faults.count + 1, hazards |-> faults.hazards \cup {kind}]
Unless(condition, kind) == IF condition THEN UNCHANGED faults ELSE Fault(kind)
\* An order of steps is no fault, and does not count as one.
Mark(condition, kind) ==
    faults' = IF condition THEN [faults EXCEPT !.hazards = @ \cup {kind}] ELSE faults

\* Updates of the row wait for one that is not committed.
RowFree == txn = Nobody
SetStatus(status) == row' = [row EXCEPT !.status = status]
\* update_sandbox_status__no_commit(RUNNING) beats the heart, too.
SetRunning ==
    /\ row' = [status |-> "RUNNING", idle |-> FALSE]
    /\ Mark(sweep.idle, "woken_midsweep")

\* terminate: the pod, and with it the workspace.
Terminate == pod' = "none" /\ ws' = None
\* provision reuses a healthy pod; a new one has no sessions; it waits for a
\* pod that exists but is not ready.
Provision ==
    /\ pod # "sick"
    /\ pod' = "well"
    /\ ws' = IF pod = "well" THEN ws ELSE None
NotProvisioned == Unless(pod = "sick", "provision_fails")

\* get_latest_snapshot_for_session
Latest(s) == s \in rows /\ \A other \in rows : other <= s
\* The row a transaction would add now: created_at is when the transaction began.
Held == rows \cup {keep[a].id : a \in Snapper} \cup {restore[r].snapshot : r \in Restore}
NewId(id) == id \in Id /\ (\A s \in Held : s < id) /\ (id = 1 \/ id - 1 \in Held)

-----------------------------------------------------------------------------
(* create_session_snapshot_keep_latest *)

KeepTo(a, pc) == keep' = [keep EXCEPT ![a].pc = pc]
KeepDone(a) == keep' = [keep EXCEPT ![a] = NoKeep]
\* An archive without a row is never looked at again.
Orphaned(a) ==
    blob' = IF keep[a].pc \in {"prune", "commit"} THEN [blob EXCEPT ![keep[a].id] = None] ELSE blob

\* Faulty variant: a session without outputs is archived like any other.
Reachable == pod = "well"
\* has_snapshot_content, in a pod that answers.
Archivable == pod = "well" /\ ws.there
\* The archive holds what is in the workspace when the sidecar reads it.  The rows
\* are read just before: whoever commits in between may as well commit later.
KeepArchives(a) ==
    /\ keep[a].pc = "archive"
    /\ Archivable
    /\ blob' = [blob EXCEPT ![keep[a].id] = ws]
    /\ keep' = [keep EXCEPT ![a].pc = "prune", ![a].prior = rows]
    /\ UNCHANGED <<row, txn, active, pod, ws, rows, sweep, request, turn, done, faults>>

\* A missing blob is as good as deleted.
KeepPrunes(a) ==
    /\ keep[a].pc = "prune"
    /\ blob' = [s \in Id |-> IF s \in keep[a].prior THEN None ELSE blob[s]]
    /\ KeepTo(a, "commit")
    /\ UNCHANGED <<row, txn, active, pod, ws, rows, sweep, request, turn, done, faults>>

\* A blob that cannot be deleted keeps its row.
KeepSkipsPrune(a) ==
    /\ keep[a].pc = "prune"
    /\ keep[a].prior # {}
    /\ Fault("prune_fails")
    /\ keep' = [keep EXCEPT ![a].pc = "commit", ![a].prior = {}]
    /\ UNCHANGED <<row, txn, active, pod, ws, rows, blob, sweep, request, turn, done>>

\* Faulty variant: the pruned rows stay.
Added(a) == rows \cup {keep[a].id}
\* The one commit: the new row, and none of the pruned ones.
Kept(a) == (rows \ keep[a].prior) \cup {keep[a].id}

UserStarts ==
    /\ keep["user"].pc = "off"
    /\ \E id \in Id :
         /\ NewId(id)
         /\ keep' = [keep EXCEPT !["user"] = [pc |-> "archive", id |-> id, prior |-> {}]]
    /\ Unless(sweep.pc = "off", "overlapping")
    /\ UNCHANGED <<row, txn, active, pod, ws, rows, blob, sweep, request, turn, done>>
UserCommits ==
    /\ keep["user"].pc = "commit"
    /\ rows' = Kept("user")
    /\ KeepDone("user")
    /\ UNCHANGED <<row, txn, active, pod, ws, blob, sweep, request, turn, done, faults>>
\* 204 when there are no outputs, 503 when there is no archive.
UserFails ==
    /\ keep["user"].pc = "archive"
    /\ Unless(~Archivable, "snapshot_fails")
    /\ KeepDone("user")
    /\ UNCHANGED <<row, txn, active, pod, ws, rows, blob, sweep, request, turn, done>>

User == UserStarts \/ KeepArchives("user") \/ KeepPrunes("user")
        \/ KeepSkipsPrune("user") \/ UserCommits \/ UserFails

-----------------------------------------------------------------------------
(* cleanup_idle_sandboxes_task *)

SweepTo(pc) == sweep' = [sweep EXCEPT !.pc = pc]
SweepOff == sweep' = [pc |-> "off", idle |-> FALSE]

\* The verdict is from the start of the sweep; nothing looks at the heartbeat
\* again.  What is not idle is only looked at while a session is ACTIVE and its
\* latest snapshot is old.
SweepStarts ==
    /\ sweep.pc = "off" /\ row.status = "RUNNING"
    /\ row.idle \/ active
    /\ sweep' = [pc |-> "list", idle |-> row.idle]
    /\ \E id \in Id : NewId(id) /\ keep' = [keep EXCEPT !["sweep"].id = id]
    /\ Unless(keep["user"].pc = "off", "overlapping")
    /\ UNCHANGED <<row, txn, active, pod, ws, rows, blob, request, turn, done>>

\* list_session_workspaces: a directory, nothing, or an error taken for nothing.
Listed ==
    \/ /\ pod = "well" /\ ws.there
       /\ keep' = [keep EXCEPT !["sweep"].pc = "archive"]
       /\ SweepTo("keep")
       /\ UNCHANGED faults
    \/ /\ IF sweep.idle THEN SweepTo("reap") /\ UNCHANGED keep
                         ELSE SweepOff /\ KeepDone("sweep")
       /\ Unless(pod # "well" \/ ~ws.there, "exec_error")
SweepLists ==
    /\ sweep.pc = "list"
    /\ Listed
    /\ UNCHANGED <<row, txn, active, pod, ws, rows, blob, request, turn, done>>

\* The snapshot is committed, or there was nothing to snapshot.
SweepKept(pc) ==
    /\ sweep.pc = "keep"
    /\ KeepDone("sweep")
    /\ IF sweep.idle THEN SweepTo(pc) ELSE SweepOff
SweepCommits ==
    /\ keep["sweep"].pc = "commit"
    /\ SweepKept("reap")
    /\ rows' = Kept("sweep")
    /\ UNCHANGED <<row, txn, active, pod, ws, blob, request, turn, done, faults>>
SweepFindsNothing ==
    /\ keep["sweep"].pc = "archive"
    /\ pod = "well" /\ ~ws.there
    /\ SweepKept("reap")
    /\ UNCHANGED <<row, txn, active, pod, ws, rows, blob, request, turn, done, faults>>

\* Faulty variants: a failed snapshot is logged only; the pod is spared, not the row.
Regardless == "reap"
PodSpared == "sleep"
\* snapshot_failed gates the reap.
AfterFailure == "probe"
SweepFails ==
    /\ keep["sweep"].pc = "archive"
    /\ Unless(pod # "well", "snapshot_fails")
    /\ SweepKept(AfterFailure)
    /\ UNCHANGED <<row, txn, active, pod, ws, rows, blob, request, turn, done>>

\* A reachable pod is left RUNNING for the next sweep.
SweepProbes ==
    /\ sweep.pc = "probe"
    /\ IF pod = "well" THEN SweepOff ELSE SweepTo("reap")
    /\ UNCHANGED <<row, txn, active, pod, ws, snapshots, request, turn, done, faults>>

SweepReaps ==
    /\ sweep.pc = "reap"
    /\ Terminate
    /\ SweepTo("sleep")
    /\ KeepDone("sweep")
    /\ UNCHANGED <<row, txn, active, rows, blob, request, turn, done, faults>>

\* The row is put to sleep whatever became of it meanwhile.
SweepSleeps ==
    /\ sweep.pc = "sleep"
    /\ RowFree
    /\ SetStatus("SLEEPING")
    /\ active' = FALSE
    /\ SweepOff
    /\ UNCHANGED <<txn, pod, ws, snapshots, request, turn, done, faults>>

\* Anything else that raises leaves the sandbox for the next sweep.
SweepRaises ==
    /\ sweep.pc \in {"list", "probe", "reap"}
    /\ Fault("raises")
    /\ SweepOff
    /\ KeepDone("sweep")
    /\ UNCHANGED <<row, txn, active, pod, ws, rows, blob, request, turn, done>>

Sweep == SweepLists \/ KeepArchives("sweep")
         \/ KeepPrunes("sweep") \/ KeepSkipsPrune("sweep") \/ SweepCommits
         \/ SweepFindsNothing \/ SweepFails \/ SweepProbes \/ SweepReaps \/ SweepSleeps
         \/ SweepRaises

-----------------------------------------------------------------------------
(* restore_session *)

RestoreTo(r, pc) == restore' = [restore EXCEPT ![r].pc = pc]
Loaded(r) == restore' = [restore EXCEPT ![r].pc = "answer", ![r].seen = TRUE]
Release(r) == lock' = IF lock = r THEN Nobody ELSE lock
\* All a restore leaves alone in most steps.
Elsewhere == <<txn, rows, blob, keep, sweep, turn, done>>

\* Faulty variant: only a sleeping sandbox is woken.
IfAsleep == CASE row.status = "RUNNING" -> "probe"
              [] row.status = "SLEEPING" -> "wake"
              [] OTHER -> "answer"
Entry == CASE row.status = "RUNNING" -> "probe"
           [] row.status \in {"SLEEPING", "TERMINATED"} -> "wake"
           [] OTHER -> "answer"
\* 409 unless the lock is free.  The status is read under the lock.
RestoreStarts(r) ==
    /\ restore[r].pc = "off" /\ lock = Nobody
    /\ lock' = r
    /\ RestoreTo(r, Entry)
    /\ UNCHANGED <<row, active, pod, ws, faults, Elsewhere>>

RestoreProbes(r) ==
    /\ restore[r].pc = "probe"
    /\ \/ /\ pod = "well" /\ ws.there
          /\ Loaded(r)
          /\ active' = TRUE
          /\ UNCHANGED faults
       \/ /\ pod = "well"
          /\ RestoreTo(r, "load")
          /\ Unless(~ws.there, "exec_error")
          /\ UNCHANGED active
       \/ /\ pod # "well"
          /\ RestoreTo(r, "terminate")
          /\ UNCHANGED <<active, faults>>
    /\ UNCHANGED <<row, pod, ws, lock, Elsewhere>>

RestoreTerminates(r) ==
    /\ restore[r].pc = "terminate"
    /\ Terminate
    /\ RestoreTo(r, "terminated")
    /\ UNCHANGED <<row, active, lock, faults, Elsewhere>>
RestoreTerminated(r) ==
    /\ restore[r].pc = "terminated"
    /\ RowFree
    /\ SetStatus("TERMINATED")
    /\ RestoreTo(r, "wake")
    /\ UNCHANGED <<active, pod, ws, lock, faults, Elsewhere>>

RestoreWakes(r) ==
    /\ restore[r].pc = "wake"
    /\ RowFree
    /\ SetStatus("PROVISIONING")
    /\ RestoreTo(r, "provision")
    /\ UNCHANGED <<active, pod, ws, lock, faults, Elsewhere>>
RestoreProvisions(r) ==
    /\ restore[r].pc = "provision"
    /\ Provision
    /\ RestoreTo(r, "up")
    /\ UNCHANGED <<row, active, lock, faults, Elsewhere>>
RestoreUp(r) ==
    /\ restore[r].pc = "up"
    /\ RowFree
    /\ SetRunning
    /\ RestoreTo(r, "ready")
    /\ UNCHANGED <<active, pod, ws, lock, Elsewhere>>
\* The row is read again after that commit; a sandbox that does not run is
\* logged, and reported as loaded.
Loading(r) == restore[r].pc = "load" \/ (restore[r].pc = "ready" /\ row.status = "RUNNING")
RestoreSkipsLoad(r) ==
    /\ restore[r].pc = "ready" /\ row.status # "RUNNING"
    /\ RestoreTo(r, "answer")
    /\ UNCHANGED <<row, active, pod, ws, lock, faults, Elsewhere>>

\* session_workspace_exists: FALSE if the exec fails.
Missing == pod # "well" \/ ~ws.there
RestoreFinds(r) ==
    /\ Loading(r)
    /\ pod = "well" /\ ws.there
    /\ Loaded(r)
    /\ UNCHANGED <<row, active, pod, ws, lock, faults, Elsewhere>>
RestoreMisses(r) ==
    /\ Loading(r)
    /\ Unless(Missing, "exec_error")
    /\ \E s \in Id \cup {0} :
         /\ IF rows = {} THEN s = 0 ELSE Latest(s)
         /\ restore' = [restore EXCEPT ![r].pc = "extract", ![r].snapshot = s]
    /\ UNCHANGED <<row, active, pod, ws, lock, Elsewhere>>

\* restore_snapshot puts the archived files in the place of what is there; a
\* template leaves them.
Extracted(s) == IF s = 0 THEN [ws EXCEPT !.there = TRUE] ELSE blob[s]
Extractable(r) == pod = "well" /\ (restore[r].snapshot # 0 => blob[restore[r].snapshot].there)
RestoreExtracts(r) ==
    /\ restore[r].pc = "extract" /\ Extractable(r)
    /\ ws' = Extracted(restore[r].snapshot)
    /\ \/ active' = TRUE /\ Loaded(r) /\ UNCHANGED faults
       \/ Fault("load_fails") /\ RestoreTo(r, "recover") /\ UNCHANGED active
    /\ UNCHANGED <<row, pod, lock, Elsewhere>>

RestoreFails(r) ==
    /\ \/ restore[r].pc = "provision" /\ NotProvisioned
       \/ restore[r].pc = "extract" /\ ~Extractable(r) /\ UNCHANGED faults
       \/ restore[r].pc \in {"probe", "terminate", "wake", "load"} /\ Fault("raises")
    /\ RestoreTo(r, "recover")
    /\ UNCHANGED <<row, active, pod, ws, lock, Elsewhere>>

\* Faulty variants: only a workspace is dropped; the failure is recorded.
Untouched == row
Failed == IF row.status = "PROVISIONING" THEN [row EXCEPT !.status = "FAILED"] ELSE row
\* A sandbox that could not be provisioned goes back to sleep.
Rollback == IF row.status = "PROVISIONING" THEN [row EXCEPT !.status = "SLEEPING"] ELSE row
\* On a RUNNING sandbox the workspace is dropped, or left if that fails.
RestoreRecovers(r) ==
    /\ restore[r].pc = "recover"
    /\ RowFree
    /\ row' = Rollback
    /\ \/ /\ ws' = IF row.status = "RUNNING" /\ pod = "well" THEN None ELSE ws
          /\ UNCHANGED faults
       \/ /\ row.status = "RUNNING" /\ pod = "well"
          /\ Fault("exec_error")
          /\ UNCHANGED ws
    /\ restore' = [restore EXCEPT ![r] = NoRestore]
    /\ Release(r)
    /\ UNCHANGED <<active, pod, Elsewhere>>

\* session_loaded_in_sandbox=True, and a heartbeat.
RestoreAnswers(r) ==
    /\ restore[r].pc = "answer"
    /\ RowFree
    /\ row' = [row EXCEPT !.idle = FALSE]
    /\ restore' = [restore EXCEPT ![r] = NoRestore]
    /\ Release(r)
    /\ UNCHANGED <<active, pod, ws, faults, Elsewhere>>

RestoreStep(r) ==
    \/ RestoreProbes(r) \/ RestoreTerminates(r) \/ RestoreTerminated(r)
    \/ RestoreWakes(r) \/ RestoreProvisions(r) \/ RestoreUp(r) \/ RestoreSkipsLoad(r)
    \/ RestoreFinds(r) \/ RestoreMisses(r) \/ RestoreExtracts(r) \/ RestoreFails(r)
    \/ RestoreRecovers(r) \/ RestoreAnswers(r)

-----------------------------------------------------------------------------
(* ensure_sandbox_ready, and the turn it is called for *)

TurnTo(c, pc) == turn' = [turn EXCEPT ![c] = pc]
ByStatus == CASE row.status = "RUNNING" -> "check"
              [] row.status = "PROVISIONING" -> "poll"
              [] OTHER -> "provision"

TurnStarts(c) ==
    /\ turn[c] = "off"
    /\ TurnTo(c, ByStatus)
    /\ UNCHANGED <<row, txn, active, pod, ws, snapshots, sweep, request, done, faults>>
\* It waits for who is provisioning, but not for long.
TurnPolls(c) ==
    /\ turn[c] = "poll"
    /\ TurnTo(c, IF row.status = "PROVISIONING" THEN "off" ELSE ByStatus)
    /\ UNCHANGED <<row, txn, active, pod, ws, snapshots, sweep, request, done, faults>>
\* A healthy pod is returned as it is: no heartbeat.
TurnChecks(c) ==
    /\ turn[c] = "check"
    /\ TurnTo(c, IF pod = "well" THEN "work" ELSE "terminate")
    /\ UNCHANGED <<row, txn, active, pod, ws, snapshots, sweep, request, done, faults>>
TurnTerminates(c) ==
    /\ turn[c] = "terminate"
    /\ Terminate
    /\ Mark(pod = "well", "late_terminate")
    /\ TurnTo(c, "terminated")
    /\ UNCHANGED <<row, txn, active, snapshots, sweep, request, done>>
\* TERMINATED is flushed, and not committed until the pod is up.
TurnTerminated(c) ==
    /\ turn[c] = "terminated"
    /\ RowFree
    /\ txn' = c
    /\ TurnTo(c, "provision")
    /\ UNCHANGED <<row, active, pod, ws, snapshots, sweep, request, done, faults>>
TurnProvisions(c) ==
    /\ turn[c] = "provision"
    /\ Provision
    /\ TurnTo(c, "commit")
    /\ UNCHANGED <<row, txn, active, snapshots, sweep, request, done, faults>>

Rolled(c) == txn' = IF txn = c THEN Nobody ELSE txn
TurnFails(c) ==
    /\ \/ turn[c] = "provision" /\ NotProvisioned
       \/ turn[c] \in {"check", "terminate"} /\ Fault("raises")
    /\ Rolled(c)
    /\ TurnTo(c, "off")
    /\ UNCHANGED <<row, active, pod, ws, snapshots, sweep, request, done>>
TurnCommits(c) ==
    /\ turn[c] = "commit"
    /\ txn \in {c, Nobody}
    /\ SetRunning
    /\ txn' = Nobody
    /\ TurnTo(c, "work")
    /\ UNCHANGED <<active, pod, ws, snapshots, sweep, request, done>>

\* The idle sweep has taken the archive it will reap with.
Reaping == sweep.idle /\ (sweep.pc \in {"probe", "reap"} \/ keep["sweep"].pc \in {"prune", "commit"})
\* The agent works where the turn was sent: in the session's directory.
TurnWorks(c) ==
    /\ turn[c] = "work" /\ pod = "well"
    /\ \E w \in Work \ done :
         /\ done' = done \cup {w}
         /\ ws' = [there |-> TRUE, files |-> ws.files \cup {w}]
    /\ \/ ws.there /\ Unless(~Reaping, "reaped_midturn")
       \/ ~ws.there /\ ~Reaping /\ Fault("unrestored_turn")
    /\ UNCHANGED <<row, txn, active, pod, snapshots, sweep, request, turn>>
TurnEnds(c) ==
    /\ turn[c] = "work"
    /\ TurnTo(c, "off")
    /\ UNCHANGED <<row, txn, active, pod, ws, snapshots, sweep, request, done, faults>>

TurnStep(c) == TurnPolls(c) \/ TurnChecks(c) \/ TurnTerminates(c) \/ TurnTerminated(c)
               \/ TurnProvisions(c) \/ TurnFails(c) \/ TurnCommits(c) \/ TurnEnds(c)

-----------------------------------------------------------------------------
(* Time, pods and crashes *)

\* An hour without a heartbeat: a restore is over sooner.
GoesIdle ==
    /\ row.status = "RUNNING" /\ ~row.idle /\ RowFree
    /\ \A r \in Restore : restore[r].pc \in {"off", "probe"}
    /\ row' = [row EXCEPT !.idle = TRUE]
    /\ UNCHANGED <<txn, active, pod, ws, snapshots, sweep, request, turn, done, faults>>

PodDies ==
    /\ pod # "none"
    /\ Fault("pod_lost")
    /\ Terminate
    /\ UNCHANGED <<row, txn, active, snapshots, sweep, request, turn, done>>
PodSickens ==
    /\ pod = "well"
    /\ Fault("sick")
    /\ pod' = "sick"
    /\ UNCHANGED <<row, txn, active, ws, snapshots, sweep, request, turn, done>>
PodRecovers ==
    /\ pod = "sick"
    /\ pod' = "well"
    /\ UNCHANGED <<row, txn, active, ws, snapshots, sweep, request, turn, done, faults>>

\* The lock of a restore lives five minutes.
LockExpires ==
    /\ lock # Nobody
    /\ Unless(restore[lock].pc = "off", "slow_restore")
    /\ lock' = Nobody
    /\ UNCHANGED <<row, txn, active, pod, ws, snapshots, sweep, restore, turn, done>>

\* A crash loses what is not committed, and releases no lock of the cache.
SweepKilled ==
    /\ sweep.pc # "off"
    /\ Fault("killed")
    /\ SweepOff
    /\ KeepDone("sweep") /\ Orphaned("sweep")
    /\ UNCHANGED <<row, txn, active, pod, ws, rows, request, turn, done>>
UserKilled ==
    /\ keep["user"].pc # "off"
    /\ Fault("killed")
    /\ KeepDone("user") /\ Orphaned("user")
    /\ UNCHANGED <<row, txn, active, pod, ws, rows, sweep, request, turn, done>>
RestoreKilled(r) ==
    /\ restore[r].pc # "off"
    /\ Fault("killed")
    /\ restore' = [restore EXCEPT ![r] = NoRestore]
    /\ UNCHANGED <<row, active, pod, ws, lock, Elsewhere>>
TurnKilled(c) ==
    /\ turn[c] # "off"
    /\ Fault("killed")
    /\ Rolled(c)
    /\ TurnTo(c, "off")
    /\ UNCHANGED <<row, active, pod, ws, snapshots, sweep, request, done>>

-----------------------------------------------------------------------------
(* The specification *)

\* A session that was just created, in a sandbox that was just provisioned.
Init ==
    /\ row = [status |-> "RUNNING", idle |-> FALSE]
    /\ txn = Nobody
    /\ active = TRUE
    /\ pod = "well"
    /\ ws = [there |-> TRUE, files |-> {}]
    /\ rows = {}
    /\ blob = [s \in Id |-> None]
    /\ sweep = [pc |-> "off", idle |-> FALSE]
    /\ keep = [a \in Snapper |-> NoKeep]
    /\ lock = Nobody
    /\ restore = [r \in Restore |-> NoRestore]
    /\ turn = [c \in Turn |-> "off"]
    /\ done = {}
    /\ faults = [count |-> 0, hazards |-> {}]

Next ==
    \/ SweepStarts \/ Sweep \/ SweepKilled
    \/ User \/ UserKilled
    \/ \E r \in Restore : RestoreStarts(r) \/ RestoreStep(r) \/ RestoreKilled(r)
    \/ \E c \in Turn : TurnStarts(c) \/ TurnWorks(c) \/ TurnStep(c) \/ TurnKilled(c)
    \/ GoesIdle \/ PodDies \/ PodSickens \/ PodRecovers \/ LockExpires

Spec == Init /\ [][Next]_vars

-----------------------------------------------------------------------------
(* Properties *)

Shown(kinds) == faults.hazards \cap kinds # {}
\* The work in the snapshot a restore takes, or will once a commit is through.
Committing == {a \in Snapper : keep[a].pc = "commit"}
Safe == UNION {blob[s].files : s \in {t \in rows : Latest(t)} \cup {keep[a].id : a \in Committing}}

\* No work is lost ("fail-closed", tasks.py): it is in the pod, or in the snapshot
\* a restore takes, whatever sweeps, requests and turns do, whether snapshots and
\* prunes succeed or not, and also when the sandbox is woken in the middle of a
\* sweep.  Any other hazard can lose what was done since the last snapshot.
Lossless == {"snapshot_fails", "prune_fails", "woken_midsweep"}
WorkKept == done \subseteq ws.files \cup Safe \/ Shown(HazardKinds \ Lossless)

\* What a restore would load only grows: a snapshot replaces the one before when it
\* holds all of its work (create_session_snapshot_keep_latest deletes the other).
\* Not so if a restore put an older state back while a sweep held a newer archive.
SnapshotsGrow ==
    [][Safe \subseteq Safe'
       \/ Shown(HazardKinds \ (Lossless \cup {"reaped_midturn"}))']_vars

\* A snapshot row never refers to a blob that is gone, except while its own
\* replacement is being committed: blobs are deleted before the commit.
RowsHaveBlobs ==
    \/ \A s \in rows : blob[s].there \/ \E a \in Committing : s \in keep[a].prior
    \/ Shown({"killed"})

\* A pod nobody is busy with belongs to a RUNNING row: no sweep would ever reap, or
\* snapshot, any other (get_running_sandboxes).
PodAccounted ==
    \/ pod = "none" \/ row.status = "RUNNING"
    \/ sweep.pc # "off" \/ (\E r \in Restore : restore[r].pc # "off")
    \/ \E c \in Turn : turn[c] \notin {"off", "work"}
    \/ Shown({"woken_midsweep", "sick", "raises", "provision_fails", "killed"})

\* A restore that answers session_loaded_in_sandbox has found the workspace or has
\* loaded it, although it does not look at what its branches left undone.
AnswersHonestly ==
    \/ \A r \in Restore : restore[r].pc = "answer" => restore[r].seen
    \/ Shown({"woken_midsweep", "slow_restore", "killed"})

\* PROVISIONING is never left behind ("back to SLEEPING so it isn't stuck", api.py):
\* a restore is about to take the sandbox out of it.  Nobody else would.
ProvisioningOwned ==
    \/ row.status # "PROVISIONING"
    \/ \E r \in Restore : restore[r].pc \in {"provision", "up", "recover"}
    \/ Shown({"killed"})

\* What the sweep says of itself: "terminating with an unsnapshotted workspace
\* loses it", so a reachable pod is only reaped when its work is in a snapshot.
NothingUnsavedReaped ==
    [][sweep.pc = "reap" /\ sweep.pc' = "sleep" /\ pod = "well" => ws.files \subseteq Safe]_vars
=============================================================================

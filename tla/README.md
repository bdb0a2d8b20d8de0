# Formal verification of PMORG-Platform

PMORG-Platform is a governed fork of Onyx: a Python backend (`src/backend/onyx`) that pulls
documents from external sources, indexes them and answers questions over them, with a governance
layer (`src/backend/pmorg`), an agent workspace ("Craft") and several front ends. This directory
holds TLA+ models of the parts whose correctness rests on the order of steps taken by several
processes, the TLC runs that check them, and theorems checked by TLAPS.

## 1. Inventory

State, operations, interaction and difficulty of each part; `PROJECT.json` lists the sources.

| Part | State it keeps | Operations and interaction | What is hard, and what must hold |
|---|---|---|---|
| Index attempt coordination (`check_for_indexing`) | `IndexAttempt` rows | beat task, one at a time: creates attempts, cancels, invalidates dead ones, completes finished ones | acts on rows that docfetching, docprocessing and API requests change meanwhile. One attempt active; verdicts final; every attempt ends |
| Document fetching | checkpoint, batch number, position of the connector, in a process of its own beside a watchdog | runs the connector, stores each batch as a file, sends a task for it, saves the checkpoint | the process may die at every step; the next attempt resumes from what is left. No page skipped, no batch lost or overwritten |
| Document processing | a worker thread's batch; two Redis counters per attempt | Celery task per batch: index, count, record failures, delete the file | tasks are late, fail, run twice; counts race with the monitor |
| Checkpoints | one file per attempt, pointer in the row | saved after each connector run, loaded by a later attempt | must never run ahead of what is kept |
| Batch file store | files named by cc pair, attempt and number | store, list, rename, delete, cleanup | shared by successive attempts, matched by name prefix |
| Connector deletion | Redis fence, active signal, stop fence and task set; cc pair status; document rows, their relationships, the index | API marks the pair; beat fences it, waits, sends a cleanup task per document, monitors, validates, removes the pair | documents are shared with pairs that index on; tasks decide on counts read earlier. A live pair keeps its documents, a deleted one leaves nothing, every deletion ends |
| Vespa metadata sync | `last_modified`/`last_synced`, fences | per-document tasks, monitored | document changes during its sync |
| Pruning, permission sync, group sync, hierarchy | fences, task sets, generator progress | as connector deletion | as connector deletion |
| User files, targeted reindex | row status, Redis locks and queue keys | per-file tasks | duplicate tasks, deletion during processing |
| Index swap, OpenSearch migration | search settings status | swap when all attempts succeeded | two settings indexed at once |
| Craft approvals (sandbox proxy gate) | approval rows; wake lists and grant keys in the cache; the hooks parked in the proxy | a request of the agent parks in the proxy until a user, a grant, its deadline, a disconnect or a drain decides its row | five parties in three processes decide one row, and wakes get lost. One decision per row; the sandbox is told what the row says; grants do not spread; nobody waits for ever |
| Craft interactive turns | turns, active pointer, prompt slot and interrupt fence, all in the cache; runner threads | `send_message` queues; runners claim, drive opencode, write a verdict; clients attach, read and interrupt | runners stall, die, are taken for dead and come back. One prompt at a time, each posted once, one active turn, verdicts and interrupts kept, every turn ends |
| Craft sandbox lifecycle | sandbox row, pod, workspace, snapshot rows and archives, restore lock | idle sweep, snapshot request, restore, wake for a turn | the sweep acts on what it read when it began; only restores exclude one another. No work lost, rows, pods and archives agree |
| Craft scheduled tasks | task and run rows, messages of the executor queue | beat dispatches what is due; executors wake the sandbox, drive a session and write a verdict; a sweep fails what hangs | dispatcher, executor, sweep and user write one row by its id, whatever it says; only ages keep them apart. One agent at a time, verdicts final, pre-approval that ends with the run, no run in flight for ever |
| Chat | stop fence, processing marker, stream buffer in the cache | request-scoped | stop signal of an earlier message |
| PMORG governance | admission leases, evidence | admit, qualify, report | mostly pure functions |
| Connectors, LLMs, tools, vector stores | none of interest | external I/O | represented by what they return |
| Front ends, deployment | none of interest | | |

The core is the indexing pipeline: everything else consumes its result, its state is spread over
Postgres, Redis, the broker, the file store and process memory, and its failures are silent
(documents that are never searched for again).

## 2. Plan

| # | Module | Content | Status |
|---|---|---|---|
| 1 | `DocumentIndexing`, `MCDocumentIndexing` | attempts, docfetching, docprocessing, monitor of one cc pair | done |
| 2 | `DocumentIndexing_proofs` | types, one active attempt, no resurrection | done |
| 3 | `AttemptLifecycle` | the life cycle an attempt promises the rest of the system; `DocumentIndexing` refines it, with proof | done |
| 4 | `SyncPromise` | what the indexing of a source promises to those who search it; `DocumentIndexing` refines it, with proof | done |
| 5 | `ConnectorDeletion`, `MCConnectorDeletion` | deletion of cc pairs that share documents, beside the indexing and the metadata sync of those documents | done |
| 6 | `ConnectorDeletion_proofs` | types; no task outlives its pair; nothing is orphaned, and live pairs keep their documents | done |
| 7 | `ApprovalGate`, `MCApprovalGate` | approvals of a session's requests: gate, grants, waits, drain, API | done |
| 8 | `ApprovalGate_proofs` | all its safety properties | done |
| 9 | `InteractiveTurns`, `MCInteractiveTurns` | the turns of a session, their runners, prompts and interrupts | done |
| 10 | `InteractiveTurns_proofs` | all its safety properties | done |
| 11 | `SandboxLifecycle`, `MCSandboxLifecycle` | sweep, snapshots, restores and wakes of a sandbox | done |
| 12 | `SandboxLifecycle_proofs` | all its safety properties | done |
| 13 | `ScheduledRuns`, `MCScheduledRuns` | the runs of a scheduled task: dispatcher, executors, sweep, messages | done |
| 14 | `ScheduledRuns_proofs` | all its safety properties | done |
| 15 | `DocumentCoverage_proofs` | no document skipped, checkpoints covered, no batch overwritten, verdicts final, and the refinement of `SyncPromise`, without hazards | done |
| 16 | `BatchStorage` | the file store by name, several cc pairs: isolation of one from another | open |
| 17 | `MetadataSync` | generation of sync tasks, document set and user group fences (the sync task itself is in 5) | open |

Each module stands for one component with its environment; `DocumentIndexing` is composed with
`AttemptLifecycle` and `SyncPromise` by `INSTANCE ... WITH`. `ConnectorDeletion` sees the indexing of
a pair only as an attempt that starts and ends and as batches that write documents; that attempts end
is what `AttemptsEnd` of the other module promises it.

## 3. `DocumentIndexing`

### State

| Variable | Code |
|---|---|
| `row` | the `IndexAttempt` rows of one cc pair and one search settings (`db/models.py`), the columns decisions read; the content of the checkpoint file is kept with its row |
| `last` | number of attempts created |
| `newer` | the order of `time_updated`, set by every UPDATE of a row (`onupdate`), heartbeats included |
| `files` | batch files `iab/{cc_pair}/{attempt}/{num}.json`, each with the page it holds |
| `queue` | docprocessing tasks in the broker |
| `pending`, `inFlight` | `docprocessing_pending_{id}`, `docprocessing_in_flight_{id}` |
| `fetcher` | the docfetching process of each attempt: program counter and the local variables that survive a step |
| `worker` | docprocessing worker threads |
| `monitor` | `monitor_indexing_attempt_progress` between its read, its mark, its exception handler and its cleanup |
| `ccPair` | whether the cc pair is paused (its status in Postgres) and its stop fence (Redis) |
| `handled` | pages whose documents went through the pipeline, or whose failure to be fetched is recorded |
| `faults` | number of faults so far; it bounds the model and decides nothing else |

A *page* is what a connector yields between two calls of `store_batch`. The source gains
`PerTick` pages per tick, and a poll window `start..end` holds the pages between. A connector may
yield its next checkpoint after any page.

### Actions

| Actions | Code |
|---|---|
| `CreateAttempt` | `try_creating_docfetching_task`, `try_create_index_attempt` |
| `MonitorCancel`, `MonitorRead`, `MonitorMark`, `MonitorClean` | `monitor_indexing_attempt_progress`, `check_indexing_completion` |
| `MonitorRaises`, `MonitorStops` | an exception before or after the verdict, whose handler marks the attempt `FAILED` or fails to; a cleanup that fails halfway, which is only logged, or the death of the beat's worker |
| `Invalidate`, `InvalidateBlindly`, `ExpireNotStarted` | `validate_active_indexing_attempts`; the second when the Redis counters cannot be read |
| `Pause`, `Resume` | `update_cc_pair_status` |
| `DropStopFence` | `check_for_connector_deletion_task`, for a cc pair that is not being deleted |
| `Begin`, `BeginBlocked` | `_docfetching_task`, `run_docfetching_entrypoint` |
| `OpenWindow`, `StartOver`, `LoadCheckpoint`, `ListOld`, `SendOld`, `AdoptCount`, `SaveCheckpoint` | `connector_document_extraction` up to its loop, `reissue_old_batches` |
| `Check`, `FetchBatch`, `Enqueue`, `ConnectorFailure`, `EndRun`, `SetTotal` | the loop and what follows it |
| `StopFetch`, `NotRunningAnymore`, `FetchError` | its exception handlers |
| `FetchKilled`, `LoseFetch`, `WatchdogKills`, `WatchdogFails`, `MemoryLimitHit` | death of the process, loss of its task, `docfetching_proxy_task` |
| `Heartbeat` | the heartbeat thread |
| `Pickup`, `Refuse`, `UsageLimitHit`, `Index`, `Count`, `Record`, `Delete` | prerun, `_docprocessing_task`, postrun |
| `TaskFails`, `Crash`, `VisibilityTimeout` | its exception handler; a killed worker; redelivery by the broker |

Steps are cut where another process can act: at each commit, each file operation, each task sent
and each read whose result is used later (`checked` is the gap between the status check and
`store_batch`; `mark` that between the monitor's read and its verdict, `clean` and `handler` those between a verdict, the
exception handler and the cleanup). The monitor's own steps follow one another, for the task holds a
lock. An exception of the cleanup itself is caught where it is raised and does not reach the handler.

### Abstractions

- Renaming all old files is one step, of the S3 file store (the default): of two files of one
  number, which only hazards produce, one replaces the other. The lock and the row check of
  `CreateAttempt` are one step too.
- `PERSISTENT_INDEXING` is off, as by default.
- The clock moves past the last window when a new one is opened (`Now`). Once the ticks are used
  up, no attempt that would need a new window is created (`WindowLeft`).
- A heartbeat times out only for an attempt that nobody works on, and long after the monitor had
  the chance to complete it (`Silent`, `~Complete`).
- The checkpoint a connector yields at the end of a run is described by the last page before it.
- `get_latest_valid_checkpoint` ignores checkpoints after a long row of attempts without progress;
  with the attempts a run creates that never happens, and the hazard `unreadable` has its outcome.
- Not modelled: see the notes of the components in `PROJECT.json`.

### Hazards

What the environment may do is split into *faults*, allowed in every run and bounded by
`MaxFaults` (killed processes and workers, failing tasks, lost tasks, failed pages, errors,
exceptions of the monitor, unreadable counters, the memory limit, cancellations by pause, exhausted
usage limits), and *hazards*, which the code is exposed to but
does not survive. A hazard is allowed when the constant `Hazards` names it:

| Hazard | What happens under it | Fails, on the instance of `retry` |
|---|---|---|
| `redelivery` | batches are counted twice, an attempt is complete while one of its batches waits | `NoDocumentSkipped`, `CheckpointCovered`, `VerdictIsFinal`, `KeepsPromise` |
| `early_death` | wrong batch numbers, files overwritten | `NoBatchOverwritten` |
| `straggler` | a process whose attempt was failed is still running when the next attempt lists the files | `NoDocumentSkipped`, `CheckpointCovered`, `NoBatchOverwritten` |
| `fast_pickup` | `AdoptCount` overwrites the count of a reissued batch that was already processed; the attempt ends by heartbeat timeout only, and the next one takes a number that is in use | `NoBatchOverwritten` |
| `reindex` | a from-beginning run removes the files of an unsuccessful attempt, dies before it saves a checkpoint, and the older checkpoint is used | `NoDocumentSkipped`, `CheckpointCovered`, `KeepsPromise` |
| `unreadable` | the same, after a checkpoint file that could not be read | `NoDocumentSkipped`, `CheckpointCovered`, `KeepsPromise` |

So the passing runs `retry` and `windows` say: whatever *faults* happen, in any order, nothing is
lost as long as none of these six hazards does. The run `ends` allows all six: one attempt
at a time, its life cycle and its end are promised under them too.

### Abstract specifications

`AttemptLifecycle` knows of an attempt only whether it is absent, waiting, running or ended:

| `AttemptLifecycle` | `DocumentIndexing` |
|---|---|
| `phase[a]` | `Phase(a)`: absent beyond `last`, waiting while `NOT_STARTED`, running while `IN_PROGRESS`, else ended |
| `Create(a)` | `CreateAttempt` |
| `Start(a)` | `Begin` |
| `End(a)` | `MonitorCancel`, `MonitorMark`, `MonitorRaises` before the verdict, `Invalidate`, `InvalidateBlindly`, `ExpireNotStarted`, `WatchdogFails`, `MemoryLimitHit`, and the steps of the process that fail or cancel its attempt |

`SyncPromise` states what a search relies on: the end of the last successful window only grows, and
only over pages that were indexed. The monitor may take a success back in the pass that gave it: an
exception after `mark_attempt_succeeded` has committed makes its handler mark the attempt `FAILED`.
No attempt is created before the pass is over, so a success counts from then on; that the time never
goes back would be false of the rows alone.

| `SyncPromise` | `DocumentIndexing` |
|---|---|
| `running` | some attempt is active, or the monitor's pass over a marked attempt is not over (`InPass`) |
| `upTo` | `LastSuccessEnd`, the greatest `poll_range_end` of a successful attempt that the monitor is done with |
| `indexed` | `handled` |

The first holds under every hazard (run `ends`, theorem `ImplementsLifecycle`), the second without
hazards (run `windows`).

## 4. `ConnectorDeletion`

### State

| Variable | Code |
|---|---|
| `status` | `ConnectorCredentialPair.status`: `LIVE` stands for every status but `DELETING`, `DELETED` for the row being gone |
| `indexing` | pairs whose most recent index attempt is `IN_PROGRESS` |
| `batch` | the indexing pipeline of one document for each pair, cut at its commits |
| `pruning` | the fences of pruning and permission sync that a deletion waits for |
| `doc`, `dirty`, `holders` | `Document` rows with their content hash, `last_modified > last_synced`, `DocumentByConnectorCredentialPair` rows |
| `indexed`, `access` | the document index: which documents it holds, and the pairs whose access they carry |
| `fence`, `active`, `taskset` | `connectordeletion_fence_{id}` (`setup` while `num_tasks` is unset, then `ready`), `connectordeletion_active_{id}`, `connectordeletion_taskset_{id}` |
| `stop` | `connectorstop_fence_{id}` and its timeout |
| `task`, `gen` | cleanup tasks, identified by pair, document and generation |
| `sync` | `document_index_metadata_sync_task` of each document |
| `beat` | `check_for_connector_deletion_task`, at one pair |
| `delivered` | history: what a live pair has indexed with success and may rely on |
| `faults` | number of faults, which bounds the model |

### Actions

| Actions | Code |
|---|---|
| `RequestDeletion`, `Reactivate` | `create_deletion_attempt_for_connector_id`, `update_cc_pair_status` |
| `StartAttempt`, `EndAttempt`, `PruneStart`, `PruneEnd` | the other jobs of a pair, by what a deletion sees of them |
| `StartBatch` (`Upsert`, `Skip`), `Relate`, `Lock`, `Write`, `Commit`, `BatchFails` | `index_doc_batch_prepare`, `lock_context`, the write to the index, `post_index` |
| `Pickup`, `IndexDelete`, `Forget`, `IndexUpdate`, `Detach`, `Retry`, `LastRetry`, `GiveUp`, `Postrun`, `Redeliver` | `document_by_cc_pair_cleanup_task` with its three phases and its error handling; `on_task_postrun`; the broker |
| `SyncAtOnce`, or `SyncRead`, `SyncWrite`, `SyncMark` | the metadata sync, whole or in steps (hazard `sync_race`) |
| `SetFence`, `Blocked`, `Collect`, `Track`, `Send`, `Arm`, `GenerationFails` | `try_generate_document_cc_pair_cleanup_tasks`, `generate_tasks`, `TaskDependencyError` |
| `StopTimesOut`, `DropStop` | the stop fence |
| `StartOver`, `NothingLeft`, `RemovePair`, `ClearFence` | `monitor_connector_deletion_taskset` |
| `Renew`, `Abandon`, `ActiveExpires` | `validate_connector_deletion_fence` and the TTL it works with |
| `BeatDies` | the beat task ends anywhere |

### Abstractions

- Every pair has a connector and a credential of its own, so that the rows a relationship refers
  to go with the pair. Chunks, document sets, tags, attached files, the knowledge graph and sync
  records share the fate of the document and are left out.
- A batch is one document. `get_docs_to_update` is abstracted to its outcome: a document is new or
  changed (`Upsert`) or has the hash already stored (`Skip`).
- Taking the row lock and reading the access lists is one step, for nothing else can change the
  document while the lock is held; statements that need the row wait for the lock (`Locked`).
- The update of a document that is not in the index does nothing.
- An active signal outlives a fence unless the beat has abandoned it, or tasks are slow (hazard).

### Hazards

As above, `Hazards` names what the environment may do beyond faults. The table shows which
properties fail with one hazard allowed, two pairs, one document, and at most two faults:

| Hazard | `LiveDocumentsKept` | `NoOrphans` | `NoTaskOutlivesPair` |
|---|---|---|---|
| `overlap`: pairs that share documents are deleted together | | fails (and run `overlap`) | |
| `reindexing`: another pair's document is indexed while it is cleaned up | fails | fails | |
| `straggler`: a batch of an ended attempt goes on | | fails | |
| `unchanged`: a pair fetches what is indexed without its access | fails | | |
| `redelivery`: a cleanup task runs again after its commit | fails | fails | fails |
| `slow`: the active signal expires while tasks run | fails | fails | fails |
| `exhausted`: a cleanup task fails on its last retry | | fails | |
| `partial`: generating tasks fails when some are sent | fails | fails | fails |
| `sync_race`: a document changes during its sync | fails | fails | |
| `reactivation`: a pair being deleted gets another status | fails | fails | |

`DeletionCompletes` holds with all of them allowed. An empty cell for `NoOrphans` or
`LiveDocumentsKept` is proved for all instances (section 10), and so is one for `NoTaskOutlivesPair`;
the hazards of the empty cells of one column may come together.

## 5. `ApprovalGate`

One session of one user, and the requests its agent makes to one external app. The egress proxy is
one process with an event loop, its worker threads and the API calls are others.

### State

| Variable | Code |
|---|---|
| `session` | the build session; deleting it cascades to its approval rows |
| `row` | `action_approval`: the decision and how it came about; `pending` is `decision IS NULL`, `overdue` the same past the proxy's wait window |
| `wake` | `approval:wake:{id}`: decisions pushed and not popped |
| `cached` | `approval:session-grant:...`: action types with a live key |
| `flow` | the `request` hook of each request: where it is, and what the sandbox is told |
| `parked`, `undrained`, `proxy` | `ParkedApprovals`; what `drain_inflight` still has to walk; SIGTERM |
| `call` | the calls of `submit_decision` and `submit_session_grant` |
| `chosen`, `faults` | history: the requests the user granted; the faults and hazards so far |

### Actions

| Actions | Code |
|---|---|
| `FirstGrant`, `NoGrant` | `_resolve_approval_grant` before the row |
| `Persist`, `PersistFails`, `PersistRaises` | `_persist_approval_row` and its exceptions |
| `RecheckGrants`, `Park` | the second look at the grants, on a worker thread |
| `ReceiveWake`, `Timeout` | `_await_decision`, `_claim_expired_or_read_winner` |
| `Disconnect`, `WaitFails`, `Dispatch`, `DispatchRaises` | `CancelledError`; `_terminalize_after_unhandled_error`; `_dispatch_approved_request` |
| `Sigterm`, `Drain`, `Drained`, `ProxyEnds` | `drain_inflight`; end or death of the proxy |
| `Submit`, `RecordDecision`, `SendWake` | `submit_decision`, `try_record_decision`, `_send_wake_best_effort` |
| `SubmitGrant`, `RecordGrant`, `SendGrantWake`, `ReadSources`, `ListPending`, `ApproveCovered`, `WakeCovered` | `submit_session_grant` |
| `CallDies`, `LoseWake`, `LoseGrantKeys`, `Age`, `DeleteSession` | the environment |

### Abstractions

A request is the set of action types it invokes (`Needs`). The policies that let a request pass or
deny it without asking come before the model. Whether a scheduled run's grant is found
(`PreApproved`) is left open, for its answer is memoised. Injecting credentials succeeds or blocks
the request. What a deleted row last said stays in `row`, so that a decision can be compared with an
answer given after the deletion. A client that goes during the *first* look at the grants leaves
nothing behind, and is left out.

### Hazards and properties

Any fault may occur in any run; the properties hold under all of them but those they name.
`RowsSettled` is weaker than the docstring of `ActionApproval` (`db/models.py:5594`: an undecided row
is pending "or a proxy-crash orphan"): a client that goes during the *second* look
(`early_disconnect`), an exception while a committed row is announced (`persist_error`) and a
database that is away during the clean-up (`terminalize_error`) leave an undecided row although the
proxy lives. `recheck_error` breaks `GrantLeavesNoneWaiting` only.

| Property | Says |
|---|---|
| `AnswerMatchesRow` | what the sandbox is told is what the row says |
| `DecisionIsFinal` | the first decision of a row stands |
| `GrantsDoNotSpread` | whatever is approved or cached for the session goes back to what the user granted, through any chain of grants |
| `GrantLeavesNoneWaiting` | once no call is at work, no request within its window waits although a grant covers it |
| `RowsSettled` | no row is left undecided once its request has ended |
| `RequestsEnd` | every parked request ends |

## 6. `InteractiveTurns`

### State

| Variable | Code |
|---|---|
| `turn` | `craft:interactive_turn:{id}`: status, `runner_id`, and whether the heartbeat is 90 s old |
| `sending` | `send_message` between the queued turn and the start of a runner |
| `active` | `craft:session:{id}:active_turn` |
| `slot` | `prompt_slot` of the session: a lock with a lease of `SANDBOX_TURN_TIMEOUT_SECONDS` |
| `fence` | the interrupt fence, with the turn that was active when it was set (history: the cache holds a flag) |
| `inflight` | the prompts opencode runs for the session, by the runner that posted them |
| `runner` | runner threads: program counter, turn, verdict |
| `reader` | calls of `get_active_turn` without the turn lock |
| `posted`, `faults` | history: prompts posted for a turn; faults and hazards so far |

### Actions

| Actions | Code |
|---|---|
| `QueueTurn`, `CommitMessage`, `CommitFails`, `UndoTurn`, `NoRunner` | `send_message` |
| `Claim` | `claim_turn_for_runner`, by the thread `send_message` starts or one an attached client starts |
| `SandboxUp`, `SandboxTooLate`, `SandboxFails` | `ensure_sandbox_running`, `touch_turn` |
| `TakeSlot`, `SlotRefused`, `SlotFailsOpen`, `ReleaseSlot` | `prompt_slot` |
| `CheckFence`, `PostPrompt`, `PostFails`, `PromptEnds`, `AbortTurn`, `LoseTurn`, `TouchFails`, `PersistFails` | the turn in the executor |
| `FinishTurn`, `FinishFails` | `finish_turn` |
| `ClearFence`, `PauseBeforeClear`, `ClearLate`, `CloseStream` | the `finally` block and the exit of the frame |
| `PressStop`, `FenceExpires` | `interrupt_message`, `FENCE_TTL` |
| `ReadActive`, `DropActive` | `get_active_turn` of the attach and status endpoints |
| `GoStale`, `Expire`, `Kill`, `SlotExpires`, `OrphanEnds` | time and death; the lease of the slot also runs out on a runner at work (hazard `overrun`) |

What runs under the turn lock is one step, except in `send_message`, which keeps the lock while it
commits (`LockFree`).

### Abstractions

Messages to subagents, the event stream, its replay and the history snapshot of opencode are left
out; so is the case that `UndoTurn` does not get the lock. Of a prompt only matters that it runs.
The fence is the session's: an interrupt pressed between two turns cancels the next (`PressStop` does
not ask for an active turn). The docstring at `interrupt_signal.py:36` has it cleared "at the start
and end of each turn", but the executor clears it at the end only.

### Hazards and properties

All hazards are allowed in the run, one fault at a time; the table names those each property excludes.

| Property | Says | Excludes |
|---|---|---|
| `OneInFlight` | two prompts of a session never run at a time, other than one whose stream is being closed or whose runner is dead | one of `cache_down`, `overrun` together with one of `stalled`, `not_saved`, `not_persisted`, `late_delete` |
| `PostedOnce` | a turn's prompt is posted once | `killed`, `stalled`, `lock_busy` |
| `OneActiveTurn` | a second message is refused until the first turn has ended | `late_delete` |
| `VerdictIsFinal` | only `send_message`, undoing its own turn, replaces a verdict | |
| `InterruptNotLost` | until its turn has ended only time takes an interrupt down | `lock_busy`, `late_clear`, `late_delete` |
| `TurnsEnd` | every turn ends, though nobody need attach | |

Two things keep prompts apart, and `OneInFlight` says that each does so without the other. One is the
slot; but its lease is as long as a turn may be and starts before the turn's own clock
(`serve_transport.py:174`, `serve_client.py:1268`), and the abort at the end of a turn is made by the
runner, so that a long turn outlasts it (`overrun`). The other is the claim of the turn: another runner
gets past `touch_turn` only if this one lost its turn, by being silent for 90 seconds or because the
turn was ended while its prompt ran.

`late_delete` is not a fault but an order of steps: a reader without the lock deletes the pointer
after another turn has become the active one.

## 7. `SandboxLifecycle`

One user's sandbox, with the workspace of one session.

### State

| Variable | Code |
|---|---|
| `row`, `txn` | `Sandbox.status`, whether its heartbeat is an hour old; whose uncommitted update locks the row |
| `active` | `BuildSession.status = ACTIVE` |
| `pod`, `ws` | the pod; the session's directory in it, with the work it holds |
| `rows`, `blob` | `Snapshot` rows by the order of their `created_at`; their archives in the file store |
| `sweep` | `cleanup_idle_sandboxes_task` |
| `keep` | `create_session_snapshot_keep_latest`, called by the sweep and by a request |
| `lock`, `restore` | `sandbox_restore:{id}`; `restore_session` |
| `turn` | turns and scheduled runs, from `ensure_sandbox_ready` on |
| `done`, `faults` | history: the work the agent has left; faults and hazards so far |

### Actions

| Actions | Code |
|---|---|
| `SweepStarts`, `SweepLists`, `SweepCommits`, `SweepFindsNothing`, `SweepFails`, `SweepProbes`, `SweepReaps`, `SweepSleeps`, `SweepRaises` | `cleanup_idle_sandboxes_task`, `list_session_workspaces` |
| `KeepArchives`, `KeepPrunes`, `KeepSkipsPrune` | `create_session_snapshot_keep_latest` up to its commit |
| `UserStarts`, `UserCommits`, `UserFails` | `POST /sessions/{id}/snapshot` |
| `RestoreStarts` to `RestoreAnswers` | `restore_session` with its helpers, one step per commit or call |
| `TurnStarts` to `TurnCommits` | `ensure_sandbox_ready` |
| `TurnWorks`, `TurnEnds` | the agent |
| `GoesIdle`, `PodDies`, `PodSickens`, `PodRecovers`, `LockExpires`, `SweepKilled`, `UserKilled`, `RestoreKilled`, `TurnKilled` | time, pods and crashes |

### Abstractions

A snapshot row is the number of the transaction that adds it, because `created_at` is the time at
which that began: a transaction that commits later may add an *older* row (`NewId`, `Latest`). The
rows of a keep are read in the step that archives: whoever commits in between may as well commit
later. The agent's work is a set; an archive holds the work that was there. One session, so that the
workspace is the pod's whole content. The pod's health is three values; a `sick` pod does not answer
but keeps its files.

### Hazards and properties

All hazards are allowed, one at a time. With a single hazard allowed, and two turns or three snapshots
where it takes them, these properties fail:

| Property | Says | Fails under |
|---|---|---|
| `WorkKept` | what the agent did is in the pod or in the snapshot a restore takes | every hazard but `snapshot_fails`, `prune_fails`, `woken_midsweep` |
| `SnapshotsGrow` | that snapshot's content never shrinks | every hazard but `snapshot_fails`, `prune_fails`, `woken_midsweep`, `reaped_midturn` |
| `RowsHaveBlobs` | a row's archive is there, but while its replacement is committed | `killed` |
| `PodAccounted` | a pod nobody is busy with has a RUNNING row | `woken_midsweep`, `sick`, `raises`, `provision_fails`, `killed` |
| `AnswersHonestly` | a restore that reports the session as loaded has found or loaded it | `woken_midsweep`, `slow_restore`, `killed` |
| `ProvisioningOwned` | PROVISIONING always has a restore that will change it | `killed` |

`woken_midsweep` and `late_terminate` are orders of steps. In the first the sandbox is set RUNNING
while an idle sweep, which never looks at the heartbeat again, is putting it to sleep: no work is lost,
but a pod may stay that no sweep will find. In the second a turn finds the pod unhealthy, and
terminates it (`sandbox_lifecycle.py:259`) when another turn has provisioned it anew and worked in it
meanwhile: no lock covers the check and the act. Steps that may or may not be a hazard are noted where
they are taken (`Mark`).

## 8. `ScheduledRuns`

One scheduled task of Craft and its runs.

### State

| Variable | Code |
|---|---|
| `task` | `ScheduledTask`: status (a deleted one is `DELETED`), and whether `next_run_at` has passed |
| `run` | `ScheduledTaskRun`: status, age since `started_at`, whether `session_id` is set |
| `unsent`, `message` | runs committed and still to be sent; the messages in the queue with their age |
| `beat` | `dispatch_due_scheduled_tasks` between its claim and its commit: the lock on the task, and whether a run was in flight |
| `executor` | `run_scheduled_task_logic` of each run, and the time it has spent at waking and driving |
| `finished` | the age of each row's `finished_at`, as long as it is at most `MemoLimit` |
| `memo` | the gate's `_grant_cache`: the age of the grants it remembers of a run's session |
| `stuck` | what `cleanup_stuck_scheduled_runs` has read and not yet marked |
| `faults` | faults and hazards so far |

### Actions

| Actions | Code |
|---|---|
| `FallsDue`, `Update` | time; `patch_task`, `delete_task` |
| `RunNow` | `run_now`, `create_task` with `run_immediately` |
| `Claim`, `Dispatch`, `DispatchFails`, `Send`, `SendFails` | `dispatch_due_scheduled_tasks`, `_enqueue_executor` |
| `Start`, `Running`, `WakeFails`, `Open`, `OpenFails`, `Finish`, `Dies` | `run_scheduled_task`, `run_scheduled_task_logic`, `_drive_agent` |
| `FindStuck`, `MarkStuck`, `SweepFails` | `cleanup_stuck_scheduled_runs` |
| `GateLooks`, `GateForgets` | `_live_grants` of the egress gate: `get_live_scheduled_run_grants` behind a cache |
| `Tick` | time: rows, messages, executors and what the gate remembers get older |

### Abstractions

Time is counted in units, and rows older than every limit are alike (`Oldest`). The claim and the look
for a run in flight are one step, for the row of the task is locked until the commit and inserts of
runs wait for that lock. An executor's limits for waking, for making a session and for the turn are
limits on its clock (`TimeLeft`). `Dispatch` has the exception that is swallowed after the insert: the
run goes its way and the task stays due. Of the gate's cache only grants are kept: an answer of `None`
is remembered as well, but a session whose row is not RUNNING never gets grants later. There is one
cache, that of one proxy; `GateForgets` is an eviction, a restart, or the cache of another. Which apps
the grants name, and that a change of them reaches the gate late as well, is left out. `AWAITING_APPROVAL` is left out: nothing in the repository emits the
event that leads to it.

### Hazards and properties

All hazards are allowed, two at a time; the table names those each property excludes.

| Property | Says | Excludes |
|---|---|---|
| `OneAtATime` | a task that comes due again while a run is queued or under way gets no second agent | `manual`, `late` |
| `VerdictStands` | neither the sweep nor an executor rewrites a verdict | `late` |
| `GrantsEndWithRun` | the gate pre-approves for a run's session all the time its executor drives it, and after its verdict for `MemoLimit` (60 s) at most | `late` for the first half |
| `RunsEnd` | no run stays in flight for ever | |

`GatePreApproves` is what a request of the session would be answered: from memory, or from the row. When
an executor dies its row says RUNNING until the sweep, and the gate goes on granting; the property allows
that (hazard `dies`, 45 minutes and more by the defaults), and only `RunsEnd` says that it ends.

`late` is time rather than a fault: a run gets older than `QueuedLimit` before it is sent or while its
sandbox wakes, which 15 minutes of queue allow. The sweep then fails a run that is being started, and
the executor makes it RUNNING after all.

## 9. Runs

| Run | Instance | Shows |
|---|---|---|
| `retry` | 3 attempts, 1 tick of 2 pages, 2 faults, 1 worker | `NoDocumentSkipped`, `CheckpointCovered`, `NoBatchOverwritten` for attempts that take over from one another |
| `windows` | 3 attempts, 3 ticks of 1 page, 1 fault, 2 workers (symmetric) | `KeepsPromise` across poll windows, `VerdictIsFinal`, `TypeOK` with batches counted side by side |
| `ends` | 2 attempts, 1 tick of 1 page, 2 faults, 1 worker, all hazards, fair | `SingleActive`, `KeepsLifecycle`, `AttemptsEnd` |
| `shared` | 2 pairs that share a document, 2 generations of tasks, 1 retry, 2 faults, no hazards | `LiveDocumentsKept`, `NoOrphans`, `NoTaskOutlivesPair`, `TypeOK` |
| `deletes` | 1 pair, 1 document, 3 generations, 2 faults, all hazards, fair | `DeletionCompletes` |
| `approvals` | 2 requests (one reads; the other, which no run pre-approves, reads and sends), 2 calls, 1 fault, all hazards, fair | all of `ApprovalGate` |
| `turns` | 2 turns, 2 runners, 1 reader, 1 fault, all hazards, fair | all of `InteractiveTurns` |
| `sandbox` | 1 piece of work, 2 restores (symmetric), 1 turn, 2 snapshots, 1 fault, all hazards | all of `SandboxLifecycle` |
| `scheduled` | 2 runs, 2 ticks, 2 faults, all hazards, fair; a message and a queued run last 1 unit of time, a wake 1, a turn 1, a run 3; the gate remembers for 1 | all of `ScheduledRuns` |
| `plain` | 2 attempts, 1 page, not checkpointed | violation of `NoDocumentSkipped` |
| `overlap` | 2 pairs that share a document, hazard `overlap`, no fault | violation of `DetachLeavesHolder` |
| `reaped` | 1 piece of work, 1 fault, hazard `exec_error` | violation of `NothingUnsavedReaped` |

Distinct states: `retry` 2,468,503, `windows` 155,542, `ends` 864,467, `shared` 1,069,784, `deletes`
191,805, `approvals` 657,564, `turns` 777,360, `sandbox` 3,077,777, `scheduled` 963,640.

**Bounds, `DocumentIndexing`.** Three attempts are what the hand-over needs: one that leaves files
and a checkpoint, one that adopts them and fails in turn, and one that takes over from it. Two pages
let one batch be done and one wait, and let a checkpoint fall between them. Two faults end two
attempts; with three attempts a third fault has nobody left to notice it. `windows` and `ends` never
reach `MaxBatch`; in `retry` it cuts off only what a third attempt would fetch while four batches
wait. `CHECK_DEADLOCK FALSE` is set in every run, for the instance stops when its attempts are used
up.

**Bounds, `ConnectorDeletion`.** A document with two holders is the smallest shared one, and every
decision of the cleanup task is about one document; tasks of several documents meet only in the task
set, which the proofs cover for any number. Two generations are a deletion that starts over once. A
fault takes at most one generation, so that `deletes`, with one more generation than faults, cannot
miss the end of a deletion for lack of numbers. One retry makes a first and a last attempt. The
instance stops when all pairs are gone (`CHECK_DEADLOCK FALSE`).

**Bounds, `ApprovalGate`.** One request whose needs lie within the other's is what grants that cover
one and not the other take; two calls let two decisions race, or a grant and a decision. With one
fault every fault meets every race; the proofs cover any number. It stops when all requests have
ended (`CHECK_DEADLOCK FALSE`).

**Bounds, `InteractiveTurns`.** Two turns and two runners give a turn two claimants, and a runner of
an ended turn a successor; one reader holds one stale pointer. It stops when all turns have ended and
no key is left to expire (`CHECK_DEADLOCK FALSE`).

**Bounds, `SandboxLifecycle`.** Two snapshots let one replace the other, or two transactions overlap;
the invariants behind the proofs have also been checked with three, with two turns, with two pieces of
work and with two faults. Two restores meet only when the lock expires, two turns at a pod that is
terminated late: the hazard `late_terminate` takes a second turn, so that the run says nothing of it. Work is never undone, so that one piece tells what is lost. The bound on
snapshots is on transactions; the rest never stops, and deadlock is checked.

**Bounds, `ScheduledRuns`.** Two rows are one run in flight and the one a second tick would put beside
it; an invariant check with three found nothing else, and the proofs cover any number of rows, ticks
and faults and all times. The units keep the order of the defaults: messages expire and queued rows
are stuck after 15 minutes, waking takes a few, a turn 15 at most (`SANDBOX_TURN_TIMEOUT_SECONDS`),
running rows are stuck after 45. The gate's 60 seconds are less than a unit and rounded up to
one, so that what it remembers outlives a turn. Deadlock is checked: the sweep comes again and again.

**Fairness.** Weak fairness unless stated; nothing is assumed of users, requests, creation, renewals,
hazards or faults.

- `DocumentIndexing` (`ends`): `check_for_indexing` is scheduled by beat every few seconds
  (`MonitorStep`, `Invalidate`, `ExpireNotStarted`); a docfetching process goes on until it ends
  (`FetchStep`), its watchdog polls it (`WatchdogFails`); workers keep taking tasks (`WorkerStep`).
- `ConnectorDeletion` (`deletes`): an attempt that has started ends, which is `AttemptsEnd` of the
  other module; batches and tasks are worked on, strongly fairly because they queue for row locks;
  the beat goes on while it is at a pair, and comes round to every pair again, strongly fairly
  because it is busy with other pairs in between; time passes, so that signals expire.
- `ApprovalGate` (`approvals`): the event loop runs the hooks, worker threads end, and a wait has a
  deadline (`HookStep`); a drain goes on (`DrainStep`). The API server and Redis may do nothing.
- `InteractiveTurns` (`turns`): `send_message` goes on (`Send`), threads run (`RunnerStep`), and keys
  have a time to live (`Expire`). No client need attach, no lease need run out.
- `ScheduledRuns` (`scheduled`): who has committed a run sends it (`Send`), executors that live go on
  (`ExecutorStep`), beat starts the sweep every hour (`SweepStep`), time passes (`Tick`). No tick need
  dispatch, no worker need take a message.

**Sensitivity.** Each property is violated once a small mistake is made in the code it watches;
the mistakes stand in the modules as *faulty variants* of the operators and are listed in
`PROJECT.json`:

- `DocumentIndexing`: no floor under a counter, completion off by one, the last batch of a reissue
  left out, numbers that do not count what waits, cancellation of ended attempts, unsuccessful windows
  taken for successful, NOT_STARTED attempts overlooked, ended attempts allowed to begin, held batches
  taken for a backlog;
- `ConnectorDeletion`: task identifiers of the next generation, any holder taken for the only one,
  access through pairs that are being deleted, a task set not looked at, an empty task set taken for
  a full queue;
- `ApprovalGate`: an unconditional update, the winner read as if the row were there, one covered
  action taken for all, no second look at the grants, a disconnect that leaves the row, a wait without
  a deadline of its own;
- `InteractiveTurns`: a verdict copied from opencode, a slot not waited for, a heartbeat that does not
  compare the runner, a message queued beside an active turn, anyone allowed to finish, any runner of
  the turn allowed to clear the fence, queued turns without a time to live;
- `SandboxLifecycle`: a failed snapshot only logged, or sparing the pod and not the row; pruned rows
  that stay, an empty workspace archived like any other, TERMINATED sandboxes not woken, PROVISIONING
  not taken back;
- `ScheduledRuns`: a turn without a budget, queued runs not taken for runs in flight, grants
  remembered for good, one age limit for queued and running rows, queued rows left out of the sweep.

**Disagreements between code and comments** met while modelling are the three violation runs;
`PROJECT.json` quotes the lines. Others have no run of their own:

- the comment at `docprocessing/tasks.py:664` says that completion guarantees every batch to have
  finished; a task is counted (1884) before it is acknowledged, so that one redelivered in between is
  counted twice and stands for a batch that waits (hazard `redelivery`);
- the comment at `docprocessing/tasks.py:1867-1881` expects a task that did not get the cross-batch
  lock to be retried, whereas a failed task is acknowledged and the batch waits for the next attempt;
  and error rows are written after the count (1913), so that the last batch may complete its attempt
  as SUCCESS although its errors follow;
- `reissue_old_batches` promises to resume after the last batch created (`run_docfetching.py:1040`);
  under `early_death` it does not;
- the docstring at `connector_deletion/tasks.py:645` has a fence reset only when no task is left; the
  signal it goes by also expires while the last tasks run (hazard `slow`);
- the comment at `shared/tasks.py:259` expects reconciliation to clean up a document given up after
  its last retry, but only metadata are ever reconciled (hazard `exhausted`);
- `db/document.py:644` relies on DELETING being final, which `update_cc_pair_status` does not enforce
  (hazard `reactivation`);
- `ScheduledTaskRunStatus.is_terminal` (`db/enums.py:334`) has terminal statuses "produce no further
  state transitions", but nothing checks the status of a row that is marked: a run swept while its
  sandbox wakes becomes RUNNING again (hazard `late`);
- the docstring of `get_live_scheduled_run_grants` (`db/scheduled_task.py:502`) has "interactive
  follow-ups on a finished scheduled session park as usual"; they are answered from the gate's cache for
  up to 60 seconds, which the comment at `gate.py:193` knows;
- the docstring of `prompt_slot` (`serve_transport.py:165`) has it "serialize turns" and expire "after
  a turn's max length"; the lease starts before the turn does and nothing ends the turn with it, so that a
  runner that outlasts it and loses its turn as well has its prompt run beside its successor's;
- `db/models.py:5594` and `interrupt_signal.py:36`, as told above.

## 10. Proofs

Every theorem holds for all values of the constants that satisfy the assumptions of its module, and,
unless it says otherwise, under every hazard. In each module types and the properties are conjuncts of
one inductive invariant `IInv`; a lemma per action, or per group of actions that disturb the same
part, shows that it is preserved, and lemmas on the operators ("Effect") say what they do to a record
field by field.

### `DocumentIndexing_proofs`

| Theorem | Statement |
|---|---|
| `TypeCorrect` | `Spec => []TypeOK` |
| `OneActive` | `Spec => []SingleActive` |
| `EndedStaysEnded` | `Spec => NoResurrection` |
| `ImplementsLifecycle` | `Spec => KeepsLifecycle`: the refinement of `AttemptLifecycle` |

Types are not inductive by themselves: that `Last` is applied to a number, and that the page stored
lies in the source, rests on the window of a process being open whenever it is past `OpenWindow`
(`WindowOpen`), on the batch at hand lying in the window (`PageInWindow`), on attempts not yet
created having no process (`NoneBefore`), and the length of the list of old batches on the file set
being finite. The other theorems rest on `StatusStep`: a step changes the status of one attempt at
most, makes none active but the one it creates, and creates one only when none is active.
Assumptions: `BoundsAssumption` and `ModeAssumption`.

### `DocumentCoverage_proofs`

Under `NoHazards`: the connector is checkpointed, and none of the six hazards of section 3 is allowed.
Run `plain` violates `NoDocumentSkipped` for a connector that is not checkpointed, and by the table of
section 3 each hazard breaks at least one of the properties. Which properties survive a single hazard is
left to TLC: for `VerdictIsFinal` it found a violation under `redelivery` only, though it did not go
through all states under `straggler` and `reindex`. Faults are not restricted.

| Theorem | Statement |
|---|---|
| `Coverage` | `Spec => []CInv` |
| `NothingSkipped` | `Spec => []NoDocumentSkipped` |
| `CheckpointHolds` | `Spec => []CheckpointCovered` |
| `NothingOverwritten` | `Spec => NoBatchOverwritten` |
| `VerdictsStand` | `Spec => VerdictIsFinal` |
| `ImplementsPromise` | `Spec => KeepsPromise`: the refinement of `SyncPromise` |

`CInv` adds the following to `IInv`:

- *Counting.* An attempt is complete when as many batches are counted as it has sent; that says
  something about pages only because each batch is counted once. `OneTask` has a number in the queue or
  with one worker; `CountsOnce` has what is counted plus what is open never exceed the numbers sent, so
  that a complete attempt has no open batch (`Open`), and every file left belongs to a page that is
  handled.
- *Coverage.* What an attempt has read, up to its checkpoint while it resumes and up to its position
  while it reads, is handled or in a file (`Progress`); so is what any checkpoint skips that an attempt
  may still resume from (`Checkpoints`; `Live` says which may). With the counting, a complete attempt has
  handled its window.
- *Free numbers.* An attempt that adopts files numbers its own batches from the count of the files plus
  `completed_batches` of the attempt before. That this number is free rests on there being at most
  so many files and counted batches as numbers in use (`Bound`, over the files that no worker is about
  to delete); it is stated for the attempt that will adopt them as well, from its creation on.
  Once `total_batches` is set, all of an attempt's numbers lie below it.
- *Windows.* `time_updated` orders the attempts as they were created (`NewestFirst`), windows follow
  one another, a window starts no earlier than the successes before it end, those of retries are equal, and
  pages before a window are handled (`WindowsOrdered`, `Retries`, `StartsCovered`).
- *Verdicts.* Between the monitor's read and its verdict the attempt stays complete, and no process
  but the latest attempt's is at work (`OnlyLatest`), so that nothing else can rewrite a verdict. In the
  pass after it the attempt is still the latest one, and complete (`Verdicts`), so that nothing
  has been built on it when the handler takes it back.

`CoverageStep` has one lemma per step of the fetcher, per step of a worker and per group of the
others, each over one conjunct after another. `ImplementsPromise` follows the
effect of a step (`Effect`): one that creates an attempt is `Begin`; the verdict, and its being taken
back, leave the abstract state alone; the end of the monitor's pass is `Succeed` if the attempt is
then a success and `GiveUp` otherwise; the other ways to end an attempt are `GiveUp`; all else only
adds to `handled`. Assumptions: `BoundsAssumption`,
`ModeAssumption`.

### `ConnectorDeletion_proofs`

| Theorem | Statement |
|---|---|
| `TypeCorrect` | `Spec => []TypeOK` |
| `Accounting` | `Orderly => (Spec => []IInv)`, where `Orderly` excludes the hazards `redelivery`, `slow`, `partial` and `reactivation` |
| `TasksEndFirst` | `Orderly => (Spec => []NoTaskOutlivesPair)` |
| `NothingOrphaned` | `Undisturbed => (Spec => []NoOrphans)`, where `Undisturbed` allows no hazard but `unchanged` |
| `LiveDocumentsSafe` | `Sparing => (Spec => []LiveDocumentsKept)`, where `Sparing` allows `overlap`, `straggler` and `exhausted` |
| `DetachSafe` | `Undisturbed => (Spec => DetachLeavesHolder)`, which run `overlap` violates otherwise |

`TInv` strengthens the type invariant: the generation counter is below its bound when a pair is
fenced and at least 1 while tasks are sent (`GenAtWork`). That a removed pair has no task left is not
inductive, for nothing in it relates tasks to the task set the monitor looks at. `IInv` adds that:
every task on its way is in the task set of a fenced pair with an active signal that is still being
deleted (`TasksTracked`); the pair the beat is at has its fence, and no task before the first is sent
nor after the last is seen to be done (`BeatOnPair`); and the identifiers to come are unused
(`FreshIds`), so that no task that ends can take another's place in the task set. Under each of the
four hazards the first part fails, and so does the theorem.

Both `Undisturbed` and `Sparing` are as weak as they can be: by the table of section 4 each hazard
they exclude breaks its property alone. The two properties need different invariants, for they
survive different hazards.

For `NoOrphans`, `DInv` says that what a task or a batch has read still holds when it acts on it.
`Fitting` is the claim: a task that deletes is of the document's only holder, one that detaches
leaves another, and what it writes as access is held by pairs that stay and covers the live ones
(`TaskRight`); a batch that has written its relationship is a holder, and its access list lies
between the same bounds (`BatchRight`); and no access goes beyond the holders, nor is a document
indexed without one (`DocRight`). It is inductive because those who could spoil it are kept away
(`Apart`): a pair is fenced and cleaned up only when no attempt of it runs (`IndexingFirst`,
`BatchesApart`), pairs that are being deleted share no document with one another (`DeletingApart`,
`HoldersYield`), and all tasks of a pair are of one generation, so that a document has one task at
most (`OneTask`).

For `LiveDocumentsKept` two tasks and a batch may meet at a document, so that no equality of lists
survives. `SInv` only claims what matters to live pairs: that a list read and the holders agree on
the pairs that are live (`Agree`), and that a task deletes a document only when no live pair holds
it (`NoneLive`). Each is stable while pairs only stop being live; a pair that is live and relies on
a document, or is about to because it fetched it unchanged, is a holder with access to it
(`AllKept`).

Assumption: `ConstantsAssumption`.

### `ApprovalGate_proofs`

| Theorem | Statement |
|---|---|
| `TypeCorrect` | `Spec => []TypeOK` |
| `AnswersTrue` | `Spec => []AnswerMatchesRow` |
| `GrantsBounded` | `Spec => []GrantsDoNotSpread` |
| `GrantsReachAll` | `Spec => []GrantLeavesNoneWaiting` |
| `RowsDecided` | `Spec => []RowsSettled` |
| `DecidedOnce` | `Spec => DecisionIsFinal` |

The hook takes a wake at its word, so that the answer is right only because every wake says what its
row says (`WakesTrue`), which in turn needs that a call announces only what it has recorded
(`CallsTrue`) and that a row's decision stands. `RowFollowsFlow` ties the row to the place of the
hook: there is none before the insert, and it is approved while credentials are injected.
`GrantsTraced` follows the action types from the rows through the cache and the memory of the calls.
`GrantOnItsWay` is the strengthening of `GrantLeavesNoneWaiting` for the time the call is at work: a
request that waits although a grant covers it is one the call has yet to list, has listed, or lost
its wake to with the call itself. Assumption: `GateAssumption`.

### `InteractiveTurns_proofs`

| Theorem | Statement |
|---|---|
| `TypeCorrect` | `Spec => []TypeOK` |
| `PromptsApart` | `Spec => []OneInFlight` |
| `PromptPostedOnce` | `Spec => []PostedOnce` |
| `ActiveTurnAlone` | `Spec => []OneActiveTurn` |
| `VerdictStays` | `Spec => VerdictIsFinal` |
| `InterruptKept` | `Spec => InterruptNotLost` |

`PromptsApart` has two arguments. Unless the slot failed open or a lease ran out, a runner between the
first look at the fence and the release holds the slot (`SlotHeld`), and a prompt runs only while its
runner is there (`PromptsDriven`): two would need the slot twice. Unless a runner stalled or its turn
was ended over its head, a runner with a prompt owns its turn with a fresh heartbeat (`TurnHeld`): two
would be two owners of the one active turn. A turn that is active is the one the pointer leads to
(`ActivePointed`), so that a second cannot be queued.
A runner in its `finally` block owns no active turn any more (`LetGo`): it may clear the fence only if
no turn is active, hence not an interrupt of a turn that is. For `PostedOnce`, a runner with a sandbox
owns its turn with a fresh heartbeat, or the turn has ended, and it is the only such runner of the turn
(`OncePosted`): `touch_turn` after the sandbox came up is what makes this true for a runner that was
taken for dead meanwhile. `VerdictStays` rests on `Owners`: a turn that has ended has no owner, and
`finish_turn` compares the owner. Assumption: `TurnsAssumption`.

### `SandboxLifecycle_proofs`

| Theorem | Statement |
|---|---|
| `TypeCorrect` | `Spec => []TypeOK` |
| `SnapshotsIntact` | `Spec => []RowsHaveBlobs` |
| `ProvisioningNotStuck` | `Spec => []ProvisioningOwned` |
| `AnswersHonest` | `Spec => []AnswersHonestly` |
| `PodsAccounted` | `Spec => []PodAccounted` |
| `WorkSafe` | `Spec => []WorkKept` |
| `SnapshotsOnlyGrow` | `Spec => SnapshotsGrow` |

That no row loses its archive to another transaction, although rows are read before and archives
deleted before the commit, rests on `created_at`: of two open transactions the younger is younger than
all rows and than all either has pruned, so that its own archive is in nobody's list (`IdsFresh`), and
its archive is there until it commits (`ArchivesThere`). A restore that is not through holds the lock
(`LockHeld`), so that the row it set RUNNING is still RUNNING when it reads it again (`ReadyRuns`);
hence the branch that answers without loading is unreachable. A pod whose row is not RUNNING is owned
by a restore or turn between its provisioning and its commit (`PodOwned`).

The last two need a second invariant, `WInv`, for they hold only as long as no hazard that loses
work has shown (`Calm`). A workspace holds all that the snapshot to be restored does
(`WorkspaceCovers`), since a restore loads only where no workspace is (`WorkspaceGone`), and loads
the latest snapshot (`RestoresLatest`). An archive lies between the two (`ArchivesCover`), and the
sweep and a request do not make one together (`KeepersApart`), so that a snapshot that replaces
another holds what that held. `WorkSaved`, which a turn that works on after the sweep has looked
breaks, adds that all work is in the workspace, or in that snapshot once the workspace is gone or
about to be reaped. Assumption: `SandboxAssumption`.

### `ScheduledRuns_proofs`

| Theorem | Statement |
|---|---|
| `TypeCorrect` | `Spec => []TypeOK` |
| `NeverTwoAtATime` | `Spec => []OneAtATime` |
| `GrantsBounded` | `Spec => []GrantsEndWithRun` |
| `VerdictsStand` | `Spec => VerdictStands` |

No step looks at the status of the row it marks, so the properties rest on time alone (`OnTime`): a
row whose message is on its way is as old as the message, hence no older than `Expires`; one whose
sandbox is being woken is at most `QueuedLimit` old; one that is driven, at most `QueuedLimit` plus
what the executor has used of its limits. By `TimesAssumption` none of them is in what the sweep has
read. Then one tick has the task (`OneClaim`), and while it has it and knows of no run in flight none
comes into flight (`OneInFlight`). `GrantsHeld` does without time, so that it holds however late a run
is: a row gets its session in the step before it is driven (`OneWay`), the one who drives it says how
it ended or has died (`LetGo`), and what the gate remembers of an ended row is older than the end
(`FromBefore`), hence gone `MemoLimit` after it. Assumptions: `TimesAssumption`, `RunsAssumption`.

### Only model-checked

Every safety invariant, action property and refinement that a run checks is proved, those of
`DocumentIndexing` in `DocumentIndexing_proofs` and `DocumentCoverage_proofs`. Liveness (`AttemptsEnd`,
`DeletionCompletes`, `RequestsEnd`, `TurnsEnd`, `RunsEnd`) is out of the prover's reach and stays with
TLC, as do the violations of the runs `plain`, `overlap` and `reaped`.

The inductive invariants were themselves checked by TLC before they were proved, on larger instances
than the runs': `CInv` on two workers, three ticks and three attempts, and with two pages and two faults;
`DInv` on two pairs, two generations and two faults, and on three pairs; `SInv` on two pairs with all
three sparing hazards (5 million states); `WInv` with all hazards and two turns (13.9 million states).
Two formulas did not survive that: `WorkKept` was false with two turns until `late_terminate` was told
apart from it, and `SnapshotsGrow` with three snapshots under hazards it had not named.

## 11. Not modelled

- The file store by name and the generation of sync tasks (items 16 and 17 of the plan).
- Pruning, permission sync, group sync and hierarchy fetching: fences and task sets like those of a
  deletion.
- User files, targeted reindex, index swap and OpenSearch migration: queues, locks and one-time
  procedures beside the pipeline.
- Chat: its state lives as long as a request.
- The governance layer (`src/backend/pmorg`): reports and evidence built by pure functions; admission
  leases are its one stateful part.
- Connectors, LLM providers, tools, document indexes: I/O, represented by what they return. They make
  up most of the repository's lines.
- Front ends and deployment: no protocol state of their own.

Hazards seen in the modelled code that no property covers: an unreadable checkpoint file makes an
attempt start over and remove the batches (`checkpointing_utils.py:154`, hazard `unreadable`); a pair
that fetches what another has indexed unchanged gets no access in the index
(`indexing_pipeline.py:543`, hazard `unchanged`); a cleanup that fails on its last retry or a
generation of tasks that fails midway (hazards `exhausted`, `partial`); and those in `PROJECT.json`
that carry a note.

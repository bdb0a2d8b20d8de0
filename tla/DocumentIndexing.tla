-------------------------- MODULE DocumentIndexing --------------------------
(***************************************************************************)
(* The indexing pipeline of one connector-credential pair (cc pair):       *)
(*                                                                         *)
(*   check_for_indexing --creates--> index attempt --> docfetching process *)
(*   docfetching  --stores a batch file, sends a task--> docprocessing     *)
(*   docprocessing --indexes, counts, deletes the file                     *)
(*   check_for_indexing <--reads the counts, resolves the attempt          *)
(*                                                                         *)
(* A failed or canceled attempt leaves its batch files behind; the next    *)
(* attempt loads its checkpoint, adopts the files under its own name and   *)
(* continues after the checkpoint.                                         *)
(*                                                                         *)
(* Time advances in ticks, one for each new poll window; the source gains  *)
(* PerTick document batches ("pages") in every tick.  A poll window        *)
(* start..end holds the pages Last(start)+1..Last(end).                     *)
(***************************************************************************)
EXTENDS Integers, FiniteSets

CONSTANTS
    MaxAttempts,    \* bound: index attempts created for the cc pair
    MaxTicks,       \* bound: distinct poll window ends
    PerTick,        \* bound: pages the source gains between two windows
    MaxBatch,       \* bound: largest batch number
    MaxFaults,      \* bound: faults and pauses (see Fault)
    PollOffset,     \* POLL_CONNECTOR_OFFSET, in ticks
    Worker,         \* docprocessing worker threads
    Checkpointed,   \* the connector is a CheckpointedConnector
    Hazards         \* which of HazardKinds the environment may show

HazardKinds == {
    "redelivery",    \* a task is delivered again after its batch was counted
    "fast_pickup",   \* a reissued task runs before the reissue is recorded
    "early_death",   \* docfetching dies after opening its poll window and
                     \* before it has recorded what it resumed from
    "straggler",     \* work of an ended attempt runs on beside its successor
    "reindex",       \* a from-beginning run may follow an unsuccessful one
    "unreadable"     \* a checkpoint file may fail to load
}

ASSUME BoundsAssumption ==
    /\ MaxAttempts \in Nat \ {0}
    /\ MaxTicks \in Nat \ {0}
    /\ PerTick \in Nat \ {0}
    /\ MaxBatch \in Nat
    /\ MaxFaults \in Nat
    /\ PollOffset \in Nat

ASSUME ModeAssumption ==
    /\ Checkpointed \in BOOLEAN
    /\ Hazards \subseteq HazardKinds

VARIABLES
    row,        \* the IndexAttempt rows (Postgres)
    last,       \* how many attempts have been created
    newer,      \* <<a, b>>: row a was updated after row b (time_updated)
    files,      \* batch files of the cc pair in the file store
    queue,      \* docprocessing tasks in the broker, per attempt and number
    pending,    \* Redis counter docprocessing_pending_{attempt}
    inFlight,   \* Redis counter docprocessing_in_flight_{attempt}
    fetcher,    \* docfetching process of each attempt
    worker,     \* docprocessing worker threads
    monitor,    \* check_for_indexing finishing an attempt
    ccPair,     \* the cc pair: its status (Postgres) and its stop fence (Redis)
    handled,    \* pages whose documents went through the pipeline, or whose
                \* fetch failure is recorded
    faults      \* faults and pauses so far

vars == <<row, last, newer, files, queue, pending, inFlight, fetcher, worker,
          monitor, ccPair, handled, faults>>

-----------------------------------------------------------------------------
(* Types *)

Attempts == 1..MaxAttempts
Ticks == 0..MaxTicks
Pages == 1..MaxTicks * PerTick
Last(tick) == tick * PerTick
BatchNums == 0..MaxBatch
Created == 1..last

Active     == {"NOT_STARTED", "IN_PROGRESS"}
Successful == {"SUCCESS", "COMPLETED_WITH_ERRORS"}
Unfinished == {"FAILED", "CANCELED"}
Status     == Active \cup Successful \cup Unfinished

Null == -1
Checkpoint == [pos : {0} \cup Pages, more : BOOLEAN]
NoCheckpoint == [pos |-> Null, more |-> FALSE]

Row == [status : Status,
        total : Nat \cup {Null},            \* total_batches
        completed : Nat,                    \* completed_batches
        errors : BOOLEAN,                   \* the attempt has error rows
        checkpoint : Checkpoint \cup {NoCheckpoint},
        start : Ticks \cup {Null},           \* poll_range_start
        end : Ticks \cup {Null},             \* poll_range_end
        fromBeginning : BOOLEAN,
        cancel : BOOLEAN]                   \* cancellation_requested

NewRow(fromBeginning) ==
    [status |-> "NOT_STARTED", total |-> Null, completed |-> 0, errors |-> FALSE,
     checkpoint |-> NoCheckpoint, start |-> Null, end |-> Null,
     fromBeginning |-> fromBeginning, cancel |-> FALSE]

File == [att : Attempts, num : BatchNums, page : Pages]

FetcherPc == {"none", "lost", "window", "resume", "list", "send", "save", "yield",
              "checked", "enqueue", "savecp", "total", "done", "dead"}
FetcherRunning == FetcherPc \ {"none", "lost", "done", "dead"}
\* From the commit of the poll window to that of the adopted batch count.
FetcherResuming == {"resume", "list", "send"}
\* The statements inside the try block of connector_document_extraction.
FetcherGuarded == {"yield", "checked", "enqueue", "savecp", "total"}

Fetcher == [pc : FetcherPc,
            cp : Checkpoint,                \* checkpoint
            pos : {0} \cup Pages,            \* last page yielded
            num : Nat,                      \* batch_num
            todo : SUBSET File,             \* reissues still to send
            old : Nat,                      \* len(old_batches)
            prev : Nat,                     \* most_recent_attempt.completed_batches
            prevTotal : BOOLEAN,            \* most_recent_attempt.total_batches is set
            prevOk : BOOLEAN]               \* most_recent_attempt succeeded

FetcherAt(pc) ==
    [pc |-> pc, cp |-> [pos |-> 0, more |-> TRUE], pos |-> 0, num |-> 0,
     todo |-> {}, old |-> 0, prev |-> 0, prevTotal |-> FALSE, prevOk |-> FALSE]

WorkerPc == {"idle", "index", "count", "record", "delete"}
WorkerState == [pc : WorkerPc, att : Attempts, num : BatchNums,
                page : Pages, bad : BOOLEAN]
IdleWorker == [pc |-> "idle", att |-> 1, num |-> 0, page |-> 1, bad |-> FALSE]

CcPair == [paused : BOOLEAN, stopFence : BOOLEAN]

\* A pass of the monitor: from the counts to the verdict, to the cleanup; "handler"
\* is the cleanup after an exception.
MonitorState == [pc : {"idle", "mark", "clean", "handler"}, att : Attempts, errors : BOOLEAN]
IdleMonitor == [pc |-> "idle", att |-> 1, errors |-> FALSE]

TypeOK ==
    /\ row \in [Attempts -> Row]
    /\ last \in 0..MaxAttempts
    /\ newer \subseteq Attempts \X Attempts
    /\ files \subseteq File
    /\ queue \in [Attempts \X BatchNums -> Nat]
    /\ pending \in [Attempts -> Nat]
    /\ inFlight \in [Attempts -> Nat]
    /\ fetcher \in [Attempts -> Fetcher]
    /\ worker \in [Worker -> WorkerState]
    /\ monitor \in MonitorState
    /\ ccPair \in CcPair
    /\ handled \subseteq Pages
    /\ faults \in 0..MaxFaults

-----------------------------------------------------------------------------
(* Helpers *)

IsActive(a) == row[a].status \in Active
IsTerminal(a) == row[a].status \notin Active

\* Any UPDATE of a row sets its time_updated.
Touch(a) == newer' = (newer \ (Attempts \X {a})) \cup ({a} \X (Attempts \ {a}))

\* b is the first of get_recent_completed_attempts_for_cc_pair among S, 0 if none.
MostRecent(b, S) ==
    IF S = {} THEN b = 0
    ELSE b \in S /\ \A c \in S \ {b} : <<b, c>> \in newer

Ended == {b \in Created : IsTerminal(b)}

\* What mark_attempt_succeeded/partially_succeeded/canceled/failed do: none of
\* them looks at the status it replaces, all of them drop the Redis counters.
Mark(a, status) ==
    /\ row' = [row EXCEPT ![a].status = status]
    /\ pending' = [pending EXCEPT ![a] = 0]
    /\ inFlight' = [inFlight EXCEPT ![a] = 0]
    /\ Touch(a)

\* prerun: pending is floored at 0, in_flight counts the pickup.
MovePendingToInFlight(a) ==
    /\ pending' = [pending EXCEPT ![a] = IF @ > 0 THEN @ - 1 ELSE 0]
    /\ inFlight' = [inFlight EXCEPT ![a] = @ + 1]

\* Faulty variant: no floor.
LeaveInFlightUnfloored(a) == inFlight' = [inFlight EXCEPT ![a] = @ - 1]
\* postrun, floored at 0 (the counters may have been dropped meanwhile).
LeaveInFlight(a) == inFlight' = [inFlight EXCEPT ![a] = IF @ > 0 THEN @ - 1 ELSE 0]

Send(a, n) ==
    /\ pending' = [pending EXCEPT ![a] = @ + 1]
    /\ queue' = [queue EXCEPT ![<<a, n>>] = @ + 1]

\* Everything the environment does to the pipeline is counted.
Fault == faults < MaxFaults /\ faults' = faults + 1

Goto(a, pc) == fetcher' = [fetcher EXCEPT ![a].pc = pc]
\* The process exits; nothing of its memory is left.
Exit(a, pc) == fetcher' = [fetcher EXCEPT ![a] = FetcherAt(pc)]

\* Faulty variant: every window that was opened counts.
PolledEnds == {row[b].end : b \in {c \in Created : row[c].end # Null}} \cup {0}
\* get_last_successful_attempt_poll_range_end: only SUCCESS moves the window.
SuccessEnds == {row[b].end : b \in {c \in Created : row[c].status = "SUCCESS"}} \cup {0}

\* The clock has moved past every window opened so far.
Now(t) == /\ t > 0
          /\ \A b \in Created : row[b].end < t
          /\ t = 1 \/ \E b \in Created : row[b].end = t - 1

\* The previous attempt left a window to finish; otherwise one more must fit.
RetriesWindow(b) == b # 0 /\ row[b].end # Null /\ row[b].status \in Unfinished
WindowLeft ==
    \E b \in Attempts \cup {0} :
        /\ MostRecent(b, Ended)
        /\ RetriesWindow(b) \/ \E t \in Ticks : Now(t)

\* The tasks the broker holds.
Queued == {t \in Attempts \X BatchNums : queue[t] > 0}

\* No process and no task of an earlier attempt is left.
Drained ==
    /\ \A w \in Worker : worker[w].pc = "idle"
    /\ \A a \in Attempts : fetcher[a].pc \notin FetcherRunning
    /\ Queued = {}

-----------------------------------------------------------------------------
(* check_for_indexing: creation, cancellation, invalidation, completion.   *)
(* One task under one beat lock, so its steps follow one another.          *)

\* Faulty variant: attempts that have not started are overlooked.
NoneInProgress == \A a \in Created : row[a].status # "IN_PROGRESS"
\* try_create_index_attempt: no row of the cc pair is active.
NoneActive == \A a \in Created : IsTerminal(a)

\* try_creating_docfetching_task: at most one active attempt (the lock and the
\* row check are one step here).
CreateAttempt(fromBeginning) ==
    /\ last < MaxAttempts
    /\ monitor.pc = "idle"
    /\ ~ccPair.paused
    /\ NoneActive
    /\ WindowLeft
    /\ "straggler" \in Hazards \/ Drained
    /\ fromBeginning =>
           /\ last # 0   \* the first attempt begins at the beginning anyway
           /\ \/ "reindex" \in Hazards
              \/ \A b \in Created : MostRecent(b, Ended) => row[b].status \in Successful
    /\ last' = last + 1
    /\ row' = [row EXCEPT ![last + 1] = NewRow(fromBeginning)]
    /\ Touch(last + 1)
    /\ UNCHANGED <<files, queue, pending, inFlight, fetcher, worker, monitor,
                   ccPair, handled, faults>>

\* Faulty variant: the flag alone decides.
CancelFlagged(a) == row[a].cancel
\* check_for_indexing looks at the active attempts only.
CancelRequested(a) == IsActive(a) /\ row[a].cancel

MonitorCancel(a) ==
    /\ monitor.pc = "idle"
    /\ CancelRequested(a)
    /\ Mark(a, "CANCELED")
    /\ UNCHANGED <<last, files, queue, fetcher, worker, monitor, ccPair, handled, faults>>

\* Faulty variant: off by one.
AlmostComplete(a) == row[a].total # Null /\ row[a].completed + 1 >= row[a].total
\* total_batches is set when all batches are fetched.
Complete(a) == row[a].total # Null /\ row[a].completed >= row[a].total

\* get_coordination_status: the counts the decision below rests on.
MonitorRead(a) ==
    /\ monitor.pc = "idle"
    /\ IsActive(a) /\ ~row[a].cancel
    /\ Complete(a)
    /\ monitor' = [pc |-> "mark", att |-> a, errors |-> row[a].errors]
    /\ UNCHANGED <<row, last, newer, files, queue, pending, inFlight, fetcher,
                   worker, ccPair, handled, faults>>

\* check_indexing_completion, first half.
MonitorMark ==
    /\ monitor.pc = "mark"
    /\ Mark(monitor.att, IF monitor.errors THEN "COMPLETED_WITH_ERRORS"
                                            ELSE "SUCCESS")
    /\ monitor' = [monitor EXCEPT !.pc = "clean"]
    /\ UNCHANGED <<last, files, queue, fetcher, worker, ccPair, handled, faults>>

\* An exception before or after the verdict is committed: the handler takes the
\* attempt for failed, whatever its status is by now, or fails to do so.
MonitorRaises ==
    /\ monitor.pc \in {"mark", "clean"}
    /\ \/ Mark(monitor.att, "FAILED")
       \/ UNCHANGED <<row, pending, inFlight, newer>>
    /\ monitor' = [monitor EXCEPT !.pc = "handler"]
    /\ UNCHANGED <<last, files, queue, fetcher, worker, ccPair, handled>>
    /\ Fault

\* Either way the pass ends with storage.cleanup_all_batches().
MonitorClean ==
    /\ monitor.pc \in {"clean", "handler"}
    /\ files' = {}
    /\ monitor' = IdleMonitor
    /\ UNCHANGED <<row, last, newer, queue, pending, inFlight, fetcher, worker,
                   ccPair, handled, faults>>

\* The cleanup fails halfway, which is only logged, or the beat's worker dies.
MonitorStops ==
    /\ monitor.pc # "idle"
    /\ \/ monitor.pc # "mark" /\ files' \in SUBSET files
       \/ UNCHANGED files
    /\ monitor' = IdleMonitor
    /\ UNCHANGED <<row, last, newer, queue, pending, inFlight, fetcher, worker,
                   ccPair, handled>>
    /\ Fault

\* Nobody emits heartbeats for the attempt: neither its docfetching process nor
\* a docprocessing worker runs.
Silent(a) ==
    /\ fetcher[a].pc \notin FetcherRunning
    /\ \A w \in Worker : worker[w].pc # "idle" => worker[w].att # a

\* Faulty variant: a batch held by a worker counts as alive.
Unsettled(a) == row[a].total # Null /\ (inFlight[a] > 0 \/ pending[a] > 0)
\* No worker holds a batch but some wait in the queue: not a crash.
Backlog(a) == row[a].total # Null /\ inFlight[a] = 0 /\ pending[a] > 0

\* validate_active_indexing_attempts.  The heartbeat times out long after the
\* monitor would have resolved a complete attempt.
HeartbeatStale(a) ==
    /\ monitor.pc = "idle"
    /\ row[a].status = "IN_PROGRESS"
    /\ Silent(a)
    /\ ~Complete(a)

Invalidate(a) ==
    /\ HeartbeatStale(a)
    /\ ~Backlog(a)
    /\ Mark(a, "FAILED")
    /\ UNCHANGED <<last, files, queue, fetcher, worker, monitor, ccPair, handled, faults>>

\* The counters cannot be read and are taken for 0.
InvalidateBlindly(a) ==
    /\ HeartbeatStale(a)
    /\ Backlog(a)
    /\ Mark(a, "FAILED")
    /\ UNCHANGED <<last, files, queue, fetcher, worker, monitor, ccPair, handled>>
    /\ Fault

\* The same task for an attempt that never started: its docfetching task is not
\* in the broker, because it is lost or because it was dequeued just now.
ExpireNotStarted(a) ==
    /\ monitor.pc = "idle"
    /\ row[a].status = "NOT_STARTED"
    /\ fetcher[a].pc \in {"none", "lost"}
    /\ Mark(a, "FAILED")
    /\ UNCHANGED <<last, files, queue, fetcher, worker, monitor, ccPair, handled, faults>>

\* update_cc_pair_status: pausing sets the stop fence and requests the
\* cancellation of active attempts; resuming clears the fence.
Pause ==
    /\ ~ccPair.paused
    /\ ccPair' = [paused |-> TRUE, stopFence |-> TRUE]
    /\ \/ \E a \in Created : /\ IsActive(a)
                           /\ row' = [row EXCEPT ![a].cancel = TRUE]
                           /\ Touch(a)
       \/ (\A a \in Created : IsTerminal(a)) /\ UNCHANGED <<row, newer>>
    /\ UNCHANGED <<last, files, queue, pending, inFlight, fetcher, worker,
                   monitor, handled>>
    /\ Fault

Resume ==
    /\ ccPair.paused
    /\ ccPair' = [paused |-> FALSE, stopFence |-> FALSE]
    /\ UNCHANGED <<row, last, newer, files, queue, pending, inFlight, fetcher,
                   worker, monitor, handled, faults>>

\* check_for_connector_deletion_task drops the stop fence of every cc pair that
\* its deletion does not wait for, a paused one included.
DropStopFence ==
    /\ ccPair.stopFence
    /\ ccPair' = [paused |-> ccPair.paused, stopFence |-> FALSE]
    /\ UNCHANGED <<row, last, newer, files, queue, pending, inFlight, fetcher,
                   worker, monitor, handled, faults>>

-----------------------------------------------------------------------------
(* The docfetching process of attempt a                                    *)

\* Faulty variant: an ended attempt may start.
NotRunning(a) == row[a].status # "IN_PROGRESS"
\* transition_attempt_to_in_progress, under FOR UPDATE.
NotStarted(a) == row[a].status = "NOT_STARTED"

\* _docfetching_task up to transition_attempt_to_in_progress.
Begin(a) ==
    /\ a \in Created
    /\ fetcher[a].pc = "none"
    /\ NotStarted(a)
    /\ ~ccPair.stopFence /\ ~row[a].cancel
    /\ row' = [row EXCEPT ![a].status = "IN_PROGRESS"]
    /\ Touch(a)
    /\ Goto(a, "window")
    /\ UNCHANGED <<last, files, queue, pending, inFlight, worker, monitor, ccPair,
                   handled, faults>>

\* Blocked by the stop fence, a cancellation or an ended attempt: the process
\* raises before it touches the row.
BeginBlocked(a) ==
    /\ a \in Created
    /\ fetcher[a].pc = "none"
    /\ ccPair.stopFence \/ row[a].cancel \/ IsTerminal(a)
    /\ Exit(a, "dead")
    /\ UNCHANGED <<row, last, newer, files, queue, pending, inFlight, worker,
                   monitor, ccPair, handled, faults>>

\* The poll window: from the end of the last SUCCESS, to now or to the end of
\* the window the previous, unfinished attempt left.
OpenWindow(a) ==
    /\ fetcher[a].pc = "window"
    /\ \E b \in Attempts \cup {0}, lastEnd \in SuccessEnds, now \in Ticks :
         /\ MostRecent(b, Ended)
         /\ \A e \in SuccessEnds : e <= lastEnd
         /\ RetriesWindow(b) \/ Now(now)
         /\ LET from  == IF row[a].fromBeginning THEN 0 ELSE lastEnd
                start == IF from > PollOffset THEN from - PollOffset ELSE 0
                end   == IF RetriesWindow(b) THEN row[b].end ELSE now
            IN row' = [row EXCEPT ![a].start = start, ![a].end = end]
         /\ fetcher' = [fetcher EXCEPT
                ![a].pc = "resume",
                ![a].prev = IF b = 0 THEN 0 ELSE row[b].completed,
                ![a].prevTotal = b # 0 /\ row[b].total # Null,
                ![a].prevOk = b # 0 /\ row[b].status \in Successful]
    /\ Touch(a)
    /\ UNCHANGED <<last, files, queue, pending, inFlight, worker, monitor, ccPair,
                   handled, faults>>

\* The attempts whose checkpoint is valid for the window of a.
Candidates(a) ==
    {b \in Ended : /\ row[b].start = row[a].start
                   /\ row[b].end = row[a].end
                   /\ row[b].status \in Unfinished
                   /\ row[b].checkpoint # NoCheckpoint}

\* get_latest_valid_checkpoint: b is the attempt resumed from, 0 for none.
LatestValid(a, b) ==
    \/ MostRecent(b, Candidates(a))
    \/ "unreadable" \in Hazards /\ b = 0

Dummy(a) == [pos |-> Last(row[a].start), more |-> TRUE]

\* A from-beginning run, or one after a success, throws old batches away.
StartOver(a) ==
    /\ fetcher[a].pc = "resume"
    /\ row[a].fromBeginning \/ fetcher[a].prevOk
    /\ files' = {}
    /\ fetcher' = [fetcher EXCEPT ![a].pc = "save", ![a].cp = Dummy(a)]
    /\ UNCHANGED <<row, last, newer, queue, pending, inFlight, worker, monitor,
                   ccPair, handled, faults>>

\* Faulty variant: resuming a checkpointed connector is no reason to adopt.
ReissueFinished(a, b, cp) == fetcher[a].prevTotal /\ ~cp.more
\* Adopt the old batches: on resuming a checkpointed connector, or when the
\* previous attempt had fetched everything.
Reissue(a, b, cp) ==
    \/ Checkpointed /\ b # 0
    \/ fetcher[a].prevTotal /\ ~cp.more

\* Otherwise the latest valid checkpoint decides whether they are adopted.
LoadCheckpoint(a) ==
    /\ fetcher[a].pc = "resume"
    /\ ~row[a].fromBeginning /\ ~fetcher[a].prevOk
    /\ \E b \in Attempts \cup {0} :
         LET cp == IF b = 0 THEN Dummy(a) ELSE row[b].checkpoint
             reissue == Reissue(a, b, cp)
         IN /\ LatestValid(a, b)
            /\ fetcher' = [fetcher EXCEPT ![a].pc = IF reissue THEN "list" ELSE "save",
                                          ![a].cp = cp]
            /\ files' = IF reissue THEN files ELSE {}
    /\ UNCHANGED <<row, last, newer, queue, pending, inFlight, worker, monitor,
                   ccPair, handled, faults>>

\* Files that can be renamed to one attempt without a clash.
Distinct(S) == \A f, g \in S : f.num = g.num => f = g
Renamed(S, a) == {[f EXCEPT !.att = a] : f \in S}

\* reissue_old_batches: list the batch files of the cc pair and rename them to
\* this attempt.  A renamed file replaces one of its name (S3 file store).
ListOld(a) ==
    /\ fetcher[a].pc = "list"
    /\ \E kept \in SUBSET files :
         /\ Distinct(kept)
         /\ {f.num : f \in files} \subseteq {f.num : f \in kept}
         /\ files' = Renamed(kept, a)
    /\ fetcher' = [fetcher EXCEPT ![a].pc = "send",
                                  ![a].todo = files,
                                  ![a].old = Cardinality(files)]
    /\ UNCHANGED <<row, last, newer, queue, pending, inFlight, worker, monitor,
                   ccPair, handled, faults>>

\* ... and send a task for each.
SendOld(a) ==
    /\ fetcher[a].pc = "send"
    /\ \E f \in fetcher[a].todo :
         /\ Send(a, f.num)
         /\ fetcher' = [fetcher EXCEPT ![a].todo = @ \ {f}]
    /\ UNCHANGED <<row, last, newer, files, inFlight, worker, monitor, ccPair,
                   handled, faults>>

\* Faulty variant: the adopted batches are not counted.
NumAfterCompleted(a) == fetcher[a].prev
\* last_batch_num, the number the next new batch gets.
NextBatchNum(a) == fetcher[a].old + fetcher[a].prev

\* index_attempt.completed_batches = completed_batches: the ORM writes the column
\* only if it differs from the 0 it loaded.
AdoptCount(a) ==
    /\ fetcher[a].pc = "send" /\ fetcher[a].todo = {}
    /\ IF fetcher[a].prev # 0
       THEN /\ row' = [row EXCEPT ![a].completed = fetcher[a].prev]
            /\ Touch(a)
       ELSE UNCHANGED <<row, newer>>
    /\ fetcher' = [fetcher EXCEPT ![a].pc = "save",
                                  ![a].num = NextBatchNum(a)]
    /\ UNCHANGED <<last, files, queue, pending, inFlight, worker, monitor, ccPair,
                   handled, faults>>

\* save_checkpoint, before the loop and after each run of the connector.  The
\* file is replaced; the row changes only when its checkpoint_pointer is set.
SaveCheckpoint(a) ==
    /\ fetcher[a].pc \in {"save", "savecp"}
    /\ row' = [row EXCEPT ![a].checkpoint = fetcher[a].cp]
    /\ IF row[a].checkpoint = NoCheckpoint THEN Touch(a) ELSE UNCHANGED newer
    /\ fetcher' = [fetcher EXCEPT
            ![a] = [FetcherAt(IF @.cp.more THEN "yield" ELSE "total") EXCEPT
                        !.cp = fetcher[a].cp,
                        !.pos = fetcher[a].cp.pos,
                        !.num = fetcher[a].num]]
    /\ UNCHANGED <<last, files, queue, pending, inFlight, worker, monitor, ccPair,
                   handled, faults>>

-----------------------------------------------------------------------------
(* The extraction loop.  The connector runs from its checkpoint, yields      *)
(* batches, and at last a new checkpoint.                                    *)

\* What the loop looks at beside the status of its attempt.
StopRequested == ccPair.stopFence \/ ccPair.paused

\* The connector yields an item, and before anything is done with it
\* callback.should_stop and _check_connector_and_attempt_status let it through.
Check(a) ==
    /\ fetcher[a].pc = "yield"
    /\ ~StopRequested /\ row[a].status = "IN_PROGRESS"
    /\ Goto(a, "checked")
    /\ UNCHANGED <<row, last, newer, files, queue, pending, inFlight, worker, monitor,
                   ccPair, handled, faults>>

HasNext(a) == fetcher[a].pc = "checked" /\ fetcher[a].pos < Last(row[a].end)

\* batch_storage.store_batch replaces a file of that name.
FetchBatch(a) ==
    /\ HasNext(a)
    /\ fetcher[a].num \in BatchNums
    /\ files' = {f \in files : f.att # a \/ f.num # fetcher[a].num}
                \cup {[att |-> a, num |-> fetcher[a].num, page |-> fetcher[a].pos + 1]}
    /\ Goto(a, "enqueue")
    /\ UNCHANGED <<row, last, newer, queue, pending, inFlight, worker, monitor,
                   ccPair, handled, faults>>

Enqueue(a) ==
    /\ fetcher[a].pc = "enqueue"
    /\ Send(a, fetcher[a].num)
    /\ fetcher' = [fetcher EXCEPT ![a].pc = "yield",
                                  ![a].num = @ + 1,
                                  ![a].pos = @ + 1]
    /\ UNCHANGED <<row, last, newer, files, inFlight, worker, monitor, ccPair,
                   handled, faults>>

\* The connector yields a ConnectorFailure in place of documents.
ConnectorFailure(a) ==
    /\ HasNext(a)
    /\ row' = [row EXCEPT ![a].errors = TRUE]
    /\ handled' = handled \cup {fetcher[a].pos + 1}
    /\ fetcher' = [fetcher EXCEPT ![a].pc = "yield", ![a].pos = @ + 1]
    /\ UNCHANGED <<last, newer, files, queue, pending, inFlight, worker, monitor,
                   ccPair>>
    /\ Fault

\* The connector yields its next checkpoint: somewhere past the last one, or,
\* when it is not checkpointed, at the end of the window.
EndRun(a) ==
    /\ fetcher[a].pc = "checked"
    /\ \/ fetcher[a].pos >= Last(row[a].end)
       \/ Checkpointed /\ fetcher[a].pos > fetcher[a].cp.pos
    /\ fetcher' = [fetcher EXCEPT
            ![a].pc = "savecp",
            ![a].cp = [pos |-> fetcher[a].pos, more |-> fetcher[a].pos < Last(row[a].end)]]
    /\ UNCHANGED <<row, last, newer, files, queue, pending, inFlight, worker,
                   monitor, ccPair, handled, faults>>

\* IndexingCoordination.set_total_batches looks at no status.
SetTotal(a) ==
    /\ fetcher[a].pc = "total"
    /\ row' = [row EXCEPT ![a].total = fetcher[a].num]
    /\ Touch(a)
    /\ Exit(a, "done")
    /\ UNCHANGED <<last, files, queue, pending, inFlight, worker, monitor, ccPair,
                   handled, faults>>

\* ConnectorStopSignal: the attempt is marked canceled whatever its status.
StopFetch(a) ==
    /\ fetcher[a].pc = "yield"
    /\ StopRequested \/ row[a].status = "CANCELED"
    /\ Mark(a, "CANCELED")
    /\ Exit(a, "done")
    /\ UNCHANGED <<last, files, queue, worker, monitor, ccPair, handled, faults>>

\* What the other exceptions of the loop do: no verdict is overwritten but SUCCESS.
FailUnlessEnded(a) ==
    \/ row[a].status \notin Unfinished /\ Mark(a, "FAILED")
    \/ row[a].status \in Unfinished /\ UNCHANGED <<row, pending, inFlight, newer>>

\* _check_connector_and_attempt_status: the attempt ended, but was not canceled.
NotRunningAnymore(a) ==
    /\ fetcher[a].pc = "yield"
    /\ ~StopRequested /\ row[a].status \notin {"IN_PROGRESS", "CANCELED"}
    /\ FailUnlessEnded(a)
    /\ Exit(a, "dead")
    /\ UNCHANGED <<last, files, queue, worker, monitor, ccPair, handled, faults>>

\* An error of the connector, of the file store or of the database; a validation
\* error the connector raises cancels the attempt.
FetchError(a) ==
    /\ fetcher[a].pc \in FetcherGuarded
    /\ \/ fetcher[a].pc = "yield" /\ Mark(a, "CANCELED")
       \/ FailUnlessEnded(a)
    /\ Exit(a, "dead")
    /\ UNCHANGED <<last, files, queue, worker, monitor, ccPair, handled>>
    /\ Fault

\* The process dies: killed from outside, or by an exception before the loop.
Dies(a, pc) ==
    /\ fetcher[a].pc \in FetcherRunning
    /\ fetcher[a].pc \in FetcherResuming => "early_death" \in Hazards
    /\ Exit(a, pc)
    /\ UNCHANGED <<row, last, newer, files, queue, pending, inFlight, worker,
                   monitor, ccPair, handled>>
FetchKilled(a) == Dies(a, "dead") /\ Fault
\* The watchdog kills a process whose attempt ended, and has nothing to report.
WatchdogKills(a) == Dies(a, "done") /\ IsTerminal(a) /\ UNCHANGED faults

\* The docfetching task is gone from the broker before it ran.
LoseFetch(a) ==
    /\ a \in Created
    /\ fetcher[a].pc = "none"
    /\ Exit(a, "lost")
    /\ UNCHANGED <<row, last, newer, files, queue, pending, inFlight, worker,
                   monitor, ccPair, handled>>
    /\ Fault

\* docfetching_proxy_task sees the dead process.
WatchdogFails(a) ==
    /\ fetcher[a].pc = "dead"
    /\ IsActive(a)
    /\ Mark(a, "FAILED")
    /\ UNCHANGED <<last, files, queue, fetcher, worker, monitor, ccPair, handled, faults>>

\* ... or a live one that is over its memory limit; it is killed after the verdict.
MemoryLimitHit(a) ==
    /\ fetcher[a].pc \in FetcherRunning
    /\ Mark(a, "FAILED")
    /\ UNCHANGED <<last, files, queue, fetcher, worker, monitor, ccPair, handled>>
    /\ Fault

\* The heartbeat thread beside a live process updates its row, ended or not.
Heartbeat(a) ==
    /\ ~Silent(a)
    /\ Touch(a)
    /\ UNCHANGED <<row, last, files, queue, pending, inFlight, fetcher, worker,
                   monitor, ccPair, handled, faults>>

-----------------------------------------------------------------------------
(* docprocessing: worker thread w handles one task at a time                 *)

\* The broker hands w a task; prerun writes a heartbeat.
Receive(w, t) ==
    /\ worker[w].pc = "idle"
    /\ t \in Queued
    /\ "fast_pickup" \in Hazards \/ fetcher[t[1]].pc # "send"
    /\ queue' = [queue EXCEPT ![t] = @ - 1]
    /\ UNCHANGED <<last, files, fetcher, monitor, ccPair, handled>>

\* storage.get_batch and phase 1: the batch is there and the attempt runs.
Pickup(w) ==
    \E f \in files :
      LET a == f.att IN
        /\ Receive(w, <<a, f.num>>)
        /\ IsActive(a) /\ ~ccPair.stopFence
        /\ worker' = [worker EXCEPT ![w] = [pc |-> "index", att |-> a, num |-> f.num,
                                            page |-> f.page, bad |-> FALSE]]
        /\ MovePendingToInFlight(a)
        /\ Touch(a)
        /\ UNCHANGED <<row, faults>>

\* Otherwise the task ends at once, prerun and postrun included, and is acked.
Refuse(w) ==
    \E t \in Queued :
      LET a == t[1] IN
        /\ Receive(w, t)
        /\ \/ \A f \in files : f.att # a \/ f.num # t[2]
           \/ IsTerminal(a)
           \/ ccPair.stopFence
        /\ pending' = [pending EXCEPT ![a] = IF @ > 0 THEN @ - 1 ELSE 0]
        /\ Touch(a)
        /\ UNCHANGED <<row, inFlight, worker, faults>>

\* _check_chunk_usage_limit comes first and fails the attempt, whatever its
\* status is by now.
UsageLimitHit(w) ==
    \E t \in Queued :
        /\ Receive(w, t)
        /\ Mark(t[1], "FAILED")
        /\ UNCHANGED worker
        /\ Fault

StepTo(w, pc) == worker' = [worker EXCEPT ![w].pc = pc]

\* run_indexing_pipeline, with or without failed documents.
Index(w) ==
    /\ worker[w].pc = "index"
    /\ handled' = handled \cup {worker[w].page}
    /\ \/ worker' = [worker EXCEPT ![w].pc = "count"] /\ UNCHANGED faults
       \/ worker' = [worker EXCEPT ![w].pc = "count", ![w].bad = TRUE] /\ Fault
    /\ UNCHANGED <<row, last, newer, files, queue, pending, inFlight, fetcher,
                   monitor, ccPair>>

\* update_batch_completion_and_docs, under the cross-batch lock and FOR UPDATE.
Count(w) ==
    LET a == worker[w].att IN
    /\ worker[w].pc = "count"
    /\ row' = [row EXCEPT ![a].completed = @ + 1]
    /\ Touch(a)
    /\ StepTo(w, IF worker[w].bad THEN "record" ELSE "delete")
    /\ UNCHANGED <<last, files, queue, pending, inFlight, fetcher, monitor, ccPair,
                   handled, faults>>

\* create_index_attempt_error
Record(w) ==
    /\ worker[w].pc = "record"
    /\ row' = [row EXCEPT ![worker[w].att].errors = TRUE]
    /\ StepTo(w, "delete")
    /\ UNCHANGED <<last, newer, files, queue, pending, inFlight, fetcher, monitor,
                   ccPair, handled, faults>>

\* storage.delete_batch_by_num, then postrun.
Delete(w) ==
    LET a == worker[w].att IN
    /\ worker[w].pc = "delete"
    /\ files' = {f \in files : f.att # a \/ f.num # worker[w].num}
    /\ worker' = [worker EXCEPT ![w] = IdleWorker]
    /\ LeaveInFlight(a)
    /\ UNCHANGED <<row, last, newer, queue, pending, fetcher, monitor, ccPair,
                   handled, faults>>

\* An exception anywhere: pipeline, lock not acquired, failure threshold, file
\* store.  The task is acked and never retried; the file stays.
TaskFails(w) ==
    /\ worker[w].pc # "idle"
    /\ worker' = [worker EXCEPT ![w] = IdleWorker]
    /\ LeaveInFlight(worker[w].att)
    /\ UNCHANGED <<row, last, newer, files, queue, pending, fetcher, monitor,
                   ccPair, handled>>
    /\ Fault

Redelivered(w) ==
    /\ Fault
    /\ queue' = [queue EXCEPT ![<<worker[w].att, worker[w].num>>] = @ + 1]
    /\ UNCHANGED <<row, last, newer, files, pending, inFlight, fetcher, monitor,
                   ccPair, handled>>

\* The worker is killed; its unacked task goes back to the queue (acks_late).
Crash(w) ==
    /\ \/ worker[w].pc \in {"index", "count"}
       \/ worker[w].pc \in {"record", "delete"} /\ "redelivery" \in Hazards
    /\ Redelivered(w)
    /\ worker' = [worker EXCEPT ![w] = IdleWorker]

\* The visibility timeout passes while the worker still holds the task.
VisibilityTimeout(w) ==
    /\ "redelivery" \in Hazards
    /\ worker[w].pc # "idle"
    /\ Redelivered(w)
    /\ UNCHANGED worker

-----------------------------------------------------------------------------
(* Specification                                                             *)

Init ==
    /\ row = [a \in Attempts |-> NewRow(FALSE)]
    /\ last = 0
    /\ newer = {}
    /\ files = {}
    /\ queue = [t \in Attempts \X BatchNums |-> 0]
    /\ pending = [a \in Attempts |-> 0]
    /\ inFlight = [a \in Attempts |-> 0]
    /\ fetcher = [a \in Attempts |-> FetcherAt("none")]
    /\ worker = [w \in Worker |-> IdleWorker]
    /\ monitor = IdleMonitor
    /\ ccPair = [paused |-> FALSE, stopFence |-> FALSE]
    /\ handled = {}
    /\ faults = 0

MonitorStep ==
    \/ \E a \in Created : (MonitorCancel(a) \/ MonitorRead(a))
    \/ MonitorMark
    \/ MonitorClean

MonitorTrouble ==
    \/ MonitorRaises \/ MonitorStops
    \/ \E a \in Created : InvalidateBlindly(a)

FetchStep(a) ==
    \/ Begin(a) \/ BeginBlocked(a) \/ OpenWindow(a)
    \/ StartOver(a) \/ LoadCheckpoint(a)
    \/ ListOld(a) \/ SendOld(a) \/ AdoptCount(a)
    \/ SaveCheckpoint(a)
    \/ Check(a) \/ FetchBatch(a) \/ Enqueue(a) \/ ConnectorFailure(a) \/ EndRun(a)
    \/ SetTotal(a) \/ StopFetch(a) \/ NotRunningAnymore(a)

FetchTrouble(a) ==
    \/ FetchError(a) \/ FetchKilled(a) \/ WatchdogKills(a) \/ LoseFetch(a)
    \/ MemoryLimitHit(a)

WorkerStep(w) ==
    Pickup(w) \/ Refuse(w) \/ Index(w) \/ Count(w) \/ Record(w) \/ Delete(w)

WorkerTrouble(w) ==
    UsageLimitHit(w) \/ TaskFails(w) \/ Crash(w) \/ VisibilityTimeout(w)

Next ==
    \/ \E fromBeginning \in BOOLEAN : CreateAttempt(fromBeginning)
    \/ MonitorStep \/ MonitorTrouble
    \/ \E a \in Created : Invalidate(a) \/ ExpireNotStarted(a)
    \/ Pause \/ Resume \/ DropStopFence
    \/ \E a \in Created : \/ FetchStep(a) \/ FetchTrouble(a)
                          \/ WatchdogFails(a) \/ Heartbeat(a)
    \/ \E w \in Worker : WorkerStep(w) \/ WorkerTrouble(w)

Spec == Init /\ [][Next]_vars

\* check_for_indexing runs every few seconds, a started process runs until it
\* ends, and the broker keeps handing out tasks.
Fairness ==
    /\ WF_vars(MonitorStep)
    /\ WF_vars(\E a \in Created : Invalidate(a) \/ ExpireNotStarted(a))
    /\ \A a \in Attempts : WF_vars(a \in Created /\ FetchStep(a))
    /\ WF_vars(\E a \in Created : WatchdogFails(a))
    /\ \A w \in Worker : WF_vars(WorkerStep(w))

FairSpec == Spec /\ Fairness

-----------------------------------------------------------------------------
(* Properties                                                                *)

\* A document is never skipped: once an attempt is reported successful, every
\* page up to the end of its window went through the pipeline or has its
\* fetch failure recorded.  Nothing will look at these pages again, because
\* a SUCCESS moves the window past them.
NoDocumentSkipped ==
    \A a \in Created : row[a].status \in Successful => 1..Last(row[a].end) \subseteq handled

\* The checkpoint the next attempt will resume from never runs ahead of what is
\* kept: with no attempt active, each page of its window before it was handled or
\* is in a batch file that the next attempt will adopt.
CheckpointCovered ==
    Created = Ended =>
        \A b \in Created, c \in Created :
            /\ MostRecent(b, Ended)
            /\ row[b].status \in Unfinished
            /\ MostRecent(c, {d \in Ended : /\ row[d].start = row[b].start
                                          /\ row[d].end = row[b].end
                                          /\ row[d].status \in Unfinished
                                          /\ row[d].checkpoint # NoCheckpoint})
            => Last(row[c].start) + 1 .. row[c].checkpoint.pos
                   \subseteq handled \cup {f.page : f \in files}

\* store_batch never replaces the documents of a batch that is still waiting:
\* batch numbers are not reused while their file exists.
NoBatchOverwritten ==
    [][\A f \in files, g \in files' :
          f.att = g.att /\ f.num = g.num => f = g]_vars

\* The verdict on an attempt is final: an unsuccessful one never becomes
\* successful, and a successful one never fails afterwards, unless the monitor
\* itself takes it back, in the pass it gave it in and before anyone builds on it.
VerdictIsFinal ==
    [][\A a \in Created : IsTerminal(a) =>
          \/ row[a].status \in Successful <=> row'[a].status \in Successful
          \/ /\ monitor.pc = "clean" /\ monitor'.pc = "handler" /\ monitor.att = a
             /\ row'[a].status = "FAILED"]_vars

\* At most one attempt of the cc pair is active, whatever happens.
SingleActive == \A a, b \in Created : IsActive(a) /\ IsActive(b) => a = b

\* An attempt that ended is never active again, whatever happens: a late task,
\* a surviving process or the watchdog cannot revive it.
NoResurrection ==
    [][\A a \in Created : IsTerminal(a) => row'[a].status \notin Active]_vars

\* The life cycle every attempt keeps to, whatever happens: AttemptLifecycle.
Phase(a) ==
    IF a > last THEN "absent"
    ELSE CASE row[a].status = "NOT_STARTED" -> "waiting"
           [] row[a].status = "IN_PROGRESS" -> "running"
           [] OTHER -> "ended"
Lifecycle == INSTANCE AttemptLifecycle WITH phase <- [a \in Attempts |-> Phase(a)]

\* The rows of the attempts go through the life cycle of AttemptLifecycle:
\* nothing that dies, is lost, late or repeated creates an attempt beside an
\* active one, starts one twice or takes one back from its end.
KeepsLifecycle == Lifecycle!Spec

\* The end of the last successful window, which the next attempt starts from.  A
\* success counts once the monitor is done with its attempt.
InPass == monitor.pc \in {"clean", "handler"}
SettledEnds ==
    {row[b].end : b \in {c \in Created : /\ row[c].status = "SUCCESS"
                                        /\ ~(InPass /\ monitor.att = c)}} \cup {0}
LastSuccessEnd == CHOOSE e \in SettledEnds : \A f \in SettledEnds : f <= e
Promise == INSTANCE SyncPromise WITH
    running <- InPass \/ \E a \in Created : IsActive(a),
    upTo    <- LastSuccessEnd,
    indexed <- handled

\* Attempts, batches and counters together keep the promise of SyncPromise: the
\* end of the last successful window never goes back, and moves on only over
\* pages that were indexed, by the attempt that was active.
KeepsPromise == Promise!Spec

\* Every attempt ends, so that again and again none is active: neither a dead
\* process, a lost task nor a failed batch leaves one active for ever (it would
\* block all later attempts).
AttemptsEnd == []<>(\A a \in Created : IsTerminal(a))
=============================================================================

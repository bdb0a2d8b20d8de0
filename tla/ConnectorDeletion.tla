------------------------- MODULE ConnectorDeletion -------------------------
(***************************************************************************)
(* Deletion of connector-credential pairs (cc pairs) that share documents. *)
(*                                                                         *)
(*   API request      -- marks the pair DELETING                           *)
(*   check_for_connector_deletion (beat, one at a time)                    *)
(*                    -- fences the pair, waits for indexing and pruning,  *)
(*                       sends one cleanup task per document               *)
(*   cleanup task     -- removes the document, or only this pair's hold on *)
(*                       it, from the document index and from Postgres     *)
(*   the same beat    -- once the task set is empty, removes the pair, or  *)
(*                       starts over if documents are left                 *)
(*                                                                         *)
(* while docprocessing may still index documents for this pair or another. *)
(***************************************************************************)
EXTENDS Integers

CONSTANTS
    Document,
    CcPair,
    Yields,         \* Yields[c]: the documents the connector of c can fetch
    MaxGen,         \* bound: how often a pair's tasks are generated
    MaxRetries,     \* DOCUMENT_BY_CC_PAIR_CLEANUP_MAX_RETRIES
    MaxFaults,      \* bound: faults (see Fault)
    Hazards         \* which of HazardKinds the environment may show

HazardKinds == {
    "overlap",       \* two pairs that share documents are deleted together
    "reindexing",    \* another pair's document is indexed while it is cleaned up
    "straggler",     \* a batch of an ended attempt is still being indexed
    "unchanged",     \* a pair fetches what is indexed without access of its own
    "redelivery",    \* a cleanup task is delivered again after its commit
    "slow",          \* the active signal expires while tasks run
    "exhausted",     \* a cleanup task fails on its last retry
    "partial",       \* generating tasks fails when some have been sent
    "sync_race",     \* a document changes while its metadata are synced
    "reactivation"   \* a pair that is being deleted is given another status
}

ASSUME ConstantsAssumption ==
    /\ Yields \in [CcPair -> SUBSET Document]
    /\ MaxGen \in Nat \ {0}
    /\ MaxRetries \in Nat
    /\ MaxFaults \in Nat
    /\ Hazards \subseteq HazardKinds

VARIABLES
    status,     \* ConnectorCredentialPair.status
    indexing,   \* pairs whose latest index attempt is IN_PROGRESS
    batch,      \* the docprocessing worker of each pair
    pruning,    \* pairs with a prune or permission sync fence
    doc,        \* Document rows
    dirty,      \* documents with last_modified > last_synced
    holders,    \* DocumentByConnectorCredentialPair rows, by document
    indexed,    \* documents in the document index
    access,     \* the pairs whose access a document of the index carries
    fence,      \* connectordeletion_fence_{id}
    active,     \* pairs whose connectordeletion_active_{id} has not expired
    stop,       \* connectorstop_fence_{id} with its timeout
    sync,       \* the metadata sync task of each document
    taskset,    \* connectordeletion_taskset_{id}
    gen,        \* how often tasks were generated for the pair
    task,       \* the cleanup tasks
    beat,       \* the check_for_connector_deletion task
    delivered,  \* history: <<d, c>> once c's indexing of d has succeeded
    faults      \* faults so far

cleanupVars == <<fence, active, stop, taskset, gen, beat>>
storeVars == <<doc, dirty, holders, indexed, access>>
vars == <<status, indexing, batch, pruning, storeVars, cleanupVars, task, sync,
          delivered, faults>>

-----------------------------------------------------------------------------
(* Types *)

Status == {"LIVE",          \* every status but DELETING
           "DELETING",
           "DELETED"}       \* the row is gone
DocState == {"absent",
             "upserted",    \* no content hash yet
             "indexed"}
Generation == 1..MaxGen
TaskId == CcPair \X Document \X Generation
PairOf(t) == t[1]
DocOf(t) == t[2]

TaskPc == {"unsent", "queued", "delete", "forget", "update", "detach", "post", "done"}
Running == {"delete", "forget", "update", "detach"}
Task == [pc : TaskPc, access : SUBSET CcPair, tries : Nat]
NewTask == [pc |-> "unsent", access |-> {}, tries |-> 0]

BatchPc == {"idle", "relate", "relateOnly", "lock", "write", "commit"}
Batch == [pc : BatchPc, doc : Document, access : SUBSET CcPair]

Sync == [pc : {"idle", "write", "mark"}, access : SUBSET CcPair]
IdleSync == [pc |-> "idle", access |-> {}]

BeatPc == {"idle", "depend", "track", "send", "remove", "reset"}
Beat == [pc : BeatPc, pair : CcPair, todo : SUBSET Document, doc : Document]

TypeOK ==
    /\ status \in [CcPair -> Status]
    /\ indexing \subseteq CcPair
    /\ batch \in [CcPair -> Batch]
    /\ pruning \subseteq CcPair
    /\ doc \in [Document -> DocState]
    /\ dirty \subseteq Document
    /\ holders \in [Document -> SUBSET CcPair]
    /\ indexed \subseteq Document
    /\ access \in [Document -> SUBSET CcPair]
    /\ fence \in [CcPair -> {"none", "setup", "ready"}]
    /\ active \subseteq CcPair
    /\ stop \in [CcPair -> {"none", "set", "timedout"}]
    /\ taskset \in [CcPair -> SUBSET TaskId]
    /\ gen \in [CcPair -> 0..MaxGen]
    /\ task \in [TaskId -> Task]
    /\ sync \in [Document -> Sync]
    /\ beat \in Beat
    /\ delivered \subseteq Document \X CcPair
    /\ faults \in Nat

-----------------------------------------------------------------------------
(* Helpers *)

Fault == faults < MaxFaults /\ faults' = faults + 1
May(hazard) == hazard \in Hazards

\* Another pair may come to hold a document of c.
Sharing(c) == {o \in CcPair \ {c} : Yields[c] \cap Yields[o] # {}}

\* Faulty variant: the pairs being deleted are not left out.
AllHolders(d) == holders[d]
\* get_access_for_document: pairs being deleted give no access.
AccessFor(d) == {c \in holders[d] : status[c] = "LIVE"}

\* The row lock of prepare_to_modify_documents.
Locked(d) == \E c \in CcPair : batch[c].pc \in {"write", "commit"} /\ batch[c].doc = d

\* Faulty variant: any count but 0.
SomeHolder(d) == holders[d] # {}
\* get_document_connector_count(...) == 1
SingleHolder(d) == \E c \in CcPair : holders[d] = {c}

Goto(t, pc) == task' = [task EXCEPT ![t].pc = pc]
\* Celery retries a task under its own id, so it stays in the task set.
Requeue(t) ==
    task' = [task EXCEPT ![t] = [pc |-> "queued", access |-> {}, tries |-> @.tries + 1]]

\* RedisConnectorDelete.reset
ResetFence(c) ==
    /\ fence' = [fence EXCEPT ![c] = "none"]
    /\ active' = active \ {c}
    /\ taskset' = [taskset EXCEPT ![c] = {}]

BatchGoto(c, pc) == batch' = [batch EXCEPT ![c].pc = pc]
BeatGoto(pc) == beat' = [beat EXCEPT !.pc = pc]

Outstanding(c) == {t \in TaskId : PairOf(t) = c /\ task[t].pc \notin {"unsent", "done"}}

-----------------------------------------------------------------------------
(* The API, the index attempts and the other fences *)

\* create_deletion_attempt_for_connector_id
RequestDeletion(c) ==
    /\ status[c] = "LIVE"
    /\ May("overlap") \/ \A o \in Sharing(c) : status[o] # "DELETING"
    /\ May("reindexing") \/
          \A o \in Sharing(c) : batch[o].pc = "idle" \/ batch[o].doc \notin Yields[c]
    /\ status' = [status EXCEPT ![c] = "DELETING"]
    /\ delivered' = {p \in delivered : p[2] # c}
    /\ UNCHANGED <<indexing, batch, pruning, storeVars, cleanupVars, task, faults,
                   sync>>

\* update_cc_pair_status does not look at the status it replaces.  To pause sets the
\* stop fence without a timeout, which reads as timed out.
Reactivate(c) ==
    /\ May("reactivation") /\ Fault
    /\ status[c] = "DELETING"
    /\ status' = [status EXCEPT ![c] = "LIVE"]
    /\ stop' = [stop EXCEPT ![c] = "none"]
    /\ UNCHANGED <<indexing, batch, pruning, storeVars, fence, active, taskset, gen,
                   beat, task, delivered, sync>>

\* An attempt is created for a pair that is not being deleted; its process looks
\* at the fences only.
StartAttempt(c) ==
    /\ c \notin indexing
    /\ \/ status[c] = "LIVE" /\ UNCHANGED faults
       \/ status[c] = "DELETING" /\ May("straggler") /\ Fault
    /\ fence[c] = "none" /\ stop[c] = "none"
    /\ indexing' = indexing \cup {c}
    /\ UNCHANGED <<status, batch, pruning, storeVars, cleanupVars, task, delivered,
                   sync>>

\* It succeeds, fails or is canceled.
EndAttempt(c) ==
    /\ c \in indexing
    /\ \/ batch[c].pc = "idle" /\ UNCHANGED faults
       \/ batch[c].pc # "idle" /\ May("straggler") /\ Fault
    /\ indexing' = indexing \ {c}
    /\ UNCHANGED <<status, batch, pruning, storeVars, cleanupVars, task, delivered,
                   sync>>

PruneStart(c) ==
    /\ c \notin pruning
    /\ status[c] = "LIVE" /\ fence[c] = "none"
    /\ pruning' = pruning \cup {c}
    /\ UNCHANGED <<status, indexing, batch, storeVars, cleanupVars, task, delivered,
                   faults, sync>>

PruneEnd(c) ==
    /\ c \in pruning
    /\ pruning' = pruning \ {c}
    /\ UNCHANGED <<status, indexing, batch, storeVars, cleanupVars, task, delivered,
                   faults, sync>>

-----------------------------------------------------------------------------
(* docprocessing: the indexing pipeline for one document *)

\* index_doc_batch_prepare, first commit: the Document row of a document that is
\* new or has changed.
Upsert(c, d) ==
    /\ ~Locked(d)
    /\ doc' = [doc EXCEPT ![d] = IF @ = "absent" THEN "upserted" ELSE @]
    /\ dirty' = IF doc[d] = "absent" THEN dirty \cup {d} ELSE dirty
    /\ batch' = [batch EXCEPT ![c] = [pc |-> "relate", doc |-> d, access |-> {}]]

\* A document whose content hash is unchanged is not indexed again.
Skip(c, d) ==
    /\ doc[d] = "indexed"
    /\ c \in access[d] \/ May("unchanged")
    /\ batch' = [batch EXCEPT ![c] = [pc |-> "relateOnly", doc |-> d, access |-> {}]]
    /\ UNCHANGED <<doc, dirty>>

StartBatch(c, d) ==
    /\ c \in indexing
    /\ stop[c] = "none"
    /\ batch[c].pc = "idle"
    /\ d \in Yields[c]
    /\ May("reindexing") \/
          \A o \in CcPair \ {c} : d \in Yields[o] => status[o] # "DELETING"
    /\ Upsert(c, d) \/ Skip(c, d)
    /\ UNCHANGED <<status, indexing, pruning, holders, indexed, access, cleanupVars,
                   task, delivered, faults, sync>>

\* Deliver records that the pair may rely on the document from now on.
Deliver(c, d) ==
    delivered' = IF status[c] = "LIVE" THEN delivered \cup {<<d, c>>} ELSE delivered

\* Second commit: the relationship.  Its foreign keys need the rows to be there.
Relate(c) ==
    /\ batch[c].pc \in {"relate", "relateOnly"}
    /\ LET d == batch[c].doc IN
       /\ ~Locked(d)
       /\ doc[d] # "absent" /\ status[c] # "DELETED"
       /\ holders' = [holders EXCEPT ![d] = @ \cup {c}]
       /\ IF batch[c].pc = "relate"
          THEN BatchGoto(c, "lock") /\ UNCHANGED delivered
          ELSE BatchGoto(c, "idle") /\ Deliver(c, d)
    /\ UNCHANGED <<status, indexing, pruning, doc, dirty, indexed, access, cleanupVars,
                   task, faults, sync>>

\* lock_context and prepare_enrichment
Lock(c) ==
    /\ batch[c].pc = "lock"
    /\ LET d == batch[c].doc IN
       /\ ~Locked(d) /\ doc[d] # "absent"
       /\ batch' = [batch EXCEPT ![c].pc = "write", ![c].access = AccessFor(d)]
    /\ UNCHANGED <<status, indexing, pruning, storeVars, cleanupVars, task, delivered,
                   faults, sync>>

\* write_chunks_to_vector_db_with_backoff
Write(c) ==
    /\ batch[c].pc = "write"
    /\ indexed' = indexed \cup {batch[c].doc}
    /\ access' = [access EXCEPT ![batch[c].doc] = batch[c].access]
    /\ BatchGoto(c, "commit")
    /\ UNCHANGED <<status, indexing, pruning, doc, dirty, holders, cleanupVars, task,
                   delivered, faults, sync>>

\* post_index and the content hash, committed with the release of the lock
Commit(c) ==
    /\ batch[c].pc = "commit"
    /\ LET d == batch[c].doc IN
       /\ doc' = [doc EXCEPT ![d] = "indexed"]
       /\ dirty' = dirty \cup {d}
       /\ Deliver(c, d)
    /\ BatchGoto(c, "idle")
    /\ UNCHANGED <<status, indexing, pruning, holders, indexed, access, cleanupVars,
                   task, faults, sync>>

\* The rows it needs are gone, or anything else goes wrong.
BatchFails(c) ==
    /\ batch[c].pc # "idle"
    /\ \/ Fault
       \/ /\ batch[c].pc \in {"relate", "relateOnly", "lock"}
          /\ \/ doc[batch[c].doc] = "absent"
             \/ status[c] = "DELETED" /\ batch[c].pc # "lock"
          /\ UNCHANGED faults
    /\ BatchGoto(c, "idle")
    /\ UNCHANGED <<status, indexing, pruning, storeVars, cleanupVars, task, delivered,
                   sync>>

-----------------------------------------------------------------------------
(* document_by_cc_pair_cleanup_task *)

\* Phase 1: the count decides, whoever the holders are.
Pickup(t) ==
    /\ task[t].pc = "queued"
    /\ task' = [task EXCEPT ![t] =
                   IF SingleHolder(DocOf(t)) THEN [@ EXCEPT !.pc = "delete"]
                   ELSE IF holders[DocOf(t)] = {} THEN [@ EXCEPT !.pc = "post"]
                   ELSE [@ EXCEPT !.pc = "update", !.access = AccessFor(DocOf(t))]]
    /\ UNCHANGED <<status, indexing, batch, pruning, storeVars, cleanupVars, delivered,
                   faults, sync>>

\* Phase 2, without a transaction or a lock.
IndexDelete(t) ==
    /\ task[t].pc = "delete"
    /\ indexed' = indexed \ {DocOf(t)}
    /\ access' = [access EXCEPT ![DocOf(t)] = {}]
    /\ Goto(t, "forget")
    /\ UNCHANGED <<status, indexing, batch, pruning, doc, dirty, holders, cleanupVars,
                   delivered, faults, sync>>

IndexUpdate(t) ==
    /\ task[t].pc = "update"
    /\ access' = IF DocOf(t) \in indexed
                 THEN [access EXCEPT ![DocOf(t)] = task[t].access] ELSE access
    /\ Goto(t, "detach")
    /\ UNCHANGED <<status, indexing, batch, pruning, doc, dirty, holders, indexed,
                   cleanupVars, delivered, faults, sync>>

\* Phase 3: delete_documents_complete drops every relationship of the document.
Forget(t) ==
    /\ task[t].pc = "forget"
    /\ ~Locked(DocOf(t))
    /\ doc' = [doc EXCEPT ![DocOf(t)] = "absent"]
    /\ dirty' = dirty \ {DocOf(t)}
    /\ holders' = [holders EXCEPT ![DocOf(t)] = {}]
    /\ Goto(t, "post")
    /\ UNCHANGED <<status, indexing, batch, pruning, indexed, access, cleanupVars,
                   delivered, faults, sync>>

\* Phase 3 for a document that stays: it counts as synced now.
Detach(t) ==
    /\ task[t].pc = "detach"
    /\ ~Locked(DocOf(t)) /\ doc[DocOf(t)] # "absent"
    /\ holders' = [holders EXCEPT ![DocOf(t)] = @ \ {PairOf(t)}]
    /\ dirty' = dirty \ {DocOf(t)}
    /\ Goto(t, "post")
    /\ UNCHANGED <<status, indexing, batch, pruning, doc, indexed, access, cleanupVars,
                   delivered, faults, sync>>

\* mark_document_as_synced raises when the row is gone; other errors are faults.
Raises(t) ==
    /\ task[t].pc \in Running
    /\ \/ Fault
       \/ task[t].pc = "detach" /\ doc[DocOf(t)] = "absent" /\ UNCHANGED faults

Retry(t) ==
    /\ Raises(t)
    /\ task[t].tries < MaxRetries
    /\ Requeue(t)
    /\ UNCHANGED <<status, indexing, batch, pruning, storeVars, cleanupVars, delivered,
                   sync>>

\* The last retry gives the relationship up and leaves the index as it is.
LastRetry(t) ==
    /\ Raises(t)
    /\ task[t].tries = MaxRetries
    /\ ~Locked(DocOf(t))
    /\ IF doc[DocOf(t)] = "absent"
       THEN UNCHANGED <<holders, dirty>>
       ELSE /\ May("exhausted")
            /\ holders' = [holders EXCEPT ![DocOf(t)] = @ \ {PairOf(t)}]
            /\ dirty' = dirty \cup {DocOf(t)}
    /\ Goto(t, "post")
    /\ UNCHANGED <<status, indexing, batch, pruning, doc, indexed, access, cleanupVars,
                   delivered, sync>>

\* The soft time limit, or an HTTP error: no retry.
GiveUp(t) ==
    /\ task[t].pc \in Running /\ Fault
    /\ Goto(t, "post")
    /\ UNCHANGED <<status, indexing, batch, pruning, storeVars, cleanupVars, delivered,
                   sync>>

\* on_task_postrun
Postrun(t) ==
    /\ task[t].pc = "post"
    /\ taskset' = [taskset EXCEPT ![PairOf(t)] = @ \ {t}]
    /\ Goto(t, "done")
    /\ UNCHANGED <<status, indexing, batch, pruning, storeVars, fence, active, stop,
                   gen, beat, delivered, faults, sync>>

\* acks_late: a task whose worker dies, or that runs for too long, is delivered
\* again, under the same id and with the same number of retries.
Redeliver(t) ==
    /\ task[t].pc \in Running \/ (task[t].pc \in {"post", "done"} /\ May("redelivery"))
    /\ Fault
    /\ task' = [task EXCEPT ![t].pc = "queued", ![t].access = {}]
    /\ UNCHANGED <<status, indexing, batch, pruning, storeVars, cleanupVars, delivered,
                   sync>>

-----------------------------------------------------------------------------
(* document_index_metadata_sync_task *)

SyncAtOnce(d) ==
    /\ doc[d] # "absent" /\ d \in dirty
    /\ ~Locked(d)
    /\ access' = IF d \in indexed THEN [access EXCEPT ![d] = AccessFor(d)] ELSE access
    /\ dirty' = dirty \ {d}
    /\ UNCHANGED <<status, indexing, batch, pruning, doc, holders, indexed, cleanupVars,
                   task, sync, delivered, faults>>

SyncRead(d) ==
    /\ May("sync_race")
    /\ sync[d].pc = "idle"
    /\ doc[d] # "absent" /\ d \in dirty
    /\ sync' = [sync EXCEPT ![d] = [pc |-> "write", access |-> AccessFor(d)]]
    /\ UNCHANGED <<status, indexing, batch, pruning, storeVars, cleanupVars, task,
                   delivered, faults>>

SyncWrite(d) ==
    /\ sync[d].pc = "write"
    /\ access' = IF d \in indexed THEN [access EXCEPT ![d] = sync[d].access] ELSE access
    /\ sync' = [sync EXCEPT ![d] = [pc |-> "mark", access |-> {}]]
    /\ UNCHANGED <<status, indexing, batch, pruning, doc, dirty, holders, indexed,
                   cleanupVars, task, delivered, faults>>

\* mark_document_as_synced takes the time of this commit, not that of the read.
SyncMark(d) ==
    /\ sync[d].pc = "mark" /\ ~Locked(d)
    /\ dirty' = dirty \ {d}
    /\ sync' = [sync EXCEPT ![d] = IdleSync]
    /\ UNCHANGED <<status, indexing, batch, pruning, doc, holders, indexed, access,
                   cleanupVars, task, delivered, faults>>

-----------------------------------------------------------------------------
(* check_for_connector_deletion: one at a time, under a lock *)

\* The fence is set before it is known whether the deletion may proceed.
SetFence(c) ==
    /\ beat.pc = "idle"
    /\ fence[c] = "none" /\ status[c] = "DELETING"
    /\ gen[c] < MaxGen
    /\ fence' = [fence EXCEPT ![c] = "setup"]
    /\ active' = active \cup {c}
    /\ beat' = [beat EXCEPT !.pc = "depend", !.pair = c]
    /\ UNCHANGED <<status, indexing, batch, pruning, storeVars, stop, taskset, gen,
                   task, delivered, faults, sync>>

\* TaskDependencyError: stop what is in the way, then wait, then drop the fences.
Blocked ==
    /\ beat.pc = "depend"
    /\ LET c == beat.pair IN
       /\ c \in indexing \cup pruning
       /\ fence' = [fence EXCEPT ![c] = "none"]
       /\ stop' = IF stop[c] = "none" THEN [stop EXCEPT ![c] = "set"] ELSE stop
       /\ pruning' = IF stop[c] = "timedout" THEN pruning \ {c} ELSE pruning
    /\ BeatGoto("idle")
    /\ UNCHANGED <<status, indexing, batch, storeVars, active, taskset, gen, task,
                   delivered, faults, sync>>

StopTimesOut(c) ==
    /\ stop[c] = "set"
    /\ stop' = [stop EXCEPT ![c] = "timedout"]
    /\ UNCHANGED <<status, indexing, batch, pruning, storeVars, fence, active, taskset,
                   gen, beat, task, delivered, faults, sync>>

\* A pair that is not waited for loses its stop fence.
DropStop(c) ==
    /\ beat.pc = "idle"
    /\ stop[c] # "none" /\ (fence[c] # "none" \/ status[c] = "LIVE")
    /\ stop' = [stop EXCEPT ![c] = "none"]
    /\ UNCHANGED <<status, indexing, batch, pruning, storeVars, fence, active, taskset,
                   gen, beat, task, delivered, faults, sync>>

\* taskset_clear and the query of generate_tasks
Collect ==
    /\ beat.pc = "depend"
    /\ LET c == beat.pair IN
       /\ c \notin indexing \cup pruning
       /\ taskset' = [taskset EXCEPT ![c] = {}]
       /\ gen' = [gen EXCEPT ![c] = @ + 1]
       /\ beat' = [beat EXCEPT !.pc = "track",
                               !.todo = {d \in Document : c \in holders[d]}]
    /\ UNCHANGED <<status, indexing, batch, pruning, storeVars, fence, active, stop,
                   task, delivered, faults, sync>>

\* Faulty variant: the identifier of the generation to come.
NextId(c, d) == <<c, d, gen[c] + 1>>
NewId(c, d) == <<c, d, gen[c]>>

\* The task set comes first, ...
Track(d) ==
    /\ beat.pc = "track" /\ d \in beat.todo
    /\ taskset' = [taskset EXCEPT ![beat.pair] = @ \cup {NewId(beat.pair, d)}]
    /\ beat' = [beat EXCEPT !.pc = "send", !.doc = d, !.todo = @ \ {d}]
    /\ UNCHANGED <<status, indexing, batch, pruning, storeVars, fence, active, stop,
                   gen, task, delivered, faults, sync>>

\* ... then the task.
Send ==
    /\ beat.pc = "send"
    /\ Goto(NewId(beat.pair, beat.doc), "queued")
    /\ BeatGoto("track")
    /\ UNCHANGED <<status, indexing, batch, pruning, storeVars, fence, active, stop,
                   taskset, gen, delivered, faults, sync>>

\* num_tasks is set when all are sent; the stop fence has served its purpose.
Arm ==
    /\ beat.pc = "track" /\ beat.todo = {}
    /\ fence' = [fence EXCEPT ![beat.pair] = "ready"]
    /\ stop' = [stop EXCEPT ![beat.pair] = "none"]
    /\ BeatGoto("idle")
    /\ UNCHANGED <<status, indexing, batch, pruning, storeVars, active, taskset, gen,
                   task, delivered, faults, sync>>

\* An exception while the tasks are generated.
GenerationFails ==
    /\ beat.pc \in {"depend", "track", "send"} /\ Fault
    /\ May("partial") \/ Outstanding(beat.pair) = {}
    /\ fence' = [fence EXCEPT ![beat.pair] = "none"]
    /\ stop' = [stop EXCEPT ![beat.pair] = "none"]
    /\ BeatGoto("idle")
    /\ UNCHANGED <<status, indexing, batch, pruning, storeVars, active, taskset, gen,
                   task, delivered, sync>>

BeatDies ==
    /\ beat.pc # "idle" /\ Fault
    /\ BeatGoto("idle")
    /\ UNCHANGED <<status, indexing, batch, pruning, storeVars, fence, active, stop,
                   taskset, gen, task, delivered, sync>>

\* Faulty variant: the task set is not looked at.
TasksSent(c) == fence[c] = "ready"
\* monitor_connector_deletion_taskset: documents are left, so start over.
TasksDone(c) == fence[c] = "ready" /\ taskset[c] = {}

StartOver(c) ==
    /\ beat.pc = "idle"
    /\ TasksDone(c) /\ status[c] # "DELETED"
    /\ \E d \in Document : c \in holders[d]
    /\ ResetFence(c)
    /\ UNCHANGED <<status, indexing, batch, pruning, storeVars, stop, gen, beat, task,
                   delivered, faults, sync>>

NothingLeft(c) ==
    /\ beat.pc = "idle"
    /\ TasksDone(c) /\ status[c] # "DELETED"
    /\ \A d \in Document : c \notin holders[d]
    /\ beat' = [beat EXCEPT !.pc = "remove", !.pair = c]
    /\ UNCHANGED <<status, indexing, batch, pruning, storeVars, fence, active, stop,
                   taskset, gen, task, delivered, faults, sync>>

\* The index attempts, what relationships there are by now, and the pair.
RemovePair ==
    /\ beat.pc = "remove"
    /\ LET c == beat.pair IN
       /\ indexing' = indexing \ {c}
       /\ holders' = [d \in Document |-> holders[d] \ {c}]
       /\ status' = [status EXCEPT ![c] = "DELETED"]
    /\ BeatGoto("reset")
    /\ UNCHANGED <<batch, pruning, doc, dirty, indexed, access, fence, active, stop,
                   taskset, gen, task, delivered, faults, sync>>

ClearFence ==
    /\ beat.pc = "reset"
    /\ ResetFence(beat.pair)
    /\ BeatGoto("idle")
    /\ UNCHANGED <<status, indexing, batch, pruning, storeVars, stop, gen, task,
                   delivered, faults, sync>>

\* Faulty variant: an empty task set keeps the fence, too.
NoneMissing(c) == \A t \in taskset[c] : task[t].pc = "queued"
\* validate_connector_deletion_fence: what waits in the broker's queue counts,
\* what a worker has reserved or runs does not.
AllQueued(c) == taskset[c] # {} /\ \A t \in taskset[c] : task[t].pc = "queued"

Renew(c) ==
    /\ beat.pc = "idle"
    /\ fence[c] # "none" /\ AllQueued(c)
    /\ c \notin active
    /\ active' = active \cup {c}
    /\ UNCHANGED <<status, indexing, batch, pruning, storeVars, fence, stop, taskset,
                   gen, beat, task, delivered, faults, sync>>

Abandon(c) ==
    /\ beat.pc = "idle"
    /\ fence[c] # "none" /\ ~AllQueued(c)
    /\ c \notin active
    /\ ResetFence(c)
    /\ UNCHANGED <<status, indexing, batch, pruning, storeVars, stop, gen, beat, task,
                   delivered, faults, sync>>

\* ACTIVE_TTL, an hour: no fence lasts so long but one that its beat has abandoned,
\* unless tasks are slow.
ActiveExpires(c) ==
    /\ c \in active
    /\ \/ /\ Outstanding(c) = {} /\ (TasksDone(c) => status[c] = "DELETED")
          /\ beat.pc = "idle" \/ beat.pair # c
          /\ UNCHANGED faults
       \/ May("slow") /\ Fault
    /\ active' = active \ {c}
    /\ UNCHANGED <<status, indexing, batch, pruning, storeVars, fence, stop, taskset,
                   gen, beat, task, delivered, sync>>

-----------------------------------------------------------------------------
Init ==
    /\ status = [c \in CcPair |-> "LIVE"]
    /\ indexing = {}
    /\ batch \in [CcPair -> {b \in Batch : b.pc = "idle" /\ b.access = {}}]
    /\ pruning = {}
    /\ doc = [d \in Document |-> "absent"]
    /\ dirty = {}
    /\ holders = [d \in Document |-> {}]
    /\ indexed = {}
    /\ access = [d \in Document |-> {}]
    /\ fence = [c \in CcPair |-> "none"]
    /\ active = {}
    /\ stop = [c \in CcPair |-> "none"]
    /\ taskset = [c \in CcPair |-> {}]
    /\ gen = [c \in CcPair |-> 0]
    /\ task = [t \in TaskId |-> NewTask]
    /\ sync = [d \in Document |-> IdleSync]
    /\ beat \in {b \in Beat : b.pc = "idle" /\ b.todo = {}}
    /\ delivered = {}
    /\ faults = 0

PairStep(c) ==
    \/ RequestDeletion(c) \/ Reactivate(c)
    \/ StartAttempt(c) \/ EndAttempt(c)
    \/ PruneStart(c) \/ PruneEnd(c)

BatchStep(c) ==
    \/ \E d \in Document : StartBatch(c, d)
    \/ Relate(c) \/ Lock(c) \/ Write(c) \/ Commit(c) \/ BatchFails(c)

TaskStep(t) ==
    \/ Pickup(t) \/ IndexDelete(t) \/ IndexUpdate(t) \/ Forget(t) \/ Detach(t)
    \/ Retry(t) \/ LastRetry(t) \/ GiveUp(t) \/ Postrun(t) \/ Redeliver(t)

FenceStep(c) ==
    \/ SetFence(c) \/ StopTimesOut(c) \/ DropStop(c)
    \/ StartOver(c) \/ NothingLeft(c)
    \/ Renew(c) \/ Abandon(c) \/ ActiveExpires(c)

SyncStep(d) == SyncAtOnce(d) \/ SyncRead(d) \/ SyncWrite(d) \/ SyncMark(d)

BeatStep ==
    \/ Blocked \/ Collect \/ Send \/ Arm
    \/ \E d \in Document : Track(d)
    \/ GenerationFails \/ BeatDies
    \/ RemovePair \/ ClearFence

Next ==
    \/ \E c \in CcPair : PairStep(c) \/ BatchStep(c) \/ FenceStep(c)
    \/ \E t \in TaskId : TaskStep(t)
    \/ \E d \in Document : SyncStep(d)
    \/ BeatStep

Spec == Init /\ [][Next]_vars

\* An attempt that is started ends (AttemptsEnd of DocumentIndexing); batches and
\* tasks are worked on and get the row locks they queue for; the beat comes round
\* to every pair again and again; time passes.
BatchWork(c) == Relate(c) \/ Lock(c) \/ Write(c) \/ Commit(c) \/ BatchFails(c)
TaskWork(t) ==
    \/ Pickup(t) \/ IndexDelete(t) \/ IndexUpdate(t) \/ Forget(t) \/ Detach(t)
    \/ Retry(t) \/ LastRetry(t) \/ Postrun(t)
FenceWork(c) == SetFence(c) \/ StartOver(c) \/ NothingLeft(c) \/ Abandon(c)
BeatWork ==
    \/ Blocked \/ Collect \/ Send \/ Arm \/ RemovePair \/ ClearFence
    \/ \E d \in Document : Track(d)

Fairness ==
    /\ \A c \in CcPair :
          /\ WF_vars(EndAttempt(c)) /\ SF_vars(BatchWork(c))
          /\ SF_vars(\E t \in TaskId : PairOf(t) = c /\ TaskWork(t))
          /\ SF_vars(FenceWork(c))
          /\ WF_vars(StopTimesOut(c)) /\ WF_vars(ActiveExpires(c))
    /\ WF_vars(BeatWork)

FairSpec == Spec /\ Fairness

-----------------------------------------------------------------------------
(* Properties *)

\* What a live pair has indexed stays its own: no deletion of another pair takes
\* the document out of the index, drops the relationship, or leaves the pair
\* without access to it for longer than the next metadata sync.
LiveDocumentsKept ==
    \A d \in Document, c \in CcPair :
        <<d, c>> \in delivered =>
            /\ c \in holders[d]
            /\ d \in indexed
            /\ c \in access[d] \/ d \in dirty

\* A document is in the index for a pair that holds it, and only such pairs give
\* access to it: no deletion leaves a document, or access to one, behind.
NoOrphans ==
    \A d \in indexed : holders[d] # {} /\ access[d] \subseteq holders[d]

\* A pair is removed only when every cleanup task that was sent for it is over.
NoTaskOutlivesPair == \A c \in CcPair : status[c] = "DELETED" => Outstanding(c) = {}

\* delete_documents_by_connector_credential_pair__no_commit assumes "that the
\* document itself still has other cc_pair references": a task that drops only its
\* pair's relationship leaves another pair's.
DetachLeavesHolder ==
    [][\A t \in TaskId : Detach(t) => holders'[DocOf(t)] # {}]_vars

\* Every request to delete a pair is carried out, whatever fails on the way.
DeletionCompletes == \A c \in CcPair : status[c] = "DELETING" ~> status[c] # "DELETING"
=============================================================================

----------------------- MODULE ConnectorDeletion_proofs -----------------------
(* For every value of the constants: ConnectorDeletion is well-typed, no        *)
(* cleanup task outlives its pair, no document or access is orphaned, and what   *)
(* live pairs have indexed is kept.                                              *)
EXTENDS ConnectorDeletion, TLAPS

-----------------------------------------------------------------------------
(* Types                                                                     *)

\* The beat sends tasks of a generation within the bound: the counter is below it
\* when a pair is fenced and at least 1 once the documents are collected.
GenAtWork ==
    /\ beat.pc = "depend" => gen[beat.pair] < MaxGen
    /\ beat.pc \in {"track", "send"} => gen[beat.pair] \in Generation

TInv == TypeOK /\ GenAtWork

\* The parts of a task identifier.
LEMMA IdParts == \A t \in TaskId : DocOf(t) \in Document /\ PairOf(t) \in CcPair
BY DEF TaskId, DocOf, PairOf

\* Access comes from pairs.
LEMMA AccessType ==
    ASSUME TypeOK, NEW d \in Document PROVE AccessFor(d) \in SUBSET CcPair
BY DEF TypeOK, AccessFor

LEMMA GotoType ==
    ASSUME TypeOK, NEW t \in TaskId, NEW pc \in TaskPc, Goto(t, pc)
    PROVE  task' \in [TaskId -> Task]
<1>1. [task[t] EXCEPT !.pc = pc] \in Task
  BY DEF TypeOK, Task
<1> QED
  BY <1>1 DEF TypeOK, Goto

LEMMA BatchGotoType ==
    ASSUME TypeOK, NEW c \in CcPair, NEW pc \in BatchPc, BatchGoto(c, pc)
    PROVE  batch' \in [CcPair -> Batch]
<1>1. [batch[c] EXCEPT !.pc = pc] \in Batch
  BY DEF TypeOK, Batch
<1> QED
  BY <1>1 DEF TypeOK, BatchGoto

LEMMA BatchAt == ASSUME TypeOK, NEW c \in CcPair PROVE batch[c].doc \in Document /\ batch[c].access \in SUBSET CcPair
BY DEF TypeOK, Batch

LEMMA BeatGotoType ==
    ASSUME TypeOK, NEW pc \in BeatPc, BeatGoto(pc)
    PROVE  beat' \in Beat /\ beat'.pc = pc /\ beat'.pair = beat.pair
BY DEF TypeOK, Beat, BeatGoto

LEMMA BeatAt == ASSUME TypeOK PROVE beat.pair \in CcPair /\ beat.doc \in Document /\ beat.todo \in SUBSET Document
BY DEF TypeOK, Beat

\* Requests, attempts and prune jobs.
LEMMA PairTypes ==
    ASSUME TInv, NEW c \in CcPair,
           PairStep(c)
    PROVE  TInv'
<1> USE DEF TInv
<1>1. CASE RequestDeletion(c)
  BY <1>1, ConstantsAssumption DEF RequestDeletion, TypeOK, GenAtWork, storeVars, cleanupVars, Status
<1>2. CASE Reactivate(c)
  BY <1>2, ConstantsAssumption DEF Reactivate, TypeOK, GenAtWork, storeVars, cleanupVars, Fault, Status
<1>3. CASE StartAttempt(c)
  BY <1>3, ConstantsAssumption DEF StartAttempt, TypeOK, GenAtWork, storeVars, cleanupVars, Fault
<1>4. CASE EndAttempt(c)
  BY <1>4, ConstantsAssumption DEF EndAttempt, TypeOK, GenAtWork, storeVars, cleanupVars, Fault
<1>5. CASE PruneStart(c)
  BY <1>5, ConstantsAssumption DEF PruneStart, TypeOK, GenAtWork, storeVars, cleanupVars, Status
<1>6. CASE PruneEnd(c)
  BY <1>6, ConstantsAssumption DEF PruneEnd, TypeOK, GenAtWork, storeVars, cleanupVars, Status
<1> QED
  BY <1>1, <1>2, <1>3, <1>4, <1>5, <1>6 DEF PairStep

\* The indexing pipeline.
LEMMA BatchTypes ==
    ASSUME TInv, NEW c \in CcPair,
           BatchStep(c)
    PROVE  TInv'
<1> USE DEF TInv
<1>1. CASE \E d \in Document : StartBatch(c, d)
  <2> SUFFICES ASSUME NEW d \in Document, StartBatch(c, d) PROVE TInv'
    BY <1>1
  <2>1. doc' \in [Document -> DocState] /\ dirty' \subseteq Document
    BY DEF StartBatch, Upsert, Skip, TypeOK, DocState
  <2>2. batch' \in [CcPair -> Batch]
    <3>1. \A pc \in BatchPc : [pc |-> pc, doc |-> d, access |-> {}] \in Batch
      BY DEF Batch
    <3>2. "relate" \in BatchPc /\ "relateOnly" \in BatchPc
      BY DEF BatchPc
    <3> QED
      BY <3>1, <3>2 DEF StartBatch, Upsert, Skip, TypeOK
  <2> QED
    BY <2>1, <2>2 DEF StartBatch, TypeOK, GenAtWork, storeVars, cleanupVars
<1>2. CASE Relate(c)
  <2>1. batch' \in [CcPair -> Batch]
    BY <1>2, BatchGotoType DEF Relate, BatchPc
  <2>2. holders' \in [Document -> SUBSET CcPair] /\ delivered' \subseteq Document \X CcPair
    BY <1>2, BatchAt DEF Relate, Deliver, TypeOK
  <2> QED
    BY <1>2, <2>1, <2>2 DEF Relate, TypeOK, GenAtWork, storeVars, cleanupVars
<1>3. CASE Lock(c)
  <2>1. batch' \in [CcPair -> Batch]
    <3>1. AccessFor(batch[c].doc) \in SUBSET CcPair
      BY BatchAt, AccessType
    <3>2. "write" \in BatchPc
      BY DEF BatchPc
    <3>3. ASSUME NEW b \in Batch, NEW A \in SUBSET CcPair
          PROVE  [b EXCEPT !.pc = "write", !.access = A] \in Batch
      BY <3>2 DEF Batch
    <3> QED
      BY <1>3, <3>1, <3>3 DEF Lock, TypeOK
  <2> QED
    BY <1>3, <2>1 DEF Lock, TypeOK, GenAtWork, storeVars, cleanupVars
<1>4. CASE Write(c)
  BY <1>4, ConstantsAssumption DEF Write, TypeOK, GenAtWork, storeVars, cleanupVars, Batch, BatchPc, BatchGoto
<1>5. CASE Commit(c)
  <2>1. batch' \in [CcPair -> Batch]
    BY <1>5, BatchGotoType DEF Commit, BatchPc
  <2>2. /\ doc' \in [Document -> DocState] /\ dirty' \subseteq Document
        /\ delivered' \subseteq Document \X CcPair
    BY <1>5, BatchAt DEF Commit, Deliver, TypeOK, DocState
  <2> QED
    BY <1>5, <2>1, <2>2 DEF Commit, TypeOK, GenAtWork, storeVars, cleanupVars
<1>6. CASE BatchFails(c)
  <2>1. batch' \in [CcPair -> Batch]
    BY <1>6, BatchGotoType DEF BatchFails, BatchPc
  <2>2. faults' \in Nat
    BY <1>6 DEF BatchFails, Fault, TypeOK
  <2> QED
    BY <1>6, <2>1, <2>2 DEF BatchFails, TypeOK, GenAtWork, storeVars, cleanupVars
<1> QED
  BY <1>1, <1>2, <1>3, <1>4, <1>5, <1>6 DEF BatchStep

\* The cleanup task.
LEMMA TaskTypes ==
    ASSUME TInv, NEW t \in TaskId,
           TaskStep(t)
    PROVE  TInv'
<1> USE DEF TInv
<1>1. CASE Pickup(t)
  <2>1. task' \in [TaskId -> Task]
    <3>1. AccessFor(DocOf(t)) \in SUBSET CcPair
      BY IdParts, AccessType
    <3>2. {"delete", "post", "update"} \subseteq TaskPc
      BY DEF TaskPc
    <3>3. /\ [task[t] EXCEPT !.pc = "delete"] \in Task
          /\ [task[t] EXCEPT !.pc = "post"] \in Task
          /\ [task[t] EXCEPT !.pc = "update", !.access = AccessFor(DocOf(t))] \in Task
      BY <3>1, <3>2 DEF TypeOK, Task
    <3> QED
      BY <1>1, <3>3 DEF Pickup, TypeOK
  <2> QED
    BY <1>1, <2>1 DEF Pickup, TypeOK, GenAtWork, storeVars, cleanupVars
<1>2. CASE IndexDelete(t)
  <2>1. task' \in [TaskId -> Task]
    BY <1>2, GotoType DEF IndexDelete, TaskPc
  <2>2. indexed' \subseteq Document /\ access' \in [Document -> SUBSET CcPair]
    BY <1>2, IdParts DEF IndexDelete, TypeOK
  <2> QED
    BY <1>2, <2>1, <2>2 DEF IndexDelete, TypeOK, GenAtWork, storeVars, cleanupVars
<1>3. CASE IndexUpdate(t)
  <2>1. task' \in [TaskId -> Task]
    BY <1>3, GotoType DEF IndexUpdate, TaskPc
  <2>2. access' \in [Document -> SUBSET CcPair]
    BY <1>3, IdParts DEF IndexUpdate, Task, TypeOK
  <2> QED
    BY <1>3, <2>1, <2>2 DEF IndexUpdate, TypeOK, GenAtWork, storeVars, cleanupVars
<1>4. CASE Forget(t)
  <2>1. task' \in [TaskId -> Task]
    BY <1>4, GotoType DEF Forget, TaskPc
  <2>2. /\ doc' \in [Document -> DocState]
        /\ dirty' \subseteq Document
       
        /\ holders' \in [Document -> SUBSET CcPair]
    BY <1>4, IdParts DEF Forget, DocState, TypeOK
  <2> QED
    BY <1>4, <2>1, <2>2 DEF Forget, TypeOK, GenAtWork, storeVars, cleanupVars
<1>5. CASE Detach(t)
  BY <1>5, ConstantsAssumption DEF Detach, TypeOK, GenAtWork, storeVars, cleanupVars, Task, TaskPc, Goto, DocOf
<1>6. CASE Retry(t)
  BY <1>6, ConstantsAssumption DEF Retry, TypeOK, GenAtWork, storeVars, cleanupVars, Task, TaskPc, Goto, Raises, Requeue, Fault
<1>7. CASE LastRetry(t)
  <2>1. task' \in [TaskId -> Task]
    BY <1>7, GotoType DEF LastRetry, TaskPc
  <2>2. /\ holders' \in [Document -> SUBSET CcPair]
        /\ dirty' \subseteq Document
       
        /\ faults' \in Nat
    BY <1>7, IdParts DEF LastRetry, Raises, Fault, TypeOK
  <2> QED
    BY <1>7, <2>1, <2>2 DEF LastRetry, TypeOK, GenAtWork, storeVars, cleanupVars
<1>8. CASE GiveUp(t)
  <2>1. task' \in [TaskId -> Task]
    BY <1>8, GotoType DEF GiveUp, TaskPc
  <2> QED
    BY <1>8, <2>1 DEF GiveUp, Fault, TypeOK, GenAtWork, storeVars, cleanupVars
<1>9. CASE Postrun(t)
  BY <1>9, ConstantsAssumption DEF Postrun, TypeOK, GenAtWork, storeVars, cleanupVars, Task, TaskPc, Goto, PairOf
<1>10. CASE Redeliver(t)
  <2>1. task' \in [TaskId -> Task]
    <3>1. "queued" \in TaskPc
      BY DEF TaskPc
    <3> QED
      BY <1>10, <3>1 DEF Redeliver, TypeOK, Task
  <2>2. faults' \in Nat
    BY <1>10 DEF Redeliver, Fault, TypeOK
  <2> QED
    BY <1>10, <2>1, <2>2 DEF Redeliver, TypeOK, GenAtWork, storeVars, cleanupVars
<1> QED
  BY <1>1, <1>2, <1>3, <1>4, <1>5, <1>6, <1>7, <1>8, <1>9, <1>10 DEF TaskStep

\* Fences, their monitoring and their validation.
LEMMA FenceTypes ==
    ASSUME TInv, NEW c \in CcPair,
           FenceStep(c)
    PROVE  TInv'
<1> USE DEF TInv
<1>1. CASE SetFence(c)
  BY <1>1, ConstantsAssumption DEF SetFence, TypeOK, GenAtWork, storeVars, cleanupVars, Beat, BeatPc, BeatGoto
<1>2. CASE StopTimesOut(c)
  BY <1>2, ConstantsAssumption DEF StopTimesOut, TypeOK, GenAtWork, storeVars, cleanupVars, Beat, BeatPc, BeatGoto
<1>3. CASE DropStop(c)
  BY <1>3, ConstantsAssumption DEF DropStop, TypeOK, GenAtWork, storeVars, cleanupVars, Beat, BeatPc, BeatGoto
<1>4. CASE StartOver(c)
  BY <1>4, ConstantsAssumption DEF StartOver, TypeOK, GenAtWork, storeVars, cleanupVars, Beat, BeatPc, BeatGoto, ResetFence
<1>5. CASE NothingLeft(c)
  BY <1>5, ConstantsAssumption DEF NothingLeft, TypeOK, GenAtWork, storeVars, cleanupVars, Beat, BeatPc, BeatGoto
<1>6. CASE Renew(c)
  BY <1>6, ConstantsAssumption DEF Renew, TypeOK, GenAtWork, storeVars, cleanupVars, Beat, BeatPc, BeatGoto
<1>7. CASE Abandon(c)
  BY <1>7, ConstantsAssumption DEF Abandon, TypeOK, GenAtWork, storeVars, cleanupVars, Beat, BeatPc, BeatGoto, ResetFence
<1>8. CASE ActiveExpires(c)
  BY <1>8, ConstantsAssumption DEF ActiveExpires, TypeOK, GenAtWork, storeVars, cleanupVars, Beat, BeatPc, BeatGoto, Fault
<1> QED
  BY <1>1, <1>2, <1>3, <1>4, <1>5, <1>6, <1>7, <1>8 DEF FenceStep

\* The metadata sync.
LEMMA SyncTypes ==
    ASSUME TInv, NEW d \in Document,
           SyncStep(d)
    PROVE  TInv'
<1> USE DEF TInv
<1>1. CASE SyncAtOnce(d)
  BY <1>1, ConstantsAssumption DEF SyncAtOnce, TypeOK, GenAtWork, storeVars, cleanupVars, AccessFor
<1>2. CASE SyncRead(d)
  BY <1>2, ConstantsAssumption DEF SyncRead, TypeOK, GenAtWork, storeVars, cleanupVars, Sync, IdleSync, AccessFor
<1>3. CASE SyncWrite(d)
  BY <1>3, ConstantsAssumption DEF SyncWrite, TypeOK, GenAtWork, storeVars, cleanupVars, Sync, IdleSync
<1>4. CASE SyncMark(d)
  BY <1>4, ConstantsAssumption DEF SyncMark, TypeOK, GenAtWork, storeVars, cleanupVars, Sync, IdleSync
<1> QED
  BY <1>1, <1>2, <1>3, <1>4 DEF SyncStep

\* The beat at work on a pair.
LEMMA BeatTypes ==
    ASSUME TInv, BeatStep
    PROVE  TInv'
<1> USE DEF TInv
<1>1. CASE Blocked
  BY <1>1, ConstantsAssumption DEF Blocked, TypeOK, GenAtWork, storeVars, cleanupVars, Beat, BeatPc, BeatGoto
<1>2. CASE Collect
  <2>1. /\ beat' \in Beat /\ beat'.pc = "track" /\ beat'.pair = beat.pair
        /\ taskset' \in [CcPair -> SUBSET TaskId]
    BY <1>2 DEF Collect, TypeOK, Beat, BeatPc
  <2>2. gen' \in [CcPair -> 0..MaxGen] /\ gen'[beat.pair] \in Generation
    BY <1>2, BeatAt, ConstantsAssumption DEF Collect, TypeOK, GenAtWork, Generation
  <2> QED
    BY <1>2, <2>1, <2>2 DEF Collect, TypeOK, GenAtWork, storeVars, cleanupVars
<1>3. CASE Send
  <2>1. beat' \in Beat /\ beat'.pc = "track" /\ beat'.pair = beat.pair
    BY <1>3, BeatGotoType DEF Send, BeatPc
  <2>2. NewId(beat.pair, beat.doc) \in TaskId
    BY <1>3, BeatAt DEF Send, NewId, TaskId, GenAtWork
  <2>3. task' \in [TaskId -> Task]
    BY <1>3, <2>2, GotoType DEF Send, TaskPc
  <2> QED
    BY <1>3, <2>1, <2>3 DEF Send, TypeOK, GenAtWork, storeVars, cleanupVars
<1>4. CASE Arm
  BY <1>4, ConstantsAssumption DEF Arm, TypeOK, GenAtWork, storeVars, cleanupVars, Beat, BeatPc, BeatGoto
<1>5. CASE \E d \in Document : Track(d)
  <2> SUFFICES ASSUME NEW d \in Document, Track(d) PROVE TInv'
    BY <1>5
  <2>1. beat' \in Beat /\ beat'.pc = "send" /\ beat'.pair = beat.pair
    BY DEF Track, TypeOK, Beat, BeatPc
  <2>2. NewId(beat.pair, d) \in TaskId
    BY BeatAt DEF Track, NewId, TaskId, GenAtWork
  <2>3. taskset' \in [CcPair -> SUBSET TaskId]
    BY <2>2 DEF Track, TypeOK
  <2> QED
    BY <2>1, <2>3 DEF Track, TypeOK, GenAtWork, storeVars, cleanupVars
<1>6. CASE GenerationFails
  BY <1>6, ConstantsAssumption DEF GenerationFails, TypeOK, GenAtWork, storeVars, cleanupVars, Beat, BeatPc, BeatGoto, Fault
<1>7. CASE BeatDies
  BY <1>7, ConstantsAssumption DEF BeatDies, TypeOK, GenAtWork, storeVars, cleanupVars, Beat, BeatPc, BeatGoto, Fault
<1>8. CASE RemovePair
  BY <1>8, ConstantsAssumption DEF RemovePair, TypeOK, GenAtWork, storeVars, cleanupVars, Beat, BeatPc, BeatGoto, Status
<1>9. CASE ClearFence
  BY <1>9, ConstantsAssumption DEF ClearFence, TypeOK, GenAtWork, storeVars, cleanupVars, Beat, BeatPc, BeatGoto, ResetFence
<1> QED
  BY <1>1, <1>2, <1>3, <1>4, <1>5, <1>6, <1>7, <1>8, <1>9 DEF BeatStep

LEMMA TypesInit == Init => TInv
<1> SUFFICES ASSUME Init PROVE TInv
  OBVIOUS
<1>1. NewTask \in Task /\ IdleSync \in Sync
  BY DEF NewTask, Task, TaskPc, IdleSync, Sync
<1> QED
  BY <1>1, ConstantsAssumption DEF Init, TInv, TypeOK, GenAtWork, Status, DocState

LEMMA TypesStep == TInv /\ [Next]_vars => TInv'
<1> SUFFICES ASSUME TInv, [Next]_vars PROVE TInv'
  OBVIOUS
<1>1. CASE Next
  BY <1>1, PairTypes, BatchTypes, TaskTypes, FenceTypes, SyncTypes, BeatTypes DEF Next
<1>2. CASE UNCHANGED vars
  BY <1>2 DEF vars, storeVars, cleanupVars, TInv, TypeOK, GenAtWork
<1> QED
  BY <1>1, <1>2

\* Every reachable state is well-typed, under every hazard.
THEOREM TypeCorrect == Spec => []TypeOK
<1>1. TInv => TypeOK
  BY DEF TInv
<1> QED
  BY <1>1, TypesInit, TypesStep, PTL DEF Spec

-----------------------------------------------------------------------------
(* No task outlives its pair                                                 *)

\* The hazards that give a document two tasks, or a pair a task and no fence.
Orderly == Hazards \cap {"redelivery", "slow", "partial", "reactivation"} = {}

IsOutstanding(t) == task[t].pc \notin {"unsent", "done"}
NoneOut(c) == \A t \in TaskId : PairOf(t) = c => ~IsOutstanding(t)

\* A task that is on its way is in the task set of a fenced pair that is still being
\* deleted, and its active signal is kept.
TasksTracked ==
    \A t \in TaskId : IsOutstanding(t) =>
        /\ t \in taskset[PairOf(t)]
        /\ PairOf(t) \in active
        /\ fence[PairOf(t)] # "none"
        /\ status[PairOf(t)] = "DELETING"

\* The pair the beat is at: fenced and without a task before the first is sent.
BeatOnPair ==
    /\ beat.pc \in {"depend", "track", "send"} =>
          /\ status[beat.pair] = "DELETING"
          /\ fence[beat.pair] = "setup"
          /\ beat.pair \in active
    /\ beat.pc \in {"depend", "remove", "reset"} => NoneOut(beat.pair)

\* The identifiers to come are unused.
FreshIds ==
    /\ \A c \in CcPair, d \in Document, g \in Generation :
           g > gen[c] => task[<<c, d, g>>].pc = "unsent"
    /\ beat.pc \in {"track", "send"} =>
           \A d \in beat.todo : task[NewId(beat.pair, d)].pc = "unsent"
    /\ beat.pc = "send" =>
           /\ beat.doc \notin beat.todo
           /\ NewId(beat.pair, beat.doc) \in taskset[beat.pair]
           /\ task[NewId(beat.pair, beat.doc)].pc = "unsent"

Accounted == TasksTracked /\ BeatOnPair /\ FreshIds

IInv == TInv /\ Accounted

\* What the accounting is about.
AccountVars == <<status, fence, active, taskset, gen, task, beat>>

LEMMA Quiet == ASSUME Accounted, UNCHANGED AccountVars PROVE Accounted'
BY DEF Accounted, AccountVars, TasksTracked, BeatOnPair, FreshIds, IsOutstanding, NoneOut, NewId

\* The identifiers of a generation that the beat sends.
LEMMA NewIdType ==
    ASSUME TInv, beat.pc \in {"track", "send"}, NEW d \in Document
    PROVE  NewId(beat.pair, d) \in TaskId /\ PairOf(NewId(beat.pair, d)) = beat.pair
BY BeatAt DEF TInv, GenAtWork, NewId, TaskId, PairOf

\* A pair without a fence, or with an empty task set, has no task on its way.
LEMMA NoTaskUntracked ==
    ASSUME TasksTracked, NEW c \in CcPair,
           fence[c] = "none" \/ taskset[c] = {} \/ c \notin active \/ status[c] # "DELETING"
    PROVE  NoneOut(c)
BY DEF TasksTracked, NoneOut

LEMMA NoneOutstanding ==
    ASSUME NEW c \in CcPair, Outstanding(c) = {} PROVE NoneOut(c)
BY DEF Outstanding, NoneOut, IsOutstanding

\* A step of a task that was on its way disturbs no other.
LEMMA TaskMoves ==
    ASSUME TInv, Accounted, NEW t \in TaskId, IsOutstanding(t),
           \A u \in TaskId \ {t} : task'[u] = task[u],
           UNCHANGED <<status, fence, active, taskset, gen, beat>>
    PROVE  Accounted'
<1>1. TasksTracked'
  BY DEF Accounted, TasksTracked, IsOutstanding
<1>2. BeatOnPair'
  <2>1. \A c \in CcPair : NoneOut(c) => NoneOut(c)'
    BY DEF NoneOut, IsOutstanding
  <2> QED
    BY <2>1, BeatAt DEF Accounted, BeatOnPair, TInv
<1>3. FreshIds'
  <2>1. \A u \in TaskId : task[u].pc = "unsent" => task'[u].pc = "unsent"
    BY DEF IsOutstanding
  <2>2. \A c \in CcPair, d \in Document, g \in Generation : <<c, d, g>> \in TaskId
    BY DEF TaskId
  <2>3. beat.pc \in {"track", "send"} => \A d \in Document : NewId(beat.pair, d) \in TaskId
    BY NewIdType
  <2>4. \A c, d : NewId(c, d)' = NewId(c, d)
    BY DEF NewId
  <2> QED
    BY <2>1, <2>2, <2>3, <2>4, BeatAt DEF Accounted, FreshIds, TInv
<1> QED
  BY <1>1, <1>2, <1>3 DEF Accounted

\* The fence of a pair without tasks may go.
LEMMA FenceGoes ==
    ASSUME TInv, Accounted, NEW c \in CcPair, NoneOut(c), ResetFence(c), beat'.pc = "idle",
           UNCHANGED <<status, gen, task>>
    PROVE  Accounted'
<1>1. TasksTracked'
  BY IdParts DEF Accounted, TasksTracked, IsOutstanding, NoneOut, ResetFence, TInv, TypeOK
<1>2. BeatOnPair' /\ FreshIds'
  BY DEF Accounted, BeatOnPair, FreshIds
<1> QED
  BY <1>1, <1>2 DEF Accounted

-----------------------------------------------------------------------------
LEMMA PairAccounted ==
    ASSUME IInv, Orderly, NEW c \in CcPair, PairStep(c)
    PROVE  Accounted'
<1> USE DEF IInv
<1>1. CASE RequestDeletion(c)
  <2>1. UNCHANGED <<fence, active, taskset, gen, task, beat>>
    BY <1>1 DEF RequestDeletion, cleanupVars
  <2>2. \A o \in CcPair : status[o] = "DELETING" => status'[o] = "DELETING"
    BY <1>1 DEF RequestDeletion, TInv, TypeOK
  <2>3. TasksTracked'
    BY <2>1, <2>2, IdParts DEF Accounted, TasksTracked, IsOutstanding
  <2>4. BeatOnPair'
    BY <2>1, <2>2, BeatAt DEF Accounted, BeatOnPair, NoneOut, IsOutstanding, TInv
  <2>5. FreshIds'
    BY <2>1 DEF Accounted, FreshIds, NewId
  <2> QED
    BY <2>3, <2>4, <2>5 DEF Accounted
<1>2. CASE Reactivate(c)
  BY <1>2 DEF Reactivate, May, Orderly
<1>3. CASE StartAttempt(c) \/ EndAttempt(c) \/ PruneStart(c) \/ PruneEnd(c)
  BY <1>3, Quiet DEF StartAttempt, EndAttempt, PruneStart, PruneEnd, AccountVars, cleanupVars
<1> QED
  BY <1>1, <1>2, <1>3 DEF PairStep

LEMMA BatchAccounted ==
    ASSUME Accounted, NEW c \in CcPair, BatchStep(c)
    PROVE  Accounted'
<1>1. UNCHANGED AccountVars
  BY DEF BatchStep, StartBatch, Relate, Lock, Write, Commit, BatchFails, AccountVars, cleanupVars
<1> QED
  BY <1>1, Quiet

LEMMA SyncAccounted ==
    ASSUME Accounted, NEW d \in Document, SyncStep(d)
    PROVE  Accounted'
<1>1. UNCHANGED AccountVars
  BY DEF SyncStep, SyncAtOnce, SyncRead, SyncWrite, SyncMark, AccountVars, cleanupVars
<1> QED
  BY <1>1, Quiet

LEMMA TaskAccounted ==
    ASSUME IInv, Orderly, NEW t \in TaskId, TaskStep(t)
    PROVE  Accounted'
<1> USE DEF IInv
<1>1. IsOutstanding(t) /\ \A u \in TaskId \ {t} : task'[u] = task[u]
  <2>1. CASE Pickup(t) \/ IndexDelete(t) \/ IndexUpdate(t) \/ Forget(t) \/ Detach(t)
    BY <2>1 DEF Pickup, IndexDelete, IndexUpdate, Forget, Detach, Goto, IsOutstanding,
                TInv, TypeOK
  <2>2. CASE Retry(t) \/ LastRetry(t) \/ GiveUp(t) \/ Postrun(t)
    BY <2>2 DEF Retry, LastRetry, GiveUp, Postrun, Raises, Running, Requeue, Goto,
                IsOutstanding, TInv, TypeOK
  <2>3. CASE Redeliver(t)
    BY <2>3 DEF Redeliver, Running, May, Orderly, IsOutstanding, TInv, TypeOK
  <2> QED
    BY <2>1, <2>2, <2>3 DEF TaskStep
<1>2. CASE Postrun(t)
  <2>1. UNCHANGED <<status, fence, active, gen, beat>>
    BY <1>2 DEF Postrun
  <2>2. ~IsOutstanding(t)'
    BY <1>2 DEF Postrun, Goto, IsOutstanding, TInv, TypeOK
  <2>3. \A c \in CcPair : taskset'[c] \subseteq taskset[c] /\ taskset[c] \ {t} \subseteq taskset'[c]
    BY <1>2 DEF Postrun, TInv, TypeOK
  <2>4. TasksTracked'
    BY <1>1, <2>1, <2>2, <2>3, IdParts DEF Accounted, TasksTracked, IsOutstanding
  <2>5. BeatOnPair'
    BY <1>1, <2>1, <2>2, BeatAt DEF Accounted, BeatOnPair, NoneOut, IsOutstanding, TInv
  <2>6. FreshIds'
    <3>1. \A u \in TaskId : task[u].pc = "unsent" => u # t /\ task'[u].pc = "unsent"
      BY <1>1 DEF IsOutstanding
    <3>2. \A c \in CcPair, d \in Document, g \in Generation : <<c, d, g>> \in TaskId
      BY DEF TaskId
    <3>3. beat.pc \in {"track", "send"} => \A d \in Document : NewId(beat.pair, d) \in TaskId
      BY NewIdType
    <3>4. \A c, d : NewId(c, d)' = NewId(c, d)
      BY <2>1 DEF NewId
    <3> QED
      BY <3>1, <3>2, <3>3, <3>4, <2>1, <2>3, BeatAt DEF Accounted, FreshIds, TInv
  <2> QED
    BY <2>4, <2>5, <2>6 DEF Accounted
<1>3. CASE ~Postrun(t)
  <2>1. UNCHANGED <<status, fence, active, taskset, gen, beat>>
    BY <1>3 DEF TaskStep, Pickup, IndexDelete, IndexUpdate, Forget, Detach, Retry, LastRetry,
                GiveUp, Redeliver, cleanupVars
  <2> QED
    BY <1>1, <2>1, TaskMoves
<1> QED
  BY <1>2, <1>3

LEMMA FenceAccounted ==
    ASSUME IInv, Orderly, NEW c \in CcPair, FenceStep(c)
    PROVE  Accounted'
<1> USE DEF IInv
<1>1. CASE SetFence(c)
  <2>1. NoneOut(c)
    BY <1>1, NoTaskUntracked DEF SetFence, Accounted
  <2>2. /\ beat' = [beat EXCEPT !.pc = "depend", !.pair = c]
        /\ fence' = [fence EXCEPT ![c] = "setup"] /\ active' = active \cup {c}
        /\ status[c] = "DELETING"
        /\ UNCHANGED <<status, taskset, gen, task>>
    BY <1>1 DEF SetFence
  <2>3. beat'.pc = "depend" /\ beat'.pair = c
    BY <2>2 DEF TInv, TypeOK, Beat
  <2>4. TasksTracked'
    BY <2>2, IdParts DEF Accounted, TasksTracked, IsOutstanding, TInv, TypeOK
  <2>5. BeatOnPair'
    BY <2>1, <2>2, <2>3 DEF BeatOnPair, NoneOut, IsOutstanding, TInv, TypeOK
  <2>6. FreshIds'
    BY <2>2, <2>3 DEF Accounted, FreshIds
  <2> QED
    BY <2>4, <2>5, <2>6 DEF Accounted
<1>2. CASE StopTimesOut(c) \/ DropStop(c)
  BY <1>2, Quiet DEF StopTimesOut, DropStop, AccountVars
<1>3. CASE StartOver(c)
  <2>1. NoneOut(c)
    BY <1>3, NoTaskUntracked DEF StartOver, TasksDone, Accounted
  <2> QED
    BY <1>3, <2>1, FenceGoes DEF StartOver
<1>4. CASE NothingLeft(c)
  <2>1. NoneOut(c)
    BY <1>4, NoTaskUntracked DEF NothingLeft, TasksDone, Accounted
  <2>2. /\ beat' = [beat EXCEPT !.pc = "remove", !.pair = c]
        /\ UNCHANGED <<status, fence, active, taskset, gen, task>>
    BY <1>4 DEF NothingLeft
  <2>3. beat'.pc = "remove" /\ beat'.pair = c
    BY <2>2 DEF TInv, TypeOK, Beat
  <2>4. TasksTracked' /\ FreshIds'
    BY <2>2, <2>3 DEF Accounted, TasksTracked, FreshIds, IsOutstanding
  <2>5. BeatOnPair'
    BY <2>1, <2>2, <2>3 DEF BeatOnPair, NoneOut, IsOutstanding
  <2> QED
    BY <2>4, <2>5 DEF Accounted
<1>5. CASE Renew(c)
  <2>1. /\ active \subseteq active' /\ beat' = beat
        /\ UNCHANGED <<status, fence, taskset, gen, task>>
    BY <1>5 DEF Renew
  <2> QED
    BY <2>1 DEF Accounted, TasksTracked, BeatOnPair, FreshIds, IsOutstanding, NoneOut, NewId
<1>6. CASE Abandon(c)
  <2>1. NoneOut(c)
    BY <1>6, NoTaskUntracked DEF Abandon, Accounted
  <2> QED
    BY <1>6, <2>1, FenceGoes DEF Abandon
<1>7. CASE ActiveExpires(c)
  <2>1. /\ Outstanding(c) = {} /\ (beat.pc = "idle" \/ beat.pair # c)
        /\ active' = active \ {c}
        /\ UNCHANGED <<status, fence, taskset, gen, task, beat>>
    BY <1>7 DEF ActiveExpires, May, Orderly
  <2>2. NoneOut(c)
    BY <2>1, NoneOutstanding
  <2>3. TasksTracked'
    BY <2>1, <2>2 DEF Accounted, TasksTracked, NoneOut, IsOutstanding
  <2>4. BeatOnPair' /\ FreshIds'
    BY <2>1 DEF Accounted, BeatOnPair, FreshIds, NoneOut, IsOutstanding, NewId
  <2> QED
    BY <2>3, <2>4 DEF Accounted
<1> QED
  BY <1>1, <1>2, <1>3, <1>4, <1>5, <1>6, <1>7 DEF FenceStep

LEMMA BeatAccounted ==
    ASSUME IInv, Orderly, BeatStep
    PROVE  Accounted'
<1> USE DEF IInv
<1> DEFINE c == beat.pair
<1>c. c \in CcPair /\ beat.doc \in Document /\ beat.todo \in SUBSET Document
  BY BeatAt DEF TInv
<1>g. ASSUME NEW pc \in BeatPc, BeatGoto(pc)
      PROVE  /\ beat'.pc = pc /\ beat'.pair = beat.pair
             /\ beat'.doc = beat.doc /\ beat'.todo = beat.todo
  BY <1>g DEF BeatGoto, TInv, TypeOK, Beat
<1>p. {"idle", "track", "reset"} \subseteq BeatPc
  BY DEF BeatPc
<1>1. CASE Blocked \/ GenerationFails
  <2>1. NoneOut(c)
    <3>1. CASE Blocked
      BY <3>1 DEF Blocked, Accounted, BeatOnPair
    <3>2. CASE GenerationFails
      BY <3>2, <1>c, NoneOutstanding DEF GenerationFails, May, Orderly
    <3> QED
      BY <1>1, <3>1, <3>2
  <2>2. /\ fence' = [fence EXCEPT ![c] = "none"] /\ beat'.pc = "idle"
        /\ UNCHANGED <<status, active, taskset, gen, task>>
    BY <1>1, <1>g, <1>p DEF Blocked, GenerationFails
  <2>3. TasksTracked'
    BY <2>1, <2>2, IdParts DEF Accounted, TasksTracked, NoneOut, IsOutstanding, TInv, TypeOK
  <2> QED
    BY <2>2, <2>3 DEF Accounted, BeatOnPair, FreshIds
<1>2. CASE Collect
  <2>1. /\ beat.pc = "depend"
        /\ taskset' = [taskset EXCEPT ![c] = {}] /\ gen' = [gen EXCEPT ![c] = @ + 1]
        /\ beat' = [beat EXCEPT !.pc = "track", !.todo = {d \in Document : c \in holders[d]}]
        /\ UNCHANGED <<status, fence, active, task>>
    BY <1>2 DEF Collect
  <2>2. NoneOut(c)
    BY <2>1 DEF Accounted, BeatOnPair
  <2>3. /\ beat'.pc = "track" /\ beat'.pair = c /\ beat'.todo \subseteq Document
    BY <2>1 DEF TInv, TypeOK, Beat
  <2>4. gen'[c] \in Generation /\ gen'[c] > gen[c] /\ \A o \in CcPair \ {c} : gen'[o] = gen[o]
    BY <2>1, <1>c, ConstantsAssumption DEF TInv, TypeOK, GenAtWork, Generation
  <2>5. TasksTracked'
    BY <2>1, <2>2, IdParts DEF Accounted, TasksTracked, NoneOut, IsOutstanding, TInv, TypeOK
  <2>6. BeatOnPair'
    BY <2>1, <2>3 DEF Accounted, BeatOnPair
  <2>7. FreshIds'
    <3>1. \A o \in CcPair, d \in Document, g \in Generation :
             g > gen'[o] => task[<<o, d, g>>].pc = "unsent"
      BY <2>1, <2>4, <1>c DEF Accounted, FreshIds, Generation, TInv, TypeOK
    <3>2. \A d \in Document : task[<<c, d, gen'[c]>>].pc = "unsent"
      BY <2>4, <1>c DEF Accounted, FreshIds
    <3> QED
      BY <3>1, <3>2, <2>1, <2>3 DEF FreshIds, NewId
  <2> QED
    BY <2>5, <2>6, <2>7 DEF Accounted
<1>3. ASSUME NEW d \in Document, Track(d) PROVE Accounted'
  <2>1. /\ beat.pc = "track" /\ d \in beat.todo
        /\ taskset' = [taskset EXCEPT ![c] = @ \cup {NewId(c, d)}]
        /\ beat' = [beat EXCEPT !.pc = "send", !.doc = d, !.todo = @ \ {d}]
        /\ UNCHANGED <<status, fence, active, gen, task>>
    BY <1>3 DEF Track
  <2>2. /\ beat'.pc = "send" /\ beat'.pair = c /\ beat'.doc = d
        /\ beat'.todo = beat.todo \ {d}
    BY <2>1 DEF TInv, TypeOK, Beat
  <2>3. TasksTracked' /\ BeatOnPair'
    BY <2>1, <2>2, <1>c, IdParts DEF Accounted, TasksTracked, BeatOnPair, IsOutstanding,
                                     TInv, TypeOK
  <2>4. \A e \in Document : NewId(c, e)' = NewId(c, e)
    BY <2>1 DEF NewId
  <2>5. FreshIds'
    <3>1. NewId(c, d) \in taskset'[c]
      BY <2>1, <1>c DEF TInv, TypeOK
    <3> QED
      BY <3>1, <2>1, <2>2, <2>4, <1>c DEF Accounted, FreshIds, NewId
  <2> QED
    BY <2>3, <2>5 DEF Accounted
<1>4. CASE Send
  <2> DEFINE t == NewId(c, beat.doc)
  <2>1. /\ beat.pc = "send" /\ beat'.pc = "track" /\ beat'.pair = c /\ beat'.todo = beat.todo
        /\ UNCHANGED <<status, fence, active, taskset, gen>>
    BY <1>4, <1>g, <1>p DEF Send
  <2>2. t \in TaskId /\ PairOf(t) = c
    BY <2>1, <1>c, NewIdType
  <2>3. \A u \in TaskId \ {t} : task'[u] = task[u]
    BY <1>4 DEF Send, Goto, TInv, TypeOK
  <2>4. TasksTracked'
    <3>1. /\ t \in taskset[c] /\ c \in active /\ fence[c] # "none" /\ status[c] = "DELETING"
      BY <2>1 DEF Accounted, BeatOnPair, FreshIds
    <3> QED
      BY <3>1, <2>1, <2>2, <2>3 DEF Accounted, TasksTracked, IsOutstanding
  <2>5. BeatOnPair'
    BY <2>1 DEF Accounted, BeatOnPair
  <2>6. FreshIds'
    <3>1. \A o \in CcPair, d \in Document, g \in Generation :
             /\ <<o, d, g>> \in TaskId
             /\ g > gen[o] => <<o, d, g>> # t
      BY <2>1, <1>c DEF TaskId, NewId, TInv, GenAtWork, Generation
    <3>2. \A d \in beat.todo : NewId(c, d) # t /\ NewId(c, d) \in TaskId
      BY <2>1, <1>c, NewIdType DEF Accounted, FreshIds, NewId
    <3>3. \A d \in Document : NewId(c, d)' = NewId(c, d)
      BY <2>1 DEF NewId
    <3> QED
      BY <3>1, <3>2, <3>3, <2>1, <2>3, <1>c DEF Accounted, FreshIds
  <2> QED
    BY <2>4, <2>5, <2>6 DEF Accounted
<1>5. CASE Arm
  <2>1. /\ fence' = [fence EXCEPT ![c] = "ready"] /\ beat'.pc = "idle"
        /\ UNCHANGED <<status, active, taskset, gen, task>>
    BY <1>5, <1>g, <1>p DEF Arm
  <2>2. TasksTracked'
    BY <2>1, IdParts DEF Accounted, TasksTracked, IsOutstanding, TInv, TypeOK
  <2> QED
    BY <2>1, <2>2 DEF Accounted, BeatOnPair, FreshIds
<1>6. CASE BeatDies
  <2>1. beat'.pc = "idle" /\ UNCHANGED <<status, fence, active, taskset, gen, task>>
    BY <1>6, <1>g, <1>p DEF BeatDies
  <2> QED
    BY <2>1 DEF Accounted, TasksTracked, BeatOnPair, FreshIds, IsOutstanding
<1>7. CASE RemovePair
  <2>1. /\ beat.pc = "remove" /\ beat'.pc = "reset" /\ beat'.pair = c
        /\ status' = [status EXCEPT ![c] = "DELETED"]
        /\ UNCHANGED <<fence, active, taskset, gen, task>>
    BY <1>7, <1>g, <1>p DEF RemovePair
  <2>2. NoneOut(c)
    BY <2>1 DEF Accounted, BeatOnPair
  <2>3. TasksTracked'
    BY <2>1, <2>2, IdParts DEF Accounted, TasksTracked, NoneOut, IsOutstanding, TInv, TypeOK
  <2>4. BeatOnPair' /\ FreshIds'
    BY <2>1, <2>2 DEF Accounted, BeatOnPair, FreshIds, NoneOut, IsOutstanding
  <2> QED
    BY <2>3, <2>4 DEF Accounted
<1>8. CASE ClearFence
  <2>1. NoneOut(c)
    BY <1>8 DEF ClearFence, Accounted, BeatOnPair
  <2>2. ResetFence(c) /\ beat'.pc = "idle" /\ UNCHANGED <<status, gen, task>>
    BY <1>8, <1>g, <1>p DEF ClearFence
  <2> QED
    BY <2>1, <2>2, <1>c, FenceGoes
<1> QED
  BY <1>1, <1>2, <1>3, <1>4, <1>5, <1>6, <1>7, <1>8 DEF BeatStep

-----------------------------------------------------------------------------
LEMMA AccountedInit == Init => Accounted
<1> SUFFICES ASSUME Init PROVE Accounted
  OBVIOUS
<1>1. \A t \in TaskId : task[t].pc = "unsent"
  BY DEF Init, NewTask
<1>2. beat.pc = "idle"
  BY DEF Init
<1> QED
  BY <1>1, <1>2 DEF Accounted, TasksTracked, BeatOnPair, FreshIds, IsOutstanding, TaskId

\* The accounting of tasks holds in every reachable state.
THEOREM Accounting == Orderly => (Spec => []IInv)
<1> SUFFICES ASSUME Orderly PROVE Spec => []IInv
  OBVIOUS
<1>1. Init => IInv
  BY TypesInit, AccountedInit DEF IInv
<1>2. IInv /\ [Next]_vars => IInv'
  <2> SUFFICES ASSUME IInv, [Next]_vars PROVE IInv'
    OBVIOUS
  <2>1. TInv'
    BY TypesStep DEF IInv
  <2>2. CASE Next
    BY <2>1, <2>2, PairAccounted, BatchAccounted, TaskAccounted, FenceAccounted,
       SyncAccounted, BeatAccounted DEF Next, IInv
  <2>3. CASE UNCHANGED vars
    BY <2>1, <2>3, Quiet DEF IInv, vars, cleanupVars, AccountVars
  <2> QED
    BY <2>2, <2>3
<1> QED
  BY <1>1, <1>2, PTL DEF Spec

\* A pair is removed only after every cleanup task sent for it, however many
\* documents, pairs, faults and retries there are, and also while other pairs that
\* share its documents are indexed or deleted.
THEOREM TasksEndFirst == Orderly => (Spec => []NoTaskOutlivesPair)
<1> SUFFICES ASSUME Orderly PROVE Spec => []NoTaskOutlivesPair
  OBVIOUS
<1>1. IInv => NoTaskOutlivesPair
  BY DEF IInv, Accounted, TasksTracked, NoTaskOutlivesPair, Outstanding, IsOutstanding
<1> QED
  BY <1>1, Accounting, PTL

-----------------------------------------------------------------------------
(* What a deletion leaves to the other pairs                                 *)

\* The faults of the environment that are allowed: none of HazardKinds but that a
\* pair may fetch what is indexed without access of its own.
Undisturbed == Hazards \subseteq {"unchanged"}

\* A cleanup task that may still touch its document or the index.
AtWork(t) == task[t].pc \in {"queued", "delete", "forget", "update", "detach"}

\* A batch is that of a running attempt, of a document its pair fetches and that no
\* pair being deleted could hold, too.
BatchesApart ==
    \A c \in CcPair : batch[c].pc # "idle" =>
        /\ c \in indexing
        /\ batch[c].doc \in Yields[c]
        /\ \A o \in CcPair \ {c} : batch[c].doc \in Yields[o] => status[o] # "DELETING"

\* Pairs that are deleted together share no document.
DeletingApart ==
    \A c, o \in CcPair : \A d \in Document :
        status[c] = "DELETING" /\ status[o] = "DELETING" /\ d \in Yields[c] /\ d \in Yields[o]
            => c = o

FencedDeleting == \A c \in CcPair : fence[c] # "none" => status[c] # "LIVE"

\* A pair that is being indexed has not come to its cleanup tasks.
IndexingFirst ==
    \A c \in indexing :
        /\ status[c] # "DELETED"
        /\ fence[c] # "ready"
        /\ ~(beat.pc \in {"track", "send", "remove"} /\ beat.pair = c)
        /\ NoneOut(c)

DeliveredLive == \A p \in delivered : status[p[2]] = "LIVE"

\* Holders fetch what they hold.
HoldersYield ==
    \A d \in Document : \A c \in holders[d] : d \in Yields[c] /\ status[c] # "DELETED"

\* The pair that is removed holds nothing.
RemovedHoldsNothing ==
    beat.pc = "remove" =>
        /\ fence[beat.pair] = "ready"
        /\ \A d \in Document : beat.pair \notin holders[d]

SyncsAtOnce == \A d \in Document : sync[d].pc = "idle"

\* What the tasks are to be generated for is held by the pair.
TodoHeld ==
    /\ beat.pc \in {"track", "send"} => \A d \in beat.todo : beat.pair \in holders[d]
    /\ beat.pc = "send" => beat.pair \in holders[beat.doc]

OneGeneration == \A t \in TaskId : IsOutstanding(t) => t[3] = gen[PairOf(t)]

Apart ==
    /\ BatchesApart /\ DeletingApart /\ FencedDeleting /\ IndexingFirst
    /\ DeliveredLive /\ HoldersYield /\ RemovedHoldsNothing /\ SyncsAtOnce
    /\ TodoHeld /\ OneGeneration

\* What a cleanup task has decided still fits: its pair holds the document, alone
\* if the document goes, and the access it writes is that of the pairs that stay.
TaskRight(t) ==
    LET x == PairOf(t)
        d == DocOf(t)
    IN
    /\ AtWork(t) => x \in holders[d]
    /\ task[t].pc \in {"delete", "forget"} => holders[d] = {x}
    /\ task[t].pc = "forget" => d \notin indexed
    /\ task[t].pc \in {"update", "detach"} => holders[d] # {x}
    /\ task[t].pc = "update" =>
          AccessFor(d) \subseteq task[t].access /\ task[t].access \subseteq holders[d] \ {x}
    /\ task[t].pc = "detach" /\ d \in indexed =>
          AccessFor(d) \subseteq access[d] /\ access[d] \subseteq holders[d] \ {x}

\* What a batch has read under the row lock still fits.
BatchRight(c) ==
    LET d == batch[c].doc IN
    /\ batch[c].pc \in {"lock", "write", "commit"} => c \in holders[d]
    /\ batch[c].pc \in {"write", "commit"} =>
          AccessFor(d) \subseteq batch[c].access /\ batch[c].access \subseteq holders[d]
    /\ batch[c].pc = "commit" => d \in indexed

DocRight(d) ==
    /\ access[d] \subseteq holders[d]
    /\ d \in indexed => holders[d] # {}
    /\ d \notin indexed => access[d] = {}

Fitting ==
    /\ \A t \in TaskId : TaskRight(t)
    /\ \A c \in CcPair : BatchRight(c)
    /\ \A d \in Document : DocRight(d)

DInv == IInv /\ Apart /\ Fitting

-----------------------------------------------------------------------------
(* Lemmas about states                                                       *)

LEMMA UndisturbedOrderly == Undisturbed => Orderly
BY DEF Undisturbed, Orderly

\* A task at work is one of a pair that is being deleted and may hold its document.
LEMMA WorkerDeleting ==
    ASSUME DInv, NEW t \in TaskId, AtWork(t)
    PROVE  /\ IsOutstanding(t) /\ status[PairOf(t)] = "DELETING"
           /\ PairOf(t) \in holders[DocOf(t)] /\ DocOf(t) \in Yields[PairOf(t)]
<1>1. IsOutstanding(t)
  BY DEF AtWork, IsOutstanding
<1> QED
  BY <1>1, IdParts DEF DInv, IInv, Accounted, TasksTracked, Fitting, TaskRight, Apart, HoldersYield

\* No two tasks are at work on the same document.
LEMMA OneTask ==
    ASSUME DInv, NEW t \in TaskId, NEW u \in TaskId, AtWork(t), AtWork(u), DocOf(t) = DocOf(u)
    PROVE  t = u
<1>1. PairOf(t) = PairOf(u)
  BY WorkerDeleting, IdParts DEF DInv, Apart, DeletingApart
<1>2. t[3] = u[3]
  BY <1>1, WorkerDeleting DEF DInv, Apart, OneGeneration
<1> QED
  BY <1>1, <1>2 DEF TaskId, PairOf, DocOf

\* No batch works on the document of a task at work.
LEMMA NoBatch ==
    ASSUME DInv, NEW t \in TaskId, AtWork(t), NEW c \in CcPair, batch[c].doc = DocOf(t)
    PROVE  batch[c].pc = "idle"
<1> SUFFICES ASSUME batch[c].pc # "idle" PROVE FALSE
  OBVIOUS
<1>1. /\ IsOutstanding(t) /\ status[PairOf(t)] = "DELETING" /\ DocOf(t) \in Yields[PairOf(t)]
      /\ PairOf(t) \in CcPair
  BY WorkerDeleting, IdParts
<1>2. CASE c = PairOf(t)
  BY <1>1, <1>2 DEF DInv, Apart, BatchesApart, IndexingFirst, NoneOut
<1>3. CASE c # PairOf(t)
  BY <1>1, <1>3 DEF DInv, Apart, BatchesApart
<1> QED
  BY <1>2, <1>3

\* The beat has yet to generate the tasks of no document with a task at work.
LEMMA NoTodo ==
    ASSUME DInv, NEW t \in TaskId, AtWork(t), beat.pc \in {"track", "send"}
    PROVE  DocOf(t) \notin beat.todo /\ (beat.pc = "send" => beat.doc # DocOf(t))
<1> DEFINE p == beat.pair
           d == DocOf(t)
<1>1. /\ status[p] = "DELETING" /\ p \in CcPair /\ d \in Document /\ PairOf(t) \in CcPair
  BY BeatAt, IdParts DEF DInv, IInv, TInv, Accounted, BeatOnPair
<1>2. ASSUME p \in holders[d] PROVE t = NewId(p, d)
  <2>1. PairOf(t) = p
    BY <1>1, <1>2, WorkerDeleting DEF DInv, Apart, DeletingApart, HoldersYield
  <2>2. t[3] = gen[p]
    BY <2>1, WorkerDeleting DEF DInv, Apart, OneGeneration
  <2> QED
    BY <2>1, <2>2 DEF NewId, TaskId, PairOf, DocOf
<1>3. task[t].pc # "unsent"
  BY DEF AtWork
<1> QED
  BY <1>1, <1>2, <1>3 DEF DInv, IInv, Accounted, FreshIds, Apart, TodoHeld

-----------------------------------------------------------------------------
(* Pairs, attempts and tasks keep apart                                      *)

ApartVars == <<status, indexing, batch, fence, beat, gen, task, delivered, holders, sync>>

LEMMA ApartQuiet == ASSUME Apart, UNCHANGED ApartVars PROVE Apart'
BY DEF Apart, ApartVars, BatchesApart, DeletingApart, FencedDeleting, IndexingFirst, DeliveredLive,
       HoldersYield, RemovedHoldsNothing, SyncsAtOnce, TodoHeld, OneGeneration, NoneOut, IsOutstanding

LEMMA ApartInit == Init => Apart
<1> SUFFICES ASSUME Init PROVE Apart
  OBVIOUS
<1>1. /\ \A c \in CcPair : batch[c].pc = "idle" /\ status[c] = "LIVE" /\ fence[c] = "none"
      /\ \A d \in Document : holders[d] = {} /\ sync[d].pc = "idle"
      /\ \A t \in TaskId : ~IsOutstanding(t)
      /\ indexing = {} /\ delivered = {} /\ beat.pc = "idle"
  BY DEF Init, NewTask, IsOutstanding, IdleSync
<1>2. BatchesApart /\ DeletingApart /\ FencedDeleting /\ IndexingFirst /\ DeliveredLive
  BY <1>1 DEF BatchesApart, DeletingApart, FencedDeleting, IndexingFirst, DeliveredLive
<1>3. HoldersYield /\ RemovedHoldsNothing /\ SyncsAtOnce /\ TodoHeld /\ OneGeneration
  BY <1>1 DEF HoldersYield, RemovedHoldsNothing, SyncsAtOnce, TodoHeld, OneGeneration
<1> QED
  BY <1>2, <1>3 DEF Apart

LEMMA PairApart ==
    ASSUME DInv, Undisturbed, NEW c \in CcPair, PairStep(c)
    PROVE  Apart'
<1> USE DEF DInv, Apart
<1>t. TypeOK
  BY DEF IInv, TInv
<1>1. CASE RequestDeletion(c)
  <2>1. /\ UNCHANGED <<indexing, batch, fence, beat, gen, task, holders, sync>>
        /\ status[c] = "LIVE" /\ status'[c] = "DELETING"
        /\ \A o \in CcPair \ {c} : status'[o] = status[o]
        /\ delivered' = {p \in delivered : p[2] # c}
    BY <1>1, <1>t DEF RequestDeletion, cleanupVars, storeVars, TypeOK
  <2>2. /\ \A o \in Sharing(c) : status[o] # "DELETING"
        /\ \A o \in Sharing(c) : batch[o].pc = "idle" \/ batch[o].doc \notin Yields[c]
    BY <1>1 DEF RequestDeletion, Undisturbed, May
  <2>3. BatchesApart'
    BY <2>1, <2>2 DEF BatchesApart, Sharing
  <2>4. DeletingApart'
    BY <2>1, <2>2 DEF DeletingApart, Sharing
  <2>5. FencedDeleting' /\ HoldersYield' /\ IndexingFirst'
    BY <2>1, <1>t DEF FencedDeleting, HoldersYield, IndexingFirst, NoneOut, IsOutstanding, TypeOK
  <2>6. DeliveredLive'
    BY <2>1, <1>t DEF DeliveredLive, TypeOK
  <2>7. RemovedHoldsNothing' /\ SyncsAtOnce' /\ TodoHeld' /\ OneGeneration'
    BY <2>1 DEF RemovedHoldsNothing, SyncsAtOnce, TodoHeld, OneGeneration, IsOutstanding
  <2> QED
    BY <2>3, <2>4, <2>5, <2>6, <2>7
<1>2. CASE Reactivate(c)
  BY <1>2 DEF Reactivate, Undisturbed, May
<1>3. CASE StartAttempt(c)
  <2>1. /\ UNCHANGED <<status, batch, fence, beat, gen, task, delivered, holders, sync>>
        /\ status[c] = "LIVE" /\ fence[c] = "none" /\ indexing' = indexing \cup {c}
    BY <1>3 DEF StartAttempt, cleanupVars, storeVars, Undisturbed, May
  <2>2. NoneOut(c)
    BY <2>1, NoTaskUntracked DEF IInv, Accounted
  <2>3. IndexingFirst'
    BY <2>1, <2>2 DEF IndexingFirst, NoneOut, IsOutstanding, IInv, Accounted, BeatOnPair,
                      RemovedHoldsNothing
  <2>4. BatchesApart' /\ DeletingApart' /\ FencedDeleting' /\ DeliveredLive' /\ HoldersYield'
    BY <2>1 DEF BatchesApart, DeletingApart, FencedDeleting, DeliveredLive, HoldersYield
  <2>5. RemovedHoldsNothing' /\ SyncsAtOnce' /\ TodoHeld' /\ OneGeneration'
    BY <2>1 DEF RemovedHoldsNothing, SyncsAtOnce, TodoHeld, OneGeneration, IsOutstanding
  <2> QED
    BY <2>3, <2>4, <2>5
<1>4. CASE EndAttempt(c)
  <2>1. /\ UNCHANGED <<status, batch, fence, beat, gen, task, delivered, holders, sync>>
        /\ batch[c].pc = "idle" /\ indexing' = indexing \ {c}
    BY <1>4 DEF EndAttempt, cleanupVars, storeVars, Undisturbed, May
  <2>2. BatchesApart' /\ IndexingFirst'
    BY <2>1 DEF BatchesApart, IndexingFirst, NoneOut, IsOutstanding
  <2>3. DeletingApart' /\ FencedDeleting' /\ DeliveredLive' /\ HoldersYield'
    BY <2>1 DEF DeletingApart, FencedDeleting, DeliveredLive, HoldersYield
  <2>4. RemovedHoldsNothing' /\ SyncsAtOnce' /\ TodoHeld' /\ OneGeneration'
    BY <2>1 DEF RemovedHoldsNothing, SyncsAtOnce, TodoHeld, OneGeneration, IsOutstanding
  <2> QED
    BY <2>2, <2>3, <2>4
<1>5. CASE PruneStart(c) \/ PruneEnd(c)
  BY <1>5, ApartQuiet DEF PruneStart, PruneEnd, ApartVars, cleanupVars, storeVars
<1> QED
  BY <1>1, <1>2, <1>3, <1>4, <1>5 DEF PairStep

LEMMA SyncApart ==
    ASSUME DInv, Undisturbed, NEW d \in Document, SyncStep(d)
    PROVE  SyncAtOnce(d) /\ Apart'
<1>1. SyncAtOnce(d)
  BY DEF SyncStep, SyncRead, SyncWrite, SyncMark, Undisturbed, May, DInv, Apart, SyncsAtOnce
<1> QED
  BY <1>1, ApartQuiet DEF SyncAtOnce, DInv, ApartVars, cleanupVars, storeVars

\* What a step of the batch of c does to the rows that others rely on.
LEMMA BatchEffect ==
    ASSUME TypeOK, NEW c \in CcPair, BatchStep(c)
    PROVE  /\ UNCHANGED <<status, indexing, fence, beat, gen, task, sync>>
           /\ \A o \in CcPair \ {c} : batch'[o] = batch[o]
           /\ \A d \in Document : holders'[d] \in {holders[d], holders[d] \cup {c}}
           /\ \A d \in Document : holders'[d] # holders[d] =>
                 status[c] # "DELETED" /\ ~Locked(d) /\ batch[c].doc = d /\ batch[c].pc # "idle"
           /\ \A p \in delivered' : p \in delivered \/ (p[2] = c /\ status[c] = "LIVE")
           /\ \/ \E d \in Document : StartBatch(c, d) /\ batch'[c].doc = d
              \/ batch[c].pc # "idle" /\ batch'[c].doc = batch[c].doc
<1>t. TypeOK /\ batch[c] \in Batch
  BY DEF TypeOK
<1>a. \A b \in Batch : b.pc # "idle" => [b EXCEPT !.pc = "idle"].doc = b.doc
  BY DEF Batch
<1>1. CASE \E d \in Document : StartBatch(c, d)
  BY <1>1, <1>t DEF StartBatch, Upsert, Skip, cleanupVars, TypeOK
<1>c. batch[c].doc \in Document
  BY <1>t DEF Batch
<1>2. CASE Relate(c)
  <2>1. /\ holders' = [holders EXCEPT ![batch[c].doc] = @ \cup {c}]
        /\ batch[c].pc # "idle" /\ status[c] # "DELETED" /\ ~Locked(batch[c].doc)
        /\ UNCHANGED <<status, indexing, fence, beat, gen, task, sync>>
    BY <1>2 DEF Relate, cleanupVars
  <2>2. /\ \A o \in CcPair \ {c} : batch'[o] = batch[o]
        /\ batch'[c].doc = batch[c].doc
    BY <1>2, <1>t DEF Relate, BatchGoto, TypeOK, Batch
  <2>3. \A p \in delivered' : p \in delivered \/ (p[2] = c /\ status[c] = "LIVE")
    BY <1>2 DEF Relate, Deliver
  <2> QED
    BY <2>1, <2>2, <2>3, <1>t, <1>c DEF TypeOK
<1>3. CASE Lock(c)
  <2>1. /\ \A o \in CcPair \ {c} : batch'[o] = batch[o]
        /\ batch'[c].doc = batch[c].doc
    BY <1>3, <1>t DEF Lock, TypeOK, Batch
  <2> QED
    BY <1>3, <2>1, <1>c DEF Lock, cleanupVars, storeVars
<1>4. CASE Write(c)
  <2>1. /\ \A o \in CcPair \ {c} : batch'[o] = batch[o]
        /\ batch'[c].doc = batch[c].doc
    BY <1>4, <1>t DEF Write, BatchGoto, TypeOK, Batch
  <2> QED
    BY <1>4, <2>1, <1>c DEF Write, cleanupVars
<1>5. CASE Commit(c)
  <2>1. /\ \A o \in CcPair \ {c} : batch'[o] = batch[o]
        /\ batch'[c].doc = batch[c].doc
    BY <1>5, <1>t DEF Commit, BatchGoto, TypeOK, Batch
  <2>2. \A p \in delivered' : p \in delivered \/ (p[2] = c /\ status[c] = "LIVE")
    BY <1>5 DEF Commit, Deliver
  <2> QED
    BY <1>5, <2>1, <2>2, <1>c DEF Commit, cleanupVars
<1>6. CASE BatchFails(c)
  <2>1. /\ \A o \in CcPair \ {c} : batch'[o] = batch[o]
        /\ batch'[c].doc = batch[c].doc
    BY <1>6, <1>t DEF BatchFails, BatchGoto, TypeOK, Batch
  <2> QED
    BY <1>6, <2>1, <1>c DEF BatchFails, cleanupVars, storeVars
<1> QED
  BY <1>1, <1>2, <1>3, <1>4, <1>5, <1>6 DEF BatchStep

LEMMA BatchApart ==
    ASSUME DInv, Undisturbed, NEW c \in CcPair, BatchStep(c)
    PROVE  Apart'
<1> USE DEF DInv, Apart
<1>t. TypeOK /\ TypeOK'
  BY BatchTypes DEF IInv, TInv
<1>1. /\ UNCHANGED <<status, indexing, fence, beat, gen, task, sync>>
      /\ \A o \in CcPair \ {c} : batch'[o] = batch[o]
      /\ \A d \in Document : holders'[d] \in {holders[d], holders[d] \cup {c}}
      /\ \A d \in Document : holders'[d] # holders[d] =>
            status[c] # "DELETED" /\ batch[c].doc = d /\ batch[c].pc # "idle"
      /\ \A p \in delivered' : p \in delivered \/ (p[2] = c /\ status[c] = "LIVE")
      /\ \/ \E d \in Document : StartBatch(c, d)
         \/ batch[c].pc # "idle" /\ batch'[c].doc = batch[c].doc
  BY <1>t, BatchEffect
<1>c. c \in indexing /\ (batch[c].pc # "idle" => batch[c].doc \in Yields[c])
  BY <1>1 DEF StartBatch, BatchesApart
<1>2. BatchesApart'
  <2>1. CASE \E d \in Document : StartBatch(c, d)
    <3>1. PICK d \in Document : StartBatch(c, d)
      BY <2>1
    <3>2. batch'[c].doc = d /\ d \in Yields[c]
      BY <3>1, <1>t DEF StartBatch, Upsert, Skip, TypeOK
    <3>3. \A o \in CcPair \ {c} : d \in Yields[o] => status[o] # "DELETING"
      BY <3>1 DEF StartBatch, Undisturbed, May
    <3> QED
      BY <1>1, <1>c, <3>2, <3>3 DEF BatchesApart
  <2>2. CASE batch[c].pc # "idle" /\ batch'[c].doc = batch[c].doc
    BY <1>1, <1>c, <2>2 DEF BatchesApart
  <2> QED
    BY <1>1, <2>1, <2>2
<1>3. DeletingApart' /\ FencedDeleting' /\ IndexingFirst' /\ SyncsAtOnce' /\ OneGeneration'
  BY <1>1 DEF DeletingApart, FencedDeleting, IndexingFirst, SyncsAtOnce, OneGeneration,
              NoneOut, IsOutstanding
<1>4. DeliveredLive'
  BY <1>1, <1>t DEF DeliveredLive
<1>5. HoldersYield'
  BY <1>1, <1>c DEF HoldersYield
<1>6. RemovedHoldsNothing'
  BY <1>1, <1>c DEF RemovedHoldsNothing, IndexingFirst
<1>7. TodoHeld'
  BY <1>1, <1>t, BeatAt DEF TodoHeld
<1> QED
  BY <1>2, <1>3, <1>4, <1>5, <1>6, <1>7

\* What a step of a cleanup task does to the rows and to the other tasks.
LEMMA TaskEffect ==
    ASSUME TypeOK, ~May("redelivery"), NEW t \in TaskId, TaskStep(t)
    PROVE  /\ UNCHANGED <<status, indexing, batch, fence, beat, gen, delivered, sync>>
           /\ IsOutstanding(t)
           /\ \A u \in TaskId \ {t} : task'[u] = task[u]
           /\ \A d \in Document : holders'[d] \subseteq holders[d]
           /\ \A d \in Document : holders'[d] # holders[d] => AtWork(t) /\ d = DocOf(t)
<1>1. CASE Pickup(t) \/ IndexDelete(t) \/ IndexUpdate(t)
  BY <1>1 DEF Pickup, IndexDelete, IndexUpdate, Goto, IsOutstanding, TypeOK,
                    cleanupVars, storeVars
<1>2. CASE Forget(t) \/ Detach(t)
  BY <1>2, IdParts DEF Forget, Detach, Goto, IsOutstanding, AtWork, TypeOK, cleanupVars
<1>3. CASE Retry(t)
  BY <1>3 DEF Retry, Raises, Running, Requeue, IsOutstanding, TypeOK,
                    cleanupVars, storeVars
<1>4. CASE LastRetry(t)
  BY <1>4, IdParts DEF LastRetry, Raises, Running, Goto, IsOutstanding, AtWork, TypeOK,
                       cleanupVars
<1>5. CASE GiveUp(t) \/ Postrun(t)
  BY <1>5 DEF GiveUp, Postrun, Running, Goto, IsOutstanding, TypeOK, cleanupVars, storeVars
<1>6. CASE Redeliver(t)
  BY <1>6 DEF Redeliver, Running, IsOutstanding, TypeOK, cleanupVars, storeVars
<1> QED
  BY <1>1, <1>2, <1>3, <1>4, <1>5, <1>6 DEF TaskStep

LEMMA TaskApart ==
    ASSUME DInv, Undisturbed, NEW t \in TaskId, TaskStep(t)
    PROVE  Apart'
<1> USE DEF DInv, Apart
<1>1. /\ UNCHANGED <<status, indexing, batch, fence, beat, gen, delivered, sync>>
      /\ IsOutstanding(t)
      /\ \A u \in TaskId \ {t} : task'[u] = task[u]
      /\ \A d \in Document : holders'[d] \subseteq holders[d]
      /\ \A d \in Document : holders'[d] # holders[d] => AtWork(t) /\ d = DocOf(t)
  BY TaskEffect DEF DInv, IInv, TInv, Undisturbed, May
<1>2. BatchesApart' /\ DeletingApart' /\ FencedDeleting' /\ SyncsAtOnce' /\ DeliveredLive'
  BY <1>1 DEF DeletingApart, FencedDeleting, BatchesApart, SyncsAtOnce, DeliveredLive
<1>3. IndexingFirst' /\ OneGeneration'
  <2>1. \A u \in TaskId : IsOutstanding(u)' => IsOutstanding(u)
    BY <1>1 DEF IsOutstanding
  <2> QED
    BY <1>1, <2>1 DEF IndexingFirst, OneGeneration, NoneOut
<1>4. HoldersYield' /\ RemovedHoldsNothing'
  BY <1>1 DEF HoldersYield, RemovedHoldsNothing
<1>5. TodoHeld'
  BY <1>1, NoTodo, BeatAt DEF TodoHeld, IInv, TInv
<1> QED
  BY <1>2, <1>3, <1>4, <1>5

\* The fences and the beat, while the rows stay as they are.
RowVars == <<status, batch, delivered, holders, sync>>

LEMMA RowsApart ==
    ASSUME Apart, UNCHANGED RowVars
    PROVE  /\ indexing \subseteq indexing' => BatchesApart'
           /\ DeletingApart' /\ DeliveredLive' /\ HoldersYield' /\ SyncsAtOnce'
BY DEF Apart, RowVars, BatchesApart, DeletingApart, DeliveredLive, HoldersYield, SyncsAtOnce

LEMMA FenceApart ==
    ASSUME DInv, Undisturbed, NEW c \in CcPair, FenceStep(c)
    PROVE  Apart'
<1> USE DEF DInv, Apart
<1>t. TypeOK
  BY DEF IInv, TInv
<1>1. UNCHANGED RowVars /\ UNCHANGED <<indexing, gen, task>>
  BY DEF FenceStep, SetFence, StopTimesOut, DropStop, StartOver, NothingLeft, Renew, Abandon,
         ActiveExpires, RowVars, cleanupVars, storeVars
<1>2. BatchesApart' /\ DeletingApart' /\ DeliveredLive' /\ HoldersYield' /\ SyncsAtOnce' /\ OneGeneration'
  BY <1>1, RowsApart DEF OneGeneration, IsOutstanding
<1>3. CASE SetFence(c)
  <2>1. /\ fence' = [fence EXCEPT ![c] = "setup"] /\ status[c] = "DELETING"
        /\ beat'.pc = "depend" /\ beat'.pair = c
    BY <1>3, <1>t DEF SetFence, TypeOK, Beat
  <2>2. FencedDeleting' /\ IndexingFirst' /\ RemovedHoldsNothing' /\ TodoHeld'
    BY <1>1, <2>1, <1>t DEF RowVars, FencedDeleting, IndexingFirst, RemovedHoldsNothing, TodoHeld,
                            NoneOut, IsOutstanding, TypeOK
  <2> QED
    BY <1>2, <2>2
<1>4. CASE StopTimesOut(c) \/ DropStop(c) \/ Renew(c) \/ ActiveExpires(c)
  <2>1. UNCHANGED <<fence, beat>>
    BY <1>4 DEF StopTimesOut, DropStop, Renew, ActiveExpires
  <2> QED
    BY <2>1, <1>1, ApartQuiet DEF RowVars, ApartVars
<1>5. CASE StartOver(c) \/ Abandon(c)
  <2>1. beat.pc = "idle" /\ beat' = beat /\ fence' = [fence EXCEPT ![c] = "none"]
    BY <1>5 DEF StartOver, Abandon, ResetFence
  <2>2. FencedDeleting' /\ IndexingFirst' /\ RemovedHoldsNothing' /\ TodoHeld'
    BY <1>1, <2>1, <1>t DEF RowVars, FencedDeleting, IndexingFirst, RemovedHoldsNothing, TodoHeld,
                            NoneOut, IsOutstanding, TypeOK
  <2> QED
    BY <1>2, <2>2
<1>6. CASE NothingLeft(c)
  <2>1. /\ beat'.pc = "remove" /\ beat'.pair = c /\ fence' = fence
        /\ fence[c] = "ready" /\ \A d \in Document : c \notin holders[d]
    BY <1>6, <1>t DEF NothingLeft, TasksDone, TypeOK, Beat
  <2>2. FencedDeleting' /\ IndexingFirst' /\ RemovedHoldsNothing' /\ TodoHeld'
    BY <1>1, <2>1, <1>t DEF RowVars, FencedDeleting, IndexingFirst, RemovedHoldsNothing, TodoHeld,
                            NoneOut, IsOutstanding, TypeOK
  <2> QED
    BY <1>2, <2>2
<1> QED
  BY <1>3, <1>4, <1>5, <1>6 DEF FenceStep

LEMMA BeatApart ==
    ASSUME DInv, Undisturbed, BeatStep
    PROVE  Apart'
<1> USE DEF DInv, Apart
<1> DEFINE c == beat.pair
<1>t. TypeOK /\ c \in CcPair /\ beat.doc \in Document /\ beat.todo \in SUBSET Document
  BY BeatAt DEF IInv, TInv
<1>g. ASSUME NEW pc \in BeatPc, BeatGoto(pc)
      PROVE  /\ beat'.pc = pc /\ beat'.pair = beat.pair
             /\ beat'.doc = beat.doc /\ beat'.todo = beat.todo
  BY <1>g, <1>t DEF BeatGoto, TypeOK, Beat
<1>p. {"idle", "track", "reset"} \subseteq BeatPc
  BY DEF BeatPc
<1>q. ASSUME UNCHANGED RowVars, UNCHANGED <<indexing, gen, task>>,
             FencedDeleting', IndexingFirst', RemovedHoldsNothing', TodoHeld'
      PROVE  Apart'
  BY <1>q, RowsApart DEF OneGeneration, IsOutstanding
<1>1. CASE Blocked \/ GenerationFails \/ BeatDies \/ ClearFence
  <2>1. /\ beat'.pc = "idle" /\ UNCHANGED RowVars /\ UNCHANGED <<indexing, gen, task>>
        /\ \A o \in CcPair : fence'[o] \in {fence[o], "none"}
    BY <1>1, <1>g, <1>p, <1>t DEF Blocked, GenerationFails, BeatDies, ClearFence, ResetFence, TypeOK,
                                  RowVars, storeVars
  <2>2. FencedDeleting' /\ IndexingFirst' /\ RemovedHoldsNothing' /\ TodoHeld'
    BY <2>1, <1>t DEF RowVars, FencedDeleting, IndexingFirst, RemovedHoldsNothing, TodoHeld,
                      NoneOut, IsOutstanding, TypeOK
  <2> QED
    BY <2>1, <2>2, <1>q
<1>2. CASE Collect
  <2>1. /\ beat.pc = "depend" /\ c \notin indexing /\ beat'.pc = "track" /\ beat'.pair = c
        /\ beat'.todo = {d \in Document : c \in holders[d]}
        /\ \A o \in CcPair \ {c} : gen'[o] = gen[o]
        /\ UNCHANGED RowVars /\ UNCHANGED <<indexing, fence, task>>
    BY <1>2, <1>t DEF Collect, TypeOK, Beat, RowVars, storeVars
  <2>2. FencedDeleting' /\ IndexingFirst' /\ RemovedHoldsNothing' /\ TodoHeld'
    BY <2>1, <1>t DEF RowVars, FencedDeleting, IndexingFirst, RemovedHoldsNothing, TodoHeld,
                      NoneOut, IsOutstanding, TypeOK
  <2>3. OneGeneration'
    <3>1. NoneOut(c)
      BY <2>1 DEF IInv, Accounted, BeatOnPair
    <3> QED
      BY <2>1, <3>1, IdParts DEF OneGeneration, NoneOut, IsOutstanding
  <2> QED
    BY <2>1, <2>2, <2>3, RowsApart
<1>3. ASSUME NEW d \in Document, Track(d) PROVE Apart'
  <2>1. /\ beat.pc = "track" /\ d \in beat.todo
        /\ beat'.pc = "send" /\ beat'.pair = c /\ beat'.doc = d /\ beat'.todo = beat.todo \ {d}
        /\ UNCHANGED RowVars /\ UNCHANGED <<indexing, gen, fence, task>>
    BY <1>3, <1>t DEF Track, TypeOK, Beat, RowVars, storeVars
  <2>2. FencedDeleting' /\ IndexingFirst' /\ RemovedHoldsNothing' /\ TodoHeld'
    BY <2>1, <1>t DEF RowVars, FencedDeleting, IndexingFirst, RemovedHoldsNothing, TodoHeld,
                      NoneOut, IsOutstanding, TypeOK
  <2> QED
    BY <2>1, <2>2, <1>q
<1>4. CASE Send
  <2> DEFINE t == NewId(c, beat.doc)
  <2>1. /\ beat.pc = "send" /\ beat'.pc = "track" /\ beat'.pair = c /\ beat'.todo = beat.todo
        /\ UNCHANGED RowVars /\ UNCHANGED <<indexing, gen, fence>>
    BY <1>4, <1>g, <1>p DEF Send, RowVars, storeVars
  <2>2. t \in TaskId /\ PairOf(t) = c /\ t[3] = gen[c]
    BY <2>1, <1>t, NewIdType DEF IInv, NewId
  <2>3. \A u \in TaskId \ {t} : task'[u] = task[u]
    BY <1>4, <1>t DEF Send, Goto, TypeOK
  <2>4. c \notin indexing
    BY <2>1 DEF IndexingFirst
  <2>5. FencedDeleting' /\ RemovedHoldsNothing' /\ TodoHeld'
    BY <2>1, <1>t DEF RowVars, FencedDeleting, RemovedHoldsNothing, TodoHeld
  <2>6. IndexingFirst'
    BY <2>1, <2>2, <2>3, <2>4 DEF IndexingFirst, NoneOut, IsOutstanding, RowVars
  <2>7. OneGeneration'
    BY <2>1, <2>2, <2>3 DEF OneGeneration, IsOutstanding
  <2> QED
    BY <2>1, <2>5, <2>6, <2>7, RowsApart
<1>5. CASE Arm
  <2>1. /\ beat.pc = "track" /\ beat'.pc = "idle" /\ fence' = [fence EXCEPT ![c] = "ready"]
        /\ UNCHANGED RowVars /\ UNCHANGED <<indexing, gen, task>>
    BY <1>5, <1>g, <1>p DEF Arm, RowVars, storeVars
  <2>2. c \notin indexing /\ status[c] = "DELETING"
    BY <2>1 DEF IndexingFirst, IInv, Accounted, BeatOnPair
  <2>3. FencedDeleting' /\ IndexingFirst' /\ RemovedHoldsNothing' /\ TodoHeld'
    BY <2>1, <2>2, <1>t DEF RowVars, FencedDeleting, IndexingFirst, RemovedHoldsNothing, TodoHeld,
                      NoneOut, IsOutstanding, TypeOK
  <2> QED
    BY <2>1, <2>3, <1>q
<1>6. CASE RemovePair
  <2>1. /\ beat.pc = "remove" /\ beat'.pc = "reset" /\ beat'.pair = c
        /\ indexing' = indexing \ {c} /\ holders' = [d \in Document |-> holders[d] \ {c}]
        /\ status' = [status EXCEPT ![c] = "DELETED"]
        /\ UNCHANGED <<batch, delivered, sync, fence, gen, task>>
    BY <1>6, <1>g, <1>p DEF RemovePair
  <2>2. /\ fence[c] = "ready" /\ c \notin indexing /\ batch[c].pc = "idle" /\ status[c] # "LIVE"
        /\ \A d \in Document : holders'[d] = holders[d] /\ c \notin holders[d]
    BY <2>1, <1>t DEF RemovedHoldsNothing, IndexingFirst, BatchesApart, FencedDeleting, TypeOK
  <2>3. BatchesApart' /\ DeletingApart' /\ FencedDeleting' /\ SyncsAtOnce'
    BY <2>1, <2>2, <1>t DEF BatchesApart, DeletingApart, FencedDeleting, SyncsAtOnce, TypeOK
  <2>4. IndexingFirst' /\ OneGeneration'
    BY <2>1, <2>2, <1>t DEF IndexingFirst, OneGeneration, NoneOut, IsOutstanding, TypeOK
  <2>5. DeliveredLive' /\ HoldersYield'
    BY <2>1, <2>2, <1>t DEF DeliveredLive, HoldersYield, TypeOK
  <2>6. RemovedHoldsNothing' /\ TodoHeld'
    BY <2>1 DEF RemovedHoldsNothing, TodoHeld
  <2> QED
    BY <2>3, <2>4, <2>5, <2>6
<1> QED
  BY <1>1, <1>2, <1>3, <1>4, <1>5, <1>6 DEF BeatStep

-----------------------------------------------------------------------------
(* Decisions fit the rows                                                    *)

LEMMA FittingInit == Init => Fitting
<1> SUFFICES ASSUME Init PROVE Fitting
  OBVIOUS
<1>1. /\ \A c \in CcPair : batch[c].pc = "idle"
      /\ \A t \in TaskId : task[t].pc = "unsent"
      /\ \A d \in Document : holders[d] = {} /\ access[d] = {}
      /\ indexed = {}
  BY DEF Init, NewTask
<1>2. \A t \in TaskId : TaskRight(t)
  BY <1>1 DEF TaskRight, AtWork
<1>3. \A c \in CcPair : BatchRight(c)
  BY <1>1 DEF BatchRight
<1>4. \A d \in Document : DocRight(d)
  BY <1>1 DEF DocRight
<1> QED
  BY <1>2, <1>3, <1>4 DEF Fitting

\* No row changes, and no pair comes to life.
LEMMA RowsRight ==
    ASSUME Fitting, TypeOK,
           UNCHANGED <<indexed, access>>, \A d \in Document : holders'[d] = holders[d],
           \A c \in CcPair : status'[c] = "LIVE" => status[c] = "LIVE",
           \A t \in TaskId : task'[t] = task[t] \/ TaskRight(t)',
           \A c \in CcPair : batch'[c] = batch[c] \/ BatchRight(c)'
    PROVE  Fitting'
<1>1. \A d \in Document : AccessFor(d)' \subseteq AccessFor(d)
  BY DEF AccessFor, TypeOK
<1>2. \A t \in TaskId : TaskRight(t)'
  <2> SUFFICES ASSUME NEW t \in TaskId, task'[t] = task[t], TaskRight(t) PROVE TaskRight(t)'
    BY DEF Fitting
  <2>1. DocOf(t) \in Document
    BY IdParts
  <2> QED
    BY <1>1, <2>1 DEF TaskRight, AtWork
<1>3. \A c \in CcPair : BatchRight(c)'
  <2> SUFFICES ASSUME NEW c \in CcPair, batch'[c] = batch[c], BatchRight(c) PROVE BatchRight(c)'
    BY DEF Fitting
  <2>1. batch[c].doc \in Document
    BY BatchAt
  <2> QED
    BY <1>1, <2>1 DEF BatchRight
<1>4. \A d \in Document : DocRight(d)'
  BY DEF Fitting, DocRight
<1> QED
  BY <1>2, <1>3, <1>4 DEF Fitting

\* A task at work changes the rows of its own document: no other task or batch has
\* read them.
LEMMA OthersRight ==
    ASSUME DInv, NEW t \in TaskId, AtWork(t),
           UNCHANGED <<status, batch>>,
           \A u \in TaskId \ {t} : task'[u] = task[u],
           \A d \in Document \ {DocOf(t)} :
               /\ holders'[d] = holders[d] /\ access'[d] = access[d]
               /\ d \in indexed' <=> d \in indexed,
           TaskRight(t)', DocRight(DocOf(t))'
    PROVE  Fitting'
<1>t. TypeOK
  BY DEF DInv, IInv, TInv
<1>1. \A u \in TaskId : TaskRight(u)'
  <2> SUFFICES ASSUME NEW u \in TaskId, u # t PROVE TaskRight(u)'
    OBVIOUS
  <2>1. task'[u] = task[u] /\ TaskRight(u) /\ DocOf(u) \in Document
    BY IdParts DEF DInv, Fitting
  <2>2. CASE AtWork(u)
    <3>1. DocOf(u) # DocOf(t)
      BY <2>2, OneTask
    <3>2. AccessFor(DocOf(u))' = AccessFor(DocOf(u))
      BY <2>1, <3>1 DEF AccessFor
    <3> QED
      BY <2>1, <3>1, <3>2 DEF TaskRight, AtWork
  <2>3. CASE ~AtWork(u)
    BY <2>1, <2>3 DEF TaskRight, AtWork
  <2> QED
    BY <2>2, <2>3
<1>2. \A c \in CcPair : BatchRight(c)'
  <2> TAKE c \in CcPair
  <2>1. CASE batch[c].pc = "idle"
    BY <2>1 DEF BatchRight
  <2>2. CASE batch[c].pc # "idle"
    <3>1. batch[c].doc \in Document \ {DocOf(t)} /\ BatchRight(c)
      BY <2>2, <1>t, NoBatch, BatchAt DEF DInv, Fitting
    <3>2. AccessFor(batch[c].doc)' = AccessFor(batch[c].doc)
      BY <3>1 DEF AccessFor
    <3> QED
      BY <3>1, <3>2 DEF BatchRight
  <2> QED
    BY <2>1, <2>2
<1>3. \A d \in Document : DocRight(d)'
  <2> TAKE d \in Document
  <2> QED
    BY DEF DInv, Fitting, DocRight
<1> QED
  BY <1>1, <1>2, <1>3 DEF Fitting

LEMMA PairFitting ==
    ASSUME DInv, Undisturbed, NEW c \in CcPair, PairStep(c)
    PROVE  Fitting'
<1>t. TypeOK
  BY DEF DInv, IInv, TInv
<1>1. CASE Reactivate(c)
  BY <1>1 DEF Reactivate, Undisturbed, May
<1>2. CASE ~Reactivate(c)
  <2>1. /\ UNCHANGED <<indexed, access, holders, task, batch>>
        /\ \A o \in CcPair : status'[o] = "LIVE" => status[o] = "LIVE"
    BY <1>2, <1>t DEF PairStep, RequestDeletion, StartAttempt, EndAttempt, PruneStart, PruneEnd,
                      storeVars, TypeOK
  <2> QED
    BY <2>1, <1>t, RowsRight DEF DInv
<1> QED
  BY <1>1, <1>2

LEMMA FenceFitting ==
    ASSUME DInv, NEW c \in CcPair, FenceStep(c)
    PROVE  Fitting'
<1>1. UNCHANGED <<indexed, access, holders, task, batch, status>>
  BY DEF FenceStep, SetFence, StopTimesOut, DropStop, StartOver, NothingLeft, Renew, Abandon,
         ActiveExpires, storeVars
<1> QED
  BY <1>1, RowsRight DEF DInv, IInv, TInv

LEMMA BeatFitting ==
    ASSUME DInv, BeatStep
    PROVE  Fitting'
<1>t. TypeOK /\ beat.pair \in CcPair /\ beat.doc \in Document
  BY BeatAt DEF DInv, IInv, TInv
<1>1. CASE Send
  <2>1. beat.pc = "send" /\ UNCHANGED <<indexed, access, holders, batch, status>>
    BY <1>1 DEF Send, storeVars
  <2>2. PICK t \in TaskId :
            t = NewId(beat.pair, beat.doc) /\ PairOf(t) = beat.pair /\ DocOf(t) = beat.doc
    BY <1>t, <2>1, NewIdType DEF DInv, IInv, NewId, DocOf
  <2>3. /\ \A u \in TaskId \ {t} : task'[u] = task[u]
        /\ task'[t].pc = "queued"
    BY <1>1, <1>t, <2>2 DEF Send, Goto, TypeOK, Task
  <2>4. TaskRight(t)'
    BY <2>1, <2>2, <2>3 DEF TaskRight, AtWork, DInv, Apart, TodoHeld
  <2> QED
    BY <1>t, <2>1, <2>3, <2>4, RowsRight DEF DInv
<1>2. CASE RemovePair
  <2>1. /\ UNCHANGED <<indexed, access, task, batch>>
        /\ \A o \in CcPair : status'[o] = "LIVE" => status[o] = "LIVE"
        /\ \A d \in Document : holders'[d] = holders[d]
    BY <1>2, <1>t DEF RemovePair, TypeOK, DInv, Apart, RemovedHoldsNothing
  <2> QED
    BY <1>t, <2>1, RowsRight DEF DInv
<1>3. CASE ~Send /\ ~RemovePair
  <2>1. UNCHANGED <<indexed, access, holders, task, batch, status>>
    BY <1>3 DEF BeatStep, Blocked, Collect, Track, Arm, GenerationFails, BeatDies, ClearFence,
                storeVars
  <2> QED
    BY <1>t, <2>1, RowsRight DEF DInv
<1> QED
  BY <1>1, <1>2, <1>3

LEMMA SyncFitting ==
    ASSUME DInv, NEW d \in Document, SyncAtOnce(d)
    PROVE  Fitting'
<1>1. /\ access' = IF d \in indexed THEN [access EXCEPT ![d] = AccessFor(d)] ELSE access
      /\ UNCHANGED <<status, batch, holders, indexed, task>>
  BY DEF SyncAtOnce
<1>t. TypeOK
  BY DEF DInv, IInv, TInv
<1>2. \A e \in Document : AccessFor(e)' = AccessFor(e) /\ AccessFor(e) \subseteq holders[e]
  BY <1>1 DEF AccessFor
<1>3. \A t \in TaskId : TaskRight(t)'
  <2> TAKE t \in TaskId
  <2>1. DocOf(t) \in Document /\ TaskRight(t)
    BY IdParts DEF DInv, Fitting
  <2>2. CASE AtWork(t)
    <3>1. PairOf(t) \notin AccessFor(DocOf(t))
      BY <2>2, WorkerDeleting DEF AccessFor
    <3> QED
      BY <1>1, <1>2, <1>t, <2>1, <3>1 DEF TaskRight, AtWork, TypeOK
  <2>3. CASE ~AtWork(t)
    BY <1>1, <2>3 DEF TaskRight, AtWork
  <2> QED
    BY <2>2, <2>3
<1>4. \A c \in CcPair : BatchRight(c)'
  BY <1>1, <1>2, <1>t, BatchAt DEF DInv, Fitting, BatchRight
<1>5. \A e \in Document : DocRight(e)'
  BY <1>1, <1>2, <1>t DEF DInv, Fitting, DocRight, TypeOK
<1> QED
  BY <1>3, <1>4, <1>5 DEF Fitting

LEMMA BatchFitting ==
    ASSUME DInv, Undisturbed, NEW c \in CcPair, BatchStep(c)
    PROVE  Fitting'
<1> DEFINE d == batch[c].doc
<1>t. TypeOK /\ d \in Document /\ batch[c] \in Batch
  BY BatchAt DEF DInv, IInv, TInv, TypeOK
<1>r. /\ \A t \in TaskId : TaskRight(t) /\ DocOf(t) \in Document
      /\ \A o \in CcPair : BatchRight(o) /\ batch[o].doc \in Document
      /\ \A e \in Document : DocRight(e)
  BY <1>t, IdParts, BatchAt DEF DInv, Fitting
<1>o. \A o \in CcPair \ {c} : batch'[o] = batch[o]
  BY <1>t, BatchEffect
<1>i. ASSUME UNCHANGED <<status, holders, indexed, access, task>>, BatchRight(c)'
      PROVE  Fitting'
  BY <1>i, <1>o, <1>t, RowsRight DEF DInv
<1>1. ASSUME NEW e \in Document, StartBatch(c, e) PROVE Fitting'
  <2>1. batch'[c].pc \in {"relate", "relateOnly"}
    BY <1>1, <1>t DEF StartBatch, Upsert, Skip, TypeOK
  <2> QED
    BY <1>1, <2>1, <1>i DEF StartBatch, BatchRight
<1>2. CASE Relate(c)
  <2>1. /\ holders' = [holders EXCEPT ![d] = @ \cup {c}] /\ ~Locked(d)
        /\ batch'[c].doc = d /\ batch'[c].pc \in {"lock", "idle"}
        /\ UNCHANGED <<status, indexed, access, task>>
    BY <1>2, <1>t DEF Relate, BatchGoto, TypeOK, Batch
  <2>2. \A e \in Document \ {d} : holders'[e] = holders[e] /\ AccessFor(e)' = AccessFor(e)
    BY <2>1, <1>t DEF AccessFor, TypeOK
  <2>3. c \in holders'[d] /\ holders[d] \subseteq holders'[d]
    BY <2>1, <1>t DEF TypeOK
  <2>4. \A t \in TaskId : TaskRight(t)'
    <3> TAKE t \in TaskId
    <3>1. CASE AtWork(t)
      <4>1. DocOf(t) # d
        BY <3>1, NoBatch, <1>2 DEF Relate
      <4> QED
        BY <4>1, <2>1, <2>2, <1>r DEF TaskRight, AtWork
    <3>2. CASE ~AtWork(t)
      BY <3>2, <2>1 DEF TaskRight, AtWork
    <3> QED
      BY <3>1, <3>2
  <2>5. \A o \in CcPair : BatchRight(o)'
    <3> TAKE o \in CcPair
    <3>1. CASE o = c
      BY <3>1, <2>1, <2>3 DEF BatchRight
    <3>2. CASE o # c /\ batch[o].doc = d
      BY <3>2, <1>o, <1>r, <2>1, <2>3 DEF BatchRight, Locked
    <3>3. CASE o # c /\ batch[o].doc # d
      BY <3>3, <1>o, <1>r, <2>1, <2>2 DEF BatchRight
    <3> QED
      BY <3>1, <3>2, <3>3
  <2>6. \A e \in Document : DocRight(e)'
    BY <2>1, <2>2, <2>3, <1>r DEF DocRight
  <2> QED
    BY <2>4, <2>5, <2>6 DEF Fitting
<1>3. CASE Lock(c)
  <2>1. /\ batch[c].pc = "lock"
        /\ batch'[c].pc = "write" /\ batch'[c].doc = d /\ batch'[c].access = AccessFor(d)
        /\ UNCHANGED <<status, holders, indexed, access, task>>
    BY <1>3, <1>t DEF Lock, TypeOK, Batch, storeVars
  <2>2. AccessFor(d)' = AccessFor(d) /\ AccessFor(d) \subseteq holders[d]
    BY <2>1 DEF AccessFor
  <2>3. BatchRight(c)'
    BY <2>1, <2>2, <1>r DEF BatchRight
  <2> QED
    BY <2>1, <2>3, <1>i
<1>4. CASE Write(c)
  <2>1. /\ batch[c].pc = "write"
        /\ batch'[c].pc = "commit" /\ batch'[c].doc = d /\ batch'[c].access = batch[c].access
        /\ indexed' = indexed \cup {d} /\ access' = [access EXCEPT ![d] = batch[c].access]
        /\ UNCHANGED <<status, holders, task>>
    BY <1>4, <1>t DEF Write, BatchGoto, TypeOK, Batch
  <2>2. \A e \in Document : AccessFor(e)' = AccessFor(e)
    BY <2>1 DEF AccessFor
  <2>3. \A t \in TaskId : TaskRight(t)'
    <3> TAKE t \in TaskId
    <3>1. CASE AtWork(t)
      <4>1. DocOf(t) # d
        BY <3>1, NoBatch, <2>1
      <4>2. access'[DocOf(t)] = access[DocOf(t)] /\ (DocOf(t) \in indexed' <=> DocOf(t) \in indexed)
        BY <4>1, <2>1, <1>r, <1>t DEF TypeOK
      <4> QED
        BY <4>2, <2>1, <2>2, <1>r DEF TaskRight, AtWork
    <3>2. CASE ~AtWork(t)
      BY <3>2, <2>1 DEF TaskRight, AtWork
    <3> QED
      BY <3>1, <3>2
  <2>4. \A o \in CcPair : BatchRight(o)'
    BY <2>1, <2>2, <1>o, <1>r DEF BatchRight
  <2>5. \A e \in Document : DocRight(e)'
    <3> TAKE e \in Document
    <3>1. CASE e = d
      BY <3>1, <2>1, <1>r, <1>t DEF BatchRight, DocRight, TypeOK
    <3>2. CASE e # d
      BY <3>2, <2>1, <1>r, <1>t DEF DocRight, TypeOK
    <3> QED
      BY <3>1, <3>2
  <2> QED
    BY <2>3, <2>4, <2>5 DEF Fitting
<1>5. CASE Commit(c) \/ BatchFails(c)
  <2>1. batch'[c].pc = "idle" /\ UNCHANGED <<status, holders, indexed, access, task>>
    BY <1>5, <1>t DEF Commit, BatchFails, BatchGoto, TypeOK, Batch, storeVars
  <2> QED
    BY <2>1, <1>i DEF BatchRight
<1> QED
  BY <1>1, <1>2, <1>3, <1>4, <1>5 DEF BatchStep

LEMMA TaskFitting ==
    ASSUME DInv, Undisturbed, NEW t \in TaskId, TaskStep(t)
    PROVE  Fitting'
<1> DEFINE d == DocOf(t)
           x == PairOf(t)
<1>t. TypeOK /\ d \in Document /\ x \in CcPair /\ task[t] \in Task
  BY IdParts DEF DInv, IInv, TInv, TypeOK
<1>r. TaskRight(t) /\ DocRight(d)
  BY <1>t DEF DInv, Fitting
<1>u. /\ \A u \in TaskId \ {t} : task'[u] = task[u]
      /\ UNCHANGED <<status, batch>>
  BY TaskEffect DEF DInv, IInv, TInv, Undisturbed, May
<1>w. AtWork(t) => status[x] = "DELETING" /\ x \in holders[d] /\ x \notin AccessFor(d)
  BY WorkerDeleting DEF AccessFor
<1>i. ASSUME UNCHANGED <<holders, indexed, access>>, TaskRight(t)'
      PROVE  Fitting'
  BY <1>i, <1>u, <1>t, RowsRight DEF DInv
<1>1. CASE Pickup(t)
  <2>1. /\ AtWork(t) /\ UNCHANGED <<holders, indexed, access>>
        /\ task'[t] = IF SingleHolder(d) THEN [task[t] EXCEPT !.pc = "delete"]
                      ELSE IF holders[d] = {} THEN [task[t] EXCEPT !.pc = "post"]
                      ELSE [task[t] EXCEPT !.pc = "update", !.access = AccessFor(d)]
    BY <1>1, <1>t DEF Pickup, AtWork, storeVars, TypeOK
  <2>2. AccessFor(d)' = AccessFor(d) /\ AccessFor(d) \subseteq holders[d]
    BY <2>1, <1>u DEF AccessFor
  <2>3. CASE SingleHolder(d)
    <3>1. task'[t].pc = "delete" /\ holders[d] = {x}
      BY <2>1, <2>3, <1>t, <1>w DEF SingleHolder, Task
    <3> QED
      BY <2>1, <3>1, <1>i DEF TaskRight, AtWork
  <2>4. CASE ~SingleHolder(d)
    <3>1. holders[d] # {x} /\ holders[d] # {}
      BY <2>1, <2>4, <1>t, <1>w DEF SingleHolder
    <3>2. task'[t].pc = "update" /\ task'[t].access = AccessFor(d)
      BY <2>1, <2>4, <3>1, <1>t DEF Task
    <3> QED
      BY <2>1, <2>2, <3>1, <3>2, <1>i, <1>w DEF TaskRight, AtWork
  <2> QED
    BY <2>3, <2>4
<1>2. CASE IndexDelete(t)
  <2>1. /\ task[t].pc = "delete" /\ task'[t].pc = "forget"
        /\ indexed' = indexed \ {d} /\ access' = [access EXCEPT ![d] = {}]
        /\ holders' = holders
    BY <1>2, <1>t DEF IndexDelete, Goto, TypeOK, Task
  <2>2. AtWork(t) /\ TaskRight(t)' /\ DocRight(d)'
    BY <2>1, <1>t, <1>r, <1>w DEF AtWork, TaskRight, DocRight, TypeOK
  <2> QED
    BY <2>1, <2>2, <1>t, <1>u, OthersRight DEF TypeOK
<1>3. CASE IndexUpdate(t)
  <2>1. /\ task[t].pc = "update" /\ task'[t].pc = "detach"
        /\ access' = IF d \in indexed THEN [access EXCEPT ![d] = task[t].access] ELSE access
        /\ holders' = holders /\ indexed' = indexed
    BY <1>3, <1>t DEF IndexUpdate, Goto, TypeOK, Task
  <2>2. AccessFor(d)' = AccessFor(d)
    BY <2>1, <1>u DEF AccessFor
  <2>3. AtWork(t) /\ TaskRight(t)' /\ DocRight(d)'
    BY <2>1, <2>2, <1>t, <1>r, <1>w DEF AtWork, TaskRight, DocRight, TypeOK
  <2> QED
    BY <2>1, <2>3, <1>t, <1>u, OthersRight DEF TypeOK
<1>4. CASE Forget(t)
  <2>1. /\ task[t].pc = "forget" /\ task'[t].pc = "post"
        /\ holders' = [holders EXCEPT ![d] = {}]
        /\ access' = access /\ indexed' = indexed
    BY <1>4, <1>t DEF Forget, Goto, TypeOK, Task
  <2>2. AtWork(t) /\ TaskRight(t)' /\ DocRight(d)'
    BY <2>1, <1>t, <1>r DEF AtWork, TaskRight, DocRight, TypeOK
  <2> QED
    BY <2>1, <2>2, <1>t, <1>u, OthersRight DEF TypeOK
<1>5. CASE Detach(t)
  <2>1. /\ task[t].pc = "detach" /\ task'[t].pc = "post"
        /\ holders' = [holders EXCEPT ![d] = @ \ {x}]
        /\ access' = access /\ indexed' = indexed
    BY <1>5, <1>t DEF Detach, Goto, TypeOK, Task
  <2>2. AtWork(t) /\ TaskRight(t)' /\ DocRight(d)'
    BY <2>1, <1>t, <1>r, <1>w DEF AtWork, TaskRight, DocRight, TypeOK
  <2> QED
    BY <2>1, <2>2, <1>t, <1>u, OthersRight DEF TypeOK
<1>6. CASE Retry(t) \/ Redeliver(t)
  <2>1. AtWork(t) /\ task'[t].pc = "queued" /\ UNCHANGED <<holders, indexed, access>>
    BY <1>6, <1>t DEF Retry, Redeliver, Raises, Running, Requeue, AtWork, storeVars, TypeOK, Task,
                      Undisturbed, May
  <2> QED
    BY <2>1, <1>i, <1>w DEF TaskRight, AtWork
<1>7. CASE LastRetry(t) \/ GiveUp(t) \/ Postrun(t)
  <2>1. task'[t].pc \in {"post", "done"} /\ UNCHANGED <<holders, indexed, access>>
    BY <1>7, <1>t DEF LastRetry, GiveUp, Postrun, Goto, storeVars, TypeOK, Task, Undisturbed, May
  <2> QED
    BY <2>1, <1>i DEF TaskRight, AtWork
<1> QED
  BY <1>1, <1>2, <1>3, <1>4, <1>5, <1>6, <1>7 DEF TaskStep

-----------------------------------------------------------------------------
\* The invariant holds in every reachable state.
LEMMA DInvHolds == Undisturbed => (Spec => []DInv)
<1> SUFFICES ASSUME Undisturbed PROVE Spec => []DInv
  OBVIOUS
<1>1. Init => DInv
  BY TypesInit, AccountedInit, ApartInit, FittingInit DEF DInv, IInv
<1>2. DInv /\ [Next]_vars => DInv'
  <2> SUFFICES ASSUME DInv, [Next]_vars PROVE DInv'
    OBVIOUS
  <2>1. CASE UNCHANGED vars
    <3>1. IInv'
      BY <2>1, TypesStep, Quiet DEF DInv, IInv, vars, cleanupVars, AccountVars
    <3>2. Apart'
      BY <2>1, ApartQuiet DEF DInv, vars, cleanupVars, storeVars, ApartVars
    <3>3. Fitting'
      BY <2>1, RowsRight DEF DInv, IInv, TInv, vars, storeVars
    <3> QED
      BY <3>1, <3>2, <3>3 DEF DInv
  <2>2. CASE Next
    <3>1. IInv'
      BY <2>2, UndisturbedOrderly, TypesStep, PairAccounted, BatchAccounted, TaskAccounted,
         FenceAccounted, SyncAccounted, BeatAccounted DEF Next, DInv, IInv
    <3>2. Apart'
      BY <2>2, PairApart, BatchApart, TaskApart, FenceApart, SyncApart, BeatApart DEF Next
    <3>3. Fitting'
      BY <2>2, PairFitting, BatchFitting, TaskFitting, FenceFitting, SyncApart, SyncFitting,
         BeatFitting DEF Next
    <3> QED
      BY <3>1, <3>2, <3>3 DEF DInv
  <2> QED
    BY <2>1, <2>2
<1> QED
  BY <1>1, <1>2, PTL DEF Spec

\* A document of the index belongs to a pair that holds it, and only such pairs give
\* access to it, however deletions, attempts, retries and metadata syncs interleave.
THEOREM NothingOrphaned == Undisturbed => (Spec => []NoOrphans)
<1> SUFFICES ASSUME Undisturbed PROVE Spec => []NoOrphans
  OBVIOUS
<1>1. DInv => NoOrphans
  BY DEF DInv, IInv, TInv, TypeOK, Fitting, DocRight, NoOrphans
<1> QED
  BY <1>1, DInvHolds, PTL


-----------------------------------------------------------------------------
(* What live pairs rely on is kept                                           *)

\* The faults of the environment that spare live pairs: pairs deleted together,
\* batches of ended attempts, and tasks that fail on their last retry.
Sparing == Hazards \subseteq {"overlap", "straggler", "exhausted"}

\* The sets of pairs are the same as far as live pairs go.
Agree(A, B) == \A c \in CcPair : status[c] = "LIVE" => (c \in A <=> c \in B)
NoneLive(d) == \A c \in holders[d] : status[c] # "LIVE"

\* A batch is that of a document its pair fetches and that no pair being deleted
\* could hold, too.
BatchesClear ==
    \A c \in CcPair : batch[c].pc # "idle" =>
        /\ batch[c].doc \in Yields[c]
        /\ \A o \in CcPair \ {c} : batch[c].doc \in Yields[o] => status[o] # "DELETING"

RemovedNotLive == beat.pc = "remove" => status[beat.pair] # "LIVE"

\* Pairs hold, and clean up, what they fetch.
TasksFetch ==
    /\ \A d \in Document : \A c \in holders[d] : d \in Yields[c]
    /\ \A t \in TaskId : IsOutstanding(t) => DocOf(t) \in Yields[PairOf(t)]
    /\ beat.pc \in {"track", "send"} => beat.todo \subseteq {d \in Document : d \in Yields[beat.pair]}
    /\ beat.pc = "send" => beat.doc \in Yields[beat.pair]

\* What the tasks are to be generated for is held by the pair, or by no live one.
TodoSpares ==
    /\ beat.pc \in {"track", "send"} =>
          \A d \in beat.todo : beat.pair \in holders[d] \/ NoneLive(d)
    /\ beat.pc = "send" => beat.pair \in holders[beat.doc] \/ NoneLive(beat.doc)

Clear ==
    /\ BatchesClear /\ FencedDeleting /\ RemovedNotLive /\ DeliveredLive
    /\ SyncsAtOnce /\ TasksFetch /\ TodoSpares /\ OneGeneration

\* A cleanup task removes no document that a live pair holds, and writes the access
\* of the live pairs.
TaskSpares(t) ==
    LET d == DocOf(t) IN
    /\ AtWork(t) => PairOf(t) \in holders[d] \/ NoneLive(d)
    /\ task[t].pc \in {"delete", "forget"} => NoneLive(d)
    /\ task[t].pc = "update" => Agree(task[t].access, holders[d])
    /\ task[t].pc = "detach" /\ d \in indexed => Agree(access[d], holders[d])

\* So does a batch; that of a live pair finds its relationship and its chunks.
BatchSpares(c) ==
    LET d == batch[c].doc IN
    /\ batch[c].pc \in {"write", "commit"} => Agree(batch[c].access, holders[d])
    /\ status[c] = "LIVE" /\ batch[c].pc \in {"lock", "write", "commit"} => c \in holders[d]
    /\ status[c] = "LIVE" /\ batch[c].pc = "commit" => d \in indexed

DocSpares(d) ==
    /\ \A c \in access[d] : status[c] = "LIVE" => c \in holders[d]
    /\ d \notin indexed => access[d] = {}

Spared ==
    /\ \A t \in TaskId : TaskSpares(t)
    /\ \A c \in CcPair : BatchSpares(c)
    /\ \A d \in Document : DocSpares(d)

\* A live pair relies on what it has indexed, and on what it is about to take over
\* unchanged.
Relies(d, c) ==
    /\ status[c] = "LIVE"
    /\ \/ <<d, c>> \in delivered
       \/ batch[c].pc = "relateOnly" /\ batch[c].doc = d

Kept(d, c) ==
    /\ c \in holders[d]
    /\ d \in indexed
    /\ c \in access[d] \/ d \in dirty

AllKept == \A d \in Document, c \in CcPair : Relies(d, c) => Kept(d, c)

SInv == IInv /\ Clear /\ Spared /\ AllKept

-----------------------------------------------------------------------------
(* Lemmas about states                                                       *)

LEMMA SparingOrderly == Sparing => Orderly /\ ~May("redelivery")
BY DEF Sparing, Orderly, May

LEMMA ClearWorker ==
    ASSUME SInv, NEW t \in TaskId, AtWork(t)
    PROVE  IsOutstanding(t) /\ status[PairOf(t)] = "DELETING" /\ DocOf(t) \in Yields[PairOf(t)]
<1>1. IsOutstanding(t)
  BY DEF AtWork, IsOutstanding
<1> QED
  BY <1>1 DEF SInv, IInv, Accounted, TasksTracked, Clear, TasksFetch

\* No two tasks of a pair are at work on the same document.
LEMMA OneTaskOfPair ==
    ASSUME SInv, NEW t \in TaskId, NEW u \in TaskId, AtWork(t), AtWork(u),
           DocOf(t) = DocOf(u), PairOf(t) = PairOf(u)
    PROVE  t = u
<1>1. t[3] = u[3]
  BY ClearWorker DEF SInv, Clear, OneGeneration
<1> QED
  BY <1>1 DEF TaskId, PairOf, DocOf

\* Only the pair itself may still have a batch for the document of a task at work.
LEMMA OwnBatch ==
    ASSUME SInv, NEW t \in TaskId, AtWork(t),
           NEW c \in CcPair, batch[c].pc # "idle", batch[c].doc = DocOf(t)
    PROVE  c = PairOf(t)
BY ClearWorker, IdParts DEF SInv, Clear, BatchesClear

\* The same for what the beat has yet to generate tasks for.
LEMMA OwnBatchTodo ==
    ASSUME SInv, beat.pc \in {"track", "send"},
           NEW c \in CcPair, batch[c].pc # "idle",
           batch[c].doc \in beat.todo \/ (beat.pc = "send" /\ batch[c].doc = beat.doc)
    PROVE  c = beat.pair
<1>1. status[beat.pair] = "DELETING" /\ beat.pair \in CcPair
  BY BeatAt DEF SInv, IInv, TInv, Accounted, BeatOnPair
<1> QED
  BY <1>1 DEF SInv, Clear, BatchesClear, TasksFetch

\* The beat has yet to generate the tasks of no document with a task of the pair at
\* work.
LEMMA NoTodoOfPair ==
    ASSUME SInv, NEW t \in TaskId, AtWork(t), beat.pc \in {"track", "send"}, PairOf(t) = beat.pair
    PROVE  DocOf(t) \notin beat.todo /\ (beat.pc = "send" => beat.doc # DocOf(t))
<1>1. t = NewId(beat.pair, DocOf(t))
  BY ClearWorker DEF SInv, Clear, OneGeneration, NewId, TaskId, PairOf, DocOf
<1>2. task[t].pc # "unsent"
  BY DEF AtWork
<1> QED
  BY <1>1, <1>2 DEF SInv, IInv, Accounted, FreshIds

-----------------------------------------------------------------------------
(* A step that takes no live pair from a document                            *)

\* No pair comes to life, and no live pair gets or loses a document.
LivePairsStay ==
    /\ \A c \in CcPair : status'[c] = "LIVE" => status[c] = "LIVE"
    /\ \A d \in Document, c \in CcPair :
           status[c] = "LIVE" => (c \in holders'[d] <=> c \in holders[d])

\* The index keeps a document as it is, or with the access of the live pairs, or
\* loses one that no live pair holds.
IndexMoves(d) ==
    \/ access'[d] = access[d] /\ (d \in indexed' <=> d \in indexed)
    \/ Agree(access'[d], holders[d]) /\ d \in indexed'
    \/ access'[d] = {} /\ d \notin indexed' /\ NoneLive(d)

\* A task that does not move keeps its pair's hold on the document, or no live pair
\* holds it.
TaskStays(t) ==
    /\ task'[t] = task[t]
    /\ PairOf(t) \in holders[DocOf(t)] \ holders'[DocOf(t)] => ~AtWork(t) \/ NoneLive(DocOf(t))

LEMMA AgreeStays ==
    ASSUME TypeOK', LivePairsStay, NEW d \in Document
    PROVE  /\ NoneLive(d) => NoneLive(d)'
           /\ \A A \in SUBSET CcPair :
                 Agree(A, holders[d]) =>
                    \A c \in CcPair : status'[c] = "LIVE" => (c \in A <=> c \in holders'[d])
BY DEF LivePairsStay, NoneLive, Agree, TypeOK

LEMMA SparedStays ==
    ASSUME Spared, TypeOK, TypeOK', LivePairsStay, \A d \in Document : IndexMoves(d),
           \A t \in TaskId : TaskStays(t) \/ TaskSpares(t)',
           \A c \in CcPair : batch'[c] = batch[c] \/ BatchSpares(c)'
    PROVE  Spared'
<1>1. \A t \in TaskId : TaskSpares(t)'
  <2> SUFFICES ASSUME NEW t \in TaskId, TaskStays(t) PROVE TaskSpares(t)'
    OBVIOUS
  <2> DEFINE d == DocOf(t)
  <2>1. /\ TaskSpares(t) /\ d \in Document /\ task'[t] = task[t]
        /\ task[t].access \in SUBSET CcPair /\ access[d] \in SUBSET CcPair
        /\ access'[d] \in SUBSET CcPair
    BY IdParts DEF Spared, TaskStays, TypeOK, Task
  <2>2. NoneLive(d) => NoneLive(d)'
    BY <2>1, AgreeStays
  <2>3. AtWork(t)' => PairOf(t) \in holders'[d] \/ NoneLive(d)'
    BY <2>1, <2>2 DEF TaskStays, TaskSpares, AtWork
  <2>4. task'[t].pc \in {"delete", "forget"} => NoneLive(d)'
    BY <2>1, <2>2 DEF TaskSpares
  <2>5. task'[t].pc = "update" => Agree(task[t].access, holders[d])'
    <3>1. task[t].pc = "update" =>
             \A c \in CcPair : status'[c] = "LIVE" => (c \in task[t].access <=> c \in holders'[d])
      BY <2>1, AgreeStays DEF TaskSpares
    <3> QED
      BY <3>1, <2>1 DEF Agree
  <2>6. task'[t].pc = "detach" /\ d \in indexed' => Agree(access[d], holders[d])'
    <3>1. task[t].pc = "detach" /\ d \in indexed' => Agree(access'[d], holders[d])
      BY <2>1 DEF TaskSpares, IndexMoves
    <3>2. task[t].pc = "detach" /\ d \in indexed' =>
             \A c \in CcPair : status'[c] = "LIVE" => (c \in access'[d] <=> c \in holders'[d])
      BY <3>1, <2>1, AgreeStays
    <3> QED
      BY <3>2, <2>1 DEF Agree
  <2> QED
    BY <2>3, <2>4, <2>5, <2>6 DEF TaskSpares
<1>2. \A c \in CcPair : BatchSpares(c)'
  <2> SUFFICES ASSUME NEW c \in CcPair, batch'[c] = batch[c] PROVE BatchSpares(c)'
    OBVIOUS
  <2> DEFINE d == batch[c].doc
  <2>1. BatchSpares(c) /\ d \in Document /\ batch[c].access \in SUBSET CcPair
    BY BatchAt DEF Spared
  <2>2. batch'[c].pc \in {"write", "commit"} => Agree(batch[c].access, holders[batch[c].doc])'
    <3>1. batch[c].pc \in {"write", "commit"} =>
             \A o \in CcPair : status'[o] = "LIVE" => (o \in batch[c].access <=> o \in holders'[d])
      BY <2>1, AgreeStays DEF BatchSpares
    <3> QED
      BY <3>1 DEF Agree
  <2>3. status'[c] = "LIVE" /\ batch'[c].pc \in {"lock", "write", "commit"} => c \in holders'[d]
    BY <2>1 DEF BatchSpares, LivePairsStay
  <2>4. status'[c] = "LIVE" /\ batch'[c].pc = "commit" => d \in indexed'
    BY <2>1 DEF BatchSpares, LivePairsStay, IndexMoves, NoneLive
  <2> QED
    BY <2>2, <2>3, <2>4 DEF BatchSpares
<1>3. \A d \in Document : DocSpares(d)'
  <2> TAKE d \in Document
  <2>1. access'[d] \subseteq CcPair /\ DocSpares(d)
    BY DEF Spared, TypeOK
  <2> QED
    BY <2>1 DEF DocSpares, IndexMoves, LivePairsStay, Agree
<1> QED
  BY <1>1, <1>2, <1>3 DEF Spared

\* Nor does a live pair lose what it relies on, if a document counts as synced only
\* when its access is up to date.
LEMMA KeptStays ==
    ASSUME AllKept, TypeOK, LivePairsStay, \A d \in Document : IndexMoves(d),
           \A d \in Document : d \in dirty \ dirty' /\ d \in indexed' => Agree(access'[d], holders[d]),
           \A d \in Document, c \in CcPair : Relies(d, c)' => Relies(d, c) \/ Kept(d, c)'
    PROVE  AllKept'
<1> SUFFICES ASSUME NEW d \in Document, NEW c \in CcPair, Relies(d, c), Relies(d, c)'
             PROVE  Kept(d, c)'
  BY DEF AllKept
<1>1. Kept(d, c) /\ status[c] = "LIVE"
  BY DEF AllKept, Relies
<1>2. c \in holders'[d]
  BY <1>1 DEF Kept, LivePairsStay
<1>3. d \in indexed'
  BY <1>1 DEF Kept, IndexMoves, NoneLive
<1>4. c \in access'[d] \/ d \in dirty'
  BY <1>1, <1>3 DEF Kept, IndexMoves, Agree
<1> QED
  BY <1>2, <1>3, <1>4 DEF Kept

-----------------------------------------------------------------------------
(* Requests, fences, syncs and the beat                                      *)

ClearVars == <<status, batch, fence, beat, gen, task, delivered, holders, sync>>
SpareVars == <<holders, indexed, access, dirty, task, batch>>

LEMMA ClearQuiet == ASSUME Clear, UNCHANGED ClearVars PROVE Clear'
BY DEF Clear, ClearVars, BatchesClear, FencedDeleting, RemovedNotLive, DeliveredLive, SyncsAtOnce,
       TasksFetch, TodoSpares, OneGeneration, IsOutstanding, NoneLive

\* Rows, tasks and batches stay as they are.
LEMMA SpareQuiet ==
    ASSUME Spared, AllKept, TypeOK, TypeOK', UNCHANGED SpareVars,
           \A c \in CcPair : status'[c] = "LIVE" => status[c] = "LIVE",
           delivered' \subseteq delivered
    PROVE  Spared' /\ AllKept'
<1>1. LivePairsStay /\ (\A d \in Document : IndexMoves(d)) /\ (\A t \in TaskId : TaskStays(t))
  BY DEF SpareVars, LivePairsStay, IndexMoves, TaskStays
<1>2. Spared'
  BY <1>1, SparedStays DEF SpareVars
<1>3. \A d \in Document, c \in CcPair : Relies(d, c)' => Relies(d, c)
  BY DEF SpareVars, Relies
<1> QED
  BY <1>1, <1>2, <1>3, KeptStays DEF SpareVars

LEMMA InitSpares == Init => Clear /\ Spared /\ AllKept
<1> SUFFICES ASSUME Init PROVE Clear /\ Spared /\ AllKept
  OBVIOUS
<1>1. /\ \A c \in CcPair : batch[c].pc = "idle" /\ fence[c] = "none"
      /\ \A d \in Document : holders[d] = {} /\ access[d] = {} /\ sync[d].pc = "idle"
      /\ \A t \in TaskId : task[t].pc = "unsent"
      /\ delivered = {} /\ beat.pc = "idle"
  BY DEF Init, NewTask, IdleSync
<1>2. Clear
  BY <1>1 DEF Clear, BatchesClear, FencedDeleting, RemovedNotLive, DeliveredLive, SyncsAtOnce,
              TasksFetch, TodoSpares, OneGeneration, IsOutstanding
<1>3. Spared
  BY <1>1 DEF Spared, TaskSpares, BatchSpares, DocSpares, AtWork
<1>4. AllKept
  BY <1>1 DEF AllKept, Relies
<1> QED
  BY <1>2, <1>3, <1>4

LEMMA PairSpares ==
    ASSUME SInv, TypeOK', Sparing, NEW c \in CcPair, PairStep(c)
    PROVE  Clear' /\ Spared' /\ AllKept'
<1> USE DEF SInv, Clear
<1>t. TypeOK
  BY DEF IInv, TInv
<1>1. CASE RequestDeletion(c)
  <2>1. /\ UNCHANGED <<batch, fence, beat, gen, task, holders, sync>>
        /\ UNCHANGED SpareVars
        /\ status[c] = "LIVE" /\ status'[c] = "DELETING"
        /\ \A o \in CcPair \ {c} : status'[o] = status[o]
        /\ delivered' = {p \in delivered : p[2] # c}
    BY <1>1, <1>t DEF RequestDeletion, cleanupVars, storeVars, SpareVars, TypeOK
  <2>2. \A o \in Sharing(c) : batch[o].pc = "idle" \/ batch[o].doc \notin Yields[c]
    BY <1>1 DEF RequestDeletion, Sparing, May
  <2>3. BatchesClear'
    BY <2>1, <2>2 DEF BatchesClear, Sharing
  <2>4. FencedDeleting' /\ RemovedNotLive' /\ DeliveredLive'
    BY <2>1, <1>t, BeatAt DEF FencedDeleting, RemovedNotLive, DeliveredLive, TypeOK
  <2>5. SyncsAtOnce' /\ TasksFetch' /\ OneGeneration'
    BY <2>1 DEF SyncsAtOnce, TasksFetch, OneGeneration, IsOutstanding
  <2>6. TodoSpares'
    <3>1. \A d \in Document : NoneLive(d) => NoneLive(d)'
      BY <2>1, <1>t DEF NoneLive, TypeOK
    <3> QED
      BY <2>1, <3>1, <1>t, BeatAt DEF TodoSpares
  <2>7. Spared' /\ AllKept'
    BY <2>1, <1>t, SpareQuiet
  <2> QED
    BY <2>3, <2>4, <2>5, <2>6, <2>7
<1>2. CASE Reactivate(c)
  BY <1>2 DEF Reactivate, Sparing, May
<1>3. CASE StartAttempt(c) \/ EndAttempt(c) \/ PruneStart(c) \/ PruneEnd(c)
  <2>1. UNCHANGED ClearVars /\ UNCHANGED SpareVars
    BY <1>3 DEF StartAttempt, EndAttempt, PruneStart, PruneEnd, cleanupVars, storeVars,
                ClearVars, SpareVars
  <2>2. status' = status /\ delivered' = delivered
    BY <2>1 DEF ClearVars
  <2> QED
    BY <2>1, <2>2, <1>t, ClearQuiet, SpareQuiet
<1> QED
  BY <1>1, <1>2, <1>3 DEF PairStep

LEMMA SyncSpares ==
    ASSUME SInv, TypeOK', Sparing, NEW d \in Document, SyncStep(d)
    PROVE  Clear' /\ Spared' /\ AllKept'
<1>t. TypeOK
  BY DEF SInv, IInv, TInv
<1>1. SyncAtOnce(d)
  BY DEF SyncStep, SyncRead, SyncWrite, SyncMark, Sparing, May, SInv, Clear, SyncsAtOnce
<1>2. /\ access' = IF d \in indexed THEN [access EXCEPT ![d] = AccessFor(d)] ELSE access
      /\ dirty' = dirty \ {d}
      /\ UNCHANGED <<status, batch, holders, indexed, delivered, task>>
  BY <1>1 DEF SyncAtOnce
<1>3. Clear'
  BY <1>1, ClearQuiet DEF SInv, SyncAtOnce, ClearVars, cleanupVars
<1>4. LivePairsStay /\ \A t \in TaskId : TaskStays(t)
  BY <1>2 DEF LivePairsStay, TaskStays
<1>5. Agree(AccessFor(d), holders[d])
  BY <1>t DEF Agree, AccessFor, TypeOK
<1>6. \A e \in Document : IndexMoves(e)
  BY <1>2, <1>5, <1>t DEF IndexMoves, TypeOK
<1>7. Spared'
  BY <1>2, <1>4, <1>6, <1>t, SparedStays DEF SInv
<1>8. \A e \in Document : e \in dirty \ dirty' /\ e \in indexed' => Agree(access'[e], holders[e])
  BY <1>2, <1>5, <1>t DEF TypeOK
<1>9. \A e \in Document, c \in CcPair : Relies(e, c)' => Relies(e, c)
  BY <1>2 DEF Relies
<1> QED
  BY <1>3, <1>4, <1>6, <1>7, <1>8, <1>9, <1>t, KeptStays DEF SInv

LEMMA FenceSpares ==
    ASSUME SInv, TypeOK', NEW c \in CcPair, FenceStep(c)
    PROVE  Clear' /\ Spared' /\ AllKept'
<1> USE DEF SInv, Clear
<1>t. TypeOK
  BY DEF IInv, TInv
<1>1. UNCHANGED SpareVars /\ UNCHANGED <<status, delivered, gen, sync, batch, holders, task>>
  BY DEF FenceStep, SetFence, StopTimesOut, DropStop, StartOver, NothingLeft, Renew, Abandon,
         ActiveExpires, SpareVars, storeVars
<1>2. Spared' /\ AllKept'
  BY <1>1, <1>t, SpareQuiet
<1>3. BatchesClear' /\ DeliveredLive' /\ SyncsAtOnce' /\ OneGeneration'
  BY <1>1 DEF BatchesClear, DeliveredLive, SyncsAtOnce, OneGeneration, IsOutstanding
<1>4. FencedDeleting' /\ RemovedNotLive' /\ TasksFetch' /\ TodoSpares'
  <2>1. CASE SetFence(c)
    <3>1. /\ fence' = [fence EXCEPT ![c] = "setup"] /\ status[c] = "DELETING" /\ beat'.pc = "depend"
      BY <2>1, <1>t DEF SetFence, TypeOK, Beat
    <3> QED
      BY <3>1, <1>1, <1>t DEF FencedDeleting, RemovedNotLive, TasksFetch, TodoSpares, IsOutstanding,
                              TypeOK
  <2>2. CASE NothingLeft(c)
    <3>1. fence' = fence /\ fence[c] = "ready" /\ beat'.pc = "remove" /\ beat'.pair = c
      BY <2>2, <1>t DEF NothingLeft, TasksDone, TypeOK, Beat
    <3> QED
      BY <3>1, <1>1, <1>t DEF FencedDeleting, RemovedNotLive, TasksFetch, TodoSpares, IsOutstanding
  <2>3. CASE ~SetFence(c) /\ ~NothingLeft(c)
    <3>1. beat' = beat /\ \A o \in CcPair : fence'[o] \in {fence[o], "none"}
      BY <2>3, <1>t DEF FenceStep, StopTimesOut, DropStop, StartOver, Renew, Abandon,
                        ActiveExpires, ResetFence, TypeOK
    <3> QED
      BY <3>1, <1>1 DEF FencedDeleting, RemovedNotLive, TasksFetch, TodoSpares, IsOutstanding, NoneLive
  <2> QED
    BY <2>1, <2>2, <2>3
<1> QED
  BY <1>2, <1>3, <1>4

LEMMA BeatSpares ==
    ASSUME SInv, TypeOK', BeatStep
    PROVE  Clear' /\ Spared' /\ AllKept'
<1> USE DEF SInv, Clear
<1> DEFINE c == beat.pair
<1>t. TypeOK /\ c \in CcPair /\ beat.doc \in Document /\ beat.todo \in SUBSET Document
  BY BeatAt DEF IInv, TInv
<1>g. ASSUME NEW pc \in BeatPc, BeatGoto(pc)
      PROVE  /\ beat'.pc = pc /\ beat'.pair = beat.pair
             /\ beat'.doc = beat.doc /\ beat'.todo = beat.todo
  BY <1>g, <1>t DEF BeatGoto, TypeOK, Beat
<1>p. {"idle", "track", "reset"} \subseteq BeatPc
  BY DEF BeatPc
<1>1. CASE ~Send /\ ~RemovePair
  <2>1. UNCHANGED SpareVars /\ UNCHANGED <<status, delivered, sync, batch, holders, task>>
    BY <1>1 DEF BeatStep, Blocked, Collect, Track, Arm, GenerationFails, BeatDies, ClearFence,
                SpareVars, storeVars
  <2>2. Spared' /\ AllKept'
    BY <2>1, <1>t, SpareQuiet
  <2>3. BatchesClear' /\ DeliveredLive' /\ SyncsAtOnce'
    BY <2>1 DEF BatchesClear, DeliveredLive, SyncsAtOnce
  <2>4. FencedDeleting' /\ RemovedNotLive' /\ TasksFetch' /\ TodoSpares' /\ OneGeneration'
    <3>1. CASE Blocked \/ GenerationFails \/ BeatDies \/ ClearFence
      <4>1. /\ beat'.pc = "idle" /\ gen' = gen
            /\ \A o \in CcPair : fence'[o] \in {fence[o], "none"}
        BY <3>1, <1>g, <1>p, <1>t DEF Blocked, GenerationFails, BeatDies, ClearFence, ResetFence,
                                      TypeOK
      <4> QED
        BY <4>1, <2>1 DEF FencedDeleting, RemovedNotLive, TasksFetch, TodoSpares, OneGeneration,
                          IsOutstanding
    <3>2. CASE Collect
      <4>1. /\ beat.pc = "depend" /\ beat'.pc = "track" /\ beat'.pair = c /\ fence' = fence
            /\ beat'.todo = {d \in Document : c \in holders[d]}
            /\ \A o \in CcPair \ {c} : gen'[o] = gen[o]
        BY <3>2, <1>t DEF Collect, TypeOK, Beat
      <4>2. OneGeneration'
        <5>1. NoneOut(c)
          BY <4>1 DEF IInv, Accounted, BeatOnPair
        <5> QED
          BY <4>1, <5>1, <2>1, IdParts DEF OneGeneration, NoneOut, IsOutstanding
      <4> QED
        BY <4>1, <4>2, <2>1 DEF FencedDeleting, RemovedNotLive, TasksFetch, TodoSpares, IsOutstanding
    <3>3. ASSUME NEW d \in Document, Track(d)
          PROVE  FencedDeleting' /\ RemovedNotLive' /\ TasksFetch' /\ TodoSpares' /\ OneGeneration'
      <4>1. /\ beat.pc = "track" /\ d \in beat.todo /\ fence' = fence /\ gen' = gen
            /\ beat'.pc = "send" /\ beat'.pair = c /\ beat'.doc = d /\ beat'.todo = beat.todo \ {d}
        BY <3>3, <1>t DEF Track, TypeOK, Beat
      <4> QED
        BY <4>1, <2>1 DEF FencedDeleting, RemovedNotLive, TasksFetch, TodoSpares, OneGeneration,
                          IsOutstanding, NoneLive
    <3>4. CASE Arm
      <4>1. /\ beat.pc = "track" /\ beat'.pc = "idle" /\ fence' = [fence EXCEPT ![c] = "ready"]
            /\ gen' = gen /\ status[c] = "DELETING"
        BY <3>4, <1>g, <1>p DEF Arm, IInv, Accounted, BeatOnPair
      <4> QED
        BY <4>1, <2>1, <1>t DEF FencedDeleting, RemovedNotLive, TasksFetch, TodoSpares, OneGeneration,
                                IsOutstanding, TypeOK
    <3> QED
      BY <1>1, <3>1, <3>2, <3>3, <3>4 DEF BeatStep
  <2> QED
    BY <2>2, <2>3, <2>4
<1>2. CASE Send
  <2>1. /\ beat.pc = "send" /\ beat'.pc = "track" /\ beat'.pair = c /\ beat'.todo = beat.todo
        /\ UNCHANGED <<status, delivered, sync, batch, holders, gen, fence, indexed, access, dirty>>
    BY <1>2, <1>g, <1>p DEF Send, storeVars
  <2>2. PICK t \in TaskId : /\ t = NewId(c, beat.doc)
                            /\ PairOf(t) = c /\ DocOf(t) = beat.doc /\ t[3] = gen[c]
    BY <2>1, <1>t, NewIdType DEF IInv, NewId, DocOf
  <2>3. (\A u \in TaskId \ {t} : task'[u] = task[u]) /\ task'[t].pc = "queued"
    BY <1>2, <1>t, <2>2 DEF Send, Goto, TypeOK, Task
  <2>4. BatchesClear' /\ DeliveredLive' /\ SyncsAtOnce' /\ FencedDeleting' /\ RemovedNotLive'
    BY <2>1 DEF BatchesClear, DeliveredLive, SyncsAtOnce, FencedDeleting, RemovedNotLive
  <2>5. TasksFetch' /\ OneGeneration'
    BY <2>1, <2>2, <2>3 DEF TasksFetch, OneGeneration, IsOutstanding
  <2>6. TodoSpares'
    BY <2>1 DEF TodoSpares, NoneLive
  <2>7. LivePairsStay /\ \A d \in Document : IndexMoves(d)
    BY <2>1 DEF LivePairsStay, IndexMoves
  <2>8. \A u \in TaskId : TaskStays(u) \/ TaskSpares(u)'
    <3>1. TaskSpares(t)'
      BY <2>1, <2>2, <2>3 DEF TaskSpares, AtWork, TodoSpares, NoneLive
    <3> QED
      BY <3>1, <2>1, <2>3 DEF TaskStays
  <2>9. Spared'
    BY <2>1, <2>7, <2>8, <1>t, SparedStays
  <2>10. AllKept'
    <3>1. \A d \in Document, o \in CcPair : Relies(d, o)' => Relies(d, o)
      BY <2>1 DEF Relies
    <3> QED
      BY <3>1, <2>1, <2>7, <1>t, KeptStays
  <2> QED
    BY <2>4, <2>5, <2>6, <2>9, <2>10
<1>3. CASE RemovePair
  <2>1. /\ beat.pc = "remove" /\ beat'.pc = "reset"
        /\ holders' = [d \in Document |-> holders[d] \ {c}]
        /\ status' = [status EXCEPT ![c] = "DELETED"]
        /\ UNCHANGED <<batch, delivered, sync, fence, gen, task, indexed, access, dirty>>
    BY <1>3, <1>g, <1>p DEF RemovePair
  <2>2. status[c] # "LIVE" /\ NoneOut(c)
    BY <2>1 DEF RemovedNotLive, IInv, Accounted, BeatOnPair
  <2>3. LivePairsStay /\ \A d \in Document : IndexMoves(d)
    BY <2>1, <2>2, <1>t DEF LivePairsStay, IndexMoves, TypeOK
  <2>4. \A t \in TaskId : TaskStays(t)
    <3>1. \A t \in TaskId : AtWork(t) => PairOf(t) # c /\ DocOf(t) \in Document
      BY <2>2, IdParts, ClearWorker DEF NoneOut
    <3> QED
      BY <2>1, <3>1, IdParts DEF TaskStays
  <2>5. Spared'
    BY <2>1, <2>3, <2>4, <1>t, SparedStays
  <2>6. \A d \in Document, o \in CcPair : Relies(d, o)' => Relies(d, o)
    BY <2>1, <2>3 DEF Relies, LivePairsStay
  <2>7. AllKept'
    BY <2>1, <2>3, <2>6, <1>t, KeptStays
  <2>8. BatchesClear' /\ FencedDeleting' /\ SyncsAtOnce'
    BY <2>1, <1>t DEF BatchesClear, FencedDeleting, SyncsAtOnce, TypeOK
  <2>9. DeliveredLive' /\ RemovedNotLive'
    BY <2>1, <2>2, <1>t DEF DeliveredLive, RemovedNotLive, TypeOK
  <2>10. TasksFetch' /\ TodoSpares' /\ OneGeneration'
    BY <2>1 DEF TasksFetch, TodoSpares, OneGeneration, IsOutstanding
  <2> QED
    BY <2>5, <2>7, <2>8, <2>9, <2>10
<1> QED
  BY <1>1, <1>2, <1>3

-----------------------------------------------------------------------------
(* Batches and cleanup tasks                                                 *)

LEMMA BatchClear ==
    ASSUME SInv, TypeOK', Sparing, NEW c \in CcPair, BatchStep(c)
    PROVE  Clear'
<1> USE DEF SInv, Clear
<1>t. TypeOK
  BY DEF IInv, TInv
<1>1. /\ UNCHANGED <<status, fence, beat, gen, task, sync>>
      /\ \A o \in CcPair \ {c} : batch'[o] = batch[o]
      /\ \A d \in Document : holders'[d] \in {holders[d], holders[d] \cup {c}}
      /\ \A d \in Document : holders'[d] # holders[d] =>
            batch[c].doc = d /\ batch[c].pc # "idle"
      /\ \A p \in delivered' : p \in delivered \/ (p[2] = c /\ status[c] = "LIVE")
      /\ \/ \E d \in Document : StartBatch(c, d) /\ batch'[c].doc = d
         \/ batch[c].pc # "idle" /\ batch'[c].doc = batch[c].doc
  BY <1>t, BatchEffect
<1>2. BatchesClear'
  <2>1. ASSUME NEW d \in Document, StartBatch(c, d), batch'[c].doc = d PROVE BatchesClear'
    <3>1. d \in Yields[c] /\ \A o \in CcPair \ {c} : d \in Yields[o] => status[o] # "DELETING"
      BY <2>1 DEF StartBatch, Sparing, May
    <3> QED
      BY <1>1, <2>1, <3>1 DEF BatchesClear
  <2>2. CASE batch[c].pc # "idle" /\ batch'[c].doc = batch[c].doc
    BY <1>1, <2>2 DEF BatchesClear
  <2> QED
    BY <1>1, <2>1, <2>2
<1>3. FencedDeleting' /\ RemovedNotLive' /\ SyncsAtOnce' /\ OneGeneration'
  BY <1>1 DEF FencedDeleting, RemovedNotLive, SyncsAtOnce, OneGeneration, IsOutstanding
<1>4. DeliveredLive'
  BY <1>1, <1>t DEF DeliveredLive
<1>5. TasksFetch'
  BY <1>1 DEF TasksFetch, IsOutstanding, BatchesClear
<1>6. TodoSpares'
  <2>1. beat.pc \in {"track", "send"} => status[beat.pair] = "DELETING"
    BY DEF IInv, Accounted, BeatOnPair
  <2>2. ASSUME NEW d \in Document, beat.pc \in {"track", "send"},
               d \in beat.todo \/ (beat.pc = "send" /\ d = beat.doc),
               beat.pair \in holders[d] \/ NoneLive(d)
        PROVE  beat.pair \in holders'[d] \/ NoneLive(d)'
    <3>1. holders'[d] # holders[d] => c = beat.pair
      BY <1>1, <2>2, OwnBatchTodo
    <3> QED
      BY <1>1, <2>1, <2>2, <3>1 DEF NoneLive
  <2> QED
    BY <1>1, <1>t, <2>2, BeatAt DEF TodoSpares
<1> QED
  BY <1>2, <1>3, <1>4, <1>5, <1>6

LEMMA BatchStepSpares ==
    ASSUME SInv, TypeOK', Sparing, NEW c \in CcPair, BatchStep(c)
    PROVE  Clear' /\ Spared' /\ AllKept'
<1> DEFINE d == batch[c].doc
<1>t. TypeOK /\ d \in Document /\ batch[c] \in Batch
  BY BatchAt DEF SInv, IInv, TInv, TypeOK
<1>b. BatchSpares(c) /\ Spared /\ AllKept
  BY DEF SInv, Spared
<1>u. /\ UNCHANGED <<status, task>>
      /\ \A o \in CcPair \ {c} : batch'[o] = batch[o]
  BY <1>t, BatchEffect
<1>c. Clear'
  BY BatchClear
<1> SUFFICES Spared' /\ AllKept'
  BY <1>c
<1>h. ASSUME holders' = holders, \A e \in Document : IndexMoves(e), dirty \subseteq dirty',
             BatchSpares(c)',
             \A e \in Document, o \in CcPair : Relies(e, o)' => Relies(e, o) \/ Kept(e, o)'
      PROVE  Spared' /\ AllKept'
  <2>1. LivePairsStay /\ \A t \in TaskId : TaskStays(t)
    BY <1>h, <1>u DEF LivePairsStay, TaskStays
  <2>2. Spared'
    BY <1>h, <1>u, <1>b, <1>t, <2>1, SparedStays
  <2> QED
    BY <1>h, <1>b, <1>t, <2>1, <2>2, KeptStays
<1>1. ASSUME NEW e \in Document, StartBatch(c, e) PROVE Spared' /\ AllKept'
  <2>1. /\ UNCHANGED <<holders, indexed, access, delivered>> /\ dirty \subseteq dirty'
        /\ batch'[c].pc \in {"relate", "relateOnly"}
    BY <1>1, <1>t DEF StartBatch, Upsert, Skip, TypeOK
  <2>2. (\A f \in Document : IndexMoves(f)) /\ BatchSpares(c)'
    BY <2>1 DEF IndexMoves, BatchSpares
  <2>3. ASSUME NEW f \in Document, NEW o \in CcPair, Relies(f, o)', ~Relies(f, o)
        PROVE  Kept(f, o)'
    <3>1. o = c /\ batch'[c].pc = "relateOnly" /\ batch'[c].doc = f /\ status[c] = "LIVE"
      BY <1>u, <2>1, <2>3 DEF Relies
    <3>2. f = e /\ c \in access[e]
      BY <1>1, <3>1, <1>t DEF StartBatch, Upsert, Skip, May, Sparing, TypeOK
    <3>3. DocSpares(e)
      BY <1>b DEF Spared
    <3> QED
      BY <2>1, <3>1, <3>2, <3>3 DEF Kept, DocSpares
  <2> QED
    BY <2>1, <2>2, <2>3, <1>h
<1>2. CASE Relate(c)
  <2>1. /\ holders' = [holders EXCEPT ![d] = @ \cup {c}] /\ ~Locked(d) /\ batch[c].pc # "idle"
        /\ batch'[c].doc = d /\ batch'[c].pc \in {"lock", "idle"}
        /\ UNCHANGED <<indexed, access, dirty>>
        /\ delivered' = delivered \/ (batch[c].pc = "relateOnly" /\ Deliver(c, d))
    BY <1>2, <1>t DEF Relate, BatchGoto, TypeOK, Batch
  <2>2. BatchSpares(c)'
    BY <2>1, <1>t DEF BatchSpares, TypeOK
  <2>3. \A e \in Document, o \in CcPair : Relies(e, o)' => Relies(e, o)
    BY <1>u, <2>1 DEF Relies, Deliver
  <2>4. CASE status[c] # "LIVE"
    <3>1. LivePairsStay /\ (\A t \in TaskId : TaskStays(t)) /\ (\A e \in Document : IndexMoves(e))
      BY <2>1, <2>4, <1>u, <1>t, IdParts DEF LivePairsStay, TaskStays, IndexMoves, TypeOK
    <3>2. Spared'
      BY <3>1, <2>2, <1>u, <1>b, <1>t, SparedStays
    <3> QED
      BY <3>1, <3>2, <2>1, <2>3, <1>b, <1>t, KeptStays
  <2>5. CASE status[c] = "LIVE"
    <3>1. \A e \in Document \ {d} : holders'[e] = holders[e]
      BY <2>1, <1>t DEF TypeOK
    <3>2. c \in holders'[d] /\ holders[d] \subseteq holders'[d]
      BY <2>1, <1>t DEF TypeOK
    <3>3. \A t \in TaskId : TaskSpares(t)'
      <4> TAKE t \in TaskId
      <4>1. CASE AtWork(t)
        <5>1. DocOf(t) \in Document \ {d}
          BY <4>1, <2>1, <2>5, OwnBatch, ClearWorker, IdParts
        <5> QED
          BY <5>1, <3>1, <2>1, <1>u, <1>b DEF Spared, TaskSpares, AtWork, Agree, NoneLive
      <4>2. CASE ~AtWork(t)
        BY <4>2, <1>u DEF TaskSpares, AtWork
      <4> QED
        BY <4>1, <4>2
    <3>4. \A o \in CcPair : BatchSpares(o)'
      <4> TAKE o \in CcPair
      <4>0. batch[o].doc \in Document /\ BatchSpares(o)
        BY <1>t, <1>b, BatchAt DEF Spared
      <4>1. CASE o = c
        BY <4>1, <2>2
      <4>2. CASE o # c /\ batch[o].doc = d
        BY <4>0, <4>2, <1>u, <2>1, <3>2 DEF BatchSpares, Locked
      <4>3. CASE o # c /\ batch[o].doc # d
        BY <4>0, <4>3, <1>u, <2>1, <3>1 DEF BatchSpares, Agree
      <4> QED
        BY <4>1, <4>2, <4>3
    <3>5. \A e \in Document : DocSpares(e)'
      BY <2>1, <1>u, <3>1, <3>2, <1>b DEF Spared, DocSpares
    <3>6. \A e \in Document, o \in CcPair : Kept(e, o) => Kept(e, o)'
      BY <2>1, <3>1, <3>2 DEF Kept
    <3> QED
      BY <3>3, <3>4, <3>5, <3>6, <2>3, <1>b DEF Spared, AllKept
  <2> QED
    BY <2>4, <2>5
<1>3. CASE Lock(c)
  <2>1. /\ batch'[c].pc = "write" /\ batch'[c].doc = d /\ batch'[c].access = AccessFor(d)
        /\ batch[c].pc = "lock" /\ UNCHANGED <<holders, indexed, access, dirty, delivered>>
    BY <1>3, <1>t DEF Lock, TypeOK, Batch, storeVars
  <2>2. Agree(AccessFor(d), holders[d])
    BY <1>t DEF Agree, AccessFor, TypeOK
  <2>3. Agree(batch'[c].access, holders'[d])
    BY <2>1, <2>2
  <2>4. BatchSpares(c)'
    BY <2>1, <2>3, <1>u, <1>b DEF BatchSpares, Agree
  <2>5. \A e \in Document : IndexMoves(e)
    BY <2>1 DEF IndexMoves
  <2>6. \A e \in Document, o \in CcPair : Relies(e, o)' => Relies(e, o)
    BY <1>u, <2>1 DEF Relies
  <2> QED
    BY <2>1, <2>4, <2>5, <2>6, <1>h
<1>4. CASE Write(c)
  <2>1. /\ batch[c].pc = "write"
        /\ batch'[c].pc = "commit" /\ batch'[c].doc = d /\ batch'[c].access = batch[c].access
        /\ indexed' = indexed \cup {d} /\ access' = [access EXCEPT ![d] = batch[c].access]
        /\ UNCHANGED <<holders, dirty, delivered>>
    BY <1>4, <1>t DEF Write, BatchGoto, TypeOK, Batch
  <2>2. Agree(batch[c].access, holders[d]) /\ (status[c] = "LIVE" => c \in holders[d])
    BY <2>1, <1>b DEF BatchSpares
  <2>3. BatchSpares(c)'
    BY <2>1, <2>2, <1>u DEF BatchSpares, Agree
  <2>4. \A e \in Document : IndexMoves(e)
    BY <2>1, <2>2, <1>t DEF IndexMoves, TypeOK
  <2>5. \A e \in Document, o \in CcPair : Relies(e, o)' => Relies(e, o)
    BY <1>u, <2>1 DEF Relies
  <2> QED
    BY <2>1, <2>3, <2>4, <2>5, <1>h
<1>5. CASE Commit(c)
  <2>1. /\ batch[c].pc = "commit" /\ batch'[c].pc = "idle"
        /\ dirty' = dirty \cup {d} /\ Deliver(c, d)
        /\ UNCHANGED <<holders, indexed, access>>
    BY <1>5, <1>t DEF Commit, BatchGoto, TypeOK, Batch
  <2>2. (\A e \in Document : IndexMoves(e)) /\ BatchSpares(c)'
    BY <2>1 DEF IndexMoves, BatchSpares
  <2>3. ASSUME NEW f \in Document, NEW o \in CcPair, Relies(f, o)', ~Relies(f, o)
        PROVE  Kept(f, o)'
    <3>1. f = d /\ o = c /\ status[c] = "LIVE"
      BY <1>u, <2>1, <2>3 DEF Relies, Deliver
    <3> QED
      BY <3>1, <2>1, <1>b DEF BatchSpares, Kept
  <2> QED
    BY <2>1, <2>2, <2>3, <1>h
<1>6. CASE BatchFails(c)
  <2>1. batch'[c].pc = "idle" /\ UNCHANGED <<holders, indexed, access, dirty, delivered>>
    BY <1>6, <1>t DEF BatchFails, BatchGoto, TypeOK, Batch, storeVars
  <2>2. (\A e \in Document : IndexMoves(e)) /\ BatchSpares(c)'
    BY <2>1 DEF IndexMoves, BatchSpares
  <2>3. \A e \in Document, o \in CcPair : Relies(e, o)' => Relies(e, o)
    BY <1>u, <2>1 DEF Relies
  <2> QED
    BY <2>1, <2>2, <2>3, <1>h
<1> QED
  BY <1>1, <1>2, <1>3, <1>4, <1>5, <1>6 DEF BatchStep

LEMMA TaskClear ==
    ASSUME SInv, TypeOK', Sparing, NEW t \in TaskId, TaskStep(t), LivePairsStay,
           \A d \in Document : holders[d] \ holders'[d] \subseteq {PairOf(t)} \/ NoneLive(d)
    PROVE  Clear'
<1> USE DEF SInv, Clear
<1>t. TypeOK
  BY DEF IInv, TInv
<1>1. /\ UNCHANGED <<status, batch, fence, beat, gen, delivered, sync>>
      /\ IsOutstanding(t)
      /\ \A u \in TaskId \ {t} : task'[u] = task[u]
      /\ \A d \in Document : holders'[d] \subseteq holders[d]
      /\ \A d \in Document : holders'[d] # holders[d] => AtWork(t) /\ d = DocOf(t)
  BY <1>t, SparingOrderly, TaskEffect
<1>2. BatchesClear' /\ FencedDeleting' /\ RemovedNotLive' /\ DeliveredLive' /\ SyncsAtOnce'
  BY <1>1 DEF BatchesClear, FencedDeleting, RemovedNotLive, DeliveredLive, SyncsAtOnce
<1>3. TasksFetch' /\ OneGeneration'
  <2>1. \A u \in TaskId : IsOutstanding(u)' => IsOutstanding(u)
    BY <1>1 DEF IsOutstanding
  <2> QED
    BY <1>1, <2>1 DEF TasksFetch, OneGeneration
<1>4. TodoSpares'
  <2>1. ASSUME NEW d \in Document, beat.pc \in {"track", "send"},
               d \in beat.todo \/ (beat.pc = "send" /\ d = beat.doc),
               beat.pair \in holders[d] \/ NoneLive(d)
        PROVE  beat.pair \in holders'[d] \/ NoneLive(d)'
    <3>1. NoneLive(d) => NoneLive(d)'
      BY AgreeStays
    <3>2. holders'[d] # holders[d] => PairOf(t) # beat.pair
      BY <1>1, <2>1, NoTodoOfPair
    <3> QED
      BY <2>1, <3>1, <3>2, <1>1
  <2> QED
    BY <1>1, <1>t, <2>1, BeatAt DEF TodoSpares
<1> QED
  BY <1>2, <1>3, <1>4

LEMMA TaskStepSpares ==
    ASSUME SInv, TypeOK', Sparing, NEW t \in TaskId, TaskStep(t)
    PROVE  Clear' /\ Spared' /\ AllKept'
<1> DEFINE d == DocOf(t)
           x == PairOf(t)
<1>t. TypeOK /\ d \in Document /\ x \in CcPair /\ task[t] \in Task
  BY IdParts DEF SInv, IInv, TInv, TypeOK
<1>r. TaskSpares(t) /\ DocSpares(d) /\ Spared /\ AllKept
  BY <1>t DEF SInv, Spared
<1>u. /\ UNCHANGED <<status, batch, delivered>>
      /\ \A u \in TaskId \ {t} : task'[u] = task[u]
      /\ \A e \in Document : holders'[e] # holders[e] => AtWork(t) /\ e = d
  BY <1>t, SparingOrderly, TaskEffect
<1>w. AtWork(t) => status[x] = "DELETING"
  BY ClearWorker
\* It suffices that only x, or no live pair, leaves the document.
<1>d. ASSUME holders[d] \ holders'[d] \subseteq {x} \/ NoneLive(d),
             \A e \in Document : holders'[e] \subseteq holders[e],
             \A e \in Document : IndexMoves(e),
             \A e \in Document : e \in dirty \ dirty' /\ e \in indexed' => Agree(access'[e], holders[e]),
             LivePairsStay => TaskSpares(t)'
      PROVE  Clear' /\ Spared' /\ AllKept'
  <2>1. LivePairsStay
    BY <1>d, <1>u, <1>w DEF LivePairsStay, NoneLive
  <2>2. \A u \in TaskId \ {t} : TaskStays(u)
    <3> SUFFICES ASSUME NEW u \in TaskId \ {t}, PairOf(u) \in holders[DocOf(u)] \ holders'[DocOf(u)],
                        AtWork(u)
                 PROVE  NoneLive(DocOf(u))
      BY <1>u DEF TaskStays
    <3>1. AtWork(t) /\ DocOf(u) = d
      BY <1>u, IdParts
    <3>2. PairOf(u) # x
      BY <3>1, OneTaskOfPair
    <3> QED
      BY <3>1, <3>2, <1>d
  <2>3. Spared'
    BY <1>d, <1>t, <1>r, <1>u, <2>1, <2>2, SparedStays
  <2>4. \A e \in Document, c \in CcPair : Relies(e, c)' => Relies(e, c)
    BY <1>u DEF Relies
  <2>5. AllKept'
    BY <1>d, <1>t, <1>r, <2>1, <2>4, KeptStays
  <2>6. Clear'
    BY <1>d, <1>u, <2>1, TaskClear
  <2> QED
    BY <2>3, <2>5, <2>6
<1>i. ASSUME UNCHANGED <<holders, indexed, access, dirty>>, TaskSpares(t)'
      PROVE  Clear' /\ Spared' /\ AllKept'
  <2>1. \A e \in Document : IndexMoves(e)
    BY <1>i DEF IndexMoves
  <2> QED
    BY <2>1, <1>i, <1>d
<1>1. CASE Pickup(t)
  <2>1. /\ AtWork(t) /\ UNCHANGED <<holders, indexed, access, dirty>>
        /\ task'[t] = IF SingleHolder(d) THEN [task[t] EXCEPT !.pc = "delete"]
                      ELSE IF holders[d] = {} THEN [task[t] EXCEPT !.pc = "post"]
                      ELSE [task[t] EXCEPT !.pc = "update", !.access = AccessFor(d)]
    BY <1>1, <1>t DEF Pickup, AtWork, storeVars, TypeOK
  <2>2. x \in holders[d] \/ NoneLive(d)
    BY <2>1, <1>r DEF TaskSpares
  <2>3. CASE SingleHolder(d)
    <3>1. task'[t].pc = "delete"
      BY <2>1, <2>3, <1>t DEF Task
    <3>2. NoneLive(d)
      BY <2>1, <2>2, <2>3, <1>w DEF SingleHolder, NoneLive
    <3> QED
      BY <2>1, <3>1, <3>2, <1>i, <1>u DEF TaskSpares, NoneLive
  <2>4. CASE ~SingleHolder(d) /\ holders[d] = {}
    <3>1. task'[t].pc = "post"
      BY <2>1, <2>4, <1>t DEF Task
    <3> QED
      BY <2>1, <3>1, <1>i DEF TaskSpares, AtWork
  <2>5. CASE ~SingleHolder(d) /\ holders[d] # {}
    <3>1. task'[t].pc = "update" /\ task'[t].access = AccessFor(d)
      BY <2>1, <2>5, <1>t DEF Task
    <3>2. Agree(AccessFor(d), holders[d])
      BY <1>t DEF Agree, AccessFor, TypeOK
    <3>3. Agree(task[t].access, holders[d])'
      BY <3>1, <3>2, <2>1, <1>u DEF Agree
    <3> QED
      BY <2>1, <2>2, <3>1, <3>3, <1>i, <1>u DEF TaskSpares, NoneLive
  <2> QED
    BY <2>3, <2>4, <2>5
<1>2. CASE IndexDelete(t)
  <2>1. /\ task[t].pc = "delete" /\ task'[t].pc = "forget"
        /\ indexed' = indexed \ {d} /\ access' = [access EXCEPT ![d] = {}]
        /\ holders' = holders /\ dirty' = dirty
    BY <1>2, <1>t DEF IndexDelete, Goto, TypeOK, Task
  <2>2. NoneLive(d)
    BY <2>1, <1>r DEF TaskSpares
  <2>3. \A e \in Document : IndexMoves(e)
    BY <2>1, <2>2, <1>t DEF IndexMoves, TypeOK
  <2>4. TaskSpares(t)'
    BY <2>1, <2>2, <1>u DEF TaskSpares, NoneLive
  <2> QED
    BY <2>1, <2>3, <2>4, <1>d
<1>3. CASE IndexUpdate(t)
  <2>1. /\ task[t].pc = "update" /\ task'[t].pc = "detach"
        /\ access' = IF d \in indexed THEN [access EXCEPT ![d] = task[t].access] ELSE access
        /\ holders' = holders /\ indexed' = indexed /\ dirty' = dirty
    BY <1>3, <1>t DEF IndexUpdate, Goto, TypeOK, Task
  <2>2. Agree(task[t].access, holders[d]) /\ (x \in holders[d] \/ NoneLive(d))
    BY <2>1, <1>r DEF TaskSpares, AtWork
  <2>3. \A e \in Document : IndexMoves(e)
    BY <2>1, <2>2, <1>t DEF IndexMoves, TypeOK
  <2>4. d \in indexed => Agree(access'[d], holders[d])
    BY <2>1, <2>2, <1>t DEF TypeOK
  <2>5. d \in indexed => Agree(access[d], holders[d])'
    BY <2>1, <2>4, <1>u DEF Agree
  <2>6. TaskSpares(t)'
    BY <2>1, <2>2, <2>5, <1>u DEF TaskSpares, NoneLive
  <2> QED
    BY <2>1, <2>3, <2>6, <1>d
<1>4. CASE Forget(t)
  <2>1. /\ task[t].pc = "forget" /\ task'[t].pc = "post"
        /\ holders' = [holders EXCEPT ![d] = {}] /\ dirty' = dirty \ {d}
        /\ access' = access /\ indexed' = indexed
    BY <1>4, <1>t DEF Forget, Goto, TypeOK, Task
  <2>2. NoneLive(d)
    BY <2>1, <1>r DEF TaskSpares
  <2>3. (\A e \in Document : IndexMoves(e)) /\ TaskSpares(t)'
    BY <2>1 DEF IndexMoves, TaskSpares, AtWork
  <2>4. \A e \in Document : holders'[e] \subseteq holders[e]
    BY <2>1, <1>t DEF TypeOK
  <2>5. Agree(access[d], holders[d])
    BY <2>2, <1>r DEF DocSpares, NoneLive, Agree
  <2> QED
    BY <2>1, <2>2, <2>3, <2>4, <2>5, <1>d
<1>5. CASE Detach(t)
  <2>1. /\ task[t].pc = "detach" /\ task'[t].pc = "post"
        /\ holders' = [holders EXCEPT ![d] = @ \ {x}] /\ dirty' = dirty \ {d}
        /\ access' = access /\ indexed' = indexed
    BY <1>5, <1>t DEF Detach, Goto, TypeOK, Task
  <2>2. (\A e \in Document : IndexMoves(e)) /\ TaskSpares(t)'
    BY <2>1 DEF IndexMoves, TaskSpares, AtWork
  <2>3. holders[d] \ holders'[d] \subseteq {x} /\ \A e \in Document : holders'[e] \subseteq holders[e]
    BY <2>1, <1>t DEF TypeOK
  <2>4. d \in indexed => Agree(access[d], holders[d])
    BY <2>1, <1>r DEF TaskSpares
  <2> QED
    BY <2>1, <2>2, <2>3, <2>4, <1>d
<1>6. CASE LastRetry(t)
  <2>1. /\ task'[t].pc = "post" /\ indexed' = indexed /\ access' = access
        /\ dirty \subseteq dirty'
        /\ holders' = holders \/ holders' = [holders EXCEPT ![d] = @ \ {x}]
    BY <1>6, <1>t DEF LastRetry, Goto, TypeOK, Task
  <2>2. (\A e \in Document : IndexMoves(e)) /\ TaskSpares(t)'
    BY <2>1 DEF IndexMoves, TaskSpares, AtWork
  <2>3. holders[d] \ holders'[d] \subseteq {x} /\ \A e \in Document : holders'[e] \subseteq holders[e]
    BY <2>1, <1>t DEF TypeOK
  <2> QED
    BY <2>1, <2>2, <2>3, <1>d
<1>7. CASE Retry(t) \/ Redeliver(t)
  <2>1. AtWork(t) /\ task'[t].pc = "queued" /\ UNCHANGED <<holders, indexed, access, dirty>>
    BY <1>7, <1>t, SparingOrderly DEF Retry, Redeliver, Raises, Running, Requeue, AtWork, storeVars,
                                      TypeOK, Task
  <2>2. x \in holders[d] \/ NoneLive(d)
    BY <2>1, <1>r DEF TaskSpares
  <2>3. TaskSpares(t)'
    BY <2>1, <2>2, <1>u DEF TaskSpares, NoneLive
  <2> QED
    BY <2>1, <2>3, <1>i
<1>8. CASE GiveUp(t) \/ Postrun(t)
  <2>1. task'[t].pc \in {"post", "done"} /\ UNCHANGED <<holders, indexed, access, dirty>>
    BY <1>8, <1>t DEF GiveUp, Postrun, Goto, storeVars, TypeOK, Task
  <2> QED
    BY <2>1, <1>i DEF TaskSpares, AtWork
<1> QED
  BY <1>1, <1>2, <1>3, <1>4, <1>5, <1>6, <1>7, <1>8 DEF TaskStep

-----------------------------------------------------------------------------
\* What a live pair has indexed stays its own, for every number of pairs and
\* documents: whatever tasks, workers and the beat fail, also when pairs that share
\* its documents are deleted together, when batches of ended attempts go on, and
\* when tasks fail on their last retry.
THEOREM LiveDocumentsSafe == Sparing => (Spec => []LiveDocumentsKept)
<1> SUFFICES ASSUME Sparing PROVE Spec => []LiveDocumentsKept
  OBVIOUS
<1>1. Init => SInv
  BY TypesInit, AccountedInit, InitSpares DEF SInv, IInv
<1>2. SInv /\ [Next]_vars => SInv'
  <2> SUFFICES ASSUME SInv, [Next]_vars PROVE SInv'
    OBVIOUS
  <2>1. CASE UNCHANGED vars
    <3>1. IInv'
      BY <2>1, TypesStep, Quiet DEF SInv, IInv, vars, cleanupVars, AccountVars
    <3>2. TypeOK' /\ UNCHANGED SpareVars /\ UNCHANGED ClearVars
      BY <2>1, <3>1 DEF IInv, TInv, vars, cleanupVars, storeVars, SpareVars, ClearVars
    <3>3. Clear' /\ Spared' /\ AllKept'
      BY <3>2, ClearQuiet, SpareQuiet DEF SInv, IInv, TInv, ClearVars
    <3> QED
      BY <3>1, <3>3 DEF SInv
  <2>2. CASE Next
    <3>1. IInv'
      BY <2>2, SparingOrderly, TypesStep, PairAccounted, BatchAccounted, TaskAccounted,
         FenceAccounted, SyncAccounted, BeatAccounted DEF Next, SInv, IInv
    <3>2. TypeOK'
      BY <3>1 DEF IInv, TInv
    <3>3. Clear' /\ Spared' /\ AllKept'
      BY <2>2, <3>2, PairSpares, BatchStepSpares, TaskStepSpares, FenceSpares, SyncSpares,
         BeatSpares DEF Next
    <3> QED
      BY <3>1, <3>3 DEF SInv
  <2> QED
    BY <2>1, <2>2
<1>3. SInv => LiveDocumentsKept
  <2> SUFFICES ASSUME SInv, NEW d \in Document, NEW c \in CcPair, <<d, c>> \in delivered
               PROVE  Kept(d, c)
    BY DEF LiveDocumentsKept, Kept
  <2>1. status[c] = "LIVE"
    BY DEF SInv, Clear, DeliveredLive
  <2> QED
    BY <2>1 DEF SInv, AllKept, Relies
<1> QED
  BY <1>1, <1>2, <1>3, PTL DEF Spec

\* A task that drops only its pair's relationship leaves that of another pair where
\* the environment is undisturbed.  That pairs which share documents are deleted
\* together is enough to break this (run overlap).
THEOREM DetachSafe == Undisturbed => (Spec => DetachLeavesHolder)
<1> SUFFICES ASSUME Undisturbed PROVE Spec => DetachLeavesHolder
  OBVIOUS
<1>1. DInv /\ [Next]_vars => [\A t \in TaskId : Detach(t) => holders'[DocOf(t)] # {}]_vars
  <2> SUFFICES ASSUME DInv, NEW t \in TaskId, Detach(t) PROVE holders'[DocOf(t)] # {}
    OBVIOUS
  <2>1. /\ task[t].pc = "detach" /\ DocOf(t) \in Document
        /\ holders' = [holders EXCEPT ![DocOf(t)] = @ \ {PairOf(t)}]
    BY IdParts DEF Detach
  <2>2. PairOf(t) \in holders[DocOf(t)] /\ holders[DocOf(t)] # {PairOf(t)}
    BY <2>1 DEF DInv, Fitting, TaskRight, AtWork
  <2> QED
    BY <2>1, <2>2 DEF DInv, IInv, TInv, TypeOK
<1>2. Spec => []DInv
  BY DInvHolds
<1> QED
  BY <1>1, <1>2, PTL DEF Spec, DetachLeavesHolder
=============================================================================

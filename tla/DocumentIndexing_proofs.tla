---------------------- MODULE DocumentIndexing_proofs ----------------------
(* Type correctness of DocumentIndexing, and the two properties that hold    *)
(* whatever the environment does, for every value of the constants.          *)
EXTENDS DocumentIndexing, FiniteSetTheorems, TLAPS

-----------------------------------------------------------------------------
(* The inductive invariant                                                   *)

\* A process that works has opened its window: Last is applied to its ends.
WindowOpen ==
    \A a \in Attempts : fetcher[a].pc \in FetcherRunning \ {"window"} =>
                            row[a].start \in Ticks /\ row[a].end \in Ticks

\* The batch about to be sent is a page of the source.
PageInWindow ==
    \A a \in Attempts : fetcher[a].pc = "enqueue" => fetcher[a].pos + 1 \in Pages

\* An attempt that was not created has no process.
NoneBefore == \A a \in Attempts : a > last => fetcher[a].pc = "none"

Inductive == WindowOpen /\ PageInWindow /\ NoneBefore

IInv == TypeOK /\ IsFiniteSet(files) /\ Inductive

-----------------------------------------------------------------------------
(* Lemmas about the operators                                                *)

\* A window end is a page boundary: Last maps ticks to pages (or 0).
LEMMA LastType == \A t \in Ticks : Last(t) \in {0} \cup Pages
<1> SUFFICES ASSUME NEW t \in Ticks PROVE Last(t) \in {0} \cup Pages
  OBVIOUS
<1>1. t \in Nat /\ MaxTicks - t \in Nat /\ PerTick \in Nat /\ MaxTicks \in Nat
  BY BoundsAssumption DEF Ticks
<1>2. t * PerTick \in Nat /\ (MaxTicks - t) * PerTick \in Nat
  BY <1>1
<1>3. MaxTicks * PerTick = t * PerTick + (MaxTicks - t) * PerTick
  BY <1>1
<1>4. t * PerTick <= MaxTicks * PerTick
  BY <1>2, <1>3
<1> QED
  BY <1>1, <1>2, <1>4 DEF Last, Pages

\* The first page, the first attempt and the first batch number exist.
LEMMA FirstOnes == 1 \in Pages /\ 1 \in Attempts /\ 0 \in BatchNums /\ 0 \in Ticks
<1>1. MaxTicks * PerTick \in Nat /\ MaxTicks * PerTick >= 1
  BY BoundsAssumption
<1> QED
  BY <1>1, BoundsAssumption DEF Pages, Attempts, BatchNums, Ticks

LEMMA NewRowType == ASSUME NEW f \in BOOLEAN PROVE NewRow(f) \in Row
BY DEF NewRow, Row, Status, Active, Successful, Unfinished, NoCheckpoint, Null

LEMMA FetcherAtType == ASSUME NEW pc \in FetcherPc PROVE FetcherAt(pc) \in Fetcher
BY DEF FetcherAt, Fetcher, Checkpoint

LEMMA IdleTypes == IdleWorker \in WorkerState /\ IdleMonitor \in MonitorState
BY FirstOnes DEF IdleWorker, IdleMonitor, WorkerState, MonitorState, WorkerPc

\* A change of newer keeps it a relation on the attempts.
LEMMA TouchType ==
    ASSUME NEW a \in Attempts, newer \subseteq Attempts \X Attempts, Touch(a)
    PROVE  newer' \subseteq Attempts \X Attempts
BY DEF Touch

\* An update of one row that leaves its window alone.
LEMMA RowKept ==
    ASSUME TypeOK, NEW a \in Attempts, NEW r \in Row, row' = [row EXCEPT ![a] = r],
           r.start = row[a].start, r.end = row[a].end
    PROVE  /\ row' \in [Attempts -> Row]
           /\ \A b \in Attempts : row'[b].start = row[b].start /\ row'[b].end = row[b].end
BY DEF TypeOK

\* A verdict changes the status and the counters of one attempt.
LEMMA MarkType ==
    ASSUME TypeOK, NEW a \in Attempts, NEW status \in Status, Mark(a, status)
    PROVE  /\ row' \in [Attempts -> Row]
           /\ pending' \in [Attempts -> Nat]
           /\ inFlight' \in [Attempts -> Nat]
           /\ newer' \subseteq Attempts \X Attempts
           /\ \A b \in Attempts : row'[b].start = row[b].start /\ row'[b].end = row[b].end
<1>1. row' \in [Attempts -> Row]
  BY DEF Mark, TypeOK, Row
<1>2. pending' \in [Attempts -> Nat] /\ inFlight' \in [Attempts -> Nat]
  BY DEF Mark, TypeOK
<1>3. newer' \subseteq Attempts \X Attempts
  BY TouchType DEF Mark, TypeOK
<1>4. \A b \in Attempts : row'[b].start = row[b].start /\ row'[b].end = row[b].end
  BY DEF Mark, TypeOK, Row
<1> QED
  BY <1>1, <1>2, <1>3, <1>4

\* A step that touches neither a process nor a window keeps Inductive.
LEMMA InductiveKept ==
    ASSUME IInv, fetcher' = fetcher, last' = last,
           \A b \in Attempts : row'[b].start = row[b].start /\ row'[b].end = row[b].end
    PROVE  Inductive'
BY DEF IInv, Inductive, WindowOpen, PageInWindow, NoneBefore

LEMMA CreatedAttempts == ASSUME TypeOK PROVE Created \subseteq Attempts
BY BoundsAssumption DEF Created, Attempts, TypeOK

-----------------------------------------------------------------------------
(* Each action preserves the invariant                                       *)

LEMMA InitInv == Init => IInv
<1> SUFFICES ASSUME Init PROVE IInv
  OBVIOUS
<1>1. TypeOK
  <2>1. row \in [Attempts -> Row]
    BY NewRowType DEF Init
  <2>2. fetcher \in [Attempts -> Fetcher]
    BY FetcherAtType DEF Init, FetcherPc
  <2>3. worker \in [Worker -> WorkerState] /\ monitor \in MonitorState
    BY IdleTypes DEF Init
  <2>4. last \in 0..MaxAttempts /\ faults \in 0..MaxFaults
    BY BoundsAssumption DEF Init
  <2>5. ccPair \in CcPair
    BY DEF Init, CcPair
  <2> QED
    BY <2>1, <2>2, <2>3, <2>4, <2>5 DEF Init, TypeOK
<1>2. IsFiniteSet(files)
  BY FS_EmptySet DEF Init
<1>3. Inductive
  BY DEF Init, Inductive, WindowOpen, PageInWindow, NoneBefore, FetcherAt, FetcherRunning
<1> QED
  BY <1>1, <1>2, <1>3 DEF IInv

\* check_for_indexing and the requests of a user

LEMMA CreateAttemptInv ==
    ASSUME IInv, NEW f \in BOOLEAN, CreateAttempt(f)
    PROVE  IInv'
<1>1. last \in Nat /\ last + 1 \in Attempts /\ last' \in 0..MaxAttempts
  BY BoundsAssumption DEF CreateAttempt, IInv, TypeOK, Attempts
<1>2. row' \in [Attempts -> Row] /\ newer' \subseteq Attempts \X Attempts
  BY <1>1, NewRowType, TouchType DEF CreateAttempt, IInv, TypeOK
<1>3. TypeOK' /\ IsFiniteSet(files')
  BY <1>1, <1>2 DEF CreateAttempt, IInv, TypeOK
<1>4. fetcher[last + 1].pc = "none"
  BY <1>1 DEF IInv, Inductive, NoneBefore
<1>5. \A b \in Attempts \ {last + 1} : row'[b] = row[b]
  BY <1>1 DEF CreateAttempt, IInv, TypeOK
<1>6. Inductive'
  BY <1>1, <1>4, <1>5 DEF CreateAttempt, IInv, Inductive, WindowOpen, PageInWindow,
     NoneBefore, FetcherRunning, Attempts
<1> QED
  BY <1>3, <1>6 DEF IInv

\* The four places that only give a verdict.
LEMMA VerdictInv ==
    ASSUME IInv, NEW a \in Created,
           \/ MonitorCancel(a) \/ Invalidate(a) \/ ExpireNotStarted(a) \/ WatchdogFails(a)
           \/ InvalidateBlindly(a) \/ MemoryLimitHit(a)
    PROVE  IInv'
<1>1. a \in Attempts
  BY CreatedAttempts DEF IInv
<1>2. PICK status \in Status : Mark(a, status)
  BY DEF MonitorCancel, Invalidate, ExpireNotStarted, WatchdogFails, InvalidateBlindly,
     MemoryLimitHit, Status, Unfinished
<1>3. /\ UNCHANGED <<last, files, queue, fetcher, worker, monitor, ccPair, handled>>
      /\ UNCHANGED faults \/ Fault
  BY DEF MonitorCancel, Invalidate, ExpireNotStarted, WatchdogFails, InvalidateBlindly,
     MemoryLimitHit
<1>4. TypeOK' /\ IsFiniteSet(files')
  BY <1>1, <1>2, <1>3, MarkType, BoundsAssumption DEF Fault, IInv, TypeOK
<1>5. Inductive'
  BY <1>1, <1>2, <1>3, MarkType, InductiveKept DEF IInv
<1> QED
  BY <1>4, <1>5 DEF IInv

LEMMA MonitorReadInv ==
    ASSUME IInv, NEW a \in Created, MonitorRead(a)
    PROVE  IInv'
<1>1. a \in Attempts
  BY CreatedAttempts DEF IInv
<1>2. monitor' \in MonitorState
  BY <1>1 DEF MonitorRead, MonitorState, IInv, TypeOK, Row
<1>3. TypeOK' /\ IsFiniteSet(files')
  BY <1>2 DEF MonitorRead, IInv, TypeOK
<1> QED
  BY <1>3, InductiveKept DEF IInv, MonitorRead

LEMMA MonitorMarkInv == ASSUME IInv, MonitorMark PROVE IInv'
<1>1. monitor.att \in Attempts /\ monitor' \in MonitorState
  BY DEF MonitorMark, MonitorState, IInv, TypeOK
<1>2. PICK status \in Status : Mark(monitor.att, status)
  BY DEF MonitorMark, Status, Successful
<1>3. TypeOK' /\ IsFiniteSet(files')
  BY <1>1, <1>2, MarkType DEF MonitorMark, IInv, TypeOK
<1>4. Inductive'
  BY <1>1, <1>2, MarkType, InductiveKept DEF MonitorMark, IInv
<1> QED
  BY <1>3, <1>4 DEF IInv

LEMMA MonitorCleanInv == ASSUME IInv, MonitorClean PROVE IInv'
<1>1. TypeOK' /\ IsFiniteSet(files')
  BY IdleTypes, FS_EmptySet DEF MonitorClean, IInv, TypeOK
<1> QED
  BY <1>1, InductiveKept DEF IInv, MonitorClean

LEMMA MonitorRaisesInv == ASSUME IInv, MonitorRaises PROVE IInv'
<1>1. monitor.att \in Attempts /\ monitor' \in MonitorState
  BY DEF MonitorRaises, MonitorState, IInv, TypeOK
<1>2. faults' \in 0..MaxFaults
  BY BoundsAssumption DEF MonitorRaises, Fault, IInv, TypeOK
<1>3. CASE Mark(monitor.att, "FAILED")
  <2>1. PICK status \in Status : Mark(monitor.att, status)
    BY <1>3 DEF Status, Unfinished
  <2>2. TypeOK' /\ IsFiniteSet(files')
    BY <1>1, <1>2, <2>1, MarkType DEF MonitorRaises, IInv, TypeOK
  <2>3. Inductive'
    BY <1>1, <2>1, MarkType, InductiveKept DEF MonitorRaises, IInv
  <2> QED
    BY <2>2, <2>3 DEF IInv
<1>4. CASE UNCHANGED <<row, pending, inFlight, newer>>
  <2>1. TypeOK' /\ IsFiniteSet(files')
    BY <1>1, <1>2, <1>4 DEF MonitorRaises, IInv, TypeOK
  <2> QED
    BY <1>4, <2>1, InductiveKept DEF MonitorRaises, IInv
<1> QED
  BY <1>3, <1>4 DEF MonitorRaises

LEMMA MonitorStopsInv == ASSUME IInv, MonitorStops PROVE IInv'
<1>1. files' \in SUBSET files
  BY DEF MonitorStops
<1>2. IsFiniteSet(files')
  BY <1>1, FS_Subset DEF IInv
<1>3. TypeOK'
  BY <1>1, IdleTypes, BoundsAssumption DEF MonitorStops, Fault, IInv, TypeOK
<1> QED
  BY <1>2, <1>3, InductiveKept DEF IInv, MonitorStops

LEMMA PauseInv == ASSUME IInv, Pause PROVE IInv'
<1>1. faults' \in 0..MaxFaults
  BY BoundsAssumption DEF Pause, Fault, IInv, TypeOK
<1>2. /\ row' \in [Attempts -> Row] /\ newer' \subseteq Attempts \X Attempts
      /\ \A b \in Attempts : row'[b].start = row[b].start /\ row'[b].end = row[b].end
  <2>1. CASE \E a \in Created : row' = [row EXCEPT ![a].cancel = TRUE] /\ Touch(a)
    <3>1. PICK a \in Created : row' = [row EXCEPT ![a].cancel = TRUE] /\ Touch(a)
      BY <2>1
    <3>2. a \in Attempts
      BY CreatedAttempts DEF IInv
    <3>3. newer' \subseteq Attempts \X Attempts
      BY <3>1, <3>2, TouchType DEF IInv, TypeOK
    <3>4. row \in [Attempts -> Row]
      BY DEF IInv, TypeOK
    <3>5. [row[a] EXCEPT !.cancel = TRUE] \in Row
      <4>1. row[a] \in Row
        BY <3>2, <3>4
      <4> QED
        BY <4>1 DEF Row
    <3>6. row' \in [Attempts -> Row]
      BY <3>1, <3>2, <3>4, <3>5
    <3>7. \A b \in Attempts : row'[b].start = row[b].start /\ row'[b].end = row[b].end
      BY <3>1, <3>2, <3>4 DEF Row
    <3> QED
      BY <3>3, <3>6, <3>7
  <2>2. CASE UNCHANGED <<row, newer>>
    BY <2>2 DEF IInv, TypeOK
  <2> QED
    BY <2>1, <2>2 DEF Pause
<1>3. TypeOK' /\ IsFiniteSet(files')
  BY <1>1, <1>2 DEF Pause, IInv, TypeOK, CcPair
<1> QED
  BY <1>2, <1>3, InductiveKept DEF IInv, Pause

LEMMA ResumeInv == ASSUME IInv, Resume \/ DropStopFence PROVE IInv'
<1>1. ccPair' \in CcPair
  <2>1. ccPair.paused \in BOOLEAN
    BY DEF IInv, TypeOK, CcPair
  <2>2. \A p \in BOOLEAN : [paused |-> p, stopFence |-> FALSE] \in CcPair
    BY Zenon DEF CcPair
  <2> QED
    BY <2>1, <2>2, Zenon DEF Resume, DropStopFence
<1>2. UNCHANGED <<row, last, newer, files, queue, pending, inFlight, fetcher, worker,
                  monitor, handled, faults>>
  BY DEF Resume, DropStopFence
<1>3. TypeOK' /\ IsFiniteSet(files')
  BY <1>1, <1>2 DEF IInv, TypeOK
<1> QED
  BY <1>2, <1>3, InductiveKept DEF IInv

\* The docfetching process

\* A step of process a: what it is afterwards decides.
LEMMA FetcherKept ==
    ASSUME IInv, NEW a \in Created, NEW f \in Fetcher,
           fetcher' = [fetcher EXCEPT ![a] = f], last' = last,
           \A b \in Attempts \ {a} : row'[b].start = row[b].start /\ row'[b].end = row[b].end,
           f.pc \in FetcherRunning \ {"window"} =>
               row'[a].start \in Ticks /\ row'[a].end \in Ticks,
           f.pc = "enqueue" => f.pos + 1 \in Pages
    PROVE  Inductive' /\ fetcher' \in [Attempts -> Fetcher]
<1>1. a \in Attempts /\ last \in Nat /\ a <= last
  BY CreatedAttempts, BoundsAssumption DEF IInv, TypeOK, Created
<1>2. fetcher' \in [Attempts -> Fetcher]
  BY <1>1 DEF IInv, TypeOK
<1>3. fetcher'[a] = f /\ \A b \in Attempts \ {a} : fetcher'[b] = fetcher[b]
  BY <1>1 DEF IInv, TypeOK
<1>4. WindowOpen'
  BY <1>3 DEF IInv, Inductive, WindowOpen
<1>5. PageInWindow'
  BY <1>3 DEF IInv, Inductive, PageInWindow
<1>6. NoneBefore'
  BY <1>1, <1>3 DEF IInv, Inductive, NoneBefore, Attempts
<1> QED
  BY <1>2, <1>4, <1>5, <1>6 DEF Inductive

LEMMA BeginInv == ASSUME IInv, NEW a \in Created, Begin(a) PROVE IInv'
<1>1. a \in Attempts /\ "IN_PROGRESS" \in Status
  BY CreatedAttempts DEF IInv, Status, Active
<1>2. /\ row' \in [Attempts -> Row]
      /\ \A b \in Attempts : row'[b].start = row[b].start /\ row'[b].end = row[b].end
  <2> DEFINE r == [row[a] EXCEPT !.status = "IN_PROGRESS"]
  <2>1. row[a] \in Row
    BY <1>1 DEF IInv, TypeOK
  <2>2. r \in Row /\ r.start = row[a].start /\ r.end = row[a].end
    BY <1>1, <2>1 DEF Row
  <2>3. row' = [row EXCEPT ![a] = r]
    BY DEF Begin
  <2> QED
    BY <1>1, <2>2, <2>3, RowKept DEF IInv
<1>3. [fetcher[a] EXCEPT !.pc = "window"] \in Fetcher
  BY <1>1 DEF IInv, TypeOK, Fetcher, FetcherPc
<1>4. fetcher' = [fetcher EXCEPT ![a] = [fetcher[a] EXCEPT !.pc = "window"]]
  BY DEF Begin, Goto
<1>5. Inductive' /\ fetcher' \in [Attempts -> Fetcher]
  BY <1>1, <1>2, <1>3, <1>4, FetcherKept DEF Begin, IInv, TypeOK, Fetcher
<1>6. TypeOK' /\ IsFiniteSet(files')
  BY <1>1, <1>2, <1>5, TouchType DEF Begin, IInv, TypeOK
<1> QED
  BY <1>5, <1>6 DEF IInv

\* A process that ends.
LEMMA ExitKept ==
    ASSUME IInv, NEW a \in Created, NEW pc \in {"lost", "done", "dead"}, Exit(a, pc),
           last' = last,
           \A b \in Attempts : row'[b].start = row[b].start /\ row'[b].end = row[b].end
    PROVE  Inductive' /\ fetcher' \in [Attempts -> Fetcher]
<1>1. FetcherAt(pc) \in Fetcher
  BY FetcherAtType DEF FetcherPc
<1>2. FetcherAt(pc).pc = pc /\ pc \notin FetcherRunning /\ pc # "enqueue"
  BY DEF FetcherAt, FetcherRunning, FetcherPc
<1> QED
  BY <1>1, <1>2, FetcherKept DEF Exit

LEMMA BeginBlockedInv == ASSUME IInv, NEW a \in Created, BeginBlocked(a) PROVE IInv'
<1>1. Inductive' /\ fetcher' \in [Attempts -> Fetcher]
  BY ExitKept DEF BeginBlocked
<1>2. TypeOK' /\ IsFiniteSet(files')
  BY <1>1 DEF BeginBlocked, IInv, TypeOK
<1> QED
  BY <1>1, <1>2 DEF IInv

LEMMA SetTotalInv == ASSUME IInv, NEW a \in Created, SetTotal(a) PROVE IInv'
<1>1. a \in Attempts /\ fetcher[a].num \in Nat
  BY CreatedAttempts DEF IInv, TypeOK, Fetcher
<1>2. /\ row' \in [Attempts -> Row]
      /\ \A b \in Attempts : row'[b].start = row[b].start /\ row'[b].end = row[b].end
  <2> DEFINE r == [row[a] EXCEPT !.total = fetcher[a].num]
  <2>1. row[a] \in Row
    BY <1>1 DEF IInv, TypeOK
  <2>2. r \in Row /\ r.start = row[a].start /\ r.end = row[a].end
    BY <1>1, <2>1 DEF Row
  <2>3. row' = [row EXCEPT ![a] = r]
    BY DEF SetTotal
  <2> QED
    BY <1>1, <2>2, <2>3, RowKept DEF IInv
<1>3. Inductive' /\ fetcher' \in [Attempts -> Fetcher]
  BY <1>2, ExitKept DEF SetTotal
<1>4. TypeOK' /\ IsFiniteSet(files')
  BY <1>1, <1>2, <1>3, TouchType DEF SetTotal, IInv, TypeOK
<1> QED
  BY <1>3, <1>4 DEF IInv

LEMMA StopFetchInv == ASSUME IInv, NEW a \in Created, StopFetch(a) PROVE IInv'
<1>1. a \in Attempts /\ "CANCELED" \in Status
  BY CreatedAttempts DEF IInv, Status, Unfinished
<1>2. Mark(a, "CANCELED")
  BY DEF StopFetch
<1>3. Inductive' /\ fetcher' \in [Attempts -> Fetcher]
  BY <1>1, <1>2, MarkType, ExitKept DEF StopFetch, IInv
<1>4. TypeOK' /\ IsFiniteSet(files')
  BY <1>1, <1>2, <1>3, MarkType DEF StopFetch, IInv, TypeOK
<1> QED
  BY <1>3, <1>4 DEF IInv

LEMMA FetchErrorInv ==
    ASSUME IInv, NEW a \in Created, FetchError(a) \/ NotRunningAnymore(a)
    PROVE  IInv'
<1>1. a \in Attempts /\ {"CANCELED", "FAILED"} \subseteq Status
  BY CreatedAttempts DEF IInv, Status, Unfinished
<1>2. /\ row' \in [Attempts -> Row]
      /\ pending' \in [Attempts -> Nat] /\ inFlight' \in [Attempts -> Nat]
      /\ newer' \subseteq Attempts \X Attempts
      /\ \A b \in Attempts : row'[b].start = row[b].start /\ row'[b].end = row[b].end
  <2>1. CASE Mark(a, "CANCELED")
    BY <1>1, <2>1, MarkType DEF IInv
  <2>2. CASE Mark(a, "FAILED")
    BY <1>1, <2>2, MarkType DEF IInv
  <2>3. CASE UNCHANGED <<row, pending, inFlight, newer>>
    BY <2>3 DEF IInv, TypeOK
  <2> QED
    BY <2>1, <2>2, <2>3 DEF FetchError, NotRunningAnymore, FailUnlessEnded
<1>3. Inductive' /\ fetcher' \in [Attempts -> Fetcher]
  BY <1>2, ExitKept DEF FetchError, NotRunningAnymore
<1>4. TypeOK' /\ IsFiniteSet(files')
  BY <1>2, <1>3, BoundsAssumption
     DEF FetchError, NotRunningAnymore, Fault, IInv, TypeOK
<1> QED
  BY <1>3, <1>4 DEF IInv

LEMMA FetchKilledInv ==
    ASSUME IInv, NEW a \in Created,
           FetchKilled(a) \/ WatchdogKills(a) \/ LoseFetch(a)
    PROVE  IInv'
<1>1. Inductive' /\ fetcher' \in [Attempts -> Fetcher]
  BY ExitKept DEF FetchKilled, WatchdogKills, Dies, LoseFetch
<1>2. TypeOK' /\ IsFiniteSet(files')
  BY <1>1, BoundsAssumption
     DEF FetchKilled, WatchdogKills, Dies, LoseFetch, Fault, IInv, TypeOK
<1> QED
  BY <1>1, <1>2 DEF IInv

\* What a process learns of the attempt before it, once its window is open.
LEMMA ResumeType ==
    ASSUME NEW g \in Fetcher, NEW n \in Nat, NEW total \in BOOLEAN, NEW ok \in BOOLEAN
    PROVE  LET f == [g EXCEPT !.pc = "resume", !.prev = n, !.prevTotal = total, !.prevOk = ok]
           IN  f \in Fetcher /\ f.pc = "resume"
<1>1. "resume" \in FetcherPc
  BY DEF FetcherPc
<1> QED
  BY <1>1 DEF Fetcher

\* The poll window of a process that has just begun.
LEMMA OpenWindowInv == ASSUME IInv, NEW a \in Created, OpenWindow(a) PROVE IInv'
<1>1. a \in Attempts
  BY CreatedAttempts DEF IInv
<1>2. PICK b \in Attempts \cup {0}, lastEnd \in SuccessEnds, now \in Ticks :
        LET from  == IF row[a].fromBeginning THEN 0 ELSE lastEnd
            start == IF from > PollOffset THEN from - PollOffset ELSE 0
            end   == IF RetriesWindow(b) THEN row[b].end ELSE now
        IN  /\ RetriesWindow(b) \/ Now(now)
            /\ row' = [row EXCEPT ![a].start = start, ![a].end = end]
            /\ fetcher' = [fetcher EXCEPT
                   ![a].pc = "resume",
                   ![a].prev = IF b = 0 THEN 0 ELSE row[b].completed,
                   ![a].prevTotal = b # 0 /\ row[b].total # Null,
                   ![a].prevOk = b # 0 /\ row[b].status \in Successful]
  BY DEF OpenWindow
<1> DEFINE from  == IF row[a].fromBeginning THEN 0 ELSE lastEnd
           start == IF from > PollOffset THEN from - PollOffset ELSE 0
           end   == IF RetriesWindow(b) THEN row[b].end ELSE now
           r     == [row[a] EXCEPT !.start = start, !.end = end]
           n     == IF b = 0 THEN 0 ELSE row[b].completed
           total == b # 0 /\ row[b].total # Null
           ok    == b # 0 /\ row[b].status \in Successful
           f     == [fetcher[a] EXCEPT !.pc = "resume", !.prev = n,
                                       !.prevTotal = total, !.prevOk = ok]
<1>3. start \in Ticks
  <2>1. lastEnd \in Ticks \cup {Null}
    BY BoundsAssumption DEF SuccessEnds, IInv, TypeOK, Created, Attempts, Row, Ticks
  <2> QED
    BY <2>1, BoundsAssumption DEF Ticks, Null
<1>4. end \in Ticks
  BY DEF RetriesWindow, IInv, TypeOK, Row
<1>5. r \in Row /\ r.start = start /\ r.end = end
  BY <1>1, <1>3, <1>4 DEF IInv, TypeOK, Row
<1>6. f \in Fetcher /\ f.pc = "resume"
  <2>1. n \in Nat
    BY DEF IInv, TypeOK, Row
  <2>2. total \in BOOLEAN /\ ok \in BOOLEAN
    OBVIOUS
  <2>3. fetcher[a] \in Fetcher
    BY <1>1 DEF IInv, TypeOK
  <2> HIDE DEF n, total, ok
  <2> QED
    BY <2>1, <2>2, <2>3, ResumeType
<1>7. row' = [row EXCEPT ![a] = r] /\ fetcher' = [fetcher EXCEPT ![a] = f]
  BY <1>2
<1>8. row' \in [Attempts -> Row] /\ row'[a] = r
      /\ \A c \in Attempts \ {a} : row'[c] = row[c]
  BY <1>1, <1>5, <1>7 DEF IInv, TypeOK
<1> HIDE DEF r, f, start, end, from, n, total, ok
<1>9. Inductive' /\ fetcher' \in [Attempts -> Fetcher]
  BY <1>3, <1>4, <1>5, <1>6, <1>7, <1>8, FetcherKept DEF OpenWindow
<1>10. TypeOK' /\ IsFiniteSet(files')
  BY <1>1, <1>8, <1>9, TouchType DEF OpenWindow, IInv, TypeOK
<1> QED
  BY <1>9, <1>10 DEF IInv

\* While it resumes, the process has its window open and knows its checkpoint.
LEMMA DummyType ==
    ASSUME IInv, NEW a \in Attempts, fetcher[a].pc \in FetcherRunning \ {"window"}
    PROVE  Dummy(a) \in Checkpoint
BY LastType DEF IInv, Inductive, WindowOpen, Dummy, Checkpoint

LEMMA StartOverInv == ASSUME IInv, NEW a \in Created, StartOver(a) PROVE IInv'
<1> DEFINE f == [fetcher[a] EXCEPT !.pc = "save", !.cp = Dummy(a)]
<1>1. a \in Attempts /\ fetcher[a].pc = "resume"
  BY CreatedAttempts DEF IInv, StartOver
<1>2. Dummy(a) \in Checkpoint
  BY <1>1, DummyType DEF FetcherRunning, FetcherPc
<1>3. f \in Fetcher /\ f.pc = "save"
  BY <1>1, <1>2 DEF IInv, TypeOK, Fetcher, FetcherPc
<1>4. fetcher' = [fetcher EXCEPT ![a] = f]
  BY DEF StartOver
<1>5. row[a].start \in Ticks /\ row[a].end \in Ticks
  BY <1>1 DEF IInv, Inductive, WindowOpen, FetcherRunning, FetcherPc
<1> HIDE DEF f
<1>6. Inductive' /\ fetcher' \in [Attempts -> Fetcher]
  BY <1>3, <1>4, <1>5, FetcherKept DEF StartOver
<1>7. TypeOK' /\ IsFiniteSet(files')
  BY <1>6, FS_EmptySet DEF StartOver, IInv, TypeOK
<1> QED
  BY <1>6, <1>7 DEF IInv

LEMMA LoadCheckpointInv == ASSUME IInv, NEW a \in Created, LoadCheckpoint(a) PROVE IInv'
<1>1. a \in Attempts /\ fetcher[a].pc = "resume"
  BY CreatedAttempts DEF IInv, LoadCheckpoint
<1>2. PICK b \in Attempts \cup {0} :
        LET cp == IF b = 0 THEN Dummy(a) ELSE row[b].checkpoint
            reissue == Reissue(a, b, cp)
        IN  /\ LatestValid(a, b)
            /\ fetcher' = [fetcher EXCEPT ![a].pc = IF reissue THEN "list" ELSE "save",
                                          ![a].cp = cp]
            /\ files' = IF reissue THEN files ELSE {}
  BY DEF LoadCheckpoint
<1> DEFINE cp == IF b = 0 THEN Dummy(a) ELSE row[b].checkpoint
           pc == IF Reissue(a, b, cp) THEN "list" ELSE "save"
           f  == [fetcher[a] EXCEPT !.pc = pc, !.cp = cp]
<1>3. cp \in Checkpoint
  <2>1. CASE b = 0
    BY <1>1, <2>1, DummyType DEF FetcherRunning, FetcherPc
  <2>2. CASE b # 0
    <3>1. b \in Candidates(a)
      BY <1>2, <2>2 DEF LatestValid, MostRecent
    <3> QED
      BY <2>2, <3>1 DEF Candidates, IInv, TypeOK, Row
  <2> QED
    BY <2>1, <2>2
<1>4. f \in Fetcher /\ f.pc \in {"list", "save"}
  BY <1>1, <1>3 DEF IInv, TypeOK, Fetcher, FetcherPc
<1>5. fetcher' = [fetcher EXCEPT ![a] = f]
  BY <1>2
<1>6. row[a].start \in Ticks /\ row[a].end \in Ticks
  BY <1>1 DEF IInv, Inductive, WindowOpen, FetcherRunning, FetcherPc
<1>7. files' \in {files, {}}
  BY <1>2
<1> HIDE DEF f, pc, cp
<1>8. Inductive' /\ fetcher' \in [Attempts -> Fetcher]
  BY <1>4, <1>5, <1>6, FetcherKept DEF LoadCheckpoint
<1>9. TypeOK' /\ IsFiniteSet(files')
  BY <1>7, <1>8, FS_EmptySet DEF LoadCheckpoint, IInv, TypeOK
<1> QED
  BY <1>8, <1>9 DEF IInv

\* Within the loop and while resuming the window stays as it is.
LEMMA ProcessKept ==
    ASSUME IInv, NEW a \in Created, NEW f \in Fetcher,
           fetcher[a].pc \in FetcherRunning \ {"window"},
           fetcher' = [fetcher EXCEPT ![a] = f], last' = last,
           \A b \in Attempts : row'[b].start = row[b].start /\ row'[b].end = row[b].end,
           f.pc = "enqueue" => f.pos + 1 \in Pages
    PROVE  Inductive' /\ fetcher' \in [Attempts -> Fetcher]
<1>1. a \in Attempts
  BY CreatedAttempts DEF IInv
<1>2. row'[a].start \in Ticks /\ row'[a].end \in Ticks
  BY <1>1 DEF IInv, Inductive, WindowOpen
<1> QED
  BY <1>1, <1>2, FetcherKept

\* Renaming files keeps them finitely many, with batch numbers.
LEMMA RenameType ==
    ASSUME NEW a \in Attempts, NEW S, S \subseteq File, IsFiniteSet(S)
    PROVE  Renamed(S, a) \subseteq File /\ IsFiniteSet(Renamed(S, a))
<1> DEFINE rename == [f \in S |-> [f EXCEPT !.att = a]]
<1>1. Renamed(S, a) \subseteq File
  BY DEF File, Renamed
<1>2. rename \in Surjection(S, Renamed(S, a))
  BY DEF Surjection, Renamed
<1> QED
  BY <1>1, <1>2, FS_Surjection

LEMMA ListOldInv == ASSUME IInv, NEW a \in Created, ListOld(a) PROVE IInv'
<1> DEFINE f == [fetcher[a] EXCEPT !.pc = "send", !.todo = files,
                                   !.old = Cardinality(files)]
<1>1. a \in Attempts /\ fetcher[a].pc = "list"
  BY CreatedAttempts DEF IInv, ListOld
<1>2. PICK kept \in SUBSET files : files' = Renamed(kept, a)
  BY DEF ListOld
<1>3. kept \subseteq File /\ IsFiniteSet(kept)
  BY FS_Subset DEF IInv, TypeOK
<1>4. files' \subseteq File /\ IsFiniteSet(files')
  BY <1>1, <1>2, <1>3, RenameType
<1>5. Cardinality(files) \in Nat /\ files \in SUBSET File
  BY FS_CardinalityType DEF IInv, TypeOK
<1>6. f \in Fetcher /\ f.pc = "send"
  BY <1>1, <1>5 DEF IInv, TypeOK, Fetcher, FetcherPc
<1>7. fetcher' = [fetcher EXCEPT ![a] = f]
  BY DEF ListOld
<1> HIDE DEF f
<1>8. Inductive' /\ fetcher' \in [Attempts -> Fetcher]
  BY <1>1, <1>6, <1>7, ProcessKept DEF ListOld, FetcherRunning, FetcherPc
<1>9. TypeOK' /\ IsFiniteSet(files')
  BY <1>4, <1>8 DEF ListOld, IInv, TypeOK
<1> QED
  BY <1>8, <1>9 DEF IInv

\* Sending a task counts it; so does a redelivery.
LEMMA CountUp ==
    ASSUME NEW D, NEW q \in [D -> Nat], NEW t
    PROVE  [q EXCEPT ![t] = @ + 1] \in [D -> Nat]
<1>1. CASE t \in D
  <2>1. q[t] + 1 \in Nat
    BY <1>1
  <2> QED
    BY <1>1, <2>1
<1>2. CASE t \notin D
  BY <1>2
<1> QED
  BY <1>1, <1>2

LEMMA SendType ==
    ASSUME TypeOK, NEW a \in Attempts, NEW n \in Nat, Send(a, n)
    PROVE  pending' \in [Attempts -> Nat] /\ queue' \in [Attempts \X BatchNums -> Nat]
BY CountUp DEF Send, TypeOK

LEMMA SendOldInv == ASSUME IInv, NEW a \in Created, SendOld(a) PROVE IInv'
<1>1. a \in Attempts /\ fetcher[a].pc = "send"
  BY CreatedAttempts DEF IInv, SendOld
<1>2. PICK g \in fetcher[a].todo :
        Send(a, g.num) /\ fetcher' = [fetcher EXCEPT ![a].todo = @ \ {g}]
  BY DEF SendOld
<1> DEFINE f == [fetcher[a] EXCEPT !.todo = @ \ {g}]
<1>3. g.num \in Nat
  BY <1>1 DEF IInv, TypeOK, Fetcher, File, BatchNums
<1>4. f \in Fetcher /\ f.pc = "send"
  BY <1>1 DEF IInv, TypeOK, Fetcher
<1>5. fetcher' = [fetcher EXCEPT ![a] = f]
  BY <1>2
<1> HIDE DEF f
<1>6. Inductive' /\ fetcher' \in [Attempts -> Fetcher]
  BY <1>1, <1>4, <1>5, ProcessKept DEF SendOld, FetcherRunning, FetcherPc
<1>7. TypeOK' /\ IsFiniteSet(files')
  BY <1>1, <1>2, <1>3, <1>6, SendType DEF SendOld, IInv, TypeOK
<1> QED
  BY <1>6, <1>7 DEF IInv

LEMMA AdoptCountInv == ASSUME IInv, NEW a \in Created, AdoptCount(a) PROVE IInv'
<1> DEFINE f == [fetcher[a] EXCEPT !.pc = "save", !.num = NextBatchNum(a)]
<1>1. a \in Attempts /\ fetcher[a].pc = "send" /\ fetcher[a] \in Fetcher
  BY CreatedAttempts DEF IInv, TypeOK, AdoptCount
<1>2. /\ row' \in [Attempts -> Row] /\ newer' \subseteq Attempts \X Attempts
      /\ \A b \in Attempts : row'[b].start = row[b].start /\ row'[b].end = row[b].end
  <2>1. CASE row' = [row EXCEPT ![a].completed = fetcher[a].prev] /\ Touch(a)
    <3>1. fetcher[a].prev \in Nat
      BY <1>1 DEF Fetcher
    <3> QED
      BY <1>1, <2>1, <3>1, TouchType DEF IInv, TypeOK, Row
  <2>2. CASE UNCHANGED <<row, newer>>
    BY <2>2 DEF IInv, TypeOK
  <2> QED
    BY <2>1, <2>2 DEF AdoptCount
<1>3. f \in Fetcher /\ f.pc = "save"
  <2>1. NextBatchNum(a) \in Nat
    BY <1>1 DEF Fetcher, NextBatchNum
  <2> QED
    BY <1>1, <2>1 DEF Fetcher, FetcherPc
<1>4. fetcher' = [fetcher EXCEPT ![a] = f]
  BY DEF AdoptCount
<1> HIDE DEF f
<1>5. Inductive' /\ fetcher' \in [Attempts -> Fetcher]
  BY <1>1, <1>2, <1>3, <1>4, ProcessKept DEF AdoptCount, FetcherRunning, FetcherPc
<1>6. TypeOK' /\ IsFiniteSet(files')
  BY <1>2, <1>5 DEF AdoptCount, IInv, TypeOK
<1> QED
  BY <1>5, <1>6 DEF IInv

LEMMA SaveCheckpointInv == ASSUME IInv, NEW a \in Created, SaveCheckpoint(a) PROVE IInv'
<1> DEFINE pc == IF fetcher[a].cp.more THEN "yield" ELSE "total"
           f == [FetcherAt(pc) EXCEPT !.cp = fetcher[a].cp,
                                      !.pos = fetcher[a].cp.pos,
                                      !.num = fetcher[a].num]
<1>1. a \in Attempts /\ fetcher[a].pc \in {"save", "savecp"} /\ fetcher[a] \in Fetcher
  BY CreatedAttempts DEF IInv, TypeOK, SaveCheckpoint
<1>2. /\ row' \in [Attempts -> Row]
      /\ \A b \in Attempts : row'[b].start = row[b].start /\ row'[b].end = row[b].end
  <2> DEFINE r == [row[a] EXCEPT !.checkpoint = fetcher[a].cp]
  <2>1. row[a] \in Row
    BY <1>1 DEF IInv, TypeOK
  <2>2. r \in Row /\ r.start = row[a].start /\ r.end = row[a].end
    BY <1>1, <2>1 DEF Row, Fetcher
  <2>3. row' = [row EXCEPT ![a] = r]
    BY DEF SaveCheckpoint
  <2> QED
    BY <1>1, <2>2, <2>3, RowKept DEF IInv
<1>3. newer' \subseteq Attempts \X Attempts
  BY <1>1, TouchType DEF SaveCheckpoint, IInv, TypeOK
<1>4. f \in Fetcher /\ f.pc = pc
  <2>1. FetcherAt(pc) \in Fetcher /\ FetcherAt(pc).pc = pc
    BY FetcherAtType DEF FetcherPc, FetcherAt
  <2> QED
    BY <1>1, <2>1 DEF Fetcher, Checkpoint
<1>5. fetcher' = [fetcher EXCEPT ![a] = f]
  BY DEF SaveCheckpoint
<1>6. pc # "enqueue"
  OBVIOUS
<1> HIDE DEF f, pc
<1>7. Inductive' /\ fetcher' \in [Attempts -> Fetcher]
  BY <1>1, <1>2, <1>4, <1>5, <1>6, ProcessKept DEF SaveCheckpoint, FetcherRunning, FetcherPc
<1>8. TypeOK' /\ IsFiniteSet(files')
  BY <1>2, <1>3, <1>7 DEF SaveCheckpoint, IInv, TypeOK
<1> QED
  BY <1>7, <1>8 DEF IInv

LEMMA CheckInv == ASSUME IInv, NEW a \in Created, Check(a) PROVE IInv'
<1> DEFINE f == [fetcher[a] EXCEPT !.pc = "checked"]
<1>1. a \in Attempts /\ fetcher[a].pc = "yield" /\ fetcher[a] \in Fetcher
  BY CreatedAttempts DEF IInv, TypeOK, Check
<1>2. f \in Fetcher /\ f.pc = "checked"
  BY <1>1 DEF Fetcher, FetcherPc
<1>3. fetcher' = [fetcher EXCEPT ![a] = f]
  BY DEF Check, Goto
<1> HIDE DEF f
<1>4. Inductive' /\ fetcher' \in [Attempts -> Fetcher]
  BY <1>1, <1>2, <1>3, ProcessKept DEF Check, FetcherRunning, FetcherPc
<1>5. TypeOK' /\ IsFiniteSet(files')
  BY <1>4 DEF Check, IInv, TypeOK
<1> QED
  BY <1>4, <1>5 DEF IInv

\* The connector yields no page beyond the window of its attempt.
LEMMA NextPageType ==
    ASSUME IInv, NEW a \in Created, HasNext(a)
    PROVE  fetcher[a].pos + 1 \in Pages
<1>1. fetcher[a].pos \in {0} \cup Pages /\ row[a].end \in Ticks
  BY CreatedAttempts DEF HasNext, IInv, TypeOK, Fetcher, Inductive, WindowOpen,
     FetcherRunning, FetcherPc
<1>2. Last(row[a].end) \in {0} \cup Pages
  BY <1>1, LastType
<1>3. MaxTicks * PerTick \in Nat
  BY BoundsAssumption
<1> QED
  BY <1>1, <1>2, <1>3 DEF HasNext, Pages

LEMMA FetchBatchInv == ASSUME IInv, NEW a \in Created, FetchBatch(a) PROVE IInv'
<1> DEFINE f == [fetcher[a] EXCEPT !.pc = "enqueue"]
           file == [att |-> a, num |-> fetcher[a].num, page |-> fetcher[a].pos + 1]
           kept == {g \in files : g.att # a \/ g.num # fetcher[a].num}
<1>1. a \in Attempts /\ fetcher[a].pc = "checked" /\ fetcher[a] \in Fetcher
  BY CreatedAttempts DEF IInv, TypeOK, FetchBatch, HasNext
<1>2. fetcher[a].pos + 1 \in Pages
  BY NextPageType DEF FetchBatch
<1>3. files' = kept \cup {file} /\ kept \subseteq files /\ file \in File
  BY <1>1, <1>2 DEF FetchBatch, File
<1> HIDE DEF kept, file
<1>4. files' \subseteq File /\ IsFiniteSet(files')
  BY <1>3, FS_Subset, FS_AddElement DEF IInv, TypeOK
<1>5. f \in Fetcher /\ f.pc = "enqueue" /\ f.pos = fetcher[a].pos
  BY <1>1 DEF Fetcher, FetcherPc
<1>6. fetcher' = [fetcher EXCEPT ![a] = f]
  BY DEF FetchBatch, Goto
<1> HIDE DEF f
<1>7. Inductive' /\ fetcher' \in [Attempts -> Fetcher]
  BY <1>1, <1>2, <1>5, <1>6, ProcessKept DEF FetchBatch, FetcherRunning, FetcherPc
<1>8. TypeOK' /\ IsFiniteSet(files')
  BY <1>4, <1>7 DEF FetchBatch, IInv, TypeOK
<1> QED
  BY <1>7, <1>8 DEF IInv

LEMMA EnqueueInv == ASSUME IInv, NEW a \in Created, Enqueue(a) PROVE IInv'
<1> DEFINE f == [fetcher[a] EXCEPT !.pc = "yield", !.num = @ + 1, !.pos = @ + 1]
<1>1. a \in Attempts /\ fetcher[a].pc = "enqueue" /\ fetcher[a] \in Fetcher
  BY CreatedAttempts DEF IInv, TypeOK, Enqueue
<1>2. fetcher[a].pos + 1 \in Pages /\ {fetcher[a].num, fetcher[a].num + 1} \subseteq Nat
  BY <1>1 DEF IInv, Inductive, PageInWindow, Fetcher
<1>3. f \in Fetcher /\ f.pc = "yield"
  BY <1>1, <1>2 DEF Fetcher, FetcherPc
<1>4. fetcher' = [fetcher EXCEPT ![a] = f]
  BY DEF Enqueue
<1> HIDE DEF f
<1>5. Inductive' /\ fetcher' \in [Attempts -> Fetcher]
  BY <1>1, <1>3, <1>4, ProcessKept DEF Enqueue, FetcherRunning, FetcherPc
<1>6. TypeOK' /\ IsFiniteSet(files')
  BY <1>1, <1>2, <1>5, SendType DEF Enqueue, IInv, TypeOK
<1> QED
  BY <1>5, <1>6 DEF IInv

LEMMA ConnectorFailureInv ==
    ASSUME IInv, NEW a \in Created, ConnectorFailure(a) PROVE IInv'
<1> DEFINE f == [fetcher[a] EXCEPT !.pc = "yield", !.pos = @ + 1]
<1>1. a \in Attempts /\ fetcher[a].pc = "checked" /\ fetcher[a] \in Fetcher
  BY CreatedAttempts DEF IInv, TypeOK, ConnectorFailure, HasNext
<1>2. fetcher[a].pos + 1 \in Pages
  BY NextPageType DEF ConnectorFailure
<1>3. f \in Fetcher /\ f.pc = "yield"
  BY <1>1, <1>2 DEF Fetcher, FetcherPc
<1>4. fetcher' = [fetcher EXCEPT ![a] = f]
  BY DEF ConnectorFailure
<1>5. /\ row' \in [Attempts -> Row]
      /\ \A b \in Attempts : row'[b].start = row[b].start /\ row'[b].end = row[b].end
  <2> DEFINE r == [row[a] EXCEPT !.errors = TRUE]
  <2>1. row[a] \in Row
    BY <1>1 DEF IInv, TypeOK
  <2>2. r \in Row /\ r.start = row[a].start /\ r.end = row[a].end
    BY <1>1, <2>1 DEF Row
  <2>3. row' = [row EXCEPT ![a] = r]
    BY DEF ConnectorFailure
  <2> QED
    BY <1>1, <2>2, <2>3, RowKept DEF IInv
<1>6. handled' \subseteq Pages /\ faults' \in 0..MaxFaults
  BY <1>2, BoundsAssumption DEF ConnectorFailure, Fault, IInv, TypeOK
<1> HIDE DEF f
<1>7. Inductive' /\ fetcher' \in [Attempts -> Fetcher]
  BY <1>1, <1>3, <1>4, <1>5, ProcessKept DEF ConnectorFailure, FetcherRunning, FetcherPc
<1>8. TypeOK' /\ IsFiniteSet(files')
  BY <1>5, <1>6, <1>7 DEF ConnectorFailure, IInv, TypeOK
<1> QED
  BY <1>7, <1>8 DEF IInv

LEMMA EndRunInv == ASSUME IInv, NEW a \in Created, EndRun(a) PROVE IInv'
<1> DEFINE cp == [pos |-> fetcher[a].pos, more |-> fetcher[a].pos < Last(row[a].end)]
           f == [fetcher[a] EXCEPT !.pc = "savecp", !.cp = cp]
<1>1. a \in Attempts /\ fetcher[a].pc = "checked" /\ fetcher[a] \in Fetcher
  BY CreatedAttempts DEF IInv, TypeOK, EndRun
<1>2. cp \in Checkpoint
  <2>1. (fetcher[a].pos < Last(row[a].end)) \in BOOLEAN
    OBVIOUS
  <2> QED
    BY <1>1, <2>1 DEF Fetcher, Checkpoint
<1>3. f \in Fetcher /\ f.pc = "savecp"
  BY <1>1, <1>2 DEF Fetcher, FetcherPc
<1>4. fetcher' = [fetcher EXCEPT ![a] = f]
  BY DEF EndRun
<1> HIDE DEF f
<1>5. Inductive' /\ fetcher' \in [Attempts -> Fetcher]
  BY <1>1, <1>3, <1>4, ProcessKept DEF EndRun, FetcherRunning, FetcherPc
<1>6. TypeOK' /\ IsFiniteSet(files')
  BY <1>5 DEF EndRun, IInv, TypeOK
<1> QED
  BY <1>5, <1>6 DEF IInv

LEMMA HeartbeatInv == ASSUME IInv, NEW a \in Created, Heartbeat(a) PROVE IInv'
<1>1. TypeOK' /\ IsFiniteSet(files')
  BY CreatedAttempts, TouchType DEF Heartbeat, IInv, TypeOK
<1> QED
  BY <1>1, InductiveKept DEF IInv, Heartbeat

\* The docprocessing workers

\* What a broker delivery leaves in the queue is still a count.
LEMMA ReceiveType ==
    ASSUME TypeOK, NEW w \in Worker, NEW t \in Attempts \X BatchNums, Receive(w, t)
    PROVE  queue' \in [Attempts \X BatchNums -> Nat]
<1>1. queue[t] - 1 \in Nat
  BY DEF Receive, Queued, TypeOK
<1> QED
  BY <1>1 DEF Receive, TypeOK

LEMMA PickupInv == ASSUME IInv, NEW w \in Worker, Pickup(w) PROVE IInv'
<1>1. PICK f \in files :
        /\ Receive(w, <<f.att, f.num>>)
        /\ worker' = [worker EXCEPT ![w] = [pc |-> "index", att |-> f.att, num |-> f.num,
                                            page |-> f.page, bad |-> FALSE]]
        /\ MovePendingToInFlight(f.att)
        /\ Touch(f.att)
        /\ UNCHANGED <<row, faults>>
  BY DEF Pickup
<1>2. f.att \in Attempts /\ f.num \in BatchNums /\ f.page \in Pages
  BY DEF IInv, TypeOK, File
<1>3. [pc |-> "index", att |-> f.att, num |-> f.num, page |-> f.page, bad |-> FALSE]
        \in WorkerState
  BY <1>2 DEF WorkerState, WorkerPc
<1>4. worker' \in [Worker -> WorkerState]
  BY <1>1, <1>3 DEF IInv, TypeOK
<1>5. queue' \in [Attempts \X BatchNums -> Nat]
  <2>1. <<f.att, f.num>> \in Attempts \X BatchNums
    BY <1>2
  <2> QED
    BY <1>1, <2>1, ReceiveType DEF IInv
<1>6. pending' \in [Attempts -> Nat] /\ inFlight' \in [Attempts -> Nat]
  BY <1>1, <1>2 DEF MovePendingToInFlight, IInv, TypeOK
<1>7. newer' \subseteq Attempts \X Attempts
  BY <1>1, <1>2, TouchType DEF IInv, TypeOK
<1>8. TypeOK' /\ IsFiniteSet(files')
  BY <1>1, <1>4, <1>5, <1>6, <1>7 DEF Receive, IInv, TypeOK
<1> QED
  BY <1>1, <1>8, InductiveKept DEF IInv, Receive

LEMMA RefuseInv == ASSUME IInv, NEW w \in Worker, Refuse(w) PROVE IInv'
<1>1. PICK t \in Attempts \X BatchNums :
        /\ Receive(w, t)
        /\ pending' = [pending EXCEPT ![t[1]] = IF @ > 0 THEN @ - 1 ELSE 0]
        /\ Touch(t[1])
        /\ UNCHANGED <<row, inFlight, worker, faults>>
  BY DEF Refuse, Queued
<1>2. t[1] \in Attempts
  OBVIOUS
<1>3. queue' \in [Attempts \X BatchNums -> Nat]
  BY <1>1, ReceiveType DEF IInv
<1>4. pending' \in [Attempts -> Nat]
  BY <1>1, <1>2 DEF IInv, TypeOK
<1>5. newer' \subseteq Attempts \X Attempts
  BY <1>1, <1>2, TouchType DEF IInv, TypeOK
<1>6. TypeOK' /\ IsFiniteSet(files')
  BY <1>1, <1>3, <1>4, <1>5 DEF Receive, IInv, TypeOK
<1> QED
  BY <1>1, <1>6, InductiveKept DEF IInv, Receive

LEMMA UsageLimitHitInv == ASSUME IInv, NEW w \in Worker, UsageLimitHit(w) PROVE IInv'
<1>1. PICK t \in Attempts \X BatchNums :
        Receive(w, t) /\ Mark(t[1], "FAILED") /\ UNCHANGED worker /\ Fault
  BY DEF UsageLimitHit, Queued
<1>2. t[1] \in Attempts /\ "FAILED" \in Status
  BY DEF Status, Unfinished
<1>3. queue' \in [Attempts \X BatchNums -> Nat]
  BY <1>1, ReceiveType DEF IInv
<1>4. /\ row' \in [Attempts -> Row]
      /\ pending' \in [Attempts -> Nat] /\ inFlight' \in [Attempts -> Nat]
      /\ newer' \subseteq Attempts \X Attempts
      /\ \A b \in Attempts : row'[b].start = row[b].start /\ row'[b].end = row[b].end
  BY <1>1, <1>2, MarkType DEF IInv
<1>5. faults' \in 0..MaxFaults
  BY <1>1, BoundsAssumption DEF Fault, IInv, TypeOK
<1>6. TypeOK' /\ IsFiniteSet(files')
  BY <1>1, <1>3, <1>4, <1>5 DEF Receive, IInv, TypeOK
<1> QED
  BY <1>1, <1>4, <1>6, InductiveKept DEF IInv, Receive

LEMMA IndexInv == ASSUME IInv, NEW w \in Worker, Index(w) PROVE IInv'
<1>1. worker[w].page \in Pages
  BY DEF IInv, TypeOK, WorkerState
<1>2. worker' \in [Worker -> WorkerState]
  <2>1. CASE worker' = [worker EXCEPT ![w].pc = "count"]
    BY <2>1 DEF IInv, TypeOK, WorkerState, WorkerPc
  <2>2. CASE worker' = [worker EXCEPT ![w].pc = "count", ![w].bad = TRUE]
    <3>1. [worker[w] EXCEPT !.pc = "count", !.bad = TRUE] \in WorkerState
      BY DEF IInv, TypeOK, WorkerState, WorkerPc
    <3> QED
      BY <2>2, <3>1 DEF IInv, TypeOK
  <2> QED
    BY <2>1, <2>2 DEF Index
<1>3. faults' \in 0..MaxFaults
  BY BoundsAssumption DEF Index, Fault, IInv, TypeOK
<1>4. TypeOK' /\ IsFiniteSet(files')
  BY <1>1, <1>2, <1>3 DEF Index, IInv, TypeOK
<1> QED
  BY <1>4, InductiveKept DEF IInv, Index

LEMMA CountInv == ASSUME IInv, NEW w \in Worker, Count(w) PROVE IInv'
<1>1. worker[w].att \in Attempts
  BY DEF IInv, TypeOK, WorkerState
<1>2. row[worker[w].att].completed + 1 \in Nat
  BY <1>1 DEF IInv, TypeOK, Row
<1>3. /\ row' \in [Attempts -> Row]
      /\ \A b \in Attempts : row'[b].start = row[b].start /\ row'[b].end = row[b].end
  <2> DEFINE r == [row[worker[w].att] EXCEPT !.completed = @ + 1]
  <2>0. row[worker[w].att] \in Row
    BY <1>1 DEF IInv, TypeOK
  <2>1. /\ r \in Row
        /\ r.start = row[worker[w].att].start /\ r.end = row[worker[w].att].end
    BY <2>0, <1>2 DEF Row
  <2>2. row' = [row EXCEPT ![worker[w].att] = r]
    BY DEF Count
  <2> QED
    BY <1>1, <2>1, <2>2, RowKept DEF IInv
<1>4. worker' \in [Worker -> WorkerState]
  BY DEF Count, StepTo, IInv, TypeOK, WorkerState, WorkerPc
<1>5. TypeOK' /\ IsFiniteSet(files')
  BY <1>1, <1>3, <1>4, TouchType DEF Count, IInv, TypeOK
<1> QED
  BY <1>3, <1>5, InductiveKept DEF IInv, Count

LEMMA RecordInv == ASSUME IInv, NEW w \in Worker, Record(w) PROVE IInv'
<1>1. worker[w].att \in Attempts
  BY DEF IInv, TypeOK, WorkerState
<1>2. /\ row' \in [Attempts -> Row]
      /\ \A b \in Attempts : row'[b].start = row[b].start /\ row'[b].end = row[b].end
  <2> DEFINE r == [row[worker[w].att] EXCEPT !.errors = TRUE]
  <2>0. row[worker[w].att] \in Row
    BY <1>1 DEF IInv, TypeOK
  <2>1. /\ r \in Row
        /\ r.start = row[worker[w].att].start /\ r.end = row[worker[w].att].end
    BY <2>0 DEF Row
  <2>2. row' = [row EXCEPT ![worker[w].att] = r]
    BY DEF Record
  <2> QED
    BY <1>1, <2>1, <2>2, RowKept DEF IInv
<1>3. worker' \in [Worker -> WorkerState]
  BY DEF Record, StepTo, IInv, TypeOK, WorkerState, WorkerPc
<1>4. TypeOK' /\ IsFiniteSet(files')
  BY <1>2, <1>3 DEF Record, IInv, TypeOK
<1> QED
  BY <1>2, <1>4, InductiveKept DEF IInv, Record

\* The batch of a worker is no longer in flight.
LEMMA LeaveInFlightType ==
    ASSUME TypeOK, NEW a \in Attempts, LeaveInFlight(a)
    PROVE  inFlight' \in [Attempts -> Nat]
BY DEF LeaveInFlight, TypeOK

LEMMA DeleteInv == ASSUME IInv, NEW w \in Worker, Delete(w) PROVE IInv'
<1>1. worker[w].att \in Attempts
  BY DEF IInv, TypeOK, WorkerState
<1>2. files' \in SUBSET files
  BY DEF Delete
<1>3. IsFiniteSet(files')
  BY <1>2, FS_Subset DEF IInv
<1>4. worker' \in [Worker -> WorkerState]
  BY IdleTypes DEF Delete, IInv, TypeOK
<1>5. TypeOK'
  BY <1>1, <1>2, <1>4, LeaveInFlightType DEF Delete, IInv, TypeOK
<1> QED
  BY <1>3, <1>5, InductiveKept DEF IInv, Delete

LEMMA TaskFailsInv == ASSUME IInv, NEW w \in Worker, TaskFails(w) PROVE IInv'
<1>1. worker[w].att \in Attempts
  BY DEF IInv, TypeOK, WorkerState
<1>2. worker' \in [Worker -> WorkerState]
  BY IdleTypes DEF TaskFails, IInv, TypeOK
<1>3. faults' \in 0..MaxFaults
  BY BoundsAssumption DEF TaskFails, Fault, IInv, TypeOK
<1>4. TypeOK' /\ IsFiniteSet(files')
  BY <1>1, <1>2, <1>3, LeaveInFlightType DEF TaskFails, IInv, TypeOK
<1> QED
  BY <1>4, InductiveKept DEF IInv, TaskFails

LEMMA RedeliveredInv ==
    ASSUME IInv, NEW w \in Worker, Crash(w) \/ VisibilityTimeout(w)
    PROVE  IInv'
<1>1. Redelivered(w)
  BY DEF Crash, VisibilityTimeout
<1>2. worker' \in [Worker -> WorkerState]
  BY IdleTypes DEF Crash, VisibilityTimeout, IInv, TypeOK
<1>3. faults' \in 0..MaxFaults
  BY <1>1, BoundsAssumption DEF Redelivered, Fault, IInv, TypeOK
<1>4. queue' \in [Attempts \X BatchNums -> Nat]
  BY <1>1, CountUp DEF Redelivered, IInv, TypeOK
<1>5. TypeOK' /\ IsFiniteSet(files')
  BY <1>1, <1>2, <1>3, <1>4 DEF Redelivered, IInv, TypeOK
<1> QED
  BY <1>1, <1>5, InductiveKept DEF IInv, Redelivered

-----------------------------------------------------------------------------
(* Type correctness                                                          *)

LEMMA FetchStepInv == ASSUME IInv, NEW a \in Created, FetchStep(a) PROVE IInv'
BY BeginInv, BeginBlockedInv, OpenWindowInv, StartOverInv, LoadCheckpointInv, ListOldInv,
   SendOldInv, AdoptCountInv, SaveCheckpointInv, CheckInv, FetchBatchInv, EnqueueInv,
   ConnectorFailureInv, EndRunInv, SetTotalInv, StopFetchInv, FetchErrorInv
   DEF FetchStep

LEMMA StepInv == IInv /\ [Next]_vars => IInv'
<1> SUFFICES ASSUME IInv, [Next]_vars PROVE IInv'
  OBVIOUS
<1>1. CASE \E fromBeginning \in BOOLEAN : CreateAttempt(fromBeginning)
  BY <1>1, CreateAttemptInv
<1>2. CASE MonitorStep
  BY <1>2, VerdictInv, MonitorReadInv, MonitorMarkInv, MonitorCleanInv DEF MonitorStep
<1>3. CASE \/ MonitorTrouble
         \/ \E a \in Created : Invalidate(a) \/ ExpireNotStarted(a)
  BY <1>3, MonitorRaisesInv, MonitorStopsInv, VerdictInv DEF MonitorTrouble
<1>4. CASE Pause \/ Resume \/ DropStopFence
  BY <1>4, PauseInv, ResumeInv
<1>5. CASE \E a \in Created : \/ FetchStep(a) \/ FetchTrouble(a)
                            \/ WatchdogFails(a) \/ Heartbeat(a)
  BY <1>5, FetchStepInv, FetchErrorInv, FetchKilledInv, VerdictInv, HeartbeatInv
     DEF FetchTrouble
<1>6. CASE \E w \in Worker : WorkerStep(w) \/ WorkerTrouble(w)
  BY <1>6, PickupInv, RefuseInv, IndexInv, CountInv, RecordInv, DeleteInv,
     UsageLimitHitInv, TaskFailsInv, RedeliveredInv DEF WorkerStep, WorkerTrouble
<1>7. CASE UNCHANGED vars
  BY <1>7 DEF vars, IInv, TypeOK, Inductive, WindowOpen, PageInWindow, NoneBefore
<1> QED
  BY <1>1, <1>2, <1>3, <1>4, <1>5, <1>6, <1>7 DEF Next

\* The inductive invariant holds in every reachable state.
THEOREM Invariance == Spec => []IInv
<1>1. Init => IInv
  BY InitInv
<1>2. IInv /\ [Next]_vars => IInv'
  BY StepInv
<1> QED
  BY <1>1, <1>2, PTL DEF Spec

\* Every state of the pipeline is well-typed, whatever the environment does: the
\* counters never go negative, no page outside the window of an attempt is
\* fetched, no attempt resumes from a checkpoint that does not exist.
THEOREM TypeCorrect == Spec => []TypeOK
<1>1. IInv => TypeOK
  BY DEF IInv
<1> QED
  BY <1>1, Invariance, PTL

-----------------------------------------------------------------------------
(* An attempt ends once, and one is active at a time                         *)

\* A step moves at most one attempt, and that to a start or an end; or it creates
\* one, and then none is active.
Moves(a) ==
    /\ \A b \in Attempts \ {a} : row'[b].status = row[b].status
    /\ \/ row'[a].status = row[a].status
       \/ row'[a].status \in Successful \cup Unfinished
       \/ row[a].status = "NOT_STARTED" /\ row'[a].status = "IN_PROGRESS"
OneMoves == \E a \in Attempts : Moves(a)
ActiveKept == \A a \in Attempts : row'[a].status \in Active => IsActive(a)
Admits == /\ last' = last + 1
          /\ NoneActive
          /\ \A a \in Created : row'[a] = row[a]
Waits == /\ last + 1 \in Attempts
         /\ row'[last + 1].status = "NOT_STARTED"

LEMMA MovesKeep == ASSUME OneMoves PROVE ActiveKept
BY DEF OneMoves, Moves, ActiveKept, IsActive, Active, Successful, Unfinished

LEMMA MarkEnds ==
    ASSUME TypeOK, NEW a \in Attempts, NEW status \in Successful \cup Unfinished,
           Mark(a, status)
    PROVE  OneMoves
<1>1. Moves(a)
  BY DEF Mark, TypeOK, Row, Moves
<1> QED
  BY <1>1 DEF OneMoves

LEMMA SameStatus ==
    ASSUME \A a \in Attempts : row'[a].status = row[a].status
    PROVE  OneMoves
BY FirstOnes DEF OneMoves, Moves

LEMMA FetchStatus ==
    ASSUME TypeOK, NEW a \in Created, FetchStep(a) \/ FetchTrouble(a)
    PROVE  OneMoves /\ last' = last
<1> USE SameStatus, MarkEnds, CreatedAttempts
<1>1. CASE Begin(a)
  <2>1. Moves(a)
    BY <1>1 DEF Begin, NotStarted, TypeOK, Row, Moves
  <2> QED
    BY <1>1, <2>1 DEF Begin, OneMoves
<1>2. CASE OpenWindow(a) \/ AdoptCount(a) \/ SaveCheckpoint(a) \/ ConnectorFailure(a)
           \/ SetTotal(a)
  <2>1. \A b \in Attempts : row'[b].status = row[b].status
    <3>1. CASE OpenWindow(a)
      BY <3>1 DEF OpenWindow, TypeOK, Row
    <3>2. CASE AdoptCount(a)
      BY <3>2 DEF AdoptCount, TypeOK, Row
    <3>3. CASE SaveCheckpoint(a)
      BY <3>3 DEF SaveCheckpoint, TypeOK, Row
    <3>4. CASE ConnectorFailure(a)
      BY <3>4 DEF ConnectorFailure, TypeOK, Row
    <3>5. CASE SetTotal(a)
      BY <3>5 DEF SetTotal, TypeOK, Row
    <3> QED
      BY <1>2, <3>1, <3>2, <3>3, <3>4, <3>5
  <2> QED
    BY <1>2, <2>1 DEF OpenWindow, AdoptCount, SaveCheckpoint, ConnectorFailure, SetTotal
<1>3. CASE \/ BeginBlocked(a) \/ StartOver(a) \/ LoadCheckpoint(a) \/ ListOld(a)
           \/ SendOld(a) \/ Check(a) \/ FetchBatch(a) \/ Enqueue(a) \/ EndRun(a)
           \/ FetchKilled(a) \/ WatchdogKills(a) \/ LoseFetch(a)
  <2>1. row' = row /\ last' = last
    BY <1>3 DEF BeginBlocked, StartOver, LoadCheckpoint, ListOld, SendOld, Check,
       FetchBatch, Enqueue, EndRun, FetchKilled, WatchdogKills, Dies, LoseFetch
  <2> QED
    BY <2>1
<1>4. CASE StopFetch(a)
  BY <1>4 DEF StopFetch, Unfinished
<1>5. CASE MemoryLimitHit(a)
  BY <1>5 DEF MemoryLimitHit, Unfinished
<1>6. CASE FetchError(a) \/ NotRunningAnymore(a)
  <2>1. CASE \E status \in Unfinished : Mark(a, status)
    BY <1>6, <2>1 DEF FetchError, NotRunningAnymore, FailUnlessEnded
  <2>2. CASE row' = row
    BY <1>6, <2>2 DEF FetchError, NotRunningAnymore, FailUnlessEnded
  <2> QED
    BY <1>6, <2>1, <2>2
       DEF FetchError, NotRunningAnymore, FailUnlessEnded, Unfinished
<1> QED
  BY <1>1, <1>2, <1>3, <1>4, <1>5, <1>6 DEF FetchStep, FetchTrouble

LEMMA WorkerStatus ==
    ASSUME TypeOK, NEW w \in Worker, WorkerStep(w) \/ WorkerTrouble(w)
    PROVE  OneMoves /\ last' = last
<1>1. CASE Count(w) \/ Record(w)
  <2>1. \A b \in Attempts : row'[b].status = row[b].status
    <3>1. CASE Count(w)
      BY <3>1 DEF Count, TypeOK, Row
    <3>2. CASE Record(w)
      BY <3>2 DEF Record, TypeOK, Row
    <3> QED
      BY <1>1, <3>1, <3>2
  <2> QED
    BY <1>1, <2>1, SameStatus DEF Count, Record
<1>2. CASE UsageLimitHit(w)
  <2>1. PICK t \in Attempts \X BatchNums : Receive(w, t) /\ Mark(t[1], "FAILED")
    BY <1>2 DEF UsageLimitHit, Queued
  <2> QED
    BY <2>1, MarkEnds DEF Receive, Unfinished
<1>3. CASE \/ Pickup(w) \/ Refuse(w) \/ Index(w) \/ Delete(w) \/ TaskFails(w)
           \/ Crash(w) \/ VisibilityTimeout(w)
  <2>1. row' = row /\ last' = last
    BY <1>3 DEF Pickup, Refuse, Index, Delete, TaskFails, Crash, VisibilityTimeout,
       Receive, Redelivered
  <2> QED
    BY <2>1, SameStatus
<1> QED
  BY <1>1, <1>2, <1>3 DEF WorkerStep, WorkerTrouble

LEMMA MonitorStatus ==
    ASSUME TypeOK,
           \/ MonitorStep \/ MonitorTrouble \/ Pause \/ Resume \/ DropStopFence
           \/ \E a \in Created : \/ Invalidate(a) \/ ExpireNotStarted(a)
                                \/ WatchdogFails(a) \/ Heartbeat(a)
    PROVE  OneMoves /\ last' = last
<1>1. CASE \E a \in Created : \/ MonitorCancel(a) \/ Invalidate(a) \/ InvalidateBlindly(a)
                            \/ ExpireNotStarted(a) \/ WatchdogFails(a)
  BY <1>1, MarkEnds, CreatedAttempts
     DEF MonitorCancel, Invalidate, InvalidateBlindly, ExpireNotStarted, WatchdogFails,
         Unfinished
<1>2. CASE MonitorMark \/ MonitorRaises
  <2>1. monitor.att \in Attempts
    BY DEF TypeOK, MonitorState
  <2> QED
    BY <1>2, <2>1, MarkEnds, SameStatus
       DEF MonitorMark, MonitorRaises, Successful, Unfinished
<1>3. CASE Pause
  <2>1. \A b \in Attempts : row'[b].status = row[b].status
    BY <1>3 DEF Pause, TypeOK, Row
  <2> QED
    BY <1>3, <2>1, SameStatus DEF Pause
<1>4. CASE \/ MonitorClean \/ MonitorStops \/ Resume \/ DropStopFence
           \/ \E a \in Created : MonitorRead(a) \/ Heartbeat(a)
  BY <1>4, SameStatus DEF MonitorClean, MonitorStops, Resume, DropStopFence, MonitorRead,
     Heartbeat
<1> QED
  BY <1>1, <1>2, <1>3, <1>4 DEF MonitorStep, MonitorTrouble

LEMMA CreateAdmits ==
    ASSUME TypeOK, NEW f \in BOOLEAN, CreateAttempt(f)
    PROVE  Admits /\ Waits
<1>1. last + 1 \notin Created
  BY BoundsAssumption DEF Created, TypeOK
<1>2. \A a \in Created : row'[a] = row[a]
  BY <1>1, CreatedAttempts DEF CreateAttempt, TypeOK
<1>3. last + 1 \in Attempts
  BY BoundsAssumption DEF CreateAttempt, TypeOK, Attempts
<1>4. row'[last + 1].status = "NOT_STARTED"
  BY <1>3 DEF CreateAttempt, TypeOK, NewRow
<1> QED
  BY <1>2, <1>3, <1>4 DEF CreateAttempt, Admits, Waits

LEMMA StatusStep ==
    ASSUME TypeOK, [Next]_vars
    PROVE  (OneMoves /\ last' = last) \/ (Admits /\ Waits)
<1>1. CASE UNCHANGED vars
  BY <1>1, SameStatus DEF vars
<1> QED
  BY <1>1, FetchStatus, WorkerStatus, MonitorStatus, CreateAdmits DEF Next

\* At most one attempt of the cc pair is active, under every hazard: neither a late
\* task nor a surviving process makes a second one active.
THEOREM OneActive == Spec => []SingleActive
<1>1. Init => SingleActive
  BY DEF Init, SingleActive, Created
<1>2. TypeOK /\ SingleActive /\ [Next]_vars => SingleActive'
  <2> SUFFICES ASSUME TypeOK, SingleActive, [Next]_vars,
                      NEW a \in Created', NEW b \in Created',
                      IsActive(a)', IsActive(b)'
               PROVE  a = b
    BY DEF SingleActive
  <2>1. CASE OneMoves /\ last' = last
    BY <2>1, MovesKeep, CreatedAttempts DEF ActiveKept, IsActive, SingleActive, Created
  <2>2. CASE Admits
    <3>1. \A c \in Created : ~IsActive(c)'
      BY <2>2 DEF Admits, NoneActive, IsActive, IsTerminal
    <3>2. Created' = Created \cup {last'}
      BY <2>2, BoundsAssumption DEF Admits, Created, TypeOK
    <3> QED
      BY <3>1, <3>2
  <2> QED
    BY <2>1, <2>2, StatusStep
<1> QED
  BY <1>1, <1>2, TypeCorrect, PTL DEF Spec

\* An attempt that ended is never active again, under every hazard: no late task,
\* watchdog or surviving process revives it.
THEOREM EndedStaysEnded == Spec => NoResurrection
<1>1. TypeOK /\ [Next]_vars
        => [\A a \in Created : IsTerminal(a) => row'[a].status \notin Active]_vars
  <2> SUFFICES ASSUME TypeOK, [Next]_vars, NEW a \in Created, IsTerminal(a)
               PROVE  row'[a].status \notin Active
    OBVIOUS
  <2> QED
    BY StatusStep, MovesKeep, CreatedAttempts DEF ActiveKept, Admits, IsActive, IsTerminal
<1> QED
  BY <1>1, TypeCorrect, PTL DEF Spec, NoResurrection

-----------------------------------------------------------------------------
(* The refinement of AttemptLifecycle                                        *)

LEMMA PhaseInit == ASSUME Init PROVE Lifecycle!Init
BY BoundsAssumption DEF Init, Lifecycle!Init, Lifecycle!Attempts, Attempts, Phase

\* The creation of an attempt is Create: those before it have ended.
LEMMA PhaseCreate == ASSUME TypeOK, Admits, Waits PROVE Lifecycle!Next
<1> SUFFICES ASSUME NEW n \in Attempts, n = last + 1 PROVE Lifecycle!Next
  BY DEF Waits
<1>1. last' = n /\ last \in Nat /\ n \in Nat
  BY BoundsAssumption DEF Admits, Attempts, TypeOK
<1>2. \A a \in Attempts : a < n => Phase(a) = "ended" /\ Phase(a)' = "ended"
  <2> SUFFICES ASSUME NEW a \in Attempts, a < n PROVE Phase(a) = "ended" /\ Phase(a)' = "ended"
    OBVIOUS
  <2>1. a \in Created /\ ~(a > last) /\ ~(a > last')
    BY <1>1, BoundsAssumption DEF Created, Attempts
  <2>2. row'[a] = row[a] /\ row[a].status \notin {"NOT_STARTED", "IN_PROGRESS"}
    BY <2>1 DEF Admits, NoneActive, IsTerminal, Active
  <2> QED
    BY <2>1, <2>2 DEF Phase
<1>3. \A a \in Attempts : a > n => Phase(a) = "absent" /\ Phase(a)' = "absent"
  BY <1>1, BoundsAssumption DEF Phase, Attempts
<1>4. Phase(n) = "absent" /\ Phase(n)' = "waiting"
  BY <1>1 DEF Phase, Waits
<1>5. \A a \in Attempts : a < n \/ a = n \/ a > n
  BY <1>1, BoundsAssumption DEF Attempts
<1>6. Lifecycle!Create(n)
  BY <1>1, <1>2, <1>3, <1>4, <1>5 DEF Lifecycle!Create, Lifecycle!Attempts, Attempts
<1> QED
  BY <1>6 DEF Lifecycle!Next, Lifecycle!Attempts, Attempts

\* Any other step starts or ends one attempt, or is not seen.
LEMMA PhaseMove ==
    ASSUME TypeOK, OneMoves, last' = last
    PROVE  Lifecycle!Next \/ [a \in Attempts |-> Phase(a)]' = [a \in Attempts |-> Phase(a)]
<1>1. PICK a \in Attempts : Moves(a)
  BY DEF OneMoves
<1>2. \A b \in Attempts \ {a} : Phase(b)' = Phase(b)
  BY <1>1 DEF Moves, Phase
<1>3. CASE Phase(a)' = Phase(a)
  BY <1>2, <1>3
<1>4. CASE Phase(a)' # Phase(a)
  <2>1. ~(a > last) /\ ~(a > last')
    BY <1>4 DEF Phase
  <2>2. \/ Phase(a) \in {"waiting", "running"} /\ Phase(a)' = "ended"
        \/ Phase(a) = "waiting" /\ Phase(a)' = "running"
    <3>1. CASE row'[a].status \in Successful \cup Unfinished
      BY <1>4, <2>1, <3>1 DEF Phase, Successful, Unfinished
    <3>2. CASE row[a].status = "NOT_STARTED" /\ row'[a].status = "IN_PROGRESS"
      BY <2>1, <3>2 DEF Phase
    <3>3. CASE row'[a].status = row[a].status
      BY <1>4, <2>1, <3>3 DEF Phase
    <3> QED
      BY <1>1, <3>1, <3>2, <3>3 DEF Moves
  <2>3. Lifecycle!End(a) \/ Lifecycle!Start(a)
    BY <1>2, <2>2 DEF Lifecycle!End, Lifecycle!Start
  <2> QED
    BY <2>3 DEF Lifecycle!Next, Lifecycle!Attempts, Attempts
<1> QED
  BY <1>3, <1>4

\* The scheduler implements the life cycle of AttemptLifecycle, under every hazard:
\* attempts are created one after the other, started once, and never taken back.
THEOREM ImplementsLifecycle == Spec => KeepsLifecycle
<1>1. TypeOK /\ [Next]_vars => [Lifecycle!Next]_([a \in Attempts |-> Phase(a)])
  BY StatusStep, PhaseCreate, PhaseMove
<1> QED
  BY <1>1, PhaseInit, TypeCorrect, PTL DEF Spec, KeepsLifecycle, Lifecycle!Spec
=============================================================================

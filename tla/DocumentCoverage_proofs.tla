----------------------- MODULE DocumentCoverage_proofs -----------------------
(* No document is skipped by DocumentIndexing, for every value of the        *)
(* constants, when the connector is checkpointed and the environment shows   *)
(* none of HazardKinds.                                                      *)
EXTENDS DocumentIndexing_proofs

NoHazards == Hazards = {} /\ Checkpointed

-----------------------------------------------------------------------------
(* The inductive invariant                                                   *)

Before  == {"none", "lost", "window"}
Adopted == {"save", "yield", "checked", "enqueue", "savecp", "total"}
Reading == {"yield", "checked", "enqueue"}

Busy(w)      == worker[w].pc # "idle"
Uncounted(w) == worker[w].pc \in {"index", "count"}
Counted(w)   == worker[w].pc \in {"record", "delete"}

\* Work goes on for the latest attempt only.
OnlyLatest ==
    /\ \A a \in Attempts : fetcher[a].pc \in FetcherRunning => a = last
    /\ \A a \in Attempts, n \in BatchNums : a # last => queue[<<a, n>>] = 0
    /\ \A w \in Worker : Busy(w) => worker[w].att = last
    /\ monitor.pc # "idle" => monitor.att = last
    /\ \A a \in Created : a # last => IsTerminal(a)

\* The rows were updated in the order of their creation.
NewestFirst == \A a, b \in Created : <<a, b>> \in newer <=> a > b

\* Numbers start from zero unless batches are adopted.
FromZero == \A a \in Attempts : fetcher[a].pc \in {"none", "window", "resume"} => fetcher[a].num = 0

\* Windows follow one another; those of a row of retries are the same.
WindowsOrdered ==
    /\ \A a \in Created : row[a].end # Null => row[a].start <= row[a].end
    /\ \A a, b \in Created : a < b /\ row[a].end # Null /\ row[b].end # Null
           => row[a].end <= row[b].end
    /\ \A a, b, c \in Created : a < b /\ b < c /\ row[a].end # Null /\ row[a].end = row[c].end
           => row[b].end = row[a].end

StartAt(e) == IF e > PollOffset THEN e - PollOffset ELSE 0
LastSuccess(e) == e \in SuccessEnds /\ \A f \in SuccessEnds : f <= e
\* The successful windows before attempt a.
EndsBefore(a) == {row[b].end : b \in {c \in Created : c < a /\ row[c].status = "SUCCESS"}} \cup {0}
StartsAfter(e, a) == e \in EndsBefore(a) /\ (\A f \in EndsBefore(a) : f <= e) /\ row[a].start = StartAt(e)

\* Only what was not finished is retried, and from the same start.
Retries ==
    /\ \A a, b \in Created : a < b /\ row[a].end # Null /\ row[a].end = row[b].end
           => row[a].status \in Unfinished
    /\ \A a \in Created : row[a].fromBeginning => a > 1 /\ row[a - 1].status \in Successful
    /\ \A a \in Created : row[a].end # Null /\ ~row[a].fromBeginning
           => \E e \in Ticks : StartsAfter(e, a)

PagesOf(F) == {f.page : f \in F}
\* The pages of the window of a up to p are indexed, or in a file.
Covered(a, p) == \A q \in Last(row[a].start) + 1 .. p : q \in handled \cup PagesOf(files)
\* The window of c may still be resumed.
Live(c) ==
    \A d \in Created : d > c =>
        \/ row[d].end = row[c].end /\ row[d].start = row[c].start
        \/ d = last /\ row[d].end = Null
Within(cp, a) == cp.pos <= Last(row[a].end) /\ (~cp.more => cp.pos = Last(row[a].end))

\* A checkpoint that may be resumed from does not run ahead of what is kept.
Checkpoints ==
    \A a \in Created : row[a].checkpoint # NoCheckpoint =>
        /\ row[a].end # Null
        /\ Within(row[a].checkpoint, a)
        /\ Live(a) => Covered(a, row[a].checkpoint.pos)

\* Nothing is left to do before a window.
StartsCovered == \A a \in Created : row[a].end # Null => 1..Last(row[a].start) \subseteq handled

\* The process has read the row of the attempt before its own, or its own if that
\* was canceled before the window was opened.
Follows(a) ==
    /\ fetcher[a].prev = IF a = 1 THEN 0 ELSE row[a - 1].completed
    /\ fetcher[a].prevOk <=> (a # 1 /\ row[a - 1].status \in Successful)
Anew(a) ==
    /\ fetcher[a].pc = "resume" /\ ~fetcher[a].prevOk
    /\ \A b \in Created : b # a => row[b].end # row[a].end

\* The row and the process of the latest attempt agree on how far it is.
Fresh(a) == row[a].completed = 0 /\ row[a].total = Null /\ row[a].checkpoint = NoCheckpoint
Opened(a) ==
    /\ fetcher[a].pc \in Before => row[a].end = Null
    /\ fetcher[a].pc \in Before \cup FetcherResuming => Fresh(a)
    /\ fetcher[a].pc \in FetcherRunning \ {"window"} => row[a].end # Null /\ row[a].total = Null
    /\ row[a].total # Null => fetcher[a].pc = "done" /\ row[a].end # Null
    /\ fetcher[a].pc \in FetcherResuming => Follows(a) \/ Anew(a)

\* What the latest attempt has read is kept.
Progress(a) ==
    /\ fetcher[a].pc \in {"list", "send"} \cup Adopted =>
           Within(fetcher[a].cp, a) /\ Covered(a, fetcher[a].cp.pos)
    /\ fetcher[a].pc \in Reading =>
           fetcher[a].pos <= Last(row[a].end) /\ Covered(a, fetcher[a].pos)
    /\ fetcher[a].pc = "enqueue" =>
           fetcher[a].pos < Last(row[a].end) /\ Covered(a, fetcher[a].pos + 1)
    /\ fetcher[a].pc = "total" => ~fetcher[a].cp.more
    /\ row[a].total # Null => Covered(a, Last(row[a].end))

\* No task is sent before the batches are adopted, and none taken before they are
\* counted.
NotSent(a) ==
    /\ row[a].end = Null \/ fetcher[a].pc \in {"resume", "list"} =>
           \A n \in BatchNums : queue[<<a, n>>] = 0
    /\ row[a].end = Null \/ fetcher[a].pc \in FetcherResuming =>
           \A w \in Worker : ~Busy(w)

\* The files that will stay.
Standing == {f \in files : \A w \in Worker : Counted(w) => worker[w].num # f.num}
Rest(m) == {f \in Standing : f.num # m}
\* As many batches, standing or counted, as the numbers in use.
Bound(k) == \A f \in files : f.num < Cardinality(Standing) + k

\* The next batch number is free, also for the attempt that will adopt the files.
FreeNumbers(a) ==
    /\ row[a].end # Null /\ fetcher[a].pc \notin FetcherResuming => Bound(row[a].completed)
    /\ (row[a].end = Null \/ fetcher[a].pc = "resume") /\ a # 1 /\ row[a - 1].end # Null
           => Bound(row[a - 1].completed)
    /\ fetcher[a].pc = "list" => Bound(fetcher[a].prev)
    /\ fetcher[a].pc = "send" => \A g \in files : g.num < fetcher[a].old + fetcher[a].prev
    /\ fetcher[a].pc \in Adopted =>
           /\ \A g \in files : g.num < fetcher[a].num
                               \/ (fetcher[a].pc = "enqueue" /\ g.num = fetcher[a].num)
           /\ fetcher[a].num <= Cardinality(Rest(fetcher[a].num)) + row[a].completed
    /\ fetcher[a].pc = "enqueue" =>
           fetcher[a].num \in BatchNums /\ \E g \in files : g.num = fetcher[a].num
    /\ row[a].total # Null => \A g \in files : g.num < row[a].total

\* Tasks are sent for files, one for each.
TasksForFiles(a) ==
    /\ fetcher[a].pc = "send" =>
           /\ fetcher[a].old = Cardinality(files)
           /\ Distinct(fetcher[a].todo)
           /\ \A g \in fetcher[a].todo :
                  (\E h \in files : h.num = g.num) /\ queue[<<a, g.num>>] = 0
           /\ \A n \in BatchNums : queue[<<a, n>>] > 0 => \E h \in files : h.num = n
    /\ fetcher[a].pc \in Adopted =>
           /\ \A n \in BatchNums : queue[<<a, n>>] > 0 => n < fetcher[a].num
           /\ \A w \in Worker : Busy(w) => worker[w].num < fetcher[a].num

\* A batch is worked on once at a time.
OneTask(a) ==
    /\ \A n \in BatchNums : queue[<<a, n>>] <= 1
    /\ \A w \in Worker : Busy(w) => queue[<<a, worker[w].num>>] = 0
    /\ \A v, w \in Worker : Busy(v) /\ Busy(w) /\ worker[v].num = worker[w].num => v = w

\* The batches of attempt a that are not counted.
Open(a) ==
    {n \in BatchNums : \/ queue[<<a, n>>] > 0
                       \/ \E w \in Worker : Uncounted(w) /\ worker[w].num = n
                       \/ \E f \in files : f.num = n /\ f.page \notin handled}
\* A batch is counted once.
CountsOnce(a) ==
    /\ fetcher[a].pc \in Adopted =>
           row[a].completed + Cardinality(Open(a) \ {fetcher[a].num}) <= fetcher[a].num
    /\ row[a].total # Null => row[a].completed + Cardinality(Open(a)) <= row[a].total

\* A worker holds the batch that is in the file, and counts what it has indexed.
HoldsFile ==
    \A w \in Worker : Busy(w) =>
        /\ \A f \in files : f.num = worker[w].num => f.page = worker[w].page
        /\ worker[w].pc # "index" => worker[w].page \in handled

\* A verdict rests on counts that do not change any more.
Verdicts ==
    /\ NoDocumentSkipped
    /\ monitor.pc = "mark" => IsActive(last) /\ Complete(last)
    /\ monitor.pc = "clean" => row[last].status \in Successful
    /\ monitor.pc = "handler" => Complete(last)
    /\ last # 0 /\ row[last].status \in Successful => Complete(last)

Latest(a) ==
    /\ Opened(a) /\ Progress(a) /\ NotSent(a) /\ FreeNumbers(a)
    /\ TasksForFiles(a) /\ OneTask(a) /\ CountsOnce(a)

Past == NewestFirst /\ WindowsOrdered /\ Retries /\ StartsCovered

CInv ==
    /\ IInv
    /\ OnlyLatest /\ FromZero
    /\ Past /\ Checkpoints
    /\ Distinct(files) /\ HoldsFile
    /\ last # 0 => Latest(last)
    /\ Verdicts

-----------------------------------------------------------------------------
(* What a step leaves alone                                                  *)

SameWindows ==
    \A b \in Attempts : /\ row'[b].start = row[b].start
                        /\ row'[b].end = row[b].end
                        /\ row'[b].fromBeginning = row[b].fromBeginning
SameCheckpoints == \A b \in Attempts : row'[b].checkpoint = row[b].checkpoint
SameCounts ==
    \A b \in Attempts : row'[b].completed = row[b].completed /\ row'[b].total = row[b].total
SameStatuses == \A b \in Attempts : row'[b].status = row[b].status
\* Only the latest attempt gets a verdict.
StatusFrame == \A b \in Attempts \ {last} : row'[b].status = row[b].status
Touched == newer' = newer \/ Touch(last)
KeptPages == handled \cup PagesOf(files)

LEMMA TouchLatest ==
    ASSUME IInv, NewestFirst, last' = last, Touched
    PROVE  NewestFirst'
<1> SUFFICES ASSUME NEW a \in Created, NEW b \in Created
             PROVE  <<a, b>> \in newer' <=> a > b
  BY DEF NewestFirst, Created
<1>1. a \in Attempts /\ b \in Attempts /\ a <= last /\ b <= last /\ last \in Nat
  BY CreatedAttempts DEF IInv, TypeOK, Created
<1>2. CASE newer' = newer
  BY <1>2 DEF NewestFirst
<1>3. CASE Touch(last)
  <2>1. CASE b = last
    BY <1>1, <1>3, <2>1 DEF Touch, Attempts
  <2>2. CASE b # last /\ a = last
    BY <1>1, <1>3, <2>2 DEF Touch, Attempts
  <2>3. CASE b # last /\ a # last
    BY <1>1, <1>3, <2>3 DEF Touch, Attempts, NewestFirst
  <2> QED
    BY <2>1, <2>2, <2>3
<1> QED
  BY <1>2, <1>3 DEF Touched

\* The windows that succeeded, and what was retried, stay as they are.
LEMMA RetriesKept ==
    ASSUME IInv, Retries, last' = last, SameWindows, StatusFrame
    PROVE  Retries'
<1>1. Created' = Created /\ Created \subseteq Attempts /\ last \in Nat
  BY CreatedAttempts DEF IInv, TypeOK, Created
<1>2. ASSUME NEW a \in Created, NEW b \in Created, a < b,
             row'[a].end # Null, row'[a].end = row'[b].end
      PROVE  row'[a].status \in Unfinished
  BY <1>1, <1>2 DEF Retries, SameWindows, StatusFrame, Created
<1>3. ASSUME NEW a \in Created, row'[a].fromBeginning
      PROVE  a > 1 /\ row'[a - 1].status \in Successful
  <2>1. row[a].fromBeginning
    BY <1>1, <1>3 DEF SameWindows
  <2>2. a > 1 /\ row[a - 1].status \in Successful
    BY <2>1 DEF Retries
  <2>3. a - 1 \in Created /\ a - 1 # last
    BY <1>1, <2>2 DEF Created
  <2> QED
    BY <1>1, <2>2, <2>3 DEF StatusFrame
<1>4. ASSUME NEW a \in Created, row'[a].end # Null, ~row'[a].fromBeginning
      PROVE  \E e \in Ticks : StartsAfter(e, a)'
  <2>1. a \in Int /\ a <= last /\ \A b \in Created : b \in Attempts /\ b \in Int
    BY <1>1 DEF Created
  <2>2. \A b \in Created : b < a => b # last /\ row'[b].status = row[b].status
    BY <1>1, <2>1 DEF StatusFrame
  <2>3. EndsBefore(a)' = EndsBefore(a)
    BY <1>1, <2>2 DEF EndsBefore, SameWindows
  <2>4. row[a].end # Null /\ ~row[a].fromBeginning /\ row'[a].start = row[a].start
    BY <1>1, <1>4 DEF SameWindows
  <2> QED
    BY <2>3, <2>4 DEF Retries, StartsAfter
<1>5. Created' = Created
  BY <1>1
<1> QED
  BY <1>2, <1>3, <1>4, <1>5 DEF Retries

LEMMA PastKept ==
    ASSUME IInv, Past, last' = last, Touched, SameWindows, StatusFrame,
           handled \subseteq handled'
    PROVE  Past'
<1>1. Created' = Created /\ Created \subseteq Attempts
  BY CreatedAttempts DEF IInv, Created
<1>2. WindowsOrdered'
  BY <1>1 DEF Past, WindowsOrdered, SameWindows
<1>3. StartsCovered'
  <2> SUFFICES ASSUME NEW a \in Created, row'[a].end # Null
               PROVE  1..Last(row'[a].start) \subseteq handled'
    BY <1>1 DEF StartsCovered
  <2> QED
    BY <1>1 DEF Past, StartsCovered, SameWindows
<1> QED
  BY <1>2, <1>3, TouchLatest, RetriesKept DEF Past

LEMMA CheckpointsKept ==
    ASSUME IInv, Checkpoints, last' = last, SameWindows, SameCheckpoints,
           KeptPages \subseteq KeptPages'
    PROVE  Checkpoints'
<1>1. Created' = Created /\ Created \subseteq Attempts
  BY CreatedAttempts DEF IInv, Created
<1> SUFFICES ASSUME NEW a \in Created, row'[a].checkpoint # NoCheckpoint
             PROVE  /\ row'[a].end # Null
                    /\ Within(row[a].checkpoint, a)'
                    /\ Live(a)' => Covered(a, row[a].checkpoint.pos)'
  BY <1>1 DEF Checkpoints
<1>2. /\ row'[a].checkpoint = row[a].checkpoint
      /\ row'[a].start = row[a].start /\ row'[a].end = row[a].end
  BY <1>1 DEF SameWindows, SameCheckpoints
<1>3. /\ row[a].end # Null
      /\ Within(row[a].checkpoint, a)
      /\ Live(a) => Covered(a, row[a].checkpoint.pos)
  BY <1>2 DEF Checkpoints
<1>4. Live(a)' => Live(a)
  BY <1>1 DEF Live, SameWindows
<1>5. Within(row[a].checkpoint, a)'
  BY <1>2, <1>3 DEF Within
<1>6. Covered(a, row[a].checkpoint.pos) => Covered(a, row[a].checkpoint.pos)'
  BY <1>2 DEF Covered, KeptPages
<1> QED
  BY <1>2, <1>3, <1>4, <1>5, <1>6

-----------------------------------------------------------------------------
(* What a complete attempt means                                             *)

LEMMA NumbersFinite ==
    ASSUME NEW S, S \subseteq BatchNums
    PROVE  IsFiniteSet(S) /\ Cardinality(S) \in Nat
<1>1. IsFiniteSet(BatchNums)
  BY FS_Interval, BoundsAssumption DEF BatchNums
<1> QED
  BY <1>1, FS_Subset, FS_CardinalityType

LEMMA OpenNumbers == \A a : Open(a) \subseteq BatchNums
BY DEF Open

LEMMA LatestAttempt ==
    ASSUME IInv, last # 0
    PROVE  last \in Attempts /\ last \in Created /\ row[last] \in Row /\ fetcher[last] \in Fetcher
BY BoundsAssumption DEF IInv, TypeOK, Attempts, Created

\* Nothing is on its way any more when the counts agree.
LEMMA CompleteMeansHandled ==
    ASSUME CInv, last # 0, Complete(last)
    PROVE  /\ fetcher[last].pc = "done" /\ row[last].end # Null
           /\ \A n \in BatchNums : queue[<<last, n>>] = 0
           /\ \A w \in Worker : ~Uncounted(w)
           /\ \A f \in files : f.page \in handled
           /\ 1..Last(row[last].end) \subseteq handled
<1>1. last \in Attempts /\ last \in Created /\ row[last] \in Row
  BY LatestAttempt DEF CInv
<1>2. row[last].total # Null /\ row[last].total \in Nat /\ row[last].completed \in Nat
      /\ row[last].completed >= row[last].total
  BY <1>1 DEF Complete, Row
<1>3. Cardinality(Open(last)) \in Nat /\ IsFiniteSet(Open(last))
  BY NumbersFinite, OpenNumbers
<1>4. row[last].completed + Cardinality(Open(last)) <= row[last].total
  BY <1>2 DEF CInv, Latest, CountsOnce
<1>5. Cardinality(Open(last)) = 0
  BY <1>2, <1>3, <1>4
<1>6. Open(last) = {}
  BY <1>3, <1>5, FS_EmptySet
<1>7. fetcher[last].pc = "done" /\ row[last].end # Null
  BY <1>2 DEF CInv, Latest, Opened
<1>8. \A n \in BatchNums : queue[<<last, n>>] = 0
  <2>1. \A n \in BatchNums : ~(queue[<<last, n>>] > 0)
    BY <1>6 DEF Open
  <2>2. \A n \in BatchNums : queue[<<last, n>>] \in Nat
    BY <1>1 DEF CInv, IInv, TypeOK
  <2> QED
    BY <2>1, <2>2
<1>9. \A w \in Worker : ~Uncounted(w)
  BY <1>6 DEF Open, CInv, IInv, TypeOK, WorkerState
<1>10. \A f \in files : f.page \in handled
  BY <1>6 DEF Open, CInv, IInv, TypeOK, File
<1>11. 1..Last(row[last].end) \subseteq handled
  <2>1. Covered(last, Last(row[last].end))
    BY <1>2 DEF CInv, Latest, Progress
  <2>2. Last(row[last].start) + 1 .. Last(row[last].end) \subseteq handled
    BY <2>1, <1>10 DEF Covered, PagesOf
  <2>3. 1..Last(row[last].start) \subseteq handled
    BY <1>1, <1>7 DEF CInv, Past, StartsCovered
  <2>4. Last(row[last].start) \in Int /\ Last(row[last].end) \in Int
    <3>1. row[last].start \in Int /\ row[last].end \in Int /\ PerTick \in Int
      BY <1>1, BoundsAssumption DEF Row, Ticks, Null
    <3> QED
      BY <3>1 DEF Last
  <2> QED
    BY <2>2, <2>3, <2>4
<1> QED
  BY <1>7, <1>8, <1>9, <1>10, <1>11

LEMMA VerdictsKept ==
    ASSUME IInv, OnlyLatest, Verdicts, last' = last, monitor' = monitor, handled \subseteq handled',
           SameStatuses, SameWindows, SameCounts
    PROVE  Verdicts'
<1>1. Created' = Created /\ Created \subseteq Attempts /\ (last # 0 => last \in Attempts)
  BY CreatedAttempts, LatestAttempt DEF IInv, Created
<1>2. NoDocumentSkipped'
  <2> SUFFICES ASSUME NEW a \in Created, row'[a].status \in Successful
               PROVE  1..Last(row'[a].end) \subseteq handled'
    BY <1>1 DEF NoDocumentSkipped
  <2> QED
    BY <1>1 DEF Verdicts, NoDocumentSkipped, SameStatuses, SameWindows
<1>3. last # 0 => (Complete(last)' <=> Complete(last)) /\ (IsActive(last)' <=> IsActive(last))
                  /\ (row'[last].status \in Successful <=> row[last].status \in Successful)
  BY <1>1 DEF Complete, IsActive, SameCounts, SameStatuses
<1>4. monitor.pc # "idle" => last # 0
  BY BoundsAssumption DEF OnlyLatest, IInv, TypeOK, MonitorState, Attempts
<1> QED
  BY <1>2, <1>3, <1>4 DEF Verdicts

\* The latest attempt has no verdict yet, or the monitor has nothing to do with it.
LEMMA StillUndecided ==
    ASSUME CInv, last # 0, last' = last, monitor' = monitor, handled \subseteq handled',
           \A b \in Attempts \ {last} : row'[b] = row[b],
           row'[last].status \notin Successful,
           monitor.pc = "idle" \/ ~Complete(last)
    PROVE  Verdicts'
<1>1. Created' = Created /\ Created \subseteq Attempts
  BY CreatedAttempts DEF CInv, IInv, Created
<1>2. NoDocumentSkipped'
  <2> SUFFICES ASSUME NEW a \in Created, row'[a].status \in Successful
               PROVE  1..Last(row'[a].end) \subseteq handled'
    BY <1>1 DEF NoDocumentSkipped
  <2>1. row'[a] = row[a]
    BY <1>1
  <2> QED
    BY <2>1 DEF CInv, Verdicts, NoDocumentSkipped
<1>3. monitor.pc \notin {"mark", "clean", "handler"}
  BY DEF CInv, Verdicts
<1> QED
  BY <1>2, <1>3 DEF Verdicts

-----------------------------------------------------------------------------
(* Steps that leave the rows' counts, the files and the pages alone          *)

QuietWorker(w) ==
    \/ worker'[w] = worker[w]
    \/ worker'[w].pc = "idle"
    \/ /\ worker[w].pc = "record" /\ worker'[w].pc = "delete"
       /\ worker'[w].att = worker[w].att
       /\ worker'[w].num = worker[w].num
       /\ worker'[w].page = worker[w].page

QuietFetcher(a) ==
    \/ fetcher'[a] = fetcher[a]
    \/ /\ \/ fetcher'[a].pc \in {"dead", "done"}
          \/ fetcher[a].pc = "none" /\ fetcher'[a].pc = "lost"
       /\ fetcher[a].pc \notin FetcherResuming \cup {"done"}
    \/ /\ a = last
       /\ \/ fetcher[a].pc = "none" /\ fetcher'[a].pc = "window"
          \/ fetcher[a].pc = "yield" /\ fetcher'[a].pc = "checked"
       /\ fetcher'[a].num = fetcher[a].num
       /\ fetcher'[a].cp = fetcher[a].cp
       /\ fetcher'[a].pos = fetcher[a].pos

Quiet ==
    /\ last' = last /\ files' = files /\ handled' = handled
    /\ SameWindows /\ SameCheckpoints /\ SameCounts
    /\ \A t \in Attempts \X BatchNums : queue'[t] <= queue[t]
    /\ \A w \in Worker : QuietWorker(w)
    /\ \A a \in Attempts : QuietFetcher(a)

LEMMA QuietOnlyLatest ==
    ASSUME IInv, IInv', OnlyLatest, Quiet, StatusFrame,
           monitor'.pc # "idle" => monitor'.att = last
    PROVE  OnlyLatest'
<1>1. Created' = Created /\ Created \subseteq Attempts /\ last' = last
  BY CreatedAttempts DEF IInv, Created, Quiet
<1>2. \A a \in Attempts : fetcher'[a].pc \in FetcherRunning => a = last
  BY DEF Quiet, QuietFetcher, OnlyLatest, FetcherRunning, FetcherPc
<1>3. \A a \in Attempts, n \in BatchNums : a # last => queue'[<<a, n>>] = 0
  <2> SUFFICES ASSUME NEW a \in Attempts, NEW n \in BatchNums, a # last
               PROVE  queue'[<<a, n>>] = 0
    OBVIOUS
  <2>1. queue[<<a, n>>] = 0 /\ queue'[<<a, n>>] \in Nat /\ queue'[<<a, n>>] <= queue[<<a, n>>]
    BY DEF OnlyLatest, Quiet, IInv, TypeOK
  <2> QED
    BY <2>1
<1>4. \A w \in Worker : Busy(w)' => worker'[w].att = last
  BY DEF Quiet, QuietWorker, OnlyLatest, Busy
<1>5. \A a \in Created : a # last => IsTerminal(a)'
  BY <1>1 DEF OnlyLatest, StatusFrame, IsTerminal
<1> QED
  BY <1>1, <1>2, <1>3, <1>4, <1>5 DEF OnlyLatest

LEMMA QuietFromZero == ASSUME FromZero, Quiet PROVE FromZero'
BY DEF FromZero, Quiet, QuietFetcher, FetcherResuming

LEMMA QuietHoldsFile == ASSUME HoldsFile, Quiet PROVE HoldsFile'
<1> SUFFICES ASSUME NEW w \in Worker, Busy(w)'
             PROVE  /\ \A f \in files : f.num = worker'[w].num => f.page = worker'[w].page
                    /\ worker'[w].pc # "index" => worker'[w].page \in handled
  BY DEF HoldsFile, Quiet
<1>1. QuietWorker(w)
  BY DEF Quiet
<1>2. /\ Busy(w) /\ worker'[w].num = worker[w].num /\ worker'[w].page = worker[w].page
      /\ worker'[w].pc # "index" => worker[w].pc # "index"
  BY <1>1 DEF QuietWorker, Busy
<1> QED
  BY <1>2 DEF HoldsFile

LEMMA StandingFinite ==
    ASSUME IsFiniteSet(files)
    PROVE  /\ IsFiniteSet(Standing) /\ Cardinality(Standing) \in Nat
           /\ \A m : IsFiniteSet(Rest(m)) /\ Cardinality(Rest(m)) \in Nat
<1>1. Standing \subseteq files /\ \A m : Rest(m) \subseteq files
  BY DEF Standing, Rest
<1> QED
  BY <1>1, FS_Subset, FS_CardinalityType

\* More files stay: the bounds on the numbers still hold.
LEMMA StandingGrows ==
    ASSUME IsFiniteSet(files), IsFiniteSet(files'), files' \subseteq files, files \subseteq File,
           Standing \subseteq Standing'
    PROVE  /\ \A k \in Nat : Bound(k) => Bound(k)'
           /\ \A m : /\ Cardinality(Rest(m)) <= Cardinality(Rest(m)')
                     /\ Cardinality(Rest(m)) \in Nat /\ Cardinality(Rest(m)') \in Nat
<1>1. /\ IsFiniteSet(Standing') /\ Cardinality(Standing') \in Nat
      /\ \A m : IsFiniteSet(Rest(m)') /\ Cardinality(Rest(m)') \in Nat
  <2>1. Standing' \subseteq files' /\ \A m : Rest(m)' \subseteq files'
    BY DEF Standing, Rest
  <2> QED
    BY <2>1, FS_Subset, FS_CardinalityType
<1>2. Cardinality(Standing) <= Cardinality(Standing') /\ Cardinality(Standing) \in Nat
  BY <1>1, FS_Subset, StandingFinite
<1>3. \A m : Rest(m) \subseteq Rest(m)'
  BY DEF Rest
<1>4. \A m : Cardinality(Rest(m)) <= Cardinality(Rest(m)')
  BY <1>1, <1>3, FS_Subset
<1>5. ASSUME NEW k \in Nat, Bound(k) PROVE Bound(k)'
  <2> SUFFICES ASSUME NEW f \in files' PROVE f.num < Cardinality(Standing') + k
    BY DEF Bound
  <2>1. f.num < Cardinality(Standing) + k /\ f.num \in Nat
    BY <1>5 DEF Bound, File, BatchNums
  <2> QED
    BY <1>1, <1>2, <2>1
<1> QED
  BY <1>1, <1>4, <1>5, StandingFinite

\* Fewer batches are open.
LEMMA OpenShrinks ==
    ASSUME NEW a, Open(a)' \subseteq Open(a)
    PROVE  /\ Cardinality(Open(a)') <= Cardinality(Open(a))
           /\ \A m : Cardinality(Open(a)' \ {m}) <= Cardinality(Open(a) \ {m})
           /\ Cardinality(Open(a)) \in Nat /\ Cardinality(Open(a)') \in Nat
           /\ \A m : Cardinality(Open(a) \ {m}) \in Nat /\ Cardinality(Open(a)' \ {m}) \in Nat
<1>1. Open(a) \subseteq BatchNums /\ Open(a)' \subseteq BatchNums
  BY OpenNumbers
<1>2. /\ IsFiniteSet(Open(a)) /\ Cardinality(Open(a)) \in Nat
      /\ IsFiniteSet(Open(a)') /\ Cardinality(Open(a)') \in Nat
  BY <1>1, NumbersFinite
<1>3. \A m : /\ IsFiniteSet(Open(a) \ {m}) /\ Cardinality(Open(a) \ {m}) \in Nat
             /\ IsFiniteSet(Open(a)' \ {m}) /\ Cardinality(Open(a)' \ {m}) \in Nat
  <2> SUFFICES ASSUME NEW m
               PROVE  /\ IsFiniteSet(Open(a) \ {m}) /\ Cardinality(Open(a) \ {m}) \in Nat
                      /\ IsFiniteSet(Open(a)' \ {m}) /\ Cardinality(Open(a)' \ {m}) \in Nat
    OBVIOUS
  <2>1. Open(a) \ {m} \subseteq BatchNums /\ Open(a)' \ {m} \subseteq BatchNums
    BY <1>1
  <2> QED
    BY <2>1, NumbersFinite
<1>4. \A m : Open(a)' \ {m} \subseteq Open(a) \ {m}
  OBVIOUS
<1>5. Cardinality(Open(a)') <= Cardinality(Open(a))
  BY <1>2, FS_Subset
<1>6. \A m : Cardinality(Open(a)' \ {m}) <= Cardinality(Open(a) \ {m})
  BY <1>3, <1>4, FS_Subset
<1> QED
  BY <1>2, <1>3, <1>5, <1>6

\* What a quiet step does to the process, the workers and the tasks.
LEMMA QuietProcess ==
    ASSUME Quiet, last \in Attempts
    PROVE  /\ \/ fetcher'[last].pc = fetcher[last].pc /\ fetcher'[last] = fetcher[last]
              \/ /\ fetcher'[last].pc \in {"dead", "done", "lost"}
                 /\ fetcher[last].pc \notin FetcherResuming \cup {"done"}
                 /\ fetcher'[last].pc = "lost" => fetcher[last].pc = "none"
              \/ /\ \/ fetcher[last].pc = "none" /\ fetcher'[last].pc = "window"
                    \/ fetcher[last].pc = "yield" /\ fetcher'[last].pc = "checked"
                 /\ fetcher'[last].num = fetcher[last].num
                 /\ fetcher'[last].cp = fetcher[last].cp
                 /\ fetcher'[last].pos = fetcher[last].pos
BY DEF Quiet, QuietFetcher

LEMMA QuietWorkers ==
    ASSUME Quiet
    PROVE  /\ \A w \in Worker : Busy(w)' => Busy(w) /\ worker'[w].num = worker[w].num
           /\ \A w \in Worker : Uncounted(w)' => Uncounted(w)
           /\ \A w \in Worker : Counted(w)' => Counted(w)
BY DEF Quiet, QuietWorker, Busy, Uncounted, Counted

LEMMA QuietTasks ==
    ASSUME IInv, IInv', Quiet, last \in Attempts
    PROVE  \A n \in BatchNums : /\ queue[<<last, n>>] \in Nat /\ queue'[<<last, n>>] \in Nat
                                /\ queue'[<<last, n>>] <= queue[<<last, n>>]
BY DEF Quiet, IInv, TypeOK

LEMMA QuietOpened ==
    ASSUME IInv, last # 0, Opened(last), Quiet, StatusFrame
    PROVE  Opened(last)'
<1>1. last \in Attempts /\ last' = last /\ Created \subseteq Attempts /\ Created' = Created
  BY LatestAttempt, CreatedAttempts DEF Quiet, IInv, Created
<1>2. /\ row'[last].start = row[last].start /\ row'[last].end = row[last].end
      /\ row'[last].checkpoint = row[last].checkpoint
      /\ row'[last].completed = row[last].completed /\ row'[last].total = row[last].total
  BY <1>1 DEF Quiet, SameWindows, SameCheckpoints, SameCounts
<1>3. fetcher'[last].pc \in Before => row'[last].end = Null
  BY <1>1, <1>2, QuietProcess DEF Opened, Before
<1>4. fetcher'[last].pc \in Before \cup FetcherResuming => Fresh(last)'
  <2>1. Fresh(last)' <=> Fresh(last)
    BY <1>1, <1>2 DEF Fresh
  <2> QED
    BY <1>1, <2>1, QuietProcess DEF Opened, Before, FetcherResuming
<1>5. fetcher'[last].pc \in FetcherRunning \ {"window"}
         => row'[last].end # Null /\ row'[last].total = Null
  BY <1>1, <1>2, QuietProcess DEF Opened, FetcherRunning, FetcherPc
<1>6. row'[last].total # Null => fetcher'[last].pc = "done" /\ row'[last].end # Null
  BY <1>1, <1>2, QuietProcess DEF Opened
<1>7. fetcher'[last].pc \in FetcherResuming => Follows(last)' \/ Anew(last)'
  <2> SUFFICES ASSUME fetcher'[last].pc \in FetcherResuming
               PROVE  Follows(last)' \/ Anew(last)'
    OBVIOUS
  <2>1. fetcher'[last] = fetcher[last] /\ fetcher[last].pc \in FetcherResuming
    BY <1>1, QuietProcess DEF FetcherResuming
  <2>2. last # 1 => /\ last - 1 \in Attempts /\ row'[last - 1].status = row[last - 1].status
                    /\ row'[last - 1].completed = row[last - 1].completed
    BY <1>1, BoundsAssumption DEF Attempts, StatusFrame, Quiet, SameCounts
  <2>3. Follows(last) => Follows(last)'
    BY <1>1, <2>1, <2>2 DEF Follows
  <2>4. Anew(last) => Anew(last)'
    BY <1>1, <2>1 DEF Anew, Quiet, SameWindows
  <2> QED
    BY <2>1, <2>3, <2>4 DEF Opened
<1> QED
  BY <1>1, <1>3, <1>4, <1>5, <1>6, <1>7 DEF Opened

LEMMA QuietProgress ==
    ASSUME IInv, last # 0, Opened(last), Progress(last), Quiet
    PROVE  Progress(last)'
<1>1. last \in Attempts /\ last' = last
  BY LatestAttempt DEF Quiet
<1>2. row'[last].start = row[last].start /\ row'[last].end = row[last].end
      /\ row'[last].total = row[last].total
  BY <1>1 DEF Quiet, SameWindows, SameCounts
<1>3. \A p : Covered(last, p)' <=> Covered(last, p)
  BY <1>1, <1>2 DEF Covered, Quiet
<1>4. \A cp : Within(cp, last)' <=> Within(cp, last)
  BY <1>1, <1>2 DEF Within
<1>5. /\ fetcher'[last].pc \in {"list", "send"} \cup Adopted =>
           Within(fetcher[last].cp, last)' /\ Covered(last, fetcher[last].cp.pos)'
  BY <1>1, <1>3, <1>4, QuietProcess DEF Progress, Adopted
<1>6. fetcher'[last].pc \in Reading =>
           fetcher'[last].pos <= Last(row'[last].end) /\ Covered(last, fetcher[last].pos)'
  BY <1>1, <1>2, <1>3, QuietProcess DEF Progress, Reading
<1>7. fetcher'[last].pc = "enqueue" =>
           fetcher'[last].pos < Last(row'[last].end) /\ Covered(last, fetcher[last].pos + 1)'
  BY <1>1, <1>2, <1>3, QuietProcess DEF Progress
<1>8. fetcher'[last].pc = "total" => ~fetcher'[last].cp.more
  BY <1>1, QuietProcess DEF Progress
<1>9. row'[last].total # Null => Covered(last, Last(row[last].end))'
  BY <1>1, <1>2, <1>3 DEF Progress
<1> QED
  BY <1>1, <1>5, <1>6, <1>7, <1>8, <1>9 DEF Progress

LEMMA QuietTaskParts ==
    ASSUME IInv, IInv', last # 0, Quiet, NotSent(last), TasksForFiles(last), OneTask(last)
    PROVE  NotSent(last)' /\ TasksForFiles(last)' /\ OneTask(last)'
<1>1. last \in Attempts /\ last' = last /\ files' = files
  BY LatestAttempt DEF Quiet
<1>2. row'[last].end = row[last].end
  BY <1>1 DEF Quiet, SameWindows
<1>3. \A n \in BatchNums : queue[<<last, n>>] = 0 => queue'[<<last, n>>] = 0
  BY <1>1, QuietTasks
<1>4. NotSent(last)'
  BY <1>1, <1>2, <1>3, QuietProcess, QuietWorkers DEF NotSent, FetcherResuming
<1>5. TasksForFiles(last)'
  <2>1. ASSUME fetcher'[last].pc = "send"
        PROVE  /\ fetcher'[last].old = Cardinality(files')
               /\ Distinct(fetcher[last].todo)'
               /\ \A g \in fetcher'[last].todo :
                      (\E h \in files' : h.num = g.num) /\ queue'[<<last, g.num>>] = 0
               /\ \A n \in BatchNums : queue'[<<last, n>>] > 0 => \E h \in files' : h.num = n
    <3>1. fetcher'[last] = fetcher[last] /\ fetcher[last].pc = "send"
      BY <1>1, <2>1, QuietProcess
    <3>2. \A g \in fetcher[last].todo : g.num \in BatchNums
      BY LatestAttempt DEF Fetcher, File
    <3>3. \A n \in BatchNums : queue'[<<last, n>>] > 0 => queue[<<last, n>>] > 0
      BY <1>1, QuietTasks
    <3> QED
      BY <1>1, <1>3, <3>1, <3>2, <3>3 DEF TasksForFiles, Distinct
  <2>2. ASSUME fetcher'[last].pc \in Adopted
        PROVE  /\ \A n \in BatchNums : queue'[<<last, n>>] > 0 => n < fetcher'[last].num
               /\ \A w \in Worker : Busy(w)' => worker'[w].num < fetcher'[last].num
    <3>1. fetcher'[last].num = fetcher[last].num /\ fetcher[last].pc \in Adopted
      BY <1>1, <2>2, QuietProcess DEF Adopted
    <3>2. \A n \in BatchNums : queue'[<<last, n>>] > 0 => queue[<<last, n>>] > 0
      BY <1>1, QuietTasks
    <3> QED
      BY <3>1, <3>2, QuietWorkers DEF TasksForFiles
  <2> QED
    BY <1>1, <2>1, <2>2 DEF TasksForFiles
<1>6. OneTask(last)'
  <2>1. \A n \in BatchNums : queue'[<<last, n>>] <= 1
    BY <1>1, QuietTasks DEF OneTask
  <2>2. \A w \in Worker : Busy(w)' => queue'[<<last, worker'[w].num>>] = 0
    <3>1. \A w \in Worker : worker[w].num \in BatchNums
      BY DEF IInv, TypeOK, WorkerState
    <3> QED
      BY <1>3, <3>1, QuietWorkers DEF OneTask
  <2>3. \A v, w \in Worker : Busy(v)' /\ Busy(w)' /\ worker'[v].num = worker'[w].num => v = w
    BY QuietWorkers DEF OneTask
  <2> QED
    BY <1>1, <2>1, <2>2, <2>3 DEF OneTask
<1> QED
  BY <1>4, <1>5, <1>6

LEMMA QuietFreeNumbers ==
    ASSUME IInv, IInv', last # 0, Quiet, FreeNumbers(last)
    PROVE  FreeNumbers(last)'
<1>1. last \in Attempts /\ last' = last /\ files' = files /\ row[last] \in Row
      /\ fetcher[last] \in Fetcher
  BY LatestAttempt DEF Quiet
<1>2. row'[last].end = row[last].end /\ row'[last].completed = row[last].completed
      /\ row[last].completed \in Nat
  BY <1>1 DEF Quiet, SameWindows, SameCounts, Row
<1>3. Standing \subseteq Standing'
  BY <1>1, QuietWorkers DEF Standing, Counted, Busy
<1>4. /\ \A k \in Nat : Bound(k) => Bound(k)'
      /\ \A m : /\ Cardinality(Rest(m)) <= Cardinality(Rest(m)')
                /\ Cardinality(Rest(m)) \in Nat /\ Cardinality(Rest(m)') \in Nat
  BY <1>1, <1>3, StandingGrows DEF IInv, TypeOK
<1>5. row'[last].end # Null /\ fetcher'[last].pc \notin FetcherResuming
          => Bound(row[last].completed)'
  BY <1>1, <1>2, <1>4, QuietProcess DEF FreeNumbers, FetcherResuming
<1>6. (row'[last].end = Null \/ fetcher'[last].pc = "resume") /\ last # 1
       /\ row'[last - 1].end # Null => Bound(row[last - 1].completed)'
  <2> SUFFICES ASSUME last # 1, row'[last].end = Null \/ fetcher'[last].pc = "resume",
                      row'[last - 1].end # Null
               PROVE  Bound(row[last - 1].completed)'
    OBVIOUS
  <2>1. last - 1 \in Attempts
    BY <1>1, BoundsAssumption DEF Attempts
  <2>2. row'[last - 1].end = row[last - 1].end
        /\ row'[last - 1].completed = row[last - 1].completed
        /\ row[last - 1].completed \in Nat
    BY <2>1 DEF Quiet, SameWindows, SameCounts, IInv, TypeOK, Row
  <2>3. row[last].end = Null \/ fetcher[last].pc = "resume"
    BY <1>1, <1>2, QuietProcess
  <2>4. Bound(row[last - 1].completed)
    BY <2>2, <2>3 DEF FreeNumbers
  <2> QED
    BY <1>1, <1>4, <2>2, <2>4
<1>7. fetcher'[last].pc = "list" => Bound(fetcher[last].prev)'
  <2>1. fetcher[last].prev \in Nat
    BY <1>1 DEF Fetcher
  <2> QED
    BY <1>1, <1>4, <2>1, QuietProcess DEF FreeNumbers
<1>8. fetcher'[last].pc = "send"
          => \A g \in files' : g.num < fetcher'[last].old + fetcher'[last].prev
  BY <1>1, QuietProcess DEF FreeNumbers
<1>9. ASSUME fetcher'[last].pc \in Adopted
      PROVE  /\ \A g \in files' : g.num < fetcher'[last].num
                     \/ (fetcher'[last].pc = "enqueue" /\ g.num = fetcher'[last].num)
             /\ fetcher'[last].num <= Cardinality(Rest(fetcher[last].num)') + row'[last].completed
  <2>1. /\ fetcher'[last].num = fetcher[last].num /\ fetcher[last].pc \in Adopted
        /\ fetcher[last].pc = "enqueue" => fetcher'[last].pc = "enqueue"
        /\ fetcher[last].num \in Nat
    BY <1>1, <1>9, QuietProcess DEF Adopted, Fetcher
  <2>2. \A g \in files' : g.num < fetcher'[last].num
                     \/ (fetcher'[last].pc = "enqueue" /\ g.num = fetcher'[last].num)
    BY <1>1, <2>1 DEF FreeNumbers
  <2>3. PICK m \in Nat : m = fetcher[last].num
    BY <2>1
  <2>4. m <= Cardinality(Rest(m)) + row[last].completed
    BY <2>1, <2>3 DEF FreeNumbers
  <2>5. m <= Cardinality(Rest(m)') + row'[last].completed
    BY <1>2, <1>4, <2>4
  <2>6. fetcher'[last].num <= Cardinality(Rest(fetcher[last].num)') + row'[last].completed
    BY <1>1, <2>1, <2>3, <2>5
  <2> QED
    BY <2>2, <2>6
<1>10. fetcher'[last].pc = "enqueue" =>
           fetcher'[last].num \in BatchNums /\ \E g \in files' : g.num = fetcher'[last].num
  BY <1>1, QuietProcess DEF FreeNumbers
<1>11. row'[last].total # Null => \A g \in files' : g.num < row'[last].total
  BY <1>1 DEF FreeNumbers, Quiet, SameCounts
<1> QED
  BY <1>1, <1>5, <1>6, <1>7, <1>8, <1>9, <1>10, <1>11 DEF FreeNumbers

LEMMA QuietCountsOnce ==
    ASSUME IInv, IInv', last # 0, Quiet, CountsOnce(last)
    PROVE  CountsOnce(last)'
<1>1. last \in Attempts /\ last' = last /\ files' = files /\ handled' = handled
      /\ row[last] \in Row /\ fetcher[last] \in Fetcher
  BY LatestAttempt DEF Quiet
<1>2. row'[last].completed = row[last].completed /\ row'[last].total = row[last].total
      /\ row[last].completed \in Nat /\ row[last].total \in Nat \cup {Null}
  BY <1>1 DEF Quiet, SameCounts, Row
<1>3. Open(last)' \subseteq Open(last)
  <2>1. \A n \in BatchNums : queue'[<<last, n>>] > 0 => queue[<<last, n>>] > 0
    BY <1>1, QuietTasks
  <2>2. \A w \in Worker : Uncounted(w)' => Uncounted(w) /\ worker'[w].num = worker[w].num
    BY QuietWorkers DEF Busy, Uncounted
  <2> QED
    BY <1>1, <2>1, <2>2 DEF Open
<1>4. ASSUME fetcher'[last].pc \in Adopted
      PROVE  row'[last].completed + Cardinality(Open(last)' \ {fetcher'[last].num})
                 <= fetcher'[last].num
  <2>1. fetcher'[last].num = fetcher[last].num /\ fetcher[last].pc \in Adopted
        /\ fetcher[last].num \in Nat
    BY <1>1, <1>4, QuietProcess DEF Adopted, Fetcher
  <2>2. row[last].completed + Cardinality(Open(last) \ {fetcher[last].num}) <= fetcher[last].num
    BY <2>1 DEF CountsOnce
  <2>3. Cardinality(Open(last)' \ {fetcher[last].num}) <= Cardinality(Open(last) \ {fetcher[last].num})
        /\ Cardinality(Open(last)' \ {fetcher[last].num}) \in Nat
        /\ Cardinality(Open(last) \ {fetcher[last].num}) \in Nat
    BY <1>1, <1>3, OpenShrinks
  <2> QED
    BY <1>2, <2>1, <2>2, <2>3
<1>5. row'[last].total # Null => row'[last].completed + Cardinality(Open(last)') <= row'[last].total
  <2>1. Cardinality(Open(last)') <= Cardinality(Open(last))
        /\ Cardinality(Open(last)) \in Nat /\ Cardinality(Open(last)') \in Nat
    BY <1>1, <1>3, OpenShrinks
  <2> QED
    BY <1>2, <2>1 DEF CountsOnce
<1> QED
  BY <1>1, <1>4, <1>5 DEF CountsOnce

LEMMA QuietStep ==
    ASSUME CInv, IInv', Quiet, StatusFrame, Touched, Verdicts',
           monitor'.pc # "idle" => monitor'.att = last
    PROVE  CInv'
<1>1. last' = last /\ handled \subseteq handled' /\ SameWindows /\ SameCheckpoints
      /\ KeptPages \subseteq KeptPages'
  BY DEF Quiet, KeptPages
<1>2. OnlyLatest' /\ FromZero' /\ HoldsFile'
  BY QuietOnlyLatest, QuietFromZero, QuietHoldsFile DEF CInv
<1>3. Past' /\ Checkpoints'
  BY <1>1, PastKept, CheckpointsKept DEF CInv
<1>4. Distinct(files)'
  BY DEF Quiet, CInv, Distinct
<1>5. last' # 0 => Latest(last)'
  <2> SUFFICES ASSUME last # 0 PROVE Latest(last)'
    BY <1>1
  <2>1. Latest(last)
    BY DEF CInv
  <2>2. Opened(last)' /\ Progress(last)'
    BY <2>1, QuietOpened, QuietProgress DEF CInv, Latest
  <2>3. NotSent(last)' /\ TasksForFiles(last)' /\ OneTask(last)'
    BY <2>1, QuietTaskParts DEF CInv, Latest
  <2>4. FreeNumbers(last)' /\ CountsOnce(last)'
    BY <2>1, QuietFreeNumbers, QuietCountsOnce DEF CInv, Latest
  <2> QED
    BY <2>2, <2>3, <2>4 DEF Latest
<1> QED
  BY <1>2, <1>3, <1>4, <1>5 DEF CInv

LEMMA ActiveIsLatest ==
    ASSUME CInv, NEW a \in Created, IsActive(a)
    PROVE  a = last /\ last # 0 /\ last \in Attempts
<1>1. a = last
  BY DEF CInv, OnlyLatest, IsActive, IsTerminal
<1> QED
  BY <1>1, CreatedAttempts, BoundsAssumption DEF CInv, IInv, Attempts

LEMMA MarkLatest ==
    ASSUME IInv, last \in Attempts, NEW status, Mark(last, status)
    PROVE  /\ SameWindows /\ SameCheckpoints /\ SameCounts /\ Touched
           /\ \A b \in Attempts \ {last} : row'[b] = row[b]
           /\ row'[last].status = status
<1>1. row \in [Attempts -> Row] /\ row' = [row EXCEPT ![last].status = status]
  BY DEF IInv, TypeOK, Mark
<1>2. \A b \in Attempts : /\ row'[b].start = row[b].start /\ row'[b].end = row[b].end
                          /\ row'[b].checkpoint = row[b].checkpoint
                          /\ row'[b].completed = row[b].completed
                          /\ row'[b].total = row[b].total
  BY <1>1 DEF Row
<1>3. \A b \in Attempts : row'[b].fromBeginning = row[b].fromBeginning
  BY <1>1 DEF Row
<1>4. \A b \in Attempts \ {last} : row'[b] = row[b]
  BY <1>1
<1>5. row'[last].status = status
  BY <1>1 DEF Row
<1> QED
  BY <1>2, <1>3, <1>4, <1>5 DEF SameWindows, SameCheckpoints, SameCounts, Touched, Mark

\* Rows, monitor, cc pair and counters may change; nothing else does.
LEMMA QuietByRow ==
    ASSUME IInv, SameWindows, SameCheckpoints, SameCounts,
           UNCHANGED <<last, files, handled, queue, worker, fetcher>>
    PROVE  Quiet
<1>1. \A t \in Attempts \X BatchNums : queue'[t] <= queue[t]
  BY DEF IInv, TypeOK
<1> QED
  BY <1>1 DEF Quiet, QuietWorker, QuietFetcher

LEMMA RunningIsLatest ==
    ASSUME CInv, NEW a \in Attempts, fetcher[a].pc \in FetcherRunning
    PROVE  /\ a = last /\ last # 0 /\ Latest(last) /\ row[last].total = Null
           /\ ~Complete(last) /\ row[last].status \notin Successful
<1>1. a = last /\ last # 0
  BY BoundsAssumption DEF CInv, OnlyLatest, Attempts
<1>2. Latest(last)
  BY <1>1 DEF CInv
<1>3. row[last].total = Null
  BY <1>1, <1>2 DEF Latest, Opened, FetcherRunning, FetcherPc
<1>4. ~Complete(last)
  BY <1>3 DEF Complete
<1> QED
  BY <1>1, <1>2, <1>3, <1>4 DEF CInv, Verdicts

\* Verdicts other than those of a process, a task or the monitor's cleanup.
LEMMA VerdictOnLatest ==
    ASSUME CInv, NEW a \in Created,
           \/ MonitorCancel(a) \/ Invalidate(a) \/ ExpireNotStarted(a) \/ WatchdogFails(a)
           \/ InvalidateBlindly(a) \/ MemoryLimitHit(a)
    PROVE  /\ a = last /\ last # 0 /\ last \in Attempts
           /\ row[a].status \notin Successful
           /\ \E status \in Unfinished : Mark(a, status)
           /\ UNCHANGED <<last, files, queue, fetcher, worker, monitor, handled>>
<1>1. /\ \E status \in Unfinished : Mark(a, status)
      /\ UNCHANGED <<last, files, queue, fetcher, worker, monitor, handled>>
  BY DEF MonitorCancel, Invalidate, InvalidateBlindly, ExpireNotStarted, WatchdogFails,
     MemoryLimitHit, Unfinished
<1>2. CASE MemoryLimitHit(a)
  BY <1>1, <1>2, CreatedAttempts, RunningIsLatest DEF MemoryLimitHit, CInv, IInv
<1>3. CASE ~MemoryLimitHit(a)
  <2>1. IsActive(a)
    BY <1>3 DEF MonitorCancel, CancelRequested, Invalidate, InvalidateBlindly, HeartbeatStale,
       ExpireNotStarted, WatchdogFails, IsActive, Active
  <2> QED
    BY <1>1, <2>1, ActiveIsLatest DEF IsActive, Active, Successful
<1> QED
  BY <1>2, <1>3

LEMMA VerdictStep ==
    ASSUME CInv, IInv', NEW a \in Created,
           \/ MonitorCancel(a) \/ Invalidate(a) \/ ExpireNotStarted(a) \/ WatchdogFails(a)
           \/ InvalidateBlindly(a) \/ MemoryLimitHit(a)
    PROVE  CInv'
<1>1. a = last /\ last # 0 /\ last \in Attempts
  BY VerdictOnLatest
<1>2. PICK status \in Unfinished : Mark(last, status)
  BY <1>1, VerdictOnLatest
<1>3. UNCHANGED <<last, files, queue, fetcher, worker, monitor, handled>>
  BY VerdictOnLatest
<1>4. /\ SameWindows /\ SameCheckpoints /\ SameCounts /\ Touched
      /\ \A b \in Attempts \ {last} : row'[b] = row[b]
      /\ row'[last].status = status
  BY <1>1, <1>2, MarkLatest DEF CInv
<1>5. Quiet
  BY <1>3, <1>4, QuietByRow DEF CInv
<1>6. row'[last].status \notin Successful
  BY <1>4 DEF Successful, Unfinished
<1>7. StatusFrame
  BY <1>4 DEF StatusFrame
<1>8. monitor.pc = "idle" \/ ~Complete(last)
  BY <1>1, CompleteMeansHandled
     DEF MonitorCancel, Invalidate, InvalidateBlindly, HeartbeatStale, ExpireNotStarted,
         WatchdogFails, MemoryLimitHit, FetcherRunning
<1>9. Verdicts'
  BY <1>1, <1>3, <1>4, <1>6, <1>8, StillUndecided
<1>10. monitor'.pc # "idle" => monitor'.att = last
  BY <1>3 DEF CInv, OnlyLatest
<1> QED
  BY <1>4, <1>5, <1>7, <1>9, <1>10, QuietStep

\* Steps that leave the rows alone, or update only what no part looks at.
LEMMA QuietKeepsVerdicts ==
    ASSUME CInv, IInv', Quiet, SameStatuses, Touched, monitor' = monitor
    PROVE  CInv'
<1>1. StatusFrame
  BY DEF SameStatuses, StatusFrame
<1>2. Verdicts'
  BY VerdictsKept DEF CInv, Quiet
<1>3. monitor'.pc # "idle" => monitor'.att = last
  BY DEF CInv, OnlyLatest
<1> QED
  BY <1>1, <1>2, <1>3, QuietStep

LEMMA SameRows ==
    ASSUME row' = row
    PROVE  SameWindows /\ SameCheckpoints /\ SameCounts /\ SameStatuses
BY DEF SameWindows, SameCheckpoints, SameCounts, SameStatuses

LEMMA MonitorReadStep ==
    ASSUME CInv, IInv', NEW a \in Created, MonitorRead(a)
    PROVE  CInv'
<1>1. a = last /\ last # 0 /\ last \in Attempts /\ IsActive(last) /\ Complete(last)
  BY ActiveIsLatest DEF MonitorRead
<1>2. UNCHANGED <<row, last, newer, files, queue, fetcher, worker, handled>>
  BY DEF MonitorRead
<1>3. SameWindows /\ SameCheckpoints /\ SameCounts /\ SameStatuses
  BY <1>2, SameRows
<1>4. Quiet /\ Touched /\ StatusFrame
  BY <1>2, <1>3, QuietByRow DEF CInv, Touched, SameStatuses, StatusFrame
<1>5. monitor'.pc = "mark" /\ monitor'.att = last
  BY <1>1 DEF MonitorRead
<1>6. Verdicts'
  BY <1>1, <1>2, <1>5 DEF CInv, Verdicts, NoDocumentSkipped, Created, IsActive, Complete
<1> QED
  BY <1>4, <1>5, <1>6, QuietStep

LEMMA MonitorMarkStep == ASSUME CInv, IInv', MonitorMark PROVE CInv'
<1>1. monitor.pc = "mark" /\ monitor.att = last /\ last \in Attempts
  BY DEF MonitorMark, CInv, OnlyLatest, IInv, TypeOK, MonitorState
<1>2. last # 0 /\ IsActive(last) /\ Complete(last)
  BY <1>1, BoundsAssumption DEF CInv, Verdicts, Attempts
<1>3. PICK status \in Successful : Mark(last, status)
  BY <1>1 DEF MonitorMark, Successful
<1>4. /\ SameWindows /\ SameCheckpoints /\ SameCounts /\ Touched
      /\ \A b \in Attempts \ {last} : row'[b] = row[b]
      /\ row'[last].status = status
  BY <1>1, <1>3, MarkLatest DEF CInv
<1>5. UNCHANGED <<last, files, queue, fetcher, worker, handled>>
  BY DEF MonitorMark
<1>6. Quiet
  BY <1>4, <1>5, QuietByRow DEF CInv
<1>7. StatusFrame
  BY <1>4 DEF StatusFrame
<1>8. monitor'.pc = "clean" /\ monitor'.att = last
  BY <1>1 DEF MonitorMark, CInv, IInv, TypeOK, MonitorState
<1>9. Complete(last)'
  BY <1>1, <1>2, <1>4, <1>5 DEF Complete, SameCounts
<1>10. NoDocumentSkipped'
  <2> SUFFICES ASSUME NEW a \in Created, row'[a].status \in Successful
               PROVE  1..Last(row'[a].end) \subseteq handled
    BY <1>5 DEF NoDocumentSkipped, Created
  <2>1. a \in Attempts /\ row'[a].end = row[a].end
    BY <1>4, CreatedAttempts DEF CInv, IInv, SameWindows
  <2>2. CASE a = last
    BY <1>2, <2>1, <2>2, CompleteMeansHandled
  <2>3. CASE a # last
    BY <1>4, <2>1, <2>3 DEF CInv, Verdicts, NoDocumentSkipped
  <2> QED
    BY <2>2, <2>3
<1>11. Verdicts'
  BY <1>4, <1>5, <1>8, <1>9, <1>10 DEF Verdicts
<1> QED
  BY <1>4, <1>6, <1>7, <1>8, <1>11, QuietStep

LEMMA MonitorRaisesStep == ASSUME CInv, IInv', MonitorRaises PROVE CInv'
<1>1. monitor.att = last /\ last \in Attempts /\ last # 0 /\ Complete(last)
  <2>1. monitor.pc \in {"mark", "clean"} /\ monitor.att = last /\ last \in Attempts
    BY DEF MonitorRaises, CInv, OnlyLatest, IInv, TypeOK, MonitorState
  <2>2. last # 0
    BY <2>1, BoundsAssumption DEF Attempts
  <2> QED
    BY <2>1, <2>2 DEF CInv, Verdicts
<1>2. UNCHANGED <<last, files, queue, fetcher, worker, handled>>
  BY DEF MonitorRaises
<1>3. /\ SameWindows /\ SameCheckpoints /\ SameCounts /\ Touched
      /\ \A b \in Attempts \ {last} : row'[b] = row[b]
      /\ row'[last].status = row[last].status \/ row'[last].status = "FAILED"
  <2>1. CASE Mark(last, "FAILED")
    BY <1>1, <2>1, MarkLatest DEF CInv
  <2>2. CASE row' = row /\ newer' = newer
    BY <2>2, SameRows DEF Touched
  <2> QED
    BY <1>1, <2>1, <2>2 DEF MonitorRaises
<1>4. Quiet
  BY <1>2, <1>3, QuietByRow DEF CInv
<1>5. StatusFrame
  BY <1>3 DEF StatusFrame
<1>6. monitor'.pc = "handler" /\ monitor'.att = last
  BY <1>1 DEF MonitorRaises, CInv, IInv, TypeOK, MonitorState
<1>7. Complete(last)'
  BY <1>1, <1>2, <1>3 DEF Complete, SameCounts
<1>8. NoDocumentSkipped'
  <2> SUFFICES ASSUME NEW a \in Created, row'[a].status \in Successful
               PROVE  1..Last(row'[a].end) \subseteq handled
    BY <1>2 DEF NoDocumentSkipped, Created
  <2>1. a \in Attempts /\ row'[a].end = row[a].end
    BY <1>3, CreatedAttempts DEF CInv, IInv, SameWindows
  <2>2. row[a].status \in Successful
    BY <1>3, <2>1 DEF Successful
  <2> QED
    BY <2>1, <2>2 DEF CInv, Verdicts, NoDocumentSkipped
<1>9. Verdicts'
  BY <1>2, <1>6, <1>7, <1>8 DEF Verdicts
<1> QED
  BY <1>3, <1>4, <1>5, <1>6, <1>9, QuietStep

LEMMA PauseStep == ASSUME CInv, IInv', Pause PROVE CInv'
<1>1. UNCHANGED <<last, files, queue, fetcher, worker, monitor, handled>>
  BY DEF Pause
<1>2. SameWindows /\ SameCheckpoints /\ SameCounts /\ SameStatuses /\ Touched
  <2>1. CASE UNCHANGED <<row, newer>>
    BY <2>1, SameRows DEF Touched
  <2>2. CASE \E a \in Created : IsActive(a) /\ row' = [row EXCEPT ![a].cancel = TRUE] /\ Touch(a)
    <3>1. last \in Attempts /\ row' = [row EXCEPT ![last].cancel = TRUE] /\ Touch(last)
      BY <2>2, ActiveIsLatest
    <3>2. row \in [Attempts -> Row]
      BY DEF CInv, IInv, TypeOK
    <3>3. \A b \in Attempts : /\ row'[b].start = row[b].start /\ row'[b].end = row[b].end
                              /\ row'[b].checkpoint = row[b].checkpoint
                              /\ row'[b].completed = row[b].completed
                              /\ row'[b].total = row[b].total
                              /\ row'[b].status = row[b].status
      BY <3>1, <3>2 DEF Row
    <3>4. \A b \in Attempts : row'[b].fromBeginning = row[b].fromBeginning
      BY <3>1, <3>2 DEF Row
    <3> QED
      BY <3>1, <3>3, <3>4
         DEF SameWindows, SameCheckpoints, SameCounts, SameStatuses, Touched
  <2> QED
    BY <2>1, <2>2 DEF Pause
<1>3. Quiet
  BY <1>1, <1>2, QuietByRow DEF CInv
<1> QED
  BY <1>1, <1>2, <1>3, QuietKeepsVerdicts

LEMMA IdleStep ==
    ASSUME CInv, IInv', Resume \/ DropStopFence \/ UNCHANGED vars
    PROVE  CInv'
<1>1. UNCHANGED <<row, last, newer, files, queue, fetcher, worker, monitor, handled>>
  BY DEF Resume, DropStopFence, vars
<1>2. SameWindows /\ SameCheckpoints /\ SameCounts /\ SameStatuses /\ Touched
  BY <1>1, SameRows DEF Touched
<1>3. Quiet
  BY <1>1, <1>2, QuietByRow DEF CInv
<1> QED
  BY <1>1, <1>2, <1>3, QuietKeepsVerdicts

LEMMA HeartbeatStep == ASSUME CInv, IInv', NEW a \in Created, Heartbeat(a) PROVE CInv'
<1>1. UNCHANGED <<row, last, files, queue, fetcher, worker, monitor, handled>>
  BY DEF Heartbeat
<1>2. a = last
  BY CreatedAttempts DEF Heartbeat, Silent, CInv, OnlyLatest, Busy, IInv
<1>3. SameWindows /\ SameCheckpoints /\ SameCounts /\ SameStatuses /\ Touched
  BY <1>1, <1>2, SameRows DEF Touched, Heartbeat
<1>4. Quiet
  BY <1>1, <1>3, QuietByRow DEF CInv
<1> QED
  BY <1>1, <1>3, <1>4, QuietKeepsVerdicts

\* Processes that start, go on or end.
LEMMA QuietByFetcher ==
    ASSUME IInv, SameWindows, SameCheckpoints, SameCounts,
           NEW a \in Attempts, QuietFetcher(a),
           \A b \in Attempts \ {a} : fetcher'[b] = fetcher[b],
           UNCHANGED <<last, files, handled, queue, worker>>
    PROVE  Quiet
<1>1. \A t \in Attempts \X BatchNums : queue'[t] <= queue[t]
  BY DEF IInv, TypeOK
<1>2. \A b \in Attempts : QuietFetcher(b)
  BY DEF QuietFetcher
<1> QED
  BY <1>1, <1>2 DEF Quiet, QuietWorker

LEMMA ExitQuiet ==
    ASSUME IInv, NEW a \in Attempts, NEW pc \in {"dead", "done", "lost"}, Exit(a, pc),
           pc = "lost" => fetcher[a].pc = "none",
           fetcher[a].pc \notin FetcherResuming \cup {"done"}
    PROVE  QuietFetcher(a) /\ \A b \in Attempts \ {a} : fetcher'[b] = fetcher[b]
<1>1. fetcher'[a].pc = pc
  BY DEF Exit, FetcherAt, IInv, TypeOK
<1>2. \A b \in Attempts \ {a} : fetcher'[b] = fetcher[b]
  BY DEF Exit, IInv, TypeOK
<1> QED
  BY <1>1, <1>2 DEF QuietFetcher

LEMMA ProcessGone ==
    ASSUME NoHazards, CInv, IInv', NEW a \in Created,
           \/ BeginBlocked(a) \/ FetchKilled(a) \/ WatchdogKills(a) \/ LoseFetch(a)
    PROVE  CInv'
<1>1. a \in Attempts /\ UNCHANGED <<row, last, newer, files, queue, worker, monitor, handled>>
  BY CreatedAttempts DEF CInv, IInv, BeginBlocked, FetchKilled, WatchdogKills, Dies, LoseFetch
<1>2. SameWindows /\ SameCheckpoints /\ SameCounts /\ SameStatuses /\ Touched
  BY <1>1, SameRows DEF Touched
<1>3. PICK pc \in {"dead", "done", "lost"} :
        /\ Exit(a, pc)
        /\ pc = "lost" => fetcher[a].pc = "none"
        /\ fetcher[a].pc \notin FetcherResuming \cup {"done"}
  BY DEF BeginBlocked, FetchKilled, WatchdogKills, Dies, LoseFetch, NoHazards,
     FetcherResuming, FetcherRunning
<1>4. QuietFetcher(a) /\ \A b \in Attempts \ {a} : fetcher'[b] = fetcher[b]
  BY <1>1, <1>3, ExitQuiet DEF CInv
<1>5. Quiet
  BY <1>1, <1>2, <1>4, QuietByFetcher DEF CInv
<1> QED
  BY <1>1, <1>2, <1>5, QuietKeepsVerdicts

LEMMA ProcessFails ==
    ASSUME CInv, IInv', NEW a \in Created,
           StopFetch(a) \/ NotRunningAnymore(a) \/ FetchError(a)
    PROVE  CInv'
<1>1. a \in Attempts /\ UNCHANGED <<last, files, queue, worker, monitor, handled>>
  BY CreatedAttempts DEF CInv, IInv, StopFetch, NotRunningAnymore, FetchError
<1>2. fetcher[a].pc \in FetcherRunning /\ fetcher[a].pc \notin FetcherResuming \cup {"done"}
  BY DEF StopFetch, NotRunningAnymore, FetchError, FetcherGuarded, FetcherRunning, FetcherPc,
     FetcherResuming
<1>3. a = last /\ last # 0 /\ ~Complete(last) /\ row[last].status \notin Successful
  BY <1>1, <1>2, RunningIsLatest
<1>4. \/ \E status \in Unfinished : Mark(last, status)
      \/ row' = row /\ newer' = newer
  BY <1>3 DEF StopFetch, NotRunningAnymore, FetchError, FailUnlessEnded, Unfinished
<1>5. /\ SameWindows /\ SameCheckpoints /\ SameCounts /\ Touched
      /\ \A b \in Attempts \ {last} : row'[b] = row[b]
      /\ row'[last].status \notin Successful
  <2>1. CASE \E status \in Unfinished : Mark(last, status)
    <3>1. PICK status \in Unfinished : Mark(last, status)
      BY <2>1
    <3>2. status \notin Successful
      BY DEF Unfinished, Successful
    <3> QED
      BY <1>1, <1>3, <3>1, <3>2, MarkLatest DEF CInv
  <2>2. CASE row' = row /\ newer' = newer
    BY <1>3, <2>2, SameRows DEF Touched
  <2> QED
    BY <1>4, <2>1, <2>2
<1>6. StatusFrame
  BY <1>3, <1>5 DEF StatusFrame
<1>7. PICK pc \in {"dead", "done"} : Exit(a, pc)
  BY DEF StopFetch, NotRunningAnymore, FetchError
<1>8. QuietFetcher(a) /\ \A b \in Attempts \ {a} : fetcher'[b] = fetcher[b]
  BY <1>1, <1>2, <1>7, ExitQuiet DEF CInv
<1>9. Quiet
  BY <1>1, <1>5, <1>8, QuietByFetcher DEF CInv
<1>10. Verdicts'
  BY <1>1, <1>3, <1>5, StillUndecided
<1>11. monitor'.pc # "idle" => monitor'.att = last
  BY <1>1 DEF CInv, OnlyLatest
<1> QED
  BY <1>5, <1>6, <1>9, <1>10, <1>11, QuietStep

LEMMA BeginStep == ASSUME CInv, IInv', NEW a \in Created, Begin(a) PROVE CInv'
<1>1. a \in Attempts /\ UNCHANGED <<last, files, queue, worker, monitor, handled>>
  BY CreatedAttempts DEF CInv, IInv, Begin
<1>2. a = last /\ last # 0 /\ row[last].status \notin Successful
  BY ActiveIsLatest DEF Begin, NotStarted, IsActive, Active, Successful
<1>3. row' = [row EXCEPT ![last].status = "IN_PROGRESS"] /\ row \in [Attempts -> Row]
  BY <1>2 DEF Begin, CInv, IInv, TypeOK
<1>4. \A b \in Attempts : /\ row'[b].start = row[b].start /\ row'[b].end = row[b].end
                          /\ row'[b].checkpoint = row[b].checkpoint
                          /\ row'[b].completed = row[b].completed
                          /\ row'[b].total = row[b].total
  BY <1>3 DEF Row
<1>5. \A b \in Attempts : row'[b].fromBeginning = row[b].fromBeginning
  BY <1>3 DEF Row
<1>6. \A b \in Attempts \ {last} : row'[b] = row[b]
  BY <1>3
<1>7. row'[last].status \notin Successful
  BY <1>1, <1>2, <1>3 DEF Row, Successful
<1>8. SameWindows /\ SameCheckpoints /\ SameCounts /\ Touched /\ StatusFrame
  BY <1>2, <1>4, <1>5, <1>6
     DEF SameWindows, SameCheckpoints, SameCounts, Touched, Begin, StatusFrame
<1>9. QuietFetcher(a) /\ \A b \in Attempts \ {a} : fetcher'[b] = fetcher[b]
  <2>1. fetcher[a].pc = "none" /\ fetcher' = [fetcher EXCEPT ![a].pc = "window"]
        /\ fetcher \in [Attempts -> Fetcher]
    BY DEF Begin, Goto, CInv, IInv, TypeOK
  <2>2. /\ fetcher'[a].pc = "window" /\ fetcher'[a].num = fetcher[a].num
        /\ fetcher'[a].cp = fetcher[a].cp /\ fetcher'[a].pos = fetcher[a].pos
    BY <1>1, <2>1 DEF Fetcher
  <2> QED
    BY <1>1, <1>2, <2>1, <2>2 DEF QuietFetcher
<1>10. Quiet
  BY <1>1, <1>8, <1>9, QuietByFetcher DEF CInv
<1>11. ~Complete(last)
  <2>1. Latest(last) /\ fetcher[last].pc = "none"
    BY <1>2 DEF CInv, Begin
  <2> QED
    BY <2>1 DEF Latest, Opened, Complete
<1>12. Verdicts'
  BY <1>1, <1>2, <1>6, <1>7, <1>11, StillUndecided
<1>13. monitor'.pc # "idle" => monitor'.att = last
  BY <1>1 DEF CInv, OnlyLatest
<1> QED
  BY <1>8, <1>10, <1>12, <1>13, QuietStep

LEMMA CheckStep == ASSUME CInv, IInv', NEW a \in Created, Check(a) PROVE CInv'
<1>1. a \in Attempts /\ UNCHANGED <<row, last, newer, files, queue, worker, monitor, handled>>
  BY CreatedAttempts DEF CInv, IInv, Check
<1>2. a = last
  BY <1>1, RunningIsLatest DEF Check, FetcherRunning, FetcherPc
<1>3. SameWindows /\ SameCheckpoints /\ SameCounts /\ SameStatuses /\ Touched
  BY <1>1, SameRows DEF Touched
<1>4. QuietFetcher(a) /\ \A b \in Attempts \ {a} : fetcher'[b] = fetcher[b]
  <2>1. fetcher[a].pc = "yield" /\ fetcher' = [fetcher EXCEPT ![a].pc = "checked"]
        /\ fetcher \in [Attempts -> Fetcher]
    BY DEF Check, Goto, CInv, IInv, TypeOK
  <2>2. /\ fetcher'[a].pc = "checked" /\ fetcher'[a].num = fetcher[a].num
        /\ fetcher'[a].cp = fetcher[a].cp /\ fetcher'[a].pos = fetcher[a].pos
    BY <1>1, <2>1 DEF Fetcher
  <2> QED
    BY <1>1, <1>2, <2>1, <2>2 DEF QuietFetcher
<1>5. Quiet
  BY <1>1, <1>3, <1>4, QuietByFetcher DEF CInv
<1> QED
  BY <1>1, <1>3, <1>5, QuietKeepsVerdicts

\* Tasks that are dropped, and workers that do not finish a batch.
LEMMA QueuedIsLatest ==
    ASSUME CInv, NEW t \in Queued
    PROVE  /\ t \in Attempts \X BatchNums /\ t[1] = last /\ last # 0 /\ t = <<last, t[2]>>
           /\ t[2] \in BatchNums /\ queue[<<last, t[2]>>] > 0
           /\ ~Complete(last) /\ row[last].end # Null
           /\ fetcher[last].pc \notin {"resume", "list"}
<1>1. t \in Attempts \X BatchNums /\ queue[t] > 0
  BY DEF Queued
<1>2. t[1] \in Attempts /\ t[2] \in BatchNums /\ t = <<t[1], t[2]>>
  BY <1>1
<1>3. t[1] = last
  <2>1. t[1] # last => queue[<<t[1], t[2]>>] = 0
    BY <1>2 DEF CInv, OnlyLatest
  <2> QED
    BY <1>1, <1>2, <2>1
<1>4. last # 0
  BY <1>2, <1>3, BoundsAssumption DEF Attempts
<1>5. queue[<<last, t[2]>>] > 0
  BY <1>1, <1>2, <1>3
<1>6. ~Complete(last)
  BY <1>2, <1>4, <1>5, CompleteMeansHandled
<1>7. row[last].end # Null /\ fetcher[last].pc \notin {"resume", "list"}
  <2>1. NotSent(last)
    BY <1>4 DEF CInv, Latest
  <2> QED
    BY <2>1, <1>2, <1>5 DEF NotSent
<1> QED
  BY <1>1, <1>2, <1>3, <1>4, <1>5, <1>6, <1>7

LEMMA ReceiveTakes ==
    ASSUME IInv, NEW w \in Worker, NEW t \in Queued, Receive(w, t)
    PROVE  /\ queue'[t] = queue[t] - 1 /\ queue[t] \in Nat
           /\ \A u \in (Attempts \X BatchNums) \ {t} : queue'[u] = queue[u]
           /\ \A u \in Attempts \X BatchNums : queue'[u] <= queue[u]
<1>1. queue \in [Attempts \X BatchNums -> Nat] /\ t \in Attempts \X BatchNums
      /\ queue' = [queue EXCEPT ![t] = @ - 1]
  BY DEF IInv, TypeOK, Queued, Receive
<1>2. \A u \in (Attempts \X BatchNums) \ {t} : queue'[u] = queue[u]
  BY <1>1
<1>3. queue'[t] = queue[t] - 1 /\ queue[t] \in Nat
  BY <1>1
<1>4. \A u \in Attempts \X BatchNums : queue'[u] <= queue[u]
  <2> SUFFICES ASSUME NEW u \in Attempts \X BatchNums PROVE queue'[u] <= queue[u]
    OBVIOUS
  <2>1. CASE u = t
    BY <1>3, <2>1
  <2>2. CASE u # t
    <3>1. queue'[u] = queue[u] /\ queue[u] \in Nat
      BY <1>1, <1>2, <2>2
    <3> QED
      BY <3>1
  <2> QED
    BY <2>1, <2>2
<1> QED
  BY <1>2, <1>3, <1>4

LEMMA QuietByWorkers ==
    ASSUME IInv, SameWindows, SameCheckpoints, SameCounts,
           \A w \in Worker : QuietWorker(w),
           \A t \in Attempts \X BatchNums : queue'[t] <= queue[t],
           UNCHANGED <<last, files, handled, fetcher>>
    PROVE  Quiet
BY DEF Quiet, QuietFetcher

LEMMA TaskDropped ==
    ASSUME CInv, IInv', NEW w \in Worker, Refuse(w) \/ UsageLimitHit(w)
    PROVE  CInv'
<1>1. PICK t \in Queued : /\ Receive(w, t) /\ worker' = worker
                          /\ \/ Touch(t[1]) /\ row' = row
                             \/ Mark(t[1], "FAILED")
  BY DEF Refuse, UsageLimitHit
<1>2. t[1] = last /\ last # 0 /\ ~Complete(last) /\ last \in Attempts
  BY QueuedIsLatest, LatestAttempt DEF CInv
<1>3. UNCHANGED <<last, files, fetcher, monitor, handled>>
  BY <1>1 DEF Receive
<1>4. \A u \in Attempts \X BatchNums : queue'[u] <= queue[u]
  BY <1>1, ReceiveTakes DEF CInv
<1>5. row[last].status \notin Successful
  BY <1>2 DEF CInv, Verdicts
<1>6. /\ SameWindows /\ SameCheckpoints /\ SameCounts /\ Touched
      /\ \A b \in Attempts \ {last} : row'[b] = row[b]
      /\ row'[last].status \notin Successful
  <2>1. CASE Mark(t[1], "FAILED")
    <3>1. "FAILED" \notin Successful
      BY DEF Successful
    <3> QED
      BY <1>2, <2>1, <3>1, MarkLatest DEF CInv
  <2>2. CASE Touch(t[1]) /\ row' = row
    BY <1>2, <1>5, <2>2, SameRows DEF Touched
  <2> QED
    BY <1>1, <2>1, <2>2
<1>7. StatusFrame
  BY <1>5, <1>6 DEF StatusFrame
<1>8. Quiet
  BY <1>1, <1>3, <1>4, <1>6, QuietByWorkers DEF QuietWorker, CInv
<1>9. Verdicts'
  BY <1>2, <1>3, <1>6, StillUndecided
<1>10. monitor'.pc # "idle" => monitor'.att = last
  BY <1>3 DEF CInv, OnlyLatest
<1> QED
  BY <1>6, <1>7, <1>8, <1>9, <1>10, QuietStep

LEMMA WorkerType ==
    ASSUME IInv, NEW w \in Worker
    PROVE  /\ worker \in [Worker -> WorkerState] /\ worker[w] \in WorkerState
           /\ worker[w].att \in Attempts /\ worker[w].num \in BatchNums
           /\ worker[w].page \in Pages
BY DEF IInv, TypeOK, WorkerState

LEMMA RecordStep == ASSUME CInv, IInv', NEW w \in Worker, Record(w) PROVE CInv'
<1>1. UNCHANGED <<last, newer, files, queue, fetcher, monitor, handled>>
  BY DEF Record
<1>2. SameWindows /\ SameCheckpoints /\ SameCounts /\ SameStatuses
  <2>1. row \in [Attempts -> Row] /\ row' = [row EXCEPT ![worker[w].att].errors = TRUE]
    BY DEF Record, CInv, IInv, TypeOK
  <2>2. \A b \in Attempts : /\ row'[b].start = row[b].start /\ row'[b].end = row[b].end
                            /\ row'[b].checkpoint = row[b].checkpoint
                            /\ row'[b].completed = row[b].completed
                            /\ row'[b].total = row[b].total
                            /\ row'[b].status = row[b].status
    BY <2>1 DEF Row
  <2>3. \A b \in Attempts : row'[b].fromBeginning = row[b].fromBeginning
    BY <2>1 DEF Row
  <2> QED
    BY <2>2, <2>3 DEF SameWindows, SameCheckpoints, SameCounts, SameStatuses
<1>3. \A v \in Worker : QuietWorker(v)
  <2>1. worker' = [worker EXCEPT ![w].pc = "delete"] /\ worker[w].pc = "record"
    BY DEF Record, StepTo
  <2>2. QuietWorker(w)
    BY <2>1, WorkerType DEF QuietWorker, CInv, WorkerState
  <2>3. \A v \in Worker \ {w} : QuietWorker(v)
    BY <2>1, WorkerType DEF QuietWorker, CInv
  <2> QED
    BY <2>2, <2>3
<1>4. \A t \in Attempts \X BatchNums : queue'[t] <= queue[t]
  BY <1>1 DEF CInv, IInv, TypeOK
<1>5. Quiet
  BY <1>1, <1>2, <1>3, <1>4, QuietByWorkers DEF CInv
<1> QED
  BY <1>1, <1>2, <1>5, QuietKeepsVerdicts DEF Touched

LEMMA TaskFailsStep == ASSUME CInv, IInv', NEW w \in Worker, TaskFails(w) PROVE CInv'
<1>1. UNCHANGED <<row, last, newer, files, queue, fetcher, monitor, handled>>
  BY DEF TaskFails
<1>2. SameWindows /\ SameCheckpoints /\ SameCounts /\ SameStatuses /\ Touched
  BY <1>1, SameRows DEF Touched
<1>3. \A v \in Worker : QuietWorker(v)
  BY WorkerType DEF QuietWorker, CInv, TaskFails, IdleWorker
<1>4. \A t \in Attempts \X BatchNums : queue'[t] <= queue[t]
  BY <1>1 DEF CInv, IInv, TypeOK
<1>5. Quiet
  BY <1>1, <1>2, <1>3, <1>4, QuietByWorkers DEF CInv
<1> QED
  BY <1>1, <1>2, <1>5, QuietKeepsVerdicts

-----------------------------------------------------------------------------
(* A new attempt                                                             *)

\* The attempt updated last is the one created last.
LEMMA MostRecentIsLargest ==
    ASSUME IInv, NewestFirst, NEW S, S \subseteq Created, NEW b, MostRecent(b, S)
    PROVE  /\ S = {} <=> b = 0
           /\ S # {} => b \in S /\ \A c \in S : c <= b
<1>1. last \in Nat /\ 0 \notin Created
  BY DEF IInv, TypeOK, Created
<1>2. CASE S = {}
  BY <1>2 DEF MostRecent
<1>3. CASE S # {}
  <2>1. b \in S /\ \A c \in S \ {b} : <<b, c>> \in newer
    BY <1>3 DEF MostRecent
  <2>2. \A c \in S \ {b} : b > c
    BY <2>1 DEF NewestFirst
  <2>3. b \in Int /\ \A c \in S : c \in Int
    BY <2>1, <1>1 DEF Created
  <2> QED
    BY <1>1, <1>3, <2>1, <2>2, <2>3
<1> QED
  BY <1>2, <1>3

LEMMA CreateEffect ==
    ASSUME NoHazards, CInv, NEW f \in BOOLEAN, CreateAttempt(f)
    PROVE  /\ last' = last + 1 /\ last \in Nat /\ last + 1 \in Attempts
           /\ Created' = Created \cup {last + 1} /\ last + 1 \notin Created
           /\ row'[last + 1] = NewRow(f) /\ (\A b \in Attempts \ {last + 1} : row'[b] = row[b])
           /\ Touch(last + 1)
           /\ NoneActive /\ Drained /\ monitor.pc = "idle"
           /\ UNCHANGED <<files, queue, fetcher, worker, monitor, handled>>
           /\ f => last \in Created /\ row[last].status \in Successful
<1>1. last' = last + 1 /\ last \in Nat /\ last + 1 \in Attempts
  BY BoundsAssumption DEF CreateAttempt, CInv, IInv, TypeOK, Attempts
<1>2. Created' = Created \cup {last + 1} /\ last + 1 \notin Created
  BY <1>1 DEF Created
<1>3. row'[last + 1] = NewRow(f) /\ (\A b \in Attempts \ {last + 1} : row'[b] = row[b])
  BY <1>1 DEF CreateAttempt, CInv, IInv, TypeOK
<1>4. Drained
  BY DEF CreateAttempt, NoHazards
<1>5. ASSUME f PROVE last \in Created /\ row[last].status \in Successful
  <2>1. last # 0
    BY <1>5 DEF CreateAttempt
  <2>2. last \in Created /\ Ended = Created
    BY <1>1, <2>1 DEF Created, Ended, CreateAttempt, NoneActive
  <2>3. MostRecent(last, Ended)
    BY <1>1, <2>2 DEF MostRecent, CInv, Past, NewestFirst, Created
  <2> QED
    BY <1>5, <2>2, <2>3 DEF CreateAttempt, NoHazards
<1> QED
  BY <1>1, <1>2, <1>3, <1>4, <1>5 DEF CreateAttempt

LEMMA CreatePast ==
    ASSUME NoHazards, CInv, IInv', NEW f \in BOOLEAN, CreateAttempt(f)
    PROVE  Past'
<1> DEFINE n == last + 1
<1>1. /\ last' = n /\ last \in Nat /\ n \in Attempts /\ n \in Int
      /\ Created' = Created \cup {n} /\ n \notin Created /\ Created \subseteq Attempts
      /\ row'[n] = NewRow(f) /\ (\A b \in Attempts \ {n} : row'[b] = row[b])
      /\ Touch(n) /\ handled' = handled
      /\ f => last \in Created /\ row[last].status \in Successful
  BY CreateEffect, CreatedAttempts DEF CInv, IInv
<1>2. row'[n].end = Null /\ row'[n].status = "NOT_STARTED" /\ row'[n].fromBeginning = f
  BY <1>1 DEF NewRow
<1>3. \A b \in Created : b \in Int /\ b < n /\ b # n /\ row'[b] = row[b] /\ b \in Attempts
  BY <1>1 DEF Created
<1> HIDE DEF n
<1>4. NewestFirst'
  <2> SUFFICES ASSUME NEW a \in Created', NEW b \in Created'
               PROVE  <<a, b>> \in newer' <=> a > b
    BY DEF NewestFirst
  <2>1. CASE b = n
    BY <1>1, <1>3, <2>1 DEF Touch
  <2>2. CASE b # n /\ a = n
    BY <1>1, <1>3, <2>2 DEF Touch
  <2>3. CASE b # n /\ a # n
    BY <1>1, <1>3, <2>3 DEF Touch, CInv, Past, NewestFirst
  <2> QED
    BY <2>1, <2>2, <2>3
<1>5. WindowsOrdered'
  <2>1. WindowsOrdered
    BY DEF CInv, Past
  <2>2. \A a \in Created' : row'[a].end # Null => a \in Created
    BY <1>1, <1>2
  <2>3. \A a \in Created' : row'[a].end # Null => row'[a].start <= row'[a].end
    BY <1>3, <2>1, <2>2 DEF WindowsOrdered
  <2>4. \A a, b \in Created' : a < b /\ row'[a].end # Null /\ row'[b].end # Null
             => row'[a].end <= row'[b].end
    BY <1>3, <2>1, <2>2 DEF WindowsOrdered
  <2>5. \A a, b, c \in Created' :
            a < b /\ b < c /\ row'[a].end # Null /\ row'[a].end = row'[c].end
             => row'[b].end = row'[a].end
    <3> SUFFICES ASSUME NEW a \in Created', NEW b \in Created', NEW c \in Created',
                        a < b, b < c, row'[a].end # Null, row'[a].end = row'[c].end
                 PROVE  row'[b].end = row'[a].end
      OBVIOUS
    <3>1. a \in Created /\ c \in Created
      BY <2>2
    <3>2. b \in Created
      BY <1>1, <1>3, <3>1
    <3> QED
      BY <1>3, <2>1, <3>1, <3>2 DEF WindowsOrdered
  <2> QED
    BY <2>3, <2>4, <2>5 DEF WindowsOrdered
<1>6. Retries'
  <2>1. Retries
    BY DEF CInv, Past
  <2>2. \A a \in Created' : row'[a].end # Null => a \in Created
    BY <1>1, <1>2
  <2>3. \A a, b \in Created' : a < b /\ row'[a].end # Null /\ row'[a].end = row'[b].end
             => row'[a].status \in Unfinished
    BY <1>3, <2>1, <2>2 DEF Retries
  <2>4. \A a \in Created' : row'[a].fromBeginning
             => a > 1 /\ row'[a - 1].status \in Successful
    <3> SUFFICES ASSUME NEW a \in Created', row'[a].fromBeginning
                 PROVE  a > 1 /\ row'[a - 1].status \in Successful
      OBVIOUS
    <3>1. CASE a = n
      <4>1. last \in Created /\ row[last].status \in Successful
        BY <1>1, <1>2, <3>1
      <4>2. a - 1 = last /\ last >= 1
        BY <1>1, <3>1, <4>1 DEF n, Created
      <4>3. a > 1 /\ row'[last] = row[last]
        BY <1>1, <1>3, <3>1, <4>1, <4>2
      <4> QED
        BY <4>1, <4>2, <4>3
    <3>2. CASE a # n
      <4>1. a \in Created /\ row[a].fromBeginning
        BY <1>1, <1>3, <3>2
      <4>2. a > 1 /\ row[a - 1].status \in Successful
        BY <2>1, <4>1 DEF Retries
      <4>3. a - 1 \in Created
        BY <1>1, <4>1, <4>2 DEF Created
      <4> QED
        BY <1>3, <4>2, <4>3
    <3> QED
      BY <3>1, <3>2
  <2>5. ASSUME NEW a \in Created', row'[a].end # Null, ~row'[a].fromBeginning
        PROVE  \E e \in Ticks : StartsAfter(e, a)'
    <3>1. a \in Created /\ row'[a] = row[a]
      BY <1>3, <2>2, <2>5
    <3>2. EndsBefore(a)' = EndsBefore(a)
      BY <1>1, <1>2, <1>3, <3>1 DEF EndsBefore
    <3> QED
      BY <2>1, <2>5, <3>1, <3>2 DEF Retries, StartsAfter
  <2> QED
    BY <2>3, <2>4, <2>5 DEF Retries
<1>7. StartsCovered'
  BY <1>1, <1>2, <1>3 DEF StartsCovered, CInv, Past
<1> QED
  BY <1>4, <1>5, <1>6, <1>7 DEF Past

LEMMA CreateLatest ==
    ASSUME NoHazards, CInv, IInv', NEW f \in BOOLEAN, CreateAttempt(f)
    PROVE  Latest(last)'
<1>1. /\ last' = last + 1 /\ last \in Nat /\ last + 1 \in Attempts
      /\ row'[last + 1] = NewRow(f) /\ (\A b \in Attempts \ {last + 1} : row'[b] = row[b])
      /\ Drained
      /\ UNCHANGED <<files, queue, fetcher, worker, monitor, handled>>
  BY CreateEffect
<1>2. PICK n \in Attempts : n = last + 1 /\ n = last'
  BY <1>1
<1>3. fetcher'[n].pc = "none"
  BY <1>1, <1>2 DEF CInv, IInv, Inductive, NoneBefore
<1>4. row'[n].end = Null /\ row'[n].total = Null /\ row'[n].completed = 0
      /\ row'[n].checkpoint = NoCheckpoint
  BY <1>1, <1>2 DEF NewRow
<1>5. /\ \A m \in BatchNums : queue'[<<n, m>>] = 0
      /\ \A w \in Worker : ~Busy(w)'
  BY <1>1 DEF Drained, Queued, Busy, CInv, IInv, TypeOK
<1>6. Opened(n)'
  BY <1>3, <1>4 DEF Opened, Fresh, FetcherResuming, FetcherRunning, FetcherPc, Before
<1>7. Progress(n)'
  BY <1>3, <1>4 DEF Progress, Adopted, Reading
<1>8. NotSent(n)'
  BY <1>5 DEF NotSent
<1>9. FreeNumbers(n)'
  <2>1. n # 1 /\ row'[n - 1].end # Null => Bound(row[n - 1].completed)'
    <3> SUFFICES ASSUME n # 1, row'[n - 1].end # Null
                 PROVE  Bound(row[n - 1].completed)'
      OBVIOUS
    <3>1. n - 1 = last /\ last # 0 /\ last \in Attempts /\ row'[last] = row[last]
      BY <1>1, <1>2, BoundsAssumption DEF Attempts
    <3>2. row[last].end # Null
      BY <3>1
    <3>3. fetcher[last].pc \notin FetcherResuming
      BY <1>1, <3>1 DEF Drained, FetcherResuming, FetcherRunning, FetcherPc
    <3>4. Bound(row[last].completed)
      BY <3>1, <3>2, <3>3 DEF CInv, Latest, FreeNumbers
    <3>5. Standing' = Standing
      BY <1>1 DEF Standing, Counted
    <3>6. row'[n - 1].completed = row[last].completed
      BY <3>1
    <3> QED
      BY <1>1, <3>4, <3>5, <3>6 DEF Bound
  <2> QED
    BY <2>1, <1>3, <1>4 DEF FreeNumbers, Adopted
<1>10. TasksForFiles(n)'
  BY <1>3 DEF TasksForFiles, Adopted
<1>11. OneTask(n)'
  BY <1>5 DEF OneTask
<1>12. CountsOnce(n)'
  BY <1>3, <1>4 DEF CountsOnce, Adopted
<1> QED
  BY <1>2, <1>6, <1>7, <1>8, <1>9, <1>10, <1>11, <1>12 DEF Latest

LEMMA CreateStep ==
    ASSUME NoHazards, CInv, IInv', NEW f \in BOOLEAN, CreateAttempt(f)
    PROVE  CInv'
<1>1. /\ last' = last + 1 /\ last \in Nat /\ last + 1 \in Attempts
      /\ Created' = Created \cup {last + 1} /\ last + 1 \notin Created
      /\ row'[last + 1] = NewRow(f) /\ (\A b \in Attempts \ {last + 1} : row'[b] = row[b])
      /\ NoneActive /\ Drained /\ monitor.pc = "idle"
      /\ UNCHANGED <<files, queue, fetcher, worker, monitor, handled>>
  BY CreateEffect
<1>2. \A b \in Created : b \in Attempts /\ b \in Int /\ b < last + 1 /\ row'[b] = row[b]
  BY <1>1, CreatedAttempts DEF Created, CInv, IInv
<1>3. row'[last + 1].end = Null /\ row'[last + 1].status = "NOT_STARTED"
      /\ row'[last + 1].checkpoint = NoCheckpoint
  BY <1>1 DEF NewRow
<1>4. OnlyLatest'
  <2>1. \A a \in Attempts : fetcher'[a].pc \notin FetcherRunning
    BY <1>1 DEF Drained
  <2>2. \A a \in Attempts, n \in BatchNums : queue'[<<a, n>>] = 0
    BY <1>1 DEF Drained, Queued, CInv, IInv, TypeOK
  <2>3. \A w \in Worker : ~Busy(w)'
    BY <1>1 DEF Drained, Busy
  <2>4. \A a \in Created' : a # last' => IsTerminal(a)'
    BY <1>1, <1>2 DEF NoneActive, IsTerminal
  <2> QED
    BY <1>1, <2>1, <2>2, <2>3, <2>4 DEF OnlyLatest
<1>5. FromZero'
  BY <1>1 DEF CInv, FromZero
<1>6. Checkpoints'
  <2> SUFFICES ASSUME NEW a \in Created', row'[a].checkpoint # NoCheckpoint
               PROVE  /\ row'[a].end # Null
                      /\ Within(row[a].checkpoint, a)'
                      /\ Live(a)' => Covered(a, row[a].checkpoint.pos)'
    BY DEF Checkpoints
  <2>1. a \in Created /\ row'[a] = row[a]
    BY <1>1, <1>2, <1>3
  <2>2. /\ row[a].end # Null
        /\ Within(row[a].checkpoint, a)
        /\ Live(a) => Covered(a, row[a].checkpoint.pos)
    BY <2>1 DEF CInv, Checkpoints
  <2>3. Live(a)' => Live(a)
    BY <1>1, <1>2, <2>1 DEF Live
  <2> QED
    BY <1>1, <2>1, <2>2, <2>3 DEF Within, Covered
<1>7. Distinct(files)' /\ HoldsFile'
  BY <1>1 DEF CInv, HoldsFile, Distinct, Busy
<1>8. Verdicts'
  <2>1. NoDocumentSkipped'
    BY <1>1, <1>2, <1>3 DEF CInv, Verdicts, NoDocumentSkipped, Successful
  <2> QED
    BY <1>1, <1>3, <2>1 DEF Verdicts, Successful
<1>9. Past' /\ Latest(last)'
  BY CreatePast, CreateLatest
<1> QED
  BY <1>4, <1>5, <1>6, <1>7, <1>8, <1>9 DEF CInv

-----------------------------------------------------------------------------
(* The monitor cleans up                                                     *)

\* The pass ends, with the cleanup or without it.
LEMMA MonitorEndsStep == ASSUME CInv, IInv', MonitorClean \/ MonitorStops PROVE CInv'
<1>1. /\ UNCHANGED <<row, last, newer, queue, fetcher, worker, handled>>
      /\ files' \subseteq files /\ monitor' = IdleMonitor
      /\ monitor.pc \in {"mark", "clean", "handler"}
  BY DEF MonitorClean, MonitorStops, CInv, IInv, TypeOK, MonitorState
<1>2. last # 0 /\ last \in Attempts /\ Complete(last) /\ Latest(last)
  <2>1. last \in Attempts
    BY <1>1 DEF CInv, OnlyLatest, IInv, TypeOK, MonitorState
  <2>2. last # 0
    BY <2>1, BoundsAssumption DEF Attempts
  <2> QED
    BY <1>1, <2>1, <2>2 DEF CInv, Verdicts
<1>3. fetcher[last].pc = "done" /\ row[last].end # Null /\ \A f \in files : f.page \in handled
  BY <1>2, CompleteMeansHandled
<1>4. SameWindows /\ SameCheckpoints /\ SameCounts /\ SameStatuses /\ Touched /\ StatusFrame
  BY <1>1, SameRows DEF Touched, StatusFrame, SameStatuses
<1>5. OnlyLatest' /\ FromZero'
  BY <1>1 DEF CInv, OnlyLatest, FromZero, Created, IdleMonitor, IsTerminal, Busy
<1>6. Past'
  BY <1>1, <1>4, PastKept DEF CInv
<1>7. Checkpoints'
  <2>1. KeptPages \subseteq KeptPages'
    BY <1>1, <1>3 DEF KeptPages, PagesOf
  <2> QED
    BY <1>1, <1>4, <2>1, CheckpointsKept DEF CInv
<1>8. Distinct(files)' /\ HoldsFile'
  BY <1>1 DEF Distinct, CInv, HoldsFile, Busy
<1>9. Opened(last)'
  BY <1>1, <1>2 DEF Latest, Opened, Fresh, Follows, Anew, Created
<1>10. Progress(last)'
  <2>1. \A p : Covered(last, p) => Covered(last, p)'
    BY <1>1, <1>3 DEF Covered, PagesOf
  <2>2. Covered(last, Last(row[last].end))'
    BY <1>1, <1>2, <2>1 DEF Latest, Progress, Complete
  <2> QED
    BY <1>1, <1>3, <2>2 DEF Progress, Adopted, Reading
<1>11. NotSent(last)' /\ OneTask(last)'
  BY <1>1, <1>2 DEF Latest, NotSent, OneTask, Busy
<1>12. FreeNumbers(last)'
  <2>1. \A g \in files' : g.num < row[last].total
    BY <1>1, <1>2 DEF Latest, FreeNumbers, Complete
  <2>2. row[last].completed \in Nat /\ row[last].total \in Nat
        /\ row[last].total <= row[last].completed
    BY <1>2 DEF CInv, IInv, TypeOK, Row, Complete
  <2>3. \A g \in files' : g.num \in Nat
    BY DEF IInv, TypeOK, File, BatchNums
  <2>4. Cardinality(Standing') \in Nat
    BY FS_Subset, FS_CardinalityType DEF IInv, Standing
  <2>5. \A g \in files' : g.num < Cardinality(Standing') + row[last].completed
    BY <2>1, <2>2, <2>3, <2>4
  <2>6. Bound(row[last].completed)'
    BY <1>1, <2>5 DEF Bound
  <2> QED
    BY <1>1, <1>3, <2>1, <2>6 DEF FreeNumbers, Adopted
<1>13. TasksForFiles(last)'
  BY <1>1, <1>3 DEF TasksForFiles, Adopted
<1>14. CountsOnce(last)'
  <2>1. Open(last)' \subseteq Open(last)
    BY <1>1 DEF Open, Uncounted
  <2>2. Cardinality(Open(last)') <= Cardinality(Open(last))
        /\ Cardinality(Open(last)) \in Nat /\ Cardinality(Open(last)') \in Nat
    BY <1>1, <2>1, OpenShrinks
  <2>3. row[last].completed \in Nat /\ row[last].total \in Nat
    BY <1>2 DEF CInv, IInv, TypeOK, Row, Complete
  <2>4. row[last].completed + Cardinality(Open(last)) <= row[last].total
    BY <1>2 DEF Latest, CountsOnce, Complete
  <2> QED
    BY <1>1, <1>3, <2>2, <2>3, <2>4 DEF CountsOnce, Adopted
<1>15. Verdicts'
  BY <1>1 DEF CInv, Verdicts, IdleMonitor, NoDocumentSkipped, Created, Complete
<1> QED
  BY <1>1, <1>5, <1>6, <1>7, <1>8, <1>9, <1>10, <1>11, <1>12, <1>13, <1>14, <1>15
     DEF CInv, Latest

-----------------------------------------------------------------------------
(* The latest process opens its window and loads its checkpoint              *)

\* The window and what is read of the attempt before, field by field.
LEMMA OpenPicks ==
    ASSUME IInv, NEW a \in Created, OpenWindow(a)
    PROVE  \E b \in Attempts \cup {0}, lastEnd \in SuccessEnds, now \in Ticks :
             /\ MostRecent(b, Ended) /\ LastSuccess(lastEnd)
             /\ RetriesWindow(b) \/ Now(now)
             /\ row'[a].start = StartAt(IF row[a].fromBeginning THEN 0 ELSE lastEnd)
             /\ row'[a].end = IF RetriesWindow(b) THEN row[b].end ELSE now
             /\ row'[a].status = row[a].status
             /\ row'[a].fromBeginning = row[a].fromBeginning
             /\ row'[a].checkpoint = row[a].checkpoint
             /\ row'[a].completed = row[a].completed /\ row'[a].total = row[a].total
             /\ fetcher'[a].prev = IF b = 0 THEN 0 ELSE row[b].completed
             /\ fetcher'[a].prevOk <=> (b # 0 /\ row[b].status \in Successful)
             /\ fetcher'[a].pc = "resume" /\ fetcher'[a].num = fetcher[a].num
             /\ \A c \in Attempts \ {a} : row'[c] = row[c] /\ fetcher'[c] = fetcher[c]
<1>1. a \in Attempts /\ row \in [Attempts -> Row] /\ row[a] \in Row
      /\ fetcher \in [Attempts -> Fetcher] /\ fetcher[a] \in Fetcher
  BY CreatedAttempts DEF IInv, TypeOK
<1>2. PICK b \in Attempts \cup {0}, lastEnd \in SuccessEnds, now \in Ticks :
        LET from  == IF row[a].fromBeginning THEN 0 ELSE lastEnd
            start == IF from > PollOffset THEN from - PollOffset ELSE 0
            end   == IF RetriesWindow(b) THEN row[b].end ELSE now
        IN  /\ MostRecent(b, Ended)
            /\ \A e \in SuccessEnds : e <= lastEnd
            /\ RetriesWindow(b) \/ Now(now)
            /\ row' = [row EXCEPT ![a].start = start, ![a].end = end]
            /\ fetcher' = [fetcher EXCEPT
                   ![a].pc = "resume",
                   ![a].prev = IF b = 0 THEN 0 ELSE row[b].completed,
                   ![a].prevTotal = b # 0 /\ row[b].total # Null,
                   ![a].prevOk = b # 0 /\ row[b].status \in Successful]
  BY DEF OpenWindow
<1> DEFINE from  == IF row[a].fromBeginning THEN 0 ELSE lastEnd
           start == IF from > PollOffset THEN from - PollOffset ELSE 0
           end   == IF RetriesWindow(b) THEN row[b].end ELSE now
           r     == [row[a] EXCEPT !.start = start, !.end = end]
           n     == IF b = 0 THEN 0 ELSE row[b].completed
           total == b # 0 /\ row[b].total # Null
           ok    == b # 0 /\ row[b].status \in Successful
           f     == [fetcher[a] EXCEPT !.pc = "resume", !.prev = n,
                                       !.prevTotal = total, !.prevOk = ok]
<1>3. row' = [row EXCEPT ![a] = r] /\ fetcher' = [fetcher EXCEPT ![a] = f]
  BY <1>2
<1>4. /\ MostRecent(b, Ended) /\ LastSuccess(lastEnd)
      /\ RetriesWindow(b) \/ Now(now)
  BY <1>2 DEF LastSuccess
<1>5. start = StartAt(IF row[a].fromBeginning THEN 0 ELSE lastEnd)
  BY DEF StartAt
<1>6. total \in BOOLEAN /\ ok \in BOOLEAN /\ (ok <=> (b # 0 /\ row[b].status \in Successful))
  OBVIOUS
<1> HIDE DEF start, end, n, total, ok
<1>7. /\ r.start = start /\ r.end = end /\ r.status = row[a].status
      /\ r.checkpoint = row[a].checkpoint
      /\ r.completed = row[a].completed /\ r.total = row[a].total
  BY <1>1 DEF Row
<1>8. r.fromBeginning = row[a].fromBeginning
  BY <1>1 DEF Row
<1>9. f.pc = "resume" /\ f.prev = n /\ f.num = fetcher[a].num
  BY <1>1 DEF Fetcher
<1>10. f.prevOk = ok
  BY <1>1 DEF Fetcher
<1> HIDE DEF r, f
<1>11. row'[a] = r /\ fetcher'[a] = f
       /\ \A c \in Attempts \ {a} : row'[c] = row[c] /\ fetcher'[c] = fetcher[c]
  BY <1>1, <1>3
<1>12. fetcher'[a].prevOk <=> (b # 0 /\ row[b].status \in Successful)
  BY <1>6, <1>10, <1>11
<1>13. row'[a].end = IF RetriesWindow(b) THEN row[b].end ELSE now
  BY <1>7, <1>11 DEF end
<1>14. fetcher'[a].prev = IF b = 0 THEN 0 ELSE row[b].completed
  BY <1>9, <1>11 DEF n
<1>15. row'[a].fromBeginning = row[a].fromBeginning
  BY <1>8, <1>11
<1>16. /\ row'[a].start = StartAt(IF row[a].fromBeginning THEN 0 ELSE lastEnd)
       /\ row'[a].status = row[a].status /\ row'[a].checkpoint = row[a].checkpoint
       /\ row'[a].completed = row[a].completed /\ row'[a].total = row[a].total
       /\ fetcher'[a].pc = "resume" /\ fetcher'[a].num = fetcher[a].num
  BY <1>5, <1>7, <1>9, <1>11
<1> QED
  BY <1>4, <1>11, <1>12, <1>13, <1>14, <1>15, <1>16

LEMMA OpenEffect ==
    ASSUME CInv, NEW a \in Created, OpenWindow(a)
    PROVE  /\ a = last /\ last # 0 /\ last \in Attempts /\ Latest(last)
           /\ fetcher[last].pc = "window" /\ row[last].end = Null /\ Fresh(last)
           /\ row[last].status \notin Successful
           /\ \A b \in Attempts \ {last} : row'[b] = row[b]
           /\ \A b \in Attempts \ {last} : fetcher'[b] = fetcher[b]
           /\ row'[last].status = row[last].status
           /\ row'[last].fromBeginning = row[last].fromBeginning
           /\ row'[last].checkpoint = NoCheckpoint
           /\ row'[last].completed = 0 /\ row'[last].total = Null
           /\ fetcher'[last].pc = "resume" /\ fetcher'[last].num = 0
           /\ Touched
           /\ UNCHANGED <<last, files, queue, worker, monitor, handled>>
<1>1. a \in Attempts /\ fetcher[a].pc = "window"
  BY CreatedAttempts DEF CInv, IInv, OpenWindow
<1>2. a = last /\ last # 0 /\ Latest(last) /\ row[last].status \notin Successful
  BY <1>1, RunningIsLatest DEF FetcherRunning, FetcherPc
<1>3. row[last].end = Null /\ Fresh(last) /\ fetcher[last].num = 0
  BY <1>1, <1>2 DEF Latest, Opened, Before, CInv, FromZero
<1>4. /\ row \in [Attempts -> Row] /\ row[last] \in Row
      /\ fetcher \in [Attempts -> Fetcher] /\ fetcher[last] \in Fetcher
  BY <1>1, <1>2 DEF CInv, IInv, TypeOK
<1>5. /\ row'[a].status = row[a].status
      /\ row'[a].fromBeginning = row[a].fromBeginning
      /\ row'[a].checkpoint = row[a].checkpoint
      /\ row'[a].completed = row[a].completed /\ row'[a].total = row[a].total
      /\ fetcher'[a].pc = "resume" /\ fetcher'[a].num = fetcher[a].num
      /\ \A c \in Attempts \ {a} : row'[c] = row[c] /\ fetcher'[c] = fetcher[c]
  BY OpenPicks DEF CInv
<1> QED
  BY <1>1, <1>2, <1>3, <1>5 DEF OpenWindow, Fresh, Touched

\* The attempts that ended are those before the latest, and the latest if it ended.
LEMMA EndedAttempts ==
    ASSUME CInv, last # 0, NEW b, MostRecent(b, Ended)
    PROVE  /\ IsTerminal(last) => b = last
           /\ ~IsTerminal(last) => b = last - 1
<1>1. last \in Nat /\ last >= 1 /\ last \in Created
  BY DEF CInv, IInv, TypeOK, Created
<1>2. Created \ {last} \subseteq Ended /\ Ended \subseteq Created
  BY DEF Ended, CInv, OnlyLatest
<1>3. /\ Ended = {} <=> b = 0
      /\ Ended # {} => b \in Ended /\ \A c \in Ended : c <= b
  BY <1>2, MostRecentIsLargest DEF CInv, Past
<1>4. CASE IsTerminal(last)
  <2>1. last \in Ended
    BY <1>1, <1>4 DEF Ended
  <2>2. b \in Created /\ last <= b
    BY <1>2, <1>3, <2>1
  <2> QED
    BY <1>1, <1>4, <2>2 DEF Created
<1>5. CASE ~IsTerminal(last)
  <2>1. Ended = Created \ {last}
    BY <1>2, <1>5 DEF Ended
  <2>2. Ended = 1..(last - 1)
    BY <1>1, <2>1 DEF Created
  <2>3. CASE last = 1
    <3>1. Ended = {}
      BY <2>2, <2>3
    <3> QED
      BY <1>3, <1>5, <2>3, <3>1
  <2>4. CASE last # 1
    <3>1. last - 1 \in Ended
      BY <1>1, <2>2, <2>4
    <3>2. b \in 1..(last - 1) /\ last - 1 <= b
      BY <1>3, <2>2, <3>1
    <3> QED
      BY <1>1, <1>5, <3>2
  <2> QED
    BY <2>3, <2>4
<1> QED
  BY <1>4, <1>5

\* The new window repeats that of the attempt before, which is unfinished, or
\* lies behind all others.
LEMMA OpenCases ==
    ASSUME CInv, NEW a \in Created, OpenWindow(a)
    PROVE  /\ row'[last].end \in Ticks
           /\ \E e \in Ticks : /\ LastSuccess(e)
                               /\ row'[last].start = StartAt(IF row[last].fromBeginning THEN 0 ELSE e)
                               /\ e <= row'[last].end
           /\ \/ /\ last - 1 \in Created
                 /\ row'[last].end = row[last - 1].end
                 /\ row[last - 1].status \in Unfinished
                 /\ Follows(last)'
              \/ /\ \A c \in Created : row[c].end < row'[last].end
                 /\ Follows(last)' \/ ~fetcher'[last].prevOk
<1>1. /\ a = last /\ last # 0 /\ last \in Attempts /\ row[last].end = Null
      /\ row[last].status \notin Successful /\ last' = last
      /\ \A c \in Attempts \ {last} : row'[c] = row[c]
  BY OpenEffect
<1>2. PICK b \in Attempts \cup {0}, lastEnd \in SuccessEnds, now \in Ticks :
             /\ MostRecent(b, Ended) /\ LastSuccess(lastEnd)
             /\ RetriesWindow(b) \/ Now(now)
             /\ row'[a].start = StartAt(IF row[a].fromBeginning THEN 0 ELSE lastEnd)
             /\ row'[a].end = IF RetriesWindow(b) THEN row[b].end ELSE now
             /\ fetcher'[a].prev = IF b = 0 THEN 0 ELSE row[b].completed
             /\ fetcher'[a].prevOk <=> (b # 0 /\ row[b].status \in Successful)
  BY OpenPicks DEF CInv
<1>3. /\ IsTerminal(last) => b = last
      /\ ~IsTerminal(last) => b = last - 1
  BY <1>1, <1>2, EndedAttempts
<1>4. Created \subseteq Attempts /\ last \in Nat /\ last >= 1
  BY <1>1, CreatedAttempts DEF CInv, IInv, TypeOK
<1>5. \A c \in Created : row[c].end \in Ticks \cup {Null}
  BY <1>4 DEF CInv, IInv, TypeOK, Row
<1>6. lastEnd \in Ticks
  <2>1. lastEnd \in Ticks \cup {Null} /\ 0 \in SuccessEnds /\ lastEnd >= 0
    BY <1>2, <1>5, FirstOnes DEF SuccessEnds, LastSuccess
  <2> QED
    BY <2>1 DEF Null
<1>7. row[last - 1].status \in Unfinished /\ last - 1 \in Created => lastEnd <= row[last - 1].end \/ row[last - 1].end = Null
  <2> SUFFICES ASSUME row[last - 1].status \in Unfinished, last - 1 \in Created,
                      row[last - 1].end # Null
               PROVE  lastEnd <= row[last - 1].end
    OBVIOUS
  <2>1. CASE lastEnd = 0
    BY <2>1, <1>5 DEF Ticks, Null
  <2>2. CASE lastEnd # 0
    <3>1. PICK c \in Created : row[c].status = "SUCCESS" /\ lastEnd = row[c].end
      BY <2>2 DEF SuccessEnds
    <3>2. c # last /\ c # last - 1
      BY <1>1, <3>1 DEF Successful, Unfinished
    <3>3. c < last - 1 /\ row[c].end # Null
      BY <1>4, <1>6, <3>1, <3>2 DEF Created, Ticks, Null
    <3> QED
      BY <3>1, <3>3 DEF CInv, Past, WindowsOrdered
  <2> QED
    BY <2>1, <2>2
<1>8. b = last - 1 => Follows(last)'
  <2> SUFFICES ASSUME b = last - 1 PROVE Follows(last)'
    OBVIOUS
  <2>1. last # 1 => last - 1 \in Attempts \ {last}
    BY <1>1, <1>4, BoundsAssumption DEF Attempts
  <2>2. last - 1 = 0 <=> last = 1
    BY <1>4
  <2> QED
    BY <1>1, <1>2, <2>1, <2>2 DEF Follows
<1>9. CASE RetriesWindow(b)
  <2>1. b = last - 1 /\ b # 0
    BY <1>1, <1>3, <1>9 DEF RetriesWindow
  <2>2. last - 1 \in Created
    BY <1>4, <2>1 DEF Created
  <2>3. row'[last].end = row[last - 1].end /\ row[last - 1].status \in Unfinished
        /\ row[last - 1].end # Null
    BY <1>1, <1>2, <1>9, <2>1 DEF RetriesWindow
  <2>4. row'[last].end \in Ticks /\ lastEnd <= row'[last].end
    BY <1>5, <1>7, <2>2, <2>3
  <2> QED
    BY <1>1, <1>2, <1>6, <1>8, <2>1, <2>2, <2>3, <2>4
<1>10. CASE ~RetriesWindow(b)
  <2>1. row'[last].end = now /\ Now(now)
    BY <1>1, <1>2, <1>10
  <2>2. \A c \in Created : row[c].end < now
    BY <2>1 DEF Now
  <2>3. lastEnd <= now
    <3>1. CASE lastEnd = 0
      BY <3>1 DEF Ticks
    <3>2. CASE lastEnd # 0
      <4>1. PICK c \in Created : lastEnd = row[c].end
        BY <3>2 DEF SuccessEnds
      <4> QED
        BY <1>6, <2>2, <4>1 DEF Ticks
    <3> QED
      BY <3>1, <3>2
  <2>4. Follows(last)' \/ ~fetcher'[last].prevOk
    <3>1. CASE b = last
      BY <1>1, <1>2, <3>1
    <3>2. CASE b = last - 1
      BY <1>8, <3>2
    <3> QED
      BY <1>3, <3>1, <3>2
  <2> QED
    BY <1>1, <1>2, <1>6, <2>1, <2>2, <2>3, <2>4
<1> QED
  BY <1>9, <1>10

LEMMA LastMonotone ==
    ASSUME NEW d \in Nat, NEW e \in Nat, d <= e
    PROVE  Last(d) \in Nat /\ Last(e) \in Nat /\ Last(d) <= Last(e)
<1>1. PerTick \in Nat /\ e - d \in Nat
  BY BoundsAssumption
<1>2. d * PerTick \in Nat /\ (e - d) * PerTick \in Nat /\ e * PerTick \in Nat
  BY <1>1
<1>3. e * PerTick = d * PerTick + (e - d) * PerTick
  BY <1>1
<1> QED
  BY <1>2, <1>3 DEF Last

LEMMA StartAtType ==
    ASSUME NEW e \in Nat
    PROVE  StartAt(e) \in Nat /\ StartAt(e) <= e
BY BoundsAssumption DEF StartAt

LEMMA OpenPast == ASSUME CInv, IInv', NEW a \in Created, OpenWindow(a) PROVE Past'
<1>1. /\ last # 0 /\ last \in Attempts /\ row[last].end = Null
      /\ row[last].status \notin Successful
      /\ \A b \in Attempts \ {last} : row'[b] = row[b]
      /\ row'[last].status = row[last].status
      /\ row'[last].fromBeginning = row[last].fromBeginning
      /\ Touched /\ last' = last /\ handled' = handled
  BY OpenEffect
<1>2. Created' = Created /\ Created \subseteq Attempts /\ last \in Nat /\ last \in Created
      /\ \A b \in Created : b \in Int /\ b <= last
  BY <1>1, CreatedAttempts, LatestAttempt DEF CInv, IInv, TypeOK, Created
<1>3. PICK t \in Ticks : t = row'[last].end
  BY OpenCases
<1>4. PICK e \in Ticks : /\ LastSuccess(e)
                         /\ row'[last].start = StartAt(IF row[last].fromBeginning THEN 0 ELSE e)
                         /\ e <= t
  BY <1>3, OpenCases
<1>5. \/ last - 1 \in Created /\ t = row[last - 1].end /\ row[last - 1].status \in Unfinished
      \/ \A c \in Created : row[c].end < t
  BY <1>3, OpenCases
<1>6. \A b \in Created : b # last => row'[b] = row[b]
  BY <1>1, <1>2
<1>7. \A b \in Created : row[b].end \in Ticks \cup {Null}
  BY <1>2 DEF CInv, IInv, TypeOK, Row
<1>8. e \in Nat /\ 0 \in Nat /\ t \in Nat /\ t # Null
  BY DEF Ticks, Null
<1>9. row'[last].start \in Nat /\ row'[last].start <= e
  BY <1>4, <1>8, StartAtType
<1>10. WindowsOrdered /\ Retries /\ NewestFirst /\ StartsCovered
  BY DEF CInv, Past
<1>11. WindowsOrdered'
  <2>1. ASSUME NEW b \in Created, row'[b].end # Null PROVE row'[b].start <= row'[b].end
    <3>1. CASE b = last
      BY <1>3, <1>4, <1>8, <1>9, <3>1
    <3>2. CASE b # last
      BY <1>6, <1>10, <2>1, <3>2 DEF WindowsOrdered
    <3> QED
      BY <3>1, <3>2
  <2>2. ASSUME NEW b \in Created, NEW c \in Created, b < c, row'[b].end # Null, row'[c].end # Null
        PROVE  row'[b].end <= row'[c].end
    <3>1. b # last /\ row'[b] = row[b]
      BY <1>2, <1>6, <2>2
    <3>2. CASE c # last
      BY <1>6, <1>10, <2>2, <3>1, <3>2 DEF WindowsOrdered
    <3>3. CASE c = last /\ last - 1 \in Created /\ t = row[last - 1].end
      <4>1. row[b].end <= t
        <5>1. CASE b = last - 1
          BY <1>8, <3>3, <5>1
        <5>2. CASE b # last - 1
          <6>1. b < last - 1
            BY <1>2, <2>2, <3>3, <5>2
          <6> QED
            BY <1>8, <1>10, <2>2, <3>1, <3>3, <6>1 DEF WindowsOrdered
        <5> QED
          BY <5>1, <5>2
      <4> QED
        BY <1>3, <3>1, <3>3, <4>1
    <3>4. CASE c = last /\ \A d \in Created : row[d].end < t
      BY <1>3, <1>7, <1>8, <3>1, <3>4 DEF Ticks, Null
    <3> QED
      BY <1>5, <3>2, <3>3, <3>4
  <2>3. ASSUME NEW b \in Created, NEW c \in Created, NEW d \in Created, b < c, c < d,
               row'[b].end # Null, row'[b].end = row'[d].end
        PROVE  row'[c].end = row'[b].end
    <3>1. c # last /\ b # last /\ row'[b] = row[b] /\ row'[c] = row[c]
      <4>1. b \in Int /\ c \in Int /\ d \in Int /\ d <= last /\ last \in Int
        BY <1>2
      <4>2. c # last /\ b # last
        BY <2>3, <4>1
      <4> QED
        BY <1>6, <4>2
    <3>2. CASE d # last
      BY <1>6, <1>10, <2>3, <3>1, <3>2 DEF WindowsOrdered
    <3>3. CASE d = last /\ last - 1 \in Created /\ t = row[last - 1].end
      <4>1. row[b].end = row[last - 1].end
        BY <1>3, <2>3, <3>1, <3>3
      <4>2. CASE c = last - 1
        BY <3>1, <4>1, <4>2
      <4>3. CASE c # last - 1
        <5>1. c < last - 1
          BY <1>2, <2>3, <3>3, <4>3
        <5> QED
          BY <1>10, <2>3, <3>1, <3>3, <4>1, <5>1 DEF WindowsOrdered
      <4> QED
        BY <4>2, <4>3
    <3>4. CASE d = last /\ \A i \in Created : row[i].end < t
      BY <1>3, <1>7, <1>8, <2>3, <3>1, <3>4 DEF Ticks, Null
    <3> QED
      BY <1>5, <3>2, <3>3, <3>4
  <2>4. \A b \in Created' : row'[b].end # Null => row'[b].start <= row'[b].end
    BY <1>2, <2>1
  <2>5. \A b, c \in Created' : b < c /\ row'[b].end # Null /\ row'[c].end # Null
            => row'[b].end <= row'[c].end
    BY <1>2, <2>2
  <2>6. \A b, c, d \in Created' : b < c /\ c < d /\ row'[b].end # Null /\ row'[b].end = row'[d].end
            => row'[c].end = row'[b].end
    BY <1>2, <2>3
  <2> QED
    BY <2>4, <2>5, <2>6 DEF WindowsOrdered
<1>12. Retries'
  <2>1. ASSUME NEW b \in Created, NEW c \in Created, b < c, row'[b].end # Null,
               row'[b].end = row'[c].end
        PROVE  row'[b].status \in Unfinished
    <3>1. b # last /\ row'[b] = row[b]
      BY <1>2, <1>6, <2>1
    <3>2. CASE c # last
      BY <1>6, <1>10, <2>1, <3>1, <3>2 DEF Retries
    <3>3. CASE c = last /\ last - 1 \in Created /\ t = row[last - 1].end
                /\ row[last - 1].status \in Unfinished
      <4>1. CASE b = last - 1
        BY <3>1, <3>3, <4>1
      <4>2. CASE b # last - 1
        <5>1. b < last - 1
          BY <1>2, <2>1, <3>3, <4>2
        <5>2. row[b].end = row[last - 1].end /\ row[b].end # Null
          BY <1>3, <2>1, <3>1, <3>3
        <5>3. \A i, j \in Created : i < j /\ row[i].end # Null /\ row[i].end = row[j].end
                 => row[i].status \in Unfinished
          BY <1>10 DEF Retries
        <5> QED
          BY <3>1, <3>3, <5>1, <5>2, <5>3
      <4> QED
        BY <4>1, <4>2
    <3>4. CASE c = last /\ \A d \in Created : row[d].end < t
      BY <1>3, <1>7, <1>8, <2>1, <3>1, <3>4 DEF Ticks, Null
    <3> QED
      BY <1>5, <3>2, <3>3, <3>4
  <2>2. ASSUME NEW b \in Created, row'[b].fromBeginning
        PROVE  b > 1 /\ row'[b - 1].status \in Successful
    <3>1. row[b].fromBeginning
      BY <1>1, <1>6, <2>2
    <3>2. b > 1 /\ row[b - 1].status \in Successful
      BY <1>10, <3>1 DEF Retries
    <3>3. b - 1 \in Created /\ b - 1 # last
      BY <1>2, <3>2 DEF Created
    <3> QED
      BY <1>6, <3>2, <3>3
  <2>3. ASSUME NEW b \in Created PROVE EndsBefore(b)' = EndsBefore(b)
    <3>1. \A c \in Created : c < b => c # last /\ row'[c] = row[c]
      BY <1>2, <1>6
    <3> QED
      BY <1>2, <3>1 DEF EndsBefore
  <2>4. ASSUME NEW b \in Created, row'[b].end # Null, ~row'[b].fromBeginning
        PROVE  \E s \in Ticks : StartsAfter(s, b)'
    <3>1. CASE b = last
      <4>1. EndsBefore(last) = SuccessEnds
        <5>1. \A c \in Created : row[c].status = "SUCCESS" => c < last
          BY <1>1, <1>2 DEF Successful
        <5> QED
          BY <5>1 DEF EndsBefore, SuccessEnds
      <4> QED
        BY <1>1, <1>2, <1>4, <2>3, <2>4, <3>1, <4>1 DEF StartsAfter, LastSuccess
    <3>2. CASE b # last
      BY <1>6, <1>10, <2>3, <2>4, <3>2 DEF Retries, StartsAfter
    <3> QED
      BY <3>1, <3>2
  <2> QED
    BY <1>2, <2>1, <2>2, <2>4 DEF Retries
<1>13. NewestFirst'
  BY <1>1, <1>10, TouchLatest DEF CInv
<1>14. StartsCovered'
  <2> SUFFICES ASSUME NEW b \in Created, row'[b].end # Null
               PROVE  1..Last(row'[b].start) \subseteq handled
    BY <1>1, <1>2 DEF StartsCovered
  <2>1. CASE b # last
    BY <1>6, <1>10, <2>1 DEF StartsCovered
  <2>2. CASE b = last
    <3>1. 1..Last(e) \subseteq handled
      <4>1. CASE e = 0
        <5>1. Last(e) = 0
          BY <4>1, BoundsAssumption DEF Last
        <5> QED
          BY <5>1
      <4>2. CASE e # 0
        <5>1. PICK c \in Created : row[c].status = "SUCCESS" /\ e = row[c].end
          BY <1>4, <4>2 DEF LastSuccess, SuccessEnds
        <5> QED
          BY <5>1 DEF CInv, Verdicts, NoDocumentSkipped, Successful
      <4> QED
        BY <4>1, <4>2
    <3>2. Last(row'[last].start) <= Last(e) /\ Last(e) \in Nat /\ Last(row'[last].start) \in Nat
      BY <1>8, <1>9, LastMonotone
    <3> QED
      BY <2>2, <3>1, <3>2
  <2> QED
    BY <2>1, <2>2
<1> QED
  BY <1>11, <1>12, <1>13, <1>14 DEF Past

LEMMA OpenLatest == ASSUME CInv, IInv', NEW a \in Created, OpenWindow(a) PROVE Latest(last)'
<1>1. /\ last # 0 /\ last \in Attempts /\ Latest(last)
      /\ row[last].end = Null
      /\ \A b \in Attempts \ {last} : row'[b] = row[b]
      /\ row'[last].checkpoint = NoCheckpoint
      /\ row'[last].completed = 0 /\ row'[last].total = Null
      /\ fetcher'[last].pc = "resume" /\ fetcher'[last].num = 0
      /\ UNCHANGED <<last, files, queue, worker, monitor, handled>>
  BY OpenEffect
<1>2. Created' = Created /\ Created \subseteq Attempts
  BY <1>1, CreatedAttempts DEF CInv, IInv, Created
<1>3. row'[last].end # Null
  BY OpenCases DEF Ticks, Null
<1>4. Opened(last)'
  <2>1. Fresh(last)'
    BY <1>1 DEF Fresh
  <2>2. Follows(last)' \/ Anew(last)'
    <3>1. CASE ~fetcher'[last].prevOk /\ \A c \in Created : row[c].end < row'[last].end
      <4>1. \A c \in Created : c # last => row'[c].end # row'[last].end
        <5>1. \A c \in Created : row[c].end \in Int
          BY <1>2 DEF CInv, IInv, TypeOK, Row, Ticks, Null
        <5>2. row'[last].end \in Int
          BY OpenCases DEF Ticks
        <5> QED
          BY <1>1, <1>2, <3>1, <5>1, <5>2
      <4> QED
        BY <1>1, <1>2, <3>1, <4>1 DEF Anew
    <3> QED
      BY <3>1, OpenCases
  <2> QED
    BY <1>1, <1>3, <2>1, <2>2 DEF Opened, Before, FetcherRunning, FetcherPc
<1>5. Progress(last)'
  BY <1>1 DEF Progress, Adopted, Reading
<1>6. NotSent(last)' /\ OneTask(last)'
  BY <1>1 DEF Latest, NotSent, OneTask, Busy
<1>7. FreeNumbers(last)'
  <2>1. last # 1 /\ row'[last - 1].end # Null => Bound(row[last - 1].completed)'
    <3> SUFFICES ASSUME last # 1, row'[last - 1].end # Null
                 PROVE  Bound(row[last - 1].completed)'
      OBVIOUS
    <3>1. row'[last - 1] = row[last - 1]
      BY <1>1, BoundsAssumption DEF Attempts
    <3>2. Bound(row[last - 1].completed)
      BY <1>1, <3>1 DEF Latest, FreeNumbers
    <3>3. Standing' = Standing
      BY <1>1 DEF Standing, Counted
    <3> QED
      BY <1>1, <3>1, <3>2, <3>3 DEF Bound
  <2> QED
    BY <1>1, <2>1 DEF FreeNumbers, FetcherResuming, Adopted
<1>8. TasksForFiles(last)'
  BY <1>1 DEF TasksForFiles, Adopted
<1>9. CountsOnce(last)'
  BY <1>1 DEF CountsOnce, Adopted
<1> QED
  BY <1>4, <1>5, <1>6, <1>7, <1>8, <1>9 DEF Latest

LEMMA OpenWindowStep == ASSUME CInv, IInv', NEW a \in Created, OpenWindow(a) PROVE CInv'
<1>1. /\ last # 0 /\ last \in Attempts /\ row[last].end = Null
      /\ row[last].status \notin Successful /\ Fresh(last)
      /\ \A b \in Attempts \ {last} : row'[b] = row[b]
      /\ \A b \in Attempts \ {last} : fetcher'[b] = fetcher[b]
      /\ row'[last].status = row[last].status
      /\ row'[last].checkpoint = NoCheckpoint
      /\ fetcher'[last].pc = "resume" /\ fetcher'[last].num = 0
      /\ UNCHANGED <<last, files, queue, worker, monitor, handled>>
  BY OpenEffect
<1>2. Created' = Created /\ Created \subseteq Attempts
  BY <1>1, CreatedAttempts DEF CInv, IInv, Created
<1>3. OnlyLatest'
  BY <1>1, <1>2 DEF CInv, OnlyLatest, IsTerminal, Busy
<1>4. FromZero'
  BY <1>1 DEF CInv, FromZero
<1>5. Checkpoints'
  <2> SUFFICES ASSUME NEW c \in Created, row'[c].checkpoint # NoCheckpoint
               PROVE  /\ row'[c].end # Null
                      /\ Within(row[c].checkpoint, c)'
                      /\ Live(c)' => Covered(c, row[c].checkpoint.pos)'
    BY <1>2 DEF Checkpoints
  <2>1. c # last /\ row'[c] = row[c]
    BY <1>1, <1>2
  <2>2. /\ row[c].end # Null
        /\ Within(row[c].checkpoint, c)
        /\ Live(c) => Covered(c, row[c].checkpoint.pos)
    BY <2>1 DEF CInv, Checkpoints
  <2>3. Live(c)' => Live(c)
    BY <1>1, <1>2, <2>1 DEF Live
  <2> QED
    BY <1>1, <2>1, <2>2, <2>3 DEF Within, Covered
<1>6. Distinct(files)' /\ HoldsFile'
  BY <1>1 DEF CInv, HoldsFile, Distinct, Busy
<1>7. Verdicts'
  BY <1>1, StillUndecided DEF Complete, Fresh
<1>8. Past' /\ Latest(last)'
  BY OpenPast, OpenLatest
<1> QED
  BY <1>3, <1>4, <1>5, <1>6, <1>7, <1>8 DEF CInv

-----------------------------------------------------------------------------
(* Steps of the latest process                                               *)

OtherProcesses == \A b \in Attempts \ {last} : fetcher'[b] = fetcher[b]
OtherRows == \A b \in Attempts \ {last} : row'[b] = row[b]
OtherTasks == \A b \in Attempts, n \in BatchNums : b # last => queue'[<<b, n>>] = queue[<<b, n>>]

\* What holds whatever a running process does.
LEMMA ProcessStep ==
    ASSUME CInv, last # 0, fetcher[last].pc \in FetcherRunning,
           OtherProcesses, OtherRows, OtherTasks,
           row'[last].status = row[last].status, SameWindows, Touched,
           UNCHANGED <<last, worker, monitor>>, handled \subseteq handled',
           fetcher'[last].pc \notin {"none", "window", "resume"},
           IInv', Checkpoints', Distinct(files)', HoldsFile', Latest(last)'
    PROVE  CInv'
<1>1. /\ last \in Attempts /\ ~Complete(last) /\ row[last].status \notin Successful
      /\ Created' = Created /\ Created \subseteq Attempts
  BY LatestAttempt, CreatedAttempts, RunningIsLatest DEF CInv, IInv, Created
<1>2. OnlyLatest'
  <2>1. \A a \in Attempts : fetcher'[a].pc \in FetcherRunning => a = last
    BY DEF OtherProcesses, CInv, OnlyLatest
  <2>2. \A a \in Attempts, n \in BatchNums : a # last => queue'[<<a, n>>] = 0
    BY DEF OtherTasks, CInv, OnlyLatest
  <2>3. \A a \in Created : a # last => IsTerminal(a)'
    BY <1>1 DEF OtherRows, CInv, OnlyLatest, IsTerminal
  <2> QED
    BY <1>1, <2>1, <2>2, <2>3 DEF OnlyLatest, CInv, Busy
<1>3. FromZero'
  BY DEF FromZero, OtherProcesses, CInv
<1>4. StatusFrame
  BY <1>1 DEF StatusFrame, OtherRows
<1>5. Past'
  BY <1>4, PastKept DEF CInv
<1>6. Verdicts'
  BY <1>1, StillUndecided DEF OtherRows
<1> QED
  BY <1>2, <1>3, <1>5, <1>6 DEF CInv

\* The process is the latest, its window is open and nothing of it is counted.
LEMMA ResumingFacts ==
    ASSUME CInv, NEW a \in Created, fetcher[a].pc \in FetcherResuming
    PROVE  /\ a = last /\ last # 0 /\ last \in Attempts /\ fetcher[last].pc \in FetcherRunning
           /\ Latest(last) /\ row[last] \in Row /\ fetcher[last] \in Fetcher
           /\ row \in [Attempts -> Row] /\ fetcher \in [Attempts -> Fetcher]
           /\ row[last].end # Null /\ row[last].total = Null /\ Fresh(last)
           /\ row[last].start \in Nat /\ row[last].end \in Nat
           /\ row[last].start <= row[last].end
           /\ \A w \in Worker : ~Busy(w)
<1>1. a \in Attempts /\ fetcher[a].pc \in FetcherRunning
  BY CreatedAttempts DEF CInv, IInv, FetcherResuming, FetcherRunning, FetcherPc
<1>2. a = last /\ last # 0 /\ Latest(last) /\ row[last].total = Null
  BY <1>1, RunningIsLatest
<1>3. row \in [Attempts -> Row] /\ fetcher \in [Attempts -> Fetcher]
  BY DEF CInv, IInv, TypeOK
<1>4. row[last].end # Null /\ Fresh(last)
  BY <1>1, <1>2 DEF Latest, Opened, FetcherResuming, FetcherRunning, FetcherPc
<1>5. row[last].start \in Ticks /\ row[last].end \in Ticks
  BY <1>1, <1>2 DEF CInv, IInv, Inductive, WindowOpen, FetcherResuming, FetcherRunning, FetcherPc
<1>6. row[last].start <= row[last].end
  BY <1>2, <1>4 DEF CInv, Past, WindowsOrdered
<1>7. \A w \in Worker : ~Busy(w)
  BY <1>2 DEF Latest, NotSent
<1> QED
  BY <1>1, <1>2, <1>3, <1>4, <1>5, <1>6, <1>7 DEF Ticks

\* After a success, no checkpoint is left to resume from.
LEMMA NothingToResume ==
    ASSUME CInv, last # 0, fetcher[last].pc = "resume",
           row[last].fromBeginning \/ fetcher[last].prevOk,
           NEW c \in Created, row[c].checkpoint # NoCheckpoint
    PROVE  ~Live(c)
<1>1. last \in Created
  BY LatestAttempt DEF CInv
<1>2. /\ Latest(last) /\ row[last].end # Null /\ Fresh(last)
  BY <1>1, ResumingFacts DEF FetcherResuming
<1>3. last > 1 /\ row[last - 1].status \in Successful
  <2>1. CASE row[last].fromBeginning
    BY <1>1, <2>1 DEF CInv, Past, Retries
  <2>2. CASE fetcher[last].prevOk
    <3>1. Follows(last)
      BY <1>2, <2>2 DEF Latest, Opened, FetcherResuming, Anew
    <3> QED
      BY <1>1, <2>2, <3>1 DEF Follows, Created
  <2> QED
    BY <2>1, <2>2
<1>4. last - 1 \in Created /\ c < last /\ c \in Int /\ last \in Int
  BY <1>1, <1>2, <1>3 DEF Created, Fresh
<1>5. SUFFICES ASSUME Live(c) PROVE FALSE
  OBVIOUS
<1>6. row[last].end = row[c].end
  BY <1>1, <1>2, <1>4, <1>5 DEF Live
<1>7. row[last - 1].end = row[last].end
  <2>1. CASE c = last - 1
    BY <1>6, <2>1
  <2>2. CASE c # last - 1
    BY <1>1, <1>2, <1>4, <1>6, <2>2 DEF CInv, Past, WindowsOrdered
  <2> QED
    BY <2>1, <2>2
<1>8. row[last - 1].status \in Unfinished
  BY <1>1, <1>2, <1>4, <1>7 DEF CInv, Past, Retries
<1> QED
  BY <1>3, <1>8 DEF Successful, Unfinished

\* Nor when no valid checkpoint is found.
LEMMA NoValidCheckpoint ==
    ASSUME CInv, last # 0, fetcher[last].pc = "resume", Candidates(last) = {},
           NEW c \in Created, row[c].checkpoint # NoCheckpoint
    PROVE  ~Live(c)
<1>1. last \in Created
  BY LatestAttempt DEF CInv
<1>2. row[last].end # Null /\ Fresh(last)
  BY <1>1, ResumingFacts DEF FetcherResuming
<1>3. c < last /\ c # last
  BY <1>1, <1>2 DEF Fresh, Created
<1>4. SUFFICES ASSUME Live(c) PROVE FALSE
  OBVIOUS
<1>5. row[last].end = row[c].end /\ row[last].start = row[c].start
  BY <1>1, <1>2, <1>3, <1>4 DEF Live
<1>6. row[c].status \in Unfinished
  BY <1>1, <1>2, <1>3, <1>5 DEF CInv, Past, Retries
<1>7. c \in Ended
  BY <1>3 DEF Ended, CInv, OnlyLatest
<1>8. c \in Candidates(last)
  BY <1>5, <1>6, <1>7 DEF Candidates
<1> QED
  BY <1>8

LEMMA EmptiedStep ==
    ASSUME CInv, IInv', last # 0, fetcher[last].pc = "resume", files' = {},
           OtherProcesses, fetcher'[last].pc = "save", fetcher'[last].cp = Dummy(last),
           fetcher'[last].num = fetcher[last].num,
           UNCHANGED <<row, last, newer, queue, worker, monitor, handled>>,
           \A c \in Created : row[c].checkpoint # NoCheckpoint => ~Live(c)
    PROVE  CInv'
<1>1. /\ last \in Attempts /\ fetcher[last].pc \in FetcherRunning /\ Latest(last)
      /\ row[last].end # Null /\ row[last].total = Null /\ Fresh(last)
      /\ row[last].start \in Nat /\ row[last].end \in Nat /\ row[last].start <= row[last].end
      /\ \A w \in Worker : ~Busy(w)
  <2>1. last \in Created
    BY LatestAttempt DEF CInv
  <2> QED
    BY <2>1, ResumingFacts DEF FetcherResuming
<1>2. fetcher'[last].num = 0
  BY <1>1 DEF CInv, FromZero
<1>3. Checkpoints'
  BY DEF CInv, Checkpoints, Created, Within, Live
<1>4. Distinct(files)' /\ HoldsFile'
  BY <1>1 DEF Distinct, HoldsFile, Busy
<1>5. Opened(last)'
  BY <1>1 DEF Opened, Before, FetcherResuming
<1>6. Progress(last)'
  <2>1. Last(row[last].start) \in Nat /\ Last(row[last].end) \in Nat
        /\ Last(row[last].start) <= Last(row[last].end)
    BY <1>1, LastMonotone
  <2>2. Within(fetcher[last].cp, last)'
    BY <2>1 DEF Within, Dummy
  <2>3. Covered(last, fetcher[last].cp.pos)'
    BY <2>1 DEF Covered, Dummy
  <2> QED
    BY <1>1, <2>2, <2>3 DEF Progress, Reading
<1>7. NotSent(last)' /\ OneTask(last)'
  BY <1>1 DEF Latest, NotSent, OneTask, Busy, FetcherResuming
<1>8. FreeNumbers(last)'
  <2>1. Rest(fetcher[last].num)' = {} /\ Standing' = {}
    BY DEF Rest, Standing
  <2>2. Cardinality(Rest(fetcher[last].num)') = 0
    BY <2>1, FS_EmptySet
  <2>3. row'[last].completed = 0
    BY <1>1 DEF Fresh
  <2> QED
    BY <1>1, <1>2, <2>2, <2>3 DEF FreeNumbers, Bound
<1>9. \A n \in BatchNums : queue'[<<last, n>>] = 0
  BY <1>1 DEF Latest, NotSent
<1>10. TasksForFiles(last)'
  BY <1>1, <1>9 DEF TasksForFiles, Busy
<1>11. CountsOnce(last)'
  <2>1. Open(last)' = {}
    BY <1>1, <1>9 DEF Open, Uncounted, Busy
  <2>2. Cardinality(Open(last)' \ {fetcher'[last].num}) = 0
    BY <2>1, FS_EmptySet
  <2>3. row'[last].completed = 0 /\ row'[last].total = Null
    BY <1>1 DEF Fresh
  <2> QED
    BY <1>2, <2>2, <2>3 DEF CountsOnce
<1>12. OtherRows /\ OtherTasks /\ SameWindows /\ Touched
  BY SameRows DEF OtherRows, OtherTasks, Touched
<1>13. Latest(last)'
  BY <1>5, <1>6, <1>7, <1>8, <1>10, <1>11 DEF Latest
<1> QED
  BY <1>1, <1>3, <1>4, <1>12, <1>13, ProcessStep

LEMMA StartOverStep == ASSUME CInv, IInv', NEW a \in Created, StartOver(a) PROVE CInv'
<1>1. fetcher[a].pc = "resume"
  BY DEF StartOver
<1>2. /\ a = last /\ last # 0 /\ last \in Attempts /\ fetcher \in [Attempts -> Fetcher]
  BY <1>1, ResumingFacts DEF FetcherResuming
<1>3. /\ fetcher' = [fetcher EXCEPT ![last].pc = "save", ![last].cp = Dummy(last)]
      /\ files' = {}
      /\ row[last].fromBeginning \/ fetcher[last].prevOk
      /\ UNCHANGED <<row, last, newer, queue, worker, monitor, handled>>
  BY <1>2 DEF StartOver
<1>4. /\ OtherProcesses
      /\ fetcher'[last].pc = "save" /\ fetcher'[last].cp = Dummy(last)
      /\ fetcher'[last].num = fetcher[last].num
  BY <1>2, <1>3 DEF OtherProcesses, Fetcher
<1>5. \A c \in Created : row[c].checkpoint # NoCheckpoint => ~Live(c)
  BY <1>1, <1>2, <1>3, NothingToResume
<1> QED
  BY <1>1, <1>2, <1>3, <1>4, <1>5, EmptiedStep

\* A checkpoint of the window of the latest attempt may still be resumed from.
LEMMA SameWindowLive ==
    ASSUME CInv, last # 0, row[last].end # Null,
           NEW c \in Created, row[c].end = row[last].end, row[c].start = row[last].start
    PROVE  Live(c)
<1>1. last \in Created /\ last \in Int
  BY LatestAttempt DEF CInv, Attempts
<1>2. row[last].end # Null
  OBVIOUS
<1>3. /\ c \in Created /\ row[c].end = row[last].end /\ row[c].start = row[last].start
  OBVIOUS
<1> SUFFICES ASSUME c # last PROVE Live(c)
  BY <1>1 DEF Live, Created
<1>4. c < last
  BY <1>1 DEF Created
<1>a. ASSUME NEW i \in Created, i >= c, i < last
      PROVE  row[i].end = row[last].end /\ row[i].status \in Unfinished
  <2>1. CASE i = c
    BY <1>1, <1>2, <1>3, <1>a, <2>1 DEF CInv, Past, Retries
  <2>2. CASE i # c
    <3>1. i > c
      BY <1>3, <1>a, <2>2 DEF Created
    <3>2. row[i].end = row[last].end
      BY <1>1, <1>2, <1>3, <1>a, <3>1 DEF CInv, Past, WindowsOrdered
    <3> QED
      BY <1>1, <1>2, <1>a, <3>2 DEF CInv, Past, Retries
  <2> QED
    BY <2>1, <2>2
<1>b. ASSUME NEW d \in Created, d > c PROVE ~row[d].fromBeginning
  <2> SUFFICES ASSUME row[d].fromBeginning PROVE FALSE
    OBVIOUS
  <2>1. d > 1 /\ row[d - 1].status \in Successful
    BY DEF CInv, Past, Retries
  <2>2. d - 1 \in Created /\ d - 1 >= c /\ d - 1 < last
    BY <1>1, <1>3, <1>b, <2>1 DEF Created
  <2>3. row[d - 1].status \in Unfinished
    BY <1>a, <2>2
  <2> QED
    BY <2>1, <2>3 DEF Successful, Unfinished
<1>5. ASSUME NEW d \in Created, d > c
      PROVE  row[d].end = row[c].end /\ row[d].start = row[c].start
  <2>1. CASE d = last
    BY <1>3, <2>1
  <2>2. CASE d # last
    <3>1. d < last
      BY <1>1, <2>2 DEF Created
    <3>2. row[d].end = row[c].end
      BY <1>1, <1>2, <1>3, <1>5, <3>1 DEF CInv, Past, WindowsOrdered
    <3>5. EndsBefore(d) = EndsBefore(last)
      <4>1. ASSUME NEW i \in Created, i < last, row[i].status = "SUCCESS" PROVE i < d
        BY <1>1, <1>3, <1>5, <1>a, <4>1 DEF Unfinished, Created
      <4>2. \A i \in Created : i < d => i < last
        BY <1>1, <3>1 DEF Created
      <4> QED
        BY <4>1, <4>2 DEF EndsBefore
    <3>7. PICK e \in Ticks : StartsAfter(e, d)
      BY <1>2, <1>3, <1>5, <1>b, <3>2 DEF CInv, Past, Retries
    <3>8. PICK f \in Ticks : StartsAfter(f, last)
      BY <1>1, <1>2, <1>4, <1>b DEF CInv, Past, Retries
    <3>9. e = f
      BY <3>5, <3>7, <3>8 DEF StartsAfter, Ticks
    <3> QED
      BY <1>3, <3>2, <3>7, <3>8, <3>9 DEF StartsAfter
  <2> QED
    BY <2>1, <2>2
<1> QED
  BY <1>5 DEF Live

\* A checkpoint that may be resumed from is of the window being resumed.
LEMMA CandidateLive ==
    ASSUME CInv, last # 0, fetcher[last].pc = "resume", NEW c \in Candidates(last)
    PROVE  /\ c \in Created /\ c # last /\ Live(c)
           /\ row[c].end = row[last].end /\ row[c].start = row[last].start
           /\ row[c].checkpoint # NoCheckpoint
<1>1. last \in Created /\ last \in Int
  BY LatestAttempt DEF CInv, Attempts
<1>2. row[last].end # Null /\ Fresh(last)
  BY <1>1, ResumingFacts DEF FetcherResuming
<1>3. /\ c \in Created /\ row[c].end = row[last].end /\ row[c].start = row[last].start
      /\ row[c].checkpoint # NoCheckpoint
  BY DEF Candidates, Ended
<1>4. c # last /\ c < last
  BY <1>1, <1>2, <1>3 DEF Fresh, Created
<1> QED
  BY <1>2, <1>3, <1>4, SameWindowLive

\* What resuming from checkpoint c does to the latest attempt.
LEMMA ResumedStep ==
    ASSUME CInv, IInv', last # 0, fetcher[last].pc = "resume", files' = files,
           ~row[last].fromBeginning, ~fetcher[last].prevOk,
           NEW c \in Candidates(last), OtherProcesses,
           fetcher'[last].pc = "list", fetcher'[last].cp = row[c].checkpoint,
           fetcher'[last].prev = fetcher[last].prev,
           fetcher'[last].prevOk = fetcher[last].prevOk,
           UNCHANGED <<row, last, newer, queue, worker, monitor, handled>>
    PROVE  CInv'
<1>1. /\ last \in Attempts /\ last \in Created /\ fetcher[last].pc \in FetcherRunning
      /\ Latest(last) /\ row[last].end # Null /\ row[last].total = Null /\ Fresh(last)
      /\ \A w \in Worker : ~Busy(w)
  <2>1. last \in Created
    BY LatestAttempt DEF CInv
  <2> QED
    BY <2>1, ResumingFacts DEF FetcherResuming
<1>2. /\ c \in Created /\ c # last /\ Live(c) /\ row[c].checkpoint # NoCheckpoint
      /\ row[c].end = row[last].end /\ row[c].start = row[last].start
  BY CandidateLive
<1>3. last > 1 /\ last - 1 \in Created /\ row[last - 1].end = row[last].end
  <2>1. last \in Int /\ c \in Int /\ c < last /\ c >= 1
    BY <1>1, <1>2 DEF Created, Attempts
  <2>2. last - 1 \in Created
    BY <2>1 DEF Created
  <2>3. CASE c = last - 1
    BY <1>2, <2>1, <2>2, <2>3
  <2>4. CASE c # last - 1
    <3>1. c < last - 1
      BY <1>2, <2>1, <2>4 DEF Created
    <3> QED
      BY <1>1, <1>2, <2>1, <2>2, <3>1 DEF CInv, Past, WindowsOrdered
  <2> QED
    BY <2>1, <2>2, <2>3, <2>4
<1>4. Follows(last)
  <2>1. ~Anew(last)
    BY <1>2 DEF Anew
  <2> QED
    BY <1>1, <2>1 DEF Latest, Opened, FetcherResuming
<1>5. Checkpoints'
  BY CheckpointsKept, SameRows DEF CInv, KeptPages
<1>6. Distinct(files)' /\ HoldsFile'
  BY <1>1 DEF CInv, Distinct, HoldsFile, Busy
<1>7. Opened(last)'
  <2>1. Follows(last)'
    BY <1>4 DEF Follows
  <2> QED
    BY <1>1, <2>1 DEF Opened, Before, FetcherResuming, Fresh
<1>8. Progress(last)'
  <2>1. Within(row[c].checkpoint, c) /\ Covered(c, row[c].checkpoint.pos)
    BY <1>2 DEF CInv, Checkpoints
  <2>2. Within(fetcher[last].cp, last)'
    BY <1>2, <2>1 DEF Within
  <2>3. Covered(last, fetcher[last].cp.pos)'
    BY <1>2, <2>1 DEF Covered
  <2> QED
    BY <1>1, <2>2, <2>3 DEF Progress, Adopted, Reading
<1>9. NotSent(last)' /\ OneTask(last)'
  BY <1>1 DEF Latest, NotSent, OneTask, Busy, FetcherResuming
<1>10. FreeNumbers(last)'
  <2>1. Bound(fetcher[last].prev)
    BY <1>1, <1>3, <1>4 DEF Latest, FreeNumbers, Follows
  <2>2. Standing' = Standing
    BY DEF Standing, Counted
  <2>3. Bound(fetcher[last].prev)'
    BY <2>1, <2>2 DEF Bound
  <2> QED
    BY <1>1, <2>3 DEF FreeNumbers, FetcherResuming, Adopted
<1>11. TasksForFiles(last)' /\ CountsOnce(last)'
  BY <1>1 DEF TasksForFiles, CountsOnce, Adopted
<1>12. OtherRows /\ OtherTasks /\ SameWindows /\ Touched
  BY SameRows DEF OtherRows, OtherTasks, Touched
<1>13. Latest(last)'
  BY <1>7, <1>8, <1>9, <1>10, <1>11 DEF Latest
<1> QED
  BY <1>1, <1>5, <1>6, <1>12, <1>13, ProcessStep

LEMMA LoadCheckpointStep ==
    ASSUME CInv, IInv', NoHazards, NEW a \in Created, LoadCheckpoint(a)
    PROVE  CInv'
<1>1. fetcher[a].pc = "resume"
  BY DEF LoadCheckpoint
<1>2. /\ a = last /\ last # 0 /\ last \in Attempts /\ fetcher \in [Attempts -> Fetcher]
  BY <1>1, ResumingFacts DEF FetcherResuming
<1> DEFINE Cp(b) == IF b = 0 THEN Dummy(last) ELSE row[b].checkpoint
<1>3. PICK b \in Attempts \cup {0} :
         /\ LatestValid(last, b)
         /\ fetcher' = [fetcher EXCEPT
                ![last].pc = IF Reissue(last, b, Cp(b)) THEN "list" ELSE "save",
                ![last].cp = Cp(b)]
         /\ files' = IF Reissue(last, b, Cp(b)) THEN files ELSE {}
  BY <1>2 DEF LoadCheckpoint
<1>4. /\ ~row[last].fromBeginning /\ ~fetcher[last].prevOk
      /\ UNCHANGED <<row, last, newer, queue, worker, monitor, handled>>
  BY <1>2 DEF LoadCheckpoint
<1>5. MostRecent(b, Candidates(last))
  BY <1>3 DEF LatestValid, NoHazards
<1>6. /\ OtherProcesses
      /\ fetcher'[last].pc = IF Reissue(last, b, Cp(b)) THEN "list" ELSE "save"
      /\ fetcher'[last].cp = Cp(b) /\ fetcher'[last].num = fetcher[last].num
      /\ fetcher'[last].prev = fetcher[last].prev
      /\ fetcher'[last].prevOk = fetcher[last].prevOk
  BY <1>2, <1>3 DEF OtherProcesses, Fetcher
<1>7. CASE b = 0
  <2>1. Cp(b) = Dummy(last)
    BY <1>7
  <2>2. ~Reissue(last, b, Cp(b))
    BY <1>7, <2>1 DEF Reissue, Dummy
  <2>3. Candidates(last) = {}
    <3>1. 0 \notin Candidates(last)
      BY DEF Candidates, Ended, Created
    <3> QED
      BY <1>5, <1>7, <3>1 DEF MostRecent
  <2>4. \A c \in Created : row[c].checkpoint # NoCheckpoint => ~Live(c)
    BY <1>1, <1>2, <2>3, NoValidCheckpoint
  <2> QED
    BY <1>1, <1>2, <1>3, <1>4, <1>6, <2>1, <2>2, <2>4, EmptiedStep
<1>8. CASE b # 0
  <2>1. Cp(b) = row[b].checkpoint
    BY <1>8
  <2>2. Reissue(last, b, Cp(b))
    BY <1>8 DEF Reissue, NoHazards
  <2>3. b \in Candidates(last)
    BY <1>5, <1>8 DEF MostRecent
  <2> QED
    BY <1>1, <1>2, <1>3, <1>4, <1>6, <2>1, <2>2, <2>3, ResumedStep
<1> QED
  BY <1>7, <1>8

-----------------------------------------------------------------------------
(* Adopting the batches of the previous attempt                              *)

LEMMA RenamedFiles ==
    ASSUME NEW S, S \subseteq File, IsFiniteSet(S), Distinct(S), NEW a \in Attempts
    PROVE  /\ Cardinality(Renamed(S, a)) = Cardinality(S)
           /\ Distinct(Renamed(S, a))
           /\ \A f \in S : \E g \in Renamed(S, a) : g.num = f.num /\ g.page = f.page
           /\ \A g \in Renamed(S, a) : \E f \in S : g.num = f.num /\ g.page = f.page
           /\ PagesOf(Renamed(S, a)) = PagesOf(S)
<1> DEFINE ren == [f \in S |-> [f EXCEPT !.att = a]]
<1>1. \A f \in S : /\ ren[f] \in Renamed(S, a)
                   /\ ren[f].num = f.num /\ ren[f].page = f.page
                   /\ ren[f] = [att |-> a, num |-> f.num, page |-> f.page]
  BY DEF File, Renamed
<1>2. \A g \in Renamed(S, a) : \E f \in S : g = ren[f]
  BY DEF Renamed
<1>3. ren \in [S -> Renamed(S, a)]
  BY DEF Renamed
<1> HIDE DEF ren
<1>4. ren \in Surjection(S, Renamed(S, a))
  BY <1>2, <1>3 DEF Surjection
<1>5. ASSUME NEW f \in S, NEW g \in S, ren[f] = ren[g] PROVE f = g
  <2>1. f.num = g.num
    BY <1>1, <1>5
  <2> QED
    BY <2>1 DEF Distinct
<1>6. ren \in Injection(S, Renamed(S, a))
  BY <1>3, <1>5 DEF Injection, IsInjective
<1>7. Cardinality(Renamed(S, a)) = Cardinality(S)
  BY <1>4, <1>6, FS_Surjection
<1>8. Distinct(Renamed(S, a))
  <2> SUFFICES ASSUME NEW f \in Renamed(S, a), NEW g \in Renamed(S, a), f.num = g.num
               PROVE  f = g
    BY DEF Distinct
  <2>1. PICK i \in S : f = ren[i]
    BY <1>2
  <2>2. PICK j \in S : g = ren[j]
    BY <1>2
  <2>3. i.num = j.num
    BY <1>1, <2>1, <2>2
  <2>4. i = j
    BY <2>3 DEF Distinct
  <2> QED
    BY <2>1, <2>2, <2>4
<1>9. \A f \in S : \E g \in Renamed(S, a) : g.num = f.num /\ g.page = f.page
  BY <1>1
<1>10. \A g \in Renamed(S, a) : \E f \in S : g.num = f.num /\ g.page = f.page
  <2> SUFFICES ASSUME NEW g \in Renamed(S, a)
               PROVE  \E f \in S : g.num = f.num /\ g.page = f.page
    OBVIOUS
  <2>1. PICK f \in S : g = ren[f]
    BY <1>2
  <2> QED
    BY <1>1, <2>1
<1>11. PagesOf(Renamed(S, a)) = PagesOf(S)
  BY <1>9, <1>10 DEF PagesOf
<1> QED
  BY <1>7, <1>8, <1>9, <1>10, <1>11

LEMMA ListOldStep == ASSUME CInv, IInv', NEW a \in Created, ListOld(a) PROVE CInv'
<1>1. fetcher[a].pc = "list"
  BY DEF ListOld
<1>2. /\ a = last /\ last # 0 /\ last \in Attempts /\ fetcher[last].pc \in FetcherRunning
      /\ Latest(last) /\ fetcher \in [Attempts -> Fetcher]
      /\ row[last].end # Null /\ row[last].total = Null /\ Fresh(last)
      /\ \A w \in Worker : ~Busy(w)
  BY <1>1, ResumingFacts DEF FetcherResuming
<1>3. /\ files \subseteq File /\ IsFiniteSet(files) /\ Distinct(files)
      /\ UNCHANGED <<row, last, newer, queue, worker, monitor, handled>>
  BY DEF CInv, IInv, TypeOK, ListOld
<1>4. files' = Renamed(files, last)
  <2>1. PICK kept \in SUBSET files :
           /\ {f.num : f \in files} \subseteq {f.num : f \in kept}
           /\ files' = Renamed(kept, last)
    BY <1>2 DEF ListOld
  <2>2. ASSUME NEW f \in files PROVE f \in kept
    <3>1. PICK g \in kept : g.num = f.num
      BY <2>1, <2>2
    <3> QED
      BY <1>3, <3>1 DEF Distinct
  <2>3. kept = files
    BY <2>2
  <2> QED
    BY <2>1, <2>3
<1>5. /\ Cardinality(files') = Cardinality(files) /\ Distinct(files')
      /\ \A f \in files : \E g \in files' : g.num = f.num /\ g.page = f.page
      /\ \A g \in files' : \E f \in files : g.num = f.num /\ g.page = f.page
      /\ PagesOf(files') = PagesOf(files)
  BY <1>2, <1>3, <1>4, RenamedFiles
<1>6. /\ OtherProcesses
      /\ fetcher'[last].pc = "send" /\ fetcher'[last].todo = files
      /\ fetcher'[last].old = Cardinality(files)
      /\ fetcher'[last].cp = fetcher[last].cp
      /\ fetcher'[last].prev = fetcher[last].prev
      /\ fetcher'[last].prevOk = fetcher[last].prevOk
  BY <1>2 DEF ListOld, OtherProcesses, Fetcher
<1>7. Checkpoints'
  BY <1>3, <1>5, CheckpointsKept, SameRows DEF CInv, KeptPages
<1>8. Distinct(files)' /\ HoldsFile'
  BY <1>2, <1>3, <1>5 DEF HoldsFile, Busy, Distinct
<1>9. Opened(last)'
  <2>1. Follows(last)
    BY <1>1, <1>2 DEF Latest, Opened, FetcherResuming, Anew
  <2>2. Follows(last)'
    BY <1>3, <1>6, <2>1 DEF Follows
  <2> QED
    BY <1>2, <1>3, <1>6, <2>2 DEF Opened, Before, FetcherResuming, Fresh
<1>10. Progress(last)'
  <2>1. Within(fetcher[last].cp, last) /\ Covered(last, fetcher[last].cp.pos)
    BY <1>1, <1>2 DEF Latest, Progress
  <2>2. Within(fetcher[last].cp, last)'
    BY <1>3, <1>6, <2>1 DEF Within
  <2>3. Covered(last, fetcher[last].cp.pos)'
    BY <1>3, <1>5, <1>6, <2>1 DEF Covered
  <2> QED
    BY <1>2, <1>3, <1>6, <2>2, <2>3 DEF Progress, Adopted, Reading
<1>11. \A n \in BatchNums : queue[<<last, n>>] = 0
  BY <1>1, <1>2 DEF Latest, NotSent
<1>12. NotSent(last)' /\ OneTask(last)'
  BY <1>2, <1>3, <1>6, <1>11 DEF Latest, NotSent, OneTask, Busy
<1>13. FreeNumbers(last)'
  <2>1. Bound(fetcher[last].prev)
    BY <1>1, <1>2 DEF Latest, FreeNumbers
  <2>2. Standing = files
    BY <1>2 DEF Standing, Busy, Counted
  <2>3. \A g \in files' : g.num < fetcher'[last].old + fetcher'[last].prev
    BY <1>5, <1>6, <2>1, <2>2 DEF Bound
  <2> QED
    BY <1>2, <1>3, <1>6, <2>3 DEF FreeNumbers, FetcherResuming, Adopted
<1>14. TasksForFiles(last)'
  <2>1. \A g \in fetcher'[last].todo :
            (\E h \in files' : h.num = g.num) /\ queue'[<<last, g.num>>] = 0
    BY <1>3, <1>5, <1>6, <1>11 DEF File
  <2>2. fetcher'[last].old = Cardinality(files') /\ Distinct(fetcher[last].todo)'
    BY <1>3, <1>5, <1>6 DEF Distinct
  <2>3. \A n \in BatchNums : queue'[<<last, n>>] > 0 => \E h \in files' : h.num = n
    BY <1>3, <1>11
  <2> QED
    BY <1>3, <1>6, <2>1, <2>2, <2>3 DEF TasksForFiles, Adopted
<1>15. CountsOnce(last)'
  BY <1>2, <1>3, <1>6 DEF CountsOnce, Adopted
<1>16. OtherRows /\ OtherTasks /\ SameWindows /\ Touched
  BY <1>3, SameRows DEF OtherRows, OtherTasks, Touched
<1>17. Latest(last)'
  BY <1>9, <1>10, <1>12, <1>13, <1>14, <1>15 DEF Latest
<1> QED
  BY <1>2, <1>3, <1>6, <1>7, <1>8, <1>16, <1>17, ProcessStep

LEMMA SendOldStep == ASSUME CInv, IInv', NEW a \in Created, SendOld(a) PROVE CInv'
<1>1. fetcher[a].pc = "send"
  BY DEF SendOld
<1>2. /\ a = last /\ last # 0 /\ last \in Attempts /\ fetcher[last].pc \in FetcherRunning
      /\ Latest(last) /\ fetcher \in [Attempts -> Fetcher] /\ fetcher[last] \in Fetcher
      /\ row[last].end # Null /\ row[last].total = Null /\ Fresh(last)
      /\ \A w \in Worker : ~Busy(w)
  BY <1>1, ResumingFacts DEF FetcherResuming
<1>3. PICK f \in fetcher[last].todo :
         Send(last, f.num) /\ fetcher' = [fetcher EXCEPT ![last].todo = @ \ {f}]
  BY <1>2 DEF SendOld
<1>4. /\ UNCHANGED <<row, last, newer, files, worker, monitor, handled>>
      /\ queue \in [Attempts \X BatchNums -> Nat] /\ f.num \in BatchNums
  BY <1>2 DEF SendOld, CInv, IInv, TypeOK, Fetcher, File
<1>5. /\ OtherProcesses
      /\ fetcher'[last].pc = "send" /\ fetcher'[last].todo = fetcher[last].todo \ {f}
      /\ fetcher'[last].old = fetcher[last].old
      /\ fetcher'[last].cp = fetcher[last].cp
      /\ fetcher'[last].prev = fetcher[last].prev
      /\ fetcher'[last].prevOk = fetcher[last].prevOk
  BY <1>1, <1>2, <1>3 DEF OtherProcesses, Fetcher
<1>6. /\ fetcher[last].old = Cardinality(files)
      /\ Distinct(fetcher[last].todo)
      /\ \A g \in fetcher[last].todo :
             (\E h \in files : h.num = g.num) /\ queue[<<last, g.num>>] = 0
      /\ \A n \in BatchNums : queue[<<last, n>>] > 0 => \E h \in files : h.num = n
  BY <1>1, <1>2 DEF Latest, TasksForFiles
<1>7. \A b \in Attempts, n \in BatchNums :
         queue'[<<b, n>>] = IF b = last /\ n = f.num THEN 1 ELSE queue[<<b, n>>]
  <2>1. queue' = [queue EXCEPT ![<<last, f.num>>] = @ + 1] /\ queue[<<last, f.num>>] = 0
    BY <1>3, <1>6 DEF Send
  <2> QED
    BY <1>2, <1>4, <2>1
<1>8. Checkpoints'
  BY <1>4, CheckpointsKept, SameRows DEF CInv, KeptPages
<1>9. Distinct(files)' /\ HoldsFile'
  BY <1>2, <1>4 DEF CInv, HoldsFile, Busy, Distinct
<1>10. Opened(last)'
  <2>1. Follows(last)
    BY <1>1, <1>2 DEF Latest, Opened, FetcherResuming, Anew
  <2>2. Follows(last)'
    BY <1>4, <1>5, <2>1 DEF Follows
  <2> QED
    BY <1>2, <1>4, <1>5, <2>2 DEF Opened, Before, FetcherResuming, Fresh
<1>11. Progress(last)'
  <2>1. Within(fetcher[last].cp, last) /\ Covered(last, fetcher[last].cp.pos)
    BY <1>1, <1>2 DEF Latest, Progress
  <2>2. Within(fetcher[last].cp, last)'
    BY <1>4, <1>5, <2>1 DEF Within
  <2>3. Covered(last, fetcher[last].cp.pos)'
    BY <1>4, <1>5, <2>1 DEF Covered
  <2> QED
    BY <1>2, <1>4, <1>5, <2>2, <2>3 DEF Progress, Adopted, Reading
<1>12. NotSent(last)'
  BY <1>2, <1>4, <1>5 DEF NotSent, Busy
<1>13. OneTask(last)'
  <2>1. \A n \in BatchNums : queue'[<<last, n>>] <= 1
    BY <1>2, <1>7 DEF Latest, OneTask
  <2> QED
    BY <1>2, <1>4, <2>1 DEF OneTask, Busy
<1>14. FreeNumbers(last)'
  BY <1>1, <1>2, <1>4, <1>5 DEF Latest, FreeNumbers, FetcherResuming, Adopted
<1>15. TasksForFiles(last)'
  <2>1. ASSUME NEW g \in fetcher'[last].todo
        PROVE  (\E h \in files : h.num = g.num) /\ queue'[<<last, g.num>>] = 0
    <3>1. g \in fetcher[last].todo /\ g # f
      BY <1>5, <2>1
    <3>2. g.num # f.num /\ g.num \in BatchNums
      BY <1>2, <1>6, <3>1 DEF Distinct, Fetcher, File
    <3> QED
      BY <1>2, <1>6, <1>7, <3>1, <3>2
  <2>2. Distinct(fetcher[last].todo)'
    BY <1>4, <1>5, <1>6 DEF Distinct
  <2>3. \A n \in BatchNums : queue'[<<last, n>>] > 0 => \E h \in files : h.num = n
    BY <1>2, <1>6, <1>7
  <2> QED
    BY <1>4, <1>5, <1>6, <2>1, <2>2, <2>3 DEF TasksForFiles, Adopted
<1>16. CountsOnce(last)'
  BY <1>2, <1>4, <1>5 DEF CountsOnce, Adopted
<1>17. OtherRows /\ OtherTasks /\ SameWindows /\ Touched
  BY <1>4, <1>7, SameRows DEF OtherRows, OtherTasks, Touched
<1>18. Latest(last)'
  BY <1>10, <1>11, <1>12, <1>13, <1>14, <1>15, <1>16 DEF Latest
<1> QED
  BY <1>2, <1>4, <1>5, <1>8, <1>9, <1>17, <1>18, ProcessStep

\* No more numbers than files.
LEMMA FewNumbers ==
    ASSUME NEW S, IsFiniteSet(S), NEW N, N \subseteq {f.num : f \in S}, N \subseteq BatchNums
    PROVE  Cardinality(N) <= Cardinality(S) /\ Cardinality(N) \in Nat /\ Cardinality(S) \in Nat
<1> DEFINE T == {f.num : f \in S}
           number == [f \in S |-> f.num]
<1>1. number \in Surjection(S, T)
  BY DEF Surjection
<1>2. IsFiniteSet(T) /\ Cardinality(T) <= Cardinality(S)
  BY <1>1, FS_Surjection
<1>3. Cardinality(N) <= Cardinality(T)
  BY <1>2, FS_Subset
<1>4. Cardinality(N) \in Nat /\ Cardinality(T) \in Nat /\ Cardinality(S) \in Nat
  BY <1>2, NumbersFinite, FS_CardinalityType
<1> HIDE DEF T
<1> QED
  BY <1>2, <1>3, <1>4

LEMMA AdoptCountStep == ASSUME CInv, IInv', NEW a \in Created, AdoptCount(a) PROVE CInv'
<1>1. fetcher[a].pc = "send" /\ fetcher[a].todo = {}
  BY DEF AdoptCount
<1>2. /\ a = last /\ last # 0 /\ last \in Attempts /\ fetcher[last].pc \in FetcherRunning
      /\ Latest(last) /\ fetcher \in [Attempts -> Fetcher] /\ fetcher[last] \in Fetcher
      /\ row[last].end # Null /\ row[last].total = Null /\ Fresh(last)
      /\ \A w \in Worker : ~Busy(w)
  BY <1>1, ResumingFacts DEF FetcherResuming
<1>3. /\ UNCHANGED <<last, files, queue, worker, monitor, handled>>
      /\ row \in [Attempts -> Row] /\ Touched
  BY <1>2 DEF AdoptCount, CInv, IInv, TypeOK, Touched
<1>4. /\ OtherRows /\ SameWindows /\ SameCheckpoints
      /\ row'[last].completed = fetcher[last].prev
      /\ row'[last].status = row[last].status /\ row'[last].total = row[last].total
  <2>1. CASE fetcher[last].prev = 0
    <3>1. row' = row /\ row[last].completed = 0
      BY <1>2, <2>1 DEF AdoptCount, Fresh
    <3> QED
      BY <2>1, <3>1, SameRows DEF OtherRows
  <2>2. CASE fetcher[last].prev # 0
    <3>1. row' = [row EXCEPT ![last].completed = fetcher[last].prev]
      BY <1>2, <2>2 DEF AdoptCount
    <3>2. /\ row'[last].completed = fetcher[last].prev
          /\ row'[last].status = row[last].status /\ row'[last].total = row[last].total
          /\ row'[last].checkpoint = row[last].checkpoint
          /\ row'[last].start = row[last].start /\ row'[last].end = row[last].end
      BY <1>2, <1>3, <3>1 DEF Row
    <3>3. row'[last].fromBeginning = row[last].fromBeginning
      BY <1>2, <1>3, <3>1 DEF Row
    <3>4. OtherRows
      BY <1>2, <1>3, <3>1 DEF OtherRows
    <3> QED
      BY <3>2, <3>3, <3>4 DEF OtherRows, SameWindows, SameCheckpoints
  <2> QED
    BY <2>1, <2>2
<1>5. /\ OtherProcesses
      /\ fetcher'[last].pc = "save" /\ fetcher'[last].cp = fetcher[last].cp
      /\ fetcher'[last].num = fetcher[last].old + fetcher[last].prev
  BY <1>1, <1>2 DEF AdoptCount, OtherProcesses, Fetcher, NextBatchNum
<1>6. /\ fetcher[last].old = Cardinality(files)
      /\ \A n \in BatchNums : queue[<<last, n>>] > 0 => \E h \in files : h.num = n
      /\ \A g \in files : g.num < fetcher[last].old + fetcher[last].prev
  BY <1>1, <1>2 DEF Latest, TasksForFiles, FreeNumbers
<1>7. row'[last].start = row[last].start /\ row'[last].end = row[last].end
  BY <1>2, <1>4 DEF SameWindows
<1>8. Checkpoints'
  BY <1>3, <1>4, CheckpointsKept DEF CInv, KeptPages
<1>9. Distinct(files)' /\ HoldsFile'
  BY <1>2, <1>3 DEF CInv, HoldsFile, Busy, Distinct
<1>10. Opened(last)'
  BY <1>2, <1>3, <1>4, <1>5, <1>7 DEF Opened, Before, FetcherResuming
<1>11. Progress(last)'
  <2>1. Within(fetcher[last].cp, last) /\ Covered(last, fetcher[last].cp.pos)
    BY <1>1, <1>2 DEF Latest, Progress
  <2>2. Within(fetcher[last].cp, last)'
    BY <1>3, <1>5, <1>7, <2>1 DEF Within
  <2>3. Covered(last, fetcher[last].cp.pos)'
    BY <1>3, <1>5, <1>7, <2>1 DEF Covered
  <2> QED
    BY <1>2, <1>3, <1>4, <1>5, <2>2, <2>3 DEF Progress, Reading
<1>12. NotSent(last)' /\ OneTask(last)'
  BY <1>2, <1>3, <1>5, <1>7 DEF Latest, NotSent, OneTask, Busy, FetcherResuming
<1>13. FreeNumbers(last)'
  <2>1. Standing = files /\ Standing' = files
    BY <1>2, <1>3 DEF Standing, Busy, Counted
  <2>2. Bound(row[last].completed)'
    BY <1>3, <1>4, <1>6, <2>1 DEF Bound
  <2>3. fetcher[last].old \in Nat /\ fetcher[last].prev \in Nat
        /\ \A g \in files : g.num \in Nat
    BY <1>2 DEF Fetcher, CInv, IInv, TypeOK, File, BatchNums
  <2>4. Rest(fetcher[last].num)' = files
    BY <1>3, <1>5, <1>6, <2>1, <2>3 DEF Rest
  <2> QED
    BY <1>2, <1>3, <1>4, <1>5, <1>6, <1>7, <2>2, <2>3, <2>4 DEF FreeNumbers, FetcherResuming
<1>14. TasksForFiles(last)'
  <2>1. \A n \in BatchNums : queue'[<<last, n>>] > 0 => n < fetcher'[last].num
    BY <1>3, <1>5, <1>6
  <2> QED
    BY <1>2, <1>3, <1>5, <2>1 DEF TasksForFiles, Busy
<1>15. CountsOnce(last)'
  <2>1. Open(last)' \subseteq {f.num : f \in files}
    BY <1>2, <1>3, <1>6 DEF Open, Uncounted, Busy
  <2> DEFINE N == Open(last)' \ {fetcher'[last].num}
  <2>2. N \subseteq {f.num : f \in files} /\ N \subseteq BatchNums /\ IsFiniteSet(files)
    <3>1. Open(last)' \subseteq BatchNums /\ IsFiniteSet(files)
      BY DEF Open, CInv, IInv
    <3> QED
      BY <2>1, <3>1
  <2> HIDE DEF N
  <2>3. Cardinality(N) <= Cardinality(files) /\ Cardinality(N) \in Nat
    BY <2>2, FewNumbers
  <2>4. fetcher[last].old \in Nat /\ fetcher[last].prev \in Nat
    BY <1>2 DEF Fetcher
  <2>5. row'[last].completed + Cardinality(N) <= fetcher'[last].num
    BY <1>4, <1>5, <1>6, <2>3, <2>4
  <2> QED
    BY <1>2, <1>3, <1>4, <2>5 DEF CountsOnce, N
<1>16. OtherTasks
  BY <1>3 DEF OtherTasks
<1>17. Latest(last)'
  BY <1>10, <1>11, <1>12, <1>13, <1>14, <1>15 DEF Latest
<1> QED
  BY <1>2, <1>3, <1>4, <1>5, <1>8, <1>9, <1>16, <1>17, ProcessStep

-----------------------------------------------------------------------------
(* The extraction loop                                                       *)

LEMMA AdoptedFacts ==
    ASSUME CInv, NEW a \in Created, fetcher[a].pc \in Adopted
    PROVE  /\ a = last /\ last # 0 /\ last \in Attempts /\ fetcher[last].pc \in FetcherRunning
           /\ Latest(last) /\ row[last] \in Row /\ fetcher[last] \in Fetcher
           /\ row \in [Attempts -> Row] /\ fetcher \in [Attempts -> Fetcher]
           /\ row[last].end # Null /\ row[last].total = Null
           /\ row[last].start \in Nat /\ row[last].end \in Nat
           /\ row[last].start <= row[last].end
<1>1. a \in Attempts /\ fetcher[a].pc \in FetcherRunning
  BY CreatedAttempts DEF CInv, IInv, Adopted, FetcherRunning, FetcherPc
<1>2. a = last /\ last # 0 /\ Latest(last) /\ row[last].total = Null
  BY <1>1, RunningIsLatest
<1>3. row \in [Attempts -> Row] /\ fetcher \in [Attempts -> Fetcher]
  BY DEF CInv, IInv, TypeOK
<1>4. row[last].end # Null
  BY <1>1, <1>2 DEF Latest, Opened, Adopted, FetcherRunning, FetcherPc
<1>5. row[last].start \in Ticks /\ row[last].end \in Ticks
  BY <1>1, <1>2 DEF CInv, IInv, Inductive, WindowOpen, Adopted, FetcherRunning, FetcherPc
<1>6. row[last].start <= row[last].end
  BY <1>2, <1>4 DEF CInv, Past, WindowsOrdered
<1> QED
  BY <1>1, <1>2, <1>3, <1>4, <1>5, <1>6 DEF Ticks

\* Nothing is numbered, sent or counted.
LEMMA CountersKept ==
    ASSUME CInv, last # 0, fetcher[last].pc \in Adopted \ {"enqueue"},
           fetcher'[last].pc \in Adopted \ {"enqueue"},
           fetcher'[last].num = fetcher[last].num,
           row'[last].completed = row[last].completed,
           row'[last].total = row[last].total, row'[last].end = row[last].end,
           UNCHANGED <<last, files, queue, worker>>, handled \subseteq handled'
    PROVE  /\ NotSent(last)' /\ FreeNumbers(last)' /\ TasksForFiles(last)'
           /\ OneTask(last)' /\ CountsOnce(last)'
<1>1. /\ last \in Created /\ Latest(last) /\ row[last].end # Null /\ row[last].total = Null
      /\ row[last] \in Row /\ fetcher[last] \in Fetcher
  BY LatestAttempt, AdoptedFacts DEF CInv
<1>2. NotSent(last)' /\ OneTask(last)'
  BY <1>1 DEF Latest, NotSent, OneTask, Busy, FetcherResuming, Adopted
<1>3. FreeNumbers(last)'
  <2>1. Standing' = Standing
    BY DEF Standing, Counted
  <2>2. Rest(fetcher[last].num)' = Rest(fetcher[last].num)
    BY <2>1 DEF Rest
  <2>3. Bound(row[last].completed)'
    BY <1>1, <2>1 DEF Bound, Latest, FreeNumbers, FetcherResuming, Adopted
  <2>4. /\ \A g \in files' : g.num < fetcher'[last].num
        /\ fetcher'[last].num <= Cardinality(Rest(fetcher[last].num)') + row'[last].completed
    BY <1>1, <2>2 DEF Latest, FreeNumbers
  <2>5. fetcher'[last].pc \notin {"resume", "list", "send", "enqueue"}
    BY DEF Adopted
  <2> QED
    BY <1>1, <2>3, <2>4, <2>5 DEF FreeNumbers
<1>4. TasksForFiles(last)'
  BY <1>1 DEF Latest, TasksForFiles, Adopted, Busy
<1>5. CountsOnce(last)'
  <2>1. Open(last)' \subseteq Open(last)
    BY DEF Open, Uncounted
  <2>2. /\ Cardinality(Open(last)' \ {fetcher[last].num}) <= Cardinality(Open(last) \ {fetcher[last].num})
        /\ Cardinality(Open(last)' \ {fetcher[last].num}) \in Nat
        /\ Cardinality(Open(last) \ {fetcher[last].num}) \in Nat
    BY <2>1, OpenShrinks
  <2>3. row[last].completed + Cardinality(Open(last) \ {fetcher[last].num}) <= fetcher[last].num
    BY <1>1 DEF Latest, CountsOnce
  <2>4. row[last].completed \in Nat /\ fetcher[last].num \in Nat
    BY <1>1 DEF Row, Fetcher
  <2>5. row[last].completed + Cardinality(Open(last)' \ {fetcher[last].num}) <= fetcher[last].num
    BY <2>2, <2>3, <2>4
  <2> QED
    BY <1>1, <2>5 DEF CountsOnce
<1> QED
  BY <1>2, <1>3, <1>4, <1>5

LEMMA SaveCheckpointStep ==
    ASSUME CInv, IInv', NEW a \in Created, SaveCheckpoint(a)
    PROVE  CInv'
<1>1. fetcher[a].pc \in {"save", "savecp"}
  BY DEF SaveCheckpoint
<1>2. /\ a = last /\ last # 0 /\ last \in Attempts /\ fetcher[last].pc \in FetcherRunning
      /\ Latest(last) /\ fetcher[last] \in Fetcher
      /\ row \in [Attempts -> Row] /\ fetcher \in [Attempts -> Fetcher]
      /\ row[last].end # Null /\ row[last].total = Null
  BY <1>1, AdoptedFacts DEF Adopted
<1>3. UNCHANGED <<last, files, queue, worker, monitor, handled>> /\ Touched
  BY <1>2 DEF SaveCheckpoint, Touched
<1>4. /\ row'[last].checkpoint = fetcher[last].cp
      /\ row'[last].completed = row[last].completed /\ row'[last].total = row[last].total
      /\ row'[last].start = row[last].start /\ row'[last].end = row[last].end
      /\ row'[last].status = row[last].status
  <2>1. row' = [row EXCEPT ![last].checkpoint = fetcher[last].cp]
    BY <1>2 DEF SaveCheckpoint
  <2> QED
    BY <1>2, <2>1 DEF Row
<1>5. OtherRows /\ row'[last].fromBeginning = row[last].fromBeginning
  <2>1. row' = [row EXCEPT ![last].checkpoint = fetcher[last].cp]
    BY <1>2 DEF SaveCheckpoint
  <2> QED
    BY <1>2, <2>1 DEF OtherRows, Row
<1>6. SameWindows
  BY <1>4, <1>5 DEF SameWindows, OtherRows
<1>7. /\ OtherProcesses
      /\ fetcher'[last].pc = (IF fetcher[last].cp.more THEN "yield" ELSE "total")
      /\ fetcher'[last].cp = fetcher[last].cp
      /\ fetcher'[last].pos = fetcher[last].cp.pos
      /\ fetcher'[last].num = fetcher[last].num
  BY <1>2 DEF SaveCheckpoint, OtherProcesses, FetcherAt
<1>8. Within(fetcher[last].cp, last) /\ Covered(last, fetcher[last].cp.pos)
  BY <1>1, <1>2 DEF Latest, Progress, Adopted
<1>9. /\ Within(fetcher[last].cp, last)' /\ Covered(last, fetcher[last].cp.pos)'
      /\ fetcher'[last].pos <= Last(row'[last].end) /\ Covered(last, fetcher[last].pos)'
  BY <1>3, <1>4, <1>7, <1>8 DEF Within, Covered
<1>10. Checkpoints'
  <2>1. Created' = Created /\ Created \subseteq Attempts
    BY <1>3, CreatedAttempts DEF CInv, IInv, Created
  <2> SUFFICES ASSUME NEW c \in Created, row'[c].checkpoint # NoCheckpoint
               PROVE  /\ row'[c].end # Null
                      /\ Within(row[c].checkpoint, c)'
                      /\ Live(c)' => Covered(c, row[c].checkpoint.pos)'
    BY <2>1 DEF Checkpoints
  <2>2. CASE c = last
    BY <1>2, <1>3, <1>4, <1>7, <1>9, <2>2
  <2>3. CASE c # last
    <3>1. row'[c] = row[c]
      BY <1>5, <2>1, <2>3 DEF OtherRows
    <3>2. /\ row[c].end # Null /\ Within(row[c].checkpoint, c)
          /\ Live(c) => Covered(c, row[c].checkpoint.pos)
      BY <3>1 DEF CInv, Checkpoints
    <3>3. Live(c)' => Live(c)
      BY <1>3, <1>6, <2>1 DEF Live, SameWindows
    <3> QED
      BY <1>3, <3>1, <3>2, <3>3 DEF Within, Covered
  <2> QED
    BY <2>2, <2>3
<1>11. Distinct(files)' /\ HoldsFile'
  BY <1>3 DEF CInv, HoldsFile, Busy, Distinct
<1>12. Opened(last)'
  BY <1>2, <1>3, <1>4, <1>7 DEF Opened, Before, FetcherResuming
<1>13. Progress(last)'
  BY <1>2, <1>3, <1>4, <1>7, <1>9 DEF Progress
<1>14. fetcher'[last].pc \in Adopted \ {"enqueue"} /\ fetcher[last].pc \in Adopted \ {"enqueue"}
  BY <1>1, <1>2, <1>7 DEF Adopted
<1>15. Latest(last)'
  BY <1>2, <1>3, <1>4, <1>7, <1>12, <1>13, <1>14, CountersKept DEF Latest
<1>16. OtherTasks
  BY <1>3 DEF OtherTasks
<1>17. fetcher'[last].pc \notin {"none", "window", "resume"}
  BY <1>7
<1> QED
  BY <1>2, <1>3, <1>4, <1>5, <1>6, <1>7, <1>10, <1>11, <1>15, <1>16, <1>17, ProcessStep

LEMMA EndRunStep == ASSUME CInv, IInv', NEW a \in Created, EndRun(a) PROVE CInv'
<1>1. fetcher[a].pc = "checked"
  BY DEF EndRun
<1>2. /\ a = last /\ last # 0 /\ last \in Attempts /\ fetcher[last].pc \in FetcherRunning
      /\ Latest(last) /\ fetcher[last] \in Fetcher
      /\ fetcher \in [Attempts -> Fetcher]
      /\ row[last].end # Null /\ row[last].total = Null /\ row[last].end \in Nat
  BY <1>1, AdoptedFacts DEF Adopted
<1>3. UNCHANGED <<row, last, newer, files, queue, worker, monitor, handled>>
  BY DEF EndRun
<1>4. /\ OtherProcesses
      /\ fetcher'[last].pc = "savecp" /\ fetcher'[last].num = fetcher[last].num
      /\ fetcher'[last].cp.pos = fetcher[last].pos
  BY <1>2 DEF EndRun, OtherProcesses, Fetcher
<1>5. fetcher'[last].cp.more <=> fetcher[last].pos < Last(row[last].end)
  BY <1>2 DEF EndRun, Fetcher
<1>6. fetcher[last].pos <= Last(row[last].end) /\ Covered(last, fetcher[last].pos)
  BY <1>1, <1>2 DEF Latest, Progress, Reading
<1>7. fetcher[last].pos \in Int /\ Last(row[last].end) \in Int
  <2>1. Last(row[last].end) \in Nat
    BY <1>2, LastMonotone
  <2>2. fetcher[last].pos \in Int
    BY <1>2 DEF Fetcher, Pages
  <2> QED
    BY <2>1, <2>2
<1>8. Within(fetcher[last].cp, last)' /\ Covered(last, fetcher[last].cp.pos)'
  BY <1>3, <1>4, <1>5, <1>6, <1>7 DEF Within, Covered
<1>9. Checkpoints'
  BY <1>3, CheckpointsKept, SameRows DEF CInv, KeptPages
<1>10. Distinct(files)' /\ HoldsFile'
  BY <1>3 DEF CInv, HoldsFile, Busy, Distinct
<1>11. Opened(last)'
  BY <1>2, <1>3, <1>4 DEF Opened, Before, FetcherResuming
<1>12. Progress(last)'
  BY <1>2, <1>3, <1>4, <1>8 DEF Progress, Reading
<1>13. fetcher'[last].pc \in Adopted \ {"enqueue"} /\ fetcher[last].pc \in Adopted \ {"enqueue"}
  BY <1>1, <1>2, <1>4 DEF Adopted
<1>14. Latest(last)'
  BY <1>2, <1>3, <1>4, <1>11, <1>12, <1>13, CountersKept DEF Latest
<1>15. OtherRows /\ OtherTasks /\ SameWindows /\ Touched
  BY <1>3, SameRows DEF OtherRows, OtherTasks, Touched
<1> QED
  BY <1>2, <1>3, <1>4, <1>9, <1>10, <1>14, <1>15, ProcessStep

\* What is kept of a page is the page, whatever else is kept.
LEMMA CoveredGrows ==
    ASSUME NEW p, Covered(last, p), last' = last, row'[last].start = row[last].start,
           KeptPages \subseteq KeptPages'
    PROVE  \A q \in Last(row'[last].start) + 1 .. p : q \in KeptPages'
BY DEF Covered, KeptPages

\* One page more.
LEMMA CoveredNext ==
    ASSUME NEW p \in Int, NEW s \in Int, NEW K,
           \A q \in s + 1 .. p : q \in K, p + 1 \in K
    PROVE  \A q \in s + 1 .. p + 1 : q \in K
<1> SUFFICES ASSUME NEW q \in s + 1 .. p + 1 PROVE q \in K
  OBVIOUS
<1>1. q = p + 1 \/ q \in s + 1 .. p
  OBVIOUS
<1> QED
  BY <1>1

LEMMA HasNextFacts ==
    ASSUME CInv, NEW a \in Created, HasNext(a)
    PROVE  /\ fetcher[last].pc = "checked"
           /\ fetcher[last].pos < Last(row[last].end) /\ Covered(last, fetcher[last].pos)
           /\ Within(fetcher[last].cp, last) /\ Covered(last, fetcher[last].cp.pos)
           /\ fetcher[last].pos \in Int /\ Last(row[last].end) \in Int
           /\ Last(row[last].start) \in Int
<1>1. /\ a = last /\ Latest(last) /\ fetcher[last] \in Fetcher
      /\ row[last].end \in Nat /\ row[last].start \in Nat
      /\ fetcher[last].pc = "checked"
  BY AdoptedFacts DEF Adopted, HasNext
<1>2. fetcher[last].pos < Last(row[last].end)
  BY <1>1 DEF HasNext
<1>3. Last(row[last].end) \in Int /\ Last(row[last].start) \in Int
  BY <1>1, LastMonotone
<1>4. fetcher[last].pos \in Int
  BY <1>1 DEF Fetcher, Pages
<1> QED
  BY <1>1, <1>2, <1>3, <1>4 DEF Latest, Progress, Reading, Adopted

LEMMA ConnectorFailureStep ==
    ASSUME CInv, IInv', NEW a \in Created, ConnectorFailure(a)
    PROVE  CInv'
<1>1. fetcher[a].pc = "checked" /\ HasNext(a)
  BY DEF ConnectorFailure, HasNext
<1>2. /\ a = last /\ last # 0 /\ last \in Attempts /\ fetcher[last].pc \in FetcherRunning
      /\ Latest(last) /\ fetcher[last] \in Fetcher
      /\ row \in [Attempts -> Row] /\ fetcher \in [Attempts -> Fetcher]
      /\ row[last].end # Null /\ row[last].total = Null
  BY <1>1, AdoptedFacts DEF Adopted
<1>3. UNCHANGED <<last, newer, files, queue, worker, monitor>>
  BY DEF ConnectorFailure
<1>4. handled' = handled \cup {fetcher[last].pos + 1}
  BY <1>2 DEF ConnectorFailure
<1>5. /\ row'[last].checkpoint = row[last].checkpoint
      /\ row'[last].completed = row[last].completed /\ row'[last].total = row[last].total
      /\ row'[last].start = row[last].start /\ row'[last].end = row[last].end
      /\ row'[last].status = row[last].status
  BY <1>2 DEF ConnectorFailure, Row
<1>6. OtherRows /\ row'[last].fromBeginning = row[last].fromBeginning
  BY <1>2 DEF ConnectorFailure, OtherRows, Row
<1>7. SameWindows /\ SameCheckpoints
  BY <1>5, <1>6 DEF SameWindows, SameCheckpoints, OtherRows
<1>8. /\ OtherProcesses
      /\ fetcher'[last].pc = "yield" /\ fetcher'[last].cp = fetcher[last].cp
      /\ fetcher'[last].pos = fetcher[last].pos + 1
      /\ fetcher'[last].num = fetcher[last].num
  BY <1>2 DEF ConnectorFailure, OtherProcesses, Fetcher
<1>9. KeptPages \subseteq KeptPages' /\ fetcher[last].pos + 1 \in KeptPages'
  BY <1>3, <1>4 DEF KeptPages
<1>10. Checkpoints'
  BY <1>3, <1>7, <1>9, CheckpointsKept DEF CInv
<1>11. Distinct(files)' /\ HoldsFile'
  BY <1>3, <1>4 DEF CInv, HoldsFile, Busy, Distinct
<1>12. Opened(last)'
  BY <1>2, <1>3, <1>5, <1>8 DEF Opened, Before, FetcherResuming
<1>13. Progress(last)'
  <2>1. Within(fetcher[last].cp, last)'
    BY <1>1, <1>3, <1>5, <1>8, HasNextFacts DEF Within
  <2>2. \A q \in Last(row'[last].start) + 1 .. fetcher[last].cp.pos : q \in KeptPages'
    BY <1>1, <1>3, <1>5, <1>9, HasNextFacts, CoveredGrows
  <2>3. \A q \in Last(row'[last].start) + 1 .. fetcher[last].pos : q \in KeptPages'
    BY <1>1, <1>3, <1>5, <1>9, HasNextFacts, CoveredGrows
  <2>4. \A q \in Last(row'[last].start) + 1 .. fetcher[last].pos + 1 : q \in KeptPages'
    BY <1>1, <1>5, <1>9, <2>3, HasNextFacts, CoveredNext
  <2>5. Covered(last, fetcher[last].cp.pos)'
    BY <1>3, <1>8, <2>2 DEF Covered, KeptPages
  <2>6. Covered(last, fetcher[last].pos)'
    BY <1>3, <1>8, <2>4 DEF Covered, KeptPages
  <2>7. fetcher'[last].pos <= Last(row'[last].end)
    BY <1>1, <1>5, <1>8, HasNextFacts
  <2> QED
    BY <1>2, <1>3, <1>5, <1>8, <2>1, <2>5, <2>6, <2>7 DEF Progress
<1>14. fetcher'[last].pc \in Adopted \ {"enqueue"} /\ fetcher[last].pc \in Adopted \ {"enqueue"}
  BY <1>1, <1>2, <1>8 DEF Adopted
<1>15. Latest(last)'
  BY <1>2, <1>3, <1>4, <1>5, <1>8, <1>12, <1>13, <1>14, CountersKept DEF Latest
<1>16. OtherTasks /\ Touched
  BY <1>3 DEF OtherTasks, Touched
<1> QED
  BY <1>2, <1>3, <1>4, <1>5, <1>6, <1>7, <1>8, <1>10, <1>11, <1>15, <1>16, ProcessStep

LEMMA FetchBatchStep == ASSUME CInv, IInv', NEW a \in Created, FetchBatch(a) PROVE CInv'
<1>1. fetcher[a].pc = "checked" /\ HasNext(a)
  BY DEF FetchBatch, HasNext
<1>2. /\ a = last /\ last # 0 /\ last \in Attempts /\ fetcher[last].pc \in FetcherRunning
      /\ Latest(last) /\ fetcher[last] \in Fetcher /\ row[last] \in Row
      /\ fetcher \in [Attempts -> Fetcher]
      /\ row[last].end # Null /\ row[last].total = Null
  BY <1>1, AdoptedFacts DEF Adopted
<1> DEFINE num == fetcher[last].num
           new == [att |-> last, num |-> fetcher[last].num, page |-> fetcher[last].pos + 1]
<1>3. /\ UNCHANGED <<row, last, newer, queue, worker, monitor, handled>>
      /\ files \subseteq File /\ IsFiniteSet(files) /\ IsFiniteSet(files')
      /\ files' \subseteq File
  BY DEF FetchBatch, CInv, IInv, TypeOK
<1>4. /\ OtherProcesses
      /\ fetcher'[last].pc = "enqueue" /\ fetcher'[last].cp = fetcher[last].cp
      /\ fetcher'[last].pos = fetcher[last].pos
      /\ fetcher'[last].num = num
  BY <1>2 DEF FetchBatch, Goto, OtherProcesses, Fetcher
<1>5. /\ num \in BatchNums /\ num \in Nat
      /\ \A g \in files : g.num < num /\ g.num \in Nat
      /\ num <= Cardinality(Rest(num)) + row[last].completed
      /\ \A n \in BatchNums : queue[<<last, n>>] > 0 => n < num
      /\ \A w \in Worker : Busy(w) => worker[w].num < num
  <2>1. num \in BatchNums
    BY <1>2 DEF FetchBatch
  <2>2. \A g \in files : g.num \in Nat
    BY <1>3 DEF File, BatchNums
  <2> QED
    BY <1>1, <1>2, <2>1, <2>2 DEF Latest, FreeNumbers, TasksForFiles, Adopted, BatchNums
<1>6. files' = files \cup {new}
  BY <1>2, <1>5 DEF FetchBatch
<1>7. new.num = num /\ new.page = fetcher[last].pos + 1 /\ new \notin files
  BY <1>5
<1> HIDE DEF new
<1>8. KeptPages \subseteq KeptPages' /\ fetcher[last].pos + 1 \in KeptPages'
  BY <1>3, <1>6, <1>7 DEF KeptPages, PagesOf
<1>9. Checkpoints'
  BY <1>3, <1>8, CheckpointsKept, SameRows DEF CInv
<1>10. Distinct(files)'
  <2> SUFFICES ASSUME NEW f \in files', NEW g \in files', f.num = g.num
               PROVE  f = g
    BY DEF Distinct
  <2>1. CASE f \in files /\ g \in files
    BY <2>1 DEF CInv, Distinct
  <2>2. CASE f = new \/ g = new
    BY <1>5, <1>6, <1>7, <2>2
  <2> QED
    BY <1>6, <2>1, <2>2
<1>11. HoldsFile'
  <2>1. \A w \in Worker : Busy(w) => \A f \in files' : f.num = worker[w].num => f.page = worker[w].page
    BY <1>5, <1>6, <1>7 DEF CInv, HoldsFile
  <2> QED
    BY <1>3, <2>1 DEF CInv, HoldsFile, Busy
<1>12. Opened(last)'
  BY <1>2, <1>3, <1>4 DEF Opened, Before, FetcherResuming
<1>13. Progress(last)'
  <2>1. Within(fetcher[last].cp, last)'
    BY <1>1, <1>3, <1>4, HasNextFacts DEF Within
  <2>2. \A q \in Last(row'[last].start) + 1 .. fetcher[last].cp.pos : q \in KeptPages'
    BY <1>1, <1>3, <1>8, HasNextFacts, CoveredGrows
  <2>3. \A q \in Last(row'[last].start) + 1 .. fetcher[last].pos : q \in KeptPages'
    BY <1>1, <1>3, <1>8, HasNextFacts, CoveredGrows
  <2>4. \A q \in Last(row'[last].start) + 1 .. fetcher[last].pos + 1 : q \in KeptPages'
    BY <1>1, <1>3, <1>8, <2>3, HasNextFacts, CoveredNext
  <2>5. Covered(last, fetcher[last].cp.pos)'
    BY <1>3, <1>4, <2>2 DEF Covered, KeptPages
  <2>6. Covered(last, fetcher[last].pos)'
    BY <1>3, <1>4, <2>3 DEF Covered, KeptPages
  <2>7. Covered(last, fetcher[last].pos + 1)'
    BY <1>3, <1>4, <2>4 DEF Covered, KeptPages
  <2>8. fetcher'[last].pos < Last(row'[last].end) /\ fetcher'[last].pos <= Last(row'[last].end)
    BY <1>1, <1>3, <1>4, HasNextFacts
  <2> QED
    BY <1>2, <1>3, <1>4, <2>1, <2>5, <2>6, <2>7, <2>8 DEF Progress
<1>14. NotSent(last)' /\ OneTask(last)'
  BY <1>2, <1>3, <1>4 DEF Latest, NotSent, OneTask, Busy, FetcherResuming
<1>15. FreeNumbers(last)'
  <2>1. Standing' = Standing \cup {new} /\ new \notin Standing
    BY <1>3, <1>5, <1>6, <1>7 DEF Standing, Counted, Busy
  <2>2. Rest(fetcher[last].num)' = Rest(num)
    BY <1>3, <1>4, <1>7, <2>1 DEF Rest
  <2>3. Cardinality(Standing') = Cardinality(Standing) + 1 /\ Cardinality(Standing) \in Nat
    BY <1>3, <2>1, StandingFinite, FS_AddElement
  <2>4. row[last].completed \in Nat
    BY <1>2 DEF Row
  <2>5. Bound(row[last].completed)
    BY <1>1, <1>2 DEF Latest, FreeNumbers, FetcherResuming
  <2>6. Cardinality(Rest(num)) <= Cardinality(Standing) /\ Cardinality(Rest(num)) \in Nat
    <3>1. Rest(num) \subseteq Standing
      BY DEF Rest
    <3> QED
      BY <1>3, <3>1, StandingFinite, FS_Subset
  <2>7. Bound(row[last].completed)'
    <3> SUFFICES ASSUME NEW f \in files'
                 PROVE  f.num < Cardinality(Standing') + row[last].completed
      BY <1>3 DEF Bound
    <3>1. CASE f \in files
      <4>1. f.num < Cardinality(Standing) + row[last].completed
        BY <2>5, <3>1 DEF Bound
      <4> QED
        BY <1>5, <2>3, <2>4, <3>1, <4>1
    <3>2. CASE f = new
      BY <1>5, <1>7, <2>3, <2>4, <2>6, <3>2
    <3> QED
      BY <1>6, <3>1, <3>2
  <2>8. \A g \in files' : g.num < num \/ g.num = num
    BY <1>5, <1>6, <1>7
  <2>9. \E g \in files' : g.num = num
    BY <1>6, <1>7
  <2> QED
    BY <1>2, <1>3, <1>4, <1>5, <2>2, <2>7, <2>8, <2>9 DEF FreeNumbers, FetcherResuming
<1>16. TasksForFiles(last)'
  BY <1>3, <1>4, <1>5 DEF TasksForFiles, Busy
<1>17. CountsOnce(last)'
  <2>1. Open(last)' \ {num} \subseteq Open(last) \ {num}
    BY <1>3, <1>6, <1>7 DEF Open, Uncounted
  <2>2. IsFiniteSet(Open(last) \ {num}) /\ Cardinality(Open(last) \ {num}) \in Nat
    <3>1. Open(last) \ {num} \subseteq BatchNums
      BY OpenNumbers
    <3> QED
      BY <3>1, NumbersFinite
  <2>3. Cardinality(Open(last)' \ {num}) <= Cardinality(Open(last) \ {num})
        /\ Cardinality(Open(last)' \ {num}) \in Nat
    BY <2>1, <2>2, FS_Subset, FS_CardinalityType
  <2>4. row[last].completed + Cardinality(Open(last) \ {num}) <= num
    BY <1>1, <1>2 DEF Latest, CountsOnce, Adopted
  <2>5. row[last].completed \in Nat
    BY <1>2 DEF Row
  <2>6. row[last].completed + Cardinality(Open(last)' \ {num}) <= num
    BY <1>5, <2>2, <2>3, <2>4, <2>5
  <2> QED
    BY <1>2, <1>3, <1>4, <2>6 DEF CountsOnce
<1>18. OtherRows /\ OtherTasks /\ SameWindows /\ Touched
  BY <1>3, SameRows DEF OtherRows, OtherTasks, Touched
<1>19. Latest(last)'
  BY <1>12, <1>13, <1>14, <1>15, <1>16, <1>17 DEF Latest
<1> QED
  BY <1>2, <1>3, <1>4, <1>9, <1>10, <1>11, <1>18, <1>19, ProcessStep

LEMMA EnqueueStep == ASSUME CInv, IInv', NEW a \in Created, Enqueue(a) PROVE CInv'
<1>1. fetcher[a].pc = "enqueue"
  BY DEF Enqueue
<1>2. /\ a = last /\ last # 0 /\ last \in Attempts /\ fetcher[last].pc \in FetcherRunning
      /\ Latest(last) /\ fetcher[last] \in Fetcher /\ row[last] \in Row
      /\ fetcher \in [Attempts -> Fetcher]
      /\ row[last].end # Null /\ row[last].total = Null
      /\ row[last].start \in Nat /\ row[last].end \in Nat
  BY <1>1, AdoptedFacts DEF Adopted
<1> DEFINE num == fetcher[last].num
<1>3. /\ UNCHANGED <<row, last, newer, files, worker, monitor, handled>>
      /\ files \subseteq File /\ IsFiniteSet(files)
      /\ queue \in [Attempts \X BatchNums -> Nat] /\ Send(last, num)
  BY <1>2 DEF Enqueue, CInv, IInv, TypeOK
<1>4. /\ OtherProcesses
      /\ fetcher'[last].pc = "yield" /\ fetcher'[last].cp = fetcher[last].cp
      /\ fetcher'[last].pos = fetcher[last].pos + 1
      /\ fetcher'[last].num = num + 1
  BY <1>2 DEF Enqueue, OtherProcesses, Fetcher
<1>5. /\ num \in BatchNums /\ num \in Nat
      /\ \A g \in files : g.num <= num /\ g.num \in Nat
      /\ num <= Cardinality(Rest(num)) + row[last].completed
      /\ \A n \in BatchNums : queue[<<last, n>>] > 0 => n < num
      /\ \A w \in Worker : Busy(w) => worker[w].num < num
  <2>1. num \in BatchNums
    BY <1>1, <1>2 DEF Latest, FreeNumbers
  <2>2. \A g \in files : g.num \in Nat
    BY <1>3 DEF File, BatchNums
  <2>3. \A g \in files : g.num < num \/ g.num = num
    BY <1>1, <1>2 DEF Latest, FreeNumbers, Adopted
  <2> QED
    BY <1>1, <1>2, <2>1, <2>2, <2>3 DEF Latest, FreeNumbers, TasksForFiles, Adopted, BatchNums
<1>6. PICK f \in files : f.num = num
  BY <1>1, <1>2 DEF Latest, FreeNumbers
<1>7. \A b \in Attempts, n \in BatchNums :
         queue'[<<b, n>>] = IF b = last /\ n = num THEN 1 ELSE queue[<<b, n>>]
  <2>1. queue' = [queue EXCEPT ![<<last, num>>] = @ + 1]
    BY <1>3 DEF Send
  <2>2. queue[<<last, num>>] = 0
    BY <1>2, <1>3, <1>5
  <2> QED
    BY <1>2, <1>3, <1>5, <2>1, <2>2
<1>8. Checkpoints'
  BY <1>3, CheckpointsKept, SameRows DEF CInv, KeptPages
<1>9. Distinct(files)' /\ HoldsFile'
  BY <1>3 DEF CInv, HoldsFile, Busy, Distinct
<1>10. Opened(last)'
  BY <1>2, <1>3, <1>4 DEF Opened, Before, FetcherResuming
<1>11. Progress(last)'
  <2>1. /\ fetcher[last].pos < Last(row[last].end) /\ Covered(last, fetcher[last].pos + 1)
        /\ Within(fetcher[last].cp, last) /\ Covered(last, fetcher[last].cp.pos)
    BY <1>1, <1>2 DEF Latest, Progress, Adopted
  <2>2. Last(row[last].end) \in Int /\ fetcher[last].pos \in Int
    BY <1>2, LastMonotone DEF Fetcher, Pages
  <2>3. Within(fetcher[last].cp, last)' /\ Covered(last, fetcher[last].cp.pos)'
    BY <1>3, <1>4, <2>1 DEF Within, Covered
  <2>4. Covered(last, fetcher[last].pos)'
    BY <1>3, <1>4, <2>1 DEF Covered
  <2>5. fetcher'[last].pos <= Last(row'[last].end)
    BY <1>3, <1>4, <2>1, <2>2
  <2> QED
    BY <1>2, <1>3, <1>4, <2>3, <2>4, <2>5 DEF Progress
<1>12. NotSent(last)'
  BY <1>2, <1>3, <1>4 DEF NotSent, FetcherResuming
<1>13. OneTask(last)'
  <2>1. \A n \in BatchNums : queue'[<<last, n>>] <= 1
    BY <1>2, <1>7 DEF Latest, OneTask
  <2>2. ASSUME NEW w \in Worker, Busy(w) PROVE queue'[<<last, worker[w].num>>] = 0
    <3>1. worker[w].num \in BatchNums /\ worker[w].num # num
      BY <1>5, <2>2 DEF CInv, IInv, TypeOK, WorkerState, BatchNums
    <3>2. queue[<<last, worker[w].num>>] = 0
      BY <1>2, <2>2 DEF Latest, OneTask
    <3> QED
      BY <1>2, <1>7, <3>1, <3>2
  <2>3. \A v, w \in Worker : Busy(v) /\ Busy(w) /\ worker[v].num = worker[w].num => v = w
    BY <1>2 DEF Latest, OneTask
  <2> QED
    BY <1>3, <2>1, <2>2, <2>3 DEF OneTask, Busy
<1>14. FreeNumbers(last)'
  <2>1. Standing' = Standing /\ f \in Standing
    BY <1>3, <1>5, <1>6 DEF Standing, Counted, Busy
  <2>2. Rest(fetcher[last].num)' = Standing
    BY <1>3, <1>4, <1>5, <2>1 DEF Rest, Standing
  <2>3. Rest(num) \subseteq Standing \ {f}
    BY <1>6 DEF Rest
  <2>4. /\ Cardinality(Standing) \in Nat /\ Cardinality(Standing \ {f}) = Cardinality(Standing) - 1
        /\ IsFiniteSet(Standing \ {f})
    BY <1>3, <2>1, StandingFinite, FS_RemoveElement
  <2>5. Cardinality(Rest(num)) <= Cardinality(Standing) - 1 /\ Cardinality(Rest(num)) \in Nat
    BY <1>3, <2>3, <2>4, StandingFinite, FS_Subset
  <2>6. row[last].completed \in Nat
    BY <1>2 DEF Row
  <2>7. num + 1 <= Cardinality(Standing) + row[last].completed
    BY <1>5, <2>4, <2>5, <2>6
  <2>8. Bound(row[last].completed)
    BY <1>1, <1>2 DEF Latest, FreeNumbers, FetcherResuming
  <2>9. Bound(row[last].completed)'
    BY <1>3, <2>1, <2>8 DEF Bound
  <2>10. \A g \in files : g.num < num + 1
    BY <1>5
  <2> QED
    BY <1>2, <1>3, <1>4, <2>2, <2>7, <2>9, <2>10 DEF FreeNumbers, FetcherResuming
<1>15. TasksForFiles(last)'
  <2>1. \A n \in BatchNums : queue'[<<last, n>>] > 0 => n < num + 1
    BY <1>2, <1>5, <1>7 DEF BatchNums
  <2>2. \A w \in Worker : Busy(w) => worker[w].num < num + 1
    BY <1>5 DEF CInv, IInv, TypeOK, WorkerState, BatchNums
  <2> QED
    BY <1>3, <1>4, <2>1, <2>2 DEF TasksForFiles, Busy
<1>16. CountsOnce(last)'
  <2>1. Open(last)' \subseteq (Open(last) \ {num}) \cup {num}
    BY <1>2, <1>3, <1>7 DEF Open, Uncounted
  <2>2. Open(last) \ {num} \subseteq BatchNums
    BY OpenNumbers
  <2>3. IsFiniteSet(Open(last) \ {num}) /\ Cardinality(Open(last) \ {num}) \in Nat
    BY <2>2, NumbersFinite
  <2>4. /\ IsFiniteSet((Open(last) \ {num}) \cup {num})
        /\ Cardinality((Open(last) \ {num}) \cup {num}) = Cardinality(Open(last) \ {num}) + 1
    BY <2>3, FS_AddElement
  <2>5. Open(last)' \ {num + 1} \subseteq (Open(last) \ {num}) \cup {num}
    BY <2>1
  <2>6. /\ Cardinality(Open(last)' \ {num + 1}) <= Cardinality(Open(last) \ {num}) + 1
        /\ Cardinality(Open(last)' \ {num + 1}) \in Nat
    BY <2>4, <2>5, FS_Subset, FS_CardinalityType
  <2>7. row[last].completed + Cardinality(Open(last) \ {num}) <= num
    BY <1>1, <1>2 DEF Latest, CountsOnce, Adopted
  <2>8. row[last].completed \in Nat
    BY <1>2 DEF Row
  <2>9. row[last].completed + Cardinality(Open(last)' \ {num + 1}) <= num + 1
    BY <1>5, <2>3, <2>6, <2>7, <2>8
  <2> QED
    BY <1>2, <1>3, <1>4, <2>9 DEF CountsOnce
<1>17. OtherRows /\ OtherTasks /\ SameWindows /\ Touched
  BY <1>3, <1>7, SameRows DEF OtherRows, OtherTasks, Touched
<1>18. Latest(last)'
  BY <1>10, <1>11, <1>12, <1>13, <1>14, <1>15, <1>16 DEF Latest
<1> QED
  BY <1>2, <1>3, <1>4, <1>8, <1>9, <1>17, <1>18, ProcessStep

LEMMA SetTotalStep == ASSUME CInv, IInv', NEW a \in Created, SetTotal(a) PROVE CInv'
<1>1. fetcher[a].pc = "total"
  BY DEF SetTotal
<1>2. /\ a = last /\ last # 0 /\ last \in Attempts /\ fetcher[last].pc \in FetcherRunning
      /\ Latest(last) /\ fetcher[last] \in Fetcher
      /\ row \in [Attempts -> Row] /\ fetcher \in [Attempts -> Fetcher]
      /\ row[last].end # Null
  BY <1>1, AdoptedFacts DEF Adopted
<1> DEFINE num == fetcher[last].num
<1>3. UNCHANGED <<last, files, queue, worker, monitor, handled>> /\ Touched
  BY <1>2 DEF SetTotal, Touched
<1>4. /\ row'[last].checkpoint = row[last].checkpoint
      /\ row'[last].completed = row[last].completed /\ row'[last].total = num
      /\ row'[last].start = row[last].start /\ row'[last].end = row[last].end
      /\ row'[last].status = row[last].status
  BY <1>2 DEF SetTotal, Row
<1>5. OtherRows /\ row'[last].fromBeginning = row[last].fromBeginning
  BY <1>2 DEF SetTotal, OtherRows, Row
<1>6. SameWindows /\ SameCheckpoints
  BY <1>4, <1>5 DEF SameWindows, SameCheckpoints, OtherRows
<1>7. OtherProcesses /\ fetcher'[last].pc = "done"
  BY <1>2 DEF SetTotal, Exit, OtherProcesses, FetcherAt
<1>8. num \in Nat
  BY <1>2 DEF Fetcher
<1>9. Checkpoints'
  BY <1>3, <1>6, CheckpointsKept DEF CInv, KeptPages
<1>10. Distinct(files)' /\ HoldsFile'
  BY <1>3 DEF CInv, HoldsFile, Busy, Distinct
<1>11. Opened(last)'
  BY <1>2, <1>3, <1>4, <1>7 DEF Opened, Before, FetcherResuming, FetcherRunning
<1>12. Progress(last)'
  <2>1. Covered(last, Last(row[last].end))
    BY <1>1, <1>2 DEF Latest, Progress, Within, Adopted
  <2>2. Covered(last, Last(row[last].end))'
    BY <1>3, <1>4, <2>1 DEF Covered
  <2> QED
    BY <1>3, <1>7, <2>2 DEF Progress, Adopted, Reading
<1>13. NotSent(last)' /\ OneTask(last)' /\ TasksForFiles(last)'
  BY <1>2, <1>3, <1>4, <1>7 DEF Latest, NotSent, OneTask, TasksForFiles, Busy, FetcherResuming, Adopted
<1>14. FreeNumbers(last)'
  <2>1. Standing' = Standing
    BY <1>3 DEF Standing, Counted
  <2>2. Bound(row[last].completed)
    BY <1>1, <1>2 DEF Latest, FreeNumbers, FetcherResuming
  <2>3. Bound(row[last].completed)'
    BY <1>3, <1>4, <2>1, <2>2 DEF Bound
  <2>4. \A g \in files : g.num < num
    BY <1>1, <1>2 DEF Latest, FreeNumbers, Adopted
  <2> QED
    BY <1>2, <1>3, <1>4, <1>7, <2>3, <2>4 DEF FreeNumbers, Adopted
<1>15. CountsOnce(last)'
  <2>1. Open(last)' = Open(last)
    BY <1>3 DEF Open, Uncounted
  <2>2. num \notin Open(last)
    <3>1. \A g \in files : g.num < num
      BY <1>1, <1>2 DEF Latest, FreeNumbers, Adopted
    <3>2. /\ \A n \in BatchNums : queue[<<last, n>>] > 0 => n < num
          /\ \A w \in Worker : Busy(w) => worker[w].num < num
      BY <1>1, <1>2 DEF Latest, TasksForFiles, Adopted
    <3> QED
      BY <1>8, <3>1, <3>2 DEF Open, Uncounted, Busy
  <2>3. Open(last) \ {num} = Open(last)
    BY <2>2
  <2>4. row[last].completed + Cardinality(Open(last)) <= num
    BY <1>1, <1>2, <2>3 DEF Latest, CountsOnce, Adopted
  <2> QED
    BY <1>3, <1>4, <1>7, <2>1, <2>4 DEF CountsOnce, Adopted
<1>16. OtherTasks
  BY <1>3 DEF OtherTasks
<1>17. Latest(last)'
  BY <1>11, <1>12, <1>13, <1>14, <1>15 DEF Latest
<1> QED
  BY <1>2, <1>3, <1>4, <1>5, <1>6, <1>7, <1>9, <1>10, <1>16, <1>17, ProcessStep

-----------------------------------------------------------------------------
(* The workers                                                               *)

LEMMA BusyFacts ==
    ASSUME CInv, NEW w \in Worker, Busy(w)
    PROVE  /\ worker[w].att = last /\ last # 0 /\ last \in Attempts /\ last \in Created
           /\ Latest(last) /\ row[last] \in Row /\ fetcher[last] \in Fetcher
           /\ row[last].end # Null /\ fetcher[last].pc \notin FetcherResuming
           /\ worker[w].num \in BatchNums /\ queue[<<last, worker[w].num>>] = 0
           /\ \A v \in Worker : Busy(v) /\ worker[v].num = worker[w].num => v = w
           /\ fetcher[last].pc \in Adopted => worker[w].num < fetcher[last].num
           /\ \A f \in files : f.num = worker[w].num => f.page = worker[w].page
           /\ worker[w].pc # "index" => worker[w].page \in handled
<1>1. worker[w].att = last /\ worker[w].att \in Attempts /\ worker[w].num \in BatchNums
  BY WorkerType DEF CInv, OnlyLatest
<1>2. last # 0
  BY <1>1, BoundsAssumption DEF Attempts
<1>3. last \in Created /\ Latest(last) /\ row[last] \in Row /\ fetcher[last] \in Fetcher
  BY <1>2, LatestAttempt DEF CInv
<1>4. row[last].end # Null /\ fetcher[last].pc \notin FetcherResuming
  BY <1>3 DEF Latest, NotSent
<1>5. queue[<<last, worker[w].num>>] = 0
      /\ \A v \in Worker : Busy(v) /\ worker[v].num = worker[w].num => v = w
  BY <1>3 DEF Latest, OneTask
<1>6. fetcher[last].pc \in Adopted => worker[w].num < fetcher[last].num
  BY <1>3 DEF Latest, TasksForFiles
<1>7. /\ \A f \in files : f.num = worker[w].num => f.page = worker[w].page
      /\ worker[w].pc # "index" => worker[w].page \in handled
  BY DEF CInv, HoldsFile
<1> QED
  BY <1>1, <1>2, <1>3, <1>4, <1>5, <1>6, <1>7

\* What a worker leaves alone of the latest attempt.
LEMMA WorkFrame ==
    ASSUME CInv, last # 0, row[last].end # Null, fetcher[last].pc \notin FetcherResuming,
           UNCHANGED <<last, fetcher>>, KeptPages \subseteq KeptPages',
           row'[last].end = row[last].end, row'[last].start = row[last].start,
           row'[last].total = row[last].total
    PROVE  Opened(last)' /\ Progress(last)' /\ NotSent(last)'
<1>1. Latest(last)
  BY DEF CInv
<1>2. Opened(last)'
  BY <1>1 DEF Latest, Opened, Before, FetcherResuming, FetcherRunning
<1>3. NotSent(last)'
  BY DEF NotSent, FetcherResuming
<1>4. \A p : Covered(last, p) =>
          \A q \in Last(row[last].start) + 1 .. p : q \in handled' \cup PagesOf(files')
  BY DEF Covered, KeptPages
<1>5. \A cp : Within(cp, last) => cp.pos <= Last(row'[last].end)
                                  /\ (~cp.more => cp.pos = Last(row'[last].end))
  BY DEF Within
<1>6. fetcher[last].pc \in {"list", "send"} \cup Adopted
         => Within(fetcher[last].cp, last)' /\ Covered(last, fetcher[last].cp.pos)'
  BY <1>1, <1>4 DEF Latest, Progress, Within, Covered
<1>7. fetcher[last].pc \in Reading =>
         fetcher[last].pos <= Last(row[last].end) /\ Covered(last, fetcher[last].pos)'
  BY <1>1, <1>4 DEF Latest, Progress, Covered
<1>8. fetcher[last].pc = "enqueue" =>
         fetcher[last].pos < Last(row[last].end) /\ Covered(last, fetcher[last].pos + 1)'
  BY <1>1, <1>4 DEF Latest, Progress, Covered
<1>9. row[last].total # Null => Covered(last, Last(row[last].end))'
  BY <1>1, <1>4 DEF Latest, Progress, Covered
<1>10. Progress(last)'
  BY <1>1, <1>6, <1>7, <1>8, <1>9 DEF Latest, Progress
<1> QED
  BY <1>2, <1>3, <1>10

\* The steps of a worker that count nothing.
LEMMA WorkGoesOn ==
    ASSUME CInv, IInv', last # 0, row[last].end # Null, fetcher[last].pc \notin FetcherResuming,
           UNCHANGED <<row, last, fetcher, monitor>>, Touched, OtherTasks,
           handled \subseteq handled', KeptPages \subseteq KeptPages',
           files' \subseteq files, Standing \subseteq Standing',
           Open(last)' \subseteq Open(last),
           fetcher[last].pc = "enqueue" =>
               \A f \in files : f.num = fetcher[last].num => f \in files',
           \A w \in Worker : Busy(w)' => worker'[w].att = last,
           fetcher[last].pc \in Adopted =>
               /\ \A n \in BatchNums : queue'[<<last, n>>] > 0 => n < fetcher[last].num
               /\ \A w \in Worker : Busy(w)' => worker'[w].num < fetcher[last].num,
           HoldsFile', OneTask(last)'
    PROVE  CInv'
<1>1. /\ last \in Attempts /\ last \in Created /\ Latest(last)
      /\ row[last] \in Row /\ fetcher[last] \in Fetcher
      /\ files \subseteq File /\ IsFiniteSet(files) /\ IsFiniteSet(files')
  BY LatestAttempt DEF CInv, IInv, TypeOK
<1>2. SameWindows /\ SameCheckpoints /\ SameCounts /\ SameStatuses
  BY SameRows
<1>3. OnlyLatest'
  <2>1. \A a \in Attempts, n \in BatchNums : a # last => queue'[<<a, n>>] = 0
    BY DEF OtherTasks, CInv, OnlyLatest
  <2> QED
    BY <2>1 DEF OnlyLatest, CInv, IsTerminal, Created
<1>4. FromZero' /\ Distinct(files)'
  BY DEF FromZero, Distinct, CInv
<1>5. Past' /\ Checkpoints'
  BY <1>2, PastKept, CheckpointsKept DEF CInv, StatusFrame, SameStatuses
<1>6. Verdicts'
  BY <1>2, VerdictsKept DEF CInv
<1>7. Opened(last)' /\ Progress(last)' /\ NotSent(last)'
  BY WorkFrame
<1>8. TasksForFiles(last)'
  BY DEF TasksForFiles, FetcherResuming
<1>9. FreeNumbers(last)'
  <2>1. /\ \A k \in Nat : Bound(k) => Bound(k)'
        /\ \A m : /\ Cardinality(Rest(m)) <= Cardinality(Rest(m)')
                  /\ Cardinality(Rest(m)) \in Nat /\ Cardinality(Rest(m)') \in Nat
    BY <1>1, StandingGrows
  <2>2. row[last].completed \in Nat /\ fetcher[last].num \in Nat
    BY <1>1 DEF Row, Fetcher
  <2>3. Bound(row[last].completed)'
    <3>1. Bound(row[last].completed)
      BY <1>1 DEF Latest, FreeNumbers
    <3>2. PICK k \in Nat : k = row[last].completed
      BY <2>2
    <3>3. Bound(k)'
      BY <2>1, <3>1, <3>2
    <3> QED
      BY <3>2, <3>3 DEF Bound
  <2>4. fetcher[last].pc \in Adopted =>
          /\ \A g \in files' : g.num < fetcher[last].num
                               \/ (fetcher[last].pc = "enqueue" /\ g.num = fetcher[last].num)
          /\ fetcher[last].num <= Cardinality(Rest(fetcher[last].num)') + row[last].completed
    <3> SUFFICES ASSUME fetcher[last].pc \in Adopted
                 PROVE  /\ \A g \in files' : g.num < fetcher[last].num
                               \/ (fetcher[last].pc = "enqueue" /\ g.num = fetcher[last].num)
                        /\ fetcher[last].num <= Cardinality(Rest(fetcher[last].num)') + row[last].completed
      OBVIOUS
    <3>1. fetcher[last].num <= Cardinality(Rest(fetcher[last].num)) + row[last].completed
      BY <1>1 DEF Latest, FreeNumbers
    <3>2. PICK m \in Nat : m = fetcher[last].num
      BY <2>2
    <3>3. /\ Cardinality(Rest(m)) <= Cardinality(Rest(m)')
          /\ Cardinality(Rest(m)) \in Nat /\ Cardinality(Rest(m)') \in Nat
      BY <2>1
    <3>4. m <= Cardinality(Rest(m)') + row[last].completed
      BY <2>2, <3>1, <3>2, <3>3
    <3>5. Rest(fetcher[last].num)' = Rest(m)'
      BY <3>2 DEF Rest
    <3>6. \A g \in files' : g.num < fetcher[last].num
                \/ (fetcher[last].pc = "enqueue" /\ g.num = fetcher[last].num)
      BY <1>1 DEF Latest, FreeNumbers
    <3> QED
      BY <3>2, <3>4, <3>5, <3>6
  <2>5. fetcher[last].pc = "enqueue" =>
          fetcher[last].num \in BatchNums /\ \E g \in files' : g.num = fetcher[last].num
    BY <1>1 DEF Latest, FreeNumbers
  <2>6. row[last].total # Null => \A g \in files' : g.num < row[last].total
    BY <1>1 DEF Latest, FreeNumbers
  <2> QED
    BY <2>3, <2>4, <2>5, <2>6 DEF FreeNumbers, FetcherResuming
<1>10. CountsOnce(last)'
  <2>1. /\ Cardinality(Open(last)') <= Cardinality(Open(last))
        /\ Cardinality(Open(last)) \in Nat /\ Cardinality(Open(last)') \in Nat
    BY OpenShrinks
  <2>2. /\ Cardinality(Open(last)' \ {fetcher[last].num}) <= Cardinality(Open(last) \ {fetcher[last].num})
        /\ Cardinality(Open(last)' \ {fetcher[last].num}) \in Nat
        /\ Cardinality(Open(last) \ {fetcher[last].num}) \in Nat
    BY OpenShrinks
  <2>3. row[last].completed \in Nat /\ fetcher[last].num \in Nat
        /\ (row[last].total # Null => row[last].total \in Nat)
    BY <1>1 DEF Row, Fetcher
  <2>4. fetcher[last].pc \in Adopted =>
           row[last].completed + Cardinality(Open(last)' \ {fetcher[last].num}) <= fetcher[last].num
    BY <1>1, <2>2, <2>3 DEF Latest, CountsOnce
  <2>5. row[last].total # Null =>
           row[last].completed + Cardinality(Open(last)') <= row[last].total
    BY <1>1, <2>1, <2>3 DEF Latest, CountsOnce
  <2> QED
    BY <2>4, <2>5 DEF CountsOnce
<1>11. Latest(last)'
  BY <1>7, <1>8, <1>9, <1>10 DEF Latest
<1> QED
  BY <1>3, <1>4, <1>5, <1>6, <1>11 DEF CInv

LEMMA PickupStep == ASSUME CInv, IInv', NoHazards, NEW w \in Worker, Pickup(w) PROVE CInv'
<1>1. PICK f \in files :
         /\ Receive(w, <<f.att, f.num>>)
         /\ worker' = [worker EXCEPT ![w] = [pc |-> "index", att |-> f.att, num |-> f.num,
                                             page |-> f.page, bad |-> FALSE]]
         /\ Touch(f.att)
         /\ UNCHANGED row
  BY DEF Pickup
<1>2. <<f.att, f.num>> \in Queued /\ UNCHANGED <<last, files, fetcher, monitor, handled>>
      /\ fetcher[f.att].pc # "send" /\ worker[w].pc = "idle"
  BY <1>1 DEF Receive, NoHazards
<1>3. /\ f.att = last /\ last # 0 /\ f.num \in BatchNums /\ queue[<<last, f.num>>] > 0
      /\ row[last].end # Null /\ fetcher[last].pc \notin FetcherResuming
  BY <1>2, QueuedIsLatest DEF FetcherResuming
<1>4. /\ last \in Attempts /\ Latest(last) /\ files \subseteq File
      /\ queue \in [Attempts \X BatchNums -> Nat]
      /\ worker \in [Worker -> WorkerState]
  BY <1>3, LatestAttempt DEF CInv, IInv, TypeOK
<1>5. /\ queue'[<<last, f.num>>] = queue[<<last, f.num>>] - 1
      /\ \A b \in Attempts, n \in BatchNums :
             b # last \/ n # f.num => queue'[<<b, n>>] = queue[<<b, n>>]
  BY <1>1, <1>2, <1>3, <1>4, ReceiveTakes DEF CInv
<1>6. queue'[<<last, f.num>>] = 0
  BY <1>3, <1>4, <1>5 DEF Latest, OneTask
<1>7. /\ worker'[w].pc = "index" /\ worker'[w].att = last
      /\ worker'[w].num = f.num /\ worker'[w].page = f.page
      /\ \A v \in Worker \ {w} : worker'[v] = worker[v]
  BY <1>1, <1>3, <1>4
<1>8. ~Busy(w) /\ Busy(w)' /\ Uncounted(w)' /\ ~Counted(w)'
      /\ \A v \in Worker \ {w} : /\ Busy(v)' <=> Busy(v)
                                 /\ Uncounted(v)' <=> Uncounted(v)
                                 /\ Counted(v)' <=> Counted(v)
  BY <1>2, <1>7 DEF Busy, Uncounted, Counted
<1>9. \A v \in Worker : Busy(v) => worker[v].num # f.num
  BY <1>3, <1>4 DEF Latest, OneTask
<1>10. Touched /\ OtherTasks
  BY <1>1, <1>3, <1>5 DEF Touched, OtherTasks
<1>11. Standing \subseteq Standing'
  BY <1>2, <1>7, <1>8 DEF Standing
<1>12. Open(last)' \subseteq Open(last)
  <2> SUFFICES ASSUME NEW n \in Open(last)' PROVE n \in Open(last)
    OBVIOUS
  <2>1. CASE n = f.num
    BY <1>3, <2>1 DEF Open
  <2>2. CASE n # f.num
    <3>1. n \in BatchNums /\ queue'[<<last, n>>] = queue[<<last, n>>]
      BY <1>4, <1>5, <2>2 DEF Open
    <3>2. (\E v \in Worker : Uncounted(v)' /\ worker'[v].num = n)
             => (\E v \in Worker : Uncounted(v) /\ worker[v].num = n)
      BY <1>7, <1>8, <2>2
    <3> QED
      BY <1>2, <3>1, <3>2 DEF Open
  <2> QED
    BY <2>1, <2>2
<1>13. HoldsFile'
  <2> SUFFICES ASSUME NEW v \in Worker, Busy(v)'
               PROVE  /\ \A g \in files : g.num = worker'[v].num => g.page = worker'[v].page
                      /\ worker'[v].pc # "index" => worker'[v].page \in handled
    BY <1>2 DEF HoldsFile
  <2>1. CASE v = w
    BY <1>7, <2>1 DEF CInv, Distinct
  <2>2. CASE v # w
    BY <1>7, <1>8, <2>2 DEF CInv, HoldsFile
  <2> QED
    BY <2>1, <2>2
<1>14. OneTask(last)'
  <2>1. \A n \in BatchNums : queue'[<<last, n>>] <= 1
    BY <1>4, <1>5, <1>6 DEF Latest, OneTask
  <2>2. ASSUME NEW v \in Worker, Busy(v)' PROVE queue'[<<last, worker'[v].num>>] = 0
    <3>1. CASE v = w
      BY <1>6, <1>7, <3>1
    <3>2. CASE v # w
      <4>1. Busy(v) /\ worker'[v].num = worker[v].num
        BY <1>7, <1>8, <2>2, <3>2
      <4>2. queue[<<last, worker[v].num>>] = 0 /\ worker[v].num # f.num
            /\ worker[v].num \in BatchNums
        BY <1>9, <4>1, BusyFacts
      <4> QED
        BY <1>4, <1>5, <4>1, <4>2
    <3> QED
      BY <3>1, <3>2
  <2>3. ASSUME NEW u \in Worker, NEW v \in Worker, Busy(u)', Busy(v)', worker'[u].num = worker'[v].num
        PROVE  u = v
    <3>1. CASE u # w /\ v # w
      BY <1>4, <1>7, <1>8, <2>3, <3>1 DEF Latest, OneTask
    <3>2. CASE u = w \/ v = w
      BY <1>7, <1>8, <1>9, <2>3, <3>2
    <3> QED
      BY <3>1, <3>2
  <2> QED
    BY <1>2, <2>1, <2>2, <2>3 DEF OneTask
<1>15. ASSUME fetcher[last].pc \in Adopted
       PROVE  /\ \A n \in BatchNums : queue'[<<last, n>>] > 0 => n < fetcher[last].num
              /\ \A v \in Worker : Busy(v)' => worker'[v].num < fetcher[last].num
  <2>1. /\ \A n \in BatchNums : queue[<<last, n>>] > 0 => n < fetcher[last].num
        /\ \A v \in Worker : Busy(v) => worker[v].num < fetcher[last].num
    BY <1>4, <1>15 DEF Latest, TasksForFiles
  <2>2. \A n \in BatchNums : queue'[<<last, n>>] > 0 => n < fetcher[last].num
    BY <1>4, <1>5, <1>6, <2>1
  <2>3. \A v \in Worker : Busy(v)' => worker'[v].num < fetcher[last].num
    BY <1>3, <1>7, <1>8, <2>1
  <2> QED
    BY <2>2, <2>3
<1>16. \A v \in Worker : Busy(v)' => worker'[v].att = last
  BY <1>7, <1>8 DEF CInv, OnlyLatest
<1>17. /\ UNCHANGED <<row, last, fetcher, monitor>> /\ handled \subseteq handled'
       /\ KeptPages \subseteq KeptPages' /\ files' \subseteq files
       /\ \A g \in files : g.num = fetcher[last].num => g \in files'
  BY <1>1, <1>2 DEF KeptPages
<1> QED
  BY <1>3, <1>10, <1>11, <1>12, <1>13, <1>14, <1>15, <1>16, <1>17, WorkGoesOn

LEMMA IndexStep == ASSUME CInv, IInv', NEW w \in Worker, Index(w) PROVE CInv'
<1>1. worker[w].pc = "index" /\ Busy(w)
  BY DEF Index, Busy
<1>2. /\ UNCHANGED <<row, last, newer, files, queue, fetcher, monitor>>
      /\ handled' = handled \cup {worker[w].page}
  BY DEF Index
<1>3. /\ last # 0 /\ last \in Attempts /\ row[last].end # Null /\ Latest(last)
      /\ fetcher[last].pc \notin FetcherResuming
      /\ worker[w].att = last
  BY <1>1, BusyFacts
<1>4. /\ worker'[w].pc = "count" /\ worker'[w].att = worker[w].att
      /\ worker'[w].num = worker[w].num /\ worker'[w].page = worker[w].page
      /\ \A v \in Worker \ {w} : worker'[v] = worker[v]
  <2>1. worker \in [Worker -> WorkerState]
    BY WorkerType DEF CInv
  <2>2. CASE worker' = [worker EXCEPT ![w].pc = "count"]
    BY <2>1, <2>2 DEF WorkerState
  <2>3. CASE worker' = [worker EXCEPT ![w].pc = "count", ![w].bad = TRUE]
    BY <2>1, <2>3 DEF WorkerState
  <2> QED
    BY <2>2, <2>3 DEF Index
<1>5. \A v \in Worker : /\ (Busy(v)' <=> Busy(v)) /\ (Uncounted(v)' <=> Uncounted(v))
                        /\ (Counted(v)' <=> Counted(v))
                        /\ worker'[v].num = worker[v].num /\ worker'[v].att = worker[v].att
                        /\ worker'[v].page = worker[v].page
  BY <1>1, <1>4 DEF Busy, Uncounted, Counted
<1>6. Touched /\ OtherTasks
  BY <1>2 DEF Touched, OtherTasks
<1>7. Standing \subseteq Standing'
  BY <1>2, <1>5 DEF Standing
<1>8. Open(last)' \subseteq Open(last)
  BY <1>2, <1>5 DEF Open
<1>9. HoldsFile'
  <2> SUFFICES ASSUME NEW v \in Worker, Busy(v)'
               PROVE  /\ \A g \in files : g.num = worker'[v].num => g.page = worker'[v].page
                      /\ worker'[v].pc # "index" => worker'[v].page \in handled'
    BY <1>2 DEF HoldsFile
  <2>1. \A g \in files : g.num = worker[v].num => g.page = worker[v].page
    BY <1>5 DEF CInv, HoldsFile
  <2>2. v # w /\ worker'[v].pc # "index" => worker[v].page \in handled
    BY <1>4, <1>5 DEF CInv, HoldsFile
  <2> QED
    BY <1>2, <1>5, <2>1, <2>2
<1>10. OneTask(last)'
  BY <1>2, <1>3, <1>5 DEF Latest, OneTask
<1>11. fetcher[last].pc \in Adopted =>
           /\ \A n \in BatchNums : queue'[<<last, n>>] > 0 => n < fetcher[last].num
           /\ \A v \in Worker : Busy(v)' => worker'[v].num < fetcher[last].num
  BY <1>2, <1>3, <1>5 DEF Latest, TasksForFiles
<1>12. \A v \in Worker : Busy(v)' => worker'[v].att = last
  BY <1>5 DEF CInv, OnlyLatest
<1>13. /\ handled \subseteq handled' /\ KeptPages \subseteq KeptPages' /\ files' \subseteq files
       /\ \A g \in files : g.num = fetcher[last].num => g \in files'
  BY <1>2 DEF KeptPages
<1> QED
  BY <1>2, <1>3, <1>6, <1>7, <1>8, <1>9, <1>10, <1>11, <1>12, <1>13, WorkGoesOn

LEMMA CrashStep ==
    ASSUME CInv, IInv', NoHazards, NEW w \in Worker, Crash(w)
    PROVE  CInv'
<1>1. Busy(w) /\ Uncounted(w)
  BY DEF Crash, NoHazards, Busy, Uncounted
<1> DEFINE n == worker[w].num
<1>2. UNCHANGED <<row, last, newer, files, fetcher, monitor, handled>>
  BY DEF Crash, Redelivered
<1>3. /\ last # 0 /\ last \in Attempts /\ row[last].end # Null /\ Latest(last)
      /\ fetcher[last].pc \notin FetcherResuming
      /\ worker[w].att = last /\ n \in BatchNums /\ queue[<<last, n>>] = 0
      /\ \A v \in Worker : Busy(v) /\ worker[v].num = n => v = w
      /\ fetcher[last].pc \in Adopted => n < fetcher[last].num
  BY <1>1, BusyFacts
<1>4. \A b \in Attempts, m \in BatchNums :
         queue'[<<b, m>>] = IF b = last /\ m = n THEN 1 ELSE queue[<<b, m>>]
  <2>1. queue \in [Attempts \X BatchNums -> Nat]
        /\ queue' = [queue EXCEPT ![<<last, n>>] = @ + 1]
    BY <1>3 DEF Crash, Redelivered, CInv, IInv, TypeOK
  <2> QED
    BY <1>3, <2>1
<1>5. /\ worker'[w].pc = "idle"
      /\ \A v \in Worker \ {w} : worker'[v] = worker[v]
  BY WorkerType DEF Crash, IdleWorker, CInv
<1>6. ~Busy(w)' /\ ~Uncounted(w)' /\ ~Counted(w)' /\ ~Counted(w)
      /\ \A v \in Worker \ {w} : /\ Busy(v)' <=> Busy(v)
                                 /\ Uncounted(v)' <=> Uncounted(v)
                                 /\ Counted(v)' <=> Counted(v)
  BY <1>1, <1>5 DEF Busy, Uncounted, Counted
<1>7. Touched /\ OtherTasks
  BY <1>2, <1>4 DEF Touched, OtherTasks
<1>8. Standing \subseteq Standing'
  BY <1>2, <1>5, <1>6 DEF Standing
<1>9. Open(last)' \subseteq Open(last)
  <2> SUFFICES ASSUME NEW m \in Open(last)' PROVE m \in Open(last)
    OBVIOUS
  <2>1. CASE m = n
    BY <1>1, <1>3, <2>1 DEF Open
  <2>2. CASE m # n
    <3>1. m \in BatchNums /\ queue'[<<last, m>>] = queue[<<last, m>>]
      BY <1>3, <1>4, <2>2 DEF Open
    <3>2. (\E v \in Worker : Uncounted(v)' /\ worker'[v].num = m)
             => (\E v \in Worker : Uncounted(v) /\ worker[v].num = m)
      BY <1>5, <1>6
    <3> QED
      BY <1>2, <3>1, <3>2 DEF Open
  <2> QED
    BY <2>1, <2>2
<1>10. HoldsFile'
  <2> SUFFICES ASSUME NEW v \in Worker, Busy(v)'
               PROVE  /\ \A g \in files : g.num = worker'[v].num => g.page = worker'[v].page
                      /\ worker'[v].pc # "index" => worker'[v].page \in handled
    BY <1>2 DEF HoldsFile
  <2>1. v # w
    BY <1>6
  <2> QED
    BY <1>5, <1>6, <2>1 DEF CInv, HoldsFile
<1>11. OneTask(last)'
  <2>1. \A m \in BatchNums : queue'[<<last, m>>] <= 1
    BY <1>3, <1>4 DEF Latest, OneTask
  <2>2. ASSUME NEW v \in Worker, Busy(v)' PROVE queue'[<<last, worker'[v].num>>] = 0
    <3>1. v # w /\ Busy(v) /\ worker'[v].num = worker[v].num
      BY <1>5, <1>6, <2>2
    <3>2. queue[<<last, worker[v].num>>] = 0 /\ worker[v].num # n /\ worker[v].num \in BatchNums
      BY <1>3, <3>1, BusyFacts
    <3> QED
      BY <1>3, <1>4, <3>1, <3>2
  <2>3. \A u, v \in Worker : Busy(u)' /\ Busy(v)' /\ worker'[u].num = worker'[v].num => u = v
    BY <1>3, <1>5, <1>6 DEF Latest, OneTask
  <2> QED
    BY <1>2, <2>1, <2>2, <2>3 DEF OneTask
<1>12. ASSUME fetcher[last].pc \in Adopted
       PROVE  /\ \A m \in BatchNums : queue'[<<last, m>>] > 0 => m < fetcher[last].num
              /\ \A v \in Worker : Busy(v)' => worker'[v].num < fetcher[last].num
  <2>1. /\ \A m \in BatchNums : queue[<<last, m>>] > 0 => m < fetcher[last].num
        /\ \A v \in Worker : Busy(v) => worker[v].num < fetcher[last].num
    BY <1>3, <1>12 DEF Latest, TasksForFiles
  <2>2. \A m \in BatchNums : queue'[<<last, m>>] > 0 => m < fetcher[last].num
    BY <1>3, <1>4, <1>12, <2>1
  <2>3. \A v \in Worker : Busy(v)' => worker'[v].num < fetcher[last].num
    BY <1>5, <1>6, <2>1
  <2> QED
    BY <2>2, <2>3
<1>13. \A v \in Worker : Busy(v)' => worker'[v].att = last
  BY <1>5, <1>6 DEF CInv, OnlyLatest
<1>14. /\ handled \subseteq handled' /\ KeptPages \subseteq KeptPages' /\ files' \subseteq files
       /\ \A g \in files : g.num = fetcher[last].num => g \in files'
  BY <1>2 DEF KeptPages
<1> QED
  BY <1>2, <1>3, <1>7, <1>8, <1>9, <1>10, <1>11, <1>12, <1>13, <1>14, WorkGoesOn

LEMMA DeleteStep == ASSUME CInv, IInv', NEW w \in Worker, Delete(w) PROVE CInv'
<1>1. worker[w].pc = "delete" /\ Busy(w) /\ Counted(w)
  BY DEF Delete, Busy, Counted
<1> DEFINE n == worker[w].num
<1>2. UNCHANGED <<row, last, newer, queue, fetcher, monitor, handled>>
  BY DEF Delete
<1>3. /\ last # 0 /\ last \in Attempts /\ row[last].end # Null /\ Latest(last)
      /\ fetcher[last].pc \notin FetcherResuming /\ fetcher[last] \in Fetcher
      /\ worker[w].att = last /\ n \in BatchNums
      /\ fetcher[last].pc \in Adopted => n < fetcher[last].num
      /\ \A f \in files : f.num = n => f.page \in handled
  BY <1>1, BusyFacts
<1>4. files' \subseteq files /\ \A f \in files : f.num # n => f \in files'
  BY DEF Delete
<1>5. /\ worker'[w].pc = "idle"
      /\ \A v \in Worker \ {w} : worker'[v] = worker[v]
  BY WorkerType DEF Delete, IdleWorker, CInv
<1>6. ~Busy(w)' /\ ~Uncounted(w)' /\ ~Counted(w)'
      /\ \A v \in Worker \ {w} : /\ Busy(v)' <=> Busy(v)
                                 /\ Uncounted(v)' <=> Uncounted(v)
                                 /\ Counted(v)' <=> Counted(v)
  BY <1>5 DEF Busy, Uncounted, Counted
<1>7. Touched /\ OtherTasks
  BY <1>2 DEF Touched, OtherTasks
<1>8. Standing \subseteq Standing'
  <2> SUFFICES ASSUME NEW f \in Standing PROVE f \in Standing'
    OBVIOUS
  <2>1. f \in files /\ \A v \in Worker : Counted(v) => worker[v].num # f.num
    BY DEF Standing
  <2>2. f \in files'
    BY <1>1, <1>4, <2>1
  <2>3. \A v \in Worker : Counted(v)' => worker'[v].num # f.num
    BY <1>5, <1>6, <2>1
  <2> QED
    BY <2>2, <2>3 DEF Standing
<1>9. Open(last)' \subseteq Open(last)
  <2>1. \A m : (\E v \in Worker : Uncounted(v)' /\ worker'[v].num = m)
                  => (\E v \in Worker : Uncounted(v) /\ worker[v].num = m)
    BY <1>5, <1>6
  <2> QED
    BY <1>2, <1>4, <2>1 DEF Open
<1>10. KeptPages \subseteq KeptPages'
  <2> SUFFICES ASSUME NEW f \in files PROVE f.page \in KeptPages'
    BY <1>2 DEF KeptPages, PagesOf
  <2>1. CASE f.num = n
    BY <1>2, <1>3, <2>1 DEF KeptPages
  <2>2. CASE f.num # n
    BY <1>4, <2>2 DEF KeptPages, PagesOf
  <2> QED
    BY <2>1, <2>2
<1>11. HoldsFile'
  <2> SUFFICES ASSUME NEW v \in Worker, Busy(v)'
               PROVE  /\ \A g \in files' : g.num = worker'[v].num => g.page = worker'[v].page
                      /\ worker'[v].pc # "index" => worker'[v].page \in handled
    BY <1>2 DEF HoldsFile
  <2>1. v # w
    BY <1>6
  <2> QED
    BY <1>4, <1>5, <1>6, <2>1 DEF CInv, HoldsFile
<1>12. OneTask(last)'
  <2>1. \A v \in Worker : Busy(v)' => Busy(v) /\ worker'[v] = worker[v]
    BY <1>5, <1>6
  <2> QED
    BY <1>2, <1>3, <2>1 DEF Latest, OneTask
<1>13. fetcher[last].pc \in Adopted =>
           /\ \A m \in BatchNums : queue'[<<last, m>>] > 0 => m < fetcher[last].num
           /\ \A v \in Worker : Busy(v)' => worker'[v].num < fetcher[last].num
  BY <1>2, <1>3, <1>5, <1>6 DEF Latest, TasksForFiles
<1>14. \A v \in Worker : Busy(v)' => worker'[v].att = last
  BY <1>5, <1>6 DEF CInv, OnlyLatest
<1>15. fetcher[last].pc = "enqueue" => \A g \in files : g.num = fetcher[last].num => g \in files'
  <2>1. fetcher[last].pc = "enqueue" => n < fetcher[last].num
    BY <1>3 DEF Adopted
  <2>2. fetcher[last].num \in Nat /\ n \in Nat
    BY <1>3 DEF Fetcher, BatchNums
  <2> QED
    BY <1>4, <2>1, <2>2
<1> QED
  BY <1>2, <1>3, <1>4, <1>7, <1>8, <1>9, <1>10, <1>11, <1>12, <1>13, <1>14, <1>15, WorkGoesOn

LEMMA CountStep == ASSUME CInv, IInv', NEW w \in Worker, Count(w) PROVE CInv'
<1>1. worker[w].pc = "count" /\ Busy(w) /\ Uncounted(w)
  BY DEF Count, Busy, Uncounted
<1> DEFINE n == worker[w].num
           num == fetcher[last].num
<1>2. UNCHANGED <<last, files, queue, fetcher, monitor, handled>>
  BY DEF Count
<1>3. /\ last # 0 /\ last \in Attempts /\ row[last].end # Null /\ Latest(last)
      /\ last \in Created /\ row[last] \in Row /\ fetcher[last] \in Fetcher
      /\ fetcher[last].pc \notin FetcherResuming
      /\ worker[w].att = last /\ n \in BatchNums /\ queue[<<last, n>>] = 0
      /\ \A v \in Worker : Busy(v) /\ worker[v].num = n => v = w
      /\ fetcher[last].pc \in Adopted => n < num
      /\ \A f \in files : f.num = n => f.page \in handled
  BY <1>1, BusyFacts
<1>4. ~Complete(last) /\ row[last].status \notin Successful
  BY <1>1, <1>3, CompleteMeansHandled DEF CInv, Verdicts
<1>5. row \in [Attempts -> Row] /\ row' = [row EXCEPT ![last].completed = @ + 1]
      /\ Touched
  BY <1>3 DEF Count, CInv, IInv, TypeOK, Touched
<1>6. /\ row'[last].completed = row[last].completed + 1
      /\ row'[last].total = row[last].total
      /\ row'[last].checkpoint = row[last].checkpoint
      /\ row'[last].start = row[last].start /\ row'[last].end = row[last].end
      /\ row'[last].status = row[last].status
  BY <1>3, <1>5 DEF Row
<1>7. OtherRows /\ row'[last].fromBeginning = row[last].fromBeginning
  BY <1>3, <1>5 DEF OtherRows, Row
<1>8. SameWindows /\ SameCheckpoints /\ SameStatuses
  BY <1>6, <1>7 DEF SameWindows, SameCheckpoints, SameStatuses, OtherRows
<1>9. /\ worker'[w].pc \in {"record", "delete"} /\ worker'[w].att = last
      /\ worker'[w].num = n /\ worker'[w].page = worker[w].page
      /\ \A v \in Worker \ {w} : worker'[v] = worker[v]
  <2>1. worker \in [Worker -> WorkerState]
    BY WorkerType DEF CInv
  <2>2. worker' = [worker EXCEPT ![w].pc = IF worker[w].bad THEN "record" ELSE "delete"]
    BY DEF Count, StepTo
  <2> QED
    BY <1>3, <2>1, <2>2 DEF WorkerState
<1>10. \A v \in Worker : /\ Busy(v)' <=> Busy(v)
                         /\ worker'[v].num = worker[v].num /\ worker'[v].att = worker[v].att
                         /\ worker'[v].page = worker[v].page
  BY <1>1, <1>3, <1>9 DEF Busy
<1>11. /\ ~Uncounted(w)' /\ Counted(w)'
       /\ \A v \in Worker \ {w} : (Uncounted(v)' <=> Uncounted(v)) /\ (Counted(v)' <=> Counted(v))
  BY <1>9 DEF Uncounted, Counted
<1>12. KeptPages \subseteq KeptPages' /\ handled \subseteq handled'
  BY <1>2 DEF KeptPages
<1>13. OnlyLatest'
  <2>1. \A a \in Created : a # last => IsTerminal(a)'
    BY CreatedAttempts, <1>7 DEF OtherRows, IsTerminal, CInv, IInv, OnlyLatest
  <2> QED
    BY <1>2, <1>10, <2>1 DEF OnlyLatest, CInv, Created
<1>14. FromZero' /\ Distinct(files)'
  BY <1>2 DEF FromZero, Distinct, CInv
<1>15. Past' /\ Checkpoints'
  BY <1>2, <1>5, <1>8, <1>12, PastKept, CheckpointsKept DEF CInv, StatusFrame, SameStatuses
<1>16. Verdicts'
  BY <1>2, <1>3, <1>4, <1>6, <1>7, <1>12, StillUndecided DEF OtherRows
<1>17. HoldsFile'
  <2> SUFFICES ASSUME NEW v \in Worker, Busy(v)'
               PROVE  /\ \A g \in files : g.num = worker'[v].num => g.page = worker'[v].page
                      /\ worker'[v].pc # "index" => worker'[v].page \in handled
    BY <1>2 DEF HoldsFile
  <2>1. worker'[v].pc # "index" => worker[v].pc # "index"
    BY <1>1, <1>9
  <2> QED
    BY <1>10, <2>1 DEF CInv, HoldsFile
<1>18. Opened(last)' /\ Progress(last)' /\ NotSent(last)'
  BY <1>2, <1>3, <1>6, <1>12, WorkFrame
<1>19. OneTask(last)'
  BY <1>2, <1>3, <1>10 DEF Latest, OneTask
<1>20. TasksForFiles(last)'
  BY <1>2, <1>3, <1>10 DEF Latest, TasksForFiles, FetcherResuming
<1>21. row[last].completed \in Nat /\ num \in Nat /\ n \in Nat
       /\ (row[last].total # Null => row[last].total \in Nat)
  BY <1>3 DEF Row, Fetcher, BatchNums
<1>22. FreeNumbers(last)'
  <2>1. IsFiniteSet(files) /\ files \subseteq File /\ Distinct(files)
    BY DEF CInv, IInv, TypeOK
  <2>2. \E x : /\ Standing \ {x} \subseteq Standing'
               /\ \A m : Rest(m) \ {x} \subseteq Rest(m)'
    <3>1. \A f \in Standing : f.num # n => f \in Standing'
      BY <1>2, <1>9, <1>11 DEF Standing
    <3>2. PICK x : \A f \in files : f.num = n => f = x
      BY <2>1 DEF Distinct
    <3>3. Standing \ {x} \subseteq Standing'
      BY <3>1, <3>2 DEF Standing
    <3>4. \A m : Rest(m) \ {x} \subseteq Rest(m)'
      BY <3>3 DEF Rest
    <3> QED
      BY <3>3, <3>4
  <2>3. ASSUME NEW S, NEW T, NEW x, S \subseteq files, T \subseteq files, S \ {x} \subseteq T
        PROVE  Cardinality(S) <= Cardinality(T) + 1 /\ Cardinality(S) \in Nat /\ Cardinality(T) \in Nat
    <3>1. IsFiniteSet(S) /\ IsFiniteSet(T)
      BY <2>1, <2>3, FS_Subset
    <3>2. /\ Cardinality(S) \in Nat /\ Cardinality(T) \in Nat
          /\ IsFiniteSet(S \ {x})
          /\ Cardinality(S \ {x}) = IF x \in S THEN Cardinality(S) - 1 ELSE Cardinality(S)
      BY <3>1, FS_CardinalityType, FS_RemoveElement
    <3>3. Cardinality(S \ {x}) <= Cardinality(T)
      BY <2>3, <3>1, FS_Subset
    <3> QED
      BY <3>2, <3>3
  <2>4. PICK x : /\ Standing \ {x} \subseteq Standing'
                 /\ \A m : Rest(m) \ {x} \subseteq Rest(m)'
    BY <2>2
  <2>5. Cardinality(Standing) <= Cardinality(Standing') + 1
        /\ Cardinality(Standing) \in Nat /\ Cardinality(Standing') \in Nat
    <3>1. Standing \subseteq files /\ Standing' \subseteq files
      BY <1>2 DEF Standing
    <3> QED
      BY <2>3, <2>4, <3>1
  <2>6. Cardinality(Rest(num)) <= Cardinality(Rest(fetcher[last].num)') + 1
        /\ Cardinality(Rest(num)) \in Nat /\ Cardinality(Rest(fetcher[last].num)') \in Nat
    <3>1. PICK m \in Nat : m = num
      BY <1>21
    <3>2. Rest(fetcher[last].num)' = Rest(m)' /\ Rest(num) = Rest(m)
      BY <1>2, <3>1 DEF Rest
    <3>3. Rest(m) \subseteq files /\ Rest(m)' \subseteq files /\ Rest(m) \ {x} \subseteq Rest(m)'
      BY <1>2, <2>4 DEF Rest, Standing
    <3>4. Cardinality(Rest(m)) <= Cardinality(Rest(m)') + 1
          /\ Cardinality(Rest(m)) \in Nat /\ Cardinality(Rest(m)') \in Nat
      BY <2>3, <3>3
    <3> QED
      BY <3>2, <3>4
  <2>7. Bound(row[last].completed)'
    <3> SUFFICES ASSUME NEW f \in files
                 PROVE  f.num < Cardinality(Standing') + (row[last].completed + 1)
      BY <1>2, <1>6 DEF Bound
    <3>1. f.num < Cardinality(Standing) + row[last].completed
      BY <1>3 DEF Latest, FreeNumbers, Bound
    <3>2. f.num \in Nat
      BY <2>1 DEF File, BatchNums
    <3> QED
      BY <1>21, <2>5, <3>1, <3>2
  <2>8. fetcher[last].pc \in Adopted =>
          num <= Cardinality(Rest(fetcher[last].num)') + (row[last].completed + 1)
    <3>1. fetcher[last].pc \in Adopted => num <= Cardinality(Rest(num)) + row[last].completed
      BY <1>3 DEF Latest, FreeNumbers
    <3> QED
      BY <1>21, <2>6, <3>1
  <2>9. /\ fetcher[last].pc \in Adopted =>
              \A g \in files : g.num < num \/ (fetcher[last].pc = "enqueue" /\ g.num = num)
        /\ fetcher[last].pc = "enqueue" => num \in BatchNums /\ \E g \in files : g.num = num
    BY <1>3 DEF Latest, FreeNumbers
  <2>10. row[last].total # Null => \A g \in files : g.num < row[last].total
    BY <1>3 DEF Latest, FreeNumbers
  <2> QED
    BY <1>2, <1>3, <1>6, <2>7, <2>8, <2>9, <2>10 DEF FreeNumbers, FetcherResuming
<1>23. CountsOnce(last)'
  <2>1. Open(last)' \subseteq Open(last) \ {n} /\ n \in Open(last)
    <3>1. n \in Open(last)
      BY <1>1, <1>3 DEF Open
    <3>2. \A m : (\E v \in Worker : Uncounted(v)' /\ worker'[v].num = m)
                    => m # n /\ \E v \in Worker : Uncounted(v) /\ worker[v].num = m
      BY <1>3, <1>9, <1>11 DEF Uncounted, Busy
    <3>3. \A m \in Open(last)' : m \in Open(last) /\ m # n
      BY <1>2, <1>3, <3>2 DEF Open
    <3> QED
      BY <3>1, <3>3
  <2>2. IsFiniteSet(Open(last)) /\ Cardinality(Open(last)) \in Nat
    BY OpenNumbers, NumbersFinite
  <2>3. ASSUME NEW m, m # n
        PROVE  /\ Cardinality(Open(last)' \ {m}) + 1 <= Cardinality(Open(last) \ {m})
               /\ Cardinality(Open(last)' \ {m}) \in Nat /\ Cardinality(Open(last) \ {m}) \in Nat
    <3>1. /\ IsFiniteSet(Open(last) \ {m}) /\ Cardinality(Open(last) \ {m}) \in Nat
          /\ n \in Open(last) \ {m}
      BY <2>1, <2>2, <2>3, FS_RemoveElement, FS_CardinalityType
    <3>2. /\ IsFiniteSet((Open(last) \ {m}) \ {n})
          /\ Cardinality((Open(last) \ {m}) \ {n}) = Cardinality(Open(last) \ {m}) - 1
      BY <3>1, FS_RemoveElement
    <3>3. Open(last)' \ {m} \subseteq (Open(last) \ {m}) \ {n}
      BY <2>1
    <3>4. /\ Cardinality(Open(last)' \ {m}) <= Cardinality((Open(last) \ {m}) \ {n})
          /\ Cardinality(Open(last)' \ {m}) \in Nat
      BY <3>2, <3>3, FS_Subset, FS_CardinalityType
    <3> QED
      BY <3>1, <3>2, <3>4
  <2>4. fetcher[last].pc \in Adopted =>
           row'[last].completed + Cardinality(Open(last)' \ {num}) <= num
    <3> SUFFICES ASSUME fetcher[last].pc \in Adopted
                 PROVE  row'[last].completed + Cardinality(Open(last)' \ {num}) <= num
      OBVIOUS
    <3>1. row[last].completed + Cardinality(Open(last) \ {num}) <= num /\ num # n
      BY <1>3, <1>21 DEF Latest, CountsOnce
    <3>2. /\ Cardinality(Open(last)' \ {num}) + 1 <= Cardinality(Open(last) \ {num})
          /\ Cardinality(Open(last)' \ {num}) \in Nat /\ Cardinality(Open(last) \ {num}) \in Nat
      BY <2>3, <3>1
    <3> QED
      BY <1>6, <1>21, <3>1, <3>2
  <2>5. row[last].total # Null =>
           row'[last].completed + Cardinality(Open(last)') <= row[last].total
    <3> SUFFICES ASSUME row[last].total # Null
                 PROVE  row'[last].completed + Cardinality(Open(last)') <= row[last].total
      OBVIOUS
    <3>1. row[last].completed + Cardinality(Open(last)) <= row[last].total
      BY <1>3 DEF Latest, CountsOnce
    <3>2. /\ IsFiniteSet(Open(last) \ {n})
          /\ Cardinality(Open(last) \ {n}) = Cardinality(Open(last)) - 1
      BY <2>1, <2>2, FS_RemoveElement
    <3>3. Cardinality(Open(last)') <= Cardinality(Open(last)) - 1 /\ Cardinality(Open(last)') \in Nat
      BY <2>1, <3>2, FS_Subset, FS_CardinalityType
    <3> QED
      BY <1>6, <1>21, <2>2, <3>1, <3>3
  <2> QED
    BY <1>2, <1>6, <2>4, <2>5 DEF CountsOnce
<1>24. Latest(last)'
  BY <1>18, <1>19, <1>20, <1>22, <1>23 DEF Latest
<1> QED
  BY <1>2, <1>13, <1>14, <1>15, <1>16, <1>17, <1>24 DEF CInv

-----------------------------------------------------------------------------
(* No document is skipped                                                    *)

LEMMA InitCoverage == Init => CInv
<1> SUFFICES ASSUME Init PROVE CInv
  OBVIOUS
<1>1. IInv
  BY InitInv
<1>2. last = 0 /\ Created = {}
  BY DEF Init, Created
<1>3. OnlyLatest
  <2>1. \A a \in Attempts : fetcher[a].pc \notin FetcherRunning
    BY DEF Init, FetcherAt, FetcherRunning
  <2>2. \A a \in Attempts, n \in BatchNums : queue[<<a, n>>] = 0
    BY DEF Init
  <2>3. \A w \in Worker : ~Busy(w)
    BY DEF Init, Busy, IdleWorker
  <2>4. monitor.pc = "idle"
    BY DEF Init, IdleMonitor
  <2> QED
    BY <1>2, <2>1, <2>2, <2>3, <2>4 DEF OnlyLatest
<1>4. FromZero
  BY DEF Init, FetcherAt, FromZero
<1>5. Past /\ Checkpoints
  BY <1>2 DEF Past, NewestFirst, WindowsOrdered, Retries, StartsCovered, Checkpoints
<1>6. Distinct(files) /\ HoldsFile
  BY DEF Init, Distinct, HoldsFile, Busy, IdleWorker
<1>7. Verdicts
  BY <1>2 DEF Init, IdleMonitor, Verdicts, NoDocumentSkipped
<1> QED
  BY <1>1, <1>2, <1>3, <1>4, <1>5, <1>6, <1>7 DEF CInv

LEMMA FetchStepCoverage ==
    ASSUME NoHazards, CInv, IInv', NEW a \in Created, FetchStep(a)
    PROVE  CInv'
BY BeginStep, ProcessGone, OpenWindowStep, StartOverStep, LoadCheckpointStep, ListOldStep,
   SendOldStep, AdoptCountStep, SaveCheckpointStep, CheckStep, FetchBatchStep, EnqueueStep,
   ConnectorFailureStep, EndRunStep, SetTotalStep, ProcessFails
   DEF FetchStep

LEMMA WorkerStepCoverage ==
    ASSUME NoHazards, CInv, IInv', NEW w \in Worker, WorkerStep(w) \/ WorkerTrouble(w)
    PROVE  CInv'
<1>1. ~VisibilityTimeout(w)
  BY DEF NoHazards, VisibilityTimeout
<1> QED
  BY <1>1, PickupStep, TaskDropped, IndexStep, CountStep, RecordStep, DeleteStep,
     TaskFailsStep, CrashStep DEF WorkerStep, WorkerTrouble

LEMMA CoverageStep == NoHazards /\ CInv /\ [Next]_vars => CInv'
<1> SUFFICES ASSUME NoHazards, CInv, [Next]_vars PROVE CInv'
  OBVIOUS
<1> IInv'
  BY StepInv DEF CInv
<1>1. CASE \E fromBeginning \in BOOLEAN : CreateAttempt(fromBeginning)
  BY <1>1, CreateStep
<1>2. CASE MonitorStep
  BY <1>2, VerdictStep, MonitorReadStep, MonitorMarkStep, MonitorEndsStep DEF MonitorStep
<1>3. CASE MonitorTrouble \/ \E a \in Created : Invalidate(a) \/ ExpireNotStarted(a)
  BY <1>3, VerdictStep, MonitorRaisesStep, MonitorEndsStep DEF MonitorTrouble
<1>4. CASE Pause \/ Resume \/ DropStopFence
  BY <1>4, PauseStep, IdleStep
<1>5. CASE \E a \in Created : \/ FetchStep(a) \/ FetchTrouble(a)
                            \/ WatchdogFails(a) \/ Heartbeat(a)
  BY <1>5, FetchStepCoverage, ProcessFails, ProcessGone, VerdictStep, HeartbeatStep
     DEF FetchTrouble
<1>6. CASE \E w \in Worker : WorkerStep(w) \/ WorkerTrouble(w)
  BY <1>6, WorkerStepCoverage
<1>7. CASE UNCHANGED vars
  BY <1>7, IdleStep
<1> QED
  BY <1>1, <1>2, <1>3, <1>4, <1>5, <1>6, <1>7 DEF Next

\* Files, tasks, counters, checkpoints and windows fit together in every
\* reachable state.
THEOREM Coverage == NoHazards => (Spec => []CInv)
<1> SUFFICES ASSUME NoHazards PROVE Spec => []CInv
  OBVIOUS
<1>1. Init => CInv
  BY InitCoverage
<1>2. CInv /\ [Next]_vars => CInv'
  BY CoverageStep
<1> QED
  BY <1>1, <1>2, PTL DEF Spec

\* A document is never skipped: the pages of a window that is reported successful
\* were all indexed or have their failure recorded, although attempts die at any
\* point, share their files and counters with those before them, and are canceled,
\* paused and retried.
THEOREM NothingSkipped == NoHazards => (Spec => []NoDocumentSkipped)
<1>1. CInv => NoDocumentSkipped
  BY DEF CInv, Verdicts
<1> QED
  BY <1>1, Coverage, PTL

-----------------------------------------------------------------------------
(* Checkpoints and files                                                     *)

\* The checkpoint that will be resumed from does not run ahead of what is kept,
\* whichever attempt wrote it and however many have died since: what it skips was
\* indexed or waits in a file.
THEOREM CheckpointHolds == NoHazards => (Spec => []CheckpointCovered)
<1> SUFFICES ASSUME NoHazards PROVE Spec => []CheckpointCovered
  OBVIOUS
<1>1. CInv => CheckpointCovered
  <2> SUFFICES ASSUME CInv, Created = Ended,
                      NEW b \in Created, NEW c \in Created,
                      MostRecent(b, Ended), row[b].status \in Unfinished,
                      MostRecent(c, {d \in Ended : /\ row[d].start = row[b].start
                                                 /\ row[d].end = row[b].end
                                                 /\ row[d].status \in Unfinished
                                                 /\ row[d].checkpoint # NoCheckpoint})
               PROVE  Last(row[c].start) + 1 .. row[c].checkpoint.pos
                         \subseteq handled \cup {f.page : f \in files}
    BY DEF CheckpointCovered
  <2> DEFINE S == {d \in Ended : /\ row[d].start = row[b].start
                                 /\ row[d].end = row[b].end
                                 /\ row[d].status \in Unfinished
                                 /\ row[d].checkpoint # NoCheckpoint}
  <2>1. last # 0 /\ last \in Created /\ b \in Int /\ last \in Int
    BY DEF CInv, IInv, TypeOK, Created
  <2>2. b = last
    <3>1. b >= last
      BY <2>1, MostRecentIsLargest DEF CInv, Past
    <3> QED
      BY <2>1, <3>1 DEF Created
  <2>3. c # 0 /\ S \subseteq Created
    BY DEF Created, Ended
  <2>4. MostRecent(c, S)
    OBVIOUS
  <2> HIDE DEF S
  <2>5. c \in S
    BY <2>3, <2>4, MostRecentIsLargest DEF CInv, Past
  <2>6. /\ row[c].start = row[last].start /\ row[c].end = row[last].end
        /\ row[c].checkpoint # NoCheckpoint
    BY <2>2, <2>5 DEF S
  <2>7. row[c].end # Null
    BY <2>2, <2>6 DEF CInv, Checkpoints
  <2>8. Live(c)
    BY <2>1, <2>6, <2>7, SameWindowLive
  <2> QED
    BY <2>6, <2>8 DEF CInv, Checkpoints, Covered, PagesOf
<1> QED
  BY <1>1, Coverage, PTL

\* The steps that add or rename files.
LEMMA FilesOnlyBy ==
    ASSUME [Next]_vars
    PROVE  \/ files' \subseteq files
           \/ \E a \in Created : ListOld(a) \/ FetchBatch(a)
<1>1. CASE \E fromBeginning \in BOOLEAN : CreateAttempt(fromBeginning)
  BY <1>1 DEF CreateAttempt
<1>2. CASE MonitorStep
  BY <1>2 DEF MonitorStep, MonitorCancel, MonitorRead, MonitorMark, MonitorClean
<1>3. CASE MonitorTrouble \/ \E a \in Created : Invalidate(a) \/ ExpireNotStarted(a)
  BY <1>3 DEF MonitorTrouble, MonitorRaises, MonitorStops, InvalidateBlindly, Invalidate,
              ExpireNotStarted
<1>4. CASE Pause \/ Resume \/ DropStopFence
  BY <1>4 DEF Pause, Resume, DropStopFence
<1>5. CASE \E a \in Created : \/ FetchStep(a) \/ FetchTrouble(a)
                            \/ WatchdogFails(a) \/ Heartbeat(a)
  <2>1. PICK a \in Created : FetchStep(a) \/ FetchTrouble(a) \/ WatchdogFails(a) \/ Heartbeat(a)
    BY <1>5
  <2>2. CASE FetchStep(a)
    <3>1. CASE \/ Begin(a) \/ BeginBlocked(a) \/ OpenWindow(a) \/ SendOld(a) \/ AdoptCount(a)
               \/ SaveCheckpoint(a) \/ Check(a) \/ Enqueue(a) \/ ConnectorFailure(a)
               \/ EndRun(a) \/ SetTotal(a) \/ StopFetch(a) \/ NotRunningAnymore(a)
      BY <3>1 DEF Begin, BeginBlocked, OpenWindow, SendOld, AdoptCount, SaveCheckpoint, Check,
                  Enqueue, ConnectorFailure, EndRun, SetTotal, StopFetch, NotRunningAnymore
    <3>2. CASE StartOver(a) \/ LoadCheckpoint(a)
      BY <3>2 DEF StartOver, LoadCheckpoint
    <3> QED
      BY <2>2, <3>1, <3>2 DEF FetchStep
  <2>3. CASE FetchTrouble(a) \/ WatchdogFails(a) \/ Heartbeat(a)
    BY <2>3 DEF FetchTrouble, FetchError, FetchKilled, WatchdogKills, LoseFetch, Dies,
                MemoryLimitHit, WatchdogFails, Heartbeat
  <2> QED
    BY <2>1, <2>2, <2>3
<1>6. CASE \E w \in Worker : WorkerStep(w) \/ WorkerTrouble(w)
  BY <1>6 DEF WorkerStep, WorkerTrouble, Pickup, Refuse, Receive, Index, Count, Record, Delete,
              UsageLimitHit, TaskFails, Crash, VisibilityTimeout, Redelivered
<1>7. CASE UNCHANGED vars
  BY <1>7 DEF vars
<1> QED
  BY <1>1, <1>2, <1>3, <1>4, <1>5, <1>6, <1>7 DEF Next

\* A batch that still waits for its documents to be indexed is never replaced by
\* another one of its number, by the attempt that wrote it or by one that adopts it.
THEOREM NothingOverwritten == NoHazards => (Spec => NoBatchOverwritten)
<1> SUFFICES ASSUME NoHazards PROVE Spec => NoBatchOverwritten
  OBVIOUS
<1>1. ASSUME CInv, [Next]_vars,
             NEW f \in files, NEW g \in files', f.att = g.att, f.num = g.num
      PROVE  f = g
  <2>1. CASE files' \subseteq files
    BY <1>1, <2>1 DEF CInv, Distinct
  <2>2. CASE \E a \in Created : ListOld(a)
    <3>1. PICK a \in Created : ListOld(a)
      BY <2>2
    <3>2. PICK kept \in SUBSET files : files' = Renamed(kept, a)
      BY <3>1 DEF ListOld
    <3>3. PICK h \in files : g = [h EXCEPT !.att = a]
      BY <3>2 DEF Renamed
    <3>4. h \in File /\ f \in File
      BY <1>1 DEF CInv, IInv, TypeOK
    <3>5. h.num = f.num /\ g.att = a
      BY <1>1, <3>3, <3>4 DEF File
    <3>6. h = f
      BY <1>1, <3>5 DEF CInv, Distinct
    <3>7. [f EXCEPT !.att = f.att] = f
      BY <3>4 DEF File
    <3> QED
      BY <1>1, <3>3, <3>5, <3>6, <3>7
  <2>3. CASE \E a \in Created : FetchBatch(a)
    <3>1. PICK a \in Created : FetchBatch(a)
      BY <2>3
    <3>2. files' = {h \in files : h.att # a \/ h.num # fetcher[a].num}
                   \cup {[att |-> a, num |-> fetcher[a].num, page |-> fetcher[a].pos + 1]}
      BY <3>1 DEF FetchBatch
    <3>3. /\ a = last /\ last # 0 /\ Latest(last) /\ fetcher[last] \in Fetcher
          /\ fetcher[last].pc = "checked"
      BY <1>1, <3>1, AdoptedFacts DEF FetchBatch, HasNext, Adopted
    <3>4. f.num < fetcher[last].num /\ f.num \in Nat /\ fetcher[last].num \in Nat
      <4>1. files \subseteq File
        BY <1>1 DEF CInv, IInv, TypeOK
      <4> QED
        BY <3>3, <4>1 DEF Latest, FreeNumbers, Adopted, File, BatchNums, Fetcher
    <3>5. f.num # fetcher[a].num
      BY <3>3, <3>4
    <3>6. g \in files
      BY <1>1, <3>2, <3>5
    <3> QED
      BY <1>1, <3>6 DEF CInv, Distinct
  <2>4. \/ files' \subseteq files
        \/ \E a \in Created : ListOld(a) \/ FetchBatch(a)
    BY <1>1, FilesOnlyBy
  <2> QED
    BY <2>1, <2>2, <2>3, <2>4
<1>2. CInv /\ [Next]_vars => [\A f \in files, g \in files' :
                                  f.att = g.att /\ f.num = g.num => f = g]_vars
  BY <1>1
<1> QED
  BY <1>2, Coverage, PTL DEF NoBatchOverwritten, Spec

-----------------------------------------------------------------------------
(* Verdicts                                                                  *)

\* What a step of the pipeline does to statuses, to windows and to what is handled:
\* it goes on with the work,
EndsKept == \A b \in Attempts : row'[b].status = "SUCCESS" => row'[b].end = row[b].end
Works ==
    /\ last' = last /\ EndsKept
    /\ \A b \in Attempts : \/ row'[b].status = row[b].status
                           \/ row[b].status \in Active /\ row'[b].status \in Active
    /\ handled' = handled \/ \E page \in Pages : handled' = handled \cup {page}
\* in or outside a pass of the monitor,
PassKept == monitor' = monitor \/ (~InPass /\ ~InPass')
\* or gives up the latest attempt,
OthersKept == \A b \in Attempts \ {last} : row'[b].status = row[b].status
GivesUp ==
    /\ last' = last /\ last \in Created /\ EndsKept /\ OthersKept /\ handled' = handled
    /\ row[last].status \notin Successful /\ row'[last].status \in Unfinished
\* or is the verdict of the monitor on it, or the handler's,
TakenBack == monitor.pc = "clean" /\ monitor'.pc = "handler" /\ row'[last].status = "FAILED"
Judges ==
    /\ last' = last /\ last \in Created /\ EndsKept /\ OthersKept /\ handled' = handled
    /\ monitor.att = last /\ InPass' /\ monitor'.att = last
    /\ InPass \/ IsActive(last)
    /\ IsActive(last) \/ row'[last].status = row[last].status \/ TakenBack
\* or the end of the monitor's pass.
PassEnds ==
    /\ row' = row /\ last' = last /\ last \in Created /\ handled' = handled
    /\ InPass /\ monitor.att = last /\ ~InPass'
    /\ row[last].status = "SUCCESS" => row[last].end \in Ticks
Creates == Admits /\ Waits /\ handled' = handled /\ ~InPass /\ ~InPass'

LEMMA MarkGivesUp ==
    ASSUME CInv, last \in Created, NEW status \in Unfinished, Mark(last, status),
           last' = last, handled' = handled, row[last].status \notin Successful
    PROVE  GivesUp
<1>1. last \in Attempts /\ row \in [Attempts -> Row]
  BY CreatedAttempts DEF CInv, IInv, TypeOK
<1>2. /\ SameWindows /\ (\A b \in Attempts \ {last} : row'[b] = row[b])
      /\ row'[last].status = status
  BY <1>1, MarkLatest DEF CInv
<1> QED
  BY <1>2 DEF GivesUp, EndsKept, OthersKept, SameWindows

LEMMA SameRowsWork ==
    ASSUME row' = row, last' = last,
           handled' = handled \/ \E page \in Pages : handled' = handled \cup {page}
    PROVE  Works
BY DEF Works, EndsKept

LEMMA FetchEffect ==
    ASSUME CInv, NEW a \in Created, FetchStep(a) \/ FetchTrouble(a)
    PROVE  Works \/ GivesUp
<1>1. a \in Attempts /\ row \in [Attempts -> Row] /\ fetcher \in [Attempts -> Fetcher]
  BY CreatedAttempts DEF CInv, IInv, TypeOK
<1>2. CASE Begin(a)
  <2>1. /\ row[a].status \in Active /\ row'[a].status \in Active
        /\ \A b \in Attempts \ {a} : row'[b] = row[b]
    BY <1>1, <1>2 DEF Begin, NotStarted, Active, Row
  <2>2. EndsKept
    BY <2>1 DEF EndsKept, Active
  <2> QED
    BY <1>2, <2>1, <2>2 DEF Begin, Works
<1>3. CASE OpenWindow(a)
  <2>1. row[a].status \notin Successful
    BY <1>1, <1>3, RunningIsLatest DEF OpenWindow, FetcherRunning, FetcherPc
  <2>2. /\ row'[a].status = row[a].status
        /\ \A b \in Attempts \ {a} : row'[b] = row[b]
    BY <1>1, <1>3 DEF OpenWindow, Row
  <2>3. EndsKept
    BY <2>1, <2>2 DEF EndsKept, Successful
  <2> QED
    BY <1>3, <2>2, <2>3 DEF OpenWindow, Works
<1>4. CASE AdoptCount(a) \/ SaveCheckpoint(a) \/ ConnectorFailure(a) \/ SetTotal(a)
  <2>1. \A b \in Attempts : row'[b].status = row[b].status /\ row'[b].end = row[b].end
    <3>1. CASE AdoptCount(a)
      BY <1>1, <3>1 DEF AdoptCount, Row
    <3>2. CASE SaveCheckpoint(a)
      BY <1>1, <3>2 DEF SaveCheckpoint, Row
    <3>3. CASE ConnectorFailure(a)
      BY <1>1, <3>3 DEF ConnectorFailure, Row
    <3>4. CASE SetTotal(a)
      BY <1>1, <3>4 DEF SetTotal, Row
    <3> QED
      BY <1>4, <3>1, <3>2, <3>3, <3>4
  <2>2. ConnectorFailure(a) => fetcher[a].pos + 1 \in Pages
    <3> SUFFICES ASSUME ConnectorFailure(a) PROVE fetcher[a].pos + 1 \in Pages
      OBVIOUS
    <3>1. handled' \subseteq Pages
      BY ConnectorFailureInv DEF CInv, IInv, TypeOK
    <3> QED
      BY <3>1 DEF ConnectorFailure
  <2>3. handled' = handled \/ \E page \in Pages : handled' = handled \cup {page}
    <3>1. CASE ConnectorFailure(a)
      BY <2>2, <3>1 DEF ConnectorFailure
    <3>2. CASE AdoptCount(a) \/ SaveCheckpoint(a) \/ SetTotal(a)
      BY <3>2 DEF AdoptCount, SaveCheckpoint, SetTotal
    <3> QED
      BY <1>4, <3>1, <3>2
  <2>4. last' = last
    BY <1>4 DEF AdoptCount, SaveCheckpoint, ConnectorFailure, SetTotal
  <2> QED
    BY <2>1, <2>3, <2>4 DEF Works, EndsKept
<1>5. CASE \/ BeginBlocked(a) \/ StartOver(a) \/ LoadCheckpoint(a) \/ ListOld(a)
           \/ SendOld(a) \/ Check(a) \/ FetchBatch(a) \/ Enqueue(a) \/ EndRun(a)
           \/ FetchKilled(a) \/ WatchdogKills(a) \/ LoseFetch(a)
  <2>1. row' = row /\ last' = last /\ handled' = handled
    BY <1>5 DEF BeginBlocked, StartOver, LoadCheckpoint, ListOld, SendOld, Check,
       FetchBatch, Enqueue, EndRun, FetchKilled, WatchdogKills, Dies, LoseFetch
  <2> QED
    BY <2>1, SameRowsWork
<1>6. CASE StopFetch(a) \/ FetchError(a) \/ NotRunningAnymore(a)
  <2>1. fetcher[a].pc \in FetcherRunning
    BY <1>6 DEF StopFetch, FetchError, NotRunningAnymore, FetcherGuarded, FetcherRunning,
                FetcherPc
  <2>2. a = last /\ row[last].status \notin Successful
    BY <1>1, <2>1, RunningIsLatest
  <2>3. last' = last /\ handled' = handled
    BY <1>6 DEF StopFetch, FetchError, NotRunningAnymore
  <2>4. \/ \E status \in Unfinished : Mark(last, status)
        \/ row' = row
    BY <1>6, <2>2 DEF StopFetch, FetchError, NotRunningAnymore, FailUnlessEnded, Unfinished
  <2> QED
    BY <2>2, <2>3, <2>4, MarkGivesUp, SameRowsWork
<1>7. CASE MemoryLimitHit(a)
  <2>1. PICK status \in Unfinished : Mark(last, status)
    BY <1>7, VerdictOnLatest
  <2> QED
    BY <1>7, <2>1, VerdictOnLatest, MarkGivesUp
<1> QED
  BY <1>2, <1>3, <1>4, <1>5, <1>6, <1>7 DEF FetchStep, FetchTrouble

LEMMA WorkEffect ==
    ASSUME CInv, NEW w \in Worker, WorkerStep(w) \/ WorkerTrouble(w)
    PROVE  Works \/ GivesUp
<1>1. row \in [Attempts -> Row] /\ last \in Nat
  BY DEF CInv, IInv, TypeOK
<1>2. CASE Count(w) \/ Record(w)
  <2>1. \A b \in Attempts : row'[b].status = row[b].status /\ row'[b].end = row[b].end
    <3>1. CASE Count(w)
      BY <1>1, <3>1 DEF Count, Row
    <3>2. CASE Record(w)
      BY <1>1, <3>2 DEF Record, Row
    <3> QED
      BY <1>2, <3>1, <3>2
  <2> QED
    BY <1>2, <2>1 DEF Count, Record, Works, EndsKept
<1>3. CASE UsageLimitHit(w)
  <2>1. PICK t \in Queued : Receive(w, t) /\ Mark(t[1], "FAILED")
    BY <1>3 DEF UsageLimitHit
  <2>2. t[1] = last /\ last # 0 /\ ~Complete(last)
    BY QueuedIsLatest
  <2>3. last \in Created /\ row[last].status \notin Successful
    BY <1>1, <2>2 DEF CInv, Verdicts, Created
  <2> QED
    BY <2>1, <2>2, <2>3, MarkGivesUp DEF Receive, Unfinished
<1>4. CASE Index(w)
  <2>1. worker[w].page \in Pages
    BY WorkerType DEF CInv
  <2> QED
    BY <1>4, <2>1, SameRowsWork DEF Index
<1>5. CASE \/ Pickup(w) \/ Refuse(w) \/ Delete(w) \/ TaskFails(w)
           \/ Crash(w) \/ VisibilityTimeout(w)
  <2>1. row' = row /\ last' = last /\ handled' = handled
    BY <1>5 DEF Pickup, Refuse, Delete, TaskFails, Crash, VisibilityTimeout,
       Receive, Redelivered
  <2> QED
    BY <2>1, SameRowsWork
<1> QED
  BY <1>2, <1>3, <1>4, <1>5 DEF WorkerStep, WorkerTrouble

\* Processes and workers know nothing of the monitor.
LEMMA MonitorUntouched ==
    ASSUME \/ \E a \in Created : FetchStep(a) \/ FetchTrouble(a)
           \/ \E w \in Worker : WorkerStep(w) \/ WorkerTrouble(w)
    PROVE  PassKept
<1>1. CASE \E a \in Created : FetchStep(a)
  BY <1>1
     DEF FetchStep, Begin, BeginBlocked, OpenWindow, StartOver, LoadCheckpoint, ListOld,
         SendOld, AdoptCount, SaveCheckpoint, Check, FetchBatch, Enqueue, ConnectorFailure,
         EndRun, SetTotal, StopFetch, NotRunningAnymore, PassKept
<1>2. CASE \E a \in Created : FetchTrouble(a)
  BY <1>2
     DEF FetchTrouble, FetchError, FetchKilled, WatchdogKills, Dies, LoseFetch,
         MemoryLimitHit, PassKept
<1>3. CASE \E w \in Worker : WorkerStep(w) \/ WorkerTrouble(w)
  BY <1>3
     DEF WorkerStep, WorkerTrouble, Pickup, Refuse, Receive, Index, Count, Record, Delete,
         UsageLimitHit, TaskFails, Crash, VisibilityTimeout, Redelivered, PassKept
<1> QED
  BY <1>1, <1>2, <1>3

LEMMA MonitorEffect ==
    ASSUME CInv,
           \/ Pause \/ Resume \/ DropStopFence
           \/ \E a \in Created : \/ MonitorCancel(a) \/ MonitorRead(a)
                                \/ Invalidate(a) \/ InvalidateBlindly(a)
                                \/ ExpireNotStarted(a) \/ WatchdogFails(a) \/ Heartbeat(a)
    PROVE  (Works \/ GivesUp) /\ PassKept
<1>1. row \in [Attempts -> Row]
  BY DEF CInv, IInv, TypeOK
<1>2. CASE \E a \in Created : \/ MonitorCancel(a) \/ Invalidate(a) \/ InvalidateBlindly(a)
                            \/ ExpireNotStarted(a) \/ WatchdogFails(a)
  <2>1. PICK a \in Created : \/ MonitorCancel(a) \/ Invalidate(a) \/ InvalidateBlindly(a)
                            \/ ExpireNotStarted(a) \/ WatchdogFails(a)
    BY <1>2
  <2>2. /\ a = last /\ row[last].status \notin Successful
        /\ UNCHANGED <<last, handled, monitor>>
        /\ \E status \in Unfinished : Mark(last, status)
    BY <2>1, VerdictOnLatest
  <2> QED
    BY <2>2, MarkGivesUp DEF PassKept
<1>3. CASE Pause
  <2>1. \A b \in Attempts : row'[b].status = row[b].status /\ row'[b].end = row[b].end
    BY <1>1, <1>3 DEF Pause, Row
  <2> QED
    BY <1>3, <2>1 DEF Pause, Works, EndsKept, PassKept
<1>4. CASE Resume \/ DropStopFence \/ \E a \in Created : Heartbeat(a)
  BY <1>4, SameRowsWork DEF Resume, DropStopFence, Heartbeat, PassKept
<1>5. CASE \E a \in Created : MonitorRead(a)
  BY <1>5, SameRowsWork DEF MonitorRead, PassKept, InPass
<1> QED
  BY <1>2, <1>3, <1>4, <1>5

\* The monitor's pass over the latest attempt.
LEMMA PassEffect ==
    ASSUME CInv, MonitorMark \/ MonitorRaises \/ MonitorClean \/ MonitorStops
    PROVE  (Works /\ PassKept) \/ Judges \/ PassEnds
<1>1. /\ monitor.pc \in {"mark", "clean", "handler"} /\ monitor.att = last /\ last \in Attempts
      /\ row \in [Attempts -> Row] /\ last \in Nat
  BY DEF MonitorMark, MonitorRaises, MonitorClean, MonitorStops, CInv, OnlyLatest, IInv, TypeOK,
         MonitorState
<1>2. last \in Created /\ last # 0 /\ (monitor.pc = "mark" => IsActive(last)) /\ Complete(last)
  BY <1>1, BoundsAssumption DEF CInv, Verdicts, Attempts, Created
<1>3. CASE MonitorMark \/ MonitorRaises
  <2>1. \/ \E status : Mark(last, status)
        \/ row' = row
    BY <1>1, <1>3 DEF MonitorMark, MonitorRaises
  <2>2. SameWindows /\ \A b \in Attempts \ {last} : row'[b] = row[b]
    BY <1>1, <2>1, MarkLatest, SameRows DEF CInv
  <2>3. /\ last' = last /\ handled' = handled
        /\ InPass' /\ monitor'.att = last
    BY <1>1, <1>3 DEF MonitorMark, MonitorRaises, InPass, CInv, IInv, TypeOK, MonitorState
  <2>4. InPass \/ IsActive(last)
    BY <1>1, <1>2 DEF InPass
  <2>5. IsActive(last) \/ row'[last].status = row[last].status \/ TakenBack
    <3>1. CASE monitor.pc = "mark"
      BY <1>2, <3>1
    <3>2. CASE monitor.pc = "clean" /\ Mark(last, "FAILED") /\ MonitorRaises
      BY <1>1, <3>2, MarkLatest DEF MonitorRaises, TakenBack, CInv, IInv, TypeOK, MonitorState
    <3> QED
      BY <1>1, <1>3, <3>1, <3>2 DEF MonitorMark, MonitorRaises
  <2> QED
    BY <1>1, <1>2, <2>2, <2>3, <2>4, <2>5 DEF Judges, EndsKept, OthersKept, SameWindows
<1>4. CASE MonitorClean \/ MonitorStops
  <2>1. row' = row /\ last' = last /\ handled' = handled /\ monitor' = IdleMonitor
    BY <1>4 DEF MonitorClean, MonitorStops
  <2>2. ~InPass'
    BY <2>1 DEF InPass, IdleMonitor
  <2>3. CASE InPass
    <3>1. row[last].end \in Ticks
      BY <1>1, <1>2, CompleteMeansHandled DEF Row
    <3> QED
      BY <1>1, <1>2, <2>1, <2>2, <2>3, <3>1 DEF PassEnds
  <2>4. CASE ~InPass
    BY <2>1, <2>2, <2>4, SameRowsWork DEF PassKept
  <2> QED
    BY <2>3, <2>4
<1> QED
  BY <1>3, <1>4

LEMMA Effect ==
    ASSUME CInv, [Next]_vars
    PROVE  ((Works \/ GivesUp) /\ PassKept) \/ Judges \/ PassEnds \/ Creates
<1>1. TypeOK
  BY DEF CInv, IInv
<1>2. CASE UNCHANGED vars
  BY <1>2, SameRowsWork DEF vars, PassKept
<1>3. CASE \E fromBeginning \in BOOLEAN : CreateAttempt(fromBeginning)
  BY <1>1, <1>3, CreateAdmits DEF CreateAttempt, Creates, InPass
<1> QED
  BY <1>2, <1>3, FetchEffect, WorkEffect, MonitorUntouched, MonitorEffect, PassEffect
     DEF Next, MonitorStep, MonitorTrouble

\* A verdict is final: no late task, surviving process, watchdog or cancellation
\* turns a success into a failure, and what was given up is never reported
\* successful.  Only the monitor's exception handler may take a success back, in
\* the pass that gave it.
THEOREM VerdictsStand == NoHazards => (Spec => VerdictIsFinal)
<1> SUFFICES ASSUME NoHazards PROVE Spec => VerdictIsFinal
  OBVIOUS
<1>1. ASSUME CInv, [Next]_vars, NEW a \in Created, IsTerminal(a)
      PROVE  \/ row[a].status \in Successful <=> row'[a].status \in Successful
             \/ monitor.att = a /\ a = last /\ TakenBack
  <2>1. a \in Attempts /\ row[a].status \notin Active
    BY <1>1, CreatedAttempts DEF CInv, IInv, IsTerminal
  <2>2. CASE Works
    BY <2>1, <2>2 DEF Works
  <2>3. CASE GivesUp
    <3>1. CASE a = last
      BY <2>3, <3>1 DEF GivesUp, Successful, Unfinished
    <3>2. CASE a # last
      BY <2>1, <2>3, <3>2 DEF GivesUp, OthersKept
    <3> QED
      BY <3>1, <3>2
  <2>4. CASE Judges
    <3>1. CASE a = last
      BY <2>1, <2>4, <3>1 DEF Judges, IsActive
    <3>2. CASE a # last
      BY <2>1, <2>4, <3>2 DEF Judges, OthersKept
    <3> QED
      BY <3>1, <3>2
  <2>5. CASE PassEnds
    BY <2>5 DEF PassEnds
  <2>6. CASE Creates
    BY <1>1, <2>6 DEF Creates, Admits
  <2> QED
    BY <1>1, <2>2, <2>3, <2>4, <2>5, <2>6, Effect
<1>2. CInv /\ [Next]_vars =>
          [\A a \in Created : IsTerminal(a) =>
              \/ row[a].status \in Successful <=> row'[a].status \in Successful
              \/ /\ monitor.pc = "clean" /\ monitor'.pc = "handler" /\ monitor.att = a
                 /\ row'[a].status = "FAILED"]_vars
  BY <1>1 DEF TakenBack
<1> QED
  BY <1>2, Coverage, PTL DEF VerdictIsFinal, Spec

-----------------------------------------------------------------------------
(* The refinement of SyncPromise                                             *)

\* There is a last successful window, or none yet.
LastSettled(e) == e \in SettledEnds /\ \A f \in SettledEnds : f <= e
Synced == \E e \in Ticks : LastSettled(e)
Running == InPass \/ \E a \in Created : IsActive(a)
Succeeded(tick) ==
    /\ Running /\ ~Running' /\ handled' = handled
    /\ tick \in Ticks /\ 1..Last(tick) \subseteq handled
    /\ SettledEnds' = SettledEnds \cup {tick}

LEMMA Largest ==
    ASSUME NEW S, S \subseteq Int, NEW e \in S, \A f \in S : f <= e
    PROVE  (CHOOSE g \in S : \A f \in S : f <= g) = e
<1>1. ASSUME NEW g \in S, \A f \in S : f <= g PROVE g = e
  <2>1. g <= e /\ e <= g /\ g \in Int /\ e \in Int
    BY <1>1
  <2> QED
    BY <2>1
<1> QED
  BY <1>1

\* The abstract step that a step of the pipeline is.
LEMMA PromiseCases ==
    ASSUME CInv, CInv', [Next]_vars
    PROVE  \/ /\ Running' = Running /\ SettledEnds' = SettledEnds
              /\ handled' = handled \/ \E page \in Pages : handled' = handled \cup {page}
           \/ /\ ~Running /\ Running' /\ SettledEnds' = SettledEnds /\ handled' = handled
           \/ /\ ~Running' /\ SettledEnds' = SettledEnds /\ handled' = handled
           \/ \E tick \in Ticks : Succeeded(tick)
<1>1. Created \subseteq Attempts /\ last \in Nat
  BY CreatedAttempts DEF CInv, IInv, TypeOK
<1>2. CASE Works /\ PassKept
  <2>1. Created' = Created
    BY <1>2 DEF Works, Created
  <2>2. \A b \in Created : row'[b].status = "SUCCESS" <=> row[b].status = "SUCCESS"
    BY <1>1, <1>2 DEF Works, Active
  <2>3. \A b \in Created : row'[b].status = "SUCCESS" => row'[b].end = row[b].end
    BY <1>1, <1>2 DEF Works, EndsKept
  <2>4. \A b \in Created : (InPass /\ monitor.att = b)' <=> (InPass /\ monitor.att = b)
    BY <1>2 DEF PassKept, InPass
  <2>5. SettledEnds' = SettledEnds
    BY <2>1, <2>2, <2>3, <2>4 DEF SettledEnds
  <2>6. \A b \in Created : IsActive(b)' <=> IsActive(b)
    BY <1>1, <1>2 DEF Works, IsActive
  <2>7. InPass' <=> InPass
    BY <1>2 DEF PassKept, InPass
  <2> QED
    BY <1>2, <2>1, <2>5, <2>6, <2>7 DEF Works, Running
<1>3. CASE GivesUp /\ PassKept
  <2>1. Created' = Created /\ last \in Created /\ last \in Attempts
    BY <1>1, <1>3 DEF GivesUp, Created
  <2>2. \A b \in Created \ {last} : row'[b].status = row[b].status
    BY <1>1, <1>3 DEF GivesUp, OthersKept
  <2>3. \A b \in Created : row'[b].status = "SUCCESS" => row'[b].end = row[b].end
    BY <1>1, <1>3 DEF GivesUp, EndsKept
  <2>4. \A b \in Created : row'[b].status = "SUCCESS" <=> row[b].status = "SUCCESS"
    BY <1>3, <2>2 DEF GivesUp, Successful, Unfinished
  <2>5. \A b \in Created : (InPass /\ monitor.att = b)' <=> (InPass /\ monitor.att = b)
    BY <1>3 DEF PassKept, InPass
  <2>6. SettledEnds' = SettledEnds
    BY <2>1, <2>3, <2>4, <2>5 DEF SettledEnds
  <2>7. InPass' <=> InPass
    BY <1>3 DEF PassKept, InPass
  <2>8. \A b \in Created : ~IsActive(b)'
    BY <1>3, <2>2 DEF CInv, OnlyLatest, IsActive, IsTerminal, GivesUp, Active, Unfinished
  <2>9. CASE InPass
    BY <1>3, <2>6, <2>7, <2>9 DEF GivesUp, Running
  <2>10. CASE ~InPass
    BY <1>3, <2>1, <2>6, <2>7, <2>8, <2>10 DEF GivesUp, Running
  <2> QED
    BY <2>9, <2>10
<1>4. CASE Judges
  <2>1. Created' = Created /\ last \in Created
    BY <1>4 DEF Judges, Created
  <2>2. \A b \in Created \ {last} : row'[b].status = row[b].status
    BY <1>1, <1>4 DEF Judges, OthersKept
  <2>3. \A b \in Created \ {last} : row'[b].status = "SUCCESS" => row'[b].end = row[b].end
    BY <1>1, <1>4 DEF Judges, EndsKept
  <2>4. IsActive(last) => row[last].status # "SUCCESS"
    BY DEF IsActive, Active
  <2>5. {c \in Created : row[c].status = "SUCCESS" /\ ~(InPass /\ monitor.att = c)}
         = {c \in Created \ {last} : row[c].status = "SUCCESS"}
    BY <1>4, <2>4 DEF Judges
  <2>6. {c \in Created : row[c].status = "SUCCESS" /\ ~(InPass /\ monitor.att = c)}'
         = {c \in Created \ {last} : row[c].status = "SUCCESS"}
    BY <1>4, <2>1, <2>2 DEF Judges
  <2>7. SettledEnds' = SettledEnds
    BY <2>2, <2>3, <2>5, <2>6 DEF SettledEnds
  <2>8. Running' /\ Running
    BY <1>4 DEF Judges, Running
  <2> QED
    BY <1>4, <2>7, <2>8 DEF Judges
<1>5. CASE PassEnds
  <2>1. Created' = Created /\ last \in Created /\ Running
    BY <1>5 DEF PassEnds, Created, Running
  <2>2. \A b \in Created : IsActive(b)' <=> IsActive(b)
    BY <1>5 DEF PassEnds, IsActive
  <2>3. SettledEnds' = {row[b].end : b \in {c \in Created : row[c].status = "SUCCESS"}} \cup {0}
    BY <1>5, <2>1 DEF PassEnds, SettledEnds
  <2>4. SettledEnds = {row[b].end : b \in {c \in Created \ {last} : row[c].status = "SUCCESS"}} \cup {0}
    BY <1>5 DEF PassEnds, SettledEnds
  <2>5. CASE row[last].status = "SUCCESS"
    <3>1. row[last].end \in Ticks
      BY <1>5, <2>5 DEF PassEnds
    <3>2. SettledEnds' = SettledEnds \cup {row[last].end}
      BY <2>1, <2>3, <2>4, <2>5
    <3>3. \A b \in Created : ~IsActive(b)
      BY <2>5 DEF CInv, OnlyLatest, IsActive, IsTerminal, Active
    <3>4. ~Running'
      BY <1>5, <2>1, <2>2, <3>3 DEF PassEnds, Running
    <3>5. 1..Last(row[last].end) \subseteq handled
      BY <2>1, <2>5 DEF CInv, Verdicts, NoDocumentSkipped, Successful
    <3> QED
      BY <1>5, <2>1, <3>1, <3>2, <3>4, <3>5 DEF PassEnds, Succeeded
  <2>6. CASE row[last].status # "SUCCESS"
    <3>1. SettledEnds' = SettledEnds
      BY <2>3, <2>4, <2>6
    <3> QED
      BY <1>5, <2>1, <3>1 DEF PassEnds
  <2> QED
    BY <2>5, <2>6
<1>6. CASE Creates
  <2>1. last' = last + 1 /\ (\A b \in Created : row'[b] = row[b])
    BY <1>6 DEF Creates, Admits
  <2>2. Created' = Created \cup {last + 1}
    BY <1>1, <2>1 DEF Created
  <2>3. row'[last + 1].status = "NOT_STARTED"
    BY <1>6 DEF Creates, Waits
  <2>4. SettledEnds' = SettledEnds
    BY <1>6, <2>1, <2>2, <2>3 DEF Creates, SettledEnds
  <2>5. ~Running /\ Running'
    BY <1>6, <2>2, <2>3
       DEF Creates, Admits, NoneActive, Running, IsActive, IsTerminal, Active
  <2> QED
    BY <1>6, <2>4, <2>5 DEF Creates
<1> QED
  BY <1>2, <1>3, <1>4, <1>5, <1>6, Effect

LEMMA SettledEndsType ==
    ASSUME CInv, CInv'
    PROVE  SettledEnds \subseteq Int /\ SettledEnds' \subseteq Int
<1>1. \A b \in Created : row[b].end \in Int
  BY CreatedAttempts DEF CInv, IInv, TypeOK, Row, Ticks, Null
<1>2. IInv'
  BY DEF CInv
<1>3. row' \in [Attempts -> Row] /\ Created' \subseteq Attempts
  BY <1>2, BoundsAssumption DEF IInv, TypeOK, Created, Attempts
<1>4. \A b \in Created' : row'[b].end \in Int
  BY <1>3 DEF Row, Ticks, Null
<1> QED
  BY <1>1, <1>4 DEF SettledEnds

LEMMA SyncedStep == ASSUME CInv, CInv', Synced, [Next]_vars PROVE Synced'
<1>1. PICK e \in Ticks : LastSettled(e)
  BY DEF Synced
<1>2. CASE SettledEnds' = SettledEnds
  BY <1>1, <1>2 DEF Synced, LastSettled
<1>3. CASE \E tick \in Ticks : Succeeded(tick)
  <2>1. PICK tick \in Ticks : SettledEnds' = SettledEnds \cup {tick}
    BY <1>3 DEF Succeeded
  <2>2. e \in SettledEnds /\ (\A f \in SettledEnds : f <= e) /\ SettledEnds \subseteq Int
    BY <1>1, SettledEndsType DEF LastSettled
  <2>3. PICK m \in {e, tick} : e <= m /\ tick <= m
    BY DEF Ticks
  <2>4. m \in Ticks /\ m \in SettledEnds'
    BY <2>1, <2>2
  <2>5. \A f \in SettledEnds' : f <= m
    <3> SUFFICES ASSUME NEW f \in SettledEnds' PROVE f <= m
      OBVIOUS
    <3>1. CASE f \in SettledEnds
      <4>1. f <= e /\ e <= m /\ f \in Int /\ e \in Int /\ m \in Int
        BY <2>2, <2>3, <2>4, <3>1 DEF Ticks
      <4> QED
        BY <4>1
    <3>2. CASE f = tick
      BY <2>3, <3>2
    <3> QED
      BY <2>1, <3>1, <3>2
  <2> QED
    BY <2>4, <2>5 DEF Synced, LastSettled
<1> QED
  BY <1>2, <1>3, PromiseCases

LEMMA PromiseStep ==
    ASSUME CInv, CInv', Synced, Synced', [Next]_vars
    PROVE  Promise!Next \/ UNCHANGED <<Running, LastSuccessEnd, handled>>
<1>1. PICK e \in Ticks : LastSettled(e)
  BY DEF Synced
<1>2. LastSuccessEnd = e
  BY <1>1, Largest, SettledEndsType DEF LastSettled, LastSuccessEnd
<1>3. SettledEnds' = SettledEnds => LastSuccessEnd' = LastSuccessEnd
  BY DEF LastSuccessEnd
<1>4. CASE /\ Running' = Running /\ SettledEnds' = SettledEnds
           /\ handled' = handled \/ \E page \in Pages : handled' = handled \cup {page}
  <2>1. CASE handled' = handled
    BY <1>3, <1>4, <2>1
  <2>2. CASE \E page \in Pages : handled' = handled \cup {page}
    <3>1. \E page \in Promise!Pages : Promise!IndexPage(page)
      BY <1>3, <1>4, <2>2 DEF Promise!IndexPage, Promise!Pages, Pages, Running
    <3> QED
      BY <3>1 DEF Promise!Next
  <2> QED
    BY <1>4, <2>1, <2>2
<1>5. CASE ~Running /\ Running' /\ SettledEnds' = SettledEnds /\ handled' = handled
  <2>1. Promise!Begin
    BY <1>3, <1>5 DEF Promise!Begin, Running
  <2> QED
    BY <2>1 DEF Promise!Next
<1>6. CASE ~Running' /\ SettledEnds' = SettledEnds /\ handled' = handled
  <2>1. CASE Running
    <3>1. Promise!GiveUp
      BY <1>3, <1>6, <2>1 DEF Promise!GiveUp, Running
    <3> QED
      BY <3>1 DEF Promise!Next
  <2>2. CASE ~Running
    BY <1>3, <1>6, <2>2 DEF Running
  <2> QED
    BY <2>1, <2>2
<1>7. CASE \E tick \in Ticks : Succeeded(tick)
  <2>1. PICK tick \in Ticks : Succeeded(tick)
    BY <1>7
  <2> DEFINE m == IF tick > e THEN tick ELSE e
  <2>2. m \in SettledEnds' /\ \A f \in SettledEnds' : f <= m
    <3>1. /\ SettledEnds' = SettledEnds \cup {tick} /\ e \in SettledEnds
          /\ SettledEnds \subseteq Int /\ tick \in Int /\ e \in Int
          /\ \A f \in SettledEnds : f <= e
      BY <1>1, <2>1, SettledEndsType DEF Succeeded, LastSettled, Ticks
    <3> QED
      BY <3>1
  <2> HIDE DEF m
  <2>3. LastSuccessEnd' = m
    BY <2>2, Largest, SettledEndsType DEF LastSuccessEnd
  <2>4. Promise!Succeed(tick)
    BY <1>2, <2>1, <2>3 DEF m, Succeeded, Promise!Succeed, Promise!Upto, Last, Running
  <2> QED
    BY <2>1, <2>4 DEF Promise!Next, Promise!Ticks, Ticks
<1> QED
  BY <1>4, <1>5, <1>6, <1>7, PromiseCases

\* Attempts, batches, checkpoints and counters together keep the promise made to
\* those who search: the time up to which the source is reported as synchronised
\* never goes back, and moves on only over pages that were all indexed, by the
\* verdict on the attempt that runs.
THEOREM ImplementsPromise == NoHazards => (Spec => KeepsPromise)
<1> SUFFICES ASSUME NoHazards PROVE Spec => KeepsPromise
  OBVIOUS
<1>1. Init => Synced /\ Promise!Init
  <2> SUFFICES ASSUME Init PROVE Synced /\ Promise!Init
    OBVIOUS
  <2>1. Created = {} /\ handled = {}
    BY DEF Init, Created
  <2>2. SettledEnds = {0}
    BY <2>1 DEF SettledEnds
  <2>3. LastSettled(0) /\ 0 \in Ticks
    BY <2>2, BoundsAssumption DEF LastSettled, Ticks
  <2>4. LastSuccessEnd = 0
    BY <2>2 DEF LastSuccessEnd
  <2>5. ~InPass
    BY DEF Init, IdleMonitor, InPass
  <2> QED
    BY <2>1, <2>3, <2>4, <2>5 DEF Synced, Promise!Init
<1>2. CInv /\ CInv' /\ Synced /\ [Next]_vars => Synced'
  BY SyncedStep
<1>3. CInv /\ CInv' /\ Synced /\ Synced' /\ [Next]_vars
          => [Promise!Next]_<<Running, LastSuccessEnd, handled>>
  BY PromiseStep
<1>4. KeepsPromise <=> Promise!Init /\ [][Promise!Next]_<<Running, LastSuccessEnd, handled>>
  BY DEF KeepsPromise, Promise!Spec, Promise!vars, Running
<1> QED
  BY <1>1, <1>2, <1>3, <1>4, Coverage, PTL DEF Spec
=============================================================================

------------------------ MODULE ScheduledRuns_proofs ------------------------
(* The safety properties of ScheduledRuns, for every set of rows and beats,  *)
(* every number of faults and all times that keep TimesAssumption.           *)
EXTENDS ScheduledRuns, TLAPS

-----------------------------------------------------------------------------
(* The inductive invariant                                                   *)

\* Nothing has begun for a row that is not there.
Absent(r) ==
    run[r].status = "absent" =>
        /\ run[r].age = 0 /\ ~run[r].session
        /\ r \notin unsent /\ message[r] = Null /\ executor[r].pc = "off" /\ r \notin stuck

\* A row whose message is on its way is as old as the message.
Waits(r) ==
    /\ r \in unsent => run[r].age = 0 /\ message[r] = Null
    /\ message[r] # Null => run[r].age = message[r]
    /\ r \in unsent \/ message[r] # Null =>
          /\ run[r].status = "QUEUED" /\ ~run[r].session
          /\ executor[r].pc = "off" /\ r \notin stuck

\* A row an executor works on is too young for the sweep, and says how far it is.
Works(r) ==
    /\ executor[r].pc # "off" => r \notin stuck
    /\ executor[r].pc = "wake" =>
          /\ run[r].status = "QUEUED" /\ ~run[r].session
          /\ run[r].age <= QueuedLimit /\ executor[r].time <= WakeLimit
    /\ executor[r].pc = "open" =>
          /\ run[r].status = "RUNNING" /\ ~run[r].session
          /\ run[r].age <= QueuedLimit + executor[r].time
          /\ executor[r].time <= WakeLimit
    /\ executor[r].pc = "drive" =>
          /\ run[r].status = "RUNNING" /\ run[r].session
          /\ run[r].age <= QueuedLimit + executor[r].time

\* What the sweep has read has not ended since.
StuckLeft(r) == r \in stuck => run[r].status \in InFlight

Timely(r) == Absent(r) /\ Waits(r) /\ Works(r) /\ StuckLeft(r)
OnTime == Shown({"late"}) \/ \A r \in Run : Timely(r)

\* SKIP LOCKED: one tick has the task at a time.
OneClaim == \A b, c \in Beat : beat[b].claimed /\ beat[c].claimed => b = c

\* One run is in flight, and the tick that is about to insert another one knows.
OneInFlight ==
    \/ /\ \A r, s \in Run : run[r].status \in InFlight /\ run[s].status \in InFlight => r = s
       /\ \A b \in Beat : beat[b].claimed /\ ~beat[b].prior => ~PriorInFlight
    \/ Shown({"manual", "late"})

\* A row goes its way once, however late it is, and gets its session at the end of it.
OneWay(r) ==
    /\ run[r].status = "absent" =>
          /\ r \notin unsent /\ r \notin stuck /\ message[r] = Null
          /\ executor[r].pc = "off" /\ ~run[r].session
    /\ r \in unsent => message[r] = Null
    /\ r \in unsent \/ message[r] # Null => executor[r].pc = "off" /\ ~run[r].session
    /\ executor[r].pc \in {"wake", "open"} => ~run[r].session

\* Who lets go of a row it drives says how it ended, unless it dies.
LetGo(r) == PreApproves(r) => executor[r].pc = "drive" \/ Shown({"dies"})

\* What the gate remembers of a row that has ended is older than the end.
FromBefore(r) ==
    memo[r] # Null =>
        /\ run[r].session
        /\ \/ run[r].status = "RUNNING"
           \/ finished[r] # Null /\ finished[r] <= memo[r]

Granted(r) == OneWay(r) /\ LetGo(r) /\ FromBefore(r)
GrantsHeld == \A r \in Run : Granted(r)

IInv == TypeOK /\ OnTime /\ OneClaim /\ OneInFlight /\ GrantsHeld

-----------------------------------------------------------------------------
(* What the operators do                                                     *)

Status == {"absent"} \cup InFlight \cup Terminal
RunState == [status : Status, age : 0..Oldest, session : BOOLEAN]
ExecutorState == [pc : {"off", "wake", "open", "drive"}, time : 0..WakeLimit + TurnLimit]
BeatState == [claimed : BOOLEAN, prior : BOOLEAN]

LEMMA Statuses ==
    /\ Status = {"absent", "QUEUED", "RUNNING", "SUCCEEDED", "FAILED", "SKIPPED"}
    /\ \A s \in InFlight : s # "absent" /\ s \notin Terminal
    /\ \A s \in Terminal : s # "absent" /\ s \notin InFlight
    /\ "absent" \notin InFlight /\ "absent" \notin Terminal
    /\ "QUEUED" \in InFlight /\ "RUNNING" \in InFlight
    /\ "SUCCEEDED" \in Terminal /\ "FAILED" \in Terminal /\ "SKIPPED" \in Terminal
BY DEF Status, InFlight, Terminal

LEMMA Times ==
    /\ Oldest \in Nat /\ 0 \in 0..Oldest /\ 0 \in 0..WakeLimit + TurnLimit
    /\ 0 \in 0..Expires /\ Null \notin 0..Expires
    /\ 0 \in 0..MemoLimit /\ Null \notin 0..MemoLimit
    /\ Expires < Oldest /\ QueuedLimit < Oldest
    /\ WakeLimit + TurnLimit \in Nat
BY TimesAssumption DEF Oldest, Null

\* The statuses of the row r change to status, and nothing else of any row.
OnlyStatus(r, status) ==
    /\ run' \in [Run -> RunState]
    /\ run'[r].status = status
    /\ run'[r].age = run[r].age
    /\ run'[r].session = run[r].session
    /\ \A s \in Run \ {r} : run'[s] = run[s]

LEMMA MarkEffect ==
    ASSUME TypeOK, NEW r \in Run, NEW status \in Status, Mark(r, status)
    PROVE  OnlyStatus(r, status)
<1> DEFINE new == [run[r] EXCEPT !.status = status]
<1>1. run \in [Run -> RunState]
  BY DEF TypeOK, RunState, Status
<1>2. run[r] \in RunState
  BY <1>1
<1>3. run' = [run EXCEPT ![r] = new]
  BY <1>1 DEF Mark
<1>4. new \in RunState /\ new.status = status
  BY <1>2 DEF RunState
<1>5. new.age = run[r].age /\ new.session = run[r].session
  BY <1>2 DEF RunState
<1>6. run'[r] = new /\ \A s \in Run \ {r} : run'[s] = run[s]
  BY <1>1, <1>3
<1>7. run' \in [Run -> RunState]
  BY <1>1, <1>3, <1>4
<1> QED
  BY <1>4, <1>5, <1>6, <1>7 DEF OnlyStatus

LEMMA InsertEffect ==
    ASSUME TypeOK, NEW r \in Run, NEW status \in Status, Insert(r, status)
    PROVE  run[r].status = "absent" /\ OnlyStatus(r, status)
BY MarkEffect DEF Insert, Mark

LEMMA OpenEffect ==
    ASSUME TypeOK, NEW r \in Run, Open(r)
    PROVE  /\ run' \in [Run -> RunState]
           /\ run'[r].status = "RUNNING" /\ run'[r].age = run[r].age /\ run'[r].session
           /\ \A s \in Run \ {r} : run'[s] = run[s]
<1> DEFINE new == [run[r] EXCEPT !.status = "RUNNING", !.session = TRUE]
<1>1. run \in [Run -> RunState]
  BY DEF TypeOK, RunState, Status
<1>2. run[r] \in RunState
  BY <1>1
<1>3. run' = [run EXCEPT ![r] = new]
  BY <1>1 DEF Open
<1>4. new \in RunState /\ new.status = "RUNNING" /\ new.age = run[r].age
  BY <1>2, Statuses DEF RunState
<1>5. new.session
  BY <1>2 DEF RunState
<1>6. run'[r] = new /\ \A s \in Run \ {r} : run'[s] = run[s]
  BY <1>1, <1>3
<1>7. run' \in [Run -> RunState]
  BY <1>1, <1>3, <1>4
<1> QED
  BY <1>4, <1>5, <1>6, <1>7

LEMMA SettleEffect ==
    ASSUME TypeOK, NEW rows, Settle(rows)
    PROVE  /\ finished' \in [Run -> {Null} \cup 0..MemoLimit]
           /\ \A r \in Run : /\ r \in rows => finished'[r] = 0
                             /\ r \notin rows => finished'[r] = finished[r]
<1>1. finished' = [r \in Run |-> IF r \in rows THEN 0 ELSE finished[r]]
  BY DEF Settle
<1>2. finished \in [Run -> {Null} \cup 0..MemoLimit]
  BY DEF TypeOK
<1> HIDE DEF Null
<1> QED
  BY <1>1, <1>2, Times

\* The executor of r is at pc, its time as given, and no other one moves.
Moved(r, pc, time) ==
    /\ executor' \in [Run -> ExecutorState]
    /\ executor'[r].pc = pc
    /\ executor'[r].time = time
    /\ \A s \in Run \ {r} : executor'[s] = executor[s]

LEMMA GotoEffect ==
    ASSUME TypeOK, NEW r \in Run, NEW pc \in {"off", "wake", "open", "drive"}, Goto(r, pc)
    PROVE  Moved(r, pc, 0)
<1>1. executor \in [Run -> ExecutorState]
  BY DEF TypeOK, ExecutorState
<1>2. [pc |-> pc, time |-> 0] \in ExecutorState
  BY Times DEF ExecutorState
<1> QED
  BY <1>1, <1>2 DEF Goto, Moved

LEMMA PcEffect ==
    ASSUME TypeOK, NEW r \in Run, NEW pc \in {"off", "wake", "open", "drive"},
           executor' = [executor EXCEPT ![r].pc = pc]
    PROVE  Moved(r, pc, executor[r].time)
<1> DEFINE new == [executor[r] EXCEPT !.pc = pc]
<1>1. executor \in [Run -> ExecutorState]
  BY DEF TypeOK, ExecutorState
<1>2. executor[r] \in ExecutorState
  BY <1>1
<1>3. executor' = [executor EXCEPT ![r] = new]
  BY <1>1
<1>4. new \in ExecutorState /\ new.pc = pc /\ new.time = executor[r].time
  BY <1>2 DEF ExecutorState
<1>5. executor'[r] = new /\ \A s \in Run \ {r} : executor'[s] = executor[s]
  BY <1>1, <1>3
<1>6. executor' \in [Run -> ExecutorState]
  BY <1>1, <1>3, <1>4
<1> QED
  BY <1>4, <1>5, <1>6 DEF Moved

LEMMA MarkStuckEffect ==
    ASSUME TypeOK, MarkStuck
    PROVE  /\ run' \in [Run -> RunState]
           /\ \A r \in Run : /\ r \in stuck => run'[r].status = "FAILED"
                             /\ r \notin stuck => run'[r].status = run[r].status
                             /\ run'[r].age = run[r].age
                             /\ run'[r].session = run[r].session
<1>1. run \in [Run -> RunState]
  BY DEF TypeOK, RunState, Status
<1>2. ASSUME NEW r \in Run
      PROVE  /\ [run[r] EXCEPT !.status = "FAILED"] \in RunState
             /\ [run[r] EXCEPT !.status = "FAILED"].status = "FAILED"
             /\ [run[r] EXCEPT !.status = "FAILED"].age = run[r].age
             /\ [run[r] EXCEPT !.status = "FAILED"].session = run[r].session
  <2>1. run[r] \in RunState
    BY <1>1
  <2> QED
    BY <2>1, Statuses DEF RunState
<1>3. \A r \in Run : run'[r] = IF r \in stuck THEN [run[r] EXCEPT !.status = "FAILED"]
                                               ELSE run[r]
  BY DEF MarkStuck
<1>4. run' \in [Run -> RunState]
  BY <1>1, <1>2 DEF MarkStuck
<1> QED
  BY <1>2, <1>3, <1>4

LEMMA TickRuns ==
    ASSUME TypeOK, Tick
    PROVE  /\ run' \in [Run -> RunState]
           /\ \A r \in Run :
                 /\ run'[r].status = run[r].status
                 /\ run'[r].session = run[r].session
                 /\ run[r].status = "absent" => run'[r].age = run[r].age
                 /\ run'[r].age <= run[r].age + 1
                 /\ run[r].status # "absent" /\ run[r].age # Oldest =>
                       run'[r].age = run[r].age + 1
<1>1. run \in [Run -> RunState]
  BY DEF TypeOK, RunState, Status
<1>2. ASSUME NEW r \in Run, run[r].age # Oldest
      PROVE  /\ [run[r] EXCEPT !.age = @ + 1] \in RunState
             /\ [run[r] EXCEPT !.age = @ + 1].age = run[r].age + 1
             /\ [run[r] EXCEPT !.age = @ + 1].status = run[r].status
             /\ [run[r] EXCEPT !.age = @ + 1].session = run[r].session
  <2>1. run[r] \in RunState
    BY <1>1
  <2>2. run[r].age + 1 \in 0..Oldest
    BY <1>2, <2>1, Times DEF RunState
  <2> QED
    BY <2>1, <2>2 DEF RunState
<1>3. \A r \in Run : run'[r] = IF run[r].status = "absent" \/ run[r].age = Oldest
                                 THEN run[r] ELSE [run[r] EXCEPT !.age = @ + 1]
  BY DEF Tick
<1>4. run' \in [Run -> RunState]
  BY <1>1, <1>2 DEF Tick
<1>5. \A r \in Run : run[r].age \in Int
  BY <1>1, Times DEF RunState
<1>6. \A n \in Int : n <= n + 1 /\ n + 1 <= n + 1
  OBVIOUS
<1>8. ASSUME NEW r \in Run
      PROVE  /\ run'[r].status = run[r].status
             /\ run'[r].session = run[r].session
             /\ run[r].status = "absent" => run'[r].age = run[r].age
             /\ run'[r].age <= run[r].age + 1
             /\ run[r].status # "absent" /\ run[r].age # Oldest =>
                   run'[r].age = run[r].age + 1
  <2>1. CASE run[r].status = "absent" \/ run[r].age = Oldest
    BY <1>3, <1>5, <1>6, <2>1
  <2>2. CASE run[r].status # "absent" /\ run[r].age # Oldest
    BY <1>2, <1>3, <1>5, <1>6, <2>2
  <2> QED
    BY <2>1, <2>2
<1> QED
  BY <1>4, <1>8

LEMMA TickExecutors ==
    ASSUME TypeOK, Tick
    PROVE  /\ executor' \in [Run -> ExecutorState]
           /\ \A r \in Run :
                 /\ executor'[r].pc = executor[r].pc
                 /\ executor[r].pc # "off" => executor'[r].time = executor[r].time + 1
<1>1. executor \in [Run -> ExecutorState]
  BY DEF TypeOK, ExecutorState
<1>2. ASSUME NEW r \in Run, executor[r].pc # "off"
      PROVE  /\ [executor[r] EXCEPT !.time = @ + 1] \in ExecutorState
             /\ [executor[r] EXCEPT !.time = @ + 1].pc = executor[r].pc
             /\ [executor[r] EXCEPT !.time = @ + 1].time = executor[r].time + 1
  <2>1. executor[r] \in ExecutorState
    BY <1>1
  <2>2. TimeLeft(r)
    BY DEF Tick
  <2>3. executor[r].time \in Nat /\ executor[r].pc \in {"wake", "open", "drive"}
    BY <1>2, <2>1, Times DEF ExecutorState
  <2>4. executor[r].time < WakeLimit + TurnLimit
    BY <2>2, <2>3, TimesAssumption DEF TimeLeft
  <2>5. executor[r].time + 1 \in 0..WakeLimit + TurnLimit
    BY <2>3, <2>4, Times
  <2> QED
    BY <2>1, <2>5 DEF ExecutorState
<1>3. \A r \in Run : executor'[r] = IF executor[r].pc = "off" THEN executor[r]
                                     ELSE [executor[r] EXCEPT !.time = @ + 1]
  BY DEF Tick
<1>4. executor' \in [Run -> ExecutorState]
  BY <1>1, <1>2 DEF Tick
<1> QED
  BY <1>2, <1>3, <1>4

\* A tick makes what the gate remembers older, and what is too old is gone.
LEMMA TickGate ==
    ASSUME TypeOK, Tick
    PROVE  /\ finished' \in [Run -> {Null} \cup 0..MemoLimit]
           /\ memo' \in [Run -> {Null} \cup 0..MemoLimit]
           /\ \A r \in Run :
                 /\ memo'[r] # Null => memo[r] # Null /\ memo'[r] = memo[r] + 1
                 /\ memo'[r] # Null /\ finished[r] # Null /\ finished[r] <= memo[r] =>
                       finished'[r] # Null /\ finished'[r] <= memo'[r]
<1>1. finished \in [Run -> {Null} \cup 0..MemoLimit] /\ memo \in [Run -> {Null} \cup 0..MemoLimit]
  BY DEF TypeOK
<1>2. \A r \in Run :
          /\ memo'[r] = IF memo[r] \in {Null, MemoLimit} THEN Null ELSE memo[r] + 1
          /\ finished'[r] = IF finished[r] \in {Null, MemoLimit} THEN Null ELSE finished[r] + 1
  BY DEF Tick, Remembered
<1>3. memo' \in [Run -> {Null} \cup 0..MemoLimit]
  <2>1. ASSUME NEW r \in Run
        PROVE  memo'[r] \in {Null} \cup 0..MemoLimit
    BY <1>1, <1>2, TimesAssumption
  <2> QED
    BY <2>1 DEF Tick
<1>4. finished' \in [Run -> {Null} \cup 0..MemoLimit]
  <2>1. ASSUME NEW r \in Run
        PROVE  finished'[r] \in {Null} \cup 0..MemoLimit
    BY <1>1, <1>2, TimesAssumption
  <2> QED
    BY <2>1 DEF Tick
<1>5. ASSUME NEW r \in Run, memo'[r] # Null
      PROVE  /\ memo[r] # Null /\ memo'[r] = memo[r] + 1
             /\ finished[r] # Null /\ finished[r] <= memo[r] =>
                    finished'[r] # Null /\ finished'[r] <= memo'[r]
  <2>1. memo[r] \in 0..MemoLimit /\ memo[r] # MemoLimit /\ memo'[r] = memo[r] + 1
    BY <1>1, <1>2, <1>5
  <2>2. ASSUME finished[r] # Null, finished[r] <= memo[r]
        PROVE  finished'[r] # Null /\ finished'[r] <= memo'[r]
    <3>1. finished[r] \in 0..MemoLimit /\ finished[r] # MemoLimit
      BY <1>1, <2>1, <2>2, TimesAssumption
    <3>2. finished'[r] = finished[r] + 1
      BY <1>2, <2>2, <3>1
    <3> QED
      BY <2>1, <2>2, <3>1, <3>2, TimesAssumption DEF Null
  <2> QED
    BY <2>1, <2>2, Times
<1> QED
  BY <1>3, <1>4, <1>5

LEMMA FaultEffect ==
    ASSUME TypeOK, NEW kind, Fault(kind)
    PROVE  /\ faults' \in [count : 0..MaxFaults, hazards : SUBSET HazardKinds]
           /\ faults'.hazards = faults.hazards \cup {kind}
<1>1. kind \in HazardKinds /\ faults.hazards \in SUBSET HazardKinds
  BY RunsAssumption DEF TypeOK, Fault
<1>2. faults.count + 1 \in 0..MaxFaults
  BY RunsAssumption DEF TypeOK, Fault
<1> QED
  BY <1>1, <1>2 DEF Fault

\* A hazard that has been shown stays shown.
LEMMA FaultsStay ==
    ASSUME TypeOK, [Next]_vars
    PROVE  \A kinds : Shown(kinds) => Shown(kinds)'
<1>1. UNCHANGED faults \/ \E kind : Fault(kind)
  BY DEF Next, vars, FallsDue, Update, RunNow, Unless, Send, SendFails, Claim, DispatchFails,
         Dispatch, Start, ExecutorStep, Running, WakeFails, Open, OpenFails, Finish, Dies,
         SweepStep, FindStuck, MarkStuck, SweepFails, GateLooks, GateForgets, Tick
<1>2. faults.hazards \subseteq faults'.hazards
  BY <1>1, FaultEffect
<1> QED
  BY <1>2 DEF Shown

-----------------------------------------------------------------------------
(* Types                                                                     *)

TypesOfFaults == faults \in [count : 0..MaxFaults, hazards : SUBSET HazardKinds]
TypesOfBeats == beat \in [Beat -> BeatState]

LEMMA Typed ==
    TypeOK <=> /\ task \in [status : {"ACTIVE", "PAUSED", "DELETED"}, due : BOOLEAN]
               /\ run \in [Run -> RunState]
               /\ finished \in [Run -> {Null} \cup 0..MemoLimit]
               /\ unsent \subseteq Run
               /\ message \in [Run -> {Null} \cup 0..Expires]
               /\ TypesOfBeats
               /\ executor \in [Run -> ExecutorState]
               /\ memo \in [Run -> {Null} \cup 0..MemoLimit]
               /\ stuck \subseteq Run
               /\ TypesOfFaults
BY DEF TypeOK, RunState, Status, ExecutorState, BeatState, TypesOfBeats, TypesOfFaults

LEMMA FaultTypes == TypeOK /\ [Next]_vars => TypesOfFaults'
<1> SUFFICES ASSUME TypeOK, [Next]_vars
             PROVE  TypesOfFaults'
  OBVIOUS
<1>1. UNCHANGED faults \/ \E kind : Fault(kind)
  BY DEF Next, vars, FallsDue, Update, RunNow, Unless, Send, SendFails, Claim, DispatchFails,
         Dispatch, Start, ExecutorStep, Running, WakeFails, Open, OpenFails, Finish, Dies,
         SweepStep, FindStuck, MarkStuck, SweepFails, GateLooks, GateForgets, Tick
<1> QED
  BY <1>1, FaultEffect DEF TypeOK, TypesOfFaults

LEMMA TaskTypes ==
    ASSUME TypeOK
    PROVE  /\ FallsDue => task' \in [status : {"ACTIVE", "PAUSED", "DELETED"}, due : BOOLEAN]
           /\ \A status \in {"ACTIVE", "PAUSED", "DELETED"} :
                 Update(status) => task' \in [status : {"ACTIVE", "PAUSED", "DELETED"}, due : BOOLEAN]
           /\ \A b \in Beat, r \in Run :
                 Dispatch(b, r) => task' \in [status : {"ACTIVE", "PAUSED", "DELETED"}, due : BOOLEAN]
<1> DEFINE Tasks == [status : {"ACTIVE", "PAUSED", "DELETED"}, due : BOOLEAN]
<1>1. ASSUME NEW due \in BOOLEAN
      PROVE  [task EXCEPT !.due = due] \in Tasks
  <2>1. task \in Tasks
    BY DEF TypeOK
  <2> QED
    BY <2>1
<1>2. FallsDue => task' \in Tasks
  BY <1>1 DEF FallsDue
<1>3. ASSUME NEW status \in {"ACTIVE", "PAUSED", "DELETED"}, Update(status)
      PROVE  task' \in Tasks
  BY <1>3 DEF Update
<1>4. ASSUME NEW b \in Beat, NEW r \in Run, Dispatch(b, r)
      PROVE  task' \in Tasks
  BY <1>1, <1>4 DEF Dispatch, TypeOK
<1> QED
  BY <1>2, <1>3, <1>4

\* A tick that claims, and one that lets go.
LEMMA ClaimEffect ==
    ASSUME TypeOK, NEW b \in Beat, Claim(b)
    PROVE  /\ TypesOfBeats'
           /\ beat'[b].claimed
           /\ beat'[b].prior <=> PriorInFlight
           /\ \A c \in Beat \ {b} : beat'[c] = beat[c]
<1> DEFINE new == [claimed |-> TRUE, prior |-> PriorInFlight]
<1>1. beat \in [Beat -> BeatState]
  BY DEF TypeOK, BeatState
<1>2. new \in BeatState
  BY DEF BeatState, PriorInFlight
<1>3. new.claimed /\ (new.prior <=> PriorInFlight)
  OBVIOUS
<1>4. beat' = [beat EXCEPT ![b] = new]
  BY DEF Claim
<1>5. beat'[b] = new /\ \A c \in Beat \ {b} : beat'[c] = beat[c]
  BY <1>1, <1>4
<1>6. beat' \in [Beat -> BeatState]
  BY <1>1, <1>2, <1>4
<1> QED
  BY <1>3, <1>5, <1>6 DEF TypesOfBeats

LEMMA ReleaseEffect ==
    ASSUME TypeOK, NEW b \in Beat, Release(b)
    PROVE  /\ TypesOfBeats'
           /\ ~beat'[b].claimed
           /\ \A c \in Beat \ {b} : beat'[c] = beat[c]
<1> DEFINE new == [claimed |-> FALSE, prior |-> FALSE]
<1>1. beat \in [Beat -> BeatState]
  BY DEF TypeOK, BeatState
<1>2. new \in BeatState /\ ~new.claimed
  BY DEF BeatState
<1>3. beat' = [beat EXCEPT ![b] = new]
  BY DEF Release
<1>4. beat'[b] = new /\ \A c \in Beat \ {b} : beat'[c] = beat[c]
  BY <1>1, <1>3
<1>5. beat' \in [Beat -> BeatState]
  BY <1>1, <1>2, <1>3
<1> QED
  BY <1>2, <1>4, <1>5 DEF TypesOfBeats

LEMMA MessageTypes ==
    ASSUME TypeOK
    PROVE  /\ \A r \in Run : Send(r) => message' \in [Run -> {Null} \cup 0..Expires]
           /\ \A r \in Run : Start(r) => message' \in [Run -> {Null} \cup 0..Expires]
           /\ Tick => message' \in [Run -> {Null} \cup 0..Expires]
<1>1. ASSUME NEW r \in Run, Send(r)
      PROVE  message' \in [Run -> {Null} \cup 0..Expires]
  BY <1>1, Times DEF Send, TypeOK
<1>2. ASSUME NEW r \in Run, Start(r)
      PROVE  message' \in [Run -> {Null} \cup 0..Expires]
  BY <1>2 DEF Start, TypeOK
<1>3. ASSUME Tick
      PROVE  message' \in [Run -> {Null} \cup 0..Expires]
  <2>1. ASSUME NEW r \in Run, message[r] \notin {Null, Expires}
        PROVE  message[r] + 1 \in 0..Expires
    <3>1. message[r] \in {Null} \cup 0..Expires
      BY DEF TypeOK
    <3>2. message[r] \in 0..Expires /\ message[r] # Expires
      BY <2>1, <3>1
    <3> HIDE DEF Null
    <3> QED
      BY <3>2, TimesAssumption
  <2>2. message' = [r \in Run |-> IF message[r] \in {Null, Expires} THEN Null
                                                                     ELSE message[r] + 1]
    BY <1>3 DEF Tick
  <2>3. \A r \in Run : (IF message[r] \in {Null, Expires} THEN Null ELSE message[r] + 1)
                           \in {Null} \cup 0..Expires
    <3>1. TAKE r \in Run
    <3>2. CASE message[r] \in {Null, Expires}
      BY <3>2
    <3>3. CASE message[r] \notin {Null, Expires}
      BY <2>1, <3>3
    <3> QED
      BY <3>2, <3>3
  <2> QED
    BY <2>2, <2>3
<1> QED
  BY <1>1, <1>2, <1>3

TypesKeep ==
    /\ task' \in [status : {"ACTIVE", "PAUSED", "DELETED"}, due : BOOLEAN]
    /\ run' \in [Run -> RunState]
    /\ finished' \in [Run -> {Null} \cup 0..MemoLimit]
    /\ unsent' \subseteq Run
    /\ message' \in [Run -> {Null} \cup 0..Expires]
    /\ TypesOfBeats'
    /\ executor' \in [Run -> ExecutorState]
    /\ memo' \in [Run -> {Null} \cup 0..MemoLimit]
    /\ stuck' \subseteq Run

LEMMA DispatcherTypes ==
    ASSUME TypeOK, NEW b \in Beat, NEW r \in Run,
           Claim(b) \/ DispatchFails(b) \/ Dispatch(b, r)
    PROVE  TypesKeep
<1>1. CASE Claim(b)
  BY <1>1, ClaimEffect, Typed DEF Claim, TypesKeep, TypesOfBeats
<1>2. CASE DispatchFails(b)
  BY <1>2, ReleaseEffect, Typed DEF DispatchFails, TypesKeep, TypesOfBeats
<1>3. CASE Dispatch(b, r)
  <2>1. run' \in [Run -> RunState]
    BY <1>3, InsertEffect, Statuses DEF Dispatch, OnlyStatus
  <2>5. finished' \in [Run -> {Null} \cup 0..MemoLimit]
    BY <1>3, SettleEffect DEF Dispatch, Insert
  <2>2. TypesOfBeats'
    BY <1>3, ReleaseEffect DEF Dispatch
  <2>3. task' \in [status : {"ACTIVE", "PAUSED", "DELETED"}, due : BOOLEAN]
    BY <1>3, TaskTypes
  <2>4. unsent' \subseteq Run
    BY <1>3 DEF Dispatch, TypeOK
  <2> QED
    BY <1>3, <2>1, <2>2, <2>3, <2>4, <2>5, Typed DEF Dispatch, TypesKeep, TypesOfBeats
<1> QED
  BY <1>1, <1>2, <1>3

LEMMA ExecutorTypes ==
    ASSUME TypeOK, NEW r \in Run, Start(r) \/ ExecutorStep(r) \/ Dies(r)
    PROVE  TypesKeep
<1>1. CASE Start(r)
  <2>1. executor' \in [Run -> ExecutorState]
    BY <1>1, GotoEffect, Typed DEF Start, Moved
  <2> QED
    BY <1>1, <2>1, MessageTypes, Typed DEF Start, TypesKeep, TypesOfBeats
<1>2. CASE Running(r)
  <2>1. run' \in [Run -> RunState] /\ executor' \in [Run -> ExecutorState]
    BY <1>2, MarkEffect, PcEffect, Statuses DEF Running, OnlyStatus, Moved
  <2>2. finished' \in [Run -> {Null} \cup 0..MemoLimit]
    BY <1>2, SettleEffect DEF Running, Mark
  <2> QED
    BY <1>2, <2>1, <2>2, Typed DEF Running, TypesKeep, TypesOfBeats
<1>3. CASE WakeFails(r)
  <2>1. run' \in [Run -> RunState] /\ executor' \in [Run -> ExecutorState]
    BY <1>3, MarkEffect, GotoEffect, Statuses DEF WakeFails, OnlyStatus, Moved
  <2>2. finished' \in [Run -> {Null} \cup 0..MemoLimit]
    BY <1>3, SettleEffect DEF WakeFails, Mark
  <2> QED
    BY <1>3, <2>1, <2>2, Typed DEF WakeFails, TypesKeep, TypesOfBeats
<1>4. CASE Open(r)
  <2>1. run' \in [Run -> RunState]
    BY <1>4, OpenEffect
  <2>2. executor' \in [Run -> ExecutorState]
    BY <1>4, PcEffect DEF Open, Moved
  <2> QED
    BY <1>4, <2>1, <2>2, Typed DEF Open, TypesKeep, TypesOfBeats
<1>5. CASE OpenFails(r)
  <2>1. run' \in [Run -> RunState] /\ executor' \in [Run -> ExecutorState]
    BY <1>5, MarkEffect, GotoEffect, Statuses, Typed DEF OpenFails, OnlyStatus, Moved
  <2>2. finished' \in [Run -> {Null} \cup 0..MemoLimit]
    BY <1>5, SettleEffect, Typed DEF OpenFails, Mark
  <2> QED
    BY <1>5, <2>1, <2>2, Typed DEF OpenFails, TypesKeep, TypesOfBeats
<1>6. CASE Finish(r)
  <2>1. run' \in [Run -> RunState] /\ executor' \in [Run -> ExecutorState]
    BY <1>6, MarkEffect, GotoEffect, Statuses DEF Finish, OnlyStatus, Moved
  <2>2. finished' \in [Run -> {Null} \cup 0..MemoLimit]
    BY <1>6, SettleEffect DEF Finish, Mark
  <2> QED
    BY <1>6, <2>1, <2>2, Typed DEF Finish, TypesKeep, TypesOfBeats
<1>7. CASE Dies(r)
  <2>1. executor' \in [Run -> ExecutorState]
    BY <1>7, GotoEffect DEF Dies, Moved
  <2> QED
    BY <1>7, <2>1, Typed DEF Dies, TypesKeep, TypesOfBeats
<1> QED
  BY <1>1, <1>2, <1>3, <1>4, <1>5, <1>6, <1>7 DEF ExecutorStep

LEMMA TypesStay ==
    ASSUME TypeOK, [Next]_vars
    PROVE  TypeOK'
<1>1. ASSUME TypesKeep
      PROVE  TypeOK'
  BY <1>1, FaultTypes DEF TypesKeep, TypeOK, RunState, Status, ExecutorState, BeatState,
                          TypesOfBeats, TypesOfFaults
<1>2. CASE UNCHANGED vars
  BY <1>2 DEF vars, TypeOK
<1>3. CASE FallsDue \/ \E status \in {"ACTIVE", "PAUSED", "DELETED"} : Update(status)
  <2>1. task' \in [status : {"ACTIVE", "PAUSED", "DELETED"}, due : BOOLEAN]
    BY <1>3, TaskTypes
  <2>2. TypesKeep
    BY <1>3, <2>1, Typed DEF FallsDue, Update, TypesKeep, TypesOfBeats
  <2> QED
    BY <1>1, <2>2
<1>4. CASE \E r \in Run : RunNow(r)
  <2>1. PICK r \in Run : RunNow(r)
    BY <1>4
  <2>2. run' \in [Run -> RunState]
    BY <2>1, InsertEffect, Statuses DEF RunNow, OnlyStatus
  <2>5. finished' \in [Run -> {Null} \cup 0..MemoLimit]
    BY <2>1, SettleEffect DEF RunNow, Insert
  <2>3. unsent' \subseteq Run
    BY <2>1 DEF RunNow, TypeOK
  <2>4. TypesKeep
    BY <2>1, <2>2, <2>3, <2>5, Typed DEF RunNow, TypesKeep, TypesOfBeats
  <2> QED
    BY <1>1, <2>4
<1>5. CASE \E r \in Run : Send(r) \/ SendFails(r)
  <2>1. PICK r \in Run : Send(r) \/ SendFails(r)
    BY <1>5
  <2>2. message' \in [Run -> {Null} \cup 0..Expires] /\ unsent' \subseteq Run
    BY <2>1, MessageTypes, Typed DEF Send, SendFails
  <2>3. TypesKeep
    BY <2>1, <2>2, Typed DEF Send, SendFails, TypesKeep, TypesOfBeats
  <2> QED
    BY <1>1, <2>3
<1>6. CASE \E b \in Beat : Claim(b) \/ DispatchFails(b) \/ \E r \in Run : Dispatch(b, r)
  <2>1. PICK b \in Beat : Claim(b) \/ DispatchFails(b) \/ \E r \in Run : Dispatch(b, r)
    BY <1>6
  <2>2. CASE \E r \in Run : Dispatch(b, r)
    BY <1>1, <2>2, DispatcherTypes
  <2>3. CASE Claim(b)
    <3>1. TypesKeep
      BY <2>3, ClaimEffect, Typed DEF Claim, TypesKeep, TypesOfBeats
    <3> QED
      BY <1>1, <3>1
  <2>4. CASE DispatchFails(b)
    <3>1. TypesKeep
      BY <2>4, ReleaseEffect, Typed DEF DispatchFails, TypesKeep, TypesOfBeats
    <3> QED
      BY <1>1, <3>1
  <2> QED
    BY <2>1, <2>2, <2>3, <2>4
<1>7. CASE \E r \in Run : Start(r) \/ ExecutorStep(r) \/ Dies(r)
  BY <1>1, <1>7, ExecutorTypes
<1>8. CASE FindStuck \/ SweepFails
  <2>1. TypesKeep
    BY <1>8, Typed DEF FindStuck, SweepFails, TypesKeep, TypesOfBeats
  <2> QED
    BY <1>1, <2>1
<1>9. CASE MarkStuck
  <2>2. finished' \in [Run -> {Null} \cup 0..MemoLimit]
    BY <1>9, SettleEffect DEF MarkStuck
  <2>1. TypesKeep
    BY <1>9, <2>2, MarkStuckEffect, Typed DEF MarkStuck, TypesKeep, TypesOfBeats
  <2> QED
    BY <1>1, <2>1
<1>10. CASE Tick
  <2>1. TypesKeep
    BY <1>10, TickRuns, TickExecutors, TickGate, MessageTypes, Typed
       DEF Tick, TypesKeep, TypesOfBeats
  <2> QED
    BY <1>1, <2>1
<1>11. CASE \E r \in Run : GateLooks(r) \/ GateForgets(r)
  <2>1. memo' \in [Run -> {Null} \cup 0..MemoLimit]
    BY <1>11, Times DEF GateLooks, GateForgets, TypeOK
  <2>2. TypesKeep
    BY <1>11, <2>1, Typed DEF GateLooks, GateForgets, TypesKeep, TypesOfBeats
  <2> QED
    BY <1>1, <2>2
<1> QED
  BY <1>2, <1>3, <1>4, <1>5, <1>6, <1>7, <1>8, <1>9, <1>10, <1>11 DEF Next, SweepStep

-----------------------------------------------------------------------------
(* Time keeps the sweep from the rows that are worked on                     *)

LEMMA Ages ==
    ASSUME TypeOK, NEW r \in Run
    PROVE  /\ run[r].age \in Nat /\ run[r].age <= Oldest
           /\ executor[r].time \in Nat /\ executor[r].time <= WakeLimit + TurnLimit
           /\ run[r].status \in Status
           /\ executor[r].pc \in {"off", "wake", "open", "drive"}
           /\ message[r] # Null => message[r] \in 0..Expires
<1>1. run[r] \in RunState /\ executor[r] \in ExecutorState
  BY Typed
<1>2. message[r] \in {Null} \cup 0..Expires
  BY DEF TypeOK
<1> QED
  BY <1>1, <1>2, Times DEF RunState, ExecutorState

\* Where nothing happens nothing changes.
LEMMA Untouched ==
    ASSUME NEW r \in Run, Timely(r),
           run'[r] = run[r], message'[r] = message[r], executor'[r] = executor[r],
           r \in unsent' => r \in unsent, r \in stuck' => r \in stuck
    PROVE  Timely(r)'
BY DEF Timely, Absent, Waits, Works, StuckLeft

LEMMA InsertedOnTime ==
    ASSUME TypeOK, \A s \in Run : Timely(s), NEW r \in Run, NEW status \in {"QUEUED", "SKIPPED"},
           Insert(r, status),
           unsent' = IF status = "QUEUED" THEN unsent \cup {r} ELSE unsent,
           UNCHANGED <<message, executor, stuck>>
    PROVE  \A s \in Run : Timely(s)'
<1>1. run[r].status = "absent" /\ OnlyStatus(r, status)
  BY InsertEffect, Statuses
<1>2. /\ run[r].age = 0 /\ ~run[r].session
      /\ r \notin unsent /\ message[r] = Null /\ executor[r].pc = "off" /\ r \notin stuck
  BY <1>1 DEF Timely, Absent
<1>3. Timely(r)'
  <2>1. run'[r].status = status /\ run'[r].age = 0 /\ ~run'[r].session
    BY <1>1, <1>2 DEF OnlyStatus
  <2>2. message'[r] = Null /\ executor'[r].pc = "off" /\ r \notin stuck'
    BY <1>2
  <2>3. r \in unsent' => status = "QUEUED"
    BY <1>2
  <2> QED
    BY <2>1, <2>2, <2>3 DEF Timely, Absent, Waits, Works, StuckLeft
<1>4. ASSUME NEW s \in Run \ {r}
      PROVE  Timely(s)'
  BY <1>1, <1>4, Untouched DEF OnlyStatus
<1> QED
  BY <1>3, <1>4

LEMMA SentOnTime ==
    ASSUME TypeOK, \A s \in Run : Timely(s), NEW r \in Run, Send(r) \/ SendFails(r)
    PROVE  \A s \in Run : Timely(s)'
<1>1. /\ run[r].age = 0 /\ message[r] = Null
      /\ run[r].status = "QUEUED" /\ ~run[r].session
      /\ executor[r].pc = "off" /\ r \notin stuck
  BY DEF Timely, Waits, Send, SendFails
<1>2. /\ r \notin unsent' /\ UNCHANGED <<run, executor, stuck>>
      /\ \A s \in Run \ {r} : message'[s] = message[s] /\ (s \in unsent' => s \in unsent)
      /\ message'[r] \in {Null, 0}
  BY <1>1 DEF Send, SendFails, TypeOK
<1>3. Timely(r)'
  BY <1>1, <1>2 DEF Timely, Absent, Waits, Works, StuckLeft
<1>4. ASSUME NEW s \in Run \ {r}
      PROVE  Timely(s)'
  BY <1>2, <1>4, Untouched
<1> QED
  BY <1>3, <1>4

LEMMA StartedOnTime ==
    ASSUME TypeOK, \A s \in Run : Timely(s), NEW r \in Run, Start(r)
    PROVE  \A s \in Run : Timely(s)'
<1>1. /\ run[r].age = message[r] /\ run[r].status = "QUEUED" /\ ~run[r].session
      /\ r \notin unsent /\ r \notin stuck
  BY DEF Timely, Waits, Start
<1>2. run[r].age <= QueuedLimit
  <2>1. message[r] \in 0..Expires
    BY Ages DEF Start
  <2> HIDE DEF Null
  <2> QED
    BY <1>1, <2>1, TimesAssumption
<1>3. /\ Moved(r, "wake", 0)
      /\ message'[r] = Null /\ \A s \in Run \ {r} : message'[s] = message[s]
      /\ UNCHANGED <<run, unsent, stuck>>
  BY <1>1, GotoEffect DEF Start, Actionable, TypeOK
<1>4. 0 <= WakeLimit
  BY TimesAssumption
<1>5. Timely(r)'
  <2>1. executor'[r].pc = "wake" /\ executor'[r].time = 0 /\ message'[r] = Null
    BY <1>3 DEF Moved
  <2> QED
    BY <1>1, <1>2, <1>3, <1>4, <2>1 DEF Timely, Absent, Waits, Works, StuckLeft
<1>6. ASSUME NEW s \in Run \ {r}
      PROVE  Timely(s)'
  BY <1>3, <1>6, Untouched DEF Moved
<1> QED
  BY <1>5, <1>6

\* Each step of an executor leaves the row as far as it says.
LEMMA ExecutedOnTime ==
    ASSUME TypeOK, \A s \in Run : Timely(s), NEW r \in Run, ExecutorStep(r) \/ Dies(r)
    PROVE  \A s \in Run : Timely(s)'
<1>1. /\ executor[r].pc # "off"
      /\ UNCHANGED <<unsent, message, stuck>>
  BY DEF ExecutorStep, Running, WakeFails, Open, OpenFails, Finish, Dies
<1>2. r \notin stuck /\ r \notin unsent /\ message[r] = Null /\ run[r].status \in InFlight
  BY <1>1, Ages, Statuses DEF Timely, Waits, Works
<1>3. CASE Running(r)
  <2>1. /\ run[r].status = "QUEUED" /\ ~run[r].session
        /\ run[r].age <= QueuedLimit /\ executor[r].time <= WakeLimit
    BY <1>3 DEF Timely, Works, Running
  <2>2. OnlyStatus(r, "RUNNING") /\ Moved(r, "open", executor[r].time)
    BY <1>3, MarkEffect, PcEffect, Statuses DEF Running
  <2>3. run[r].age <= QueuedLimit + executor[r].time
    BY <2>1, Ages, TimesAssumption
  <2>4. /\ run'[r].status = "RUNNING" /\ ~run'[r].session /\ run'[r].age = run[r].age
        /\ executor'[r].pc = "open" /\ executor'[r].time = executor[r].time
    BY <2>1, <2>2 DEF OnlyStatus, Moved
  <2>5. Timely(r)'
    BY <1>1, <1>2, <2>1, <2>3, <2>4, Statuses DEF Timely, Absent, Waits, Works, StuckLeft
  <2>6. ASSUME NEW s \in Run \ {r}
        PROVE  Timely(s)'
    BY <1>1, <2>2, <2>6, Untouched DEF OnlyStatus, Moved
  <2> QED
    BY <2>5, <2>6
<1>4. CASE Open(r)
  <2>1. /\ run[r].age <= QueuedLimit + executor[r].time
    BY <1>4 DEF Timely, Works, Open
  <2>2. Moved(r, "drive", executor[r].time)
    BY <1>4, PcEffect DEF Open
  <2>3. /\ run'[r].status = "RUNNING" /\ run'[r].session /\ run'[r].age = run[r].age
        /\ executor'[r].pc = "drive" /\ executor'[r].time = executor[r].time
    BY <1>4, <2>2, OpenEffect DEF Moved
  <2>4. Timely(r)'
    BY <1>1, <1>2, <2>1, <2>3, Statuses DEF Timely, Absent, Waits, Works, StuckLeft
  <2>5. ASSUME NEW s \in Run \ {r}
        PROVE  Timely(s)'
    BY <1>1, <1>4, <2>2, <2>5, OpenEffect, Untouched DEF Moved
  <2> QED
    BY <2>4, <2>5
<1>5. CASE WakeFails(r) \/ OpenFails(r) \/ Finish(r)
  <2>1. PICK status \in Terminal : OnlyStatus(r, status)
    BY <1>2, <1>5, MarkEffect, Statuses DEF WakeFails, OpenFails, Finish, Status
  <2>2. Moved(r, "off", 0)
    BY <1>5, GotoEffect DEF WakeFails, OpenFails, Finish
  <2>3. run'[r].status = status /\ executor'[r].pc = "off"
    BY <2>1, <2>2 DEF OnlyStatus, Moved
  <2>4. Timely(r)'
    BY <1>1, <1>2, <2>1, <2>3, Statuses DEF Timely, Absent, Waits, Works, StuckLeft
  <2>5. ASSUME NEW s \in Run \ {r}
        PROVE  Timely(s)'
    BY <1>1, <2>1, <2>2, <2>5, Untouched DEF OnlyStatus, Moved
  <2> QED
    BY <2>4, <2>5
<1>6. CASE Dies(r)
  <2>1. Moved(r, "off", 0) /\ UNCHANGED run
    BY <1>6, GotoEffect DEF Dies
  <2>2. executor'[r].pc = "off"
    BY <2>1 DEF Moved
  <2>3. Timely(r)'
    BY <1>1, <1>2, <2>1, <2>2, Statuses DEF Timely, Absent, Waits, Works, StuckLeft
  <2>4. ASSUME NEW s \in Run \ {r}
        PROVE  Timely(s)'
    BY <1>1, <2>1, <2>4, Untouched DEF Moved
  <2> QED
    BY <2>3, <2>4
<1> QED
  BY <1>3, <1>4, <1>5, <1>6 DEF ExecutorStep

\* What the sweep reads is not on its way, and nobody works on it.
LEMMA FoundOnTime ==
    ASSUME TypeOK, \A s \in Run : Timely(s), FindStuck
    PROVE  \A s \in Run : Timely(s)'
<1> TAKE r \in Run
<1>1. UNCHANGED <<run, unsent, message, executor>> /\ (r \in stuck' => Stuck(r))
  BY DEF FindStuck
<1>2. Timely(r)
  OBVIOUS
<1>3. CASE r \in stuck'
  <2>1. CASE run[r].status = "QUEUED" /\ run[r].age > QueuedLimit
    <3>1. r \notin unsent
      BY <1>2, <2>1, Ages, TimesAssumption DEF Timely, Waits
    <3>2. message[r] = Null
      <4>1. SUFFICES ASSUME message[r] # Null
                     PROVE  FALSE
        OBVIOUS
      <4>2. run[r].age = message[r] /\ message[r] \in 0..Expires
        BY <1>2, <4>1, Ages DEF Timely, Waits
      <4> HIDE DEF Null
      <4> QED
        BY <2>1, <4>2, TimesAssumption
    <3>3. executor[r].pc = "off"
      BY <1>2, <2>1, Ages, TimesAssumption DEF Timely, Works
    <3> QED
      BY <1>1, <1>2, <2>1, <3>1, <3>2, <3>3, Statuses DEF Timely, Absent, Waits, Works, StuckLeft
  <2>2. CASE run[r].status = "RUNNING" /\ run[r].age > RunningLimit
    <3>1. r \notin unsent /\ message[r] = Null
      BY <1>2, <2>2 DEF Timely, Waits
    <3>2. executor[r].pc \in {"open", "drive"} =>
              run[r].age <= QueuedLimit + executor[r].time
      BY <1>2 DEF Timely, Works
    <3>3. QueuedLimit + executor[r].time <= RunningLimit
      BY Ages, TimesAssumption
    <3>4. executor[r].pc \notin {"open", "drive"}
      <4>1. run[r].age \in Nat /\ executor[r].time \in Nat
        BY Ages
      <4> QED
        BY <2>2, <3>2, <3>3, <4>1, TimesAssumption
    <3>5. executor[r].pc = "off"
      BY <1>2, <2>2, <3>4, Ages DEF Timely, Works
    <3> QED
      BY <1>1, <1>2, <2>2, <3>1, <3>5, Statuses DEF Timely, Absent, Waits, Works, StuckLeft
  <2> QED
    BY <1>1, <1>3, <2>1, <2>2 DEF Stuck
<1>4. CASE r \notin stuck'
  BY <1>1, <1>2, <1>4, Untouched
<1> QED
  BY <1>3, <1>4

LEMMA MarkedOnTime ==
    ASSUME TypeOK, \A s \in Run : Timely(s), MarkStuck
    PROVE  \A s \in Run : Timely(s)'
<1> TAKE r \in Run
<1>1. UNCHANGED <<unsent, message, executor>> /\ r \notin stuck'
  BY DEF MarkStuck
<1>2. Timely(r)
  OBVIOUS
<1>3. CASE r \in stuck
  <2>1. r \notin unsent /\ message[r] = Null /\ executor[r].pc = "off"
    BY <1>2, <1>3 DEF Timely, Waits, Works
  <2>2. run'[r].status = "FAILED"
    BY <1>3, MarkStuckEffect
  <2> QED
    BY <1>1, <2>1, <2>2 DEF Timely, Absent, Waits, Works, StuckLeft
<1>4. CASE r \notin stuck
  <2>1. /\ run'[r].status = run[r].status /\ run'[r].age = run[r].age
        /\ run'[r].session = run[r].session
    BY <1>4, MarkStuckEffect
  <2> QED
    BY <1>1, <1>2, <2>1 DEF Timely, Absent, Waits, Works, StuckLeft
<1> QED
  BY <1>3, <1>4

LEMMA TickedOnTime ==
    ASSUME TypeOK, \A s \in Run : Timely(s), Tick, \A s \in Run : InTime(s)
    PROVE  \A s \in Run : Timely(s)'
<1> TAKE r \in Run
<1>1. Timely(r) /\ InTime(r) /\ TimeLeft(r) /\ UNCHANGED <<unsent, stuck>>
  BY DEF Tick
<1>2. /\ run'[r].status = run[r].status /\ run'[r].session = run[r].session
      /\ run[r].status = "absent" => run'[r].age = run[r].age
      /\ run'[r].age <= run[r].age + 1
      /\ run[r].status # "absent" /\ run[r].age # Oldest => run'[r].age = run[r].age + 1
      /\ executor'[r].pc = executor[r].pc
      /\ executor[r].pc # "off" => executor'[r].time = executor[r].time + 1
      /\ run'[r].age \in Nat
  BY TickRuns, TickExecutors, Times DEF RunState
<1>3. message'[r] = IF message[r] \in {Null, Expires} THEN Null ELSE message[r] + 1
  BY DEF Tick
<1>4. r \notin unsent' /\ (message'[r] # Null => message[r] # Null)
  BY <1>1, <1>3 DEF InTime
<1>5. Absent(r)'
  BY <1>1, <1>2, <1>3, <1>4 DEF Timely, Absent
<1>6. Waits(r)'
  <2>1. CASE message'[r] = Null
    BY <1>4, <2>1 DEF Waits
  <2>2. CASE message'[r] # Null
    <3>1. message[r] \notin {Null, Expires} /\ message'[r] = message[r] + 1
      BY <1>3, <2>2
    <3>2. /\ run[r].age = message[r] /\ run[r].status = "QUEUED" /\ ~run[r].session
          /\ executor[r].pc = "off" /\ r \notin stuck
      BY <1>1, <3>1 DEF Timely, Waits
    <3>3. run[r].age # Oldest
      <4>1. message[r] \in 0..Expires
        BY <3>1, Ages
      <4> HIDE DEF Null
      <4> QED
        BY <3>2, <4>1, Times, TimesAssumption
    <3>4. run'[r].age = message'[r]
      BY <1>2, <3>1, <3>2, <3>3
    <3> QED
      BY <1>1, <1>2, <1>4, <3>2, <3>4 DEF Waits
  <2> QED
    BY <2>1, <2>2
<1>7. Works(r)'
  <2>0. run[r].age \in Nat /\ executor[r].time \in Nat
    BY Ages
  <2>1. CASE executor[r].pc = "off"
    BY <1>2, <2>1 DEF Works
  <2>2. CASE executor[r].pc = "wake"
    <3>1. /\ run[r].status = "QUEUED" /\ ~run[r].session /\ r \notin stuck
          /\ run[r].age < QueuedLimit /\ executor[r].time < WakeLimit
      BY <1>1, <2>2 DEF Timely, Works, InTime, TimeLeft
    <3>2. run'[r].age <= QueuedLimit
      BY <1>2, <2>0, <3>1, TimesAssumption
    <3>3. executor'[r].time <= WakeLimit
      BY <1>2, <2>0, <2>2, <3>1, TimesAssumption
    <3> QED
      BY <1>1, <1>2, <2>2, <3>1, <3>2, <3>3 DEF Works
  <2>3. CASE executor[r].pc = "open"
    <3>1. /\ run[r].status = "RUNNING" /\ ~run[r].session /\ r \notin stuck
          /\ run[r].age <= QueuedLimit + executor[r].time /\ executor[r].time < WakeLimit
      BY <1>1, <2>3 DEF Timely, Works, TimeLeft
    <3>2. executor'[r].time = executor[r].time + 1
      BY <1>2, <2>3
    <3>3. run'[r].age <= QueuedLimit + executor'[r].time
      BY <1>2, <2>0, <3>1, <3>2, TimesAssumption
    <3>4. executor'[r].time <= WakeLimit
      BY <2>0, <3>1, <3>2, TimesAssumption
    <3> QED
      BY <1>1, <1>2, <2>3, <3>1, <3>3, <3>4 DEF Works
  <2>4. CASE executor[r].pc = "drive"
    <3>1. /\ run[r].status = "RUNNING" /\ run[r].session /\ r \notin stuck
          /\ run[r].age <= QueuedLimit + executor[r].time
      BY <1>1, <2>4 DEF Timely, Works
    <3>2. executor'[r].time = executor[r].time + 1
      BY <1>2, <2>4
    <3>3. run'[r].age <= QueuedLimit + executor'[r].time
      BY <1>2, <2>0, <3>1, <3>2, TimesAssumption
    <3> QED
      BY <1>1, <1>2, <2>4, <3>1, <3>3 DEF Works
  <2> QED
    BY <2>1, <2>2, <2>3, <2>4, Ages
<1>8. StuckLeft(r)'
  BY <1>1, <1>2 DEF Timely, StuckLeft
<1> QED
  BY <1>5, <1>6, <1>7, <1>8 DEF Timely

LEMMA OnTimeStays ==
    ASSUME TypeOK, OnTime, [Next]_vars
    PROVE  OnTime'
<1>1. CASE Shown({"late"})
  BY <1>1, FaultsStay DEF OnTime
<1>2. CASE \A s \in Run : Timely(s)
  <2>1. CASE UNCHANGED vars
    BY <1>2, <2>1 DEF vars, OnTime, Timely, Absent, Waits, Works, StuckLeft
  <2>2. CASE \/ FallsDue \/ SweepFails
             \/ \E status \in {"ACTIVE", "PAUSED", "DELETED"} : Update(status)
             \/ \E b \in Beat : Claim(b) \/ DispatchFails(b)
             \/ \E r \in Run : GateLooks(r) \/ GateForgets(r)
    <3>1. UNCHANGED <<run, unsent, message, executor>> /\ stuck' \subseteq stuck
      BY <2>2 DEF FallsDue, SweepFails, Update, Claim, DispatchFails, GateLooks, GateForgets
    <3> QED
      BY <1>2, <3>1, Untouched DEF OnTime
  <2>3. CASE \E r \in Run : RunNow(r)
    BY <1>2, <2>3, InsertedOnTime DEF RunNow, OnTime
  <2>4. CASE \E b \in Beat, r \in Run : Dispatch(b, r)
    <3>1. PICK b \in Beat, r \in Run : Dispatch(b, r)
      BY <2>4
    <3>2. CASE beat[b].prior
      BY <1>2, <3>1, <3>2, InsertedOnTime DEF Dispatch, OnTime
    <3>3. CASE ~beat[b].prior
      BY <1>2, <3>1, <3>3, InsertedOnTime DEF Dispatch, OnTime
    <3> QED
      BY <3>2, <3>3
  <2>5. CASE \E r \in Run : Send(r) \/ SendFails(r)
    BY <1>2, <2>5, SentOnTime DEF OnTime
  <2>6. CASE \E r \in Run : Start(r) \/ ExecutorStep(r) \/ Dies(r)
    BY <1>2, <2>6, StartedOnTime, ExecutedOnTime DEF OnTime
  <2>7. CASE SweepStep
    BY <1>2, <2>7, FoundOnTime, MarkedOnTime DEF SweepStep, OnTime
  <2>8. CASE Tick
    <3>1. CASE \A s \in Run : InTime(s)
      BY <1>2, <2>8, <3>1, TickedOnTime DEF OnTime
    <3>2. CASE ~\A s \in Run : InTime(s)
      <4>1. Fault("late")
        BY <2>8, <3>2 DEF Tick, Unless
      <4> QED
        BY <4>1, FaultEffect DEF OnTime, Shown
    <3> QED
      BY <3>1, <3>2
  <2> QED
    BY <2>1, <2>2, <2>3, <2>4, <2>5, <2>6, <2>7, <2>8 DEF Next
<1> QED
  BY <1>1, <1>2 DEF OnTime

-----------------------------------------------------------------------------
(* One claim, one run in flight                                              *)

LEMMA OneClaimStays ==
    ASSUME TypeOK, OneClaim, [Next]_vars
    PROVE  OneClaim'
<1>1. CASE UNCHANGED beat
  BY <1>1 DEF OneClaim
<1>2. ASSUME NEW b \in Beat, Claim(b)
      PROVE  OneClaim'
  <2>1. \A c \in Beat : ~beat[c].claimed
    BY <1>2 DEF Claim, Claimable, Locked
  <2>2. \A c \in Beat \ {b} : beat'[c] = beat[c]
    BY <1>2, ClaimEffect
  <2> QED
    BY <2>1, <2>2 DEF OneClaim
<1>3. ASSUME NEW b \in Beat, Release(b)
      PROVE  OneClaim'
  <2>1. ~beat'[b].claimed /\ \A c \in Beat \ {b} : beat'[c] = beat[c]
    BY <1>3, ReleaseEffect
  <2> QED
    BY <2>1 DEF OneClaim
<1>4. UNCHANGED beat \/ \E b \in Beat : Claim(b) \/ Release(b)
  BY DEF Next, vars, FallsDue, Update, RunNow, Send, SendFails, DispatchFails,
         Dispatch, Start, ExecutorStep, Running, WakeFails, Open, OpenFails, Finish, Dies,
         SweepStep, FindStuck, MarkStuck, SweepFails, GateLooks, GateForgets, Tick
<1> QED
  BY <1>1, <1>2, <1>3, <1>4

OneRun ==
    /\ \A r, s \in Run : run[r].status \in InFlight /\ run[s].status \in InFlight => r = s
    /\ \A b \in Beat : beat[b].claimed /\ ~beat[b].prior => ~PriorInFlight

\* No more runs are in flight, and no tick claims.
LEMMA FewerRuns ==
    ASSUME OneRun, \A r \in Run : run'[r].status \in InFlight => run[r].status \in InFlight,
           \A b \in Beat : beat'[b] = beat[b] \/ ~beat'[b].claimed
    PROVE  OneRun'
BY DEF OneRun, PriorInFlight

LEMMA ExecutorFlies ==
    ASSUME TypeOK, \A s \in Run : Timely(s), NEW r \in Run, Start(r) \/ ExecutorStep(r) \/ Dies(r)
    PROVE  \A s \in Run : run'[s].status \in InFlight => run[s].status \in InFlight
<1>1. CASE Start(r) \/ Dies(r)
  BY <1>1 DEF Start, Dies
<1>2. CASE ExecutorStep(r)
  <2>1. executor[r].pc \in {"wake", "open", "drive"}
    BY <1>2 DEF ExecutorStep, Running, WakeFails, Open, OpenFails, Finish
  <2>2. run[r].status \in InFlight
    BY <2>1, Statuses DEF Timely, Works
  <2>3. \A s \in Run \ {r} : run'[s] = run[s]
    <3>1. CASE Open(r)
      BY <3>1, OpenEffect
    <3>2. CASE Running(r) \/ WakeFails(r) \/ OpenFails(r) \/ Finish(r)
      <4>1. UNCHANGED run \/ \E status \in Status : Mark(r, status)
        BY <3>2, Statuses DEF Running, WakeFails, OpenFails, Finish
      <4> QED
        BY <4>1, MarkEffect DEF OnlyStatus
    <3> QED
      BY <1>2, <3>1, <3>2 DEF ExecutorStep
  <2> QED
    BY <2>2, <2>3
<1> QED
  BY <1>1, <1>2

LEMMA DispatchFlies ==
    ASSUME TypeOK, OneRun, OneClaim, NEW b \in Beat, NEW r \in Run, Dispatch(b, r)
    PROVE  OneRun'
<1>1. /\ ~beat'[b].claimed
      /\ \A c \in Beat \ {b} : beat'[c] = beat[c] /\ ~beat[c].claimed
  BY ReleaseEffect DEF Dispatch, OneClaim
<1>2. \A c \in Beat : ~beat'[c].claimed
  BY <1>1
<1>3. CASE beat[b].prior
  <2>1. OnlyStatus(r, "SKIPPED")
    BY <1>3, InsertEffect, Statuses DEF Dispatch
  <2>2. \A s \in Run : run'[s].status \in InFlight => run[s].status \in InFlight
    BY <2>1, Statuses DEF OnlyStatus
  <2> QED
    BY <1>2, <2>2, FewerRuns
<1>4. CASE ~beat[b].prior
  <2>1. OnlyStatus(r, "QUEUED")
    BY <1>4, InsertEffect, Statuses DEF Dispatch
  <2>2. \A s \in Run : run[s].status \notin InFlight
    BY <1>4 DEF Dispatch, OneRun, PriorInFlight
  <2>3. \A s \in Run \ {r} : run'[s].status \notin InFlight
    BY <2>1, <2>2 DEF OnlyStatus
  <2> QED
    BY <1>2, <2>3 DEF OneRun
<1> QED
  BY <1>3, <1>4

LEMMA OneInFlightStays ==
    ASSUME TypeOK, OnTime, OneClaim, OneInFlight, [Next]_vars
    PROVE  OneInFlight'
<1>1. CASE Shown({"manual", "late"})
  BY <1>1, FaultsStay DEF OneInFlight
<1>2. CASE OneRun /\ ~Shown({"manual", "late"})
  <2>0. \A s \in Run : Timely(s)
    BY <1>2 DEF OnTime, Shown
  <2>1. ASSUME UNCHANGED <<run, beat>>
        PROVE  OneRun'
    BY <1>2, <2>1 DEF OneRun, PriorInFlight
  <2>2. CASE \/ UNCHANGED vars \/ FallsDue \/ SweepFails \/ FindStuck
             \/ \E status \in {"ACTIVE", "PAUSED", "DELETED"} : Update(status)
             \/ \E r \in Run : Send(r) \/ SendFails(r) \/ GateLooks(r) \/ GateForgets(r)
    <3>1. UNCHANGED <<run, beat>>
      BY <2>2 DEF vars, FallsDue, SweepFails, FindStuck, Update, Send, SendFails, GateLooks,
                  GateForgets
    <3> QED
      BY <2>1, <3>1 DEF OneInFlight, OneRun
  <2>3. CASE \E r \in Run : RunNow(r)
    <3>1. PICK r \in Run : RunNow(r)
      BY <2>3
    <3>2. CASE ~PriorInFlight
      <4>1. OnlyStatus(r, "QUEUED") /\ UNCHANGED beat
        BY <3>1, InsertEffect, Statuses DEF RunNow
      <4>2. \A s \in Run \ {r} : run'[s].status \notin InFlight
        BY <3>2, <4>1 DEF OnlyStatus, PriorInFlight
      <4>3. \A b \in Beat : ~beat'[b].claimed
        BY <3>1, <4>1 DEF RunNow, Locked
      <4> QED
        BY <4>2, <4>3 DEF OneInFlight
    <3>3. CASE PriorInFlight
      <4>1. Fault("manual")
        BY <3>1, <3>3 DEF RunNow, Unless
      <4> QED
        BY <4>1, FaultEffect DEF OneInFlight, Shown
    <3> QED
      BY <3>2, <3>3
  <2>4. CASE \E b \in Beat : Claim(b)
    <3>1. PICK b \in Beat : Claim(b)
      BY <2>4
    <3>2. /\ UNCHANGED run
          /\ beat'[b].prior <=> PriorInFlight
          /\ \A c \in Beat \ {b} : beat'[c] = beat[c]
      BY <3>1, ClaimEffect DEF Claim
    <3>3. PriorInFlight' <=> PriorInFlight
      BY <3>2 DEF PriorInFlight
    <3>4. \A c \in Beat \ {b} : ~beat'[c].claimed
      BY <3>1, <3>2 DEF Claim, Claimable, Locked
    <3> QED
      BY <1>2, <3>2, <3>3, <3>4 DEF OneInFlight, OneRun
  <2>5. CASE \E b \in Beat : DispatchFails(b)
    <3>1. UNCHANGED run /\ \A b \in Beat : beat'[b] = beat[b] \/ ~beat'[b].claimed
      BY <2>5, ReleaseEffect DEF DispatchFails
    <3> QED
      BY <1>2, <3>1, FewerRuns DEF OneInFlight, OneRun
  <2>6. CASE \E b \in Beat, r \in Run : Dispatch(b, r)
    BY <1>2, <2>6, DispatchFlies DEF OneInFlight, OneRun
  <2>7. CASE \E r \in Run : Start(r) \/ ExecutorStep(r) \/ Dies(r)
    <3>1. UNCHANGED beat
      BY <2>7 DEF Start, ExecutorStep, Running, WakeFails, Open, OpenFails, Finish, Dies
    <3>2. \A s \in Run : run'[s].status \in InFlight => run[s].status \in InFlight
      BY <2>0, <2>7, ExecutorFlies
    <3> QED
      BY <1>2, <3>1, <3>2, FewerRuns DEF OneInFlight, OneRun
  <2>8. CASE MarkStuck
    <3>1. UNCHANGED beat
      BY <2>8 DEF MarkStuck
    <3>2. \A s \in Run : run'[s].status \in InFlight => run[s].status \in InFlight
      BY <2>8, MarkStuckEffect, Statuses
    <3> QED
      BY <1>2, <3>1, <3>2, FewerRuns DEF OneInFlight, OneRun
  <2>9. CASE Tick
    <3>1. UNCHANGED beat
      BY <2>9 DEF Tick
    <3>2. \A s \in Run : run'[s].status \in InFlight => run[s].status \in InFlight
      BY <2>9, TickRuns
    <3> QED
      BY <1>2, <3>1, <3>2, FewerRuns DEF OneInFlight, OneRun
  <2> QED
    BY <2>2, <2>3, <2>4, <2>5, <2>6, <2>7, <2>8, <2>9 DEF Next, SweepStep
<1> QED
  BY <1>1, <1>2 DEF OneInFlight, OneRun

-----------------------------------------------------------------------------
(* Grants end with the run                                                   *)

\* A row, its executor and what the gate remembers of it are left alone.
Same(r) ==
    /\ run'[r] = run[r] /\ finished'[r] = finished[r] /\ memo'[r] = memo[r]
    /\ message'[r] = message[r] /\ executor'[r] = executor[r]
    /\ r \in unsent' => r \in unsent
    /\ r \in stuck' => r \in stuck

LEMMA SameGranted ==
    ASSUME TypeOK, [Next]_vars, NEW r \in Run, Granted(r), Same(r)
    PROVE  Granted(r)'
<1>1. Shown({"dies"}) => Shown({"dies"})'
  BY FaultsStay
<1> QED
  BY <1>1 DEF Same, Granted, OneWay, LetGo, FromBefore, PreApproves

LEMMA InsertedGranted ==
    ASSUME TypeOK, GrantsHeld, [Next]_vars, NEW r \in Run, NEW status \in {"QUEUED", "SKIPPED"},
           Insert(r, status), unsent' \subseteq unsent \cup {r},
           UNCHANGED <<message, executor, memo, stuck>>
    PROVE  GrantsHeld'
<1>1. run[r].status = "absent" /\ OnlyStatus(r, status)
  BY InsertEffect, Statuses
<1>2. /\ Granted(r) /\ message[r] = Null /\ executor[r].pc = "off" /\ ~run[r].session
      /\ r \notin stuck
  BY <1>1 DEF GrantsHeld, Granted, OneWay
<1>3. memo[r] = Null
  BY <1>2 DEF Granted, FromBefore
<1>4. run'[r].status = status /\ ~run'[r].session
  BY <1>1, <1>2 DEF OnlyStatus
<1>5. Granted(r)'
  BY <1>2, <1>3, <1>4 DEF Granted, OneWay, LetGo, FromBefore, PreApproves
<1>6. ASSUME NEW s \in Run \ {r}
      PROVE  Granted(s)'
  <2>1. finished'[s] = finished[s]
    BY <1>6, SettleEffect DEF Insert
  <2>2. Same(s)
    BY <1>1, <1>6, <2>1 DEF OnlyStatus, Same
  <2> QED
    BY <2>2, SameGranted DEF GrantsHeld
<1> QED
  BY <1>5, <1>6 DEF GrantsHeld

LEMMA SentGranted ==
    ASSUME TypeOK, GrantsHeld, [Next]_vars, NEW r \in Run, Send(r) \/ SendFails(r)
    PROVE  GrantsHeld'
<1>1. /\ Granted(r) /\ executor[r].pc = "off" /\ ~run[r].session /\ r \in unsent
      /\ run[r].status # "absent"
  BY DEF GrantsHeld, Granted, OneWay, Send, SendFails
<1>2. /\ r \notin unsent' /\ UNCHANGED <<run, finished, executor, memo, stuck>>
      /\ \A s \in Run \ {r} : message'[s] = message[s] /\ (s \in unsent' => s \in unsent)
  BY DEF Send, SendFails, TypeOK
<1>3. memo[r] = Null
  BY <1>1 DEF Granted, FromBefore
<1>4. Granted(r)'
  BY <1>1, <1>2, <1>3 DEF Granted, OneWay, LetGo, FromBefore, PreApproves
<1>5. ASSUME NEW s \in Run \ {r}
      PROVE  Granted(s)'
  BY <1>2, <1>5, SameGranted DEF Same, GrantsHeld
<1> QED
  BY <1>4, <1>5 DEF GrantsHeld

LEMMA StartedGranted ==
    ASSUME TypeOK, GrantsHeld, [Next]_vars, NEW r \in Run, Start(r)
    PROVE  GrantsHeld'
<1>1. /\ Granted(r) /\ executor[r].pc = "off" /\ ~run[r].session /\ r \notin unsent
      /\ run[r].status # "absent"
  BY DEF GrantsHeld, Granted, OneWay, Start
<1>2. /\ UNCHANGED <<run, finished, unsent, memo, stuck>>
      /\ message'[r] = Null /\ \A s \in Run \ {r} : message'[s] = message[s]
  BY DEF Start, TypeOK
<1>3. /\ executor'[r].pc \in {"off", "wake"}
      /\ \A s \in Run \ {r} : executor'[s] = executor[s]
  <2>1. CASE Actionable(r)
    BY <2>1, GotoEffect DEF Start, Moved
  <2>2. CASE ~Actionable(r)
    BY <1>1, <2>2 DEF Start
  <2> QED
    BY <2>1, <2>2
<1>4. memo[r] = Null
  BY <1>1 DEF Granted, FromBefore
<1>5. Granted(r)'
  BY <1>1, <1>2, <1>3, <1>4 DEF Granted, OneWay, LetGo, FromBefore, PreApproves
<1>6. ASSUME NEW s \in Run \ {r}
      PROVE  Granted(s)'
  BY <1>2, <1>3, <1>6, SameGranted DEF Same, GrantsHeld
<1> QED
  BY <1>5, <1>6 DEF GrantsHeld

\* A row is RUNNING with a session as long as its executor drives it.
LEMMA ExecutedGranted ==
    ASSUME TypeOK, GrantsHeld, [Next]_vars, NEW r \in Run, ExecutorStep(r) \/ Dies(r)
    PROVE  GrantsHeld'
<1>1. /\ executor[r].pc # "off"
      /\ UNCHANGED <<unsent, message, memo, stuck>>
  BY DEF ExecutorStep, Running, WakeFails, Open, OpenFails, Finish, Dies
<1>2. Granted(r) /\ r \notin unsent /\ message[r] = Null /\ run[r].status # "absent"
  BY <1>1 DEF GrantsHeld, Granted, OneWay
<1>3. ASSUME run'[r].status # "absent", \A s \in Run \ {r} : run'[s] = run[s],
             \A s \in Run \ {r} : finished'[s] = finished[s],
             \A s \in Run \ {r} : executor'[s] = executor[s],
             executor'[r].pc \in {"wake", "open"} => ~run'[r].session,
             LetGo(r)', FromBefore(r)'
      PROVE  GrantsHeld'
  <2>1. Granted(r)'
    BY <1>1, <1>2, <1>3 DEF Granted, OneWay
  <2>2. ASSUME NEW s \in Run \ {r}
        PROVE  Granted(s)'
    BY <1>1, <1>3, <2>2, SameGranted DEF Same, GrantsHeld
  <2> QED
    BY <2>1, <2>2 DEF GrantsHeld
<1>4. CASE Running(r)
  <2>1. ~run[r].session
    BY <1>2, <1>4 DEF Running, Granted, OneWay
  <2>2. OnlyStatus(r, "RUNNING") /\ Moved(r, "open", executor[r].time)
    BY <1>4, MarkEffect, PcEffect, Statuses DEF Running
  <2>3. \A s \in Run \ {r} : finished'[s] = finished[s]
    BY <1>4, SettleEffect DEF Running, Mark
  <2>4. memo'[r] = Null
    BY <1>1, <1>2, <2>1 DEF Granted, FromBefore
  <2>5. LetGo(r)' /\ FromBefore(r)'
    BY <2>1, <2>2, <2>4 DEF LetGo, FromBefore, PreApproves, OnlyStatus
  <2> QED
    BY <1>3, <2>1, <2>2, <2>3, <2>5 DEF OnlyStatus, Moved
<1>5. CASE Open(r)
  <2>1. Moved(r, "drive", executor[r].time)
    BY <1>5, PcEffect DEF Open
  <2>2. /\ run'[r].status = "RUNNING" /\ run'[r].session
        /\ \A s \in Run \ {r} : run'[s] = run[s]
    BY <1>5, OpenEffect
  <2>3. UNCHANGED finished
    BY <1>5 DEF Open
  <2>4. LetGo(r)' /\ FromBefore(r)'
    BY <2>1, <2>2 DEF LetGo, FromBefore, Moved
  <2> QED
    BY <1>3, <2>1, <2>2, <2>3, <2>4 DEF Moved
<1>6. CASE WakeFails(r) \/ OpenFails(r) \/ Finish(r)
  <2>1. Moved(r, "off", 0)
    BY <1>6, GotoEffect DEF WakeFails, OpenFails, Finish
  <2>2. CASE \E status \in Terminal : Mark(r, status)
    <3>1. PICK status \in Terminal : Mark(r, status)
      BY <2>2
    <3>2. OnlyStatus(r, status)
      BY <3>1, MarkEffect, Statuses DEF Status
    <3>3. finished'[r] = 0 /\ \A s \in Run \ {r} : finished'[s] = finished[s]
      BY <3>1, SettleEffect DEF Mark
    <3>4. run'[r].status \in Terminal /\ run'[r].session = run[r].session
      BY <3>2 DEF OnlyStatus
    <3>5. LetGo(r)'
      BY <3>4, Statuses DEF LetGo, PreApproves
    <3>6. FromBefore(r)'
      <4>1. memo[r] # Null => run[r].session /\ 0 <= memo[r]
        BY <1>2, Times DEF Granted, FromBefore, TypeOK
      <4> QED
        BY <1>1, <3>3, <3>4, <4>1 DEF FromBefore, Null
    <3> QED
      BY <1>3, <2>1, <3>2, <3>3, <3>4, <3>5, <3>6, Statuses DEF OnlyStatus, Moved
  <2>3. CASE ~\E status \in Terminal : Mark(r, status)
    <3>1. run[r].status \in Terminal /\ UNCHANGED <<run, finished>>
      BY <1>6, <2>3, Statuses DEF WakeFails, OpenFails, Finish
    <3>2. LetGo(r)' /\ FromBefore(r)'
      BY <1>1, <1>2, <3>1, Statuses DEF Granted, LetGo, FromBefore, PreApproves
    <3> QED
      BY <1>2, <1>3, <2>1, <3>1, <3>2 DEF Moved
  <2> QED
    BY <2>2, <2>3
<1>7. CASE Dies(r)
  <2>1. Moved(r, "off", 0) /\ UNCHANGED <<run, finished>>
    BY <1>7, GotoEffect DEF Dies
  <2>2. Shown({"dies"})'
    BY <1>7, FaultEffect DEF Dies, Shown
  <2>3. LetGo(r)' /\ FromBefore(r)'
    BY <1>1, <1>2, <2>1, <2>2 DEF Granted, LetGo, FromBefore
  <2> QED
    BY <1>2, <1>3, <2>1, <2>3 DEF Moved
<1> QED
  BY <1>4, <1>5, <1>6, <1>7 DEF ExecutorStep

LEMMA SweptGranted ==
    ASSUME TypeOK, GrantsHeld, [Next]_vars, SweepStep
    PROVE  GrantsHeld'
<1>1. CASE FindStuck
  <2>1. UNCHANGED <<run, finished, unsent, message, executor, memo>>
    BY <1>1 DEF FindStuck
  <2>2. \A r \in Run : r \in stuck' => run[r].status # "absent"
    BY <1>1 DEF FindStuck, Stuck
  <2>3. Shown({"dies"}) => Shown({"dies"})'
    BY FaultsStay
  <2> QED
    BY <2>1, <2>2, <2>3 DEF GrantsHeld, Granted, OneWay, LetGo, FromBefore, PreApproves
<1>2. CASE MarkStuck
  <2>1. UNCHANGED <<unsent, message, executor, memo>> /\ stuck' = {}
    BY <1>2 DEF MarkStuck
  <2> SUFFICES ASSUME NEW r \in Run
               PROVE  Granted(r)'
    BY DEF GrantsHeld
  <2>3. Granted(r)
    BY DEF GrantsHeld
  <2>4. CASE r \in stuck
    <3>1. run'[r].status = "FAILED" /\ run'[r].session = run[r].session
      BY <1>2, <2>4, MarkStuckEffect
    <3>2. finished'[r] = 0
      BY <1>2, <2>4, SettleEffect DEF MarkStuck
    <3>3. memo[r] # Null => 0 <= memo[r]
      BY Times DEF TypeOK
    <3> QED
      BY <2>1, <2>3, <3>1, <3>2, <3>3 DEF Granted, OneWay, LetGo, FromBefore, PreApproves, Null
  <2>5. CASE r \notin stuck
    <3>1. run'[r].status = run[r].status /\ run'[r].session = run[r].session
      BY <1>2, <2>5, MarkStuckEffect
    <3>2. finished'[r] = finished[r]
      BY <1>2, <2>5, SettleEffect DEF MarkStuck
    <3>3. Shown({"dies"}) => Shown({"dies"})'
      BY FaultsStay
    <3> QED
      BY <2>1, <2>3, <3>1, <3>2, <3>3 DEF Granted, OneWay, LetGo, FromBefore, PreApproves
  <2> QED
    BY <2>4, <2>5
<1> QED
  BY <1>1, <1>2 DEF SweepStep

\* The gate asks only while the row is RUNNING, and what it remembers ages as fast as the end.
LEMMA RememberedGranted ==
    ASSUME TypeOK, GrantsHeld, [Next]_vars,
           Tick \/ \E r \in Run : GateLooks(r) \/ GateForgets(r)
    PROVE  GrantsHeld'
<1>0. Shown({"dies"}) => Shown({"dies"})'
  BY FaultsStay
<1>1. CASE Tick
  <2> SUFFICES ASSUME NEW r \in Run
               PROVE  Granted(r)'
    BY DEF GrantsHeld
  <2>1. Granted(r) /\ UNCHANGED <<unsent, stuck>>
    BY <1>1 DEF GrantsHeld, Tick
  <2>2. /\ run'[r].status = run[r].status /\ run'[r].session = run[r].session
        /\ executor'[r].pc = executor[r].pc
    BY <1>1, TickRuns, TickExecutors
  <2>3. message'[r] # Null => message[r] # Null
    BY <1>1 DEF Tick
  <2>4. /\ memo'[r] # Null => memo[r] # Null
        /\ memo'[r] # Null /\ finished[r] # Null /\ finished[r] <= memo[r] =>
              finished'[r] # Null /\ finished'[r] <= memo'[r]
    BY <1>1, TickGate
  <2>5. OneWay(r)'
    BY <2>1, <2>2, <2>3 DEF Granted, OneWay
  <2>6. LetGo(r)' /\ FromBefore(r)'
    BY <1>0, <2>1, <2>2, <2>4 DEF Granted, LetGo, FromBefore, PreApproves
  <2> QED
    BY <2>5, <2>6 DEF Granted
<1>2. ASSUME NEW r \in Run, GateLooks(r) \/ GateForgets(r)
      PROVE  GrantsHeld'
  <2>1. UNCHANGED <<run, finished, unsent, message, executor, stuck>>
    BY <1>2 DEF GateLooks, GateForgets
  <2>2. /\ \A s \in Run \ {r} : memo'[s] = memo[s]
        /\ memo'[r] # Null => PreApproves(r)
    BY <1>2 DEF GateLooks, GateForgets, TypeOK
  <2>3. Granted(r)'
    BY <1>0, <2>1, <2>2 DEF GrantsHeld, Granted, OneWay, LetGo, FromBefore, PreApproves
  <2>4. ASSUME NEW s \in Run \ {r}
        PROVE  Granted(s)'
    BY <2>1, <2>2, <2>4, SameGranted DEF Same, GrantsHeld
  <2> QED
    BY <2>3, <2>4 DEF GrantsHeld
<1> QED
  BY <1>1, <1>2

LEMMA GrantsHeldStay ==
    ASSUME TypeOK, GrantsHeld, [Next]_vars
    PROVE  GrantsHeld'
<1>1. CASE \/ UNCHANGED vars \/ FallsDue \/ SweepFails
           \/ \E status \in {"ACTIVE", "PAUSED", "DELETED"} : Update(status)
           \/ \E b \in Beat : Claim(b) \/ DispatchFails(b)
  <2>1. UNCHANGED <<run, finished, unsent, message, executor, memo>> /\ stuck' \subseteq stuck
    BY <1>1 DEF vars, FallsDue, SweepFails, Update, Claim, DispatchFails
  <2> QED
    BY <2>1, SameGranted DEF Same, GrantsHeld
<1>2. CASE \E r \in Run : RunNow(r)
  BY <1>2, InsertedGranted DEF RunNow
<1>3. CASE \E b \in Beat, r \in Run : Dispatch(b, r)
  <2>1. PICK b \in Beat, r \in Run : Dispatch(b, r)
    BY <1>3
  <2>2. CASE beat[b].prior
    BY <2>1, <2>2, InsertedGranted DEF Dispatch
  <2>3. CASE ~beat[b].prior
    BY <2>1, <2>3, InsertedGranted DEF Dispatch
  <2> QED
    BY <2>2, <2>3
<1> QED
  BY <1>1, <1>2, <1>3, SentGranted, StartedGranted, ExecutedGranted, SweptGranted,
     RememberedGranted DEF Next

-----------------------------------------------------------------------------
(* The theorems                                                              *)

LEMMA IInvInit == Init => IInv
<1> SUFFICES ASSUME Init
             PROVE  IInv
  OBVIOUS
<1>1. TypeOK
  <2>1. run \in [Run -> RunState]
    <3>1. [status |-> "absent", age |-> 0, session |-> FALSE] \in RunState
      BY Times, Statuses DEF RunState
    <3> QED
      BY <3>1 DEF Init
  <2>2. executor \in [Run -> ExecutorState]
    BY Times DEF Init, ExecutorState
  <2>3. TypesOfBeats
    BY DEF Init, TypesOfBeats, BeatState
  <2>4. TypesOfFaults
    BY RunsAssumption DEF Init, TypesOfFaults
  <2>5. /\ message \in [Run -> {Null} \cup 0..Expires]
        /\ finished \in [Run -> {Null} \cup 0..MemoLimit]
        /\ memo \in [Run -> {Null} \cup 0..MemoLimit]
    BY DEF Init
  <2>6. task \in [status : {"ACTIVE", "PAUSED", "DELETED"}, due : BOOLEAN]
    BY DEF Init
  <2>7. unsent \subseteq Run /\ stuck \subseteq Run
    BY DEF Init
  <2> QED
    BY <2>1, <2>2, <2>3, <2>4, <2>5, <2>6, <2>7, Typed
<1>2. \A r \in Run : /\ run[r].status = "absent" /\ run[r].age = 0 /\ ~run[r].session
                     /\ r \notin unsent /\ message[r] = Null /\ executor[r].pc = "off"
                     /\ r \notin stuck
  BY DEF Init
<1>3. OnTime
  BY <1>2 DEF OnTime, Timely, Absent, Waits, Works, StuckLeft
<1>4. \A b \in Beat : ~beat[b].claimed
  BY DEF Init
<1>5. OneClaim
  BY <1>4 DEF OneClaim
<1>6. OneInFlight
  BY <1>2, <1>4, Statuses DEF OneInFlight
<1>7. GrantsHeld
  <2>1. \A r \in Run : memo[r] = Null
    BY DEF Init
  <2> QED
    BY <1>2, <2>1 DEF GrantsHeld, Granted, OneWay, LetGo, FromBefore, PreApproves
<1> QED
  BY <1>1, <1>3, <1>5, <1>6, <1>7 DEF IInv

LEMMA IInvStep == IInv /\ [Next]_vars => IInv'
BY TypesStay, OnTimeStays, OneClaimStays, OneInFlightStays, GrantsHeldStay DEF IInv

LEMMA IInvAlways == Spec => []IInv
BY IInvInit, IInvStep, PTL DEF Spec

\* The rows, messages, ticks, executors and the sweep keep their types: among them a
\* turn its time limit, and no message its expiry.
THEOREM TypeCorrect == Spec => []TypeOK
<1>1. IInv => TypeOK
  BY DEF IInv
<1> QED
  BY <1>1, IInvAlways, PTL

\* No second agent works for a task whose run is in flight (has_in_flight_run_for_task,
\* claim_due_scheduled_tasks), unless one is started by hand or a run is late.
THEOREM NeverTwoAtATime == Spec => []OneAtATime
<1>1. IInv => OneAtATime
  <2> SUFFICES ASSUME IInv, ~Shown({"manual", "late"}), NEW r \in Run, NEW s \in Run,
                      AtWork(r), AtWork(s)
               PROVE  r = s
    BY DEF OneAtATime
  <2>1. \A q \in Run : Timely(q)
    BY DEF IInv, OnTime, Shown
  <2>2. \A q \in Run : AtWork(q) => run[q].status \in InFlight
    <3>1. TAKE q \in Run
    <3>2. executor[q].pc \in {"off", "wake", "open", "drive"}
      BY Ages DEF IInv
    <3> QED
      BY <2>1, <3>2, Statuses DEF AtWork, Timely, Works
  <2> QED
    BY <2>2 DEF IInv, OneInFlight
<1> QED
  BY <1>1, IInvAlways, PTL

\* What was approved beforehand for a task is granted to a run for as long as it is driven
\* and at most _GRANT_CACHE_TTL_S longer, whatever the gate remembers and whoever is late;
\* only an executor that dies leaves a row RUNNING for which the gate goes on granting.
THEOREM GrantsBounded == Spec => []GrantsEndWithRun
<1>1. IInv => GrantsEndWithRun
  <2> SUFFICES ASSUME IInv, NEW r \in Run
               PROVE  /\ GatePreApproves(r) => \/ executor[r].pc = "drive"
                                               \/ finished[r] # Null
                                               \/ Shown({"dies"}) /\ run[r].status = "RUNNING"
                      /\ executor[r].pc = "drive" => PreApproves(r) \/ Shown({"late"})
    BY DEF GrantsEndWithRun
  <2>1. Granted(r)
    BY DEF IInv, GrantsHeld
  <2>2. ASSUME PreApproves(r)
        PROVE  executor[r].pc = "drive" \/ (Shown({"dies"}) /\ run[r].status = "RUNNING")
    BY <2>1, <2>2 DEF Granted, LetGo, PreApproves
  <2>3. ASSUME memo[r] # Null
        PROVE  PreApproves(r) \/ finished[r] # Null
    BY <2>1, <2>3 DEF Granted, FromBefore, PreApproves
  <2>4. ASSUME executor[r].pc = "drive", ~Shown({"late"})
        PROVE  PreApproves(r)
    BY <2>4 DEF IInv, OnTime, Timely, Works, PreApproves
  <2> QED
    BY <2>2, <2>3, <2>4 DEF GatePreApproves
<1> QED
  BY <1>1, IInvAlways, PTL

\* No step rewrites a verdict, although mark_run_status never looks at the row.
LEMMA VerdictsKept ==
    ASSUME IInv, [Next]_vars, ~Shown({"late"})'
    PROVE  \A r \in Run : run[r].status \in Terminal => run'[r].status = run[r].status
<1>0. \A s \in Run : Timely(s)
  BY FaultsStay DEF IInv, OnTime
<1>1. TypeOK
  BY DEF IInv
<1>2. CASE UNCHANGED run
  BY <1>2
<1>3. ASSUME NEW r \in Run, NEW status \in {"QUEUED", "SKIPPED"}, Insert(r, status)
      PROVE  \A s \in Run : run[s].status \in Terminal => run'[s].status = run[s].status
  BY <1>1, <1>3, InsertEffect, Statuses DEF OnlyStatus
<1>4. ASSUME NEW r \in Run, ExecutorStep(r)
      PROVE  \A s \in Run : run[s].status \in Terminal => run'[s].status = run[s].status
  <2>1. executor[r].pc \in {"wake", "open", "drive"}
    BY <1>4 DEF ExecutorStep, Running, WakeFails, Open, OpenFails, Finish
  <2>2. run[r].status \notin Terminal
    BY <1>0, <2>1, Statuses DEF Timely, Works
  <2>3. \A s \in Run \ {r} : run'[s] = run[s]
    <3>1. CASE Open(r)
      BY <1>1, <3>1, OpenEffect
    <3>2. CASE Running(r) \/ WakeFails(r) \/ OpenFails(r) \/ Finish(r)
      <4>1. UNCHANGED run \/ \E status \in Status : Mark(r, status)
        BY <3>2, Statuses DEF Running, WakeFails, OpenFails, Finish
      <4> QED
        BY <1>1, <4>1, MarkEffect DEF OnlyStatus
    <3> QED
      BY <1>4, <3>1, <3>2 DEF ExecutorStep
  <2> QED
    BY <2>2, <2>3
<1>5. CASE MarkStuck
  BY <1>0, <1>1, <1>5, MarkStuckEffect, Statuses DEF Timely, StuckLeft
<1>6. CASE Tick
  BY <1>1, <1>6, TickRuns
<1>7. CASE \/ UNCHANGED vars \/ FallsDue \/ SweepFails \/ FindStuck
           \/ \E status \in {"ACTIVE", "PAUSED", "DELETED"} : Update(status)
           \/ \E r \in Run : Send(r) \/ SendFails(r) \/ Start(r) \/ Dies(r)
           \/ \E b \in Beat : Claim(b) \/ DispatchFails(b)
           \/ \E r \in Run : GateLooks(r) \/ GateForgets(r)
  BY <1>2, <1>7 DEF vars, FallsDue, SweepFails, FindStuck, Update, Send, SendFails, Start, Dies,
                    Claim, DispatchFails, GateLooks, GateForgets
<1>8. CASE \E r \in Run : RunNow(r)
  BY <1>3, <1>8 DEF RunNow
<1>9. CASE \E b \in Beat, r \in Run : Dispatch(b, r)
  <2>1. PICK b \in Beat, r \in Run : Dispatch(b, r)
    BY <1>9
  <2>2. CASE beat[b].prior
    BY <1>3, <2>1, <2>2 DEF Dispatch
  <2>3. CASE ~beat[b].prior
    BY <1>3, <2>1, <2>3 DEF Dispatch
  <2> QED
    BY <2>2, <2>3
<1> QED
  BY <1>4, <1>5, <1>6, <1>7, <1>8, <1>9 DEF Next, SweepStep

\* Once a run has its verdict neither the sweep nor an executor takes it back
\* (mark_run_status, cleanup_stuck_scheduled_runs), unless a run is late.
THEOREM VerdictsStand == Spec => VerdictStands
<1>1. IInv /\ [Next]_vars =>
         [ \/ \A r \in Run : run[r].status \in Terminal => run'[r].status = run[r].status
           \/ Shown({"late"})' ]_vars
  BY VerdictsKept
<1> QED
  BY <1>1, IInvAlways, PTL DEF Spec, VerdictStands
=============================================================================

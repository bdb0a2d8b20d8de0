---------------------------- MODULE ScheduledRuns ----------------------------
(***************************************************************************)
(* The runs of one scheduled task of Craft:                                *)
(*                                                                         *)
(*   dispatch_due_scheduled_tasks  inserts a run when the task is due, and *)
(*                                 sends its executor to a queue           *)
(*   run_now                       inserts and sends one at any time       *)
(*   run_scheduled_task_logic      wakes the sandbox, drives the agent and *)
(*                                 writes the verdict                      *)
(*   cleanup_stuck_scheduled_runs  fails what is QUEUED or RUNNING for too *)
(*                                 long                                    *)
(*   _live_grants                  tells the egress gate what is approved  *)
(*                                 beforehand for the session of a RUNNING *)
(*                                 run, and remembers it for a while       *)
(*                                                                         *)
(* They meet at the row of the run, which mark_run_status updates by its   *)
(* id, whatever it says.  Only the age of the row and the time each of     *)
(* them takes keep the sweep from a run that is being worked on.  Ages are *)
(* in units of time.  A step ends where the code commits or waits.         *)
(***************************************************************************)
EXTENDS Integers

CONSTANTS
    Run,           \* bound: the rows that may be inserted
    Beat,          \* dispatcher ticks that overlap
    Expires,       \* RUN_EXPIRES_SECONDS of the message
    QueuedLimit,   \* STUCK_QUEUED_OLDER_THAN
    RunningLimit,  \* STUCK_RUNNING_OLDER_THAN, counted from the insertion too
    WakeLimit,     \* the longest a sandbox takes to be there, for run and for session
    TurnLimit,     \* the longest turn: SANDBOX_TURN_TIMEOUT_SECONDS, or the budget
    MemoLimit,     \* _GRANT_CACHE_TTL_S: how long the gate remembers a session's grants
    MaxFaults,     \* bound: faults
    Hazards        \* which of HazardKinds the environment may show

HazardKinds == {
    "undispatched",  \* the dispatcher's transaction is rolled back, or only the task left due
    "unsent",        \* a run is committed and its message is never sent
    "dies",          \* an executor goes, or cannot write its verdict
    "unswept",       \* the sweep's transaction is rolled back
    "manual",        \* a run is started by hand beside another
    "late"           \* a run gets older than QueuedLimit while it is on its way
}

\* The defaults: 15 minutes to expire and to be stuck in the queue, minutes to wake
\* the sandbox, a turn of 15 minutes at most, and 45 minutes to be stuck.
ASSUME TimesAssumption ==
    /\ Expires \in Nat /\ QueuedLimit \in Nat /\ RunningLimit \in Nat
    /\ WakeLimit \in Nat /\ TurnLimit \in Nat /\ MemoLimit \in Nat
    /\ Expires <= QueuedLimit
    /\ QueuedLimit + WakeLimit + TurnLimit <= RunningLimit

ASSUME RunsAssumption ==
    /\ MaxFaults \in Nat
    /\ Hazards \subseteq HazardKinds

VARIABLES
    task,      \* the ScheduledTask: its status, and whether next_run_at has passed
    run,       \* the ScheduledTaskRun rows
    finished,  \* the age of their finished_at; Null if there is none, or it is long ago
    unsent,    \* runs committed as QUEUED whose message is still to be sent
    message,   \* the age of each message in the queue, or Null
    beat,      \* dispatch_due_scheduled_tasks
    executor,  \* run_scheduled_task_logic of each run
    memo,      \* the age of what the gate remembers of a run's session, or Null
    stuck,     \* the rows cleanup_stuck_scheduled_runs has read and not yet marked
    faults     \* how many faults so far, and which hazards have been shown

vars == <<task, run, finished, unsent, message, beat, executor, memo, stuck, faults>>

-----------------------------------------------------------------------------
(* Types *)

Null == -1
InFlight == {"QUEUED", "RUNNING"}
Terminal == {"SUCCEEDED", "FAILED", "SKIPPED"}   \* is_terminal
Oldest == RunningLimit + 1                       \* no limit tells older rows apart

TypeOK ==
    /\ task \in [status : {"ACTIVE", "PAUSED", "DELETED"}, due : BOOLEAN]
    /\ run \in [Run -> [status : {"absent"} \cup InFlight \cup Terminal,
                        age : 0..Oldest,          \* since started_at
                        session : BOOLEAN]]       \* session_id is set
    /\ finished \in [Run -> {Null} \cup 0..MemoLimit]
    /\ unsent \subseteq Run
    /\ message \in [Run -> {Null} \cup 0..Expires]
    /\ beat \in [Beat -> [claimed : BOOLEAN, prior : BOOLEAN]]
    /\ executor \in [Run -> [pc : {"off", "wake", "open", "drive"},
                             time : 0..WakeLimit + TurnLimit]]
    /\ memo \in [Run -> {Null} \cup 0..MemoLimit]
    /\ stuck \subseteq Run
    /\ faults \in [count : 0..MaxFaults, hazards : SUBSET HazardKinds]

Fault(kind) ==
    /\ kind \in Hazards
    /\ faults.count < MaxFaults
    /\ faults' = [count |-> faults.count + 1, hazards |-> faults.hazards \cup {kind}]
Unless(condition, kind) == IF condition THEN UNCHANGED faults ELSE Fault(kind)

-----------------------------------------------------------------------------
(* The task and its rows *)

\* Faulty variant: a run that waits in the queue is not in flight.
PriorRunning == \E r \in Run : run[r].status = "RUNNING"
\* has_in_flight_run_for_task
PriorInFlight == \E r \in Run : run[r].status \in InFlight
\* The row of the task is locked from the claim to the commit.
Locked == \E b \in Beat : beat[b].claimed

\* finished_at of the rows that get a verdict.
Settle(rows) == finished' = [r \in Run |-> IF r \in rows THEN 0 ELSE finished[r]]

Insert(r, status) ==
    /\ run[r].status = "absent"
    /\ run' = [run EXCEPT ![r].status = status]
    /\ Settle(IF status \in Terminal THEN {r} ELSE {})
\* mark_run_status
Mark(r, status) ==
    /\ run' = [run EXCEPT ![r].status = status]
    /\ Settle(IF status \in Terminal THEN {r} ELSE {})

\* next_run_at comes.
FallsDue ==
    /\ task.status = "ACTIVE" /\ ~task.due
    /\ task' = [task EXCEPT !.due = TRUE]
    /\ UNCHANGED <<run, finished, unsent, message, beat, executor, memo, stuck, faults>>

\* PATCH and DELETE: paused, resumed, given another schedule, deleted.  next_run_at
\* is cleared or put off.
Update(status) ==
    /\ ~Locked
    /\ task.status # "DELETED"
    /\ task' = [status |-> status, due |-> FALSE]
    /\ UNCHANGED <<run, finished, unsent, message, beat, executor, memo, stuck, faults>>

\* run_now, and create_task with run_immediately: whatever else is in flight.  The
\* foreign key of the row waits for the lock of the task.
RunNow(r) ==
    /\ ~Locked
    /\ task.status # "DELETED"
    /\ Insert(r, "QUEUED")
    /\ unsent' = unsent \cup {r}
    /\ Unless(~PriorInFlight, "manual")
    /\ UNCHANGED <<task, message, beat, executor, memo, stuck>>

-----------------------------------------------------------------------------
(* dispatch_due_scheduled_tasks *)

\* SKIP LOCKED
Claimable == ~Locked

\* claim_due_scheduled_tasks, and what the run is decided by.
Claim(b) ==
    /\ ~beat[b].claimed
    /\ Claimable
    /\ task.status = "ACTIVE" /\ task.due
    /\ beat' = [beat EXCEPT ![b] = [claimed |-> TRUE, prior |-> PriorInFlight]]
    /\ UNCHANGED <<task, run, finished, unsent, message, executor, memo, stuck, faults>>

Release(b) == beat' = [beat EXCEPT ![b] = [claimed |-> FALSE, prior |-> FALSE]]

\* insert_run, advance_next_run_at, commit.  An exception in between is swallowed.
Dispatch(b, r) ==
    /\ beat[b].claimed
    /\ Insert(r, IF beat[b].prior THEN "SKIPPED" ELSE "QUEUED")
    /\ unsent' = IF beat[b].prior THEN unsent ELSE unsent \cup {r}
    /\ \/ task' = [task EXCEPT !.due = FALSE] /\ UNCHANGED faults
       \/ UNCHANGED task /\ Fault("undispatched")
    /\ Release(b)
    /\ UNCHANGED <<message, executor, memo, stuck>>

DispatchFails(b) ==
    /\ beat[b].claimed
    /\ Release(b)
    /\ UNCHANGED <<task, run, finished, unsent, message, executor, memo, stuck>>
    /\ Fault("undispatched")

\* send_task, after the commit.
Send(r) ==
    /\ r \in unsent
    /\ unsent' = unsent \ {r}
    /\ message' = [message EXCEPT ![r] = 0]
    /\ UNCHANGED <<task, run, finished, beat, executor, memo, stuck, faults>>

SendFails(r) ==
    /\ r \in unsent
    /\ unsent' = unsent \ {r}
    /\ UNCHANGED <<task, run, finished, message, beat, executor, memo, stuck>>
    /\ Fault("unsent")

-----------------------------------------------------------------------------
(* run_scheduled_task_logic *)

Goto(r, pc) == executor' = [executor EXCEPT ![r] = [pc |-> pc, time |-> 0]]

\* Whoever got at the row before the executor has the say.
Actionable(r) == run[r].status = "QUEUED"

\* A worker takes the message, acknowledged before it is carried out.
Start(r) ==
    /\ message[r] # Null
    /\ message' = [message EXCEPT ![r] = Null]
    /\ IF Actionable(r) THEN Goto(r, "wake") ELSE UNCHANGED executor
    /\ UNCHANGED <<task, run, finished, unsent, beat, memo, stuck, faults>>

\* ensure_sandbox_running has returned.  The row is not looked at again.
Running(r) ==
    /\ executor[r].pc = "wake"
    /\ Mark(r, "RUNNING")
    /\ executor' = [executor EXCEPT ![r].pc = "open"]
    /\ UNCHANGED <<task, unsent, message, beat, memo, stuck, faults>>

WakeFails(r) ==
    /\ executor[r].pc = "wake"
    /\ Mark(r, "FAILED")
    /\ Goto(r, "off")
    /\ UNCHANGED <<task, unsent, message, beat, memo, stuck, faults>>

\* _drive_agent makes a session, and marks the row once more.
Open(r) ==
    /\ executor[r].pc = "open"
    /\ run' = [run EXCEPT ![r].status = "RUNNING", ![r].session = TRUE]
    /\ executor' = [executor EXCEPT ![r].pc = "drive"]
    /\ UNCHANGED <<task, finished, unsent, message, beat, memo, stuck, faults>>

\* The catch-all, in a transaction of its own.
OpenFails(r) ==
    /\ executor[r].pc = "open"
    /\ IF run[r].status \in Terminal THEN UNCHANGED <<run, finished>>
                                   ELSE Mark(r, "FAILED")
    /\ Goto(r, "off")
    /\ UNCHANGED <<task, unsent, message, beat, memo, stuck, faults>>

\* The turn is over: done, failed, cut off, or out of its budget.
Finish(r) ==
    /\ executor[r].pc = "drive"
    /\ \E verdict \in {"SUCCEEDED", "FAILED"} : Mark(r, verdict)
    /\ Goto(r, "off")
    /\ UNCHANGED <<task, unsent, message, beat, memo, stuck, faults>>

Dies(r) ==
    /\ executor[r].pc # "off"
    /\ Goto(r, "off")
    /\ UNCHANGED <<task, run, finished, unsent, message, beat, memo, stuck>>
    /\ Fault("dies")

-----------------------------------------------------------------------------
(* cleanup_stuck_scheduled_runs *)

\* Faulty variants: one limit for both; QUEUED rows left to the queue.
StuckEither(r) == run[r].status \in InFlight /\ run[r].age > QueuedLimit
StuckRunning(r) == run[r].status = "RUNNING" /\ run[r].age > RunningLimit
\* find_stuck_runs
Stuck(r) ==
    \/ run[r].status = "QUEUED" /\ run[r].age > QueuedLimit
    \/ run[r].status = "RUNNING" /\ run[r].age > RunningLimit

FindStuck ==
    /\ stuck = {}
    /\ stuck' = {r \in Run : Stuck(r)}
    /\ UNCHANGED <<task, run, finished, unsent, message, beat, executor, memo, faults>>

MarkStuck ==
    /\ stuck # {}
    /\ run' = [r \in Run |-> IF r \in stuck THEN [run[r] EXCEPT !.status = "FAILED"]
                                            ELSE run[r]]
    /\ Settle(stuck)
    /\ stuck' = {}
    /\ UNCHANGED <<task, unsent, message, beat, executor, memo, faults>>

SweepFails ==
    /\ stuck # {}
    /\ stuck' = {}
    /\ UNCHANGED <<task, run, finished, unsent, message, beat, executor, memo>>
    /\ Fault("unswept")

-----------------------------------------------------------------------------
(* The egress gate: _live_grants *)

\* get_live_scheduled_run_grants
PreApproves(r) == run[r].status = "RUNNING" /\ run[r].session

\* A request of the session comes, and nothing is remembered of it.  That there is no
\* grant is remembered as well: a session without one never gets one later.
GateLooks(r) ==
    /\ memo[r] = Null
    /\ PreApproves(r)
    /\ memo' = [memo EXCEPT ![r] = 0]
    /\ UNCHANGED <<task, run, finished, unsent, message, beat, executor, stuck, faults>>

\* Another proxy, one that was started again, or one with too many sessions to remember.
GateForgets(r) ==
    /\ memo[r] # Null
    /\ memo' = [memo EXCEPT ![r] = Null]
    /\ UNCHANGED <<task, run, finished, unsent, message, beat, executor, stuck, faults>>

\* What a request of the session would be answered.
GatePreApproves(r) == memo[r] # Null \/ PreApproves(r)

-----------------------------------------------------------------------------
(* Time *)

\* Faulty variant: answers are remembered for good.
Kept(r) == memo[r]
\* What is remembered lapses when it gets older than MemoLimit, whoever asks for it.
Remembered(r) == IF memo[r] \in {Null, MemoLimit} THEN Null ELSE memo[r] + 1

\* Faulty variant: a turn without a budget.
WakeLeft(r) == executor[r].pc \in {"wake", "open"} => executor[r].time < WakeLimit
\* A sandbox comes, a session is made and a turn ends within their limits.
TimeLeft(r) ==
    /\ executor[r].pc \in {"wake", "open"} => executor[r].time < WakeLimit
    /\ executor[r].pc = "drive" => executor[r].time < WakeLimit + TurnLimit
\* Messages are sent at once, and the sandbox is there before the row is stuck.
InTime(r) ==
    /\ r \notin unsent
    /\ executor[r].pc = "wake" => run[r].age < QueuedLimit

Tick ==
    /\ \A r \in Run : TimeLeft(r)
    /\ Unless(\A r \in Run : InTime(r), "late")
    /\ run' = [r \in Run |->
                 IF run[r].status = "absent" \/ run[r].age = Oldest
                   THEN run[r] ELSE [run[r] EXCEPT !.age = @ + 1]]
    /\ message' = [r \in Run |-> IF message[r] \in {Null, Expires} THEN Null
                                                                  ELSE message[r] + 1]
    /\ executor' = [r \in Run |-> IF executor[r].pc = "off" THEN executor[r]
                                    ELSE [executor[r] EXCEPT !.time = @ + 1]]
    /\ finished' = [r \in Run |-> IF finished[r] \in {Null, MemoLimit} THEN Null
                                                                      ELSE finished[r] + 1]
    /\ memo' = [r \in Run |-> Remembered(r)]
    /\ UNCHANGED <<task, unsent, beat, stuck>>

-----------------------------------------------------------------------------
(* Specification *)

Init ==
    /\ task = [status |-> "ACTIVE", due |-> FALSE]
    /\ run = [r \in Run |-> [status |-> "absent", age |-> 0, session |-> FALSE]]
    /\ finished = [r \in Run |-> Null]
    /\ unsent = {}
    /\ message = [r \in Run |-> Null]
    /\ beat = [b \in Beat |-> [claimed |-> FALSE, prior |-> FALSE]]
    /\ executor = [r \in Run |-> [pc |-> "off", time |-> 0]]
    /\ memo = [r \in Run |-> Null]
    /\ stuck = {}
    /\ faults = [count |-> 0, hazards |-> {}]

ExecutorStep(r) == Running(r) \/ WakeFails(r) \/ Open(r) \/ OpenFails(r) \/ Finish(r)
SweepStep == FindStuck \/ MarkStuck

Next ==
    \/ FallsDue
    \/ \E status \in {"ACTIVE", "PAUSED", "DELETED"} : Update(status)
    \/ \E r \in Run : RunNow(r) \/ Send(r) \/ SendFails(r)
    \/ \E b \in Beat : Claim(b) \/ DispatchFails(b) \/ \E r \in Run : Dispatch(b, r)
    \/ \E r \in Run : Start(r) \/ ExecutorStep(r) \/ Dies(r)
    \/ SweepStep \/ SweepFails
    \/ \E r \in Run : GateLooks(r) \/ GateForgets(r)
    \/ Tick

Spec == Init /\ [][Next]_vars

\* Who has committed a run sends it, executors that live go on, beat starts the sweep
\* again and again, time passes.  Users, dispatchers and the queue may do nothing.
Fairness ==
    /\ \A r \in Run : WF_vars(Send(r)) /\ WF_vars(ExecutorStep(r))
    /\ WF_vars(SweepStep)
    /\ WF_vars(Tick)
FairSpec == Spec /\ Fairness

-----------------------------------------------------------------------------
(* Properties *)

Shown(kinds) == faults.hazards \cap kinds # {}
AtWork(r) == executor[r].pc # "off"

\* SKIP_IF_RUNNING: a task that comes due again while one of its runs is queued or
\* under way does not get a second agent beside it, whichever ticks overlap, however
\* rows are claimed and whatever the sweep fails.
OneAtATime ==
    \/ \A r, s \in Run : AtWork(r) /\ AtWork(s) => r = s
    \/ Shown({"manual", "late"})

\* "Terminal statuses produce no further state transitions" (enums.py): neither a
\* sweep by what it read before nor an executor that comes late rewrites a verdict,
\* although each of them updates the row whatever it says.
VerdictStands ==
    [][ \/ \A r \in Run : run[r].status \in Terminal => run'[r].status = run[r].status
        \/ Shown({"late"})' ]_vars

\* What is approved beforehand for a task is approved for its runs alone: a session has
\* the grants all the time its executor drives it, and when the turn is over the gate
\* goes on answering from what it remembers for MemoLimit at most ("TTL bounds staleness
\* past a run's RUNNING -> terminal transition").  A row that a dead executor has left
\* RUNNING keeps them until the sweep.
GrantsEndWithRun ==
    \A r \in Run :
        /\ GatePreApproves(r) => \/ executor[r].pc = "drive"
                                 \/ finished[r] # Null
                                 \/ Shown({"dies"}) /\ run[r].status = "RUNNING"
        /\ executor[r].pc = "drive" => PreApproves(r) \/ Shown({"late"})

\* A run does not stay in flight for ever, whatever is lost on its way: it would
\* have every later one skipped.
RunsEnd == \A r \in Run : run[r].status \in InFlight ~> run[r].status \notin InFlight

=============================================================================

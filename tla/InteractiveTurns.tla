-------------------------- MODULE InteractiveTurns --------------------------
(***************************************************************************)
(* The turns of one Craft session (server/features/build):                 *)
(*                                                                         *)
(*   send_message queues a turn in the cache, under the session's turn     *)
(*   lock, and starts a runner thread for it                               *)
(*   attached clients start further runners for a turn that is active      *)
(*   a runner claims the turn, drives opencode in the sandbox from within  *)
(*   the session's prompt slot, and writes the turn's verdict              *)
(*                                                                         *)
(* Runners are threads of any API pod.  All they share is the cache: the   *)
(* turns, the pointer to the active one, the prompt slot and the interrupt *)
(* fence.  What runs under the turn lock is one step here.                 *)
(***************************************************************************)
EXTENDS Integers, FiniteSets

CONSTANTS
    Turn,       \* messages a client sends, each with its client_request_id
    Runner,     \* runner threads alive at a time
    Reader,     \* requests that look at the active turn without the turn lock
    MaxFaults,  \* bound: faults
    Hazards     \* which of HazardKinds the environment may show

HazardKinds == {
    "killed",        \* an API pod goes in the middle of a turn
    "slow_sandbox",  \* the sandbox takes more than 90 s to come up
    "stalled",       \* a runner does nothing for 90 s past that
    "lock_busy",     \* the turn lock is not to be had within 10 s
    "cache_down",    \* the prompt slot cannot be asked for
    "overrun",       \* a runner is still at work when the lease of its slot runs out
    "not_saved",     \* the user message cannot be committed
    "not_persisted", \* an event of the turn cannot be committed
    "late_clear"     \* a runner pauses between checking and clearing the fence
}

Nobody == "nobody"
Gone == "gone"    \* a runner that is no more; its ids and locks may outlive it

ASSUME TurnsAssumption ==
    /\ Nobody \notin Turn \cup Runner /\ Gone \notin Runner /\ "off" \notin Turn
    /\ MaxFaults \in Nat
    /\ Hazards \subseteq HazardKinds

VARIABLES
    turn,     \* craft:interactive_turn:{id}
    sending,  \* send_message, from the turn in the cache to the start of a runner
    active,   \* craft:session:{id}:active_turn
    slot,     \* the prompt slot of the session: a lock with a lease, and who took it
    fence,    \* the interrupt fence, and for which turn it was asked
    inflight, \* opencode's prompts of this session, by the runner that posted them
    runner,   \* the runner threads
    reader,   \* get_active_turn calls without the turn lock
    posted,   \* for checking only: how often a turn's prompt was posted
    faults    \* how many faults so far, and the hazards that showed

vars == <<turn, sending, active, slot, fence, inflight, runner, reader, posted, faults>>

-----------------------------------------------------------------------------
(* Types *)

Ended == {"SUCCEEDED", "FAILED", "CANCELLED", "expired"}
Status == {"absent", "QUEUED", "RUNNING"} \cup Ended
TurnState == [status : Status,
              owner : Runner \cup {Nobody, Gone},  \* runner_id
              stale : BOOLEAN]                     \* no heartbeat for 90 seconds
NoTurn == [status |-> "absent", owner |-> Nobody, stale |-> FALSE]

Verdict == {"SUCCEEDED", "FAILED", "CANCELLED"}
\* "giveup" ends a turn before the slot, "finish" within it; "lost" leaves it to
\* another runner; "check" to "close" are the finally block and the frame's exit.
Pc == {"idle", "ensure", "slot", "giveup", "fence", "post", "drive", "finish",
       "check", "clear", "release", "close"}
RunnerState == [pc : Pc, turn : Turn \cup {Nobody}, verdict : Verdict]
Idle == [pc |-> "idle", turn |-> Nobody, verdict |-> "FAILED"]

TypeOK ==
    /\ turn \in [Turn -> TurnState]
    /\ sending \in [Turn -> {"-", "commit", "undo", "start"}]
    /\ active \in Turn \cup {Nobody}
    /\ slot \in Runner \cup {Nobody, Gone}
    /\ fence \in Turn \cup {Nobody, "off"}
    /\ inflight \subseteq Runner \cup {Gone}
    /\ runner \in [Runner -> RunnerState]
    /\ reader \in [Reader -> Turn \cup {Nobody}]
    /\ posted \in [Turn -> 0..2]
    /\ faults \in [count : 0..MaxFaults, hazards : SUBSET (HazardKinds \cup {"late_delete"})]

-----------------------------------------------------------------------------
(* The cache (state.py)                                                      *)

IsActive(t) == turn[t].status \in {"QUEUED", "RUNNING"}

\* send_message keeps the turn lock while it commits; every other holder is done
\* in one step.
LockFree == \A t \in Turn : sending[t] # "commit"

\* Faulty variant: a turn that runs may always be claimed.
AnyActive(t) == IsActive(t)
\* claim_turn_for_runner: queued, or without a heartbeat for too long.
Claimable(t) ==
    \/ turn[t].status = "QUEUED"
    \/ turn[t].status = "RUNNING" /\ turn[t].stale

\* Faulty variant: the heartbeat only looks whether the turn is active.
TurnActive(r, t) == IsActive(t)
\* touch_turn finds the turn active and this runner its owner.
Owns(r, t) == IsActive(t) /\ turn[t].owner = r

\* finish_turn, once it has found the caller entitled to it.
Finish(t, verdict) ==
    /\ turn' = [turn EXCEPT ![t] = [status |-> verdict, owner |-> Nobody, stale |-> FALSE]]
    /\ active' = IF active = t THEN Nobody ELSE active

\* get_active_turn drops a pointer to a turn that has ended.
ActiveTurn == IF active # Nobody /\ IsActive(active) THEN active ELSE Nobody

Fault(kind) ==
    /\ kind \in Hazards
    /\ faults.count < MaxFaults
    /\ faults' = [count |-> faults.count + 1, hazards |-> faults.hazards \cup {kind}]

-----------------------------------------------------------------------------
(* send_message                                                              *)

\* Faulty variant: nothing asks for an active turn.
Free == TRUE
SessionFree == ActiveTurn = Nobody

\* Under the lock: no turn of this request yet, no active turn.  A repeated request
\* is answered with the turn it already has.
QueueTurn(t) ==
    /\ LockFree
    /\ turn[t].status = "absent"
    /\ SessionFree
    /\ turn' = [turn EXCEPT ![t].status = "QUEUED"]
    /\ active' = t
    /\ sending' = [sending EXCEPT ![t] = "commit"]
    /\ UNCHANGED <<slot, fence, inflight, runner, reader, posted, faults>>

\* The user message is committed and the lock released.
CommitMessage(t) ==
    /\ sending[t] = "commit"
    /\ sending' = [sending EXCEPT ![t] = "start"]
    /\ UNCHANGED <<turn, active, slot, fence, inflight, runner, reader, posted, faults>>

\* It is not: the lock is released, and then taken again to fail the turn.
CommitFails(t) ==
    /\ sending[t] = "commit"
    /\ Fault("not_saved")
    /\ sending' = [sending EXCEPT ![t] = "undo"]
    /\ UNCHANGED <<turn, active, slot, fence, inflight, runner, reader, posted>>

\* finish_turn without a runner_id: whoever has claimed the turn meanwhile.
UndoTurn(t) ==
    /\ sending[t] = "undo" /\ LockFree
    /\ sending' = [sending EXCEPT ![t] = "-"]
    /\ IF turn[t].status = "expired" THEN UNCHANGED <<turn, active>> ELSE Finish(t, "FAILED")
    /\ UNCHANGED <<slot, fence, inflight, runner, reader, posted, faults>>

\* start_interactive_turn_runner fails, or its thread finds the turn taken, ended
\* or locked.
NoRunner(t) ==
    /\ sending[t] = "start"
    /\ sending' = [sending EXCEPT ![t] = "-"]
    /\ UNCHANGED <<turn, active, slot, fence, inflight, runner, reader, posted, faults>>

-----------------------------------------------------------------------------
(* A runner (executor.py)                                                    *)

At(r, pc) == runner' = [runner EXCEPT ![r].pc = pc]
Decide(r, pc, verdict) == runner' = [runner EXCEPT ![r].pc = pc, ![r].verdict = verdict]

\* The thread send_message starts, or one an attached client starts for the active
\* turn, claims it.
Claim(r, t) ==
    /\ runner[r].pc = "idle"
    /\ sending[t] = "start" \/ ActiveTurn = t
    /\ LockFree
    /\ Claimable(t)
    /\ turn' = [turn EXCEPT ![t] = [status |-> "RUNNING", owner |-> r, stale |-> FALSE]]
    /\ active' = t
    /\ runner' = [runner EXCEPT ![r] = [pc |-> "ensure", turn |-> t, verdict |-> "FAILED"]]
    /\ sending' = IF sending[t] = "start" THEN [sending EXCEPT ![t] = "-"] ELSE sending
    /\ UNCHANGED <<slot, fence, inflight, reader, posted, faults>>

\* The thread ends.  A turn it leaves unfinished keeps its runner_id.
Leave(r) ==
    LET t == runner[r].turn IN
    /\ runner' = [runner EXCEPT ![r] = Idle]
    /\ turn' = IF turn[t].owner = r THEN [turn EXCEPT ![t].owner = Gone] ELSE turn

\* ensure_sandbox_running returns, and the turn is still this runner's.
SandboxUp(r) ==
    /\ runner[r].pc = "ensure" /\ LockFree
    /\ Owns(r, runner[r].turn)
    /\ turn' = [turn EXCEPT ![runner[r].turn].stale = FALSE]
    /\ At(r, "slot")
    /\ UNCHANGED <<sending, active, slot, fence, inflight, reader, posted, faults>>

\* ... or it is another's, or has ended.
SandboxTooLate(r) ==
    /\ runner[r].pc = "ensure" /\ LockFree
    /\ ~Owns(r, runner[r].turn)
    /\ Leave(r)
    /\ UNCHANGED <<sending, active, slot, fence, inflight, reader, posted, faults>>

\* ... or it raises.
SandboxFails(r) ==
    /\ runner[r].pc = "ensure"
    /\ At(r, "giveup")
    /\ UNCHANGED <<turn, sending, active, slot, fence, inflight, reader, posted, faults>>

\* Faulty variant: the slot is not waited for.
Any == TRUE
SlotFree == slot = Nobody

\* The lock is taken for SANDBOX_TURN_TIMEOUT_SECONDS; the clock of the turn itself
\* starts later.
TakeSlot(r) ==
    /\ runner[r].pc = "slot"
    /\ SlotFree
    /\ slot' = r
    /\ At(r, "fence")
    /\ UNCHANGED <<turn, sending, active, fence, inflight, reader, posted, faults>>

\* Ten seconds pass; the turn fails although its prompt was not posted.
SlotRefused(r) ==
    /\ runner[r].pc = "slot"
    /\ slot # Nobody
    /\ At(r, "giveup")
    /\ UNCHANGED <<turn, sending, active, slot, fence, inflight, reader, posted, faults>>

\* The cache cannot be reached: prompt_slot fails open.
SlotFailsOpen(r) ==
    /\ runner[r].pc = "slot"
    /\ Fault("cache_down")
    /\ At(r, "fence")
    /\ UNCHANGED <<turn, sending, active, slot, fence, inflight, reader, posted>>

\* Faulty variant: opencode's stop reason is taken for the status.
StopReason == "cancelled"
Cancelled == "CANCELLED"

\* The first look at the interrupt fence.
CheckFence(r) ==
    /\ runner[r].pc = "fence"
    /\ IF fence # "off" THEN Decide(r, "finish", Cancelled) ELSE At(r, "post")
    /\ UNCHANGED <<turn, sending, active, slot, fence, inflight, reader, posted, faults>>

\* yield_sandbox_events posts the prompt to opencode-serve.
PostPrompt(r) ==
    LET t == runner[r].turn IN
    /\ runner[r].pc = "post"
    /\ inflight' = inflight \cup {r}
    /\ posted' = [posted EXCEPT ![t] = IF @ = 2 THEN 2 ELSE @ + 1]
    /\ At(r, "drive")
    /\ UNCHANGED <<turn, sending, active, slot, fence, reader, faults>>

\* The turn is over before it: the sandbox or opencode cannot be reached.
PostFails(r) ==
    /\ runner[r].pc = "post"
    /\ Decide(r, "finish", "FAILED")
    /\ UNCHANGED <<turn, sending, active, slot, fence, inflight, reader, posted, faults>>

\* opencode ends the turn, well or badly; or its prompt was aborted by another.
PromptEnds(r) ==
    /\ runner[r].pc = "drive" /\ LockFree
    /\ Owns(r, runner[r].turn)
    /\ \E verdict \in {"SUCCEEDED", "FAILED"} : Decide(r, "finish", verdict)
    /\ inflight' = inflight \ {r}
    /\ UNCHANGED <<turn, sending, active, slot, fence, reader, posted, faults>>

\* The fence, or the end of the budget: abort whatever opencode does in this session.
AbortTurn(r) ==
    /\ runner[r].pc = "drive" /\ LockFree
    /\ Owns(r, runner[r].turn)
    /\ \/ fence # "off" /\ Decide(r, "finish", Cancelled)
       \/ Decide(r, "finish", "FAILED")
    /\ inflight' = {}
    /\ UNCHANGED <<turn, sending, active, slot, fence, reader, posted, faults>>

\* An event arrives, and the turn is no longer this runner's.
LoseTurn(r) ==
    /\ runner[r].pc = "drive" /\ LockFree
    /\ ~Owns(r, runner[r].turn)
    /\ At(r, "check")
    /\ UNCHANGED <<turn, sending, active, slot, fence, inflight, reader, posted, faults>>

\* ... or the turn lock is not to be had, which looks the same to the runner.
TouchFails(r) ==
    /\ runner[r].pc \in {"ensure", "drive"}
    /\ Fault("lock_busy")
    /\ IF runner[r].pc = "drive" THEN At(r, "check") /\ UNCHANGED turn ELSE Leave(r)
    /\ UNCHANGED <<sending, active, slot, fence, inflight, reader, posted>>

\* An event cannot be persisted: the turn fails while opencode goes on.
PersistFails(r) ==
    /\ runner[r].pc = "drive"
    /\ Fault("not_persisted")
    /\ Decide(r, "finish", "FAILED")
    /\ UNCHANGED <<turn, sending, active, slot, fence, inflight, reader, posted>>

\* Faulty variant: whoever comes may end the turn.
Anyone(r, t) == turn[t].status # "expired"
\* finish_turn compares the runner_id, which it clears; not the status.
MayFinish(r, t) == turn[t].status # "expired" /\ turn[t].owner = r

FinishTurn(r) ==
    LET t == runner[r].turn
        written == IF MayFinish(r, t) THEN Finish(t, runner[r].verdict)
                                      ELSE UNCHANGED <<turn, active>> IN
    /\ LockFree
    /\ \/ runner[r].pc = "finish" /\ At(r, "check") /\ written
       \/ runner[r].pc = "giveup" /\ runner' = [runner EXCEPT ![r] = Idle] /\ written
    /\ UNCHANGED <<sending, slot, fence, inflight, reader, posted, faults>>

\* The turn lock is not to be had: the verdict is dropped.
FinishFails(r) ==
    /\ Fault("lock_busy")
    /\ \/ runner[r].pc = "finish" /\ At(r, "check") /\ UNCHANGED turn
       \/ runner[r].pc = "giveup" /\ Leave(r)
    /\ UNCHANGED <<sending, active, slot, fence, inflight, reader, posted>>

\* Faulty variant: any runner of the active turn clears the fence.
SameTurn(r) == ActiveTurn \in {Nobody, runner[r].turn}
\* _can_clear_interrupt_fence
CanClear(r) ==
    \/ ActiveTurn = Nobody
    \/ ActiveTurn = runner[r].turn /\ turn[ActiveTurn].owner = r

ClearFence(r) ==
    /\ runner[r].pc = "check"
    /\ fence' = IF CanClear(r) THEN "off" ELSE fence
    /\ active' = ActiveTurn
    /\ At(r, "release")
    /\ UNCHANGED <<turn, sending, slot, inflight, reader, posted, faults>>

\* Check and deletion are two calls to the cache.
PauseBeforeClear(r) ==
    /\ runner[r].pc = "check"
    /\ CanClear(r)
    /\ Fault("late_clear")
    /\ active' = ActiveTurn
    /\ At(r, "clear")
    /\ UNCHANGED <<turn, sending, slot, fence, inflight, reader, posted>>

ClearLate(r) ==
    /\ runner[r].pc = "clear"
    /\ fence' = "off"
    /\ At(r, "release")
    /\ UNCHANGED <<turn, sending, active, slot, inflight, reader, posted, faults>>

\* A lock that is no longer this runner's raises, which is logged.
ReleaseSlot(r) ==
    /\ runner[r].pc = "release"
    /\ slot' = IF slot = r THEN Nobody ELSE slot
    /\ At(r, "close")
    /\ UNCHANGED <<turn, sending, active, fence, inflight, reader, posted, faults>>

\* With the frame goes the event stream.  A prompt that still runs is aborted, and
\* with it any other of the session.
CloseStream(r) ==
    /\ runner[r].pc = "close"
    /\ inflight' = IF r \in inflight THEN {} ELSE inflight
    /\ Leave(r)
    /\ UNCHANGED <<sending, active, slot, fence, reader, posted, faults>>

-----------------------------------------------------------------------------
(* The rest of the world                                                     *)

\* interrupt_message sets the fence, whether a turn runs or not.
PressStop ==
    /\ fence' = ActiveTurn
    /\ UNCHANGED <<turn, sending, active, slot, inflight, runner, reader, posted, faults>>

\* FENCE_TTL
FenceExpires ==
    /\ fence # "off"
    /\ fence' = "off"
    /\ UNCHANGED <<turn, sending, active, slot, inflight, runner, reader, posted, faults>>

\* get_active_turn of the attach and status endpoints: load the pointer, load the
\* turn, delete the pointer if the turn has ended.
ReadActive(p) ==
    /\ reader[p] = Nobody /\ active # Nobody
    /\ reader' = [reader EXCEPT ![p] = active]
    /\ UNCHANGED <<turn, sending, active, slot, fence, inflight, runner, posted, faults>>

\* The deletion may hit the pointer to a later turn; then it is on record.
DropActive(p) ==
    /\ reader[p] # Nobody
    /\ reader' = [reader EXCEPT ![p] = Nobody]
    /\ IF IsActive(reader[p]) THEN UNCHANGED <<active, faults>>
       ELSE /\ active' = Nobody
            /\ faults' = IF ActiveTurn \in {Nobody, reader[p]} THEN faults
                         ELSE [faults EXCEPT !.hazards = @ \cup {"late_delete"}]
    /\ UNCHANGED <<turn, sending, slot, fence, inflight, runner, posted>>

LiveOwner(t) == turn[t].owner \in Runner

\* 90 seconds without a heartbeat.
GoStale(t) ==
    /\ turn[t].status = "RUNNING" /\ ~turn[t].stale
    /\ \/ ~LiveOwner(t) /\ UNCHANGED faults
       \/ LiveOwner(t) /\ IF runner[turn[t].owner].pc = "ensure" THEN Fault("slow_sandbox")
                                                               ELSE Fault("stalled")
    /\ turn' = [turn EXCEPT ![t].stale = TRUE]
    /\ UNCHANGED <<sending, active, slot, fence, inflight, runner, reader, posted>>

\* Faulty variant: the keys of a queued turn have no time to live.
Claimed(t) == turn[t].status = "RUNNING"
\* ACTIVE_TURN_TTL_SECONDS after the last heartbeat; nobody drives the turn.
Unattended(t) == IsActive(t) /\ ~LiveOwner(t)
Expire(t) ==
    /\ IsActive(t) /\ Unattended(t) /\ ~LiveOwner(t)
    /\ sending[t] = "-"
    /\ turn' = [turn EXCEPT ![t] = [status |-> "expired", owner |-> Nobody, stale |-> FALSE]]
    /\ active' = IF active = t THEN Nobody ELSE active
    /\ UNCHANGED <<sending, slot, fence, inflight, runner, reader, posted, faults>>

\* The pod of a runner is gone; what it left in the cache and in opencode is not.
Kill(r) ==
    /\ runner[r].pc # "idle"
    /\ Fault("killed")
    /\ Leave(r)
    /\ slot' = IF slot = r THEN Gone ELSE slot
    /\ inflight' = IF r \in inflight THEN (inflight \ {r}) \cup {Gone} ELSE inflight
    /\ UNCHANGED <<sending, active, fence, reader, posted>>

\* The lease of the slot runs out, whether its owner is gone or still at work.
SlotExpires ==
    /\ \/ slot = Gone /\ UNCHANGED faults
       \/ slot \in Runner /\ Fault("overrun")
    /\ slot' = Nobody
    /\ UNCHANGED <<turn, sending, active, fence, inflight, runner, reader, posted>>

\* An orphaned prompt ends by itself.
OrphanEnds ==
    /\ Gone \in inflight
    /\ inflight' = inflight \ {Gone}
    /\ UNCHANGED <<turn, sending, active, slot, fence, runner, reader, posted, faults>>

-----------------------------------------------------------------------------
(* Specification                                                             *)

Init ==
    /\ turn = [t \in Turn |-> NoTurn]
    /\ sending = [t \in Turn |-> "-"]
    /\ active = Nobody
    /\ slot = Nobody
    /\ fence = "off"
    /\ inflight = {}
    /\ runner = [r \in Runner |-> Idle]
    /\ reader = [p \in Reader |-> Nobody]
    /\ posted = [t \in Turn |-> 0]
    /\ faults = [count |-> 0, hazards |-> {}]

Send(t) == CommitMessage(t) \/ UndoTurn(t) \/ NoRunner(t)

RunnerStep(r) ==
    \/ SandboxUp(r) \/ SandboxTooLate(r) \/ SandboxFails(r)
    \/ TakeSlot(r) \/ SlotRefused(r)
    \/ CheckFence(r) \/ PostPrompt(r) \/ PostFails(r)
    \/ PromptEnds(r) \/ AbortTurn(r) \/ LoseTurn(r)
    \/ FinishTurn(r)
    \/ ClearFence(r) \/ ClearLate(r) \/ ReleaseSlot(r) \/ CloseStream(r)

RunnerTrouble(r) ==
    \/ SlotFailsOpen(r) \/ TouchFails(r) \/ PersistFails(r) \/ FinishFails(r)
    \/ PauseBeforeClear(r) \/ Kill(r)

Next ==
    \/ \E t \in Turn : QueueTurn(t) \/ Send(t) \/ CommitFails(t) \/ GoStale(t) \/ Expire(t)
    \/ \E r \in Runner, t \in Turn : Claim(r, t)
    \/ \E r \in Runner : RunnerStep(r) \/ RunnerTrouble(r)
    \/ PressStop \/ FenceExpires \/ SlotExpires \/ OrphanEnds
    \/ \E p \in Reader : ReadActive(p) \/ DropActive(p)

Spec == Init /\ [][Next]_vars

\* Threads run, and keys have a time to live.  Nothing is assumed of clients: nobody
\* need attach to a turn.
Fairness ==
    /\ \A t \in Turn : WF_vars(Send(t)) /\ WF_vars(Expire(t))
    /\ \A r \in Runner : WF_vars(RunnerStep(r))

FairSpec == Spec /\ Fairness

-----------------------------------------------------------------------------
(* Properties                                                                *)

Unharmed(kinds) == faults.hazards \cap kinds = {}

\* opencode's prompts of a session do not overlap ("a second in-flight POST corrupts
\* session state", prompt_slot), however many turns and runners there are.  Two things
\* see to it, and each does without the other: the slot, as long as it can be asked
\* for and no lease runs out on a runner at work; and the claim of the turn, as long
\* as no runner at work stalls, fails its turn or has it failed by send_message, and
\* there is one active turn.  The prompt of a runner that was killed is not counted,
\* nor that of one that gave the slot back and has yet to abort its own.
Losses == {"stalled", "not_saved", "not_persisted", "late_delete"}
OneInFlight ==
    Unharmed({"cache_down", "overrun"}) \/ Unharmed(Losses)
        => Cardinality({r \in inflight \cap Runner : runner[r].pc # "close"}) <= 1

\* A turn's prompt is posted once, whichever runners claim the turn and however
\* long its sandbox takes to come up: unless the runner that posted it is taken for
\* dead, or its verdict cannot be written.
PostedOnce ==
    Unharmed({"killed", "stalled", "lock_busy"}) => \A t \in Turn : posted[t] <= 1

\* A session has one active turn: a second message is refused until the first turn
\* has ended.  The lock does not suffice for that: a reader that lost its pace
\* deletes the pointer to the next turn.
OneActiveTurn ==
    Unharmed({"late_delete"}) => Cardinality({t \in Turn : IsActive(t)}) <= 1

\* A verdict stays: no runner that lost the turn, was refused the slot or comes back
\* late replaces it; only send_message, when it could not save the message, may.
VerdictIsFinal ==
    [][\A t \in Turn :
           turn[t].status \in Ended /\ sending[t] # "undo" => turn'[t].status = turn[t].status]_vars

\* An interrupt reaches its turn: until that turn has ended, only time takes the
\* fence down, not another runner that is done with it.
InterruptNotLost ==
    [][ /\ Unharmed({"lock_busy", "late_clear", "late_delete"})
        /\ fence \in Turn /\ IsActive(fence) /\ fence' = "off"
        => FenceExpires ]_vars

\* Every turn ends, whoever dies, stalls or stays away, so that the session does not
\* refuse messages for ever.
TurnsEnd == \A t \in Turn : IsActive(t) ~> ~IsActive(t)
=============================================================================

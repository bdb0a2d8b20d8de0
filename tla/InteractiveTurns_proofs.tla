----------------------- MODULE InteractiveTurns_proofs -----------------------
(* The safety properties of InteractiveTurns, for every set of turns, runners *)
(* and readers and every number of faults.                                    *)
EXTENDS InteractiveTurns, FiniteSetTheorems, TLAPS

-----------------------------------------------------------------------------
(* The inductive invariant                                                   *)

Pcs(r, pcs) == runner[r].pc \in pcs

\* A runner at work has a turn.  Only a turn that runs has an owner.
Owners ==
    /\ \A r \in Runner : runner[r].pc # "idle" => runner[r].turn \in Turn
    /\ \A t \in Turn : turn[t].status # "RUNNING" => turn[t].owner = Nobody

\* From the slot on a runner holds it, until it gives it back or its lease runs out.
SlotHeld ==
    Unharmed({"cache_down", "overrun"}) =>
        \A r \in Runner :
            Pcs(r, {"fence", "post", "drive", "finish", "check", "clear", "release"}) => slot = r

\* A runner's prompt runs at most until its stream is closed.
PromptsDriven ==
    \A r \in Runner : r \in inflight =>
        Pcs(r, {"drive", "finish", "check", "clear", "release", "close"})

\* The pointer leads to the turn that is active.
ActivePointed == Unharmed({"late_delete"}) => \A t \in Turn : IsActive(t) => active = t

\* A runner that is through with its turn does not own it any more.
LetGo ==
    /\ \A r \in Runner : Pcs(r, {"clear"}) => "late_clear" \in faults.hazards
    /\ Unharmed({"lock_busy"}) =>
           \A r \in Runner :
               Pcs(r, {"check", "clear", "release", "close"}) => ~Owns(r, runner[r].turn)

\* A runner that has its sandbox holds its turn, with a fresh heartbeat, or the turn
\* has ended; it is the only one; and a prompt was posted by the one that does.
Holds(r, t) == turn[t].status = "RUNNING" /\ turn[t].owner = r /\ ~turn[t].stale
Driving(r) == Pcs(r, {"slot", "fence", "post", "drive", "finish"})
OncePosted ==
    Unharmed({"killed", "stalled", "lock_busy"}) =>
        /\ \A r \in Runner :
              Driving(r) => \/ Holds(r, runner[r].turn)
                            \/ turn[runner[r].turn].status \in Ended
        /\ \A r, q \in Runner :
              Driving(r) /\ Driving(q) /\ runner[r].turn = runner[q].turn => r = q
        /\ \A r \in Runner :
              Pcs(r, {"slot", "fence", "post"}) => posted[runner[r].turn] = 0
        /\ \A t \in Turn : posted[t] # 0 =>
              /\ posted[t] = 1
              /\ \/ turn[t].status \in Ended
                 \/ \E r \in Runner :
                       runner[r].turn = t /\ Holds(r, t) /\ Pcs(r, {"drive", "finish"})

\* Without the slot: a runner with a prompt, or on its way to one, holds its turn.
Working(r) == Pcs(r, {"slot", "fence", "post", "drive"}) \/ r \in inflight
TurnHeld ==
    /\ \A t \in Turn : sending[t] = "undo" => "not_saved" \in faults.hazards
    /\ Unharmed(Losses) =>
           \A r \in Runner : Working(r) => /\ Holds(r, runner[r].turn)
                                          /\ ~(r \in inflight /\ Pcs(r, {"finish"}))

IInv ==
    /\ TypeOK /\ Owners /\ SlotHeld /\ PromptsDriven /\ ActivePointed /\ LetGo /\ OncePosted
    /\ TurnHeld

-----------------------------------------------------------------------------
(* What the operators do                                                     *)

LEMMA AtEffect ==
    ASSUME TypeOK, NEW r \in Runner, NEW pc \in Pc, At(r, pc)
    PROVE  /\ runner' \in [Runner -> RunnerState]
           /\ runner'[r].pc = pc /\ runner'[r].turn = runner[r].turn
           /\ \A q \in Runner \ {r} : runner'[q] = runner[q]
BY DEF TypeOK, RunnerState, At

LEMMA DecideEffect ==
    ASSUME TypeOK, NEW r \in Runner, NEW pc \in Pc, NEW verdict \in Verdict, Decide(r, pc, verdict)
    PROVE  /\ runner' \in [Runner -> RunnerState]
           /\ runner'[r].pc = pc /\ runner'[r].turn = runner[r].turn
           /\ \A q \in Runner \ {r} : runner'[q] = runner[q]
<1>1. runner[r] \in RunnerState
  BY DEF TypeOK
<1>2. runner' = [runner EXCEPT ![r] = [runner[r] EXCEPT !.pc = pc, !.verdict = verdict]]
  BY DEF TypeOK, Decide
<1>3. [runner[r] EXCEPT !.pc = pc, !.verdict = verdict] \in RunnerState
  BY <1>1 DEF RunnerState
<1> QED
  BY <1>1, <1>2, <1>3 DEF TypeOK, RunnerState

LEMMA LeaveEffect ==
    ASSUME TypeOK, Owners, NEW r \in Runner, runner[r].pc # "idle", Leave(r)
    PROVE  /\ runner' \in [Runner -> RunnerState]
           /\ runner'[r].pc = "idle"
           /\ \A q \in Runner \ {r} : runner'[q] = runner[q]
           /\ turn' \in [Turn -> TurnState]
           /\ \A t \in Turn : /\ turn'[t].status = turn[t].status
                              /\ turn'[t].stale = turn[t].stale
                              /\ \/ turn'[t].owner = turn[t].owner
                                 \/ /\ turn[t].owner = r /\ turn'[t].owner = Gone
                                    /\ t = runner[r].turn
<1>1. Idle \in RunnerState /\ Idle.pc = "idle"
  BY DEF Idle, RunnerState, Pc, Verdict
<1>2. PICK t \in Turn :
        turn' = IF turn[t].owner = r THEN [turn EXCEPT ![t].owner = Gone] ELSE turn
  BY DEF Leave, Owners
<1>3. t = runner[r].turn => TRUE
  OBVIOUS
<1> QED
  BY <1>1, <1>2 DEF Leave, Owners, TypeOK, TurnState

LEMMA EndEffect ==
    ASSUME TypeOK, NEW t \in Turn, NEW verdict \in Verdict, Finish(t, verdict)
    PROVE  /\ turn' \in [Turn -> TurnState]
           /\ turn'[t].status = verdict /\ turn'[t].owner = Nobody
           /\ verdict \in Ended
           /\ \A u \in Turn \ {t} : turn'[u] = turn[u]
           /\ active' \in Turn \cup {Nobody}
           /\ active # t => active' = active
<1>1. verdict \in Status /\ verdict \in Ended
  BY DEF Verdict, Status, Ended
<1> QED
  BY <1>1 DEF Finish, TypeOK, TurnState

LEMMA StaleEffect ==
    ASSUME TypeOK, NEW t \in Turn, NEW stale \in BOOLEAN,
           turn' = [turn EXCEPT ![t].stale = stale]
    PROVE  /\ turn' \in [Turn -> TurnState]
           /\ turn'[t].stale = stale
           /\ turn'[t].status = turn[t].status /\ turn'[t].owner = turn[t].owner
           /\ \A u \in Turn \ {t} : turn'[u] = turn[u]
<1>1. turn[t] \in TurnState
  BY DEF TypeOK
<1>2. turn' = [turn EXCEPT ![t] = [turn[t] EXCEPT !.stale = stale]]
  BY DEF TypeOK
<1>3. [turn[t] EXCEPT !.stale = stale] \in TurnState
  BY <1>1 DEF TurnState
<1>4. /\ [turn[t] EXCEPT !.stale = stale].stale = stale
      /\ [turn[t] EXCEPT !.stale = stale].status = turn[t].status
      /\ [turn[t] EXCEPT !.stale = stale].owner = turn[t].owner
  BY <1>1 DEF TurnState
<1>5. turn'[t] = [turn[t] EXCEPT !.stale = stale]
  BY <1>2 DEF TypeOK
<1>6. \A u \in Turn \ {t} : turn'[u] = turn[u]
  BY <1>2 DEF TypeOK
<1>7. turn' \in [Turn -> TurnState]
  BY <1>2, <1>3 DEF TypeOK
<1> QED
  BY <1>4, <1>5, <1>6, <1>7

LEMMA FaultEffect ==
    ASSUME TypeOK, NEW kind, Fault(kind)
    PROVE  /\ faults' \in [count : 0..MaxFaults, hazards : SUBSET (HazardKinds \cup {"late_delete"})]
           /\ faults'.hazards = faults.hazards \cup {kind}
BY TurnsAssumption DEF TypeOK, Fault

LEMMA ActiveTurnType == TypeOK => ActiveTurn \in Turn \cup {Nobody}
BY DEF TypeOK, ActiveTurn

-----------------------------------------------------------------------------
(* Types                                                                     *)

WorldStep ==
    \/ PressStop \/ FenceExpires \/ SlotExpires \/ OrphanEnds
    \/ \E p \in Reader : ReadActive(p) \/ DropActive(p)

LEMMA Moves ==
    Next => \/ \E t \in Turn : QueueTurn(t) \/ Send(t) \/ CommitFails(t) \/ GoStale(t) \/ Expire(t)
            \/ \E r \in Runner, t \in Turn : Claim(r, t)
            \/ \E r \in Runner : RunnerStep(r) \/ RunnerTrouble(r)
            \/ WorldStep
BY DEF Next, WorldStep

LEMMA TurnTypes ==
    ASSUME TypeOK, Owners, NEW t \in Turn,
           QueueTurn(t) \/ Send(t) \/ CommitFails(t) \/ GoStale(t) \/ Expire(t)
    PROVE  TypeOK'
<1>1. CASE QueueTurn(t)
  <2>1. turn' \in [Turn -> TurnState]
    BY <1>1 DEF QueueTurn, TypeOK, TurnState, Status
  <2> QED
    BY <1>1, <2>1 DEF QueueTurn, TypeOK
<1>2. CASE CommitMessage(t) \/ NoRunner(t)
  BY <1>2 DEF CommitMessage, NoRunner, TypeOK
<1>3. CASE CommitFails(t)
  BY <1>3, FaultEffect DEF CommitFails, TypeOK
<1>4. CASE UndoTurn(t)
  <2>1. turn' \in [Turn -> TurnState] /\ active' \in Turn \cup {Nobody}
    BY <1>4, EndEffect DEF UndoTurn, TypeOK, Verdict
  <2> QED
    BY <1>4, <2>1 DEF UndoTurn, TypeOK
<1>5. CASE GoStale(t)
  <2>1. turn' \in [Turn -> TurnState]
    BY <1>5, StaleEffect DEF GoStale
  <2> QED
    BY <1>5, <2>1, FaultEffect DEF GoStale, TypeOK
<1>6. CASE Expire(t)
  <2>1. [status |-> "expired", owner |-> Nobody, stale |-> FALSE] \in TurnState
    BY DEF TurnState, Status, Ended
  <2>2. turn' \in [Turn -> TurnState]
    BY <1>6, <2>1 DEF Expire, TypeOK
  <2> QED
    BY <1>6, <2>2 DEF Expire, TypeOK
<1> QED
  BY <1>1, <1>2, <1>3, <1>4, <1>5, <1>6 DEF Send

LEMMA ClaimEffect ==
    ASSUME TypeOK, NEW r \in Runner, NEW t \in Turn, Claim(r, t)
    PROVE  /\ runner' \in [Runner -> RunnerState]
           /\ runner'[r].pc = "ensure" /\ runner'[r].turn = t
           /\ \A q \in Runner \ {r} : runner'[q] = runner[q]
           /\ turn' \in [Turn -> TurnState]
           /\ turn'[t].status = "RUNNING" /\ turn'[t].owner = r /\ ~turn'[t].stale
           /\ \A u \in Turn \ {t} : turn'[u] = turn[u]
<1>1. [pc |-> "ensure", turn |-> t, verdict |-> "FAILED"] \in RunnerState
  BY DEF RunnerState, Pc, Verdict
<1>2. [status |-> "RUNNING", owner |-> r, stale |-> FALSE] \in TurnState
  BY DEF TurnState, Status
<1> QED
  BY <1>1, <1>2 DEF Claim, TypeOK

LEMMA RunnerTypes ==
    ASSUME TypeOK, Owners, NEW r \in Runner,
           RunnerStep(r) \/ RunnerTrouble(r) \/ \E t \in Turn : Claim(r, t)
    PROVE  TypeOK'
<1>0. /\ runner[r].pc # "idle" => runner[r].turn \in Turn
      /\ runner[r].verdict \in Verdict
      /\ \A pc \in {"ensure", "slot", "giveup", "fence", "post", "drive", "finish", "check", "clear",
                   "release", "close"} : pc \in Pc
      /\ {"SUCCEEDED", "FAILED", "CANCELLED"} = Verdict /\ Cancelled \in Verdict
  BY DEF Owners, TypeOK, RunnerState, Pc, Verdict, Cancelled
<1>1. ASSUME NEW t \in Turn, Claim(r, t)
      PROVE  TypeOK'
  BY <1>1, ClaimEffect DEF Claim, TypeOK
<1>2. CASE SandboxUp(r)
  <2>1. turn' \in [Turn -> TurnState]
    BY <1>0, <1>2, StaleEffect DEF SandboxUp
  <2> QED
    BY <1>0, <1>2, <2>1, AtEffect DEF SandboxUp, TypeOK
<1>3. CASE SandboxTooLate(r) \/ CloseStream(r)
  <2>1. runner' \in [Runner -> RunnerState] /\ turn' \in [Turn -> TurnState]
    BY <1>3, LeaveEffect DEF SandboxTooLate, CloseStream
  <2> QED
    BY <1>3, <2>1 DEF SandboxTooLate, CloseStream, TypeOK
<1>4. CASE SandboxFails(r) \/ SlotRefused(r)
  BY <1>0, <1>4, AtEffect DEF SandboxFails, SlotRefused, TypeOK
<1>5. CASE TakeSlot(r) \/ ReleaseSlot(r)
  BY <1>0, <1>5, AtEffect DEF TakeSlot, ReleaseSlot, TypeOK
<1>6. CASE CheckFence(r)
  <2>1. runner' \in [Runner -> RunnerState]
    BY <1>0, <1>6, AtEffect, DecideEffect DEF CheckFence
  <2> QED
    BY <1>6, <2>1 DEF CheckFence, TypeOK
<1>7. CASE PostPrompt(r)
  <2>1. posted' \in [Turn -> 0..2]
    BY <1>0, <1>7 DEF PostPrompt, TypeOK
  <2> QED
    BY <1>0, <1>7, <2>1, AtEffect DEF PostPrompt, TypeOK
<1>8. CASE PostFails(r)
  BY <1>0, <1>8, DecideEffect DEF PostFails, TypeOK
<1>9. CASE PromptEnds(r) \/ AbortTurn(r)
  <2>1. runner' \in [Runner -> RunnerState]
    BY <1>0, <1>9, DecideEffect DEF PromptEnds, AbortTurn
  <2> QED
    BY <1>9, <2>1 DEF PromptEnds, AbortTurn, TypeOK
<1>10. CASE LoseTurn(r)
  BY <1>0, <1>10, AtEffect DEF LoseTurn, TypeOK
<1>11. CASE FinishTurn(r)
  <2>1. runner' \in [Runner -> RunnerState]
    <3>1. Idle \in RunnerState
      BY DEF Idle, RunnerState, Pc, Verdict
    <3> QED
      BY <1>0, <1>11, <3>1, AtEffect DEF FinishTurn, TypeOK
  <2>2. turn' \in [Turn -> TurnState] /\ active' \in Turn \cup {Nobody}
    BY <1>0, <1>11, EndEffect DEF FinishTurn, TypeOK
  <2> QED
    BY <1>11, <2>1, <2>2 DEF FinishTurn, TypeOK
<1>12. CASE ClearFence(r) \/ PauseBeforeClear(r) \/ ClearLate(r)
  <2>1. runner' \in [Runner -> RunnerState]
    BY <1>0, <1>12, AtEffect DEF ClearFence, PauseBeforeClear, ClearLate
  <2>2. active' \in Turn \cup {Nobody} /\ fence' \in Turn \cup {Nobody, "off"}
    BY <1>12, ActiveTurnType DEF ClearFence, PauseBeforeClear, ClearLate, TypeOK
  <2> QED
    BY <1>12, <2>1, <2>2, FaultEffect DEF ClearFence, PauseBeforeClear, ClearLate, TypeOK
<1>13. CASE SlotFailsOpen(r)
  BY <1>0, <1>13, AtEffect, FaultEffect DEF SlotFailsOpen, TypeOK
<1>14. CASE TouchFails(r)
  <2>1. runner' \in [Runner -> RunnerState] /\ turn' \in [Turn -> TurnState]
    BY <1>0, <1>14, AtEffect, LeaveEffect DEF TouchFails, TypeOK
  <2> QED
    BY <1>14, <2>1, FaultEffect DEF TouchFails, TypeOK
<1>15. CASE PersistFails(r)
  BY <1>0, <1>15, DecideEffect, FaultEffect DEF PersistFails, TypeOK
<1>16. CASE FinishFails(r)
  <2>1. runner' \in [Runner -> RunnerState] /\ turn' \in [Turn -> TurnState]
    BY <1>0, <1>16, AtEffect, LeaveEffect DEF FinishFails, TypeOK
  <2> QED
    BY <1>16, <2>1, FaultEffect DEF FinishFails, TypeOK
<1>17. CASE Kill(r)
  <2>1. runner' \in [Runner -> RunnerState] /\ turn' \in [Turn -> TurnState]
    BY <1>17, LeaveEffect DEF Kill
  <2> QED
    BY <1>17, <2>1, FaultEffect DEF Kill, TypeOK
<1> QED
  BY <1>1, <1>2, <1>3, <1>4, <1>5, <1>6, <1>7, <1>8, <1>9, <1>10, <1>11, <1>12, <1>13, <1>14,
     <1>15, <1>16, <1>17 DEF RunnerStep, RunnerTrouble

LEMMA DropEffect ==
    ASSUME TypeOK, NEW p \in Reader, DropActive(p)
    PROVE  /\ faults' \in [count : 0..MaxFaults, hazards : SUBSET (HazardKinds \cup {"late_delete"})]
           /\ faults.hazards \subseteq faults'.hazards
           /\ active' \in {active, Nobody}
           /\ active' # active => /\ ~IsActive(reader[p])
                                  /\ \/ ActiveTurn \in {Nobody, reader[p]}
                                     \/ "late_delete" \in faults'.hazards
BY DEF DropActive, TypeOK

LEMMA WorldTypes == ASSUME TypeOK, WorldStep PROVE TypeOK'
<1>1. CASE PressStop \/ FenceExpires \/ SlotExpires \/ OrphanEnds
  BY <1>1, ActiveTurnType, FaultEffect DEF PressStop, FenceExpires, SlotExpires, OrphanEnds, TypeOK
<1>2. ASSUME NEW p \in Reader, ReadActive(p)
      PROVE  TypeOK'
  BY <1>2 DEF ReadActive, TypeOK
<1>3. ASSUME NEW p \in Reader, DropActive(p)
      PROVE  TypeOK'
  <2>1. reader' \in [Reader -> Turn \cup {Nobody}]
    BY <1>3 DEF DropActive, TypeOK
  <2> QED
    BY <1>3, <2>1, DropEffect DEF DropActive, TypeOK
<1> QED
  BY <1>1, <1>2, <1>3 DEF WorldStep

LEMMA TypesKept == ASSUME TypeOK, Owners, Next PROVE TypeOK'
BY TurnTypes, RunnerTypes, WorldTypes, Moves

-----------------------------------------------------------------------------
(* The steps of a runner                                                     *)

\* Where a runner that does not leave goes.
PcStep(r) ==
    LET pc == runner'[r].pc IN
    \/ runner[r].pc = "ensure" /\ pc \in {"slot", "giveup"}
    \/ runner[r].pc = "slot" /\ pc \in {"fence", "giveup"}
    \/ runner[r].pc = "fence" /\ pc \in {"finish", "post"}
    \/ runner[r].pc = "post" /\ pc \in {"drive", "finish"}
    \/ runner[r].pc = "drive" /\ pc \in {"finish", "check"}
    \/ runner[r].pc = "finish" /\ pc = "check"
    \/ runner[r].pc = "check" /\ pc \in {"release", "clear"}
    \/ runner[r].pc = "clear" /\ pc = "release"
    \/ runner[r].pc = "release" /\ pc = "close"

RunnerMove(r) ==
    /\ \A q \in Runner \ {r} : runner'[q] = runner[q]
    /\ faults.hazards \subseteq faults'.hazards
    /\ \/ /\ runner'[r].pc = "idle"
          /\ runner[r].pc \in {"ensure", "giveup", "close"} \/ Kill(r)
       \/ PcStep(r) /\ runner'[r].turn = runner[r].turn

LEMMA RunnerMoves ==
    ASSUME TypeOK, Owners, NEW r \in Runner, RunnerStep(r) \/ RunnerTrouble(r)
    PROVE  RunnerMove(r)
<1>0. /\ runner[r].verdict \in Verdict
      /\ \A pc \in {"ensure", "slot", "giveup", "fence", "post", "drive", "finish", "check", "clear",
                   "release", "close"} : pc \in Pc
      /\ {"SUCCEEDED", "FAILED", "CANCELLED"} = Verdict /\ Cancelled \in Verdict
  BY DEF TypeOK, RunnerState, Pc, Verdict, Cancelled
<1> USE DEF RunnerMove, PcStep
<1>1. CASE SandboxUp(r) \/ SandboxFails(r)
  BY <1>0, <1>1, AtEffect DEF SandboxUp, SandboxFails
<1>2. CASE SandboxTooLate(r) \/ CloseStream(r)
  BY <1>2, LeaveEffect DEF SandboxTooLate, CloseStream
<1>3. CASE TakeSlot(r) \/ SlotRefused(r) \/ PostPrompt(r)
  BY <1>0, <1>3, AtEffect DEF TakeSlot, SlotRefused, PostPrompt
<1>4. CASE CheckFence(r)
  BY <1>0, <1>4, AtEffect, DecideEffect DEF CheckFence
<1>5. CASE PostFails(r) \/ PromptEnds(r)
  BY <1>0, <1>5, DecideEffect DEF PostFails, PromptEnds
<1>6. CASE AbortTurn(r)
  BY <1>0, <1>6, DecideEffect DEF AbortTurn
<1>7. CASE LoseTurn(r) \/ ClearFence(r)
  BY <1>0, <1>7, AtEffect DEF LoseTurn, ClearFence
<1>8. CASE FinishTurn(r)
  <2>1. CASE runner[r].pc = "finish" /\ At(r, "check")
    BY <1>0, <1>8, <2>1, AtEffect DEF FinishTurn
  <2>2. CASE runner[r].pc = "giveup" /\ runner' = [runner EXCEPT ![r] = Idle]
    BY <1>8, <2>2 DEF FinishTurn, Idle, TypeOK
  <2> QED
    BY <1>8, <2>1, <2>2 DEF FinishTurn
<1>9. CASE ClearLate(r) \/ ReleaseSlot(r)
  BY <1>0, <1>9, AtEffect DEF ClearLate, ReleaseSlot
<1>10. CASE SlotFailsOpen(r) \/ PauseBeforeClear(r)
  BY <1>0, <1>10, AtEffect, FaultEffect DEF SlotFailsOpen, PauseBeforeClear
<1>11. CASE TouchFails(r)
  BY <1>0, <1>11, AtEffect, LeaveEffect, FaultEffect DEF TouchFails
<1>12. CASE PersistFails(r)
  BY <1>0, <1>12, DecideEffect, FaultEffect DEF PersistFails
<1>13. CASE FinishFails(r)
  BY <1>0, <1>13, AtEffect, LeaveEffect, FaultEffect DEF FinishFails
<1>14. CASE Kill(r)
  BY <1>14, LeaveEffect, FaultEffect DEF Kill
<1> QED
  BY <1>1, <1>2, <1>3, <1>4, <1>5, <1>6, <1>7, <1>8, <1>9, <1>10, <1>11, <1>12, <1>13, <1>14
     DEF RunnerStep, RunnerTrouble

\* Nobody else's step moves a runner.
TurnMove(t) == QueueTurn(t) \/ Send(t) \/ CommitFails(t) \/ GoStale(t) \/ Expire(t)

LEMMA OtherMoves ==
    ASSUME TypeOK, (\E t \in Turn : TurnMove(t)) \/ WorldStep
    PROVE  /\ runner' = runner /\ posted' = posted
           /\ \A r \in Runner : r \in inflight' => r \in inflight
           /\ slot' = slot \/ slot = Gone \/ "overrun" \in faults'.hazards
           /\ faults.hazards \subseteq faults'.hazards
<1>1. ASSUME NEW t \in Turn, TurnMove(t)
      PROVE  UNCHANGED <<runner, posted, inflight, slot>> /\ faults.hazards \subseteq faults'.hazards
  BY <1>1, FaultEffect
     DEF TurnMove, QueueTurn, Send, CommitMessage, UndoTurn, NoRunner, CommitFails, GoStale, Expire
<1>2. ASSUME NEW p \in Reader, ReadActive(p) \/ DropActive(p)
      PROVE  UNCHANGED <<runner, posted, inflight, slot>> /\ faults.hazards \subseteq faults'.hazards
  BY <1>2, DropEffect DEF ReadActive, DropActive
<1>3. CASE PressStop \/ FenceExpires \/ SlotExpires \/ OrphanEnds
  BY <1>3, FaultEffect DEF PressStop, FenceExpires, SlotExpires, OrphanEnds
<1> QED
  BY <1>1, <1>2, <1>3 DEF WorldStep

LEMMA AllMoves ==
    Next => \/ (\E t \in Turn : TurnMove(t)) \/ WorldStep
            \/ \E r \in Runner, t \in Turn : Claim(r, t)
            \/ \E r \in Runner : RunnerStep(r) \/ RunnerTrouble(r)
BY Moves DEF TurnMove

LEMMA HazardsGrow ==
    ASSUME TypeOK, Owners, Next
    PROVE  faults.hazards \subseteq faults'.hazards
BY AllMoves, OtherMoves, RunnerMoves DEF RunnerMove, Claim

-----------------------------------------------------------------------------
(* The slot and the prompts                                                  *)

Holding == {"fence", "post", "drive", "finish", "check", "clear", "release"}

LEMMA SlotStaysHeld ==
    ASSUME TypeOK, Owners, SlotHeld, Next
    PROVE  SlotHeld'
<1> SUFFICES ASSUME Unharmed({"cache_down", "overrun"})', NEW q \in Runner,
                    runner'[q].pc \in Holding
             PROVE  slot' = q
  BY DEF SlotHeld, Pcs, Holding
<1>1. \A r \in Runner : runner[r].pc \in Holding => slot = r
  BY HazardsGrow DEF SlotHeld, Unharmed, Pcs, Holding
<1>2. CASE (\E t \in Turn : TurnMove(t)) \/ WorldStep
  BY <1>1, <1>2, OtherMoves, TurnsAssumption DEF Unharmed
<1>3. ASSUME NEW r \in Runner, NEW t \in Turn, Claim(r, t)
      PROVE  slot' = q
  BY <1>1, <1>3, ClaimEffect DEF Claim, Holding
<1>4. ASSUME NEW r \in Runner, RunnerStep(r) \/ RunnerTrouble(r)
      PROVE  slot' = q
  <2>0. RunnerMove(r)
    BY <1>4, RunnerMoves
  <2>1. CASE TakeSlot(r)
    BY <1>1, <2>0, <2>1, TurnsAssumption DEF TakeSlot, SlotFree, RunnerMove, Holding
  <2>2. CASE ReleaseSlot(r)
    <3>1. q # r
      BY <2>0, <2>2 DEF RunnerMove, PcStep, ReleaseSlot, Holding, Kill
    <3> QED
      BY <1>1, <2>0, <2>2, <3>1 DEF RunnerMove, ReleaseSlot, Holding
  <2>3. CASE SlotFailsOpen(r)
    BY <2>3, FaultEffect DEF SlotFailsOpen, Unharmed
  <2>4. CASE Kill(r)
    <3>1. q # r
      BY <2>4, LeaveEffect DEF Kill, Holding
    <3> QED
      BY <1>1, <2>0, <2>4, <3>1 DEF RunnerMove, Kill, Holding
  <2>5. ASSUME ~TakeSlot(r), ~ReleaseSlot(r), ~SlotFailsOpen(r), ~Kill(r)
        PROVE  slot' = q
    <3>1. slot' = slot
      BY <1>4, <2>5
         DEF RunnerStep, RunnerTrouble, SandboxUp, SandboxTooLate, SandboxFails, SlotRefused,
             CheckFence, PostPrompt, PostFails, PromptEnds, AbortTurn, LoseTurn, FinishTurn,
             ClearFence, ClearLate, CloseStream, TouchFails, PersistFails, FinishFails,
             PauseBeforeClear
    <3>2. runner[r].pc = "slot" => runner'[r].pc \notin Holding
      <4>1. CASE SlotRefused(r)
        BY <4>1, AtEffect DEF SlotRefused, Pc, Holding
      <4>2. ASSUME ~SlotRefused(r), runner[r].pc = "slot"
            PROVE  FALSE
        BY <1>4, <2>5, <4>2
           DEF RunnerStep, RunnerTrouble, SandboxUp, SandboxTooLate, SandboxFails,
               CheckFence, PostPrompt, PostFails, PromptEnds, AbortTurn, LoseTurn, FinishTurn,
               ClearFence, ClearLate, CloseStream, TouchFails, PersistFails, FinishFails,
               PauseBeforeClear
      <4> QED
        BY <4>1, <4>2
    <3> QED
      BY <1>1, <2>0, <3>1, <3>2 DEF RunnerMove, PcStep, Holding
  <2> QED
    BY <2>1, <2>2, <2>3, <2>4, <2>5
<1> QED
  BY <1>2, <1>3, <1>4, AllMoves

LEMMA PromptsStayDriven ==
    ASSUME TypeOK, Owners, PromptsDriven, Next
    PROVE  PromptsDriven'
<1> DEFINE driven == {"drive", "finish", "check", "clear", "release", "close"}
<1> SUFFICES ASSUME NEW q \in Runner, q \in inflight'
             PROVE  runner'[q].pc \in driven
  BY DEF PromptsDriven, Pcs
<1>1. q \in inflight => runner[q].pc \in driven
  BY DEF PromptsDriven, Pcs
<1>2. CASE (\E t \in Turn : TurnMove(t)) \/ WorldStep
  BY <1>1, <1>2, OtherMoves
<1>3. ASSUME NEW r \in Runner, NEW t \in Turn, Claim(r, t)
      PROVE  runner'[q].pc \in driven
  BY <1>1, <1>3, ClaimEffect DEF Claim
<1>4. ASSUME NEW r \in Runner, RunnerStep(r) \/ RunnerTrouble(r)
      PROVE  runner'[q].pc \in driven
  <2>0. RunnerMove(r)
    BY <1>4, RunnerMoves
  <2>1. CASE PostPrompt(r)
    BY <1>1, <2>0, <2>1, AtEffect DEF PostPrompt, RunnerMove, Pc
  <2>2. ASSUME ~PostPrompt(r)
        PROVE  q \in inflight
    BY <1>4, <2>2, TurnsAssumption
       DEF RunnerStep, RunnerTrouble, SandboxUp, SandboxTooLate, SandboxFails, TakeSlot,
           SlotRefused, CheckFence, PostFails, PromptEnds, AbortTurn, LoseTurn, FinishTurn,
           ClearFence, ClearLate, ReleaseSlot, CloseStream, SlotFailsOpen, TouchFails,
           PersistFails, FinishFails, PauseBeforeClear, Kill
  <2>3. CASE q \in inflight /\ q # r
    BY <1>1, <2>0, <2>3 DEF RunnerMove
  <2>4. CASE q \in inflight /\ q = r /\ runner'[r].pc # "idle"
    BY <1>1, <2>0, <2>4 DEF RunnerMove, PcStep
  <2>5. ASSUME q \in inflight, q = r, runner'[r].pc = "idle"
        PROVE  FALSE
    <3>1. CASE Kill(r)
      BY <2>5, <3>1, TurnsAssumption DEF Kill
    <3>2. CASE runner[r].pc = "close" /\ ~Kill(r)
      <4>1. CloseStream(r)
        BY <1>4, <3>2
           DEF RunnerStep, RunnerTrouble, SandboxUp, SandboxTooLate, SandboxFails, TakeSlot,
               SlotRefused, CheckFence, PostPrompt, PostFails, PromptEnds, AbortTurn, LoseTurn,
               FinishTurn, ClearFence, ClearLate, ReleaseSlot, SlotFailsOpen, TouchFails,
               PersistFails, FinishFails, PauseBeforeClear
      <4> QED
        BY <2>5, <4>1 DEF CloseStream
    <3> QED
      BY <1>1, <2>0, <2>5, <3>1, <3>2 DEF RunnerMove, PcStep
  <2> QED
    BY <2>1, <2>2, <2>3, <2>4, <2>5
<1> QED
  BY <1>2, <1>3, <1>4, AllMoves

-----------------------------------------------------------------------------
(* The turns                                                                 *)

\* What becomes of a turn in one step.
Kept(t) ==
    /\ turn'[t].status = turn[t].status
    /\ \/ turn'[t].owner = turn[t].owner
       \/ turn[t].owner \in Runner /\ turn'[t].owner = Gone
TurnChange(t) ==
    \/ Kept(t)
    \/ /\ QueueTurn(t) /\ turn[t].status = "absent"
       /\ turn'[t].status = "QUEUED" /\ turn'[t].owner = turn[t].owner
    \/ /\ IsActive(t) \/ sending[t] = "undo"
       /\ turn'[t].status \in Ended /\ turn'[t].owner = Nobody
    \/ \E r \in Runner : /\ Claim(r, t) /\ Claimable(t)
                         /\ turn'[t].status = "RUNNING" /\ turn'[t].owner = r

LEMMA TurnChanges ==
    ASSUME TypeOK, Owners, Next, NEW t \in Turn
    PROVE  TurnChange(t)
<1> USE DEF TurnChange, Kept
<1>0. UNCHANGED turn => TurnChange(t)
  OBVIOUS
<1>1. ASSUME NEW u \in Turn, TurnMove(u)
      PROVE  TurnChange(t)
  <2>1. CASE QueueTurn(u)
    BY <2>1 DEF QueueTurn, TypeOK, TurnState
  <2>2. CASE UndoTurn(u)
    BY <2>2, EndEffect DEF UndoTurn, Verdict
  <2>3. CASE GoStale(u)
    BY <2>3, StaleEffect DEF GoStale
  <2>4. CASE Expire(u)
    BY <2>4 DEF Expire, TypeOK, Ended
  <2> QED
    BY <1>0, <1>1, <2>1, <2>2, <2>3, <2>4 DEF TurnMove, Send, CommitMessage, NoRunner, CommitFails
<1>2. ASSUME NEW r \in Runner, NEW u \in Turn, Claim(r, u)
      PROVE  TurnChange(t)
  <2>1. t # u => turn'[t] = turn[t]
    BY <1>2, ClaimEffect
  <2>2. turn'[u].status = "RUNNING" /\ turn'[u].owner = r /\ Claimable(u)
    BY <1>2, ClaimEffect DEF Claim
  <2>3. t = u => \E q \in Runner : /\ Claim(q, t) /\ Claimable(t)
                                   /\ turn'[t].status = "RUNNING" /\ turn'[t].owner = q
    BY <1>2, <2>2
  <2> QED
    BY <2>1, <2>3
<1>3. ASSUME NEW r \in Runner, RunnerStep(r) \/ RunnerTrouble(r)
      PROVE  TurnChange(t)
  <2>1. CASE SandboxUp(r)
    BY <2>1, StaleEffect DEF SandboxUp, Owners
  <2>2. CASE SandboxTooLate(r) \/ CloseStream(r) \/ Kill(r)
    BY <2>2, LeaveEffect DEF SandboxTooLate, CloseStream, Kill
  <2>3. CASE TouchFails(r)
    BY <1>0, <2>3, LeaveEffect DEF TouchFails
  <2>4. CASE FinishFails(r)
    BY <1>0, <2>4, LeaveEffect DEF FinishFails
  <2>5. CASE FinishTurn(r)
    <3> DEFINE u == runner[r].turn
    <3>1. u \in Turn /\ runner[r].verdict \in Verdict
      BY <2>5 DEF FinishTurn, Owners, TypeOK, RunnerState
    <3>2. MayFinish(r, u) => IsActive(u)
      BY <3>1, TurnsAssumption DEF MayFinish, Owners, IsActive
    <3>3. MayFinish(r, u) => Finish(u, runner[r].verdict)
      BY <2>5 DEF FinishTurn
    <3>4. ~MayFinish(r, u) => UNCHANGED turn
      BY <2>5 DEF FinishTurn
    <3> QED
      BY <1>0, <3>1, <3>2, <3>3, <3>4, EndEffect
  <2>6. ASSUME ~SandboxUp(r), ~SandboxTooLate(r), ~CloseStream(r), ~Kill(r), ~TouchFails(r),
               ~FinishFails(r), ~FinishTurn(r)
        PROVE  UNCHANGED turn
    BY <1>3, <2>6
       DEF RunnerStep, RunnerTrouble, SandboxFails, TakeSlot, SlotRefused, CheckFence, PostPrompt,
           PostFails, PromptEnds, AbortTurn, LoseTurn, ClearFence, ClearLate, ReleaseSlot,
           SlotFailsOpen, PersistFails, PauseBeforeClear
  <2> QED
    BY <1>0, <2>1, <2>2, <2>3, <2>4, <2>5, <2>6
<1>4. CASE WorldStep
  BY <1>0, <1>4
     DEF WorldStep, PressStop, FenceExpires, SlotExpires, OrphanEnds, ReadActive, DropActive
<1> QED
  BY <1>1, <1>2, <1>3, <1>4, AllMoves

LEMMA OwnersStay ==
    ASSUME TypeOK, Owners, Next
    PROVE  Owners'
<1>1. ASSUME NEW r \in Runner, runner'[r].pc # "idle"
      PROVE  runner'[r].turn \in Turn
  <2>1. ASSUME NEW q \in Runner, NEW t \in Turn, Claim(q, t)
        PROVE  runner'[r].turn \in Turn
    BY <1>1, <2>1, ClaimEffect DEF Owners
  <2>2. ASSUME NEW q \in Runner, RunnerStep(q) \/ RunnerTrouble(q)
        PROVE  runner'[r].turn \in Turn
    BY <1>1, <2>2, RunnerMoves DEF Owners, RunnerMove, PcStep
  <2>3. CASE (\E t \in Turn : TurnMove(t)) \/ WorldStep
    BY <1>1, <2>3, OtherMoves DEF Owners
  <2> QED
    BY <2>1, <2>2, <2>3, AllMoves
<1>2. ASSUME NEW t \in Turn, turn'[t].status # "RUNNING"
      PROVE  turn'[t].owner = Nobody
  BY <1>2, TurnChanges, TurnsAssumption DEF Owners, TurnChange, Kept
<1> QED
  BY <1>1, <1>2 DEF Owners

LEMMA PointerStays ==
    ASSUME TypeOK, Owners, ActivePointed, Next
    PROVE  ActivePointed'
<1> SUFFICES ASSUME Unharmed({"late_delete"})', NEW t \in Turn, IsActive(t)'
             PROVE  active' = t
  BY DEF ActivePointed
<1>1. \A u \in Turn : IsActive(u) => active = u
  BY HazardsGrow DEF ActivePointed, Unharmed
<1>2. ASSUME NEW u \in Turn, QueueTurn(u)
      PROVE  active' = t
  <2>1. active' = u /\ ActiveTurn = Nobody
    BY <1>2 DEF QueueTurn, SessionFree
  <2>2. t # u => IsActive(t)
    BY <1>2 DEF QueueTurn, IsActive, TypeOK
  <2>3. ~IsActive(t)
    BY <1>1, <2>1, TurnsAssumption DEF ActiveTurn
  <2> QED
    BY <2>1, <2>2, <2>3
<1>3. ASSUME NEW r \in Runner, NEW u \in Turn, Claim(r, u)
      PROVE  active' = t
  <2>1. active' = u /\ IsActive(u)
    BY <1>3 DEF Claim, Claimable, IsActive
  <2>2. t # u => IsActive(t)
    BY <1>3, ClaimEffect DEF IsActive
  <2> QED
    BY <1>1, <2>1, <2>2
<1>4. ASSUME \A u \in Turn : ~QueueTurn(u) /\ \A r \in Runner : ~Claim(r, u)
      PROVE  active = t /\ IsActive(t)
  BY <1>1, <1>4, TurnChanges DEF TurnChange, Kept, IsActive, Ended
<1>5. ASSUME NEW u \in Turn, TurnMove(u), ~QueueTurn(u), active = t
      PROVE  active' = t
  <2>2. CASE UndoTurn(u)
    <3>1. turn[u].status # "expired" => turn'[u].status = "FAILED"
      BY <2>2, EndEffect DEF UndoTurn, Verdict
    <3>2. u = t => UNCHANGED <<turn, active>>
      BY <2>2, <3>1 DEF UndoTurn, IsActive
    <3> QED
      BY <1>5, <2>2, <3>2 DEF UndoTurn, Finish
  <2>3. CASE Expire(u)
    <3>1. turn'[u].status = "expired"
      BY <2>3 DEF Expire, TypeOK
    <3> QED
      BY <1>5, <2>3, <3>1 DEF Expire, IsActive
  <2> QED
    BY <1>5, <2>2, <2>3 DEF TurnMove, Send, CommitMessage, NoRunner, CommitFails, GoStale
<1>6. ASSUME NEW r \in Runner, RunnerStep(r) \/ RunnerTrouble(r), active = t, IsActive(t)
      PROVE  active' = t
  <2>1. CASE FinishTurn(r)
    <3> DEFINE u == runner[r].turn
    <3>1. u \in Turn /\ runner[r].verdict \in Verdict
      BY <2>1 DEF FinishTurn, Owners, TypeOK, RunnerState
    <3>2. MayFinish(r, u) => Finish(u, runner[r].verdict)
      BY <2>1 DEF FinishTurn
    <3>3. MayFinish(r, u) => u # t
      BY <3>1, <3>2, EndEffect DEF IsActive, Verdict
    <3>4. ~MayFinish(r, u) => active' = active
      BY <2>1 DEF FinishTurn
    <3> QED
      BY <1>6, <3>2, <3>3, <3>4 DEF Finish
  <2>2. CASE ClearFence(r) \/ PauseBeforeClear(r)
    BY <1>6, <2>2, TurnsAssumption DEF ClearFence, PauseBeforeClear, ActiveTurn
  <2>3. ASSUME ~FinishTurn(r), ~ClearFence(r), ~PauseBeforeClear(r)
        PROVE  active' = active
    BY <1>6, <2>3
       DEF RunnerStep, RunnerTrouble, SandboxUp, SandboxTooLate, SandboxFails, TakeSlot,
           SlotRefused, CheckFence, PostPrompt, PostFails, PromptEnds, AbortTurn, LoseTurn,
           ClearLate, ReleaseSlot, CloseStream, SlotFailsOpen, TouchFails, PersistFails,
           FinishFails, Kill
  <2> QED
    BY <1>6, <2>1, <2>2, <2>3
<1>7. ASSUME WorldStep, active = t, IsActive(t)
      PROVE  active' = t
  <2>1. ASSUME NEW p \in Reader, DropActive(p)
        PROVE  active' = t
    <3>1. "late_delete" \notin faults'.hazards
      BY DEF Unharmed
    <3>2. ActiveTurn = t
      BY <1>7, TurnsAssumption DEF ActiveTurn
    <3>3. active' # active => t = reader[p] /\ ~IsActive(reader[p])
      BY <2>1, <3>1, <3>2, DropEffect, TurnsAssumption
    <3> QED
      BY <1>7, <3>3
  <2> QED
    BY <1>7, <2>1
       DEF WorldStep, PressStop, FenceExpires, SlotExpires, OrphanEnds, ReadActive
<1> QED
  BY <1>2, <1>3, <1>4, <1>5, <1>6, <1>7, AllMoves

-----------------------------------------------------------------------------
(* Letting go                                                                *)

LetGoPc == {"check", "clear", "release", "close"}

LEMMA LetGoStays ==
    ASSUME TypeOK, Owners, LetGo, Next
    PROVE  LetGo'
<1>1. ASSUME NEW r \in Runner, runner'[r].pc = "clear"
      PROVE  "late_clear" \in faults'.hazards
  <2>1. runner[r].pc = "clear" => "late_clear" \in faults'.hazards
    BY HazardsGrow DEF LetGo, Pcs
  <2>2. CASE (\E t \in Turn : TurnMove(t)) \/ WorldStep
    BY <1>1, <2>1, <2>2, OtherMoves
  <2>3. ASSUME NEW q \in Runner, NEW t \in Turn, Claim(q, t)
        PROVE  runner[r].pc = "clear"
    BY <1>1, <2>3, ClaimEffect
  <2>4. ASSUME NEW q \in Runner, RunnerStep(q) \/ RunnerTrouble(q), runner[r].pc # "clear"
        PROVE  PauseBeforeClear(r)
    <3>1. q = r /\ runner[r].pc = "check"
      BY <1>1, <2>4, RunnerMoves DEF RunnerMove, PcStep
    <3>2. ClearFence(r) \/ PauseBeforeClear(r) \/ Kill(r)
      BY <2>4, <3>1
         DEF RunnerStep, RunnerTrouble, SandboxUp, SandboxTooLate, SandboxFails, TakeSlot,
             SlotRefused, CheckFence, PostPrompt, PostFails, PromptEnds, AbortTurn, LoseTurn,
             FinishTurn, ClearLate, ReleaseSlot, CloseStream, SlotFailsOpen, TouchFails,
             PersistFails, FinishFails
    <3>3. ~ClearFence(r)
      BY <1>1, AtEffect DEF ClearFence, Pc
    <3>4. ~Kill(r)
      BY <1>1, LeaveEffect DEF Kill
    <3> QED
      BY <3>2, <3>3, <3>4
  <2>5. PauseBeforeClear(r) => "late_clear" \in faults'.hazards
    BY FaultEffect DEF PauseBeforeClear
  <2> QED
    BY <2>1, <2>2, <2>3, <2>4, <2>5, AllMoves
<1>2. ASSUME Unharmed({"lock_busy"})', NEW r \in Runner, runner'[r].pc \in LetGoPc
      PROVE  ~Owns(r, runner[r].turn)' /\ runner'[r].turn = runner[r].turn
  <2> DEFINE t == runner[r].turn
  <2>1. runner[r].pc \in LetGoPc => ~Owns(r, t)
    BY <1>2, HazardsGrow DEF LetGo, Pcs, LetGoPc, Unharmed
  <2>2. CASE runner'[r] = runner[r]
    <3>1. t \in Turn
      BY <1>2, <2>2 DEF Owners, LetGoPc
    <3>2. CASE Kept(t)
      BY <1>2, <2>1, <2>2, <3>2, TurnsAssumption DEF Kept, Owns, IsActive
    <3>3. CASE turn[t].status = "absent" /\ turn'[t].owner = turn[t].owner
      BY <2>2, <3>1, <3>3, TurnsAssumption DEF Owners, Owns
    <3>4. CASE turn'[t].owner = Nobody
      BY <2>2, <3>4, TurnsAssumption DEF Owns
    <3>5. ASSUME NEW q \in Runner, Claim(q, t), turn'[t].owner = q
          PROVE  ~Owns(r, t)'
      BY <1>2, <2>2, <3>5 DEF Owns, Claim, LetGoPc
    <3> QED
      BY <2>2, <3>1, <3>2, <3>3, <3>4, <3>5, TurnChanges DEF TurnChange
  <2>3. ASSUME RunnerStep(r) \/ RunnerTrouble(r)
        PROVE  ~Owns(r, t)' /\ runner'[r].turn = t
    <3>1. runner'[r].turn = t /\ runner[r].pc \in {"drive", "finish", "check", "clear", "release"}
      BY <1>2, <2>3, RunnerMoves DEF RunnerMove, PcStep, LetGoPc
    <3>2. CASE runner[r].pc \in {"check", "clear", "release"}
      <4>1. ~Kill(r)
        BY <1>2, LeaveEffect DEF Kill, LetGoPc
      <4>2. turn' = turn
        BY <2>3, <3>2, <4>1
           DEF RunnerStep, RunnerTrouble, SandboxUp, SandboxTooLate, SandboxFails, TakeSlot,
               SlotRefused, CheckFence, PostPrompt, PostFails, PromptEnds, AbortTurn, LoseTurn,
               FinishTurn, ClearFence, ClearLate, ReleaseSlot, CloseStream, SlotFailsOpen,
               TouchFails, PersistFails, FinishFails, PauseBeforeClear
      <4> QED
        BY <2>1, <3>1, <3>2, <4>2 DEF Owns, IsActive, LetGoPc
    <3>3. CASE runner[r].pc = "finish"
      <4>1. FinishTurn(r) \/ FinishFails(r) \/ Kill(r)
        BY <2>3, <3>3
           DEF RunnerStep, RunnerTrouble, SandboxUp, SandboxTooLate, SandboxFails, TakeSlot,
               SlotRefused, CheckFence, PostPrompt, PostFails, PromptEnds, AbortTurn, LoseTurn,
               ClearFence, ClearLate, ReleaseSlot, CloseStream, SlotFailsOpen,
               TouchFails, PersistFails, PauseBeforeClear
      <4>2. ~Kill(r)
        BY <1>2, LeaveEffect DEF Kill, LetGoPc
      <4>3. ~FinishFails(r)
        BY <1>2, FaultEffect DEF FinishFails, Unharmed
      <4>4. t \in Turn /\ runner[r].verdict \in Verdict
        BY <3>3 DEF Owners, TypeOK, RunnerState
      <4>5. CASE MayFinish(r, t)
        <5>1. Finish(t, runner[r].verdict)
          BY <4>1, <4>2, <4>3, <4>5 DEF FinishTurn
        <5> QED
          BY <3>1, <4>4, <5>1, EndEffect, TurnsAssumption DEF Owns
      <4>6. CASE ~MayFinish(r, t)
        <5>1. turn' = turn
          BY <4>1, <4>2, <4>3, <4>6 DEF FinishTurn
        <5> QED
          BY <3>1, <4>6, <5>1 DEF Owns, MayFinish, IsActive
      <4> QED
        BY <4>5, <4>6
    <3>4. CASE runner[r].pc = "drive"
      <4>1. LoseTurn(r) \/ TouchFails(r)
        <5>1. runner'[r].pc = "check"
          BY <1>2, <2>3, <3>4, RunnerMoves DEF RunnerMove, PcStep, LetGoPc
        <5>2. ~Kill(r)
          BY <5>1, LeaveEffect DEF Kill
        <5>3. ~PromptEnds(r) /\ ~AbortTurn(r) /\ ~PersistFails(r)
          BY <5>1, DecideEffect DEF PromptEnds, AbortTurn, PersistFails, Cancelled, Verdict, Pc
        <5> QED
          BY <2>3, <3>4, <5>2, <5>3
             DEF RunnerStep, RunnerTrouble, SandboxUp, SandboxTooLate, SandboxFails, TakeSlot,
                 SlotRefused, CheckFence, PostPrompt, PostFails, FinishTurn,
                 ClearFence, ClearLate, ReleaseSlot, CloseStream, SlotFailsOpen, FinishFails,
                 PauseBeforeClear
      <4>2. ~TouchFails(r)
        BY <1>2, FaultEffect DEF TouchFails, Unharmed
      <4> QED
        BY <3>1, <4>1, <4>2 DEF LoseTurn, Owns, IsActive
    <3> QED
      BY <3>1, <3>2, <3>3, <3>4
  <2>4. ASSUME NEW q \in Runner, NEW u \in Turn, Claim(q, u)
        PROVE  runner'[r] = runner[r]
    BY <1>2, <2>4, ClaimEffect DEF LetGoPc
  <2>5. ASSUME NEW q \in Runner, RunnerStep(q) \/ RunnerTrouble(q), q # r
        PROVE  runner'[r] = runner[r]
    BY <2>5, RunnerMoves DEF RunnerMove
  <2>6. CASE (\E u \in Turn : TurnMove(u)) \/ WorldStep
    BY <2>2, <2>6, OtherMoves
  <2> QED
    BY <2>2, <2>3, <2>4, <2>5, <2>6, AllMoves
<1> QED
  BY <1>1, <1>2 DEF LetGo, Pcs, LetGoPc, Owns, IsActive

-----------------------------------------------------------------------------
(* Posted once                                                               *)

Calm == Unharmed({"killed", "stalled", "lock_busy"})
DrivingPc == {"slot", "fence", "post", "drive", "finish"}

\* A heartbeat goes stale, and an owner is gone, in few steps.
LEMMA StaleChanges ==
    ASSUME TypeOK, Owners, Next, NEW t \in Turn, turn'[t].stale, ~turn[t].stale
    PROVE  GoStale(t)
<1>1. ASSUME NEW u \in Turn, TurnMove(u)
      PROVE  GoStale(t)
  <2>1. CASE QueueTurn(u)
    BY <2>1 DEF QueueTurn, TypeOK, TurnState
  <2>2. CASE UndoTurn(u)
    <3>1. CASE turn[u].status = "expired"
      BY <2>2, <3>1 DEF UndoTurn
    <3>2. CASE Finish(u, "FAILED")
      BY <3>2 DEF Finish, TypeOK
    <3> QED
      BY <2>2, <3>1, <3>2 DEF UndoTurn
  <2>3. CASE GoStale(u)
    BY <2>3, StaleEffect DEF GoStale
  <2>4. CASE Expire(u)
    BY <2>4 DEF Expire, TypeOK
  <2> QED
    BY <1>1, <2>1, <2>2, <2>3, <2>4 DEF TurnMove, Send, CommitMessage, NoRunner, CommitFails
<1>2. ASSUME NEW r \in Runner, NEW u \in Turn, Claim(r, u)
      PROVE  FALSE
  BY <1>2, ClaimEffect
<1>3. ASSUME NEW r \in Runner, RunnerStep(r) \/ RunnerTrouble(r)
      PROVE  FALSE
  <2>1. CASE SandboxUp(r)
    BY <2>1, StaleEffect DEF SandboxUp, Owners
  <2>2. CASE SandboxTooLate(r) \/ CloseStream(r) \/ Kill(r)
    BY <2>2, LeaveEffect DEF SandboxTooLate, CloseStream, Kill
  <2>3. CASE TouchFails(r)
    BY <2>3, LeaveEffect DEF TouchFails
  <2>4. CASE FinishFails(r)
    BY <2>4, LeaveEffect DEF FinishFails
  <2>5. CASE FinishTurn(r)
    <3> DEFINE u == runner[r].turn
    <3>1. ~MayFinish(r, u) => UNCHANGED turn
      BY <2>5 DEF FinishTurn
    <3>2. MayFinish(r, u) => Finish(u, runner[r].verdict)
      BY <2>5 DEF FinishTurn
    <3> QED
      BY <3>1, <3>2 DEF Finish, TypeOK
  <2>6. ASSUME ~SandboxUp(r), ~SandboxTooLate(r), ~CloseStream(r), ~Kill(r), ~TouchFails(r),
               ~FinishFails(r), ~FinishTurn(r)
        PROVE  UNCHANGED turn
    BY <1>3, <2>6
       DEF RunnerStep, RunnerTrouble, SandboxFails, TakeSlot, SlotRefused, CheckFence, PostPrompt,
           PostFails, PromptEnds, AbortTurn, LoseTurn, ClearFence, ClearLate, ReleaseSlot,
           SlotFailsOpen, PersistFails, PauseBeforeClear
  <2> QED
    BY <2>1, <2>2, <2>3, <2>4, <2>5, <2>6
<1>4. ~WorldStep
  BY DEF WorldStep, PressStop, FenceExpires, SlotExpires, OrphanEnds, ReadActive, DropActive
<1> QED
  BY <1>1, <1>2, <1>3, <1>4, AllMoves

\* A runner that drives its turn moves on with it, and leaves only if it is killed.
LEMMA DriverStays ==
    ASSUME TypeOK, Owners, Next, Calm', NEW r \in Runner, runner[r].pc \in DrivingPc
    PROVE  /\ runner'[r].turn = runner[r].turn
           /\ runner'[r].pc \in DrivingPc \cup {"giveup", "check"}
<1>1. ASSUME NEW q \in Runner, NEW t \in Turn, Claim(q, t)
      PROVE  runner'[r] = runner[r]
  BY <1>1, ClaimEffect DEF Claim, DrivingPc
<1>2. ASSUME NEW q \in Runner, RunnerStep(q) \/ RunnerTrouble(q), q # r
      PROVE  runner'[r] = runner[r]
  BY <1>2, RunnerMoves DEF RunnerMove
<1>3. ASSUME RunnerStep(r) \/ RunnerTrouble(r)
      PROVE  PcStep(r) /\ runner'[r].turn = runner[r].turn
  <2>1. ~Kill(r)
    BY FaultEffect DEF Kill, Calm, Unharmed
  <2> QED
    BY <1>3, <2>1, RunnerMoves DEF RunnerMove, DrivingPc
<1> QED
  BY <1>1, <1>2, <1>3, AllMoves, OtherMoves DEF PcStep, DrivingPc

\* A runner comes to drive a turn by way of SandboxUp.
LEMMA DriverComes ==
    ASSUME TypeOK, Owners, Next, NEW r \in Runner, runner'[r].pc \in DrivingPc,
           runner[r].pc \notin DrivingPc
    PROVE  SandboxUp(r) /\ runner'[r].turn = runner[r].turn /\ runner'[r].pc = "slot"
<1>1. ASSUME NEW q \in Runner, NEW t \in Turn, Claim(q, t)
      PROVE  FALSE
  BY <1>1, ClaimEffect DEF DrivingPc
<1>2. ASSUME NEW q \in Runner, RunnerStep(q) \/ RunnerTrouble(q)
      PROVE  q = r /\ runner[r].pc = "ensure" /\ runner'[r].pc = "slot"
             /\ runner'[r].turn = runner[r].turn
  BY <1>2, RunnerMoves DEF RunnerMove, PcStep, DrivingPc
<1>3. ASSUME RunnerStep(r) \/ RunnerTrouble(r)
      PROVE  SandboxUp(r)
  <2>1. runner[r].pc = "ensure" /\ runner'[r].pc = "slot"
    BY <1>2, <1>3
  <2>2. ~SandboxTooLate(r) /\ ~Kill(r)
    BY <2>1, LeaveEffect DEF SandboxTooLate, Kill
  <2>3. ~SandboxFails(r)
    BY <2>1, AtEffect DEF SandboxFails, Pc
  <2>4. ~TouchFails(r)
    BY <2>1, LeaveEffect DEF TouchFails
  <2> QED
    BY <1>3, <2>1, <2>2, <2>3, <2>4
       DEF RunnerStep, RunnerTrouble, TakeSlot, SlotRefused, CheckFence, PostPrompt, PostFails,
           PromptEnds, AbortTurn, LoseTurn, FinishTurn, ClearFence, ClearLate, ReleaseSlot,
           CloseStream, SlotFailsOpen, PersistFails, FinishFails, PauseBeforeClear
<1> QED
  BY <1>1, <1>2, <1>3, AllMoves, OtherMoves

\* The thread of a runner whose name goes from a turn is at its end.
LEMMA OwnerGoes ==
    ASSUME TypeOK, Owners, Next, NEW t \in Turn, NEW r \in Runner,
           turn[t].owner = r, turn'[t].owner = Gone
    PROVE  runner'[r].pc = "idle"
<1>0. Gone # Nobody /\ Gone \notin Runner /\ r # Nobody
  BY TurnsAssumption DEF Gone, Nobody
<1> DEFINE leaves(q) == runner[q].pc # "idle" /\ Leave(q)
<1>1. ASSUME NEW q \in Runner, leaves(q)
      PROVE  runner'[r].pc = "idle"
  BY <1>1, LeaveEffect, <1>0
<1>2. ASSUME NEW q \in Runner, RunnerStep(q) \/ RunnerTrouble(q), ~leaves(q)
      PROVE  FALSE
  <2>1. ~SandboxTooLate(q) /\ ~CloseStream(q) /\ ~Kill(q)
    BY <1>2 DEF SandboxTooLate, CloseStream, Kill
  <2>2. turn'[t].owner = turn[t].owner \/ turn'[t].owner = Nobody
    <3>1. CASE SandboxUp(q)
      BY <3>1, StaleEffect DEF SandboxUp, Owners
    <3>2. CASE FinishTurn(q)
      <4> DEFINE u == runner[q].turn
      <4>1. u \in Turn /\ runner[q].verdict \in Verdict
        BY <3>2 DEF FinishTurn, Owners, TypeOK, RunnerState
      <4>2. ~MayFinish(q, u) => UNCHANGED turn
        BY <3>2 DEF FinishTurn
      <4>3. MayFinish(q, u) => Finish(u, runner[q].verdict)
        BY <3>2 DEF FinishTurn
      <4> QED
        BY <4>1, <4>2, <4>3, EndEffect
    <3>3. CASE TouchFails(q) \/ FinishFails(q)
      BY <1>2, <3>3 DEF TouchFails, FinishFails
    <3>4. ASSUME ~SandboxUp(q), ~FinishTurn(q), ~TouchFails(q), ~FinishFails(q)
          PROVE  UNCHANGED turn
      BY <1>2, <2>1, <3>4
         DEF RunnerStep, RunnerTrouble, SandboxFails, TakeSlot, SlotRefused, CheckFence,
             PostPrompt, PostFails, PromptEnds, AbortTurn, LoseTurn, ClearFence, ClearLate,
             ReleaseSlot, SlotFailsOpen, PersistFails, PauseBeforeClear
    <3> QED
      BY <3>1, <3>2, <3>3, <3>4
  <2> QED
    BY <2>2, <1>0
<1>3. ASSUME NEW q \in Runner, NEW u \in Turn, Claim(q, u)
      PROVE  FALSE
  BY <1>3, ClaimEffect, <1>0
<1>4. ASSUME NEW u \in Turn, TurnMove(u)
      PROVE  FALSE
  <2>1. CASE QueueTurn(u)
    BY <2>1, <1>0 DEF QueueTurn, TypeOK, TurnState
  <2>2. CASE UndoTurn(u)
    BY <2>2, EndEffect, <1>0 DEF UndoTurn, Verdict
  <2>3. CASE GoStale(u)
    BY <2>3, StaleEffect, <1>0 DEF GoStale
  <2>4. CASE Expire(u)
    <3>1. turn'[t].owner \in {turn[t].owner, Nobody}
      BY <2>4 DEF Expire, TypeOK, TurnState
    <3> QED
      BY <1>0, <3>1
  <2> QED
    BY <1>4, <2>1, <2>2, <2>3, <2>4, <1>0
       DEF TurnMove, Send, CommitMessage, NoRunner, CommitFails
<1>5. ~WorldStep
  BY <1>0
     DEF WorldStep, PressStop, FenceExpires, SlotExpires, OrphanEnds, ReadActive, DropActive
<1> QED
  BY <1>1, <1>2, <1>3, <1>4, <1>5, AllMoves

LEMMA HoldsStay ==
    ASSUME TypeOK, Owners, Next, Calm', NEW r \in Runner, NEW t \in Turn,
           runner[r].pc \in DrivingPc, Holds(r, t)
    PROVE  Holds(r, t)' \/ turn'[t].status \in Ended
<1>1. CASE Kept(t)
  <2>1. turn'[t].status = "RUNNING"
    BY <1>1 DEF Kept, Holds
  <2>2. turn'[t].owner = r
    <3>1. runner'[r].pc # "idle"
      BY DriverStays DEF DrivingPc
    <3> QED
      BY <1>1, <3>1, OwnerGoes DEF Kept, Holds
  <2>3. ~GoStale(t)
    BY FaultEffect DEF GoStale, LiveOwner, Holds, DrivingPc, Calm, Unharmed
  <2>4. ~turn'[t].stale
    BY <2>3, StaleChanges DEF Holds
  <2> QED
    BY <2>1, <2>2, <2>4 DEF Holds
<1>2. CASE turn[t].status = "absent"
  BY <1>2 DEF Holds
<1>3. CASE turn'[t].status \in Ended
  BY <1>3
<1>4. CASE Claimable(t)
  BY <1>4 DEF Claimable, Holds
<1> QED
  BY <1>1, <1>2, <1>3, <1>4, TurnChanges DEF TurnChange

LEMMA EndedStays ==
    ASSUME TypeOK, Owners, Next, NEW t \in Turn, turn[t].status \in Ended
    PROVE  turn'[t].status \in Ended
BY TurnChanges DEF TurnChange, Kept, Claimable, Ended

LEMMA PostedChanges ==
    ASSUME TypeOK, Owners, Next, NEW t \in Turn, posted'[t] # posted[t]
    PROVE  \E q \in Runner : /\ PostPrompt(q) /\ runner[q].turn = t
                             /\ posted'[t] = IF posted[t] = 2 THEN 2 ELSE posted[t] + 1
<1>1. ASSUME NEW q \in Runner, RunnerStep(q) \/ RunnerTrouble(q)
      PROVE  PostPrompt(q)
  BY <1>1
     DEF RunnerStep, RunnerTrouble, SandboxUp, SandboxTooLate, SandboxFails, TakeSlot,
         SlotRefused, CheckFence, PostFails, PromptEnds, AbortTurn, LoseTurn, FinishTurn,
         ClearFence, ClearLate, ReleaseSlot, CloseStream, SlotFailsOpen, TouchFails,
         PersistFails, FinishFails, PauseBeforeClear, Kill
<1>2. ASSUME NEW q \in Runner, PostPrompt(q)
      PROVE  runner[q].turn = t /\ posted'[t] = IF posted[t] = 2 THEN 2 ELSE posted[t] + 1
  <2>1. runner[q].turn \in Turn
    BY <1>2 DEF PostPrompt, Owners
  <2> QED
    BY <1>2, <2>1 DEF PostPrompt, TypeOK
<1>3. ASSUME NEW q \in Runner, NEW u \in Turn, Claim(q, u)
      PROVE  FALSE
  BY <1>3 DEF Claim
<1> QED
  BY <1>1, <1>2, <1>3, AllMoves, OtherMoves

LEMMA OncePostedStays ==
    ASSUME TypeOK, Owners, LetGo, OncePosted, Next
    PROVE  OncePosted'
<1> SUFFICES ASSUME Calm' PROVE OncePosted'
  BY DEF OncePosted, Calm
<1>0. /\ \A r \in Runner : runner[r].pc \in DrivingPc
            => Holds(r, runner[r].turn) \/ turn[runner[r].turn].status \in Ended
      /\ \A r, q \in Runner :
            runner[r].pc \in DrivingPc /\ runner[q].pc \in DrivingPc
            /\ runner[r].turn = runner[q].turn => r = q
      /\ \A r \in Runner :
            runner[r].pc \in {"slot", "fence", "post"} => posted[runner[r].turn] = 0
      /\ \A t \in Turn : posted[t] # 0 =>
            /\ posted[t] = 1
            /\ \/ turn[t].status \in Ended
               \/ \E r \in Runner : /\ runner[r].turn = t /\ Holds(r, t)
                                    /\ runner[r].pc \in {"drive", "finish"}
  <2>1. Calm
    BY HazardsGrow DEF Calm, Unharmed
  <2> QED
    BY <2>1 DEF OncePosted, Calm, Driving, Pcs, DrivingPc
<1>1. ASSUME NEW r \in Runner, runner'[r].pc \in DrivingPc
      PROVE  Holds(r, runner[r].turn)' \/ turn'[runner'[r].turn].status \in Ended
  <2>1. CASE runner[r].pc \in DrivingPc
    <3>1. runner'[r].turn = runner[r].turn /\ runner[r].turn \in Turn
      BY <2>1, DriverStays DEF Owners, DrivingPc
    <3>2. CASE Holds(r, runner[r].turn)
      BY <2>1, <3>1, <3>2, HoldsStay DEF Holds
    <3>3. CASE turn[runner[r].turn].status \in Ended
      BY <3>1, <3>3, EndedStays
    <3> QED
      BY <1>0, <2>1, <3>2, <3>3
  <2>2. CASE runner[r].pc \notin DrivingPc
    <3>1. SandboxUp(r) /\ runner'[r].turn = runner[r].turn
      BY <1>1, <2>2, DriverComes
    <3>2. runner[r].turn \in Turn
      BY <3>1 DEF SandboxUp, Owners
    <3>3. turn[runner[r].turn].status = "RUNNING" /\ turn[runner[r].turn].owner = r
      BY <3>1, <3>2, TurnsAssumption DEF SandboxUp, Owns, IsActive, Owners
    <3>4. Holds(r, runner[r].turn)'
      <4> DEFINE t == runner[r].turn
      <4>1. /\ ~turn'[t].stale
            /\ turn'[t].status = turn[t].status /\ turn'[t].owner = turn[t].owner
        BY <3>1, <3>2, StaleEffect DEF SandboxUp
      <4> QED
        BY <3>1, <3>3, <4>1 DEF Holds
    <3> QED
      BY <3>1, <3>4 DEF Holds
  <2> QED
    BY <2>1, <2>2
\* Whoever takes a turn up finds nobody who drives it.
<1>2. ASSUME NEW r \in Runner, NEW q \in Runner, SandboxUp(r), runner[q].pc \in DrivingPc,
             runner[r].turn = runner[q].turn
      PROVE  FALSE
  <2>1. IsActive(runner[r].turn) /\ turn[runner[r].turn].owner = r
    BY <1>2 DEF SandboxUp, Owns
  <2>2. q # r
    BY <1>2 DEF SandboxUp, DrivingPc
  <2> QED
    BY <1>0, <1>2, <2>1, <2>2 DEF Holds, IsActive, Ended
<1>3. ASSUME NEW r \in Runner, NEW q \in Runner, runner'[r].pc \in DrivingPc,
             runner'[q].pc \in DrivingPc, runner'[r].turn = runner'[q].turn, r # q
      PROVE  FALSE
  <2>1. \A p \in {r, q} : \/ runner[p].pc \in DrivingPc
                          \/ SandboxUp(p)
    BY <1>3, DriverComes
  <2>2. \A p \in {r, q} : runner'[p].turn = runner[p].turn
    BY <1>3, DriverComes, DriverStays
  <2>3. ~(SandboxUp(r) /\ SandboxUp(q))
    <3>1. ASSUME SandboxUp(r), SandboxUp(q)
          PROVE  FALSE
      <4>1. runner[q].pc = "ensure" /\ runner'[q] = runner[q]
        BY <1>3, <3>1, AtEffect DEF SandboxUp, Pc
      <4> QED
        BY <1>3, <4>1 DEF DrivingPc
    <3> QED
      BY <3>1
  <2> QED
    BY <1>0, <1>2, <1>3, <2>1, <2>2, <2>3
<1>4. ASSUME NEW r \in Runner, runner'[r].pc \in {"slot", "fence", "post"}
      PROVE  posted'[runner'[r].turn] = 0
  <2> DEFINE t == runner[r].turn
  <2>1. CASE runner[r].pc \in DrivingPc
    <3>1. runner'[r].turn = t /\ t \in Turn
      BY <2>1, DriverStays DEF Owners, DrivingPc
    <3>2. runner[r].pc \in {"slot", "fence", "post"}
      <4>1. ASSUME NEW q \in Runner, RunnerStep(q) \/ RunnerTrouble(q)
            PROVE  runner[r].pc \in {"slot", "fence", "post"}
        BY <1>4, <2>1, <4>1, RunnerMoves DEF RunnerMove, PcStep, DrivingPc
      <4>2. ASSUME NEW q \in Runner, NEW u \in Turn, Claim(q, u)
            PROVE  runner[r].pc \in {"slot", "fence", "post"}
        BY <1>4, <4>2, ClaimEffect
      <4> QED
        BY <1>4, <4>1, <4>2, AllMoves, OtherMoves
    <3>3. posted[t] = 0
      BY <1>0, <3>2
    <3>4. ASSUME posted'[t] # posted[t]
          PROVE  FALSE
      <4>1. PICK q \in Runner : PostPrompt(q) /\ runner[q].turn = t
        BY <3>1, <3>4, PostedChanges
      <4>2. q = r
        BY <1>0, <2>1, <4>1 DEF PostPrompt, DrivingPc
      <4>3. runner'[r].pc = "drive"
        BY <4>1, <4>2, AtEffect DEF PostPrompt, Pc
      <4> QED
        BY <1>4, <4>3
    <3> QED
      BY <3>1, <3>3, <3>4
  <2>2. CASE runner[r].pc \notin DrivingPc
    <3>1. SandboxUp(r) /\ runner'[r].turn = t
      BY <1>4, <2>2, DriverComes DEF DrivingPc
    <3>2. t \in Turn /\ posted' = posted /\ runner[r].pc = "ensure"
      BY <3>1 DEF SandboxUp, Owners
    <3>3. ASSUME NEW q \in Runner, runner[q].turn = t, runner[q].pc \in {"drive", "finish"}
          PROVE  FALSE
      BY <1>2, <3>1, <3>3 DEF DrivingPc
    <3>4. turn[t].status \notin Ended
      BY <3>1 DEF SandboxUp, Owns, IsActive, Ended
    <3> QED
      BY <1>0, <3>1, <3>2, <3>3, <3>4
  <2> QED
    BY <2>1, <2>2
<1>5. ASSUME NEW t \in Turn, posted'[t] # 0
      PROVE  /\ posted'[t] = 1
             /\ \/ turn'[t].status \in Ended
                \/ \E r \in Runner : /\ runner'[r].turn = t /\ Holds(r, t)'
                                     /\ runner'[r].pc \in {"drive", "finish"}
  <2>1. CASE posted'[t] = posted[t]
    <3>1. posted[t] = 1
      BY <1>0, <1>5, <2>1
    <3>2. CASE turn[t].status \in Ended
      BY <2>1, <3>1, <3>2, EndedStays
    <3>3. ASSUME NEW r \in Runner, runner[r].turn = t, Holds(r, t),
                 runner[r].pc \in {"drive", "finish"}, turn'[t].status \notin Ended
          PROVE  runner'[r].turn = t /\ Holds(r, t)' /\ runner'[r].pc \in {"drive", "finish"}
      <4>1. Holds(r, t)'
        BY <3>3, HoldsStay DEF DrivingPc
      <4>2. runner'[r].turn = t
        BY <3>3, DriverStays DEF DrivingPc
      <4>3. runner'[r].pc # "check"
        <5>1. Owns(r, runner[r].turn)'
          BY <4>1, <4>2 DEF Holds, Owns, IsActive
        <5>2. LetGo'
          BY LetGoStays
        <5>3. Unharmed({"lock_busy"})'
          BY DEF Calm, Unharmed
        <5> QED
          BY <5>1, <5>2, <5>3 DEF LetGo, Pcs
      <4>4. runner'[r].pc \in {"drive", "finish", "check"}
        <5>1. ASSUME NEW q \in Runner, RunnerStep(q) \/ RunnerTrouble(q)
              PROVE  runner'[r].pc \in {"drive", "finish", "check"}
          <6>1. ~Kill(q)
            BY FaultEffect DEF Kill, Calm, Unharmed
          <6> QED
            BY <3>3, <5>1, <6>1, RunnerMoves DEF RunnerMove, PcStep
        <5>2. ASSUME NEW q \in Runner, NEW u \in Turn, Claim(q, u)
              PROVE  runner'[r].pc \in {"drive", "finish", "check"}
          BY <3>3, <5>2, ClaimEffect DEF Claim
        <5> QED
          BY <3>3, <5>1, <5>2, AllMoves, OtherMoves
      <4> QED
        BY <4>1, <4>2, <4>3, <4>4
    <3> QED
      BY <1>0, <2>1, <3>1, <3>2, <3>3
  <2>2. CASE posted'[t] # posted[t]
    <3>1. PICK q \in Runner : /\ PostPrompt(q) /\ runner[q].turn = t
                              /\ posted'[t] = IF posted[t] = 2 THEN 2 ELSE posted[t] + 1
      BY <2>2, PostedChanges
    <3>2. runner[q].pc = "post" /\ runner[q].pc \in DrivingPc
      BY <3>1 DEF PostPrompt, DrivingPc
    <3>3. posted'[t] = 1
      BY <1>0, <3>1, <3>2
    <3>4. runner'[q].pc = "drive" /\ runner'[q].turn = t
      BY <3>1, AtEffect DEF PostPrompt, Pc
    <3>5. Holds(q, t)' \/ turn'[t].status \in Ended
      BY <1>0, <3>1, <3>2, HoldsStay, EndedStays
    <3> QED
      BY <3>3, <3>4, <3>5
  <2> QED
    BY <2>1, <2>2
<1> QED
  BY <1>1, <1>3, <1>4, <1>5 DEF OncePosted, Driving, Pcs, DrivingPc, Holds

-----------------------------------------------------------------------------
(* The turn held without the slot                                            *)

\* What ends a turn.
LEMMA TurnEnds ==
    ASSUME TypeOK, Owners, Next, NEW t \in Turn, turn[t].status \notin Ended,
           turn'[t].status \in Ended
    PROVE  \/ sending[t] = "undo" \/ ~LiveOwner(t)
           \/ \E q \in Runner : /\ runner[q].pc \in {"finish", "giveup"}
                                /\ turn[t].owner = q
<1>0. turn'[t].status # turn[t].status
  OBVIOUS
<1>1. ASSUME NEW u \in Turn, TurnMove(u)
      PROVE  sending[t] = "undo" \/ ~LiveOwner(t)
  <2>1. CASE QueueTurn(u)
    BY <1>0, <2>1 DEF QueueTurn, TypeOK, TurnState, Ended
  <2>2. CASE UndoTurn(u)
    BY <1>0, <2>2, EndEffect DEF UndoTurn, Verdict
  <2>3. CASE GoStale(u)
    BY <1>0, <2>3, StaleEffect DEF GoStale
  <2>4. CASE Expire(u)
    BY <1>0, <2>4 DEF Expire, TypeOK
  <2> QED
    BY <1>0, <1>1, <2>1, <2>2, <2>3, <2>4
       DEF TurnMove, Send, CommitMessage, NoRunner, CommitFails
<1>2. ASSUME NEW r \in Runner, NEW u \in Turn, Claim(r, u)
      PROVE  FALSE
  BY <1>0, <1>2, ClaimEffect DEF Ended
<1>3. ASSUME NEW r \in Runner, RunnerStep(r) \/ RunnerTrouble(r)
      PROVE  runner[r].pc \in {"finish", "giveup"} /\ turn[t].owner = r
  <2>1. CASE SandboxUp(r)
    BY <1>0, <2>1, StaleEffect DEF SandboxUp, Owners
  <2>2. CASE SandboxTooLate(r) \/ CloseStream(r) \/ Kill(r)
    BY <1>0, <2>2, LeaveEffect DEF SandboxTooLate, CloseStream, Kill
  <2>3. CASE TouchFails(r)
    BY <1>0, <2>3, LeaveEffect DEF TouchFails
  <2>4. CASE FinishFails(r)
    BY <1>0, <2>4, LeaveEffect DEF FinishFails
  <2>5. CASE FinishTurn(r)
    <3> DEFINE u == runner[r].turn
    <3>1. u \in Turn /\ runner[r].verdict \in Verdict
      BY <2>5 DEF FinishTurn, Owners, TypeOK, RunnerState
    <3>2. MayFinish(r, u) => Finish(u, runner[r].verdict)
      BY <2>5 DEF FinishTurn
    <3>3. ~MayFinish(r, u) => UNCHANGED turn
      BY <2>5 DEF FinishTurn
    <3>4. MayFinish(r, u) /\ t = u
      BY <1>0, <3>1, <3>2, <3>3, EndEffect
    <3> QED
      BY <2>5, <3>4 DEF FinishTurn, MayFinish
  <2>6. ASSUME ~SandboxUp(r), ~SandboxTooLate(r), ~CloseStream(r), ~Kill(r), ~TouchFails(r),
               ~FinishFails(r), ~FinishTurn(r)
        PROVE  UNCHANGED turn
    BY <1>3, <2>6
       DEF RunnerStep, RunnerTrouble, SandboxFails, TakeSlot, SlotRefused, CheckFence, PostPrompt,
           PostFails, PromptEnds, AbortTurn, LoseTurn, ClearFence, ClearLate, ReleaseSlot,
           SlotFailsOpen, PersistFails, PauseBeforeClear
  <2> QED
    BY <1>0, <2>1, <2>2, <2>3, <2>4, <2>5, <2>6
<1>4. ~WorldStep
  BY <1>0
     DEF WorldStep, PressStop, FenceExpires, SlotExpires, OrphanEnds, ReadActive, DropActive
<1> QED
  BY <1>1, <1>2, <1>3, <1>4, AllMoves

\* Without the losses, a runner at work keeps what it holds.
LEMMA HoldKept ==
    ASSUME TypeOK, Owners, TurnHeld, Next, Unharmed(Losses)', NEW r \in Runner, NEW t \in Turn,
           Holds(r, t), runner[r].pc \notin {"ensure", "giveup", "finish"},
           runner'[r].pc # "idle"
    PROVE  turn'[t].status = "RUNNING" /\ turn'[t].owner = r /\ ~turn'[t].stale
<1>0. "not_saved" \notin faults'.hazards /\ "stalled" \notin faults'.hazards
  BY DEF Unharmed, Losses
<1>1. turn'[t].status \notin Ended
  <2>1. sending[t] # "undo"
    BY <1>0, HazardsGrow DEF TurnHeld
  <2>2. LiveOwner(t)
    BY DEF LiveOwner, Holds
  <2>3. turn[t].status \notin Ended
    BY DEF Holds, Ended
  <2> QED
    BY <2>1, <2>2, <2>3, TurnEnds DEF Holds
<1>2. ~Claimable(t) /\ turn[t].status # "absent"
  BY DEF Claimable, Holds
<1>3. Kept(t)
  BY <1>1, <1>2, TurnChanges DEF TurnChange
<1>4. turn'[t].owner = r
  BY <1>3, OwnerGoes DEF Kept, Holds
<1>5. ~GoStale(t)
  BY <1>0, FaultEffect DEF GoStale, LiveOwner, Holds
<1>6. ~turn'[t].stale
  BY <1>5, StaleChanges DEF Holds
<1> QED
  BY <1>3, <1>4, <1>6 DEF Kept, Holds

LEMMA TurnStaysHeld ==
    ASSUME TypeOK, Owners, PromptsDriven, TurnHeld, Next
    PROVE  TurnHeld'
<1> DEFINE early == {"slot", "fence", "post", "drive"}
<1>1. ASSUME NEW t \in Turn, sending'[t] = "undo"
      PROVE  "not_saved" \in faults'.hazards
  <2>1. sending[t] = "undo" => "not_saved" \in faults'.hazards
    BY HazardsGrow DEF TurnHeld
  <2>2. ASSUME NEW u \in Turn, TurnMove(u), ~CommitFails(u)
        PROVE  sending[t] = "undo"
    BY <1>1, <2>2 DEF TurnMove, QueueTurn, Send, CommitMessage, UndoTurn, NoRunner, GoStale,
                      Expire, TypeOK
  <2>3. ASSUME NEW u \in Turn, CommitFails(u)
        PROVE  "not_saved" \in faults'.hazards
    BY <2>3, FaultEffect DEF CommitFails
  <2>4. ASSUME NEW q \in Runner, NEW u \in Turn, Claim(q, u)
        PROVE  sending[t] = "undo"
    BY <1>1, <2>4 DEF Claim, TypeOK
  <2>5. ASSUME NEW q \in Runner, RunnerStep(q) \/ RunnerTrouble(q)
        PROVE  sending' = sending
    BY <2>5
       DEF RunnerStep, RunnerTrouble, SandboxUp, SandboxTooLate, SandboxFails, TakeSlot,
           SlotRefused, CheckFence, PostPrompt, PostFails, PromptEnds, AbortTurn, LoseTurn,
           FinishTurn, ClearFence, ClearLate, ReleaseSlot, CloseStream, SlotFailsOpen, TouchFails,
           PersistFails, FinishFails, PauseBeforeClear, Kill
  <2>6. WorldStep => sending' = sending
    BY DEF WorldStep, PressStop, FenceExpires, SlotExpires, OrphanEnds, ReadActive, DropActive
  <2> QED
    BY <1>1, <2>1, <2>2, <2>3, <2>4, <2>5, <2>6, AllMoves
<1>2. ASSUME Unharmed(Losses)', NEW r \in Runner, runner'[r].pc \in early \/ r \in inflight'
      PROVE  Holds(r, runner[r].turn)' /\ runner'[r].turn = runner[r].turn
             /\ ~(r \in inflight' /\ runner'[r].pc = "finish")
  <2> DEFINE t == runner[r].turn
             driven == {"drive", "finish", "check", "clear", "release", "close"}
  <2>0. Unharmed(Losses) /\ "not_persisted" \notin faults'.hazards
    BY <1>2, HazardsGrow DEF Unharmed, Losses
  <2>1. runner[r].pc \in early \/ r \in inflight
            => Holds(r, t) /\ ~(r \in inflight /\ runner[r].pc = "finish")
    BY <2>0 DEF TurnHeld, Working, Pcs
  <2>2. r \in inflight => runner[r].pc \in driven
    BY DEF PromptsDriven, Pcs
  <2>3. r \in inflight' => runner'[r].pc \in driven
    BY PromptsStayDriven DEF PromptsDriven, Pcs
  <2>4. runner'[r].pc # "idle"
    BY <1>2, <2>3
  \* The runner posts from "post", and nobody posts for it.
  <2>5. ASSUME r \in inflight', r \notin inflight
        PROVE  PostPrompt(r)
    <3>1. ASSUME NEW q \in Runner, RunnerStep(q) \/ RunnerTrouble(q), ~PostPrompt(q)
          PROVE  FALSE
      BY <2>5, <3>1, TurnsAssumption
         DEF RunnerStep, RunnerTrouble, SandboxUp, SandboxTooLate, SandboxFails, TakeSlot,
             SlotRefused, CheckFence, PostFails, PromptEnds, AbortTurn, LoseTurn, FinishTurn,
             ClearFence, ClearLate, ReleaseSlot, CloseStream, SlotFailsOpen, TouchFails,
             PersistFails, FinishFails, PauseBeforeClear, Kill
    <3>2. ASSUME NEW q \in Runner, PostPrompt(q)
          PROVE  q = r
      BY <2>5, <3>2 DEF PostPrompt
    <3>3. ASSUME NEW q \in Runner, NEW u \in Turn, Claim(q, u)
          PROVE  FALSE
      BY <2>5, <3>3 DEF Claim
    <3> QED
      BY <2>5, <3>1, <3>2, <3>3, AllMoves, OtherMoves
  <2>6. CASE runner[r].pc \in early \/ r \in inflight
    <3>1. Holds(r, t) /\ runner[r].pc \notin {"idle", "ensure", "giveup", "finish"}
      BY <2>1, <2>2, <2>6
    <3>2. t \in Turn
      BY <3>1 DEF Owners
    <3>3. turn'[t].status = "RUNNING" /\ turn'[t].owner = r /\ ~turn'[t].stale
      BY <1>2, <2>4, <3>1, <3>2, HoldKept
    <3>4. ASSUME NEW q \in Runner, NEW u \in Turn, Claim(q, u)
          PROVE  runner'[r] = runner[r]
      BY <3>1, <3>4, ClaimEffect DEF Claim
    <3>5. ASSUME NEW q \in Runner, RunnerStep(q) \/ RunnerTrouble(q), q # r
          PROVE  runner'[r] = runner[r]
      BY <3>5, RunnerMoves DEF RunnerMove
    <3>6. ASSUME RunnerStep(r) \/ RunnerTrouble(r)
          PROVE  PcStep(r) /\ runner'[r].turn = t
      BY <2>4, <3>6, RunnerMoves DEF RunnerMove
    <3>7. runner'[r].turn = t
      BY <3>4, <3>5, <3>6, AllMoves, OtherMoves
    <3>8. ASSUME r \in inflight', runner'[r].pc = "finish"
          PROVE  FALSE
      <4>1. ~PostPrompt(r)
        BY <3>8, AtEffect DEF PostPrompt, Pc
      <4>2. r \in inflight /\ runner[r].pc \in driven
        BY <2>2, <2>5, <3>8, <4>1
      <4>3. runner'[r].pc # runner[r].pc
        BY <3>1, <3>8
      <4>4. (RunnerStep(r) \/ RunnerTrouble(r)) /\ runner[r].pc = "drive"
        BY <3>4, <3>5, <3>6, <3>8, <4>2, <4>3, AllMoves, OtherMoves DEF PcStep
      <4>5. ~PromptEnds(r) /\ ~AbortTurn(r)
        BY <3>8 DEF PromptEnds, AbortTurn
      <4>6. ~PersistFails(r)
        BY <2>0, FaultEffect DEF PersistFails
      <4>7. ~LoseTurn(r)
        BY <3>8, AtEffect DEF LoseTurn, Pc
      <4>8. ~TouchFails(r)
        BY <3>8, <4>4, AtEffect DEF TouchFails, Pc
      <4>9. ~Kill(r)
        BY <2>4, LeaveEffect DEF Kill
      <4> QED
        BY <4>4, <4>5, <4>6, <4>7, <4>8, <4>9
           DEF RunnerStep, RunnerTrouble, SandboxUp, SandboxTooLate, SandboxFails, TakeSlot,
               SlotRefused, CheckFence, PostPrompt, PostFails, FinishTurn, ClearFence, ClearLate,
               ReleaseSlot, CloseStream, SlotFailsOpen, FinishFails, PauseBeforeClear
    <3> QED
      BY <3>3, <3>7, <3>8 DEF Holds
  <2>7. CASE ~(runner[r].pc \in early \/ r \in inflight)
    <3>1. r \notin inflight'
      BY <2>5, <2>7 DEF PostPrompt
    <3>2. runner[r].pc # "finish"
      <4>1. ASSUME runner[r].pc = "finish"
            PROVE  FALSE
        <5>1. ASSUME NEW q \in Runner, NEW u \in Turn, Claim(q, u)
              PROVE  FALSE
          BY <1>2, <3>1, <4>1, <5>1, ClaimEffect
        <5>2. ASSUME NEW q \in Runner, RunnerStep(q) \/ RunnerTrouble(q)
              PROVE  FALSE
          BY <1>2, <3>1, <4>1, <5>2, RunnerMoves DEF RunnerMove, PcStep
        <5> QED
          BY <1>2, <3>1, <4>1, <5>1, <5>2, AllMoves, OtherMoves
      <4> QED
        BY <4>1
    <3>3. SandboxUp(r) /\ runner'[r].turn = t /\ runner'[r].pc = "slot"
      BY <1>2, <2>7, <3>1, <3>2, DriverComes DEF DrivingPc
    <3>4. t \in Turn
      BY <3>3 DEF SandboxUp, Owners
    <3>5. turn[t].status = "RUNNING" /\ turn[t].owner = r
      BY <3>3, <3>4, TurnsAssumption DEF SandboxUp, Owns, IsActive, Owners
    <3>6. /\ ~turn'[t].stale
          /\ turn'[t].status = turn[t].status /\ turn'[t].owner = turn[t].owner
      BY <3>3, <3>4, StaleEffect DEF SandboxUp
    <3> QED
      BY <3>1, <3>3, <3>5, <3>6 DEF Holds
  <2> QED
    BY <2>6, <2>7
<1> QED
  BY <1>1, <1>2 DEF TurnHeld, Working, Pcs, Holds

-----------------------------------------------------------------------------
(* The invariant                                                             *)

LEMMA IInvInit == Init => IInv
<1> SUFFICES ASSUME Init PROVE IInv
  OBVIOUS
<1>1. TypeOK
  <2>1. NoTurn \in TurnState /\ Idle \in RunnerState
    BY DEF NoTurn, TurnState, Status, Idle, RunnerState, Pc, Verdict
  <2> QED
    BY <2>1, TurnsAssumption DEF Init, TypeOK
<1>2. \A r \in Runner : runner[r].pc = "idle"
  BY DEF Init, Idle
<1>3. \A t \in Turn : turn[t].status = "absent" /\ turn[t].owner = Nobody /\ posted[t] = 0
  BY DEF Init, NoTurn
<1>4. Owners /\ SlotHeld /\ PromptsDriven
  BY <1>2, <1>3 DEF Init, Owners, SlotHeld, PromptsDriven, Pcs
<1>5. ActivePointed /\ LetGo
  BY <1>2, <1>3 DEF ActivePointed, LetGo, IsActive, Pcs
<1>6. OncePosted
  BY <1>2, <1>3 DEF OncePosted, Driving, Pcs
<1>7. TurnHeld
  BY <1>2 DEF Init, TurnHeld, Working, Pcs
<1> QED
  BY <1>1, <1>4, <1>5, <1>6, <1>7 DEF IInv

LEMMA IInvStep == IInv /\ [Next]_vars => IInv'
<1> SUFFICES ASSUME IInv, [Next]_vars PROVE IInv'
  OBVIOUS
<1>1. CASE Next
  BY <1>1, TypesKept, OwnersStay, SlotStaysHeld, PromptsStayDriven, PointerStays, LetGoStays,
     OncePostedStays, TurnStaysHeld DEF IInv
<1>2. CASE UNCHANGED vars
  <2> USE <1>2 DEF IInv, vars
  <2>1. TypeOK' /\ Owners'
    BY DEF TypeOK, Owners
  <2>2. SlotHeld' /\ PromptsDriven' /\ ActivePointed' /\ LetGo'
    BY DEF SlotHeld, PromptsDriven, ActivePointed, LetGo, Unharmed, Pcs, IsActive, Owns
  <2>3. OncePosted'
    BY DEF OncePosted, Unharmed, Driving, Holds, Pcs
  <2>4. TurnHeld'
    BY DEF TurnHeld, Unharmed, Working, Holds, Pcs
  <2> QED
    BY <2>1, <2>2, <2>3, <2>4
<1> QED
  BY <1>1, <1>2

LEMMA IInvAlways == Spec => []IInv
BY IInvInit, IInvStep, PTL DEF Spec

-----------------------------------------------------------------------------
(* Theorems                                                                  *)

\* The cache, the runner threads and opencode keep their types through every step of
\* executor.py, state.py and send_message.
THEOREM TypeCorrect == Spec => []TypeOK
<1>1. IInv => TypeOK
  BY DEF IInv
<1> QED
  BY <1>1, IInvAlways, PTL

\* The prompts of a session stay apart: whoever has one open holds the slot of
\* prompt_slot, unless the slot failed open or a lease ran out; and holds the active
\* turn, unless it stalled or its turn was ended over its head.
THEOREM PromptsApart == Spec => []OneInFlight
<1> DEFINE open == {r \in inflight \cap Runner : runner[r].pc # "close"}
<1>1. ASSUME NEW x, open \subseteq {x}
      PROVE  Cardinality(open) <= 1
  <2>1. IsFiniteSet({x}) /\ Cardinality({x}) = 1
    BY FS_Singleton
  <2>2. IsFiniteSet(open) /\ Cardinality(open) <= Cardinality({x})
    BY <1>1, <2>1, FS_Subset
  <2> QED
    BY <2>1, <2>2
<1>2. ASSUME IInv, Unharmed({"cache_down", "overrun"})
      PROVE  open \subseteq {slot}
  BY <1>2 DEF IInv, PromptsDriven, SlotHeld, Pcs
<1>3. ASSUME IInv, Unharmed(Losses)
      PROVE  open \subseteq {turn[active].owner}
  <2>1. ASSUME NEW r \in open
        PROVE  r = turn[active].owner
    <3>1. Holds(r, runner[r].turn) /\ runner[r].turn \in Turn
      BY <1>3, <2>1 DEF IInv, TurnHeld, Working, Owners, PromptsDriven, Pcs
    <3>2. active = runner[r].turn
      BY <1>3, <3>1 DEF IInv, ActivePointed, Unharmed, Losses, Holds, IsActive
    <3> QED
      BY <3>1, <3>2 DEF Holds
  <2> QED
    BY <2>1
<1>4. IInv => OneInFlight
  BY <1>1, <1>2, <1>3 DEF OneInFlight
<1> QED
  BY <1>4, IInvAlways, PTL

\* claim_turn_for_runner and the 90 seconds of a heartbeat let no second runner post
\* the prompt of a turn.
THEOREM PromptPostedOnce == Spec => []PostedOnce
<1>1. IInv => PostedOnce
  BY DEF IInv, TypeOK, OncePosted, PostedOnce
<1> QED
  BY <1>1, IInvAlways, PTL

\* create_turn and the turn lock keep a session at one active turn.
THEOREM ActiveTurnAlone == Spec => []OneActiveTurn
<1>1. IInv => OneActiveTurn
  <2> SUFFICES ASSUME IInv, Unharmed({"late_delete"})
               PROVE  Cardinality({t \in Turn : IsActive(t)}) <= 1
    BY DEF OneActiveTurn
  <2> DEFINE live == {t \in Turn : IsActive(t)}
  <2>1. live \subseteq {active}
    BY DEF IInv, ActivePointed
  <2>2. IsFiniteSet({active}) /\ Cardinality({active}) = 1
    BY FS_Singleton
  <2>3. IsFiniteSet(live) /\ Cardinality(live) <= Cardinality({active})
    BY <2>1, <2>2, FS_Subset
  <2> QED
    BY <2>2, <2>3
<1> QED
  BY <1>1, IInvAlways, PTL

\* finish_turn and claim_turn_for_runner leave a turn that has ended as it is.
THEOREM VerdictStays == Spec => VerdictIsFinal
<1>1. ASSUME IInv, [Next]_vars, NEW t \in Turn, turn[t].status \in Ended, sending[t] # "undo"
      PROVE  turn'[t].status = turn[t].status
  <2>1. CASE Next
    <3>1. TurnChange(t)
      BY <1>1, <2>1, TurnChanges DEF IInv
    <3> QED
      BY <1>1, <3>1 DEF TurnChange, Kept, Claimable, IsActive, Ended
  <2>2. CASE UNCHANGED vars
    BY <2>2 DEF vars
  <2> QED
    BY <1>1, <2>1, <2>2
<1>2. IInv /\ [Next]_vars
        => [\A t \in Turn : turn[t].status \in Ended /\ sending[t] # "undo"
               => turn'[t].status = turn[t].status]_vars
  BY <1>1
<1> QED
  BY <1>2, IInvAlways, PTL DEF Spec, VerdictIsFinal

\* _can_clear_interrupt_fence leaves the fence of a turn that somebody else still runs.
LEMMA FenceStays ==
    ASSUME IInv, Next, Unharmed({"lock_busy", "late_clear", "late_delete"}),
           fence \in Turn, IsActive(fence), fence' = "off"
    PROVE  FenceExpires
<1>1. fence' # fence
  BY TurnsAssumption
<1>2. active = fence /\ ActiveTurn = fence /\ ActiveTurn # Nobody
  BY TurnsAssumption DEF IInv, ActivePointed, Unharmed, ActiveTurn
<1>3. ASSUME NEW r \in Runner, RunnerStep(r) \/ RunnerTrouble(r)
      PROVE  FALSE
  <2>1. ~ClearLate(r)
    BY DEF ClearLate, IInv, LetGo, Pcs, Unharmed
  <2>2. ClearFence(r)
    BY <1>1, <1>3, <2>1
       DEF RunnerStep, RunnerTrouble, SandboxUp, SandboxTooLate, SandboxFails, TakeSlot,
           SlotRefused, CheckFence, PostPrompt, PostFails, PromptEnds, AbortTurn, LoseTurn,
           FinishTurn, ReleaseSlot, CloseStream, SlotFailsOpen, TouchFails, PersistFails,
           FinishFails, PauseBeforeClear, Kill
  <2>3. CanClear(r)
    BY <1>1, <2>2 DEF ClearFence
  <2>4. Owns(r, runner[r].turn) /\ runner[r].pc = "check"
    BY <1>2, <2>2, <2>3 DEF CanClear, ClearFence, Owns
  <2> QED
    BY <2>4 DEF IInv, LetGo, Pcs, Unharmed
<1>4. ~PressStop
  BY <1>1, <1>2 DEF PressStop
<1>5. ASSUME NEW t \in Turn, TurnMove(t)
      PROVE  FALSE
  BY <1>1, <1>5
     DEF TurnMove, QueueTurn, Send, CommitMessage, UndoTurn, NoRunner, CommitFails, GoStale, Expire
<1>6. ASSUME NEW r \in Runner, NEW t \in Turn, Claim(r, t)
      PROVE  FALSE
  BY <1>1, <1>6 DEF Claim
<1>7. CASE WorldStep
  BY <1>1, <1>4, <1>7 DEF WorldStep, SlotExpires, OrphanEnds, ReadActive, DropActive
<1> QED
  BY <1>3, <1>5, <1>6, <1>7, AllMoves

\* An interrupt is not taken back by a runner of another turn.
THEOREM InterruptKept == Spec => InterruptNotLost
<1>1. IInv /\ [Next]_vars
        => [ /\ Unharmed({"lock_busy", "late_clear", "late_delete"})
             /\ fence \in Turn /\ IsActive(fence) /\ fence' = "off"
             => FenceExpires ]_vars
  BY FenceStays
<1> QED
  BY <1>1, IInvAlways, PTL DEF Spec, InterruptNotLost
=============================================================================

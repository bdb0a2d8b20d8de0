------------------------- MODULE ApprovalGate_proofs -------------------------
(* The safety properties of ApprovalGate, for every set of requests, calls    *)
(* and action types, every pattern of needs and every number of faults.       *)
EXTENDS ApprovalGate, TLAPS

-----------------------------------------------------------------------------
(* The inductive invariant                                                   *)

\* A request has a row from its insert on, and waits for credentials only when it
\* is approved.
FollowsFlow(r) ==
    /\ flow[r].pc \in {"new", "persist"} => row[r].decision = "absent"
    /\ row[r].decision = "absent" => /\ flow[r].pc \in {"new", "persist", "done"}
                                     /\ r \notin parked \cup undrained
    /\ flow[r].pc \in {"grant", "dispatch"} => row[r].decision = "APPROVED"
    /\ flow[r].pc = "ghost" => /\ "early_disconnect" \in faults.hazards
                               /\ flow[r].outcome = "client_gone"
    /\ flow[r].pc \notin {"ghost", "done"} => flow[r].outcome = "-"
RowFollowsFlow == \A r \in Request : FollowsFlow(r)

\* A wake says what the row says, unless the row is gone.
WakesTrue ==
    \A r \in Request : \A d \in wake[r] :
        row[r].decision = d \/ (d = "EXPIRED" /\ ~session)

\* What an API call is about to announce is recorded.
CallsTrue ==
    \A c \in Call :
        /\ call[c].pc \in {"record", "wake", "grant", "grant_wake"} => call[c].req \in Request
        /\ call[c].pc = "wake" => row[call[c].req].decision = call[c].decision
        /\ call[c].pc = "grant_wake" => row[call[c].req].decision = "APPROVED"
        /\ call[c].pc = "wake_all" =>
               \A r \in call[c].rows : row[r].decision = "APPROVED"

\* All that counts as granted goes back to what the user granted, and, as long as
\* there is a session, to its rows.
GrantsTraced ==
    /\ GrantsDoNotSpread
    /\ session => cached \subseteq GrantedBy(GrantRows)
    /\ \A c \in Call :
        /\ call[c].granted \subseteq GrantedBy(chosen)
        /\ session => call[c].granted \subseteq GrantedBy(GrantRows)
        /\ call[c].pc = "cover" => \A r \in call[c].rows : Covers(r, call[c].granted)

\* A request that waits although a grant covers it is yet to be reached by the call
\* that grants, or that call has died.
Reached(c, r) ==
    \/ call[c].pc \in {"grant_wake", "sources", "died"}
    \/ call[c].pc = "list" /\ Covers(r, call[c].granted)
    \/ call[c].pc = "cover" /\ r \in call[c].rows
GrantOnItsWay ==
    \A r \in Request :
        /\ "recheck_error" \notin faults.hazards
        /\ flow[r].pc = "wait" /\ Live(r) /\ Covers(r, GrantedBy(GrantRows))
        => \E c \in Call : Reached(c, r)

IInv ==
    /\ TypeOK /\ RowFollowsFlow /\ WakesTrue /\ CallsTrue
    /\ AnswerMatchesRow /\ RowsSettled
    /\ GrantsTraced /\ GrantOnItsWay

-----------------------------------------------------------------------------
(* What the operators do                                                     *)

LEMMA StepEffect ==
    ASSUME TypeOK, NEW r \in Request, NEW pc \in FlowPc, Step(r, pc)
    PROVE  /\ flow' \in [Request -> Flow]
           /\ flow'[r].pc = pc /\ flow'[r].outcome = flow[r].outcome
           /\ \A q \in Request \ {r} : flow'[q] = flow[q]
BY DEF TypeOK, Flow, Step

LEMMA FinishEffect ==
    ASSUME TypeOK, NEW r \in Request, NEW outcome \in Outcome, Finish(r, outcome)
    PROVE  /\ flow' \in [Request -> Flow]
           /\ flow'[r].pc = "done" /\ flow'[r].outcome = outcome
           /\ \A q \in Request \ {r} : flow'[q] = flow[q]
BY DEF TypeOK, Flow, FlowPc, Finish

LEMMA DecideEffect ==
    ASSUME TypeOK, NEW r \in Request, NEW decision \in Decision, NEW via \in Via,
           Decide(r, decision, via)
    PROVE  /\ row' \in [Request -> Row]
           /\ Undecided(r) => row'[r].decision = decision /\ row'[r].via = via
           /\ ~Undecided(r) => row'[r] = row[r]
           /\ \A q \in Request \ {r} : row'[q] = row[q]
BY DEF TypeOK, Row, Decide

\* The winner of an expiry is what the row then says, or "EXPIRED" without a row.
LEMMA ClaimEffect ==
    ASSUME TypeOK, NEW r \in Request, row[r].decision # "absent", Claim(r)
    PROVE  /\ row' \in [Request -> Row]
           /\ \A q \in Request \ {r} : row'[q] = row[q]
           /\ Winner(r) \in Decision
           /\ session => row'[r].decision = Winner(r)
           /\ row[r].decision \in Decision => row'[r] = row[r]
           /\ ~session => row'[r] = row[r] /\ Winner(r) = "EXPIRED"
           /\ Undecided(r) => row'[r].decision = "EXPIRED" /\ row'[r].via = "-"
<1>1. "EXPIRED" \in Decision /\ "-" \in Via
  BY DEF Decision, Via
<1>2. /\ row' \in [Request -> Row]
      /\ Undecided(r) => row'[r].decision = "EXPIRED" /\ row'[r].via = "-"
      /\ ~Undecided(r) => row'[r] = row[r]
      /\ \A q \in Request \ {r} : row'[q] = row[q]
  BY <1>1, DecideEffect DEF Claim
<1>3. row[r].decision \in Decision \cup Null
  BY DEF TypeOK, Row
<1>4. Decision \cap Null = {}
  BY DEF Decision, Null
<1> QED
  BY <1>1, <1>2, <1>3, <1>4 DEF Winner, Undecided

LEMMA FaultEffect ==
    ASSUME TypeOK, Fault
    PROVE  /\ faults' \in [count : 0..MaxFaults, hazards : SUBSET HazardKinds]
           /\ faults'.hazards = faults.hazards
BY GateAssumption DEF TypeOK, Fault

LEMMA HazardEffect ==
    ASSUME TypeOK, NEW kind, Hazard(kind)
    PROVE  /\ faults' \in [count : 0..MaxFaults, hazards : SUBSET HazardKinds]
           /\ faults'.hazards = faults.hazards \cup {kind}
BY GateAssumption DEF TypeOK, Hazard

LEMMA PushEffect ==
    ASSUME TypeOK, NEW r \in Request, NEW decision \in Decision, Push(r, decision)
    PROVE  /\ wake' \in [Request -> SUBSET Decision]
           /\ wake'[r] = wake[r] \cup {decision}
           /\ \A q \in Request \ {r} : wake'[q] = wake[q]
BY DEF TypeOK, Push

LEMMA AtEffect ==
    ASSUME TypeOK, NEW c \in Call, NEW pc \in CallPc, At(c, pc)
    PROVE  /\ call' \in [Call -> CallState]
           /\ call'[c].pc = pc /\ call'[c].req = call[c].req
           /\ call'[c].decision = call[c].decision
           /\ call'[c].granted = call[c].granted /\ call'[c].rows = call[c].rows
           /\ \A d \in Call \ {c} : call'[d] = call[d]
BY DEF TypeOK, CallState, At

LEMMA ReturnEffect ==
    ASSUME TypeOK, NEW c \in Call, NEW pc \in CallPc, Return(c, pc)
    PROVE  /\ call' \in [Call -> CallState]
           /\ call'[c].pc = pc /\ call'[c].granted = {} /\ call'[c].rows = {}
           /\ \A d \in Call \ {c} : call'[d] = call[d]
BY DEF TypeOK, CallState, Return, NewCall, Decision

LEMMA SubmitEffect ==
    ASSUME TypeOK, NEW c \in Call, NEW pc \in CallPc, NEW r \in Request,
           NEW decision \in Decision,
           call' = [call EXCEPT ![c] = NewCall(pc, r, decision)]
    PROVE  /\ call' \in [Call -> CallState]
           /\ call'[c].pc = pc /\ call'[c].req = r
           /\ call'[c].granted = {} /\ call'[c].rows = {}
           /\ \A d \in Call \ {c} : call'[d] = call[d]
BY DEF TypeOK, CallState, NewCall

LEMMA RowsEffect ==
    ASSUME TypeOK, NEW c \in Call, NEW pc \in CallPc, NEW rows \in SUBSET Request,
           call' = [call EXCEPT ![c].pc = pc, ![c].rows = rows]
    PROVE  /\ call' \in [Call -> CallState]
           /\ call'[c].pc = pc /\ call'[c].rows = rows
           /\ call'[c].req = call[c].req /\ call'[c].granted = call[c].granted
           /\ \A d \in Call \ {c} : call'[d] = call[d]
<1>1. call[c] \in CallState
  BY DEF TypeOK
<1>2. call' = [call EXCEPT ![c] = [call[c] EXCEPT !.pc = pc, !.rows = rows]]
  BY DEF TypeOK
<1>3. [call[c] EXCEPT !.pc = pc, !.rows = rows] \in CallState
  BY <1>1 DEF CallState
<1> QED
  BY <1>1, <1>2, <1>3 DEF TypeOK, CallState

LEMMA GrantedEffect ==
    ASSUME TypeOK, NEW c \in Call, NEW pc \in CallPc, NEW granted \in SUBSET ActionType,
           call' = [call EXCEPT ![c].pc = pc, ![c].granted = granted]
    PROVE  /\ call' \in [Call -> CallState]
           /\ call'[c].pc = pc /\ call'[c].granted = granted
           /\ call'[c].req = call[c].req /\ call'[c].rows = call[c].rows
           /\ \A d \in Call \ {c} : call'[d] = call[d]
<1>1. call[c] \in CallState
  BY DEF TypeOK
<1>2. call' = [call EXCEPT ![c] = [call[c] EXCEPT !.pc = pc, !.granted = granted]]
  BY DEF TypeOK
<1>3. [call[c] EXCEPT !.pc = pc, !.granted = granted] \in CallState
  BY <1>1 DEF CallState
<1> QED
  BY <1>1, <1>2, <1>3 DEF TypeOK, CallState

LEMMA LessEffect ==
    ASSUME TypeOK, NEW c \in Call, NEW r, call' = [call EXCEPT ![c].rows = @ \ {r}]
    PROVE  /\ call' \in [Call -> CallState]
           /\ call'[c].pc = call[c].pc /\ call'[c].rows = call[c].rows \ {r}
           /\ call'[c].req = call[c].req /\ call'[c].granted = call[c].granted
           /\ \A d \in Call \ {c} : call'[d] = call[d]
<1>1. call[c] \in CallState
  BY DEF TypeOK
<1>2. call' = [call EXCEPT ![c] = [call[c] EXCEPT !.rows = @ \ {r}]]
  BY DEF TypeOK
<1>3. [call[c] EXCEPT !.rows = @ \ {r}] \in CallState
  BY <1>1 DEF CallState
<1> QED
  BY <1>1, <1>2, <1>3 DEF TypeOK, CallState

LEMMA EndsEffect ==
    ASSUME TypeOK, ProxyEnds
    PROVE  /\ flow' \in [Request -> Flow]
           /\ \A r \in Request :
                 \/ /\ flow[r].pc \in {"new", "done"} /\ flow'[r] = flow[r]
                 \/ /\ flow[r].pc \notin {"new", "ghost", "done"}
                    /\ flow'[r].pc = "done" /\ flow'[r].outcome = "proxy_gone"
                 \/ /\ flow[r].pc = "ghost"
                    /\ flow'[r].pc = "done" /\ flow'[r].outcome = flow[r].outcome
<1>1. \A r \in Request : flow[r] \in Flow
  BY DEF TypeOK
<1>2. "proxy_gone" \in Outcome /\ "done" \in FlowPc
  BY DEF Outcome, FlowPc
<1>3. \A r \in Request :
        [flow[r] EXCEPT !.pc = "done"] = [pc |-> "done", outcome |-> flow[r].outcome]
  BY <1>1 DEF Flow
<1>4. flow' = [r \in Request |->
                  IF r \in InFlight THEN [pc |-> "done", outcome |-> "proxy_gone"]
                  ELSE IF flow[r].pc = "ghost" THEN [flow[r] EXCEPT !.pc = "done"]
                  ELSE flow[r]]
  BY DEF ProxyEnds
<1>5. \A r \in Request : r \in InFlight <=> flow[r].pc \notin {"new", "ghost", "done"}
  BY DEF InFlight
<1>6. \A r \in Request :
        \/ /\ flow[r].pc \in {"new", "done"} /\ flow'[r] = flow[r]
        \/ /\ flow[r].pc \notin {"new", "ghost", "done"}
           /\ flow'[r] = [pc |-> "done", outcome |-> "proxy_gone"]
        \/ /\ flow[r].pc = "ghost"
           /\ flow'[r] = [pc |-> "done", outcome |-> flow[r].outcome]
  BY <1>3, <1>4, <1>5
<1>7. \A r \in Request : flow'[r] \in Flow
  <2>1. [pc |-> "done", outcome |-> "proxy_gone"] \in Flow
    BY <1>2 DEF Flow
  <2>2. \A r \in Request : [pc |-> "done", outcome |-> flow[r].outcome] \in Flow
    BY <1>1, <1>2 DEF Flow
  <2> QED
    BY <1>1, <1>6, <2>1, <2>2
<1>8. flow' = [r \in Request |-> flow'[r]]
  BY <1>4
<1> QED
  BY <1>6, <1>7, <1>8

LEMMA GrantedType == GrantedBy(GrantRows) \subseteq ActionType
BY GateAssumption DEF GrantedBy, GrantRows

\* A found grant puts nothing into the cache that the rows do not grant.
LEMMA HydrateEffect ==
    ASSUME TypeOK, NEW r \in Request, Hydrate(r)
    PROVE  /\ cached' \subseteq ActionType
           /\ cached' = cached \/ cached' = cached \cup GrantedBy(GrantRows)
BY GrantedType DEF TypeOK, Hydrate

-----------------------------------------------------------------------------
(* Types.  That the winner of an expiry is a decision rests on the row's being *)
(* there whenever somebody claims it.                                          *)

TInv == TypeOK /\ RowFollowsFlow

LEMMA Words ==
    /\ "recheck" \in FlowPc /\ "wait" \in FlowPc /\ "dispatch" \in FlowPc
    /\ "ghost" \in FlowPc /\ "grant" \in FlowPc /\ "persist" \in FlowPc /\ "done" \in FlowPc
    /\ "REJECTED" \in Outcome /\ "EXPIRED" \in Outcome
    /\ "forwarded" \in Outcome /\ "error" \in Outcome /\ "client_gone" \in Outcome
    /\ Decision = {"APPROVED", "REJECTED", "EXPIRED"}
    /\ "USER" \in Via /\ "SESSION_GRANT" \in Via /\ "-" \in Via
BY DEF FlowPc, Decision, Outcome, Via

LEMMA TerminalizeEffect ==
    ASSUME TypeOK, NEW r \in Request, row[r].decision # "absent", Terminalize(r)
    PROVE  /\ row' \in [Request -> Row]
           /\ wake' \in [Request -> SUBSET Decision]
           /\ faults' \in [count : 0..MaxFaults, hazards : SUBSET HazardKinds]
           /\ faults.hazards \subseteq faults'.hazards
           /\ \A q \in Request \ {r} : row'[q] = row[q] /\ wake'[q] = wake[q]
           /\ row[r].decision \in Decision \/ ~session => row'[r] = row[r]
           /\ row'[r].decision # "absent"
           /\ \A d \in wake'[r] : \/ d \in wake[r]
                                  \/ row'[r].decision = d \/ (d = "EXPIRED" /\ ~session)
           /\ \/ session => row'[r].decision \in Decision
              \/ "terminalize_error" \in faults'.hazards
<1>1. CASE Claim(r) /\ Push(r, Winner(r)) /\ Fault
  <2>1. Winner(r) \in Decision
    BY <1>1, ClaimEffect
  <2> QED
    BY <1>1, <2>1, ClaimEffect, PushEffect, FaultEffect DEF TypeOK, Row, Decision, Undecided, Null
<1>2. CASE Hazard("terminalize_error") /\ UNCHANGED <<row, wake>>
  BY <1>2, HazardEffect DEF TypeOK
<1> QED
  BY <1>1, <1>2 DEF Terminalize

\* The request hook, its first look included.
LEMMA HookTypes ==
    ASSUME TInv, NEW r \in Request,
           FirstGrant(r) \/ NoGrant(r) \/ HookStep(r) \/ HookTrouble(r)
    PROVE  TypeOK'
<1> USE Words DEF TInv
<1>1. CASE FirstGrant(r)
  <2>1. PICK via \in Via : row' = [row EXCEPT ![r] = [decision |-> "APPROVED", via |-> via]]
    BY <1>1 DEF FirstGrant
  <2>2. [decision |-> "APPROVED", via |-> via] \in Row
    BY DEF Row
  <2>3. row' \in [Request -> Row]
    BY <2>1, <2>2 DEF TypeOK
  <2>4. cached' \subseteq ActionType
    BY <1>1, HydrateEffect DEF FirstGrant, TypeOK
  <2> QED
    BY <1>1, <2>3, <2>4, StepEffect DEF FirstGrant, TypeOK
<1>2. CASE NoGrant(r)
  BY <1>2, StepEffect, FaultEffect DEF NoGrant, TypeOK
<1>3. CASE Persist(r)
  <2>1. row' \in [Request -> Row]
    BY <1>3 DEF Persist, TypeOK, Row, Null
  <2> QED
    BY <1>3, <2>1, StepEffect DEF Persist, TypeOK
<1>4. CASE PersistFails(r)
  BY <1>4, FinishEffect, FaultEffect DEF PersistFails, TypeOK
<1>5. CASE RecheckGrants(r)
  <2>1. row' \in [Request -> Row] /\ cached' \subseteq ActionType
    BY <1>5, DecideEffect, HydrateEffect DEF RecheckGrants, TypeOK
  <2> QED
    BY <1>5, <2>1, StepEffect DEF RecheckGrants, TypeOK
<1>6. CASE Park(r)
  BY <1>6, StepEffect, HazardEffect DEF Park, TypeOK
<1>7. CASE ReceiveWake(r)
  <2>1. PICK decision \in wake[r] : /\ Answer(r, decision)
                                   /\ wake' = [wake EXCEPT ![r] = @ \ {decision}]
    BY <1>7 DEF ReceiveWake
  <2>2. decision \in Decision
    BY DEF TypeOK
  <2>3. flow' \in [Request -> Flow]
    BY <2>1, <2>2, StepEffect, FinishEffect DEF Answer
  <2> QED
    BY <1>7, <2>1, <2>3 DEF ReceiveWake, TypeOK
<1>8. CASE Timeout(r)
  <2>1. row[r].decision # "absent"
    BY <1>8 DEF Timeout, RowFollowsFlow, FollowsFlow
  <2>2. row' \in [Request -> Row] /\ Winner(r) \in Decision
    BY <1>8, <2>1, ClaimEffect DEF Timeout
  <2>3. flow' \in [Request -> Flow]
    BY <1>8, <2>2, StepEffect, FinishEffect DEF Timeout, Answer
  <2> QED
    BY <1>8, <2>2, <2>3 DEF Timeout, TypeOK
<1>9. CASE Dispatch(r)
  BY <1>9, FinishEffect DEF Dispatch, TypeOK
<1>10. CASE PersistRaises(r)
  <2>1. row' \in [Request -> Row]
    BY <1>10 DEF PersistRaises, TypeOK, Row, Null
  <2> QED
    BY <1>10, <2>1, FinishEffect, HazardEffect DEF PersistRaises, TypeOK
<1>11. CASE Disconnect(r)
  <2>1. flow[r].pc = "wait" => row[r].decision # "absent"
    BY DEF RowFollowsFlow, FollowsFlow
  <2>2. row' \in [Request -> Row]
    BY <1>11, <2>1, ClaimEffect DEF Disconnect, ClaimOnCancel, TypeOK
  <2>3. flow' \in [Request -> Flow]
    <3>1. [pc |-> "ghost", outcome |-> "client_gone"] \in Flow
      BY DEF Flow
    <3> QED
      BY <1>11, <3>1, FinishEffect DEF Disconnect, TypeOK
  <2> QED
    BY <1>11, <2>2, <2>3, HazardEffect DEF Disconnect, TypeOK
<1>12. CASE WaitFails(r)
  <2>1. row[r].decision # "absent"
    BY <1>12 DEF WaitFails, RowFollowsFlow, FollowsFlow
  <2> QED
    BY <1>12, <2>1, TerminalizeEffect, FinishEffect DEF WaitFails, TypeOK
<1>13. CASE DispatchRaises(r)
  <2>1. row[r].decision # "absent"
    BY <1>13 DEF DispatchRaises, RowFollowsFlow, FollowsFlow
  <2> QED
    BY <1>13, <2>1, TerminalizeEffect, FinishEffect, FaultEffect DEF DispatchRaises, TypeOK
<1> QED
  BY <1>1, <1>2, <1>3, <1>4, <1>5, <1>6, <1>7, <1>8, <1>9, <1>10, <1>11, <1>12, <1>13
     DEF HookStep, HookTrouble

\* The proxy, the API calls and the rest of the world.
LEMMA ProxyTypes ==
    ASSUME TInv, DrainStep \/ Sigterm \/ ProxyEnds
    PROVE  TypeOK'
<1> USE DEF TInv
<1>1. ASSUME NEW r \in Request, Drain(r)
      PROVE  TypeOK'
  <2>1. row[r].decision # "absent"
    BY <1>1 DEF Drain, RowFollowsFlow, FollowsFlow
  <2>2. row' \in [Request -> Row] /\ Winner(r) \in Decision
    BY <1>1, <2>1, ClaimEffect DEF Drain
  <2> QED
    BY <1>1, <2>2, PushEffect DEF Drain, TypeOK
<1>2. CASE Drained
  BY <1>2 DEF Drained, TypeOK
<1>3. CASE Sigterm
  BY <1>3, FaultEffect DEF Sigterm, TypeOK
<1>4. CASE ProxyEnds
  BY <1>4, EndsEffect, FaultEffect DEF ProxyEnds, TypeOK
<1> QED
  BY <1>1, <1>2, <1>3, <1>4 DEF DrainStep

LEMMA CallTypes ==
    ASSUME TInv, CallsTrue, NEW c \in Call, CallStep(c) \/ CallDies(c)
    PROVE  TypeOK'
<1> USE Words DEF TInv
<1> DEFINE q == call[c].req
<1>0. /\ "record" \in CallPc /\ "wake" \in CallPc /\ "grant" \in CallPc
      /\ "grant_wake" \in CallPc /\ "sources" \in CallPc /\ "list" \in CallPc
      /\ "cover" \in CallPc /\ "wake_all" \in CallPc
      /\ "done" \in CallPc /\ "died" \in CallPc
  BY DEF CallPc
<1>1. CASE Submit(c)
  <2>1. PICK r \in Request, decision \in {"APPROVED", "REJECTED"} :
          call' = [call EXCEPT ![c] = NewCall("record", r, decision)]
    BY <1>1 DEF Submit
  <2> QED
    BY <1>0, <1>1, <2>1, SubmitEffect DEF Submit, TypeOK
<1>2. CASE RecordDecision(c)
  <2>1. q \in Request /\ call[c].decision \in Decision
    BY <1>2 DEF RecordDecision, CallsTrue, TypeOK, CallState
  <2>2. row' \in [Request -> Row]
    BY <1>2, <2>1, DecideEffect DEF RecordDecision
  <2> QED
    BY <1>0, <1>2, <2>2, AtEffect, ReturnEffect DEF RecordDecision, TypeOK
<1>3. CASE SendWake(c)
  <2>1. q \in Request /\ call[c].decision \in Decision
    BY <1>3 DEF SendWake, CallsTrue, TypeOK, CallState
  <2> QED
    BY <1>0, <1>3, <2>1, PushEffect, ReturnEffect DEF SendWake, TypeOK
<1>4. CASE SubmitGrant(c)
  <2>1. PICK r \in Request : call' = [call EXCEPT ![c] = NewCall("grant", r, "APPROVED")]
    BY <1>4 DEF SubmitGrant
  <2> QED
    BY <1>0, <1>4, <2>1, SubmitEffect DEF SubmitGrant, TypeOK
<1>5. CASE RecordGrant(c)
  <2>1. q \in Request
    BY <1>5 DEF RecordGrant, CallsTrue
  <2>2. row' \in [Request -> Row]
    BY <1>5, <2>1, DecideEffect DEF RecordGrant
  <2> QED
    <3>1. call' \in [Call -> CallState]
      BY <1>0, <1>5, AtEffect, ReturnEffect DEF RecordGrant
    <3>2. chosen' \subseteq Request
      BY <1>5, <2>1 DEF RecordGrant, TypeOK
    <3> QED
      BY <1>5, <2>2, <3>1, <3>2 DEF RecordGrant, TypeOK
<1>6. CASE SendGrantWake(c)
  <2>1. q \in Request
    BY <1>6 DEF SendGrantWake, CallsTrue
  <2> QED
    BY <1>0, <1>6, <2>1, PushEffect, AtEffect DEF SendGrantWake, TypeOK
<1>7. CASE ReadSources(c)
  <2>1. call' \in [Call -> CallState]
    BY <1>0, <1>7, GrantedType, GrantedEffect DEF ReadSources
  <2>2. cached' \subseteq ActionType
    BY <1>7, GrantedType DEF ReadSources, TypeOK
  <2> QED
    BY <1>7, <2>1, <2>2, FaultEffect DEF ReadSources, TypeOK
<1>8. CASE ListPending(c)
  <2>1. PICK rows \in SUBSET Request :
          call' = [call EXCEPT ![c].pc = "cover", ![c].rows = rows]
    BY <1>8 DEF ListPending
  <2> QED
    BY <1>0, <1>8, <2>1, RowsEffect DEF ListPending, TypeOK
<1>9. CASE ApproveCovered(c)
  <2>1. call' \in [Call -> CallState]
    <3>1. {r \in call[c].rows : Undecided(r)} \in SUBSET Request
      BY DEF TypeOK, CallState
    <3> QED
      BY <1>0, <1>9, <3>1, RowsEffect DEF ApproveCovered
  <2>2. [decision |-> "APPROVED", via |-> "SESSION_GRANT"] \in Row
    BY DEF Row
  <2>3. row' \in [Request -> Row]
    BY <1>9, <2>2 DEF ApproveCovered, TypeOK
  <2> QED
    BY <1>9, <2>1, <2>3 DEF ApproveCovered, TypeOK
<1>10. CASE WakeCovered(c)
  <2>1. CASE call[c].rows = {} /\ Return(c, "done") /\ UNCHANGED wake
    BY <1>0, <1>10, <2>1, ReturnEffect DEF WakeCovered, TypeOK
  <2>2. ASSUME NEW r \in call[c].rows, Push(r, "APPROVED"),
               call' = [call EXCEPT ![c].rows = @ \ {r}]
        PROVE  TypeOK'
    <3>1. r \in Request
      BY DEF TypeOK, CallState
    <3> QED
      BY <1>10, <2>2, <3>1, LessEffect, PushEffect DEF WakeCovered, TypeOK
  <2> QED
    BY <1>10, <2>1, <2>2 DEF WakeCovered
<1>11. CASE CallDies(c)
  BY <1>0, <1>11, ReturnEffect, FaultEffect DEF CallDies, TypeOK
<1> QED
  BY <1>1, <1>2, <1>3, <1>4, <1>5, <1>6, <1>7, <1>8, <1>9, <1>10, <1>11 DEF CallStep

WorldStep ==
    \/ \E r \in Request : LoseWake(r) \/ Age(r)
    \/ LoseGrantKeys \/ DeleteSession

LEMMA WorldTypes ==
    ASSUME TInv, WorldStep
    PROVE  TypeOK'
<1>1. ASSUME NEW r \in Request, LoseWake(r)
      PROVE  TypeOK'
  BY <1>1, FaultEffect DEF LoseWake, TInv, TypeOK
<1>2. ASSUME NEW r \in Request, Age(r)
      PROVE  TypeOK'
  <2>1. row' \in [Request -> Row]
    BY <1>2 DEF Age, TInv, TypeOK, Row, Null
  <2> QED
    BY <1>2, <2>1 DEF Age, TInv, TypeOK
<1>3. CASE LoseGrantKeys
  BY <1>3, FaultEffect DEF LoseGrantKeys, TInv, TypeOK
<1>4. CASE DeleteSession
  BY <1>4, FaultEffect DEF DeleteSession, TInv, TypeOK
<1> QED
  BY <1>1, <1>2, <1>3, <1>4 DEF WorldStep

-----------------------------------------------------------------------------
(* How a step of a request's hook changes the rows and requests              *)

\* It touches nothing of another request.
HookLocal(r) ==
    /\ UNCHANGED <<session, proxy, undrained, call, chosen>>
    /\ faults.hazards \subseteq faults'.hazards
    /\ \A q \in Request \ {r} :
          /\ row'[q] = row[q] /\ flow'[q] = flow[q] /\ wake'[q] = wake[q]
          /\ q \in parked' => q \in parked

LEMMA HookLocally ==
    ASSUME TInv, NEW r \in Request,
           FirstGrant(r) \/ NoGrant(r) \/ HookStep(r) \/ HookTrouble(r)
    PROVE  HookLocal(r)
<1> USE Words DEF TInv, HookLocal
<1>1. CASE FirstGrant(r)
  BY <1>1, StepEffect DEF FirstGrant, TypeOK
<1>2. CASE NoGrant(r)
  BY <1>2, StepEffect, FaultEffect DEF NoGrant
<1>3. CASE Persist(r)
  BY <1>3, StepEffect DEF Persist, TypeOK
<1>4. CASE PersistFails(r)
  BY <1>4, FinishEffect, FaultEffect DEF PersistFails
<1>5. CASE RecheckGrants(r)
  BY <1>5, DecideEffect, StepEffect DEF RecheckGrants
<1>6. CASE Park(r)
  BY <1>6, StepEffect, HazardEffect DEF Park
<1>7. CASE ReceiveWake(r)
  <2>1. PICK decision \in Decision : /\ Answer(r, decision)
                                     /\ wake' = [wake EXCEPT ![r] = @ \ {decision}]
    BY <1>7 DEF ReceiveWake, TypeOK
  <2> QED
    BY <1>7, <2>1, StepEffect, FinishEffect DEF ReceiveWake, Answer, TypeOK
<1>8. CASE Timeout(r)
  <2>1. row[r].decision # "absent"
    BY <1>8 DEF Timeout, RowFollowsFlow, FollowsFlow
  <2>2. Winner(r) \in Decision /\ \A q \in Request \ {r} : row'[q] = row[q]
    BY <1>8, <2>1, ClaimEffect DEF Timeout
  <2> QED
    BY <1>8, <2>2, StepEffect, FinishEffect DEF Timeout, Answer
<1>9. CASE Dispatch(r)
  BY <1>9, FinishEffect DEF Dispatch
<1>10. CASE PersistRaises(r)
  BY <1>10, FinishEffect, HazardEffect DEF PersistRaises, TypeOK
<1>11. CASE Disconnect(r)
  <2>1. flow[r].pc = "wait" => row[r].decision # "absent"
    BY DEF RowFollowsFlow, FollowsFlow
  <2>2. \A q \in Request \ {r} : row'[q] = row[q]
    BY <1>11, <2>1, ClaimEffect DEF Disconnect, ClaimOnCancel
  <2>3. \A q \in Request \ {r} : flow'[q] = flow[q]
    BY <1>11, FinishEffect DEF Disconnect, TypeOK
  <2>4. faults.hazards \subseteq faults'.hazards
    BY <1>11, HazardEffect DEF Disconnect
  <2> QED
    BY <1>11, <2>2, <2>3, <2>4 DEF Disconnect
<1>12. CASE WaitFails(r)
  <2>1. row[r].decision # "absent"
    BY <1>12 DEF WaitFails, RowFollowsFlow, FollowsFlow
  <2> QED
    BY <1>12, <2>1, TerminalizeEffect, FinishEffect DEF WaitFails
<1>13. CASE DispatchRaises(r)
  <2>1. row[r].decision # "absent"
    BY <1>13 DEF DispatchRaises, RowFollowsFlow, FollowsFlow
  <2> QED
    BY <1>13, <2>1, TerminalizeEffect, FinishEffect, FaultEffect DEF DispatchRaises
<1> QED
  BY <1>1, <1>2, <1>3, <1>4, <1>5, <1>6, <1>7, <1>8, <1>9, <1>10, <1>11, <1>12, <1>13
     DEF HookStep, HookTrouble

\* Its own row keeps its decision, and is made or decided only in a live session.
RowKept(r) ==
    /\ row[r].decision \in Decision => row'[r] = row[r]
    /\ ~session => row'[r] = row[r]
    /\ row'[r].decision = "absent" => row[r].decision = "absent"

LEMMA HookOwn ==
    ASSUME TInv, WakesTrue, NEW r \in Request,
           FirstGrant(r) \/ NoGrant(r) \/ HookStep(r) \/ HookTrouble(r)
    PROVE  RowKept(r) /\ FollowsFlow(r)'
<1> USE Words DEF TInv
<1>0. FollowsFlow(r) /\ row[r] \in Row /\ flow[r] \in Flow
  BY DEF RowFollowsFlow, TypeOK
<1> USE DEF RowKept, FollowsFlow
<1>1. CASE FirstGrant(r)
  <2>1. row'[r].decision = "APPROVED" /\ row[r].decision = "absent"
    BY <1>0, <1>1 DEF FirstGrant, TypeOK
  <2> QED
    BY <1>0, <1>1, <2>1, StepEffect DEF FirstGrant
<1>2. CASE NoGrant(r)
  BY <1>0, <1>2, StepEffect DEF NoGrant
<1>3. CASE Persist(r)
  <2>1. row'[r].decision = "pending" /\ row[r].decision = "absent"
    BY <1>0, <1>3 DEF Persist, TypeOK
  <2> QED
    BY <1>0, <1>3, <2>1, StepEffect DEF Persist
<1>4. CASE PersistFails(r)
  BY <1>0, <1>4, FinishEffect DEF PersistFails
<1>5. CASE RecheckGrants(r)
  <2>1. row'[r].decision = "APPROVED" /\ row[r].decision \in Null /\ session
    BY <1>5, DecideEffect DEF RecheckGrants, Undecided
  <2>2. row[r].decision \notin Decision
    BY <2>1 DEF Null
  <2> QED
    BY <1>0, <1>5, <2>1, <2>2, StepEffect DEF RecheckGrants
<1>6. CASE Park(r)
  BY <1>0, <1>6, StepEffect, HazardEffect DEF Park
<1>7. CASE ReceiveWake(r)
  <2>1. PICK decision \in wake[r] : Answer(r, decision)
    BY <1>7 DEF ReceiveWake
  <2>2. decision \in Decision /\ (decision = "APPROVED" => row[r].decision = "APPROVED")
    BY DEF WakesTrue, TypeOK
  <2>3. /\ flow'[r].pc = "dispatch" => row[r].decision = "APPROVED"
        /\ flow'[r].pc = "dispatch" => flow'[r].outcome = "-"
        /\ flow'[r].pc \in {"dispatch", "done"}
    BY <1>0, <1>7, <2>1, <2>2, StepEffect, FinishEffect DEF ReceiveWake, Answer
  <2> QED
    BY <1>0, <1>7, <2>3 DEF ReceiveWake
<1>8. CASE Timeout(r)
  BY <1>0, <1>8, ClaimEffect, StepEffect, FinishEffect DEF Timeout, Answer
<1>9. CASE Dispatch(r)
  BY <1>0, <1>9, FinishEffect DEF Dispatch
<1>10. CASE PersistRaises(r)
  <2>1. row'[r].decision = "pending" /\ row[r].decision = "absent"
    BY <1>0, <1>10 DEF PersistRaises, TypeOK
  <2> QED
    BY <1>0, <1>10, <2>1, FinishEffect DEF PersistRaises
<1>11. CASE Disconnect(r)
  <2>1. CASE flow[r].pc = "wait" /\ Claim(r) /\ Finish(r, "client_gone")
                /\ parked' = parked \ {r} /\ UNCHANGED faults
    BY <1>0, <1>11, <2>1, ClaimEffect, FinishEffect DEF Disconnect
  <2>2. CASE flow[r].pc \in {"grant", "dispatch"} /\ Finish(r, "client_gone")
                /\ UNCHANGED <<row, parked, faults>>
    BY <1>0, <1>11, <2>2, FinishEffect DEF Disconnect
  <2>3. CASE /\ flow[r].pc = "recheck" /\ Hazard("early_disconnect")
             /\ flow' = [flow EXCEPT ![r] = [pc |-> "ghost", outcome |-> "client_gone"]]
             /\ UNCHANGED <<row, parked>>
    <3>1. flow'[r].pc = "ghost" /\ flow'[r].outcome = "client_gone"
      BY <2>3 DEF TypeOK
    <3>2. "early_disconnect" \in faults'.hazards
      BY <2>3, HazardEffect
    <3> QED
      BY <1>0, <1>11, <2>3, <3>1, <3>2 DEF Disconnect
  <2> QED
    BY <1>11, <2>1, <2>2, <2>3 DEF Disconnect, ClaimOnCancel
<1>12. CASE WaitFails(r)
  BY <1>0, <1>12, TerminalizeEffect, FinishEffect DEF WaitFails
<1>13. CASE DispatchRaises(r)
  BY <1>0, <1>13, TerminalizeEffect, FinishEffect DEF DispatchRaises
<1> QED
  BY <1>1, <1>2, <1>3, <1>4, <1>5, <1>6, <1>7, <1>8, <1>9, <1>10, <1>11, <1>12, <1>13
     DEF HookStep, HookTrouble

-----------------------------------------------------------------------------
(* How any other step changes them                                           *)

\* Rows only move on, and everything else of a request stays.
OutsideHook ==
    /\ \A r \in Request : RowKept(r)
    /\ \A r \in Request :
          /\ row[r].decision = "absent" => row'[r].decision = "absent"
          /\ \/ flow'[r] = flow[r]
             \/ /\ flow'[r].pc = "done"
                /\ \/ flow[r].pc \in {"persist", "recheck", "wait", "grant", "dispatch"}
                      /\ flow'[r].outcome = "proxy_gone"
                   \/ flow[r].pc = "ghost" /\ flow'[r].outcome = flow[r].outcome
    /\ parked' \subseteq parked /\ undrained' \subseteq undrained \cup parked
    /\ faults.hazards \subseteq faults'.hazards

\* A row that was undecided is still there, aged or decided.
LEMMA DecideKept ==
    ASSUME TypeOK, NEW r \in Request, NEW decision \in Decision, NEW via \in Via,
           Decide(r, decision, via)
    PROVE  \A q \in Request : RowKept(q) /\ (row[q].decision = "absent" => row'[q] = row[q])
<1>1. /\ Undecided(r) => row'[r].decision = decision
      /\ ~Undecided(r) => row'[r] = row[r]
      /\ \A q \in Request \ {r} : row'[q] = row[q]
  BY DecideEffect
<1> QED
  BY <1>1 DEF RowKept, Undecided, Decision, Null

LEMMA OutsideSteps ==
    ASSUME TInv, CallsTrue,
           \/ DrainStep \/ Sigterm \/ ProxyEnds \/ WorldStep
           \/ \E c \in Call : CallStep(c) \/ CallDies(c)
    PROVE  OutsideHook
<1> USE Words DEF TInv
<1>1. ASSUME UNCHANGED <<row, flow, parked, undrained>>, faults.hazards \subseteq faults'.hazards
      PROVE  OutsideHook
  BY <1>1 DEF OutsideHook, RowKept
<1>2. ASSUME UNCHANGED <<flow, parked, undrained>>, faults.hazards \subseteq faults'.hazards,
             NEW r \in Request, NEW decision \in Decision, NEW via \in Via,
             Decide(r, decision, via)
      PROVE  OutsideHook
  BY <1>2, DecideKept DEF OutsideHook
<1>3. ASSUME NEW r \in Request, Drain(r)
      PROVE  OutsideHook
  <2>1. \A q \in Request : RowKept(q) /\ (row[q].decision = "absent" => row'[q] = row[q])
    BY <1>3, DecideKept DEF Drain, Claim
  <2> QED
    BY <1>3, <2>1 DEF Drain, OutsideHook
<1>4. CASE Drained
  BY <1>1, <1>4 DEF Drained
<1>5. CASE Sigterm
  BY <1>5, FaultEffect DEF Sigterm, OutsideHook, RowKept
<1>6. CASE ProxyEnds
  <2>1. \A r \in Request : flow[r].pc \in FlowPc
    BY DEF TypeOK, Flow
  <2>2. \A r \in Request :
          \/ flow'[r] = flow[r]
          \/ /\ flow'[r].pc = "done"
             /\ \/ flow[r].pc \in {"persist", "recheck", "wait", "grant", "dispatch"}
                   /\ flow'[r].outcome = "proxy_gone"
                \/ flow[r].pc = "ghost" /\ flow'[r].outcome = flow[r].outcome
    BY <1>6, <2>1, EndsEffect DEF FlowPc
  <2> QED
    BY <1>6, <2>2, FaultEffect DEF ProxyEnds, OutsideHook, RowKept
<1>7. ASSUME NEW c \in Call, CallStep(c) \/ CallDies(c)
      PROVE  OutsideHook
  <2> USE <1>7
  <2>1. CASE RecordDecision(c)
    <3>1. call[c].req \in Request /\ call[c].decision \in Decision
      BY <2>1 DEF RecordDecision, CallsTrue, TypeOK, CallState
    <3> QED
      BY <1>2, <2>1, <3>1 DEF RecordDecision
  <2>2. CASE RecordGrant(c)
    <3>1. call[c].req \in Request
      BY <2>2 DEF RecordGrant, CallsTrue
    <3> QED
      BY <1>2, <2>2, <3>1 DEF RecordGrant
  <2>3. CASE ApproveCovered(c)
    <3>1. \A r \in Request :
            row'[r] = row[r] \/ (Undecided(r) /\ row'[r].decision = "APPROVED")
      BY <2>3 DEF ApproveCovered, TypeOK
    <3>2. \A r \in Request : Undecided(r) => session /\ row[r].decision \in {"pending", "overdue"}
      BY DEF Undecided, Null
    <3>3. \A r \in Request : RowKept(r) /\ (row[r].decision = "absent" => row'[r] = row[r])
      BY <3>1, <3>2 DEF RowKept
    <3> QED
      BY <2>3, <3>3 DEF ApproveCovered, OutsideHook
  <2>4. CASE Submit(c) \/ SubmitGrant(c) \/ ListPending(c)
    BY <1>1, <2>4 DEF Submit, SubmitGrant, ListPending
  <2>5. CASE SendWake(c) \/ SendGrantWake(c) \/ WakeCovered(c)
    BY <1>1, <2>5 DEF SendWake, SendGrantWake, WakeCovered
  <2>6. CASE ReadSources(c) \/ CallDies(c)
    BY <1>1, <2>6, FaultEffect DEF ReadSources, CallDies
  <2> QED
    BY <2>1, <2>2, <2>3, <2>4, <2>5, <2>6 DEF CallStep
<1>8. CASE WorldStep
  <2>1. ASSUME NEW r \in Request, LoseWake(r)
        PROVE  OutsideHook
    BY <1>1, <2>1, FaultEffect DEF LoseWake
  <2>2. ASSUME NEW r \in Request, Age(r)
        PROVE  OutsideHook
    <3>1. /\ row'[r].decision = "overdue"
          /\ \A q \in Request \ {r} : row'[q] = row[q]
      BY <2>2 DEF Age, TypeOK, Row
    <3>2. session /\ row[r].decision = "pending"
      BY <2>2 DEF Age, Live
    <3>3. \A q \in Request : RowKept(q) /\ (row[q].decision = "absent" => row'[q] = row[q])
      BY <3>1, <3>2 DEF RowKept
    <3> QED
      BY <2>2, <3>3 DEF Age, OutsideHook
  <2>3. CASE LoseGrantKeys \/ DeleteSession
    BY <1>1, <2>3, FaultEffect DEF LoseGrantKeys, DeleteSession
  <2> QED
    BY <1>8, <2>1, <2>2, <2>3 DEF WorldStep
<1> QED
  BY <1>3, <1>4, <1>5, <1>6, <1>7, <1>8 DEF DrainStep

-----------------------------------------------------------------------------
(* Every step                                                                *)

HookMove(r) == FirstGrant(r) \/ NoGrant(r) \/ HookStep(r) \/ HookTrouble(r)
OutsideMove ==
    \/ DrainStep \/ Sigterm \/ ProxyEnds \/ WorldStep
    \/ \E c \in Call : CallStep(c) \/ CallDies(c)

LEMMA Moves == Next => (\E r \in Request : HookMove(r)) \/ OutsideMove
BY DEF Next, HookMove, OutsideMove, WorldStep

LEMMA RowsKept ==
    ASSUME TInv, WakesTrue, CallsTrue, Next
    PROVE  /\ \A r \in Request : RowKept(r)
           /\ RowFollowsFlow'
           /\ faults.hazards \subseteq faults'.hazards
<1>1. ASSUME NEW r \in Request, HookMove(r)
      PROVE  /\ \A q \in Request : RowKept(q)
             /\ RowFollowsFlow'
             /\ faults.hazards \subseteq faults'.hazards
  <2>1. HookLocal(r) /\ RowKept(r) /\ FollowsFlow(r)'
    BY <1>1, HookLocally, HookOwn DEF HookMove
  <2>2. \A q \in Request \ {r} : RowKept(q) /\ FollowsFlow(q)'
    BY <2>1 DEF HookLocal, RowKept, TInv, RowFollowsFlow, FollowsFlow
  <2> QED
    BY <2>1, <2>2 DEF RowFollowsFlow, HookLocal
<1>2. CASE OutsideMove
  <2>1. OutsideHook
    BY <1>2, OutsideSteps DEF OutsideMove
  <2>2. ASSUME NEW r \in Request
        PROVE  FollowsFlow(r)'
    <3>1. FollowsFlow(r) /\ RowKept(r)
      BY <2>1 DEF TInv, RowFollowsFlow, OutsideHook
    <3>2. row[r].decision = "absent" <=> row'[r].decision = "absent"
      BY <2>1 DEF OutsideHook, RowKept
    <3>3. row[r].decision = "APPROVED" => row'[r].decision = "APPROVED"
      BY <3>1 DEF RowKept, Decision
    <3>4. r \in parked' \cup undrained' => r \in parked \cup undrained
      BY <2>1 DEF OutsideHook
    <3>5. CASE flow'[r] = flow[r]
      BY <2>1, <3>1, <3>2, <3>3, <3>4, <3>5 DEF FollowsFlow, OutsideHook
    <3>6. CASE flow'[r].pc = "done"
      BY <3>1, <3>2, <3>4, <3>6 DEF FollowsFlow
    <3> QED
      BY <2>1, <3>5, <3>6 DEF OutsideHook
  <2> QED
    BY <2>1, <2>2 DEF RowFollowsFlow, OutsideHook
<1> QED
  BY <1>1, <1>2, Moves

LEMMA TypesKept ==
    ASSUME TInv, CallsTrue, Next
    PROVE  TypeOK'
BY HookTypes, ProxyTypes, CallTypes, WorldTypes, Moves DEF HookMove, OutsideMove

\* A wake is what its row says already.
LEMMA WakeSource ==
    ASSUME TInv, CallsTrue, Next,
           NEW r \in Request, NEW d \in wake'[r], d \notin wake[r]
    PROVE  row'[r].decision = d \/ (d = "EXPIRED" /\ ~session)
<1> USE Words DEF TInv
<1>1. ASSUME NEW q \in Request, WaitFails(q) \/ DispatchRaises(q)
      PROVE  row'[r].decision = d \/ (d = "EXPIRED" /\ ~session)
  <2>1. row[q].decision # "absent"
    BY <1>1 DEF WaitFails, DispatchRaises, RowFollowsFlow, FollowsFlow
  <2>2. Terminalize(q) \/ UNCHANGED wake
    BY <1>1 DEF WaitFails, DispatchRaises
  <2> QED
    BY <2>1, <2>2, TerminalizeEffect
<1>2. ASSUME NEW q \in Request, Drain(q)
      PROVE  row'[r].decision = d \/ (d = "EXPIRED" /\ ~session)
  <2>1. row[q].decision # "absent"
    BY <1>2 DEF Drain, RowFollowsFlow, FollowsFlow
  <2>2. Winner(q) \in Decision
    BY <1>2, <2>1, ClaimEffect DEF Drain
  <2>3. q = r /\ d = Winner(q)
    BY <1>2, <2>2, PushEffect DEF Drain
  <2> QED
    BY <1>2, <2>1, <2>3, ClaimEffect DEF Drain
<1>3. ASSUME NEW c \in Call, CallStep(c)
      PROVE  row'[r].decision = d \/ (d = "EXPIRED" /\ ~session)
  <2>1. CASE SendWake(c)
    <3>1. /\ call[c].req \in Request /\ call[c].decision \in Decision
          /\ row[call[c].req].decision = call[c].decision
      BY <2>1 DEF SendWake, CallsTrue, TypeOK, CallState
    <3>2. call[c].req = r /\ d = call[c].decision
      BY <2>1, <3>1, PushEffect DEF SendWake
    <3> QED
      BY <2>1, <3>1, <3>2 DEF SendWake
  <2>2. CASE SendGrantWake(c)
    <3>1. call[c].req \in Request /\ row[call[c].req].decision = "APPROVED"
      BY <2>2 DEF SendGrantWake, CallsTrue
    <3>2. call[c].req = r /\ d = "APPROVED"
      BY <2>2, <3>1, PushEffect DEF SendGrantWake
    <3> QED
      BY <2>2, <3>1, <3>2 DEF SendGrantWake
  <2>3. CASE WakeCovered(c)
    <3>1. PICK q \in call[c].rows : Push(q, "APPROVED")
      BY <2>3 DEF WakeCovered
    <3>2. q \in Request /\ row[q].decision = "APPROVED"
      BY <2>3, <3>1 DEF WakeCovered, CallsTrue, TypeOK, CallState
    <3>3. q = r /\ d = "APPROVED"
      BY <3>1, <3>2, PushEffect
    <3> QED
      BY <2>3, <3>2, <3>3 DEF WakeCovered
  <2>4. CASE UNCHANGED wake
    BY <2>4
  <2> QED
    BY <1>3, <2>1, <2>2, <2>3, <2>4
       DEF CallStep, Submit, RecordDecision, SubmitGrant, RecordGrant, ReadSources, ListPending,
           ApproveCovered
<1>4. ASSUME NEW q \in Request, HookMove(q), ~WaitFails(q), ~DispatchRaises(q)
      PROVE  FALSE
  <2>1. \A e \in wake'[r] : e \in wake[r]
    BY <1>4 DEF HookMove, HookStep, HookTrouble, FirstGrant, NoGrant, Persist, PersistFails,
                RecheckGrants, Park, ReceiveWake, Timeout, Dispatch, PersistRaises, Disconnect,
                TypeOK
  <2> QED
    BY <2>1
<1>5. ASSUME \/ Drained \/ Sigterm \/ ProxyEnds \/ WorldStep
             \/ \E c \in Call : CallDies(c)
      PROVE  FALSE
  <2>1. \A e \in wake'[r] : e \in wake[r]
    BY <1>5 DEF Drained, Sigterm, ProxyEnds, WorldStep, LoseWake, Age, LoseGrantKeys,
                DeleteSession, CallDies, TypeOK
  <2> QED
    BY <2>1
<1> QED
  BY <1>1, <1>2, <1>3, <1>4, <1>5, Moves DEF OutsideMove, DrainStep

LEMMA SessionEnds == ASSUME Next PROVE session' => session
<1>1. ASSUME NEW r \in Request, HookMove(r)
      PROVE  session' = session
  BY <1>1 DEF HookMove, HookStep, HookTrouble, FirstGrant, NoGrant, Persist, PersistFails,
              RecheckGrants, Park, ReceiveWake, Timeout, Dispatch, PersistRaises, Disconnect,
              WaitFails, DispatchRaises
<1>2. ASSUME NEW c \in Call, CallStep(c) \/ CallDies(c)
      PROVE  session' = session
  BY <1>2 DEF CallStep, CallDies, Submit, RecordDecision, SendWake, SubmitGrant, RecordGrant,
              SendGrantWake, ReadSources, ListPending, ApproveCovered, WakeCovered
<1>3. ASSUME DrainStep \/ Sigterm \/ ProxyEnds \/ WorldStep
      PROVE  session' => session
  BY <1>3 DEF DrainStep, Drain, Drained, Sigterm, ProxyEnds, WorldStep, LoseWake, Age,
              LoseGrantKeys, DeleteSession
<1> QED
  BY <1>1, <1>2, <1>3, Moves DEF OutsideMove

LEMMA WakesStayTrue ==
    ASSUME TInv, WakesTrue, CallsTrue, Next
    PROVE  WakesTrue'
<1> SUFFICES ASSUME NEW r \in Request, NEW d \in wake'[r]
             PROVE  row'[r].decision = d \/ (d = "EXPIRED" /\ ~session')
  BY DEF WakesTrue
<1>1. CASE d \in wake[r]
  <2>1. d \in Decision
    BY <1>1 DEF TInv, TypeOK
  <2>2. row[r].decision = d \/ (d = "EXPIRED" /\ ~session)
    BY <1>1 DEF WakesTrue
  <2> QED
    BY <2>1, <2>2, RowsKept, SessionEnds DEF RowKept
<1>2. CASE d \notin wake[r]
  BY <1>2, WakeSource, SessionEnds
<1> QED
  BY <1>1, <1>2

\* One API call.
CallTrue(c) ==
    /\ call[c].pc \in {"record", "wake", "grant", "grant_wake"} => call[c].req \in Request
    /\ call[c].pc = "wake" => row[call[c].req].decision = call[c].decision
    /\ call[c].pc = "grant_wake" => row[call[c].req].decision = "APPROVED"
    /\ call[c].pc = "wake_all" => \A r \in call[c].rows : row[r].decision = "APPROVED"

LEMMA CallsStayTrue ==
    ASSUME TInv, WakesTrue, CallsTrue, Next
    PROVE  CallsTrue'
<1> USE Words
<1> SUFFICES ASSUME NEW c \in Call
             PROVE  CallTrue(c)'
  BY DEF CallsTrue, CallTrue
<1>0. CallTrue(c) /\ call[c] \in CallState /\ TypeOK
  BY DEF CallsTrue, CallTrue, TInv, TypeOK
<1>1. ASSUME call'[c] = call[c]
      PROVE  CallTrue(c)'
  <2>1. \A r \in Request : row[r].decision \in Decision => row'[r] = row[r]
    BY RowsKept DEF RowKept
  <2>2. call[c].decision \in Decision /\ call[c].rows \subseteq Request
    BY <1>0 DEF CallState
  <2> QED
    BY <1>0, <1>1, <2>1, <2>2 DEF CallTrue
<1>2. ASSUME NEW d \in Call, CallStep(d) \/ CallDies(d), c # d
      PROVE  call'[c] = call[c]
  BY <1>0, <1>2 DEF CallStep, CallDies, Submit, RecordDecision, SendWake, SubmitGrant,
              RecordGrant, SendGrantWake, ReadSources, ListPending, ApproveCovered, WakeCovered,
              At, Return, TypeOK
<1>3. ASSUME \A d \in Call : ~(CallStep(d) \/ CallDies(d))
      PROVE  call'[c] = call[c]
  <2>1. ASSUME NEW r \in Request, HookMove(r)
        PROVE  call' = call
    BY <2>1 DEF HookMove, HookStep, HookTrouble, FirstGrant, NoGrant, Persist, PersistFails,
                RecheckGrants, Park, ReceiveWake, Timeout, Dispatch, PersistRaises, Disconnect,
                WaitFails, DispatchRaises
  <2>2. ASSUME DrainStep \/ Sigterm \/ ProxyEnds \/ WorldStep
        PROVE  call' = call
    BY <2>2 DEF DrainStep, Drain, Drained, Sigterm, ProxyEnds, WorldStep, LoseWake, Age,
                LoseGrantKeys, DeleteSession
  <2> QED
    BY <1>3, <2>1, <2>2, Moves DEF OutsideMove
<1>4. ASSUME call'[c].pc \in {"idle", "sources", "list", "cover", "done", "died"}
      PROVE  CallTrue(c)'
  BY <1>4 DEF CallTrue
<1>5. CASE Submit(c)
  <2>1. PICK r \in Request, decision \in {"APPROVED", "REJECTED"} :
          call' = [call EXCEPT ![c] = NewCall("record", r, decision)]
    BY <1>5 DEF Submit
  <2>2. call'[c].pc = "record" /\ call'[c].req = r
    BY <1>0, <2>1, SubmitEffect DEF CallPc
  <2> QED
    BY <2>2 DEF CallTrue
<1>6. CASE RecordDecision(c)
  <2>1. call[c].req \in Request /\ call[c].decision \in Decision
    BY <1>0, <1>6 DEF RecordDecision, CallTrue, CallState
  <2>2. CASE Undecided(call[c].req)
    <3>1. row'[call[c].req].decision = call[c].decision
      BY <1>0, <1>6, <2>1, <2>2, DecideEffect DEF RecordDecision
    <3>2. /\ call'[c].pc = "wake" /\ call'[c].req = call[c].req
          /\ call'[c].decision = call[c].decision
      BY <1>0, <1>6, <2>2, AtEffect DEF RecordDecision, CallPc
    <3> QED
      BY <2>1, <3>1, <3>2 DEF CallTrue
  <2>3. CASE ~Undecided(call[c].req)
    BY <1>0, <1>4, <1>6, <2>3, ReturnEffect DEF RecordDecision, CallPc
  <2> QED
    BY <2>2, <2>3
<1>7. CASE SendWake(c)
  BY <1>0, <1>4, <1>7, ReturnEffect DEF SendWake, CallPc
<1>8. CASE SubmitGrant(c)
  <2>1. PICK r \in Request : call' = [call EXCEPT ![c] = NewCall("grant", r, "APPROVED")]
    BY <1>8 DEF SubmitGrant
  <2>2. call'[c].pc = "grant" /\ call'[c].req = r
    BY <1>0, <2>1, SubmitEffect DEF CallPc
  <2> QED
    BY <2>2 DEF CallTrue
<1>9. CASE RecordGrant(c)
  <2>1. call[c].req \in Request
    BY <1>0, <1>9 DEF RecordGrant, CallTrue
  <2>2. CASE Undecided(call[c].req)
    <3>1. row'[call[c].req].decision = "APPROVED"
      BY <1>0, <1>9, <2>1, <2>2, DecideEffect DEF RecordGrant
    <3>2. call'[c].pc = "grant_wake" /\ call'[c].req = call[c].req
      BY <1>0, <1>9, <2>2, AtEffect DEF RecordGrant, CallPc
    <3> QED
      BY <2>1, <3>1, <3>2 DEF CallTrue
  <2>3. CASE ~Undecided(call[c].req)
    BY <1>0, <1>4, <1>9, <2>3, ReturnEffect DEF RecordGrant, CallPc
  <2> QED
    BY <2>2, <2>3
<1>10. CASE SendGrantWake(c)
  BY <1>0, <1>4, <1>10, AtEffect DEF SendGrantWake, CallPc
<1>11. CASE ReadSources(c)
  <2>1. call' = [call EXCEPT ![c].pc = "list", ![c].granted = GrantedBy(GrantRows)]
    BY <1>11 DEF ReadSources
  <2>2. call'[c].pc = "list"
    BY <1>0, <2>1, GrantedType, GrantedEffect DEF CallPc
  <2> QED
    BY <1>4, <2>2
<1>12. CASE ListPending(c)
  <2>1. PICK rows \in SUBSET Request :
          call' = [call EXCEPT ![c].pc = "cover", ![c].rows = rows]
    BY <1>12 DEF ListPending
  <2>2. call'[c].pc = "cover"
    BY <1>0, <2>1, RowsEffect DEF CallPc
  <2> QED
    BY <1>4, <2>2
<1>13. CASE ApproveCovered(c)
  <2> DEFINE won == {r \in call[c].rows : Undecided(r)}
  <2>1. won \in SUBSET Request /\ call' = [call EXCEPT ![c].pc = "wake_all", ![c].rows = won]
    BY <1>0, <1>13 DEF ApproveCovered, CallState
  <2>2. call'[c].pc = "wake_all" /\ call'[c].rows = won
    <3> HIDE DEF won
    <3> QED
      BY <1>0, <2>1, RowsEffect DEF CallPc
  <2>3. \A r \in won : row'[r].decision = "APPROVED"
    <3>1. row' = [r \in Request |->
                     IF r \in won THEN [decision |-> "APPROVED", via |-> "SESSION_GRANT"]
                                  ELSE row[r]]
      BY <1>13 DEF ApproveCovered
    <3> HIDE DEF won
    <3> QED
      BY <2>1, <3>1
  <2> QED
    BY <2>2, <2>3 DEF CallTrue
<1>14. CASE WakeCovered(c)
  <2>1. CASE call[c].rows = {} /\ Return(c, "done")
    BY <1>0, <1>4, <2>1, ReturnEffect DEF CallPc
  <2>2. CASE \E r \in call[c].rows : call' = [call EXCEPT ![c].rows = @ \ {r}]
    <3>1. call'[c].pc = "wake_all" /\ call'[c].rows \subseteq call[c].rows
      BY <1>0, <1>14, <2>2, LessEffect DEF WakeCovered
    <3>2. row' = row
      BY <1>14 DEF WakeCovered
    <3> QED
      BY <1>0, <1>14, <3>1, <3>2 DEF CallTrue, WakeCovered
  <2> QED
    BY <1>14, <2>1, <2>2 DEF WakeCovered
<1>15. CASE CallDies(c)
  BY <1>0, <1>4, <1>15, ReturnEffect DEF CallDies, CallPc
<1> QED
  BY <1>1, <1>2, <1>3, <1>5, <1>6, <1>7, <1>8, <1>9, <1>10, <1>11, <1>12, <1>13, <1>14, <1>15
     DEF CallStep

-----------------------------------------------------------------------------
(* What the sandbox is told, and what is left behind                         *)

AnswerTrue(r) ==
    /\ flow[r].outcome = "forwarded" => row[r].decision = "APPROVED"
    /\ flow[r].outcome = "REJECTED" => row[r].decision = "REJECTED"
    /\ flow[r].outcome = "EXPIRED" => ~session \/ row[r].decision = "EXPIRED"

Settled(r) ==
    /\ faults.hazards \subseteq {"recheck_error"}
    /\ flow[r].pc = "done" /\ flow[r].outcome # "proxy_gone"
    => ~session \/ row[r].decision \notin Null

LEMMA SettledMeans == RowsSettled <=> \A r \in Request : Settled(r)
BY DEF RowsSettled, NoneForgotten, Settled, Undecided

LEMMA SettledNextMeans == RowsSettled' <=> \A r \in Request : Settled(r)'
BY DEF RowsSettled, NoneForgotten, Settled, Undecided

LEMMA HookEnds ==
    ASSUME TInv, WakesTrue, CallsTrue, Next, NEW r \in Request, HookMove(r)
    PROVE  AnswerTrue(r)' /\ Settled(r)'
<1> USE Words
<1>0. /\ FollowsFlow(r) /\ FollowsFlow(r)' /\ RowKept(r) /\ TypeOK
      /\ session' = session /\ faults.hazards \subseteq faults'.hazards
  BY RowsKept, HookLocally DEF TInv, RowFollowsFlow, HookLocal, HookMove
<1>1. ASSUME flow'[r].pc # "done"
      PROVE  AnswerTrue(r)' /\ Settled(r)'
  BY <1>0, <1>1 DEF FollowsFlow, AnswerTrue, Settled
<1>2. ASSUME flow'[r].pc = "done", flow'[r].outcome \in {"error", "client_gone"},
             ~session \/ row'[r].decision \in Decision \cup {"absent"}
                \/ ~(faults'.hazards \subseteq {"recheck_error"})
      PROVE  AnswerTrue(r)' /\ Settled(r)'
  BY <1>0, <1>2 DEF AnswerTrue, Settled, Null
<1>3. CASE FirstGrant(r) \/ NoGrant(r) \/ Persist(r)
  BY <1>0, <1>1, <1>3, StepEffect DEF FirstGrant, NoGrant, Persist
<1>4. CASE PersistFails(r)
  BY <1>0, <1>2, <1>4, FinishEffect DEF PersistFails, FollowsFlow
<1>5. CASE RecheckGrants(r)
  BY <1>0, <1>1, <1>2, <1>5, StepEffect DEF RecheckGrants, FollowsFlow
<1>6. CASE Park(r)
  BY <1>0, <1>1, <1>2, <1>6, StepEffect DEF Park, FollowsFlow
<1>7. CASE Dispatch(r)
  BY <1>0, <1>7, FinishEffect DEF Dispatch, FollowsFlow, AnswerTrue, Settled, Null
<1>8. CASE ReceiveWake(r)
  <2>1. PICK decision \in wake[r] : Answer(r, decision)
    BY <1>8 DEF ReceiveWake
  <2>2. decision \in Decision /\ (row[r].decision = decision \/ (decision = "EXPIRED" /\ ~session))
    BY <1>0 DEF WakesTrue, TypeOK
  <2>3. row' = row
    BY <1>8 DEF ReceiveWake
  <2>4. CASE decision = "APPROVED"
    BY <1>0, <1>1, <2>1, <2>4, StepEffect DEF Answer
  <2>5. CASE decision # "APPROVED"
    <3>1. flow'[r].pc = "done" /\ flow'[r].outcome = decision
      BY <1>0, <2>1, <2>2, <2>5, FinishEffect DEF Answer
    <3> QED
      BY <1>0, <2>2, <2>3, <3>1 DEF AnswerTrue, Settled, Null
  <2> QED
    BY <2>4, <2>5
<1>9. CASE Timeout(r)
  <2>1. row[r].decision # "absent"
    BY <1>0, <1>9 DEF Timeout, FollowsFlow
  <2>2. /\ Winner(r) \in Decision
        /\ session => row'[r].decision = Winner(r)
        /\ ~session => Winner(r) = "EXPIRED"
    BY <1>0, <1>9, <2>1, ClaimEffect DEF Timeout
  <2>3. CASE Winner(r) = "APPROVED"
    BY <1>0, <1>1, <1>9, <2>3, StepEffect DEF Timeout, Answer
  <2>4. CASE Winner(r) # "APPROVED"
    <3>1. flow'[r].pc = "done" /\ flow'[r].outcome = Winner(r)
      BY <1>0, <1>9, <2>2, <2>4, FinishEffect DEF Timeout, Answer
    <3> QED
      BY <1>0, <2>2, <3>1 DEF AnswerTrue, Settled, Null
  <2> QED
    BY <2>3, <2>4
<1>10. CASE PersistRaises(r)
  BY <1>0, <1>2, <1>10, FinishEffect, HazardEffect DEF PersistRaises
<1>11. CASE Disconnect(r)
  <2>1. CASE flow[r].pc = "wait" /\ Claim(r) /\ Finish(r, "client_gone")
    BY <1>0, <1>2, <2>1, ClaimEffect, FinishEffect DEF FollowsFlow
  <2>2. CASE flow[r].pc \in {"grant", "dispatch"} /\ Finish(r, "client_gone")
                /\ UNCHANGED row
    BY <1>0, <1>2, <2>2, FinishEffect DEF FollowsFlow
  <2>3. CASE flow' = [flow EXCEPT ![r] = [pc |-> "ghost", outcome |-> "client_gone"]]
    BY <1>0, <1>1, <2>3 DEF TypeOK
  <2> QED
    BY <1>11, <2>1, <2>2, <2>3 DEF Disconnect, ClaimOnCancel
<1>12. CASE WaitFails(r)
  BY <1>0, <1>2, <1>12, TerminalizeEffect, FinishEffect DEF WaitFails, FollowsFlow
<1>13. CASE DispatchRaises(r)
  <2>1. CASE flow[r].pc = "grant" /\ UNCHANGED <<row, wake>>
    BY <1>0, <1>2, <1>13, <2>1, FinishEffect DEF DispatchRaises, FollowsFlow
  <2>2. CASE flow[r].pc = "dispatch" /\ Terminalize(r)
    <3>1. row'[r].decision = "APPROVED"
      BY <1>0, <2>2 DEF FollowsFlow, RowKept
    <3> QED
      BY <1>0, <1>2, <1>13, <3>1, FinishEffect DEF DispatchRaises
  <2> QED
    BY <1>13, <2>1, <2>2 DEF DispatchRaises
<1> QED
  BY <1>3, <1>4, <1>5, <1>6, <1>7, <1>8, <1>9, <1>10, <1>11, <1>12, <1>13
     DEF HookMove, HookStep, HookTrouble

LEMMA EndsTold ==
    ASSUME TInv, WakesTrue, CallsTrue, AnswerMatchesRow, RowsSettled, Next
    PROVE  AnswerMatchesRow' /\ RowsSettled'
<1> USE Words
<1> SUFFICES ASSUME NEW q \in Request
             PROVE  AnswerTrue(q)' /\ Settled(q)'
  BY SettledNextMeans DEF AnswerMatchesRow, AnswerTrue
<1>0. AnswerTrue(q) /\ Settled(q) /\ FollowsFlow(q) /\ row[q] \in Row
  BY SettledMeans DEF AnswerMatchesRow, AnswerTrue, TInv, TypeOK, RowFollowsFlow
<1>1. /\ RowKept(q) /\ faults.hazards \subseteq faults'.hazards
      /\ session' => session
  BY RowsKept, SessionEnds
<1>2. ASSUME flow'[q] = flow[q], row[q].decision = "absent" => row'[q].decision \in {"absent"} \cup Decision
      PROVE  AnswerTrue(q)' /\ Settled(q)'
  <2>1. AnswerTrue(q)'
    BY <1>0, <1>1, <1>2 DEF AnswerTrue, RowKept
  <2>2. row[q].decision \in Null \cup Decision \cup {"absent"}
    BY <1>0 DEF Row
  <2>3. Settled(q)'
    BY <1>0, <1>1, <1>2, <2>2 DEF Settled, RowKept, Null
  <2> QED
    BY <2>1, <2>3
<1>3. ASSUME NEW r \in Request, HookMove(r)
      PROVE  AnswerTrue(q)' /\ Settled(q)'
  <2>1. CASE q = r
    BY <1>3, <2>1, HookEnds
  <2>2. CASE q # r
    BY <1>2, <1>3, <2>2, HookLocally DEF HookLocal, HookMove
  <2> QED
    BY <2>1, <2>2
<1>4. CASE OutsideMove
  <2>1. OutsideHook
    BY <1>4, OutsideSteps DEF OutsideMove
  <2>2. CASE flow'[q] = flow[q]
    BY <1>2, <2>1, <2>2 DEF OutsideHook
  <2>3. CASE flow'[q].pc = "done" /\ flow'[q].outcome = "proxy_gone"
    BY <2>3 DEF AnswerTrue, Settled
  <2>4. CASE /\ flow'[q].pc = "done" /\ flow[q].pc = "ghost"
             /\ flow'[q].outcome = flow[q].outcome
    BY <1>0, <1>1, <2>4 DEF AnswerTrue, Settled, FollowsFlow
  <2> QED
    BY <2>1, <2>2, <2>3, <2>4 DEF OutsideHook
<1> QED
  BY <1>3, <1>4, Moves

-----------------------------------------------------------------------------
(* Grants                                                                    *)

LEMMA GrantedMeans == \A rows, a : a \in GrantedBy(rows) <=> \E r \in rows : a \in Needs[r]
BY DEF GrantedBy

\* A row is granted by the user's own grant, or for what is granted already.
LEMMA NewGrants ==
    ASSUME TInv, WakesTrue, CallsTrue, GrantsTraced, Next, session',
           NEW r \in Request, r \in GrantRows', r \notin GrantRows
    PROVE  \/ Covers(r, GrantedBy(GrantRows))
           \/ \E c \in Call : RecordGrant(c) /\ Undecided(r) /\ call[c].req = r
<1> USE Words DEF TInv
<1>0. /\ session /\ row'[r].decision = "APPROVED" /\ row'[r].via = "SESSION_GRANT"
      /\ row[r].decision \notin Decision
      /\ row'[r] # row[r]
  BY SessionEnds, RowsKept DEF GrantRows, RowKept
<1>1. GrantFor(r, "SESSION_GRANT") => Covers(r, GrantedBy(GrantRows))
  BY <1>0 DEF GrantFor, GrantsTraced, Covers
<1>2. ASSUME NEW q \in Request, HookMove(q)
      PROVE  Covers(r, GrantedBy(GrantRows))
  <2>1. q = r
    BY <1>0, <1>2, HookLocally DEF HookMove, HookLocal
  <2>2. CASE FirstGrant(r)
    <3>1. PICK via \in Via : /\ GrantFor(r, via)
                             /\ row' = [row EXCEPT ![r] = [decision |-> "APPROVED", via |-> via]]
      BY <2>2 DEF FirstGrant
    <3>2. row'[r].via = via
      BY <3>1 DEF TypeOK
    <3> QED
      BY <1>0, <1>1, <3>1, <3>2
  <2>3. CASE RecheckGrants(r)
    <3>1. PICK via \in Via : GrantFor(r, via) /\ Decide(r, "APPROVED", via)
      BY <2>3 DEF RecheckGrants
    <3>2. row'[r].via = via
      BY <2>3, <3>1, DecideEffect DEF RecheckGrants
    <3> QED
      BY <1>0, <1>1, <3>1, <3>2
  <2>4. ASSUME ~FirstGrant(r), ~RecheckGrants(r)
        PROVE  FALSE
    <3>1. CASE NoGrant(r) \/ PersistFails(r) \/ Park(r) \/ ReceiveWake(r) \/ Dispatch(r)
      BY <1>0, <3>1 DEF NoGrant, PersistFails, Park, ReceiveWake, Dispatch
    <3>2. CASE Persist(r) \/ PersistRaises(r)
      <4>1. row'[r].decision = "pending"
        <5>1. row' = [row EXCEPT ![r] = [decision |-> "pending", via |-> "-"]]
          BY <3>2 DEF Persist, PersistRaises
        <5> QED
          BY <5>1 DEF TypeOK
      <4> QED
        BY <1>0, <4>1
    <3>3. CASE Timeout(r) \/ Disconnect(r) \/ WaitFails(r) \/ DispatchRaises(r)
      <4>1. UNCHANGED row \/ Claim(r)
        BY <3>3 DEF Timeout, Disconnect, ClaimOnCancel, WaitFails, DispatchRaises, Terminalize
      <4>2. CASE Claim(r)
        <5>1. /\ Undecided(r) => row'[r].decision = "EXPIRED"
              /\ ~Undecided(r) => row'[r] = row[r]
          BY <4>2, DecideEffect DEF Claim
        <5> QED
          BY <1>0, <5>1
      <4> QED
        BY <1>0, <4>1, <4>2
    <3> QED
      BY <1>2, <2>1, <2>4, <3>1, <3>2, <3>3 DEF HookMove, HookStep, HookTrouble
  <2> QED
    BY <2>2, <2>3, <2>4
<1>3. ASSUME NEW q \in Request, Drain(q)
      PROVE  FALSE
  <2>1. /\ Undecided(q) => row'[q].decision = "EXPIRED"
        /\ ~Undecided(q) => row'[q] = row[q]
        /\ \A p \in Request \ {q} : row'[p] = row[p]
    BY <1>3, DecideEffect DEF Drain, Claim
  <2> QED
    BY <1>0, <2>1
<1>4. ASSUME NEW c \in Call, CallStep(c)
      PROVE  \/ Covers(r, GrantedBy(GrantRows))
             \/ RecordGrant(c) /\ Undecided(r) /\ call[c].req = r
  <2>1. CASE RecordDecision(c)
    <3>1. call[c].req \in Request /\ call[c].decision \in Decision
      BY <2>1 DEF RecordDecision, CallsTrue, TypeOK, CallState
    <3>2. row'[r] = row[r] \/ row'[r].via = "USER"
      BY <2>1, <3>1, DecideEffect DEF RecordDecision
    <3> QED
      BY <1>0, <3>2
  <2>2. CASE RecordGrant(c)
    <3>1. call[c].req \in Request
      BY <2>2 DEF RecordGrant, CallsTrue
    <3>2. row'[r] = row[r] \/ (Undecided(r) /\ call[c].req = r)
      BY <2>2, <3>1, DecideEffect DEF RecordGrant
    <3> QED
      BY <1>0, <2>2, <3>2
  <2>3. CASE ApproveCovered(c)
    <3>1. row'[r] = row[r] \/ r \in call[c].rows
      BY <2>3 DEF ApproveCovered, TypeOK
    <3>2. r \in call[c].rows
      BY <1>0, <3>1
    <3> QED
      BY <1>0, <2>3, <3>2 DEF ApproveCovered, GrantsTraced, Covers
  <2>4. CASE UNCHANGED row
    BY <1>0, <2>4
  <2> QED
    BY <1>4, <2>1, <2>2, <2>3, <2>4
       DEF CallStep, Submit, SendWake, SubmitGrant, SendGrantWake, ReadSources, ListPending,
           WakeCovered
<1>5. ASSUME NEW q \in Request, Age(q)
      PROVE  FALSE
  <2>1. row'[q].decision = "overdue" /\ \A p \in Request \ {q} : row'[p] = row[p]
    BY <1>5 DEF Age, TypeOK, Row
  <2> QED
    BY <1>0, <2>1
<1>6. ASSUME \/ Drained \/ Sigterm \/ ProxyEnds \/ (\E q \in Request : LoseWake(q))
             \/ LoseGrantKeys \/ DeleteSession \/ (\E c \in Call : CallDies(c))
      PROVE  FALSE
  BY <1>0, <1>6 DEF Drained, Sigterm, ProxyEnds, LoseWake, LoseGrantKeys, DeleteSession, CallDies
<1> QED
  BY <1>2, <1>3, <1>4, <1>5, <1>6, Moves DEF OutsideMove, DrainStep, WorldStep

\* Only the user's own grant makes more count as granted.
LEMMA GrantsGrow ==
    ASSUME TInv, WakesTrue, CallsTrue, GrantsTraced, Next, session'
    PROVE  /\ GrantedBy(GrantRows) \subseteq GrantedBy(GrantRows')
           /\ \/ GrantedBy(GrantRows') = GrantedBy(GrantRows)
              \/ \E c \in Call : RecordGrant(c) /\ Undecided(call[c].req)
           /\ GrantedBy(GrantRows') \subseteq GrantedBy(GrantRows) \cup GrantedBy(chosen')
<1>1. GrantRows \subseteq GrantRows'
  BY RowsKept, SessionEnds, Words DEF GrantRows, RowKept
<1>2. GrantedBy(GrantRows) \subseteq GrantedBy(GrantRows')
  BY <1>1, GrantedMeans
<1>3. ASSUME NEW a \in GrantedBy(GrantRows'), a \notin GrantedBy(GrantRows)
      PROVE  /\ a \in GrantedBy(chosen')
             /\ \E c \in Call : RecordGrant(c) /\ Undecided(call[c].req)
  <2>1. PICK r \in GrantRows' : a \in Needs[r]
    BY <1>3, GrantedMeans
  <2>2. r \in Request /\ r \notin GrantRows /\ ~Covers(r, GrantedBy(GrantRows))
    BY <1>3, <2>1, GrantedMeans DEF GrantRows, Covers
  <2>3. PICK c \in Call : RecordGrant(c) /\ Undecided(r) /\ call[c].req = r
    BY <2>2, NewGrants
  <2>4. r \in chosen'
    BY <2>3 DEF RecordGrant
  <2> QED
    BY <2>1, <2>3, <2>4, GrantedMeans
<1> QED
  BY <1>2, <1>3

\* The cache and the calls take over no more than what is granted.
LEMMA TakenOver ==
    ASSUME TInv, CallsTrue, Next
    PROVE  /\ cached' \subseteq cached \cup GrantedBy(GrantRows)
           /\ chosen \subseteq chosen'
           /\ \A c \in Call :
                 call'[c].granted \subseteq call[c].granted \cup GrantedBy(GrantRows)
<1> USE Words DEF TInv
<1>1. ASSUME NEW r \in Request, HookMove(r)
      PROVE  /\ cached' \subseteq cached \cup GrantedBy(GrantRows)
             /\ UNCHANGED <<chosen, call>>
  <2>1. CASE FirstGrant(r) \/ RecheckGrants(r)
    BY <2>1, HydrateEffect DEF FirstGrant, RecheckGrants
  <2>2. CASE UNCHANGED cached
    BY <1>1, <2>2, HookLocally DEF HookMove, HookLocal
  <2> QED
    BY <1>1, <2>1, <2>2
       DEF HookMove, HookStep, HookTrouble, NoGrant, Persist, PersistFails, Park, ReceiveWake,
           Timeout, Dispatch, PersistRaises, Disconnect, WaitFails, DispatchRaises
<1>2. ASSUME DrainStep \/ Sigterm \/ ProxyEnds \/ WorldStep
      PROVE  cached' \subseteq cached /\ UNCHANGED <<chosen, call>>
  BY <1>2 DEF DrainStep, Drain, Drained, Sigterm, ProxyEnds, WorldStep, LoseWake, Age,
              LoseGrantKeys, DeleteSession
<1>3. ASSUME NEW c \in Call, CallStep(c) \/ CallDies(c)
      PROVE  /\ cached' \subseteq cached \cup GrantedBy(GrantRows)
             /\ chosen \subseteq chosen'
             /\ \A d \in Call :
                   call'[d].granted \subseteq call[d].granted \cup GrantedBy(GrantRows)
  <2>1. CASE ReadSources(c)
    <3>1. call' = [call EXCEPT ![c].pc = "list", ![c].granted = GrantedBy(GrantRows)]
      BY <2>1 DEF ReadSources
    <3>2. PICK granted \in SUBSET ActionType :
            /\ granted = GrantedBy(GrantRows)
            /\ call' = [call EXCEPT ![c].pc = "list", ![c].granted = granted]
      BY <3>1, GrantedType
    <3>3. /\ call'[c].granted = granted
          /\ \A d \in Call \ {c} : call'[d] = call[d]
      BY <3>2, GrantedEffect DEF CallPc
    <3>4. \A d \in Call :
            call'[d].granted \subseteq call[d].granted \cup GrantedBy(GrantRows)
      BY <3>2, <3>3
    <3> QED
      BY <2>1, <3>4 DEF ReadSources
  <2>2. ASSUME \A d \in Call : call'[d].granted \subseteq call[d].granted, ~ReadSources(c)
        PROVE  /\ cached' \subseteq cached \cup GrantedBy(GrantRows)
               /\ chosen \subseteq chosen'
    BY <1>3, <2>2 DEF CallStep, CallDies, Submit, RecordDecision, SendWake, SubmitGrant,
              RecordGrant, SendGrantWake, ListPending, ApproveCovered, WakeCovered
  <2>3. ASSUME \E pc \in CallPc : At(c, pc) \/ Return(c, pc)
        PROVE  \A d \in Call : call'[d].granted \subseteq call[d].granted
    BY <2>3, AtEffect, ReturnEffect
  <2>4. CASE Submit(c)
    <3>1. PICK r \in Request, decision \in {"APPROVED", "REJECTED"} :
            call' = [call EXCEPT ![c] = NewCall("record", r, decision)]
      BY <2>4 DEF Submit
    <3>2. \A d \in Call : call'[d].granted \subseteq call[d].granted
      BY <3>1, SubmitEffect DEF CallPc
    <3> QED
      BY <2>2, <2>4, <3>2 DEF Submit
  <2>5. CASE SubmitGrant(c)
    <3>1. PICK r \in Request : call' = [call EXCEPT ![c] = NewCall("grant", r, "APPROVED")]
      BY <2>5 DEF SubmitGrant
    <3>2. \A d \in Call : call'[d].granted \subseteq call[d].granted
      BY <3>1, SubmitEffect DEF CallPc
    <3> QED
      BY <2>5, <3>2 DEF SubmitGrant
  <2>6. CASE ListPending(c)
    <3>1. PICK rows \in SUBSET Request :
            call' = [call EXCEPT ![c].pc = "cover", ![c].rows = rows]
      BY <2>6 DEF ListPending
    <3>2. \A d \in Call : call'[d].granted \subseteq call[d].granted
      BY <3>1, RowsEffect DEF CallPc
    <3> QED
      BY <2>6, <3>2 DEF ListPending
  <2>7. CASE ApproveCovered(c)
    <3>1. PICK rows \in SUBSET Request :
            call' = [call EXCEPT ![c].pc = "wake_all", ![c].rows = rows]
      <4>1. {r \in call[c].rows : Undecided(r)} \in SUBSET Request
        BY DEF TypeOK, CallState
      <4> QED
        BY <2>7, <4>1 DEF ApproveCovered
    <3>2. \A d \in Call : call'[d].granted \subseteq call[d].granted
      BY <3>1, RowsEffect DEF CallPc
    <3> QED
      BY <2>7, <3>2 DEF ApproveCovered
  <2>8. CASE WakeCovered(c)
    <3>1. \A d \in Call : call'[d].granted \subseteq call[d].granted
      BY <2>8, LessEffect, ReturnEffect DEF WakeCovered, CallPc
    <3> QED
      BY <2>8, <3>1 DEF WakeCovered
  <2>9. CASE RecordDecision(c) \/ SendWake(c) \/ RecordGrant(c) \/ SendGrantWake(c) \/ CallDies(c)
    <3>1. \E pc \in CallPc : At(c, pc) \/ Return(c, pc)
      BY <2>9 DEF RecordDecision, SendWake, RecordGrant, SendGrantWake, CallDies, CallPc
    <3> QED
      BY <2>3, <2>9, <3>1 DEF RecordDecision, SendWake, RecordGrant, SendGrantWake, CallDies
  <2> QED
    BY <1>3, <2>1, <2>4, <2>5, <2>6, <2>7, <2>8, <2>9 DEF CallStep
<1> QED
  BY <1>1, <1>2, <1>3, Moves DEF OutsideMove

\* The rows a call is about to approve are covered by what it read.
LEMMA CoversListed ==
    ASSUME TInv, CallsTrue, GrantsTraced, Next, NEW c \in Call, call'[c].pc = "cover",
           NEW r \in call'[c].rows
    PROVE  Covers(r, call'[c].granted)
<1> USE Words DEF TInv
<1>1. CASE call'[c] = call[c]
  BY <1>1 DEF GrantsTraced
<1>2. CASE ListPending(c)
  <2>1. PICK rows \in SUBSET {q \in Request : Undecided(q) /\ Covers(q, call[c].granted)} :
          call' = [call EXCEPT ![c].pc = "cover", ![c].rows = rows]
    BY <1>2 DEF ListPending
  <2>2. call'[c].rows = rows /\ call'[c].granted = call[c].granted
    BY <2>1, RowsEffect DEF CallPc
  <2> QED
    BY <2>1, <2>2
<1>3. ASSUME NEW d \in Call, CallStep(d) \/ CallDies(d), c # d
      PROVE  call'[c] = call[c]
  BY <1>3 DEF CallStep, CallDies, Submit, RecordDecision, SendWake, SubmitGrant,
              RecordGrant, SendGrantWake, ReadSources, ListPending, ApproveCovered, WakeCovered,
              At, Return, TypeOK
<1>4. ASSUME \A d \in Call : ~(CallStep(d) \/ CallDies(d))
      PROVE  call' = call
  <2>1. ASSUME NEW q \in Request, HookMove(q)
        PROVE  call' = call
    BY <2>1, HookLocally DEF HookMove, HookLocal
  <2>2. ASSUME DrainStep \/ Sigterm \/ ProxyEnds \/ WorldStep
        PROVE  call' = call
    BY <2>2 DEF DrainStep, Drain, Drained, Sigterm, ProxyEnds, WorldStep, LoseWake, Age,
                LoseGrantKeys, DeleteSession
  <2> QED
    BY <1>4, <2>1, <2>2, Moves DEF OutsideMove
<1>5. ASSUME CallStep(c) \/ CallDies(c), ~ListPending(c)
      PROVE  FALSE
  <2>1. CASE Submit(c) \/ SubmitGrant(c)
    <3>1. call'[c].pc \in {"record", "grant"}
      BY <2>1 DEF Submit, SubmitGrant, NewCall, TypeOK
    <3> QED
      BY <3>1
  <2>2. CASE ReadSources(c)
    BY <2>2 DEF ReadSources, TypeOK, CallState
  <2>3. CASE ApproveCovered(c)
    BY <2>3 DEF ApproveCovered, TypeOK, CallState
  <2>4. CASE WakeCovered(c)
    <3>1. call'[c].pc \in {"wake_all", "done"}
      BY <2>4, LessEffect, ReturnEffect DEF WakeCovered, CallPc
    <3> QED
      BY <3>1
  <2>5. CASE RecordDecision(c) \/ SendWake(c) \/ RecordGrant(c) \/ SendGrantWake(c) \/ CallDies(c)
    BY <2>5, AtEffect, ReturnEffect
       DEF RecordDecision, SendWake, RecordGrant, SendGrantWake, CallDies, CallPc
  <2> QED
    BY <1>5, <2>1, <2>2, <2>3, <2>4, <2>5 DEF CallStep
<1> QED
  BY <1>1, <1>2, <1>3, <1>4, <1>5

LEMMA GrantsStayTraced ==
    ASSUME TInv, WakesTrue, CallsTrue, GrantsTraced, Next
    PROVE  GrantsTraced'
<1>1. GrantedBy(chosen) \subseteq GrantedBy(chosen')
  BY TakenOver, GrantedMeans
<1>2. GrantedBy(GrantRows) \cup cached \subseteq GrantedBy(chosen)
  BY DEF GrantsTraced, GrantsDoNotSpread
<1>3. ~session' => GrantedBy(GrantRows') = {}
  BY GrantedMeans DEF GrantRows
<1>4. GrantedBy(GrantRows') \cup cached' \subseteq GrantedBy(chosen')
  BY <1>1, <1>2, <1>3, GrantsGrow, TakenOver
<1>5. session' => cached' \subseteq GrantedBy(GrantRows')
  BY GrantsGrow, TakenOver, SessionEnds DEF GrantsTraced
<1>6. ASSUME NEW c \in Call
      PROVE  /\ call'[c].granted \subseteq GrantedBy(chosen')
             /\ session' => call'[c].granted \subseteq GrantedBy(GrantRows')
  BY <1>1, <1>2, GrantsGrow, TakenOver, SessionEnds DEF GrantsTraced
<1>7. ASSUME NEW c \in Call, call'[c].pc = "cover"
      PROVE  \A r \in call'[c].rows : Covers(r, call'[c].granted)
  BY <1>7, CoversListed
<1> QED
  BY <1>4, <1>5, <1>6, <1>7 DEF GrantsTraced, GrantsDoNotSpread, Covers, GrantedBy

\* An overdue row stays so until it is decided.
LEMMA StaysOverdue ==
    ASSUME TInv, CallsTrue, OutsideMove, NEW r \in Request, row[r].decision = "overdue"
    PROVE  row'[r].decision # "pending"
<1> USE Words DEF TInv
<1>1. ASSUME NEW q \in Request, NEW decision \in Decision, NEW via \in Via,
             Decide(q, decision, via)
      PROVE  row'[r].decision # "pending"
  BY <1>1, DecideEffect
<1>2. CASE UNCHANGED row
  BY <1>2
<1>3. ASSUME NEW q \in Request, Drain(q) \/ Age(q)
      PROVE  row'[r].decision # "pending"
  <2>1. CASE Drain(q)
    BY <1>1, <2>1 DEF Drain, Claim
  <2>2. CASE Age(q)
    BY <2>2 DEF Age, TypeOK, Row
  <2> QED
    BY <1>3, <2>1, <2>2
<1>4. ASSUME NEW c \in Call, CallStep(c) \/ CallDies(c)
      PROVE  row'[r].decision # "pending"
  <2>1. CASE RecordDecision(c)
    <3>1. call[c].req \in Request /\ call[c].decision \in Decision
      BY <2>1 DEF RecordDecision, CallsTrue, TypeOK, CallState
    <3> QED
      BY <1>1, <2>1, <3>1 DEF RecordDecision
  <2>2. CASE RecordGrant(c)
    <3>1. call[c].req \in Request
      BY <2>2 DEF RecordGrant, CallsTrue
    <3> QED
      BY <1>1, <2>2, <3>1 DEF RecordGrant
  <2>3. CASE ApproveCovered(c)
    BY <2>3 DEF ApproveCovered, TypeOK
  <2> QED
    BY <1>2, <1>4, <2>1, <2>2, <2>3
       DEF CallStep, CallDies, Submit, SendWake, SubmitGrant, SendGrantWake, ReadSources,
           ListPending, WakeCovered
<1> QED
  BY <1>2, <1>3, <1>4
     DEF OutsideMove, DrainStep, Drained, Sigterm, ProxyEnds, WorldStep, LoseWake,
         LoseGrantKeys, DeleteSession

\* Whoever waits undecided has been waiting, or has just found no grant.
LEMMA WaitStays ==
    ASSUME TInv, WakesTrue, CallsTrue, Next,
           NEW r \in Request, flow'[r].pc = "wait", Live(r)'
    PROVE  /\ Live(r)
           /\ \/ flow[r].pc = "wait"
              \/ Park(r) /\ row' = row
<1> USE Words DEF TInv
<1>1. session /\ session' /\ row'[r].decision = "pending"
  BY SessionEnds DEF Live
<1>2. ASSUME row'[r] = row[r], flow'[r] = flow[r]
      PROVE  Live(r) /\ flow[r].pc = "wait"
  BY <1>1, <1>2 DEF Live
<1>3. ASSUME NEW q \in Request, HookMove(q), q # r
      PROVE  Live(r) /\ flow[r].pc = "wait"
  BY <1>2, <1>3, HookLocally DEF HookMove, HookLocal
<1>4. ASSUME HookMove(r)
      PROVE  Park(r) /\ row' = row /\ Live(r)
  <2>1. CASE Park(r)
    BY <1>1, <2>1 DEF Park, Live
  <2>2. CASE FirstGrant(r) \/ NoGrant(r) \/ Persist(r) \/ RecheckGrants(r)
    BY <2>2, StepEffect DEF FirstGrant, NoGrant, Persist, RecheckGrants
  <2>3. CASE PersistFails(r) \/ Dispatch(r) \/ PersistRaises(r) \/ WaitFails(r) \/ DispatchRaises(r)
    BY <2>3, FinishEffect DEF PersistFails, Dispatch, PersistRaises, WaitFails, DispatchRaises
  <2>4. CASE ReceiveWake(r)
    <3>1. PICK decision \in wake[r] : Answer(r, decision)
      BY <2>4 DEF ReceiveWake
    <3>2. decision \in Decision
      BY DEF TypeOK
    <3> QED
      BY <3>1, <3>2, StepEffect, FinishEffect DEF Answer
  <2>5. CASE Timeout(r)
    <3>1. row[r].decision # "absent"
      BY <2>5 DEF Timeout, RowFollowsFlow, FollowsFlow
    <3>2. Winner(r) \in Decision
      BY <2>5, <3>1, ClaimEffect DEF Timeout
    <3> QED
      BY <2>5, <3>2, StepEffect, FinishEffect DEF Timeout, Answer
  <2>6. CASE Disconnect(r)
    <3>1. flow'[r].pc \in {"done", "ghost"}
      BY <2>6, FinishEffect DEF Disconnect, TypeOK
    <3> QED
      BY <3>1
  <2> QED
    BY <1>4, <2>1, <2>2, <2>3, <2>4, <2>5, <2>6 DEF HookMove, HookStep, HookTrouble
<1>5. CASE OutsideMove
  <2>1. flow'[r] = flow[r] /\ row[r].decision # "absent" /\ RowKept(r)
    BY <1>1, <1>5, OutsideSteps DEF OutsideMove, OutsideHook
  <2>2. row[r] \in Row
    BY DEF TypeOK
  <2>3. row[r].decision \in Null
    BY <1>1, <2>1, <2>2 DEF RowKept, Row
  <2>4. row[r].decision # "overdue"
    BY <1>5, StaysOverdue, <1>1
  <2> QED
    BY <1>1, <2>1, <2>3, <2>4 DEF Live, Null
<1> QED
  BY <1>3, <1>4, <1>5, Moves

\* A call keeps reaching a request that waits, as long as it waits undecided.
LEMMA StillReached ==
    ASSUME TInv, WakesTrue, CallsTrue, Next, NEW c \in Call, NEW r \in Request,
           Reached(c, r), Live(r), Live(r)', Covers(r, GrantedBy(GrantRows))
    PROVE  Reached(c, r)'
<1> USE Words DEF TInv
<1>0. Undecided(r) /\ row'[r].decision = "pending"
  BY DEF Live, Undecided, Null
<1>1. ASSUME call'[c] = call[c]
      PROVE  Reached(c, r)'
  BY <1>1 DEF Reached, Covers
<1>2. ASSUME NEW d \in Call, CallStep(d) \/ CallDies(d), c # d
      PROVE  call'[c] = call[c]
  BY <1>2 DEF CallStep, CallDies, Submit, RecordDecision, SendWake, SubmitGrant,
              RecordGrant, SendGrantWake, ReadSources, ListPending, ApproveCovered, WakeCovered,
              At, Return, TypeOK
<1>3. ASSUME \A d \in Call : ~(CallStep(d) \/ CallDies(d))
      PROVE  call' = call
  <2>1. ASSUME NEW q \in Request, HookMove(q)
        PROVE  call' = call
    BY <2>1, HookLocally DEF HookMove, HookLocal
  <2>2. ASSUME DrainStep \/ Sigterm \/ ProxyEnds \/ WorldStep
        PROVE  call' = call
    BY <2>2 DEF DrainStep, Drain, Drained, Sigterm, ProxyEnds, WorldStep, LoseWake, Age,
                LoseGrantKeys, DeleteSession
  <2> QED
    BY <1>3, <2>1, <2>2, Moves DEF OutsideMove
<1>4. CASE SendGrantWake(c)
  <2>1. call'[c].pc = "sources"
    BY <1>4, AtEffect DEF SendGrantWake, CallPc
  <2> QED
    BY <2>1 DEF Reached
<1>5. CASE ReadSources(c)
  <2>1. call' = [call EXCEPT ![c].pc = "list", ![c].granted = GrantedBy(GrantRows)]
    BY <1>5 DEF ReadSources
  <2>2. PICK granted \in SUBSET ActionType :
          /\ granted = GrantedBy(GrantRows)
          /\ call' = [call EXCEPT ![c].pc = "list", ![c].granted = granted]
    BY <2>1, GrantedType
  <2>3. call'[c].pc = "list" /\ call'[c].granted = granted
    BY <2>2, GrantedEffect DEF CallPc
  <2> QED
    BY <2>2, <2>3 DEF Reached, Covers
<1>6. CASE ListPending(c)
  <2>1. PICK rows \in SUBSET Request :
          /\ {q \in Request : Live(q) /\ Undecided(q) /\ Covers(q, call[c].granted)} \subseteq rows
          /\ call' = [call EXCEPT ![c].pc = "cover", ![c].rows = rows]
    BY <1>6 DEF ListPending
  <2>2. call'[c].pc = "cover" /\ call'[c].rows = rows
    BY <2>1, RowsEffect DEF CallPc
  <2>3. Covers(r, call[c].granted)
    BY <1>6 DEF Reached, ListPending
  <2> QED
    BY <1>0, <2>1, <2>2, <2>3 DEF Reached
<1>7. CASE ApproveCovered(c)
  <2>1. r \in call[c].rows
    BY <1>7 DEF Reached, ApproveCovered
  <2>2. row'[r].decision = "APPROVED"
    BY <1>0, <1>7, <2>1 DEF ApproveCovered, TypeOK
  <2> QED
    BY <1>0, <2>2
<1>8. CASE CallDies(c)
  <2>1. call'[c].pc = "died"
    BY <1>8, ReturnEffect DEF CallDies, CallPc
  <2> QED
    BY <2>1 DEF Reached
<1>9. CASE \/ Submit(c) \/ RecordDecision(c) \/ SendWake(c) \/ SubmitGrant(c) \/ RecordGrant(c)
           \/ WakeCovered(c)
  BY <1>9 DEF Reached, Submit, RecordDecision, SendWake, SubmitGrant, RecordGrant, WakeCovered
<1> QED
  BY <1>1, <1>2, <1>3, <1>4, <1>5, <1>6, <1>7, <1>8, <1>9 DEF CallStep

LEMMA GrantsStayOnTheirWay ==
    ASSUME TInv, WakesTrue, CallsTrue, GrantsTraced, GrantOnItsWay, Next
    PROVE  GrantOnItsWay'
<1> USE Words
<1> SUFFICES ASSUME NEW r \in Request, "recheck_error" \notin faults'.hazards,
                    flow'[r].pc = "wait", Live(r)', Covers(r, GrantedBy(GrantRows'))
             PROVE  \E c \in Call : Reached(c, r)'
  BY DEF GrantOnItsWay, Covers, GrantedBy
<1>1. session' /\ Live(r) /\ (flow[r].pc = "wait" \/ (Park(r) /\ row' = row))
  BY WaitStays DEF Live
<1>2. ASSUME NEW c \in Call, RecordGrant(c), Undecided(call[c].req)
      PROVE  Reached(c, r)'
  <2>1. call'[c].pc = "grant_wake"
    BY <1>2, AtEffect DEF RecordGrant, CallPc, TInv
  <2> QED
    BY <2>1 DEF Reached
<1>3. CASE GrantedBy(GrantRows') = GrantedBy(GrantRows)
  <2>1. Covers(r, GrantedBy(GrantRows))
    BY <1>3
  <2>2. CASE flow[r].pc = "wait"
    <3>1. "recheck_error" \notin faults.hazards
      BY RowsKept
    <3>2. PICK c \in Call : Reached(c, r)
      BY <1>1, <2>1, <2>2, <3>1 DEF GrantOnItsWay
    <3> QED
      BY <1>1, <2>1, <3>2, StillReached
  <2>3. CASE Park(r)
    <3>1. NoGrantLeft(r)
      BY <2>3, HazardEffect DEF Park, TInv
    <3>2. Undecided(r)
      BY <1>1 DEF Live, Undecided, Null
    <3> QED
      BY <2>1, <3>1, <3>2 DEF NoGrantLeft, GrantFor
  <2> QED
    BY <1>1, <2>2, <2>3
<1> QED
  BY <1>1, <1>2, <1>3, GrantsGrow

-----------------------------------------------------------------------------
(* The theorems                                                              *)

LEMMA IInvInit == Init => IInv
<1> SUFFICES ASSUME Init PROVE IInv
  OBVIOUS
<1>1. TypeOK
  BY GateAssumption DEF Init, TypeOK, Row, Flow, NewFlow, FlowPc, Outcome, Via, CallState, CallPc,
                        IdleCall, NewCall, Decision
<1>2. RowFollowsFlow /\ WakesTrue /\ AnswerMatchesRow /\ RowsSettled
  BY DEF Init, RowFollowsFlow, FollowsFlow, WakesTrue, AnswerMatchesRow, RowsSettled,
         NoneForgotten, NewFlow
<1>3. CallsTrue
  BY DEF Init, CallsTrue, IdleCall, NewCall
<1>4. GrantRows = {}
  BY DEF Init, GrantRows
<1>5. GrantsTraced
  BY <1>4 DEF Init, GrantsTraced, GrantsDoNotSpread, GrantedBy, IdleCall, NewCall
<1>6. GrantOnItsWay
  BY DEF Init, GrantOnItsWay, NewFlow
<1> QED
  BY <1>1, <1>2, <1>3, <1>5, <1>6 DEF IInv

LEMMA IInvStep == IInv /\ [Next]_vars => IInv'
<1> SUFFICES ASSUME IInv, [Next]_vars PROVE IInv'
  OBVIOUS
<1>1. TInv /\ WakesTrue /\ CallsTrue /\ GrantsTraced /\ GrantOnItsWay
      /\ AnswerMatchesRow /\ RowsSettled
  BY DEF IInv, TInv
<1>2. CASE Next
  BY <1>1, <1>2, TypesKept, RowsKept, WakesStayTrue, CallsStayTrue, EndsTold, GrantsStayTraced,
     GrantsStayOnTheirWay DEF IInv
<1>3. CASE UNCHANGED vars
  <2>1. TypeOK' /\ RowFollowsFlow' /\ WakesTrue' /\ CallsTrue'
    BY <1>1, <1>3 DEF vars, TInv, TypeOK, RowFollowsFlow, FollowsFlow, WakesTrue, CallsTrue
  <2>2. AnswerMatchesRow'
    BY <1>1, <1>3 DEF vars, AnswerMatchesRow
  <2>3. RowsSettled'
    BY <1>1, <1>3 DEF vars, RowsSettled, NoneForgotten, Undecided
  <2>4. GrantsTraced'
    BY <1>1, <1>3 DEF vars, GrantsTraced, GrantsDoNotSpread, GrantRows
  <2>5. GrantOnItsWay'
    BY <1>1, <1>3 DEF vars, GrantOnItsWay, GrantRows, Reached, Live
  <2> QED
    BY <2>1, <2>2, <2>3, <2>4, <2>5 DEF IInv
<1> QED
  BY <1>2, <1>3

LEMMA IInvAlways == Spec => []IInv
BY IInvInit, IInvStep, PTL DEF Spec

\* In every run all rows, requests, wakes, keys and calls have their types.
THEOREM TypeCorrect == Spec => []TypeOK
<1>1. IInv => TypeOK
  BY DEF IInv
<1> QED
  BY <1>1, IInvAlways, PTL

\* What the sandbox is told is what the row says, whatever came first and was lost.
THEOREM AnswersTrue == Spec => []AnswerMatchesRow
<1>1. IInv => AnswerMatchesRow
  BY DEF IInv
<1> QED
  BY <1>1, IInvAlways, PTL

\* Only the user's grants, and what they cover, are ever granted for the session.
THEOREM GrantsBounded == Spec => []GrantsDoNotSpread
<1>1. IInv => GrantsDoNotSpread
  BY DEF IInv, GrantsTraced
<1> QED
  BY <1>1, IInvAlways, PTL

\* No request covered by a grant is left waiting when the calls are through.
THEOREM GrantsReachAll == Spec => []GrantLeavesNoneWaiting
<1>1. IInv => GrantLeavesNoneWaiting
  BY DEF IInv, GrantOnItsWay, GrantLeavesNoneWaiting, Reached
<1> QED
  BY <1>1, IInvAlways, PTL

\* Every row is decided when its request has ended, but for the named hazards.
THEOREM RowsDecided == Spec => []RowsSettled
<1>1. IInv => RowsSettled
  BY DEF IInv
<1> QED
  BY <1>1, IInvAlways, PTL

\* The decision in a row is never replaced.
THEOREM DecidedOnce == Spec => DecisionIsFinal
<1>1. IInv /\ [Next]_vars => [\A r \in Request : row[r].decision \in Decision => row'[r] = row[r]]_vars
  <2> SUFFICES ASSUME IInv, Next
               PROVE  \A r \in Request : row[r].decision \in Decision => row'[r] = row[r]
    OBVIOUS
  <2> QED
    BY RowsKept DEF IInv, TInv, RowKept
<1> QED
  BY <1>1, IInvAlways, PTL DEF Spec, DecisionIsFinal
=============================================================================

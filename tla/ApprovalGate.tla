---------------------------- MODULE ApprovalGate ----------------------------
(***************************************************************************)
(* Approvals of one Craft session's requests to one external app:          *)
(*                                                                         *)
(*   the sandbox's request parks in the egress proxy (GateAddon.request)   *)
(*   the proxy writes a pending action_approval row (Postgres)             *)
(*   the API server records the user's decision and pushes a wake (Redis)  *)
(*   the proxy forwards the request, or answers it with a 403              *)
(*                                                                         *)
(* A decision may also be a grant for the rest of the session.  The proxy, *)
(* its worker threads and each API call are processes of their own; they   *)
(* meet in the row, whose conditional UPDATE is the only arbiter, and in   *)
(* wake lists that may lose what is pushed to them.                        *)
(***************************************************************************)
EXTENDS Integers, FiniteSets

CONSTANTS
    Request,        \* requests with policy ASK that the session's agent makes
    Call,           \* API calls of the user's browser
    ActionType,     \* action types that require approval
    Needs,          \* Needs[r]: the action types request r invokes
    PreApproved,    \* requests a scheduled run's grant may cover at any check
    MaxFaults,      \* bound: faults (see Fault)
    Hazards         \* which of HazardKinds the environment may show

HazardKinds == {
    "early_disconnect",  \* the socket closes while the grants are re-checked
    "persist_error",     \* announcing a committed row raises
    "terminalize_error", \* the database is away while a failure is cleaned up
    "recheck_error"      \* the second look at the grants fails
}

ASSUME GateAssumption ==
    /\ Needs \in [Request -> SUBSET ActionType]
    /\ \A r \in Request : Needs[r] # {}
    /\ PreApproved \subseteq Request
    /\ MaxFaults \in Nat
    /\ Hazards \subseteq HazardKinds

VARIABLES
    session,    \* the build session exists; its deletion cascades to the rows
    row,        \* action_approval rows; what a deleted row last said is kept
    wake,       \* approval:wake:{id}: decisions pushed and not popped
    cached,     \* approval:session-grant: action types with a live key
    flow,       \* the request hook of each request
    parked,     \* ParkedApprovals of the proxy
    proxy,      \* serving, or draining after SIGTERM
    undrained,  \* what drain_inflight still has to walk
    call,       \* the API calls
    chosen,     \* for checking only: requests the user granted for the session
    faults      \* how many faults so far, and the hazards among them

vars == <<session, row, wake, cached, flow, parked, proxy, undrained,
          call, chosen, faults>>

-----------------------------------------------------------------------------
(* Types *)

Decision == {"APPROVED", "REJECTED", "EXPIRED"}
Via == {"-", "USER", "PRE_APPROVAL", "SESSION_GRANT"}
\* decision IS NULL is "pending", and "overdue" once the row is older than the
\* proxy's wait window; no row yet is "absent".
Null == {"pending", "overdue"}
Row == [decision : Decision \cup Null \cup {"absent"}, via : Via]

\* "grant" and "dispatch" await credential injection, without and with a row
\* that was parked; "ghost" is a worker thread whose request is gone.
FlowPc == {"new", "persist", "recheck", "wait", "grant", "dispatch", "ghost", "done"}
\* "forwarded" or the 403s: a decision, an error; "gone" when the client or the
\* proxy went first.
Outcome == {"-", "forwarded", "REJECTED", "EXPIRED", "error", "client_gone", "proxy_gone"}
Flow == [pc : FlowPc, outcome : Outcome]
NewFlow == [pc |-> "new", outcome |-> "-"]

NoRequest == "none"
CallPc == {"idle", "record", "wake", "grant", "grant_wake", "sources", "list",
           "cover", "wake_all", "done", "died"}
CallState == [pc : CallPc,
              req : Request \cup {NoRequest},
              decision : Decision,
              granted : SUBSET ActionType,  \* granted_action_types
              rows : SUBSET Request]        \* pending_rows, then approved_ids
NewCall(pc, r, decision) ==
    [pc |-> pc, req |-> r, decision |-> decision, granted |-> {}, rows |-> {}]
IdleCall == NewCall("idle", NoRequest, "APPROVED")

TypeOK ==
    /\ session \in BOOLEAN
    /\ row \in [Request -> Row]
    /\ wake \in [Request -> SUBSET Decision]
    /\ cached \subseteq ActionType
    /\ flow \in [Request -> Flow]
    /\ parked \subseteq Request
    /\ proxy \in {"serving", "draining"}
    /\ undrained \subseteq Request
    /\ call \in [Call -> CallState]
    /\ chosen \subseteq Request
    /\ faults \in [count : 0..MaxFaults, hazards : SUBSET HazardKinds]

-----------------------------------------------------------------------------
(* The row *)

\* Faulty variant: whoever comes last wins.
RowExists(r) == session /\ row[r].decision # "absent"
\* try_record_decision: UPDATE ... WHERE decision IS NULL.
Undecided(r) == session /\ row[r].decision \in Null
\* is_live, and the cutoff of the session grants.
Live(r) == session /\ row[r].decision = "pending"

Decide(r, decision, via) ==
    row' = IF Undecided(r) THEN [row EXCEPT ![r] = [decision |-> decision, via |-> via]]
                           ELSE row

\* Faulty variant: the winner is read as if the row were always there.
ReadWinner(r) == IF Undecided(r) THEN "EXPIRED" ELSE row[r].decision
\* What _claim_expired_or_read_winner returns: a row that is gone has expired.
Winner(r) == IF session /\ ~Undecided(r) THEN row[r].decision ELSE "EXPIRED"
Claim(r) == Decide(r, "EXPIRED", "-")

GrantRows == {r \in Request : session /\ row[r].decision = "APPROVED"
                                      /\ row[r].via = "SESSION_GRANT"}
GrantedBy(rows) == UNION {Needs[r] : r \in rows}

\* Faulty variant: one action of a request is enough.
Touches(r, granted) == Needs[r] \cap granted # {}
\* Every action type the request invokes is granted.
Covers(r, granted) == Needs[r] \subseteq granted

\* _resolve_approval_grant: a scheduled run's grants, memoised for a minute, may
\* or may not be seen; then the cached keys, then the rows.
GrantFor(r, via) ==
    \/ via = "PRE_APPROVAL" /\ r \in PreApproved
    \/ via = "SESSION_GRANT" /\ (Covers(r, cached) \/ Covers(r, GrantedBy(GrantRows)))

\* A grant found in the rows is cached again.
Hydrate(r) ==
    cached' = IF Covers(r, cached) \/ ~Covers(r, GrantedBy(GrantRows))
              THEN cached ELSE cached \cup GrantedBy(GrantRows)

Push(r, decision) == wake' = [wake EXCEPT ![r] = @ \cup {decision}]
Fault == faults.count < MaxFaults /\ faults' = [faults EXCEPT !.count = @ + 1]
\* A fault of a kind the code does not survive unharmed.
Hazard(kind) ==
    /\ kind \in Hazards
    /\ faults.count < MaxFaults
    /\ faults' = [count |-> faults.count + 1, hazards |-> faults.hazards \cup {kind}]

-----------------------------------------------------------------------------
(* The request hook.  The drain's walk does not yield to the event loop.     *)

Step(r, pc) == flow' = [flow EXCEPT ![r].pc = pc]
Finish(r, outcome) == flow' = [flow EXCEPT ![r] = [pc |-> "done", outcome |-> outcome]]

\* request(), first look at the grants: a row that is approved from the start.
FirstGrant(r) ==
    /\ proxy = "serving"
    /\ flow[r].pc = "new" /\ session
    /\ \E via \in Via :
         /\ GrantFor(r, via)
         /\ row' = [row EXCEPT ![r] = [decision |-> "APPROVED", via |-> via]]
         /\ IF via = "SESSION_GRANT" THEN Hydrate(r) ELSE UNCHANGED cached
    /\ Step(r, "grant")
    /\ UNCHANGED <<session, wake, parked, proxy, undrained, call, chosen, faults>>

\* No grant, or an error while looking for one.
NoGrant(r) ==
    /\ proxy = "serving"
    /\ flow[r].pc = "new" /\ session
    /\ \/ ~GrantFor(r, "SESSION_GRANT") /\ UNCHANGED faults
       \/ Fault
    /\ Step(r, "persist")
    /\ UNCHANGED <<session, row, wake, cached, parked, proxy, undrained, call, chosen>>

\* _persist_approval_row: commit the row, then register it for the drain.
Persist(r) ==
    /\ proxy = "serving"
    /\ flow[r].pc = "persist" /\ session
    /\ row' = [row EXCEPT ![r] = [decision |-> "pending", via |-> "-"]]
    /\ parked' = parked \cup {r}
    /\ Step(r, "recheck")
    /\ UNCHANGED <<session, wake, cached, proxy, undrained, call, chosen, faults>>

\* The INSERT fails, because its session is gone or for any other reason.
PersistFails(r) ==
    /\ proxy = "serving"
    /\ flow[r].pc = "persist"
    /\ \/ ~session /\ UNCHANGED faults
       \/ Fault
    /\ Finish(r, "error")
    /\ UNCHANGED <<session, row, wake, cached, parked, proxy, undrained, call, chosen>>

\* Past the commit an exception leaves request() without an approval_id, and so
\* without anything to terminalize.
PersistRaises(r) ==
    /\ Hazard("persist_error")
    /\ proxy = "serving"
    /\ flow[r].pc = "persist" /\ session
    /\ row' = [row EXCEPT ![r] = [decision |-> "pending", via |-> "-"]]
    /\ parked' = parked \cup {r}
    /\ Finish(r, "error")
    /\ UNCHANGED <<session, wake, cached, proxy, undrained, call, chosen>>

\* The second look, on a worker thread, closes the window in which a session grant
\* appears between the first look and the insert.
RecheckGrants(r) ==
    /\ flow[r].pc \in {"recheck", "ghost"}
    /\ Undecided(r)
    /\ \E via \in Via :
         /\ GrantFor(r, via)
         /\ Decide(r, "APPROVED", via)
         /\ IF via = "SESSION_GRANT" THEN Hydrate(r) ELSE UNCHANGED cached
    /\ IF flow[r].pc = "recheck"
       THEN proxy = "serving" /\ Step(r, "dispatch") /\ parked' = parked \ {r}
       ELSE Step(r, "done") /\ UNCHANGED parked
    /\ UNCHANGED <<session, wake, proxy, undrained, call, chosen, faults>>

\* Faulty variant: a request that found no grant at first is parked at once.
Unchecked(r) == TRUE
\* No grant covers the request, or its row was decided meanwhile.
NoGrantLeft(r) == ~Undecided(r) \/ ~GrantFor(r, "SESSION_GRANT")
Park(r) ==
    /\ flow[r].pc \in {"recheck", "ghost"}
    /\ \/ NoGrantLeft(r) /\ UNCHANGED faults
       \/ Hazard("recheck_error")
    /\ IF flow[r].pc = "recheck" THEN proxy = "serving" /\ Step(r, "wait")
                                 ELSE Step(r, "done")
    /\ UNCHANGED <<session, row, wake, cached, parked, proxy, undrained, call, chosen>>

\* _write_response_for_decision, or on to the dispatch of an approved request.
Answer(r, decision) ==
    IF decision = "APPROVED" THEN Step(r, "dispatch") ELSE Finish(r, decision)

\* _await_decision takes the word of the wake for it.
ReceiveWake(r) ==
    /\ proxy = "serving"
    /\ flow[r].pc = "wait"
    /\ \E decision \in wake[r] :
         /\ Answer(r, decision)
         /\ wake' = [wake EXCEPT ![r] = @ \ {decision}]
    /\ parked' = parked \ {r}
    /\ UNCHANGED <<session, row, cached, proxy, undrained, call, chosen, faults>>

\* Faulty variant: the wait has no deadline of its own.
Woken(r) == wake[r] # {}
\* SANDBOX_APPROVAL_WAIT_TIMEOUT_SECONDS pass, whether a wake has just come or not.
Overdue(r) == flow[r].pc = "wait"
Timeout(r) ==
    /\ proxy = "serving"
    /\ flow[r].pc = "wait" /\ Overdue(r)
    /\ Claim(r)
    /\ Answer(r, Winner(r))
    /\ parked' = parked \ {r}
    /\ UNCHANGED <<session, wake, cached, proxy, undrained, call, chosen, faults>>

\* Faulty variant: a request whose client is gone leaves its row alone.
LeaveRow(r) == UNCHANGED row
\* CancelledError in _await_decision: the row gets a decision before the task ends.
ClaimOnCancel(r) == Claim(r)

\* The sandbox's socket closes: while the request is parked, while credentials are
\* injected, or while a worker thread looks at the grants, which goes on alone.
Disconnect(r) ==
    /\ proxy = "serving"
    /\ \/ /\ flow[r].pc = "wait"
          /\ ClaimOnCancel(r)
          /\ parked' = parked \ {r}
          /\ Finish(r, "client_gone")
          /\ UNCHANGED faults
       \/ /\ flow[r].pc \in {"grant", "dispatch"}
          /\ Finish(r, "client_gone")
          /\ UNCHANGED <<row, parked, faults>>
       \/ /\ flow[r].pc = "recheck" /\ Hazard("early_disconnect")
          /\ flow' = [flow EXCEPT ![r] = [pc |-> "ghost", outcome |-> "client_gone"]]
          /\ UNCHANGED <<row, parked>>
    /\ UNCHANGED <<session, wake, cached, proxy, undrained, call, chosen>>

\* An exception past the insert: _terminalize_after_unhandled_error claims the row
\* or reads the winner and wakes whoever waits; without the database, neither.
Terminalize(r) ==
    \/ Claim(r) /\ Push(r, Winner(r)) /\ Fault
    \/ Hazard("terminalize_error") /\ UNCHANGED <<row, wake>>

\* The wait itself fails: the cache is down.
WaitFails(r) ==
    /\ proxy = "serving"
    /\ flow[r].pc = "wait"
    /\ Terminalize(r)
    /\ Finish(r, "error")
    /\ parked' = parked \ {r}
    /\ UNCHANGED <<session, cached, proxy, undrained, call, chosen>>

\* _dispatch_approved_request: credentials are injected, or the request is blocked.
Dispatch(r) ==
    /\ proxy = "serving"
    /\ flow[r].pc \in {"grant", "dispatch"}
    /\ Finish(r, "forwarded") \/ Finish(r, "error")
    /\ UNCHANGED <<session, row, wake, cached, parked, proxy, undrained, call, chosen, faults>>

\* ... or it raises.  Only the request that was parked is terminalized.
DispatchRaises(r) ==
    /\ proxy = "serving"
    /\ \/ flow[r].pc = "grant" /\ UNCHANGED <<row, wake>> /\ Fault
       \/ flow[r].pc = "dispatch" /\ Terminalize(r)
    /\ Finish(r, "error")
    /\ UNCHANGED <<session, cached, parked, proxy, undrained, call, chosen>>

-----------------------------------------------------------------------------
(* The proxy process: SIGTERM, drain, end                                    *)

InFlight == {r \in Request : flow[r].pc \notin {"new", "ghost", "done"}}

Sigterm ==
    /\ proxy = "serving"
    /\ proxy' = "draining"
    /\ undrained' = parked
    /\ UNCHANGED <<session, row, wake, cached, flow, parked, call, chosen>>
    /\ Fault

\* drain_inflight terminalizes what was parked when it began, one by one; a wake
\* that cannot be pushed is let go.
Drain(r) ==
    /\ proxy = "draining"
    /\ r \in undrained
    /\ Claim(r)
    /\ Push(r, Winner(r)) \/ UNCHANGED wake
    /\ undrained' = undrained \ {r}
    /\ UNCHANGED <<session, cached, flow, parked, proxy, call, chosen, faults>>

\* ... and then waits for the hooks, on the event loop again.
Drained ==
    /\ proxy = "draining" /\ undrained = {}
    /\ proxy' = "serving"
    /\ UNCHANGED <<session, row, wake, cached, flow, parked, undrained, call, chosen, faults>>

\* The process ends, drained or killed; its successor starts with empty memory.
ProxyEnds ==
    /\ InFlight # {}
    /\ flow' = [r \in Request |->
                   IF r \in InFlight THEN [pc |-> "done", outcome |-> "proxy_gone"]
                   ELSE IF flow[r].pc = "ghost" THEN [flow[r] EXCEPT !.pc = "done"]
                   ELSE flow[r]]
    /\ parked' = {} /\ undrained' = {} /\ proxy' = "serving"
    /\ UNCHANGED <<session, row, wake, cached, call, chosen>>
    /\ Fault

-----------------------------------------------------------------------------
(* The API server                                                            *)

At(c, pc) == call' = [call EXCEPT ![c].pc = pc]
\* The call returns, or dies with its server; nothing of its memory is left.
Return(c, pc) == call' = [call EXCEPT ![c] = NewCall(pc, NoRequest, "APPROVED")]

\* submit_decision reads the row first: any undecided row of the user's will do.
Submit(c) ==
    /\ call[c].pc = "idle"
    /\ \E r \in Request, decision \in {"APPROVED", "REJECTED"} :
         /\ Undecided(r)
         /\ call' = [call EXCEPT ![c] = NewCall("record", r, decision)]
    /\ UNCHANGED <<session, row, wake, cached, flow, parked, proxy, undrained, chosen, faults>>

\* The conditional UPDATE; 404 or a conflict when it finds nothing undecided.
RecordDecision(c) ==
    /\ call[c].pc = "record"
    /\ Decide(call[c].req, call[c].decision, "USER")
    /\ IF Undecided(call[c].req) THEN At(c, "wake") ELSE Return(c, "done")
    /\ UNCHANGED <<session, wake, cached, flow, parked, proxy, undrained, chosen, faults>>

\* _send_wake_best_effort
SendWake(c) ==
    /\ call[c].pc = "wake"
    /\ Push(call[c].req, call[c].decision)
    /\ Return(c, "done")
    /\ UNCHANGED <<session, row, cached, flow, parked, proxy, undrained, chosen, faults>>

\* submit_session_grant wants a row the proxy may still wait for.
SubmitGrant(c) ==
    /\ call[c].pc = "idle"
    /\ \E r \in Request :
         /\ Live(r)
         /\ call' = [call EXCEPT ![c] = NewCall("grant", r, "APPROVED")]
    /\ UNCHANGED <<session, row, wake, cached, flow, parked, proxy, undrained, chosen, faults>>

RecordGrant(c) ==
    /\ call[c].pc = "grant"
    /\ Decide(call[c].req, "APPROVED", "SESSION_GRANT")
    /\ IF Undecided(call[c].req)
       THEN At(c, "grant_wake") /\ chosen' = chosen \cup {call[c].req}
       ELSE Return(c, "done") /\ UNCHANGED chosen
    /\ UNCHANGED <<session, wake, cached, flow, parked, proxy, undrained, faults>>

SendGrantWake(c) ==
    /\ call[c].pc = "grant_wake"
    /\ Push(call[c].req, "APPROVED")
    /\ At(c, "sources")
    /\ UNCHANGED <<session, row, cached, flow, parked, proxy, undrained, chosen, faults>>

\* list_session_grant_action_approvals, and the cache keys, as far as the cache is up.
ReadSources(c) ==
    /\ call[c].pc = "sources"
    /\ call' = [call EXCEPT ![c].pc = "list", ![c].granted = GrantedBy(GrantRows)]
    /\ \/ cached' = cached \cup GrantedBy(GrantRows) /\ UNCHANGED faults
       \/ (\E some \in SUBSET GrantedBy(GrantRows) : cached' = cached \cup some) /\ Fault
    /\ UNCHANGED <<session, row, wake, flow, parked, proxy, undrained, chosen>>

\* list_session_pending_action_approvals, within the wait window; the window is that
\* of the start of the call, so a row that has aged since may still be listed.
ListPending(c) ==
    LET covered(r) == Undecided(r) /\ Covers(r, call[c].granted) IN
    /\ call[c].pc = "list"
    /\ \E rows \in SUBSET {r \in Request : covered(r)} :
         /\ {r \in Request : Live(r) /\ covered(r)} \subseteq rows
         /\ call' = [call EXCEPT ![c].pc = "cover", ![c].rows = rows]
    /\ UNCHANGED <<session, row, wake, cached, flow, parked, proxy, undrained, chosen, faults>>

\* Approve those that are still undecided, in one transaction.
ApproveCovered(c) ==
    LET won == {r \in call[c].rows : Undecided(r)} IN
    /\ call[c].pc = "cover"
    /\ row' = [r \in Request |->
                  IF r \in won THEN [decision |-> "APPROVED", via |-> "SESSION_GRANT"]
                               ELSE row[r]]
    /\ call' = [call EXCEPT ![c].pc = "wake_all", ![c].rows = won]
    /\ UNCHANGED <<session, wake, cached, flow, parked, proxy, undrained, chosen, faults>>

WakeCovered(c) ==
    /\ call[c].pc = "wake_all"
    /\ \/ \E r \in call[c].rows :
             /\ Push(r, "APPROVED")
             /\ call' = [call EXCEPT ![c].rows = @ \ {r}]
       \/ call[c].rows = {} /\ Return(c, "done") /\ UNCHANGED wake
    /\ UNCHANGED <<session, row, cached, flow, parked, proxy, undrained, chosen, faults>>

\* The API server dies in the middle of a call.
CallDies(c) ==
    /\ call[c].pc \notin {"idle", "done", "died"}
    /\ Return(c, "died")
    /\ UNCHANGED <<session, row, wake, cached, flow, parked, proxy, undrained, chosen>>
    /\ Fault

-----------------------------------------------------------------------------
(* The rest of the world                                                     *)

\* A wake is lost: Redis refused or dropped it, or its 30 seconds passed.
LoseWake(r) ==
    /\ wake[r] # {}
    /\ wake' = [wake EXCEPT ![r] = {}]
    /\ UNCHANGED <<session, row, cached, flow, parked, proxy, undrained, call, chosen>>
    /\ Fault

\* An hour without use, or the cache was flushed.
LoseGrantKeys ==
    /\ cached # {}
    /\ cached' = {}
    /\ UNCHANGED <<session, row, wake, flow, parked, proxy, undrained, call, chosen>>
    /\ Fault

Age(r) ==
    /\ Live(r)
    /\ row' = [row EXCEPT ![r].decision = "overdue"]
    /\ UNCHANGED <<session, wake, cached, flow, parked, proxy, undrained, call, chosen, faults>>

\* The user deletes the session; the rows go with it, the cached keys stay.
DeleteSession ==
    /\ session
    /\ session' = FALSE
    /\ UNCHANGED <<row, wake, cached, flow, parked, proxy, undrained, call, chosen>>
    /\ Fault

-----------------------------------------------------------------------------
(* Specification                                                             *)

Init ==
    /\ session = TRUE
    /\ row = [r \in Request |-> [decision |-> "absent", via |-> "-"]]
    /\ wake = [r \in Request |-> {}]
    /\ cached = {}
    /\ flow = [r \in Request |-> NewFlow]
    /\ parked = {}
    /\ proxy = "serving"
    /\ undrained = {}
    /\ call = [c \in Call |-> IdleCall]
    /\ chosen = {}
    /\ faults = [count |-> 0, hazards |-> {}]

HookStep(r) ==
    \/ Persist(r) \/ PersistFails(r)
    \/ RecheckGrants(r) \/ Park(r)
    \/ ReceiveWake(r) \/ Timeout(r)
    \/ Dispatch(r)

HookTrouble(r) ==
    \/ PersistRaises(r) \/ Disconnect(r) \/ WaitFails(r) \/ DispatchRaises(r)

DrainStep == (\E r \in Request : Drain(r)) \/ Drained

CallStep(c) ==
    \/ Submit(c) \/ RecordDecision(c) \/ SendWake(c)
    \/ SubmitGrant(c) \/ RecordGrant(c) \/ SendGrantWake(c)
    \/ ReadSources(c) \/ ListPending(c) \/ ApproveCovered(c) \/ WakeCovered(c)

Next ==
    \/ \E r \in Request : FirstGrant(r) \/ NoGrant(r) \/ HookStep(r) \/ HookTrouble(r)
    \/ DrainStep \/ Sigterm \/ ProxyEnds
    \/ \E c \in Call : CallStep(c) \/ CallDies(c)
    \/ \E r \in Request : LoseWake(r) \/ Age(r)
    \/ LoseGrantKeys \/ DeleteSession

Spec == Init /\ [][Next]_vars

\* The event loop runs, worker threads end, and a wait has a deadline.  Nothing is
\* assumed of the user, the API server or Redis.
Fairness ==
    /\ \A r \in Request : WF_vars(HookStep(r))
    /\ WF_vars(DrainStep)

FairSpec == Spec /\ Fairness

-----------------------------------------------------------------------------
(* Properties                                                                *)

\* What the sandbox is told is what the row says, whichever of the user, a grant,
\* the deadline and the drain came first, and whichever wakes were lost: only an
\* approved request is forwarded, and only a rejected one is told so.
AnswerMatchesRow ==
    \A r \in Request :
        /\ flow[r].outcome = "forwarded" => row[r].decision = "APPROVED"
        /\ flow[r].outcome = "REJECTED" => row[r].decision = "REJECTED"
        /\ flow[r].outcome = "EXPIRED" => ~session \/ row[r].decision = "EXPIRED"

\* A decision is made once: no late call, timeout, grant or drain replaces it.
DecisionIsFinal ==
    [][\A r \in Request : row[r].decision \in Decision => row'[r] = row[r]]_vars

\* Grants do not spread: whatever is approved for the session, by whichever chain of
\* grants and cached keys, invokes only actions of requests the user granted.  A
\* row that was covered by a grant is a source of grants itself.
GrantsDoNotSpread == GrantedBy(GrantRows) \cup cached \subseteq GrantedBy(chosen)

\* A session grant leaves none of the requests it covers waiting: once no API call
\* is at work, no parked request within its window is undecided although the
\* grants of the session cover it.  Either the grant lists the pending row, or the
\* request's second look, if it does not fail, sees the grant.
GrantLeavesNoneWaiting ==
    /\ "recheck_error" \notin faults.hazards
    /\ \A c \in Call : call[c].pc \in {"idle", "done"}
    => \A r \in Request :
            flow[r].pc = "wait" /\ Live(r) => ~Covers(r, GrantedBy(GrantRows))

\* No row stays pending after its request has ended, unless the proxy ended first:
\* an undecided row is "pending (or a proxy-crash orphan)" (ActionApproval).
NoneForgotten ==
    \A r \in Request :
        flow[r].pc = "done" /\ flow[r].outcome # "proxy_gone" => ~Undecided(r)

\* ... which holds unless the client went, or an exception came, between the commit
\* of the row and the wait for its decision, or the clean-up failed as well.
RowsSettled == faults.hazards \subseteq {"recheck_error"} => NoneForgotten

\* Every request is answered, or ends with its client or proxy: no lost wake, dead
\* API call or drain leaves one parked for ever.
RequestsEnd == \A r \in Request : flow[r].pc = "persist" ~> flow[r].pc = "done"
=============================================================================

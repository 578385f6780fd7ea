-------------------------- MODULE CaptureSaga_proofs --------------------------
(***************************************************************************)
(* Proofs about the capture saga, for any number of request handlers, any  *)
(* references and any bounds on requests and faults.                       *)
(*                                                                         *)
(* TypeInv is TypeOK made inductive: the retry loop of the sweeper never   *)
(* counts below zero (RetryBound) and a webhook is marked under its own    *)
(* event (MarkHook).  SagaInv makes the safety properties inductive: every *)
(* COPY of the payment a worker carries, and the status a dispute would    *)
(* restore, claims only what the ledger already shows, because a copy      *)
(* taken now may be written at any later time.  It is preserved because    *)
(* the ledger and the certificate store only move forward (Stable).        *)
(***************************************************************************)
EXTENDS CaptureSaga, TLAPS

\* retryFailedRefund works through the failed markers it listed.
RetryBound ==
  pc[Sweeper] \in {"retry", "putRetried"} =>
    1 <= loc[Sweeper].n /\ loc[Sweeper].n <= failedRefunds

\* What a worker carries.
Frames == [p : Payments, hook : Hooks, n : Nat]

\* The values operations store and carry have the right types.
LEMMA ValuesTyped ==
  /\ NoHook \in Hooks /\ Blank \in Frames
  /\ \A e \in Events, r \in Refs : [event |-> e, ref |-> r] \in Hooks
  /\ \A p \in Payments, st \in Statuses : SetStatus(p, st) \in Payments
  /\ \A p \in Payments : Awaiting(p) \in Payments
  /\ \A p \in Payments, st \in Statuses, r \in Refs :
       [p EXCEPT !.ref = r, !.status = st] \in Payments
  /\ \A p \in Payments : p.status \in Statuses /\ p.ref \in Refs \cup {NoRef} /\ p.post \in BOOLEAN
<1> USE DEF Hooks, NoHook, Frames, Blank, Payments, SetStatus, Awaiting, NoRef
<1>1. NoHook \in Hooks
  OBVIOUS
<1>2. Blank \in Frames
  BY <1>1 DEF Statuses
<1>3. \A e \in Events, r \in Refs : [event |-> e, ref |-> r] \in Hooks
  OBVIOUS
<1>4. \A p \in Payments, st \in Statuses : SetStatus(p, st) \in Payments
  OBVIOUS
<1>5. \A p \in Payments : Awaiting(p) \in Payments
  BY DEF Statuses
<1>6. \A p \in Payments, st \in Statuses, r \in Refs :
       [p EXCEPT !.ref = r, !.status = st] \in Payments
  OBVIOUS
<1>7. \A p \in Payments : p.status \in Statuses /\ p.ref \in Refs \cup {NoRef} /\ p.post \in BOOLEAN
  OBVIOUS
<1> QED BY <1>1, <1>2, <1>3, <1>4, <1>5, <1>6, <1>7


\* TypeOK, split into where the workers are and what is stored.
ControlOK == pc \in [Workers -> Labels] /\ loc \in [Workers -> Frames]

DataOK ==
  /\ payment \in Payments
  /\ xfer \in [intent : Holds, fee : {"absent", "posted"},
               compensation : {"absent", "posted"}, dispute : Holds]
  /\ pssp \in [Refs -> {"unused", "authed", "settled", "released"}]
  /\ certificate \in BOOLEAN
  /\ dispute \in [status : {"none", "open", "won", "lost"}, prior : Statuses]
  /\ failedRefunds \in Nat
  /\ seen \subseteq Events \X Refs
  /\ ops \in 0..MaxOps
  /\ faults \in 0..MaxFaults

\* A delivery is marked processed under its own event and reference.
MarkHook == \A w \in Workers : pc[w] = "mark" => loc[w].hook # NoHook

\* Worker w moves, the others do not.
Moves(w) ==
  /\ ControlOK'
  /\ \A v \in Workers \ {w} : pc'[v] = pc[v] /\ loc'[v] = loc[v]

\* The two parts are TypeOK.
LEMMA TypeParts == TypeOK <=> ControlOK /\ DataOK
BY DEF TypeOK, ControlOK, DataOK, Frames

\* The fields of what a worker carries.
LEMMA LocTyped ==
  ASSUME ControlOK, NEW w \in Workers
  PROVE  loc[w] \in Frames /\ loc[w].p \in Payments /\ loc[w].hook \in Hooks /\ loc[w].n \in Nat
BY DEF ControlOK, Frames

\* CreateIntent leaves a well-typed state.
LEMMA TypeInit == Init => TypeOK /\ RetryBound /\ MarkHook
<1> SUFFICES ASSUME Init PROVE ControlOK /\ DataOK /\ RetryBound /\ MarkHook
  BY TypeParts
<1>1. ControlOK
  BY ValuesTyped DEF Init, ControlOK, Labels
<1>2. DataOK
  <2>1. payment \in Payments
        /\ dispute \in [status : {"none", "open", "won", "lost"}, prior : Statuses]
    BY DEF Init, Payments, Statuses, NoRef
  <2>2. certificate \in BOOLEAN
    BY Zenon DEF Init
  <2> QED BY <2>1, <2>2, SagaAssumption DEF Init, DataOK, Holds
<1>3. RetryBound /\ MarkHook
  BY DEF Init, RetryBound, MarkHook, Workers
<1> QED BY <1>1, <1>2, <1>3

\* Reading the payment into a worker and going on.
LEMMA CopyMoves ==
  ASSUME ControlOK, NEW w \in Workers, NEW p \in Payments, NEW hook \in Hooks, NEW to \in Labels,
         Copy(w, p, hook), Goto(w, to)
  PROVE  /\ Moves(w)
         /\ pc'[w] = to
         /\ loc'[w] = [p |-> p, hook |-> hook, n |-> 0]
<1> DEFINE f == [p |-> p, hook |-> hook, n |-> 0]
<1>1. f \in Frames
  BY DEF Frames
<1>2. loc' = [loc EXCEPT ![w] = f]
  BY DEF Copy
<1> HIDE DEF f
<1>3. Moves(w) /\ pc'[w] = to /\ loc'[w] = f
  BY <1>1, <1>2 DEF ControlOK, Moves, Goto
<1> QED BY <1>3 DEF f

\* A step of an operation moves one worker, and marks only a real webhook.
LEMMA RunControl ==
  ASSUME ControlOK, DataOK, NEW w \in Workers, Run(w)
  PROVE  /\ Moves(w)
         /\ pc'[w] \notin {"retry", "putRetried"}
         /\ pc'[w] = "mark" => loc'[w].hook # NoHook
<1>l. loc[w] \in Frames /\ loc[w].p \in Payments /\ loc[w].hook \in Hooks
  BY LocTyped
<1>m. loc \in [Workers -> Frames] /\ pc \in [Workers -> Labels] /\ Blank \in Frames
  BY ValuesTyped DEF ControlOK
<1> USE <1>m DEF Goto, Leave, Copy, Return, Moves, ControlOK
<1>1. CASE AuthoriseCall(w)
  <2>1. \A r \in Refs, st \in {"authorised", "failed"} :
          [loc[w].p EXCEPT !.ref = r, !.status = st] \in Payments
    BY <1>l, ValuesTyped DEF Statuses
  <2>2. \A r \in Refs, st \in {"authorised", "failed"} :
          [p |-> [loc[w].p EXCEPT !.ref = r, !.status = st], hook |-> NoHook, n |-> 0] \in Frames
    BY <2>1, ValuesTyped DEF Frames
  <2>3. PICK r \in Refs :
          \/ /\ Copy(w, [loc[w].p EXCEPT !.ref = r, !.status = "authorised"], NoHook)
             /\ Goto(w, "putAuthorise")
          \/ /\ Copy(w, [loc[w].p EXCEPT !.ref = r, !.status = "failed"], NoHook)
             /\ Goto(w, "authVoid")
          \/ Leave(w)
    BY <1>1, Zenon DEF AuthoriseCall
  <2>4. ASSUME NEW st \in {"authorised", "failed"}, NEW to \in {"putAuthorise", "authVoid"},
               Copy(w, [loc[w].p EXCEPT !.ref = r, !.status = st], NoHook), Goto(w, to)
        PROVE  Moves(w) /\ pc'[w] = to
    <3> DEFINE f == [p |-> [loc[w].p EXCEPT !.ref = r, !.status = st], hook |-> NoHook, n |-> 0]
    <3>1. f \in Frames /\ loc' = [loc EXCEPT ![w] = f]
      BY <2>2, <2>4
    <3> HIDE DEF f
    <3> QED BY <2>4, <3>1 DEF Labels
  <2>5. CASE Leave(w)
    BY <2>5 DEF Labels
  <2> QED BY <2>3, <2>4, <2>5
<1>2. CASE AuthoriseVoid(w)
  BY <1>2 DEF AuthoriseVoid, Labels
<1>3. CASE PutAuthorise(w)
  BY <1>3 DEF PutAuthorise, Labels
<1>4. CASE ChargeCall(w)
  BY <1>4 DEF ChargeCall, Labels
<1>5. CASE VerifyCall(w)
  BY <1>5 DEF VerifyCall, Labels
<1>6. CASE ParkPut(w)
  BY <1>6 DEF ParkPut, Labels
<1>7. CASE PutAwaiting(w)
  <2>1. [p |-> Awaiting(loc[w].p), hook |-> loc[w].hook, n |-> 0] \in Frames
    BY <1>l, ValuesTyped DEF Frames
  <2> QED BY <1>7, <2>1 DEF PutAwaiting, Labels
<1>8. CASE PostCall(w)
  BY <1>8 DEF PostCall, Labels
<1>9. CASE FeeCall(w)
  BY <1>9 DEF FeeCall, Labels
<1>10. CASE IssueCall(w)
  BY <1>10 DEF IssueCall, Labels
<1>11. CASE PutCaptured(w)
  BY <1>11 DEF PutCaptured, Labels
<1>12. CASE ReverseCall(w)
  BY <1>12 DEF ReverseCall, Labels
<1>13. CASE CompensateVoidHold(w)
  BY <1>13 DEF CompensateVoidHold, Labels
<1>14. CASE CompensateRefund(w)
  BY <1>14 DEF CompensateRefund, Labels
<1>15. CASE RecordCompensation(w)
  BY <1>15 DEF RecordCompensation, Labels
<1>16. CASE PutCompensated(w)
  BY <1>16 DEF PutCompensated, Labels
<1>17. CASE FailVoid(w)
  BY <1>17 DEF FailVoid, Labels
<1>18. CASE PutFailed(w)
  BY <1>18 DEF PutFailed, Labels
<1>19. CASE VoidCallPSSP(w)
  BY <1>19 DEF VoidCallPSSP, Labels
<1>20. CASE VoidCallLedger(w)
  BY <1>20 DEF VoidCallLedger, Labels
<1>21. CASE PutVoided(w)
  BY <1>21 DEF PutVoided, Labels
<1>22. CASE WebhookVerify(w)
  BY <1>22 DEF WebhookVerify, Labels
<1>23. CASE WebhookCapture(w)
  <2>1. [p |-> payment, hook |-> loc[w].hook, n |-> 0] \in Frames
    BY <1>l DEF Frames, DataOK
  <2> QED BY <1>23, <2>1 DEF WebhookCapture, CaptureEntry, Labels
<1>24. CASE PutAuthorised(w)
  BY <1>24 DEF PutAuthorised, Labels
<1>25. CASE MarkProcessed(w)
  BY <1>25 DEF MarkProcessed, Labels
<1>26. CASE DisputeHold(w)
  BY <1>26 DEF DisputeHold, Labels
<1>27. CASE PutDispute(w)
  BY <1>27 DEF PutDispute, Labels
<1>28. CASE PutDisputed(w)
  BY <1>28 DEF PutDisputed, Labels
<1>29. CASE ResolveLedger(w)
  BY <1>29 DEF ResolveLedger, Labels
<1>30. CASE PutResolved(w)
  BY <1>30 DEF PutResolved, Labels
<1>31. CASE PutOutcome(w)
  BY <1>31 DEF PutOutcome, Labels
<1>32. CASE OpenDisputeRead(w)
  BY <1>32 DEF OpenDisputeRead, Labels
<1>33. CASE ResolveRead(w)
  <2> DEFINE after == IF pc[w] = "resolveWon" THEN dispute.prior ELSE "charged_back"
  <2>1. SetStatus(loc[w].p, after) \in Payments /\ "resolve" \in Labels
    BY <1>l, ValuesTyped DEF DataOK, Statuses, Labels
  <2>2. CASE Copy(w, SetStatus(loc[w].p, after), loc[w].hook) /\ Goto(w, "resolve")
    BY <1>l, <2>1, <2>2, CopyMoves
  <2>3. CASE Return(w) \/ Leave(w)
    BY <2>3 DEF Labels
  <2> QED BY <1>33, <2>2, <2>3 DEF ResolveRead
<1> QED BY <1>1, <1>2, <1>3, <1>4, <1>5, <1>6, <1>7, <1>8, <1>9, <1>10, <1>11, <1>12,
       <1>13, <1>14, <1>15, <1>16, <1>17, <1>18, <1>19, <1>20, <1>21, <1>22, <1>23, <1>24,
       <1>25, <1>26, <1>27, <1>28, <1>29, <1>30, <1>31, <1>32, <1>33 DEF Run

\* A step of an operation keeps the stores, the ledger and the provider typed.
LEMMA RunData ==
  ASSUME ControlOK, DataOK, MarkHook, NEW w \in Workers, Run(w)
  PROVE  DataOK' /\ failedRefunds <= failedRefunds'
<1>l. loc[w] \in Frames /\ loc[w].p \in Payments /\ loc[w].hook \in Hooks
  BY LocTyped
<1>p. ASSUME NEW p \in Payments, TryPut(p),
             UNCHANGED <<storedButPayment, xfer, pssp, ops>>
      PROVE  DataOK' /\ failedRefunds <= failedRefunds'
  BY <1>p, SagaAssumption DEF DataOK, TryPut, Put, PutFails, NoFault, Fault, storedButPayment
<1> USE SagaAssumption DEF DataOK, Holds, NoFault, Fault, stored, storedButPayment
<1>1. CASE AuthoriseCall(w)
  BY <1>1 DEF AuthoriseCall, NextRef
<1>2. CASE AuthoriseVoid(w)
  BY <1>2 DEF AuthoriseVoid
<1>3. CASE PutAuthorise(w)
  BY <1>3, <1>l, <1>p DEF PutAuthorise
<1>4. CASE ChargeCall(w)
  BY <1>4 DEF ChargeCall
<1>5. CASE VerifyCall(w)
  BY <1>5 DEF VerifyCall
<1>6. CASE ParkPut(w)
  <2>1. SetStatus(loc[w].p, "capture_in_flight") \in Payments
    BY <1>l, ValuesTyped DEF Statuses
  <2> QED BY <1>6, <2>1, <1>p DEF ParkPut
<1>7. CASE PutAwaiting(w)
  <2>1. Awaiting(loc[w].p) \in Payments
    BY <1>l, ValuesTyped DEF Statuses
  <2> QED BY <1>7, <2>1, <1>p DEF PutAwaiting, TryPut
<1>8. CASE PostCall(w)
  BY <1>8 DEF PostCall
<1>9. CASE FeeCall(w)
  BY <1>9 DEF FeeCall
<1>10. CASE IssueCall(w)
  <2>1. certificate' = TRUE \/ certificate' = certificate
    BY <1>10 DEF IssueCall
  <2>2. certificate' \in BOOLEAN
    BY <2>1, Zenon DEF DataOK
  <2> QED BY <1>10, <2>2 DEF IssueCall
<1>11. CASE PutCaptured(w)
  <2>1. SetStatus(loc[w].p, "captured") \in Payments
    BY <1>l, ValuesTyped DEF Statuses
  <2> QED BY <1>11, <2>1, <1>p DEF PutCaptured, TryPut
<1>12. CASE ReverseCall(w)
  BY <1>12 DEF ReverseCall
<1>13. CASE CompensateVoidHold(w)
  BY <1>13 DEF CompensateVoidHold, ReleaseHold
<1>14. CASE CompensateRefund(w)
  BY <1>14 DEF CompensateRefund, GivenBack, CanGiveBack
<1>15. CASE RecordCompensation(w)
  BY <1>15 DEF RecordCompensation
<1>16. CASE PutCompensated(w)
  <2>1. SetStatus(loc[w].p, "compensated") \in Payments
    BY <1>l, ValuesTyped DEF Statuses
  <2> QED BY <1>16, <2>1, <1>p DEF PutCompensated
<1>17. CASE FailVoid(w)
  BY <1>17 DEF FailVoid, ReleaseHold
<1>18. CASE PutFailed(w)
  <2>1. SetStatus(loc[w].p, "failed") \in Payments
    BY <1>l, ValuesTyped DEF Statuses
  <2> QED BY <1>18, <2>1, <1>p DEF PutFailed
<1>19. CASE VoidCallPSSP(w)
  BY <1>19 DEF VoidCallPSSP
<1>20. CASE VoidCallLedger(w)
  BY <1>20 DEF VoidCallLedger
<1>21. CASE PutVoided(w)
  <2>1. SetStatus(loc[w].p, "voided") \in Payments
    BY <1>l, ValuesTyped DEF Statuses
  <2> QED BY <1>21, <2>1, <1>p DEF PutVoided, TryPut
<1>22. CASE WebhookVerify(w)
  BY <1>22 DEF WebhookVerify
<1>23. CASE WebhookCapture(w)
  BY <1>23 DEF WebhookCapture, CaptureEntry
<1>24. CASE PutAuthorised(w)
  BY <1>24, <1>l, <1>p DEF PutAuthorised, TryPut
<1>25. CASE MarkProcessed(w)
  <2>1. loc[w].hook.event \in Events /\ loc[w].hook.ref \in Refs
    BY <1>25, <1>l DEF MarkProcessed, MarkHook, Hooks
  <2> QED BY <1>25, <2>1 DEF MarkProcessed
<1>26. CASE DisputeHold(w)
  BY <1>26 DEF DisputeHold
<1>27. CASE PutDispute(w)
  <2>1. loc[w].p.status \in Statuses
    BY <1>l, ValuesTyped
  <2> QED BY <1>27, <2>1 DEF PutDispute
<1>28. CASE PutDisputed(w)
  <2>1. SetStatus(loc[w].p, "disputed") \in Payments
    BY <1>l, ValuesTyped DEF Statuses
  <2> QED BY <1>28, <2>1, <1>p DEF PutDisputed, TryPut
<1>29. CASE ResolveLedger(w)
  BY <1>29 DEF ResolveLedger, OutcomeOf
<1>30. CASE PutResolved(w)
  BY <1>30 DEF PutResolved, OutcomeOf
<1>31. CASE PutOutcome(w)
  BY <1>31, <1>l, <1>p DEF PutOutcome, TryPut
<1>32. CASE OpenDisputeRead(w)
  BY <1>32 DEF OpenDisputeRead
<1>33. CASE ResolveRead(w)
  BY <1>33 DEF ResolveRead
<1> QED BY <1>1, <1>2, <1>3, <1>4, <1>5, <1>6, <1>7, <1>8, <1>9, <1>10, <1>11, <1>12,
       <1>13, <1>14, <1>15, <1>16, <1>17, <1>18, <1>19, <1>20, <1>21, <1>22, <1>23, <1>24,
       <1>25, <1>26, <1>27, <1>28, <1>29, <1>30, <1>31, <1>32, <1>33 DEF Run

\* A request reads the payment and starts; a delivery also knows its hook.
LEMMA RequestControl ==
  ASSUME ControlOK, DataOK, NEW w \in Handlers, Request(w)
  PROVE  /\ Moves(w)
         /\ pc'[w] \notin {"retry", "putRetried"}
         /\ pc'[w] = "mark" => loc'[w].hook # NoHook
<1> DEFINE Started == /\ Moves(w)
                      /\ pc'[w] \notin {"retry", "putRetried"}
                      /\ pc'[w] = "mark" => loc'[w].hook # NoHook
<1>w. w \in Workers /\ payment \in Payments /\ NoHook \in Hooks
  BY ValuesTyped DEF Workers, DataOK
<1>c. ASSUME NEW p \in Payments, NEW to \in Labels \ {"mark", "retry", "putRetried"},
             NEW hook \in Hooks,
             Copy(w, p, hook), Goto(w, to)
      PROVE  Started
  BY <1>c, <1>w, CopyMoves
<1>k. ASSUME NEW event \in Events, NEW r \in Refs, Park(w, event, r)
      PROVE  Started
  <2> DEFINE hook == [event |-> event, ref |-> r]
  <2>1. hook \in Hooks /\ hook # NoHook
    BY ValuesTyped DEF NoHook, Events, ResolveEvent
  <2>2. Copy(w, payment, hook) /\ Goto(w, "mark") /\ "mark" \in Labels
    BY <1>k DEF Park, Labels
  <2> HIDE DEF hook
  <2>3. Moves(w) /\ pc'[w] = "mark" /\ loc'[w] = [p |-> payment, hook |-> hook, n |-> 0]
    BY <1>w, <2>1, <2>2, CopyMoves
  <2> QED BY <2>1, <2>3
<1>e. \A e \in Events, r \in Refs : [event |-> e, ref |-> r] \in Hooks
  BY ValuesTyped
<1>t. "authorise" \in Labels /\ "charge" \in Labels /\ "park" \in Labels /\ "voidPSSP" \in Labels
  BY DEF Labels
<1> HIDE DEF Started
<1>1. ASSUME BeginAuthorise(w) PROVE Started
  BY <1>1, <1>w, <1>c, <1>t DEF BeginAuthorise
<1>2. ASSUME BeginCapture(w) PROVE Started
  BY <1>2, <1>w, <1>c, <1>t DEF BeginCapture, CaptureEntry
<1>3. ASSUME BeginVoid(w) PROVE Started
  BY <1>3, <1>w, <1>c, <1>t DEF BeginVoid, VoidEntry
<1>4. ASSUME NEW r \in Refs, WebhookCharge(w, r) PROVE Started
  <2>1. "charge.successful" \in Events /\ "whVerify" \in Labels
    BY DEF Events, Labels
  <2> QED BY <1>4, <1>w, <1>c, <1>k, <1>e, <2>1 DEF WebhookCharge
<1>5. ASSUME NEW r \in Refs, WebhookAuthorised(w, r) PROVE Started
  <2>1. "authorisation.successful" \in Events /\ "putAuthorised" \in Labels
    BY DEF Events, Labels
  <2>2. SetStatus(payment, "authorised") \in Payments
    BY <1>w, ValuesTyped DEF Statuses
  <2> QED BY <1>5, <1>c, <1>k, <1>e, <2>1, <2>2 DEF WebhookAuthorised
<1>6. ASSUME NEW r \in Refs, OpenDispute(w, r) PROVE Started
  <2>1. "charge.dispute.create" \in Events /\ "openDispute" \in Labels
    BY DEF Events, Labels
  <2> QED BY <1>6, <1>w, <1>c, <1>e, <2>1 DEF OpenDispute
<1>7. ASSUME NEW r \in Refs, NEW event \in Events, WebhookVoid(w, event, r) PROVE Started
  <2>1. "voidPSSP" \in Labels
    BY DEF Labels
  <2> QED BY <1>7, <1>w, <1>c, <1>k, <1>e, <2>1 DEF WebhookVoid, VoidEntry
<1>8. ASSUME NEW r \in Refs, NEW outcome \in {"won", "lost"}, ResolveDispute(w, outcome, r)
      PROVE  Started
  <2>1. ResolveEvent \in Events /\ "resolveWon" \in Labels /\ "resolveLost" \in Labels
    BY DEF Events, Labels
  <2> QED BY <1>8, <1>w, <1>c, <1>e, <2>1 DEF ResolveDispute
<1> QED BY <1>1, <1>2, <1>3, <1>4, <1>5, <1>6, <1>7, <1>8 DEF Request, Started

\* Nothing durable changes when an operation starts.
LEMMA RequestReads ==
  ASSUME NEW w, Request(w)
  PROVE  UNCHANGED <<stored, xfer, pssp>> /\ ops < MaxOps /\ ops' = ops + 1
         /\ (NoFault \/ Fault)
BY DEF Request, BeginAuthorise, BeginCapture, BeginVoid, WebhookCharge, WebhookAuthorised,
       OpenDispute, WebhookVoid, ResolveDispute, CaptureEntry, VoidEntry, Park, Arrive,
       Deliver, NoFault, stored

\* So it keeps their types.
LEMMA RequestData ==
  ASSUME DataOK, NEW w, Request(w)
  PROVE  DataOK' /\ failedRefunds <= failedRefunds'
BY RequestReads, SagaAssumption DEF DataOK, stored, NoFault, Fault

\* The sweeper moves alone and marks no webhook.
LEMMA SweepControl ==
  ASSUME ControlOK, DataOK, RetryBound, Sweep
  PROVE  Moves(Sweeper) /\ pc'[Sweeper] # "mark"
<1>w. Sweeper \in Workers /\ payment \in Payments /\ NoHook \in Hooks
  BY ValuesTyped DEF Workers, DataOK
<1>l. loc[Sweeper] \in Frames /\ loc[Sweeper].p \in Payments /\ loc[Sweeper].n \in Nat
  BY <1>w, LocTyped
<1>m. loc \in [Workers -> Frames] /\ pc \in [Workers -> Labels] /\ Blank \in Frames
  BY ValuesTyped DEF ControlOK
<1>t. \A p \in Payments : SweepTarget(p) \subseteq Labels \ {"mark"}
  BY DEF SweepTarget, Labels
<1>s. ASSUME NEW p \in Payments, NEW to \in Labels \ {"mark"},
             Copy(Sweeper, p, NoHook), Goto(Sweeper, to)
      PROVE  Moves(Sweeper) /\ pc'[Sweeper] # "mark"
  BY <1>s, <1>w, CopyMoves
<1>n. ASSUME NEW n \in Nat, loc' = [loc EXCEPT ![Sweeper].n = n]
      PROVE  loc' \in [Workers -> Frames] /\ \A v \in Workers \ {Sweeper} : loc'[v] = loc[v]
  <2>1. [loc[Sweeper] EXCEPT !.n = n] \in Frames
    BY <1>l DEF Frames
  <2> QED BY <1>m, <1>n, <1>w, <2>1
<1>r. ASSUME pc[Sweeper] \in {"retry", "putRetried"}, NextRetry
      PROVE  Moves(Sweeper) /\ pc'[Sweeper] # "mark"
  <2>1. CASE Leave(Sweeper)
    BY <1>m, <1>w, <2>1 DEF Leave, Labels, Moves, ControlOK
  <2>2. CASE loc[Sweeper].n > 1 /\ Goto(Sweeper, "retry")
             /\ loc' = [loc EXCEPT ![Sweeper].n = @ - 1]
    <3>1. loc[Sweeper].n - 1 \in Nat /\ loc' = [loc EXCEPT ![Sweeper].n = loc[Sweeper].n - 1]
      BY <1>l, <1>m, <1>w, <2>2
    <3> QED BY <1>m, <1>n, <1>w, <2>2, <3>1 DEF Goto, Labels, Moves, ControlOK
  <2> QED BY <1>r, <2>1, <2>2 DEF NextRetry
<1>1. CASE SweepBegin
  BY <1>1, <1>w, <1>s, <1>t DEF SweepBegin
<1>2. CASE SettleLookup
  BY <1>2, <1>m, <1>w DEF SettleLookup, Goto, Leave, Labels, Moves, ControlOK
<1>3. CASE PutSettled
  BY <1>3, <1>m, <1>w DEF PutSettled, Goto, Leave, Labels, Moves, ControlOK
<1>4. CASE RecoverVerify
  BY <1>4, <1>m, <1>w DEF RecoverVerify, Goto, Leave, Labels, Moves, ControlOK
<1>5. CASE PutRecovered
  <2>1. Awaiting(loc[Sweeper].p) \in Payments /\ "post" \in Labels
    BY <1>l, ValuesTyped DEF Labels
  <2>2. CASE Copy(Sweeper, Awaiting(loc[Sweeper].p), NoHook) /\ Goto(Sweeper, "post")
    BY <1>s, <2>1, <2>2
  <2>3. CASE Leave(Sweeper)
    BY <1>m, <1>w, <2>3 DEF Leave, Labels, Moves, ControlOK
  <2> QED BY <1>5, <2>2, <2>3 DEF PutRecovered
<1>6. CASE ExpireVoid
  BY <1>6, <1>m, <1>w DEF ExpireVoid, Goto, Leave, Labels, Moves, ControlOK
<1>7. CASE PutExpired
  BY <1>7, <1>m, <1>w DEF PutExpired, Goto, Leave, Labels, Moves, ControlOK
<1>8. CASE ReleaseFailedHold
  BY <1>8, <1>m, <1>w DEF ReleaseFailedHold, AfterRelease, Goto, Leave, Labels, Moves, ControlOK
<1>9. CASE PutReleased
  BY <1>9, <1>m, <1>w DEF PutReleased, AfterRelease, Goto, Leave, Labels, Moves, ControlOK
<1>10. CASE RetryList
  <2>1. CASE Leave(Sweeper)
    BY <1>m, <1>w, <2>1 DEF Leave, Labels, Moves, ControlOK
  <2>2. CASE loc' = [loc EXCEPT ![Sweeper].n = failedRefunds] /\ Goto(Sweeper, "retry")
    <3>1. failedRefunds \in Nat
      BY DEF DataOK
    <3> QED BY <1>m, <1>n, <1>w, <2>2, <3>1 DEF Goto, Labels, Moves, ControlOK
  <2> QED BY <1>10, <2>1, <2>2 DEF RetryList
<1>11. CASE RetryRefund
  BY <1>11, <1>m, <1>w, <1>r DEF RetryRefund, Goto, Labels, Moves, ControlOK
<1>12. CASE PutRetried
  BY <1>12, <1>r DEF PutRetried
<1> QED BY <1>1, <1>2, <1>3, <1>4, <1>5, <1>6, <1>7, <1>8, <1>9, <1>10, <1>11, <1>12 DEF Sweep

\* The sweeper keeps the stores, the ledger and the provider typed.
LEMMA SweepData ==
  ASSUME ControlOK, DataOK, RetryBound, Sweep
  PROVE  DataOK'
<1>l. Sweeper \in Workers /\ loc[Sweeper].p \in Payments /\ loc[Sweeper].n \in Nat
  BY LocTyped DEF Workers
<1>p. ASSUME NEW p \in Payments, TryPut(p),
             UNCHANGED <<storedButPayment, xfer, pssp, ops>>
      PROVE  DataOK'
  BY <1>p, SagaAssumption DEF DataOK, TryPut, Put, PutFails, NoFault, Fault, storedButPayment
<1> USE SagaAssumption DEF DataOK, Holds, NoFault, Fault, stored, storedButPayment
<1>1. CASE SweepBegin
  BY <1>1 DEF SweepBegin
<1>2. CASE SettleLookup
  BY <1>2 DEF SettleLookup
<1>3. CASE PutSettled
  <2>1. SetStatus(loc[Sweeper].p, "settled") \in Payments
    BY <1>l, ValuesTyped DEF Statuses
  <2> QED BY <1>3, <2>1, <1>p DEF PutSettled
<1>4. CASE RecoverVerify
  BY <1>4 DEF RecoverVerify
<1>5. CASE PutRecovered
  <2>1. Awaiting(loc[Sweeper].p) \in Payments
    BY <1>l, ValuesTyped DEF Statuses
  <2> QED BY <1>5, <2>1, <1>p DEF PutRecovered, TryPut
<1>6. CASE ExpireVoid
  BY <1>6 DEF ExpireVoid
<1>7. CASE PutExpired
  <2>1. SetStatus(loc[Sweeper].p, "expired") \in Payments
    BY <1>l, ValuesTyped DEF Statuses
  <2> QED BY <1>7, <2>1, <1>p DEF PutExpired
<1>8. CASE ReleaseFailedHold
  BY <1>8 DEF ReleaseFailedHold
<1>9. CASE PutReleased
  BY <1>9, <1>l, <1>p DEF PutReleased
<1>10. CASE RetryList
  BY <1>10 DEF RetryList
<1>11. CASE RetryRefund
  BY <1>11 DEF RetryRefund, GivenBack, CanGiveBack
<1>12. CASE PutRetried
  BY <1>12, <1>l DEF PutRetried, RetryBound
<1> QED BY <1>1, <1>2, <1>3, <1>4, <1>5, <1>6, <1>7, <1>8, <1>9, <1>10, <1>11, <1>12 DEF Sweep

\* The sweeper never retries more refunds than there are failed markers.
LEMMA SweepRetry ==
  ASSUME ControlOK, DataOK, RetryBound, Sweep
  PROVE  RetryBound'
<1>l. Sweeper \in Workers /\ loc \in [Workers -> Frames] /\ pc \in [Workers -> Labels]
      /\ loc[Sweeper].n \in Nat
  BY LocTyped DEF Workers, ControlOK
<1> USE <1>l DEF RetryBound, Goto, Leave
<1>1. CASE SweepBegin
  BY <1>1 DEF SweepBegin, SweepTarget
<1>2. CASE SettleLookup
  BY <1>2 DEF SettleLookup
<1>3. CASE PutSettled
  BY <1>3 DEF PutSettled
<1>4. CASE RecoverVerify
  BY <1>4 DEF RecoverVerify
<1>5. CASE PutRecovered
  BY <1>5 DEF PutRecovered
<1>6. CASE ExpireVoid
  BY <1>6 DEF ExpireVoid
<1>7. CASE PutExpired
  BY <1>7 DEF PutExpired
<1>8. CASE ReleaseFailedHold
  BY <1>8 DEF ReleaseFailedHold, AfterRelease
<1>9. CASE PutReleased
  BY <1>9 DEF PutReleased, AfterRelease
<1>10. CASE RetryList
  <2>1. loc[Sweeper] \in Frames /\ failedRefunds \in Nat
    BY DEF DataOK
  <2> QED BY <1>10, <2>1 DEF RetryList, Frames, stored
<1>11. CASE RetryRefund
  <2>1. loc[Sweeper] \in Frames /\ failedRefunds \in Nat
    BY DEF DataOK
  <2> QED BY <1>11, <2>1 DEF RetryRefund, NextRetry, Frames, stored
<1>12. CASE PutRetried
  <2>1. loc[Sweeper] \in Frames /\ failedRefunds \in Nat
    BY DEF DataOK
  <2> QED BY <1>12, <2>1 DEF PutRetried, NextRetry, Frames
<1> QED BY <1>1, <1>2, <1>3, <1>4, <1>5, <1>6, <1>7, <1>8, <1>9, <1>10, <1>11, <1>12 DEF Sweep

\* The type invariant in inductive form.
TypeInv == TypeOK /\ RetryBound /\ MarkHook

\* Every step keeps it: one case per kind of step.
LEMMA TypeStep == TypeInv /\ [Next]_vars => TypeInv'
<1> SUFFICES ASSUME ControlOK, DataOK, RetryBound, MarkHook, [Next]_vars
             PROVE  ControlOK' /\ DataOK' /\ RetryBound' /\ MarkHook'
  BY TypeParts DEF TypeInv, TypeOK, ControlOK, DataOK, Frames
<1>0. Sweeper \in Workers
  BY DEF Workers
<1>1. ASSUME NEW w \in Workers, (Request(w) /\ w \in Handlers) \/ Run(w)
      PROVE  ControlOK' /\ DataOK' /\ RetryBound' /\ MarkHook'
  <2>1. /\ Moves(w)
        /\ pc'[w] \notin {"retry", "putRetried"}
        /\ pc'[w] = "mark" => loc'[w].hook # NoHook
        /\ DataOK'
        /\ failedRefunds <= failedRefunds'
    BY <1>1, RequestControl, RequestData, RunControl, RunData
  <2>2. MarkHook'
    BY <2>1 DEF MarkHook, Moves
  <2>3. RetryBound'
    <3>1. CASE w = Sweeper
      BY <2>1, <3>1 DEF RetryBound
    <3>2. CASE w # Sweeper
      <4>1. pc'[Sweeper] = pc[Sweeper] /\ loc'[Sweeper] = loc[Sweeper]
        BY <1>0, <2>1, <3>2 DEF Moves
      <4>2. loc[Sweeper].n \in Nat /\ failedRefunds \in Nat /\ failedRefunds' \in Nat
        BY <1>0, <2>1, LocTyped DEF DataOK
      <4> QED BY <2>1, <4>1, <4>2 DEF RetryBound
    <3> QED BY <3>1, <3>2
  <2> QED BY <2>1, <2>2, <2>3 DEF Moves
<1>2. CASE Sweep
  <2>1. MarkHook'
    BY <1>2, SweepControl DEF MarkHook, Moves
  <2> QED BY <1>2, <2>1, SweepControl, SweepData, SweepRetry DEF Moves
<1>3. CASE Crash
  <2>1. ControlOK' /\ RetryBound' /\ MarkHook'
    BY <1>0, <1>3, ValuesTyped DEF Crash, ControlOK, RetryBound, MarkHook, Labels
  <2>2. DataOK'
    BY <1>3, SagaAssumption DEF Crash, DataOK, stored, Fault
  <2> QED BY <2>1, <2>2
<1>4. CASE UNCHANGED vars
  BY <1>4 DEF vars, stored, ControlOK, DataOK, RetryBound, MarkHook
<1> QED BY <1>1, <1>2, <1>3, <1>4 DEF Next, Workers

\* The payment, the ledger, the provider and the workers keep their types: in
\* particular every status any handler writes is one every reader knows, and
\* the count of failed refunds never goes below zero.
THEOREM TypeCorrect == Spec => []TypeOK
<1>1. Init => TypeInv
  BY TypeInit DEF TypeInv
<1>2. TypeInv => TypeOK
  BY DEF TypeInv
<1> QED BY <1>1, <1>2, TypeStep, PTL DEF Spec

-----------------------------------------------------------------------------
\* What a payment status asserts about the ledger and the certificate.
Claims(status) ==
  /\ status \in {"captured", "settled"} => Posted /\ certificate
  /\ status = "voided" => xfer.intent # "pending"
  /\ status = "charged_back" => xfer.dispute = "posted"

\* What a worker's place in its operation asserts, before it writes the
\* status: a lost dispute about to be resolved is the only copy that claims
\* more than the ledger shows.
WorkerInv(w) ==
  /\ (pc[w] = "resolve" /\ loc[w].p.status = "charged_back") \/ Claims(loc[w].p.status)
  /\ pc[w] \in {"fee", "issue"} => Posted
  /\ pc[w] \in {"putCaptured", "settle", "putSettled"} => Posted /\ certificate
  /\ pc[w] = "putVoided" => xfer.intent # "pending"

\* The safety properties in inductive form.
SagaInv ==
  /\ CertificateBacked
  /\ ReversalBacked
  /\ Claims(payment.status)
  /\ Claims(dispute.prior)
  /\ \A w \in Workers : WorkerInv(w)

\* The ledger and the certificate store only move forward.
Stable ==
  /\ Posted => Posted'
  /\ certificate => certificate'
  /\ xfer.intent # "pending" => xfer'.intent # "pending"
  /\ xfer.dispute = "posted" => xfer'.dispute = "posted"

\* No step of an operation takes back a post, a void or a chargeback.
LEMMA RunStable ==
  ASSUME DataOK, NEW w \in Workers, Run(w)
  PROVE  Stable
<1> USE DEF Stable, Posted
<1>0. xfer \in [intent : Holds, fee : {"absent", "posted"},
               compensation : {"absent", "posted"}, dispute : Holds]
  BY DEF DataOK
<1>1. CASE AuthoriseVoid(w)
  BY <1>0, <1>1 DEF AuthoriseVoid, stored
<1>2. CASE PostCall(w)
  BY <1>0, <1>2 DEF PostCall, stored
<1>3. CASE FeeCall(w)
  BY <1>0, <1>3 DEF FeeCall, stored
<1>4. CASE ReverseCall(w)
  BY <1>0, <1>4 DEF ReverseCall, stored
<1>5. CASE CompensateVoidHold(w)
  BY <1>0, <1>5 DEF CompensateVoidHold, stored, ReleaseHold
<1>6. CASE FailVoid(w)
  BY <1>0, <1>6 DEF FailVoid, stored, ReleaseHold
<1>7. CASE VoidCallLedger(w)
  BY <1>0, <1>7 DEF VoidCallLedger, stored
<1>8. CASE DisputeHold(w)
  BY <1>0, <1>8 DEF DisputeHold, stored
<1>9. CASE ResolveLedger(w)
  BY <1>0, <1>9 DEF ResolveLedger, stored, OutcomeOf
<1>10. CASE IssueCall(w)
  BY <1>10 DEF IssueCall
<1>11. CASE AuthoriseCall(w)
  <2>1. UNCHANGED <<stored, xfer>>
    BY <1>11 DEF AuthoriseCall
  <2> QED BY <2>1 DEF stored
<1>12. CASE PutAuthorise(w) \/ ChargeCall(w) \/ VerifyCall(w) \/ ParkPut(w) \/
        PutAwaiting(w) \/ PutCaptured(w) \/ CompensateRefund(w)
  BY <1>12 DEF PutAuthorise, ChargeCall, VerifyCall, ParkPut, PutAwaiting, PutCaptured,
         CompensateRefund, stored, storedButPayment
<1>13. CASE CompensateRefund(w) \/ RecordCompensation(w) \/ PutCompensated(w) \/
        PutFailed(w) \/ VoidCallPSSP(w) \/ PutVoided(w) \/ WebhookVerify(w)
  BY <1>13 DEF CompensateRefund, RecordCompensation, PutCompensated, PutFailed,
         VoidCallPSSP, PutVoided, WebhookVerify, stored, storedButPayment
<1>14. CASE WebhookVerify(w) \/ WebhookCapture(w) \/ PutAuthorised(w) \/
        MarkProcessed(w) \/ PutDispute(w) \/ PutDisputed(w) \/ PutResolved(w)
  BY <1>14 DEF WebhookVerify, WebhookCapture, PutAuthorised, MarkProcessed, PutDispute,
         PutDisputed, PutResolved, CaptureEntry, stored, storedButPayment
<1>15. CASE PutResolved(w) \/ PutOutcome(w)
  BY <1>15 DEF PutResolved, PutOutcome, stored, storedButPayment
<1>16. CASE OpenDisputeRead(w) \/ ResolveRead(w)
  BY <1>16 DEF OpenDisputeRead, ResolveRead, stored
<1> QED BY <1>1, <1>2, <1>3, <1>4, <1>5, <1>6, <1>7, <1>8, <1>9, <1>10, <1>11, <1>12,
       <1>13, <1>14, <1>15, <1>16 DEF Run

\* Nor does the sweeper.
LEMMA SweepStable ==
  ASSUME DataOK, Sweep
  PROVE  Stable
<1> USE DEF Stable, Posted
<1>0. xfer \in [intent : Holds, fee : {"absent", "posted"},
               compensation : {"absent", "posted"}, dispute : Holds]
  BY DEF DataOK
<1>1. CASE ExpireVoid
  BY <1>0, <1>1 DEF ExpireVoid, stored
<1>2. CASE ReleaseFailedHold
  BY <1>0, <1>2 DEF ReleaseFailedHold, stored
<1>3. CASE SweepBegin \/ SettleLookup \/ PutSettled \/ RecoverVerify \/
        PutRecovered \/ PutExpired \/ PutReleased \/ RetryList \/ RetryRefund \/
        PutRetried
  BY <1>3 DEF SweepBegin, SettleLookup, PutSettled, RecoverVerify, PutRecovered,
         PutExpired, PutReleased, RetryList, RetryRefund, PutRetried, stored,
         storedButPayment
<1> QED BY <1>1, <1>2, <1>3 DEF Sweep

\* A claim that is true stays true.
LEMMA ClaimsStable ==
  ASSUME Stable, NEW status, Claims(status)
  PROVE  /\ status \in {"captured", "settled"} => Posted' /\ certificate'
         /\ status = "voided" => xfer'.intent # "pending"
         /\ status = "charged_back" => xfer'.dispute = "posted"
BY DEF Stable, Claims

\* The workers that do not move keep their invariant.
LEMMA OthersKeep ==
  ASSUME ControlOK, Stable, NEW w, Moves(w), NEW v \in Workers \ {w}, WorkerInv(v)
  PROVE  WorkerInv(v)'
BY DEF Moves, Stable, WorkerInv, Claims

\* The statuses operations write.
LEMMA StatusWritten ==
  /\ \A p \in Payments : \A st : SetStatus(p, st).status = st
  /\ \A p \in Payments : Awaiting(p).status = "captured_awaiting_post"
  /\ Blank.p.status = "intent"
BY DEF Payments, SetStatus, Awaiting, Blank

\* A step of an operation claims only what the ledger shows.
LEMMA RunClaims ==
  ASSUME ControlOK, DataOK, SagaInv, NEW w \in Workers, Run(w), Stable
  PROVE  /\ CertificateBacked'
         /\ ReversalBacked'
         /\ Claims(payment.status)'
         /\ Claims(dispute.prior)'
         /\ WorkerInv(w)'
<1>t. /\ loc \in [Workers -> Frames] /\ pc \in [Workers -> Labels] /\ loc[w].p \in Payments
      /\ xfer \in [intent : Holds, fee : {"absent", "posted"},
                   compensation : {"absent", "posted"}, dispute : Holds]
  BY LocTyped DEF ControlOK, DataOK
<1>s. /\ \A st : SetStatus(loc[w].p, st).status = st
      /\ Awaiting(loc[w].p).status = "captured_awaiting_post"
      /\ Blank.p.status = "intent"
  BY <1>t, StatusWritten
<1>i. /\ CertificateBacked /\ ReversalBacked /\ Claims(payment.status) /\ Claims(dispute.prior)
      /\ WorkerInv(w)
  BY DEF SagaInv
<1> USE <1>t, <1>s, <1>i DEF Stable, CertificateBacked, ReversalBacked, Claims, WorkerInv,
       Posted, Reversed,
      stored, storedButPayment, Goto, Leave, Copy, Return
<1>1. CASE AuthoriseCall(w)
  <2>1. \A r, st : [loc[w].p EXCEPT !.ref = r, !.status = st].status = st
    BY DEF Payments
  <2>2. PICK r \in Refs :
          \/ /\ Copy(w, [loc[w].p EXCEPT !.ref = r, !.status = "authorised"], NoHook)
             /\ Goto(w, "putAuthorise")
          \/ /\ Copy(w, [loc[w].p EXCEPT !.ref = r, !.status = "failed"], NoHook)
             /\ Goto(w, "authVoid")
          \/ Leave(w)
    BY <1>1, Zenon DEF AuthoriseCall
  <2>3. UNCHANGED <<stored, xfer>>
    BY <1>1 DEF AuthoriseCall
  <2>4. loc'[w].p.status \in {"authorised", "failed", "intent"}
        /\ pc'[w] \in {"putAuthorise", "authVoid", "idle"}
    <3>1. ASSUME NEW st, Copy(w, [loc[w].p EXCEPT !.ref = r, !.status = st], NoHook)
          PROVE  loc'[w].p.status = st
      <4> DEFINE f == [loc[w].p EXCEPT !.ref = r, !.status = st]
      <4>1. f.status = st /\ Copy(w, f, NoHook)
        BY <2>1, <3>1
      <4> HIDE DEF f
      <4> QED BY <4>1
    <3>2. CASE Leave(w)
      BY <3>2
    <3>3. \A to : Goto(w, to) => pc'[w] = to
      OBVIOUS
    <3> HIDE DEF Copy, Goto, Leave
    <3> QED BY <2>2, <3>1, <3>2, <3>3
  <2> QED BY <2>3, <2>4
<1>2. CASE AuthoriseVoid(w)
  BY <1>2 DEF AuthoriseVoid
<1>3. CASE PutAuthorise(w)
  BY <1>3 DEF PutAuthorise, TryPut, Put, PutFails
<1>4. CASE ChargeCall(w)
  BY <1>4 DEF ChargeCall
<1>5. CASE VerifyCall(w)
  BY <1>5 DEF VerifyCall
<1>6. CASE ParkPut(w)
  BY <1>6 DEF ParkPut, TryPut, Put, PutFails
<1>7. CASE PutAwaiting(w)
  BY <1>7 DEF PutAwaiting, TryPut, Put, PutFails
<1>8. CASE PostCall(w)
  BY <1>8 DEF PostCall
<1>9. CASE FeeCall(w)
  BY <1>9 DEF FeeCall
<1>10. CASE IssueCall(w)
  BY <1>10 DEF IssueCall
<1>11. CASE PutCaptured(w)
  BY <1>11 DEF PutCaptured, TryPut, Put, PutFails
<1>12. CASE ReverseCall(w)
  BY <1>12 DEF ReverseCall
<1>13. CASE CompensateVoidHold(w)
  BY <1>13 DEF CompensateVoidHold, ReleaseHold
<1>14. CASE CompensateRefund(w)
  BY <1>14 DEF CompensateRefund
<1>15. CASE RecordCompensation(w)
  BY <1>15 DEF RecordCompensation
<1>16. CASE PutCompensated(w)
  BY <1>16 DEF PutCompensated, TryPut, Put, PutFails
<1>17. CASE FailVoid(w)
  BY <1>17 DEF FailVoid, ReleaseHold
<1>18. CASE PutFailed(w)
  BY <1>18 DEF PutFailed, TryPut, Put, PutFails
<1>19. CASE VoidCallPSSP(w)
  BY <1>19 DEF VoidCallPSSP
<1>20. CASE VoidCallLedger(w)
  BY <1>20 DEF VoidCallLedger
<1>21. CASE PutVoided(w)
  BY <1>21 DEF PutVoided, TryPut, Put, PutFails
<1>22. CASE WebhookVerify(w)
  BY <1>22 DEF WebhookVerify
<1>23. CASE WebhookCapture(w)
  BY <1>23 DEF WebhookCapture, CaptureEntry
<1>24. CASE PutAuthorised(w)
  BY <1>24 DEF PutAuthorised, TryPut, Put, PutFails
<1>25. CASE MarkProcessed(w)
  BY <1>25 DEF MarkProcessed
<1>26. CASE DisputeHold(w)
  BY <1>26 DEF DisputeHold
<1>27. CASE PutDispute(w)
  BY <1>27 DEF PutDispute
<1>28. CASE PutDisputed(w)
  BY <1>28 DEF PutDisputed, TryPut, Put, PutFails
<1>29. CASE ResolveLedger(w)
  BY <1>29 DEF ResolveLedger, OutcomeOf
<1>30. CASE PutResolved(w)
  <2>1. CASE dispute' = dispute
    BY <1>30, <2>1 DEF PutResolved
  <2>2. CASE dispute' = [dispute EXCEPT !.status = OutcomeOf(loc[w].p)]
    <3>1. dispute'.prior = dispute.prior
      BY <2>2 DEF DataOK
    <3> QED BY <1>30, <3>1 DEF PutResolved
  <2> QED BY <1>30, <2>1, <2>2 DEF PutResolved
<1>31. CASE PutOutcome(w)
  BY <1>31 DEF PutOutcome, TryPut, Put, PutFails
<1>32. CASE OpenDisputeRead(w)
  BY <1>32 DEF OpenDisputeRead
<1>33. CASE ResolveRead(w)
  <2> DEFINE after == IF pc[w] = "resolveWon" THEN dispute.prior ELSE "charged_back"
  <2>1. UNCHANGED <<payment, certificate, dispute, xfer>>
    BY <1>33 DEF ResolveRead
  <2>2. CASE Copy(w, SetStatus(loc[w].p, after), loc[w].hook) /\ Goto(w, "resolve")
    <3>1. loc'[w].p = SetStatus(loc[w].p, after) /\ pc'[w] = "resolve"
      BY <2>2
    <3>2. loc'[w].p.status = after /\ (after = "charged_back" \/ after = dispute.prior)
      BY <3>1
    <3> HIDE DEF after
    <3> QED BY <2>1, <3>1, <3>2
  <2>3. CASE Return(w) \/ Leave(w)
    BY <1>33, <2>1, <2>3 DEF ResolveRead
  <2> QED BY <1>33, <2>2, <2>3 DEF ResolveRead
<1> QED BY <1>1, <1>2, <1>3, <1>4, <1>5, <1>6, <1>7, <1>8, <1>9, <1>10, <1>11, <1>12,
       <1>13, <1>14, <1>15, <1>16, <1>17, <1>18, <1>19, <1>20, <1>21, <1>22, <1>23, <1>24,
       <1>25, <1>26, <1>27, <1>28, <1>29, <1>30, <1>31, <1>32, <1>33 DEF Run

\* A starting operation copies a true claim.
LEMMA RequestClaims ==
  ASSUME ControlOK, DataOK, SagaInv, NEW w \in Handlers, Request(w)
  PROVE  /\ Stable
         /\ CertificateBacked' /\ ReversalBacked'
         /\ Claims(payment.status)' /\ Claims(dispute.prior)'
         /\ WorkerInv(w)'
<1>u. payment' = payment /\ certificate' = certificate /\ dispute' = dispute /\ xfer' = xfer
  BY RequestReads DEF stored
<1>g. /\ Stable
      /\ CertificateBacked' /\ ReversalBacked'
      /\ Claims(payment.status)' /\ Claims(dispute.prior)'
  BY <1>u DEF Stable, SagaInv, CertificateBacked, ReversalBacked, Claims, Posted, Reversed
<1>w. w \in Workers /\ payment \in Payments /\ loc \in [Workers -> Frames]
      /\ pc \in [Workers -> Labels]
  BY DEF Workers, DataOK, ControlOK
<1> DEFINE Starts == {"authorise", "charge", "park", "voidPSSP", "whVerify", "putAuthorised",
                      "openDispute", "resolveWon", "resolveLost", "mark"}
<1>c. ASSUME NEW p, NEW hook, NEW to, Copy(w, p, hook), Goto(w, to)
      PROVE  loc'[w].p = p /\ pc'[w] = to
  BY <1>c, <1>w DEF Copy, Goto
<1>s. ASSUME NEW p, NEW hook, NEW to \in Starts, Copy(w, p, hook), Goto(w, to),
             p = payment \/ p.status = "authorised"
      PROVE  WorkerInv(w)'
  <2>1. loc'[w].p = p /\ pc'[w] = to
    BY <1>s, <1>c
  <2> QED BY <1>g, <1>s, <1>u, <2>1 DEF WorkerInv, Claims
<1> HIDE DEF Starts
<1>v. /\ "authorise" \in Starts /\ "charge" \in Starts /\ "park" \in Starts /\ "voidPSSP" \in Starts
      /\ "whVerify" \in Starts /\ "putAuthorised" \in Starts /\ "openDispute" \in Starts
      /\ "resolveWon" \in Starts /\ "resolveLost" \in Starts /\ "mark" \in Starts
  BY DEF Starts
<1>1. ASSUME BeginAuthorise(w) PROVE WorkerInv(w)'
  BY <1>1, <1>s, <1>v DEF BeginAuthorise
<1>2. ASSUME BeginCapture(w) PROVE WorkerInv(w)'
  BY <1>2, <1>s, <1>v DEF BeginCapture, CaptureEntry
<1>3. ASSUME BeginVoid(w) PROVE WorkerInv(w)'
  BY <1>3, <1>s, <1>v DEF BeginVoid, VoidEntry
<1>4. ASSUME NEW r \in Refs, WebhookCharge(w, r) PROVE WorkerInv(w)'
  BY <1>4, <1>s, <1>v DEF WebhookCharge, Park
<1>5. ASSUME NEW r \in Refs, WebhookAuthorised(w, r) PROVE WorkerInv(w)'
  <2>1. SetStatus(payment, "authorised").status = "authorised"
    BY <1>w, StatusWritten
  <2> QED BY <1>5, <1>s, <1>v, <2>1 DEF WebhookAuthorised, Park
<1>6. ASSUME NEW r \in Refs, OpenDispute(w, r) PROVE WorkerInv(w)'
  BY <1>6, <1>s, <1>v DEF OpenDispute
<1>7. ASSUME NEW r \in Refs, NEW event \in Events, WebhookVoid(w, event, r) PROVE WorkerInv(w)'
  BY <1>7, <1>s, <1>v DEF WebhookVoid, VoidEntry, Park
<1>8. ASSUME NEW r \in Refs, NEW outcome \in {"won", "lost"}, ResolveDispute(w, outcome, r)
      PROVE  WorkerInv(w)'
  BY <1>8, <1>s, <1>v DEF ResolveDispute
<1> QED BY <1>g, <1>1, <1>2, <1>3, <1>4, <1>5, <1>6, <1>7, <1>8 DEF Request

\* The sweeper claims only what the ledger shows.
LEMMA SweepClaims ==
  ASSUME ControlOK, DataOK, SagaInv, Sweep, Stable
  PROVE  /\ CertificateBacked' /\ ReversalBacked'
         /\ Claims(payment.status)' /\ Claims(dispute.prior)'
         /\ WorkerInv(Sweeper)'
<1>w. Sweeper \in Workers
  BY DEF Workers
<1>t. /\ loc \in [Workers -> Frames] /\ pc \in [Workers -> Labels]
      /\ loc[Sweeper] \in Frames /\ loc[Sweeper].p \in Payments
      /\ xfer \in [intent : Holds, fee : {"absent", "posted"},
                   compensation : {"absent", "posted"}, dispute : Holds]
  BY <1>w, LocTyped DEF ControlOK, DataOK
<1>s. /\ \A st : SetStatus(loc[Sweeper].p, st).status = st
      /\ Awaiting(loc[Sweeper].p).status = "captured_awaiting_post"
      /\ Blank.p.status = "intent"
  BY <1>t, StatusWritten
<1>i. /\ CertificateBacked /\ ReversalBacked /\ Claims(payment.status) /\ Claims(dispute.prior)
      /\ WorkerInv(Sweeper)
  BY <1>w DEF SagaInv
<1>n. ASSUME NEW n, loc' = [loc EXCEPT ![Sweeper].n = n],
             UNCHANGED <<payment, certificate, dispute, xfer>>,
             Goto(Sweeper, "retry"), pc[Sweeper] # "resolve"
      PROVE  /\ CertificateBacked' /\ ReversalBacked'
             /\ Claims(payment.status)' /\ Claims(dispute.prior)'
             /\ WorkerInv(Sweeper)'
  <2>1. loc'[Sweeper].p = loc[Sweeper].p /\ pc'[Sweeper] = "retry"
    BY <1>n, <1>t, <1>w DEF Goto, Frames
  <2> QED BY <1>i, <1>n, <2>1 DEF CertificateBacked, ReversalBacked, Claims, WorkerInv,
         Posted, Reversed
<1>e. ASSUME Leave(Sweeper), UNCHANGED <<payment, certificate, dispute, xfer>>
      PROVE  /\ CertificateBacked' /\ ReversalBacked'
             /\ Claims(payment.status)' /\ Claims(dispute.prior)'
             /\ WorkerInv(Sweeper)'
  BY <1>e, <1>i, <1>s, <1>t, <1>w
     DEF Leave, CertificateBacked, ReversalBacked, Claims, WorkerInv, Posted, Reversed
<1> USE <1>w, <1>t, <1>s, <1>i DEF Stable, CertificateBacked, ReversalBacked, Claims,
       WorkerInv, Posted, Reversed,
      stored, storedButPayment, Goto, Leave, Copy
<1>1. CASE SweepBegin
  BY <1>1 DEF SweepBegin, SweepTarget
<1>2. CASE SettleLookup
  BY <1>2 DEF SettleLookup
<1>3. CASE PutSettled
  BY <1>3 DEF PutSettled, TryPut, Put, PutFails
<1>4. CASE RecoverVerify
  BY <1>4 DEF RecoverVerify
<1>5. CASE PutRecovered
  BY <1>5 DEF PutRecovered, TryPut, Put, PutFails
<1>6. CASE ExpireVoid
  BY <1>6 DEF ExpireVoid
<1>7. CASE PutExpired
  BY <1>7 DEF PutExpired, TryPut, Put, PutFails
<1>8. CASE ReleaseFailedHold
  BY <1>8 DEF ReleaseFailedHold, AfterRelease
<1>9. CASE PutReleased
  BY <1>9 DEF PutReleased, TryPut, Put, PutFails, AfterRelease
<1>10. CASE RetryList
  <2>1. UNCHANGED <<payment, certificate, dispute, xfer>> /\ pc[Sweeper] # "resolve"
    BY <1>10 DEF RetryList
  <2> HIDE DEF Goto, Leave
  <2> QED BY <1>10, <1>n, <1>e, <2>1 DEF RetryList
<1>11. CASE RetryRefund
  <2>1. UNCHANGED <<payment, certificate, dispute, xfer>> /\ pc[Sweeper] # "resolve"
    BY <1>11 DEF RetryRefund
  <2>2. CASE NextRetry
    <3>1. \/ Leave(Sweeper)
          \/ (Goto(Sweeper, "retry") /\ loc' = [loc EXCEPT ![Sweeper].n = loc[Sweeper].n - 1])
      BY <2>2 DEF NextRetry
    <3> HIDE DEF Goto, Leave
    <3> QED BY <1>n, <1>e, <2>1, <3>1
  <2>3. CASE Goto(Sweeper, "putRetried") /\ UNCHANGED loc
    BY <2>1, <2>3
  <2> QED BY <1>11, <2>2, <2>3 DEF RetryRefund
<1>12. CASE PutRetried
  <2>1. UNCHANGED <<payment, certificate, dispute, xfer>> /\ pc[Sweeper] # "resolve"
    BY <1>12 DEF PutRetried
  <2>2. CASE NextRetry
    <3>1. \/ Leave(Sweeper)
          \/ (Goto(Sweeper, "retry") /\ loc' = [loc EXCEPT ![Sweeper].n = loc[Sweeper].n - 1])
      BY <2>2 DEF NextRetry
    <3> HIDE DEF Goto, Leave
    <3> QED BY <1>n, <1>e, <2>1, <3>1
  <2> QED BY <1>12, <2>2 DEF PutRetried
<1> QED BY <1>1, <1>2, <1>3, <1>4, <1>5, <1>6, <1>7, <1>8, <1>9, <1>10, <1>11, <1>12 DEF Sweep

\* Nothing is claimed at first.
LEMMA SagaInvInit == Init => SagaInv
BY DEF Init, SagaInv, CertificateBacked, ReversalBacked, Reversed, Claims, WorkerInv, Blank

\* Every step keeps the claims true.
LEMMA SagaInvStep == TypeInv /\ SagaInv /\ [Next]_vars => SagaInv'
<1> SUFFICES ASSUME ControlOK, DataOK, RetryBound, MarkHook, SagaInv, [Next]_vars
             PROVE  SagaInv'
  BY TypeParts DEF TypeInv
<1>1. ASSUME NEW w \in Workers, Moves(w), Stable,
             CertificateBacked', ReversalBacked', Claims(payment.status)', Claims(dispute.prior)',
             WorkerInv(w)'
      PROVE  SagaInv'
  <2>1. \A v \in Workers \ {w} : WorkerInv(v)'
    BY <1>1, OthersKeep DEF SagaInv
  <2> QED BY <1>1, <2>1 DEF SagaInv
<1>2. ASSUME NEW w \in Handlers, Request(w) PROVE SagaInv'
  <2>1. w \in Workers
    BY DEF Workers
  <2> QED BY <1>1, <1>2, <2>1, RequestControl, RequestClaims
<1>3. ASSUME NEW w \in Workers, Run(w) PROVE SagaInv'
  BY <1>1, <1>3, RunControl, RunStable, RunClaims
<1>4. CASE Sweep
  <2>1. Sweeper \in Workers
    BY DEF Workers
  <2> QED BY <1>1, <1>4, <2>1, SweepControl, SweepStable, SweepClaims
<1>5. CASE Crash
  BY <1>5 DEF Crash, stored, SagaInv, CertificateBacked, ReversalBacked, Posted, Reversed,
              Claims, WorkerInv, Blank
<1>6. CASE UNCHANGED vars
  BY <1>6 DEF vars, stored, SagaInv, CertificateBacked, ReversalBacked, Posted, Reversed,
              Claims, WorkerInv
<1> QED BY <1>2, <1>3, <1>4, <1>5, <1>6 DEF Next

\* SagaInv is an invariant.
LEMMA SagaInvariant == Spec => []SagaInv
<1>1. Init => TypeInv /\ SagaInv
  BY TypeInit, SagaInvInit DEF TypeInv
<1>2. TypeInv /\ SagaInv /\ [Next]_vars => TypeInv' /\ SagaInv'
  BY TypeStep, SagaInvStep
<1> QED BY <1>1, <1>2, PTL DEF Spec

\* A certificate exists only for a levy that is posted on the ledger, for any
\* interleaving of captures, webhooks and sweeps and any faults.
THEOREM CertificatesBacked == Spec => []CertificateBacked
<1>1. SagaInv => CertificateBacked
  BY DEF SagaInv
<1> QED BY <1>1, SagaInvariant, PTL

\* compensateCapture reverses only a post that landed.
THEOREM ReversalsBacked == Spec => []ReversalBacked
<1>1. SagaInv => ReversalBacked
  BY DEF SagaInv
<1> QED BY <1>1, SagaInvariant, PTL

\* captured and settled are asserted only with the post on the ledger and the
\* certificate in the store, also when a won dispute restores them.
THEOREM CapturedProven == Spec => []CapturedHasProof
<1>1. SagaInv => CapturedHasProof
  BY DEF SagaInv, Claims, CapturedHasProof
<1> QED BY <1>1, SagaInvariant, PTL

\* A voided or expired payment holds none of the payer's funds, and a
\* charged_back one has its chargeback on the ledger.
THEOREM TerminalStatusesTrue == Spec => []TerminalStatusTrue
<1>1. SagaInv => TerminalStatusTrue
  BY DEF SagaInv, Claims, TerminalStatusTrue
<1> QED BY <1>1, SagaInvariant, PTL

=============================================================================

----------------------------- MODULE CaptureSaga -----------------------------
(***************************************************************************)
(* The life of one presumptive-levy payment after CreateIntent             *)
(* (services/presumptive: payments.go, recovery.go, disputes.go, with the  *)
(* provider of pssp.go and the certificates of certificates.go).           *)
(*                                                                         *)
(* HTTP handlers and webhook deliveries run concurrently (Handlers) beside *)
(* the recovery sweeper.  None of them holds a lock: an operation reads    *)
(* the payment record, calls the provider and the ledger, and writes the   *)
(* WHOLE record back, so every call and every Put is a step of its own.    *)
(* The payment row, certificates, disputes and compensations are durable;  *)
(* a crash of the service loses the steps in progress and nothing else.    *)
(*                                                                         *)
(* Ledger transfers are named by what their deterministic id is derived    *)
(* from: intent (the hold and the post that consumes it), fee,             *)
(* compensation, dispute (the hold and the chargeback debit).              *)
(***************************************************************************)
EXTENDS Integers

CONSTANTS
  Handlers,    \* request and webhook goroutines
  Sweeper,     \* the RecoverySweeper goroutine
  Refs,        \* provider references: 1..n, bounds the authorisations
  MaxOps,      \* bound: requests and webhook deliveries
  MaxFaults    \* bound: failed calls, failed Puts and crashes

ASSUME SagaAssumption ==
  /\ Sweeper \notin Handlers
  /\ Refs \subseteq Nat \ {0}
  /\ MaxOps \in Nat
  /\ MaxFaults \in Nat

VARIABLES
  payment,        \* the stored Payment: status, PSSPRef, PostTransferID set?
  xfer,           \* the payment's transfers on the core ledger
  pssp,           \* the provider's view of every reference
  certificate,    \* is the certificate in the store?
  dispute,        \* the stored Dispute: status and PriorStatus
  failedRefunds,  \* stored Compensations whose PSSPRefund is "failed: ..."
  seen,           \* webhook_events: processed (event, reference) pairs
  pc,             \* where each goroutine is
  loc,            \* its local copy of the payment, and the webhook it serves
  ops, faults     \* counters of the bounds

stored == <<payment, certificate, dispute, failedRefunds, seen>>
vars == <<stored, xfer, pssp, pc, loc, ops, faults>>

-----------------------------------------------------------------------------
Workers == Handlers \cup {Sweeper}

NoRef == 0

Statuses ==
  {"intent", "pending_authorisation", "authorised", "capture_in_flight",
   "captured_awaiting_post", "captured", "settled", "disputed", "charged_back",
   "voided", "failed", "compensated", "expired"}

Payments == [status : Statuses, ref : Refs \cup {NoRef}, post : BOOLEAN]

Holds == {"absent", "pending", "posted", "voided"}

ResolveEvent == "charge.dispute.resolve"

Events ==
  {"authorisation.successful", "charge.successful", "charge.failed",
   "authorisation.voided", "charge.dispute.create", ResolveEvent}

NoHook == [event |-> "none", ref |-> NoRef]
Hooks == [event : Events, ref : Refs] \cup {NoHook}

\* The post-capture part of the monotonic chain of paymentRank (rank >= 3).
RankedCaptured == {"captured_awaiting_post", "captured", "settled"}

\* The pre-capture part of it (rank < 3).
RankedOpen == {"intent", "pending_authorisation", "authorised"}

Labels ==
  {"idle", "mark",
   "authorise", "authVoid", "putAuthorise",
   "charge", "verify", "park", "putAwaiting", "post", "fee", "issue", "putCaptured",
   "reverse", "voidHold", "refund", "recordOk", "recordFailed", "putCompensated",
   "failVoid", "putFailed", "voidPSSP", "voidLedger", "putVoided",
   "whVerify", "whCapture", "putAuthorised",
   "openDispute", "disputeHold", "putDispute", "putDisputed",
   "resolveWon", "resolveLost", "resolve", "putResolved", "putOutcome",
   "settle", "putSettled", "recover", "putRecovered", "expire", "putExpired",
   "release", "putReleased", "retryList", "retry", "putRetried"}

Blank == [p |-> [status |-> "intent", ref |-> NoRef, post |-> FALSE],
          hook |-> NoHook, n |-> 0]

TypeOK ==
  /\ payment \in Payments
  /\ xfer \in [intent : Holds, fee : {"absent", "posted"},
               compensation : {"absent", "posted"}, dispute : Holds]
  /\ pssp \in [Refs -> {"unused", "authed", "settled", "released"}]
  /\ certificate \in BOOLEAN
  /\ dispute \in [status : {"none", "open", "won", "lost"}, prior : Statuses]
  /\ failedRefunds \in Nat
  /\ seen \subseteq Events \X Refs
  /\ pc \in [Workers -> Labels]
  /\ loc \in [Workers -> [p : Payments, hook : Hooks, n : Nat]]
  /\ ops \in 0..MaxOps
  /\ faults \in 0..MaxFaults

\* CreateIntent has placed the hold and written the payment.
Init ==
  /\ payment = [status |-> "pending_authorisation", ref |-> NoRef, post |-> FALSE]
  /\ xfer = [intent |-> "pending", fee |-> "absent",
             compensation |-> "absent", dispute |-> "absent"]
  /\ pssp = [r \in Refs |-> "unused"]
  /\ certificate = FALSE
  /\ dispute = [status |-> "none", prior |-> "intent"]
  /\ failedRefunds = 0
  /\ seen = {}
  /\ pc = [w \in Workers |-> "idle"]
  /\ loc = [w \in Workers |-> Blank]
  /\ ops = 0
  /\ faults = 0

-----------------------------------------------------------------------------
(* Control.                                                                *)

Goto(w, to) == pc' = [pc EXCEPT ![w] = to]

\* The operation ends without success: nothing more is written.
Leave(w) ==
  /\ pc' = [pc EXCEPT ![w] = "idle"]
  /\ loc' = [loc EXCEPT ![w] = Blank]

\* The operation ends with success: a webhook is then marked processed.
Return(w) ==
  IF loc[w].hook = NoHook THEN Leave(w) ELSE Goto(w, "mark") /\ UNCHANGED loc

\* A request or delivery arrives at an idle handler.
Arrive(w) ==
  /\ w \in Handlers
  /\ pc[w] = "idle"
  /\ ops < MaxOps
  /\ ops' = ops + 1

NoFault == UNCHANGED faults
Fault == faults < MaxFaults /\ faults' = faults + 1

Copy(w, p, hook) == loc' = [loc EXCEPT ![w] = [p |-> p, hook |-> hook, n |-> 0]]

SetStatus(p, status) == [p EXCEPT !.status = status]

\* Put("payments"): written, or reported failed.  The embedded store returns
\* the error of the file write after it updated its map, and a database error
\* may come after the commit: a failed Put may or may not have written.
Put(p) == payment' = p /\ NoFault
PutFails(p) == payment' \in {payment, p} /\ Fault

\* A Put whose error changes nothing in what the caller does next.
TryPut(p) == Put(p) \/ PutFails(p)

storedButPayment == <<certificate, dispute, failedRefunds, seen>>

-----------------------------------------------------------------------------
(* Authorise.                                                              *)

BeginAuthorise(w) ==
  /\ Arrive(w)
  /\ payment.status = "pending_authorisation"
  /\ Copy(w, payment, NoHook)
  /\ Goto(w, "authorise")
  /\ UNCHANGED <<stored, xfer, pssp, faults>>

NextRef(r) == pssp[r] = "unused" /\ \A q \in Refs : q < r => pssp[q] # "unused"

\* The provider authorises or declines under a new reference, or the call
\* fails in transport, before or after the provider acted.
AuthoriseCall(w) ==
  /\ pc[w] = "authorise"
  /\ \E r \in {q \in Refs : NextRef(q)} :
       \/ /\ pssp' = [pssp EXCEPT ![r] = "authed"]
          /\ Copy(w, [loc[w].p EXCEPT !.ref = r, !.status = "authorised"], NoHook)
          /\ Goto(w, "putAuthorise")
          /\ NoFault
       \/ /\ pssp' = [pssp EXCEPT ![r] = "released"]
          /\ Copy(w, [loc[w].p EXCEPT !.ref = r, !.status = "failed"], NoHook)
          /\ Goto(w, "authVoid")
          /\ NoFault
       \/ /\ pssp' \in {pssp, [pssp EXCEPT ![r] = "authed"]}
          /\ Leave(w)
          /\ Fault
  /\ UNCHANGED <<stored, xfer, ops>>

\* The release of the hold after a decline; an error is ignored.
AuthoriseVoid(w) ==
  /\ pc[w] = "authVoid"
  /\ \/ /\ xfer' = [xfer EXCEPT !.intent = IF @ = "pending" THEN "voided" ELSE @]
        /\ NoFault
     \/ UNCHANGED xfer /\ Fault
  /\ Goto(w, "putAuthorise")
  /\ UNCHANGED <<stored, pssp, loc, ops>>

PutAuthorise(w) ==
  /\ pc[w] = "putAuthorise"
  /\ TryPut(loc[w].p)
  /\ Leave(w)
  /\ UNCHANGED <<storedButPayment, xfer, pssp, ops>>

-----------------------------------------------------------------------------
(* Capture.                                                                *)

\* Capture reads an authorised payment.  revalidatePack either agrees or
\* finds that the rule pack changed and parks the payment.
CaptureEntry(w, hook) ==
  /\ payment.status = "authorised"
  /\ Copy(w, payment, hook)
  /\ Goto(w, "charge") \/ Goto(w, "park")
  /\ UNCHANGED <<stored, xfer, pssp>>

BeginCapture(w) == Arrive(w) /\ CaptureEntry(w, NoHook) /\ NoFault

\* adapter.Capture under the payment's idempotency key: settles an
\* authorised reference, replays a settled one, declines any other.  A
\* transport error says nothing about what the provider did.
ChargeCall(w) ==
  LET r == loc[w].p.ref
      charged == [q \in Refs |-> IF q = r /\ pssp[q] = "authed" THEN "settled" ELSE pssp[q]]
      known == r \in Refs /\ pssp[r] \in {"authed", "settled"}
  IN
  /\ pc[w] = "charge"
  /\ \/ known /\ pssp' = charged /\ Goto(w, "putAwaiting") /\ NoFault
     \/ ~known /\ UNCHANGED pssp /\ Goto(w, "failVoid") /\ NoFault
     \/ pssp' \in {pssp, charged} /\ Goto(w, "verify") /\ Fault
  /\ UNCHANGED <<stored, xfer, loc, ops>>

\* adapter.Verify after a transport error.
VerifyCall(w) ==
  LET settled == loc[w].p.ref \in Refs /\ pssp[loc[w].p.ref] = "settled" IN
  /\ pc[w] = "verify"
  /\ \/ settled /\ Goto(w, "putAwaiting") /\ NoFault
     \/ ~settled /\ Goto(w, "failVoid") /\ NoFault
     \/ Goto(w, "park") /\ Fault
  /\ UNCHANGED <<stored, xfer, pssp, loc, ops>>

\* Mutant: a status string no reader of the record knows.
ParkPut_Misspelt(w) ==
  /\ pc[w] = "park"
  /\ Put(SetStatus(loc[w].p, "capture_inflight"))
  /\ Leave(w)
  /\ UNCHANGED <<storedButPayment, xfer, pssp, ops>>

\* Put of capture_in_flight (pack drift, or provider state unknown); a
\* refused Put is ignored.  The operation returns an error either way.
ParkPut(w) ==
  /\ pc[w] = "park"
  /\ TryPut(SetStatus(loc[w].p, "capture_in_flight"))
  /\ Leave(w)
  /\ UNCHANGED <<storedButPayment, xfer, pssp, ops>>

Awaiting(p) == [p EXCEPT !.status = "captured_awaiting_post", !.post = TRUE]

\* The single durable write at the point of no return: the status together
\* with the post transfer id.
PutAwaiting(w) ==
  /\ pc[w] = "putAwaiting"
  /\ Copy(w, Awaiting(loc[w].p), loc[w].hook)
  /\ \/ Put(Awaiting(loc[w].p)) /\ Goto(w, "post")
     \/ PutFails(Awaiting(loc[w].p)) /\ Goto(w, "reverse")
  /\ UNCHANGED <<storedButPayment, xfer, pssp, ops>>

\* Mutant: a hold that is already consumed counts as posted.
PostCall_AnyConsumed(w) ==
  /\ pc[w] = "post"
  /\ xfer' = [xfer EXCEPT !.intent = IF @ = "pending" THEN "posted" ELSE @]
  /\ Goto(w, "fee")
  /\ NoFault
  /\ UNCHANGED <<stored, pssp, loc, ops>>

\* PostPendingAs on the hold: posts a pending hold, replays when the post is
\* already on the ledger, and fails when the hold was voided.
PostCall(w) ==
  LET posted == [xfer EXCEPT !.intent = "posted"] IN
  /\ pc[w] = "post"
  /\ \/ xfer.intent \in {"pending", "posted"} /\ xfer' = posted /\ Goto(w, "fee") /\ NoFault
     \/ xfer.intent = "voided" /\ UNCHANGED xfer /\ Goto(w, "reverse") /\ NoFault
     \/ /\ xfer' \in {xfer, IF xfer.intent = "pending" THEN posted ELSE xfer}
        /\ Goto(w, "reverse")
        /\ Fault
  /\ UNCHANGED <<stored, pssp, loc, ops>>

\* postFeeLeg: a transfer under a deterministic id, of a positive fee.
FeeCall(w) ==
  LET paid == [xfer EXCEPT !.fee = "posted"] IN
  /\ pc[w] = "fee"
  /\ \/ xfer' = paid /\ Goto(w, "issue") /\ NoFault
     \/ xfer' \in {xfer, paid} /\ Goto(w, "reverse") /\ Fault
  /\ UNCHANGED <<stored, pssp, loc, ops>>

\* certs.Issue: idempotent on the payment's serial.
IssueCall(w) ==
  /\ pc[w] = "issue"
  /\ \/ certificate' = TRUE /\ Goto(w, "putCaptured") /\ NoFault
     \/ /\ certificate' = TRUE \/ UNCHANGED certificate
        /\ Goto(w, "reverse")
        /\ Fault
  /\ UNCHANGED <<payment, dispute, failedRefunds, seen, xfer, pssp, loc, ops>>

PutCaptured(w) ==
  /\ pc[w] = "putCaptured"
  /\ \/ Put(SetStatus(loc[w].p, "captured")) /\ Return(w)
     \/ PutFails(SetStatus(loc[w].p, "captured")) /\ Leave(w)
  /\ UNCHANGED <<storedButPayment, xfer, pssp, ops>>

-----------------------------------------------------------------------------
(* compensateCapture and failCaptureConfirmed.                             *)

\* Mutant: the reversal trusts the stored post id and skips the lookup.
ReverseCall_NoLookup(w) ==
  /\ pc[w] = "reverse"
  /\ xfer' = [xfer EXCEPT !.compensation = IF loc[w].p.post THEN "posted" ELSE @]
  /\ Goto(w, "voidHold")
  /\ NoFault
  /\ UNCHANGED <<stored, pssp, loc, ops>>

\* Reverse the post, if the ledger shows it, under a deterministic id.
ReverseCall(w) ==
  LET reversed == [xfer EXCEPT !.compensation = "posted"]
      landed == loc[w].p.post /\ xfer.intent = "posted"
  IN
  /\ pc[w] = "reverse"
  /\ \/ xfer' = (IF landed THEN reversed ELSE xfer) /\ NoFault
     \/ landed /\ xfer' \in {xfer, reversed} /\ Fault
  /\ Goto(w, "voidHold")
  /\ UNCHANGED <<stored, pssp, loc, ops>>

\* Release the hold when it is still pending.
ReleaseHold ==
  \/ xfer' = [xfer EXCEPT !.intent = IF @ = "pending" THEN "voided" ELSE @] /\ NoFault
  \/ xfer.intent = "pending" /\ UNCHANGED xfer /\ Fault

CompensateVoidHold(w) ==
  /\ pc[w] = "voidHold"
  /\ ReleaseHold
  /\ Goto(w, "refund")
  /\ UNCHANGED <<stored, pssp, loc, ops>>

\* Refund, falling back to Void: gives back a settled reference, drops an
\* authorised one.
GivenBack(r) == [q \in Refs |-> IF q = r /\ pssp[q] \in {"authed", "settled"}
                                THEN "released" ELSE pssp[q]]
CanGiveBack(r) == pssp[r] \in {"authed", "settled"}

\* Mutant: the compensation reverses the ledger and forgets the provider.
CompensateRefund_Skipped(w) ==
  /\ pc[w] = "refund"
  /\ Goto(w, "recordOk")
  /\ UNCHANGED <<stored, xfer, pssp, loc, ops, faults>>

CompensateRefund(w) ==
  LET r == loc[w].p.ref IN
  /\ pc[w] = "refund"
  /\ \/ r = NoRef /\ UNCHANGED pssp /\ Goto(w, "recordOk") /\ NoFault
     \/ r # NoRef /\ CanGiveBack(r) /\ pssp' = GivenBack(r) /\ Goto(w, "recordOk") /\ NoFault
     \/ r # NoRef /\ ~CanGiveBack(r) /\ UNCHANGED pssp /\ Goto(w, "recordFailed") /\ NoFault
     \/ r # NoRef /\ pssp' \in {pssp, GivenBack(r)} /\ Goto(w, "recordFailed") /\ Fault
  /\ UNCHANGED <<stored, xfer, loc, ops>>

\* Put("compensations"); a refused Put is ignored and its marker is lost.
RecordCompensation(w) ==
  /\ pc[w] \in {"recordOk", "recordFailed"}
  /\ \/ /\ failedRefunds' = failedRefunds + (IF pc[w] = "recordFailed" THEN 1 ELSE 0)
        /\ NoFault
     \/ UNCHANGED failedRefunds /\ Fault
  /\ Goto(w, "putCompensated")
  /\ UNCHANGED <<payment, certificate, dispute, seen, xfer, pssp, loc, ops>>

PutCompensated(w) ==
  /\ pc[w] = "putCompensated"
  /\ TryPut(SetStatus(loc[w].p, "compensated"))
  /\ Leave(w)
  /\ UNCHANGED <<storedButPayment, xfer, pssp, ops>>

FailVoid(w) ==
  /\ pc[w] = "failVoid"
  /\ ReleaseHold
  /\ Goto(w, "putFailed")
  /\ UNCHANGED <<stored, pssp, loc, ops>>

PutFailed(w) ==
  /\ pc[w] = "putFailed"
  /\ TryPut(SetStatus(loc[w].p, "failed"))
  /\ Leave(w)
  /\ UNCHANGED <<storedButPayment, xfer, pssp, ops>>

-----------------------------------------------------------------------------
(* Void.                                                                   *)

VoidEntry(w, hook) ==
  /\ payment.status \in RankedOpen
  /\ Copy(w, payment, hook)
  /\ Goto(w, "voidPSSP")
  /\ UNCHANGED <<stored, xfer, pssp>>

BeginVoid(w) == Arrive(w) /\ VoidEntry(w, NoHook) /\ NoFault

\* adapter.Void is best effort: an authorised reference is dropped.
VoidCallPSSP(w) ==
  LET dropped == [q \in Refs |-> IF q = loc[w].p.ref /\ pssp[q] = "authed"
                                 THEN "released" ELSE pssp[q]]
  IN
  /\ pc[w] = "voidPSSP"
  /\ \/ pssp' = dropped /\ NoFault
     \/ UNCHANGED pssp /\ Fault
  /\ Goto(w, "voidLedger")
  /\ UNCHANGED <<stored, xfer, loc, ops>>

\* Mutant: the payment is marked voided also when VoidPending failed.
VoidCallLedger_IgnoresError(w) ==
  /\ pc[w] = "voidLedger"
  /\ ReleaseHold
  /\ Goto(w, "putVoided")
  /\ UNCHANGED <<stored, pssp, loc, ops>>

\* Mutant: the void does not depend on the hold still being pending.
VoidCallLedger_AnyHold(w) ==
  /\ pc[w] = "voidLedger"
  /\ xfer' = [xfer EXCEPT !.intent = "voided"]
  /\ Goto(w, "putVoided")
  /\ UNCHANGED <<stored, pssp, loc, ops, faults>>

\* VoidPending decides: a hold that is no longer pending ends the operation.
VoidCallLedger(w) ==
  /\ pc[w] = "voidLedger"
  /\ \/ /\ xfer.intent = "pending"
        /\ xfer' = [xfer EXCEPT !.intent = "voided"]
        /\ Goto(w, "putVoided")
        /\ NoFault
        /\ UNCHANGED loc
     \/ /\ xfer.intent # "pending"
        /\ UNCHANGED xfer
        /\ Leave(w)
        /\ NoFault
     \/ /\ xfer.intent = "pending"
        /\ xfer' \in {xfer, [xfer EXCEPT !.intent = "voided"]}
        /\ Leave(w)
        /\ Fault
  /\ UNCHANGED <<stored, pssp, ops>>

PutVoided(w) ==
  /\ pc[w] = "putVoided"
  /\ \/ Put(SetStatus(loc[w].p, "voided")) /\ Return(w)
     \/ PutFails(SetStatus(loc[w].p, "voided")) /\ Leave(w)
  /\ UNCHANGED <<storedButPayment, xfer, pssp, ops>>

-----------------------------------------------------------------------------
(* HandleWebhook.  A delivery names an event and a reference the provider  *)
(* has issued; a pair already marked is acknowledged without effect, unless*)
(* the read of webhook_events fails: the delivery is then processed again. *)

Deliver(w, event, r) ==
  /\ Arrive(w)
  /\ pssp[r] # "unused"
  /\ \/ <<event, r>> \notin seen /\ NoFault
     \/ <<event, r>> \in seen /\ Fault

\* The event is acknowledged as out of order or duplicate: only the mark is
\* written.
Park(w, event, r) ==
  /\ Copy(w, payment, [event |-> event, ref |-> r])
  /\ Goto(w, "mark")
  /\ UNCHANGED <<stored, xfer, pssp>>

WebhookCharge(w, r) ==
  /\ Deliver(w, "charge.successful", r)
  /\ \/ payment.status \in RankedCaptured /\ Park(w, "charge.successful", r)
     \/ /\ payment.status \notin RankedCaptured
        /\ Copy(w, payment, [event |-> "charge.successful", ref |-> r])
        /\ Goto(w, "whVerify")
        /\ UNCHANGED <<stored, xfer, pssp>>

\* verifyWebhookValue: the provider must know the reference as authorised or
\* settled; an unavailable provider rejects the delivery.
WebhookVerify(w) ==
  LET known == pssp[loc[w].hook.ref] \in {"authed", "settled"} IN
  /\ pc[w] = "whVerify"
  /\ \/ known /\ Goto(w, "whCapture") /\ UNCHANGED loc /\ NoFault
     \/ ~known /\ Leave(w) /\ NoFault
     \/ Leave(w) /\ Fault
  /\ UNCHANGED <<stored, xfer, pssp, ops>>

\* Capture(target.ID) reads the payment again.
WebhookCapture(w) ==
  /\ pc[w] = "whCapture"
  /\ \/ CaptureEntry(w, loc[w].hook)
     \/ /\ payment.status # "authorised"
        /\ Leave(w)
        /\ UNCHANGED <<stored, xfer, pssp>>
  /\ UNCHANGED <<ops, faults>>

WebhookVoid(w, event, r) ==
  /\ event \in {"charge.failed", "authorisation.voided"}
  /\ Deliver(w, event, r)
  /\ \/ VoidEntry(w, [event |-> event, ref |-> r])
     \/ payment.status = "voided" /\ Park(w, event, r)

\* authorisation.successful never regresses the record it READ.
WebhookAuthorised(w, r) ==
  LET hook == [event |-> "authorisation.successful", ref |-> r] IN
  /\ Deliver(w, "authorisation.successful", r)
  /\ \/ /\ payment.status \notin RankedOpen \/ payment.status = "authorised"
        /\ Park(w, "authorisation.successful", r)
     \/ /\ payment.status \in RankedOpen \ {"authorised"}
        /\ Copy(w, SetStatus(payment, "authorised"), hook)
        /\ Goto(w, "putAuthorised")
        /\ UNCHANGED <<stored, xfer, pssp>>

PutAuthorised(w) ==
  /\ pc[w] = "putAuthorised"
  /\ \/ Put(loc[w].p) /\ Return(w)
     \/ PutFails(loc[w].p) /\ Leave(w)
  /\ UNCHANGED <<storedButPayment, xfer, pssp, ops>>

\* markProcessed, after the effect; a refused Put is ignored.
MarkProcessed(w) ==
  LET hook == loc[w].hook IN
  /\ pc[w] = "mark"
  /\ \/ seen' = seen \cup {<<hook.event, hook.ref>>} /\ NoFault
     \/ UNCHANGED seen /\ Fault
  /\ Leave(w)
  /\ UNCHANGED <<payment, certificate, dispute, failedRefunds, xfer, pssp, ops>>

-----------------------------------------------------------------------------
(* Disputes.                                                               *)

Disputable == {"captured", "captured_awaiting_post", "settled"}

OpenDispute(w, r) ==
  /\ Deliver(w, "charge.dispute.create", r)
  /\ Copy(w, payment, [event |-> "charge.dispute.create", ref |-> r])
  /\ Goto(w, "openDispute")
  /\ UNCHANGED <<stored, xfer, pssp>>

\* An existing dispute is returned unchanged; a failed read of it counts as
\* no dispute.
OpenDisputeRead(w) ==
  /\ pc[w] = "openDispute"
  /\ \/ dispute.status # "none" /\ Return(w) /\ NoFault
     \/ /\ (dispute.status = "none" /\ NoFault) \/ Fault
        /\ IF loc[w].p.status \in Disputable
           THEN Goto(w, "disputeHold") /\ UNCHANGED loc
           ELSE Leave(w)
  /\ UNCHANGED <<stored, xfer, pssp, ops>>

\* PendingTransfer of the disputed amount: replays while the hold is pending,
\* conflicts once it was consumed.
DisputeHold(w) ==
  LET held == [xfer EXCEPT !.dispute = "pending"] IN
  /\ pc[w] = "disputeHold"
  /\ \/ /\ xfer.dispute \in {"absent", "pending"}
        /\ xfer' = held
        /\ Goto(w, "putDispute")
        /\ NoFault
        /\ UNCHANGED loc
     \/ /\ xfer.dispute \notin {"absent", "pending"}
        /\ UNCHANGED xfer
        /\ Leave(w)
        /\ NoFault
     \/ /\ xfer' \in {xfer, IF xfer.dispute = "absent" THEN held ELSE xfer}
        /\ Leave(w)
        /\ Fault
  /\ UNCHANGED <<stored, pssp, ops>>

PutDispute(w) ==
  LET opened == [status |-> "open", prior |-> loc[w].p.status] IN
  /\ pc[w] = "putDispute"
  /\ \/ /\ dispute' = opened
        /\ Goto(w, "putDisputed")
        /\ NoFault
        /\ UNCHANGED loc
     \/ dispute' \in {dispute, opened} /\ Leave(w) /\ Fault
  /\ UNCHANGED <<payment, certificate, failedRefunds, seen, xfer, pssp, ops>>

PutDisputed(w) ==
  /\ pc[w] = "putDisputed"
  /\ \/ Put(SetStatus(loc[w].p, "disputed")) /\ Return(w)
     \/ PutFails(SetStatus(loc[w].p, "disputed")) /\ Leave(w)
  /\ UNCHANGED <<storedButPayment, xfer, pssp, ops>>

ResolveDispute(w, outcome, r) ==
  /\ Deliver(w, ResolveEvent, r)
  /\ Copy(w, payment, [event |-> ResolveEvent, ref |-> r])
  /\ Goto(w, IF outcome = "won" THEN "resolveWon" ELSE "resolveLost")
  /\ UNCHANGED <<stored, xfer, pssp>>

\* Only an open dispute is resolved, the same outcome again is a no-op; the
\* local payment takes the status the outcome gives it.
ResolveRead(w) ==
  LET outcome == IF pc[w] = "resolveWon" THEN "won" ELSE "lost"
      after == IF outcome = "won" THEN dispute.prior ELSE "charged_back"
  IN
  /\ pc[w] \in {"resolveWon", "resolveLost"}
  /\ \/ dispute.status = outcome /\ Return(w) /\ NoFault
     \/ /\ dispute.status = "open"
        /\ Copy(w, SetStatus(loc[w].p, after), loc[w].hook)
        /\ Goto(w, "resolve")
        /\ NoFault
     \/ dispute.status \notin {outcome, "open"} /\ Leave(w) /\ NoFault
     \/ Leave(w) /\ Fault
  /\ UNCHANGED <<stored, xfer, pssp, ops>>

OutcomeOf(p) == IF p.status = "charged_back" THEN "lost" ELSE "won"

\* Won: VoidPending of the dispute hold.  Lost: PostPendingAs under the
\* chargeback's deterministic id, which replays after a crash.
ResolveLedger(w) ==
  LET lost == OutcomeOf(loc[w].p) = "lost"
      done == [xfer EXCEPT !.dispute = IF lost THEN "posted" ELSE "voided"]
      accepted == xfer.dispute = "pending" \/ (lost /\ xfer.dispute = "posted")
  IN
  /\ pc[w] = "resolve"
  /\ \/ accepted /\ xfer' = done /\ Goto(w, "putResolved") /\ UNCHANGED loc /\ NoFault
     \/ ~accepted /\ UNCHANGED xfer /\ Leave(w) /\ NoFault
     \/ xfer' \in {xfer, IF accepted THEN done ELSE xfer} /\ Leave(w) /\ Fault
  /\ UNCHANGED <<stored, pssp, ops>>

PutResolved(w) ==
  LET resolved == [dispute EXCEPT !.status = OutcomeOf(loc[w].p)] IN
  /\ pc[w] = "putResolved"
  /\ \/ /\ dispute' = resolved
        /\ Goto(w, "putOutcome")
        /\ NoFault
        /\ UNCHANGED loc
     \/ dispute' \in {dispute, resolved} /\ Leave(w) /\ Fault
  /\ UNCHANGED <<payment, certificate, failedRefunds, seen, xfer, pssp, ops>>

PutOutcome(w) ==
  /\ pc[w] = "putOutcome"
  /\ \/ Put(loc[w].p) /\ Return(w)
     \/ PutFails(loc[w].p) /\ Leave(w)
  /\ UNCHANGED <<storedButPayment, xfer, pssp, ops>>

-----------------------------------------------------------------------------
(* RecoverySweeper.SweepOnce: lists the payments, then works on the copy.  *)

\* Mutant: the sweep does not know the indeterminate captures.
SweepTarget_NoInFlight(p) ==
  CASE p.status = "captured" -> {"settle"}
    [] p.status = "captured_awaiting_post" -> {IF p.post THEN "post" ELSE "reverse"}
    [] p.status \in {"intent", "pending_authorisation"} -> {"expire"}
    [] p.status \in {"failed", "compensated"} -> {"release"}
    [] OTHER -> {}

\* Mutant: failed payments are left alone.
SweepTarget_NoFailed(p) ==
  CASE p.status = "captured" -> {"settle"}
    [] p.status = "captured_awaiting_post" -> {IF p.post THEN "post" ELSE "reverse"}
    [] p.status \in {"intent", "pending_authorisation"} -> {"expire"}
    [] p.status = "capture_in_flight" -> {"recover"}
    [] p.status = "compensated" -> {"release"}
    [] OTHER -> {}

SweepTarget(p) ==
  CASE p.status = "captured" -> {"settle"}
    [] p.status = "captured_awaiting_post" -> {IF p.post THEN "post" ELSE "reverse"}
    [] p.status \in {"intent", "pending_authorisation"} -> {"expire"}
    [] p.status = "capture_in_flight" -> {"recover"}
    [] p.status \in {"failed", "compensated"} -> {"release"}
    [] OTHER -> {}

\* An intent is expired when it is older than intentTTL; its age is not
\* modelled, so an expiry may start whenever the status allows it.
SweepBegin ==
  /\ pc[Sweeper] = "idle"
  /\ \E to \in SweepTarget(payment) : Goto(Sweeper, to)
  /\ payment.status \in {"failed", "compensated"} =>
       xfer.intent = "pending" \/ (payment.status = "compensated" /\ failedRefunds > 0)
  /\ Copy(Sweeper, payment, NoHook)
  /\ UNCHANGED <<stored, xfer, pssp, ops, faults>>

\* settleCaptured: settled is asserted after the post is found on the ledger.
SettleLookup ==
  /\ pc[Sweeper] = "settle"
  /\ \/ /\ IF loc[Sweeper].p.post /\ xfer.intent = "posted"
           THEN Goto(Sweeper, "putSettled") /\ UNCHANGED loc
           ELSE Leave(Sweeper)
        /\ NoFault
     \/ Leave(Sweeper) /\ Fault
  /\ UNCHANGED <<stored, xfer, pssp, ops>>

PutSettled ==
  /\ pc[Sweeper] = "putSettled"
  /\ TryPut(SetStatus(loc[Sweeper].p, "settled"))
  /\ Leave(Sweeper)
  /\ UNCHANGED <<storedButPayment, xfer, pssp, ops>>

\* resolveCaptureInFlight: re-verify an indeterminate capture.
RecoverVerify ==
  LET p == loc[Sweeper].p
      settled == p.ref \in Refs /\ pssp[p.ref] = "settled"
  IN
  /\ pc[Sweeper] = "recover"
  /\ \/ settled /\ Goto(Sweeper, "putRecovered") /\ UNCHANGED loc /\ NoFault
     \/ ~settled /\ Goto(Sweeper, "failVoid") /\ UNCHANGED loc /\ NoFault
     \/ Leave(Sweeper) /\ Fault
  /\ UNCHANGED <<stored, xfer, pssp, ops>>

PutRecovered ==
  LET p == Awaiting(loc[Sweeper].p) IN
  /\ pc[Sweeper] = "putRecovered"
  /\ \/ Put(p) /\ Copy(Sweeper, p, NoHook) /\ Goto(Sweeper, "post")
     \/ PutFails(p) /\ Leave(Sweeper)
  /\ UNCHANGED <<storedButPayment, xfer, pssp, ops>>

\* expireIntent: release the hold of an abandoned intent.  A failed void
\* leaves the payment for the next sweep; a failed LOOKUP skips the void, and
\* the intent is marked expired all the same.
ExpireVoid ==
  LET voided == [xfer EXCEPT !.intent = IF @ = "pending" THEN "voided" ELSE @] IN
  /\ pc[Sweeper] = "expire"
  /\ \/ /\ xfer' = voided
        /\ Goto(Sweeper, "putExpired") /\ UNCHANGED loc /\ NoFault
     \/ xfer.intent = "pending" /\ xfer' \in {xfer, voided} /\ Leave(Sweeper) /\ Fault
     \/ /\ xfer.intent = "pending" /\ UNCHANGED xfer
        /\ Goto(Sweeper, "putExpired") /\ UNCHANGED loc /\ Fault
  /\ UNCHANGED <<stored, pssp, ops>>

PutExpired ==
  /\ pc[Sweeper] = "putExpired"
  /\ TryPut(SetStatus(loc[Sweeper].p, "expired"))
  /\ Leave(Sweeper)
  /\ UNCHANGED <<storedButPayment, xfer, pssp, ops>>

\* Mutant: a compensated payment's refund is not retried.
AfterRelease_NoRetry == Leave(Sweeper)

\* voidFailedHold, then for a compensated payment retryFailedRefund.
AfterRelease ==
  IF loc[Sweeper].p.status = "compensated"
  THEN Goto(Sweeper, "retryList") /\ UNCHANGED loc
  ELSE Leave(Sweeper)

ReleaseFailedHold ==
  LET voided == [xfer EXCEPT !.intent = "voided"] IN
  /\ pc[Sweeper] = "release"
  /\ \/ /\ xfer.intent = "pending"
        /\ xfer' = voided
        /\ Goto(Sweeper, "putReleased") /\ UNCHANGED loc /\ NoFault
     \/ xfer.intent # "pending" /\ UNCHANGED xfer /\ AfterRelease /\ NoFault
     \/ xfer.intent = "pending" /\ xfer' \in {xfer, voided} /\ AfterRelease /\ Fault
  /\ UNCHANGED <<stored, pssp, ops>>

PutReleased ==
  /\ pc[Sweeper] = "putReleased"
  /\ TryPut(loc[Sweeper].p)
  /\ AfterRelease
  /\ UNCHANGED <<storedButPayment, xfer, pssp, ops>>

\* List("compensations"): n records carry a failed marker.  The loop also
\* repeats a hold void that failed at compensation, the call voidFailedHold
\* has made earlier in the same sweep: it is left to the next sweep.
RetryList ==
  /\ pc[Sweeper] = "retryList"
  /\ IF failedRefunds > 0 /\ loc[Sweeper].p.ref # NoRef
     THEN /\ loc' = [loc EXCEPT ![Sweeper].n = failedRefunds]
          /\ Goto(Sweeper, "retry")
     ELSE Leave(Sweeper)
  /\ UNCHANGED <<stored, xfer, pssp, ops, faults>>

NextRetry ==
  IF loc[Sweeper].n > 1
  THEN Goto(Sweeper, "retry") /\ loc' = [loc EXCEPT ![Sweeper].n = @ - 1]
  ELSE Leave(Sweeper)

RetryRefund ==
  LET r == loc[Sweeper].p.ref IN
  /\ pc[Sweeper] = "retry"
  /\ \/ /\ CanGiveBack(r)
        /\ pssp' = GivenBack(r)
        /\ Goto(Sweeper, "putRetried") /\ UNCHANGED loc /\ NoFault
     \/ ~CanGiveBack(r) /\ UNCHANGED pssp /\ NextRetry /\ NoFault
     \/ pssp' \in {pssp, GivenBack(r)} /\ NextRetry /\ Fault
  /\ UNCHANGED <<stored, xfer, ops>>

PutRetried ==
  /\ pc[Sweeper] = "putRetried"
  /\ \/ failedRefunds' = failedRefunds - 1 /\ NoFault
     \/ UNCHANGED failedRefunds /\ Fault
  /\ NextRetry
  /\ UNCHANGED <<payment, certificate, dispute, seen, xfer, pssp, ops>>

\* The process dies between two steps: every goroutine is lost, the stores
\* and the ledger are not.
Crash ==
  /\ \E w \in Workers : pc[w] # "idle"
  /\ Fault
  /\ pc' = [w \in Workers |-> "idle"]
  /\ loc' = [w \in Workers |-> Blank]
  /\ UNCHANGED <<stored, xfer, pssp, ops>>

-----------------------------------------------------------------------------
Request(w) ==
  \/ BeginAuthorise(w) \/ BeginCapture(w) \/ BeginVoid(w)
  \/ \E r \in Refs :
       \/ WebhookCharge(w, r) \/ WebhookAuthorised(w, r) \/ OpenDispute(w, r)
       \/ \E event \in Events : WebhookVoid(w, event, r)
       \/ \E outcome \in {"won", "lost"} : ResolveDispute(w, outcome, r)

\* The steps a goroutine takes once its operation has started.
Run(w) ==
  \/ AuthoriseCall(w) \/ AuthoriseVoid(w) \/ PutAuthorise(w)
  \/ ChargeCall(w) \/ VerifyCall(w) \/ ParkPut(w) \/ PutAwaiting(w)
  \/ PostCall(w) \/ FeeCall(w) \/ IssueCall(w) \/ PutCaptured(w)
  \/ ReverseCall(w) \/ CompensateVoidHold(w) \/ CompensateRefund(w)
  \/ RecordCompensation(w) \/ PutCompensated(w) \/ FailVoid(w) \/ PutFailed(w)
  \/ VoidCallPSSP(w) \/ VoidCallLedger(w) \/ PutVoided(w)
  \/ WebhookVerify(w) \/ WebhookCapture(w) \/ PutAuthorised(w) \/ MarkProcessed(w)
  \/ OpenDisputeRead(w) \/ DisputeHold(w) \/ PutDispute(w) \/ PutDisputed(w)
  \/ ResolveRead(w) \/ ResolveLedger(w) \/ PutResolved(w) \/ PutOutcome(w)

Sweep ==
  \/ SweepBegin \/ SettleLookup \/ PutSettled \/ RecoverVerify \/ PutRecovered
  \/ ExpireVoid \/ PutExpired \/ ReleaseFailedHold \/ PutReleased
  \/ RetryList \/ RetryRefund \/ PutRetried

Next ==
  \/ \E w \in Handlers : Request(w)
  \/ \E w \in Workers : Run(w)
  \/ Sweep
  \/ Crash

\* Started operations keep running and the sweeper keeps sweeping (the ticker
\* of StartRecovery); nothing obliges a client or the provider to call.
Fairness ==
  /\ \A w \in Workers : WF_vars(Run(w))
  /\ WF_vars(Sweep)

Spec == Init /\ [][Next]_vars
FairSpec == Spec /\ Fairness

-----------------------------------------------------------------------------
(* Properties.                                                             *)

Posted == xfer.intent = "posted"
Reversed == xfer.compensation = "posted"

\* No certificate without the payer's money: a tax certificate exists only
\* if the levy was posted on the ledger, whichever of Capture, the webhook
\* and the sweeper issued it and whatever failed or raced on the way.
CertificateBacked == certificate => Posted

\* compensateCapture never turns a failed post into free money for the payer:
\* a reversal exists only for a post that landed.
ReversalBacked == Reversed => Posted

\* captured and settled are never asserted without ledger proof and
\* certificate, also when a dispute is won and the prior status restored.
CapturedHasProof ==
  payment.status \in {"captured", "settled"} => Posted /\ certificate

\* A payment reported voided holds no funds of the payer, and one reported
\* charged_back has its chargeback debit on the ledger, whatever overwrote the
\* record in between (Void, ResolveDispute).
TerminalStatusTrue ==
  /\ payment.status = "voided" => xfer.intent # "pending"
  /\ payment.status = "charged_back" => xfer.dispute = "posted"
=============================================================================

--------------------------- MODULE MCCaptureSaga ---------------------------
(***************************************************************************)
(* CaptureSaga for TLC, with the counting and the liveness properties.     *)
(***************************************************************************)
EXTENDS SagaLedger, FiniteSets, TLC

MCSymmetry == Permutations(Handlers)

-----------------------------------------------------------------------------
(* Money at the provider and money on the ledger.                          *)

Quiet == \A w \in Workers : pc[w] = "idle"

SettledRefs == {r \in Refs : pssp[r] = "settled"}

\* With one handler at a time beside the sweeper, and no failed call, the
\* provider keeps the levy exactly when the ledger has it: whoever loses a
\* race for the hold refunds what it captured.
MoneyAgreement ==
  (Quiet /\ faults = 0) =>
    Cardinality(SettledRefs) = (IF Posted /\ ~Reversed THEN 1 ELSE 0)

InFlight == payment.status \in {"captured_awaiting_post", "capture_in_flight"}

\* The recovery worker closes the crash windows of the capture saga: no
\* payment stays between the provider's capture and the ledger post.
SagaResolves == InFlight ~> ~InFlight

StrandedHold ==
  payment.status \in {"failed", "compensated"} /\ xfer.intent = "pending"

\* A failed or compensated payment does not lock the payer's funds forever,
\* even when the void at failure time did not succeed.
HoldReleased == StrandedHold ~> ~StrandedHold

OwedRefund ==
  /\ payment.status = "compensated"
  /\ failedRefunds > 0
  /\ payment.ref # NoRef
  /\ pssp[payment.ref] = "settled"

\* A refund that failed at compensation time and left its marker is retried
\* until the provider has given the money back.
RefundLands == OwedRefund ~> ~OwedRefund

-----------------------------------------------------------------------------
(* What comments of the code promise and the code does not keep.           *)

\* HandleWebhook: "a late/duplicate authorisation must never downgrade a
\* captured/settled payment back to authorised".  The guard tests the record
\* it read; a Capture that ends between that read and the Put is undone.
NeverDowngraded ==
  [][payment.status \in {"captured", "settled"} => payment'.status # "authorised"]_vars

\* README: the "PSSP capture saga is now atomic", and settleCaptured: "settled
\* is never asserted without ledger proof".  The levy of a settled payment is
\* on the ledger and was not reversed; compensateCapture writes its status
\* last, so a sweep during or after an interrupted compensation resumes it.
SettledKeepsLevy == payment.status = "settled" => Posted /\ ~Reversed

AbandonedHold == payment.status = "expired" /\ xfer.intent = "pending"

\* recovery.go: "void the pending hold so abandoned intents do not hold funds
\* forever".  expireIntent skips the void when LookupTransfer fails and marks
\* the intent expired, a status no sweep looks at again.
AbandonedHoldReleased == AbandonedHold ~> ~AbandonedHold
=============================================================================

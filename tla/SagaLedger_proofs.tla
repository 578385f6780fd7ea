-------------------------- MODULE SagaLedger_proofs --------------------------
(***************************************************************************)
(* The capture saga implements the core ledger, for any levy and fee, any  *)
(* number of workers and any bounds: every step either leaves the          *)
(* payment's transfers alone or is one operation of module Ledger under    *)
(* the refinement mapping of SagaLedger.  The proof has two halves: what a *)
(* step can do to xfer (XferStep), and what each of these changes is on    *)
(* the books.                                                              *)
(***************************************************************************)
EXTENDS SagaLedger, CaptureSaga_proofs

Xfers == [intent : Holds, fee : {"absent", "posted"},
          compensation : {"absent", "posted"}, dispute : Holds]

\* What a step of the saga does to the payment's transfers.
XferStep ==
  \/ UNCHANGED xfer
  \/ xfer.intent = "pending" /\ xfer' = [xfer EXCEPT !.intent = "posted"]
  \/ xfer.intent = "pending" /\ xfer' = [xfer EXCEPT !.intent = "voided"]
  \/ xfer.fee = "absent" /\ xfer' = [xfer EXCEPT !.fee = "posted"]
  \/ xfer.compensation = "absent" /\ xfer' = [xfer EXCEPT !.compensation = "posted"]
  \/ xfer.dispute = "absent" /\ xfer' = [xfer EXCEPT !.dispute = "pending"]
  \/ xfer.dispute = "pending" /\ xfer' = [xfer EXCEPT !.dispute = "posted"]
  \/ xfer.dispute = "pending" /\ xfer' = [xfer EXCEPT !.dispute = "voided"]

\* Writing a transfer state that is already there changes nothing.
LEMMA XferSame ==
  ASSUME xfer \in Xfers
  PROVE  /\ [xfer EXCEPT !.intent = xfer.intent] = xfer
         /\ xfer.intent = "posted" => [xfer EXCEPT !.intent = "posted"] = xfer
         /\ xfer.fee = "posted" => [xfer EXCEPT !.fee = "posted"] = xfer
         /\ xfer.compensation = "posted" => [xfer EXCEPT !.compensation = "posted"] = xfer
         /\ xfer.dispute = "pending" => [xfer EXCEPT !.dispute = "pending"] = xfer
         /\ xfer.dispute = "posted" => [xfer EXCEPT !.dispute = "posted"] = xfer
BY DEF Xfers

\* Every step changes at most one transfer, and only forward.
LEMMA StepXfer ==
  ASSUME xfer \in Xfers, [Next]_vars
  PROVE  XferStep
<1>f. /\ xfer.fee \in {"absent", "posted"}
      /\ xfer.compensation \in {"absent", "posted"}
      /\ xfer.intent \in Holds /\ xfer.dispute \in Holds
  BY DEF Xfers
<1>v. ASSUME xfer' = [xfer EXCEPT !.intent = IF @ = "pending" THEN "voided" ELSE @]
      PROVE  XferStep
  <2>1. CASE xfer.intent = "pending"
    BY <1>v, <2>1 DEF XferStep
  <2>2. CASE xfer.intent # "pending"
    BY <1>v, <2>2, XferSame DEF XferStep
  <2>. QED BY <2>1, <2>2
<1>r. ASSUME ReleaseHold PROVE XferStep
  <2>1. xfer' = [xfer EXCEPT !.intent = IF @ = "pending" THEN "voided" ELSE @] \/ UNCHANGED xfer
    BY <1>r DEF ReleaseHold
  <2>. QED BY <1>v, <2>1 DEF XferStep
<1>1. ASSUME NEW w \in Workers, AuthoriseVoid(w) PROVE XferStep
  <2>1. xfer' = [xfer EXCEPT !.intent = IF @ = "pending" THEN "voided" ELSE @] \/ UNCHANGED xfer
    BY <1>1 DEF AuthoriseVoid
  <2>. QED BY <1>v, <2>1 DEF XferStep
<1>2. ASSUME NEW w \in Workers, PostCall(w) PROVE XferStep
  BY <1>2, XferSame DEF PostCall, XferStep
<1>3. ASSUME NEW w \in Workers, FeeCall(w) PROVE XferStep
  BY <1>3, <1>f, XferSame DEF FeeCall, XferStep
<1>4. ASSUME NEW w \in Workers, ReverseCall(w) PROVE XferStep
  BY <1>4, <1>f, XferSame DEF ReverseCall, XferStep
<1>5. ASSUME NEW w \in Workers, CompensateVoidHold(w) \/ FailVoid(w) PROVE XferStep
  BY <1>r, <1>5 DEF CompensateVoidHold, FailVoid
<1>6. ASSUME NEW w \in Workers, VoidCallLedger(w) PROVE XferStep
  BY <1>6 DEF VoidCallLedger, XferStep
<1>7. ASSUME NEW w \in Workers, DisputeHold(w) PROVE XferStep
  BY <1>7, XferSame DEF DisputeHold, XferStep
<1>8. ASSUME NEW w \in Workers, ResolveLedger(w) PROVE XferStep
  BY <1>8, XferSame DEF ResolveLedger, XferStep
<1>9. ASSUME ExpireVoid PROVE XferStep
  <2>1. xfer' = [xfer EXCEPT !.intent = IF @ = "pending" THEN "voided" ELSE @] \/ UNCHANGED xfer
    BY <1>9 DEF ExpireVoid
  <2>. QED BY <1>v, <2>1 DEF XferStep
<1>10. ASSUME ReleaseFailedHold PROVE XferStep
  BY <1>10 DEF ReleaseFailedHold, XferStep
<1>11. ASSUME NEW w \in Workers, Run(w) PROVE XferStep
  <2>1. \/ AuthoriseVoid(w) \/ PostCall(w) \/ FeeCall(w) \/ ReverseCall(w)
        \/ CompensateVoidHold(w) \/ FailVoid(w) \/ VoidCallLedger(w)
        \/ DisputeHold(w) \/ ResolveLedger(w) \/ UNCHANGED xfer
    BY <1>11 DEF Run, AuthoriseCall, PutAuthorise, ChargeCall, VerifyCall, ParkPut, PutAwaiting,
         IssueCall, PutCaptured, CompensateRefund, RecordCompensation, PutCompensated, PutFailed,
         VoidCallPSSP, PutVoided, WebhookVerify, WebhookCapture, CaptureEntry, PutAuthorised,
         MarkProcessed, OpenDisputeRead, PutDispute, PutDisputed, ResolveRead, PutResolved, PutOutcome
  <2>. QED BY <1>1, <1>2, <1>3, <1>4, <1>5, <1>6, <1>7, <1>8, <2>1 DEF XferStep
<1>12. ASSUME NEW w \in Handlers, Request(w) PROVE XferStep
  BY <1>12 DEF Request, XferStep, BeginAuthorise, BeginCapture, CaptureEntry, BeginVoid, VoidEntry,
       WebhookCharge, WebhookAuthorised, OpenDispute, WebhookVoid, ResolveDispute, Park
<1>13. ASSUME Sweep PROVE XferStep
  <2>1. ExpireVoid \/ ReleaseFailedHold \/ UNCHANGED xfer
    BY <1>13 DEF Sweep, SweepBegin, SettleLookup, PutSettled, RecoverVerify, PutRecovered, PutExpired,
         PutReleased, RetryList, RetryRefund, PutRetried
  <2>. QED BY <1>9, <1>10, <2>1 DEF XferStep
<1>14. CASE UNCHANGED vars
  BY <1>14 DEF vars, XferStep
<1>15. CASE Crash
  BY <1>15 DEF Crash, XferStep
<1>. QED BY <1>11, <1>12, <1>13, <1>14, <1>15 DEF Next

-----------------------------------------------------------------------------
(* The transfers on the books.                                             *)

BookLegs == {"direct", "hold", "post", "void"}

\* The two transfers of the payment that begin as holds.
HoldSeeds == {"intent", "dispute"}
HoldOf(x, seed) == IF seed = "intent" THEN x.intent ELSE x.dispute
DebitOf(seed) == IF seed = "intent" THEN "payer" ELSE "collections"
CreditOf(seed) == IF seed = "intent" THEN "collections" ELSE "chargebacks"

DirectRecord(seed, state) ==
  IF state = "posted"
  THEN IF seed = "fee" THEN Entry("collections", "fees", FeeKobo, FALSE)
                       ELSE Entry("collections", "payer", AmountKobo, FALSE)
  ELSE NoRecord
DirectOf(x, seed) == IF seed = "fee" THEN x.fee ELSE x.compensation

HoldRecord(d, c, state, leg) ==
  CASE leg = "hold" /\ state = "pending" -> Entry(d, c, AmountKobo, TRUE)
    [] leg = "hold" /\ state \in {"posted", "voided"} -> Entry(d, c, AmountKobo, FALSE)
    [] leg = "post" /\ state = "posted" -> Entry(d, c, AmountKobo, FALSE)
    [] leg = "void" /\ state = "voided" -> Entry(d, c, AmountKobo, FALSE)
    [] OTHER -> NoRecord

\* One record of the books, from the states of the payment's transfers.
RecordOf(x, seed, leg) ==
  IF seed \in HoldSeeds
  THEN HoldRecord(DebitOf(seed), CreditOf(seed), HoldOf(x, seed), leg)
  ELSE IF leg = "direct" THEN DirectRecord(seed, DirectOf(x, seed)) ELSE NoRecord

BookTable ==
  xfer \in Xfers =>
    /\ DOMAIN BookTransfers = BookSeeds \X BookLegs
    /\ BookTransfers = [id \in BookSeeds \X BookLegs |-> BookTransfers[id]]
    /\ \A seed \in BookSeeds, leg \in BookLegs :
         BookTransfers[<<seed, leg>>] = RecordOf(xfer, seed, leg)

LEMMA HoldEntriesTable ==
  ASSUME NEW state \in Holds, NEW d, NEW c, NEW leg \in BookLegs
  PROVE  HoldEntries(state, d, c, leg) = HoldRecord(d, c, state, leg)
<1>1. CASE leg = "hold"
  <2>1. CASE state = "pending"
    <3>1. (state = "pending") = TRUE
      BY <2>1
    <3>2. HoldEntries(state, d, c, leg) = Entry(d, c, AmountKobo, TRUE)
      BY <1>1, <2>1, <3>1 DEF HoldEntries, Entry
    <3>. QED BY <1>1, <2>1, <3>2 DEF HoldRecord
  <2>2. CASE state # "pending"
    <3>1. (state = "pending") = FALSE
      BY <2>2
    <3>2. CASE state = "absent"
      BY <1>1, <3>2 DEF HoldEntries, HoldRecord
    <3>3. CASE state # "absent"
      <4>1. HoldEntries(state, d, c, leg) = Entry(d, c, AmountKobo, FALSE)
        BY <1>1, <3>1, <3>3 DEF HoldEntries, Entry
      <4>. QED BY <1>1, <2>2, <3>3, <4>1 DEF HoldRecord, Holds
    <3>. QED BY <3>2, <3>3
  <2>. QED BY <2>1, <2>2
<1>2. CASE leg = "post"
  BY <1>2 DEF HoldEntries, HoldRecord
<1>3. CASE leg = "void"
  BY <1>3 DEF HoldEntries, HoldRecord
<1>4. CASE leg = "direct"
  BY <1>4 DEF HoldEntries, HoldRecord
<1>. QED BY <1>1, <1>2, <1>3, <1>4 DEF BookLegs

LEMMA BookTableHolds == BookTable
<1> SUFFICES ASSUME xfer \in Xfers
             PROVE  /\ DOMAIN BookTransfers = BookSeeds \X BookLegs
                    /\ BookTransfers = [id \in BookSeeds \X BookLegs |-> BookTransfers[id]]
                    /\ \A seed \in BookSeeds, leg \in BookLegs :
                         BookTransfers[<<seed, leg>>] = RecordOf(xfer, seed, leg)
  BY DEF BookTable
<1>1. DOMAIN BookTransfers = BookSeeds \X BookLegs
      /\ BookTransfers = [id \in BookSeeds \X BookLegs |-> BookTransfers[id]]
  <2>1. BookTransfers = [id \in BookSeeds \X BookLegs |-> BookEntry(id)]
    BY Zenon DEF BookTransfers, BookLegs
  <2>. QED BY <2>1
<1>2. ASSUME NEW seed \in BookSeeds, NEW leg \in BookLegs
      PROVE  BookTransfers[<<seed, leg>>] = RecordOf(xfer, seed, leg)
  <2>0. /\ <<seed, leg>>[1] = seed /\ <<seed, leg>>[2] = leg
        /\ BookTransfers[<<seed, leg>>] = BookEntry(<<seed, leg>>)
    BY DEF BookLegs, BookTransfers
  <2>1. CASE seed = "intent"
    <3>1. BookTransfers[<<seed, leg>>] = HoldEntries(xfer.intent, "payer", "collections", leg)
      BY <2>0, <2>1 DEF BookEntry
    <3>2. xfer.intent \in Holds
      BY DEF Xfers
    <3>. QED BY <2>1, <3>1, <3>2, HoldEntriesTable DEF RecordOf, HoldSeeds, HoldOf, DebitOf, CreditOf
  <2>2. CASE seed = "dispute"
    <3>1. BookTransfers[<<seed, leg>>] = HoldEntries(xfer.dispute, "collections", "chargebacks", leg)
      BY <2>0, <2>2 DEF BookEntry
    <3>2. xfer.dispute \in Holds
      BY DEF Xfers
    <3>. QED BY <2>2, <3>1, <3>2, HoldEntriesTable DEF RecordOf, HoldSeeds, HoldOf, DebitOf, CreditOf
  <2>3. CASE seed = "fee"
    <3>1. <<seed, leg>> = <<"fee", "direct">> <=> leg = "direct"
      BY <2>3
    <3>2. <<seed, leg>> # <<"compensation", "direct">>
      BY <2>3
    <3>3. RecordOf(xfer, seed, leg) =
            IF leg = "direct" /\ xfer.fee = "posted"
            THEN Entry("collections", "fees", FeeKobo, FALSE) ELSE NoRecord
      BY <2>3 DEF RecordOf, HoldSeeds, DirectRecord, DirectOf
    <3>. QED BY <2>0, <2>3, <3>1, <3>2, <3>3 DEF BookEntry
  <2>4. CASE seed = "compensation"
    <3>1. <<seed, leg>> = <<"compensation", "direct">> <=> leg = "direct"
      BY <2>4
    <3>2. <<seed, leg>> # <<"fee", "direct">>
      BY <2>4
    <3>3. RecordOf(xfer, seed, leg) =
            IF leg = "direct" /\ xfer.compensation = "posted"
            THEN Entry("collections", "payer", AmountKobo, FALSE) ELSE NoRecord
      BY <2>4 DEF RecordOf, HoldSeeds, DirectRecord, DirectOf
    <3>. QED BY <2>0, <2>4, <3>1, <3>2, <3>3 DEF BookEntry, Reversed
  <2>. QED BY <2>1, <2>2, <2>3, <2>4 DEF BookSeeds
<1>. QED BY <1>1, <1>2

LEMMA BookTableNext == BookTable'
BY BookTableHolds, PTL

\* The books after a step are known by their records.
LEMMA BooksAre ==
  ASSUME xfer' \in Xfers, NEW F, F = [id \in BookSeeds \X BookLegs |-> F[id]],
         \A s \in BookSeeds, l \in BookLegs : F[<<s, l>>] = RecordOf(xfer', s, l)
  PROVE  BookTransfers' = F
<1>1. PICK G : G = BookTransfers'
  OBVIOUS
<1>2. /\ G = [id \in BookSeeds \X BookLegs |-> G[id]]
      /\ \A s \in BookSeeds, l \in BookLegs : G[<<s, l>>] = RecordOf(xfer', s, l)
  BY <1>1, BookTableNext, Zenon DEF BookTable
<1>3. ASSUME NEW s \in BookSeeds, NEW l \in BookLegs PROVE G[<<s, l>>] = F[<<s, l>>]
  <2>1. G[<<s, l>>] = RecordOf(xfer', s, l)
    BY <1>2, Zenon
  <2>2. F[<<s, l>>] = RecordOf(xfer', s, l)
    OBVIOUS
  <2>. QED BY <2>1, <2>2, Zenon
<1>4. ASSUME NEW id \in BookSeeds \X BookLegs PROVE G[id] = F[id]
  <2>1. PICK s \in BookSeeds, l \in BookLegs : id = <<s, l>>
    OBVIOUS
  <2>. QED BY <1>3, <2>1, Zenon
<1>5. G = F
  <2>1. [id \in BookSeeds \X BookLegs |-> G[id]] = [id \in BookSeeds \X BookLegs |-> F[id]]
    BY <1>4, Zenon
  <2>. QED BY <1>2, <2>1, Zenon
<1>. QED BY <1>1, <1>5

\* PostPendingAs and VoidPending on the books: the hold is closed and the post
\* or the void recorded.
LEMMA ConsumeRecords ==
  ASSUME xfer \in Xfers, xfer' \in Xfers, NEW seed \in HoldSeeds, NEW leg \in {"post", "void"},
         HoldOf(xfer, seed) = "pending",
         HoldOf(xfer', seed) = IF leg = "post" THEN "posted" ELSE "voided",
         \A s \in HoldSeeds : s # seed => HoldOf(xfer', s) = HoldOf(xfer, s),
         xfer'.fee = xfer.fee, xfer'.compensation = xfer.compensation
  PROVE  LET e == Entry(DebitOf(seed), CreditOf(seed), AmountKobo, FALSE) IN
         /\ BookTransfers[<<seed, "hold">>] = Entry(DebitOf(seed), CreditOf(seed), AmountKobo, TRUE)
         /\ BookTransfers' = [BookTransfers EXCEPT ![<<seed, "hold">>] = e, ![<<seed, leg>>] = e]
<1> DEFINE e == Entry(DebitOf(seed), CreditOf(seed), AmountKobo, FALSE)
<1> DEFINE F == [BookTransfers EXCEPT ![<<seed, "hold">>] = e, ![<<seed, leg>>] = e]
<1>0. seed \in BookSeeds /\ leg \in BookLegs /\ "hold" \in BookLegs /\ leg # "hold"
  BY DEF HoldSeeds, BookSeeds, BookLegs
<1>1. /\ DOMAIN BookTransfers = BookSeeds \X BookLegs
      /\ BookTransfers = [id \in BookSeeds \X BookLegs |-> BookTransfers[id]]
      /\ \A s \in BookSeeds, l \in BookLegs : BookTransfers[<<s, l>>] = RecordOf(xfer, s, l)
  BY BookTableHolds DEF BookTable
<1>2. BookTransfers[<<seed, "hold">>] = Entry(DebitOf(seed), CreditOf(seed), AmountKobo, TRUE)
  BY <1>0, <1>1 DEF RecordOf, HoldRecord
<1>3. PICK B : B = BookTransfers
  OBVIOUS
<1> HIDE DEF e
<1>4. F = [B EXCEPT ![<<seed, "hold">>] = e, ![<<seed, leg>>] = e]
  BY <1>3
<1>5. B = [id \in BookSeeds \X BookLegs |-> B[id]]
  BY <1>1, <1>3, Zenon
<1>6. F = [id \in BookSeeds \X BookLegs |-> F[id]]
  <2> HIDE DEF F
  <2>. QED BY <1>4, <1>5
<1>7. ASSUME NEW s \in BookSeeds, NEW l \in BookLegs
      PROVE  F[<<s, l>>] = RecordOf(xfer', s, l)
  <2> HIDE DEF F
  <2>0. B[<<s, l>>] = RecordOf(xfer, s, l) /\ <<s, l>> \in BookSeeds \X BookLegs
    BY <1>1, <1>3, Zenon
  <2>1. CASE s = seed
    <3>1. CASE l \in {"hold", leg}
      <4>1. F[<<s, l>>] = e
        BY <1>0, <1>4, <1>5, <2>1, <3>1
      <4>2. RecordOf(xfer', s, l) = e
        BY <1>0, <2>1, <3>1 DEF RecordOf, HoldRecord, e
      <4>. QED BY <4>1, <4>2
    <3>2. CASE l \notin {"hold", leg}
      <4>1. F[<<s, l>>] = B[<<s, l>>]
        BY <1>0, <1>4, <1>5, <2>0, <3>2
      <4>2. RecordOf(xfer', s, l) = NoRecord /\ RecordOf(xfer, s, l) = NoRecord
        BY <1>0, <2>1, <3>2 DEF RecordOf, HoldRecord, BookLegs
      <4>. QED BY <2>0, <4>1, <4>2
    <3>. QED BY <3>1, <3>2
  <2>2. CASE s # seed
    <3>1. F[<<s, l>>] = B[<<s, l>>]
      BY <1>0, <1>4, <1>5, <2>0, <2>2
    <3>2. RecordOf(xfer', s, l) = RecordOf(xfer, s, l)
      BY <2>2 DEF RecordOf, DirectOf
    <3>. QED BY <2>0, <3>1, <3>2
  <2>. QED BY <2>1, <2>2
<1>8. BookTransfers' = F
  <2> HIDE DEF F
  <2>. QED BY <1>6, <1>7, BooksAre, Zenon
<1>. QED BY <1>2, <1>8 DEF e

\* Transfer and PendingTransfer on the books: a record under an id that had none.
LEMMA NewRecords ==
  ASSUME xfer \in Xfers, xfer' \in Xfers, NEW seed \in BookSeeds, NEW leg \in BookLegs, NEW e,
         RecordOf(xfer, seed, leg) = NoRecord, RecordOf(xfer', seed, leg) = e,
         \A s \in BookSeeds, l \in BookLegs :
           <<s, l>> # <<seed, leg>> => RecordOf(xfer', s, l) = RecordOf(xfer, s, l)
  PROVE  /\ BookTransfers[<<seed, leg>>] = NoRecord
         /\ BookTransfers' = [BookTransfers EXCEPT ![<<seed, leg>>] = e]
<1> DEFINE F == [BookTransfers EXCEPT ![<<seed, leg>>] = e]
<1>1. /\ BookTransfers = [id \in BookSeeds \X BookLegs |-> BookTransfers[id]]
      /\ \A s \in BookSeeds, l \in BookLegs : BookTransfers[<<s, l>>] = RecordOf(xfer, s, l)
  BY BookTableHolds DEF BookTable
<1>2. BookTransfers[<<seed, leg>>] = NoRecord
  BY <1>1
<1>3. PICK B : B = BookTransfers
  OBVIOUS
<1>4. F = [B EXCEPT ![<<seed, leg>>] = e]
  BY <1>3
<1>5. B = [id \in BookSeeds \X BookLegs |-> B[id]]
  BY <1>1, <1>3, Zenon
<1>6. F = [id \in BookSeeds \X BookLegs |-> F[id]]
  <2> HIDE DEF F
  <2>. QED BY <1>4, <1>5
<1>7. ASSUME NEW s \in BookSeeds, NEW l \in BookLegs
      PROVE  F[<<s, l>>] = RecordOf(xfer', s, l)
  <2> HIDE DEF F
  <2>0. B[<<s, l>>] = RecordOf(xfer, s, l) /\ <<s, l>> \in BookSeeds \X BookLegs
    BY <1>1, <1>3, Zenon
  <2>1. CASE <<s, l>> = <<seed, leg>>
    BY <1>4, <1>5, <2>0, <2>1
  <2>2. CASE <<s, l>> # <<seed, leg>>
    BY <1>4, <1>5, <2>0, <2>2
  <2>. QED BY <2>1, <2>2
<1>8. BookTransfers' = F
  <2> HIDE DEF F
  <2>. QED BY <1>6, <1>7, BooksAre, Zenon
<1>. QED BY <1>2, <1>8

-----------------------------------------------------------------------------
(* The balances on the books.                                              *)

\* The balances of the books after a step are a move: one equation for each
\* counter of each account.
LEMMA BooksMove ==
  ASSUME NEW d, NEW c, NEW posted, NEW held,
         \A a \in Book :
           /\ BookBalances'[a].debitsPosted
                = BookBalances[a].debitsPosted + (IF a = d THEN posted ELSE 0)
           /\ BookBalances'[a].creditsPosted
                = BookBalances[a].creditsPosted + (IF a = c THEN posted ELSE 0)
           /\ BookBalances'[a].debitsPending
                = BookBalances[a].debitsPending + (IF a = d THEN held ELSE 0)
           /\ BookBalances'[a].creditsPending
                = BookBalances[a].creditsPending + (IF a = c THEN held ELSE 0)
  PROVE  BookBalances' = Core!Moved(d, c, posted, held)
<1>1. PICK G : G = BookBalances'
  OBVIOUS
<1>2. G = [a \in Book |-> [debitsPosted |-> G[a].debitsPosted, creditsPosted |-> G[a].creditsPosted,
                           debitsPending |-> G[a].debitsPending, creditsPending |-> G[a].creditsPending]]
  BY <1>1 DEF BookBalances
<1>3. PICK M : M = Core!Moved(d, c, posted, held)
  OBVIOUS
<1>4. M = [a \in Book |-> [debitsPosted |-> G[a].debitsPosted, creditsPosted |-> G[a].creditsPosted,
                           debitsPending |-> G[a].debitsPending, creditsPending |-> G[a].creditsPending]]
  BY <1>1, <1>3, Zenon DEF Core!Moved
<1>. QED BY <1>1, <1>2, <1>3, <1>4, Zenon

\* The levy's hold, posted.
LEMMA IntentPosted ==
  ASSUME xfer \in Xfers, xfer.intent = "pending", xfer' = [xfer EXCEPT !.intent = "posted"]
  PROVE  /\ xfer' \in Xfers /\ xfer'.intent = "posted"
         /\ xfer'.fee = xfer.fee
         /\ xfer'.compensation = xfer.compensation
         /\ xfer'.dispute = xfer.dispute
         /\ BookBalances' = Core!Moved("payer", "collections", AmountKobo, -AmountKobo)
<1>1. /\ xfer' \in Xfers /\ xfer'.intent = "posted"
      /\ xfer'.fee = xfer.fee
      /\ xfer'.compensation = xfer.compensation
      /\ xfer'.dispute = xfer.dispute
  BY DEF Xfers, Holds
<1>2. \A a \in Book :
           /\ BookBalances'[a].debitsPosted
                = BookBalances[a].debitsPosted + (IF a = "payer" THEN AmountKobo ELSE 0)
           /\ BookBalances'[a].creditsPosted
                = BookBalances[a].creditsPosted + (IF a = "collections" THEN AmountKobo ELSE 0)
           /\ BookBalances'[a].debitsPending
                = BookBalances[a].debitsPending + (IF a = "payer" THEN -AmountKobo ELSE 0)
           /\ BookBalances'[a].creditsPending
                = BookBalances[a].creditsPending + (IF a = "collections" THEN -AmountKobo ELSE 0)
  BY <1>1, LevyAssumption DEF BookBalances, Book, PaidFor, HeldFor, If
<1>3. BookBalances' = Core!Moved("payer", "collections", AmountKobo, -AmountKobo)
  BY <1>2, BooksMove, Zenon
<1>. QED BY <1>1, <1>3

\* The levy's hold, voided.
LEMMA IntentVoided ==
  ASSUME xfer \in Xfers, xfer.intent = "pending", xfer' = [xfer EXCEPT !.intent = "voided"]
  PROVE  /\ xfer' \in Xfers /\ xfer'.intent = "voided"
         /\ xfer'.fee = xfer.fee
         /\ xfer'.compensation = xfer.compensation
         /\ xfer'.dispute = xfer.dispute
         /\ BookBalances' = Core!Moved("payer", "collections", 0, -AmountKobo)
<1>1. /\ xfer' \in Xfers /\ xfer'.intent = "voided"
      /\ xfer'.fee = xfer.fee
      /\ xfer'.compensation = xfer.compensation
      /\ xfer'.dispute = xfer.dispute
  BY DEF Xfers, Holds
<1>2. \A a \in Book :
           /\ BookBalances'[a].debitsPosted
                = BookBalances[a].debitsPosted + (IF a = "payer" THEN 0 ELSE 0)
           /\ BookBalances'[a].creditsPosted
                = BookBalances[a].creditsPosted + (IF a = "collections" THEN 0 ELSE 0)
           /\ BookBalances'[a].debitsPending
                = BookBalances[a].debitsPending + (IF a = "payer" THEN -AmountKobo ELSE 0)
           /\ BookBalances'[a].creditsPending
                = BookBalances[a].creditsPending + (IF a = "collections" THEN -AmountKobo ELSE 0)
  BY <1>1, LevyAssumption DEF BookBalances, Book, PaidFor, HeldFor, If
<1>3. BookBalances' = Core!Moved("payer", "collections", 0, -AmountKobo)
  BY <1>2, BooksMove, Zenon
<1>. QED BY <1>1, <1>3

\* The fee of the provider.
LEMMA FeePosted ==
  ASSUME xfer \in Xfers, xfer.fee = "absent", xfer' = [xfer EXCEPT !.fee = "posted"]
  PROVE  /\ xfer' \in Xfers /\ xfer'.fee = "posted"
         /\ xfer'.intent = xfer.intent
         /\ xfer'.compensation = xfer.compensation
         /\ xfer'.dispute = xfer.dispute
         /\ BookBalances' = Core!Moved("collections", "fees", FeeKobo, 0)
<1>1. /\ xfer' \in Xfers /\ xfer'.fee = "posted"
      /\ xfer'.intent = xfer.intent
      /\ xfer'.compensation = xfer.compensation
      /\ xfer'.dispute = xfer.dispute
  BY DEF Xfers, Holds
<1>2. \A a \in Book :
           /\ BookBalances'[a].debitsPosted
                = BookBalances[a].debitsPosted + (IF a = "collections" THEN FeeKobo ELSE 0)
           /\ BookBalances'[a].creditsPosted
                = BookBalances[a].creditsPosted + (IF a = "fees" THEN FeeKobo ELSE 0)
           /\ BookBalances'[a].debitsPending
                = BookBalances[a].debitsPending + (IF a = "collections" THEN 0 ELSE 0)
           /\ BookBalances'[a].creditsPending
                = BookBalances[a].creditsPending + (IF a = "fees" THEN 0 ELSE 0)
  BY <1>1, LevyAssumption DEF BookBalances, Book, PaidFor, HeldFor, If
<1>3. BookBalances' = Core!Moved("collections", "fees", FeeKobo, 0)
  BY <1>2, BooksMove, Zenon
<1>. QED BY <1>1, <1>3

\* The reversal of the levy.
LEMMA LevyReversed ==
  ASSUME xfer \in Xfers, xfer.compensation = "absent", xfer' = [xfer EXCEPT !.compensation = "posted"]
  PROVE  /\ xfer' \in Xfers /\ xfer'.compensation = "posted"
         /\ xfer'.intent = xfer.intent
         /\ xfer'.fee = xfer.fee
         /\ xfer'.dispute = xfer.dispute
         /\ BookBalances' = Core!Moved("collections", "payer", AmountKobo, 0)
<1>1. /\ xfer' \in Xfers /\ xfer'.compensation = "posted"
      /\ xfer'.intent = xfer.intent
      /\ xfer'.fee = xfer.fee
      /\ xfer'.dispute = xfer.dispute
  BY DEF Xfers, Holds
<1>2. \A a \in Book :
           /\ BookBalances'[a].debitsPosted
                = BookBalances[a].debitsPosted + (IF a = "collections" THEN AmountKobo ELSE 0)
           /\ BookBalances'[a].creditsPosted
                = BookBalances[a].creditsPosted + (IF a = "payer" THEN AmountKobo ELSE 0)
           /\ BookBalances'[a].debitsPending
                = BookBalances[a].debitsPending + (IF a = "collections" THEN 0 ELSE 0)
           /\ BookBalances'[a].creditsPending
                = BookBalances[a].creditsPending + (IF a = "payer" THEN 0 ELSE 0)
  BY <1>1, LevyAssumption DEF BookBalances, Book, PaidFor, HeldFor, If
<1>3. BookBalances' = Core!Moved("collections", "payer", AmountKobo, 0)
  BY <1>2, BooksMove, Zenon
<1>. QED BY <1>1, <1>3

\* The hold of a dispute.
LEMMA DisputeHeld ==
  ASSUME xfer \in Xfers, xfer.dispute = "absent", xfer' = [xfer EXCEPT !.dispute = "pending"]
  PROVE  /\ xfer' \in Xfers /\ xfer'.dispute = "pending"
         /\ xfer'.intent = xfer.intent
         /\ xfer'.fee = xfer.fee
         /\ xfer'.compensation = xfer.compensation
         /\ BookBalances' = Core!Moved("collections", "chargebacks", 0, AmountKobo)
<1>1. /\ xfer' \in Xfers /\ xfer'.dispute = "pending"
      /\ xfer'.intent = xfer.intent
      /\ xfer'.fee = xfer.fee
      /\ xfer'.compensation = xfer.compensation
  BY DEF Xfers, Holds
<1>2. \A a \in Book :
           /\ BookBalances'[a].debitsPosted
                = BookBalances[a].debitsPosted + (IF a = "collections" THEN 0 ELSE 0)
           /\ BookBalances'[a].creditsPosted
                = BookBalances[a].creditsPosted + (IF a = "chargebacks" THEN 0 ELSE 0)
           /\ BookBalances'[a].debitsPending
                = BookBalances[a].debitsPending + (IF a = "collections" THEN AmountKobo ELSE 0)
           /\ BookBalances'[a].creditsPending
                = BookBalances[a].creditsPending + (IF a = "chargebacks" THEN AmountKobo ELSE 0)
  BY <1>1, LevyAssumption DEF BookBalances, Book, PaidFor, HeldFor, If
<1>3. BookBalances' = Core!Moved("collections", "chargebacks", 0, AmountKobo)
  BY <1>2, BooksMove, Zenon
<1>. QED BY <1>1, <1>3

\* The hold of a lost dispute, posted.
LEMMA DisputeLost ==
  ASSUME xfer \in Xfers, xfer.dispute = "pending", xfer' = [xfer EXCEPT !.dispute = "posted"]
  PROVE  /\ xfer' \in Xfers /\ xfer'.dispute = "posted"
         /\ xfer'.intent = xfer.intent
         /\ xfer'.fee = xfer.fee
         /\ xfer'.compensation = xfer.compensation
         /\ BookBalances' = Core!Moved("collections", "chargebacks", AmountKobo, -AmountKobo)
<1>1. /\ xfer' \in Xfers /\ xfer'.dispute = "posted"
      /\ xfer'.intent = xfer.intent
      /\ xfer'.fee = xfer.fee
      /\ xfer'.compensation = xfer.compensation
  BY DEF Xfers, Holds
<1>2. \A a \in Book :
           /\ BookBalances'[a].debitsPosted
                = BookBalances[a].debitsPosted + (IF a = "collections" THEN AmountKobo ELSE 0)
           /\ BookBalances'[a].creditsPosted
                = BookBalances[a].creditsPosted + (IF a = "chargebacks" THEN AmountKobo ELSE 0)
           /\ BookBalances'[a].debitsPending
                = BookBalances[a].debitsPending + (IF a = "collections" THEN -AmountKobo ELSE 0)
           /\ BookBalances'[a].creditsPending
                = BookBalances[a].creditsPending + (IF a = "chargebacks" THEN -AmountKobo ELSE 0)
  BY <1>1, LevyAssumption DEF BookBalances, Book, PaidFor, HeldFor, If
<1>3. BookBalances' = Core!Moved("collections", "chargebacks", AmountKobo, -AmountKobo)
  BY <1>2, BooksMove, Zenon
<1>. QED BY <1>1, <1>3

\* The hold of a won dispute, voided.
LEMMA DisputeWon ==
  ASSUME xfer \in Xfers, xfer.dispute = "pending", xfer' = [xfer EXCEPT !.dispute = "voided"]
  PROVE  /\ xfer' \in Xfers /\ xfer'.dispute = "voided"
         /\ xfer'.intent = xfer.intent
         /\ xfer'.fee = xfer.fee
         /\ xfer'.compensation = xfer.compensation
         /\ BookBalances' = Core!Moved("collections", "chargebacks", 0, -AmountKobo)
<1>1. /\ xfer' \in Xfers /\ xfer'.dispute = "voided"
      /\ xfer'.intent = xfer.intent
      /\ xfer'.fee = xfer.fee
      /\ xfer'.compensation = xfer.compensation
  BY DEF Xfers, Holds
<1>2. \A a \in Book :
           /\ BookBalances'[a].debitsPosted
                = BookBalances[a].debitsPosted + (IF a = "collections" THEN 0 ELSE 0)
           /\ BookBalances'[a].creditsPosted
                = BookBalances[a].creditsPosted + (IF a = "chargebacks" THEN 0 ELSE 0)
           /\ BookBalances'[a].debitsPending
                = BookBalances[a].debitsPending + (IF a = "collections" THEN -AmountKobo ELSE 0)
           /\ BookBalances'[a].creditsPending
                = BookBalances[a].creditsPending + (IF a = "chargebacks" THEN -AmountKobo ELSE 0)
  BY <1>1, LevyAssumption DEF BookBalances, Book, PaidFor, HeldFor, If
<1>3. BookBalances' = Core!Moved("collections", "chargebacks", 0, -AmountKobo)
  BY <1>2, BooksMove, Zenon
<1>. QED BY <1>1, <1>3

-----------------------------------------------------------------------------
(* Every change is an operation of the core ledger.                        *)

LEMMA EntryFields ==
  ASSUME NEW d, NEW c, NEW amt, NEW pend, NEW e, e = Entry(d, c, amt, pend)
  PROVE  e # NoRecord /\ e.debit = d /\ e.credit = c /\ e.amount = amt /\ e.pending = pend
<1>1. DOMAIN e = {"debit", "credit", "amount", "pending"} /\ DOMAIN NoRecord = {"none"}
  BY DEF Entry, NoRecord
<1>2. e.debit = d /\ e.credit = c /\ e.amount = amt /\ e.pending = pend
  BY DEF Entry
<1>3. e # NoRecord
  BY <1>1
<1>. QED BY <1>2, <1>3

LEMMA CoreFacts ==
  /\ Core!NoTransfer = NoRecord
  /\ \A d, c, amt, pend : Core!Record(d, c, amt, pend) = Entry(d, c, amt, pend)
  /\ \A d, c, amt : Core!MayPost(d, c, amt) /\ Core!MayHold(d, c, amt)
  /\ \A d, c \in Book : \A amt : amt # 0 => Core!Pair(d, c, amt)
<1>1. Core!NoTransfer = NoRecord
  BY DEF Core!NoTransfer, NoRecord
<1>2. \A d, c, amt, pend : Core!Record(d, c, amt, pend) = Entry(d, c, amt, pend)
  BY Zenon DEF Core!Record, Entry
<1>3. \A d, c, amt : Core!MayPost(d, c, amt) /\ Core!MayHold(d, c, amt)
  BY DEF Core!MayPost, Core!MayHold, Core!CheckFlags
<1>4. \A d, c \in Book : \A amt : amt # 0 => Core!Pair(d, c, amt)
  BY DEF Core!Pair
<1>. QED BY <1>1, <1>2, <1>3, <1>4

\* A hold on the books that is posted in full, or voided.
LEMMA HoldConsumed ==
  ASSUME NEW seed \in BookSeeds, NEW d \in Book, NEW c \in Book, NEW leg \in {"post", "void"},
         NEW posted, posted = IF leg = "post" THEN AmountKobo ELSE 0,
         BookTransfers[<<seed, "hold">>] = Entry(d, c, AmountKobo, TRUE),
         BookTransfers' = [BookTransfers EXCEPT ![<<seed, "hold">>] = Entry(d, c, AmountKobo, FALSE),
                                                ![<<seed, leg>>] = Entry(d, c, AmountKobo, FALSE)],
         BookBalances' = Core!Moved(d, c, posted, -AmountKobo)
  PROVE  Core!IsPending(<<seed, "hold">>) /\ Core!Consume(seed, leg, posted)
<1>1. PICK pt, pend : pt = BookTransfers[<<seed, "hold">>] /\ pend = TRUE
  OBVIOUS
<1>0. pt = Entry(d, c, AmountKobo, pend)
  BY <1>1
<1>2. /\ pt # NoRecord /\ pt.debit = d /\ pt.credit = c
      /\ pt.amount = AmountKobo /\ pt.pending = TRUE
  <2>1. pt # NoRecord /\ pt.debit = d /\ pt.credit = c /\ pt.amount = AmountKobo /\ pt.pending = pend
    BY <1>0, EntryFields
  <2>. QED BY <1>1, <2>1
<1>3. Core!IsPending(<<seed, "hold">>)
  BY <1>1, <1>2, CoreFacts DEF Core!IsPending, Core!Exists
<1>4. PICK left : left = IF leg = "post" /\ posted < pt.amount THEN 0 ELSE pt.amount
  OBVIOUS
<1>5. left = AmountKobo /\ (IF leg = "post" THEN posted ELSE pt.amount) = AmountKobo
  BY <1>2, <1>4, LevyAssumption
<1>6. BookBalances' = Core!Moved(pt.debit, pt.credit, posted, -pt.amount)
  BY <1>2
<1>7. BookTransfers' = [BookTransfers EXCEPT
        ![<<seed, "hold">>] = Core!Record(pt.debit, pt.credit, left, FALSE),
        ![<<seed, leg>>] =
          Core!Record(pt.debit, pt.credit, IF leg = "post" THEN posted ELSE pt.amount, FALSE)]
  BY <1>2, <1>5, CoreFacts
<1>8. Core!Consume(seed, leg, posted)
  BY <1>1, <1>4, <1>6, <1>7, Zenon DEF Core!Consume
<1>. QED BY <1>3, <1>8

LEMMA HoldPostedFull ==
  ASSUME NEW seed \in BookSeeds, NEW d \in Book, NEW c \in Book,
         BookTransfers[<<seed, "hold">>] = Entry(d, c, AmountKobo, TRUE),
         BookTransfers' = [BookTransfers EXCEPT ![<<seed, "hold">>] = Entry(d, c, AmountKobo, FALSE),
                                                ![<<seed, "post">>] = Entry(d, c, AmountKobo, FALSE)],
         BookBalances' = Core!Moved(d, c, AmountKobo, -AmountKobo)
  PROVE  Core!PostPendingAs(seed, 0)
<1>1. PICK leg \in {"post", "void"} : leg = "post"
  OBVIOUS
<1>2. PICK posted : posted = AmountKobo
  OBVIOUS
<1>3. Core!IsPending(<<seed, "hold">>) /\ Core!Consume(seed, leg, posted)
  BY <1>1, <1>2, HoldConsumed
<1>4. PICK pt, pend : pt = BookTransfers[<<seed, "hold">>] /\ pend = TRUE
  OBVIOUS
<1>5. pt = Entry(d, c, AmountKobo, pend)
  BY <1>4
<1>6. pt.amount = AmountKobo
  BY <1>5, EntryFields
<1>7. (IF 0 = 0 THEN pt.amount ELSE 0) = AmountKobo /\ AmountKobo <= pt.amount
  BY <1>6, LevyAssumption
<1>8. Core!MayPost(pt.debit, pt.credit, AmountKobo)
  BY CoreFacts, Zenon
<1>. QED BY <1>1, <1>2, <1>3, <1>4, <1>7, <1>8, Zenon DEF Core!PostPendingAs

LEMMA HoldVoided ==
  ASSUME NEW seed \in BookSeeds, NEW d \in Book, NEW c \in Book,
         BookTransfers[<<seed, "hold">>] = Entry(d, c, AmountKobo, TRUE),
         BookTransfers' = [BookTransfers EXCEPT ![<<seed, "hold">>] = Entry(d, c, AmountKobo, FALSE),
                                                ![<<seed, "void">>] = Entry(d, c, AmountKobo, FALSE)],
         BookBalances' = Core!Moved(d, c, 0, -AmountKobo)
  PROVE  Core!VoidPending(seed)
<1>1. PICK leg \in {"post", "void"} : leg = "void"
  OBVIOUS
<1>2. PICK posted : posted = 0
  OBVIOUS
<1>3. Core!IsPending(<<seed, "hold">>) /\ Core!Consume(seed, leg, posted)
  BY <1>1, <1>2, HoldConsumed
<1>. QED BY <1>1, <1>2, <1>3 DEF Core!VoidPending

\* PostCall is PostPendingAs of the levy's hold.
LEMMA IntentPostIsCall ==
  ASSUME xfer \in Xfers, xfer.intent = "pending", xfer' = [xfer EXCEPT !.intent = "posted"]
  PROVE  Core!PostPendingAs("intent", 0)
<1>1. /\ xfer' \in Xfers /\ xfer'.intent = "posted"
      /\ xfer'.fee = xfer.fee /\ xfer'.compensation = xfer.compensation /\ xfer'.dispute = xfer.dispute
      /\ BookBalances' = Core!Moved("payer", "collections", AmountKobo, -AmountKobo)
  BY IntentPosted
<1>2. PICK seed, leg, d, c : /\ seed = "intent" /\ leg = "post"
                             /\ d = "payer" /\ c = "collections"
  OBVIOUS
<1>3. /\ seed \in HoldSeeds /\ leg \in {"post", "void"}
      /\ HoldOf(xfer, seed) = "pending"
      /\ HoldOf(xfer', seed) = IF leg = "post" THEN "posted" ELSE "voided"
      /\ \A s \in HoldSeeds : s # seed => HoldOf(xfer', s) = HoldOf(xfer, s)
      /\ DebitOf(seed) = d /\ CreditOf(seed) = c
      /\ seed \in BookSeeds /\ d \in Book /\ c \in Book
  BY <1>1, <1>2 DEF HoldSeeds, HoldOf, DebitOf, CreditOf, BookSeeds, Book
<1>4. /\ BookTransfers[<<seed, "hold">>] = Entry(d, c, AmountKobo, TRUE)
      /\ BookTransfers' = [BookTransfers EXCEPT ![<<seed, "hold">>] = Entry(d, c, AmountKobo, FALSE),
                                                ![<<seed, leg>>] = Entry(d, c, AmountKobo, FALSE)]
  BY <1>1, <1>3, ConsumeRecords
<1>5. /\ BookTransfers' = [BookTransfers EXCEPT ![<<seed, "hold">>] = Entry(d, c, AmountKobo, FALSE),
                                                ![<<seed, "post">>] = Entry(d, c, AmountKobo, FALSE)]
      /\ BookBalances' = Core!Moved(d, c, AmountKobo, -AmountKobo)
  BY <1>1, <1>2, <1>4, Zenon
<1>6. Core!PostPendingAs(seed, 0)
  BY <1>3, <1>4, <1>5, HoldPostedFull
<1>. QED BY <1>2, <1>6, Zenon

\* Releasing the levy's hold is VoidPending.
LEMMA IntentVoidIsCall ==
  ASSUME xfer \in Xfers, xfer.intent = "pending", xfer' = [xfer EXCEPT !.intent = "voided"]
  PROVE  Core!VoidPending("intent")
<1>1. /\ xfer' \in Xfers /\ xfer'.intent = "voided"
      /\ xfer'.fee = xfer.fee /\ xfer'.compensation = xfer.compensation /\ xfer'.dispute = xfer.dispute
      /\ BookBalances' = Core!Moved("payer", "collections", 0, -AmountKobo)
  BY IntentVoided
<1>2. PICK seed, leg, d, c : /\ seed = "intent" /\ leg = "void"
                             /\ d = "payer" /\ c = "collections"
  OBVIOUS
<1>3. /\ seed \in HoldSeeds /\ leg \in {"post", "void"}
      /\ HoldOf(xfer, seed) = "pending"
      /\ HoldOf(xfer', seed) = IF leg = "post" THEN "posted" ELSE "voided"
      /\ \A s \in HoldSeeds : s # seed => HoldOf(xfer', s) = HoldOf(xfer, s)
      /\ DebitOf(seed) = d /\ CreditOf(seed) = c
      /\ seed \in BookSeeds /\ d \in Book /\ c \in Book
  BY <1>1, <1>2 DEF HoldSeeds, HoldOf, DebitOf, CreditOf, BookSeeds, Book
<1>4. /\ BookTransfers[<<seed, "hold">>] = Entry(d, c, AmountKobo, TRUE)
      /\ BookTransfers' = [BookTransfers EXCEPT ![<<seed, "hold">>] = Entry(d, c, AmountKobo, FALSE),
                                                ![<<seed, leg>>] = Entry(d, c, AmountKobo, FALSE)]
  BY <1>1, <1>3, ConsumeRecords
<1>5. /\ BookTransfers' = [BookTransfers EXCEPT ![<<seed, "hold">>] = Entry(d, c, AmountKobo, FALSE),
                                                ![<<seed, "void">>] = Entry(d, c, AmountKobo, FALSE)]
      /\ BookBalances' = Core!Moved(d, c, 0, -AmountKobo)
  BY <1>1, <1>2, <1>4, Zenon
<1>6. Core!VoidPending(seed)
  BY <1>3, <1>4, <1>5, HoldVoided
<1>. QED BY <1>2, <1>6, Zenon

\* Losing a dispute is PostPendingAs of its hold.
LEMMA DisputeLostIsCall ==
  ASSUME xfer \in Xfers, xfer.dispute = "pending", xfer' = [xfer EXCEPT !.dispute = "posted"]
  PROVE  Core!PostPendingAs("dispute", 0)
<1>1. /\ xfer' \in Xfers /\ xfer'.dispute = "posted"
      /\ xfer'.intent = xfer.intent /\ xfer'.fee = xfer.fee /\ xfer'.compensation = xfer.compensation
      /\ BookBalances' = Core!Moved("collections", "chargebacks", AmountKobo, -AmountKobo)
  BY DisputeLost
<1>2. PICK seed, leg, d, c : /\ seed = "dispute" /\ leg = "post"
                             /\ d = "collections" /\ c = "chargebacks"
  OBVIOUS
<1>3. /\ seed \in HoldSeeds /\ leg \in {"post", "void"}
      /\ HoldOf(xfer, seed) = "pending"
      /\ HoldOf(xfer', seed) = IF leg = "post" THEN "posted" ELSE "voided"
      /\ \A s \in HoldSeeds : s # seed => HoldOf(xfer', s) = HoldOf(xfer, s)
      /\ DebitOf(seed) = d /\ CreditOf(seed) = c
      /\ seed \in BookSeeds /\ d \in Book /\ c \in Book
  BY <1>1, <1>2 DEF HoldSeeds, HoldOf, DebitOf, CreditOf, BookSeeds, Book
<1>4. /\ BookTransfers[<<seed, "hold">>] = Entry(d, c, AmountKobo, TRUE)
      /\ BookTransfers' = [BookTransfers EXCEPT ![<<seed, "hold">>] = Entry(d, c, AmountKobo, FALSE),
                                                ![<<seed, leg>>] = Entry(d, c, AmountKobo, FALSE)]
  BY <1>1, <1>3, ConsumeRecords
<1>5. /\ BookTransfers' = [BookTransfers EXCEPT ![<<seed, "hold">>] = Entry(d, c, AmountKobo, FALSE),
                                                ![<<seed, "post">>] = Entry(d, c, AmountKobo, FALSE)]
      /\ BookBalances' = Core!Moved(d, c, AmountKobo, -AmountKobo)
  BY <1>1, <1>2, <1>4, Zenon
<1>6. Core!PostPendingAs(seed, 0)
  BY <1>3, <1>4, <1>5, HoldPostedFull
<1>. QED BY <1>2, <1>6, Zenon

\* Winning a dispute is VoidPending of its hold.
LEMMA DisputeWonIsCall ==
  ASSUME xfer \in Xfers, xfer.dispute = "pending", xfer' = [xfer EXCEPT !.dispute = "voided"]
  PROVE  Core!VoidPending("dispute")
<1>1. /\ xfer' \in Xfers /\ xfer'.dispute = "voided"
      /\ xfer'.intent = xfer.intent /\ xfer'.fee = xfer.fee /\ xfer'.compensation = xfer.compensation
      /\ BookBalances' = Core!Moved("collections", "chargebacks", 0, -AmountKobo)
  BY DisputeWon
<1>2. PICK seed, leg, d, c : /\ seed = "dispute" /\ leg = "void"
                             /\ d = "collections" /\ c = "chargebacks"
  OBVIOUS
<1>3. /\ seed \in HoldSeeds /\ leg \in {"post", "void"}
      /\ HoldOf(xfer, seed) = "pending"
      /\ HoldOf(xfer', seed) = IF leg = "post" THEN "posted" ELSE "voided"
      /\ \A s \in HoldSeeds : s # seed => HoldOf(xfer', s) = HoldOf(xfer, s)
      /\ DebitOf(seed) = d /\ CreditOf(seed) = c
      /\ seed \in BookSeeds /\ d \in Book /\ c \in Book
  BY <1>1, <1>2 DEF HoldSeeds, HoldOf, DebitOf, CreditOf, BookSeeds, Book
<1>4. /\ BookTransfers[<<seed, "hold">>] = Entry(d, c, AmountKobo, TRUE)
      /\ BookTransfers' = [BookTransfers EXCEPT ![<<seed, "hold">>] = Entry(d, c, AmountKobo, FALSE),
                                                ![<<seed, leg>>] = Entry(d, c, AmountKobo, FALSE)]
  BY <1>1, <1>3, ConsumeRecords
<1>5. /\ BookTransfers' = [BookTransfers EXCEPT ![<<seed, "hold">>] = Entry(d, c, AmountKobo, FALSE),
                                                ![<<seed, "void">>] = Entry(d, c, AmountKobo, FALSE)]
      /\ BookBalances' = Core!Moved(d, c, 0, -AmountKobo)
  BY <1>1, <1>2, <1>4, Zenon
<1>6. Core!VoidPending(seed)
  BY <1>3, <1>4, <1>5, HoldVoided
<1>. QED BY <1>2, <1>6, Zenon

\* postFeeLeg is a Transfer under an id that has none.
LEMMA FeeIsCall ==
  ASSUME xfer \in Xfers, xfer.fee = "absent", xfer' = [xfer EXCEPT !.fee = "posted"]
  PROVE  Core!Transfer("fee", "collections", "fees", FeeKobo)
<1>1. /\ xfer' \in Xfers /\ xfer'.fee = "posted"
      /\ xfer'.intent = xfer.intent /\ xfer'.compensation = xfer.compensation /\ xfer'.dispute = xfer.dispute
      /\ BookBalances' = Core!Moved("collections", "fees", FeeKobo, 0)
  BY FeePosted
<1>2. PICK seed, leg, d, c, e : /\ seed = "fee" /\ leg = "direct"
                                /\ d = "collections" /\ c = "fees"
                                /\ e = Entry(d, c, FeeKobo, FALSE)
  OBVIOUS
<1>3. /\ seed \in BookSeeds /\ leg \in BookLegs /\ d \in Book /\ c \in Book
  BY <1>2 DEF BookSeeds, BookLegs, Book
<1>4. RecordOf(xfer, seed, leg) = NoRecord
  BY <1>2 DEF RecordOf, HoldSeeds, DirectRecord, DirectOf, HoldRecord, HoldOf
<1>5. RecordOf(xfer', seed, leg) = e
  BY <1>1, <1>2 DEF RecordOf, HoldSeeds, DirectRecord, DirectOf, HoldRecord, HoldOf, DebitOf, CreditOf
<1>6. ASSUME NEW s \in BookSeeds, NEW l \in BookLegs, <<s, l>> # <<seed, leg>>
      PROVE  RecordOf(xfer', s, l) = RecordOf(xfer, s, l)
  BY <1>1, <1>2, <1>6 DEF RecordOf, HoldSeeds, DirectRecord, DirectOf, HoldRecord, HoldOf, BookSeeds, BookLegs
<1>7. /\ BookTransfers[<<seed, leg>>] = NoRecord
      /\ BookTransfers' = [BookTransfers EXCEPT ![<<seed, leg>>] = e]
  BY <1>1, <1>3, <1>4, <1>5, <1>6, NewRecords
<1>8. ~Core!Exists(<<seed, leg>>)
  BY <1>7, CoreFacts, Zenon DEF Core!Exists
<1>9. Core!Pair(d, c, FeeKobo) /\ Core!MayPost(d, c, FeeKobo)
  <2>1. FeeKobo # 0
    BY LevyAssumption
  <2>. QED BY <1>3, <2>1, CoreFacts, Zenon
<1>10. BookTransfers' = [BookTransfers EXCEPT ![<<seed, leg>>] = Core!Record(d, c, FeeKobo, FALSE)]
  BY <1>2, <1>7, CoreFacts, Zenon
<1>11. BookBalances' = Core!Moved(d, c, FeeKobo, 0)
  BY <1>1, <1>2, Zenon
<1>12. d \in {"collections"}
  BY <1>2
<1>. QED BY <1>2, <1>8, <1>9, <1>10, <1>11, <1>12, Zenon DEF Core!Transfer

\* The reversal of compensateCapture is a Transfer under an id that has none.
LEMMA ReversalIsCall ==
  ASSUME xfer \in Xfers, xfer.compensation = "absent", xfer' = [xfer EXCEPT !.compensation = "posted"]
  PROVE  Core!Transfer("compensation", "collections", "payer", AmountKobo)
<1>1. /\ xfer' \in Xfers /\ xfer'.compensation = "posted"
      /\ xfer'.intent = xfer.intent /\ xfer'.fee = xfer.fee /\ xfer'.dispute = xfer.dispute
      /\ BookBalances' = Core!Moved("collections", "payer", AmountKobo, 0)
  BY LevyReversed
<1>2. PICK seed, leg, d, c, e : /\ seed = "compensation" /\ leg = "direct"
                                /\ d = "collections" /\ c = "payer"
                                /\ e = Entry(d, c, AmountKobo, FALSE)
  OBVIOUS
<1>3. /\ seed \in BookSeeds /\ leg \in BookLegs /\ d \in Book /\ c \in Book
  BY <1>2 DEF BookSeeds, BookLegs, Book
<1>4. RecordOf(xfer, seed, leg) = NoRecord
  BY <1>2 DEF RecordOf, HoldSeeds, DirectRecord, DirectOf, HoldRecord, HoldOf
<1>5. RecordOf(xfer', seed, leg) = e
  BY <1>1, <1>2 DEF RecordOf, HoldSeeds, DirectRecord, DirectOf, HoldRecord, HoldOf, DebitOf, CreditOf
<1>6. ASSUME NEW s \in BookSeeds, NEW l \in BookLegs, <<s, l>> # <<seed, leg>>
      PROVE  RecordOf(xfer', s, l) = RecordOf(xfer, s, l)
  BY <1>1, <1>2, <1>6 DEF RecordOf, HoldSeeds, DirectRecord, DirectOf, HoldRecord, HoldOf, BookSeeds, BookLegs
<1>7. /\ BookTransfers[<<seed, leg>>] = NoRecord
      /\ BookTransfers' = [BookTransfers EXCEPT ![<<seed, leg>>] = e]
  BY <1>1, <1>3, <1>4, <1>5, <1>6, NewRecords
<1>8. ~Core!Exists(<<seed, leg>>)
  BY <1>7, CoreFacts, Zenon DEF Core!Exists
<1>9. Core!Pair(d, c, AmountKobo) /\ Core!MayPost(d, c, AmountKobo)
  <2>1. AmountKobo # 0
    BY LevyAssumption
  <2>. QED BY <1>3, <2>1, CoreFacts, Zenon
<1>10. BookTransfers' = [BookTransfers EXCEPT ![<<seed, leg>>] = Core!Record(d, c, AmountKobo, FALSE)]
  BY <1>2, <1>7, CoreFacts, Zenon
<1>11. BookBalances' = Core!Moved(d, c, AmountKobo, 0)
  BY <1>1, <1>2, Zenon
<1>12. d \in {"collections"}
  BY <1>2
<1>. QED BY <1>2, <1>8, <1>9, <1>10, <1>11, <1>12, Zenon DEF Core!Transfer

\* OpenDispute holds the amount by a PendingTransfer under an id that has none.
LEMMA DisputeHoldIsCall ==
  ASSUME xfer \in Xfers, xfer.dispute = "absent", xfer' = [xfer EXCEPT !.dispute = "pending"]
  PROVE  Core!PendingTransfer("dispute", "collections", "chargebacks", AmountKobo)
<1>1. /\ xfer' \in Xfers /\ xfer'.dispute = "pending"
      /\ xfer'.intent = xfer.intent /\ xfer'.fee = xfer.fee /\ xfer'.compensation = xfer.compensation
      /\ BookBalances' = Core!Moved("collections", "chargebacks", 0, AmountKobo)
  BY DisputeHeld
<1>2. PICK seed, leg, d, c, e : /\ seed = "dispute" /\ leg = "hold"
                                /\ d = "collections" /\ c = "chargebacks"
                                /\ e = Entry(d, c, AmountKobo, TRUE)
  OBVIOUS
<1>3. /\ seed \in BookSeeds /\ leg \in BookLegs /\ d \in Book /\ c \in Book
  BY <1>2 DEF BookSeeds, BookLegs, Book
<1>4. RecordOf(xfer, seed, leg) = NoRecord
  BY <1>2 DEF RecordOf, HoldSeeds, DirectRecord, DirectOf, HoldRecord, HoldOf
<1>5. RecordOf(xfer', seed, leg) = e
  BY <1>1, <1>2 DEF RecordOf, HoldSeeds, DirectRecord, DirectOf, HoldRecord, HoldOf, DebitOf, CreditOf
<1>6. ASSUME NEW s \in BookSeeds, NEW l \in BookLegs, <<s, l>> # <<seed, leg>>
      PROVE  RecordOf(xfer', s, l) = RecordOf(xfer, s, l)
  BY <1>1, <1>2, <1>6 DEF RecordOf, HoldSeeds, DirectRecord, DirectOf, HoldRecord, HoldOf, BookSeeds, BookLegs
<1>7. /\ BookTransfers[<<seed, leg>>] = NoRecord
      /\ BookTransfers' = [BookTransfers EXCEPT ![<<seed, leg>>] = e]
  BY <1>1, <1>3, <1>4, <1>5, <1>6, NewRecords
<1>8. ~Core!Exists(<<seed, leg>>)
  BY <1>7, CoreFacts, Zenon DEF Core!Exists
<1>9. Core!Pair(d, c, AmountKobo) /\ Core!MayHold(d, c, AmountKobo)
  <2>1. AmountKobo # 0
    BY LevyAssumption
  <2>. QED BY <1>3, <2>1, CoreFacts, Zenon
<1>10. BookTransfers' = [BookTransfers EXCEPT ![<<seed, leg>>] = Core!Record(d, c, AmountKobo, TRUE)]
  BY <1>2, <1>7, CoreFacts, Zenon
<1>11. BookBalances' = Core!Moved(d, c, 0, AmountKobo)
  BY <1>1, <1>2, Zenon
<1>. QED BY <1>2, <1>8, <1>9, <1>10, <1>11, Zenon DEF Core!PendingTransfer

\* Every effect of the saga on the payment's transfers, also of workers racing
\* for one hold and of steps repeated after a failure or a crash (payments.go,
\* recovery.go, disputes.go), is one operation the core ledger accepts.
THEOREM SagaCallsLedger == Spec => LedgerSteps
<1>1. ASSUME TypeOK, [Next]_vars PROVE [UNCHANGED xfer \/ LedgerCalls]_vars
  <2>1. xfer \in Xfers
    BY <1>1 DEF TypeOK, Xfers
  <2>2. XferStep
    BY <1>1, <2>1, StepXfer
  <2>3. UNCHANGED xfer \/ LedgerCalls
    BY <2>1, <2>2, IntentPostIsCall, IntentVoidIsCall, FeeIsCall, ReversalIsCall,
       DisputeHoldIsCall, DisputeLostIsCall, DisputeWonIsCall DEF XferStep, LedgerCalls
  <2>. QED BY <2>3
<1>. QED BY <1>1, TypeCorrect, PTL DEF Spec, LedgerSteps

\* The same as a refinement: under the mapping every step of the saga is a
\* step of the core ledger or leaves it as it is.  (The saga begins with the
\* hold CreateIntent placed, so its first state is a later one of the ledger.)
THEOREM SagaRefinesLedger == Spec => [][Core!Next]_(Core!vars)
<1>1. ASSUME LedgerCalls PROVE Core!Next
  <2>1. /\ "intent" \in BookSeeds /\ "fee" \in BookSeeds
        /\ "compensation" \in BookSeeds /\ "dispute" \in BookSeeds
        /\ "payer" \in Book /\ "collections" \in Book /\ "fees" \in Book /\ "chargebacks" \in Book
    BY DEF BookSeeds, Book
  <2>2. 0 \in Core!Amounts /\ FeeKobo \in Core!Amounts /\ AmountKobo \in Core!Amounts
    BY LevyAssumption DEF Core!Amounts
  <2>3. CASE \E s \in BookSeeds : Core!PostPendingAs(s, 0)
    BY <2>2, <2>3 DEF Core!Next
  <2>4. CASE \E s \in BookSeeds : Core!VoidPending(s)
    BY <2>4 DEF Core!Next
  <2>5. CASE \E s \in BookSeeds, d, c \in Book, amt \in Core!Amounts :
               Core!Transfer(s, d, c, amt) \/ Core!PendingTransfer(s, d, c, amt)
    BY <2>5 DEF Core!Next
  <2>. QED BY <1>1, <2>1, <2>2, <2>3, <2>4, <2>5 DEF LedgerCalls
<1>2. ASSUME UNCHANGED xfer PROVE UNCHANGED Core!vars
  <2>1. BookTransfers' = BookTransfers
    BY <1>2 DEF BookTransfers, BookEntry, HoldEntries, Reversed
  <2>2. BookBalances' = BookBalances
    BY <1>2 DEF BookBalances, PaidFor, HeldFor, If
  <2>. QED BY <2>1, <2>2 DEF Core!vars
<1>3. [UNCHANGED xfer \/ LedgerCalls]_vars => [Core!Next]_(Core!vars)
  <2>1. UNCHANGED vars => UNCHANGED xfer
    BY DEF vars
  <2>. QED BY <1>1, <1>2, <2>1
<1>. QED BY <1>3, SagaCallsLedger, PTL DEF LedgerSteps
=============================================================================

------------------------------ MODULE SagaLedger ------------------------------
(***************************************************************************)
(* The transfers of one payment as records and balances of module Ledger,  *)
(* and the refinement: what CaptureSaga does to xfer is done by operations *)
(* the core ledger accepts.                                                *)
(***************************************************************************)
EXTENDS CaptureSaga

CONSTANTS
  AmountKobo,  \* the levy
  FeeKobo      \* what the provider keeps of it

\* A levy is positive, and the fee is the part of it that the provider did
\* not settle; a fee of zero has no transfer (postFeeLeg).
ASSUME LevyAssumption == AmountKobo \in Nat \ {0} /\ FeeKobo \in 1..AmountKobo

-----------------------------------------------------------------------------
(* The payment's transfers as records and balances of module Ledger.       *)

Book == {"payer", "collections", "fees", "chargebacks"}
BookSeeds == {"intent", "fee", "compensation", "dispute"}

NoRecord == [none |-> TRUE]
Entry(d, c, amt, pend) == [debit |-> d, credit |-> c, amount |-> amt, pending |-> pend]

HoldEntries(state, d, c, leg) ==
  CASE leg = "hold" /\ state # "absent" -> Entry(d, c, AmountKobo, state = "pending")
    [] leg = "post" /\ state = "posted" -> Entry(d, c, AmountKobo, FALSE)
    [] leg = "void" /\ state = "voided" -> Entry(d, c, AmountKobo, FALSE)
    [] OTHER -> NoRecord

BookEntry(id) ==
  CASE id[1] = "intent" -> HoldEntries(xfer.intent, "payer", "collections", id[2])
    [] id[1] = "dispute" -> HoldEntries(xfer.dispute, "collections", "chargebacks", id[2])
    [] id = <<"fee", "direct">> /\ xfer.fee = "posted" ->
         Entry("collections", "fees", FeeKobo, FALSE)
    [] id = <<"compensation", "direct">> /\ Reversed ->
         Entry("collections", "payer", AmountKobo, FALSE)
    [] OTHER -> NoRecord

BookTransfers == [id \in BookSeeds \X {"direct", "hold", "post", "void"} |-> BookEntry(id)]

If(b, n) == IF b THEN n ELSE 0
HeldFor(state) == If(state = "pending", AmountKobo)
PaidFor(state) == If(state = "posted", AmountKobo)

BookBalances ==
  [a \in Book |->
     [debitsPosted |->
        CASE a = "payer" -> PaidFor(xfer.intent)
          [] a = "collections" -> PaidFor(xfer.dispute) + PaidFor(xfer.compensation)
                                    + If(xfer.fee = "posted", FeeKobo)
          [] OTHER -> 0,
      creditsPosted |->
        CASE a = "payer" -> PaidFor(xfer.compensation)
          [] a = "collections" -> PaidFor(xfer.intent)
          [] a = "fees" -> If(xfer.fee = "posted", FeeKobo)
          [] OTHER -> PaidFor(xfer.dispute),
      debitsPending |->
        CASE a = "payer" -> HeldFor(xfer.intent)
          [] a = "collections" -> HeldFor(xfer.dispute)
          [] OTHER -> 0,
      creditsPending |->
        CASE a = "collections" -> HeldFor(xfer.intent)
          [] a = "chargebacks" -> HeldFor(xfer.dispute)
          [] OTHER -> 0]]

Core == INSTANCE Ledger WITH
  Accounts <- Book, Seeds <- BookSeeds, MaxAmount <- AmountKobo,
  DebitCapped <- {}, CreditCapped <- {}, DirectDebits <- {"collections"},
  LedgerOf <- [a \in Book |-> 200],
  accounts <- Book, balances <- BookBalances, transfers <- BookTransfers

\* The ledger calls of the saga, each an operation of the core ledger.
LedgerCalls ==
  \/ Core!PostPendingAs("intent", 0) \/ Core!VoidPending("intent")
  \/ Core!Transfer("fee", "collections", "fees", FeeKobo)
  \/ Core!Transfer("compensation", "collections", "payer", AmountKobo)
  \/ Core!PendingTransfer("dispute", "collections", "chargebacks", AmountKobo)
  \/ Core!PostPendingAs("dispute", 0) \/ Core!VoidPending("dispute")

\* The saga implements the core ledger: every effect it has on its transfers,
\* also of two workers racing on one hold, maps to ONE operation the ledger
\* accepts, so a hold is consumed once and no deterministic id is reused for
\* another transfer.
LedgerSteps == [][UNCHANGED xfer \/ LedgerCalls]_vars
=============================================================================

----------------------------- MODULE LedgerAudit -----------------------------
(***************************************************************************)
(* The audit equations of the ledger: every balance is the sum of the      *)
(* transfers on record.  The code never computes these sums; statements,   *)
(* trial balances and reconciliation assume that they hold of DevClient's  *)
(* two maps, which each operation updates side by side.                    *)
(***************************************************************************)
EXTENDS Ledger, FiniteSums

\* A sum is over the transfers a ledger could have recorded: as many as one
\* likes, but finitely many.
ASSUME SeedsFinite == IsFiniteSet(Seeds)

SumAmounts(ids) == SumOver([id \in ids |-> transfers[id].amount], ids)

Recorded(legs, pend) ==
  {id \in TransferIds : id[2] \in legs /\ Exists(id) /\ transfers[id].pending = pend}

\* The pending side of every balance is the sum of the open holds on the
\* account, so releasing a hold can never wrap the unsigned counter
\* (PendingTransfer, PostPendingAs with a partial amount, VoidPending).
PendingMatchesHolds ==
  LET open == Recorded({"hold"}, TRUE) IN
  \A a \in Accounts :
    /\ balances[a].debitsPending = SumAmounts({id \in open : transfers[id].debit = a})
    /\ balances[a].creditsPending = SumAmounts({id \in open : transfers[id].credit = a})

\* The posted side of every balance is the sum of the direct transfers and
\* the posts on record: no operation moves value without recording it, and
\* none records value it did not move (three-way reconciliation rests on it).
PostedMatchesRecords ==
  LET done == Recorded({"direct", "post"}, FALSE) IN
  \A a \in Accounts :
    /\ balances[a].debitsPosted = SumAmounts({id \in done : transfers[id].debit = a})
    /\ balances[a].creditsPosted = SumAmounts({id \in done : transfers[id].credit = a})
=============================================================================

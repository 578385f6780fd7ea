------------------------------ MODULE MCLedger ------------------------------
(***************************************************************************)
(* Ledger and its audit equations on a small instance.                     *)
(***************************************************************************)
EXTENDS LedgerAudit, TLC

\* payer: an unflagged account; float: debit-capped, as float.go opens it;
\* reserve: credit-capped; other: an account on another ledger.
CONSTANTS payer, float, reserve, other

MCAccounts == {payer, float, reserve, other}
MCDebitCapped == {float}
MCCreditCapped == {reserve}
MCDirectDebits == {payer, reserve}
MCLedgerOf == [a \in MCAccounts |-> IF a = other THEN 2 ELSE 1]

MCSymmetry == Permutations(Seeds)
=============================================================================

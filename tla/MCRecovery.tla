----------------------------- MODULE MCRecovery -----------------------------
(***************************************************************************)
(* The two sweepers under fairness: the recovery worker of the capture     *)
(* saga and the TSQ sweeper of the payouts.  A behaviour runs one of them, *)
(* chosen by focus, and leaves the other component in its initial state,   *)
(* so that the state graphs add up.  The fairness is CaptureSaga!Fairness  *)
(* and NIPPayout!Fairness, each asked of the component that runs.          *)
(***************************************************************************)
EXTENDS MCCaptureSaga

CONSTANTS p1, k1, left, NoSource, PayoutFaults

VARIABLES
  focus,
  rows, idem, expired, rail, leg, outbox, owner, started, nPc, nLoc, nFaults

NIP == INSTANCE NIPPayout
  WITH Requests <- {p1}, Keys <- {k1}, KeyOf <- [r \in {p1} |-> k1],
       AmountOf <- [r \in {p1} |-> 2], SourceOf <- [r \in {p1} |-> NoSource],
       Replicas <- {left}, Operators <- {},
       ReplicaOf <- [w \in {p1} |-> left],
       MaxFaults <- PayoutFaults, MaxExpiries <- 1,
       pc <- nPc, loc <- nLoc, faults <- nFaults

nVars == <<rows, idem, expired, rail, leg, outbox, owner, started, nPc, nLoc, nFaults>>
bothVars == <<focus, vars, nVars>>

RecoveryInit == focus \in {"saga", "payout"} /\ Init /\ NIP!Init

RecoveryNext ==
  \/ focus = "saga" /\ Next /\ UNCHANGED <<focus, nVars>>
  \/ focus = "payout" /\ NIP!Next /\ UNCHANGED <<focus, vars>>

RecoveryFairness ==
  /\ \A w \in Workers : WF_vars(focus = "saga" /\ Run(w))
  /\ WF_vars(focus = "saga" /\ Sweep)
  /\ NIP!Fairness

RecoverySpec == RecoveryInit /\ [][RecoveryNext]_bothVars /\ RecoveryFairness

\* A transfer left in flight by a timeout, a lost call or a crash is resolved
\* by the sweep of the ticker, with the exceptions NIPPayout states.
InFlightResolves == NIP!InFlightResolves
=============================================================================

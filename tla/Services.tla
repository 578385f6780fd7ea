------------------------------ MODULE Services ------------------------------
(***************************************************************************)
(* The operator lifecycle and the platform packages below the services     *)
(* (dedup consumer, webhook guard, capture sync, embedded store, circuit   *)
(* breaker).  They share no state, so every behaviour runs one of them,    *)
(* chosen by focus, and the state graphs add up.                           *)
(***************************************************************************)
EXTENDS Integers, FiniteSets

CONSTANTS
  OpIds, RunIds, BatchKeys, DocIds, OpWorkers,  \* the operator lifecycle
  MaxTries, MaxItems, MaxCalls, OpFaults,
  Events, Consumers, MaxSends, DedupFaults,     \* the dedup consumer
  Nonces, Tolerance, TTL, SweepAt, GuardTime,   \* the webhook guard
  Replicas, Elements, MaxWall, MaxCount, MaxOps, \* the capture sync
  DocumentIds, Values, None, Blank, StoreFaults, \* the embedded store
  Callers, Threshold, Cooldown, Attempts, BreakerTime  \* the circuit breaker

\* Events and replicas are there to be handled, a nonce outlives the tolerance
\* on both sides of its timestamp (5 and 15 minutes), no document is "no
\* document", and the breaker opens on a failure.
ASSUME ServicesAssumption ==
  /\ Events # {} /\ MaxSends \in Nat /\ DedupFaults \in Nat
  /\ Tolerance \in Nat /\ TTL \in Nat /\ 2 * Tolerance < TTL /\ GuardTime \in Nat
  /\ Blank \notin Values /\ None \notin Values \cup {Blank}
  /\ Threshold \in Nat \ {0} /\ Cooldown \in Nat

VARIABLES
  focus,
  genuine, operators, audit, runs, batches, docs, staged, asserted, oPc, oLoc, oCalls, oFaults,
  due, claims, dPc, job, effects, reclaims, restarts, dFaults,
  now, sent, nonces, accepted,
  last, ops, opsSeen, adds, removes,
  data, file, registered, idx, idxByID, debounce, timer, persistErr, reported, sFaults,
  clock, failures, openTill, bPc, attempt, streak, lastFailure, hasty

oVars == <<genuine, operators, audit, runs, batches, docs, staged, asserted, oPc, oLoc, oCalls, oFaults>>
dVars == <<due, claims, dPc, job, effects, reclaims, restarts, dFaults>>
gVars == <<now, sent, nonces, accepted>>
cVars == <<last, ops, opsSeen, adds, removes>>
sVars == <<data, file, registered, idx, idxByID, debounce, timer, persistErr, reported, sFaults>>
bVars == <<clock, failures, openTill, bPc, attempt, streak, lastFailure, hasty>>
vars == <<focus, oVars, dVars, gVars, cVars, sVars, bVars>>

Operator == INSTANCE OperatorLifecycle
  WITH Ids <- OpIds, Keys <- BatchKeys, Docs <- DocIds, Workers <- OpWorkers, MaxFaults <- OpFaults,
       ops <- operators, pc <- oPc, loc <- oLoc, calls <- oCalls, faults <- oFaults

Dedup == INSTANCE EventDedup
  WITH MaxFaults <- DedupFaults, pc <- dPc, faults <- dFaults

Guard == INSTANCE WebhookGuard
  WITH MaxTime <- GuardTime, seen <- nonces

Sync == INSTANCE CaptureSync
  WITH seen <- opsSeen

Store == INSTANCE EmbeddedStore
  WITH Ids <- DocumentIds, MaxFaults <- StoreFaults, faults <- sFaults

Breaker == INSTANCE CircuitBreaker
  WITH MaxTime <- BreakerTime, now <- clock, pc <- bPc

\* The variables of a component that does not run.
OperatorOff ==
  /\ genuine = 0 /\ operators = 0 /\ audit = 0 /\ runs = 0 /\ batches = 0 /\ docs = 0
  /\ staged = 0 /\ asserted = 0 /\ oPc = 0 /\ oLoc = 0 /\ oCalls = 0 /\ oFaults = 0
DedupOff ==
  /\ due = 0 /\ claims = 0 /\ dPc = 0 /\ job = 0 /\ effects = 0 /\ reclaims = 0
  /\ restarts = 0 /\ dFaults = 0
GuardOff == now = 0 /\ sent = 0 /\ nonces = 0 /\ accepted = 0
SyncOff == last = 0 /\ ops = 0 /\ opsSeen = 0 /\ adds = 0 /\ removes = 0
StoreOff ==
  /\ data = 0 /\ file = 0 /\ registered = 0 /\ idx = 0 /\ idxByID = 0 /\ debounce = 0
  /\ timer = 0 /\ persistErr = 0 /\ reported = 0 /\ sFaults = 0
BreakerOff ==
  /\ clock = 0 /\ failures = 0 /\ openTill = 0 /\ bPc = 0 /\ attempt = 0
  /\ streak = 0 /\ lastFailure = 0 /\ hasty = 0

Init ==
  /\ focus \in {"operator", "dedup", "guard", "sync", "store", "breaker"}
  /\ IF focus = "operator" THEN Operator!Init ELSE OperatorOff
  /\ IF focus = "dedup" THEN Dedup!Init ELSE DedupOff
  /\ IF focus = "guard" THEN Guard!Init ELSE GuardOff
  /\ IF focus = "sync" THEN Sync!Init ELSE SyncOff
  /\ IF focus = "store" THEN Store!Init ELSE StoreOff
  /\ IF focus = "breaker" THEN Breaker!Init ELSE BreakerOff

OperatorStep ==
  focus = "operator" /\ Operator!Next /\ UNCHANGED <<focus, dVars, gVars, cVars, sVars, bVars>>
DedupStep == focus = "dedup" /\ Dedup!Next /\ UNCHANGED <<focus, oVars, gVars, cVars, sVars, bVars>>
GuardStep == focus = "guard" /\ Guard!Next /\ UNCHANGED <<focus, oVars, dVars, cVars, sVars, bVars>>
SyncStep == focus = "sync" /\ Sync!Next /\ UNCHANGED <<focus, oVars, dVars, gVars, sVars, bVars>>
StoreStep == focus = "store" /\ Store!Next /\ UNCHANGED <<focus, oVars, dVars, gVars, cVars, bVars>>
BreakerStep ==
  focus = "breaker" /\ Breaker!Next /\ UNCHANGED <<focus, oVars, dVars, gVars, cVars, sVars>>

Next == OperatorStep \/ DedupStep \/ GuardStep \/ SyncStep \/ StoreStep \/ BreakerStep

Spec == Init /\ [][Next]_vars

\* A TIN needs NIMC's answer or a caller's word (act-nimc-verify, Transition).
TINVouched == focus = "operator" => Operator!TINVouched

\* Handler effects are bounded by claims given back and lost (HandleKey, ReclaimStale).
EffectsAccounted == focus = "dedup" => Dedup!EffectsAccounted

\* A signed webhook passes the guard once (Check, SeenOrAdd).
AcceptedOnce == focus = "guard" => Guard!AcceptedOnce

\* Replicas with the same ops agree (ORSet.Apply, CaptureSyncHub.Merge).
Converges == focus = "sync" => Sync!Converges

\* Memory, index and file of the store agree (Put, Delete, ListWhere, Flush).
CopiesAgree == focus = "store" => Store!CopiesAgree

\* An open breaker lets nobody through for its cooldown, short of a success
\* (Allow, Failure, Success).
OpenShields == focus = "breaker" => Breaker!OpenShields
=============================================================================

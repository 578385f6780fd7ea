----------------------------- MODULE EventDedup -----------------------------
(***************************************************************************)
(* The DedupConsumer (internal/platform/events/dedup.go) wrapped around a  *)
(* handler of a topic, in one process.  The only ProcessedStore there is   *)
(* keeps its claims in the memory of the process: it never fails, every    *)
(* replica has one of its own, and a restart begins with an empty one.     *)
(* Wrap drops the error of Handle and neither bus has a way to refuse a    *)
(* delivery, so an event whose handler failed is not delivered again; one  *)
(* is when its producer repeats it, or when Kafka hands out once more what *)
(* the group had not committed (kafka.go).  The in-process bus calls the   *)
(* handler on the goroutine of the publisher, so deliveries overlap.       *)
(***************************************************************************)
EXTENDS Integers, FiniteSets

CONSTANTS
  Events,      \* dedup keys: topic and event id, or topic, partition, offset
  Consumers,   \* goroutines a delivery is handled on
  MaxSends,    \* bound: times the producer sends an event
  MaxFaults    \* bound: handler errors, panics, rebalances and restarts

VARIABLES
  due,         \* deliveries of an event still to be made
  claims,      \* claimRec: absent, claimed or completed
  pc, job,     \* where a consumer is, and the event it handles
  effects,     \* history: runs of the handler that took effect
  reclaims,    \* history: claims ReclaimStale released
  restarts,    \* history: tables lost with their process
  faults

vars == <<due, claims, pc, job, effects, reclaims, restarts, faults>>

TypeOK ==
  /\ due \in [Events -> 0..MaxSends]
  /\ claims \in [Events -> {"absent", "claimed", "completed"}]
  /\ pc \in [Consumers -> {"idle", "claim", "run", "release", "complete"}]
  /\ job \in [Consumers -> Events]
  /\ effects \in [Events -> Nat] /\ reclaims \in [Events -> Nat] /\ restarts \in Nat
  /\ faults \in 0..MaxFaults

Init ==
  /\ due = [e \in Events |-> MaxSends]
  /\ claims = [e \in Events |-> "absent"]
  /\ pc = [c \in Consumers |-> "idle"]
  /\ job \in [Consumers -> {CHOOSE e \in Events : TRUE}]
  /\ effects = [e \in Events |-> 0] /\ reclaims = [e \in Events |-> 0] /\ restarts = 0
  /\ faults = 0

Fault == faults < MaxFaults /\ faults' = faults + 1
NoFault == UNCHANGED faults
Goto(c, to) == pc' = [pc EXCEPT ![c] = to]

\* Seen: a key that is claimed or completed is a duplicate.
Deliver(c, e) ==
  /\ pc[c] = "idle" /\ due[e] > 0
  /\ due' = [due EXCEPT ![e] = @ - 1]
  /\ job' = [job EXCEPT ![c] = e]
  /\ Goto(c, IF claims[e] = "absent" THEN "claim" ELSE "idle")
  /\ UNCHANGED <<claims, effects, reclaims, restarts, faults>>

\* Mutant: the result of the claim is not looked at.
Claim_Unchecked(c) ==
  /\ pc[c] = "claim"
  /\ claims' = [claims EXCEPT ![job[c]] = IF @ = "absent" THEN "claimed" ELSE @]
  /\ Goto(c, "run")
  /\ UNCHANGED <<due, job, effects, reclaims, restarts, faults>>

\* Claim is insert-if-absent: the loser of a race drops the delivery.
Claim(c) ==
  LET e == job[c] IN
  /\ pc[c] = "claim"
  /\ claims' = [claims EXCEPT ![e] = IF @ = "absent" THEN "claimed" ELSE @]
  /\ Goto(c, IF claims[e] = "absent" THEN "run" ELSE "idle")
  /\ UNCHANGED <<due, job, effects, reclaims, restarts, faults>>

\* The handler takes effect; or it fails and took none; or it panics, before or
\* after its effect, in a request whose server recovers, and the claim stays.
Run(c) ==
  LET done == [effects EXCEPT ![job[c]] = @ + 1] IN
  /\ pc[c] = "run"
  /\ \/ effects' = done /\ Goto(c, "complete") /\ NoFault
     \/ UNCHANGED effects /\ Goto(c, "release") /\ Fault
     \/ effects' \in {effects, done} /\ Goto(c, "idle") /\ Fault
  /\ UNCHANGED <<due, claims, job, reclaims, restarts>>

\* After a handler error; the error itself goes no further than Wrap.
Release(c) ==
  /\ pc[c] = "release"
  /\ claims' = [claims EXCEPT ![job[c]] = "absent"]
  /\ Goto(c, "idle")
  /\ UNCHANGED <<due, job, effects, reclaims, restarts, faults>>

Complete(c) ==
  /\ pc[c] = "complete"
  /\ claims' = [claims EXCEPT ![job[c]] = IF @ = "absent" THEN @ ELSE "completed"]
  /\ Goto(c, "idle")
  /\ UNCHANGED <<due, job, effects, reclaims, restarts, faults>>

\* ReclaimStale, with a horizon larger than the slowest handler: no consumer is
\* on the claim any more.
ReclaimStale(e) ==
  /\ claims[e] = "claimed"
  /\ \A c \in Consumers : pc[c] # "idle" => job[c] # e
  /\ claims' = [claims EXCEPT ![e] = "absent"]
  /\ reclaims' = [reclaims EXCEPT ![e] = @ + 1]
  /\ UNCHANGED <<due, pc, job, effects, restarts, faults>>

\* What Kafka hands out again: any of the deliveries not committed yet.
Redelivered == due' \in [Events -> 0..MaxSends] /\ \A e \in Events : due'[e] >= due[e]

\* The group rebalances, and the partition comes back from its last commit.
Rebalance ==
  /\ Redelivered /\ Fault
  /\ UNCHANGED <<claims, pc, job, effects, reclaims, restarts>>

\* The process dies with its table and starts again.
Crash ==
  /\ Redelivered /\ Fault
  /\ pc' = [c \in Consumers |-> "idle"]
  /\ claims' = [e \in Events |-> "absent"]
  /\ restarts' = restarts + 1
  /\ UNCHANGED <<job, effects, reclaims>>

Next ==
  \/ \E c \in Consumers :
       \/ \E e \in Events : Deliver(c, e)
       \/ Claim(c) \/ Run(c) \/ Release(c) \/ Complete(c)
  \/ \E e \in Events : ReclaimStale(e)
  \/ Rebalance \/ Crash

Spec == Init /\ [][Next]_vars

-----------------------------------------------------------------------------
\* "Exactly-once handler invocation under at-least-once delivery", as far as a
\* table in memory can keep it: in one process an event takes effect once, and
\* once more for every claim ReclaimStale gave back and for every restart that
\* lost the table, whatever deliveries race, fail, panic or are repeated.
EffectsAccounted == \A e \in Events : effects[e] <= 1 + reclaims[e] + restarts
=============================================================================

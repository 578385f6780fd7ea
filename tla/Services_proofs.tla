-------------------------- MODULE Services_proofs ---------------------------
(***************************************************************************)
(* Theorems about the components of Services, each for any number of       *)
(* requests, consumers, nonces, replicas, documents or callers, and for    *)
(* any bounds: the inductive invariant of each component, that its steps   *)
(* keep it, and the property the invariant implies.  A step of another     *)
(* component leaves its variables alone.                                   *)
(***************************************************************************)
EXTENDS Services, Sequences, TLAPS

-----------------------------------------------------------------------------
(* The circuit breaker.                                                    *)

\* What the argument needs of the types.
BreakerTimes ==
  /\ clock \in Nat /\ lastFailure \in Nat /\ openTill \in Nat
  /\ failures \in Nat /\ streak \in 0..Threshold

\* Below the threshold the breaker's count is the streak; from there on it is
\* open until a cooldown after the last failure, or that time has passed and
\* one failure more opens it again.
CountInv ==
  /\ streak < Threshold => failures = streak
  /\ streak = Threshold =>
       /\ openTill = lastFailure + Cooldown
       /\ failures >= Threshold \/ (failures = Threshold - 1 /\ clock >= openTill)

BreakerInv == BreakerTimes /\ CountInv /\ Breaker!OpenShields

\* A breaker that has seen no failure is closed (the zero value of Breaker).
LEMMA InitBreakerInv == Breaker!Init => BreakerInv
BY ServicesAssumption DEF Breaker!Init, BreakerInv, BreakerTimes, CountInv, Breaker!OpenShields

\* Every step of Retry and of the clock keeps the invariant.
LEMMA NextBreakerInv ==
  ASSUME BreakerInv, Breaker!Next \/ UNCHANGED bVars
  PROVE  BreakerInv'
<1> USE ServicesAssumption DEF BreakerInv, BreakerTimes, CountInv, Breaker!OpenShields
<1>1. ASSUME NEW c \in Callers, Breaker!Begin(c) PROVE BreakerInv'
  BY <1>1 DEF Breaker!Begin
<1>2. ASSUME NEW c \in Callers, Breaker!Allow(c) PROVE BreakerInv'
  <2>1. CASE failures >= Threshold /\ clock < openTill
    BY <1>2, <2>1 DEF Breaker!Allow
  <2>2. CASE ~(failures >= Threshold /\ clock < openTill)
    <3>1. /\ failures' = IF failures >= Threshold THEN Threshold - 1 ELSE failures
          /\ UNCHANGED <<clock, openTill, streak, lastFailure>>
      BY <1>2, <2>2 DEF Breaker!Allow
    <3>2. ~(streak = Threshold /\ clock < lastFailure + Cooldown)
      BY <2>2
    <3>3. hasty' = {}
      BY <1>2, <2>2, <3>2 DEF Breaker!Allow
    <3>. QED BY <2>2, <3>1, <3>3
  <2>. QED BY <2>1, <2>2
<1>3. ASSUME NEW c \in Callers, Breaker!Success(c) PROVE BreakerInv'
  BY <1>3 DEF Breaker!Success
<1>4. ASSUME NEW c \in Callers, Breaker!Failure(c) PROVE BreakerInv'
  BY <1>4 DEF Breaker!Failure, Breaker!OpenTill
<1>5. CASE Breaker!Tick
  BY <1>5 DEF Breaker!Tick
<1>6. CASE UNCHANGED bVars
  BY <1>6 DEF bVars
<1>. QED BY <1>1, <1>2, <1>3, <1>4, <1>5, <1>6 DEF Breaker!Next

\* Once Threshold calls in a row have failed, Allow lets nobody through for a
\* Cooldown after the last failure, whoever called and reported when, until a
\* call reports a success, even one let through before the breaker opened.
THEOREM BreakerShields == Spec => []OpenShields
<1> DEFINE Inv == focus = "breaker" => BreakerInv
<1>1. Init => Inv
  BY InitBreakerInv DEF Init
<1>2. Inv /\ [Next]_vars => Inv'
  <2> SUFFICES ASSUME Inv, [Next]_vars, focus' = "breaker" PROVE BreakerInv'
    OBVIOUS
  <2>1. focus = "breaker" /\ (Breaker!Next \/ UNCHANGED bVars)
    BY DEF Next, OperatorStep, DedupStep, GuardStep, SyncStep, StoreStep, BreakerStep, vars
  <2>. QED BY <2>1, NextBreakerInv
<1>3. Inv => OpenShields
  BY DEF OpenShields, BreakerInv
<1>. QED BY <1>1, <1>2, <1>3, PTL DEF Spec

-----------------------------------------------------------------------------
(* The webhook guard.                                                      *)

\* A webhook passed at most once, and if it did, its nonce is remembered for
\* as long as its timestamp is tolerated.
GuardInv ==
  /\ now \in Nat /\ sent \in [Nonces -> Nat] /\ nonces \in [Nonces -> Int]
  /\ accepted \in [Nonces -> Nat]
  /\ \A n \in Nonces :
       \/ accepted[n] = 0
       \/ accepted[n] = 1 /\ (now > sent[n] + Tolerance \/ nonces[n] > sent[n] + Tolerance)

LEMMA InitGuardInv == Guard!Init => GuardInv
<1> SUFFICES ASSUME Guard!Init PROVE GuardInv
  OBVIOUS
<1>1. sent \in [Nonces -> Nat]
  BY ServicesAssumption DEF Guard!Init, Guard!Times
<1>. QED BY <1>1 DEF Guard!Init, GuardInv

\* The sweep forgets no nonce whose timestamp is still tolerated.
LEMMA SweptRemembers ==
  ASSUME GuardInv, NEW n \in Nonces
  PROVE  /\ Guard!Swept \in [Nonces -> Int]
         /\ Guard!Swept[n] = nonces[n] \/ (nonces[n] < now /\ Guard!Swept[n] = -1)
BY DEF GuardInv, Guard!Swept

LEMMA CheckKept ==
  ASSUME GuardInv, NEW n \in Nonces, Guard!Check(n)
  PROVE  GuardInv'
<1>1. /\ now \in Nat /\ now' = now /\ sent' = sent /\ sent \in [Nonces -> Nat]
      /\ Tolerance \in Nat /\ TTL \in Nat /\ 2 * Tolerance < TTL
  BY ServicesAssumption DEF GuardInv, Guard!Check
<1>2. now - sent[n] <= Tolerance /\ sent[n] - now <= Tolerance
  BY DEF Guard!Check, Guard!Fresh
<1>3. ASSUME NEW m \in Nonces, accepted[m] # 0
      PROVE  accepted[m] = 1 /\ (now > sent[m] + Tolerance \/ Guard!Swept[m] > sent[m] + Tolerance)
  BY <1>1, <1>3, SweptRemembers DEF GuardInv
<1>4. Guard!Swept \in [Nonces -> Int] /\ accepted \in [Nonces -> Nat]
  BY SweptRemembers DEF GuardInv
<1>5. CASE now < Guard!Swept[n]
  <2>1. nonces' = Guard!Swept /\ accepted' = accepted
    BY <1>5 DEF Guard!Check
  <2>. QED BY <1>1, <1>3, <1>4, <2>1 DEF GuardInv
<1>6. CASE ~(now < Guard!Swept[n])
  <2>1. nonces' = [Guard!Swept EXCEPT ![n] = now + TTL] /\ accepted' = [accepted EXCEPT ![n] = @ + 1]
    BY <1>6 DEF Guard!Check, Guard!Remembered
  <2>2. accepted[n] = 0
    BY <1>1, <1>2, <1>3, <1>4, <1>6
  <2>3. nonces' \in [Nonces -> Int] /\ accepted' \in [Nonces -> Nat]
    BY <1>1, <1>4, <2>1
  <2>4. accepted'[n] = 1 /\ nonces'[n] > sent[n] + Tolerance
    BY <1>1, <1>2, <1>4, <2>1, <2>2
  <2>5. \A m \in Nonces \ {n} : accepted'[m] = accepted[m] /\ nonces'[m] = Guard!Swept[m]
    BY <1>4, <2>1
  <2>. QED BY <1>1, <1>3, <2>3, <2>4, <2>5 DEF GuardInv
<1>. QED BY <1>5, <1>6

LEMMA NextGuardInv ==
  ASSUME GuardInv, Guard!Next \/ UNCHANGED gVars
  PROVE  GuardInv'
<1>1. CASE Guard!Tick
  BY <1>1, ServicesAssumption DEF Guard!Tick, GuardInv
<1>2. CASE UNCHANGED gVars
  BY <1>2 DEF gVars, GuardInv
<1>. QED BY <1>1, <1>2, CheckKept DEF Guard!Next

\* A signed webhook passes Check at most once, for ever, whatever the sender's
\* clock said and whenever SeenOrAdd sweeps, because a nonce is kept for more
\* than twice the tolerance.
THEOREM WebhookOnce == Spec => []AcceptedOnce
<1> DEFINE Inv == focus = "guard" => GuardInv
<1>1. Init => Inv
  BY InitGuardInv DEF Init
<1>2. Inv /\ [Next]_vars => Inv'
  <2> SUFFICES ASSUME Inv, [Next]_vars, focus' = "guard" PROVE GuardInv'
    OBVIOUS
  <2>1. focus = "guard" /\ (Guard!Next \/ UNCHANGED gVars)
    BY DEF Next, OperatorStep, DedupStep, GuardStep, SyncStep, StoreStep, BreakerStep, vars
  <2>. QED BY <2>1, NextGuardInv
<1>3. Inv => AcceptedOnce
  BY DEF AcceptedOnce, GuardInv, Guard!AcceptedOnce
<1>. QED BY <1>1, <1>2, <1>3, PTL DEF Spec

-----------------------------------------------------------------------------
(* The dedup consumer.                                                     *)

\* From its claim to the end of the delivery.
Handling == {"run", "release", "complete"}

DedupTypes ==
  /\ claims \in [Events -> {"absent", "claimed", "completed"}]
  /\ dPc \in [Consumers -> {"idle", "claim", "run", "release", "complete"}]
  /\ job \in [Consumers -> Events]
  /\ effects \in [Events -> Nat] /\ reclaims \in [Events -> Nat] /\ restarts \in Nat

\* Claims on an event that were given back or lost.
Forgotten(e) == reclaims[e] + restarts

\* One consumer at a time handles an event, under a claim; until it has run the
\* handler, and while nobody has claimed the event, every effect so far was
\* paid for by a claim that is forgotten.
DedupInv ==
  /\ DedupTypes
  /\ \A c \in Consumers : dPc[c] \in Handling => claims[job[c]] # "absent"
  /\ \A c, d \in Consumers : dPc[c] \in Handling /\ dPc[d] \in Handling /\ job[c] = job[d] => c = d
  /\ \A c \in Consumers, e \in Events :
       dPc[c] \in {"run", "release"} /\ job[c] = e => effects[e] <= Forgotten(e)
  /\ \A e \in Events : claims[e] = "absent" => effects[e] <= Forgotten(e)
  /\ \A e \in Events : effects[e] <= 1 + Forgotten(e)

LEMMA InitDedupInv == Dedup!Init => DedupInv
<1> SUFFICES ASSUME Dedup!Init PROVE DedupInv
  OBVIOUS
<1>1. DedupTypes
  BY ServicesAssumption DEF Dedup!Init, DedupTypes
<1>2. /\ \A c \in Consumers : dPc[c] = "idle"
      /\ \A e \in Events : effects[e] = 0 /\ reclaims[e] = 0
      /\ restarts = 0
  BY DEF Dedup!Init
<1>. QED BY <1>1, <1>2 DEF DedupInv, Handling, Forgotten

\* A step that moves one consumer to a place where it handles nothing.
LEMMA ConsumerRests ==
  ASSUME DedupInv, NEW c \in Consumers, NEW to \in {"idle", "claim"},
         dPc' = [dPc EXCEPT ![c] = to], job' \in [Consumers -> Events],
         \A d \in Consumers \ {c} : job'[d] = job[d],
         UNCHANGED <<claims, effects, reclaims, restarts>>
  PROVE  DedupInv'
<1>1. DedupTypes' /\ dPc'[c] \notin Handling /\ \A d \in Consumers \ {c} : dPc'[d] = dPc[d]
  BY DEF DedupInv, DedupTypes, Handling
<1>2. \A e \in Events : Forgotten(e)' = Forgotten(e)
  BY DEF Forgotten
<1>. QED BY <1>1, <1>2 DEF DedupInv, DedupTypes, Handling, Forgotten

LEMMA DeliverKept ==
  ASSUME DedupInv, NEW c \in Consumers, NEW e \in Events, Dedup!Deliver(c, e)
  PROVE  DedupInv'
<1>1. /\ job' = [job EXCEPT ![c] = e] /\ UNCHANGED <<claims, effects, reclaims, restarts>>
      /\ \/ dPc' = [dPc EXCEPT ![c] = "claim"]
         \/ dPc' = [dPc EXCEPT ![c] = "idle"]
  BY DEF Dedup!Deliver, Dedup!Goto
<1>2. job' \in [Consumers -> Events] /\ \A d \in Consumers \ {c} : job'[d] = job[d]
  BY <1>1 DEF DedupInv, DedupTypes
<1>. QED BY <1>1, <1>2, ConsumerRests

\* The winner of the claim is alone on the event.
LEMMA ClaimKept ==
  ASSUME DedupInv, NEW c \in Consumers, Dedup!Claim(c)
  PROVE  DedupInv'
<1> DEFINE e == job[c]
<1>1. /\ dPc[c] = "claim" /\ UNCHANGED <<job, effects, reclaims, restarts>>
      /\ claims' = [claims EXCEPT ![e] = IF @ = "absent" THEN "claimed" ELSE @]
      /\ dPc' = [dPc EXCEPT ![c] = IF claims[e] = "absent" THEN "run" ELSE "idle"]
  BY DEF Dedup!Claim, Dedup!Goto
<1>2. e \in Events
  BY DEF DedupInv, DedupTypes
<1>3. CASE claims[e] # "absent"
  <2>1. claims' = claims /\ dPc' = [dPc EXCEPT ![c] = "idle"]
    BY <1>1, <1>2, <1>3 DEF DedupInv, DedupTypes
  <2>2. job' \in [Consumers -> Events]
    BY <1>1 DEF DedupInv, DedupTypes
  <2>. QED BY <1>1, <2>1, <2>2, ConsumerRests
<1>4. CASE claims[e] = "absent"
  <2>1. claims' = [claims EXCEPT ![e] = "claimed"] /\ dPc' = [dPc EXCEPT ![c] = "run"]
    BY <1>1, <1>2, <1>4 DEF DedupInv, DedupTypes
  <2>2. DedupTypes'
    BY <1>1, <2>1, <1>2 DEF DedupInv, DedupTypes
  <2>3. \A d \in Consumers : dPc[d] \in Handling => job[d] # e
    BY <1>4 DEF DedupInv
  <2>4. /\ \A d \in Consumers \ {c} : dPc'[d] = dPc[d]
        /\ dPc'[c] = "run" /\ claims'[e] = "claimed"
        /\ \A f \in Events \ {e} : claims'[f] = claims[f]
    BY <2>1, <1>2 DEF DedupInv, DedupTypes
  <2>5. effects[e] <= Forgotten(e) /\ \A f \in Events : Forgotten(f)' = Forgotten(f)
    BY <1>1, <1>2, <1>4 DEF DedupInv, Forgotten
  <2>6. \A d \in Consumers : dPc'[d] \in Handling => claims'[job'[d]] # "absent"
    BY <1>1, <1>2, <2>3, <2>4 DEF DedupInv, DedupTypes, Handling
  <2>7. \A d \in Consumers, f \in Events :
          dPc'[d] \in {"run", "release"} /\ job'[d] = f => effects'[f] <= Forgotten(f)'
    BY <1>1, <1>2, <2>4, <2>5 DEF DedupInv, DedupTypes
  <2>8. /\ \A f \in Events : claims'[f] = "absent" => effects'[f] <= Forgotten(f)'
        /\ \A f \in Events : effects'[f] <= 1 + Forgotten(f)'
    BY <1>1, <2>4, <2>5 DEF DedupInv
  <2>9. ASSUME NEW d \in Consumers, NEW g \in Consumers, dPc'[d] \in Handling, dPc'[g] \in Handling,
               job'[d] = job'[g]
        PROVE  d = g
    BY <1>1, <2>3, <2>4, <2>9 DEF DedupInv, Handling
  <2>. QED BY <2>2, <2>6, <2>7, <2>8, <2>9 DEF DedupInv
<1>. QED BY <1>3, <1>4

\* The handler takes effect once under its claim, whether it ends or panics.
LEMMA RunKept ==
  ASSUME DedupInv, NEW c \in Consumers, Dedup!Run(c)
  PROVE  DedupInv'
<1> DEFINE e == job[c]
<1>1. /\ dPc[c] = "run" /\ UNCHANGED <<claims, job, reclaims, restarts>>
      /\ \/ /\ effects' = effects \/ effects' = [effects EXCEPT ![e] = @ + 1]
            /\ dPc' = [dPc EXCEPT ![c] = "complete"] \/ dPc' = [dPc EXCEPT ![c] = "idle"]
         \/ effects' = effects /\ dPc' = [dPc EXCEPT ![c] = "release"]
  BY DEF Dedup!Run, Dedup!Goto
<1>2. e \in Events /\ claims[e] # "absent" /\ effects[e] <= Forgotten(e)
  BY <1>1 DEF DedupInv, DedupTypes, Handling
<1>3. DedupTypes'
  BY <1>1, <1>2 DEF DedupInv, DedupTypes
<1>4. /\ \A d \in Consumers \ {c} : dPc'[d] = dPc[d]
      /\ dPc'[c] \in {"complete", "idle", "release"} /\ (dPc'[c] = "release" => effects' = effects)
      /\ \A f \in Events \ {e} : effects'[f] = effects[f]
      /\ effects'[e] <= effects[e] + 1
  BY <1>1, <1>2 DEF DedupInv, DedupTypes
<1>5. \A f \in Events : Forgotten(f)' = Forgotten(f) /\ Forgotten(f) \in Nat
  BY <1>1 DEF Forgotten, DedupInv, DedupTypes
<1>6. \A f \in Events : effects'[f] <= 1 + Forgotten(f)'
  BY <1>2, <1>3, <1>4, <1>5 DEF DedupInv, DedupTypes
<1>7. \A d \in Consumers \ {c} : dPc[d] \in Handling => job[d] # e
  BY <1>1 DEF DedupInv, Handling
<1>8. \A d \in Consumers : dPc'[d] \in Handling => claims'[job'[d]] # "absent"
  BY <1>1, <1>2, <1>4 DEF DedupInv
<1>9. \A d \in Consumers, f \in Events :
        dPc'[d] \in {"run", "release"} /\ job'[d] = f => effects'[f] <= Forgotten(f)'
  BY <1>1, <1>2, <1>4, <1>5, <1>7 DEF DedupInv, DedupTypes, Handling
<1>10. \A f \in Events : claims'[f] = "absent" => effects'[f] <= Forgotten(f)'
  BY <1>1, <1>2, <1>4, <1>5 DEF DedupInv
<1>11. \A d, g \in Consumers : dPc'[d] \in Handling /\ dPc'[g] \in Handling /\ job'[d] = job'[g] => d = g
  BY <1>1, <1>4, <1>7 DEF DedupInv, Handling
<1>. QED BY <1>3, <1>6, <1>8, <1>9, <1>10, <1>11 DEF DedupInv

\* A delivery that ends, and releases or completes its claim.
LEMMA EndKept ==
  ASSUME DedupInv, NEW c \in Consumers, Dedup!Release(c) \/ Dedup!Complete(c)
  PROVE  DedupInv'
<1> DEFINE e == job[c]
<1>1. /\ dPc[c] \in {"release", "complete"} /\ UNCHANGED <<job, effects, reclaims, restarts>>
      /\ dPc' = [dPc EXCEPT ![c] = "idle"]
      /\ \/ claims' = [claims EXCEPT ![e] = "absent"] /\ dPc[c] = "release"
         \/ claims' = [claims EXCEPT ![e] = IF @ = "absent" THEN @ ELSE "completed"]
  BY DEF Dedup!Release, Dedup!Complete, Dedup!Goto
<1>2. e \in Events
  BY DEF DedupInv, DedupTypes
<1>3. DedupTypes'
  BY <1>1, <1>2 DEF DedupInv, DedupTypes
<1>4. /\ \A d \in Consumers \ {c} : dPc'[d] = dPc[d]
      /\ dPc'[c] = "idle"
      /\ \A f \in Events \ {e} : claims'[f] = claims[f]
      /\ claims'[e] = "absent" => dPc[c] = "release" \/ claims[e] = "absent"
  BY <1>1, <1>2 DEF DedupInv, DedupTypes
<1>5. \A f \in Events : Forgotten(f)' = Forgotten(f)
  BY <1>1 DEF Forgotten
<1>6. \A f \in Events : effects'[f] <= 1 + Forgotten(f)'
  BY <1>1, <1>5 DEF DedupInv
<1>7. \A d \in Consumers \ {c} : dPc[d] \in Handling => job[d] # e
  BY <1>1 DEF DedupInv, Handling
<1>8. \A d \in Consumers : dPc'[d] \in Handling => claims'[job'[d]] # "absent"
  BY <1>1, <1>4, <1>7 DEF DedupInv, DedupTypes, Handling
<1>9. \A d \in Consumers, f \in Events :
        dPc'[d] \in {"run", "release"} /\ job'[d] = f => effects'[f] <= Forgotten(f)'
  BY <1>1, <1>4, <1>5 DEF DedupInv, DedupTypes
<1>10. \A f \in Events : claims'[f] = "absent" => effects'[f] <= Forgotten(f)'
  BY <1>1, <1>4, <1>5 DEF DedupInv
<1>11. \A d, g \in Consumers : dPc'[d] \in Handling /\ dPc'[g] \in Handling /\ job'[d] = job'[g] => d = g
  BY <1>1, <1>4 DEF DedupInv, Handling
<1>. QED BY <1>3, <1>6, <1>8, <1>9, <1>10, <1>11 DEF DedupInv

\* A reclaim pays for the effect of the handler that panicked.
LEMMA ReclaimKept ==
  ASSUME DedupInv, NEW e \in Events, Dedup!ReclaimStale(e)
  PROVE  DedupInv'
<1>1. /\ claims' = [claims EXCEPT ![e] = "absent"] /\ reclaims' = [reclaims EXCEPT ![e] = @ + 1]
      /\ UNCHANGED <<dPc, job, effects, restarts>>
      /\ \A c \in Consumers : dPc[c] # "idle" => job[c] # e
  BY DEF Dedup!ReclaimStale
<1>2. DedupTypes'
  BY <1>1 DEF DedupInv, DedupTypes
<1>3. /\ \A f \in Events \ {e} : claims'[f] = claims[f] /\ Forgotten(f)' = Forgotten(f)
      /\ Forgotten(e)' = Forgotten(e) + 1 /\ \A f \in Events : Forgotten(f) \in Nat
  BY <1>1 DEF DedupInv, DedupTypes, Forgotten
<1>4. \A f \in Events : effects'[f] <= 1 + Forgotten(f)'
  BY <1>1, <1>3 DEF DedupInv, DedupTypes
<1>5. \A f \in Events : claims'[f] = "absent" => effects'[f] <= Forgotten(f)'
  BY <1>1, <1>3 DEF DedupInv, DedupTypes
<1>6. \A c \in Consumers : dPc'[c] \in Handling => job'[c] \in Events \ {e}
  BY <1>1 DEF Handling, DedupInv, DedupTypes
<1>. QED BY <1>1, <1>2, <1>3, <1>4, <1>5, <1>6 DEF DedupInv, Handling

\* A restart pays for every effect of the table it lost.
LEMMA CrashedKept ==
  ASSUME DedupInv, Dedup!Crash
  PROVE  DedupInv'
<1>1. /\ dPc' = [c \in Consumers |-> "idle"] /\ claims' = [e \in Events |-> "absent"]
      /\ restarts' = restarts + 1 /\ UNCHANGED <<job, effects, reclaims>>
  BY DEF Dedup!Crash
<1>2. DedupTypes'
  BY <1>1 DEF DedupInv, DedupTypes
<1>3. \A e \in Events : Forgotten(e)' = Forgotten(e) + 1 /\ Forgotten(e) \in Nat
  BY <1>1 DEF Forgotten, DedupInv, DedupTypes
<1>4. \A e \in Events : effects'[e] <= Forgotten(e)'
  BY <1>1, <1>3 DEF DedupInv, DedupTypes
<1>5. \A e \in Events : effects'[e] <= 1 + Forgotten(e)'
  BY <1>2, <1>3, <1>4 DEF DedupTypes
<1>6. \A c \in Consumers : dPc'[c] \notin {"run", "release", "complete"}
  BY <1>1
<1>. QED BY <1>2, <1>4, <1>5, <1>6 DEF DedupInv, Handling

LEMMA NextDedupInv ==
  ASSUME DedupInv, Dedup!Next \/ UNCHANGED dVars
  PROVE  DedupInv'
<1>1. CASE Dedup!Rebalance \/ UNCHANGED dVars
  <2>1. UNCHANGED <<claims, dPc, job, effects, reclaims, restarts>>
    BY <1>1 DEF Dedup!Rebalance, dVars
  <2>. QED BY <2>1 DEF DedupInv, DedupTypes, Forgotten
<1>. QED
  BY <1>1, DeliverKept, ClaimKept, RunKept, EndKept, ReclaimKept, CrashedKept DEF Dedup!Next

\* In one process an event takes effect at most once, and once more for every
\* claim ReclaimStale gave back and every restart that lost the table: HandleKey
\* keeps it for any number of goroutines, repeated deliveries, handler errors,
\* panics and rebalances.
THEOREM HandledOnce == Spec => []EffectsAccounted
<1> DEFINE Inv == focus = "dedup" => DedupInv
<1>1. Init => Inv
  BY InitDedupInv DEF Init
<1>2. Inv /\ [Next]_vars => Inv'
  <2> SUFFICES ASSUME Inv, [Next]_vars, focus' = "dedup" PROVE DedupInv'
    OBVIOUS
  <2>1. focus = "dedup" /\ (Dedup!Next \/ UNCHANGED dVars)
    BY DEF Next, OperatorStep, DedupStep, GuardStep, SyncStep, StoreStep, BreakerStep, vars
  <2>. QED BY <2>1, NextDedupInv
<1>3. Inv => EffectsAccounted
  BY DEF EffectsAccounted, DedupInv, DedupTypes, Forgotten, Dedup!EffectsAccounted
<1>. QED BY <1>1, <1>2, <1>3, PTL DEF Spec

-----------------------------------------------------------------------------
(* The embedded store.                                                     *)

Documents == Values \cup {Blank}

StoreTypes ==
  /\ data \in [DocumentIds -> Documents \cup {None}] /\ file \in [DocumentIds -> Documents \cup {None}]
  /\ idx \in [Values -> SUBSET DocumentIds] /\ idxByID \in [DocumentIds -> Documents]

\* A registered index holds every document under its value, and remembers for
\* every document where it is.
IndexOK ==
  registered =>
    /\ \A v \in Values : idx[v] = {i \in DocumentIds : data[i] = v}
    /\ \A i \in DocumentIds : idxByID[i] = IF data[i] \in Values THEN data[i] ELSE Blank

FileOK == file # data => timer \/ reported \/ persistErr

StoreInv == StoreTypes /\ IndexOK /\ FileOK

LEMMA InitStoreInv == Store!Init => StoreInv
BY DEF Store!Init, StoreInv, StoreTypes, IndexOK, FileOK, Documents

\* writeFileLocked leaves the file current, or reports.
LEMMA WriteFileKept ==
  ASSUME StoreTypes, data' \in [DocumentIds -> Documents \cup {None}], Store!WriteFile
  PROVE  /\ file' \in [DocumentIds -> Documents \cup {None}]
         /\ file' # data' => reported'
BY DEF StoreTypes, Store!WriteFile

LEMMA PersistKept ==
  ASSUME StoreTypes, data' \in [DocumentIds -> Documents \cup {None}], Store!Persist
  PROVE  FileOK' /\ file' \in [DocumentIds -> Documents \cup {None}]
<1>1. CASE persistErr /\ UNCHANGED <<file, persistErr>>
  BY <1>1 DEF FileOK, StoreTypes
<1>2. CASE Store!WriteFile
  BY <1>2, WriteFileKept DEF FileOK
<1>3. CASE Store!Schedule
  BY <1>3 DEF FileOK, StoreTypes, Store!Schedule
<1>. QED BY <1>1, <1>2, <1>3 DEF Store!Persist

\* reindexLocked moves one document in the index.
LEMMA PutKept ==
  ASSUME StoreInv, NEW i \in DocumentIds, NEW d \in Documents, Store!Put(i, d)
  PROVE  StoreInv'
<1>1. data' = [data EXCEPT ![i] = d] /\ Store!Reindex(i, d) /\ Store!Persist /\ registered' = registered
  BY DEF Store!Put
<1>2. StoreTypes /\ IndexOK
  BY DEF StoreInv
<1>3. data' \in [DocumentIds -> Documents \cup {None}]
  BY <1>1, <1>2 DEF StoreTypes
<1>4. FileOK' /\ file' \in [DocumentIds -> Documents \cup {None}]
  BY <1>1, <1>2, <1>3, PersistKept
<1>5. Store!Deindexed(i) \in [Values -> SUBSET DocumentIds]
  BY <1>2 DEF StoreTypes, Store!Deindexed
<1>6. idx' \in [Values -> SUBSET DocumentIds] /\ idxByID' \in [DocumentIds -> Documents]
  BY <1>1, <1>2, <1>5 DEF StoreTypes, Store!Reindex
<1>7. ASSUME registered PROVE \A v \in Values : idx'[v] = {j \in DocumentIds : data'[j] = v}
  <2>1. \A v \in Values : Store!Deindexed(i)[v] = {j \in DocumentIds \ {i} : data[j] = v}
    BY <1>2, <1>7, ServicesAssumption DEF IndexOK, StoreTypes, Store!Deindexed, Documents
  <2>2. idx' = [v \in Values |-> IF v = d THEN Store!Deindexed(i)[v] \cup {i} ELSE Store!Deindexed(i)[v]]
    BY <1>1, <1>7 DEF Store!Reindex
  <2>3. \A j \in DocumentIds : data'[j] = IF j = i THEN d ELSE data[j]
    BY <1>1, <1>2 DEF StoreTypes
  <2>. QED BY <2>1, <2>2, <2>3
<1>8. ASSUME registered
      PROVE  \A j \in DocumentIds : idxByID'[j] = IF data'[j] \in Values THEN data'[j] ELSE Blank
  <2>1. idxByID' = [idxByID EXCEPT ![i] = d]
    BY <1>1, <1>8 DEF Store!Reindex
  <2>2. \A j \in DocumentIds : data'[j] = IF j = i THEN d ELSE data[j]
    BY <1>1, <1>2 DEF StoreTypes
  <2>. QED BY <1>2, <1>8, <2>1, <2>2 DEF IndexOK, StoreTypes, Documents
<1>9. IndexOK'
  BY <1>1, <1>7, <1>8 DEF IndexOK
<1>. QED BY <1>3, <1>4, <1>6, <1>9 DEF StoreInv, StoreTypes

LEMMA DeleteKept ==
  ASSUME StoreInv, NEW i \in DocumentIds, Store!Delete(i)
  PROVE  StoreInv'
<1>1. /\ data' = [data EXCEPT ![i] = None] /\ idx' = Store!Deindexed(i)
      /\ idxByID' = [idxByID EXCEPT ![i] = Blank] /\ Store!Persist /\ registered' = registered
  BY DEF Store!Delete
<1>2. StoreTypes /\ IndexOK
  BY DEF StoreInv
<1>3. data' \in [DocumentIds -> Documents \cup {None}]
  BY <1>1, <1>2 DEF StoreTypes
<1>4. FileOK' /\ file' \in [DocumentIds -> Documents \cup {None}]
  BY <1>1, <1>2, <1>3, PersistKept
<1>5. idx' \in [Values -> SUBSET DocumentIds] /\ idxByID' \in [DocumentIds -> Documents]
  BY <1>1, <1>2 DEF StoreTypes, Store!Deindexed, Documents
<1>6. IndexOK'
  <2>1. \A j \in DocumentIds : data'[j] = IF j = i THEN None ELSE data[j]
    BY <1>1, <1>2 DEF StoreTypes
  <2>2. registered => \A v \in Values : idx'[v] = {j \in DocumentIds \ {i} : data[j] = v}
    BY <1>1, <1>2, ServicesAssumption DEF IndexOK, StoreTypes, Store!Deindexed, Documents
  <2>3. registered => \A v \in Values : idx'[v] = {j \in DocumentIds : data'[j] = v}
    BY <2>1, <2>2, ServicesAssumption
  <2>4. registered => \A j \in DocumentIds : idxByID'[j] = IF data'[j] \in Values THEN data'[j] ELSE Blank
    BY <1>1, <1>2, <2>1, ServicesAssumption DEF IndexOK, StoreTypes
  <2>. QED BY <1>1, <2>3, <2>4 DEF IndexOK
<1>. QED BY <1>3, <1>4, <1>5, <1>6 DEF StoreInv, StoreTypes

LEMMA NextStoreInv ==
  ASSUME StoreInv, Store!Next \/ UNCHANGED sVars
  PROVE  StoreInv'
<1>1. StoreTypes /\ IndexOK /\ FileOK
  BY DEF StoreInv
<1>2. ASSUME NEW i \in DocumentIds, NEW d \in Store!Docs, Store!Put(i, d) \/ Store!PutIfAbsent(i, d)
      PROVE  StoreInv'
  BY <1>2, PutKept DEF Store!Docs, Documents, Store!PutIfAbsent
<1>3. CASE Store!RegisterIndex
  BY <1>1, <1>3 DEF Store!RegisterIndex, StoreInv, StoreTypes, IndexOK, FileOK, Documents
<1>4. CASE Store!EnableDebouncedPersistence
  BY <1>1, <1>4 DEF Store!EnableDebouncedPersistence, StoreInv, StoreTypes, IndexOK, FileOK
<1>5. ASSUME UNCHANGED <<data, registered, idx, idxByID>>, Store!WriteFile PROVE StoreInv'
  <2>1. data' \in [DocumentIds -> Documents \cup {None}]
    BY <1>1, <1>5 DEF StoreTypes
  <2>2. FileOK' /\ file' \in [DocumentIds -> Documents \cup {None}]
    BY <1>1, <1>5, <2>1, WriteFileKept DEF FileOK
  <2>. QED BY <1>1, <1>5, <2>2 DEF StoreInv, StoreTypes, IndexOK
<1>6. CASE Store!CrashAndOpen
  BY <1>1, <1>6 DEF Store!CrashAndOpen, StoreInv, StoreTypes, IndexOK, FileOK, Documents
<1>7. CASE UNCHANGED sVars
  BY <1>1, <1>7 DEF sVars, StoreInv, StoreTypes, IndexOK, FileOK
<1>8. CASE Store!TimerFires \/ Store!Flush
  BY <1>5, <1>8 DEF Store!TimerFires, Store!Flush
<1>. QED BY <1>2, <1>3, <1>4, <1>6, <1>7, <1>8, DeleteKept DEF Store!Next

\* ListWhere answers from the index exactly what a scan would, and the file is
\* behind memory only while a flush is pending or an error was reported, for
\* any documents, values, failed writes and crashes.
THEOREM StoreCopiesAgree == Spec => []CopiesAgree
<1> DEFINE Inv == focus = "store" => StoreInv
<1>1. Init => Inv
  BY InitStoreInv DEF Init
<1>2. Inv /\ [Next]_vars => Inv'
  <2> SUFFICES ASSUME Inv, [Next]_vars, focus' = "store" PROVE StoreInv'
    OBVIOUS
  <2>1. focus = "store" /\ (Store!Next \/ UNCHANGED sVars)
    BY DEF Next, OperatorStep, DedupStep, GuardStep, SyncStep, StoreStep, BreakerStep, vars
  <2>. QED BY <2>1, NextStoreInv
<1>3. Inv => CopiesAgree
  BY DEF CopiesAgree, StoreInv, IndexOK, FileOK, Store!CopiesAgree, Store!ListWhere
<1>. QED BY <1>1, <1>2, <1>3, PTL DEF Spec

-----------------------------------------------------------------------------
(* The capture sync.                                                       *)

\* The tags of the adds, or of the removes, of an element among some ops.
TagsOf(S, kind, e) == {op.tag : op \in {p \in S : p.kind = kind /\ p.element = e}}

IsOp(op) ==
  /\ op.kind \in {"add", "remove"} /\ op.element \in Elements
  /\ op = [kind |-> op.kind, element |-> op.element, tag |-> op.tag]

\* What a replica holds is a function of the ops it has seen, in whatever order
\* and however often they came.
SyncInv ==
  /\ \A op \in ops : IsOp(op)
  /\ opsSeen \in [Replicas -> SUBSET ops]
  /\ adds = [r \in Replicas |-> [e \in Elements |-> TagsOf(opsSeen[r], "add", e)]]
  /\ removes = [r \in Replicas |-> [e \in Elements |-> TagsOf(opsSeen[r], "remove", e)]]

LEMMA InitSyncInv == Sync!Init => SyncInv
BY DEF Sync!Init, SyncInv, TagsOf

\* One more op seen.
LEMMA TagsGrow ==
  ASSUME NEW S, NEW op, NEW kind, NEW e
  PROVE  TagsOf(S \cup {op}, kind, e) =
           IF op.kind = kind /\ op.element = e THEN TagsOf(S, kind, e) \cup {op.tag}
           ELSE TagsOf(S, kind, e)
BY DEF TagsOf

\* Apply, of an op that is known by now.
LEMMA ApplyKept ==
  ASSUME SyncInv, NEW r \in Replicas, NEW op, IsOp(op), ops' = ops \cup {op}, Sync!Apply(r, op)
  PROVE  SyncInv'
<1>1. \A o \in ops' : IsOp(o)
  BY DEF SyncInv
<1>2. CASE op \in opsSeen[r]
  <2>1. UNCHANGED <<opsSeen, adds, removes>>
    BY <1>2 DEF Sync!Apply
  <2>. QED BY <1>1, <2>1 DEF SyncInv
<1>3. CASE op \notin opsSeen[r]
  <2> DEFINE x == op.element
  <2>1. /\ opsSeen' = [opsSeen EXCEPT ![r] = @ \cup {op}]
        /\ op.kind = "add" => adds' = [adds EXCEPT ![r][x] = @ \cup {op.tag}] /\ removes' = removes
        /\ op.kind # "add" => removes' = [removes EXCEPT ![r][x] = @ \cup {op.tag}] /\ adds' = adds
    BY <1>3 DEF Sync!Apply
  <2>2. /\ opsSeen' \in [Replicas -> SUBSET ops']
        /\ opsSeen'[r] = opsSeen[r] \cup {op}
        /\ \A q \in Replicas \ {r} : opsSeen'[q] = opsSeen[q]
    BY <2>1 DEF SyncInv
  <2>3. x \in Elements /\ op.kind \in {"add", "remove"}
    BY DEF IsOp
  <2>4. \A e \in Elements :
          /\ TagsOf(opsSeen'[r], "add", e) =
               IF op.kind = "add" /\ e = x THEN adds[r][e] \cup {op.tag} ELSE adds[r][e]
          /\ TagsOf(opsSeen'[r], "remove", e) =
               IF op.kind = "remove" /\ e = x THEN removes[r][e] \cup {op.tag} ELSE removes[r][e]
    <3> TAKE e \in Elements
    <3>1. adds[r][e] = TagsOf(opsSeen[r], "add", e) /\ removes[r][e] = TagsOf(opsSeen[r], "remove", e)
      BY DEF SyncInv
    <3>2. \A kind : TagsOf(opsSeen'[r], kind, e) =
             IF op.kind = kind /\ x = e THEN TagsOf(opsSeen[r], kind, e) \cup {op.tag}
             ELSE TagsOf(opsSeen[r], kind, e)
      <4> TAKE kind
      <4> DEFINE S == opsSeen[r]
      <4>1. TagsOf(S \cup {op}, kind, e) =
              IF op.kind = kind /\ op.element = e THEN TagsOf(S, kind, e) \cup {op.tag}
              ELSE TagsOf(S, kind, e)
        <5>. HIDE DEF S
        <5>. QED BY TagsGrow
      <4>. QED BY <2>2, <4>1
    <3>. HIDE DEF x
    <3>. QED BY <3>1, <3>2
  <2>5. adds' = [q \in Replicas |-> [e \in Elements |-> TagsOf(opsSeen'[q], "add", e)]]
    <3>1. adds = [q \in Replicas |-> [e \in Elements |-> TagsOf(opsSeen[q], "add", e)]]
      BY DEF SyncInv
    <3>2. adds[r] = [e \in Elements |-> adds[r][e]]
      BY <3>1
    <3>3. adds' = [q \in Replicas |->
                     IF q = r THEN [e \in Elements |-> TagsOf(opsSeen'[r], "add", e)] ELSE adds[q]]
      <4>1. CASE op.kind = "add"
        <5>1. [adds[r] EXCEPT ![x] = @ \cup {op.tag}] = [e \in Elements |-> TagsOf(opsSeen'[r], "add", e)]
          BY <2>3, <2>4, <3>2, <4>1
        <5>. QED BY <2>1, <3>1, <4>1, <5>1
      <4>2. CASE op.kind # "add"
        <5>1. adds[r] = [e \in Elements |-> TagsOf(opsSeen'[r], "add", e)]
          BY <2>4, <3>2, <4>2
        <5>. QED BY <2>1, <3>1, <4>2, <5>1
      <4>. QED BY <4>1, <4>2
    <3>. QED BY <2>2, <3>1, <3>3
  <2>6. removes' = [q \in Replicas |-> [e \in Elements |-> TagsOf(opsSeen'[q], "remove", e)]]
    <3>1. removes = [q \in Replicas |-> [e \in Elements |-> TagsOf(opsSeen[q], "remove", e)]]
      BY DEF SyncInv
    <3>2. removes[r] = [e \in Elements |-> removes[r][e]]
      BY <3>1
    <3>3. removes' = [q \in Replicas |->
                        IF q = r THEN [e \in Elements |-> TagsOf(opsSeen'[r], "remove", e)] ELSE removes[q]]
      <4>1. CASE op.kind = "remove"
        <5>1. [removes[r] EXCEPT ![x] = @ \cup {op.tag}] =
                [e \in Elements |-> TagsOf(opsSeen'[r], "remove", e)]
          BY <2>3, <2>4, <3>2, <4>1
        <5>. QED BY <2>1, <3>1, <4>1, <5>1
      <4>2. CASE op.kind = "add"
        <5>1. removes[r] = [e \in Elements |-> TagsOf(opsSeen'[r], "remove", e)]
          BY <2>4, <3>2, <4>2
        <5>. QED BY <2>1, <3>1, <4>2, <5>1
      <4>. QED BY <2>3, <4>1, <4>2
    <3>. QED BY <2>2, <3>1, <3>3
  <2>. QED BY <1>1, <2>2, <2>5, <2>6 DEF SyncInv
<1>. QED BY <1>2, <1>3

LEMMA NextSyncInv ==
  ASSUME SyncInv, Sync!Next \/ UNCHANGED cVars
  PROVE  SyncInv'
<1>1. ASSUME NEW r \in Replicas, NEW e \in Elements, NEW wall, NEW again, Sync!Add(r, e, wall, again)
      PROVE  SyncInv'
  <2> DEFINE stamp == Sync!Now(Sync!Now(last[r], wall), again)
             op == [kind |-> "add", element |-> e,
                    tag |-> [wall |-> stamp.wall, count |-> stamp.count, node |-> r]]
  <2>1. ops' = ops \cup {op} /\ Sync!Apply(r, op)
    BY <1>1 DEF Sync!Add
  <2>. HIDE DEF stamp
  <2>2. IsOp(op)
    BY DEF IsOp
  <2>. HIDE DEF op
  <2>. QED BY <2>1, <2>2, ApplyKept
<1>2. ASSUME NEW r \in Replicas, NEW e \in Elements, NEW tag, Sync!Remove(r, e, tag)
      PROVE  SyncInv'
  <2> DEFINE op == [kind |-> "remove", element |-> e, tag |-> tag]
  <2>1. ops' = ops \cup {op} /\ Sync!Apply(r, op)
    BY <1>2 DEF Sync!Remove
  <2>2. IsOp(op)
    BY DEF IsOp
  <2>. HIDE DEF op
  <2>. QED BY <2>1, <2>2, ApplyKept
<1>3. ASSUME NEW r \in Replicas, NEW op \in ops, NEW wall, Sync!Receive(r, op, wall)
      PROVE  SyncInv'
  <2>1. ops' = ops \cup {op} /\ Sync!Apply(r, op) /\ IsOp(op)
    BY <1>3 DEF Sync!Receive, SyncInv
  <2>. QED BY <2>1, ApplyKept
<1>4. CASE UNCHANGED cVars
  BY <1>4 DEF cVars, SyncInv
<1>. QED BY <1>1, <1>2, <1>3, <1>4 DEF Sync!Next

\* Replicas that have seen the same ops hold the same captures, and an add no
\* remove has observed is live wherever ORSet.Apply has seen it, for any number
\* of devices and whatever the clocks, the order and the duplicates.
THEOREM SyncConverges == Spec => []Converges
<1> DEFINE Inv == focus = "sync" => SyncInv
<1>1. Init => Inv
  BY InitSyncInv DEF Init
<1>2. Inv /\ [Next]_vars => Inv'
  <2> SUFFICES ASSUME Inv, [Next]_vars, focus' = "sync" PROVE SyncInv'
    OBVIOUS
  <2>1. focus = "sync" /\ (Sync!Next \/ UNCHANGED cVars)
    BY DEF Next, OperatorStep, DedupStep, GuardStep, SyncStep, StoreStep, BreakerStep, vars
  <2>. QED BY <2>1, NextSyncInv
<1>3. Inv => Converges
  <2> SUFFICES ASSUME SyncInv PROVE Sync!Converges
    BY DEF Converges
  <2>1. ASSUME NEW r \in Replicas, NEW q \in Replicas, opsSeen[r] = opsSeen[q], NEW e \in Elements
        PROVE  Sync!Contains(r, e) = Sync!Contains(q, e)
    BY <2>1 DEF SyncInv, Sync!Contains
  <2>2. ASSUME NEW r \in Replicas, NEW op \in ops, op.kind = "add", op \in opsSeen[r],
               [op EXCEPT !.kind = "remove"] \notin ops
        PROVE  Sync!Contains(r, op.element)
    <3>1. IsOp(op) /\ op.element \in Elements
      BY DEF SyncInv, IsOp
    <3>2. op.tag \in adds[r][op.element]
      BY <2>2, <3>1 DEF SyncInv, TagsOf
    <3>3. ASSUME op.tag \in removes[r][op.element] PROVE FALSE
      <4>1. PICK o \in opsSeen[r] : o.kind = "remove" /\ o.element = op.element /\ o.tag = op.tag
        BY <3>1, <3>3 DEF SyncInv, TagsOf
      <4>2. o \in ops /\ IsOp(o)
        BY DEF SyncInv
      <4>3. o = [kind |-> "remove", element |-> op.element, tag |-> op.tag]
        BY <4>1, <4>2 DEF IsOp
      <4>4. [op EXCEPT !.kind = "remove"] = [kind |-> "remove", element |-> op.element, tag |-> op.tag]
        BY <3>1 DEF IsOp
      <4>. QED BY <2>2, <4>2, <4>3, <4>4
    <3>. QED BY <3>2, <3>3 DEF Sync!Contains
  <2>. QED BY <2>1, <2>2 DEF Sync!Converges
<1>. QED BY <1>1, <1>2, <1>3, PTL DEF Spec

-----------------------------------------------------------------------------
(* The operator lifecycle.                                                 *)

NINs == {"own", "other"}
TINs == {"none", "graph", "local"}
RunPath == <<"nin_verified", "tin_provisioned">>
Paths == Seq(Operator!OperatorStatuses)

OpFrames ==
  [kind : {"call", "run", "batch"}, op : OpIds \cup {Operator!NoOperator},
   copy : Operator!Operators \cup {Operator!NoOperator}, path : Paths, final : BOOLEAN,
   from : Operator!OperatorStatuses, run : RunIds \cup {Operator!NoRun}, nin : NINs, tin : TINs,
   tries : Nat, ussd : BOOLEAN, key : BatchKeys \cup {Operator!NoRun}, items : Nat,
   doc : DocIds \cup {Operator!NoRun}]

\* Those NIMC or a caller of the status endpoints vouches for.
Vouched == {o \in OpIds : genuine \/ o \in asserted}

\* A record, stored or a copy of one, claims a TIN or a verified status only
\* for an operator somebody vouches for.
RecordOK(o, rec, V, B) ==
  /\ rec \in Operator!Operators /\ rec.nin = "own"
  /\ rec.status \in Operator!Verified \/ rec.tin # "none" => o \in V
  /\ rec.status \in {"tin_provisioned", "graduated"} => rec.tin # "none" \/ o \in B

\* The transitions still to apply claim no more.
PathOK(f, V, B) ==
  \A i \in 1..Len(f.path) :
    /\ f.path[i] \in Operator!Verified => f.op \in V
    /\ f.path[i] \in {"tin_provisioned", "graduated"} => f.copy.tin # "none" \/ f.op \in B

\* A request at a place, with its frame, given the stored, the vouched for and
\* those a caller vouched for.
Claim(at, f, S, V, B) ==
  /\ at \notin {"idle", "insert", "item"} => f.op \in S
  /\ at = "insert" =>
       /\ f.copy \in Operator!Operators /\ f.copy.nin = "own"
       /\ f.copy.status = "registered" /\ f.copy.tin = "none"
  /\ at \in {"apply", "audit", "final", "merge"} => RecordOK(f.op, f.copy, V, B)
  /\ at \in {"apply", "audit"} => PathOK(f, V, B)
  /\ at = "apply" => f.path # <<>>
  /\ at = "attach" => f.doc \in DocIds
  /\ at \in {"provision", "update"} \/ (at \in {"apply", "audit"} /\ f.kind = "run") =>
       f.nin = "own" /\ f.op \in V
  /\ at = "update" \/ (at \in {"apply", "audit"} /\ f.kind = "run") => f.tin # "none"

OpTypes ==
  /\ genuine \in BOOLEAN
  /\ operators \in [OpIds -> Operator!Operators \cup {Operator!NoOperator}]
  /\ runs \in [RunIds -> Operator!Runs \cup {Operator!NoRun}]
  /\ asserted \subseteq OpIds
  /\ oPc \in [OpWorkers -> Operator!Labels] /\ oLoc \in [OpWorkers -> OpFrames]

OperatorInv ==
  /\ OpTypes
  /\ \A o \in Operator!Stored : RecordOK(o, operators[o], Vouched, asserted)
  /\ \A r \in RunIds : runs[r] # Operator!NoRun => runs[r].op \in Operator!Stored
  /\ \A w \in OpWorkers : Claim(oPc[w], oLoc[w], Operator!Stored, Vouched, asserted)

\* What a step does to the tables.
TablesKept ==
  /\ genuine' = genuine /\ asserted \subseteq asserted' /\ asserted' \subseteq OpIds
  /\ operators' \in [OpIds -> Operator!Operators \cup {Operator!NoOperator}]
  /\ runs' \in [RunIds -> Operator!Runs \cup {Operator!NoRun}]
  /\ Operator!Stored \subseteq Operator!Stored'
  /\ \A o \in Operator!Stored' : RecordOK(o, operators'[o], Vouched', asserted')
  /\ \A r \in RunIds : runs'[r] # Operator!NoRun => runs'[r].op \in Operator!Stored'

\* A request arrives at a place where its claim holds.
Lands(w) ==
  \E at \in Operator!Labels, f \in OpFrames :
    /\ Operator!Goto(w, at) /\ Operator!Frame(w, f)
    /\ Claim(at, f, Operator!Stored, Vouched, asserted)

\* Claims are about what only grows.
LEMMA ClaimGrows ==
  ASSUME NEW at, NEW f, NEW S, NEW V, NEW B, NEW S2, NEW V2, NEW B2,
         S \subseteq S2, V \subseteq V2, B \subseteq B2, Claim(at, f, S, V, B)
  PROVE  Claim(at, f, S2, V2, B2)
<1>1. RecordOK(f.op, f.copy, V, B) => RecordOK(f.op, f.copy, V2, B2)
  BY DEF RecordOK
<1>2. PathOK(f, V, B) => PathOK(f, V2, B2)
  BY DEF PathOK
<1>. QED BY <1>1, <1>2 DEF Claim

LEMMA VouchedGrows ==
  ASSUME TablesKept PROVE Vouched \subseteq Vouched'
BY DEF TablesKept, Vouched

\* One request moves, the others keep their claims.
LEMMA OpStep ==
  ASSUME OperatorInv, TablesKept, NEW w \in OpWorkers, NEW at \in Operator!Labels, NEW f \in OpFrames,
         Operator!Goto(w, at), Operator!Frame(w, f),
         Claim(at, f, Operator!Stored', Vouched', asserted')
  PROVE  OperatorInv'
<1>1. OpTypes
  BY DEF OperatorInv
<1>2. OpTypes'
  BY <1>1 DEF OpTypes, TablesKept, Operator!Goto, Operator!Frame
<1>3. ASSUME NEW v \in OpWorkers PROVE Claim(oPc'[v], oLoc'[v], Operator!Stored', Vouched', asserted')
  <2>1. CASE v = w
    <3>1. oPc'[w] = at /\ oLoc'[w] = f
      BY <1>1 DEF OpTypes, Operator!Goto, Operator!Frame
    <3>. QED BY <2>1, <3>1
  <2>2. CASE v # w
    <3>1. oPc'[v] = oPc[v] /\ oLoc'[v] = oLoc[v]
      BY <1>1, <2>2 DEF OpTypes, Operator!Goto, Operator!Frame
    <3>2. Claim(oPc[v], oLoc[v], Operator!Stored, Vouched, asserted)
      BY DEF OperatorInv
    <3>3. /\ Operator!Stored \subseteq Operator!Stored' /\ Vouched \subseteq Vouched'
          /\ asserted \subseteq asserted'
      BY VouchedGrows DEF TablesKept
    <3>. QED BY <3>1, <3>2, <3>3, ClaimGrows
  <2>. QED BY <2>1, <2>2
<1>. QED BY <1>2, <1>3 DEF OperatorInv, TablesKept

LEMMA Landed ==
  ASSUME OperatorInv, TablesKept, NEW w \in OpWorkers, Lands(w)
  PROVE  OperatorInv'
<1>1. PICK at \in Operator!Labels, f \in OpFrames :
        /\ Operator!Goto(w, at) /\ Operator!Frame(w, f)
        /\ Claim(at, f, Operator!Stored, Vouched, asserted)
  BY DEF Lands
<1>2. Claim(at, f, Operator!Stored', Vouched', asserted')
  <2>1. /\ Operator!Stored \subseteq Operator!Stored' /\ Vouched \subseteq Vouched'
        /\ asserted \subseteq asserted'
    BY VouchedGrows DEF TablesKept
  <2>. QED BY <1>1, <2>1, ClaimGrows
<1>. QED BY <1>1, <1>2, OpStep

\* A step that leaves the tables the proof is about alone.
LEMMA TablesSame ==
  ASSUME OperatorInv, UNCHANGED <<genuine, operators, runs, asserted>>
  PROVE  TablesKept
<1>1. Operator!Stored' = Operator!Stored /\ Vouched' = Vouched
  BY DEF Operator!Stored, Vouched
<1>. QED BY <1>1 DEF OperatorInv, OpTypes, TablesKept

\* A stored operator is not the absence of one.
LEMMA OperatorExists == \A rec \in Operator!Operators : rec # Operator!NoOperator
<1> SUFFICES ASSUME NEW rec \in Operator!Operators PROVE DOMAIN rec # DOMAIN Operator!NoOperator
  OBVIOUS
<1>1. "nin" \in DOMAIN rec
  BY DEF Operator!Operators
<1>2. "nin" \notin DOMAIN Operator!NoOperator
  BY DEF Operator!NoOperator
<1>. QED BY <1>1, <1>2

\* Create and Update: a Put of a record that claims no more than it may.
LEMMA PutKeeps ==
  ASSUME OperatorInv, UNCHANGED <<genuine, runs, asserted>>,
         NEW o \in OpIds, NEW rec, RecordOK(o, rec, Vouched, asserted),
         operators' = operators \/ operators' = [operators EXCEPT ![o] = rec]
  PROVE  TablesKept
<1>1. rec \in Operator!Operators /\ rec # Operator!NoOperator
  BY OperatorExists DEF RecordOK
<1>2. operators \in [OpIds -> Operator!Operators \cup {Operator!NoOperator}]
  BY DEF OperatorInv, OpTypes
<1>3. /\ operators' \in [OpIds -> Operator!Operators \cup {Operator!NoOperator}]
      /\ \A p \in OpIds : operators'[p] = operators[p] \/ (p = o /\ operators'[p] = rec)
  BY <1>1, <1>2
<1>4. Operator!Stored \subseteq Operator!Stored'
  BY <1>1, <1>3 DEF Operator!Stored
<1>5. Vouched' = Vouched
  BY DEF Vouched
<1>6. \A p \in Operator!Stored' : RecordOK(p, operators'[p], Vouched', asserted')
  BY <1>1, <1>3, <1>5 DEF OperatorInv, Operator!Stored
<1>. QED BY <1>3, <1>4, <1>6 DEF TablesKept, OperatorInv, OpTypes

-----------------------------------------------------------------------------
(* Frames.                                                                 *)

\* The statuses are the six of the table.
LEMMA StatusNames ==
  Operator!OperatorStatuses =
    {"registered", "pending_review", "nin_verified", "tin_provisioned", "rejected", "graduated"}
BY DEF Operator!OperatorStatuses, Operator!operatorTransitions

LEMMA PathNames ==
  /\ <<>> \in Paths /\ RunPath \in Paths
  /\ \A s \in Operator!OperatorStatuses : <<s>> \in Paths
BY StatusNames DEF Paths, RunPath

LEMMA NoFrameFacts == Operator!NoFrame \in OpFrames
BY StatusNames, PathNames DEF Operator!NoFrame, OpFrames, NINs, TINs

LEMMA CallFrameFacts ==
  ASSUME NEW o \in OpIds, NEW rec \in Operator!Operators, NEW path \in Paths, NEW final \in BOOLEAN
  PROVE  /\ Operator!CallFrame(o, rec, path, final) \in OpFrames
         /\ Operator!CallFrame(o, rec, path, final).op = o
         /\ Operator!CallFrame(o, rec, path, final).copy = rec
         /\ Operator!CallFrame(o, rec, path, final).path = path
         /\ Operator!CallFrame(o, rec, path, final).kind = "call"
BY StatusNames, PathNames DEF Operator!CallFrame, Operator!NoFrame, OpFrames, NINs, TINs

LEMMA ProvisionFrameFacts ==
  ASSUME NEW o \in OpIds, NEW nin \in NINs, NEW ussd \in BOOLEAN
  PROVE  /\ Operator!ProvisionFrame(o, nin, ussd) \in OpFrames
         /\ Operator!ProvisionFrame(o, nin, ussd).op = o
         /\ \A r \in RunIds :
              /\ [Operator!ProvisionFrame(o, nin, ussd) EXCEPT !.run = r] \in OpFrames
              /\ [Operator!ProvisionFrame(o, nin, ussd) EXCEPT !.run = r].op = o
BY StatusNames, PathNames DEF Operator!ProvisionFrame, Operator!NoFrame, OpFrames, NINs, TINs

\* The frame a workflow is left with when its call has ended.
RunFrame(o, r, u) == [Operator!NoFrame EXCEPT !.kind = "run", !.op = o, !.run = r, !.ussd = u]

LEMMA RunFrameFacts ==
  ASSUME NEW o \in OpIds \cup {Operator!NoOperator}, NEW r \in RunIds \cup {Operator!NoRun},
         NEW u \in BOOLEAN
  PROVE  RunFrame(o, r, u) \in OpFrames /\ RunFrame(o, r, u).op = o
BY StatusNames, PathNames DEF RunFrame, Operator!NoFrame, OpFrames, NINs, TINs

LEMMA EndedFacts ==
  ASSUME NEW f \in OpFrames
  PROVE  Operator!Ended(f) \in OpFrames /\ Operator!Ended(f).op = f.op
<1>1. /\ f.op \in OpIds \cup {Operator!NoOperator} /\ f.run \in RunIds \cup {Operator!NoRun}
      /\ f.ussd \in BOOLEAN
  BY DEF OpFrames
<1>2. Operator!Ended(f) = RunFrame(f.op, f.run, f.ussd)
  BY Zenon DEF Operator!Ended, RunFrame
<1>3. RunFrame(f.op, f.run, f.ussd) \in OpFrames /\ RunFrame(f.op, f.run, f.ussd).op = f.op
  BY <1>1, RunFrameFacts
<1>. QED BY <1>2, <1>3, Zenon

\* Head and tail of what is still to apply.
LEMMA PathSteps ==
  ASSUME NEW p \in Paths, p # <<>>
  PROVE  /\ Len(p) \in Nat /\ 1 \in 1..Len(p) /\ Head(p) = p[1]
         /\ Head(p) \in Operator!OperatorStatuses /\ Tail(p) \in Paths
         /\ \A i \in 1..Len(Tail(p)) : i + 1 \in 1..Len(p) /\ Tail(p)[i] = p[i + 1]
<1>1. p \in Seq(Operator!OperatorStatuses)
  BY DEF Paths
<1>. QED BY <1>1 DEF Paths

\* The fields the runner and the registry change.
LEMMA FrameEdits ==
  ASSUME NEW f \in OpFrames
  PROVE  /\ \A r \in RunIds : [f EXCEPT !.run = r] \in OpFrames /\ [f EXCEPT !.run = r].op = f.op
         /\ [f EXCEPT !.from = "registered"] \in OpFrames
         /\ [f EXCEPT !.from = "registered"].op = f.op /\ [f EXCEPT !.from = "registered"].copy = f.copy
BY StatusNames DEF OpFrames

LEMMA FieldTypes ==
  ASSUME NEW f \in OpFrames
  PROVE  /\ f.op \in OpIds \cup {Operator!NoOperator} /\ f.nin \in NINs /\ f.tin \in TINs
         /\ f.tries \in Nat /\ f.path \in Paths /\ f.run \in RunIds \cup {Operator!NoRun}
         /\ f.items \in Nat
BY DEF OpFrames

Attempt(f, n, t, k) == [f EXCEPT !.nin = n, !.tin = t, !.tries = k]

LEMMA AttemptEdits ==
  ASSUME NEW f \in OpFrames, NEW n \in NINs, NEW t \in TINs, NEW k \in Nat
  PROVE  /\ Attempt(f, n, t, k) \in OpFrames /\ Attempt(f, n, t, k).op = f.op
         /\ Attempt(f, n, t, k).nin = n /\ Attempt(f, n, t, k).tin = t
BY DEF OpFrames, Attempt

WithNIN(f, n) == [[f EXCEPT !.nin = n] EXCEPT !.tries = 1]
WithTIN(f, t) == [[f EXCEPT !.tin = t] EXCEPT !.tries = 1]
WithCopy(f, rec) == [f EXCEPT !.copy = rec]
WithPath(f, rec, p) == [f EXCEPT !.copy = rec, !.path = p]

LEMMA NINEdit ==
  ASSUME NEW f \in OpFrames, NEW n \in NINs
  PROVE  WithNIN(f, n) \in OpFrames /\ WithNIN(f, n).op = f.op /\ WithNIN(f, n).nin = n
BY DEF OpFrames, WithNIN

LEMMA TINEdit ==
  ASSUME NEW f \in OpFrames, NEW t \in TINs
  PROVE  /\ WithTIN(f, t) \in OpFrames /\ WithTIN(f, t).op = f.op
         /\ WithTIN(f, t).nin = f.nin /\ WithTIN(f, t).tin = t
BY DEF OpFrames, WithTIN

LEMMA CopyEdit ==
  ASSUME NEW f \in OpFrames, NEW rec \in Operator!Operators \cup {Operator!NoOperator}
  PROVE  WithCopy(f, rec) \in OpFrames /\ WithCopy(f, rec).op = f.op /\ WithCopy(f, rec).copy = rec
BY DEF OpFrames, WithCopy

LEMMA PathEdit ==
  ASSUME NEW f \in OpFrames, NEW rec \in Operator!Operators, NEW p \in Paths
  PROVE  /\ WithPath(f, rec, p) \in OpFrames /\ WithPath(f, rec, p).op = f.op
         /\ WithPath(f, rec, p).copy = rec /\ WithPath(f, rec, p).path = p
         /\ WithPath(f, rec, p).nin = f.nin /\ WithPath(f, rec, p).tin = f.tin
BY DEF OpFrames, WithPath

\* Every place has its name.
LEMMA LabelNames ==
  Operator!Labels =
    {"idle", "insert", "start", "verify", "provision", "update", "apply", "audit", "final",
     "completed", "failed", "park", "item", "merge", "attach"}
BY DEF Operator!Labels

-----------------------------------------------------------------------------
(* Where a request lands.                                                  *)

\* What is known of a request.
LEMMA WorkerFacts ==
  ASSUME OperatorInv, NEW w \in OpWorkers
  PROVE  /\ OpTypes /\ oLoc[w] \in OpFrames /\ oPc[w] \in Operator!Labels
         /\ Claim(oPc[w], oLoc[w], Operator!Stored, Vouched, asserted)
         /\ Operator!Stored \subseteq OpIds
BY DEF OperatorInv, OpTypes, Operator!Stored

\* At the end of a request, and wherever only the operator matters.
LEMMA EasyLanding ==
  ASSUME NEW w \in OpWorkers, NEW at \in Operator!Labels, NEW f \in OpFrames,
         Operator!Goto(w, at), Operator!Frame(w, f),
         \/ at \in {"idle", "item"}
         \/ at \in {"start", "verify", "completed", "failed", "park"} /\ f.op \in Operator!Stored
  PROVE  Lands(w)
<1>1. Claim(at, f, Operator!Stored, Vouched, asserted)
  BY DEF Claim
<1>. QED BY <1>1 DEF Lands

LEMMA Returns ==
  ASSUME NEW w \in OpWorkers, Operator!Goto(w, "idle"), Operator!Frame(w, Operator!NoFrame)
  PROVE  Lands(w)
BY NoFrameFacts, LabelNames, EasyLanding

\* ExecuteActivity tries again with what the run knows, or gives up.
LEMMA RetryLands ==
  ASSUME NEW w \in OpWorkers, oLoc[w] \in OpFrames, oLoc[w].op \in Operator!Stored,
         NEW act \in {"verify", "update"}, Operator!Retry(w, act),
         act = "update" => oLoc[w].nin = "own" /\ oLoc[w].op \in Vouched /\ oLoc[w].tin # "none"
  PROVE  Lands(w)
<1> DEFINE f == oLoc[w]
           k == f.tries + 1
           n == f.nin
           t == f.tin
           e == Operator!Ended(f)
           g == Attempt(e, n, t, k)
<1>1. e \in OpFrames /\ e.op = f.op
  BY EndedFacts
<1>2. n \in NINs /\ t \in TINs /\ k \in Nat
  BY FieldTypes
<1>3. g \in OpFrames /\ g.op = f.op /\ g.nin = n /\ g.tin = t
  <2>. HIDE DEF n, t, k, e, f
  <2>1. g \in OpFrames /\ g.op = e.op /\ g.nin = n /\ g.tin = t
    BY <1>1, <1>2, AttemptEdits
  <2>. QED BY <1>1, <2>1
<1>4. \/ Operator!Goto(w, act) /\ Operator!Frame(w, g)
      \/ Operator!Goto(w, "failed") /\ Operator!Frame(w, Operator!Ended(f))
  BY DEF Operator!Retry, Attempt
<1>5. CASE Operator!Goto(w, "failed") /\ Operator!Frame(w, Operator!Ended(f))
  BY <1>1, <1>5, LabelNames, EasyLanding
<1>6. CASE Operator!Goto(w, act) /\ Operator!Frame(w, g)
  <2>1. g.op \in Operator!Stored /\ (act = "update" => g.nin = "own" /\ g.op \in Vouched /\ g.tin # "none")
    BY <1>3
  <2>. HIDE DEF g
  <2>2. Claim(act, g, Operator!Stored, Vouched, asserted)
    BY <2>1 DEF Claim
  <2>3. act \in Operator!Labels
    BY LabelNames
  <2>. QED BY <1>3, <1>6, <2>2, <2>3 DEF Lands
<1>. QED BY <1>4, <1>5, <1>6

\* A transition that failed.
LEMMA RefusedLands ==
  ASSUME OperatorInv, NEW w \in OpWorkers, oPc[w] \in {"apply", "audit"}, Operator!Refused(w)
  PROVE  Lands(w)
<1>1. /\ oLoc[w] \in OpFrames /\ oLoc[w].op \in Operator!Stored
      /\ oLoc[w].kind = "run" => oLoc[w].nin = "own" /\ oLoc[w].op \in Vouched /\ oLoc[w].tin # "none"
  BY WorkerFacts DEF Claim
<1>2. CASE oLoc[w].kind = "run"
  BY <1>1, <1>2, RetryLands DEF Operator!Refused
<1>3. CASE oLoc[w].kind # "run"
  BY <1>3, Returns DEF Operator!Refused
<1>. QED BY <1>2, <1>3

\* A transition that went through.
LEMMA SettledLands ==
  ASSUME NEW w \in OpWorkers, NEW f \in OpFrames, f.op \in Operator!Stored,
         RecordOK(f.op, f.copy, Vouched, asserted), PathOK(f, Vouched, asserted),
         f.kind = "run" => f.nin = "own" /\ f.op \in Vouched /\ f.tin # "none",
         Operator!Settled(w, f)
  PROVE  Lands(w)
<1> DEFINE g == [f EXCEPT !.from = "registered"]
<1>1. \/ f.path # <<>> /\ Operator!Goto(w, "apply") /\ Operator!Frame(w, f)
      \/ Operator!Goto(w, "final") /\ Operator!Frame(w, g)
      \/ Operator!Goto(w, "completed") /\ Operator!Frame(w, Operator!Ended(f))
      \/ Operator!Goto(w, "idle") /\ Operator!Frame(w, Operator!NoFrame)
  BY DEF Operator!Settled
<1>2. CASE f.path # <<>> /\ Operator!Goto(w, "apply") /\ Operator!Frame(w, f)
  <2>1. Claim("apply", f, Operator!Stored, Vouched, asserted)
    BY <1>2 DEF Claim
  <2>. QED BY <1>2, <2>1, LabelNames DEF Lands
<1>3. CASE Operator!Goto(w, "final") /\ Operator!Frame(w, g)
  <2>1. g \in OpFrames /\ g.op = f.op /\ g.copy = f.copy
    BY FrameEdits
  <2>. HIDE DEF g
  <2>2. Claim("final", g, Operator!Stored, Vouched, asserted)
    BY <2>1 DEF Claim
  <2>. QED BY <1>3, <2>1, <2>2, LabelNames DEF Lands
<1>4. CASE Operator!Goto(w, "completed") /\ Operator!Frame(w, Operator!Ended(f))
  BY <1>4, EndedFacts, LabelNames, EasyLanding
<1>5. CASE Operator!Goto(w, "idle") /\ Operator!Frame(w, Operator!NoFrame)
  BY <1>5, Returns
<1>. QED BY <1>1, <1>2, <1>3, <1>4, <1>5

-----------------------------------------------------------------------------
(* The operations.                                                         *)

\* A request that begins where only the operator matters.
LEMMA BegunKept ==
  ASSUME OperatorInv, UNCHANGED <<genuine, operators, runs, asserted>>,
         NEW w \in OpWorkers, NEW f \in OpFrames, NEW at, Operator!Begin(w, f, at),
         at = "item" \/ (at = "start" /\ f.op \in Operator!Stored)
  PROVE  OperatorInv'
<1>1. Operator!Goto(w, at) /\ Operator!Frame(w, f) /\ at \in Operator!Labels
  BY LabelNames DEF Operator!Begin
<1>2. Lands(w)
  BY <1>1, EasyLanding
<1>. QED BY <1>2, TablesSame, Landed

LEMMA CreateOperatorKept ==
  ASSUME OperatorInv, NEW w \in OpWorkers, NEW ussd \in BOOLEAN, Operator!CreateOperator(w, ussd)
  PROVE  OperatorInv'
<1> DEFINE rec == Operator!NewOperator(1, FALSE)
           f == [Operator!NoFrame EXCEPT !.ussd = ussd, !.copy = rec]
<1>1. /\ Operator!Goto(w, "insert") /\ Operator!Frame(w, f)
      /\ UNCHANGED <<genuine, operators, runs, asserted>>
  BY DEF Operator!CreateOperator, Operator!Begin, Operator!Tables
<1>2. /\ rec \in Operator!Operators
      /\ rec.nin = "own" /\ rec.status = "registered" /\ rec.tin = "none"
  BY StatusNames DEF Operator!NewOperator, Operator!Operators
<1>3. f \in OpFrames /\ f.copy = rec
  <2>. HIDE DEF rec
  <2>. QED BY <1>2, NoFrameFacts DEF OpFrames
<1>4. Claim("insert", f, Operator!Stored, Vouched, asserted)
  <2>. HIDE DEF rec, f
  <2>. QED BY <1>2, <1>3 DEF Claim
<1>5. Lands(w)
  <2>. HIDE DEF f
  <2>. QED BY <1>1, <1>3, <1>4, LabelNames DEF Lands
<1>. QED BY <1>1, <1>5, TablesSame, Landed

LEMMA ProvisionKept ==
  ASSUME OperatorInv, NEW w \in OpWorkers,
         \/ Operator!RegisterDuplicate(w)
         \/ \E o \in OpIds, nin \in NINs : Operator!Provision(w, o, nin)
  PROVE  OperatorInv'
<1>1. UNCHANGED <<genuine, operators, runs, asserted>>
  BY DEF Operator!RegisterDuplicate, Operator!Provision, Operator!Tables
<1>2. PICK o \in Operator!Stored, nin \in NINs, ussd \in BOOLEAN :
        Operator!Begin(w, Operator!ProvisionFrame(o, nin, ussd), "start")
  BY DEF Operator!RegisterDuplicate, Operator!Provision, Operator!FindByNINHash, NINs
<1>3. o \in OpIds
  BY DEF Operator!Stored
<1>4. /\ Operator!ProvisionFrame(o, nin, ussd) \in OpFrames
      /\ Operator!ProvisionFrame(o, nin, ussd).op = o
  BY <1>3, ProvisionFrameFacts
<1>. QED BY <1>1, <1>2, <1>4, BegunKept

LEMMA RedriveKept ==
  ASSUME OperatorInv, NEW w \in OpWorkers, NEW r \in RunIds, Operator!Redrive(w, r)
  PROVE  OperatorInv'
<1> DEFINE o == runs[r].op
           nin == runs[r].nin
           f == [Operator!ProvisionFrame(o, nin, FALSE) EXCEPT !.run = r]
<1>1. UNCHANGED <<genuine, operators, runs, asserted>> /\ Operator!Begin(w, f, "start")
  BY DEF Operator!Redrive, Operator!Tables
<1>2. runs[r] \in Operator!Runs /\ o \in Operator!Stored
  BY DEF Operator!Redrive, OperatorInv, OpTypes
<1>3. nin \in NINs /\ o \in OpIds
  BY <1>2 DEF Operator!Runs, NINs
<1>4. f \in OpFrames /\ f.op = o
  <2>. HIDE DEF o, nin
  <2>. QED BY <1>3, ProvisionFrameFacts
<1>. HIDE DEF f, o, nin
<1>. QED BY <1>1, <1>2, <1>4, BegunKept

LEMMA IngestKept ==
  ASSUME OperatorInv, NEW w \in OpWorkers, NEW k \in BatchKeys, Operator!Ingest(w, k)
  PROVE  OperatorInv'
<1> DEFINE f == [Operator!NoFrame EXCEPT !.kind = "batch", !.key = k]
<1>1. UNCHANGED <<genuine, operators, runs, asserted>> /\ Operator!Begin(w, f, "item")
  BY DEF Operator!Ingest, Operator!Tables
<1>2. f \in OpFrames
  BY NoFrameFacts DEF OpFrames
<1>. HIDE DEF f
<1>. QED BY <1>1, <1>2, BegunKept

LEMMA CompleteKept ==
  ASSUME OperatorInv, NEW w \in OpWorkers, NEW o \in OpIds, NEW d \in DocIds, Operator!Complete(w, o, d)
  PROVE  OperatorInv'
<1> DEFINE f == [Operator!NoFrame EXCEPT !.op = o, !.doc = d]
<1>1. /\ UNCHANGED <<genuine, operators, runs, asserted>> /\ o \in Operator!Stored
      /\ Operator!Goto(w, "attach") /\ Operator!Frame(w, f)
  BY DEF Operator!Complete, Operator!Begin
<1>2. f \in OpFrames /\ f.op = o /\ f.doc = d
  BY NoFrameFacts DEF OpFrames
<1>. HIDE DEF f
<1>3. Claim("attach", f, Operator!Stored, Vouched, asserted)
  BY <1>1, <1>2 DEF Claim
<1>4. Lands(w)
  BY <1>1, <1>2, <1>3, LabelNames DEF Lands
<1>. QED BY <1>1, <1>4, TablesSame, Landed

\* One transition to apply, or none.
LEMMA OneStepOK ==
  ASSUME NEW f, NEW s, NEW V, NEW B, f.path = <<s>>,
         s \in Operator!Verified => f.op \in V,
         s \in {"tin_provisioned", "graduated"} => f.copy.tin # "none" \/ f.op \in B
  PROVE  PathOK(f, V, B)
<1>1. \A i \in 1..Len(f.path) : f.path[i] = s
  OBVIOUS
<1>. QED BY <1>1 DEF PathOK

\* A person moves the operator to a verified status.
LEMMA HandKept ==
  ASSUME OperatorInv, UNCHANGED <<genuine, operators, runs>>, NEW o \in OpIds,
         asserted' = asserted \/ asserted' = asserted \cup {o}
  PROVE  TablesKept
<1>1. asserted \subseteq OpIds /\ asserted \subseteq asserted' /\ asserted' \subseteq OpIds
  BY DEF OperatorInv, OpTypes
<1>2. Operator!Stored' = Operator!Stored /\ Vouched \subseteq Vouched'
  BY <1>1 DEF Operator!Stored, Vouched
<1>3. \A p \in Operator!Stored : RecordOK(p, operators[p], Vouched', asserted')
  BY <1>1, <1>2 DEF OperatorInv, RecordOK
<1>. QED BY <1>1, <1>2, <1>3 DEF OperatorInv, OpTypes, TablesKept

\* A request about a stored operator, with a copy that claims no more than it may.
LEMMA CallKept ==
  ASSUME OperatorInv, TablesKept, NEW w \in OpWorkers, NEW o \in Operator!Stored, NEW rec,
         NEW path \in Paths, NEW final \in BOOLEAN, NEW at,
         RecordOK(o, rec, Vouched', asserted'),
         \/ at = "final"
         \/ /\ at = "apply" /\ path # <<>>
            /\ PathOK(Operator!CallFrame(o, rec, path, final), Vouched', asserted'),
         Operator!Goto(w, at), Operator!Frame(w, Operator!CallFrame(o, rec, path, final))
  PROVE  OperatorInv'
<1> DEFINE f == Operator!CallFrame(o, rec, path, final)
<1>1. o \in OpIds /\ rec \in Operator!Operators /\ at \in Operator!Labels
  BY LabelNames DEF Operator!Stored, RecordOK
<1>2. f \in OpFrames /\ f.op = o /\ f.copy = rec /\ f.path = path /\ f.kind = "call"
  BY <1>1, CallFrameFacts
<1>3. o \in Operator!Stored'
  BY DEF TablesKept
<1>. HIDE DEF f
<1>4. Claim(at, f, Operator!Stored', Vouched', asserted')
  <2>1. RecordOK(f.op, f.copy, Vouched', asserted')
    BY <1>2
  <2>2. CASE at = "final"
    BY <1>2, <1>3, <2>1, <2>2 DEF Claim
  <2>3. CASE at = "apply"
    <3>1. PathOK(f, Vouched', asserted') /\ path # <<>>
      BY <2>3 DEF f
    <3>. QED BY <1>2, <1>3, <2>1, <2>3, <3>1 DEF Claim
  <2>. QED BY <2>2, <2>3
<1>5. Operator!Goto(w, at) /\ Operator!Frame(w, f)
  BY DEF f
<1>. QED BY <1>1, <1>2, <1>4, <1>5, OpStep

\* The status calls and PATCH with a status: the caller who makes them vouches.
LEMMA StatusCallKept ==
  ASSUME OperatorInv, NEW w \in OpWorkers, NEW o \in OpIds, NEW to \in Operator!OperatorStatuses,
         Operator!TransitionStatus(w, o, to) \/ Operator!PatchStatus(w, o, to)
  PROVE  OperatorInv'
<1>1. PICK final \in BOOLEAN :
        /\ o \in Operator!Stored /\ UNCHANGED <<genuine, operators, runs>>
        /\ Operator!Goto(w, "apply")
        /\ Operator!Frame(w, Operator!CallFrame(o, operators[o], <<to>>, final))
        /\ asserted' = IF to \in Operator!Verified THEN asserted \cup {o} ELSE asserted
  BY DEF Operator!TransitionStatus, Operator!PatchStatus, Operator!Begin, Operator!Asserts
<1>2. TablesKept
  BY <1>1, HandKept
<1>3. RecordOK(o, operators[o], Vouched', asserted')
  <2>1. o \in Operator!Stored' /\ operators' = operators
    BY <1>1, <1>2 DEF TablesKept
  <2>. QED BY <1>2, <2>1 DEF TablesKept
<1> DEFINE f == Operator!CallFrame(o, operators[o], <<to>>, final)
<1>4. operators[o] \in Operator!Operators /\ <<to>> \in Paths /\ <<to>> # <<>>
  BY <1>3, PathNames DEF RecordOK
<1>5. f.op = o /\ f.copy = operators[o] /\ f.path = <<to>>
  BY <1>4, CallFrameFacts
<1>. HIDE DEF f
<1>6. to \in {"tin_provisioned", "graduated"} => to \in Operator!Verified
  BY DEF Operator!Verified
<1>7. to \in Operator!Verified => o \in asserted' /\ o \in Vouched'
  BY <1>1 DEF Vouched
<1>8. PathOK(f, Vouched', asserted')
  BY <1>5, <1>6, <1>7, OneStepOK
<1>9. PathOK(Operator!CallFrame(o, operators[o], <<to>>, final), Vouched', asserted')
  BY <1>8 DEF f
<1>. QED BY <1>1, <1>2, <1>3, <1>4, <1>9, CallKept

\* A transition to a status that claims nothing, or none.
LEMMA PlainCallKept ==
  ASSUME OperatorInv, UNCHANGED <<genuine, operators, runs, asserted>>, NEW w \in OpWorkers,
         NEW o \in Operator!Stored, NEW rec, RecordOK(o, rec, Vouched, asserted),
         NEW path, NEW final \in BOOLEAN, NEW at,
         \/ path = <<>> /\ at = "final"
         \/ \E s \in {"registered", "pending_review", "rejected"} : path = <<s>> /\ at = "apply",
         Operator!Goto(w, at), Operator!Frame(w, Operator!CallFrame(o, rec, path, final))
  PROVE  OperatorInv'
<1>1. TablesKept /\ Vouched' = Vouched /\ RecordOK(o, rec, Vouched', asserted')
  BY TablesSame DEF Vouched
<1>2. rec \in Operator!Operators /\ path \in Paths /\ o \in OpIds
  BY PathNames, StatusNames DEF RecordOK, Operator!Stored
<1>3. CASE path = <<>> /\ at = "final"
  BY <1>1, <1>2, <1>3, CallKept
<1>4. ASSUME NEW s \in {"registered", "pending_review", "rejected"}, path = <<s>>, at = "apply"
      PROVE  OperatorInv'
  <2> DEFINE f == Operator!CallFrame(o, rec, path, final)
  <2>1. f.path = <<s>>
    BY <1>2, <1>4, CallFrameFacts
  <2>2. s \notin Operator!Verified /\ s \notin {"tin_provisioned", "graduated"}
    BY DEF Operator!Verified
  <2>. HIDE DEF f
  <2>3. PathOK(f, Vouched', asserted')
    BY <2>1, <2>2, OneStepOK
  <2>4. PathOK(Operator!CallFrame(o, rec, path, final), Vouched', asserted') /\ path # <<>>
    BY <1>4, <2>3 DEF f
  <2>. QED BY <1>1, <1>2, <1>4, <2>4, CallKept
<1>. QED BY <1>3, <1>4

LEMMA StoredOK ==
  ASSUME OperatorInv, NEW o \in Operator!Stored
  PROVE  /\ o \in OpIds /\ operators[o] \in Operator!Operators
         /\ RecordOK(o, operators[o], Vouched, asserted)
BY DEF OperatorInv, Operator!Stored, RecordOK

LEMMA PatchFieldsKept ==
  ASSUME OperatorInv, NEW w \in OpWorkers, NEW o \in OpIds, Operator!PatchFields(w, o)
  PROVE  OperatorInv'
<1>1. /\ o \in Operator!Stored /\ UNCHANGED <<genuine, operators, runs, asserted>>
      /\ Operator!Goto(w, "final")
      /\ Operator!Frame(w, Operator!CallFrame(o, operators[o], <<>>, TRUE))
  BY DEF Operator!PatchFields, Operator!Begin, Operator!Tables
<1>2. RecordOK(o, operators[o], Vouched, asserted)
  BY <1>1, StoredOK
<1>. QED BY <1>1, <1>2, PlainCallKept

LEMMA ReviewKept ==
  ASSUME OperatorInv, NEW w \in OpWorkers, NEW o \in OpIds, NEW decision \in {"approved", "rejected"},
         Operator!Review(w, o, decision)
  PROVE  OperatorInv'
<1> DEFINE rec == [operators[o] EXCEPT !.review = decision]
<1>1. PICK path :
        /\ o \in Operator!Stored /\ UNCHANGED <<genuine, operators, runs, asserted>>
        /\ path \in {<<>>, <<"registered">>, <<"rejected">>}
        /\ Operator!Goto(w, IF path = <<>> THEN "final" ELSE "apply")
        /\ Operator!Frame(w, Operator!CallFrame(o, rec, path, TRUE))
  <2> DEFINE path == CASE decision = "approved" /\ rec.status = "pending_review" -> <<"registered">>
                       [] decision = "rejected" /\ rec.status # "rejected" -> <<"rejected">>
                       [] OTHER -> <<>>
  <2>1. /\ o \in Operator!Stored /\ UNCHANGED <<genuine, operators, runs, asserted>>
        /\ Operator!Goto(w, IF path = <<>> THEN "final" ELSE "apply")
        /\ Operator!Frame(w, Operator!CallFrame(o, rec, path, TRUE))
    BY DEF Operator!Review, Operator!Begin, Operator!Tables
  <2>2. path \in {<<>>, <<"registered">>, <<"rejected">>}
    OBVIOUS
  <2>. HIDE DEF path, rec
  <2>. QED BY <2>1, <2>2
<1>2. RecordOK(o, rec, Vouched, asserted)
  <2>1. operators[o] \in Operator!Operators /\ RecordOK(o, operators[o], Vouched, asserted)
    BY <1>1, StoredOK
  <2>2. /\ rec \in Operator!Operators /\ rec.nin = operators[o].nin
        /\ rec.status = operators[o].status /\ rec.tin = operators[o].tin
    BY <2>1 DEF Operator!Operators
  <2>. HIDE DEF rec
  <2>. QED BY <2>1, <2>2 DEF RecordOK
<1>. HIDE DEF rec
<1>3. CASE path = <<>>
  <2>1. Operator!Goto(w, "final")
    BY <1>1, <1>3
  <2>. QED BY <1>1, <1>2, <1>3, <2>1, PlainCallKept
<1>4. CASE path # <<>>
  <2>1. PICK s \in {"registered", "rejected"} : path = <<s>>
    BY <1>1, <1>4
  <2>2. Operator!Goto(w, "apply")
    BY <1>1, <1>4
  <2>. QED BY <1>1, <1>2, <2>1, <2>2, PlainCallKept
<1>. QED BY <1>3, <1>4

\* Only a provisioned operator graduates.
LEMMA MBSGraduateKept ==
  ASSUME OperatorInv, NEW w \in OpWorkers, NEW o \in OpIds, Operator!MBSGraduate(w, o)
  PROVE  OperatorInv'
<1>1. PICK final \in BOOLEAN :
        /\ o \in Operator!Stored /\ UNCHANGED <<genuine, operators, runs, asserted>>
        /\ Operator!Goto(w, "apply")
        /\ Operator!Frame(w, Operator!CallFrame(o, operators[o], <<"graduated">>, final))
        /\ Operator!CanTransition(operators[o].status, "graduated")
  BY DEF Operator!MBSGraduate, Operator!Begin, Operator!Tables
<1> DEFINE f == Operator!CallFrame(o, operators[o], <<"graduated">>, final)
<1>2. operators[o] \in Operator!Operators /\ RecordOK(o, operators[o], Vouched, asserted)
  BY <1>1, StoredOK
<1>3. TablesKept /\ Vouched' = Vouched /\ asserted' = asserted
  BY <1>1, TablesSame DEF Vouched
<1>4. operators[o].status \in Operator!OperatorStatuses
  BY <1>2 DEF Operator!Operators
<1>5. operators[o].status \in {"tin_provisioned", "graduated"}
  BY <1>1, <1>4, StatusNames DEF Operator!CanTransition, Operator!operatorTransitions
<1>6. o \in Vouched /\ (operators[o].tin # "none" \/ o \in asserted)
  BY <1>2, <1>5 DEF RecordOK, Operator!Verified
<1>7. <<"graduated">> \in Paths /\ <<"graduated">> # <<>>
  BY PathNames, StatusNames
<1>8. f.op = o /\ f.copy = operators[o] /\ f.path = <<"graduated">>
  BY <1>2, <1>7, CallFrameFacts
<1>9. PathOK(f, Vouched', asserted')
  <2>. HIDE DEF f
  <2>. QED BY <1>3, <1>6, <1>8, OneStepOK
<1>10. RecordOK(o, operators[o], Vouched', asserted')
  BY <1>2, <1>3
<1>. QED BY <1>1, <1>3, <1>7, <1>9, <1>10, CallKept

LEMMA ParkKept ==
  ASSUME OperatorInv, NEW w \in OpWorkers, Operator!Park(w)
  PROVE  OperatorInv'
<1> DEFINE o == oLoc[w].op
<1>1. UNCHANGED <<genuine, operators, runs, asserted>> /\ o \in Operator!Stored
  BY WorkerFacts DEF Operator!Park, Operator!Tables, Claim
<1>2. CASE Operator!Goto(w, "idle") /\ Operator!Frame(w, Operator!NoFrame)
  BY <1>1, <1>2, Returns, TablesSame, Landed
<1>3. CASE /\ Operator!Goto(w, "apply")
           /\ Operator!Frame(w, Operator!CallFrame(o, operators[o], <<"pending_review">>, FALSE))
  <2>. HIDE DEF o
  <2>1. RecordOK(o, operators[o], Vouched, asserted)
    BY <1>1, StoredOK
  <2>. QED BY <1>1, <1>3, <2>1, PlainCallKept
<1>. QED BY <1>2, <1>3 DEF Operator!Park

LEMMA InsertKept ==
  ASSUME OperatorInv, NEW w \in OpWorkers, Operator!Insert(w)
  PROVE  OperatorInv'
<1> DEFINE f == oLoc[w]
<1>1. /\ oPc[w] = "insert" /\ UNCHANGED <<genuine, runs, asserted>> /\ OpTypes /\ f \in OpFrames
      /\ f.copy \in Operator!Operators /\ f.copy.nin = "own" /\ f.copy.status = "registered"
      /\ f.copy.tin = "none"
  BY WorkerFacts DEF Operator!Insert, Operator!Tables, Claim
<1>2. PICK o \in OpIds :
        \/ /\ operators' = [operators EXCEPT ![o] = f.copy]
           /\ CASE f.kind = "batch" -> Operator!Goto(w, "item") /\ UNCHANGED oLoc
                [] f.ussd ->
                     Operator!Goto(w, "start") /\ Operator!Frame(w, Operator!ProvisionFrame(o, "own", TRUE))
                [] OTHER -> Operator!Goto(w, "idle") /\ Operator!Frame(w, Operator!NoFrame)
        \/ /\ operators' \in {operators, [operators EXCEPT ![o] = f.copy]}
           /\ Operator!Goto(w, "idle") /\ Operator!Frame(w, Operator!NoFrame)
  BY DEF Operator!Insert, Operator!PutOperator
<1>. HIDE DEF f
<1>3. RecordOK(o, f.copy, Vouched, asserted)
  BY <1>1 DEF RecordOK, Operator!Verified
<1>4. TablesKept
  BY <1>1, <1>2, <1>3, PutKeeps
<1>5. CASE Operator!Goto(w, "idle") /\ Operator!Frame(w, Operator!NoFrame)
  BY <1>4, <1>5, Returns, Landed
<1>6. CASE Operator!Goto(w, "item") /\ UNCHANGED oLoc
  <2>1. Operator!Frame(w, f)
    BY <1>1, <1>6 DEF OpTypes, Operator!Frame, f
  <2>2. Lands(w)
    BY <1>1, <1>6, <2>1, LabelNames, EasyLanding
  <2>. QED BY <1>4, <2>2, Landed
<1>7. CASE /\ operators' = [operators EXCEPT ![o] = f.copy]
           /\ Operator!Goto(w, "start") /\ Operator!Frame(w, Operator!ProvisionFrame(o, "own", TRUE))
  <2>1. PICK nin \in NINs, ussd \in BOOLEAN : Operator!Frame(w, Operator!ProvisionFrame(o, nin, ussd))
    BY <1>7 DEF NINs
  <2> DEFINE g == Operator!ProvisionFrame(o, nin, ussd)
  <2>2. g \in OpFrames /\ g.op = o
    BY ProvisionFrameFacts
  <2>. HIDE DEF g
  <2>3. o \in Operator!Stored'
    BY <1>1, <1>7, OperatorExists DEF OpTypes, Operator!Stored
  <2>4. Claim("start", g, Operator!Stored', Vouched', asserted')
    BY <2>2, <2>3 DEF Claim
  <2>5. Operator!Frame(w, g)
    BY <2>1 DEF g
  <2>. QED BY <1>4, <1>7, <2>2, <2>4, <2>5, LabelNames, OpStep
<1>. QED BY <1>2, <1>5, <1>6, <1>7

\* The end of a run.
LEMMA RunOver ==
  ASSUME OperatorInv, TablesKept, NEW w \in OpWorkers, oPc[w] \in {"start", "completed", "failed"}, NEW ok,
         Operator!Goto(w, Operator!AfterRun(w, ok)),
         \/ Operator!Frame(w, Operator!Ended(oLoc[w]))
         \/ Operator!AfterRun(w, ok) # "park" /\ Operator!Frame(w, Operator!NoFrame)
  PROVE  OperatorInv'
<1>1. /\ oLoc[w] \in OpFrames /\ oLoc[w].op \in Operator!Stored
      /\ Operator!Ended(oLoc[w]) \in OpFrames /\ Operator!Ended(oLoc[w]).op \in Operator!Stored
  BY WorkerFacts, EndedFacts DEF Claim
<1>2. CASE Operator!AfterRun(w, ok) = "park"
  <2>1. Lands(w)
    BY <1>1, <1>2, LabelNames, EasyLanding
  <2>. QED BY <2>1, Landed
<1>3. CASE Operator!AfterRun(w, ok) = "idle"
  <2>1. Lands(w)
    BY <1>1, <1>3, NoFrameFacts, LabelNames, EasyLanding
  <2>. QED BY <2>1, Landed
<1>. QED BY <1>2, <1>3 DEF Operator!AfterRun

\* The run table names stored operators only.
LEMMA RunsKept ==
  ASSUME OperatorInv, UNCHANGED <<genuine, operators, asserted>>,
         runs' \in [RunIds -> Operator!Runs \cup {Operator!NoRun}],
         \A r \in RunIds : runs'[r] # Operator!NoRun => runs'[r].op \in Operator!Stored
  PROVE  TablesKept
<1>1. Operator!Stored' = Operator!Stored /\ Vouched' = Vouched
  BY DEF Operator!Stored, Vouched
<1>. QED BY <1>1 DEF OperatorInv, OpTypes, TablesKept

LEMMA StartRunKept ==
  ASSUME OperatorInv, NEW w \in OpWorkers, Operator!StartRun(w)
  PROVE  OperatorInv'
<1> DEFINE f == oLoc[w]
           run == [status |-> "running", op |-> f.op, nin |-> f.nin]
<1>1. /\ oPc[w] = "start" /\ OpTypes /\ f \in OpFrames /\ f.op \in Operator!Stored
      /\ UNCHANGED <<genuine, operators, asserted>>
  BY WorkerFacts DEF Operator!StartRun, Claim
<1>2. CASE /\ UNCHANGED runs /\ Operator!Frame(w, Operator!Ended(f))
           /\ Operator!Goto(w, Operator!AfterRun(w, FALSE))
  BY <1>1, <1>2, TablesSame, RunOver
<1>3. ASSUME NEW r \in RunIds, runs' = [runs EXCEPT ![r] = run],
             Operator!Frame(w, [f EXCEPT !.run = r]), Operator!Goto(w, "verify")
      PROVE  OperatorInv'
  <2>1. run \in Operator!Runs /\ run.op = f.op
    BY <1>1, FieldTypes, WorkerFacts DEF Operator!Runs, NINs
  <2>2. runs \in [RunIds -> Operator!Runs \cup {Operator!NoRun}]
    BY <1>1 DEF OpTypes
  <2>3. TablesKept
    <3>. HIDE DEF run
    <3>1. /\ runs' \in [RunIds -> Operator!Runs \cup {Operator!NoRun}]
          /\ \A q \in RunIds : runs'[q] = runs[q] \/ runs'[q] = run
      BY <1>3, <2>1, <2>2
    <3>2. \A q \in RunIds : runs'[q] # Operator!NoRun => runs'[q].op \in Operator!Stored
      BY <1>1, <2>1, <3>1 DEF OperatorInv
    <3>. QED BY <1>1, <3>1, <3>2, RunsKept
  <2>4. [f EXCEPT !.run = r] \in OpFrames /\ [f EXCEPT !.run = r].op = f.op
    BY <1>1, FrameEdits
  <2> DEFINE g == [f EXCEPT !.run = r]
  <2>5. g \in OpFrames /\ g.op \in Operator!Stored /\ Operator!Frame(w, g)
    BY <1>1, <1>3, <2>4
  <2>. HIDE DEF g
  <2>6. Lands(w)
    BY <1>3, <2>5, LabelNames, EasyLanding
  <2>. QED BY <2>3, <2>6, Landed
<1>4. f.run # Operator!NoRun => f.run \in RunIds
  BY <1>1, FieldTypes
<1>. QED BY <1>2, <1>3, <1>4 DEF Operator!StartRun

LEMMA CloseRunKept ==
  ASSUME OperatorInv, NEW w \in OpWorkers, Operator!CloseRun(w)
  PROVE  OperatorInv'
<1> DEFINE r == oLoc[w].run
<1>1. /\ oPc[w] \in {"completed", "failed"} /\ OpTypes /\ UNCHANGED <<genuine, operators, asserted>>
      /\ runs' = runs \/ runs' = [runs EXCEPT ![r].status = oPc[w]]
  BY WorkerFacts DEF Operator!CloseRun
<1>2. TablesKept
  <2>1. runs \in [RunIds -> Operator!Runs \cup {Operator!NoRun}]
    BY <1>1 DEF OpTypes
  <2>2. CASE runs' = runs
    BY <1>1, <2>2, TablesSame
  <2>3. CASE runs' = [runs EXCEPT ![r].status = oPc[w]]
    <3>. HIDE DEF r
    <3>1. ASSUME NEW q \in RunIds
          PROVE  /\ runs'[q] \in Operator!Runs \cup {Operator!NoRun}
                 /\ runs'[q] # Operator!NoRun => runs[q] # Operator!NoRun /\ runs'[q].op = runs[q].op
      <4>1. CASE q # r
        BY <2>1, <2>3, <4>1
      <4>2. CASE q = r /\ runs[q] \in Operator!Runs
        <5>1. runs'[q] = [runs[q] EXCEPT !.status = oPc[w]]
          BY <2>1, <2>3, <4>2
        <5>2. runs'[q] \in Operator!Runs /\ runs'[q].op = runs[q].op
          BY <1>1, <4>2, <5>1 DEF Operator!Runs
        <5>3. runs[q] # Operator!NoRun
          <6>1. "op" \in DOMAIN runs[q] /\ "op" \notin DOMAIN Operator!NoRun
            BY <4>2 DEF Operator!Runs, Operator!NoRun
          <6>. QED BY <6>1
        <5>. QED BY <5>2, <5>3
      <4>3. CASE q = r /\ runs[q] = Operator!NoRun
        <5>1. runs'[q] = [Operator!NoRun EXCEPT !.status = oPc[w]]
          BY <2>1, <2>3, <4>3
        <5>2. [Operator!NoRun EXCEPT !.status = oPc[w]] = Operator!NoRun
          BY DEF Operator!NoRun
        <5>. QED BY <5>1, <5>2
      <4>. QED BY <2>1, <4>1, <4>2, <4>3
    <3>2. runs' \in [RunIds -> Operator!Runs \cup {Operator!NoRun}]
      <4>1. runs' = [q \in RunIds |-> runs'[q]]
        BY <2>1, <2>3
      <4>. QED BY <3>1, <4>1
    <3>3. \A q \in RunIds : runs'[q] # Operator!NoRun => runs'[q].op \in Operator!Stored
      BY <3>1 DEF OperatorInv
    <3>. QED BY <1>1, <3>2, <3>3, RunsKept
  <2>. QED BY <1>1, <2>2, <2>3
<1>3. PICK ok : /\ Operator!Goto(w, Operator!AfterRun(w, ok))
                /\ \/ Operator!Frame(w, Operator!Ended(oLoc[w]))
                   \/ Operator!AfterRun(w, ok) # "park" /\ Operator!Frame(w, Operator!NoFrame)
  BY DEF Operator!CloseRun
<1>. QED BY <1>1, <1>2, <1>3, RunOver

\* act-nimc-verify: the record vouches for itself, or NIMC does for its NIN.
LEMMA NIMCVerifyKept ==
  ASSUME OperatorInv, NEW w \in OpWorkers, Operator!NIMCVerify(w)
  PROVE  OperatorInv'
<1> DEFINE f == oLoc[w]
           o == f.op
           cached == operators[o].status \in Operator!Verified
           proved == cached \/ ((f.nin = "other" \/ genuine) /\ operators[o].nin = f.nin)
           found == IF cached THEN operators[o].nin ELSE f.nin
<1>1. /\ oPc[w] = "verify" /\ f \in OpFrames /\ o \in Operator!Stored
      /\ UNCHANGED <<genuine, operators, runs, asserted>>
  BY WorkerFacts DEF Operator!NIMCVerify, Operator!Tables, Claim
<1>2. TablesKept
  BY <1>1, TablesSame
<1>3. \/ proved /\ Operator!Goto(w, "provision") /\ Operator!Frame(w, WithNIN(f, found))
      \/ Operator!Retry(w, "verify")
  BY DEF Operator!NIMCVerify, Operator!Proceed, Operator!Matches, WithNIN
<1>4. CASE Operator!Retry(w, "verify")
  <2>1. Lands(w)
    BY <1>1, <1>4, RetryLands
  <2>. QED BY <1>2, <2>1, Landed
<1>5. CASE proved /\ Operator!Goto(w, "provision") /\ Operator!Frame(w, WithNIN(f, found))
  <2>1. o \in OpIds /\ RecordOK(o, operators[o], Vouched, asserted) /\ operators[o].nin = "own"
    BY <1>1, StoredOK DEF RecordOK
  <2>2. found = "own"
    BY <1>5, <2>1
  <2>3. o \in Vouched
    BY <1>5, <2>1 DEF RecordOK, Vouched
  <2> DEFINE g == WithNIN(f, found)
  <2>4. g \in OpFrames /\ g.op = o /\ g.nin = "own"
    <3>. HIDE DEF found
    <3>1. found \in NINs
      BY <2>2 DEF NINs
    <3>. QED BY <1>1, <2>2, <3>1, NINEdit
  <2>5. Operator!Frame(w, g) /\ Operator!Goto(w, "provision")
    BY <1>5
  <2>. HIDE DEF g, found, proved, cached, o
  <2>6. Claim("provision", g, Operator!Stored, Vouched, asserted)
    BY <1>1, <2>3, <2>4 DEF Claim
  <2>7. Lands(w)
    BY <2>4, <2>5, <2>6, LabelNames DEF Lands
  <2>. QED BY <1>2, <2>7, Landed
<1>. QED BY <1>3, <1>4, <1>5

LEMMA TINProvisionKept ==
  ASSUME OperatorInv, NEW w \in OpWorkers, Operator!TINProvision(w)
  PROVE  OperatorInv'
<1> DEFINE f == oLoc[w]
           known == operators[f.op].tin
<1>1. /\ f \in OpFrames /\ f.op \in Operator!Stored /\ f.nin = "own" /\ f.op \in Vouched
      /\ UNCHANGED <<genuine, operators, runs, asserted>>
  BY WorkerFacts DEF Operator!TINProvision, Operator!Tables, Claim
<1>2. known \in TINs
  BY <1>1, StoredOK DEF Operator!Operators, TINs
<1>3. PICK tin : /\ tin \in IF known # "none" THEN {known} ELSE {"graph", "local"}
                 /\ Operator!Goto(w, "update") /\ Operator!Frame(w, WithTIN(f, tin))
  BY DEF Operator!TINProvision, Operator!Proceed, WithTIN
<1>4. tin \in TINs /\ tin # "none"
  BY <1>2, <1>3 DEF TINs
<1> DEFINE g == WithTIN(f, tin)
<1>5. g \in OpFrames /\ g.op = f.op /\ g.nin = "own" /\ g.tin # "none"
  BY <1>1, <1>4, TINEdit
<1>. HIDE DEF g
<1>6. Claim("update", g, Operator!Stored, Vouched, asserted)
  BY <1>1, <1>5 DEF Claim
<1>7. Operator!Goto(w, "update") /\ Operator!Frame(w, g)
  BY <1>3 DEF g
<1>8. Lands(w)
  BY <1>5, <1>6, <1>7, LabelNames DEF Lands
<1>. QED BY <1>1, <1>8, TablesSame, Landed

LEMMA OperatorUpdateKept ==
  ASSUME OperatorInv, NEW w \in OpWorkers, Operator!OperatorUpdate(w)
  PROVE  OperatorInv'
<1> DEFINE f == oLoc[w]
           o == f.op
           rec == [operators[o] EXCEPT !.nin = f.nin, !.tin = f.tin]
           g == WithPath(f, rec, RunPath)
<1>1. /\ f \in OpFrames /\ o \in Operator!Stored /\ f.nin = "own" /\ o \in Vouched /\ f.tin # "none"
      /\ UNCHANGED <<genuine, operators, runs, asserted>>
  BY WorkerFacts DEF Operator!OperatorUpdate, Operator!Tables, Claim
<1>2. Operator!Goto(w, "apply") /\ Operator!Frame(w, g)
  BY DEF Operator!OperatorUpdate, WithPath, RunPath
<1>3. f.tin \in TINs /\ operators[o] \in Operator!Operators
  BY <1>1, FieldTypes, StoredOK
<1>4. rec \in Operator!Operators /\ rec.nin = "own" /\ rec.tin # "none"
  BY <1>1, <1>3 DEF Operator!Operators, TINs
<1>. HIDE DEF rec
<1>5. RecordOK(o, rec, Vouched, asserted)
  BY <1>1, <1>4 DEF RecordOK
<1>6. /\ g \in OpFrames /\ g.op = o /\ g.copy = rec /\ g.path = RunPath
      /\ g.nin = "own" /\ g.tin # "none"
  BY <1>1, <1>4, PathNames, PathEdit
<1>. HIDE DEF g, o
<1>7. PathOK(g, Vouched, asserted)
  BY <1>1, <1>4, <1>6 DEF PathOK
<1>8. RunPath # <<>>
  BY DEF RunPath
<1>9. Claim("apply", g, Operator!Stored, Vouched, asserted)
  BY <1>1, <1>5, <1>6, <1>7, <1>8 DEF Claim
<1>10. Lands(w)
  BY <1>2, <1>6, <1>9, LabelNames DEF Lands
<1>. QED BY <1>1, <1>10, TablesSame, Landed

\* Registry.Transition takes the first of the transitions that are left.
Advance(f) == [f EXCEPT !.copy.status = Head(f.path), !.path = Tail(@), !.from = f.copy.status]

LEMMA AdvanceOK ==
  ASSUME NEW f \in OpFrames, NEW V, NEW B, RecordOK(f.op, f.copy, V, B), PathOK(f, V, B), f.path # <<>>
  PROVE  /\ Advance(f) \in OpFrames /\ Advance(f).op = f.op /\ Advance(f).kind = f.kind
         /\ Advance(f).nin = f.nin /\ Advance(f).tin = f.tin
         /\ RecordOK(f.op, Advance(f).copy, V, B) /\ PathOK(Advance(f), V, B)
<1> DEFINE to == Head(f.path)
           rec == [f.copy EXCEPT !.status = to]
           g == Advance(f)
<1>1. f.path \in Paths /\ f.copy \in Operator!Operators
  BY FieldTypes DEF RecordOK
<1>2. /\ to = f.path[1] /\ to \in Operator!OperatorStatuses /\ Tail(f.path) \in Paths
      /\ 1 \in 1..Len(f.path)
      /\ \A i \in 1..Len(Tail(f.path)) : i + 1 \in 1..Len(f.path) /\ Tail(f.path)[i] = f.path[i + 1]
  BY <1>1, PathSteps
<1>3. /\ to \in Operator!Verified => f.op \in V
      /\ to \in {"tin_provisioned", "graduated"} => f.copy.tin # "none" \/ f.op \in B
  BY <1>2 DEF PathOK
<1>. HIDE DEF to
<1>4. /\ rec \in Operator!Operators /\ rec.status = to /\ rec.nin = f.copy.nin /\ rec.tin = f.copy.tin
      /\ f.copy.status \in Operator!OperatorStatuses
  BY <1>1, <1>2 DEF Operator!Operators
<1>5. RecordOK(f.op, rec, V, B)
  <2>. HIDE DEF rec
  <2>. QED BY <1>3, <1>4 DEF RecordOK
<1>6. g = [f EXCEPT !.copy = rec, !.path = Tail(f.path), !.from = f.copy.status]
  BY DEF Advance, to, OpFrames
<1>. HIDE DEF rec, g
<1>7. /\ g \in OpFrames /\ g.op = f.op /\ g.kind = f.kind /\ g.nin = f.nin /\ g.tin = f.tin
      /\ g.copy = rec /\ g.path = Tail(f.path)
  <2>1. /\ g.op = f.op /\ g.kind = f.kind /\ g.nin = f.nin /\ g.tin = f.tin
        /\ g.copy = rec /\ g.path = Tail(f.path)
    BY <1>6 DEF OpFrames
  <2>2. g \in OpFrames
    BY <1>2, <1>4, <1>6 DEF OpFrames
  <2>. QED BY <2>1, <2>2
<1>8. PathOK(g, V, B)
  BY <1>2, <1>4, <1>7 DEF PathOK
<1>. QED BY <1>5, <1>7, <1>8 DEF g

LEMMA ApplyOpKept ==
  ASSUME OperatorInv, NEW w \in OpWorkers, Operator!Apply(w)
  PROVE  OperatorInv'
<1> DEFINE f == oLoc[w]
           g == Advance(f)
<1>1. /\ oPc[w] = "apply" /\ f \in OpFrames /\ f.op \in Operator!Stored /\ f.op \in OpIds
      /\ RecordOK(f.op, f.copy, Vouched, asserted) /\ PathOK(f, Vouched, asserted) /\ f.path # <<>>
      /\ f.kind = "run" => f.nin = "own" /\ f.op \in Vouched /\ f.tin # "none"
      /\ UNCHANGED <<genuine, runs, asserted>>
  BY WorkerFacts DEF Operator!Apply, Operator!Tables, Claim
<1>2. \/ /\ operators' = [operators EXCEPT ![f.op] = g.copy]
         /\ Operator!Settled(w, g) \/ (Operator!Goto(w, "audit") /\ Operator!Frame(w, g))
      \/ operators' \in {operators, [operators EXCEPT ![f.op] = g.copy]} /\ Operator!Refused(w)
  BY DEF Operator!Apply, Operator!PutOperator, Advance
<1>3. /\ g \in OpFrames /\ g.op = f.op /\ g.kind = f.kind /\ g.nin = f.nin /\ g.tin = f.tin
      /\ RecordOK(f.op, g.copy, Vouched, asserted) /\ PathOK(g, Vouched, asserted)
  BY <1>1, AdvanceOK
<1>. HIDE DEF g
<1>4. TablesKept
  <2> DEFINE o == f.op
  <2>1. o \in OpIds /\ RecordOK(o, g.copy, Vouched, asserted)
    BY <1>1, <1>3
  <2>2. operators' = operators \/ operators' = [operators EXCEPT ![o] = g.copy]
    BY <1>2
  <2>. HIDE DEF o
  <2>. QED BY <1>1, <2>1, <2>2, PutKeeps
<1>5. CASE Operator!Refused(w)
  <2>1. Lands(w)
    BY <1>1, <1>5, RefusedLands
  <2>. QED BY <1>4, <2>1, Landed
<1>6. CASE Operator!Settled(w, g)
  <2>1. /\ g.op \in Operator!Stored /\ RecordOK(g.op, g.copy, Vouched, asserted)
        /\ g.kind = "run" => g.nin = "own" /\ g.op \in Vouched /\ g.tin # "none"
    BY <1>1, <1>3
  <2>2. Lands(w)
    BY <1>3, <1>6, <2>1, SettledLands
  <2>. QED BY <1>4, <2>2, Landed
<1>7. CASE Operator!Goto(w, "audit") /\ Operator!Frame(w, g)
  <2>1. Claim("audit", g, Operator!Stored, Vouched, asserted)
    BY <1>1, <1>3 DEF Claim
  <2>2. Lands(w)
    BY <1>3, <1>7, <2>1, LabelNames DEF Lands
  <2>. QED BY <1>4, <2>2, Landed
<1>. QED BY <1>2, <1>5, <1>6, <1>7

LEMMA AuditKept ==
  ASSUME OperatorInv, NEW w \in OpWorkers, Operator!Audit(w)
  PROVE  OperatorInv'
<1> DEFINE f == oLoc[w]
<1>1. /\ oPc[w] = "audit" /\ UNCHANGED <<genuine, operators, runs, asserted>>
      /\ Operator!Settled(w, f) \/ Operator!Refused(w)
  BY DEF Operator!Audit
<1>2. /\ f \in OpFrames /\ f.op \in Operator!Stored
      /\ RecordOK(f.op, f.copy, Vouched, asserted) /\ PathOK(f, Vouched, asserted)
      /\ f.kind = "run" => f.nin = "own" /\ f.op \in Vouched /\ f.tin # "none"
  BY <1>1, WorkerFacts DEF Claim
<1>3. Lands(w)
  BY <1>1, <1>2, RefusedLands, SettledLands
<1>. QED BY <1>1, <1>3, TablesSame, Landed

\* The Updates that write a whole copy back.
LEMMA WriteBackKept ==
  ASSUME OperatorInv, NEW w \in OpWorkers, Operator!Final(w) \/ Operator!Merge(w)
  PROVE  OperatorInv'
<1> DEFINE f == oLoc[w]
           o == f.op
           rec == f.copy
<1>1. oPc[w] \in {"final", "merge"} /\ UNCHANGED <<genuine, runs, asserted>>
  BY DEF Operator!Final, Operator!Merge, Operator!Tables
<1>2. f \in OpFrames /\ o \in OpIds /\ RecordOK(o, rec, Vouched, asserted)
  BY <1>1, WorkerFacts DEF Claim
<1>3. operators' = operators \/ operators' = [operators EXCEPT ![o] = rec]
  BY DEF Operator!Final, Operator!Merge, Operator!PutOperator
<1>4. \/ Operator!Goto(w, "idle") /\ Operator!Frame(w, Operator!NoFrame)
      \/ Operator!Goto(w, "item") /\ Operator!Frame(w, WithCopy(f, Operator!NoOperator))
  BY DEF Operator!Final, Operator!Merge, Operator!PutOperator, WithCopy
<1>. HIDE DEF o, rec
<1>5. TablesKept
  BY <1>1, <1>2, <1>3, PutKeeps
<1>6. Lands(w)
  <2>1. WithCopy(f, Operator!NoOperator) \in OpFrames
    BY <1>2, CopyEdit
  <2>. QED BY <1>4, <2>1, LabelNames, Returns, EasyLanding
<1>. QED BY <1>5, <1>6, Landed

LEMMA AttachKept ==
  ASSUME OperatorInv, NEW w \in OpWorkers, Operator!Attach(w)
  PROVE  OperatorInv'
<1> DEFINE f == oLoc[w]
           o == f.op
           rec == [operators[o] EXCEPT !.docs = @ \cup {f.doc}]
           g == WithCopy(f, rec)
<1>1. /\ f \in OpFrames /\ o \in Operator!Stored /\ UNCHANGED <<genuine, operators, runs, asserted>>
      /\ Operator!Goto(w, "final") /\ Operator!Frame(w, g)
  BY WorkerFacts DEF Operator!Attach, Operator!Tables, Claim, WithCopy
<1>2. f.doc \in DocIds
  BY WorkerFacts DEF Operator!Attach, Claim
<1>3. operators[o] \in Operator!Operators /\ RecordOK(o, operators[o], Vouched, asserted)
  BY <1>1, StoredOK
<1>4. /\ rec \in Operator!Operators /\ rec.nin = operators[o].nin
      /\ rec.status = operators[o].status /\ rec.tin = operators[o].tin
  BY <1>2, <1>3 DEF Operator!Operators
<1>. HIDE DEF rec
<1>5. RecordOK(o, rec, Vouched, asserted)
  BY <1>3, <1>4 DEF RecordOK
<1>6. g \in OpFrames /\ g.op = o /\ g.copy = rec
  BY <1>1, <1>4, CopyEdit
<1>. HIDE DEF g, o
<1>7. Claim("final", g, Operator!Stored, Vouched, asserted)
  BY <1>1, <1>5, <1>6 DEF Claim
<1>8. Lands(w)
  BY <1>1, <1>6, <1>7, LabelNames DEF Lands
<1>. QED BY <1>1, <1>8, TablesSame, Landed

\* One item more, with the copy it is about.
Counted(f) == [f EXCEPT !.items = @ + 1]
CountedCopy(f, o, rec) == [Counted(f) EXCEPT !.op = o, !.copy = rec]

LEMMA ItemEdits ==
  ASSUME NEW f \in OpFrames
  PROVE  /\ Counted(f) \in OpFrames
         /\ \A o \in OpIds, rec \in Operator!Operators :
              /\ CountedCopy(f, o, rec) \in OpFrames
              /\ CountedCopy(f, o, rec).op = o /\ CountedCopy(f, o, rec).copy = rec
<1>1. f.items \in Nat /\ f.items + 1 \in Nat
  BY FieldTypes
<1>2. Counted(f) \in OpFrames
  BY <1>1 DEF OpFrames, Counted
<1>3. ASSUME NEW o \in OpIds, NEW rec \in Operator!Operators
      PROVE  /\ CountedCopy(f, o, rec) \in OpFrames
             /\ CountedCopy(f, o, rec).op = o /\ CountedCopy(f, o, rec).copy = rec
  BY <1>2 DEF OpFrames, CountedCopy
<1>. QED BY <1>2, <1>3

LEMMA ItemKept ==
  ASSUME OperatorInv, NEW w \in OpWorkers, NEW at \in 0..1, NEW ref \in BOOLEAN, Operator!Item(w, at, ref)
  PROVE  OperatorInv'
<1> DEFINE f == oLoc[w]
           new == Operator!NewOperator(at, ref)
<1>1. f \in OpFrames /\ oPc[w] = "item" /\ OpTypes /\ UNCHANGED <<genuine, operators, runs, asserted>>
  BY WorkerFacts DEF Operator!Item, Operator!Tables
<1>2. \/ Operator!Frame(w, Counted(f)) /\ UNCHANGED oPc
      \/ Operator!Frame(w, WithCopy(Counted(f), new)) /\ Operator!Goto(w, "insert")
      \/ \E o \in Operator!FindByNINHash :
           /\ Operator!Frame(w, CountedCopy(f, o, [operators[o] EXCEPT !.capturedAt = at]))
           /\ Operator!Goto(w, "merge")
  BY DEF Operator!Item, Counted, CountedCopy, WithCopy
<1>3. Counted(f) \in OpFrames
  BY <1>1, ItemEdits
<1>4. CASE Operator!Frame(w, Counted(f)) /\ UNCHANGED oPc
  <2>1. Operator!Goto(w, "item")
    BY <1>1, <1>4 DEF OpTypes, Operator!Goto
  <2>2. Lands(w)
    BY <1>3, <1>4, <2>1, LabelNames, EasyLanding
  <2>. QED BY <1>1, <2>2, TablesSame, Landed
<1>5. CASE Operator!Frame(w, WithCopy(Counted(f), new)) /\ Operator!Goto(w, "insert")
  <2>1. /\ new \in Operator!Operators
        /\ new.nin = "own" /\ new.status = "registered" /\ new.tin = "none"
    BY StatusNames DEF Operator!NewOperator, Operator!Operators
  <2>. HIDE DEF new
  <2> DEFINE g == WithCopy(Counted(f), new)
  <2>2. g \in OpFrames /\ g.copy = new
    BY <1>3, <2>1, CopyEdit
  <2>3. Operator!Frame(w, g) /\ Operator!Goto(w, "insert")
    BY <1>5
  <2>. HIDE DEF g
  <2>4. Claim("insert", g, Operator!Stored, Vouched, asserted)
    BY <2>1, <2>2 DEF Claim
  <2>5. Lands(w)
    BY <2>2, <2>3, <2>4, LabelNames DEF Lands
  <2>. QED BY <1>1, <2>5, TablesSame, Landed
<1>6. ASSUME NEW o \in Operator!FindByNINHash, Operator!Goto(w, "merge"),
             Operator!Frame(w, CountedCopy(f, o, [operators[o] EXCEPT !.capturedAt = at]))
      PROVE  OperatorInv'
  <2> DEFINE rec == [operators[o] EXCEPT !.capturedAt = at]
             g == CountedCopy(f, o, rec)
  <2>1. /\ o \in Operator!Stored /\ o \in OpIds
        /\ operators[o] \in Operator!Operators /\ RecordOK(o, operators[o], Vouched, asserted)
    BY StoredOK DEF Operator!FindByNINHash
  <2>2. /\ rec \in Operator!Operators /\ rec.nin = operators[o].nin
        /\ rec.status = operators[o].status /\ rec.tin = operators[o].tin
    BY <2>1 DEF Operator!Operators
  <2>3. Operator!Goto(w, "merge") /\ Operator!Frame(w, g)
    BY <1>6
  <2>. HIDE DEF rec
  <2>4. RecordOK(o, rec, Vouched, asserted)
    BY <2>1, <2>2 DEF RecordOK
  <2>5. g \in OpFrames /\ g.op = o /\ g.copy = rec
    BY <1>1, <2>1, <2>2, ItemEdits
  <2>. HIDE DEF g
  <2>6. Claim("merge", g, Operator!Stored, Vouched, asserted)
    BY <2>1, <2>4, <2>5 DEF Claim
  <2>7. Lands(w)
    BY <2>3, <2>5, <2>6, LabelNames DEF Lands
  <2>. QED BY <1>1, <2>7, TablesSame, Landed
<1>. QED BY <1>2, <1>4, <1>5, <1>6

LEMMA PutBatchKept ==
  ASSUME OperatorInv, NEW w \in OpWorkers, Operator!PutBatch(w)
  PROVE  OperatorInv'
<1>1. /\ UNCHANGED <<genuine, operators, runs, asserted>>
      /\ Operator!Goto(w, "idle") /\ Operator!Frame(w, Operator!NoFrame)
  BY DEF Operator!PutBatch
<1>. QED BY <1>1, Returns, TablesSame, Landed

\* The gateway leaves the run to the onboarding service and parks the operator.
LEMMA GiveUpKept ==
  ASSUME OperatorInv, NEW w \in OpWorkers, NEW v \in OpWorkers, Operator!GiveUp(w, v)
  PROVE  OperatorInv'
<1> DEFINE f == oLoc[w]
           g == [f EXCEPT !.ussd = FALSE]
           h == [Operator!NoFrame EXCEPT !.op = f.op]
<1>1. /\ oPc[w] \in {"verify", "provision", "update", "apply", "audit"} /\ oPc[v] = "idle" /\ w # v
      /\ UNCHANGED <<genuine, operators, runs, asserted>>
  BY DEF Operator!GiveUp, Operator!Tables
<1>2. OpTypes /\ f \in OpFrames /\ f.op \in Operator!Stored /\ f.op \in OpIds
  BY <1>1, WorkerFacts DEF Claim
<1>3. /\ g \in OpFrames /\ g.op = f.op /\ g.copy = f.copy /\ g.path = f.path /\ g.kind = f.kind
      /\ g.nin = f.nin /\ g.tin = f.tin /\ g.doc = f.doc
  BY <1>2 DEF OpFrames
<1>4. h \in OpFrames /\ h.op = f.op
  <2> DEFINE o == f.op
  <2>1. o \in OpIds
    BY <1>2
  <2>. HIDE DEF o
  <2>2. [Operator!NoFrame EXCEPT !.op = o] \in OpFrames /\ [Operator!NoFrame EXCEPT !.op = o].op = o
    BY <2>1, NoFrameFacts DEF OpFrames
  <2>. QED BY <2>2 DEF o
<1>5. oLoc' = [oLoc EXCEPT ![w] = g, ![v] = h] /\ oPc' = [oPc EXCEPT ![v] = "park"]
  <2>1. oLoc \in [OpWorkers -> OpFrames]
    BY <1>2 DEF OpTypes
  <2>. QED BY <2>1 DEF Operator!GiveUp, Operator!Goto
<1>. HIDE DEF g, h
<1>6. TablesKept
  BY <1>1, TablesSame
<1>7. /\ oLoc' \in [OpWorkers -> OpFrames] /\ oPc' \in [OpWorkers -> Operator!Labels]
      /\ oLoc'[w] = g /\ oLoc'[v] = h /\ oPc'[v] = "park" /\ oPc'[w] = oPc[w]
      /\ \A u \in OpWorkers \ {w, v} : oLoc'[u] = oLoc[u] /\ oPc'[u] = oPc[u]
  BY <1>1, <1>2, <1>3, <1>4, <1>5, LabelNames DEF OpTypes
<1>8. OpTypes'
  BY <1>2, <1>6, <1>7 DEF OpTypes, TablesKept
<1>9. Operator!Stored' = Operator!Stored /\ Vouched' = Vouched /\ asserted' = asserted
  BY <1>1 DEF Operator!Stored, Vouched
<1>10. Claim(oPc[w], g, Operator!Stored, Vouched, asserted)
  <2>1. Claim(oPc[w], f, Operator!Stored, Vouched, asserted)
    BY WorkerFacts
  <2>2. PathOK(f, Vouched, asserted) => PathOK(g, Vouched, asserted)
    BY <1>3 DEF PathOK
  <2>. QED BY <1>3, <2>1, <2>2 DEF Claim
<1>11. Claim("park", h, Operator!Stored, Vouched, asserted)
  BY <1>2, <1>4 DEF Claim
<1>12. \A u \in OpWorkers : Claim(oPc'[u], oLoc'[u], Operator!Stored, Vouched, asserted)
  BY <1>7, <1>10, <1>11, WorkerFacts
<1>. QED BY <1>6, <1>8, <1>9, <1>12 DEF OperatorInv, TablesKept

LEMMA CrashKept ==
  ASSUME OperatorInv, Operator!Crash
  PROVE  OperatorInv'
<1>1. /\ UNCHANGED <<genuine, operators, runs, asserted>> /\ oPc' = [w \in OpWorkers |-> "idle"]
      /\ oLoc' = [w \in OpWorkers |-> Operator!NoFrame]
  BY DEF Operator!Crash, Operator!Tables
<1>2. TablesKept
  BY <1>1, TablesSame
<1>3. OpTypes'
  BY <1>1, <1>2, NoFrameFacts, LabelNames DEF OperatorInv, OpTypes, TablesKept
<1>4. \A w \in OpWorkers : Claim(oPc'[w], oLoc'[w], Operator!Stored', Vouched', asserted')
  BY <1>1 DEF Claim
<1>. QED BY <1>2, <1>3, <1>4 DEF OperatorInv, TablesKept

\* Steps no request takes: staging, presigning, and none at all.
LEMMA QuietKept ==
  ASSUME OperatorInv, UNCHANGED <<genuine, operators, runs, asserted, oPc, oLoc>>
  PROVE  OperatorInv'
<1>1. Operator!Stored' = Operator!Stored /\ Vouched' = Vouched
  BY DEF Operator!Stored, Vouched
<1>. QED BY <1>1 DEF OperatorInv, OpTypes

LEMMA InitOperatorInv == Operator!Init => OperatorInv
<1> SUFFICES ASSUME Operator!Init PROVE OperatorInv
  OBVIOUS
<1>1. OpTypes
  <2>1. genuine \in BOOLEAN
    BY Zenon DEF Operator!Init
  <2>. QED BY <2>1, NoFrameFacts, LabelNames DEF Operator!Init, OpTypes
<1>2. Operator!Stored = {}
  BY DEF Operator!Init, Operator!Stored
<1>3. \A w \in OpWorkers : Claim(oPc[w], oLoc[w], Operator!Stored, Vouched, asserted)
  BY DEF Operator!Init, Claim
<1>. QED BY <1>1, <1>2, <1>3 DEF OperatorInv, Operator!Init

LEMMA RequestsKept ==
  ASSUME OperatorInv, NEW w \in OpWorkers, Operator!Requests(w)
  PROVE  OperatorInv'
<1>1. CASE \E ussd \in BOOLEAN : Operator!CreateOperator(w, ussd)
  BY <1>1, CreateOperatorKept
<1>2. CASE \/ Operator!RegisterDuplicate(w)
           \/ \E o \in OpIds, nin \in NINs : Operator!Provision(w, o, nin)
  BY <1>2, ProvisionKept
<1>3. CASE \E o \in OpIds, to \in Operator!OperatorStatuses :
             Operator!TransitionStatus(w, o, to) \/ Operator!PatchStatus(w, o, to)
  BY <1>3, StatusCallKept
<1>4. CASE \E o \in OpIds, decision \in {"approved", "rejected"} : Operator!Review(w, o, decision)
  BY <1>4, ReviewKept
<1>5. CASE \E o \in OpIds : Operator!PatchFields(w, o)
  BY <1>5, PatchFieldsKept
<1>6. CASE \E o \in OpIds : Operator!MBSGraduate(w, o)
  BY <1>6, MBSGraduateKept
<1>7. CASE \E o \in OpIds, d \in DocIds : Operator!Complete(w, o, d)
  BY <1>7, CompleteKept
<1>8. CASE \E r \in RunIds : Operator!Redrive(w, r)
  BY <1>8, RedriveKept
<1>9. CASE \E k \in BatchKeys : Operator!Ingest(w, k)
  BY <1>9, IngestKept
<1>. QED BY <1>1, <1>2, <1>3, <1>4, <1>5, <1>6, <1>7, <1>8, <1>9 DEF Operator!Requests, NINs

LEMMA NextOperatorInv ==
  ASSUME OperatorInv, Operator!Next \/ UNCHANGED oVars
  PROVE  OperatorInv'
<1>1. ASSUME NEW w \in OpWorkers, Operator!Requests(w) PROVE OperatorInv'
  BY <1>1, RequestsKept
<1>2. ASSUME NEW w \in OpWorkers, Operator!Steps(w) PROVE OperatorInv'
  <2>1. CASE \E v \in OpWorkers : Operator!GiveUp(w, v)
    BY <2>1, GiveUpKept
  <2>2. CASE \E at \in 0..1, ref \in BOOLEAN : Operator!Item(w, at, ref)
    BY <2>2, ItemKept
  <2>. QED BY <1>2, <2>1, <2>2, InsertKept, StartRunKept, NIMCVerifyKept, TINProvisionKept,
              OperatorUpdateKept, CloseRunKept, ParkKept, ApplyOpKept, AuditKept, WriteBackKept,
              AttachKept, PutBatchKept
           DEF Operator!Steps
<1>3. ASSUME \/ \E o \in OpIds : Operator!StageGraduation(o)
             \/ \E d \in DocIds : Operator!Presign(d)
             \/ UNCHANGED oVars
      PROVE  OperatorInv'
  BY <1>3, QuietKept DEF Operator!StageGraduation, Operator!Presign, oVars
<1>. QED BY <1>1, <1>2, <1>3, CrashKept DEF Operator!Next

\* A TIN is on the record of a person NIMC verified only, and nobody is
\* provisioned without one, unless a caller of the status or PATCH endpoint set
\* a verified status, which nothing checks: for any number of operators, runs,
\* batches and requests that interleave, each writing back the whole copy it
\* read (wf-onb-tin-provision, Registry.Transition, PATCH, review, attach,
\* ingest, park), for any retries, failed Puts and crashes.
THEOREM TINsVouched == Spec => []TINVouched
<1> DEFINE Inv == focus = "operator" => OperatorInv
<1>1. Init => Inv
  BY InitOperatorInv DEF Init
<1>2. Inv /\ [Next]_vars => Inv'
  <2> SUFFICES ASSUME Inv, [Next]_vars, focus' = "operator" PROVE OperatorInv'
    OBVIOUS
  <2>1. focus = "operator" /\ (Operator!Next \/ UNCHANGED oVars)
    BY DEF Next, OperatorStep, DedupStep, GuardStep, SyncStep, StoreStep, BreakerStep, vars
  <2>. QED BY <2>1, NextOperatorInv
<1>3. Inv => TINVouched
  BY StoredOK DEF TINVouched, Operator!TINVouched, RecordOK, Vouched
<1>. QED BY <1>1, <1>2, <1>3, PTL DEF Spec
=============================================================================

------------------------ MODULE PaymentIntent_proofs ------------------------
(***************************************************************************)
(* Theorems about PaymentIntent, for any requests, keys, replicas and      *)
(* bounds.                                                                 *)
(*                                                                         *)
(* MutexInv and SlotInv carry the uniqueness of a levy slot, ClaimInv what *)
(* a key is answered with, HoldInv the fate of a hold, and KeyInv the one  *)
(* payment of a key; ClaimReleased is inductive as it stands.              *)
(***************************************************************************)
EXTENDS PaymentIntent, TLAPS

-----------------------------------------------------------------------------
(* Type correctness.                                                       *)

\* Faults are only ever added.
LEMMA FaultTyped ==
  ASSUME NEW S, S \subseteq FaultKinds, Fault(S), faults \subseteq FaultKinds
  PROVE  faults' \subseteq FaultKinds
BY DEF Fault

\* The sets of faults the actions draw from.
LEMMA FaultSets ==
  /\ {"store refused"} \subseteq FaultKinds
  /\ {"store lost"} \subseteq FaultKinds
  /\ {"ledger refused"} \subseteq FaultKinds
  /\ {"ledger lost"} \subseteq FaultKinds
  /\ {"crash"} \subseteq FaultKinds
  /\ ({"store refused"} \cup Ledger) \subseteq FaultKinds
BY DEF FaultKinds, Ledger

\* The records the actions write are claim records.
LEMMA ClaimRecordsTyped ==
  ASSUME NEW r \in Requests
  PROVE  /\ InProgress(r) \in ClaimRecords
         /\ [InProgress(r) EXCEPT !.payment = r] \in ClaimRecords
BY RequestsAssumption DEF InProgress, ClaimRecords

\* Only a request with a key is in the claim loop.
Keyed ==
  \A r \in Requests : pc[r] \in {"claim", "lookup", "dropExpired"} => KeyOf[r] \in Keys

TypeInv == TypeOK /\ Keyed

\* The initial state is well typed.
LEMMA TypeInit == Init => TypeInv
BY RequestsAssumption DEF Init, TypeOK, Labels, TypeInv, Keyed

\* One step of a request keeps the types.
LEMMA TypeRequest ==
  ASSUME TypeInv, NEW r \in Requests, Step(r)
  PROVE  TypeOK'
PROOF
  <1> USE RequestsAssumption DEF TypeInv, TypeOK, Goto, NoFault, Labels, Claimed, Locked
  <1>1. CASE Begin(r)
    BY <1>1 DEF Begin
  <1>2. CASE ClaimKey(r)
    <2>1. faults' \subseteq FaultKinds
      BY <1>2, FaultTyped, FaultSets DEF ClaimKey
    <2>2. claims' \in [Keys -> ClaimRecords \cup {NoClaim}]
      <3>1. InProgress(r) \in ClaimRecords
        BY ClaimRecordsTyped
      <3>2. claims' = claims \/ claims' = [claims EXCEPT ![KeyOf[r]] = InProgress(r)]
        BY <1>2 DEF ClaimKey
      <3> QED BY <3>1, <3>2
    <2> QED BY <1>2, <2>1, <2>2 DEF ClaimKey
  <1>3. CASE ReadClaim(r)
    <2>1. faults' \subseteq FaultKinds
      BY <1>3, FaultTyped, FaultSets DEF ReadClaim
    <2>2. reply' \in [Requests -> Requests \cup {NoPayment}]
      <3>1. reply' = reply \/ (claims[KeyOf[r]] \in ClaimRecords /\ Answer(r, claims[KeyOf[r]].payment))
        BY <1>3 DEF ReadClaim, Keyed
      <3> QED BY <3>1 DEF Answer, ClaimRecords
    <2>3. pc' \in [Requests -> Labels] /\ attempt' \in [Requests -> {0, 1}]
      BY <1>3 DEF ReadClaim
    <2> QED BY <1>3, <2>1, <2>2, <2>3 DEF ReadClaim
  <1>4. CASE DropExpired(r)
    <2>1. faults' \subseteq FaultKinds
      BY <1>4, FaultTyped, FaultSets DEF DropExpired
    <2> QED BY <1>4, <2>1 DEF DropExpired
  <1>5. CASE CheckAdapter(r)
    BY <1>5 DEF CheckAdapter
  <1>6. CASE Lock(r)
    BY <1>6 DEF Lock
  <1>7. CASE Scan(r)
    <2>1. faults' \subseteq FaultKinds
      BY <1>7, FaultTyped, FaultSets DEF Scan
    <2> QED BY <1>7, <2>1 DEF Scan
  <1>8. CASE PlaceHold(r)
    <2>1. faults' \subseteq FaultKinds
      BY <1>8, FaultTyped, FaultSets DEF PlaceHold
    <2> QED BY <1>8, <2>1 DEF PlaceHold
  <1>9. CASE PutPayment(r)
    <2>1. faults' \subseteq FaultKinds
      BY <1>9, FaultTyped, FaultSets DEF PutPayment
    <2> QED BY <1>9, <2>1 DEF PutPayment
  <1>10. CASE VoidHold(r)
    <2>1. faults' \subseteq FaultKinds
      BY <1>10, FaultTyped, FaultSets DEF VoidHold
    <2> QED BY <1>10, <2>1 DEF VoidHold
  <1>11. CASE CompleteClaim(r)
    <2>1. faults' \subseteq FaultKinds
      BY <1>11, FaultTyped, FaultSets DEF CompleteClaim
    <2>2. claims' \in [Keys -> ClaimRecords \cup {NoClaim}]
      BY <1>11, ClaimRecordsTyped DEF CompleteClaim
    <2> QED BY <1>11, <2>1, <2>2 DEF CompleteClaim, Answer, Unlock
  <1>12. CASE ReleaseClaim(r)
    <2>1. faults' \subseteq FaultKinds
      BY <1>12, FaultTyped, FaultSets DEF ReleaseClaim
    <2> QED BY <1>12, <2>1 DEF ReleaseClaim, Unlock
  <1> QED
    BY <1>1, <1>2, <1>3, <1>4, <1>5, <1>6, <1>7, <1>8, <1>9, <1>10, <1>11, <1>12 DEF Step

\* Crash, expiry and the later life of a payment keep the types.
LEMMA TypeEnvironment ==
  ASSUME TypeOK,
         \/ \E p \in Replicas : Crash(p)
         \/ \E k \in Keys : Expire(k)
         \/ \E r \in Requests : Retire(r) \/ Revive(r)
  PROVE  TypeOK'
PROOF
  <1>1. ASSUME NEW p \in Replicas, Crash(p) PROVE TypeOK'
    <2>1. faults' \subseteq FaultKinds
      BY <1>1, FaultTyped, FaultSets DEF Crash, TypeOK
    <2> QED BY <1>1, <2>1 DEF Crash, TypeOK, Labels
  <1>2. ASSUME NEW k \in Keys, Expire(k) PROVE TypeOK'
    <2>1. claims[k] \in ClaimRecords
      BY <1>2 DEF Expire, TypeOK
    <2>2. [claims[k] EXCEPT !.expired = TRUE] \in ClaimRecords
      BY <2>1 DEF ClaimRecords
    <2>3. claims' \in [Keys -> ClaimRecords \cup {NoClaim}]
      BY <1>2, <2>2 DEF Expire, TypeOK
    <2>4. expiries' \in [Keys -> 0..MaxExpiries]
      BY <1>2, RequestsAssumption DEF Expire, TypeOK
    <2> QED BY <1>2, <2>3, <2>4 DEF Expire, TypeOK
  <1>3. ASSUME NEW r \in Requests, Retire(r) \/ Revive(r) PROVE TypeOK'
    BY <1>3 DEF Retire, Revive, TypeOK
  <1> QED BY <1>1, <1>2, <1>3

\* A step of the claim loop goes to the claim loop, or out of it.
LEMMA KeyedStep == TypeInv /\ [Next]_vars => Keyed'
PROOF
  <1> SUFFICES ASSUME TypeInv, [Next]_vars, NEW q \in Requests,
                      pc'[q] \in {"claim", "lookup", "dropExpired"}
               PROVE  KeyOf[q] \in Keys
    BY DEF Keyed
  <1> USE RequestsAssumption DEF TypeInv, TypeOK, Keyed
  <1>1. CASE UNCHANGED vars
    BY <1>1 DEF vars
  <1>2. ASSUME NEW r \in Requests, Step(r) PROVE KeyOf[q] \in Keys
    <2>1. pc'[q] = pc[q] \/ (q = r /\ pc[r] \in {"start", "claim", "lookup", "dropExpired"})
      BY <1>2 DEF Step, Begin, ClaimKey, ReadClaim, DropExpired, CheckAdapter, Lock, Scan,
                 PlaceHold, PutPayment, VoidHold, CompleteClaim, ReleaseClaim, Goto
    <2>2. CASE q = r /\ pc[r] = "start"
      BY <1>2, <2>2 DEF Step, Begin, ClaimKey, ReadClaim, DropExpired, CheckAdapter, Lock, Scan,
                 PlaceHold, PutPayment, VoidHold, CompleteClaim, ReleaseClaim, Goto
    <2> QED BY <2>1, <2>2
  <1>3. ASSUME NEW p \in Replicas, Crash(p) PROVE KeyOf[q] \in Keys
    BY <1>3 DEF Crash
  <1>4. ASSUME NEW k \in Keys, Expire(k) PROVE KeyOf[q] \in Keys
    BY <1>4 DEF Expire
  <1>5. ASSUME NEW r \in Requests, Retire(r) \/ Revive(r) PROVE KeyOf[q] \in Keys
    BY <1>5 DEF Retire, Revive
  <1> QED BY <1>1, <1>2, <1>3, <1>4, <1>5 DEF Next

\* Every step keeps the types.
LEMMA TypeStep == TypeInv /\ [Next]_vars => TypeInv'
PROOF
  <1> SUFFICES ASSUME TypeInv, [Next]_vars PROVE TypeInv'
    OBVIOUS
  <1>1. CASE UNCHANGED vars
    BY <1>1, KeyedStep DEF vars, TypeOK, TypeInv
  <1>2. CASE Next
    BY <1>2, TypeRequest, TypeEnvironment, KeyedStep DEF Next, TypeInv
  <1> QED BY <1>1, <1>2

\* The two together are inductive.
LEMMA TypeInvariant == Spec => []TypeInv
PROOF
  <1>1. Init => TypeInv
    BY TypeInit
  <1>2. TypeInv /\ [Next]_vars => TypeInv'
    BY TypeStep
  <1> QED BY <1>1, <1>2, PTL DEF Spec

\* Type correctness of CreateIntent's state, for every set of requests, keys
\* and replicas and every bound on expiries and faults.
THEOREM TypeCorrect == Spec => []TypeOK
PROOF
  <1>1. TypeInv => TypeOK
    BY DEF TypeInv
  <1> QED BY <1>1, TypeInvariant, PTL

-----------------------------------------------------------------------------
(* One live payment per slot.                                              *)

\* Who is between Lock and Unlock holds the mutex of its replica.
MutexInv == \A r \in Requests : pc[r] \in Locked => owner[ReplicaOf[r]] = r

\* Nobody's own Put occupies the slot; a late write-back may.
Unwritten(slot) == ~ \E q \in Requests : SlotOf[q] = slot /\ rows[q] = "live"

\* Without the index, what the scan saw of other requests' Puts is still true
\* when the row is written.
SlotInv ==
  ~UniqueIndex =>
    \A r \in Requests : pc[r] \in {"hold", "put"} => Unwritten(SlotOf[r])

\* The step of one request leaves the others where they are.
LEMMA OthersStay ==
  ASSUME TypeOK, NEW r \in Requests, Step(r), NEW q \in Requests, q # r
  PROVE  pc'[q] = pc[q] /\ rows'[q] = rows[q] /\ holds'[q] = holds[q] /\ reply'[q] = reply[q]
BY DEF TypeOK, Step, Begin, ClaimKey, ReadClaim, DropExpired, CheckAdapter, Lock, Scan,
       PlaceHold, PutPayment, VoidHold, CompleteClaim, ReleaseClaim, Goto, Answer

\* The mutex changes hands by Lock, and goes back by the return of its owner.
LEMMA MutexMoves ==
  ASSUME TypeOK, NEW r \in Requests, Step(r)
  PROVE  \/ owner' = owner
         \/ /\ owner[ReplicaOf[r]] = Unlocked /\ pc'[r] = "scan"
            /\ owner' = [owner EXCEPT ![ReplicaOf[r]] = r]
         \/ pc'[r] = "done" /\ Unlock(r)
BY DEF TypeOK, Step, Begin, ClaimKey, ReadClaim, DropExpired, CheckAdapter, Lock, Scan,
       PlaceHold, PutPayment, VoidHold, CompleteClaim, ReleaseClaim, Goto

\* A request reaches a locked label from a locked label or by Lock.
LEMMA LockedMoves ==
  ASSUME TypeOK, NEW r \in Requests, Step(r), pc'[r] \in Locked
  PROVE  \/ Lock(r)
         \/ pc[r] \in Locked /\ owner' = owner
BY DEF TypeOK, Step, Begin, ClaimKey, ReadClaim, DropExpired, CheckAdapter, Scan,
       PlaceHold, PutPayment, VoidHold, CompleteClaim, ReleaseClaim, Goto, Locked

\* Every step keeps the mutex invariant.
LEMMA MutexStep == TypeOK /\ MutexInv /\ [Next]_vars => MutexInv'
PROOF
  <1> SUFFICES ASSUME TypeOK, MutexInv, [Next]_vars, NEW q \in Requests, pc'[q] \in Locked
               PROVE  owner'[ReplicaOf[q]] = q
    BY DEF MutexInv
  <1>0. ReplicaOf[q] \in Replicas
    BY RequestsAssumption
  <1>1. CASE UNCHANGED vars
    BY <1>1 DEF vars, MutexInv
  <1>2. ASSUME NEW r \in Requests, Step(r) PROVE owner'[ReplicaOf[q]] = q
    <2>1. CASE q = r
      <3>1. CASE Lock(r)
        BY <1>0, <2>1, <3>1 DEF Lock, TypeOK
      <3>2. CASE pc[r] \in Locked /\ owner' = owner
        BY <2>1, <3>2 DEF MutexInv
      <3> QED BY <1>2, <2>1, <3>1, <3>2, LockedMoves
    <2>2. CASE q # r
      <3>1. owner[ReplicaOf[q]] = q
        BY <1>2, <2>2, OthersStay DEF MutexInv
      <3>2. CASE owner' = owner
        BY <3>1, <3>2
      <3>3. CASE owner[ReplicaOf[r]] = Unlocked /\ owner' = [owner EXCEPT ![ReplicaOf[r]] = r]
        BY <1>0, <3>1, <3>3, NamesAssumption DEF TypeOK
      <3>4. CASE Unlock(r)
        BY <1>0, <2>2, <3>1, <3>4 DEF Unlock, TypeOK
      <3> QED BY <1>2, <3>2, <3>3, <3>4, MutexMoves
    <2> QED BY <2>1, <2>2
  <1>3. ASSUME NEW p \in Replicas, Crash(p) PROVE owner'[ReplicaOf[q]] = q
    <2>1. pc'[q] = pc[q] /\ (ReplicaOf[q] # p \/ pc[q] = "start")
      BY <1>3 DEF Crash, Locked, TypeOK
    <2>2. pc[q] # "start" /\ owner[ReplicaOf[q]] = q
      BY <2>1 DEF MutexInv, Locked
    <2> QED BY <1>0, <1>3, <2>1, <2>2 DEF Crash, TypeOK
  <1>4. ASSUME NEW k \in Keys, Expire(k) PROVE owner'[ReplicaOf[q]] = q
    BY <1>4 DEF Expire, MutexInv
  <1>5. ASSUME NEW r \in Requests, Retire(r) \/ Revive(r) PROVE owner'[ReplicaOf[q]] = q
    BY <1>5 DEF Retire, Revive, MutexInv
  <1> QED BY <1>1, <1>2, <1>3, <1>4, <1>5 DEF Next

\* A row becomes live only by the Put of its request, which then leaves "put".
LEMMA LiveRows ==
  ASSUME TypeOK, [Next]_vars, NEW q \in Requests, rows'[q] = "live", rows[q] # "live"
  PROVE  PutPayment(q) /\ ~IndexRefuses(q) /\ pc[q] = "put" /\ rows' = [rows EXCEPT ![q] = "live"]
PROOF
  <1>1. CASE UNCHANGED vars
    BY <1>1 DEF vars
  <1>2. ASSUME NEW r \in Requests, Step(r) PROVE PutPayment(r) /\ q = r
    <2>1. q = r
      BY <1>2, OthersStay
    <2> QED
      BY <1>2, <2>1 DEF TypeOK, Step, Begin, ClaimKey, ReadClaim, DropExpired, CheckAdapter,
         Lock, Scan, PlaceHold, VoidHold, CompleteClaim, ReleaseClaim
  <1>3. ASSUME NEW p \in Replicas, Crash(p) PROVE FALSE
    BY <1>3 DEF Crash
  <1>4. ASSUME NEW k \in Keys, Expire(k) PROVE FALSE
    BY <1>4 DEF Expire
  <1>5. ASSUME NEW r \in Requests, Retire(r) \/ Revive(r) PROVE FALSE
    BY <1>5 DEF Retire, Revive, TypeOK
  <1>6. PutPayment(q)
    BY <1>1, <1>2, <1>3, <1>4, <1>5 DEF Next
  <1> QED BY <1>6 DEF PutPayment, TypeOK

\* A step keeps the slot invariant: under one mutex nobody else is at "put".
LEMMA SlotStep == TypeOK /\ MutexInv /\ SlotInv /\ [Next]_vars => SlotInv'
PROOF
  <1> SUFFICES ASSUME TypeOK, MutexInv, SlotInv, [Next]_vars, ~UniqueIndex,
                      NEW r \in Requests, pc'[r] \in {"hold", "put"},
                      NEW q \in Requests, SlotOf[q] = SlotOf[r], rows'[q] = "live"
               PROVE  FALSE
    BY DEF SlotInv, Unwritten
  <1> DEFINE Before(x) == pc[x] \in {"hold", "put"} \/ (pc[x] = "scan" /\ ~Occupied(SlotOf[x]))
  <1>1. Before(r)
    <2>1. CASE UNCHANGED vars
      BY <2>1 DEF vars
    <2>2. ASSUME NEW s \in Requests, Step(s) PROVE Before(r)
      <3>1. CASE s # r
        BY <2>2, <3>1, OthersStay
      <3>2. CASE s = r
        BY <2>2, <3>2 DEF TypeOK, Step, Begin, ClaimKey, ReadClaim, DropExpired, CheckAdapter,
           Lock, Scan, PlaceHold, PutPayment, VoidHold, CompleteClaim, ReleaseClaim, Goto
      <3> QED BY <3>1, <3>2
    <2>3. ASSUME NEW p \in Replicas, Crash(p) PROVE Before(r)
      BY <2>3 DEF Crash, TypeOK
    <2>4. ASSUME NEW k \in Keys, Expire(k) PROVE Before(r)
      BY <2>4 DEF Expire
    <2>5. ASSUME NEW s \in Requests, Retire(s) \/ Revive(s) PROVE Before(r)
      BY <2>5 DEF Retire, Revive
    <2> QED BY <2>1, <2>2, <2>3, <2>4, <2>5 DEF Next
  <1>2. Unwritten(SlotOf[r])
    BY <1>1 DEF SlotInv, Unwritten, Occupied, Occupies
  <1>3. rows[q] # "live"
    BY <1>2 DEF Unwritten
  <1>4. PutPayment(q) /\ pc[q] = "put"
    BY <1>3, LiveRows
  <1>5. q # r
    BY <1>4 DEF PutPayment, Goto, TypeOK
  <1>6. owner[ReplicaOf[q]] = q /\ owner[ReplicaOf[r]] = r
    BY <1>1, <1>4 DEF MutexInv, Locked
  <1> QED BY <1>5, <1>6, StoreAssumption

\* A row comes to occupy its slot by the Put of its request or by a late
\* write-back, and the index lets neither into a slot that is taken.
LEMMA OccupyMoves ==
  ASSUME TypeOK, [Next]_vars, NEW s \in Requests, Occupies(s)', ~Occupies(s)
  PROVE  /\ ~IndexRefuses(s)
         /\ \A t \in Requests : t # s => rows'[t] = rows[t]
PROOF
  <1>1. CASE rows'[s] = "live"
    BY <1>1, LiveRows DEF Occupies, TypeOK
  <1>2. CASE rows'[s] = "revived"
    <2>1. rows[s] # "revived"
      BY DEF Occupies
    <2>2. ASSUME NEW r \in Requests, Step(r) PROVE FALSE
      BY <1>2, <2>1, <2>2 DEF TypeOK, Step, Begin, ClaimKey, ReadClaim, DropExpired, CheckAdapter,
         Lock, Scan, PlaceHold, PutPayment, VoidHold, CompleteClaim, ReleaseClaim
    <2>3. ASSUME NEW r \in Requests, Retire(r) PROVE FALSE
      BY <1>2, <2>1, <2>3 DEF Retire, TypeOK
    <2>4. PICK r \in Requests : Revive(r)
      BY <1>2, <2>1, <2>2, <2>3 DEF Next, vars, Crash, Expire
    <2> QED BY <1>2, <2>1, <2>4 DEF Revive, TypeOK
  <1> QED BY <1>1, <1>2 DEF Occupies

\* With the index, a row enters only a slot nobody occupies.
LEMMA IndexStep ==
  TypeOK /\ OneLevyPerSlot /\ [Next]_vars /\ UniqueIndex => OneLevyPerSlot'
PROOF
  <1> SUFFICES ASSUME TypeOK, OneLevyPerSlot, [Next]_vars, UniqueIndex,
                      NEW r \in Requests, NEW q \in Requests,
                      Occupies(r)', Occupies(q)', SlotOf[r] = SlotOf[q], r # q
               PROVE  FALSE
    BY DEF OneLevyPerSlot
  <1>1. ASSUME NEW s \in Requests, NEW t \in Requests, SlotOf[s] = SlotOf[t], s # t,
               Occupies(s)', Occupies(t)', ~Occupies(s)
        PROVE  FALSE
    <2>1. ~IndexRefuses(s) /\ rows'[t] = rows[t]
      BY <1>1, OccupyMoves
    <2>2. Occupied(SlotOf[s])
      BY <1>1, <2>1 DEF Occupied, Occupies
    <2> QED BY <2>1, <2>2 DEF IndexRefuses
  <1>2. Occupies(r) /\ Occupies(q)
    BY <1>1
  <1> QED BY <1>2 DEF OneLevyPerSlot

\* Without it, the Put of a row finds no other request's row in the slot.
LEMMA ScanStep ==
  TypeOK /\ SlotInv /\ OneLevyPerSlot /\ [Next]_vars /\ ~UniqueIndex => OneLevyPerSlot'
PROOF
  <1> SUFFICES ASSUME TypeOK, SlotInv, OneLevyPerSlot, [Next]_vars, ~UniqueIndex,
                      NEW r \in Requests, NEW q \in Requests,
                      rows'[r] = "live", rows'[q] = "live", SlotOf[r] = SlotOf[q], r # q
               PROVE  FALSE
    BY DEF OneLevyPerSlot, Occupies
  <1>1. ASSUME NEW s \in Requests, NEW t \in Requests, SlotOf[s] = SlotOf[t], s # t,
               rows'[s] = "live", rows'[t] = "live", rows[s] # "live"
        PROVE  FALSE
    <2>1. pc[s] = "put" /\ rows' = [rows EXCEPT ![s] = "live"]
      BY <1>1, LiveRows
    <2>2. rows[t] = "live"
      BY <1>1, <2>1 DEF TypeOK
    <2> QED BY <1>1, <2>1, <2>2 DEF SlotInv, Unwritten
  <1>2. rows[r] = "live" /\ rows[q] = "live"
    BY <1>1
  <1> QED BY <1>2 DEF OneLevyPerSlot, Occupies

\* Whatever the replicas, channels, keys, faults, crashes and late webhooks,
\* the unique index keeps one live levy payment per TIN, period and instalment
\* class.  Without it the scan under the mutex keeps CreateIntent from making
\* two, and a second one is always a retired row that a webhook wrote back.
THEOREM OneLevy == Spec => []OneLevyPerSlot
PROOF
  <1>1. Init => MutexInv /\ SlotInv /\ OneLevyPerSlot
    BY DEF Init, MutexInv, SlotInv, OneLevyPerSlot, Occupies, Locked
  <1>2. TypeInv /\ MutexInv /\ SlotInv /\ OneLevyPerSlot /\ [Next]_vars
          => (MutexInv /\ SlotInv /\ OneLevyPerSlot)'
    BY MutexStep, SlotStep, IndexStep, ScanStep DEF TypeInv
  <1> QED BY <1>1, <1>2, TypeInvariant, PTL DEF Spec

-----------------------------------------------------------------------------
(* What a key is answered with.                                            *)

\* A completed claim names a payment that exists, of its key and payload, and
\* a request about to complete its claim has written its row.
ClaimInv ==
  /\ \A k \in Keys :
       claims[k] # NoClaim /\ claims[k].payment # NoPayment =>
         /\ KeyOf[claims[k].payment] = k
         /\ BodyOf[claims[k].payment] = claims[k].body
         /\ rows[claims[k].payment] # "none"
  /\ \A r \in Requests : pc[r] = "complete" => rows[r] # "none"

\* A payment row never disappears.
LEMMA RowsStay ==
  ASSUME TypeOK, [Next]_vars, NEW q \in Requests, rows[q] # "none"
  PROVE  rows'[q] # "none"
PROOF
  <1>1. CASE UNCHANGED vars
    BY <1>1 DEF vars
  <1>2. ASSUME NEW r \in Requests, Step(r) PROVE rows'[q] # "none"
    BY <1>2 DEF TypeOK, Step, Begin, ClaimKey, ReadClaim, DropExpired, CheckAdapter, Lock,
       Scan, PlaceHold, PutPayment, VoidHold, CompleteClaim, ReleaseClaim
  <1>3. ASSUME NEW p \in Replicas, Crash(p) PROVE rows'[q] # "none"
    BY <1>3 DEF Crash
  <1>4. ASSUME NEW k \in Keys, Expire(k) PROVE rows'[q] # "none"
    BY <1>4 DEF Expire
  <1>5. ASSUME NEW r \in Requests, Retire(r) \/ Revive(r) PROVE rows'[q] # "none"
    BY <1>5 DEF Retire, Revive, TypeOK
  <1> QED BY <1>1, <1>2, <1>3, <1>4, <1>5 DEF Next

\* What a step does to the claim of a key: nothing, expire it, drop it, claim
\* it when it is free, or complete it.
ClaimChange(k) ==
  \/ claims'[k] = claims[k]
  \/ \E r \in Requests :
       KeyOf[r] = k /\ (DropExpired(r) \/ ReleaseClaim(r)) /\ claims'[k] = NoClaim
  \/ Expire(k) /\ claims'[k] = [claims[k] EXCEPT !.expired = TRUE]
  \/ \E r \in Requests :
       KeyOf[r] = k /\ ClaimKey(r) /\ claims[k] = NoClaim /\ claims'[k] = InProgress(r)
  \/ \E r \in Requests :
       KeyOf[r] = k /\ pc[r] = "complete" /\ claims'[k] = [InProgress(r) EXCEPT !.payment = r]

\* Every step changes a claim in one of these ways.
LEMMA ClaimChanges ==
  ASSUME TypeInv, [Next]_vars, NEW k \in Keys
  PROVE  ClaimChange(k)
PROOF
  <1>1. CASE UNCHANGED vars
    BY <1>1 DEF vars, ClaimChange
  <1>2. ASSUME NEW r \in Requests, Step(r) PROVE ClaimChange(k)
    <2> USE DEF TypeInv, TypeOK
    <2>1. CASE ClaimKey(r)
      <3>1. \/ claims' = claims
            \/ claims[KeyOf[r]] = NoClaim /\ claims' = [claims EXCEPT ![KeyOf[r]] = InProgress(r)]
        BY <2>1 DEF ClaimKey
      <3> QED BY <2>1, <3>1 DEF ClaimChange
    <2>2. CASE DropExpired(r)
      BY <2>2 DEF DropExpired, ClaimChange
    <2>3. CASE CompleteClaim(r)
      <3>1. pc[r] = "complete" /\ (claims' = claims \/ claims' = [claims EXCEPT ![KeyOf[r]] = [InProgress(r) EXCEPT !.payment = r]])
        BY <2>3 DEF CompleteClaim
      <3> QED BY <3>1 DEF ClaimChange
    <2>4. CASE ReleaseClaim(r)
      BY <2>4 DEF ReleaseClaim, ClaimChange
    <2>5. CASE claims' = claims
      BY <2>5 DEF ClaimChange
    <2> QED
      BY <1>2, <2>1, <2>2, <2>3, <2>4, <2>5 DEF Step, Begin, ReadClaim, CheckAdapter, Lock,
         Scan, PlaceHold, PutPayment, VoidHold
  <1>3. ASSUME NEW p \in Replicas, Crash(p) PROVE ClaimChange(k)
    BY <1>3 DEF Crash, ClaimChange
  <1>4. ASSUME NEW j \in Keys, Expire(j) PROVE ClaimChange(k)
    BY <1>4 DEF Expire, ClaimChange, TypeInv, TypeOK
  <1>5. ASSUME NEW r \in Requests, Retire(r) \/ Revive(r) PROVE ClaimChange(k)
    BY <1>5 DEF Retire, Revive, ClaimChange
  <1> QED BY <1>1, <1>2, <1>3, <1>4, <1>5 DEF Next

\* A request comes to "complete" by a Put that wrote its row.
LEMMA CompleteHasRow ==
  TypeInv /\ ClaimInv /\ [Next]_vars => \A r \in Requests : pc'[r] = "complete" => rows'[r] # "none"
PROOF
  <1> SUFFICES ASSUME TypeInv, ClaimInv, [Next]_vars, NEW q \in Requests, pc'[q] = "complete"
               PROVE  rows'[q] # "none"
    OBVIOUS
  <1>1. CASE pc[q] = "complete"
    BY <1>1, RowsStay DEF ClaimInv, TypeInv
  <1>2. CASE pc[q] # "complete"
    <2>1. ASSUME NEW r \in Requests, Step(r) PROVE PutPayment(q) /\ q = r
      <3>1. q = r
        BY <1>2, <2>1, OthersStay DEF TypeInv
      <3> QED
        BY <1>2, <2>1, <3>1 DEF TypeInv, TypeOK, Step, Begin, ClaimKey, ReadClaim, DropExpired,
           CheckAdapter, Lock, Scan, PlaceHold, VoidHold, CompleteClaim, ReleaseClaim, Goto
    <2>2. PutPayment(q)
      BY <1>2, <2>1 DEF Next, vars, Crash, Expire, Retire, Revive, TypeInv, TypeOK
    <2> QED BY <2>2 DEF PutPayment, Goto, TypeInv, TypeOK
  <1> QED BY <1>1, <1>2

\* Every step keeps the claims honest.
LEMMA ClaimStep == TypeInv /\ ClaimInv /\ [Next]_vars => ClaimInv'
PROOF
  <1> SUFFICES ASSUME TypeInv, ClaimInv, [Next]_vars PROVE ClaimInv'
    OBVIOUS
  <1>1. ASSUME NEW k \in Keys, claims'[k] # NoClaim, claims'[k].payment # NoPayment
        PROVE  /\ KeyOf[claims'[k].payment] = k
               /\ BodyOf[claims'[k].payment] = claims'[k].body
               /\ rows'[claims'[k].payment] # "none"
    <2>1. CASE /\ claims[k] # NoClaim
               /\ claims'[k] = claims[k] \/ claims'[k] = [claims[k] EXCEPT !.expired = TRUE]
      <3>1. claims[k] \in ClaimRecords
        BY <2>1 DEF TypeInv, TypeOK
      <3>2. claims'[k].payment = claims[k].payment /\ claims'[k].body = claims[k].body
        BY <2>1, <3>1 DEF ClaimRecords
      <3>3. claims[k].payment \in Requests
        BY <1>1, <3>1, <3>2 DEF ClaimRecords
      <3> QED BY <1>1, <2>1, <3>2, <3>3, RowsStay DEF ClaimInv, TypeInv
    <2>2. ASSUME NEW r \in Requests, KeyOf[r] = k, claims'[k] = InProgress(r) PROVE FALSE
      BY <1>1, <2>2 DEF InProgress
    <2>3. ASSUME NEW r \in Requests, KeyOf[r] = k, pc[r] = "complete",
                 claims'[k] = [InProgress(r) EXCEPT !.payment = r]
          PROVE  /\ claims'[k].payment = r /\ claims'[k].body = BodyOf[r]
                 /\ rows'[r] # "none"
      <3>1. claims'[k].payment = r /\ claims'[k].body = BodyOf[r]
        BY <2>3 DEF InProgress
      <3> QED BY <2>3, <3>1, RowsStay DEF ClaimInv, TypeInv
    <2>4. \/ /\ claims[k] # NoClaim
             /\ claims'[k] = claims[k] \/ claims'[k] = [claims[k] EXCEPT !.expired = TRUE]
          \/ \E r \in Requests :
               KeyOf[r] = k /\ pc[r] = "complete" /\ claims'[k] = [InProgress(r) EXCEPT !.payment = r]
      <3>1. ClaimChange(k)
        BY <1>1, ClaimChanges
      <3> QED BY <1>1, <2>2, <3>1 DEF ClaimChange, Expire
    <2>5. ASSUME NEW r \in Requests, KeyOf[r] = k, pc[r] = "complete",
                 claims'[k] = [InProgress(r) EXCEPT !.payment = r]
          PROVE  /\ KeyOf[claims'[k].payment] = k
                 /\ BodyOf[claims'[k].payment] = claims'[k].body
                 /\ rows'[claims'[k].payment] # "none"
      BY <2>3, <2>5
    <2> QED BY <2>1, <2>4, <2>5
  <1> QED BY <1>1, CompleteHasRow DEF ClaimInv

\* An answer is read from an honest claim or is the request's own payment.
LEMMA ReplayStep == TypeInv /\ ClaimInv /\ ReplayMatches /\ [Next]_vars => ReplayMatches'
PROOF
  <1> SUFFICES ASSUME TypeInv, ClaimInv, ReplayMatches, [Next]_vars,
                      NEW q \in Requests, reply'[q] # NoPayment
               PROVE  /\ KeyOf[reply'[q]] = KeyOf[q]
                      /\ BodyOf[reply'[q]] = BodyOf[q]
                      /\ rows'[reply'[q]] # "none"
    BY DEF ReplayMatches
  <1>1. CASE reply'[q] = reply[q]
    <2>1. reply[q] \in Requests
      BY <1>1 DEF TypeInv, TypeOK
    <2> QED BY <1>1, <2>1, RowsStay DEF ReplayMatches, TypeInv
  <1>2. ASSUME ReadClaim(q), reply'[q] # reply[q]
        PROVE  /\ KeyOf[reply'[q]] = KeyOf[q]
               /\ BodyOf[reply'[q]] = BodyOf[q]
               /\ rows'[reply'[q]] # "none"
    <2>1. KeyOf[q] \in Keys /\ rows' = rows
      BY <1>2 DEF ReadClaim, TypeInv, Keyed
    <2>2. claims[KeyOf[q]] # NoClaim /\ ~Conflicts(claims[KeyOf[q]], q)
          /\ reply'[q] = claims[KeyOf[q]].payment
      BY <1>2 DEF ReadClaim, Answer, TypeInv, TypeOK
    <2> QED BY <2>1, <2>2 DEF ClaimInv, Conflicts
  <1>3. ASSUME CompleteClaim(q)
        PROVE  reply'[q] = q /\ rows'[q] # "none"
    BY <1>3, RowsStay DEF CompleteClaim, Answer, ClaimInv, TypeInv, TypeOK
  <1>4. reply'[q] # reply[q] => ReadClaim(q) \/ CompleteClaim(q)
    <2>1. ASSUME NEW r \in Requests, Step(r), reply'[q] # reply[q]
          PROVE  ReadClaim(q) \/ CompleteClaim(q)
      <3>1. q = r
        BY <2>1, OthersStay DEF TypeInv
      <3> QED BY <2>1, <3>1 DEF Step, Begin, ClaimKey, DropExpired, CheckAdapter, Lock, Scan,
           PlaceHold, PutPayment, VoidHold, ReleaseClaim
    <2> QED BY <2>1 DEF Next, vars, Crash, Expire, Retire, Revive
  <1> QED BY <1>1, <1>2, <1>3, <1>4

\* A key is only ever answered with an existing payment of that key and that
\* payload, for any number of requests, replicas, expiries and faults.
THEOREM RepliesMatch == Spec => []ReplayMatches
PROOF
  <1>1. Init => ClaimInv /\ ReplayMatches
    BY DEF Init, ClaimInv, ReplayMatches
  <1>2. TypeInv /\ ClaimInv /\ ReplayMatches /\ [Next]_vars => (ClaimInv /\ ReplayMatches)'
    BY ClaimStep, ReplayStep
  <1> QED BY <1>1, <1>2, TypeInvariant, PTL DEF Spec

-----------------------------------------------------------------------------
(* Holds and claims on the error paths.                                    *)

\* No step forgets a fault.
LEMMA FaultsStay ==
  ASSUME [Next]_vars
  PROVE  faults \subseteq faults'
PROOF
  <1>1. ASSUME NEW S, Fault(S) PROVE faults \subseteq faults'
    BY <1>1 DEF Fault
  <1>2. ASSUME NEW r \in Requests, Step(r) PROVE faults \subseteq faults'
    BY <1>1, <1>2 DEF Step, Begin, ClaimKey, ReadClaim, DropExpired, CheckAdapter, Lock, Scan,
       PlaceHold, PutPayment, VoidHold, CompleteClaim, ReleaseClaim, NoFault
  <1> QED BY <1>1, <1>2 DEF Next, vars, Crash, Expire, Retire, Revive

\* Without a ledger failure or a crash, a hold without row is about to get
\* the row or to be voided.
HoldInv ==
  faults \cap (Ledger \cup {"crash"}) = {} =>
    \A r \in Requests :
      holds[r] = "pending" /\ rows[r] = "none" => pc[r] \in {"put", "voidHold"}

\* Every step keeps it.
LEMMA HoldStep == TypeOK /\ HoldInv /\ [Next]_vars => HoldInv'
PROOF
  <1> SUFFICES ASSUME TypeOK, HoldInv, [Next]_vars,
                      faults' \cap (Ledger \cup {"crash"}) = {},
                      NEW q \in Requests, holds'[q] = "pending", rows'[q] = "none"
               PROVE  pc'[q] \in {"put", "voidHold"}
    BY DEF HoldInv
  <1>1. rows[q] = "none"
    BY RowsStay
  <1>2. holds[q] = "pending" => pc[q] \in {"put", "voidHold"}
    BY <1>1, FaultsStay DEF HoldInv
  <1>3. CASE UNCHANGED vars
    BY <1>2, <1>3 DEF vars
  <1>4. ASSUME NEW r \in Requests, Step(r) PROVE pc'[q] \in {"put", "voidHold"}
    <2>1. CASE q # r
      BY <1>2, <1>4, <2>1, OthersStay
    <2>2. CASE q = r
      <3>1. CASE PlaceHold(r)
        BY <2>2, <3>1 DEF PlaceHold, TypeOK, Goto, Fault, Ledger
      <3>2. CASE PutPayment(r)
        BY <2>2, <3>2 DEF PutPayment, TypeOK, Goto
      <3>3. CASE VoidHold(r)
        BY <2>2, <3>3 DEF VoidHold, TypeOK, Goto, Fault, Ledger
      <3>4. CASE pc[r] \notin {"put", "voidHold"} /\ holds' = holds
        BY <1>2, <2>2, <3>4
      <3> QED
        BY <1>4, <3>1, <3>2, <3>3, <3>4 DEF Step, Begin, ClaimKey, ReadClaim, DropExpired,
           CheckAdapter, Lock, Scan, CompleteClaim, ReleaseClaim
    <2> QED BY <2>1, <2>2
  <1>5. ASSUME NEW p \in Replicas, Crash(p) PROVE FALSE
    BY <1>5 DEF Crash, Fault
  <1>6. ASSUME NEW k \in Keys, Expire(k) PROVE pc'[q] \in {"put", "voidHold"}
    BY <1>2, <1>6 DEF Expire
  <1>7. ASSUME NEW r \in Requests, Retire(r) \/ Revive(r) PROVE pc'[q] \in {"put", "voidHold"}
    BY <1>2, <1>7 DEF Retire, Revive, TypeOK
  <1> QED BY <1>3, <1>4, <1>5, <1>6, <1>7 DEF Next

\* No store failure orphans a hold: the compensating void of CreateIntent
\* covers every path, as long as the ledger answers and the process lives.
THEOREM NoOrphanHolds == Spec => []NoOrphanHold
PROOF
  <1>1. Init => HoldInv
    BY DEF Init, HoldInv
  <1>2. TypeInv /\ HoldInv /\ [Next]_vars => HoldInv'
    BY HoldStep DEF TypeInv
  <1>3. HoldInv => NoOrphanHold
    BY DEF HoldInv, NoOrphanHold, Locked
  <1> QED BY <1>1, <1>2, <1>3, TypeInvariant, PTL DEF Spec

\* A request that holds a claim and goes on without a fault still holds it,
\* or has completed or dropped it.
LEMMA ClaimedMoves ==
  ASSUME TypeInv, NEW r \in Requests, Step(r), NEW k \in Keys, KeyOf[r] = k,
         pc[r] \in Claimed, faults' \cap (Store \cup {"crash"}) = {}
  PROVE  \/ pc'[r] \in Claimed
         \/ claims'[k] = NoClaim
         \/ claims'[k] = [InProgress(r) EXCEPT !.payment = r]
PROOF
  <1> USE RequestsAssumption DEF TypeInv, TypeOK, Goto
  <1>1. CASE CompleteClaim(r)
    <2>1. claims' = [claims EXCEPT ![KeyOf[r]] = [InProgress(r) EXCEPT !.payment = r]]
      BY <1>1 DEF CompleteClaim, Fault, Store
    <2> QED BY <2>1
  <1>2. CASE ReleaseClaim(r)
    BY <1>2 DEF ReleaseClaim, Fault, Store
  <1>3. CASE Begin(r) \/ ClaimKey(r) \/ ReadClaim(r) \/ DropExpired(r)
    BY <1>3 DEF Begin, ClaimKey, ReadClaim, DropExpired, Claimed, Locked
  <1>4. CASE CheckAdapter(r) \/ Lock(r) \/ Scan(r) \/ PlaceHold(r) \/ PutPayment(r) \/ VoidHold(r)
    BY <1>4 DEF CheckAdapter, Lock, Scan, PlaceHold, PutPayment, VoidHold, Claimed, Locked
  <1> QED BY <1>1, <1>2, <1>3, <1>4 DEF Step

\* Every step keeps a claim in progress with its worker.
LEMMA ReleasedStep == TypeInv /\ ClaimReleased /\ [Next]_vars => ClaimReleased'
PROOF
  <1> SUFFICES ASSUME TypeInv, ClaimReleased, [Next]_vars,
                      faults' \cap (Store \cup {"crash"}) = {},
                      NEW k \in Keys, claims'[k] # NoClaim, claims'[k].payment = NoPayment
               PROVE  \E r \in Requests : KeyOf[r] = k /\ pc'[r] \in Claimed
    BY DEF ClaimReleased
  <1> DEFINE Worked == \E r \in Requests : KeyOf[r] = k /\ pc'[r] \in Claimed
  <1>1. ASSUME claims[k] # NoClaim, claims[k].payment = NoPayment
        PROVE  \E w \in Requests : KeyOf[w] = k /\ pc[w] \in Claimed
    BY <1>1, FaultsStay DEF ClaimReleased
  <1>2. CASE UNCHANGED vars
    BY <1>1, <1>2 DEF vars
  <1>3. ASSUME NEW r \in Requests, Step(r) PROVE Worked
    <2>1. CASE claims'[k] = claims[k]
      <3>1. PICK w \in Requests : KeyOf[w] = k /\ pc[w] \in Claimed
        BY <1>1, <2>1
      <3>2. CASE w # r
        BY <1>3, <3>1, <3>2, OthersStay DEF TypeInv
      <3>3. CASE w = r
        <4>1. claims'[k] # [InProgress(r) EXCEPT !.payment = r]
          BY NamesAssumption DEF InProgress
        <4>2. pc'[r] \in Claimed
          BY <1>3, <3>1, <3>3, <4>1, ClaimedMoves
        <4> QED BY <3>1, <3>3, <4>2
      <3> QED BY <3>2, <3>3
    <2>2. CASE claims'[k] # claims[k] /\ ClaimKey(r)
      <3>1. KeyOf[r] = k /\ pc'[r] = "adapter"
        BY <2>2 DEF ClaimKey, Goto, Fault, Store, TypeInv, TypeOK
      <3> QED BY <3>1 DEF Claimed
    <2>3. CASE claims'[k] # claims[k] /\ ~ClaimKey(r)
      <3>1. CASE DropExpired(r)
        BY <2>3, <3>1 DEF DropExpired, TypeInv, TypeOK
      <3>2. CASE ReleaseClaim(r)
        BY <2>3, <3>2 DEF ReleaseClaim, TypeInv, TypeOK
      <3>3. CASE CompleteClaim(r)
        <4>1. claims' = [claims EXCEPT ![KeyOf[r]] = [InProgress(r) EXCEPT !.payment = r]]
          BY <2>3, <3>3 DEF CompleteClaim
        <4>2. claims'[k] = [InProgress(r) EXCEPT !.payment = r]
          BY <2>3, <4>1 DEF TypeInv, TypeOK
        <4>3. claims'[k].payment = r
          BY <4>2 DEF InProgress
        <4> QED BY <4>3, NamesAssumption
      <3> QED
        BY <1>3, <2>3, <3>1, <3>2, <3>3 DEF Step, Begin, ReadClaim, CheckAdapter, Lock, Scan,
           PlaceHold, PutPayment, VoidHold
    <2> QED BY <2>1, <2>2, <2>3
  <1>4. ASSUME NEW p \in Replicas, Crash(p) PROVE FALSE
    BY <1>4 DEF Crash, Fault
  <1>5. ASSUME NEW j \in Keys, Expire(j) PROVE Worked
    <2>1. claims[k] # NoClaim /\ claims[k].payment = NoPayment
      <3>1. CASE k = j
        <4>1. claims[k] \in ClaimRecords /\ claims'[k] = [claims[k] EXCEPT !.expired = TRUE]
          BY <1>5, <3>1 DEF Expire, TypeInv, TypeOK
        <4>2. claims'[k].payment = claims[k].payment
          BY <4>1 DEF ClaimRecords
        <4> QED BY <1>5, <3>1, <4>2 DEF Expire
      <3>2. CASE k # j
        BY <1>5, <3>2 DEF Expire, TypeInv, TypeOK
      <3> QED BY <3>1, <3>2
    <2> QED BY <1>1, <1>5, <2>1 DEF Expire
  <1>6. ASSUME NEW r \in Requests, Retire(r) \/ Revive(r) PROVE Worked
    BY <1>1, <1>6 DEF Retire, Revive
  <1> QED BY <1>2, <1>3, <1>4, <1>5, <1>6 DEF Next

\* No key is blocked by a request that ended: every error path of CreateIntent
\* releases the claim it won, as long as the store answers and the process
\* lives.
THEOREM ClaimsReleased == Spec => []ClaimReleased
PROOF
  <1>1. Init => ClaimReleased
    BY DEF Init, ClaimReleased
  <1>2. TypeInv /\ ClaimReleased /\ [Next]_vars => ClaimReleased'
    BY ReleasedStep
  <1> QED BY <1>1, <1>2, TypeInvariant, PTL DEF Spec

-----------------------------------------------------------------------------
(* One payment per key.                                                    *)

\* A request that may still write, or has written, a payment for its key.
Active(r) == pc[r] \in Claimed \/ rows[r] # "none"

\* While key k has not expired, its claim stays until the one request that is
\* active on it has given up without a row.
KeyInv ==
  "store lost" \notin faults =>
    /\ \A r \in Requests : rows[r] # "none" => pc[r] \in {"complete", "done"}
    /\ \A k \in Keys : expiries[k] = 0 =>
         /\ claims[k] # NoClaim => ~claims[k].expired
         /\ \A r \in Requests : KeyOf[r] = k =>
              /\ pc[r] # "dropExpired"
              /\ Active(r) => claims[k] # NoClaim
         /\ \A r, q \in Requests :
              KeyOf[r] = k /\ KeyOf[q] = k /\ Active(r) /\ Active(q) => r = q

\* Expiries are only counted up.
LEMMA ExpiriesGrow ==
  ASSUME TypeOK, [Next]_vars, NEW k \in Keys, expiries'[k] = 0
  PROVE  expiries[k] = 0 /\ ~Expire(k)
PROOF
  <1>1. expiries[k] \in Nat
    BY RequestsAssumption DEF TypeOK
  <1>2. ~Expire(k)
    BY <1>1 DEF Expire, TypeOK
  <1>3. ASSUME NEW j \in Keys, Expire(j) PROVE expiries[k] = 0
    BY <1>2, <1>3 DEF Expire, TypeOK
  <1>4. ASSUME NEW r \in Requests, Step(r) PROVE expiries[k] = 0
    BY <1>4 DEF Step, Begin, ClaimKey, ReadClaim, DropExpired, CheckAdapter, Lock, Scan,
       PlaceHold, PutPayment, VoidHold, CompleteClaim, ReleaseClaim
  <1> QED BY <1>2, <1>3, <1>4 DEF Next, vars, Crash, Retire, Revive

\* A row is there only once its Put was answered.
LEMMA RowsAnswered ==
  ASSUME TypeOK, KeyInv, [Next]_vars, "store lost" \notin faults',
         NEW q \in Requests, rows'[q] # "none"
  PROVE  pc'[q] \in {"complete", "done"}
PROOF
  <1>1. rows[q] # "none" => pc[q] \in {"complete", "done"}
    BY FaultsStay DEF KeyInv
  <1>2. CASE UNCHANGED vars
    BY <1>1, <1>2 DEF vars
  <1>3. ASSUME NEW r \in Requests, Step(r) PROVE pc'[q] \in {"complete", "done"}
    <2>1. CASE q # r
      BY <1>1, <1>3, <2>1, OthersStay
    <2>2. CASE q = r
      <3>1. CASE PutPayment(r)
        BY <1>1, <2>2, <3>1 DEF PutPayment, TypeOK, Goto, Fault
      <3>2. CASE CompleteClaim(r)
        BY <2>2, <3>2 DEF CompleteClaim, TypeOK, Goto
      <3>3. CASE pc[r] \notin {"complete", "done"} /\ rows' = rows
        BY <1>1, <2>2, <3>3
      <3> QED
        BY <1>3, <3>1, <3>2, <3>3 DEF Step, Begin, ClaimKey, ReadClaim, DropExpired,
           CheckAdapter, Lock, Scan, PlaceHold, VoidHold, ReleaseClaim
    <2> QED BY <2>1, <2>2
  <1>4. ASSUME NEW p \in Replicas, Crash(p) PROVE pc'[q] \in {"complete", "done"}
    BY <1>1, <1>4 DEF Crash, TypeOK
  <1>5. ASSUME NEW k \in Keys, Expire(k) PROVE pc'[q] \in {"complete", "done"}
    BY <1>1, <1>5 DEF Expire
  <1>6. ASSUME NEW r \in Requests, Retire(r) \/ Revive(r) PROVE pc'[q] \in {"complete", "done"}
    BY <1>1, <1>6 DEF Retire, Revive, TypeOK
  <1> QED BY <1>2, <1>3, <1>4, <1>5, <1>6 DEF Next

\* A request becomes active by winning a free claim, and in no other way.
LEMMA ActiveMoves ==
  ASSUME TypeInv, KeyInv, [Next]_vars, NEW k \in Keys,
         NEW q \in Requests, KeyOf[q] = k, Active(q)'
  PROVE  Active(q) \/ (ClaimKey(q) /\ claims[k] = NoClaim /\ claims'[k] = InProgress(q))
PROOF
  <1> SUFFICES ASSUME ~Active(q)
               PROVE  ClaimKey(q) /\ claims[k] = NoClaim /\ claims'[k] = InProgress(q)
    OBVIOUS
  <1>1. KeyOf[q] # NoKey /\ pc[q] \notin Claimed /\ rows[q] = "none"
    BY RequestsAssumption DEF Active
  <1>2. pc'[q] \in Claimed \/ rows'[q] # "none"
    BY DEF Active
  <1>3. PICK r \in Requests : Step(r)
    <2>1. ASSUME NEW r \in Requests, Retire(r) \/ Revive(r) PROVE FALSE
      BY <1>1, <1>2, <2>1 DEF Retire, Revive, Occupies, TypeInv, TypeOK
    <2>2. ASSUME NEW p \in Replicas, Crash(p) PROVE FALSE
      BY <1>1, <1>2, <2>2 DEF Crash, TypeInv, TypeOK, Claimed, Locked
    <2> QED BY <1>1, <1>2, <2>1, <2>2 DEF Next, vars, Expire
  <1>4. q = r
    BY <1>1, <1>2, <1>3, OthersStay DEF TypeInv
  <1>5. CASE ClaimKey(q)
    BY <1>1, <1>2, <1>5 DEF ClaimKey, Goto, Claimed, Locked, TypeInv, TypeOK
  <1>6. CASE Begin(q) \/ ReadClaim(q) \/ DropExpired(q)
    BY <1>1, <1>2, <1>6 DEF Begin, ReadClaim, DropExpired, Goto, Claimed, Locked, TypeInv, TypeOK
  <1>7. CASE \/ CheckAdapter(q) \/ Lock(q) \/ Scan(q) \/ PlaceHold(q) \/ PutPayment(q)
             \/ VoidHold(q) \/ CompleteClaim(q) \/ ReleaseClaim(q)
    BY <1>1, <1>7 DEF CheckAdapter, Lock, Scan, PlaceHold, PutPayment, VoidHold,
       CompleteClaim, ReleaseClaim, Claimed, Locked
  <1> QED BY <1>3, <1>4, <1>5, <1>6, <1>7 DEF Step

\* A claim is not the absence of one.
LEMMA ClaimIsThere ==
  ASSUME NEW r \in Requests
  PROVE  InProgress(r) # NoClaim /\ [InProgress(r) EXCEPT !.payment = r] # NoClaim
PROOF
  <1>1. DOMAIN InProgress(r) = {"body", "payment", "expired"}
    BY DEF InProgress
  <1>2. DOMAIN [InProgress(r) EXCEPT !.payment = r] = {"body", "payment", "expired"}
    BY <1>1
  <1>3. DOMAIN NoClaim = {"none"}
    BY DEF NoClaim
  <1> QED BY <1>1, <1>2, <1>3

\* Every step keeps the key invariant.
LEMMA KeyStep == TypeInv /\ KeyInv /\ [Next]_vars => KeyInv'
PROOF
  <1> SUFFICES ASSUME TypeInv, KeyInv, [Next]_vars, "store lost" \notin faults'
               PROVE  KeyInv'
    BY DEF KeyInv
  <1>1. "store lost" \notin faults
    BY FaultsStay
  <1>2. \A r \in Requests : rows'[r] # "none" => pc'[r] \in {"complete", "done"}
    BY RowsAnswered DEF TypeInv
  <1>3. ASSUME NEW k \in Keys, expiries'[k] = 0
        PROVE  /\ claims'[k] # NoClaim => ~claims'[k].expired
               /\ \A r \in Requests : KeyOf[r] = k =>
                    /\ pc'[r] # "dropExpired"
                    /\ Active(r)' => claims'[k] # NoClaim
               /\ \A r, q \in Requests :
                    KeyOf[r] = k /\ KeyOf[q] = k /\ Active(r)' /\ Active(q)' => r = q
    <2>1. expiries[k] = 0 /\ ~Expire(k)
      BY <1>3, ExpiriesGrow DEF TypeInv
    <2>2. claims[k] # NoClaim => ~claims[k].expired
      BY <1>1, <2>1 DEF KeyInv
    <2>3. ASSUME NEW r \in Requests, KeyOf[r] = k
          PROVE  pc[r] # "dropExpired" /\ (Active(r) => claims[k] # NoClaim)
      BY <1>1, <2>1, <2>3 DEF KeyInv
    <2>4. ASSUME NEW r \in Requests, NEW q \in Requests, KeyOf[r] = k, KeyOf[q] = k,
                 Active(r), Active(q)
          PROVE  r = q
      BY <1>1, <2>1, <2>4 DEF KeyInv
    <2>5. claims'[k] # NoClaim => ~claims'[k].expired
      <3>1. ASSUME NEW r \in Requests
            PROVE  ~InProgress(r).expired /\ ~[InProgress(r) EXCEPT !.payment = r].expired
        BY DEF InProgress
      <3>2. ClaimChange(k)
        BY ClaimChanges
      <3> QED BY <2>1, <2>2, <3>1, <3>2 DEF ClaimChange
    <2>6. ASSUME NEW r \in Requests, KeyOf[r] = k, pc'[r] = "dropExpired" PROVE FALSE
      <3>1. pc[r] # "dropExpired"
        BY <2>3, <2>6
      <3>2. PICK s \in Requests : Step(s)
        BY <2>6, <3>1 DEF Next, vars, Crash, Expire, Retire, Revive, TypeInv, TypeOK
      <3>3. s = r
        BY <2>6, <3>1, <3>2, OthersStay DEF TypeInv
      <3>4. ReadClaim(r)
        BY <2>6, <3>1, <3>2, <3>3 DEF Step, Begin, ClaimKey, DropExpired, CheckAdapter, Lock,
           Scan, PlaceHold, PutPayment, VoidHold, CompleteClaim, ReleaseClaim, Goto, TypeInv, TypeOK
      <3> QED BY <2>2, <2>6, <3>4 DEF ReadClaim, Goto, TypeInv, TypeOK
    <2>7. ASSUME NEW q \in Requests, KeyOf[q] = k, Active(q)', claims'[k] = NoClaim PROVE FALSE
      <3>1. Active(q)
        BY <2>7, ActiveMoves, ClaimIsThere
      <3>2. claims[k] # NoClaim
        BY <2>3, <2>7, <3>1
      <3>3. PICK r \in Requests : KeyOf[r] = k /\ ReleaseClaim(r)
        <4>1. ClaimChange(k)
          BY ClaimChanges
        <4>2. ASSUME NEW r \in Requests, KeyOf[r] = k, DropExpired(r) PROVE FALSE
          BY <2>3, <4>2 DEF DropExpired
        <4> QED BY <2>1, <2>7, <3>2, <4>1, <4>2, ClaimIsThere DEF ClaimChange
      <3>4. pc[r] = "release" /\ pc'[r] = "done" /\ rows' = rows
        BY <3>3 DEF ReleaseClaim, Goto, TypeInv, TypeOK
      <3>5. r = q
        BY <2>4, <2>7, <3>1, <3>3, <3>4 DEF Active, Claimed
      <3>6. rows[q] = "none"
        BY <1>1, <3>4, <3>5 DEF KeyInv
      <3> QED BY <2>7, <3>4, <3>5, <3>6 DEF Active, Claimed, Locked
    <2>8. ASSUME NEW r \in Requests, NEW q \in Requests, KeyOf[r] = k, KeyOf[q] = k,
                 Active(r)', Active(q)', ~Active(r), r # q
          PROVE  FALSE
      <3>1. ClaimKey(r) /\ claims[k] = NoClaim
        BY <2>8, ActiveMoves
      <3>2. ~Active(q)
        BY <2>3, <2>8, <3>1
      <3>3. pc'[q] = pc[q] /\ rows'[q] = rows[q]
        BY <2>8, <3>1, OthersStay DEF Step, TypeInv
      <3> QED BY <2>8, <3>2, <3>3 DEF Active
    <2>9. ASSUME NEW r \in Requests, NEW q \in Requests, KeyOf[r] = k, KeyOf[q] = k,
                 Active(r)', Active(q)'
          PROVE  r = q
      BY <2>4, <2>8, <2>9
    <2> QED BY <2>5, <2>6, <2>7, <2>9
  <1> QED BY <1>2, <1>3 DEF KeyInv

\* Until it expires, an idempotency key creates at most one payment, however
\* many replicas and requests use it and whatever crashes: only a Put that
\* was reported failed after it wrote can break it.
THEOREM OnePaymentEach == Spec => []OnePaymentPerKey
PROOF
  <1>1. Init => KeyInv
    BY DEF Init, KeyInv, Active, Claimed, Locked
  <1>2. TypeInv /\ KeyInv /\ [Next]_vars => KeyInv'
    BY KeyStep
  <1>3. TypeInv /\ KeyInv => OnePaymentPerKey
    <2> SUFFICES ASSUME TypeInv, KeyInv, "store lost" \notin faults,
                        NEW r \in Requests, NEW q \in Requests,
                        KeyOf[r] = KeyOf[q], KeyOf[r] # NoKey, expiries[KeyOf[r]] = 0,
                        rows[r] # "none", rows[q] # "none"
                 PROVE  r = q
      BY DEF OnePaymentPerKey
    <2>1. KeyOf[r] \in Keys
      BY RequestsAssumption
    <2> QED BY <2>1 DEF KeyInv, Active
  <1> QED BY <1>1, <1>2, <1>3, TypeInvariant, PTL DEF Spec
=============================================================================

---------------------------- MODULE PaymentIntent ----------------------------
(***************************************************************************)
(* PaymentService.CreateIntent (services/presumptive/payments.go) on one   *)
(* store shared by several replicas of the service: the atomic claim of    *)
(* the idempotency key, the duplicate-levy scan under the replica's mutex, *)
(* the ledger hold, the payment row and the completion or release of the   *)
(* claim, with the error path of every call.                               *)
(*                                                                         *)
(* A request runs once; a client retry is another request with the same    *)
(* key and body.  A request creates at most one payment, so the request    *)
(* names it.  The rest of a payment's life is module CaptureSaga; here it  *)
(* only leaves its slot (Retire) and may come back to it when a webhook    *)
(* handler writes back the copy it read before (Revive).                   *)
(***************************************************************************)
EXTENDS Integers, FiniteSets

CONSTANTS
  Requests,     \* calls of CreateIntent, from any channel
  Keys,         \* idempotency keys
  NoKey,        \* a request without one
  Bodies,       \* request payloads, as intentRequestHash tells them apart
  Slots,        \* (tin_hash, period, instalment class)
  Replicas,     \* processes sharing the store, each with its own mutex
  KeyOf, BodyOf, SlotOf, ReplicaOf,   \* the requests
  Stale,        \* bound: the payments a webhook handler may write back late
  UniqueIndex,  \* does the store enforce meridian_payments_levy_uniq?
  MaxExpiries,  \* bound: how often a key outlives idempotencyTTL
  MaxFaultKinds \* bound: how many kinds of failure one behaviour combines

ASSUME RequestsAssumption ==
  /\ NoKey \notin Keys
  /\ KeyOf \in [Requests -> Keys \cup {NoKey}]
  /\ BodyOf \in [Requests -> Bodies]
  /\ SlotOf \in [Requests -> Slots]
  /\ ReplicaOf \in [Requests -> Replicas]
  /\ Stale \subseteq Requests
  /\ MaxExpiries \in Nat
  /\ MaxFaultKinds \in Nat

\* Postgres has the index; the embedded store, without it, serves one process.
ASSUME StoreAssumption ==
  /\ UniqueIndex \in BOOLEAN
  /\ UniqueIndex \/ \A r, q \in Requests : ReplicaOf[r] = ReplicaOf[q]

VARIABLES
  claims,    \* the "idempotency" collection
  rows,      \* the payment row of each request: how does it occupy its slot?
  holds,     \* its pending transfer on the ledger
  owner,     \* who holds PaymentService.mu of each replica
  pc,        \* where each request is
  attempt,   \* its round of the claim loop
  reply,     \* the payment it was answered with
  expiries,  \* how often each key has expired
  faults     \* the kinds of failure that have happened

vars == <<claims, rows, holds, owner, pc, attempt, reply, expiries, faults>>

-----------------------------------------------------------------------------
NoPayment == "no payment"
Unlocked == "unlocked"

ASSUME NamesAssumption == NoPayment \notin Requests /\ Unlocked \notin Requests

\* A record of another shape stands for a key that is not in the store.
NoClaim == [none |-> TRUE]
ClaimRecords == [body : Bodies, payment : Requests \cup {NoPayment}, expired : BOOLEAN]

\* A refused call has no effect; a "lost" one had it and was reported failed.
FaultKinds == {"store refused", "store lost", "ledger refused", "ledger lost", "crash"}

\* The steps between winning the claim and the answer, with and without mu.
Locked == {"scan", "hold", "put", "voidHold", "complete"}
Claimed == Locked \cup {"adapter", "lock", "release"}
Labels == Claimed \cup {"start", "claim", "lookup", "dropExpired", "done"}

TypeOK ==
  /\ claims \in [Keys -> ClaimRecords \cup {NoClaim}]
  /\ rows \in [Requests -> {"none", "live", "free", "revived"}]
  /\ holds \in [Requests -> {"absent", "pending", "voided"}]
  /\ owner \in [Replicas -> Requests \cup {Unlocked}]
  /\ pc \in [Requests -> Labels]
  /\ attempt \in [Requests -> {0, 1}]
  /\ reply \in [Requests -> Requests \cup {NoPayment}]
  /\ expiries \in [Keys -> 0..MaxExpiries]
  /\ faults \subseteq FaultKinds

Init ==
  /\ claims = [k \in Keys |-> NoClaim]
  /\ rows = [r \in Requests |-> "none"]
  /\ holds = [r \in Requests |-> "absent"]
  /\ owner = [p \in Replicas |-> Unlocked]
  /\ pc = [r \in Requests |-> "start"]
  /\ attempt = [r \in Requests |-> 0]
  /\ reply = [r \in Requests |-> NoPayment]
  /\ expiries = [k \in Keys |-> 0]
  /\ faults = {}

Goto(r, to) == pc' = [pc EXCEPT ![r] = to]
NoFault == UNCHANGED faults
Fault(kinds) ==
  \E kind \in kinds :
    /\ Cardinality(faults \cup {kind}) <= MaxFaultKinds
    /\ faults' = faults \cup {kind}
Ledger == {"ledger refused", "ledger lost"}
Store == {"store refused", "store lost"}

\* The deferred unlock of mu when a request returns.
Unlock(r) == owner' = [owner EXCEPT ![ReplicaOf[r]] = IF @ = r THEN Unlocked ELSE @]

Answer(r, p) == reply' = [reply EXCEPT ![r] = p]

-----------------------------------------------------------------------------
(* The claim of the idempotency key.                                       *)

\* Requests refused by the gate or by validation end here without effect.
Begin(r) ==
  /\ pc[r] = "start"
  /\ Goto(r, IF KeyOf[r] = NoKey THEN "adapter" ELSE "claim")
  /\ UNCHANGED <<claims, rows, holds, owner, attempt, reply, expiries, faults>>

\* A claim that is not completed yet.
InProgress(r) == [body |-> BodyOf[r], payment |-> NoPayment, expired |-> FALSE]

\* Mutant: the claim is written whether or not the key is taken.
ClaimKey_Put(r) ==
  /\ pc[r] = "claim"
  /\ claims' = [claims EXCEPT ![KeyOf[r]] = InProgress(r)]
  /\ Goto(r, "adapter")
  /\ UNCHANGED <<rows, holds, owner, attempt, reply, expiries, faults>>

\* PutIfAbsent of an in-progress claim.
ClaimKey(r) ==
  LET won == [claims EXCEPT ![KeyOf[r]] = InProgress(r)] IN
  /\ pc[r] = "claim"
  /\ \/ claims[KeyOf[r]] = NoClaim /\ claims' = won /\ Goto(r, "adapter") /\ NoFault
     \/ claims[KeyOf[r]] # NoClaim /\ UNCHANGED claims /\ Goto(r, "lookup") /\ NoFault
     \/ UNCHANGED claims /\ Goto(r, "done") /\ Fault({"store refused"})
     \/ /\ claims[KeyOf[r]] = NoClaim
        /\ claims' = won /\ Goto(r, "done") /\ Fault({"store lost"})
  /\ UNCHANGED <<rows, holds, owner, attempt, reply, expiries>>

\* Mutant: the payload hash of the stored claim is not compared.
Conflicts_NoHash(rec, r) == FALSE

\* The key was used with another payload.
Conflicts(rec, r) == rec.body # BodyOf[r]

\* The stored claim is read: an expired one is dropped (once), another payload
\* or a claim in progress is a conflict, a completed one is replayed.  When
\* the read of the claim fails the request ends; when the read of the payment
\* it names fails the loop goes round once.
ReadClaim(r) ==
  LET rec == claims[KeyOf[r]]
      again == IF attempt[r] = 0 THEN "claim" ELSE "done"
  IN
  /\ pc[r] = "lookup"
  /\ \/ /\ rec = NoClaim
        /\ Goto(r, again) /\ attempt' = [attempt EXCEPT ![r] = 1]
        /\ UNCHANGED reply /\ NoFault
     \/ /\ rec # NoClaim /\ rec.expired /\ attempt[r] = 0
        /\ Goto(r, "dropExpired")
        /\ UNCHANGED <<attempt, reply>> /\ NoFault
     \/ /\ rec # NoClaim /\ ~(rec.expired /\ attempt[r] = 0)
        /\ IF Conflicts(rec, r) THEN UNCHANGED reply ELSE Answer(r, rec.payment)
        /\ Goto(r, "done")
        /\ UNCHANGED attempt /\ NoFault
     \/ /\ Goto(r, "done")
        /\ UNCHANGED <<attempt, reply>> /\ Fault({"store refused"})
     \/ /\ rec # NoClaim /\ ~(rec.expired /\ attempt[r] = 0)
        /\ ~Conflicts(rec, r) /\ rec.payment # NoPayment
        /\ Goto(r, again) /\ attempt' = [attempt EXCEPT ![r] = 1]
        /\ UNCHANGED reply /\ Fault({"store refused"})
  /\ UNCHANGED <<claims, rows, holds, owner, expiries>>

\* Delete whatever claim the key has, then claim again.
DropExpired(r) ==
  LET dropped == [claims EXCEPT ![KeyOf[r]] = NoClaim] IN
  /\ pc[r] = "dropExpired"
  /\ attempt' = [attempt EXCEPT ![r] = 1]
  /\ \/ claims' = dropped /\ Goto(r, "claim") /\ NoFault
     \/ UNCHANGED claims /\ Goto(r, "done") /\ Fault({"store refused"})
     \/ claims' = dropped /\ Goto(r, "done") /\ Fault({"store lost"})
  /\ UNCHANGED <<rows, holds, owner, reply, expiries>>

-----------------------------------------------------------------------------
(* The payment, under mu.                                                  *)

\* An unknown provider is refused before the lock.
CheckAdapter(r) ==
  /\ pc[r] = "adapter"
  /\ Goto(r, "release") \/ Goto(r, "lock")
  /\ UNCHANGED <<claims, rows, holds, owner, attempt, reply, expiries, faults>>

\* mu.Lock.
Lock(r) ==
  /\ pc[r] = "lock"
  /\ owner[ReplicaOf[r]] = Unlocked
  /\ owner' = [owner EXCEPT ![ReplicaOf[r]] = r]
  /\ Goto(r, "scan")
  /\ UNCHANGED <<claims, rows, holds, attempt, reply, expiries, faults>>

\* The row's status is one of duplicateLevyStatuses: it was created so, or a
\* stale write-back made it so again.
Occupies(q) == rows[q] \in {"live", "revived"}

Occupied(slot) == \E q \in Requests : SlotOf[q] = slot /\ Occupies(q)

\* findDuplicateLevy, the band evaluation and the two accounts: a duplicate
\* is refused, and so may be any other request (exempt, above the ceiling,
\* zero levy, accounts unavailable).
Scan(r) ==
  /\ pc[r] = "scan"
  /\ \/ ~Occupied(SlotOf[r]) /\ Goto(r, "hold") /\ NoFault
     \/ Goto(r, "release") /\ NoFault
     \/ Goto(r, "release") /\ Fault({"store refused"} \cup Ledger)
  /\ UNCHANGED <<claims, rows, holds, owner, attempt, reply, expiries>>

\* PendingTransfer under an id derived from the new payment's id.
PlaceHold(r) ==
  LET held == [holds EXCEPT ![r] = "pending"] IN
  /\ pc[r] = "hold"
  /\ \/ holds' = held /\ Goto(r, "put") /\ NoFault
     \/ UNCHANGED holds /\ Goto(r, "release") /\ Fault({"ledger refused"})
     \/ holds' = held /\ Goto(r, "release") /\ Fault({"ledger lost"})
  /\ UNCHANGED <<claims, rows, owner, attempt, reply, expiries>>

\* Mutant: the unique index is missing.
IndexRefuses_Never(r) == FALSE

\* meridian_payments_levy_uniq refuses a second live row of a slot.
IndexRefuses(r) == UniqueIndex /\ Occupied(SlotOf[r])

\* Mutant: a Put that fails is answered without releasing the hold.
PutPayment_NoCompensation(r) ==
  LET written == [rows EXCEPT ![r] = "live"] IN
  /\ pc[r] = "put"
  /\ \/ ~IndexRefuses(r) /\ rows' = written /\ Goto(r, "complete") /\ NoFault
     \/ IndexRefuses(r) /\ UNCHANGED rows /\ Goto(r, "release") /\ NoFault
     \/ UNCHANGED rows /\ Goto(r, "release") /\ Fault({"store refused"})
  /\ UNCHANGED <<claims, holds, owner, attempt, reply, expiries>>

\* Put("payments").
PutPayment(r) ==
  LET written == [rows EXCEPT ![r] = "live"] IN
  /\ pc[r] = "put"
  /\ \/ ~IndexRefuses(r) /\ rows' = written /\ Goto(r, "complete") /\ NoFault
     \/ IndexRefuses(r) /\ UNCHANGED rows /\ Goto(r, "voidHold") /\ NoFault
     \/ UNCHANGED rows /\ Goto(r, "voidHold") /\ Fault({"store refused"})
     \/ ~IndexRefuses(r) /\ rows' = written /\ Goto(r, "voidHold") /\ Fault({"store lost"})
  /\ UNCHANGED <<claims, holds, owner, attempt, reply, expiries>>

\* The compensating void of the hold, best effort.
VoidHold(r) ==
  LET voided == [holds EXCEPT ![r] = "voided"] IN
  /\ pc[r] = "voidHold"
  /\ \/ holds' = voided /\ NoFault
     \/ UNCHANGED holds /\ Fault({"ledger refused"})
     \/ holds' = voided /\ Fault({"ledger lost"})
  /\ Goto(r, "release")
  /\ UNCHANGED <<claims, rows, owner, attempt, reply, expiries>>

-----------------------------------------------------------------------------
(* The end of the request.                                                 *)

\* Put of the completed claim.  A failure keeps the claim in progress; the
\* payment is returned all the same, with the error.
CompleteClaim(r) ==
  LET completed == [claims EXCEPT ![KeyOf[r]] = [InProgress(r) EXCEPT !.payment = r]] IN
  /\ pc[r] = "complete"
  /\ \/ KeyOf[r] = NoKey /\ UNCHANGED claims /\ NoFault
     \/ KeyOf[r] # NoKey /\ claims' = completed /\ NoFault
     \/ KeyOf[r] # NoKey /\ UNCHANGED claims /\ Fault({"store refused"})
     \/ KeyOf[r] # NoKey /\ claims' = completed /\ Fault({"store lost"})
  /\ Answer(r, r)
  /\ Goto(r, "done")
  /\ Unlock(r)
  /\ UNCHANGED <<rows, holds, attempt, expiries>>

\* Mutant: the error path returns without releasing the claim.
ReleaseClaim_Forgotten(r) ==
  /\ pc[r] = "release"
  /\ Goto(r, "done")
  /\ Unlock(r)
  /\ UNCHANGED <<claims, rows, holds, attempt, reply, expiries, faults>>

\* Mutant: the error path returns without unlocking.
ReleaseClaim_KeepsLock(r) ==
  /\ pc[r] = "release"
  /\ claims' = [k \in Keys |-> IF k = KeyOf[r] THEN NoClaim ELSE claims[k]]
  /\ Goto(r, "done")
  /\ UNCHANGED <<owner, rows, holds, attempt, reply, expiries, faults>>

\* releaseClaim: Delete the key's claim, errors ignored, and return.
ReleaseClaim(r) ==
  LET released == [k \in Keys |-> IF k = KeyOf[r] THEN NoClaim ELSE claims[k]] IN
  /\ pc[r] = "release"
  /\ \/ claims' = released /\ NoFault
     \/ KeyOf[r] # NoKey /\ UNCHANGED claims /\ Fault({"store refused"})
     \/ KeyOf[r] # NoKey /\ claims' = released /\ Fault({"store lost"})
  /\ Goto(r, "done")
  /\ Unlock(r)
  /\ UNCHANGED <<rows, holds, attempt, reply, expiries>>

-----------------------------------------------------------------------------
(* The environment.                                                        *)

\* A replica dies: its requests and its mutex are gone, the store is not.
Crash(p) ==
  /\ \E r \in Requests : ReplicaOf[r] = p /\ pc[r] \notin {"start", "done"}
  /\ pc' = [r \in Requests |->
              IF ReplicaOf[r] = p /\ pc[r] # "start" THEN "done" ELSE pc[r]]
  /\ owner' = [owner EXCEPT ![p] = Unlocked]
  /\ Fault({"crash"})
  /\ UNCHANGED <<claims, rows, holds, attempt, reply, expiries>>

\* idempotencyTTL passes.  It is days, so no request of the key is running.
Expire(k) ==
  /\ claims[k] # NoClaim
  /\ ~claims[k].expired
  /\ expiries[k] < MaxExpiries
  /\ \A r \in Requests : KeyOf[r] = k => pc[r] \in {"start", "done"}
  /\ claims' = [claims EXCEPT ![k].expired = TRUE]
  /\ expiries' = [expiries EXCEPT ![k] = @ + 1]
  /\ UNCHANGED <<rows, holds, owner, pc, attempt, reply, faults>>

\* The payment fails, is voided, compensated, expired or charged back: its
\* status leaves duplicateLevyStatuses and its hold is no longer pending.
Retire(r) ==
  /\ Occupies(r)
  /\ pc[r] = "done"
  /\ rows' = [rows EXCEPT ![r] = "free"]
  /\ holds' = [holds EXCEPT ![r] = "voided"]
  /\ UNCHANGED <<claims, owner, pc, attempt, reply, expiries, faults>>

\* A webhook handler that read the payment before it was retired Puts its
\* whole copy back as authorised.  The index sees that Put like any other, mu
\* does not: HandleWebhook never takes it here.
Revive(r) ==
  /\ r \in Stale
  /\ rows[r] = "free"
  /\ ~IndexRefuses(r)
  /\ rows' = [rows EXCEPT ![r] = "revived"]
  /\ UNCHANGED <<claims, holds, owner, pc, attempt, reply, expiries, faults>>

-----------------------------------------------------------------------------
Step(r) ==
  \/ Begin(r) \/ ClaimKey(r) \/ ReadClaim(r) \/ DropExpired(r)
  \/ CheckAdapter(r) \/ Lock(r) \/ Scan(r) \/ PlaceHold(r) \/ PutPayment(r) \/ VoidHold(r)
  \/ CompleteClaim(r) \/ ReleaseClaim(r)

Next ==
  \/ \E r \in Requests : Step(r)
  \/ \E p \in Replicas : Crash(p)
  \/ \E k \in Keys : Expire(k)
  \/ \E r \in Requests : Retire(r) \/ Revive(r)

Spec == Init /\ [][Next]_vars

\* A request that has started keeps running.
FairSpec == Spec /\ \A r \in Requests : WF_vars(pc[r] # "start" /\ Step(r))

-----------------------------------------------------------------------------
(* Properties.                                                             *)

\* One live levy payment per TIN, period and instalment class, whichever
\* replica, channel and key the requests came through and whatever a late
\* webhook writes back: the unique index refuses a second one.  On a store
\* without the index (one process) the scan under mu keeps two requests from
\* creating a second one, but nothing keeps a write-back from reviving one.
OneLevyPerSlot ==
  \A r, q \in Requests :
    Occupies(r) /\ Occupies(q) /\ SlotOf[r] = SlotOf[q] =>
      r = q \/ (~UniqueIndex /\ "revived" \in {rows[r], rows[q]})

\* A key is answered with a payment it was used for and never with one of
\* another payload, whatever expired, was released or was claimed again.
ReplayMatches ==
  \A r \in Requests :
    reply[r] # NoPayment =>
      /\ KeyOf[reply[r]] = KeyOf[r]
      /\ BodyOf[reply[r]] = BodyOf[r]
      /\ rows[reply[r]] # "none"

\* A store failure never orphans a hold: unless the ledger failed or the
\* process died, a hold without payment row belongs to a running request.
NoOrphanHold ==
  faults \cap (Ledger \cup {"crash"}) = {} =>
    \A r \in Requests :
      holds[r] = "pending" /\ rows[r] = "none" => pc[r] \in Locked

\* Until it expires a key creates one payment, also when replicas crash and
\* clients retry.  A row whose Put was reported failed is the exception: its
\* claim is released, and the key may be used for another slot.
OnePaymentPerKey ==
  "store lost" \notin faults =>
    \A r, q \in Requests :
      /\ KeyOf[r] = KeyOf[q] /\ KeyOf[r] # NoKey
      /\ expiries[KeyOf[r]] = 0
      /\ rows[r] # "none" /\ rows[q] # "none"
      => r = q

\* No key is blocked by a request that ended: unless the store failed or the
\* process died, a claim in progress has a request working on it.
ClaimReleased ==
  faults \cap (Store \cup {"crash"}) = {} =>
    \A k \in Keys :
      claims[k] # NoClaim /\ claims[k].payment = NoPayment =>
        \E r \in Requests : KeyOf[r] = k /\ pc[r] \in Claimed

\* Every request that started is answered: no error path keeps mu, and no
\* request waits for it or loops over the claim forever.
RequestsEnd == <>[](\A r \in Requests : pc[r] \in {"start", "done"})
=============================================================================

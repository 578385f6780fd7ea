----------------------------- MODULE NIPPayout -----------------------------
(***************************************************************************)
(* NIPService (services/presumptive/nip_recon.go) over the rail of nip.go  *)
(* and nip_http.go: payouts and refunds, operator reversals, the TSQ       *)
(* sweeper, the purge of idempotency records and the outbox relay.         *)
(*                                                                         *)
(* Several replicas of the service share one store.  Payouts and refunds   *)
(* run one at a time under their replica's mu, which other replicas do not *)
(* see: between them the check of the key is a Get and its claim a plain   *)
(* Put.  Sweeps, reversals, the purge and the relay take no lock: they     *)
(* work on copies they read, so every call to the store, the ledger and    *)
(* the rail is a step.  A transfer is stored twice, under its session id   *)
(* (rows) and under its idempotency key (idem).  A request runs once and   *)
(* creates at most one transfer, so the request names the session; a       *)
(* client's retry is another request with the same key.  A loop over List  *)
(* is modelled one record at a time.                                       *)
(***************************************************************************)
EXTENDS Integers, FiniteSetsExt

CONSTANTS
  Requests,    \* calls of Payout and Refund, with valid fields
  Keys,        \* idempotency keys
  KeyOf,       \* [Requests -> Keys]
  AmountOf,    \* [Requests -> Nat]
  SourceOf,    \* the payout a refund returns value for, or NoSource
  NoSource,
  Replicas,    \* the processes, each with the goroutine of StartTSQSweeper
  Operators,   \* HTTP calls of /v1/nip/sweep and /v1/nip/reversal
  ReplicaOf,   \* the process that serves a request or an operator
  MaxFaults,   \* bound: failed calls, failed Puts, crashes and operator calls
  MaxExpiries  \* bound: idempotency windows that close

\* The ticker of a replica goes by the replica's name.
Sweepers == Replicas \cup Operators
Workers == Requests \cup Sweepers

ASSUME PayoutAssumption ==
  /\ Requests \cap Sweepers = {}
  /\ Replicas \cap Operators = {}
  /\ ReplicaOf \in [Requests \cup Operators -> Replicas]
  /\ NoSource \notin Requests
  /\ KeyOf \in [Requests -> Keys]
  /\ AmountOf \in [Requests -> Nat]
  /\ SourceOf \in [Requests -> Requests \cup {NoSource}]
  /\ MaxFaults \in Nat /\ MaxExpiries \in Nat

VARIABLES
  rows,     \* nip_transfers under the session id
  idem,     \* nip_transfers under "idem:" and the key
  expired,  \* transfers whose idempotency window has closed
  rail,     \* the rail's view of every session
  leg,      \* the ledger leg of every session
  outbox,   \* nip_outbox: the status whose event waits for the bus
  owner,    \* who holds mu of each replica
  started,  \* has a process built the NIP service and its sweeper?
  pc,       \* where every worker is
  loc,      \* its copy of a transfer, and where it goes after a put
  faults    \* failures and operator calls so far

stored == <<rows, idem, outbox>>
vars == <<rows, idem, outbox, expired, rail, leg, owner, started, pc, loc, faults>>

-----------------------------------------------------------------------------
Statuses == {"in_flight", "success", "failed", "reversed"}

\* NIPTransfer: whose session it is, its status, and is LedgerPendingID set?
Transfers == [req : Requests, status : Statuses, leg : BOOLEAN]
NoTransfer == [none |-> TRUE]

PayoutLabels ==
  {"check", "lookup", "enquire", "putKey", "putRow", "hold", "dispatch",
   "settle", "endKey", "endRow"}
SweepLabels == {"tsq", "post", "void", "read", "reverse", "purge", "relay", "forget"}
Labels == PayoutLabels \cup SweepLabels \cup {"saveRow", "saveKey", "publish"}

Rest(w) == IF w \in Requests THEN "done" ELSE "idle"
Resting(w) == pc[w] \in {"start", "done", "idle"}

NoFrame == [t |-> NoTransfer, next |-> "done"]

TypeOK ==
  /\ rows \in [Requests -> Transfers \cup {NoTransfer}]
  /\ idem \in [Keys -> Transfers \cup {NoTransfer}]
  /\ outbox \in [Requests -> Statuses \cup {"none"}]
  /\ expired \subseteq Requests
  /\ rail \in [Requests -> {"none", "hung", "success", "failed", "reversed"}]
  /\ leg \in [Requests -> {"absent", "pending", "posted", "voided"}]
  /\ owner \in [Replicas -> Requests \cup {NoSource}]
  /\ started \in [Replicas -> BOOLEAN]
  /\ pc \in [Workers -> Labels \cup {"start", "done", "idle"}]
  /\ loc \in [Workers -> [t : Transfers \cup {NoTransfer},
                          next : {"dispatch", "publish", "done", "idle"}]]
  /\ faults \in 0..MaxFaults

Init ==
  /\ rows = [r \in Requests |-> NoTransfer]
  /\ idem = [k \in Keys |-> NoTransfer]
  /\ outbox = [r \in Requests |-> "none"]
  /\ expired = {}
  /\ rail = [r \in Requests |-> "none"]
  /\ leg = [r \in Requests |-> "absent"]
  /\ owner = [p \in Replicas |-> NoSource]
  /\ started = [p \in Replicas |-> FALSE]
  /\ pc = [w \in Workers |-> IF w \in Requests THEN "start" ELSE "idle"]
  /\ loc = [w \in Workers |-> NoFrame]
  /\ faults = 0

Fault == faults < MaxFaults /\ faults' = faults + 1
NoFault == UNCHANGED faults

Goto(w, to) == pc' = [pc EXCEPT ![w] = to]
Frame(w, t, next) == loc' = [loc EXCEPT ![w] = [t |-> t, next |-> next]]

\* A return, with the deferred unlock of mu.
Leave(w) ==
  /\ Goto(w, Rest(w))
  /\ loc' = [loc EXCEPT ![w] = NoFrame]
  /\ owner' = [p \in Replicas |-> IF owner[p] = w THEN NoSource ELSE owner[p]]

Stay(w, to) == Goto(w, to) /\ UNCHANGED <<loc, owner>>

\* Put: stored, refused, or stored and reported failed.
PutRow(t) == rows' = [rows EXCEPT ![t.req] = t]
PutKey(t) == idem' = [idem EXCEPT ![KeyOf[t.req]] = t]
PutRowFails(t) == (PutRow(t) \/ UNCHANGED rows) /\ Fault
PutKeyFails(t) == (PutKey(t) \/ UNCHANGED idem) /\ Fault

\* PostPendingAs under its deterministic id, and VoidPending.
CanPost(r) == leg[r] \in {"pending", "posted"}
Posted(r) == [leg EXCEPT ![r] = "posted"]
MaybePosted(r) == IF CanPost(r) THEN {leg, Posted(r)} ELSE {leg}
Voided(r) == [leg EXCEPT ![r] = IF @ = "pending" THEN "voided" ELSE @]

-----------------------------------------------------------------------------
(* Payout and Refund.                                                      *)

\* The first NIP route of a process builds the service and its sweeper.
Start(w) == started' = [started EXCEPT ![ReplicaOf[w]] = TRUE]

Begin(r) ==
  /\ pc[r] = "start"
  /\ owner[ReplicaOf[r]] = NoSource
  /\ owner' = [owner EXCEPT ![ReplicaOf[r]] = r]
  /\ Start(r)
  /\ Goto(r, IF SourceOf[r] = NoSource THEN "lookup" ELSE "check")
  /\ UNCHANGED <<stored, expired, rail, leg, loc, faults>>

\* The copies of a transfer that List returns; the cap looks at one of them.
Copies(q) == ({rows[q]} \cup {idem[k] : k \in Keys}) \cap [req : {q}, status : Statuses, leg : BOOLEAN]

Counted == {"success", "in_flight"}

Refunded(counted) == MapThenSumSet(LAMBDA q : AmountOf[q], counted)

\* Refund: bound to a successful payout, and capped by its amount.
CheckSource(r) ==
  LET src == SourceOf[r]
      siblings == {q \in Requests : SourceOf[q] = src /\ Copies(q) # {}}
      may == {q \in siblings : \E c \in Copies(q) : c.status \in Counted}
      must == {q \in siblings : \A c \in Copies(q) : c.status \in Counted}
      payout == rows[src] # NoTransfer /\ SourceOf[src] = NoSource
                  /\ rows[src].status = "success"
  IN
  /\ pc[r] = "check"
  /\ \/ \E counted \in SUBSET may :
          /\ must \subseteq counted
          /\ IF payout /\ Refunded(counted) + AmountOf[r] <= AmountOf[src]
             THEN Stay(r, "lookup")
             ELSE Leave(r)
          /\ NoFault
     \/ Leave(r) /\ Fault
  /\ UNCHANGED <<stored, expired, rail, leg, started>>

\* Mutant: a key that is already used is not looked up.
Lookup_Skipped(r) ==
  /\ pc[r] = "lookup"
  /\ Stay(r, "enquire") /\ NoFault
  /\ UNCHANGED <<stored, expired, rail, leg, started>>

\* The idempotent retry: the stored transfer is the answer (or, with another
\* payload, the refusal), unless its window has closed.
Lookup(r) ==
  LET old == idem[KeyOf[r]] IN
  /\ pc[r] = "lookup"
  /\ \/ /\ IF old # NoTransfer /\ old.req \notin expired THEN Leave(r) ELSE Stay(r, "enquire")
        /\ NoFault
     \/ Leave(r) /\ Fault
  /\ UNCHANGED <<stored, expired, rail, leg, started>>

\* Mutant: the records are left to the end of the call.
NameEnquiry_NoRecord(r) ==
  /\ pc[r] = "enquire"
  /\ Goto(r, "dispatch")
  /\ Frame(r, [req |-> r, status |-> "in_flight", leg |-> FALSE], "dispatch")
  /\ UNCHANGED <<owner, stored, expired, rail, leg, started, faults>>

\* The mandatory name enquiry: an unverified account and a failed call block.
NameEnquiry(r) ==
  /\ pc[r] = "enquire"
  /\ \/ /\ Goto(r, "putKey")
        /\ Frame(r, [req |-> r, status |-> "in_flight", leg |-> FALSE], "dispatch")
        /\ UNCHANGED owner
     \/ Leave(r)
  /\ UNCHANGED <<stored, expired, rail, leg, started, faults>>

\* The durable in_flight record before the dispatch, under both keys.
PutInFlightKey(r) ==
  /\ pc[r] = "putKey"
  /\ \/ PutKey(loc[r].t) /\ Stay(r, "putRow") /\ NoFault
     \/ PutKeyFails(loc[r].t) /\ Leave(r)
  /\ UNCHANGED <<rows, outbox, expired, rail, leg, started>>

PutInFlightRow(r) ==
  /\ pc[r] = "putRow"
  /\ \/ PutRow(loc[r].t) /\ Stay(r, "hold") /\ NoFault
     \/ PutRowFails(loc[r].t) /\ Leave(r)
  /\ UNCHANGED <<idem, outbox, expired, rail, leg, started>>

\* ledgerPendingLeg, then put(t) with the leg's id.
PendingLeg(r) ==
  LET held == [leg EXCEPT ![r] = "pending"] IN
  /\ pc[r] = "hold"
  /\ \/ /\ leg' = held
        /\ Goto(r, "saveRow")
        /\ Frame(r, [loc[r].t EXCEPT !.leg = TRUE], "dispatch")
        /\ UNCHANGED owner /\ NoFault
     \/ leg' \in {leg, held} /\ Leave(r) /\ Fault
  /\ UNCHANGED <<stored, expired, rail, started>>

\* The rail accepts, declines or hangs; a transport failure may hide any of it.
FundsTransfer(r) == {[rail EXCEPT ![r] = s] : s \in {"success", "failed", "hung"}}
UncertainTransfer(r) == FundsTransfer(r) \cup {rail}
Answer(s) == IF s = "hung" THEN "in_flight" ELSE s

\* FundsTransfer, once.  Without an answer the transfer is in_flight (the HTTP
\* adapter answers so, another error saves the record and returns).
Dispatch(r) ==
  LET t == loc[r].t IN
  /\ pc[r] = "dispatch"
  /\ \/ /\ rail' \in FundsTransfer(r)
        /\ Frame(r, [t EXCEPT !.status = Answer(rail'[r])], "done")
        /\ Goto(r, "settle") /\ NoFault
     \/ /\ rail' \in UncertainTransfer(r)
        /\ Frame(r, t, "done")
        /\ pc' \in {[pc EXCEPT ![r] = "settle"], [pc EXCEPT ![r] = "saveRow"]}
        /\ Fault
  /\ UNCHANGED <<stored, expired, leg, owner, started>>

\* Mutant: the leg is posted whatever the rail answered.
Settle_Any(r) ==
  /\ pc[r] = "settle"
  /\ \/ CanPost(r) /\ leg' = Posted(r) /\ Stay(r, "endKey") /\ NoFault
     \/ ~CanPost(r) /\ UNCHANGED leg /\ Leave(r) /\ NoFault
  /\ UNCHANGED <<stored, expired, rail, started>>

\* Post the leg of an accepted transfer; a failed post leaves the record
\* in_flight.  Void that of a declined one, best effort.
Settle(r) ==
  /\ pc[r] = "settle"
  /\ CASE loc[r].t.status = "success" ->
            \/ CanPost(r) /\ leg' = Posted(r) /\ Stay(r, "endKey") /\ NoFault
            \/ ~CanPost(r) /\ UNCHANGED leg /\ Leave(r) /\ NoFault
            \/ leg' \in MaybePosted(r) /\ Leave(r) /\ Fault
       [] loc[r].t.status = "failed" ->
            \/ leg' = Voided(r) /\ Stay(r, "endKey") /\ NoFault
            \/ leg' \in {leg, Voided(r)} /\ Stay(r, "endKey") /\ Fault
       [] OTHER -> UNCHANGED leg /\ Stay(r, "endKey") /\ NoFault
  /\ UNCHANGED <<stored, expired, rail, started>>

EndKey(r) ==
  /\ pc[r] = "endKey"
  /\ \/ PutKey(loc[r].t) /\ Stay(r, "endRow") /\ NoFault
     \/ PutKeyFails(loc[r].t) /\ Leave(r)
  /\ UNCHANGED <<rows, outbox, expired, rail, leg, started>>

EndRow(r) ==
  /\ pc[r] = "endRow"
  /\ \/ PutRow(loc[r].t) /\ Stay(r, "publish") /\ NoFault
     \/ PutRowFails(loc[r].t) /\ Leave(r)
  /\ UNCHANGED <<idem, outbox, expired, rail, leg, started>>

-----------------------------------------------------------------------------
(* put(t): both records, failures ignored; publish.                        *)

SaveRow(w) ==
  /\ pc[w] = "saveRow"
  /\ \/ PutRow(loc[w].t) /\ NoFault
     \/ PutRowFails(loc[w].t)
  /\ Stay(w, "saveKey")
  /\ UNCHANGED <<idem, outbox, expired, rail, leg, started>>

SaveKey(w) ==
  /\ pc[w] = "saveKey"
  /\ \/ PutKey(loc[w].t) /\ NoFault
     \/ PutKeyFails(loc[w].t)
  /\ IF loc[w].next = "done" THEN Leave(w) ELSE Stay(w, loc[w].next)
  /\ UNCHANGED <<rows, outbox, expired, rail, leg, started>>

\* publish: an event the bus refuses is queued in nip_outbox, one row per
\* transfer; a failed write of the outbox is logged only.
Publish(w) ==
  LET t == loc[w].t IN
  /\ pc[w] = "publish"
  /\ \/ UNCHANGED outbox /\ NoFault
     \/ outbox' \in {outbox, [outbox EXCEPT ![t.req] = t.status]} /\ Fault
  /\ Leave(w)
  /\ UNCHANGED <<rows, idem, expired, rail, leg, started>>

-----------------------------------------------------------------------------
(* SweepTSQ and Reversal.                                                  *)

\* A call of the operator is a NIP route too; the ticker runs once started.
Called(w) ==
  /\ pc[w] = "idle"
  /\ IF w \in Replicas
     THEN started[w] /\ UNCHANGED <<started, faults>>
     ELSE Fault /\ Start(w)

SweepList(w) ==
  /\ Called(w)
  /\ \E q \in Requests : \E t \in Copies(q) :
       t.status = "in_flight" /\ Frame(w, t, "publish")
  /\ Goto(w, "tsq")
  /\ UNCHANGED <<stored, expired, rail, leg, owner>>

\* Mutant: a hung transfer is left alone until the rail answers by itself.
TSQ_LeavesHung(w) ==
  LET r == loc[w].t.req IN
  /\ pc[w] = "tsq"
  /\ UNCHANGED rail
  /\ CASE rail[r] \in {"none", "failed"} -> Stay(w, "void")
       [] rail[r] = "success" -> Stay(w, "post")
       [] OTHER -> Leave(w)
  /\ NoFault
  /\ UNCHANGED <<stored, expired, leg, started>>

\* A hung session resolves when it is asked for.
TransactionStatusQuery(r) ==
  IF rail[r] = "hung" THEN {[rail EXCEPT ![r] = s] : s \in {"success", "failed"}} ELSE {rail}

\* The sweep's case on the answer: an unknown session is failed; reversed is
\* none of the cases and leaves the record as it is.
TSQ(w) ==
  LET r == loc[w].t.req IN
  /\ pc[w] = "tsq"
  /\ \/ /\ rail' \in TransactionStatusQuery(r)
        /\ CASE rail'[r] \in {"none", "failed"} -> Stay(w, "void")
             [] rail'[r] = "success" -> Stay(w, "post")
             [] OTHER -> Leave(w)
        /\ NoFault
     \/ UNCHANGED rail /\ Leave(w) /\ Fault
  /\ UNCHANGED <<stored, expired, leg, started>>

\* Success: post the leg the copy knows of, then put and publish.
SweepPost(w) ==
  LET t == loc[w].t
      posted == IF t.leg THEN Posted(t.req) ELSE leg
  IN
  /\ pc[w] = "post"
  /\ \/ /\ t.leg => CanPost(t.req)
        /\ leg' = posted
        /\ Goto(w, "saveRow") /\ Frame(w, [t EXCEPT !.status = "success"], "publish")
        /\ UNCHANGED owner /\ NoFault
     \/ t.leg /\ ~CanPost(t.req) /\ UNCHANGED leg /\ Leave(w) /\ NoFault
     \/ t.leg /\ leg' \in MaybePosted(t.req) /\ Leave(w) /\ Fault
  /\ UNCHANGED <<stored, expired, rail, started>>

\* Failure: void the leg the copy knows of, best effort, then reverse.
SweepVoid(w) ==
  LET t == loc[w].t
      voided == IF t.leg THEN Voided(t.req) ELSE leg
  IN
  /\ pc[w] = "void"
  /\ \/ leg' = voided /\ NoFault
     \/ leg' \in {leg, voided} /\ Fault
  /\ Stay(w, "read")
  /\ UNCHANGED <<stored, expired, rail, started>>

\* An operator reverses a transfer.
CallReversal(w, r) ==
  /\ Called(w)
  /\ rows[r] # NoTransfer
  /\ Goto(w, "read")
  /\ Frame(w, rows[r], "publish")
  /\ UNCHANGED <<stored, expired, rail, leg, owner>>

\* Reversal reads the record again: reversed and settled ones are refused.
ReversalRead(w) ==
  LET row == rows[loc[w].t.req] IN
  /\ pc[w] = "read"
  /\ \/ /\ IF row = NoTransfer \/ row.status \in {"reversed", "success"}
           THEN Leave(w)
           ELSE Goto(w, "reverse") /\ Frame(w, row, "publish") /\ UNCHANGED owner
        /\ NoFault
     \/ Leave(w) /\ Fault
  /\ UNCHANGED <<stored, expired, rail, leg, started>>

\* The rail unwinds what it knows; an unknown session is answered failed.
Unwound(r) == [rail EXCEPT ![r] = IF @ = "none" THEN @ ELSE "reversed"]

ReversalCall(w) ==
  LET t == loc[w].t IN
  /\ pc[w] = "reverse"
  /\ \/ /\ rail' = Unwound(t.req)
        /\ Frame(w, [t EXCEPT !.status = IF rail[t.req] = "none" THEN "failed" ELSE "reversed"],
                 "publish")
        /\ Goto(w, "saveRow") /\ UNCHANGED owner /\ NoFault
     \/ rail' \in {rail, Unwound(t.req)} /\ Leave(w) /\ Fault
  /\ UNCHANGED <<stored, expired, leg, started>>

-----------------------------------------------------------------------------
(* The purge and the relay, from the same ticker.                          *)

Terminal == {"success", "failed", "reversed"}

PurgeList(p) ==
  /\ pc[p] = "idle" /\ started[p]
  /\ \E q \in expired : \E t \in Copies(q) :
       t.status \in Terminal /\ idem[KeyOf[q]] # NoTransfer /\ Frame(p, t, "idle")
  /\ Goto(p, "purge")
  /\ UNCHANGED <<stored, expired, rail, leg, owner, started, faults>>

\* Delete by key, whoever owns the record by now.
PurgeDelete(p) ==
  LET k == KeyOf[loc[p].t.req] IN
  /\ pc[p] = "purge"
  /\ \/ idem' = [idem EXCEPT ![k] = NoTransfer] /\ NoFault
     \/ UNCHANGED idem /\ Fault
  /\ Leave(p)
  /\ UNCHANGED <<rows, outbox, expired, rail, leg, started>>

RelayList(p) ==
  /\ pc[p] = "idle" /\ started[p]
  /\ \E q \in Requests :
       /\ outbox[q] # "none"
       /\ Frame(p, [req |-> q, status |-> outbox[q], leg |-> FALSE], "idle")
  /\ Goto(p, "relay")
  /\ UNCHANGED <<stored, expired, rail, leg, owner, started, faults>>

\* A refused publish writes the row it read back, with one more attempt.
RelayPublish(p) ==
  LET t == loc[p].t IN
  /\ pc[p] = "relay"
  /\ \/ UNCHANGED outbox /\ Stay(p, "forget") /\ NoFault
     \/ outbox' = [outbox EXCEPT ![t.req] = t.status] /\ Leave(p) /\ Fault
  /\ UNCHANGED <<rows, idem, expired, rail, leg, started>>

RelayDelete(p) ==
  LET r == loc[p].t.req IN
  /\ pc[p] = "forget"
  /\ \/ outbox' = [outbox EXCEPT ![r] = "none"] /\ NoFault
     \/ UNCHANGED outbox /\ Fault
  /\ Leave(p)
  /\ UNCHANGED <<rows, idem, expired, rail, leg, started>>

-----------------------------------------------------------------------------
(* The environment.                                                        *)

\* The window of a transfer is seven days: no worker is on it any more.
Expire(r) ==
  /\ \/ rows[r] # NoTransfer
     \/ idem[KeyOf[r]] # NoTransfer /\ idem[KeyOf[r]].req = r
  /\ r \notin expired
  /\ Cardinality(expired) < MaxExpiries
  /\ \A w \in Workers : Resting(w)
  /\ expired' = expired \cup {r}
  /\ UNCHANGED <<stored, rail, leg, owner, started, pc, loc, faults>>

\* A process dies; its successor has no NIP service until a route is used.
Crash(p) ==
  LET here == {w \in Workers : IF w \in Replicas THEN w = p ELSE ReplicaOf[w] = p} IN
  /\ started[p]
  /\ Fault
  /\ pc' = [w \in Workers |-> IF w \in here /\ ~Resting(w) THEN Rest(w) ELSE pc[w]]
  /\ loc' = [w \in Workers |-> IF w \in here THEN NoFrame ELSE loc[w]]
  /\ owner' = [owner EXCEPT ![p] = NoSource]
  /\ started' = [started EXCEPT ![p] = FALSE]
  /\ UNCHANGED <<stored, expired, rail, leg>>

-----------------------------------------------------------------------------
PayoutStep(r) ==
  \/ CheckSource(r) \/ Lookup(r) \/ NameEnquiry(r) \/ PutInFlightKey(r)
  \/ PutInFlightRow(r) \/ PendingLeg(r) \/ Dispatch(r) \/ Settle(r)
  \/ EndKey(r) \/ EndRow(r)

SweepStep(w) ==
  \/ TSQ(w) \/ SweepPost(w) \/ SweepVoid(w) \/ ReversalRead(w) \/ ReversalCall(w)

SaveStep(w) == SaveRow(w) \/ SaveKey(w) \/ Publish(w)

Relay(p) == RelayList(p) \/ RelayPublish(p) \/ RelayDelete(p)
Purge(p) == PurgeList(p) \/ PurgeDelete(p)

Next ==
  \/ \E r \in Requests : Begin(r) \/ PayoutStep(r)
  \/ \E w \in Workers : SaveStep(w)
  \/ \E w \in Sweepers : SweepList(w) \/ SweepStep(w)
  \/ \E w \in Operators, r \in Requests : CallReversal(w, r)
  \/ \E p \in Replicas : Relay(p) \/ Purge(p) \/ Crash(p)
  \/ \E r \in Requests : Expire(r)

Spec == Init /\ [][Next]_vars

\* The goroutines of a request, of an operator's call and of a ticker.
Serve(r) == PayoutStep(r) \/ SaveStep(r)
Sweep(w) == SweepStep(w) \/ SaveStep(w)
Tick(p) == Sweep(p) \/ PurgeDelete(p) \/ RelayPublish(p) \/ RelayDelete(p)

\* What has started keeps running, and every tick sweeps and relays.  Nothing
\* obliges a client or an operator to call.
Fairness ==
  /\ \A r \in Requests : WF_vars(Serve(r))
  /\ \A w \in Operators : WF_vars(Sweep(w))
  /\ \A p \in Replicas :
       /\ WF_vars(Tick(p))
       /\ SF_vars(RelayList(p))
       /\ \A r \in Requests : SF_vars(SweepList(p) /\ loc'[p].t.req = r)

FairSpec == Spec /\ Fairness

-----------------------------------------------------------------------------
(* Properties.                                                             *)

\* The ledger leg is posted only for value the rail has moved, whoever of the
\* payout and the sweeper settles first and whatever was lost on the way.
PostedMoved == \A r \in Requests : leg[r] = "posted" => rail[r] \in {"success", "reversed"}

\* "Durable in_flight record BEFORE the rail dispatch": whatever failed, every
\* transfer the rail has seen has a session record for the sweeper to adopt.
DispatchRecorded == \A r \in Requests : rail[r] # "none" => rows[r] # NoTransfer

\* No replica dispatches a key twice before its window closes: retries, crashes
\* between the steps, sweeps of stale copies and requests of the key on other
\* replicas never make it send a second transfer.  Two replicas may send one
\* each: mu does not reach across them.
OneDispatchPerKey ==
  \A r, q \in Requests :
    /\ rail[r] # "none" /\ rail[q] # "none"
    /\ KeyOf[r] = KeyOf[q] /\ ReplicaOf[r] = ReplicaOf[q]
    /\ expired \cap {p \in Requests : KeyOf[p] = KeyOf[r]} = {}
    => r = q

InFlight(r) == rows[r] # NoTransfer /\ rows[r].status = "in_flight"

AllDown == \A p \in Replicas : ~started[p]

\* The sweepers resolve every in-flight transfer while a process is up,
\* whatever crashed or was lost before.  Two kinds stay in flight for ever: one
\* the rail has reversed, whose TSQ answer no case handles, and one whose leg a
\* sweep of a stale copy voided before the rail moved the value.
InFlightResolves ==
  \A r \in Requests :
    InFlight(r) ~> (~InFlight(r) \/ AllDown \/ rail[r] = "reversed" \/ leg[r] = "voided")
=============================================================================

# Verification of the Meridian inclusion suite

TLA+ models of the money paths of this repository and of the services around
them, model-checked with TLC on
small instances and, for the properties that matter most, proved with TLAPS for
every value of the constants. Paths below are relative to the repository root
(`src/` in `PROJECT.json`). `PROJECT.json` maps every definition to its lines,
lists the runs with a mutant for every property, the hazards, the findings and
the theorems.

## 1. Inventory

The suite is a set of services around one core ledger and one document store.

| Component | State it keeps | Operations | Modelled by |
|---|---|---|---|
| Core ledger (`internal/platform/ledger/ledger.go`) | accounts with flags, posted and pending balances, transfers by client-supplied id | CreateAccounts, Transfer, PendingTransfer, PostPendingAs, VoidPending, LookupTransfer | `Ledger` |
| Payment intents (`services/presumptive/payments.go`, `CreateIntent`) | idempotency claims, payment rows, one mutex per process | CreateIntent | `PaymentIntent` |
| Capture saga (`payments.go`) | payment status, provider reference, post id, compensations, processed webhooks | Authorise, Capture, Void, HandleWebhook, compensation | `CaptureSaga` |
| Recovery sweeper (`recovery.go`) | none of its own | SweepOnce, StartRecovery | `CaptureSaga` |
| Disputes (`disputes.go`) | dispute records, contingent holds | OpenDispute, ResolveDispute | `CaptureSaga` |
| PSSP simulators, certificates (`pssp.go`, `certificates.go`) | captures by reference; issued certificates | Authorise, Capture, Verify, Refund, Void; Issue | `CaptureSaga` (as used by the saga) |
| Document store (`internal/platform/store`) | collections of JSON documents, secondary indexes, one file or PostgreSQL | Get, List, ListWhere, Put, PutIfAbsent, Delete, Flush, row locks | `EmbeddedStore`, and through its users |
| NIP payouts (`nip*.go`) | transfers by session and by key, outbox, one mutex per process | Payout, Refund, Reversal, SweepTSQ, outbox relay, purge | `NIPPayout` |
| Agent float (`float.go`) | float accounts and movements | Open, Topup, Debit, sweep | `AgentFloat` |
| Commission engine (`services/onboarding/commission_engine.go`) | commission records, pool | Accrue, Clawback | `Commission` |
| Commission settlement (`workflows.go`) | payout markers | settlement run, purge | `CommissionSettlement` |
| Agent hierarchy (`hierarchy.go`, `agents.go`) | parent and vetting status of every agent | Register, Attach, SetVetting | `AgentHierarchy` |
| Operator lifecycle, capture ingest (`statemachine.go`, `capture.go`, `handlers.go`, `docs.go`) | operators, status audit, batches, documents | create, patch, transition, review, ingest, provision, graduate | `OperatorLifecycle` |
| Workflow runner (`workflowx`) | runs with status and attempts | Execute, Redrive | `OperatorLifecycle` (under provisioning) |
| Capture sync (`sync.go`, `crdtx`) | OR-Set and hybrid clock per replica | Add, Remove, Merge | `CaptureSync` |
| USSD gateway (`services/ussd-gateway`) | sessions, phone index, PIN records | webhook, resume, Verify, SetPIN | `USSDGateway` |
| Dedup consumer (`events`) | a table of claims in the memory of the process | Wrap, HandleKey, ReclaimStale | `EventDedup` |
| Webhook guard (`webhookguard`) | nonces with expiry | Check | `WebhookGuard` |
| Circuit breaker (`resilience`) | failure count, open-till | Allow, Success, Failure, Retry | `CircuitBreaker` |
| Bands, rule packs, gates, risk, PSSP registry, devices, KYC engine, education, PWAs, auth, HTTP, telemetry | see `PROJECT.json` | | not modelled |

How they interact. Clients and channels call `CreateIntent`, which places a
hold on the ledger and stores the payment. Authorise, Capture and Void then run
as independent HTTP handlers; the provider delivers webhooks at least once and
in any order; the sweeper ticks in a goroutine of its own. All of them share
the payment record through the store, and **none of them holds a lock**: each
reads the record, makes its calls, and writes the whole record back. The ledger
is the arbiter, because a hold can be consumed once and an id used once.

What is hard, and so what the properties are about:

* interleavings of Capture, Void, webhooks and sweeps on one record and hold;
* crashes between the provider's capture, the ledger post and the record;
* failed calls whose effect happened, failed writes, one of several
  compensating steps failing;
* replicas: the mutex of `CreateIntent` excludes requests of its own process
  only, the unique index of the store excludes the rest; the mutex of the payout
  service is also one per process, and nothing excludes the rest;
* expiry of idempotency keys while old and new requests are under way;
* whole-record write-back everywhere: operators, agents, sessions, PIN records,
  transfers and commission records are read, changed and put back, and what
  serialises that differs (a mutex per process, a lock per phone, row locks of
  two rows, nothing);
* tickers and lazily started sweepers that work on a snapshot of the store;
* at-least-once delivery, nonces and breakers whose windows meet at a boundary.

## 2. Modules

* `Ledger` - the five operations of the in-process ledger client. A transfer id
  is `<<seed, leg>>`: `DeterministicTransferID` derives it from a seed and the
  leg, and `PostPendingAs` and `VoidPending` record their own leg of the hold. A
  replay of a known id is a stutter. A refused operation changes nothing, so
  refusals are guards. Balances are numbers, and a counter below zero is where
  the unsigned ones of the code would wrap: `TypeOK` excludes it for the posted
  sides, and for the pending sides it follows from `PendingMatchesHolds`, which
  makes them sums of amounts. `DirectDebits` are the accounts that `Transfer` debits:
  `Transfer` does not count open holds against the cap, and `float.go`, which
  opens the only capped accounts, debits them through holds alone
  (`CappedUseHolds`).
* `CaptureSaga` - one payment after `CreateIntent`. Every worker (a handler or
  the sweeper) has a label `pc` and a local frame `loc` with the copy of the
  record it read. Every call to the provider, the ledger or the store is one
  action, since the others may run between two calls; what the code does
  between two calls is part of the action. A failed call (`Fault`) takes the
  error path of the code and, where the callee may have acted before the answer
  was lost, both outcomes are possible. `Crash` loses every worker and no
  stored state. `xfer` holds the four transfers of the payment by the seed of
  their deterministic id.
* `PaymentIntent` - `CreateIntent` on several replicas with one store: the claim
  loop on the idempotency key with expiry, the mutex, the duplicate scan, the
  hold, the row, the completion or the release of the claim. A request runs
  once; a client's retry is another request with the same key and body.
  Of the rest of a payment's life two steps matter here. `Retire`: its status
  leaves the ones that occupy the levy slot. `Revive`: a webhook handler that
  read the payment before that writes its whole copy back
  (`payments.go:952-954`), and the payment occupies the slot again. `UniqueIndex`
  stands for the PostgreSQL index of `pg.go`, which refuses a `Put` of either
  kind when the slot is taken; `Stale` bounds the payments that can be revived.
* `NIPPayout` - the service of `nip_recon.go` over the NIP rail: `payoutLocked`
  call by call (lookup of the key, name enquiry, the two in_flight records, the
  pending leg, the dispatch, the settlement, the two final records), Refund with
  its cap, Reversal, `SweepTSQ` on a List snapshot, the outbox, expiry and purge.
  Every replica has the mutex of its process (`owner`), its own ticker, and
  crashes by itself; `ReplicaOf` says where a request arrives. The store is
  theirs together. `rows` and `idem` are the two documents of a transfer, which
  part when a Put fails; `leg` is its ledger leg; `rail` is what the rail really
  did, known to the code only through answers that can be lost. The sweeper
  exists only once a handler has built the service (`started`).
* `AgentFloat`, `Commission`, `CommissionSettlement` - float movements,
  commissions per level of the upline and the payout of a period. Each
  instantiates `Ledger` as `Core` and does its holds, posts, voids and transfers
  there, so a refused, replayed or conflicting id is decided by the ledger's own
  model. Answers may be lost after the effect. `remote` of `CommissionSettlement`
  chooses between the in-process ledger and the HTTP client, which does not
  recognise a conflict of ids. In the code the engine and the settlement pay
  from one pool account, funded from one treasury account
  (`workflows.go:317-328`, 519, 523, 540, 583-585). The two modules have
  a ledger each: neither account has a flag, so no step of either component
  reads its balance, and what the one does cannot change what the other does.
  What they leave in the pool together is not stated; `PoolCovered` is about the
  transfers the engine makes for a reference, against the transfer that funds
  that reference.
* `AgentHierarchy` - Register, Attach and SetVetting on the agents' rows. `active`
  says which replicas and vetting officers take part in a behaviour, so that a
  property can be stated for the deployments it holds in. Access rules
  (`CanManage`, `Visible`) guard the handlers. `Subtree` collects the agents with
  a way up the links to its root, which is what the search of `subtreeOf` finds.
* `OperatorLifecycle` - one registry of operators: create, patch, transition,
  review, ingest of captures, document completion, and the provisioning workflow
  with its activities, retries, durable run and redrives, also as USSD drives it
  with a client timeout. `genuine` says whether NIMC vouches for the person.
  `asserted` remembers the operators that a caller has set to a verified status:
  the status endpoint asks for no role (`handlers.go:252-281`), and PATCH admits
  the operator itself and the agent that captured it (165-171, 190-242), so an
  assertion is no decision of a back office.
* `USSDGateway` - the webhooks, sessions and PIN record of one phone.
* `EventDedup` - the consumer of one process. The only `ProcessedStore` of the
  repository is a map in memory (`dedup.go:55-63`), so a restart begins with no
  claims (`restarts` counts them), and `Wrap` drops the handler's error
  (149-155), so a failed event comes back only when its producer sends it again
  or when Kafka hands out what was not committed (`Redelivered`).
* `WebhookGuard`, `CaptureSync`, `EmbeddedStore`, `CircuitBreaker` - one module
  per platform package.
* `Channels` (hierarchy, float, commissions, bounties, USSD) and `Services`
  (operators, dedup, guard, sync, store, breaker) each hold several components
  of which no step of one reads what a step of another writes: the variable `focus` chooses in `Init` the one that runs,
  the others are frozen, and the state graphs add up instead of multiplying.
  Their assumptions, `ChannelsAssumption` and `ServicesAssumption`, and their
  properties are what both TLC and the proofs use.
* `LedgerAudit` - the audit equations of the ledger: every balance is the sum of
  the transfers on record. `FiniteSums` - sums over finite sets and the lemmas
  about them that the audit equations and the commissions pool need.
* `SagaLedger` - the payment's transfers as records and balances of `Ledger`, and
  what it means that the saga implements the ledger.
* `MCLedger`, `MCCaptureSaga`, `MCPaymentIntent`, `MCPayout`, `MCPool`,
  `MCChannels`, `MCServices` - instances for TLC; `MCCaptureSaga` also states the
  properties that count or are about liveness, `MCPool` what is said of the
  commission pool whatever its callers do. `MCRecovery` runs the sweeper of the
  saga and the sweeper of the payouts under fairness, one per behaviour.
* `Ledger_proofs`, `CaptureSaga_proofs`, `SagaLedger_proofs`,
  `PaymentIntent_proofs`, `NIPPayout_proofs`, `Channels_proofs`,
  `Services_proofs` - the proofs.

Composition. `SagaLedger` instantiates `Ledger` with the records and
balances that the payment's transfers stand for (`Core`). `LedgerSteps` says
that every step of the saga is a stutter or one operation the core ledger
accepts: the saga's abstract hold states implement the detailed ledger, also
when two workers race for one hold. `AgentFloat`, `Commission` and
`CommissionSettlement` are composed with `Ledger` directly. `LedgerSteps` is a
refinement of the ledger's steps and not of its initial state, since a payment
starts with its hold placed.

Operators named `X_Something` before an operator `X` are mutants: `X` with a
plausible bug, used to show that a property can fail. Nothing else uses them.

## 3. Runs

Seven passing runs with forty properties, and five runs whose property the code
breaks.

| Run | Instance | What it shows |
|---|---|---|
| `ledger` | four accounts on two ledgers (one debit-capped, one credit-capped), two seeds, amounts to 2 | flags hold of posted balances; held money stays reserved; a hold is consumed once; pending balances equal the open holds, posted ones the recorded transfers; history is never rewritten |
| `saga_concurrent` | two handlers and the sweeper, four requests or webhooks, one fault | certificates, reversals and the statuses captured, settled, voided and charged_back are backed by the ledger; every ledger effect is one accepted ledger operation |
| `recovery` | *saga*: one handler and the sweeper, two provider references, four requests, two faults, fairness; *payout*: one payout with the ticker, one fault, one expiry, fairness | interrupted captures are resolved, stranded holds released, marked refunds land; without faults the provider keeps the levy exactly when the ledger has it; a transfer in flight is resolved by the sweep (`InFlightResolves`), but for the two kinds section 4 names |
| `payment_intent` | four requests on two replicas, one key, one expiry, one kind of fault, one payment a late webhook can revive, the unique index, fairness | one live payment per levy slot; replays match key and payload; no hold or claim is orphaned by an error path; one payment per unexpired key; every request ends |
| `payout` | one of three groups per behaviour: a payout and a refund of it under one key, an operator, the ticker, one expiry; a payout and its retry on one replica, the ticker; a payout and its retry on two replicas; one fault | a posted leg means the rail moved the value (`PostedMoved`); every dispatched transfer has its session record (`DispatchRecorded`); a replica dispatches an unexpired key once (`OneDispatchPerKey`) |
| `channels` | *hierarchy*: three agents, two replicas, one vetting officer; *float*: two calls for one top-up, one debit, the sweep, two faults; *commission*: two levels and an upline of one, a retry and a smaller amount under one reference, a claw-back, one fault, one re-attach or expiry; *settlement*: three runs, two at a time, two faults; *USSD*: two dials of a phone, two webhooks at a time, five requests, two strikes | forests (`OneProcessForest`, `CrossAttachSerialised`), records true of the ledger (`MovementBacked`, `RecordBacked`), no more paid for a reference than it was funded with while its callers agree on the amount (`PoolCovered`), one payout per period (`PaidOnce`), guesses bounded by strikes (`GuessesBounded`) |
| `services` | *operator*: one operator, three calls, two at a time, one fault; *dedup*: an event sent twice, two goroutines, three errors, panics, rebalances or restarts; *guard*: two nonces over six time units; *sync*: a device and the server, three ops; *store*: two documents, two faults; *breaker*: three callers, two failures open it | a TIN comes by NIMC or by an asserted status (`TINVouched`), effects are accounted for by reclaims and restarts (`EffectsAccounted`), no replay (`AcceptedOnce`), replicas converge (`Converges`), memory, index and file agree (`CopiesAgree`), an open breaker shields until a call reports a success (`OpenShields`) |
| `pool_overdrawn` (violation) | two calls for one reference with the amounts 150 and 100, an upline attached between them, no fault | the pool pays 4 of 3 funded |
| `stale_webhook` (violation) | two handlers, three requests, no fault | a late authorisation webhook downgrades a captured payment |
| `resume_after_reversal` (violation) | one handler, two requests, two faults | a compensated capture is resumed and settled |
| `expired_hold` (violation) | one handler, one request, one fault | an expired intent keeps its hold forever |
| `expired_key_race` (violation) | three requests, one expiry, no fault | two requests of one key both create a payment after its claim expired |

Why the bounds are enough. *Ledger*: two seeds allow two transfers of every
kind, the least that shows a hold competing with a hold, a post or a direct
transfer; amounts of 1 and 2 allow a partial post. *Saga*: a payment that has
been authorised, captured and disputed took three requests, so four leave one
to race with each of them; two handlers and the sweeper give every pairwise
race and the three-way race for a hold. One fault is enough to break the safety
properties in the mutants; recovery needs two (one to strand the payment, one
to fail the repair). *Intents*: the four requests are the retry on the other
replica, the same key with another payload, and another channel for the same
levy without a key. A fault kind, once allowed, may happen any number of times,
so `MaxFaultKinds = 1` still covers repeated failures of one kind. *Payouts*: payout
and refund share a key, so the second request is a replay until the window
closes and a refund after it; one fault strands a transfer at any step and the
sweep races whatever retries it. A retry of a payout that is still in flight is
the second group; on another replica, where no mutex excludes it, the third. The
groups share no request, so a behaviour runs one of them and the graphs add up;
`MCRecovery` adds up its two components in the same way. *Pool*: at 2% and 1%,
150 for the agent alone and 100 for agent and parent have one total and
different levels. *Channels*: three agents are the least for a
cycle of three and for a subtree with height under a moved agent; a top-up
called twice beside the sweep gives each writer of a movement a rival; three
settlement runs allow two to overlap and one to follow a crash; strikes are two
instead of three, which two concurrent webhooks can already exceed in the
mutant. *Services*: times of the guard keep the proportions of 5 and 15
minutes; two failures open the breaker and three callers leave one to report
late; two calls at a time on one operator give every pair of stale write-backs.
Symmetry is used only among interchangeable workers, dials and callers, and
only in runs without liveness. The type invariants of the new modules document
the shape of their state; of the passing runs, `ledger` and `saga_concurrent`
check one. Deadlock is
not checked: when the bounded requests are served and no sweep is due, the
system rests.

Fairness. `CaptureSaga`: weak fairness of every worker's started operation (a
goroutine keeps running; its ledger and provider calls end within the 10 s of
their HTTP clients) and of the sweeper,
which `StartRecovery` runs on a ticker. Calls fail only `MaxFaults` times, so
"eventually" means once the dependencies answer again. Nothing obliges a client
or the provider to call. `NIPPayout`: weak fairness of every started request
and of the steps of a sweep, strong fairness of the start of a sweep of each
transfer and of a relay, because the ticker goroutine of a replica alternates between its
duties and `SweepTSQ` walks over all transfers each time; it is only owed while
the process has started its sweeper. `MCRecovery` asks of each of the two
components the fairness above. `PaymentIntent`: weak fairness of every started
request; a request that has not started may never start.

## 4. Findings

Each is a run with a counterexample, and quotes the line it contradicts in
`PROJECT.json`.

1. `stale_webhook`: the guard against downgrades tests the record read before,
   and the Put writes that record back.
2. `resume_after_reversal`: `compensateCapture` writes its status last; the
   sweeper's ledger proof looks for the post and not for its reversal.
3. `expired_hold`: `expireIntent` skips the void when the lookup fails, and
   marks the intent expired all the same.
4. `expired_key_race`: an expired claim is deleted by key, not by the version
   that was read.
5. `pool_overdrawn`: the transfer that funds the commission pool is named by
   reference and total (`commission_engine.go:309-313`), and the records that
   would show two payloads under one reference to conflict are written level by
   level, after the money has moved. With rates of 2% and 1%, 150 for the agent
   alone and 100 for agent and parent, who was attached in between, both make a
   total of 3: the second call replays the funding of the first, and 4 are paid
   of 3 funded. `PoolCovered` is stated for references whose calls agree on the
   amount.

Disagreements met while modelling that have no run of their own. The models
follow the code, so most of these behaviours are reachable in them and the
properties are stated so that they do not contradict them:

* NIP payouts across replicas. The lookup of the key (`nip_recon.go:230`) and the
  Put that claims it (284) are one critical section under a mutex of the process.
  Two replicas that read the key before either has written it both dispatch,
  against 228 ("the client must NOT trigger a second rail dispatch") and 276-281.
  `OneDispatchPerKey` is therefore about the requests of one replica, and
  `RetryRefused` (section 5) about a retry anywhere that looks after the first
  dispatch.
* NIP payouts. A transfer the rail has reversed answers `reversed` to the status
  query, which `SweepTSQ` has no case for: it stays in_flight. A sweep of a
  stale copy can void the leg of a transfer that is dispatched afterwards. The
  refund cap counts success and in_flight only, so a stale sweep can lift it.
  The purge deletes by key and so a record a new request has put there. The
  sweeper is started lazily by the first request, though `nip_recon.go:587`
  calls it "wired from main".
* Commission settlement. The funding transfer is named by period and total: a
  second run of a period with the same total replays it and pays from a pool
  that was not funded again, one with another total funds again for agents
  that failed. An operator verified between two overlapping runs changes the
  amount under the hold's id, and the conflict branch pays under a fresh id:
  the comment says "never a double payout". Through the HTTP ledger client a
  conflict is not recognised, so a run after a crash between post and marker
  fails for that agent ever after.
* Hierarchy. `hierarchy.go` says a cycle "can no longer be stored by racing
  re-parents"; two attaches on disjoint rows of two replicas close a cycle of
  four, and `SetVetting` writes a stale parent link back.
* Payments without the unique index. A late webhook writes back a payment that
  had been voided or failed meanwhile, by the same `Put` as in `stale_webhook`
  (`payments.go:952-954`). On the store of PostgreSQL the index refuses it when
  the slot is taken; on the embedded store it can be the second live payment of
  its slot. `OneLevyPerSlot` excepts it there and only there.
* Operators: a verified status without NIMC. `transitionStatus`
  (`handlers.go:252-281`) asks for no role and `patchOperator` (190-242) only
  for `canAccessOperator` (165-171), which the operator and its capturing agent
  satisfy. Whoever is logged in can so set `nin_verified`, which provisioning
  trusts, though `services/ussd-gateway/actions.go:250` says "the USSD path must
  not bypass NIMC". `TINVouched` states that these two endpoints are the only way
  round NIMC, and that no sequence of the others, stale copies included, is one.
* Operators. `act-operator-update` is not idempotent for a provisioned operator
  (tin_provisioned to nin_verified is illegal), so a redrive or a repeated USSD
  registration fails and parks a provisioned operator as pending_review. Stale
  copies revert a status or erase a TIN. `Complete` of a document returns early
  once the document is uploaded, so an attach that failed is never retried.
* USSD. A dial without text calls `processInput` twice, and the second, empty
  input answers the resume prompt with "start over" (`handlers.go:277-283`
  against 108-110). PINs live in memory, so a restart forgets PINs and locks.
  With `PRESUMPTIVE_URL` set, `psm.pay` never has the tin_hash that
  `CreateIntent` requires, because registration ended the session that held it.
  `levyTable` (`actions.go:184`) calls itself a mirror of the packs and differs
  from the federal one in every bucket above the exemption.
* Commission engine. An accrual that was under way can write its record over a
  claw-back; a level that rounds to zero fails the whole accrual.
* Float. A record marked voided may stand for a movement that another call has
  posted; `SweepFloatMovements` has no caller.
* Dedup. The header of `dedup.go` (1-25) speaks of "a durable processed-message
  table", of a claim that "survives" a crash, and of a redelivery that retries a
  handler which failed. The only table is a map in memory (55-63), so after a
  restart a redelivered event runs its handler again; `Wrap` drops the error
  (149-155) and neither bus can be told of it (`kafka.go:48-73` polls on, and the
  group commits by itself), so a failed handler is not called again for that
  delivery. Two subscriptions of one client poll the same records, and each
  drops those of the other's topic (50-63). Outside its tests nothing uses
  `DedupConsumer`. A claim whose handler panicked makes a redelivery a
  duplicate until it is reclaimed.
* Store: `Put` changes memory and then reports the write error.
* Breaker: `resilience.go:3` says "open for 30s". A call let through before the
  breaker opened and successful afterwards closes it at once (70-75), and
  callers are let through within the cooldown. After the cooldown every
  concurrent caller is a probe, where the comment at 63 says "allow one probe".
  `OpenShields` states what is left: from the failure that opens it, nobody is
  let through for a cooldown after the last failure until some call reports a
  success.

Windows the code leaves open without promising otherwise are recorded as
hazards with a note and shape the properties' scope: `MoneyAgreement` is stated
without faults and with one handler, `NoOrphanHold` without ledger failures and
crashes, `OnePaymentPerKey` for keys that have not expired and rows whose Put
was not reported failed after it took effect.

## 5. Proofs

All theorems hold for every value of the constants that satisfies the named
assumptions, which TLC evaluates on every run.

`Ledger_proofs` (from `MaxAmountAssumption`, `FlagsAssumption`,
`CappedUseHolds`): `TypeCorrect`, `FlagsHold`, `ReservationsHold`,
`HoldsConsumedOnce`, `HistoryIsKept`. Flags are not inductive by themselves: a
post consumes a hold that was checked long before, so the argument carries
`HeldFundsReserved` along, and consuming a hold needs that its record exists
and that neither a post nor a void of it is recorded yet.

The audit equations, `PendingIsTheHolds` and `PostedIsTheRecord` (also from
`SeedsFinite`: as many transfers as one likes, but finitely many), are one
invariant for both kinds of counter, `AuditInv`: a balance is the sum of the
amounts of its open holds, or of its done transfers (`Audited`). It needs that
an account not yet opened has an empty balance and that recorded transfers are
between open accounts (`UnopenedEmpty`, `TransfersOpen`), because
`CreateAccounts` starts a balance at zero; and that holds are consumed once,
because a post has a leg of its own in the sum. Each operation is shown to
change at most two records, and the sum over every other record stays.

`FiniteSums` makes sums provable. `SumOver` is the community modules' sum, whose
recursion goes over subsets. That it is well defined, does not depend on the
order of its summands, and gains or loses just what an element adds, is proved
for every finite set by the induction the provers can do: a set of naturals that
holds zero and is closed under successor is all of Nat, from the well-foundedness
of < alone.

`CaptureSaga_proofs` (from `SagaAssumption`): `TypeCorrect`,
`CertificatesBacked`, `ReversalsBacked`, `CapturedProven`,
`TerminalStatusesTrue`. The properties speak of the stored record, but any
worker may overwrite it with an old copy, so the invariant `SagaInv` asks the
same of **every copy**: what a local frame, and the prior status kept in a
dispute, claims is true of the ledger (`Claims`), and a worker at a label past
a call knows its result (`WorkerInv`: at `issue` the levy is posted, at
`putCaptured` the certificate exists too, at `putVoided` the hold is gone). It
is preserved because the facts claimed are stable: a posted transfer stays
posted, a certificate stays issued, a hold that is not pending is never pending
again (`Stable`). `TypeInv` adds that the refund markers a retry loop still
counts exist (`RetryBound`), which keeps their count from going negative.

`SagaLedger_proofs` (also from `LevyAssumption`: the levy is positive and the fee
is a part of it): `SagaCallsLedger` and `SagaRefinesLedger`. The first half says
what a step of the saga can do to its transfers, with the state they must be in
before (`XferStep`): it goes over every action, and rests on `TypeInv` alone. The
second says that each of these changes is one accepted operation of `Ledger` on
the records and balances they stand for: post or void of the intent's hold, fee,
reversal, and the three of the dispute. The refinement is of the steps and not of
the first state, since a payment begins with the hold that `CreateIntent` placed.

`PaymentIntent_proofs` (from `RequestsAssumption`, `StoreAssumption`,
`NamesAssumption`): `TypeCorrect`, `OneLevy`, `RepliesMatch`, `NoOrphanHolds`,
`ClaimsReleased`, `OnePaymentEach`. `OneLevy` has two arguments: with the index
the store refuses the second row, whether a request or a late webhook writes
it; without it there is one process, and
`SlotInv` says that what the scan saw is still true at the Put because the
mutex (`MutexInv`) keeps every other request out. What the mutex does not keep
out is a webhook's write-back, which is why the statement excepts revived
payments there. `RepliesMatch` needs that a
completed claim names a payment of its key and body (`ClaimInv`).
`NoOrphanHolds` needs to know where a hold without row can be: before the Put
or the compensating void (`HoldInv`). `OnePaymentEach` needs `KeyInv`: until a
key expires, at most one request of it is past the claim or has a row, and the
claim it won is still there.

`NIPPayout_proofs` (from `PayoutAssumption`): `PayoutTyped`, `PostsWhatMoved`,
`DispatchesRecorded`, `KeyDispatchedOnce`, `RetryRefused`. The first three
properties hold together or not at all, so one invariant, `PayoutInv`, carries
them. `RequestOK` says what
a payout or refund knows at its label: it holds the mutex of its replica, its
copy is its own, the rail has not seen it before its dispatch, and by then its
records are there; while no window of its key has closed, it found the key unused
and no other request of the key and the replica has been to the rail.
`SweeperOK` says what the copy of
a sweep or an operator's call claims: it is posted only when the rail has moved
the value, its key is in use while its window is open, and only closed windows
are purged. `StoreOK` says that the documents under a session and a key are of
the request they name. A sweep may hold a copy older than everything else, so
its claims are of facts that stay true: value the rail has moved stays moved.
`RetryRefused` is an action property, across replicas: once a request of a key
has been dispatched and while its windows are open, the lookup of any other
request of the key finds a stored transfer and leaves. It follows because a
dispatched transfer has its record (`DispatchRecorded`) and an open key keeps it
(`StoreOK`).

`Channels_proofs` (from `ChannelsAssumption`). Each component has its own
invariant, which holds whenever the behaviour runs that component.

* `PINGuessesBounded` (USSD). `USSDInv`: the wrong guesses since the last proof
  of the PIN are on the PIN record, or one more is about to be written by
  whoever holds the lock of the phone; everybody between reading and writing the
  record holds that lock.
* `MovementsBacked` (float). The stored status is written by several calls of
  one reference and by the sweep, each from its own copy. `FloatInv` therefore
  says of every worker what its copy claims at its label (`FloatClaim`), and of
  the ledger that a hold that is open or absent has no post (`HoldsUnposted`).
* `BountyPaidOnce` (settlement). `SettlementInv` ties a bounty's hold to the run
  that will post it: in process, while the registry stands still, a hold is
  absent, or posted, or open with a run at its post (`Settled`), and every run
  counts the same operators, so a conflict on the hold's id always finds the
  payout posted and the fresh id is never used. Over HTTP the fresh id is never
  tried at all (`First`).
* `RecordsBacked` (commissions). `CommInv`: a call at `mark` has a post for its
  level, a claw-back at `save` has its reversal in the ledger, and the record it
  copied is still true (`TrueOf`). That a record names the agent that was
  credited needs that whoever calls for a reference reads the same upline while
  nobody is re-attached (`LevelDue`), because a hold whose amount differs sends
  the call to the post that another one made. This rests on one capturing agent
  per reference: an accrual is for one settled transaction and its capturing
  agent (`commission_engine.go:252-258`).
* `CrossAttachesSerialised` (hierarchy, for deployments where no vetting decision
  races an attach). `HierInv`: from its locks to its commit a replica holds the
  rows of the child and of the new parent, and from the check on the new parent
  is neither the child nor directly below it; nobody else can write that row.
  The check is about the whole subtree; the proof uses ways of no and of one
  link up (`SubtreeNear`), and needs the agents to be a finite set.
* `OneProcessKeepsForest` (hierarchy, for deployments where one process attaches
  and no vetting decision races it). The depth and height of the code follow the
  links, so the invariant `Forested` asks for a witness instead: numbers for the
  agents that grow by one along every link and stay within the cap (`Depths`).
  From such numbers there is no cycle, and `depth` computes them; the ways up the
  links that `Subtree` is made of never need more links than there are agents
  (by the pigeonhole principle), so the moved agents are what the search of
  `subtreeOf` finds. An attach that passed the check gives every moved agent its
  old number, less the child's, plus one more than the new parent's.
* `PoolNeverOverdrawn` (commissions, also from `CommissionAssumption`). `PoolInv`
  beside `CommInv`: the pool's books are what the engine's transfers say, and a
  reference whose calls agree on the settled amount has a cover (`RefCovered`):
  a number of levels, whose total for that amount is funded on record, such that
  no call pays further and no level draws more than its share of the amount. Then
  what the reference draws is a part of that total (`SumOfPart`). Calls may
  disagree about the upline, and calls of other references about anything. A
  call that begins can only end an agreement, so the invariant of an agreed
  reference never has to be recovered. Finding 5 shows that the agreement is
  needed. What the settlement pays from the same account is outside the
  statement.

`Services_proofs` (from `ServicesAssumption`), in the same way:

* `BreakerShields`. `CountInv` ties the breaker's counter, which `Allow` lowers
  when the cooldown ends, to the failures really seen since the last success:
  below the threshold they are equal; from there on the breaker is open until a
  cooldown after the last failure, or that time has passed and one failure more
  opens it. A success resets both, also while the breaker is open: the theorem
  promises nothing after it.
* `WebhookOnce`. `GuardInv`: an accepted nonce is remembered for longer than its
  timestamp is tolerated. This is where `2 * Tolerance < TTL` is needed (5 and
  15 minutes in the code).
* `HandledOnce`. `DedupInv`: one consumer at a time handles an event, and until
  it has run the handler every effect so far was paid for by a claim that is
  forgotten, reclaimed or lost with its process (`Forgotten`).
* `StoreCopiesAgree`. `StoreInv`: the index is the inverse of the documents at
  every step, and a file that lags has a pending flush, a reported failure or a
  kept error.
* `SyncConverges`. `SyncInv`: what a replica holds is a function of the set of
  ops it has seen, so order and repetition cannot matter.
* `TINsVouched`. `OperatorInv` asks of every record, and of every stale copy a
  request, a workflow activity or a redrive may still write back, that a TIN on
  it is of somebody NIMC verified or of an operator some caller asserted to be
  verified (`RecordOK`, `Claim`); neither is ever taken back, which is what makes
  the stale copies harmless.

Only model-checked. Liveness (`SagaResolves`, `HoldReleased`, `RefundLands`,
`RequestsEnd`, `InFlightResolves`) is out of the prover's reach.
`MoneyAgreement` counts references and holds without faults and for one handler,
which is a property of the instance: with two handlers it is false. The runs that
expect a violation show that what they check does not hold.

## 6. What is not modelled

Amounts of the saga (one levy, fully captured; the webhook's value check is one
verdict), the age of intents (an intent may expire whenever its status allows),
the fee arithmetic, texts, alerts, metrics and published events. `RecordBacked`
does not compare the amount of a commission record with its post. `EmbeddedStore`
leaves out look-ups of the empty string, which the index skips
(`store.go:369`) and the scan matches (439), and a fired timer that waits for the
mutex over a Flush, which could only write once more. `WebhookGuard` is one
process that does not restart: a restart forgets its nonces. Calls
`lookupIdempotency` and `PurgeExpiredIdempotency` of the payment service have
no caller outside its tests.

Components without a module, with the reason in `PROJECT.json`: bands, packs,
gates and risk (table look-ups, floating point, one remote read), the PSSP
registry and devices (single records behind signature checks), authentication
and keys (cryptography), HTTP adapters and plumbing (encoding; their failures
are the failed and lost calls of the models), the KYC engine (image analysis),
the education service (stateless) and the browser applications (seen by the
services as retried requests). Partly modelled: the PostgreSQL store (row locks
and the levy index only), the onboarding registries (no associations and
consent), the USSD actions (registration and enquiry only), the workflow runner
(the in-process one), the event bus (what a group hands out again, and the claims
of one process).

## 7. Plan

Every safety property that does not depend on the instance is proved. Left as
candidates are a module of pure operators for bands and fees, the rate limiter
of `httpx`, a refinement of the ledger's steps by `PaymentIntent` as `SagaLedger`
has it for the saga, and the windows that the hazards with a note describe, each
of which needs a change of the code before a property can be stated.

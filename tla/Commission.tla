----------------------------- MODULE Commission -----------------------------
(***************************************************************************)
(* CommissionEngine (services/onboarding/commission_engine.go): for a      *)
(* settled transaction the capturing agent and its upline earn basis       *)
(* points of the amount, each paid from a pool as hold, post, mark on the  *)
(* core ledger (Ledger); a clawback takes posted commissions back.  One    *)
(* tenant.  Nothing is locked: every call to the ledger and the store is a *)
(* step, and what makes a replay safe is the deterministic transfer ids    *)
(* and the record per reference and level.                                 *)
(*                                                                         *)
(* The pool and what funds it are not the engine's own: the settlement     *)
(* (CommissionSettlement) opens, funds and debits the same two accounts.   *)
(* None of them carries a flag, so no step of either depends on their      *)
(* balances, and the ids of the two never meet.  The settlement is left    *)
(* out, and what is said below is said of this engine's transfers, never   *)
(* of the balance of the pool, which other payouts change as well.         *)
(***************************************************************************)
EXTENDS Integers, FiniteSetsExt, Sequences

CONSTANTS
  Agents,      \* an agent also names its commission payable account
  Root,        \* no parent
  Upline,      \* [Agents -> Agents \cup {Root}]: the links there are already
  Pool, Offset,\* nsCommissionsPool serials 1 and 2
  Refs,        \* settled transactions
  MaxLevel,    \* levels of the pack
  RateOf,      \* [1..MaxLevel -> basis points]
  Calls,       \* calls of Accrue
  AgentOf, RefOf, BaseOf,   \* their arguments
  Clawer,      \* a caller of Clawback
  MaxAmount,
  MaxFaults,   \* bound: failed and lost calls, failed Puts, crashes
  MaxMoves     \* bound: agents re-attached, records that expire

VARIABLES
  parent,      \* the upline link of every agent (AgentHierarchy)
  accounts, balances, transfers,
  records,     \* commission_records by reference and level
  expired,     \* records past commissionRecordTTL
  pc, loc,     \* where a worker is; its payload
  moves, faults

ledger == <<accounts, balances, transfers>>
vars == <<parent, accounts, balances, transfers, records, expired, pc, loc, moves, faults>>

Workers == Calls \cup {Clawer}
Levels == 1..MaxLevel
Accounts == Agents \cup {Pool, Offset}
Slots == Refs \X Levels

\* Seeds of the deterministic ids: comm-accrue-fund, comm-hold and comm-post,
\* comm-clawback.  No commission account carries a flag.
Seeds == ({"fund"} \X Refs \X (0..MaxAmount)) \cup ({"level", "claw"} \X Refs \X Levels)
Core == INSTANCE Ledger
  WITH DebitCapped <- {}, CreditCapped <- {}, DirectDebits <- Accounts,
       LedgerOf <- [a \in Accounts |-> 700]

-----------------------------------------------------------------------------
ComputeKobo(base, bps) == (base * bps) \div 10000
AmountAt(base, n) == ComputeKobo(base, RateOf[n])

\* The agent and its upline, level 1 first, as far as the pack has rates.
Earners(a) ==
  LET up[n \in Levels] ==
        IF n = 1 THEN a ELSE IF up[n - 1] = Root THEN Root ELSE parent[up[n - 1]]
      depth == Cardinality({n \in Levels : up[n] # Root})
  IN [n \in 1..depth |-> up[n]]

Total(base, earners) == MapThenSumSet(LAMBDA n : AmountAt(base, n), DOMAIN earners)

NoRecord == [none |-> TRUE]
\* What payloadHash binds: the agent and the base (the rates are the pack's).
Records == [agent : Agents, base : Nat, status : {"posted", "clawed_back"}]

TypeOK ==
  /\ parent \in [Agents -> Agents \cup {Root}]
  /\ accounts \subseteq Accounts
  /\ records \in [Slots -> Records \cup {NoRecord}]
  /\ expired \subseteq Slots
  /\ pc \in [Workers -> {"start", "fund", "lookup", "hold", "post", "void", "delete",
                         "mark", "list", "reverse", "save", "done"}]
  /\ \A w \in Workers : loc[w].slot \in Slots /\ loc[w].rec \in Records \cup {NoRecord}
  /\ moves \in 0..MaxMoves
  /\ faults \in 0..MaxFaults

NoFrame == [earners |-> <<>>, slot |-> CHOOSE s \in Slots : TRUE, rec |-> NoRecord]

Init ==
  /\ parent = Upline
  /\ accounts = {}
  /\ balances = [a \in Accounts |-> Core!ZeroBalance]
  /\ transfers = [id \in Core!TransferIds |-> Core!NoTransfer]
  /\ records = [s \in Slots |-> NoRecord]
  /\ expired = {}
  /\ pc = [w \in Workers |-> IF w = Clawer THEN "list" ELSE "start"]
  /\ loc = [w \in Workers |-> NoFrame]
  /\ moves = 0 /\ faults = 0

Fault == faults < MaxFaults /\ faults' = faults + 1
NoFault == UNCHANGED faults
Goto(w, to) == pc' = [pc EXCEPT ![w] = to]
Rest(w) == IF w = Clawer THEN "list" ELSE "done"

Level(w) == loc[w].slot[2]
Earner(w) == loc[w].earners[Level(w)]
Amount(w) == AmountAt(BaseOf[w], Level(w))
Payload(w) == [agent |-> Earner(w), base |-> BaseOf[w], status |-> "posted"]
Seed(w) == <<"level", RefOf[w], Level(w)>>

\* The next level, or the end of the call.
Advance(w) ==
  IF Level(w) < Len(loc[w].earners)
  THEN Goto(w, "lookup") /\ loc' = [loc EXCEPT ![w].slot[2] = @ + 1]
  ELSE Goto(w, "done") /\ UNCHANGED loc

\* Transfer under a deterministic id: fresh, or a replay of the same transfer.
Replays(seed, d, c, amt) ==
  transfers[<<seed, "direct">>] = Core!Record(d, c, amt, FALSE) /\ UNCHANGED ledger

-----------------------------------------------------------------------------
(* Accrue.                                                                 *)

\* The earners are read once; a total of zero ends the call.
BeginAccrue(w) ==
  LET earners == Earners(AgentOf[w]) IN
  /\ pc[w] = "start"
  /\ loc' = [loc EXCEPT ![w] = [earners |-> earners, slot |-> <<RefOf[w], 1>>, rec |-> NoRecord]]
  /\ Goto(w, IF Total(BaseOf[w], earners) = 0 THEN "done" ELSE "fund")
  /\ UNCHANGED <<parent, ledger, records, expired, moves, faults>>

\* The accounts an accrual needs; one that exists is no error.
EnsureAccounts(w) ==
  /\ accounts' = accounts \cup {Pool, Offset} \cup {loc[w].earners[n] : n \in DOMAIN loc[w].earners}
  /\ UNCHANGED <<balances, transfers>>

Opened(w) == {Pool, Offset} \cup {loc[w].earners[n] : n \in DOMAIN loc[w].earners} \subseteq accounts

Open(w) ==
  /\ pc[w] = "fund" /\ ~Opened(w)
  /\ EnsureAccounts(w)
  /\ UNCHANGED <<parent, records, expired, pc, loc, moves, faults>>

\* Mutant: the pool is funded for the first level only.
Fund_FirstLevel(w) ==
  LET total == AmountAt(BaseOf[w], 1)
      seed == <<"fund", RefOf[w], total>>
  IN
  /\ pc[w] = "fund" /\ Opened(w)
  /\ Core!Transfer(seed, Offset, Pool, total) \/ Replays(seed, Offset, Pool, total)
  /\ Goto(w, "lookup") /\ NoFault
  /\ UNCHANGED <<parent, records, expired, loc, moves>>

\* The pool is funded before any hold, under an id that names the total.
Fund(w) ==
  LET total == Total(BaseOf[w], loc[w].earners)
      seed == <<"fund", RefOf[w], total>>
      New == Core!Transfer(seed, Offset, Pool, total)
  IN
  /\ pc[w] = "fund" /\ Opened(w)
  /\ \/ (New \/ Replays(seed, Offset, Pool, total)) /\ Goto(w, "lookup") /\ NoFault
     \/ (New \/ UNCHANGED ledger) /\ Goto(w, "done") /\ Fault
  /\ UNCHANGED <<parent, records, expired, loc, moves>>

\* accrueOne, liveRecord: another payload is a conflict; a clawed back record
\* is terminal; a posted one is the answer when LookupTransfer finds its post,
\* and otherwise the saga runs again.
Lookup(w) ==
  LET rec == records[loc[w].slot]
      live == rec # NoRecord /\ loc[w].slot \notin expired
      same == rec = Payload(w) \/ rec = [Payload(w) EXCEPT !.status = "clawed_back"]
  IN
  /\ pc[w] = "lookup"
  /\ \/ ~live /\ Goto(w, "hold") /\ UNCHANGED loc /\ NoFault
     \/ live /\ ~same /\ Goto(w, "done") /\ UNCHANGED loc /\ NoFault
     \/ live /\ same /\ Advance(w) /\ NoFault
     \/ live /\ rec = Payload(w) /\ Goto(w, "hold") /\ UNCHANGED loc /\ Fault
     \/ Goto(w, "done") /\ UNCHANGED loc /\ Fault
  /\ UNCHANGED <<parent, ledger, records, expired, moves>>

\* PendingTransfer.  A hold id already used is followed to its post: posted,
\* the call goes on to the mark; otherwise it fails.
Hold(w) ==
  LET New == Core!PendingTransfer(Seed(w), Pool, Earner(w), Amount(w))
      held == transfers[<<Seed(w), "hold">>]
      mine == Core!Record(Pool, Earner(w), Amount(w), TRUE)
      To(l) == UNCHANGED ledger /\ Goto(w, l) /\ NoFault
  IN
  /\ pc[w] = "hold"
  /\ \/ New /\ Goto(w, "post") /\ NoFault
     \/ Amount(w) = 0 /\ To("done")
     \/ Amount(w) # 0 /\ held = mine /\ To("post")
     \/ /\ Amount(w) # 0 /\ held \notin {mine, Core!NoTransfer}
        /\ To(IF Core!Exists(<<Seed(w), "post">>) THEN "mark" ELSE "done")
     \/ (New \/ UNCHANGED ledger) /\ Goto(w, "done") /\ Fault
  /\ UNCHANGED <<parent, records, expired, loc, moves>>

Post(w) ==
  LET New == Core!PostPendingAs(Seed(w), Amount(w))
      posted == transfers[<<Seed(w), "post">>] = Core!Record(Pool, Earner(w), Amount(w), FALSE)
      consumed == ~Core!IsPending(<<Seed(w), "hold">>)
  IN
  /\ pc[w] = "post"
  /\ \/ New /\ Goto(w, "mark") /\ NoFault
     \/ consumed /\ UNCHANGED ledger /\ Goto(w, IF posted THEN "mark" ELSE "void") /\ NoFault
     \/ (New \/ UNCHANGED ledger) /\ Goto(w, "void") /\ Fault
  /\ UNCHANGED <<parent, records, expired, loc, moves>>

\* The compensation of a failed post, both calls best effort.
VoidHold(w) ==
  /\ pc[w] = "void"
  /\ \/ Core!VoidPending(Seed(w)) /\ NoFault
     \/ ~Core!IsPending(<<Seed(w), "hold">>) /\ UNCHANGED ledger /\ NoFault
     \/ UNCHANGED ledger /\ Fault
  /\ Goto(w, "delete")
  /\ UNCHANGED <<parent, records, expired, loc, moves>>

DeleteRecord(w) ==
  /\ pc[w] = "delete"
  /\ \/ records' = [records EXCEPT ![loc[w].slot] = NoRecord] /\ NoFault
     \/ UNCHANGED records /\ Fault
  /\ Goto(w, "done")
  /\ UNCHANGED <<parent, ledger, expired, loc, moves>>

\* The durable record, after the post.
Mark(w) ==
  /\ pc[w] = "mark"
  /\ \/ /\ records' = [records EXCEPT ![loc[w].slot] = Payload(w)]
        /\ expired' = expired \ {loc[w].slot}
        /\ Advance(w) /\ NoFault
     \/ UNCHANGED <<records, expired, loc>> /\ Goto(w, "done") /\ Fault
  /\ UNCHANGED <<parent, ledger, moves>>

-----------------------------------------------------------------------------
(* Clawback, one posted record of its List at a time.                      *)

ListPosted(s) ==
  /\ pc[Clawer] = "list"
  /\ records[s] # NoRecord /\ records[s].status = "posted"
  /\ loc' = [loc EXCEPT ![Clawer] = [NoFrame EXCEPT !.slot = s, !.rec = records[s]]]
  /\ Goto(Clawer, "reverse")
  /\ UNCHANGED <<parent, ledger, records, expired, moves, faults>>

\* Mutant: a failed reversal is taken for a replay.
Reverse_ErrorIgnored ==
  /\ pc[Clawer] = "reverse"
  /\ UNCHANGED ledger /\ Fault
  /\ Goto(Clawer, "save")
  /\ UNCHANGED <<parent, records, expired, loc, moves>>

\* The reversal moves the amount of the record from the record's agent to the
\* pool; an id that is taken by another transfer counts as done.
Reverse ==
  LET s == loc[Clawer].slot
      rec == loc[Clawer].rec
      seed == <<"claw", s[1], s[2]>>
      New == Core!Transfer(seed, rec.agent, Pool, AmountAt(rec.base, s[2]))
  IN
  /\ pc[Clawer] = "reverse"
  /\ \/ New /\ Goto(Clawer, "save") /\ NoFault
     \/ Core!Exists(<<seed, "direct">>) /\ UNCHANGED ledger /\ Goto(Clawer, "save") /\ NoFault
     \/ (New \/ UNCHANGED ledger) /\ Goto(Clawer, "list") /\ Fault
  /\ UNCHANGED <<parent, records, expired, loc, moves>>

SaveClawedBack ==
  LET s == loc[Clawer].slot IN
  /\ pc[Clawer] = "save"
  /\ \/ records' = [records EXCEPT ![s] = [loc[Clawer].rec EXCEPT !.status = "clawed_back"]] /\ NoFault
     \/ UNCHANGED records /\ Fault
  /\ Goto(Clawer, "list")
  /\ UNCHANGED <<parent, ledger, expired, loc, moves>>

-----------------------------------------------------------------------------
(* The environment.                                                        *)

Move == moves < MaxMoves /\ moves' = moves + 1

\* An Attach of the hierarchy, as one step.
Reattach(a, p) ==
  /\ Move
  /\ p # a /\ parent[a] # p /\ (p # Root => parent[p] # a)
  /\ parent' = [parent EXCEPT ![a] = p]
  /\ UNCHANGED <<ledger, records, expired, pc, loc, faults>>

\* Five weeks pass, with nobody at work.
Expire(s) ==
  /\ Move
  /\ records[s] # NoRecord /\ s \notin expired
  /\ \A w \in Workers : pc[w] \in {"start", "done", "list"}
  /\ expired' = expired \cup {s}
  /\ UNCHANGED <<parent, ledger, records, pc, loc, faults>>

Crash ==
  /\ Fault
  /\ pc' = [w \in Workers |-> IF pc[w] = "start" THEN "start" ELSE Rest(w)]
  /\ UNCHANGED <<parent, ledger, records, expired, loc, moves>>

Next ==
  \/ \E w \in Calls :
       \/ BeginAccrue(w) \/ Open(w) \/ Fund(w) \/ Lookup(w) \/ Hold(w)
       \/ Post(w) \/ VoidHold(w) \/ DeleteRecord(w) \/ Mark(w)
  \/ \E s \in Slots : ListPosted(s) \/ Expire(s)
  \/ Reverse \/ SaveClawedBack
  \/ \E a \in Agents, p \in Agents \cup {Root} : Reattach(a, p)
  \/ Crash

Spec == Init /\ [][Next]_vars

-----------------------------------------------------------------------------
(* Properties.                                                             *)

Paid(s) == transfers[<<<<"level", s[1], s[2]>>, "post">>]
Taken(s) == transfers[<<<<"claw", s[1], s[2]>>, "direct">>]

\* "The durable record is written ONLY after a successful post", and a record
\* is clawed back only once the reversal is in the ledger: no retry, race with
\* another accrual or a clawback, expiry or crash leaves a record of money that
\* did not move.  As long as no agent is re-attached and no record expires, the
\* record also names the account that was paid.
RecordBacked ==
  \A s \in Slots :
    records[s] # NoRecord =>
      /\ Paid(s) # Core!NoTransfer
      /\ records[s].status = "clawed_back" => Taken(s) # Core!NoTransfer
      /\ moves = 0 => Paid(s).credit = records[s].agent

\* What a level takes from the pool: its open hold, or its post.
Drawn(s) ==
  LET held == transfers[<<<<"level", s[1], s[2]>>, "hold">>] IN
  IF held # Core!NoTransfer /\ held.pending THEN held.amount
  ELSE IF Paid(s) # Core!NoTransfer THEN Paid(s).amount ELSE 0
DrawnFor(r) == MapThenSumSet(LAMBDA n : Drawn(<<r, n>>), Levels)

\* What the pool was funded with for a reference.
PoolFunding(r, t) == transfers[<<<<"fund", r, t>>, "direct">>]
FundedFor(r) ==
  MapThenSumSet(LAMBDA t : IF PoolFunding(r, t) = Core!NoTransfer THEN 0 ELSE PoolFunding(r, t).amount,
                0..MaxAmount)
Covered(r) == DrawnFor(r) <= FundedFor(r)

\* The calls made so far for a reference agree on the settled amount.
Agreed(r) ==
  \A v, w \in Calls :
    RefOf[v] = r /\ RefOf[w] = r /\ pc[v] # "start" /\ pc[w] # "start" => BaseOf[v] = BaseOf[w]

\* "Fund the pool for this reference before any holds", "a replay never
\* double-funds": no order of replays, failures half way, re-attached agents
\* and clawbacks holds and pays more for a reference than was moved into the
\* pool for it, as long as its callers agree on the settled amount.  When they
\* do not, it does (MCPool).
PoolCovered == \A r \in Refs : Agreed(r) => Covered(r)
=============================================================================

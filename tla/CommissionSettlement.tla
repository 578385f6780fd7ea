------------------------ MODULE CommissionSettlement ------------------------
(***************************************************************************)
(* wf-onb-commission-settlement (services/onboarding/workflows.go): the    *)
(* bounties of one period are paid from a pool on the core ledger          *)
(* (Ledger).  Per agent the payout is hold, post, marker.  No lock is      *)
(* taken and any caller may trigger the workflow again, so runs overlap,   *)
(* crash half way and follow each other; they meet in deterministic ids    *)
(* and in one marker per agent.                                            *)
(*                                                                         *)
(* The first hold of an agent's payout has a fixed id, later attempts the  *)
(* ids r1, r2 ...; all of them are posted under the one id comm-post.  The *)
(* pool and the treasury offset are CommissionEngine's too (Commission):   *)
(* no flag is set on them, so no step here reads what that one does there. *)
(* Here an attempt is a seed, and comm-post exists when one of the seeds   *)
(* has its post, so that a second post would be seen.                      *)
(***************************************************************************)
EXTENDS Integers, FiniteSets, FiniteSetsExt

CONSTANTS
  Agents,      \* an agent also names its commission account
  Pool,        \* the commissions pool
  Treasury,    \* the treasury offset
  Workers,     \* callers of the workflow
  MaxCount,    \* bound: verified operators of one agent
  MaxTries,    \* attempt ids r1 .. (100 in the code)
  MaxRuns,     \* bound: runs
  MaxFaults    \* bound: failed and lost calls, failed Puts, crashes

VARIABLES
  accounts, balances, transfers,  \* the ledger
  remote,      \* is the ledger reached over HTTP?
  counts,      \* [Agents -> Nat]: verified operators in the registry
  markers,     \* commission_payouts: the agents marked, with the amount
  expired,     \* markers whose dedup window has closed
  pc, loc,     \* where every run is; its counts, agents to go, agent and attempt
  moved,       \* has the registry changed under a run?
  runs, faults

ledger == <<accounts, balances, transfers>>
vars == <<ledger, remote, counts, markers, expired, pc, loc, moved, runs, faults>>

MaxTotal == MaxCount * Cardinality(Agents)
Funds == {<<"fund", n>> : n \in 0..MaxTotal}
Attempts == Agents \X (0..MaxTries)

\* One kobo stands for commissionPerVerifiedKobo.
Core == INSTANCE Ledger
  WITH Accounts <- Agents \cup {Pool, Treasury}, Seeds <- Attempts \cup Funds,
       MaxAmount <- MaxTotal, DebitCapped <- {}, CreditCapped <- {},
       DirectDebits <- {Treasury}, LedgerOf <- [a \in Agents \cup {Pool, Treasury} |-> 700]

-----------------------------------------------------------------------------
Labels == {"idle", "fund", "pick", "hold", "next", "post", "void", "unmark", "mark"}
Unmarked == 0

Frames == [n : [Agents -> 0..MaxCount], todo : SUBSET Agents, agent : Agents, try : 0..MaxTries]

TypeOK ==
  /\ Core!TypeOK
  /\ remote \in BOOLEAN
  /\ counts \in [Agents -> 0..MaxCount]
  /\ markers \in [Agents -> 0..MaxCount]
  /\ expired \subseteq Agents
  /\ pc \in [Workers -> Labels]
  /\ loc \in [Workers -> Frames]
  /\ moved \in BOOLEAN
  /\ runs \in 0..MaxRuns
  /\ faults \in 0..MaxFaults

NoFrame ==
  [n |-> [a \in Agents |-> 0], todo |-> {}, agent |-> CHOOSE a \in Agents : TRUE, try |-> 0]

Init ==
  /\ accounts = {}
  /\ balances = [a \in Agents \cup {Pool, Treasury} |-> Core!ZeroBalance]
  /\ transfers = [id \in Core!TransferIds |-> Core!NoTransfer]
  /\ remote \in BOOLEAN
  /\ counts \in [Agents -> 1..MaxCount]
  /\ markers = [a \in Agents |-> Unmarked]
  /\ expired = {}
  /\ pc = [w \in Workers |-> "idle"]
  /\ loc = [w \in Workers |-> NoFrame]
  /\ moved = FALSE
  /\ runs = 0
  /\ faults = 0

Fault == faults < MaxFaults /\ faults' = faults + 1
\* The in-process DevClient answers every call, and is lost in a crash.
Outage == remote /\ Fault
NoFault == UNCHANGED faults
Goto(w, to) == pc' = [pc EXCEPT ![w] = to]
Registry == <<remote, counts, moved, runs>>

\* payoutMarker: an expired marker counts as none.
Marked(a) == markers[a] # Unmarked /\ a \notin expired

Seed(w) == <<loc[w].agent, loc[w].try>>
Amount(w) == loc[w].n[loc[w].agent]

\* LookupTransfer(postID), and the record it answers with.
PostsOf(a) == {i \in 0..MaxTries : Core!Exists(<<<<a, i>>, "post">>)}

-----------------------------------------------------------------------------
\* The registry is listed, and the accounts are there or created.
Start(w) ==
  /\ pc[w] = "idle" /\ runs < MaxRuns
  /\ runs' = runs + 1
  /\ loc' = [loc EXCEPT ![w] = [NoFrame EXCEPT !.n = counts, !.todo = Agents]]
  /\ \/ Core!CreateAccounts((Agents \cup {Pool, Treasury}) \ accounts) /\ Goto(w, "fund") /\ NoFault
     \/ UNCHANGED ledger /\ Goto(w, "idle") /\ Outage
  /\ UNCHANGED <<remote, counts, moved, markers, expired>>

\* The treasury top-up for the unmarked payouts, under an id made of the
\* period and the total: a total seen before is a replay.
Fund(w) ==
  LET total == MapThenSumSet(LAMBDA a : loc[w].n[a], {b \in Agents : ~Marked(b)})
      paid == <<"fund", total>>
  IN
  /\ pc[w] = "fund"
  /\ \/ total > 0 /\ Core!Transfer(paid, Treasury, Pool, total) /\ Goto(w, "pick") /\ NoFault
     \/ Core!Exists(<<paid, "direct">>) /\ UNCHANGED ledger /\ Goto(w, "pick") /\ NoFault
     \/ total = 0 /\ UNCHANGED ledger /\ Goto(w, "pick") /\ NoFault
     \/ /\ total > 0 /\ Goto(w, "idle") /\ Outage
        /\ Core!Transfer(paid, Treasury, Pool, total) \/ UNCHANGED ledger
  /\ UNCHANGED <<Registry, markers, expired, loc>>

\* The next agent.  A live marker ends it, with its amount or as a conflict.
Pick(w) ==
  /\ pc[w] = "pick"
  /\ \/ loc[w].todo = {} /\ Goto(w, "idle") /\ UNCHANGED loc
     \/ \E a \in loc[w].todo :
          /\ loc' = [loc EXCEPT ![w].todo = @ \ {a}, ![w].agent = a, ![w].try = 0]
          /\ Goto(w, IF Marked(a) THEN "pick" ELSE "hold")
  /\ UNCHANGED <<ledger, Registry, markers, expired, faults>>

Held(w) == transfers[<<Seed(w), "hold">>]
HoldRecord(w, pending) == Core!Record(Pool, loc[w].agent, Amount(w), pending)

\* PendingTransfer under the attempt's id: new, or the same hold again.
HoldGranted(w) ==
  \/ Core!PendingTransfer(Seed(w), Pool, loc[w].agent, Amount(w))
  \/ Held(w) = HoldRecord(w, TRUE) /\ UNCHANGED ledger
HoldConflict(w) == Core!Exists(<<Seed(w), "hold">>) /\ Held(w) # HoldRecord(w, TRUE)

\* Mutant: a conflict starts a fresh attempt without looking for the post.
AfterConflict_NoLookup(w) == "next"

\* LookupTransfer(postID) after a conflict on the first id: a payout that was
\* posted only lacks its marker.
AfterConflict(w) == IF PostsOf(loc[w].agent) # {} THEN "mark" ELSE "next"

\* The first hold.  The HTTP client reports a conflict as any other error.
Hold(w) ==
  /\ pc[w] = "hold"
  /\ \/ HoldGranted(w) /\ Goto(w, "post") /\ NoFault
     \/ /\ HoldConflict(w) /\ UNCHANGED ledger /\ NoFault
        /\ Goto(w, IF remote THEN "idle" ELSE AfterConflict(w))
     \/ (HoldGranted(w) \/ UNCHANGED ledger) /\ Goto(w, "idle") /\ Outage
  /\ loc' = [loc EXCEPT ![w].try = IF pc'[w] = "next" THEN 1 ELSE 0]
  /\ UNCHANGED <<Registry, markers, expired>>

\* nextPayoutPendingID: the first attempt id without a conflict.
NextHold(w) ==
  /\ pc[w] = "next"
  /\ \/ HoldGranted(w) /\ Goto(w, "post") /\ UNCHANGED loc
     \/ /\ HoldConflict(w) /\ UNCHANGED ledger
        /\ IF loc[w].try = MaxTries
           THEN Goto(w, "idle") /\ UNCHANGED loc
           ELSE UNCHANGED pc /\ loc' = [loc EXCEPT ![w].try = @ + 1]
  /\ UNCHANGED <<Registry, markers, expired, faults>>

\* PostPendingAs: the hold is posted, or it was consumed and comm-post matches.
PostDone(w) ==
  \/ Core!PostPendingAs(Seed(w), Amount(w))
  \/ /\ Core!Exists(<<Seed(w), "hold">>) /\ ~Core!IsPending(<<Seed(w), "hold">>)
     /\ \E i \in PostsOf(loc[w].agent) :
          transfers[<<<<loc[w].agent, i>>, "post">>] = HoldRecord(w, FALSE)
     /\ UNCHANGED ledger

PostRefused(w) ==
  /\ ~Core!IsPending(<<Seed(w), "hold">>)
  /\ \A i \in PostsOf(loc[w].agent) :
       transfers[<<<<loc[w].agent, i>>, "post">>] # HoldRecord(w, FALSE)

Post(w) ==
  /\ pc[w] = "post"
  /\ \/ PostDone(w) /\ Goto(w, "mark") /\ NoFault
     \/ PostRefused(w) /\ UNCHANGED ledger /\ Goto(w, "void") /\ NoFault
     \/ (PostDone(w) \/ UNCHANGED ledger) /\ Goto(w, "void") /\ Outage
  /\ UNCHANGED <<Registry, markers, expired, loc>>

\* The compensation, best effort.
Void(w) ==
  /\ pc[w] = "void"
  /\ \/ Core!VoidPending(Seed(w)) /\ NoFault
     \/ ~Core!IsPending(<<Seed(w), "hold">>) /\ UNCHANGED ledger /\ NoFault
     \/ UNCHANGED ledger /\ Outage
  /\ Goto(w, "unmark")
  /\ UNCHANGED <<Registry, markers, expired, loc>>

\* "Never leave a paid marker for an unposted payout"; the run has failed.
Unmark(w) ==
  /\ pc[w] = "unmark"
  /\ \/ markers' = [markers EXCEPT ![loc[w].agent] = Unmarked] /\ NoFault
     \/ UNCHANGED markers /\ Fault
  /\ Goto(w, "idle")
  /\ UNCHANGED <<ledger, Registry, expired, loc>>

\* markPayout, with a fresh window.
Mark(w) ==
  /\ pc[w] = "mark"
  /\ \/ /\ markers' = [markers EXCEPT ![loc[w].agent] = Amount(w)]
        /\ expired' = expired \ {loc[w].agent}
        /\ Goto(w, "pick") /\ NoFault
     \/ UNCHANGED <<markers, expired>> /\ Goto(w, "idle") /\ Fault
  /\ UNCHANGED <<ledger, Registry, loc>>

-----------------------------------------------------------------------------
\* An operator is verified, possibly while a run holds the old counts.
Verified(a) ==
  /\ counts[a] < MaxCount
  /\ counts' = [counts EXCEPT ![a] = @ + 1]
  /\ moved' = (moved \/ \E w \in Workers : pc[w] # "idle")
  /\ UNCHANGED <<ledger, remote, markers, expired, pc, loc, runs, faults>>

Expire(a) ==
  /\ Marked(a)
  /\ expired' = expired \cup {a}
  /\ UNCHANGED <<ledger, Registry, markers, pc, loc, faults>>

\* PurgeExpiredCommissionPayouts: every marker has its TransferID.
Purge(a) ==
  /\ a \in expired /\ markers[a] # Unmarked
  /\ markers' = [markers EXCEPT ![a] = Unmarked]
  /\ UNCHANGED <<ledger, Registry, expired, pc, loc, faults>>

Crash ==
  /\ Outage
  /\ pc' = [w \in Workers |-> "idle"]
  /\ UNCHANGED <<ledger, Registry, markers, expired, loc>>

Next ==
  \/ \E w \in Workers :
       \/ Start(w) \/ Fund(w) \/ Pick(w) \/ Hold(w) \/ NextHold(w)
       \/ Post(w) \/ Void(w) \/ Unmark(w) \/ Mark(w)
  \/ \E a \in Agents : Verified(a) \/ Expire(a) \/ Purge(a)
  \/ Crash

Spec == Init /\ [][Next]_vars

-----------------------------------------------------------------------------
(* Properties.                                                             *)

\* "A re-run for the same period is a no-op, never a double payout": a marker
\* is only there for a payout that was posted, and, as long as no operator is
\* verified under a run, an agent is paid once, however runs overlap, fail
\* and follow each other and whatever happens to the marker in between.
PaidOnce ==
  \A a \in Agents :
    /\ markers[a] # Unmarked => PostsOf(a) # {}
    /\ ~moved => \A i, j \in PostsOf(a) : i = j
=============================================================================

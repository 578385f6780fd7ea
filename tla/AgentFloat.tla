----------------------------- MODULE AgentFloat -----------------------------
(***************************************************************************)
(* FloatService (services/presumptive/float.go): agent float topped up     *)
(* from a treasury account and drawn down again, on the core ledger        *)
(* (Ledger).  A movement is a saga: hold, durable record, post, mark.  No  *)
(* lock is taken: calls with the same reference, and the recovery sweep,   *)
(* meet in the deterministic transfer ids and in one record per kind and   *)
(* reference, so every call to the ledger and the store is a step.         *)
(***************************************************************************)
EXTENDS Integers

CONSTANTS
  Agents,      \* an agent also names its float account
  Treasury,    \* nsFloatTreasury, funded outside this code
  Funding,     \* what the treasury starts with
  Moves,       \* pairs of a kind and a reference: movementID
  KindOf,      \* [Moves -> {"topup", "debit"}]
  Calls,       \* calls of Topup and Debit
  MoveOf,      \* [Calls -> Moves]
  AgentOf,     \* [Calls -> Agents]
  AmountOf,    \* [Calls -> Nat]
  Sweeper,     \* a caller of SweepFloatMovements
  MaxAmount,
  MaxFaults    \* bound: failed and lost calls, failed Puts, crashes

VARIABLES
  accounts, balances, transfers,  \* the ledger
  movements,   \* float_movements
  pc, loc,     \* where every worker is, and its copy of a movement
  faults

ledger == <<accounts, balances, transfers>>
vars == <<accounts, balances, transfers, movements, pc, loc, faults>>

Workers == Calls \cup {Sweeper}
Accounts == Agents \cup {Treasury}

\* Both accounts of a movement carry FlagDebitsMustNotExceedCredits.
Core == INSTANCE Ledger
  WITH Seeds <- Moves, DebitCapped <- Accounts, CreditCapped <- {},
       DirectDebits <- {}, LedgerOf <- [a \in Accounts |-> 100]

-----------------------------------------------------------------------------
NoMovement == [none |-> TRUE]
Movements ==
  [move : Moves, agent : Agents, amount : 1..MaxAmount, status : {"pending", "posted", "voided"}]

Labels == {"start", "open", "hold", "put", "release", "post", "void", "end", "done"}

TypeOK ==
  /\ Core!TypeOK
  /\ movements \in [Moves -> Movements \cup {NoMovement}]
  /\ pc \in [Workers -> Labels]
  /\ loc \in [Workers -> Movements \cup {NoMovement}]
  /\ faults \in 0..MaxFaults

Init ==
  /\ accounts = {Treasury}
  /\ balances = [a \in Accounts |->
       [Core!ZeroBalance EXCEPT !.creditsPosted = IF a = Treasury THEN Funding ELSE 0]]
  /\ transfers = [id \in Core!TransferIds |-> Core!NoTransfer]
  /\ movements = [m \in Moves |-> NoMovement]
  /\ pc = [w \in Workers |-> IF w = Sweeper THEN "done" ELSE "start"]
  /\ loc = [w \in Workers |-> NoMovement]
  /\ faults = 0

Fault == faults < MaxFaults /\ faults' = faults + 1
NoFault == UNCHANGED faults
Goto(w, to) == pc' = [pc EXCEPT ![w] = to]
Status(w, s) == loc' = [loc EXCEPT ![w].status = s]

Debit(mv) == IF KindOf[mv.move] = "debit" THEN mv.agent ELSE Treasury
Credit(mv) == IF KindOf[mv.move] = "debit" THEN Treasury ELSE mv.agent

-----------------------------------------------------------------------------
(* The calls of move on the ledger and the store.                          *)

\* findByReference: a movement of this kind and reference is the answer; a
\* failed Get counts as none.
Find(c) ==
  /\ pc[c] = "start"
  /\ \/ Goto(c, IF movements[MoveOf[c]] = NoMovement THEN "open" ELSE "done") /\ NoFault
     \/ Goto(c, "open") /\ Fault
  /\ UNCHANGED <<ledger, movements, loc>>

\* Open and treasuryAccountID: an existing account is no error.
Open(c) ==
  /\ pc[c] = "open"
  /\ \/ Core!CreateAccounts({AgentOf[c]})
     \/ AgentOf[c] \in accounts /\ UNCHANGED ledger
  /\ \/ Goto(c, "hold") /\ NoFault
     \/ Goto(c, "done") /\ Fault
  /\ loc' = [loc EXCEPT ![c] =
       [move |-> MoveOf[c], agent |-> AgentOf[c], amount |-> AmountOf[c], status |-> "pending"]]
  /\ UNCHANGED movements

HoldNew(mv) == Core!PendingTransfer(mv.move, Debit(mv), Credit(mv), mv.amount)
HoldReplay(mv) ==
  /\ transfers[<<mv.move, "hold">>] = Core!Record(Debit(mv), Credit(mv), mv.amount, TRUE)
  /\ UNCHANGED ledger

\* PendingTransfer; ErrExceedsCredits and a conflict of ids end the call.
Hold(c) ==
  LET mv == loc[c]
      held == transfers[<<mv.move, "hold">>]
      refused == IF held = Core!NoTransfer
                 THEN ~Core!MayHold(Debit(mv), Credit(mv), mv.amount)
                 ELSE held # Core!Record(Debit(mv), Credit(mv), mv.amount, TRUE)
  IN
  /\ pc[c] = "hold"
  /\ \/ (HoldNew(mv) \/ HoldReplay(mv)) /\ Goto(c, "put") /\ NoFault
     \/ refused /\ UNCHANGED ledger /\ Goto(c, "done") /\ NoFault
     \/ (HoldNew(mv) \/ UNCHANGED ledger) /\ Goto(c, "done") /\ Fault
  /\ UNCHANGED <<movements, loc>>

\* The pending record, which a crash after this step leaves to the sweep.
PutPending(c) ==
  LET put == [movements EXCEPT ![MoveOf[c]] = loc[c]] IN
  /\ pc[c] = "put"
  /\ \/ movements' = put /\ Goto(c, "post") /\ NoFault
     \/ movements' \in {movements, put} /\ Goto(c, "release") /\ Fault
  /\ UNCHANGED <<ledger, loc>>

VoidNow(m) == Core!VoidPending(m) \/ (~Core!IsPending(<<m, "hold">>) /\ UNCHANGED ledger)

\* The compensation of a failed Put, best effort.
Release(c) ==
  /\ pc[c] = "release"
  /\ \/ VoidNow(MoveOf[c]) /\ NoFault
     \/ UNCHANGED ledger /\ Fault
  /\ Goto(c, "done")
  /\ UNCHANGED <<movements, loc>>

PostNew(mv) == Core!PostPendingAs(mv.move, mv.amount)
PostReplay(mv) ==
  /\ Core!Exists(<<mv.move, "hold">>) /\ ~Core!IsPending(<<mv.move, "hold">>)
  /\ transfers[<<mv.move, "post">>] = Core!Record(Debit(mv), Credit(mv), mv.amount, FALSE)
  /\ UNCHANGED ledger

\* Mutant: the error of the post is ignored.
Post_ErrorIgnored(w) ==
  /\ pc[w] = "post"
  /\ \/ PostNew(loc[w]) /\ NoFault
     \/ UNCHANGED ledger /\ Fault
  /\ Goto(w, "end") /\ Status(w, "posted")
  /\ UNCHANGED movements

\* PostPendingAs, by the call or by the sweep; a refused post and one whose
\* answer is lost go to the compensation.
Post(w) ==
  LET mv == loc[w]
      refused == ~Core!IsPending(<<mv.move, "hold">>) /\ ~Core!Exists(<<mv.move, "post">>)
  IN
  /\ pc[w] = "post"
  /\ \/ (PostNew(mv) \/ PostReplay(mv)) /\ Goto(w, "end") /\ Status(w, "posted") /\ NoFault
     \/ refused /\ UNCHANGED <<ledger, loc>> /\ Goto(w, "void") /\ NoFault
     \/ (PostNew(mv) \/ UNCHANGED ledger) /\ UNCHANGED loc /\ Goto(w, "void") /\ Fault
  /\ UNCHANGED movements

\* VoidPending.  The call marks the movement voided whether or not it worked,
\* the sweep only when it did.
Void(w) ==
  LET m == loc[w].move IN
  /\ pc[w] = "void"
  /\ \/ Core!VoidPending(m) /\ Goto(w, "end") /\ NoFault
     \/ /\ \/ ~Core!IsPending(<<m, "hold">>) /\ NoFault
           \/ Fault
        /\ UNCHANGED ledger
        /\ Goto(w, IF w = Sweeper THEN "done" ELSE "end")
  /\ Status(w, "voided")
  /\ UNCHANGED movements

\* The last Put of the call and of the sweep: its failure changes no step.
PutEnd(w) ==
  /\ pc[w] = "end"
  /\ \/ movements' = [movements EXCEPT ![loc[w].move] = loc[w]] /\ NoFault
     \/ UNCHANGED movements /\ Fault
  /\ Goto(w, "done")
  /\ UNCHANGED <<ledger, loc>>

\* SweepFloatMovements, one pending movement of its List at a time.
SweepList ==
  /\ pc[Sweeper] = "done"
  /\ \E m \in Moves :
       /\ movements[m] # NoMovement /\ movements[m].status = "pending"
       /\ loc' = [loc EXCEPT ![Sweeper] = movements[m]]
  /\ Goto(Sweeper, "post")
  /\ UNCHANGED <<ledger, movements, faults>>

Crash ==
  /\ Fault
  /\ pc' = [w \in Workers |-> IF pc[w] = "start" THEN "start" ELSE "done"]
  /\ UNCHANGED <<ledger, movements, loc>>

Next ==
  \/ \E c \in Calls : Find(c) \/ Open(c) \/ Hold(c) \/ PutPending(c) \/ Release(c)
  \/ \E w \in Workers : Post(w) \/ Void(w) \/ PutEnd(w)
  \/ SweepList
  \/ Crash

Spec == Init /\ [][Next]_vars

-----------------------------------------------------------------------------
(* Properties.                                                             *)

\* "One logical movement per (kind, reference)": the record of a movement is
\* true of the ledger.  A posted one has its post, with the accounts and the
\* amount of the record, and a pending one its hold, whichever of two calls
\* with one reference and the sweep wrote it last and wherever a crash, a lost
\* answer or a failed Put fell.
MovementBacked ==
  \A m \in Moves :
    LET mv == movements[m] IN
    mv # NoMovement =>
      /\ mv.status = "posted" =>
           transfers[<<m, "post">>] = Core!Record(Debit(mv), Credit(mv), mv.amount, FALSE)
      /\ mv.status = "pending" =>
           transfers[<<m, "hold">>] \in
             {Core!Record(Debit(mv), Credit(mv), mv.amount, p) : p \in BOOLEAN}
=============================================================================

------------------------------- MODULE Ledger -------------------------------
(***************************************************************************)
(* The double-entry ledger every money path of the suite posts to          *)
(* (internal/platform/ledger/ledger.go, DevClient, TigerBeetle semantics). *)
(* Every operation runs under one mutex, so each is one action.  A call    *)
(* that is refused, and a call that replays an existing transfer, leave    *)
(* the ledger as it is: they are stuttering steps and have no action.      *)
(*                                                                         *)
(* Transfer ids are deterministic hashes of a seed ("psm-intent:<id>",     *)
(* "float-post:<ref>" ...), taken as injective: an id is a pair of a seed  *)
(* and the leg it names.  The callers give a hold, the post that consumes  *)
(* it and the (random) void record three different ids, as here.           *)
(***************************************************************************)
EXTENDS Integers

CONSTANTS
  Accounts,      \* account ids that may ever be created
  Seeds,         \* seeds of deterministic transfer ids
  MaxAmount,     \* bound on the amount of one transfer (kobo)
  DebitCapped,   \* accounts with FlagDebitsMustNotExceedCredits
  CreditCapped,  \* accounts with FlagCreditsMustNotExceedDebits
  DirectDebits,  \* accounts some caller debits with Transfer, without a hold
  LedgerOf       \* the ledger number of every account

ASSUME MaxAmountAssumption == MaxAmount \in Nat \ {0}

ASSUME FlagsAssumption ==
  /\ DebitCapped \subseteq Accounts
  /\ CreditCapped \subseteq Accounts
  /\ DirectDebits \subseteq Accounts

\* float.go is the only code that opens capped accounts, and it debits them
\* through PendingTransfer and PostPendingAs alone.
ASSUME CappedUseHolds == DirectDebits \cap DebitCapped = {}

VARIABLES
  accounts,   \* the accounts created so far
  balances,   \* [Accounts -> Balance]
  transfers   \* [Seeds \X Legs -> transfer record or NoTransfer]

vars == <<accounts, balances, transfers>>

-----------------------------------------------------------------------------
Legs == {"direct", "hold", "post", "void"}
TransferIds == Seeds \X Legs

\* A record of another shape stands for a key that is not in the map.
NoTransfer == [none |-> TRUE]

Amounts == 0..MaxAmount

TransferRecords ==
  [debit : Accounts, credit : Accounts, amount : Amounts, pending : BOOLEAN]

Record(d, c, amt, pend) ==
  [debit |-> d, credit |-> c, amount |-> amt, pending |-> pend]

BalanceRecords ==
  [debitsPosted : Nat, creditsPosted : Nat, debitsPending : Int, creditsPending : Int]

ZeroBalance ==
  [debitsPosted |-> 0, creditsPosted |-> 0, debitsPending |-> 0, creditsPending |-> 0]

Exists(id) == transfers[id] # NoTransfer
IsPending(id) == Exists(id) /\ transfers[id].pending

-----------------------------------------------------------------------------
(* checkFlags and pair: what every operation that adds value must satisfy. *)

CheckFlags(a, addDebitPending, addDebitPosted, addCreditPending, addCreditPosted) ==
  /\ a \in DebitCapped =>
       balances[a].debitsPosted + addDebitPosted + addDebitPending
         <= balances[a].creditsPosted + addCreditPosted
  /\ a \in CreditCapped =>
       balances[a].creditsPosted + addCreditPosted + addCreditPending
         <= balances[a].debitsPosted + addDebitPosted

Pair(d, c, amt) ==
  /\ amt # 0
  /\ d \in accounts
  /\ c \in accounts
  /\ LedgerOf[d] = LedgerOf[c]

\* Mutant: value is posted without consulting the flags.
MayPost_Unchecked(d, c, amt) == TRUE

\* The flag check before value is posted, on the debit and the credit side.
MayPost(d, c, amt) ==
  /\ CheckFlags(d, 0, amt, 0, 0)
  /\ CheckFlags(c, 0, 0, 0, amt)

\* Mutant: the check before a hold forgets the holds already granted.
MayHold_IgnoresHolds(d, c, amt) ==
  /\ CheckFlags(d, amt, 0, 0, 0)
  /\ CheckFlags(c, 0, 0, amt, 0)

\* The flag check before a hold counts the holds already pending.
MayHold(d, c, amt) ==
  /\ CheckFlags(d, balances[d].debitsPending + amt, 0, 0, 0)
  /\ CheckFlags(c, 0, 0, balances[c].creditsPending + amt, 0)

\* Mutant: the debit side is posted with the wrong sign.
Moved_WrongSign(d, c, posted, held) ==
  [a \in Accounts |->
     [debitsPosted   |-> balances[a].debitsPosted - (IF a = d THEN posted ELSE 0),
      creditsPosted  |-> balances[a].creditsPosted + (IF a = c THEN posted ELSE 0),
      debitsPending  |-> balances[a].debitsPending + (IF a = d THEN held ELSE 0),
      creditsPending |-> balances[a].creditsPending + (IF a = c THEN held ELSE 0)]]

\* Mutant: a posted amount reaches the debit side only.
Moved_OneSided(d, c, posted, held) ==
  [a \in Accounts |->
     [debitsPosted   |-> balances[a].debitsPosted + (IF a = d THEN posted ELSE 0),
      creditsPosted  |-> balances[a].creditsPosted
                           + (IF a = c /\ held = 0 THEN posted ELSE 0),
      debitsPending  |-> balances[a].debitsPending + (IF a = d THEN held ELSE 0),
      creditsPending |-> balances[a].creditsPending + (IF a = c THEN held ELSE 0)]]

\* The balances after posting `posted` from d to c and changing what is held
\* from d to c by `held`.
Moved(d, c, posted, held) ==
  [a \in Accounts |->
     [debitsPosted   |-> balances[a].debitsPosted + (IF a = d THEN posted ELSE 0),
      creditsPosted  |-> balances[a].creditsPosted + (IF a = c THEN posted ELSE 0),
      debitsPending  |-> balances[a].debitsPending + (IF a = d THEN held ELSE 0),
      creditsPending |-> balances[a].creditsPending + (IF a = c THEN held ELSE 0)]]

-----------------------------------------------------------------------------
Init ==
  /\ accounts = {}
  /\ balances = [a \in Accounts |-> ZeroBalance]
  /\ transfers = [id \in TransferIds |-> NoTransfer]

\* CreateAccounts refuses the whole batch when one id is taken.
CreateAccounts(new) ==
  /\ new \cap accounts = {}
  /\ accounts' = accounts \cup new
  /\ balances' = [a \in Accounts |-> IF a \in new THEN ZeroBalance ELSE balances[a]]
  /\ UNCHANGED transfers

\* Mutant: the replay test on the client-supplied id is dropped.
Transfer_NoReplayTest(s, d, c, amt) ==
  /\ Pair(d, c, amt)
  /\ d \in DirectDebits
  /\ MayPost(d, c, amt)
  /\ balances' = Moved(d, c, amt, 0)
  /\ transfers' = [transfers EXCEPT ![<<s, "direct">>] = Record(d, c, amt, FALSE)]
  /\ UNCHANGED accounts

\* Transfer: an immediate transfer under a fresh id.
Transfer(s, d, c, amt) ==
  /\ Pair(d, c, amt)
  /\ d \in DirectDebits
  /\ ~Exists(<<s, "direct">>)
  /\ MayPost(d, c, amt)
  /\ balances' = Moved(d, c, amt, 0)
  /\ transfers' = [transfers EXCEPT ![<<s, "direct">>] = Record(d, c, amt, FALSE)]
  /\ UNCHANGED accounts

\* PendingTransfer: a hold under a fresh id.
PendingTransfer(s, d, c, amt) ==
  /\ Pair(d, c, amt)
  /\ ~Exists(<<s, "hold">>)
  /\ MayHold(d, c, amt)
  /\ balances' = Moved(d, c, 0, amt)
  /\ transfers' = [transfers EXCEPT ![<<s, "hold">>] = Record(d, c, amt, TRUE)]
  /\ UNCHANGED accounts

\* Mutant: a partial post releases only what it posts.
Consume_KeepsRemainder(s, leg, posted) ==
  LET pt == transfers[<<s, "hold">>] IN
  /\ balances' = Moved(pt.debit, pt.credit, posted,
                       IF leg = "post" THEN -posted ELSE -pt.amount)
  /\ transfers' = [transfers EXCEPT
       ![<<s, "hold">>] =
         Record(pt.debit, pt.credit,
                IF leg = "post" /\ posted < pt.amount THEN 0 ELSE pt.amount, FALSE),
       ![<<s, leg>>] =
         Record(pt.debit, pt.credit, IF leg = "post" THEN posted ELSE pt.amount, FALSE)]
  /\ UNCHANGED accounts

\* What PostPendingAs and VoidPending do to a pending hold: it stops being
\* pending, all it held is released, `posted` of it is posted, and a record
\* of the post or of the void is kept.  A partial post zeroes the hold's amount.
Consume(s, leg, posted) ==
  LET pt == transfers[<<s, "hold">>] IN
  /\ balances' = Moved(pt.debit, pt.credit, posted, -pt.amount)
  /\ transfers' = [transfers EXCEPT
       ![<<s, "hold">>] =
         Record(pt.debit, pt.credit,
                IF leg = "post" /\ posted < pt.amount THEN 0 ELSE pt.amount, FALSE),
       ![<<s, leg>>] =
         Record(pt.debit, pt.credit, IF leg = "post" THEN posted ELSE pt.amount, FALSE)]
  /\ UNCHANGED accounts

\* PostPendingAs: consume a hold and post at most what it holds (0 means all).
PostPendingAs(s, request) ==
  LET pt == transfers[<<s, "hold">>]
      amt == IF request = 0 THEN pt.amount ELSE request
  IN
  /\ IsPending(<<s, "hold">>)
  /\ amt <= pt.amount
  /\ MayPost(pt.debit, pt.credit, amt)
  /\ Consume(s, "post", amt)

\* Mutant: the test of the Pending flag is dropped.
VoidPending_NoPendingTest(s) ==
  /\ Exists(<<s, "hold">>)
  /\ ~Exists(<<s, "void">>)
  /\ Consume(s, "void", 0)

\* VoidPending: release a hold without posting.
VoidPending(s) ==
  /\ IsPending(<<s, "hold">>)
  /\ Consume(s, "void", 0)

Next ==
  \/ \E new \in SUBSET Accounts \ {{}} : CreateAccounts(new)
  \/ \E s \in Seeds, d, c \in Accounts, amt \in Amounts :
       Transfer(s, d, c, amt) \/ PendingTransfer(s, d, c, amt)
  \/ \E s \in Seeds, request \in Amounts : PostPendingAs(s, request)
  \/ \E s \in Seeds : VoidPending(s)

Spec == Init /\ [][Next]_vars

-----------------------------------------------------------------------------
(* Properties.                                                             *)

\* Type correctness of the account table, the balances and the transfer map.
TypeOK ==
  /\ accounts \subseteq Accounts
  /\ balances \in [Accounts -> BalanceRecords]
  /\ transfers \in [TransferIds -> TransferRecords \cup {NoTransfer}]

\* The flags hold of what is posted, whatever the order of holds, posts,
\* voids and direct transfers: a debit-capped account never spends more than
\* it received and a credit-capped one never receives more than it spent.
PostedWithinFlags ==
  \A a \in accounts :
    /\ a \in DebitCapped => balances[a].debitsPosted <= balances[a].creditsPosted
    /\ a \in CreditCapped => balances[a].creditsPosted <= balances[a].debitsPosted

\* What a hold reserved stays reserved: on a debit-capped account the posted
\* debits and the open holds together never exceed the posted credits, so no
\* later operation can spend money a hold was granted on.
HeldFundsReserved ==
  \A a \in accounts \cap DebitCapped :
    balances[a].debitsPosted + balances[a].debitsPending <= balances[a].creditsPosted

\* A hold is consumed for good and by one outcome only: once it stops being
\* pending it is never pending again, and it is never both posted and voided.
HoldConsumedOnce ==
  \A s \in Seeds :
    /\ Exists(<<s, "post">>) => Exists(<<s, "hold">>) /\ ~IsPending(<<s, "hold">>)
    /\ Exists(<<s, "void">>) => Exists(<<s, "hold">>) /\ ~IsPending(<<s, "hold">>)
    /\ ~(Exists(<<s, "post">>) /\ Exists(<<s, "void">>))

\* A recorded transfer is history: it never disappears, and a posted one
\* (direct or post) never changes.
HistoryKept ==
  [][\A id \in TransferIds :
       Exists(id) =>
         /\ transfers'[id] # NoTransfer
         /\ ~transfers[id].pending => transfers'[id] = transfers[id]]_vars
=============================================================================

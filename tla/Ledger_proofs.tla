---------------------------- MODULE Ledger_proofs ----------------------------
(***************************************************************************)
(* Proofs about the core ledger, for any accounts, flags, seeds and bound  *)
(* on amounts.  The flags, the reservations and the single consumption of  *)
(* a hold are each inductive once the types are known; that history is     *)
(* kept follows from the types and the single consumption of a hold.  The  *)
(* audit equations are inductive with the single consumption of a hold:    *)
(* each operation moves one summand in or out of two of the sums.          *)
(***************************************************************************)
EXTENDS LedgerAudit, TLAPS

-----------------------------------------------------------------------------
(* Facts about the operators.                                              *)

\* A transfer record is never the "not in the map" value.
LEMMA RecordExists ==
  ASSUME NEW d, NEW c, NEW amt, NEW pend
  PROVE  Record(d, c, amt, pend) # NoTransfer
<1>1. DOMAIN Record(d, c, amt, pend) = {"debit", "credit", "amount", "pending"}
  BY DEF Record
<1>2. DOMAIN NoTransfer = {"none"}
  BY DEF NoTransfer
<1> QED BY <1>1, <1>2

\* A transfer that exists has the fields of a transfer.
LEMMA ExistsTyped ==
  ASSUME TypeOK, NEW id \in TransferIds, Exists(id)
  PROVE  transfers[id] \in TransferRecords
BY DEF TypeOK, Exists

\* Posting a natural amount and changing a hold keeps the balances well typed.
LEMMA MovedTyped ==
  ASSUME TypeOK, NEW d, NEW c, NEW posted \in Nat, NEW held \in Int
  PROVE  Moved(d, c, posted, held) \in [Accounts -> BalanceRecords]
BY DEF TypeOK, Moved, BalanceRecords

\* Consuming a pending hold keeps the types, whatever part of it is posted.
LEMMA ConsumeTyped ==
  ASSUME TypeOK, NEW s \in Seeds, NEW leg \in Legs, NEW posted \in Amounts,
         IsPending(<<s, "hold">>), Consume(s, leg, posted)
  PROVE  TypeOK'
<1> DEFINE pt == transfers[<<s, "hold">>]
<1>1. <<s, "hold">> \in TransferIds /\ <<s, leg>> \in TransferIds
  BY DEF TransferIds, Legs
<1>2. pt \in TransferRecords
  BY <1>1, ExistsTyped DEF IsPending
<1>3. pt.debit \in Accounts /\ pt.credit \in Accounts /\ pt.amount \in Amounts
  BY <1>2 DEF TransferRecords
<1>4. Amounts \subseteq Nat /\ 0 \in Amounts
  BY MaxAmountAssumption DEF Amounts
<1>5. pt.amount \in Nat /\ posted \in Nat
  BY <1>3, <1>4
<1>6. balances' \in [Accounts -> BalanceRecords]
  <2>1. \A n \in Nat : -n \in Int
    OBVIOUS
  <2> QED BY <1>5, <2>1, MovedTyped DEF Consume
<1>7. \A a \in Amounts, b \in BOOLEAN : Record(pt.debit, pt.credit, a, b) \in TransferRecords
  BY <1>3 DEF Record, TransferRecords
<1>8. transfers' \in [TransferIds -> TransferRecords \cup {NoTransfer}]
  BY <1>1, <1>3, <1>4, <1>7 DEF Consume, TypeOK
<1> QED BY <1>6, <1>8 DEF Consume, TypeOK

-----------------------------------------------------------------------------
(* Types.                                                                  *)

\* The empty ledger is well typed.
LEMMA TypeInit == Init => TypeOK
BY DEF Init, TypeOK, ZeroBalance, BalanceRecords

\* Every operation keeps the types.
LEMMA TypeStep == TypeOK /\ [Next]_vars => TypeOK'
<1> SUFFICES ASSUME TypeOK, [Next]_vars PROVE TypeOK'
  OBVIOUS
<1>1. ASSUME NEW new \in SUBSET Accounts, CreateAccounts(new) PROVE TypeOK'
  BY <1>1 DEF CreateAccounts, TypeOK, ZeroBalance, BalanceRecords
<1>2. ASSUME NEW s \in Seeds, NEW d \in Accounts, NEW c \in Accounts, NEW amt \in Amounts,
             Transfer(s, d, c, amt)
      PROVE  TypeOK'
  <2>1. amt \in Nat /\ 0 \in Int
    BY MaxAmountAssumption DEF Amounts
  <2>2. balances' \in [Accounts -> BalanceRecords]
    BY <1>2, <2>1, MovedTyped DEF Transfer
  <2>3. Record(d, c, amt, FALSE) \in TransferRecords /\ <<s, "direct">> \in TransferIds
    BY DEF Record, TransferRecords, TransferIds, Legs
  <2> QED BY <1>2, <2>2, <2>3 DEF Transfer, TypeOK
<1>3. ASSUME NEW s \in Seeds, NEW d \in Accounts, NEW c \in Accounts, NEW amt \in Amounts,
             PendingTransfer(s, d, c, amt)
      PROVE  TypeOK'
  <2>1. amt \in Int /\ 0 \in Nat
    BY MaxAmountAssumption DEF Amounts
  <2>2. balances' \in [Accounts -> BalanceRecords]
    BY <1>3, <2>1, MovedTyped DEF PendingTransfer
  <2>3. Record(d, c, amt, TRUE) \in TransferRecords /\ <<s, "hold">> \in TransferIds
    BY DEF Record, TransferRecords, TransferIds, Legs
  <2> QED BY <1>3, <2>2, <2>3 DEF PendingTransfer, TypeOK
<1>4. ASSUME NEW s \in Seeds, NEW request \in Amounts, PostPendingAs(s, request)
      PROVE  TypeOK'
  <2> DEFINE pt == transfers[<<s, "hold">>]
             amt == IF request = 0 THEN pt.amount ELSE request
  <2>1. IsPending(<<s, "hold">>) /\ Consume(s, "post", amt)
    BY <1>4 DEF PostPendingAs
  <2>2. <<s, "hold">> \in TransferIds /\ "post" \in Legs
    BY DEF TransferIds, Legs
  <2>3. amt \in Amounts
    BY <2>1, <2>2, ExistsTyped DEF IsPending, TransferRecords
  <2> HIDE DEF amt
  <2> QED BY <2>1, <2>2, <2>3, ConsumeTyped
<1>5. ASSUME NEW s \in Seeds, VoidPending(s) PROVE TypeOK'
  <2>1. "void" \in Legs /\ 0 \in Amounts
    BY MaxAmountAssumption DEF Legs, Amounts
  <2> QED BY <1>5, <2>1, ConsumeTyped DEF VoidPending
<1>6. CASE UNCHANGED vars
  BY <1>6 DEF vars, TypeOK
<1> QED BY <1>1, <1>2, <1>3, <1>4, <1>5, <1>6 DEF Next

\* The accounts, the balances and the transfer map keep their types: no
\* sequence of holds, posts, voids and transfers makes a posted counter
\* negative (they are unsigned in the code).
THEOREM TypeCorrect == Spec => []TypeOK
BY TypeInit, TypeStep, PTL DEF Spec

-----------------------------------------------------------------------------
(* Flags and reservations.                                                 *)

\* Nothing is posted or held on the empty ledger.
LEMMA FlagsInit == Init => PostedWithinFlags /\ HeldFundsReserved
BY DEF Init, PostedWithinFlags, HeldFundsReserved

\* A consumed hold: its accounts, and the numbers the balances move by.
LEMMA ConsumeNumbers ==
  ASSUME TypeOK, NEW s \in Seeds, IsPending(<<s, "hold">>)
  PROVE  /\ transfers[<<s, "hold">>] \in TransferRecords
         /\ transfers[<<s, "hold">>].debit \in Accounts
         /\ transfers[<<s, "hold">>].credit \in Accounts
         /\ transfers[<<s, "hold">>].amount \in Nat
<1>1. <<s, "hold">> \in TransferIds
  BY DEF TransferIds, Legs
<1>2. transfers[<<s, "hold">>] \in TransferRecords
  BY <1>1, ExistsTyped DEF IsPending
<1> QED BY <1>2, MaxAmountAssumption DEF TransferRecords, Amounts

\* The four counters of one account after a move.
LEMMA MovedAt ==
  ASSUME NEW d, NEW c, NEW posted, NEW held, NEW a \in Accounts
  PROVE  /\ Moved(d, c, posted, held)[a].debitsPosted
              = balances[a].debitsPosted + (IF a = d THEN posted ELSE 0)
         /\ Moved(d, c, posted, held)[a].creditsPosted
              = balances[a].creditsPosted + (IF a = c THEN posted ELSE 0)
         /\ Moved(d, c, posted, held)[a].debitsPending
              = balances[a].debitsPending + (IF a = d THEN held ELSE 0)
         /\ Moved(d, c, posted, held)[a].creditsPending
              = balances[a].creditsPending + (IF a = c THEN held ELSE 0)
BY DEF Moved

\* Numbers in the balance of an account.
LEMMA BalanceNumbers ==
  ASSUME TypeOK, NEW a \in Accounts
  PROVE  /\ balances[a].debitsPosted \in Nat
         /\ balances[a].creditsPosted \in Nat
         /\ balances[a].debitsPending \in Int
         /\ balances[a].creditsPending \in Int
BY DEF TypeOK, BalanceRecords

\* Value posted after the flag check leaves the flags satisfied.
LEMMA PostKeepsFlags ==
  ASSUME TypeOK, PostedWithinFlags,
         NEW d \in Accounts, NEW c \in Accounts, NEW amt \in Nat, NEW held \in Int,
         MayPost(d, c, amt), UNCHANGED accounts,
         balances' = Moved(d, c, amt, held)
  PROVE  PostedWithinFlags'
<1> SUFFICES ASSUME NEW a \in accounts
             PROVE  /\ a \in DebitCapped =>
                         balances'[a].debitsPosted <= balances'[a].creditsPosted
                    /\ a \in CreditCapped =>
                         balances'[a].creditsPosted <= balances'[a].debitsPosted
  BY DEF PostedWithinFlags
<1>1. a \in Accounts
  BY DEF TypeOK
<1>2. balances[a].debitsPosted \in Nat /\ balances[a].creditsPosted \in Nat
  BY <1>1, BalanceNumbers
<1>3. /\ balances'[a].debitsPosted = balances[a].debitsPosted + (IF a = d THEN amt ELSE 0)
      /\ balances'[a].creditsPosted = balances[a].creditsPosted + (IF a = c THEN amt ELSE 0)
  BY <1>1, MovedAt
<1>4. ASSUME a \in DebitCapped
      PROVE  balances'[a].debitsPosted <= balances'[a].creditsPosted
  BY <1>2, <1>3, <1>4 DEF PostedWithinFlags, MayPost, CheckFlags
<1>5. ASSUME a \in CreditCapped
      PROVE  balances'[a].creditsPosted <= balances'[a].debitsPosted
  BY <1>2, <1>3, <1>5 DEF PostedWithinFlags, MayPost, CheckFlags
<1> QED BY <1>4, <1>5

\* Every operation keeps what is posted within the flags.
LEMMA FlagsStep == TypeOK /\ PostedWithinFlags /\ [Next]_vars => PostedWithinFlags'
<1> SUFFICES ASSUME TypeOK, PostedWithinFlags, [Next]_vars PROVE PostedWithinFlags'
  OBVIOUS
<1>0. Amounts \subseteq Nat
  BY MaxAmountAssumption DEF Amounts
<1>1. ASSUME NEW new \in SUBSET Accounts, CreateAccounts(new) PROVE PostedWithinFlags'
  <2> SUFFICES ASSUME NEW a \in accounts'
               PROVE  /\ a \in DebitCapped =>
                           balances'[a].debitsPosted <= balances'[a].creditsPosted
                      /\ a \in CreditCapped =>
                           balances'[a].creditsPosted <= balances'[a].debitsPosted
    BY DEF PostedWithinFlags
  <2>1. a \in Accounts
    BY <1>1 DEF CreateAccounts, TypeOK
  <2>2. CASE a \in new
    BY <1>1, <2>1, <2>2 DEF CreateAccounts, ZeroBalance
  <2>3. CASE a \notin new
    BY <1>1, <2>1, <2>3 DEF CreateAccounts, PostedWithinFlags
  <2> QED BY <2>2, <2>3
<1>2. ASSUME NEW s \in Seeds, NEW d \in Accounts, NEW c \in Accounts, NEW amt \in Amounts,
             Transfer(s, d, c, amt)
      PROVE  PostedWithinFlags'
  <2>1. amt \in Nat /\ 0 \in Int
    BY <1>0
  <2> QED BY <1>2, <2>1, PostKeepsFlags DEF Transfer
<1>3. ASSUME NEW s \in Seeds, NEW d \in Accounts, NEW c \in Accounts, NEW amt \in Amounts,
             PendingTransfer(s, d, c, amt)
      PROVE  PostedWithinFlags'
  <2>1. \A a \in Accounts : /\ balances'[a].debitsPosted = balances[a].debitsPosted
                            /\ balances'[a].creditsPosted = balances[a].creditsPosted
    BY <1>3, MovedAt, BalanceNumbers DEF PendingTransfer
  <2> QED BY <1>3, <2>1 DEF PendingTransfer, PostedWithinFlags, TypeOK
<1>4. ASSUME NEW s \in Seeds, NEW request \in Amounts, PostPendingAs(s, request)
      PROVE  PostedWithinFlags'
  <2> DEFINE pt == transfers[<<s, "hold">>]
             amt == IF request = 0 THEN pt.amount ELSE request
  <2>1. /\ IsPending(<<s, "hold">>)
        /\ MayPost(pt.debit, pt.credit, amt)
        /\ UNCHANGED accounts
        /\ balances' = Moved(pt.debit, pt.credit, amt, -pt.amount)
    BY <1>4 DEF PostPendingAs, Consume
  <2>2. pt.debit \in Accounts /\ pt.credit \in Accounts /\ pt.amount \in Nat
    BY <2>1, ConsumeNumbers
  <2>3. amt \in Nat /\ -pt.amount \in Int
    BY <1>0, <2>2
  <2> HIDE DEF amt, pt
  <2> QED BY <2>1, <2>2, <2>3, PostKeepsFlags
<1>5. ASSUME NEW s \in Seeds, VoidPending(s) PROVE PostedWithinFlags'
  <2>1. \A a \in Accounts : /\ balances'[a].debitsPosted = balances[a].debitsPosted
                            /\ balances'[a].creditsPosted = balances[a].creditsPosted
    BY <1>5, MovedAt, BalanceNumbers DEF VoidPending, Consume
  <2> QED BY <1>5, <2>1 DEF VoidPending, Consume, PostedWithinFlags, TypeOK
<1>6. CASE UNCHANGED vars
  BY <1>6 DEF vars, PostedWithinFlags
<1> QED BY <1>1, <1>2, <1>3, <1>4, <1>5, <1>6 DEF Next

\* A debit-capped account is never overspent and a credit-capped one never
\* over-credited: checkFlags runs before every post, and posts are the only
\* steps that raise a posted counter.
THEOREM FlagsHold == Spec => []PostedWithinFlags
BY TypeInit, TypeStep, FlagsInit, FlagsStep, PTL DEF Spec

\* Every operation keeps the open holds covered: PendingTransfer counts the
\* holds already granted, and a post moves value from held to posted.
LEMMA ReservedStep == TypeOK /\ HeldFundsReserved /\ [Next]_vars => HeldFundsReserved'
<1> SUFFICES ASSUME TypeOK, HeldFundsReserved, [Next]_vars,
                    NEW a \in accounts', a \in DebitCapped
             PROVE  balances'[a].debitsPosted + balances'[a].debitsPending
                      <= balances'[a].creditsPosted
  BY DEF HeldFundsReserved
<1> DEFINE Reserved == balances'[a].debitsPosted + balances'[a].debitsPending
                         <= balances'[a].creditsPosted
<1>0. a \in Accounts /\ Amounts \subseteq Nat
  BY FlagsAssumption, MaxAmountAssumption DEF Amounts
<1>b. /\ balances[a].debitsPosted \in Nat
      /\ balances[a].creditsPosted \in Nat
      /\ balances[a].debitsPending \in Int
  BY <1>0, BalanceNumbers
<1>r. a \in accounts =>
        balances[a].debitsPosted + balances[a].debitsPending <= balances[a].creditsPosted
  BY DEF HeldFundsReserved
<1>1. ASSUME NEW new \in SUBSET Accounts, CreateAccounts(new) PROVE Reserved
  <2>1. CASE a \in new
    BY <1>0, <1>1, <2>1 DEF CreateAccounts, ZeroBalance
  <2>2. CASE a \notin new
    BY <1>0, <1>r, <1>1, <2>2 DEF CreateAccounts
  <2> QED BY <2>1, <2>2
<1>2. ASSUME NEW s \in Seeds, NEW d \in Accounts, NEW c \in Accounts, NEW amt \in Amounts,
             Transfer(s, d, c, amt)
      PROVE  Reserved
  <2>1. a # d /\ a \in accounts /\ amt \in Nat
    BY <1>0, <1>2, CappedUseHolds DEF Transfer
  <2>2. /\ balances'[a].debitsPosted = balances[a].debitsPosted + 0
        /\ balances'[a].debitsPending = balances[a].debitsPending + 0
        /\ balances'[a].creditsPosted = balances[a].creditsPosted + (IF a = c THEN amt ELSE 0)
    BY <1>0, <1>2, <2>1, MovedAt DEF Transfer
  <2> QED BY <1>b, <1>r, <2>1, <2>2
<1>3. ASSUME NEW s \in Seeds, NEW d \in Accounts, NEW c \in Accounts, NEW amt \in Amounts,
             PendingTransfer(s, d, c, amt)
      PROVE  Reserved
  <2>1. a \in accounts /\ amt \in Nat
    BY <1>0, <1>3 DEF PendingTransfer
  <2>2. /\ balances'[a].debitsPosted = balances[a].debitsPosted + (IF a = d THEN 0 ELSE 0)
        /\ balances'[a].debitsPending = balances[a].debitsPending + (IF a = d THEN amt ELSE 0)
        /\ balances'[a].creditsPosted = balances[a].creditsPosted + (IF a = c THEN 0 ELSE 0)
    BY <1>0, <1>3, MovedAt DEF PendingTransfer
  <2>3. a = d => balances[a].debitsPosted + 0 + (balances[a].debitsPending + amt)
                   <= balances[a].creditsPosted + 0
    BY <1>3 DEF PendingTransfer, MayHold, CheckFlags
  <2> QED BY <1>b, <1>r, <2>1, <2>2, <2>3
<1>4. ASSUME NEW s \in Seeds, NEW leg, NEW posted \in Nat, IsPending(<<s, "hold">>),
             posted <= transfers[<<s, "hold">>].amount, Consume(s, leg, posted)
      PROVE  Reserved
  <2> DEFINE pt == transfers[<<s, "hold">>]
  <2>1. a \in accounts /\ pt.amount \in Nat
    BY <1>4, ConsumeNumbers DEF Consume
  <2>2. /\ balances'[a].debitsPosted
              = balances[a].debitsPosted + (IF a = pt.debit THEN posted ELSE 0)
        /\ balances'[a].debitsPending
              = balances[a].debitsPending + (IF a = pt.debit THEN -pt.amount ELSE 0)
        /\ balances'[a].creditsPosted
              = balances[a].creditsPosted + (IF a = pt.credit THEN posted ELSE 0)
    BY <1>0, <1>4, MovedAt DEF Consume
  <2>3. posted <= pt.amount
    BY <1>4
  <2> HIDE DEF pt
  <2> QED BY <1>b, <1>r, <2>1, <2>2, <2>3
<1>5. ASSUME NEW s \in Seeds, NEW request \in Amounts, PostPendingAs(s, request)
      PROVE  Reserved
  <2> DEFINE pt == transfers[<<s, "hold">>]
             amt == IF request = 0 THEN pt.amount ELSE request
  <2>1. IsPending(<<s, "hold">>) /\ amt <= pt.amount /\ Consume(s, "post", amt)
    BY <1>5 DEF PostPendingAs
  <2>2. amt \in Nat
    BY <1>0, <2>1, ConsumeNumbers
  <2> HIDE DEF amt, Reserved
  <2> QED BY <1>4, <2>1, <2>2
<1>6. ASSUME NEW s \in Seeds, VoidPending(s) PROVE Reserved
  <2>1. IsPending(<<s, "hold">>) /\ Consume(s, "void", 0)
    BY <1>6 DEF VoidPending
  <2>2. 0 \in Nat /\ 0 <= transfers[<<s, "hold">>].amount
    BY <2>1, ConsumeNumbers
  <2> HIDE DEF Reserved
  <2> QED BY <1>4, <2>1, <2>2
<1>7. CASE UNCHANGED vars
  BY <1>r, <1>7 DEF vars
<1> QED BY <1>1, <1>2, <1>3, <1>5, <1>6, <1>7 DEF Next

\* What PendingTransfer granted on a debit-capped account stays covered by
\* its credits until the hold is posted or voided.  It needs the discipline
\* of CappedUseHolds: a direct Transfer would not look at the holds.
THEOREM ReservationsHold == Spec => []HeldFundsReserved
BY TypeInit, TypeStep, FlagsInit, ReservedStep, PTL DEF Spec

-----------------------------------------------------------------------------
(* Holds and history.                                                      *)

\* No hold was consumed before the first operation.
LEMMA HoldInit == Init => HoldConsumedOnce
BY DEF Init, HoldConsumedOnce, Exists, TransferIds, Legs

\* A pending hold has been neither posted nor voided.
LEMMA PendingUnconsumed ==
  ASSUME HoldConsumedOnce, NEW s \in Seeds, IsPending(<<s, "hold">>)
  PROVE  ~Exists(<<s, "post">>) /\ ~Exists(<<s, "void">>)
BY DEF HoldConsumedOnce

\* What Consume leaves in the transfer map.
LEMMA ConsumeMap ==
  ASSUME TypeOK, NEW s \in Seeds, NEW leg \in {"post", "void"}, NEW posted,
         Consume(s, leg, posted)
  PROVE  /\ transfers'[<<s, "hold">>] # NoTransfer
         /\ transfers'[<<s, "hold">>].pending = FALSE
         /\ transfers'[<<s, leg>>] # NoTransfer
         /\ \A id \in TransferIds :
              id \notin {<<s, "hold">>, <<s, leg>>} => transfers'[id] = transfers[id]
<1>1. <<s, "hold">> \in TransferIds /\ <<s, leg>> \in TransferIds /\ leg # "hold"
  BY DEF TransferIds, Legs
<1>2. \A d, c, amt : Record(d, c, amt, FALSE) # NoTransfer /\ Record(d, c, amt, FALSE).pending = FALSE
  BY RecordExists DEF Record
<1>3. PICK d, c, a1, a2 :
        transfers' = [transfers EXCEPT ![<<s, "hold">>] = Record(d, c, a1, FALSE),
                                       ![<<s, leg>>] = Record(d, c, a2, FALSE)]
  BY DEF Consume
<1> QED BY <1>1, <1>2, <1>3 DEF TypeOK

\* Every operation keeps holds consumed at most once.
LEMMA HoldStep == TypeOK /\ HoldConsumedOnce /\ [Next]_vars => HoldConsumedOnce'
<1> SUFFICES ASSUME TypeOK, HoldConsumedOnce, [Next]_vars,
                    NEW s \in Seeds
             PROVE  (/\ Exists(<<s, "post">>) => Exists(<<s, "hold">>) /\ ~IsPending(<<s, "hold">>)
                     /\ Exists(<<s, "void">>) => Exists(<<s, "hold">>) /\ ~IsPending(<<s, "hold">>)
                     /\ ~(Exists(<<s, "post">>) /\ Exists(<<s, "void">>)))'
  BY DEF HoldConsumedOnce
<1> DEFINE Once == /\ Exists(<<s, "post">>) => Exists(<<s, "hold">>) /\ ~IsPending(<<s, "hold">>)
                   /\ Exists(<<s, "void">>) => Exists(<<s, "hold">>) /\ ~IsPending(<<s, "hold">>)
                   /\ ~(Exists(<<s, "post">>) /\ Exists(<<s, "void">>))
<1>0. Once /\ \A leg \in Legs : <<s, leg>> \in TransferIds
  BY DEF HoldConsumedOnce, TransferIds
<1>s. ASSUME \A leg \in {"hold", "post", "void"} : transfers'[<<s, leg>>] = transfers[<<s, leg>>]
      PROVE  Once'
  BY <1>0, <1>s DEF Exists, IsPending
<1>1. ASSUME NEW new \in SUBSET Accounts, CreateAccounts(new) PROVE Once'
  BY <1>s, <1>1 DEF CreateAccounts
<1>2. ASSUME NEW q \in Seeds, NEW d \in Accounts, NEW c \in Accounts, NEW amt \in Amounts,
             Transfer(q, d, c, amt)
      PROVE  Once'
  <2>1. \A leg \in {"hold", "post", "void"} : transfers'[<<s, leg>>] = transfers[<<s, leg>>]
    BY <1>0, <1>2 DEF Transfer, TypeOK, Legs
  <2> QED BY <1>s, <2>1
<1>3. ASSUME NEW q \in Seeds, NEW d \in Accounts, NEW c \in Accounts, NEW amt \in Amounts,
             PendingTransfer(q, d, c, amt)
      PROVE  Once'
  <2>1. CASE q # s
    <3>1. \A leg \in {"hold", "post", "void"} : transfers'[<<s, leg>>] = transfers[<<s, leg>>]
      BY <1>0, <1>3, <2>1 DEF PendingTransfer, TypeOK, Legs
    <3> QED BY <1>s, <3>1
  <2>2. CASE q = s
    <3>1. \A leg \in {"post", "void"} : transfers'[<<s, leg>>] = transfers[<<s, leg>>]
      BY <1>0, <1>3, <2>2 DEF PendingTransfer, TypeOK, Legs
    <3>2. ~Exists(<<s, "post">>) /\ ~Exists(<<s, "void">>)
      BY <1>0, <1>3, <2>2 DEF PendingTransfer
    <3> QED BY <3>1, <3>2 DEF Exists
  <2> QED BY <2>1, <2>2
<1>4. ASSUME NEW q \in Seeds, NEW leg \in {"post", "void"}, NEW posted,
             IsPending(<<q, "hold">>), Consume(q, leg, posted)
      PROVE  Once'
  <2>1. CASE q # s
    <3>1. \A l \in {"hold", "post", "void"} : transfers'[<<s, l>>] = transfers[<<s, l>>]
      BY <1>0, <1>4, <2>1, ConsumeMap DEF Legs
    <3> QED BY <1>s, <3>1
  <2>2. CASE q = s
    <3>1. ~Exists(<<s, "post">>) /\ ~Exists(<<s, "void">>)
      BY <1>4, <2>2, PendingUnconsumed
    <3>2. /\ transfers'[<<s, "hold">>] # NoTransfer
          /\ transfers'[<<s, "hold">>].pending = FALSE
          /\ \A l \in {"post", "void"} : l # leg => transfers'[<<s, l>>] = transfers[<<s, l>>]
      BY <1>0, <1>4, <2>2, ConsumeMap DEF Legs
    <3> QED BY <3>1, <3>2 DEF Exists, IsPending
  <2> QED BY <2>1, <2>2
<1>5. ASSUME NEW q \in Seeds, NEW request \in Amounts, PostPendingAs(q, request) PROVE Once'
  BY <1>4, <1>5 DEF PostPendingAs
<1>6. ASSUME NEW q \in Seeds, VoidPending(q) PROVE Once'
  BY <1>4, <1>6 DEF VoidPending
<1>7. CASE UNCHANGED vars
  BY <1>s, <1>7 DEF vars
<1> QED BY <1>1, <1>2, <1>3, <1>5, <1>6, <1>7 DEF Next

\* A hold is posted or voided at most once and never both, whoever else is
\* working on it: PostPendingAs and VoidPending test the Pending flag and
\* clear it under the ledger's lock.
THEOREM HoldsConsumedOnce == Spec => []HoldConsumedOnce
BY TypeInit, TypeStep, HoldInit, HoldStep, PTL DEF Spec

\* One step keeps the history, when holds are consumed once.
LEMMA HistoryStep ==
  TypeOK /\ HoldConsumedOnce /\ [Next]_vars =>
    \A id \in TransferIds :
      Exists(id) => /\ transfers'[id] # NoTransfer
                    /\ ~transfers[id].pending => transfers'[id] = transfers[id]
<1> SUFFICES ASSUME TypeOK, HoldConsumedOnce, [Next]_vars,
                    NEW id \in TransferIds, Exists(id)
             PROVE  /\ transfers'[id] # NoTransfer
                    /\ ~transfers[id].pending => transfers'[id] = transfers[id]
  OBVIOUS
<1> DEFINE Kept == /\ transfers'[id] # NoTransfer
                   /\ ~transfers[id].pending => transfers'[id] = transfers[id]
<1>s. ASSUME transfers'[id] = transfers[id] PROVE Kept
  BY <1>s DEF Exists
<1>1. ASSUME NEW new \in SUBSET Accounts, CreateAccounts(new) PROVE Kept
  BY <1>s, <1>1 DEF CreateAccounts
<1>2. ASSUME NEW s \in Seeds, NEW d \in Accounts, NEW c \in Accounts, NEW amt \in Amounts,
             Transfer(s, d, c, amt) \/ PendingTransfer(s, d, c, amt)
      PROVE  Kept
  <2>1. transfers'[id] = transfers[id]
    BY <1>2 DEF Transfer, PendingTransfer, TypeOK
  <2> QED BY <1>s, <2>1
<1>3. ASSUME NEW s \in Seeds, NEW leg \in {"post", "void"}, NEW posted,
             IsPending(<<s, "hold">>), Consume(s, leg, posted)
      PROVE  Kept
  <2>1. id # <<s, leg>>
    BY <1>3, PendingUnconsumed
  <2>2. CASE id = <<s, "hold">>
    BY <1>3, <2>2, ConsumeMap DEF IsPending
  <2>3. CASE id # <<s, "hold">>
    BY <1>s, <1>3, <2>1, <2>3, ConsumeMap
  <2> QED BY <2>2, <2>3
<1>4. ASSUME NEW s \in Seeds, NEW request \in Amounts, PostPendingAs(s, request) PROVE Kept
  BY <1>3, <1>4 DEF PostPendingAs
<1>5. ASSUME NEW s \in Seeds, VoidPending(s) PROVE Kept
  BY <1>3, <1>5 DEF VoidPending
<1>6. CASE UNCHANGED vars
  BY <1>s, <1>6 DEF vars
<1> QED BY <1>1, <1>2, <1>4, <1>5, <1>6 DEF Next

\* No operation removes a transfer or rewrites a posted one: the replay test
\* on client-supplied ids and the single consumption of holds make the
\* transfer map append-only.
THEOREM HistoryIsKept == Spec => HistoryKept
<1>1. TypeOK /\ HoldConsumedOnce /\ [Next]_vars =>
        [\A id \in TransferIds :
           Exists(id) => /\ transfers'[id] # NoTransfer
                         /\ ~transfers[id].pending => transfers'[id] = transfers[id]]_vars
  BY HistoryStep
<1> QED BY <1>1, TypeCorrect, HoldsConsumedOnce, PTL DEF Spec, HistoryKept

-----------------------------------------------------------------------------
(* The audit equations.  The four counters of a balance are treated alike: *)
(* a counter is a kind ("open" holds or "done" transfers) and a side.      *)

Kinds == {"open", "done"}
Sides == {"debit", "credit"}

\* The account on one side of a transfer.
End(side, d, c) == IF side = "debit" THEN d ELSE c
On(r, side) == End(side, r.debit, r.credit)

\* A transfer recorded under a leg counts as an open hold, or as done.
Counts(k, leg, pend) ==
  IF k = "open" THEN leg \in {"hold"} /\ pend = TRUE
                ELSE leg \in {"direct", "post"} /\ pend = FALSE

\* The transfers of a map t that one counter of account a is the sum of.
Entries(t, k, side, a) ==
  {id \in TransferIds : t[id] # NoTransfer /\ Counts(k, id[2], t[id].pending) /\ On(t[id], side) = a}

Total(t, ids) == SumOver([id \in ids |-> t[id].amount], ids)

Counter(b, k, side) ==
  IF k = "open" THEN IF side = "debit" THEN b.debitsPending ELSE b.creditsPending
                ELSE IF side = "debit" THEN b.debitsPosted ELSE b.creditsPosted

Audited(k) ==
  \A side \in Sides, a \in Accounts :
    Counter(balances[a], k, side) = Total(transfers, Entries(transfers, k, side, a))

\* An account that is not open has no balance: opening it moves nothing.
UnopenedEmpty == \A a \in Accounts \ accounts : balances[a] = ZeroBalance

\* The two audit equations are the two kinds of counter.
LEMMA AuditOpen == Audited("open") <=> PendingMatchesHolds
<1>1. \A a : Entries(transfers, "open", "debit", a)
               = {id \in Recorded({"hold"}, TRUE) : transfers[id].debit = a}
  BY DEF Entries, Recorded, Exists, On, End, Counts
<1>2. \A a : Entries(transfers, "open", "credit", a)
               = {id \in Recorded({"hold"}, TRUE) : transfers[id].credit = a}
  BY DEF Entries, Recorded, Exists, On, End, Counts
<1>3. \A ids : Total(transfers, ids) = SumAmounts(ids)
  BY Zenon DEF Total, SumAmounts
<1>4. \A b : Counter(b, "open", "debit") = b.debitsPending /\ Counter(b, "open", "credit") = b.creditsPending
  BY DEF Counter
<1>5. Audited("open") <=>
        \A a \in Accounts :
          /\ balances[a].debitsPending = Total(transfers, Entries(transfers, "open", "debit", a))
          /\ balances[a].creditsPending = Total(transfers, Entries(transfers, "open", "credit", a))
  BY <1>4 DEF Audited, Sides
<1>6. PendingMatchesHolds <=>
        \A a \in Accounts :
          /\ balances[a].debitsPending
               = SumAmounts({id \in Recorded({"hold"}, TRUE) : transfers[id].debit = a})
          /\ balances[a].creditsPending
               = SumAmounts({id \in Recorded({"hold"}, TRUE) : transfers[id].credit = a})
  BY Zenon DEF PendingMatchesHolds
<1>7. ASSUME NEW a
      PROVE  /\ Total(transfers, Entries(transfers, "open", "debit", a))
                  = SumAmounts({id \in Recorded({"hold"}, TRUE) : transfers[id].debit = a})
             /\ Total(transfers, Entries(transfers, "open", "credit", a))
                  = SumAmounts({id \in Recorded({"hold"}, TRUE) : transfers[id].credit = a})
  BY <1>1, <1>2, <1>3, Zenon
<1>. QED BY <1>5, <1>6, <1>7, Zenon

LEMMA AuditDone == Audited("done") <=> PostedMatchesRecords
<1>1. \A a : Entries(transfers, "done", "debit", a)
               = {id \in Recorded({"direct", "post"}, FALSE) : transfers[id].debit = a}
  BY DEF Entries, Recorded, Exists, On, End, Counts
<1>2. \A a : Entries(transfers, "done", "credit", a)
               = {id \in Recorded({"direct", "post"}, FALSE) : transfers[id].credit = a}
  BY DEF Entries, Recorded, Exists, On, End, Counts
<1>3. \A ids : Total(transfers, ids) = SumAmounts(ids)
  BY Zenon DEF Total, SumAmounts
<1>4. \A b : Counter(b, "done", "debit") = b.debitsPosted /\ Counter(b, "done", "credit") = b.creditsPosted
  BY DEF Counter
<1>5. Audited("done") <=>
        \A a \in Accounts :
          /\ balances[a].debitsPosted = Total(transfers, Entries(transfers, "done", "debit", a))
          /\ balances[a].creditsPosted = Total(transfers, Entries(transfers, "done", "credit", a))
  BY <1>4 DEF Audited, Sides
<1>6. PostedMatchesRecords <=>
        \A a \in Accounts :
          /\ balances[a].debitsPosted
               = SumAmounts({id \in Recorded({"direct", "post"}, FALSE) : transfers[id].debit = a})
          /\ balances[a].creditsPosted
               = SumAmounts({id \in Recorded({"direct", "post"}, FALSE) : transfers[id].credit = a})
  BY Zenon DEF PostedMatchesRecords
<1>7. ASSUME NEW a
      PROVE  /\ Total(transfers, Entries(transfers, "done", "debit", a))
                  = SumAmounts({id \in Recorded({"direct", "post"}, FALSE) : transfers[id].debit = a})
             /\ Total(transfers, Entries(transfers, "done", "credit", a))
                  = SumAmounts({id \in Recorded({"direct", "post"}, FALSE) : transfers[id].credit = a})
  BY <1>1, <1>2, <1>3, Zenon
<1>. QED BY <1>5, <1>6, <1>7, Zenon

\* There are finitely many transfer ids.
LEMMA IdsFinite == \A S \in SUBSET TransferIds : IsFiniteSet(S)
<1>1. IsFiniteSet({}) /\ {} \cup {"direct"} = {"direct"}
  BY FS_EmptySet
<1>2. IsFiniteSet({} \cup {"direct"})
  BY <1>1, FS_AddElement
<1>3. IsFiniteSet({"direct"} \cup {"hold"})
  BY <1>1, <1>2, FS_AddElement
<1>4. IsFiniteSet(({"direct"} \cup {"hold"}) \cup {"post"})
  BY <1>3, FS_AddElement
<1>5. IsFiniteSet((({"direct"} \cup {"hold"}) \cup {"post"}) \cup {"void"})
  BY <1>4, FS_AddElement
<1>6. Legs = (({"direct"} \cup {"hold"}) \cup {"post"}) \cup {"void"}
  BY DEF Legs
<1>7. IsFiniteSet(Legs)
  BY <1>5, <1>6
<1>8. IsFiniteSet(TransferIds)
  BY <1>7, SeedsFinite, FS_Product DEF TransferIds
<1>. QED BY <1>8, FS_Subset

\* The total with an entry taken out.
LEMMA TotalWithout ==
  ASSUME NEW t, NEW B \in SUBSET TransferIds, \A id \in B : t[id].amount \in Int,
         NEW y
  PROVE  /\ Total(t, B \ {y}) \in Int
         /\ y \in B => Total(t, B) = Total(t, B \ {y}) + t[y].amount
         /\ y \notin B => Total(t, B) = Total(t, B \ {y})
<1> DEFINE R == B \ {y}
<1> DEFINE v == [id \in B |-> t[id].amount]
<1> DEFINE w == [id \in R |-> t[id].amount]
<1>1. IsFiniteSet(R)
  BY IdsFinite
<1>2. \A x \in R : w[x] \in Int /\ w[x] = v[x]
  OBVIOUS
<1>3. Total(t, R) = SumOver(w, R) /\ Total(t, B) = SumOver(v, B)
  BY Zenon DEF Total
<1>4. SumOver(w, R) \in Int
  <2> HIDE DEF w, v, R
  <2>. QED BY <1>1, <1>2, SumCongruent
<1>5. ASSUME y \in B PROVE Total(t, B) = Total(t, R) + t[y].amount
  <2>1. R \cup {y} = B /\ y \notin R
    BY <1>5
  <2>2. v[y] = t[y].amount /\ v[y] \in Int
    BY <1>5
  <2>3. SumOver(v, R \cup {y}) = SumOver(w, R) + v[y]
    <3> HIDE DEF w, v, R
    <3>. QED BY <1>1, <1>2, <2>1, <2>2, SumGains
  <2>4. SumOver(v, B) = SumOver(w, R) + v[y]
    <3> HIDE DEF w, v, R
    <3>. QED BY <2>1, <2>3, Zenon
  <2>. HIDE DEF w, v, R
  <2>. QED BY <1>3, <2>2, <2>4
<1>6. ASSUME y \notin B PROVE Total(t, B) = Total(t, R)
  <2>1. R = B
    BY <1>6
  <2>. HIDE DEF R
  <2>. QED BY <2>1, Zenon
<1>. QED BY <1>3, <1>4, <1>5, <1>6

\* The entries B of a map t and C of a map u are the same but for y.
SameBut(t, B, u, C, y) ==
  /\ B \in SUBSET TransferIds
  /\ C \in SUBSET TransferIds
  /\ \A id \in B : t[id].amount \in Int
  /\ \A id \in C : u[id].amount \in Int
  /\ \A id \in TransferIds \ {y} : id \in B <=> id \in C
  /\ \A id \in B \ {y} : u[id].amount = t[id].amount

\* Their totals differ by what y adds to each.
TotalsDiffer(t, B, u, C, y) ==
  /\ Total(t, B) \in Int
  /\ Total(u, C) = Total(t, B) - (IF y \in B THEN t[y].amount ELSE 0)
                               + (IF y \in C THEN u[y].amount ELSE 0)

LEMMA TotalStep ==
  ASSUME NEW t, NEW u, NEW B, NEW C, NEW y, SameBut(t, B, u, C, y)
  PROVE  TotalsDiffer(t, B, u, C, y)
<1> USE DEF SameBut
<1>1. /\ Total(t, B \ {y}) \in Int
      /\ y \in B => Total(t, B) = Total(t, B \ {y}) + t[y].amount
      /\ y \notin B => Total(t, B) = Total(t, B \ {y})
  BY TotalWithout
<1>2. /\ y \in C => Total(u, C) = Total(u, C \ {y}) + u[y].amount
      /\ y \notin C => Total(u, C) = Total(u, C \ {y})
  BY TotalWithout
<1>3. C \ {y} = B \ {y}
  OBVIOUS
<1>4. Total(u, B \ {y}) = Total(t, B \ {y})
  <2>1. [id \in B \ {y} |-> u[id].amount] = [id \in B \ {y} |-> t[id].amount]
    OBVIOUS
  <2>. QED BY <2>1, Zenon DEF Total
<1>5. Total(u, C \ {y}) = Total(t, B \ {y})
  BY <1>3, <1>4, Zenon
<1>6. PICK m : m = Total(t, B \ {y})
  OBVIOUS
<1>7. /\ m \in Int
      /\ y \in B => Total(t, B) = m + t[y].amount
      /\ y \notin B => Total(t, B) = m
      /\ y \in C => Total(u, C) = m + u[y].amount
      /\ y \notin C => Total(u, C) = m
  BY <1>1, <1>2, <1>5, <1>6, Zenon
<1>8. (y \in B => t[y].amount \in Int) /\ (y \in C => u[y].amount \in Int)
  OBVIOUS
<1>. QED BY <1>7, <1>8 DEF TotalsDiffer

\* The amount of an entry of a well-typed map is a number.
LEMMA EntryAmounts ==
  ASSUME TypeOK, NEW k, NEW side, NEW a
  PROVE  /\ Entries(transfers, k, side, a) \in SUBSET TransferIds
         /\ \A id \in Entries(transfers, k, side, a) : transfers[id].amount \in Int
<1>1. Entries(transfers, k, side, a) \in SUBSET TransferIds
  BY DEF Entries
<1>2. ASSUME NEW id \in Entries(transfers, k, side, a) PROVE transfers[id].amount \in Int
  <2>1. id \in TransferIds /\ Exists(id)
    BY DEF Entries, Exists
  <2>2. transfers[id] \in TransferRecords
    BY <2>1, ExistsTyped
  <2>. QED BY <2>2, MaxAmountAssumption DEF TransferRecords, Amounts
<1>. QED BY <1>1, <1>2

LEMMA EntryAmountsPrimed ==
  ASSUME TypeOK', NEW k, NEW side, NEW a
  PROVE  /\ Entries(transfers', k, side, a) \in SUBSET TransferIds
         /\ \A id \in Entries(transfers', k, side, a) : transfers'[id].amount \in Int
<1>1. Entries(transfers', k, side, a) \in SUBSET TransferIds
  BY DEF Entries
<1>2. ASSUME NEW id \in Entries(transfers', k, side, a) PROVE transfers'[id].amount \in Int
  <2>1. id \in TransferIds /\ transfers'[id] # NoTransfer
    BY DEF Entries
  <2>2. transfers'[id] \in TransferRecords
    BY <2>1 DEF TypeOK
  <2>. QED BY <2>2, MaxAmountAssumption DEF TransferRecords, Amounts
<1>. QED BY <1>1, <1>2

\* What a move does to one counter of one account.
MoveOf(k, side, a, d, c, posted, held) ==
  IF a = End(side, d, c)
  THEN (IF k = "open" THEN held ELSE posted)
  ELSE 0

LEMMA CounterMoved ==
  ASSUME TypeOK, NEW k \in Kinds, NEW side \in Sides, NEW a \in Accounts,
         NEW d, NEW c, NEW posted, NEW held
  PROVE  /\ Counter(balances[a], k, side) \in Int
         /\ Counter(Moved(d, c, posted, held)[a], k, side)
              = Counter(balances[a], k, side) + MoveOf(k, side, a, d, c, posted, held)
<1>1. Counter(balances[a], k, side) \in Int
  BY BalanceNumbers DEF Counter, Kinds, Sides
<1>2. PICK M : M = Moved(d, c, posted, held)
  OBVIOUS
<1>3. /\ M[a].debitsPosted = balances[a].debitsPosted + (IF a = d THEN posted ELSE 0)
      /\ M[a].creditsPosted = balances[a].creditsPosted + (IF a = c THEN posted ELSE 0)
      /\ M[a].debitsPending = balances[a].debitsPending + (IF a = d THEN held ELSE 0)
      /\ M[a].creditsPending = balances[a].creditsPending + (IF a = c THEN held ELSE 0)
  BY <1>2, MovedAt
<1>4. Counter(M[a], k, side) = Counter(balances[a], k, side) + MoveOf(k, side, a, d, c, posted, held)
  BY <1>3 DEF Counter, MoveOf, End, Kinds, Sides
<1>. QED BY <1>1, <1>2, <1>4

\* A step that changes the entries of one counter at y alone, and moves the
\* counter by what y adds to them.
MovedAsRecorded(k, side, a, d, c, posted, held, y) ==
  /\ \A id \in TransferIds \ {y} :
       id \in Entries(transfers, k, side, a) <=> id \in Entries(transfers', k, side, a)
  /\ \A id \in Entries(transfers, k, side, a) \ {y} :
       transfers'[id].amount = transfers[id].amount
  /\ MoveOf(k, side, a, d, c, posted, held) =
       (IF y \in Entries(transfers', k, side, a) THEN transfers'[y].amount ELSE 0)
       - (IF y \in Entries(transfers, k, side, a) THEN transfers[y].amount ELSE 0)

\* Such a step keeps the audit equation.
LEMMA AuditOneEntry ==
  ASSUME TypeOK, TypeOK', NEW k \in Kinds, Audited(k),
         NEW d, NEW c, NEW posted, NEW held, balances' = Moved(d, c, posted, held),
         NEW y,
         \A side \in Sides, a \in Accounts :
           MovedAsRecorded(k, side, a, d, c, posted, held, y)
  PROVE  Audited(k)'
<1>1. ASSUME NEW side \in Sides, NEW a \in Accounts
      PROVE  Counter(balances'[a], k, side) = Total(transfers', Entries(transfers', k, side, a))
  <2>0. MovedAsRecorded(k, side, a, d, c, posted, held, y)
    OBVIOUS
  <2>1. PICK B, C : B = Entries(transfers, k, side, a) /\ C = Entries(transfers', k, side, a)
    OBVIOUS
  <2>2. B \in SUBSET TransferIds /\ \A id \in B : transfers[id].amount \in Int
    BY <2>1, EntryAmounts
  <2>3. C \in SUBSET TransferIds /\ \A id \in C : transfers'[id].amount \in Int
    BY <2>1, EntryAmountsPrimed
  <2>4. PICK t, u : t = transfers /\ u = transfers'
    OBVIOUS
  <2>5. /\ Total(t, B) \in Int
        /\ Total(u, C) = Total(t, B) - (IF y \in B THEN t[y].amount ELSE 0)
                                     + (IF y \in C THEN u[y].amount ELSE 0)
    <3>1. \A id \in B : t[id].amount \in Int
      BY <2>2, <2>4
    <3>2. \A id \in C : u[id].amount \in Int
      BY <2>3, <2>4
    <3>3. \A id \in TransferIds \ {y} : id \in B <=> id \in C
      BY <2>0, <2>1 DEF MovedAsRecorded
    <3>4. \A id \in B \ {y} : u[id].amount = t[id].amount
      BY <2>0, <2>1, <2>4 DEF MovedAsRecorded
    <3>5. B \in SUBSET TransferIds /\ C \in SUBSET TransferIds
      BY <2>2, <2>3
    <3>6. SameBut(t, B, u, C, y)
      BY <3>1, <3>2, <3>3, <3>4, <3>5 DEF SameBut
    <3>7. TotalsDiffer(t, B, u, C, y)
      BY <3>6, TotalStep, Zenon
    <3>. QED BY <3>7 DEF TotalsDiffer
  <2>6. PICK p, q : p = Counter(balances[a], k, side) /\ q = Counter(balances'[a], k, side)
    OBVIOUS
  <2>7. p \in Int /\ q = p + MoveOf(k, side, a, d, c, posted, held)
    BY <2>6, CounterMoved
  <2>8. p = Total(t, B)
    BY <2>1, <2>4, <2>6, Zenon DEF Audited
  <2>9. q = p + ((IF y \in C THEN u[y].amount ELSE 0) - (IF y \in B THEN t[y].amount ELSE 0))
    BY <2>0, <2>1, <2>4, <2>7 DEF MovedAsRecorded
  <2>10. (y \in C => u[y].amount \in Int) /\ (y \in B => t[y].amount \in Int)
    BY <2>2, <2>3, <2>4
  <2>11. PICK m, n : m = Total(t, B) /\ n = Total(u, C)
    OBVIOUS
  <2>12. q = n
    BY <2>5, <2>7, <2>8, <2>9, <2>10, <2>11
  <2>. QED BY <2>1, <2>4, <2>6, <2>11, <2>12, Zenon
<1>. QED BY <1>1, Zenon DEF Audited

\* An id whose record does not change is an entry before and after, or neither;
\* and an id of a leg that does not count towards a kind is never an entry.
LEMMA EntrySame ==
  ASSUME NEW k \in Kinds, NEW side, NEW a, NEW id \in TransferIds,
         \/ transfers'[id] = transfers[id]
         \/ k = "open" /\ id[2] # "hold"
         \/ k = "done" /\ id[2] \notin {"direct", "post"}
  PROVE  /\ id \in Entries(transfers, k, side, a) <=> id \in Entries(transfers', k, side, a)
         /\ id \in Entries(transfers, k, side, a) => transfers'[id].amount = transfers[id].amount
<1>1. CASE transfers'[id] = transfers[id]
  BY <1>1, Zenon DEF Entries
<1>2. CASE k = "open" /\ id[2] # "hold"
  BY <1>2 DEF Entries, Counts
<1>3. CASE k = "done" /\ id[2] \notin {"direct", "post"}
  BY <1>3 DEF Entries, Counts, Kinds
<1>. QED BY <1>1, <1>2, <1>3

\* A record entered at y counts towards the kind of its leg, with its amount.
EnteredAs(k, side, a, y, d, c, amt, pend) ==
  /\ y \in Entries(transfers', k, side, a) <=>
       Counts(k, y[2], pend) /\ a = End(side, d, c)
  /\ transfers'[y].amount = amt

LEMMA EntryNew ==
  ASSUME NEW k, NEW side, NEW a, NEW y \in TransferIds,
         NEW d, NEW c, NEW amt, NEW pend,
         transfers'[y] = Record(d, c, amt, pend)
  PROVE  EnteredAs(k, side, a, y, d, c, amt, pend)
<1>2. PICK r : r = Record(d, c, amt, pend)
  OBVIOUS
<1>3. r.debit = d /\ r.credit = c /\ r.amount = amt /\ r.pending = pend /\ r # NoTransfer
  BY <1>2, RecordExists DEF Record
<1>4. transfers'[y] = r
  BY <1>2
<1>5. On(r, side) = End(side, d, c)
  BY <1>3 DEF On
<1>6. y \in Entries(transfers', k, side, a) <=> Counts(k, y[2], r.pending) /\ On(r, side) = a
  BY <1>3, <1>4 DEF Entries
<1>. QED BY <1>3, <1>4, <1>5, <1>6, Zenon DEF EnteredAs

\* Transfer and PendingTransfer record what they move.
LEMMA AuditRecorded ==
  ASSUME TypeOK, TypeOK', NEW k \in Kinds, Audited(k),
         NEW s \in Seeds, NEW leg \in {"direct", "hold"}, ~Exists(<<s, leg>>),
         NEW d \in Accounts, NEW c \in Accounts, NEW amt \in Amounts,
         transfers' = [transfers EXCEPT ![<<s, leg>>] = Record(d, c, amt, leg = "hold")],
         balances' = Moved(d, c, IF leg = "hold" THEN 0 ELSE amt, IF leg = "hold" THEN amt ELSE 0)
  PROVE  Audited(k)'
<1> DEFINE y == <<s, leg>>
<1>1. y \in TransferIds /\ y[2] = leg
  BY DEF TransferIds, Legs
<1>2. amt \in Int
  BY MaxAmountAssumption DEF Amounts
<1>3. transfers'[y] = Record(d, c, amt, leg = "hold")
  BY <1>1 DEF TypeOK
<1>4. \A id \in TransferIds \ {y} : transfers'[id] = transfers[id]
  BY DEF TypeOK
<1>5. PICK pend \in BOOLEAN : pend = (leg = "hold")
  OBVIOUS
<1>6. PICK posted, held : /\ posted = (IF leg = "hold" THEN 0 ELSE amt)
                          /\ held = (IF leg = "hold" THEN amt ELSE 0)
  OBVIOUS
<1>7. balances' = Moved(d, c, posted, held)
  BY <1>6
<1>8. ASSUME NEW side \in Sides, NEW a \in Accounts
      PROVE  MovedAsRecorded(k, side, a, d, c, posted, held, y)
  <2>1. \A id \in TransferIds \ {y} :
          id \in Entries(transfers, k, side, a) <=> id \in Entries(transfers', k, side, a)
    BY <1>4, EntrySame
  <2>2. \A id \in Entries(transfers, k, side, a) \ {y} : transfers'[id].amount = transfers[id].amount
    BY <1>4 DEF Entries
  <2>3. y \notin Entries(transfers, k, side, a)
    BY DEF Entries, Exists
  <2>4. transfers'[y] = Record(d, c, amt, pend)
    BY <1>3, <1>5
  <2>5. /\ y \in Entries(transfers', k, side, a) <=> Counts(k, leg, pend) /\ a = End(side, d, c)
        /\ transfers'[y].amount = amt
    <3> HIDE DEF y
    <3>1. EnteredAs(k, side, a, y, d, c, amt, pend)
      BY <1>1, <2>4, EntryNew, Zenon
    <3>. QED BY <1>1, <3>1, Zenon DEF EnteredAs
  <2>6. Counts(k, leg, pend) <=> k = (IF leg = "hold" THEN "open" ELSE "done")
    <3>1. CASE leg = "hold"
      BY <1>5, <3>1 DEF Kinds, Counts
    <3>2. CASE leg = "direct"
      BY <1>5, <3>2 DEF Kinds, Counts
    <3>. QED BY <3>1, <3>2
  <2>7. MoveOf(k, side, a, d, c, posted, held) =
          IF y \in Entries(transfers', k, side, a) THEN amt ELSE 0
    BY <1>6, <2>5, <2>6 DEF MoveOf, Kinds
  <2> HIDE DEF y
  <2>8. MoveOf(k, side, a, d, c, posted, held) =
          (IF y \in Entries(transfers', k, side, a) THEN transfers'[y].amount ELSE 0)
          - (IF y \in Entries(transfers, k, side, a) THEN transfers[y].amount ELSE 0)
    BY <1>2, <2>3, <2>5, <2>7
  <2>. QED BY <2>1, <2>2, <2>8, Zenon DEF MovedAsRecorded
<1> HIDE DEF y
<1>. QED BY <1>7, <1>8, AuditOneEntry, Zenon

\* PostPendingAs and VoidPending take the hold out of the open ones, and
\* record what they post.
LEMMA AuditConsumed ==
  ASSUME TypeOK, TypeOK', HoldConsumedOnce, NEW k \in Kinds, Audited(k),
         NEW s \in Seeds, NEW leg \in {"post", "void"}, NEW posted \in Nat,
         leg = "void" => posted = 0, IsPending(<<s, "hold">>), Consume(s, leg, posted)
  PROVE  Audited(k)'
<1> DEFINE h == <<s, "hold">>
<1> DEFINE y == <<s, leg>>
<1>1. h \in TransferIds /\ y \in TransferIds /\ h[2] = "hold" /\ y[2] = leg /\ h # y
  BY DEF TransferIds, Legs
<1>2. PICK pt : pt = transfers[h]
  OBVIOUS
<1>3. pt.amount \in Nat /\ pt \in TransferRecords
  BY <1>2, ConsumeNumbers
<1>4. PICK d, c, held : d = pt.debit /\ c = pt.credit /\ held = -pt.amount
  OBVIOUS
<1>5. balances' = Moved(d, c, posted, held)
  BY <1>2, <1>4 DEF Consume
<1>6. PICK left : transfers'[h] = Record(d, c, left, FALSE)
  BY <1>1, <1>2, <1>4 DEF Consume, TypeOK
<1>7. transfers'[y] = Record(d, c, IF leg = "post" THEN posted ELSE pt.amount, FALSE)
  BY <1>1, <1>2, <1>4 DEF Consume, TypeOK
<1>8. \A id \in TransferIds \ {h, y} : transfers'[id] = transfers[id]
  BY ConsumeMap
<1>9. ~Exists(y)
  BY PendingUnconsumed
<1>10. pt # NoTransfer /\ pt.pending
  BY <1>2 DEF IsPending, Exists
<1> HIDE DEF h, y
<1>11. CASE k = "open"
  <2>1. ASSUME NEW side \in Sides, NEW a \in Accounts
        PROVE  MovedAsRecorded(k, side, a, d, c, posted, held, h)
    <3>1. ASSUME NEW id \in TransferIds \ {h}
          PROVE  /\ id \in Entries(transfers, k, side, a) <=> id \in Entries(transfers', k, side, a)
                 /\ id \in Entries(transfers, k, side, a) => transfers'[id].amount = transfers[id].amount
      <4>1. transfers'[id] = transfers[id] \/ (k = "open" /\ id[2] # "hold")
        BY <1>1, <1>8, <1>11
      <4>. QED BY <4>1, EntrySame
    <3>2. h \in Entries(transfers, k, side, a) <=> a = End(side, d, c)
      <4>1. Counts(k, h[2], pt.pending)
        BY <1>1, <1>3, <1>10, <1>11 DEF Counts, TransferRecords
      <4>2. On(pt, side) = End(side, d, c)
        BY <1>4 DEF On
      <4>. QED BY <1>1, <1>2, <1>10, <4>1, <4>2 DEF Entries
    <3>3. h \notin Entries(transfers', k, side, a)
      <4>1. EnteredAs(k, side, a, h, d, c, left, FALSE)
        BY <1>1, <1>6, EntryNew, Zenon
      <4>2. ~Counts(k, h[2], FALSE)
        BY <1>11 DEF Counts
      <4>. QED BY <4>1, <4>2, Zenon DEF EnteredAs
    <3>4. MoveOf(k, side, a, d, c, posted, held) = IF a = End(side, d, c) THEN -pt.amount ELSE 0
      BY <1>4, <1>11 DEF MoveOf
    <3>5. MoveOf(k, side, a, d, c, posted, held) =
            (IF h \in Entries(transfers', k, side, a) THEN transfers'[h].amount ELSE 0)
            - (IF h \in Entries(transfers, k, side, a) THEN transfers[h].amount ELSE 0)
      BY <1>2, <1>3, <3>2, <3>3, <3>4
    <3>6. \A id \in Entries(transfers, k, side, a) \ {h} : transfers'[id].amount = transfers[id].amount
      BY <3>1 DEF Entries
    <3>. QED BY <3>1, <3>5, <3>6, Zenon DEF MovedAsRecorded
  <2>. QED BY <1>5, <2>1, AuditOneEntry, Zenon
<1>12. CASE k = "done"
  <2>1. ASSUME NEW side \in Sides, NEW a \in Accounts
        PROVE  MovedAsRecorded(k, side, a, d, c, posted, held, y)
    <3>1. ASSUME NEW id \in TransferIds \ {y}
          PROVE  /\ id \in Entries(transfers, k, side, a) <=> id \in Entries(transfers', k, side, a)
                 /\ id \in Entries(transfers, k, side, a) => transfers'[id].amount = transfers[id].amount
      <4>1. transfers'[id] = transfers[id] \/ (k = "done" /\ id[2] \notin {"direct", "post"})
        BY <1>1, <1>8, <1>12
      <4>. QED BY <4>1, EntrySame
    <3>2. y \notin Entries(transfers, k, side, a)
      BY <1>9 DEF Entries, Exists
    <3>3. /\ y \in Entries(transfers', k, side, a) <=> leg = "post" /\ a = End(side, d, c)
          /\ leg = "post" => transfers'[y].amount = posted
      <4>1. PICK amt : amt = IF leg = "post" THEN posted ELSE pt.amount
        OBVIOUS
      <4>2. EnteredAs(k, side, a, y, d, c, amt, FALSE)
        BY <1>1, <1>7, <4>1, EntryNew, Zenon
      <4>3. Counts(k, leg, FALSE) <=> leg = "post"
        BY <1>12 DEF Counts
      <4>4. /\ y \in Entries(transfers', k, side, a) <=> leg = "post" /\ a = End(side, d, c)
            /\ transfers'[y].amount = amt
        BY <1>1, <4>2, <4>3, Zenon DEF EnteredAs
      <4>. QED BY <4>1, <4>4
    <3>4. MoveOf(k, side, a, d, c, posted, held) = IF a = End(side, d, c) THEN posted ELSE 0
      BY <1>12 DEF MoveOf
    <3>5. MoveOf(k, side, a, d, c, posted, held) =
            (IF y \in Entries(transfers', k, side, a) THEN transfers'[y].amount ELSE 0)
            - (IF y \in Entries(transfers, k, side, a) THEN transfers[y].amount ELSE 0)
      BY <3>2, <3>3, <3>4
    <3>6. \A id \in Entries(transfers, k, side, a) \ {y} : transfers'[id].amount = transfers[id].amount
      BY <3>1 DEF Entries
    <3>. QED BY <3>1, <3>5, <3>6, Zenon DEF MovedAsRecorded
  <2>. QED BY <1>5, <2>1, AuditOneEntry, Zenon
<1>. QED BY <1>11, <1>12 DEF Kinds

\* The audit equations hold of the empty ledger.
LEMMA AuditInit == Init => Audited("open") /\ Audited("done") /\ UnopenedEmpty
<1> SUFFICES ASSUME Init PROVE Audited("open") /\ Audited("done") /\ UnopenedEmpty
  OBVIOUS
<1>1. \A k, side, a : Entries(transfers, k, side, a) = {}
  BY DEF Init, Entries
<1>2. Total(transfers, {}) = 0
  BY SumEmpty DEF Total
<1>3. ASSUME NEW k, NEW side, NEW a PROVE Total(transfers, Entries(transfers, k, side, a)) = 0
  BY <1>1, <1>2, Zenon
<1>4. ASSUME NEW k, NEW side, NEW a \in Accounts PROVE Counter(balances[a], k, side) = 0
  BY DEF Init, ZeroBalance, Counter
<1>5. Audited("open") /\ Audited("done")
  BY <1>3, <1>4, Zenon DEF Audited
<1>. QED BY <1>5 DEF Init, UnopenedEmpty

\* A step that changes neither the balances nor the transfers.
LEMMA AuditUnchanged ==
  ASSUME NEW k, Audited(k), UNCHANGED <<balances, transfers>>
  PROVE  Audited(k)'
<1>1. PICK t, b : t = transfers /\ b = balances
  OBVIOUS
<1>2. \A side \in Sides, a \in Accounts : Counter(b[a], k, side) = Total(t, Entries(t, k, side, a))
  BY <1>1, Zenon DEF Audited
<1>3. transfers' = t /\ balances' = b
  BY <1>1
<1>. QED BY <1>2, <1>3, Zenon DEF Audited

\* Every operation keeps the audit equations.
LEMMA AuditStep ==
  ASSUME TypeOK, TypeOK', HoldConsumedOnce, NEW k \in Kinds, Audited(k), UnopenedEmpty,
         [Next]_vars
  PROVE  Audited(k)'
<1>1. ASSUME NEW new \in SUBSET Accounts, CreateAccounts(new) PROVE Audited(k)'
  <2>1. balances' = balances
    <3>1. \A a \in new : balances[a] = ZeroBalance
      BY <1>1 DEF CreateAccounts, UnopenedEmpty
    <3>2. balances' = [a \in Accounts |-> balances[a]]
      BY <1>1, <3>1 DEF CreateAccounts
    <3>. QED BY <3>2 DEF TypeOK
  <2>. QED BY <1>1, <2>1, AuditUnchanged DEF CreateAccounts
<1>2. ASSUME NEW s \in Seeds, NEW d \in Accounts, NEW c \in Accounts, NEW amt \in Amounts,
             Transfer(s, d, c, amt)
      PROVE  Audited(k)'
  <2>1. PICK leg \in {"direct", "hold"} : leg = "direct"
    OBVIOUS
  <2>2. ~Exists(<<s, leg>>)
    BY <1>2, <2>1 DEF Transfer
  <2>3. transfers' = [transfers EXCEPT ![<<s, leg>>] = Record(d, c, amt, leg = "hold")]
    <3>1. (leg = "hold") = FALSE
      BY <2>1
    <3>. QED BY <1>2, <2>1, <3>1, Zenon DEF Transfer
  <2>4. balances' = Moved(d, c, IF leg = "hold" THEN 0 ELSE amt, IF leg = "hold" THEN amt ELSE 0)
    <3>1. (IF leg = "hold" THEN 0 ELSE amt) = amt /\ (IF leg = "hold" THEN amt ELSE 0) = 0
      BY <2>1
    <3>. QED BY <1>2, <3>1, Zenon DEF Transfer
  <2>. QED BY <2>1, <2>2, <2>3, <2>4, AuditRecorded, Zenon
<1>3. ASSUME NEW s \in Seeds, NEW d \in Accounts, NEW c \in Accounts, NEW amt \in Amounts,
             PendingTransfer(s, d, c, amt)
      PROVE  Audited(k)'
  <2>1. PICK leg \in {"direct", "hold"} : leg = "hold"
    OBVIOUS
  <2>2. ~Exists(<<s, leg>>)
    BY <1>3, <2>1 DEF PendingTransfer
  <2>3. transfers' = [transfers EXCEPT ![<<s, leg>>] = Record(d, c, amt, leg = "hold")]
    <3>1. (leg = "hold") = TRUE
      BY <2>1
    <3>. QED BY <1>3, <2>1, <3>1, Zenon DEF PendingTransfer
  <2>4. balances' = Moved(d, c, IF leg = "hold" THEN 0 ELSE amt, IF leg = "hold" THEN amt ELSE 0)
    <3>1. (IF leg = "hold" THEN 0 ELSE amt) = 0 /\ (IF leg = "hold" THEN amt ELSE 0) = amt
      BY <2>1
    <3>. QED BY <1>3, <3>1, Zenon DEF PendingTransfer
  <2>. QED BY <2>1, <2>2, <2>3, <2>4, AuditRecorded, Zenon
<1>4. ASSUME NEW s \in Seeds, NEW request \in Amounts, PostPendingAs(s, request)
      PROVE  Audited(k)'
  <2>1. IsPending(<<s, "hold">>)
    BY <1>4 DEF PostPendingAs
  <2>2. PICK posted, leg : /\ posted = IF request = 0 THEN transfers[<<s, "hold">>].amount ELSE request
                           /\ leg = "post"
    OBVIOUS
  <2>3. posted \in Nat
    BY <2>1, <2>2, ConsumeNumbers, MaxAmountAssumption DEF Amounts
  <2>4. Consume(s, leg, posted)
    BY <1>4, <2>2 DEF PostPendingAs
  <2>5. leg \in {"post", "void"} /\ (leg = "void" => posted = 0)
    BY <2>2
  <2>. QED BY <2>1, <2>3, <2>4, <2>5, AuditConsumed, Zenon
<1>5. ASSUME NEW s \in Seeds, VoidPending(s)
      PROVE  Audited(k)'
  <2>1. PICK posted \in Nat, leg \in {"post", "void"} : posted = 0 /\ leg = "void"
    OBVIOUS
  <2>2. IsPending(<<s, "hold">>) /\ Consume(s, leg, posted)
    BY <1>5, <2>1 DEF VoidPending
  <2>3. leg = "void" => posted = 0
    BY <2>1
  <2>. QED BY <2>1, <2>2, <2>3, AuditConsumed, Zenon
<1>6. CASE UNCHANGED vars
  BY <1>6, AuditUnchanged DEF vars
<1>. QED BY <1>1, <1>2, <1>3, <1>4, <1>5, <1>6 DEF Next

\* A transfer on record is between open accounts: Pair tests both when it is
\* made, and no account is ever closed.
TransfersOpen ==
  \A id \in TransferIds :
    Exists(id) => transfers[id].debit \in accounts /\ transfers[id].credit \in accounts

\* A new record between open accounts keeps every transfer between open accounts.
LEMMA OpenEntered ==
  ASSUME TypeOK, TransfersOpen, UNCHANGED accounts,
         NEW Changed \in SUBSET TransferIds,
         NEW d \in accounts, NEW c \in accounts,
         \A id \in TransferIds \ Changed : transfers'[id] = transfers[id],
         \A id \in Changed : \E amt, pend : transfers'[id] = Record(d, c, amt, pend)
  PROVE  TransfersOpen'
<1> SUFFICES ASSUME NEW id \in TransferIds, transfers'[id] # NoTransfer
             PROVE  transfers'[id].debit \in accounts /\ transfers'[id].credit \in accounts
  BY DEF TransfersOpen, Exists
<1>1. CASE id \in Changed
  <2>1. PICK amt, pend : transfers'[id] = Record(d, c, amt, pend)
    BY <1>1
  <2>. QED BY <2>1 DEF Record
<1>2. CASE id \notin Changed
  BY <1>2 DEF TransfersOpen, Exists
<1>. QED BY <1>1, <1>2

\* A move between open accounts leaves the others without a balance.
LEMMA UnopenedMoved ==
  ASSUME TypeOK, UnopenedEmpty, UNCHANGED accounts,
         NEW d \in accounts, NEW c \in accounts, NEW posted, NEW held,
         balances' = Moved(d, c, posted, held)
  PROVE  UnopenedEmpty'
<1> SUFFICES ASSUME NEW a \in Accounts \ accounts PROVE balances'[a] = ZeroBalance
  BY DEF UnopenedEmpty
<1>1. balances[a] = ZeroBalance /\ a # d /\ a # c
  BY DEF UnopenedEmpty
<1>2. balances'[a] = [debitsPosted |-> 0 + 0, creditsPosted |-> 0 + 0,
                      debitsPending |-> 0 + 0, creditsPending |-> 0 + 0]
  BY <1>1 DEF Moved, ZeroBalance
<1>. QED BY <1>2 DEF ZeroBalance

LEMMA OpenInit == Init => TransfersOpen
BY DEF Init, TransfersOpen, Exists

\* Every operation keeps transfers between open accounts, and leaves the
\* accounts that are not open without a balance.
LEMMA OpenStep ==
  ASSUME TypeOK, UnopenedEmpty, TransfersOpen, [Next]_vars
  PROVE  UnopenedEmpty' /\ TransfersOpen'
<1>1. ASSUME NEW new \in SUBSET Accounts, CreateAccounts(new) PROVE UnopenedEmpty' /\ TransfersOpen'
  <2>1. UnopenedEmpty'
    BY <1>1 DEF UnopenedEmpty, CreateAccounts
  <2>2. TransfersOpen'
    BY <1>1 DEF TransfersOpen, CreateAccounts, Exists
  <2>. QED BY <2>1, <2>2
<1>2. ASSUME NEW s \in Seeds, NEW d \in Accounts, NEW c \in Accounts, NEW amt \in Amounts,
             Transfer(s, d, c, amt)
      PROVE  UnopenedEmpty' /\ TransfersOpen'
  <2>1. d \in accounts /\ c \in accounts /\ UNCHANGED accounts
    BY <1>2 DEF Transfer, Pair
  <2>2. UnopenedEmpty'
    BY <1>2, <2>1, UnopenedMoved DEF Transfer
  <2>3. PICK Changed \in SUBSET TransferIds : Changed = {<<s, "direct">>}
    <3>1. {<<s, "direct">>} \in SUBSET TransferIds
      BY DEF TransferIds, Legs
    <3>. QED BY <3>1, Zenon
  <2>4. /\ \A id \in TransferIds \ Changed : transfers'[id] = transfers[id]
        /\ \A id \in Changed : \E m, p : transfers'[id] = Record(d, c, m, p)
    BY <1>2, <2>3 DEF Transfer, TypeOK
  <2>5. TransfersOpen'
    BY <2>1, <2>3, <2>4, OpenEntered
  <2>. QED BY <2>2, <2>5
<1>3. ASSUME NEW s \in Seeds, NEW d \in Accounts, NEW c \in Accounts, NEW amt \in Amounts,
             PendingTransfer(s, d, c, amt)
      PROVE  UnopenedEmpty' /\ TransfersOpen'
  <2>1. d \in accounts /\ c \in accounts /\ UNCHANGED accounts
    BY <1>3 DEF PendingTransfer, Pair
  <2>2. UnopenedEmpty'
    BY <1>3, <2>1, UnopenedMoved DEF PendingTransfer
  <2>3. PICK Changed \in SUBSET TransferIds : Changed = {<<s, "hold">>}
    <3>1. {<<s, "hold">>} \in SUBSET TransferIds
      BY DEF TransferIds, Legs
    <3>. QED BY <3>1, Zenon
  <2>4. /\ \A id \in TransferIds \ Changed : transfers'[id] = transfers[id]
        /\ \A id \in Changed : \E m, p : transfers'[id] = Record(d, c, m, p)
    BY <1>3, <2>3 DEF PendingTransfer, TypeOK
  <2>5. TransfersOpen'
    BY <2>1, <2>3, <2>4, OpenEntered
  <2>. QED BY <2>2, <2>5
<1>4. ASSUME NEW s \in Seeds, NEW leg \in {"post", "void"}, NEW posted, IsPending(<<s, "hold">>),
             Consume(s, leg, posted)
      PROVE  UnopenedEmpty' /\ TransfersOpen'
  <2>1. PICK Changed \in SUBSET TransferIds : Changed = {<<s, "hold">>, <<s, leg>>}
    <3>1. {<<s, "hold">>, <<s, leg>>} \in SUBSET TransferIds
      BY DEF TransferIds, Legs
    <3>. QED BY <3>1, Zenon
  <2>2. PICK d, c, held : /\ d = transfers[<<s, "hold">>].debit
                          /\ c = transfers[<<s, "hold">>].credit
                          /\ held = -transfers[<<s, "hold">>].amount
    OBVIOUS
  <2>3. d \in accounts /\ c \in accounts /\ UNCHANGED accounts
    BY <1>4, <2>2 DEF TransfersOpen, IsPending, Consume, TransferIds, Legs
  <2>4. UnopenedEmpty'
    <3>1. balances' = Moved(d, c, posted, held)
      BY <1>4, <2>2 DEF Consume
    <3>. QED BY <2>3, <3>1, UnopenedMoved
  <2>5. \A id \in TransferIds \ Changed : transfers'[id] = transfers[id]
    BY <1>4, <2>1, ConsumeMap
  <2>6. \A id \in Changed : \E amt, pend : transfers'[id] = Record(d, c, amt, pend)
    <3>1. <<s, "hold">> \in TransferIds /\ <<s, leg>> \in TransferIds /\ leg # "hold"
      BY DEF TransferIds, Legs
    <3>2. PICK a1, a2 :
            transfers' = [transfers EXCEPT ![<<s, "hold">>] = Record(d, c, a1, FALSE),
                                           ![<<s, leg>>] = Record(d, c, a2, FALSE)]
      BY <1>4, <2>2 DEF Consume
    <3>3. /\ transfers'[<<s, "hold">>] = Record(d, c, a1, FALSE)
          /\ transfers'[<<s, leg>>] = Record(d, c, a2, FALSE)
      BY <3>1, <3>2 DEF TypeOK
    <3>. QED BY <2>1, <3>3
  <2>7. TransfersOpen'
    BY <2>1, <2>3, <2>5, <2>6, OpenEntered
  <2>. QED BY <2>4, <2>7
<1>5. ASSUME NEW s \in Seeds, NEW request \in Amounts, PostPendingAs(s, request)
      PROVE  UnopenedEmpty' /\ TransfersOpen'
  BY <1>4, <1>5 DEF PostPendingAs
<1>6. ASSUME NEW s \in Seeds, VoidPending(s)
      PROVE  UnopenedEmpty' /\ TransfersOpen'
  BY <1>4, <1>6 DEF VoidPending
<1>7. CASE UNCHANGED vars
  BY <1>7 DEF vars, UnopenedEmpty, TransfersOpen, Exists
<1>. QED BY <1>1, <1>2, <1>3, <1>5, <1>6, <1>7 DEF Next

\* Both audit equations, with what makes them inductive.
AuditInv ==
  /\ TypeOK
  /\ HoldConsumedOnce
  /\ UnopenedEmpty
  /\ TransfersOpen
  /\ Audited("open")
  /\ Audited("done")

LEMMA AuditInvariant == Spec => []AuditInv
<1>1. Init => AuditInv
  BY TypeInit, HoldInit, AuditInit, OpenInit DEF AuditInv
<1>2. ASSUME AuditInv, [Next]_vars PROVE AuditInv'
  <2>1. TypeOK /\ HoldConsumedOnce /\ UnopenedEmpty /\ TransfersOpen /\ Audited("open") /\ Audited("done")
    BY <1>2 DEF AuditInv
  <2>2. TypeOK' /\ HoldConsumedOnce'
    BY <1>2, <2>1, TypeStep, HoldStep
  <2>3. UnopenedEmpty' /\ TransfersOpen'
    BY <1>2, <2>1, OpenStep
  <2>4. \A k \in Kinds : Audited(k) => Audited(k)'
    BY <1>2, <2>1, <2>2, AuditStep
  <2>5. Audited("open")' /\ Audited("done")'
    BY <2>1, <2>4 DEF Kinds
  <2>. QED BY <2>2, <2>3, <2>5, Zenon DEF AuditInv
<1>. QED BY <1>1, <1>2, PTL DEF Spec

\* The pending counters of every balance are at all times the sums of the
\* open holds (PendingTransfer, PostPendingAs and VoidPending of ledger.go),
\* for any accounts, flags, amounts and number of transfers.
THEOREM PendingIsTheHolds == Spec => []PendingMatchesHolds
<1>1. AuditInv => PendingMatchesHolds
  BY AuditOpen DEF AuditInv
<1>. QED BY <1>1, AuditInvariant, PTL

\* The posted counters of every balance are at all times the sums of the
\* direct transfers and posts on record (Transfer and PostPendingAs of ledger.go).
THEOREM PostedIsTheRecord == Spec => []PostedMatchesRecords
<1>1. AuditInv => PostedMatchesRecords
  BY AuditDone DEF AuditInv
<1>. QED BY <1>1, AuditInvariant, PTL
=============================================================================

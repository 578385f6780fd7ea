--------------------------- MODULE MCPaymentIntent ---------------------------
(***************************************************************************)
(* PaymentIntent for TLC.  r1 and its retry r2 land on two replicas, r3    *)
(* reuses their key for another levy, r4 is another channel paying the     *)
(* levy of r1 without a key.                                               *)
(***************************************************************************)
EXTENDS PaymentIntent

CONSTANTS r1, r2, r3, r4, k1, b1, b2, s1, s2, left, right

MCKeyOf == [r \in Requests |-> IF r = r4 THEN NoKey ELSE k1]
MCBodyOf == [r \in Requests |-> IF r = r3 THEN b2 ELSE b1]
MCSlotOf == [r \in Requests |-> IF r = r3 THEN s2 ELSE s1]
MCReplicaOf == [r \in Requests |-> IF r \in {r1, r3} THEN left ELSE right]

\* "ATOMIC claim of the idempotency key": two concurrent requests of one key
\* never both create a payment, so a key creates one payment and one more for
\* every time it expired.  Two requests that both read the expired claim break
\* it: the second deletes the claim the first has just won.
OnePaymentPerWindow ==
  \A k \in Keys :
    Cardinality({r \in Requests : KeyOf[r] = k /\ rows[r] # "none"}) <= 1 + expiries[k]
=============================================================================

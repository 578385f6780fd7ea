---------------------------- MODULE WebhookGuard ----------------------------
(***************************************************************************)
(* internal/platform/webhookguard: a webhook carries the sender's time and *)
(* a nonce; it is refused outside a tolerance of the clock, and as a       *)
(* replay while the cache remembers the nonce.  Check runs against one     *)
(* in-process cache whose SeenOrAdd is atomic; copies of a webhook arrive  *)
(* whenever the network likes.  Both headers are present, as prod wants.   *)
(***************************************************************************)
EXTENDS Integers, FiniteSets

CONSTANTS
  Nonces,
  Tolerance,   \* accepted skew, in ticks (5 minutes)
  TTL,         \* how long a nonce is remembered (15 minutes)
  SweepAt,     \* cache size above which expired nonces are swept (4096)
  MaxTime      \* bound on the clock

VARIABLES
  now,
  sent,        \* the timestamp every nonce was signed with
  seen,        \* the cache: nonce -> expiry, or -1
  accepted     \* history: how often a webhook passed

vars == <<now, sent, seen, accepted>>

Times == 0..MaxTime

TypeOK ==
  /\ now \in Times
  /\ sent \in [Nonces -> Times]
  /\ seen \in [Nonces -> -1..(MaxTime + TTL)]
  /\ accepted \in [Nonces -> Nat]

\* A sender's clock may be ahead or behind.
Init ==
  /\ now = 0
  /\ sent \in [Nonces -> Times]
  /\ seen = [n \in Nonces |-> -1]
  /\ accepted = [n \in Nonces |-> 0]

Tick ==
  /\ now < MaxTime
  /\ now' = now + 1
  /\ UNCHANGED <<sent, seen, accepted>>

Fresh(t) == now - t <= Tolerance /\ t - now <= Tolerance

\* The lazy sweep of SeenOrAdd.
Swept ==
  IF Cardinality({n \in Nonces : seen[n] # -1}) > SweepAt
  THEN [n \in Nonces |-> IF seen[n] < now THEN -1 ELSE seen[n]]
  ELSE seen

\* Mutant: a nonce is remembered as long as its timestamp is tolerated.
Remembered_Tolerance == now + Tolerance

Remembered == now + TTL

\* Check with both headers: 401 outside the tolerance, 409 for a replay.
Check(n) ==
  /\ Fresh(sent[n])
  /\ seen' = IF now < Swept[n] THEN Swept ELSE [Swept EXCEPT ![n] = Remembered]
  /\ accepted' = IF now < Swept[n] THEN accepted ELSE [accepted EXCEPT ![n] = @ + 1]
  /\ UNCHANGED <<now, sent>>

Next == Tick \/ \E n \in Nonces : Check(n)
Spec == Init /\ [][Next]_vars

-----------------------------------------------------------------------------
\* A signed webhook passes at most once, for ever: by the time its nonce is
\* forgotten its timestamp is outside the tolerance, also when the sender's
\* clock was ahead.
AcceptedOnce == \A n \in Nonces : accepted[n] <= 1
=============================================================================

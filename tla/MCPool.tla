------------------------------- MODULE MCPool -------------------------------
(***************************************************************************)
(* CommissionEngine when two calls for one settled transaction name        *)
(* different amounts, 150 and 100 kobo at 200 and 100 basis points: the    *)
(* agent gets an upline between them, so both calls have to fund 3 kobo,   *)
(* and the transfer that funds the pool names the reference and the total  *)
(* only.                                                                   *)
(***************************************************************************)
EXTENDS Commission

CONSTANTS a, b, ref, c1, c2

MCUpline == [x \in {a, b} |-> Root]
MCRateOf == <<200, 100>>
MCAgentOf == [x \in {c1, c2} |-> a]
MCRefOf == [x \in {c1, c2} |-> ref]
MCBaseOf == [x \in {c1, c2} |-> IF x = c1 THEN 150 ELSE 100]

\* "Fund the pool idempotently for this reference before any holds", said of
\* every reference, whatever its callers claim was settled.
HoldsFunded == \A r \in Refs : Covered(r)
=============================================================================

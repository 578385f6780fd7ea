----------------------------- MODULE MCChannels -----------------------------
(***************************************************************************)
(* The field channels on small instances.                                  *)
(***************************************************************************)
EXTENDS Channels, TLC

CONSTANTS a, b, c, office, top, deb, f1, f2, f3, ref, c1, c2, c3

\* Three agents of one tenant and a cap of one link: a chain of three is too
\* deep, and two concurrent attaches can cross.
MCTenantOf == [x \in {a, b, c} |-> 1]
MCOfficeTenant == [x \in {office} |-> 1]

\* Two concurrent top-ups under one reference and a debit of part of it.
MCKindOf == [m \in {top, deb} |-> IF m = top THEN "topup" ELSE "debit"]
MCMoveOf == [x \in {f1, f2, f3} |-> IF x = f3 THEN deb ELSE top]
MCFAgentOf == [x \in {f1, f2, f3} |-> a]
MCAmountOf == [x \in {f1, f2, f3} |-> IF x = f3 THEN 1 ELSE 2]

\* The capturing agent has an upline.
MCUpline == [x \in {a, b} |-> IF x = a THEN b ELSE CRoot]

\* A retry with the same payload and one with a smaller amount, whose second
\* level rounds to nothing.
MCRateOf == <<200, 100>>
MCCAgentOf == [x \in {c1, c2, c3} |-> a]
MCRefOf == [x \in {c1, c2, c3} |-> ref]
MCBaseOf == [x \in {c1, c2, c3} |-> IF x = c3 THEN 50 ELSE 100]

\* Webhooks and dials are interchangeable, and so are calls with the same arguments.
Sym == UNION {Permutations(S) : S \in {UWorkers, Dials, {c1, c2}}}
=============================================================================

------------------------------ MODULE MCPayout ------------------------------
(***************************************************************************)
(* NIPPayout on three small groups of requests, one of which is used in a  *)
(* behaviour: the groups share nothing but the fault bound, and their      *)
(* state graphs add up instead of multiplying.                             *)
(*   k1: a payout p1 and a refund f1 of all of it under the payout's key   *)
(*       (so that a lookup decides whether a request is a replay), with    *)
(*       the ticker, an operator and one window that closes                *)
(*   k2: a payout p2 and a retry p3 of it on the same replica, with the    *)
(*       ticker                                                            *)
(*   k3: a payout p4 and a retry p5 of it on another replica, whose        *)
(*       tickers do not go off                                             *)
(***************************************************************************)
EXTENDS NIPPayout

CONSTANTS p1, f1, p2, p3, p4, p5, k1, k2, k3, operator, left, east, west

MCKeyOf == [r \in Requests |->
  CASE r \in {p1, f1} -> k1 [] r \in {p2, p3} -> k2 [] OTHER -> k3]
MCAmountOf == [r \in Requests |-> 2]
MCSourceOf == [r \in Requests |-> IF r = f1 THEN p1 ELSE NoSource]
MCReplicaOf == [w \in Requests \cup Operators |->
  CASE w = p4 -> east [] w = p5 -> west [] OTHER -> left]

InUse(k) == \E r \in Requests : KeyOf[r] = k /\ pc[r] # "start"

Sweeping(w) ==
  \/ w = left /\ ~InUse(k3)
  \/ w = operator /\ InUse(k1)

MCNext ==
  \/ \E r \in Requests : (\A k \in Keys \ {KeyOf[r]} : ~InUse(k)) /\ Begin(r)
  \/ \E r \in Requests : PayoutStep(r)
  \/ \E w \in Workers : SaveStep(w)
  \/ \E w \in Sweepers : Sweeping(w) /\ SweepList(w)
  \/ \E w \in Sweepers : SweepStep(w)
  \/ \E w \in Operators, r \in Requests : Sweeping(w) /\ CallReversal(w, r)
  \/ \E p \in Replicas : Relay(p) \/ Purge(p) \/ Crash(p)
  \/ \E r \in Requests : KeyOf[r] = k1 /\ Expire(r)

MCSpec == Init /\ [][MCNext]_vars
=============================================================================

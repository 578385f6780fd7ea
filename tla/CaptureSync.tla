---------------------------- MODULE CaptureSync -----------------------------
(***************************************************************************)
(* The sync protocol of the offline capture outbox: hybrid logical clocks  *)
(* and an observed-remove set (internal/platform/crdtx) on the agents'     *)
(* devices, and the server's merge of op batches (services/onboarding,     *)
(* sync.go).  The network delivers an op any number of times and in any    *)
(* order; walls are read from clocks that differ and may go back.          *)
(***************************************************************************)
EXTENDS Integers, FiniteSetsExt

CONSTANTS
  Replicas,    \* devices and the server
  Elements,    \* client refs of captures
  MaxWall,     \* bound on the wall clocks
  MaxCount,    \* bound on the logical counters
  MaxOps       \* bound on the ops that are made

VARIABLES
  last,        \* Clock.last of every replica
  ops,         \* every op made so far
  seen,        \* ORSet.seen: op ids
  adds,        \* ORSet.adds: element -> tags
  removes      \* ORSet.removes: element -> tombstoned tags

vars == <<last, ops, seen, adds, removes>>

Walls == 1..MaxWall
Tags == [wall : 0..MaxWall, count : 0..MaxCount, node : Replicas]
\* The id of an add is as unique as its tag; that of a remove is made of the
\* element and the tag, so two removers of one tag make the same op.
Ops == [kind : {"add", "remove"}, element : Elements, tag : Tags]

TypeOK ==
  /\ last \in [Replicas -> [wall : 0..MaxWall, count : 0..MaxCount]]
  /\ ops \subseteq Ops
  /\ seen \in [Replicas -> SUBSET ops]
  /\ adds \in [Replicas -> [Elements -> SUBSET Tags]]
  /\ removes \in [Replicas -> [Elements -> SUBSET Tags]]

Init ==
  /\ last = [r \in Replicas |-> [wall |-> 0, count |-> 0]]
  /\ ops = {}
  /\ seen = [r \in Replicas |-> {}]
  /\ adds = [r \in Replicas |-> [e \in Elements |-> {}]]
  /\ removes = [r \in Replicas |-> [e \in Elements |-> {}]]

\* Clock.Now: strictly after the last timestamp h, whatever the wall says.
Now(h, wall) ==
  IF wall <= h.wall THEN [h EXCEPT !.count = @ + 1] ELSE [wall |-> wall, count |-> 0]

\* Clock.Update: strictly after the last and the received timestamp.
Update(r, wall, remote) ==
  LET high == Max({last[r].wall, remote.wall})
      count == CASE wall > high -> 0
                 [] wall <= high /\ high = last[r].wall /\ high = remote.wall ->
                      Max({last[r].count, remote.count}) + 1
                 [] wall <= high /\ high = last[r].wall /\ high # remote.wall -> last[r].count + 1
                 [] OTHER -> remote.count + 1
  IN [wall |-> Max({wall, high}), count |-> count]

\* Mutant: a remove deletes the tag it finds instead of leaving a tombstone.
Apply_NoTombstone(r, op) ==
  IF op \in seen[r] THEN UNCHANGED <<seen, adds, removes>>
  ELSE /\ seen' = [seen EXCEPT ![r] = @ \cup {op}]
       /\ adds' = [adds EXCEPT ![r][op.element] =
                     IF op.kind = "add" THEN @ \cup {op.tag} ELSE @ \ {op.tag}]
       /\ UNCHANGED removes

\* Apply: an op id seen before is a no-op; adds and removes only grow.
Apply(r, op) ==
  IF op \in seen[r] THEN UNCHANGED <<seen, adds, removes>>
  ELSE /\ seen' = [seen EXCEPT ![r] = @ \cup {op}]
       /\ IF op.kind = "add"
          THEN adds' = [adds EXCEPT ![r][op.element] = @ \cup {op.tag}] /\ UNCHANGED removes
          ELSE removes' = [removes EXCEPT ![r][op.element] = @ \cup {op.tag}] /\ UNCHANGED adds

\* Add reads the clock for the id of the op and again for its tag.
Add(r, e, wall, again) ==
  LET stamp == Now(Now(last[r], wall), again)
      op == [kind |-> "add", element |-> e,
             tag |-> [wall |-> stamp.wall, count |-> stamp.count, node |-> r]]
  IN
  /\ Cardinality(ops) < MaxOps /\ stamp.count <= MaxCount
  /\ last' = [last EXCEPT ![r] = stamp]
  /\ ops' = ops \cup {op}
  /\ Apply(r, op)

\* Remove, one of the tags it observes at a time.
Remove(r, e, tag) ==
  LET op == [kind |-> "remove", element |-> e, tag |-> tag] IN
  /\ Cardinality(ops) < MaxOps
  /\ tag \in adds[r][e] \ removes[r][e]
  /\ ops' = ops \cup {op}
  /\ Apply(r, op)
  /\ UNCHANGED last

\* A device, or the server's Merge, receives an op of a batch.
Receive(r, op, wall) ==
  /\ Apply(r, op)
  /\ last' \in {last, [last EXCEPT ![r] = Update(r, wall, op.tag)]}
  /\ last'[r].count <= MaxCount
  /\ UNCHANGED ops

Next ==
  \E r \in Replicas :
    \/ \E e \in Elements, wall, again \in Walls : Add(r, e, wall, again)
    \/ \E e \in Elements : \E tag \in adds[r][e] : Remove(r, e, tag)
    \/ \E op \in ops, wall \in Walls : Receive(r, op, wall)

Spec == Init /\ [][Next]_vars

-----------------------------------------------------------------------------
Contains(r, e) == adds[r][e] \ removes[r][e] # {}

\* "Out-of-order delivery converges": replicas that have received the same
\* ops hold the same captures, and a capture added concurrently with a remove
\* survives it: an add that no remove has observed is live wherever it arrived.
Converges ==
  /\ \A r, q \in Replicas :
       seen[r] = seen[q] => \A e \in Elements : Contains(r, e) = Contains(q, e)
  /\ \A r \in Replicas, op \in ops :
       /\ op.kind = "add" /\ op \in seen[r]
       /\ [op EXCEPT !.kind = "remove"] \notin ops
       => Contains(r, op.element)
=============================================================================

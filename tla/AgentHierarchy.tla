--------------------------- MODULE AgentHierarchy ---------------------------
(***************************************************************************)
(* The agent registry and the upline tree over it (services/onboarding,    *)
(* agents.go, hierarchy.go, hierarchy_handlers.go) on the Postgres store,  *)
(* with replicas.  Attach runs under the mutex of its replica and in one   *)
(* transaction that locks the rows of the child and of the parent; it      *)
(* validates against the committed tree and then writes the child's row.   *)
(* SetVetting reads a row and puts the whole of it back, with no lock      *)
(* between.  A row is its parent link and its vetting status.              *)
(***************************************************************************)
EXTENDS Integers, FiniteSetsExt, Sequences

CONSTANTS
  Agents,      \* issued agent ids
  TenantOf,    \* [Agents -> tenants]
  Root,        \* ParentID = ""
  MaxDepth,    \* maxAgentDepth
  Replicas,    \* processes; each attaches one agent at a time (h.mu)
  Vetters,     \* calls of SetVetting
  Vetted,      \* bound: the agents they decide on
  Offices,     \* admin and operator callers; the others are agents
  OfficeTenant \* [Offices -> tenants]

VARIABLES
  rows,        \* agents: [parent, vetting], or NoRow
  lock,        \* the transaction that holds a row
  active,      \* the workers of this behaviour
  pc, loc      \* where a worker is, and what it works on

vars == <<rows, lock, active, pc, loc>>

Workers == Replicas \cup Vetters
Callers == Offices \cup Agents

-----------------------------------------------------------------------------
(* The tree.                                                               *)

NoRow == [none |-> TRUE]
Vettings == {"pending", "approved", "suspended", "rejected"}
Rows == [parent : Agents \cup {Root}, vetting : Vettings]

Registered == {a \in Agents : rows[a] # NoRow}

\* The walk up the parent links: Lineage(a)[n] is n links above a.
Lineage(a) ==
  LET up[n \in 0..Cardinality(Agents)] ==
        IF n = 0 THEN a
        ELSE IF up[n - 1] = Root THEN Root ELSE rows[up[n - 1]].parent
  IN up

\* How far d is below a: the lengths of the ways up the links from d to a.
Below(a, d) ==
  {n \in 0..Cardinality(Agents) :
     \E way \in [0..n -> Agents] :
       way[0] = d /\ way[n] = a /\ \A i \in 1..n : way[i] = rows[way[i - 1]].parent}

Subtree(a) == {d \in Registered : Below(a, d) # {}}
InSubtree(a, d) == d \in Subtree(a)

\* depthOf: the links up to the root; a cycle is an error.
OnCycle(a) == Root \notin {Lineage(a)[n] : n \in DOMAIN Lineage(a)}
DepthOf(a) == Cardinality({n \in DOMAIN Lineage(a) : n > 0 /\ Lineage(a)[n] # Root})

\* subtreeHeight: the longest way down, cut at a repeated node.
SubtreeHeight(a) == Max({Min(Below(a, d)) : d \in Subtree(a)})

\* Ancestors: parent first, at most MaxDepth of them.
Ancestors(a) ==
  [n \in 1..Min({DepthOf(a), MaxDepth}) |-> Lineage(a)[n]]

-----------------------------------------------------------------------------
(* canManageAgent and visibleAgent.                                        *)

CanManage(caller, target) ==
  IF caller \in Offices
  THEN TenantOf[target] = OfficeTenant[caller]
  ELSE /\ caller \in Registered
       /\ TenantOf[caller] = TenantOf[target]
       /\ InSubtree(caller, target)

Visible(caller, target) == target \in Registered /\ CanManage(caller, target)

-----------------------------------------------------------------------------
NoWork == [child |-> Root, to |-> Root, vetting |-> "pending"]

TypeOK ==
  /\ rows \in [Agents -> Rows \cup {NoRow}]
  /\ lock \in [Agents -> Replicas \cup {Root}]
  /\ active \subseteq Workers
  /\ pc \in [Workers -> {"idle", "lock", "check", "commit", "put"}]
  /\ loc \in [Workers -> [child : Agents \cup {Root}, to : Agents \cup {Root}, vetting : Vettings]]

Init ==
  /\ rows = [a \in Agents |-> NoRow]
  /\ lock = [a \in Agents |-> Root]
  /\ active \in SUBSET Workers \ {{}}
  /\ pc = [w \in Workers |-> "idle"]
  /\ loc = [w \in Workers |-> NoWork]

Goto(w, to) == pc' = [pc EXCEPT ![w] = to]

\* Register: a root of its own, pending vetting, under a server-issued id.
Register(a) ==
  /\ rows[a] = NoRow
  /\ rows' = [rows EXCEPT ![a] = [parent |-> Root, vetting |-> "pending"]]
  /\ UNCHANGED <<lock, active, pc, loc>>

\* attachSubAgent: the caller must manage the child and the new parent; the
\* answer is not looked at again once Attach has its locks.
BeginAttach(w, caller, child, parent) ==
  /\ w \in active /\ pc[w] = "idle"
  /\ Visible(caller, child)
  /\ parent # Root => Visible(caller, parent)
  /\ loc' = [loc EXCEPT ![w] = [NoWork EXCEPT !.child = child, !.to = parent]]
  /\ Goto(w, "lock")
  /\ UNCHANGED <<rows, lock, active>>

Involved(w) == {loc[w].child, loc[w].to} \ {Root}
Release(w) == lock' = [a \in Agents |-> IF lock[a] = w THEN Root ELSE lock[a]]

\* Mutant: only the child's row is locked.
LockRows_ChildOnly(w) ==
  /\ pc[w] = "lock"
  /\ lock[loc[w].child] = Root
  /\ lock' = [lock EXCEPT ![loc[w].child] = w]
  /\ Goto(w, "check")
  /\ UNCHANGED <<rows, active, loc>>

\* GetForUpdate of both rows.  They are taken in id order, so a transaction
\* that waits holds nothing another one waiting for it needs: taking them
\* together leaves out no reachable outcome.
LockRows(w) ==
  /\ pc[w] = "lock"
  /\ \A a \in Involved(w) : lock[a] = Root
  /\ lock' = [a \in Agents |-> IF a \in Involved(w) THEN w ELSE lock[a]]
  /\ Goto(w, "check")
  /\ UNCHANGED <<rows, active, loc>>

\* Mutant: the height of the moved subtree is left out of the depth check.
Attachable_NoHeight(child, parent) ==
  \/ parent = Root
  \/ /\ TenantOf[child] = TenantOf[parent]
     /\ parent \notin Subtree(child)
     /\ ~OnCycle(parent)
     /\ DepthOf(parent) + 1 <= MaxDepth

\* attachChecked: tenant, cycle and depth cap; a detach has no check.
Attachable(child, parent) ==
  \/ parent = Root
  \/ /\ TenantOf[child] = TenantOf[parent]
     /\ parent \notin Subtree(child)
     /\ ~OnCycle(parent)
     /\ DepthOf(parent) + 1 + SubtreeHeight(child) <= MaxDepth

\* The validation reads committed rows; refused, the transaction rolls back.
CheckAttach(w) ==
  LET ok == Attachable(loc[w].child, loc[w].to) IN
  /\ pc[w] = "check"
  /\ Goto(w, IF ok THEN "commit" ELSE "idle")
  /\ IF ok THEN UNCHANGED <<lock, loc>> ELSE Release(w) /\ loc' = [loc EXCEPT ![w] = NoWork]
  /\ UNCHANGED <<rows, active>>

\* The write and the commit.
CommitAttach(w) ==
  /\ pc[w] = "commit"
  /\ rows' = [rows EXCEPT ![loc[w].child].parent = loc[w].to]
  /\ Release(w)
  /\ Goto(w, "idle")
  /\ loc' = [loc EXCEPT ![w] = NoWork]
  /\ UNCHANGED active

\* A timeout of the context or a lost connection rolls the transaction back.
AbortAttach(w) ==
  /\ w \in Replicas /\ pc[w] # "idle"
  /\ Release(w)
  /\ Goto(w, "idle")
  /\ loc' = [loc EXCEPT ![w] = NoWork]
  /\ UNCHANGED <<rows, active>>

VettingTransitions ==
  {<<"pending", "approved">>, <<"pending", "rejected">>, <<"approved", "suspended">>,
   <<"suspended", "approved">>, <<"suspended", "rejected">>, <<"rejected", "pending">>}

\* SetVetting reads the row and tests the transition ...
BeginVetting(v, a, to) ==
  /\ v \in active /\ pc[v] = "idle"
  /\ a \in Registered
  /\ <<rows[a].vetting, to>> \in VettingTransitions
  /\ loc' = [loc EXCEPT ![v] = [child |-> a, to |-> rows[a].parent, vetting |-> to]]
  /\ Goto(v, "put")
  /\ UNCHANGED <<rows, lock, active>>

\* ... and puts the row it read back, parent link included; the statement
\* waits for a transaction that has locked the row.
PutVetting(v) ==
  /\ pc[v] = "put"
  /\ lock[loc[v].child] = Root
  /\ rows' = [rows EXCEPT ![loc[v].child] = [parent |-> loc[v].to, vetting |-> loc[v].vetting]]
  /\ Goto(v, "idle")
  /\ loc' = [loc EXCEPT ![v] = NoWork]
  /\ UNCHANGED <<lock, active>>

Next ==
  \/ \E a \in Agents : Register(a)
  \/ \E w \in Replicas :
       \/ \E caller \in Callers, child \in Agents, parent \in Agents \cup {Root} :
            BeginAttach(w, caller, child, parent)
       \/ LockRows(w) \/ CheckAttach(w) \/ CommitAttach(w) \/ AbortAttach(w)
  \/ \E v \in Vetters :
       (\E a \in Vetted, to \in Vettings : BeginVetting(v, a, to)) \/ PutVetting(v)

Spec == Init /\ [][Next]_vars

-----------------------------------------------------------------------------
(* Properties.                                                             *)

Forest == \A a \in Registered : ~OnCycle(a) /\ DepthOf(a) <= MaxDepth

\* "Cycle-safe" and "depth cap": while one process does all the attaching and
\* no vetting decision races it, the links are a forest no deeper than the cap.
OneProcessForest ==
  active \subseteq Replicas /\ Cardinality(active) <= 1 => Forest

\* "Concurrent cross-attaches (A -> B while B -> A) now serialise at the
\* database": replicas never store a cycle of two.
CrossAttachSerialised ==
  active \subseteq Replicas =>
    \A a, b \in Registered : ~(rows[a].parent = b /\ rows[b].parent = a)
=============================================================================

-------------------------- MODULE NIPPayout_proofs --------------------------
(***************************************************************************)
(* Theorems about NIPPayout, for any requests, keys, sweepers, refunds and *)
(* bounds: what is posted was moved, what is dispatched has its record,    *)
(* and a replica dispatches a key once.                                    *)
(*                                                                         *)
(* The argument is about copies.  A sweeper, a reversal and a payout hold  *)
(* a transfer they read or made some steps ago, and write it back under    *)
(* two keys whenever they like.  RequestOK and SweeperOK say, for every    *)
(* place a worker can be at, whose copy it has, what the copy may still    *)
(* claim about the rail, and that it brings no record back whose key       *)
(* nobody uses.                                                            *)
(* Every action is shown to leave the others alone (Steady) and to bring   *)
(* its own worker to a place where its invariant holds.                    *)
(***************************************************************************)
EXTENDS NIPPayout, TLAPS

-----------------------------------------------------------------------------
(* Transfers.                                                              *)

\* A stored transfer is not the absence of one.
LEMMA TransferExists == \A t \in Transfers : t # NoTransfer
<1> SUFFICES ASSUME NEW t \in Transfers PROVE DOMAIN t # DOMAIN NoTransfer
  OBVIOUS
<1>1. DOMAIN t = {"req", "status", "leg"}
  BY DEF Transfers
<1>2. DOMAIN NoTransfer = {"none"}
  BY DEF NoTransfer
<1> QED BY <1>1, <1>2

\* A transfer with another status, or with its leg, is of the same request.
LEMMA TransferUpdates ==
  ASSUME NEW t \in Transfers
  PROVE  /\ t.req \in Requests /\ t.status \in Statuses
         /\ \A s \in Statuses :
              /\ [t EXCEPT !.status = s] \in Transfers
              /\ [t EXCEPT !.status = s].req = t.req
              /\ [t EXCEPT !.status = s].status = s
         /\ [t EXCEPT !.leg = TRUE] \in Transfers
         /\ [t EXCEPT !.leg = TRUE].req = t.req
         /\ [t EXCEPT !.leg = TRUE].status = t.status
BY DEF Transfers

\* The transfer a request starts with.
LEMMA NewTransfer ==
  ASSUME NEW r \in Requests, NEW s \in Statuses
  PROVE  /\ [req |-> r, status |-> s, leg |-> FALSE] \in Transfers
         /\ [req |-> r, status |-> s, leg |-> FALSE].req = r
         /\ [req |-> r, status |-> s, leg |-> FALSE].status = s
BY DEF Transfers

\* The copies List returns of a transfer are stored under its session or under a key.
LEMMA CopyStored ==
  ASSUME NEW q \in Requests, NEW t \in Copies(q)
  PROVE  /\ t \in Transfers /\ t.req = q
         /\ t = rows[q] \/ \E k \in Keys : t = idem[k]
BY DEF Copies, Transfers

-----------------------------------------------------------------------------
(* The invariant.                                                          *)

\* No window of the key has closed.
Open(k) == \A p \in Requests : KeyOf[p] = k => p \notin expired

\* A request that has not called the rail yet.
Undispatched(r) ==
  \/ pc[r] \in {"start", "check", "lookup", "enquire", "putKey", "putRow", "hold", "dispatch"}
  \/ pc[r] \in {"saveRow", "saveKey"} /\ loc[r].next = "dispatch"

\* A request between its first record and the rail.
Announced(r) == Undispatched(r) /\ pc[r] \notin {"start", "check", "lookup", "enquire", "putKey"}

Moved == {"success", "reversed"}

\* No other request of the key and the replica has been to the rail.
NobodyElse(r) ==
  \A q \in Requests :
    KeyOf[q] = KeyOf[r] /\ ReplicaOf[q] = ReplicaOf[r] /\ q # r => rail[q] = "none"

\* A request that has found its key unused and has not called the rail.
Alone(r) == pc[r] \in {"enquire", "putKey"} \/ Announced(r)

\* A payout or refund: it holds its replica's mu, its copy is its own, the rail
\* knows of it only once it has dispatched, and by then it has its records.
\* While the windows of its key are open, and once it has found the key unused,
\* no other request of the key and the replica has been to the rail.
RequestOK(r) ==
  /\ pc[r] \in PayoutLabels \cup {"start", "done", "saveRow", "saveKey", "publish"}
  /\ pc[r] \notin {"start", "done"} => owner[ReplicaOf[r]] = r
  /\ pc[r] \notin {"start", "check", "lookup", "enquire", "done"} =>
       loc[r].t \in Transfers /\ loc[r].t.req = r
  /\ pc[r] \in {"saveRow", "saveKey"} => loc[r].next \in {"dispatch", "done"}
  /\ Undispatched(r) => rail[r] = "none"
  /\ pc[r] = "putKey" \/ Announced(r) => loc[r].t.status = "in_flight"
  /\ pc[r] = "settle" /\ loc[r].t.status = "success" => rail[r] \in Moved
  /\ Announced(r) /\ pc[r] # "putRow" => rows[r] # NoTransfer
  /\ Open(KeyOf[r]) =>
       /\ pc[r] \notin {"start", "check", "lookup", "enquire", "putKey", "done"} =>
            idem[KeyOf[r]] # NoTransfer
       /\ Alone(r) => NobodyElse(r)

\* A sweeper or an operator's call: it posts only what the rail has moved,
\* saves only transfers whose key is in use, and purges only closed windows.
SweeperOK(w) ==
  /\ pc[w] \in SweepLabels \cup {"idle", "saveRow", "saveKey", "publish"}
  /\ pc[w] # "idle" => loc[w].t \in Transfers
  /\ pc[w] \in {"saveRow", "saveKey"} => loc[w].next = "publish"
  /\ pc[w] = "post" => rail[loc[w].t.req] \in Moved
  /\ pc[w] \notin {"idle", "purge", "relay", "forget"} /\ Open(KeyOf[loc[w].t.req]) =>
       idem[KeyOf[loc[w].t.req]] # NoTransfer
  /\ pc[w] = "purge" => loc[w].t.req \in expired

\* The records: each under its own session and key, and no session without
\* its key while the windows are open.
StoreOK ==
  /\ \A r \in Requests :
       rows[r] # NoTransfer =>
         rows[r].req = r /\ (Open(KeyOf[r]) => idem[KeyOf[r]] # NoTransfer)
  /\ \A k \in Keys : idem[k] # NoTransfer => KeyOf[idem[k].req] = k

PayoutInv ==
  /\ TypeOK
  /\ \A r \in Requests : RequestOK(r)
  /\ \A w \in Sweepers : SweeperOK(w)
  /\ StoreOK
  /\ PostedMoved /\ DispatchRecorded /\ OneDispatchPerKey

-----------------------------------------------------------------------------
(* What a step of one worker leaves alone.                                 *)

\* A request that holds its replica's mu keeps it.
Keeps(v) == v \in Requests /\ owner[ReplicaOf[v]] = v => owner'[ReplicaOf[v]] = v

Steady(w) ==
  /\ \A v \in Workers \ {w} : pc'[v] = pc[v] /\ loc'[v] = loc[v] /\ Keeps(v)
  /\ \A q \in Requests :
       /\ rail[q] = "none" => rail'[q] = "none" \/ (q = w /\ owner[ReplicaOf[q]] = w)
       /\ rail[q] \in Moved => rail'[q] \in Moved
       /\ rows[q] # NoTransfer => rows'[q] # NoTransfer
  /\ \A k \in Keys :
       Open(k) /\ idem[k] # NoTransfer => idem'[k] # NoTransfer
  /\ UNCHANGED expired

\* The others keep their invariants.
LEMMA SteadyKeeps ==
  ASSUME PayoutInv, NEW w \in Workers, Steady(w)
  PROVE  /\ \A r \in Requests \ {w} : RequestOK(r)'
         /\ \A v \in Sweepers \ {w} : SweeperOK(v)'
<1> USE PayoutAssumption DEF Workers
<1>1. ASSUME NEW r \in Requests, r # w PROVE RequestOK(r)'
  <2>1. /\ pc'[r] = pc[r] /\ loc'[r] = loc[r] /\ (owner[ReplicaOf[r]] = r => owner'[ReplicaOf[r]] = r)
        /\ expired' = expired /\ RequestOK(r) /\ KeyOf[r] \in Keys
    BY <1>1 DEF Steady, PayoutInv, Keeps
  <2>2. /\ Undispatched(r)' <=> Undispatched(r)
        /\ Alone(r)' <=> Alone(r)
        /\ Announced(r)' <=> Announced(r)
        /\ Open(KeyOf[r])' <=> Open(KeyOf[r])
    BY <2>1 DEF Undispatched, Announced, Alone, Open
  <2>3. /\ rail[r] = "none" => rail'[r] = "none"
        /\ rail[r] \in Moved => rail'[r] \in Moved
        /\ rows[r] # NoTransfer => rows'[r] # NoTransfer
    BY <1>1 DEF Steady
  <2>4. Open(KeyOf[r]) /\ idem[KeyOf[r]] # NoTransfer => idem'[KeyOf[r]] # NoTransfer
    BY <2>1 DEF Steady
  <2>5. ASSUME Alone(r), NobodyElse(r) PROVE NobodyElse(r)'
    <3>1. owner[ReplicaOf[r]] = r
      BY <2>1, <2>5 DEF RequestOK, Alone, Announced, Undispatched
    <3>2. ASSUME NEW q \in Requests, KeyOf[q] = KeyOf[r], ReplicaOf[q] = ReplicaOf[r], q # r
          PROVE  rail'[q] = "none"
      <4>1. rail[q] = "none" /\ owner[ReplicaOf[q]] # q
        BY <2>5, <3>1, <3>2 DEF NobodyElse
      <4>. QED BY <4>1 DEF Steady
    <3>. QED BY <3>2 DEF NobodyElse
  <2> QED BY <2>1, <2>2, <2>3, <2>4, <2>5 DEF RequestOK
<1>2. ASSUME NEW v \in Sweepers, v # w PROVE SweeperOK(v)'
  <2>1. /\ pc'[v] = pc[v] /\ loc'[v] = loc[v] /\ expired' = expired /\ SweeperOK(v)
    BY <1>2 DEF Steady, PayoutInv
  <2>2. CASE pc[v] = "idle"
    BY <2>1, <2>2 DEF SweeperOK, SweepLabels
  <2>3. CASE pc[v] # "idle"
    <3>1. loc[v].t.req \in Requests /\ KeyOf[loc[v].t.req] \in Keys
      BY <2>1, <2>3, TransferUpdates DEF SweeperOK
    <3>2. Open(KeyOf[loc[v].t.req])' <=> Open(KeyOf[loc[v].t.req])
      BY <2>1 DEF Open
    <3> QED BY <2>1, <2>3, <3>1, <3>2 DEF SweeperOK, Steady
  <2> QED BY <2>2, <2>3
<1> QED BY <1>1, <1>2

-----------------------------------------------------------------------------
(* How a step moves its worker.                                            *)

Places == Labels \cup {"start", "done", "idle"}
Nexts == {"dispatch", "publish", "done", "idle"}
Frames == [t : Transfers \cup {NoTransfer}, next : Nexts]

\* The worker is at `to` with frame f, the others are where they were.
Control(w, to, f) ==
  /\ pc' \in [Workers -> Places] /\ loc' \in [Workers -> Frames]
  /\ owner' \in [Replicas -> Requests \cup {NoSource}]
  /\ pc'[w] = to /\ loc'[w] = f
  /\ \A v \in Workers \ {w} : pc'[v] = pc[v] /\ loc'[v] = loc[v] /\ Keeps(v)

\* Leave brings every worker to rest.
LEMMA LeaveControl ==
  ASSUME TypeOK, NEW w \in Workers, Leave(w)
  PROVE  Control(w, Rest(w), NoFrame)
<1>1. NoFrame \in Frames /\ Rest(w) \in Places
  BY DEF NoFrame, Frames, Nexts, Rest, Places
<1>2. pc \in [Workers -> Places] /\ loc \in [Workers -> Frames] /\ owner \in [Replicas -> Requests \cup {NoSource}]
  BY DEF TypeOK, Places, Frames, Nexts
<1>. QED BY <1>1, <1>2, PayoutAssumption DEF Leave, Goto, Control, Keeps, Workers

\* A worker at rest has nothing to answer for.
LEMMA LeaveOK ==
  ASSUME TypeOK, NEW w \in Workers, Leave(w)
  PROVE  /\ w \in Requests => RequestOK(w)'
         /\ w \in Sweepers => SweeperOK(w)'
<1>1. pc'[w] = Rest(w)
  BY LeaveControl DEF Control
<1>2. ASSUME w \in Requests PROVE RequestOK(w)'
  <2>1. pc'[w] = "done"
    BY <1>1, <1>2 DEF Rest
  <2>2. ~Undispatched(w)' /\ ~Announced(w)' /\ ~Alone(w)'
    BY <2>1 DEF Undispatched, Announced, Alone
  <2>. QED BY <2>1, <2>2 DEF RequestOK
<1>3. ASSUME w \in Sweepers PROVE SweeperOK(w)'
  <2>1. pc'[w] = "idle"
    BY <1>1, <1>3, PayoutAssumption DEF Rest
  <2>. QED BY <2>1 DEF SweeperOK
<1>. QED BY <1>2, <1>3

\* Stay keeps the frame.
LEMMA StayControl ==
  ASSUME TypeOK, NEW w \in Workers, NEW to \in Places, Stay(w, to)
  PROVE  Control(w, to, loc[w]) /\ owner' = owner
<1>1. pc \in [Workers -> Places] /\ loc \in [Workers -> Frames] /\ owner \in [Replicas -> Requests \cup {NoSource}]
  BY DEF TypeOK, Places, Frames, Nexts
<1>. QED BY <1>1 DEF Stay, Goto, Control, Keeps

\* A step with a new frame.
LEMMA FrameControl ==
  ASSUME TypeOK, NEW w \in Workers, NEW to \in Places, NEW t \in Transfers, NEW next \in Nexts,
         Goto(w, to), Frame(w, t, next), UNCHANGED owner
  PROVE  Control(w, to, [t |-> t, next |-> next])
<1>1. pc \in [Workers -> Places] /\ loc \in [Workers -> Frames] /\ owner \in [Replicas -> Requests \cup {NoSource}]
  BY DEF TypeOK, Places, Frames, Nexts
<1>2. [t |-> t, next |-> next] \in Frames
  BY DEF Frames
<1>. QED BY <1>1, <1>2 DEF Goto, Frame, Control, Keeps

-----------------------------------------------------------------------------
(* What the invariant is made of, for one step.                            *)

Kept(w) ==
  /\ TypeOK'
  /\ Steady(w)
  /\ w \in Requests => RequestOK(w)'
  /\ w \in Sweepers => SweeperOK(w)'
  /\ StoreOK'
  /\ PostedMoved' /\ DispatchRecorded' /\ OneDispatchPerKey'

LEMMA KeptIsEnough ==
  ASSUME PayoutInv, NEW w \in Workers, Kept(w)
  PROVE  PayoutInv'
<1>1. /\ \A r \in Requests \ {w} : RequestOK(r)'
      /\ \A v \in Sweepers \ {w} : SweeperOK(v)'
  BY SteadyKeeps DEF Kept
<1>. QED BY <1>1 DEF Kept, PayoutInv

\* Nothing but the control, the outbox, started and the faults changes.
Quiet == UNCHANGED <<rows, idem, expired, rail, leg>>

\* The parts of the invariant that such a step cannot disturb.
LEMMA QuietKeeps ==
  ASSUME PayoutInv, NEW w \in Workers, Quiet, NEW to, NEW f, Control(w, to, f)
  PROVE  /\ Steady(w) /\ StoreOK'
         /\ PostedMoved' /\ DispatchRecorded' /\ OneDispatchPerKey'
<1>1. Steady(w)
  BY DEF Steady, Quiet, Control
<1>2. StoreOK'
  BY DEF Quiet, StoreOK, PayoutInv, Open
<1>3. PostedMoved' /\ DispatchRecorded' /\ OneDispatchPerKey'
  BY DEF Quiet, PostedMoved, DispatchRecorded, OneDispatchPerKey, PayoutInv
<1>. QED BY <1>1, <1>2, <1>3

LEMMA QuietTyped ==
  ASSUME TypeOK, NEW w \in Workers, Quiet, NEW to, NEW f, Control(w, to, f),
         outbox' \in [Requests -> Statuses \cup {"none"}], started' \in [Replicas -> BOOLEAN],
         faults' \in 0..MaxFaults
  PROVE  TypeOK'
BY DEF Quiet, TypeOK, Control, Places, Frames, Nexts

\* Faults are counted up to their bound.
LEMMA FaultTyped ==
  ASSUME TypeOK, Fault \/ NoFault PROVE faults' \in 0..MaxFaults
BY PayoutAssumption DEF TypeOK, Fault, NoFault

\* The return of a call that has changed nothing else.
LEMMA QuietLeave ==
  ASSUME PayoutInv, NEW w \in Workers, Leave(w), Quiet, Fault \/ NoFault,
         outbox' \in [Requests -> Statuses \cup {"none"}], UNCHANGED started
  PROVE  PayoutInv'
<1>1. TypeOK /\ started' \in [Replicas -> BOOLEAN]
  BY DEF PayoutInv, TypeOK
<1>2. Control(w, Rest(w), NoFrame)
  BY <1>1, LeaveControl
<1>3. TypeOK'
  BY <1>1, <1>2, QuietTyped, FaultTyped
<1>4. Kept(w)
  BY <1>1, <1>2, <1>3, QuietKeeps, LeaveOK DEF Kept
<1>. QED BY <1>4, KeptIsEnough

\* A step that only goes on, given that the worker is fine where it arrives.
LEMMA QuietStep ==
  ASSUME PayoutInv, NEW w \in Workers, NEW to, NEW f, Control(w, to, f), Quiet, Fault \/ NoFault,
         w \in Requests => RequestOK(w)', w \in Sweepers => SweeperOK(w)',
         UNCHANGED outbox, started' \in [Replicas -> BOOLEAN]
  PROVE  PayoutInv'
<1>1. TypeOK /\ outbox' \in [Requests -> Statuses \cup {"none"}]
  BY DEF PayoutInv, TypeOK
<1>2. TypeOK'
  BY <1>1, QuietTyped, FaultTyped
<1>3. Kept(w)
  BY <1>2, QuietKeeps DEF Kept
<1>. QED BY <1>3, KeptIsEnough

-----------------------------------------------------------------------------
(* A step that changes one of the stores.                                  *)

\* The variables no part of the invariant but the type mentions.
Side ==
  /\ outbox' \in [Requests -> Statuses \cup {"none"}]
  /\ started' \in [Replicas -> BOOLEAN]
  /\ faults' \in 0..MaxFaults

OwnOK(w) == (w \in Requests => RequestOK(w)) /\ (w \in Sweepers => SweeperOK(w))

\* A Put under a session whose key is in use, stored or not.
LEMMA RowStep ==
  ASSUME PayoutInv, NEW w \in Workers, NEW to, NEW f, Control(w, to, f), Side, OwnOK(w)',
         UNCHANGED <<idem, expired, rail, leg>>,
         NEW t \in Transfers, PutRow(t) \/ UNCHANGED rows,
         Open(KeyOf[t.req]) => idem[KeyOf[t.req]] # NoTransfer
  PROVE  PayoutInv'
<1>1. TypeOK /\ StoreOK /\ t.req \in Requests /\ t # NoTransfer
  BY TransferExists, TransferUpdates DEF PayoutInv
<1>2. rows \in [Requests -> Transfers \cup {NoTransfer}]
  BY <1>1 DEF TypeOK
<1>3. /\ rows' \in [Requests -> Transfers \cup {NoTransfer}]
      /\ \A q \in Requests : rows'[q] = rows[q] \/ (q = t.req /\ rows'[q] = t)
  BY <1>1, <1>2 DEF PutRow
<1>4. TypeOK'
  BY <1>1, <1>3 DEF TypeOK, Control, Side, Places, Frames, Nexts
<1>5. Steady(w)
  BY <1>1, <1>3 DEF Steady, Control
<1>6. StoreOK'
  BY <1>1, <1>3 DEF StoreOK, Open
<1>7. PostedMoved' /\ OneDispatchPerKey'
  BY DEF PayoutInv, PostedMoved, OneDispatchPerKey
<1>8. DispatchRecorded'
  BY <1>1, <1>3 DEF PayoutInv, DispatchRecorded
<1>. QED BY <1>4, <1>5, <1>6, <1>7, <1>8, KeptIsEnough DEF Kept, OwnOK

\* A Put under a key, stored or not.
LEMMA KeyStep ==
  ASSUME PayoutInv, NEW w \in Workers, NEW to, NEW f, Control(w, to, f), Side, OwnOK(w)',
         UNCHANGED <<rows, expired, rail, leg>>,
         NEW t \in Transfers, PutKey(t) \/ UNCHANGED idem
  PROVE  PayoutInv'
<1> DEFINE k == KeyOf[t.req]
<1>1. TypeOK /\ StoreOK /\ t.req \in Requests /\ k \in Keys /\ t # NoTransfer
  BY TransferExists, TransferUpdates, PayoutAssumption DEF PayoutInv
<1>2. idem \in [Keys -> Transfers \cup {NoTransfer}]
  BY <1>1 DEF TypeOK
<1>3. /\ idem' \in [Keys -> Transfers \cup {NoTransfer}]
      /\ \A j \in Keys : idem'[j] = idem[j] \/ (j = k /\ idem'[j] = t)
  BY <1>1, <1>2 DEF PutKey
<1>4. TypeOK'
  BY <1>1, <1>3 DEF TypeOK, Control, Side, Places, Frames, Nexts
<1>5. Steady(w)
  BY <1>1, <1>3 DEF Steady, Control
<1>6. StoreOK'
  <2>1. \A j \in Keys : idem[j] # NoTransfer => idem'[j] # NoTransfer
    BY <1>1, <1>3
  <2>2. \A j \in Keys : idem'[j] # NoTransfer => KeyOf[idem'[j].req] = j
    BY <1>1, <1>3 DEF StoreOK
  <2>3. \A r \in Requests : KeyOf[r] \in Keys
    BY PayoutAssumption
  <2>. QED BY <1>1, <2>1, <2>2, <2>3 DEF StoreOK, Open
<1>7. PostedMoved' /\ OneDispatchPerKey' /\ DispatchRecorded'
  BY DEF PayoutInv, PostedMoved, OneDispatchPerKey, DispatchRecorded
<1>. QED BY <1>4, <1>5, <1>6, <1>7, KeptIsEnough DEF Kept, OwnOK

\* The rail learns of no transfer, and value that moved has moved.
LEMMA RailStep ==
  ASSUME PayoutInv, NEW w \in Workers, NEW to, NEW f, Control(w, to, f), Side, OwnOK(w)',
         UNCHANGED <<rows, idem, expired, leg>>,
         rail' \in [Requests -> {"none", "hung", "success", "failed", "reversed"}],
         \A q \in Requests : /\ rail[q] = "none" => rail'[q] = "none"
                             /\ rail[q] \in Moved => rail'[q] \in Moved
  PROVE  PayoutInv'
<1>1. TypeOK
  BY DEF PayoutInv
<1>2. TypeOK'
  BY <1>1 DEF TypeOK, Control, Side, Places, Frames, Nexts
<1>3. Steady(w)
  BY DEF Steady, Control
<1>4. StoreOK'
  BY DEF PayoutInv, StoreOK, Open
<1>5. PostedMoved' /\ OneDispatchPerKey' /\ DispatchRecorded'
  BY DEF PayoutInv, PostedMoved, OneDispatchPerKey, DispatchRecorded, Moved
<1>. QED BY <1>2, <1>3, <1>4, <1>5, KeptIsEnough DEF Kept, OwnOK

\* A leg is posted only where the rail has moved the value.
LEMMA LegStep ==
  ASSUME PayoutInv, NEW w \in Workers, NEW to, NEW f, Control(w, to, f), Side, OwnOK(w)',
         UNCHANGED <<rows, idem, expired, rail>>,
         leg' \in [Requests -> {"absent", "pending", "posted", "voided"}],
         \A q \in Requests : leg'[q] = "posted" => leg[q] = "posted" \/ rail[q] \in Moved
  PROVE  PayoutInv'
<1>1. TypeOK
  BY DEF PayoutInv
<1>2. TypeOK'
  BY <1>1 DEF TypeOK, Control, Side, Places, Frames, Nexts
<1>3. Steady(w)
  BY DEF Steady, Control
<1>4. StoreOK'
  BY DEF PayoutInv, StoreOK, Open
<1>5. PostedMoved' /\ OneDispatchPerKey' /\ DispatchRecorded'
  BY DEF PayoutInv, PostedMoved, OneDispatchPerKey, DispatchRecorded, Moved
<1>. QED BY <1>2, <1>3, <1>4, <1>5, KeptIsEnough DEF Kept, OwnOK

\* What the ledger's calls make of a leg.
LEMMA LegCalls ==
  ASSUME TypeOK, NEW r \in Requests, NEW l, l \in {leg, Posted(r), Voided(r)}
  PROVE  /\ l \in [Requests -> {"absent", "pending", "posted", "voided"}]
         /\ \A q \in Requests : l[q] = "posted" => leg[q] = "posted" \/ (q = r /\ l = Posted(r))
<1>1. leg \in [Requests -> {"absent", "pending", "posted", "voided"}]
  BY DEF TypeOK
<1>2. CASE l = leg
  BY <1>1, <1>2
<1>3. CASE l = Posted(r)
  BY <1>1, <1>3 DEF Posted
<1>4. CASE l = Voided(r)
  BY <1>1, <1>4 DEF Voided
<1>. QED BY <1>2, <1>3, <1>4

\* A call that returns, whatever it did.
LEMMA Returned ==
  ASSUME PayoutInv, NEW w \in Workers, Leave(w)
  PROVE  Control(w, Rest(w), NoFrame) /\ OwnOK(w)'
BY LeaveControl, LeaveOK DEF PayoutInv, OwnOK

\* What a step leaves of the side variables.
LEMMA SideKept ==
  ASSUME PayoutInv, Fault \/ NoFault, UNCHANGED <<outbox, started>>
  PROVE  Side
BY FaultTyped DEF PayoutInv, TypeOK, Side

-----------------------------------------------------------------------------
(* Payout and Refund.                                                      *)

\* Up to the name enquiry nothing is stored.
LEMMA BeginKept ==
  ASSUME PayoutInv, NEW r \in Requests, Begin(r)
  PROVE  PayoutInv'
<1> DEFINE to == IF SourceOf[r] = NoSource THEN "lookup" ELSE "check"
<1>1. TypeOK /\ RequestOK(r) /\ r \in Workers /\ r \notin Sweepers
  BY PayoutAssumption DEF PayoutInv, Workers
<1>2. Control(r, to, loc[r]) /\ owner'[ReplicaOf[r]] = r
  <2>1. /\ pc \in [Workers -> Places] /\ loc \in [Workers -> Frames]
        /\ owner \in [Replicas -> Requests \cup {NoSource}] /\ to \in Places
    BY <1>1 DEF TypeOK, Places, Frames, Nexts, Labels, PayoutLabels
  <2>. HIDE DEF to
  <2>2. /\ Goto(r, to) /\ UNCHANGED loc /\ owner[ReplicaOf[r]] = NoSource
        /\ owner' = [owner EXCEPT ![ReplicaOf[r]] = r]
    BY DEF Begin, to
  <2>3. ReplicaOf[r] \in Replicas /\ NoSource \notin Requests
    BY PayoutAssumption
  <2>4. /\ owner' \in [Replicas -> Requests \cup {NoSource}] /\ owner'[ReplicaOf[r]] = r
        /\ \A v \in Workers : Keeps(v)
    BY <2>1, <2>2, <2>3 DEF Keeps
  <2>5. /\ pc' \in [Workers -> Places] /\ loc' \in [Workers -> Frames]
        /\ pc'[r] = to /\ loc' = loc /\ \A v \in Workers \ {r} : pc'[v] = pc[v]
    BY <1>1, <2>1, <2>2 DEF Goto
  <2>. QED BY <2>4, <2>5 DEF Control
<1>3. pc[r] = "start" /\ rail' = rail /\ pc'[r] = to
  BY <1>2 DEF Begin, Control
<1>4. RequestOK(r)'
  <2>1. rail'[r] = "none"
    BY <1>1, <1>3 DEF RequestOK, Undispatched
  <2>2. ~Announced(r)' /\ ~Alone(r)'
    BY <1>3 DEF Announced, Alone
  <2>. QED BY <1>2, <1>3, <2>1, <2>2 DEF RequestOK, PayoutLabels
<1>5. Quiet /\ NoFault /\ UNCHANGED outbox /\ Start(r)
  BY DEF Begin, Quiet, NoFault, stored
<1>6. started' \in [Replicas -> BOOLEAN]
  BY <1>1, <1>5 DEF Start, TypeOK
<1>. HIDE DEF to
<1>. QED BY <1>1, <1>2, <1>4, <1>5, <1>6, QuietStep

LEMMA CheckSourceKept ==
  ASSUME PayoutInv, NEW r \in Requests, CheckSource(r)
  PROVE  PayoutInv'
<1>1. TypeOK /\ RequestOK(r) /\ r \in Workers /\ r \notin Sweepers
  BY PayoutAssumption DEF PayoutInv, Workers
<1>2. /\ Quiet /\ UNCHANGED <<outbox, started>> /\ (Fault \/ NoFault) /\ pc[r] = "check"
      /\ Stay(r, "lookup") \/ Leave(r)
  BY DEF CheckSource, Quiet, stored
<1>3. CASE Leave(r)
  BY <1>1, <1>2, <1>3, QuietLeave DEF PayoutInv, TypeOK
<1>4. CASE Stay(r, "lookup")
  <2>1. Control(r, "lookup", loc[r]) /\ owner' = owner
    BY <1>1, <1>4, StayControl DEF Places, Labels, PayoutLabels
  <2>2. pc'[r] = "lookup" /\ rail' = rail
    BY <1>2, <2>1 DEF Control, Quiet
  <2>3. RequestOK(r)'
    BY <1>1, <1>2, <2>1, <2>2 DEF RequestOK, Undispatched, Announced, Alone, PayoutLabels
  <2>. QED BY <1>1, <1>2, <2>1, <2>3, QuietStep DEF PayoutInv, TypeOK
<1>. QED BY <1>2, <1>3, <1>4

\* An unused key whose windows are open: nobody of it has been to the rail.
LEMMA UnusedKey ==
  ASSUME PayoutInv, NEW r \in Requests, Open(KeyOf[r]), idem[KeyOf[r]] = NoTransfer
  PROVE  NobodyElse(r)
<1>1. ASSUME NEW q \in Requests, KeyOf[q] = KeyOf[r] PROVE rail[q] = "none"
  <2>1. rows[q] = NoTransfer
    BY <1>1 DEF PayoutInv, StoreOK
  <2>. QED BY <2>1 DEF PayoutInv, DispatchRecorded
<1>. QED BY <1>1 DEF NobodyElse

\* The lookup finds a key with open windows unused, or returns.
LEMMA LookupKept ==
  ASSUME PayoutInv, NEW r \in Requests, Lookup(r)
  PROVE  PayoutInv'
<1>1. TypeOK /\ RequestOK(r) /\ r \in Workers /\ r \notin Sweepers /\ KeyOf[r] \in Keys
  BY PayoutAssumption DEF PayoutInv, Workers
<1>2. /\ Quiet /\ UNCHANGED <<outbox, started>> /\ (Fault \/ NoFault) /\ pc[r] = "lookup"
      /\ Leave(r) \/ (Stay(r, "enquire") /\ (idem[KeyOf[r]] = NoTransfer \/ idem[KeyOf[r]].req \in expired))
  BY DEF Lookup, Quiet, stored
<1>3. CASE Leave(r)
  BY <1>1, <1>2, <1>3, QuietLeave DEF PayoutInv, TypeOK
<1>4. CASE /\ Stay(r, "enquire")
           /\ idem[KeyOf[r]] = NoTransfer \/ idem[KeyOf[r]].req \in expired
  <2>1. Control(r, "enquire", loc[r]) /\ owner' = owner
    BY <1>1, <1>4, StayControl DEF Places, Labels, PayoutLabels
  <2>2. pc'[r] = "enquire" /\ UNCHANGED <<rail, idem, expired>>
    BY <1>2, <2>1 DEF Control, Quiet
  <2>3. Open(KeyOf[r]) => NobodyElse(r)
    <3>1. idem[KeyOf[r]] # NoTransfer => KeyOf[idem[KeyOf[r]].req] = KeyOf[r]
      BY <1>1 DEF PayoutInv, StoreOK
    <3>2. expired \subseteq Requests
      BY <1>1 DEF TypeOK
    <3>. QED BY <1>4, <3>1, <3>2, UnusedKey DEF Open
  <2>4. (Open(KeyOf[r])' <=> Open(KeyOf[r])) /\ (NobodyElse(r)' <=> NobodyElse(r))
    BY <2>2 DEF Open, NobodyElse
  <2>5. RequestOK(r)'
    BY <1>1, <1>2, <2>1, <2>2, <2>3, <2>4 DEF RequestOK, Undispatched, Announced, Alone, PayoutLabels
  <2>. QED BY <1>1, <1>2, <2>1, <2>5, QuietStep DEF PayoutInv, TypeOK
<1>. QED BY <1>2, <1>3, <1>4

LEMMA NameEnquiryKept ==
  ASSUME PayoutInv, NEW r \in Requests, NameEnquiry(r)
  PROVE  PayoutInv'
<1> DEFINE t == [req |-> r, status |-> "in_flight", leg |-> FALSE]
<1>1. TypeOK /\ RequestOK(r) /\ r \in Workers /\ r \notin Sweepers
  BY PayoutAssumption DEF PayoutInv, Workers
<1>2. /\ Quiet /\ UNCHANGED <<outbox, started>> /\ NoFault /\ pc[r] = "enquire"
      /\ Leave(r) \/ (Goto(r, "putKey") /\ Frame(r, t, "dispatch") /\ UNCHANGED owner)
  BY DEF NameEnquiry, Quiet, stored, NoFault
<1>3. CASE Leave(r)
  BY <1>1, <1>2, <1>3, QuietLeave DEF PayoutInv, TypeOK
<1>4. CASE Goto(r, "putKey") /\ Frame(r, t, "dispatch") /\ UNCHANGED owner
  <2>1. t \in Transfers /\ t.req = r /\ t.status = "in_flight"
    BY NewTransfer DEF Statuses
  <2>. HIDE DEF t
  <2>2. Control(r, "putKey", [t |-> t, next |-> "dispatch"])
    BY <1>1, <1>4, <2>1, FrameControl DEF Places, Labels, PayoutLabels, Nexts
  <2>3. pc'[r] = "putKey" /\ loc'[r].t = t /\ UNCHANGED <<rail, idem, expired, owner>>
    BY <1>2, <1>4, <2>2 DEF Control, Quiet
  <2>4. (Open(KeyOf[r])' <=> Open(KeyOf[r])) /\ (NobodyElse(r)' <=> NobodyElse(r))
    BY <2>3 DEF Open, NobodyElse
  <2>5. RequestOK(r)'
    BY <1>1, <1>2, <2>1, <2>3, <2>4 DEF RequestOK, Undispatched, Announced, Alone, PayoutLabels
  <2>. QED BY <1>1, <1>2, <2>2, <2>5, QuietStep DEF PayoutInv, TypeOK
<1>. QED BY <1>2, <1>3, <1>4

\* What is known of a request in one place.
LEMMA RequestFacts ==
  ASSUME PayoutInv, NEW r \in Requests
  PROVE  TypeOK /\ RequestOK(r) /\ r \in Workers /\ r \notin Sweepers /\ KeyOf[r] \in Keys
BY PayoutAssumption DEF PayoutInv, Workers

\* Where the code goes on is a place.
LEMMA PlaceNames ==
  /\ PayoutLabels \subseteq Places /\ SweepLabels \subseteq Places
  /\ {"saveRow", "saveKey", "publish"} \subseteq Places
BY DEF Places, Labels

\* The durable record under the key.
LEMMA PutInFlightKeyKept ==
  ASSUME PayoutInv, NEW r \in Requests, PutInFlightKey(r)
  PROVE  PayoutInv'
<1> DEFINE t == loc[r].t
<1>1. TypeOK /\ RequestOK(r) /\ r \in Workers /\ r \notin Sweepers /\ KeyOf[r] \in Keys
  BY RequestFacts
<1>2. /\ UNCHANGED <<rows, outbox, expired, rail, leg, started>> /\ (Fault \/ NoFault) /\ pc[r] = "putKey"
      /\ Leave(r) \/ (Stay(r, "putRow") /\ PutKey(t))
      /\ PutKey(t) \/ UNCHANGED idem
  BY DEF PutInFlightKey, PutKeyFails
<1>3. t \in Transfers /\ t.req = r /\ owner[ReplicaOf[r]] = r /\ Side
  BY <1>1, <1>2, SideKept DEF RequestOK
<1>. HIDE DEF t
<1>4. CASE Leave(r)
  BY <1>1, <1>2, <1>3, <1>4, Returned, KeyStep
<1>5. CASE Stay(r, "putRow") /\ PutKey(t)
  <2>1. Control(r, "putRow", loc[r]) /\ owner' = owner
    BY <1>1, <1>5, StayControl, PlaceNames DEF PayoutLabels
  <2>2. pc'[r] = "putRow" /\ loc'[r] = loc[r]
    BY <2>1 DEF Control
  <2>3. idem'[KeyOf[r]] = t /\ t # NoTransfer
    BY <1>1, <1>3, <1>5, TransferExists DEF PutKey, TypeOK
  <2>4. (Open(KeyOf[r])' <=> Open(KeyOf[r])) /\ (NobodyElse(r)' <=> NobodyElse(r))
    BY <1>2 DEF Open, NobodyElse
  <2>6. RequestOK(r)'
    BY <1>1, <1>2, <1>3, <2>1, <2>2, <2>3, <2>4 DEF RequestOK, Undispatched, Announced, Alone, PayoutLabels
  <2>. QED BY <1>1, <1>2, <1>3, <2>1, <2>6, KeyStep DEF OwnOK
<1>. QED BY <1>2, <1>4, <1>5

\* The durable record under the session.
LEMMA PutInFlightRowKept ==
  ASSUME PayoutInv, NEW r \in Requests, PutInFlightRow(r)
  PROVE  PayoutInv'
<1> DEFINE t == loc[r].t
<1>1. TypeOK /\ RequestOK(r) /\ r \in Workers /\ r \notin Sweepers /\ KeyOf[r] \in Keys
  BY RequestFacts
<1>2. /\ UNCHANGED <<idem, outbox, expired, rail, leg, started>> /\ (Fault \/ NoFault) /\ pc[r] = "putRow"
      /\ Leave(r) \/ (Stay(r, "hold") /\ PutRow(t))
      /\ PutRow(t) \/ UNCHANGED rows
  BY DEF PutInFlightRow, PutRowFails
<1>3. /\ t \in Transfers /\ t.req = r /\ Side
      /\ Open(KeyOf[r]) => idem[KeyOf[r]] # NoTransfer
  BY <1>1, <1>2, SideKept DEF RequestOK
<1>. HIDE DEF t
<1>4. CASE Leave(r)
  BY <1>1, <1>2, <1>3, <1>4, Returned, RowStep
<1>5. CASE Stay(r, "hold") /\ PutRow(t)
  <2>1. Control(r, "hold", loc[r]) /\ owner' = owner
    BY <1>1, <1>5, StayControl, PlaceNames DEF PayoutLabels
  <2>2. pc'[r] = "hold" /\ loc'[r] = loc[r]
    BY <2>1 DEF Control
  <2>3. rows'[r] = t /\ t # NoTransfer
    BY <1>1, <1>3, <1>5, TransferExists DEF PutRow, TypeOK
  <2>4. (Open(KeyOf[r])' <=> Open(KeyOf[r])) /\ (NobodyElse(r)' <=> NobodyElse(r))
    BY <1>2 DEF Open, NobodyElse
  <2>5. RequestOK(r)'
    BY <1>1, <1>2, <1>3, <2>1, <2>2, <2>3, <2>4 DEF RequestOK, Undispatched, Announced, Alone, PayoutLabels
  <2>. QED BY <1>1, <1>2, <1>3, <2>1, <2>5, RowStep DEF OwnOK
<1>. QED BY <1>2, <1>4, <1>5

\* The pending leg.
LEMMA PendingLegKept ==
  ASSUME PayoutInv, NEW r \in Requests, PendingLeg(r)
  PROVE  PayoutInv'
<1> DEFINE t == [loc[r].t EXCEPT !.leg = TRUE]
           held == [leg EXCEPT ![r] = "pending"]
<1>1. TypeOK /\ RequestOK(r) /\ r \in Workers /\ r \notin Sweepers /\ KeyOf[r] \in Keys
  BY RequestFacts
<1>2. /\ UNCHANGED <<rows, idem, outbox, expired, rail, started>> /\ (Fault \/ NoFault) /\ pc[r] = "hold"
      /\ Leave(r) \/ (Goto(r, "saveRow") /\ Frame(r, t, "dispatch") /\ UNCHANGED owner)
      /\ leg' \in {leg, held}
  BY DEF PendingLeg, stored
<1>3. loc[r].t \in Transfers /\ loc[r].t.req = r /\ loc[r].t.status = "in_flight" /\ Side
  BY <1>1, <1>2, SideKept DEF RequestOK, Announced, Undispatched
<1>4. /\ leg' \in [Requests -> {"absent", "pending", "posted", "voided"}]
      /\ \A q \in Requests : leg'[q] = "posted" => leg[q] = "posted"
  BY <1>1, <1>2 DEF TypeOK
<1>5. t \in Transfers /\ t.req = r /\ t.status = "in_flight"
  BY <1>3, TransferUpdates
<1>. HIDE DEF t, held
<1>6. CASE Leave(r)
  BY <1>1, <1>2, <1>3, <1>4, <1>6, Returned, LegStep
<1>7. CASE Goto(r, "saveRow") /\ Frame(r, t, "dispatch") /\ UNCHANGED owner
  <2>1. Control(r, "saveRow", [t |-> t, next |-> "dispatch"])
    BY <1>1, <1>5, <1>7, FrameControl, PlaceNames DEF Nexts
  <2>2. pc'[r] = "saveRow" /\ loc'[r].t = t /\ loc'[r].next = "dispatch"
    BY <2>1 DEF Control
  <2>3. (Open(KeyOf[r])' <=> Open(KeyOf[r])) /\ (NobodyElse(r)' <=> NobodyElse(r))
    BY <1>2 DEF Open, NobodyElse
  <2>4. RequestOK(r)'
    BY <1>1, <1>2, <1>5, <1>7, <2>2, <2>3 DEF RequestOK, Undispatched, Announced, Alone, PayoutLabels
  <2>. QED BY <1>1, <1>2, <1>3, <1>4, <2>1, <2>4, LegStep DEF OwnOK
<1>. QED BY <1>2, <1>6, <1>7

\* The one call of the rail.  The record is there, and nobody else of the key
\* has called it.
LEMMA DispatchKept ==
  ASSUME PayoutInv, NEW r \in Requests, Dispatch(r)
  PROVE  PayoutInv'
<1>1. TypeOK /\ RequestOK(r) /\ r \in Workers /\ r \notin Sweepers /\ KeyOf[r] \in Keys
  BY RequestFacts
<1>2. /\ UNCHANGED <<rows, idem, outbox, expired, leg, owner, started>> /\ (Fault \/ NoFault)
      /\ pc[r] = "dispatch" /\ Announced(r) /\ Undispatched(r) /\ Alone(r)
  BY DEF Dispatch, stored, Announced, Undispatched, Alone
<1>3. /\ loc[r].t \in Transfers /\ loc[r].t.req = r /\ loc[r].t.status = "in_flight"
      /\ owner[ReplicaOf[r]] = r /\ Side /\ rows[r] # NoTransfer
  BY <1>1, <1>2, SideKept DEF RequestOK
<1>4. /\ rail' \in [Requests -> {"none", "hung", "success", "failed", "reversed"}]
      /\ \A q \in Requests \ {r} : rail'[q] = rail[q]
      /\ rail'[r] \in {"none", "success", "failed", "hung"}
  <2>1. rail' \in UncertainTransfer(r)
    BY DEF Dispatch, UncertainTransfer
  <2>2. rail[r] = "none"
    BY <1>1, <1>2 DEF RequestOK
  <2>. QED BY <1>1, <2>1, <2>2 DEF UncertainTransfer, FundsTransfer, TypeOK
<1>5. PICK t \in Transfers, to \in {"settle", "saveRow"} :
        /\ t.req = r /\ (t.status = "success" => rail'[r] = "success")
        /\ Goto(r, to) /\ Frame(r, t, "done")
  <2>1. ASSUME rail' \in FundsTransfer(r),
               Frame(r, [loc[r].t EXCEPT !.status = Answer(rail'[r])], "done"), Goto(r, "settle")
        PROVE  \E t \in Transfers, to \in {"settle", "saveRow"} :
                 /\ t.req = r /\ (t.status = "success" => rail'[r] = "success")
                 /\ Goto(r, to) /\ Frame(r, t, "done")
    <3>1. rail'[r] \in {"success", "failed", "hung"}
      BY <1>1, <2>1 DEF FundsTransfer, TypeOK
    <3>2. Answer(rail'[r]) \in Statuses /\ (Answer(rail'[r]) = "success" => rail'[r] = "success")
      BY <3>1 DEF Answer, Statuses
    <3> DEFINE u == [loc[r].t EXCEPT !.status = Answer(rail'[r])]
    <3>3. u \in Transfers /\ u.req = r /\ u.status = Answer(rail'[r])
      BY <1>3, <3>2, TransferUpdates
    <3>. HIDE DEF u
    <3>4. Frame(r, u, "done")
      BY <2>1 DEF u
    <3>. QED BY <2>1, <3>2, <3>3, <3>4
  <2>2. ASSUME Frame(r, loc[r].t, "done"), Goto(r, "settle") \/ Goto(r, "saveRow")
        PROVE  \E t \in Transfers, to \in {"settle", "saveRow"} :
                 /\ t.req = r /\ (t.status = "success" => rail'[r] = "success")
                 /\ Goto(r, to) /\ Frame(r, t, "done")
    BY <1>3, <2>2
  <2>. QED BY <2>1, <2>2 DEF Dispatch, Goto
<1>6. Control(r, to, [t |-> t, next |-> "done"])
  BY <1>1, <1>2, <1>5, FrameControl, PlaceNames DEF Nexts, PayoutLabels
<1>7. pc'[r] = to /\ loc'[r].t = t /\ loc'[r].next = "done"
  BY <1>6 DEF Control
<1>8. RequestOK(r)'
  <2>1. ~Undispatched(r)' /\ ~Announced(r)' /\ ~Alone(r)'
    BY <1>7 DEF Undispatched, Announced, Alone
  <2>2. Open(KeyOf[r])' <=> Open(KeyOf[r])
    BY <1>2 DEF Open
  <2>. QED BY <1>1, <1>2, <1>3, <1>5, <1>7, <2>1, <2>2 DEF RequestOK, PayoutLabels, Moved
<1>9. TypeOK'
  BY <1>1, <1>2, <1>3, <1>4, <1>6 DEF TypeOK, Control, Side, Places, Frames, Nexts
<1>10. Steady(r)
  <2>1. rail[r] = "none"
    BY <1>1, <1>2 DEF RequestOK
  <2>. QED BY <1>2, <1>3, <1>4, <1>6, <2>1 DEF Steady, Control, Moved
<1>11. StoreOK'
  BY <1>2 DEF PayoutInv, StoreOK, Open
<1>12. PostedMoved' /\ DispatchRecorded'
  <2>1. rail[r] = "none"
    BY <1>1, <1>2 DEF RequestOK
  <2>. QED BY <1>2, <1>3, <1>4, <2>1 DEF PayoutInv, PostedMoved, DispatchRecorded
<1>13. OneDispatchPerKey'
  <2>1. Open(KeyOf[r]) => NobodyElse(r)
    BY <1>1, <1>2 DEF RequestOK
  <2>2. \A p \in Requests : expired \cap {q \in Requests : KeyOf[q] = KeyOf[p]} = {} => Open(KeyOf[p])
    BY DEF Open
  <2>. QED BY <1>2, <1>4, <2>1, <2>2 DEF PayoutInv, OneDispatchPerKey, NobodyElse
<1>. QED BY <1>1, <1>8, <1>9, <1>10, <1>11, <1>12, <1>13, KeptIsEnough DEF Kept

\* The leg follows the answer.
LEMMA SettleKept ==
  ASSUME PayoutInv, NEW r \in Requests, Settle(r)
  PROVE  PayoutInv'
<1>1. TypeOK /\ RequestOK(r) /\ r \in Workers /\ r \notin Sweepers /\ KeyOf[r] \in Keys
  BY RequestFacts
<1>2. UNCHANGED <<rows, idem, outbox, expired, rail, started>> /\ pc[r] = "settle"
  BY DEF Settle, stored
<1>3. /\ Leave(r) \/ Stay(r, "endKey")
      /\ Fault \/ NoFault
      /\ leg' \in {leg, Posted(r), Voided(r)}
      /\ leg' = Posted(r) => leg' = leg \/ loc[r].t.status = "success" \/ leg' = Voided(r)
  BY DEF Settle, MaybePosted
<1>4. Side
  BY <1>2, <1>3, SideKept
<1>5. /\ leg' \in [Requests -> {"absent", "pending", "posted", "voided"}]
      /\ \A q \in Requests : leg'[q] = "posted" => leg[q] = "posted" \/ rail[q] \in Moved
  <2>1. loc[r].t.status = "success" => rail[r] \in Moved
    BY <1>1, <1>2 DEF RequestOK
  <2>2. CASE leg' = Posted(r) /\ loc[r].t.status = "success"
    BY <1>1, <2>1, <2>2, LegCalls
  <2>3. CASE leg' = leg \/ leg' = Voided(r)
    BY <1>1, <2>3 DEF TypeOK, Voided
  <2>. QED BY <1>3, <2>2, <2>3
<1>6. CASE Leave(r)
  BY <1>1, <1>2, <1>4, <1>5, <1>6, Returned, LegStep
<1>7. CASE Stay(r, "endKey")
  <2>1. Control(r, "endKey", loc[r]) /\ owner' = owner
    BY <1>1, <1>7, StayControl, PlaceNames DEF PayoutLabels
  <2>2. pc'[r] = "endKey" /\ loc'[r] = loc[r]
    BY <2>1 DEF Control
  <2>3. Open(KeyOf[r])' <=> Open(KeyOf[r])
    BY <1>2 DEF Open
  <2>4. RequestOK(r)'
    BY <1>1, <1>2, <2>1, <2>2, <2>3 DEF RequestOK, Undispatched, Announced, Alone, PayoutLabels
  <2>. QED BY <1>1, <1>2, <1>4, <1>5, <2>1, <2>4, LegStep DEF OwnOK
<1>. QED BY <1>3, <1>6, <1>7

\* The final record under the key.
LEMMA EndKeyKept ==
  ASSUME PayoutInv, NEW r \in Requests, EndKey(r)
  PROVE  PayoutInv'
<1> DEFINE t == loc[r].t
<1>1. TypeOK /\ RequestOK(r) /\ r \in Workers /\ r \notin Sweepers /\ KeyOf[r] \in Keys
  BY RequestFacts
<1>2. /\ UNCHANGED <<rows, outbox, expired, rail, leg, started>> /\ (Fault \/ NoFault) /\ pc[r] = "endKey"
      /\ Leave(r) \/ (Stay(r, "endRow") /\ PutKey(t))
      /\ PutKey(t) \/ UNCHANGED idem
  BY DEF EndKey, PutKeyFails
<1>3. t \in Transfers /\ t.req = r /\ owner[ReplicaOf[r]] = r /\ Side
  BY <1>1, <1>2, SideKept DEF RequestOK
<1>. HIDE DEF t
<1>4. CASE Leave(r)
  BY <1>1, <1>2, <1>3, <1>4, Returned, KeyStep
<1>5. CASE Stay(r, "endRow") /\ PutKey(t)
  <2>1. Control(r, "endRow", loc[r]) /\ owner' = owner
    BY <1>1, <1>5, StayControl, PlaceNames DEF PayoutLabels
  <2>2. pc'[r] = "endRow" /\ loc'[r] = loc[r]
    BY <2>1 DEF Control
  <2>3. idem'[KeyOf[r]] = t /\ t # NoTransfer
    BY <1>1, <1>3, <1>5, TransferExists DEF PutKey, TypeOK
  <2>4. RequestOK(r)'
    BY <1>1, <1>2, <1>3, <2>1, <2>2, <2>3 DEF RequestOK, Undispatched, Announced, Alone, PayoutLabels
  <2>. QED BY <1>1, <1>2, <1>3, <2>1, <2>4, KeyStep DEF OwnOK
<1>. QED BY <1>2, <1>4, <1>5

\* The final record under the session.
LEMMA EndRowKept ==
  ASSUME PayoutInv, NEW r \in Requests, EndRow(r)
  PROVE  PayoutInv'
<1> DEFINE t == loc[r].t
<1>1. TypeOK /\ RequestOK(r) /\ r \in Workers /\ r \notin Sweepers /\ KeyOf[r] \in Keys
  BY RequestFacts
<1>2. /\ UNCHANGED <<idem, outbox, expired, rail, leg, started>> /\ (Fault \/ NoFault) /\ pc[r] = "endRow"
      /\ Leave(r) \/ (Stay(r, "publish") /\ PutRow(t))
      /\ PutRow(t) \/ UNCHANGED rows
  BY DEF EndRow, PutRowFails
<1>3. /\ t \in Transfers /\ t.req = r /\ Side
      /\ Open(KeyOf[r]) => idem[KeyOf[r]] # NoTransfer
  BY <1>1, <1>2, SideKept DEF RequestOK
<1>. HIDE DEF t
<1>4. CASE Leave(r)
  BY <1>1, <1>2, <1>3, <1>4, Returned, RowStep
<1>5. CASE Stay(r, "publish") /\ PutRow(t)
  <2>1. Control(r, "publish", loc[r]) /\ owner' = owner
    BY <1>1, <1>5, StayControl, PlaceNames
  <2>2. pc'[r] = "publish" /\ loc'[r] = loc[r]
    BY <2>1 DEF Control
  <2>3. Open(KeyOf[r])' <=> Open(KeyOf[r])
    BY <1>2 DEF Open
  <2>4. RequestOK(r)'
    BY <1>1, <1>2, <1>3, <2>1, <2>2, <2>3 DEF RequestOK, Undispatched, Announced, Alone, PayoutLabels
  <2>. QED BY <1>1, <1>2, <1>3, <2>1, <2>4, RowStep DEF OwnOK
<1>. QED BY <1>2, <1>4, <1>5

-----------------------------------------------------------------------------
(* put and publish, of a payout or of a sweeper.                           *)

\* Whoever saves or publishes has a transfer whose key is in use.
LEMMA SaverFacts ==
  ASSUME PayoutInv, NEW w \in Workers, pc[w] \in {"saveRow", "saveKey", "publish"}
  PROVE  /\ TypeOK /\ loc[w].t \in Transfers /\ loc[w].t.req \in Requests
         /\ Open(KeyOf[loc[w].t.req]) => idem[KeyOf[loc[w].t.req]] # NoTransfer
         /\ w \in Requests => w \notin Sweepers /\ RequestOK(w) /\ loc[w].t.req = w
         /\ w \in Sweepers => w \notin Requests /\ SweeperOK(w)
<1>1. CASE w \in Requests
  <2>1. w \notin Sweepers /\ RequestOK(w) /\ TypeOK
    BY <1>1, PayoutAssumption DEF PayoutInv
  <2>. QED BY <1>1, <2>1 DEF RequestOK
<1>2. CASE w \in Sweepers
  <2>1. w \notin Requests /\ SweeperOK(w) /\ TypeOK
    BY <1>2, PayoutAssumption DEF PayoutInv
  <2>2. loc[w].t \in Transfers /\ loc[w].t.req \in Requests
    BY <2>1, TransferUpdates DEF SweeperOK
  <2>. QED BY <1>2, <2>1, <2>2 DEF SweeperOK
<1>. QED BY <1>1, <1>2 DEF Workers

LEMMA SaveRowKept ==
  ASSUME PayoutInv, NEW w \in Workers, SaveRow(w)
  PROVE  PayoutInv'
<1> DEFINE t == loc[w].t
<1>1. /\ UNCHANGED <<idem, outbox, expired, rail, leg, started>> /\ (Fault \/ NoFault)
      /\ pc[w] = "saveRow" /\ Stay(w, "saveKey")
      /\ PutRow(t) \/ UNCHANGED rows
  BY DEF SaveRow, PutRowFails
<1>2. /\ TypeOK /\ t \in Transfers /\ t.req \in Requests /\ Side
      /\ Open(KeyOf[t.req]) => idem[KeyOf[t.req]] # NoTransfer
      /\ w \in Requests => w \notin Sweepers /\ RequestOK(w) /\ t.req = w
      /\ w \in Sweepers => w \notin Requests /\ SweeperOK(w)
  BY <1>1, SaverFacts, SideKept
<1>3. Control(w, "saveKey", loc[w]) /\ owner' = owner
  BY <1>1, <1>2, StayControl, PlaceNames
<1>4. pc'[w] = "saveKey" /\ loc'[w] = loc[w]
  BY <1>3 DEF Control
<1>5. ASSUME w \in Requests PROVE RequestOK(w)'
  <2>1. rows[w] # NoTransfer => rows'[w] # NoTransfer
    <3>1. t # NoTransfer /\ t.req = w /\ w \in DOMAIN rows
      BY <1>2, <1>5, TransferExists DEF TypeOK
    <3>. HIDE DEF t
    <3>. QED BY <1>1, <3>1 DEF PutRow
  <2>2. (Open(KeyOf[w])' <=> Open(KeyOf[w])) /\ (NobodyElse(w)' <=> NobodyElse(w))
    BY <1>1 DEF Open, NobodyElse
  <2>. QED BY <1>1, <1>2, <1>3, <1>4, <1>5, <2>1, <2>2 DEF RequestOK, Undispatched, Announced, Alone
<1>6. ASSUME w \in Sweepers PROVE SweeperOK(w)'
  <2>1. Open(KeyOf[loc[w].t.req])' <=> Open(KeyOf[loc[w].t.req])
    BY <1>1, <1>4 DEF Open
  <2>. QED BY <1>1, <1>2, <1>4, <1>6, <2>1 DEF SweeperOK
<1>. HIDE DEF t
<1>. QED BY <1>1, <1>2, <1>3, <1>5, <1>6, RowStep DEF OwnOK

LEMMA SaveKeyKept ==
  ASSUME PayoutInv, NEW w \in Workers, SaveKey(w)
  PROVE  PayoutInv'
<1> DEFINE t == loc[w].t
<1>1. /\ UNCHANGED <<rows, outbox, expired, rail, leg, started>> /\ (Fault \/ NoFault)
      /\ pc[w] = "saveKey"
      /\ Leave(w) \/ (loc[w].next # "done" /\ Stay(w, loc[w].next))
      /\ PutKey(t) \/ UNCHANGED idem
  BY DEF SaveKey, PutKeyFails
<1>2. /\ TypeOK /\ t \in Transfers /\ t.req \in Requests /\ Side
      /\ Open(KeyOf[t.req]) => idem[KeyOf[t.req]] # NoTransfer
      /\ w \in Requests => w \notin Sweepers /\ RequestOK(w) /\ t.req = w
      /\ w \in Sweepers => w \notin Requests /\ SweeperOK(w)
  BY <1>1, SaverFacts, SideKept
<1>3. CASE Leave(w)
  <2>. HIDE DEF t
  <2>. QED BY <1>1, <1>2, <1>3, Returned, KeyStep
<1>4. CASE loc[w].next # "done" /\ Stay(w, loc[w].next)
  <2>1. /\ loc[w].next \in {"dispatch", "publish"}
        /\ w \in Requests => loc[w].next = "dispatch"
        /\ w \in Sweepers => loc[w].next = "publish"
    BY <1>1, <1>2, <1>4 DEF RequestOK, SweeperOK, Workers
  <2>2. Control(w, loc[w].next, loc[w]) /\ owner' = owner
    BY <1>2, <1>4, <2>1, StayControl, PlaceNames DEF PayoutLabels
  <2>3. pc'[w] = loc[w].next /\ loc'[w] = loc[w]
    BY <2>2 DEF Control
  <2>4. Open(KeyOf[t.req])' <=> Open(KeyOf[t.req])
    BY <1>1, <2>3 DEF Open
  <2>5. Open(KeyOf[t.req]) => idem'[KeyOf[t.req]] # NoTransfer
    <3>1. KeyOf[t.req] \in Keys /\ t # NoTransfer
      BY <1>2, PayoutAssumption, TransferExists
    <3>. HIDE DEF t
    <3>. QED BY <1>1, <1>2, <3>1 DEF PutKey, TypeOK
  <2>6. ASSUME w \in Requests PROVE RequestOK(w)'
    <3>1. Undispatched(w) /\ Announced(w) /\ Undispatched(w)' /\ Announced(w)' /\ Alone(w)
      BY <1>1, <2>1, <2>3, <2>6 DEF Undispatched, Announced, Alone
    <3>2. NobodyElse(w)' <=> NobodyElse(w)
      BY <1>1 DEF NobodyElse
    <3>. QED BY <1>1, <1>2, <2>1, <2>2, <2>3, <2>4, <2>5, <2>6, <3>1, <3>2 DEF RequestOK, PayoutLabels
  <2>7. ASSUME w \in Sweepers PROVE SweeperOK(w)'
    BY <1>1, <1>2, <2>1, <2>3, <2>4, <2>5, <2>7 DEF SweeperOK
  <2>. HIDE DEF t
  <2>. QED BY <1>1, <1>2, <2>2, <2>6, <2>7, KeyStep DEF OwnOK
<1>. QED BY <1>1, <1>3, <1>4

LEMMA PublishKept ==
  ASSUME PayoutInv, NEW w \in Workers, Publish(w)
  PROVE  PayoutInv'
<1>1. /\ UNCHANGED started /\ Quiet /\ (Fault \/ NoFault) /\ pc[w] = "publish" /\ Leave(w)
      /\ outbox' \in {outbox, [outbox EXCEPT ![loc[w].t.req] = loc[w].t.status]}
  BY DEF Publish, Quiet
<1>2. TypeOK /\ loc[w].t \in Transfers
  BY <1>1, SaverFacts
<1>3. loc[w].t.status \in Statuses
  BY <1>2, TransferUpdates
<1>4. outbox' \in [Requests -> Statuses \cup {"none"}]
  BY <1>1, <1>2, <1>3 DEF TypeOK
<1>. QED BY <1>1, <1>4, QuietLeave

-----------------------------------------------------------------------------
(* SweepTSQ and Reversal.                                                  *)

\* What is known of a sweeper that is on a transfer.
LEMMA SweeperFacts ==
  ASSUME PayoutInv, NEW w \in Sweepers
  PROVE  /\ TypeOK /\ SweeperOK(w) /\ w \in Workers /\ w \notin Requests
         /\ pc[w] # "idle" => loc[w].t \in Transfers /\ loc[w].t.req \in Requests
<1>1. TypeOK /\ SweeperOK(w) /\ w \in Workers /\ w \notin Requests
  BY PayoutAssumption DEF PayoutInv, Workers
<1>2. pc[w] # "idle" => loc[w].t \in Transfers
  BY <1>1 DEF SweeperOK
<1>. QED BY <1>1, <1>2, TransferUpdates

\* A call that starts.
LEMMA CalledSide ==
  ASSUME PayoutInv, NEW w \in Sweepers, Called(w), UNCHANGED outbox
  PROVE  pc[w] = "idle" /\ (Fault \/ NoFault) /\ started' \in [Replicas -> BOOLEAN] /\ UNCHANGED outbox
BY DEF Called, NoFault, Start, PayoutInv, TypeOK

\* A stored transfer's key is in use while its windows are open.
LEMMA StoredUsed ==
  ASSUME PayoutInv, NEW q \in Requests, NEW t \in Copies(q)
  PROVE  /\ t \in Transfers /\ t.req = q
         /\ Open(KeyOf[q]) => idem[KeyOf[q]] # NoTransfer
<1>1. /\ t \in Transfers /\ t.req = q /\ t # NoTransfer
      /\ t = rows[q] \/ \E k \in Keys : t = idem[k]
  BY CopyStored, TransferExists
<1>. QED BY <1>1 DEF PayoutInv, StoreOK

\* A sweeper goes on with a transfer whose key is in use.
LEMMA SweeperOn ==
  ASSUME PayoutInv, NEW w \in Sweepers, NEW to \in {"tsq", "void", "read", "reverse", "publish", "saveRow"},
         NEW t \in Transfers, NEW next, Control(w, to, [t |-> t, next |-> next]),
         to = "saveRow" => next = "publish",
         UNCHANGED <<idem, expired>>,
         Open(KeyOf[t.req]) => idem[KeyOf[t.req]] # NoTransfer
  PROVE  OwnOK(w)'
<1>1. pc'[w] = to /\ loc'[w].t = t /\ loc'[w].next = next
  BY DEF Control
<1>2. Open(KeyOf[t.req])' <=> Open(KeyOf[t.req])
  BY DEF Open
<1>3. w \notin Requests
  BY PayoutAssumption
<1>4. SweeperOK(w)'
  BY <1>1, <1>2 DEF SweeperOK, SweepLabels
<1>. QED BY <1>3, <1>4 DEF OwnOK

LEMMA SweepListKept ==
  ASSUME PayoutInv, NEW w \in Sweepers, SweepList(w)
  PROVE  PayoutInv'
<1>1. TypeOK /\ w \in Workers /\ w \notin Requests
  BY SweeperFacts
<1>2. UNCHANGED <<outbox, owner>> /\ Quiet /\ Called(w) /\ Goto(w, "tsq")
  BY DEF SweepList, Quiet, stored
<1>3. PICK q \in Requests : \E t \in Copies(q) : Frame(w, t, "publish")
  BY DEF SweepList
<1>. PICK t \in Copies(q) : Frame(w, t, "publish")
  BY <1>3
<1>4. t \in Transfers /\ t.req = q /\ (Open(KeyOf[q]) => idem[KeyOf[q]] # NoTransfer)
  BY StoredUsed
<1>5. Control(w, "tsq", [t |-> t, next |-> "publish"])
  BY <1>1, <1>2, <1>3, <1>4, FrameControl, PlaceNames DEF SweepLabels, Nexts
<1>6. OwnOK(w)'
  BY <1>2, <1>4, <1>5, SweeperOn DEF Quiet
<1>. QED BY <1>1, <1>2, <1>5, <1>6, CalledSide, QuietStep DEF OwnOK

LEMMA CallReversalKept ==
  ASSUME PayoutInv, NEW w \in Operators, NEW r \in Requests, CallReversal(w, r)
  PROVE  PayoutInv'
<1>1. TypeOK /\ w \in Sweepers /\ w \in Workers /\ w \notin Requests
  BY SweeperFacts DEF Sweepers
<1>2. /\ UNCHANGED <<outbox, owner>> /\ Quiet /\ Called(w) /\ Goto(w, "read")
      /\ Frame(w, rows[r], "publish") /\ rows[r] # NoTransfer
  BY DEF CallReversal, Quiet, stored
<1>3. rows[r] \in Transfers /\ rows[r].req = r /\ (Open(KeyOf[r]) => idem[KeyOf[r]] # NoTransfer)
  BY <1>1, <1>2 DEF PayoutInv, StoreOK, TypeOK
<1>4. Control(w, "read", [t |-> rows[r], next |-> "publish"])
  BY <1>1, <1>2, <1>3, FrameControl, PlaceNames DEF SweepLabels, Nexts
<1>5. OwnOK(w)'
  BY <1>1, <1>2, <1>3, <1>4, SweeperOn DEF Quiet
<1>. QED BY <1>1, <1>2, <1>4, <1>5, CalledSide, QuietStep DEF OwnOK

\* The answer of the status query decides between the post and the reversal.
LEMMA TSQKept ==
  ASSUME PayoutInv, NEW w \in Sweepers, TSQ(w)
  PROVE  PayoutInv'
<1> DEFINE r == loc[w].t.req
<1>1. /\ UNCHANGED <<rows, idem, outbox, expired, leg, started>> /\ (Fault \/ NoFault) /\ pc[w] = "tsq"
      /\ rail' \in TransactionStatusQuery(r) \/ rail' = rail
      /\ Leave(w) \/ Stay(w, "void") \/ (Stay(w, "post") /\ rail'[r] = "success")
  BY DEF TSQ, stored
<1>2. TypeOK /\ SweeperOK(w) /\ w \in Workers /\ w \notin Requests /\ loc[w].t \in Transfers /\ r \in Requests
  BY <1>1, SweeperFacts
<1>3. Side /\ (Open(KeyOf[r]) => idem[KeyOf[r]] # NoTransfer)
  BY <1>1, <1>2, SideKept DEF SweeperOK
<1>4. /\ rail' \in [Requests -> {"none", "hung", "success", "failed", "reversed"}]
      /\ \A q \in Requests : /\ rail[q] = "none" => rail'[q] = "none"
                             /\ rail[q] \in Moved => rail'[q] \in Moved
  <2>. HIDE DEF r
  <2>. QED BY <1>1, <1>2 DEF TypeOK, TransactionStatusQuery, Moved
<1>5. CASE Leave(w)
  BY <1>1, <1>2, <1>3, <1>4, <1>5, Returned, RailStep
<1>6. ASSUME NEW to \in {"void", "post"}, Stay(w, to), to = "post" => rail'[r] = "success"
      PROVE  PayoutInv'
  <2>1. Control(w, to, loc[w])
    BY <1>2, <1>6, StayControl, PlaceNames DEF SweepLabels
  <2>2. pc'[w] = to /\ loc'[w] = loc[w]
    BY <2>1 DEF Control
  <2>3. Open(KeyOf[r])' <=> Open(KeyOf[r])
    BY <1>1, <2>2 DEF Open
  <2>4. SweeperOK(w)'
    BY <1>1, <1>2, <1>3, <1>6, <2>2, <2>3 DEF SweeperOK, SweepLabels, Moved
  <2>. QED BY <1>1, <1>2, <1>3, <1>4, <2>1, <2>4, RailStep DEF OwnOK
<1>. QED BY <1>1, <1>5, <1>6

\* The sweeper posts what the rail has moved.
LEMMA SweepPostKept ==
  ASSUME PayoutInv, NEW w \in Sweepers, SweepPost(w)
  PROVE  PayoutInv'
<1> DEFINE t == [loc[w].t EXCEPT !.status = "success"]
           r == loc[w].t.req
<1>1. /\ UNCHANGED <<rows, idem, outbox, expired, rail, started>> /\ (Fault \/ NoFault) /\ pc[w] = "post"
      /\ leg' \in {leg, Posted(r)}
      /\ Leave(w) \/ (Goto(w, "saveRow") /\ Frame(w, t, "publish") /\ UNCHANGED owner)
  BY DEF SweepPost, stored, MaybePosted
<1>2. TypeOK /\ SweeperOK(w) /\ w \in Workers /\ w \notin Requests /\ loc[w].t \in Transfers /\ r \in Requests
  BY <1>1, SweeperFacts
<1>3. Side /\ rail[r] \in Moved /\ (Open(KeyOf[r]) => idem[KeyOf[r]] # NoTransfer)
  BY <1>1, <1>2, SideKept DEF SweeperOK
<1>4. t \in Transfers /\ t.req = r
  BY <1>2, TransferUpdates DEF Statuses
<1>. HIDE DEF t, r
<1>5. /\ leg' \in [Requests -> {"absent", "pending", "posted", "voided"}]
      /\ \A q \in Requests : leg'[q] = "posted" => leg[q] = "posted" \/ rail[q] \in Moved
  BY <1>1, <1>2, <1>3, LegCalls
<1>6. CASE Leave(w)
  BY <1>1, <1>2, <1>3, <1>5, <1>6, Returned, LegStep
<1>7. CASE Goto(w, "saveRow") /\ Frame(w, t, "publish") /\ UNCHANGED owner
  <2>1. Control(w, "saveRow", [t |-> t, next |-> "publish"])
    BY <1>2, <1>4, <1>7, FrameControl, PlaceNames DEF Nexts
  <2>2. OwnOK(w)'
    BY <1>1, <1>3, <1>4, <2>1, SweeperOn
  <2>. QED BY <1>1, <1>2, <1>3, <1>5, <2>1, <2>2, LegStep
<1>. QED BY <1>1, <1>6, <1>7

LEMMA SweepVoidKept ==
  ASSUME PayoutInv, NEW w \in Sweepers, SweepVoid(w)
  PROVE  PayoutInv'
<1> DEFINE r == loc[w].t.req
<1>1. /\ UNCHANGED <<rows, idem, outbox, expired, rail, started>> /\ (Fault \/ NoFault) /\ pc[w] = "void"
      /\ leg' \in {leg, Voided(r)} /\ Stay(w, "read")
  BY DEF SweepVoid, stored
<1>2. TypeOK /\ SweeperOK(w) /\ w \in Workers /\ w \notin Requests /\ loc[w].t \in Transfers /\ r \in Requests
  BY <1>1, SweeperFacts
<1>3. Side /\ (Open(KeyOf[r]) => idem[KeyOf[r]] # NoTransfer)
  BY <1>1, <1>2, SideKept DEF SweeperOK
<1>4. /\ leg' \in [Requests -> {"absent", "pending", "posted", "voided"}]
      /\ \A q \in Requests : leg'[q] = "posted" => leg[q] = "posted"
  <2>. HIDE DEF r
  <2>. QED BY <1>1, <1>2 DEF TypeOK, Voided
<1>5. Control(w, "read", loc[w])
  BY <1>1, <1>2, StayControl, PlaceNames DEF SweepLabels
<1>6. pc'[w] = "read" /\ loc'[w] = loc[w]
  BY <1>5 DEF Control
<1>7. Open(KeyOf[r])' <=> Open(KeyOf[r])
  BY <1>1, <1>6 DEF Open
<1>8. SweeperOK(w)'
  BY <1>1, <1>2, <1>3, <1>6, <1>7 DEF SweeperOK, SweepLabels
<1>. QED BY <1>1, <1>2, <1>3, <1>4, <1>5, <1>8, LegStep DEF OwnOK

LEMMA ReversalReadKept ==
  ASSUME PayoutInv, NEW w \in Sweepers, ReversalRead(w)
  PROVE  PayoutInv'
<1> DEFINE r == loc[w].t.req
<1>1. /\ UNCHANGED <<outbox, started>> /\ Quiet /\ (Fault \/ NoFault) /\ pc[w] = "read"
      /\ Leave(w) \/ (/\ Goto(w, "reverse") /\ Frame(w, rows[r], "publish") /\ UNCHANGED owner
                      /\ rows[r] # NoTransfer)
  BY DEF ReversalRead, stored, Quiet
<1>2. TypeOK /\ SweeperOK(w) /\ w \in Workers /\ w \notin Requests /\ loc[w].t \in Transfers /\ r \in Requests
  BY <1>1, SweeperFacts
<1>. HIDE DEF r
<1>3. CASE Leave(w)
  BY <1>1, <1>2, <1>3, QuietLeave DEF PayoutInv, TypeOK
<1>4. CASE /\ Goto(w, "reverse") /\ Frame(w, rows[r], "publish") /\ UNCHANGED owner
           /\ rows[r] # NoTransfer
  <2>1. rows[r] \in Transfers /\ rows[r].req = r /\ (Open(KeyOf[r]) => idem[KeyOf[r]] # NoTransfer)
    BY <1>2, <1>4 DEF PayoutInv, StoreOK, TypeOK
  <2>2. Control(w, "reverse", [t |-> rows[r], next |-> "publish"])
    BY <1>2, <1>4, <2>1, FrameControl, PlaceNames DEF SweepLabels, Nexts
  <2>3. OwnOK(w)'
    BY <1>1, <2>1, <2>2, SweeperOn DEF Quiet
  <2>4. started' \in [Replicas -> BOOLEAN]
    BY <1>1, <1>2 DEF TypeOK
  <2>. QED BY <1>1, <1>2, <2>2, <2>3, <2>4, QuietStep DEF OwnOK
<1>. QED BY <1>1, <1>3, <1>4

LEMMA ReversalCallKept ==
  ASSUME PayoutInv, NEW w \in Sweepers, ReversalCall(w)
  PROVE  PayoutInv'
<1> DEFINE r == loc[w].t.req
           s == IF rail[r] = "none" THEN "failed" ELSE "reversed"
           t == [loc[w].t EXCEPT !.status = s]
<1>1. /\ UNCHANGED <<rows, idem, outbox, expired, leg, started>> /\ (Fault \/ NoFault) /\ pc[w] = "reverse"
      /\ rail' \in {rail, Unwound(r)}
      /\ Leave(w) \/ (Goto(w, "saveRow") /\ Frame(w, t, "publish") /\ UNCHANGED owner)
  BY DEF ReversalCall, stored
<1>2. TypeOK /\ SweeperOK(w) /\ w \in Workers /\ w \notin Requests /\ loc[w].t \in Transfers /\ r \in Requests
  BY <1>1, SweeperFacts
<1>3. Side /\ (Open(KeyOf[r]) => idem[KeyOf[r]] # NoTransfer)
  BY <1>1, <1>2, SideKept DEF SweeperOK
<1>4. t \in Transfers /\ t.req = r
  <2>1. s \in Statuses
    BY DEF Statuses
  <2>. HIDE DEF s
  <2>. QED BY <1>2, <2>1, TransferUpdates
<1>. HIDE DEF t, s, r
<1>5. /\ rail' \in [Requests -> {"none", "hung", "success", "failed", "reversed"}]
      /\ \A q \in Requests : /\ rail[q] = "none" => rail'[q] = "none"
                             /\ rail[q] \in Moved => rail'[q] \in Moved
  BY <1>1, <1>2 DEF TypeOK, Unwound, Moved
<1>6. CASE Leave(w)
  BY <1>1, <1>2, <1>3, <1>5, <1>6, Returned, RailStep
<1>7. CASE Goto(w, "saveRow") /\ Frame(w, t, "publish") /\ UNCHANGED owner
  <2>1. Control(w, "saveRow", [t |-> t, next |-> "publish"])
    BY <1>2, <1>4, <1>7, FrameControl, PlaceNames DEF Nexts
  <2>2. OwnOK(w)'
    BY <1>1, <1>3, <1>4, <2>1, SweeperOn
  <2>. QED BY <1>1, <1>2, <1>3, <1>5, <2>1, <2>2, RailStep
<1>. QED BY <1>1, <1>6, <1>7

-----------------------------------------------------------------------------
(* The relay and the purge.                                                *)

LEMMA RelayListKept ==
  ASSUME PayoutInv, NEW p \in Replicas, RelayList(p)
  PROVE  PayoutInv'
<1>1. TypeOK /\ p \in Sweepers /\ p \in Workers /\ p \notin Requests
  BY SweeperFacts DEF Sweepers
<1>2. UNCHANGED <<outbox, owner, started>> /\ Quiet /\ NoFault /\ Goto(p, "relay")
  BY DEF RelayList, Quiet, stored, NoFault
<1>3. PICK q \in Requests : /\ outbox[q] # "none"
                            /\ Frame(p, [req |-> q, status |-> outbox[q], leg |-> FALSE], "idle")
  BY DEF RelayList
<1> DEFINE t == [req |-> q, status |-> outbox[q], leg |-> FALSE]
<1>4. t \in Transfers
  <2>1. outbox[q] \in Statuses
    BY <1>1, <1>3 DEF TypeOK
  <2>. QED BY <2>1, NewTransfer
<1>. HIDE DEF t
<1>5. Control(p, "relay", [t |-> t, next |-> "idle"])
  BY <1>1, <1>2, <1>3, <1>4, FrameControl, PlaceNames DEF SweepLabels, Nexts, t
<1>6. pc'[p] = "relay" /\ loc'[p].t = t
  BY <1>5 DEF Control
<1>7. SweeperOK(p)'
  BY <1>4, <1>6 DEF SweeperOK, SweepLabels
<1>8. started' \in [Replicas -> BOOLEAN]
  BY <1>1, <1>2 DEF TypeOK
<1>. QED BY <1>1, <1>2, <1>5, <1>7, <1>8, QuietStep

LEMMA RelayPublishKept ==
  ASSUME PayoutInv, NEW p \in Replicas, RelayPublish(p)
  PROVE  PayoutInv'
<1> DEFINE t == loc[p].t
<1>1. /\ UNCHANGED started /\ Quiet /\ pc[p] = "relay" /\ (Fault \/ NoFault)
      /\ \/ UNCHANGED outbox /\ Stay(p, "forget")
         \/ outbox' = [outbox EXCEPT ![t.req] = t.status] /\ Leave(p)
  BY DEF RelayPublish, Quiet
<1>2. /\ TypeOK /\ p \in Sweepers /\ p \in Workers /\ p \notin Requests
      /\ SweeperOK(p) /\ t \in Transfers
  BY <1>1, SweeperFacts DEF Sweepers
<1>3. CASE outbox' = [outbox EXCEPT ![t.req] = t.status] /\ Leave(p)
  <2>1. t.status \in Statuses
    BY <1>2, TransferUpdates
  <2>2. outbox' \in [Requests -> Statuses \cup {"none"}]
    BY <1>2, <1>3, <2>1 DEF TypeOK
  <2>. QED BY <1>1, <1>2, <1>3, <2>2, QuietLeave
<1>4. CASE UNCHANGED outbox /\ Stay(p, "forget")
  <2>1. Control(p, "forget", loc[p])
    BY <1>2, <1>4, StayControl, PlaceNames DEF SweepLabels
  <2>2. pc'[p] = "forget" /\ loc'[p].t = t
    BY <2>1 DEF Control
  <2>3. SweeperOK(p)'
    BY <1>2, <2>2 DEF SweeperOK, SweepLabels
  <2>4. started' \in [Replicas -> BOOLEAN]
    BY <1>1, <1>2 DEF TypeOK
  <2>. QED BY <1>1, <1>2, <1>4, <2>1, <2>3, <2>4, QuietStep
<1>. QED BY <1>1, <1>3, <1>4

LEMMA RelayDeleteKept ==
  ASSUME PayoutInv, NEW p \in Replicas, RelayDelete(p)
  PROVE  PayoutInv'
<1>1. TypeOK /\ p \in Workers
  BY SweeperFacts DEF Sweepers
<1>2. /\ UNCHANGED started /\ Quiet /\ (Fault \/ NoFault) /\ Leave(p)
      /\ outbox' \in {outbox, [outbox EXCEPT ![loc[p].t.req] = "none"]}
  BY DEF RelayDelete, Quiet
<1>3. outbox' \in [Requests -> Statuses \cup {"none"}]
  BY <1>1, <1>2 DEF TypeOK
<1>. QED BY <1>1, <1>2, <1>3, QuietLeave

LEMMA PurgeListKept ==
  ASSUME PayoutInv, NEW p \in Replicas, PurgeList(p)
  PROVE  PayoutInv'
<1>1. TypeOK /\ p \in Sweepers /\ p \in Workers /\ p \notin Requests
  BY SweeperFacts DEF Sweepers
<1>2. UNCHANGED <<outbox, owner, started>> /\ Quiet /\ NoFault /\ Goto(p, "purge")
  BY DEF PurgeList, Quiet, stored, NoFault
<1>3. PICK q \in expired : \E t \in Copies(q) : Frame(p, t, "idle")
  BY DEF PurgeList
<1>. PICK t \in Copies(q) : Frame(p, t, "idle")
  BY <1>3
<1>4. q \in Requests /\ t \in Transfers /\ t.req = q
  BY <1>1, CopyStored DEF TypeOK
<1>5. Control(p, "purge", [t |-> t, next |-> "idle"])
  BY <1>1, <1>2, <1>4, FrameControl, PlaceNames DEF SweepLabels, Nexts
<1>6. pc'[p] = "purge" /\ loc'[p].t = t /\ expired' = expired
  BY <1>2, <1>5 DEF Control, Quiet
<1>7. SweeperOK(p)'
  BY <1>4, <1>6 DEF SweeperOK, SweepLabels
<1>8. started' \in [Replicas -> BOOLEAN]
  BY <1>1, <1>2 DEF TypeOK
<1>. QED BY <1>1, <1>2, <1>5, <1>7, <1>8, QuietStep

\* The purge deletes a key one of whose windows has closed.
LEMMA PurgeDeleteKept ==
  ASSUME PayoutInv, NEW p \in Replicas, PurgeDelete(p)
  PROVE  PayoutInv'
<1> DEFINE r == loc[p].t.req
           k == KeyOf[r]
<1>1. /\ UNCHANGED <<rows, outbox, expired, rail, leg, started>> /\ (Fault \/ NoFault)
      /\ Leave(p) /\ pc[p] = "purge"
      /\ idem' \in {idem, [idem EXCEPT ![k] = NoTransfer]}
  BY DEF PurgeDelete
<1>2. /\ TypeOK /\ p \in Sweepers /\ p \in Workers /\ p \notin Requests
      /\ SweeperOK(p) /\ r \in Requests
  BY <1>1, SweeperFacts DEF Sweepers
<1>3. ~Open(k)
  BY <1>1, <1>2 DEF SweeperOK, Open
<1>4. Side /\ Control(p, Rest(p), NoFrame) /\ OwnOK(p)'
  BY <1>1, <1>2, SideKept, Returned
<1>. HIDE DEF k, r
<1>5. /\ idem' \in [Keys -> Transfers \cup {NoTransfer}]
      /\ \A j \in Keys : idem'[j] = idem[j] \/ (j = k /\ idem'[j] = NoTransfer)
  BY <1>1, <1>2 DEF TypeOK
<1>6. TypeOK'
  BY <1>1, <1>2, <1>4, <1>5 DEF TypeOK, Control, Side, Places, Frames, Nexts
<1>7. Steady(p)
  BY <1>1, <1>3, <1>4, <1>5 DEF Steady, Control
<1>8. StoreOK'
  <2>1. \A j \in Keys : idem'[j] # NoTransfer => KeyOf[idem'[j].req] = j
    BY <1>5 DEF PayoutInv, StoreOK
  <2>2. \A q \in Requests : KeyOf[q] \in Keys
    BY PayoutAssumption
  <2>3. \A j \in Keys : Open(j)' <=> Open(j)
    BY <1>1 DEF Open
  <2>. QED BY <1>1, <1>3, <1>5, <2>1, <2>2, <2>3 DEF PayoutInv, StoreOK
<1>9. PostedMoved' /\ OneDispatchPerKey' /\ DispatchRecorded'
  BY <1>1 DEF PayoutInv, PostedMoved, OneDispatchPerKey, DispatchRecorded
<1>. QED BY <1>2, <1>4, <1>6, <1>7, <1>8, <1>9, KeptIsEnough DEF Kept, OwnOK

-----------------------------------------------------------------------------
(* The environment.                                                        *)

\* A window closes while no worker is on a transfer.
LEMMA ExpireKept ==
  ASSUME PayoutInv, NEW r \in Requests, Expire(r)
  PROVE  PayoutInv'
<1>1. /\ UNCHANGED <<rows, idem, outbox, rail, leg, owner, started, pc, loc, faults>>
      /\ expired' = expired \cup {r} /\ \A w \in Workers : Resting(w)
  BY DEF Expire, stored
<1>2. TypeOK'
  BY <1>1 DEF PayoutInv, TypeOK
<1>3. \A k \in Keys : Open(k)' => Open(k)
  BY <1>1 DEF Open
<1>4. ASSUME NEW q \in Requests PROVE RequestOK(q)'
  <2>1. RequestOK(q) /\ pc[q] \in {"start", "done"} /\ pc'[q] = pc[q] /\ loc'[q] = loc[q] /\ rail' = rail
    BY <1>1, RequestFacts DEF RequestOK, Resting, PayoutLabels
  <2>. QED BY <2>1 DEF RequestOK, Undispatched, Announced, Alone
<1>5. ASSUME NEW w \in Sweepers PROVE SweeperOK(w)'
  <2>1. pc'[w] = "idle"
    BY <1>1, SweeperFacts DEF SweeperOK, Resting, SweepLabels
  <2>. QED BY <2>1 DEF SweeperOK
<1>6. StoreOK'
  <2>1. \A q \in Requests : KeyOf[q] \in Keys
    BY PayoutAssumption
  <2>. QED BY <1>1, <1>3, <2>1 DEF PayoutInv, StoreOK
<1>7. PostedMoved' /\ DispatchRecorded' /\ OneDispatchPerKey'
  BY <1>1 DEF PayoutInv, PostedMoved, DispatchRecorded, OneDispatchPerKey
<1>. QED BY <1>2, <1>4, <1>5, <1>6, <1>7 DEF PayoutInv

\* A crash forgets the frames and keeps what is stored.
LEMMA CrashKept ==
  ASSUME PayoutInv, NEW p \in Replicas, Crash(p)
  PROVE  PayoutInv'
<1> DEFINE here == {w \in Workers : IF w \in Replicas THEN w = p ELSE ReplicaOf[w] = p}
<1>1. /\ UNCHANGED <<rows, idem, outbox, expired, rail, leg>>
      /\ pc' = [w \in Workers |-> IF w \in here /\ ~Resting(w) THEN Rest(w) ELSE pc[w]]
      /\ loc' = [w \in Workers |-> IF w \in here THEN NoFrame ELSE loc[w]]
      /\ owner' = [owner EXCEPT ![p] = NoSource]
      /\ started' = [started EXCEPT ![p] = FALSE] /\ Fault
  BY DEF Crash, stored
<1>. HIDE DEF here
<1>2. TypeOK'
  <2>1. TypeOK /\ faults' \in 0..MaxFaults
    BY <1>1, FaultTyped DEF PayoutInv
  <2>2. NoFrame \in Frames /\ \A w \in Workers : Rest(w) \in Places
    BY DEF NoFrame, Frames, Nexts, Rest, Places
  <2>3. pc \in [Workers -> Places] /\ loc \in [Workers -> Frames]
    BY <2>1 DEF TypeOK, Places, Frames, Nexts
  <2>4. pc' \in [Workers -> Places]
    BY <1>1, <2>2, <2>3
  <2>5. loc' \in [Workers -> Frames]
    BY <1>1, <2>2, <2>3
  <2>. QED BY <1>1, <2>1, <2>4, <2>5 DEF TypeOK, Places, Frames, Nexts
<1>3. ASSUME NEW r \in Requests PROVE RequestOK(r)'
  <2>1. RequestOK(r) /\ TypeOK /\ r \in Workers
    BY RequestFacts
  <2>2. CASE r \in here
    <3>1. pc'[r] = "done" \/ (pc[r] = "start" /\ pc'[r] = "start")
      BY <1>1, <2>1, <2>2 DEF RequestOK, Rest, Resting, PayoutLabels
    <3>. QED BY <1>1, <2>1, <3>1 DEF RequestOK, Undispatched, Announced, Alone
  <2>3. CASE r \notin here
    <3>1. pc'[r] = pc[r] /\ loc'[r] = loc[r]
      BY <1>1, <2>1, <2>3
    <3>2. r \notin Replicas /\ ReplicaOf[r] # p /\ ReplicaOf[r] \in Replicas
      BY <2>1, <2>3, PayoutAssumption DEF here, Sweepers
    <3>3. owner'[ReplicaOf[r]] = owner[ReplicaOf[r]]
      BY <1>1, <2>1, <3>2 DEF TypeOK
    <3>4. /\ Undispatched(r)' <=> Undispatched(r)
          /\ Announced(r)' <=> Announced(r)
          /\ Alone(r)' <=> Alone(r)
          /\ Open(KeyOf[r])' <=> Open(KeyOf[r])
          /\ NobodyElse(r)' <=> NobodyElse(r)
      BY <1>1, <3>1 DEF Undispatched, Announced, Alone, Open, NobodyElse
    <3>. QED BY <1>1, <2>1, <3>1, <3>3, <3>4 DEF RequestOK
  <2>. QED BY <2>2, <2>3
<1>4. ASSUME NEW w \in Sweepers PROVE SweeperOK(w)'
  <2>1. SweeperOK(w) /\ w \in Workers /\ w \notin Requests
    BY SweeperFacts
  <2>2. CASE w \in here
    <3>1. pc'[w] = "idle"
      BY <1>1, <2>1, <2>2 DEF SweeperOK, Rest, Resting, SweepLabels
    <3>. QED BY <3>1 DEF SweeperOK
  <2>3. CASE w \notin here
    <3>1. pc'[w] = pc[w] /\ loc'[w] = loc[w]
      BY <1>1, <2>1, <2>3
    <3>2. Open(KeyOf[loc[w].t.req])' <=> Open(KeyOf[loc[w].t.req])
      BY <1>1, <3>1 DEF Open
    <3>. QED BY <1>1, <2>1, <3>1, <3>2 DEF SweeperOK
  <2>. QED BY <2>2, <2>3
<1>5. StoreOK'
  BY <1>1 DEF PayoutInv, StoreOK, Open
<1>6. PostedMoved' /\ DispatchRecorded' /\ OneDispatchPerKey'
  BY <1>1 DEF PayoutInv, PostedMoved, DispatchRecorded, OneDispatchPerKey
<1>. QED BY <1>2, <1>3, <1>4, <1>5, <1>6 DEF PayoutInv

-----------------------------------------------------------------------------
(* The theorems.                                                           *)

LEMMA PayoutInit == Init => PayoutInv
<1> SUFFICES ASSUME Init PROVE PayoutInv
  OBVIOUS
<1>1. TypeOK
  <2>1. /\ NoFrame \in Frames
        /\ \A w \in Workers : (IF w \in Requests THEN "start" ELSE "idle") \in Places
    BY DEF NoFrame, Frames, Nexts, Places
  <2>2. pc \in [Workers -> Places] /\ loc \in [Workers -> Frames]
    BY <2>1 DEF Init
  <2>3. /\ rows \in [Requests -> Transfers \cup {NoTransfer}]
        /\ idem \in [Keys -> Transfers \cup {NoTransfer}]
    BY DEF Init
  <2>4. /\ outbox \in [Requests -> Statuses \cup {"none"}] /\ expired \subseteq Requests
        /\ rail \in [Requests -> {"none", "hung", "success", "failed", "reversed"}]
        /\ leg \in [Requests -> {"absent", "pending", "posted", "voided"}]
    BY DEF Init
  <2>5. owner \in [Replicas -> Requests \cup {NoSource}] /\ started \in [Replicas -> BOOLEAN] /\ faults \in 0..MaxFaults
    <3>1. faults \in 0..MaxFaults
      BY PayoutAssumption DEF Init
    <3>2. owner \in [Replicas -> Requests \cup {NoSource}]
      BY DEF Init
    <3>3. started \in [Replicas -> BOOLEAN]
      BY DEF Init
    <3>. QED BY <3>1, <3>2, <3>3
  <2>. QED BY <2>2, <2>3, <2>4, <2>5 DEF TypeOK, Places, Frames, Nexts
<1>2. ASSUME NEW r \in Requests PROVE RequestOK(r)
  <2>1. pc[r] = "start" /\ rail[r] = "none"
    BY DEF Init, Workers
  <2>. QED BY <2>1 DEF RequestOK, Announced, Alone
<1>3. ASSUME NEW w \in Sweepers PROVE SweeperOK(w)
  <2>1. pc[w] = "idle"
    BY PayoutAssumption DEF Init, Workers
  <2>. QED BY <2>1 DEF SweeperOK
<1>4. StoreOK /\ PostedMoved /\ DispatchRecorded /\ OneDispatchPerKey
  BY DEF Init, StoreOK, PostedMoved, DispatchRecorded, OneDispatchPerKey
<1>. QED BY <1>1, <1>2, <1>3, <1>4 DEF PayoutInv

LEMMA PayoutStutters == PayoutInv /\ UNCHANGED vars => PayoutInv'
<1> SUFFICES ASSUME PayoutInv, UNCHANGED vars PROVE PayoutInv'
  OBVIOUS
<1>1. UNCHANGED <<rows, idem, outbox, expired, rail, leg, owner, started, pc, loc, faults>>
  BY DEF vars
<1>2. TypeOK'
  BY <1>1 DEF PayoutInv, TypeOK
<1>3. \A r \in Requests : RequestOK(r)'
  BY <1>1 DEF PayoutInv, RequestOK, Open, Undispatched, Announced, Alone, NobodyElse
<1>4. \A w \in Sweepers : SweeperOK(w)'
  BY <1>1 DEF PayoutInv, SweeperOK, Open
<1>5. StoreOK'
  BY <1>1 DEF PayoutInv, StoreOK, Open
<1>6. PostedMoved' /\ DispatchRecorded' /\ OneDispatchPerKey'
  BY <1>1 DEF PayoutInv, PostedMoved, DispatchRecorded, OneDispatchPerKey
<1>. QED BY <1>2, <1>3, <1>4, <1>5, <1>6 DEF PayoutInv

\* The invariant of the copies holds throughout: every worker of nip_recon.go
\* knows whose transfer it has and never claims more than the rail has done.
THEOREM PayoutInvariant == Spec => []PayoutInv
<1>1. PayoutInv /\ [Next]_vars => PayoutInv'
  <2> SUFFICES ASSUME PayoutInv, [Next]_vars PROVE PayoutInv'
    OBVIOUS
  <2>1. ASSUME NEW r \in Requests, Begin(r) \/ PayoutStep(r) PROVE PayoutInv'
    BY <2>1, BeginKept, CheckSourceKept, LookupKept, NameEnquiryKept, PutInFlightKeyKept,
       PutInFlightRowKept, PendingLegKept, DispatchKept, SettleKept, EndKeyKept, EndRowKept
       DEF PayoutStep
  <2>2. ASSUME NEW w \in Workers, SaveStep(w) PROVE PayoutInv'
    BY <2>2, SaveRowKept, SaveKeyKept, PublishKept DEF SaveStep
  <2>3. ASSUME NEW w \in Sweepers, SweepList(w) \/ SweepStep(w) PROVE PayoutInv'
    BY <2>3, SweepListKept, TSQKept, SweepPostKept, SweepVoidKept, ReversalReadKept, ReversalCallKept
       DEF SweepStep
  <2>4. ASSUME NEW w \in Operators, NEW r \in Requests, CallReversal(w, r) PROVE PayoutInv'
    BY <2>4, CallReversalKept
  <2>5. ASSUME NEW p \in Replicas, Relay(p) \/ Purge(p) \/ Crash(p) PROVE PayoutInv'
    BY <2>5, RelayListKept, RelayPublishKept, RelayDeleteKept, PurgeListKept, PurgeDeleteKept,
       CrashKept DEF Relay, Purge
  <2>6. ASSUME NEW r \in Requests, Expire(r) PROVE PayoutInv'
    BY <2>6, ExpireKept
  <2>. QED BY <2>1, <2>2, <2>3, <2>4, <2>5, <2>6, PayoutStutters DEF Next
<1>. QED BY <1>1, PayoutInit, PTL DEF Spec

\* Every variable of the payout service keeps its type.
THEOREM PayoutTyped == Spec => []TypeOK
<1>1. PayoutInv => TypeOK
  BY DEF PayoutInv
<1>. QED BY <1>1, PayoutInvariant, PTL

\* The ledger leg of a payout or a refund is posted only for value the rail has
\* moved, by whichever of Payout, SweepTSQ and an operator's sweep settles it,
\* on however old a copy, after whatever crash or lost answer.
THEOREM PostsWhatMoved == Spec => []PostedMoved
<1>1. PayoutInv => PostedMoved
  BY DEF PayoutInv
<1>. QED BY <1>1, PayoutInvariant, PTL

\* Every transfer the rail has seen has its session record: the record is put
\* before the call, and no sweep, reversal or purge takes it away.
THEOREM DispatchesRecorded == Spec => []DispatchRecorded
<1>1. PayoutInv => DispatchRecorded
  BY DEF PayoutInv
<1>. QED BY <1>1, PayoutInvariant, PTL

\* While no window of a key has closed, a replica has dispatched one request of
\* the key at most: a retry finds the record, and no copy written back late, no
\* purge and no request on another replica makes the key look unused.  Two
\* replicas may dispatch one each: each looks before the other has written.
THEOREM KeyDispatchedOnce == Spec => []OneDispatchPerKey
<1>1. PayoutInv => OneDispatchPerKey
  BY DEF PayoutInv
<1>. QED BY <1>1, PayoutInvariant, PTL

\* Once a request of a key has been dispatched, and while no window of the key
\* has closed, the lookup of another returns the stored transfer on whichever
\* replica it runs: only requests that looked before can still be dispatched.
RetryStops ==
  [][\A r, q \in Requests :
       Lookup(r) /\ Open(KeyOf[r]) /\ KeyOf[q] = KeyOf[r] /\ rail[q] # "none" => Leave(r)]_vars

THEOREM RetryRefused == Spec => RetryStops
<1>1. ASSUME PayoutInv, NEW r \in Requests, NEW q \in Requests, Lookup(r), Open(KeyOf[r]),
             KeyOf[q] = KeyOf[r], rail[q] # "none"
      PROVE  Leave(r)
  <2>1. idem[KeyOf[r]] # NoTransfer
    BY <1>1 DEF PayoutInv, DispatchRecorded, StoreOK
  <2>2. idem[KeyOf[r]].req \in Requests /\ KeyOf[idem[KeyOf[r]].req] = KeyOf[r]
    <3>1. idem[KeyOf[r]] \in Transfers
      BY <1>1, <2>1, RequestFacts DEF TypeOK
    <3>. QED BY <1>1, <2>1, <3>1, RequestFacts, TransferUpdates DEF PayoutInv, StoreOK
  <2>3. idem[KeyOf[r]].req \notin expired
    BY <1>1, <2>2 DEF Open
  <2>. QED BY <1>1, <2>1, <2>3 DEF Lookup
<1>2. PayoutInv /\ [Next]_vars =>
        [\A r, q \in Requests :
           Lookup(r) /\ Open(KeyOf[r]) /\ KeyOf[q] = KeyOf[r] /\ rail[q] # "none" => Leave(r)]_vars
  BY <1>1
<1>. QED BY <1>2, PayoutInvariant, PTL DEF Spec, RetryStops
=============================================================================

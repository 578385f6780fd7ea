-------------------------- MODULE OperatorLifecycle --------------------------
(***************************************************************************)
(* The operator registry of services/onboarding and everything that writes *)
(* to it: creation, capture batches, PATCH and status calls, review,       *)
(* documents, graduation, the durable workflow wf-onb-tin-provision with   *)
(* its retries and redrives, and the USSD registration, which parks an     *)
(* operator it could not provision.  No lock is taken: every handler reads *)
(* a whole record, and writes its copy back later.                         *)
(*                                                                         *)
(* The records modelled are those of one person, whose NIN is "own";       *)
(* "other" is the NIN of somebody NIMC knows.                              *)
(***************************************************************************)
EXTENDS Integers, Sequences

CONSTANTS
  Ids,         \* operator ids
  RunIds,      \* workflow run ids
  Keys,        \* idempotency keys of capture batches
  Docs,        \* documents
  Workers,     \* requests being served
  MaxTries,    \* MaximumAttempts of an activity
  MaxItems,    \* bound: items of a batch
  MaxCalls,    \* bound: requests
  MaxFaults    \* bound: outages, failed Puts, lost answers, crashes

VARIABLES
  genuine,     \* does NIMC verify the person's own NIN?
  ops,         \* operators
  audit,       \* status_audit
  runs,        \* workflow_runs of wf-onb-tin-provision
  batches,     \* capture_batches
  docs,        \* [Docs -> status]
  staged,      \* graduation_candidates above the ceiling
  asserted,      \* history: operators a caller set to a verified status
  pc, loc,     \* where every request is, and its frame
  calls, faults

vars == <<genuine, ops, audit, runs, batches, docs, staged, asserted, pc, loc, calls, faults>>

-----------------------------------------------------------------------------
operatorTransitions ==
  [registered      |-> {"nin_verified", "pending_review", "rejected"},
   pending_review  |-> {"registered", "nin_verified", "tin_provisioned", "rejected"},
   nin_verified    |-> {"tin_provisioned", "pending_review"},
   tin_provisioned |-> {"graduated", "pending_review"},
   rejected        |-> {"registered"},
   graduated       |-> {}]

OperatorStatuses == DOMAIN operatorTransitions
CanTransition(from, to) == from = to \/ to \in operatorTransitions[from]

\* The statuses of somebody whose NIN was verified.
Verified == {"nin_verified", "tin_provisioned", "graduated"}

\* What the callers' control depends on; name, phone and trade are left out.
Operators ==
  [nin : {"own", "other"}, status : OperatorStatuses, tin : {"none", "graph", "local"},
   review : {"none", "approved", "rejected"}, docs : SUBSET Docs,
   capturedAt : 0..1, clientRef : BOOLEAN]
NoOperator == [none |-> TRUE]
NewOperator(at, ref) ==
  [nin |-> "own", status |-> "registered", tin |-> "none", review |-> "none", docs |-> {},
   capturedAt |-> at, clientRef |-> ref]

NoRun == [none |-> TRUE]
Runs == [status : {"running", "completed", "failed"}, op : Ids, nin : {"own", "other"}]

Labels ==
  {"idle", "insert", "start", "verify", "provision", "update", "apply", "audit", "final",
   "completed", "failed", "park", "item", "merge", "attach"}

\* A frame: what the request is part of, the operator and the copy read, the
\* transitions still to apply, and whether an Update ends it.
NoFrame ==
  [kind |-> "call", op |-> NoOperator, copy |-> NoOperator, path |-> <<>>, final |-> FALSE,
   from |-> "registered", run |-> NoRun, nin |-> "own", tin |-> "none", tries |-> 1,
   ussd |-> FALSE, key |-> NoRun, items |-> 0, doc |-> NoRun]

TypeOK ==
  /\ genuine \in BOOLEAN
  /\ ops \in [Ids -> Operators \cup {NoOperator}]
  /\ audit \subseteq (Ids \X OperatorStatuses \X OperatorStatuses)
  /\ runs \in [RunIds -> Runs \cup {NoRun}]
  /\ batches \subseteq Keys
  /\ docs \in [Docs -> {"none", "pending_upload", "uploaded"}]
  /\ staged \subseteq Ids /\ asserted \subseteq Ids
  /\ pc \in [Workers -> Labels]
  /\ \A w \in Workers :
       /\ loc[w].copy \in Operators \cup {NoOperator}
       /\ loc[w].tries \in 1..MaxTries /\ loc[w].items \in 0..MaxItems
  /\ calls \in 0..MaxCalls /\ faults \in 0..MaxFaults

Init ==
  /\ genuine \in BOOLEAN
  /\ ops = [o \in Ids |-> NoOperator]
  /\ audit = {}
  /\ runs = [r \in RunIds |-> NoRun]
  /\ batches = {}
  /\ docs = [d \in Docs |-> "none"]
  /\ staged = {}
  /\ asserted = {}
  /\ pc = [w \in Workers |-> "idle"]
  /\ loc = [w \in Workers |-> NoFrame]
  /\ calls = 0 /\ faults = 0

Fault == faults < MaxFaults /\ faults' = faults + 1
NoFault == UNCHANGED faults
Goto(w, to) == pc' = [pc EXCEPT ![w] = to]
Frame(w, f) == loc' = [loc EXCEPT ![w] = f]
Begin(w, f, to) ==
  pc[w] = "idle" /\ calls < MaxCalls /\ calls' = calls + 1 /\ Frame(w, f) /\ Goto(w, to)

Stored == {o \in Ids : ops[o] # NoOperator}
FindByNINHash == {o \in Stored : ops[o].nin = "own"}
FindByClientRef == {o \in Stored : ops[o].clientRef}

Tables == <<genuine, audit, runs, batches, docs, staged, asserted>>

\* Registry.Create and Update: one Put, which may fail before or after it
\* changed the table; "then" follows success, "else" failure.
PutOperator(o, rec, then, else) ==
  \/ ops' = [ops EXCEPT ![o] = rec] /\ then /\ NoFault
  \/ ops' \in {ops, [ops EXCEPT ![o] = rec]} /\ else /\ Fault

-----------------------------------------------------------------------------
(* Creation: createOperator, and onb.register of the USSD gateway, which   *)
(* takes a duplicate's id and goes on to provision it.                     *)

\* The duplicate check, whose error is ignored.
CreateOperator(w, ussd) ==
  /\ \/ FindByNINHash = {} /\ NoFault
     \/ Fault
  /\ Begin(w, [NoFrame EXCEPT !.ussd = ussd, !.copy = NewOperator(1, FALSE)], "insert")
  /\ UNCHANGED <<Tables, ops>>

ProvisionFrame(o, nin, ussd) ==
  [NoFrame EXCEPT !.kind = "run", !.op = o, !.nin = nin, !.ussd = ussd]

RegisterDuplicate(w) ==
  /\ \E o \in FindByNINHash : Begin(w, ProvisionFrame(o, "own", TRUE), "start")
  /\ UNCHANGED <<Tables, ops, faults>>

Insert(w) ==
  /\ pc[w] = "insert"
  /\ \E o \in Ids \ Stored :
       PutOperator(o, loc[w].copy,
         CASE loc[w].kind = "batch" -> Goto(w, "item") /\ UNCHANGED loc
           [] loc[w].ussd -> Goto(w, "start") /\ Frame(w, ProvisionFrame(o, "own", TRUE))
           [] OTHER -> Goto(w, "idle") /\ Frame(w, NoFrame),
         Goto(w, "idle") /\ Frame(w, NoFrame))
  /\ UNCHANGED <<Tables, calls>>

-----------------------------------------------------------------------------
(* wf-onb-tin-provision on the in-process runner.                          *)

\* provisionTIN compares the NIN with the record, triggerWorkflow does not.
Provision(w, o, nin) ==
  /\ o \in Stored
  /\ Begin(w, ProvisionFrame(o, nin, FALSE), "start")
  /\ UNCHANGED <<Tables, ops, faults>>

\* A crashed or a failed run, by its record.
Redrive(w, r) ==
  /\ runs[r] # NoRun /\ runs[r].status # "completed"
  /\ Begin(w, [ProvisionFrame(runs[r].op, runs[r].nin, FALSE) EXCEPT !.run = r], "start")
  /\ UNCHANGED <<Tables, ops, faults>>

\* What is left of the frame of a run that is over.
Ended(f) == [NoFrame EXCEPT !.kind = "run", !.op = f.op, !.run = f.run, !.ussd = f.ussd]

\* Where a request goes when its run is over: USSD parks what did not complete.
AfterRun(w, ok) == IF loc[w].ussd /\ ~ok THEN "park" ELSE "idle"

\* PutRun "running"; without it nothing runs.
StartRun(w) ==
  LET f == loc[w] IN
  /\ pc[w] = "start"
  /\ \/ /\ \E r \in IF f.run # NoRun THEN {f.run} ELSE {q \in RunIds : runs[q] = NoRun} :
             /\ runs' = [runs EXCEPT ![r] = [status |-> "running", op |-> f.op, nin |-> f.nin]]
             /\ Frame(w, [f EXCEPT !.run = r])
        /\ Goto(w, "verify") /\ NoFault
     \/ UNCHANGED runs /\ Frame(w, Ended(f)) /\ Goto(w, AfterRun(w, FALSE)) /\ Fault
  /\ UNCHANGED <<genuine, ops, audit, batches, docs, staged, asserted, calls>>

\* ExecuteActivity: the activity again, or the end of the run.
Retry(w, act) ==
  LET f == loc[w] IN
  IF f.tries < MaxTries
  THEN /\ Goto(w, act)
       /\ Frame(w, [Ended(f) EXCEPT !.nin = f.nin, !.tin = f.tin, !.tries = f.tries + 1])
  ELSE Goto(w, "failed") /\ Frame(w, Ended(f))
Proceed(w, act, f) == Goto(w, act) /\ Frame(w, [f EXCEPT !.tries = 1])

\* Mutant: the verified NIN is not compared with the record's.
Matches_Any(o, nin) == TRUE

\* "NIN does not match operator record".
Matches(o, nin) == ops[o].nin = nin

\* act-nimc-verify: a verified operator answers from the record.
NIMCVerify(w) ==
  LET o == loc[w].op
      nin == loc[w].nin
      cached == ops[o].status \in Verified
      accepted == cached \/ ((nin = "other" \/ genuine) /\ Matches(o, nin))
      found == IF cached THEN ops[o].nin ELSE nin
  IN
  /\ pc[w] = "verify"
  /\ \/ accepted /\ Proceed(w, "provision", [loc[w] EXCEPT !.nin = found]) /\ NoFault
     \/ ~accepted /\ Retry(w, "verify") /\ NoFault
     \/ ~cached /\ Retry(w, "verify") /\ Fault
  /\ UNCHANGED <<Tables, ops, calls>>

\* act-tin-provision: the recorded TIN, or tin-graph's with the local fallback.
TINProvision(w) ==
  LET known == ops[loc[w].op].tin IN
  /\ pc[w] = "provision"
  /\ \E tin \in IF known # "none" THEN {known} ELSE {"graph", "local"} :
       Proceed(w, "update", [loc[w] EXCEPT !.tin = tin])
  /\ UNCHANGED <<Tables, ops, calls, faults>>

\* act-operator-update reads the operator and prepares two transitions.
OperatorUpdate(w) ==
  /\ pc[w] = "update"
  /\ Frame(w, [loc[w] EXCEPT !.copy = [ops[loc[w].op] EXCEPT !.nin = loc[w].nin, !.tin = loc[w].tin],
                             !.path = <<"nin_verified", "tin_provisioned">>])
  /\ Goto(w, "apply")
  /\ UNCHANGED <<Tables, ops, calls, faults>>

\* The last PutRun, best effort.
CloseRun(w) ==
  /\ pc[w] \in {"completed", "failed"}
  /\ \/ runs' = [runs EXCEPT ![loc[w].run].status = pc[w]] /\ NoFault
     \/ UNCHANGED runs /\ Fault
  /\ Goto(w, AfterRun(w, pc[w] = "completed"))
  /\ Frame(w, IF AfterRun(w, pc[w] = "completed") = "park" THEN Ended(loc[w]) ELSE NoFrame)
  /\ UNCHANGED <<genuine, ops, audit, batches, docs, staged, asserted, calls>>

CallFrame(o, rec, path, final) ==
  [NoFrame EXCEPT !.op = o, !.copy = rec, !.path = path, !.final = final]

\* parkTINRegistration, best effort.
Park(w) ==
  LET o == loc[w].op IN
  /\ pc[w] = "park"
  /\ \/ /\ CanTransition(ops[o].status, "pending_review")
        /\ Frame(w, CallFrame(o, ops[o], <<"pending_review">>, FALSE))
        /\ Goto(w, "apply") /\ NoFault
     \/ /\ \/ ~CanTransition(ops[o].status, "pending_review") /\ NoFault
           \/ Fault
        /\ Goto(w, "idle") /\ Frame(w, NoFrame)
  /\ UNCHANGED <<Tables, ops, calls>>

\* The gateway's client gives up on a run that goes on without it.
GiveUp(w, v) ==
  /\ loc[w].ussd /\ pc[w] \in {"verify", "provision", "update", "apply", "audit"} /\ pc[v] = "idle"
  /\ loc' = [loc EXCEPT ![w].ussd = FALSE, ![v] = [NoFrame EXCEPT !.op = loc[w].op]]
  /\ Goto(v, "park")
  /\ Fault
  /\ UNCHANGED <<Tables, ops, calls>>

-----------------------------------------------------------------------------
(* Registry.Transition on the request's copy: Update, then the audit.      *)

\* Where the request goes when its transitions are through, or one failed.
Settled(w, f) ==
  CASE f.path # <<>> -> Goto(w, "apply") /\ Frame(w, f)
    [] f.final -> Goto(w, "final") /\ Frame(w, [f EXCEPT !.from = "registered"])
    [] f.kind = "run" -> Goto(w, "completed") /\ Frame(w, Ended(f))
    [] OTHER -> Goto(w, "idle") /\ Frame(w, NoFrame)
Refused(w) ==
  IF loc[w].kind = "run" THEN Retry(w, "update") ELSE Goto(w, "idle") /\ Frame(w, NoFrame)

Apply(w) ==
  LET f == loc[w]
      to == Head(f.path)
      g == [f EXCEPT !.copy.status = to, !.path = Tail(@), !.from = f.copy.status]
  IN
  /\ pc[w] = "apply"
  /\ \/ /\ CanTransition(f.copy.status, to)
        /\ PutOperator(f.op, g.copy,
             IF f.copy.status = to THEN Settled(w, g) ELSE Goto(w, "audit") /\ Frame(w, g),
             Refused(w))
     \/ ~CanTransition(f.copy.status, to) /\ Refused(w) /\ UNCHANGED ops /\ NoFault
  /\ UNCHANGED <<Tables, calls>>

Audit(w) ==
  LET f == loc[w] IN
  /\ pc[w] = "audit"
  /\ \/ audit' = audit \cup {<<f.op, f.from, f.copy.status>>} /\ Settled(w, f) /\ NoFault
     \/ UNCHANGED audit /\ Refused(w) /\ Fault
  /\ UNCHANGED <<genuine, ops, runs, batches, docs, staged, asserted, calls>>

\* The Update that ends PATCH, review and Complete.
Final(w) ==
  /\ pc[w] = "final"
  /\ PutOperator(loc[w].op, loc[w].copy, TRUE, TRUE)
  /\ Goto(w, "idle") /\ Frame(w, NoFrame)
  /\ UNCHANGED <<Tables, calls>>

-----------------------------------------------------------------------------
(* The status, field, review and document calls.                           *)

\* The caller's word for a verified status: nothing asks NIMC.
Asserts(o, to) == asserted' = IF to \in Verified THEN asserted \cup {o} ELSE asserted

\* Any authenticated caller, for any operator: the handler asks for no role.
TransitionStatus(w, o, to) ==
  /\ o \in Stored /\ CanTransition(ops[o].status, to)
  /\ Begin(w, CallFrame(o, ops[o], <<to>>, FALSE), "apply")
  /\ Asserts(o, to)
  /\ UNCHANGED <<genuine, ops, audit, runs, batches, docs, staged, faults>>

\* PATCH: a transition, if one is asked for, and the copy with its new fields.
\* The caller is an admin, the operator or the agent who captured it.
PatchStatus(w, o, to) ==
  /\ o \in Stored /\ CanTransition(ops[o].status, to)
  /\ Begin(w, CallFrame(o, ops[o], <<to>>, TRUE), "apply")
  /\ Asserts(o, to)
  /\ UNCHANGED <<genuine, ops, audit, runs, batches, docs, staged, faults>>
PatchFields(w, o) ==
  /\ o \in Stored
  /\ Begin(w, CallFrame(o, ops[o], <<>>, TRUE), "final")
  /\ UNCHANGED <<Tables, ops, faults>>

\* reviewDecision: approval sends a parked operator back to registered.
Review(w, o, decision) ==
  LET rec == [ops[o] EXCEPT !.review = decision]
      path == CASE decision = "approved" /\ rec.status = "pending_review" -> <<"registered">>
                [] decision = "rejected" /\ rec.status # "rejected" -> <<"rejected">>
                [] OTHER -> <<>>
  IN
  /\ o \in Stored
  /\ Begin(w, CallFrame(o, rec, path, TRUE), IF path = <<>> THEN "final" ELSE "apply")
  /\ UNCHANGED <<Tables, ops, faults>>

StageGraduation(o) ==
  /\ o \notin staged /\ calls < MaxCalls
  /\ staged' = staged \cup {o} /\ calls' = calls + 1
  /\ UNCHANGED <<genuine, ops, audit, runs, batches, docs, asserted, pc, loc, faults>>

\* wf-onb-mbs-graduate, one candidate; an illegal transition is skipped.
MBSGraduate(w, o) ==
  /\ o \in staged \cap Stored /\ CanTransition(ops[o].status, "graduated")
  /\ Begin(w, CallFrame(o, ops[o], <<"graduated">>, FALSE), "apply")
  /\ UNCHANGED <<Tables, ops, faults>>

Presign(d) ==
  /\ docs[d] = "none" /\ Stored # {} /\ calls < MaxCalls
  /\ docs' = [docs EXCEPT ![d] = "pending_upload"] /\ calls' = calls + 1
  /\ UNCHANGED <<genuine, ops, audit, runs, batches, staged, asserted, pc, loc, faults>>

\* Complete: the document is uploaded, then attached to the operator named.
Complete(w, o, d) ==
  /\ o \in Stored /\ docs[d] = "pending_upload"
  /\ Begin(w, [NoFrame EXCEPT !.op = o, !.doc = d], "attach")
  /\ docs' = [docs EXCEPT ![d] = "uploaded"]
  /\ UNCHANGED <<genuine, ops, audit, runs, batches, staged, asserted, faults>>
Attach(w) ==
  LET rec == ops[loc[w].op] IN
  /\ pc[w] = "attach"
  /\ Frame(w, [loc[w] EXCEPT !.copy = [rec EXCEPT !.docs = @ \cup {loc[w].doc}]])
  /\ Goto(w, "final")
  /\ UNCHANGED <<Tables, ops, calls, faults>>

-----------------------------------------------------------------------------
(* Ingest: capture batches and, with keys of their own, EnrollCSV rosters. *)

Ingest(w, k) ==
  /\ k \notin batches
  /\ Begin(w, [NoFrame EXCEPT !.kind = "batch", !.key = k], "item")
  /\ UNCHANGED <<Tables, ops, faults>>

\* An item: synced before, a conflict the newer capture wins, or a creation.
Item(w, at, ref) ==
  LET f == [loc[w] EXCEPT !.items = @ + 1] IN
  /\ pc[w] = "item" /\ loc[w].items < MaxItems
  /\ IF ref /\ FindByClientRef # {}
     THEN Frame(w, f) /\ UNCHANGED pc
     ELSE \/ /\ FindByNINHash = {}
             /\ Frame(w, [f EXCEPT !.copy = NewOperator(at, ref)]) /\ Goto(w, "insert")
          \/ \E o \in FindByNINHash :
               IF at > ops[o].capturedAt
               THEN /\ Frame(w, [f EXCEPT !.op = o, !.copy = [ops[o] EXCEPT !.capturedAt = at]])
                    /\ Goto(w, "merge")
               ELSE Frame(w, f) /\ UNCHANGED pc
  /\ UNCHANGED <<Tables, ops, calls, faults>>

Merge(w) ==
  /\ pc[w] = "merge"
  /\ PutOperator(loc[w].op, loc[w].copy,
       Goto(w, "item") /\ Frame(w, [loc[w] EXCEPT !.copy = NoOperator]),
       Goto(w, "idle") /\ Frame(w, NoFrame))
  /\ UNCHANGED <<Tables, calls>>

\* The batch is remembered once all its items are through.
PutBatch(w) ==
  /\ pc[w] = "item" /\ loc[w].items > 0
  /\ \/ batches' = batches \cup {loc[w].key} /\ NoFault
     \/ UNCHANGED batches /\ Fault
  /\ Goto(w, "idle") /\ Frame(w, NoFrame)
  /\ UNCHANGED <<genuine, ops, audit, runs, docs, staged, asserted, calls>>

Crash ==
  /\ Fault
  /\ pc' = [w \in Workers |-> "idle"]
  /\ loc' = [w \in Workers |-> NoFrame]
  /\ UNCHANGED <<Tables, ops, calls>>

-----------------------------------------------------------------------------
Requests(w) ==
  \/ \E ussd \in BOOLEAN : CreateOperator(w, ussd)
  \/ RegisterDuplicate(w)
  \/ \E o \in Ids :
       \/ \E nin \in {"own", "other"} : Provision(w, o, nin)
       \/ \E to \in OperatorStatuses : TransitionStatus(w, o, to) \/ PatchStatus(w, o, to)
       \/ \E decision \in {"approved", "rejected"} : Review(w, o, decision)
       \/ PatchFields(w, o) \/ MBSGraduate(w, o)
       \/ \E d \in Docs : Complete(w, o, d)
  \/ \E r \in RunIds : Redrive(w, r)
  \/ \E k \in Keys : Ingest(w, k)

Steps(w) ==
  \/ Insert(w) \/ StartRun(w) \/ NIMCVerify(w) \/ TINProvision(w) \/ OperatorUpdate(w)
  \/ CloseRun(w) \/ Park(w) \/ Apply(w) \/ Audit(w) \/ Final(w) \/ Attach(w)
  \/ Merge(w) \/ PutBatch(w)
  \/ \E at \in 0..1, ref \in BOOLEAN : Item(w, at, ref)
  \/ \E v \in Workers : GiveUp(w, v)

Next ==
  \/ \E w \in Workers : Requests(w) \/ Steps(w)
  \/ \E o \in Ids : StageGraduation(o)
  \/ \E d \in Docs : Presign(d)
  \/ Crash

Spec == Init /\ [][Next]_vars

-----------------------------------------------------------------------------
(* Properties.                                                             *)

\* "The USSD path must not bypass NIMC": a TIN is on the record of a person only
\* when NIMC verified the NIN, or a caller of the status or PATCH endpoint said
\* so, which skips the check (nimcVerify answers for a verified status from the
\* record); and without such a call nobody is provisioned or graduated without a
\* TIN.  Creation, USSD, runs, retries, redrives, parking, review, captures,
\* graduation, stale copies and crashes open no other way round NIMC.
TINVouched ==
  \A o \in Stored :
    /\ ops[o].tin # "none" => genuine \/ o \in asserted
    /\ ops[o].status \in {"tin_provisioned", "graduated"} => ops[o].tin # "none" \/ o \in asserted
=============================================================================

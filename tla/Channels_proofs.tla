-------------------------- MODULE Channels_proofs --------------------------
(***************************************************************************)
(* What holds of the field channels for every number of agents, calls,     *)
(* replicas, faults and retries.  The components share no state, so each   *)
(* has an inductive invariant of its own, which holds when the behaviour   *)
(* runs that component: USSDInv, FloatInv, SettlementInv, CommInv, beside  *)
(* it PoolInv for what the pool pays, and HierInv, with Solo and Forested  *)
(* when one process does all the attaching.  Each says where a worker that *)
(* dies or is overtaken may leave the store and the ledger, and what it    *)
(* may rely on there.                                                      *)
(***************************************************************************)
EXTENDS Channels, Sequences, FiniteSums, FiniteSetTheorems, TLAPS

-----------------------------------------------------------------------------
(* The PIN gate of the USSD gateway.                                       *)

\* Where processInput holds the lock of the phone.
Critical == {"input", "upstream", "verify", "strike", "setup", "save"}

\* A record of the phone: never more strikes than lock it.
PINOK(p) ==
  /\ p.strikes \in 0..MaxStrikes
  /\ p.set /\ ~p.locked => p.strikes < MaxStrikes
  /\ p = [set |-> p.set, strikes |-> p.strikes, locked |-> p.locked]

\* The copy a webhook keeps has the fields of the PIN gate.
Framed(f) == "rec" \in DOMAIN f /\ "ok" \in DOMAIN f

\* The guesses are on the record, or about to be put there by whoever holds the lock.
USSDInv ==
  /\ uPc \in [UWorkers -> USSD!Labels]
  /\ DOMAIN uLoc = UWorkers /\ (\A w \in UWorkers : Framed(uLoc[w]))
  /\ DOMAIN locks = Dials \cup {Phone}
  /\ PINOK(pin) /\ guesses \in Nat
  /\ \A w \in UWorkers : uPc[w] \in Critical => locks[Phone] = w
  /\ \A w \in UWorkers : uPc[w] = "strike" =>
       /\ PINOK(uLoc[w].rec) /\ uLoc[w].rec.strikes < MaxStrikes
       /\ guesses <= IF uLoc[w].ok THEN 0 ELSE uLoc[w].rec.strikes + 1
  /\ (\A w \in UWorkers : uPc[w] # "strike") => guesses <= pin.strikes

\* What SetPIN stores, and what there is before.
LEMMA PINRecords ==
  /\ \A n \in 0..MaxStrikes - 1 : PINOK([set |-> TRUE, strikes |-> n, locked |-> FALSE])
  /\ PINOK(USSD!NoPIN) /\ USSD!NoPIN.strikes = 0
BY ChannelsAssumption DEF PINOK, USSD!NoPIN

LEMMA FreshFrame == Framed(USSD!NoFrame)
BY DEF Framed, USSD!NoFrame

LEMMA InitUSSDInv == USSD!Init => USSDInv
<1> SUFFICES ASSUME USSD!Init PROVE USSDInv
  OBVIOUS
<1>1. guesses \in 0..MaxStrikes - 1
  BY ChannelsAssumption DEF USSD!Init
<1>2. PINOK(pin) /\ guesses <= pin.strikes
  BY <1>1, PINRecords DEF USSD!Init
<1>3. \A w \in UWorkers : uPc[w] = "idle"
  BY DEF USSD!Init
<1>4. /\ uPc \in [UWorkers -> USSD!Labels] /\ DOMAIN uLoc = UWorkers
      /\ \A w \in UWorkers : Framed(uLoc[w])
      /\ DOMAIN locks = Dials \cup {Phone} /\ guesses \in Nat
  BY <1>1, FreshFrame DEF USSD!Init, USSD!Labels
<1>. QED BY <1>2, <1>3, <1>4 DEF USSDInv, Critical

\* A worker moves between places where it compares and writes nothing.
LEMMA PlainStep ==
  ASSUME USSDInv, UNCHANGED <<pin, guesses>>, NEW w \in UWorkers, NEW to \in USSD!Labels, NEW f,
         uPc[w] # "strike", to # "strike", USSD!Goto(w, to), USSD!Frame(w, f) \/ UNCHANGED uLoc, Framed(f),
         \/ UNCHANGED locks /\ (to \in Critical => uPc[w] \in Critical)
         \/ uPc[w] \in Critical /\ to \notin Critical /\ locks' = [locks EXCEPT ![Phone] = USSD!Free]
         \/ to \in Critical /\ locks[Phone] = USSD!Free /\ locks' = [locks EXCEPT ![Phone] = w]
  PROVE  USSDInv'
<1>1. /\ uPc' \in [UWorkers -> USSD!Labels] /\ DOMAIN uLoc' = UWorkers
      /\ DOMAIN locks' = Dials \cup {Phone} /\ uPc'[w] = to
      /\ \A v \in UWorkers : Framed(uLoc'[v])
      /\ \A v \in UWorkers \ {w} : uPc'[v] = uPc[v] /\ uLoc'[v] = uLoc[v]
  BY DEF USSDInv, USSD!Goto, USSD!Frame
<1>2. USSD!Free \notin UWorkers
  BY ChannelsAssumption DEF USSD!Free, USSD!None
<1>3. \A v \in UWorkers : uPc'[v] \in Critical => locks'[Phone] = v
  BY <1>1, <1>2 DEF USSDInv
<1>4. \A v \in UWorkers : uPc'[v] = "strike" => v # w /\ uPc[v] = "strike"
  BY <1>1
<1>5. (\A v \in UWorkers : uPc'[v] # "strike") => \A v \in UWorkers : uPc[v] # "strike"
  BY <1>1
<1>. QED BY <1>1, <1>3, <1>4, <1>5 DEF USSDInv

LEMMA USSDLabels ==
  /\ {"idle", "lock", "mark", "put"} \subseteq USSD!Labels /\ Critical \subseteq USSD!Labels
  /\ "input" \in Critical /\ "upstream" \in Critical /\ "verify" \in Critical
  /\ "strike" \in Critical /\ "setup" \in Critical /\ "save" \in Critical
  /\ "idle" \notin Critical /\ "lock" \notin Critical /\ "mark" \notin Critical /\ "put" \notin Critical
BY DEF USSD!Labels, Critical

\* Outside the lock nothing is compared: the webhook's arrival and its count.
LEMMA OutsideStep ==
  ASSUME USSDInv, UNCHANGED <<pin, guesses, locks>>, NEW w \in UWorkers,
         NEW to \in {"idle", "lock", "put"}, NEW f,
         uPc[w] \notin Critical, USSD!Goto(w, to), USSD!Frame(w, f), Framed(f)
  PROVE  USSDInv'
<1>1. to \in USSD!Labels /\ to \notin Critical /\ to # "strike" /\ uPc[w] # "strike"
  BY USSDLabels
<1>. QED BY <1>1, PlainStep

\* An input is through.
LEMMA DoneStep ==
  ASSUME USSDInv, UNCHANGED <<pin, guesses>>, NEW w \in UWorkers,
         uPc[w] \in {"input", "save", "upstream"}, USSD!Done(w)
  PROVE  USSDInv'
<1>1. PICK to \in {"lock", "mark", "idle"}, f \in {[uLoc[w] EXCEPT !.todo = Tail(@), !.sess = USSD!None,
                  !.rec = USSD!NoPIN, !.ok = FALSE], USSD!NoFrame} :
        USSD!Goto(w, to) /\ USSD!Frame(w, f)
  BY DEF USSD!Done
<1>2. locks' = [locks EXCEPT ![Phone] = USSD!Free]
  BY DEF USSD!Done, USSD!LockKey
<1>3. to \in USSD!Labels /\ to \notin Critical /\ to # "strike"
  BY USSDLabels
<1>4. uPc[w] \in Critical /\ uPc[w] # "strike"
  BY USSDLabels
<1>5. Framed(f)
  BY FreshFrame DEF Framed, USSDInv
<1>. QED BY <1>1, <1>2, <1>3, <1>4, <1>5, PlainStep

\* An input leads to the next place under the same lock.
LEMMA HandleStep ==
  ASSUME USSDInv, UNCHANGED <<pin, guesses, locks>>, NEW w \in UWorkers, NEW s,
         uPc[w] = "input", USSD!Handle(w, s)
  PROVE  USSDInv'
<1> DEFINE g(menu) == [uLoc[w] EXCEPT !.sess = [s EXCEPT !.menu = menu]]
<1>1. \E to \in {"upstream", "save", "verify", "setup"}, menu \in USSD!Menus \cup {s.menu} :
        USSD!Goto(w, to) /\ USSD!Frame(w, g(menu))
  BY DEF USSD!Handle, USSD!Menus
<1>2. PICK to \in {"upstream", "save", "verify", "setup"}, menu \in USSD!Menus \cup {s.menu} :
        USSD!Goto(w, to) /\ USSD!Frame(w, g(menu))
  BY <1>1
<1>3. to \in USSD!Labels /\ to \in Critical /\ to # "strike" /\ uPc[w] \in Critical /\ uPc[w] # "strike"
  BY USSDLabels
<1>4. Framed(g(menu))
  BY DEF Framed, USSDInv
<1>. HIDE DEF g
<1>. QED BY <1>2, <1>3, <1>4, PlainStep

LEMMA AcquireStep ==
  ASSUME USSDInv, NEW w \in UWorkers, USSD!Acquire(w)
  PROVE  USSDInv'
<1>1. uPc[w] # "strike" /\ "input" \in USSD!Labels /\ "input" \in Critical /\ "input" # "strike"
  BY USSDLabels DEF USSD!Acquire
<1>2. locks[Phone] = USSD!Free /\ locks' = [locks EXCEPT ![Phone] = w] /\ UNCHANGED <<pin, guesses>>
  BY DEF USSD!Acquire, USSD!LockKey
<1>3. USSD!Goto(w, "input") /\ UNCHANGED uLoc /\ Framed(uLoc[w])
  BY DEF USSD!Acquire, USSDInv
<1>. QED BY <1>1, <1>2, <1>3, PlainStep

\* Only one webhook is where the lock is held.
LEMMA OneHolder ==
  ASSUME USSDInv, NEW w \in UWorkers, uPc[w] \in Critical
  PROVE  \A v \in UWorkers \ {w} : uPc[v] \notin Critical /\ uPc[v] # "strike"
BY USSDLabels DEF USSDInv

\* Whoever holds the lock goes on holding it and has written the record, or read it.
LEMMA HolderStep ==
  ASSUME USSDInv, NEW w \in UWorkers, uPc[w] \in Critical, UNCHANGED locks,
         NEW to \in Critical, USSD!Goto(w, to),
         DOMAIN uLoc' = UWorkers /\ (\A v \in UWorkers : Framed(uLoc'[v])),
         PINOK(pin') /\ guesses' \in Nat,
         IF to = "strike"
         THEN /\ PINOK(uLoc'[w].rec) /\ uLoc'[w].rec.strikes < MaxStrikes
              /\ guesses' <= IF uLoc'[w].ok THEN 0 ELSE uLoc'[w].rec.strikes + 1
         ELSE guesses' <= pin'.strikes
  PROVE  USSDInv'
<1>1. /\ uPc' \in [UWorkers -> USSD!Labels] /\ DOMAIN locks' = Dials \cup {Phone} /\ uPc'[w] = to
      /\ \A v \in UWorkers \ {w} : uPc'[v] = uPc[v]
  BY USSDLabels DEF USSDInv, USSD!Goto
<1>2. \A v \in UWorkers \ {w} : uPc'[v] \notin Critical /\ uPc'[v] # "strike"
  BY <1>1, OneHolder
<1>3. locks'[Phone] = w
  BY DEF USSDInv
<1>4. \A v \in UWorkers : uPc'[v] \in Critical => locks'[Phone] = v
  BY <1>2, <1>3
<1>5. \A v \in UWorkers : uPc'[v] = "strike" => v = w /\ to = "strike"
  BY <1>1, <1>2
<1>6. (\A v \in UWorkers : uPc'[v] # "strike") => to # "strike"
  BY <1>1
<1>. QED BY <1>1, <1>4, <1>5, <1>6 DEF USSDInv

LEMMA SetPINStep ==
  ASSUME USSDInv, NEW w \in UWorkers, USSD!SetPIN(w)
  PROVE  USSDInv'
<1>1. PINOK(pin') /\ guesses' \in Nat /\ guesses' <= pin'.strikes
  BY PINRecords, ChannelsAssumption DEF USSD!SetPIN
<1>2. uPc[w] \in Critical /\ "upstream" \in Critical /\ "upstream" # "strike"
  BY USSDLabels DEF USSD!SetPIN
<1>3. USSD!Goto(w, "upstream") /\ UNCHANGED locks
      /\ DOMAIN uLoc' = UWorkers /\ (\A v \in UWorkers : Framed(uLoc'[v]))
  BY DEF USSD!SetPIN, USSDInv
<1>. QED BY <1>1, <1>2, <1>3, HolderStep

\* A guess is counted before it is on the record.
LEMMA VerifyStep ==
  ASSUME USSDInv, NEW w \in UWorkers, USSD!Verify(w)
  PROVE  USSDInv'
<1>1. uPc[w] = "verify" /\ UNCHANGED <<locks, pin>> /\ PINOK(pin)
  BY DEF USSD!Verify, USSDInv
<1>2. uPc[w] \in Critical /\ "upstream" \in Critical /\ "upstream" # "strike" /\ "strike" \in Critical
  BY <1>1, USSDLabels
<1>3. guesses <= pin.strikes /\ guesses \in Nat
  <2>1. \A v \in UWorkers : uPc[v] # "strike"
    BY <1>1, <1>2, OneHolder
  <2>. QED BY <2>1 DEF USSDInv
<1>4. CASE pin.set /\ ~pin.locked
  <2> DEFINE ok == Head(uLoc[w].todo) = "1"
  <2>1. /\ uLoc' = [uLoc EXCEPT ![w] = [uLoc[w] EXCEPT !.rec = pin, !.ok = ok]]
        /\ USSD!Goto(w, "strike") /\ guesses' = IF ok THEN 0 ELSE guesses + 1
    BY <1>4 DEF USSD!Verify, USSD!Frame
  <2>2. uLoc'[w].rec = pin /\ uLoc'[w].ok = ok
    BY <2>1 DEF USSDInv, Framed
  <2>3. DOMAIN uLoc' = UWorkers /\ (\A v \in UWorkers : Framed(uLoc'[v]))
    BY <2>1 DEF USSDInv, Framed
  <2>4. pin.strikes < MaxStrikes /\ pin.strikes \in Nat
    BY <1>1, <1>4, ChannelsAssumption DEF PINOK
  <2>5. guesses' \in Nat /\ guesses' <= IF uLoc'[w].ok THEN 0 ELSE uLoc'[w].rec.strikes + 1
    <3>. HIDE DEF ok
    <3>1. CASE ok
      BY <1>3, <2>1, <2>2, <2>4, <3>1
    <3>2. CASE ~ok
      <4>1. ~uLoc'[w].ok
        BY <2>2, <3>2
      <4>. QED BY <1>3, <2>1, <2>2, <2>4, <3>2, <4>1
    <3>. QED BY <3>1, <3>2
  <2>. HIDE DEF ok
  <2>. QED BY <1>1, <1>2, <2>1, <2>2, <2>3, <2>4, <2>5, HolderStep
<1>5. CASE ~(pin.set /\ ~pin.locked)
  <2>1. USSD!Goto(w, "upstream") /\ UNCHANGED <<uLoc, guesses>>
    BY <1>5 DEF USSD!Verify
  <2>2. DOMAIN uLoc' = UWorkers /\ (\A v \in UWorkers : Framed(uLoc'[v]))
    BY <2>1 DEF USSDInv
  <2>. QED BY <1>1, <1>2, <1>3, <2>1, <2>2, HolderStep
<1>. QED BY <1>4, <1>5

\* The record goes back with the guess on it.
LEMMA StrikeStep ==
  ASSUME USSDInv, NEW w \in UWorkers, USSD!Strike(w)
  PROVE  USSDInv'
<1> DEFINE r == uLoc[w].rec
           n == IF uLoc[w].ok THEN 0 ELSE r.strikes + 1
<1>1. /\ uPc[w] = "strike" /\ UNCHANGED <<locks, guesses, uLoc>> /\ USSD!Goto(w, "upstream")
      /\ pin' = [r EXCEPT !.strikes = n, !.locked = (n >= MaxStrikes)]
  BY DEF USSD!Strike
<1>2. PINOK(r) /\ r.strikes < MaxStrikes /\ guesses <= n /\ guesses \in Nat
  BY <1>1 DEF USSDInv
<1>3. n \in 0..MaxStrikes
  BY <1>2, ChannelsAssumption DEF PINOK
<1>4. pin' = [set |-> r.set, strikes |-> n, locked |-> (n >= MaxStrikes)]
  <2>. PICK m : m = n
    OBVIOUS
  <2>. HIDE DEF r, n
  <2>. QED BY <1>1, <1>2 DEF PINOK
<1>5. PINOK(pin') /\ pin'.strikes = n
  <2>. HIDE DEF r, n
  <2>1. CASE n >= MaxStrikes
    BY <1>3, <1>4, <2>1, ChannelsAssumption DEF PINOK
  <2>2. CASE ~(n >= MaxStrikes)
    BY <1>3, <1>4, <2>2, ChannelsAssumption DEF PINOK
  <2>. QED BY <2>1, <2>2
<1>6. uPc[w] \in Critical /\ "upstream" \in Critical /\ "upstream" # "strike"
  BY <1>1, USSDLabels
<1>7. DOMAIN uLoc' = UWorkers /\ (\A v \in UWorkers : Framed(uLoc'[v])) /\ guesses' \in Nat
  BY <1>1 DEF USSDInv
<1>. HIDE DEF r, n
<1>. QED BY <1>1, <1>2, <1>5, <1>6, <1>7, HolderStep

\* A restart loses the PIN with the locks.
LEMMA CrashStep ==
  ASSUME USSDInv, USSD!Crash
  PROVE  USSDInv'
<1>1. /\ \A w \in UWorkers : uPc'[w] = "idle" /\ uLoc'[w] = USSD!NoFrame
      /\ uPc' \in [UWorkers -> USSD!Labels] /\ DOMAIN uLoc' = UWorkers
      /\ DOMAIN locks' = Dials \cup {Phone} /\ pin' = USSD!NoPIN /\ guesses' = 0
  BY USSDLabels DEF USSD!Crash, USSDInv
<1>2. PINOK(pin') /\ guesses' \in Nat /\ guesses' <= pin'.strikes
  BY <1>1, PINRecords
<1>. QED BY <1>1, <1>2, FreshFrame, USSDLabels DEF USSDInv

LEMMA WebhookStep ==
  ASSUME USSDInv, NEW w \in UWorkers, NEW d, NEW t, USSD!Webhook(w, d, t),
         UNCHANGED <<locks, pin, guesses>>
  PROVE  USSDInv'
<1>1. PICK f : USSD!Frame(w, f) /\ Framed(f)
  <2> DEFINE g == [USSD!NoFrame EXCEPT !.dial = d, !.upto = Len(t),
                    !.count = (Len(t) > (IF sessions[d] = USSD!None THEN 0 ELSE sessions[d].consumed)),
                    !.todo = IF Len(t) > (IF sessions[d] = USSD!None THEN 0 ELSE sessions[d].consumed)
                             THEN SubSeq(t, (IF sessions[d] = USSD!None THEN 0 ELSE sessions[d].consumed) + 1, Len(t))
                             ELSE IF t = <<>> THEN <<"", "">> ELSE <<"">>]
  <2>1. USSD!Frame(w, g)
    BY DEF USSD!Webhook
  <2>2. Framed(g)
    BY DEF Framed, USSD!NoFrame
  <2>. HIDE DEF g
  <2>. QED BY <2>1, <2>2
<1>2. USSD!Goto(w, "lock") /\ uPc[w] \notin Critical
  BY USSDLabels DEF USSD!Webhook
<1>. QED BY <1>1, <1>2, OutsideStep

LEMMA MarkStep ==
  ASSUME USSDInv, NEW w \in UWorkers, USSD!Mark(w) \/ USSD!PutMark(w)
  PROVE  USSDInv'
<1>1. uPc[w] \notin Critical /\ UNCHANGED <<pin, guesses, locks>>
  BY USSDLabels DEF USSD!Mark, USSD!PutMark
<1>2. PICK to \in {"idle", "put"}, f \in {USSD!NoFrame, [uLoc[w] EXCEPT !.sess = sessions[uLoc[w].dial]]} :
        USSD!Goto(w, to) /\ USSD!Frame(w, f)
  BY DEF USSD!Mark, USSD!PutMark
<1>3. Framed(f)
  BY FreshFrame DEF Framed, USSDInv
<1>. QED BY <1>1, <1>2, <1>3, OutsideStep

LEMMA IdleUSSDStep == USSDInv /\ UNCHANGED <<locks, pin, guesses, uPc, uLoc>> => USSDInv'
BY DEF USSDInv

LEMMA NextUSSDInv == USSDInv /\ USSD!Next => USSDInv'
<1> SUFFICES ASSUME USSDInv, USSD!Next PROVE USSDInv'
  OBVIOUS
<1>1. ASSUME NEW w \in UWorkers, NEW d \in Dials,
             \/ USSD!Resend(w, d)
             \/ \E i \in USSD!Inputs : USSD!Dial(w, d, <<>>) \/ USSD!Dial(w, d, <<i>>) \/ USSD!Enter(w, d, i)
      PROVE  USSDInv'
  <2>1. \E t : USSD!Webhook(w, d, t) /\ UNCHANGED <<locks, pin, guesses>>
    BY <1>1 DEF USSD!Resend, USSD!Dial, USSD!Enter
  <2>. QED BY <2>1, WebhookStep
<1>2. ASSUME NEW w \in UWorkers, USSD!First(w) PROVE USSDInv'
  <2>1. uPc[w] = "input" /\ UNCHANGED <<pin, guesses>>
    BY <1>2 DEF USSD!First
  <2>2. USSD!Done(w) \/ (USSD!Handle(w, USSD!Home) /\ UNCHANGED locks)
    BY <1>2 DEF USSD!First
  <2>3. CASE USSD!Done(w)
    BY <2>1, <2>3, DoneStep
  <2>4. CASE USSD!Handle(w, USSD!Home) /\ UNCHANGED locks
    BY <2>1, <2>4, HandleStep
  <2>. QED BY <2>2, <2>3, <2>4
<1>3. ASSUME NEW w \in UWorkers, USSD!Resume(w) \/ USSD!Save(w) \/ USSD!Upstream(w) PROVE USSDInv'
  <2>1. uPc[w] \in {"input", "save", "upstream"} /\ UNCHANGED <<pin, guesses>> /\ USSD!Done(w)
    BY <1>3 DEF USSD!Resume, USSD!Save, USSD!Upstream
  <2>. QED BY <2>1, DoneStep
<1>4. ASSUME NEW w \in UWorkers, USSD!Input(w) PROVE USSDInv'
  <2>1. uPc[w] = "input" /\ UNCHANGED <<pin, guesses, locks>> /\ USSD!Handle(w, sessions[uLoc[w].dial])
    BY <1>4 DEF USSD!Input
  <2>. QED BY <2>1, HandleStep
<1>5. ASSUME NEW d \in Dials, USSD!Expire(d) PROVE USSDInv'
  BY <1>5, IdleUSSDStep DEF USSD!Expire
<1>. QED BY <1>1, <1>2, <1>3, <1>4, <1>5, AcquireStep, SetPINStep, VerifyStep, StrikeStep, MarkStep,
            CrashStep DEF USSD!Next

\* Wrong guesses between two proofs of a PIN never exceed the strikes that lock
\* it, whatever webhooks of whatever dials overlap: PINManager.Verify compares
\* and writes under the lock per MSISDN of processInput.
THEOREM PINGuessesBounded == Spec => []GuessesBounded
<1> DEFINE Inv == focus = "ussd" => USSDInv
<1>1. Init => Inv
  BY InitUSSDInv DEF Init
<1>2. Inv /\ [Next]_vars => Inv'
  <2> SUFFICES ASSUME Inv, [Next]_vars PROVE Inv'
    OBVIOUS
  <2>1. CASE UNCHANGED <<focus, uVars>>
    BY <2>1, IdleUSSDStep DEF uVars
  <2>2. CASE USSDStep
    BY <2>2, NextUSSDInv DEF USSDStep
  <2>. QED BY <2>1, <2>2 DEF Next, vars, HierStep, FloatStep, CommStep, SettlementStep
<1>3. Inv => GuessesBounded
  <2> SUFFICES ASSUME USSDInv PROVE guesses <= MaxStrikes
    BY DEF GuessesBounded, USSD!GuessesBounded
  <2>1. CASE \E w \in UWorkers : uPc[w] = "strike"
    <3>1. PICK w \in UWorkers : uPc[w] = "strike"
      BY <2>1
    <3>2. /\ PINOK(uLoc[w].rec) /\ uLoc[w].rec.strikes < MaxStrikes /\ guesses \in Nat
          /\ guesses <= IF uLoc[w].ok THEN 0 ELSE uLoc[w].rec.strikes + 1
      BY <3>1 DEF USSDInv
    <3>3. uLoc[w].rec.strikes \in Nat
      BY <3>2, ChannelsAssumption DEF PINOK
    <3>4. CASE uLoc[w].ok
      BY <3>2, <3>4, ChannelsAssumption
    <3>5. CASE ~uLoc[w].ok
      BY <3>2, <3>3, <3>5, ChannelsAssumption
    <3>. QED BY <3>4, <3>5
  <2>2. CASE \A w \in UWorkers : uPc[w] # "strike"
    <3>1. guesses <= pin.strikes /\ guesses \in Nat /\ pin.strikes \in 0..MaxStrikes
      BY <2>2 DEF USSDInv, PINOK
    <3>. QED BY <3>1, ChannelsAssumption
  <2>. QED BY <2>1, <2>2
<1>. QED BY <1>1, <1>2, <1>3, PTL DEF Spec

-----------------------------------------------------------------------------
(* The float.                                                              *)

FWorkers == FCalls \cup {Sweeper}

\* What the hold and the post of a movement read.
Rec(mv, p) == Float!Core!Record(Float!Debit(mv), Float!Credit(mv), mv.amount, p)
HoldRec(m) == fTransfers[<<m, "hold">>]
PostRec(m) == fTransfers[<<m, "post">>]
Held(mv) == HoldRec(mv.move) = Rec(mv, TRUE) \/ HoldRec(mv.move) = Rec(mv, FALSE)
Posted(mv) == PostRec(mv.move) = Rec(mv, FALSE)

\* Where there is no hold, or an open one, there is no post yet.
HoldsUnposted ==
  \A m \in Moves :
    HoldRec(m) = Float!Core!NoTransfer \/ HoldRec(m).pending => PostRec(m) = Float!Core!NoTransfer

\* What a worker knows of the ledger where it is.
FloatClaim(w) ==
  /\ fPc[w] \in {"hold", "put", "release", "post", "void", "end"} => fLoc[w] \in Float!Movements
  /\ fPc[w] \in {"hold", "put", "release"} =>
       w \in FCalls /\ fLoc[w].move = MoveOf[w] /\ fLoc[w].status = "pending"
  /\ fPc[w] \in {"put", "post"} => Held(fLoc[w])
  /\ fPc[w] = "end" => fLoc[w].status # "pending" /\ (fLoc[w].status = "posted" => Posted(fLoc[w]))

\* The stored movements are true of the ledger.
StoredBacked ==
  \A m \in Moves : movements[m] # Float!NoMovement =>
    /\ movements[m] \in Float!Movements /\ movements[m].move = m
    /\ movements[m].status = "pending" => Held(movements[m])
    /\ movements[m].status = "posted" => Posted(movements[m])

FloatInv ==
  /\ DOMAIN fTransfers = Moves \X Float!Core!Legs
  /\ DOMAIN movements = Moves
  /\ DOMAIN fPc = FWorkers /\ DOMAIN fLoc = FWorkers
  /\ HoldsUnposted /\ StoredBacked
  /\ \A w \in FWorkers : FloatClaim(w)

\* What any call does to the transfers: nothing, a new hold, or the end of an open one.
NewHold(m, r) ==
  /\ HoldRec(m) = Float!Core!NoTransfer /\ fTransfers' = [fTransfers EXCEPT ![<<m, "hold">>] = r]
Spent(m, leg) ==
  LET h == HoldRec(m)
      r == Float!Core!Record(h.debit, h.credit, h.amount, FALSE)
  IN  /\ h # Float!Core!NoTransfer /\ h.pending
      /\ fTransfers' = [fTransfers EXCEPT ![<<m, "hold">>] = r, ![<<m, leg>>] = r]
TransferStep ==
  \/ UNCHANGED fTransfers
  \/ \E m \in Moves, mv \in Float!Movements : NewHold(m, Rec(mv, TRUE))
  \/ \E m \in Moves, leg \in {"post", "void"} : Spent(m, leg)

LEMMA RecFields ==
  ASSUME NEW mv, NEW p
  PROVE  /\ Rec(mv, p).debit = Float!Debit(mv) /\ Rec(mv, p).credit = Float!Credit(mv)
         /\ Rec(mv, p).amount = mv.amount /\ Rec(mv, p).pending = p
         /\ Rec(mv, p) # Float!Core!NoTransfer
BY DEF Rec, Float!Core!Record, Float!Core!NoTransfer

\* Nothing a movement's record relies on is ever undone.
LEMMA LedgerKeeps ==
  ASSUME FloatInv, TransferStep
  PROVE  /\ DOMAIN fTransfers' = Moves \X Float!Core!Legs
         /\ HoldsUnposted'
         /\ \A mv \in Float!Movements : (Held(mv) => Held(mv)') /\ (Posted(mv) => Posted(mv)')
<1> DEFINE Kept == /\ DOMAIN fTransfers' = Moves \X Float!Core!Legs
                   /\ HoldsUnposted'
                   /\ \A mv \in Float!Movements : (Held(mv) => Held(mv)') /\ (Posted(mv) => Posted(mv)')
<1>1. CASE UNCHANGED fTransfers
  BY <1>1 DEF FloatInv, HoldsUnposted, Held, Posted, HoldRec, PostRec
<1>2. ASSUME NEW m \in Moves, NEW nv \in Float!Movements, NewHold(m, Rec(nv, TRUE)) PROVE Kept
  <2>1. DOMAIN fTransfers' = DOMAIN fTransfers
    BY <1>2 DEF NewHold
  <2>2. HoldRec(m)' = Rec(nv, TRUE) /\ \A n \in Moves \ {m} : HoldRec(n)' = HoldRec(n)
    BY <1>2 DEF NewHold, HoldRec, FloatInv, Float!Core!Legs
  <2>3. \A n \in Moves : PostRec(n)' = PostRec(n)
    BY <1>2 DEF NewHold, PostRec, FloatInv, Float!Core!Legs
  <2>4. HoldsUnposted'
    BY <1>2, <2>2, <2>3 DEF HoldsUnposted, FloatInv, NewHold
  <2>5. ASSUME NEW mv \in Float!Movements
        PROVE  (Held(mv) => Held(mv)') /\ (Posted(mv) => Posted(mv)')
    <3>1. mv.move \in Moves
      BY DEF Float!Movements
    <3>2. Held(mv) => mv.move # m
      BY <1>2, RecFields DEF Held, NewHold
    <3>. QED BY <2>2, <2>3, <3>1, <3>2 DEF Held, Posted
  <2>. QED BY <2>1, <2>4, <2>5 DEF FloatInv
<1>3. ASSUME NEW m \in Moves, NEW leg \in {"post", "void"}, Spent(m, leg) PROVE Kept
  <2> DEFINE h == HoldRec(m)
             r == Float!Core!Record(h.debit, h.credit, h.amount, FALSE)
  <2>1. /\ h # Float!Core!NoTransfer /\ h.pending
        /\ fTransfers' = [fTransfers EXCEPT ![<<m, "hold">>] = r, ![<<m, leg>>] = r]
    BY <1>3 DEF Spent
  <2>2. r.pending = FALSE /\ r # Float!Core!NoTransfer
    BY DEF Float!Core!Record, Float!Core!NoTransfer
  <2>. HIDE DEF r
  <2>3. DOMAIN fTransfers' = DOMAIN fTransfers
    BY <2>1
  <2>4. HoldRec(m)' = r /\ \A n \in Moves \ {m} : HoldRec(n)' = HoldRec(n)
    BY <2>1 DEF HoldRec, FloatInv, Float!Core!Legs
  <2>5. \A n \in Moves \ {m} : PostRec(n)' = PostRec(n)
    BY <2>1 DEF PostRec, FloatInv, Float!Core!Legs
  <2>6. PostRec(m) = Float!Core!NoTransfer
    BY <2>1 DEF HoldsUnposted, FloatInv
  <2>7. HoldsUnposted'
    BY <2>2, <2>4, <2>5 DEF HoldsUnposted, FloatInv
  <2>8. ASSUME NEW mv \in Float!Movements
        PROVE  (Held(mv) => Held(mv)') /\ (Posted(mv) => Posted(mv)')
    <3>1. mv.move \in Moves
      BY DEF Float!Movements
    <3>2. Posted(mv) => mv.move # m
      BY <2>6, RecFields DEF Posted
    <3>3. Held(mv) /\ mv.move = m => r = Rec(mv, FALSE)
      <4> SUFFICES ASSUME Held(mv), mv.move = m PROVE r = Rec(mv, FALSE)
        OBVIOUS
      <4>1. PICK p \in BOOLEAN : h = Rec(mv, p)
        BY DEF Held
      <4>. HIDE DEF h
      <4>. QED BY <4>1, RecFields DEF r, Rec
    <3>. QED BY <2>4, <2>5, <3>1, <3>2, <3>3 DEF Held, Posted
  <2>. QED BY <2>3, <2>7, <2>8 DEF FloatInv
<1>. QED BY <1>1, <1>2, <1>3 DEF TransferStep

LEMMA StoredKept ==
  ASSUME FloatInv, TransferStep, UNCHANGED movements
  PROVE  StoredBacked'
BY LedgerKeeps DEF FloatInv, StoredBacked

\* A worker moves, knowing what it must where it goes; what the others know stays true.
LEMMA FloatWorkerStep ==
  ASSUME FloatInv, TransferStep, DOMAIN movements' = Moves, StoredBacked', NEW w \in FWorkers, NEW to,
         Float!Goto(w, to), UNCHANGED fLoc \/ \E f : fLoc' = [fLoc EXCEPT ![w] = f], FloatClaim(w)'
  PROVE  FloatInv'
<1>1. /\ DOMAIN fPc' = FWorkers /\ DOMAIN fLoc' = FWorkers
      /\ \A v \in FWorkers \ {w} : fPc'[v] = fPc[v] /\ fLoc'[v] = fLoc[v]
  BY DEF FloatInv, Float!Goto
<1>2. ASSUME NEW v \in FWorkers \ {w} PROVE FloatClaim(v)'
  <2>1. FloatClaim(v) /\ fPc'[v] = fPc[v] /\ fLoc'[v] = fLoc[v]
    BY <1>1 DEF FloatInv
  <2>2. PICK mv : mv = fLoc[v]
    OBVIOUS
  <2>3. mv \in Float!Movements => (Held(mv) => Held(mv)') /\ (Posted(mv) => Posted(mv)')
    BY LedgerKeeps
  <2>. QED BY <2>1, <2>2, <2>3 DEF FloatClaim
<1>3. \A v \in FWorkers : FloatClaim(v)'
  BY <1>2
<1>. QED BY <1>1, <1>3, LedgerKeeps DEF FloatInv

LEMMA FloatKinds ==
  /\ FCalls \subseteq FWorkers /\ Sweeper \in FWorkers
  /\ \A c \in FCalls : MoveOf[c] \in Moves
BY ChannelsAssumption DEF FWorkers

\* PendingTransfer and its replay.
LEMMA HoldEffect ==
  ASSUME FloatInv, NEW mv \in Float!Movements
  PROVE  /\ Float!HoldNew(mv) => TransferStep /\ Held(mv)'
         /\ Float!HoldReplay(mv) => TransferStep /\ Held(mv)'
<1>1. mv.move \in Moves
  BY DEF Float!Movements
<1>2. ASSUME Float!HoldNew(mv) PROVE TransferStep /\ Held(mv)'
  <2>1. NewHold(mv.move, Rec(mv, TRUE))
    BY <1>2 DEF Float!HoldNew, Float!Core!PendingTransfer, Float!Core!Exists, NewHold, HoldRec, Rec
  <2>2. HoldRec(mv.move)' = Rec(mv, TRUE)
    BY <1>1, <2>1 DEF NewHold, HoldRec, FloatInv, Float!Core!Legs
  <2>. QED BY <1>1, <2>1, <2>2 DEF TransferStep, Held
<1>3. ASSUME Float!HoldReplay(mv) PROVE TransferStep /\ Held(mv)'
  BY <1>3 DEF Float!HoldReplay, Float!ledger, TransferStep, Held, HoldRec, Rec
<1>. QED BY <1>2, <1>3

\* VoidPending, and the call that finds nothing to void.
LEMMA VoidEffect ==
  ASSUME FloatInv, NEW m \in Moves
  PROVE  /\ Float!Core!VoidPending(m) => TransferStep
         /\ UNCHANGED Float!ledger => TransferStep
         /\ Float!VoidNow(m) => TransferStep
<1>1. ASSUME Float!Core!VoidPending(m) PROVE TransferStep
  <2>1. Spent(m, "void")
    BY <1>1 DEF Float!Core!VoidPending, Float!Core!Consume, Float!Core!IsPending, Float!Core!Exists,
                Spent, HoldRec
  <2>. QED BY <2>1 DEF TransferStep
<1>2. UNCHANGED Float!ledger => TransferStep
  BY DEF Float!ledger, TransferStep
<1>. QED BY <1>1, <1>2 DEF Float!VoidNow

\* PostPendingAs of the whole hold.
LEMMA PostEffect ==
  ASSUME FloatInv, NEW mv \in Float!Movements, Held(mv)
  PROVE  /\ Float!PostNew(mv) => TransferStep /\ Posted(mv)'
         /\ Float!PostReplay(mv) => TransferStep /\ Posted(mv)'
<1>1. mv.move \in Moves /\ mv.amount \in Nat /\ mv.amount # 0
  BY ChannelsAssumption DEF Float!Movements
<1>2. ASSUME Float!PostNew(mv) PROVE TransferStep /\ Posted(mv)'
  <2> DEFINE h == HoldRec(mv.move)
  <2>1. h.debit = Float!Debit(mv) /\ h.credit = Float!Credit(mv) /\ h.amount = mv.amount
    <3>1. PICK p \in BOOLEAN : h = Rec(mv, p)
      BY DEF Held
    <3>2. Rec(mv, p).debit = Float!Debit(mv) /\ Rec(mv, p).credit = Float!Credit(mv) /\ Rec(mv, p).amount = mv.amount
      BY RecFields, Zenon
    <3>. QED BY <3>1, <3>2, Zenon
  <2>2. Float!Core!IsPending(<<mv.move, "hold">>) /\ Float!Core!Consume(mv.move, "post", mv.amount)
    BY <1>1, <1>2 DEF Float!PostNew, Float!Core!PostPendingAs
  <2>3. /\ h # Float!Core!NoTransfer /\ h.pending
        /\ fTransfers' = [fTransfers EXCEPT
             ![<<mv.move, "hold">>] = Float!Core!Record(h.debit, h.credit,
                 IF "post" = "post" /\ mv.amount < h.amount THEN 0 ELSE h.amount, FALSE),
             ![<<mv.move, "post">>] = Float!Core!Record(h.debit, h.credit,
                 IF "post" = "post" THEN mv.amount ELSE h.amount, FALSE)]
    BY <2>2 DEF Float!Core!IsPending, Float!Core!Exists, Float!Core!Consume, HoldRec
  <2>. HIDE DEF h
  <2>4. Spent(mv.move, "post")
    <3>1. ~(mv.amount < h.amount)
      BY <1>1, <2>1
    <3>. QED BY <2>1, <2>3, <3>1 DEF Spent, h
  <2>5. Float!Core!Record(h.debit, h.credit, h.amount, FALSE) = Rec(mv, FALSE)
    BY <2>1 DEF Rec
  <2>6. PostRec(mv.move)' = Rec(mv, FALSE)
    BY <1>1, <2>4, <2>5 DEF Spent, PostRec, FloatInv, Float!Core!Legs, h
  <2>. QED BY <1>1, <2>4, <2>6 DEF TransferStep, Posted
<1>3. ASSUME Float!PostReplay(mv) PROVE TransferStep /\ Posted(mv)'
  BY <1>3 DEF Float!PostReplay, Float!ledger, TransferStep, Posted, PostRec, Rec
<1>. QED BY <1>2, <1>3

\* The place of a worker after its step, and its copy when it keeps it.
LEMMA FloatMoved ==
  ASSUME FloatInv, NEW w \in FWorkers, NEW to, Float!Goto(w, to)
  PROVE  fPc'[w] = to
BY DEF FloatInv, Float!Goto

LEMMA FindOpenStep ==
  ASSUME FloatInv, NEW c \in FCalls, Float!Find(c) \/ Float!Open(c)
  PROVE  FloatInv'
<1> DEFINE f == [move |-> MoveOf[c], agent |-> FAgentOf[c], amount |-> AmountOf[c], status |-> "pending"]
<1>1. c \in FWorkers /\ UNCHANGED fTransfers /\ UNCHANGED movements
  BY FloatKinds DEF Float!Find, Float!Open, Float!Core!CreateAccounts, Float!ledger
<1>2. TransferStep /\ StoredBacked' /\ DOMAIN movements' = Moves
  BY <1>1, StoredKept DEF TransferStep, FloatInv
<1>3. PICK to \in {"open", "hold", "done"} :
        /\ Float!Goto(c, to)
        /\ \/ to # "hold" /\ UNCHANGED fLoc
           \/ fLoc' = [fLoc EXCEPT ![c] = f]
  BY DEF Float!Find, Float!Open
<1>4. f \in Float!Movements /\ f.move = MoveOf[c] /\ f.status = "pending"
  BY ChannelsAssumption DEF Float!Movements
<1>. HIDE DEF f
<1>5. to = "hold" => fLoc'[c] = f
  BY <1>1, <1>3 DEF FloatInv
<1>6. FloatClaim(c)'
  BY <1>1, <1>3, <1>4, <1>5, FloatMoved DEF FloatClaim
<1>. QED BY <1>1, <1>2, <1>3, <1>6, FloatWorkerStep

LEMMA HoldStep ==
  ASSUME FloatInv, NEW c \in FCalls, Float!Hold(c)
  PROVE  FloatInv'
<1>1. c \in FWorkers /\ fPc[c] = "hold" /\ UNCHANGED <<movements, fLoc>>
  BY FloatKinds DEF Float!Hold
<1>2. FloatClaim(c)
  BY <1>1 DEF FloatInv
<1>3. PICK mv \in Float!Movements : mv = fLoc[c]
  BY <1>1, <1>2 DEF FloatClaim
<1>4. \/ (Float!HoldNew(mv) \/ Float!HoldReplay(mv)) /\ Float!Goto(c, "put")
      \/ (Float!HoldNew(mv) \/ UNCHANGED Float!ledger) /\ Float!Goto(c, "done")
  BY <1>3 DEF Float!Hold
<1>5. TransferStep
  BY <1>4, HoldEffect DEF TransferStep, Float!ledger
<1>6. PICK to \in {"put", "done"} : Float!Goto(c, to) /\ (to = "put" => Held(mv)')
  BY <1>4, HoldEffect
<1>7. FloatClaim(c)'
  BY <1>1, <1>2, <1>3, <1>6, FloatMoved DEF FloatClaim
<1>8. StoredBacked' /\ DOMAIN movements' = Moves
  BY <1>1, <1>5, StoredKept DEF FloatInv
<1>. QED BY <1>1, <1>5, <1>6, <1>7, <1>8, FloatWorkerStep

\* A movement is stored that is true of the ledger.
LEMMA StoredPut ==
  ASSUME FloatInv, TransferStep, NEW mv \in Float!Movements, mv.move \in Moves,
         movements' = [movements EXCEPT ![mv.move] = mv],
         mv.status = "pending" => Held(mv)', mv.status = "posted" => Posted(mv)'
  PROVE  StoredBacked' /\ DOMAIN movements' = Moves
<1>1. DOMAIN movements' = Moves /\ movements'[mv.move] = mv
      /\ \A m \in Moves \ {mv.move} : movements'[m] = movements[m]
  BY DEF FloatInv
<1>2. ASSUME NEW m \in Moves, m # mv.move, movements[m] # Float!NoMovement
      PROVE  /\ movements'[m] \in Float!Movements /\ movements'[m].move = m
             /\ movements'[m].status = "pending" => Held(movements[m])'
             /\ movements'[m].status = "posted" => Posted(movements[m])'
  <2>1. PICK nv : nv = movements[m]
    OBVIOUS
  <2>2. /\ nv \in Float!Movements /\ nv.move = m
        /\ nv.status = "pending" => Held(nv)
        /\ nv.status = "posted" => Posted(nv)
    BY <1>2, <2>1 DEF FloatInv, StoredBacked
  <2>3. /\ nv.status = "pending" => Held(nv)'
        /\ nv.status = "posted" => Posted(nv)'
    BY <2>2, LedgerKeeps
  <2>. QED BY <1>1, <1>2, <2>1, <2>2, <2>3
<1>. QED BY <1>1, <1>2 DEF StoredBacked

LEMMA PutPendingStep ==
  ASSUME FloatInv, NEW c \in FCalls, Float!PutPending(c)
  PROVE  FloatInv'
<1>1. /\ c \in FWorkers /\ fPc[c] = "put" /\ UNCHANGED fTransfers /\ UNCHANGED fLoc
      /\ MoveOf[c] \in Moves
  BY FloatKinds DEF Float!PutPending, Float!ledger
<1>2. FloatClaim(c) /\ TransferStep
  BY <1>1 DEF FloatInv, TransferStep
<1>3. PICK mv \in Float!Movements : mv = fLoc[c] /\ mv.move = MoveOf[c] /\ mv.status = "pending" /\ Held(mv)
  BY <1>1, <1>2 DEF FloatClaim
<1>4. Held(mv)'
  BY <1>2, <1>3, LedgerKeeps
<1>5. UNCHANGED movements \/ movements' = [movements EXCEPT ![mv.move] = mv]
  BY <1>3 DEF Float!PutPending
<1>6. StoredBacked' /\ DOMAIN movements' = Moves
  <2>1. CASE UNCHANGED movements
    BY <1>2, <2>1, StoredKept DEF FloatInv
  <2>2. CASE movements' = [movements EXCEPT ![mv.move] = mv]
    BY <1>1, <1>2, <1>3, <1>4, <2>2, StoredPut
  <2>. QED BY <1>5, <2>1, <2>2
<1>7. PICK to \in {"post", "release"} : Float!Goto(c, to)
  BY DEF Float!PutPending
<1>8. FloatClaim(c)'
  BY <1>1, <1>3, <1>4, <1>7, FloatMoved DEF FloatClaim
<1>. QED BY <1>1, <1>2, <1>6, <1>7, <1>8, FloatWorkerStep

LEMMA ReleaseStep ==
  ASSUME FloatInv, NEW c \in FCalls, Float!Release(c)
  PROVE  FloatInv'
<1>1. c \in FWorkers /\ MoveOf[c] \in Moves /\ UNCHANGED <<movements, fLoc>> /\ Float!Goto(c, "done")
  BY FloatKinds DEF Float!Release
<1>2. TransferStep
  BY <1>1, VoidEffect DEF Float!Release
<1>3. StoredBacked' /\ DOMAIN movements' = Moves
  BY <1>1, <1>2, StoredKept DEF FloatInv
<1>4. FloatClaim(c)'
  BY <1>1, FloatMoved DEF FloatClaim
<1>. QED BY <1>1, <1>2, <1>3, <1>4, FloatWorkerStep

LEMMA PostStep ==
  ASSUME FloatInv, NEW w \in FWorkers, Float!Post(w)
  PROVE  FloatInv'
<1>1. fPc[w] = "post" /\ UNCHANGED movements /\ FloatClaim(w)
  BY DEF Float!Post, FloatInv
<1>2. PICK mv \in Float!Movements : mv = fLoc[w] /\ Held(mv)
  BY <1>1 DEF FloatClaim
<1>3. \/ (Float!PostNew(mv) \/ Float!PostReplay(mv)) /\ Float!Goto(w, "end") /\ Float!Status(w, "posted")
      \/ (Float!PostNew(mv) \/ UNCHANGED Float!ledger) /\ UNCHANGED fLoc /\ Float!Goto(w, "void")
  BY <1>2 DEF Float!Post
<1>4. TransferStep
  BY <1>2, <1>3, PostEffect DEF TransferStep, Float!ledger
<1>5. StoredBacked' /\ DOMAIN movements' = Moves
  BY <1>1, <1>4, StoredKept DEF FloatInv
<1>6. CASE (Float!PostNew(mv) \/ Float!PostReplay(mv)) /\ Float!Goto(w, "end") /\ Float!Status(w, "posted")
  <2>1. Posted(mv)'
    BY <1>2, <1>6, PostEffect
  <2> DEFINE f == [mv EXCEPT !.status = "posted"]
  <2>2. fLoc' = [fLoc EXCEPT ![w] = f]
    BY <1>2, <1>6 DEF Float!Status
  <2>3. f \in Float!Movements /\ f.status = "posted" /\ f.move = mv.move /\ f.agent = mv.agent /\ f.amount = mv.amount
    BY DEF Float!Movements
  <2>. HIDE DEF f
  <2>4. Posted(f)'
    BY <2>1, <2>3 DEF Posted, Rec, Float!Debit, Float!Credit
  <2>5. fLoc'[w] = f
    BY <2>2 DEF FloatInv
  <2>6. FloatClaim(w)'
    BY <1>6, <2>3, <2>4, <2>5, FloatMoved DEF FloatClaim
  <2>. QED BY <1>4, <1>5, <1>6, <2>2, <2>6, FloatWorkerStep
<1>7. CASE UNCHANGED fLoc /\ Float!Goto(w, "void")
  <2>1. FloatClaim(w)'
    BY <1>2, <1>7, FloatMoved DEF FloatClaim
  <2>. QED BY <1>4, <1>5, <1>7, <2>1, FloatWorkerStep
<1>. QED BY <1>3, <1>6, <1>7

LEMMA VoidStep ==
  ASSUME FloatInv, NEW w \in FWorkers, Float!Void(w)
  PROVE  FloatInv'
<1>1. fPc[w] = "void" /\ UNCHANGED movements /\ FloatClaim(w) /\ Float!Status(w, "voided")
  BY DEF Float!Void, FloatInv
<1>2. PICK mv \in Float!Movements : mv = fLoc[w]
  BY <1>1 DEF FloatClaim
<1>3. mv.move \in Moves
  BY DEF Float!Movements
<1>4. TransferStep
  BY <1>2, <1>3, VoidEffect DEF Float!Void
<1>5. StoredBacked' /\ DOMAIN movements' = Moves
  BY <1>1, <1>4, StoredKept DEF FloatInv
<1>6. PICK to \in {"end", "done"} : Float!Goto(w, to)
  BY DEF Float!Void
<1> DEFINE f == [mv EXCEPT !.status = "voided"]
<1>7. fLoc' = [fLoc EXCEPT ![w] = f]
  BY <1>1, <1>2 DEF Float!Status
<1>8. f \in Float!Movements /\ f.status = "voided"
  BY DEF Float!Movements
<1>. HIDE DEF f
<1>9. fLoc'[w] = f
  BY <1>7 DEF FloatInv
<1>10. FloatClaim(w)'
  BY <1>6, <1>8, <1>9, FloatMoved DEF FloatClaim
<1>. QED BY <1>4, <1>5, <1>6, <1>7, <1>10, FloatWorkerStep

LEMMA PutEndStep ==
  ASSUME FloatInv, NEW w \in FWorkers, Float!PutEnd(w)
  PROVE  FloatInv'
<1>1. /\ fPc[w] = "end" /\ UNCHANGED fTransfers /\ UNCHANGED fLoc /\ FloatClaim(w) /\ Float!Goto(w, "done")
      /\ TransferStep
  BY DEF Float!PutEnd, FloatInv, Float!ledger, TransferStep
<1>2. PICK mv \in Float!Movements : /\ mv = fLoc[w] /\ mv.status # "pending"
                                    /\ mv.status = "posted" => Posted(mv)
  BY <1>1 DEF FloatClaim
<1>3. mv.move \in Moves /\ (mv.status = "posted" => Posted(mv)')
  BY <1>1, <1>2, LedgerKeeps DEF Float!Movements
<1>4. UNCHANGED movements \/ movements' = [movements EXCEPT ![mv.move] = mv]
  BY <1>2 DEF Float!PutEnd
<1>5. StoredBacked' /\ DOMAIN movements' = Moves
  <2>1. CASE UNCHANGED movements
    BY <1>1, <2>1, StoredKept DEF FloatInv
  <2>2. CASE movements' = [movements EXCEPT ![mv.move] = mv]
    BY <1>1, <1>2, <1>3, <2>2, StoredPut
  <2>. QED BY <1>4, <2>1, <2>2
<1>6. FloatClaim(w)'
  BY <1>1, FloatMoved DEF FloatClaim
<1>. QED BY <1>1, <1>5, <1>6, FloatWorkerStep

LEMMA SweepListStep ==
  ASSUME FloatInv, Float!SweepList
  PROVE  FloatInv'
<1>1. UNCHANGED fTransfers /\ UNCHANGED movements /\ Float!Goto(Sweeper, "post") /\ Sweeper \in FWorkers
  BY FloatKinds DEF Float!SweepList, Float!ledger
<1>2. TransferStep /\ StoredBacked' /\ DOMAIN movements' = Moves
  BY <1>1, StoredKept DEF TransferStep, FloatInv
<1>3. PICK m \in Moves : /\ movements[m] # Float!NoMovement /\ movements[m].status = "pending"
                         /\ fLoc' = [fLoc EXCEPT ![Sweeper] = movements[m]]
  BY DEF Float!SweepList
<1>4. PICK mv : mv = movements[m] /\ mv \in Float!Movements /\ Held(mv)
  BY <1>3 DEF FloatInv, StoredBacked
<1>5. Held(mv)' /\ fLoc'[Sweeper] = mv
  BY <1>1, <1>2, <1>3, <1>4, LedgerKeeps DEF FloatInv
<1>6. FloatClaim(Sweeper)'
  BY <1>1, <1>4, <1>5, FloatMoved DEF FloatClaim
<1>. QED BY <1>1, <1>2, <1>3, <1>6, FloatWorkerStep

LEMMA IdleFloatStep ==
  FloatInv /\ UNCHANGED <<fTransfers, movements, fPc, fLoc>> => FloatInv'
<1> SUFFICES ASSUME FloatInv, UNCHANGED <<fTransfers, movements, fPc, fLoc>> PROVE FloatInv'
  OBVIOUS
<1>1. HoldsUnposted'
  BY DEF FloatInv, HoldsUnposted, HoldRec, PostRec
<1>2. StoredBacked'
  BY DEF FloatInv, StoredBacked, Held, Posted, HoldRec, PostRec
<1>3. ASSUME NEW w \in FWorkers PROVE FloatClaim(w)'
  BY DEF FloatInv, FloatClaim, Held, Posted, HoldRec, PostRec
<1>. QED BY <1>1, <1>2, <1>3 DEF FloatInv

LEMMA FloatCrashStep ==
  ASSUME FloatInv, Float!Crash
  PROVE  FloatInv'
<1>1. /\ UNCHANGED fTransfers /\ UNCHANGED movements /\ UNCHANGED fLoc
      /\ fPc' = [w \in FWorkers |-> IF fPc[w] = "start" THEN "start" ELSE "done"]
  BY DEF Float!Crash, Float!ledger, FWorkers, Float!Workers
<1>2. TransferStep
  BY <1>1 DEF TransferStep
<1>3. \A w \in FWorkers : FloatClaim(w)'
  BY <1>1 DEF FloatClaim
<1>. QED BY <1>1, <1>2, <1>3, StoredKept, LedgerKeeps DEF FloatInv

LEMMA NextFloatInv == FloatInv /\ Float!Next => FloatInv'
BY FindOpenStep, HoldStep, PutPendingStep, ReleaseStep, PostStep, VoidStep, PutEndStep, SweepListStep,
   FloatCrashStep DEF Float!Next, Float!Workers, FWorkers

LEMMA InitFloatInv == Float!Init => FloatInv
<1> SUFFICES ASSUME Float!Init PROVE FloatInv
  OBVIOUS
<1>1. \A w \in FWorkers : fPc[w] \in {"start", "done"}
  BY DEF Float!Init, Float!Workers, FWorkers
<1>2. \A w \in FWorkers : FloatClaim(w)
  BY <1>1 DEF FloatClaim
<1>3. HoldsUnposted
  BY DEF Float!Init, HoldsUnposted, PostRec, Float!Core!TransferIds, Float!Core!Legs
<1>. QED BY <1>2, <1>3 DEF Float!Init, FloatInv, StoredBacked, Float!Core!TransferIds, FWorkers, Float!Workers

\* A stored float movement is true of the ledger: a posted one has its post, a
\* pending one its hold, with the accounts and the amount of the record,
\* whichever of the calls of move with one reference and SweepFloatMovements
\* wrote it last, and wherever a crash, a lost answer or a failed Put fell.
THEOREM MovementsBacked == Spec => []MovementBacked
<1> DEFINE Inv == focus = "float" => FloatInv
<1>1. Init => Inv
  BY InitFloatInv DEF Init
<1>2. Inv /\ [Next]_vars => Inv'
  <2> SUFFICES ASSUME Inv, [Next]_vars PROVE Inv'
    OBVIOUS
  <2>1. CASE UNCHANGED <<focus, fVars>>
    BY <2>1, IdleFloatStep DEF fVars
  <2>2. CASE FloatStep
    BY <2>2, NextFloatInv DEF FloatStep
  <2>. QED BY <2>1, <2>2 DEF Next, vars, HierStep, USSDStep, CommStep, SettlementStep
<1>3. Inv => MovementBacked
  <2> SUFFICES ASSUME FloatInv, NEW m \in Moves, NEW mv, mv = movements[m], mv # Float!NoMovement
               PROVE  /\ mv.status = "posted" => fTransfers[<<m, "post">>] = Rec(mv, FALSE)
                      /\ mv.status = "pending" => fTransfers[<<m, "hold">>] \in {Rec(mv, p) : p \in BOOLEAN}
    BY DEF MovementBacked, Float!MovementBacked, Rec
  <2>1. /\ mv.move = m /\ (mv.status = "pending" => Held(mv)) /\ (mv.status = "posted" => Posted(mv))
    BY DEF FloatInv, StoredBacked
  <2>. QED BY <2>1 DEF Held, Posted, HoldRec, PostRec
<1>. QED BY <1>1, <1>2, <1>3, PTL DEF Spec

-----------------------------------------------------------------------------
(* The bounties.                                                           *)

Tries == 0..MaxTries
SHold(a, i) == sTransfers[<<<<a, i>>, "hold">>]
SPost(a, i) == sTransfers[<<<<a, i>>, "post">>]
SNone == Settlement!Core!NoTransfer
Paid(a) == \E i \in Tries : SPost(a, i) # SNone
Bounty(a, n, p) == Settlement!Core!Record(SPool, a, n, p)

\* Only the first id of a payout is used over HTTP, and while the registry stands still.
First == remote \/ ~moved
\* In process no call fails, so a run that sees the counts of the registry is not refused.
Steady == ~remote /\ ~moved

\* The hold of an agent is open with the amount of the registry, or posted.
Ready(a) ==
  \/ SHold(a, 0) = Bounty(a, counts[a], TRUE)
  \/ SHold(a, 0) # SNone /\ ~SHold(a, 0).pending /\ SPost(a, 0) = Bounty(a, counts[a], FALSE)

\* An open hold has a run about to post it, another one its post.
Settled(a) ==
  \/ SHold(a, 0) = SNone
  \/ SHold(a, 0) # SNone /\ ~SHold(a, 0).pending /\ SPost(a, 0) # SNone
  \/ SHold(a, 0) = Bounty(a, counts[a], TRUE) /\ \E w \in SWorkers : sPc[w] = "post" /\ sLoc[w].agent = a

SFrames ==
  [n : [SAgents -> Nat], todo : SUBSET SAgents, agent : SAgents \cup {Settlement!NoFrame.agent}, try : Tries]
AgentLabels == {"hold", "next", "post", "void", "unmark", "mark"}

STyped ==
  /\ DOMAIN sTransfers = Settlement!Core!TransferIds
  /\ sPc \in [SWorkers -> Settlement!Labels] /\ sLoc \in [SWorkers -> SFrames]
  /\ counts \in [SAgents -> Nat] /\ DOMAIN markers = SAgents

\* What a run knows where it is.
RunClaim(w) ==
  /\ sPc[w] \in AgentLabels => sLoc[w].agent \in SAgents
  /\ sPc[w] = "mark" => Paid(sLoc[w].agent)
  /\ First => sPc[w] # "next" /\ sLoc[w].try = 0
  /\ Steady => /\ sPc[w] # "idle" => sLoc[w].n = counts
               /\ sPc[w] # "void" /\ sPc[w] # "unmark"
               /\ sPc[w] = "post" => Ready(sLoc[w].agent)

SettlementInv ==
  /\ STyped
  /\ \A a \in SAgents : markers[a] # Settlement!Unmarked => Paid(a)
  /\ First => \A a \in SAgents, i \in Tries \ {0} : SPost(a, i) = SNone
  /\ Steady => \A a \in SAgents : Settled(a)
  /\ \A w \in SWorkers : RunClaim(w)

\* What a run does to the ledger keeps the posts and the claims of the others.
RunKeeps ==
  /\ DOMAIN sTransfers' = DOMAIN sTransfers
  /\ \A a \in SAgents, i \in Tries : SPost(a, i) # SNone => SPost(a, i)' # SNone
  /\ First => \A a \in SAgents, i \in Tries \ {0} : SPost(a, i)' = SNone
  /\ Steady => \A a \in SAgents : Ready(a) => Ready(a)'

\* Where a run goes, with its copy.
RunMoves(w, to, f) ==
  /\ Settlement!Goto(w, to) /\ to \in Settlement!Labels /\ f \in SFrames
  /\ sLoc' = [sLoc EXCEPT ![w] = f]
  /\ UNCHANGED <<remote, counts, moved>>

LEMMA SettlementStep1 ==
  ASSUME SettlementInv, RunKeeps, NEW w \in SWorkers, NEW to, NEW f, RunMoves(w, to, f),
         DOMAIN markers' = SAgents, \A a \in SAgents : markers'[a] # Settlement!Unmarked => Paid(a)',
         Steady => \A a \in SAgents : Settled(a)',
         to \in AgentLabels => f.agent \in SAgents,
         to = "mark" => Paid(f.agent)',
         First => to # "next" /\ f.try = 0,
         Steady => (to # "idle" => f.n = counts) /\ to # "void" /\ to # "unmark",
         Steady /\ to = "post" => Ready(f.agent)'
  PROVE  SettlementInv'
<1>1. /\ sPc'[w] = to /\ sLoc'[w] = f /\ counts' = counts
      /\ \A v \in SWorkers \ {w} : sPc'[v] = sPc[v] /\ sLoc'[v] = sLoc[v]
      /\ sPc' \in [SWorkers -> Settlement!Labels] /\ sLoc' \in [SWorkers -> SFrames]
  BY DEF SettlementInv, STyped, RunMoves, Settlement!Goto
<1>2. First' = First /\ Steady' = Steady
  BY DEF RunMoves, First, Steady
<1>3. STyped'
  BY <1>1 DEF STyped, SettlementInv, RunKeeps
<1>4. RunClaim(w)'
  BY <1>1, <1>2 DEF RunClaim
<1>5. ASSUME NEW v \in SWorkers \ {w} PROVE RunClaim(v)'
  <2>1. RunClaim(v) /\ sPc'[v] = sPc[v] /\ sLoc'[v] = sLoc[v]
    BY <1>1 DEF SettlementInv
  <2>2. PICK a : a = sLoc[v].agent
    OBVIOUS
  <2>3. a \in SAgents => (Paid(a) => Paid(a)') /\ (Steady /\ Ready(a) => Ready(a)')
    BY DEF RunKeeps, Paid
  <2>. QED BY <1>1, <1>2, <2>1, <2>2, <2>3 DEF RunClaim, AgentLabels
<1>6. \A v \in SWorkers : RunClaim(v)'
  BY <1>4, <1>5
<1>7. First' => \A a \in SAgents, i \in Tries \ {0} : SPost(a, i)' = SNone'
  BY <1>2 DEF RunKeeps, SNone, Settlement!Core!NoTransfer
<1>. QED BY <1>2, <1>3, <1>6, <1>7 DEF SettlementInv

\* The payouts on the ledger are left alone.
Untouched ==
  /\ DOMAIN sTransfers' = DOMAIN sTransfers /\ UNCHANGED counts
  /\ \A a \in SAgents, i \in Tries : SHold(a, i)' = SHold(a, i) /\ SPost(a, i)' = SPost(a, i)

LEMMA UntouchedKeeps ==
  ASSUME SettlementInv, Untouched, MaxTries \in Nat
  PROVE  /\ RunKeeps
         /\ \A a \in SAgents : (Paid(a) => Paid(a)') /\ (Ready(a) <=> Ready(a)')
<1>1. 0 \in Tries
  BY DEF Tries
<1>2. \A a \in SAgents : (Paid(a) => Paid(a)') /\ (Ready(a) <=> Ready(a)')
  BY <1>1 DEF Untouched, Paid, Ready, SNone, Bounty
<1>. QED BY <1>2 DEF RunKeeps, Untouched, SettlementInv

\* A run that leaves "post" leaves no open hold of its agent behind.
LEMMA UntouchedSettled ==
  ASSUME SettlementInv, Untouched, MaxTries \in Nat, NEW w \in SWorkers, NEW to, NEW f, RunMoves(w, to, f), Steady,
         sPc[w] = "post" => SHold(sLoc[w].agent, 0) = SNone \/ ~SHold(sLoc[w].agent, 0).pending
  PROVE  \A a \in SAgents : Settled(a)'
<1>1. 0 \in Tries
  BY DEF Tries
<1> SUFFICES ASSUME NEW a \in SAgents PROVE Settled(a)'
  OBVIOUS
<1>2. SHold(a, 0)' = SHold(a, 0) /\ SPost(a, 0)' = SPost(a, 0) /\ counts' = counts
  BY <1>1 DEF Untouched
<1>3. Settled(a)
  BY DEF SettlementInv
<1>4. CASE SHold(a, 0) = Bounty(a, counts[a], TRUE) /\ \E v \in SWorkers : sPc[v] = "post" /\ sLoc[v].agent = a
  <2>1. PICK v \in SWorkers : sPc[v] = "post" /\ sLoc[v].agent = a
    BY <1>4
  <2>2. SHold(a, 0).pending /\ SHold(a, 0) # SNone
    BY <1>4 DEF Bounty, Settlement!Core!Record, SNone, Settlement!Core!NoTransfer
  <2>3. v # w
    BY <2>1, <2>2
  <2>4. sPc'[v] = "post" /\ sLoc'[v].agent = a
    BY <2>1, <2>3 DEF RunMoves, Settlement!Goto, SettlementInv, STyped
  <2>. QED BY <1>2, <1>4, <2>4 DEF Settled, Bounty
<1>. QED BY <1>2, <1>3, <1>4 DEF Settled, SNone

\* A step of a run that leaves the payouts on the ledger alone.
LEMMA QuietRun ==
  ASSUME SettlementInv, Untouched, NEW w \in SWorkers, NEW to, NEW f, RunMoves(w, to, f),
         DOMAIN markers' = SAgents,
         \A a \in SAgents : markers'[a] # Settlement!Unmarked => markers[a] # Settlement!Unmarked \/ Paid(a),
         Steady /\ sPc[w] = "post" => SHold(sLoc[w].agent, 0) = SNone \/ ~SHold(sLoc[w].agent, 0).pending,
         to \in AgentLabels => f.agent \in SAgents,
         to = "mark" => Paid(f.agent),
         First => to # "next" /\ f.try = 0,
         Steady => (to # "idle" => f.n = counts) /\ to # "void" /\ to # "unmark",
         Steady /\ to = "post" => Ready(f.agent)
  PROVE  SettlementInv'
<1>1. MaxTries \in Nat
  BY ChannelsAssumption
<1>2. RunKeeps /\ \A a \in SAgents : (Paid(a) => Paid(a)') /\ (Ready(a) <=> Ready(a)')
  BY <1>1, UntouchedKeeps
<1>3. Steady => \A a \in SAgents : Settled(a)'
  BY <1>1, UntouchedSettled
<1>4. \A a \in SAgents : markers'[a] # Settlement!Unmarked => Paid(a)'
  BY <1>2 DEF SettlementInv
<1>5. (to = "mark" => Paid(f.agent)') /\ (Steady /\ to = "post" => Ready(f.agent)')
  <2>1. PICK a : a = f.agent
    OBVIOUS
  <2>2. (to = "mark" => Paid(a)') /\ (Steady /\ to = "post" => Ready(a)')
    BY <1>2, <2>1 DEF AgentLabels
  <2>. QED BY <2>1, <2>2
<1>. QED BY <1>2, <1>3, <1>4, <1>5, SettlementStep1

LEMMA SettlementLabels ==
  /\ Settlement!Labels = {"idle", "fund", "pick"} \cup AgentLabels
  /\ "idle" \notin AgentLabels /\ "fund" \notin AgentLabels /\ "pick" \notin AgentLabels
BY DEF Settlement!Labels, AgentLabels

LEMMA SameLedgerUntouched ==
  ASSUME UNCHANGED sTransfers, UNCHANGED counts
  PROVE  Untouched
BY DEF Untouched, SHold, SPost

LEMMA EmptyFrame == Settlement!NoFrame \in SFrames /\ Settlement!NoFrame.try = 0
<1> DEFINE x == CHOOSE a \in SAgents : TRUE
           z == [a \in SAgents |-> 0]
<1>1. Settlement!NoFrame = [n |-> z, todo |-> {}, agent |-> x, try |-> 0]
  BY DEF Settlement!NoFrame
<1>2. z \in [SAgents -> Nat] /\ 0 \in Tries
  BY ChannelsAssumption DEF Tries
<1>. HIDE DEF x, z
<1>. QED BY <1>1, <1>2 DEF SFrames

LEMMA StartStep ==
  ASSUME SettlementInv, NEW w \in SWorkers, Settlement!Start(w)
  PROVE  SettlementInv'
<1> DEFINE f == [Settlement!NoFrame EXCEPT !.n = counts, !.todo = SAgents]
<1>1. /\ sPc[w] = "idle" /\ sLoc' = [sLoc EXCEPT ![w] = f] /\ UNCHANGED <<remote, counts, moved, markers>>
      /\ UNCHANGED sTransfers
  BY DEF Settlement!Start, Settlement!Core!CreateAccounts, Settlement!ledger
<1>2. PICK to \in {"fund", "idle"} : Settlement!Goto(w, to)
  BY DEF Settlement!Start
<1>3. f \in SFrames /\ f.n = counts /\ f.try = 0
  BY EmptyFrame DEF SFrames, SettlementInv, STyped
<1>. HIDE DEF f
<1>4. RunMoves(w, to, f)
  BY <1>1, <1>2, <1>3, SettlementLabels DEF RunMoves
<1>5. Untouched
  BY <1>1, SameLedgerUntouched
<1>6. DOMAIN markers' = SAgents
  BY <1>1 DEF SettlementInv, STyped
<1>. QED BY <1>1, <1>3, <1>4, <1>5, <1>6, SettlementLabels, QuietRun

LEMMA FundStep ==
  ASSUME SettlementInv, NEW w \in SWorkers, Settlement!Fund(w)
  PROVE  SettlementInv'
<1>1. /\ sPc[w] = "fund" /\ UNCHANGED <<remote, counts, moved, markers, sLoc>>
  BY DEF Settlement!Fund, Settlement!Registry
<1>2. PICK to \in {"pick", "idle"} : Settlement!Goto(w, to)
  BY DEF Settlement!Fund
<1>3. RunMoves(w, to, sLoc[w])
  BY <1>1, <1>2, SettlementLabels DEF RunMoves, SettlementInv, STyped
<1>4. UNCHANGED sTransfers \/ \E s, r : sTransfers' = [sTransfers EXCEPT ![<<s, "direct">>] = r]
  BY DEF Settlement!Fund, Settlement!ledger, Settlement!Core!Transfer
<1>5. Untouched
  <2>1. CASE UNCHANGED sTransfers
    BY <1>1, <2>1, SameLedgerUntouched
  <2>2. CASE \E s, r : sTransfers' = [sTransfers EXCEPT ![<<s, "direct">>] = r]
    <3>1. PICK s, r : sTransfers' = [sTransfers EXCEPT ![<<s, "direct">>] = r]
      BY <2>2
    <3>2. \A k : sTransfers'[<<k, "hold">>] = sTransfers[<<k, "hold">>]
      <4> TAKE k
      <4>1. <<k, "hold">> # <<s, "direct">>
        OBVIOUS
      <4>. QED BY <3>1, <4>1
    <3>. QED BY <1>1, <3>1, <3>2 DEF Untouched, SHold, SPost
  <2>. QED BY <1>4, <2>1, <2>2
<1>6. DOMAIN markers' = SAgents /\ RunClaim(w)
  BY <1>1 DEF SettlementInv, STyped
<1>7. (First => sLoc[w].try = 0) /\ (Steady => sLoc[w].n = counts)
  BY <1>1, <1>6 DEF RunClaim
<1>. QED BY <1>1, <1>2, <1>3, <1>5, <1>6, <1>7, SettlementLabels, QuietRun

LEMMA PickStep ==
  ASSUME SettlementInv, NEW w \in SWorkers, Settlement!Pick(w)
  PROVE  SettlementInv'
<1>1. sPc[w] = "pick" /\ UNCHANGED <<remote, counts, moved, markers>> /\ UNCHANGED sTransfers
  BY DEF Settlement!Pick, Settlement!Registry, Settlement!ledger
<1>2. Untouched /\ DOMAIN markers' = SAgents /\ RunClaim(w) /\ sLoc[w] \in SFrames
  BY <1>1, SameLedgerUntouched DEF SettlementInv, STyped
<1>3. (First => sLoc[w].try = 0) /\ (Steady => sLoc[w].n = counts)
  BY <1>1, <1>2 DEF RunClaim
<1>4. CASE Settlement!Goto(w, "idle") /\ UNCHANGED sLoc
  <2>1. RunMoves(w, "idle", sLoc[w])
    BY <1>1, <1>4, SettlementLabels DEF RunMoves, SettlementInv, STyped
  <2>. QED BY <1>1, <1>2, <1>3, <2>1, SettlementLabels, QuietRun
<1>5. ASSUME NEW a \in sLoc[w].todo,
             sLoc' = [sLoc EXCEPT ![w].todo = @ \ {a}, ![w].agent = a, ![w].try = 0],
             NEW to \in {"pick", "hold"}, Settlement!Goto(w, to)
      PROVE  SettlementInv'
  <2>1. PICK l \in SFrames : l = sLoc[w]
    BY <1>2
  <2> DEFINE f == [l EXCEPT !.todo = @ \ {a}, !.agent = a, !.try = 0]
  <2>2. sLoc' = [sLoc EXCEPT ![w] = f]
    BY <1>5, <2>1 DEF SettlementInv, STyped
  <2>3. f \in SFrames /\ f.agent = a /\ a \in SAgents /\ f.try = 0 /\ f.n = l.n
    <3>1. l.todo \in SUBSET SAgents /\ l.n \in [SAgents -> Nat]
      BY DEF SFrames
    <3>2. a \in SAgents
      <4>1. a \in l.todo
        BY <2>1
      <4>. QED BY <3>1, <4>1
    <3>3. l.todo \ {a} \in SUBSET SAgents /\ 0 \in Tries
      BY <3>1, ChannelsAssumption DEF Tries
    <3>. QED BY <3>1, <3>2, <3>3 DEF SFrames
  <2>. HIDE DEF f
  <2>4. RunMoves(w, to, f)
    BY <1>1, <1>5, <2>2, <2>3, SettlementLabels DEF RunMoves, AgentLabels
  <2>. QED BY <1>1, <1>2, <1>3, <1>5, <2>1, <2>3, <2>4, SettlementLabels, QuietRun
<1>. QED BY <1>4, <1>5 DEF Settlement!Pick

LEMMA PayoutIds ==
  ASSUME SettlementInv, NEW a \in SAgents, NEW i \in Tries, NEW leg \in {"hold", "post", "void"}
  PROVE  <<<<a, i>>, leg>> \in DOMAIN sTransfers
BY DEF SettlementInv, STyped, Tries, Settlement!Core!TransferIds, Settlement!Core!Legs, Settlement!Attempts

\* PendingTransfer under the id of an attempt.
LEMMA NewBounty ==
  ASSUME SettlementInv, NEW a \in SAgents, NEW i \in Tries, NEW n,
         Settlement!Core!PendingTransfer(<<a, i>>, SPool, a, n)
  PROVE  /\ DOMAIN sTransfers' = DOMAIN sTransfers
         /\ SHold(a, i) = SNone /\ SHold(a, i)' = Bounty(a, n, TRUE)
         /\ \A b \in SAgents, j \in Tries : SPost(b, j)' = SPost(b, j)
         /\ \A b \in SAgents, j \in Tries : b # a \/ j # i => SHold(b, j)' = SHold(b, j)
<1> DEFINE r == Bounty(a, n, TRUE)
<1>1. /\ SHold(a, i) = SNone
      /\ sTransfers' = [sTransfers EXCEPT ![<<<<a, i>>, "hold">>] = r]
  BY DEF Settlement!Core!PendingTransfer, Settlement!Core!Exists, SHold, SNone, Bounty
<1>. HIDE DEF r
<1>2. SHold(a, i)' = r
  BY <1>1, PayoutIds DEF SHold
<1>3. ASSUME NEW b \in SAgents, NEW j \in Tries
      PROVE  /\ SPost(b, j)' = SPost(b, j)
             /\ b # a \/ j # i => SHold(b, j)' = SHold(b, j)
  <2>1. <<<<b, j>>, "hold">> \in DOMAIN sTransfers /\ <<<<b, j>>, "post">> \in DOMAIN sTransfers
    BY PayoutIds
  <2>. QED BY <1>1, <2>1 DEF SHold, SPost
<1>. QED BY <1>1, <1>2, <1>3 DEF r

\* A payout's hold stops being pending, by a post of n or by a void.
SpentAt(a, i, leg, n) ==
  /\ DOMAIN sTransfers' = DOMAIN sTransfers
  /\ SHold(a, i)' # SNone /\ ~SHold(a, i)'.pending
  /\ leg = "post" => SPost(a, i)' =
       Settlement!Core!Record(SHold(a, i).debit, SHold(a, i).credit, n, FALSE)
  /\ leg = "void" => SPost(a, i)' = SPost(a, i)
  /\ \A b \in SAgents, j \in Tries : b # a \/ j # i =>
       SHold(b, j)' = SHold(b, j) /\ SPost(b, j)' = SPost(b, j)

LEMMA SpentBounty ==
  ASSUME SettlementInv, NEW a \in SAgents, NEW i \in Tries, NEW leg \in {"post", "void"}, NEW n,
         Settlement!Core!Consume(<<a, i>>, leg, n)
  PROVE  SpentAt(a, i, leg, n)
<1> DEFINE h == SHold(a, i)
           r == Settlement!Core!Record(h.debit, h.credit, IF leg = "post" /\ n < h.amount THEN 0 ELSE h.amount, FALSE)
           q == Settlement!Core!Record(h.debit, h.credit, IF leg = "post" THEN n ELSE h.amount, FALSE)
<1>1. sTransfers' = [sTransfers EXCEPT ![<<<<a, i>>, "hold">>] = r, ![<<<<a, i>>, leg>>] = q]
  BY DEF Settlement!Core!Consume, SHold
<1>2. r # SNone /\ ~r.pending
  BY DEF Settlement!Core!Record, SNone, Settlement!Core!NoTransfer
<1>3. leg = "post" => q = Settlement!Core!Record(h.debit, h.credit, n, FALSE)
  OBVIOUS
<1>. HIDE DEF r, q
<1>4. SHold(a, i)' = r /\ (leg = "post" => SPost(a, i)' = q) /\ (leg = "void" => SPost(a, i)' = SPost(a, i))
  <2>1. <<<<a, i>>, "hold">> \in DOMAIN sTransfers /\ <<<<a, i>>, "post">> \in DOMAIN sTransfers
    BY PayoutIds
  <2>. QED BY <1>1, <2>1 DEF SHold, SPost
<1>5. ASSUME NEW b \in SAgents, NEW j \in Tries, b # a \/ j # i
      PROVE  SHold(b, j)' = SHold(b, j) /\ SPost(b, j)' = SPost(b, j)
  <2>1. <<<<b, j>>, "hold">> \in DOMAIN sTransfers /\ <<<<b, j>>, "post">> \in DOMAIN sTransfers
    BY PayoutIds
  <2>. QED BY <1>1, <1>5, <2>1 DEF SHold, SPost
<1>6. DOMAIN sTransfers' = DOMAIN sTransfers
  BY <1>1
<1>. QED BY <1>2, <1>3, <1>4, <1>5, <1>6 DEF SpentAt

\* A run holds a bounty under a fresh id.
LEMMA GrantStep ==
  ASSUME SettlementInv, NEW w \in SWorkers, sPc[w] \in {"hold", "next"},
         NEW a, a = sLoc[w].agent, NEW i, i = sLoc[w].try,
         Settlement!Core!PendingTransfer(<<a, i>>, SPool, a, sLoc[w].n[a]),
         NEW to \in {"post", "idle"}, NEW f, RunMoves(w, to, f), UNCHANGED markers,
         f.agent = a, f.n = sLoc[w].n, First => f.try = 0, Steady => to = "post"
  PROVE  SettlementInv'
<1>1. sLoc[w] \in SFrames /\ RunClaim(w)
  BY DEF SettlementInv, STyped
<1>2. a \in SAgents /\ i \in Tries /\ 0 \in Tries /\ (First => i = 0) /\ (Steady => sLoc[w].n = counts)
  BY <1>1, ChannelsAssumption DEF RunClaim, AgentLabels, SFrames, Tries
<1>3. Steady => First
  BY DEF First, Steady
<1>4. /\ DOMAIN sTransfers' = DOMAIN sTransfers
      /\ SHold(a, i) = SNone /\ SHold(a, i)' = Bounty(a, sLoc[w].n[a], TRUE)
      /\ \A b \in SAgents, j \in Tries : SPost(b, j)' = SPost(b, j)
      /\ \A b \in SAgents, j \in Tries : b # a \/ j # i => SHold(b, j)' = SHold(b, j)
  BY <1>2, NewBounty
<1>5. ASSUME Steady, NEW b \in SAgents PROVE (Ready(b) => Ready(b)') /\ Settled(b)'
  <2>1. counts' = counts
    BY DEF RunMoves
  <2>2. i = 0
    BY <1>2, <1>3, <1>5
  <2>3. CASE b = a
    <3>1. SHold(a, 0)' = Bounty(a, counts[a], TRUE)
      BY <1>2, <1>4, <1>5, <2>2
    <3>2. sPc'[w] = "post" /\ sLoc'[w].agent = a
      BY <1>5 DEF RunMoves, Settlement!Goto, SettlementInv, STyped
    <3>. QED BY <2>1, <2>3, <3>1, <3>2 DEF Ready, Settled, Bounty
  <2>4. CASE b # a
    <3>1. SHold(b, 0)' = SHold(b, 0) /\ SPost(b, 0)' = SPost(b, 0)
      BY <1>2, <1>4, <2>4
    <3>2. Settled(b)
      BY <1>5 DEF SettlementInv
    <3>3. \A v \in SWorkers : sPc[v] = "post" => sPc'[v] = "post" /\ sLoc'[v] = sLoc[v]
      BY DEF RunMoves, Settlement!Goto, SettlementInv, STyped
    <3>. QED BY <2>1, <3>1, <3>2, <3>3 DEF Ready, Settled, Bounty, SNone
  <2>. QED BY <2>3, <2>4
<1>6. RunKeeps
  <2>1. \A b \in SAgents, j \in Tries : SPost(b, j) # SNone => SPost(b, j)' # SNone
    BY <1>4
  <2>2. First => \A b \in SAgents, j \in Tries \ {0} : SPost(b, j)' = SNone
    BY <1>4 DEF SettlementInv
  <2>. QED BY <1>4, <1>5, <2>1, <2>2 DEF RunKeeps
<1>7. DOMAIN markers' = SAgents /\ \A b \in SAgents : markers'[b] # Settlement!Unmarked => Paid(b)'
  BY <1>4 DEF SettlementInv, STyped, Paid, SNone
<1>8. Steady /\ to = "post" => Ready(f.agent)'
  <2>1. Steady => Ready(a)'
    <3> SUFFICES ASSUME Steady PROVE Ready(a)'
      OBVIOUS
    <3>1. SHold(a, 0)' = Bounty(a, counts'[a], TRUE)
      BY <1>2, <1>3, <1>4 DEF RunMoves
    <3>. QED BY <3>1 DEF Ready, Bounty
  <2>. QED BY <2>1
<1>9. Steady => \A b \in SAgents : Settled(b)'
  BY <1>5
<1>10. Steady => (to # "idle" => f.n = counts) /\ to # "void" /\ to # "unmark"
  BY <1>2
<1>. QED BY <1>2, <1>6, <1>7, <1>8, <1>9, <1>10, SettlementStep1

\* A run posts the bounty it holds.
LEMMA PayStep ==
  ASSUME SettlementInv, NEW w \in SWorkers, sPc[w] = "post",
         NEW a, a = sLoc[w].agent, NEW i, i = sLoc[w].try,
         Settlement!Core!PostPendingAs(<<a, i>>, sLoc[w].n[a]),
         NEW to \in {"mark", "void"}, RunMoves(w, to, sLoc[w]), UNCHANGED markers, Steady => to = "mark"
  PROVE  SettlementInv'
<1>1. sLoc[w] \in SFrames /\ RunClaim(w)
  BY DEF SettlementInv, STyped
<1>2. a \in SAgents /\ i \in Tries /\ 0 \in Tries /\ (First => i = 0) /\ (Steady => sLoc[w].n = counts)
  BY <1>1, ChannelsAssumption DEF RunClaim, AgentLabels, SFrames, Tries
<1>3. Steady => First
  BY DEF First, Steady
<1> DEFINE h == SHold(a, i)
           n == IF sLoc[w].n[a] = 0 THEN h.amount ELSE sLoc[w].n[a]
<1>4. Settlement!Core!Consume(<<a, i>>, "post", n) /\ h # SNone /\ h.pending
  BY DEF Settlement!Core!PostPendingAs, Settlement!Core!IsPending, Settlement!Core!Exists, SHold, SNone
<1>. HIDE DEF n
<1>5. /\ DOMAIN sTransfers' = DOMAIN sTransfers
      /\ SHold(a, i)' # SNone /\ ~SHold(a, i)'.pending
      /\ SPost(a, i)' = Settlement!Core!Record(h.debit, h.credit, n, FALSE)
      /\ \A b \in SAgents, j \in Tries : b # a \/ j # i =>
           SHold(b, j)' = SHold(b, j) /\ SPost(b, j)' = SPost(b, j)
  <2>1. PICK leg \in {"post", "void"}, amt \in {n} : leg = "post" /\ amt = n
    OBVIOUS
  <2>2. Settlement!Core!Consume(<<a, i>>, leg, amt)
    BY <1>4, <2>1
  <2>. HIDE DEF h
  <2>3. SpentAt(a, i, leg, amt)
    BY <1>2, <2>2, SpentBounty
  <2>. QED BY <2>1, <2>3 DEF h, SpentAt
<1>6. SPost(a, i)' # SNone
  BY <1>5 DEF Settlement!Core!Record, SNone, Settlement!Core!NoTransfer
<1>7. ASSUME Steady, NEW b \in SAgents PROVE (Ready(b) => Ready(b)') /\ Settled(b)'
  <2>1. counts' = counts /\ i = 0
    BY <1>2, <1>3, <1>7 DEF RunMoves
  <2>2. CASE b = a
    <3>1. SHold(a, 0)' # SNone /\ ~SHold(a, 0)'.pending /\ SPost(a, 0)' # SNone
      BY <1>5, <1>6, <2>1
    <3>2. Ready(a) => SPost(a, 0)' = Bounty(a, counts[a], FALSE)
      <4> SUFFICES ASSUME Ready(a) PROVE SPost(a, 0)' = Bounty(a, counts[a], FALSE)
        OBVIOUS
      <4>1. h = Bounty(a, counts[a], TRUE)
        BY <1>4, <2>1 DEF Ready
      <4>2. h.debit = SPool /\ h.credit = a /\ h.amount = counts[a]
        <5>. HIDE DEF h
        <5>. QED BY <4>1 DEF Bounty, Settlement!Core!Record
      <4>3. n = counts[a]
        BY <1>2, <1>7, <4>2 DEF n
      <4>. QED BY <1>5, <2>1, <4>2, <4>3 DEF Bounty
    <3>. QED BY <2>1, <2>2, <3>1, <3>2 DEF Ready, Settled, Bounty, SNone
  <2>3. CASE b # a
    <3>1. SHold(b, 0)' = SHold(b, 0) /\ SPost(b, 0)' = SPost(b, 0)
      BY <1>2, <1>5, <2>3
    <3>2. Settled(b)
      BY <1>7 DEF SettlementInv
    <3>3. \A v \in SWorkers : sPc[v] = "post" /\ sLoc[v].agent = b => sPc'[v] = "post" /\ sLoc'[v] = sLoc[v]
      BY <2>3 DEF RunMoves, Settlement!Goto, SettlementInv, STyped
    <3>. QED BY <2>1, <3>1, <3>2, <3>3 DEF Ready, Settled, Bounty, SNone
  <2>. QED BY <2>2, <2>3
<1>8. RunKeeps
  <2>1. \A b \in SAgents, j \in Tries : SPost(b, j) # SNone => SPost(b, j)' # SNone
    BY <1>5, <1>6
  <2>2. First => \A b \in SAgents, j \in Tries \ {0} : SPost(b, j)' = SNone
    BY <1>2, <1>5 DEF SettlementInv
  <2>. QED BY <1>5, <1>7, <2>1, <2>2 DEF RunKeeps
<1>9. DOMAIN markers' = SAgents /\ \A b \in SAgents : markers'[b] # Settlement!Unmarked => Paid(b)'
  <2>1. \A b \in SAgents : Paid(b) => Paid(b)'
    BY <1>8 DEF RunKeeps, Paid, SNone
  <2>. QED BY <2>1 DEF SettlementInv, STyped
<1>10. PICK f : f = sLoc[w]
  OBVIOUS
<1>11. RunMoves(w, to, f) /\ (to = "mark" => Paid(f.agent)')
  <2>1. Paid(a)'
    BY <1>2, <1>6 DEF Paid, SNone
  <2>. QED BY <1>10, <2>1
<1>12. Steady => \A b \in SAgents : Settled(b)'
  BY <1>7
<1>. QED BY <1>2, <1>8, <1>9, <1>10, <1>11, <1>12, SettlementStep1

LEMMA PostsOfPaid ==
  ASSUME NEW a
  PROVE  Settlement!PostsOf(a) # {} <=> Paid(a)
BY DEF Settlement!PostsOf, Paid, SPost, SNone, Settlement!Core!Exists, Tries

\* The agent, the attempt and the amount of a run that is at work on an agent.
LEMMA RunFacts ==
  ASSUME SettlementInv, NEW w \in SWorkers, sPc[w] \in AgentLabels, NEW a, a = sLoc[w].agent,
         NEW i, i = sLoc[w].try
  PROVE  /\ sLoc[w] \in SFrames /\ a \in SAgents /\ i \in Tries /\ 0 \in Tries /\ RunClaim(w)
         /\ First => i = 0
         /\ Steady => First /\ i = 0 /\ sLoc[w].n = counts /\ Settled(a)
<1>1. sLoc[w] \in SFrames /\ RunClaim(w) /\ sPc[w] # "idle"
  BY SettlementLabels DEF SettlementInv, STyped
<1>2. a \in SAgents /\ i \in Tries /\ 0 \in Tries
  BY <1>1, ChannelsAssumption DEF RunClaim, SFrames, Tries
<1>3. Steady => First
  BY DEF First, Steady
<1>. QED BY <1>1, <1>2, <1>3 DEF RunClaim, SettlementInv

\* A run whose copy differs in the attempt at most.
LEMMA Attempted ==
  ASSUME SettlementInv, NEW w \in SWorkers, NEW x \in Tries
  PROVE  LET f == [sLoc[w] EXCEPT !.try = x] IN
         f \in SFrames /\ f.n = sLoc[w].n /\ f.agent = sLoc[w].agent /\ f.try = x
<1>1. sLoc[w] \in SFrames
  BY DEF SettlementInv, STyped
<1>. QED BY <1>1 DEF SFrames

\* A run gets a hold: a new one, or its own again.
LEMMA GrantedStep ==
  ASSUME SettlementInv, NEW w \in SWorkers, sPc[w] \in {"hold", "next"}, Settlement!HoldGranted(w),
         NEW to \in {"post", "idle"}, NEW f, RunMoves(w, to, f), UNCHANGED markers,
         f.agent = sLoc[w].agent, f.n = sLoc[w].n, First => f.try = 0, Steady => to = "post"
  PROVE  SettlementInv'
<1>1. PICK a, i : a = sLoc[w].agent /\ i = sLoc[w].try
  OBVIOUS
<1>2. /\ sLoc[w] \in SFrames /\ a \in SAgents /\ i \in Tries /\ 0 \in Tries
      /\ Steady => i = 0 /\ sLoc[w].n = counts
  BY <1>1, RunFacts DEF AgentLabels
<1>3. CASE Settlement!Core!PendingTransfer(<<a, i>>, SPool, a, sLoc[w].n[a])
  BY <1>1, <1>3, GrantStep
<1>4. CASE SHold(a, i) = Bounty(a, sLoc[w].n[a], TRUE) /\ UNCHANGED sTransfers
  <2>1. Untouched
    BY <1>4, SameLedgerUntouched DEF RunMoves
  <2>2. Steady => Ready(a) /\ f.n = counts
    BY <1>2, <1>4 DEF Ready
  <2>3. DOMAIN markers' = SAgents
    BY DEF SettlementInv, STyped
  <2>4. to # "mark" /\ to # "void" /\ to # "unmark" /\ to # "next" /\ sPc[w] # "post"
    OBVIOUS
  <2>. QED BY <1>1, <1>2, <2>1, <2>2, <2>3, <2>4, QuietRun
<1>. QED BY <1>1, <1>3, <1>4 DEF Settlement!HoldGranted, Settlement!Seed, Settlement!Amount, Settlement!Held,
            Settlement!HoldRecord, Settlement!ledger, SHold, Bounty

\* A run finds another hold under its id; in process and with the registry at rest it is posted.
LEMMA ConflictPaid ==
  ASSUME SettlementInv, NEW w \in SWorkers, sPc[w] \in {"hold", "next"}, Settlement!HoldConflict(w), Steady
  PROVE  Paid(sLoc[w].agent)
<1>1. PICK a, i : a = sLoc[w].agent /\ i = sLoc[w].try
  OBVIOUS
<1>2. /\ a \in SAgents /\ 0 \in Tries /\ i = 0 /\ sLoc[w].n = counts /\ Settled(a)
  BY <1>1, RunFacts DEF AgentLabels
<1>3. SHold(a, 0) # SNone /\ SHold(a, 0) # Bounty(a, counts[a], TRUE)
  BY <1>1, <1>2 DEF Settlement!HoldConflict, Settlement!Seed, Settlement!Amount, Settlement!Held,
            Settlement!HoldRecord, Settlement!Core!Exists, SHold, Bounty, SNone
<1>4. SPost(a, 0) # SNone
  BY <1>2, <1>3 DEF Settled
<1>. QED BY <1>1, <1>2, <1>4 DEF Paid

LEMMA FirstHoldStep ==
  ASSUME SettlementInv, NEW w \in SWorkers, Settlement!Hold(w)
  PROVE  SettlementInv'
<1>1. /\ sPc[w] = "hold" /\ UNCHANGED <<remote, counts, moved, markers>>
      /\ sLoc' = [sLoc EXCEPT ![w].try = IF sPc'[w] = "next" THEN 1 ELSE 0]
  BY DEF Settlement!Hold, Settlement!Registry
<1>2. PICK to \in {"post", "idle", "mark", "next"} :
        /\ Settlement!Goto(w, to)
        /\ \/ Settlement!HoldGranted(w) /\ to \in {"post", "idle"} /\ (to = "idle" => remote)
           \/ UNCHANGED sTransfers /\ to = "idle"
           \/ /\ UNCHANGED sTransfers /\ Settlement!HoldConflict(w) /\ ~remote
              /\ to = IF Settlement!PostsOf(sLoc[w].agent) # {} THEN "mark" ELSE "next"
  BY DEF Settlement!Hold, Settlement!Outage, Settlement!AfterConflict, Settlement!ledger
<1>3. PICK x \in Tries : x = (IF to = "next" THEN 1 ELSE 0)
  BY ChannelsAssumption DEF Tries
<1> DEFINE f == [sLoc[w] EXCEPT !.try = x]
<1>4. sPc'[w] = to
  BY <1>2 DEF Settlement!Goto, SettlementInv, STyped
<1>5. sLoc' = [sLoc EXCEPT ![w] = f]
  BY <1>1, <1>3, <1>4
<1>6. f \in SFrames /\ f.n = sLoc[w].n /\ f.agent = sLoc[w].agent /\ f.try = x
  BY Attempted
<1>. HIDE DEF f
<1>7. RunMoves(w, to, f)
  BY <1>1, <1>2, <1>5, <1>6, SettlementLabels DEF RunMoves, AgentLabels
<1>8. /\ sLoc[w].agent \in SAgents /\ (Steady => sLoc[w].n = counts) /\ DOMAIN markers' = SAgents
  BY <1>1, RunFacts DEF AgentLabels, SettlementInv, STyped
<1>9. CASE Settlement!HoldGranted(w) /\ to \in {"post", "idle"} /\ (to = "idle" => remote)
  <2>1. f.try = 0 /\ (Steady => to = "post")
    BY <1>3, <1>6, <1>9 DEF Steady
  <2>. QED BY <1>1, <1>6, <1>7, <1>9, <2>1, GrantedStep
<1>10. CASE UNCHANGED sTransfers /\ to = "idle"
  <2>1. Untouched /\ f.try = 0
    BY <1>1, <1>3, <1>6, <1>10, SameLedgerUntouched
  <2>. QED BY <1>1, <1>7, <1>8, <1>10, <2>1, SettlementLabels, QuietRun
<1>11. CASE /\ UNCHANGED sTransfers /\ Settlement!HoldConflict(w) /\ ~remote
            /\ to = IF Settlement!PostsOf(sLoc[w].agent) # {} THEN "mark" ELSE "next"
  <2>1. Untouched
    BY <1>1, <1>11, SameLedgerUntouched
  <2>2. (to = "mark" => Paid(sLoc[w].agent)) /\ (Paid(sLoc[w].agent) => to = "mark")
    BY <1>11, PostsOfPaid
  <2>3. First => Steady
    BY <1>11 DEF First, Steady
  <2>4. First => to # "next" /\ f.try = 0
    BY <1>1, <1>3, <1>6, <1>11, <2>2, <2>3, ConflictPaid
  <2>5. to \in {"mark", "next"}
    BY <1>11
  <2>. QED BY <1>1, <1>6, <1>7, <1>8, <2>1, <2>2, <2>4, <2>5, QuietRun
<1>. QED BY <1>2, <1>9, <1>10, <1>11

LEMMA NextHoldStep ==
  ASSUME SettlementInv, NEW w \in SWorkers, Settlement!NextHold(w)
  PROVE  SettlementInv'
<1>1. sPc[w] = "next" /\ UNCHANGED <<remote, counts, moved, markers>>
  BY DEF Settlement!NextHold, Settlement!Registry
<1>2. ~First /\ ~Steady
  <2>1. RunClaim(w)
    BY DEF SettlementInv
  <2>. QED BY <1>1, <2>1 DEF RunClaim, First, Steady
<1>3. /\ sLoc[w] \in SFrames /\ sLoc[w].agent \in SAgents /\ DOMAIN markers' = SAgents /\ sLoc[w].try \in Tries
  BY <1>1, RunFacts DEF AgentLabels, SettlementInv, STyped
<1>4. CASE Settlement!HoldGranted(w) /\ Settlement!Goto(w, "post") /\ UNCHANGED sLoc
  <2>1. RunMoves(w, "post", sLoc[w])
    BY <1>1, <1>3, <1>4, SettlementLabels DEF RunMoves, AgentLabels, SettlementInv, STyped
  <2>. QED BY <1>1, <1>2, <1>4, <2>1, GrantedStep
<1>5. CASE UNCHANGED sTransfers /\ Settlement!Goto(w, "idle") /\ UNCHANGED sLoc
  <2>1. RunMoves(w, "idle", sLoc[w])
    BY <1>1, <1>3, <1>5, SettlementLabels DEF RunMoves, AgentLabels, SettlementInv, STyped
  <2>2. Untouched
    BY <1>1, <1>5, SameLedgerUntouched
  <2>. QED BY <1>1, <1>2, <1>3, <2>1, <2>2, SettlementLabels, QuietRun
<1>6. CASE /\ UNCHANGED sTransfers /\ sLoc[w].try # MaxTries /\ UNCHANGED sPc
           /\ sLoc' = [sLoc EXCEPT ![w].try = @ + 1]
  <2>1. PICK x \in Tries : x = sLoc[w].try + 1
    BY <1>3, <1>6, ChannelsAssumption DEF Tries
  <2> DEFINE f == [sLoc[w] EXCEPT !.try = x]
  <2>2. sLoc' = [sLoc EXCEPT ![w] = f]
    BY <1>6, <2>1
  <2>3. f \in SFrames /\ f.agent = sLoc[w].agent
    BY Attempted
  <2>. HIDE DEF f
  <2>4. RunMoves(w, "next", f)
    BY <1>1, <1>6, <2>2, <2>3, SettlementLabels DEF RunMoves, AgentLabels, SettlementInv, STyped, Settlement!Goto
  <2>5. Untouched
    BY <1>1, <1>6, SameLedgerUntouched
  <2>. QED BY <1>1, <1>2, <1>3, <2>3, <2>4, <2>5, QuietRun
<1>. QED BY <1>4, <1>5, <1>6 DEF Settlement!NextHold, Settlement!ledger

LEMMA BountyPostStep ==
  ASSUME SettlementInv, NEW w \in SWorkers, Settlement!Post(w)
  PROVE  SettlementInv'
<1>1. sPc[w] = "post" /\ UNCHANGED <<remote, counts, moved, markers, sLoc>>
  BY DEF Settlement!Post, Settlement!Registry
<1>2. PICK a, i : a = sLoc[w].agent /\ i = sLoc[w].try
  OBVIOUS
<1>3. /\ sLoc[w] \in SFrames /\ a \in SAgents /\ i \in Tries /\ 0 \in Tries /\ DOMAIN markers' = SAgents
      /\ First => i = 0
      /\ Steady => i = 0 /\ sLoc[w].n = counts
  BY <1>1, <1>2, RunFacts DEF AgentLabels, SettlementInv, STyped
<1>4. Steady => Ready(a)
  <2>1. RunClaim(w)
    BY DEF SettlementInv
  <2>. QED BY <1>1, <1>2, <2>1 DEF RunClaim
<1>5. PICK to \in {"mark", "void"} :
        /\ Settlement!Goto(w, to)
        /\ \/ Settlement!PostDone(w) /\ (to = "void" => remote)
           \/ Settlement!PostRefused(w) /\ UNCHANGED sTransfers /\ to = "void"
           \/ UNCHANGED sTransfers /\ to = "void" /\ remote
  BY DEF Settlement!Post, Settlement!Outage, Settlement!ledger
<1>6. RunMoves(w, to, sLoc[w])
  BY <1>1, <1>3, <1>5, SettlementLabels DEF RunMoves, AgentLabels, SettlementInv, STyped
<1>7. CASE Settlement!PostDone(w) /\ (to = "void" => remote)
  <2>1. Steady => to = "mark"
    BY <1>7 DEF Steady
  <2>2. CASE Settlement!Core!PostPendingAs(<<a, i>>, sLoc[w].n[a])
    BY <1>1, <1>2, <1>6, <2>1, <2>2, PayStep
  <2>3. CASE ~SHold(a, i).pending /\ Paid(a) /\ UNCHANGED sTransfers
    <3>1. Untouched
      BY <1>1, <2>3, SameLedgerUntouched
    <3>. QED BY <1>1, <1>2, <1>3, <1>6, <2>1, <2>3, <3>1, QuietRun
  <2>. QED BY <1>2, <1>7, <2>2, <2>3, PostsOfPaid
         DEF Settlement!PostDone, Settlement!Seed, Settlement!Amount, Settlement!Core!IsPending,
             Settlement!Core!Exists, Settlement!ledger, SHold
<1>8. CASE UNCHANGED sTransfers /\ to = "void" /\ ~Steady
  <2>1. Untouched
    BY <1>1, <1>8, SameLedgerUntouched
  <2>. QED BY <1>1, <1>2, <1>3, <1>6, <1>8, <2>1, QuietRun
<1>9. Settlement!PostRefused(w) => ~Steady
  <2> SUFFICES ASSUME Settlement!PostRefused(w), Steady PROVE FALSE
    OBVIOUS
  <2>1. /\ SHold(a, 0) = SNone \/ ~SHold(a, 0).pending
        /\ \A j \in Settlement!PostsOf(a) : SPost(a, j) # Bounty(a, counts[a], FALSE)
    BY <1>2, <1>3 DEF Settlement!PostRefused, Settlement!Seed, Settlement!Amount, Settlement!HoldRecord,
          Settlement!Core!IsPending, Settlement!Core!Exists, SHold, SPost, SNone, Bounty
  <2>2. /\ Bounty(a, counts[a], TRUE) # SNone /\ Bounty(a, counts[a], TRUE).pending
        /\ Bounty(a, counts[a], FALSE) # SNone
    BY DEF Bounty, Settlement!Core!Record, SNone, Settlement!Core!NoTransfer
  <2>3. SPost(a, 0) = Bounty(a, counts[a], FALSE)
    BY <1>4, <2>1, <2>2 DEF Ready
  <2>4. 0 \in Settlement!PostsOf(a)
    BY <1>3, <2>2, <2>3 DEF Settlement!PostsOf, Settlement!Core!Exists, SPost, SNone, Tries
  <2>. QED BY <2>1, <2>3, <2>4
<1>10. remote => ~Steady
  BY DEF Steady
<1>. QED BY <1>5, <1>7, <1>8, <1>9, <1>10

LEMMA BountyVoidStep ==
  ASSUME SettlementInv, NEW w \in SWorkers, Settlement!Void(w)
  PROVE  SettlementInv'
<1>1. /\ sPc[w] = "void" /\ UNCHANGED <<remote, counts, moved, markers, sLoc>> /\ Settlement!Goto(w, "unmark")
  BY DEF Settlement!Void, Settlement!Registry
<1>2. PICK a, i : a = sLoc[w].agent /\ i = sLoc[w].try
  OBVIOUS
<1>3. /\ sLoc[w] \in SFrames /\ a \in SAgents /\ i \in Tries /\ DOMAIN markers' = SAgents /\ (First => i = 0)
      /\ RunClaim(w)
  BY <1>1, <1>2, RunFacts DEF AgentLabels, SettlementInv, STyped
<1>4. ~Steady
  BY <1>1, <1>3 DEF RunClaim
<1>5. RunMoves(w, "unmark", sLoc[w])
  BY <1>1, <1>3, SettlementLabels DEF RunMoves, AgentLabels, SettlementInv, STyped
<1>6. CASE UNCHANGED sTransfers
  <2>1. Untouched
    BY <1>1, <1>6, SameLedgerUntouched
  <2>. QED BY <1>1, <1>2, <1>3, <1>4, <1>5, <2>1, QuietRun
<1>7. CASE Settlement!Core!Consume(<<a, i>>, "void", 0)
  <2>1. PICK leg \in {"post", "void"}, n \in {0} : leg = "void" /\ n = 0
    OBVIOUS
  <2>2. Settlement!Core!Consume(<<a, i>>, leg, n)
    BY <1>7, <2>1
  <2>3. SpentAt(a, i, leg, n)
    BY <1>3, <2>2, SpentBounty
  <2>4. DOMAIN sTransfers' = DOMAIN sTransfers /\ \A b \in SAgents, j \in Tries : SPost(b, j)' = SPost(b, j)
    BY <2>1, <2>3 DEF SpentAt
  <2>5. RunKeeps
    BY <1>4, <2>4 DEF RunKeeps, SettlementInv
  <2>6. \A b \in SAgents : markers'[b] # Settlement!Unmarked => Paid(b)'
    BY <1>1, <2>4 DEF SettlementInv, Paid, SNone
  <2>7. PICK f : f = sLoc[w]
    OBVIOUS
  <2>8. RunMoves(w, "unmark", f)
    BY <1>5, <2>7
  <2>. QED BY <1>2, <1>3, <1>4, <2>5, <2>6, <2>7, <2>8, SettlementStep1
<1>. QED BY <1>2, <1>6, <1>7 DEF Settlement!Void, Settlement!Core!VoidPending, Settlement!Seed, Settlement!ledger

LEMMA UnmarkStep ==
  ASSUME SettlementInv, NEW w \in SWorkers, Settlement!Unmark(w)
  PROVE  SettlementInv'
<1>1. /\ sPc[w] = "unmark" /\ UNCHANGED <<remote, counts, moved, sLoc>> /\ UNCHANGED sTransfers
      /\ Settlement!Goto(w, "idle")
      /\ UNCHANGED markers \/ markers' = [markers EXCEPT ![sLoc[w].agent] = Settlement!Unmarked]
  BY DEF Settlement!Unmark, Settlement!Registry, Settlement!ledger
<1>2. sLoc[w] \in SFrames /\ RunClaim(w) /\ DOMAIN markers = SAgents
  BY DEF SettlementInv, STyped
<1>3. ~Steady /\ (First => sLoc[w].try = 0)
  BY <1>1, <1>2 DEF RunClaim
<1>4. RunMoves(w, "idle", sLoc[w]) /\ Untouched
  BY <1>1, <1>2, SettlementLabels, SameLedgerUntouched DEF RunMoves, SettlementInv, STyped
<1>5. DOMAIN markers' = SAgents
      /\ \A a \in SAgents : markers'[a] # Settlement!Unmarked => markers[a] # Settlement!Unmarked
  BY <1>1, <1>2
<1>. QED BY <1>1, <1>3, <1>4, <1>5, SettlementLabels, QuietRun

LEMMA BountyMarkStep ==
  ASSUME SettlementInv, NEW w \in SWorkers, Settlement!Mark(w)
  PROVE  SettlementInv'
<1>1. /\ sPc[w] = "mark" /\ UNCHANGED <<remote, counts, moved, sLoc>> /\ UNCHANGED sTransfers
      /\ UNCHANGED markers \/ markers' = [markers EXCEPT ![sLoc[w].agent] = Settlement!Amount(w)]
  BY DEF Settlement!Mark, Settlement!Registry, Settlement!ledger
<1>2. PICK to \in {"pick", "idle"} : Settlement!Goto(w, to)
  BY DEF Settlement!Mark
<1>3. sLoc[w] \in SFrames /\ RunClaim(w) /\ DOMAIN markers = SAgents
  BY DEF SettlementInv, STyped
<1>4. /\ First => sLoc[w].try = 0
      /\ Steady => sLoc[w].n = counts
      /\ Paid(sLoc[w].agent)
  BY <1>1, <1>3 DEF RunClaim
<1>5. RunMoves(w, to, sLoc[w]) /\ Untouched
  BY <1>1, <1>2, <1>3, SettlementLabels, SameLedgerUntouched DEF RunMoves, SettlementInv, STyped
<1>6. DOMAIN markers' = SAgents
      /\ \A a \in SAgents : markers'[a] # Settlement!Unmarked => markers[a] # Settlement!Unmarked \/ Paid(a)
  BY <1>1, <1>3, <1>4
<1>. QED BY <1>1, <1>4, <1>5, <1>6, SettlementLabels, QuietRun

LEMMA VerifiedStep ==
  ASSUME SettlementInv, NEW x \in SAgents, Settlement!Verified(x)
  PROVE  SettlementInv'
<1>1. /\ UNCHANGED sTransfers /\ UNCHANGED <<remote, markers, sPc, sLoc>>
      /\ counts' = [counts EXCEPT ![x] = @ + 1]
      /\ moved' = (moved \/ \E w \in SWorkers : sPc[w] # "idle")
  BY DEF Settlement!Verified, Settlement!ledger
<1>2. First' => First
  BY <1>1 DEF First
<1>3. Steady' => Steady /\ \A w \in SWorkers : sPc[w] = "idle"
  BY <1>1 DEF Steady
<1>4. counts' \in [SAgents -> Nat]
  BY <1>1 DEF SettlementInv, STyped
<1>5. STyped'
  BY <1>1, <1>4 DEF SettlementInv, STyped
<1>6. \A a : /\ Paid(a)' <=> Paid(a)
             /\ \A i : SPost(a, i)' = SPost(a, i) /\ SHold(a, i)' = SHold(a, i)
  BY <1>1 DEF Paid, SPost, SHold, SNone
<1>7. ASSUME Steady', NEW a \in SAgents PROVE Settled(a)'
  <2>1. Settled(a) /\ \A w \in SWorkers : sPc[w] # "post"
    BY <1>3, <1>7 DEF SettlementInv
  <2>. QED BY <1>6, <2>1 DEF Settled, SNone
<1>8. ASSUME NEW w \in SWorkers PROVE RunClaim(w)'
  <2>1. RunClaim(w)
    BY DEF SettlementInv
  <2>2. PICK a : a = sLoc[w].agent
    OBVIOUS
  <2>. QED BY <1>1, <1>2, <1>3, <1>6, <2>1, <2>2, SettlementLabels DEF RunClaim
<1>9. First' => \A a \in SAgents, i \in Tries \ {0} : SPost(a, i)' = SNone'
  BY <1>2, <1>6 DEF SettlementInv, SNone
<1>10. \A a \in SAgents : markers'[a] # Settlement!Unmarked => Paid(a)'
  BY <1>1, <1>6 DEF SettlementInv
<1>. QED BY <1>5, <1>7, <1>8, <1>9, <1>10 DEF SettlementInv

\* The workers and the ledger rest; a marker may go.
LEMMA RestStep ==
  ASSUME SettlementInv, UNCHANGED <<sTransfers, remote, counts, moved, sPc, sLoc>>, DOMAIN markers' = SAgents,
         \A a \in SAgents : markers'[a] # Settlement!Unmarked => markers[a] # Settlement!Unmarked
  PROVE  SettlementInv'
<1>1. \A a : (Paid(a)' <=> Paid(a)) /\ (Ready(a)' <=> Ready(a)) /\ (Settled(a)' <=> Settled(a))
  BY DEF Paid, Ready, Settled, SPost, SHold, SNone, Bounty
<1>2. First' = First /\ Steady' = Steady /\ STyped'
  BY DEF First, Steady, SettlementInv, STyped
<1>3. ASSUME NEW w \in SWorkers PROVE RunClaim(w)'
  <2>1. RunClaim(w)
    BY DEF SettlementInv
  <2>2. PICK a : a = sLoc[w].agent
    OBVIOUS
  <2>. QED BY <1>1, <1>2, <2>1, <2>2 DEF RunClaim
<1>4. First' => \A a \in SAgents, i \in Tries \ {0} : SPost(a, i)' = SNone'
  BY <1>2 DEF SettlementInv, SNone, SPost
<1>5. (\A a \in SAgents : markers'[a] # Settlement!Unmarked => Paid(a)') /\ (Steady' => \A a \in SAgents : Settled(a)')
  BY <1>1, <1>2 DEF SettlementInv
<1>. QED BY <1>2, <1>3, <1>4, <1>5 DEF SettlementInv

LEMMA SettlementCrashStep ==
  ASSUME SettlementInv, Settlement!Crash
  PROVE  SettlementInv'
<1>1. /\ remote /\ UNCHANGED sTransfers /\ UNCHANGED <<remote, counts, moved, markers, sLoc>>
      /\ sPc' = [w \in SWorkers |-> "idle"]
  BY DEF Settlement!Crash, Settlement!Outage, Settlement!Registry, Settlement!ledger
<1>2. First' = First /\ ~Steady'
  BY <1>1 DEF First, Steady
<1>3. \A a : Paid(a)' <=> Paid(a)
  BY <1>1 DEF Paid, SPost, SNone
<1>4. STyped'
  BY <1>1, SettlementLabels DEF SettlementInv, STyped
<1>5. ASSUME NEW w \in SWorkers PROVE RunClaim(w)'
  <2>1. RunClaim(w) /\ sPc'[w] = "idle"
    BY <1>1 DEF SettlementInv
  <2>. QED BY <1>1, <1>2, <2>1, SettlementLabels DEF RunClaim
<1>6. First' => \A a \in SAgents, i \in Tries \ {0} : SPost(a, i)' = SNone'
  BY <1>1, <1>2 DEF SettlementInv, SNone, SPost
<1>7. \A a \in SAgents : markers'[a] # Settlement!Unmarked => Paid(a)'
  BY <1>1, <1>3 DEF SettlementInv
<1>. QED BY <1>2, <1>4, <1>5, <1>6, <1>7 DEF SettlementInv

LEMMA NextSettlementInv == SettlementInv /\ Settlement!Next => SettlementInv'
<1> SUFFICES ASSUME SettlementInv, Settlement!Next PROVE SettlementInv'
  OBVIOUS
<1>1. ASSUME NEW a \in SAgents, Settlement!Expire(a) \/ Settlement!Purge(a) PROVE SettlementInv'
  <2>1. UNCHANGED <<sTransfers, remote, counts, moved, sPc, sLoc>>
    BY <1>1 DEF Settlement!Expire, Settlement!Purge, Settlement!Registry, Settlement!ledger
  <2>2. UNCHANGED markers \/ markers' = [markers EXCEPT ![a] = Settlement!Unmarked]
    BY <1>1 DEF Settlement!Expire, Settlement!Purge
  <2>3. DOMAIN markers' = SAgents
        /\ \A b \in SAgents : markers'[b] # Settlement!Unmarked => markers[b] # Settlement!Unmarked
    BY <2>2 DEF SettlementInv, STyped
  <2>. QED BY <2>1, <2>3, RestStep
<1>. QED BY <1>1, StartStep, FundStep, PickStep, FirstHoldStep, NextHoldStep, BountyPostStep, BountyVoidStep,
            UnmarkStep, BountyMarkStep, VerifiedStep, SettlementCrashStep DEF Settlement!Next

LEMMA InitSettlementInv == Settlement!Init => SettlementInv
<1> SUFFICES ASSUME Settlement!Init PROVE SettlementInv
  OBVIOUS
<1>1. STyped
  <2>1. counts \in [SAgents -> Nat]
    BY ChannelsAssumption DEF Settlement!Init
  <2>. QED BY <2>1, EmptyFrame, SettlementLabels DEF Settlement!Init, STyped
<1>2. \A a \in SAgents, i \in Tries : SPost(a, i) = SNone /\ SHold(a, i) = SNone
  BY DEF Settlement!Init, SPost, SHold, SNone, Tries, Settlement!Core!TransferIds, Settlement!Core!Legs,
         Settlement!Attempts
<1>3. \A a \in SAgents : Settled(a)
  <2>1. 0 \in Tries
    BY ChannelsAssumption DEF Tries
  <2>. QED BY <1>2, <2>1 DEF Settled
<1>4. \A w \in SWorkers : sPc[w] = "idle" /\ sLoc[w].try = 0
  BY EmptyFrame DEF Settlement!Init
<1>5. \A w \in SWorkers : RunClaim(w)
  BY <1>4, SettlementLabels DEF RunClaim
<1>6. \A a \in SAgents : markers[a] = Settlement!Unmarked
  BY DEF Settlement!Init
<1>. QED BY <1>1, <1>2, <1>3, <1>5, <1>6 DEF SettlementInv

\* A bounty marked is a bounty posted, and as long as no operator is verified
\* under a run an agent's bounty is posted once, however runs of
\* wf-onb-commission-settlement overlap, fail and follow each other: its holds
\* conflict only with a payout that is posted.
THEOREM BountyPaidOnce == Spec => []PaidOnce
<1> DEFINE Inv == focus = "settlement" => SettlementInv
<1>1. Init => Inv
  BY InitSettlementInv DEF Init
<1>2. Inv /\ [Next]_vars => Inv'
  <2> SUFFICES ASSUME Inv, [Next]_vars PROVE Inv'
    OBVIOUS
  <2>1. CASE UNCHANGED <<focus, sVars>>
    <3>1. SettlementInv => DOMAIN markers' = SAgents
      BY <2>1 DEF sVars, SettlementInv, STyped
    <3>. QED BY <2>1, <3>1, RestStep DEF sVars
  <2>2. CASE SettlementStep
    BY <2>2, NextSettlementInv DEF SettlementStep
  <2>. QED BY <2>1, <2>2 DEF Next, vars, HierStep, USSDStep, CommStep, FloatStep
<1>3. Inv => PaidOnce
  <2> SUFFICES ASSUME SettlementInv, NEW a \in SAgents
               PROVE  /\ markers[a] # Settlement!Unmarked => Settlement!PostsOf(a) # {}
                      /\ ~moved => \A i, j \in Settlement!PostsOf(a) : i = j
    BY DEF PaidOnce, Settlement!PaidOnce
  <2>1. markers[a] # Settlement!Unmarked => Settlement!PostsOf(a) # {}
    BY PostsOfPaid DEF SettlementInv
  <2>2. ASSUME ~moved PROVE \A i \in Settlement!PostsOf(a) : i = 0
    BY <2>2 DEF SettlementInv, First, Settlement!PostsOf, Settlement!Core!Exists, SPost, SNone, Tries
  <2>. QED BY <2>1, <2>2
<1>. QED BY <1>1, <1>2, <1>3, PTL DEF Spec

-----------------------------------------------------------------------------
(* The commissions.                                                        *)

CWorkers == CCalls \cup {Clawer}
CNone == Comm!Core!NoTransfer

\* The hold, the post and the reversal of a level of a reference.
LHold(s) == cTransfers[<<<<"level", s[1], s[2]>>, "hold">>]
LPost(s) == cTransfers[<<<<"level", s[1], s[2]>>, "post">>]
LTaken(s) == cTransfers[<<<<"claw", s[1], s[2]>>, "direct">>]

\* Earners, as the links p have them.
EarnersAt(p, a) ==
  LET up[n \in Comm!Levels] ==
        IF n = 1 THEN a ELSE IF up[n - 1] = CRoot THEN CRoot ELSE p[up[n - 1]]
      depth == Comm!Cardinality({n \in Comm!Levels : up[n] # CRoot})
  IN [n \in 1..depth |-> up[n]]

\* As long as no agent moves, whoever calls for a reference pays the same agents.
DueTo(w, s) == EarnersAt(parent, CAgentOf[w])[s[2]]
LevelDue(s) ==
  /\ LHold(s) = CNone \/ LHold(s).pending => LPost(s) = CNone
  /\ moves = 0 => \A w \in CCalls : s[1] = RefOf[w] =>
       /\ LHold(s) # CNone => LHold(s).credit = DueTo(w, s)
       /\ LPost(s) # CNone => LPost(s).credit = DueTo(w, s)

CRecord(r) == r = [agent |-> r.agent, base |-> r.base, status |-> r.status]

\* A record of the level s is true of the ledger.
TrueOf(r, s) ==
  /\ CRecord(r) /\ LPost(s) # CNone
  /\ r.status = "clawed_back" => LTaken(s) # CNone
  /\ moves = 0 => LPost(s).credit = r.agent

AtWork == {"fund", "lookup", "hold", "post", "void", "delete", "mark"}

\* What a call of Accrue, and of Clawback, knows where it is.
AccrueClaim(w) ==
  cPc[w] \in AtWork =>
    /\ cLoc[w] = [earners |-> cLoc[w].earners, slot |-> <<RefOf[w], cLoc[w].slot[2]>>, rec |-> cLoc[w].rec]
    /\ moves = 0 => cLoc[w].earners = EarnersAt(parent, CAgentOf[w])
    /\ cPc[w] = "mark" /\ cLoc[w].slot \in Comm!Slots => LPost(cLoc[w].slot) # CNone
ClawClaim ==
  /\ cPc[Clawer] \in {"list", "reverse", "save"}
  /\ cPc[Clawer] \in {"reverse", "save"} =>
       /\ cLoc[Clawer].slot \in Comm!Slots /\ cLoc[Clawer].rec.status = "posted"
       /\ TrueOf(cLoc[Clawer].rec, cLoc[Clawer].slot)
  /\ cPc[Clawer] = "save" => LTaken(cLoc[Clawer].slot) # CNone

CommInv ==
  /\ DOMAIN cTransfers = Comm!Core!TransferIds
  /\ DOMAIN cPc = CWorkers /\ DOMAIN cLoc = CWorkers /\ DOMAIN records = Comm!Slots
  /\ moves \in Nat
  /\ \A s \in Comm!Slots : LevelDue(s)
  /\ \A s \in Comm!Slots : records[s] # Comm!NoRecord => TrueOf(records[s], s)
  /\ \A w \in CCalls : AccrueClaim(w)
  /\ ClawClaim

LEMMA EarnersRead ==
  ASSUME NEW a
  PROVE  Comm!Earners(a) = EarnersAt(parent, a)
BY DEF Comm!Earners, EarnersAt

\* The ids of a level and of its reversal are ids of the ledger.
LEMMA LevelIds ==
  ASSUME CommInv, NEW s \in Comm!Slots
  PROVE  /\ <<<<"level", s[1], s[2]>>, "hold">> \in DOMAIN cTransfers
         /\ <<<<"level", s[1], s[2]>>, "post">> \in DOMAIN cTransfers
         /\ <<<<"claw", s[1], s[2]>>, "direct">> \in DOMAIN cTransfers
         /\ s = <<s[1], s[2]>>
<1>1. s[1] \in Refs /\ s[2] \in Comm!Levels /\ s = <<s[1], s[2]>>
  BY DEF Comm!Slots
<1>2. <<"level", s[1], s[2]>> \in Comm!Seeds /\ <<"claw", s[1], s[2]>> \in Comm!Seeds
  BY <1>1 DEF Comm!Seeds
<1>. QED BY <1>1, <1>2 DEF CommInv, Comm!Core!TransferIds, Comm!Core!Legs

\* What a step may do to the ledger and to the links.
CommKeeps ==
  /\ DOMAIN cTransfers' = DOMAIN cTransfers
  /\ moves' \in Nat /\ (moves' = 0 => moves = 0 /\ UNCHANGED parent)
  /\ \A s \in Comm!Slots :
       /\ LPost(s) # CNone => LPost(s)' = LPost(s)
       /\ LTaken(s) # CNone => LTaken(s)' # CNone
       /\ LevelDue(s)'

LEMMA TrueKept ==
  ASSUME CommKeeps, NEW s \in Comm!Slots, NEW r, TrueOf(r, s)
  PROVE  TrueOf(r, s)'
BY DEF CommKeeps, TrueOf, CNone

\* A call moves, knowing what it must where it goes; what the others know stays true.
LEMMA CommStep1 ==
  ASSUME CommInv, CommKeeps, NEW w \in CCalls, NEW to, Comm!Goto(w, to),
         UNCHANGED cLoc \/ \E f : cLoc' = [cLoc EXCEPT ![w] = f], AccrueClaim(w)',
         DOMAIN records' = Comm!Slots,
         \A s \in Comm!Slots : records'[s] # Comm!NoRecord => TrueOf(records[s], s)'
  PROVE  CommInv'
<1>1. /\ DOMAIN cPc' = CWorkers /\ DOMAIN cLoc' = CWorkers
      /\ \A v \in CWorkers \ {w} : cPc'[v] = cPc[v] /\ cLoc'[v] = cLoc[v]
  BY DEF CommInv, Comm!Goto
<1>2. Clawer \in CWorkers \ {w}
  BY ChannelsAssumption DEF CWorkers
<1>3. ClawClaim'
  <2>1. ClawClaim /\ cPc'[Clawer] = cPc[Clawer] /\ cLoc'[Clawer] = cLoc[Clawer]
    BY <1>1, <1>2 DEF CommInv
  <2>2. PICK r, s : r = cLoc[Clawer].rec /\ s = cLoc[Clawer].slot
    OBVIOUS
  <2>3. s \in Comm!Slots => (TrueOf(r, s) => TrueOf(r, s)') /\ (LTaken(s) # CNone => LTaken(s)' # CNone)
    BY TrueKept DEF CommKeeps
  <2>. QED BY <2>1, <2>2, <2>3 DEF ClawClaim, CNone
<1>4. ASSUME NEW v \in CCalls, v # w PROVE AccrueClaim(v)'
  <2>1. AccrueClaim(v) /\ cPc'[v] = cPc[v] /\ cLoc'[v] = cLoc[v]
    BY <1>1, <1>4 DEF CommInv, CWorkers
  <2>2. PICK s : s = cLoc[v].slot
    OBVIOUS
  <2>3. s \in Comm!Slots /\ LPost(s) # CNone => LPost(s)' # CNone
    BY DEF CommKeeps
  <2>4. moves' = 0 => moves = 0 /\ parent' = parent
    BY DEF CommKeeps
  <2>. QED BY <2>1, <2>2, <2>3, <2>4 DEF AccrueClaim, CNone
<1>5. \A v \in CCalls : AccrueClaim(v)'
  BY <1>4
<1>. QED BY <1>1, <1>3, <1>5 DEF CommInv, CommKeeps

\* The levels stay as they are.
LEMMA LevelsRest ==
  ASSUME CommInv, UNCHANGED <<parent, moves>>, DOMAIN cTransfers' = DOMAIN cTransfers,
         \A s \in Comm!Slots : LHold(s)' = LHold(s) /\ LPost(s)' = LPost(s)
                               /\ (LTaken(s) # CNone => LTaken(s)' # CNone)
  PROVE  CommKeeps
<1>1. ASSUME NEW s \in Comm!Slots PROVE LevelDue(s)'
  <2>1. LevelDue(s)
    BY DEF CommInv
  <2>2. \A w : DueTo(w, s)' = DueTo(w, s)
    BY DEF DueTo
  <2>. QED BY <2>1, <2>2 DEF LevelDue, CNone
<1>2. moves' \in Nat
  BY DEF CommInv
<1>. QED BY <1>1, <1>2 DEF CommKeeps

LEMMA QuietLedger ==
  ASSUME CommInv, UNCHANGED <<parent, moves, cTransfers>>
  PROVE  CommKeeps
<1>1. \A s \in Comm!Slots : LHold(s)' = LHold(s) /\ LPost(s)' = LPost(s) /\ LTaken(s)' = LTaken(s)
  BY DEF LHold, LPost, LTaken
<1>. QED BY <1>1, LevelsRest

\* Transfer: the pool is funded, or a commission taken back.
LEMMA DirectEffect ==
  ASSUME CommInv, UNCHANGED <<parent, moves>>, NEW x, NEW d, NEW c, NEW amt,
         Comm!Core!Transfer(x, d, c, amt)
  PROVE  /\ CommKeeps
         /\ \A s \in Comm!Slots : x = <<"claw", s[1], s[2]>> => LTaken(s)' # CNone
<1> DEFINE r == Comm!Core!Record(d, c, amt, FALSE)
<1>1. cTransfers' = [cTransfers EXCEPT ![<<x, "direct">>] = r]
  BY DEF Comm!Core!Transfer
<1>2. r # CNone
  BY DEF Comm!Core!Record, CNone, Comm!Core!NoTransfer
<1>. HIDE DEF r
<1>3. ASSUME NEW s \in Comm!Slots
      PROVE  /\ LHold(s)' = LHold(s) /\ LPost(s)' = LPost(s) /\ (LTaken(s) # CNone => LTaken(s)' # CNone)
             /\ x = <<"claw", s[1], s[2]>> => LTaken(s)' # CNone
  <2>1. /\ <<<<"level", s[1], s[2]>>, "hold">> \in DOMAIN cTransfers
        /\ <<<<"level", s[1], s[2]>>, "post">> \in DOMAIN cTransfers
        /\ <<<<"claw", s[1], s[2]>>, "direct">> \in DOMAIN cTransfers
    BY LevelIds
  <2>2. LHold(s)' = LHold(s) /\ LPost(s)' = LPost(s)
    BY <1>1, <2>1 DEF LHold, LPost
  <2>3. LTaken(s)' = LTaken(s) \/ LTaken(s)' = r
    BY <1>1, <2>1 DEF LTaken
  <2>4. x = <<"claw", s[1], s[2]>> => LTaken(s)' = r
    BY <1>1, <2>1 DEF LTaken
  <2>. QED BY <1>2, <2>2, <2>3, <2>4
<1>4. DOMAIN cTransfers' = DOMAIN cTransfers
  BY <1>1
<1>. QED BY <1>3, <1>4, LevelsRest

\* PendingTransfer of a level by a call that read who is due.
LEMMA LevelHoldEffect ==
  ASSUME CommInv, UNCHANGED <<parent, moves>>, NEW w \in CCalls, NEW l, NEW e, NEW amt,
         moves = 0 => e = EarnersAt(parent, CAgentOf[w])[l],
         Comm!Core!PendingTransfer(<<"level", RefOf[w], l>>, CPool, e, amt)
  PROVE  CommKeeps
<1> DEFINE r == Comm!Core!Record(CPool, e, amt, TRUE)
           id == <<<<"level", RefOf[w], l>>, "hold">>
<1>1. cTransfers' = [cTransfers EXCEPT ![id] = r] /\ cTransfers[id] = CNone
  BY DEF Comm!Core!PendingTransfer, Comm!Core!Exists, CNone
<1>2. r # CNone /\ r.pending = TRUE /\ r.credit = e
  BY DEF Comm!Core!Record, CNone, Comm!Core!NoTransfer
<1>. HIDE DEF r
<1>3. ASSUME NEW s \in Comm!Slots
      PROVE  /\ LPost(s)' = LPost(s) /\ LTaken(s)' = LTaken(s)
             /\ LevelDue(s)'
  <2>1. /\ <<<<"level", s[1], s[2]>>, "hold">> \in DOMAIN cTransfers
        /\ <<<<"level", s[1], s[2]>>, "post">> \in DOMAIN cTransfers
        /\ <<<<"claw", s[1], s[2]>>, "direct">> \in DOMAIN cTransfers
    BY LevelIds
  <2>2. LPost(s)' = LPost(s) /\ LTaken(s)' = LTaken(s)
    BY <1>1, <2>1 DEF LTaken, LPost
  <2>3. \A v : DueTo(v, s)' = DueTo(v, s)
    BY DEF DueTo
  <2>4. LevelDue(s)
    BY DEF CommInv
  <2>5. CASE s[1] = RefOf[w] /\ s[2] = l
    <3>1. LHold(s) = CNone /\ LHold(s)' = r
      BY <1>1, <2>1, <2>5 DEF LHold
    <3>2. LPost(s) = CNone
      BY <2>4, <3>1 DEF LevelDue
    <3>3. ASSUME moves = 0, NEW v \in CCalls, s[1] = RefOf[v] PROVE DueTo(v, s) = e
      <4>1. CAgentOf[v] = CAgentOf[w]
        BY <2>5, <3>3, ChannelsAssumption
      <4>. QED BY <2>5, <3>3, <4>1 DEF DueTo
    <3>. QED BY <1>2, <2>2, <2>3, <3>1, <3>2, <3>3 DEF LevelDue, CNone
  <2>6. CASE ~(s[1] = RefOf[w] /\ s[2] = l)
    <3>1. LHold(s)' = LHold(s)
      BY <1>1, <2>1, <2>6 DEF LHold
    <3>. QED BY <2>2, <2>3, <2>4, <3>1 DEF LevelDue, CNone
  <2>. QED BY <2>2, <2>5, <2>6
<1>4. DOMAIN cTransfers' = DOMAIN cTransfers
  BY <1>1
<1>5. moves' \in Nat
  BY DEF CommInv
<1>. QED BY <1>3, <1>4, <1>5 DEF CommKeeps

\* A level's hold is posted or voided.
LEMMA LevelSpentEffect ==
  ASSUME CommInv, UNCHANGED <<parent, moves>>, NEW ref, NEW l, NEW leg \in {"post", "void"}, NEW n,
         Comm!Core!IsPending(<<<<"level", ref, l>>, "hold">>),
         Comm!Core!Consume(<<"level", ref, l>>, leg, n)
  PROVE  /\ CommKeeps
         /\ leg = "post" => \A s \in Comm!Slots : s = <<ref, l>> => LPost(s)' # CNone
<1> DEFINE id == <<<<"level", ref, l>>, "hold">>
           h == cTransfers[id]
           r == Comm!Core!Record(h.debit, h.credit, IF leg = "post" /\ n < h.amount THEN 0 ELSE h.amount, FALSE)
           q == Comm!Core!Record(h.debit, h.credit, IF leg = "post" THEN n ELSE h.amount, FALSE)
<1>1. /\ cTransfers' = [cTransfers EXCEPT ![id] = r, ![<<<<"level", ref, l>>, leg>>] = q]
      /\ h # CNone /\ h.pending
  BY DEF Comm!Core!Consume, Comm!Core!IsPending, Comm!Core!Exists, CNone
<1>2. /\ r # CNone /\ r.pending = FALSE /\ r.credit = h.credit
      /\ q # CNone /\ q.credit = h.credit
  BY DEF Comm!Core!Record, CNone, Comm!Core!NoTransfer
<1>. HIDE DEF r, q, h
<1>3. ASSUME NEW s \in Comm!Slots
      PROVE  /\ LPost(s) # CNone => LPost(s)' = LPost(s)
             /\ LTaken(s)' = LTaken(s) /\ LevelDue(s)'
             /\ leg = "post" /\ s = <<ref, l>> => LPost(s)' # CNone
  <2>1. /\ <<<<"level", s[1], s[2]>>, "hold">> \in DOMAIN cTransfers
        /\ <<<<"level", s[1], s[2]>>, "post">> \in DOMAIN cTransfers
        /\ <<<<"claw", s[1], s[2]>>, "direct">> \in DOMAIN cTransfers /\ s = <<s[1], s[2]>>
    BY LevelIds
  <2>2. LTaken(s)' = LTaken(s)
    BY <1>1, <2>1 DEF LTaken
  <2>3. \A v : DueTo(v, s)' = DueTo(v, s)
    BY DEF DueTo
  <2>4. LevelDue(s)
    BY DEF CommInv
  <2>5. CASE s[1] = ref /\ s[2] = l
    <3>1. LHold(s) = h /\ LHold(s)' = r
      BY <1>1, <2>1, <2>5 DEF LHold, h
    <3>2. LPost(s) = CNone
      BY <1>1, <2>4, <3>1 DEF LevelDue
    <3>3. LPost(s)' = IF leg = "post" THEN q ELSE LPost(s)
      BY <1>1, <2>1, <2>5 DEF LPost
    <3>. QED BY <1>1, <1>2, <2>2, <2>3, <2>4, <3>1, <3>2, <3>3 DEF LevelDue, CNone
  <2>6. CASE ~(s[1] = ref /\ s[2] = l)
    <3>1. LHold(s)' = LHold(s) /\ LPost(s)' = LPost(s)
      BY <1>1, <2>1, <2>6 DEF LHold, LPost
    <3>2. s # <<ref, l>>
      BY <2>6
    <3>. QED BY <2>2, <2>3, <2>4, <3>1, <3>2 DEF LevelDue, CNone
  <2>. QED BY <2>5, <2>6
<1>4. DOMAIN cTransfers' = DOMAIN cTransfers
  BY <1>1
<1>5. moves' \in Nat
  BY DEF CommInv
<1>. QED BY <1>3, <1>4, <1>5 DEF CommKeeps

\* The records in the store are true of the ledger after the step.
RecordsTrue ==
  /\ DOMAIN records' = Comm!Slots
  /\ \A s \in Comm!Slots : records'[s] # Comm!NoRecord => TrueOf(records[s], s)'

\* A record is written that is true, or one is deleted, or nothing is.
LEMMA RecordsStep ==
  ASSUME CommInv, CommKeeps,
         \/ UNCHANGED records
         \/ \E t, r : /\ records' = [records EXCEPT ![t] = r]
                      /\ t \in Comm!Slots /\ r # Comm!NoRecord => TrueOf(r, t)'
  PROVE  RecordsTrue
<1>1. DOMAIN records' = Comm!Slots
  BY DEF CommInv
<1>2. ASSUME NEW s \in Comm!Slots, records'[s] # Comm!NoRecord, records'[s] = records[s] PROVE TrueOf(records[s], s)'
  <2>1. PICK r : r = records[s]
    OBVIOUS
  <2>2. TrueOf(r, s)
    BY <1>2, <2>1 DEF CommInv
  <2>3. TrueOf(r, s)'
    BY <2>2, TrueKept
  <2>. QED BY <1>2, <2>1, <2>3
<1>3. CASE UNCHANGED records
  BY <1>1, <1>2, <1>3 DEF RecordsTrue
<1>4. ASSUME NEW t, NEW r, records' = [records EXCEPT ![t] = r],
             t \in Comm!Slots /\ r # Comm!NoRecord => TrueOf(r, t)'
      PROVE  RecordsTrue
  <2>1. ASSUME NEW s \in Comm!Slots, records'[s] # Comm!NoRecord PROVE TrueOf(records[s], s)'
    <3>1. CASE s = t
      <4>1. records'[s] = r
        BY <1>4, <3>1 DEF CommInv
      <4>. QED BY <1>4, <2>1, <3>1, <4>1
    <3>2. CASE s # t
      <4>1. records'[s] = records[s]
        BY <1>4, <3>2 DEF CommInv
      <4>. QED BY <1>2, <2>1, <4>1
    <3>. QED BY <3>1, <3>2
  <2>. QED BY <1>1, <2>1 DEF RecordsTrue
<1>. QED BY <1>3, <1>4

\* A call goes on with the level it has.
LEMMA SameLevel ==
  ASSUME CommInv, CommKeeps, RecordsTrue, NEW w \in CCalls, cPc[w] \in AtWork, NEW to, Comm!Goto(w, to), UNCHANGED cLoc,
         to = "mark" /\ cLoc[w].slot \in Comm!Slots => LPost(cLoc[w].slot)' # CNone
  PROVE  CommInv'
<1>1. cPc'[w] = to /\ cLoc'[w] = cLoc[w]
  BY DEF CommInv, Comm!Goto, CWorkers
<1>2. AccrueClaim(w)
  BY DEF CommInv
<1>3. moves' = 0 => moves = 0 /\ parent' = parent
  BY DEF CommKeeps
<1>4. AccrueClaim(w)'
  BY <1>1, <1>2, <1>3 DEF AccrueClaim, CNone
<1>. QED BY <1>4, CommStep1 DEF RecordsTrue

\* A call goes on to the next level, or ends.
LEMMA NextLevel ==
  ASSUME CommInv, CommKeeps, RecordsTrue, NEW w \in CCalls, cPc[w] \in AtWork, Comm!Advance(w)
  PROVE  CommInv'
<1>1. CASE Comm!Goto(w, "done") /\ UNCHANGED cLoc
  BY <1>1, SameLevel
<1>2. CASE Comm!Goto(w, "lookup") /\ cLoc' = [cLoc EXCEPT ![w].slot[2] = @ + 1]
  <2>1. AccrueClaim(w) /\ DOMAIN cLoc = CWorkers /\ w \in CWorkers /\ cPc'[w] = "lookup"
    BY <1>2 DEF CommInv, CWorkers, Comm!Goto
  <2>2. PICK f : f = cLoc[w] /\ f = [earners |-> f.earners, slot |-> <<RefOf[w], f.slot[2]>>, rec |-> f.rec]
    BY <2>1 DEF AccrueClaim
  <2> DEFINE g == [earners |-> f.earners, slot |-> <<RefOf[w], f.slot[2] + 1>>, rec |-> f.rec]
  <2>3. cLoc' = [cLoc EXCEPT ![w] = [f EXCEPT !.slot = [f.slot EXCEPT ![2] = f.slot[2] + 1]]]
    BY <1>2, <2>1, <2>2
  <2>4. f.slot = <<RefOf[w], f.slot[2]>>
    BY <2>2
  <2>5. [f.slot EXCEPT ![2] = f.slot[2] + 1] = <<RefOf[w], f.slot[2] + 1>>
    BY <2>4
  <2>6. cLoc' = [cLoc EXCEPT ![w] = g]
    <3>1. PICK x : x = <<RefOf[w], f.slot[2] + 1>>
      OBVIOUS
    <3>2. [f EXCEPT !.slot = x] = [earners |-> f.earners, slot |-> x, rec |-> f.rec]
      BY <2>2
    <3>. QED BY <2>3, <2>5, <3>1, <3>2
  <2>7. cLoc'[w] = g /\ g.earners = f.earners /\ g.slot = <<RefOf[w], g.slot[2]>>
        /\ g = [earners |-> g.earners, slot |-> <<RefOf[w], g.slot[2]>>, rec |-> g.rec]
    BY <2>1, <2>6
  <2>. HIDE DEF g
  <2>8. moves' = 0 => moves = 0 /\ parent' = parent
    BY DEF CommKeeps
  <2>9. moves = 0 => f.earners = EarnersAt(parent, CAgentOf[w])
    BY <2>1, <2>2 DEF AccrueClaim
  <2>10. AccrueClaim(w)'
    BY <2>1, <2>7, <2>8, <2>9 DEF AccrueClaim
  <2>. QED BY <1>2, <2>6, <2>10, CommStep1 DEF RecordsTrue
<1>. QED BY <1>1, <1>2 DEF Comm!Advance

LEMMA QuietRecords ==
  ASSUME CommInv, CommKeeps, UNCHANGED records
  PROVE  RecordsTrue
BY RecordsStep

\* Clawback moves; what the calls of Accrue know stays true.
LEMMA ClawStep ==
  ASSUME CommInv, CommKeeps, RecordsTrue, NEW to, Comm!Goto(Clawer, to),
         UNCHANGED cLoc \/ \E f : cLoc' = [cLoc EXCEPT ![Clawer] = f], ClawClaim'
  PROVE  CommInv'
<1>1. /\ DOMAIN cPc' = CWorkers /\ DOMAIN cLoc' = CWorkers
      /\ \A v \in CWorkers \ {Clawer} : cPc'[v] = cPc[v] /\ cLoc'[v] = cLoc[v]
  BY DEF CommInv, Comm!Goto
<1>2. ASSUME NEW v \in CCalls PROVE AccrueClaim(v)'
  <2>1. AccrueClaim(v) /\ cPc'[v] = cPc[v] /\ cLoc'[v] = cLoc[v]
    BY <1>1, ChannelsAssumption DEF CommInv, CWorkers
  <2>2. PICK s : s = cLoc[v].slot
    OBVIOUS
  <2>3. s \in Comm!Slots /\ LPost(s) # CNone => LPost(s)' # CNone
    BY DEF CommKeeps
  <2>4. moves' = 0 => moves = 0 /\ parent' = parent
    BY DEF CommKeeps
  <2>. QED BY <2>1, <2>2, <2>3, <2>4 DEF AccrueClaim, CNone
<1>. QED BY <1>1, <1>2 DEF CommInv, CommKeeps, RecordsTrue

\* Clawback goes on with the record it has.
LEMMA SameRecord ==
  ASSUME CommInv, CommKeeps, RecordsTrue, cPc[Clawer] \in {"reverse", "save"},
         NEW to \in {"list", "save"}, Comm!Goto(Clawer, to), UNCHANGED cLoc,
         to = "save" => LTaken(cLoc[Clawer].slot)' # CNone
  PROVE  CommInv'
<1>1. cPc'[Clawer] = to /\ cLoc'[Clawer] = cLoc[Clawer]
  BY DEF CommInv, Comm!Goto, CWorkers
<1>2. PICK r, s : r = cLoc[Clawer].rec /\ s = cLoc[Clawer].slot
  OBVIOUS
<1>3. s \in Comm!Slots /\ r.status = "posted" /\ TrueOf(r, s)
  BY <1>2 DEF CommInv, ClawClaim
<1>4. TrueOf(r, s)'
  BY <1>3, TrueKept
<1>5. to = "save" => LTaken(s)' # CNone
  BY <1>2
<1>6. ClawClaim'
  BY <1>1, <1>2, <1>3, <1>4, <1>5 DEF ClawClaim, CNone
<1>. QED BY <1>6, ClawStep

\* Nobody is anywhere new.
LEMMA NobodyMoves ==
  ASSUME CommInv, CommKeeps, UNCHANGED <<records, cPc, cLoc>>
  PROVE  CommInv'
<1>1. RecordsTrue
  BY QuietRecords
<1>2. ASSUME NEW v \in CCalls PROVE AccrueClaim(v)'
  <2>1. AccrueClaim(v)
    BY DEF CommInv
  <2>2. PICK s : s = cLoc[v].slot
    OBVIOUS
  <2>3. s \in Comm!Slots /\ LPost(s) # CNone => LPost(s)' # CNone
    BY DEF CommKeeps
  <2>4. moves' = 0 => moves = 0 /\ parent' = parent
    BY DEF CommKeeps
  <2>. QED BY <2>1, <2>2, <2>3, <2>4 DEF AccrueClaim, CNone
<1>3. ClawClaim'
  <2>1. ClawClaim
    BY DEF CommInv
  <2>2. PICK r, s : r = cLoc[Clawer].rec /\ s = cLoc[Clawer].slot
    OBVIOUS
  <2>3. s \in Comm!Slots => (TrueOf(r, s) => TrueOf(r, s)') /\ (LTaken(s) # CNone => LTaken(s)' # CNone)
    BY TrueKept DEF CommKeeps
  <2>. QED BY <2>1, <2>2, <2>3 DEF ClawClaim, CNone
<1>. QED BY <1>1, <1>2, <1>3 DEF CommInv, CommKeeps, RecordsTrue

LEMMA BeginAccrueStep ==
  ASSUME CommInv, NEW w \in CCalls, Comm!BeginAccrue(w)
  PROVE  CommInv'
<1> DEFINE f == [earners |-> Comm!Earners(CAgentOf[w]), slot |-> <<RefOf[w], 1>>, rec |-> Comm!NoRecord]
           to == IF Comm!Total(BaseOf[w], Comm!Earners(CAgentOf[w])) = 0 THEN "done" ELSE "fund"
<1>1. /\ cLoc' = [cLoc EXCEPT ![w] = f] /\ Comm!Goto(w, to)
      /\ UNCHANGED <<parent, moves, cTransfers, records>>
  BY DEF Comm!BeginAccrue, Comm!ledger
<1>2. f = [earners |-> f.earners, slot |-> <<RefOf[w], f.slot[2]>>, rec |-> f.rec]
      /\ f.earners = Comm!Earners(CAgentOf[w])
  OBVIOUS
<1>3. to \in {"done", "fund"}
  OBVIOUS
<1>. HIDE DEF f, to
<1>4. cPc'[w] = to /\ cLoc'[w] = f
  BY <1>1 DEF CommInv, CWorkers, Comm!Goto
<1>5. f.earners = EarnersAt(parent, CAgentOf[w])
  BY <1>2, EarnersRead
<1>6. CommKeeps
  BY <1>1, QuietLedger
<1>7. RecordsTrue
  BY <1>1, <1>6, QuietRecords
<1>8. parent' = parent
  BY <1>1
<1>9. AccrueClaim(w)'
  BY <1>2, <1>3, <1>4, <1>5, <1>8 DEF AccrueClaim
<1>. QED BY <1>1, <1>6, <1>7, <1>9, CommStep1 DEF RecordsTrue

LEMMA AccrualFundStep ==
  ASSUME CommInv, NEW w \in CCalls, Comm!Open(w) \/ Comm!Fund(w)
  PROVE  CommInv'
<1>1. CASE Comm!Open(w)
  <2>1. UNCHANGED <<parent, moves, cTransfers, records, cPc, cLoc>>
    BY <1>1 DEF Comm!Open, Comm!EnsureAccounts
  <2>. QED BY <2>1, QuietLedger, NobodyMoves
<1>2. CASE Comm!Fund(w)
  <2>1. /\ cPc[w] = "fund" /\ UNCHANGED <<parent, records, cLoc, moves>>
        /\ (\E x, d, c, amt : Comm!Core!Transfer(x, d, c, amt)) \/ UNCHANGED cTransfers
        /\ Comm!Goto(w, "lookup") \/ Comm!Goto(w, "done")
    BY <1>2 DEF Comm!Fund, Comm!Replays, Comm!ledger
  <2>2. CommKeeps
    BY <2>1, QuietLedger, DirectEffect
  <2>3. RecordsTrue
    BY <2>1, <2>2, QuietRecords
  <2>4. PICK to \in {"lookup", "done"} : Comm!Goto(w, to)
    BY <2>1
  <2>. QED BY <2>1, <2>2, <2>3, <2>4, SameLevel DEF AtWork
<1>. QED BY <1>1, <1>2

LEMMA LookupStep ==
  ASSUME CommInv, NEW w \in CCalls, Comm!Lookup(w)
  PROVE  CommInv'
<1>1. /\ cPc[w] = "lookup" /\ UNCHANGED <<parent, records, moves, cTransfers>>
      /\ \/ UNCHANGED cLoc /\ (Comm!Goto(w, "hold") \/ Comm!Goto(w, "done"))
         \/ Comm!Advance(w)
  BY DEF Comm!Lookup, Comm!ledger
<1>2. CommKeeps
  BY <1>1, QuietLedger
<1>3. RecordsTrue
  BY <1>1, <1>2, QuietRecords
<1>4. ASSUME UNCHANGED cLoc, NEW to \in {"hold", "done"}, Comm!Goto(w, to) PROVE CommInv'
  BY <1>1, <1>2, <1>3, <1>4, SameLevel DEF AtWork
<1>5. CASE Comm!Advance(w)
  BY <1>1, <1>2, <1>3, <1>5, NextLevel DEF AtWork
<1>. QED BY <1>1, <1>4, <1>5

\* A call at work knows its reference and, while no agent moves, whom it pays.
LEMMA CallKnows ==
  ASSUME CommInv, NEW w \in CCalls, cPc[w] \in AtWork
  PROVE  \E l, e :
           /\ l = Comm!Level(w) /\ cLoc[w].slot = <<RefOf[w], l>> /\ Comm!Seed(w) = <<"level", RefOf[w], l>>
           /\ e = Comm!Earner(w) /\ (moves = 0 => e = EarnersAt(parent, CAgentOf[w])[l])
           /\ cLoc[w].slot \in Comm!Slots =>
                LPost(cLoc[w].slot) = cTransfers[<<<<"level", RefOf[w], l>>, "post">>]
<1>1. AccrueClaim(w)
  BY DEF CommInv
<1>2. PICK f : f = cLoc[w]
  OBVIOUS
<1>3. f.slot = <<RefOf[w], f.slot[2]>> /\ (moves = 0 => f.earners = EarnersAt(parent, CAgentOf[w]))
  BY <1>1, <1>2 DEF AccrueClaim
<1>4. PICK l : l = f.slot[2]
  OBVIOUS
<1>5. f.slot[1] = RefOf[w]
  BY <1>3
<1>6. LPost(f.slot) = cTransfers[<<<<"level", RefOf[w], l>>, "post">>]
  BY <1>4, <1>5 DEF LPost
<1>7. l = Comm!Level(w) /\ Comm!Seed(w) = <<"level", RefOf[w], l>> /\ Comm!Earner(w) = f.earners[l]
  BY <1>2, <1>4 DEF Comm!Level, Comm!Seed, Comm!Earner
<1>. QED BY <1>2, <1>3, <1>4, <1>6, <1>7

LEMMA AccrualHoldStep ==
  ASSUME CommInv, NEW w \in CCalls, Comm!Hold(w)
  PROVE  CommInv'
<1>1. cPc[w] = "hold" /\ cPc[w] \in AtWork
  BY DEF Comm!Hold, AtWork
<1>2. PICK l, e :
        /\ l = Comm!Level(w) /\ cLoc[w].slot = <<RefOf[w], l>> /\ Comm!Seed(w) = <<"level", RefOf[w], l>>
        /\ e = Comm!Earner(w) /\ (moves = 0 => e = EarnersAt(parent, CAgentOf[w])[l])
        /\ cLoc[w].slot \in Comm!Slots =>
             LPost(cLoc[w].slot) = cTransfers[<<<<"level", RefOf[w], l>>, "post">>]
  BY <1>1, CallKnows
<1>3. PICK amt : amt = Comm!Amount(w)
  OBVIOUS
<1>4. UNCHANGED <<parent, records, cLoc, moves>>
  BY DEF Comm!Hold
<1>5. PICK to \in {"post", "done", "mark"} :
        /\ Comm!Goto(w, to)
        /\ Comm!Core!PendingTransfer(<<"level", RefOf[w], l>>, CPool, e, amt) \/ UNCHANGED cTransfers
        /\ to = "mark" => UNCHANGED cTransfers /\ Comm!Core!Exists(<<<<"level", RefOf[w], l>>, "post">>)
  BY <1>2, <1>3 DEF Comm!Hold, Comm!ledger
<1>6. CommKeeps
  BY <1>2, <1>4, <1>5, QuietLedger, LevelHoldEffect
<1>7. RecordsTrue
  BY <1>4, <1>6, QuietRecords
<1>8. ASSUME to = "mark", cLoc[w].slot \in Comm!Slots PROVE LPost(cLoc[w].slot)' # CNone
  <2>1. PICK s : s = cLoc[w].slot
    OBVIOUS
  <2>2. LPost(s) # CNone
    BY <1>2, <1>5, <1>8, <2>1 DEF Comm!Core!Exists, CNone
  <2>3. LPost(s)' # CNone
    BY <1>6, <1>8, <2>1, <2>2 DEF CommKeeps
  <2>. QED BY <1>4, <2>1, <2>3
<1>9. CNone' = CNone /\ cLoc' = cLoc
  BY <1>4 DEF CNone
<1>. QED BY <1>1, <1>4, <1>5, <1>6, <1>7, <1>8, <1>9, SameLevel

LEMMA AccrualPostStep ==
  ASSUME CommInv, NEW w \in CCalls, Comm!Post(w)
  PROVE  CommInv'
<1>1. cPc[w] = "post" /\ cPc[w] \in AtWork
  BY DEF Comm!Post, AtWork
<1>2. PICK l, e :
        /\ l = Comm!Level(w) /\ cLoc[w].slot = <<RefOf[w], l>> /\ Comm!Seed(w) = <<"level", RefOf[w], l>>
        /\ e = Comm!Earner(w) /\ (moves = 0 => e = EarnersAt(parent, CAgentOf[w])[l])
        /\ cLoc[w].slot \in Comm!Slots =>
             LPost(cLoc[w].slot) = cTransfers[<<<<"level", RefOf[w], l>>, "post">>]
  BY <1>1, CallKnows
<1>3. PICK amt : amt = Comm!Amount(w)
  OBVIOUS
<1>4. UNCHANGED <<parent, records, cLoc, moves>>
  BY DEF Comm!Post
<1>5. PICK to \in {"mark", "void"} :
        /\ Comm!Goto(w, to)
        /\ \/ Comm!Core!PostPendingAs(<<"level", RefOf[w], l>>, amt)
           \/ UNCHANGED cTransfers
              /\ (to = "mark" => cTransfers[<<<<"level", RefOf[w], l>>, "post">>] = Comm!Core!Record(CPool, e, amt, FALSE))
  BY <1>2, <1>3 DEF Comm!Post, Comm!ledger
<1>6. PICK s : s = cLoc[w].slot
  OBVIOUS
<1>7. CASE Comm!Core!PostPendingAs(<<"level", RefOf[w], l>>, amt)
  <2>1. PICK leg \in {"post", "void"} : leg = "post"
    OBVIOUS
  <2>2. PICK n : Comm!Core!Consume(<<"level", RefOf[w], l>>, leg, n)
                 /\ Comm!Core!IsPending(<<<<"level", RefOf[w], l>>, "hold">>)
    BY <1>7, <2>1 DEF Comm!Core!PostPendingAs
  <2>3. CommKeeps /\ (leg = "post" => \A t \in Comm!Slots : t = <<RefOf[w], l>> => LPost(t)' # CNone)
    BY <1>4, <2>2, LevelSpentEffect
  <2>4. s \in Comm!Slots => LPost(s)' # CNone
    BY <1>2, <1>6, <2>1, <2>3
  <2>. QED BY <1>1, <1>4, <1>5, <1>6, <2>3, <2>4, SameLevel, QuietRecords
<1>8. CASE UNCHANGED cTransfers /\ (to = "mark" => cTransfers[<<<<"level", RefOf[w], l>>, "post">>] = Comm!Core!Record(CPool, e, amt, FALSE))
  <2>1. CommKeeps
    BY <1>4, <1>8, QuietLedger
  <2>2. s \in Comm!Slots /\ to = "mark" => LPost(s) # CNone
    BY <1>2, <1>6, <1>8 DEF CNone, Comm!Core!NoTransfer, Comm!Core!Record
  <2>3. s \in Comm!Slots /\ to = "mark" => LPost(s)' # CNone
    BY <2>1, <2>2 DEF CommKeeps
  <2>. QED BY <1>1, <1>4, <1>5, <1>6, <2>1, <2>3, SameLevel, QuietRecords
<1>. QED BY <1>5, <1>7, <1>8

LEMMA AccrualVoidStep ==
  ASSUME CommInv, NEW w \in CCalls, Comm!VoidHold(w)
  PROVE  CommInv'
<1>1. /\ cPc[w] = "void" /\ cPc[w] \in AtWork /\ UNCHANGED <<parent, records, cLoc, moves>>
      /\ Comm!Goto(w, "delete")
  BY DEF Comm!VoidHold, AtWork
<1>2. Comm!Core!VoidPending(Comm!Seed(w)) \/ UNCHANGED cTransfers
  BY DEF Comm!VoidHold, Comm!ledger
<1>3. CASE Comm!Core!VoidPending(Comm!Seed(w))
  <2>1. PICK ref, l : Comm!Seed(w) = <<"level", ref, l>>
    BY DEF Comm!Seed
  <2>2. PICK leg \in {"post", "void"}, n \in {0} : leg = "void" /\ n = 0
    OBVIOUS
  <2>3. Comm!Core!Consume(<<"level", ref, l>>, leg, n)
        /\ Comm!Core!IsPending(<<<<"level", ref, l>>, "hold">>)
    BY <1>3, <2>1, <2>2 DEF Comm!Core!VoidPending
  <2>. QED BY <1>1, <2>3, LevelSpentEffect, QuietRecords, SameLevel
<1>4. CASE UNCHANGED cTransfers
  BY <1>1, <1>4, QuietLedger, QuietRecords, SameLevel
<1>. QED BY <1>2, <1>3, <1>4

LEMMA DeleteRecordStep ==
  ASSUME CommInv, NEW w \in CCalls, Comm!DeleteRecord(w)
  PROVE  CommInv'
<1>1. /\ cPc[w] = "delete" /\ cPc[w] \in AtWork /\ UNCHANGED <<parent, cTransfers, cLoc, moves>>
      /\ Comm!Goto(w, "done")
  BY DEF Comm!DeleteRecord, AtWork, Comm!ledger
<1>2. PICK t, r : UNCHANGED records \/ (records' = [records EXCEPT ![t] = r] /\ r = Comm!NoRecord)
  BY DEF Comm!DeleteRecord
<1>3. CommKeeps
  BY <1>1, QuietLedger
<1>4. RecordsTrue
  BY <1>2, <1>3, RecordsStep
<1>. QED BY <1>1, <1>3, <1>4, SameLevel

LEMMA MarkRecordStep ==
  ASSUME CommInv, NEW w \in CCalls, Comm!Mark(w)
  PROVE  CommInv'
<1>1. cPc[w] = "mark" /\ cPc[w] \in AtWork /\ UNCHANGED <<parent, cTransfers, moves>>
  BY DEF Comm!Mark, AtWork, Comm!ledger
<1>2. PICK l, e :
        /\ l = Comm!Level(w) /\ cLoc[w].slot = <<RefOf[w], l>> /\ Comm!Seed(w) = <<"level", RefOf[w], l>>
        /\ e = Comm!Earner(w) /\ (moves = 0 => e = EarnersAt(parent, CAgentOf[w])[l])
        /\ cLoc[w].slot \in Comm!Slots =>
             LPost(cLoc[w].slot) = cTransfers[<<<<"level", RefOf[w], l>>, "post">>]
  BY <1>1, CallKnows
<1>3. PICK s, r : s = cLoc[w].slot /\ r = Comm!Payload(w)
  OBVIOUS
<1>4. CommKeeps
  BY <1>1, QuietLedger
<1>5. CRecord(r) /\ r.status = "posted" /\ r.agent = e
  BY <1>2, <1>3 DEF Comm!Payload, CRecord
<1>6. ASSUME s \in Comm!Slots PROVE TrueOf(r, s)
  <2>1. LPost(s) # CNone
    BY <1>1, <1>3, <1>6 DEF CommInv, AccrueClaim
  <2>2. ASSUME moves = 0 PROVE LPost(s).credit = e
    <3>1. LevelDue(s)
      BY <1>6 DEF CommInv
    <3>2. s[1] = RefOf[w] /\ s[2] = l
      BY <1>2, <1>3
    <3>3. LPost(s).credit = DueTo(w, s)
      BY <2>1, <2>2, <3>1, <3>2 DEF LevelDue
    <3>. QED BY <1>2, <2>2, <3>2, <3>3 DEF DueTo
  <2>. QED BY <1>5, <2>1, <2>2 DEF TrueOf
<1>7. s \in Comm!Slots => TrueOf(r, s)'
  BY <1>4, <1>6, TrueKept
<1>8. \/ records' = [records EXCEPT ![s] = r] /\ Comm!Advance(w)
      \/ UNCHANGED <<records, cLoc>> /\ Comm!Goto(w, "done")
  BY <1>3 DEF Comm!Mark
<1>9. RecordsTrue
  BY <1>4, <1>7, <1>8, RecordsStep
<1>10. CASE Comm!Advance(w)
  BY <1>1, <1>4, <1>9, <1>10, NextLevel
<1>11. CASE UNCHANGED cLoc /\ Comm!Goto(w, "done")
  BY <1>1, <1>4, <1>9, <1>11, SameLevel
<1>. QED BY <1>8, <1>10, <1>11

LEMMA ListPostedStep ==
  ASSUME CommInv, NEW s \in Comm!Slots, Comm!ListPosted(s)
  PROVE  CommInv'
<1>1. PICK r : r = records[s]
  OBVIOUS
<1>2. PICK f : f = [Comm!NoFrame EXCEPT !.slot = s, !.rec = r]
  OBVIOUS
<1>3. /\ UNCHANGED <<parent, cTransfers, records, moves>> /\ Comm!Goto(Clawer, "reverse")
      /\ r # Comm!NoRecord /\ r.status = "posted" /\ cLoc' = [cLoc EXCEPT ![Clawer] = f]
  BY <1>1, <1>2 DEF Comm!ListPosted, Comm!ledger
<1>4. f.slot = s /\ f.rec = r
  BY <1>2 DEF Comm!NoFrame
<1>5. cPc'[Clawer] = "reverse" /\ cLoc'[Clawer] = f
  BY <1>3 DEF CommInv, CWorkers, Comm!Goto
<1>6. CommKeeps
  BY <1>3, QuietLedger
<1>7. RecordsTrue
  BY <1>3, <1>6, QuietRecords
<1>8. TrueOf(r, s)
  BY <1>1, <1>3 DEF CommInv
<1>9. TrueOf(r, s)'
  BY <1>6, <1>8, TrueKept
<1>10. ClawClaim'
  BY <1>3, <1>4, <1>5, <1>9 DEF ClawClaim
<1>. QED BY <1>3, <1>6, <1>7, <1>10, ClawStep

LEMMA ReverseStep ==
  ASSUME CommInv, Comm!Reverse
  PROVE  CommInv'
<1>1. PICK s, x : s = cLoc[Clawer].slot /\ x = <<"claw", s[1], s[2]>>
  OBVIOUS
<1>2. cPc[Clawer] = "reverse" /\ UNCHANGED <<parent, records, cLoc, moves>>
  BY DEF Comm!Reverse
<1>3. s \in Comm!Slots
  BY <1>1, <1>2 DEF CommInv, ClawClaim
<1>4. PICK to \in {"save", "list"}, d \in {cLoc[Clawer].rec.agent}, c \in {CPool},
           amt \in {Comm!AmountAt(cLoc[Clawer].rec.base, s[2])} :
        /\ Comm!Goto(Clawer, to)
        /\ \/ Comm!Core!Transfer(x, d, c, amt)
           \/ UNCHANGED cTransfers /\ (to = "save" => Comm!Core!Exists(<<x, "direct">>))
  BY <1>1 DEF Comm!Reverse, Comm!ledger
<1>5. CASE Comm!Core!Transfer(x, d, c, amt)
  <2>1. CommKeeps /\ (\A t \in Comm!Slots : x = <<"claw", t[1], t[2]>> => LTaken(t)' # CNone)
    BY <1>2, <1>5, DirectEffect
  <2>2. RecordsTrue
    BY <1>2, <2>1, QuietRecords
  <2>3. LTaken(s)' # CNone
    BY <1>1, <1>3, <2>1
  <2>. QED BY <1>1, <1>2, <1>4, <2>1, <2>2, <2>3, SameRecord
<1>6. CASE UNCHANGED cTransfers /\ (to = "save" => Comm!Core!Exists(<<x, "direct">>))
  <2>1. CommKeeps
    BY <1>2, <1>6, QuietLedger
  <2>2. RecordsTrue
    BY <1>2, <2>1, QuietRecords
  <2>3. to = "save" => LTaken(s) # CNone
    BY <1>1, <1>6 DEF LTaken, Comm!Core!Exists, CNone
  <2>4. to = "save" => LTaken(s)' # CNone
    BY <1>3, <2>1, <2>3 DEF CommKeeps
  <2>. QED BY <1>1, <1>2, <1>4, <2>1, <2>2, <2>4, SameRecord
<1>. QED BY <1>4, <1>5, <1>6

LEMMA SaveClawedBackStep ==
  ASSUME CommInv, Comm!SaveClawedBack
  PROVE  CommInv'
<1>1. PICK s, r : s = cLoc[Clawer].slot /\ r = cLoc[Clawer].rec
  OBVIOUS
<1>2. PICK q : q = [r EXCEPT !.status = "clawed_back"]
  OBVIOUS
<1>3. /\ cPc[Clawer] = "save" /\ UNCHANGED <<parent, cTransfers, cLoc, moves>>
      /\ Comm!Goto(Clawer, "list")
      /\ UNCHANGED records \/ records' = [records EXCEPT ![s] = q]
  BY <1>1, <1>2 DEF Comm!SaveClawedBack, Comm!ledger
<1>4. s \in Comm!Slots /\ TrueOf(r, s) /\ LTaken(s) # CNone
  BY <1>1, <1>3 DEF CommInv, ClawClaim
<1>5. CRecord(q) /\ q.agent = r.agent
  BY <1>2, <1>4 DEF TrueOf, CRecord
<1>6. TrueOf(q, s)
  BY <1>4, <1>5 DEF TrueOf
<1>7. CommKeeps
  BY <1>3, QuietLedger
<1>8. TrueOf(q, s)'
  BY <1>4, <1>6, <1>7, TrueKept
<1>9. RecordsTrue
  BY <1>3, <1>7, <1>8, RecordsStep
<1>10. PICK to \in {"list", "save"} : to = "list"
  OBVIOUS
<1>. QED BY <1>3, <1>7, <1>9, <1>10, SameRecord

\* An agent is re-attached: whom the ledger pays is no longer claimed.
LEMMA MoveStep ==
  ASSUME CommInv, Comm!Move, UNCHANGED <<cTransfers, records, cPc, cLoc>>
  PROVE  CommInv'
<1>1. moves' \in Nat /\ moves' # 0
  BY DEF Comm!Move, CommInv
<1>2. ASSUME NEW s \in Comm!Slots
      PROVE  /\ LPost(s)' = LPost(s) /\ LTaken(s)' = LTaken(s)
             /\ LevelDue(s)'
  <2>1. LPost(s)' = LPost(s) /\ LTaken(s)' = LTaken(s) /\ LHold(s)' = LHold(s)
    BY DEF LPost, LTaken, LHold
  <2>2. LevelDue(s)
    BY DEF CommInv
  <2>. QED BY <1>1, <2>1, <2>2 DEF LevelDue, CNone
<1>3. CommKeeps
  BY <1>1, <1>2 DEF CommKeeps
<1>. QED BY <1>3, NobodyMoves

LEMMA CommCrashStep ==
  ASSUME CommInv, Comm!Crash
  PROVE  CommInv'
<1>1. /\ cPc' = [w \in CWorkers |-> IF cPc[w] = "start" THEN "start" ELSE Comm!Rest(w)]
      /\ UNCHANGED <<parent, cTransfers, records, cLoc, moves>>
  BY DEF Comm!Crash, Comm!ledger, Comm!Workers, CWorkers
<1>2. CommKeeps
  BY <1>1, QuietLedger
<1>3. RecordsTrue
  BY <1>1, <1>2, QuietRecords
<1>4. ASSUME NEW w \in CCalls PROVE AccrueClaim(w)'
  <2>1. cPc'[w] \in {"start", "done"}
    BY <1>1, ChannelsAssumption DEF CWorkers, Comm!Rest
  <2>. QED BY <2>1 DEF AccrueClaim, AtWork
<1>5. ClawClaim'
  <2>1. cPc'[Clawer] = "list"
    BY <1>1 DEF CWorkers, Comm!Rest, CommInv, ClawClaim
  <2>. QED BY <2>1 DEF ClawClaim
<1>. QED BY <1>1, <1>2, <1>3, <1>4, <1>5 DEF CommInv, CommKeeps, RecordsTrue

LEMMA NextCommInv == CommInv /\ Comm!Next => CommInv'
<1> SUFFICES ASSUME CommInv, Comm!Next PROVE CommInv'
  OBVIOUS
<1>1. ASSUME NEW a \in CAgents, NEW p \in CAgents \cup {CRoot}, Comm!Reattach(a, p) PROVE CommInv'
  BY <1>1, MoveStep DEF Comm!Reattach, Comm!ledger
<1>2. ASSUME NEW s \in Comm!Slots, Comm!Expire(s) PROVE CommInv'
  BY <1>2, MoveStep DEF Comm!Expire, Comm!ledger
<1>. QED BY <1>1, <1>2, BeginAccrueStep, AccrualFundStep, LookupStep, AccrualHoldStep, AccrualPostStep,
            AccrualVoidStep, DeleteRecordStep, MarkRecordStep, ListPostedStep, ReverseStep,
            SaveClawedBackStep, CommCrashStep DEF Comm!Next

LEMMA InitCommInv == Comm!Init => CommInv
<1> SUFFICES ASSUME Comm!Init PROVE CommInv
  OBVIOUS
<1>1. /\ DOMAIN cTransfers = Comm!Core!TransferIds /\ DOMAIN cPc = CWorkers /\ DOMAIN cLoc = CWorkers
      /\ DOMAIN records = Comm!Slots /\ moves \in Nat
  BY DEF Comm!Init, CWorkers, Comm!Workers
<1>2. ASSUME NEW s \in Comm!Slots PROVE LHold(s) = CNone /\ LPost(s) = CNone
  <2>1. s[1] \in Refs /\ s[2] \in Comm!Levels
    BY DEF Comm!Slots
  <2>2. <<"level", s[1], s[2]>> \in Comm!Seeds
    BY <2>1 DEF Comm!Seeds
  <2>. QED BY <2>2 DEF Comm!Init, LHold, LPost, CNone, Comm!Core!TransferIds, Comm!Core!Legs
<1>3. \A s \in Comm!Slots : LevelDue(s)
  BY <1>2 DEF LevelDue
<1>4. \A s \in Comm!Slots : records[s] = Comm!NoRecord
  BY DEF Comm!Init
<1>5. ASSUME NEW w \in CCalls PROVE AccrueClaim(w)
  <2>1. cPc[w] = "start"
    BY ChannelsAssumption DEF Comm!Init, Comm!Workers
  <2>. QED BY <2>1 DEF AccrueClaim, AtWork
<1>6. ClawClaim
  <2>1. cPc[Clawer] = "list"
    BY DEF Comm!Init, Comm!Workers
  <2>. QED BY <2>1 DEF ClawClaim
<1>. QED BY <1>1, <1>3, <1>4, <1>5, <1>6 DEF CommInv

\* A commission record is of money that moved: accrueOne writes it only after
\* the post of its level, Clawback marks it clawed back only after the reversal
\* is in the ledger, and while no agent is re-attached and no record expires it
\* names the agent that was credited, whatever calls of Accrue and Clawback
\* overlap, fail, crash and are repeated.
THEOREM RecordsBacked == Spec => []RecordBacked
<1> DEFINE Inv == focus = "commission" => CommInv
<1>1. Init => Inv
  BY InitCommInv DEF Init
<1>2. Inv /\ [Next]_vars => Inv'
  <2> SUFFICES ASSUME Inv, [Next]_vars PROVE Inv'
    OBVIOUS
  <2>1. CASE UNCHANGED <<focus, cVars>>
    <3>1. UNCHANGED <<parent, moves, cTransfers, records, cPc, cLoc>>
      BY <2>1 DEF cVars
    <3>2. CommInv => CommInv'
      BY <3>1, QuietLedger, NobodyMoves
    <3>. QED BY <2>1, <3>2
  <2>2. CASE CommStep
    BY <2>2, NextCommInv DEF CommStep
  <2>. QED BY <2>1, <2>2 DEF Next, vars, HierStep, USSDStep, SettlementStep, FloatStep
<1>3. Inv => RecordBacked
  <2> SUFFICES ASSUME CommInv, NEW s \in Comm!Slots, records[s] # Comm!NoRecord
               PROVE  /\ Comm!Paid(s) # Comm!Core!NoTransfer
                      /\ records[s].status = "clawed_back" => Comm!Taken(s) # Comm!Core!NoTransfer
                      /\ moves = 0 => Comm!Paid(s).credit = records[s].agent
    BY DEF RecordBacked, Comm!RecordBacked
  <2>1. TrueOf(records[s], s)
    BY DEF CommInv
  <2>2. Comm!Paid(s) = LPost(s) /\ Comm!Taken(s) = LTaken(s)
    BY DEF Comm!Paid, Comm!Taken, LPost, LTaken
  <2>. QED BY <2>1, <2>2 DEF TrueOf, CNone
<1>. QED BY <1>1, <1>2, <1>3, PTL DEF Spec

-----------------------------------------------------------------------------
(* The commissions pool.  Calls that agree on the settled amount differ    *)
(* in the number of earners they found alone, so what the largest of them  *)
(* that funded the pool moved into it covers every level any of them       *)
(* draws, and every level one of them that is past the funding will draw   *)
(* (Covers).  The sum over the levels then says that no reference is paid  *)
(* more than was funded for it.                                            *)

\* What is paid at every level, and funded for m earners, when b was settled.
LevelsOf(b) == [n \in Comm!Levels |-> Comm!AmountAt(b, n)]
TotalTo(b, m) == SumOver(LevelsOf(b), 1..m)

LEMMA LevelAmounts ==
  ASSUME NEW base \in Nat, NEW n \in Comm!Levels
  PROVE  LevelsOf(base)[n] = Comm!AmountAt(base, n) /\ LevelsOf(base)[n] \in Nat
<1>1. RateOf[n] \in Nat
  BY CommissionAssumption DEF Comm!Levels
<1>2. PICK p : p = base * RateOf[n]
  OBVIOUS
<1>3. p \in Nat
  BY <1>1, <1>2
<1>4. p \div 10000 \in Nat
  BY <1>3
<1>. QED BY <1>2, <1>4 DEF Comm!AmountAt, Comm!ComputeKobo, LevelsOf

\* The recursion of a sum has one solution.
LEMMA SumOfSolution ==
  ASSUME NEW S, IsFiniteSet(S), NEW v, \A n \in S : v[n] \in Int, NEW f, IsSum(f, v, S)
  PROVE  f[S] = SumOver(v, S) /\ SumOver(v, S) \in Int
<1>1. PICK g : IsSum(g, v, S) /\ SumOver(v, S) = g[S]
  BY SumSolution
<1>2. PICK R, U, q : R = S /\ U = S /\ q = v
  OBVIOUS
<1>3. IsFiniteSet(U) /\ U \subseteq S /\ U \subseteq R
  BY <1>2
<1>4. \A n \in U : v[n] \in Int /\ v[n] = q[n]
  BY <1>2
<1>5. IsSum(f, v, S) /\ IsSum(g, q, R)
  BY <1>1, <1>2, Zenon
<1>6. f[U] = g[U] /\ f[U] \in Int
  BY <1>3, <1>4, <1>5, SumsAgree
<1>. QED BY <1>1, <1>2, <1>6, Zenon

\* Total is the sum of the levels there are earners for.
LEMMA TotalIs ==
  ASSUME NEW b \in Nat, NEW m \in 0..MaxLevel, NEW earners, DOMAIN earners = 1..m
  PROVE  Comm!Total(b, earners) = SumOver(LevelsOf(b), (1..m)) /\ SumOver(LevelsOf(b), (1..m)) \in Int
<1> DEFINE v == LevelsOf(b)
           S == (1..m)
           IsTotal(f) == f = [s \in SUBSET S |->
              IF s = {} THEN 0
              ELSE Comm!AmountAt(b, CHOOSE x \in s : TRUE) + f[s \ {CHOOSE x \in s : TRUE}]]
<1>1. MaxLevel \in Nat
  BY ChannelsAssumption
<1>2. S \subseteq Comm!Levels /\ IsFiniteSet(S)
  BY <1>1, FS_Interval DEF Comm!Levels
<1>3. \A n \in S : v[n] \in Int /\ v[n] = Comm!AmountAt(b, n)
  BY <1>2, LevelAmounts
<1>4. Comm!Total(b, earners) = (CHOOSE f : IsTotal(f))[S]
  <2>1. Comm!Total(b, earners) =
         (CHOOSE f : f = [s \in SUBSET (DOMAIN earners) |->
              IF s = {} THEN 0
              ELSE Comm!AmountAt(b, CHOOSE x \in s : TRUE) + f[s \ {CHOOSE x \in s : TRUE}]])[(DOMAIN earners)]
    BY Zenon DEF Comm!Total, Comm!MapThenSumSet, Comm!MapThenFoldSet
  <2>. QED BY <2>1, Zenon
<1>5. ASSUME NEW f
      PROVE  [s \in SUBSET S |-> Unfolded(f, v, s)] =
             [s \in SUBSET S |->
              IF s = {} THEN 0
              ELSE Comm!AmountAt(b, CHOOSE x \in s : TRUE) + f[s \ {CHOOSE x \in s : TRUE}]]
  <2>1. ASSUME NEW s \in SUBSET S
        PROVE  Unfolded(f, v, s) =
               IF s = {} THEN 0
               ELSE Comm!AmountAt(b, CHOOSE x \in s : TRUE) + f[s \ {CHOOSE x \in s : TRUE}]
    <3>1. CASE s = {}
      BY <3>1 DEF Unfolded
    <3>2. CASE s # {}
      <4>1. PICK p : p = (CHOOSE x \in s : TRUE) /\ p = Pick(s)
        BY DEF Pick
      <4>2. p \in S
        BY <3>2, <4>1, PickIn
      <4>3. v[p] = Comm!AmountAt(b, p)
        BY <1>3, <4>2
      <4>4. Unfolded(f, v, s) = v[p] + f[s \ {p}]
        BY <3>2, <4>1, Zenon DEF Unfolded
      <4>. QED BY <3>2, <4>1, <4>3, <4>4, Zenon
    <3>. QED BY <3>1, <3>2
  <2>. HIDE DEF v, S
  <2>. QED BY <2>1, Zenon
<1>6. \A f : IsTotal(f) <=> IsSum(f, v, S)
  BY <1>5, Zenon DEF IsSum
<1> HIDE DEF v, S, IsTotal
<1>7. PICK g : IsSum(g, v, S)
  BY <1>2, <1>3, SumSolution
<1>8. IsTotal(CHOOSE h : IsTotal(h))
  BY <1>6, <1>7, Zenon
<1>9. PICK f : f = (CHOOSE h : IsTotal(h)) /\ IsSum(f, v, S)
  BY <1>6, <1>8, Zenon
<1>10. f[S] = SumOver(v, S) /\ SumOver(v, S) \in Int
  BY <1>2, <1>3, <1>9, SumOfSolution
<1>11. Comm!Total(b, earners) = f[S]
  BY <1>4, <1>9, Zenon
<1>. QED BY <1>10, <1>11, Zenon DEF v, S

\* A total is an amount.
LEMMA TotalFits ==
  ASSUME NEW w \in CCalls, NEW m \in Comm!Levels
  PROVE  TotalTo(BaseOf[w], m) \in 0..CMaxAmount
<1>1. MaxLevel \in Nat /\ m \in 1..MaxLevel /\ m \in 0..MaxLevel /\ BaseOf[w] \in Nat
  BY ChannelsAssumption, CommissionAssumption DEF Comm!Levels
<1>2. PICK e, b : e = [n \in 1..m |-> CRoot] /\ b = BaseOf[w]
  OBVIOUS
<1>3. Total(w, m) = TotalTo(b, m) /\ TotalTo(b, m) \in Int
  <2>1. Comm!Total(b, e) = TotalTo(b, m) /\ TotalTo(b, m) \in Int
    BY <1>1, <1>2, TotalIs DEF TotalTo
  <2>. QED BY <1>2, <2>1, Zenon DEF Total
<1>4. Total(w, m) <= CMaxAmount
  BY <1>1, CommissionAssumption
<1>5. 0 <= TotalTo(b, m)
  <2>1. PICK z, S : z = [n \in 1..m |-> 0] /\ S = 1..m
    OBVIOUS
  <2>2. \A n \in S : z[n] \in Int /\ LevelsOf(b)[n] \in Int /\ z[n] <= LevelsOf(b)[n]
    BY <1>1, <1>2, <2>1, LevelAmounts DEF Comm!Levels
  <2>3. IsFiniteSet(S)
    BY <1>1, <2>1, FS_Interval
  <2>4. SumOver(z, S) <= SumOver(LevelsOf(b), S)
    BY <2>2, <2>3, SumLeq
  <2>5. SumOver(z, S) = 0
    <3>1. \A x \in S : z[x] \in Int /\ z[x] = 0
      BY <2>1
    <3>. QED BY <2>3, <3>1, SumOfZeros
  <2>6. PICK p, q : p = SumOver(z, S) /\ q = SumOver(LevelsOf(b), S)
    OBVIOUS
  <2>7. p = 0 /\ p <= q
    BY <2>4, <2>5, <2>6, Zenon
  <2>8. TotalTo(b, m) = q
    BY <2>1, <2>6, Zenon DEF TotalTo
  <2>. QED BY <2>7, <2>8
<1>6. CMaxAmount \in Nat
  BY CommissionAssumption
<1>7. TotalTo(b, m) \in 0..CMaxAmount
  BY <1>3, <1>4, <1>5, <1>6
<1>. QED BY <1>2, <1>7

-----------------------------------------------------------------------------
\* The transfer that funded the pool for a total, and what a level has drawn.
FundId(r, t) == cTransfers[<<<<"fund", r, t>>, "direct">>]
Drawn(s) ==
  IF LHold(s) # CNone /\ LHold(s).pending THEN LHold(s).amount
  ELSE IF LPost(s) # CNone THEN LPost(s).amount ELSE 0

\* The amounts of the transfers are what they look like.
PoolEntries ==
  /\ \A s \in Comm!Slots :
       /\ LHold(s) # CNone => LHold(s).amount \in Nat
       /\ LPost(s) # CNone => LPost(s).amount \in Nat
  /\ \A r \in Refs, t \in 0..CMaxAmount : FundId(r, t) # CNone => FundId(r, t).amount = t

Begun(w) == cPc[w] # "start"
Pays(w) == cPc[w] \in AtWork \ {"fund"}

\* The calls made for r name the amount b.  A funding for M earners covers what
\* the levels have drawn and what the calls that are past it will draw.
Covers(r, M, b) ==
  /\ \A w \in CCalls : RefOf[w] = r /\ Begun(w) => BaseOf[w] = b
  /\ \A w \in CCalls : RefOf[w] = r /\ Pays(w) => Len(cLoc[w].earners) <= M
  /\ M # 0 => /\ \E w \in CCalls : RefOf[w] = r /\ Begun(w)
              /\ FundId(r, TotalTo(b, M)) # CNone
  /\ \A n \in Comm!Levels : Drawn(<<r, n>>) # 0 => n <= M /\ Drawn(<<r, n>>) <= LevelsOf(b)[n]

RefCovered(r) == Comm!Agreed(r) => \E M \in 0..MaxLevel, b \in Nat : Covers(r, M, b)

\* A call at work pays the levels it has earners for.
CallOK(w) ==
  cPc[w] \in AtWork =>
    \E m \in Comm!Levels, l \in Comm!Levels :
      /\ l <= m /\ DOMAIN cLoc[w].earners = 1..m /\ Len(cLoc[w].earners) = m
      /\ cLoc[w].slot = <<RefOf[w], l>>

PoolInv ==
  /\ PoolEntries
  /\ \A w \in CCalls : CallOK(w)
  /\ \A r \in Refs : RefCovered(r)

LEMMA SlotOf ==
  ASSUME NEW r \in Refs, NEW n \in Comm!Levels
  PROVE  <<r, n>> \in Comm!Slots
BY DEF Comm!Slots

LEMMA FundIds ==
  ASSUME CommInv, NEW r \in Refs, NEW t \in 0..CMaxAmount
  PROVE  <<<<"fund", r, t>>, "direct">> \in DOMAIN cTransfers
<1>1. <<"fund", r, t>> \in Comm!Seeds
  BY DEF Comm!Seeds
<1>. QED BY <1>1 DEF CommInv, Comm!Core!TransferIds, Comm!Core!Legs

\* A level draws a natural.
LEMMA DrawnNat ==
  ASSUME PoolEntries, NEW s \in Comm!Slots
  PROVE  Drawn(s) \in Nat
BY DEF PoolEntries, Drawn

\* What a step does to the transfers: those that funded the pool stay, and
\* unless a hold is made no level draws more.
FundsKept ==
  /\ PoolEntries'
  /\ \A r \in Refs, t \in 0..CMaxAmount : FundId(r, t) # CNone => FundId(r, t)' # CNone
LessDrawn(r) == \A n \in Comm!Levels : Drawn(<<r, n>>)' <= Drawn(<<r, n>>)
PoolKept == FundsKept /\ \A r \in Refs : LessDrawn(r)

\* The funding a reference is covered by stays.
LEMMA FundingStays ==
  ASSUME FundsKept, NEW r \in Refs, NEW M \in 0..MaxLevel, NEW b \in Nat, Covers(r, M, b), M # 0
  PROVE  FundId(r, TotalTo(b, M))' # CNone
<1>1. PICK w \in CCalls : RefOf[w] = r /\ Begun(w)
  BY DEF Covers
<1>2. BaseOf[w] = b /\ M \in Comm!Levels
  BY <1>1 DEF Covers, Comm!Levels
<1>3. TotalTo(b, M) \in 0..CMaxAmount
  BY <1>2, TotalFits
<1>4. FundId(r, TotalTo(b, M)) # CNone
  BY DEF Covers
<1>. QED BY <1>3, <1>4 DEF FundsKept

\* A level that draws after the step drew before it, as much at least.
LEMMA StillDrawn ==
  ASSUME PoolEntries, PoolEntries', NEW r \in Refs, NEW n \in Comm!Levels,
         Drawn(<<r, n>>)' <= Drawn(<<r, n>>), Drawn(<<r, n>>)' # 0, NEW M, NEW b \in Nat, Covers(r, M, b)
  PROVE  n <= M /\ Drawn(<<r, n>>)' <= LevelsOf(b)[n]
<1>1. Drawn(<<r, n>>) \in Nat
  BY SlotOf, DrawnNat
<1>2. Drawn(<<r, n>>)' \in Nat
  BY SlotOf DEF PoolEntries, Drawn, CNone
<1>3. Drawn(<<r, n>>) # 0
  BY <1>1, <1>2
<1>4. n <= M /\ Drawn(<<r, n>>) <= LevelsOf(b)[n]
  BY <1>3 DEF Covers
<1>5. LevelsOf(b)[n] \in Nat
  BY LevelAmounts
<1>6. PICK x, y, z : x = Drawn(<<r, n>>)' /\ y = Drawn(<<r, n>>) /\ z = LevelsOf(b)[n]
  OBVIOUS
<1>7. x \in Nat /\ y \in Nat /\ z \in Nat /\ x <= y /\ y <= z
  BY <1>1, <1>2, <1>4, <1>5, <1>6
<1>8. x <= z
  BY <1>7
<1>. QED BY <1>4, <1>6, <1>8

\* Calls that agree after a step agreed before it.
LEMMA AgreedBefore ==
  ASSUME NEW r, Comm!Agreed(r)', \A w \in CCalls : RefOf[w] = r /\ Begun(w) => Begun(w)'
  PROVE  Comm!Agreed(r)
BY DEF Comm!Agreed, Begun

\* Nothing happens for the reference but that a level may draw less.
LEMMA RefRests ==
  ASSUME PoolInv, FundsKept, NEW r \in Refs, LessDrawn(r),
         \A w \in CCalls : RefOf[w] = r =>
            /\ Begun(w)' <=> Begun(w)
            /\ Pays(w)' => Pays(w) /\ cLoc'[w].earners = cLoc[w].earners
  PROVE  RefCovered(r)'
<1> SUFFICES ASSUME Comm!Agreed(r)' PROVE \E M \in 0..MaxLevel, b \in Nat : Covers(r, M, b)'
  BY DEF RefCovered
<1>1. Comm!Agreed(r)
  BY AgreedBefore
<1>2. PICK M \in 0..MaxLevel, b \in Nat : Covers(r, M, b)
  BY <1>1 DEF PoolInv, RefCovered
<1>3. \A w \in CCalls : RefOf[w] = r /\ Begun(w)' => BaseOf[w] = b
  BY <1>2 DEF Covers
<1>4. \A w \in CCalls : RefOf[w] = r /\ Pays(w)' => Len(cLoc'[w].earners) <= M
  BY <1>2 DEF Covers
<1>5. M # 0 => \E w \in CCalls : RefOf[w] = r /\ Begun(w)'
  BY <1>2 DEF Covers
<1>6. M # 0 => FundId(r, TotalTo(b, M))' # CNone
  BY <1>2, FundingStays
<1>7. \A n \in Comm!Levels : Drawn(<<r, n>>)' # 0 => n <= M /\ Drawn(<<r, n>>)' <= LevelsOf(b)[n]
  BY <1>2, StillDrawn DEF PoolInv, FundsKept, LessDrawn
<1>8. Covers(r, M, b)'
  BY <1>3, <1>4, <1>5, <1>6, <1>7 DEF Covers, CNone, LevelsOf
<1>. QED BY <1>8

\* A call begins.
LEMMA RefBegins ==
  ASSUME PoolInv, PoolKept, NEW w \in CCalls, NEW r \in Refs, RefOf[w] = r, Begun(w)', ~Pays(w)',
         \A v \in CCalls \ {w} : (Begun(v)' <=> Begun(v)) /\ (Pays(v)' <=> Pays(v)) /\ cLoc'[v] = cLoc[v]
  PROVE  RefCovered(r)'
<1> SUFFICES ASSUME Comm!Agreed(r)' PROVE \E M \in 0..MaxLevel, b \in Nat : Covers(r, M, b)'
  BY DEF RefCovered
<1>1. Comm!Agreed(r)
  BY AgreedBefore
<1>2. PICK M \in 0..MaxLevel, a \in Nat : Covers(r, M, a)
  BY <1>1 DEF PoolInv, RefCovered
<1>3. PICK b : b = BaseOf[w] /\ b \in Nat
  BY CommissionAssumption
<1>4. M # 0 => a = b
  <2> SUFFICES ASSUME M # 0 PROVE a = b
    OBVIOUS
  <2>1. PICK v \in CCalls : RefOf[v] = r /\ Begun(v)
    BY <1>2 DEF Covers
  <2>2. BaseOf[v] = a /\ Begun(v)'
    BY <1>2, <2>1 DEF Covers
  <2>. QED BY <1>3, <2>1, <2>2 DEF Comm!Agreed, Begun
<1>5. \A v \in CCalls : RefOf[v] = r /\ Begun(v)' => BaseOf[v] = b
  BY <1>3 DEF Comm!Agreed, Begun
<1>6. \A v \in CCalls : RefOf[v] = r /\ Pays(v)' => Len(cLoc'[v].earners) <= M
  BY <1>2 DEF Covers
<1>7. M # 0 => FundId(r, TotalTo(b, M))' # CNone
  BY <1>2, <1>4, FundingStays DEF PoolKept
<1>8. ASSUME NEW n \in Comm!Levels, Drawn(<<r, n>>)' # 0 PROVE n <= M /\ Drawn(<<r, n>>)' <= LevelsOf(b)[n]
  <2>1. n <= M /\ Drawn(<<r, n>>)' <= LevelsOf(a)[n]
    BY <1>2, <1>8, StillDrawn DEF PoolInv, PoolKept, FundsKept, LessDrawn
  <2>2. a = b
    BY <1>4, <2>1, ChannelsAssumption DEF Comm!Levels
  <2>. QED BY <2>1, <2>2
<1>9. Covers(r, M, b)'
  BY <1>5, <1>6, <1>7, <1>8 DEF Covers, CNone, LevelsOf
<1>. QED BY <1>3, <1>9

\* A call has funded the pool for its earners.
LEMMA RefFunds ==
  ASSUME PoolInv, PoolKept, NEW w \in CCalls, NEW r \in Refs, RefOf[w] = r, Begun(w), Begun(w)',
         NEW m \in Comm!Levels, Len(cLoc'[w].earners) = m, FundId(r, TotalTo(BaseOf[w], m))' # CNone,
         \A v \in CCalls \ {w} : (Begun(v)' <=> Begun(v)) /\ (Pays(v)' <=> Pays(v)) /\ cLoc'[v] = cLoc[v]
  PROVE  RefCovered(r)'
<1> SUFFICES ASSUME Comm!Agreed(r)' PROVE \E M \in 0..MaxLevel, b \in Nat : Covers(r, M, b)'
  BY DEF RefCovered
<1>1. Comm!Agreed(r)
  BY AgreedBefore
<1>2. PICK M \in 0..MaxLevel, b \in Nat : Covers(r, M, b)
  BY <1>1 DEF PoolInv, RefCovered
<1>3. BaseOf[w] = b
  BY <1>2 DEF Covers
<1>4. MaxLevel \in Nat /\ m \in 1..MaxLevel
  BY ChannelsAssumption DEF Comm!Levels
<1>5. PICK N \in 0..MaxLevel : N >= M /\ N >= m /\ (N = M \/ N = m)
  <2>1. CASE M >= m
    BY <1>4, <2>1
  <2>2. CASE m >= M
    BY <1>4, <2>2
  <2>. QED BY <1>4, <2>1, <2>2
<1>6. FundId(r, TotalTo(b, N))' # CNone
  <2>1. CASE N = m
    BY <1>3, <2>1
  <2>2. CASE N = M
    <3>1. M # 0
      BY <1>4, <1>5, <2>2
    <3>2. FundId(r, TotalTo(b, M))' # CNone
      BY <1>2, <3>1, FundingStays DEF PoolKept
    <3>. QED BY <2>2, <3>2
  <2>. QED BY <1>5, <2>1, <2>2
<1>7. \A v \in CCalls : RefOf[v] = r /\ Begun(v)' => BaseOf[v] = b
  BY <1>2, <1>3 DEF Covers
<1>8. ASSUME NEW v \in CCalls, RefOf[v] = r, Pays(v)' PROVE Len(cLoc'[v].earners) <= N
  <2>1. CASE v = w
    BY <1>4, <1>5, <2>1
  <2>2. CASE v # w
    <3>1. PICK i : i = Len(cLoc[v].earners) /\ i <= M
      BY <1>2, <1>8, <2>2 DEF Covers
    <3>2. cLoc'[v] = cLoc[v]
      BY <2>2
    <3>3. i \in Nat
      <4>1. CallOK(v) /\ cPc[v] \in AtWork
        BY <1>8, <2>2 DEF PoolInv, Pays
      <4>. QED BY <3>1, <4>1 DEF CallOK, Comm!Levels
    <3>4. i <= N
      BY <1>4, <1>5, <3>1, <3>3
    <3>. QED BY <3>1, <3>2, <3>4
  <2>. QED BY <2>1, <2>2
<1>9. ASSUME NEW n \in Comm!Levels, Drawn(<<r, n>>)' # 0 PROVE n <= N /\ Drawn(<<r, n>>)' <= LevelsOf(b)[n]
  <2>1. n <= M /\ Drawn(<<r, n>>)' <= LevelsOf(b)[n]
    BY <1>2, <1>9, StillDrawn DEF PoolInv, PoolKept, FundsKept, LessDrawn
  <2>2. n \in Nat
    BY DEF Comm!Levels
  <2>3. n <= N
    BY <1>4, <1>5, <2>1, <2>2
  <2>. QED BY <2>1, <2>3
<1>10. Covers(r, N, b)'
  BY <1>6, <1>7, <1>8, <1>9 DEF Covers, CNone, LevelsOf
<1>. QED BY <1>10

\* A call that is past the funding holds a level.
LEMMA RefHolds ==
  ASSUME PoolInv, FundsKept, NEW w \in CCalls, NEW r \in Refs, RefOf[w] = r, Pays(w), Begun(w)',
         NEW l \in Comm!Levels, l <= Len(cLoc[w].earners), Drawn(<<r, l>>)' = LevelsOf(BaseOf[w])[l],
         \A n \in Comm!Levels \ {l} : Drawn(<<r, n>>)' <= Drawn(<<r, n>>),
         cLoc'[w].earners = cLoc[w].earners,
         \A v \in CCalls \ {w} : (Begun(v)' <=> Begun(v)) /\ (Pays(v)' <=> Pays(v)) /\ cLoc'[v] = cLoc[v]
  PROVE  RefCovered(r)'
<1> SUFFICES ASSUME Comm!Agreed(r)' PROVE \E M \in 0..MaxLevel, b \in Nat : Covers(r, M, b)'
  BY DEF RefCovered
<1>0. Begun(w)
  BY DEF Begun, Pays, AtWork
<1>1. Comm!Agreed(r)
  BY <1>0, AgreedBefore
<1>2. PICK M \in 0..MaxLevel, b \in Nat : Covers(r, M, b)
  BY <1>1 DEF PoolInv, RefCovered
<1>3. BaseOf[w] = b
  BY <1>0, <1>2 DEF Covers
<1>4. PICK i : i = Len(cLoc[w].earners) /\ i <= M
  BY <1>2 DEF Covers
<1>5. i \in Nat
  <2>1. CallOK(w) /\ cPc[w] \in AtWork
    BY DEF PoolInv, Pays
  <2>. QED BY <1>4, <2>1 DEF CallOK, Comm!Levels
<1>6. l <= M
  BY <1>4, <1>5, ChannelsAssumption DEF Comm!Levels
<1>7. \A v \in CCalls : RefOf[v] = r /\ Begun(v)' => BaseOf[v] = b
  BY <1>2, <1>3 DEF Covers
<1>8. \A v \in CCalls : RefOf[v] = r /\ Pays(v)' => Len(cLoc'[v].earners) <= M
  BY <1>2 DEF Covers
<1>9. M # 0 => FundId(r, TotalTo(b, M))' # CNone
  BY <1>2, FundingStays
<1>10. ASSUME NEW n \in Comm!Levels, Drawn(<<r, n>>)' # 0 PROVE n <= M /\ Drawn(<<r, n>>)' <= LevelsOf(b)[n]
  <2>1. CASE n = l
    <3>1. PICK x : x = LevelsOf(b)[n] /\ x \in Nat
      BY LevelAmounts
    <3>2. Drawn(<<r, n>>)' = x /\ x <= x
      BY <1>3, <2>1, <3>1
    <3>. QED BY <1>6, <2>1, <3>1, <3>2
  <2>2. CASE n # l
    BY <1>2, <1>10, <2>2, StillDrawn DEF PoolInv, FundsKept
  <2>. QED BY <2>1, <2>2
<1>11. Covers(r, M, b)'
  BY <1>0, <1>7, <1>8, <1>9, <1>10 DEF Covers, CNone, LevelsOf
<1>. QED BY <1>11

LEMMA QuietPool ==
  ASSUME PoolInv, UNCHANGED cTransfers
  PROVE  PoolKept
<1>1. \A r, t : FundId(r, t)' = FundId(r, t)
  BY DEF FundId
<1>2. \A s : LHold(s)' = LHold(s) /\ LPost(s)' = LPost(s)
  BY DEF LHold, LPost
<1>3. \A s : Drawn(s)' = Drawn(s)
  BY <1>2 DEF Drawn, CNone
<1>4. PoolEntries'
  BY <1>1, <1>2 DEF PoolInv, PoolEntries, CNone
<1>5. ASSUME NEW r \in Refs, NEW n \in Comm!Levels PROVE Drawn(<<r, n>>)' <= Drawn(<<r, n>>)
  <2>1. Drawn(<<r, n>>) \in Nat
    BY SlotOf, DrawnNat DEF PoolInv
  <2>. QED BY <1>3, <2>1
<1>. QED BY <1>1, <1>4, <1>5 DEF PoolKept, FundsKept, LessDrawn, CNone

\* A transfer of the pool's funding, or of a reversal.
LEMMA DirectKeeps ==
  ASSUME CommInv, PoolInv, NEW x, NEW d, NEW c, NEW amt, Comm!Core!Transfer(x, d, c, amt),
         x[1] = "fund" => \E r \in Refs, t \in 0..CMaxAmount : x = <<"fund", r, t>> /\ amt = t,
         x[1] \in {"fund", "claw"}, x = <<x[1], x[2], x[3]>>
  PROVE  /\ PoolKept
         /\ \A r \in Refs, t \in 0..CMaxAmount : x = <<"fund", r, t>> => FundId(r, t)' # CNone
<1>1. PICK y : y = Comm!Core!Record(d, c, amt, FALSE)
  OBVIOUS
<1>2. cTransfers' = [cTransfers EXCEPT ![<<x, "direct">>] = y]
  BY <1>1 DEF Comm!Core!Transfer
<1>3. y # CNone /\ y.amount = amt
  BY <1>1 DEF Comm!Core!Record, CNone, Comm!Core!NoTransfer
<1>4. ASSUME NEW s \in Comm!Slots
      PROVE  LHold(s)' = LHold(s) /\ LPost(s)' = LPost(s)
  <2>1. /\ <<<<"level", s[1], s[2]>>, "hold">> \in DOMAIN cTransfers
        /\ <<<<"level", s[1], s[2]>>, "post">> \in DOMAIN cTransfers
    BY LevelIds
  <2>. QED BY <1>2, <2>1 DEF LHold, LPost
<1>5. ASSUME NEW r \in Refs, NEW t \in 0..CMaxAmount
      PROVE  FundId(r, t)' = IF x = <<"fund", r, t>> THEN y ELSE FundId(r, t)
  <2>1. <<<<"fund", r, t>>, "direct">> \in DOMAIN cTransfers
    BY FundIds
  <2>2. CASE x = <<"fund", r, t>>
    BY <1>2, <2>1, <2>2 DEF FundId
  <2>3. CASE x # <<"fund", r, t>>
    <3>1. <<x, "direct">> # <<<<"fund", r, t>>, "direct">>
      BY <2>3
    <3>. QED BY <1>2, <2>1, <2>3, <3>1 DEF FundId
  <2>. QED BY <2>2, <2>3
<1>6. ASSUME NEW r \in Refs, NEW t \in 0..CMaxAmount, FundId(r, t)' # CNone PROVE FundId(r, t)'.amount = t
  <2>1. CASE x = <<"fund", r, t>>
    <3>1. amt = t
      BY <2>1
    <3>. QED BY <1>3, <1>5, <2>1, <3>1
  <2>2. CASE x # <<"fund", r, t>>
    BY <1>5, <1>6, <2>2 DEF PoolInv, PoolEntries
  <2>. QED BY <2>1, <2>2
<1>7. PoolEntries'
  BY <1>4, <1>6 DEF PoolInv, PoolEntries, CNone
<1>8. ASSUME NEW r \in Refs, NEW n \in Comm!Levels PROVE Drawn(<<r, n>>)' <= Drawn(<<r, n>>)
  <2>1. Drawn(<<r, n>>) \in Nat
    BY SlotOf, DrawnNat DEF PoolInv
  <2>2. Drawn(<<r, n>>)' = Drawn(<<r, n>>)
    BY <1>4, SlotOf DEF Drawn, CNone
  <2>. QED BY <2>1, <2>2
<1>9. FundsKept
  BY <1>3, <1>5, <1>7 DEF FundsKept
<1>. QED BY <1>3, <1>5, <1>8, <1>9 DEF PoolKept, LessDrawn, CNone

\* A hold of a level.
LEMMA HoldDraws ==
  ASSUME CommInv, PoolInv, NEW ref \in Refs, NEW l \in Comm!Levels, NEW e, NEW amt \in Nat,
         Comm!Core!PendingTransfer(<<"level", ref, l>>, CPool, e, amt)
  PROVE  /\ FundsKept
         /\ Drawn(<<ref, l>>)' = amt
         /\ \A s \in Comm!Slots : s # <<ref, l>> => Drawn(s)' <= Drawn(s)
<1> DEFINE id == <<<<"level", ref, l>>, "hold">>
<1>1. PICK r, y : r = Comm!Core!Record(CPool, e, amt, TRUE) /\ y = <<ref, l>>
  OBVIOUS
<1>2. cTransfers' = [cTransfers EXCEPT ![id] = r] /\ cTransfers[id] = CNone
  BY <1>1 DEF Comm!Core!PendingTransfer, Comm!Core!Exists, CNone
<1>3. r # CNone /\ r.pending = TRUE /\ r.amount = amt
  BY <1>1 DEF Comm!Core!Record, CNone, Comm!Core!NoTransfer
<1>4. y \in Comm!Slots /\ y[1] = ref /\ y[2] = l
  BY <1>1 DEF Comm!Slots
<1>5. ASSUME NEW s \in Comm!Slots
      PROVE  LPost(s)' = LPost(s) /\ LHold(s)' = IF s = y THEN r ELSE LHold(s)
  <2>1. /\ <<<<"level", s[1], s[2]>>, "hold">> \in DOMAIN cTransfers
        /\ <<<<"level", s[1], s[2]>>, "post">> \in DOMAIN cTransfers /\ s = <<s[1], s[2]>>
    BY LevelIds
  <2>2. <<<<"level", s[1], s[2]>>, "hold">> = id <=> s = y
    BY <1>1, <2>1
  <2>. QED BY <1>2, <2>1, <2>2 DEF LHold, LPost
<1>6. Drawn(y)' = amt
  <2>1. LHold(y)' = r
    BY <1>4, <1>5
  <2>. QED BY <1>3, <2>1 DEF Drawn, CNone
<1>7. ASSUME NEW s \in Comm!Slots, s # y PROVE Drawn(s)' <= Drawn(s)
  <2>1. Drawn(s)' = Drawn(s)
    BY <1>5, <1>7 DEF Drawn, CNone
  <2>2. Drawn(s) \in Nat
    BY DrawnNat DEF PoolInv
  <2>. QED BY <2>1, <2>2
<1>8. ASSUME NEW f \in Refs, NEW t \in 0..CMaxAmount PROVE FundId(f, t)' = FundId(f, t)
  <2>1. <<<<"fund", f, t>>, "direct">> # id
    OBVIOUS
  <2>. QED BY <1>2, <2>1, FundIds DEF FundId
<1>9. \A s \in Comm!Slots : LHold(s)' # CNone => LHold(s)'.amount \in Nat
  BY <1>3, <1>5 DEF PoolInv, PoolEntries
<1>10. PoolEntries'
  BY <1>5, <1>8, <1>9 DEF PoolInv, PoolEntries, CNone
<1>. QED BY <1>1, <1>6, <1>7, <1>8, <1>10 DEF FundsKept, CNone

\* A level's hold is posted, at most what it holds, or voided.
LEMMA SpentDraws ==
  ASSUME CommInv, PoolInv, NEW y \in Comm!Slots, NEW leg \in {"post", "void"}, NEW n \in Nat,
         Comm!Core!IsPending(<<<<"level", y[1], y[2]>>, "hold">>),
         n <= cTransfers[<<<<"level", y[1], y[2]>>, "hold">>].amount, leg = "void" => n = 0,
         Comm!Core!Consume(<<"level", y[1], y[2]>>, leg, n)
  PROVE  PoolKept
<1>1. PICK id, lid : id = <<<<"level", y[1], y[2]>>, "hold">> /\ lid = <<<<"level", y[1], y[2]>>, leg>>
  OBVIOUS
<1>2. PICK h : h = cTransfers[id]
  OBVIOUS
<1>3. PICK r, q : /\ r = Comm!Core!Record(h.debit, h.credit, IF leg = "post" /\ n < h.amount THEN 0 ELSE h.amount, FALSE)
                  /\ q = Comm!Core!Record(h.debit, h.credit, IF leg = "post" THEN n ELSE h.amount, FALSE)
  OBVIOUS
<1>4. /\ cTransfers' = [cTransfers EXCEPT ![id] = r, ![lid] = q]
      /\ h # CNone /\ h.pending /\ n <= h.amount
  BY <1>1, <1>2, <1>3 DEF Comm!Core!Consume, Comm!Core!IsPending, Comm!Core!Exists, CNone
<1>5. PoolEntries
  BY DEF PoolInv
<1>6. LHold(y) = h /\ h.amount \in Nat
  <2>1. LHold(y) = h
    BY <1>1, <1>2 DEF LHold
  <2>. QED BY <1>4, <1>5, <2>1 DEF PoolEntries
<1>7. LPost(y) = CNone
  BY <1>4, <1>6 DEF CommInv, LevelDue
<1>8. /\ r # CNone /\ r.pending = FALSE /\ r.amount \in Nat
      /\ q # CNone /\ (leg = "post" => q.amount = n)
  <2>1. r # CNone /\ q # CNone
    BY <1>3 DEF Comm!Core!Record, CNone, Comm!Core!NoTransfer
  <2>2. r.pending = FALSE /\ r.amount = IF leg = "post" /\ n < h.amount THEN 0 ELSE h.amount
    BY <1>3 DEF Comm!Core!Record
  <2>3. leg = "post" => q.amount = n
    BY <1>3 DEF Comm!Core!Record
  <2>. QED BY <1>6, <2>1, <2>2, <2>3
<1>9. ASSUME NEW s \in Comm!Slots
      PROVE  /\ LHold(s)' = IF s = y THEN r ELSE LHold(s)
             /\ LPost(s)' = IF s = y /\ leg = "post" THEN q ELSE LPost(s)
  <2>1. /\ <<<<"level", s[1], s[2]>>, "hold">> \in DOMAIN cTransfers
        /\ <<<<"level", s[1], s[2]>>, "post">> \in DOMAIN cTransfers /\ s = <<s[1], s[2]>>
    BY LevelIds
  <2>2. y = <<y[1], y[2]>>
    BY LevelIds
  <2>3. /\ <<<<"level", s[1], s[2]>>, "hold">> = id <=> s = y
        /\ <<<<"level", s[1], s[2]>>, "post">> = lid <=> s = y /\ leg = "post"
        /\ <<<<"level", s[1], s[2]>>, "post">> # id
        /\ <<<<"level", s[1], s[2]>>, "hold">> # lid
    BY <1>1, <2>1, <2>2
  <2>. QED BY <1>4, <2>1, <2>3 DEF LHold, LPost
<1>10. Drawn(y) = h.amount /\ Drawn(y)' = n
  <2>1. Drawn(y) = h.amount
    BY <1>4, <1>6 DEF Drawn
  <2>2. LHold(y)' = r /\ LPost(y)' = IF leg = "post" THEN q ELSE CNone
    BY <1>7, <1>9
  <2>3. Drawn(y)' = IF leg = "post" THEN q.amount ELSE 0
    BY <1>8, <2>2 DEF Drawn, CNone
  <2>. QED BY <1>8, <2>1, <2>3
<1>11. \A s \in Comm!Slots : s # y => Drawn(s)' = Drawn(s)
  BY <1>9 DEF Drawn, CNone
<1>12. ASSUME NEW f \in Refs, NEW t \in 0..CMaxAmount PROVE FundId(f, t)' = FundId(f, t)
  <2>1. <<<<"fund", f, t>>, "direct">> # id /\ <<<<"fund", f, t>>, "direct">> # lid
    BY <1>1
  <2>. QED BY <1>4, <2>1, FundIds DEF FundId
<1>13. PoolEntries'
  <2>1. ASSUME NEW s \in Comm!Slots
        PROVE  /\ LHold(s)' # CNone => LHold(s)'.amount \in Nat
               /\ LPost(s)' # CNone => LPost(s)'.amount \in Nat
    BY <1>5, <1>8, <1>9 DEF PoolEntries
  <2>. QED BY <1>5, <1>12, <2>1 DEF PoolEntries, CNone
<1>14. ASSUME NEW s \in Comm!Slots PROVE Drawn(s)' <= Drawn(s)
  <2>1. CASE s = y
    BY <1>4, <1>10, <2>1
  <2>2. CASE s # y
    <3>1. Drawn(s) \in Nat
      BY <1>5, DrawnNat
    <3>. QED BY <1>11, <2>2, <3>1
  <2>. QED BY <2>1, <2>2
<1>. QED BY <1>12, <1>13, <1>14, SlotOf DEF PoolKept, FundsKept, LessDrawn, CNone

-----------------------------------------------------------------------------
\* What moves when a call moves.
Elsewhere(w) ==
  \A v \in CCalls \ {w} :
    /\ cPc'[v] = cPc[v] /\ cLoc'[v] = cLoc[v]
    /\ Begun(v)' <=> Begun(v)
    /\ Pays(v)' <=> Pays(v)

LEMMA OthersRest ==
  ASSUME CommInv, NEW w \in CWorkers, NEW to, Comm!Goto(w, to),
         UNCHANGED cLoc \/ \E f : cLoc' = [cLoc EXCEPT ![w] = f]
  PROVE  cPc'[w] = to /\ Elsewhere(w)
<1>1. cPc'[w] = to /\ \A v \in CWorkers \ {w} : cPc'[v] = cPc[v] /\ cLoc'[v] = cLoc[v]
  BY DEF CommInv, Comm!Goto
<1>. QED BY <1>1 DEF Elsewhere, CWorkers, Begun, Pays

LEMMA CallsOK ==
  ASSUME PoolInv, NEW w, Elsewhere(w), w \in CCalls => CallOK(w)'
  PROVE  \A v \in CCalls : CallOK(v)'
<1> SUFFICES ASSUME NEW v \in CCalls, v # w PROVE CallOK(v)'
  OBVIOUS
<1>1. CallOK(v) /\ cPc'[v] = cPc[v] /\ cLoc'[v] = cLoc[v]
  BY DEF PoolInv, Elsewhere
<1>. QED BY <1>1 DEF CallOK

\* The calls that move for no reference, and those of other references.
LEMMA OtherRefs ==
  ASSUME PoolInv, FundsKept, NEW w, Elsewhere(w), NEW r \in Refs, LessDrawn(r),
         w \in CCalls => RefOf[w] # r
  PROVE  RefCovered(r)'
<1>1. \A v \in CCalls : RefOf[v] = r =>
            /\ Begun(v)' <=> Begun(v)
            /\ Pays(v)' => Pays(v) /\ cLoc'[v].earners = cLoc[v].earners
  BY DEF Elsewhere
<1>. QED BY <1>1, RefRests

\* A call past its beginning goes on; it is past the funding already, or ends.
LEMMA CallGoes ==
  ASSUME CommInv, PoolInv, PoolKept, NEW w \in CCalls, NEW to, Comm!Goto(w, to),
         UNCHANGED cLoc \/ \E f : cLoc' = [cLoc EXCEPT ![w] = f], CallOK(w)',
         cPc[w] # "start", to # "start",
         to \in AtWork => Pays(w) /\ cLoc'[w].earners = cLoc[w].earners
  PROVE  PoolInv'
<1>1. cPc'[w] = to /\ Elsewhere(w)
  BY OthersRest DEF CWorkers
<1>2. \A v \in CCalls : CallOK(v)'
  BY <1>1, CallsOK
<1>3. ASSUME NEW r \in Refs PROVE RefCovered(r)'
  <2>1. \A v \in CCalls : RefOf[v] = r =>
            /\ Begun(v)' <=> Begun(v)
            /\ Pays(v)' => Pays(v) /\ cLoc'[v].earners = cLoc[v].earners
    BY <1>1 DEF Elsewhere, Begun, Pays
  <2>. QED BY <2>1, RefRests DEF PoolKept
<1>. QED BY <1>2, <1>3 DEF PoolInv, PoolKept, FundsKept

\* A call goes on with the level it has.
LEMMA SameLevelOK ==
  ASSUME CommInv, PoolInv, NEW w \in CCalls, cPc[w] \in AtWork, NEW to, Comm!Goto(w, to), UNCHANGED cLoc
  PROVE  CallOK(w)'
<1>1. cPc'[w] = to /\ cLoc'[w] = cLoc[w] /\ CallOK(w)
  BY DEF CommInv, Comm!Goto, CWorkers, PoolInv
<1>. QED BY <1>1 DEF CallOK

LEMMA SameLevelPool ==
  ASSUME CommInv, PoolInv, PoolKept, NEW w \in CCalls, Pays(w), NEW to, to # "start",
         Comm!Goto(w, to), UNCHANGED cLoc
  PROVE  PoolInv'
<1>1. cPc[w] \in AtWork /\ cPc[w] # "start" /\ cLoc'[w].earners = cLoc[w].earners
  BY DEF Pays, AtWork
<1>2. CallOK(w)'
  BY <1>1, SameLevelOK
<1>. QED BY <1>1, <1>2, CallGoes

\* A call goes on to the next level it has an earner for, or ends.
LEMMA NextLevelPool ==
  ASSUME CommInv, PoolInv, PoolKept, NEW w \in CCalls, Pays(w), Comm!Advance(w)
  PROVE  PoolInv'
<1>0. cPc[w] \in AtWork /\ cPc[w] # "start"
  BY DEF Pays, AtWork
<1>1. PICK m \in Comm!Levels, l \in Comm!Levels :
        /\ l <= m /\ DOMAIN cLoc[w].earners = 1..m /\ Len(cLoc[w].earners) = m
        /\ cLoc[w].slot = <<RefOf[w], l>>
  BY <1>0 DEF PoolInv, CallOK
<1>2. CASE Comm!Goto(w, "done") /\ UNCHANGED cLoc
  BY <1>2, SameLevelPool
<1>3. CASE l < m /\ Comm!Goto(w, "lookup") /\ cLoc' = [cLoc EXCEPT ![w].slot[2] = @ + 1]
  <2>1. AccrueClaim(w) /\ DOMAIN cLoc = CWorkers /\ w \in CWorkers /\ cPc'[w] = "lookup"
    BY <1>3 DEF CommInv, CWorkers, Comm!Goto
  <2>2. PICK f : f = cLoc[w] /\ f = [earners |-> f.earners, slot |-> <<RefOf[w], f.slot[2]>>, rec |-> f.rec]
    BY <1>0, <2>1 DEF AccrueClaim
  <2>3. PICK g : g = [f EXCEPT !.slot = [f.slot EXCEPT ![2] = f.slot[2] + 1]]
    OBVIOUS
  <2>4. cLoc' = [cLoc EXCEPT ![w] = g]
    BY <1>3, <2>1, <2>2, <2>3
  <2>5. f.slot = <<RefOf[w], l>> /\ f.slot[2] = l
    BY <1>1, <2>2
  <2>6. g.earners = f.earners /\ g.slot = <<RefOf[w], l + 1>>
    <3>1. PICK x : x = [f.slot EXCEPT ![2] = f.slot[2] + 1]
      OBVIOUS
    <3>2. x = <<RefOf[w], l + 1>>
      BY <2>5, <3>1
    <3>3. [f EXCEPT !.slot = x] = [earners |-> f.earners, slot |-> x, rec |-> f.rec]
      BY <2>2
    <3>. QED BY <2>3, <3>1, <3>2, <3>3
  <2>7. cLoc'[w] = g
    BY <2>1, <2>4
  <2>8. l + 1 \in Comm!Levels /\ l + 1 <= m
    BY <1>3, ChannelsAssumption DEF Comm!Levels
  <2>9. DOMAIN g.earners = 1..m /\ Len(g.earners) = m
    BY <1>1, <2>2, <2>6
  <2>10. CallOK(w)'
    BY <2>1, <2>6, <2>7, <2>8, <2>9 DEF CallOK
  <2>11. cLoc'[w].earners = cLoc[w].earners
    BY <2>2, <2>6, <2>7
  <2>12. PICK to : to = "lookup"
    OBVIOUS
  <2>. QED BY <1>0, <1>3, <2>4, <2>10, <2>11, <2>12, CallGoes
<1>4. Comm!Level(w) = l
  BY <1>1 DEF Comm!Level
<1>. QED BY <1>1, <1>2, <1>3, <1>4 DEF Comm!Advance

\* Clawback moves.
LEMMA ClawGoes ==
  ASSUME CommInv, PoolInv, PoolKept, NEW to, Comm!Goto(Clawer, to),
         UNCHANGED cLoc \/ \E f : cLoc' = [cLoc EXCEPT ![Clawer] = f]
  PROVE  PoolInv'
<1>1. Elsewhere(Clawer) /\ Clawer \notin CCalls
  BY OthersRest, ChannelsAssumption DEF CWorkers
<1>2. \A v \in CCalls : CallOK(v)'
  BY <1>1, CallsOK
<1>3. \A r \in Refs : RefCovered(r)'
  BY <1>1, OtherRefs DEF PoolKept
<1>. QED BY <1>2, <1>3 DEF PoolInv, PoolKept, FundsKept

\* Earners gives at most one agent per level.
LEMMA EarnersDomain ==
  ASSUME NEW a
  PROVE  \E m \in 0..MaxLevel : DOMAIN Comm!Earners(a) = 1..m /\ Len(Comm!Earners(a)) = m
<1> DEFINE w == CHOOSE up : up = [n \in Comm!Levels |->
        IF n = 1 THEN a ELSE IF up[n - 1] = CRoot THEN CRoot ELSE parent[up[n - 1]]]
<1>0. Comm!Earners(a) = [n \in 1..Comm!Cardinality({n \in Comm!Levels : w[n] # CRoot}) |-> w[n]]
  BY Zenon DEF Comm!Earners
<1>. HIDE DEF w
<1>1. PICK up, m : /\ Comm!Earners(a) = [n \in 1..m |-> up[n]]
                   /\ m = Comm!Cardinality({n \in Comm!Levels : up[n] # CRoot})
  BY <1>0
<1>2. m = Cardinality({n \in Comm!Levels : up[n] # CRoot})
  BY <1>1 DEF Comm!Cardinality, Cardinality
<1>3. MaxLevel \in Nat /\ IsFiniteSet(Comm!Levels) /\ Cardinality(Comm!Levels) = MaxLevel
  <2>1. MaxLevel \in Nat
    BY ChannelsAssumption
  <2>2. Comm!Levels = 1..MaxLevel
    BY DEF Comm!Levels
  <2>3. IsFiniteSet(1..MaxLevel) /\ Cardinality(1..MaxLevel) = MaxLevel
    BY <2>1, FS_Interval
  <2>. QED BY <2>1, <2>2, <2>3
<1>4. m \in 0..MaxLevel
  <2>1. PICK U : U = {n \in Comm!Levels : up[n] # CRoot}
    OBVIOUS
  <2>2. U \subseteq Comm!Levels
    BY <2>1
  <2>3. IsFiniteSet(U) /\ Cardinality(U) <= Cardinality(Comm!Levels)
    BY <1>3, <2>2, FS_Subset
  <2>4. Cardinality(U) \in Nat
    BY <2>3, FS_CardinalityType
  <2>. QED BY <1>2, <1>3, <2>1, <2>3, <2>4
<1>5. PICK f : f = [n \in 1..m |-> up[n]]
  OBVIOUS
<1>6. DOMAIN f = 1..m /\ Len(f) = m
  BY <1>4, <1>5
<1>7. Comm!Earners(a) = f
  BY <1>1, <1>5, Zenon
<1>. QED BY <1>4, <1>6, <1>7

LEMMA BeginPool ==
  ASSUME CommInv, PoolInv, NEW w \in CCalls, Comm!BeginAccrue(w)
  PROVE  PoolInv'
<1> DEFINE f == [earners |-> Comm!Earners(CAgentOf[w]), slot |-> <<RefOf[w], 1>>, rec |-> Comm!NoRecord]
           to == IF Comm!Total(BaseOf[w], Comm!Earners(CAgentOf[w])) = 0 THEN "done" ELSE "fund"
<1>1. cLoc' = [cLoc EXCEPT ![w] = f] /\ Comm!Goto(w, to) /\ UNCHANGED cTransfers
  BY DEF Comm!BeginAccrue, Comm!ledger
<1>2. PICK e : e = Comm!Earners(CAgentOf[w])
  OBVIOUS
<1>3. PICK m \in 0..MaxLevel : DOMAIN e = 1..m /\ Len(e) = m
  BY <1>2, EarnersDomain
<1>4. to = "fund" \/ to = "done"
  OBVIOUS
<1>5. to = "fund" => Comm!Total(BaseOf[w], e) # 0
  BY <1>2
<1>6. f.earners = e /\ f.slot = <<RefOf[w], 1>>
  BY <1>2
<1>. HIDE DEF f, to
<1>7. cPc'[w] = to /\ cLoc'[w] = f /\ Elsewhere(w)
  <2>1. cLoc'[w] = f
    BY <1>1 DEF CommInv, CWorkers
  <2>. QED BY <1>1, <2>1, OthersRest DEF CWorkers
<1>8. ASSUME to = "fund" PROVE m \in Comm!Levels /\ 1 \in Comm!Levels
  <2>1. Comm!Total(BaseOf[w], e) = TotalTo(BaseOf[w], m)
    <3>1. PICK b \in Nat : b = BaseOf[w]
      BY CommissionAssumption
    <3>2. Comm!Total(b, e) = TotalTo(b, m)
      BY <1>3, TotalIs DEF TotalTo
    <3>. QED BY <3>1, <3>2
  <2>2. ASSUME m = 0 PROVE FALSE
    <3>1. PICK S : S = 1..m
      OBVIOUS
    <3>2. S = {}
      BY <2>2, <3>1
    <3>3. SumOver(LevelsOf(BaseOf[w]), S) = 0
      BY <3>2, SumEmpty, Zenon
    <3>4. TotalTo(BaseOf[w], m) = 0
      BY <3>1, <3>3, Zenon DEF TotalTo
    <3>. QED BY <1>5, <1>8, <2>1, <3>4
  <2>. QED BY <1>3, <2>2, ChannelsAssumption DEF Comm!Levels
<1>9. CallOK(w)'
  <2> SUFFICES ASSUME to = "fund" PROVE CallOK(w)'
    BY <1>4, <1>7 DEF CallOK, AtWork
  <2>1. 1 <= m /\ m \in Comm!Levels /\ 1 \in Comm!Levels
    BY <1>8 DEF Comm!Levels
  <2>2. DOMAIN f.earners = 1..m /\ Len(f.earners) = m
    BY <1>3, <1>6
  <2>. QED BY <1>6, <1>7, <2>1, <2>2 DEF CallOK
<1>10. PoolKept
  BY <1>1, QuietPool
<1>11. \A v \in CCalls : CallOK(v)'
  BY <1>7, <1>9, CallsOK
<1>12. ASSUME NEW r \in Refs PROVE RefCovered(r)'
  <2>1. CASE RefOf[w] # r
    BY <1>7, <1>10, <2>1, OtherRefs DEF PoolKept
  <2>2. CASE RefOf[w] = r
    <3>1. Begun(w)' /\ ~Pays(w)'
      BY <1>4, <1>7 DEF Begun, Pays, AtWork
    <3>. QED BY <1>7, <1>10, <2>2, <3>1, RefBegins DEF Elsewhere
  <2>. QED BY <2>1, <2>2
<1>. QED BY <1>10, <1>11, <1>12 DEF PoolInv, PoolKept, FundsKept

LEMMA FundPool ==
  ASSUME CommInv, PoolInv, NEW w \in CCalls, Comm!Fund(w)
  PROVE  PoolInv'
<1>1. cPc[w] = "fund" /\ cPc[w] \in AtWork /\ UNCHANGED cLoc
  BY DEF Comm!Fund, AtWork
<1>2. PICK m \in Comm!Levels, l \in Comm!Levels :
        l <= m /\ DOMAIN cLoc[w].earners = 1..m /\ Len(cLoc[w].earners) = m
  BY <1>1 DEF PoolInv, CallOK
<1>3. PICK t, b : t = Comm!Total(BaseOf[w], cLoc[w].earners) /\ b = BaseOf[w]
  OBVIOUS
<1>4. t = TotalTo(b, m) /\ t \in 0..CMaxAmount /\ RefOf[w] \in Refs
  <2>1. m \in 0..MaxLevel /\ b \in Nat
    BY <1>3, ChannelsAssumption, CommissionAssumption DEF Comm!Levels
  <2>2. Comm!Total(b, cLoc[w].earners) = TotalTo(b, m)
    BY <1>2, <2>1, TotalIs DEF TotalTo
  <2>. QED BY <1>3, <2>2, TotalFits, ChannelsAssumption
<1>5. \/ /\ Comm!Core!Transfer(<<"fund", RefOf[w], t>>, Offset, CPool, t)
         /\ Comm!Goto(w, "lookup") \/ Comm!Goto(w, "done")
      \/ /\ UNCHANGED cTransfers
         /\ \/ Comm!Goto(w, "lookup") /\ FundId(RefOf[w], t) = Comm!Core!Record(Offset, CPool, t, FALSE)
            \/ Comm!Goto(w, "done")
  BY <1>3 DEF Comm!Fund, Comm!Replays, Comm!ledger, FundId
<1>6. PICK to \in {"lookup", "done"} :
        Comm!Goto(w, to) /\ PoolKept /\ (to = "lookup" => FundId(RefOf[w], t)' # CNone)
  <2>1. CASE Comm!Core!Transfer(<<"fund", RefOf[w], t>>, Offset, CPool, t)
             /\ (Comm!Goto(w, "lookup") \/ Comm!Goto(w, "done"))
    <3>1. PICK x : x = <<"fund", RefOf[w], t>>
      OBVIOUS
    <3>2. x[1] = "fund" /\ x = <<x[1], x[2], x[3]>>
      BY <3>1
    <3>3. PoolKept /\ FundId(RefOf[w], t)' # CNone
      BY <1>4, <2>1, <3>1, <3>2, DirectKeeps
    <3>. QED BY <2>1, <3>3
  <2>2. CASE UNCHANGED cTransfers
             /\ \/ Comm!Goto(w, "lookup") /\ FundId(RefOf[w], t) = Comm!Core!Record(Offset, CPool, t, FALSE)
                \/ Comm!Goto(w, "done")
    <3>1. PoolKept
      BY <2>2, QuietPool
    <3>2. ASSUME FundId(RefOf[w], t) = Comm!Core!Record(Offset, CPool, t, FALSE) PROVE FundId(RefOf[w], t)' # CNone
      <4>1. FundId(RefOf[w], t) # CNone
        BY <3>2 DEF Comm!Core!Record, CNone, Comm!Core!NoTransfer
      <4>2. FundId(RefOf[w], t)' = FundId(RefOf[w], t)
        BY <2>2 DEF FundId
      <4>. QED BY <4>1, <4>2
    <3>. QED BY <2>2, <3>1, <3>2
  <2>. QED BY <1>5, <2>1, <2>2
<1>7. cPc'[w] = to /\ cLoc'[w] = cLoc[w] /\ Elsewhere(w)
  BY <1>1, <1>6, OthersRest DEF CWorkers
<1>8. CallOK(w)'
  BY <1>1, <1>6, SameLevelOK
<1>9. CASE to = "done"
  <2>1. cPc[w] # "start" /\ to # "start" /\ to \notin AtWork
    BY <1>1, <1>9 DEF AtWork
  <2>. QED BY <1>1, <1>6, <1>8, <2>1, CallGoes
<1>10. CASE to = "lookup"
  <2>1. Begun(w) /\ Begun(w)'
    BY <1>1, <1>7, <1>10 DEF Begun
  <2>2. FundId(RefOf[w], TotalTo(BaseOf[w], m))' # CNone
    BY <1>3, <1>4, <1>6, <1>10
  <2>3. Len(cLoc'[w].earners) = m
    BY <1>2, <1>7
  <2>4. ASSUME NEW r \in Refs PROVE RefCovered(r)'
    <3>1. CASE RefOf[w] # r
      BY <1>6, <1>7, <3>1, OtherRefs DEF PoolKept
    <3>2. CASE RefOf[w] = r
      BY <1>6, <1>7, <2>1, <2>2, <2>3, <3>2, RefFunds DEF Elsewhere
    <3>. QED BY <3>1, <3>2
  <2>5. \A v \in CCalls : CallOK(v)'
    BY <1>7, <1>8, CallsOK
  <2>. QED BY <1>6, <2>4, <2>5 DEF PoolInv, PoolKept, FundsKept
<1>. QED BY <1>6, <1>9, <1>10

\* What a call past the funding is about to draw.
LEMMA CallPays ==
  ASSUME PoolInv, NEW w \in CCalls, Pays(w)
  PROVE  \E l \in Comm!Levels :
           /\ l <= Len(cLoc[w].earners) /\ cLoc[w].slot = <<RefOf[w], l>>
           /\ <<RefOf[w], l>> \in Comm!Slots /\ RefOf[w] \in Refs
           /\ Comm!Seed(w) = <<"level", RefOf[w], l>>
           /\ Comm!Amount(w) = LevelsOf(BaseOf[w])[l] /\ Comm!Amount(w) \in Nat
<1>1. PICK m \in Comm!Levels, l \in Comm!Levels :
        l <= m /\ Len(cLoc[w].earners) = m /\ cLoc[w].slot = <<RefOf[w], l>>
  BY DEF PoolInv, CallOK, Pays
<1>2. Comm!Level(w) = l
  BY <1>1 DEF Comm!Level
<1>3. Comm!Seed(w) = <<"level", RefOf[w], l>> /\ Comm!Amount(w) = Comm!AmountAt(BaseOf[w], l)
  BY <1>2, Zenon DEF Comm!Seed, Comm!Amount
<1>4. Comm!Amount(w) = LevelsOf(BaseOf[w])[l] /\ Comm!Amount(w) \in Nat
  <2>1. BaseOf[w] \in Nat
    BY CommissionAssumption
  <2>. QED BY <1>3, <2>1, LevelAmounts
<1>5. RefOf[w] \in Refs /\ <<RefOf[w], l>> \in Comm!Slots
  BY ChannelsAssumption, SlotOf
<1>. QED BY <1>1, <1>3, <1>4, <1>5

LEMMA HoldPool ==
  ASSUME CommInv, PoolInv, NEW w \in CCalls, Comm!Hold(w)
  PROVE  PoolInv'
<1>1. cPc[w] = "hold" /\ cPc[w] \in AtWork /\ Pays(w) /\ UNCHANGED cLoc
  BY DEF Comm!Hold, AtWork, Pays
<1>2. PICK l \in Comm!Levels :
           /\ l <= Len(cLoc[w].earners) /\ RefOf[w] \in Refs
           /\ Comm!Seed(w) = <<"level", RefOf[w], l>>
           /\ Comm!Amount(w) = LevelsOf(BaseOf[w])[l] /\ Comm!Amount(w) \in Nat
  BY <1>1, CallPays
<1>3. PICK e, amt : e = Comm!Earner(w) /\ amt = Comm!Amount(w)
  OBVIOUS
<1>4. PICK to \in {"post", "done", "mark"} :
        /\ Comm!Goto(w, to)
        /\ \/ Comm!Core!PendingTransfer(<<"level", RefOf[w], l>>, CPool, e, amt)
           \/ UNCHANGED cTransfers
  BY <1>2, <1>3 DEF Comm!Hold, Comm!ledger
<1>5. CASE UNCHANGED cTransfers
  <2>1. PoolKept /\ to # "start"
    BY <1>5, QuietPool
  <2>. QED BY <1>1, <1>4, <2>1, SameLevelPool
<1>6. CASE Comm!Core!PendingTransfer(<<"level", RefOf[w], l>>, CPool, e, amt)
  <2>1. PICK ref : ref = RefOf[w] /\ ref \in Refs
    BY <1>2
  <2>2. amt \in Nat
    BY <1>2, <1>3
  <2>3. /\ FundsKept
        /\ Drawn(<<ref, l>>)' = amt
        /\ \A s \in Comm!Slots : s # <<ref, l>> => Drawn(s)' <= Drawn(s)
    BY <1>6, <2>1, <2>2, HoldDraws
  <2>4. cPc'[w] = to /\ cLoc'[w] = cLoc[w] /\ Elsewhere(w)
    BY <1>1, <1>4, OthersRest DEF CWorkers
  <2>5. \A v \in CCalls : CallOK(v)'
    BY <1>1, <1>4, <2>4, SameLevelOK, CallsOK
  <2>6. ASSUME NEW r \in Refs PROVE RefCovered(r)'
    <3>1. ASSUME NEW n \in Comm!Levels, r # ref \/ n # l PROVE Drawn(<<r, n>>)' <= Drawn(<<r, n>>)
      <4>1. <<r, n>> # <<ref, l>> /\ <<r, n>> \in Comm!Slots
        BY <3>1, SlotOf
      <4>. QED BY <2>3, <4>1
    <3>2. CASE r # ref
      BY <2>1, <2>3, <2>4, <3>1, <3>2, OtherRefs DEF LessDrawn
    <3>3. CASE r = ref
      <4>1. Begun(w)'
        BY <2>4 DEF Begun
      <4>2. Drawn(<<r, l>>)' = LevelsOf(BaseOf[w])[l]
        BY <1>2, <1>3, <2>3, <3>3
      <4>3. \A n \in Comm!Levels \ {l} : Drawn(<<r, n>>)' <= Drawn(<<r, n>>)
        BY <3>1
      <4>4. cLoc'[w].earners = cLoc[w].earners
        BY <2>4
      <4>5. RefOf[w] = r
        BY <2>1, <3>3
      <4>. QED BY <1>1, <1>2, <2>3, <2>4, <4>1, <4>2, <4>3, <4>4, <4>5, RefHolds DEF Elsewhere
    <3>. QED BY <3>2, <3>3
  <2>. QED BY <2>3, <2>5, <2>6 DEF PoolInv, FundsKept
<1>. QED BY <1>4, <1>5, <1>6

LEMMA PostPool ==
  ASSUME CommInv, PoolInv, NEW w \in CCalls, Comm!Post(w)
  PROVE  PoolInv'
<1>1. cPc[w] = "post" /\ Pays(w) /\ UNCHANGED cLoc
  BY DEF Comm!Post, AtWork, Pays
<1>2. PICK l, y : /\ y = <<RefOf[w], l>> /\ y \in Comm!Slots /\ Comm!Seed(w) = <<"level", RefOf[w], l>>
                  /\ Comm!Amount(w) \in Nat
  BY <1>1, CallPays
<1>3. y[1] = RefOf[w] /\ y[2] = l
  BY <1>2
<1>4. PICK amt : amt = Comm!Amount(w)
  OBVIOUS
<1>5. PICK to \in {"mark", "void"} :
        /\ Comm!Goto(w, to)
        /\ Comm!Core!PostPendingAs(<<"level", y[1], y[2]>>, amt) \/ UNCHANGED cTransfers
  BY <1>2, <1>3, <1>4 DEF Comm!Post, Comm!ledger
<1>6. PoolKept
  <2>1. CASE Comm!Core!PostPendingAs(<<"level", y[1], y[2]>>, amt)
    <3>1. PICK h : h = cTransfers[<<<<"level", y[1], y[2]>>, "hold">>]
      OBVIOUS
    <3>2. PICK n : n = IF amt = 0 THEN h.amount ELSE amt
      OBVIOUS
    <3>3. /\ Comm!Core!IsPending(<<<<"level", y[1], y[2]>>, "hold">>) /\ n <= h.amount
          /\ Comm!Core!Consume(<<"level", y[1], y[2]>>, "post", n)
      BY <2>1, <3>1, <3>2, Zenon DEF Comm!Core!PostPendingAs
    <3>4. LHold(y) # CNone /\ LHold(y) = h
      BY <3>1, <3>3 DEF LHold, CNone, Comm!Core!IsPending, Comm!Core!Exists
    <3>5. h.amount \in Nat
      BY <1>2, <3>4 DEF PoolInv, PoolEntries
    <3>6. n \in Nat
      BY <1>2, <1>4, <3>2, <3>5
    <3>7. PICK leg \in {"post", "void"} : leg = "post"
      OBVIOUS
    <3>8. Comm!Core!Consume(<<"level", y[1], y[2]>>, leg, n) /\ (leg = "void" => n = 0)
      BY <3>3, <3>7
    <3>. QED BY <1>2, <3>1, <3>3, <3>6, <3>8, SpentDraws
  <2>2. CASE UNCHANGED cTransfers
    BY <2>2, QuietPool
  <2>. QED BY <1>5, <2>1, <2>2
<1>7. to # "start"
  OBVIOUS
<1>. QED BY <1>1, <1>5, <1>6, <1>7, SameLevelPool

LEMMA VoidPool ==
  ASSUME CommInv, PoolInv, NEW w \in CCalls, Comm!VoidHold(w)
  PROVE  PoolInv'
<1>1. cPc[w] = "void" /\ Pays(w) /\ UNCHANGED cLoc /\ Comm!Goto(w, "delete")
  BY DEF Comm!VoidHold, AtWork, Pays
<1>2. PICK l, y : y = <<RefOf[w], l>> /\ y \in Comm!Slots /\ Comm!Seed(w) = <<"level", RefOf[w], l>>
  BY <1>1, CallPays
<1>3. y[1] = RefOf[w] /\ y[2] = l
  BY <1>2
<1>4. Comm!Core!VoidPending(<<"level", y[1], y[2]>>) \/ UNCHANGED cTransfers
  BY <1>2, <1>3 DEF Comm!VoidHold, Comm!ledger
<1>5. PoolKept
  <2>1. CASE Comm!Core!VoidPending(<<"level", y[1], y[2]>>)
    <3>1. PICK h, n : h = cTransfers[<<<<"level", y[1], y[2]>>, "hold">>] /\ n = 0
      OBVIOUS
    <3>2. PICK leg \in {"post", "void"} : leg = "void"
      OBVIOUS
    <3>3. /\ Comm!Core!IsPending(<<<<"level", y[1], y[2]>>, "hold">>)
          /\ Comm!Core!Consume(<<"level", y[1], y[2]>>, leg, n)
      BY <2>1, <3>1, <3>2 DEF Comm!Core!VoidPending
    <3>4. LHold(y) # CNone /\ LHold(y) = h
      BY <3>1, <3>3 DEF LHold, CNone, Comm!Core!IsPending, Comm!Core!Exists
    <3>5. h.amount \in Nat /\ n \in Nat /\ n <= h.amount
      BY <1>2, <3>1, <3>4 DEF PoolInv, PoolEntries
    <3>. QED BY <1>2, <3>1, <3>3, <3>5, SpentDraws
  <2>2. CASE UNCHANGED cTransfers
    BY <2>2, QuietPool
  <2>. QED BY <1>4, <2>1, <2>2
<1>6. PICK to : to = "delete"
  OBVIOUS
<1>. QED BY <1>1, <1>5, <1>6, SameLevelPool

LEMMA LookupPool ==
  ASSUME CommInv, PoolInv, NEW w \in CCalls, Comm!Lookup(w)
  PROVE  PoolInv'
<1>1. /\ cPc[w] = "lookup" /\ Pays(w) /\ UNCHANGED cTransfers
      /\ \/ UNCHANGED cLoc /\ (Comm!Goto(w, "hold") \/ Comm!Goto(w, "done"))
         \/ Comm!Advance(w)
  BY DEF Comm!Lookup, Comm!ledger, AtWork, Pays
<1>2. PoolKept
  BY <1>1, QuietPool
<1>3. ASSUME UNCHANGED cLoc, NEW to \in {"hold", "done"}, Comm!Goto(w, to) PROVE PoolInv'
  <2>1. to # "start"
    OBVIOUS
  <2>. QED BY <1>1, <1>2, <1>3, <2>1, SameLevelPool
<1>4. CASE Comm!Advance(w)
  BY <1>1, <1>2, <1>4, NextLevelPool
<1>. QED BY <1>1, <1>3, <1>4

LEMMA DeletePool ==
  ASSUME CommInv, PoolInv, NEW w \in CCalls, Comm!DeleteRecord(w)
  PROVE  PoolInv'
<1>1. Pays(w) /\ UNCHANGED <<cTransfers, cLoc>> /\ Comm!Goto(w, "done")
  BY DEF Comm!DeleteRecord, AtWork, Pays, Comm!ledger
<1>2. PICK to : to = "done"
  OBVIOUS
<1>. QED BY <1>1, <1>2, QuietPool, SameLevelPool

LEMMA MarkPool ==
  ASSUME CommInv, PoolInv, NEW w \in CCalls, Comm!Mark(w)
  PROVE  PoolInv'
<1>1. /\ Pays(w) /\ UNCHANGED cTransfers
      /\ Comm!Advance(w) \/ (UNCHANGED cLoc /\ Comm!Goto(w, "done"))
  BY DEF Comm!Mark, AtWork, Pays, Comm!ledger
<1>2. PICK to : to = "done"
  OBVIOUS
<1>. QED BY <1>1, <1>2, QuietPool, NextLevelPool, SameLevelPool

LEMMA ClawbackPool ==
  ASSUME CommInv, PoolInv, \/ \E s \in Comm!Slots : Comm!ListPosted(s)
                           \/ Comm!Reverse \/ Comm!SaveClawedBack
  PROVE  PoolInv'
<1>1. ASSUME NEW s \in Comm!Slots, Comm!ListPosted(s) PROVE PoolInv'
  <2>1. PICK f, to : f = [Comm!NoFrame EXCEPT !.slot = s, !.rec = records[s]] /\ to = "reverse"
    OBVIOUS
  <2>2. UNCHANGED cTransfers /\ Comm!Goto(Clawer, to) /\ cLoc' = [cLoc EXCEPT ![Clawer] = f]
    BY <1>1, <2>1 DEF Comm!ListPosted, Comm!ledger
  <2>. QED BY <2>2, QuietPool, ClawGoes
<1>2. ASSUME Comm!Reverse PROVE PoolInv'
  <2>1. PICK x, d, amt : /\ x = <<"claw", cLoc[Clawer].slot[1], cLoc[Clawer].slot[2]>>
                         /\ d = cLoc[Clawer].rec.agent
                         /\ amt = Comm!AmountAt(cLoc[Clawer].rec.base, cLoc[Clawer].slot[2])
    OBVIOUS
  <2>2. PICK to \in {"save", "list"} :
        /\ Comm!Goto(Clawer, to) /\ UNCHANGED cLoc
        /\ Comm!Core!Transfer(x, d, CPool, amt) \/ UNCHANGED cTransfers
    BY <1>2, <2>1 DEF Comm!Reverse, Comm!ledger
  <2>3. x[1] = "claw" /\ x = <<x[1], x[2], x[3]>>
    BY <2>1
  <2>4. PoolKept
    BY <2>2, <2>3, DirectKeeps, QuietPool
  <2>. QED BY <2>2, <2>4, ClawGoes
<1>3. ASSUME Comm!SaveClawedBack PROVE PoolInv'
  <2>1. PICK to : to = "list"
    OBVIOUS
  <2>2. UNCHANGED <<cTransfers, cLoc>> /\ Comm!Goto(Clawer, to)
    BY <1>3, <2>1 DEF Comm!SaveClawedBack, Comm!ledger
  <2>. QED BY <2>2, QuietPool, ClawGoes
<1>. QED BY <1>1, <1>2, <1>3

\* The transfers and the calls stay as they are, or every call ends.
LEMMA NobodyPays ==
  ASSUME CommInv, PoolInv, UNCHANGED cTransfers, UNCHANGED cLoc,
         \A w \in CCalls : cPc'[w] = cPc[w] \/ (cPc[w] # "start" /\ cPc'[w] = "done")
  PROVE  PoolInv'
<1>1. PoolKept
  BY QuietPool
<1>2. ASSUME NEW v \in CCalls PROVE CallOK(v)' /\ (Begun(v)' <=> Begun(v)) /\ (Pays(v)' => Pays(v))
  <2>1. CallOK(v)
    BY DEF PoolInv
  <2>. QED BY <2>1 DEF CallOK, Begun, Pays, AtWork
<1>3. ASSUME NEW r \in Refs PROVE RefCovered(r)'
  <2>1. \A w \in CCalls : RefOf[w] = r =>
            /\ Begun(w)' <=> Begun(w)
            /\ Pays(w)' => Pays(w) /\ cLoc'[w].earners = cLoc[w].earners
    BY <1>2
  <2>. QED BY <1>1, <2>1, RefRests DEF PoolKept
<1>. QED BY <1>1, <1>2, <1>3 DEF PoolInv, PoolKept, FundsKept

LEMMA NextPoolInv == CommInv /\ PoolInv /\ Comm!Next => PoolInv'
<1> SUFFICES ASSUME CommInv, PoolInv, Comm!Next PROVE PoolInv'
  OBVIOUS
<1>1. ASSUME NEW a \in CAgents, NEW p \in CAgents \cup {CRoot}, Comm!Reattach(a, p) PROVE PoolInv'
  BY <1>1, NobodyPays DEF Comm!Reattach, Comm!ledger
<1>2. ASSUME NEW s \in Comm!Slots, Comm!Expire(s) PROVE PoolInv'
  BY <1>2, NobodyPays DEF Comm!Expire, Comm!ledger
<1>3. ASSUME NEW w \in CCalls, Comm!Open(w) PROVE PoolInv'
  BY <1>3, NobodyPays DEF Comm!Open, Comm!EnsureAccounts
<1>4. ASSUME Comm!Crash PROVE PoolInv'
  <2>1. /\ cPc' = [w \in CWorkers |-> IF cPc[w] = "start" THEN "start" ELSE Comm!Rest(w)]
        /\ UNCHANGED <<cTransfers, cLoc>>
    BY <1>4 DEF Comm!Crash, Comm!ledger, Comm!Workers, CWorkers
  <2>2. \A w \in CCalls : cPc'[w] = cPc[w] \/ (cPc[w] # "start" /\ cPc'[w] = "done")
    BY <2>1, ChannelsAssumption DEF CWorkers, Comm!Rest
  <2>. QED BY <2>1, <2>2, NobodyPays
<1>. QED BY <1>1, <1>2, <1>3, <1>4, BeginPool, FundPool, LookupPool, HoldPool, PostPool, VoidPool, DeletePool,
            MarkPool, ClawbackPool DEF Comm!Next

LEMMA InitPoolInv == Comm!Init => PoolInv
<1> SUFFICES ASSUME Comm!Init PROVE PoolInv
  OBVIOUS
<1>1. CommInv
  BY InitCommInv
<1>2. ASSUME NEW s \in Comm!Slots PROVE LHold(s) = CNone /\ LPost(s) = CNone
  BY <1>1, LevelIds DEF Comm!Init, LHold, LPost, CNone
<1>3. ASSUME NEW r \in Refs, NEW t \in 0..CMaxAmount PROVE FundId(r, t) = CNone
  BY <1>1, FundIds DEF Comm!Init, FundId, CNone
<1>4. PoolEntries
  BY <1>2, <1>3 DEF PoolEntries
<1>5. \A w \in CCalls : cPc[w] = "start"
  BY ChannelsAssumption DEF Comm!Init, Comm!Workers
<1>6. \A w \in CCalls : CallOK(w)
  BY <1>5 DEF CallOK, AtWork
<1>7. ASSUME NEW r \in Refs PROVE RefCovered(r)
  <2>1. \A n \in Comm!Levels : Drawn(<<r, n>>) = 0
    BY <1>2, SlotOf DEF Drawn
  <2>2. Covers(r, 0, 0)
    BY <1>5, <2>1 DEF Covers, Begun, Pays, AtWork
  <2>3. 0 \in 0..MaxLevel /\ 0 \in Nat
    BY ChannelsAssumption
  <2>. QED BY <2>2, <2>3 DEF RefCovered
<1>. QED BY <1>4, <1>6, <1>7 DEF PoolInv

-----------------------------------------------------------------------------
\* What is drawn at every level, and what is funded by every total.
DrawnAt(r) == [n \in Comm!Levels |-> Drawn(<<r, n>>)]
FundedAt(r) == [t \in 0..CMaxAmount |-> IF FundId(r, t) = CNone THEN 0 ELSE t]

\* What is drawn for a reference is the sum of its levels.
LEMMA DrawnIs ==
  ASSUME CommInv, PoolEntries, NEW r \in Refs
  PROVE  Comm!DrawnFor(r) = SumOver(DrawnAt(r), Comm!Levels) /\ SumOver(DrawnAt(r), Comm!Levels) \in Int
<1> DEFINE v == DrawnAt(r)
           S == Comm!Levels
           IsTotal(f) == f = [s \in SUBSET S |->
              IF s = {} THEN 0
              ELSE Comm!Drawn(<<r, CHOOSE x \in s : TRUE>>) + f[s \ {CHOOSE x \in s : TRUE}]]
<1>2. IsFiniteSet(S)
  BY ChannelsAssumption, FS_Interval DEF Comm!Levels
<1>3. ASSUME NEW n \in S PROVE v[n] \in Int /\ v[n] = Comm!Drawn(<<r, n>>)
  <2>1. PICK s : s = <<r, n>> /\ s \in Comm!Slots
    BY SlotOf
  <2>2. Comm!Drawn(s) = Drawn(s)
    BY Zenon DEF Comm!Drawn, Drawn, LHold, LPost, CNone, Comm!Paid
  <2>3. Drawn(s) \in Nat
    BY <2>1, DrawnNat
  <2>4. v[n] = Drawn(s)
    BY <2>1 DEF DrawnAt
  <2>. QED BY <2>1, <2>2, <2>3, <2>4
<1>4. Comm!DrawnFor(r) = (CHOOSE f : IsTotal(f))[S]
  <2>1. Comm!DrawnFor(r) =
         (CHOOSE f : f = [s \in SUBSET Comm!Levels |->
              IF s = {} THEN 0
              ELSE Comm!Drawn(<<r, CHOOSE x \in s : TRUE>>) + f[s \ {CHOOSE x \in s : TRUE}]])[Comm!Levels]
    BY Zenon DEF Comm!DrawnFor, Comm!MapThenSumSet, Comm!MapThenFoldSet
  <2>. QED BY <2>1, Zenon
<1>5. ASSUME NEW f
      PROVE  [s \in SUBSET S |-> Unfolded(f, v, s)] =
             [s \in SUBSET S |->
              IF s = {} THEN 0
              ELSE Comm!Drawn(<<r, CHOOSE x \in s : TRUE>>) + f[s \ {CHOOSE x \in s : TRUE}]]
  <2>1. ASSUME NEW s \in SUBSET S
        PROVE  Unfolded(f, v, s) =
               IF s = {} THEN 0
               ELSE Comm!Drawn(<<r, CHOOSE x \in s : TRUE>>) + f[s \ {CHOOSE x \in s : TRUE}]
    <3>1. CASE s = {}
      BY <3>1 DEF Unfolded
    <3>2. CASE s # {}
      <4>1. PICK p : p = (CHOOSE x \in s : TRUE) /\ p = Pick(s)
        BY DEF Pick
      <4>2. p \in S
        BY <3>2, <4>1, PickIn
      <4>3. v[p] = Comm!Drawn(<<r, p>>)
        BY <1>3, <4>2
      <4>4. Unfolded(f, v, s) = v[p] + f[s \ {p}]
        BY <3>2, <4>1, Zenon DEF Unfolded
      <4>. QED BY <3>2, <4>1, <4>3, <4>4, Zenon
    <3>. QED BY <3>1, <3>2
  <2>. HIDE DEF v, S
  <2>. QED BY <2>1, Zenon
<1>6. \A f : IsTotal(f) <=> IsSum(f, v, S)
  BY <1>5, Zenon DEF IsSum
<1> HIDE DEF v, S, IsTotal
<1>7. PICK g : IsSum(g, v, S)
  BY <1>2, <1>3, SumSolution
<1>8. IsTotal(CHOOSE h : IsTotal(h))
  BY <1>6, <1>7, Zenon
<1>9. PICK f : f = (CHOOSE h : IsTotal(h)) /\ IsSum(f, v, S)
  BY <1>6, <1>8, Zenon
<1>10. f[S] = SumOver(v, S) /\ SumOver(v, S) \in Int
  BY <1>2, <1>3, <1>9, SumOfSolution
<1>11. Comm!DrawnFor(r) = f[S]
  BY <1>4, <1>9, Zenon
<1>. QED BY <1>10, <1>11, Zenon DEF v, S

\* What is funded for a reference is the sum over the totals.
LEMMA FundedIs ==
  ASSUME PoolEntries, NEW r \in Refs
  PROVE  Comm!FundedFor(r) = SumOver(FundedAt(r), (0..CMaxAmount)) /\ SumOver(FundedAt(r), (0..CMaxAmount)) \in Int
<1> DEFINE v == FundedAt(r)
           S == (0..CMaxAmount)
           IsTotal(f) == f = [s \in SUBSET S |->
              IF s = {} THEN 0
              ELSE (IF Comm!PoolFunding(r, CHOOSE x \in s : TRUE) = Comm!Core!NoTransfer THEN 0 ELSE Comm!PoolFunding(r, CHOOSE x \in s : TRUE).amount) + f[s \ {CHOOSE x \in s : TRUE}]]
<1>2. IsFiniteSet(S)
  BY CommissionAssumption, FS_Interval
<1>3. ASSUME NEW n \in S
      PROVE  /\ v[n] \in Int
             /\ v[n] = (IF Comm!PoolFunding(r, n) = Comm!Core!NoTransfer THEN 0 ELSE Comm!PoolFunding(r, n).amount)
  <2>1. Comm!PoolFunding(r, n) = FundId(r, n)
    BY DEF Comm!PoolFunding, FundId
  <2>2. FundId(r, n) # CNone => FundId(r, n).amount = n
    BY DEF PoolEntries
  <2>3. v[n] = IF FundId(r, n) = CNone THEN 0 ELSE n
    BY DEF FundedAt
  <2>. QED BY <2>1, <2>2, <2>3 DEF CNone
<1>4. Comm!FundedFor(r) = (CHOOSE f : IsTotal(f))[S]
  <2>1. Comm!FundedFor(r) =
         (CHOOSE f : f = [s \in SUBSET (0..CMaxAmount) |->
              IF s = {} THEN 0
              ELSE (IF Comm!PoolFunding(r, CHOOSE x \in s : TRUE) = Comm!Core!NoTransfer THEN 0 ELSE Comm!PoolFunding(r, CHOOSE x \in s : TRUE).amount) + f[s \ {CHOOSE x \in s : TRUE}]])[(0..CMaxAmount)]
    BY Zenon DEF Comm!FundedFor, Comm!MapThenSumSet, Comm!MapThenFoldSet
  <2>. QED BY <2>1, Zenon
<1>5. ASSUME NEW f
      PROVE  [s \in SUBSET S |-> Unfolded(f, v, s)] =
             [s \in SUBSET S |->
              IF s = {} THEN 0
              ELSE (IF Comm!PoolFunding(r, CHOOSE x \in s : TRUE) = Comm!Core!NoTransfer THEN 0 ELSE Comm!PoolFunding(r, CHOOSE x \in s : TRUE).amount) + f[s \ {CHOOSE x \in s : TRUE}]]
  <2>1. ASSUME NEW s \in SUBSET S
        PROVE  Unfolded(f, v, s) =
               IF s = {} THEN 0
               ELSE (IF Comm!PoolFunding(r, CHOOSE x \in s : TRUE) = Comm!Core!NoTransfer THEN 0 ELSE Comm!PoolFunding(r, CHOOSE x \in s : TRUE).amount) + f[s \ {CHOOSE x \in s : TRUE}]
    <3>1. CASE s = {}
      BY <3>1 DEF Unfolded
    <3>2. CASE s # {}
      <4>1. PICK p : p = (CHOOSE x \in s : TRUE) /\ p = Pick(s)
        BY DEF Pick
      <4>2. p \in S
        BY <3>2, <4>1, PickIn
      <4>3. v[p] = (IF Comm!PoolFunding(r, p) = Comm!Core!NoTransfer THEN 0 ELSE Comm!PoolFunding(r, p).amount)
        BY <1>3, <4>2
      <4>4. Unfolded(f, v, s) = v[p] + f[s \ {p}]
        BY <3>2, <4>1, Zenon DEF Unfolded
      <4>. QED BY <3>2, <4>1, <4>3, <4>4, Zenon
    <3>. QED BY <3>1, <3>2
  <2>. HIDE DEF v, S
  <2>. QED BY <2>1, Zenon
<1>6. \A f : IsTotal(f) <=> IsSum(f, v, S)
  BY <1>5, Zenon DEF IsSum
<1> HIDE DEF v, S, IsTotal
<1>7. PICK g : IsSum(g, v, S)
  BY <1>2, <1>3, SumSolution
<1>8. IsTotal(CHOOSE h : IsTotal(h))
  BY <1>6, <1>7, Zenon
<1>9. PICK f : f = (CHOOSE h : IsTotal(h)) /\ IsSum(f, v, S)
  BY <1>6, <1>8, Zenon
<1>10. f[S] = SumOver(v, S) /\ SumOver(v, S) \in Int
  BY <1>2, <1>3, <1>9, SumOfSolution
<1>11. Comm!FundedFor(r) = f[S]
  BY <1>4, <1>9, Zenon
<1>. QED BY <1>10, <1>11, Zenon DEF v, S

\* A reference whose calls agree is covered.
LEMMA RefIsCovered ==
  ASSUME CommInv, PoolInv, NEW r \in Refs, Comm!Agreed(r)
  PROVE  Comm!Covered(r)
<1>1. PICK M \in 0..MaxLevel, b \in Nat : Covers(r, M, b)
  BY DEF PoolInv, RefCovered
<1>2. PICK S, U, T : S = Comm!Levels /\ U = 1..M /\ T = 0..CMaxAmount
  OBVIOUS
<1>3. U \subseteq S /\ IsFiniteSet(S) /\ IsFiniteSet(U) /\ IsFiniteSet(T) /\ M \in Nat
  <2>1. MaxLevel \in Nat /\ CMaxAmount \in Nat
    BY ChannelsAssumption, CommissionAssumption
  <2>2. IsFiniteSet(1..MaxLevel) /\ IsFiniteSet(1..M) /\ IsFiniteSet(0..CMaxAmount)
    BY <2>1, FS_Interval
  <2>. QED BY <1>2, <2>1, <2>2 DEF Comm!Levels
<1>4. PICK d, f, z : /\ d = DrawnAt(r) /\ f = FundedAt(r)
                     /\ z = [n \in S |-> IF n \in U THEN LevelsOf(b)[n] ELSE 0]
  OBVIOUS
<1>5. ASSUME NEW n \in S PROVE d[n] \in Int /\ z[n] \in Nat /\ d[n] <= z[n]
  <2>1. PICK x : x = Drawn(<<r, n>>) /\ x \in Nat /\ d[n] = x
    BY <1>2, <1>4, SlotOf, DrawnNat DEF DrawnAt, PoolInv
  <2>2. PICK y : y = LevelsOf(b)[n] /\ y \in Nat
    BY <1>2, LevelAmounts
  <2>3. x # 0 => n <= M /\ x <= y
    BY <1>1, <1>2, <2>1, <2>2 DEF Covers
  <2>4. n \in U <=> n <= M
    BY <1>2, <1>3 DEF Comm!Levels
  <2>5. z[n] = IF n \in U THEN y ELSE 0
    BY <1>4, <2>2
  <2>. QED BY <2>1, <2>2, <2>3, <2>4, <2>5
<1>6. SumOver(d, S) <= SumOver(z, S)
  BY <1>3, <1>5, SumLeq
<1>7. SumOver(z, S) = SumOver(LevelsOf(b), U)
  <2>1. \A n \in S : z[n] \in Int
    BY <1>5
  <2>2. \A n \in S \ U : z[n] = 0
    BY <1>4
  <2>3. SumOver(z, S) = SumOver(z, U)
    BY <1>3, <2>1, <2>2, SumOfPart
  <2>4. \A n \in U : z[n] \in Int /\ z[n] = LevelsOf(b)[n]
    BY <1>3, <1>4, <2>1
  <2>5. SumOver(z, U) = SumOver(LevelsOf(b), U)
    BY <1>3, <2>4, SumCongruent
  <2>. QED BY <2>3, <2>5
<1>8. SumOver(LevelsOf(b), U) <= SumOver(f, T)
  <2>1. ASSUME NEW t \in T PROVE f[t] \in Nat
    BY <1>2, <1>4 DEF FundedAt
  <2>2. CASE M = 0
    <3>1. U = {}
      BY <1>2, <2>2
    <3>2. SumOver(LevelsOf(b), U) = 0
      BY <3>1, SumEmpty, Zenon
    <3>3. {} \subseteq T
      OBVIOUS
    <3>4. SumOver(f, {}) <= SumOver(f, T)
      BY <1>3, <2>1, <3>3, SumPart
    <3>5. SumOver(f, {}) = 0
      BY SumEmpty
    <3>. QED BY <3>2, <3>4, <3>5, Zenon
  <2>3. CASE M # 0
    <3>1. PICK t : t = TotalTo(b, M) /\ FundId(r, t) # CNone
      BY <1>1, <2>3 DEF Covers
    <3>2. PICK w \in CCalls : BaseOf[w] = b
      BY <1>1, <2>3 DEF Covers
    <3>3. t \in T
      <4>1. M \in Comm!Levels
        BY <2>3 DEF Comm!Levels
      <4>. QED BY <1>2, <3>1, <3>2, <4>1, TotalFits
    <3>4. f[t] = t
      BY <1>2, <1>4, <3>1, <3>3 DEF FundedAt
    <3>5. t \in Int
      BY <1>2, <3>3
    <3>6. {t} \subseteq T
      BY <3>3
    <3>7. SumOver(f, {t}) <= SumOver(f, T)
      BY <1>3, <2>1, <3>6, SumPart
    <3>8. SumOver(f, {t}) = t
      <4>1. SumOver(f, {t}) = f[t] + SumOver(f, {t} \ {t})
        <5>1. PICK W : W = {t}
          OBVIOUS
        <5>2. IsFiniteSet(W) /\ t \in W /\ \A x \in W : f[x] \in Int
          BY <3>4, <3>5, <5>1, FS_Singleton
        <5>3. SumOver(f, W) = f[t] + SumOver(f, W \ {t})
          BY <5>2, SumRemove
        <5>. QED BY <5>1, <5>3, Zenon
      <4>2. PICK W : W = {t} \ {t}
        OBVIOUS
      <4>3. W = {}
        BY <4>2
      <4>4. SumOver(f, W) = 0
        BY <4>3, SumEmpty, Zenon
      <4>5. PICK p, q : p = SumOver(f, {t}) /\ q = SumOver(f, W)
        OBVIOUS
      <4>6. q = 0 /\ p = t + q
        BY <3>4, <4>1, <4>2, <4>4, <4>5, Zenon
      <4>7. p = t
        BY <3>5, <4>6
      <4>. QED BY <4>5, <4>7
    <3>9. SumOver(LevelsOf(b), U) = t
      BY <1>2, <3>1, Zenon DEF TotalTo
    <3>. QED BY <3>7, <3>8, <3>9, Zenon
  <2>. QED BY <2>2, <2>3
<1>9. SumOver(d, S) \in Int /\ SumOver(f, T) \in Int /\ Comm!DrawnFor(r) = SumOver(d, S) /\ Comm!FundedFor(r) = SumOver(f, T)
  <2>1. Comm!DrawnFor(r) = SumOver(DrawnAt(r), Comm!Levels) /\ SumOver(DrawnAt(r), Comm!Levels) \in Int
    BY DrawnIs DEF PoolInv
  <2>2. Comm!FundedFor(r) = SumOver(FundedAt(r), (0..CMaxAmount)) /\ SumOver(FundedAt(r), (0..CMaxAmount)) \in Int
    BY FundedIs DEF PoolInv
  <2>. QED BY <1>2, <1>4, <2>1, <2>2, Zenon
<1>10. PICK p, q, u, v : p = SumOver(d, S) /\ q = SumOver(f, T) /\ u = SumOver(z, S) /\ v = SumOver(LevelsOf(b), U)
  OBVIOUS
<1>11. u \in Int
  <2>1. \A n \in S : z[n] \in Int /\ z[n] = z[n]
    BY <1>5
  <2>. QED BY <1>3, <1>10, <2>1, SumCongruent
<1>12. p \in Int /\ q \in Int /\ p <= u /\ u = v /\ v <= q
  BY <1>6, <1>7, <1>8, <1>9, <1>10, Zenon
<1>13. p <= q
  BY <1>11, <1>12
<1>14. Comm!DrawnFor(r) <= Comm!FundedFor(r)
  BY <1>9, <1>10, <1>13, Zenon
<1>. QED BY <1>14 DEF Comm!Covered

\* No order of replays, failures half way, re-attached agents and clawbacks
\* holds and pays more for a reference than was moved into the commissions pool
\* for it (Accrue funds the pool before any hold, under an id that names the
\* total), as long as the calls made for it agree on the settled amount: then
\* the call with the most earners among those that funded covers all of them.
\* That they agree is asked of the state, not of the constants.
THEOREM PoolNeverOverdrawn == Spec => []PoolCovered
<1> DEFINE Inv == focus = "commission" => CommInv /\ PoolInv
<1>1. Init => Inv
  BY InitCommInv, InitPoolInv DEF Init
<1>2. Inv /\ [Next]_vars => Inv'
  <2> SUFFICES ASSUME Inv, [Next]_vars PROVE Inv'
    OBVIOUS
  <2>1. CASE UNCHANGED <<focus, cVars>>
    <3>1. UNCHANGED <<parent, moves, cTransfers, records, cPc, cLoc>>
      BY <2>1 DEF cVars
    <3>2. CommInv /\ PoolInv => CommInv' /\ PoolInv'
      BY <3>1, QuietLedger, NobodyMoves, NobodyPays
    <3>. QED BY <2>1, <3>2
  <2>2. CASE CommStep
    BY <2>2, NextCommInv, NextPoolInv DEF CommStep
  <2>. QED BY <2>1, <2>2 DEF Next, vars, HierStep, USSDStep, SettlementStep, FloatStep
<1>3. Inv => PoolCovered
  BY RefIsCovered DEF PoolCovered, Comm!PoolCovered
<1>. QED BY <1>1, <1>2, <1>3, PTL DEF Spec

-----------------------------------------------------------------------------
(* The hierarchy.                                                          *)

HWorkers == Replicas \cup Vetters

\* A stored row.
HRow(r) == r # Hier!NoRow /\ r = [parent |-> r.parent, vetting |-> r.vetting]

\* What a replica attaching an agent knows where it is: both agents have rows,
\* from the locks to the commit they are locked by it, and from the check on
\* the new parent is neither the child nor directly below it.
AttachClaim(w) ==
  /\ hPc[w] \in {"idle", "lock", "check", "commit"}
  /\ hPc[w] # "idle" =>
       /\ hLoc[w].child \in HAgents /\ rows[hLoc[w].child] # Hier!NoRow
       /\ hLoc[w].to # HRoot => hLoc[w].to \in HAgents /\ rows[hLoc[w].to] # Hier!NoRow
  /\ hPc[w] \in {"check", "commit"} =>
       lock[hLoc[w].child] = w /\ (hLoc[w].to # HRoot => lock[hLoc[w].to] = w)
  /\ hPc[w] = "commit" /\ hLoc[w].to # HRoot =>
       hLoc[w].to # hLoc[w].child /\ rows[hLoc[w].to].parent # hLoc[w].child

\* No two agents, and no agent and itself, are each other's parent.
NoPair ==
  \A a, b \in HAgents :
    rows[a] # Hier!NoRow /\ rows[b] # Hier!NoRow => ~(rows[a].parent = b /\ rows[b].parent = a)

HierInv ==
  /\ DOMAIN rows = HAgents /\ DOMAIN lock = HAgents
  /\ DOMAIN hPc = HWorkers /\ DOMAIN hLoc = HWorkers
  /\ active \subseteq Replicas
  /\ \A a \in HAgents : rows[a] # Hier!NoRow => HRow(rows[a])
  /\ \A v \in Vetters : hPc[v] = "idle"
  /\ \A w \in Replicas : AttachClaim(w)
  /\ NoPair

LEMMA SomeAgents ==
  ASSUME NEW a \in HAgents
  PROVE  Hier!Cardinality(HAgents) \in Nat /\ Hier!Cardinality(HAgents) >= 1
<1>1. Hier!Cardinality(HAgents) = Cardinality(HAgents)
  BY DEF Hier!Cardinality, Cardinality
<1>2. Cardinality(HAgents) \in Nat /\ Cardinality(HAgents) # 0
  BY ChannelsAssumption, FS_EmptySet, FS_CardinalityType
<1>. QED BY <1>1, <1>2

\* InSubtree finds the agent itself and the agents directly below it.
LEMMA SubtreeNear ==
  ASSUME NEW a \in HAgents, NEW d \in HAgents, rows[d] # Hier!NoRow, d \notin Hier!Subtree(a)
  PROVE  d # a /\ rows[d].parent # a
<1>1. Hier!Below(a, d) = {}
  BY DEF Hier!Subtree, Hier!Registered
<1>2. 0 \in 0..Hier!Cardinality(HAgents) /\ 1 \in 0..Hier!Cardinality(HAgents)
  BY SomeAgents
<1>3. ASSUME d = a PROVE FALSE
  <2>1. PICK way \in [0..0 -> HAgents] : way = [i \in 0..0 |-> d]
    OBVIOUS
  <2>2. way[0] = d /\ way[0] = a /\ \A i \in 1..0 : way[i] = rows[way[i - 1]].parent
    BY <1>3, <2>1
  <2>3. 0 \in Hier!Below(a, d)
    BY <1>2, <2>2 DEF Hier!Below
  <2>. QED BY <1>1, <2>3
<1>4. ASSUME rows[d].parent = a PROVE FALSE
  <2>1. PICK way \in [0..1 -> HAgents] : way = [i \in 0..1 |-> IF i = 0 THEN d ELSE a]
    OBVIOUS
  <2>2. way[0] = d /\ way[1] = a
    BY <2>1
  <2>3. \A i \in 1..1 : way[i] = rows[way[i - 1]].parent
    <3>1. \A i \in 1..1 : i = 1 /\ i - 1 = 0
      OBVIOUS
    <3>. QED BY <1>4, <2>2, <3>1
  <2>4. 1 \in Hier!Below(a, d)
    BY <1>2, <2>2, <2>3 DEF Hier!Below
  <2>. QED BY <1>1, <2>4
<1>. QED BY <1>3, <1>4

\* What a step of the replica w leaves to the others.
HierKeeps(w) ==
  /\ DOMAIN rows' = HAgents /\ DOMAIN lock' = HAgents
  /\ \A a \in HAgents : rows[a] # Hier!NoRow => rows'[a] # Hier!NoRow
  /\ \A a \in HAgents : rows'[a] # Hier!NoRow => HRow(rows[a])'
  /\ \A v \in Replicas \ {w}, a \in HAgents : lock[a] = v => lock'[a] = v /\ rows'[a] = rows[a]
  /\ NoPair'

LEMMA ReplicaStep ==
  ASSUME HierInv, NEW w \in Replicas, HierKeeps(w), NEW to, Hier!Goto(w, to), UNCHANGED active,
         UNCHANGED hLoc \/ \E f : hLoc' = [hLoc EXCEPT ![w] = f], AttachClaim(w)'
  PROVE  HierInv'
<1>1. /\ DOMAIN hPc' = HWorkers /\ DOMAIN hLoc' = HWorkers
      /\ \A v \in HWorkers \ {w} : hPc'[v] = hPc[v] /\ hLoc'[v] = hLoc[v]
  BY DEF HierInv, Hier!Goto
<1>2. ASSUME NEW v \in Replicas, v # w PROVE AttachClaim(v)'
  <2>1. AttachClaim(v) /\ hPc'[v] = hPc[v] /\ hLoc'[v] = hLoc[v]
    BY <1>1, <1>2 DEF HierInv, HWorkers
  <2>2. PICK ch, up : ch = hLoc[v].child /\ up = hLoc[v].to
    OBVIOUS
  <2>3. ASSUME NEW a \in HAgents
        PROVE  /\ rows[a] # Hier!NoRow => rows'[a] # Hier!NoRow
               /\ lock[a] = v => lock'[a] = v /\ rows'[a] = rows[a]
    BY <1>2, <2>3 DEF HierKeeps
  <2>. QED BY <2>1, <2>2, <2>3 DEF AttachClaim
<1>3. \A v \in Vetters : hPc'[v] = "idle"
  <2>1. \A v \in Vetters : v \in HWorkers \ {w} /\ hPc[v] = "idle"
    BY ChannelsAssumption DEF HWorkers, HierInv
  <2>. QED BY <1>1, <2>1
<1>4. \A v \in Replicas : AttachClaim(v)'
  BY <1>2
<1>. QED BY <1>1, <1>3, <1>4 DEF HierInv, HierKeeps

\* The rows stay as they are, and the locks of the other replicas too.
LEMMA RowsRest ==
  ASSUME HierInv, NEW w \in Replicas, UNCHANGED rows, DOMAIN lock' = HAgents,
         \A v \in Replicas \ {w}, a \in HAgents : lock[a] = v => lock'[a] = v
  PROVE  HierKeeps(w)
<1>1. NoPair'
  BY DEF HierInv, NoPair
<1>2. \A a \in HAgents : rows'[a] # Hier!NoRow => HRow(rows[a])'
  BY DEF HierInv, HRow
<1>. QED BY <1>1, <1>2 DEF HierKeeps, HierInv

LEMMA ReleaseKeeps ==
  ASSUME NEW w \in Replicas, Hier!Release(w)
  PROVE  DOMAIN lock' = HAgents /\ \A v \in Replicas \ {w}, a \in HAgents : lock[a] = v => lock'[a] = v
BY DEF Hier!Release

\* A transaction that ends.
LEMMA EndStep ==
  ASSUME HierInv, NEW w \in Replicas, HierKeeps(w), Hier!Goto(w, "idle"), UNCHANGED active,
         hLoc' = [hLoc EXCEPT ![w] = Hier!NoWork]
  PROVE  HierInv'
<1>1. hPc'[w] = "idle"
  BY DEF HierInv, HWorkers, Hier!Goto
<1>2. AttachClaim(w)'
  BY <1>1 DEF AttachClaim
<1>. QED BY <1>2, ReplicaStep

LEMMA BeginAttachStep ==
  ASSUME HierInv, NEW w \in Replicas, NEW caller, NEW ch \in HAgents, NEW up \in HAgents \cup {HRoot},
         Hier!BeginAttach(w, caller, ch, up)
  PROVE  HierInv'
<1>1. PICK f : f = [Hier!NoWork EXCEPT !.child = ch, !.to = up]
  OBVIOUS
<1>2. /\ hLoc' = [hLoc EXCEPT ![w] = f] /\ Hier!Goto(w, "lock") /\ UNCHANGED <<rows, lock, active>>
      /\ rows[ch] # Hier!NoRow /\ (up # HRoot => rows[up] # Hier!NoRow)
  BY <1>1 DEF Hier!BeginAttach, Hier!Visible, Hier!Registered
<1>3. f.child = ch /\ f.to = up
  BY <1>1 DEF Hier!NoWork
<1>4. hPc'[w] = "lock" /\ hLoc'[w] = f
  BY <1>2 DEF HierInv, HWorkers, Hier!Goto
<1>5. AttachClaim(w)'
  BY <1>2, <1>3, <1>4 DEF AttachClaim
<1>6. HierKeeps(w)
  BY <1>2, RowsRest DEF HierInv
<1>. QED BY <1>2, <1>5, <1>6, ReplicaStep

LEMMA LockRowsStep ==
  ASSUME HierInv, NEW w \in Replicas, Hier!LockRows(w)
  PROVE  HierInv'
<1>1. /\ hPc[w] = "lock" /\ (\A a \in Hier!Involved(w) : lock[a] = HRoot)
      /\ lock' = [a \in HAgents |-> IF a \in Hier!Involved(w) THEN w ELSE lock[a]]
      /\ Hier!Goto(w, "check") /\ UNCHANGED <<rows, active, hLoc>>
  BY DEF Hier!LockRows
<1>2. PICK ch, up : ch = hLoc[w].child /\ up = hLoc[w].to
  OBVIOUS
<1>3. /\ ch \in HAgents /\ rows[ch] # Hier!NoRow /\ (up # HRoot => up \in HAgents /\ rows[up] # Hier!NoRow)
  BY <1>1, <1>2 DEF HierInv, AttachClaim
<1>4. Hier!Involved(w) = {ch, up} \ {HRoot}
  BY <1>2 DEF Hier!Involved
<1>5. ch # HRoot
  BY <1>3, ChannelsAssumption
<1>6. lock'[ch] = w /\ (up # HRoot => lock'[up] = w)
  BY <1>1, <1>3, <1>4, <1>5
<1>7. hPc'[w] = "check" /\ hLoc'[w] = hLoc[w]
  BY <1>1 DEF HierInv, HWorkers, Hier!Goto
<1>8. AttachClaim(w)'
  BY <1>1, <1>2, <1>3, <1>6, <1>7 DEF AttachClaim
<1>9. ASSUME NEW v \in Replicas \ {w}, NEW a \in HAgents, lock[a] = v PROVE lock'[a] = v
  <2>1. a \notin Hier!Involved(w)
    BY <1>1, <1>9, ChannelsAssumption
  <2>. QED BY <1>1, <1>9, <2>1
<1>10. HierKeeps(w)
  BY <1>1, <1>9, RowsRest
<1>. QED BY <1>1, <1>8, <1>10, ReplicaStep

LEMMA CheckAttachStep ==
  ASSUME HierInv, NEW w \in Replicas, Hier!CheckAttach(w)
  PROVE  HierInv'
<1>1. PICK ch, up : ch = hLoc[w].child /\ up = hLoc[w].to
  OBVIOUS
<1>2. /\ hPc[w] = "check" /\ UNCHANGED <<rows, active>>
      /\ \/ Hier!Attachable(ch, up) /\ Hier!Goto(w, "commit") /\ UNCHANGED <<lock, hLoc>>
         \/ Hier!Goto(w, "idle") /\ Hier!Release(w) /\ hLoc' = [hLoc EXCEPT ![w] = Hier!NoWork]
  BY <1>1 DEF Hier!CheckAttach
<1>3. CASE Hier!Attachable(ch, up) /\ Hier!Goto(w, "commit") /\ UNCHANGED <<lock, hLoc>>
  <2>1. HierKeeps(w)
    BY <1>2, <1>3, RowsRest DEF HierInv
  <2>2. AttachClaim(w)
    BY DEF HierInv
  <2>3. ASSUME up # HRoot PROVE up # ch /\ rows[up].parent # ch
    <3>1. up \notin Hier!Subtree(ch)
      BY <1>3, <2>3 DEF Hier!Attachable
    <3>2. ch \in HAgents /\ up \in HAgents /\ rows[up] # Hier!NoRow
      BY <1>1, <1>2, <2>2, <2>3 DEF AttachClaim
    <3>. QED BY <3>1, <3>2, SubtreeNear
  <2>4. hPc'[w] = "commit" /\ hLoc'[w] = hLoc[w]
    BY <1>3 DEF HierInv, HWorkers, Hier!Goto
  <2>5. AttachClaim(w)'
    BY <1>1, <1>2, <1>3, <2>2, <2>3, <2>4 DEF AttachClaim
  <2>. QED BY <1>2, <1>3, <2>1, <2>5, ReplicaStep
<1>4. CASE Hier!Goto(w, "idle") /\ Hier!Release(w) /\ hLoc' = [hLoc EXCEPT ![w] = Hier!NoWork]
  BY <1>2, <1>4, ReleaseKeeps, RowsRest, EndStep
<1>. QED BY <1>2, <1>3, <1>4

\* What the commit writes: the child's parent link.
LEMMA CommitWrites ==
  ASSUME HierInv, NEW w \in Replicas, Hier!CommitAttach(w),
         NEW ch, NEW up, ch = hLoc[w].child, up = hLoc[w].to
  PROVE  /\ ch \in HAgents /\ rows[ch] # Hier!NoRow
         /\ DOMAIN rows' = HAgents /\ HRow(rows'[ch]) /\ rows'[ch].parent = up
         /\ \A a \in HAgents \ {ch} : rows'[a] = rows[a]
<1>2. hPc[w] = "commit" /\ rows' = [rows EXCEPT ![ch].parent = up]
  BY DEF Hier!CommitAttach
<1>3. ch \in HAgents /\ rows[ch] # Hier!NoRow
  BY <1>2 DEF HierInv, AttachClaim
<1>4. PICK r : r = rows[ch] /\ r = [parent |-> r.parent, vetting |-> r.vetting]
  BY <1>3 DEF HierInv, HRow
<1>5. PICK q : q = [r EXCEPT !.parent = up]
  OBVIOUS
<1>6. rows' = [rows EXCEPT ![ch] = q]
  BY <1>2, <1>3, <1>4, <1>5 DEF HierInv
<1>7. q = [parent |-> up, vetting |-> r.vetting]
  BY <1>4, <1>5
<1>8. q.parent = up /\ HRow(q)
  <2>1. q # Hier!NoRow
    BY <1>7 DEF Hier!NoRow
  <2>. QED BY <1>7, <2>1 DEF HRow
<1>9. /\ DOMAIN rows' = HAgents /\ rows'[ch] = q
      /\ \A a \in HAgents \ {ch} : rows'[a] = rows[a]
  BY <1>3, <1>6 DEF HierInv
<1>. QED BY <1>3, <1>8, <1>9

LEMMA CommitAttachStep ==
  ASSUME HierInv, NEW w \in Replicas, Hier!CommitAttach(w)
  PROVE  HierInv'
<1>1. PICK ch, up : ch = hLoc[w].child /\ up = hLoc[w].to
  OBVIOUS
<1>2. /\ hPc[w] = "commit" /\ Hier!Release(w) /\ Hier!Goto(w, "idle") /\ UNCHANGED active
      /\ hLoc' = [hLoc EXCEPT ![w] = Hier!NoWork]
  BY DEF Hier!CommitAttach
<1>3. /\ ch \in HAgents /\ rows[ch] # Hier!NoRow /\ lock[ch] = w
      /\ up # HRoot => up # ch /\ rows[up].parent # ch
  BY <1>1, <1>2 DEF HierInv, AttachClaim
<1>4. PICK q : q = rows'[ch]
  OBVIOUS
<1>8. HRow(q) /\ q.parent = up
  BY <1>1, <1>4, CommitWrites
<1>9. /\ DOMAIN rows' = HAgents /\ rows'[ch] = q
      /\ \A a \in HAgents \ {ch} : rows'[a] = rows[a]
  BY <1>1, <1>4, CommitWrites
<1>10. NoPair'
  <2> SUFFICES ASSUME NEW a \in HAgents, NEW b \in HAgents, rows'[a] # Hier!NoRow, rows'[b] # Hier!NoRow,
                      rows'[a].parent = b, rows'[b].parent = a
               PROVE  FALSE
    BY DEF NoPair
  <2>1. \A x \in HAgents : up = x => x # HRoot
    BY ChannelsAssumption
  <2>2. CASE a = ch
    BY <1>3, <1>8, <1>9, <2>1, <2>2
  <2>3. CASE b = ch
    BY <1>3, <1>8, <1>9, <2>1, <2>3
  <2>4. CASE a # ch /\ b # ch
    BY <1>9, <2>4 DEF HierInv, NoPair
  <2>. QED BY <2>2, <2>3, <2>4
<1>11. \A a \in HAgents : rows'[a] # Hier!NoRow => HRow(rows[a])'
  <2>1. ASSUME NEW a \in HAgents, rows'[a] # Hier!NoRow PROVE HRow(rows'[a])
    <3>1. CASE a = ch
      BY <1>8, <1>9, <3>1
    <3>2. CASE a # ch
      BY <1>9, <2>1, <3>2 DEF HierInv
    <3>. QED BY <3>1, <3>2
  <2>. QED BY <2>1 DEF HRow
<1>12. \A a \in HAgents : rows[a] # Hier!NoRow => rows'[a] # Hier!NoRow
  BY <1>8, <1>9 DEF HRow
<1>13. HierKeeps(w)
  BY <1>2, <1>3, <1>9, <1>10, <1>11, <1>12, ReleaseKeeps DEF HierKeeps
<1>. QED BY <1>2, <1>13, EndStep

LEMMA RegisterStep ==
  ASSUME HierInv, NEW n \in HAgents, Hier!Register(n)
  PROVE  HierInv'
<1>1. PICK q : q = [parent |-> HRoot, vetting |-> "pending"]
  OBVIOUS
<1>2. /\ rows[n] = Hier!NoRow /\ rows' = [rows EXCEPT ![n] = q]
      /\ UNCHANGED <<lock, active, hPc, hLoc>>
  BY <1>1 DEF Hier!Register
<1>3. q.parent = HRoot /\ HRow(q)
  <2>1. q # Hier!NoRow
    BY <1>1 DEF Hier!NoRow
  <2>. QED BY <1>1, <2>1 DEF HRow
<1>4. /\ DOMAIN rows' = HAgents /\ rows'[n] = q
      /\ \A a \in HAgents \ {n} : rows'[a] = rows[a]
  BY <1>2 DEF HierInv
<1>5. NoPair'
  <2> SUFFICES ASSUME NEW a \in HAgents, NEW b \in HAgents, rows'[a] # Hier!NoRow, rows'[b] # Hier!NoRow,
                      rows'[a].parent = b, rows'[b].parent = a
               PROVE  FALSE
    BY DEF NoPair
  <2>1. a # n /\ b # n
    BY <1>3, <1>4, ChannelsAssumption
  <2>. QED BY <1>4, <2>1 DEF HierInv, NoPair
<1>6. \A a \in HAgents : rows'[a] # Hier!NoRow => HRow(rows[a])'
  <2>1. ASSUME NEW a \in HAgents, rows'[a] # Hier!NoRow PROVE HRow(rows'[a])
    <3>1. CASE a = n
      BY <1>3, <1>4, <3>1
    <3>2. CASE a # n
      BY <1>4, <2>1, <3>2 DEF HierInv
    <3>. QED BY <3>1, <3>2
  <2>. QED BY <2>1 DEF HRow
<1>7. ASSUME NEW v \in Replicas PROVE AttachClaim(v)'
  <2>1. AttachClaim(v) /\ hPc'[v] = hPc[v] /\ hLoc'[v] = hLoc[v] /\ lock' = lock
    BY <1>2 DEF HierInv
  <2>2. \A a \in HAgents : rows[a] # Hier!NoRow => rows'[a] = rows[a]
    BY <1>2, <1>4
  <2>. QED BY <2>1, <2>2 DEF AttachClaim
<1>. QED BY <1>2, <1>4, <1>5, <1>6, <1>7 DEF HierInv

LEMMA NextHierInv == HierInv /\ Hier!Next => HierInv'
<1> SUFFICES ASSUME HierInv, Hier!Next PROVE HierInv'
  OBVIOUS
<1>1. ASSUME NEW w \in Replicas, Hier!AbortAttach(w) PROVE HierInv'
  BY <1>1, ReleaseKeeps, RowsRest, EndStep DEF Hier!AbortAttach
<1>2. ASSUME NEW v \in Vetters, (\E a \in Vetted, to \in Hier!Vettings : Hier!BeginVetting(v, a, to)) \/ Hier!PutVetting(v)
      PROVE  FALSE
  <2>1. v \notin active /\ hPc[v] = "idle"
    BY ChannelsAssumption DEF HierInv
  <2>. QED BY <1>2, <2>1 DEF Hier!BeginVetting, Hier!PutVetting
<1>. QED BY <1>1, <1>2, RegisterStep, BeginAttachStep, LockRowsStep, CheckAttachStep, CommitAttachStep
         DEF Hier!Next

LEMMA InitHierInv == Hier!Init /\ active \subseteq Replicas => HierInv
<1> SUFFICES ASSUME Hier!Init, active \subseteq Replicas PROVE HierInv
  OBVIOUS
<1>1. \A a \in HAgents : rows[a] = Hier!NoRow
  BY DEF Hier!Init
<1>2. \A w \in HWorkers : hPc[w] = "idle"
  BY DEF Hier!Init, HWorkers, Hier!Workers
<1>3. NoPair
  BY <1>1 DEF NoPair
<1>4. \A w \in Replicas : AttachClaim(w)
  BY <1>2 DEF AttachClaim, HWorkers
<1>5. /\ DOMAIN rows = HAgents /\ DOMAIN lock = HAgents
      /\ DOMAIN hPc = HWorkers /\ DOMAIN hLoc = HWorkers
  BY DEF Hier!Init, HWorkers, Hier!Workers
<1>. QED BY <1>1, <1>2, <1>3, <1>4, <1>5 DEF HierInv, HWorkers

\* However many replicas attach agents at once, no two agents (and no agent and
\* itself) ever become each other's parent: attachPostgres checks and writes
\* with the rows of the child and of the new parent locked, so of two crossed
\* attaches the second sees what the first committed.
THEOREM CrossAttachesSerialised == Spec => []CrossAttachSerialised
<1> DEFINE Inv == focus = "hierarchy" /\ active \subseteq Replicas => HierInv
<1>1. Init => Inv
  BY InitHierInv DEF Init
<1>2. Inv /\ [Next]_vars => Inv'
  <2> SUFFICES ASSUME Inv, [Next]_vars PROVE Inv'
    OBVIOUS
  <2>1. CASE UNCHANGED <<focus, hVars>>
    <3>1. UNCHANGED <<rows, lock, active, hPc, hLoc>>
      BY <2>1 DEF hVars
    <3>2. HierInv => HierInv'
      BY <3>1 DEF HierInv, AttachClaim, NoPair, HRow
    <3>. QED BY <2>1, <3>1, <3>2
  <2>2. CASE HierStep
    <3>1. Hier!Next => active' = active
      BY DEF Hier!Next, Hier!Register, Hier!BeginAttach, Hier!LockRows, Hier!CheckAttach, Hier!CommitAttach,
             Hier!AbortAttach, Hier!BeginVetting, Hier!PutVetting
    <3>. QED BY <2>2, <3>1, NextHierInv DEF HierStep
  <2>. QED BY <2>1, <2>2 DEF Next, vars, CommStep, USSDStep, SettlementStep, FloatStep
<1>3. Inv => CrossAttachSerialised
  BY DEF CrossAttachSerialised, Hier!CrossAttachSerialised, Hier!Registered, HierInv, NoPair
<1>. QED BY <1>1, <1>2, <1>3, PTL DEF Spec

-----------------------------------------------------------------------------
(* The hierarchy of one process: a forest within the cap.                  *)

Reg(x) == x \in HAgents /\ rows[x] # Hier!NoRow

\* d says how far every registered agent is from the root of its tree, and no
\* agent is farther than the cap: with such a d the links have no cycle.
Depths(d) ==
  /\ \A x \in HAgents : d[x] \in 0..MaxDepth
  /\ \A x \in HAgents : Reg(x) =>
       \/ rows[x].parent = HRoot /\ d[x] = 0
       \/ rows[x].parent # HRoot /\ Reg(rows[x].parent) /\ d[x] = d[rows[x].parent] + 1

\* Registered agents at depth n need n + 1 agents.
LEMMA DepthNeedsAgents ==
  ASSUME NEW d, Depths(d), NEW a, Reg(a)
  PROVE  d[a] \in Nat /\ d[a] + 1 <= Cardinality(HAgents)
<1> DEFINE Within(n) == {x \in HAgents : Reg(x) /\ d[x] <= n}
<1> DEFINE T == {n \in Nat : \A x \in HAgents : Reg(x) /\ d[x] = n => Cardinality(Within(n)) >= n + 1}
<1>1. \A n \in Nat : IsFiniteSet(Within(n)) /\ Cardinality(Within(n)) \in Nat
                     /\ Cardinality(Within(n)) <= Cardinality(HAgents)
  <2> SUFFICES ASSUME NEW n \in Nat
               PROVE  IsFiniteSet(Within(n)) /\ Cardinality(Within(n)) \in Nat
                      /\ Cardinality(Within(n)) <= Cardinality(HAgents)
    OBVIOUS
  <2>1. Within(n) \in SUBSET HAgents /\ IsFiniteSet(HAgents)
    BY ChannelsAssumption
  <2> HIDE DEF Within
  <2>2. IsFiniteSet(Within(n)) /\ Cardinality(Within(n)) <= Cardinality(HAgents)
    BY <2>1, FS_Subset
  <2>. QED BY <2>2, FS_CardinalityType
<1>2. 0 \in T
  <2>1. ASSUME NEW x \in HAgents, Reg(x), d[x] = 0 PROVE Cardinality(Within(0)) >= 0 + 1
    <3>1. x \in Within(0)
      BY <2>1
    <3> HIDE DEF Within
    <3>2. Cardinality(Within(0)) # 0
      BY <1>1, <3>1, FS_EmptySet
    <3>. QED BY <1>1, <3>2
  <2>. QED BY <2>1
<1>3. ASSUME NEW n \in T PROVE n + 1 \in T
  <2>0. n \in Nat
    OBVIOUS
  <2>1. ASSUME NEW x \in HAgents, Reg(x), d[x] = n + 1
        PROVE  Cardinality(Within(n + 1)) >= (n + 1) + 1
    <3>1. PICK p \in HAgents : Reg(p) /\ d[p] = n
      <4>1. PICK p : p = rows[x].parent
        OBVIOUS
      <4>2. Reg(p) /\ d[x] = d[p] + 1
        BY <2>0, <2>1, <4>1 DEF Depths
      <4>3. p \in HAgents /\ d[p] \in 0..MaxDepth
        BY <4>2 DEF Reg, Depths
      <4>. QED BY <2>0, <2>1, <4>2, <4>3, ChannelsAssumption
    <3>2. Cardinality(Within(n)) >= n + 1
      BY <3>1
    <3>3. x \notin Within(n)
      BY <2>0, <2>1
    <3>4. Within(n) \cup {x} \subseteq Within(n + 1)
      <4>1. ASSUME NEW y \in Within(n) PROVE y \in Within(n + 1)
        <5>1. y \in HAgents /\ Reg(y) /\ d[y] <= n
          OBVIOUS
        <5>2. d[y] \in Int
          BY <5>1, ChannelsAssumption DEF Depths
        <5>. QED BY <2>0, <5>1, <5>2
      <4>2. x \in Within(n + 1)
        BY <2>0, <2>1
      <4> HIDE DEF Within
      <4>. QED BY <4>1, <4>2
    <3> HIDE DEF Within
    <3>5. Cardinality(Within(n) \cup {x}) = Cardinality(Within(n)) + 1
      BY <1>1, <2>0, <3>3, FS_AddElement
    <3>6. Cardinality(Within(n) \cup {x}) <= Cardinality(Within(n + 1))
      <4>1. n + 1 \in Nat
        BY <2>0
      <4>2. IsFiniteSet(Within(n + 1)) /\ Within(n) \cup {x} \in SUBSET Within(n + 1)
        BY <1>1, <3>4, <4>1
      <4>. QED BY <4>2, FS_Subset
    <3>7. Cardinality(Within(n)) \in Nat /\ Cardinality(Within(n + 1)) \in Nat
      BY <1>1, <2>0
    <3>. QED BY <2>0, <3>2, <3>5, <3>6, <3>7
  <2>. QED BY <2>0, <2>1
<1>4. T = Nat
  <2> HIDE DEF T
  <2>1. T \subseteq Nat
    BY DEF T
  <2>. QED BY <1>2, <1>3, <2>1, UpSet
<1>5. a \in HAgents /\ d[a] \in Nat
  BY ChannelsAssumption DEF Reg, Depths
<1>6. d[a] \in T
  BY <1>4, <1>5
<1>7. Cardinality(Within(d[a])) >= d[a] + 1
  BY <1>5, <1>6
<1> HIDE DEF Within
<1>8. Cardinality(HAgents) \in Nat
  BY ChannelsAssumption, FS_CardinalityType
<1>. QED BY <1>1, <1>5, <1>7, <1>8

\* One unfolding of the walk up from a.
Up(f, a, n) == IF n = 0 THEN a ELSE IF f[n - 1] = HRoot THEN HRoot ELSE rows[f[n - 1]].parent

IsWalk(f, a, n) == f = [m \in 0..n |-> Up(f, a, m)]

LEMMA WalkExists ==
  ASSUME NEW a, NEW n \in Nat
  PROVE  \E f : IsWalk(f, a, n)
<1> DEFINE T == {k \in Nat : \E f : IsWalk(f, a, k)}
<1>1. 0 \in T
  <2>1. PICK f : f = [m \in 0..0 |-> a]
    OBVIOUS
  <2>2. \A m \in 0..0 : Up(f, a, m) = a
    BY DEF Up
  <2>3. IsWalk(f, a, 0)
    BY <2>1, <2>2 DEF IsWalk
  <2>. QED BY <2>3
<1>2. ASSUME NEW k \in T PROVE k + 1 \in T
  <2>0. k \in Nat
    OBVIOUS
  <2>1. PICK f : IsWalk(f, a, k)
    OBVIOUS
  <2>2. PICK g : g = [m \in 0..k + 1 |-> IF m <= k THEN f[m] ELSE Up(f, a, k + 1)]
    OBVIOUS
  <2>3. \A m \in 0..k : g[m] = f[m] /\ f[m] = Up(f, a, m)
    <3>1. \A m \in 0..k : g[m] = f[m]
      BY <2>0, <2>2
    <3>2. f = [m \in 0..k |-> Up(f, a, m)]
      BY <2>1 DEF IsWalk
    <3>3. \A m \in 0..k : f[m] = Up(f, a, m)
      BY <3>2, Zenon
    <3>. QED BY <3>1, <3>3
  <2>4. ASSUME NEW m \in 0..k + 1 PROVE g[m] = Up(g, a, m)
    <3>1. Up(g, a, m) = Up(f, a, m)
      <4>1. CASE m = 0
        BY <4>1 DEF Up
      <4>2. CASE m # 0
        <5>1. m - 1 \in 0..k
          BY <2>0, <4>2
        <5>2. g[m - 1] = f[m - 1]
          BY <2>3, <5>1
        <5>. QED BY <4>2, <5>2 DEF Up
      <4>. QED BY <4>1, <4>2
    <3>2. CASE m <= k
      BY <2>0, <2>3, <3>1, <3>2
    <3>3. CASE ~(m <= k)
      <4>1. m = k + 1
        BY <2>0, <3>3
      <4>. QED BY <2>0, <2>2, <3>1, <4>1
    <3>. QED BY <3>2, <3>3
  <2>5. g = [m \in 0..k + 1 |-> g[m]]
    BY <2>2
  <2>6. IsWalk(g, a, k + 1)
    BY <2>4, <2>5 DEF IsWalk
  <2>. QED BY <2>0, <2>6
<1>3. T = Nat
  <2> HIDE DEF T
  <2>1. T \subseteq Nat
    BY DEF T
  <2>. QED BY <1>1, <1>2, <2>1, UpSet
<1>. QED BY <1>3

\* The recursive definition of Lineage is the walk over all the agents.
LEMMA LineageIsWalk ==
  ASSUME NEW a
  PROVE  IsWalk(Hier!Lineage(a), a, Cardinality(HAgents))
<1> DEFINE N == Cardinality(HAgents)
<1>1. Hier!Cardinality(HAgents) = N
  BY DEF Hier!Cardinality, Cardinality
<1>2. N \in Nat
  BY ChannelsAssumption, FS_CardinalityType
<1>3. Hier!Lineage(a) =
        (CHOOSE f : f = [n \in 0..Hier!Cardinality(HAgents) |->
           IF n = 0 THEN a
           ELSE IF f[n - 1] = HRoot THEN HRoot ELSE rows[f[n - 1]].parent])
  BY Zenon DEF Hier!Lineage
<1>4. Hier!Lineage(a) = (CHOOSE f : IsWalk(f, a, N))
  BY <1>1, <1>3, Zenon DEF IsWalk, Up
<1> HIDE DEF N
<1>5. \E f : IsWalk(f, a, N)
  BY <1>2, WalkExists
<1>6. IsWalk((CHOOSE f : IsWalk(f, a, N)), a, N)
  BY <1>5, Zenon
<1>. QED BY <1>4, <1>6, Zenon DEF N

\* Where the walk up from a registered agent is: at a registered agent while it
\* has not climbed the agent's depth, and at the root after.
Climbed(f, d, a, n) ==
  IF n <= d[a] THEN Reg(f[n]) /\ d[f[n]] = d[a] - n ELSE f[n] = HRoot

LEMMA LineageClimbs ==
  ASSUME NEW d, Depths(d), NEW a, Reg(a), NEW n \in 0..Cardinality(HAgents)
  PROVE  Climbed(Hier!Lineage(a), d, a, n)
<1> DEFINE N == Cardinality(HAgents)
<1>1. PICK f : f = Hier!Lineage(a)
  OBVIOUS
<1>2. N \in Nat /\ d[a] \in Nat
  BY ChannelsAssumption, FS_CardinalityType, DepthNeedsAgents
<1>3. \A m \in 0..N : f[m] = Up(f, a, m)
  <2>1. f = [m \in 0..N |-> Up(f, a, m)]
    BY <1>1, LineageIsWalk DEF IsWalk
  <2> HIDE DEF N
  <2>. QED BY <2>1, Zenon
<1> HIDE DEF N
<1> DEFINE T == {k \in Nat : k <= N => Climbed(f, d, a, k)}
<1>4. 0 \in T
  <2>1. f[0] = a
    BY <1>2, <1>3 DEF Up
  <2>. QED BY <1>2, <2>1 DEF Climbed
<1>5. ASSUME NEW k \in T PROVE k + 1 \in T
  <2>0. k \in Nat
    OBVIOUS
  <2> SUFFICES ASSUME k + 1 <= N PROVE Climbed(f, d, a, k + 1)
    BY <2>0
  <2>1. Climbed(f, d, a, k)
    BY <1>2, <2>0
  <2>2. f[k + 1] = IF f[k] = HRoot THEN HRoot ELSE rows[f[k]].parent
    <3>1. f[k + 1] = Up(f, a, k + 1)
      BY <1>2, <1>3, <2>0
    <3>2. (k + 1) - 1 = k /\ k + 1 # 0
      BY <2>0
    <3>. QED BY <3>1, <3>2 DEF Up
  <2>3. CASE k > d[a]
    <3>1. f[k] = HRoot
      BY <1>2, <2>0, <2>1, <2>3 DEF Climbed
    <3>. QED BY <1>2, <2>0, <2>2, <2>3, <3>1 DEF Climbed
  <2>4. CASE k <= d[a]
    <3>1. Reg(f[k]) /\ d[f[k]] = d[a] - k
      BY <2>1, <2>4 DEF Climbed
    <3>2. f[k] # HRoot /\ f[k] \in HAgents
      BY <3>1, ChannelsAssumption DEF Reg
    <3>3. PICK p : p = rows[f[k]].parent
      OBVIOUS
    <3>4. f[k + 1] = p
      BY <2>2, <3>2, <3>3
    <3>5. \/ p = HRoot /\ d[a] = k
          \/ Reg(p) /\ d[a] - k = d[p] + 1
      <4>1. \/ p = HRoot /\ d[f[k]] = 0
            \/ Reg(p) /\ d[f[k]] = d[p] + 1
        BY <3>1, <3>2, <3>3 DEF Depths
      <4>. QED BY <1>2, <2>0, <3>1, <4>1
    <3>6. Reg(p) => d[p] \in Nat
      BY ChannelsAssumption DEF Depths, Reg
    <3>. QED BY <1>2, <2>0, <3>4, <3>5, <3>6 DEF Climbed
  <2>. QED BY <1>2, <2>0, <2>3, <2>4
<1>6. T = Nat
  <2> HIDE DEF T
  <2>1. T \subseteq Nat
    BY DEF T
  <2>. QED BY <1>4, <1>5, <2>1, UpSet
<1>7. n \in T /\ n <= N
  BY <1>2, <1>6 DEF N
<1>8. Climbed(f, d, a, n)
  BY <1>7
<1>. QED BY <1>1, <1>8

\* depthOf counts the links to the root and finds no cycle.
LEMMA DepthOfIs ==
  ASSUME NEW d, Depths(d), NEW a, Reg(a)
  PROVE  ~Hier!OnCycle(a) /\ Hier!DepthOf(a) = d[a]
<1>1. PICK f : f = Hier!Lineage(a)
  OBVIOUS
<1>2. PICK N : N = Cardinality(HAgents)
  OBVIOUS
<1>3. N \in Nat /\ d[a] \in Nat /\ d[a] + 1 <= N
  BY <1>2, ChannelsAssumption, FS_CardinalityType, DepthNeedsAgents
<1>4. DOMAIN f = 0..N
  BY <1>1, <1>2, LineageIsWalk DEF IsWalk
<1>5. \A n \in 0..N : Climbed(f, d, a, n)
  BY <1>1, <1>2, LineageClimbs
<1>6. \A n \in 0..N : f[n] # HRoot <=> n <= d[a]
  BY <1>5, ChannelsAssumption DEF Climbed, Reg
<1>7. ~Hier!OnCycle(a)
  <2>1. d[a] + 1 \in 0..N /\ f[d[a] + 1] = HRoot
    BY <1>3, <1>6
  <2>. QED BY <1>1, <1>4, <2>1 DEF Hier!OnCycle
<1>8. {n \in DOMAIN f : n > 0 /\ f[n] # HRoot} = 1..d[a]
  BY <1>3, <1>4, <1>6
<1>9. Hier!DepthOf(a) = Hier!Cardinality({n \in DOMAIN f : n > 0 /\ f[n] # HRoot})
  BY <1>1 DEF Hier!DepthOf
<1>10. Hier!Cardinality(1..d[a]) = Cardinality(1..d[a])
  BY DEF Hier!Cardinality, Cardinality
<1>11. Cardinality(1..d[a]) = d[a]
  BY <1>3, FS_Interval
<1>. QED BY <1>7, <1>8, <1>9, <1>10, <1>11

\* A way of n links up from x ends at an agent n levels above x.
IsWay(way, x, a, n) ==
  way \in [0..n -> HAgents] /\ way[0] = x /\ way[n] = a
    /\ \A i \in 1..n : way[i] = rows[way[i - 1]].parent

LEMMA WayClimbs ==
  ASSUME NEW d, Depths(d), NEW x, Reg(x), NEW a, NEW n \in Nat, NEW way, IsWay(way, x, a, n)
  PROVE  Reg(a) /\ d[a] = d[x] - n
<1> DEFINE T == {k \in Nat : k <= n => Reg(way[k]) /\ d[way[k]] = d[x] - k}
<1>0. d[x] \in Nat
  BY DepthNeedsAgents
<1>1. 0 \in T
  BY <1>0 DEF IsWay
<1>2. ASSUME NEW k \in T PROVE k + 1 \in T
  <2>0. k \in Nat
    OBVIOUS
  <2> SUFFICES ASSUME k + 1 <= n PROVE Reg(way[k + 1]) /\ d[way[k + 1]] = d[x] - (k + 1)
    BY <2>0
  <2>1. Reg(way[k]) /\ d[way[k]] = d[x] - k
    BY <2>0
  <2>2. PICK y, p : y = way[k] /\ p = way[k + 1]
    OBVIOUS
  <2>3. p = rows[y].parent
    <3>1. k + 1 \in 1..n /\ (k + 1) - 1 = k
      BY <2>0
    <3>. QED BY <2>2, <3>1 DEF IsWay
  <2>4. p \in HAgents
    <3>1. k + 1 \in 0..n
      BY <2>0
    <3>. QED BY <2>2, <3>1 DEF IsWay
  <2>5. p # HRoot /\ y \in HAgents
    BY <2>1, <2>2, <2>4, ChannelsAssumption DEF Reg
  <2>6. Reg(p) /\ d[y] = d[p] + 1
    BY <2>1, <2>2, <2>3, <2>5 DEF Depths
  <2>7. d[p] \in Nat
    BY <2>4, ChannelsAssumption DEF Depths
  <2>. QED BY <1>0, <2>0, <2>1, <2>2, <2>6, <2>7
<1>3. T = Nat
  <2> HIDE DEF T
  <2>1. T \subseteq Nat
    BY DEF T
  <2>. QED BY <1>1, <1>2, <2>1, UpSet
<1>4. Reg(way[n]) /\ d[way[n]] = d[x] - n
  BY <1>3
<1>. QED BY <1>4 DEF IsWay

LEMMA BelowIsWay ==
  ASSUME NEW a, NEW x, NEW n
  PROVE  n \in Hier!Below(a, x) <=> n \in 0..Cardinality(HAgents) /\ \E way : IsWay(way, x, a, n)
<1>1. Hier!Cardinality(HAgents) = Cardinality(HAgents)
  BY DEF Hier!Cardinality, Cardinality
<1>. QED BY <1>1, Zenon DEF Hier!Below, IsWay

\* InSubtree over a forest: the agents below a, each at its distance.
LEMMA SubtreeIs ==
  ASSUME NEW d, Depths(d), NEW a, NEW x \in Hier!Subtree(a)
  PROVE  /\ Reg(x) /\ Reg(a) /\ d[x] - d[a] \in Nat
         /\ Hier!Below(a, x) = {d[x] - d[a]}
<1>1. Reg(x) /\ Hier!Below(a, x) # {}
  BY DEF Hier!Subtree, Hier!Registered, Reg
<1>2. ASSUME NEW n \in Hier!Below(a, x)
      PROVE  Reg(a) /\ n \in Nat /\ d[a] = d[x] - n
  <2>1. n \in 0..Cardinality(HAgents) /\ \E way : IsWay(way, x, a, n)
    BY <1>2, BelowIsWay
  <2>2. n \in Nat
    BY <2>1, ChannelsAssumption, FS_CardinalityType
  <2>3. PICK way : IsWay(way, x, a, n)
    BY <2>1
  <2>. QED BY <1>1, <2>2, <2>3, WayClimbs
<1>3. d[x] \in Nat
  BY <1>1, DepthNeedsAgents
<1>4. PICK n : n \in Hier!Below(a, x)
  BY <1>1
<1>5. Reg(a) /\ n \in Nat /\ d[a] = d[x] - n
  BY <1>2, <1>4
<1>6. d[a] \in Nat
  BY <1>5, DepthNeedsAgents
<1>7. \A m \in Hier!Below(a, x) : m = d[x] - d[a]
  BY <1>2, <1>3, <1>6
<1>. QED BY <1>1, <1>3, <1>4, <1>5, <1>6, <1>7

\* The subtree of a has a, the agents directly below its agents, and, except
\* for a, no agent whose parent it has not.
LEMMA SubtreeClosed ==
  ASSUME NEW d, Depths(d), NEW a, Reg(a)
  PROVE  /\ a \in Hier!Subtree(a)
         /\ \A x \in HAgents : Reg(x) /\ rows[x].parent \in Hier!Subtree(a) => x \in Hier!Subtree(a)
         /\ \A x \in Hier!Subtree(a) : x # a => rows[x].parent \in Hier!Subtree(a)
<1>1. \A x : Reg(x) /\ Hier!Below(a, x) # {} => x \in Hier!Subtree(a)
  BY DEF Hier!Subtree, Hier!Registered, Reg
<1>2. a \in Hier!Subtree(a)
  <2>1. a \in HAgents
    BY DEF Reg
  <2>2. PICK way : way = [i \in 0..0 |-> a]
    OBVIOUS
  <2>3. IsWay(way, a, a, 0)
    BY <2>1, <2>2 DEF IsWay
  <2>4. 0 \in 0..Cardinality(HAgents)
    BY ChannelsAssumption, FS_CardinalityType
  <2>5. 0 \in Hier!Below(a, a)
    BY <2>3, <2>4, BelowIsWay
  <2>. QED BY <1>1, <2>5
<1>3. ASSUME NEW x \in HAgents, Reg(x), rows[x].parent \in Hier!Subtree(a)
      PROVE  x \in Hier!Subtree(a)
  <2>1. PICK y : y = rows[x].parent
    OBVIOUS
  <2>2. Reg(y) /\ d[y] - d[a] \in Nat /\ Hier!Below(a, y) = {d[y] - d[a]}
    BY <1>3, <2>1, SubtreeIs
  <2>3. PICK n : n \in Nat /\ n = d[y] - d[a]
    BY <2>2
  <2>4. n \in Hier!Below(a, y)
    BY <2>2, <2>3
  <2>5. PICK way : IsWay(way, y, a, n)
    BY <2>4, BelowIsWay
  <2>6. PICK long : long = [i \in 0..n + 1 |-> IF i = 0 THEN x ELSE way[i - 1]]
    OBVIOUS
  <2>7. \A i \in 1..n + 1 : i - 1 \in 0..n /\ long[i] = way[i - 1] /\ way[i - 1] \in HAgents
    BY <2>3, <2>5, <2>6 DEF IsWay
  <2>8. long \in [0..n + 1 -> HAgents] /\ long[0] = x /\ long[n + 1] = a
    <3>1. long[0] = x
      BY <2>3, <2>6
    <3>2. long[n + 1] = way[n]
      BY <2>3, <2>7
    <3>3. \A i \in 0..n + 1 : long[i] \in HAgents
      BY <1>3, <2>3, <2>7, <3>1
    <3>4. long = [i \in 0..n + 1 |-> long[i]]
      BY <2>6
    <3>. QED BY <2>5, <3>1, <3>2, <3>3, <3>4 DEF IsWay
  <2>9. ASSUME NEW i \in 1..n + 1 PROVE long[i] = rows[long[i - 1]].parent
    <3>1. CASE i = 1
      BY <2>1, <2>5, <2>7, <2>8, <3>1 DEF IsWay
    <3>2. CASE i # 1
      <4>1. i - 1 \in 1..n /\ i - 1 \in 1..n + 1 /\ (i - 1) - 1 \in 0..n
        BY <2>3, <3>2
      <4>2. way[i - 1] = rows[way[(i - 1) - 1]].parent
        BY <2>5, <4>1 DEF IsWay
      <4>3. long[i - 1] = way[(i - 1) - 1] /\ long[i] = way[i - 1]
        BY <2>7, <4>1
      <4>. QED BY <4>2, <4>3
    <3>. QED BY <3>1, <3>2
  <2>10. IsWay(long, x, a, n + 1)
    BY <2>8, <2>9 DEF IsWay
  <2>11. n + 1 \in 0..Cardinality(HAgents)
    <3>1. d[y] + 1 <= Cardinality(HAgents) /\ d[y] \in Nat /\ d[a] \in Nat
      BY <2>2, DepthNeedsAgents
    <3>2. Cardinality(HAgents) \in Nat
      BY ChannelsAssumption, FS_CardinalityType
    <3>. QED BY <2>3, <3>1, <3>2
  <2>12. n + 1 \in Hier!Below(a, x)
    BY <2>10, <2>11, BelowIsWay
  <2>. QED BY <1>1, <1>3, <2>12
<1>4. ASSUME NEW x \in Hier!Subtree(a), x # a PROVE rows[x].parent \in Hier!Subtree(a)
  <2>1. Reg(x) /\ d[x] - d[a] \in Nat /\ Hier!Below(a, x) = {d[x] - d[a]}
    BY SubtreeIs
  <2>2. PICK n : n \in Nat /\ n = d[x] - d[a]
    BY <2>1
  <2>3. n \in Hier!Below(a, x)
    BY <2>1, <2>2
  <2>4. PICK way : IsWay(way, x, a, n)
    BY <2>3, BelowIsWay
  <2>5. n # 0
    BY <1>4, <2>4 DEF IsWay
  <2>6. PICK y : y = way[1]
    OBVIOUS
  <2>7. y = rows[x].parent /\ y \in HAgents
    <3>1. 1 \in 1..n /\ 1 \in 0..n /\ 1 - 1 = 0
      BY <2>2, <2>5
    <3>2. way[1] = rows[way[1 - 1]].parent
      BY <2>4, <3>1 DEF IsWay
    <3>3. y = rows[way[0]].parent
      BY <2>6, <3>1, <3>2
    <3>. QED BY <2>4, <2>6, <3>1, <3>3 DEF IsWay
  <2>8. Reg(y)
    <3>1. y # HRoot /\ x \in HAgents
      BY <2>1, <2>7, ChannelsAssumption DEF Reg
    <3>. QED BY <2>1, <2>7, <3>1 DEF Depths
  <2>9. PICK rest : rest = [i \in 0..n - 1 |-> way[i + 1]]
    OBVIOUS
  <2>10. \A i \in 0..n - 1 : rest[i] = way[i + 1] /\ i + 1 \in 0..n /\ way[i + 1] \in HAgents
    BY <2>2, <2>4, <2>9 DEF IsWay
  <2>11. rest \in [0..n - 1 -> HAgents] /\ rest[0] = y /\ rest[n - 1] = a
    <3>1. rest[0] = y
      BY <2>2, <2>5, <2>6, <2>10
    <3>2. rest[n - 1] = way[n]
      BY <2>2, <2>5, <2>10
    <3>3. rest = [i \in 0..n - 1 |-> rest[i]]
      BY <2>9
    <3>. QED BY <2>4, <2>10, <3>1, <3>2, <3>3 DEF IsWay
  <2>12. ASSUME NEW i \in 1..n - 1 PROVE rest[i] = rows[rest[i - 1]].parent
    <3>1. i \in 0..n - 1 /\ i - 1 \in 0..n - 1 /\ i + 1 \in 1..n /\ (i - 1) + 1 = i /\ (i + 1) - 1 = i
      BY <2>2
    <3>2. rest[i] = way[i + 1] /\ rest[i - 1] = way[i]
      BY <2>10, <3>1
    <3>3. way[i + 1] = rows[way[(i + 1) - 1]].parent
      BY <2>4, <3>1 DEF IsWay
    <3>. QED BY <3>1, <3>2, <3>3
  <2>13. IsWay(rest, y, a, n - 1)
    BY <2>11, <2>12 DEF IsWay
  <2>14. n - 1 \in 0..Cardinality(HAgents)
    <3>1. n \in 0..Cardinality(HAgents)
      BY <2>3, BelowIsWay
    <3>. QED BY <2>2, <2>5, <3>1, ChannelsAssumption, FS_CardinalityType
  <2>15. n - 1 \in Hier!Below(a, y)
    BY <2>13, <2>14, BelowIsWay
  <2>. QED BY <1>1, <2>7, <2>8, <2>15
<1>. QED BY <1>2, <1>3, <1>4

\* subtreeHeight is no less than the distance of any agent of the subtree.
LEMMA HeightBounds ==
  ASSUME NEW d, Depths(d), NEW a, NEW x \in Hier!Subtree(a)
  PROVE  Hier!SubtreeHeight(a) \in Nat /\ d[x] - d[a] <= Hier!SubtreeHeight(a)
<1> DEFINE S == {Hier!Min(Hier!Below(a, y)) : y \in Hier!Subtree(a)}
<1>1. ASSUME NEW y \in Hier!Subtree(a)
      PROVE  Hier!Min(Hier!Below(a, y)) = d[y] - d[a] /\ d[y] - d[a] \in 0..MaxDepth
  <2>1. PICK v : v = d[y] - d[a]
    OBVIOUS
  <2>2. Hier!Below(a, y) = {v} /\ v \in Nat /\ Reg(y) /\ Reg(a)
    BY <2>1, SubtreeIs
  <2>3. Hier!Min({v}) = v
    BY <2>2 DEF Hier!Min
  <2>4. d[y] \in 0..MaxDepth /\ d[a] \in 0..MaxDepth
    BY <2>2 DEF Reg, Depths
  <2>. QED BY <2>1, <2>2, <2>3, <2>4, ChannelsAssumption
<1>2. S \subseteq 0..MaxDepth /\ d[x] - d[a] \in S
  BY <1>1
<1>3. Hier!SubtreeHeight(a) = Hier!Max(S)
  BY DEF Hier!SubtreeHeight
<1> HIDE DEF S
<1>4. \E m \in S : \A v \in S : m >= v
  <2> DEFINE Gaps == {n \in Nat : MaxDepth - n \in S}
  <2>1. MaxDepth \in Nat
    BY ChannelsAssumption
  <2>2. \A v \in S : v \in Int /\ MaxDepth - v \in Nat /\ MaxDepth - (MaxDepth - v) = v
    BY <1>2, <2>1
  <2>3. \A v \in S : MaxDepth - v \in Gaps
    BY <2>2
  <2>4. Gaps \subseteq Nat /\ Gaps # {} /\ \A n \in Gaps : MaxDepth - n \in S
    BY <1>2, <2>3
  <2> HIDE DEF Gaps
  <2>5. PICK n \in Gaps : \A k \in Gaps : n <= k
    BY <2>4, LeastNat
  <2>6. \A v \in S : MaxDepth - n >= v
    BY <2>1, <2>2, <2>3, <2>4, <2>5
  <2>. QED BY <2>4, <2>5, <2>6
<1>5. Hier!Max(S) = (CHOOSE m \in S : \A v \in S : m >= v)
  BY Zenon DEF Hier!Max
<1>6. Hier!Max(S) \in S /\ \A v \in S : Hier!Max(S) >= v
  BY <1>4, <1>5, Zenon
<1>7. PICK h, v : h = Hier!Max(S) /\ v = d[x] - d[a]
  OBVIOUS
<1>8. h \in 0..MaxDepth /\ v \in 0..MaxDepth /\ v <= h /\ MaxDepth \in Nat
  BY <1>2, <1>6, <1>7, ChannelsAssumption
<1>9. h \in Nat /\ v <= h
  BY <1>8
<1>. QED BY <1>3, <1>7, <1>9

\* The move of ch below up, over the depths d: it takes a set of agents along,
\* ch and what is below it, up is not among them, and none comes too deep.
Taken(d, ch, U) ==
  /\ ch \in U /\ U \subseteq HAgents
  /\ \A x \in U : Reg(x) /\ d[ch] <= d[x] /\ (x # ch => rows[x].parent \in U)
  /\ \A x \in HAgents : Reg(x) /\ rows[x].parent \in U => x \in U
Roomy(d, ch, up, U) ==
  up # HRoot => up \notin U /\ \A x \in U : d[x] - d[ch] + d[up] + 1 <= MaxDepth
Movable(d, ch, up) == \E U : Taken(d, ch, U) /\ Roomy(d, ch, up, U)

\* One worker at a time; the links are a forest within the cap, and a write
\* that passed the check keeps them one.
Solo ==
  /\ \A v, w \in active : v = w
  /\ \A w \in Replicas : hPc[w] # "idle" => w \in active
Claimed(d) == \A w \in Replicas : hPc[w] = "commit" => Movable(d, hLoc[w].child, hLoc[w].to)
Forested == \E d : Depths(d) /\ Claimed(d)

LEMMA OnlyStep ==
  ASSUME HierInv, Solo, NEW w \in Replicas, w \in active, NEW to, Hier!Goto(w, to), UNCHANGED active
  PROVE  Solo' /\ hPc'[w] = to /\ \A v \in Replicas : v # w => hPc'[v] = "idle"
<1>1. \A v \in Replicas : hPc'[v] = IF v = w THEN to ELSE hPc[v]
  BY DEF HierInv, HWorkers, Hier!Goto
<1>2. \A v \in Replicas : v # w => hPc[v] = "idle"
  BY DEF Solo
<1>. QED BY <1>1, <1>2 DEF Solo

LEMMA QuietStep ==
  ASSUME Forested, UNCHANGED rows, \A v \in Replicas : hPc'[v] # "commit"
  PROVE  Forested'
<1>1. PICK d : Depths(d)
  BY DEF Forested
<1>2. Depths(d)'
  BY <1>1 DEF Depths, Reg
<1>3. Claimed(d)'
  BY DEF Claimed
<1>. QED BY <1>2, <1>3 DEF Forested

\* What attachChecked lets through can be moved.
LEMMA AttachableMovable ==
  ASSUME NEW d, Depths(d), NEW ch, Reg(ch), NEW up, up # HRoot => Reg(up), Hier!Attachable(ch, up)
  PROVE  Movable(d, ch, up)
<1>1. PICK U : U = Hier!Subtree(ch)
  OBVIOUS
<1>2. Taken(d, ch, U)
  <2>1. \A x \in U : Reg(x) /\ d[x] - d[ch] \in Nat
    BY <1>1, SubtreeIs
  <2>2. \A x \in U : d[x] \in Int /\ d[ch] \in Int
    BY <2>1, DepthNeedsAgents
  <2>3. \A x \in U : d[ch] <= d[x]
    BY <2>1, <2>2
  <2>4. U \subseteq HAgents
    BY <2>1 DEF Reg
  <2>. QED BY <1>1, <2>1, <2>3, <2>4, SubtreeClosed DEF Taken
<1>3. Roomy(d, ch, up, U)
  <2> SUFFICES ASSUME up # HRoot
               PROVE  up \notin U /\ \A x \in U : d[x] - d[ch] + d[up] + 1 <= MaxDepth
    BY DEF Roomy
  <2>1. up \notin U /\ Hier!DepthOf(up) + 1 + Hier!SubtreeHeight(ch) <= MaxDepth
    BY <1>1 DEF Hier!Attachable
  <2>2. Hier!DepthOf(up) = d[up] /\ d[up] \in Nat
    BY DepthOfIs, DepthNeedsAgents
  <2>3. ASSUME NEW x \in U PROVE d[x] - d[ch] + d[up] + 1 <= MaxDepth
    <3>1. PICK h : h = Hier!SubtreeHeight(ch)
      OBVIOUS
    <3>2. h \in Nat /\ d[x] - d[ch] <= h /\ Reg(x)
      BY <1>1, <3>1, HeightBounds, SubtreeIs
    <3>3. d[x] \in Nat /\ d[ch] \in Nat
      BY <3>2, DepthNeedsAgents
    <3>. QED BY <2>1, <2>2, <3>1, <3>2, <3>3, ChannelsAssumption
  <2>. QED BY <2>1, <2>3
<1>. QED BY <1>2, <1>3 DEF Movable

LEMMA CheckForested ==
  ASSUME HierInv, Solo, Forested, NEW w \in Replicas, Hier!CheckAttach(w)
  PROVE  Solo' /\ Forested'
<1>1. PICK ch, up : ch = hLoc[w].child /\ up = hLoc[w].to
  OBVIOUS
<1>2. /\ hPc[w] = "check" /\ UNCHANGED <<rows, active>>
      /\ \/ Hier!Attachable(ch, up) /\ Hier!Goto(w, "commit") /\ UNCHANGED hLoc
         \/ Hier!Goto(w, "idle")
  BY <1>1 DEF Hier!CheckAttach
<1>3. w \in active
  BY <1>2 DEF Solo
<1>4. CASE Hier!Attachable(ch, up) /\ Hier!Goto(w, "commit") /\ UNCHANGED hLoc
  <2>1. Solo' /\ \A v \in Replicas : v # w => hPc'[v] = "idle"
    BY <1>2, <1>3, <1>4, OnlyStep
  <2>2. PICK d : Depths(d)
    BY DEF Forested
  <2>3. Reg(ch) /\ (up # HRoot => Reg(up))
    BY <1>1, <1>2 DEF HierInv, AttachClaim, Reg
  <2>4. Movable(d, ch, up)
    BY <1>4, <2>2, <2>3, AttachableMovable
  <2>5. Depths(d)'
    BY <1>2, <2>2 DEF Depths, Reg
  <2>6. hLoc'[w].child = ch /\ hLoc'[w].to = up
    BY <1>1, <1>4
  <2>7. Movable(d, hLoc[w].child, hLoc[w].to)'
    BY <1>1, <1>2, <1>4, <2>4 DEF Movable, Taken, Roomy, Reg
  <2>8. Claimed(d)'
    BY <2>1, <2>7 DEF Claimed
  <2>. QED BY <2>1, <2>5, <2>8 DEF Forested
<1>5. CASE Hier!Goto(w, "idle")
  BY <1>2, <1>3, <1>5, OnlyStep, QuietStep
<1>. QED BY <1>2, <1>4, <1>5

LEMMA RegisterForested ==
  ASSUME HierInv, Solo, Forested, NEW n \in HAgents, Hier!Register(n)
  PROVE  Solo' /\ Forested'
<1>1. PICK q : q = [parent |-> HRoot, vetting |-> "pending"]
  OBVIOUS
<1>2. /\ rows[n] = Hier!NoRow /\ rows' = [rows EXCEPT ![n] = q]
      /\ UNCHANGED <<lock, active, hPc, hLoc>>
  BY <1>1 DEF Hier!Register
<1>3. rows'[n].parent = HRoot /\ \A a \in HAgents : a # n => rows'[a] = rows[a]
  BY <1>1, <1>2 DEF HierInv
<1>4. PICK d : Depths(d) /\ Claimed(d)
  BY DEF Forested
<1>5. PICK e : e = [a \in HAgents |-> IF a = n THEN 0 ELSE d[a]]
  OBVIOUS
<1>6. /\ ~Reg(n) /\ e[n] = 0
      /\ \A a \in HAgents : a # n => (Reg(a)' <=> Reg(a)) /\ rows'[a].parent = rows[a].parent /\ e[a] = d[a]
  BY <1>2, <1>3, <1>5 DEF Reg
<1>7. \A a : Reg(a) => a \in HAgents /\ a # n
  BY <1>6 DEF Reg
<1>8. Depths(e)'
  <2>1. \A x \in HAgents : e[x] \in 0..MaxDepth
    BY <1>4, <1>6, ChannelsAssumption DEF Depths
  <2>2. ASSUME NEW x \in HAgents, Reg(x)', x # n
        PROVE  \/ rows'[x].parent = HRoot /\ e[x] = 0
               \/ rows'[x].parent # HRoot /\ Reg(rows[x].parent)' /\ e[x] = e[rows'[x].parent] + 1
    <3>1. PICK p : p = rows[x].parent /\ p = rows'[x].parent
      BY <1>6, <2>2
    <3>2. Reg(x) /\ e[x] = d[x]
      BY <1>6, <2>2
    <3>3. \/ p = HRoot /\ d[x] = 0
          \/ p # HRoot /\ Reg(p) /\ d[x] = d[p] + 1
      BY <1>4, <3>1, <3>2 DEF Depths
    <3>4. Reg(p) => Reg(rows[x].parent)' /\ e[p] = d[p]
      BY <1>6, <1>7, <3>1 DEF Reg
    <3>. QED BY <3>1, <3>2, <3>3, <3>4
  <2>3. \A x \in HAgents : Reg(x)' =>
          \/ rows'[x].parent = HRoot /\ e[x] = 0
          \/ rows'[x].parent # HRoot /\ Reg(rows[x].parent)' /\ e[x] = e[rows'[x].parent] + 1
    BY <1>3, <1>6, <2>2
  <2>. QED BY <2>1, <2>3 DEF Depths
<1>9. Claimed(e)'
  <2> SUFFICES ASSUME NEW w \in Replicas, hPc'[w] = "commit"
               PROVE  Movable(e, hLoc[w].child, hLoc[w].to)'
    BY DEF Claimed
  <2>1. PICK ch, up : ch = hLoc[w].child /\ up = hLoc[w].to
    OBVIOUS
  <2>2. hPc[w] = "commit" /\ hLoc'[w].child = ch /\ hLoc'[w].to = up
    BY <1>2, <2>1
  <2>3. Movable(d, ch, up) /\ Reg(ch) /\ (up # HRoot => Reg(up))
    BY <1>4, <2>1, <2>2 DEF Claimed, HierInv, AttachClaim, Reg
  <2>4. PICK U : Taken(d, ch, U) /\ Roomy(d, ch, up, U)
    BY <2>3 DEF Movable
  <2>5. \A x \in U : Reg(x) /\ x \in HAgents /\ x # n
    BY <1>7, <2>4 DEF Taken
  <2>6. \A x \in U : Reg(x)' /\ e[ch] <= e[x] /\ (x # ch => rows'[x].parent \in U)
    BY <1>6, <1>7, <2>3, <2>4, <2>5 DEF Taken
  <2>7. \A x \in HAgents : Reg(x)' /\ rows'[x].parent \in U => x \in U
    <3>1. HRoot \notin U
      BY <2>5, ChannelsAssumption
    <3>. QED BY <1>3, <1>6, <2>4, <3>1 DEF Taken
  <2>8. up # HRoot => up \notin U /\ \A x \in U : e[x] - e[ch] + e[up] + 1 <= MaxDepth
    BY <1>6, <1>7, <2>3, <2>4, <2>5 DEF Roomy
  <2>9. /\ hLoc'[w].child \in U /\ U \subseteq HAgents
        /\ \A x \in U : Reg(x)' /\ e[hLoc'[w].child] <= e[x] /\ (x # hLoc'[w].child => rows'[x].parent \in U)
    BY <2>2, <2>4, <2>6 DEF Taken
  <2>10. Taken(e, hLoc[w].child, U)'
    BY <2>7, <2>9 DEF Taken
  <2>11. Roomy(e, hLoc[w].child, hLoc[w].to, U)'
    BY <2>2, <2>8 DEF Roomy
  <2>. QED BY <2>10, <2>11 DEF Movable
<1>10. Solo'
  BY <1>2 DEF Solo
<1>. QED BY <1>8, <1>9, <1>10 DEF Forested

\* The move keeps the links a forest within the cap: what it takes along keeps
\* its distance from ch, and ch comes one below up.
LEMMA MoveKeepsDepths ==
  ASSUME NEW d, Depths(d), NEW ch, NEW up, Reg(ch), up # HRoot => Reg(up), Movable(d, ch, up),
         Reg(ch)', rows'[ch].parent = up, \A a \in HAgents \ {ch} : rows'[a] = rows[a]
  PROVE  \E e : Depths(e)'
<1>1. PICK U : Taken(d, ch, U) /\ Roomy(d, ch, up, U)
  BY DEF Movable
<1>2. PICK base : base = IF up = HRoot THEN 0 ELSE d[up] + 1
  OBVIOUS
<1>3. PICK e : e = [a \in HAgents |-> IF a \in U THEN (d[a] - d[ch]) + base ELSE d[a]]
  OBVIOUS
<1>4. \A a \in HAgents : d[a] \in 0..MaxDepth /\ e[a] = IF a \in U THEN (d[a] - d[ch]) + base ELSE d[a]
  BY <1>3 DEF Depths
<1>5. ch \in HAgents /\ (up # HRoot => up \in HAgents /\ d[up] \in 0..MaxDepth) /\ ch \in U
  BY <1>1, <1>4 DEF Reg, Taken
<1>6. base \in Nat /\ MaxDepth \in Nat
  BY <1>2, <1>5, ChannelsAssumption
<1>7. ASSUME NEW a \in HAgents PROVE e[a] \in 0..MaxDepth
  <2>1. PICK n, m : n = d[a] /\ m = d[ch]
    OBVIOUS
  <2>2. n \in 0..MaxDepth /\ m \in 0..MaxDepth
    BY <1>4, <1>5, <2>1
  <2>3. CASE a \in U
    <3>1. m <= n /\ e[a] = (n - m) + base
      BY <1>1, <1>4, <2>1, <2>3 DEF Taken
    <3>2. CASE up = HRoot
      BY <1>2, <1>6, <2>2, <3>1, <3>2
    <3>3. CASE up # HRoot
      <4>1. d[a] - d[ch] + d[up] + 1 <= MaxDepth
        BY <1>1, <2>3, <3>3 DEF Roomy
      <4>. QED BY <1>2, <1>5, <1>6, <2>1, <2>2, <3>1, <3>3, <4>1
    <3>. QED BY <3>2, <3>3
  <2>4. CASE a \notin U
    BY <1>4, <2>4
  <2>. QED BY <2>3, <2>4
<1>8. \A a : Reg(a)' <=> Reg(a)
  BY DEF Reg
<1>9. ASSUME NEW x \in HAgents, Reg(x)'
      PROVE  \/ rows'[x].parent = HRoot /\ e[x] = 0
             \/ rows'[x].parent # HRoot /\ Reg(rows'[x].parent) /\ e[x] = e[rows'[x].parent] + 1
  <2>1. PICK p : p = rows'[x].parent
    OBVIOUS
  <2>2. CASE x = ch
    <3>1. p = up /\ e[x] = base
      BY <1>4, <1>5, <1>6, <2>1, <2>2, ChannelsAssumption
    <3>2. up # HRoot => up \notin U /\ e[up] = d[up]
      BY <1>1, <1>4, <1>5 DEF Roomy
    <3>3. CASE up = HRoot
      BY <1>2, <2>1, <3>1, <3>3
    <3>4. CASE up # HRoot
      BY <1>2, <2>1, <3>1, <3>2, <3>4
    <3>. QED BY <3>3, <3>4
  <2>3. CASE x # ch
    <3>1. p = rows[x].parent /\ Reg(x)
      BY <1>8, <1>9, <2>1, <2>3
    <3>2. \/ p = HRoot /\ d[x] = 0
          \/ p # HRoot /\ Reg(p) /\ d[x] = d[p] + 1
      BY <3>1 DEF Depths
    <3>3. Reg(p) => p \in HAgents
      BY DEF Reg
    <3>4. CASE x \in U
      <4>1. p \in U
        BY <1>1, <2>3, <3>1, <3>4 DEF Taken
      <4>2. Reg(p)
        BY <1>1, <4>1 DEF Taken
      <4>3. p # HRoot /\ d[x] = d[p] + 1 /\ p \in HAgents
        BY <3>2, <3>3, <4>2, ChannelsAssumption
      <4>4. e[x] = (d[x] - d[ch]) + base /\ e[p] = (d[p] - d[ch]) + base
        BY <1>4, <3>4, <4>1, <4>3
      <4>5. d[p] \in Nat /\ d[ch] \in Nat
        BY <1>4, <1>5, <1>6, <4>3
      <4>6. e[x] = e[p] + 1
        BY <1>6, <4>3, <4>4, <4>5
      <4>. QED BY <2>1, <4>2, <4>3, <4>6
    <3>5. CASE x \notin U
      <4>1. p \notin U
        BY <1>1, <3>1, <3>5 DEF Taken
      <4>2. e[x] = d[x] /\ (p \in HAgents => e[p] = d[p])
        BY <1>4, <3>5, <4>1
      <4>. QED BY <2>1, <3>2, <3>3, <4>2
    <3>. QED BY <3>4, <3>5
  <2>. QED BY <2>2, <2>3
<1>10. Depths(e)'
  <2>1. \A x \in HAgents : Reg(x)' =>
          \/ rows'[x].parent = HRoot /\ e[x] = 0
          \/ rows'[x].parent # HRoot /\ Reg(rows[x].parent)' /\ e[x] = e[rows'[x].parent] + 1
    <3>1. \A x \in HAgents : Reg(rows'[x].parent) => Reg(rows[x].parent)'
      BY <1>8 DEF Reg
    <3>. QED BY <1>9, <3>1
  <2>. QED BY <1>7, <2>1 DEF Depths
<1>. QED BY <1>10

LEMMA CommitForested ==
  ASSUME HierInv, Solo, Forested, NEW w \in Replicas, Hier!CommitAttach(w)
  PROVE  Solo' /\ Forested'
<1>1. PICK ch, up : ch = hLoc[w].child /\ up = hLoc[w].to
  OBVIOUS
<1>2. hPc[w] = "commit" /\ Hier!Goto(w, "idle") /\ UNCHANGED active
  BY DEF Hier!CommitAttach
<1>3. w \in active
  BY <1>2 DEF Solo
<1>4. Solo' /\ \A v \in Replicas : hPc'[v] = "idle"
  BY <1>2, <1>3, OnlyStep
<1>5. PICK d : Depths(d) /\ Claimed(d)
  BY DEF Forested
<1>6. Movable(d, ch, up) /\ Reg(ch) /\ (up # HRoot => Reg(up))
  BY <1>1, <1>2, <1>5 DEF Claimed, HierInv, AttachClaim, Reg
<1>7. Reg(ch)' /\ rows'[ch].parent = up /\ \A a \in HAgents \ {ch} : rows'[a] = rows[a]
  <2>1. /\ ch \in HAgents /\ HRow(rows'[ch]) /\ rows'[ch].parent = up
        /\ \A a \in HAgents \ {ch} : rows'[a] = rows[a]
    BY <1>1, CommitWrites
  <2>. QED BY <2>1 DEF Reg, HRow
<1>8. PICK e : Depths(e)'
  BY <1>5, <1>6, <1>7, MoveKeepsDepths
<1>9. Claimed(e)'
  BY <1>4 DEF Claimed
<1>. QED BY <1>4, <1>8, <1>9 DEF Forested

LEMMA NextForested == HierInv /\ Solo /\ Forested /\ Hier!Next => Solo' /\ Forested'
<1> SUFFICES ASSUME HierInv, Solo, Forested, Hier!Next PROVE Solo' /\ Forested'
  OBVIOUS
<1>1. ASSUME NEW w \in Replicas, NEW caller, NEW ch, NEW up, Hier!BeginAttach(w, caller, ch, up)
      PROVE  Solo' /\ Forested'
  <2>1. w \in active /\ Hier!Goto(w, "lock") /\ UNCHANGED <<rows, active>>
    BY <1>1 DEF Hier!BeginAttach
  <2>. QED BY <2>1, OnlyStep, QuietStep
<1>2. ASSUME NEW w \in Replicas, Hier!LockRows(w) PROVE Solo' /\ Forested'
  <2>1. hPc[w] # "idle" /\ Hier!Goto(w, "check") /\ UNCHANGED <<rows, active>>
    BY <1>2 DEF Hier!LockRows
  <2>. QED BY <2>1, OnlyStep, QuietStep DEF Solo
<1>3. ASSUME NEW w \in Replicas, Hier!AbortAttach(w) PROVE Solo' /\ Forested'
  <2>1. hPc[w] # "idle" /\ Hier!Goto(w, "idle") /\ UNCHANGED <<rows, active>>
    BY <1>3 DEF Hier!AbortAttach
  <2>. QED BY <2>1, OnlyStep, QuietStep DEF Solo
<1>4. ASSUME NEW v \in Vetters, (\E a \in Vetted, to \in Hier!Vettings : Hier!BeginVetting(v, a, to)) \/ Hier!PutVetting(v)
      PROVE  FALSE
  <2>1. v \notin active /\ hPc[v] = "idle"
    BY ChannelsAssumption DEF HierInv
  <2>. QED BY <1>4, <2>1 DEF Hier!BeginVetting, Hier!PutVetting
<1>. QED BY <1>1, <1>2, <1>3, <1>4, RegisterForested, CheckForested, CommitForested DEF Hier!Next

LEMMA InitForested ==
  Hier!Init /\ active \subseteq Replicas /\ Hier!Cardinality(active) <= 1 => Solo /\ Forested
<1> SUFFICES ASSUME Hier!Init, active \subseteq Replicas, Hier!Cardinality(active) <= 1
             PROVE  Solo /\ Forested
  OBVIOUS
<1>1. \A w \in Replicas : hPc[w] = "idle"
  BY DEF Hier!Init, Hier!Workers
<1>2. ASSUME NEW v \in active, NEW w \in active PROVE v = w
  <2>1. IsFiniteSet(active)
    BY ChannelsAssumption, FS_Subset
  <2>2. Hier!Cardinality(active) = Cardinality(active)
    BY DEF Hier!Cardinality, Cardinality
  <2>3. Cardinality(active) \in Nat /\ Cardinality(active) <= 1 /\ Cardinality(active) # 0
    BY <2>1, <2>2, FS_CardinalityType, FS_EmptySet
  <2>4. PICK x : active = {x}
    BY <2>1, <2>3, FS_Singleton
  <2>. QED BY <2>4
<1>3. Solo
  BY <1>1, <1>2 DEF Solo
<1>4. PICK d : d = [a \in HAgents |-> 0]
  OBVIOUS
<1>5. \A a \in HAgents : ~Reg(a)
  BY DEF Hier!Init, Reg
<1>6. Depths(d)
  BY <1>4, <1>5, ChannelsAssumption DEF Depths
<1>7. Claimed(d)
  BY <1>1 DEF Claimed
<1>. QED BY <1>3, <1>6, <1>7 DEF Forested

\* While one process does all the attaching (Attach under h.mu) and no vetting
\* decision races it, the upline links never form a cycle and no agent is
\* farther from its root than maxAgentDepth: attachChecked's depth of the new
\* parent, one link and the height of the moved subtree bound the depth that
\* every agent of the subtree comes to have.
THEOREM OneProcessKeepsForest == Spec => []OneProcessForest
<1> DEFINE One == focus = "hierarchy" /\ active \subseteq Replicas /\ Hier!Cardinality(active) <= 1
<1> DEFINE Inv == One => HierInv /\ Solo /\ Forested
<1>1. Init => Inv
  BY InitHierInv, InitForested DEF Init
<1>2. Inv /\ [Next]_vars => Inv'
  <2> SUFFICES ASSUME Inv, [Next]_vars PROVE Inv'
    OBVIOUS
  <2>1. CASE UNCHANGED <<focus, hVars>>
    <3>1. UNCHANGED <<focus, rows, lock, active, hPc, hLoc>>
      BY <2>1 DEF hVars
    <3>2. One' => One
      BY <3>1
    <3>3. HierInv => HierInv'
      BY <3>1 DEF HierInv, AttachClaim, NoPair, HRow
    <3>4. Solo => Solo'
      BY <3>1 DEF Solo
    <3>5. Forested => Forested'
      <4> SUFFICES ASSUME NEW d, Depths(d), Claimed(d) PROVE Depths(d)' /\ Claimed(d)'
        BY DEF Forested
      <4>1. Depths(d)'
        BY <3>1 DEF Depths, Reg
      <4>2. \A ch, up : Movable(d, ch, up) => Movable(d, ch, up)'
        BY <3>1 DEF Movable, Taken, Roomy, Reg
      <4>3. Claimed(d)'
        BY <3>1, <4>2 DEF Claimed
      <4>. QED BY <4>1, <4>3
    <3>. QED BY <3>2, <3>3, <3>4, <3>5
  <2>2. CASE HierStep
    <3>1. Hier!Next => active' = active
      BY DEF Hier!Next, Hier!Register, Hier!BeginAttach, Hier!LockRows, Hier!CheckAttach, Hier!CommitAttach,
             Hier!AbortAttach, Hier!BeginVetting, Hier!PutVetting
    <3>2. Hier!Next /\ focus' = focus /\ active' = active
      BY <2>2, <3>1 DEF HierStep
    <3>3. One' => One
      BY <3>2
    <3>. QED BY <3>2, <3>3, NextHierInv, NextForested
  <2>. QED BY <2>1, <2>2 DEF Next, vars, CommStep, USSDStep, SettlementStep, FloatStep
<1>3. Inv => OneProcessForest
  <2> SUFFICES ASSUME Inv, focus = "hierarchy", active \subseteq Replicas, Hier!Cardinality(active) <= 1,
                      NEW a \in Hier!Registered
               PROVE  ~Hier!OnCycle(a) /\ Hier!DepthOf(a) <= MaxDepth
    BY DEF OneProcessForest, Hier!OneProcessForest, Hier!Forest
  <2>1. Reg(a)
    BY DEF Hier!Registered, Reg
  <2>2. PICK d : Depths(d)
    BY DEF Forested
  <2>3. d[a] \in 0..MaxDepth
    BY <2>1, <2>2 DEF Reg, Depths
  <2>4. ~Hier!OnCycle(a) /\ Hier!DepthOf(a) = d[a]
    BY <2>1, <2>2, DepthOfIs
  <2>. QED BY <2>3, <2>4, ChannelsAssumption
<1>. QED BY <1>1, <1>2, <1>3, PTL DEF Spec
=============================================================================

----------------------------- MODULE USSDGateway -----------------------------
(***************************************************************************)
(* The USSD gateway (services/ussd-gateway) as one phone sees it: webhooks *)
(* with the cumulative text of a dial, sessions in the embedded store,     *)
(* redials and the resume prompt, and the PIN gate with its strikes.       *)
(* processInput holds a lock per MSISDN; the count of consumed inputs is   *)
(* read before it and written after it.                                    *)
(*                                                                         *)
(* The menus are those of menus.json with runs of inputs that only collect *)
(* data made one.  There are two inputs: on the home menu "2" is the TIN   *)
(* enquiry with its NIN and "1" every other branch, whose action calls     *)
(* another service and ends the dial; on a PIN menu "1" is a PIN that is   *)
(* right, or confirmed, and "2" one that is not.  Every action ends on an  *)
(* end screen, so a session past the PIN gate is never stored.  Language   *)
(* choice is left out.                                                     *)
(***************************************************************************)
EXTENDS Integers, Sequences

CONSTANTS
  Dials,       \* sessionIds; one is used again once nothing is left of it
  Phone,       \* the MSISDN
  Workers,     \* webhook requests being served
  MaxStrikes,  \* maxPINStrikes
  MaxInputs,   \* bound: inputs of a dial
  MaxRequests  \* bound: webhook requests and restarts

VARIABLES
  text,        \* [Dials -> the inputs of the dial so far]
  sessions,    \* ussd_sessions
  index,       \* ussd_phone_index: the session last stored, or None
  locks,       \* sessionLocks, and who holds each
  mu,          \* server.mu
  pin,         \* the PIN record of the phone
  guesses,     \* history: wrong guesses since the PIN was set or proved
  pc, loc,     \* where every webhook is: inputs to go, session copy, PIN copy
  requests

vars == <<text, sessions, index, locks, mu, pin, guesses, pc, loc, requests>>

-----------------------------------------------------------------------------
None == [none |-> TRUE]
Free == None

Inputs == {"1", "2"}
Menus == {"home", "pin_verify", "pin_setup", "resume"}
Sessions == [menu : Menus, target : Dials \cup {None}, consumed : 0..MaxInputs]
Home == [menu |-> "home", target |-> None, consumed |-> 0]

PINRecords == [set : BOOLEAN, strikes : 0..MaxStrikes, locked : BOOLEAN]
NoPIN == [set |-> FALSE, strikes |-> 0, locked |-> FALSE]

Labels == {"idle", "lock", "input", "upstream", "verify", "strike", "setup", "save", "mark", "put"}
NoFrame ==
  [dial |-> None, todo |-> <<>>, upto |-> 0, count |-> FALSE, sess |-> None, rec |-> NoPIN, ok |-> FALSE]

Texts == UNION {[1..n -> Inputs] : n \in 0..MaxInputs}

TypeOK ==
  /\ text \in [Dials -> Texts]
  /\ sessions \in [Dials -> Sessions \cup {None}]
  /\ index \in Dials \cup {None}
  /\ locks \in [Dials \cup {Phone} -> Workers \cup {Free}]
  /\ mu \in Workers \cup {Free}
  /\ pin \in PINRecords
  /\ guesses \in Nat
  /\ pc \in [Workers -> Labels]
  /\ requests \in 0..MaxRequests

\* The phone may have had its PIN, and strikes against it, for long.
Init ==
  /\ text = [d \in Dials |-> <<>>]
  /\ sessions = [d \in Dials |-> None]
  /\ index = None
  /\ locks = [k \in Dials \cup {Phone} |-> Free]
  /\ mu = Free
  /\ guesses \in {0, MaxStrikes - 1}
  /\ \/ pin = NoPIN /\ guesses = 0
     \/ pin = [set |-> TRUE, strikes |-> guesses, locked |-> FALSE]
  /\ requests = 0
  /\ pc = [w \in Workers |-> "idle"]
  /\ loc = [w \in Workers |-> NoFrame]

Goto(w, to) == pc' = [pc EXCEPT ![w] = to]
Frame(w, f) == loc' = [loc EXCEPT ![w] = f]

\* KVSessionStore.Put and Delete: the index follows the phone, not the session.
Put(d, s) == sessions' = [sessions EXCEPT ![d] = s] /\ index' = d
Delete(d) == sessions' = [sessions EXCEPT ![d] = None]
             /\ index' = IF sessions[d] # None THEN None ELSE index

-----------------------------------------------------------------------------
(* The aggregator and the clock.                                           *)

\* webhook, up to processInput: the inputs of the text not yet consumed, or
\* the current menu again, and once more when there is no text at all.
Webhook(w, d, t) ==
  LET consumed == IF sessions[d] = None THEN 0 ELSE sessions[d].consumed
      fresh == Len(t) > consumed
  IN
  /\ pc[w] = "idle" /\ requests < MaxRequests /\ requests' = requests + 1
  /\ Frame(w, [NoFrame EXCEPT !.dial = d, !.upto = Len(t), !.count = fresh,
                 !.todo = IF fresh THEN SubSeq(t, consumed + 1, Len(t))
                          ELSE IF t = <<>> THEN <<"", "">> ELSE <<"">>])
  /\ Goto(w, "lock")
  /\ text' = [text EXCEPT ![d] = t]

Busy(d) == \E w \in Workers : pc[w] # "idle" /\ loc[w].dial = d

\* A new dial, which some networks send with its first input; the next input,
\* to a menu that was shown; or the last request again, answered or not.
Dial(w, d, t) ==
  /\ sessions[d] = None /\ ~Busy(d)
  /\ Webhook(w, d, t)
  /\ UNCHANGED <<sessions, index, locks, mu, pin, guesses>>
Enter(w, d, i) ==
  /\ ~Busy(d) /\ Len(text[d]) < MaxInputs
  /\ Webhook(w, d, Append(text[d], i))
  /\ UNCHANGED <<sessions, index, locks, mu, pin, guesses>>
Resend(w, d) ==
  /\ Webhook(w, d, text[d])
  /\ UNCHANGED <<sessions, index, locks, mu, pin, guesses>>

\* The TTL, found out by the next Get.
Expire(d) ==
  /\ sessions[d] # None
  /\ \A w \in Workers : pc[w] = "idle"
  /\ Delete(d)
  /\ UNCHANGED <<text, locks, mu, pin, guesses, pc, loc, requests>>

-----------------------------------------------------------------------------
(* processInput.                                                           *)

\* Mutant: the lock is the session's.
LockKey_Session(d) == d

\* "Serialization is per-MSISDN."
LockKey(d) == Phone

Acquire(w) ==
  LET k == LockKey(loc[w].dial) IN
  /\ pc[w] = "lock" /\ locks[k] = Free /\ mu = Free
  /\ locks' = [locks EXCEPT ![k] = w]
  /\ Goto(w, "input")
  /\ UNCHANGED <<text, sessions, index, mu, pin, guesses, loc, requests>>

\* The input is through: the next one of the text, the count, or the answer.
Done(w) ==
  LET f == [loc[w] EXCEPT !.todo = Tail(@), !.sess = None, !.rec = NoPIN, !.ok = FALSE] IN
  /\ locks' = [locks EXCEPT ![LockKey(loc[w].dial)] = Free]
  /\ IF f.todo # <<>> THEN Goto(w, "lock") /\ Frame(w, f)
     ELSE IF f.count THEN Goto(w, "mark") /\ Frame(w, f)
     ELSE Goto(w, "idle") /\ Frame(w, NoFrame)

\* Handle on a copy of the session: where the input leads.
Handle(w, s) ==
  LET i == Head(loc[w].todo)
      to(menu) == Frame(w, [loc[w] EXCEPT !.sess = [s EXCEPT !.menu = menu]])
  IN
  CASE s.menu = "home" /\ i = "1" -> Goto(w, "upstream") /\ to("home")
    [] s.menu = "home" /\ i = "2" -> Goto(w, "save") /\ to(IF pin.set THEN "pin_verify" ELSE "pin_setup")
    [] s.menu = "pin_verify" /\ i # "" -> Goto(w, "verify") /\ to("pin_verify")
    [] s.menu = "pin_setup" /\ i = "1" -> Goto(w, "setup") /\ to("pin_setup")
    [] s.menu = "pin_setup" /\ i = "2" -> Goto(w, "upstream") /\ to("pin_setup")
    [] OTHER -> Goto(w, "save") /\ to(s.menu)

\* No session: a live one of the phone is offered, otherwise the home menu.
First(w) ==
  LET d == loc[w].dial
      prev == index # None /\ index # d /\ sessions[index] # None
  IN
  /\ pc[w] = "input" /\ sessions[d] = None
  /\ \/ prev /\ Put(d, [Home EXCEPT !.menu = "resume", !.target = index]) /\ Done(w)
     \/ /\ ~prev /\ Put(d, Home)
        /\ IF Head(loc[w].todo) = "" THEN Done(w) ELSE Handle(w, Home) /\ UNCHANGED locks
  /\ UNCHANGED <<text, mu, pin, guesses, requests>>

\* The resume prompt: "1" adopts the prior session, anything else drops it.
Resume(w) ==
  LET d == loc[w].dial
      target == sessions[d].target
      adopted == IF Head(loc[w].todo) = "1" /\ sessions[target] # None THEN sessions[target] ELSE Home
  IN
  /\ pc[w] = "input" /\ sessions[d] # None /\ sessions[d].menu = "resume"
  /\ sessions' = [sessions EXCEPT ![target] = None, ![d] = adopted]
  /\ index' = d
  /\ Done(w)
  /\ UNCHANGED <<text, mu, pin, guesses, requests>>

Input(w) ==
  LET s == sessions[loc[w].dial] IN
  /\ pc[w] = "input" /\ s # None /\ s.menu # "resume"
  /\ Handle(w, s)
  /\ UNCHANGED <<text, sessions, index, locks, mu, pin, guesses, requests>>

\* The menu stays: the copy is stored.
Save(w) ==
  /\ pc[w] = "save"
  /\ Put(loc[w].dial, loc[w].sess)
  /\ Done(w)
  /\ UNCHANGED <<text, mu, pin, guesses, requests>>

\* An action has called its service, or failed, and an end screen follows.
Upstream(w) ==
  /\ pc[w] = "upstream"
  /\ Delete(loc[w].dial)
  /\ Done(w)
  /\ UNCHANGED <<text, mu, pin, guesses, requests>>

-----------------------------------------------------------------------------
(* PINManager.  A record is read and written back.                         *)

\* pin.setup_save: SetPIN clears strikes and lock, then the TIN status.
SetPIN(w) ==
  /\ pc[w] = "setup"
  /\ pin' = [set |-> TRUE, strikes |-> 0, locked |-> FALSE]
  /\ guesses' = 0
  /\ Goto(w, "upstream")
  /\ UNCHANGED <<text, sessions, index, locks, mu, loc, requests>>

\* Verify: a locked or missing PIN ends it, the guess is compared otherwise.
Verify(w) ==
  LET ok == Head(loc[w].todo) = "1" IN
  /\ pc[w] = "verify"
  /\ IF pin.set /\ ~pin.locked
     THEN /\ Frame(w, [loc[w] EXCEPT !.rec = pin, !.ok = ok])
          /\ Goto(w, "strike")
          /\ guesses' = IF ok THEN 0 ELSE guesses + 1
     ELSE Goto(w, "upstream") /\ UNCHANGED <<loc, guesses>>
  /\ UNCHANGED <<text, sessions, index, locks, mu, pin, requests>>

\* The record goes back with its strikes, and locks on the last one.
Strike(w) ==
  LET n == IF loc[w].ok THEN 0 ELSE loc[w].rec.strikes + 1 IN
  /\ pc[w] = "strike"
  /\ pin' = [loc[w].rec EXCEPT !.strikes = n, !.locked = (n >= MaxStrikes)]
  /\ Goto(w, "upstream")
  /\ UNCHANGED <<text, sessions, index, locks, mu, guesses, loc, requests>>

-----------------------------------------------------------------------------
(* The end of webhook: the inputs are counted, under server.mu alone.      *)

Mark(w) ==
  LET s == sessions[loc[w].dial] IN
  /\ pc[w] = "mark" /\ mu = Free
  /\ IF s = None THEN Goto(w, "idle") /\ Frame(w, NoFrame) /\ UNCHANGED mu
     ELSE Goto(w, "put") /\ Frame(w, [loc[w] EXCEPT !.sess = s]) /\ mu' = w
  /\ UNCHANGED <<text, sessions, index, locks, pin, guesses, requests>>

PutMark(w) ==
  /\ pc[w] = "put"
  /\ Put(loc[w].dial, [loc[w].sess EXCEPT !.consumed = loc[w].upto])
  /\ mu' = Free
  /\ Goto(w, "idle") /\ Frame(w, NoFrame)
  /\ UNCHANGED <<text, locks, pin, guesses, requests>>

\* A restart: sessions are durable, PINs are not.
Crash ==
  /\ requests < MaxRequests /\ requests' = requests + 1
  /\ locks' = [k \in DOMAIN locks |-> Free] /\ mu' = Free
  /\ pin' = NoPIN /\ guesses' = 0
  /\ pc' = [w \in Workers |-> "idle"] /\ loc' = [w \in Workers |-> NoFrame]
  /\ UNCHANGED <<text, sessions, index>>

Next ==
  \/ \E w \in Workers :
       \/ \E d \in Dials :
            \/ Resend(w, d)
            \/ \E i \in Inputs : Dial(w, d, <<>>) \/ Dial(w, d, <<i>>) \/ Enter(w, d, i)
       \/ Acquire(w) \/ First(w) \/ Resume(w) \/ Input(w) \/ Save(w) \/ Upstream(w)
       \/ SetPIN(w) \/ Verify(w) \/ Strike(w) \/ Mark(w) \/ PutMark(w)
  \/ \E d \in Dials : Expire(d)
  \/ Crash

Spec == Init /\ [][Next]_vars

-----------------------------------------------------------------------------
(* Properties.                                                             *)

\* "Hashed storage, 3-strike lock": between two settings or proofs of a PIN at
\* most three wrong guesses are compared with it, over any number of dials,
\* overlapping and repeated webhooks, resumed sessions and stale counts.
GuessesBounded == guesses <= MaxStrikes
=============================================================================

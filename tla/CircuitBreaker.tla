---------------------------- MODULE CircuitBreaker ----------------------------
(***************************************************************************)
(* The circuit breaker of the external adapters                            *)
(* (internal/platform/resilience): Retry makes up to Attempts calls, every *)
(* one through Do, which asks Allow and reports Success or Failure.        *)
(* Several callers share a breaker; each of the three takes its mutex, the *)
(* call itself does not, so a report may come long after its Allow.        *)
(***************************************************************************)
EXTENDS Integers

CONSTANTS
  Callers,     \* goroutines inside Retry
  Threshold,   \* failures that open the breaker
  Cooldown,    \* how long it stays open
  Attempts,    \* calls a Retry makes at most
  MaxTime      \* bound: the last moment of the clock

VARIABLES
  now,
  failures, openTill,   \* Breaker
  pc, attempt,          \* where every caller is, and its calls so far
  streak,               \* history: failures since the last success, up to Threshold
  lastFailure,          \* history: when the last of them was
  hasty                 \* history: callers let through too early

vars == <<now, failures, openTill, pc, attempt, streak, lastFailure, hasty>>

-----------------------------------------------------------------------------
TypeOK ==
  /\ now \in 0..MaxTime /\ lastFailure \in 0..MaxTime
  /\ failures \in Nat /\ openTill \in Nat
  /\ streak \in 0..Threshold
  /\ pc \in [Callers -> {"idle", "allow", "call"}]
  /\ attempt \in [Callers -> 0..Attempts]
  /\ hasty \subseteq Callers

Init ==
  /\ now = 0 /\ failures = 0 /\ openTill = 0
  /\ pc = [c \in Callers |-> "idle"] /\ attempt = [c \in Callers |-> 0]
  /\ streak = 0 /\ lastFailure = 0 /\ hasty = {}

Goto(c, to, n) == pc' = [pc EXCEPT ![c] = to] /\ attempt' = [attempt EXCEPT ![c] = n]

Begin(c) ==
  /\ pc[c] = "idle"
  /\ Goto(c, "allow", 0)
  /\ UNCHANGED <<now, failures, openTill, streak, lastFailure, hasty>>

\* Allow: refused while open; past the cooldown the count is lowered, so that
\* one more failure opens the breaker again.
Allow(c) ==
  /\ pc[c] = "allow"
  /\ IF failures >= Threshold /\ now < openTill
     THEN Goto(c, "idle", 0) /\ UNCHANGED <<failures, hasty>>
     ELSE /\ failures' = IF failures >= Threshold THEN Threshold - 1 ELSE failures
          /\ Goto(c, "call", attempt[c] + 1)
          /\ hasty' = IF streak = Threshold /\ now < lastFailure + Cooldown THEN hasty \cup {c} ELSE hasty
  /\ UNCHANGED <<now, openTill, streak, lastFailure>>

Success(c) ==
  /\ pc[c] = "call"
  /\ failures' = 0 /\ openTill' = 0
  /\ streak' = 0
  /\ Goto(c, "idle", 0)
  /\ UNCHANGED <<now, lastFailure, hasty>>

\* Mutant: only the failure that reaches the threshold starts the cooldown.
OpenTill_Exact(n) == IF n = Threshold THEN now + Cooldown ELSE openTill

\* Failure: every failure at or past the threshold restarts the cooldown.
OpenTill(n) == IF n >= Threshold THEN now + Cooldown ELSE openTill

\* Retry goes on after its pause, or returns the last error.
Failure(c) ==
  /\ pc[c] = "call"
  /\ failures' = failures + 1
  /\ openTill' = OpenTill(failures + 1)
  /\ streak' = IF streak < Threshold THEN streak + 1 ELSE streak
  /\ lastFailure' = now
  /\ IF attempt[c] < Attempts THEN Goto(c, "allow", attempt[c]) ELSE Goto(c, "idle", 0)
  /\ UNCHANGED <<now, hasty>>

Tick ==
  /\ now < MaxTime /\ now' = now + 1
  /\ UNCHANGED <<failures, openTill, pc, attempt, streak, lastFailure, hasty>>

Next ==
  \/ \E c \in Callers : Begin(c) \/ Allow(c) \/ Success(c) \/ Failure(c)
  \/ Tick

Spec == Init /\ [][Next]_vars

-----------------------------------------------------------------------------
(* Properties.                                                             *)

\* What the code keeps of "5 consecutive failures -> open for 30s": once
\* Threshold calls in a row have failed, nobody is let through for a Cooldown
\* after the last of them, until some call reports a success, whoever made the
\* calls, however late a failure reports and whatever probes went before.  The
\* success need not be a probe's: a call let through earlier that succeeds once
\* the breaker is open closes it at once, within the cooldown, and begins a new
\* streak (Success, on purpose, resets the history as it does the breaker).
OpenShields == hasty = {}
=============================================================================

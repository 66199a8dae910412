--------------------------- MODULE CircuitBreaker ---------------------------
(***************************************************************************)
(* The circuit breaker in front of the language-model providers            *)
(* (app/llm/providers/circuit_breaker.py).  The default drafter's provider *)
(* is shared by every thread that syncs; a call reads the breaker, leaves  *)
(* for seconds, and reports back to whatever the breaker has become.  The  *)
(* breaker's own methods are short and taken as atomic.                    *)
(***************************************************************************)
EXTENDS Naturals

CONSTANTS
  Callers,                \* threads that may be generating at one time
  failure_threshold, half_open_max_retries,
  HasSecondary,           \* a failover provider is configured
  MaxFailures             \* bound: failure_count is not counted further

ASSUME BreakerAssumption ==
  /\ failure_threshold \in Nat \ {0} /\ half_open_max_retries \in Nat \ {0}
  /\ HasSecondary \in BOOLEAN /\ MaxFailures \in Nat /\ failure_threshold <= MaxFailures

VARIABLES
  state, failure_count, half_open_attempts,
  rested,    \* recovery_timeout has passed since last_failure_time
  call,      \* what each caller is doing
  up         \* the primary answers

breaker == <<state, failure_count, half_open_attempts, rested>>
breakerVars == <<state, failure_count, half_open_attempts, rested, call, up>>

----------------------------------------------------------------------------
\* is_available, and the transition it makes.
ToHalfOpen == state = "open" /\ rested
IsAvailable ==
  \/ state = "closed" \/ ToHalfOpen
  \/ state = "half_open" /\ half_open_attempts < half_open_max_retries

\* Mutant: the attempts of the last recovery are still counted.
ReadStateKeepsAttempts ==
  /\ state' = IF ToHalfOpen THEN "half_open" ELSE state
  /\ UNCHANGED half_open_attempts

ReadState ==
  /\ state' = IF ToHalfOpen THEN "half_open" ELSE state
  /\ half_open_attempts' = IF ToHalfOpen THEN 0 ELSE half_open_attempts

\* Mutant: only the counters are reset.
on_success_counters ==
  /\ failure_count' = 0 /\ half_open_attempts' = 0
  /\ UNCHANGED <<state, rested>>

on_success ==
  /\ state' = "closed" /\ failure_count' = 0 /\ half_open_attempts' = 0
  /\ UNCHANGED rested

Counted == IF failure_count < MaxFailures THEN failure_count + 1 ELSE failure_count

Trips ==
  \/ state = "half_open" /\ half_open_attempts + 1 >= half_open_max_retries
  \/ state = "closed" /\ Counted >= failure_threshold

on_failure ==
  /\ failure_count' = Counted
  /\ half_open_attempts' = IF state = "half_open" THEN half_open_attempts + 1
                           ELSE half_open_attempts
  /\ state' = IF Trips THEN "open" ELSE state
  /\ rested' = IF Trips THEN FALSE ELSE rested

----------------------------------------------------------------------------
(* generate, agenerate and generate_stream.                                *)

\* _get_active_provider: the primary, else the secondary, else an error.
Route(c) ==
  /\ call[c] = "idle"
  /\ ReadState
  /\ call' = [call EXCEPT ![c] = IF IsAvailable THEN "primary"
                                 ELSE IF HasSecondary THEN "secondary" ELSE "idle"]
  /\ UNCHANGED <<failure_count, rested, up>>

Succeed(c) ==
  /\ (call[c] = "primary" /\ up) \/ call[c] = "secondary"
  /\ on_success
  /\ call' = [call EXCEPT ![c] = "idle"]
  /\ UNCHANGED up

\* A failed primary call is repeated on the secondary (not by a stream), whose
\* outcome is then not reported.
Fail(c) ==
  /\ (call[c] = "primary" /\ ~up) \/ call[c] = "secondary"
  /\ on_failure
  /\ call' = [call EXCEPT ![c] = IF @ = "primary" /\ HasSecondary THEN "failover" ELSE "idle"]
  /\ UNCHANGED up

Failover(c) ==
  /\ call[c] = "failover"
  /\ call' = [call EXCEPT ![c] = "idle"]
  /\ UNCHANGED <<breaker, up>>

\* recovery_timeout seconds after the last trip.
Rest == state = "open" /\ rested' = TRUE /\ UNCHANGED <<state, failure_count, half_open_attempts, call, up>>

\* The vendor goes down, or comes back.
Outage == up' = ~up /\ UNCHANGED <<breaker, call>>

BreakerInit ==
  /\ state = "closed" /\ failure_count = 0 /\ half_open_attempts = 0 /\ rested = FALSE
  /\ call = [c \in Callers |-> "idle"] /\ up = TRUE

Return(c) == Succeed(c) \/ Fail(c) \/ Failover(c)

BreakerNext == (\E c \in Callers : Route(c) \/ Return(c)) \/ Rest \/ Outage

BreakerSpec == BreakerInit /\ [][BreakerNext]_breakerVars

(* Time passes, a caller keeps drafting and a call comes back (the client  *)
(* times out after 30 seconds).                                            *)
FairBreakerSpec ==
  /\ BreakerSpec /\ WF_breakerVars(Rest)
  /\ \A c \in Callers : WF_breakerVars(Route(c)) /\ WF_breakerVars(Return(c))

----------------------------------------------------------------------------
\* The type invariant of the breaker and its callers.
BreakerTypeOK ==
  /\ state \in {"closed", "open", "half_open"}
  /\ failure_count \in Nat /\ half_open_attempts \in Nat
  /\ rested \in BOOLEAN /\ up \in BOOLEAN
  /\ call \in [Callers -> {"idle", "primary", "secondary", "failover"}]

\* The breaker is never wedged: a half-open circuit always admits a probe,
\* whatever late answers of earlier calls were counted, and a closed circuit is
\* below its threshold.
NeverWedged ==
  /\ state = "half_open" => half_open_attempts < half_open_max_retries
  /\ state = "closed" => failure_count < failure_threshold

\* A vendor that has recovered is used again for good, although late failures
\* of old calls and the failover provider's own failures are counted against it.
Recovers == <>[]up => <>[](state = "closed")
=============================================================================

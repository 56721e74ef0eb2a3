---------------------------- MODULE CircuitBreaker ----------------------------
(***************************************************************************)
(* The circuit breaker in its two forms: CircuitBreaker (in memory, one    *)
(* event loop) and RedisCircuitBreaker (shared by processes, every script  *)
(* atomic, everything between two scripts interleaved).  This module holds *)
(* their state and the operations on it; ResilientClient has the callers.  *)
(*                                                                         *)
(* Time is relative.  Of the recorded failures only the failure_threshold  *)
(* most recent ones matter: the circuit is to open exactly when the last   *)
(* of them is still inside the window.  recent[i] is how many ticks the    *)
(* i-th most recent failure has left in the window, cooling how many are   *)
(* left of recovery_timeout_seconds since opened_at.                       *)
(***************************************************************************)
EXTENDS Naturals

CONSTANTS
    Backends,           \* the breakers a run covers: "memory", "redis"
    Threshold,          \* failure_threshold
    Window,             \* failure_window_seconds, in ticks
    Recovery,           \* recovery_timeout_seconds, in ticks
    SuccessThreshold    \* success_threshold

ASSUME BreakerAssumption ==
    /\ Backends \subseteq {"memory", "redis"}
    /\ Threshold \in Nat \ {0} /\ Window \in Nat \ {0}
    /\ Recovery \in Nat /\ SuccessThreshold \in Nat \ {0}

VARIABLES
    backend,    \* which of the two breakers this is
    state,      \* _state, or the field state of the hash (missing: CLOSED)
    recent,     \* recent_failures, or the sorted set of failures
    cooling,    \* ticks until _should_attempt_reset says yes
    successes   \* half_open_successes

breaker == <<backend, state, recent, cooling, successes>>

CircuitState == {"CLOSED", "OPEN", "HALF_OPEN"}

BreakerTypeOK ==
    /\ backend \in Backends
    /\ state \in CircuitState
    /\ recent \in [1..Threshold -> 0..Window]
    /\ cooling \in 0..Recovery
    /\ successes \in 0..(SuccessThreshold - 1)

NoFailures == [i \in 1..Threshold |-> 0]

BreakerInit ==
    /\ backend \in Backends
    /\ state = "CLOSED"
    /\ recent = NoFailures
    /\ cooling = 0
    /\ successes = 0

Counted == [i \in 1..Threshold |-> IF i = 1 THEN Window ELSE recent[i - 1]]
ShouldOpen(failures) == failures[Threshold] > 0
ShouldAttemptReset == cooling = 0

-----------------------------------------------------------------------------

Open ==
    /\ state' = "OPEN"
    /\ cooling' = Recovery
    /\ successes' = 0

(* Mutant: the failures are kept when the circuit closes.                  *)
Close_KeepsFailures ==
    /\ state' = "CLOSED"
    /\ cooling' = IF backend = "redis" THEN 0 ELSE cooling
    /\ successes' = 0
    /\ recent' = recent

(* _close leaves _opened_at alone; the script clears it, and a caller that *)
(* reads it then sees no time to wait for.                                 *)
Close ==
    /\ state' = "CLOSED"
    /\ cooling' = IF backend = "redis" THEN 0 ELSE cooling
    /\ successes' = 0
    /\ recent' = NoFailures

HalfOpen ==
    /\ state' = "HALF_OPEN"
    /\ successes' = 0
    /\ UNCHANGED <<recent, cooling>>

(* Mutant: a success heals an OPEN circuit at once.                        *)
RecordSuccess_AnyState ==
    IF backend = "memory" /\ state = "CLOSED"
    THEN UNCHANGED <<state, recent, cooling, successes>>
    ELSE IF state = "OPEN" \/ successes + 1 >= SuccessThreshold
         THEN Close
         ELSE successes' = successes + 1 /\ UNCHANGED <<state, recent, cooling>>

(* Mutant: the counter passes the threshold before the circuit closes.     *)
RecordSuccess_OneMore ==
    IF backend = "memory" /\ state # "HALF_OPEN"
    THEN UNCHANGED <<state, recent, cooling, successes>>
    ELSE IF successes >= SuccessThreshold
         THEN Close
         ELSE successes' = successes + 1 /\ UNCHANGED <<state, recent, cooling>>

(* The in-memory breaker counts successes in HALF_OPEN only; the script    *)
(* counts whenever it is called, whatever the state has become since the   *)
(* caller read it.                                                         *)
RecordSuccess ==
    IF backend = "memory" /\ state # "HALF_OPEN"
    THEN UNCHANGED <<state, recent, cooling, successes>>
    ELSE IF successes + 1 >= SuccessThreshold
         THEN Close
         ELSE successes' = successes + 1 /\ UNCHANGED <<state, recent, cooling>>

(* In memory a failure opens a HALF_OPEN circuit at once and never opens   *)
(* an OPEN one again.  The script looks at the count alone.                *)
RecordFailure ==
    /\ recent' = Counted
    /\ IF \/ backend = "memory" /\ state = "HALF_OPEN"
          \/ ~(backend = "memory" /\ state = "OPEN") /\ ShouldOpen(Counted)
       THEN Open
       ELSE UNCHANGED <<state, cooling, successes>>

(* reset() is a plain method, not under the lock; in Redis it deletes both *)
(* keys.                                                                   *)
ResetBreaker == Close /\ UNCHANGED backend

Age ==
    /\ recent' = [i \in 1..Threshold |-> IF recent[i] > 0 THEN recent[i] - 1 ELSE 0]
    /\ cooling' = IF cooling > 0 THEN cooling - 1 ELSE 0
    /\ UNCHANGED <<backend, state, successes>>
=============================================================================

---------------------------- MODULE ResilientClient ----------------------------
(***************************************************************************)
(* ResilientLLMClient of llm/resilient.py: concurrent calls of complete()  *)
(* and stream() through the token bucket, the retry loop and the circuit   *)
(* breaker they share, to a service that may be in trouble.                *)
(*                                                                         *)
(* One tick is the time in which the bucket gains a token.  A critical     *)
(* section of the limiter or of the in-memory breaker holds no await, so   *)
(* it is one step; every call of Redis is a step of its own.  The model    *)
(* counter of the fallback model is left out.                              *)
(***************************************************************************)
EXTENDS CircuitBreaker

CONSTANTS
    Callers,        \* tasks using the client
    Burst,          \* burst
    MaxWait,        \* max_wait_seconds in ticks; 0 is wait_on_limit = False
    MaxAttempts     \* max_attempts of the retry policy

ASSUME ClientAssumption ==
    Burst \in Nat \ {0} /\ MaxWait \in Nat /\ MaxAttempts \in Nat \ {0}

VARIABLES
    tokens,     \* whole tokens in the bucket
    trouble,    \* the service may fail, and clients may give up
    pc,         \* where each call is
    kind,       \* which call it is
    waited,     \* total_wait of RateLimiter.acquire
    attempt,    \* attempts made so far by RetryPolicy.execute
    seen        \* RedisCircuitBreaker.execute: the local variable state

call == <<pc, kind, waited, attempt, seen>>
vars == <<breaker, tokens, trouble, call>>

Kind == {"foreground", "background", "stream"}

TypeOK ==
    /\ BreakerTypeOK
    /\ tokens \in 0..Burst
    /\ trouble \in BOOLEAN
    /\ pc \in [Callers -> {"idle", "asleep", "awake", "admit", "opened", "probe",
                           "calling", "backoff", "reading"}]
    /\ kind \in [Callers -> Kind]
    /\ waited \in [Callers -> 0..MaxWait]
    /\ attempt \in [Callers -> 0..(MaxAttempts - 1)]
    /\ seen \in [Callers -> CircuitState]

Init ==
    /\ BreakerInit
    /\ tokens = Burst
    /\ trouble = FALSE
    /\ pc = [c \in Callers |-> "idle"]
    /\ kind = [c \in Callers |-> "foreground"]
    /\ waited = [c \in Callers |-> 0]
    /\ attempt = [c \in Callers |-> 0]
    /\ seen = [c \in Callers |-> "CLOSED"]

At(c, place) == pc' = [pc EXCEPT ![c] = place]

Finish(c) ==
    /\ At(c, "idle")
    /\ kind' = [kind EXCEPT ![c] = "foreground"]
    /\ waited' = [waited EXCEPT ![c] = 0]
    /\ attempt' = [attempt EXCEPT ![c] = 0]
    /\ seen' = [seen EXCEPT ![c] = "CLOSED"]

-----------------------------------------------------------------------------
(* The token bucket.                                                       *)

AddTokens == tokens' = IF tokens < Burst THEN tokens + 1 ELSE Burst

(* The first look at the bucket; a caller that would have to wait longer   *)
(* than it may is refused on the spot and nothing changes.                 *)
Begin(c, k) ==
    /\ pc[c] = "idle"
    /\ kind' = [kind EXCEPT ![c] = k]
    /\ \/ /\ tokens > 0
          /\ tokens' = tokens - 1
          /\ At(c, "admit")
       \/ /\ tokens = 0 /\ MaxWait > 0
          /\ At(c, "asleep")
          /\ UNCHANGED tokens
    /\ UNCHANGED <<breaker, trouble, waited, attempt, seen>>

(* Mutant: the loop of acquire never gives up.                             *)
Awake_Patient(c) ==
    /\ pc[c] = "awake"
    /\ \/ /\ tokens > 0
          /\ tokens' = tokens - 1
          /\ At(c, "admit")
          /\ waited' = [waited EXCEPT ![c] = 0]
       \/ /\ tokens = 0
          /\ At(c, "asleep")
          /\ waited' = [waited EXCEPT ![c] = 0]
          /\ UNCHANGED tokens
    /\ UNCHANGED <<breaker, trouble, kind, attempt, seen>>

(* The loop of acquire after a sleep.                                      *)
Awake(c) ==
    /\ pc[c] = "awake"
    /\ \/ /\ tokens > 0
          /\ tokens' = tokens - 1
          /\ At(c, "admit")
          /\ waited' = [waited EXCEPT ![c] = 0]
          /\ UNCHANGED <<kind, attempt, seen>>
       \/ /\ tokens = 0 /\ waited[c] + 1 > MaxWait
          /\ Finish(c)
          /\ UNCHANGED tokens
       \/ /\ tokens = 0 /\ waited[c] + 1 <= MaxWait
          /\ At(c, "asleep")
          /\ UNCHANGED <<tokens, kind, waited, attempt, seen>>
    /\ UNCHANGED <<breaker, trouble>>

-----------------------------------------------------------------------------
(* The breaker around one attempt.  CircuitOpenError is not among the      *)
(* exceptions the retry policy retries: it ends the call.                  *)

(* Mutant: an OPEN circuit turns every call away.                          *)
Enter_NoProbe(c) ==
    /\ pc[c] = "admit" /\ backend = "memory"
    /\ \/ /\ state # "OPEN"
          /\ At(c, "calling")
          /\ UNCHANGED <<breaker, kind, waited, attempt, seen>>
       \/ /\ state = "OPEN"
          /\ Finish(c)
          /\ UNCHANGED breaker
    /\ UNCHANGED <<tokens, trouble>>

Enter(c) ==
    /\ pc[c] = "admit" /\ backend = "memory"
    /\ \/ /\ state # "OPEN"
          /\ At(c, "calling")
          /\ UNCHANGED <<breaker, kind, waited, attempt, seen>>
       \/ /\ state = "OPEN" /\ ShouldAttemptReset
          /\ HalfOpen /\ UNCHANGED backend
          /\ At(c, "calling")
          /\ UNCHANGED <<kind, waited, attempt, seen>>
       \/ /\ state = "OPEN" /\ ~ShouldAttemptReset
          /\ Finish(c)
          /\ UNCHANGED breaker
    /\ UNCHANGED <<tokens, trouble>>

(* The three round trips of RedisCircuitBreaker.execute before the call:   *)
(* read the state, read opened_at, run the half-open script.               *)
GetState(c) ==
    /\ pc[c] = "admit" /\ backend = "redis"
    /\ seen' = [seen EXCEPT ![c] = state]
    /\ At(c, IF state = "OPEN" THEN "opened" ELSE "calling")
    /\ UNCHANGED <<breaker, tokens, trouble, kind, waited, attempt>>

ReadOpenedAt(c) ==
    /\ pc[c] = "opened"
    /\ IF ShouldAttemptReset
       THEN At(c, "probe") /\ UNCHANGED <<kind, waited, attempt, seen>>
       ELSE Finish(c)
    /\ UNCHANGED <<breaker, tokens, trouble>>

SetHalfOpen(c) ==
    /\ pc[c] = "probe"
    /\ IF state = "OPEN"
       THEN HalfOpen
       ELSE UNCHANGED <<state, recent, cooling, successes>>
    /\ UNCHANGED backend
    /\ seen' = [seen EXCEPT ![c] = "HALF_OPEN"]
    /\ At(c, "calling")
    /\ UNCHANGED <<tokens, trouble, kind, waited, attempt>>

-----------------------------------------------------------------------------
(* How an attempt ends.                                                    *)

(* What the breaker makes of a call that returned: the Redis one records   *)
(* it only if the state it read at the beginning was not CLOSED.           *)
Succeeded(c) ==
    IF backend = "redis" /\ seen[c] # "HALF_OPEN"
    THEN UNCHANGED breaker
    ELSE RecordSuccess /\ UNCHANGED backend

Answer(c) ==
    /\ pc[c] = "calling" /\ kind[c] # "stream"
    /\ Succeeded(c)
    /\ Finish(c)
    /\ UNCHANGED <<tokens, trouble>>

(* _inner_stream: the breaker sees the iterator made, not what comes out   *)
(* of it.  A client whose stream() is an async generator has contacted     *)
(* nobody yet.                                                             *)
OpenStream(c) ==
    /\ pc[c] = "calling" /\ kind[c] = "stream"
    /\ Succeeded(c)
    /\ At(c, "reading")
    /\ UNCHANGED <<tokens, trouble, kind, waited, attempt, seen>>

(* _should_retry: only transient errors are retried, while attempts last;  *)
(* a background call and a stream have no retry loop.                      *)
Retries(c, transient) ==
    /\ kind[c] = "foreground" /\ transient
    /\ attempt[c] < MaxAttempts - 1

Fail(c, transient) ==
    /\ pc[c] = "calling" /\ trouble
    /\ RecordFailure /\ UNCHANGED backend
    /\ IF Retries(c, transient)
       THEN At(c, "backoff") /\ UNCHANGED <<kind, waited, attempt, seen>>
       ELSE Finish(c)
    /\ UNCHANGED <<tokens, trouble>>

(* The sleep between two attempts is over; the next one goes through the   *)
(* breaker again and takes no token.                                       *)
Backoff(c) ==
    /\ pc[c] = "backoff"
    /\ At(c, "admit")
    /\ attempt' = [attempt EXCEPT ![c] = @ + 1]
    /\ UNCHANGED <<breaker, tokens, trouble, kind, waited, seen>>

(* The last chunk, or an error in the middle: no record either way.        *)
EndStream(c) ==
    /\ pc[c] = "reading"
    /\ Finish(c)
    /\ UNCHANGED <<breaker, tokens, trouble>>

(* CancelledError is not an Exception: neither the breaker nor the retry   *)
(* loop sees it.                                                           *)
Cancel(c) ==
    /\ pc[c] # "idle" /\ trouble
    /\ Finish(c)
    /\ UNCHANGED <<breaker, tokens, trouble>>

-----------------------------------------------------------------------------

Reset ==
    /\ ResetBreaker
    /\ UNCHANGED <<tokens, trouble, call>>

Tick ==
    /\ Age
    /\ AddTokens
    /\ pc' = [c \in Callers |-> IF pc[c] = "asleep" THEN "awake" ELSE pc[c]]
    /\ waited' = [c \in Callers |-> IF pc[c] = "asleep" THEN waited[c] + 1 ELSE waited[c]]
    /\ UNCHANGED <<trouble, kind, attempt, seen>>

TroubleComesOrGoes ==
    /\ trouble' = ~trouble
    /\ UNCHANGED <<breaker, tokens, call>>

(* What a call does once it has begun.                                     *)
Step(c) ==
    \/ Awake(c) \/ Enter(c)
    \/ GetState(c) \/ ReadOpenedAt(c) \/ SetHalfOpen(c)
    \/ Answer(c) \/ OpenStream(c) \/ EndStream(c) \/ Backoff(c)
    \/ \E transient \in BOOLEAN : Fail(c, transient)

Next ==
    \/ \E c \in Callers : Step(c) \/ Cancel(c) \/ \E k \in Kind : Begin(c, k)
    \/ Reset \/ Tick \/ TroubleComesOrGoes

Spec == Init /\ [][Next]_vars

(* The event loop runs every task that can run, time passes, a request is  *)
(* answered or fails, and whoever reads a stream reads it to its end.      *)
FairSpec == Spec /\ WF_vars(Tick) /\ \A c \in Callers : WF_vars(Step(c))

-----------------------------------------------------------------------------

(* A CLOSED circuit has fewer failures in its window than open it: results *)
(* that come in while it is OPEN or HALF_OPEN leave nothing behind.        *)
ClosedMeansHealthy == state = "CLOSED" => ~ShouldOpen(recent)

(* In memory an OPEN circuit is left when recovery_timeout_seconds have    *)
(* passed or by reset(): no result of a call that was under way when it    *)
(* opened closes it early.                                                 *)
OpenIsLeftLate ==
    [][backend = "memory" /\ state = "OPEN" /\ state' # "OPEN"
        => ShouldAttemptReset \/ Reset]_vars

(* Every call ends: waiting for a token, retrying and probing all stop.    *)
EveryCallEnds == \A c \in Callers : pc[c] # "idle" ~> pc[c] = "idle"

(* When the trouble is over for good and calls keep coming, the circuit    *)
(* closes and stays closed, whatever it had counted before.                *)
CircuitRecovers ==
    <>[]~trouble /\ []<>(\E c \in Callers : pc[c] # "idle") => <>[](state = "CLOSED")
=============================================================================

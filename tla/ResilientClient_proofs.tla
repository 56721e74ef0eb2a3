----------------------- MODULE ResilientClient_proofs -----------------------
(***************************************************************************)
(* What the circuit breakers promise, for every number of callers and all  *)
(* thresholds, windows and time-outs.                                      *)
(***************************************************************************)
EXTENDS ResilientClient, TLAPS

(* The window as a type: what Counted and Age build is a window again.     *)
LEMMA CountedIsAWindow ==
    ASSUME recent \in [1..Threshold -> 0..Window]
    PROVE  Counted \in [1..Threshold -> 0..Window]
BY BreakerAssumption DEF Counted

(* The window empty has nothing to open the circuit for.                   *)
LEMMA NoFailuresIsHealthy ==
    /\ NoFailures \in [1..Threshold -> 0..Window]
    /\ ~ShouldOpen(NoFailures)
BY BreakerAssumption DEF NoFailures, ShouldOpen

-----------------------------------------------------------------------------

(* The inductive invariant: the types the breaker's arithmetic needs and   *)
(* the property itself.                                                    *)
BreakerInv == BreakerTypeOK /\ ClosedMeansHealthy

LEMMA InitEstablishes == Init => BreakerInv
<1> SUFFICES ASSUME Init PROVE BreakerInv
    OBVIOUS
<1>1. BreakerTypeOK
    BY BreakerAssumption, NoFailuresIsHealthy DEF Init, BreakerInit, BreakerTypeOK, CircuitState
<1>2. ClosedMeansHealthy
    BY NoFailuresIsHealthy DEF Init, BreakerInit, ClosedMeansHealthy
<1> QED BY <1>1, <1>2 DEF BreakerInv

(* The operations of the breaker, one lemma each.                          *)
LEMMA CloseKeeps ==
    ASSUME BreakerInv, Close, UNCHANGED backend
    PROVE  BreakerInv'
BY BreakerAssumption, NoFailuresIsHealthy
   DEF BreakerInv, BreakerTypeOK, ClosedMeansHealthy, Close, CircuitState, ShouldOpen

LEMMA HalfOpenKeeps ==
    ASSUME BreakerInv, HalfOpen, UNCHANGED backend
    PROVE  BreakerInv'
BY BreakerAssumption
   DEF BreakerInv, BreakerTypeOK, ClosedMeansHealthy, HalfOpen, CircuitState

LEMMA RecordSuccessKeeps ==
    ASSUME BreakerInv, RecordSuccess, UNCHANGED backend
    PROVE  BreakerInv'
<1>1. CASE Close
    BY <1>1, CloseKeeps
<1>2. CASE ~(successes + 1 >= SuccessThreshold) /\ successes' = successes + 1
           /\ UNCHANGED <<state, recent, cooling>>
    BY <1>2, BreakerAssumption
       DEF BreakerInv, BreakerTypeOK, ClosedMeansHealthy, CircuitState, ShouldOpen
<1>3. CASE UNCHANGED <<state, recent, cooling, successes>>
    BY <1>3 DEF BreakerInv, BreakerTypeOK, ClosedMeansHealthy, ShouldOpen
<1> QED BY <1>1, <1>2, <1>3 DEF RecordSuccess

(* A failure leaves the circuit CLOSED only if it fits under the threshold.*)
LEMMA RecordFailureKeeps ==
    ASSUME BreakerInv, RecordFailure, UNCHANGED backend
    PROVE  BreakerInv'
<1>1. recent' \in [1..Threshold -> 0..Window]
    BY CountedIsAWindow DEF BreakerInv, BreakerTypeOK, RecordFailure
<1>2. CASE Open
    BY <1>1, <1>2, BreakerAssumption
       DEF BreakerInv, BreakerTypeOK, ClosedMeansHealthy, Open, CircuitState
<1>3. CASE UNCHANGED <<state, cooling, successes>> /\ ~Open
    <2>1. state = "CLOSED" => ~ShouldOpen(recent')
        BY <1>3 DEF RecordFailure
    <2> QED BY <1>1, <1>3, <2>1
            DEF BreakerInv, BreakerTypeOK, ClosedMeansHealthy, ShouldOpen
<1> QED BY <1>2, <1>3 DEF RecordFailure

(* Time only takes failures out of the window.                             *)
LEMMA AgeKeeps ==
    ASSUME BreakerInv, Age
    PROVE  BreakerInv'
<1>1. recent' \in [1..Threshold -> 0..Window]
    BY BreakerAssumption DEF BreakerInv, BreakerTypeOK, Age
<1>2. recent[Threshold] = 0 => recent'[Threshold] = 0
    BY BreakerAssumption DEF BreakerInv, BreakerTypeOK, Age
<1>3. cooling' \in 0..Recovery
    BY BreakerAssumption DEF BreakerInv, BreakerTypeOK, Age
<1>4. recent[Threshold] \in Nat
    BY BreakerAssumption DEF BreakerInv, BreakerTypeOK
<1>5. ClosedMeansHealthy'
    BY <1>2, <1>4, BreakerAssumption DEF BreakerInv, ClosedMeansHealthy, ShouldOpen, Age
<1> QED BY <1>1, <1>3, <1>5 DEF BreakerInv, BreakerTypeOK, Age

LEMMA SucceededKeeps ==
    ASSUME NEW c \in Callers, BreakerInv, Succeeded(c)
    PROVE  BreakerInv'
<1>1. CASE UNCHANGED breaker
    BY <1>1 DEF BreakerInv, BreakerTypeOK, ClosedMeansHealthy, ShouldOpen, breaker
<1>2. CASE RecordSuccess /\ UNCHANGED backend
    BY <1>2, RecordSuccessKeeps
<1> QED BY <1>1, <1>2 DEF Succeeded

-----------------------------------------------------------------------------

LEMMA NextKeeps == BreakerInv /\ [Next]_vars => BreakerInv'
<1> SUFFICES ASSUME BreakerInv, [Next]_vars PROVE BreakerInv'
    OBVIOUS
<1>1. ASSUME UNCHANGED breaker PROVE BreakerInv'
    BY <1>1 DEF BreakerInv, BreakerTypeOK, ClosedMeansHealthy, ShouldOpen, breaker
<1>2. ASSUME NEW c \in Callers, Step(c) PROVE BreakerInv'
    <2>1. CASE Awake(c) \/ GetState(c) \/ ReadOpenedAt(c) \/ EndStream(c) \/ Backoff(c)
        BY <2>1, <1>1 DEF Awake, GetState, ReadOpenedAt, EndStream, Backoff
    <2>2. CASE Enter(c)
        BY <2>2, <1>1, HalfOpenKeeps DEF Enter
    <2>3. CASE SetHalfOpen(c)
        <3>1. CASE HalfOpen /\ UNCHANGED backend
            BY <3>1, HalfOpenKeeps
        <3>2. CASE UNCHANGED <<state, recent, cooling, successes>> /\ UNCHANGED backend
            BY <3>2, <1>1 DEF breaker
        <3> QED BY <2>3, <3>1, <3>2 DEF SetHalfOpen
    <2>4. CASE Answer(c) \/ OpenStream(c)
        BY <2>4, SucceededKeeps DEF Answer, OpenStream
    <2>5. CASE \E transient \in BOOLEAN : Fail(c, transient)
        BY <2>5, RecordFailureKeeps DEF Fail
    <2> QED BY <1>2, <2>1, <2>2, <2>3, <2>4, <2>5 DEF Step
<1>3. ASSUME NEW c \in Callers, Cancel(c) \/ \E k \in Kind : Begin(c, k)
      PROVE BreakerInv'
    BY <1>3, <1>1 DEF Cancel, Begin
<1>4. CASE Reset
    BY <1>4, CloseKeeps DEF Reset, ResetBreaker
<1>5. CASE Tick
    BY <1>5, AgeKeeps DEF Tick
<1>6. CASE TroubleComesOrGoes
    BY <1>6, <1>1 DEF TroubleComesOrGoes
<1>7. CASE UNCHANGED vars
    BY <1>7, <1>1 DEF vars
<1> QED BY <1>2, <1>3, <1>4, <1>5, <1>6, <1>7 DEF Next

LEMMA BreakerInvHolds == Spec => []BreakerInv
BY InitEstablishes, NextKeeps, PTL DEF Spec

(* A CLOSED circuit, in memory or in Redis, has fewer failures inside its  *)
(* window than open it, whatever results arrived late and whoever reset it.*)
THEOREM ClosedCircuitsAreHealthy == Spec => []ClosedMeansHealthy
<1>1. BreakerInv => ClosedMeansHealthy
    BY DEF BreakerInv
<1> QED BY <1>1, BreakerInvHolds, PTL

-----------------------------------------------------------------------------
(* The in-memory breaker makes no round trips: nobody is between reading   *)
(* the state and half-opening the circuit.                                 *)
MemoryInv ==
    /\ pc = [c \in Callers |-> pc[c]]
    /\ backend = "memory" => \A c \in Callers : pc[c] \notin {"opened", "probe"}

LEMMA MemoryInvHolds == Spec => []MemoryInv
<1>1. Init => MemoryInv
    BY DEF Init, MemoryInv
<1>2. MemoryInv /\ [Next]_vars => MemoryInv'
    <2> SUFFICES ASSUME MemoryInv, [Next]_vars PROVE MemoryInv'
        OBVIOUS
    <2>1. ASSUME NEW c \in Callers, NEW place, place \notin {"opened", "probe"},
                 At(c, place), UNCHANGED backend
          PROVE  MemoryInv'
        BY <2>1 DEF MemoryInv, At
    <2>2. ASSUME UNCHANGED <<pc, backend>> PROVE MemoryInv'
        BY <2>2 DEF MemoryInv
    <2>3. ASSUME NEW c \in Callers, Finish(c), UNCHANGED backend PROVE MemoryInv'
        BY <2>1, <2>3 DEF Finish
    <2>4. ASSUME backend = "redis", UNCHANGED backend, NEW c \in Callers,
                 NEW place, At(c, place)
          PROVE  MemoryInv'
        BY <2>4 DEF MemoryInv, At
    <2>5. ASSUME NEW c \in Callers, Step(c) PROVE MemoryInv'
        <3>1. CASE Awake(c)
            BY <3>1, <2>1, <2>3 DEF Awake, breaker
        <3>2. CASE Enter(c)
            BY <3>2, <2>1, <2>3 DEF Enter, breaker
        <3>3. CASE GetState(c)
            BY <3>3, <2>4 DEF GetState, breaker
        <3>4. CASE ReadOpenedAt(c)
            <4>1. CASE At(c, "probe")
                <5>1. backend = "redis" \/ backend # "memory"
                    BY <3>4 DEF ReadOpenedAt, MemoryInv
                <5> QED BY <4>1, <5>1, <3>4 DEF ReadOpenedAt, MemoryInv, At, breaker
            <4>2. CASE Finish(c)
                BY <4>2, <3>4, <2>3 DEF ReadOpenedAt, breaker
            <4> QED BY <3>4, <4>1, <4>2 DEF ReadOpenedAt
        <3>5. CASE SetHalfOpen(c)
            BY <3>5, <2>1 DEF SetHalfOpen
        <3>6. CASE Answer(c)
            BY <3>6, <2>3 DEF Answer, Succeeded, breaker
        <3>7. CASE OpenStream(c)
            BY <3>7, <2>1 DEF OpenStream, Succeeded, breaker
        <3>8. CASE EndStream(c)
            BY <3>8, <2>3 DEF EndStream, breaker
        <3>9. CASE Backoff(c)
            BY <3>9, <2>1 DEF Backoff, breaker
        <3>10. CASE \E transient \in BOOLEAN : Fail(c, transient)
            BY <3>10, <2>1, <2>3 DEF Fail
        <3> QED BY <2>5, <3>1, <3>2, <3>3, <3>4, <3>5, <3>6, <3>7, <3>8, <3>9, <3>10 DEF Step
    <2>6. ASSUME NEW c \in Callers, Cancel(c) \/ \E k \in Kind : Begin(c, k) PROVE MemoryInv'
        BY <2>6, <2>1, <2>3 DEF Cancel, Begin, breaker
    <2>7. CASE Reset
        BY <2>7, <2>2 DEF Reset, ResetBreaker, call
    <2>8. CASE Tick
        BY <2>8 DEF Tick, Age, MemoryInv
    <2>9. CASE TroubleComesOrGoes
        BY <2>9, <2>2 DEF TroubleComesOrGoes, breaker, call
    <2>10. CASE UNCHANGED vars
        BY <2>10, <2>2 DEF vars, breaker, call
    <2> QED BY <2>5, <2>6, <2>7, <2>8, <2>9, <2>10 DEF Next
<1> QED BY <1>1, <1>2, PTL DEF Spec

(* No answer to a call that was under way closes an OPEN circuit of the    *)
(* in-memory breaker: it is left when recovery_timeout_seconds are over,   *)
(* by the call that then probes, or by reset().                            *)
THEOREM OpenCircuitsWait == Spec => OpenIsLeftLate
<1> DEFINE Early == backend = "memory" /\ state = "OPEN" /\ state' # "OPEN"
           Late == ShouldAttemptReset \/ Reset
<1>1. MemoryInv /\ [Next]_vars => [Early => Late]_vars
    <2> SUFFICES ASSUME MemoryInv, Next, Early PROVE Late
        OBVIOUS
    <2>1. CASE \E c \in Callers : Step(c)
        <3> PICK c \in Callers : Step(c)
            BY <2>1
        <3>1. ~SetHalfOpen(c)
            BY DEF MemoryInv, SetHalfOpen
        <3>2. CASE Enter(c)
            BY <3>2 DEF Enter, breaker
        <3>3. ASSUME UNCHANGED state PROVE FALSE
            BY <3>3
        <3>4. ~(Awake(c) \/ GetState(c) \/ ReadOpenedAt(c) \/ EndStream(c) \/ Backoff(c))
            BY <3>3 DEF Awake, GetState, ReadOpenedAt, EndStream, Backoff, breaker
        <3>5. ~(Answer(c) \/ OpenStream(c))
            BY <3>3 DEF Answer, OpenStream, Succeeded, RecordSuccess, breaker
        <3>6. ~(\E transient \in BOOLEAN : Fail(c, transient))
            BY <3>3 DEF Fail, RecordFailure
        <3> QED BY <3>1, <3>2, <3>4, <3>5, <3>6 DEF Step
    <2>2. CASE \E c \in Callers : Cancel(c) \/ \E k \in Kind : Begin(c, k)
        BY <2>2 DEF Cancel, Begin, breaker
    <2>3. CASE Reset
        BY <2>3
    <2>4. CASE Tick \/ TroubleComesOrGoes
        BY <2>4 DEF Tick, Age, TroubleComesOrGoes, breaker
    <2> QED BY <2>1, <2>2, <2>3, <2>4 DEF Next
<1>2. Spec => []MemoryInv
    BY MemoryInvHolds
<1> QED BY <1>1, <1>2, PTL DEF Spec, OpenIsLeftLate

-----------------------------------------------------------------------------
(* The bounds of a call: it sleeps only while it may still wait, and backs *)
(* off only while an attempt is left.                                      *)
Places == {"idle", "asleep", "awake", "admit", "opened", "probe", "calling", "backoff", "reading"}

CallInv ==
    /\ tokens \in 0..Burst /\ trouble \in BOOLEAN
    /\ pc \in [Callers -> Places] /\ kind \in [Callers -> Kind]
    /\ waited \in [Callers -> 0..MaxWait]
    /\ attempt \in [Callers -> 0..(MaxAttempts - 1)]
    /\ seen \in [Callers -> CircuitState]
    /\ \A c \in Callers :
        /\ pc[c] \notin {"asleep", "awake"} => waited[c] = 0
        /\ pc[c] = "asleep" => waited[c] < MaxWait
        /\ pc[c] = "backoff" => attempt[c] < MaxAttempts - 1

\* A step of one call that leaves its counters alone or starts them anew.
LEMMA CallKeeps ==
    ASSUME CallInv, NEW c \in Callers, NEW place \in Places, At(c, place),
           tokens' \in 0..Burst, trouble' \in BOOLEAN,
           kind' \in [Callers -> Kind], seen' \in [Callers -> CircuitState],
           waited' \in [Callers -> 0..MaxWait],
           attempt' \in [Callers -> 0..(MaxAttempts - 1)],
           \A d \in Callers : d # c => waited'[d] = waited[d] /\ attempt'[d] = attempt[d],
           place \notin {"asleep", "awake"} => waited'[c] = 0,
           place = "asleep" => waited'[c] < MaxWait,
           place = "backoff" => attempt'[c] < MaxAttempts - 1
    PROVE  CallInv'
BY DEF CallInv, At

LEMMA FinishKeeps ==
    ASSUME CallInv, NEW c \in Callers, Finish(c), tokens' \in 0..Burst, trouble' \in BOOLEAN
    PROVE  CallInv'
<1>1. "foreground" \in Kind /\ "CLOSED" \in CircuitState /\ "idle" \in Places
    BY DEF Kind, CircuitState, Places
<1>2. 0 \in 0..MaxWait /\ 0 \in 0..(MaxAttempts - 1)
    BY ClientAssumption
<1>3. /\ kind' \in [Callers -> Kind] /\ seen' \in [Callers -> CircuitState]
      /\ waited' \in [Callers -> 0..MaxWait] /\ waited'[c] = 0
      /\ attempt' \in [Callers -> 0..(MaxAttempts - 1)]
      /\ \A d \in Callers : d # c => waited'[d] = waited[d] /\ attempt'[d] = attempt[d]
    BY <1>1, <1>2 DEF Finish, CallInv
<1> QED
    BY <1>1, <1>3, CallKeeps DEF Finish

LEMMA CallInvHolds == Spec => []CallInv
<1>1. Init => CallInv
    <2> SUFFICES ASSUME Init PROVE CallInv
        OBVIOUS
    <2>1. 0 \in 0..MaxWait /\ 0 \in 0..(MaxAttempts - 1) /\ Burst \in 0..Burst
        BY ClientAssumption
    <2>2. "idle" \in Places /\ "foreground" \in Kind /\ "CLOSED" \in CircuitState
        BY DEF Places, Kind, CircuitState
    <2> QED BY <2>1, <2>2 DEF Init, CallInv
<1>2. CallInv /\ BreakerInv /\ [Next]_vars => CallInv'
    <2> SUFFICES ASSUME CallInv, BreakerInv, [Next]_vars PROVE CallInv'
        OBVIOUS
    <2>1. /\ tokens \in 0..Burst /\ trouble \in BOOLEAN /\ state \in CircuitState
          /\ Burst \in Nat \ {0} /\ MaxWait \in Nat /\ MaxAttempts \in Nat \ {0}
        BY ClientAssumption DEF CallInv, BreakerInv, BreakerTypeOK
    <2>2. tokens > 0 => tokens - 1 \in 0..Burst
        BY <2>1
    <2>3. ASSUME NEW c \in Callers, NEW place \in Places \ {"asleep", "awake", "backoff"},
                 At(c, place), pc[c] \notin {"asleep", "awake"},
                 tokens' \in 0..Burst, trouble' \in BOOLEAN,
                 kind' \in [Callers -> Kind], seen' \in [Callers -> CircuitState],
                 UNCHANGED <<waited, attempt>>
          PROVE  CallInv'
        BY <2>3, CallKeeps DEF CallInv
    <2>4. ASSUME NEW c \in Callers, Step(c) PROVE CallInv'
        <3>1. CASE Awake(c)
            <4>1. CASE tokens > 0 /\ tokens' = tokens - 1 /\ At(c, "admit")
                       /\ waited' = [waited EXCEPT ![c] = 0] /\ UNCHANGED <<kind, attempt, seen>>
                BY <3>1, <4>1, <2>1, <2>2, CallKeeps DEF Awake, CallInv, Places
            <4>2. CASE Finish(c) /\ UNCHANGED tokens
                BY <3>1, <4>2, <2>1, FinishKeeps DEF Awake
            <4>3. CASE waited[c] + 1 <= MaxWait /\ At(c, "asleep")
                       /\ UNCHANGED <<tokens, kind, waited, attempt, seen>>
                BY <3>1, <4>3, <2>1, CallKeeps DEF Awake, CallInv, Places
            <4> QED BY <3>1, <4>1, <4>2, <4>3 DEF Awake
        <3>2. CASE Enter(c)
            BY <3>2, <2>1, <2>3, FinishKeeps DEF Enter, CallInv, Places
        <3>3. CASE GetState(c)
            <4>1. PICK place \in {"opened", "calling"} : At(c, place)
                BY <3>3 DEF GetState
            <4>2. seen' \in [Callers -> CircuitState]
                BY <3>3, <2>1 DEF GetState, CallInv
            <4> QED BY <3>3, <4>1, <4>2, <2>1, <2>3 DEF GetState, CallInv, Places
        <3>4. CASE ReadOpenedAt(c)
            BY <3>4, <2>1, <2>3, FinishKeeps DEF ReadOpenedAt, CallInv, Places
        <3>5. CASE SetHalfOpen(c)
            <4>1. seen' \in [Callers -> CircuitState]
                BY <3>5 DEF SetHalfOpen, CallInv, CircuitState
            <4> QED BY <3>5, <4>1, <2>1, <2>3 DEF SetHalfOpen, CallInv, Places
        <3>6. CASE Answer(c) \/ EndStream(c)
            BY <3>6, <2>1, FinishKeeps DEF Answer, EndStream
        <3>7. CASE OpenStream(c)
            BY <3>7, <2>1, <2>3 DEF OpenStream, CallInv, Places
        <3>8. CASE Backoff(c)
            <4>1. attempt[c] + 1 \in 0..(MaxAttempts - 1)
                BY <3>8, <2>1 DEF Backoff, CallInv
            <4>2. /\ attempt' \in [Callers -> 0..(MaxAttempts - 1)]
                  /\ \A d \in Callers : d # c => attempt'[d] = attempt[d]
                BY <3>8, <4>1 DEF Backoff, CallInv
            <4> QED BY <3>8, <4>2, <2>1, CallKeeps DEF Backoff, CallInv, Places
        <3>9. CASE \E transient \in BOOLEAN : Fail(c, transient)
            <4> PICK transient \in BOOLEAN : Fail(c, transient)
                BY <3>9
            <4>1. CASE Retries(c, transient) /\ At(c, "backoff") /\ UNCHANGED <<kind, waited, attempt, seen>>
                BY <4>1, <2>1, CallKeeps DEF Fail, Retries, CallInv, Places
            <4>2. CASE Finish(c)
                BY <4>2, <2>1, FinishKeeps DEF Fail
            <4> QED BY <4>1, <4>2 DEF Fail
        <3> QED BY <2>4, <3>1, <3>2, <3>3, <3>4, <3>5, <3>6, <3>7, <3>8, <3>9 DEF Step
    <2>5. ASSUME NEW c \in Callers, Cancel(c) PROVE CallInv'
        BY <2>5, <2>1, FinishKeeps DEF Cancel
    <2>6. ASSUME NEW c \in Callers, NEW k \in Kind, Begin(c, k) PROVE CallInv'
        <3>1. kind' \in [Callers -> Kind]
            BY <2>6 DEF Begin, CallInv
        <3>2. CASE tokens > 0 /\ tokens' = tokens - 1 /\ At(c, "admit")
            BY <2>6, <3>1, <3>2, <2>1, <2>2, CallKeeps DEF Begin, CallInv, Places
        <3>3. CASE MaxWait > 0 /\ At(c, "asleep") /\ UNCHANGED tokens
            BY <2>6, <3>1, <3>3, <2>1, CallKeeps DEF Begin, CallInv, Places
        <3> QED BY <2>6, <3>2, <3>3 DEF Begin
    <2>7. CASE Tick
        <3>1. tokens' \in 0..Burst
            BY <2>7, <2>1 DEF Tick, AddTokens
        <3>2. waited' \in [Callers -> 0..MaxWait]
            BY <2>7, <2>1 DEF Tick, CallInv
        <3>3. pc' \in [Callers -> Places]
            BY <2>7 DEF Tick, CallInv, Places
        <3>4. \A c \in Callers :
                /\ pc'[c] \notin {"asleep", "awake"} => waited'[c] = 0
                /\ pc'[c] # "asleep"
                /\ pc'[c] = "backoff" => attempt[c] < MaxAttempts - 1
            BY <2>7 DEF Tick, CallInv
        <3> QED BY <2>7, <3>1, <3>2, <3>3, <3>4 DEF Tick, CallInv
    <2>8. CASE TroubleComesOrGoes \/ Reset \/ UNCHANGED vars
        <3>1. UNCHANGED <<tokens, call>> /\ trouble' \in BOOLEAN
            BY <2>8, <2>1 DEF TroubleComesOrGoes, Reset, vars
        <3> QED BY <3>1 DEF CallInv, call
    <2> QED BY <2>4, <2>5, <2>6, <2>7, <2>8 DEF Next
<1> QED BY <1>1, <1>2, BreakerInvHolds, PTL DEF Spec

(* No call waits longer than max_wait_seconds for a token or makes more    *)
(* than max_attempts, the bucket stays between empty and burst, and the    *)
(* breaker counts below its thresholds.                                    *)
THEOREM BoundsHold == Spec => []TypeOK
<1>1. BreakerInv /\ CallInv => TypeOK
    BY DEF BreakerInv, CallInv, TypeOK, Places
<1> QED BY <1>1, BreakerInvHolds, CallInvHolds, PTL
=============================================================================

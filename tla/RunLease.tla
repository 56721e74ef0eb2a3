------------------------------ MODULE RunLease ------------------------------
(***************************************************************************)
(* FileRunLeaseStore of src/cemaf/orchestration/run_lease.py: one lease    *)
(* file per run, guarded by a POSIX file lock, handed out to worker        *)
(* processes with a TTL and a fencing token that grows with every grant.   *)
(*                                                                         *)
(* The file lock makes the body of acquire, validate and release one step  *)
(* each.  The clock, however, is read BEFORE acquire takes the lock, so    *)
(* acquire is two steps: a claim that remembers the time it saw, and the   *)
(* grant or refusal decided with that old time.                            *)
(***************************************************************************)
EXTENDS Integers

CONSTANTS
    Runs,        \* run ids
    Workers,     \* worker processes; a worker is its own holder_id
    None,        \* Python's None: no holder on file, no call, no lease
    TTL,         \* the ttl every worker asks for, in clock ticks
    MaxTime,     \* bound: the clock stops here
    MaxToken     \* bound: no claim starts once a run has handed out this many tokens

ASSUME RunLeaseAssumption ==
    /\ TTL \in Nat \ {0}
    /\ MaxTime \in Nat
    /\ MaxToken \in Nat
    /\ None \notin Workers
    /\ None \notin [run: Runs, now: Nat]
    /\ None \notin [run: Runs, token: Nat]

VARIABLES
    clock,   \* the UTC clock all processes of the host read
    store,   \* the lease file of each run
    claim,   \* per worker, the acquire call that has read the clock
    lease    \* per worker, the RunLease object in its memory

leaseVars == <<clock, store, claim, lease>>

-----------------------------------------------------------------------------
(* What the file and the objects hold.                                     *)

LeaseFile == [holder: Workers \union {None}, token: Nat, expires: Nat]
AbsentFile == [holder |-> None, token |-> 0, expires |-> 0]

Claim == [run: Runs, now: Nat]
RunLease == [run: Runs, token: Nat]

LeaseTypeOK ==
    /\ clock \in Nat
    /\ store \in [Runs -> LeaseFile]
    /\ claim \in [Workers -> Claim \union {None}]
    /\ lease \in [Workers -> RunLease \union {None}]

LeaseInit ==
    /\ clock = 0
    /\ store = [r \in Runs |-> AbsentFile]
    /\ claim = [w \in Workers |-> None]
    /\ lease = [w \in Workers |-> None]

-----------------------------------------------------------------------------
(* The file names the holder and the token of the lease ...                *)
Owns(w) ==
    /\ lease[w] # None
    /\ store[lease[w].run].holder = w
    /\ store[lease[w].run].token = lease[w].token

(* ... and has not expired: validate.                                      *)
Validates(w) == Owns(w) /\ store[lease[w].run].expires > clock

(* Mutant: a lease counts as expired one tick early.                       *)
HeldAt_OneTickEarly(r, now) == store[r].holder # None /\ store[r].expires > now + 1

(* acquire refuses while an unexpired holder is on file, whoever it is.    *)
HeldAt(r, now) == store[r].holder # None /\ store[r].expires > now

Tick ==
    /\ clock < MaxTime
    /\ clock' = clock + 1
    /\ UNCHANGED <<store, claim, lease>>

(* Mutant: a tick of clock skew is taken off the time acquire reads.       *)
StartAcquire_Backdated(w, r) ==
    /\ claim[w] = None
    /\ lease[w] = None
    /\ store[r].token < MaxToken
    /\ claim' = [claim EXCEPT ![w] = [run |-> r, now |-> clock - 1]]
    /\ UNCHANGED <<clock, store, lease>>

(* acquire, up to the lock: the time that decides is read here.            *)
StartAcquire(w, r) ==
    /\ claim[w] = None
    /\ lease[w] = None
    /\ store[r].token < MaxToken
    /\ claim' = [claim EXCEPT ![w] = [run |-> r, now |-> clock]]
    /\ UNCHANGED <<clock, store, lease>>

(* Mutant: only a released lease gets a new token, an expired one is taken *)
(* over with the token it has.                                             *)
Grant_KeepsExpiredToken(w) ==
    /\ claim[w] # None
    /\ ~HeldAt(claim[w].run, claim[w].now)
    /\ LET r == claim[w].run
           token == IF store[r].holder # None THEN store[r].token ELSE store[r].token + 1
       IN /\ store' = [store EXCEPT ![r] =
                         [holder |-> w, token |-> token, expires |-> claim[w].now + TTL]]
          /\ lease' = [lease EXCEPT ![w] = [run |-> r, token |-> token]]
    /\ claim' = [claim EXCEPT ![w] = None]
    /\ UNCHANGED clock

(* acquire, under the lock: the next token, for ttl from the remembered    *)
(* time.                                                                   *)
Grant(w) ==
    /\ claim[w] # None
    /\ ~HeldAt(claim[w].run, claim[w].now)
    /\ LET r == claim[w].run
           token == store[r].token + 1
       IN /\ store' = [store EXCEPT ![r] =
                         [holder |-> w, token |-> token, expires |-> claim[w].now + TTL]]
          /\ lease' = [lease EXCEPT ![w] = [run |-> r, token |-> token]]
    /\ claim' = [claim EXCEPT ![w] = None]
    /\ UNCHANGED clock

Refuse(w) ==
    /\ claim[w] # None
    /\ HeldAt(claim[w].run, claim[w].now)
    /\ claim' = [claim EXCEPT ![w] = None]
    /\ UNCHANGED <<clock, store, lease>>

(* release keeps the token and clears the holder.  It does not look at the *)
(* expiry.                                                                 *)
Release(w) ==
    /\ Owns(w)
    /\ store' = [store EXCEPT ![lease[w].run].holder = None,
                              ![lease[w].run].expires = 0]
    /\ lease' = [lease EXCEPT ![w] = None]
    /\ UNCHANGED <<clock, claim>>

(* release by a deposed holder raises StaleRunLeaseError.                  *)
StaleRelease(w) ==
    /\ lease[w] # None
    /\ ~Owns(w)
    /\ lease' = [lease EXCEPT ![w] = None]
    /\ UNCHANGED <<clock, store, claim>>

(* The process dies: whatever it held in memory is gone, the file stays.   *)
Crash(w) ==
    /\ claim[w] # None \/ lease[w] # None
    /\ claim' = [claim EXCEPT ![w] = None]
    /\ lease' = [lease EXCEPT ![w] = None]
    /\ UNCHANGED <<clock, store>>

-----------------------------------------------------------------------------
LeaseNext ==
    \/ Tick
    \/ \E w \in Workers, r \in Runs : StartAcquire(w, r)
    \/ \E w \in Workers : Grant(w)
    \/ \E w \in Workers : Refuse(w)
    \/ \E w \in Workers : Release(w)
    \/ \E w \in Workers : StaleRelease(w)
    \/ \E w \in Workers : Crash(w)

LeaseSpec == LeaseInit /\ [][LeaseNext]_leaseVars
=============================================================================

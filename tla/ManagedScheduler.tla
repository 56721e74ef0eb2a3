--------------------------- MODULE ManagedScheduler ---------------------------
(***************************************************************************)
(* ManagedScheduler of scheduler/primitives.py on top of AsyncJobExecutor: *)
(* several workers that registered the same job, each with its own loop,   *)
(* trigger and semaphore, and one JobStore that holds the job's lease.     *)
(*                                                                         *)
(* The code of one worker is one event loop: everything between two awaits *)
(* is one step.  The store is whatever implements the protocol, so each of *)
(* its calls is an await of its own.  Run records and heartbeats carry no  *)
(* control and are left out; wait_for may time out at every await below it.*)
(***************************************************************************)
EXTENDS Naturals, FiniteSets

CONSTANTS
    Workers,        \* worker ids
    Tasks,          \* <<worker, origin>>: the asyncio tasks that may run the job
    Jobs,           \* the job definitions a run covers, see the assumption
    None,           \* no lease
    MaxConcurrent,  \* max_concurrent_jobs
    MaxRetries,     \* max_retries
    Interval,       \* interval of an interval trigger, in ticks
    LeaseTTL,       \* lease_ttl_seconds, in ticks
    MaxMishaps      \* bound: stops, unregistrations and crashes together

(* A task of origin "loop" is started by the scheduler loop, one of origin *)
(* "now" is a caller of run_now, which may give a call up and call again.  *)
ASSUME SchedulerAssumption ==
    /\ Tasks \subseteq Workers \X {"loop", "now"}
    /\ Jobs \subseteq [trigger: {"interval", "once"}, singleton: BOOLEAN]
    /\ None \notin [owner: Workers, left: 1..LeaseTTL]
    /\ MaxConcurrent \in Nat \ {0} /\ MaxRetries \in Nat \ {0}
    /\ Interval \in Nat \ {0} /\ LeaseTTL \in Nat \ {0} /\ MaxMishaps \in Nat

VARIABLES
    job,        \* the definition
    loop,       \* _scheduler_loop of each worker; "stuck" spins without an await
    registered, \* the job is in _jobs of the worker's executor
    due,        \* ticks until should_run, per worker
    inFlight,   \* the job is in _in_flight_job_ids
    slots,      \* free permits of the semaphore
    pc,         \* where each task is; "none" if there is no such task
    attempt,    \* attempts made by _execute_job
    active,     \* the task is in _active_runs
    lease,      \* the lease in the store
    orphaned,   \* history: a lease vanished from under an entry of _active_runs
    mishaps

task == <<pc, attempt, active>>
worker == <<loop, registered, due, inFlight, slots>>
vars == <<job, worker, task, lease, orphaned, mishaps>>

Owner(t) == t[1]
Started(t) == t[2]
TasksOf(w) == {t \in Tasks : Owner(t) = w}

Lease == [owner: Workers, left: 1..LeaseTTL]

TypeOK ==
    /\ job \in Jobs
    /\ loop \in [Workers -> {"off", "on", "stuck"}]
    /\ registered \in [Workers -> BOOLEAN]
    /\ due \in [Workers -> 0..Interval]
    /\ inFlight \in [Workers -> BOOLEAN]
    /\ slots \in [Workers -> 0..MaxConcurrent]
    /\ pc \in [Tasks -> {"none", "queued", "claim", "handler", "pause", "saving"}]
    /\ attempt \in [Tasks -> 0..(MaxRetries - 1)]
    /\ active \in [Tasks -> BOOLEAN]
    /\ lease \in Lease \union {None}
    /\ orphaned \in BOOLEAN
    /\ mishaps \in 0..MaxMishaps

Init ==
    /\ job \in Jobs
    /\ loop = [w \in Workers |-> "on"]
    /\ registered = [w \in Workers |-> TRUE]
    /\ due = [w \in Workers |-> 0]
    /\ inFlight = [w \in Workers |-> FALSE]
    /\ slots = [w \in Workers |-> MaxConcurrent]
    /\ pc = [t \in Tasks |-> "none"]
    /\ attempt = [t \in Tasks |-> 0]
    /\ active = [t \in Tasks |-> FALSE]
    /\ lease = None
    /\ orphaned = FALSE
    /\ mishaps = 0

At(t, place) == pc' = [pc EXCEPT ![t] = place]

(* The task is over and no other has its key in _active_runs.              *)
Gone(t) ==
    /\ At(t, "none")
    /\ attempt' = [attempt EXCEPT ![t] = 0]
    /\ active' = [active EXCEPT ![t] = FALSE]

HoldsSlot(t) == pc[t] \in {"claim", "handler", "pause"}

(* The entry that _active_runs has for the task: _on_job_complete takes it *)
(* out before anything else, a call that is given up leaves it behind.     *)
OnRecord(t) == active[t] /\ pc[t] # "saving"

-----------------------------------------------------------------------------
(* Starting the job.                                                       *)

Mark(w) == inFlight' = [inFlight EXCEPT ![w] = @ \/ job.singleton]

Claimed(w) == job.singleton /\ inFlight[w]

(* One pass of the loop that finds the job due.  mark_run of a once trigger*)
(* takes no argument: the call raises after the task has been created, the *)
(* except clause logs it, and the loop starts over without a sleep.  A     *)
(* singleton is in flight by then and the second pass skips it; any other  *)
(* job is due again, and the loop spins and starves its own tasks.         *)
LoopPass(w) ==
    LET t == <<w, "loop">> IN
    /\ loop[w] = "on" /\ registered[w]
    /\ ~Claimed(w) /\ due[w] = 0
    /\ t \in Tasks /\ pc[t] = "none"
    /\ Mark(w)
    /\ At(t, "queued")
    /\ \/ /\ job.trigger = "interval"
          /\ due' = [due EXCEPT ![w] = Interval]
          /\ UNCHANGED loop
       \/ /\ job.trigger = "once"
          /\ loop' = [loop EXCEPT ![w] = IF job.singleton THEN "on" ELSE "stuck"]
          /\ UNCHANGED due
    /\ UNCHANGED <<job, registered, slots, attempt, active, lease, orphaned, mishaps>>

(* Mutant: run_now does not look at the jobs in flight.                    *)
RunNow_Unchecked(w) ==
    LET t == <<w, "now">> IN
    /\ loop[w] # "stuck" /\ registered[w]
    /\ t \in Tasks /\ pc[t] = "none"
    /\ Mark(w)
    /\ At(t, "queued")
    /\ UNCHANGED <<job, loop, registered, due, slots, attempt, active, lease,
                   orphaned, mishaps>>

(* A claimed singleton makes run_now return CANCELLED, which changes       *)
(* nothing here.                                                           *)
RunNow(w) ==
    LET t == <<w, "now">> IN
    /\ loop[w] # "stuck" /\ registered[w] /\ ~Claimed(w)
    /\ t \in Tasks /\ pc[t] = "none"
    /\ Mark(w)
    /\ At(t, "queued")
    /\ UNCHANGED <<job, loop, registered, due, slots, attempt, active, lease,
                   orphaned, mishaps>>

(* The wrapped handler looks for its task in _active_runs: a task found    *)
(* there, in a retry or because it gave an earlier call up, goes straight  *)
(* to the handler and does not ask for the lease again.                    *)
Attempt(t) == At(t, IF active[t] THEN "handler" ELSE "claim")

TakeSlot(t) ==
    /\ pc[t] = "queued" /\ slots[Owner(t)] > 0 /\ loop[Owner(t)] # "stuck"
    /\ slots' = [slots EXCEPT ![Owner(t)] = @ - 1]
    /\ Attempt(t)
    /\ UNCHANGED <<job, loop, registered, due, inFlight, attempt, active, lease,
                   orphaned, mishaps>>

-----------------------------------------------------------------------------
(* The wrapped handler.                                                    *)

(* Mutant: the holder of the lease is not looked at.                       *)
LeaseFree_Ignored(w) == lease # None => lease.owner \in Workers

LeaseFree(w) == lease # None => lease.owner = w

(* Mutant: the claim is given up only by the loop's own tasks.             *)
LeaveSlot_LoopOnly(t) ==
    /\ slots' = [slots EXCEPT ![Owner(t)] = @ + 1]
    /\ inFlight' = [inFlight EXCEPT ![Owner(t)] = @ /\ Started(t) = "now"]

(* What _execute_job_with_slot does on every way out: the permit and the   *)
(* claim are given back before the run is recorded and the lease released. *)
LeaveSlot(t) ==
    /\ slots' = [slots EXCEPT ![Owner(t)] = @ + 1]
    /\ inFlight' = [inFlight EXCEPT ![Owner(t)] = FALSE]

(* acquire_lease lets the same worker in again and renews the lease; the   *)
(* run is then active, and its heartbeat, its RUNNING record and the       *)
(* handler follow.  A refused worker saves a DEFERRED record and is done.  *)
Claim(t) ==
    /\ pc[t] = "claim" /\ loop[Owner(t)] # "stuck"
    /\ \/ /\ job.singleton => LeaseFree(Owner(t))
          /\ lease' = IF job.singleton THEN [owner |-> Owner(t), left |-> LeaseTTL] ELSE lease
          /\ active' = [active EXCEPT ![t] = TRUE]
          /\ At(t, "handler")
          /\ UNCHANGED <<attempt, slots, inFlight>>
       \/ /\ job.singleton /\ ~LeaseFree(Owner(t))
          /\ Gone(t) /\ LeaveSlot(t)
          /\ UNCHANGED lease
    /\ UNCHANGED <<job, loop, registered, due, orphaned, mishaps>>

(* The handler returns: the result goes straight to _on_job_complete.      *)
Return(t) ==
    /\ pc[t] = "handler" /\ loop[Owner(t)] # "stuck"
    /\ LeaveSlot(t)
    /\ At(t, "saving")
    /\ UNCHANGED <<job, loop, registered, due, attempt, active, lease, orphaned, mishaps>>

(* The task leaves acquire_lease by an exception: the store may have       *)
(* granted the lease already.                                              *)
GrantedUnseen(t) ==
    /\ pc[t] = "claim" /\ job.singleton /\ LeaseFree(Owner(t))
    /\ lease' = [owner |-> Owner(t), left |-> LeaseTTL]

(* Mutant: one attempt too many.                                           *)
LastAttempt_Late(t) == attempt[t] = MaxRetries

LastAttempt(t) == attempt[t] = MaxRetries - 1

(* An attempt fails or times out at one of the awaits below wait_for.      *)
Fail(t) ==
    /\ pc[t] \in {"claim", "handler"} /\ loop[Owner(t)] # "stuck"
    /\ UNCHANGED lease \/ GrantedUnseen(t)
    /\ \/ /\ ~LastAttempt(t)
          /\ At(t, "pause")
          /\ UNCHANGED <<slots, inFlight>>
       \/ /\ LastAttempt(t)
          /\ At(t, "saving")
          /\ LeaveSlot(t)
    /\ UNCHANGED <<job, loop, registered, due, attempt, active, orphaned, mishaps>>

Retry(t) ==
    /\ pc[t] = "pause" /\ loop[Owner(t)] # "stuck"
    /\ Attempt(t)
    /\ attempt' = [attempt EXCEPT ![t] = @ + 1]
    /\ UNCHANGED <<job, worker, active, lease, orphaned, mishaps>>

-----------------------------------------------------------------------------
(* _on_job_complete, outside the permit and the claim.                     *)

(* The lease vanishes from under an entry other than t's.                  *)
Orphans(t) == \E u \in Tasks \ {t} : OnRecord(u) /\ lease # None /\ lease.owner = Owner(u)

(* The final record is saved; then, unless that raised, the lease of a run *)
(* that was active is released.  release_lease asks who holds the lease,   *)
(* not for which run: it may be the one the next run of this worker has    *)
(* just renewed.                                                           *)
Complete(t) ==
    /\ pc[t] = "saving" /\ loop[Owner(t)] # "stuck"
    /\ \/ /\ active[t] /\ job.singleton /\ LeaseFree(Owner(t))
          /\ lease' = None
          /\ orphaned' = (orphaned \/ Orphans(t))
       \/ UNCHANGED <<lease, orphaned>>
    /\ Gone(t)
    /\ UNCHANGED <<job, worker, mishaps>>

(* The caller of run_now is cancelled.  The permit and the claim go back   *)
(* if it still had them; _on_job_complete never runs, or stops half way.   *)
(* If only the call was cancelled, by a time-out of the caller's, the task *)
(* lives on with its entry in _active_runs.                                *)
Cancel(t) ==
    /\ Started(t) = "now" /\ pc[t] # "none" /\ loop[Owner(t)] # "stuck"
    /\ \/ Gone(t)
       \/ /\ OnRecord(t)
          /\ At(t, "none")
          /\ attempt' = [attempt EXCEPT ![t] = 0]
          /\ UNCHANGED active
    /\ UNCHANGED lease \/ GrantedUnseen(t)
    /\ \/ HoldsSlot(t) /\ LeaveSlot(t)
       \/ /\ pc[t] = "queued"
          /\ inFlight' = [inFlight EXCEPT ![Owner(t)] = FALSE]
          /\ UNCHANGED slots
       \/ /\ pc[t] = "saving"
          /\ UNCHANGED <<slots, inFlight>>
    /\ UNCHANGED <<job, loop, registered, due, orphaned, mishaps>>

-----------------------------------------------------------------------------
(* The worker and its environment.                                         *)

Mishap == mishaps < MaxMishaps /\ mishaps' = mishaps + 1

(* stop() cancels the loop and lets the runs under way go on.              *)
Stop(w) ==
    /\ loop[w] = "on" /\ Mishap
    /\ loop' = [loop EXCEPT ![w] = "off"]
    /\ UNCHANGED <<job, registered, due, inFlight, slots, task, lease, orphaned>>

Start(w) ==
    /\ loop[w] = "off"
    /\ loop' = [loop EXCEPT ![w] = "on"]
    /\ UNCHANGED <<job, registered, due, inFlight, slots, task, lease, orphaned, mishaps>>

(* unregister_job deletes the lease with the definition, whoever holds it. *)
Unregister(w) ==
    /\ registered[w] /\ loop[w] # "stuck" /\ Mishap
    /\ registered' = [registered EXCEPT ![w] = FALSE]
    /\ lease' = None
    /\ orphaned' = (orphaned \/ \E t \in Tasks : OnRecord(t))
    /\ UNCHANGED <<job, loop, due, inFlight, slots, task>>

Register(w) ==
    /\ ~registered[w] /\ loop[w] # "stuck"
    /\ registered' = [registered EXCEPT ![w] = TRUE]
    /\ due' = [due EXCEPT ![w] = 0]
    /\ UNCHANGED <<job, loop, inFlight, slots, task, lease, orphaned, mishaps>>

(* The process dies and is started again; its lease stays in the store.    *)
Crash(w) ==
    /\ Mishap
    /\ loop' = [loop EXCEPT ![w] = "on"]
    /\ registered' = [registered EXCEPT ![w] = TRUE]
    /\ due' = [due EXCEPT ![w] = 0]
    /\ inFlight' = [inFlight EXCEPT ![w] = FALSE]
    /\ slots' = [slots EXCEPT ![w] = MaxConcurrent]
    /\ pc' = [t \in Tasks |-> IF Owner(t) = w THEN "none" ELSE pc[t]]
    /\ attempt' = [t \in Tasks |-> IF Owner(t) = w THEN 0 ELSE attempt[t]]
    /\ active' = [t \in Tasks |-> active[t] /\ Owner(t) # w]
    /\ UNCHANGED <<job, lease, orphaned>>

Tick ==
    /\ due' = [w \in Workers |-> IF due[w] > 0 THEN due[w] - 1 ELSE 0]
    /\ IF lease # None /\ lease.left = 1
       THEN /\ lease' = None
            /\ orphaned' = (orphaned \/ \E t \in Tasks : OnRecord(t) /\ lease.owner = Owner(t))
       ELSE /\ lease' = IF lease = None THEN None ELSE [lease EXCEPT !.left = @ - 1]
            /\ UNCHANGED orphaned
    /\ UNCHANGED <<job, loop, registered, inFlight, slots, task, mishaps>>

TaskStep(t) ==
    \/ TakeSlot(t) \/ Claim(t) \/ Return(t) \/ Fail(t) \/ Retry(t) \/ Complete(t)

Next ==
    \/ \E w \in Workers : LoopPass(w) \/ RunNow(w) \/ Stop(w) \/ Start(w)
                          \/ Unregister(w) \/ Register(w) \/ Crash(w)
    \/ \E t \in Tasks : TaskStep(t) \/ Cancel(t)
    \/ Tick

Spec == Init /\ [][Next]_vars

(* The event loop runs every ready task and the scheduler loop wakes up    *)
(* after each sleep; the semaphore is first come, first served; a handler  *)
(* ends or times out; time passes.                                         *)
FairSpec ==
    /\ Spec /\ WF_vars(Tick)
    /\ \A w \in Workers : WF_vars(LoopPass(w))
    /\ \A t \in Tasks : WF_vars(TaskStep(t)) /\ SF_vars(TakeSlot(t))

-----------------------------------------------------------------------------

(* The claim and the permits a worker has given out are those of tasks     *)
(* that have not left yet, through retries, cancellations, crashes and     *)
(* re-registrations: no claim is left behind and no permit is lost.        *)
ClaimsAndPermitsAreHeld ==
    \A w \in Workers :
        /\ slots[w] + Cardinality({t \in TasksOf(w) : HoldsSlot(t)}) = MaxConcurrent
        /\ LET held == {t \in TasksOf(w) : HoldsSlot(t) \/ pc[t] = "queued"} IN
           job.singleton => Cardinality(held) = (IF inFlight[w] THEN 1 ELSE 0)

(* Two tasks run a singleton at the same time only after a lease vanished  *)
(* from under an entry of _active_runs: it expired, unregister_job deleted *)
(* it, or the completion of another run of that worker released it.  The   *)
(* entry may be of a call that was given up long ago.                      *)
OverlapNeedsALostLease ==
    \A t, u \in Tasks :
        job.singleton /\ t # u /\ pc[t] = "handler" /\ pc[u] = "handler" => orphaned

(* Nobody calls run_now on a worker that is on and knows the job.          *)
Undisturbed(w) ==
    /\ loop[w] = "on" /\ registered[w]
    /\ \A t \in TasksOf(w) : Started(t) = "now" => pc[t] = "none"

(* A worker that is left in peace starts the job again and again: no       *)
(* retry, time-out, cancelled run_now or crash leaves a claim, a permit or *)
(* a lease behind that stops it for good.                                  *)
IntervalJobsKeepRunning ==
    \A w \in Workers :
        job.trigger = "interval" /\ <>[]Undisturbed(w) => []<>(pc[<<w, "loop">>] = "claim")
=============================================================================

------------------------ MODULE ManagedScheduler_proofs ------------------------
(***************************************************************************)
(* Proofs about ManagedScheduler, for any number of workers, any limits    *)
(* and any jobs.  The argument: a worker counts its permits and its claim  *)
(* exactly (Permits, Claims), so that a singleton has at most one task per *)
(* worker; and as long as no lease is lost, every entry of _active_runs    *)
(* for a singleton is of the worker that holds the lease (LeaseIsHeld).    *)
(***************************************************************************)
EXTENDS ManagedScheduler, FiniteSetTheorems, TLAPS

-----------------------------------------------------------------------------
(***************************************************************************)
(* The inductive invariant.                                                *)
(***************************************************************************)

Places == {"none", "queued", "claim", "handler", "pause", "saving"}

Types ==
    /\ job \in Jobs
    /\ loop \in [Workers -> {"off", "on", "stuck"}]
    /\ registered \in [Workers -> BOOLEAN]
    /\ due \in [Workers -> 0..Interval]
    /\ inFlight \in [Workers -> BOOLEAN]
    /\ slots \in [Workers -> Nat]
    /\ pc \in [Tasks -> Places]
    /\ attempt \in [Tasks -> 0..(MaxRetries - 1)]
    /\ active \in [Tasks -> BOOLEAN]
    /\ lease \in Lease \cup {None}
    /\ orphaned \in BOOLEAN
    /\ mishaps \in 0..MaxMishaps

\* A pause is followed by another attempt; a handler runs under a claim.
StepsFit ==
    \A t \in Tasks :
        /\ pc[t] = "pause" => attempt[t] < MaxRetries - 1
        /\ pc[t] = "handler" => active[t]
        /\ pc[t] = "claim" => ~active[t]

Holders(w) == {t \in TasksOf(w) : HoldsSlot(t)}
Permits == \A w \in Workers : slots[w] + Cardinality(Holders(w)) = MaxConcurrent

Held(t) == HoldsSlot(t) \/ pc[t] = "queued"
Claims ==
    job.singleton =>
        \A t \in Tasks : Held(t) =>
            /\ inFlight[Owner(t)]
            /\ \A u \in Tasks : Held(u) /\ Owner(u) = Owner(t) => u = t

\* A claim is never left behind.
ClaimsHaveTasks ==
    job.singleton =>
        \A w \in Workers : inFlight[w] => \E t \in TasksOf(w) : Held(t)

LeaseIsHeld ==
    job.singleton /\ ~orphaned =>
        \A t \in Tasks : OnRecord(t) => lease # None /\ lease.owner = Owner(t)

IInv ==
    /\ Types
    /\ StepsFit
    /\ Permits
    /\ Claims
    /\ ClaimsHaveTasks
    /\ LeaseIsHeld

-----------------------------------------------------------------------------
(***************************************************************************)
(* Counting.                                                               *)
(***************************************************************************)

LEMMA OwnersAreWorkers ==
    ASSUME NEW t \in Tasks PROVE Owner(t) \in Workers
BY SchedulerAssumption DEF Owner

LEMMA FewTasks ==
    ASSUME NEW w \in Workers
    PROVE  /\ IsFiniteSet(TasksOf(w)) /\ IsFiniteSet(Holders(w))
           /\ Cardinality(Holders(w)) \in Nat
<1>1. TasksOf(w) \subseteq {<<w, "loop">>} \cup {<<w, "now">>}
    BY SchedulerAssumption DEF TasksOf, Owner
<1>2. IsFiniteSet({<<w, "loop">>} \cup {<<w, "now">>})
    BY FS_Singleton, FS_AddElement
<1>3. IsFiniteSet(TasksOf(w))
    BY <1>1, <1>2, FS_Subset
<1>4. IsFiniteSet(Holders(w))
    BY <1>3, FS_Subset DEF Holders
<1> QED
    BY <1>3, <1>4, FS_CardinalityType

LEMMA InitHolds == Init => IInv
<1> SUFFICES ASSUME Init PROVE IInv
    OBVIOUS
<1>1. Types
    <2>1. /\ registered \in [Workers -> BOOLEAN] /\ inFlight \in [Workers -> BOOLEAN]
          /\ active \in [Tasks -> BOOLEAN]
        BY Zenon DEF Init
    <2>2. /\ due \in [Workers -> 0..Interval] /\ slots \in [Workers -> Nat]
          /\ attempt \in [Tasks -> 0..(MaxRetries - 1)] /\ mishaps \in 0..MaxMishaps
        BY SchedulerAssumption DEF Init
    <2>3. /\ loop \in [Workers -> {"off", "on", "stuck"}] /\ pc \in [Tasks -> Places]
        BY DEF Init, Places
    <2> QED
        BY <2>1, <2>2, <2>3 DEF Init, Types
<1>2. \A t \in Tasks : pc[t] = "none" /\ ~HoldsSlot(t) /\ ~Held(t)
    BY DEF Init, HoldsSlot, Held
<1>3. StepsFit
    BY <1>2 DEF StepsFit, Init
<1>4. Permits
    <2>1. \A w \in Workers : Holders(w) = {}
        BY <1>2 DEF Holders, TasksOf
    <2>2. \A w \in Workers : slots[w] = MaxConcurrent
        BY DEF Init
    <2>3. Cardinality({}) = 0 /\ MaxConcurrent + 0 = MaxConcurrent
        BY FS_EmptySet, SchedulerAssumption
    <2> QED
        BY <2>1, <2>2, <2>3 DEF Permits
<1>5. Claims /\ ClaimsHaveTasks /\ LeaseIsHeld
    BY <1>2 DEF Claims, ClaimsHaveTasks, LeaseIsHeld, OnRecord, Init
<1> QED
    BY <1>1, <1>3, <1>4, <1>5 DEF IInv

-----------------------------------------------------------------------------
(***************************************************************************)
(* Permits.                                                                *)
(***************************************************************************)

\* A step of one task that takes a permit, gives one back, or does neither.
LEMMA PermitsKeep ==
    ASSUME Types, Permits, NEW t \in Tasks, NEW place \in Places, At(t, place),
           slots' \in [Workers -> Nat],
           \A w \in Workers : w # Owner(t) => slots'[w] = slots[w],
           \/ HoldsSlot(t) /\ ~HoldsSlot(t)' /\ slots'[Owner(t)] = slots[Owner(t)] + 1
           \/ ~HoldsSlot(t) /\ HoldsSlot(t)' /\ slots'[Owner(t)] = slots[Owner(t)] - 1
              /\ slots[Owner(t)] > 0
           \/ (HoldsSlot(t) <=> HoldsSlot(t)') /\ slots'[Owner(t)] = slots[Owner(t)]
    PROVE  Permits'
<1>1. \A u \in Tasks : u # t => (HoldsSlot(u) <=> HoldsSlot(u)')
    BY DEF At, HoldsSlot, Types
<1> DEFINE o == Owner(t)
<1>2. o \in Workers /\ t \in TasksOf(o)
    BY OwnersAreWorkers DEF TasksOf
<1>3. ASSUME NEW w \in Workers, w # o PROVE slots'[w] + Cardinality(Holders(w)') = MaxConcurrent
    <2>1. Holders(w)' = Holders(w)
        BY <1>1, <1>3 DEF Holders, TasksOf
    <2> QED
        BY <1>3, <2>1 DEF Permits
<1>4. slots'[o] + Cardinality(Holders(o)') = MaxConcurrent
    <2>1. /\ IsFiniteSet(Holders(o)) /\ Cardinality(Holders(o)) \in Nat
          /\ slots[o] \in Nat /\ MaxConcurrent \in Nat
          /\ slots[o] + Cardinality(Holders(o)) = MaxConcurrent
        BY <1>2, FewTasks, SchedulerAssumption DEF Types, Permits
    <2>2. CASE HoldsSlot(t) /\ ~HoldsSlot(t)' /\ slots'[o] = slots[o] + 1
        <3>1. Holders(o)' = Holders(o) \ {t} /\ t \in Holders(o)
            BY <1>1, <1>2, <2>2 DEF Holders, TasksOf
        <3>2. Cardinality(Holders(o)') = Cardinality(Holders(o)) - 1
            BY <2>1, <3>1, FS_RemoveElement
        <3> QED
            BY <2>1, <2>2, <3>2
    <2>3. CASE ~HoldsSlot(t) /\ HoldsSlot(t)' /\ slots'[o] = slots[o] - 1 /\ slots[o] > 0
        <3>1. Holders(o)' = Holders(o) \cup {t} /\ t \notin Holders(o)
            BY <1>1, <1>2, <2>3 DEF Holders, TasksOf
        <3>2. Cardinality(Holders(o)') = Cardinality(Holders(o)) + 1
            BY <2>1, <3>1, FS_AddElement
        <3> QED
            BY <2>1, <2>3, <3>2
    <2>4. CASE (HoldsSlot(t) <=> HoldsSlot(t)') /\ slots'[o] = slots[o]
        <3>1. Holders(o)' = Holders(o)
            BY <1>1, <1>2, <2>4 DEF Holders, TasksOf
        <3> QED
            BY <2>1, <2>4, <3>1
    <2> QED
        BY <2>2, <2>3, <2>4
<1> QED
    BY <1>3, <1>4 DEF Permits

-----------------------------------------------------------------------------
(***************************************************************************)
(* Claims and the lease.                                                   *)
(***************************************************************************)

LEMMA ClaimsKeep ==
    ASSUME Types, Claims, ClaimsHaveTasks, UNCHANGED job,
           NEW t \in Tasks, NEW place \in Places, At(t, place),
           \A w \in Workers : w # Owner(t) => (inFlight'[w] <=> inFlight[w]),
           \/ Held(t) /\ ~Held(t)' /\ ~inFlight'[Owner(t)]
           \/ ~Held(t) /\ Held(t)' /\ (job.singleton => ~inFlight[Owner(t)] /\ inFlight'[Owner(t)])
           \/ (Held(t) <=> Held(t)') /\ (inFlight'[Owner(t)] <=> inFlight[Owner(t)])
    PROVE  Claims' /\ ClaimsHaveTasks'
<1> SUFFICES ASSUME job.singleton PROVE Claims' /\ ClaimsHaveTasks'
    BY DEF Claims, ClaimsHaveTasks
<1>1. \A u \in Tasks : u # t => (Held(u) <=> Held(u)')
    BY DEF At, Held, HoldsSlot, Types
<1>2. \A u \in Tasks : Owner(u) \in Workers
    BY OwnersAreWorkers
<1>3. Claims'
    BY <1>1, <1>2 DEF Claims
<1>4. ClaimsHaveTasks'
    <2>1. SUFFICES ASSUME NEW w \in Workers, inFlight'[w] PROVE \E u \in TasksOf(w) : Held(u)'
        BY DEF ClaimsHaveTasks, TasksOf
    <2>2. CASE w # Owner(t)
        <3>1. PICK u \in TasksOf(w) : Held(u)
            BY <2>1, <2>2 DEF ClaimsHaveTasks
        <3> QED
            BY <1>1, <2>2, <3>1 DEF TasksOf
    <2>3. CASE w = Owner(t)
        <3>1. CASE Held(t)'
            BY <2>3, <3>1 DEF TasksOf
        <3>2. CASE ~Held(t)'
            <4>1. ~Held(t) /\ inFlight[w]
                BY <2>1, <2>3, <3>2
            <4>2. PICK u \in TasksOf(w) : Held(u)
                BY <2>1, <4>1 DEF ClaimsHaveTasks
            <4> QED
                BY <1>1, <4>1, <4>2 DEF TasksOf
        <3> QED
            BY <3>1, <3>2
    <2> QED
        BY <2>2, <2>3
<1> QED
    BY <1>3, <1>4

LEMMA LeaseKeeps ==
    ASSUME Types, LeaseIsHeld, UNCHANGED job,
           NEW t \in Tasks, NEW place \in Places, At(t, place),
           \A u \in Tasks : u # t => (active'[u] <=> active[u]),
           \/ /\ UNCHANGED <<lease, orphaned>>
              /\ OnRecord(t)' => OnRecord(t)
           \/ /\ job.singleton /\ LeaseFree(Owner(t)) /\ UNCHANGED orphaned
              /\ lease' # None /\ lease'.owner = Owner(t)
           \/ ~job.singleton /\ UNCHANGED orphaned
           \/ orphaned' = (orphaned \/ Orphans(t)) /\ ~OnRecord(t)'
    PROVE  LeaseIsHeld'
<1> SUFFICES ASSUME job.singleton, ~orphaned', NEW u \in Tasks, OnRecord(u)'
             PROVE  lease' # None /\ lease'.owner = Owner(u)
    BY DEF LeaseIsHeld, Owner
<1>1. u # t => OnRecord(u)
    BY DEF At, OnRecord, HoldsSlot, Types
<1>2. ~orphaned
    BY DEF Types
<1>3. CASE UNCHANGED <<lease, orphaned>> /\ (OnRecord(t)' => OnRecord(t))
    BY <1>1, <1>2, <1>3 DEF LeaseIsHeld
<1>4. CASE LeaseFree(Owner(t)) /\ lease' # None /\ lease'.owner = Owner(t)
    BY <1>1, <1>2, <1>4 DEF LeaseIsHeld, LeaseFree
<1>5. CASE orphaned' = (orphaned \/ Orphans(t)) /\ ~OnRecord(t)'
    <2>1. u # t /\ OnRecord(u) /\ lease # None /\ lease.owner = Owner(u)
        BY <1>1, <1>2, <1>5 DEF LeaseIsHeld
    <2>2. Orphans(t)
        BY <2>1 DEF Orphans
    <2> QED
        BY <1>5, <2>2
<1> QED
    BY <1>3, <1>4, <1>5

-----------------------------------------------------------------------------
(***************************************************************************)
(* The parts of the steps.                                                 *)
(***************************************************************************)

LEMMA Flag ==
    ASSUME NEW S, NEW f \in [S -> BOOLEAN], NEW s \in S, NEW b \in BOOLEAN
    PROVE  /\ [f EXCEPT ![s] = b] \in [S -> BOOLEAN]
           /\ [f EXCEPT ![s] = b][s] = b
           /\ \A r \in S : r # s => [f EXCEPT ![s] = b][r] = f[r]
BY Zenon

LEMMA AtFacts ==
    ASSUME Types, NEW t \in Tasks, NEW place \in Places, At(t, place)
    PROVE  /\ pc' \in [Tasks -> Places] /\ pc'[t] = place
           /\ \A u \in Tasks : u # t => pc'[u] = pc[u]
BY DEF At, Types

LEMMA GoneFacts ==
    ASSUME Types, NEW t \in Tasks, Gone(t)
    PROVE  /\ At(t, "none") /\ "none" \in Places /\ ~active'[t]
           /\ active' \in [Tasks -> BOOLEAN]
           /\ \A u \in Tasks : u # t => (active'[u] <=> active[u])
           /\ attempt' \in [Tasks -> 0..(MaxRetries - 1)]
           /\ \A u \in Tasks : u # t => attempt'[u] = attempt[u]
<1>1. active' \in [Tasks -> BOOLEAN] /\ ~active'[t] /\ \A u \in Tasks : u # t => (active'[u] <=> active[u])
    BY Flag, Zenon DEF Gone, Types
<1>2. attempt' \in [Tasks -> 0..(MaxRetries - 1)] /\ \A u \in Tasks : u # t => attempt'[u] = attempt[u]
    BY SchedulerAssumption DEF Gone, Types
<1> QED
    BY <1>1, <1>2 DEF Gone, Places

\* A task is over, or only its call is, and its entry stays.
Ends(t) ==
    \/ Gone(t)
    \/ /\ OnRecord(t)
       /\ At(t, "none")
       /\ attempt' = [attempt EXCEPT ![t] = 0]
       /\ UNCHANGED active

LEMMA EndsFacts ==
    ASSUME Types, NEW t \in Tasks, Ends(t)
    PROVE  /\ At(t, "none") /\ "none" \in Places
           /\ active' \in [Tasks -> BOOLEAN]
           /\ \A u \in Tasks : u # t => (active'[u] <=> active[u])
           /\ attempt' \in [Tasks -> 0..(MaxRetries - 1)]
           /\ \A u \in Tasks : u # t => attempt'[u] = attempt[u]
           /\ OnRecord(t)' => OnRecord(t)
           /\ Gone(t) => ~OnRecord(t)'
<1>1. CASE Gone(t)
    BY <1>1, GoneFacts DEF OnRecord
<1>2. CASE OnRecord(t) /\ At(t, "none") /\ attempt' = [attempt EXCEPT ![t] = 0] /\ UNCHANGED active
    <2>1. attempt' \in [Tasks -> 0..(MaxRetries - 1)] /\ \A u \in Tasks : u # t => attempt'[u] = attempt[u]
        BY <1>2, SchedulerAssumption DEF Types
    <2>2. Gone(t) => ~OnRecord(t)'
        BY GoneFacts DEF OnRecord
    <2> QED
        BY <1>2, <2>1, <2>2 DEF Types, Places
<1> QED
    BY <1>1, <1>2 DEF Ends

LEMMA LeaveSlotFacts ==
    ASSUME Types, NEW t \in Tasks, LeaveSlot(t)
    PROVE  /\ slots' \in [Workers -> Nat] /\ slots'[Owner(t)] = slots[Owner(t)] + 1
           /\ \A w \in Workers : w # Owner(t) => slots'[w] = slots[w]
           /\ inFlight' \in [Workers -> BOOLEAN] /\ ~inFlight'[Owner(t)]
           /\ \A w \in Workers : w # Owner(t) => (inFlight'[w] <=> inFlight[w])
<1>1. Owner(t) \in Workers
    BY OwnersAreWorkers
<1>2. /\ slots' \in [Workers -> Nat] /\ slots'[Owner(t)] = slots[Owner(t)] + 1
      /\ \A w \in Workers : w # Owner(t) => slots'[w] = slots[w]
    BY <1>1 DEF LeaveSlot, Types
<1>3. /\ inFlight' \in [Workers -> BOOLEAN] /\ ~inFlight'[Owner(t)]
      /\ \A w \in Workers : w # Owner(t) => (inFlight'[w] <=> inFlight[w])
    BY <1>1, Flag, Zenon DEF LeaveSlot, Types
<1> QED
    BY <1>2, <1>3

LEMMA MarkFacts ==
    ASSUME Types, NEW w \in Workers, Mark(w)
    PROVE  /\ inFlight' \in [Workers -> BOOLEAN] /\ (inFlight'[w] <=> inFlight[w] \/ job.singleton)
           /\ \A v \in Workers : v # w => (inFlight'[v] <=> inFlight[v])
<1>1. job.singleton \in BOOLEAN
    BY SchedulerAssumption DEF Types
<1>2. (inFlight[w] \/ job.singleton) \in BOOLEAN
    OBVIOUS
<1> QED
    BY <1>2, Flag, Zenon DEF Mark, Types

-----------------------------------------------------------------------------
(***************************************************************************)
(* The invariant is inductive.                                             *)
(***************************************************************************)

\* A new task is queued and the job marked in flight: a pass of the loop, or run_now.
LEMMA QueueKeeps ==
    ASSUME IInv, NEW w \in Workers, NEW t \in Tasks, Owner(t) = w, pc[t] = "none",
           Mark(w), At(t, "queued"), job.singleton => ~inFlight[w],
           loop' \in [Workers -> {"off", "on", "stuck"}], due' \in [Workers -> 0..Interval],
           UNCHANGED <<job, registered, slots, attempt, active, lease, orphaned, mishaps>>
    PROVE  IInv'
<1>1. Types /\ "queued" \in Places
    BY DEF IInv, Places
<1>2. /\ pc' \in [Tasks -> Places] /\ pc'[t] = "queued"
      /\ \A u \in Tasks : u # t => pc'[u] = pc[u]
    BY <1>1, AtFacts
<1>3. /\ inFlight' \in [Workers -> BOOLEAN] /\ (inFlight'[w] <=> inFlight[w] \/ job.singleton)
      /\ \A v \in Workers : v # w => (inFlight'[v] <=> inFlight[v])
    BY <1>1, MarkFacts
<1>4. ~HoldsSlot(t) /\ ~HoldsSlot(t)' /\ ~Held(t) /\ Held(t)' /\ (OnRecord(t)' => OnRecord(t))
    BY <1>2 DEF HoldsSlot, Held, OnRecord
<1>5. Types'
    BY <1>1, <1>2, <1>3 DEF Types, Lease
<1>6. StepsFit'
    BY <1>2 DEF IInv, StepsFit
<1>7. Permits'
    BY <1>1, <1>4, PermitsKeep DEF IInv, Types
<1>8. Claims' /\ ClaimsHaveTasks'
    BY <1>1, <1>3, <1>4, ClaimsKeep DEF IInv
<1>9. LeaseIsHeld'
    BY <1>1, <1>4, LeaseKeeps DEF IInv
<1> QED
    BY <1>5, <1>6, <1>7, <1>8, <1>9 DEF IInv

LEMMA LoopPassKeeps ==
    ASSUME IInv, NEW w \in Workers, LoopPass(w) PROVE IInv'
<1>1. <<w, "loop">> \in Tasks /\ Owner(<<w, "loop">>) = w
    BY DEF LoopPass, Owner
<1>2. loop' \in [Workers -> {"off", "on", "stuck"}] /\ due' \in [Workers -> 0..Interval]
    BY SchedulerAssumption DEF LoopPass, IInv, Types
<1> QED
    BY <1>1, <1>2, QueueKeeps DEF LoopPass, Claimed

LEMMA RunNowKeeps ==
    ASSUME IInv, NEW w \in Workers, RunNow(w) PROVE IInv'
<1>1. <<w, "now">> \in Tasks /\ Owner(<<w, "now">>) = w
    BY DEF RunNow, Owner
<1>2. loop' \in [Workers -> {"off", "on", "stuck"}] /\ due' \in [Workers -> 0..Interval]
    BY DEF RunNow, IInv, Types
<1> QED
    BY <1>1, <1>2, QueueKeeps DEF RunNow, Claimed

\* A task turns to the lease or to the handler, as the entry of _active_runs has it.
LEMMA AttemptFacts ==
    ASSUME Types, NEW t \in Tasks, Attempt(t), UNCHANGED active, StepsFit
    PROVE  \E place \in {"claim", "handler"} :
              /\ place \in Places /\ At(t, place)
              /\ pc' \in [Tasks -> Places] /\ pc'[t] = place
              /\ \A u \in Tasks : u # t => pc'[u] = pc[u]
              /\ pc'[t] = "handler" <=> active'[t]
              /\ HoldsSlot(t)' /\ Held(t)'
<1>1. PICK place \in {"claim", "handler"} :
        place = (IF active[t] THEN "handler" ELSE "claim") /\ At(t, place)
    BY DEF Attempt
<1>2. place \in Places
    BY DEF Places
<1>3. /\ pc' \in [Tasks -> Places] /\ pc'[t] = place
      /\ \A u \in Tasks : u # t => pc'[u] = pc[u]
    BY <1>1, <1>2, AtFacts
<1> QED
    BY <1>1, <1>2, <1>3 DEF HoldsSlot, Held

LEMMA TakeSlotKeeps ==
    ASSUME IInv, NEW t \in Tasks, TakeSlot(t) PROVE IInv'
<1>1. Types /\ StepsFit /\ Owner(t) \in Workers /\ Attempt(t) /\ UNCHANGED active
    BY OwnersAreWorkers DEF IInv, TakeSlot
<1>2. PICK place \in {"claim", "handler"} :
              /\ place \in Places /\ At(t, place)
              /\ pc' \in [Tasks -> Places] /\ pc'[t] = place
              /\ \A u \in Tasks : u # t => pc'[u] = pc[u]
              /\ pc'[t] = "handler" <=> active'[t]
              /\ HoldsSlot(t)' /\ Held(t)'
    BY <1>1, AttemptFacts
<1>3. /\ slots' \in [Workers -> Nat] /\ slots'[Owner(t)] = slots[Owner(t)] - 1
      /\ slots[Owner(t)] > 0
      /\ \A w \in Workers : w # Owner(t) => slots'[w] = slots[w]
    BY <1>1 DEF TakeSlot, Types
<1>4. ~HoldsSlot(t) /\ Held(t) /\ (OnRecord(t)' => OnRecord(t))
    BY <1>1, <1>2 DEF HoldsSlot, Held, OnRecord, TakeSlot
<1>5. Types'
    BY <1>1, <1>2, <1>3 DEF Types, Lease, TakeSlot
<1>6. StepsFit'
    BY <1>1, <1>2 DEF StepsFit, TakeSlot
<1>7. Permits'
    BY <1>1, <1>2, <1>3, <1>4, PermitsKeep DEF IInv
<1>8. Claims' /\ ClaimsHaveTasks'
    BY <1>1, <1>2, <1>4, ClaimsKeep DEF IInv, TakeSlot
<1>9. LeaseIsHeld'
    BY <1>1, <1>2, <1>4, LeaseKeeps DEF IInv, TakeSlot
<1> QED
    BY <1>5, <1>6, <1>7, <1>8, <1>9 DEF IInv

LEMMA GrantFacts ==
    ASSUME NEW t \in Tasks, GrantedUnseen(t)
    PROVE  /\ lease' \in Lease \cup {None}
           /\ job.singleton /\ LeaseFree(Owner(t))
           /\ lease' # None /\ lease'.owner = Owner(t)
BY OwnersAreWorkers, SchedulerAssumption DEF GrantedUnseen, Lease

\* A task that held a permit is over, or its call is.
LEMMA LeaveKeeps ==
    ASSUME IInv, NEW t \in Tasks, HoldsSlot(t), Ends(t), LeaveSlot(t),
           UNCHANGED lease \/ GrantedUnseen(t),
           UNCHANGED <<job, loop, registered, due, orphaned, mishaps>>
    PROVE  IInv'
<1>1. Types /\ Owner(t) \in Workers /\ "none" \in Places
    BY OwnersAreWorkers DEF IInv, Places
<1>2. /\ At(t, "none") /\ active' \in [Tasks -> BOOLEAN]
      /\ \A u \in Tasks : u # t => (active'[u] <=> active[u])
      /\ attempt' \in [Tasks -> 0..(MaxRetries - 1)]
      /\ \A u \in Tasks : u # t => attempt'[u] = attempt[u]
      /\ OnRecord(t)' => OnRecord(t)
    BY <1>1, EndsFacts
<1>3. /\ pc' \in [Tasks -> Places] /\ pc'[t] = "none"
      /\ \A u \in Tasks : u # t => pc'[u] = pc[u]
    BY <1>1, <1>2, AtFacts
<1>4. /\ slots' \in [Workers -> Nat] /\ slots'[Owner(t)] = slots[Owner(t)] + 1
      /\ \A w \in Workers : w # Owner(t) => slots'[w] = slots[w]
      /\ inFlight' \in [Workers -> BOOLEAN] /\ ~inFlight'[Owner(t)]
      /\ \A w \in Workers : w # Owner(t) => (inFlight'[w] <=> inFlight[w])
    BY <1>1, LeaveSlotFacts
<1>5. ~HoldsSlot(t)' /\ Held(t) /\ ~Held(t)'
    BY <1>3 DEF HoldsSlot, Held
<1>10. /\ lease' \in Lease \cup {None}
       /\ \/ UNCHANGED lease
          \/ /\ job.singleton /\ LeaseFree(Owner(t))
             /\ lease' # None /\ lease'.owner = Owner(t)
    BY <1>1, GrantFacts DEF Types, Lease
<1>6. Types'
    BY <1>1, <1>2, <1>3, <1>4, <1>10 DEF Types, Lease
<1>7. StepsFit'
    BY <1>2, <1>3 DEF IInv, StepsFit
<1>8. Permits'
    BY <1>1, <1>2, <1>4, <1>5, PermitsKeep DEF IInv
<1>9. Claims' /\ ClaimsHaveTasks'
    BY <1>1, <1>2, <1>4, <1>5, ClaimsKeep DEF IInv
<1>11. LeaseIsHeld'
    BY <1>1, <1>2, <1>10, LeaseKeeps DEF IInv
<1> QED
    BY <1>6, <1>7, <1>8, <1>9, <1>11 DEF IInv

\* A run leaves its permit and its claim and goes on to be recorded.
LEMMA SavingKeeps ==
    ASSUME IInv, NEW t \in Tasks, HoldsSlot(t), At(t, "saving"), LeaveSlot(t),
           lease' \in Lease \cup {None},
           \/ UNCHANGED lease
           \/ /\ job.singleton /\ LeaseFree(Owner(t))
              /\ lease' # None /\ lease'.owner = Owner(t),
           UNCHANGED <<job, loop, registered, due, attempt, active, orphaned, mishaps>>
    PROVE  IInv'
<1>1. Types /\ Owner(t) \in Workers /\ "saving" \in Places
    BY OwnersAreWorkers DEF IInv, Places
<1>2. /\ pc' \in [Tasks -> Places] /\ pc'[t] = "saving"
      /\ \A u \in Tasks : u # t => pc'[u] = pc[u]
    BY <1>1, AtFacts
<1>3. /\ slots' \in [Workers -> Nat] /\ slots'[Owner(t)] = slots[Owner(t)] + 1
      /\ \A w \in Workers : w # Owner(t) => slots'[w] = slots[w]
      /\ inFlight' \in [Workers -> BOOLEAN] /\ ~inFlight'[Owner(t)]
      /\ \A w \in Workers : w # Owner(t) => (inFlight'[w] <=> inFlight[w])
    BY <1>1, LeaveSlotFacts
<1>4. ~HoldsSlot(t)' /\ Held(t) /\ ~Held(t)' /\ ~OnRecord(t)'
    BY <1>2 DEF HoldsSlot, Held, OnRecord
<1>5. Types'
    BY <1>1, <1>2, <1>3 DEF Types, Lease
<1>6. StepsFit'
    BY <1>2 DEF IInv, StepsFit
<1>7. Permits'
    BY <1>1, <1>3, <1>4, PermitsKeep DEF IInv
<1>8. Claims' /\ ClaimsHaveTasks'
    BY <1>1, <1>3, <1>4, ClaimsKeep DEF IInv
<1>9. LeaseIsHeld'
    BY <1>1, <1>4, LeaseKeeps DEF IInv
<1> QED
    BY <1>5, <1>6, <1>7, <1>8, <1>9 DEF IInv

LEMMA ClaimKeeps ==
    ASSUME IInv, NEW t \in Tasks, Claim(t) PROVE IInv'
<1>1. Types /\ Owner(t) \in Workers /\ "handler" \in Places
    BY OwnersAreWorkers DEF IInv, Places
<1>2. HoldsSlot(t) /\ Held(t) /\ ~OnRecord(t)
    BY DEF HoldsSlot, Held, OnRecord, Claim, IInv, StepsFit
<1>3. CASE /\ job.singleton => LeaseFree(Owner(t))
           /\ lease' = IF job.singleton THEN [owner |-> Owner(t), left |-> LeaseTTL] ELSE lease
           /\ active' = [active EXCEPT ![t] = TRUE]
           /\ At(t, "handler")
           /\ UNCHANGED <<attempt, slots, inFlight>>
    <2>1. /\ pc' \in [Tasks -> Places] /\ pc'[t] = "handler"
          /\ \A u \in Tasks : u # t => pc'[u] = pc[u]
        BY <1>1, <1>3, AtFacts
    <2>2. active' \in [Tasks -> BOOLEAN] /\ active'[t] /\ \A u \in Tasks : u # t => (active'[u] <=> active[u])
        BY <1>1, <1>3, Flag, Zenon DEF Types
    <2>3. lease' \in Lease \cup {None} /\ (job.singleton => lease' # None /\ lease'.owner = Owner(t))
        BY <1>1, <1>3, SchedulerAssumption DEF Types, Lease
    <2>4. HoldsSlot(t)' /\ Held(t)'
        BY <2>1 DEF HoldsSlot, Held
    <2>5. Types'
        BY <1>1, <1>3, <2>1, <2>2, <2>3 DEF Types, Claim, Lease
    <2>6. StepsFit'
        BY <1>3, <2>1, <2>2 DEF IInv, StepsFit
    <2>7. Permits'
        BY <1>1, <1>2, <1>3, <2>4, PermitsKeep DEF IInv, Types
    <2>8. Claims' /\ ClaimsHaveTasks'
        BY <1>1, <1>2, <1>3, <2>4, ClaimsKeep DEF IInv, Claim
    <2>9. LeaseIsHeld'
        BY <1>1, <1>3, <2>2, <2>3, LeaseKeeps DEF IInv, Claim
    <2> QED
        BY <2>5, <2>6, <2>7, <2>8, <2>9 DEF IInv
<1>4. CASE Gone(t) /\ LeaveSlot(t) /\ UNCHANGED lease
    BY <1>1, <1>2, <1>4, LeaveKeeps DEF Claim, Ends
<1> QED
    BY <1>3, <1>4 DEF Claim

LEMMA ReturnKeeps ==
    ASSUME IInv, NEW t \in Tasks, Return(t) PROVE IInv'
<1>1. HoldsSlot(t) /\ At(t, "saving") /\ LeaveSlot(t)
    BY DEF HoldsSlot, Return
<1>2. lease' \in Lease \cup {None}
    BY DEF Return, IInv, Types, Lease
<1> QED
    BY <1>1, <1>2, SavingKeeps DEF Return

LEMMA FailKeeps ==
    ASSUME IInv, NEW t \in Tasks, Fail(t) PROVE IInv'
<1>1. Types /\ Owner(t) \in Workers /\ "pause" \in Places
    BY OwnersAreWorkers DEF IInv, Places
<1>2. HoldsSlot(t) /\ Held(t)
    BY DEF HoldsSlot, Held, Fail
<1>3. /\ lease' \in Lease \cup {None}
      /\ \/ UNCHANGED lease
         \/ /\ job.singleton /\ LeaseFree(Owner(t))
            /\ lease' # None /\ lease'.owner = Owner(t)
    BY <1>1, GrantFacts DEF Fail, Types, Lease
<1>4. CASE LastAttempt(t) /\ At(t, "saving") /\ LeaveSlot(t)
    BY <1>2, <1>3, <1>4, SavingKeeps DEF Fail
<1>5. CASE ~LastAttempt(t) /\ At(t, "pause") /\ UNCHANGED <<slots, inFlight>>
    <2>1. /\ pc' \in [Tasks -> Places] /\ pc'[t] = "pause"
          /\ \A u \in Tasks : u # t => pc'[u] = pc[u]
        BY <1>1, <1>5, AtFacts
    <2>2. HoldsSlot(t)' /\ Held(t)' /\ (OnRecord(t)' => OnRecord(t))
        BY <1>2, <2>1 DEF HoldsSlot, Held, OnRecord, Fail
    <2>3. Types'
        BY <1>1, <1>3, <1>5, <2>1 DEF Types, Fail, Lease
    <2>4. StepsFit'
        BY <1>1, <1>5, <2>1, SchedulerAssumption DEF IInv, StepsFit, Fail, LastAttempt, Types
    <2>5. Permits'
        BY <1>1, <1>2, <1>5, <2>2, PermitsKeep DEF IInv, Types
    <2>6. Claims' /\ ClaimsHaveTasks'
        BY <1>1, <1>2, <1>5, <2>2, ClaimsKeep DEF IInv, Fail
    <2>7. LeaseIsHeld'
        BY <1>1, <1>3, <1>5, <2>2, LeaseKeeps DEF IInv, Fail
    <2> QED
        BY <2>3, <2>4, <2>5, <2>6, <2>7 DEF IInv
<1> QED
    BY <1>4, <1>5 DEF Fail

LEMMA RetryKeeps ==
    ASSUME IInv, NEW t \in Tasks, Retry(t) PROVE IInv'
<1>1. Types /\ StepsFit /\ Owner(t) \in Workers /\ Attempt(t) /\ UNCHANGED active
    BY OwnersAreWorkers DEF IInv, Retry
<1>2. PICK place \in {"claim", "handler"} :
              /\ place \in Places /\ At(t, place)
              /\ pc' \in [Tasks -> Places] /\ pc'[t] = place
              /\ \A u \in Tasks : u # t => pc'[u] = pc[u]
              /\ pc'[t] = "handler" <=> active'[t]
              /\ HoldsSlot(t)' /\ Held(t)'
    BY <1>1, AttemptFacts
<1>3. HoldsSlot(t) /\ Held(t) /\ (OnRecord(t)' => OnRecord(t))
    BY <1>1, <1>2 DEF HoldsSlot, Held, OnRecord, Retry
<1>4. /\ attempt' \in [Tasks -> 0..(MaxRetries - 1)]
      /\ \A u \in Tasks : u # t => attempt'[u] = attempt[u]
    <2>1. attempt[t] < MaxRetries - 1 /\ attempt[t] \in 0..(MaxRetries - 1)
        BY <1>1 DEF IInv, StepsFit, Retry, Types
    <2>2. attempt[t] + 1 \in 0..(MaxRetries - 1)
        BY <2>1, SchedulerAssumption
    <2> QED
        BY <1>1, <2>2 DEF Retry, Types
<1>5. Types'
    BY <1>1, <1>2, <1>4 DEF Types, Retry, worker, Lease
<1>6. StepsFit'
    BY <1>1, <1>2, <1>4 DEF StepsFit, Retry
<1>7. Permits'
    BY <1>1, <1>2, <1>3, PermitsKeep DEF IInv, Types, Retry, worker
<1>8. Claims' /\ ClaimsHaveTasks'
    BY <1>1, <1>2, <1>3, ClaimsKeep DEF IInv, Retry, worker
<1>9. LeaseIsHeld'
    BY <1>1, <1>2, <1>3, LeaseKeeps DEF IInv, Retry
<1> QED
    BY <1>5, <1>6, <1>7, <1>8, <1>9 DEF IInv

\* A task is over, or its call is, that holds no permit.
LEMMA OverKeeps ==
    ASSUME IInv, NEW t \in Tasks, ~HoldsSlot(t), Ends(t),
           slots' = slots, inFlight' \in [Workers -> BOOLEAN], lease' \in Lease \cup {None},
           \A w \in Workers : w # Owner(t) => (inFlight'[w] <=> inFlight[w]),
           \/ Held(t) /\ ~inFlight'[Owner(t)]
           \/ ~Held(t) /\ (inFlight'[Owner(t)] <=> inFlight[Owner(t)]),
           \/ UNCHANGED <<lease, orphaned>>
           \/ Gone(t) /\ orphaned' = (orphaned \/ Orphans(t)),
           orphaned' \in BOOLEAN,
           UNCHANGED <<job, loop, registered, due, mishaps>>
    PROVE  IInv'
<1>1. Types /\ Owner(t) \in Workers /\ "none" \in Places
    BY OwnersAreWorkers DEF IInv, Places
<1>2. /\ At(t, "none") /\ active' \in [Tasks -> BOOLEAN]
      /\ \A u \in Tasks : u # t => (active'[u] <=> active[u])
      /\ attempt' \in [Tasks -> 0..(MaxRetries - 1)]
      /\ \A u \in Tasks : u # t => attempt'[u] = attempt[u]
      /\ (OnRecord(t)' => OnRecord(t)) /\ (Gone(t) => ~OnRecord(t)')
    BY <1>1, EndsFacts
<1>3. /\ pc' \in [Tasks -> Places] /\ pc'[t] = "none"
      /\ \A u \in Tasks : u # t => pc'[u] = pc[u]
    BY <1>1, <1>2, AtFacts
<1>4. ~HoldsSlot(t)' /\ ~Held(t)'
    BY <1>3 DEF HoldsSlot, Held
<1>5. Types'
    BY <1>1, <1>2, <1>3 DEF Types, Lease
<1>6. StepsFit'
    BY <1>2, <1>3 DEF IInv, StepsFit
<1>7. Permits'
    BY <1>1, <1>2, <1>4, PermitsKeep DEF IInv, Types
<1>8. Claims' /\ ClaimsHaveTasks'
    BY <1>1, <1>2, <1>4, ClaimsKeep DEF IInv
<1>9. LeaseIsHeld'
    BY <1>1, <1>2, LeaseKeeps DEF IInv
<1> QED
    BY <1>5, <1>6, <1>7, <1>8, <1>9 DEF IInv

LEMMA CompleteKeeps ==
    ASSUME IInv, NEW t \in Tasks, Complete(t) PROVE IInv'
<1>1. ~HoldsSlot(t) /\ ~Held(t)
    BY DEF Complete, HoldsSlot, Held
<1>2. lease' \in Lease \cup {None} /\ orphaned' \in BOOLEAN
    BY DEF Complete, IInv, Types, Lease
<1> QED
    BY <1>1, <1>2, OverKeeps DEF Complete, Ends, worker, IInv, Types

LEMMA CancelKeeps ==
    ASSUME IInv, NEW t \in Tasks, Cancel(t) PROVE IInv'
<1>1. Types /\ Owner(t) \in Workers /\ Ends(t)
    BY OwnersAreWorkers DEF IInv, Cancel, Ends
<1>2. CASE HoldsSlot(t) /\ LeaveSlot(t)
    BY <1>1, <1>2, LeaveKeeps DEF Cancel
<1>3. pc[t] # "claim" => UNCHANGED lease /\ lease' \in Lease \cup {None} /\ orphaned' \in BOOLEAN
    BY <1>1 DEF Cancel, GrantedUnseen, Types, Lease
<1>4. CASE /\ pc[t] = "queued"
           /\ inFlight' = [inFlight EXCEPT ![Owner(t)] = FALSE]
           /\ UNCHANGED slots
    <2>1. /\ inFlight' \in [Workers -> BOOLEAN] /\ ~inFlight'[Owner(t)]
          /\ \A w \in Workers : w # Owner(t) => (inFlight'[w] <=> inFlight[w])
        BY <1>1, <1>4, Flag, Zenon DEF Types
    <2>2. ~HoldsSlot(t) /\ Held(t)
        BY <1>4 DEF HoldsSlot, Held
    <2> QED
        BY <1>1, <1>3, <1>4, <2>1, <2>2, OverKeeps DEF Cancel
<1>5. CASE pc[t] = "saving" /\ UNCHANGED <<slots, inFlight>>
    <2>1. ~HoldsSlot(t) /\ ~Held(t)
        BY <1>5 DEF HoldsSlot, Held
    <2> QED
        BY <1>1, <1>3, <1>5, <2>1, OverKeeps DEF Cancel, Types
<1> QED
    BY <1>2, <1>4, <1>5 DEF Cancel

\* The steps that leave the tasks alone.
LEMMA OtherKeeps ==
    ASSUME IInv, UNCHANGED <<job, inFlight, slots, task>>,
           loop' \in [Workers -> {"off", "on", "stuck"}], registered' \in [Workers -> BOOLEAN],
           due' \in [Workers -> 0..Interval], mishaps' \in 0..MaxMishaps,
           lease' \in Lease \cup {None}, orphaned' \in BOOLEAN,
           \/ UNCHANGED orphaned /\ (lease # None => lease' # None /\ lease'.owner = lease.owner)
           \/ orphaned' = (orphaned \/ \E t \in Tasks : OnRecord(t))
           \/ lease # None /\ orphaned' = (orphaned \/ \E t \in Tasks : OnRecord(t) /\ lease.owner = Owner(t))
    PROVE  IInv'
<1>1. /\ pc' = pc /\ attempt' = attempt /\ active' = active
      /\ \A t : OnRecord(t)' = OnRecord(t) /\ HoldsSlot(t)' = HoldsSlot(t) /\ Held(t)' = Held(t)
    BY DEF task, OnRecord, HoldsSlot, Held
<1>2. Types'
    BY <1>1 DEF IInv, Types, Lease
<1>3. StepsFit'
    BY <1>1 DEF IInv, StepsFit
<1>4. \A w : Holders(w)' = Holders(w)
    BY <1>1 DEF Holders, TasksOf
<1>5. Permits'
    BY <1>4 DEF IInv, Permits
<1>6. Claims' /\ ClaimsHaveTasks'
    BY <1>1 DEF IInv, Claims, ClaimsHaveTasks, TasksOf
<1>7. LeaseIsHeld'
    BY <1>1 DEF IInv, LeaseIsHeld, Types
<1> QED
    BY <1>2, <1>3, <1>5, <1>6, <1>7 DEF IInv

LEMMA CrashKeeps ==
    ASSUME IInv, NEW w \in Workers, Crash(w) PROVE IInv'
<1>1. \A t \in Tasks :
        /\ Owner(t) = w => pc'[t] = "none" /\ ~active'[t]
        /\ Owner(t) # w => pc'[t] = pc[t] /\ (active'[t] <=> active[t])
    BY Zenon DEF Crash
<1>2. \A t \in Tasks : attempt'[t] \in 0..(MaxRetries - 1) /\ (Owner(t) # w => attempt'[t] = attempt[t])
    BY SchedulerAssumption DEF Crash, IInv, Types
<1>3. Types'
    <2>1. /\ registered' \in [Workers -> BOOLEAN] /\ inFlight' \in [Workers -> BOOLEAN]
          /\ active' \in [Tasks -> BOOLEAN]
        BY Flag, Zenon DEF Crash, IInv, Types
    <2>2. /\ loop' \in [Workers -> {"off", "on", "stuck"}] /\ due' \in [Workers -> 0..Interval]
          /\ slots' \in [Workers -> Nat] /\ mishaps' \in 0..MaxMishaps
        BY SchedulerAssumption DEF Crash, Mishap, IInv, Types
    <2>3. pc' \in [Tasks -> Places] /\ attempt' \in [Tasks -> 0..(MaxRetries - 1)]
        BY <1>2 DEF Crash, IInv, Types, Places
    <2> QED
        BY <2>1, <2>2, <2>3 DEF Crash, IInv, Types, Lease
<1>4. StepsFit'
    BY <1>1, <1>2 DEF IInv, StepsFit
<1>5. \A t \in Tasks :
        /\ Owner(t) = w => ~HoldsSlot(t)' /\ ~Held(t)' /\ ~OnRecord(t)'
        /\ Owner(t) # w => /\ HoldsSlot(t)' <=> HoldsSlot(t)
                           /\ Held(t)' <=> Held(t)
                           /\ OnRecord(t)' <=> OnRecord(t)
    BY <1>1 DEF HoldsSlot, Held, OnRecord
<1>6. Permits'
    <2>1. Holders(w)' = {} /\ slots'[w] = MaxConcurrent /\ MaxConcurrent + 0 = MaxConcurrent
        BY <1>5, SchedulerAssumption DEF Holders, TasksOf, Crash, IInv, Types
    <2>2. \A v \in Workers : v # w => Holders(v)' = Holders(v) /\ slots'[v] = slots[v]
        BY <1>5 DEF Holders, TasksOf, Crash, IInv, Types
    <2> QED
        BY <2>1, <2>2, FS_EmptySet DEF IInv, Permits
<1>7. ~inFlight'[w] /\ \A v \in Workers : v # w => (inFlight'[v] <=> inFlight[v])
    BY Flag, Zenon DEF Crash, IInv, Types
<1>8. Claims'
    BY <1>5, <1>7, OwnersAreWorkers DEF IInv, Claims, Crash
<1>9. ClaimsHaveTasks'
    BY <1>5, <1>7 DEF IInv, ClaimsHaveTasks, Crash, TasksOf
<1>10. LeaseIsHeld'
    BY <1>5 DEF IInv, LeaseIsHeld, Crash
<1> QED
    BY <1>3, <1>4, <1>6, <1>8, <1>9, <1>10 DEF IInv

LEMMA NextKeeps ==
    ASSUME IInv, [Next]_vars PROVE IInv'
<1>1. Types
    BY DEF IInv
<1>2. CASE UNCHANGED vars
    BY <1>1, <1>2, OtherKeeps DEF vars, worker, task, Types, Lease
<1>3. ASSUME NEW t \in Tasks, TaskStep(t) \/ Cancel(t) PROVE IInv'
    BY <1>3, TakeSlotKeeps, ClaimKeeps, ReturnKeeps, FailKeeps, RetryKeeps, CompleteKeeps, CancelKeeps
       DEF TaskStep
<1>4. ASSUME NEW w \in Workers, LoopPass(w) \/ RunNow(w) \/ Crash(w) PROVE IInv'
    BY <1>4, LoopPassKeeps, RunNowKeeps, CrashKeeps
<1>5. ASSUME NEW w \in Workers, Stop(w) \/ Start(w) PROVE IInv'
    <2>1. mishaps' \in 0..MaxMishaps /\ loop' \in [Workers -> {"off", "on", "stuck"}]
        BY <1>1, <1>5, SchedulerAssumption DEF Stop, Start, Mishap, Types
    <2> QED
        BY <1>1, <1>5, <2>1, OtherKeeps DEF Stop, Start, Types, Lease
<1>6. ASSUME NEW w \in Workers, Unregister(w) PROVE IInv'
    <2>1. mishaps' \in 0..MaxMishaps
        BY <1>1, <1>6, SchedulerAssumption DEF Unregister, Mishap, Types
    <2>2. registered' \in [Workers -> BOOLEAN]
        BY <1>1, <1>6, Flag, Zenon DEF Unregister, Types
    <2>3. orphaned' \in BOOLEAN
        BY <1>1, <1>6 DEF Unregister, Types
    <2> QED
        BY <1>1, <1>6, <2>1, <2>2, <2>3, OtherKeeps DEF Unregister, Types
<1>7. ASSUME NEW w \in Workers, Register(w) PROVE IInv'
    <2>1. registered' \in [Workers -> BOOLEAN]
        BY <1>1, <1>7, Flag, Zenon DEF Register, Types
    <2>2. due' \in [Workers -> 0..Interval]
        BY <1>1, <1>7, SchedulerAssumption DEF Register, Types
    <2> QED
        BY <1>1, <1>7, <2>1, <2>2, OtherKeeps DEF Register, Types, Lease
<1>8. CASE Tick
    <2>1. due' \in [Workers -> 0..Interval]
        BY <1>1, <1>8, SchedulerAssumption DEF Tick, Types
    <2>2. CASE lease # None /\ lease.left = 1
        BY <1>1, <1>8, <2>1, <2>2, OtherKeeps DEF Tick, Types
    <2>3. CASE ~(lease # None /\ lease.left = 1)
        <3>1. CASE lease = None
            BY <1>1, <1>8, <2>1, <3>1, OtherKeeps DEF Tick, Types
        <3>2. CASE lease # None
            <4>1. lease' = [lease EXCEPT !.left = @ - 1] /\ UNCHANGED orphaned
                BY <1>8, <2>3, <3>2 DEF Tick
            <4>2. lease \in Lease /\ lease.left - 1 \in 1..LeaseTTL
                BY <1>1, <2>3, <3>2, SchedulerAssumption DEF Types, Lease
            <4>3. lease' \in Lease /\ lease'.owner = lease.owner /\ lease' # None
                BY <4>1, <4>2, SchedulerAssumption DEF Lease
            <4> QED
                BY <1>1, <1>8, <2>1, <3>2, <4>1, <4>3, OtherKeeps DEF Tick, Types
        <3> QED
            BY <3>1, <3>2
    <2> QED
        BY <2>2, <2>3
<1> QED
    BY <1>2, <1>3, <1>4, <1>5, <1>6, <1>7, <1>8 DEF Next

LEMMA Inductive == Spec => []IInv
BY InitHolds, NextKeeps, PTL DEF Spec

-----------------------------------------------------------------------------
(***************************************************************************)
(* The theorems.                                                           *)
(***************************************************************************)

LEMMA HeldByOne ==
    ASSUME IInv, NEW w \in Workers, job.singleton
    PROVE  Cardinality({t \in TasksOf(w) : Held(t)}) = (IF inFlight[w] THEN 1 ELSE 0)
<1>1. CASE inFlight[w]
    <2>1. PICK t \in TasksOf(w) : Held(t)
        BY <1>1 DEF IInv, ClaimsHaveTasks
    <2>2. {u \in TasksOf(w) : Held(u)} = {t}
        BY <2>1 DEF IInv, Claims, TasksOf
    <2> QED
        BY <1>1, <2>2, FS_Singleton
<1>2. CASE ~inFlight[w]
    <2>1. {u \in TasksOf(w) : Held(u)} = {}
        BY <1>2 DEF IInv, Claims, TasksOf
    <2> QED
        BY <1>2, <2>1, FS_EmptySet
<1> QED
    BY <1>1, <1>2

(* The claims and permits of a worker are those of tasks that have not     *)
(* left yet: scheduler/executor.py leaves none behind and loses none,      *)
(* through retries, time-outs, cancelled run_now, crashes and              *)
(* re-registrations.                                                       *)
THEOREM ClaimsAndPermitsHold == Spec => []ClaimsAndPermitsAreHeld
<1>1. ASSUME IInv PROVE ClaimsAndPermitsAreHeld
    BY <1>1, HeldByOne, Zenon DEF ClaimsAndPermitsAreHeld, IInv, Permits, Holders, Held
<1> QED
    BY <1>1, Inductive, PTL

(* Two runs of a singleton overlap, on whatever workers, only after a      *)
(* lease vanished under one of them.                                       *)
THEOREM SingletonsExclude == Spec => []OverlapNeedsALostLease
<1>1. ASSUME IInv PROVE OverlapNeedsALostLease
    <2>1. SUFFICES ASSUME NEW t \in Tasks, NEW u \in Tasks, job.singleton, t # u,
                          pc[t] = "handler", pc[u] = "handler", ~orphaned
                   PROVE  FALSE
        BY DEF OverlapNeedsALostLease
    <2>2. OnRecord(t) /\ OnRecord(u) /\ Held(t) /\ Held(u)
        BY <1>1, <2>1 DEF IInv, StepsFit, OnRecord, HoldsSlot, Held
    <2>3. Owner(t) = Owner(u)
        BY <1>1, <2>1, <2>2 DEF IInv, LeaseIsHeld
    <2> QED
        BY <1>1, <2>1, <2>2, <2>3 DEF IInv, Claims
<1> QED
    BY <1>1, Inductive, PTL

(* The permits never go below none or above max_concurrent_jobs, the       *)
(* attempts never above max_retries, and everything else has its type.     *)
THEOREM TypesHold == Spec => []TypeOK
<1>1. ASSUME IInv PROVE TypeOK
    <2>1. slots \in [Workers -> 0..MaxConcurrent]
        <3>1. ASSUME NEW w \in Workers PROVE slots[w] \in 0..MaxConcurrent
            BY <1>1, FewTasks, SchedulerAssumption DEF IInv, Types, Permits
        <3> QED
            BY <1>1, <3>1 DEF IInv, Types
    <2> QED
        BY <1>1, <2>1, Zenon DEF TypeOK, IInv, Types, Places
<1> QED
    BY <1>1, Inductive, PTL

-----------------------------------------------------------------------------
(***************************************************************************)
(* The safety half of IntervalJobsKeepRunning.                             *)
(***************************************************************************)

\* Only a once job that is no singleton makes a loop spin.
LoopsFit == \A w \in Workers : loop[w] = "stuck" => job.trigger = "once" /\ ~job.singleton

\* A step of the task that needs no other task.
GoesOn(t) ==
    \/ pc[t] \in {"claim", "handler", "pause", "saving"}
    \/ pc[t] = "queued" /\ slots[Owner(t)] > 0

\* What keeps a worker that is on from starting the job is its time, or a task
\* that goes on.
WorkersGoOn ==
    \A w \in Workers :
        loop[w] = "on" /\ registered[w] =>
            \/ due[w] > 0
            \/ ~Claimed(w) /\ (<<w, "loop">> \in Tasks => pc[<<w, "loop">>] = "none")
            \/ \E t \in TasksOf(w) : GoesOn(t)

LEMMA LoopsStep ==
    ASSUME Types, LoopsFit, [Next]_vars
    PROVE  LoopsFit'
<1>1. job' = job
    BY DEF Next, TaskStep, LoopPass, RunNow, Stop, Start, Unregister, Register, Crash, TakeSlot,
           Claim, Return, Fail, Retry, Complete, Cancel, Tick, vars
<1>2. ASSUME NEW w \in Workers, LoopPass(w)
      PROVE  LoopsFit'
    <2>1. CASE job.trigger = "interval"
        BY <1>1, <1>2, <2>1 DEF LoopPass, LoopsFit
    <2>2. CASE job.trigger = "once"
        BY <1>1, <1>2, <2>2 DEF LoopPass, LoopsFit, Types
    <2> QED
        BY <1>2, <2>1, <2>2 DEF LoopPass
<1>3. ASSUME NEW w \in Workers, Stop(w) \/ Start(w) \/ Crash(w)
      PROVE  LoopsFit'
    BY <1>1, <1>3 DEF Stop, Start, Crash, LoopsFit, Types
<1>4. CASE loop' = loop
    BY <1>1, <1>4 DEF LoopsFit
<1>5. ASSUME NEW w \in Workers, RunNow(w) \/ Unregister(w) \/ Register(w)
      PROVE  loop' = loop
    BY <1>5 DEF RunNow, Unregister, Register
<1>6. ASSUME NEW t \in Tasks, TaskStep(t) \/ Cancel(t)
      PROVE  loop' = loop
    BY <1>6 DEF TaskStep, TakeSlot, Claim, Return, Fail, Retry, Complete, Cancel, worker
<1>7. ASSUME Tick \/ UNCHANGED vars
      PROVE  loop' = loop
    BY <1>7 DEF Tick, vars, worker
<1> QED
    BY <1>2, <1>3, <1>4, <1>5, <1>6, <1>7 DEF Next

\* A task that has a claim or waits for a permit is one that goes on, or the
\* permits are with others of its worker that do.
LEMMA HeldGoesOn ==
    ASSUME IInv, NEW w \in Workers, NEW t \in TasksOf(w), Held(t)
    PROVE  \E u \in TasksOf(w) : GoesOn(u)
<1>1. CASE HoldsSlot(t) \/ slots[w] > 0
    BY <1>1 DEF GoesOn, Held, HoldsSlot, TasksOf
<1>2. CASE slots[w] = 0
    <2>1. Holders(w) # {}
        <3>1. slots[w] + Cardinality(Holders(w)) = MaxConcurrent
            BY DEF IInv, Permits
        <3>2. MaxConcurrent # 0 /\ Cardinality({}) = 0
            BY FS_EmptySet, SchedulerAssumption
        <3>3. Cardinality(Holders(w)) # 0
            BY <1>2, <3>1, <3>2, FewTasks
        <3> QED
            BY <3>2, <3>3
    <2> QED
        BY <2>1 DEF Holders, HoldsSlot, GoesOn
<1>3. slots[w] = 0 \/ slots[w] > 0
    BY DEF IInv, Types
<1> QED
    BY <1>1, <1>2, <1>3

\* A worker that is on and knows the job starts it when it is due, unless one
\* of its own tasks is on the way to let go of the claim or to end: no retry,
\* time-out, cancelled run_now, crash or stop leaves a claim or a permit behind
\* that the loop would wait for.  Only the once job that is no singleton stops
\* its loop for good (primitives.py _execute_job_with_slot, executor.py:120-145).
THEOREM WorkersNeverLockUp == Spec => [](WorkersGoOn /\ LoopsFit)
<1>1. Init => LoopsFit
    BY DEF Init, LoopsFit
<1>2. IInv /\ LoopsFit /\ [Next]_vars => LoopsFit'
    BY LoopsStep DEF IInv
<1>3. IInv => WorkersGoOn
    <2> SUFFICES ASSUME IInv, NEW w \in Workers, due[w] = 0,
                        \/ Claimed(w)
                        \/ <<w, "loop">> \in Tasks /\ pc[<<w, "loop">>] # "none"
                 PROVE  \E t \in TasksOf(w) : GoesOn(t)
        BY SchedulerAssumption DEF WorkersGoOn, IInv, Types
    <2>1. CASE Claimed(w)
        <3>1. PICK t \in TasksOf(w) : Held(t)
            BY <2>1 DEF Claimed, IInv, ClaimsHaveTasks
        <3> QED
            BY <3>1, HeldGoesOn
    <2>2. CASE <<w, "loop">> \in Tasks /\ pc[<<w, "loop">>] # "none"
        <3> DEFINE t == <<w, "loop">>
        <3>1. t \in TasksOf(w) /\ pc[t] \in Places
            BY <2>2 DEF TasksOf, Owner, IInv, Types
        <3>2. CASE pc[t] = "saving"
            BY <3>1, <3>2 DEF GoesOn
        <3>3. CASE pc[t] # "saving"
            <4>1. Held(t)
                BY <2>2, <3>1, <3>3 DEF Held, HoldsSlot, Places
            <4> QED
                BY <3>1, <4>1, HeldGoesOn
        <3> QED
            BY <3>2, <3>3
    <2> QED
        BY <2>1, <2>2
<1> QED
    BY <1>1, <1>2, <1>3, Inductive, PTL DEF Spec
=============================================================================

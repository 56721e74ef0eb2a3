------------------------ MODULE CheckpointingExecutor ------------------------
(***************************************************************************)
(* Disposable workers that run a DAG under the id of a run, one after      *)
(* another and, when a lease expires, at the same time:                    *)
(* CheckpointingDAGExecutor of orchestration/checkpointer.py in each of    *)
(* them, over the leases and the fenced checkpoint files of                *)
(* FencedCheckpoint, whose retention cap is off.                           *)
(*                                                                         *)
(* This executor runs every node of the topological order, whatever the    *)
(* edges say, and keeps the completed nodes as a list.  run() saves the    *)
(* initial checkpoint before its try block; every other save is inside it, *)
(* and one that raises ends in the except clause, which saves again.       *)
(***************************************************************************)
EXTENDS FencedCheckpoint, Sequences, Functions

CONSTANTS
    Order,              \* what topological_sort returns
    Setups,             \* what the executors may be set up with, see the assumption
    MaxFaults           \* bound: saves that fail on the disk

Nodes == Range(Order)

(* retries: the nodes with retry_on_failure; interval: checkpoint_interval;*)
(* onFailure: checkpoint_on_failure.                                       *)
ASSUME CheckpointingAssumption ==
    /\ Order \in Seq(Nodes) /\ IsInjective(Order)
    /\ None \notin Nodes
    /\ Setups \subseteq [retries: SUBSET Nodes, interval: Nat \ {0}, onFailure: BOOLEAN]
    /\ MaxFaults \in Nat

VARIABLES
    setup,      \* how the executors are set up
    exec,       \* per worker: the local variables of its executor
    faults,
    late        \* history: the checkpoint on a run's file was written by a worker
                \*   that had been deposed

executorVars == <<vars, setup, exec, faults, late>>

(* The constant Bodies is this set; a model that takes less of it only     *)
(* stops at a save.                                                        *)
DAGCheckpoint == [status: {"RUNNING", "FAILED", "CANCELLED", "COMPLETED"},
                  completed: Seq(Nodes), failed: Nodes \union {None},
                  context: SUBSET Nodes]

(* pc is where the worker is: "idle" before an execution, at one of the    *)
(* saves or the loop, "over" after it, and "raised" if an exception came   *)
(* out of it: then nobody gives the lease back.  remaining is run in the   *)
(* order of the DAG.                                                       *)
Resting(pc) == [pc |-> pc, remaining |-> {}, node |-> None, completed |-> <<>>,
                since |-> 0, context |-> {}]
Idle == Resting("idle")
Over == Resting("over")

Executor == [pc: {"idle", "initial", "node", "progress", "cancelled", "fail", "except",
                  "over", "raised"},
             remaining: SUBSET Nodes, node: Nodes \union {None},
             completed: Seq(Nodes), since: Nat, context: SUBSET Nodes]

ExecutorTypeOK ==
    /\ TypeOK
    /\ setup \in Setups
    /\ exec \in [Workers -> Executor]
    /\ faults \in 0..MaxFaults
    /\ late \in [Runs -> BOOLEAN]

(* No file is pruned: max_checkpoints is off, or never reached.            *)
Unpruned == MaxCheckpoints = 0

ExecutorInit ==
    /\ Unpruned
    /\ Init
    /\ setup \in Setups
    /\ exec = [w \in Workers |-> Idle]
    /\ faults = 0
    /\ late = [r \in Runs |-> FALSE]

-----------------------------------------------------------------------------
(***************************************************************************)
(* A worker gets the lease, executes, and gives the lease back.            *)
(***************************************************************************)

In(w, pc) == exec[w].pc = pc
Become(w, locals) == exec' = [exec EXCEPT ![w] = locals]

AcquireLease(w) ==
    /\ In(w, "idle") /\ call[w] = None
    /\ (\E r \in Runs : StartAcquire(w, r)) \/ Grant(w) \/ Refuse(w)
    /\ UNCHANGED <<fileVars, setup, exec, faults, late>>

ReleaseLease(w) ==
    /\ In(w, "over") /\ call[w] = None
    /\ Release(w) \/ StaleRelease(w)
    /\ Become(w, Idle)
    /\ UNCHANGED <<fileVars, setup, faults, late>>

(* The application calls run() if there is no checkpoint yet.              *)
StartRun(w) ==
    /\ In(w, "idle") /\ lease[w] # None /\ file[RunOf(w)] = None
    /\ Become(w, [Idle EXCEPT !.pc = "initial", !.remaining = Nodes])
    /\ UNCHANGED <<vars, setup, faults, late>>

CanResume(r) == file[r] # None /\ file[r].body.status \in {"RUNNING", "FAILED"}

(* The nodes that are still to run.                                        *)
\* Mutant: the failed node is not run again.
Pending_WithoutFailed(c) == Nodes \ Range(c.completed)

\* Mutant: counts the completed nodes, though one that failed is listed again
\* when it is run again.
Pending_ByCount(c) ==
    LET done == Len(c.completed) - (IF c.failed = None THEN 0 ELSE 1)
    IN {Order[i] : i \in {j \in DOMAIN Order : j > done}}

Pending(c) == (Nodes \ Range(c.completed)) \union {n \in Nodes : n = c.failed}

\* Mutant: the completed nodes are not carried over.
Resume_Fresh(w) ==
    /\ In(w, "idle") /\ lease[w] # None /\ CanResume(RunOf(w))
    /\ LET saved == file[RunOf(w)].body
       IN Become(w, [Idle EXCEPT !.pc = "node", !.remaining = Pending(saved),
                                 !.context = saved.context])
    /\ UNCHANGED <<vars, setup, faults, late>>

(* resume().  The checkpoint is loaded with no look at the lease.          *)
Resume(w) ==
    /\ In(w, "idle") /\ lease[w] # None /\ CanResume(RunOf(w))
    /\ LET saved == file[RunOf(w)].body
       IN Become(w, [Idle EXCEPT !.pc = "node", !.remaining = Pending(saved),
                                 !.completed = saved.completed, !.context = saved.context])
    /\ UNCHANGED <<vars, setup, faults, late>>

-----------------------------------------------------------------------------
(***************************************************************************)
(* The loop.                                                               *)
(***************************************************************************)

\* Mutant: one node too many between two saves.
Due_Late(since) == since > setup.interval

Due(since) == since >= setup.interval

Precedes(m, n) == \E i, j \in DOMAIN Order : i < j /\ Order[i] = m /\ Order[j] = n

(* The next node is taken off the list and run.  A failure that is not     *)
(* retried ends the execution, after a save if checkpoint_on_failure is    *)
(* set.                                                                    *)
Execute(w, n) ==
    LET e == exec[w] IN
    /\ In(w, "node") /\ n \in e.remaining
    /\ \A m \in e.remaining : ~Precedes(m, n)
    /\ \E ok \in BOOLEAN :
        IF ok \/ n \in setup.retries \/ setup.onFailure
        THEN Become(w, [remaining |-> e.remaining \ {n}, node |-> n,
                        completed |-> Append(e.completed, n), since |-> e.since + 1,
                        context |-> IF ok THEN e.context \union {n} ELSE e.context,
                        pc |-> IF ~ok /\ n \notin setup.retries THEN "fail"
                               ELSE IF Due(e.since + 1) THEN "progress" ELSE "node"])
        ELSE Become(w, Over)
    /\ UNCHANGED <<vars, setup, faults, late>>

(* The token is found cancelled before a node.                             *)
Cancel(w) ==
    /\ In(w, "node") /\ exec[w].remaining # {}
    /\ Become(w, [exec[w] EXCEPT !.pc = "cancelled"])
    /\ UNCHANGED <<vars, setup, faults, late>>

(* A CancelledError comes out of a node, which no except clause catches.   *)
Interrupt(w) ==
    /\ In(w, "node") /\ exec[w].remaining # {}
    /\ Become(w, Over)
    /\ UNCHANGED <<vars, setup, faults, late>>

-----------------------------------------------------------------------------
(***************************************************************************)
(* The saves.  With no node left the loop is at the save of success.       *)
(***************************************************************************)

SavePoint(w) == IF In(w, "node") /\ exec[w].remaining = {} THEN "completed" ELSE exec[w].pc

Status == [initial |-> "RUNNING", progress |-> "RUNNING", completed |-> "COMPLETED",
           cancelled |-> "CANCELLED", fail |-> "FAILED", except |-> "FAILED"]

\* Only the save of a failure names the failed node.
Body(w) ==
    [status |-> Status[SavePoint(w)], completed |-> exec[w].completed,
     failed |-> IF In(w, "fail") THEN exec[w].node ELSE None,
     context |-> exec[w].context]

\* What follows a save that returned, and one that raised.
Returned(w) ==
    Become(w, CASE SavePoint(w) = "initial"  -> [exec[w] EXCEPT !.pc = "node"]
                [] SavePoint(w) = "progress" -> [exec[w] EXCEPT !.pc = "node", !.since = 0]
                [] OTHER                     -> Over)

Raised(w) ==
    Become(w, IF SavePoint(w) \in {"initial", "except"} THEN Resting("raised")
              ELSE IF setup.onFailure THEN [exec[w] EXCEPT !.pc = "except"]
              ELSE Over)

Saving(w) ==
    /\ SavePoint(w) \in DOMAIN Status
    /\ call[w] = None
    /\ Body(w) \in Bodies

(* FencedCheckpointer.save: the lease is good, or it is not.               *)
SaveChecked(w) ==
    /\ Saving(w)
    /\ CheckedSave(w, Body(w))
    /\ UNCHANGED <<setup, exec, faults, late>>

SaveRefused(w) ==
    /\ Saving(w) /\ ~Validates(w)
    /\ Raised(w)
    /\ UNCHANGED <<vars, setup, faults, late>>

LateNow(w) == late' = [late EXCEPT ![RunOf(w)] = lease[w].token # store[RunOf(w)].token]

(* FileCheckpointer.save writes, or refuses a lower token ...              *)
SaveWritten(w) ==
    /\ WriteFile(w)
    /\ Returned(w)
    /\ LateNow(w)
    /\ UNCHANGED <<setup, faults>>

SaveFenced(w) ==
    /\ StaleWrite(w)
    /\ Raised(w)
    /\ UNCHANGED <<setup, faults, late>>

(* ... or fails on the disk, before or after the file was replaced.        *)
SaveFails(w) ==
    /\ faults < MaxFaults /\ faults' = faults + 1
    /\ \/ WriteFails(w) /\ UNCHANGED late
       \/ WriteFile(w) /\ LateNow(w)
    /\ Raised(w)
    /\ UNCHANGED setup

-----------------------------------------------------------------------------
(* The worker dies, anywhere.                                              *)
WorkerDies(w) ==
    /\ Die(w)
    /\ Become(w, Idle)
    /\ UNCHANGED <<setup, faults, late>>

TimePasses == Tick /\ UNCHANGED <<fileVars, setup, exec, faults, late>>

ExecutorNext ==
    \/ TimePasses
    \/ \E w \in Workers :
        \/ AcquireLease(w) \/ ReleaseLease(w) \/ StartRun(w) \/ Resume(w)
        \/ (\E n \in Nodes : Execute(w, n)) \/ Cancel(w) \/ Interrupt(w)
        \/ SaveChecked(w) \/ SaveRefused(w)
        \/ SaveWritten(w) \/ SaveFenced(w) \/ SaveFails(w)
        \/ WorkerDies(w)

ExecutorSpec == ExecutorInit /\ [][ExecutorNext]_executorVars

-----------------------------------------------------------------------------
(***************************************************************************)
(* Properties.                                                             *)
(***************************************************************************)

Done(c) == IF c = None THEN {} ELSE Range(c.body.completed) \ {c.body.failed}

(* What an owner saved is not undone by whoever comes later or is late     *)
(* itself: no takeover, failed save, crash or cancellation takes a node    *)
(* off the record, or its output out of the saved context.  A checkpoint   *)
(* that a deposed worker wrote may be: its successor had already loaded    *)
(* the one before it (run_lease.py:171-173, checkpointer.py:145-178).      *)
OwnersProgressStands ==
    [][\A r \in Runs : file[r] # None /\ ~late[r] =>
        /\ Done(file[r]) \subseteq Done(file'[r])
        /\ file[r].body.context \subseteq file'[r].body.context]_executorVars

Ended(r) == file[r] # None /\ file[r].body.status \in {"COMPLETED", "CANCELLED"}

(* As long as no save fails on the disk, a run that its owner completed or *)
(* cancelled stays as it was left, whatever saves of its predecessors are  *)
(* still on their way.  (A save that fails after it wrote is followed by   *)
(* that of the except clause, which makes a FAILED run of it.)             *)
EndedRunsStay ==
    [][\A r \in Runs : Ended(r) /\ ~late[r] =>
        file'[r] = file[r] \/ faults' > 0]_executorVars

(* Whatever fails in between, a run is COMPLETED only if every node of the *)
(* DAG was run to an end, by one worker or another.                        *)
NoNodeIsSkipped ==
    \A r \in Runs : file[r] # None /\ file[r].body.status = "COMPLETED" =>
        Nodes \subseteq Range(file[r].body.completed)

(* As long as no save fails on the disk, a COMPLETED run hides no failure: *)
(* the output of every node that is not retried is in its context.         *)
CompletedRunsHideNoFailure ==
    \A r \in Runs : faults = 0 /\ file[r] # None /\ file[r].body.status = "COMPLETED" =>
        Nodes \ setup.retries \subseteq file[r].body.context

(* Before the owner starts a node, fewer nodes than the interval are       *)
(* unsaved, counting from its first checkpoint.                            *)
UnsavedWorkIsBounded ==
    \A w \in Workers :
        In(w, "node") /\ file[RunOf(w)] # None /\ file[RunOf(w)].token = lease[w].token =>
            Len(exec[w].completed) - Len(file[RunOf(w)].body.completed) < setup.interval
=============================================================================

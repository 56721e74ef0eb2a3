---------------------------- MODULE DagExecutor ----------------------------
(***************************************************************************)
(* DAGExecutor of orchestration/executor.py with a checkpointer: one run   *)
(* of one DAG, through crashes and resumes.                                *)
(*                                                                         *)
(* The executor walks the topological order.  It decides from the edges    *)
(* and the routing choices whether a node runs, runs it, publishes an      *)
(* event, saves a checkpoint when the number of results is a multiple of   *)
(* the interval, and then looks for a reason to stop.  A bus handler that  *)
(* raises, or a save that raises, ends in the except clause, which saves a *)
(* checkpoint of its own.  resume() starts again from whatever the         *)
(* checkpointer holds.                                                     *)
(*                                                                         *)
(* A node's work is abstract: it succeeds or fails, and a success puts the *)
(* node's output into the context.                                         *)
(***************************************************************************)
EXTENDS Naturals, Sequences, FiniteSets

CONSTANTS
    Dags,           \* the graphs an executor may be given, see the assumption
    None,           \* no checkpoint, no failed node, no routing choice
    MaxIterations,  \* max_iterations of every LOOP node
    MaxAttempts,    \* bound: calls of run() and resume()
    MaxFaults       \* bound: publishes and saves that raise

(* order: what topological_sort returns; retries: retry_on_failure;        *)
(* anyJoin: the join mode is "any"; inner: the parallel_nodes or           *)
(* body_node_ids; moderated: the moderation pipeline may block its output; *)
(* routes: what a routing node may decide, as pairs of its success and the *)
(* targets it allows; interval: the checkpoint_interval of its services.   *)
IsDag(g) ==
    LET nodes == {g.order[k] : k \in 1..Len(g.order)}
    IN /\ g.order \in Seq(nodes)
       /\ None \notin nodes
       /\ g.edges \subseteq [source: nodes, target: nodes, field: nodes,
                             condition: {"always", "on_success", "on_failure", "rule"}]
       /\ g.kind \in [nodes -> {"task", "checkpoint", "parallel", "loop",
                               "router", "conditional"}]
       /\ g.inner \in [nodes -> Seq(nodes)]
       /\ g.retries \subseteq nodes /\ g.anyJoin \subseteq nodes /\ g.moderated \subseteq nodes
       /\ g.routes \in [nodes -> SUBSET (BOOLEAN \X SUBSET nodes)]
       /\ g.interval \in Nat \ {0}
       /\ None \notin [status: {"RUNNING", "FAILED", "COMPLETED"}, completed: SUBSET nodes,
                        failed: nodes \union {None}, context: SUBSET nodes,
                        routes: [nodes -> {None} \union SUBSET nodes]]
       /\ \A s \in SUBSET nodes : s # None

ASSUME DagAssumption ==
    /\ \A g \in Dags : IsDag(g)
    /\ MaxIterations \in Nat /\ MaxAttempts \in Nat /\ MaxFaults \in Nat

VARIABLES
    dag,       \* the graph of this run
    pc,        \* what the executor does next; "idle" between calls
    i,         \* position in the order
    result,    \* completed: "ok" or "failed" per node, "absent" if not there
    recorded,  \* the nodes of node_results, which starts empty in each call
    count,     \* len(node_results)
    routes,    \* route_choices
    context,   \* nodes whose output is in the context
    ckpt,      \* what the checkpointer holds
    attempts,  \* calls so far
    faults,    \* publishes and saves that raised so far
    truth,     \* history: how each node last ended, in any call
    decided    \* history: what each routing node last decided, in any call

local == <<i, result, recorded, count, routes, context>>
history == <<dag, truth, decided>>

vars == <<dag, pc, i, result, recorded, count, routes, context, ckpt, attempts,
          faults, truth, decided>>

Order == dag.order
Nodes == {Order[k] : k \in 1..Len(Order)}

Absent == [n \in Nodes |-> "absent"]
Unrouted == [n \in Nodes |-> None]

Init ==
    /\ dag \in Dags
    /\ pc = "idle" /\ i = 1 /\ result = Absent /\ recorded = {} /\ count = 0
    /\ routes = Unrouted /\ context = {} /\ ckpt = None
    /\ attempts = 0 /\ faults = 0 /\ truth = Absent /\ decided = Unrouted

-----------------------------------------------------------------------------
Done == {n \in Nodes : result[n] # "absent"}
Node == Order[i]
InnerOf(n) == {dag.inner[n][k] : k \in 1..Len(dag.inner[n])}

(* An edge holds when its source has a result, the source did not route    *)
(* elsewhere, and its condition is met.  A JSON rule asks for a field of   *)
(* the context: here, for the output of some node.                         *)
EdgeSatisfied(e) ==
    /\ result[e.source] # "absent"
    /\ routes[e.source] # None => e.target \in routes[e.source]
    /\ \/ e.condition = "always"
       \/ e.condition = "on_success" /\ result[e.source] = "ok"
       \/ e.condition = "on_failure" /\ result[e.source] = "failed"
       \/ e.condition = "rule" /\ e.field \in context

Incoming(n) == {e \in dag.edges : e.target = n}

ShouldExecute(n) ==
    \/ Incoming(n) = {}
    \/ n \in dag.anyJoin /\ \E e \in Incoming(n) : EdgeSatisfied(e)
    \/ n \notin dag.anyJoin /\ \A e \in Incoming(n) : EdgeSatisfied(e)

(* A save, and a publish: each may raise, a save before or after it wrote. *)
Checkpoint(status, completed, failed) ==
    [status |-> status, completed |-> completed, failed |-> failed,
     routes |-> routes, context |-> context]

Save(c, next, handler) ==
    /\ \/ ckpt' = c /\ pc' = next /\ UNCHANGED faults
       \/ /\ faults < MaxFaults /\ faults' = faults + 1
          /\ ckpt' \in {ckpt, c} /\ pc' = handler
    /\ UNCHANGED <<attempts, history>>

Publish(next, handler) ==
    /\ \/ pc' = next /\ UNCHANGED faults
       \/ faults < MaxFaults /\ faults' = faults + 1 /\ pc' = handler
    /\ UNCHANGED <<ckpt, attempts, history>>

Forget ==
    /\ i' = 1 /\ result' = Absent /\ recorded' = {} /\ count' = 0
    /\ routes' = Unrouted /\ context' = {}

-----------------------------------------------------------------------------
(* run(): a fresh run, whose first act is to save an empty checkpoint.     *)
Run ==
    /\ pc = "idle" /\ ckpt = None /\ attempts < MaxAttempts
    /\ attempts' = attempts + 1
    /\ pc' = "initial"
    /\ UNCHANGED <<local, ckpt, faults, history>>

SaveInitial ==
    /\ pc = "initial"
    /\ Save(Checkpoint("RUNNING", Done, None), "node", "except")
    /\ UNCHANGED local

(* resume(): the completed nodes come back as successes, all but the one   *)
(* the checkpoint names as failed; node_results starts empty.              *)
CanResume == ckpt # None /\ ckpt.status \in {"RUNNING", "FAILED"}
Restored(c) == c.completed \ {c.failed}

\* Mutant: the routing choices are not restored.
Resume_Unrouted ==
    /\ pc = "idle" /\ CanResume /\ attempts < MaxAttempts
    /\ attempts' = attempts + 1
    /\ result' = [n \in Nodes |-> IF n \in Restored(ckpt) THEN "ok" ELSE "absent"]
    /\ routes' = Unrouted
    /\ context' = ckpt.context
    /\ pc' = "node"
    /\ UNCHANGED <<i, recorded, count, ckpt, faults, history>>

\* Mutant: the context starts empty.
Resume_EmptyContext ==
    /\ pc = "idle" /\ CanResume /\ attempts < MaxAttempts
    /\ attempts' = attempts + 1
    /\ result' = [n \in Nodes |-> IF n \in Restored(ckpt) THEN "ok" ELSE "absent"]
    /\ routes' = ckpt.routes
    /\ context' = {}
    /\ pc' = "node"
    /\ UNCHANGED <<i, recorded, count, ckpt, faults, history>>

Resume ==
    /\ pc = "idle" /\ CanResume /\ attempts < MaxAttempts
    /\ attempts' = attempts + 1
    /\ result' = [n \in Nodes |-> IF n \in Restored(ckpt) THEN "ok" ELSE "absent"]
    /\ routes' = ckpt.routes
    /\ context' = ckpt.context
    /\ pc' = "node"
    /\ UNCHANGED <<i, recorded, count, ckpt, faults, history>>

-----------------------------------------------------------------------------
(* The loop over the order.                                                *)
\* Mutant: only a completed node is passed over.
Skip_DoneOnly ==
    /\ pc = "node" /\ i <= Len(Order)
    /\ Node \in Done
    /\ i' = i + 1
    /\ UNCHANGED <<pc, result, recorded, count, routes, context, ckpt, attempts,
                   faults, history>>

Skip ==
    /\ pc = "node" /\ i <= Len(Order)
    /\ Node \in Done \/ ~ShouldExecute(Node)
    /\ i' = i + 1
    /\ UNCHANGED <<pc, result, recorded, count, routes, context, ckpt, attempts,
                   faults, history>>

(* The current node ends with ok; nested are the results of the nodes it   *)
(* ran inside, entered those it adds to completed, size the results it     *)
(* appends and outputs what it puts into the context.  An aggregate, a     *)
(* routing or a checkpoint node is moderated only now: if its output is    *)
(* blocked it fails and the context is what it was before.                 *)
Conclude(ok, nested, entered, size, outputs) ==
    \E blocked \in BOOLEAN :
        /\ blocked => ok /\ Node \in dag.moderated
        /\ LET own == IF ok /\ ~blocked THEN "ok" ELSE "failed"
           IN /\ result' = [n \in Nodes |-> IF n = Node THEN own
                                            ELSE IF entered[n] # "absent" THEN entered[n]
                                            ELSE result[n]]
              /\ truth' = [n \in Nodes |-> IF n = Node THEN own
                                           ELSE IF nested[n] # "absent" THEN nested[n]
                                           ELSE truth[n]]
        /\ recorded' = recorded \union {Node} \union {n \in Nodes : nested[n] # "absent"}
        /\ count' = count + size
        /\ context' = IF blocked THEN context ELSE context \union outputs

Executes(kind) ==
    /\ pc = "node" /\ i <= Len(Order)
    /\ Node \notin Done
    /\ ShouldExecute(Node)
    /\ dag.kind[Node] = kind
    /\ pc' = "announce"
    /\ UNCHANGED <<dag, i, ckpt, attempts, faults>>

(* TOOL, SKILL and AGENT nodes; retries, healing, time-outs and moderation *)
(* happen before the result is known.                                      *)
ExecuteTask ==
    /\ Executes("task")
    /\ UNCHANGED <<routes, decided>>
    /\ \E ok \in BOOLEAN :
        Conclude(ok, Absent, Absent, 1, IF ok THEN {Node} ELSE {})

ExecuteCheckpointNode ==
    /\ Executes("checkpoint")
    /\ UNCHANGED <<routes, decided>>
    /\ Conclude(TRUE, Absent, Absent, 1, {})

(* A node with no entry in routes is a CONDITIONAL without targets: it     *)
(* restricts nothing, and its success is the value of the condition.       *)
ExecuteRouting ==
    /\ \E kind \in {"router", "conditional"} : Executes(kind)
    /\ \/ /\ dag.routes[Node] = {}
          /\ UNCHANGED <<routes, decided>>
          /\ \E ok \in BOOLEAN :
                Conclude(ok, Absent, Absent, 1, IF ok THEN {Node} ELSE {})
       \/ \E choice \in dag.routes[Node] :
            /\ routes' = [routes EXCEPT ![Node] = choice[2]]
            /\ decided' = [decided EXCEPT ![Node] = choice[2]]
            /\ Conclude(choice[1], Absent, Absent, 1, IF choice[1] THEN {Node} ELSE {})

(* A PARALLEL node: every child ends one way or the other, and the group   *)
(* succeeds when all did.  A merge conflict turns all of them to failures. *)
ExecuteParallel ==
    /\ Executes("parallel")
    /\ UNCHANGED <<routes, decided>>
    /\ \E good \in SUBSET InnerOf(Node) :
        LET ended == [n \in Nodes |-> IF n \in good THEN "ok"
                                      ELSE IF n \in InnerOf(Node) THEN "failed" ELSE "absent"]
            ok == InnerOf(Node) # {} /\ good = InnerOf(Node)
        IN Conclude(ok, ended, ended, 1 + Len(dag.inner[Node]),
                    good \union (IF ok THEN {Node} ELSE {}))

(* A LOOP node runs its body k nodes long.  It ends well after whole       *)
(* iterations, it fails with the last of the k nodes, or it is halted      *)
(* after any of them.  All body nodes then count as completed, with the    *)
(* loop's own result.                                                      *)
ExecuteLoop ==
    /\ Executes("loop")
    /\ UNCHANGED <<routes, decided>>
    /\ LET body == dag.inner[Node]
           Ran(k) == {body[j] : j \in {j \in 1..Len(body) : j <= k}}
           Last(k) == body[((k - 1) % Len(body)) + 1]
           Nested(k, fails) ==
               [n \in Nodes |-> IF fails /\ n = Last(k) THEN "failed"
                                ELSE IF n \in Ran(k) THEN "ok" ELSE "absent"]
           Entered(ok) == [n \in Nodes |-> IF n \notin InnerOf(Node) THEN "absent"
                                           ELSE IF ok THEN "ok" ELSE "failed"]
       IN \E k \in 0..MaxIterations * Len(body), end \in {"ends", "fails", "halts"} :
            /\ end = "ends" /\ body # <<>> => k % Len(body) = 0
            /\ end = "fails" => k > 0
            /\ end = "halts" => body # <<>>
            /\ Conclude(end = "ends", Nested(k, end = "fails"), Entered(end = "ends"), 1 + k,
                        IF end = "fails" THEN Ran(k - 1) ELSE Ran(k))

(* TASK_COMPLETED, TASK_FAILED and DAG_CHECKPOINT events.                  *)
Announce ==
    /\ pc = "announce"
    /\ Publish("save", "except")
    /\ UNCHANGED local

(* A checkpoint when the number of results is a multiple of the interval.  *)
\* Mutant: one result too many between two checkpoints.
Due_Rare == count % (dag.interval + 1) = 0

Due == count % dag.interval = 0
\* Mutant: the checkpoint names no failed node.
FailedNow_Dropped == None

FailedNow == IF result[Node] = "failed" THEN Node ELSE None

\* Mutant: the checkpoint lists the results of this call only.
SaveProgress_ThisCall ==
    /\ pc = "save"
    /\ \/ Due /\ Save(Checkpoint("RUNNING", recorded, FailedNow), "verdict", "except")
       \/ ~Due /\ pc' = "verdict" /\ UNCHANGED <<ckpt, attempts, faults, history>>
    /\ UNCHANGED local

SaveProgress ==
    /\ pc = "save"
    /\ \/ Due /\ Save(Checkpoint("RUNNING", Done, FailedNow), "verdict", "except")
       \/ ~Due /\ pc' = "verdict" /\ UNCHANGED <<ckpt, attempts, faults, history>>
    /\ UNCHANGED local

(* A failed node is terminal unless it is retried or a CONDITIONAL; a gate *)
(* rejection makes it terminal even if it is retried.                      *)
MayStop(n) == result[n] = "failed" /\ dag.kind[n] # "conditional"
MustStop(n) == MayStop(n) /\ n \notin dag.retries

GoOn ==
    /\ pc = "verdict" /\ ~MustStop(Node)
    /\ i' = i + 1 /\ pc' = "node"
    /\ UNCHANGED <<result, recorded, count, routes, context, ckpt, attempts, faults, history>>

Stop ==
    /\ pc = "verdict" /\ MayStop(Node)
    /\ pc' = "fail"
    /\ UNCHANGED <<local, ckpt, attempts, faults, history>>

(* The budget guard or the quality police halt the run, or it is found     *)
(* cancelled: it returns a failure and saves nothing.                      *)
Halt ==
    /\ pc \in {"verdict", "node"}
    /\ pc = "node" => i <= Len(Order)
    /\ pc' = "idle" /\ Forget
    /\ UNCHANGED <<ckpt, attempts, faults, history>>

SaveFailure ==
    /\ pc = "fail"
    /\ Save(Checkpoint("FAILED", Done, Node), "announce_fail", "except")
    /\ UNCHANGED local

(* The last publish of a call, after which it returns.                     *)
PublishAndReturn(at, handler) ==
    /\ pc = at
    /\ Publish("idle", handler)
    /\ IF pc' = "idle" THEN Forget ELSE UNCHANGED local

AnnounceFailure == PublishAndReturn("announce_fail", "except")

SaveCompleted ==
    /\ pc = "node" /\ i > Len(Order)
    /\ Save(Checkpoint("COMPLETED", Done, None), "announce_done", "except")
    /\ UNCHANGED local

AnnounceCompleted == PublishAndReturn("announce_done", "except")

-----------------------------------------------------------------------------
(* The except clause.  Its checkpoint lists the nodes of node_results, and *)
(* no failed node.  What raises in here leaves the executor.               *)
SaveException ==
    /\ pc = "except"
    /\ Save(Checkpoint("FAILED", recorded, None), "announce_except", "idle")
    /\ IF pc' = "idle" THEN Forget ELSE UNCHANGED local

AnnounceException == PublishAndReturn("announce_except", "idle")

(* The process dies, or its task is cancelled.                             *)
Crash ==
    /\ pc # "idle"
    /\ pc' = "idle" /\ Forget
    /\ UNCHANGED <<ckpt, attempts, faults, history>>

Execute == \/ ExecuteTask \/ ExecuteCheckpointNode \/ ExecuteRouting
           \/ ExecuteParallel \/ ExecuteLoop

Step == \/ SaveInitial \/ Skip \/ Execute \/ Announce \/ SaveProgress \/ GoOn \/ Stop
        \/ SaveFailure \/ AnnounceFailure \/ SaveCompleted \/ AnnounceCompleted
        \/ SaveException \/ AnnounceException

Next == Run \/ Resume \/ Step \/ Halt \/ Crash

Spec == Init /\ [][Next]_vars

(* The event loop runs a started call on; nothing makes a caller resume.   *)
FairSpec == Spec /\ WF_vars(Step)

-----------------------------------------------------------------------------
Saved == IF ckpt = None THEN {} ELSE Restored(ckpt)

(* The nodes that are not run by an aggregate, and those whose failure     *)
(* ends the run.                                                           *)
Standalone == Nodes \ UNION {InnerOf(n) : n \in Nodes}
Terminal == {n \in Nodes : n \notin dag.retries /\ dag.kind[n] # "conditional"}
Unfaulted == faults = 0

(* As long as nothing raises, what the checkpointer knows to be done stays *)
(* known, whatever crashes, halts and resumes happen in between:           *)
(* _save_runtime_checkpoint and the restoring of completed agree.          *)
SavedProgressStands == [][Unfaulted' => Saved \subseteq Saved']_vars

(* As long as nothing raises, a node that a resume would take for a success *)
(* did succeed when it last ran, unless it was allowed to fail: a failed    *)
(* node is in completed, and only failed_node keeps it from being restored. *)
Genuine == \A n \in Saved \intersect Terminal \intersect Standalone : truth[n] = "ok"
SavedSuccessesAreReal == Unfaulted => Genuine

(* Whatever counts as a success has its output in the context, in this     *)
(* process and in the checkpoint: no node downstream of a resumed one      *)
(* reads an input that was lost.                                           *)
ContextHoldsOutputs ==
    Unfaulted => \A n \in Terminal \intersect Standalone : dag.kind[n] = "task" =>
        /\ result[n] = "ok" => n \in context
        /\ n \in Saved => n \in ckpt.context

(* At most one outcome of a choice is acted upon: the node that starts was *)
(* a target of what its router last decided, in this call or an earlier    *)
(* one.  (The choice of a router inside an aggregate is the aggregate's.)  *)
OnlyTheDecidedBranchRuns ==
    [][pc = "node" /\ pc' = "announce" /\ Unfaulted =>
        \A e \in Incoming(Node) :
            e.source \in Standalone /\ decided[e.source] # None /\ Node \notin dag.anyJoin =>
                e.target \in decided[e.source]]_vars

(* A node starts only if the nodes its ON_SUCCESS edges come from really   *)
(* succeeded, before or after a resume.  (A CONDITIONAL and a retried node *)
(* come back as successes, see the README.)                                *)
RejectedBranchNeverRuns ==
    [][pc = "node" /\ pc' = "announce" /\ Unfaulted /\ Node \notin dag.anyJoin =>
        \A e \in Incoming(Node) :
            e.condition = "on_success" /\ e.source \in Terminal \intersect Standalone =>
                truth[e.source] = "ok"]_vars

(* Between two nodes, fewer results than the interval are unsaved: a crash *)
(* repeats at most that many nodes and the one it interrupted.  Aggregates *)
(* append several results at once and are left out.                        *)
UnsavedWorkIsBounded ==
    pc = "node" /\ Standalone = Nodes => Cardinality(Done \ ckpt.completed) < dag.interval

(* A call that has started returns.                                        *)
EveryCallReturns == (pc # "idle") ~> (pc = "idle")
=============================================================================

---------------------------- MODULE EvaluatedRuns ----------------------------
(***************************************************************************)
(* DAG runs whose results are evaluated while they run, as bootstrap.py    *)
(* wires them: DistributedDAGExecutor takes submitted DAGs from its queue; *)
(* DAGExecutor publishes when a node starts and completes;                 *)
(* OnlineEvalPipeline evaluates the output and publishes the score;        *)
(* QualityPolice records it; BlueprintHarvesterEngine correlates goal,     *)
(* output and score of a node and stores a blueprint.                      *)
(*                                                                         *)
(* An event nobody subscribes to is published without a suspension and     *)
(* left out.  A score is "good", enough for the harvest policy, "poor", or *)
(* "failed", which did not pass.                                           *)
(***************************************************************************)
EXTENDS LocalEventBus

CONSTANTS
    Dags,           \* the DAGs that are submitted, once each
    Length,         \* nodes of each, one after the other: [Dags -> Nat]
    Modes,          \* the EvalModes a run covers: "gate", "observe"
    Workers,        \* n_workers
    MaxEvals,       \* permits of _OBSERVE_EVAL_SEMAPHORE
    Lookups,        \* correlation_retry_attempts + 1
    NotYet,
    MaxStarts       \* bound: calls of start_workers()

Scores == {"good", "poor", "failed"}
Outcomes == {"rejected", "uncorrelated", "appended", "error"}

ASSUME RunsAssumption ==
    /\ Length \in [Dags -> Nat \ {0}]
    /\ Items = UNION {{d} \X (1..Length[d]) : d \in Dags}
    /\ HandlersOf = [started |-> <<"goal">>, completed |-> <<"eval", "output">>,
                     evaluated |-> <<"police", "harvest">>]
    /\ Modes \subseteq {"gate", "observe"}
    /\ Lookups \in Nat \ {0}
    /\ NotYet \notin Scores \union Outcomes

VARIABLES
    mode,       \* how the eval pipeline is bound
    queue,      \* the DAGs submitted and not taken
    future,     \* per DAG: "none", "pending" or "resolved"
    workers,    \* worker loops that are alive
    starts,
    step,       \* where the run of each DAG is
    node,       \* the node it is at
    eval,       \* where the evaluation of each node is
    score,      \* the score it published, or NotYet
    known,      \* the correlator's record of each node
    lookups,    \* lookups its harvest has left
    harvest,    \* the outcome of its harvest, or NotYet
    halted      \* QualityPolice._halted

runs == <<queue, future, workers, starts, step, node>>
evals == <<mode, eval, score>>
harvests == <<known, lookups, harvest>>
runsVars == <<localBus, runs, evals, harvests, halted>>

RunsInit ==
    /\ BusInit
    /\ mode \in Modes
    /\ queue = <<>>
    /\ future = [d \in Dags |-> "none"]
    /\ workers = 0 /\ starts = 0
    /\ step = [d \in Dags |-> "new"]
    /\ node = [d \in Dags |-> 1]
    /\ eval = [i \in Items |-> "no"]
    /\ score = [i \in Items |-> NotYet]
    /\ known = [i \in Items |-> {}]
    /\ lookups = [i \in Items |-> 0]
    /\ harvest = [i \in Items |-> NotYet]
    /\ halted = FALSE

At(d) == <<d, node[d]>>
Proceed(d, to) == step' = [step EXCEPT ![d] = to]

-----------------------------------------------------------------------------
(***************************************************************************)
(* DistributedDAGExecutor.                                                 *)
(***************************************************************************)

Active == {d \in Dags : step[d] \notin {"new", "done", "lost"}}

Submit(d) ==
    /\ step[d] = "new" /\ future[d] = "none"
    /\ queue' = Append(queue, d)
    /\ future' = [future EXCEPT ![d] = "pending"]
    /\ UNCHANGED <<localBus, workers, starts, step, node, evals, harvests, halted>>

StartWorkers ==
    /\ starts < MaxStarts
    /\ starts' = starts + 1
    /\ workers' = workers + Workers
    /\ UNCHANGED <<localBus, queue, future, step, node, evals, harvests, halted>>

\* The worker loop gets the next DAG and calls run().
Take ==
    /\ queue # <<>> /\ Cardinality(Active) < workers
    /\ Proceed(Head(queue), "next")
    /\ queue' = Tail(queue)
    /\ UNCHANGED <<localBus, future, workers, starts, node, evals, harvests, halted>>

\* run() returns or raises, and the worker resolves the future.
Finish(d) ==
    /\ Proceed(d, "done")
    /\ future' = [future EXCEPT ![d] = "resolved"]

\* stop_workers(): the loops are cancelled, and with a run its publish, the
\* handlers of that and what they await.  An evaluation in a task of its own
\* goes on.
StopWorkers ==
    /\ workers > 0
    /\ workers' = 0
    /\ step' = [d \in Dags |-> IF d \in Active THEN "lost" ELSE step[d]]
    /\ work' = [i \in Items |-> [h \in Handlers |->
                    IF i[1] \in Active /\ (TypeOf[h] # "evaluated" \/ mode = "gate")
                       /\ work[i][h] \in {"waiting", "running"}
                    THEN "no" ELSE work[i][h]]]
    /\ eval' = [i \in Items |-> IF i[1] \in Active /\ mode = "gate" /\ eval[i] # "no"
                                THEN "done" ELSE eval[i]]
    /\ UNCHANGED <<bus, permits, queue, future, starts, node, mode, score, harvests, halted>>

-----------------------------------------------------------------------------
(***************************************************************************)
(* DAGExecutor.run.                                                        *)
(***************************************************************************)

\* The next node, unless the run halts or is complete.
StartNode(d) ==
    /\ step[d] = "next"
    /\ IF halted
       THEN Finish(d) /\ UNCHANGED work
       ELSE /\ Proceed(d, "starting") /\ UNCHANGED future
            /\ work' = Published(At(d), "started")
    /\ UNCHANGED <<bus, permits, queue, workers, starts, node, evals, harvests, halted>>

\* The node succeeds.
CompleteNode(d) ==
    /\ step[d] = "starting" /\ Delivered(At(d), "started")
    /\ Proceed(d, "completing")
    /\ work' = Published(At(d), "completed")
    /\ UNCHANGED <<bus, permits, queue, future, workers, starts, node, evals, harvests, halted>>

(* Mutant: the exception of a run does not get to the future. *)
FailNode_Unreported(d) ==
    /\ step[d] = "starting" /\ Delivered(At(d), "started")
    /\ Proceed(d, "done")
    /\ UNCHANGED <<localBus, queue, future, workers, starts, node, evals, harvests, halted>>

\* It fails, or the run raises.
FailNode(d) ==
    /\ step[d] = "starting" /\ Delivered(At(d), "started")
    /\ Finish(d)
    /\ UNCHANGED <<localBus, queue, workers, starts, node, evals, harvests, halted>>

LeaveNode(d) ==
    /\ step[d] = "completing" /\ Delivered(At(d), "completed")
    /\ IF node[d] = Length[d]
       THEN Finish(d) /\ UNCHANGED node
       ELSE Proceed(d, "next") /\ node' = [node EXCEPT ![d] = @ + 1] /\ UNCHANGED future
    /\ UNCHANGED <<localBus, queue, workers, starts, evals, harvests, halted>>

-----------------------------------------------------------------------------
(***************************************************************************)
(* OnlineEvalPipeline.                                                     *)
(***************************************************************************)

\* _handle_task_completed: as a gate the handler awaits the evaluation, as an
\* observer it leaves it to a task.
HandleCompleted(i) ==
    /\ MayStart(i, "eval")
    /\ IF mode = "gate"
       THEN Become(i, "eval", "running") /\ eval' = [eval EXCEPT ![i] = "scoring"]
       ELSE Become(i, "eval", "done") /\ eval' = [eval EXCEPT ![i] = "queued"]
    /\ UNCHANGED <<bus, permits, runs, mode, score, harvests, halted>>

Observe(i) ==
    /\ eval[i] = "queued"
    /\ Cardinality({k \in Items : eval[k] \in {"scoring", "publishing"}}) < MaxEvals
    /\ eval' = [eval EXCEPT ![i] = "scoring"]
    /\ UNCHANGED <<localBus, runs, mode, score, harvests, halted>>

\* The evaluators return, and EVAL_COMPLETED is published.
Score(i) ==
    /\ eval[i] = "scoring"
    /\ eval' = [eval EXCEPT ![i] = "publishing"]
    /\ \E s \in Scores : score' = [score EXCEPT ![i] = s]
    /\ work' = Published(i, "evaluated")
    /\ UNCHANGED <<bus, permits, runs, mode, harvests, halted>>

\* _run_eval returns; so does the handler that waits for it.
EvalEnds(i) ==
    /\ eval' = [eval EXCEPT ![i] = "done"]
    /\ IF mode = "gate" THEN Become(i, "eval", "done") ELSE UNCHANGED work
    /\ UNCHANGED <<bus, permits, runs, mode, score, harvests, halted>>

Evaluated(i) == eval[i] = "publishing" /\ Delivered(i, "evaluated") /\ EvalEnds(i)
EvalRaises(i) == eval[i] = "scoring" /\ EvalEnds(i)

\* QualityPolice records the score; mean or trend may call for a halt.
Record(i) ==
    /\ MayStart(i, "police")
    /\ Become(i, "police", "done")
    /\ halted' \in {halted, TRUE}
    /\ UNCHANGED <<bus, permits, runs, evals, harvests>>

-----------------------------------------------------------------------------
(***************************************************************************)
(* BlueprintHarvesterEngine and InMemoryRunCorrelator.                     *)
(***************************************************************************)

\* _observe_handler of TASK_STARTED or TASK_COMPLETED.
Correlate(i, h) ==
    /\ h \in {"goal", "output"} /\ MayStart(i, h)
    /\ Become(i, h, "done")
    /\ known' = [known EXCEPT ![i] = @ \cup {h}]
    /\ UNCHANGED <<bus, permits, runs, evals, lookups, harvest, halted>>

\* _trigger_handler, up to the policy.
Trigger(i) ==
    /\ MayStart(i, "harvest")
    /\ IF score[i] = "good"
       THEN /\ Become(i, "harvest", "running")
            /\ lookups' = [lookups EXCEPT ![i] = Lookups]
            /\ UNCHANGED harvest
       ELSE /\ Become(i, "harvest", "done")
            /\ harvest' = [harvest EXCEPT ![i] = "rejected"]
            /\ UNCHANGED lookups
    /\ UNCHANGED <<bus, permits, runs, evals, known, halted>>

HarvestEnds(i, outcome) ==
    /\ Become(i, "harvest", "done")
    /\ harvest' = [harvest EXCEPT ![i] = outcome]
    /\ lookups' = [lookups EXCEPT ![i] = 0]

(* Mutant: the first lookup is the last. *)
Lookup_Once(i) ==
    /\ work[i]["harvest"] = "running" /\ lookups[i] > 0
    /\ IF known[i] = {"goal", "output"}
       THEN \E outcome \in {"appended", "error"} : HarvestEnds(i, outcome)
       ELSE HarvestEnds(i, "uncorrelated")
    /\ UNCHANGED <<bus, permits, runs, evals, known, halted>>

\* _lookup_with_retry, and distiller and source if it succeeds.  Before a
\* lookup that is not the first it slept, and the event loop ran what was
\* ready.
Lookup(i) ==
    /\ work[i]["harvest"] = "running"
    /\ lookups[i] < Lookups => ~MayStart(i, "output")
    /\ IF known[i] = {"goal", "output"}
       THEN \E outcome \in {"appended", "error"} : HarvestEnds(i, outcome)
       ELSE IF lookups[i] = 1
       THEN HarvestEnds(i, "uncorrelated")
       ELSE lookups' = [lookups EXCEPT ![i] = @ - 1] /\ UNCHANGED <<work, harvest>>
    /\ UNCHANGED <<bus, permits, runs, evals, known, halted>>

-----------------------------------------------------------------------------

RunStep(d) == StartNode(d) \/ CompleteNode(d) \/ FailNode(d) \/ LeaveNode(d)
ItemStep(i) ==
    \/ HandleCompleted(i) \/ Observe(i) \/ Score(i) \/ Evaluated(i) \/ EvalRaises(i)
    \/ Record(i) \/ Trigger(i) \/ Lookup(i)
    \/ \E h \in {"goal", "output"} : Correlate(i, h)

RunsNext ==
    \/ StartWorkers \/ StopWorkers \/ Take
    \/ \E d \in Dags : Submit(d) \/ RunStep(d)
    \/ \E i \in Items : ItemStep(i)

RunsSpec == RunsInit /\ [][RunsNext]_runsVars

(***************************************************************************)
(* Nodes and evaluators end, and the event loop resumes what is ready: no  *)
(* item has more than a few steps.  Nobody need submit a DAG, start or     *)
(* stop workers.                                                           *)
(***************************************************************************)
RunsFairness ==
    /\ WF_runsVars(Take)
    /\ \A d \in Dags : WF_runsVars(RunStep(d))
    /\ \A i \in Items : WF_runsVars(ItemStep(i))

FairRunsSpec == RunsSpec /\ RunsFairness

-----------------------------------------------------------------------------
(***************************************************************************)
(* Properties.                                                             *)
(***************************************************************************)

\* The gate evaluations of some DAGs hold every permit of an AsyncEventBus
\* and publish a score, whose handlers wait for a permit.
Starved ==
    /\ bus = "async"
    /\ Cardinality({i \in Items : work[i]["eval"] = "running" /\ eval[i] = "publishing"}) = permits
    /\ permits <= Cardinality(Active)

\* The Future that submit_dag returns is resolved, unless workers are stopped
\* before or while the DAG runs, or the publishes nested in gate evaluations
\* starve: that needs as many runs in progress as the bus has permits.
SubmittedRunsResolve ==
    \A d \in Dags : future[d] = "pending"
        ~> future[d] = "resolved" \/ step[d] = "lost" \/ workers = 0 \/ Starved

\* A score that arrives before the output it is about drops the harvest only
\* where the retries of _lookup_with_retry cannot help: when there are none, as
\* a gate on the in-memory bus, where the output is observed after the
\* evaluation, when no permit gets free, or when the run that publishes the
\* output is cancelled.
DropsAreExplained ==
    [][\A i \in Items : harvest[i] = NotYet /\ harvest'[i] = "uncorrelated" =>
          \/ Lookups = 1
          \/ bus = "memory" /\ mode = "gate"
          \/ bus = "async" /\ Cardinality(Running) = permits
          \/ step[i[1]] = "lost"]_runsVars
=============================================================================

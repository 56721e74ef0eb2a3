----------------------- MODULE MCCheckpointingExecutor -----------------------
(***************************************************************************)
(* CheckpointingExecutor with two workers on a DAG of three nodes, with    *)
(* every setting of checkpoint_on_failure and of one retried node, at      *)
(* intervals 1 and 2.                                                      *)
(***************************************************************************)
EXTENDS CheckpointingExecutor, TLC

CONSTANTS a, b, c, w1, w2, r1

Three == <<a, b, c>>
TwoWorkers == {w1, w2}
SmallSetups == [retries: {{}, {b}}, interval: 1..2, onFailure: BOOLEAN]
WorkerSymmetry == Permutations(TwoWorkers)
=============================================================================

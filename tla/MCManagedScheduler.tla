------------------------- MODULE MCManagedScheduler -------------------------
(***************************************************************************)
(* ManagedScheduler with two workers, one of which is also asked to run    *)
(* the job by run_now.                                                     *)
(***************************************************************************)
EXTENDS ManagedScheduler

CONSTANTS w1, w2

TwoWorkers == {w1, w2}
ThreeTasks == {<<w1, "loop">>, <<w1, "now">>, <<w2, "loop">>}
AnyJob == [trigger: {"interval", "once"}, singleton: BOOLEAN]
=============================================================================

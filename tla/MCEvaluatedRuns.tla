--------------------------- MODULE MCEvaluatedRuns ---------------------------
(***************************************************************************)
(* A DAG of two nodes and a DAG of one.                                    *)
(***************************************************************************)
EXTENDS EvaluatedRuns, TLC

CONSTANTS d1, d2

MCDags == {d1, d2}
MCLength == (d1 :> 2) @@ (d2 :> 1)
MCItems == UNION {{d} \X (1..MCLength[d]) : d \in MCDags}
MCHandlersOf == [started |-> <<"goal">>, completed |-> <<"eval", "output">>,
                 evaluated |-> <<"police", "harvest">>]
=============================================================================

--------------------------- MODULE MCStateMachine ---------------------------
(***************************************************************************)
(* StateMachine with a document that is reviewed: a human caller and an    *)
(* agent, on one store object or on one each.                              *)
(***************************************************************************)
EXTENDS StateMachine, FiniteSets

CONSTANTS person, agent, db1, db2

TwoCallers == {person, agent}
OneHuman == {person}
TwoStores == {db1, db2}
SharedStore == [p \in TwoCallers |-> db1]
OwnStores == [p \in TwoCallers |-> IF p = person THEN db1 ELSE db2]
BothWays == {SharedStore, OwnStores}
Apart == {OwnStores}

T(from, event, to, hitl, kind) ==
    [from |-> from, event |-> event, to |-> to,
     requires_hitl |-> hitl, actor_kind |-> kind]

\* One transition for anybody, one each that needs a human and an agent, and
\* one that leaves a terminal state, which fire() must never take.
Review == {T("draft", "submit", "review", FALSE, "any"),
           T("review", "return", "draft", FALSE, "agent"),
           T("review", "approve", "done", TRUE, "any"),
           T("done", "reopen", "draft", FALSE, "any")}
=============================================================================

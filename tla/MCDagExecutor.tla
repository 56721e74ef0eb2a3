--------------------------- MODULE MCDagExecutor ---------------------------
(***************************************************************************)
(* DagExecutor on three small graphs.                                      *)
(***************************************************************************)
EXTENDS DagExecutor, TLC

CONSTANTS a, b, c, d, e

Rule(from, to, field) == [source |-> from, target |-> to, field |-> field, condition |-> "rule"]
Edge(from, to, cond) == [source |-> from, target |-> to, field |-> from, condition |-> cond]
NoInner(nodes) == [n \in nodes |-> <<>>]
NoRoutes(nodes) == [n \in nodes |-> {}]

\* a -> b -> c, and d after a, joined by e as soon as one of them is there.
Tasks == LET nodes == {a, b, c, d, e} IN
    [order |-> <<a, b, d, c, e>>,
     edges |-> {Edge(a, b, "always"), Edge(b, c, "on_success"), Rule(a, d, b),
                Edge(c, e, "always"), Edge(d, e, "on_success")},
     kind |-> [n \in nodes |-> "task"],
     inner |-> NoInner(nodes), routes |-> NoRoutes(nodes),
     retries |-> {}, anyJoin |-> {e}, moderated |-> {}, interval |-> 2]

\* A router a that picks condition b or task c, a checkpoint node d, and e.
Branches == LET nodes == {a, b, c, d, e} IN
    [order |-> <<a, b, c, d, e>>,
     edges |-> {Edge(a, b, "always"), Edge(a, c, "always"), Edge(b, d, "on_success"),
                Edge(c, e, "on_success"), Edge(d, e, "always")},
     kind |-> [n \in nodes |-> CASE n = a -> "router" [] n = b -> "conditional" [] n = d -> "checkpoint" [] OTHER -> "task"],
     inner |-> NoInner(nodes),
     routes |-> [n \in nodes |-> IF n = a THEN {<<TRUE, {b}>>, <<TRUE, {c}>>, <<FALSE, {}>>} ELSE {}],
     retries |-> {c}, anyJoin |-> {e}, moderated |-> {d}, interval |-> 2]

\* A parallel group a of b and c, then a loop d over e.
Groups == LET nodes == {a, b, c, d, e} IN
    [order |-> <<a, b, c, d, e>>,
     edges |-> {Edge(a, b, "always"), Edge(a, c, "always"), Edge(a, d, "on_success"),
                Edge(d, e, "always")},
     kind |-> [n \in nodes |-> CASE n = a -> "parallel" [] n = d -> "loop" [] OTHER -> "task"],
     inner |-> [n \in nodes |-> CASE n = a -> <<b, c>> [] n = d -> <<e>> [] OTHER -> <<>>],
     routes |-> NoRoutes(nodes),
     retries |-> {}, anyJoin |-> {}, moderated |-> {d}, interval |-> 3]

SmallGraphs == {Tasks, Branches, Groups}
OneGraph == {Tasks}
=============================================================================

--------------------------- MODULE MCRedisEventBus ---------------------------
(***************************************************************************)
(* RedisEventBus with a subscriber of the type and another, of the type or *)
(* of everything.                                                          *)
(***************************************************************************)
EXTENDS RedisEventBus

CONSTANTS audit, eval

TwoTasks == {audit, eval}
OneOrTwoOfType == {k \in [TwoTasks -> {"type", "all"}] : k[audit] = "type"}
=============================================================================

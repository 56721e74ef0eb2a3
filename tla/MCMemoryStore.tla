---------------------------- MODULE MCMemoryStore ----------------------------
(***************************************************************************)
(* MemoryStore with two tasks on one store and a third on another.         *)
(***************************************************************************)
EXTENDS MemoryStore

CONSTANTS a, b, c, s1, s2

ThreeCallers == {a, b, c}
TwoStores == {s1, s2}
Uses == [p \in ThreeCallers |-> IF p = c THEN s2 ELSE s1]
=============================================================================

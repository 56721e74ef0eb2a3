----------------------------- MODULE MCAgentRuns -----------------------------
(***************************************************************************)
(* AgentRuns with two runs in one task: one has a node below a PARALLEL    *)
(* node that an auction may give to another agent, and a council of two;   *)
(* the other a node of the same agent.                                     *)
(***************************************************************************)
EXTENDS AgentRuns

CONSTANTS run1, run2, writer, other, council, m1, m2

Roster == {writer, other, m1, m2}
AllRuns == {run1, run2}
SpawnRuns == [p \in Roster |-> IF p = other THEN run2 ELSE run1]
SpawnTasks == [p \in Roster |-> IF p \in {writer, other} THEN "task" ELSE "run1"]
AgentNodes == {writer, other}
Seats == [m \in {m1, m2} |-> council]
CouncilRuns == [c \in {council} |-> run1]
Order == [j \in {writer, other, council} |-> IF j = council THEN 2 ELSE 1]
Attempts == [j \in {writer, other, council} |-> IF j = other THEN 1 ELSE 2]
OnePeer == {writer}
AllAgents == {"A", "B", "M1", "M2"}
Refs == [p \in Roster |-> IF p = m1 THEN "M1" ELSE IF p = m2 THEN "M2" ELSE "A"]
Auction == [n \in AgentNodes |-> IF n = writer THEN {"A", "B"} ELSE {"A"}]
=============================================================================

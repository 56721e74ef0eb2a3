--------------------------- MODULE AgentIdentities ---------------------------
(***************************************************************************)
(* What the agent directory promises about identities, with lifecycle,     *)
(* sink, indexes and callers taken away: a spawn has at most one identity, *)
(* keeps it until its whole run is forgotten, and neither an instance id   *)
(* nor a display name is ever given out twice.                             *)
(*                                                                         *)
(* An abstract specification: AgentRuns is shown to implement it.          *)
(***************************************************************************)
CONSTANTS Spawns, Runs, RunOf, Nobody

VARIABLES
    identity,   \* the id and name each spawn goes by, or Nobody
    ids,        \* the ids given out so far
    names       \* the names given out so far

vars == <<identity, ids, names>>

Init ==
    /\ identity = [p \in Spawns |-> Nobody]
    /\ ids = {}
    /\ names = {}

Admit(p) ==
    LET new == identity'[p] IN
    /\ identity[p] = Nobody /\ new # Nobody
    /\ identity' = [identity EXCEPT ![p] = new]
    /\ new.id \notin ids /\ ids' = ids \cup {new.id}
    /\ new.name \notin names /\ names' = names \cup {new.name}

Forget(r) ==
    /\ identity' = [p \in Spawns |-> IF RunOf[p] = r THEN Nobody ELSE identity[p]]
    /\ UNCHANGED <<ids, names>>

\* Another process starts with an empty directory and the names from the
\* beginning; ids are never used again.
Restart ==
    /\ identity' = [p \in Spawns |-> Nobody]
    /\ names' = {}
    /\ UNCHANGED ids

Next ==
    \/ \E p \in Spawns : Admit(p)
    \/ \E r \in Runs : Forget(r)
    \/ Restart

Spec == Init /\ [][Next]_vars
=============================================================================

--------------------------- MODULE AgentDirectory ---------------------------
(***************************************************************************)
(* InMemoryAgentDirectory over an IdempotentEffectSink: the identities of  *)
(* the agents that a process spawns.  Both sinks of the repository publish *)
(* without a suspension, so admit, transition and dispose are atomic among *)
(* the tasks of the event loop.  AgentRuns has the callers.                *)
(*                                                                         *)
(* A spawn stands for its spawn key, run id and node or member slot, which *)
(* are functions of one another.  An instance id is the number of uuid4    *)
(* calls so far; the display name <agent>-<ordinal> is the pair.           *)
(***************************************************************************)
EXTENDS Naturals, FiniteSets

CONSTANTS
    Sinks,      \* the sinks a run covers: "memory", "file"
    Spawns,     \* the spawn keys
    Runs,       \* run ids
    RunOf,      \* the run a spawn key names
    TaskOf,     \* the task the spawn is admitted to
    Agents,
    None

ASSUME DirectoryAssumption ==
    /\ Sinks \subseteq {"memory", "file"}
    /\ RunOf \in [Spawns -> Runs]
    /\ None \notin Agents \cup Nat \cup {"COMPLETED", "FAILED", "CANCELLED"}

VARIABLES
    sink,       \* the kind of _effect_sink
    effects,    \* its entries: the agent in the payload of a spawn key
    instances,  \* _instances
    index,      \* _instance_by_spawn_key, and its inverse
    aliases,    \* _alias_index
    ordinals,   \* _ordinals
    minted      \* the uuids made so far

directory == <<sink, effects, instances, index, aliases, ordinals, minted>>

Tasks == {TaskOf[p] : p \in Spawns}
Terminal == {"COMPLETED", "FAILED", "CANCELLED"}

(* Mutant: a retry may take a failed instance up again. *)
Valid_Reopens ==
    [s \in {"QUEUED", "RUNNING", "COMPLETED", "FAILED"} |->
        CASE s = "QUEUED"  -> {"RUNNING", "FAILED"}
          [] s = "RUNNING" -> {"COMPLETED", "FAILED"}
          [] s = "FAILED"  -> {"RUNNING"}
          [] OTHER         -> {}]

\* _VALID_TRANSITIONS, with the statuses the repository's callers ask for.
Valid ==
    [s \in {"QUEUED", "RUNNING", "COMPLETED", "FAILED"} |->
        CASE s = "QUEUED"  -> {"RUNNING", "FAILED"}
          [] s = "RUNNING" -> {"COMPLETED", "FAILED"}
          [] OTHER         -> {}]

Without(f, S) == [x \in DOMAIN f \ S |-> f[x]]
With(f, x, v) == [y \in DOMAIN f \cup {x} |-> IF y = x THEN v ELSE f[y]]

DirectoryInit ==
    /\ sink \in Sinks
    /\ effects = [p \in Spawns |-> None]
    /\ instances = [i \in {} |-> None]
    /\ index = [p \in {} |-> 0]
    /\ aliases = [n \in {} |-> 0]
    /\ ordinals = [n \in Agents \X Tasks |-> 0]
    /\ minted = 0

-----------------------------------------------------------------------------

(* Mutant: the ordinal counts the agent's instances that are still there. *)
NextOrdinal_OfLive(p, a) ==
    Cardinality({i \in DOMAIN instances :
                    instances[i].agent = a /\ instances[i].task = TaskOf[p]}) + 1

NextOrdinal(p, a) == ordinals[<<a, TaskOf[p]>>] + 1

\* admit() of a spawn key the sink has never seen.
Create(p, a) ==
    LET id == minted + 1
        n == NextOrdinal(p, a)
    IN
    /\ effects[p] = None
    /\ effects' = [effects EXCEPT ![p] = a]
    /\ ordinals' = [ordinals EXCEPT ![<<a, TaskOf[p]>>] = n]
    /\ instances' = With(instances, id, [spawn |-> p, agent |-> a, task |-> TaskOf[p],
                                         ordinal |-> n, status |-> "QUEUED"])
    /\ index' = With(index, p, id)
    /\ aliases' = With(aliases, <<TaskOf[p], a, n>>, id)
    /\ minted' = id
    /\ UNCHANGED sink

\* What admit() returns of a key the sink has: the instance on file, or an
\* exception if the payload has another agent or the directory has forgotten
\* the key, which all callers swallow and go on without an identity.
Replay(p, a) == IF effects[p] = a /\ p \in DOMAIN index THEN index[p] ELSE None

\* transition(): an unknown instance or an invalid move raises, which all
\* callers swallow as well.
Move(i, to) ==
    /\ instances' = IF i \in DOMAIN instances /\ to \in Valid[instances[i].status]
                    THEN [instances EXCEPT ![i].status = to]
                    ELSE instances
    /\ UNCHANGED <<sink, effects, index, aliases, ordinals, minted>>

(* Mutant: the spawn keys are kept. *)
Dispose_KeepsKeys(r) ==
    LET stale == {i \in DOMAIN instances : RunOf[instances[i].spawn] = r}
    IN
    /\ instances' = Without(instances, stale)
    /\ aliases' = Without(aliases, {<<instances[i].task, instances[i].agent, instances[i].ordinal>> :
                                    i \in stale})
    /\ UNCHANGED <<sink, effects, index, ordinals, minted>>

(* Mutant: what is not over is kept. *)
Dispose_Settled(r) ==
    LET stale == {i \in DOMAIN instances : /\ RunOf[instances[i].spawn] = r
                                           /\ instances[i].status \in Terminal}
    IN
    /\ instances' = Without(instances, stale)
    /\ index' = Without(index, {instances[i].spawn : i \in stale})
    /\ aliases' = Without(aliases, {<<instances[i].task, instances[i].agent, instances[i].ordinal>> :
                                    i \in stale})
    /\ UNCHANGED <<sink, effects, ordinals, minted>>

Dispose(r) ==
    LET stale == {i \in DOMAIN instances : RunOf[instances[i].spawn] = r}
    IN
    /\ instances' = Without(instances, stale)
    /\ index' = Without(index, {instances[i].spawn : i \in stale})
    /\ aliases' = Without(aliases, {<<instances[i].task, instances[i].agent, instances[i].ordinal>> :
                                    i \in stale})
    /\ UNCHANGED <<sink, effects, ordinals, minted>>

\* The process is replaced: only the file sink outlives it.
Restart ==
    /\ effects' = IF sink = "file" THEN effects ELSE [p \in Spawns |-> None]
    /\ instances' = [i \in {} |-> None]
    /\ index' = [p \in {} |-> 0]
    /\ aliases' = [n \in {} |-> 0]
    /\ ordinals' = [n \in Agents \X Tasks |-> 0]
    /\ UNCHANGED <<sink, minted>>
=============================================================================

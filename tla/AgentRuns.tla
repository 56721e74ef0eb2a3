------------------------------ MODULE AgentRuns ------------------------------
(***************************************************************************)
(* The callers of the agent directory: DAG runs whose nodes are agents and *)
(* councils.                                                               *)
(*                                                                         *)
(* A node goes through DAGExecutor._execute_with_retry around              *)
(* ContextNodeExecutor.execute_node: admission, PRE interceptors, the      *)
(* loop of attempts and RECOVER hints around agent.run and the POST        *)
(* interceptors.  A council node runs AgentCouncil.decide: its members, a  *)
(* few at a time, deliberate in rounds.  A run ends in a finally clause    *)
(* that disposes its identities, and may be called again under its run id, *)
(* which is what resume() does.                                            *)
(***************************************************************************)
EXTENDS AgentDirectory

CONSTANTS
    Nodes,          \* the spawns that are agent nodes
    CouncilOf,      \* the council node each of the other spawns is a member of
    RunOfCouncil,   \* the run a council node belongs to
    Stage,          \* the place of a node or council in the DAG's order; those
                    \*   in one place are the children of a PARALLEL node
    Peers,          \* the agent nodes below a PARALLEL node
    RefId,          \* the agent a node names
    Bids,           \* the agents a node may resolve to: more than one by auction
    MaxAttempts,    \* node.max_retries of each
    MaxRecovery,    \* max_recovery_attempts
    MaxRounds,      \* CouncilConfig.rounds
    MaxConcurrency, \* CouncilConfig.max_concurrency
    MaxCalls,       \* bound: calls of executor.run
    MaxRestarts     \* bound: how often the process is replaced

Members == DOMAIN CouncilOf
Councils == DOMAIN RunOfCouncil

ASSUME RunsAssumption ==
    /\ Spawns = Nodes \cup Members /\ Nodes \cap Members = {}
    /\ CouncilOf \in [Members -> Councils]
    /\ RunOfCouncil \in [Councils -> Runs]
    /\ Councils \cap Spawns = {}
    /\ \A m \in Members : RunOf[m] = RunOfCouncil[CouncilOf[m]]
    /\ Stage \in [Nodes \cup Councils -> Nat]
    /\ Peers \subseteq Nodes
    /\ RefId \in [Spawns -> Agents]
    /\ Bids \in [Nodes -> SUBSET Agents]
    /\ MaxRounds \in Nat \ {0} /\ MaxConcurrency \in Nat \ {0}

\* To have no identity is not an identity.
ASSUME IdentityAssumption == None \notin [id : Nat, name : Tasks \X Agents \X Nat]

VARIABLES
    phase,      \* of each run: "idle" or "open"
    calls,      \* calls of executor.run so far, of all runs
    restarts,
    pc,         \* where each node, member and council is
    inst,       \* the instance id a node or member carries, or None
    tries,      \* attempts of _execute_with_retry left
    hints,      \* attempts_remaining of the recovery loop
    round,      \* the round a council is in
    ended       \* history: how the first dispatch of each instance that
                \*   ended by itself did so, or None

callers == <<phase, calls, restarts, pc, inst, tries, hints, round>>
vars == <<directory, callers, ended>>

Jobs == Spawns \cup Councils
JobRun == [j \in Jobs |-> IF j \in Spawns THEN RunOf[j] ELSE RunOfCouncil[j]]
MembersOf(c) == {m \in Members : CouncilOf[m] = c}
Deliberating(c) == {m \in MembersOf(c) : pc[m] \in {"seated", "deliberating"}}

Init ==
    /\ DirectoryInit
    /\ phase = [r \in Runs |-> "idle"]
    /\ calls = 0
    /\ restarts = 0
    /\ pc = [j \in Jobs |-> "done"]
    /\ inst = [p \in Spawns |-> None]
    /\ tries = [j \in Nodes \cup Councils |-> 0]
    /\ hints = [n \in Nodes |-> 0]
    /\ round = [c \in Councils |-> 0]
    /\ ended = [i \in {} |-> None]

-----------------------------------------------------------------------------
(***************************************************************************)
(* The steps that touch the directory.                                     *)
(***************************************************************************)

Goto(j, step) == pc' = [pc EXCEPT ![j] = step]

\* The jobs in S are over, and with them their local variables; a node or
\* council that failed goes on to the retries.
Over(S, step) ==
    /\ pc' = [j \in Jobs |-> IF j \notin S THEN pc[j] ELSE IF j \in Members THEN "done" ELSE step]
    /\ inst' = [p \in Spawns |-> IF p \in S THEN None ELSE inst[p]]
    /\ hints' = [n \in Nodes |-> IF n \in S THEN 0 ELSE hints[n]]
    /\ round' = [c \in Councils |-> IF c \in S THEN 0 ELSE round[c]]
    /\ tries' = [j \in Nodes \cup Councils |->
                    IF j \in S /\ step = "done" THEN 0 ELSE tries[j]]

\* A spawn is admitted as an agent and goes on with what it got.
Admitted(p, a) ==
    \/ Create(p, a) /\ inst' = [inst EXCEPT ![p] = minted'] /\ ended' = With(ended, minted', None)
    \/ /\ effects[p] # None
       /\ inst' = [inst EXCEPT ![p] = Replay(p, a)]
       /\ UNCHANGED <<directory, ended>>

\* A transition of the instance a dispatch carries, if it carries one.
Transition(i, to) == IF i = None THEN UNCHANGED directory ELSE Move(i, to)

\* The transition at the end of a dispatch.
Settle(i, to) ==
    /\ Transition(i, to)
    /\ ended' = IF i \in DOMAIN ended /\ ended[i] = None THEN [ended EXCEPT ![i] = to] ELSE ended

-----------------------------------------------------------------------------
(***************************************************************************)
(* The DAG run.                                                            *)
(***************************************************************************)

JobsOf(r) == {j \in Jobs : JobRun[j] = r}

\* run() or resume(): the nodes it is going to dispatch are those in S; on a
\* resume the others are done.
Call(r) ==
    /\ phase[r] = "idle" /\ calls < MaxCalls
    /\ calls' = calls + 1
    /\ phase' = [phase EXCEPT ![r] = "open"]
    /\ \E S \in SUBSET (JobsOf(r) \ Members) :
        /\ pc' = [j \in Jobs |-> IF j \notin S THEN pc[j]
                                 ELSE IF j \in Peers THEN "unadmitted" ELSE "ready"]
        /\ tries' = [j \in Nodes \cup Councils |-> IF j \in S THEN MaxAttempts[j] ELSE tries[j]]
    /\ UNCHANGED <<directory, restarts, inst, hints, round, ended>>

\* What comes earlier in the DAG is over.
Due(j) == \A k \in Nodes \cup Councils :
              JobRun[k] = JobRun[j] /\ Stage[k] < Stage[j] => pc[k] = "done"

\* No peer is dispatched before all of them are admitted.
PeersAdmitted(n) == \A k \in Peers :
                        RunOf[k] = RunOf[n] /\ Stage[k] = Stage[n] => pc[k] # "unadmitted"

\* _preadmit_parallel_peers: under the agent the node names.
Preadmit(n) ==
    /\ pc[n] = "unadmitted" /\ Due(n)
    /\ \/ Create(n, RefId[n]) /\ ended' = With(ended, minted', None)
       \/ effects[n] # None /\ UNCHANGED <<directory, ended>>
    /\ Goto(n, "ready")
    /\ UNCHANGED <<phase, calls, restarts, inst, tries, hints, round>>

\* The run ends early: a failed node ends it, or its task is cancelled and
\* with it what it awaits.
EndEarly(r) ==
    /\ phase[r] = "open"
    /\ Over(JobsOf(r), "done")
    /\ UNCHANGED <<directory, phase, calls, restarts, ended>>

\* The finally clause of executor.run.
Return(r) ==
    /\ phase[r] = "open"
    /\ \A j \in Jobs : JobRun[j] = r => pc[j] = "done"
    /\ Dispose(r)
    /\ ended' = [i \in DOMAIN instances' |-> ended[i]]
    /\ phase' = [phase EXCEPT ![r] = "idle"]
    /\ UNCHANGED <<calls, restarts, pc, inst, tries, hints, round>>

\* The process dies.  The runs may be called again in the next one.
Die ==
    /\ restarts < MaxRestarts
    /\ restarts' = restarts + 1
    /\ Restart
    /\ phase' = [r \in Runs |-> "idle"]
    /\ Over(Jobs, "done")
    /\ ended' = [i \in {} |-> None]
    /\ UNCHANGED calls

-----------------------------------------------------------------------------
(***************************************************************************)
(* An agent node.                                                          *)
(***************************************************************************)

\* Nothing is admitted: there is no such agent, its goal cannot be built, the
\* council has no members or options, or the node runs out of time before.
FailEarly(j) ==
    /\ pc[j] = "ready" /\ Due(j)
    /\ j \in Nodes => PeersAdmitted(j)
    /\ Over({j}, "failed")
    /\ UNCHANGED <<directory, phase, calls, restarts, ended>>

\* execute_node up to the admission, as the agent the node resolves to.
Dispatch(n) ==
    /\ pc[n] = "ready" /\ Due(n) /\ PeersAdmitted(n)
    /\ \E a \in Bids[n] : Admitted(n, a)
    /\ Goto(n, "gate")
    /\ hints' = [hints EXCEPT ![n] = MaxRecovery]
    /\ UNCHANGED <<phase, calls, restarts, tries, round>>

\* A PRE interceptor rejects the node, which is then not tried again.
RejectBefore(n) ==
    /\ pc[n] = "gate"
    /\ Settle(inst[n], "FAILED")
    /\ Over({n}, "done")
    /\ UNCHANGED <<phase, calls, restarts>>

Attempt(n) ==
    /\ pc[n] = "gate"
    /\ Transition(inst[n], "RUNNING")
    /\ Goto(n, "running")
    /\ UNCHANGED <<phase, calls, restarts, inst, tries, hints, round, ended>>

\* agent.run returns a failure or raises.
AgentFails(n) ==
    /\ pc[n] = "running"
    /\ Settle(inst[n], "FAILED")
    /\ Over({n}, "failed")
    /\ UNCHANGED <<phase, calls, restarts>>

AgentSucceeds(n) ==
    /\ pc[n] = "running"
    /\ Goto(n, "checking")
    /\ UNCHANGED <<directory, phase, calls, restarts, inst, tries, hints, round, ended>>

\* The POST interceptors accept the result or reject it.  A rejected node has
\* failed and is not tried again, but its instance completed all the same; so
\* has one whose accepted result moderation blocks, which is tried again.
Deliver(n) ==
    /\ pc[n] = "checking"
    /\ Settle(inst[n], "COMPLETED")
    /\ Over({n}, "done") \/ Over({n}, "failed")
    /\ UNCHANGED <<phase, calls, restarts>>

\* A POST interceptor asks for another attempt with a hint.
Recover(n) ==
    /\ pc[n] = "checking" /\ hints[n] > 0
    /\ hints' = [hints EXCEPT ![n] = @ - 1]
    /\ Transition(inst[n], "RUNNING")
    /\ Goto(n, "running")
    /\ UNCHANGED <<phase, calls, restarts, inst, tries, round, ended>>

Exhausted(n) ==
    /\ pc[n] = "checking" /\ hints[n] = 0
    /\ Settle(inst[n], "FAILED")
    /\ Over({n}, "done")
    /\ UNCHANGED <<phase, calls, restarts>>

-----------------------------------------------------------------------------
(***************************************************************************)
(* A council node and its members.                                         *)
(***************************************************************************)

\* Every member of c goes to a step, and c itself to another.
Council(c, own, members) ==
    pc' = [j \in Jobs |-> IF j = c THEN own ELSE IF j \in MembersOf(c) THEN members ELSE pc[j]]

Convene(c) ==
    /\ pc[c] = "ready" /\ Due(c)
    /\ Council(c, "sitting", "waiting")
    /\ round' = [round EXCEPT ![c] = 1]
    /\ UNCHANGED <<directory, phase, calls, restarts, inst, tries, hints, ended>>

\* A member gets a permit of the semaphore and is admitted.
Seat(m) ==
    /\ pc[m] = "waiting"
    /\ Cardinality(Deliberating(CouncilOf[m])) < MaxConcurrency
    /\ Admitted(m, RefId[m])
    /\ Goto(m, "seated")
    /\ UNCHANGED <<phase, calls, restarts, tries, hints, round>>

Deliberate(m) ==
    /\ pc[m] = "seated"
    /\ Transition(inst[m], "RUNNING")
    /\ Goto(m, "deliberating")
    /\ UNCHANGED <<phase, calls, restarts, inst, tries, hints, round, ended>>

\* It votes, or abstains because it raised or ran out of time.
Vote(m) ==
    /\ pc[m] = "deliberating"
    /\ Goto(m, "voted")
    /\ inst' = [inst EXCEPT ![m] = None]
    /\ UNCHANGED <<directory, phase, calls, restarts, tries, hints, round, ended>>

AllVoted(c) == pc[c] = "sitting" /\ \A m \in MembersOf(c) : pc[m] = "voted"

NextRound(c) ==
    /\ AllVoted(c) /\ round[c] < MaxRounds
    /\ Council(c, "sitting", "waiting")
    /\ round' = [round EXCEPT ![c] = @ + 1]
    /\ UNCHANGED <<directory, phase, calls, restarts, inst, tries, hints, ended>>

\* The last round is over, or a later one confirmed the tally of the one before.
Decide(c) ==
    /\ AllVoted(c) /\ (round[c] = MaxRounds \/ round[c] > 1)
    /\ Goto(c, "closing")
    /\ UNCHANGED <<directory, phase, calls, restarts, inst, tries, hints, round, ended>>

\* _complete_members admits each member again, which at this point is a replay.
Complete(m) ==
    /\ pc[CouncilOf[m]] = "closing" /\ pc[m] = "voted"
    /\ Settle(Replay(m, RefId[m]), "COMPLETED")
    /\ Over({m}, "done")
    /\ UNCHANGED <<phase, calls, restarts>>

Decided(c) ==
    /\ pc[c] = "closing" /\ \A m \in MembersOf(c) : pc[m] = "done"
    /\ Over({c}, "done")
    /\ UNCHANGED <<directory, phase, calls, restarts, ended>>

-----------------------------------------------------------------------------
(***************************************************************************)
(* The retries of either.                                                  *)
(***************************************************************************)

\* The node runs out of time, or the council's aggregation raises: whatever
\* the node awaited is cancelled, and the instances stay as they are.
Interrupt(j) ==
    /\ pc[j] \in {"gate", "running", "checking", "sitting"}
    /\ Over({j} \cup {m \in Members : CouncilOf[m] = j}, "failed")
    /\ UNCHANGED <<directory, phase, calls, restarts, ended>>

Retry(j) ==
    /\ pc[j] = "failed" /\ tries[j] > 1
    /\ tries' = [tries EXCEPT ![j] = @ - 1]
    /\ Goto(j, "ready")
    /\ UNCHANGED <<directory, phase, calls, restarts, inst, hints, round, ended>>

\* No attempt is left, or healing is exhausted.
GiveUp(j) ==
    /\ pc[j] = "failed"
    /\ Over({j}, "done")
    /\ UNCHANGED <<directory, phase, calls, restarts, ended>>

-----------------------------------------------------------------------------

NodeStep(n) ==
    \/ Preadmit(n) \/ FailEarly(n) \/ Dispatch(n) \/ RejectBefore(n) \/ Attempt(n)
    \/ AgentFails(n) \/ AgentSucceeds(n)
    \/ Deliver(n) \/ Recover(n) \/ Exhausted(n)
MemberStep(m) == Seat(m) \/ Deliberate(m) \/ Vote(m) \/ Complete(m)
CouncilStep(c) == FailEarly(c) \/ Convene(c) \/ NextRound(c) \/ Decide(c) \/ Decided(c)
RetryStep(j) == Retry(j) \/ GiveUp(j)

Next ==
    \/ \E r \in Runs : Call(r) \/ EndEarly(r) \/ Return(r)
    \/ \E n \in Nodes : NodeStep(n)
    \/ \E m \in Members : MemberStep(m)
    \/ \E c \in Councils : CouncilStep(c)
    \/ \E j \in Nodes \cup Councils : Interrupt(j) \/ RetryStep(j)
    \/ Die

Spec == Init /\ [][Next]_vars

(***************************************************************************)
(* Agents, interceptors and members answer or run out of time, the event   *)
(* loop resumes what is ready, and executor.run gets to its finally        *)
(* clause.  Nobody need call it again, cancel it or kill it.               *)
(***************************************************************************)
Fairness ==
    /\ \A n \in Nodes : WF_vars(NodeStep(n) \/ RetryStep(n))
    /\ \A m \in Members : WF_vars(MemberStep(m))
    /\ \A c \in Councils : WF_vars(CouncilStep(c) \/ RetryStep(c))
    /\ \A r \in Runs : WF_vars(Return(r))

FairSpec == Spec /\ Fairness

-----------------------------------------------------------------------------
(***************************************************************************)
(* Properties.                                                             *)
(***************************************************************************)

NameOf(i) == <<instances[i].task, instances[i].agent, instances[i].ordinal>>

\* Instance id, spawn key and display name lead to the same instance, whatever
\* runs share the task and come and go (directory.py admit, get, dispose).
HandlesResolve ==
    /\ DOMAIN index = {instances[i].spawn : i \in DOMAIN instances}
    /\ DOMAIN aliases = {NameOf(i) : i \in DOMAIN instances}
    /\ \A i \in DOMAIN instances :
        index[instances[i].spawn] = i /\ aliases[NameOf(i)] = i

\* The directory shows an instance as over exactly if a dispatch of its spawn
\* ended by itself, and shows how the first one did: neither a retry of the
\* DAG executor, nor a later council round, nor a dispatch of the next call
\* under the run id changes that, and no dispatch reports on an instance that
\* is not its own (directory.py:20-44, context_node_executor.py:614-630).
StatusIsTheFirstOutcome ==
    \A i \in DOMAIN instances :
        ended[i] = IF instances[i].status \in Terminal THEN instances[i].status ELSE None

Identity(p) == IF p \in DOMAIN index THEN [id |-> index[p], name |-> NameOf(index[p])] ELSE None

Identities == INSTANCE AgentIdentities WITH
    Nobody <- None,
    identity <- [p \in Spawns |-> Identity(p)],
    ids <- 1..minted,
    names <- UNION {{<<s[2], s[1], n>> : n \in 1..ordinals[s]} : s \in Agents \X Tasks}

\* A spawn keeps one id and one name until the run is disposed, and neither is
\* ever given to another spawn, in this run or a later one of the process
\* (directory.py:90-122 and dispose).
ImplementsIdentities == Identities!Spec

Settled(p) == p \in DOMAIN index => instances[index[p]].status \in Terminal

\* Every spawn's instance ends up in a terminal state or is disposed: those
\* whose node timed out or was cancelled, that lost an auction or whose council
\* never decided, are left RUNNING or QUEUED and go with the run
\* (executor.py:1154).
EveryInstanceIsSettled == \A p \in Spawns : []<>Settled(p)
=============================================================================

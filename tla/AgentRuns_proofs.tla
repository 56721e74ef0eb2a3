--------------------------- MODULE AgentRuns_proofs ---------------------------
(***************************************************************************)
(* Proofs about AgentRuns, for any runs, spawns, agents, orders and        *)
(* bounds.  The argument has two halves: what the directory keeps together *)
(* by itself, whoever calls it; and what the callers know of the instances *)
(* that they report on.                                                    *)
(***************************************************************************)
EXTENDS AgentRuns, FiniteSetTheorems, TLAPS

-----------------------------------------------------------------------------
(***************************************************************************)
(* The inductive invariant.                                                *)
(***************************************************************************)

Statuses == {"QUEUED", "RUNNING", "COMPLETED", "FAILED"}

Instance == [spawn : Spawns, agent : Agents, task : Tasks, ordinal : Nat, status : Statuses]

DirectoryTypes ==
    /\ effects \in [Spawns -> Agents \cup {None}]
    /\ minted \in Nat
    /\ ordinals \in [Agents \X Tasks -> Nat]
    /\ instances \in [DOMAIN instances -> Instance]
    /\ DOMAIN instances \subseteq 1..minted

\* No instance has a name that is yet to be given.
NamesAreCounted ==
    \A i \in DOMAIN instances :
        /\ instances[i].task = TaskOf[instances[i].spawn]
        /\ instances[i].ordinal \in 1..ordinals[<<instances[i].agent, instances[i].task>>]

\* What the directory knows of a spawn, the sink knows too.
KeysAreSunk == \A p \in DOMAIN index : effects[p] # None

DirectoryInv == DirectoryTypes /\ NamesAreCounted /\ KeysAreSunk /\ HandlesResolve

CallerTypes ==
    /\ DOMAIN pc = Jobs
    /\ DOMAIN inst = Spawns
    /\ \A p \in Spawns : inst[p] \in 1..minted \cup {None}

\* The members of a council are admitted as what they are, and the history is
\* that of the instances there are.
RecordsFit ==
    /\ \A m \in Members : effects[m] \in {None, RefId[m]}
    /\ DOMAIN ended = DOMAIN instances

\* If i is still there, its dispatch has begun.
Begun(i) == i \in DOMAIN instances => instances[i].status # "QUEUED"

\* A node whose agent runs or ran carries an instance that has begun.
NodesHaveBegun == \A n \in Nodes : pc[n] \in {"running", "checking"} => Begun(inst[n])

\* A member that is seated carries its instance, and one that deliberates or
\* voted has begun it.
MembersHaveBegun ==
    \A m \in Members :
        m \in DOMAIN index =>
            /\ pc[m] = "seated" => inst[m] = index[m]
            /\ pc[m] \in {"deliberating", "voted"} => Begun(index[m])

IInv ==
    /\ DirectoryInv
    /\ CallerTypes
    /\ RecordsFit
    /\ NodesHaveBegun
    /\ MembersHaveBegun
    /\ StatusIsTheFirstOutcome

-----------------------------------------------------------------------------
(***************************************************************************)
(* The operations of the directory.                                        *)
(***************************************************************************)

\* Admission gives out a new id and a new name.
LEMMA NewHandles ==
    ASSUME DirectoryInv, NEW p \in Spawns, NEW a \in Agents, Create(p, a)
    PROVE  /\ minted + 1 \notin DOMAIN instances
           /\ p \notin DOMAIN index
           /\ ordinals[<<a, TaskOf[p]>>] \in Nat
           /\ TaskOf[p] \in Tasks
           /\ <<TaskOf[p], a, NextOrdinal(p, a)>> \notin DOMAIN aliases
<1>1. minted + 1 \notin DOMAIN instances /\ p \notin DOMAIN index
    BY DEF DirectoryInv, DirectoryTypes, KeysAreSunk, Create
<1>2. TaskOf[p] \in Tasks /\ ordinals[<<a, TaskOf[p]>>] \in Nat
    BY DEF DirectoryInv, DirectoryTypes, Tasks
<1>3. ASSUME NEW i \in DOMAIN instances, NameOf(i) = <<TaskOf[p], a, NextOrdinal(p, a)>>
      PROVE  FALSE
    BY <1>2, <1>3 DEF NameOf, NextOrdinal, DirectoryInv, NamesAreCounted
<1> QED
    BY <1>1, <1>2, <1>3 DEF DirectoryInv, HandlesResolve

\* What admission makes of the instances.
LEMMA CreatedInstances ==
    ASSUME DirectoryInv, NEW p \in Spawns, NEW a \in Agents, Create(p, a)
    PROVE  /\ minted' = minted + 1
           /\ DOMAIN instances' = DOMAIN instances \cup {minted'}
           /\ instances'[minted'] = [spawn |-> p, agent |-> a, task |-> TaskOf[p],
                                     ordinal |-> NextOrdinal(p, a), status |-> "QUEUED"]
           /\ \A i \in DOMAIN instances : instances'[i] = instances[i] /\ i # minted'
           /\ DOMAIN index' = DOMAIN index \cup {p} /\ index'[p] = minted'
           /\ \A q \in DOMAIN index : index'[q] = index[q]
BY NewHandles DEF Create, With

LEMMA CreateKeeps ==
    ASSUME DirectoryInv, NEW p \in Spawns, NEW a \in Agents, Create(p, a)
    PROVE  DirectoryInv'
<1> DEFINE n == NextOrdinal(p, a)
           t == TaskOf[p]
           name == <<t, a, n>>
<1>1. /\ minted + 1 \notin DOMAIN instances /\ p \notin DOMAIN index
      /\ ordinals[<<a, t>>] \in Nat /\ t \in Tasks /\ name \notin DOMAIN aliases
    BY NewHandles
<1>2. n = ordinals[<<a, t>>] + 1 /\ n \in Nat /\ n \in 1..n
    BY <1>1 DEF NextOrdinal
<1>3. /\ minted' = minted + 1
      /\ DOMAIN instances' = DOMAIN instances \cup {minted'}
      /\ instances'[minted'] = [spawn |-> p, agent |-> a, task |-> t,
                                ordinal |-> n, status |-> "QUEUED"]
      /\ \A i \in DOMAIN instances : instances'[i] = instances[i] /\ i # minted'
      /\ DOMAIN index' = DOMAIN index \cup {p} /\ index'[p] = minted'
      /\ \A q \in DOMAIN index : index'[q] = index[q]
    BY CreatedInstances
<1>4. DirectoryTypes'
    <2>1. effects' \in [Spawns -> Agents \cup {None}] /\ minted' \in Nat
        BY DEF Create, DirectoryInv, DirectoryTypes
    <2>2. ordinals' \in [Agents \X Tasks -> Nat]
        BY <1>1, <1>2 DEF Create, DirectoryInv, DirectoryTypes
    <2>3. instances' \in [DOMAIN instances' -> Instance]
        <3>1. [spawn |-> p, agent |-> a, task |-> t, ordinal |-> n, status |-> "QUEUED"] \in Instance
            BY <1>1, <1>2 DEF Instance, Statuses
        <3>2. \A i \in DOMAIN instances : instances[i] \in Instance
            BY DEF DirectoryInv, DirectoryTypes
        <3> QED
            BY <3>1, <3>2 DEF Create, With
    <2>4. DOMAIN instances' \subseteq 1..minted'
        BY <1>3 DEF DirectoryInv, DirectoryTypes
    <2> QED
        BY <2>1, <2>2, <2>3, <2>4 DEF DirectoryTypes
<1>5. NamesAreCounted'
    <2>1. /\ ordinals'[<<a, t>>] = n
          /\ \A b \in Agents, u \in Tasks :
                ordinals'[<<b, u>>] \in Nat /\ ordinals[<<b, u>>] \in Nat /\ ordinals'[<<b, u>>] >= ordinals[<<b, u>>]
        BY <1>1, <1>2 DEF Create, DirectoryInv, DirectoryTypes
    <2>2. ASSUME NEW i \in DOMAIN instances
          PROVE  /\ instances[i].agent \in Agents /\ instances[i].task \in Tasks
                 /\ instances[i].ordinal \in Nat
        BY DEF DirectoryInv, DirectoryTypes, Instance
    <2>3. ASSUME NEW i \in DOMAIN instances
          PROVE  /\ instances'[i].task = TaskOf[instances'[i].spawn]
                 /\ instances'[i].ordinal \in 1..ordinals'[<<instances'[i].agent, instances'[i].task>>]
        BY <1>3, <2>1, <2>2 DEF DirectoryInv, NamesAreCounted
    <2> QED
        BY <1>2, <1>3, <2>1, <2>3 DEF NamesAreCounted
<1>6. KeysAreSunk'
    BY <1>3, DirectoryAssumption DEF Create, KeysAreSunk, DirectoryInv, DirectoryTypes
<1>7. HandlesResolve'
    <2>1. /\ DOMAIN aliases' = DOMAIN aliases \cup {name} /\ aliases'[name] = minted'
          /\ \A m \in DOMAIN aliases : aliases'[m] = aliases[m]
        BY <1>1, <1>3 DEF Create, With
    <2>2. /\ \A i : i = minted' => NameOf(i)' = name
          /\ \A i \in DOMAIN instances : NameOf(i)' = NameOf(i)
        BY <1>3 DEF NameOf
    <2>3. DOMAIN index' = {instances'[i].spawn : i \in DOMAIN instances'}
        BY <1>3 DEF DirectoryInv, HandlesResolve
    <2>4. DOMAIN aliases' = {NameOf(i)' : i \in DOMAIN instances'}
        <3>1. DOMAIN aliases = {NameOf(i) : i \in DOMAIN instances}
            BY DEF DirectoryInv, HandlesResolve
        <3>2. \A x : x \in {NameOf(i)' : i \in DOMAIN instances'} <=>
                        x = name \/ x \in {NameOf(i) : i \in DOMAIN instances}
            BY <1>3, <2>2
        <3> QED
            BY <2>1, <3>1, <3>2
    <2>5. ASSUME NEW i \in DOMAIN instances'
          PROVE  index'[instances'[i].spawn] = i /\ aliases'[NameOf(i)'] = i
        <3>1. CASE i = minted'
            BY <1>3, <2>1, <2>2, <3>1
        <3>2. CASE i \in DOMAIN instances
            <4>1. /\ index[instances[i].spawn] = i /\ instances[i].spawn \in DOMAIN index
                  /\ aliases[NameOf(i)] = i /\ NameOf(i) \in DOMAIN aliases
                BY <3>2 DEF DirectoryInv, HandlesResolve
            <4> QED
                BY <1>3, <2>1, <2>2, <3>2, <4>1
        <3> QED
            BY <1>3, <3>1, <3>2
    <2> QED
        BY <2>3, <2>4, <2>5 DEF HandlesResolve, NameOf
<1> QED
    BY <1>4, <1>5, <1>6, <1>7 DEF DirectoryInv

\* What a transition makes of the instances: at most one changes its status,
\* which was not terminal and does not go back.
LEMMA MovedInstances ==
    ASSUME DirectoryInv, NEW i, NEW to \in {"RUNNING", "COMPLETED", "FAILED"}, Move(i, to)
    PROVE  \/ instances' = instances
           \/ /\ i \in DOMAIN instances /\ instances[i].status \notin Terminal
              /\ DOMAIN instances' = DOMAIN instances
              /\ instances'[i] \in Instance /\ instances'[i].status = to
              /\ instances'[i].spawn = instances[i].spawn /\ instances'[i].agent = instances[i].agent
              /\ instances'[i].task = instances[i].task /\ instances'[i].ordinal = instances[i].ordinal
              /\ \A j \in DOMAIN instances : j # i => instances'[j] = instances[j]
<1>1. \A j \in DOMAIN instances : instances[j] \in Instance
    BY DEF DirectoryInv, DirectoryTypes
<1>2. CASE i \in DOMAIN instances /\ to \in Valid[instances[i].status]
    <2>1. instances' = [instances EXCEPT ![i].status = to]
        BY <1>2 DEF Move
    <2>2. instances[i].status \notin Terminal
        BY <1>1, <1>2 DEF Valid, Instance, Statuses, Terminal
    <2>3. instances[i] \in Instance
        BY <1>1, <1>2
    <2> QED
        BY <1>2, <2>1, <2>2, <2>3 DEF Instance, Statuses
<1>3. CASE ~(i \in DOMAIN instances /\ to \in Valid[instances[i].status])
    BY <1>3 DEF Move
<1> QED
    BY <1>2, <1>3

\* A transition that is asked for takes place, unless the instance is over or
\* would complete without having run.
LEMMA MovesTakePlace ==
    ASSUME DirectoryInv, NEW to \in {"RUNNING", "COMPLETED", "FAILED"},
           NEW i \in DOMAIN instances, Move(i, to), instances[i].status \notin Terminal,
           to = "COMPLETED" => instances[i].status # "QUEUED"
    PROVE  instances'[i].status = to
<1>1. instances[i] \in Instance
    BY DEF DirectoryInv, DirectoryTypes
<1>2. CASE to \in Valid[instances[i].status]
    <2>1. instances' = [instances EXCEPT ![i].status = to]
        BY <1>2 DEF Move
    <2> QED
        BY <1>1, <2>1 DEF Instance
<1>3. CASE to \notin Valid[instances[i].status]
    <2>1. instances' = instances
        BY <1>3 DEF Move
    <2>2. instances[i].status = to
        BY <1>1, <1>3 DEF Valid, Instance, Statuses, Terminal
    <2> QED
        BY <2>1, <2>2
<1> QED
    BY <1>2, <1>3

LEMMA MoveKeeps ==
    ASSUME DirectoryInv, NEW i, NEW to \in {"RUNNING", "COMPLETED", "FAILED"}, Move(i, to)
    PROVE  DirectoryInv'
<1>1. \A j \in DOMAIN instances : instances[j] \in Instance
    BY DEF DirectoryInv, DirectoryTypes
<1>2. /\ effects' = effects /\ index' = index /\ aliases' = aliases
      /\ ordinals' = ordinals /\ minted' = minted
      /\ DOMAIN instances' = DOMAIN instances
    BY MovedInstances DEF Move
<1>3. ASSUME NEW j \in DOMAIN instances
      PROVE  /\ instances'[j] \in Instance
             /\ instances'[j].spawn = instances[j].spawn /\ instances'[j].agent = instances[j].agent
             /\ instances'[j].task = instances[j].task /\ instances'[j].ordinal = instances[j].ordinal
    BY <1>1, MovedInstances
<1>4. DirectoryTypes'
    <2>1. instances' \in [DOMAIN instances -> Instance]
        BY <1>1 DEF Move, Instance, Statuses, DirectoryInv, DirectoryTypes
    <2> QED
        BY <1>2, <2>1 DEF DirectoryInv, DirectoryTypes
<1>5. \A j \in DOMAIN instances : NameOf(j)' = NameOf(j)
    BY <1>3 DEF NameOf
<1>6. NamesAreCounted' /\ KeysAreSunk'
    BY <1>2, <1>3 DEF DirectoryInv, NamesAreCounted, KeysAreSunk
<1>7. HandlesResolve'
    <2>1. {instances'[j].spawn : j \in DOMAIN instances'} = {instances[j].spawn : j \in DOMAIN instances}
        BY <1>2, <1>3
    <2>2. {NameOf(j)' : j \in DOMAIN instances'} = {NameOf(j) : j \in DOMAIN instances}
        BY <1>2, <1>5
    <2>3. \A j \in DOMAIN instances' : index'[instances'[j].spawn] = j /\ aliases'[NameOf(j)'] = j
        BY <1>2, <1>3, <1>5 DEF DirectoryInv, HandlesResolve
    <2> QED
        BY <1>2, <2>1, <2>2, <2>3 DEF DirectoryInv, HandlesResolve, NameOf
<1> QED
    BY <1>4, <1>6, <1>7 DEF DirectoryInv

\* What disposal leaves: the instances of the other runs, as they were.
LEMMA DisposedInstances ==
    ASSUME DirectoryInv, NEW r \in Runs, Dispose(r)
    PROVE  /\ DOMAIN instances' = {i \in DOMAIN instances : RunOf[instances[i].spawn] # r}
           /\ \A i \in DOMAIN instances' : instances'[i] = instances[i]
           /\ DOMAIN index' = {p \in DOMAIN index : RunOf[p] # r}
           /\ \A p \in DOMAIN index' : index'[p] = index[p]
<1> DEFINE stale == {i \in DOMAIN instances : RunOf[instances[i].spawn] = r}
<1>1. /\ instances' = Without(instances, stale)
      /\ index' = Without(index, {instances[i].spawn : i \in stale})
    BY DEF Dispose
<1>2. \A p \in DOMAIN index : \E i \in DOMAIN instances : p = instances[i].spawn
    BY DEF DirectoryInv, HandlesResolve
<1>3. DOMAIN index \ {instances[i].spawn : i \in stale} = {p \in DOMAIN index : RunOf[p] # r}
    BY <1>2
<1> QED
    BY <1>1, <1>3 DEF Without

LEMMA DisposeKeeps ==
    ASSUME DirectoryInv, NEW r \in Runs, Dispose(r)
    PROVE  DirectoryInv'
<1> DEFINE stale == {i \in DOMAIN instances : RunOf[instances[i].spawn] = r}
           names == {<<instances[i].task, instances[i].agent, instances[i].ordinal>> : i \in stale}
<1>1. /\ effects' = effects /\ ordinals' = ordinals /\ minted' = minted
      /\ instances' = Without(instances, stale) /\ aliases' = Without(aliases, names)
    BY DEF Dispose
<1>2. /\ DOMAIN instances' = DOMAIN instances \ stale
      /\ \A i \in DOMAIN instances' : i \in DOMAIN instances /\ instances'[i] = instances[i]
      /\ DOMAIN index' = {p \in DOMAIN index : RunOf[p] # r}
      /\ \A p \in DOMAIN index' : index'[p] = index[p]
    BY DisposedInstances
<1>3. DirectoryTypes'
    <2>1. instances' \in [DOMAIN instances' -> Instance]
        BY <1>1, <1>2 DEF Without, DirectoryInv, DirectoryTypes
    <2> QED
        BY <1>1, <1>2, <2>1 DEF DirectoryInv, DirectoryTypes
<1>4. NamesAreCounted' /\ KeysAreSunk'
    BY <1>1, <1>2 DEF DirectoryInv, NamesAreCounted, KeysAreSunk
<1>5. HandlesResolve'
    <2>1. /\ DOMAIN index = {instances[i].spawn : i \in DOMAIN instances}
          /\ DOMAIN aliases = {NameOf(i) : i \in DOMAIN instances}
          /\ \A i \in DOMAIN instances : index[instances[i].spawn] = i /\ aliases[NameOf(i)] = i
        BY DEF DirectoryInv, HandlesResolve
    <2>2. \A i \in DOMAIN instances' : NameOf(i)' = NameOf(i)
        BY <1>2 DEF NameOf
    <2>3. names = {NameOf(i) : i \in stale}
        BY DEF NameOf
    <2>4. ASSUME NEW i \in DOMAIN instances'
          PROVE  /\ instances[i].spawn \in DOMAIN index'
                 /\ NameOf(i) \notin {NameOf(j) : j \in stale}
        <3>1. i \in DOMAIN instances /\ i \notin stale
            BY <1>2
        <3>2. \A j \in stale : NameOf(j) # NameOf(i)
            BY <2>1, <3>1
        <3> QED
            BY <1>2, <2>1, <3>1, <3>2
    <2>5. DOMAIN aliases' = DOMAIN aliases \ names /\ \A m \in DOMAIN aliases' : aliases'[m] = aliases[m]
        BY <1>1 DEF Without
    <2>6. DOMAIN index' = {instances'[i].spawn : i \in DOMAIN instances'}
        BY <1>2, <2>1, <2>4
    <2>7. DOMAIN aliases' = {NameOf(i)' : i \in DOMAIN instances'}
        <3>1. \A m \in DOMAIN aliases' : \E i \in DOMAIN instances' : m = NameOf(i)'
            BY <1>2, <2>1, <2>2, <2>3, <2>5
        <3>2. \A i \in DOMAIN instances' : NameOf(i)' \in DOMAIN aliases'
            BY <1>2, <2>1, <2>2, <2>3, <2>4, <2>5
        <3> QED
            BY <3>1, <3>2
    <2>8. \A i \in DOMAIN instances' : index'[instances'[i].spawn] = i /\ aliases'[NameOf(i)'] = i
        BY <1>2, <2>1, <2>2, <2>3, <2>4, <2>5
    <2> QED
        BY <2>6, <2>7, <2>8 DEF HandlesResolve, NameOf
<1> QED
    BY <1>3, <1>4, <1>5 DEF DirectoryInv

LEMMA RestartKeeps ==
    ASSUME DirectoryInv, Restart
    PROVE  DirectoryInv'
BY DEF Restart, DirectoryInv, DirectoryTypes, NamesAreCounted, KeysAreSunk, HandlesResolve

-----------------------------------------------------------------------------
(***************************************************************************)
(* The steps of the callers.                                               *)
(***************************************************************************)

\* What a step does to the directory and to the history.
Admits(p, a) ==
    /\ Create(p, a) /\ ended' = With(ended, minted', None)
    /\ p \in Members => a = RefId[p] /\ pc[p] = "waiting"
Reports(i, to) ==
    /\ Move(i, to)
    /\ ended' = IF i \in DOMAIN ended /\ ended[i] = None THEN [ended EXCEPT ![i] = to] ELSE ended
    /\ to = "COMPLETED" => Begun(i)
Begins(i) == Move(i, "RUNNING") /\ ended' = ended
Disposes(r) == Dispose(r) /\ ended' = [i \in DOMAIN instances' |-> ended[i]]
Restarts == Restart /\ ended' = [i \in {} |-> None]

StepKind ==
    \/ UNCHANGED <<directory, ended>>
    \/ \E p \in Spawns, a \in Agents : Admits(p, a)
    \/ \E i \in Nat, to \in {"COMPLETED", "FAILED"} : Reports(i, to)
    \/ \E i \in Nat : Begins(i)
    \/ \E r \in Runs : Disposes(r)
    \/ Restarts

\* An instance that a spawn is known by is there.
LEMMA IndexedIsThere ==
    ASSUME DirectoryInv, NEW p \in DOMAIN index
    PROVE  /\ index[p] \in DOMAIN instances /\ index[p] \in 1..minted
           /\ instances[index[p]].spawn = p
<1>1. PICK i \in DOMAIN instances : p = instances[i].spawn
    BY DEF DirectoryInv, HandlesResolve
<1> QED
    BY <1>1 DEF DirectoryInv, HandlesResolve, DirectoryTypes

\* A dispatch that ends by itself reports, or changes nothing.
LEMMA SettleKind ==
    ASSUME DirectoryInv, RecordsFit, NEW i \in 1..minted \cup {None},
           NEW to \in {"COMPLETED", "FAILED"},
           Settle(i, to), to = "COMPLETED" => Begun(i)
    PROVE  StepKind
<1>1. minted \in Nat /\ None \notin Nat /\ DOMAIN ended = DOMAIN instances
      /\ DOMAIN instances \subseteq Nat
    BY DirectoryAssumption DEF DirectoryInv, DirectoryTypes, RecordsFit
<1>2. CASE i = None
    BY <1>1, <1>2 DEF Settle, Transition, StepKind
<1>3. CASE i # None
    <2>1. i \in Nat
        BY <1>1, <1>3
    <2>2. Reports(i, to)
        BY <1>3, Zenon DEF Settle, Transition, Reports
    <2> QED
        BY <2>1, <2>2 DEF StepKind
<1> QED
    BY <1>2, <1>3

LEMMA BeginKind ==
    ASSUME DirectoryInv, NEW i \in 1..minted \cup {None}, Transition(i, "RUNNING"), ended' = ended
    PROVE  StepKind
<1>1. minted \in Nat
    BY DEF DirectoryInv, DirectoryTypes
<1>2. CASE i = None
    BY <1>2 DEF Transition, StepKind
<1>3. CASE i # None
    BY <1>1, <1>3 DEF Transition, StepKind, Begins
<1> QED
    BY <1>2, <1>3

\* Every step is of one of these kinds.
LEMMA StepKinds ==
    ASSUME IInv, [Next]_vars
    PROVE  StepKind
<1> USE RunsAssumption DEF IInv
<1>1. \A p \in Spawns : inst[p] \in 1..minted \cup {None}
    BY DEF CallerTypes
<1>2. ASSUME NEW n \in Nodes, Preadmit(n) \/ Dispatch(n)
      PROVE  StepKind
    BY <1>2 DEF Preadmit, Dispatch, Admitted, StepKind, Admits
<1>3. ASSUME NEW n \in Nodes, RejectBefore(n) \/ AgentFails(n) \/ Exhausted(n)
      PROVE  StepKind
    BY <1>1, <1>3, SettleKind DEF RejectBefore, AgentFails, Exhausted
<1>4. ASSUME NEW n \in Nodes, Deliver(n)
      PROVE  StepKind
    BY <1>1, <1>4, SettleKind DEF Deliver, NodesHaveBegun
<1>5. ASSUME NEW n \in Nodes, Attempt(n) \/ Recover(n)
      PROVE  StepKind
    BY <1>1, <1>5, BeginKind DEF Attempt, Recover
<1>6. ASSUME NEW m \in Members, Seat(m)
      PROVE  StepKind
    BY <1>6 DEF Seat, Admitted, StepKind, Admits
<1>7. ASSUME NEW m \in Members, Deliberate(m)
      PROVE  StepKind
    BY <1>1, <1>7, BeginKind DEF Deliberate
<1>8. ASSUME NEW m \in Members, Complete(m)
      PROVE  StepKind
    <2> DEFINE i == Replay(m, RefId[m])
    <2>1. i \in 1..minted \cup {None}
        BY IndexedIsThere DEF Replay
    <2>2. Begun(i)
        BY <1>8, IndexedIsThere, DirectoryAssumption
           DEF Replay, Complete, MembersHaveBegun, Begun, DirectoryInv, DirectoryTypes
    <2> QED
        BY <1>8, <2>1, <2>2, SettleKind DEF Complete
<1>9. ASSUME NEW r \in Runs, Call(r) \/ EndEarly(r)
      PROVE  StepKind
    BY <1>9, Zenon DEF Call, EndEarly, StepKind
<1>16. ASSUME NEW r \in Runs, Return(r)
       PROVE  StepKind
    BY <1>16, Zenon DEF Return, StepKind, Disposes
<1>10. CASE Die
    BY <1>10 DEF Die, StepKind, Restarts
<1>11. ASSUME NEW n \in Nodes, AgentSucceeds(n)
       PROVE  StepKind
    BY <1>11 DEF AgentSucceeds, StepKind
<1>17. ASSUME NEW j \in Nodes \cup Councils, FailEarly(j)
       PROVE  StepKind
    BY <1>17 DEF FailEarly, StepKind
<1>12. ASSUME NEW m \in Members, Vote(m)
       PROVE  StepKind
    BY <1>12 DEF Vote, StepKind
<1>13. ASSUME NEW c \in Councils, CouncilStep(c)
       PROVE  StepKind
    BY <1>13, <1>17 DEF CouncilStep, Convene, NextRound, Decide, Decided, StepKind
<1>14. ASSUME NEW j \in Nodes \cup Councils, Interrupt(j) \/ RetryStep(j)
       PROVE  StepKind
    BY <1>14 DEF Interrupt, RetryStep, Retry, GiveUp, StepKind
<1>15. CASE UNCHANGED vars
    BY <1>15 DEF vars, StepKind
<1> QED
    BY <1>2, <1>3, <1>4, <1>5, <1>6, <1>7, <1>8, <1>9, <1>10, <1>11, <1>12, <1>13, <1>14, <1>15,
       <1>16, <1>17
       DEF Next, NodeStep, MemberStep

-----------------------------------------------------------------------------
(***************************************************************************)
(* One step keeps the directory together, and its history true.            *)
(***************************************************************************)

LEMMA DirectoryStep ==
    ASSUME DirectoryInv, StepKind
    PROVE  DirectoryInv'
<1>1. CASE UNCHANGED <<directory, ended>>
    BY <1>1 DEF directory, DirectoryInv, DirectoryTypes, NamesAreCounted, KeysAreSunk,
                HandlesResolve, NameOf
<1>2. ASSUME NEW p \in Spawns, NEW a \in Agents, Admits(p, a)
      PROVE  DirectoryInv'
    BY <1>2, CreateKeeps DEF Admits
<1>3. ASSUME NEW i \in Nat, NEW to \in {"COMPLETED", "FAILED"}, Reports(i, to)
      PROVE  DirectoryInv'
    BY <1>3, MoveKeeps DEF Reports
<1>4. ASSUME NEW i \in Nat, Begins(i)
      PROVE  DirectoryInv'
    BY <1>4, MoveKeeps DEF Begins
<1>5. ASSUME NEW r \in Runs, Disposes(r)
      PROVE  DirectoryInv'
    BY <1>5, DisposeKeeps DEF Disposes
<1>6. CASE Restarts
    BY <1>6, RestartKeeps DEF Restarts
<1> QED
    BY <1>1, <1>2, <1>3, <1>4, <1>5, <1>6 DEF StepKind

LEMMA RecordsStep ==
    ASSUME DirectoryInv, RecordsFit, StepKind
    PROVE  RecordsFit'
<1>1. CASE UNCHANGED <<directory, ended>>
    BY <1>1 DEF directory, RecordsFit
<1>2. ASSUME NEW p \in Spawns, NEW a \in Agents, Admits(p, a)
      PROVE  RecordsFit'
    <2>1. DOMAIN ended' = DOMAIN instances'
        BY <1>2, CreatedInstances DEF Admits, RecordsFit, With
    <2>2. \A m \in Members : effects'[m] \in {None, RefId[m]}
        BY <1>2, RunsAssumption DEF Admits, Create, RecordsFit, DirectoryInv, DirectoryTypes
    <2> QED
        BY <2>1, <2>2 DEF RecordsFit
<1>3. ASSUME NEW i \in Nat, NEW to \in {"COMPLETED", "FAILED", "RUNNING"}, Move(i, to),
             DOMAIN ended' = DOMAIN ended
      PROVE  RecordsFit'
    <2>1. DOMAIN instances' = DOMAIN instances /\ effects' = effects
        BY <1>3, MovedInstances DEF Move
    <2> QED
        BY <1>3, <2>1 DEF RecordsFit
<1>4. ASSUME NEW i \in Nat, NEW to \in {"COMPLETED", "FAILED"}, Reports(i, to)
      PROVE  RecordsFit'
    <2>1. DOMAIN ended' = DOMAIN ended
        BY <1>4 DEF Reports
    <2> QED
        BY <1>3, <1>4, <2>1 DEF Reports
<1>5. ASSUME NEW i \in Nat, Begins(i)
      PROVE  RecordsFit'
    BY <1>3, <1>5 DEF Begins
<1>6. ASSUME NEW r \in Runs, Disposes(r)
      PROVE  RecordsFit'
    BY <1>6 DEF Disposes, Dispose, RecordsFit
<1>7. CASE Restarts
    BY <1>7, RunsAssumption DEF Restarts, Restart, RecordsFit
<1> QED
    BY <1>1, <1>2, <1>4, <1>5, <1>6, <1>7 DEF StepKind

\* What the directory shows changes when a report is the first, and only then.
LEMMA OutcomeStep ==
    ASSUME DirectoryInv, RecordsFit, StatusIsTheFirstOutcome, StepKind
    PROVE  StatusIsTheFirstOutcome'
<1> USE DEF StatusIsTheFirstOutcome
<1>0. /\ DOMAIN ended = DOMAIN instances
      /\ None \notin Terminal /\ {"COMPLETED", "FAILED"} \subseteq Terminal
      /\ "QUEUED" \notin Terminal /\ "RUNNING" \notin Terminal
    BY DirectoryAssumption DEF RecordsFit, Terminal
<1>1. CASE UNCHANGED <<directory, ended>>
    BY <1>1 DEF directory
<1>2. ASSUME NEW p \in Spawns, NEW a \in Agents, Admits(p, a)
      PROVE  StatusIsTheFirstOutcome'
    <2> Create(p, a)
        BY <1>2 DEF Admits
    <2>3. /\ DOMAIN instances' = DOMAIN instances \cup {minted'}
          /\ instances'[minted'] = [spawn |-> p, agent |-> a, task |-> TaskOf[p],
                                    ordinal |-> NextOrdinal(p, a), status |-> "QUEUED"]
          /\ \A i \in DOMAIN instances : instances'[i] = instances[i] /\ i # minted'
        BY CreatedInstances, Zenon
    <2>1. /\ DOMAIN instances' = DOMAIN instances \cup {minted'}
          /\ instances'[minted'].status = "QUEUED"
          /\ \A i \in DOMAIN instances : instances'[i] = instances[i] /\ i # minted'
        BY <2>3
    <2>2. ended'[minted'] = None /\ \A i \in DOMAIN instances : ended'[i] = ended[i]
        BY <1>0, <1>2, <2>1 DEF Admits, With
    <2> QED
        BY <1>0, <2>1, <2>2
<1>3. ASSUME NEW i \in Nat, NEW to \in {"COMPLETED", "FAILED"}, Reports(i, to)
      PROVE  StatusIsTheFirstOutcome'
    <2>1. Move(i, to)
        BY <1>3 DEF Reports
    <2>2. CASE i \in DOMAIN instances /\ instances[i].status \notin Terminal
        <3>1. instances'[i].status = to
            BY <1>3, <2>1, <2>2, MovesTakePlace DEF Reports, Begun
        <3>2. ended' = [ended EXCEPT ![i] = to]
            BY <1>0, <1>3, <2>2 DEF Reports
        <3>3. DOMAIN instances' = DOMAIN instances
              /\ \A j \in DOMAIN instances : j # i => instances'[j] = instances[j]
            BY <2>1, MovedInstances
        <3> QED
            BY <1>0, <3>1, <3>2, <3>3
    <2>3. CASE ~(i \in DOMAIN instances /\ instances[i].status \notin Terminal)
        <3>1. instances' = instances
            BY <2>1, <2>3, MovedInstances
        <3>2. ended' = ended
            BY <1>0, <1>3, <2>3 DEF Reports
        <3> QED
            BY <3>1, <3>2
    <2> QED
        BY <2>2, <2>3
<1>4. ASSUME NEW i \in Nat, Begins(i)
      PROVE  StatusIsTheFirstOutcome'
    <2>1. \/ instances' = instances
          \/ /\ i \in DOMAIN instances /\ instances[i].status \notin Terminal
             /\ DOMAIN instances' = DOMAIN instances
             /\ instances'[i].status = "RUNNING"
             /\ \A j \in DOMAIN instances : j # i => instances'[j] = instances[j]
        BY <1>4, MovedInstances DEF Begins
    <2> QED
        BY <1>0, <1>4, <2>1 DEF Begins
<1>5. ASSUME NEW r \in Runs, Disposes(r)
      PROVE  StatusIsTheFirstOutcome'
    BY <1>0, <1>5, DisposedInstances DEF Disposes
<1>6. CASE Restarts
    BY <1>6 DEF Restarts, Restart
<1> QED
    BY <1>1, <1>2, <1>3, <1>4, <1>5, <1>6 DEF StepKind

-----------------------------------------------------------------------------
(***************************************************************************)
(* One step keeps what the callers know.                                   *)
(***************************************************************************)

\* An instance that has begun has not un-begun after any step, and a new one
\* has an id that nobody carries.
LEMMA BegunStays ==
    ASSUME DirectoryInv, StepKind, NEW i \in 1..minted \cup {None}, Begun(i)
    PROVE  Begun(i)'
<1> USE DEF Begun
<1>0. minted \in Nat /\ None \notin Nat
    BY DirectoryAssumption DEF DirectoryInv, DirectoryTypes
<1>1. CASE UNCHANGED <<directory, ended>>
    BY <1>1 DEF directory
<1>2. ASSUME NEW p \in Spawns, NEW a \in Agents, Admits(p, a)
      PROVE  Begun(i)'
    <2> Create(p, a)
        BY <1>2 DEF Admits
    <2>1. /\ minted' = minted + 1 /\ DOMAIN instances' = DOMAIN instances \cup {minted'}
          /\ \A j \in DOMAIN instances : instances'[j] = instances[j]
        BY CreatedInstances, Zenon
    <2> QED
        BY <1>0, <2>1
<1>3. ASSUME NEW j \in Nat, NEW to \in {"COMPLETED", "FAILED", "RUNNING"}, Move(j, to)
      PROVE  Begun(i)'
    <2>1. \/ instances' = instances
          \/ /\ DOMAIN instances' = DOMAIN instances
             /\ instances'[j].status = to
             /\ \A k \in DOMAIN instances : k # j => instances'[k] = instances[k]
        BY <1>3, MovedInstances
    <2> QED
        BY <2>1
<1>4. ASSUME NEW r \in Runs, Disposes(r)
      PROVE  Begun(i)'
    BY <1>4, DisposedInstances DEF Disposes
<1>5. CASE Restarts
    BY <1>5 DEF Restarts, Restart
<1> QED
    BY <1>1, <1>2, <1>3, <1>4, <1>5 DEF StepKind, Reports, Begins

\* A spawn that is known after a step and was not waiting was known before it,
\* by the same instance.
LEMMA IndexStays ==
    ASSUME DirectoryInv, StepKind, NEW m \in Members, m \in DOMAIN index', pc[m] # "waiting"
    PROVE  m \in DOMAIN index /\ index'[m] = index[m]
<1>1. CASE UNCHANGED <<directory, ended>>
    BY <1>1 DEF directory
<1>2. ASSUME NEW p \in Spawns, NEW a \in Agents, Admits(p, a)
      PROVE  m \in DOMAIN index /\ index'[m] = index[m]
    BY <1>2, CreatedInstances DEF Admits
<1>3. ASSUME NEW i \in Nat, NEW to, Move(i, to)
      PROVE  m \in DOMAIN index /\ index'[m] = index[m]
    BY <1>3 DEF Move
<1>4. ASSUME NEW r \in Runs, Disposes(r)
      PROVE  m \in DOMAIN index /\ index'[m] = index[m]
    BY <1>4, DisposedInstances DEF Disposes
<1>5. CASE Restarts
    BY <1>5 DEF Restarts, Restart
<1> QED
    BY <1>1, <1>2, <1>3, <1>4, <1>5 DEF StepKind, Reports, Begins

\* What a step does to what a job carries: nothing, or the spawn is admitted,
\* or the job goes to a step at which nothing is asked of it.
Aside == {"done", "failed", "unadmitted", "ready", "gate", "sitting", "waiting", "closing"}
Keeps(p) == pc'[p] = pc[p] /\ inst'[p] = inst[p]
Lets(p) == pc'[p] \in Aside /\ inst'[p] \in {None, inst[p]}

\* What a node does to itself; to the others it does nothing.
LEMMA NodeMoves ==
    ASSUME DirectoryInv, CallerTypes, NEW n \in Nodes, NodeStep(n)
    PROVE  /\ DOMAIN pc' = Jobs
           /\ \A p \in Spawns \ {n} : Keeps(p)
           /\ inst'[n] \in 1..minted' \cup {None} /\ DOMAIN inst' = Spawns
           /\ \/ pc'[n] \in Aside
              \/ Keeps(n)
              \/ inst'[n] = inst[n] /\ pc'[n] = "running" /\ Transition(inst[n], "RUNNING")
              \/ inst'[n] = inst[n] /\ pc[n] = "running" /\ pc'[n] = "checking"
<1> USE RunsAssumption DEF CallerTypes, Jobs, Keeps, Aside
<1>0. minted \in Nat /\ n \in Spawns /\ n \in Jobs
    BY DEF DirectoryInv, DirectoryTypes
<1>1. ASSUME Preadmit(n)
      PROVE  minted' \in Nat /\ minted <= minted'
    BY <1>0, <1>1 DEF Preadmit, Create, directory
<1>2. CASE Preadmit(n)
    BY <1>0, <1>1, <1>2 DEF Preadmit, Goto
<1>3. CASE Dispatch(n)
    <2>1. /\ DOMAIN inst' = Spawns /\ \A p \in Spawns \ {n} : inst'[p] = inst[p]
          /\ inst'[n] \in 1..minted' \cup {None}
        <3>1. PICK a \in Agents : Admitted(n, a)
            BY <1>3 DEF Dispatch
        <3>2. CASE Create(n, a) /\ inst' = [inst EXCEPT ![n] = minted']
            BY <1>0, <3>2 DEF Create
        <3>3. CASE inst' = [inst EXCEPT ![n] = Replay(n, a)] /\ UNCHANGED directory
            BY <1>0, <3>3, IndexedIsThere DEF Replay, directory
        <3> QED
            BY <3>1, <3>2, <3>3 DEF Admitted
    <2> QED
        BY <1>0, <1>3, <2>1 DEF Dispatch, Goto
<1>4. CASE FailEarly(n) \/ RejectBefore(n) \/ AgentFails(n) \/ Deliver(n) \/ Exhausted(n)
    <2>1. minted' = minted
        BY <1>4 DEF FailEarly, RejectBefore, AgentFails, Deliver, Exhausted, Settle, Transition,
                    Move, directory
    <2>2. Over({n}, "done") \/ Over({n}, "failed")
        BY <1>4 DEF FailEarly, RejectBefore, AgentFails, Deliver, Exhausted
    <2> QED
        BY <1>0, <2>1, <2>2 DEF Over, Members
<1>5. CASE Attempt(n) \/ Recover(n)
    <2>1. minted' = minted
        BY <1>5 DEF Attempt, Recover, Transition, Move, directory
    <2> QED
        BY <1>0, <1>5, <2>1 DEF Attempt, Recover, Goto
<1>6. CASE AgentSucceeds(n)
    BY <1>0, <1>6 DEF AgentSucceeds, Goto, directory
<1> QED
    BY <1>2, <1>3, <1>4, <1>5, <1>6 DEF NodeStep

\* What a member does to itself.
LEMMA MemberMoves ==
    ASSUME DirectoryInv, CallerTypes, RecordsFit, NEW m \in Members, MemberStep(m)
    PROVE  /\ DOMAIN pc' = Jobs
           /\ \A p \in Spawns \ {m} : Keeps(p)
           /\ inst'[m] \in 1..minted' \cup {None} /\ DOMAIN inst' = Spawns
           /\ \/ pc'[m] \in Aside
              \/ pc'[m] = "seated" /\ (m \in DOMAIN index' => inst'[m] = index'[m])
              \/ /\ pc[m] = "seated" /\ pc'[m] = "deliberating" /\ inst'[m] = inst[m]
                 /\ Transition(inst[m], "RUNNING")
              \/ pc[m] = "deliberating" /\ pc'[m] = "voted"
<1> USE RunsAssumption DEF CallerTypes, Jobs, Keeps, Aside
<1>0. minted \in Nat /\ m \in Spawns /\ m \in Jobs /\ RefId[m] \in Agents
    BY DEF DirectoryInv, DirectoryTypes
<1>1. CASE Seat(m)
    <2>1. /\ DOMAIN inst' = Spawns /\ \A p \in Spawns \ {m} : inst'[p] = inst[p]
          /\ inst'[m] \in 1..minted' \cup {None}
          /\ m \in DOMAIN index' => inst'[m] = index'[m]
        <3>1. CASE Create(m, RefId[m]) /\ inst' = [inst EXCEPT ![m] = minted']
            <4>1. minted' = minted + 1 /\ index'[m] = minted'
                BY <1>0, <3>1, CreatedInstances, Zenon
            <4> QED
                BY <1>0, <3>1, <4>1
        <3>2. CASE /\ effects[m] # None /\ inst' = [inst EXCEPT ![m] = Replay(m, RefId[m])]
                   /\ UNCHANGED directory
            <4>1. /\ effects[m] = RefId[m] /\ index' = index /\ minted' = minted
                BY <3>2 DEF directory, RecordsFit
            <4>2. Replay(m, RefId[m]) = IF m \in DOMAIN index THEN index[m] ELSE None
                BY <4>1 DEF Replay
            <4>3. inst' = [inst EXCEPT ![m] = Replay(m, RefId[m])]
                BY <3>2
            <4>4. m \in DOMAIN index => index[m] \in 1..minted
                BY IndexedIsThere
            <4> QED
                BY <1>0, <4>1, <4>2, <4>3, <4>4
        <3> QED
            BY <1>1, <3>1, <3>2 DEF Seat, Admitted
    <2> QED
        BY <1>0, <1>1, <2>1 DEF Seat, Goto
<1>2. CASE Deliberate(m)
    <2>1. minted' = minted
        BY <1>2 DEF Deliberate, Transition, Move, directory
    <2> QED
        BY <1>0, <1>2, <2>1 DEF Deliberate, Goto
<1>3. CASE Vote(m)
    BY <1>0, <1>3 DEF Vote, Goto, directory
<1>4. CASE Complete(m)
    <2>1. minted' = minted
        BY <1>4 DEF Complete, Settle, Transition, Move, directory
    <2> QED
        BY <1>0, <1>4, <2>1 DEF Complete, Over, Members
<1> QED
    BY <1>1, <1>2, <1>3, <1>4 DEF MemberStep

\* What every other step does to a spawn.
LEMMA OtherMoves ==
    ASSUME DirectoryInv, CallerTypes, [Next]_vars,
           ~\E n \in Nodes : NodeStep(n), ~\E m \in Members : MemberStep(m)
    PROVE  /\ DOMAIN pc' = Jobs /\ DOMAIN inst' = Spawns /\ minted' = minted
           /\ \A p \in Spawns : Keeps(p) \/ Lets(p)
<1> USE RunsAssumption DEF CallerTypes, Jobs, Keeps, Lets, Aside
<1>1. ASSUME NEW S, NEW step \in {"done", "failed"}, Over(S, step)
      PROVE  /\ DOMAIN pc' = Jobs /\ DOMAIN inst' = Spawns
             /\ \A p \in Spawns : Keeps(p) \/ Lets(p)
    BY <1>1 DEF Over
<1>2. ASSUME NEW r \in Runs, Call(r)
      PROVE  /\ DOMAIN pc' = Jobs /\ DOMAIN inst' = Spawns /\ minted' = minted
             /\ \A p \in Spawns : Keeps(p) \/ Lets(p)
    BY <1>2 DEF Call, directory
<1>3. ASSUME NEW r \in Runs, EndEarly(r)
      PROVE  /\ DOMAIN pc' = Jobs /\ DOMAIN inst' = Spawns /\ minted' = minted
             /\ \A p \in Spawns : Keeps(p) \/ Lets(p)
    BY <1>1, <1>3 DEF EndEarly, directory
<1>4. ASSUME NEW r \in Runs, Return(r)
      PROVE  /\ DOMAIN pc' = Jobs /\ DOMAIN inst' = Spawns /\ minted' = minted
             /\ \A p \in Spawns : Keeps(p) \/ Lets(p)
    BY <1>4 DEF Return, Dispose
<1>5. CASE Die
    BY <1>1, <1>5 DEF Die, Restart
<1>6. ASSUME NEW c \in Councils, Convene(c) \/ NextRound(c)
      PROVE  /\ DOMAIN pc' = Jobs /\ DOMAIN inst' = Spawns /\ minted' = minted
             /\ \A p \in Spawns : Keeps(p) \/ Lets(p)
    BY <1>6 DEF Convene, NextRound, Council, directory
<1>7. ASSUME NEW c \in Councils, Decide(c) \/ Decided(c)
      PROVE  /\ DOMAIN pc' = Jobs /\ DOMAIN inst' = Spawns /\ minted' = minted
             /\ \A p \in Spawns : Keeps(p) \/ Lets(p)
    BY <1>1, <1>7 DEF Decide, Decided, Goto, directory
<1>8. ASSUME NEW j \in Nodes \cup Councils, FailEarly(j) \/ Interrupt(j) \/ GiveUp(j)
      PROVE  /\ DOMAIN pc' = Jobs /\ DOMAIN inst' = Spawns /\ minted' = minted
             /\ \A p \in Spawns : Keeps(p) \/ Lets(p)
    BY <1>1, <1>8 DEF FailEarly, Interrupt, GiveUp, directory
<1>9. ASSUME NEW j \in Nodes \cup Councils, Retry(j)
      PROVE  /\ DOMAIN pc' = Jobs /\ DOMAIN inst' = Spawns /\ minted' = minted
             /\ \A p \in Spawns : Keeps(p) \/ Lets(p)
    BY <1>9 DEF Retry, Goto, directory
<1>10. CASE UNCHANGED vars
    BY <1>10 DEF vars, callers, directory
<1> QED
    BY <1>2, <1>3, <1>4, <1>5, <1>6, <1>7, <1>8, <1>9, <1>10 DEF Next, CouncilStep, RetryStep

\* How a step leaves a spawn that was not waiting, in one list.
LEMMA CallerStep ==
    ASSUME IInv, [Next]_vars
    PROVE  /\ CallerTypes'
           /\ \A n \in Nodes :
                \/ pc'[n] \notin {"running", "checking"}
                \/ inst'[n] = inst[n] /\ pc[n] \in {"running", "checking"}
                \/ inst'[n] = inst[n] /\ Transition(inst[n], "RUNNING")
           /\ \A m \in Members :
                \/ pc'[m] \notin {"seated", "deliberating", "voted"}
                \/ pc'[m] = "seated" /\ (m \in DOMAIN index' => inst'[m] = index'[m])
                \/ pc'[m] = pc[m] /\ inst'[m] = inst[m]
                \/ /\ pc[m] = "seated" /\ pc'[m] = "deliberating" /\ inst'[m] = inst[m]
                   /\ Transition(inst[m], "RUNNING")
                \/ pc[m] = "deliberating" /\ pc'[m] = "voted"
<1> USE RunsAssumption DEF IInv
<1>1. DirectoryInv' /\ minted \in Nat /\ minted' \in Nat
    BY StepKinds, DirectoryStep DEF DirectoryInv, DirectoryTypes
<1>2. minted <= minted'
    <2>1. minted' = minted \/ minted' = minted + 1
        BY StepKinds, Zenon DEF StepKind, Admits, Create, Reports, Begins, Move, Disposes, Dispose,
                                Restarts, Restart, directory
    <2> QED
        BY <1>1, <2>1
<1>3. \A p \in Spawns : Keeps(p) \/ Lets(p) => inst'[p] \in 1..minted' \cup {None}
    BY <1>1, <1>2 DEF Keeps, Lets, CallerTypes
<1>4. CallerTypes'
    <2>1. ASSUME NEW n \in Nodes, NodeStep(n)
          PROVE  CallerTypes'
        BY <1>3, <2>1, NodeMoves DEF CallerTypes
    <2>2. ASSUME NEW m \in Members, MemberStep(m)
          PROVE  CallerTypes'
        BY <1>3, <2>2, MemberMoves DEF CallerTypes
    <2>3. CASE (~\E n \in Nodes : NodeStep(n)) /\ (~\E m \in Members : MemberStep(m))
        BY <1>3, <2>3, OtherMoves DEF CallerTypes
    <2> QED
        BY <2>1, <2>2, <2>3
<1>5. ASSUME NEW n \in Nodes
      PROVE  \/ pc'[n] \notin {"running", "checking"}
             \/ inst'[n] = inst[n] /\ pc[n] \in {"running", "checking"}
             \/ inst'[n] = inst[n] /\ Transition(inst[n], "RUNNING")
    <2>1. CASE NodeStep(n)
        BY <2>1, NodeMoves DEF Keeps, Aside
    <2>2. ASSUME NEW k \in Nodes, NodeStep(k), k # n
          PROVE  Keeps(n)
        BY <2>2, NodeMoves
    <2>3. ASSUME NEW m \in Members, MemberStep(m)
          PROVE  Keeps(n)
        BY <2>3, MemberMoves
    <2>4. CASE (~\E k \in Nodes : NodeStep(k)) /\ (~\E m \in Members : MemberStep(m))
        BY <2>4, OtherMoves DEF Keeps, Lets, Aside
    <2> QED
        BY <2>1, <2>2, <2>3, <2>4 DEF Keeps
<1>6. ASSUME NEW m \in Members
      PROVE  \/ pc'[m] \notin {"seated", "deliberating", "voted"}
             \/ pc'[m] = "seated" /\ (m \in DOMAIN index' => inst'[m] = index'[m])
             \/ pc'[m] = pc[m] /\ inst'[m] = inst[m]
             \/ /\ pc[m] = "seated" /\ pc'[m] = "deliberating" /\ inst'[m] = inst[m]
                /\ Transition(inst[m], "RUNNING")
             \/ pc[m] = "deliberating" /\ pc'[m] = "voted"
    <2>1. CASE MemberStep(m)
        BY <2>1, MemberMoves DEF Aside
    <2>2. ASSUME NEW k \in Members, MemberStep(k), k # m
          PROVE  Keeps(m)
        BY <2>2, MemberMoves
    <2>3. ASSUME NEW n \in Nodes, NodeStep(n)
          PROVE  Keeps(m)
        BY <2>3, NodeMoves
    <2>4. CASE (~\E n \in Nodes : NodeStep(n)) /\ (~\E k \in Members : MemberStep(k))
        BY <2>4, OtherMoves DEF Keeps, Lets, Aside
    <2> QED
        BY <2>1, <2>2, <2>3, <2>4 DEF Keeps
<1> QED
    BY <1>4, <1>5, <1>6

\* An instance that was told to run has begun.
LEMMA RunningHasBegun ==
    ASSUME DirectoryInv, NEW i \in 1..minted \cup {None}, Transition(i, "RUNNING")
    PROVE  Begun(i)'
<1>1. None \notin Nat /\ minted \in Nat /\ DOMAIN instances \subseteq 1..minted
    BY DirectoryAssumption DEF DirectoryInv, DirectoryTypes
<1>2. CASE i = None
    BY <1>1, <1>2 DEF Transition, Begun, directory
<1>3. CASE i # None
    <2>1. Move(i, "RUNNING")
        BY <1>3 DEF Transition
    <2>2. CASE i \in DOMAIN instances /\ instances[i].status \notin Terminal
        BY <2>1, <2>2, MovesTakePlace DEF Begun
    <2>3. CASE ~(i \in DOMAIN instances /\ instances[i].status \notin Terminal)
        <3>1. instances' = instances
            BY <2>1, <2>3, MovedInstances
        <3> QED
            BY <2>3, <3>1 DEF Begun, Terminal
    <2> QED
        BY <2>2, <2>3
<1> QED
    BY <1>2, <1>3

LEMMA CallersStep ==
    ASSUME IInv, [Next]_vars
    PROVE  NodesHaveBegun' /\ MembersHaveBegun'
<1> USE DEF IInv
<1>1. StepKind
    BY StepKinds
<1>2. \A p \in Spawns : inst[p] \in 1..minted \cup {None}
    BY DEF CallerTypes
<1>3. Nodes \subseteq Spawns /\ Members \subseteq Spawns
    BY RunsAssumption
<1>4. \A i \in 1..minted \cup {None} :
          Begun(i) \/ Transition(i, "RUNNING") => (i \in DOMAIN instances' => instances'[i].status # "QUEUED")
    BY <1>1, BegunStays, RunningHasBegun DEF Begun
<1>5. NodesHaveBegun'
    <2> SUFFICES ASSUME NEW n \in Nodes, pc'[n] \in {"running", "checking"},
                        inst'[n] \in DOMAIN instances'
                 PROVE  instances'[inst'[n]].status # "QUEUED"
        BY DEF NodesHaveBegun, Begun
    <2>1. inst'[n] = inst[n]
          /\ (pc[n] \in {"running", "checking"} \/ Transition(inst[n], "RUNNING"))
        BY CallerStep
    <2>2. Begun(inst[n]) \/ Transition(inst[n], "RUNNING")
        BY <2>1 DEF NodesHaveBegun
    <2> QED
        BY <1>2, <1>3, <1>4, <2>1, <2>2
<1>6. MembersHaveBegun'
    <2> SUFFICES ASSUME NEW m \in Members, m \in DOMAIN index'
                 PROVE  /\ pc'[m] = "seated" => inst'[m] = index'[m]
                        /\ pc'[m] \in {"deliberating", "voted"}
                             => (index'[m] \in DOMAIN instances'
                                    => instances'[index'[m]].status # "QUEUED")
        BY DEF MembersHaveBegun, Begun
    <2>1. pc[m] # "waiting" => m \in DOMAIN index /\ index'[m] = index[m]
        BY <1>1, IndexStays
    <2>2. pc'[m] = "seated" => inst'[m] = index'[m]
        BY <2>1, CallerStep DEF MembersHaveBegun
    <2>3. ASSUME pc'[m] \in {"deliberating", "voted"}
          PROVE  index'[m] \in DOMAIN instances' => instances'[index'[m]].status # "QUEUED"
        <3>1. \/ pc[m] \in {"deliberating", "voted"}
              \/ pc[m] = "seated" /\ Transition(inst[m], "RUNNING")
            BY <2>3, CallerStep
        <3>2. m \in DOMAIN index /\ index'[m] = index[m]
            BY <2>1, <3>1
        <3>3. index[m] \in 1..minted \cup {None}
            BY <3>2, IndexedIsThere
        <3>4. Begun(index[m]) \/ Transition(index[m], "RUNNING")
            BY <3>1, <3>2 DEF MembersHaveBegun
        <3> QED
            BY <1>4, <3>2, <3>3, <3>4
    <2> QED
        BY <2>2, <2>3
<1> QED
    BY <1>5, <1>6

LEMMA InvariantHolds == Spec => []IInv
<1>1. Init => IInv
    <2> SUFFICES ASSUME Init
                 PROVE  IInv
        OBVIOUS
    <2>1. DirectoryInv
        BY DEF Init, DirectoryInit, DirectoryInv, DirectoryTypes, NamesAreCounted, KeysAreSunk,
               HandlesResolve
    <2>2. CallerTypes /\ RecordsFit /\ NodesHaveBegun /\ MembersHaveBegun /\ StatusIsTheFirstOutcome
        BY RunsAssumption
           DEF Init, DirectoryInit, CallerTypes, RecordsFit, NodesHaveBegun, MembersHaveBegun,
               StatusIsTheFirstOutcome, Jobs
    <2> QED
        BY <2>1, <2>2 DEF IInv
<1>2. IInv /\ [Next]_vars => IInv'
    <2> SUFFICES ASSUME IInv, [Next]_vars
                 PROVE  IInv'
        OBVIOUS
    <2>1. StepKind
        BY StepKinds
    <2>2. DirectoryInv' /\ RecordsFit' /\ StatusIsTheFirstOutcome'
        BY <2>1, DirectoryStep, RecordsStep, OutcomeStep DEF IInv
    <2>3. CallerTypes' /\ NodesHaveBegun' /\ MembersHaveBegun'
        BY CallerStep, CallersStep
    <2> QED
        BY <2>2, <2>3 DEF IInv
<1> QED
    BY <1>1, <1>2, PTL DEF Spec

-----------------------------------------------------------------------------
(***************************************************************************)
(* The theorems.                                                           *)
(***************************************************************************)

\* Instance id, spawn key and display name lead to the same instance, however
\* many runs share a task and come and go (directory.py admit, get, dispose).
THEOREM DirectoryHolds == Spec => []HandlesResolve
<1>1. IInv => HandlesResolve
    BY DEF IInv, DirectoryInv
<1> QED
    BY <1>1, InvariantHolds, PTL

\* The directory shows how the first dispatch of an instance that ended by
\* itself did so, and nothing after it changes that (directory.py:20-44,
\* context_node_executor.py:614-630).
THEOREM OutcomeHolds == Spec => []StatusIsTheFirstOutcome
<1>1. IInv => StatusIsTheFirstOutcome
    BY DEF IInv
<1> QED
    BY <1>1, InvariantHolds, PTL

-----------------------------------------------------------------------------
(***************************************************************************)
(* The refinement.                                                         *)
(***************************************************************************)

\* The state of AgentIdentities, as AgentRuns maps it.
identityOf == [p \in Spawns |-> Identity(p)]
idsGiven == 1..minted
namesGiven == UNION {{<<s[2], s[1], n>> : n \in 1..ordinals[s]} : s \in Agents \X Tasks}

\* The name of a spawn that is admitted is one more than the names given.
LEMMA NamesOfNext ==
    ASSUME DirectoryInv, NEW p \in Spawns, NEW a \in Agents, Create(p, a)
    PROVE  /\ <<TaskOf[p], a, NextOrdinal(p, a)>> \notin namesGiven
           /\ namesGiven' = namesGiven \cup {<<TaskOf[p], a, NextOrdinal(p, a)>>}
<1> DEFINE t == TaskOf[p]
           n == NextOrdinal(p, a)
           name == <<t, a, n>>
<1>1. t \in Tasks /\ ordinals[<<a, t>>] \in Nat /\ n = ordinals[<<a, t>>] + 1
    BY NewHandles DEF NextOrdinal
<1>2. ordinals \in [Agents \X Tasks -> Nat] /\ ordinals' = [ordinals EXCEPT ![<<a, t>>] = n]
    BY DEF Create, DirectoryInv, DirectoryTypes
<1>3. \A x : x \in namesGiven <=> \E s \in Agents \X Tasks :
                                \E k \in 1..ordinals[s] : x = <<s[2], s[1], k>>
    BY DEF namesGiven
<1>4. \A x : x \in namesGiven' <=> \E s \in Agents \X Tasks :
                                 \E k \in 1..ordinals'[s] : x = <<s[2], s[1], k>>
    BY DEF namesGiven
<1>5. name \notin namesGiven
    <2> SUFFICES ASSUME NEW s \in Agents \X Tasks, NEW k \in 1..ordinals[s], name = <<s[2], s[1], k>>
                 PROVE  FALSE
        BY <1>3
    <2>1. s = <<a, t>> /\ k = n
        OBVIOUS
    <2> QED
        BY <1>1, <2>1
<1>6. <<a, t>> \in Agents \X Tasks /\ ordinals'[<<a, t>>] = n
      /\ \A s \in Agents \X Tasks : s # <<a, t>> => ordinals'[s] = ordinals[s]
    BY <1>1, <1>2
<1>7. 1..n = (1..ordinals[<<a, t>>]) \cup {n}
    BY <1>1
<1>8. \A x \in namesGiven' : x \in namesGiven \/ x = name
    <2> SUFFICES ASSUME NEW s \in Agents \X Tasks, NEW k \in 1..ordinals'[s]
                 PROVE  k \in 1..ordinals[s] \/ <<s[2], s[1], k>> = name
        BY <1>3, <1>4
    <2>1. CASE s = <<a, t>>
        BY <1>6, <1>7, <2>1
    <2>2. CASE s # <<a, t>>
        BY <1>6, <2>2
    <2> QED
        BY <2>1, <2>2
<1>9. name \in namesGiven'
    <2>1. n \in 1..ordinals'[<<a, t>>]
        BY <1>6, <1>7
    <2> QED
        BY <1>4, <1>6, <2>1
<1>10. \A x \in namesGiven : x \in namesGiven'
    <2> SUFFICES ASSUME NEW s \in Agents \X Tasks, NEW k \in 1..ordinals[s]
                 PROVE  k \in 1..ordinals'[s]
        BY <1>3, <1>4
    <2>1. CASE s = <<a, t>>
        BY <1>6, <1>7, <2>1
    <2>2. CASE s # <<a, t>>
        BY <1>6, <2>2
    <2> QED
        BY <2>1, <2>2
<1> QED
    BY <1>5, <1>8, <1>9, <1>10

\* A known spawn has an identity, and what stays as it was keeps it.
LEMMA KnownHasIdentity ==
    ASSUME DirectoryInv, NEW p \in DOMAIN index
    PROVE  /\ p \in Spawns
           /\ Identity(p) = [id |-> index[p], name |-> NameOf(index[p])]
           /\ Identity(p) # None
<1>1. index[p] \in DOMAIN instances /\ instances[index[p]].spawn = p
    BY IndexedIsThere
<1>2. instances[index[p]] \in Instance /\ index[p] \in Nat
    BY <1>1 DEF DirectoryInv, DirectoryTypes
<1>3. NameOf(index[p]) \in Tasks \X Agents \X Nat
    BY <1>2 DEF NameOf, Instance
<1>4. Identity(p) = [id |-> index[p], name |-> NameOf(index[p])]
    BY DEF Identity
<1>5. Identity(p) \in [id : Nat, name : Tasks \X Agents \X Nat]
    BY <1>2, <1>3, <1>4
<1>6. p \in Spawns
    BY <1>1, <1>2 DEF Instance
<1> QED
    BY <1>4, <1>5, <1>6, IdentityAssumption

LEMMA AdmitRefines ==
    ASSUME DirectoryInv, DirectoryInv', NEW p \in Spawns, NEW a \in Agents, Create(p, a)
    PROVE  Identities!Admit(p)
<1> DEFINE name == <<TaskOf[p], a, NextOrdinal(p, a)>>
           new == [id |-> minted + 1, name |-> name]
<1>1. /\ minted' = minted + 1 /\ minted \in Nat
      /\ instances'[minted'] = [spawn |-> p, agent |-> a, task |-> TaskOf[p],
                                ordinal |-> NextOrdinal(p, a), status |-> "QUEUED"]
      /\ \A i \in DOMAIN instances : instances'[i] = instances[i]
      /\ DOMAIN index' = DOMAIN index \cup {p} /\ index'[p] = minted'
      /\ \A q \in DOMAIN index : index'[q] = index[q]
    BY CreatedInstances, Zenon DEF DirectoryInv, DirectoryTypes
<1>2. p \notin DOMAIN index
    BY NewHandles
<1>3. <<instances'[minted'].task, instances'[minted'].agent, instances'[minted'].ordinal>> = name
    BY <1>1
<1>4. identityOf[p] = None
    BY <1>2 DEF identityOf, Identity
<1>5. identityOf'[p] = new
    BY <1>1, <1>3 DEF identityOf, Identity, NameOf
<1>6. new # None
    <2>1. name \in Tasks \X Agents \X Nat
        BY NewHandles DEF NextOrdinal
    <2>2. new \in [id : Nat, name : Tasks \X Agents \X Nat]
        BY <1>1, <2>1
    <2> QED
        BY <2>2, IdentityAssumption
<1>7. identityOf' = [identityOf EXCEPT ![p] = new]
    <2>1. ASSUME NEW q \in Spawns, q # p
          PROVE  identityOf'[q] = identityOf[q]
        <3>1. CASE q \in DOMAIN index
            <4>1. index[q] \in DOMAIN instances
                BY <3>1, IndexedIsThere
            <4> QED
                BY <1>1, <3>1, <4>1 DEF identityOf, Identity, NameOf
        <3>2. CASE q \notin DOMAIN index
            BY <1>1, <2>1, <3>2 DEF identityOf, Identity
        <3> QED
            BY <3>1, <3>2
    <2> QED
        BY <1>5, <2>1 DEF identityOf
<1>8. new.id = minted + 1 /\ new.name = name
    OBVIOUS
<1>9. new.id \notin idsGiven /\ idsGiven' = idsGiven \cup {new.id}
    BY <1>1, <1>8 DEF idsGiven
<1>10. new.name \notin namesGiven /\ namesGiven' = namesGiven \cup {new.name}
    BY <1>8, NamesOfNext
<1> QED
    BY <1>4, <1>5, <1>6, <1>7, <1>9, <1>10
       DEF Identities!Admit, identityOf, idsGiven, namesGiven

LEMMA ForgetRefines ==
    ASSUME DirectoryInv, NEW r \in Runs, Dispose(r)
    PROVE  Identities!Forget(r)
<1>1. /\ minted' = minted /\ ordinals' = ordinals
      /\ DOMAIN index' = {p \in DOMAIN index : RunOf[p] # r}
      /\ \A p \in DOMAIN index' : index'[p] = index[p]
      /\ DOMAIN instances' = {i \in DOMAIN instances : RunOf[instances[i].spawn] # r}
      /\ \A i \in DOMAIN instances' : instances'[i] = instances[i]
    BY DisposedInstances DEF Dispose
<1>2. ASSUME NEW p \in Spawns
      PROVE  identityOf'[p] = IF RunOf[p] = r THEN None ELSE identityOf[p]
    <2>1. CASE p \in DOMAIN index'
        <3>1. index[p] \in DOMAIN instances /\ instances[index[p]].spawn = p
            BY <1>1, <2>1, IndexedIsThere
        <3>2. p \in DOMAIN index /\ RunOf[p] # r /\ index[p] \in DOMAIN instances'
            BY <1>1, <2>1, <3>1
        <3> QED
            BY <1>1, <2>1, <3>2 DEF identityOf, Identity, NameOf
    <2>2. CASE p \notin DOMAIN index'
        BY <1>1, <2>2 DEF identityOf, Identity
    <2> QED
        BY <2>1, <2>2
<1>3. identityOf' = [p \in Spawns |-> IF RunOf[p] = r THEN None ELSE identityOf[p]]
    BY <1>2 DEF identityOf
<1>4. idsGiven' = idsGiven /\ namesGiven' = namesGiven
    BY <1>1 DEF idsGiven, namesGiven
<1> QED
    BY <1>3, <1>4 DEF Identities!Forget, identityOf, idsGiven, namesGiven

LEMMA RestartRefines ==
    ASSUME DirectoryInv, Restart
    PROVE  Identities!Restart
<1>1. DOMAIN index' = {} /\ minted' = minted /\ ordinals' = [s \in Agents \X Tasks |-> 0]
    BY DEF Restart
<1>2. identityOf' = [p \in Spawns |-> None]
    BY <1>1 DEF identityOf, Identity
<1>3. namesGiven' = {}
    <2>1. \A s \in Agents \X Tasks : ordinals'[s] = 0 /\ 1..ordinals'[s] = {}
        BY <1>1
    <2> QED
        BY <2>1 DEF namesGiven
<1>4. idsGiven' = idsGiven
    BY <1>1 DEF idsGiven
<1> QED
    BY <1>2, <1>3, <1>4 DEF Identities!Restart, identityOf, idsGiven, namesGiven

\* A transition changes no identity.
LEMMA MoveRefines ==
    ASSUME DirectoryInv, NEW i, NEW to \in {"RUNNING", "COMPLETED", "FAILED"}, Move(i, to)
    PROVE  UNCHANGED Identities!vars
<1>1. index' = index /\ minted' = minted /\ ordinals' = ordinals
    BY DEF Move
<1>2. \A j \in DOMAIN instances : NameOf(j)' = NameOf(j)
    BY MovedInstances DEF NameOf
<1>3. ASSUME NEW p \in Spawns
      PROVE  identityOf'[p] = identityOf[p]
    <2>1. CASE p \in DOMAIN index
        <3>1. index[p] \in DOMAIN instances
            BY <2>1, IndexedIsThere
        <3> QED
            BY <1>1, <1>2, <2>1, <3>1 DEF identityOf, Identity, NameOf
    <2>2. CASE p \notin DOMAIN index
        BY <1>1, <2>2 DEF identityOf, Identity
    <2> QED
        BY <2>1, <2>2
<1>4. identityOf' = identityOf
    BY <1>3 DEF identityOf
<1>5. idsGiven' = idsGiven /\ namesGiven' = namesGiven
    BY <1>1 DEF idsGiven, namesGiven
<1> QED
    BY <1>4, <1>5 DEF Identities!vars, identityOf, idsGiven, namesGiven

\* A spawn keeps one id and one name until its run is disposed, and neither is
\* ever given to another (directory.py:90-122 and dispose).
THEOREM IdentitiesHold == Spec => ImplementsIdentities
<1>1. Init => Identities!Init
    <2> SUFFICES ASSUME Init
                 PROVE  Identities!Init
        OBVIOUS
    <2>1. minted = 0 /\ DOMAIN index = {} /\ ordinals = [s \in Agents \X Tasks |-> 0]
        BY DEF Init, DirectoryInit
    <2>2. identityOf = [p \in Spawns |-> None] /\ idsGiven = {}
        BY <2>1 DEF identityOf, Identity, idsGiven
    <2>3. namesGiven = {}
        <3>1. \A s \in Agents \X Tasks : 1..ordinals[s] = {}
            BY <2>1
        <3> QED
            BY <3>1 DEF namesGiven
    <2> QED
        BY <2>2, <2>3 DEF Identities!Init, identityOf, idsGiven, namesGiven
<1>2. IInv /\ IInv' /\ [Next]_vars => [Identities!Next]_(Identities!vars)
    <2> SUFFICES ASSUME IInv, IInv', [Next]_vars
                 PROVE  [Identities!Next]_(Identities!vars)
        OBVIOUS
    <2>1. StepKind /\ DirectoryInv /\ DirectoryInv'
        BY StepKinds DEF IInv
    <2>2. CASE UNCHANGED <<directory, ended>>
        <3>1. UNCHANGED Identities!vars
            BY <2>2 DEF Identities!vars, directory, Identity, NameOf
        <3> QED
            BY <3>1
    <2>3. ASSUME NEW p \in Spawns, NEW a \in Agents, Admits(p, a)
          PROVE  Identities!Next
        BY <2>1, <2>3, AdmitRefines DEF Admits, Identities!Next
    <2>4. ASSUME NEW i \in Nat, NEW to \in {"COMPLETED", "FAILED"}, Reports(i, to)
          PROVE  UNCHANGED Identities!vars
        BY <2>1, <2>4, MoveRefines DEF Reports
    <2>5. ASSUME NEW i \in Nat, Begins(i)
          PROVE  UNCHANGED Identities!vars
        BY <2>1, <2>5, MoveRefines DEF Begins
    <2>6. ASSUME NEW r \in Runs, Disposes(r)
          PROVE  Identities!Next
        BY <2>1, <2>6, ForgetRefines DEF Disposes, Identities!Next
    <2>7. CASE Restarts
        BY <2>1, <2>7, RestartRefines DEF Restarts, Identities!Next
    <2> QED
        BY <2>1, <2>2, <2>3, <2>4, <2>5, <2>6, <2>7 DEF StepKind
<1> QED
    BY <1>1, <1>2, InvariantHolds, PTL DEF Spec, ImplementsIdentities, Identities!Spec

-----------------------------------------------------------------------------
(***************************************************************************)
(* What a run leaves behind and what it waits for: the safety half of      *)
(* EveryInstanceIsSettled.                                                 *)
(***************************************************************************)

\* The places of a node, of a member and of a council.
PlacesFit ==
    /\ phase \in [Runs -> {"idle", "open"}]
    /\ \A n \in Nodes : pc[n] \in {"done", "unadmitted", "ready", "gate", "running", "checking",
                                   "failed"}
    /\ \A m \in Members : pc[m] \in {"done", "waiting", "seated", "deliberating", "voted"}
    /\ \A c \in Councils : pc[c] \in {"done", "ready", "sitting", "closing", "failed"}

\* The members are at work exactly while their council sits, and while it
\* closes those are that it has not completed yet.
SeatsFit ==
    \A m \in Members :
        /\ pc[CouncilOf[m]] = "sitting" => pc[m] # "done"
        /\ pc[CouncilOf[m]] = "closing" => pc[m] \in {"done", "voted"}
        /\ pc[CouncilOf[m]] \notin {"sitting", "closing"} => pc[m] = "done"

RoundsFit ==
    /\ DOMAIN round = Councils
    /\ \A c \in Councils : pc[c] = "sitting" => round[c] \in 1..MaxRounds

\* No job is at work for a run that is over.
JobsHaveRuns == \A j \in Jobs : pc[j] # "done" => phase[JobRun[j]] = "open"

\* No spawn is known for a run that is over.
NothingIsLeftBehind == \A p \in DOMAIN index : phase[RunOf[p]] = "open"

RunInv == PlacesFit /\ SeatsFit /\ RoundsFit /\ JobsHaveRuns /\ NothingIsLeftBehind

\* A job has a step to make that needs no other job: it dispatches or fails to,
\* its agent or a permit of the semaphore is there, or its members are ready.
GoesOn(j) ==
    \/ pc[j] = "unadmitted" /\ Due(j)
    \/ pc[j] = "ready" /\ Due(j) /\ (j \in Nodes => PeersAdmitted(j))
    \/ pc[j] \in {"gate", "running", "checking", "failed", "seated", "deliberating"}
    \/ pc[j] = "waiting" /\ Cardinality(Deliberating(CouncilOf[j])) < MaxConcurrency
    \/ pc[j] = "voted" /\ pc[CouncilOf[j]] = "closing"
    \/ j \in Councils /\ AllVoted(j)
    \/ pc[j] = "closing" /\ \A m \in MembersOf(j) : pc[m] = "done"

\* A run that is open returns, or one of its jobs goes on.
OpenRunsGoOn ==
    \A r \in Runs :
        phase[r] = "open" => \/ \A j \in Jobs : JobRun[j] = r => pc[j] = "done"
                             \/ \E j \in Jobs : JobRun[j] = r /\ GoesOn(j)

\* The kinds of job, and whose run each one is in.
LEMMA KindsOfJob ==
    /\ \A n \in Nodes : n \in Jobs /\ n \notin Members /\ n \notin Councils /\ JobRun[n] = RunOf[n]
    /\ \A m \in Members : /\ m \in Jobs /\ m \in Spawns /\ m \notin Nodes /\ m \notin Councils
                          /\ CouncilOf[m] \in Councils
                          /\ JobRun[m] = RunOf[m] /\ JobRun[CouncilOf[m]] = RunOf[m]
    /\ \A c \in Councils : c \in Jobs /\ c \notin Nodes /\ c \notin Members
    /\ \A j \in Jobs : j \in Nodes \cup Members \cup Councils /\ JobRun[j] \in Runs
BY RunsAssumption, DirectoryAssumption DEF Jobs, JobRun

\* What a step does to the places of the jobs when it moves j alone, and when
\* it ends the jobs in S.
Moves(j, step) == pc' = [pc EXCEPT ![j] = step] /\ round' = round /\ phase' = phase
Ends(S, step) == Over(S, step) /\ phase' = phase

LEMMA NodeMoveKeeps ==
    ASSUME DOMAIN pc = Jobs, PlacesFit, SeatsFit, RoundsFit, JobsHaveRuns,
           NEW n \in Nodes,
           NEW step \in {"ready", "gate", "running", "checking"}, pc[n] # "done", Moves(n, step)
    PROVE  PlacesFit' /\ SeatsFit' /\ RoundsFit' /\ JobsHaveRuns'
BY KindsOfJob DEF Moves, PlacesFit, SeatsFit, RoundsFit, JobsHaveRuns

LEMMA MemberMoveKeeps ==
    ASSUME DOMAIN pc = Jobs, PlacesFit, SeatsFit, RoundsFit, JobsHaveRuns,
           NEW m \in Members,
           NEW step \in {"seated", "deliberating", "voted"},
           pc[m] \in {"waiting", "seated", "deliberating"}, Moves(m, step)
    PROVE  PlacesFit' /\ SeatsFit' /\ RoundsFit' /\ JobsHaveRuns'
<1>1. pc[CouncilOf[m]] = "sitting"
    BY DEF SeatsFit
<1> QED
    BY <1>1, KindsOfJob DEF Moves, PlacesFit, SeatsFit, RoundsFit, JobsHaveRuns

\* A council ends with its members.
LEMMA EndKeeps ==
    ASSUME DOMAIN pc = Jobs, PlacesFit, SeatsFit, RoundsFit, JobsHaveRuns,
           NEW S \in SUBSET Jobs, NEW step \in {"done", "failed"},
           \A m \in Members : CouncilOf[m] \in S => m \in S \/ pc[m] = "done",
           \A m \in Members : m \in S => CouncilOf[m] \in S \/ pc[CouncilOf[m]] = "closing",
           step = "failed" => \A j \in S : pc[j] # "done" \/ j \in Members,
           Ends(S, step)
    PROVE  PlacesFit' /\ SeatsFit' /\ RoundsFit' /\ JobsHaveRuns'
<1>1. /\ phase' = phase
      /\ DOMAIN pc' = Jobs
      /\ \A j \in Jobs : pc'[j] = IF j \notin S THEN pc[j] ELSE IF j \in Members THEN "done" ELSE step
      /\ DOMAIN round' = Councils
      /\ \A c \in Councils : round'[c] = IF c \in S THEN 0 ELSE round[c]
    BY DEF Ends, Over
<1>2. PlacesFit'
    BY <1>1, KindsOfJob DEF PlacesFit
<1>3. SeatsFit'
    BY <1>1, KindsOfJob DEF SeatsFit
<1>4. RoundsFit'
    BY <1>1, KindsOfJob DEF RoundsFit
<1>5. JobsHaveRuns'
    BY <1>1, KindsOfJob DEF JobsHaveRuns
<1> QED
    BY <1>2, <1>3, <1>4, <1>5

\* One step keeps every job in an open run and every member with its council.
LEMMA PlacesStep ==
    ASSUME CallerTypes, PlacesFit, SeatsFit, RoundsFit, JobsHaveRuns, [Next]_vars
    PROVE  PlacesFit' /\ SeatsFit' /\ RoundsFit' /\ JobsHaveRuns'
<1> DEFINE Goal == PlacesFit' /\ SeatsFit' /\ RoundsFit' /\ JobsHaveRuns'
<1>0. DOMAIN pc = Jobs
    BY DEF CallerTypes
<1>1. ASSUME NEW n \in Nodes, Preadmit(n) \/ Dispatch(n) \/ Attempt(n) \/ AgentSucceeds(n) \/ Recover(n)
      PROVE  Goal
    <2>1. \E step \in {"ready", "gate", "running", "checking"} : Moves(n, step)
        BY <1>1 DEF Preadmit, Dispatch, Attempt, AgentSucceeds, Recover, Goto, Moves
    <2>2. pc[n] # "done"
        BY <1>1 DEF Preadmit, Dispatch, Attempt, AgentSucceeds, Recover
    <2> QED
        BY <1>0, <2>1, <2>2, NodeMoveKeeps
<1>2. ASSUME NEW j \in Nodes \cup Councils, NEW step \in {"done", "failed"},
             pc[j] # "done",
             \A m \in Members : CouncilOf[m] = j => pc[m] = "done", Ends({j}, step)
      PROVE  Goal
    <2>1. j \in Jobs /\ j \notin Members
        BY KindsOfJob
    <2> QED
        BY <1>0, <1>2, <2>1, EndKeeps
<1>3. ASSUME NEW n \in Nodes, RejectBefore(n) \/ AgentFails(n) \/ Deliver(n) \/ Exhausted(n)
      PROVE  Goal
    <2>1. \E step \in {"done", "failed"} : Ends({n}, step)
        BY <1>3 DEF RejectBefore, AgentFails, Deliver, Exhausted, Ends
    <2>2. pc[n] # "done"
        BY <1>3 DEF RejectBefore, AgentFails, Deliver, Exhausted
    <2> QED
        BY <1>2, <2>1, <2>2, KindsOfJob
<1>4. ASSUME NEW j \in Nodes \cup Councils, FailEarly(j) \/ GiveUp(j)
      PROVE  Goal
    <2>1. \E step \in {"done", "failed"} : Ends({j}, step)
        BY <1>4 DEF FailEarly, GiveUp, Ends
    <2>2. pc[j] \in {"ready", "failed"}
        BY <1>4 DEF FailEarly, GiveUp
    <2> QED
        BY <1>2, <2>1, <2>2 DEF SeatsFit
<1>5. ASSUME NEW j \in Nodes \cup Councils, Interrupt(j)
      PROVE  Goal
    <2> DEFINE S == {j} \cup {m \in Members : CouncilOf[m] = j}
    <2>1. Ends(S, "failed") /\ pc[j] # "done"
        BY <1>5 DEF Interrupt, Ends
    <2>2. S \in SUBSET Jobs /\ j \notin Members
        BY KindsOfJob
    <2>3. \A m \in Members : m \in S <=> CouncilOf[m] \in S
        BY <2>2, KindsOfJob
    <2>4. \A k \in S : pc[k] # "done" \/ k \in Members
        BY <2>1
    <2> HIDE DEF S
    <2> QED
        BY <1>0, <2>1, <2>2, <2>3, <2>4, EndKeeps
<1>6. ASSUME NEW j \in Nodes \cup Councils, Retry(j)
      PROVE  Goal
    <2>1. Moves(j, "ready") /\ pc[j] = "failed"
        BY <1>6 DEF Retry, Goto, Moves
    <2>2. CASE j \in Nodes
        BY <1>0, <2>1, <2>2, NodeMoveKeeps
    <2>3. CASE j \in Councils
        BY <1>0, <2>1, <2>3, KindsOfJob
           DEF Moves, PlacesFit, SeatsFit, RoundsFit, JobsHaveRuns
    <2> QED
        BY <2>2, <2>3
<1>7. ASSUME NEW m \in Members, Seat(m) \/ Deliberate(m) \/ Vote(m)
      PROVE  Goal
    <2>1. \E step \in {"seated", "deliberating", "voted"} : Moves(m, step)
        BY <1>7 DEF Seat, Deliberate, Vote, Goto, Moves
    <2>2. pc[m] \in {"waiting", "seated", "deliberating"}
        BY <1>7 DEF Seat, Deliberate, Vote
    <2> QED
        BY <1>0, <2>1, <2>2, MemberMoveKeeps
<1>8. ASSUME NEW m \in Members, Complete(m)
      PROVE  Goal
    <2>1. Ends({m}, "done") /\ pc[CouncilOf[m]] = "closing"
        BY <1>8 DEF Complete, Ends
    <2> QED
        BY <1>0, <2>1, KindsOfJob, EndKeeps
<1>9. ASSUME NEW c \in Councils, Convene(c) \/ NextRound(c)
      PROVE  Goal
    <2>1. /\ pc' = [j \in Jobs |-> IF j = c THEN "sitting"
                                   ELSE IF j \in MembersOf(c) THEN "waiting" ELSE pc[j]]
          /\ phase' = phase /\ pc[c] # "done"
          /\ DOMAIN round' = Councils /\ round'[c] \in 1..MaxRounds
          /\ \A d \in Councils : d # c => round'[d] = round[d]
        BY <1>9, RunsAssumption DEF Convene, NextRound, AllVoted, Council, RoundsFit
    <2>2. PlacesFit'
        BY <2>1, KindsOfJob DEF PlacesFit, MembersOf
    <2>3. SeatsFit'
        BY <2>1, KindsOfJob DEF SeatsFit, MembersOf
    <2>4. RoundsFit'
        BY <2>1, KindsOfJob DEF RoundsFit, MembersOf
    <2>5. JobsHaveRuns'
        BY <2>1, KindsOfJob DEF JobsHaveRuns, MembersOf
    <2> QED
        BY <2>2, <2>3, <2>4, <2>5
<1>10. ASSUME NEW c \in Councils, Decide(c)
       PROVE  Goal
    <2>1. /\ Moves(c, "closing") /\ pc[c] = "sitting"
          /\ \A m \in Members : CouncilOf[m] = c => pc[m] = "voted"
        BY <1>10 DEF Decide, AllVoted, MembersOf, Goto, Moves
    <2> QED
        BY <1>0, <2>1, KindsOfJob DEF Moves, PlacesFit, SeatsFit, RoundsFit, JobsHaveRuns
<1>11. ASSUME NEW c \in Councils, Decided(c)
       PROVE  Goal
    <2>1. /\ Ends({c}, "done") /\ pc[c] # "done"
          /\ \A m \in Members : CouncilOf[m] = c => pc[m] = "done"
        BY <1>11 DEF Decided, MembersOf, Ends
    <2> QED
        BY <1>2, <2>1
<1>12. ASSUME NEW r \in Runs, Call(r)
       PROVE  Goal
    <2>1. PICK S \in SUBSET (JobsOf(r) \ Members) :
              pc' = [j \in Jobs |-> IF j \notin S THEN pc[j]
                                    ELSE IF j \in Peers THEN "unadmitted" ELSE "ready"]
        BY <1>12 DEF Call
    <2>2. phase[r] = "idle" /\ phase' = [phase EXCEPT ![r] = "open"] /\ round' = round
        BY <1>12 DEF Call
    <2>3. \A j \in Jobs : JobRun[j] = r => pc[j] = "done"
        BY <2>2 DEF JobsHaveRuns
    <2>4. \A j \in S : j \in Jobs /\ JobRun[j] = r /\ j \notin Members
        BY DEF JobsOf
    <2>5. Peers \subseteq Nodes
        BY RunsAssumption
    <2>6. PlacesFit'
        BY <2>1, <2>2, <2>4, <2>5, KindsOfJob DEF PlacesFit
    <2>7. SeatsFit'
        BY <2>1, <2>3, <2>4, <2>5, KindsOfJob DEF SeatsFit
    <2>8. RoundsFit'
        BY <2>1, <2>2, <2>4, KindsOfJob DEF RoundsFit
    <2>9. JobsHaveRuns'
        BY <2>1, <2>2, <2>4, KindsOfJob DEF JobsHaveRuns, PlacesFit
    <2> QED
        BY <2>6, <2>7, <2>8, <2>9
<1>13. ASSUME NEW r \in Runs, EndEarly(r)
       PROVE  Goal
    <2>1. Ends(JobsOf(r), "done")
        BY <1>13 DEF EndEarly, Ends
    <2>2. /\ JobsOf(r) \in SUBSET Jobs
          /\ \A m \in Members : m \in JobsOf(r) <=> CouncilOf[m] \in JobsOf(r)
        BY KindsOfJob DEF JobsOf
    <2> QED
        BY <1>0, <2>1, <2>2, EndKeeps
<1>14. ASSUME NEW r \in Runs, Return(r)
       PROVE  Goal
    <2>1. /\ phase' = [phase EXCEPT ![r] = "idle"] /\ pc' = pc /\ round' = round
          /\ \A j \in Jobs : JobRun[j] = r => pc[j] = "done"
        BY <1>14 DEF Return
    <2> QED
        BY <2>1, KindsOfJob DEF PlacesFit, SeatsFit, RoundsFit, JobsHaveRuns
<1>15. CASE Die
    <2>1. /\ phase' = [r \in Runs |-> "idle"] /\ pc' = [j \in Jobs |-> "done"]
          /\ round' = [c \in Councils |-> 0]
        BY <1>15, KindsOfJob DEF Die, Over
    <2> QED
        BY <2>1, KindsOfJob DEF PlacesFit, SeatsFit, RoundsFit, JobsHaveRuns
<1>16. CASE UNCHANGED vars
    BY <1>16 DEF vars, callers, PlacesFit, SeatsFit, RoundsFit, JobsHaveRuns, MembersOf
<1> QED
    BY <1>1, <1>3, <1>4, <1>5, <1>6, <1>7, <1>8, <1>9, <1>10, <1>11, <1>12, <1>13, <1>14, <1>15, <1>16
       DEF Next, NodeStep, MemberStep, CouncilStep, RetryStep

\* A spawn becomes known only at work, and none is known after its run.
LEMMA LeftBehindStep ==
    ASSUME IInv, RunInv, [Next]_vars
    PROVE  NothingIsLeftBehind'
<1> USE DEF NothingIsLeftBehind
<1>0. /\ DirectoryInv /\ PlacesFit /\ JobsHaveRuns
      /\ \A p \in DOMAIN index : phase[RunOf[p]] = "open" /\ RunOf[p] \in Runs
    <2>1. \A p \in DOMAIN index : p \in Spawns
        BY KnownHasIdentity DEF IInv
    <2> QED
        BY <2>1, DirectoryAssumption DEF IInv, RunInv
<1>1. ASSUME index' = index \/ DOMAIN index' = {}, phase' = phase
      PROVE  NothingIsLeftBehind'
    BY <1>0, <1>1
<1>2. ASSUME NEW p \in Spawns, NEW a \in Agents, Create(p, a), phase' = phase, pc[p] # "done"
      PROVE  NothingIsLeftBehind'
    <2>1. DOMAIN index' = DOMAIN index \cup {p}
        BY <1>0, <1>2, CreatedInstances, Zenon
    <2>2. p \in Jobs /\ JobRun[p] = RunOf[p]
        BY DEF Jobs, JobRun
    <2> QED
        BY <1>0, <1>2, <2>1, <2>2 DEF JobsHaveRuns
<1>3. ASSUME NEW p \in Spawns, NEW a \in Agents, Admitted(p, a), phase' = phase, pc[p] # "done"
      PROVE  NothingIsLeftBehind'
    BY <1>1, <1>2, <1>3 DEF Admitted, directory
<1>4. ASSUME NEW n \in Nodes, Preadmit(n)
      PROVE  NothingIsLeftBehind'
    BY <1>1, <1>2, <1>4, RunsAssumption DEF Preadmit, directory
<1>5. ASSUME NEW n \in Nodes, Dispatch(n)
      PROVE  NothingIsLeftBehind'
    BY <1>3, <1>5, RunsAssumption DEF Dispatch
<1>6. ASSUME NEW m \in Members, Seat(m)
      PROVE  NothingIsLeftBehind'
    BY <1>3, <1>6, RunsAssumption DEF Seat
<1>7. ASSUME NEW n \in Nodes, \/ FailEarly(n) \/ RejectBefore(n) \/ Attempt(n) \/ AgentFails(n)
                              \/ AgentSucceeds(n) \/ Deliver(n) \/ Recover(n) \/ Exhausted(n)
      PROVE  NothingIsLeftBehind'
    BY <1>1, <1>7 DEF FailEarly, RejectBefore, Attempt, AgentFails, AgentSucceeds, Deliver, Recover,
                      Exhausted, Settle, Transition, Move, directory
<1>8. ASSUME NEW m \in Members, Deliberate(m) \/ Vote(m) \/ Complete(m)
      PROVE  NothingIsLeftBehind'
    BY <1>1, <1>8 DEF Deliberate, Vote, Complete, Settle, Transition, Move, directory
<1>9. ASSUME NEW c \in Councils, CouncilStep(c)
      PROVE  NothingIsLeftBehind'
    BY <1>1, <1>9 DEF CouncilStep, FailEarly, Convene, NextRound, Decide, Decided, directory
<1>10. ASSUME NEW j \in Nodes \cup Councils, Interrupt(j) \/ RetryStep(j)
       PROVE  NothingIsLeftBehind'
    BY <1>1, <1>10 DEF Interrupt, RetryStep, Retry, GiveUp, directory
<1>11. ASSUME NEW r \in Runs, Call(r)
       PROVE  NothingIsLeftBehind'
    <2>1. index' = index /\ phase' = [phase EXCEPT ![r] = "open"]
        BY <1>11 DEF Call, directory
    <2> QED
        BY <1>0, <2>1 DEF PlacesFit
<1>12. ASSUME NEW r \in Runs, EndEarly(r)
       PROVE  NothingIsLeftBehind'
    BY <1>1, <1>12 DEF EndEarly, directory
<1>13. ASSUME NEW r \in Runs, Return(r)
       PROVE  NothingIsLeftBehind'
    <2>1. DOMAIN index' = {p \in DOMAIN index : RunOf[p] # r}
        BY <1>0, <1>13, DisposedInstances DEF Return
    <2>2. phase' = [phase EXCEPT ![r] = "idle"]
        BY <1>13 DEF Return
    <2> QED
        BY <1>0, <2>1, <2>2 DEF PlacesFit
<1>14. CASE Die
    BY <1>14 DEF Die, Restart
<1>15. CASE UNCHANGED vars
    BY <1>1, <1>15 DEF vars, directory, callers
<1> QED
    BY <1>4, <1>5, <1>6, <1>7, <1>8, <1>9, <1>10, <1>11, <1>12, <1>13, <1>14, <1>15
       DEF Next, NodeStep, MemberStep

LEMMA RunInvHolds == Spec => []RunInv
<1>1. Init => RunInv
    BY KindsOfJob
       DEF Init, DirectoryInit, RunInv, PlacesFit, SeatsFit, RoundsFit, JobsHaveRuns,
           NothingIsLeftBehind
<1>2. IInv /\ RunInv /\ [Next]_vars => RunInv'
    BY PlacesStep, LeftBehindStep DEF IInv, RunInv
<1> QED
    BY <1>1, <1>2, InvariantHolds, PTL DEF Spec

\* After a run's executor.run has returned, the directory knows none of its
\* spawns, however its nodes and councils ended: what timed out, was cancelled,
\* lost an auction or never voted goes with the run (executor.py:1154).  So an
\* instance can be left unsettled only while its run is open.
THEOREM RunsLeaveNothingBehind == Spec => []NothingIsLeftBehind
<1>1. RunInv => NothingIsLeftBehind
    BY DEF RunInv
<1> QED
    BY <1>1, RunInvHolds, PTL

\* A set of numbers has a least one.
LEMMA LeastNumber ==
    ASSUME NEW S \in SUBSET Nat, S # {}
    PROVE  \E n \in S : \A m \in S : n <= m
<1> DEFINE R == OpToRel(<, Nat)
<1>1. IsWellFoundedOn(R, Nat)
    BY NatLessThanWellFounded
<1>2. \A m, n \in Nat : m < n => <<m, n>> \in R
    BY DEF OpToRel
<1> HIDE DEF R
<1>3. PICK n \in S : \A m \in S : ~ (<<m, n>> \in R)
    BY <1>1, WFMin
<1>4. ASSUME NEW m \in S
      PROVE  n <= m
    <2>1. ~ (m < n)
        BY <1>2, <1>3
    <2> QED
        BY <2>1
<1> QED
    BY <1>4

\* While a council sits or closes, one of its members or itself goes on: the
\* semaphore is not used up unless somebody who has it deliberates.
LEMMA CouncilGoesOn ==
    ASSUME RunInv, NEW c \in Councils, pc[c] \in {"sitting", "closing"}
    PROVE  \E j \in MembersOf(c) \cup {c} : GoesOn(j)
<1>1. \A m \in MembersOf(c) : /\ m \in Members /\ CouncilOf[m] = c
                              /\ pc[m] \in {"done", "waiting", "seated", "deliberating", "voted"}
                              /\ pc[c] = "sitting" => pc[m] # "done"
                              /\ pc[c] = "closing" => pc[m] \in {"done", "voted"}
    BY DEF MembersOf, RunInv, PlacesFit, SeatsFit
<1>2. CASE pc[c] = "closing"
    <2>1. CASE \A m \in MembersOf(c) : pc[m] = "done"
        BY <1>2, <2>1 DEF GoesOn
    <2>2. ASSUME NEW m \in MembersOf(c), pc[m] # "done"
          PROVE  GoesOn(m)
        BY <1>1, <1>2, <2>2 DEF GoesOn
    <2> QED
        BY <2>1, <2>2
<1>3. CASE pc[c] = "sitting"
    <2>1. CASE \A m \in MembersOf(c) : pc[m] = "voted"
        BY <1>3, <2>1 DEF GoesOn, AllVoted
    <2>2. ASSUME NEW m \in MembersOf(c), pc[m] \in {"seated", "deliberating"}
          PROVE  GoesOn(m)
        BY <2>2 DEF GoesOn
    <2>3. ASSUME NEW m \in MembersOf(c), pc[m] = "waiting",
                 \A k \in MembersOf(c) : pc[k] \notin {"seated", "deliberating"}
          PROVE  GoesOn(m)
        <3>1. Deliberating(CouncilOf[m]) = {}
            BY <1>1, <2>3 DEF Deliberating
        <3>2. Cardinality(Deliberating(CouncilOf[m])) = 0
            BY <3>1, FS_EmptySet
        <3> QED
            BY <2>3, <3>2, RunsAssumption DEF GoesOn
    <2> QED
        BY <1>1, <1>3, <2>1, <2>2, <2>3
<1> QED
    BY <1>2, <1>3

\* A run whose nodes wait for each other is a run whose earliest ones do not.
LEMMA EarliestGoesOn ==
    ASSUME RunInv, NEW r \in Runs,
           NEW j \in Nodes \cup Councils, JobRun[j] = r, pc[j] # "done",
           \A k \in Nodes \cup Councils :
               JobRun[k] = r => pc[k] \in {"done", "unadmitted", "ready"}
    PROVE  \E k \in Jobs : JobRun[k] = r /\ GoesOn(k)
<1> DEFINE Open == {k \in Nodes \cup Councils : JobRun[k] = r /\ pc[k] # "done"}
           S == {Stage[k] : k \in Open}
<1>1. \A k \in Open : Stage[k] \in Nat
    BY RunsAssumption
<1>2. PICK n \in S : \A m \in S : n <= m
    <2>1. S \in SUBSET Nat /\ S # {}
        BY <1>1
    <2> QED
        BY <2>1, LeastNumber
<1>3. PICK k \in Open : Stage[k] = n
    OBVIOUS
<1>4. ASSUME NEW i \in Open, Stage[i] = n
      PROVE  Due(i)
    <2> SUFFICES ASSUME NEW l \in Nodes \cup Councils, JobRun[l] = r, Stage[l] < Stage[i],
                        pc[l] # "done"
                 PROVE  FALSE
        BY DEF Due
    <2>1. Stage[l] \in S /\ Stage[l] \in Nat /\ Stage[i] \in Nat
        BY <1>1
    <2> QED
        BY <1>2, <1>4, <2>1
<1>5. k \in Jobs /\ JobRun[k] = r /\ pc[k] \in {"unadmitted", "ready"} /\ Due(k)
    BY <1>3, <1>4, KindsOfJob
<1>6. CASE pc[k] = "unadmitted" \/ (k \in Nodes => PeersAdmitted(k))
    BY <1>5, <1>6 DEF GoesOn
<1>7. CASE k \in Nodes /\ ~PeersAdmitted(k)
    <2>1. PICK l \in Peers : RunOf[l] = RunOf[k] /\ Stage[l] = Stage[k] /\ pc[l] = "unadmitted"
        BY <1>7 DEF PeersAdmitted
    <2>2. l \in Open /\ Stage[l] = n /\ l \in Jobs /\ JobRun[l] = r
        BY <1>3, <1>5, <1>7, <2>1, RunsAssumption, KindsOfJob
    <2>3. GoesOn(l)
        BY <1>4, <2>1, <2>2 DEF GoesOn
    <2> QED
        BY <2>2, <2>3
<1> QED
    BY <1>6, <1>7

\* An open run can return or one of its jobs can go on: nodes that wait for
\* those before them, siblings below a PARALLEL node that wait for the
\* admission of all, members that wait for the council's semaphore, and
\* councils that wait for their members never wait for each other
\* (executor.py and council.py:90-130).
THEOREM RunsNeverDeadlock == Spec => []OpenRunsGoOn
<1>1. RunInv => OpenRunsGoOn
    <2> SUFFICES ASSUME RunInv, NEW r \in Runs, NEW j \in Jobs, JobRun[j] = r, pc[j] # "done"
                 PROVE  \E k \in Jobs : JobRun[k] = r /\ GoesOn(k)
        BY DEF OpenRunsGoOn
    <2>1. ASSUME NEW c \in Councils, JobRun[c] = r, pc[c] \in {"sitting", "closing"}
          PROVE  \E k \in Jobs : JobRun[k] = r /\ GoesOn(k)
        <3>1. \A k \in MembersOf(c) \cup {c} : k \in Jobs /\ JobRun[k] = r
            BY <2>1, KindsOfJob DEF MembersOf
        <3> QED
            BY <2>1, <3>1, CouncilGoesOn
    <2>2. ASSUME NEW k \in Nodes \cup Councils, JobRun[k] = r,
                 pc[k] \in {"gate", "running", "checking", "failed"}
          PROVE  \E l \in Jobs : JobRun[l] = r /\ GoesOn(l)
        BY <2>2, KindsOfJob DEF GoesOn
    <2>3. CASE j \in Members
        <3>1. pc[CouncilOf[j]] \in {"sitting", "closing"}
            BY <2>3 DEF RunInv, SeatsFit
        <3> QED
            BY <2>1, <2>3, <3>1, KindsOfJob
    <2>4. CASE j \in Nodes \cup Councils
        <3>1. ASSUME \A c \in Councils : JobRun[c] = r => pc[c] \notin {"sitting", "closing"},
                     \A k \in Nodes \cup Councils :
                         JobRun[k] = r => pc[k] \notin {"gate", "running", "checking", "failed"}
              PROVE  \E k \in Jobs : JobRun[k] = r /\ GoesOn(k)
            <4>1. \A k \in Nodes \cup Councils :
                      JobRun[k] = r => pc[k] \in {"done", "unadmitted", "ready"}
                BY <3>1 DEF RunInv, PlacesFit
            <4> QED
                BY <2>4, <4>1, EarliestGoesOn
        <3> QED
            BY <2>1, <2>2, <3>1
    <2> QED
        BY <2>3, <2>4, KindsOfJob
<1> QED
    BY <1>1, RunInvHolds, PTL
=============================================================================

-------------------------- MODULE DagExecutor_proofs --------------------------
(***************************************************************************)
(* Proofs about DagExecutor, for any set of graphs and any bounds.  The    *)
(* argument: what the checkpointer would have a resume restore is part of  *)
(* what the running call knows (SavedIsKnown), so that no node it holds is *)
(* run again; and a failed node that ends the run is the current one       *)
(* until then, so that every checkpoint names it.                          *)
(***************************************************************************)
EXTENDS DagExecutor, Integers, FiniteSetTheorems, TLAPS

-----------------------------------------------------------------------------
(***************************************************************************)
(* The inductive invariant.                                                *)
(***************************************************************************)

Results == {"absent", "ok", "failed"}
Choices == {None} \cup SUBSET Nodes
Checkpoints == [status: {"RUNNING", "FAILED", "COMPLETED"}, completed: SUBSET Nodes,
                failed: Nodes \cup {None}, routes: [Nodes -> Choices], context: SUBSET Nodes]

Types ==
    /\ dag \in Dags
    /\ i \in Nat \ {0} /\ count \in Nat /\ faults \in Nat
    /\ result \in [Nodes -> Results] /\ truth \in [Nodes -> Results]
    /\ recorded \subseteq Nodes /\ context \subseteq Nodes
    /\ routes \in [Nodes -> Choices] /\ decided \in [Nodes -> Choices]
    /\ ckpt \in {None} \cup Checkpoints

\* What is there at each step of a call.
Running == {"node", "announce", "save", "verdict", "fail"}
StepsFit ==
    /\ pc \in {"announce", "save", "verdict", "fail"} => i <= Len(Order)
    /\ pc = "fail" => result[Node] = "failed"
    /\ pc \in {"idle", "initial"} => result = Absent /\ routes = Unrouted /\ context = {} /\ count = 0
    /\ pc = "initial" => ckpt = None
    /\ pc \in Running => ckpt # None

\* Only a node that makes a choice has one.
Chooses(n) == dag.kind[n] \in {"router", "conditional"} /\ dag.routes[n] # {}
ChoicesFit ==
    \A n \in Nodes :
        /\ routes[n] # None \/ decided[n] # None => Chooses(n)
        /\ ckpt # None => (ckpt.routes[n] # None => Chooses(n))

\* The nodes the properties speak of.
Plain == Terminal \cap Standalone

\* A success that counts is one that happened.
ResultsAreReal == \A n \in Plain : result[n] = "ok" => truth[n] = "ok"

\* What a resume would restore, the running call knows.
SavedIsKnown == pc # "idle" => Saved \subseteq Done

\* A failure that ends the run is that of the current node, until it has.
FailuresAreCurrent ==
    \A n \in Plain : result[n] = "failed" =>
        pc \in {"announce", "save", "verdict", "fail", "announce_fail"} /\ n = Node

\* A node that has just run, or has failed, is not yet restored as a success.
CurrentIsUnsaved ==
    pc \in {"announce", "save"} \/ (pc \in {"verdict", "fail"} /\ result[Node] = "failed")
        => Node \notin Saved

\* The choices in force are those last made.
ChoicesStand ==
    \A n \in Standalone :
        /\ result[n] # "absent" => routes[n] = decided[n]
        /\ n \in Saved => ckpt.routes[n] = decided[n]

Untroubled ==
    /\ pc \notin {"except", "announce_except"}
    /\ ResultsAreReal /\ Genuine
    /\ SavedIsKnown /\ FailuresAreCurrent /\ CurrentIsUnsaved
    /\ ChoicesStand

IInv ==
    /\ Types
    /\ StepsFit
    /\ ChoicesFit
    /\ Unfaulted => Untroubled
    /\ ContextHoldsOutputs

-----------------------------------------------------------------------------
(***************************************************************************)
(* The graph.                                                              *)
(***************************************************************************)

LEMMA DagFacts ==
    ASSUME Types
    PROVE  /\ Order \in Seq(Nodes) /\ None \notin Nodes
           /\ \A e \in dag.edges : e.source \in Nodes /\ e.target \in Nodes
           /\ dag.inner \in [Nodes -> Seq(Nodes)]
           /\ dag.routes \in [Nodes -> SUBSET (BOOLEAN \X SUBSET Nodes)]
           /\ dag.interval \in Nat \ {0}
           /\ None \notin Checkpoints
           /\ \A s \in SUBSET Nodes : s # None
<1>1. IsDag(dag)
    BY DagAssumption DEF Types
<1>2. Nodes = {dag.order[k] : k \in 1..Len(dag.order)}
    BY DEF Nodes, Order
<1> QED
    BY <1>1, <1>2 DEF IsDag, Checkpoints, Choices, Order

LEMMA CurrentNode ==
    ASSUME Types, i <= Len(Order)
    PROVE  Node \in Nodes
<1>1. Len(Order) \in Nat /\ i \in 1..Len(Order)
    BY DagFacts DEF Types
<1> QED
    BY <1>1 DEF Node, Nodes

LEMMA InnerNodes ==
    ASSUME Types, NEW n \in Nodes
    PROVE  /\ InnerOf(n) \subseteq Nodes
           /\ InnerOf(n) \cap Standalone = {}
<1>1. dag.inner[n] \in Seq(Nodes)
    BY DagFacts
<1>2. InnerOf(n) \subseteq Nodes
    BY <1>1 DEF InnerOf
<1> QED
    BY <1>2 DEF Standalone

\* The graph of a run does not change, nor does what it defines.
LEMMA SameGraph ==
    ASSUME dag' = dag
    PROVE  /\ Order' = Order /\ Nodes' = Nodes
           /\ Terminal' = Terminal /\ Standalone' = Standalone /\ Plain' = Plain
           /\ Absent' = Absent /\ Unrouted' = Unrouted
           /\ Results' = Results /\ Choices' = Choices /\ Checkpoints' = Checkpoints
           /\ \A n : Chooses(n)' = Chooses(n)
<1>1. Order' = Order /\ Nodes' = Nodes
    BY DEF Order, Nodes
<1>2. Standalone' = Standalone
    BY <1>1 DEF Standalone, InnerOf
<1>3. Terminal' = Terminal
    BY <1>1 DEF Terminal
<1>4. \A n : Chooses(n)' = Chooses(n)
    BY DEF Chooses
<1> QED
    BY <1>1, <1>2, <1>3, <1>4 DEF Plain, Absent, Unrouted, Results, Choices, Checkpoints

-----------------------------------------------------------------------------
(***************************************************************************)
(* Remainders.                                                             *)
(***************************************************************************)

LEMMA ModBound ==
    ASSUME NEW x \in Nat, NEW y \in Nat \ {0}
    PROVE  x % y \in 0..(y - 1)
OBVIOUS

LEMMA Position ==
    ASSUME NEW x \in Nat, NEW y \in Nat \ {0}
    PROVE  (x % y) + 1 \in 1..y
BY ModBound

LEMMA DivMod ==
    ASSUME NEW x \in Nat, NEW y \in Nat \ {0}
    PROVE  x = y * (x \div y) + (x % y) /\ (x \div y) \in Int
OBVIOUS

LEMMA AtLeast ==
    ASSUME NEW y \in Nat \ {0}, NEW d \in Int, d >= 1
    PROVE  y * d >= y
OBVIOUS

\* Where it does not wrap around, the remainder of the successor is the successor's.
LEMMA NoWrap ==
    ASSUME NEW x \in Nat, NEW y \in Nat \ {0}, (x + 1) % y # 0
    PROVE  (x % y) + 1 = (x + 1) % y
<1> DEFINE p == x \div y
           q == (x + 1) \div y
           r == x % y
           s == (x + 1) % y
<1>1. /\ p \in Int /\ r \in 0..(y - 1) /\ x = y * p + r
      /\ q \in Int /\ s \in 0..(y - 1) /\ s # 0 /\ x + 1 = y * q + s
    <2>1. x + 1 \in Nat
        OBVIOUS
    <2>2. p \in Int /\ r \in 0..(y - 1) /\ x = y * p + r
        BY ModBound, DivMod
    <2>3. q \in Int /\ s \in 0..(y - 1) /\ x + 1 = y * q + s
        <3> HIDE DEF p, r
        <3> QED
            BY <2>1, ModBound, DivMod
    <2> QED
        BY <2>2, <2>3
<1> HIDE DEF p, q, r, s
<1> DEFINE d == q - p
           e == p - q
<1>2. d \in Int /\ y * q = y * p + y * d /\ e \in Int /\ y * p = y * q + y * e
    BY <1>1
<1>3. y * p \in Int /\ y * q \in Int /\ y * d \in Int /\ y * e \in Int
    BY <1>1, <1>2
<1>4. d < 1
    <2>1. ASSUME d >= 1 PROVE FALSE
        <3>1. y * d >= y
            BY <1>2, <2>1, AtLeast
        <3> HIDE DEF d
        <3> QED
            BY <1>1, <1>2, <1>3, <3>1
    <2> QED
        BY <1>2, <2>1
<1>5. e < 1
    <2>1. ASSUME e >= 1 PROVE FALSE
        <3>1. y * e >= y
            BY <1>2, <2>1, AtLeast
        <3> HIDE DEF e
        <3> QED
            BY <1>1, <1>2, <1>3, <3>1
    <2> QED
        BY <1>2, <2>1
<1>6. p = q
    BY <1>1, <1>4, <1>5
<1>7. s = r + 1
    BY <1>1, <1>3, <1>6
<1> QED
    BY <1>7 DEF r, s

-----------------------------------------------------------------------------
(***************************************************************************)
(* The execution of a node, whatever its kind.                             *)
(***************************************************************************)

Ran ==
    /\ pc = "node" /\ pc' = "announce" /\ Node \in Nodes /\ i <= Len(Order)
    /\ Node \notin Done /\ ShouldExecute(Node)
    /\ UNCHANGED <<dag, i, ckpt, attempts, faults>>
    /\ result' \in [Nodes -> Results] /\ truth' \in [Nodes -> Results]
    /\ result'[Node] \in {"ok", "failed"} /\ truth'[Node] = result'[Node]
    /\ \A n \in Nodes : result[n] # "absent" => result'[n] # "absent"
    /\ \A n \in Nodes : n # Node /\ n \notin InnerOf(Node) =>
            result'[n] = result[n] /\ truth'[n] = truth[n]
    /\ recorded' \subseteq Nodes /\ count' \in Nat
    /\ context \subseteq context' /\ context' \subseteq Nodes
    /\ dag.kind[Node] = "task" /\ result'[Node] = "ok" => Node \in context'
    /\ routes' \in [Nodes -> Choices] /\ decided' \in [Nodes -> Choices]
    /\ \A n \in Nodes : n # Node => routes'[n] = routes[n] /\ decided'[n] = decided[n]
    /\ routes'[Node] = decided'[Node]
    /\ routes'[Node] # None => Chooses(Node)
    /\ Standalone = Nodes => count' = count + 1

LEMMA TaskRan ==
    ASSUME Types, ChoicesFit, ExecuteTask PROVE Ran
<1>1. Node \in Nodes
    BY CurrentNode DEF ExecuteTask, Executes
<1>2. PICK ok \in BOOLEAN : Conclude(ok, Absent, Absent, 1, IF ok THEN {Node} ELSE {})
    BY DEF ExecuteTask
<1>3. PICK blocked \in BOOLEAN :
        /\ blocked => ok
        /\ LET own == IF ok /\ ~blocked THEN "ok" ELSE "failed"
           IN /\ result' = [n \in Nodes |-> IF n = Node THEN own ELSE result[n]]
              /\ truth' = [n \in Nodes |-> IF n = Node THEN own ELSE truth[n]]
        /\ recorded' = recorded \cup {Node}
        /\ count' = count + 1
        /\ context' = IF blocked THEN context ELSE context \cup (IF ok THEN {Node} ELSE {})
    BY <1>2 DEF Conclude, Absent, Types
<1>4. routes[Node] = decided[Node] /\ (routes[Node] # None => Chooses(Node))
    BY <1>1, Zenon DEF ExecuteTask, Executes, ChoicesFit, Chooses
<1> QED
    BY <1>1, <1>3, <1>4 DEF Ran, ExecuteTask, Executes, Types, Results, Done

LEMMA CheckpointNodeRan ==
    ASSUME Types, ChoicesFit, ExecuteCheckpointNode PROVE Ran
<1>1. Node \in Nodes
    BY CurrentNode DEF ExecuteCheckpointNode, Executes
<1>2. Conclude(TRUE, Absent, Absent, 1, {})
    BY DEF ExecuteCheckpointNode
<1>3. PICK own \in {"ok", "failed"} :
        /\ result' = [n \in Nodes |-> IF n = Node THEN own ELSE result[n]]
        /\ truth' = [n \in Nodes |-> IF n = Node THEN own ELSE truth[n]]
        /\ recorded' = recorded \cup {Node}
        /\ count' = count + 1
        /\ context' = context
    BY <1>2 DEF Conclude, Absent, Types
<1>4. routes[Node] = decided[Node] /\ (routes[Node] # None => Chooses(Node))
    BY <1>1, Zenon DEF ExecuteCheckpointNode, Executes, ChoicesFit, Chooses
<1> QED
    BY <1>1, <1>3, <1>4 DEF Ran, ExecuteCheckpointNode, Executes, Types, Results, Done

LEMMA RoutingRan ==
    ASSUME Types, ChoicesFit, ExecuteRouting PROVE Ran
<1>1. PICK kind \in {"router", "conditional"} : Executes(kind)
    BY DEF ExecuteRouting
<1>2. Node \in Nodes /\ dag.kind[Node] \in {"router", "conditional"}
    BY <1>1, CurrentNode DEF Executes
<1>3. PICK ok \in BOOLEAN :
        Conclude(ok, Absent, Absent, 1, IF ok THEN {Node} ELSE {})
    <2>1. ASSUME NEW choice \in dag.routes[Node] PROVE choice[1] \in BOOLEAN
        BY <1>2, DagFacts
    <2> QED
        BY <2>1 DEF ExecuteRouting
<1>4. PICK own \in {"ok", "failed"} :
        /\ result' = [n \in Nodes |-> IF n = Node THEN own ELSE result[n]]
        /\ truth' = [n \in Nodes |-> IF n = Node THEN own ELSE truth[n]]
        /\ recorded' = recorded \cup {Node}
        /\ count' = count + 1
        /\ context \subseteq context' /\ context' \subseteq context \cup {Node}
    BY <1>3 DEF Conclude, Absent, Types
<1>5. /\ routes' \in [Nodes -> Choices] /\ decided' \in [Nodes -> Choices]
      /\ \A n \in Nodes : n # Node => routes'[n] = routes[n] /\ decided'[n] = decided[n]
      /\ routes'[Node] = decided'[Node]
      /\ routes'[Node] # None => Chooses(Node)
    <2>1. CASE dag.routes[Node] = {} /\ UNCHANGED <<routes, decided>>
        <3>1. routes[Node] = None /\ decided[Node] = None
            BY <1>2, <2>1 DEF ChoicesFit, Chooses
        <3> QED
            BY <2>1, <3>1 DEF Types
    <2>2. CASE \E choice \in dag.routes[Node] :
                  /\ routes' = [routes EXCEPT ![Node] = choice[2]]
                  /\ decided' = [decided EXCEPT ![Node] = choice[2]]
        <3>1. PICK choice \in dag.routes[Node] :
                  /\ routes' = [routes EXCEPT ![Node] = choice[2]]
                  /\ decided' = [decided EXCEPT ![Node] = choice[2]]
            BY <2>2
        <3>2. choice[2] \in Choices
            BY <1>2, DagFacts DEF Choices
        <3>3. Chooses(Node)
            BY <1>2, <3>1 DEF Chooses
        <3> QED
            BY <1>2, <3>1, <3>2, <3>3 DEF Types
    <2> QED
        BY <2>1, <2>2 DEF ExecuteRouting
<1> QED
    BY <1>1, <1>2, <1>4, <1>5 DEF Ran, Executes, Types, Results, Done

\* An aggregate that contains nodes leaves some node not standalone.
LEMMA NothingInside ==
    ASSUME Types, Node \in Nodes, Standalone = Nodes
    PROVE  Len(dag.inner[Node]) = 0
<1>1. dag.inner[Node] \in Seq(Nodes) /\ InnerOf(Node) \cap Standalone = {} /\ InnerOf(Node) \subseteq Nodes
    BY DagFacts, InnerNodes
<1>2. ASSUME Len(dag.inner[Node]) > 0 PROVE FALSE
    BY <1>1, <1>2 DEF InnerOf
<1> QED
    BY <1>1, <1>2

LEMMA ParallelRan ==
    ASSUME Types, ChoicesFit, ExecuteParallel PROVE Ran
<1>1. Node \in Nodes /\ InnerOf(Node) \subseteq Nodes /\ InnerOf(Node) \cap Standalone = {}
    BY CurrentNode, InnerNodes DEF ExecuteParallel, Executes
<1>2. PICK good \in SUBSET InnerOf(Node) :
        LET ended == [n \in Nodes |-> IF n \in good THEN "ok"
                                      ELSE IF n \in InnerOf(Node) THEN "failed" ELSE "absent"]
            ok == InnerOf(Node) # {} /\ good = InnerOf(Node)
        IN Conclude(ok, ended, ended, 1 + Len(dag.inner[Node]),
                    good \cup (IF ok THEN {Node} ELSE {}))
    BY DEF ExecuteParallel
<1> DEFINE ended == [n \in Nodes |-> IF n \in good THEN "ok"
                                     ELSE IF n \in InnerOf(Node) THEN "failed" ELSE "absent"]
<1> DEFINE ok == InnerOf(Node) # {} /\ good = InnerOf(Node)
<1>3. Conclude(ok, ended, ended, 1 + Len(dag.inner[Node]), good \cup (IF ok THEN {Node} ELSE {}))
    BY <1>2
<1>4. ended \in [Nodes -> Results] /\ \A n \in Nodes : n \notin InnerOf(Node) => ended[n] = "absent"
    BY <1>1 DEF Results
<1> HIDE DEF ended
<1>5. PICK own \in {"ok", "failed"} :
        /\ result' = [n \in Nodes |-> IF n = Node THEN own
                                      ELSE IF ended[n] # "absent" THEN ended[n] ELSE result[n]]
        /\ truth' = [n \in Nodes |-> IF n = Node THEN own
                                     ELSE IF ended[n] # "absent" THEN ended[n] ELSE truth[n]]
    BY <1>3 DEF Conclude
<1>6. /\ recorded' \subseteq Nodes
      /\ context \subseteq context' /\ context' \subseteq Nodes
      /\ count' = count + (1 + Len(dag.inner[Node]))
    BY <1>1, <1>3 DEF Conclude, Types
<1>7. routes[Node] = decided[Node] /\ (routes[Node] # None => Chooses(Node))
    BY <1>1, Zenon DEF ExecuteParallel, Executes, ChoicesFit, Chooses
<1>8. Len(dag.inner[Node]) \in Nat /\ (Standalone = Nodes => Len(dag.inner[Node]) = 0)
    <2>1. dag.inner[Node] \in Seq(Nodes)
        BY <1>1, DagFacts
    <2>2. ASSUME Standalone = Nodes, Len(dag.inner[Node]) > 0 PROVE FALSE
        BY <1>1, <2>1, <2>2 DEF InnerOf
    <2> QED
        BY <2>1, <2>2
<1>9. result' \in [Nodes -> Results] /\ truth' \in [Nodes -> Results]
    BY <1>4, <1>5 DEF Types, Results
<1>10. /\ result'[Node] = own /\ truth'[Node] = own
       /\ \A n \in Nodes : n # Node /\ n \notin InnerOf(Node) =>
            result'[n] = result[n] /\ truth'[n] = truth[n]
       /\ \A n \in Nodes : result[n] # "absent" => result'[n] # "absent"
    BY <1>1, <1>4, <1>5
<1>11. count' \in Nat /\ (Standalone = Nodes => count' = count + 1)
    BY <1>8, <1>6 DEF Types
<1> QED
    BY <1>1, <1>7, <1>6, <1>9, <1>10, <1>11 DEF Ran, ExecuteParallel, Executes, Types, Done

LEMMA LoopRan ==
    ASSUME Types, ChoicesFit, ExecuteLoop PROVE Ran
<1> DEFINE body == dag.inner[Node]
           First(k) == {body[j] : j \in {j \in 1..Len(body) : j <= k}}
           Last(k) == body[((k - 1) % Len(body)) + 1]
           Nested(k, fails) ==
               [n \in Nodes |-> IF fails /\ n = Last(k) THEN "failed"
                                ELSE IF n \in First(k) THEN "ok" ELSE "absent"]
           Entered(ok) == [n \in Nodes |-> IF n \notin InnerOf(Node) THEN "absent"
                                           ELSE IF ok THEN "ok" ELSE "failed"]
<1>1. Node \in Nodes /\ dag.kind[Node] = "loop"
    BY CurrentNode DEF ExecuteLoop, Executes
<1>2. body \in Seq(Nodes) /\ InnerOf(Node) \subseteq Nodes
    BY <1>1, DagFacts, InnerNodes
<1>3. PICK k \in 0..MaxIterations * Len(body), end \in {"ends", "fails", "halts"} :
        /\ end = "fails" => k > 0
        /\ Conclude(end = "ends", Nested(k, end = "fails"), Entered(end = "ends"), 1 + k,
                    IF end = "fails" THEN First(k - 1) ELSE First(k))
    BY DEF ExecuteLoop
<1>4. MaxIterations \in Nat /\ Len(body) \in Nat /\ k \in Nat
    BY <1>2, <1>3, DagAssumption
<1>5. Standalone = Nodes => k = 0
    <2>1. ASSUME Len(body) = 0 PROVE k = 0
        BY <1>3, <1>4, <2>1
    <2> QED
        BY <1>1, <2>1, NothingInside
<1>6. \A m : First(m) \subseteq InnerOf(Node)
    BY <1>2 DEF InnerOf
<1>7. end = "fails" => Last(k) \in InnerOf(Node)
    <2>1. SUFFICES ASSUME end = "fails" PROVE Last(k) \in InnerOf(Node)
        OBVIOUS
    <2>2. k - 1 \in Nat /\ Len(body) > 0
        <3>1. Len(body) # 0
            <4>1. ASSUME Len(body) = 0 PROVE FALSE
                BY <1>3, <1>4, <2>1, <4>1
            <4> QED
                BY <4>1
        <3> QED
            BY <1>3, <1>4, <2>1, <3>1
    <2>3. Len(body) \in Nat \ {0}
        BY <1>4, <2>2
    <2>4. ((k - 1) % Len(body)) + 1 \in 1..Len(body)
        <3> HIDE DEF body
        <3> QED
            BY <2>2, <2>3, Position
    <2> QED
        BY <2>4 DEF InnerOf
<1> DEFINE nested == Nested(k, end = "fails")
           entered == Entered(end = "ends")
           outputs == IF end = "fails" THEN First(k - 1) ELSE First(k)
<1>8. /\ nested \in [Nodes -> Results] /\ entered \in [Nodes -> Results]
      /\ \A n \in Nodes : n \notin InnerOf(Node) => nested[n] = "absent" /\ entered[n] = "absent"
    <2>1. nested \in [Nodes -> Results] /\ entered \in [Nodes -> Results]
        BY DEF Results
    <2>2. ASSUME NEW n \in Nodes, n \notin InnerOf(Node) PROVE n \notin First(k) /\ (end = "fails" => n # Last(k))
        BY <1>4, <1>6, <1>7, <2>2
    <2> QED
        BY <2>1, <2>2
<1>9. outputs \subseteq Nodes
    BY <1>2, <1>4, <1>6
<1>10. Conclude(end = "ends", nested, entered, 1 + k, outputs)
    BY <1>3
<1> HIDE DEF nested, entered, outputs
<1>11. PICK own \in {"ok", "failed"} :
        /\ result' = [n \in Nodes |-> IF n = Node THEN own
                                      ELSE IF entered[n] # "absent" THEN entered[n] ELSE result[n]]
        /\ truth' = [n \in Nodes |-> IF n = Node THEN own
                                     ELSE IF nested[n] # "absent" THEN nested[n] ELSE truth[n]]
    BY <1>10 DEF Conclude
<1>12. /\ recorded' \subseteq Nodes
       /\ context \subseteq context' /\ context' \subseteq Nodes
       /\ count' = count + (1 + k)
    BY <1>1, <1>9, <1>10 DEF Conclude, Types
<1>13. routes[Node] = decided[Node] /\ (routes[Node] # None => Chooses(Node))
    BY <1>1, Zenon DEF ExecuteLoop, Executes, ChoicesFit, Chooses
<1>14. result' \in [Nodes -> Results] /\ truth' \in [Nodes -> Results]
    BY <1>8, <1>11 DEF Types, Results
<1>15. /\ result'[Node] = own /\ truth'[Node] = own
       /\ \A n \in Nodes : n # Node /\ n \notin InnerOf(Node) =>
            result'[n] = result[n] /\ truth'[n] = truth[n]
       /\ \A n \in Nodes : result[n] # "absent" => result'[n] # "absent"
    BY <1>1, <1>8, <1>11
<1>16. count' \in Nat /\ (Standalone = Nodes => count' = count + 1)
    BY <1>4, <1>5, <1>12 DEF Types
<1> QED
    BY <1>1, <1>12, <1>13, <1>14, <1>15, <1>16 DEF Ran, ExecuteLoop, Executes, Types, Done

LEMMA ExecuteRan ==
    ASSUME Types, ChoicesFit, Execute PROVE Ran
BY TaskRan, CheckpointNodeRan, RoutingRan, ParallelRan, LoopRan DEF Execute

-----------------------------------------------------------------------------
(***************************************************************************)
(* The invariant is inductive.                                             *)
(***************************************************************************)

LEMMA InitHolds == Init => IInv
<1> SUFFICES ASSUME Init PROVE IInv
    OBVIOUS
<1>1. Types
    BY DEF Init, Types, Absent, Unrouted, Results, Choices
<1>2. StepsFit
    BY DEF Init, StepsFit, Running
<1>3. ChoicesFit
    BY DEF Init, ChoicesFit, Unrouted
<1>4. Untroubled
    BY DEF Init, Untroubled, ResultsAreReal, Genuine, SavedIsKnown, FailuresAreCurrent,
           CurrentIsUnsaved, ChoicesStand, Saved, Absent, Plain, Standalone
<1>5. ContextHoldsOutputs
    BY DEF Init, ContextHoldsOutputs, Saved, Absent, Standalone
<1> QED
    BY <1>1, <1>2, <1>3, <1>4, <1>5 DEF IInv

\* A call begins or ends: what the process knows is forgotten, the checkpoint stays.
LEMMA ForgetKeeps ==
    ASSUME IInv, Forget, pc' = "idle", UNCHANGED <<history, ckpt>>,
           faults' \in Nat, faults' = 0 => faults = 0
    PROVE  IInv'
<1>1. /\ Nodes' = Nodes /\ Plain' = Plain /\ Standalone' = Standalone /\ Terminal' = Terminal
      /\ Absent' = Absent /\ Unrouted' = Unrouted /\ Saved' = Saved
      /\ Results' = Results /\ Choices' = Choices /\ Checkpoints' = Checkpoints
      /\ \A n : Chooses(n)' = Chooses(n)
    BY SameGraph DEF history, Saved, Restored
<1>2. Types'
    BY <1>1 DEF IInv, Types, Forget, history, Absent, Unrouted, Results, Choices
<1>3. StepsFit'
    BY <1>1 DEF Forget, StepsFit, Running
<1>4. ChoicesFit'
    BY <1>1 DEF IInv, ChoicesFit, Forget, Unrouted, history
<1>5. ASSUME Unfaulted' PROVE Untroubled'
    BY <1>1, <1>5 DEF IInv, Unfaulted, Untroubled, ResultsAreReal, Genuine, SavedIsKnown,
           FailuresAreCurrent, CurrentIsUnsaved, ChoicesStand, Forget, Absent, history,
           Plain, Standalone
<1>6. ContextHoldsOutputs'
    BY <1>1 DEF IInv, Unfaulted, ContextHoldsOutputs, Forget, Absent, history, Standalone
<1> QED
    BY <1>2, <1>3, <1>4, <1>5, <1>6 DEF IInv

\* What raises goes to the except clause, or out of it; the promises are off.
LEMMA RaiseKeeps ==
    ASSUME IInv, UNCHANGED history, faults' \in Nat \ {0},
           ckpt' = ckpt \/ (ckpt' \in Checkpoints /\ ckpt'.routes = routes),
           \/ pc' \in {"except", "announce_except"} /\ UNCHANGED local
           \/ pc' = "idle" /\ Forget
    PROVE  IInv'
<1>1. /\ Nodes' = Nodes /\ Absent' = Absent /\ Unrouted' = Unrouted
      /\ Results' = Results /\ Choices' = Choices /\ Checkpoints' = Checkpoints
      /\ \A n : Chooses(n)' = Chooses(n)
    BY SameGraph DEF history
<1>2. Types'
    BY <1>1 DEF IInv, Types, Forget, local, history, Absent, Unrouted, Results, Choices
<1>3. StepsFit'
    BY <1>1 DEF Forget, StepsFit, Running
<1>4. ChoicesFit'
    BY <1>1 DEF IInv, ChoicesFit, Forget, Unrouted, local, history
<1>5. ~Unfaulted'
    BY DEF Unfaulted
<1> QED
    BY <1>2, <1>3, <1>4, <1>5 DEF IInv, ContextHoldsOutputs

\* Steps that change only where the executor is.
LEMMA MoveKeeps ==
    ASSUME IInv, UNCHANGED <<result, recorded, count, routes, context, ckpt, faults, history>>,
           \/ pc = "idle" /\ ckpt = None /\ pc' = "initial" /\ i' = i
           \/ /\ pc = "node" /\ i <= Len(Order) /\ pc' = "node" /\ i' = i + 1
           \/ pc = "announce" /\ pc' = "save" /\ i' = i
           \/ pc = "save" /\ pc' = "verdict" /\ i' = i
           \/ pc = "verdict" /\ ~MustStop(Node) /\ pc' = "node" /\ i' = i + 1
           \/ pc = "verdict" /\ MayStop(Node) /\ pc' = "fail" /\ i' = i
    PROVE  IInv'
<1>1. /\ Order' = Order /\ Nodes' = Nodes /\ Plain' = Plain /\ Standalone' = Standalone
      /\ Terminal' = Terminal /\ Absent' = Absent /\ Unrouted' = Unrouted /\ Saved' = Saved
      /\ Results' = Results /\ Choices' = Choices /\ Checkpoints' = Checkpoints
      /\ \A n : Chooses(n)' = Chooses(n)
    BY SameGraph DEF history, Saved, Restored
<1>2. i' = i => Node' = Node
    BY <1>1 DEF Node
<1>3. Types'
    BY <1>1 DEF IInv, Types, history
<1>4. StepsFit'
    BY <1>1, <1>2 DEF IInv, StepsFit, Running, MayStop
<1>5. ChoicesFit'
    BY <1>1 DEF IInv, ChoicesFit, history
<1>6. ASSUME Unfaulted' PROVE Untroubled'
    <2>1. Untroubled
        BY <1>6 DEF IInv, Unfaulted
    <2>2. ResultsAreReal' /\ Genuine'
        BY <1>1, <2>1 DEF Untroubled, ResultsAreReal, Genuine, history
    <2>3. SavedIsKnown'
        <3>1. pc = "idle" => Saved = {}
            BY DEF Saved
        <3> QED
            BY <1>1, <2>1, <3>1 DEF Untroubled, SavedIsKnown, Done
    <2>4. FailuresAreCurrent'
        BY <1>1, <1>2, <2>1 DEF IInv, StepsFit, Untroubled, FailuresAreCurrent, Absent, MustStop, MayStop,
               Plain, Terminal
    <2>5. CurrentIsUnsaved'
        BY <1>1, <1>2, <2>1 DEF Untroubled, CurrentIsUnsaved, MayStop
    <2>6. ChoicesStand'
        BY <1>1, <2>1 DEF Untroubled, ChoicesStand, history
    <2> QED
        BY <2>1, <2>2, <2>3, <2>4, <2>5, <2>6 DEF Untroubled
<1>7. ContextHoldsOutputs'
    BY <1>1 DEF IInv, ContextHoldsOutputs, Unfaulted, history
<1> QED
    BY <1>3, <1>4, <1>5, <1>6, <1>7 DEF IInv

\* A save of everything this process knows, with the failed node if one ends the run.
LEMMA SaveKeeps ==
    ASSUME IInv, UNCHANGED <<local, faults, history>>,
           ckpt' \in Checkpoints, ckpt'.completed = Done,
           ckpt'.routes = routes, ckpt'.context = context,
           result[Node] = "failed" /\ pc \in {"save", "fail"} => ckpt'.failed = Node,
           \/ pc = "initial" /\ pc' = "node"
           \/ pc = "save" /\ pc' = "verdict"
           \/ pc = "fail" /\ pc' = "announce_fail"
           \/ pc = "node" /\ pc' = "announce_done"
    PROVE  IInv'
<1>1. /\ Order' = Order /\ Nodes' = Nodes /\ Plain' = Plain /\ Standalone' = Standalone
      /\ Terminal' = Terminal /\ Absent' = Absent /\ Unrouted' = Unrouted
      /\ Results' = Results /\ Choices' = Choices /\ Checkpoints' = Checkpoints
      /\ \A n : Chooses(n)' = Chooses(n)
    BY SameGraph DEF history
<1>2. Node' = Node
    BY <1>1 DEF Node, local
<1>3. ckpt' # None /\ Saved' = Done \ {ckpt'.failed} /\ Done' = Done
    BY <1>1, DagFacts DEF IInv, Saved, Restored, local, Done
<1>4. Types'
    BY <1>1 DEF IInv, Types, local, history
<1>5. StepsFit'
    BY <1>1, <1>2, <1>3 DEF IInv, StepsFit, Running, local
<1>6. ChoicesFit'
    BY <1>1 DEF IInv, ChoicesFit, local, history
<1>7. ASSUME Unfaulted' PROVE Untroubled' /\ \A n \in Saved' \cap Plain : result[n] = "ok"
    <2>1. Untroubled
        BY <1>7 DEF IInv, Unfaulted
    <2>2. \A n \in Saved' \cap Plain : result[n] = "ok"
        <3>1. ASSUME NEW n \in Saved' \cap Plain, result[n] = "failed" PROVE FALSE
            BY <1>3, <2>1, <3>1 DEF Untroubled, FailuresAreCurrent
        <3>2. \A n \in Nodes : result[n] \in Results
            BY DEF IInv, Types
        <3> QED
            BY <1>3, <3>1, <3>2 DEF Done, Results
    <2>3. ResultsAreReal'
        BY <1>1, <2>1 DEF Untroubled, ResultsAreReal, local, history
    <2>4. Genuine'
        BY <1>1, <2>1, <2>2 DEF Untroubled, ResultsAreReal, Genuine, history, Plain
    <2>5. SavedIsKnown'
        BY <1>3 DEF SavedIsKnown
    <2>6. FailuresAreCurrent'
        BY <1>1, <1>2, <2>1 DEF IInv, StepsFit, Untroubled, FailuresAreCurrent, Absent, local, Plain, Terminal
    <2>7. CurrentIsUnsaved'
        BY <1>1, <1>2, <1>3 DEF CurrentIsUnsaved, local
    <2>8. ChoicesStand'
        BY <1>1, <1>3, <2>1 DEF Untroubled, ChoicesStand, local, history, Done
    <2> QED
        BY <2>1, <2>2, <2>3, <2>4, <2>5, <2>6, <2>7, <2>8 DEF Untroubled
<1>8. ContextHoldsOutputs'
    BY <1>1, <1>7 DEF IInv, ContextHoldsOutputs, Unfaulted, local, history, Plain
<1> QED
    BY <1>4, <1>5, <1>6, <1>7, <1>8 DEF IInv

LEMMA ResumeKeeps ==
    ASSUME IInv, Resume PROVE IInv'
<1>1. /\ Order' = Order /\ Nodes' = Nodes /\ Plain' = Plain /\ Standalone' = Standalone
      /\ Terminal' = Terminal /\ Absent' = Absent /\ Unrouted' = Unrouted /\ Saved' = Saved
      /\ Results' = Results /\ Choices' = Choices /\ Checkpoints' = Checkpoints
      /\ \A n : Chooses(n)' = Chooses(n)
    BY SameGraph DEF Resume, history, Saved, Restored
<1>2. ckpt # None /\ ckpt \in Checkpoints /\ Saved = Restored(ckpt) /\ Saved \subseteq Nodes
    BY DEF IInv, Types, Resume, CanResume, Saved, Restored, Checkpoints
<1>3. /\ result' = [n \in Nodes |-> IF n \in Saved THEN "ok" ELSE "absent"]
      /\ routes' = ckpt.routes /\ context' = ckpt.context
    BY <1>2 DEF Resume
<1>4. Types'
    BY <1>1, <1>2, <1>3 DEF IInv, Types, Resume, history, Results, Checkpoints
<1>5. StepsFit'
    BY <1>2 DEF StepsFit, Running, Resume
<1>6. ChoicesFit'
    BY <1>1, <1>2, <1>3 DEF IInv, ChoicesFit, Resume, history
<1>7. ASSUME Unfaulted' PROVE Untroubled'
    <2>1. Untroubled
        BY <1>7 DEF IInv, Unfaulted, Resume
    <2>2. ResultsAreReal' /\ Genuine'
        <3>1. Plain \subseteq Nodes
            BY DEF Plain, Terminal
        <3> QED
            BY <1>1, <1>2, <1>3, <2>1, <3>1 DEF Untroubled, ResultsAreReal, Genuine, Resume, history, Plain
    <2>3. SavedIsKnown'
        BY <1>1, <1>2, <1>3 DEF SavedIsKnown, Done
    <2>4. FailuresAreCurrent' /\ CurrentIsUnsaved'
        BY <1>1, <1>3 DEF FailuresAreCurrent, CurrentIsUnsaved, Resume, Plain, Terminal
    <2>5. ChoicesStand'
        BY <1>1, <1>2, <1>3, <2>1 DEF Untroubled, ChoicesStand, Resume, history, Standalone
    <2> QED
        BY <2>1, <2>2, <2>3, <2>4, <2>5 DEF Untroubled, Resume
<1>8. ContextHoldsOutputs'
    BY <1>1, <1>2, <1>3 DEF IInv, ContextHoldsOutputs, Unfaulted, Resume, history, Standalone
<1> QED
    BY <1>4, <1>5, <1>6, <1>7, <1>8 DEF IInv

LEMMA ExecuteKeeps ==
    ASSUME IInv, Execute PROVE IInv'
<1>1. Ran
    BY ExecuteRan DEF IInv
<1>2. /\ Order' = Order /\ Nodes' = Nodes /\ Plain' = Plain /\ Standalone' = Standalone
      /\ Terminal' = Terminal /\ Saved' = Saved
      /\ Results' = Results /\ Choices' = Choices /\ Checkpoints' = Checkpoints
      /\ \A n : Chooses(n)' = Chooses(n)
    BY <1>1, SameGraph DEF Ran, Saved, Restored
<1>3. Node' = Node
    BY <1>1, <1>2 DEF Ran, Node
<1>4. \A n \in Standalone : n # Node => result'[n] = result[n] /\ truth'[n] = truth[n]
                                        /\ routes'[n] = routes[n] /\ decided'[n] = decided[n]
    BY <1>1, InnerNodes DEF IInv, Ran, Standalone
<1>5. Types'
    BY <1>1, <1>2 DEF IInv, Types, Ran
<1>6. StepsFit'
    BY <1>1, <1>2 DEF IInv, StepsFit, Running, Ran
<1>7. ChoicesFit'
    BY <1>1, <1>2 DEF IInv, ChoicesFit, Ran
<1>8. ASSUME Unfaulted' PROVE Untroubled'
    <2>1. Untroubled
        BY <1>1, <1>8 DEF IInv, Unfaulted, Ran
    <2>2. Node \notin Saved
        BY <1>1, <2>1 DEF Untroubled, SavedIsKnown, Ran
    <2>3. ResultsAreReal'
        BY <1>1, <1>2, <1>4, <2>1 DEF Untroubled, ResultsAreReal, Ran, Plain
    <2>4. Genuine'
        BY <1>1, <1>2, <1>4, <2>1, <2>2 DEF Untroubled, Genuine
    <2>5. SavedIsKnown'
        BY <1>1, <1>2, <2>1 DEF Untroubled, SavedIsKnown, Ran, Done
    <2>6. FailuresAreCurrent'
        BY <1>1, <1>2, <1>3, <1>4, <2>1 DEF Untroubled, FailuresAreCurrent, Ran, Plain
    <2>7. CurrentIsUnsaved'
        BY <1>1, <1>2, <1>3, <2>2 DEF CurrentIsUnsaved, Ran
    <2>8. ChoicesStand'
        BY <1>1, <1>2, <1>4, <2>1, <2>2 DEF Untroubled, ChoicesStand, Ran
    <2> QED
        BY <1>1, <2>1, <2>3, <2>4, <2>5, <2>6, <2>7, <2>8 DEF Untroubled, Ran
<1>9. ContextHoldsOutputs'
    BY <1>1, <1>2, <1>4 DEF IInv, ContextHoldsOutputs, Unfaulted, Ran, Terminal
<1> QED
    BY <1>5, <1>6, <1>7, <1>8, <1>9 DEF IInv

LEMMA SavesKeep ==
    ASSUME IInv, SaveInitial \/ SaveProgress \/ SaveFailure \/ SaveCompleted
    PROVE  IInv'
<1>1. None \notin Nodes /\ Done \subseteq Nodes /\ (i <= Len(Order) => Node \in Nodes)
    BY DagFacts, CurrentNode DEF IInv, Done
<1>2. routes \in [Nodes -> Choices] /\ context \subseteq Nodes /\ faults \in Nat
    BY DEF IInv, Types
<1>3. ASSUME NEW status \in {"RUNNING", "FAILED", "COMPLETED"}, NEW failed \in Nodes \cup {None}
      PROVE  /\ Checkpoint(status, Done, failed) \in Checkpoints
             /\ Checkpoint(status, Done, failed).completed = Done
             /\ Checkpoint(status, Done, failed).failed = failed
             /\ Checkpoint(status, Done, failed).routes = routes
             /\ Checkpoint(status, Done, failed).context = context
    BY <1>1, <1>2 DEF Checkpoint, Checkpoints
<1>4. CASE SaveInitial
    BY <1>2, <1>3, <1>4, RaiseKeeps, SaveKeeps DEF SaveInitial, Save
<1>5. CASE SaveProgress
    <2>1. Node \in Nodes
        BY <1>1, <1>5 DEF IInv, StepsFit, SaveProgress
    <2>2. PICK failed \in Nodes \cup {None} : failed = FailedNow
        BY <2>1 DEF FailedNow
    <2>3. CASE Due /\ Save(Checkpoint("RUNNING", Done, failed), "verdict", "except")
        BY <1>2, <1>3, <1>5, <2>2, <2>3, RaiseKeeps, SaveKeeps DEF SaveProgress, Save, FailedNow
    <2>4. CASE ~Due
        BY <1>5, <2>4, MoveKeeps DEF SaveProgress, local
    <2> QED
        BY <1>5, <2>2, <2>3, <2>4 DEF SaveProgress
<1>6. CASE SaveFailure
    <2>1. PICK failed \in Nodes : failed = Node
        BY <1>1, <1>6 DEF IInv, StepsFit, SaveFailure
    <2>2. Save(Checkpoint("FAILED", Done, failed), "announce_fail", "except")
        BY <1>6, <2>1 DEF SaveFailure
    <2> QED
        BY <1>2, <1>3, <1>6, <2>1, <2>2, RaiseKeeps, SaveKeeps DEF SaveFailure, Save
<1>7. CASE SaveCompleted
    BY <1>2, <1>3, <1>7, RaiseKeeps, SaveKeeps DEF SaveCompleted, Save
<1> QED
    BY <1>4, <1>5, <1>6, <1>7

LEMMA NextKeeps ==
    ASSUME IInv, [Next]_vars PROVE IInv'
<1>1. CASE UNCHANGED vars
    <2>1. /\ Order' = Order /\ Nodes' = Nodes /\ Plain' = Plain /\ Standalone' = Standalone
          /\ Terminal' = Terminal /\ Absent' = Absent /\ Unrouted' = Unrouted
          /\ Results' = Results /\ Choices' = Choices /\ Checkpoints' = Checkpoints
          /\ Node' = Node /\ Saved' = Saved /\ \A n : Chooses(n)' = Chooses(n)
        BY <1>1, SameGraph DEF vars, Node, Order, Saved, Restored
    <2>2. Types' /\ StepsFit' /\ ChoicesFit'
        BY <1>1, <2>1 DEF vars, IInv, Types, StepsFit, Running, ChoicesFit
    <2>3. Unfaulted' => Untroubled'
        BY <1>1, <2>1 DEF vars, IInv, Unfaulted, Untroubled, ResultsAreReal, Genuine, SavedIsKnown,
               FailuresAreCurrent, CurrentIsUnsaved, ChoicesStand, Done
    <2>4. ContextHoldsOutputs'
        BY <1>1, <2>1 DEF vars, IInv, Unfaulted, ContextHoldsOutputs
    <2> QED
        BY <2>2, <2>3, <2>4 DEF IInv
<1>2. CASE Run
    BY <1>2, MoveKeeps DEF Run, local
<1>3. CASE Resume
    BY <1>3, ResumeKeeps
<1>4. CASE Execute
    BY <1>4, ExecuteKeeps
<1>5. CASE SaveInitial \/ SaveProgress \/ SaveFailure \/ SaveCompleted
    BY <1>5, SavesKeep
<1>6. faults \in Nat
    BY DEF IInv, Types
<1>7. CASE Announce
    BY <1>6, <1>7, MoveKeeps, RaiseKeeps DEF Announce, Publish, local
<1>8. CASE Skip
    BY <1>8, MoveKeeps DEF Skip
<1>9. CASE GoOn
    BY <1>9, MoveKeeps DEF GoOn
<1>10. CASE Stop
    BY <1>10, MoveKeeps DEF Stop, local
<1>11. CASE Halt \/ Crash
    BY <1>6, <1>11, ForgetKeeps DEF Halt, Crash
<1>12. ASSUME NEW at, NEW handler \in {"except", "idle"}, PublishAndReturn(at, handler)
       PROVE  IInv'
    <2>1. CASE pc' = "idle" /\ UNCHANGED faults
        BY <1>6, <1>12, <2>1, ForgetKeeps DEF PublishAndReturn, Publish
    <2>2. CASE faults' = faults + 1
        BY <1>6, <1>12, <2>2, RaiseKeeps DEF PublishAndReturn, Publish
    <2> QED
        BY <1>12, <2>1, <2>2 DEF PublishAndReturn, Publish
<1>13. CASE AnnounceFailure \/ AnnounceCompleted \/ AnnounceException
    BY <1>12, <1>13 DEF AnnounceFailure, AnnounceCompleted, AnnounceException
<1>14. CASE SaveException
    <2>1. PICK c : c = Checkpoint("FAILED", recorded, None)
        OBVIOUS
    <2>2. c \in Checkpoints /\ c.routes = routes
        BY <2>1 DEF Checkpoint, Checkpoints, IInv, Types
    <2>3. Save(c, "announce_except", "idle") /\ (IF pc' = "idle" THEN Forget ELSE UNCHANGED local)
        BY <1>14, <2>1 DEF SaveException
    <2>4. CASE faults' = faults + 1
        BY <1>6, <2>2, <2>3, <2>4, RaiseKeeps DEF Save
    <2>5. CASE UNCHANGED faults
        <3>1. faults # 0
            BY <1>14 DEF SaveException, IInv, Unfaulted, Untroubled
        <3> QED
            BY <1>6, <2>2, <2>3, <2>5, <3>1, RaiseKeeps DEF Save
    <2> QED
        BY <2>3, <2>4, <2>5 DEF Save
<1> QED
    BY <1>1, <1>2, <1>3, <1>4, <1>5, <1>7, <1>8, <1>9, <1>10, <1>11, <1>13, <1>14 DEF Next, Step

LEMMA Inductive == Spec => []IInv
BY InitHolds, NextKeeps, PTL DEF Spec

-----------------------------------------------------------------------------
(***************************************************************************)
(* The theorems.                                                           *)
(***************************************************************************)

(* As long as no publish and no save raises, a node that a resume of       *)
(* orchestration/executor.py would take for a success did succeed when it  *)
(* last ran, unless it was allowed to fail.                                *)
THEOREM SavedSuccessesHold == Spec => []SavedSuccessesAreReal
<1>1. IInv => SavedSuccessesAreReal
    BY DEF IInv, Untroubled, SavedSuccessesAreReal
<1> QED
    BY <1>1, Inductive, PTL

(* Whatever counts as a success has its output in the context, in the      *)
(* process and in the checkpoint.                                          *)
THEOREM OutputsAreThere == Spec => []ContextHoldsOutputs
<1>1. IInv => ContextHoldsOutputs
    BY DEF IInv
<1> QED
    BY <1>1, Inductive, PTL

\* A save writes a checkpoint, or nothing.
LEMMA SavesAreCheckpoints ==
    ASSUME IInv, SaveInitial \/ SaveProgress \/ SaveFailure \/ SaveCompleted
    PROVE  ckpt' = ckpt \/ ckpt' # None
<1>1. /\ routes \in [Nodes -> Choices] /\ context \subseteq Nodes /\ Done \subseteq Nodes
      /\ None \notin Checkpoints
      /\ i <= Len(Order) => Node \in Nodes
    BY DagFacts, CurrentNode DEF IInv, Types, Done
<1>2. \A status \in {"RUNNING", "FAILED", "COMPLETED"}, failed \in Nodes \cup {None} :
        Checkpoint(status, Done, failed) # None
    BY <1>1 DEF Checkpoint, Checkpoints
<1>3. pc \in {"save", "fail"} => Node \in Nodes /\ FailedNow \in Nodes \cup {None}
    BY <1>1 DEF IInv, StepsFit, FailedNow
<1> QED
    BY <1>2, <1>3 DEF SaveInitial, SaveProgress, SaveFailure, SaveCompleted, Save

\* What the steps do to the checkpoint while nothing raises.
LEMMA Saves ==
    ASSUME IInv, [Next]_vars, Unfaulted'
    PROVE  /\ Unfaulted
           /\ \/ ckpt' = ckpt
              \/ /\ ckpt' # None /\ ckpt'.completed = Done
                 /\ \/ pc \in {"initial", "node"} /\ ckpt'.failed = None
                    \/ pc = "save" /\ ckpt'.failed = FailedNow
                    \/ pc = "fail" /\ ckpt'.failed = Node
<1>1. faults \in Nat
    BY DEF IInv, Types
<1>2. CASE UNCHANGED vars
    BY <1>2 DEF vars, Unfaulted
<1>3. CASE Run \/ Resume \/ Skip \/ GoOn \/ Stop \/ Halt \/ Crash
    BY <1>3 DEF Run, Resume, Skip, GoOn, Stop, Halt, Crash, Unfaulted
<1>4. CASE Execute
    BY <1>4, ExecuteRan DEF IInv, Ran, Unfaulted
<1>5. CASE Announce \/ AnnounceFailure \/ AnnounceCompleted \/ AnnounceException
    BY <1>1, <1>5 DEF Announce, AnnounceFailure, AnnounceCompleted, AnnounceException,
           PublishAndReturn, Publish, Unfaulted
<1>6. CASE SaveInitial \/ SaveProgress \/ SaveFailure \/ SaveCompleted
    <2>2. /\ Unfaulted
          /\ \/ ckpt' = ckpt
             \/ pc \in {"initial", "node"} /\ \E status : ckpt' = Checkpoint(status, Done, None)
             \/ pc = "save" /\ \E status : ckpt' = Checkpoint(status, Done, FailedNow)
             \/ pc = "fail" /\ \E status : ckpt' = Checkpoint(status, Done, Node)
        BY <1>1, <1>6 DEF SaveInitial, SaveProgress, SaveFailure, SaveCompleted, Save, Unfaulted
    <2>3. \A status, failed : ckpt' = Checkpoint(status, Done, failed) =>
                ckpt'.completed = Done /\ ckpt'.failed = failed
        BY DEF Checkpoint
    <2>4. ckpt' = ckpt \/ ckpt' # None
        BY <1>6, SavesAreCheckpoints
    <2> QED
        BY <2>2, <2>3, <2>4
<1>7. CASE SaveException
    BY <1>1, <1>7 DEF SaveException, Save, IInv, Untroubled, Unfaulted
<1> QED
    BY <1>2, <1>3, <1>4, <1>5, <1>6, <1>7 DEF Next, Step

(* What the checkpointer knows to be done stays known through crashes,     *)
(* halts and resumes, as long as no publish and no save raises.            *)
THEOREM ProgressStands == Spec => SavedProgressStands
<1>1. ASSUME IInv, [Next]_vars, Unfaulted' PROVE Saved \subseteq Saved'
    <2>1. Untroubled
        BY <1>1, Saves DEF IInv
    <2>2. CASE ckpt' = ckpt
        BY <2>2 DEF Saved, Restored
    <2>3. CASE ckpt' # ckpt
        <3>1. /\ ckpt' # None /\ ckpt'.completed = Done
              /\ \/ pc \in {"initial", "node"} /\ ckpt'.failed = None
                 \/ pc = "save" /\ ckpt'.failed = FailedNow
                 \/ pc = "fail" /\ ckpt'.failed = Node
            BY <1>1, <2>3, Saves
        <3>2. Saved' = Done \ {ckpt'.failed}
            BY <3>1 DEF Saved, Restored
        <3>3. Saved \subseteq Done /\ None \notin Done
            BY <2>1, <3>1, <1>1, DagFacts DEF Untroubled, SavedIsKnown, IInv, Done
        <3>4. ckpt'.failed \notin Saved
            BY <1>1, <2>1, <3>1, <3>3 DEF IInv, StepsFit, Untroubled, CurrentIsUnsaved, FailedNow
        <3> QED
            BY <3>2, <3>3, <3>4
    <2> QED
        BY <2>2, <2>3
<1> QED
    BY <1>1, Inductive, PTL DEF Spec, SavedProgressStands

\* Only the execution of a node leads from the loop to an announcement.
LEMMA Starts ==
    ASSUME IInv, [Next]_vars, pc = "node", pc' = "announce"
    PROVE  Ran
<1>1. CASE UNCHANGED vars
    BY <1>1 DEF vars
<1>2. CASE Execute
    BY <1>2, ExecuteRan DEF IInv
<1>3. CASE Next /\ ~Execute
    BY <1>3 DEF Next, Step, Run, Resume, Halt, Crash, Skip, SaveInitial, Announce, SaveProgress, GoOn,
           Stop, SaveFailure, AnnounceFailure, SaveCompleted, AnnounceCompleted, SaveException,
           AnnounceException, PublishAndReturn, Publish, Save
<1> QED
    BY <1>1, <1>2, <1>3

(* At most one outcome of a choice is acted upon: the node that starts was *)
(* a target of what its router last decided, in this call or before a      *)
(* crash.                                                                  *)
THEOREM DecisionsStand == Spec => OnlyTheDecidedBranchRuns
<1>1. ASSUME IInv, [Next]_vars, pc = "node", pc' = "announce", Unfaulted,
             NEW e \in Incoming(Node), e.source \in Standalone, decided[e.source] # None,
             Node \notin dag.anyJoin
      PROVE  e.target \in decided[e.source]
    <2>1. Ran /\ Untroubled
        BY <1>1, Starts DEF IInv
    <2>2. EdgeSatisfied(e)
        BY <1>1, <2>1 DEF Ran, ShouldExecute
    <2> QED
        BY <1>1, <2>1, <2>2 DEF EdgeSatisfied, Untroubled, ChoicesStand
<1>2. ASSUME IInv, [Next]_vars, pc = "node" /\ pc' = "announce" /\ Unfaulted
      PROVE  \A e \in Incoming(Node) :
                e.source \in Standalone /\ decided[e.source] # None /\ Node \notin dag.anyJoin =>
                    e.target \in decided[e.source]
    BY <1>1, <1>2
<1> QED
    BY <1>2, Inductive, PTL DEF Spec, OnlyTheDecidedBranchRuns

(* A node starts only if the nodes its ON_SUCCESS edges come from really   *)
(* succeeded, before or after a resume.                                    *)
THEOREM RejectionsStand == Spec => RejectedBranchNeverRuns
<1>1. ASSUME IInv, [Next]_vars, pc = "node", pc' = "announce", Unfaulted,
             NEW e \in Incoming(Node), e.condition = "on_success",
             e.source \in Terminal \cap Standalone, Node \notin dag.anyJoin
      PROVE  truth[e.source] = "ok"
    <2>1. Ran /\ Untroubled
        BY <1>1, Starts DEF IInv
    <2>2. EdgeSatisfied(e)
        BY <1>1, <2>1 DEF Ran, ShouldExecute
    <2> QED
        BY <1>1, <2>1, <2>2 DEF EdgeSatisfied, Untroubled, ResultsAreReal, Plain
<1>2. ASSUME IInv, [Next]_vars,
             pc = "node" /\ pc' = "announce" /\ Unfaulted /\ Node \notin dag.anyJoin
      PROVE  \A e \in Incoming(Node) :
                e.condition = "on_success" /\ e.source \in Terminal \cap Standalone =>
                    truth[e.source] = "ok"
    BY <1>1, <1>2
<1> QED
    BY <1>2, Inductive, PTL DEF Spec, RejectedBranchNeverRuns

-----------------------------------------------------------------------------
(***************************************************************************)
(* The work a crash may repeat.                                            *)
(***************************************************************************)

Unsaved == Done \ ckpt.completed

WorkInv ==
    Standalone = Nodes =>
        /\ pc \in {"node", "verdict"} => Cardinality(Unsaved) <= count % dag.interval
        /\ pc \in {"announce", "save"} =>
                count > 0 /\ Cardinality(Unsaved) <= ((count - 1) % dag.interval) + 1

LEMMA FiniteWork ==
    ASSUME Types
    PROVE  /\ IsFiniteSet(Nodes) /\ IsFiniteSet(Unsaved) /\ Cardinality(Unsaved) \in Nat
           /\ dag.interval \in Nat \ {0} /\ count \in Nat
<1>1. Len(Order) \in Nat
    BY DagFacts
<1>2. IsFiniteSet(Nodes)
    <2> DEFINE Places == 1..Len(Order)
               At == [k \in Places |-> Order[k]]
    <2>1. IsFiniteSet(Places)
        BY <1>1, FS_Interval
    <2>2. At \in [Places -> Nodes] /\ Nodes = {At[k] : k \in Places}
        BY DEF Nodes
    <2>3. At \in Surjection(Places, Nodes)
        BY <2>2, Zenon DEF Surjection
    <2> QED
        BY <2>1, <2>3, FS_Surjection
<1>3. IsFiniteSet(Unsaved)
    BY <1>2, FS_Subset DEF Unsaved, Done
<1> QED
    BY <1>2, <1>3, FS_CardinalityType, DagFacts DEF Types

LEMMA WorkKeeps ==
    ASSUME IInv, WorkInv, [Next]_vars
    PROVE  WorkInv'
<1> SUFFICES ASSUME (Standalone = Nodes)' PROVE WorkInv'
    BY DEF WorkInv
<1>1. Types /\ Types' /\ IInv'
    BY NextKeeps DEF IInv
<1>2. /\ IsFiniteSet(Unsaved) /\ Cardinality(Unsaved) \in Nat
      /\ dag.interval \in Nat \ {0} /\ count \in Nat
    BY <1>1, FiniteWork
<1> DEFINE Bound == /\ pc \in {"node", "verdict"} => Cardinality(Unsaved) <= count % dag.interval
                    /\ pc \in {"announce", "save"} =>
                        count > 0 /\ Cardinality(Unsaved) <= ((count - 1) % dag.interval) + 1
<1>3. dag' = dag => Bound
    BY SameGraph DEF WorkInv
<1> HIDE DEF Bound
<1>4. ASSUME dag' = dag, UNCHANGED <<result, count, ckpt>>, pc \in {"node", "verdict"},
             pc' \in {"node", "verdict"}
      PROVE  WorkInv'
    BY <1>3, <1>4, SameGraph DEF Bound, WorkInv, Unsaved, Done
<1>5. CASE UNCHANGED vars
    BY <1>3, <1>5, SameGraph DEF vars, Bound, WorkInv, Unsaved, Done
<1>6. CASE Skip \/ GoOn
    BY <1>4, <1>6 DEF Skip, GoOn, history
<1>7. CASE Run \/ Stop \/ Halt \/ Crash \/ SaveFailure \/ AnnounceFailure \/ SaveCompleted
           \/ AnnounceCompleted \/ SaveException \/ AnnounceException
    <2>1. pc' \notin {"node", "verdict", "announce", "save"}
        BY <1>7 DEF Run, Stop, Halt, Crash, SaveFailure, AnnounceFailure, SaveCompleted,
               AnnounceCompleted, SaveException, AnnounceException, PublishAndReturn, Publish, Save
    <2> QED
        BY <2>1 DEF WorkInv
<1>8. CASE Announce
    <2>1. CASE pc' = "save"
        BY <1>3, <1>8, <2>1, SameGraph DEF Announce, Publish, local, history, Bound, WorkInv, Unsaved, Done
    <2>2. CASE pc' = "except"
        BY <2>2 DEF WorkInv
    <2> QED
        BY <1>8, <2>1, <2>2 DEF Announce, Publish
<1>9. ASSUME Unsaved' = {}, pc' \in {"node", "verdict"} PROVE WorkInv'
    <2>1. Cardinality(Unsaved') = 0
        BY <1>9, FS_EmptySet
    <2>2. dag'.interval \in Nat \ {0} /\ count' \in Nat
        <3>1. dag' \in Dags /\ count' \in Nat
            BY <1>1 DEF Types
        <3> QED
            BY <3>1, DagAssumption DEF IsDag
    <2> QED
        BY <1>9, <2>1, <2>2, ModBound DEF WorkInv
<1>10. CASE SaveInitial
    <2>1. CASE pc' = "node"
        <3>1. Done' = Done /\ ckpt'.completed = Done
            BY <1>10, <2>1, SameGraph DEF SaveInitial, Save, Checkpoint, local, history, Done
        <3> QED
            BY <1>9, <2>1, <3>1 DEF Unsaved
    <2>2. CASE pc' = "except"
        BY <2>2 DEF WorkInv
    <2> QED
        BY <1>10, <2>1, <2>2 DEF SaveInitial, Save
<1>11. CASE Resume
    <2>1. Done' \subseteq ckpt'.completed
        BY <1>11, SameGraph DEF Resume, Restored, history, Done
    <2> QED
        BY <1>9, <1>11, <2>1 DEF Resume, Unsaved
<1>12. CASE SaveProgress
    <2>1. CASE Due /\ pc' = "verdict" /\ ckpt' = Checkpoint("RUNNING", Done, FailedNow)
        <3>1. Done' = Done /\ ckpt'.completed = Done
            BY <1>12, <2>1, SameGraph DEF SaveProgress, Save, Checkpoint, local, history, Done
        <3> QED
            BY <1>9, <2>1, <3>1 DEF Unsaved
    <2>2. CASE ~Due /\ pc' = "verdict" /\ UNCHANGED <<ckpt, history>>
        <3>1. Unsaved' = Unsaved /\ count' = count /\ dag' = dag
            BY <1>12, <2>2, SameGraph DEF SaveProgress, local, history, Unsaved, Done
        <3>2. count > 0 /\ Cardinality(Unsaved) <= ((count - 1) % dag.interval) + 1
            BY <1>3, <1>12, <3>1 DEF Bound, SaveProgress
        <3>3. ((count - 1) % dag.interval) + 1 = count % dag.interval
            <4>1. count - 1 \in Nat /\ (count - 1) + 1 = count
                BY <1>2, <3>2
            <4>2. ((count - 1) + 1) % dag.interval # 0
                BY <2>2, <4>1 DEF Due
            <4> QED
                BY <1>2, <4>1, <4>2, NoWrap
        <3> QED
            BY <2>2, <3>1, <3>2, <3>3 DEF WorkInv
    <2>3. CASE pc' = "except"
        BY <2>3 DEF WorkInv
    <2> QED
        BY <1>12, <2>1, <2>2, <2>3 DEF SaveProgress, Save
<1>13. CASE Execute
    <2>1. Ran
        BY <1>1, <1>13, ExecuteRan DEF IInv
    <2>2. /\ dag' = dag /\ Nodes' = Nodes /\ Standalone = Nodes /\ ckpt' = ckpt
          /\ count' = count + 1 /\ pc = "node" /\ pc' = "announce" /\ Node \in Nodes
        BY <2>1, SameGraph DEF Ran
    <2>3. Unsaved' \subseteq Unsaved \cup {Node}
        <3>1. \A n \in Nodes : n # Node => result'[n] = result[n]
            BY <1>1, <2>1, <2>2, InnerNodes DEF Ran
        <3> QED
            BY <2>2, <3>1 DEF Unsaved, Done
    <2>4. Cardinality(Unsaved') <= Cardinality(Unsaved) + 1 /\ Cardinality(Unsaved') \in Nat
        <3>1. /\ IsFiniteSet(Unsaved \cup {Node})
              /\ Cardinality(Unsaved \cup {Node}) \in {Cardinality(Unsaved), Cardinality(Unsaved) + 1}
            BY <1>2, FS_AddElement
        <3>2. IsFiniteSet(Unsaved') /\ Cardinality(Unsaved') <= Cardinality(Unsaved \cup {Node})
            BY <2>3, <3>1, FS_Subset
        <3> QED
            BY <1>2, <3>1, <3>2, FS_CardinalityType
    <2>5. Cardinality(Unsaved) <= count % dag.interval
        BY <1>3, <2>2 DEF Bound
    <2>6. count' - 1 = count /\ count' > 0 /\ count % dag.interval \in Nat
        <3>1. count % dag.interval \in 0..(dag.interval - 1)
            BY <1>2, ModBound
        <3> QED
            BY <1>2, <2>2, <3>1
    <2>7. Cardinality(Unsaved') <= (count % dag.interval) + 1
        BY <1>2, <2>4, <2>5, <2>6
    <2> QED
        BY <2>2, <2>6, <2>7 DEF WorkInv
<1> QED
    BY <1>5, <1>6, <1>7, <1>8, <1>10, <1>11, <1>12, <1>13 DEF Next, Step

(* Between two nodes, fewer results than the checkpoint_interval are       *)
(* unsaved, so that a crash repeats at most that many nodes, whatever      *)
(* raised or crashed before.                                               *)
THEOREM UnsavedWorkHolds == Spec => []UnsavedWorkIsBounded
<1>1. Init => WorkInv
    BY DEF Init, WorkInv
<1>2. ASSUME IInv, WorkInv PROVE UnsavedWorkIsBounded
    <2>1. SUFFICES ASSUME pc = "node", Standalone = Nodes PROVE Cardinality(Unsaved) < dag.interval
        BY DEF UnsavedWorkIsBounded, Unsaved
    <2>2. /\ Cardinality(Unsaved) \in Nat /\ dag.interval \in Nat \ {0} /\ count \in Nat
          /\ Cardinality(Unsaved) <= count % dag.interval
        BY <1>2, <2>1, FiniteWork DEF IInv, WorkInv
    <2>3. count % dag.interval \in 0..(dag.interval - 1)
        BY <2>2, ModBound
    <2> QED
        BY <2>2, <2>3
<1> QED
    BY <1>1, <1>2, WorkKeeps, Inductive, PTL DEF Spec
=============================================================================

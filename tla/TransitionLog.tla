---------------------------- MODULE TransitionLog ----------------------------
(***************************************************************************)
(* What the state machine promises of one FSM, with stores, versions and   *)
(* callers' calls taken away: a log of transitions, each allowed from the  *)
(* state the previous one led to, that only ever grows.                    *)
(*                                                                         *)
(* An abstract specification: StateMachine is shown to implement it.       *)
(***************************************************************************)
EXTENDS Integers, Sequences

CONSTANTS
    Transitions,    \* the allowed transitions, see StateMachine
    Initial,        \* the initial state
    Terminal,       \* the terminal states
    Humans,         \* the actors that are human
    Actors

VARIABLE log        \* the transitions taken so far

\* The state a history leads to.
StateAfter(h) == IF h = <<>> THEN Initial ELSE h[Len(h)].step.to

\* The state row i of a history starts from.
StateBefore(h, i) == IF i = 1 THEN Initial ELSE h[i - 1].step.to

\* Whether an actor may take a transition at all.
MayTake(actor, t) ==
    /\ t.requires_hitl => actor \in Humans
    /\ t.actor_kind # "any" => (t.actor_kind = "human") = (actor \in Humans)

Legal(h) ==
    \A i \in 1..Len(h) :
        /\ h[i].step \in Transitions
        /\ h[i].step.from = StateBefore(h, i)
        /\ StateBefore(h, i) \notin Terminal
        /\ MayTake(h[i].actor, h[i].step)

Extends(h, g) == Len(g) <= Len(h) /\ \A i \in 1..Len(g) : h[i] = g[i]

Init == log = <<>>

\* The log may grow by more than one row: a transition whose caller was
\* cancelled before the commit becomes durable with the next one.
Next ==
    /\ Legal(log')
    /\ Extends(log', log)

Spec == Init /\ [][Next]_log
=============================================================================

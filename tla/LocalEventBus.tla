---------------------------- MODULE LocalEventBus ----------------------------
(***************************************************************************)
(* InMemoryEventBus and AsyncEventBus: publish() awaits the handlers of    *)
(* the event's type, the first in the order they subscribed, the second    *)
(* all at once under a semaphore that all publishes of the bus share.      *)
(* EvaluatedRuns has the publishers and the handlers.                      *)
(*                                                                         *)
(* An event is named by what it is about and its type, and is published    *)
(* once; the handlers of a type are a sequence of names.                   *)
(***************************************************************************)
EXTENDS Naturals, Sequences, FiniteSets

CONSTANTS
    Buses,          \* the buses a run covers: "memory", "async"
    Permits,        \* the values of max_concurrent a run covers
    Items,          \* what events are about
    HandlersOf      \* a function from types to sequences of handlers

ASSUME LocalBusAssumption ==
    /\ Buses \subseteq {"memory", "async"}
    /\ Permits \subseteq Nat \ {0}

VARIABLES
    bus,        \* which of the two it is
    permits,    \* max_concurrent
    work        \* per item and handler: "no", "waiting", "running", "done"

localBus == <<bus, permits, work>>

Types == DOMAIN HandlersOf
Handlers == UNION {{HandlersOf[t][k] : k \in DOMAIN HandlersOf[t]} : t \in Types}
TypeOf == [h \in Handlers |-> CHOOSE t \in Types : \E k \in DOMAIN HandlersOf[t] : HandlersOf[t][k] = h]

BusInit ==
    /\ bus \in Buses
    /\ permits \in Permits
    /\ work = [i \in Items |-> [h \in Handlers |-> "no"]]

\* The handlers that hold a permit of the semaphore.
Running == {w \in Items \X Handlers : work[w[1]][w[2]] = "running"}

\* It is the handler's turn, or there is a permit.
MayStart(i, h) ==
    /\ work[i][h] = "waiting"
    /\ IF bus = "memory"
       THEN \A k, l \in DOMAIN HandlersOf[TypeOf[h]] :
                k < l /\ HandlersOf[TypeOf[h]][l] = h => work[i][HandlersOf[TypeOf[h]][k]] = "done"
       ELSE Cardinality(Running) < permits

\* work after an event about i is published.
Published(i, t) == [work EXCEPT ![i] = [h \in Handlers |-> IF TypeOf[h] = t THEN "waiting" ELSE @[h]]]

\* publish() of the event has returned, or would at once.
Delivered(i, t) == \A h \in Handlers : TypeOf[h] = t => work[i][h] = "done"

Become(i, h, to) == work' = [work EXCEPT ![i][h] = to]
=============================================================================

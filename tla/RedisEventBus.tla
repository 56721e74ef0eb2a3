---------------------------- MODULE RedisEventBus ----------------------------
(***************************************************************************)
(* RedisEventBus: events appended to the stream of their type and to the   *)
(* mirror of all streams, and the loops that read them through consumer    *)
(* groups.  All subscribers of a type share one group, those of everything *)
(* have one each, a new one whenever they subscribe: what the one before   *)
(* has pending is not looked at again and is left out.                     *)
(*                                                                         *)
(* There is one type of event, so that an entry has the same number in the *)
(* two streams.  A transaction appends to both; the entries of a batch are *)
(* appended one after the other.  A publish that fails appends nothing, or *)
(* is one whose answer was lost.                                           *)
(***************************************************************************)
EXTENDS Naturals

CONSTANTS
    Subscribers,    \* tasks, of one process or several
    Kinds,          \* the subscriptions a run covers: a function to "type", for
                    \*   subscribe(), or "all", for subscribe_all()
    Count,          \* entries a read asks for: 10
    MaxDeliveryAttempts,
    MaxStream,      \* max_stream_length
    Group,          \* the group of the type
    None,
    MaxEvents,      \* bound: events published
    MaxSubscribes,  \* bound: calls of subscribe() and subscribe_all()
    MaxFaults       \* bound: failures of the connection to Redis

ASSUME BusAssumption ==
    /\ Kinds \subseteq [Subscribers -> {"type", "all"}]
    /\ Group \notin Subscribers /\ None \notin Nat
    /\ Count \in Nat \ {0} /\ MaxStream \in Nat \ {0}
    /\ MaxDeliveryAttempts \in Nat

Streams == {"type", "all"}
Groups == Subscribers \cup {Group}

VARIABLES
    kind,       \* what each task subscribes to
    published,  \* entries appended to each stream so far
    poison,     \* those that cannot be deserialised
    first,      \* per stream: the oldest entry not trimmed
    last,       \* per group: last entry delivered, or None if there is no group
    pending,    \* per group: times_delivered of the entries not acknowledged
    dlq,        \* the dead-letter stream: pairs of a group and an entry
    pc,         \* where each loop is
    calls,      \* of subscribe() and subscribe_all() so far
    batch,      \* the entries it has read and not done with, the first being at work
    faults,
    tried,      \* history: pairs of a subscriber and an entry it was handed
    handled,    \* history: pairs of a group and an entry a handler returned from
    skipped,    \* history: per group: entries trimmed before they were delivered
    dropped     \* history: per group: entries delivered whose batch was given up

server == <<kind, published, poison, first, last, pending, dlq>>
history == <<tried, handled, skipped, dropped>>
vars == <<server, pc, calls, batch, faults, history>>

GroupOf(s) == IF kind[s] = "type" THEN Group ELSE s
Entries == 1..MaxEvents
NoEntries == [e \in {} |-> 0]

Init ==
    /\ kind \in Kinds
    /\ published = 0 /\ poison = {}
    /\ first = [t \in Streams |-> 1]
    /\ last = [g \in Groups |-> None]
    /\ pending = [g \in Groups |-> NoEntries]
    /\ dlq = {}
    /\ pc = [s \in Subscribers |-> "off"]
    /\ calls = 0
    /\ batch = [s \in Subscribers |-> {}]
    /\ faults = 0
    /\ tried = {} /\ handled = {}
    /\ skipped = [g \in Groups |-> {}]
    /\ dropped = [g \in Groups |-> {}]

Goto(s, step) == pc' = [pc EXCEPT ![s] = step]

\* The connection fails.
Fault == faults < MaxFaults /\ faults' = faults + 1

-----------------------------------------------------------------------------

\* XADD to both streams; MAXLEN ~ may trim each, or may not yet.
Publish ==
    /\ published < MaxEvents
    /\ published' = published + 1
    /\ poison' \in {poison, poison \cup {published'}}
    /\ \E trimmed \in SUBSET Streams :
        first' = [t \in Streams |-> IF t \in trimmed /\ published' >= first[t] + MaxStream
                                    THEN first[t] + 1 ELSE first[t]]
    /\ UNCHANGED <<kind, last, pending, dlq, pc, calls, batch, faults, history>>

\* subscribe() and subscribe_all() start the loop.
Subscribe(s) ==
    /\ pc[s] = "off" /\ calls < MaxSubscribes
    /\ calls' = calls + 1
    /\ Goto(s, "ensure")
    /\ IF kind[s] = "all"
       THEN /\ last' = [last EXCEPT ![s] = None]
            /\ pending' = [pending EXCEPT ![s] = NoEntries]
            /\ tried' = {t \in tried : t[1] # s}
            /\ handled' = {h \in handled : h[1] # s}
            /\ skipped' = [skipped EXCEPT ![s] = {}]
            /\ dropped' = [dropped EXCEPT ![s] = {}]
       ELSE UNCHANGED <<last, pending, history>>
    /\ UNCHANGED <<kind, published, poison, first, dlq, batch, faults>>

(* Mutant: a new group starts at the end of the stream. *)
EnsureGroup_FromNow(s) ==
    LET g == GroupOf(s) IN
    /\ pc[s] = "ensure"
    /\ last' = IF last[g] = None THEN [last EXCEPT ![g] = published] ELSE last
    /\ Goto(s, "read")
    /\ UNCHANGED <<kind, published, poison, first, pending, dlq, calls, batch, faults, history>>

\* XGROUP CREATE from the beginning of the stream, unless the group is there.
EnsureGroup(s) ==
    LET g == GroupOf(s) IN
    /\ pc[s] = "ensure"
    /\ last' = IF last[g] = None THEN [last EXCEPT ![g] = 0] ELSE last
    /\ Goto(s, "read")
    /\ UNCHANGED <<kind, published, poison, first, pending, dlq, calls, batch, faults, history>>

\* It fails, which is logged: the loop starts all the same.
EnsureFails(s) ==
    /\ pc[s] = "ensure"
    /\ Fault
    /\ Goto(s, "read")
    /\ UNCHANGED <<server, calls, batch, history>>

-----------------------------------------------------------------------------

\* XREADGROUP with ">" on the server: the first Count entries that have not
\* been delivered to the group go to s.
Deliver(s) ==
    LET g == GroupOf(s)
        from == IF last[g] < first[kind[s]] THEN first[kind[s]] ELSE last[g] + 1
        to == IF published < from + Count THEN published ELSE from + Count - 1
    IN
    /\ last[g] # None /\ from <= to
    /\ last' = [last EXCEPT ![g] = to]
    /\ pending' = [pending EXCEPT ![g] = [e \in DOMAIN @ \cup (from..to) |->
                                            IF e \in from..to THEN 1 ELSE @[e]]]
    /\ skipped' = [skipped EXCEPT ![g] = @ \cup ((last[g] + 1)..(from - 1))]
    /\ UNCHANGED <<kind, published, poison, first, dlq>>

Read(s) ==
    LET g == GroupOf(s) IN
    /\ pc[s] = "read"
    /\ Deliver(s)
    /\ batch' = [batch EXCEPT ![s] = DOMAIN pending'[g] \ DOMAIN pending[g]]
    /\ Goto(s, "dispatch")
    /\ UNCHANGED <<calls, faults, tried, handled, dropped>>

\* There is no group, or the connection fails, perhaps with the answer on its
\* way.
ReadFails(s) ==
    LET g == GroupOf(s) IN
    /\ pc[s] = "read"
    /\ \/ last[g] = None /\ UNCHANGED <<server, skipped, dropped, faults>>
       \/ Fault /\ UNCHANGED <<server, skipped, dropped>>
       \/ /\ Fault /\ Deliver(s)
          /\ dropped' = [dropped EXCEPT ![g] = @ \cup (DOMAIN pending'[g] \ DOMAIN pending[g])]
    /\ Goto(s, "sleep")
    /\ UNCHANGED <<calls, batch, tried, handled>>

Wake(s) ==
    /\ pc[s] = "sleep"
    /\ Goto(s, "read")
    /\ UNCHANGED <<server, calls, batch, faults, history>>

-----------------------------------------------------------------------------
(***************************************************************************)
(* _dispatch of the first entry of the batch.                              *)
(***************************************************************************)

Current(s) == CHOOSE e \in batch[s] : \A d \in batch[s] : e <= d

\* On to the next entry, or to the next read.
Advance(s) ==
    /\ batch' = [batch EXCEPT ![s] = @ \ {Current(s)}]
    /\ Goto(s, IF batch[s] = {Current(s)} THEN "read" ELSE "dispatch")

\* An exception or a cancellation leaves the loop over the batch.
GiveUpBatch(s, lost) ==
    /\ batch' = [batch EXCEPT ![s] = {}]
    /\ dropped' = [dropped EXCEPT ![GroupOf(s)] = @ \cup lost]

(* Mutant: the entry is acknowledged before it is handled. *)
Dispatch_AcksFirst(s) ==
    LET g == GroupOf(s) IN
    /\ pc[s] = "dispatch"
    /\ pending' = [pending EXCEPT ![g] = [e \in DOMAIN @ \ {Current(s)} |-> @[e]]]
    /\ IF Current(s) \in poison
       THEN Goto(s, "discard") /\ UNCHANGED tried
       ELSE Goto(s, "handle") /\ tried' = tried \cup {<<s, Current(s)>>}
    /\ UNCHANGED <<kind, published, poison, first, last, dlq, calls, batch, faults, handled, skipped, dropped>>

Dispatch(s) ==
    /\ pc[s] = "dispatch"
    /\ IF Current(s) \in poison
       THEN Goto(s, "discard") /\ UNCHANGED tried
       ELSE Goto(s, "handle") /\ tried' = tried \cup {<<s, Current(s)>>}
    /\ UNCHANGED <<server, calls, batch, faults, handled, skipped, dropped>>

HandlerReturns(s) ==
    /\ pc[s] = "handle"
    /\ Goto(s, "ack")
    /\ handled' = handled \cup {<<GroupOf(s), Current(s)>>}
    /\ UNCHANGED <<server, calls, batch, faults, tried, skipped, dropped>>

HandlerFails(s) ==
    /\ pc[s] = "handle"
    /\ Goto(s, "check")
    /\ UNCHANGED <<server, calls, batch, faults, history>>

\* XACK on the server.
Acknowledge(s) ==
    pending' = [pending EXCEPT ![GroupOf(s)] = [e \in DOMAIN @ \ {Current(s)} |-> @[e]]]

Ack(s) ==
    /\ pc[s] \in {"ack", "discard"}
    /\ Acknowledge(s)
    /\ Advance(s)
    /\ UNCHANGED <<kind, published, poison, first, last, dlq, calls, faults, history>>

\* A failure counts as one of the handler, but ends the batch if the entry was
\* to be discarded.  The acknowledgement may have arrived.
AckFails(s) ==
    /\ pc[s] \in {"ack", "discard"}
    /\ Fault
    /\ Acknowledge(s) \/ UNCHANGED pending
    /\ IF pc[s] = "ack" THEN Goto(s, "check") /\ UNCHANGED <<batch, dropped>>
                        ELSE Goto(s, "sleep") /\ GiveUpBatch(s, batch[s])
    /\ UNCHANGED <<kind, published, poison, first, last, dlq, calls, tried, handled, skipped>>

\* _maybe_dlq.  A failure of XPENDING counts as no delivery.
MaybeDlq(s) ==
    LET g == GroupOf(s)
        e == Current(s)
        deliveries == IF e \in DOMAIN pending[g] THEN pending[g][e] ELSE 0
    IN
    /\ pc[s] = "check"
    /\ IF deliveries >= MaxDeliveryAttempts
       THEN dlq' = dlq \cup {<<g, e>>} /\ Acknowledge(s)
       ELSE UNCHANGED <<dlq, pending>>
    /\ Advance(s)
    /\ UNCHANGED <<kind, published, poison, first, last, calls, faults, history>>

\* The task is cancelled, by unsubscribe() or close(), or its process dies.
Stop(s) ==
    /\ pc[s] # "off"
    /\ Goto(s, "off")
    /\ GiveUpBatch(s, batch[s])
    /\ UNCHANGED <<server, calls, faults, tried, handled, skipped>>

-----------------------------------------------------------------------------

Step(s) ==
    \/ EnsureGroup(s) \/ EnsureFails(s)
    \/ Read(s) \/ ReadFails(s) \/ Wake(s)
    \/ Dispatch(s) \/ HandlerReturns(s) \/ HandlerFails(s)
    \/ Ack(s) \/ AckFails(s) \/ MaybeDlq(s)

Next ==
    \/ Publish
    \/ \E s \in Subscribers : Subscribe(s) \/ Step(s) \/ Stop(s)

Spec == Init /\ [][Next]_vars

(***************************************************************************)
(* Redis answers unless the connection fails, which it does not for ever;  *)
(* handlers return or raise; the event loop resumes what is ready.         *)
(* Nothing need be published or subscribed, and no loop need ever stop.    *)
(***************************************************************************)
Fairness == \A s \in Subscribers : WF_vars(Step(s))

FairSpec == Spec /\ Fairness

-----------------------------------------------------------------------------
(***************************************************************************)
(* Properties.                                                             *)
(***************************************************************************)

\* An entry that a group has left behind is still pending or a handler of the
\* group has returned from it, unless it could not be read or had already been
\* trimmed: no loop acknowledges what it has not done, whatever fails or stops
\* it in the middle of a batch (redis_event_bus.py:148-204).
NothingIsForgotten ==
    \A g \in Groups : last[g] # None =>
        \A e \in 1..last[g] :
            \/ e \in DOMAIN pending[g] \/ <<g, e>> \in handled
            \/ e \in poison \/ e \in skipped[g] \/ <<g, e>> \in dlq

Up(s) == pc[s] \notin {"off", "ensure"} /\ last[GroupOf(s)] # None

\* Nothing that s could read has not been handed to a handler of its group.
CaughtUp(s) ==
    \A e \in 1..published :
        \/ \E o \in Subscribers : GroupOf(o) = GroupOf(s) /\ <<o, e>> \in tried
        \/ e \in poison \/ e \in skipped[GroupOf(s)] \/ e \in dropped[GroupOf(s)]

\* A loop catches up with its stream, including what was published before its
\* group was there or while nobody read it: every event reaches a handler of
\* the group, unless it was trimmed first or read in a batch that was given up
\* (redis_event_bus.py:116-146 and 206-213).
LoopsCatchUp == \A s \in Subscribers : Up(s) ~> CaughtUp(s) \/ ~Up(s)

\* "every subscriber receives every event -- fan-out semantics, not
\* competing-consumers" (redis_event_bus.py:32-34), said of subscriptions that
\* nothing disturbs.
EverySubscriberGetsEveryEvent ==
    \A s \in Subscribers, e \in Entries :
        Up(s) /\ published = e ~>
            \/ <<s, e>> \in tried \/ ~Up(s)
            \/ faults > 0 \/ e \in poison \/ e \in skipped[GroupOf(s)]
=============================================================================

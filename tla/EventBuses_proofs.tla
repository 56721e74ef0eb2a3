-------------------------- MODULE EventBuses_proofs --------------------------
(***************************************************************************)
(* Proofs about the event buses: about RedisEventBus, and about            *)
(* EvaluatedRuns, which publishes on a local one.  The two components have *)
(* nothing in common but this module; each theorem is about one of them,   *)
(* for any values of its constants.                                        *)
(***************************************************************************)
EXTENDS RedisEventBus, EvaluatedRuns, FiniteSetTheorems, TLAPS

(***************************************************************************)
(* RedisEventBus.  The argument: an entry is acknowledged only by the loop *)
(* that has it in hand, and that loop knows what became of it.             *)
(***************************************************************************)

\* The types that the argument needs.
StreamTypes ==
    /\ kind \in Kinds
    /\ published \in Nat
    /\ first \in [Streams -> Nat]
    /\ DOMAIN last = Groups /\ \A g \in Groups : last[g] # None => last[g] \in Nat
    /\ DOMAIN pending = Groups
    /\ DOMAIN skipped = Groups
    /\ DOMAIN pc = Subscribers /\ DOMAIN batch = Subscribers

\* A loop that is about to acknowledge an entry knows why it may.
AcksAreFounded ==
    \A s \in Subscribers :
        /\ pc[s] = "ack" => <<GroupOf(s), Current(s)>> \in handled
        /\ pc[s] = "discard" => Current(s) \in poison

\* What may have become of an entry that a group has left behind.
Accounted(g, e) ==
    \/ e \in DOMAIN pending[g] \/ <<g, e>> \in handled
    \/ e \in poison \/ e \in skipped[g] \/ <<g, e>> \in dlq

IInv == StreamTypes /\ AcksAreFounded /\ NothingIsForgotten

-----------------------------------------------------------------------------

\* Groups are the subscribers and the one of the type, which is nobody's own.
LEMMA GroupsAreApart ==
    ASSUME StreamTypes
    PROVE  /\ \A s \in Subscribers : GroupOf(s) \in Groups /\ kind[s] \in Streams
           /\ \A s, o \in Subscribers : GroupOf(s) = o => s = o /\ kind[s] = "all"
BY BusAssumption DEF StreamTypes, GroupOf, Groups, Streams

\* A read leaves nothing out between what was delivered and what it delivers.
LEMMA DeliverAccounts ==
    ASSUME StreamTypes, NothingIsForgotten, NEW s \in Subscribers, Deliver(s)
    PROVE  /\ DOMAIN last' = Groups /\ DOMAIN pending' = Groups /\ DOMAIN skipped' = Groups
           /\ \A g \in Groups : last'[g] # None => last'[g] \in Nat
           /\ handled' = handled => NothingIsForgotten'
<1> DEFINE g == GroupOf(s)
           from == IF last[g] < first[kind[s]] THEN first[kind[s]] ELSE last[g] + 1
           to == IF published < from + Count THEN published ELSE from + Count - 1
<1>1. g \in Groups /\ kind[s] \in Streams
    BY GroupsAreApart
<1>2. /\ last[g] \in Nat /\ first[kind[s]] \in Nat /\ published \in Nat /\ Count \in Nat
      /\ from \in Nat /\ to \in Nat /\ from <= to /\ last[g] # None
    BY <1>1, BusAssumption DEF Deliver, StreamTypes
<1>3. /\ last' = [last EXCEPT ![g] = to] /\ poison' = poison /\ dlq' = dlq
      /\ skipped' = [skipped EXCEPT ![g] = @ \cup ((last[g] + 1)..(from - 1))]
      /\ DOMAIN pending' = DOMAIN pending
      /\ DOMAIN pending'[g] = DOMAIN pending[g] \cup (from..to)
      /\ \A h \in Groups \ {g} : pending'[h] = pending[h]
    BY <1>1 DEF Deliver, StreamTypes
<1>4. ASSUME handled' = handled, NEW h \in Groups, last'[h] # None, NEW e \in 1..last'[h]
      PROVE  Accounted(h, e)'
    <2>1. CASE h # g
        BY <1>1, <1>3, <1>4, <2>1 DEF StreamTypes, NothingIsForgotten, Accounted
    <2>2. CASE h = g /\ e \in from..to
        BY <1>3, <2>2 DEF Accounted
    <2>3. CASE h = g /\ e \in (last[g] + 1)..(from - 1)
        BY <1>1, <1>3, <2>3 DEF Accounted, StreamTypes
    <2>4. CASE h = g /\ e \in 1..last[g]
        <3>1. Accounted(g, e)
            BY <1>1, <1>2, <2>4 DEF NothingIsForgotten, Accounted
        <3> QED
            BY <1>1, <1>3, <1>4, <2>4, <3>1 DEF Accounted, StreamTypes
    <2>5. e \in 1..to \/ h # g
        BY <1>1, <1>3, <1>4 DEF StreamTypes
    <2> QED
        BY <1>2, <2>1, <2>2, <2>3, <2>4, <2>5
<1>5. handled' = handled => NothingIsForgotten'
    BY <1>4 DEF NothingIsForgotten, Accounted
<1> QED
    BY <1>1, <1>2, <1>3, <1>5 DEF StreamTypes

\* What is taken from the pending entries of a group is accounted for.
LEMMA AcknowledgeAccounts ==
    ASSUME StreamTypes, NothingIsForgotten, NEW s \in Subscribers,
           Acknowledge(s) \/ pending' = pending,
           last' = last, poison' = poison, skipped' = skipped, handled' = handled,
           \A d \in dlq : d \in dlq',
           \/ pending' = pending
           \/ <<GroupOf(s), Current(s)>> \in handled \/ Current(s) \in poison
           \/ <<GroupOf(s), Current(s)>> \in dlq'
    PROVE  DOMAIN pending' = Groups /\ NothingIsForgotten'
<1>1. GroupOf(s) \in Groups
    BY GroupsAreApart
<1>2. DOMAIN pending' = Groups
    BY DEF Acknowledge, StreamTypes
<1>3. ASSUME NEW g \in Groups, NEW e, Accounted(g, e)
      PROVE  Accounted(g, e)'
    <2>1. e \in DOMAIN pending[g] => e \in DOMAIN pending'[g] \/ (g = GroupOf(s) /\ e = Current(s) /\ pending' # pending)
        BY <1>1 DEF Acknowledge, StreamTypes
    <2> QED
        BY <1>3, <2>1 DEF Accounted
<1> QED
    BY <1>2, <1>3 DEF NothingIsForgotten, Accounted

\* The steps after which every entry is where it was.
LEMMA QuietAccounts ==
    ASSUME NothingIsForgotten, last' = last, pending' = pending,
           \A e \in poison : e \in poison', skipped' = skipped, dlq' = dlq,
           \A h \in handled : h \in handled'
    PROVE  NothingIsForgotten'
BY DEF NothingIsForgotten

\* A loop has the same entry in hand as long as its batch is the same.
LEMMA CurrentStays ==
    \A s \in Subscribers : batch'[s] = batch[s] => Current(s)' = Current(s)
BY Zenon DEF Current

\* Acknowledgements stay founded when only one loop moves.
LEMMA FoundedStays ==
    ASSUME StreamTypes, AcksAreFounded, NEW s \in Subscribers, kind' = kind,
           poison' = poison, \A h \in handled : h \in handled',
           \A o \in Subscribers \ {s} : pc'[o] = pc[o] /\ batch'[o] = batch[o],
           pc'[s] = "ack" => <<GroupOf(s), Current(s)>> \in handled' /\ batch'[s] = batch[s],
           pc'[s] = "discard" => Current(s) \in poison /\ batch'[s] = batch[s]
    PROVE  AcksAreFounded'
<1>1. \A o \in Subscribers : GroupOf(o)' = GroupOf(o)
    BY DEF GroupOf
<1>2. ASSUME NEW o \in Subscribers, pc'[o] = "ack"
      PROVE  <<GroupOf(o), Current(o)>> \in handled' /\ Current(o)' = Current(o)
    BY <1>2, CurrentStays DEF AcksAreFounded
<1>3. ASSUME NEW o \in Subscribers, pc'[o] = "discard"
      PROVE  Current(o) \in poison' /\ Current(o)' = Current(o)
    BY <1>3, CurrentStays DEF AcksAreFounded
<1> QED
    BY <1>1, <1>2, <1>3 DEF AcksAreFounded

LEMMA InvariantHolds == Spec => []IInv
<1>1. Init => IInv
    <2> SUFFICES ASSUME Init
                 PROVE  IInv
        OBVIOUS
    <2> QED
        BY BusAssumption DEF Init, IInv, StreamTypes, AcksAreFounded, NothingIsForgotten
<1>2. IInv /\ [Next]_vars => IInv'
    <2> SUFFICES ASSUME IInv, [Next]_vars
                 PROVE  IInv'
        OBVIOUS
    <2> USE DEF IInv
    <2>1. CASE Publish
        <3>1. StreamTypes'
            BY <2>1 DEF Publish, StreamTypes, history, Streams
        <3>2. AcksAreFounded'
            BY <2>1, CurrentStays DEF Publish, AcksAreFounded, GroupOf, history
        <3>3. NothingIsForgotten'
            BY <2>1, QuietAccounts DEF Publish, history
        <3> QED
            BY <3>1, <3>2, <3>3
    <2>2. ASSUME NEW s \in Subscribers, Subscribe(s)
          PROVE  IInv'
        <3>1. StreamTypes'
            BY <2>2 DEF Subscribe, Goto, StreamTypes, history
        <3>2. \A o \in Subscribers : pc'[o] \in {"ack", "discard"} => o # s /\ pc[o] = pc'[o]
            BY <2>2 DEF Subscribe, Goto, StreamTypes
        <3>3. \A o \in Subscribers \ {s} : \A e : <<GroupOf(o), e>> \in handled => <<GroupOf(o), e>> \in handled'
            BY <2>2, GroupsAreApart DEF Subscribe, history
        <3>4. AcksAreFounded'
            BY <2>2, <3>2, <3>3, CurrentStays DEF Subscribe, AcksAreFounded, GroupOf
        <3>5. NothingIsForgotten'
            <4>1. CASE kind[s] = "all"
                <5>1. ASSUME NEW g \in Groups, last'[g] # None, NEW e \in 1..last'[g]
                      PROVE  g # s /\ Accounted(g, e)
                    BY <2>2, <4>1, <5>1
                       DEF Subscribe, StreamTypes, NothingIsForgotten, Accounted
                <5>2. \A g \in Groups \ {s} : \A e : Accounted(g, e) => Accounted(g, e)'
                    BY <2>2, <4>1 DEF Subscribe, StreamTypes, Accounted
                <5> QED
                    BY <5>1, <5>2 DEF NothingIsForgotten, Accounted
            <4>2. CASE kind[s] # "all"
                BY <2>2, <4>2, QuietAccounts DEF Subscribe, history
            <4> QED
                BY <4>1, <4>2
        <3> QED
            BY <3>1, <3>4, <3>5
    <2>3. ASSUME NEW s \in Subscribers, EnsureGroup(s)
          PROVE  IInv'
        <3>1. GroupOf(s) \in Groups
            BY GroupsAreApart
        <3>2. StreamTypes'
            BY <2>3, <3>1 DEF EnsureGroup, Goto, StreamTypes, history
        <3>3. AcksAreFounded'
            BY <2>3, FoundedStays DEF EnsureGroup, Goto, history, StreamTypes
        <3>4. NothingIsForgotten'
            BY <2>3, <3>1 DEF EnsureGroup, StreamTypes, NothingIsForgotten, history
        <3> QED
            BY <3>2, <3>3, <3>4
    <2>4. ASSUME NEW s \in Subscribers,
                 EnsureFails(s) \/ Wake(s) \/ Dispatch(s) \/ HandlerReturns(s) \/ HandlerFails(s) \/ Stop(s)
          PROVE  IInv'
        <3>1. StreamTypes'
            BY <2>4 DEF EnsureFails, Wake, Dispatch, HandlerReturns, HandlerFails, Stop, GiveUpBatch,
                        Goto, StreamTypes, server, history
        <3>2. AcksAreFounded'
            BY <2>4, FoundedStays
               DEF EnsureFails, Wake, Dispatch, HandlerReturns, HandlerFails, Stop, GiveUpBatch,
                   Goto, StreamTypes, server, history
        <3>3. NothingIsForgotten'
            BY <2>4, QuietAccounts
               DEF EnsureFails, Wake, Dispatch, HandlerReturns, HandlerFails, Stop, server, history
        <3> QED
            BY <3>1, <3>2, <3>3
    <2>5. ASSUME NEW s \in Subscribers, Read(s)
          PROVE  IInv'
        <3>1. StreamTypes' /\ NothingIsForgotten'
            BY <2>5, DeliverAccounts DEF Read, Deliver, Goto, StreamTypes
        <3>2. AcksAreFounded'
            BY <2>5, FoundedStays DEF Read, Deliver, Goto, StreamTypes
        <3> QED
            BY <3>1, <3>2
    <2>6. ASSUME NEW s \in Subscribers, ReadFails(s)
          PROVE  IInv'
        <3>1. ASSUME Deliver(s)
              PROVE  StreamTypes' /\ NothingIsForgotten'
            <4>1. StreamTypes'
                BY <2>6, <3>1, DeliverAccounts DEF ReadFails, Deliver, Goto, StreamTypes
            <4>2. NothingIsForgotten'
                BY <2>6, <3>1, DeliverAccounts DEF ReadFails
            <4> QED
                BY <4>1, <4>2
        <3>2. ASSUME UNCHANGED <<server, skipped, dropped>>
              PROVE  StreamTypes' /\ NothingIsForgotten'
            <4>1. StreamTypes'
                BY <2>6, <3>2 DEF ReadFails, Goto, StreamTypes, server
            <4>2. NothingIsForgotten'
                BY <2>6, <3>2, QuietAccounts DEF ReadFails, server
            <4> QED
                BY <4>1, <4>2
        <3>3. AcksAreFounded'
            BY <2>6, FoundedStays DEF ReadFails, Deliver, Goto, StreamTypes, server
        <3>4. Deliver(s) \/ UNCHANGED <<server, skipped, dropped>>
            BY <2>6 DEF ReadFails
        <3> QED
            BY <3>1, <3>2, <3>3, <3>4
    <2>7. ASSUME NEW s \in Subscribers, Ack(s)
          PROVE  IInv'
        <3>1. DOMAIN pending' = Groups /\ NothingIsForgotten'
            BY <2>7, AcknowledgeAccounts DEF Ack, AcksAreFounded, history
        <3>2. StreamTypes'
            BY <2>7, <3>1 DEF Ack, Advance, Goto, StreamTypes, history
        <3>3. AcksAreFounded'
            BY <2>7, FoundedStays DEF Ack, Advance, Goto, StreamTypes, history
        <3> QED
            BY <3>1, <3>2, <3>3
    <2>8. ASSUME NEW s \in Subscribers, AckFails(s)
          PROVE  IInv'
        <3>1. DOMAIN pending' = Groups /\ NothingIsForgotten'
            BY <2>8, AcknowledgeAccounts DEF AckFails, AcksAreFounded
        <3>2. StreamTypes'
            BY <2>8, <3>1 DEF AckFails, GiveUpBatch, Goto, StreamTypes
        <3>3. AcksAreFounded'
            BY <2>8, FoundedStays DEF AckFails, GiveUpBatch, Goto, StreamTypes
        <3> QED
            BY <3>1, <3>2, <3>3
    <2>9. ASSUME NEW s \in Subscribers, MaybeDlq(s)
          PROVE  IInv'
        <3>1. DOMAIN pending' = Groups /\ NothingIsForgotten'
            <4>1. \/ pending' = pending /\ dlq' = dlq
                  \/ Acknowledge(s) /\ dlq' = dlq \cup {<<GroupOf(s), Current(s)>>}
                BY <2>9 DEF MaybeDlq
            <4> QED
                BY <2>9, <4>1, AcknowledgeAccounts DEF MaybeDlq, history
        <3>2. StreamTypes'
            BY <2>9, <3>1 DEF MaybeDlq, Advance, Goto, StreamTypes, history
        <3>3. AcksAreFounded'
            BY <2>9, FoundedStays DEF MaybeDlq, Advance, Goto, StreamTypes, history
        <3> QED
            BY <3>1, <3>2, <3>3
    <2>10. CASE UNCHANGED vars
        BY <2>10 DEF vars, server, history, StreamTypes, AcksAreFounded, NothingIsForgotten, GroupOf, Current
    <2> QED
        BY <2>1, <2>2, <2>3, <2>4, <2>5, <2>6, <2>7, <2>8, <2>9, <2>10 DEF Next, Step
<1> QED
    BY <1>1, <1>2, PTL DEF Spec

-----------------------------------------------------------------------------

\* No loop acknowledges what it has not done, whatever fails or stops it in the
\* middle of a batch: an entry that a group has left behind is pending, handled,
\* unreadable, trimmed before it was read, or in the dead-letter stream
\* (redis_event_bus.py:148-204).
THEOREM EntriesAreAccountedFor == Spec => []NothingIsForgotten
<1>1. IInv => NothingIsForgotten
    BY DEF IInv
<1> QED
    BY <1>1, InvariantHolds, PTL

-----------------------------------------------------------------------------
(***************************************************************************)
(* RedisEventBus: who is handed an entry.  Only entries that were never    *)
(* delivered are read, so an entry is in the hands of one loop of a group  *)
(* at most, and what a loop has let go of was handed to its handler, could *)
(* not be read, or went with its batch.                                    *)
(***************************************************************************)

\* Where a loop has a batch, and where the handler has been given its first
\* entry.
InHand == {"dispatch", "handle", "ack", "discard", "check"}
Handed == {"handle", "ack", "check"}

\* s and o read for the same group.
Share(s, o) == GroupOf(s) = GroupOf(o)

\* What a loop, a handler or a pending list has was delivered, once.
DeliveriesFit ==
    /\ tried \subseteq Subscribers \X Nat /\ DOMAIN dropped = Groups
    /\ \A s \in Subscribers :
        /\ batch[s] # {} <=> pc[s] \in InHand
        /\ \A e \in batch[s] : last[GroupOf(s)] # None /\ e \in 1..last[GroupOf(s)]
        /\ \A e \in Nat : <<s, e>> \in tried => last[GroupOf(s)] # None /\ e \in 1..last[GroupOf(s)]
    /\ \A g \in Groups : \A e \in DOMAIN pending[g] :
        last[g] # None /\ e \in 1..last[g] /\ pending[g][e] = 1
    /\ dlq # {} => MaxDeliveryAttempts <= 1

\* The batches of a group have nothing in common.
BatchesAreApart ==
    \A s, o \in Subscribers : Share(s, o) /\ s # o => batch[s] \cap batch[o] = {}

\* What is left of a batch has not been handed to anybody, but for the entry
\* its own handler has.
RestIsNew ==
    \A s, o \in Subscribers : Share(s, o) =>
        \A e \in batch[s] : <<o, e>> \in tried =>
            o = s /\ e = Current(s) /\ pc[s] \in Handed

FirstIsHanded == \A s \in Subscribers : pc[s] \in Handed => <<s, Current(s)>> \in tried

\* No two subscribers of a group have been handed the same entry.
HandedToOne ==
    \A s, o \in Subscribers : Share(s, o) =>
        \A e \in Nat : <<s, e>> \in tried /\ <<o, e>> \in tried => s = o

\* An entry delivered to the group of s was handed to a handler or is in the
\* batch of a loop, unless it could not be or was not read, or its batch was
\* given up.
Reached(s, e) ==
    \/ \E o \in Subscribers : Share(o, s) /\ (<<o, e>> \in tried \/ e \in batch[o])
    \/ e \in poison \/ e \in skipped[GroupOf(s)] \/ e \in dropped[GroupOf(s)]

DeliveredIsReached ==
    \A s \in Subscribers : last[GroupOf(s)] # None =>
        \A e \in 1..last[GroupOf(s)] : Reached(s, e)

HandsFit ==
    /\ DeliveriesFit /\ BatchesAreApart /\ RestIsNew
    /\ FirstIsHanded /\ HandedToOne /\ DeliveredIsReached

\* A loop that has nothing left to read and whose group has nothing in hand has
\* caught up.
IdleLoopsHaveCaughtUp ==
    \A s \in Subscribers :
        /\ Up(s) /\ last[GroupOf(s)] >= published
        /\ \A o \in Subscribers : Share(o, s) => pc[o] \notin InHand
        => CaughtUp(s)

-----------------------------------------------------------------------------

LEMMA LeastEntry ==
    ASSUME NEW S \in SUBSET Nat, S # {}
    PROVE  \E n \in S : \A m \in S : n <= m
<1> DEFINE R == OpToRel(<, Nat)
<1>1. IsWellFoundedOn(R, Nat)
    BY NatLessThanWellFounded
<1>2. \A m, n \in Nat : m < n => <<m, n>> \in R
    BY DEF OpToRel
<1> HIDE DEF R
<1>3. PICK n \in S : \A m \in S : ~ (<<m, n>> \in R)
    BY <1>1, WFMin
<1>4. ASSUME NEW m \in S
      PROVE  n <= m
    <2>1. ~ (m < n)
        BY <1>2, <1>3
    <2> QED
        BY <2>1
<1> QED
    BY <1>4

\* The entry at work is one of the batch.
LEMMA CurrentIsInHand ==
    ASSUME IInv, DeliveriesFit, NEW s \in Subscribers, pc[s] \in InHand
    PROVE  Current(s) \in batch[s] /\ Current(s) \in Nat
<1>1. batch[s] # {} /\ batch[s] \subseteq Nat
    <2>1. GroupOf(s) \in Groups
        BY GroupsAreApart DEF IInv
    <2>2. \A e \in batch[s] : last[GroupOf(s)] \in Nat /\ e \in 1..last[GroupOf(s)]
        BY <2>1 DEF DeliveriesFit, IInv, StreamTypes
    <2> QED
        BY <2>2 DEF DeliveriesFit
<1>2. \E e \in batch[s] : \A d \in batch[s] : e <= d
    BY <1>1, LeastEntry
<1>3. Current(s) \in batch[s]
    BY <1>2 DEF Current
<1> QED
    BY <1>1, <1>3

\* A step of one loop that nothing is delivered in: what leaves its batch was
\* handed to its handler, could not be read, or is given up, and only the first
\* entry of the batch is handed over, when it is taken up.
LEMMA LoopMoves ==
    ASSUME IInv, HandsFit, NEW s \in Subscribers,
           kind' = kind, last' = last, poison' = poison, skipped' = skipped,
           DOMAIN dropped' = Groups,
           \A g \in Groups : dropped[g] \subseteq dropped'[g],
           \A g \in Groups : \A e \in DOMAIN pending'[g] :
               e \in DOMAIN pending[g] /\ pending'[g][e] = pending[g][e],
           dlq' # {} => MaxDeliveryAttempts <= 1,
           \A o \in Subscribers \ {s} : pc'[o] = pc[o] /\ batch'[o] = batch[o],
           batch'[s] # {} <=> pc'[s] \in InHand,
           batch'[s] \subseteq batch[s],
           \A e \in batch[s] : \/ e \in batch'[s] \/ <<s, e>> \in tried \/ e \in poison
                               \/ e \in dropped'[GroupOf(s)],
           \/ tried' = tried
           \/ pc[s] = "dispatch" /\ tried' = tried \cup {<<s, Current(s)>>},
           \A e \in batch'[s] : <<s, e>> \in tried' => e = Current(s)' /\ pc'[s] \in Handed,
           pc'[s] \in Handed => <<s, Current(s)'>> \in tried'
    PROVE  HandsFit'
<1> USE DEF HandsFit
<1>1. /\ \A x \in Subscribers : GroupOf(x)' = GroupOf(x) /\ GroupOf(x) \in Groups
      /\ \A x, o \in Subscribers : Share(x, o)' <=> Share(x, o)
      /\ \A x \in Subscribers : Share(x, x)
    BY GroupsAreApart DEF GroupOf, Share, IInv
<1>2. \A x \in Subscribers \ {s} : Current(x)' = Current(x)
    BY CurrentStays
<1>3. /\ \A x \in Subscribers : batch'[x] \subseteq batch[x]
      /\ \A x \in Subscribers : \A e : <<x, e>> \in tried =>  <<x, e>> \in tried'
      /\ \A x \in Subscribers : \A e : <<x, e>> \in tried' /\ <<x, e>> \notin tried =>
            x = s /\ e = Current(s) /\ pc[s] = "dispatch" /\ e \in batch[s] /\ e \in Nat
    BY CurrentIsInHand DEF InHand
<1>4. DeliveriesFit'
    <2>1. tried' \subseteq Subscribers \X Nat
        BY CurrentIsInHand DEF DeliveriesFit, InHand
    <2>2. ASSUME NEW x \in Subscribers
          PROVE  /\ batch'[x] # {} <=> pc'[x] \in InHand
                 /\ \A e \in batch'[x] : last[GroupOf(x)] # None /\ e \in 1..last[GroupOf(x)]
                 /\ \A e \in Nat : <<x, e>> \in tried' => last[GroupOf(x)] # None /\ e \in 1..last[GroupOf(x)]
        BY <1>3 DEF DeliveriesFit
    <2>3. \A g \in Groups : \A e \in DOMAIN pending'[g] :
              last[g] # None /\ e \in 1..last[g] /\ pending'[g][e] = 1
        BY DEF DeliveriesFit
    <2> QED
        BY <1>1, <2>1, <2>2, <2>3 DEF DeliveriesFit
<1>5. BatchesAreApart'
    BY <1>1, <1>3 DEF BatchesAreApart
<1>6. RestIsNew'
    <2>1. ASSUME NEW x \in Subscribers, NEW o \in Subscribers, Share(x, o),
                 NEW e \in batch'[x], <<o, e>> \in tried'
          PROVE  o = x /\ e = Current(x)' /\ pc'[x] \in Handed
        <3>1. CASE x = s /\ o = s
            BY <2>1, <3>1
        <3>2. CASE <<o, e>> \in tried
            <4>1. o = x /\ e = Current(x) /\ pc[x] \in Handed
                BY <1>3, <2>1, <3>2 DEF RestIsNew
            <4>2. CASE x = s
                BY <2>1, <4>1, <4>2
            <4>3. CASE x # s
                BY <1>2, <4>1, <4>3
            <4> QED
                BY <4>2, <4>3
        <3>3. CASE <<o, e>> \notin tried /\ x # s
            <4>1. o = s /\ e \in batch[s] /\ e \in batch[x]
                BY <1>3, <2>1, <3>3
            <4> QED
                BY <2>1, <3>3, <4>1 DEF BatchesAreApart
        <3>4. CASE <<o, e>> \notin tried /\ x = s
            BY <1>3, <2>1, <3>4
        <3> QED
            BY <3>1, <3>2, <3>3, <3>4
    <2> QED
        BY <1>1, <2>1 DEF RestIsNew
<1>7. FirstIsHanded'
    <2>1. ASSUME NEW x \in Subscribers, pc'[x] \in Handed, x # s
          PROVE  <<x, Current(x)'>> \in tried'
        <3>1. <<x, Current(x)>> \in tried
            BY <2>1 DEF FirstIsHanded
        <3> QED
            BY <1>2, <1>3, <2>1, <3>1
    <2> QED
        BY <2>1 DEF FirstIsHanded
<1>8. HandedToOne'
    <2>1. ASSUME NEW x \in Subscribers, NEW o \in Subscribers, Share(x, o), NEW e \in Nat,
                 <<x, e>> \in tried', <<o, e>> \in tried', x # o
          PROVE  FALSE
        <3>1. \A y \in Subscribers : \A z \in Subscribers : Share(y, z) /\ <<y, e>> \notin tried /\ <<y, e>> \in tried' => <<z, e>> \notin tried
            BY <1>3 DEF RestIsNew, Handed
        <3>2. Share(o, x)
            BY <2>1 DEF Share
        <3>3. <<x, e>> \in tried \/ <<o, e>> \in tried
            BY <1>3, <2>1
        <3> QED
            BY <2>1, <3>1, <3>2, <3>3 DEF HandedToOne
    <2> QED
        BY <1>1, <2>1 DEF HandedToOne
<1>9. DeliveredIsReached'
    <2>1. ASSUME NEW x \in Subscribers, NEW e, Reached(x, e)
          PROVE  Reached(x, e)'
        <3>1. CASE e \in poison \/ e \in skipped[GroupOf(x)] \/ e \in dropped[GroupOf(x)]
            BY <1>1, <3>1 DEF Reached
        <3>2. ASSUME NEW o \in Subscribers, Share(o, x), <<o, e>> \in tried \/ e \in batch[o]
              PROVE  Reached(x, e)'
            <4>1. \/ <<o, e>> \in tried' \/ e \in batch'[o] \/ e \in poison
                  \/ o = s /\ e \in dropped'[GroupOf(s)]
                BY <1>3, <3>2
            <4>2. GroupOf(o) = GroupOf(x)
                BY <3>2 DEF Share
            <4> QED
                BY <1>1, <3>2, <4>1, <4>2 DEF Reached
        <3> QED
            BY <2>1, <3>1, <3>2 DEF Reached
    <2> QED
        BY <1>1, <2>1 DEF DeliveredIsReached
<1> QED
    BY <1>4, <1>5, <1>6, <1>7, <1>8, <1>9

\* What a read delivers is new to the whole group: s has it in hand now, or it
\* is lost with the answer.
LEMMA DeliveryFits ==
    ASSUME IInv, HandsFit, NEW s \in Subscribers, pc[s] = "read", Deliver(s),
           tried' = tried, \A o \in Subscribers \ {s} : pc'[o] = pc[o] /\ batch'[o] = batch[o],
           DOMAIN dropped' = Groups, \A g \in Groups : dropped[g] \subseteq dropped'[g],
           LET new == DOMAIN pending'[GroupOf(s)] \ DOMAIN pending[GroupOf(s)] IN
           \/ batch'[s] = new /\ pc'[s] = "dispatch"
           \/ batch'[s] = {} /\ pc'[s] = "sleep" /\ new \subseteq dropped'[GroupOf(s)]
    PROVE  HandsFit'
<1> DEFINE g == GroupOf(s)
           from == IF last[g] < first[kind[s]] THEN first[kind[s]] ELSE last[g] + 1
           to == IF published < from + Count THEN published ELSE from + Count - 1
           new == DOMAIN pending'[g] \ DOMAIN pending[g]
<1> USE DEF HandsFit
<1>1. /\ \A x \in Subscribers : GroupOf(x)' = GroupOf(x) /\ GroupOf(x) \in Groups
      /\ \A x, o \in Subscribers : Share(x, o)' <=> Share(x, o)
      /\ \A x, o \in Subscribers : Share(x, o) <=> GroupOf(x) = GroupOf(o)
      /\ g \in Groups /\ kind[s] \in Streams
    BY GroupsAreApart DEF GroupOf, Share, IInv, Deliver
<1>2. /\ last[g] \in Nat /\ first[kind[s]] \in Nat /\ published \in Nat /\ Count \in Nat
      /\ from \in Nat /\ to \in Nat /\ from <= to /\ last[g] # None /\ last[g] < from
    BY <1>1, BusAssumption DEF Deliver, StreamTypes, IInv
<1>3. /\ last' = [last EXCEPT ![g] = to] /\ poison' = poison /\ dlq' = dlq
      /\ skipped' = [skipped EXCEPT ![g] = @ \cup ((last[g] + 1)..(from - 1))]
      /\ pending' = [pending EXCEPT ![g] = [e \in DOMAIN @ \cup (from..to) |->
                                              IF e \in from..to THEN 1 ELSE @[e]]]
    BY <1>1 DEF Deliver, StreamTypes
<1>4. /\ last'[g] = to /\ \A h \in Groups \ {g} : last'[h] = last[h]
      /\ skipped'[g] = skipped[g] \cup ((last[g] + 1)..(from - 1))
      /\ \A h \in Groups \ {g} : skipped'[h] = skipped[h]
    BY <1>1, <1>3 DEF IInv, StreamTypes
<1>5. /\ \A h \in Groups \ {g} : pending'[h] = pending[h]
      /\ DOMAIN pending'[g] = DOMAIN pending[g] \cup (from..to)
      /\ \A e \in DOMAIN pending'[g] : pending'[g][e] = IF e \in from..to THEN 1 ELSE pending[g][e]
    BY <1>1, <1>3 DEF IInv, StreamTypes
<1>6. new = from..to
    <2>1. \A e \in DOMAIN pending[g] : e \in 1..last[g]
        BY <1>1 DEF DeliveriesFit
    <2> QED
        BY <1>2, <1>5, <2>1
<1>7. \/ batch'[s] = from..to /\ pc'[s] = "dispatch"
      \/ batch'[s] = {} /\ pc'[s] = "sleep" /\ from..to \subseteq dropped'[g]
    BY <1>6
<1>8. /\ batch[s] = {} /\ from \in from..to
      /\ \A x \in Subscribers : GroupOf(x) = g => \A e \in from..to : e \notin batch[x] /\ <<x, e>> \notin tried
    <2>1. batch[s] = {} /\ from \in from..to
        BY <1>2 DEF DeliveriesFit, InHand
    <2>2. ASSUME NEW x \in Subscribers, GroupOf(x) = g, NEW e \in from..to
          PROVE  e \notin batch[x] /\ <<x, e>> \notin tried
        <3>1. e \in Nat /\ e \notin 1..last[g]
            BY <1>2
        <3> QED
            BY <2>2, <3>1 DEF DeliveriesFit
    <2> QED
        BY <2>1, <2>2
<1> HIDE DEF g, from, to, new
<1>9. DeliveriesFit'
    <2>1. ASSUME NEW x \in Subscribers
          PROVE  /\ batch'[x] # {} <=> pc'[x] \in InHand
                 /\ \A e \in batch'[x] : last'[GroupOf(x)] # None /\ e \in 1..last'[GroupOf(x)]
                 /\ \A e \in Nat : <<x, e>> \in tried => last'[GroupOf(x)] # None /\ e \in 1..last'[GroupOf(x)]
        <3>1. last[GroupOf(x)] # None => last'[GroupOf(x)] # None /\ 1..last[GroupOf(x)] \subseteq 1..last'[GroupOf(x)]
            <4>1. to # None
                BY <1>2, BusAssumption
            <4>2. 1..last[g] \subseteq 1..to
                BY <1>2
            <4> QED
                BY <1>1, <1>2, <1>4, <4>1, <4>2
        <3> QED
            <4>1. batch'[x] # {} <=> pc'[x] \in InHand
                BY <1>7, <1>8 DEF DeliveriesFit, InHand
            <4>2. ASSUME NEW e \in batch[x] \cup {i \in Nat : <<x, i>> \in tried}
                  PROVE  last'[GroupOf(x)] # None /\ e \in 1..last'[GroupOf(x)]
                BY <3>1, <4>2 DEF DeliveriesFit
            <4>3. ASSUME NEW e \in batch'[x], e \notin batch[x]
                  PROVE  last'[GroupOf(x)] # None /\ e \in 1..last'[GroupOf(x)]
                <5>1. x = s /\ e \in from..to
                    BY <1>7, <4>3
                <5>2. GroupOf(x) = g /\ to # None
                    BY <1>2, <5>1, BusAssumption DEF g
                <5> QED
                    BY <1>2, <1>4, <5>1, <5>2
            <4> QED
                BY <4>1, <4>2, <4>3
    <2>2. ASSUME NEW h \in Groups, NEW e \in DOMAIN pending'[h]
          PROVE  last'[h] # None /\ e \in 1..last'[h] /\ pending'[h][e] = 1
        <3>1. CASE h # g
            BY <1>4, <1>5, <2>2, <3>1 DEF DeliveriesFit
        <3>2. CASE h = g /\ e \in from..to
            <4>1. to # None /\ e \in 1..to
                BY <1>2, <3>2, BusAssumption
            <4> QED
                BY <1>4, <1>5, <2>2, <3>2, <4>1
        <3>3. CASE h = g /\ e \notin from..to
            <4>1. e \in DOMAIN pending[g] /\ pending'[g][e] = pending[g][e]
                BY <1>5, <2>2, <3>3
            <4>2. e \in 1..last[g] /\ pending[g][e] = 1
                BY <1>1, <4>1 DEF DeliveriesFit
            <4>3. to # None /\ e \in 1..to
                BY <1>2, <4>2, BusAssumption
            <4> QED
                BY <1>4, <3>3, <4>1, <4>2, <4>3
        <3> QED
            BY <3>1, <3>2, <3>3
    <2>3. dlq' # {} => MaxDeliveryAttempts <= 1
        BY <1>3 DEF DeliveriesFit
    <2>4. tried' \subseteq Subscribers \X Nat
        BY DEF DeliveriesFit
    <2> QED
        BY <1>1, <2>1, <2>2, <2>3, <2>4 DEF DeliveriesFit
<1>10. BatchesAreApart'
    <2>1. ASSUME NEW x \in Subscribers, NEW o \in Subscribers, Share(x, o), x # o
          PROVE  batch'[x] \cap batch'[o] = {}
        <3>1. CASE x # s /\ o # s
            BY <2>1, <3>1 DEF BatchesAreApart
        <3>2. CASE x = s
            <4>1. GroupOf(o) = g /\ o # s /\ batch'[o] = batch[o]
                BY <1>1, <2>1, <3>2 DEF g
            <4> QED
                BY <1>7, <1>8, <3>2, <4>1
        <3>3. CASE o = s
            <4>1. GroupOf(x) = g /\ x # s /\ batch'[x] = batch[x]
                BY <1>1, <2>1, <3>3 DEF g
            <4> QED
                BY <1>7, <1>8, <3>3, <4>1
        <3> QED
            BY <3>1, <3>2, <3>3
    <2> QED
        BY <1>1, <2>1 DEF BatchesAreApart
<1>11. RestIsNew'
    <2>1. ASSUME NEW x \in Subscribers, NEW o \in Subscribers, Share(x, o),
                 NEW e \in batch'[x], <<o, e>> \in tried
          PROVE  o = x /\ e = Current(x)' /\ pc'[x] \in Handed
        <3>1. CASE x = s
            BY <1>1, <1>7, <1>8, <2>1, <3>1 DEF g
        <3>2. CASE x # s
            <4>1. o = x /\ e = Current(x) /\ pc[x] \in Handed
                BY <2>1, <3>2 DEF RestIsNew
            <4> QED
                BY <3>2, <4>1, CurrentStays
        <3> QED
            BY <3>1, <3>2
    <2> QED
        BY <1>1, <2>1 DEF RestIsNew
<1>12. FirstIsHanded'
    <2>1. ASSUME NEW x \in Subscribers, pc'[x] \in Handed
          PROVE  <<x, Current(x)'>> \in tried
        <3>1. x # s
            BY <1>7, <2>1 DEF Handed
        <3>2. <<x, Current(x)>> \in tried /\ Current(x)' = Current(x)
            BY <2>1, <3>1, CurrentStays DEF FirstIsHanded
        <3> QED
            BY <3>2
    <2> QED
        BY <2>1 DEF FirstIsHanded
<1>13. HandedToOne'
    BY <1>1 DEF HandedToOne
<1>14. DeliveredIsReached'
    <2>1. ASSUME NEW x \in Subscribers, NEW e, Reached(x, e)
          PROVE  Reached(x, e)'
        <3>1. skipped[GroupOf(x)] \subseteq skipped'[GroupOf(x)]
            BY <1>1, <1>4
        <3>2. \A o \in Subscribers : batch[o] \subseteq batch'[o]
            BY <1>8
        <3> QED
            BY <1>1, <1>3, <2>1, <3>1, <3>2 DEF Reached
    <2>2. ASSUME NEW x \in Subscribers, GroupOf(x) = g, NEW e \in from..to
          PROVE  Reached(x, e)'
        <3>1. e \in batch'[s] \/ e \in dropped'[GroupOf(x)]
            BY <1>7, <2>2
        <3>2. Share(s, x)
            BY <2>2 DEF Share, g
        <3> QED
            BY <1>1, <3>1, <3>2 DEF Reached
    <2>3. ASSUME NEW x \in Subscribers, GroupOf(x) = g, NEW e \in (last[g] + 1)..(from - 1)
          PROVE  Reached(x, e)'
        BY <1>1, <1>4, <2>3 DEF Reached
    <2>4. ASSUME NEW x \in Subscribers, last'[GroupOf(x)] # None, NEW e \in 1..last'[GroupOf(x)]
          PROVE  Reached(x, e)'
        <3>1. CASE GroupOf(x) # g
            <4>1. last'[GroupOf(x)] = last[GroupOf(x)]
                BY <1>1, <1>4, <3>1
            <4> QED
                BY <2>1, <2>4, <4>1 DEF DeliveredIsReached
        <3>2. CASE GroupOf(x) = g
            <4>1. e \in 1..last[g] \/ e \in (last[g] + 1)..(from - 1) \/ e \in from..to
                BY <1>2, <1>4, <2>4, <3>2
            <4>2. CASE e \in 1..last[g]
                BY <1>2, <2>1, <3>2, <4>2 DEF DeliveredIsReached
            <4> QED
                BY <2>2, <2>3, <3>2, <4>1, <4>2
        <3> QED
            BY <3>1, <3>2
    <2> QED
        BY <1>1, <2>4 DEF DeliveredIsReached
<1> QED
    BY <1>9, <1>10, <1>11, <1>12, <1>13, <1>14

\* A new subscription to everything begins with a group that has nothing.
LEMMA SubscriptionFits ==
    ASSUME IInv, HandsFit, NEW s \in Subscribers, Subscribe(s)
    PROVE  HandsFit'
<1> USE DEF HandsFit
<1>1. /\ \A x \in Subscribers : GroupOf(x)' = GroupOf(x) /\ GroupOf(x) \in Groups
      /\ \A x, o \in Subscribers : Share(x, o)' <=> Share(x, o)
    BY GroupsAreApart DEF GroupOf, Share, IInv, Subscribe
<1>2. /\ pc[s] = "off" /\ batch' = batch /\ batch[s] = {} /\ poison' = poison /\ dlq' = dlq
      /\ pc'[s] = "ensure" /\ \A o \in Subscribers \ {s} : pc'[o] = pc[o]
      /\ \A x \in Subscribers : Current(x)' = Current(x)
    BY CurrentStays DEF Subscribe, Goto, DeliveriesFit, InHand, IInv, StreamTypes
<1>3. CASE kind[s] = "all"
    <2>1. \A x \in Subscribers : (x = s <=> GroupOf(x) = s) /\ (Share(x, s) <=> x = s)
        BY <1>3, GroupsAreApart DEF IInv, Share, GroupOf
    <2>2. /\ \A x \in Subscribers : \A e : <<x, e>> \in tried' <=> <<x, e>> \in tried /\ x # s
          /\ tried' \subseteq tried
          /\ last' = [last EXCEPT ![s] = None] /\ pending' = [pending EXCEPT ![s] = NoEntries]
          /\ skipped' = [skipped EXCEPT ![s] = {}] /\ dropped' = [dropped EXCEPT ![s] = {}]
        BY <1>3 DEF Subscribe
    <2>3. DOMAIN NoEntries = {}
        BY DEF NoEntries
    <2>4. \A g \in Groups \ {s} : last'[g] = last[g] /\ pending'[g] = pending[g]
                                  /\ skipped'[g] = skipped[g] /\ dropped'[g] = dropped[g]
        BY <2>2 DEF IInv, StreamTypes, DeliveriesFit
    <2>5. s \in Groups /\ last'[s] = None /\ pending'[s] = NoEntries
        BY <2>2 DEF IInv, StreamTypes, Groups
    <2>6. DeliveriesFit'
        <3>1. ASSUME NEW x \in Subscribers
              PROVE  /\ batch'[x] # {} <=> pc'[x] \in InHand
                     /\ \A e \in batch'[x] : last'[GroupOf(x)] # None /\ e \in 1..last'[GroupOf(x)]
                     /\ \A e \in Nat : <<x, e>> \in tried' => last'[GroupOf(x)] # None /\ e \in 1..last'[GroupOf(x)]
            BY <1>1, <1>2, <2>1, <2>2, <2>4 DEF DeliveriesFit, InHand
        <3>2. ASSUME NEW g \in Groups, NEW e \in DOMAIN pending'[g]
              PROVE  last'[g] # None /\ e \in 1..last'[g] /\ pending'[g][e] = 1
            BY <2>3, <2>4, <2>5 DEF DeliveriesFit
        <3> QED
            BY <1>1, <1>2, <2>2, <3>1, <3>2 DEF DeliveriesFit
    <2>7. BatchesAreApart' /\ RestIsNew'
        BY <1>1, <1>2, <2>2 DEF BatchesAreApart, RestIsNew
    <2>8. FirstIsHanded' /\ HandedToOne'
        BY <1>1, <1>2, <2>2 DEF FirstIsHanded, HandedToOne, Handed
    <2>9. DeliveredIsReached'
        <3>1. ASSUME NEW x \in Subscribers, x # s, NEW e, Reached(x, e)
              PROVE  Reached(x, e)'
            <4>1. GroupOf(x) # s /\ ~ Share(s, x)
                BY <2>1, <3>1 DEF Share
            <4>2. \A o \in Subscribers : Share(o, x) => (<<o, e>> \in tried => <<o, e>> \in tried')
                BY <2>2, <4>1
            <4> QED
                BY <1>1, <1>2, <2>4, <3>1, <4>1, <4>2 DEF Reached
        <3> QED
            BY <1>1, <2>1, <2>4, <2>5, <3>1 DEF DeliveredIsReached
    <2> QED
        BY <2>6, <2>7, <2>8, <2>9
<1>4. CASE kind[s] # "all"
    <2>1. UNCHANGED <<last, pending, tried, handled, skipped, dropped>>
        BY <1>4 DEF Subscribe, history
    <2>2. DeliveriesFit'
        BY <1>1, <1>2, <2>1 DEF DeliveriesFit, InHand
    <2>3. BatchesAreApart' /\ RestIsNew' /\ FirstIsHanded' /\ HandedToOne'
        BY <1>1, <1>2, <2>1 DEF BatchesAreApart, RestIsNew, FirstIsHanded, HandedToOne, Handed
    <2>4. DeliveredIsReached'
        BY <1>1, <1>2, <2>1 DEF DeliveredIsReached, Reached
    <2> QED
        BY <2>2, <2>3, <2>4
<1> QED
    BY <1>3, <1>4

LEMMA HandsStep ==
    ASSUME IInv, IInv', HandsFit, [Next]_vars
    PROVE  HandsFit'
<1>1. CASE Publish
    <2>1. /\ UNCHANGED <<kind, last, pending, dlq, pc, batch, tried, skipped, dropped>>
          /\ poison \subseteq poison' /\ \A x \in Subscribers : Current(x)' = Current(x)
        BY <1>1, CurrentStays DEF Publish, history
    <2> QED
        BY <2>1 DEF HandsFit, DeliveriesFit, BatchesAreApart, RestIsNew, FirstIsHanded, HandedToOne,
                    DeliveredIsReached, Reached, Share, GroupOf
<1>2. ASSUME NEW s \in Subscribers, EnsureGroup(s)
      PROVE  HandsFit'
    <2>1. /\ UNCHANGED <<kind, poison, pending, dlq, batch, tried, skipped, dropped>>
          /\ \A x \in Subscribers : Current(x)' = Current(x)
          /\ pc' = [pc EXCEPT ![s] = "read"] /\ pc[s] = "ensure"
        BY <1>2, CurrentStays DEF EnsureGroup, history, Goto
    <2>2. /\ \A x \in Subscribers : GroupOf(x)' = GroupOf(x) /\ GroupOf(x) \in Groups
          /\ \A x, o \in Subscribers : Share(x, o)' <=> Share(x, o)
        BY <2>1, GroupsAreApart DEF GroupOf, Share, IInv
    <2>3. \A g \in Groups : last'[g] = last[g] \/ (last[g] = None /\ last'[g] = 0)
        BY <1>2 DEF EnsureGroup, IInv, StreamTypes
    <2>4. /\ \A x \in Subscribers : (pc'[x] \in InHand <=> pc[x] \in InHand) /\ (pc'[x] \in Handed <=> pc[x] \in Handed)
        BY <2>1 DEF InHand, Handed, IInv, StreamTypes
    <2>5. DeliveriesFit'
        <3>1. ASSUME NEW x \in Subscribers
              PROVE  /\ batch'[x] # {} <=> pc'[x] \in InHand
                     /\ \A e \in batch'[x] : last'[GroupOf(x)] # None /\ e \in 1..last'[GroupOf(x)]
                     /\ \A e \in Nat : <<x, e>> \in tried' => last'[GroupOf(x)] # None /\ e \in 1..last'[GroupOf(x)]
            BY <2>1, <2>2, <2>3, <2>4 DEF DeliveriesFit, HandsFit
        <3>2. ASSUME NEW g \in Groups, NEW e \in DOMAIN pending'[g]
              PROVE  last'[g] # None /\ e \in 1..last'[g] /\ pending'[g][e] = 1
            BY <2>1, <2>3 DEF DeliveriesFit, HandsFit
        <3> QED
            BY <2>1, <2>2, <3>1, <3>2 DEF DeliveriesFit, HandsFit
    <2>6. BatchesAreApart' /\ RestIsNew' /\ FirstIsHanded' /\ HandedToOne'
        BY <2>1, <2>2, <2>4 DEF BatchesAreApart, RestIsNew, FirstIsHanded, HandedToOne, HandsFit
    <2>7. DeliveredIsReached'
        BY <2>1, <2>2, <2>3 DEF DeliveredIsReached, Reached, HandsFit
    <2> QED
        BY <2>5, <2>6, <2>7 DEF HandsFit
<1>3. ASSUME NEW s \in Subscribers,
             EnsureFails(s) \/ Wake(s) \/ HandlerReturns(s) \/ HandlerFails(s)
      PROVE  HandsFit'
    <2>1. /\ UNCHANGED <<server, batch, tried, skipped, dropped>>
          /\ Current(s)' = Current(s) /\ \A o \in Subscribers \ {s} : pc'[o] = pc[o]
        BY <1>3, CurrentStays
           DEF EnsureFails, Wake, HandlerReturns, HandlerFails, history, Goto, IInv, StreamTypes
    <2>2. /\ pc'[s] \in InHand <=> pc[s] \in InHand
          /\ pc'[s] \in Handed <=> pc[s] \in Handed
        BY <1>3 DEF EnsureFails, Wake, HandlerReturns, HandlerFails, Goto, InHand, Handed, IInv, StreamTypes
    <2>3. \A e \in batch[s] : <<s, e>> \in tried => e = Current(s) /\ pc[s] \in Handed
        BY DEF HandsFit, RestIsNew, Share
    <2>4. pc[s] \in Handed => <<s, Current(s)>> \in tried
        BY DEF HandsFit, FirstIsHanded
    <2>5. DOMAIN dropped = Groups /\ (batch[s] # {} <=> pc[s] \in InHand) /\ (dlq # {} => MaxDeliveryAttempts <= 1)
        BY DEF HandsFit, DeliveriesFit
    <2> QED
        BY <2>1, <2>2, <2>3, <2>4, <2>5, LoopMoves DEF server
<1>4. ASSUME NEW s \in Subscribers, Read(s)
      PROVE  HandsFit'
    <2>1. GroupOf(s)' = GroupOf(s) /\ GroupOf(s) \in Groups
        BY <1>4, GroupsAreApart DEF Read, Deliver, GroupOf, IInv
    <2> QED
        BY <1>4, <2>1, DeliveryFits DEF Read, Goto, IInv, StreamTypes, HandsFit, DeliveriesFit
<1>5. ASSUME NEW s \in Subscribers, ReadFails(s)
      PROVE  HandsFit'
    <2>1. GroupOf(s) \in Groups /\ DOMAIN dropped = Groups
        BY GroupsAreApart DEF IInv, HandsFit, DeliveriesFit
    <2>2. /\ pc[s] = "read" /\ pc'[s] = "sleep" /\ batch' = batch /\ tried' = tried /\ batch[s] = {}
          /\ \A o \in Subscribers \ {s} : pc'[o] = pc[o] /\ batch'[o] = batch[o]
        BY <1>5 DEF ReadFails, Goto, IInv, StreamTypes, HandsFit, DeliveriesFit, InHand
    <2>3. CASE UNCHANGED <<server, skipped, dropped>>
        <3>1. dlq # {} => MaxDeliveryAttempts <= 1
            BY DEF HandsFit, DeliveriesFit
        <3> QED
            BY <2>1, <2>2, <2>3, <3>1, LoopMoves DEF server, InHand, Handed
    <2>4. CASE Deliver(s) /\ dropped' = [dropped EXCEPT ![GroupOf(s)] = @ \cup (DOMAIN pending'[GroupOf(s)] \ DOMAIN pending[GroupOf(s)])]
        <3>1. /\ DOMAIN dropped' = Groups /\ \A g \in Groups : dropped[g] \subseteq dropped'[g]
              /\ DOMAIN pending'[GroupOf(s)] \ DOMAIN pending[GroupOf(s)] \subseteq dropped'[GroupOf(s)]
            BY <2>1, <2>4
        <3> QED
            BY <2>2, <2>4, <3>1, DeliveryFits
    <2> QED
        BY <1>5, <2>3, <2>4 DEF ReadFails
<1>6. ASSUME NEW s \in Subscribers, Dispatch(s)
      PROVE  HandsFit'
    <2>1. /\ UNCHANGED <<server, batch, skipped, dropped>> /\ pc[s] = "dispatch" /\ batch[s] # {}
          /\ \/ pc'[s] = "discard" /\ tried' = tried
             \/ pc'[s] = "handle" /\ tried' = tried \cup {<<s, Current(s)>>}
          /\ Current(s)' = Current(s) /\ \A o \in Subscribers \ {s} : pc'[o] = pc[o]
        BY <1>6, CurrentStays DEF Dispatch, Goto, IInv, StreamTypes, HandsFit, DeliveriesFit, InHand
    <2>2. \A e \in batch[s] : <<s, e>> \notin tried
        BY <2>1 DEF HandsFit, RestIsNew, Share, Handed
    <2>3. DOMAIN dropped = Groups /\ (dlq # {} => MaxDeliveryAttempts <= 1)
        BY DEF HandsFit, DeliveriesFit
    <2>4. \A e \in batch'[s] : <<s, e>> \in tried' => e = Current(s)' /\ pc'[s] \in Handed
        BY <2>1, <2>2 DEF Handed
    <2>5. pc'[s] \in Handed => <<s, Current(s)'>> \in tried'
        BY <2>1 DEF Handed
    <2>6. batch'[s] # {} <=> pc'[s] \in InHand
        BY <2>1 DEF InHand
    <2> QED
        BY <2>1, <2>3, <2>4, <2>5, <2>6, LoopMoves DEF server
<1>7. ASSUME NEW s \in Subscribers, Ack(s) \/ MaybeDlq(s)
      PROVE  HandsFit'
    <2>1. /\ UNCHANGED <<kind, last, poison, tried, skipped, dropped>>
          /\ Acknowledge(s) \/ pending' = pending
          /\ pc[s] \in InHand /\ batch[s] # {} /\ Advance(s)
        BY <1>7 DEF Ack, MaybeDlq, history, HandsFit, DeliveriesFit, InHand
    <2>2. <<s, Current(s)>> \in tried \/ Current(s) \in poison
        BY <1>7 DEF Ack, MaybeDlq, HandsFit, FirstIsHanded, Handed, IInv, AcksAreFounded
    <2>3. /\ batch'[s] = batch[s] \ {Current(s)} /\ pc'[s] \in {"read", "dispatch"}
          /\ pc'[s] = "read" <=> batch[s] = {Current(s)}
          /\ \A o \in Subscribers \ {s} : pc'[o] = pc[o] /\ batch'[o] = batch[o]
        BY <2>1 DEF Advance, Goto, IInv, StreamTypes
    <2>4. batch'[s] # {} <=> pc'[s] \in InHand
        BY <2>1, <2>3 DEF InHand
    <2>5. \A e \in batch[s] : <<s, e>> \in tried => e = Current(s)
        BY DEF HandsFit, RestIsNew, Share
    <2>6. DOMAIN dropped = Groups
        BY DEF HandsFit, DeliveriesFit
    <2>7. \A g \in Groups : \A e \in DOMAIN pending'[g] : e \in DOMAIN pending[g] /\ pending'[g][e] = pending[g][e]
        BY <2>1 DEF Acknowledge, IInv, StreamTypes
    <2>8. dlq' # {} => MaxDeliveryAttempts <= 1
        <3>1. dlq # {} => MaxDeliveryAttempts <= 1
            BY DEF HandsFit, DeliveriesFit
        <3>2. GroupOf(s) \in Groups
            BY GroupsAreApart DEF IInv
        <3>3. \A e \in DOMAIN pending[GroupOf(s)] : pending[GroupOf(s)][e] = 1
            BY <3>2 DEF HandsFit, DeliveriesFit
        <3>4. CASE Ack(s)
            BY <3>1, <3>4 DEF Ack
        <3>5. CASE MaybeDlq(s)
            BY <3>1, <3>3, <3>5, BusAssumption DEF MaybeDlq
        <3> QED
            BY <1>7, <3>4, <3>5
    <2>9. ~ (pc'[s] \in Handed)
        BY <2>3 DEF Handed
    <2>10. \A e \in batch'[s] : <<s, e>> \in tried' => e = Current(s)' /\ pc'[s] \in Handed
        BY <2>1, <2>3, <2>5
    <2>11. \A e \in batch[s] : e \in batch'[s] \/ <<s, e>> \in tried \/ e \in poison
        BY <2>2, <2>3
    <2> QED
        BY <2>1, <2>3, <2>4, <2>6, <2>7, <2>8, <2>9, <2>10, <2>11, LoopMoves
<1>8. ASSUME NEW s \in Subscribers, AckFails(s)
      PROVE  HandsFit'
    <2>1. /\ UNCHANGED <<kind, last, poison, tried, skipped, dlq>>
          /\ Acknowledge(s) \/ pending' = pending
          /\ pc[s] \in InHand /\ batch[s] # {}
        BY <1>8 DEF AckFails, HandsFit, DeliveriesFit, InHand
    <2>2. /\ DOMAIN dropped = Groups /\ (dlq # {} => MaxDeliveryAttempts <= 1)
          /\ GroupOf(s) \in Groups
        BY GroupsAreApart DEF HandsFit, DeliveriesFit, IInv
    <2>3. \A g \in Groups : \A e \in DOMAIN pending'[g] : e \in DOMAIN pending[g] /\ pending'[g][e] = pending[g][e]
        BY <2>1 DEF Acknowledge, IInv, StreamTypes
    <2>4. \A e \in batch[s] : <<s, e>> \in tried => e = Current(s)
        BY DEF HandsFit, RestIsNew, Share
    <2>5. CASE pc[s] = "ack"
        <3>1. /\ batch' = batch /\ dropped' = dropped /\ pc' = [pc EXCEPT ![s] = "check"]
              /\ Current(s)' = Current(s) /\ <<s, Current(s)>> \in tried
            BY <1>8, <2>5, CurrentStays DEF AckFails, Goto, HandsFit, FirstIsHanded, Handed
        <3>2. pc'[s] = "check" /\ \A o \in Subscribers \ {s} : pc'[o] = pc[o] /\ batch'[o] = batch[o]
            BY <3>1 DEF IInv, StreamTypes
        <3> QED
            BY <2>1, <2>2, <2>3, <2>4, <3>1, <3>2, LoopMoves DEF InHand, Handed
    <2>6. CASE pc[s] = "discard"
        <3>1. /\ batch' = [batch EXCEPT ![s] = {}] /\ pc' = [pc EXCEPT ![s] = "sleep"]
              /\ dropped' = [dropped EXCEPT ![GroupOf(s)] = @ \cup batch[s]]
            BY <1>8, <2>6 DEF AckFails, Goto, GiveUpBatch
        <3>2. /\ pc'[s] = "sleep" /\ batch'[s] = {}
              /\ \A o \in Subscribers \ {s} : pc'[o] = pc[o] /\ batch'[o] = batch[o]
              /\ DOMAIN dropped' = Groups /\ batch[s] \subseteq dropped'[GroupOf(s)]
              /\ \A g \in Groups : dropped[g] \subseteq dropped'[g]
            BY <2>2, <3>1 DEF IInv, StreamTypes
        <3> QED
            BY <2>1, <2>2, <2>3, <3>2, LoopMoves DEF InHand, Handed
    <2> QED
        BY <1>8, <2>5, <2>6 DEF AckFails
<1>9. ASSUME NEW s \in Subscribers, Stop(s)
      PROVE  HandsFit'
    <2>1. /\ UNCHANGED <<server, tried, skipped>>
          /\ DOMAIN dropped = Groups /\ (dlq # {} => MaxDeliveryAttempts <= 1)
          /\ GroupOf(s) \in Groups
        BY <1>9, GroupsAreApart DEF Stop, HandsFit, DeliveriesFit, IInv
    <2>2. /\ pc'[s] = "off" /\ batch'[s] = {}
          /\ \A o \in Subscribers \ {s} : pc'[o] = pc[o] /\ batch'[o] = batch[o]
          /\ DOMAIN dropped' = Groups /\ batch[s] \subseteq dropped'[GroupOf(s)]
          /\ \A g \in Groups : dropped[g] \subseteq dropped'[g]
        BY <1>9, <2>1 DEF Stop, Goto, GiveUpBatch, IInv, StreamTypes
    <2> QED
        BY <2>1, <2>2, LoopMoves DEF server, InHand, Handed
<1>10. CASE UNCHANGED vars
    <2>1. /\ UNCHANGED <<kind, published, poison, last, pending, dlq, pc, batch, tried, skipped, dropped>>
          /\ \A x \in Subscribers : Current(x)' = Current(x)
        BY <1>10, CurrentStays DEF vars, server, history
    <2> QED
        BY <2>1 DEF HandsFit, DeliveriesFit, BatchesAreApart, RestIsNew, FirstIsHanded, HandedToOne,
                    DeliveredIsReached, Reached, Share, GroupOf
<1> QED
    BY <1>1, <1>2, <1>3, <1>4, <1>5, <1>6, <1>7, <1>8, <1>9, <1>10, SubscriptionFits DEF Next, Step

LEMMA HandsFitHolds == Spec => [](IInv /\ HandsFit)
<1>1. Init => HandsFit
    <2> SUFFICES ASSUME Init
                 PROVE  HandsFit
        OBVIOUS
    <2>1. \A s \in Subscribers : GroupOf(s) \in Groups
        BY BusAssumption DEF Init, GroupOf, Groups
    <2>2. DOMAIN NoEntries = {}
        BY DEF NoEntries
    <2> QED
        BY <2>1, <2>2
           DEF Init, HandsFit, DeliveriesFit, BatchesAreApart, RestIsNew, FirstIsHanded, HandedToOne,
               DeliveredIsReached, InHand, Handed
<1>2. IInv /\ IInv' /\ HandsFit /\ [Next]_vars => HandsFit'
    BY HandsStep
<1> QED
    BY <1>1, <1>2, InvariantHolds, PTL DEF Spec

-----------------------------------------------------------------------------

\* A handler is given an entry once: it has not had it before, and no other
\* subscriber of its group has or ever had it.  Nothing is delivered again
\* (redis_event_bus.py:123-140 and 164-170).
THEOREM EntriesAreHandedOnce ==
    Spec => [][\A s, o \in Subscribers :
                 Share(s, o) /\ pc[s] = "dispatch" /\ pc'[s] = "handle" =>
                     <<o, Current(s)>> \notin tried]_vars
<1>1. ASSUME IInv, HandsFit, NEW s \in Subscribers, NEW o \in Subscribers,
             Share(s, o), pc[s] = "dispatch"
      PROVE  <<o, Current(s)>> \notin tried
    <2>1. Current(s) \in batch[s]
        BY <1>1, CurrentIsInHand DEF HandsFit, InHand
    <2> QED
        BY <1>1, <2>1 DEF HandsFit, RestIsNew, Handed
<1>2. IInv /\ HandsFit /\ [Next]_vars =>
          [\A s, o \in Subscribers :
             Share(s, o) /\ pc[s] = "dispatch" /\ pc'[s] = "handle" =>
                 <<o, Current(s)>> \notin tried]_vars
    BY <1>1
<1> QED
    BY <1>2, HandsFitHolds, PTL DEF Spec

\* With more than one attempt allowed no entry reaches the dead-letter stream:
\* a failed handler leaves it pending, with one delivery, for good
\* (redis_event_bus.py:131 and 181-204).
THEOREM DeadLettersTakeOneAttempt == Spec => [](dlq # {} => MaxDeliveryAttempts <= 1)
<1>1. HandsFit => (dlq # {} => MaxDeliveryAttempts <= 1)
    BY DEF HandsFit, DeliveriesFit
<1> QED
    BY <1>1, HandsFitHolds, PTL

\* A loop that is up, with nothing left to read and nothing in hand, has seen
\* its whole stream handed to handlers of its group, unless it was trimmed
\* first, could not be read or went with a batch: what LoopsCatchUp says that
\* reading on leads to (redis_event_bus.py:116-146).
THEOREM IdleLoopsAreDone == Spec => []IdleLoopsHaveCaughtUp
<1>1. ASSUME IInv, HandsFit
      PROVE  IdleLoopsHaveCaughtUp
    <2>1. ASSUME NEW s \in Subscribers, Up(s), last[GroupOf(s)] >= published,
                 \A o \in Subscribers : Share(o, s) => pc[o] \notin InHand,
                 NEW e \in 1..published
          PROVE  \/ \E o \in Subscribers : GroupOf(o) = GroupOf(s) /\ <<o, e>> \in tried
                 \/ e \in poison \/ e \in skipped[GroupOf(s)] \/ e \in dropped[GroupOf(s)]
        <3>1. last[GroupOf(s)] # None /\ last[GroupOf(s)] \in Nat /\ published \in Nat
            BY <1>1, <2>1, GroupsAreApart DEF IInv, StreamTypes, Up
        <3>2. Reached(s, e)
            BY <1>1, <2>1, <3>1 DEF HandsFit, DeliveredIsReached
        <3>3. \A o \in Subscribers : Share(o, s) => batch[o] = {}
            BY <1>1, <2>1 DEF HandsFit, DeliveriesFit
        <3> QED
            BY <3>2, <3>3 DEF Reached, Share
    <2> QED
        BY <2>1 DEF IdleLoopsHaveCaughtUp, CaughtUp
<1> QED
    BY <1>1, HandsFitHolds, PTL

-----------------------------------------------------------------------------
(***************************************************************************)
(* EvaluatedRuns.                                                          *)
(***************************************************************************)

RunsTypeOK ==
    /\ bus \in {"memory", "async"} /\ permits \in Nat \ {0} /\ mode \in {"gate", "observe"}
    /\ work \in [Items -> [Handlers -> {"no", "waiting", "running", "done"}]]
    /\ queue \in Seq(Dags)
    /\ future \in [Dags -> {"none", "pending", "resolved"}]
    /\ step \in [Dags -> {"new", "next", "starting", "completing", "done", "lost"}]
    /\ node \in [Dags -> Nat]
    /\ \A d \in Dags : node[d] \in 1..Length[d]
    /\ eval \in [Items -> {"no", "queued", "scoring", "publishing", "done"}]
    /\ known \in [Items -> SUBSET {"goal", "output"}]
    /\ lookups \in [Items -> 0..Lookups]
    /\ harvest \in [Items -> Outcomes \union {NotYet}]

\* A DAG is queued once, before it is run.
QueueIsNew ==
    /\ \A j \in DOMAIN queue : step[queue[j]] = "new" /\ future[queue[j]] # "none"
    /\ \A j, k \in DOMAIN queue : queue[j] = queue[k] => j = k

\* Nothing is published about a node before it starts, and only that until it
\* completes.
InOrder(i) ==
    LET d == i[1] IN
    step[d] # "lost" =>
        /\ i[2] > node[d] \/ (i[2] = node[d] /\ step[d] \in {"new", "next"}) =>
            eval[i] = "no" /\ \A h \in Handlers : work[i][h] = "no"
        /\ i[2] = node[d] /\ step[d] = "starting" =>
            eval[i] = "no" /\ \A h \in Handlers \ {"goal"} : work[i][h] = "no"

\* A node is evaluated after its goal was observed and its output published,
\* and harvested after it was evaluated, unless its run was cancelled.
Founded(i) ==
    step[i[1]] # "lost" =>
        /\ work[i]["eval"] # "no" =>
            work[i]["goal"] = "done" /\ work[i]["output"] \in {"waiting", "done"}
        /\ eval[i] # "no" =>
            /\ work[i]["eval"] # "no"
            /\ mode = "observe" => work[i]["eval"] = "done"
        /\ work[i]["harvest"] # "no" => eval[i] # "no"

\* What was observed is known, and a harvest that goes on has a lookup left.
Recorded(i) ==
    /\ \A h \in {"goal", "output"} : work[i][h] = "done" => h \in known[i]
    /\ work[i]["harvest"] = "running" => lookups[i] > 0

\* The semaphore counts.
PermitsHold ==
    /\ IsFiniteSet(Running)
    /\ bus = "async" => Cardinality(Running) <= permits

RunsIInv ==
    /\ RunsTypeOK /\ QueueIsNew /\ PermitsHold
    /\ \A i \in Items : InOrder(i) /\ Founded(i) /\ Recorded(i)

-----------------------------------------------------------------------------
\* The five handlers and what they subscribe to.
LEMMA HandlersAndTypes ==
    /\ Handlers = {"goal", "eval", "output", "police", "harvest"}
    /\ TypeOf = [h \in Handlers |-> IF h = "goal" THEN "started"
                                    ELSE IF h \in {"eval", "output"} THEN "completed"
                                    ELSE "evaluated"]
<1>1. /\ Types = {"started", "completed", "evaluated"}
      /\ HandlersOf["started"] = <<"goal">>
      /\ HandlersOf["completed"] = <<"eval", "output">>
      /\ HandlersOf["evaluated"] = <<"police", "harvest">>
  BY RunsAssumption DEF Types
<1>2. \A x, y : /\ DOMAIN <<x>> = {1} /\ <<x>>[1] = x
                /\ DOMAIN <<x, y>> = {1, 2} /\ <<x, y>>[1] = x /\ <<x, y>>[2] = y
  OBVIOUS
<1> DEFINE Of(t) == {HandlersOf[t][k] : k \in DOMAIN HandlersOf[t]}
<1>3. /\ Of("started") = {"goal"}
      /\ Of("completed") = {"eval", "output"}
      /\ Of("evaluated") = {"police", "harvest"}
  BY <1>1, <1>2
<1>4. \A h, t : (\E k \in DOMAIN HandlersOf[t] : HandlersOf[t][k] = h) <=> h \in Of(t)
  OBVIOUS
<1>5. Handlers = UNION {Of(t) : t \in Types}
  BY DEF Handlers
<1>6. TypeOf = [h \in Handlers |-> CHOOSE t \in Types :
                                       \E k \in DOMAIN HandlersOf[t] : HandlersOf[t][k] = h]
  BY DEF TypeOf
<1> HIDE DEF Of
<1>7. Handlers = {"goal", "eval", "output", "police", "harvest"}
  BY <1>1, <1>3, <1>5
<1>8. ASSUME NEW h \in Handlers
      PROVE  TypeOf[h] = IF h = "goal" THEN "started"
                         ELSE IF h \in {"eval", "output"} THEN "completed"
                         ELSE "evaluated"
  <2>1. TypeOf[h] = CHOOSE t \in Types : \E k \in DOMAIN HandlersOf[t] : HandlersOf[t][k] = h
    BY <1>6
  <2>2. \A t \in Types :
          (\E k \in DOMAIN HandlersOf[t] : HandlersOf[t][k] = h)
          <=> t = IF h = "goal" THEN "started"
                  ELSE IF h \in {"eval", "output"} THEN "completed"
                  ELSE "evaluated"
    BY <1>1, <1>3, <1>4, <1>7
  <2>3. QED
    BY <1>1, <1>7, <2>1, <2>2
<1>9. QED
  BY <1>6, <1>7, <1>8

LEMMA ItemsArePairs ==
    /\ \A i \in Items : i[1] \in Dags /\ i[2] \in 1..Length[i[1]] /\ i = <<i[1], i[2]>>
    /\ \A d \in Dags : \A k \in 1..Length[d] : <<d, k>> \in Items
BY RunsAssumption

WorkStates == {"no", "waiting", "running", "done"}

LEMMA BecomeWork ==
    ASSUME RunsTypeOK, NEW i \in Items, NEW h \in Handlers, NEW to \in WorkStates,
           Become(i, h, to)
    PROVE  /\ work' \in [Items -> [Handlers -> WorkStates]]
           /\ work'[i][h] = to
           /\ \A g \in Handlers \ {h} : work'[i][g] = work[i][g]
           /\ \A k \in Items \ {i} : work'[k] = work[k]
BY DEF RunsTypeOK, WorkStates, Become

LEMMA PublishedWork ==
    ASSUME RunsTypeOK, NEW i \in Items, NEW t, work' = Published(i, t)
    PROVE  /\ work' \in [Items -> [Handlers -> WorkStates]]
           /\ \A h \in Handlers : work'[i][h] = IF TypeOf[h] = t THEN "waiting" ELSE work[i][h]
           /\ \A k \in Items \ {i} : work'[k] = work[k]
BY DEF RunsTypeOK, WorkStates, Published

\* Who stops or waits takes no permit.
LEMMA PermitsAreKept ==
    ASSUME PermitsHold, bus' = bus, permits' = permits, permits \in Nat,
           \A i \in Items, h \in Handlers : work'[i][h] = "running" => work[i][h] = "running"
    PROVE  PermitsHold'
<1>1. Running' \subseteq Running
  BY DEF Running
<1>2. IsFiniteSet(Running') /\ Cardinality(Running') <= Cardinality(Running)
  BY <1>1, FS_Subset DEF PermitsHold
<1>3. Cardinality(Running) \in Nat /\ Cardinality(Running') \in Nat
  BY <1>2, FS_CardinalityType DEF PermitsHold
<1>4. QED
  BY <1>2, <1>3 DEF PermitsHold

\* Who starts had one.
LEMMA PermitsAreTaken ==
    ASSUME RunsTypeOK, PermitsHold, bus' = bus, permits' = permits,
           NEW i \in Items, NEW h \in Handlers, MayStart(i, h), Become(i, h, "running")
    PROVE  PermitsHold'
<1>1. Running' \subseteq Running \union {<<i, h>>}
  BY BecomeWork DEF Running, WorkStates
<1>2. /\ IsFiniteSet(Running \union {<<i, h>>})
      /\ Cardinality(Running \union {<<i, h>>}) <= Cardinality(Running) + 1
      /\ Cardinality(Running) \in Nat
  <2> DEFINE R == Running
  <2>1. IsFiniteSet(R) /\ Cardinality(R) \in Nat
    BY FS_CardinalityType DEF PermitsHold
  <2> HIDE DEF R
  <2>2. /\ IsFiniteSet(R \union {<<i, h>>})
        /\ Cardinality(R \union {<<i, h>>}) =
             IF <<i, h>> \in R THEN Cardinality(R) ELSE Cardinality(R) + 1
    BY <2>1, FS_AddElement
  <2>3. QED
    BY <2>1, <2>2 DEF R
<1>3. /\ IsFiniteSet(Running')
      /\ Cardinality(Running') <= Cardinality(Running \union {<<i, h>>})
      /\ Cardinality(Running') \in Nat /\ Cardinality(Running \union {<<i, h>>}) \in Nat
  BY <1>1, <1>2, FS_Subset, FS_CardinalityType
<1>4. bus = "async" => Cardinality(Running) < permits
  BY DEF MayStart
<1>5. permits \in Nat
  BY DEF RunsTypeOK
<1>6. QED
  BY <1>2, <1>3, <1>4, <1>5 DEF PermitsHold

-----------------------------------------------------------------------------
\* A step about one item, whose run does not move.
LEMMA ItemStepInv ==
    ASSUME RunsIInv, NEW i \in Items, UNCHANGED <<bus, permits, runs, mode>>,
           work' \in [Items -> [Handlers -> WorkStates]],
           eval' \in [Items -> {"no", "queued", "scoring", "publishing", "done"}],
           known' \in [Items -> SUBSET {"goal", "output"}],
           lookups' \in [Items -> 0..Lookups],
           harvest' \in [Items -> Outcomes \union {NotYet}],
           \A k \in Items \ {i} : /\ work'[k] = work[k] /\ eval'[k] = eval[k]
                                 /\ known'[k] = known[k] /\ lookups'[k] = lookups[k],
           PermitsHold', InOrder(i)', Founded(i)', Recorded(i)'
    PROVE  RunsIInv'
<1>1. RunsTypeOK' /\ QueueIsNew'
  BY DEF RunsIInv, RunsTypeOK, QueueIsNew, runs, WorkStates
<1>2. ASSUME NEW k \in Items \ {i}
      PROVE  InOrder(k)' /\ Founded(k)' /\ Recorded(k)'
  BY DEF RunsIInv, InOrder, Founded, Recorded, runs
<1>3. QED
  BY <1>1, <1>2 DEF RunsIInv

\* Once anything but its goal is at work, the order of an item is past.
LEMMA UnderWay ==
    ASSUME NEW i \in Items, InOrder(i), UNCHANGED <<step, node>>,
           eval[i] # "no" \/ \E h \in Handlers \ {"goal"} : work[i][h] # "no"
    PROVE  InOrder(i)'
BY DEF InOrder

LEMMA ItemTypes ==
    ASSUME RunsIInv, NEW i \in Items
    PROVE  /\ RunsTypeOK /\ PermitsHold /\ InOrder(i) /\ Founded(i) /\ Recorded(i)
           /\ permits \in Nat /\ Lookups \in Nat \ {0}
           /\ i[1] \in Dags /\ i[2] \in Nat
           /\ {"goal", "eval", "output", "police", "harvest"} = Handlers
           /\ {"no", "waiting", "running", "done"} = WorkStates
           /\ eval[i] \in {"no", "queued", "scoring", "publishing", "done"}
           /\ work[i] \in [Handlers -> WorkStates]
BY HandlersAndTypes, ItemsArePairs, RunsAssumption DEF RunsIInv, RunsTypeOK, WorkStates

LEMMA HandleCompletedInv ==
    ASSUME RunsIInv, NEW i \in Items, HandleCompleted(i)
    PROVE  RunsIInv'
<1> DEFINE to == IF mode = "gate" THEN "running" ELSE "done"
<1>1. /\ work[i]["eval"] = "waiting" /\ MayStart(i, "eval")
      /\ Become(i, "eval", to)
      /\ eval' = [eval EXCEPT ![i] = IF mode = "gate" THEN "scoring" ELSE "queued"]
      /\ UNCHANGED <<bus, permits, runs, mode, score, harvests>>
  BY DEF HandleCompleted, MayStart
<1>2. RunsTypeOK /\ "eval" \in Handlers /\ to \in WorkStates
  BY ItemTypes
<1>3. /\ work' \in [Items -> [Handlers -> WorkStates]]
      /\ work'[i]["eval"] = to
      /\ \A g \in Handlers \ {"eval"} : work'[i][g] = work[i][g]
      /\ \A k \in Items \ {i} : work'[k] = work[k]
  BY <1>1, <1>2, BecomeWork
<1>4. PermitsHold'
  <2>1. CASE mode = "gate"
    BY <1>1, <1>2, <2>1, PermitsAreTaken DEF RunsIInv
  <2>2. CASE mode # "gate"
    BY <1>1, <1>2, <1>3, <2>2, ItemTypes, PermitsAreKept
  <2>3. QED
    BY <2>1, <2>2
<1>5. InOrder(i)'
  BY <1>1, ItemTypes, UnderWay DEF runs
<1>6. Founded(i)'
  <2>1. /\ work'[i]["goal"] = work[i]["goal"] /\ work'[i]["output"] = work[i]["output"]
        /\ work'[i]["harvest"] = work[i]["harvest"] /\ work'[i]["eval"] = to
        /\ step' = step /\ mode' = mode /\ eval'[i] # "no"
    BY <1>1, <1>3, ItemTypes DEF runs, RunsTypeOK
  <2>2. /\ to # "no"
        /\ mode = "observe" => to = "done"
    OBVIOUS
  <2> HIDE DEF to
  <2>3. QED
    BY <1>1, <2>1, <2>2, ItemTypes DEF Founded
<1>7. Recorded(i)'
  BY <1>1, <1>3, ItemTypes DEF Recorded, harvests
<1>8. QED
  BY <1>1, <1>3, <1>4, <1>5, <1>6, <1>7, ItemStepInv DEF RunsIInv, RunsTypeOK, harvests

LEMMA ObserveInv ==
    ASSUME RunsIInv, NEW i \in Items, Observe(i)
    PROVE  RunsIInv'
<1>1. /\ eval[i] = "queued" /\ eval' = [eval EXCEPT ![i] = "scoring"]
      /\ UNCHANGED <<bus, permits, work, runs, mode, harvests>>
  BY DEF Observe, localBus
<1>2. PermitsHold'
  BY <1>1, ItemTypes, PermitsAreKept
<1>3. InOrder(i)' /\ Founded(i)' /\ Recorded(i)'
  BY <1>1, ItemTypes, UnderWay DEF Founded, Recorded, runs, harvests, RunsTypeOK
<1>4. QED
  BY <1>1, <1>2, <1>3, ItemStepInv DEF RunsIInv, RunsTypeOK, WorkStates, harvests

LEMMA ScoreInv ==
    ASSUME RunsIInv, NEW i \in Items, Score(i)
    PROVE  RunsIInv'
<1>1. /\ eval[i] = "scoring" /\ eval' = [eval EXCEPT ![i] = "publishing"]
      /\ work' = Published(i, "evaluated")
      /\ UNCHANGED <<bus, permits, runs, mode, harvests>>
  BY DEF Score
<1>2. /\ work' \in [Items -> [Handlers -> WorkStates]]
      /\ \A h \in Handlers : work'[i][h] = IF TypeOf[h] = "evaluated" THEN "waiting" ELSE work[i][h]
      /\ \A k \in Items \ {i} : work'[k] = work[k]
  BY <1>1, ItemTypes, PublishedWork
<1>3. /\ work'[i]["goal"] = work[i]["goal"] /\ work'[i]["eval"] = work[i]["eval"]
      /\ work'[i]["output"] = work[i]["output"]
      /\ \A h \in Handlers : work'[i][h] = "running" => work[i][h] = "running"
  BY <1>2, HandlersAndTypes
<1>4. PermitsHold'
  BY <1>1, <1>2, <1>3, ItemTypes, PermitsAreKept
<1>5. InOrder(i)' /\ Founded(i)' /\ Recorded(i)'
  BY <1>1, <1>3, ItemTypes, UnderWay DEF Founded, Recorded, runs, harvests, RunsTypeOK
<1>6. QED
  BY <1>1, <1>2, <1>4, <1>5, ItemStepInv DEF RunsIInv, RunsTypeOK, harvests

LEMMA EvalEndsInv ==
    ASSUME RunsIInv, NEW i \in Items, eval[i] # "no", EvalEnds(i)
    PROVE  RunsIInv'
<1>1. /\ eval' = [eval EXCEPT ![i] = "done"]
      /\ UNCHANGED <<bus, permits, runs, mode, harvests>>
      /\ mode = "gate" => Become(i, "eval", "done")
      /\ mode # "gate" => UNCHANGED work
  BY DEF EvalEnds
<1>2. /\ work' \in [Items -> [Handlers -> WorkStates]]
      /\ mode = "gate" => work'[i]["eval"] = "done"
      /\ mode # "gate" => work'[i]["eval"] = work[i]["eval"]
      /\ \A g \in Handlers \ {"eval"} : work'[i][g] = work[i][g]
      /\ \A k \in Items \ {i} : work'[k] = work[k]
  BY <1>1, ItemTypes, BecomeWork DEF RunsTypeOK, WorkStates
<1>3. PermitsHold'
  BY <1>1, <1>2, ItemTypes, PermitsAreKept
<1>4. /\ work'[i]["goal"] = work[i]["goal"] /\ work'[i]["output"] = work[i]["output"]
      /\ work'[i]["harvest"] = work[i]["harvest"] /\ work'[i]["eval"] \in {work[i]["eval"], "done"}
      /\ step' = step /\ mode' = mode /\ eval'[i] = "done"
      /\ known' = known /\ lookups' = lookups
  BY <1>1, <1>2, ItemTypes DEF runs, harvests, RunsTypeOK
<1>5. InOrder(i)'
  BY <1>1, ItemTypes, UnderWay DEF runs
<1>6. Founded(i)'
  BY <1>4, ItemTypes DEF Founded
<1>7. Recorded(i)'
  BY <1>4, ItemTypes DEF Recorded
<1>8. QED
  BY <1>1, <1>2, <1>3, <1>5, <1>6, <1>7, ItemStepInv DEF RunsIInv, RunsTypeOK, harvests

LEMMA RecordInv ==
    ASSUME RunsIInv, NEW i \in Items, Record(i)
    PROVE  RunsIInv'
<1>1. /\ work[i]["police"] = "waiting" /\ Become(i, "police", "done")
      /\ UNCHANGED <<bus, permits, runs, mode, eval, harvests>>
  BY DEF Record, MayStart, evals
<1>2. /\ work' \in [Items -> [Handlers -> WorkStates]]
      /\ work'[i]["police"] = "done"
      /\ \A g \in Handlers \ {"police"} : work'[i][g] = work[i][g]
      /\ \A k \in Items \ {i} : work'[k] = work[k]
  BY <1>1, ItemTypes, BecomeWork
<1>3. PermitsHold'
  BY <1>1, <1>2, ItemTypes, PermitsAreKept
<1>4. InOrder(i)' /\ Founded(i)' /\ Recorded(i)'
  BY <1>1, <1>2, ItemTypes, UnderWay DEF Founded, Recorded, runs, harvests
<1>5. QED
  BY <1>1, <1>2, <1>3, <1>4, ItemStepInv DEF RunsIInv, RunsTypeOK, harvests

LEMMA CorrelateInv ==
    ASSUME RunsIInv, NEW i \in Items, NEW h \in {"goal", "output"}, Correlate(i, h)
    PROVE  RunsIInv'
<1>1. /\ work[i][h] = "waiting" /\ Become(i, h, "done")
      /\ known' = [known EXCEPT ![i] = known[i] \union {h}]
      /\ UNCHANGED <<bus, permits, runs, mode, eval, lookups, harvest>>
  BY DEF Correlate, MayStart, evals
<1>2. /\ work' \in [Items -> [Handlers -> WorkStates]]
      /\ work'[i][h] = "done"
      /\ \A g \in Handlers \ {h} : work'[i][g] = work[i][g]
      /\ \A k \in Items \ {i} : work'[k] = work[k]
  BY <1>1, ItemTypes, BecomeWork
<1>3. PermitsHold'
  BY <1>1, <1>2, ItemTypes, PermitsAreKept
<1>4. known' \in [Items -> SUBSET {"goal", "output"}] /\ known'[i] = known[i] \union {h}
      /\ \A k \in Items \ {i} : known'[k] = known[k]
  BY <1>1, ItemTypes DEF RunsTypeOK
<1>5. /\ work'[i]["eval"] = work[i]["eval"] /\ work'[i]["harvest"] = work[i]["harvest"]
      /\ \A g \in {"goal", "output"} : work'[i][g] = IF g = h THEN "done" ELSE work[i][g]
      /\ eval'[i] = eval[i] /\ step' = step /\ node' = node /\ mode' = mode /\ lookups' = lookups
  BY <1>1, <1>2, ItemTypes DEF runs
<1>6. InOrder(i)'
  BY <1>1, <1>2, <1>5, ItemTypes DEF InOrder
<1>7. Founded(i)'
  BY <1>1, <1>5, ItemTypes DEF Founded
<1>8. Recorded(i)'
  BY <1>4, <1>5, ItemTypes DEF Recorded
<1>9. QED
  BY <1>1, <1>2, <1>3, <1>4, <1>6, <1>7, <1>8, ItemStepInv DEF RunsIInv, RunsTypeOK

LEMMA TriggerInv ==
    ASSUME RunsIInv, NEW i \in Items, Trigger(i)
    PROVE  RunsIInv'
<1> DEFINE to == IF score[i] = "good" THEN "running" ELSE "done"
<1>1. /\ work[i]["harvest"] = "waiting" /\ MayStart(i, "harvest")
      /\ Become(i, "harvest", to)
      /\ UNCHANGED <<bus, permits, runs, mode, eval, known>>
  BY DEF Trigger, MayStart, evals
<1>2. /\ work' \in [Items -> [Handlers -> WorkStates]]
      /\ \A g \in Handlers \ {"harvest"} : work'[i][g] = work[i][g]
      /\ \A k \in Items \ {i} : work'[k] = work[k]
      /\ work'[i]["harvest"] = to
  BY <1>1, ItemTypes, BecomeWork
<1>3. PermitsHold'
  <2>1. CASE score[i] = "good"
    BY <1>1, <2>1, ItemTypes, PermitsAreTaken
  <2>2. CASE score[i] # "good"
    BY <1>1, <1>2, <2>2, ItemTypes, PermitsAreKept
  <2>3. QED
    BY <2>1, <2>2
<1>4. /\ lookups' \in [Items -> 0..Lookups]
      /\ harvest' \in [Items -> Outcomes \union {NotYet}]
      /\ \A k \in Items \ {i} : lookups'[k] = lookups[k]
      /\ to = "running" => lookups'[i] > 0
  <2>1. /\ lookups \in [Items -> 0..Lookups] /\ harvest \in [Items -> Outcomes \union {NotYet}]
        /\ Lookups \in Nat \ {0} /\ "rejected" \in Outcomes
    BY ItemTypes DEF RunsTypeOK, Outcomes
  <2>2. CASE score[i] = "good"
    <3>1. lookups' = [lookups EXCEPT ![i] = Lookups] /\ harvest' = harvest
      BY <2>2 DEF Trigger
    <3>2. QED
      BY <2>1, <3>1
  <2>3. CASE score[i] # "good"
    <3>1. lookups' = lookups /\ harvest' = [harvest EXCEPT ![i] = "rejected"] /\ to = "done"
      BY <2>3 DEF Trigger
    <3> HIDE DEF to
    <3>2. QED
      BY <2>1, <3>1
  <2>4. QED
    BY <2>2, <2>3
<1> HIDE DEF to
<1>5. InOrder(i)'
  BY <1>1, ItemTypes, UnderWay DEF runs
<1>6. Founded(i)'
  BY <1>1, <1>2, ItemTypes DEF Founded, runs
<1>7. Recorded(i)'
  BY <1>1, <1>2, <1>4, ItemTypes DEF Recorded
<1>8. QED
  BY <1>1, <1>2, <1>3, <1>4, <1>5, <1>6, <1>7, ItemStepInv DEF RunsIInv, RunsTypeOK

LEMMA LookupInv ==
    ASSUME RunsIInv, NEW i \in Items, Lookup(i)
    PROVE  RunsIInv'
<1>1. /\ work[i]["harvest"] = "running"
      /\ UNCHANGED <<bus, permits, runs, mode, eval, known>>
      /\ UNCHANGED work \/ Become(i, "harvest", "done")
  BY DEF Lookup, HarvestEnds, evals
<1>2. /\ work' \in [Items -> [Handlers -> WorkStates]]
      /\ \A g \in Handlers \ {"harvest"} : work'[i][g] = work[i][g]
      /\ \A k \in Items \ {i} : work'[k] = work[k]
      /\ work'[i]["harvest"] # "no"
  BY <1>1, ItemTypes, BecomeWork DEF RunsTypeOK, WorkStates
<1>3. PermitsHold'
  BY <1>1, <1>2, ItemTypes, PermitsAreKept
<1>4. /\ lookups' \in [Items -> 0..Lookups]
      /\ harvest' \in [Items -> Outcomes \union {NotYet}]
      /\ \A k \in Items \ {i} : lookups'[k] = lookups[k]
      /\ work'[i]["harvest"] = "running" => lookups'[i] > 0
  <2>1. /\ lookups \in [Items -> 0..Lookups] /\ harvest \in [Items -> Outcomes \union {NotYet}]
        /\ lookups[i] \in 1..Lookups /\ Lookups \in Nat
    BY <1>1, ItemTypes DEF RunsTypeOK, Recorded
  <2>2. ASSUME NEW outcome \in Outcomes, HarvestEnds(i, outcome)
        PROVE  /\ lookups' = [lookups EXCEPT ![i] = 0]
               /\ harvest' = [harvest EXCEPT ![i] = outcome]
               /\ work'[i]["harvest"] = "done"
    BY <2>2, ItemTypes, BecomeWork DEF HarvestEnds
  <2>3. CASE \E outcome \in Outcomes : HarvestEnds(i, outcome)
    BY <2>1, <2>2, <2>3
  <2>4. CASE lookups[i] # 1 /\ lookups' = [lookups EXCEPT ![i] = lookups[i] - 1] /\ UNCHANGED harvest
    BY <2>1, <2>4
  <2>5. QED
    BY <2>3, <2>4 DEF Lookup, Outcomes
<1>5. InOrder(i)'
  BY <1>1, ItemTypes, UnderWay DEF runs
<1>6. Founded(i)'
  BY <1>1, <1>2, ItemTypes DEF Founded, runs
<1>7. Recorded(i)'
  BY <1>1, <1>2, <1>4, ItemTypes DEF Recorded
<1>8. QED
  BY <1>1, <1>2, <1>3, <1>4, <1>5, <1>6, <1>7, ItemStepInv DEF RunsIInv, RunsTypeOK
-----------------------------------------------------------------------------
LEMMA DagTypes ==
    ASSUME RunsIInv, NEW d \in Dags
    PROVE  /\ RunsTypeOK /\ PermitsHold /\ QueueIsNew
           /\ permits \in Nat
           /\ node[d] \in 1..Length[d] /\ Length[d] \in Nat
           /\ At(d) \in Items /\ At(d)[1] = d /\ At(d)[2] = node[d]
           /\ \A i \in Items : /\ InOrder(i) /\ Founded(i) /\ Recorded(i)
                               /\ i[1] \in Dags /\ i[2] \in Nat
                               /\ i[1] = d /\ i[2] = node[d] => i = At(d)
           /\ {"goal", "eval", "output", "police", "harvest"} = Handlers
BY HandlersAndTypes, ItemsArePairs, RunsAssumption DEF RunsIInv, RunsTypeOK, At

\* A step of the run of one DAG.
LEMMA RunStepInv ==
    ASSUME RunsIInv, NEW d \in Dags, UNCHANGED <<bus, permits, queue, evals, harvests>>,
           step[d] # "new",
           NEW to \in {"next", "starting", "completing", "done"}, Proceed(d, to),
           NEW at \in 1..Length[d], node' = [node EXCEPT ![d] = at],
           UNCHANGED future \/ future' = [future EXCEPT ![d] = "resolved"],
           work' \in [Items -> [Handlers -> WorkStates]], PermitsHold',
           \A i \in Items : i[1] # d => work'[i] = work[i],
           \A i \in Items : i[1] = d => InOrder(i)' /\ Founded(i)' /\ Recorded(i)'
    PROVE  RunsIInv'
<1>1. /\ step' \in [Dags -> {"new", "next", "starting", "completing", "done", "lost"}]
      /\ node' \in [Dags -> Nat] /\ \A e \in Dags : node'[e] \in 1..Length[e]
      /\ future' \in [Dags -> {"none", "pending", "resolved"}]
      /\ \A e \in Dags \ {d} : step'[e] = step[e] /\ node'[e] = node[e] /\ future'[e] = future[e]
  <2>1. at \in Nat
    BY DagTypes
  <2>2. /\ step \in [Dags -> {"new", "next", "starting", "completing", "done", "lost"}]
        /\ step' = [step EXCEPT ![d] = to]
    BY DEF RunsIInv, RunsTypeOK, Proceed
  <2>3. node \in [Dags -> Nat] /\ \A e \in Dags : node[e] \in 1..Length[e]
    BY DEF RunsIInv, RunsTypeOK
  <2>4. future \in [Dags -> {"none", "pending", "resolved"}]
    BY DEF RunsIInv, RunsTypeOK
  <2>5. node' \in [Dags -> Nat] /\ node'[d] = at /\ \A e \in Dags \ {d} : node'[e] = node[e]
    BY <2>1, <2>3
  <2>6. /\ future' \in [Dags -> {"none", "pending", "resolved"}]
        /\ \A e \in Dags \ {d} : future'[e] = future[e]
    BY <2>4
  <2>7. \A e \in Dags : node'[e] \in 1..Length[e]
    BY <2>3, <2>5
  <2>8. QED
    BY <2>2, <2>5, <2>6, <2>7
<1>2. RunsTypeOK'
  BY <1>1 DEF RunsIInv, RunsTypeOK, evals, harvests, WorkStates
<1>3. QueueIsNew'
  BY <1>1 DEF RunsIInv, RunsTypeOK, QueueIsNew
<1>4. ASSUME NEW i \in Items, i[1] # d
      PROVE  InOrder(i)' /\ Founded(i)' /\ Recorded(i)'
  <2>1. i[1] \in Dags \ {d}
    BY <1>4, ItemsArePairs
  <2>2. /\ work'[i] = work[i] /\ eval' = eval /\ mode' = mode /\ known' = known /\ lookups' = lookups
        /\ step'[i[1]] = step[i[1]] /\ node'[i[1]] = node[i[1]]
    BY <1>1, <1>4, <2>1 DEF evals, harvests
  <2>3. QED
    BY <2>2 DEF RunsIInv, InOrder, Founded, Recorded
<1>5. QED
  BY <1>2, <1>3, <1>4 DEF RunsIInv

\* A step that publishes nothing.
LEMMA QuietStepInv ==
    ASSUME RunsIInv, NEW d \in Dags, UNCHANGED <<localBus, queue, evals, harvests>>,
           step[d] \notin {"new", "lost"},
           NEW to \in {"next", "done"}, Proceed(d, to),
           NEW at \in 1..Length[d], node' = [node EXCEPT ![d] = at],
           at = node[d] \/ at = node[d] + 1, to = "next" => at = node[d] + 1,
           UNCHANGED future \/ future' = [future EXCEPT ![d] = "resolved"]
    PROVE  RunsIInv'
<1>1. /\ UNCHANGED <<bus, permits, work, mode, eval, known, lookups>>
      /\ step'[d] = to /\ node'[d] = at
  BY DagTypes DEF localBus, evals, harvests, Proceed, RunsTypeOK
<1>2. PermitsHold'
  BY <1>1, DagTypes, PermitsAreKept
<1>3. ASSUME NEW i \in Items, i[1] = d
      PROVE  InOrder(i)' /\ Founded(i)' /\ Recorded(i)'
  <2>1. i[2] \in Nat /\ node[d] \in Nat /\ at \in Nat
    BY DagTypes
  <2>2. InOrder(i) /\ Founded(i) /\ Recorded(i)
    BY DagTypes
  <2>3. InOrder(i)'
    <3>1. i[2] > at \/ (i[2] = at /\ to = "next") => i[2] > node[d]
      BY <2>1
    <3>2. QED
      BY <1>1, <1>3, <2>2, <3>1 DEF InOrder
  <2>4. Founded(i)' /\ Recorded(i)'
    BY <1>1, <1>3, <2>2 DEF Founded, Recorded
  <2>5. QED
    BY <2>3, <2>4
<1>4. QED
  BY <1>1, <1>2, <1>3, RunStepInv DEF RunsIInv, RunsTypeOK, WorkStates

LEMMA StartNodeInv ==
    ASSUME RunsIInv, NEW d \in Dags, StartNode(d)
    PROVE  RunsIInv'
<1>1. /\ step[d] = "next" /\ node' = node
      /\ UNCHANGED <<bus, permits, queue, evals, harvests>>
  BY DEF StartNode
<1>2. node' = [node EXCEPT ![d] = node[d]] /\ node[d] \in 1..Length[d]
  BY <1>1, DagTypes DEF RunsIInv, RunsTypeOK
<1>3. CASE halted
  <2>1. Finish(d) /\ UNCHANGED work
    BY <1>3 DEF StartNode
  <2>2. InOrder(At(d)) /\ node[d] \in Nat
    BY DagTypes
  <2>3. PermitsHold'
    BY <1>1, <2>1, DagTypes, PermitsAreKept
  <2>4. ASSUME NEW i \in Items, i[1] = d
        PROVE  InOrder(i)' /\ Founded(i)' /\ Recorded(i)'
    <3>1. /\ UNCHANGED <<work, mode, eval, known, lookups, node>> /\ step'[d] = "done"
      BY <1>1, <2>1, DagTypes DEF evals, harvests, Finish, Proceed, RunsTypeOK
    <3>2. QED
      BY <1>1, <2>4, <3>1, DagTypes DEF InOrder, Founded, Recorded
  <2>5. QED
    <3>1. /\ work' \in [Items -> [Handlers -> WorkStates]] /\ work' = work
          /\ node[d] \in 1..Length[d]
      BY <2>1, DagTypes DEF RunsIInv, RunsTypeOK, WorkStates
    <3>2. Proceed(d, "done") /\ future' = [future EXCEPT ![d] = "resolved"]
      BY <2>1 DEF Finish
    <3>3. QED
      BY <1>1, <1>2, <2>3, <2>4, <3>1, <3>2, RunStepInv
<1>4. CASE ~halted
  <2>1. Proceed(d, "starting") /\ UNCHANGED future /\ work' = Published(At(d), "started")
    BY <1>4 DEF StartNode
  <2>2. /\ work' \in [Items -> [Handlers -> WorkStates]]
        /\ \A h \in Handlers : work'[At(d)][h] = IF TypeOf[h] = "started" THEN "waiting"
                                                ELSE work[At(d)][h]
        /\ \A k \in Items \ {At(d)} : work'[k] = work[k]
    BY <2>1, DagTypes, PublishedWork
  <2>3. work'[At(d)]["goal"] = "waiting" /\ \A h \in Handlers \ {"goal"} : work'[At(d)][h] = "no"
    BY <1>1, <2>2, DagTypes, HandlersAndTypes DEF InOrder
  <2>4. PermitsHold'
    BY <1>1, <2>2, DagTypes, PermitsAreKept
  <2>5. /\ UNCHANGED <<mode, eval, known, lookups, node>> /\ step'[d] = "starting"
    BY <1>1, <2>1, DagTypes DEF evals, harvests, Proceed, RunsTypeOK
  <2>6. ASSUME NEW i \in Items, i[1] = d
        PROVE  InOrder(i)' /\ Founded(i)' /\ Recorded(i)'
    <3>1. CASE i = At(d)
      BY <1>1, <2>3, <2>5, <3>1, DagTypes DEF InOrder, Founded, Recorded
    <3>2. CASE i # At(d)
      BY <1>1, <2>2, <2>5, <2>6, <3>2, DagTypes DEF InOrder, Founded, Recorded
    <3>3. QED
      BY <3>1, <3>2
  <2>7. \A i \in Items : i[1] # d => work'[i] = work[i]
    BY <2>2, DagTypes
  <2>8. QED
    BY <1>1, <1>2, <2>1, <2>2, <2>4, <2>6, <2>7, RunStepInv
<1>5. QED
  BY <1>3, <1>4

LEMMA CompleteNodeInv ==
    ASSUME RunsIInv, NEW d \in Dags, CompleteNode(d)
    PROVE  RunsIInv'
<1>1. /\ step[d] = "starting" /\ Delivered(At(d), "started")
      /\ Proceed(d, "completing") /\ work' = Published(At(d), "completed")
      /\ UNCHANGED <<bus, permits, queue, future, node, evals, harvests>>
  BY DEF CompleteNode
<1>2. node' = [node EXCEPT ![d] = node[d]] /\ node[d] \in 1..Length[d]
  BY <1>1, DagTypes DEF RunsIInv, RunsTypeOK
<1>3. /\ work' \in [Items -> [Handlers -> WorkStates]]
      /\ \A h \in Handlers : work'[At(d)][h] = IF TypeOf[h] = "completed" THEN "waiting"
                                              ELSE work[At(d)][h]
      /\ \A k \in Items \ {At(d)} : work'[k] = work[k]
  BY <1>1, DagTypes, PublishedWork
<1>4. /\ work[At(d)]["goal"] = "done" /\ eval[At(d)] = "no"
      /\ \A h \in Handlers \ {"goal"} : work[At(d)][h] = "no"
  BY <1>1, DagTypes, HandlersAndTypes DEF Delivered, InOrder
<1>5. /\ work'[At(d)]["goal"] = "done"
      /\ work'[At(d)]["eval"] = "waiting" /\ work'[At(d)]["output"] = "waiting"
      /\ work'[At(d)]["police"] = "no" /\ work'[At(d)]["harvest"] = "no"
  BY <1>3, <1>4, HandlersAndTypes
<1>6. PermitsHold'
  BY <1>1, <1>3, DagTypes, PermitsAreKept
<1>7. /\ UNCHANGED <<mode, eval, known, lookups, node>> /\ step'[d] = "completing"
  BY <1>1, DagTypes DEF evals, harvests, Proceed, RunsTypeOK
<1>8. ASSUME NEW i \in Items, i[1] = d
      PROVE  InOrder(i)' /\ Founded(i)' /\ Recorded(i)'
  <2>1. CASE i = At(d)
    BY <1>1, <1>4, <1>5, <1>7, <2>1, DagTypes DEF InOrder, Founded, Recorded
  <2>2. CASE i # At(d)
    BY <1>1, <1>3, <1>7, <1>8, <2>2, DagTypes DEF InOrder, Founded, Recorded
  <2>3. QED
    BY <2>1, <2>2
<1>9. \A i \in Items : i[1] # d => work'[i] = work[i]
  BY <1>3, DagTypes
<1>10. QED
  BY <1>1, <1>2, <1>3, <1>6, <1>8, <1>9, RunStepInv

LEMMA FailNodeInv ==
    ASSUME RunsIInv, NEW d \in Dags, FailNode(d)
    PROVE  RunsIInv'
<1>1. /\ step[d] = "starting" /\ Proceed(d, "done") /\ node' = [node EXCEPT ![d] = node[d]]
      /\ future' = [future EXCEPT ![d] = "resolved"]
      /\ UNCHANGED <<localBus, queue, evals, harvests>>
  BY DEF FailNode, Finish, RunsIInv, RunsTypeOK
<1>2. QED
  BY <1>1, DagTypes, QuietStepInv

LEMMA LeaveNodeInv ==
    ASSUME RunsIInv, NEW d \in Dags, LeaveNode(d)
    PROVE  RunsIInv'
<1>1. step[d] = "completing" /\ UNCHANGED <<localBus, queue, evals, harvests>>
  BY DEF LeaveNode
<1>2. CASE node[d] = Length[d]
  <2>1. /\ Proceed(d, "done") /\ node' = [node EXCEPT ![d] = node[d]]
        /\ future' = [future EXCEPT ![d] = "resolved"]
    BY <1>2 DEF LeaveNode, Finish, RunsIInv, RunsTypeOK
  <2>2. QED
    BY <1>1, <2>1, DagTypes, QuietStepInv
<1>3. CASE node[d] # Length[d]
  <2>1. /\ Proceed(d, "next") /\ node' = [node EXCEPT ![d] = node[d] + 1] /\ UNCHANGED future
    BY <1>3 DEF LeaveNode
  <2>2. node[d] + 1 \in 1..Length[d]
    BY <1>3, DagTypes
  <2>3. QED
    BY <1>1, <2>1, <2>2, QuietStepInv
<1>4. QED
  BY <1>2, <1>3
-----------------------------------------------------------------------------
LEMMA SubmitInv ==
    ASSUME RunsIInv, NEW d \in Dags, Submit(d)
    PROVE  RunsIInv'
<1>1. /\ step[d] = "new" /\ future[d] = "none"
      /\ queue' = Append(queue, d) /\ future' = [future EXCEPT ![d] = "pending"]
      /\ UNCHANGED <<bus, permits, work, step, node, mode, eval, known, lookups, harvest>>
  BY DEF Submit, localBus, evals, harvests
<1>2. queue \in Seq(Dags) /\ future \in [Dags -> {"none", "pending", "resolved"}]
  BY DEF RunsIInv, RunsTypeOK
<1>3. RunsTypeOK'
  BY <1>1, <1>2 DEF RunsIInv, RunsTypeOK
<1>4. QueueIsNew'
  <2>1. /\ \A j \in DOMAIN queue : step[queue[j]] = "new" /\ future[queue[j]] # "none" /\ queue[j] \in Dags
        /\ \A j, k \in DOMAIN queue : queue[j] = queue[k] => j = k
    BY <1>2 DEF RunsIInv, QueueIsNew
  <2>2. \A j \in DOMAIN queue' : \/ j \in DOMAIN queue /\ queue'[j] = queue[j] /\ queue[j] # d
                                 \/ j = Len(queue) + 1 /\ queue'[j] = d
    BY <1>1, <1>2, <2>1
  <2>3. QED
    BY <1>1, <1>2, <2>1, <2>2 DEF QueueIsNew
<1>5. QED
  BY <1>1, <1>3, <1>4 DEF RunsIInv, PermitsHold, Running, InOrder, Founded, Recorded

LEMMA StartWorkersInv ==
    ASSUME RunsIInv, StartWorkers
    PROVE  RunsIInv'
BY DEF StartWorkers, localBus, evals, harvests, RunsIInv, RunsTypeOK, QueueIsNew, PermitsHold,
       Running, InOrder, Founded, Recorded

LEMMA TakeInv ==
    ASSUME RunsIInv, Take
    PROVE  RunsIInv'
<1> DEFINE d == Head(queue)
<1>1. /\ queue # <<>> /\ queue' = Tail(queue) /\ step' = [step EXCEPT ![d] = "next"]
      /\ UNCHANGED <<bus, permits, work, future, node, mode, eval, known, lookups, harvest>>
  BY DEF Take, Proceed, localBus, evals, harvests
<1>2. queue \in Seq(Dags) /\ d = queue[1] /\ 1 \in DOMAIN queue /\ d \in Dags
  BY <1>1 DEF RunsIInv, RunsTypeOK
<1>3. /\ queue' \in Seq(Dags)
      /\ \A j \in DOMAIN queue' : j + 1 \in DOMAIN queue /\ queue'[j] = queue[j + 1] /\ j \in Nat /\ j # 0
  BY <1>1, <1>2
<1>4. step[d] = "new" /\ step \in [Dags -> {"new", "next", "starting", "completing", "done", "lost"}]
  BY <1>2 DEF RunsIInv, RunsTypeOK, QueueIsNew
<1> HIDE DEF d
<1>5. RunsTypeOK'
  BY <1>1, <1>3, <1>4 DEF RunsIInv, RunsTypeOK
<1>6. QueueIsNew'
  <2>1. /\ \A j \in DOMAIN queue : step[queue[j]] = "new" /\ future[queue[j]] # "none"
        /\ \A j, k \in DOMAIN queue : queue[j] = queue[k] => j = k
    BY DEF RunsIInv, QueueIsNew
  <2>2. \A j \in DOMAIN queue' : queue'[j] # d
    BY <1>2, <1>3, <2>1
  <2>3. \A j \in DOMAIN queue' : step'[queue'[j]] = "new" /\ future'[queue'[j]] # "none"
    <3>1. \A j \in DOMAIN queue' : queue'[j] \in Dags
      BY <1>2, <1>3
    <3>2. QED
      BY <1>1, <1>3, <1>4, <2>1, <2>2, <3>1
  <2>4. \A j, k \in DOMAIN queue' : queue'[j] = queue'[k] => j = k
    <3>1. ASSUME NEW j \in DOMAIN queue', NEW k \in DOMAIN queue', queue'[j] = queue'[k]
          PROVE  j = k
      <4>1. j + 1 = k + 1 /\ j \in Nat /\ k \in Nat
        BY <1>3, <2>1, <3>1
      <4>2. QED
        BY <4>1
    <3>2. QED
      BY <3>1
  <2>5. QED
    BY <2>3, <2>4 DEF QueueIsNew
<1>7. PermitsHold'
  BY <1>1 DEF RunsIInv, PermitsHold, Running
<1>8. ASSUME NEW i \in Items
      PROVE  InOrder(i)' /\ Founded(i)' /\ Recorded(i)'
  <2>1. i[1] \in Dags /\ InOrder(i) /\ Founded(i) /\ Recorded(i)
    BY ItemTypes
  <2>2. step'[i[1]] = IF i[1] = d THEN "next" ELSE step[i[1]]
    BY <1>1, <1>4, <2>1
  <2>3. InOrder(i)'
    BY <1>1, <1>4, <2>1, <2>2 DEF InOrder
  <2>4. Founded(i)' /\ Recorded(i)'
    BY <1>1, <1>4, <2>1, <2>2 DEF Founded, Recorded
  <2>5. QED
    BY <2>3, <2>4
<1>9. QED
  BY <1>5, <1>6, <1>7, <1>8 DEF RunsIInv

\* What the cancelled runs awaited is gone, and nothing is said of them then.
LEMMA StopWorkersInv ==
    ASSUME RunsIInv, StopWorkers
    PROVE  RunsIInv'
<1> DEFINE Lost(i, h) == /\ i[1] \in Active /\ (TypeOf[h] # "evaluated" \/ mode = "gate")
                         /\ work[i][h] \in {"waiting", "running"}
<1>1. /\ UNCHANGED <<bus, permits, queue, future, node, mode, known, lookups, harvest>>
      /\ step' = [d \in Dags |-> IF d \in Active THEN "lost" ELSE step[d]]
      /\ work' = [i \in Items |-> [h \in Handlers |-> IF Lost(i, h) THEN "no" ELSE work[i][h]]]
      /\ eval' = [i \in Items |-> IF i[1] \in Active /\ mode = "gate" /\ eval[i] # "no"
                                  THEN "done" ELSE eval[i]]
  BY DEF StopWorkers, harvests
<1>2. \A i \in Items, h \in Handlers :
        /\ work'[i][h] \in {"no", work[i][h]}
        /\ i[1] \notin Active => work'[i][h] = work[i][h]
  BY <1>1
<1> HIDE DEF Lost
<1>3. RunsTypeOK'
  BY <1>1, <1>2 DEF RunsIInv, RunsTypeOK
<1>4. QueueIsNew'
  <2>1. \A j \in DOMAIN queue : queue[j] \in Dags /\ step[queue[j]] = "new"
    BY DEF RunsIInv, RunsTypeOK, QueueIsNew
  <2>2. \A j \in DOMAIN queue : step'[queue[j]] = "new"
    BY <1>1, <2>1 DEF Active
  <2>3. QED
    BY <1>1, <2>2 DEF RunsIInv, QueueIsNew
<1>5. PermitsHold'
  <2>1. permits \in Nat /\ PermitsHold
    BY DEF RunsIInv, RunsTypeOK
  <2>2. QED
    BY <1>1, <1>2, <2>1, PermitsAreKept
<1>6. ASSUME NEW i \in Items
      PROVE  InOrder(i)' /\ Founded(i)' /\ Recorded(i)'
  <2>1. i[1] \in Dags /\ InOrder(i) /\ Founded(i) /\ Recorded(i)
    BY ItemTypes
  <2>2. Recorded(i)'
    BY <1>1, <1>2, <2>1, HandlersAndTypes DEF Recorded
  <2>3. CASE i[1] \in Active
    <3>1. step'[i[1]] = "lost"
      BY <1>1, <2>1, <2>3
    <3>2. QED
      BY <2>2, <3>1 DEF InOrder, Founded
  <2>4. CASE i[1] \notin Active
    <3>1. /\ step'[i[1]] = step[i[1]] /\ eval'[i] = eval[i] /\ mode' = mode /\ node' = node
          /\ \A h \in Handlers : work'[i][h] = work[i][h]
      BY <1>1, <1>2, <2>1, <2>4
    <3>2. QED
      BY <2>1, <2>2, <3>1, HandlersAndTypes DEF InOrder, Founded
  <2>5. QED
    BY <2>3, <2>4
<1>7. QED
  BY <1>3, <1>4, <1>5, <1>6 DEF RunsIInv

-----------------------------------------------------------------------------
LEMMA RunsInitIInv == RunsInit => RunsIInv
<1> SUFFICES ASSUME RunsInit PROVE RunsIInv
  OBVIOUS
<1> USE DEF RunsInit, BusInit
<1>1. RunsTypeOK
  BY LocalBusAssumption, RunsAssumption DEF RunsTypeOK
<1>2. QueueIsNew
  BY DEF QueueIsNew
<1>3. PermitsHold
  <2>1. Running = {}
    BY DEF Running
  <2>2. QED
    BY <1>1, <2>1, FS_EmptySet DEF PermitsHold, RunsTypeOK
<1>4. ASSUME NEW i \in Items
      PROVE  InOrder(i) /\ Founded(i) /\ Recorded(i)
  BY HandlersAndTypes DEF InOrder, Founded, Recorded
<1>5. QED
  BY <1>1, <1>2, <1>3, <1>4 DEF RunsIInv

LEMMA RunsNextIInv == RunsIInv /\ [RunsNext]_runsVars => RunsIInv'
<1> SUFFICES ASSUME RunsIInv, [RunsNext]_runsVars PROVE RunsIInv'
  OBVIOUS
<1>1. CASE StartWorkers \/ StopWorkers \/ Take
  BY <1>1, StartWorkersInv, StopWorkersInv, TakeInv
<1>2. CASE \E d \in Dags : Submit(d) \/ RunStep(d)
  BY <1>2, SubmitInv, StartNodeInv, CompleteNodeInv, FailNodeInv, LeaveNodeInv DEF RunStep
<1>3. CASE \E i \in Items : ItemStep(i)
  <2>1. PICK i \in Items : ItemStep(i)
    BY <1>3
  <2>2. CASE HandleCompleted(i) \/ Observe(i) \/ Score(i)
    BY <2>2, HandleCompletedInv, ObserveInv, ScoreInv
  <2>3. CASE Evaluated(i) \/ EvalRaises(i)
    BY <2>3, EvalEndsInv DEF Evaluated, EvalRaises
  <2>4. CASE Record(i) \/ Trigger(i) \/ Lookup(i)
    BY <2>4, RecordInv, TriggerInv, LookupInv
  <2>5. CASE \E h \in {"goal", "output"} : Correlate(i, h)
    BY <2>5, CorrelateInv
  <2>6. QED
    BY <2>1, <2>2, <2>3, <2>4, <2>5 DEF ItemStep
<1>4. CASE UNCHANGED runsVars
  BY <1>4 DEF runsVars, localBus, runs, evals, harvests, RunsIInv, RunsTypeOK, QueueIsNew,
              PermitsHold, Running, InOrder, Founded, Recorded
<1>5. QED
  BY <1>1, <1>2, <1>3, <1>4 DEF RunsNext

\* In every state of the evaluated runs (DistributedDAGExecutor, DAGExecutor,
\* OnlineEvalPipeline, BlueprintHarvesterEngine on one bus) a queued DAG is new,
\* the events of a node come in order and each has its cause, what was
\* observed is known, and the handlers of an AsyncEventBus hold no more
\* permits than its semaphore has.
THEOREM RunsInvariance == RunsSpec => []RunsIInv
<1>1. RunsInit => RunsIInv
  BY RunsInitIInv
<1>2. RunsIInv /\ [RunsNext]_runsVars => RunsIInv'
  BY RunsNextIInv
<1>3. QED
  BY <1>1, <1>2, PTL DEF RunsSpec
-----------------------------------------------------------------------------
\* Only a lookup that finds nothing leaves a harvest uncorrelated.
LEMMA OnlyLookupsDrop ==
    ASSUME RunsTypeOK, [RunsNext]_runsVars, NEW i \in Items,
           harvest[i] = NotYet, harvest'[i] = "uncorrelated"
    PROVE  Lookup(i) /\ lookups[i] = 1 /\ known[i] # {"goal", "output"}
<1>1. NotYet \notin Outcomes /\ harvest'[i] # harvest[i] /\ harvest' # harvest
  BY RunsAssumption DEF Outcomes
<1>2. harvest \in [Items -> Outcomes \union {NotYet}]
  BY DEF RunsTypeOK
<1>3. PICK j \in Items : Trigger(j) \/ Lookup(j)
  <2>1. ~UNCHANGED runsVars /\ ~UNCHANGED harvests
    BY <1>1 DEF runsVars, harvests
  <2>2. \E j \in Items : ItemStep(j)
    <3>1. ~StartWorkers /\ ~StopWorkers /\ ~Take
      BY <2>1 DEF StartWorkers, StopWorkers, Take
    <3>2. ASSUME NEW d \in Dags
          PROVE  ~Submit(d) /\ ~RunStep(d)
      BY <2>1 DEF Submit, RunStep, StartNode, CompleteNode, FailNode, LeaveNode
    <3>3. QED
      BY <2>1, <3>1, <3>2 DEF RunsNext
  <2>3. PICK j \in Items : ItemStep(j)
    BY <2>2
  <2>4. /\ ~HandleCompleted(j) /\ ~Observe(j) /\ ~Score(j) /\ ~Evaluated(j) /\ ~EvalRaises(j)
        /\ ~Record(j)
    BY <2>1 DEF HandleCompleted, Observe, Score, Evaluated, EvalRaises, EvalEnds, Record
  <2>5. ASSUME NEW h \in {"goal", "output"}
        PROVE  ~Correlate(j, h)
    BY <1>1 DEF Correlate
  <2>6. QED
    BY <2>3, <2>4, <2>5 DEF ItemStep
<1>4. ASSUME NEW k \in Items, NEW outcome, harvest' = [harvest EXCEPT ![k] = outcome]
      PROVE  k = i /\ outcome = "uncorrelated"
  BY <1>1, <1>2, <1>4
<1>5. ~Trigger(j)
  <2>1. Trigger(j) => UNCHANGED harvest \/ harvest' = [harvest EXCEPT ![j] = "rejected"]
    BY DEF Trigger
  <2>2. QED
    BY <1>1, <1>4, <2>1
<1>6. Lookup(j)
  BY <1>3, <1>5
<1>7. CASE known[j] = {"goal", "output"}
  <2>1. PICK outcome \in {"appended", "error"} : HarvestEnds(j, outcome)
    BY <1>6, <1>7 DEF Lookup
  <2>2. outcome = "uncorrelated"
    BY <1>4, <2>1 DEF HarvestEnds
  <2>3. QED
    BY <2>1, <2>2
<1>8. CASE known[j] # {"goal", "output"} /\ lookups[j] # 1
  BY <1>1, <1>6, <1>8 DEF Lookup
<1>9. CASE known[j] # {"goal", "output"} /\ lookups[j] = 1
  <2>1. HarvestEnds(j, "uncorrelated")
    BY <1>6, <1>9 DEF Lookup
  <2>2. j = i
    BY <1>4, <2>1 DEF HarvestEnds
  <2>3. QED
    BY <1>6, <1>9, <2>2
<1>10. QED
  BY <1>7, <1>8, <1>9

\* Then the output was published and is not observed yet, unless the run was
\* cancelled.
LEMMA DropsWaitForOutput ==
    ASSUME RunsIInv, NEW i \in Items, step[i[1]] # "lost",
           work[i]["harvest"] = "running", known[i] # {"goal", "output"}
    PROVE  /\ work[i]["output"] = "waiting"
           /\ mode = "observe" => work[i]["eval"] = "done"
<1>1. /\ eval[i] # "no" /\ work[i]["goal"] = "done" /\ work[i]["output"] \in {"waiting", "done"}
      /\ mode = "observe" => work[i]["eval"] = "done"
  BY DEF RunsIInv, Founded
<1>2. "goal" \in known[i] /\ known[i] \subseteq {"goal", "output"}
  BY <1>1 DEF RunsIInv, RunsTypeOK, Recorded
<1>3. work[i]["output"] # "done"
  BY <1>2 DEF RunsIInv, Recorded
<1>4. QED
  BY <1>1, <1>3

LEMMA LastLookupsAreExplained ==
    ASSUME RunsIInv, NEW i \in Items, Lookup(i), lookups[i] = 1, known[i] # {"goal", "output"}
    PROVE  \/ Lookups = 1
           \/ bus = "memory" /\ mode = "gate"
           \/ bus = "async" /\ Cardinality(Running) = permits
           \/ step[i[1]] = "lost"
<1> SUFFICES ASSUME Lookups # 1, step[i[1]] # "lost"
             PROVE  \/ bus = "memory" /\ mode = "gate"
                    \/ bus = "async" /\ Cardinality(Running) = permits
  OBVIOUS
<1>1. work[i]["output"] = "waiting" /\ (mode = "observe" => work[i]["eval"] = "done")
  BY DropsWaitForOutput DEF Lookup
<1>2. ~MayStart(i, "output")
  <2>1. lookups[i] < Lookups
    BY RunsAssumption
  <2>2. QED
    BY <2>1 DEF Lookup
<1>3. CASE bus = "memory"
  <2>1. PICK k, l \in DOMAIN HandlersOf[TypeOf["output"]] :
          /\ k < l /\ HandlersOf[TypeOf["output"]][l] = "output"
          /\ work[i][HandlersOf[TypeOf["output"]][k]] # "done"
    BY <1>1, <1>2, <1>3 DEF MayStart
  <2>2. HandlersOf[TypeOf["output"]] = <<"eval", "output">>
    BY HandlersAndTypes, RunsAssumption
  <2>3. k = 1
    BY <2>1, <2>2
  <2>4. work[i]["eval"] # "done"
    BY <2>1, <2>2, <2>3
  <2>5. QED
    BY <1>1, <1>3, <2>4 DEF RunsIInv, RunsTypeOK
<1>4. CASE bus = "async"
  <2>1. Cardinality(Running) \in Nat /\ Cardinality(Running) <= permits /\ permits \in Nat
    BY <1>4, FS_CardinalityType DEF RunsIInv, PermitsHold, RunsTypeOK
  <2>2. ~(Cardinality(Running) < permits)
    BY <1>1, <1>2, <1>4 DEF MayStart
  <2>3. QED
    BY <1>4, <2>1, <2>2
<1>5. QED
  BY <1>3, <1>4 DEF RunsIInv, RunsTypeOK

\* A harvest is dropped as uncorrelated only where the retries of
\* BlueprintHarvesterEngine._lookup_with_retry could not help, however many
\* DAGs, nodes, workers, permits and retries there are.
THEOREM DropsHaveReasons == RunsSpec => DropsAreExplained
<1>1. RunsIInv /\ [RunsNext]_runsVars =>
        [\A i \in Items : harvest[i] = NotYet /\ harvest'[i] = "uncorrelated" =>
           \/ Lookups = 1
           \/ bus = "memory" /\ mode = "gate"
           \/ bus = "async" /\ Cardinality(Running) = permits
           \/ step[i[1]] = "lost"]_runsVars
  <2> SUFFICES ASSUME RunsIInv, [RunsNext]_runsVars, NEW i \in Items,
                      harvest[i] = NotYet, harvest'[i] = "uncorrelated"
               PROVE  \/ Lookups = 1
                      \/ bus = "memory" /\ mode = "gate"
                      \/ bus = "async" /\ Cardinality(Running) = permits
                      \/ step[i[1]] = "lost"
    OBVIOUS
  <2>1. Lookup(i) /\ lookups[i] = 1 /\ known[i] # {"goal", "output"}
    BY OnlyLookupsDrop DEF RunsIInv
  <2>2. QED
    BY <2>1, LastLookupsAreExplained
<1>2. QED
  BY <1>1, RunsInvariance, PTL DEF RunsSpec, DropsAreExplained

-----------------------------------------------------------------------------
(***************************************************************************)
(* Runs come to a standstill only where publishes starve: the safety half  *)
(* of SubmittedRunsResolve.                                                *)
(***************************************************************************)

\* A future is pending from the submission of its DAG to the end of its run.
FutureFits(d) ==
    /\ future[d] = "none" => step[d] = "new"
    /\ future[d] = "resolved" <=> step[d] = "done"
    /\ future[d] = "pending" /\ step[d] = "new" => \E j \in DOMAIN queue : queue[j] = d

\* What a run awaits is about the node it is at, and was published.
AwaitsItsNode(i) ==
    /\ work[i]["goal"] \in {"waiting", "running"} => step[i[1]] = "starting" /\ i = At(i[1])
    /\ \A h \in {"eval", "output"} :
        work[i][h] \in {"waiting", "running"} => step[i[1]] = "completing" /\ i = At(i[1])

RunIsPublished(d) ==
    /\ step[d] = "starting" => work[At(d)]["goal"] # "no"
    /\ step[d] = "completing" => work[At(d)]["eval"] # "no" /\ work[At(d)]["output"] # "no"

\* Only a gate keeps its permit, for as long as it scores or publishes, and a
\* harvest; a score that is published has its handlers.
HandlersFit(i) ==
    /\ \A h \in {"goal", "output", "police"} : work[i][h] # "running"
    /\ work[i]["eval"] = "running" => mode = "gate" /\ eval[i] \in {"scoring", "publishing"}
    /\ eval[i] = "publishing" => work[i]["police"] # "no" /\ work[i]["harvest"] # "no"

AwaitInv ==
    /\ IsFiniteSet(Active)
    /\ \A d \in Dags : FutureFits(d) /\ RunIsPublished(d)
    /\ \A i \in Items : AwaitsItsNode(i) /\ HandlersFit(i)

\* Who has a step to make: a worker, a run, a handler or an evaluation.
WorkerGoesOn == queue # <<>> /\ Cardinality(Active) < workers

RunGoesOn(d) ==
    \/ step[d] = "next"
    \/ step[d] = "starting" /\ Delivered(At(d), "started")
    \/ step[d] = "completing" /\ Delivered(At(d), "completed")

ItemGoesOn(i) ==
    \/ \E h \in Handlers : MayStart(i, h)
    \/ eval[i] = "scoring"
    \/ eval[i] = "publishing" /\ Delivered(i, "evaluated")
    \/ work[i]["harvest"] = "running" /\ (lookups[i] < Lookups => ~MayStart(i, "output"))

\* A DAG that waits for its end has somebody to wait for.
PendingRunsGoOn ==
    \A d \in Dags :
        future[d] = "pending" /\ step[d] # "lost" /\ workers > 0 /\ ~Starved =>
            \/ WorkerGoesOn
            \/ \E e \in Dags : RunGoesOn(e)
            \/ \E i \in Items : ItemGoesOn(i)

-----------------------------------------------------------------------------
LEMMA AwaitItemStep ==
    ASSUME RunsIInv, AwaitInv, NEW i \in Items, UNCHANGED <<runs, mode>>,
           \A k \in Items \ {i} : work'[k] = work[k] /\ eval'[k] = eval[k],
           \A h \in {"goal", "eval", "output"} : work[i][h] # "no" => work'[i][h] # "no",
           AwaitsItsNode(i)', HandlersFit(i)'
    PROVE  AwaitInv'
<1>1. UNCHANGED <<queue, future, step, node, mode>>
  BY DEF runs
<1>2. Active' = Active
  BY <1>1 DEF Active
<1>3. ASSUME NEW d \in Dags
      PROVE  FutureFits(d)' /\ RunIsPublished(d)'
  <2>1. At(d)' = At(d) /\ At(d) \in Items
    BY <1>1, DagTypes DEF At
  <2>2. \A h \in {"goal", "eval", "output"} : work[At(d)][h] # "no" => work'[At(d)][h] # "no"
    BY <2>1
  <2>3. RunIsPublished(d)'
    BY <1>1, <2>1, <2>2 DEF AwaitInv, RunIsPublished
  <2>4. FutureFits(d)'
    BY <1>1 DEF AwaitInv, FutureFits
  <2>5. QED
    BY <2>3, <2>4
<1>4. ASSUME NEW k \in Items \ {i}
      PROVE  AwaitsItsNode(k)' /\ HandlersFit(k)'
  BY <1>1 DEF AwaitInv, AwaitsItsNode, HandlersFit, At
<1>5. QED
  BY <1>2, <1>3, <1>4 DEF AwaitInv

\* A handler or an evaluation takes a step.
LEMMA ItemStepAwaits ==
    ASSUME RunsIInv, AwaitInv, NEW i \in Items, ItemStep(i)
    PROVE  AwaitInv'
<1>1. RunsTypeOK /\ Founded(i) /\ AwaitsItsNode(i) /\ HandlersFit(i) /\ i[1] \in Dags
  BY ItemTypes DEF AwaitInv
<1>2. {"goal", "eval", "output", "police", "harvest"} = Handlers
  BY ItemTypes
<1>3. /\ mode \in {"gate", "observe"} /\ i \in DOMAIN eval
      /\ "running" \in WorkStates /\ "done" \in WorkStates
  BY <1>1 DEF RunsTypeOK, WorkStates
<1>4. ASSUME UNCHANGED <<step, node>>
      PROVE  At(i[1])' = At(i[1])
  BY <1>4 DEF At
<1>5. CASE HandleCompleted(i)
  <2> DEFINE to == IF mode = "gate" THEN "running" ELSE "done"
  <2>1. /\ work[i]["eval"] = "waiting" /\ Become(i, "eval", to)
        /\ eval' = [eval EXCEPT ![i] = IF mode = "gate" THEN "scoring" ELSE "queued"]
        /\ UNCHANGED <<runs, mode>>
    BY <1>5 DEF HandleCompleted, MayStart
  <2>2. to \in WorkStates
    BY <1>3
  <2>3. /\ work'[i]["eval"] = to /\ \A g \in Handlers \ {"eval"} : work'[i][g] = work[i][g]
        /\ \A k \in Items \ {i} : work'[k] = work[k]
    BY <1>1, <1>2, <2>1, <2>2, BecomeWork
  <2>4. /\ eval'[i] = IF mode = "gate" THEN "scoring" ELSE "queued"
        /\ \A k \in Items \ {i} : eval'[k] = eval[k]
    BY <1>3, <2>1
  <2>5. AwaitsItsNode(i)'
    BY <1>1, <1>2, <1>4, <2>1, <2>3 DEF AwaitsItsNode, runs
  <2>6. HandlersFit(i)'
    BY <1>1, <1>2, <2>1, <2>3, <2>4 DEF HandlersFit
  <2>7. \A h \in {"goal", "eval", "output"} : work[i][h] # "no" => work'[i][h] # "no"
    BY <1>2, <2>3
  <2>8. QED
    BY <2>1, <2>3, <2>4, <2>5, <2>6, <2>7, AwaitItemStep
<1>6. CASE Observe(i)
  <2>1. eval[i] = "queued" /\ eval' = [eval EXCEPT ![i] = "scoring"] /\ UNCHANGED <<work, runs, mode>>
    BY <1>6 DEF Observe, localBus
  <2>2. AwaitsItsNode(i)' /\ HandlersFit(i)'
    BY <1>1, <1>3, <1>4, <2>1 DEF AwaitsItsNode, HandlersFit, runs
  <2>3. QED
    BY <2>1, <2>2, AwaitItemStep
<1>7. CASE Score(i)
  <2>1. /\ eval[i] = "scoring" /\ eval' = [eval EXCEPT ![i] = "publishing"]
        /\ work' = Published(i, "evaluated") /\ UNCHANGED <<runs, mode>>
    BY <1>7 DEF Score
  <2>2. /\ \A h \in Handlers : work'[i][h] = IF TypeOf[h] = "evaluated" THEN "waiting" ELSE work[i][h]
        /\ \A k \in Items \ {i} : work'[k] = work[k]
    BY <1>1, <2>1, PublishedWork
  <2>3. /\ \A h \in {"goal", "eval", "output"} : work'[i][h] = work[i][h]
        /\ \A h \in {"police", "harvest"} : work'[i][h] = "waiting"
    BY <2>2, HandlersAndTypes
  <2>4. AwaitsItsNode(i)' /\ HandlersFit(i)'
    BY <1>1, <1>3, <1>4, <2>1, <2>3 DEF AwaitsItsNode, HandlersFit, runs
  <2>5. QED
    BY <2>1, <2>2, <2>3, <2>4, AwaitItemStep
<1>8. CASE Evaluated(i) \/ EvalRaises(i)
  <2>1. /\ eval' = [eval EXCEPT ![i] = "done"] /\ UNCHANGED <<runs, mode>>
        /\ mode = "gate" => Become(i, "eval", "done")
        /\ mode # "gate" => UNCHANGED work
    BY <1>8 DEF Evaluated, EvalRaises, EvalEnds
  <2>2. /\ mode = "gate" => work'[i]["eval"] = "done"
        /\ mode # "gate" => work'[i]["eval"] = work[i]["eval"]
        /\ \A g \in Handlers \ {"eval"} : work'[i][g] = work[i][g]
        /\ \A k \in Items \ {i} : work'[k] = work[k]
    BY <1>1, <1>2, <1>3, <2>1, BecomeWork
  <2>3. AwaitsItsNode(i)'
    BY <1>1, <1>2, <1>4, <2>1, <2>2 DEF AwaitsItsNode, runs
  <2>4. HandlersFit(i)'
    BY <1>1, <1>2, <1>3, <2>1, <2>2 DEF HandlersFit
  <2>5. \A h \in {"goal", "eval", "output"} : work[i][h] # "no" => work'[i][h] # "no"
    BY <1>2, <2>2
  <2>6. QED
    BY <2>1, <2>2, <2>3, <2>4, <2>5, AwaitItemStep
<1>9. ASSUME NEW h \in {"goal", "output", "police", "harvest"}, NEW to \in {"running", "done"},
             Become(i, h, to) \/ UNCHANGED work, UNCHANGED <<runs, mode, eval>>,
             to = "running" => h = "harvest"
      PROVE  AwaitInv'
  <2>1. /\ work'[i][h] \in {to, work[i][h]} /\ \A g \in Handlers \ {h} : work'[i][g] = work[i][g]
        /\ \A k \in Items \ {i} : work'[k] = work[k]
    BY <1>1, <1>2, <1>3, <1>9, BecomeWork
  <2>2. \A g \in Handlers : \/ work'[i][g] \in {work[i][g], "done"}
                            \/ g = "harvest" /\ work'[i][g] = "running"
    BY <1>9, <2>1
  <2>3. AwaitsItsNode(i)'
    BY <1>1, <1>2, <1>4, <1>9, <2>2 DEF AwaitsItsNode, runs
  <2>4. HandlersFit(i)'
    BY <1>1, <1>2, <1>9, <2>2 DEF HandlersFit
  <2>5. \A g \in {"goal", "eval", "output"} : work[i][g] # "no" => work'[i][g] # "no"
    BY <1>2, <2>2
  <2>6. QED
    BY <1>9, <2>1, <2>3, <2>4, <2>5, AwaitItemStep
<1>10. CASE Record(i)
  BY <1>9, <1>10 DEF Record, evals
<1>11. CASE Trigger(i)
  BY <1>9, <1>11 DEF Trigger, evals
<1>12. CASE Lookup(i)
  BY <1>9, <1>12 DEF Lookup, HarvestEnds, evals
<1>13. CASE \E h \in {"goal", "output"} : Correlate(i, h)
  BY <1>9, <1>13 DEF Correlate, evals
<1>14. QED
  BY <1>5, <1>6, <1>7, <1>8, <1>10, <1>11, <1>12, <1>13 DEF ItemStep
\* A step of the run of one DAG.
LEMMA AwaitRunStep ==
    ASSUME RunsIInv, AwaitInv, NEW d \in Dags, step[d] \in {"next", "starting", "completing"},
           NEW to \in {"next", "starting", "completing", "done"}, Proceed(d, to),
           UNCHANGED <<queue, mode, eval>>, \A e \in Dags \ {d} : node'[e] = node[e],
           future' = IF to = "done" THEN [future EXCEPT ![d] = "resolved"] ELSE future,
           \A i \in Items : i[1] # d => work'[i] = work[i],
           RunIsPublished(d)',
           \A i \in Items : i[1] = d => AwaitsItsNode(i)' /\ HandlersFit(i)'
    PROVE  AwaitInv'
<1>1. /\ step'[d] = to /\ \A e \in Dags \ {d} : step'[e] = step[e] /\ At(e)' = At(e)
      /\ \A e \in Dags \ {d} : future'[e] = future[e]
      /\ future'[d] = IF to = "done" THEN "resolved" ELSE future[d]
  BY DEF RunsIInv, RunsTypeOK, Proceed, At
<1>2. IsFiniteSet(Active')
  <2>1. Active' \subseteq Active
    BY <1>1 DEF Active
  <2>2. QED
    BY <2>1, FS_Subset DEF AwaitInv
<1>3. ASSUME NEW e \in Dags
      PROVE  FutureFits(e)'
  <2>1. FutureFits(e) /\ FutureFits(d)
    BY DEF AwaitInv
  <2>2. QED
    BY <1>1, <2>1 DEF FutureFits
<1>4. ASSUME NEW e \in Dags \ {d}
      PROVE  RunIsPublished(e)'
  <2>1. At(e) \in Items /\ At(e)[1] = e
    BY DagTypes
  <2>2. QED
    BY <1>1, <2>1 DEF AwaitInv, RunIsPublished
<1>5. ASSUME NEW i \in Items, i[1] # d
      PROVE  AwaitsItsNode(i)' /\ HandlersFit(i)'
  <2>1. i[1] \in Dags \ {d}
    BY <1>5, ItemsArePairs
  <2>2. QED
    BY <1>1, <1>5, <2>1 DEF AwaitInv, AwaitsItsNode, HandlersFit
<1>6. QED
  BY <1>2, <1>3, <1>4, <1>5 DEF AwaitInv

\* What a run no longer waits for has been delivered.
LEMMA NothingAwaited ==
    ASSUME RunsIInv, AwaitInv, NEW d \in Dags, NEW i \in Items, i[1] = d,
           \/ step[d] = "next"
           \/ step[d] = "starting" /\ Delivered(At(d), "started")
           \/ step[d] = "completing" /\ Delivered(At(d), "completed")
    PROVE  \A h \in {"goal", "eval", "output"} : work[i][h] \notin {"waiting", "running"}
<1>1. AwaitsItsNode(i)
  BY DEF AwaitInv
<1>2. step[d] = "starting" => work[At(d)]["goal"] = "done"
  BY HandlersAndTypes DEF Delivered
<1>3. step[d] = "completing" => work[At(d)]["eval"] = "done" /\ work[At(d)]["output"] = "done"
  BY HandlersAndTypes DEF Delivered
<1>4. QED
  BY <1>1, <1>2, <1>3 DEF AwaitsItsNode

LEMMA RunStepAwaits ==
    ASSUME RunsIInv, AwaitInv, NEW d \in Dags, RunStep(d)
    PROVE  AwaitInv'
<1>1. /\ RunsTypeOK /\ At(d) \in Items /\ At(d)[1] = d /\ node[d] \in Nat
      /\ {"goal", "eval", "output", "police", "harvest"} = Handlers
  BY DagTypes
<1>2. \A i \in Items : HandlersFit(i)
  BY DEF AwaitInv
\* The run ends, or goes on to its next node.
<1>3. ASSUME NEW to \in {"next", "done"}, Proceed(d, to),
             step[d] \in {"next", "starting", "completing"},
             \A i \in Items : i[1] = d =>
                 \A h \in {"goal", "eval", "output"} : work[i][h] \notin {"waiting", "running"},
             UNCHANGED <<queue, mode, eval, work>>, \A e \in Dags \ {d} : node'[e] = node[e],
             future' = IF to = "done" THEN [future EXCEPT ![d] = "resolved"] ELSE future
      PROVE  AwaitInv'
  <2>1. step'[d] = to
    BY <1>1, <1>3 DEF Proceed, RunsTypeOK
  <2>2. RunIsPublished(d)'
    BY <2>1 DEF RunIsPublished
  <2>3. \A i \in Items : i[1] = d => AwaitsItsNode(i)' /\ HandlersFit(i)'
    BY <1>2, <1>3 DEF AwaitsItsNode, HandlersFit
  <2>4. QED
    BY <1>3, <2>2, <2>3, AwaitRunStep
<1>4. CASE StartNode(d)
  <2>1. step[d] = "next" /\ UNCHANGED <<queue, mode, eval, node>>
    BY <1>4 DEF StartNode, evals
  <2>2. \A i \in Items : i[1] = d =>
          \A h \in {"goal", "eval", "output"} : work[i][h] \notin {"waiting", "running"}
    BY <2>1, NothingAwaited
  <2>3. CASE halted
    <3>1. Proceed(d, "done") /\ future' = [future EXCEPT ![d] = "resolved"] /\ UNCHANGED work
      BY <1>4, <2>3 DEF StartNode, Finish
    <3>2. QED
      BY <1>3, <2>1, <2>2, <3>1
  <2>4. CASE ~halted
    <3>1. Proceed(d, "starting") /\ UNCHANGED future /\ work' = Published(At(d), "started")
      BY <1>4, <2>4 DEF StartNode
    <3>2. /\ \A h \in Handlers : work'[At(d)][h] = IF TypeOf[h] = "started" THEN "waiting"
                                                  ELSE work[At(d)][h]
          /\ \A k \in Items \ {At(d)} : work'[k] = work[k]
      BY <1>1, <3>1, PublishedWork
    <3>3. /\ work'[At(d)]["goal"] = "waiting"
          /\ \A h \in Handlers \ {"goal"} : work'[At(d)][h] = work[At(d)][h]
      BY <1>1, <3>2, HandlersAndTypes
    <3>4. step'[d] = "starting" /\ At(d)' = At(d)
      BY <1>1, <2>1, <3>1 DEF Proceed, RunsTypeOK, At
    <3>5. RunIsPublished(d)'
      BY <3>3, <3>4 DEF RunIsPublished
    <3>6. ASSUME NEW i \in Items, i[1] = d
          PROVE  AwaitsItsNode(i)' /\ HandlersFit(i)'
      <4>1. /\ work'[i]["goal"] \in {"waiting", "running"} => i = At(d)
            /\ work'[i]["goal"] # "running"
            /\ \A h \in {"eval", "output"} : work'[i][h] \notin {"waiting", "running"}
        BY <1>1, <1>2, <2>2, <3>2, <3>3, <3>6 DEF HandlersFit
      <4>2. AwaitsItsNode(i)'
        BY <3>4, <3>6, <4>1 DEF AwaitsItsNode
      <4>3. \A h \in Handlers \ {"goal"} : work'[i][h] = work[i][h]
        BY <3>2, <3>3
      <4>4. HandlersFit(i)'
        BY <1>1, <1>2, <2>1, <4>1, <4>3 DEF HandlersFit
      <4>5. QED
        BY <4>2, <4>4
    <3>7. \A i \in Items : i[1] # d => work'[i] = work[i]
      BY <1>1, <3>2
    <3>8. QED
      BY <2>1, <3>1, <3>5, <3>6, <3>7, AwaitRunStep
  <2>5. QED
    BY <2>3, <2>4
<1>5. CASE CompleteNode(d)
  <2>1. /\ step[d] = "starting" /\ Delivered(At(d), "started") /\ Proceed(d, "completing")
        /\ work' = Published(At(d), "completed") /\ UNCHANGED <<queue, future, mode, eval, node>>
    BY <1>5 DEF CompleteNode, evals
  <2>2. \A i \in Items : i[1] = d =>
          \A h \in {"goal", "eval", "output"} : work[i][h] \notin {"waiting", "running"}
    BY <2>1, NothingAwaited
  <2>3. /\ \A h \in Handlers : work'[At(d)][h] = IF TypeOf[h] = "completed" THEN "waiting"
                                                ELSE work[At(d)][h]
        /\ \A k \in Items \ {At(d)} : work'[k] = work[k]
    BY <1>1, <2>1, PublishedWork
  <2>4. /\ work'[At(d)]["eval"] = "waiting" /\ work'[At(d)]["output"] = "waiting"
        /\ \A h \in Handlers \ {"eval", "output"} : work'[At(d)][h] = work[At(d)][h]
    BY <1>1, <2>3, HandlersAndTypes
  <2>5. step'[d] = "completing" /\ At(d)' = At(d)
    BY <1>1, <2>1 DEF Proceed, RunsTypeOK, At
  <2>6. RunIsPublished(d)'
    BY <2>4, <2>5 DEF RunIsPublished
  <2>7. ASSUME NEW i \in Items, i[1] = d
        PROVE  AwaitsItsNode(i)' /\ HandlersFit(i)'
    <3>1. /\ \A h \in {"eval", "output"} : work'[i][h] \in {"waiting", "running"} => i = At(d)
          /\ \A h \in {"eval", "output"} : work'[i][h] # "running"
          /\ work'[i]["goal"] \notin {"waiting", "running"}
      BY <1>1, <2>2, <2>3, <2>4, <2>7
    <3>2. AwaitsItsNode(i)'
      BY <2>5, <2>7, <3>1 DEF AwaitsItsNode
    <3>3. \A h \in Handlers \ {"eval", "output"} : work'[i][h] = work[i][h]
      BY <2>3, <2>4
    <3>4. HandlersFit(i)'
      BY <1>1, <1>2, <2>1, <3>1, <3>3 DEF HandlersFit
    <3>5. QED
      BY <3>2, <3>4
  <2>8. \A i \in Items : i[1] # d => work'[i] = work[i]
    BY <1>1, <2>3
  <2>9. QED
    BY <2>1, <2>6, <2>7, <2>8, AwaitRunStep
<1>6. CASE FailNode(d)
  <2>1. /\ step[d] = "starting" /\ Delivered(At(d), "started") /\ Proceed(d, "done")
        /\ future' = [future EXCEPT ![d] = "resolved"]
        /\ UNCHANGED <<queue, mode, eval, work, node>>
    BY <1>6 DEF FailNode, Finish, evals, localBus
  <2>2. QED
    BY <1>3, <2>1, NothingAwaited
<1>7. CASE LeaveNode(d)
  <2>1. /\ step[d] = "completing" /\ Delivered(At(d), "completed")
        /\ UNCHANGED <<queue, mode, eval, work>>
    BY <1>7 DEF LeaveNode, evals, localBus
  <2>2. \A i \in Items : i[1] = d =>
          \A h \in {"goal", "eval", "output"} : work[i][h] \notin {"waiting", "running"}
    BY <2>1, NothingAwaited
  <2>3. CASE node[d] = Length[d]
    <3>1. Proceed(d, "done") /\ future' = [future EXCEPT ![d] = "resolved"] /\ UNCHANGED node
      BY <1>7, <2>3 DEF LeaveNode, Finish
    <3>2. QED
      BY <1>3, <2>1, <2>2, <3>1
  <2>4. CASE node[d] # Length[d]
    <3>1. Proceed(d, "next") /\ UNCHANGED future /\ node' = [node EXCEPT ![d] = node[d] + 1]
      BY <1>7, <2>4 DEF LeaveNode
    <3>2. \A e \in Dags \ {d} : node'[e] = node[e]
      BY <1>1, <3>1 DEF RunsTypeOK
    <3>3. QED
      BY <1>3, <2>1, <2>2, <3>1, <3>2
  <2>5. QED
    BY <2>3, <2>4
<1>8. QED
  BY <1>4, <1>5, <1>6, <1>7 DEF RunStep
\* Workers and their queue.
LEMMA WorkerStepAwaits ==
    ASSUME RunsIInv, AwaitInv,
           StartWorkers \/ StopWorkers \/ Take \/ \E d \in Dags : Submit(d)
    PROVE  AwaitInv'
<1>1. /\ queue \in Seq(Dags) /\ QueueIsNew /\ mode \in {"gate", "observe"}
      /\ future \in [Dags -> {"none", "pending", "resolved"}]
      /\ step \in [Dags -> {"new", "next", "starting", "completing", "done", "lost"}]
      /\ \A i \in Items : i[1] \in Dags
  BY ItemsArePairs DEF RunsIInv, RunsTypeOK
<1>2. CASE StartWorkers
  BY <1>2 DEF StartWorkers, evals, localBus, AwaitInv, FutureFits, RunIsPublished, AwaitsItsNode,
              HandlersFit, Active, At
<1>3. ASSUME NEW d \in Dags, Submit(d)
      PROVE  AwaitInv'
  <2>1. /\ step[d] = "new" /\ queue' = Append(queue, d)
        /\ future' = [future EXCEPT ![d] = "pending"]
        /\ UNCHANGED <<work, step, node, mode, eval>>
    BY <1>3 DEF Submit, evals, localBus
  <2>2. /\ Len(queue) + 1 \in DOMAIN queue' /\ queue'[Len(queue) + 1] = d
        /\ \A j \in DOMAIN queue : j \in DOMAIN queue' /\ queue'[j] = queue[j]
    BY <1>1, <2>1
  <2>3. ASSUME NEW e \in Dags
        PROVE  FutureFits(e)'
    <3>1. future'[e] = IF e = d THEN "pending" ELSE future[e]
      BY <1>1, <2>1
    <3>2. QED
      BY <2>1, <2>2, <3>1 DEF AwaitInv, FutureFits
  <2>4. QED
    BY <2>1, <2>3 DEF AwaitInv, RunIsPublished, AwaitsItsNode, HandlersFit, Active, At
<1>4. CASE Take
  <2> DEFINE d == Head(queue)
  <2>1. /\ queue # <<>> /\ queue' = Tail(queue) /\ step' = [step EXCEPT ![d] = "next"]
        /\ UNCHANGED <<work, future, node, mode, eval>>
    BY <1>4 DEF Take, Proceed, evals, localBus
  <2>2. 1 \in DOMAIN queue /\ queue[1] = d /\ d \in Dags /\ step[d] = "new" /\ future[d] # "none"
    BY <1>1, <2>1 DEF QueueIsNew
  <2>3. \A j \in DOMAIN queue : j # 1 => j - 1 \in DOMAIN queue' /\ queue'[j - 1] = queue[j]
    BY <1>1, <2>1
  <2> HIDE DEF d
  <2>4. step'[d] = "next" /\ \A e \in Dags \ {d} : step'[e] = step[e]
    BY <1>1, <2>1, <2>2
  <2>5. IsFiniteSet(Active')
    <3>1. Active' \subseteq Active \union {d}
      BY <2>4 DEF Active
    <3>2. IsFiniteSet(Active \union {d})
      BY FS_AddElement DEF AwaitInv
    <3>3. QED
      BY <3>1, <3>2, FS_Subset
  <2>6. ASSUME NEW e \in Dags
        PROVE  FutureFits(e)'
    <3>1. FutureFits(e) /\ future'[e] = future[e]
      BY <2>1 DEF AwaitInv
    <3>2. CASE e = d
      BY <2>2, <2>4, <3>1, <3>2 DEF FutureFits
    <3>3. CASE e # d
      <4>1. step'[e] = step[e]
        BY <2>4, <3>3
      <4>2. future[e] = "pending" /\ step[e] = "new" => \E j \in DOMAIN queue' : queue'[j] = e
        BY <2>2, <2>3, <3>1, <3>3 DEF FutureFits
      <4>3. QED
        BY <3>1, <4>1, <4>2 DEF FutureFits
    <3>4. QED
      BY <3>2, <3>3
  <2>7. ASSUME NEW e \in Dags
        PROVE  RunIsPublished(e)'
    BY <2>1, <2>4 DEF AwaitInv, RunIsPublished, At
  <2>8. ASSUME NEW i \in Items
        PROVE  AwaitsItsNode(i)' /\ HandlersFit(i)'
    <3>1. AwaitsItsNode(i) /\ HandlersFit(i)
      BY DEF AwaitInv
    <3>2. HandlersFit(i)'
      BY <2>1, <3>1 DEF HandlersFit
    <3>3. AwaitsItsNode(i)'
      <4>1. step[i[1]] \in {"starting", "completing"} => step'[i[1]] = step[i[1]]
        BY <1>1, <2>2, <2>4
      <4>2. QED
        BY <2>1, <3>1, <4>1 DEF AwaitsItsNode, At
    <3>4. QED
      BY <3>2, <3>3
  <2>9. QED
    BY <2>5, <2>6, <2>7, <2>8 DEF AwaitInv
<1>5. CASE StopWorkers
  <2> DEFINE Lost(i, h) == /\ i[1] \in Active /\ (TypeOf[h] # "evaluated" \/ mode = "gate")
                           /\ work[i][h] \in {"waiting", "running"}
  <2>1. /\ UNCHANGED <<queue, future, node, mode>>
        /\ step' = [d \in Dags |-> IF d \in Active THEN "lost" ELSE step[d]]
        /\ work' = [i \in Items |-> [h \in Handlers |-> IF Lost(i, h) THEN "no" ELSE work[i][h]]]
        /\ eval' = [i \in Items |-> IF i[1] \in Active /\ mode = "gate" /\ eval[i] # "no"
                                    THEN "done" ELSE eval[i]]
    BY <1>5 DEF StopWorkers
  <2>2. Active' = {}
    BY <2>1 DEF Active
  <2>3. \A e \in Dags : step'[e] = IF e \in Active THEN "lost" ELSE step[e]
    BY <2>1
  <2>4. \A e \in Dags : step'[e] \notin {"starting", "completing"}
    BY <1>1, <2>3 DEF Active
  <2>5. ASSUME NEW e \in Dags
        PROVE  FutureFits(e)' /\ RunIsPublished(e)'
    <3>1. FutureFits(e)
      BY DEF AwaitInv
    <3>2. FutureFits(e)'
      BY <2>1, <2>3, <3>1 DEF FutureFits, Active
    <3>3. QED
      BY <2>4, <3>2 DEF RunIsPublished
  <2>6. ASSUME NEW i \in Items
        PROVE  AwaitsItsNode(i)' /\ HandlersFit(i)'
    <3>1. AwaitsItsNode(i) /\ HandlersFit(i) /\ i[1] \in Dags
      BY <1>1 DEF AwaitInv
    <3>2. \A h \in Handlers : work'[i][h] = IF Lost(i, h) THEN "no" ELSE work[i][h]
      BY <2>1
    <3>3. \A h \in {"goal", "eval", "output"} : h \in Handlers /\ TypeOf[h] # "evaluated"
      BY HandlersAndTypes
    <3>4. {"police", "harvest"} \subseteq Handlers
      BY HandlersAndTypes
    <3>5. ASSUME NEW h \in {"goal", "eval", "output"}
          PROVE  work'[i][h] \notin {"waiting", "running"}
      <4>1. work[i][h] \in {"waiting", "running"} => i[1] \in Active
        BY <3>1 DEF AwaitsItsNode, Active
      <4>2. QED
        BY <3>2, <3>3, <4>1
    <3>6. AwaitsItsNode(i)'
      BY <3>5 DEF AwaitsItsNode
    <3>7. HandlersFit(i)'
      <4>1. work'[i]["police"] # "running"
        BY <3>1, <3>2, <3>4 DEF HandlersFit
      <4>2. eval'[i] = "publishing" => eval[i] = "publishing" /\ ~(i[1] \in Active /\ mode = "gate")
        BY <2>1
      <4>3. eval'[i] = "publishing" => work'[i]["police"] # "no" /\ work'[i]["harvest"] # "no"
        <5>1. ~(i[1] \in Active /\ mode = "gate") => ~Lost(i, "police") /\ ~Lost(i, "harvest")
          BY HandlersAndTypes
        <5>2. QED
          BY <3>1, <3>2, <3>4, <4>2, <5>1 DEF HandlersFit
      <4>4. QED
        BY <3>5, <4>1, <4>3 DEF HandlersFit
    <3>8. QED
      BY <3>6, <3>7
  <2>7. QED
    BY <2>2, <2>5, <2>6, FS_EmptySet DEF AwaitInv
<1>6. QED
  BY <1>2, <1>3, <1>4, <1>5

LEMMA AwaitHolds == RunsSpec => []AwaitInv
<1>1. RunsInit => AwaitInv
  <2> SUFFICES ASSUME RunsInit
               PROVE  AwaitInv
    OBVIOUS
  <2>1. Active = {}
    BY DEF RunsInit, Active
  <2>2. \A d \in Dags : FutureFits(d) /\ RunIsPublished(d)
    BY DEF RunsInit, FutureFits, RunIsPublished
  <2>3. ASSUME NEW i \in Items
        PROVE  AwaitsItsNode(i) /\ HandlersFit(i)
    BY HandlersAndTypes DEF RunsInit, BusInit, AwaitsItsNode, HandlersFit
  <2>4. QED
    BY <2>1, <2>2, <2>3, FS_EmptySet DEF AwaitInv
<1>2. RunsIInv /\ AwaitInv /\ [RunsNext]_runsVars => AwaitInv'
  <2> SUFFICES ASSUME RunsIInv, AwaitInv, [RunsNext]_runsVars
               PROVE  AwaitInv'
    OBVIOUS
  <2>1. CASE UNCHANGED runsVars
    BY <2>1 DEF runsVars, localBus, runs, evals, AwaitInv, FutureFits, RunIsPublished,
                AwaitsItsNode, HandlersFit, Active, At
  <2>2. CASE RunsNext
    BY <2>2, WorkerStepAwaits, RunStepAwaits, ItemStepAwaits DEF RunsNext
  <2>3. QED
    BY <2>1, <2>2
<1>3. QED
  BY <1>1, <1>2, RunsInvariance, PTL DEF RunsSpec

-----------------------------------------------------------------------------
\* If nobody can go on and the permits are out, the gates that publish have
\* them all, one for a run each.
LEMMA OnlyGatesKeepPermits ==
    ASSUME RunsIInv, AwaitInv, bus = "async", \A i \in Items : ~ItemGoesOn(i), ~Starved
    PROVE  Cardinality(Running) < permits
<1> DEFINE E == {i \in Items : work[i]["eval"] = "running" /\ eval[i] = "publishing"}
<1>1. /\ IsFiniteSet(Running) /\ Cardinality(Running) <= permits
      /\ permits \in Nat /\ Cardinality(Running) \in Nat
  BY FS_CardinalityType DEF RunsIInv, PermitsHold, RunsTypeOK
<1> SUFFICES ASSUME Cardinality(Running) = permits
             PROVE  FALSE
  BY <1>1
<1>2. ASSUME NEW i \in Items, NEW h \in Handlers, work[i][h] = "running"
      PROVE  h = "eval" /\ i \in E
  <2>1. HandlersFit(i) /\ ~ItemGoesOn(i) /\ h \in {"goal", "eval", "output", "police", "harvest"}
    BY HandlersAndTypes DEF AwaitInv
  <2>2. h # "harvest"
    <3>1. h = "harvest" => MayStart(i, "output")
      BY <1>2, <2>1 DEF ItemGoesOn
    <3>2. "output" \in Handlers
      BY HandlersAndTypes
    <3>3. QED
      BY <2>1, <3>1, <3>2 DEF ItemGoesOn
  <2>3. h = "eval"
    BY <1>2, <2>1, <2>2 DEF HandlersFit
  <2>4. eval[i] = "publishing"
    BY <1>2, <2>1, <2>3 DEF HandlersFit, ItemGoesOn
  <2>5. QED
    BY <1>2, <2>3, <2>4
<1>3. Cardinality(E) = Cardinality(Running) /\ IsFiniteSet(E)
  <2> DEFINE f == [w \in Running |-> w[1]]
  <2>1. \A w \in Running : w \in Items \X Handlers /\ w = <<w[1], "eval">> /\ w[1] \in E
    BY <1>2 DEF Running
  <2>2. \A i \in E : <<i, "eval">> \in Running
    BY HandlersAndTypes DEF Running
  <2> HIDE DEF E
  <2>3. f \in [Running -> E] /\ DOMAIN f = Running
    BY <2>1
  <2>4. \A v, w \in Running : f[v] = f[w] => v = w
    BY <2>1
  <2>5. \A i \in E : \E w \in Running : f[w] = i
    BY <2>2
  <2>6. f \in Bijection(Running, E)
    BY <2>3, <2>4, <2>5 DEF Bijection, Injection, Surjection, IsInjective
  <2>7. QED
    BY <1>1, <2>6, FS_Bijection DEF ExistsBijection
<1>4. Cardinality(E) <= Cardinality(Active)
  <2> DEFINE g == [i \in E |-> i[1]]
  <2>1. ASSUME NEW i \in E
        PROVE  i[1] \in Active /\ i = At(i[1])
    <3>1. AwaitsItsNode(i) /\ i[1] \in Dags /\ work[i]["eval"] = "running"
      BY ItemsArePairs DEF AwaitInv
    <3>2. QED
      BY <3>1 DEF AwaitsItsNode, Active
  <2> HIDE DEF E
  <2>2. g \in [E -> Active] /\ \A i, k \in E : g[i] = g[k] => i = k
    BY <2>1
  <2>3. g \in Injection(E, Active)
    BY <2>2 DEF Injection, IsInjective
  <2>4. QED
    BY <2>3, FS_Injection DEF AwaitInv
<1>5. QED
  BY <1>3, <1>4 DEF Starved

\* Of a node whose handlers are not all done, one can start or go on.
LEMMA UndeliveredGoesOn ==
    ASSUME RunsIInv, AwaitInv, ~Starved, NEW i \in Items, NEW t \in {"started", "completed", "evaluated"},
           ~Delivered(i, t),
           t = "started" => work[i]["goal"] # "no",
           t = "completed" => work[i]["eval"] # "no" /\ work[i]["output"] # "no",
           t = "evaluated" => work[i]["police"] # "no" /\ work[i]["harvest"] # "no",
           work[i]["eval"] # "running" \/ t = "evaluated"
    PROVE  \E k \in Items : ItemGoesOn(k)
<1> SUFFICES ASSUME \A k \in Items : ~ItemGoesOn(k)
             PROVE  FALSE
  OBVIOUS
<1>1. /\ \A h \in Handlers : work[i][h] \in {"no", "waiting", "running", "done"}
      /\ bus \in {"memory", "async"} /\ HandlersFit(i)
  BY DEF RunsIInv, RunsTypeOK, AwaitInv
<1>2. /\ Handlers = {"goal", "eval", "output", "police", "harvest"}
      /\ TypeOf["goal"] = "started" /\ TypeOf["eval"] = "completed" /\ TypeOf["output"] = "completed"
      /\ TypeOf["police"] = "evaluated" /\ TypeOf["harvest"] = "evaluated"
  BY HandlersAndTypes
<1>3. \A h \in Handlers : ~MayStart(i, h)
  BY DEF ItemGoesOn
<1>4. work[i]["harvest"] # "running"
  BY <1>2, <1>3 DEF ItemGoesOn
<1>5. ASSUME NEW h \in Handlers, TypeOf[h] = t, work[i][h] # "done"
      PROVE  work[i][h] = "waiting"
  BY <1>1, <1>2, <1>4, <1>5 DEF HandlersFit
<1>6. PICK h \in Handlers : TypeOf[h] = t /\ work[i][h] = "waiting"
  BY <1>5 DEF Delivered
<1>7. CASE bus = "async"
  BY <1>3, <1>6, <1>7, OnlyGatesKeepPermits DEF MayStart
<1>8. CASE bus = "memory"
  <2>1. /\ HandlersOf["started"] = <<"goal">> /\ HandlersOf["completed"] = <<"eval", "output">>
        /\ HandlersOf["evaluated"] = <<"police", "harvest">>
    BY RunsAssumption
  <2>2. /\ work[i]["goal"] # "waiting" /\ work[i]["eval"] # "waiting" /\ work[i]["police"] # "waiting"
    BY <1>2, <1>3, <1>8, <2>1 DEF MayStart
  <2>3. work[i]["output"] = "waiting" => work[i]["eval"] # "done"
    BY <1>2, <1>3, <1>8, <2>1 DEF MayStart
  <2>4. work[i]["harvest"] = "waiting" => work[i]["police"] # "done"
    BY <1>2, <1>3, <1>8, <2>1 DEF MayStart
  <2>5. QED
    BY <1>2, <1>5, <1>6, <2>2, <2>3, <2>4
<1>9. QED
  BY <1>1, <1>7, <1>8

LEMMA PendingGoesOn == RunsIInv /\ AwaitInv => PendingRunsGoOn
<1> SUFFICES ASSUME RunsIInv, AwaitInv, NEW d \in Dags,
                    future[d] = "pending", step[d] # "lost", workers > 0, ~Starved,
                    \A e \in Dags : ~RunGoesOn(e), \A i \in Items : ~ItemGoesOn(i)
             PROVE  WorkerGoesOn
  BY DEF PendingRunsGoOn
<1>1. Active = {}
  <2> SUFFICES ASSUME NEW e \in Active
               PROVE  FALSE
    OBVIOUS
  <2>1. /\ e \in Dags /\ RunIsPublished(e) /\ At(e) \in Items /\ HandlersFit(At(e))
        /\ step[e] \in {"next", "starting", "completing"}
    BY DagTypes DEF Active, RunsIInv, RunsTypeOK, AwaitInv
  <2>2. CASE step[e] = "next"
    BY <2>1, <2>2 DEF RunGoesOn
  <2>3. CASE step[e] = "starting"
    <3>1. ~Delivered(At(e), "started") /\ work[At(e)]["goal"] # "no"
      BY <2>1, <2>3 DEF RunGoesOn, RunIsPublished
    <3>2. work[At(e)]["eval"] # "running"
      BY <2>1, <2>3 DEF AwaitInv, AwaitsItsNode, At
    <3>3. QED
      BY <2>1, <3>1, <3>2, UndeliveredGoesOn
  <2>4. CASE step[e] = "completing"
    <3>1. /\ ~Delivered(At(e), "completed")
          /\ work[At(e)]["eval"] # "no" /\ work[At(e)]["output"] # "no"
      BY <2>1, <2>4 DEF RunGoesOn, RunIsPublished
    <3>2. CASE work[At(e)]["eval"] # "running"
      BY <2>1, <3>1, <3>2, UndeliveredGoesOn
    <3>3. CASE work[At(e)]["eval"] = "running"
      <4>1. eval[At(e)] = "publishing" /\ ~Delivered(At(e), "evaluated")
        BY <2>1, <3>3 DEF HandlersFit, ItemGoesOn
      <4>2. work[At(e)]["police"] # "no" /\ work[At(e)]["harvest"] # "no"
        BY <2>1, <4>1 DEF HandlersFit
      <4>3. QED
        BY <2>1, <4>1, <4>2, UndeliveredGoesOn
    <3>4. QED
      BY <3>2, <3>3
  <2>5. QED
    BY <2>1, <2>2, <2>3, <2>4
<1>2. step[d] = "new"
  BY <1>1 DEF Active, AwaitInv, FutureFits
<1>3. queue # <<>>
  BY <1>2 DEF AwaitInv, FutureFits
<1>4. Cardinality(Active) = 0
  BY <1>1, FS_EmptySet
<1>5. QED
  BY <1>3, <1>4 DEF WorkerGoesOn

\* A future is pending exactly from submit_dag to the end of its run: whatever
\* is cancelled or raises, no submitted DAG is forgotten while it is queued,
\* and no future is resolved before its run is over
\* (distributed_dag_executor.py:60-119).
THEOREM FuturesFollowRuns == RunsSpec => [](\A d \in Dags : FutureFits(d))
<1>1. AwaitInv => \A d \in Dags : FutureFits(d)
  BY DEF AwaitInv
<1>2. QED
  BY <1>1, AwaitHolds, PTL

\* While a submitted DAG waits for its end and there are workers, a worker, a
\* run, a handler or an evaluation has a step to make, however many DAGs,
\* workers and permits there are, unless gate evaluations of as many runs as
\* the AsyncEventBus has permits hold them all and publish: that is the one
\* deadlock of publish(), _run_impl, _run_eval and _trigger_handler together.
THEOREM OnlyStarvationStops == RunsSpec => []PendingRunsGoOn
<1>1. RunsIInv /\ AwaitInv => PendingRunsGoOn
  BY PendingGoesOn
<1>2. QED
  BY <1>1, RunsInvariance, AwaitHolds, PTL
=============================================================================

-------------------------- MODULE StateMachine_proofs --------------------------
(***************************************************************************)
(* Proofs about StateMachine, for any callers, stores, transitions and     *)
(* bound.  The argument: what a connection reads (Load) only ever grows,   *)
(* as long as all callers have the same store object, so that a record     *)
(* whose version still matches is the one that the call started from.      *)
(***************************************************************************)
EXTENDS StateMachine, TLAPS

-----------------------------------------------------------------------------
(***************************************************************************)
(* The inductive invariant.                                                *)
(***************************************************************************)

\* Every record held anywhere is a legal run of the machine.
AllLegal ==
    /\ saved # None => Log!Legal(saved.history)
    /\ \A s \in Stores : dirty[s] # None => Log!Legal(dirty[s].history)
    /\ \A p \in Callers : Log!Legal(new[p].history)

\* What a call does with the store between its SELECT and its commit.
SavesAreExclusive ==
    /\ backend = "memory" =>
          /\ Shared
          /\ \A s \in Stores : dirty[s] = None
          /\ \A p \in Callers : pc[p] \notin {"insert", "commit"}
    /\ \A p \in Callers :
          /\ pc[p] \in {"insert", "commit"} => lock[storeOf[p]] = p
          /\ pc[p] = "commit" => dirty[storeOf[p]] = new[p]

\* A history, also of what is not stored yet.
HistoryOf(r) == IF r = None THEN <<>> ELSE r.history

\* h is one row longer than a part of g that it starts with, or empty.
FollowsOn(h, g) ==
    /\ Len(h) <= Len(g) + 1
    /\ \A i \in 1..Len(h) : i < Len(h) => g[i] = h[i]

\* With one store: open transactions extend what is committed, and each call
\* works on a record that follows on what it would read now.
ReadsGrow ==
    Shared =>
        \A p \in Callers :
              /\ dirty[storeOf[p]] # None =>
                    Log!Extends(dirty[storeOf[p]].history, Committed)
              /\ FollowsOn(new[p].history, HistoryOf(Load(storeOf[p])))
              /\ pc[p] = "insert" => Version(Load(storeOf[p])) = Expected(p)

IInv ==
    /\ TypeOK
    /\ AllLegal
    /\ SavesAreExclusive
    /\ ReadsGrow
    /\ ReturnedTransitionsStand

-----------------------------------------------------------------------------
(***************************************************************************)
(* Histories.                                                              *)
(***************************************************************************)

\* Extension is transitive.
LEMMA ExtendsTransitive ==
    ASSUME NEW f \in Seq(Rows), NEW g \in Seq(Rows), NEW h \in Seq(Rows),
           Log!Extends(f, g), Log!Extends(g, h)
    PROVE  Log!Extends(f, h)
BY DEF Log!Extends

\* What follows on a history also follows on every extension of it.
LEMMA FollowsOnExtension ==
    ASSUME NEW f \in Seq(Rows), NEW g \in Seq(Rows), NEW h \in Seq(Rows),
           FollowsOn(h, g), Log!Extends(f, g)
    PROVE  FollowsOn(h, f)
BY DEF FollowsOn, Log!Extends

\* A record that follows on what is stored, and has the version after it, is
\* an extension of it.
LEMMA MatchingVersionsExtend ==
    ASSUME NEW f \in Seq(Rows), NEW g \in Seq(Rows),
           FollowsOn(f, g),
           Len(g) = IF Len(f) = 0 THEN 0 ELSE Len(f) - 1
    PROVE  Log!Extends(f, g)
<1>1. Len(f) \in Nat /\ Len(g) \in Nat
    OBVIOUS
<1> QED
    BY <1>1 DEF FollowsOn, Log!Extends

\* A new record is legal and holds nothing but version 0 and no rows.
LEMMA CreatedIsARecord ==
    /\ Created \in FsmRecords
    /\ Log!Legal(Created.history)
    /\ \A g \in Seq(Rows) : FollowsOn(Created.history, g)
<1>1. Created \in Records
    BY DEF Created, Records, States
<1> QED
    BY <1>1 DEF Created, FsmRecords, Log!StateAfter, Log!Legal, FollowsOn

\* The record that fire() makes of a legal one is legal, and one row longer.
LEMMA AfterIsARecord ==
    ASSUME NEW r \in FsmRecords, NEW t \in Transitions, NEW p \in Callers,
           Log!Legal(r.history), Dispatch(r, t, p)
    PROVE  /\ After(r, t, p) \in FsmRecords
           /\ Log!Legal(After(r, t, p).history)
           /\ FollowsOn(After(r, t, p).history, r.history)
<1> DEFINE row == [step |-> t, actor |-> p]
           h == r.history
           a == Append(h, row)
<1>1. /\ row \in Rows /\ h \in Seq(Rows) /\ r.version = Len(h) /\ r.version \in Nat
      /\ r.current_state = Log!StateAfter(h)
    BY DEF Rows, FsmRecords, Records
<1>2. /\ a \in Seq(Rows) /\ Len(a) = Len(h) + 1
      /\ a[Len(h) + 1] = row
      /\ \A i \in 1..Len(h) : a[i] = h[i]
    BY <1>1
<1>3. After(r, t, p) \in FsmRecords
    <2>1. After(r, t, p) \in Records
        BY <1>1, <1>2 DEF After, Records, States
    <2>2. Log!StateAfter(a) = t.to
        BY <1>1, <1>2 DEF Log!StateAfter
    <2> QED
        BY <1>1, <1>2, <2>1, <2>2 DEF After, FsmRecords
<1>4. Log!Legal(a)
    <2> SUFFICES ASSUME NEW i \in 1..Len(a)
                 PROVE  /\ a[i].step \in Transitions
                        /\ a[i].step.from = Log!StateBefore(a, i)
                        /\ Log!StateBefore(a, i) \notin Terminal
                        /\ Log!MayTake(a[i].actor, a[i].step)
        BY DEF Log!Legal
    <2>1. CASE i \in 1..Len(h)
        <3>1. a[i] = h[i] /\ Log!StateBefore(a, i) = Log!StateBefore(h, i)
            BY <1>1, <1>2, <2>1 DEF Log!StateBefore
        <3> QED
            BY <2>1, <3>1 DEF Log!Legal
    <2>2. CASE i = Len(h) + 1
        <3>1. a[i].step = t /\ a[i].actor = p
            BY <1>2, <2>2
        <3>2. Log!StateBefore(a, i) = r.current_state
            <4>1. CASE h = <<>>
                BY <1>1, <2>2, <4>1 DEF Log!StateBefore, Log!StateAfter
            <4>2. CASE h # <<>>
                <5>1. Len(h) \in 1..Len(h) /\ i # 1 /\ i - 1 = Len(h)
                    BY <1>1, <2>2, <4>2
                <5> QED
                    BY <1>1, <1>2, <4>2, <5>1 DEF Log!StateBefore, Log!StateAfter
            <4> QED
                BY <4>1, <4>2
        <3> QED
            BY <3>1, <3>2 DEF Dispatch
    <2> QED
        BY <1>1, <1>2, <2>1, <2>2
<1>5. FollowsOn(a, h)
    BY <1>1, <1>2 DEF FollowsOn
<1> QED
    BY <1>3, <1>4, <1>5 DEF After

-----------------------------------------------------------------------------
(***************************************************************************)
(* Type correctness.                                                       *)
(***************************************************************************)

\* What a connection reads is a record or nothing.
LEMMA LoadIsARecord ==
    ASSUME TypeOK, NEW p \in Callers
    PROVE  /\ storeOf[p] \in Stores
           /\ Load(storeOf[p]) \in FsmRecords \cup {None}
BY StoreAssumption DEF TypeOK, Load

\* One step keeps the types: every record that a call makes fits together.
LEMMA TypeStep ==
    ASSUME TypeOK, AllLegal, [Next]_vars
    PROVE  TypeOK'
<1> USE DEF TypeOK
<1> USE CreatedIsARecord
<1>1. \A p \in Callers : storeOf[p] \in Stores
    BY StoreAssumption
<1>2. \A p \in Callers : Created \in FsmRecords /\ "idle" \in Steps
    BY DEF Steps
<1>3. \A p \in Callers : new[p].history \in Seq(Rows)
    BY DEF FsmRecords, Records
<1>4. ASSUME NEW p \in Callers, BeginCreate(p)
      PROVE  TypeOK'
    BY <1>4 DEF BeginCreate, Goto, Steps
<1>5. ASSUME NEW p \in Callers, NEW t \in Transitions, BeginFire(p, t)
      PROVE  TypeOK'
    <2> DEFINE r == Load(storeOf[p])
    <2>1. r \in FsmRecords /\ Log!Legal(r.history)
        BY <1>1, <1>5, LoadIsARecord DEF BeginFire, AllLegal, Load
    <2>2. After(r, t, p) \in FsmRecords
        BY <1>5, <2>1, AfterIsARecord DEF BeginFire
    <2> QED
        BY <1>5, <2>2 DEF BeginFire, Goto, Steps
<1>6. ASSUME NEW p \in Callers, GuardAllows(p) \/ HandlerDone(p)
      PROVE  TypeOK'
    BY <1>6 DEF GuardAllows, HandlerDone, Goto, Steps
<1>7. ASSUME NEW p \in Callers, Refuse(p) \/ CancelEarly(p) \/ Conflict(p)
      PROVE  TypeOK'
    BY <1>2, <1>7 DEF Refuse, CancelEarly, Conflict, End, Goto
<1>8. ASSUME NEW p \in Callers, SaveInMemory(p)
      PROVE  TypeOK'
    BY <1>2, <1>3, <1>8 DEF SaveInMemory, Return, End, Goto
<1>9. ASSUME NEW p \in Callers, Check(p)
      PROVE  TypeOK'
    BY <1>1, <1>9 DEF Check, Goto, Steps
<1>10. ASSUME NEW p \in Callers, Insert(p)
       PROVE  TypeOK'
    BY <1>1, <1>10 DEF Insert, Goto, Steps
<1>11. ASSUME NEW p \in Callers, Busy(p)
       PROVE  TypeOK'
    BY <1>1, <1>2, <1>11 DEF Busy, Unlock, End, Goto
<1>12. ASSUME NEW p \in Callers, Commit(p)
       PROVE  TypeOK'
    BY <1>1, <1>2, <1>3, <1>12 DEF Commit, Unlock, Return, End, Goto
<1>13. ASSUME NEW p \in Callers, CancelLate(p)
       PROVE  TypeOK'
    BY <1>1, <1>2, <1>13 DEF CancelLate, Unlock, End, Goto
<1>14. ASSUME NEW s \in Stores, Crash(s)
       PROVE  TypeOK'
    BY <1>2, <1>14 DEF Crash, Steps
<1>15. CASE UNCHANGED vars
    BY <1>15 DEF vars
<1> QED
    BY <1>4, <1>5, <1>6, <1>7, <1>8, <1>9, <1>10, <1>11, <1>12, <1>13, <1>14, <1>15
       DEF Next, Fire, Save, Proceed

\* One step keeps every record legal, whoever shares which store.
LEMMA LegalStep ==
    ASSUME TypeOK, AllLegal, [Next]_vars
    PROVE  AllLegal'
<1> USE DEF TypeOK, AllLegal
<1> USE CreatedIsARecord
<1>1. \A p \in Callers : storeOf[p] \in Stores
    BY StoreAssumption
<1>2. ASSUME NEW p \in Callers, BeginCreate(p)
      PROVE  AllLegal'
    BY <1>2 DEF BeginCreate
<1>3. ASSUME NEW p \in Callers, NEW t \in Transitions, BeginFire(p, t)
      PROVE  AllLegal'
    <2> DEFINE r == Load(storeOf[p])
    <2>1. r \in FsmRecords /\ Log!Legal(r.history)
        BY <1>1, <1>3, LoadIsARecord DEF BeginFire, Load
    <2>2. Log!Legal(After(r, t, p).history)
        BY <1>3, <2>1, AfterIsARecord DEF BeginFire
    <2> QED
        BY <1>3, <2>2 DEF BeginFire
<1>4. ASSUME NEW p \in Callers, GuardAllows(p) \/ HandlerDone(p) \/ Check(p)
      PROVE  AllLegal'
    BY <1>4 DEF GuardAllows, HandlerDone, Check
<1>5. ASSUME NEW p \in Callers,
             Refuse(p) \/ CancelEarly(p) \/ Conflict(p) \/ Busy(p)
      PROVE  AllLegal'
    BY <1>5 DEF Refuse, CancelEarly, Conflict, Busy, End
<1>6. ASSUME NEW p \in Callers, SaveInMemory(p)
      PROVE  AllLegal'
    BY <1>6 DEF SaveInMemory, End
<1>7. ASSUME NEW p \in Callers, Insert(p)
      PROVE  AllLegal'
    BY <1>1, <1>7 DEF Insert
<1>8. ASSUME NEW p \in Callers, Commit(p)
      PROVE  AllLegal'
    BY <1>1, <1>8 DEF Commit, End
<1>9. ASSUME NEW p \in Callers, CancelLate(p)
      PROVE  AllLegal'
    BY <1>1, <1>9 DEF CancelLate, End
<1>10. ASSUME NEW s \in Stores, Crash(s)
       PROVE  AllLegal'
    BY <1>10 DEF Crash
<1>11. CASE UNCHANGED vars
    BY <1>11 DEF vars
<1> QED
    BY <1>2, <1>3, <1>4, <1>5, <1>6, <1>7, <1>8, <1>9, <1>10, <1>11
       DEF Next, Fire, Save, Proceed

-----------------------------------------------------------------------------
(***************************************************************************)
(* Exclusive saves, and what a connection reads only grows.                *)
(***************************************************************************)

\* One step keeps saves exclusive: the lock of the store is held from the
\* SELECT to the commit.
LEMMA ExclusiveStep ==
    ASSUME TypeOK, SavesAreExclusive, [Next]_vars
    PROVE  SavesAreExclusive'
<1> USE DEF TypeOK, SavesAreExclusive
<1> USE CallerAssumption
<1>1. \A p \in Callers : storeOf[p] \in Stores
    BY StoreAssumption
<1>2. backend' = backend /\ storeOf' = storeOf /\ (Shared' <=> Shared)
    BY DEF Next, Fire, Save, Proceed, vars, Shared, BeginCreate, BeginFire,
           GuardAllows, HandlerDone, Refuse, SaveInMemory, Check, Conflict,
           Insert, Busy, Commit, CancelEarly, CancelLate, Crash
<1>3. ASSUME NEW p \in Callers, BeginCreate(p) \/ Fire(p)
      PROVE  SavesAreExclusive'
    BY <1>2, <1>3 DEF BeginCreate, Fire, BeginFire, Goto
<1>4. ASSUME NEW p \in Callers, GuardAllows(p) \/ HandlerDone(p)
      PROVE  SavesAreExclusive'
    BY <1>2, <1>4 DEF GuardAllows, HandlerDone, Goto
<1>5. ASSUME NEW p \in Callers, Refuse(p) \/ CancelEarly(p) \/ Conflict(p)
      PROVE  SavesAreExclusive'
    BY <1>2, <1>5 DEF Refuse, CancelEarly, Conflict, End, Goto
<1>6. ASSUME NEW p \in Callers, SaveInMemory(p)
      PROVE  SavesAreExclusive'
    BY <1>2, <1>6 DEF SaveInMemory, End, Goto
<1>7. ASSUME NEW p \in Callers, Check(p)
      PROVE  SavesAreExclusive'
    BY <1>1, <1>2, <1>7 DEF Check, Goto
<1>8. ASSUME NEW p \in Callers, Insert(p)
      PROVE  SavesAreExclusive'
    BY <1>1, <1>2, <1>8 DEF Insert, Goto
<1>9. ASSUME NEW p \in Callers, Busy(p)
      PROVE  SavesAreExclusive'
    BY <1>1, <1>2, <1>9 DEF Busy, Unlock, End, Goto
<1>10. ASSUME NEW p \in Callers, Commit(p)
       PROVE  SavesAreExclusive'
    BY <1>1, <1>2, <1>10 DEF Commit, Unlock, End, Goto
<1>11. ASSUME NEW p \in Callers, CancelLate(p)
       PROVE  SavesAreExclusive'
    BY <1>1, <1>2, <1>11 DEF CancelLate, Unlock, End, Goto
<1>12. ASSUME NEW s \in Stores, Crash(s)
       PROVE  SavesAreExclusive'
    BY <1>1, <1>2, <1>12 DEF Crash
<1>13. CASE UNCHANGED vars
    BY <1>2, <1>13 DEF vars
<1> QED
    BY <1>3, <1>4, <1>5, <1>6, <1>7, <1>8, <1>9, <1>10, <1>11, <1>12, <1>13
       DEF Next, Save, Proceed

\* A save whose version matches extends what its connection reads.
LEMMA SavesExtend ==
    ASSUME TypeOK, ReadsGrow, Shared, NEW p \in Callers,
           Version(Load(storeOf[p])) = Expected(p)
    PROVE  Log!Extends(new[p].history, HistoryOf(Load(storeOf[p])))
<1> DEFINE r == Load(storeOf[p])
<1>1. new[p] \in FsmRecords /\ r \in FsmRecords \cup {None}
    BY LoadIsARecord DEF TypeOK
<1>2. /\ new[p].history \in Seq(Rows) /\ new[p].version = Len(new[p].history)
      /\ HistoryOf(r) \in Seq(Rows) /\ Version(r) = Len(HistoryOf(r))
    BY <1>1 DEF FsmRecords, Records, HistoryOf, Version
<1>3. FollowsOn(new[p].history, HistoryOf(r))
    BY DEF ReadsGrow
<1> QED
    BY <1>2, <1>3, MatchingVersionsExtend DEF Expected

\* What a connection reads extends what is committed.
LEMMA LoadExtendsCommitted ==
    ASSUME TypeOK, ReadsGrow, Shared, NEW p \in Callers
    PROVE  /\ Committed \in Seq(Rows)
           /\ HistoryOf(Load(storeOf[p])) \in Seq(Rows)
           /\ Log!Extends(HistoryOf(Load(storeOf[p])), Committed)
<1>1. Load(storeOf[p]) \in FsmRecords \cup {None} /\ storeOf[p] \in Stores
    BY LoadIsARecord
<1>2. Committed \in Seq(Rows) /\ Log!Extends(Committed, Committed)
    BY DEF TypeOK, Committed, FsmRecords, Records, Log!Extends
<1>3. HistoryOf(Load(storeOf[p])) \in Seq(Rows)
    BY <1>1 DEF HistoryOf, FsmRecords, Records
<1> QED
    BY <1>1, <1>2, <1>3 DEF ReadsGrow, Load, HistoryOf, Committed

\* One step only extends what the callers of one store read: inserts and
\* saves by SavesExtend, and a crash takes the callers with it.
LEMMA ReadsStep ==
    ASSUME TypeOK, TypeOK', SavesAreExclusive, ReadsGrow, [Next]_vars
    PROVE  ReadsGrow'
<1> DEFINE Read(p) == HistoryOf(Load(storeOf[p]))
           Dirty == \A p \in Callers :
                       dirty[storeOf[p]] # None =>
                          Log!Extends(dirty[storeOf[p]].history, Committed)
           Follow == \A p \in Callers : FollowsOn(new[p].history, Read(p))
           Match == \A p \in Callers :
                       pc[p] = "insert" => Version(Load(storeOf[p])) = Expected(p)
<1>0. storeOf' = storeOf /\ (Shared' <=> Shared)
    BY DEF Next, Fire, Save, Proceed, vars, Shared, BeginCreate, BeginFire,
           GuardAllows, HandlerDone, Refuse, SaveInMemory, Check, Conflict,
           Insert, Busy, Commit, CancelEarly, CancelLate, Crash
<1> SUFFICES ASSUME Shared
             PROVE  Dirty' /\ Follow' /\ Match'
    BY <1>0 DEF ReadsGrow
<1>1. Dirty /\ Follow /\ Match
    BY DEF ReadsGrow
<1>2. /\ \A p \in Callers : storeOf[p] \in Stores
      /\ \A p, q \in Callers : storeOf[p] = storeOf[q]
    BY StoreAssumption DEF TypeOK, Shared
<1>3. \A p \in Callers : new[p].history \in Seq(Rows)
    BY DEF TypeOK, FsmRecords, Records
<1>4. \A p \in Callers :
          Read(p) \in Seq(Rows) /\ Committed \in Seq(Rows) /\ Log!Extends(Read(p), Committed)
    BY LoadExtendsCommitted
\* The stores stay as they are.
<1>5. ASSUME saved' = saved, dirty' = dirty,
             \A q \in Callers :
                new'[q] = new[q] \/ FollowsOn(new'[q].history, Read(q)),
             \A q \in Callers :
                pc'[q] = "insert" =>
                    \/ pc[q] = "insert" /\ new'[q] = new[q]
                    \/ new'[q] = new[q] /\ Version(Load(storeOf[q])) = Expected(q)
      PROVE  Dirty' /\ Follow' /\ Match'
    <2>1. /\ Committed' = Committed
          /\ \A q \in Callers : Load(storeOf[q])' = Load(storeOf[q]) /\ Read(q)' = Read(q)
        BY <1>0, <1>5 DEF Committed, Load, HistoryOf
    <2>2. Dirty' /\ Follow'
        BY <1>0, <1>1, <1>5, <2>1
    <2>3. Match'
        BY <1>1, <1>5, <2>1 DEF Expected, Version
    <2> QED
        BY <2>2, <2>3
\* The committed record, or the open transaction, becomes that of one call.
<1>6. ASSUME NEW p \in Callers,
             Version(Load(storeOf[p])) = Expected(p),
             \A q \in Callers : Load(storeOf[q])' = new[p],
             \A q \in Callers : new'[q] = new[q] \/ new'[q] = Created
      PROVE  /\ Follow'
             /\ Log!Extends(new[p].history, Read(p))
    <2>1. Log!Extends(new[p].history, Read(p))
        BY <1>6, SavesExtend
    <2>2. new[p] # None
        BY NoneAssumption DEF TypeOK, FsmRecords
    <2>3. ASSUME NEW q \in Callers
          PROVE  FollowsOn(new'[q].history, Read(q)')
        <3>1. Read(q)' = new[p].history /\ Read(q) = Read(p)
            BY <1>2, <1>6, <2>2 DEF HistoryOf
        <3>2. FollowsOn(new[q].history, new[p].history)
            BY <1>1, <1>3, <1>4, <2>1, <3>1, FollowsOnExtension
        <3>3. FollowsOn(Created.history, new[p].history)
            BY <1>3, CreatedIsARecord
        <3> QED
            BY <1>6, <3>1, <3>2, <3>3
    <2> QED
        BY <2>1, <2>3
<1>7. ASSUME NEW p \in Callers, BeginCreate(p)
      PROVE  Dirty' /\ Follow' /\ Match'
    <2>1. \A q \in Callers : new'[q] = new[q] \/ FollowsOn(new'[q].history, Read(q))
        BY <1>4, <1>7, CreatedIsARecord DEF BeginCreate, TypeOK
    <2> QED
        BY <1>5, <1>7, <2>1 DEF BeginCreate, Goto, TypeOK
<1>8. ASSUME NEW p \in Callers, NEW t \in Transitions, BeginFire(p, t)
      PROVE  Dirty' /\ Follow' /\ Match'
    <2> DEFINE r == Load(storeOf[p])
    <2>1. r \in FsmRecords /\ r.history \in Seq(Rows)
        BY <1>8, LoadIsARecord DEF BeginFire, FsmRecords, Records
    <2>2. FollowsOn(After(r, t, p).history, r.history)
        <3>1. /\ After(r, t, p).history = Append(r.history, [step |-> t, actor |-> p])
              /\ [step |-> t, actor |-> p] \in Rows
            BY DEF After, Rows
        <3> QED
            BY <2>1, <3>1 DEF FollowsOn
    <2>3. \A q \in Callers : new'[q] = new[q] \/ FollowsOn(new'[q].history, Read(q))
        BY <1>8, <2>1, <2>2 DEF BeginFire, HistoryOf, TypeOK
    <2> QED
        BY <1>5, <1>8, <2>3 DEF BeginFire, Goto, TypeOK
<1>9. ASSUME NEW p \in Callers, GuardAllows(p) \/ HandlerDone(p) \/ Check(p)
      PROVE  Dirty' /\ Follow' /\ Match'
    BY <1>5, <1>9 DEF GuardAllows, HandlerDone, Check, Goto, TypeOK
<1>10. ASSUME NEW p \in Callers,
              \/ Refuse(p) \/ CancelEarly(p) \/ Conflict(p) \/ Busy(p)
              \/ CancelLate(p) /\ UNCHANGED <<saved, dirty>>
       PROVE  Dirty' /\ Follow' /\ Match'
    <2>1. End(p) /\ saved' = saved /\ dirty' = dirty
        BY <1>10 DEF Refuse, CancelEarly, Conflict, Busy, CancelLate
    <2>2. \A q \in Callers : new'[q] = new[q] \/ FollowsOn(new'[q].history, Read(q))
        BY <1>4, <2>1, CreatedIsARecord DEF End, TypeOK
    <2> QED
        BY <1>5, <2>1, <2>2 DEF End, Goto, TypeOK
<1>11. ASSUME NEW p \in Callers, SaveInMemory(p)
       PROVE  Dirty' /\ Follow' /\ Match'
    <2>1. /\ \A s \in Stores : dirty[s] = None /\ dirty'[s] = None
          /\ \A q \in Callers : pc'[q] # "insert"
        BY <1>11 DEF SaveInMemory, SavesAreExclusive, End, Goto, TypeOK
    <2>2. /\ Version(Load(storeOf[p])) = Expected(p)
          /\ \A q \in Callers : Load(storeOf[q])' = new[p]
        BY <1>0, <1>2, <1>11, <2>1 DEF SaveInMemory, Load
    <2>3. Follow'
        BY <1>6, <1>11, <2>2 DEF SaveInMemory, End, TypeOK
    <2> QED
        BY <1>0, <1>2, <2>1, <2>3
<1>12. ASSUME NEW p \in Callers,
              \/ Insert(p)
              \/ CancelLate(p) /\ pc[p] = "insert" /\ saved' = saved
                    /\ dirty' = [dirty EXCEPT ![storeOf[p]] = new[p]]
       PROVE  Dirty' /\ Follow' /\ Match'
    <2>1. /\ pc[p] = "insert" /\ saved' = saved
          /\ dirty' = [dirty EXCEPT ![storeOf[p]] = new[p]]
          /\ \A q \in Callers : new'[q] = new[q] \/ new'[q] = Created
          /\ pc'[p] # "insert" /\ \A q \in Callers : q # p => pc'[q] = pc[q]
        BY <1>12 DEF Insert, CancelLate, End, Goto, TypeOK
    <2>2. new[p] # None /\ Version(Load(storeOf[p])) = Expected(p)
        BY <1>1, <2>1, NoneAssumption DEF TypeOK, FsmRecords
    <2>3. \A q \in Callers : Load(storeOf[q])' = new[p]
        BY <1>0, <1>2, <2>1, <2>2 DEF Load, TypeOK
    <2>4. Follow' /\ Log!Extends(new[p].history, Read(p))
        BY <1>6, <2>1, <2>2, <2>3
    <2>5. Committed' = Committed /\ Log!Extends(new[p].history, Committed)
        BY <1>3, <1>4, <2>1, <2>4, ExtendsTransitive DEF Committed
    <2>6. Dirty'
        <3>1. \A q \in Callers : dirty'[storeOf[q]] = new[p]
            BY <1>2, <2>1 DEF TypeOK
        <3> QED
            BY <1>0, <2>5, <3>1
    <2>7. \A q \in Callers : pc'[q] # "insert"
        BY <1>2, <2>1 DEF SavesAreExclusive
    <2> QED
        BY <2>4, <2>6, <2>7
<1>13. ASSUME NEW p \in Callers,
              \/ Commit(p)
              \/ CancelLate(p) /\ pc[p] = "commit" /\ saved' = dirty[storeOf[p]]
                    /\ dirty' = [dirty EXCEPT ![storeOf[p]] = None]
       PROVE  Dirty' /\ Follow' /\ Match'
    <2>1. /\ pc[p] = "commit" /\ saved' = dirty[storeOf[p]]
          /\ dirty' = [dirty EXCEPT ![storeOf[p]] = None]
          /\ \A q \in Callers : new'[q] = new[q] \/ new'[q] = Created
          /\ pc'[p] # "insert" /\ \A q \in Callers : q # p => pc'[q] = pc[q]
        BY <1>13 DEF Commit, CancelLate, End, Goto, TypeOK
    <2>2. dirty[storeOf[p]] = new[p] /\ new[p] # None
        BY <2>1, NoneAssumption DEF SavesAreExclusive, TypeOK, FsmRecords
    <2>3. \A q \in Callers :
             Load(storeOf[q]) = new[p] /\ Load(storeOf[q])' = new[p]
        BY <1>0, <1>2, <2>1, <2>2 DEF Load, TypeOK
    <2>4. Follow'
        <3>1. \A q \in Callers : Read(q)' = Read(q)
            BY <2>3 DEF HistoryOf
        <3> QED
            BY <1>1, <1>4, <2>1, <3>1, CreatedIsARecord
    <2>5. Dirty'
        <3>1. \A q \in Callers : dirty'[storeOf[q]] = None
            BY <1>2, <2>1 DEF TypeOK
        <3> QED
            BY <1>0, <3>1
    <2>6. \A q \in Callers : pc'[q] # "insert"
        BY <1>2, <2>1 DEF SavesAreExclusive
    <2> QED
        BY <2>4, <2>5, <2>6
<1>14. ASSUME NEW s \in Stores, Crash(s)
       PROVE  Dirty' /\ Follow' /\ Match'
    <2>1. Dirty'
        BY <1>1, <1>14 DEF Crash, Committed, TypeOK
    <2>2. CASE \A q \in Callers : storeOf[q] = s
        <3>1. \A q \in Callers : new'[q] = Created /\ pc'[q] = "idle"
            BY <1>14, <2>2 DEF Crash
        <3>2. \A q \in Callers : Read(q)' \in Seq(Rows)
            BY <1>0, <1>2 DEF TypeOK, Load, HistoryOf, FsmRecords, Records
        <3> QED
            BY <2>1, <3>1, <3>2, CreatedIsARecord
    <2>3. CASE \A q \in Callers : storeOf[q] # s
        <3>1. \A q \in Callers :
                /\ Load(storeOf[q])' = Load(storeOf[q]) /\ new'[q] = new[q]
                /\ pc'[q] = pc[q]
            BY <1>0, <1>2, <1>14, <2>3 DEF Crash, Load, TypeOK
        <3> QED
            BY <1>1, <2>1, <3>1 DEF HistoryOf, Version, Expected
    <2> QED
        BY <1>2, <2>2, <2>3
<1>15. CASE UNCHANGED vars
    BY <1>5, <1>15 DEF vars
<1>16. ASSUME NEW p \in Callers, CancelLate(p)
       PROVE  \/ UNCHANGED <<saved, dirty>>
              \/ pc[p] = "insert" /\ saved' = saved
                    /\ dirty' = [dirty EXCEPT ![storeOf[p]] = new[p]]
              \/ pc[p] = "commit" /\ saved' = dirty[storeOf[p]]
                    /\ dirty' = [dirty EXCEPT ![storeOf[p]] = None]
    BY <1>16 DEF CancelLate
<1> QED
    BY <1>7, <1>8, <1>9, <1>10, <1>11, <1>12, <1>13, <1>14, <1>15, <1>16
       DEF Next, Fire, Save, Proceed

-----------------------------------------------------------------------------
(***************************************************************************)
(* Reported transitions, the invariant, and the refinement.                *)
(***************************************************************************)

\* What is committed is only ever extended, as long as the callers share one
\* store.
LEMMA CommittedGrows ==
    ASSUME TypeOK, SavesAreExclusive, ReadsGrow, Shared, [Next]_vars
    PROVE  /\ Committed \in Seq(Rows)
           /\ Log!Extends(Committed', Committed)
<1>1. Committed \in Seq(Rows) /\ Log!Extends(Committed, Committed)
    BY DEF TypeOK, Committed, FsmRecords, Records, Log!Extends
<1>2. ASSUME saved' = saved
      PROVE  Log!Extends(Committed', Committed)
    BY <1>1, <1>2 DEF Committed
<1>3. ASSUME NEW p \in Callers, SaveInMemory(p)
      PROVE  Log!Extends(Committed', Committed)
    <2>1. Load(storeOf[p]) = saved
        BY <1>3, StoreAssumption DEF SaveInMemory, SavesAreExclusive, Load, TypeOK
    <2>2. Log!Extends(new[p].history, Committed)
        BY <1>3, <2>1, SavesExtend DEF SaveInMemory, HistoryOf, Committed
    <2> QED
        BY <1>3, <2>2, NoneAssumption
           DEF SaveInMemory, Committed, TypeOK, FsmRecords
<1>4. ASSUME NEW p \in Callers, pc[p] = "commit", saved' = dirty[storeOf[p]]
      PROVE  Log!Extends(Committed', Committed)
    <2>1. saved' = new[p] /\ new[p] # None
        BY <1>4, NoneAssumption DEF SavesAreExclusive, TypeOK, FsmRecords
    <2> QED
        BY <1>4, <2>1 DEF ReadsGrow, Committed
<1> QED
    BY <1>1, <1>2, <1>3, <1>4
       DEF Next, Fire, Save, Proceed, vars, BeginCreate, BeginFire,
           GuardAllows, HandlerDone, Refuse, Check, Conflict, Insert, Busy,
           Commit, CancelEarly, CancelLate, Crash

\* One step keeps the reported transitions: what fire() reports is committed
\* by then, and what is committed stays.
LEMMA ReturnedStep ==
    ASSUME TypeOK, TypeOK', SavesAreExclusive, ReadsGrow,
           ReturnedTransitionsStand, [Next]_vars
    PROVE  ReturnedTransitionsStand'
<1>0. Shared' <=> Shared
    BY DEF Next, Fire, Save, Proceed, vars, Shared, BeginCreate, BeginFire,
           GuardAllows, HandlerDone, Refuse, SaveInMemory, Check, Conflict,
           Insert, Busy, Commit, CancelEarly, CancelLate, Crash
<1> SUFFICES ASSUME Shared, NEW h \in returned'
             PROVE  Log!Extends(Committed', h)
    BY <1>0 DEF ReturnedTransitionsStand, TransitionsStand
<1>1. Committed' \in Seq(Rows) /\ h \in Seq(Rows)
    BY DEF TypeOK, Committed, FsmRecords, Records
<1>2. CASE h \in returned
    BY <1>1, <1>2, CommittedGrows, ExtendsTransitive
       DEF ReturnedTransitionsStand, TransitionsStand
<1>3. ASSUME NEW p \in Callers, Return(p), saved' = new[p], h \notin returned
      PROVE  Log!Extends(Committed', h)
    <2>1. h = new[p].history /\ saved' # None
        BY <1>3, NoneAssumption DEF Return, TypeOK, FsmRecords
    <2> QED
        BY <1>1, <1>3, <2>1 DEF Committed, Log!Extends
<1>4. ASSUME NEW p \in Callers, Commit(p)
      PROVE  Return(p) /\ saved' = new[p]
    BY <1>4 DEF Commit, SavesAreExclusive
<1> QED
    BY <1>2, <1>3, <1>4
       DEF Next, Fire, Save, Proceed, vars, BeginCreate, BeginFire,
           GuardAllows, HandlerDone, Refuse, SaveInMemory, Check, Conflict,
           Insert, Busy, CancelEarly, CancelLate, Crash

\* The invariant holds in every reachable state.
LEMMA InvariantHolds == Spec => []IInv
<1>1. Init => IInv
    <2> SUFFICES ASSUME Init PROVE IInv
        OBVIOUS
    <2>1. TypeOK
        BY CreatedIsARecord DEF Init, TypeOK, Steps
    <2>2. AllLegal
        BY CreatedIsARecord DEF Init, AllLegal
    <2>3. SavesAreExclusive
        BY DEF Init, SavesAreExclusive
    <2>4. ReadsGrow
        <3>1. ASSUME NEW p \in Callers
              PROVE  /\ dirty[storeOf[p]] = None /\ Load(storeOf[p]) = None
                     /\ new[p] = Created /\ pc[p] = "idle"
            BY StoreAssumption DEF Init, Load
        <3>2. <<>> \in Seq(Rows)
            OBVIOUS
        <3> QED
            BY <3>1, <3>2, CreatedIsARecord DEF ReadsGrow, HistoryOf
    <2> QED
        BY <2>1, <2>2, <2>3, <2>4
           DEF Init, IInv, ReturnedTransitionsStand, TransitionsStand
<1>2. IInv /\ [Next]_vars => IInv'
    BY TypeStep, LegalStep, ExclusiveStep, ReadsStep, ReturnedStep DEF IInv
<1> QED
    BY <1>1, <1>2, PTL DEF Spec

\* Version, state and history fit together in every record that is stored or
\* on its way to be.
THEOREM TypeCorrectness == Spec => []TypeOK
BY InvariantHolds, PTL DEF IInv

\* With one store object, a transition that fire() reported is never lost:
\* however many callers race, whoever is cancelled, and across crashes.
THEOREM ReportedTransitionsAreKept == Spec => []ReturnedTransitionsStand
BY InvariantHolds, PTL DEF IInv

\* With one store object, what is committed implements the log: it is a legal
\* run of the machine at any time, and is only extended.
THEOREM StoreImplementsLog == Spec => ImplementsLog
<1> DEFINE log == IF Shared THEN Committed ELSE <<>>
<1>1. Init => log = <<>>
    BY DEF Init, Committed
<1>2. IInv /\ IInv' /\ [Next]_vars => [Log!Next]_log
    <2> SUFFICES ASSUME IInv, IInv', [Next]_vars
                 PROVE  Log!Next \/ log' = log
        OBVIOUS
    <2>0. Shared' <=> Shared
        BY DEF Next, Fire, Save, Proceed, vars, Shared, BeginCreate, BeginFire,
               GuardAllows, HandlerDone, Refuse, SaveInMemory, Check, Conflict,
               Insert, Busy, Commit, CancelEarly, CancelLate, Crash
    <2>1. CASE ~Shared
        BY <2>0, <2>1
    <2>2. CASE Shared
        <3>1. log' = Committed' /\ log = Committed
            BY <2>0, <2>2
        <3>2. Log!Legal(Committed')
            BY DEF IInv, AllLegal, Committed, Log!Legal
        <3>3. Log!Extends(Committed', Committed)
            BY <2>2, CommittedGrows DEF IInv
        <3> QED
            BY <2>0, <2>2, <3>1, <3>2, <3>3 DEF Log!Next
    <2> QED
        BY <2>1, <2>2
<1> QED
    BY <1>1, <1>2, InvariantHolds, PTL DEF Spec, ImplementsLog, Log!Spec, Log!Init

-----------------------------------------------------------------------------
(***************************************************************************)
(* Deadlock freedom, the safety half of EveryCallEnds: what a call waits   *)
(* for is another call that is on its way to release it.                   *)
(***************************************************************************)

\* The lock of a store is that of a call of this store inside save(): none
\* that ended, raised or was cancelled has left it behind.
LocksAreInUse ==
    \A s \in Stores :
        lock[s] # None => /\ storeOf[lock[s]] = s
                          /\ pc[lock[s]] \in {"insert", "commit"}

\* A step of p's call that needs nobody else: its guard, its handler, the
\* statements inside the lock, and the start of a save whose lock is free.
GoesOn(p) ==
    \/ pc[p] \in {"guard", "handler", "insert", "commit"}
    \/ pc[p] = "save" /\ lock[storeOf[p]] = None

WaitsForAnother(p) ==
    /\ pc[p] = "save"
    /\ \E q \in Callers \ {p} : lock[storeOf[p]] = q /\ GoesOn(q)

NobodyWaitsInVain ==
    \A p \in Callers : pc[p] # "idle" => GoesOn(p) \/ WaitsForAnother(p)

LEMMA LocksStep ==
    ASSUME TypeOK, SavesAreExclusive, LocksAreInUse, [Next]_vars
    PROVE  LocksAreInUse'
<1> USE DEF TypeOK, LocksAreInUse
<1> USE CallerAssumption
<1>1. \A p \in Callers : storeOf[p] \in Stores
    BY StoreAssumption
<1>2. storeOf' = storeOf
    BY DEF Next, Fire, Save, Proceed, vars, BeginCreate, BeginFire, GuardAllows, HandlerDone,
           Refuse, SaveInMemory, Check, Conflict, Insert, Busy, Commit, CancelEarly, CancelLate,
           Crash
<1>3. ASSUME NEW p \in Callers, BeginCreate(p) \/ Fire(p)
      PROVE  LocksAreInUse'
    BY <1>2, <1>3 DEF BeginCreate, Fire, BeginFire, Goto
<1>4. ASSUME NEW p \in Callers, GuardAllows(p) \/ HandlerDone(p)
      PROVE  LocksAreInUse'
    BY <1>2, <1>4 DEF GuardAllows, HandlerDone, Goto
<1>5. ASSUME NEW p \in Callers,
             Refuse(p) \/ CancelEarly(p) \/ Conflict(p) \/ SaveInMemory(p)
      PROVE  LocksAreInUse'
    BY <1>2, <1>5 DEF Refuse, CancelEarly, Conflict, SaveInMemory, End, Goto
<1>6. ASSUME NEW p \in Callers, Check(p) \/ Insert(p)
      PROVE  LocksAreInUse'
    BY <1>1, <1>2, <1>6 DEF Check, Insert, Goto
<1>7. ASSUME NEW p \in Callers, Busy(p) \/ Commit(p) \/ CancelLate(p)
      PROVE  LocksAreInUse'
    <2>1. /\ lock' = [lock EXCEPT ![storeOf[p]] = None]
          /\ pc' = [pc EXCEPT ![p] = "idle"]
          /\ lock[storeOf[p]] = p
        BY <1>7 DEF Busy, Commit, CancelLate, Unlock, End, Goto, SavesAreExclusive
    <2> QED
        BY <1>1, <1>2, <2>1
<1>8. ASSUME NEW s \in Stores, Crash(s)
      PROVE  LocksAreInUse'
    BY <1>2, <1>8 DEF Crash
<1>9. CASE UNCHANGED vars
    BY <1>9 DEF vars
<1> QED
    BY <1>3, <1>4, <1>5, <1>6, <1>7, <1>8, <1>9 DEF Next, Save, Proceed

\* A call of create() or fire() waits for nothing but the lock of its store,
\* and only while another call is between the SELECT and the commit of its
\* save, which needs nobody to end: whoever was cancelled, refused or found
\* the database busy has released the lock (sqlite_store.py:111-137).
THEOREM CallsWaitForCalls == Spec => []NobodyWaitsInVain
<1>1. Init => LocksAreInUse
    BY DEF Init, LocksAreInUse
<1>2. IInv /\ LocksAreInUse /\ [Next]_vars => LocksAreInUse'
    BY LocksStep DEF IInv
<1>3. IInv /\ LocksAreInUse => NobodyWaitsInVain
    <2> SUFFICES ASSUME IInv, LocksAreInUse, NEW p \in Callers, pc[p] = "save",
                        lock[storeOf[p]] # None
                 PROVE  WaitsForAnother(p)
        BY DEF NobodyWaitsInVain, GoesOn, IInv, TypeOK, Steps
    <2> DEFINE q == lock[storeOf[p]]
    <2>1. storeOf[p] \in Stores /\ q \in Callers
        BY StoreAssumption DEF IInv, TypeOK
    <2>2. pc[q] \in {"insert", "commit"}
        BY <2>1 DEF LocksAreInUse
    <2> QED
        BY <2>1, <2>2 DEF WaitsForAnother, GoesOn
<1> QED
    BY <1>1, <1>2, <1>3, InvariantHolds, PTL DEF Spec
=============================================================================

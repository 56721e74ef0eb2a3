-------------------------- MODULE MemoryStore_proofs --------------------------
(***************************************************************************)
(* Proofs about MemoryStore, for any number of tasks, stores and calls.    *)
(* The argument: lane and lock together make a transaction that of one     *)
(* call, until the call is cancelled and lets go of them.                  *)
(***************************************************************************)
EXTENDS MemoryStore, TLAPS

\* What a call holds at each step.
LocksAreHeld ==
    \A p \in Callers :
        /\ pc[p] \in {"schema", "lock", "write", "commit"} => lane = p
        /\ pc[p] \in {"opening", "schema", "write", "commit", "closing"} => lock[StoreOf[p]] = p

\* What a call is about at each step.
CallsFit ==
    \A p \in Callers :
        /\ pc[p] \in {"connect", "opening", "schema"} => op[p] \in Writes \cup {"get"}
        /\ pc[p] \in {"lane", "lock", "write"} => op[p] \in Writes

\* A statement that nobody waits for has been abandoned, and never stands
\* between the write of another call and its commit.
LateIsAbandoned ==
    /\ \A s \in Stores : late[s] # None => s \in abandoned
    /\ \A p \in Callers :
        pc[p] = "commit" => late[StoreOf[p]] = None /\ dirty[StoreOf[p]] # None

IInv == TypeOK /\ LocksAreHeld /\ CallsFit /\ LateIsAbandoned /\ TransactionsAreOwned

-----------------------------------------------------------------------------

\* The constants, as every step below uses them.
LEMMA Constants ==
    /\ \A p \in Callers : StoreOf[p] \in Stores /\ p # None
    /\ \A w \in Writes \cup {"commit"} : w # None
    /\ \A r \in Rows : r # None
BY StoreAssumption DEF Writes, Rows

\* What a connection reads is a row, and so is what a write makes of it.
LEMMA ReadsAreRows ==
    ASSUME TypeOK, NEW s \in Stores, NEW o
    PROVE  Load(s) \in Rows /\ Effect(o, Load(s)) \in Rows
BY DEF TypeOK, Load, Effect, Rows

\* Getting a connection leads to one of four steps.
LEMMA ConnectionTypes ==
    ASSUME TypeOK, NEW p \in Callers, NEW o \in Ops
    PROVE  /\ \A open \in BOOLEAN :
                  Connected(p, o, open) => pc' \in [Callers -> Steps] /\ live' \in [Callers -> BOOLEAN]
           /\ GetConnection(p, o) => pc' \in [Callers -> Steps] /\ live' \in [Callers -> BOOLEAN]
<1>1. \A step \in Steps : Goto(p, step) => pc' \in [Callers -> Steps]
    BY DEF TypeOK, Goto
<1>2. \A open \in BOOLEAN :
          live' = [live EXCEPT ![p] = open] => live' \in [Callers -> BOOLEAN]
    BY Zenon DEF TypeOK
<1>3. {"connect", "select", "lane"} \subseteq Steps
    BY DEF Steps
<1>4. ASSUME NEW open \in BOOLEAN, Connected(p, o, open)
      PROVE  pc' \in [Callers -> Steps] /\ live' \in [Callers -> BOOLEAN]
    <2>1. (IF o = "get" THEN "select" ELSE "lane") \in Steps
        BY <1>3
    <2> QED
        BY <1>1, <1>2, <1>4, <2>1, Zenon DEF Connected
<1>5. (conn[StoreOf[p]] = "open") \in BOOLEAN
    OBVIOUS
<1>6. ASSUME Goto(p, "connect"), UNCHANGED live
      PROVE  pc' \in [Callers -> Steps] /\ live' \in [Callers -> BOOLEAN]
    BY <1>1, <1>3, <1>6, Zenon DEF TypeOK
<1> QED
    BY <1>4, <1>5, <1>6, Zenon DEF GetConnection

\* A call that leaves is idle.
LEMMA LeaveTypes ==
    ASSUME TypeOK, NEW p \in Callers, Leave(p)
    PROVE  /\ pc' \in [Callers -> Steps] /\ op' \in [Callers -> Ops]
           /\ lane' \in Callers \cup {None} /\ lock' \in [Stores -> Callers \cup {None}]
           /\ live' \in [Callers -> BOOLEAN]
<1>1. live' \in [Callers -> BOOLEAN]
    BY Zenon DEF TypeOK, Leave
<1> QED
    BY <1>1 DEF TypeOK, Leave, Goto, Steps, Ops

\* What close() does to the variables, cancelled or not.
LEMMA Closing ==
    ASSUME TypeOK, NEW p \in Callers, Close(p) \/ CancelClose(p)
    PROVE  /\ pc[p] = "closing" /\ late[StoreOf[p]] = None
           /\ dirty' = [dirty EXCEPT ![StoreOf[p]] = None]
           /\ abandoned' = abandoned \ {StoreOf[p]}
           /\ \/ conn' = [conn EXCEPT ![StoreOf[p]] = "none"]
              \/ conn' = [conn EXCEPT ![StoreOf[p]] = "closed"]
           /\ pc' = [pc EXCEPT ![p] = "idle"] /\ op' = [op EXCEPT ![p] = "get"]
           /\ lock' = [lock EXCEPT ![StoreOf[p]] = None]
           /\ row' = row /\ late' = late /\ lane' = lane /\ calls' = calls
           /\ live' \in [Callers -> BOOLEAN] /\ overtaken' \in BOOLEAN
<1>1. live' \in [Callers -> BOOLEAN]
    <2>1. live' = [q \in Callers |-> IF StoreOf[q] = StoreOf[p] THEN FALSE ELSE live[q]]
        BY Zenon DEF Close, CancelClose
    <2>2. \A q \in Callers : live[q] \in BOOLEAN
        BY Zenon DEF TypeOK
    <2>3. \A q \in Callers : (IF StoreOf[q] = StoreOf[p] THEN FALSE ELSE live[q]) \in BOOLEAN
        BY <2>2, Zenon
    <2> QED
        BY <2>1, <2>3, Zenon
<1>2. overtaken' \in BOOLEAN
    <2>1. \E q \in BOOLEAN : overtaken' = (overtaken \/ q)
        <3> DEFINE e == \E q \in Callers : StoreOf[q] = StoreOf[p] /\ pc[q] \in {"lane", "lock"}
        <3>1. e \in BOOLEAN
            OBVIOUS
        <3>2. overtaken' = (overtaken \/ e)
            BY Zenon DEF Close, CancelClose, Shut
        <3> QED
            BY <3>1, <3>2, Zenon
    <2> QED
        BY <2>1, Zenon DEF TypeOK
<1> QED
    BY <1>1, <1>2, Zenon DEF Close, CancelClose, Shut, Goto

\* One step keeps the types.
LEMMA TypeStep ==
    ASSUME IInv, [Next]_vars
    PROVE  TypeOK'
<1> USE Constants DEF IInv, TypeOK
<1>1. ASSUME NEW p \in Callers, NEW o \in Ops, Begin(p, o)
      PROVE  TypeOK'
    <2>1. CASE o = "close"
        BY <1>1, <2>1 DEF Begin, Goto, Steps
    <2>2. CASE o # "close"
        BY <1>1, <2>2, ConnectionTypes DEF Begin
    <2> QED
        BY <2>1, <2>2
<1>2. ASSUME NEW p \in Callers, Connect(p) \/ Open(p)
      PROVE  TypeOK'
    <2>1. /\ pc' \in [Callers -> Steps] /\ live' \in [Callers -> BOOLEAN]
        <3>1. (conn[StoreOf[p]] = "open") \in BOOLEAN /\ TRUE \in BOOLEAN
            OBVIOUS
        <3>2. Goto(p, "opening") => pc' \in [Callers -> Steps]
            BY DEF Goto, Steps
        <3>3. op[p] \in Ops
            OBVIOUS
        <3>4. \A open \in BOOLEAN :
                  Connected(p, op[p], open) => pc' \in [Callers -> Steps] /\ live' \in [Callers -> BOOLEAN]
            BY <3>3, ConnectionTypes
        <3>5. live \in [Callers -> BOOLEAN]
            OBVIOUS
        <3> HIDE DEF IInv, TypeOK
        <3>6. CASE Connect(p)
            BY <3>1, <3>2, <3>4, <3>5, <3>6, Zenon DEF Connect
        <3>7. CASE Open(p)
            BY <3>1, <3>4, <3>7, Zenon DEF Open
        <3> QED
            BY <1>2, <3>6, <3>7
    <2>2. CASE Connect(p)
        <3>1. /\ lock' = lock \/ lock' = [lock EXCEPT ![StoreOf[p]] = p]
              /\ UNCHANGED <<row, dirty, late, conn, lane, op, calls, abandoned, overtaken>>
            BY <2>2 DEF Connect
        <3>2. lock' \in [Stores -> Callers \cup {None}]
            BY <3>1
        <3> QED
            BY <2>1, <3>1, <3>2
    <2>3. CASE Open(p)
        <3>1. /\ lock' = [lock EXCEPT ![StoreOf[p]] = None] /\ lane' = None
              /\ conn' = [conn EXCEPT ![StoreOf[p]] = "open"]
              /\ UNCHANGED <<row, dirty, late, op, calls, abandoned, overtaken>>
            BY <2>3 DEF Open
        <3>2. /\ lock' \in [Stores -> Callers \cup {None}]
              /\ conn' \in [Stores -> {"none", "open", "closed"}]
            BY <3>1
        <3> QED
            BY <2>1, <3>1, <3>2
    <2> QED
        BY <1>2, <2>2, <2>3
<1>11. ASSUME NEW p \in Callers, TakeLane(p) \/ TakeLock(p)
      PROVE  TypeOK'
    BY <1>11 DEF TakeLane, TakeLock, Goto, Steps
<1>3. ASSUME NEW p \in Callers, Fail(p) \/ CancelWaiting(p)
      PROVE  TypeOK'
    BY <1>3, LeaveTypes DEF Fail, CancelWaiting
<1>12. ASSUME NEW p \in Callers, Select(p)
      PROVE  TypeOK'
    <2>1. "delete" \in Ops
        BY DEF Ops, Writes
    <2> QED
        BY <1>12, <2>1, LeaveTypes, ConnectionTypes DEF Select
<1>13. ASSUME NEW p \in Callers, StartClose(p)
      PROVE  TypeOK'
    BY <1>13, LeaveTypes DEF StartClose, Goto, Steps
<1>4. ASSUME NEW p \in Callers, Write(p)
      PROVE  TypeOK'
    BY <1>4, ReadsAreRows DEF Write, Goto, Steps
<1>5. ASSUME NEW p \in Callers, Commit(p)
      PROVE  TypeOK'
    BY <1>5, LeaveTypes DEF Commit, LateIsAbandoned
<1>6. ASSUME NEW p \in Callers, Close(p) \/ CancelClose(p)
      PROVE  TypeOK'
    BY <1>6, Closing DEF Steps, Ops
<1>7. ASSUME NEW p \in Callers, CancelWrite(p)
      PROVE  TypeOK'
    BY <1>7, LeaveTypes DEF CancelWrite, CallsFit
<1>8. ASSUME NEW s \in Stores, ExecuteLate(s)
      PROVE  TypeOK'
    BY <1>8, ReadsAreRows DEF ExecuteLate
<1>9. CASE Expire
    BY <1>9 DEF Expire, Rows
<1>10. CASE UNCHANGED vars
    BY <1>10 DEF vars
<1> QED
    BY <1>1, <1>2, <1>3, <1>4, <1>5, <1>6, <1>7, <1>8, <1>9, <1>10,
       <1>11, <1>12, <1>13 DEF Next, Proceed

\* One step keeps lane and lock with those that hold them: a call lets go of
\* them when it leaves, and nobody else takes them from it.
LEMMA LocksStep ==
    ASSUME IInv, [Next]_vars
    PROVE  LocksAreHeld'
<1> USE Constants DEF IInv, TypeOK, LocksAreHeld
<1>1. ASSUME NEW p \in Callers, NEW o \in Ops, Begin(p, o)
      PROVE  LocksAreHeld'
    BY <1>1 DEF Begin, GetConnection, Connected, Goto
<1>2. ASSUME NEW p \in Callers, Connect(p) \/ TakeLane(p) \/ TakeLock(p)
      PROVE  LocksAreHeld'
    BY <1>2 DEF Connect, TakeLane, TakeLock, Connected, Goto
<1>3. ASSUME NEW p \in Callers, Open(p)
      PROVE  LocksAreHeld'
    BY <1>3 DEF Open, Connected, Goto
<1>4. ASSUME NEW p \in Callers, Leave(p)
      PROVE  LocksAreHeld'
    BY <1>4 DEF Leave, Goto
<1>5. ASSUME NEW p \in Callers, Select(p) \/ StartClose(p)
      PROVE  LocksAreHeld'
    BY <1>4, <1>5 DEF Select, StartClose, GetConnection, Connected, Goto
<1>6. ASSUME NEW p \in Callers, Write(p)
      PROVE  LocksAreHeld'
    BY <1>6 DEF Write, Goto
<1>7. ASSUME NEW p \in Callers, Close(p) \/ CancelClose(p)
      PROVE  LocksAreHeld'
    BY <1>7, Closing
<1>8. CASE (\E s \in Stores : ExecuteLate(s)) \/ Expire \/ UNCHANGED vars
    BY <1>8 DEF ExecuteLate, Expire, vars
<1> QED
    BY <1>1, <1>2, <1>3, <1>4, <1>5, <1>6, <1>7, <1>8
       DEF Next, Proceed, Fail, Commit, CancelWaiting, CancelWrite

\* One step leaves each call at a step that fits what it is about.
LEMMA CallsStep ==
    ASSUME IInv, [Next]_vars
    PROVE  CallsFit'
<1> USE DEF IInv, TypeOK, CallsFit
<1>1. ASSUME NEW p \in Callers, NEW o \in Ops, Begin(p, o)
      PROVE  CallsFit'
    BY <1>1 DEF Begin, GetConnection, Connected, Goto, Ops
<1>2. ASSUME NEW p \in Callers, Connect(p) \/ TakeLane(p) \/ Open(p) \/ TakeLock(p) \/ Write(p)
      PROVE  CallsFit'
    BY <1>2 DEF Connect, TakeLane, Open, TakeLock, Write, Connected, Goto
<1>3. ASSUME NEW p \in Callers, Leave(p)
      PROVE  CallsFit'
    BY <1>3 DEF Leave, Goto
<1>4. ASSUME NEW p \in Callers, Select(p) \/ StartClose(p)
      PROVE  CallsFit'
    BY <1>3, <1>4 DEF Select, StartClose, GetConnection, Connected, Goto, Writes
<1>5. ASSUME NEW p \in Callers, Close(p) \/ CancelClose(p)
      PROVE  CallsFit'
    BY <1>5, Closing
<1>6. CASE (\E s \in Stores : ExecuteLate(s)) \/ Expire \/ UNCHANGED vars
    BY <1>6 DEF ExecuteLate, Expire, vars
<1> QED
    BY <1>1, <1>2, <1>3, <1>4, <1>5, <1>6
       DEF Next, Proceed, Fail, Commit, CancelWaiting, CancelWrite

\* One step keeps abandoned statements apart from the transactions of others:
\* to come between, a call would have to hold the lock of the other.
LEMMA LateStep ==
    ASSUME IInv, [Next]_vars
    PROVE  LateIsAbandoned'
<1> USE Constants DEF IInv, TypeOK, LateIsAbandoned
<1>1. ASSUME NEW p \in Callers, NEW o \in Ops, Begin(p, o)
      PROVE  LateIsAbandoned'
    BY <1>1 DEF Begin, GetConnection, Connected, Goto
<1>2. ASSUME NEW p \in Callers, Connect(p) \/ TakeLane(p) \/ Open(p) \/ TakeLock(p)
      PROVE  LateIsAbandoned'
    BY <1>2 DEF Connect, TakeLane, Open, TakeLock, Connected, Goto
<1>3. ASSUME NEW p \in Callers, Fail(p) \/ Select(p) \/ StartClose(p) \/ CancelWaiting(p)
      PROVE  LateIsAbandoned'
    BY <1>3 DEF Fail, Select, StartClose, CancelWaiting, Leave, GetConnection, Connected, Goto
<1>4. ASSUME NEW p \in Callers, Write(p)
      PROVE  LateIsAbandoned'
    BY <1>4, ReadsAreRows DEF Write, Goto
<1>5. ASSUME NEW p \in Callers, Commit(p)
      PROVE  LateIsAbandoned'
    BY <1>5 DEF Commit, Leave, Goto, LocksAreHeld
<1>6. ASSUME NEW p \in Callers, Close(p) \/ CancelClose(p)
      PROVE  LateIsAbandoned'
    BY <1>6 , Closing DEF LocksAreHeld
<1>7. ASSUME NEW p \in Callers, CancelWrite(p)
      PROVE  LateIsAbandoned'
    BY <1>7 DEF CancelWrite, Leave, Goto, LocksAreHeld
<1>8. ASSUME NEW s \in Stores, ExecuteLate(s)
      PROVE  LateIsAbandoned'
    BY <1>8 DEF ExecuteLate
<1>9. CASE Expire
    BY <1>9 DEF Expire, Rows
<1>10. CASE UNCHANGED vars
    BY <1>10 DEF vars
<1> QED
    BY <1>1, <1>2, <1>3, <1>4, <1>5, <1>6, <1>7, <1>8, <1>9, <1>10 DEF Next, Proceed

\* One step keeps every open transaction with its owner.
LEMMA TransactionsStep ==
    ASSUME IInv, [Next]_vars
    PROVE  TransactionsAreOwned'
<1> USE Constants DEF IInv, TypeOK, TransactionsAreOwned
<1>1. ASSUME NEW p \in Callers, NEW o \in Ops, Begin(p, o)
      PROVE  TransactionsAreOwned'
    BY <1>1 DEF Begin, GetConnection, Connected, Goto
<1>2. ASSUME NEW p \in Callers, Connect(p) \/ TakeLane(p) \/ TakeLock(p)
      PROVE  TransactionsAreOwned'
    BY <1>2 DEF Connect, TakeLane, TakeLock, Connected, Goto
<1>3. ASSUME NEW p \in Callers, Open(p)
      PROVE  TransactionsAreOwned'
    BY <1>3 DEF Open, Connected, Goto, LocksAreHeld
<1>4. ASSUME NEW p \in Callers, Fail(p) \/ Select(p) \/ StartClose(p) \/ CancelWaiting(p)
      PROVE  TransactionsAreOwned'
    BY <1>4 DEF Fail, Select, StartClose, CancelWaiting, Leave, GetConnection, Connected, Goto
<1>5. ASSUME NEW p \in Callers, Write(p)
      PROVE  TransactionsAreOwned'
    BY <1>5 DEF Write, Goto, LocksAreHeld
<1>6. ASSUME NEW p \in Callers, Commit(p)
      PROVE  TransactionsAreOwned'
    BY <1>6 DEF Commit, Leave, Goto, LocksAreHeld
<1>7. ASSUME NEW p \in Callers, Close(p) \/ CancelClose(p)
      PROVE  TransactionsAreOwned'
    BY <1>7 , Closing DEF LocksAreHeld
<1>8. ASSUME NEW p \in Callers, CancelWrite(p)
      PROVE  TransactionsAreOwned'
    BY <1>8 DEF CancelWrite, Leave, Goto
<1>9. ASSUME NEW s \in Stores, ExecuteLate(s)
      PROVE  TransactionsAreOwned'
    BY <1>9 DEF ExecuteLate, LateIsAbandoned
<1>10. CASE Expire
    BY <1>10 DEF Expire, Rows
<1>11. CASE UNCHANGED vars
    BY <1>11 DEF vars
<1> QED
    BY <1>1, <1>2, <1>3, <1>4, <1>5, <1>6, <1>7, <1>8, <1>9, <1>10, <1>11 DEF Next, Proceed

\* The invariant is inductive.
LEMMA Invariant == Spec => []IInv
<1>1. Init => IInv
    <2>1. Init => live \in [Callers -> BOOLEAN] /\ overtaken \in BOOLEAN
        BY Zenon DEF Init
    <2> QED
        BY <2>1, Constants DEF Init, IInv, TypeOK, LocksAreHeld, CallsFit, LateIsAbandoned,
                     TransactionsAreOwned, Rows, Steps, Ops
<1>2. IInv /\ [Next]_vars => IInv'
    <2> SUFFICES ASSUME IInv, [Next]_vars
                 PROVE  IInv'
        OBVIOUS
    <2>1. TypeOK' /\ LocksAreHeld' /\ CallsFit' /\ LateIsAbandoned' /\ TransactionsAreOwned'
        BY TypeStep, LocksStep, CallsStep, LateStep, TransactionsStep
    <2> QED
        BY <2>1 DEF IInv
<1> QED
    BY <1>1, <1>2, PTL DEF Spec

-----------------------------------------------------------------------------

\* The variables keep their types, whoever is cancelled when.
THEOREM TypeCorrect == Spec => []TypeOK
<1>1. IInv => TypeOK
    BY DEF IInv
<1> QED
    BY <1>1, Invariant, PTL

\* A transaction is open between the write and the commit of the one call that
\* holds lane and lock, or its call was cancelled (sqlite_store.py:198-223).
THEOREM TransactionsStayOwned == Spec => []TransactionsAreOwned
<1>1. IInv => TransactionsAreOwned
    BY DEF IInv
<1> QED
    BY <1>1, Invariant, PTL

\* However many stores of a process write to one file, no statement finds it
\* locked by another, unless a write was cancelled: the owner of the other's
\* transaction would hold the one lane (sqlite_store.py:9-11).
THEOREM LaneKeepsStoresApart == Spec => []BusyNeedsACancelledWrite
<1>1. IInv => BusyNeedsACancelledWrite
    <2> SUFFICES ASSUME IInv, NEW p \in Callers, pc[p] = "write", ~Writable(StoreOf[p])
                 PROVE  \E s \in Stores \ {StoreOf[p]} : s \in abandoned
        BY DEF BusyNeedsACancelledWrite
    <2>1. PICK s \in Stores \ {StoreOf[p]} : dirty[s] # None
        BY DEF Writable
    <2>2. lane = p
        BY DEF IInv, LocksAreHeld
    <2>3. \A q \in Callers : ~(pc[q] = "commit" /\ lane = q)
        BY <2>2
    <2> QED
        BY <2>1, <2>3 DEF IInv, TransactionsAreOwned
<1> QED
    BY <1>1, Invariant, PTL

-----------------------------------------------------------------------------
(***************************************************************************)
(* No call waits for ever for lane or lock: the safety half of             *)
(* CallsEndUnlessClosedUnder.                                              *)
(***************************************************************************)

\* Whoever holds the lane or a lock is where it is held.
HoldersAreAtWork ==
    /\ \A p \in Callers : lane = p => pc[p] \in {"schema", "lock", "write", "commit"}
    /\ \A p \in Callers, s \in Stores : lock[s] = p =>
        StoreOf[p] = s /\ pc[p] \in {"opening", "schema", "write", "commit", "closing"}

\* A connection is opened where there is none, and a write on its way has one,
\* unless it was closed under it.  This is what keeps the two orders apart.
ConnectionsFit ==
    \A p \in Callers :
        /\ pc[p] \in {"opening", "schema"} => conn[StoreOf[p]] = "none"
        /\ pc[p] \in {"lane", "lock"} => conn[StoreOf[p]] # "none" \/ overtaken

WaitInv == HoldersAreAtWork /\ ConnectionsFit

\* A task that cannot go on until another lets go of lane or lock.
Waits(p) ==
    \/ pc[p] \in {"connect", "lock", "close"} /\ lock[StoreOf[p]] # None
    \/ pc[p] \in {"opening", "lane"} /\ lane # None

\* Not everybody waits for everybody.
SomebodyGoesOn ==
    ~overtaken /\ (\E p \in Callers : pc[p] # "idle")
        => \E p \in Callers : pc[p] # "idle" /\ ~Waits(p)

\* One step leaves lane and lock to somebody at work.
LEMMA HoldersStep ==
    ASSUME IInv, HoldersAreAtWork, [Next]_vars
    PROVE  HoldersAreAtWork'
<1> USE Constants DEF IInv, TypeOK, HoldersAreAtWork
<1>1. ASSUME NEW p \in Callers, NEW o \in Ops, Begin(p, o)
      PROVE  HoldersAreAtWork'
    BY <1>1 DEF Begin, GetConnection, Connected, Goto
<1>2. ASSUME NEW p \in Callers, Connect(p)
      PROVE  HoldersAreAtWork'
    BY <1>2 DEF Connect, Connected, Goto
<1>3. ASSUME NEW p \in Callers, TakeLane(p) \/ TakeLock(p) \/ Write(p)
      PROVE  HoldersAreAtWork'
    BY <1>3 DEF TakeLane, TakeLock, Write, Goto
<1>4. ASSUME NEW p \in Callers, Open(p)
      PROVE  HoldersAreAtWork'
    BY <1>4 DEF Open, Connected, Goto, LocksAreHeld
<1>5. ASSUME NEW p \in Callers, Leave(p)
      PROVE  HoldersAreAtWork'
    BY <1>5 DEF Leave, Goto
<1>6. ASSUME NEW p \in Callers, Select(p) \/ StartClose(p)
      PROVE  HoldersAreAtWork'
    BY <1>5, <1>6 DEF Select, StartClose, GetConnection, Connected, Goto
<1>7. ASSUME NEW p \in Callers, Close(p) \/ CancelClose(p)
      PROVE  HoldersAreAtWork'
    BY <1>7, Closing DEF LocksAreHeld
<1>8. CASE (\E s \in Stores : ExecuteLate(s)) \/ Expire \/ UNCHANGED vars
    BY <1>8 DEF ExecuteLate, Expire, vars
<1> QED
    BY <1>1, <1>2, <1>3, <1>4, <1>5, <1>6, <1>7, <1>8
       DEF Next, Proceed, Fail, Commit, CancelWaiting, CancelWrite

\* One step leaves a connection to the writes on their way: who opens one has
\* the lock, and who closes one is remembered.
LEMMA ConnectionsStep ==
    ASSUME IInv, HoldersAreAtWork, ConnectionsFit, [Next]_vars
    PROVE  ConnectionsFit'
<1> USE Constants DEF IInv, TypeOK, ConnectionsFit
<1>1. ASSUME NEW p \in Callers, NEW o \in Ops, Begin(p, o)
      PROVE  ConnectionsFit'
    BY <1>1 DEF Begin, GetConnection, Connected, Goto
<1>2. ASSUME NEW p \in Callers, Connect(p)
      PROVE  ConnectionsFit'
    BY <1>2 DEF Connect, Connected, Goto
<1>3. ASSUME NEW p \in Callers, TakeLane(p) \/ TakeLock(p) \/ Write(p)
      PROVE  ConnectionsFit'
    BY <1>3 DEF TakeLane, TakeLock, Write, Goto
<1>4. ASSUME NEW p \in Callers, Open(p)
      PROVE  ConnectionsFit'
    BY <1>4 DEF Open, Connected, Goto, LocksAreHeld
<1>5. ASSUME NEW p \in Callers, Leave(p), UNCHANGED <<conn, overtaken>>
      PROVE  ConnectionsFit'
    BY <1>5 DEF Leave, Goto
<1>6. ASSUME NEW p \in Callers, Select(p) \/ StartClose(p)
      PROVE  ConnectionsFit'
    BY <1>5, <1>6 DEF Select, StartClose, GetConnection, Connected, Goto
<1>7. ASSUME NEW p \in Callers, Close(p) \/ CancelClose(p)
      PROVE  ConnectionsFit'
    <2>1. /\ pc[p] = "closing" /\ pc' = [pc EXCEPT ![p] = "idle"]
          /\ \/ conn' = [conn EXCEPT ![StoreOf[p]] = "none"]
             \/ conn' = [conn EXCEPT ![StoreOf[p]] = "closed"]
        BY <1>7, Closing
    <2>2. /\ overtaken => overtaken'
          /\ \A q \in Callers : StoreOf[q] = StoreOf[p] /\ pc[q] \in {"lane", "lock"} => overtaken'
        BY <1>7 DEF Close, CancelClose, Shut
    <2>3. ASSUME NEW q \in Callers \ {p}, pc[q] \in {"opening", "schema"}
          PROVE  StoreOf[q] # StoreOf[p]
        BY <2>1, <2>3 DEF LocksAreHeld
    <2> QED
        BY <2>1, <2>2, <2>3
<1>8. CASE (\E s \in Stores : ExecuteLate(s)) \/ Expire \/ UNCHANGED vars
    BY <1>8 DEF ExecuteLate, Expire, vars
<1> QED
    BY <1>1, <1>2, <1>3, <1>4, <1>5, <1>6, <1>7, <1>8
       DEF Next, Proceed, Fail, Commit, CancelWaiting, CancelWrite

\* Lane and lock are taken in two orders, by writing and by opening; who writes
\* has a connection and who opens has none, so no two wait for each other.
LEMMA NotEverybodyWaits == IInv /\ WaitInv => SomebodyGoesOn
<1> SUFFICES ASSUME IInv, WaitInv, ~overtaken, NEW p \in Callers, pc[p] # "idle"
             PROVE  \E q \in Callers : pc[q] # "idle" /\ ~Waits(q)
    BY DEF SomebodyGoesOn
<1> USE Constants DEF IInv, WaitInv, TypeOK
<1>1. ASSUME NEW q \in Callers, lane = q
      PROVE  \E r \in Callers : pc[r] # "idle" /\ ~Waits(r)
    <2>1. pc[q] \in {"schema", "lock", "write", "commit"}
        BY <1>1 DEF HoldersAreAtWork
    <2>2. CASE pc[q] # "lock" \/ lock[StoreOf[q]] = None
        BY <2>1, <2>2 DEF Waits
    <2>3. CASE pc[q] = "lock" /\ lock[StoreOf[q]] # None
        <3>1. PICK r \in Callers : lock[StoreOf[q]] = r
            BY <2>3
        <3>2. StoreOf[r] = StoreOf[q] /\ pc[r] \in {"opening", "schema", "write", "commit", "closing"}
            BY <3>1 DEF HoldersAreAtWork
        <3>3. pc[r] # "opening"
            BY <2>3, <3>2 DEF ConnectionsFit
        <3> QED
            BY <3>2, <3>3 DEF Waits
    <2> QED
        BY <2>2, <2>3
<1>2. CASE ~Waits(p)
    BY <1>2
<1>3. CASE pc[p] \in {"opening", "lane"} /\ lane # None
    BY <1>1, <1>3
<1>4. CASE pc[p] \in {"connect", "lock", "close"} /\ lock[StoreOf[p]] # None
    <2>1. PICK r \in Callers : lock[StoreOf[p]] = r
        BY <1>4
    <2>2. pc[r] \in {"opening", "schema", "write", "commit", "closing"}
        BY <2>1 DEF HoldersAreAtWork
    <2>3. CASE pc[r] = "opening" /\ lane # None
        BY <1>1, <2>3
    <2>4. CASE pc[r] # "opening" \/ lane = None
        BY <2>2, <2>4 DEF Waits
    <2> QED
        BY <2>3, <2>4
<1> QED
    BY <1>2, <1>3, <1>4 DEF Waits

\* Although writing takes the lane and then the lock, and opening a connection
\* the lock and then the lane, some call can always go on, however many there
\* are and whoever is cancelled, as long as no store was closed under a write
\* on its way (sqlite_store.py:126-156 and 198-223).
THEOREM CallsNeverDeadlock == Spec => []SomebodyGoesOn
<1>1. Init => WaitInv
    BY Constants DEF Init, WaitInv, HoldersAreAtWork, ConnectionsFit
<1>2. IInv /\ WaitInv /\ [Next]_vars => WaitInv'
    BY HoldersStep, ConnectionsStep DEF WaitInv
<1>3. IInv /\ WaitInv => SomebodyGoesOn
    BY NotEverybodyWaits
<1> QED
    BY <1>1, <1>2, <1>3, Invariant, PTL DEF Spec
=============================================================================

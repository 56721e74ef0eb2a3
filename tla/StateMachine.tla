----------------------------- MODULE StateMachine -----------------------------
(***************************************************************************)
(* StateMachine (state/fsm.py) over its two stores, InMemoryFsmStore and   *)
(* SqliteFsmStore: concurrent create() and fire() calls on one FSM.        *)
(*                                                                         *)
(* A call loads the record, runs guard and handler, and saves under the    *)
(* version it loaded.  The memory store compares and writes in one step.   *)
(* The SQLite store compares, inserts and commits in three, holding a lock *)
(* of the store object; its connection stays inside the transaction that   *)
(* an INSERT opened until some commit, even if the caller of the INSERT    *)
(* was cancelled.                                                          *)
(***************************************************************************)
EXTENDS Integers, Sequences

CONSTANTS
    Callers,        \* the tasks that call create() and fire()
    Humans,         \* those of them that pass actor_kind "human"
    Stores,         \* the store objects, each with its connection
    Deployments,    \* which store object each caller's machine may have
    Backends,       \* the kinds of store a run covers: "memory", "sqlite"
    Transitions,    \* the transitions the machine was built with
    Initial,        \* initial_state
    Terminal,       \* terminal_states
    None,           \* no record, nobody
    MaxRows         \* bound: transitions in a history

ASSUME CallerAssumption == Humans \subseteq Callers /\ None \notin Callers
ASSUME StoreAssumption ==
    Deployments \subseteq [Callers -> Stores] /\ Backends \subseteq {"memory", "sqlite"}
\* Dispatch is deterministic: one transition per state and event.
ASSUME TransitionAssumption ==
    \A t, u \in Transitions : t.from = u.from /\ t.event = u.event => t = u
ASSUME BoundAssumption == MaxRows \in Nat

Rows == [step : Transitions, actor : Callers]
States == {Initial} \cup {t.from : t \in Transitions} \cup {t.to : t \in Transitions}
Records == [current_state : States, version : Nat, history : Seq(Rows)]

ASSUME NoneAssumption == None \notin Records

VARIABLES
    backend,    \* "memory" or "sqlite"
    storeOf,    \* per caller, its store object
    saved,      \* the record as committed, or None
    dirty,      \* per store, the row of its open transaction, or None
    lock,       \* per store, the caller inside SqliteFsmStore.save, or None
    pc,         \* per caller, where its call is
    new,        \* per caller, the record it is to save
    returned    \* the histories that fire() has returned (not in the code)

vars == <<backend, storeOf, saved, dirty, lock, pc, new, returned>>

Steps == {"idle", "guard", "handler", "save", "insert", "commit"}

\* All callers have the same store object.  (Two InMemoryFsmStores would be
\* two separate worlds.)
Shared == \A p, q \in Callers : storeOf[p] = storeOf[q]

\* The history that is committed; nothing saved yet is an empty one.
Committed == IF saved = None THEN <<>> ELSE saved.history

Log == INSTANCE TransitionLog
    WITH log <- IF Shared THEN Committed ELSE <<>>, Actors <- Callers

\* The records that fit together: the version counts the rows, and
\* current_state is where the last one led.
FsmRecords ==
    {r \in Records : /\ r.version = Len(r.history)
                     /\ r.current_state = Log!StateAfter(r.history)}

\* The stores and the calls only ever hold records that fit together, though
\* version and current_state are updated next to the history
\* (state/transitions.py FsmState, state/fsm.py:199-206).
TypeOK ==
    /\ backend \in Backends
    /\ storeOf \in Deployments
    /\ saved \in FsmRecords \cup {None}
    /\ dirty \in [Stores -> FsmRecords \cup {None}]
    /\ lock \in [Stores -> Callers \cup {None}]
    /\ pc \in [Callers -> Steps]
    /\ new \in [Callers -> FsmRecords]
    /\ returned \subseteq Seq(Rows)

-----------------------------------------------------------------------------

Created == [current_state |-> Initial, version |-> 0, history |-> <<>>]

(* Mutant: model_copy without the new version. *)
After_SameVersion(r, t, p) ==
    [current_state |-> t.to, version |-> r.version,
     history |-> Append(r.history, [step |-> t, actor |-> p])]

\* The record a transition makes of the one that was loaded.
After(r, t, p) ==
    [current_state |-> t.to, version |-> r.version + 1,
     history |-> Append(r.history, [step |-> t, actor |-> p])]

\* What a connection reads: its own open transaction, or what is committed.
Load(s) == IF dirty[s] # None THEN dirty[s] ELSE saved

\* A missing row counts as version 0.
Version(r) == IF r = None THEN 0 ELSE r.version

\* create() saves version 0 and fire() the version after the one it loaded.
Expected(p) == IF new[p].version = 0 THEN 0 ELSE new[p].version - 1

(* Mutant: terminal states are not checked. *)
Dispatch_FromTerminal(r, t, p) ==
    /\ t.from = r.current_state
    /\ Log!MayTake(p, t)

\* The transition the machine takes on an event, after the checks that fire()
\* makes before the guard.
Dispatch(r, t, p) ==
    /\ t.from = r.current_state
    /\ r.current_state \notin Terminal
    /\ Log!MayTake(p, t)

Init ==
    /\ backend \in Backends
    /\ storeOf \in Deployments
    /\ backend = "memory" => Shared
    /\ saved = None
    /\ dirty = [s \in Stores |-> None]
    /\ lock = [s \in Stores |-> None]
    /\ pc = [p \in Callers |-> "idle"]
    /\ new = [p \in Callers |-> Created]
    /\ returned = {}

-----------------------------------------------------------------------------

Goto(p, step) == pc' = [pc EXCEPT ![p] = step]
Unlock(p) == lock' = [lock EXCEPT ![storeOf[p]] = None]
\* The end of a call also forgets the record it worked on.
End(p) == Goto(p, "idle") /\ new' = [new EXCEPT ![p] = Created]
\* What a successful call hands to its caller: a history, unless it created.
Return(p) ==
    returned' = IF new[p].version = 0 THEN returned ELSE returned \cup {new[p].history}

\* create(): nothing may be stored yet.
BeginCreate(p) ==
    /\ pc[p] = "idle"
    /\ Load(storeOf[p]) = None
    /\ new' = [new EXCEPT ![p] = Created]
    /\ Goto(p, "save")
    /\ UNCHANGED <<backend, storeOf, saved, dirty, lock, returned>>

\* fire(): load the record and pass the checks.
BeginFire(p, t) ==
    LET r == Load(storeOf[p]) IN
    /\ pc[p] = "idle"
    /\ r # None
    /\ r.version < MaxRows
    /\ Dispatch(r, t, p)
    /\ new' = [new EXCEPT ![p] = After(r, t, p)]
    /\ Goto(p, "guard")
    /\ UNCHANGED <<backend, storeOf, saved, dirty, lock, returned>>

\* The guard allows the transition.  No guard: it does so at once.
GuardAllows(p) ==
    /\ pc[p] = "guard"
    /\ Goto(p, "handler")
    /\ UNCHANGED <<backend, storeOf, saved, dirty, lock, new, returned>>

\* The handler runs before the save.  No handler: it is done at once.
HandlerDone(p) ==
    /\ pc[p] = "handler"
    /\ Goto(p, "save")
    /\ UNCHANGED <<backend, storeOf, saved, dirty, lock, new, returned>>

\* The guard rejects or raises, or the handler raises.
Refuse(p) ==
    /\ pc[p] \in {"guard", "handler"}
    /\ End(p)
    /\ UNCHANGED <<backend, storeOf, saved, dirty, lock, returned>>

\* InMemoryFsmStore.save: compare and store without a suspension.
SaveInMemory(p) ==
    /\ backend = "memory" /\ pc[p] = "save"
    /\ Version(saved) = Expected(p)
    /\ saved' = new[p]
    /\ Return(p)
    /\ End(p)
    /\ UNCHANGED <<backend, storeOf, dirty, lock>>

(* Mutant: the version is checked outside the lock. *)
Check_Unlocked(p) ==
    /\ backend = "sqlite" /\ pc[p] = "save"
    /\ Version(Load(storeOf[p])) = Expected(p)
    /\ lock' = [lock EXCEPT ![storeOf[p]] = p]
    /\ Goto(p, "insert")
    /\ UNCHANGED <<backend, storeOf, saved, dirty, new, returned>>

\* SqliteFsmStore.save: take the lock and SELECT the version.
Check(p) ==
    /\ backend = "sqlite" /\ pc[p] = "save"
    /\ lock[storeOf[p]] = None
    /\ Version(Load(storeOf[p])) = Expected(p)
    /\ lock' = [lock EXCEPT ![storeOf[p]] = p]
    /\ Goto(p, "insert")
    /\ UNCHANGED <<backend, storeOf, saved, dirty, new, returned>>

\* Another version is stored: VersionConflict.
Conflict(p) ==
    /\ pc[p] = "save"
    /\ lock[storeOf[p]] = None
    /\ Version(Load(storeOf[p])) # Expected(p)
    /\ End(p)
    /\ UNCHANGED <<backend, storeOf, saved, dirty, lock, returned>>

\* Only one connection can be in a write transaction.
Writable(s) == \A o \in Stores \ {s} : dirty[o] = None

Insert(p) ==
    /\ pc[p] = "insert"
    /\ Writable(storeOf[p])
    /\ dirty' = [dirty EXCEPT ![storeOf[p]] = new[p]]
    /\ Goto(p, "commit")
    /\ UNCHANGED <<backend, storeOf, saved, lock, new, returned>>

\* Another connection's transaction outlasts busy_timeout: the INSERT raises.
Busy(p) ==
    /\ pc[p] = "insert"
    /\ ~Writable(storeOf[p])
    /\ Unlock(p)
    /\ End(p)
    /\ UNCHANGED <<backend, storeOf, saved, dirty, returned>>

Commit(p) ==
    /\ pc[p] = "commit"
    /\ saved' = dirty[storeOf[p]]
    /\ dirty' = [dirty EXCEPT ![storeOf[p]] = None]
    /\ Unlock(p)
    /\ Return(p)
    /\ End(p)
    /\ UNCHANGED <<backend, storeOf>>

\* The caller is cancelled before or while it waits for the lock.
CancelEarly(p) ==
    /\ pc[p] \in {"guard", "handler", "save"}
    /\ End(p)
    /\ UNCHANGED <<backend, storeOf, saved, dirty, lock, returned>>

(* Mutant: a cancelled save keeps the lock. *)
CancelLate_KeepsLock(p) ==
    /\ pc[p] \in {"insert", "commit"}
    /\ End(p)
    /\ UNCHANGED <<backend, storeOf, saved, dirty, lock, returned>>

\* It is cancelled inside the lock.  What it handed to the thread of the
\* connection still happens: the INSERT, or the commit, or neither.
CancelLate(p) ==
    /\ pc[p] \in {"insert", "commit"}
    /\ Unlock(p)
    /\ End(p)
    /\ \/ UNCHANGED <<saved, dirty>>
       \/ /\ pc[p] = "insert" /\ Writable(storeOf[p])
          /\ dirty' = [dirty EXCEPT ![storeOf[p]] = new[p]]
          /\ UNCHANGED saved
       \/ /\ pc[p] = "commit"
          /\ saved' = dirty[storeOf[p]]
          /\ dirty' = [dirty EXCEPT ![storeOf[p]] = None]
    /\ UNCHANGED <<backend, storeOf, returned>>

\* The process of a store dies with its callers; SQLite drops the open
\* transaction.  close() when no call is under way is the same step.
Crash(s) ==
    /\ backend = "sqlite"
    /\ dirty' = [dirty EXCEPT ![s] = None]
    /\ lock' = [lock EXCEPT ![s] = None]
    /\ pc' = [p \in Callers |-> IF storeOf[p] = s THEN "idle" ELSE pc[p]]
    /\ new' = [p \in Callers |-> IF storeOf[p] = s THEN Created ELSE new[p]]
    /\ UNCHANGED <<backend, storeOf, saved, returned>>

Fire(p) == \E t \in Transitions : BeginFire(p, t)
Save(p) == SaveInMemory(p) \/ Check(p) \/ Conflict(p)
Proceed(p) == GuardAllows(p) \/ HandlerDone(p) \/ Insert(p) \/ Busy(p) \/ Commit(p)

Next ==
    \/ \E p \in Callers :
        BeginCreate(p) \/ Fire(p) \/ Save(p) \/ Proceed(p)
          \/ Refuse(p) \/ CancelEarly(p) \/ CancelLate(p)
    \/ \E s \in Stores : Crash(s)

Spec == Init /\ [][Next]_vars

(***************************************************************************)
(* Guards, handlers and the database answer.  The waiters of an            *)
(* asyncio.Lock are served in order, so that a caller that the lock is     *)
(* free for again and again gets it.                                       *)
(***************************************************************************)
Fairness == \A p \in Callers : WF_vars(Proceed(p)) /\ SF_vars(Save(p))

FairSpec == Spec /\ Fairness

-----------------------------------------------------------------------------
(***************************************************************************)
(* Properties.                                                             *)
(***************************************************************************)

\* A transition that fire() reported to its caller stays in the history for
\* ever, also when other callers race with it, are cancelled between INSERT
\* and commit, or the process dies (the version check of both stores,
\* persistence.py:40-50 and sqlite_store.py:109-138).
TransitionsStand ==
    \A h \in returned : Log!Extends(Committed, h)

\* With one store object that all machines share, and at most one process.
ReturnedTransitionsStand == Shared => TransitionsStand

\* What is stored is always a legal run of the machine and is only ever
\* extended: no transition out of a terminal state, none that an agent may
\* not take, and no row that is lost or rewritten (state/fsm.py fire).
ImplementsLog == Log!Spec

\* Every call of create() and fire() ends, whoever is cancelled while holding
\* the lock of the store (sqlite_store.py:111-137).
EveryCallEnds == \A p \in Callers : pc[p] # "idle" ~> pc[p] = "idle"
=============================================================================

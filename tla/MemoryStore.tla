----------------------------- MODULE MemoryStore -----------------------------
(***************************************************************************)
(* SqliteMemoryStore: several store objects of one process on one database *)
(* file.  A write holds the writer lane of the process, which is taken by  *)
(* polling, and inside it the asyncio.Lock of its store.  Opening the      *)
(* connection holds them the other way round.                              *)
(*                                                                         *)
(* A statement is executed by the thread of the connection: cancelling the *)
(* task that awaits it lets go of lane and lock, but not of the statement, *)
(* which is still executed.  busy_timeout is 0, as the documents allow.    *)
(* The table has the row of one key; of the item only its expiry matters.  *)
(***************************************************************************)
EXTENDS Naturals

CONSTANTS
    Callers,    \* asyncio tasks
    Stores,     \* SqliteMemoryStore objects
    StoreOf,    \* the store a task uses
    None,
    MaxCalls    \* bound: calls of the stores' methods

ASSUME StoreAssumption ==
    /\ StoreOf \in [Callers -> Stores]
    /\ None \notin Callers
    /\ None \notin {"none", "fresh", "expired", "set", "delete", "cleanup_expired", "commit"}

VARIABLES
    row,        \* the committed row: "none", "fresh" or "expired"
    dirty,      \* per connection: what its open transaction made of it, or None
    late,       \* per connection: a statement whose caller was cancelled and
                \*   that the thread has yet to execute, or None
    conn,       \* per store: _conn is "none", "open", or closed but not unset
    lane,       \* who holds the writer lane, or None
    lock,       \* per store: who holds _lock, or None
    pc,         \* where each call is
    op,         \* what it is a call of
    live,       \* whether the connection it got is still open
    calls,
    abandoned,  \* history: stores with a transaction whose caller was cancelled
    overtaken   \* history: a store was closed under a write on its way

vars == <<row, dirty, late, conn, lane, lock, pc, op, live, calls, abandoned, overtaken>>

Rows == {"none", "fresh", "expired"}
Writes == {"set", "delete", "cleanup_expired"}
Ops == Writes \cup {"get", "close"}
Steps == {"idle", "connect", "opening", "schema", "lane", "lock", "write", "commit",
          "select", "close", "closing"}

TypeOK ==
    /\ row \in Rows
    /\ dirty \in [Stores -> Rows \cup {None}]
    /\ late \in [Stores -> Writes \cup {"commit", None}]
    /\ conn \in [Stores -> {"none", "open", "closed"}]
    /\ lane \in Callers \cup {None}
    /\ lock \in [Stores -> Callers \cup {None}]
    /\ pc \in [Callers -> Steps]
    /\ op \in [Callers -> Ops]
    /\ live \in [Callers -> BOOLEAN]
    /\ calls \in Nat
    /\ abandoned \subseteq Stores
    /\ overtaken \in BOOLEAN

Init ==
    /\ row = "none"
    /\ dirty = [s \in Stores |-> None]
    /\ late = [s \in Stores |-> None]
    /\ conn = [s \in Stores |-> "none"]
    /\ lane = None
    /\ lock = [s \in Stores |-> None]
    /\ pc = [p \in Callers |-> "idle"]
    /\ op = [p \in Callers |-> "get"]
    /\ live = [p \in Callers |-> FALSE]
    /\ calls = 0
    /\ abandoned = {}
    /\ overtaken = FALSE

-----------------------------------------------------------------------------

\* What a connection reads: its own open transaction, or what is committed.
Load(s) == IF dirty[s] # None THEN dirty[s] ELSE row

\* SQLite: one write transaction per database file.
Writable(s) == \A o \in Stores \ {s} : dirty[o] = None

Effect(o, r) ==
    CASE o = "set"    -> "fresh"
      [] o = "delete" -> "none"
      [] OTHER        -> IF r = "expired" THEN "none" ELSE r

Goto(p, step) == pc' = [pc EXCEPT ![p] = step]

\* Where a call goes once it has a connection, which is open or no longer so.
Connected(p, o, open) ==
    /\ Goto(p, IF o = "get" THEN "select" ELSE "lane")
    /\ live' = [live EXCEPT ![p] = open]

\* The call is over; what it held is free.
Leave(p) ==
    /\ Goto(p, "idle")
    /\ op' = [op EXCEPT ![p] = "get"]
    /\ live' = [live EXCEPT ![p] = FALSE]
    /\ lane' = IF lane = p THEN None ELSE lane
    /\ lock' = [s \in Stores |-> IF lock[s] = p THEN None ELSE lock[s]]

\* _connection: the one there is, or on to opening one.
GetConnection(p, o) ==
    LET s == StoreOf[p] IN
    IF conn[s] = "none" THEN Goto(p, "connect") /\ UNCHANGED live
                        ELSE Connected(p, o, conn[s] = "open")

-----------------------------------------------------------------------------

Begin(p, o) ==
    /\ pc[p] = "idle" /\ calls < MaxCalls
    /\ calls' = calls + 1
    /\ op' = [op EXCEPT ![p] = o]
    /\ IF o = "close" THEN Goto(p, "close") /\ UNCHANGED live ELSE GetConnection(p, o)
    /\ UNCHANGED <<row, dirty, late, conn, lane, lock, abandoned, overtaken>>

\* _connection with the lock: another call may have connected meanwhile.
Connect(p) ==
    LET s == StoreOf[p] IN
    /\ pc[p] = "connect" /\ lock[s] = None
    /\ IF conn[s] # "none"
       THEN Connected(p, op[p], conn[s] = "open") /\ UNCHANGED lock
       ELSE Goto(p, "opening") /\ lock' = [lock EXCEPT ![s] = p] /\ UNCHANGED live
    /\ UNCHANGED <<row, dirty, late, conn, lane, op, calls, abandoned, overtaken>>

(* Mutant: the lane is keyed by the path as it was given, and the stores were *)
(* given different ones for the one file. *)
TakeLane_PerStore(p) ==
    /\ pc[p] \in {"opening", "lane"} /\ IF lane = None THEN TRUE ELSE StoreOf[lane] # StoreOf[p]
    /\ lane' = p
    /\ Goto(p, IF pc[p] = "opening" THEN "schema" ELSE "lock")
    /\ UNCHANGED <<row, dirty, late, conn, lock, op, live, calls, abandoned, overtaken>>

\* _acquire_writer_lane: a poll that succeeds.
TakeLane(p) ==
    /\ pc[p] \in {"opening", "lane"} /\ lane = None
    /\ lane' = p
    /\ Goto(p, IF pc[p] = "opening" THEN "schema" ELSE "lock")
    /\ UNCHANGED <<row, dirty, late, conn, lock, op, live, calls, abandoned, overtaken>>

\* The pragmas and the schema are executed, and the connection is there.  If
\* another connection has a transaction open, the table exists and nothing of
\* this needs the write lock of the database.
Open(p) ==
    LET s == StoreOf[p] IN
    /\ pc[p] = "schema"
    /\ conn' = [conn EXCEPT ![s] = "open"]
    /\ lane' = None
    /\ lock' = [lock EXCEPT ![s] = None]
    /\ Connected(p, op[p], TRUE)
    /\ UNCHANGED <<row, dirty, late, op, calls, abandoned, overtaken>>

TakeLock(p) ==
    LET s == StoreOf[p] IN
    /\ pc[p] = "lock" /\ lock[s] = None
    /\ lock' = [lock EXCEPT ![s] = p]
    /\ Goto(p, "write")
    /\ UNCHANGED <<row, dirty, late, conn, lane, op, live, calls, abandoned, overtaken>>

\* The INSERT or DELETE, which begins a transaction.
Write(p) ==
    LET s == StoreOf[p] IN
    /\ pc[p] = "write" /\ late[s] = None
    /\ live[p] /\ Writable(s)
    /\ dirty' = [dirty EXCEPT ![s] = Effect(op[p], Load(s))]
    /\ Goto(p, "commit")
    /\ UNCHANGED <<row, late, conn, lane, lock, op, live, calls, abandoned, overtaken>>

(* Mutant: no finally clause lets go of the lane. *)
Fail_KeepsLane(p) ==
    LET s == StoreOf[p] IN
    /\ \/ pc[p] = "write" /\ ~Writable(s)
       \/ pc[p] \in {"write", "select"} /\ ~live[p]
    /\ late[s] = None
    /\ Goto(p, "idle")
    /\ lock' = [lock EXCEPT ![s] = IF @ = p THEN None ELSE @]
    /\ UNCHANGED <<row, dirty, late, conn, lane, op, live, calls, abandoned, overtaken>>

\* SQLITE_BUSY, or the connection was closed: the statement raises.
Fail(p) ==
    LET s == StoreOf[p] IN
    /\ \/ pc[p] = "write" /\ ~Writable(s)
       \/ pc[p] \in {"write", "select"} /\ ~live[p]
    /\ late[s] = None
    /\ Leave(p)
    /\ UNCHANGED <<row, dirty, late, conn, calls, abandoned, overtaken>>

Commit(p) ==
    LET s == StoreOf[p] IN
    /\ pc[p] = "commit" /\ late[s] = None
    /\ row' = dirty[s]
    /\ dirty' = [dirty EXCEPT ![s] = None]
    /\ abandoned' = abandoned \ {s}
    /\ Leave(p)
    /\ UNCHANGED <<late, conn, calls, overtaken>>

\* get(): the row that is read; one that has expired is deleted by key in a
\* call of its own.
Select(p) ==
    LET s == StoreOf[p] IN
    /\ pc[p] = "select" /\ late[s] = None /\ live[p]
    /\ IF Load(s) = "expired"
       THEN /\ op' = [op EXCEPT ![p] = "delete"]
            /\ GetConnection(p, "delete")
            /\ UNCHANGED <<lane, lock>>
       ELSE Leave(p)
    /\ UNCHANGED <<row, dirty, late, conn, calls, abandoned, overtaken>>

\* close() with the lock.
StartClose(p) ==
    LET s == StoreOf[p] IN
    /\ pc[p] = "close" /\ lock[s] = None
    /\ IF conn[s] = "none"
       THEN Leave(p)
       ELSE /\ lock' = [lock EXCEPT ![s] = p]
            /\ Goto(p, "closing")
            /\ UNCHANGED <<lane, op, live>>
    /\ UNCHANGED <<row, dirty, late, conn, calls, abandoned, overtaken>>

\* The connection of s is closed, and its open transaction rolled back.
Shut(s) ==
    /\ dirty' = [dirty EXCEPT ![s] = None]
    /\ abandoned' = abandoned \ {s}
    /\ overtaken' = (overtaken \/ \E q \in Callers : StoreOf[q] = s /\ pc[q] \in {"lane", "lock"})

Close(p) ==
    LET s == StoreOf[p] IN
    /\ pc[p] = "closing" /\ late[s] = None
    /\ Shut(s)
    /\ conn' = [conn EXCEPT ![s] = "none"]
    /\ Goto(p, "idle")
    /\ op' = [op EXCEPT ![p] = "get"]
    /\ live' = [q \in Callers |-> IF StoreOf[q] = s THEN FALSE ELSE live[q]]
    /\ lock' = [lock EXCEPT ![s] = None]
    /\ UNCHANGED <<row, late, lane, calls>>

-----------------------------------------------------------------------------
(***************************************************************************)
(* Cancellation, and what goes on without the cancelled call.              *)
(***************************************************************************)

\* The task waits for a lock or a poll, or for what leaves nothing behind.
CancelWaiting(p) ==
    /\ pc[p] \in {"connect", "opening", "schema", "lane", "lock", "select", "close"}
    /\ Leave(p)
    /\ UNCHANGED <<row, dirty, late, conn, calls, abandoned, overtaken>>

\* The task waits for the thread to execute its statement.
CancelWrite(p) ==
    LET s == StoreOf[p] IN
    /\ pc[p] \in {"write", "commit"} /\ late[s] = None
    /\ late' = [late EXCEPT ![s] = IF pc[p] = "write" THEN op[p] ELSE "commit"]
    /\ abandoned' = abandoned \cup {s}
    /\ Leave(p)
    /\ UNCHANGED <<row, dirty, conn, calls, overtaken>>

\* close() is cancelled: the connection closes, and _conn still names it.
CancelClose(p) ==
    LET s == StoreOf[p] IN
    /\ pc[p] = "closing" /\ late[s] = None
    /\ Shut(s)
    /\ conn' = [conn EXCEPT ![s] = "closed"]
    /\ Goto(p, "idle")
    /\ op' = [op EXCEPT ![p] = "get"]
    /\ live' = [q \in Callers |-> IF StoreOf[q] = s THEN FALSE ELSE live[q]]
    /\ lock' = [lock EXCEPT ![s] = None]
    /\ UNCHANGED <<row, late, lane, calls>>

\* The thread gets to a statement nobody waits for: a write begins a
\* transaction that stays open, unless it is refused; a commit ends one.
ExecuteLate(s) ==
    /\ late[s] # None
    /\ late' = [late EXCEPT ![s] = None]
    /\ IF late[s] = "commit"
       THEN /\ row' = Load(s)
            /\ dirty' = [dirty EXCEPT ![s] = None]
            /\ abandoned' = abandoned \ {s}
       ELSE /\ dirty' = IF conn[s] = "open" /\ Writable(s)
                        THEN [dirty EXCEPT ![s] = Effect(late[s], Load(s))] ELSE dirty
            /\ UNCHANGED <<row, abandoned>>
    /\ UNCHANGED <<conn, lane, lock, pc, op, live, calls, overtaken>>

\* The item's time to live runs out.
Expire ==
    /\ row = "fresh" \/ \E s \in Stores : dirty[s] = "fresh"
    /\ row' = IF row = "fresh" THEN "expired" ELSE row
    /\ dirty' = [s \in Stores |-> IF dirty[s] = "fresh" THEN "expired" ELSE dirty[s]]
    /\ UNCHANGED <<late, conn, lane, lock, pc, op, live, calls, abandoned, overtaken>>

-----------------------------------------------------------------------------

Proceed(p) ==
    \/ Connect(p) \/ TakeLane(p) \/ Open(p) \/ TakeLock(p)
    \/ Write(p) \/ Fail(p) \/ Commit(p)
    \/ Select(p) \/ StartClose(p) \/ Close(p)

Next ==
    \/ \E p \in Callers :
        \/ \E o \in Ops : Begin(p, o)
        \/ Proceed(p)
        \/ CancelWaiting(p) \/ CancelWrite(p) \/ CancelClose(p)
    \/ \E s \in Stores : ExecuteLate(s)
    \/ Expire

Spec == Init /\ [][Next]_vars

(***************************************************************************)
(* The threads of the connections answer and the event loop resumes what   *)
(* is ready.  The lane is polled, so that a caller may lose it to others   *)
(* for as long as they keep coming: nothing stronger is assumed.           *)
(***************************************************************************)
Fairness ==
    /\ \A p \in Callers : WF_vars(Proceed(p))
    /\ \A s \in Stores : WF_vars(ExecuteLate(s))

FairSpec == Spec /\ Fairness

-----------------------------------------------------------------------------
(***************************************************************************)
(* Properties.                                                             *)
(***************************************************************************)

\* An open transaction is that of the call that holds the lane and the lock of
\* the connection's store, or of a call that was cancelled.
TransactionsAreOwned ==
    \A s \in Stores : dirty[s] # None =>
        \/ s \in abandoned
        \/ \E p \in Callers : StoreOf[p] = s /\ pc[p] = "commit" /\ lane = p /\ lock[s] = p

\* No statement finds the database locked by another connection, unless a
\* write was cancelled in the middle: the writer lane keeps the stores of a
\* process apart even without a busy_timeout (sqlite_store.py:9-11).
BusyNeedsACancelledWrite ==
    \A p \in Callers :
        pc[p] = "write" /\ ~Writable(StoreOf[p])
            => \E s \in Stores \ {StoreOf[p]} : s \in abandoned

\* Every call ends, although writing and connecting take lane and lock in
\* opposite orders, unless a store was closed while a write that had its
\* connection was waiting (sqlite_store.py:126-156 and 198-223).
CallsEndUnlessClosedUnder ==
    \A p \in Callers : pc[p] # "idle" ~> pc[p] = "idle" \/ overtaken
=============================================================================

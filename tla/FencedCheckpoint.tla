-------------------------- MODULE FencedCheckpoint --------------------------
(***************************************************************************)
(* Checkpoint files written by workers that hold run leases: the           *)
(* FencedCheckpointer of run_lease.py over the FileCheckpointer of         *)
(* file_checkpointer.py.                                                   *)
(*                                                                         *)
(* FencedCheckpointer validates the lease, which needs the lease file's    *)
(* lock, and only then calls the inner checkpointer, which takes the       *)
(* checkpoint file's lock: any other process may run in between, and the   *)
(* clock may pass the expiry.  FileCheckpointer compares fencing tokens    *)
(* with the checkpoint on file, replaces the file, and prunes the          *)
(* directory after it has let go of the lock: it lists the files, stats    *)
(* each of them, and unlinks the oldest ones.                              *)
(***************************************************************************)
EXTENDS RunLease, FiniteSets

CONSTANTS
    Bodies,          \* what a checkpoint says, apart from its fencing token
    MaxCheckpoints   \* FileCheckpointer's max_checkpoints; 0 disables pruning

ASSUME FencedCheckpointAssumption ==
    /\ MaxCheckpoints \in Nat
    /\ None \notin [token: Nat, body: Bodies]
    /\ None \notin [step: {"write", "delete", "glob", "stat", "unlink"},
                    body: Bodies \union {None}, files: SUBSET Runs]

VARIABLES
    file,    \* the checkpoint file of each run, None when there is none
    newer,   \* <<a, b>>: the file of run a was modified after the file of run b
    call     \* per worker, the save or delete call it is inside of

fileVars == <<file, newer, call>>
vars == <<clock, store, claim, lease, file, newer, call>>

Checkpoint == [token: Nat, body: Bodies]

\* A call is about the run of its worker's lease.
Call == [step: {"write", "delete", "glob", "stat", "unlink"},
         body: Bodies \union {None}, files: SUBSET Runs]

TypeOK ==
    /\ LeaseTypeOK
    /\ file \in [Runs -> Checkpoint \union {None}]
    /\ newer \subseteq Runs \X Runs
    /\ call \in [Workers -> Call \union {None}]

Init ==
    /\ LeaseInit
    /\ file = [r \in Runs |-> None]
    /\ newer = {}
    /\ call = [w \in Workers |-> None]

-----------------------------------------------------------------------------
Files == {r \in Runs : file[r] # None}
Without(r) == {p \in newer : p[1] # r /\ p[2] # r}

\* The run of a worker in a call, or about to make one.
RunOf(w) == lease[w].run
At(w, step) == call[w] # None /\ call[w].step = step
Enter(w, step, body, files) ==
    call' = [call EXCEPT ![w] = [step |-> step, body |-> body, files |-> files]]
Leave(w) == call' = [call EXCEPT ![w] = None]

(* Writing makes a run's file the newest of the directory.                 *)
Write(r, checkpoint) ==
    /\ file' = [file EXCEPT ![r] = checkpoint]
    /\ newer' = Without(r) \union ({r} \X (Files \ {r}))

Remove(r) ==
    /\ file' = [file EXCEPT ![r] = None]
    /\ newer' = Without(r)

-----------------------------------------------------------------------------
(* FencedCheckpointer.save and delete, the lease check.  A check that      *)
(* fails raises StaleRunLeaseError and changes nothing.                    *)
CheckedSave(w, body) ==
    /\ lease[w] # None
    /\ call[w] = None
    /\ Validates(w)
    /\ Enter(w, "write", body, {})
    /\ UNCHANGED <<leaseVars, file, newer>>

CheckedDelete(w) ==
    /\ lease[w] # None
    /\ call[w] = None
    /\ Validates(w)
    /\ Enter(w, "delete", None, {})
    /\ UNCHANGED <<leaseVars, file, newer>>

(* Mutant: an owner takes its predecessor's late write for its own.        *)
Fenced_OffByOne(r, token) == file[r] # None /\ token + 1 < file[r].token

(* A lower token than the one on file is refused: StaleCheckpointWriteError. *)
Fenced(r, token) == file[r] # None /\ token < file[r].token

StaleWrite(w) ==
    /\ At(w, "write")
    /\ Fenced(RunOf(w), lease[w].token)
    /\ Leave(w)
    /\ UNCHANGED <<leaseVars, file, newer>>

(* The write, stamped with the lease's token.  The save returns here when  *)
(* pruning is off.                                                         *)
WriteFile(w) ==
    /\ At(w, "write")
    /\ ~Fenced(RunOf(w), lease[w].token)
    /\ Write(RunOf(w), [token |-> lease[w].token, body |-> call[w].body])
    /\ IF MaxCheckpoints = 0 THEN Leave(w) ELSE Enter(w, "glob", None, {})
    /\ UNCHANGED leaseVars

(* The disk fails, and the file is what it was.                            *)
WriteFails(w) ==
    /\ At(w, "write")
    /\ Leave(w)
    /\ UNCHANGED <<leaseVars, file, newer>>

(* _prune.  sorted() first drains the glob, then stats every file for its  *)
(* key; a file unlinked in between makes stat raise, and the save fails    *)
(* although its checkpoint is on disk.                                     *)
Glob(w) ==
    /\ At(w, "glob")
    /\ Enter(w, "stat", None, Files)
    /\ UNCHANGED <<leaseVars, file, newer>>

StatFails(w) ==
    /\ At(w, "stat")
    /\ ~(call[w].files \subseteq Files)
    /\ Leave(w)
    /\ UNCHANGED <<leaseVars, file, newer>>

Oldest(files) ==
    {r \in files : Cardinality({s \in files : <<s, r>> \in newer}) >= MaxCheckpoints}

Stat(w) ==
    /\ At(w, "stat")
    /\ call[w].files \subseteq Files
    /\ Enter(w, "unlink", None, Oldest(call[w].files))
    /\ UNCHANGED <<leaseVars, file, newer>>

Unlink(w, r) ==
    /\ At(w, "unlink")
    /\ r \in call[w].files
    /\ Remove(r)
    /\ Enter(w, "unlink", None, call[w].files \ {r})
    /\ UNCHANGED leaseVars

PruneDone(w) ==
    /\ At(w, "unlink")
    /\ call[w].files = {}
    /\ Leave(w)
    /\ UNCHANGED <<leaseVars, file, newer>>

(* FileCheckpointer.delete takes no lock and looks at no token.            *)
DeleteFile(w) ==
    /\ At(w, "delete")
    /\ Remove(RunOf(w))
    /\ Leave(w)
    /\ UNCHANGED leaseVars

-----------------------------------------------------------------------------
(* The lease operations, between the checkpointer calls of a worker.       *)
LeaseStep(w) ==
    /\ call[w] = None
    /\ \/ \E r \in Runs : StartAcquire(w, r)
       \/ Grant(w)
       \/ Refuse(w)
       \/ Release(w)
       \/ StaleRelease(w)
    /\ UNCHANGED fileVars

(* A process may die inside a call; the replacement of the file is atomic. *)
Die(w) ==
    /\ Crash(w)
    /\ Leave(w)
    /\ UNCHANGED <<file, newer>>

Next ==
    \/ Tick /\ UNCHANGED fileVars
    \/ \E w \in Workers :
         \/ LeaseStep(w)
         \/ Die(w)
         \/ \E body \in Bodies : CheckedSave(w, body)
         \/ CheckedDelete(w)
         \/ StaleWrite(w)
         \/ WriteFile(w)
         \/ WriteFails(w)
         \/ Glob(w)
         \/ StatFails(w)
         \/ Stat(w)
         \/ \E r \in Runs : Unlink(w, r)
         \/ PruneDone(w)
         \/ DeleteFile(w)

Spec == Init /\ [][Next]_vars

-----------------------------------------------------------------------------
(* Properties.                                                             *)

(* No two live lease objects for one run carry the same fencing token,     *)
(* however claims, releases, expiries and crashes interleave: a token      *)
(* names one ownership, even one that was released or taken over.          *)
TokensIdentifyOneOwner ==
    \A v, w \in Workers :
        /\ v # w
        /\ lease[v] # None /\ lease[w] # None
        /\ lease[v].run = lease[w].run
        => lease[v].token # lease[w].token

(* acquire decides with a time it read before it held the lock; the delay  *)
(* may make it refuse a lease that has run out, never take one that has    *)
(* not: a run passes to a new token only when nobody holds it now.         *)
LeaseIsNeverTakenEarly ==
    [][\A r \in Runs :
         store'[r].token # store[r].token
         => store[r].holder = None \/ store[r].expires <= clock]_vars

(* Once the present owner of a run has a checkpoint on file, a deposed     *)
(* worker whose lease check was passed long ago can no longer replace it   *)
(* (FileCheckpointer.save's token comparison): what is on file stays, is   *)
(* removed, or is replaced under the same or a newer ownership.            *)
OwnersCheckpointStands ==
    [][\A r \in Runs :
         /\ file[r] # None
         /\ file[r].token = store[r].token
         /\ file'[r] # None
         => file'[r] = file[r] \/ file'[r].token >= store[r].token]_vars

(* The workers' files implement the fenced register.                       *)
Register == INSTANCE FencedRegister WITH
    issued <- [r \in Runs |-> store[r].token],
    value <- file

ImplementsRegister == Register!Spec

(* disposable-worker-durable-companion.md: "stale checkpoint writes are    *)
(* rejected even if validation raced with takeover".  What lands on file   *)
(* is always written by the current owner.  FencedCheckpointer checks the  *)
(* lease in one step and writes in another, and the token comparison only  *)
(* knows owners that have already written.                                 *)
StaleSavesAreRejected ==
    [][\A r \in Runs :
         file'[r] # file[r] /\ file'[r] # None => file'[r].token = store[r].token]_vars
=============================================================================

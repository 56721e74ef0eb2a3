----------------------- MODULE DurableWorkers_proofs -----------------------
(***************************************************************************)
(* Proofs about FencedCheckpoint and about CheckpointingExecutor, which    *)
(* extends it: for any sets of runs, workers, nodes and setups, any order  *)
(* of the nodes, any TTL, any retention cap where the files alone are      *)
(* concerned, and any bounds.                                              *)
(*                                                                         *)
(* The first part is about leases and files.  The second shows that the    *)
(* executors use them in no other way, so that its invariant can rest on   *)
(* the first one's, and what they promise about runs.                      *)
(***************************************************************************)
EXTENDS CheckpointingExecutor, TLAPS

(* The strengthening behind every theorem below: a lease in memory carries *)
(* a token the lease file has handed out, tokens identify owners, and a    *)
(* call in progress belongs to a worker with a lease and, when it is about *)
(* to write, has something to write.  A claim's clock reading is past.     *)
TokensWereHandedOut ==
    \A w \in Workers :
        lease[w] # None => lease[w].token \in 1..store[lease[w].run].token

CallsAreOwned ==
    \A w \in Workers :
        call[w] # None =>
            /\ lease[w] # None
            /\ call[w].step = "write" => call[w].body \in Bodies

ClaimsArePast ==
    \A w \in Workers : claim[w] # None => claim[w].now <= clock

IInv == TypeOK /\ ClaimsArePast /\ TokensWereHandedOut /\ TokensIdentifyOneOwner /\ CallsAreOwned

-----------------------------------------------------------------------------
LEMMA InitIInv == Init => IInv
BY RunLeaseAssumption
   DEF Init, LeaseInit, IInv, TypeOK, LeaseTypeOK, LeaseFile, AbsentFile,
       ClaimsArePast, TokensWereHandedOut, TokensIdentifyOneOwner, CallsAreOwned

(* The lease operations keep the invariant, whatever calls are in progress *)
(* elsewhere.                                                              *)
LEMMA LeaseStepIInv ==
    ASSUME IInv, NEW w \in Workers, LeaseStep(w)
    PROVE  IInv'
<1> USE RunLeaseAssumption
    DEF IInv, TypeOK, LeaseTypeOK, LeaseFile, Claim, RunLease, ClaimsArePast
<1>1. ASSUME NEW r \in Runs, StartAcquire(w, r)
      PROVE  IInv'
  BY <1>1 DEF LeaseStep, StartAcquire, fileVars, TokensWereHandedOut,
              TokensIdentifyOneOwner, CallsAreOwned
<1>2. CASE Grant(w)
  <2> DEFINE r == claim[w].run
             token == store[r].token + 1
  <2>1. r \in Runs /\ claim[w].now \in Nat /\ token \in Nat \ {0} /\ claim[w].now + TTL \in Nat
    BY <1>2 DEF Grant
  <2>2. /\ store' = [store EXCEPT ![r] =
                       [holder |-> w, token |-> token, expires |-> claim[w].now + TTL]]
        /\ lease' = [lease EXCEPT ![w] = [run |-> r, token |-> token]]
        /\ claim' = [claim EXCEPT ![w] = None]
        /\ call[w] = None
        /\ UNCHANGED <<clock, file, newer, call>>
    BY <1>2 DEF Grant, LeaseStep, fileVars
  <2>3. TypeOK' /\ ClaimsArePast'
    BY <2>1, <2>2
  <2>4. \A q \in Runs : store'[q].token >= store[q].token
    BY <2>1, <2>2
  <2>5. TokensWereHandedOut'
    BY <2>1, <2>2, <2>4 DEF TokensWereHandedOut
  <2>6. TokensIdentifyOneOwner'
    BY <2>1, <2>2 DEF TokensWereHandedOut, TokensIdentifyOneOwner
  <2>7. CallsAreOwned'
    BY <2>2 DEF CallsAreOwned
  <2>8. QED
    BY <2>3, <2>5, <2>6, <2>7
<1>3. CASE Refuse(w)
  BY <1>3 DEF LeaseStep, Refuse, fileVars, TokensWereHandedOut,
              TokensIdentifyOneOwner, CallsAreOwned
<1>4. CASE Release(w)
  <2>1. TypeOK' /\ ClaimsArePast'
    BY <1>4 DEF LeaseStep, Release, Owns, fileVars
  <2>2. \A q \in Runs : store'[q].token = store[q].token
    BY <1>4 DEF Release, Owns
  <2>3. /\ call[w] = None /\ call' = call
        /\ lease'[w] = None /\ \A v \in Workers \ {w} : lease'[v] = lease[v]
    BY <1>4 DEF LeaseStep, Release, fileVars
  <2>4. TokensWereHandedOut'
    BY <2>2, <2>3 DEF TokensWereHandedOut
  <2>5. TokensIdentifyOneOwner'
    BY <2>3 DEF TokensIdentifyOneOwner
  <2>6. CallsAreOwned'
    BY <2>3 DEF CallsAreOwned
  <2>7. QED
    BY <2>1, <2>4, <2>5, <2>6
<1>5. CASE StaleRelease(w)
  BY <1>5 DEF LeaseStep, StaleRelease, fileVars, TokensWereHandedOut,
              TokensIdentifyOneOwner, CallsAreOwned
<1>6. QED
  BY <1>1, <1>2, <1>3, <1>4, <1>5 DEF LeaseStep

(* The checkpointer's steps leave the leases alone.                        *)
FileStep(w) ==
    \/ \E body \in Bodies : CheckedSave(w, body)
    \/ CheckedDelete(w)
    \/ StaleWrite(w)
    \/ WriteFile(w)
    \/ WriteFails(w)
    \/ Glob(w)
    \/ StatFails(w)
    \/ Stat(w)
    \/ \E r \in Runs : Unlink(w, r)
    \/ PruneDone(w)
    \/ DeleteFile(w)

LEMMA FileStepLeases ==
    ASSUME NEW w \in Workers, FileStep(w)
    PROVE  UNCHANGED leaseVars
BY DEF FileStep, CheckedSave, CheckedDelete, StaleWrite, WriteFile, WriteFails, Glob,
       StatFails, Stat, Unlink, PruneDone, DeleteFile, leaseVars

LEMMA FileStepIInv ==
    ASSUME IInv, NEW w \in Workers, FileStep(w)
    PROVE  IInv'
<1> USE FencedCheckpointAssumption, RunLeaseAssumption
    DEF IInv, TypeOK, CallsAreOwned, At, Enter, Leave
<1>1. /\ LeaseTypeOK'
      /\ ClaimsArePast'
      /\ TokensWereHandedOut'
      /\ TokensIdentifyOneOwner'
  BY FileStepLeases DEF leaseVars, LeaseTypeOK, ClaimsArePast, TokensWereHandedOut,
                        TokensIdentifyOneOwner
<1>2. lease' = lease
  BY FileStepLeases DEF leaseVars
<1>3. ASSUME NEW body \in Bodies, CheckedSave(w, body)
      PROVE  IInv'
  BY <1>1, <1>2, <1>3 DEF CheckedSave, Call
<1>4. CASE CheckedDelete(w)
  BY <1>1, <1>2, <1>4 DEF CheckedDelete, Call
<1>5. CASE StaleWrite(w) \/ WriteFails(w)
  BY <1>1, <1>2, <1>5 DEF StaleWrite, WriteFails
<1>6. CASE WriteFile(w)
  <2> DEFINE r == lease[w].run
             checkpoint == [token |-> lease[w].token, body |-> call[w].body]
  <2>1. r \in Runs /\ checkpoint \in Checkpoint
    BY <1>6 DEF WriteFile, LeaseTypeOK, RunLease, Checkpoint
  <2>2. file' \in [Runs -> Checkpoint \union {None}] /\ newer' \subseteq Runs \X Runs
    BY <1>6, <2>1 DEF WriteFile, Write, RunOf, Without, Files
  <2>3. call' \in [Workers -> Call \union {None}] /\ CallsAreOwned'
    BY <1>6, <1>2 DEF WriteFile, Call
  <2>4. QED
    BY <1>1, <2>2, <2>3
<1>7. CASE Glob(w)
  BY <1>1, <1>2, <1>7 DEF Glob, Call, Files
<1>8. CASE StatFails(w)
  BY <1>1, <1>2, <1>8 DEF StatFails
<1>9. CASE Stat(w)
  <2>1. Oldest(call[w].files) \in SUBSET Runs
    BY <1>9 DEF Stat, Oldest, Call
  <2>2. QED
    BY <1>1, <1>2, <1>9, <2>1 DEF Stat, Call
<1>10. ASSUME NEW r \in Runs, Unlink(w, r)
       PROVE  IInv'
  <2>1. call[w].files \ {r} \in SUBSET Runs
    BY <1>10 DEF Unlink, Call
  <2>2. QED
    BY <1>1, <1>2, <1>10, <2>1 DEF Unlink, Remove, Without, Call
<1>11. CASE PruneDone(w)
  BY <1>1, <1>2, <1>11 DEF PruneDone
<1>12. CASE DeleteFile(w)
  BY <1>1, <1>2, <1>12 DEF DeleteFile, Remove, Without, LeaseTypeOK, RunLease, RunOf
<1>13. QED
  BY <1>3, <1>4, <1>5, <1>6, <1>7, <1>8, <1>9, <1>10, <1>11, <1>12 DEF FileStep

LEMMA DieIInv ==
    ASSUME IInv, NEW w \in Workers, Die(w)
    PROVE  IInv'
BY DEF IInv, TypeOK, LeaseTypeOK, Die, Crash, Leave, ClaimsArePast, TokensWereHandedOut,
       TokensIdentifyOneOwner, CallsAreOwned

LEMMA TickIInv ==
    ASSUME IInv, Tick, UNCHANGED fileVars
    PROVE  IInv'
BY DEF IInv, TypeOK, LeaseTypeOK, Claim, Tick, fileVars, ClaimsArePast, TokensWereHandedOut,
       TokensIdentifyOneOwner, CallsAreOwned

LEMMA NextCases ==
    ASSUME Next
    PROVE  \/ Tick /\ UNCHANGED fileVars
           \/ \E w \in Workers : LeaseStep(w) \/ Die(w) \/ FileStep(w)
BY DEF Next, FileStep

LEMMA NextIInv == IInv /\ [Next]_vars => IInv'
<1> SUFFICES ASSUME IInv, [Next]_vars
             PROVE  IInv'
  OBVIOUS
<1>1. CASE Next
  BY <1>1, NextCases, LeaseStepIInv, FileStepIInv, DieIInv, TickIInv
<1>2. CASE UNCHANGED vars
  BY <1>2 DEF vars, IInv, TypeOK, LeaseTypeOK, ClaimsArePast, TokensWereHandedOut,
              TokensIdentifyOneOwner, CallsAreOwned
<1>3. QED
  BY <1>1, <1>2

(* Every reachable state satisfies the inductive invariant.                *)
THEOREM Invariance == Spec => []IInv
BY InitIInv, NextIInv, PTL DEF Spec

(* The variables keep their types.                                         *)
THEOREM TypeCorrectness == Spec => []TypeOK
<1>1. IInv => TypeOK
  BY DEF IInv
<1>2. QED
  BY <1>1, Invariance, PTL

(* FileRunLeaseStore never gives two live lease objects of a run the same  *)
(* fencing token.                                                          *)
THEOREM FencingTokensAreUnique == Spec => []TokensIdentifyOneOwner
<1>1. IInv => TokensIdentifyOneOwner
  BY DEF IInv
<1>2. QED
  BY <1>1, Invariance, PTL

-----------------------------------------------------------------------------
(* A run passes to a new token only when nobody holds it: the clock acquire *)
(* decides with is never ahead of the present one.                          *)
LEMMA GrantsAreTimely ==
    ASSUME IInv, [Next]_vars, NEW r \in Runs, store'[r].token # store[r].token
    PROVE  store[r].holder = None \/ store[r].expires <= clock
<1>1. CASE Tick \/ UNCHANGED vars
  BY <1>1 DEF Tick, vars
<1>2. ASSUME NEW w \in Workers, LeaseStep(w)
      PROVE  store[r].holder = None \/ store[r].expires <= clock
  <2> USE DEF IInv, TypeOK, LeaseTypeOK, LeaseFile, Claim, RunLease
  <2>1. CASE Grant(w)
    <3>1. claim[w].run = r
      BY <2>1 DEF Grant
    <3>2. ~HeldAt(r, claim[w].now) /\ claim[w].now <= clock
      BY <2>1, <3>1 DEF Grant, ClaimsArePast
    <3>3. claim[w].now \in Nat /\ clock \in Nat /\ store[r].expires \in Nat
      BY <2>1 DEF Grant
    <3>4. QED
      BY <3>2, <3>3 DEF HeldAt
  <2>2. CASE Release(w)
    BY <2>2 DEF Release, Owns
  <2>3. CASE Refuse(w) \/ StaleRelease(w) \/ \E q \in Runs : StartAcquire(w, q)
    BY <2>3 DEF Refuse, StaleRelease, StartAcquire
  <2>4. QED
    BY <1>2, <2>1, <2>2, <2>3 DEF LeaseStep
<1>3. ASSUME NEW w \in Workers, Die(w)
      PROVE  FALSE
  BY <1>3 DEF Die, Crash
<1>4. ASSUME NEW w \in Workers, FileStep(w)
      PROVE  FALSE
  BY <1>4, FileStepLeases DEF leaseVars
<1>5. QED
  BY <1>1, <1>2, <1>3, <1>4, NextCases

(* acquire never takes a lease that somebody still holds, although it      *)
(* decides with a clock read before it had the lock.                       *)
THEOREM LeasesAreNeverStolen == Spec => LeaseIsNeverTakenEarly
<1>1. IInv /\ [Next]_vars =>
        [\A r \in Runs :
           store'[r].token # store[r].token
           => store[r].holder = None \/ store[r].expires <= clock]_vars
  BY GrantsAreTimely
<1>2. QED
  BY <1>1, Invariance, PTL DEF Spec, LeaseIsNeverTakenEarly

-----------------------------------------------------------------------------
(* Every way a checkpoint file changes, and under which token.             *)
LEMMA FileChanges ==
    ASSUME IInv, [Next]_vars
    PROVE  \/ UNCHANGED file
           \/ \E r \in Runs :
                /\ store' = store
                /\ file' = [file EXCEPT ![r] = None]
           \/ \E r \in Runs : \E token \in 1..store[r].token, body \in Bodies :
                /\ store' = store
                /\ ~Fenced(r, token)
                /\ file' = [file EXCEPT ![r] = [token |-> token, body |-> body]]
<1> USE DEF IInv, TypeOK, LeaseTypeOK, LeaseFile, RunLease
<1>1. CASE Tick /\ UNCHANGED fileVars
  BY <1>1 DEF fileVars
<1>2. CASE UNCHANGED vars
  BY <1>2 DEF vars
<1>3. ASSUME NEW w \in Workers, LeaseStep(w) \/ Die(w)
      PROVE  UNCHANGED file
  BY <1>3 DEF LeaseStep, Die, fileVars
<1>4. ASSUME NEW w \in Workers, WriteFile(w)
      PROVE  \E r \in Runs : \E token \in 1..store[r].token, body \in Bodies :
               /\ store' = store
               /\ ~Fenced(r, token)
               /\ file' = [file EXCEPT ![r] = [token |-> token, body |-> body]]
  <2>1. /\ lease[w] # None
        /\ RunOf(w) \in Runs
        /\ lease[w].token \in 1..store[RunOf(w)].token
        /\ call[w].body \in Bodies
    BY <1>4 DEF WriteFile, At, CallsAreOwned, TokensWereHandedOut, RunOf
  <2>2. /\ store' = store
        /\ ~Fenced(RunOf(w), lease[w].token)
        /\ file' = [file EXCEPT ![RunOf(w)] =
                      [token |-> lease[w].token, body |-> call[w].body]]
    BY <1>4 DEF WriteFile, Write, leaseVars
  <2>3. QED
    BY <2>1, <2>2
<1>5. ASSUME NEW w \in Workers, NEW r \in Runs, Unlink(w, r)
      PROVE  store' = store /\ file' = [file EXCEPT ![r] = None]
  BY <1>5 DEF Unlink, Remove, leaseVars
<1>6. ASSUME NEW w \in Workers, DeleteFile(w)
      PROVE  /\ RunOf(w) \in Runs
             /\ store' = store
             /\ file' = [file EXCEPT ![RunOf(w)] = None]
  BY <1>6 DEF DeleteFile, Remove, leaseVars, At, CallsAreOwned, RunOf
<1>7. ASSUME NEW w \in Workers, FileStep(w)
      PROVE  \/ WriteFile(w)
             \/ \E r \in Runs : Unlink(w, r)
             \/ DeleteFile(w)
             \/ UNCHANGED file
  BY <1>7 DEF FileStep, CheckedSave, CheckedDelete, StaleWrite, WriteFails, Glob, StatFails,
              Stat, PruneDone
<1>8. QED
  BY <1>1, <1>2, <1>3, <1>4, <1>5, <1>6, <1>7, NextCases

(* Once the present owner has a checkpoint on file, no save of a deposed    *)
(* worker replaces it, however long ago its lease was checked.              *)
THEOREM OwnersCheckpointIsSafe == Spec => OwnersCheckpointStands
<1>1. ASSUME IInv, [Next]_vars, NEW r \in Runs,
             file[r] # None, file[r].token = store[r].token, file'[r] # None
      PROVE  file'[r] = file[r] \/ file'[r].token >= store[r].token
  <2>1. file \in [Runs -> Checkpoint \union {None}] /\ store[r].token \in Nat
    BY <1>1 DEF IInv, TypeOK, LeaseTypeOK, LeaseFile
  <2>2. ASSUME NEW q \in Runs, NEW token \in 1..store[q].token, NEW body \in Bodies,
               ~Fenced(q, token),
               file' = [file EXCEPT ![q] = [token |-> token, body |-> body]]
        PROVE  file'[r] = file[r] \/ file'[r].token >= store[r].token
    BY <1>1, <2>1, <2>2 DEF Fenced, Checkpoint
  <2>3. QED
    BY <1>1, <2>1, <2>2, FileChanges
<1>2. IInv /\ [Next]_vars =>
        [\A r \in Runs :
           /\ file[r] # None
           /\ file[r].token = store[r].token
           /\ file'[r] # None
           => file'[r] = file[r] \/ file'[r].token >= store[r].token]_vars
  BY <1>1
<1>3. QED
  BY <1>2, Invariance, PTL DEF Spec, OwnersCheckpointStands

-----------------------------------------------------------------------------
(* The lease file's token only moves by a grant, one at a time.            *)
LEMMA TokenChanges ==
    ASSUME IInv, [Next]_vars
    PROVE  \/ \A r \in Runs : store'[r].token = store[r].token
           \/ \E r \in Runs :
                /\ store'[r].token = store[r].token + 1
                /\ \A q \in Runs \ {r} : store'[q] = store[q]
                /\ UNCHANGED file
<1> USE DEF IInv, TypeOK, LeaseTypeOK, LeaseFile, Claim
<1>1. CASE Tick \/ UNCHANGED vars
  BY <1>1 DEF Tick, vars
<1>2. ASSUME NEW w \in Workers, LeaseStep(w)
      PROVE  \/ \A r \in Runs : store'[r].token = store[r].token
             \/ \E r \in Runs :
                  /\ store'[r].token = store[r].token + 1
                  /\ \A q \in Runs \ {r} : store'[q] = store[q]
                  /\ UNCHANGED file
  <2>1. CASE Grant(w)
    <3>1. /\ claim[w].run \in Runs
          /\ UNCHANGED file
          /\ store'[claim[w].run].token = store[claim[w].run].token + 1
          /\ \A q \in Runs \ {claim[w].run} : store'[q] = store[q]
      BY <1>2, <2>1 DEF Grant, LeaseStep, fileVars
    <3>2. QED
      BY <3>1
  <2>2. CASE Release(w)
    BY <2>2 DEF Release, Owns
  <2>3. CASE Refuse(w) \/ StaleRelease(w) \/ \E q \in Runs : StartAcquire(w, q)
    BY <2>3 DEF Refuse, StaleRelease, StartAcquire
  <2>4. QED
    BY <1>2, <2>1, <2>2, <2>3 DEF LeaseStep
<1>3. ASSUME NEW w \in Workers, Die(w)
      PROVE  UNCHANGED store
  BY <1>3 DEF Die, Crash
<1>4. ASSUME NEW w \in Workers, FileStep(w)
      PROVE  UNCHANGED store
  BY <1>4, FileStepLeases DEF leaseVars
<1>5. QED
  BY <1>1, <1>2, <1>3, <1>4, NextCases

LEMMA StepImplementsRegister ==
    ASSUME IInv, [Next]_vars
    PROVE  [Register!Next]_(Register!registerVars)
<1> DEFINE issued == [r \in Runs |-> store[r].token]
<1>0. /\ \A r \in Runs : store[r].token \in Nat
      /\ file \in [Runs -> Checkpoint \union {None}]
  BY DEF IInv, TypeOK, LeaseTypeOK, LeaseFile
<1>1. CASE \E r \in Runs : store'[r].token # store[r].token
  <2>1. PICK r \in Runs :
          /\ store'[r].token = store[r].token + 1
          /\ \A q \in Runs \ {r} : store'[q] = store[q]
          /\ UNCHANGED file
    BY <1>1, TokenChanges
  <2>2. issued' = [issued EXCEPT ![r] = @ + 1]
    BY <2>1
  <2>3. Register!Issue(r)
    BY <2>1, <2>2 DEF Register!Issue
  <2>4. QED
    BY <2>3 DEF Register!Next
<1>2. CASE \A r \in Runs : store'[r].token = store[r].token
  <2>1. issued' = issued
    BY <1>2
  <2>2. CASE UNCHANGED file
    BY <2>1, <2>2 DEF Register!registerVars
  <2>3. ASSUME NEW r \in Runs, file' = [file EXCEPT ![r] = None]
        PROVE  Register!Discard(r)
    BY <2>1, <2>3 DEF Register!Discard
  <2>4. ASSUME NEW r \in Runs, NEW token \in 1..store[r].token, NEW body \in Bodies,
               ~Fenced(r, token),
               file' = [file EXCEPT ![r] = [token |-> token, body |-> body]]
        PROVE  token \in 1..issued[r] /\ Register!Commit(r, token, body)
    BY <1>0, <2>1, <2>4 DEF Fenced, Checkpoint, Register!Commit
  <2>5. QED
    BY <2>2, <2>3, <2>4, FileChanges DEF Register!Next
<1>3. QED
  BY <1>1, <1>2

(* Workers with leases, files and locks implement the fenced register: a   *)
(* run's checkpoint is only ever written under an ownership that was       *)
(* issued, and never replaced under an older one.                          *)
THEOREM FilesImplementRegister == Spec => ImplementsRegister
<1>1. Init => Register!Init
  BY DEF Init, LeaseInit, AbsentFile, Register!Init
<1>2. IInv /\ [Next]_vars => [Register!Next]_(Register!registerVars)
  BY StepImplementsRegister
<1>3. QED
  BY <1>1, <1>2, Invariance, PTL DEF Spec, ImplementsRegister, Register!Spec

-----------------------------------------------------------------------------
(***************************************************************************)
(* The executors.                                                          *)
(***************************************************************************)

Working(w) == exec[w].pc \in {"initial", "node", "progress", "cancelled", "fail", "except"}

(* A worker that executes has a lease, and a call in progress is the save  *)
(* its executor is at.                                                     *)
HasLease(w) == Working(w) => lease[w] # None

CallIsSave(w) ==
    call[w] # None =>
        /\ call[w].step = "write"
        /\ SavePoint(w) \in DOMAIN Status
        /\ call[w].body = Body(w)

(* What is not completed is still to run.                                  *)
DropsNothing(w) == Working(w) => Nodes \subseteq Range(exec[w].completed) \union exec[w].remaining

(* A node that is listed and still to run is the failed one a run resumed  *)
(* at, and nothing else comes before it.                                   *)
FailedIsNext(w) ==
    /\ \A n \in Range(exec[w].completed) \intersect exec[w].remaining :
        /\ exec[w].pc \notin {"initial", "progress", "fail"}
        /\ In(w, "node") => \A m \in exec[w].remaining : ~Precedes(m, n)
    /\ In(w, "fail") => \A m \in Nodes :
        Precedes(m, exec[w].node) => m \in Range(exec[w].completed)

(* A completed node whose output is missing was allowed to fail or is known *)
(* to have failed.  Only a disk that failed brings a worker to the except   *)
(* clause with a good lease.                                                *)
HidesNoFailure(w) ==
    faults = 0 =>
        /\ exec[w].pc \in {"initial", "node", "progress", "cancelled"} =>
            Range(exec[w].completed) \ (exec[w].remaining \union setup.retries)
                \subseteq exec[w].context
        /\ In(w, "fail") =>
            Range(exec[w].completed) \ ({exec[w].node} \union setup.retries)
                \subseteq exec[w].context
        /\ In(w, "except") => ~Validates(w) /\ call[w] = None

(* A worker that can still write over a checkpoint of an owner knows what  *)
(* it says and does not run it again.                                      *)
KnowsFile(w) ==
    LET r == RunOf(w)
        e == exec[w]
    IN  Working(w) /\ file[r] # None /\ ~late[r] /\ lease[w].token >= file[r].token =>
            /\ Done(file[r]) \subseteq Range(e.completed)
            /\ file[r].body.context \subseteq e.context
            /\ e.pc \in {"node", "progress"} => Done(file[r]) \intersect e.remaining = {}
            /\ e.pc = "fail" => e.node \notin Done(file[r])

(* Who is still at work on a run that has ended was deposed before it did. *)
WasDeposed(w) ==
    faults = 0 /\ Working(w) /\ Ended(RunOf(w)) /\ ~late[RunOf(w)] =>
        lease[w].token < file[RunOf(w)].token

(* since counts what its own checkpoint does not have.                     *)
SavesInTime(w) ==
    LET r == RunOf(w)
        e == exec[w]
    IN  /\ e.pc = "initial" => e.completed = <<>> /\ e.context = {} /\ e.since = 0
        /\ e.pc = "node" => e.since < setup.interval
        /\ lease[w] # None /\ file[r] # None /\ file[r].token = lease[w].token =>
            /\ e.pc # "idle"
            /\ e.pc = "node" => Len(e.completed) - Len(file[r].body.completed) <= e.since

WorkerInv(w) ==
    /\ HasLease(w) /\ CallIsSave(w) /\ DropsNothing(w) /\ FailedIsNext(w)
    /\ HidesNoFailure(w) /\ KnowsFile(w) /\ WasDeposed(w) /\ SavesInTime(w)

(* The same of what is on file, which a later worker starts from.          *)
FileInv(r) ==
    file[r] # None =>
        LET saved == file[r].body IN
        /\ saved \in DAGCheckpoint
        /\ file[r].token \in 1..store[r].token
        /\ saved.status = "COMPLETED" =>
            saved.failed = None /\ Nodes \subseteq Range(saved.completed)
        /\ \A m \in Nodes : Precedes(m, saved.failed) => m \in Range(saved.completed)
        /\ faults = 0 /\ saved.status # "CANCELLED" =>
            Done(file[r]) \ setup.retries \subseteq saved.context

ExecutorIInv ==
    /\ Unpruned /\ IInv /\ ExecutorTypeOK
    /\ \A w \in Workers : WorkerInv(w)
    /\ \A r \in Runs : FileInv(r)

-----------------------------------------------------------------------------
LEMMA RangeOfAppend ==
    ASSUME NEW S, NEW s \in Seq(S), NEW n \in S
    PROVE  Range(Append(s, n)) = Range(s) \union {n}
<1> DEFINE t == Append(s, n)
<1>1. /\ DOMAIN s = 1..Len(s) /\ Len(s) \in Nat
      /\ DOMAIN t = 1..(Len(s) + 1)
      /\ t[Len(s) + 1] = n
      /\ \A i \in 1..Len(s) : t[i] = s[i] /\ s[i] \in S
  OBVIOUS
<1>2. Range(t) \subseteq Range(s) \union {n}
  BY <1>1 DEF Range
<1>3. \A i \in 1..Len(s) : i \in DOMAIN t
  BY <1>1
<1>4. Range(s) \union {n} \subseteq Range(t)
  BY <1>1, <1>3 DEF Range
<1>5. QED
  BY <1>2, <1>4

LEMMA RangeOfNodes == ASSUME NEW s \in Seq(Nodes) PROVE Range(s) \subseteq Nodes
BY DEF Range

LEMMA NothingInEmpty == Range(<<>>) = {}
BY DEF Range

(* The order of the nodes is total.                                        *)
LEMMA OrderIsTotal ==
    ASSUME NEW m \in Nodes, NEW n \in Nodes
    PROVE  /\ m # n => Precedes(m, n) \/ Precedes(n, m)
           /\ ~Precedes(n, n)
BY CheckpointingAssumption DEF Nodes, Range, Precedes, IsInjective

LEMMA NothingPrecedesNone == ASSUME NEW m PROVE ~Precedes(m, None)
BY CheckpointingAssumption DEF Nodes, Range, Precedes

LEMMA InitExecutorIInv == ExecutorInit => ExecutorIInv
<1> SUFFICES ASSUME ExecutorInit
             PROVE  ExecutorIInv
  OBVIOUS
<1>1. IInv
  BY InitIInv DEF ExecutorInit
<1>2. ExecutorTypeOK
  BY <1>1, CheckpointingAssumption
  DEF ExecutorInit, ExecutorTypeOK, IInv, Executor, Idle, Resting
<1>3. ASSUME NEW w \in Workers
      PROVE  WorkerInv(w)
  BY <1>3, NothingInEmpty
  DEF ExecutorInit, Init, LeaseInit, Idle, Resting, WorkerInv, Working, In, HasLease, CallIsSave,
      DropsNothing, FailedIsNext, HidesNoFailure, KnowsFile, WasDeposed, SavesInTime
<1>4. ASSUME NEW r \in Runs
      PROVE  FileInv(r)
  BY <1>4 DEF ExecutorInit, Init, FileInv
<1>5. QED
  BY <1>1, <1>2, <1>3, <1>4 DEF ExecutorIInv, ExecutorInit

-----------------------------------------------------------------------------
(***************************************************************************)
(* Every step of the executors is one of FencedCheckpoint, or leaves it.   *)
(***************************************************************************)

LEMMA BodiesAreCheckpoints ==
    ASSUME ExecutorTypeOK, NEW w \in Workers, SavePoint(w) \in DOMAIN Status
    PROVE  Body(w) \in DAGCheckpoint
BY DEF ExecutorTypeOK, Executor, Body, Status, SavePoint, DAGCheckpoint

LEMMA StepsAreSteps ==
    ASSUME [ExecutorNext]_executorVars
    PROVE  [Next]_vars
<1>1. CASE TimePasses
  BY <1>1 DEF TimePasses, Next
<1>2. ASSUME NEW w \in Workers, AcquireLease(w) \/ ReleaseLease(w)
      PROVE  Next
  BY <1>2 DEF AcquireLease, ReleaseLease, Next, LeaseStep
<1>3. ASSUME NEW w \in Workers,
             \/ StartRun(w) \/ Resume(w) \/ Cancel(w) \/ Interrupt(w) \/ SaveRefused(w)
             \/ \E n \in Nodes : Execute(w, n)
      PROVE  UNCHANGED vars
  BY <1>3 DEF StartRun, Resume, Execute, Cancel, Interrupt, SaveRefused
<1>4. ASSUME NEW w \in Workers, SaveChecked(w)
      PROVE  Next
  BY <1>4 DEF SaveChecked, Saving, Next
<1>5. ASSUME NEW w \in Workers, SaveWritten(w) \/ SaveFenced(w) \/ WorkerDies(w)
      PROVE  Next
  BY <1>5 DEF SaveWritten, SaveFenced, WorkerDies, Next
<1>6. ASSUME NEW w \in Workers, SaveFails(w)
      PROVE  Next
  BY <1>6 DEF SaveFails, Next
<1>7. CASE UNCHANGED executorVars
  BY <1>7 DEF executorVars
<1>8. QED
  BY <1>1, <1>2, <1>3, <1>4, <1>5, <1>6, <1>7 DEF ExecutorNext

-----------------------------------------------------------------------------
(***************************************************************************)
(* What a step does to the workers that do not take it, and to the files   *)
(* it does not write.                                                      *)
(***************************************************************************)

(* A step that leaves worker w's memory alone.  Its run's file is          *)
(* untouched, or was written under another token, and then by the owner or *)
(* late.  A lease does not become good again.                              *)
Bystander(w) ==
    /\ exec'[w] = exec[w] /\ lease'[w] = lease[w] /\ call'[w] = call[w]
    /\ setup' = setup
    /\ faults' \in Nat /\ faults' >= faults
    /\ lease[w] # None /\ ~Validates(w) => ~Validates(w)'
    /\ lease[w] # None =>
        \/ file'[RunOf(w)] = file[RunOf(w)] /\ late'[RunOf(w)] = late[RunOf(w)]
        \/ /\ file'[RunOf(w)] # None
           /\ file'[RunOf(w)].token # lease[w].token
           /\ late'[RunOf(w)] \/ lease[w].token < file'[RunOf(w)].token

LEMMA BystandersKeepInv ==
    ASSUME ExecutorIInv, IInv', NEW w \in Workers, Bystander(w)
    PROVE  WorkerInv(w)'
<1> USE DEF Bystander
<1>0. WorkerInv(w) /\ faults \in Nat /\ (faults' = 0 => faults = 0)
  BY CheckpointingAssumption DEF ExecutorIInv, ExecutorTypeOK
<1>1. /\ Working(w)' = Working(w)
      /\ RunOf(w)' = RunOf(w)
      /\ SavePoint(w)' = SavePoint(w)
      /\ Body(w)' = Body(w)
      /\ \A pc : In(w, pc)' = In(w, pc)
  BY DEF Working, RunOf, SavePoint, Body, In
<1>2. HasLease(w)' /\ CallIsSave(w)'
  BY <1>0, <1>1 DEF WorkerInv, HasLease, CallIsSave
<1>3. DropsNothing(w)' /\ FailedIsNext(w)'
  BY <1>0, <1>1 DEF WorkerInv, DropsNothing, FailedIsNext
<1>4. HidesNoFailure(w)'
  BY <1>0, <1>1 DEF WorkerInv, HidesNoFailure, HasLease, Working, In
<1>5. Working(w) => lease[w] # None /\ RunOf(w) \in Runs /\ lease[w].token \in Nat
  BY <1>0 DEF WorkerInv, HasLease, ExecutorIInv, IInv, TypeOK, LeaseTypeOK, RunLease, RunOf
<1>6. CASE lease[w] # None /\ file'[RunOf(w)] = file[RunOf(w)] /\ late'[RunOf(w)] = late[RunOf(w)]
  <2>1. KnowsFile(w)'
    BY <1>0, <1>1, <1>6 DEF WorkerInv, KnowsFile, Done
  <2>2. WasDeposed(w)'
    BY <1>0, <1>1, <1>6 DEF WorkerInv, WasDeposed, Ended
  <2>3. SavesInTime(w)'
    BY <1>0, <1>1, <1>6 DEF WorkerInv, SavesInTime
  <2>4. QED
    BY <1>2, <1>3, <1>4, <2>1, <2>2, <2>3 DEF WorkerInv
<1>7. CASE /\ lease[w] # None
           /\ file'[RunOf(w)] # None
           /\ file'[RunOf(w)].token # lease[w].token
           /\ late'[RunOf(w)] \/ lease[w].token < file'[RunOf(w)].token
  <2>1. lease[w].token \in Nat /\ file'[RunOf(w)].token \in Nat
    BY <1>7 DEF ExecutorIInv, IInv, TypeOK, LeaseTypeOK, RunLease, RunOf, Checkpoint
  <2>2. KnowsFile(w)' /\ WasDeposed(w)'
    BY <1>1, <1>7, <2>1 DEF KnowsFile, WasDeposed
  <2>3. SavesInTime(w)'
    BY <1>0, <1>1, <1>7 DEF WorkerInv, SavesInTime
  <2>4. QED
    BY <1>2, <1>3, <1>4, <2>2, <2>3 DEF WorkerInv
<1>8. CASE lease[w] = None
  <2>1. ~Working(w)
    BY <1>5, <1>8
  <2>2. KnowsFile(w)' /\ WasDeposed(w)' /\ SavesInTime(w)'
    BY <1>0, <1>1, <1>8, <2>1 DEF WorkerInv, KnowsFile, WasDeposed, SavesInTime
  <2>3. QED
    BY <1>2, <1>3, <1>4, <2>2 DEF WorkerInv
<1>9. QED
  BY <1>6, <1>7, <1>8

LEMMA UnwrittenFilesKeepInv ==
    ASSUME ExecutorIInv, NEW r \in Runs, file'[r] = file[r],
           setup' = setup, faults' \in Nat, faults' >= faults,
           store'[r].token \in Nat, store'[r].token >= store[r].token
    PROVE  FileInv(r)'
<1>1. FileInv(r) /\ faults \in Nat /\ (faults' = 0 => faults = 0)
  BY CheckpointingAssumption DEF ExecutorIInv, ExecutorTypeOK
<1>2. store[r].token \in Nat
  BY DEF ExecutorIInv, IInv, TypeOK, LeaseTypeOK, LeaseFile
<1>3. QED
  BY <1>1, <1>2 DEF FileInv, Done

(* Whatever happens, tokens only grow, and what has expired, was released  *)
(* or was taken over is not good again.                                    *)
LEMMA ValidityIsLost ==
    ASSUME IInv, [Next]_vars, NEW w \in Workers,
           lease[w] # None, lease'[w] = lease[w], ~Validates(w)
    PROVE  ~Validates(w)'
<1> DEFINE r == lease[w].run
<1> USE DEF IInv, TypeOK, LeaseTypeOK, LeaseFile, RunLease, Claim
<1>1. r \in Runs /\ lease[w].token \in 1..store[r].token /\ store[r].token \in Nat
      /\ store[r].expires \in Nat /\ clock \in Nat
  BY DEF TokensWereHandedOut
<1>2. CASE store'[r] = store[r] /\ clock' >= clock /\ clock' \in Nat
  BY <1>1, <1>2 DEF Validates, Owns
<1>3. CASE store'[r].token > store[r].token
  BY <1>1, <1>3 DEF Validates, Owns
<1>4. CASE store'[r].holder = None
  BY <1>4, RunLeaseAssumption DEF Validates, Owns
<1>5. CASE UNCHANGED vars \/ (Tick /\ UNCHANGED fileVars)
  BY <1>1, <1>2, <1>5 DEF vars, Tick
<1>6. ASSUME NEW v \in Workers, LeaseStep(v)
      PROVE  ~Validates(w)'
  <2>1. CASE Grant(v)
    BY <1>1, <1>2, <1>3, <2>1 DEF Grant
  <2>2. CASE Release(v)
    BY <1>1, <1>2, <1>4, <2>2 DEF Release, Owns
  <2>3. CASE Refuse(v) \/ StaleRelease(v) \/ \E q \in Runs : StartAcquire(v, q)
    BY <1>1, <1>2, <2>3 DEF Refuse, StaleRelease, StartAcquire
  <2>4. QED
    BY <1>6, <2>1, <2>2, <2>3 DEF LeaseStep
<1>7. ASSUME NEW v \in Workers, Die(v)
      PROVE  ~Validates(w)'
  BY <1>1, <1>2, <1>7 DEF Die, Crash
<1>8. ASSUME NEW v \in Workers, FileStep(v)
      PROVE  ~Validates(w)'
  BY <1>1, <1>2, <1>8, FileStepLeases DEF leaseVars
<1>9. QED
  BY <1>5, <1>6, <1>7, <1>8, NextCases

LEMMA TokensGrow ==
    ASSUME IInv, [Next]_vars, NEW r \in Runs
    PROVE  store'[r].token \in Nat /\ store'[r].token >= store[r].token
<1> USE DEF IInv, TypeOK, LeaseTypeOK, LeaseFile, RunLease, Claim
<1>1. store[r].token \in Nat
  OBVIOUS
<1>2. CASE UNCHANGED vars \/ (Tick /\ UNCHANGED fileVars)
  BY <1>1, <1>2 DEF vars, Tick
<1>3. ASSUME NEW v \in Workers, LeaseStep(v)
      PROVE  store'[r].token \in Nat /\ store'[r].token >= store[r].token
  <2>1. CASE Grant(v)
    BY <1>1, <2>1 DEF Grant
  <2>2. CASE Release(v)
    BY <1>1, <2>2 DEF Release, Owns
  <2>3. CASE Refuse(v) \/ StaleRelease(v) \/ \E q \in Runs : StartAcquire(v, q)
    BY <1>1, <2>3 DEF Refuse, StaleRelease, StartAcquire
  <2>4. QED
    BY <1>3, <2>1, <2>2, <2>3 DEF LeaseStep
<1>4. ASSUME NEW v \in Workers, Die(v) \/ FileStep(v)
      PROVE  store' = store
  BY <1>4, FileStepLeases DEF Die, Crash, leaseVars
<1>5. QED
  BY <1>1, <1>2, <1>3, <1>4, NextCases

(* A step of worker v that writes no file keeps the invariant if it keeps  *)
(* v's part of it.                                                         *)
LocalStep(v) ==
    /\ \A w \in Workers \ {v} :
        exec'[w] = exec[w] /\ lease'[w] = lease[w] /\ call'[w] = call[w]
    /\ exec' \in [Workers -> Executor]
    /\ faults' \in faults..MaxFaults
    /\ UNCHANGED <<setup, file, late>>

LEMMA LocalStepsKeepInv ==
    ASSUME ExecutorIInv, [ExecutorNext]_executorVars, NEW v \in Workers, LocalStep(v),
           WorkerInv(v)'
    PROVE  ExecutorIInv'
<1>1. IInv /\ [Next]_vars /\ IInv'
  BY StepsAreSteps, NextIInv DEF ExecutorIInv
<1>2. faults \in Nat /\ faults' \in Nat /\ faults' >= faults /\ faults' \in 0..MaxFaults
  BY CheckpointingAssumption DEF ExecutorIInv, ExecutorTypeOK, LocalStep
<1>3. ExecutorTypeOK'
  BY <1>1, <1>2 DEF ExecutorIInv, ExecutorTypeOK, LocalStep, IInv
<1>4. ASSUME NEW w \in Workers \ {v}
      PROVE  WorkerInv(w)'
  <2>1. lease[w] # None /\ ~Validates(w) => ~Validates(w)'
    BY <1>1, ValidityIsLost DEF LocalStep
  <2>2. Bystander(w)
    BY <1>2, <2>1 DEF LocalStep, Bystander, RunOf
  <2>3. QED
    BY <1>1, <2>2, BystandersKeepInv
<1>5. ASSUME NEW r \in Runs
      PROVE  FileInv(r)'
  BY <1>1, <1>2, TokensGrow, UnwrittenFilesKeepInv DEF LocalStep
<1>6. QED
  BY <1>1, <1>3, <1>4, <1>5 DEF ExecutorIInv

LEMMA StutteringKeepsInv ==
    ASSUME ExecutorIInv, TimePasses \/ UNCHANGED executorVars
    PROVE  ExecutorIInv'
<1>1. [ExecutorNext]_executorVars
  BY DEF ExecutorNext
<1>2. IInv /\ [Next]_vars /\ IInv'
  BY <1>1, StepsAreSteps, NextIInv DEF ExecutorIInv
<1>3. UNCHANGED <<lease, call, file, setup, exec, faults, late>>
  BY DEF TimePasses, Tick, fileVars, executorVars, vars
<1>4. faults \in Nat /\ ExecutorTypeOK'
  BY <1>2, <1>3, CheckpointingAssumption DEF ExecutorIInv, ExecutorTypeOK, IInv
<1>5. ASSUME NEW w \in Workers
      PROVE  WorkerInv(w)'
  <2>1. lease[w] # None /\ ~Validates(w) => ~Validates(w)'
    BY <1>2, <1>3, ValidityIsLost
  <2>2. Bystander(w)
    BY <1>3, <1>4, <2>1 DEF Bystander, RunOf
  <2>3. QED
    BY <1>2, <2>2, BystandersKeepInv
<1>6. ASSUME NEW r \in Runs
      PROVE  FileInv(r)'
  BY <1>2, <1>3, <1>4, TokensGrow, UnwrittenFilesKeepInv
<1>7. QED
  BY <1>2, <1>4, <1>5, <1>6 DEF ExecutorIInv

-----------------------------------------------------------------------------
(***************************************************************************)
(* The steps of a worker, one lemma each.                                  *)
(***************************************************************************)

LEMMA RestingExecutors ==
    ASSUME NEW pc \in {"idle", "over", "raised"}
    PROVE  Resting(pc) \in Executor /\ Resting(pc).pc = pc
BY DEF Resting, Executor

(* A worker that does not execute has no call, and no lease whose token is *)
(* on file.                                                                *)
LEMMA RestingInv ==
    ASSUME NEW w \in Workers, exec'[w].pc \in {"idle", "over", "raised"}, call'[w] = None,
           exec'[w].pc = "idle" /\ lease'[w] # None /\ file'[RunOf(w)'] # None =>
               file'[RunOf(w)'].token # lease'[w].token
    PROVE  WorkerInv(w)'
BY DEF WorkerInv, Working, In, HasLease, CallIsSave, DropsNothing, FailedIsNext, HidesNoFailure,
       KnowsFile, WasDeposed, SavesInTime

LEMMA WorkerTypes ==
    ASSUME ExecutorIInv, NEW w \in Workers
    PROVE  /\ exec[w] \in Executor /\ WorkerInv(w)
           /\ faults \in 0..MaxFaults /\ MaxFaults \in Nat
           /\ setup.retries \subseteq Nodes /\ setup.interval \in Nat \ {0}
           /\ lease[w] # None =>
                /\ RunOf(w) \in Runs /\ FileInv(RunOf(w))
                /\ lease[w].token \in Nat /\ store[RunOf(w)].token \in Nat
                /\ lease[w].token <= store[RunOf(w)].token
           /\ Working(w) => lease[w] # None
BY CheckpointingAssumption
DEF ExecutorIInv, ExecutorTypeOK, IInv, TypeOK, LeaseTypeOK, LeaseFile, RunLease, RunOf,
    TokensWereHandedOut, WorkerInv, HasLease

(* A granted token is newer than any on file.                              *)
LEMMA AcquireLeaseInv ==
    ASSUME ExecutorIInv, NEW v \in Workers, AcquireLease(v)
    PROVE  ExecutorIInv'
<1> USE DEF AcquireLease
<1>1. [ExecutorNext]_executorVars
  BY DEF ExecutorNext
<1>2. \A w \in Workers \ {v} : lease'[w] = lease[w]
  BY DEF StartAcquire, Grant, Refuse, ExecutorIInv, IInv, TypeOK, LeaseTypeOK
<1>3. LocalStep(v)
  BY <1>2, CheckpointingAssumption DEF LocalStep, fileVars, ExecutorIInv, ExecutorTypeOK
<1>4. exec'[v] = exec[v] /\ exec[v].pc = "idle" /\ call'[v] = None /\ file' = file
  BY DEF In, fileVars
<1>5. CASE lease' = lease
  <2>1. lease[v] # None /\ file[RunOf(v)] # None => file[RunOf(v)].token # lease[v].token
    BY <1>4, WorkerTypes DEF WorkerInv, SavesInTime
  <2>2. WorkerInv(v)'
    BY <1>4, <1>5, <2>1, RestingInv DEF RunOf
  <2>3. QED
    BY <1>1, <1>3, <2>2, LocalStepsKeepInv
<1>6. CASE Grant(v)
  <2> DEFINE r == claim[v].run
  <2>1. r \in Runs /\ lease'[v] = [run |-> r, token |-> store[r].token + 1]
    BY <1>6 DEF Grant, ExecutorIInv, IInv, TypeOK, LeaseTypeOK, Claim
  <2>2. file[r] # None => file[r].token # store[r].token + 1
    BY <2>1 DEF ExecutorIInv, FileInv, IInv, TypeOK, LeaseTypeOK, LeaseFile
  <2>3. WorkerInv(v)'
    BY <1>4, <2>1, <2>2, RestingInv DEF RunOf
  <2>4. QED
    BY <1>1, <1>3, <2>3, LocalStepsKeepInv
<1>7. QED
  BY <1>5, <1>6 DEF StartAcquire, Refuse

LEMMA ReleaseLeaseInv ==
    ASSUME ExecutorIInv, NEW v \in Workers, ReleaseLease(v)
    PROVE  ExecutorIInv'
<1> USE DEF ReleaseLease, Become, Idle
<1>1. [ExecutorNext]_executorVars
  BY DEF ExecutorNext
<1>2. /\ \A w \in Workers \ {v} : lease'[w] = lease[w]
      /\ lease'[v] = None
  BY DEF Release, StaleRelease, ExecutorIInv, IInv, TypeOK, LeaseTypeOK
<1>3. exec' \in [Workers -> Executor] /\ exec'[v].pc = "idle"
      /\ \A w \in Workers \ {v} : exec'[w] = exec[w]
  BY RestingExecutors DEF ExecutorIInv, ExecutorTypeOK
<1>4. LocalStep(v)
  BY <1>2, <1>3, CheckpointingAssumption DEF LocalStep, fileVars, ExecutorIInv, ExecutorTypeOK
<1>5. WorkerInv(v)'
  BY <1>2, <1>3, RestingInv DEF fileVars
<1>6. QED
  BY <1>1, <1>4, <1>5, LocalStepsKeepInv

LEMMA WorkerDiesInv ==
    ASSUME ExecutorIInv, NEW v \in Workers, WorkerDies(v)
    PROVE  ExecutorIInv'
<1> USE DEF WorkerDies, Die, Crash, Leave, Become, Idle
<1>1. [ExecutorNext]_executorVars
  BY DEF ExecutorNext
<1>2. /\ \A w \in Workers \ {v} : lease'[w] = lease[w] /\ call'[w] = call[w]
      /\ lease'[v] = None /\ call'[v] = None
  BY DEF ExecutorIInv, IInv, TypeOK, LeaseTypeOK
<1>3. exec' \in [Workers -> Executor] /\ exec'[v].pc = "idle"
      /\ \A w \in Workers \ {v} : exec'[w] = exec[w]
  BY RestingExecutors DEF ExecutorIInv, ExecutorTypeOK
<1>4. LocalStep(v)
  BY <1>2, <1>3, CheckpointingAssumption DEF LocalStep, ExecutorIInv, ExecutorTypeOK
<1>5. WorkerInv(v)'
  BY <1>2, <1>3, RestingInv
<1>6. QED
  BY <1>1, <1>4, <1>5, LocalStepsKeepInv

(* A step inside worker v's process: only its executor's variables change. *)
InProcess(v, locals) ==
    /\ exec' = [exec EXCEPT ![v] = locals]
    /\ locals \in Executor
    /\ UNCHANGED <<vars, setup, faults, late>>

LEMMA InProcessInv ==
    ASSUME ExecutorIInv, [ExecutorNext]_executorVars, NEW v \in Workers, NEW locals,
           InProcess(v, locals), WorkerInv(v)'
    PROVE  ExecutorIInv'
<1>1. /\ exec' \in [Workers -> Executor]
      /\ \A w \in Workers \ {v} : exec'[w] = exec[w]
  BY DEF InProcess, ExecutorIInv, ExecutorTypeOK
<1>2. faults' \in faults..MaxFaults
  BY CheckpointingAssumption DEF InProcess, ExecutorIInv, ExecutorTypeOK
<1>3. LocalStep(v)
  BY <1>1, <1>2 DEF InProcess, LocalStep, vars
<1>4. QED
  BY <1>3, LocalStepsKeepInv

(* An execution ends.                                                      *)
LEMMA EndsKeepInv ==
    ASSUME ExecutorIInv, [ExecutorNext]_executorVars, NEW v \in Workers,
           NEW pc \in {"over", "raised"},
           Become(v, Resting(pc)), call[v] = None, UNCHANGED <<vars, setup, faults, late>>
    PROVE  ExecutorIInv'
<1>1. InProcess(v, Resting(pc))
  BY RestingExecutors DEF InProcess, Become
<1>2. exec'[v].pc = pc /\ call'[v] = None
  BY RestingExecutors DEF Become, vars, ExecutorIInv, ExecutorTypeOK
<1>3. WorkerInv(v)'
  BY <1>2, RestingInv
<1>4. QED
  BY <1>1, <1>3, InProcessInv

LEMMA NoCallOutsideSaves ==
    ASSUME ExecutorIInv, NEW w \in Workers,
           \/ exec[w].pc \in {"idle", "over", "raised"}
           \/ In(w, "node") /\ exec[w].remaining # {}
    PROVE  call[w] = None
BY DEF ExecutorIInv, WorkerInv, CallIsSave, SavePoint, Status, In

LEMMA StartRunInv ==
    ASSUME ExecutorIInv, NEW v \in Workers, StartRun(v)
    PROVE  ExecutorIInv'
<1> DEFINE e == [Idle EXCEPT !.pc = "initial", !.remaining = Nodes]
<1>0. [ExecutorNext]_executorVars
  BY DEF ExecutorNext
<1> DEFINE empty == Idle
<1>a. /\ empty \in Executor
      /\ empty.completed = <<>> /\ empty.context = {} /\ empty.since = 0
  BY RestingExecutors DEF Idle, Resting
<1>1. /\ e \in Executor /\ e.pc = "initial" /\ e.remaining = Nodes
      /\ e.completed = <<>> /\ e.context = {} /\ e.since = 0
  BY <1>a DEF Executor
<1>2. InProcess(v, e)
  BY <1>1 DEF InProcess, StartRun, Become
<1>3. exec'[v] = e
  BY DEF StartRun, Become, ExecutorIInv, ExecutorTypeOK
<1>4. lease'[v] # None /\ call'[v] = None /\ file'[RunOf(v)'] = None
  BY NoCallOutsideSaves DEF StartRun, vars, leaseVars, In, RunOf
<1> HIDE DEF e
<1>5. WorkerInv(v)'
  BY <1>1, <1>3, <1>4, NothingInEmpty
  DEF WorkerInv, Working, In, HasLease, CallIsSave, DropsNothing, FailedIsNext, HidesNoFailure,
      KnowsFile, WasDeposed, Ended, SavesInTime
<1>6. QED
  BY <1>0, <1>2, <1>5, InProcessInv

(* A resumed run knows all of the checkpoint.                              *)
LEMMA ResumeInv ==
    ASSUME ExecutorIInv, NEW v \in Workers, Resume(v)
    PROVE  ExecutorIInv'
<1> DEFINE r == RunOf(v)
           saved == file[r].body
           e == [Idle EXCEPT !.pc = "node", !.remaining = Pending(saved),
                             !.completed = saved.completed, !.context = saved.context]
<1>0. [ExecutorNext]_executorVars
  BY DEF ExecutorNext
<1>1. /\ r \in Runs /\ file[r] # None /\ FileInv(r) /\ saved \in DAGCheckpoint
      /\ saved.status \in {"RUNNING", "FAILED"}
      /\ lease[v] # None /\ exec[v].pc = "idle" /\ call[v] = None
  BY WorkerTypes, NoCallOutsideSaves DEF Resume, CanResume, In, FileInv
<1>2. /\ saved.completed \in Seq(Nodes) /\ saved.context \subseteq Nodes
      /\ saved.failed \in Nodes \union {None}
      /\ Pending(saved) \subseteq Nodes
  BY <1>1 DEF DAGCheckpoint, Pending
<1>3. /\ e \in Executor /\ e.pc = "node" /\ e.remaining = Pending(saved)
      /\ e.completed = saved.completed /\ e.context = saved.context /\ e.since = 0
  BY <1>2 DEF Idle, Resting, Executor
<1>4. InProcess(v, e)
  BY <1>3 DEF InProcess, Resume, Become
<1>5. exec'[v] = e
  BY DEF Resume, Become, ExecutorIInv, ExecutorTypeOK
<1>6. /\ lease' = lease /\ call' = call /\ file' = file /\ store' = store
      /\ late' = late /\ faults' = faults /\ setup' = setup
      /\ RunOf(v)' = r
  BY DEF Resume, vars, RunOf
<1> HIDE DEF e, r
<1>7. HasLease(v)' /\ CallIsSave(v)'
  BY <1>1, <1>6 DEF HasLease, CallIsSave
<1>8. DropsNothing(v)'
  BY <1>3, <1>5 DEF DropsNothing, Pending
<1>9. FailedIsNext(v)'
  <2>1. \A n \in Range(e.completed) \intersect e.remaining : \A m \in e.remaining : ~Precedes(m, n)
    BY <1>1, <1>2, <1>3, OrderIsTotal DEF Pending, FileInv
  <2>2. QED
    BY <1>3, <1>5, <2>1 DEF FailedIsNext, In
<1>10. HidesNoFailure(v)'
  <2>1. faults = 0 => Range(saved.completed) \ ({saved.failed} \union setup.retries) \subseteq saved.context
    BY <1>1 DEF FileInv, Done
  <2>2. QED
    BY <1>2, <1>3, <1>5, <1>6, <2>1, RangeOfNodes DEF HidesNoFailure, In, Pending
<1>11. KnowsFile(v)'
  BY <1>1, <1>3, <1>5, <1>6 DEF KnowsFile, Done, Pending
<1>12. WasDeposed(v)'
  BY <1>1, <1>6 DEF WasDeposed, Ended
<1>13. SavesInTime(v)'
  <2>1. file[r].token # lease[v].token /\ setup.interval \in Nat \ {0}
    BY <1>1, WorkerTypes DEF r, WorkerInv, SavesInTime
  <2>2. exec'[v].pc = "node" /\ exec'[v].since = 0
    BY <1>3, <1>5
  <2>3. file'[RunOf(v)'].token # lease'[v].token /\ setup'.interval \in Nat \ {0}
    BY <1>6, <2>1
  <2>4. QED
    BY <2>2, <2>3 DEF SavesInTime
<1>14. WorkerInv(v)'
  BY <1>7, <1>8, <1>9, <1>10, <1>11, <1>12, <1>13 DEF WorkerInv
<1>15. QED
  BY <1>0, <1>4, <1>14, InProcessInv

LEMMA CancelInv ==
    ASSUME ExecutorIInv, NEW v \in Workers, Cancel(v)
    PROVE  ExecutorIInv'
<1> DEFINE e == [exec[v] EXCEPT !.pc = "cancelled"]
<1>0. [ExecutorNext]_executorVars
  BY DEF ExecutorNext
<1>1. exec[v] \in Executor /\ WorkerInv(v) /\ exec[v].pc = "node" /\ call[v] = None
  BY WorkerTypes, NoCallOutsideSaves DEF Cancel, In
<1>2. /\ e \in Executor /\ e.pc = "cancelled" /\ e.remaining = exec[v].remaining
      /\ e.completed = exec[v].completed /\ e.context = exec[v].context
  BY <1>1 DEF Executor
<1>3. InProcess(v, e)
  BY <1>2 DEF InProcess, Cancel, Become
<1>4. exec'[v] = e
  BY DEF Cancel, Become, ExecutorIInv, ExecutorTypeOK
<1>5. /\ lease' = lease /\ call' = call /\ file' = file
      /\ late' = late /\ faults' = faults /\ setup' = setup
      /\ RunOf(v)' = RunOf(v)
  BY DEF Cancel, vars, RunOf
<1> HIDE DEF e
<1>6. WorkerInv(v)'
  BY <1>1, <1>2, <1>4, <1>5
  DEF WorkerInv, Working, In, HasLease, CallIsSave, DropsNothing, FailedIsNext, HidesNoFailure,
      KnowsFile, WasDeposed, Ended, Done, SavesInTime
<1>7. QED
  BY <1>0, <1>3, <1>6, InProcessInv

LEMMA InterruptInv ==
    ASSUME ExecutorIInv, NEW v \in Workers, Interrupt(v)
    PROVE  ExecutorIInv'
BY NoCallOutsideSaves, EndsKeepInv DEF Interrupt, ExecutorNext, Over

(* A node that is run again was the next one; with it, no node is listed   *)
(* and still to run.                                                       *)
LEMMA ExecuteInv ==
    ASSUME ExecutorIInv, NEW v \in Workers, NEW n \in Nodes, Execute(v, n)
    PROVE  ExecutorIInv'
<1>0. [ExecutorNext]_executorVars
  BY DEF ExecutorNext
<1>1. /\ exec[v] \in Executor /\ WorkerInv(v) /\ exec[v].pc = "node" /\ call[v] = None
      /\ n \in exec[v].remaining /\ \A m \in exec[v].remaining : ~Precedes(m, n)
      /\ setup.interval \in Nat \ {0} /\ lease[v] # None
  BY WorkerTypes, NoCallOutsideSaves DEF Execute, In, Working
<1>2. UNCHANGED <<vars, setup, faults, late>>
  BY DEF Execute
<1>3. CASE Become(v, Over)
  BY <1>0, <1>1, <1>2, <1>3, EndsKeepInv DEF Over
<1>4. ASSUME NEW ok \in BOOLEAN,
             Become(v, [remaining |-> exec[v].remaining \ {n}, node |-> n,
                        completed |-> Append(exec[v].completed, n), since |-> exec[v].since + 1,
                        context |-> IF ok THEN exec[v].context \union {n} ELSE exec[v].context,
                        pc |-> IF ~ok /\ n \notin setup.retries THEN "fail"
                               ELSE IF Due(exec[v].since + 1) THEN "progress" ELSE "node"])
      PROVE  ExecutorIInv'
  <2> DEFINE e == exec[v]
             pc == IF ~ok /\ n \notin setup.retries THEN "fail"
                   ELSE IF Due(e.since + 1) THEN "progress" ELSE "node"
             f == [remaining |-> e.remaining \ {n}, node |-> n,
                   completed |-> Append(e.completed, n), since |-> e.since + 1,
                   context |-> IF ok THEN e.context \union {n} ELSE e.context, pc |-> pc]
  <2>1. /\ e.remaining \subseteq Nodes /\ e.completed \in Seq(Nodes) /\ e.since \in Nat
        /\ e.context \subseteq Nodes /\ e.pc = "node"
    BY <1>1 DEF Executor
  <2>2. /\ f.remaining = e.remaining \ {n} /\ f.node = n
        /\ Range(f.completed) = Range(e.completed) \union {n}
        /\ Len(f.completed) = Len(e.completed) + 1 /\ Len(e.completed) \in Nat
        /\ f.since = e.since + 1 /\ f.context = IF ok THEN e.context \union {n} ELSE e.context
        /\ f.pc = pc /\ pc \in {"fail", "progress", "node"}
        /\ f.completed \in Seq(Nodes)
    BY <2>1, RangeOfAppend
  <2>3. f \in Executor
    BY <2>1, <2>2 DEF Executor
  <2>4. InProcess(v, f)
    BY <1>2, <1>4, <2>3 DEF InProcess, Become
  <2>5. exec'[v] = f
    BY <1>4 DEF Become, ExecutorIInv, ExecutorTypeOK
  <2>6. /\ lease' = lease /\ call' = call /\ file' = file /\ late' = late
        /\ faults' = faults /\ setup' = setup /\ RunOf(v)' = RunOf(v)
    BY <1>2 DEF vars, RunOf
  <2>7. /\ pc = "fail" => ~ok /\ n \notin setup.retries
        /\ pc \in {"node", "progress"} => ok \/ n \in setup.retries
        /\ pc = "node" => e.since + 1 < setup.interval
    BY <1>1, <2>1 DEF Due
  <2> HIDE DEF f, pc
  <2>8. HasLease(v)' /\ CallIsSave(v)'
    BY <1>1, <2>6 DEF HasLease, CallIsSave
  <2>9. DropsNothing(v) /\ FailedIsNext(v) /\ HidesNoFailure(v) /\ KnowsFile(v)
        /\ WasDeposed(v) /\ SavesInTime(v) /\ Working(v)
    BY <1>1 DEF WorkerInv, Working
  <2>10. DropsNothing(v)'
    BY <2>2, <2>5, <2>9 DEF DropsNothing
  <2>11. Range(e.completed) \intersect e.remaining \subseteq {n}
    BY <1>1, <2>1, <2>9, OrderIsTotal DEF FailedIsNext, In
  <2>12. FailedIsNext(v)'
    <3>1. Range(f.completed) \intersect f.remaining = {}
      BY <2>2, <2>11
    <3>2. \A m \in Nodes : Precedes(m, n) => m \in Range(f.completed)
      BY <1>1, <2>1, <2>2, <2>9 DEF DropsNothing
    <3>3. QED
      BY <2>2, <2>5, <3>1, <3>2 DEF FailedIsNext, In
  <2>13. HidesNoFailure(v)'
    <3>1. faults = 0 => Range(e.completed) \ (e.remaining \union setup.retries) \subseteq e.context
      BY <2>1, <2>9 DEF HidesNoFailure
    <3>2. QED
      BY <2>2, <2>5, <2>6, <2>7, <2>11, <3>1 DEF HidesNoFailure, In
  <2>14. KnowsFile(v)'
    BY <1>1, <2>1, <2>2, <2>5, <2>6, <2>9 DEF KnowsFile, Working, Done
  <2>15. WasDeposed(v)'
    BY <2>6, <2>9 DEF WasDeposed, Ended
  <2>16. SavesInTime(v)'
    <3>1. lease[v] # None /\ file[RunOf(v)] # None /\ file[RunOf(v)].token = lease[v].token =>
              Len(e.completed) - Len(file[RunOf(v)].body.completed) <= e.since
      BY <2>1, <2>9 DEF SavesInTime
    <3>2. file[RunOf(v)] # None => Len(file[RunOf(v)].body.completed) \in Nat
      BY <1>1, WorkerTypes DEF FileInv, DAGCheckpoint
    <3>3. lease[v] # None /\ file[RunOf(v)] # None /\ file[RunOf(v)].token = lease[v].token =>
              Len(f.completed) - Len(file[RunOf(v)].body.completed) <= f.since
      <4> DEFINE saved == Len(file[RunOf(v)].body.completed)
                 before == Len(e.completed)
      <4>1. \A i, j, k \in Nat : i - j <= k => (i + 1) - j <= k + 1
        OBVIOUS
      <4>2. /\ Len(f.completed) = before + 1 /\ f.since = e.since + 1
            /\ before \in Nat /\ e.since \in Nat
        BY <2>1, <2>2
      <4> HIDE DEF saved, before
      <4>3. QED
        BY <3>1, <3>2, <4>1, <4>2 DEF saved, before
    <3>4. /\ exec'[v].pc \in {"fail", "progress", "node"}
          /\ exec'[v].pc = "node" => exec'[v].since < setup'.interval
      BY <2>2, <2>5, <2>6, <2>7
    <3>5. QED
      BY <2>5, <2>6, <3>3, <3>4 DEF SavesInTime
  <2>17. WorkerInv(v)'
    BY <2>8, <2>10, <2>12, <2>13, <2>14, <2>15, <2>16 DEF WorkerInv
  <2>18. QED
    BY <1>0, <2>4, <2>17, InProcessInv
<1>5. QED
  BY <1>3, <1>4 DEF Execute

LEMMA SavingWorkers ==
    ASSUME ExecutorIInv, NEW w \in Workers, SavePoint(w) \in DOMAIN Status
    PROVE  Working(w) /\ lease[w] # None
<1>1. exec[w] \in Executor /\ (Working(w) => lease[w] # None)
  BY WorkerTypes
<1>2. DOMAIN Status = {"initial", "progress", "completed", "cancelled", "fail", "except"}
  BY DEF Status
<1>3. QED
  BY <1>1, <1>2 DEF SavePoint, In, Working, Executor

(* The lease was checked: the call carries the checkpoint of the save.     *)
LEMMA SaveCheckedInv ==
    ASSUME ExecutorIInv, NEW v \in Workers, SaveChecked(v)
    PROVE  ExecutorIInv'
<1>0. [ExecutorNext]_executorVars
  BY DEF ExecutorNext
<1>1. /\ exec[v] \in Executor /\ WorkerInv(v) /\ Validates(v)
      /\ SavePoint(v) \in DOMAIN Status
      /\ call[v] = None
  BY WorkerTypes DEF SaveChecked, Saving, CheckedSave
<1>2. /\ lease' = lease /\ file' = file /\ late' = late /\ exec' = exec
      /\ faults' = faults /\ setup' = setup /\ RunOf(v)' = RunOf(v)
      /\ SavePoint(v)' = SavePoint(v) /\ Body(v)' = Body(v) /\ Working(v)' = Working(v)
  BY DEF SaveChecked, CheckedSave, leaseVars, RunOf, SavePoint, Body, In, Working
<1>3. /\ call'[v] = [step |-> "write", body |-> Body(v), files |-> {}]
      /\ \A w \in Workers \ {v} : call'[w] = call[w]
  BY DEF SaveChecked, CheckedSave, Enter, ExecutorIInv, IInv, TypeOK
<1>4. LocalStep(v)
  BY <1>2, <1>3, CheckpointingAssumption DEF LocalStep, ExecutorIInv, ExecutorTypeOK
<1>5. faults = 0 => exec[v].pc # "except"
  BY <1>1 DEF WorkerInv, HidesNoFailure, In
<1>6. CallIsSave(v)'
  BY <1>1, <1>2, <1>3 DEF CallIsSave
<1>7. WorkerInv(v)'
  BY <1>1, <1>2, <1>5, <1>6
  DEF WorkerInv, In, HasLease, DropsNothing, FailedIsNext, HidesNoFailure, KnowsFile,
      WasDeposed, Ended, Done, SavesInTime
<1>8. QED
  BY <1>0, <1>4, <1>7, LocalStepsKeepInv

(* What a worker that goes on to the except clause keeps: all it did, and  *)
(* no good lease as long as no disk has failed.                            *)
LEMMA RaisedWorkerInv ==
    ASSUME ExecutorIInv, NEW v \in Workers, Raised(v),
           SavePoint(v) \in DOMAIN Status, lease[v] # None,
           lease' = lease, call'[v] = None, setup' = setup,
           faults' >= faults, faults' \in Nat,
           faults' = 0 => ~Validates(v)',
           \/ file' = file /\ late' = late
           \/ faults' # 0 /\ file'[RunOf(v)] = [token |-> lease[v].token, body |-> Body(v)]
    PROVE  /\ exec' \in [Workers -> Executor]
           /\ \A w \in Workers \ {v} : exec'[w] = exec[w]
           /\ WorkerInv(v)'
<1> DEFINE e == [exec[v] EXCEPT !.pc = "except"]
<1>1. /\ exec[v] \in Executor /\ WorkerInv(v) /\ Working(v)
      /\ faults \in Nat /\ (faults' = 0 => faults = 0)
  BY WorkerTypes, SavingWorkers
<1>2. \/ Become(v, Resting("raised")) \/ Become(v, Over)
      \/ Become(v, e) /\ exec[v].pc # "initial"
  BY DEF Raised, SavePoint, In
<1>3. CASE Become(v, Resting("raised")) \/ Become(v, Over)
  <2>1. PICK pc \in {"over", "raised"} : exec' = [exec EXCEPT ![v] = Resting(pc)]
    BY <1>3 DEF Become, Over
  <2>2. QED
    BY <2>1, RestingExecutors, RestingInv DEF ExecutorIInv, ExecutorTypeOK
<1>4. CASE Become(v, e)
  <2>1. /\ e \in Executor /\ e.pc = "except" /\ e.remaining = exec[v].remaining
        /\ e.completed = exec[v].completed /\ e.context = exec[v].context
    BY <1>1 DEF Executor
  <2>2. /\ exec'[v] = e /\ exec' \in [Workers -> Executor]
        /\ \A w \in Workers \ {v} : exec'[w] = exec[w]
    BY <1>4, <2>1 DEF Become, ExecutorIInv, ExecutorTypeOK
  <2>3. RunOf(v)' = RunOf(v)
    BY DEF RunOf
  <2> HIDE DEF e
  <2>4. HasLease(v)' /\ CallIsSave(v)' /\ DropsNothing(v)' /\ FailedIsNext(v)' /\ HidesNoFailure(v)'
    BY <1>1, <2>1, <2>2
    DEF WorkerInv, HasLease, CallIsSave, DropsNothing, FailedIsNext, HidesNoFailure, In, Working
  <2>5. CASE file' = file /\ late' = late
    BY <1>1, <2>1, <2>2, <2>3, <2>4, <2>5
    DEF WorkerInv, KnowsFile, WasDeposed, SavesInTime, Done, Ended, Working
  <2>6. CASE faults' # 0 /\ file'[RunOf(v)] = [token |-> lease[v].token, body |-> Body(v)]
    <3>1. KnowsFile(v)'
      BY <2>1, <2>2, <2>3, <2>6 DEF KnowsFile, Done, Body
    <3>2. WasDeposed(v)' /\ SavesInTime(v)'
      BY <2>1, <2>2, <2>6 DEF WasDeposed, SavesInTime
    <3>3. QED
      BY <2>2, <2>4, <3>1, <3>2 DEF WorkerInv
  <2>7. QED
    BY <2>5, <2>6
<1>5. QED
  BY <1>2, <1>3, <1>4

LEMMA SaveRefusedInv ==
    ASSUME ExecutorIInv, NEW v \in Workers, SaveRefused(v)
    PROVE  ExecutorIInv'
<1>0. [ExecutorNext]_executorVars
  BY DEF ExecutorNext
<1>1. /\ SavePoint(v) \in DOMAIN Status /\ call[v] = None /\ ~Validates(v) /\ Raised(v)
      /\ UNCHANGED <<vars, setup, faults, late>>
  BY DEF SaveRefused, Saving
<1>2. lease[v] # None
  BY <1>1, SavingWorkers
<1>3. /\ lease' = lease /\ call' = call /\ file' = file /\ ~Validates(v)'
      /\ faults' = faults /\ faults \in Nat /\ faults' \in faults..MaxFaults
  BY <1>1, CheckpointingAssumption
  DEF vars, Validates, Owns, ExecutorIInv, ExecutorTypeOK
<1>4. /\ exec' \in [Workers -> Executor]
      /\ \A w \in Workers \ {v} : exec'[w] = exec[w]
      /\ WorkerInv(v)'
  BY <1>1, <1>2, <1>3, RaisedWorkerInv
<1>5. LocalStep(v)
  BY <1>1, <1>3, <1>4 DEF LocalStep
<1>6. QED
  BY <1>0, <1>4, <1>5, LocalStepsKeepInv

(* A higher token is on file, so somebody else owns the run.               *)
LEMMA SaveFencedInv ==
    ASSUME ExecutorIInv, NEW v \in Workers, SaveFenced(v)
    PROVE  ExecutorIInv'
<1>0. [ExecutorNext]_executorVars
  BY DEF ExecutorNext
<1>1. /\ call[v] # None /\ Fenced(RunOf(v), lease[v].token) /\ Raised(v)
      /\ lease' = lease /\ file' = file /\ store' = store /\ clock' = clock
      /\ UNCHANGED <<setup, faults, late>>
      /\ call'[v] = None /\ \A w \in Workers \ {v} : call'[w] = call[w]
  BY DEF SaveFenced, StaleWrite, At, Leave, leaseVars, ExecutorIInv, IInv, TypeOK
<1>2. SavePoint(v) \in DOMAIN Status /\ lease[v] # None
  BY <1>1, WorkerTypes, SavingWorkers DEF WorkerInv, CallIsSave
<1>3. ~Validates(v)'
  BY <1>1, <1>2, WorkerTypes DEF Fenced, Validates, Owns, FileInv, RunOf
<1>4. faults \in Nat /\ faults' = faults /\ faults' \in faults..MaxFaults
  BY <1>1, CheckpointingAssumption DEF ExecutorIInv, ExecutorTypeOK
<1>5. /\ exec' \in [Workers -> Executor]
      /\ \A w \in Workers \ {v} : exec'[w] = exec[w]
      /\ WorkerInv(v)'
  BY <1>1, <1>2, <1>3, <1>4, RaisedWorkerInv
<1>6. LocalStep(v)
  BY <1>1, <1>4, <1>5 DEF LocalStep
<1>7. QED
  BY <1>0, <1>5, <1>6, LocalStepsKeepInv

-----------------------------------------------------------------------------
(***************************************************************************)
(* A checkpoint is written.                                                *)
(***************************************************************************)

LEMMA WrittenFiles ==
    ASSUME ExecutorIInv, NEW v \in Workers, WriteFile(v), LateNow(v)
    PROVE  /\ lease[v] # None /\ RunOf(v) \in Runs
           /\ SavePoint(v) \in DOMAIN Status /\ Working(v) /\ call[v] # None
           /\ [token |-> lease[v].token, body |-> Body(v)] # None
           /\ UNCHANGED leaseVars
           /\ file' = [file EXCEPT ![RunOf(v)] = [token |-> lease[v].token, body |-> Body(v)]]
           /\ late' = [late EXCEPT ![RunOf(v)] = lease[v].token # store[RunOf(v)].token]
           /\ call' = [call EXCEPT ![v] = None]
           /\ RunOf(v)' = RunOf(v)
<1>1. call[v] # None /\ WorkerInv(v)
  BY WorkerTypes DEF WriteFile, At
<1>2. SavePoint(v) \in DOMAIN Status /\ call[v].body = Body(v)
  BY <1>1 DEF WorkerInv, CallIsSave
<1>3. lease[v] # None /\ RunOf(v) \in Runs /\ Working(v)
  BY <1>2, SavingWorkers, WorkerTypes
<1>4. [token |-> lease[v].token, body |-> Body(v)] # None
  <2>1. Body(v) \in Bodies
    BY <1>1, <1>2 DEF WriteFile, At, ExecutorIInv, IInv, CallsAreOwned
  <2>2. lease[v].token \in Nat
    BY <1>3, WorkerTypes
  <2>3. QED
    BY <2>1, <2>2, FencedCheckpointAssumption
<1>5. UNCHANGED leaseVars /\ RunOf(v)' = RunOf(v)
  BY DEF WriteFile, leaseVars, RunOf
<1>6. QED
  BY <1>1, <1>2, <1>3, <1>4, <1>5 DEF ExecutorIInv, Unpruned, WriteFile, Write, Leave, LateNow

(* What a save writes is true of the run.                                  *)
LEMMA WrittenFilesInv ==
    ASSUME ExecutorIInv, NEW v \in Workers, WriteFile(v), LateNow(v),
           setup' = setup, faults' = 0 => faults = 0
    PROVE  FileInv(RunOf(v))'
<1> DEFINE r == RunOf(v)
           b == Body(v)
           e == exec[v]
<1>1. /\ SavePoint(v) \in DOMAIN Status /\ call[v] # None /\ Working(v)
      /\ file'[r] = [token |-> lease[v].token, body |-> b] /\ store' = store
      /\ RunOf(v)' = r
  BY WrittenFiles DEF leaseVars, ExecutorIInv, IInv, TypeOK
<1>2. /\ WorkerInv(v) /\ e \in Executor
      /\ lease[v].token \in 1..store[r].token
  BY <1>1, WorkerTypes DEF ExecutorIInv, IInv, TokensWereHandedOut, RunOf
<1>3. b \in DAGCheckpoint
  BY <1>1, BodiesAreCheckpoints DEF ExecutorIInv
<1>4. b.status = "COMPLETED" => b.failed = None /\ Nodes \subseteq Range(b.completed)
  BY <1>1, <1>2 DEF Body, Status, SavePoint, In, WorkerInv, DropsNothing, Executor
<1>5. \A m \in Nodes : Precedes(m, b.failed) => m \in Range(b.completed)
  BY <1>2, NothingPrecedesNone DEF Body, WorkerInv, FailedIsNext
<1>6. ASSUME faults = 0, b.status # "CANCELLED"
      PROVE  (Range(b.completed) \ {b.failed}) \ setup.retries \subseteq b.context
  <2>1. HidesNoFailure(v) /\ FailedIsNext(v)
    BY <1>2 DEF WorkerInv
  <2>2. e.pc \in {"initial", "progress", "fail"} \/ (e.pc = "node" /\ e.remaining = {})
    BY <1>1, <1>6, <2>1 DEF Working, SavePoint, In, Body, Status, HidesNoFailure
  <2>3. CASE e.pc = "fail"
    BY <1>6, <2>1, <2>3 DEF HidesNoFailure, In, Body
  <2>4. CASE e.pc # "fail"
    <3>1. Range(e.completed) \intersect e.remaining = {}
      BY <2>1, <2>2, <2>4 DEF FailedIsNext
    <3>2. Range(e.completed) \ (e.remaining \union setup.retries) \subseteq e.context
      BY <1>6, <2>1, <2>2, <2>4 DEF HidesNoFailure
    <3>3. b.completed = e.completed /\ b.context = e.context
      BY DEF Body
    <3>4. QED
      BY <3>1, <3>2, <3>3
  <2>5. QED
    BY <2>3, <2>4
<1> HIDE DEF b, r
<1>7. QED
  BY <1>1, <1>2, <1>3, <1>4, <1>5, <1>6 DEF FileInv, Done

(* The other workers of the run have other leases: theirs is older than    *)
(* the owner's, and who writes without being the owner is late.            *)
LEMMA WritesKeepInv ==
    ASSUME ExecutorIInv, [ExecutorNext]_executorVars, NEW v \in Workers,
           WriteFile(v), LateNow(v), setup' = setup, faults' \in faults..MaxFaults,
           exec' \in [Workers -> Executor], \A w \in Workers \ {v} : exec'[w] = exec[w],
           WorkerInv(v)'
    PROVE  ExecutorIInv'
<1> DEFINE r == RunOf(v)
<1>1. IInv /\ [Next]_vars /\ IInv'
  BY StepsAreSteps, NextIInv DEF ExecutorIInv
<1>2. faults \in Nat /\ faults' \in Nat /\ faults' >= faults /\ faults' \in 0..MaxFaults
  BY CheckpointingAssumption DEF ExecutorIInv, ExecutorTypeOK
<1>3. /\ lease[v] # None /\ r \in Runs
      /\ UNCHANGED leaseVars
      /\ file' = [file EXCEPT ![r] = [token |-> lease[v].token, body |-> Body(v)]]
      /\ late' = [late EXCEPT ![r] = lease[v].token # store[r].token]
      /\ call' = [call EXCEPT ![v] = None]
      /\ [token |-> lease[v].token, body |-> Body(v)] # None
  BY WrittenFiles
<1>4. ExecutorTypeOK'
  BY <1>1, <1>2, <1>3 DEF ExecutorIInv, ExecutorTypeOK, IInv
<1>5. /\ file \in [Runs -> Checkpoint \union {None}] /\ late \in [Runs -> BOOLEAN]
      /\ call \in [Workers -> Call \union {None}]
  BY DEF ExecutorIInv, ExecutorTypeOK, IInv, TypeOK
<1>6. ASSUME NEW w \in Workers \ {v}
      PROVE  WorkerInv(w)'
  <2>1. /\ exec'[w] = exec[w] /\ lease'[w] = lease[w] /\ call'[w] = call[w]
        /\ (~Validates(w) => ~Validates(w)')
    BY <1>3, <1>5 DEF leaseVars, Validates, Owns
  <2>2. ASSUME lease[w] # None, RunOf(w) # r
        PROVE  file'[RunOf(w)] = file[RunOf(w)] /\ late'[RunOf(w)] = late[RunOf(w)]
    BY <1>3, <1>5, <2>2
  <2>3. ASSUME lease[w] # None, RunOf(w) = r
        PROVE  /\ file'[r] # None /\ file'[r].token # lease[w].token
               /\ late'[r] \/ lease[w].token < file'[r].token
    <3>1. lease[v].token # lease[w].token
      BY <1>1, <1>3, <2>3 DEF IInv, TokensIdentifyOneOwner, RunOf
    <3>2. /\ lease[w].token <= store[r].token
          /\ lease[w].token \in Nat /\ lease[v].token \in Nat /\ store[r].token \in Nat
      BY <1>3, <2>3, WorkerTypes
    <3>3. /\ file'[r] = [token |-> lease[v].token, body |-> Body(v)]
          /\ lease[v].token # store[r].token => late'[r]
      BY <1>3, <1>5
    <3>4. file'[r] # None /\ file'[r].token = lease[v].token
      BY <1>3, <3>3
    <3>5. lease[v].token = store[r].token => lease[w].token < lease[v].token
      BY <3>1, <3>2
    <3>6. QED
      BY <3>1, <3>3, <3>4, <3>5
  <2>4. Bystander(w)
    BY <1>2, <2>1, <2>2, <2>3 DEF Bystander
  <2>5. QED
    BY <1>1, <2>4, BystandersKeepInv
<1>7. ASSUME NEW q \in Runs
      PROVE  FileInv(q)'
  <2>1. CASE q = r
    BY <1>2, <2>1, WrittenFilesInv, WrittenFiles
  <2>2. CASE q # r
    BY <1>1, <1>2, <1>3, <2>2, TokensGrow, UnwrittenFilesKeepInv
  <2>3. QED
    BY <2>1, <2>2
<1>8. QED
  BY <1>1, <1>4, <1>6, <1>7 DEF ExecutorIInv

LEMMA SaveWrittenInv ==
    ASSUME ExecutorIInv, NEW v \in Workers, SaveWritten(v)
    PROVE  ExecutorIInv'
<1> DEFINE r == RunOf(v)
           e == exec[v]
<1>0. [ExecutorNext]_executorVars
  BY DEF ExecutorNext
<1>1. WriteFile(v) /\ LateNow(v) /\ Returned(v) /\ UNCHANGED <<setup, faults>>
  BY DEF SaveWritten
<1>2. /\ lease[v] # None /\ lease' = lease /\ call'[v] = None /\ RunOf(v)' = r
      /\ SavePoint(v) \in DOMAIN Status /\ Working(v) /\ call[v] # None
      /\ file'[r] = [token |-> lease[v].token, body |-> Body(v)]
  BY <1>1, WrittenFiles DEF leaseVars, ExecutorIInv, IInv, TypeOK
<1>3. /\ e \in Executor /\ WorkerInv(v) /\ setup.interval \in Nat \ {0}
      /\ faults' \in faults..MaxFaults
  BY <1>1, WorkerTypes
<1>4. ASSUME NEW f \in Executor, Become(v, f), f.pc = "node", f.since = 0,
             e.pc \in {"initial", "progress"},
             f.completed = e.completed, f.remaining = e.remaining, f.context = e.context
      PROVE  exec' \in [Workers -> Executor] /\ WorkerInv(v)'
  <2>1. exec'[v] = f /\ exec' \in [Workers -> Executor]
    BY <1>4 DEF Become, ExecutorIInv, ExecutorTypeOK
  <2>2. Range(e.completed) \intersect e.remaining = {}
    BY <1>3, <1>4 DEF WorkerInv, FailedIsNext
  <2>3. /\ Body(v).status = "RUNNING" /\ Body(v).completed = e.completed
        /\ Body(v).context = e.context
    BY <1>4 DEF Body, Status, SavePoint, In
  <2>4. HasLease(v)' /\ CallIsSave(v)'
    BY <1>2 DEF HasLease, CallIsSave
  <2>5. DropsNothing(v)' /\ FailedIsNext(v)'
    BY <1>2, <1>3, <1>4, <2>1, <2>2 DEF WorkerInv, DropsNothing, FailedIsNext, In
  <2>6. HidesNoFailure(v)'
    BY <1>1, <1>3, <1>4, <2>1 DEF WorkerInv, HidesNoFailure, In
  <2>7. KnowsFile(v)'
    BY <1>2, <1>4, <2>1, <2>2, <2>3 DEF KnowsFile, Done
  <2>8. WasDeposed(v)'
    BY <1>2, <2>3 DEF WasDeposed, Ended
  <2>9. SavesInTime(v)'
    <3>1. Len(e.completed) \in Nat
      BY <1>3 DEF Executor
    <3>2. Len(e.completed) - Len(e.completed) <= 0
      BY <3>1
    <3>3. file'[RunOf(v)'].body.completed = e.completed
      BY <1>2, <2>3
    <3>4. /\ exec'[v].pc = "node" /\ exec'[v].since = 0 /\ exec'[v].completed = e.completed
          /\ 0 < setup'.interval
      BY <1>1, <1>3, <1>4, <2>1
    <3>5. QED
      BY <3>2, <3>3, <3>4 DEF SavesInTime
  <2>10. QED
    BY <2>1, <2>4, <2>5, <2>6, <2>7, <2>8, <2>9 DEF WorkerInv
<1>5. ASSUME SavePoint(v) = "initial"
      PROVE  exec' \in [Workers -> Executor] /\ WorkerInv(v)'
  <2> DEFINE f == [e EXCEPT !.pc = "node"]
  <2>1. Become(v, f)
    BY <1>1, <1>5 DEF Returned
  <2>2. e.pc = "initial" /\ e.since = 0
    BY <1>3, <1>5 DEF SavePoint, In, WorkerInv, SavesInTime
  <2>3. /\ f \in Executor /\ f.pc = "node" /\ f.since = e.since
        /\ f.completed = e.completed /\ f.remaining = e.remaining /\ f.context = e.context
    BY <1>3 DEF Executor
  <2> HIDE DEF f
  <2>4. QED
    BY <1>4, <2>1, <2>2, <2>3
<1>6. ASSUME SavePoint(v) = "progress"
      PROVE  exec' \in [Workers -> Executor] /\ WorkerInv(v)'
  <2> DEFINE f == [e EXCEPT !.pc = "node", !.since = 0]
  <2>1. Become(v, f)
    BY <1>1, <1>6 DEF Returned
  <2>2. e.pc = "progress"
    BY <1>6 DEF SavePoint, In
  <2>3. /\ f \in Executor /\ f.pc = "node" /\ f.since = 0
        /\ f.completed = e.completed /\ f.remaining = e.remaining /\ f.context = e.context
    BY <1>3 DEF Executor
  <2> HIDE DEF f
  <2>4. QED
    BY <1>4, <2>1, <2>2, <2>3
<1>7. ASSUME SavePoint(v) \notin {"initial", "progress"}
      PROVE  exec' \in [Workers -> Executor] /\ WorkerInv(v)'
  <2>1. exec' = [exec EXCEPT ![v] = Over]
    BY <1>1, <1>7 DEF Returned, Become
  <2>2. QED
    BY <1>2, <2>1, RestingExecutors, RestingInv DEF Over, ExecutorIInv, ExecutorTypeOK
<1>8. \A w \in Workers \ {v} : exec'[w] = exec[w]
  BY <1>1 DEF Returned, Become, ExecutorIInv, ExecutorTypeOK
<1>9. exec' \in [Workers -> Executor] /\ WorkerInv(v)'
  BY <1>5, <1>6, <1>7
<1>10. QED
  BY <1>0, <1>1, <1>3, <1>8, <1>9, WritesKeepInv

LEMMA SaveFailsInv ==
    ASSUME ExecutorIInv, NEW v \in Workers, SaveFails(v)
    PROVE  ExecutorIInv'
<1>0. [ExecutorNext]_executorVars
  BY DEF ExecutorNext
<1>1. /\ Raised(v) /\ setup' = setup
      /\ faults \in Nat /\ faults' \in Nat /\ faults' # 0 /\ faults' >= faults
      /\ faults' \in faults..MaxFaults
  BY WorkerTypes DEF SaveFails
<1>2. CASE WriteFails(v) /\ UNCHANGED late
  <2>1. /\ call[v] # None /\ UNCHANGED <<leaseVars, file>>
        /\ call'[v] = None /\ \A w \in Workers \ {v} : call'[w] = call[w]
    BY <1>2 DEF WriteFails, At, Leave, ExecutorIInv, IInv, TypeOK
  <2>2. SavePoint(v) \in DOMAIN Status /\ lease[v] # None
    BY <2>1, WorkerTypes, SavingWorkers DEF WorkerInv, CallIsSave
  <2>3. /\ exec' \in [Workers -> Executor]
        /\ \A w \in Workers \ {v} : exec'[w] = exec[w]
        /\ WorkerInv(v)'
    BY <1>1, <1>2, <2>1, <2>2, RaisedWorkerInv DEF leaseVars
  <2>4. LocalStep(v)
    BY <1>1, <1>2, <2>1, <2>3 DEF LocalStep, leaseVars
  <2>5. QED
    BY <1>0, <2>3, <2>4, LocalStepsKeepInv
<1>3. CASE WriteFile(v) /\ LateNow(v)
  <2>1. /\ lease[v] # None /\ lease' = lease /\ call'[v] = None
        /\ SavePoint(v) \in DOMAIN Status
        /\ file'[RunOf(v)] = [token |-> lease[v].token, body |-> Body(v)]
    BY <1>3, WrittenFiles DEF leaseVars, ExecutorIInv, IInv, TypeOK
  <2>2. /\ exec' \in [Workers -> Executor]
        /\ \A w \in Workers \ {v} : exec'[w] = exec[w]
        /\ WorkerInv(v)'
    BY <1>1, <2>1, RaisedWorkerInv
  <2>3. QED
    BY <1>0, <1>1, <1>3, <2>2, WritesKeepInv
<1>4. QED
  BY <1>2, <1>3 DEF SaveFails

-----------------------------------------------------------------------------
LEMMA ExecutorNextIInv == ExecutorIInv /\ [ExecutorNext]_executorVars => ExecutorIInv'
BY StutteringKeepsInv, AcquireLeaseInv, ReleaseLeaseInv, StartRunInv, ResumeInv, ExecuteInv,
   CancelInv, InterruptInv, SaveCheckedInv, SaveRefusedInv, SaveWrittenInv, SaveFencedInv,
   SaveFailsInv, WorkerDiesInv
DEF ExecutorNext

(* Every reachable state satisfies the executors' inductive invariant.     *)
THEOREM ExecutorInvariance == ExecutorSpec => []ExecutorIInv
BY InitExecutorIInv, ExecutorNextIInv, PTL DEF ExecutorSpec

(* The executors' variables keep their types.                              *)
THEOREM ExecutorTypeCorrectness == ExecutorSpec => []ExecutorTypeOK
<1>1. ExecutorIInv => ExecutorTypeOK
  BY DEF ExecutorIInv
<1>2. QED
  BY <1>1, ExecutorInvariance, PTL

(* Workers that run CheckpointingDAGExecutor use leases and checkpoint     *)
(* files in no way that FencedCheckpoint does not allow, so what is proved *)
(* of its workers is true of them.                                         *)
THEOREM ExecutorsAreWorkers == ExecutorSpec => Spec
<1>1. ExecutorInit => Init
  BY DEF ExecutorInit
<1>2. [ExecutorNext]_executorVars => [Next]_vars
  BY StepsAreSteps
<1>3. QED
  BY <1>1, <1>2, PTL DEF ExecutorSpec, Spec

(* A run that CheckpointingDAGExecutor records as COMPLETED has every node *)
(* of the DAG among its completed ones, however many workers ran it.       *)
THEOREM CompletedRunsAreComplete == ExecutorSpec => []NoNodeIsSkipped
<1>1. ExecutorIInv => NoNodeIsSkipped
  BY DEF ExecutorIInv, FileInv, NoNodeIsSkipped
<1>2. QED
  BY <1>1, ExecutorInvariance, PTL

(* As long as no disk fails, a run that CheckpointingDAGExecutor records as *)
(* COMPLETED has the output of every node that was not allowed to fail.    *)
THEOREM CompletedRunsHaveTheirOutputs == ExecutorSpec => []CompletedRunsHideNoFailure
<1>1. ASSUME ExecutorIInv, NEW r \in Runs,
             faults = 0, file[r] # None, file[r].body.status = "COMPLETED"
      PROVE  Nodes \ setup.retries \subseteq file[r].body.context
  <2>1. /\ FileInv(r) /\ Nodes \subseteq Range(file[r].body.completed)
        /\ file[r].body.failed = None
    BY <1>1 DEF ExecutorIInv, FileInv
  <2>2. Done(file[r]) \ setup.retries \subseteq file[r].body.context
    BY <1>1, <2>1 DEF FileInv
  <2>3. QED
    BY <1>1, <2>1, <2>2, CheckpointingAssumption DEF Done
<1>2. ExecutorIInv => CompletedRunsHideNoFailure
  BY <1>1 DEF CompletedRunsHideNoFailure
<1>3. QED
  BY <1>2, ExecutorInvariance, PTL

(* Before the owner of a run starts a node, fewer nodes than               *)
(* checkpoint_interval have run since its last checkpoint.                 *)
THEOREM CheckpointsKeepUp == ExecutorSpec => []UnsavedWorkIsBounded
<1>1. ASSUME ExecutorIInv, NEW w \in Workers, In(w, "node"), file[RunOf(w)] # None,
             file[RunOf(w)].token = lease[w].token
      PROVE  Len(exec[w].completed) - Len(file[RunOf(w)].body.completed) < setup.interval
  <2>1. /\ exec[w] \in Executor /\ SavesInTime(w) /\ setup.interval \in Nat
        /\ lease[w] # None /\ FileInv(RunOf(w))
    BY <1>1, WorkerTypes DEF WorkerInv, Working, In
  <2>2. /\ Len(exec[w].completed) - Len(file[RunOf(w)].body.completed) <= exec[w].since
        /\ exec[w].since < setup.interval
    BY <1>1, <2>1 DEF SavesInTime, In
  <2>3. /\ Len(exec[w].completed) \in Nat /\ Len(file[RunOf(w)].body.completed) \in Nat
        /\ exec[w].since \in Nat
    BY <1>1, <2>1 DEF Executor, FileInv, DAGCheckpoint
  <2>4. \A i, j, k, l \in Nat : i - j <= k /\ k < l => i - j < l
    OBVIOUS
  <2>5. QED
    BY <2>1, <2>2, <2>3, <2>4
<1>2. ExecutorIInv => UnsavedWorkIsBounded
  BY <1>1 DEF UnsavedWorkIsBounded
<1>3. QED
  BY <1>2, ExecutorInvariance, PTL

-----------------------------------------------------------------------------
(* A run's file changes by the save of a worker that is not fenced.        *)
LEMMA FilesAreSaved ==
    ASSUME ExecutorIInv, [ExecutorNext]_executorVars, NEW r \in Runs, file'[r] # file[r]
    PROVE  \E v \in Workers :
             /\ RunOf(v) = r /\ Working(v) /\ SavePoint(v) \in DOMAIN Status
             /\ ~Fenced(r, lease[v].token)
             /\ file'[r] = [token |-> lease[v].token, body |-> Body(v)]
             /\ file'[r] # None
<1>1. PICK v \in Workers : WriteFile(v) /\ LateNow(v)
  BY DEF ExecutorNext, executorVars, vars, fileVars, TimePasses, AcquireLease, ReleaseLease,
         StartRun, Resume, Execute, Cancel, Interrupt, SaveChecked, CheckedSave, SaveRefused,
         SaveWritten, SaveFenced, StaleWrite, SaveFails, WriteFails, WorkerDies, Die
<1>2. /\ RunOf(v) \in Runs /\ Working(v) /\ SavePoint(v) \in DOMAIN Status
      /\ file' = [file EXCEPT ![RunOf(v)] = [token |-> lease[v].token, body |-> Body(v)]]
      /\ [token |-> lease[v].token, body |-> Body(v)] # None
  BY <1>1, WrittenFiles
<1>3. file \in [Runs -> Checkpoint \union {None}]
  BY DEF ExecutorIInv, IInv, TypeOK
<1>4. RunOf(v) = r /\ file'[r] = [token |-> lease[v].token, body |-> Body(v)]
  BY <1>2, <1>3
<1>5. QED
  BY <1>1, <1>2, <1>4 DEF WriteFile

(* No step of any worker takes a node that is done, or an output, off a    *)
(* checkpoint that an owner wrote: whoever is still able to write knows    *)
(* what it says.                                                           *)
THEOREM OwnersProgressIsKept == ExecutorSpec => OwnersProgressStands
<1>1. ASSUME ExecutorIInv, [ExecutorNext]_executorVars,
             NEW r \in Runs, file[r] # None, ~late[r]
      PROVE  /\ Done(file[r]) \subseteq Done(file'[r])
             /\ file[r].body.context \subseteq file'[r].body.context
  <2>1. CASE file'[r] = file[r]
    BY <2>1
  <2>2. CASE file'[r] # file[r]
    <3>1. PICK v \in Workers :
            /\ RunOf(v) = r /\ Working(v) /\ SavePoint(v) \in DOMAIN Status
            /\ ~Fenced(r, lease[v].token)
            /\ file'[r] = [token |-> lease[v].token, body |-> Body(v)]
            /\ file'[r] # None
      BY <1>1, <2>2, FilesAreSaved
    <3>2. FileInv(r) /\ WorkerInv(v) /\ lease[v].token \in Nat /\ store[r].token \in Nat
      BY <1>1, <3>1, WorkerTypes
    <3>3. lease[v].token >= file[r].token
      BY <1>1, <3>1, <3>2 DEF Fenced, FileInv
    <3>4. /\ Done(file[r]) \subseteq Range(exec[v].completed)
          /\ file[r].body.context \subseteq exec[v].context
          /\ In(v, "fail") => exec[v].node \notin Done(file[r])
      BY <1>1, <3>1, <3>2, <3>3 DEF WorkerInv, KnowsFile, In
    <3>5. Done(file[r]) \subseteq Nodes
      BY <1>1, <3>2, RangeOfNodes DEF FileInv, DAGCheckpoint, Done
    <3>6. /\ Body(v).completed = exec[v].completed /\ Body(v).context = exec[v].context
          /\ Body(v).failed = IF In(v, "fail") THEN exec[v].node ELSE None
      BY DEF Body
    <3>7. Done(file'[r]) = Range(exec[v].completed) \ {Body(v).failed}
      BY <3>1, <3>6 DEF Done
    <3>8. QED
      BY <3>1, <3>4, <3>5, <3>6, <3>7, CheckpointingAssumption
  <2>3. QED
    BY <2>1, <2>2
<1>2. ExecutorIInv /\ [ExecutorNext]_executorVars =>
        [\A r \in Runs : file[r] # None /\ ~late[r] =>
           /\ Done(file[r]) \subseteq Done(file'[r])
           /\ file[r].body.context \subseteq file'[r].body.context]_executorVars
  BY <1>1
<1>3. QED
  BY <1>2, ExecutorInvariance, PTL DEF ExecutorSpec, OwnersProgressStands

(* A run that its owner completed or cancelled stays so: as long as no disk *)
(* fails, everybody who could still save was deposed before it ended.      *)
THEOREM EndedRunsAreFinal == ExecutorSpec => EndedRunsStay
<1>1. ASSUME ExecutorIInv, [ExecutorNext]_executorVars,
             NEW r \in Runs, Ended(r), ~late[r], file'[r] # file[r]
      PROVE  faults' > 0
  <2>1. PICK v \in Workers :
          /\ RunOf(v) = r /\ Working(v) /\ ~Fenced(r, lease[v].token)
    BY <1>1, FilesAreSaved
  <2>2. WorkerInv(v) /\ faults \in Nat
    BY <1>1, WorkerTypes
  <2>3. faults # 0
    BY <1>1, <2>1, <2>2 DEF WorkerInv, WasDeposed, Ended, Fenced
  <2>4. faults' = faults \/ faults' = faults + 1
    BY <1>1 DEF ExecutorNext, executorVars, TimePasses, AcquireLease, ReleaseLease, StartRun,
                Resume, Execute, Cancel, Interrupt, SaveChecked, SaveRefused, SaveWritten,
                SaveFenced, SaveFails, WorkerDies
  <2>5. QED
    BY <2>2, <2>3, <2>4
<1>2. ExecutorIInv /\ [ExecutorNext]_executorVars =>
        [\A r \in Runs : Ended(r) /\ ~late[r] =>
           file'[r] = file[r] \/ faults' > 0]_executorVars
  BY <1>1
<1>3. QED
  BY <1>2, ExecutorInvariance, PTL DEF ExecutorSpec, EndedRunsStay
=============================================================================

--------------------------- MODULE FencedRegister ---------------------------
(***************************************************************************)
(* What fenced checkpoints promise, with leases, clocks, locks and         *)
(* processes taken away: each run has a register and a counter of the      *)
(* ownerships it has issued.  A register is only ever written under an     *)
(* ownership that has been issued, and never under an older one than its   *)
(* present contents; nothing is promised across a removal.                 *)
(*                                                                         *)
(* An abstract specification: FencedCheckpoint is shown to implement it.   *)
(***************************************************************************)
EXTENDS Integers

CONSTANTS Runs, Bodies, None

VARIABLES
    issued,   \* per run, the ownerships issued so far
    value     \* per run, the contents, or None

registerVars == <<issued, value>>

Init ==
    /\ issued = [r \in Runs |-> 0]
    /\ value = [r \in Runs |-> None]

Issue(r) ==
    /\ issued' = [issued EXCEPT ![r] = @ + 1]
    /\ UNCHANGED value

Commit(r, token, body) ==
    /\ value[r] # None => value[r].token <= token
    /\ value' = [value EXCEPT ![r] = [token |-> token, body |-> body]]
    /\ UNCHANGED issued

Discard(r) ==
    /\ value' = [value EXCEPT ![r] = None]
    /\ UNCHANGED issued

Next ==
    \E r \in Runs :
        \/ Issue(r)
        \/ \E token \in 1..issued[r], body \in Bodies : Commit(r, token, body)
        \/ Discard(r)

Spec == Init /\ [][Next]_registerVars
=============================================================================

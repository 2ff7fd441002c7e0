---------------------------- MODULE AccountMutex ----------------------------
(***************************************************************************)
(* What the per-account lock promises its callers, without files or clocks *)
(* (packages/adapters/src/subscriptions/accountLock.ts, header comment).   *)
(*                                                                         *)
(* A caller waits, then runs its critical section either holding the lock  *)
(* ("in") or, having waited too long, without it ("bare").  At most one    *)
(* caller is "in".  A caller may die anywhere; a lock it leaves behind is   *)
(* taken away by the callers that are still waiting.                       *)
(***************************************************************************)
CONSTANTS
    Proc,       \* the callers that share one account
    None        \* the lock is free

VARIABLES
    owner,      \* the process the lock names, or None
    st          \* st[p] \in {"out", "wait", "in", "bare"}

vars == <<owner, st>>

TypeOK ==
    /\ owner \in Proc \cup {None}
    /\ st \in [Proc -> {"out", "wait", "in", "bare"}]

Init ==
    /\ owner = None
    /\ st = [p \in Proc |-> "out"]

Ask(p) ==
    /\ st[p] = "out"
    /\ st' = [st EXCEPT ![p] = "wait"]
    /\ UNCHANGED owner

Enter(p) ==
    /\ st[p] = "wait"
    /\ owner = None
    /\ owner' = p
    /\ st' = [st EXCEPT ![p] = "in"]

EnterBare(p) ==
    /\ st[p] = "wait"
    /\ st' = [st EXCEPT ![p] = "bare"]
    /\ UNCHANGED owner

\* Leaving the section, or giving up before it: an error while acquiring.
Leave(p) ==
    /\ st[p] # "out"
    /\ owner' = IF st[p] = "in" THEN None ELSE owner
    /\ st' = [st EXCEPT ![p] = "out"]

\* Callers are killed, all those of one process: what they owned stays behind.
Die(dead) ==
    /\ \A p \in dead : st[p] # "out"
    /\ st' = [p \in Proc |-> IF p \in dead THEN "out" ELSE st[p]]
    /\ UNCHANGED owner

\* A waiter takes away a lock whose owner is not inside any more.
Reap(p) ==
    /\ st[p] = "wait"
    /\ owner # None
    /\ st[owner] # "in"
    /\ owner' = None
    /\ UNCHANGED st

Next ==
    \/ \E p \in Proc :
        \/ Ask(p) \/ Enter(p) \/ EnterBare(p)
        \/ Leave(p) \/ Reap(p)
    \/ \E dead \in SUBSET Proc : Die(dead)

Spec == Init /\ [][Next]_vars
=============================================================================

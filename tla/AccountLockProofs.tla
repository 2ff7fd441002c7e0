-------------------------- MODULE AccountLockProofs --------------------------
(***************************************************************************)
(* Mutual exclusion of the account lock for every set of processes and     *)
(* every choice of the time bounds, under the timing named by Prompt.      *)
(***************************************************************************)
EXTENDS AccountLock, TLAPS

LEMMA InitEstablishesIInv == Init => IInv
<1> SUFFICES ASSUME Init PROVE IInv
    OBVIOUS
<1> USE LockAssumption DEF Init, NoFile
<1>1. TypeOK
    BY DEF TypeOK, File, PC
<1>2. HolderOwnsLock /\ LockedAsRunning
    BY DEF HolderOwnsLock, LockedAsRunning, Holds, Running
<1>3. ReclaimerOwnsGuard /\ GuardHasReclaimer
    BY DEF ReclaimerOwnsGuard, GuardHasReclaimer, Guarding, Exists
<1>4. NoOrphanSeen /\ RemovalIsJustified
    BY DEF NoOrphanSeen, RemovalIsJustified
<1>5. QED
    BY <1>1, <1>2, <1>3, <1>4 DEF IInv

\* Every step keeps the types, whatever the timing.
LEMMA StepKeepsTypes ==
    ASSUME TypeOK, [Next]_vars
    PROVE  TypeOK'
<1> USE LockAssumption DEF TypeOK, File, PC, Waiting, Guarding, Running
<1>1. ASSUME NEW p \in Proc, Call(p) PROVE TypeOK'
    BY <1>1 DEF Call, Goto
<1>2. ASSUME NEW p \in Proc, Create(p) PROVE TypeOK'
    <2>1. CASE Exists(lock)
        BY <1>2, <2>1 DEF Create, Goto
    <2>2. CASE ~Exists(lock)
        <3>1. NewFile(p) \in File
            BY DEF NewFile
        <3>2. lock' = NewFile(p) /\ UNCHANGED <<guard, won, waited, crashes>>
            BY <1>2, <2>2 DEF Create
        <3>3. locked' \in [Proc -> BOOLEAN]
            BY <1>2, <2>2 DEF Create
        <3>4. pc' \in [Proc -> PC] /\ busy' \in [Proc -> Nat]
            BY <1>2, <2>2 DEF Create, Goto
        <3>5. QED
            BY <3>1, <3>2, <3>3, <3>4
    <2>3. QED
        BY <2>1, <2>2
<1>3. ASSUME NEW p \in Proc, CreateFails(p) PROVE TypeOK'
    BY <1>3 DEF CreateFails, Goto
<1>4. ASSUME NEW p \in Proc, StatGuard(p) PROVE TypeOK'
    BY <1>4 DEF StatGuard, Goto
<1>5. ASSUME NEW p \in Proc, ClearGuard(p) PROVE TypeOK'
    BY <1>5 DEF ClearGuard, Goto, NoFile
<1>6. ASSUME NEW p \in Proc, CreateGuard(p) PROVE TypeOK'
    <2>1. CASE Exists(guard)
        BY <1>6, <2>1 DEF CreateGuard, GiveUpOrSleep, Goto
    <2>2. CASE ~Exists(guard)
        BY <1>6, <2>2 DEF CreateGuard, Goto, NewFile
    <2>3. QED
        BY <2>1, <2>2
<1>7. ASSUME NEW p \in Proc, StatLock(p) PROVE TypeOK'
    BY <1>7 DEF StatLock
<1>8. ASSUME NEW p \in Proc, RemoveLock(p) PROVE TypeOK'
    BY <1>8 DEF RemoveLock, NoFile
<1>9. ASSUME NEW p \in Proc, RemoveGuard(p) PROVE TypeOK'
    <2>1. CASE won[p]
        BY <1>9, <2>1 DEF RemoveGuard, Goto, NoFile
    <2>2. CASE ~won[p]
        BY <1>9, <2>2 DEF RemoveGuard, GiveUpOrSleep, Goto, NoFile
    <2>3. QED
        BY <2>1, <2>2
<1>10. ASSUME NEW p \in Proc, Wake(p) PROVE TypeOK'
    BY <1>10 DEF Wake, Goto
<1>11. ASSUME NEW p \in Proc, Finish(p) PROVE TypeOK'
    BY <1>11 DEF Finish
<1>12. ASSUME NEW p \in Proc, Release(p) PROVE TypeOK'
    BY <1>12 DEF Release, Goto, NoFile
<1>13. ASSUME NEW p \in Proc, Crash(p) PROVE TypeOK'
    BY <1>13 DEF Crash, Goto
<1>14. CASE Tick
    <2>1. lock' \in File /\ guard' \in File
        BY <1>14 DEF Tick, OlderFile, Older
    <2>2. waited' \in [Proc -> Nat] /\ busy' \in [Proc -> Nat]
        BY <1>14 DEF Tick, Older, BusyCap
    <2>3. QED
        BY <1>14, <2>1, <2>2 DEF Tick
<1>15. CASE UNCHANGED vars
    BY <1>15 DEF vars
<1>16. QED
    BY <1>1, <1>2, <1>3, <1>4, <1>5, <1>6, <1>7, <1>8, <1>9, <1>10, <1>11,
       <1>12, <1>13, <1>14, <1>15 DEF Next, Progress, RmGuard

\* The lock file and the guard file always have the shape of a file, and the
\* control points and clocks their ranges.
THEOREM TypeCorrect == Spec => []TypeOK
<1>1. Init => TypeOK
    BY InitEstablishesIInv DEF IInv
<1>2. TypeOK /\ [Next]_vars => TypeOK'
    BY StepKeepsTypes
<1>3. QED
    BY <1>1, <1>2, PTL DEF Spec
-----------------------------------------------------------------------------
\* Under Prompt every step keeps the strengthened invariant.  The two facts
\* that carry it: a holder's lock is never older than the holder has been
\* inside, so it never looks stale; and a guard always has its reclaimer, so
\* two reclaimers never look at the lock at the same time.
LEMMA StepKeepsIInv ==
    ASSUME Prompt, IInv, [Next]_vars
    PROVE  IInv'
<1> USE LockAssumption DEF Prompt, IInv
<1>0. TypeOK'
    BY StepKeepsTypes
<1> DEFINE Rest == HolderOwnsLock /\ ReclaimerOwnsGuard /\ GuardHasReclaimer
                   /\ LockedAsRunning /\ NoOrphanSeen /\ RemovalIsJustified
<1>1. ASSUME NEW p \in Proc, Call(p) PROVE Rest'
    BY <1>1, <1>0 DEF Call, Goto, TypeOK, File,
       Holds, Exists, IsStale, Waiting, Guarding, Running, HolderOwnsLock,
       ReclaimerOwnsGuard, GuardHasReclaimer, LockedAsRunning, NoOrphanSeen,
       RemovalIsJustified
<1>2. ASSUME NEW p \in Proc, Create(p) PROVE Rest'
    BY <1>2, <1>0 DEF Create, Goto, NewFile, TypeOK, File,
       Holds, Exists, IsStale, Waiting, Guarding, Running, HolderOwnsLock,
       ReclaimerOwnsGuard, GuardHasReclaimer, LockedAsRunning, NoOrphanSeen,
       RemovalIsJustified
<1>3. ASSUME NEW p \in Proc, CreateFails(p) PROVE Rest'
    BY <1>3, <1>0 DEF CreateFails, Goto, TypeOK, File,
       Holds, Exists, IsStale, Waiting, Guarding, Running, HolderOwnsLock,
       ReclaimerOwnsGuard, GuardHasReclaimer, LockedAsRunning, NoOrphanSeen,
       RemovalIsJustified
<1>4. ASSUME NEW p \in Proc, StatGuard(p) PROVE Rest'
    BY <1>4, <1>0 DEF StatGuard, Goto, TypeOK, File,
       Holds, Exists, IsStale, Waiting, Guarding, Running, HolderOwnsLock,
       ReclaimerOwnsGuard, GuardHasReclaimer, LockedAsRunning, NoOrphanSeen,
       RemovalIsJustified
<1>5. ASSUME NEW p \in Proc, ClearGuard(p) PROVE Rest'
    BY <1>5, <1>0 DEF ClearGuard, TypeOK, File,
       Holds, Exists, IsStale, Waiting, Guarding, Running, HolderOwnsLock,
       ReclaimerOwnsGuard, GuardHasReclaimer, LockedAsRunning, NoOrphanSeen,
       RemovalIsJustified
<1>6. ASSUME NEW p \in Proc, CreateGuard(p) PROVE Rest'
    BY <1>6, <1>0 DEF CreateGuard, GiveUpOrSleep, Goto, NewFile, TypeOK, File,
       Holds, Exists, IsStale, Waiting, Guarding, Running, HolderOwnsLock,
       ReclaimerOwnsGuard, GuardHasReclaimer, LockedAsRunning, NoOrphanSeen,
       RemovalIsJustified
<1>7. ASSUME NEW p \in Proc, StatLock(p) PROVE Rest'
    BY <1>7, <1>0 DEF StatLock, TypeOK, File,
       Holds, Exists, IsStale, Waiting, Guarding, Running, HolderOwnsLock,
       ReclaimerOwnsGuard, GuardHasReclaimer, LockedAsRunning, NoOrphanSeen,
       RemovalIsJustified
<1>8. ASSUME NEW p \in Proc, RemoveLock(p) PROVE Rest'
    BY <1>8, <1>0 DEF RemoveLock, NoFile, TypeOK, File,
       Holds, Exists, IsStale, Waiting, Guarding, Running, HolderOwnsLock,
       ReclaimerOwnsGuard, GuardHasReclaimer, LockedAsRunning, NoOrphanSeen,
       RemovalIsJustified
<1>9. ASSUME NEW p \in Proc, RemoveGuard(p) PROVE Rest'
    BY <1>9, <1>0 DEF RemoveGuard, GiveUpOrSleep, Goto, NoFile, TypeOK, File,
       Holds, Exists, IsStale, Waiting, Guarding, Running, HolderOwnsLock,
       ReclaimerOwnsGuard, GuardHasReclaimer, LockedAsRunning, NoOrphanSeen,
       RemovalIsJustified
<1>10. ASSUME NEW p \in Proc, Wake(p) PROVE Rest'
    BY <1>10, <1>0 DEF Wake, Goto, TypeOK, File,
       Holds, Exists, IsStale, Waiting, Guarding, Running, HolderOwnsLock,
       ReclaimerOwnsGuard, GuardHasReclaimer, LockedAsRunning, NoOrphanSeen,
       RemovalIsJustified
<1>11. ASSUME NEW p \in Proc, Finish(p) PROVE Rest'
    BY <1>11, <1>0 DEF Finish, TypeOK, File,
       Holds, Exists, IsStale, Waiting, Guarding, Running, HolderOwnsLock,
       ReclaimerOwnsGuard, GuardHasReclaimer, LockedAsRunning, NoOrphanSeen,
       RemovalIsJustified
<1>12. ASSUME NEW p \in Proc, Release(p) PROVE Rest'
    <2> USE <1>12 DEF Release, Goto, TypeOK
    <2>1. lock.by = p
        BY DEF LockedAsRunning, HolderOwnsLock, Holds, Running
    <2>2. \A q \in Proc : ~Holds(q)'
        BY <2>1 DEF HolderOwnsLock, Holds, Running
    <2>3. HolderOwnsLock' /\ LockedAsRunning'
        BY <2>2 DEF HolderOwnsLock, LockedAsRunning, Running
    <2>4. ReclaimerOwnsGuard' /\ GuardHasReclaimer' /\ NoOrphanSeen'
        BY DEF ReclaimerOwnsGuard, GuardHasReclaimer, NoOrphanSeen, Guarding, Exists, File
    <2>5. RemovalIsJustified'
        <3>1. Holds(p)
            BY DEF Holds, Running, LockedAsRunning
        <3>2. ~IsStale(lock)
            BY <3>1 DEF HolderOwnsLock, IsStale, File
        <3>3. QED
            BY <3>2 DEF RemovalIsJustified
    <2>6. QED
        BY <2>3, <2>4, <2>5
<1>13. ASSUME NEW p \in Proc, Crash(p) PROVE Rest'
    BY <1>13, <1>0 DEF Crash, Goto, TypeOK, File,
       Holds, Exists, IsStale, Waiting, Guarding, Running, HolderOwnsLock,
       ReclaimerOwnsGuard, GuardHasReclaimer, LockedAsRunning, NoOrphanSeen,
       RemovalIsJustified
<1>14. ASSUME Tick PROVE Rest'
    <2> USE <1>14 DEF Tick, TypeOK
    <2>1. \A p \in Proc : Holds(p)' <=> Holds(p)
        BY DEF Holds
    <2>2. ASSUME NEW p \in Proc, pc[p] # "idle"
          PROVE  busy'[p] = Older(busy[p], BusyCap(p))
        BY <2>2
    <2>3. HolderOwnsLock'
        <3> SUFFICES ASSUME NEW p \in Proc, Holds(p)
                     PROVE  lock'.by = p /\ lock'.age <= busy'[p] /\ busy'[p] <= Hold
            BY <2>1 DEF HolderOwnsLock
        <3>1. lock.by = p /\ lock.age <= busy[p] /\ busy[p] < Hold
            BY DEF HolderOwnsLock, Holds, InTime
        <3>2. busy'[p] = busy[p] + 1
            BY <3>1, <2>2 DEF Holds, Running, BusyCap, Older
        <3>3. lock'.by = p /\ lock'.age <= lock.age + 1
            BY <3>1 DEF OlderFile, Older, Exists, File
        <3>4. lock'.age \in Nat
            BY <1>0 DEF File
        <3>5. QED
            BY <3>1, <3>2, <3>3, <3>4 DEF File
    <2>4. ReclaimerOwnsGuard'
        <3> SUFFICES ASSUME NEW p \in Proc, pc[p] \in Guarding
                     PROVE  guard'.by = p /\ guard'.age <= busy'[p] /\ busy'[p] <= Grace
            BY DEF ReclaimerOwnsGuard
        <3>1. guard.by = p /\ guard.age <= busy[p] /\ busy[p] < Grace
            BY DEF ReclaimerOwnsGuard, InTime
        <3>2. busy'[p] = busy[p] + 1
            BY <3>1, <2>2 DEF Guarding, Running, BusyCap, Older
        <3>3. guard'.by = p /\ guard'.age <= guard.age + 1
            BY <3>1 DEF OlderFile, Older, Exists, File
        <3>4. guard'.age \in Nat
            BY <1>0 DEF File
        <3>5. QED
            BY <3>1, <3>2, <3>3, <3>4 DEF File
    <2>5. GuardHasReclaimer'
        BY DEF GuardHasReclaimer, OlderFile, Exists, File
    <2>6. LockedAsRunning' /\ NoOrphanSeen'
        BY DEF LockedAsRunning, NoOrphanSeen
    <2>7. RemovalIsJustified'
        BY DEF RemovalIsJustified, OlderFile, Older, IsStale, Exists, File
    <2>8. QED
        BY <2>3, <2>4, <2>5, <2>6, <2>7
<1>15. ASSUME UNCHANGED vars PROVE Rest'
    BY <1>15 DEF vars, Holds, Exists, IsStale, HolderOwnsLock, ReclaimerOwnsGuard,
       GuardHasReclaimer, LockedAsRunning, NoOrphanSeen, RemovalIsJustified
<1>16. QED
    BY <1>0, <1>1, <1>2, <1>3, <1>4, <1>5, <1>6, <1>7, <1>8, <1>9, <1>10, <1>11,
       <1>12, <1>13, <1>14, <1>15 DEF Next, Progress, RmGuard

LEMMA Inductive == Prompt /\ Spec => []IInv
<1>1. Init => IInv
    BY InitEstablishesIInv
<1>2. Prompt /\ IInv /\ [Next]_vars => IInv'
    BY StepKeepsIInv
<1>3. Prompt => Prompt'
    BY DEF Prompt
<1>4. QED
    BY <1>1, <1>2, <1>3, PTL DEF Spec

\* Under Prompt no two processes ever hold one account's lock together: the
\* O_EXCL create and the guarded reclaim of accountLock.ts exclude each other.
THEOREM LockIsMutex == Prompt /\ Spec => []MutualExclusion
<1>1. IInv => MutualExclusion
    BY DEF IInv, HolderOwnsLock, MutualExclusion
<1>2. QED
    BY <1>1, Inductive, PTL

\* Under Prompt the reclaimer's rm(path) never runs while somebody is inside.
THEOREM ReclaimIsSafe == Prompt /\ Spec => RemovesOnlyDeadLocks
<1> DEFINE Safe == \A p, q \in Proc : pc[p] = "remove" /\ pc'[p] = "unguard" => ~Holds(q)
<1>1. ASSUME Prompt, IInv PROVE Safe
    <2> SUFFICES ASSUME NEW p \in Proc, NEW q \in Proc, pc[p] = "remove", Holds(q)
                 PROVE  FALSE
        OBVIOUS
    <2>1. lock.age > Stale
        BY <1>1 DEF IInv, RemovalIsJustified, IsStale
    <2>2. lock.age <= busy[q] /\ busy[q] <= Hold
        BY <1>1 DEF IInv, HolderOwnsLock
    <2>3. QED
        BY <1>1, <2>1, <2>2, LockAssumption DEF IInv, TypeOK, File, Prompt
<1>2. Prompt => Prompt'
    BY DEF Prompt
<1>3. Prompt /\ IInv => [Safe]_vars
    BY <1>1
<1>4. QED
    BY <1>2, <1>3, Inductive, PTL DEF RemovesOnlyDeadLocks

\* Under Prompt the release's rm(path) removes the releaser's own file.
THEOREM ReleaseIsOwn == Prompt /\ Spec => ReleasesOnlyOwnLock
<1> DEFINE Own == \A p \in Proc : pc[p] = "release" /\ pc'[p] = "idle" /\ lock' # lock
                                    => lock.by = p
<1>1. ASSUME IInv PROVE Own
    BY <1>1 DEF IInv, LockedAsRunning, HolderOwnsLock, Holds, Running
<1>2. Prompt => Prompt'
    BY DEF Prompt
<1>3. IInv => [Own]_vars
    BY <1>1
<1>4. QED
    BY <1>3, Inductive, PTL DEF ReleasesOnlyOwnLock

\* Whatever the timing and the crashes, nobody goes in without the lock before
\* its deadline: unlocked runs are the last resort the header comment allows.
THEOREM UnlockedIsLastResort == Spec => UnlockedOnlyAfterDeadline
<1> DEFINE Late == \A p \in Proc : pc[p] # "run" /\ pc'[p] = "run" /\ ~locked'[p]
                                     => waited[p] >= MaxWait
<1>1. ASSUME TypeOK, [Next]_vars PROVE [Late]_vars
    <2> SUFFICES ASSUME NEW p \in Proc, pc[p] # "run", pc'[p] = "run", ~locked'[p]
                 PROVE  waited[p] >= MaxWait
        OBVIOUS
    <2> USE <1>1 DEF TypeOK, Goto
    <2>1. ASSUME NEW q \in Proc, Call(q) \/ CreateFails(q) \/ StatGuard(q) \/ ClearGuard(q)
          PROVE  FALSE
        BY <2>1 DEF Call, CreateFails, StatGuard, ClearGuard
    <2>2. ASSUME NEW q \in Proc, StatLock(q) \/ RemoveLock(q) \/ Wake(q) \/ Finish(q)
          PROVE  FALSE
        BY <2>2 DEF StatLock, RemoveLock, Wake, Finish
    <2>3. ASSUME NEW q \in Proc, Release(q) \/ Crash(q) PROVE FALSE
        BY <2>3 DEF Release, Crash
    <2>4. ASSUME NEW q \in Proc, Create(q) PROVE FALSE
        BY <2>4 DEF Create
    <2>5. ASSUME NEW q \in Proc, CreateGuard(q) PROVE waited[p] >= MaxWait
        BY <2>5 DEF CreateGuard, GiveUpOrSleep
    <2>6. ASSUME NEW q \in Proc, RemoveGuard(q) PROVE waited[p] >= MaxWait
        BY <2>6 DEF RemoveGuard, GiveUpOrSleep
    <2>7. ASSUME Tick \/ UNCHANGED vars PROVE FALSE
        BY <2>7 DEF Tick, vars
    <2>8. QED
        BY <2>1, <2>2, <2>3, <2>4, <2>5, <2>6, <2>7 DEF Next, Progress, RmGuard
<1>2. QED
    BY <1>1, TypeCorrect, PTL DEF Spec, UnlockedOnlyAfterDeadline
-----------------------------------------------------------------------------
\* A step of p changes the abstract state of p alone.
LEMMA OnlyOneMoves ==
    ASSUME NEW p \in Proc,
           \A q \in Proc \ {p} : pc'[q] = pc[q] /\ locked'[q] = locked[q]
    PROVE  AbstractState' = [AbstractState EXCEPT ![p] = StateOf(p)']
BY DEF AbstractState, StateOf

\* Under Prompt every step is a step of AccountMutex or leaves it alone:
\* creating the file is Enter, giving up is EnterBare, the guarded rm(path) is
\* Reap, leaving and the errors are Leave, a kill is Die.
LEMMA StepRefines ==
    ASSUME Prompt, IInv, [Next]_vars
    PROVE  [Mutex!Next]_(Mutex!vars)
<1> USE LockAssumption DEF IInv, TypeOK, Goto
<1> DEFINE Others(p) == \A q \in Proc \ {p} : pc'[q] = pc[q] /\ locked'[q] = locked[q]
<1>0. ASSUME NEW p \in Proc, Others(p), StateOf(p)' = StateOf(p), lock'.by = lock.by
      PROVE  UNCHANGED Mutex!vars
    BY <1>0, OnlyOneMoves DEF Mutex!vars, AbstractState
<1>1. ASSUME NEW p \in Proc, Call(p) PROVE Mutex!Ask(p)
    <2>1. StateOf(p) = "out" /\ StateOf(p)' = "wait" /\ Others(p) /\ lock' = lock
        BY <1>1 DEF Call, StateOf, Running
    <2>2. QED
        BY <2>1, OnlyOneMoves DEF Mutex!Ask, AbstractState
<1>2. ASSUME NEW p \in Proc, Create(p) PROVE Mutex!Enter(p) \/ UNCHANGED Mutex!vars
    <2>1. CASE Exists(lock)
        <3>1. StateOf(p)' = StateOf(p) /\ Others(p) /\ lock' = lock
            BY <1>2, <2>1 DEF Create, StateOf, Running
        <3>2. QED
            BY <3>1, <1>0
    <2>2. CASE ~Exists(lock)
        <3>1. StateOf(p) = "wait" /\ StateOf(p)' = "in" /\ Others(p)
            BY <1>2, <2>2 DEF Create, StateOf, Running
        <3>2. lock.by = None /\ lock'.by = p
            BY <1>2, <2>2 DEF Create, Exists, NewFile
        <3>3. QED
            BY <3>1, <3>2, OnlyOneMoves DEF Mutex!Enter, AbstractState
    <2>3. QED
        BY <2>1, <2>2
<1>3. ASSUME NEW p \in Proc, CreateFails(p) PROVE Mutex!Leave(p)
    <2>1. StateOf(p) = "wait" /\ StateOf(p)' = "out" /\ Others(p) /\ lock' = lock
        BY <1>3 DEF CreateFails, StateOf, Running
    <2>2. QED
        BY <2>1, OnlyOneMoves DEF Mutex!Leave, AbstractState
<1>4. ASSUME NEW p \in Proc, StatGuard(p) \/ ClearGuard(p) \/ StatLock(p) \/ Wake(p)
      PROVE  UNCHANGED Mutex!vars
    <2>1. StateOf(p)' = StateOf(p) /\ Others(p) /\ lock' = lock
        BY <1>4 DEF StatGuard, ClearGuard, StatLock, Wake, StateOf, Running
    <2>2. QED
        BY <2>1, <1>0
<1>5. ASSUME NEW p \in Proc, GiveUpOrSleep(p), pc[p] \in {"guard", "unguard"},
             locked' = locked, lock' = lock
      PROVE  Mutex!EnterBare(p) \/ UNCHANGED Mutex!vars
    <2>1. StateOf(p) = "wait" /\ Others(p) /\ StateOf(p)' \in {"wait", "bare"}
        BY <1>5 DEF GiveUpOrSleep, StateOf, Running, LockedAsRunning
    <2>2. QED
        BY <2>1, <1>5, <1>0, OnlyOneMoves DEF Mutex!EnterBare, AbstractState
<1>6. ASSUME NEW p \in Proc, CreateGuard(p)
      PROVE  Mutex!EnterBare(p) \/ UNCHANGED Mutex!vars
    <2>1. CASE Exists(guard)
        BY <1>5, <1>6, <2>1 DEF CreateGuard
    <2>2. CASE ~Exists(guard)
        <3>1. StateOf(p)' = StateOf(p) /\ Others(p) /\ lock' = lock
            BY <1>6, <2>2 DEF CreateGuard, StateOf, Running
        <3>2. QED
            BY <3>1, <1>0
    <2>3. QED
        BY <2>1, <2>2
<1>7. ASSUME NEW p \in Proc, RemoveLock(p) PROVE Mutex!Reap(p)
    <2>1. StateOf(p) = "wait" /\ StateOf(p)' = "wait" /\ Others(p)
        BY <1>7 DEF RemoveLock, StateOf, Running
    <2>2. IsStale(lock) /\ lock.by \in Proc /\ lock'.by = None
        BY <1>7 DEF RemoveLock, RemovalIsJustified, IsStale, Exists, File, NoFile
    <2>3. ~Holds(lock.by)
        <3> SUFFICES ASSUME Holds(lock.by) PROVE FALSE
            OBVIOUS
        <3>1. lock.age <= busy[lock.by] /\ busy[lock.by] <= Hold
            BY <2>2 DEF HolderOwnsLock
        <3>2. QED
            BY <2>2, <3>1 DEF IsStale, Prompt, File
    <2>4. StateOf(lock.by) # "in"
        BY <2>3 DEF Holds, StateOf
    <2>5. AbstractState' = AbstractState
        BY <2>1, OnlyOneMoves DEF AbstractState
    <2>6. QED
        BY <2>1, <2>2, <2>4, <2>5 DEF Mutex!Reap, AbstractState
<1>8. ASSUME NEW p \in Proc, RemoveGuard(p)
      PROVE  Mutex!EnterBare(p) \/ UNCHANGED Mutex!vars
    <2>1. CASE won[p]
        <3>1. StateOf(p)' = StateOf(p) /\ Others(p) /\ lock' = lock
            BY <1>8, <2>1 DEF RemoveGuard, StateOf, Running
        <3>2. QED
            BY <3>1, <1>0
    <2>2. CASE ~won[p]
        BY <1>5, <1>8, <2>2 DEF RemoveGuard
    <2>3. QED
        BY <2>1, <2>2
<1>9. ASSUME NEW p \in Proc, Finish(p) PROVE Mutex!Leave(p) \/ UNCHANGED Mutex!vars
    <2>1. Others(p) /\ lock' = lock
        BY <1>9 DEF Finish
    <2>2. CASE locked[p]
        <3>1. StateOf(p)' = StateOf(p)
            BY <1>9, <2>2 DEF Finish, StateOf, Running
        <3>2. QED
            BY <2>1, <3>1, <1>0
    <2>3. CASE ~locked[p]
        <3>1. StateOf(p) = "bare" /\ StateOf(p)' = "out"
            BY <1>9, <2>3 DEF Finish, StateOf, Running
        <3>2. QED
            BY <2>1, <3>1, OnlyOneMoves DEF Mutex!Leave, AbstractState
    <2>4. QED
        BY <2>2, <2>3
<1>10. ASSUME NEW p \in Proc, Release(p) PROVE Mutex!Leave(p)
    <2>1. StateOf(p) = "in" /\ StateOf(p)' = "out" /\ Others(p) /\ lock'.by = None
        BY <1>10 DEF Release, StateOf, Running, LockedAsRunning, NoFile
    <2>2. QED
        BY <2>1, OnlyOneMoves DEF Mutex!Leave, AbstractState
<1>11. ASSUME NEW p \in Proc, Crash(p)
       PROVE  \E dead \in SUBSET Proc : Mutex!Die(dead)
    <2>1. StateOf(p) # "out" /\ StateOf(p)' = "out" /\ Others(p) /\ lock' = lock
        BY <1>11 DEF Crash, StateOf, Running
    <2>2. Mutex!Die({p})
        BY <2>1, OnlyOneMoves DEF Mutex!Die, AbstractState
    <2>3. QED
        BY <2>2
<1>12. ASSUME Tick PROVE UNCHANGED Mutex!vars
    <2>1. lock'.by = lock.by /\ AbstractState' = AbstractState
        BY <1>12 DEF Tick, OlderFile, Exists, File, AbstractState, StateOf
    <2>2. QED
        BY <2>1 DEF Mutex!vars
<1>13. ASSUME UNCHANGED vars PROVE UNCHANGED Mutex!vars
    BY <1>13 DEF vars, Mutex!vars, AbstractState, StateOf
<1>14. QED
    BY <1>1, <1>2, <1>3, <1>4, <1>6, <1>7, <1>8, <1>9, <1>10, <1>11, <1>12, <1>13
       DEF Next, Progress, RmGuard, Mutex!Next

\* Under Prompt the files, the clocks and the reclaim implement AccountMutex.
THEOREM LockImplementsMutex == Prompt /\ Spec => ImplementsMutex
<1>1. Init => Mutex!Init
    BY DEF Init, Mutex!Init, NoFile, AbstractState, StateOf
<1>2. Prompt /\ IInv /\ [Next]_vars => [Mutex!Next]_(Mutex!vars)
    BY StepRefines
<1>3. Prompt => Prompt'
    BY DEF Prompt
<1>4. QED
    BY <1>1, <1>2, <1>3, Inductive, PTL DEF Spec, ImplementsMutex, Mutex!Spec
=============================================================================

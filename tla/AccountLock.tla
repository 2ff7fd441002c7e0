----------------------------- MODULE AccountLock -----------------------------
(***************************************************************************)
(* The cross-process lock of one subscription account:                     *)
(* packages/adapters/src/subscriptions/accountLock.ts.                     *)
(*                                                                         *)
(* The lock is a file created with O_EXCL.  A lock older than Stale may be *)
(* reclaimed; reclaiming runs under a second O_EXCL file, the guard.  Every*)
(* file-system call is one step, so calls of different processes           *)
(* interleave as they do between the awaits of the code.  Time is the age  *)
(* of the two files and of what each process is doing; Tick advances all   *)
(* of them by one unit.                                                    *)
(***************************************************************************)
EXTENDS Naturals

CONSTANTS
    Proc,         \* processes: the proxy, `accounts use`, the web UI, ...
    None,         \* no file at that path
    Stale,        \* staleMs: a file older than this may be removed
    MaxWait,      \* maxWaitMs: then the caller runs unlocked
    Poll,         \* pollMs: sleep between attempts
    Hold,         \* longest time a caller spends in its critical section
    Grace,        \* longest time a reclaimer spends under the guard
    CrashPoints,  \* control points at which a process may be killed
    MaxCrashes,   \* bound of the model: how many times that happens
    FsErrors      \* whether open("wx") may fail with something but EEXIST

Waiting  == {"create", "orphan", "clear", "guard", "sleep"}
Guarding == {"stat", "remove", "unguard"}
Running  == {"run", "release"}
PC == {"idle"} \cup Waiting \cup Guarding \cup Running

ASSUME LockAssumption ==
    /\ None \notin Proc
    /\ {Stale, MaxWait, Poll, Hold, Grace, MaxCrashes} \subseteq Nat
    /\ CrashPoints \subseteq PC \ {"idle"}
    /\ FsErrors \in BOOLEAN

VARIABLES
    lock,     \* <id>.lock : who created it (its content) and its age (mtime)
    guard,    \* <id>.lock.reclaim
    pc,       \* control point of each process in withAccountLock
    locked,   \* the local `locked`
    won,      \* reclaimIfStale is going to answer true
    waited,   \* time since the call started, measured against the deadline
    busy,     \* time spent sleeping, under the guard, or in the section
    crashes   \* how many times a process was killed

vars == <<lock, guard, pc, locked, won, waited, busy, crashes>>
-----------------------------------------------------------------------------
NoFile     == [by |-> None, age |-> 0]
NewFile(p) == [by |-> p, age |-> 0]
Exists(file)  == file.by # None
\* Mutated form of IsStale: the threshold itself already counts as stale.
IsStaleEarly(file) == Exists(file) /\ file.age >= Stale
IsStale(file) == Exists(file) /\ file.age > Stale

File == [by : Proc \cup {None}, age : Nat]

TypeOK ==
    /\ lock \in File
    /\ guard \in File
    /\ pc \in [Proc -> PC]
    /\ locked \in [Proc -> BOOLEAN]
    /\ won \in [Proc -> BOOLEAN]
    /\ waited \in [Proc -> Nat]
    /\ busy \in [Proc -> Nat]
    /\ crashes \in 0..MaxCrashes

Init ==
    /\ lock = NoFile
    /\ guard = NoFile
    /\ pc = [p \in Proc |-> "idle"]
    /\ locked = [p \in Proc |-> FALSE]
    /\ won = [p \in Proc |-> FALSE]
    /\ waited = [p \in Proc |-> 0]
    /\ busy = [p \in Proc |-> 0]
    /\ crashes = 0

Goto(p, label) ==
    /\ pc' = [pc EXCEPT ![p] = label]
    /\ busy' = [busy EXCEPT ![p] = 0]

\* Mutated form of Call: the deadline is one more MaxWait away.
CallTooPatient(p) ==
    /\ pc[p] = "idle"
    /\ Goto(p, "create")
    /\ waited' = [waited EXCEPT ![p] = 0 - MaxWait]
    /\ UNCHANGED <<lock, guard, locked, won, crashes>>

\* withAccountLock is called.
Call(p) ==
    /\ pc[p] = "idle"
    /\ Goto(p, "create")
    /\ waited' = [waited EXCEPT ![p] = 0]
    /\ UNCHANGED <<lock, guard, locked, won, crashes>>

\* Mutated form of Create: open("w") in place of open("wx").
CreateOverwrites(p) ==
    /\ pc[p] = "create"
    /\ lock' = NewFile(p)
    /\ locked' = [locked EXCEPT ![p] = TRUE]
    /\ Goto(p, "run")
    /\ UNCHANGED <<guard, won, waited, crashes>>

\* locked = await tryCreate(path)
Create(p) ==
    /\ pc[p] = "create"
    /\ IF Exists(lock)
       THEN /\ Goto(p, "orphan")
            /\ UNCHANGED <<lock, locked>>
       ELSE /\ lock' = NewFile(p)
            /\ locked' = [locked EXCEPT ![p] = TRUE]
            /\ Goto(p, "run")
    /\ UNCHANGED <<guard, won, waited, crashes>>

\* open("wx") fails with an error other than EEXIST or ENOENT: tryCreate
\* throws, and the error leaves withAccountLock.
CreateFails(p) ==
    /\ FsErrors
    /\ pc[p] \in {"create", "guard"}
    /\ Goto(p, "idle")
    /\ UNCHANGED <<lock, guard, locked, won, waited, crashes>>

\* reclaimIfStale: is there an orphaned guard?
StatGuard(p) ==
    /\ pc[p] = "orphan"
    /\ Goto(p, IF IsStale(guard) THEN "clear" ELSE "guard")
    /\ UNCHANGED <<lock, guard, locked, won, waited, crashes>>

\* rm(guard) of an orphan: by path, whatever is there now.
ClearGuard(p) ==
    /\ pc[p] = "clear"
    /\ guard' = NoFile
    /\ Goto(p, "guard")
    /\ UNCHANGED <<lock, locked, won, waited, crashes>>

\* Mutated forms of GiveUpOrSleep: the deadline is one poll early; there is none.
GiveUpEarly(p) == Goto(p, IF waited[p] + Poll >= MaxWait THEN "run" ELSE "sleep")
NeverGiveUp(p) == Goto(p, "sleep")

\* The rest of the loop when reclaimIfStale answered false.
GiveUpOrSleep(p) == Goto(p, IF waited[p] >= MaxWait THEN "run" ELSE "sleep")

\* tryCreate(guard); somebody else's guard means "another waiter is on it".
CreateGuard(p) ==
    /\ pc[p] = "guard"
    /\ IF Exists(guard)
       THEN /\ GiveUpOrSleep(p)
            /\ UNCHANGED guard
       ELSE /\ guard' = NewFile(p)
            /\ Goto(p, "stat")
    /\ UNCHANGED <<lock, locked, won, waited, crashes>>

\* Mutated form of StatLock: the removal trusts the look taken outside the guard.
StatLockBlind(p) ==
    /\ pc[p] = "stat"
    /\ pc' = [pc EXCEPT ![p] = "remove"]
    /\ UNCHANGED <<lock, guard, locked, won, waited, busy, crashes>>

\* Under the guard: stat(path) again.
StatLock(p) ==
    /\ pc[p] = "stat"
    /\ pc' = [pc EXCEPT ![p] = IF IsStale(lock) THEN "remove" ELSE "unguard"]
    /\ UNCHANGED <<lock, guard, locked, won, waited, busy, crashes>>

\* rm(path): by path, whatever is there now.
RemoveLock(p) ==
    /\ pc[p] = "remove"
    /\ lock' = NoFile
    /\ won' = [won EXCEPT ![p] = TRUE]
    /\ pc' = [pc EXCEPT ![p] = "unguard"]
    /\ UNCHANGED <<guard, locked, waited, busy, crashes>>

\* finally rm(guard), by path; the winner of a reclaim retries at once.
RemoveGuard(p) ==
    /\ pc[p] = "unguard"
    /\ guard' = NoFile
    /\ IF won[p] THEN Goto(p, "create") ELSE GiveUpOrSleep(p)
    /\ won' = [won EXCEPT ![p] = FALSE]
    /\ UNCHANGED <<lock, locked, waited, crashes>>

\* Both calls of rm(guard).
RmGuard(p) == IF pc[p] = "clear" THEN ClearGuard(p) ELSE RemoveGuard(p)

Wake(p) ==
    /\ pc[p] = "sleep"
    /\ busy[p] >= Poll
    /\ Goto(p, "create")
    /\ UNCHANGED <<lock, guard, locked, won, waited, crashes>>

\* Mutated form of Finish: the release is not conditional on `locked`.
FinishAndRelease(p) ==
    /\ pc[p] = "run"
    /\ pc' = [pc EXCEPT ![p] = "release"]
    /\ UNCHANGED <<lock, guard, locked, won, waited, busy, crashes>>

\* `fn` settles, with a value or with an error.
Finish(p) ==
    /\ pc[p] = "run"
    /\ pc' = [pc EXCEPT ![p] = IF locked[p] THEN "release" ELSE "idle"]
    /\ UNCHANGED <<lock, guard, locked, won, waited, busy, crashes>>

\* finally: rm(path, force), by path.
Release(p) ==
    /\ pc[p] = "release"
    /\ lock' = NoFile
    /\ locked' = [locked EXCEPT ![p] = FALSE]
    /\ Goto(p, "idle")
    /\ UNCHANGED <<guard, won, waited, crashes>>

\* The process is killed: its files stay, its locals are gone.
Crash(p) ==
    /\ pc[p] \in CrashPoints
    /\ crashes < MaxCrashes
    /\ crashes' = crashes + 1
    /\ Goto(p, "idle")
    /\ locked' = [locked EXCEPT ![p] = FALSE]
    /\ won' = [won EXCEPT ![p] = FALSE]
    /\ UNCHANGED <<lock, guard, waited>>

\* Ages only matter up to the threshold they are compared with.
Older(n, cap) == IF n > cap THEN n ELSE n + 1
OlderFile(file) == IF Exists(file) THEN [file EXCEPT !.age = Older(@, Stale)] ELSE file

\* Nobody overstays: Hold and Grace bound what callers do in their sections.
InTime(p) ==
    /\ pc[p] \in Running => busy[p] < Hold
    /\ pc[p] \in Guarding => busy[p] < Grace

BusyCap(p) == IF pc[p] \in Running THEN Hold ELSE IF pc[p] \in Guarding THEN Grace ELSE Poll

Tick ==
    /\ \A p \in Proc : InTime(p)
    /\ lock' = OlderFile(lock)
    /\ guard' = OlderFile(guard)
    /\ waited' = [p \in Proc |-> IF pc[p] = "idle" THEN 0 ELSE Older(waited[p], MaxWait)]
    /\ busy' = [p \in Proc |-> IF pc[p] = "idle" THEN 0 ELSE Older(busy[p], BusyCap(p))]
    /\ UNCHANGED <<pc, locked, won, crashes>>

Progress(p) ==
    \/ Create(p) \/ StatGuard(p) \/ RmGuard(p) \/ CreateGuard(p)
    \/ StatLock(p) \/ RemoveLock(p) \/ Wake(p)
    \/ Finish(p) \/ Release(p)

Next ==
    \/ \E p \in Proc : Call(p) \/ Progress(p) \/ CreateFails(p) \/ Crash(p)
    \/ Tick

Spec == Init /\ [][Next]_vars

\* Node's event loop runs every callback that is due, and time goes on.
FairSpec == Spec /\ WF_vars(Tick) /\ \A p \in Proc : WF_vars(Progress(p))
-----------------------------------------------------------------------------
(* Properties *)

\* The timing under which the lock is a mutex: no critical section and no
\* reclaim outlives the staleness window, no reclaimer dies under the guard.
Prompt ==
    /\ Hold <= Stale
    /\ Grace <= Stale
    /\ CrashPoints \cap Guarding = {}

Holds(p) == pc[p] \in Running /\ locked[p]

\* Two processes never believe that they hold the account at the same time:
\* the promise the O_EXCL file and the guarded reclaim make together.
MutualExclusion == \A p, q \in Proc : Holds(p) /\ Holds(q) => p = q

\* A reclaimer that has judged the lock stale removes that dead lock, never
\* the fresh lock of somebody who is inside (the race the guard exists for).
RemovesOnlyDeadLocks ==
    [][\A p, q \in Proc : pc[p] = "remove" /\ pc'[p] = "unguard" => ~Holds(q)]_vars

\* Releasing removes the process's own lock file or nothing at all.
ReleasesOnlyOwnLock ==
    [][\A p \in Proc : pc[p] = "release" /\ pc'[p] = "idle" /\ lock' # lock
                        => lock.by = p]_vars

\* A caller goes in without the lock only after waiting MaxWait.
UnlockedOnlyAfterDeadline ==
    [][\A p \in Proc : pc[p] # "run" /\ pc'[p] = "run" /\ ~locked'[p]
                        => waited[p] >= MaxWait]_vars

\* Nobody waits forever, whoever is killed holding either file: a waiting
\* process goes in (or is killed itself).
WaitEnds == \A p \in Proc : pc[p] = "create" ~> pc[p] \in {"run", "idle"}

\* The strengthening of MutualExclusion that every step preserves.
HolderOwnsLock ==
    \A p \in Proc : Holds(p) =>
        lock.by = p /\ lock.age <= busy[p] /\ busy[p] <= Hold
ReclaimerOwnsGuard ==
    \A p \in Proc : pc[p] \in Guarding =>
        guard.by = p /\ guard.age <= busy[p] /\ busy[p] <= Grace
GuardHasReclaimer == Exists(guard) => pc[guard.by] \in Guarding
LockedAsRunning ==
    \A p \in Proc : /\ locked[p] => pc[p] \in Running
                    /\ pc[p] = "release" => locked[p]
NoOrphanSeen == \A p \in Proc : pc[p] # "clear"
RemovalIsJustified == \A p \in Proc : pc[p] = "remove" => IsStale(lock)

IInv ==
    /\ TypeOK
    /\ HolderOwnsLock
    /\ ReclaimerOwnsGuard
    /\ GuardHasReclaimer
    /\ LockedAsRunning
    /\ NoOrphanSeen
    /\ RemovalIsJustified

\* The lock keeps AccountMutex's promise.
StateOf(p) ==
    IF pc[p] = "idle" THEN "out"
    ELSE IF pc[p] \in Running THEN IF locked[p] THEN "in" ELSE "bare"
    ELSE "wait"

AbstractState == [p \in Proc |-> StateOf(p)]

Mutex == INSTANCE AccountMutex WITH owner <- lock.by, st <- AbstractState
ImplementsMutex == Mutex!Spec
=============================================================================

--------------------------- MODULE MCAccountLock ---------------------------
(* Small instances of AccountLock for TLC. *)
EXTENDS AccountLock, TLC, FiniteSets

\* Processes are interchangeable.
ProcSymmetry == Permutations(Proc)

\* A process may be killed while it waits or holds the lock ...
OutsideGuard == {"create", "sleep", "run", "release"}
\* ... or anywhere at all.
Anywhere == Waiting \cup Guarding \cup Running
=============================================================================

----------------------------- MODULE AtomicFile -----------------------------
(* packages/adapters/src/store/atomicJson.ts: how every store replaces its file.  One target,
   several writers, each of which runs writeFileAtomic: copy the old content to .bak, write a
   temporary file beside the target, sync it, rename it over the target.  A writer may be killed
   and the machine may lose power between any two system calls.  What is written but not synced
   may be cut short by a loss of power; a rename may or may not have reached the disk.         *)
EXTENDS Naturals

CONSTANTS
    Writer,      \* the writers; each writes a content of its own
    KeepBackup,  \* the option of writeFileAtomic
    MaxCrashes   \* bound on deaths of a writer and losses of power

VARIABLES
    target,   \* what a reader of the path finds: "old", the content of a writer, or "torn"
    onDisk,   \* the contents a loss of power may leave at the path
    bak,      \* the same for <path>.bak
    temp,     \* the temporary file of each writer: "none", "torn" (not synced), "synced"
    pc, crashes

vars == <<target, onDisk, bak, temp, pc, crashes>>

Contents == {"old"} \cup Writer
PC == {"idle", "copy", "open", "write", "sync", "rename"}

TypeOK ==
    /\ target \in Contents \cup {"torn"} /\ bak \in Contents \cup {"torn", "none"}
    /\ onDisk \in SUBSET (Contents \cup {"torn"}) /\ target \in onDisk
    /\ temp \in [Writer -> {"none", "torn", "synced"}]
    /\ pc \in [Writer -> PC] /\ crashes \in 0..MaxCrashes

Init ==
    /\ target = "old" /\ onDisk = {"old"} /\ bak = "none"
    /\ temp = [w \in Writer |-> "none"] /\ pc = [w \in Writer |-> "idle"] /\ crashes = 0

Goto(w, step) == pc' = [pc EXCEPT ![w] = step]

\* A call of writeFileAtomic; the copy opens (and truncates) the backup.
Start(w) ==
    /\ pc[w] = "idle" /\ temp[w] = "none"
    /\ IF KeepBackup
       THEN Goto(w, "copy") /\ bak' = "torn"
       ELSE Goto(w, "open") /\ UNCHANGED bak
    /\ UNCHANGED <<target, onDisk, temp, crashes>>

Copied(w) ==
    /\ pc[w] = "copy" /\ Goto(w, "open") /\ bak' = target
    /\ UNCHANGED <<target, onDisk, temp, crashes>>

\* open(tmp, "wx"): the name is new, the file is empty.
OpenTemp(w) ==
    /\ pc[w] = "open" /\ Goto(w, "write") /\ temp' = [temp EXCEPT ![w] = "torn"]
    /\ UNCHANGED <<target, onDisk, bak, crashes>>

\* The content is in the page cache, or the write fails and the temporary file stays behind.
WriteTemp(w) ==
    /\ pc[w] = "write" /\ pc' \in {[pc EXCEPT ![w] = s] : s \in {"sync", "idle"}}
    /\ UNCHANGED <<target, onDisk, bak, temp, crashes>>

\* A bug: the file is renamed without being synced.
SyncTempNot(w) == pc[w] = "sync" /\ Goto(w, "rename") /\ UNCHANGED <<target, onDisk, bak, temp, crashes>>

SyncTemp(w) ==
    /\ pc[w] = "sync" /\ Goto(w, "rename") /\ temp' = [temp EXCEPT ![w] = "synced"]
    /\ UNCHANGED <<target, onDisk, bak, crashes>>

Rename(w) ==
    /\ pc[w] = "rename" /\ Goto(w, "idle")
    /\ target' = w /\ temp' = [temp EXCEPT ![w] = "none"]
    /\ onDisk' = onDisk \cup {w, IF temp[w] = "synced" THEN w ELSE "torn"}
    /\ UNCHANGED <<bak, crashes>>

\* The rename is refused: the temporary file is removed, or that fails as well.
RenameFails(w) ==
    /\ pc[w] = "rename" /\ Goto(w, "idle")
    /\ temp' \in {temp, [temp EXCEPT ![w] = "none"]}
    /\ UNCHANGED <<target, onDisk, bak, crashes>>

\* The file system catches up (external).
Flush ==
    /\ onDisk # {target} /\ onDisk' = {target}
    /\ UNCHANGED <<target, bak, temp, pc, crashes>>

Kill(w) ==
    /\ pc[w] # "idle" /\ crashes < MaxCrashes /\ crashes' = crashes + 1
    /\ Goto(w, "idle") /\ UNCHANGED <<target, onDisk, bak, temp>>

\* External: every process is gone, the path holds something that had reached the disk.
PowerLoss ==
    /\ crashes < MaxCrashes /\ crashes' = crashes + 1
    /\ target' \in onDisk /\ onDisk' = {target'}
    /\ pc' = [w \in Writer |-> "idle"] /\ UNCHANGED <<bak, temp>>

\* The next call picks another temporary name, the left one stays.
Forget(w) ==
    /\ pc[w] = "idle" /\ temp[w] # "none" /\ temp' = [temp EXCEPT ![w] = "none"]
    /\ UNCHANGED <<target, onDisk, bak, pc, crashes>>

Next ==
    \/ \E w \in Writer :
           Start(w) \/ Copied(w) \/ OpenTemp(w) \/ WriteTemp(w) \/ SyncTemp(w) \/ Rename(w)
              \/ RenameFails(w) \/ Kill(w) \/ Forget(w)
    \/ Flush \/ PowerLoss

Spec == Init /\ [][Next]_vars
-----------------------------------------------------------------------------
(* Whatever is killed and whenever the power fails, the store still parses: the path holds the
   old content or all of a new one (atomicJson.ts:3-9).                                        *)
StoreParses == target # "torn" /\ "torn" \notin onDisk
=============================================================================

---------------------------- MODULE ModelCatalog -----------------------------
(* One list of a provider's models or endpoints: CachingModelCatalog over FileModelCatalogCache
   (packages/adapters/src/providers/modelCatalogCache.ts).  A render reads the file, then joins the
   request under way or starts one.  A list is told apart by the time it was fetched; the process
   that renders may be the web UI or a `swisscode` command.                                      *)
EXTENDS Integers

CONSTANTS
    Render, ProcOf,  \* the renders, the process of each
    Process,
    None,            \* no entry, no request under way
    Ttl,             \* DEFAULT_MODEL_CACHE_TTL_MS
    MaxTime          \* bound on the clock

VARIABLES
    now, file,   \* the clock; when the list in the file was fetched
    inflight,    \* of each process: the render that runs the request, or None
    list         \* of each render: its step, what it read, its answer

vars == <<now, file, inflight, list>>

Time == 0..MaxTime
Steps == {"idle", "join", "fetch", "write", "wait"}
Answered == {"fresh", "stale", "failed"}

TypeOK ==
    /\ now \in Time /\ file \in Time \cup {None} /\ inflight \in [Process -> Render \cup {None}]
    /\ \A r \in Render : /\ list[r].pc \in Steps \cup Answered
                         /\ {list[r].read, list[r].data} \subseteq Time \cup {None}
                         /\ list[r].begun \in Time /\ list[r].on \in Render \cup {None}

Idle == [pc |-> "idle", read |-> None, data |-> None, begun |-> 0, on |-> None]
Init == now = 0 /\ file = None /\ inflight = [p \in Process |-> None] /\ list = [r \in Render |-> Idle]

At(r, step) == list[r].pc = step
Own(r) == inflight[ProcOf[r]]
-----------------------------------------------------------------------------
\* cached: within the TTL the file answers.  The step ends at the await of the read.
Read(r) ==
    /\ list[r].pc \in {"idle"} \cup Answered
    /\ list' = [list EXCEPT ![r] =
                   IF file # None /\ now - file < Ttl
                   THEN [Idle EXCEPT !.pc = "fresh", !.data = file, !.begun = now]
                   ELSE [Idle EXCEPT !.pc = "join", !.read = file, !.begun = now]]
    /\ UNCHANGED <<now, file, inflight>>

\* inflight.get: the answer of the one who runs it, or a request of its own.
Join(r) ==
    /\ At(r, "join") /\ UNCHANGED <<now, file>>
    /\ IF Own(r) # None
       THEN list' = [list EXCEPT ![r].pc = "wait", ![r].on = Own(r)] /\ UNCHANGED inflight
       ELSE /\ list' = [list EXCEPT ![r].pc = "fetch"]
            /\ inflight' = [inflight EXCEPT ![ProcOf[r]] = r]

\* The runner and everybody who waits for it get one answer.
Settle(r, how, data) ==
    /\ list' = [q \in Render |->
                   IF q = r \/ (At(q, "wait") /\ list[q].on = r)
                   THEN [list[q] EXCEPT !.pc = how, !.data = data] ELSE list[q]]
    /\ inflight' = [inflight EXCEPT ![ProcOf[r]] = None]

\* A failure of the request or of the save: the list read before, labelled stale.
FallBack(r) ==
    /\ list[r].pc \in {"fetch", "write"} /\ UNCHANGED <<now, file>>
    /\ IF list[r].read # None THEN Settle(r, "stale", list[r].read) ELSE Settle(r, "failed", None)

Fetch(r) ==
    /\ At(r, "fetch") /\ list' = [list EXCEPT ![r].pc = "write", ![r].data = now]
    /\ UNCHANGED <<now, file, inflight>>

Write(r) ==
    /\ At(r, "write") /\ file' = list[r].data /\ Settle(r, "fresh", list[r].data)
    /\ UNCHANGED now

Tick == now < MaxTime /\ now' = now + 1 /\ UNCHANGED <<file, inflight, list>>

Next ==
    \/ \E r \in Render : Read(r) \/ Join(r) \/ FallBack(r) \/ Fetch(r) \/ Write(r)
    \/ Tick

Spec == Init /\ [][Next]_vars
-----------------------------------------------------------------------------
(* Properties *)

(* "concurrent renders share one upstream request" (modelCatalogCache.ts:126), a list that is not
   labelled stale was no older than the TTL when it was asked for, unless the answer is that of a
   request another render had begun, and nobody waits for a request that is over.               *)
CatalogSharesAndLabels ==
    /\ \A q, r \in Render :
          q # r /\ ProcOf[q] = ProcOf[r] => ~({list[q].pc, list[r].pc} \subseteq {"fetch", "write"})
    /\ \A r \in Render : At(r, "fresh") /\ list[r].on = None => list[r].data + Ttl > list[r].begun
    /\ \A r \in Render : At(r, "wait") => Own(r) = list[r].on
=============================================================================

----------------------------- MODULE TrafficLog ------------------------------
(* What becomes of a finished request: the ring of entries in the proxy that served it
   (SubscriptionProxy, packages/adapters/src/proxy/server.ts) and the SQLite store all proxies and
   reports of a home share (packages/adapters/src/proxy/trafficStore.ts).

   A statement of SQLite is a step, so is a transaction.  A request is its place in the order of
   the timestamps; it made Hops(e) upstream attempts.                                           *)
EXTENDS Naturals, Sequences, FiniteSets

CONSTANTS
    Proxy,       \* the processes that serve and record
    MaxRequest,  \* bound on the requests
    HopsOf,      \* HopsOf[e]: the upstream attempts of request e
    MaxRows, MaxAge,  \* retention of the store: newest rows, days (0: unbounded)
    PruneEvery,  \* appends between two prunes
    Sizes,       \* ring sizes that are asked for
    MaxStops     \* bound on the restarts of proxies

Request == 1..MaxRequest

ASSUME LogAssumption ==
    /\ {MaxRequest, MaxRows, MaxAge, MaxStops} \subseteq Nat /\ PruneEvery \in Nat \ {0}
    /\ Sizes \subseteq Nat

VARIABLES
    clock,       \* the requests up to this one have begun
    traced,      \* those that have ended
    ring, size,  \* of each proxy: its entries, oldest first; how many it keeps
    rows, hops,  \* the tables exchanges and attempts
    tokens,      \* the exchanges stored with the usage of their response
    pc, appends, \* of each proxy: its step in prune, its appends since it opened the store
    cutoff,      \* the time a prune by age goes by
    query, seen, \* of the report: its step, what it has read
    stops

vars == <<clock, traced, ring, size, rows, hops, tokens, pc, appends, cutoff, query, seen, stops>>

Attempts(e) == {<<e, n>> : n \in 1..HopsOf[e]}
Newer(e, S) == {f \in S : f > e}
PC == {"open", "hopsByAge", "rowsByAge", "hopsByCount", "rowsByCount", "closed"}

TypeOK ==
    /\ clock \in 0..MaxRequest /\ {traced, rows, tokens} \subseteq SUBSET Request
    /\ \A p \in Proxy : /\ ring[p] \in Seq(Request) /\ Len(ring[p]) <= size[p]
                        /\ size[p] \in Sizes /\ pc[p] \in PC
                        /\ appends[p] \in 0..(PruneEvery - 1) /\ cutoff[p] \in 0..MaxRequest
    /\ hops \in SUBSET UNION {Attempts(e) : e \in Request}
    /\ query \in {"rows", "hops", "done"} /\ stops \in 0..MaxStops
    /\ seen.rows \subseteq Request /\ seen.hops \subseteq seen.rows

Init ==
    /\ clock = 0 /\ traced = {} /\ rows = {} /\ hops = {} /\ tokens = {} /\ stops = 0
    /\ ring = [p \in Proxy |-> <<>>] /\ size \in [Proxy -> Sizes]
    /\ pc = [p \in Proxy |-> "open"] /\ appends = [p \in Proxy |-> 0]
    /\ cutoff = [p \in Proxy |-> 0]
    /\ query = "rows" /\ seen = [rows |-> {}, hops |-> {}]

\* Where prune goes next: a bound of 0 is no bound.
AfterAge == IF MaxRows > 0 THEN "hopsByCount" ELSE "open"
Goto(p, step) == pc' = [pc EXCEPT ![p] = step]
Ring == <<ring, size>>
Store == <<rows, hops, tokens>>
Writer == <<pc, appends, cutoff>>
Reader == <<query, seen>>
-----------------------------------------------------------------------------
(* The ring *)

Trim(s, n) == IF Len(s) > n THEN SubSeq(s, Len(s) - n + 1, Len(s)) ELSE s
\* A bug: the ring is cut before the entry joins it.
PushFirst(s, e, n) == IF n > 0 THEN Append(Trim(s, n), e) ELSE s

\* trace(): the entry joins the ring, which keeps the newest.
Push(s, e, n) == IF n > 0 THEN Trim(Append(s, e), n) ELSE s

\* DELETE /__swisscode/traffic
ClearTraffic(p) ==
    /\ pc[p] = "open" /\ ring[p] # <<>> /\ ring' = [ring EXCEPT ![p] = <<>>]
    /\ UNCHANGED <<clock, traced, size, Store, Writer, Reader, stops>>

\* POST /__swisscode/traffic/size/<n>
Resize(p, n) ==
    /\ pc[p] = "open" /\ n # size[p] /\ size' = [size EXCEPT ![p] = n]
    /\ ring' = [ring EXCEPT ![p] = Trim(@, n)]
    /\ UNCHANGED <<clock, traced, Store, Writer, Reader, stops>>
-----------------------------------------------------------------------------
(* Recording *)

Begin ==
    /\ clock < MaxRequest /\ clock' = clock + 1
    /\ UNCHANGED <<traced, Ring, Store, Writer, Reader, stops>>

\* toStoredExchange reads the usage out of the response body, when it is there.
Usage(e, bodies) == IF bodies THEN {e} ELSE {}

\* One transaction: the exchange and its hops.  The entry it is made of has no
\* bodies any more.
StoreExchange(e) ==
    /\ rows' = rows \cup {e} /\ hops' = hops \cup Attempts(e) /\ tokens' = tokens \cup Usage(e, FALSE)

\* trace: the ring takes the entry, then the store, if it is open and not busy.
Trace(p, e) ==
    /\ e \in 1..clock \ traced /\ pc[p] \in {"open", "closed"} /\ traced' = traced \cup {e}
    /\ ring' = [ring EXCEPT ![p] = Push(@, e, size[p])]
    /\ \/ /\ pc[p] = "open" /\ StoreExchange(e)
          /\ appends' = [appends EXCEPT ![p] = (@ + 1) % PruneEvery]
          /\ IF appends'[p] # 0 THEN UNCHANGED <<pc, cutoff>>
             ELSE /\ Goto(p, IF MaxAge > 0 THEN "hopsByAge" ELSE AfterAge)
                  /\ cutoff' = [cutoff EXCEPT ![p] = IF clock > MaxAge THEN clock - MaxAge ELSE 0]
       \/ UNCHANGED <<Store, Writer>>
    /\ UNCHANGED <<clock, size, Reader, stops>>

(* prune: four statements, each committed on its own *)
\* A bug: nothing but the statements of prune keeps the tables together.
DeleteRowsOnly(S) == rows' = rows \ S /\ UNCHANGED hops

\* ON DELETE CASCADE, with foreign_keys = ON.
DeleteRows(S) == rows' = rows \ S /\ hops' = {h \in hops : h[1] \notin S}
DeleteHops(S) == hops' = {h \in hops : h[1] \notin S} /\ UNCHANGED rows

Old(p) == {e \in rows : e < cutoff[p]}
Excess == {e \in rows : Cardinality(Newer(e, rows)) >= MaxRows}

Prune(p, from, to, Deleted) ==
    /\ pc[p] = from /\ Deleted /\ Goto(p, to)
    /\ tokens' = tokens \cap rows' /\ UNCHANGED <<clock, traced, Ring, appends, cutoff, Reader, stops>>

PruneStep(p) ==
    \/ Prune(p, "hopsByAge", "rowsByAge", DeleteHops(Old(p)))
    \/ Prune(p, "rowsByAge", AfterAge, DeleteRows(Old(p)))
    \/ Prune(p, "hopsByCount", "rowsByCount", DeleteHops(Excess))
    \/ Prune(p, "rowsByCount", "open", DeleteRows(Excess))

\* shutdown: the store is closed at once, requests in flight end later.
Close(p) ==
    /\ pc[p] = "open" /\ Goto(p, "closed")
    /\ UNCHANGED <<clock, traced, Ring, Store, appends, cutoff, Reader, stops>>

\* The process ends, or is killed in the middle of a prune; another one starts.
Restart(p) ==
    /\ stops < MaxStops /\ stops' = stops + 1 /\ Goto(p, "open")
    /\ appends' = [appends EXCEPT ![p] = 0] /\ ring' = [ring EXCEPT ![p] = <<>>]
    /\ UNCHANGED <<clock, traced, size, Store, cutoff, Reader>>
-----------------------------------------------------------------------------
(* `proxy report` and the report page: query reads the exchanges and then their hops *)

QueryRows ==
    /\ query = "rows" /\ query' = "hops" /\ seen' = [seen EXCEPT !.rows = rows]
    /\ UNCHANGED <<clock, traced, Ring, Store, Writer, stops>>
QueryHops ==
    /\ query = "hops" /\ query' = "done"
    /\ seen' = [seen EXCEPT !.hops = {e \in seen.rows : Attempts(e) \subseteq hops}]
    /\ UNCHANGED <<clock, traced, Ring, Store, Writer, stops>>

Next ==
    \/ Begin
    \/ \E p \in Proxy : \/ \E e \in Request : Trace(p, e)
                        \/ ClearTraffic(p) \/ \E n \in Sizes : Resize(p, n)
                        \/ PruneStep(p) \/ Close(p) \/ Restart(p)
    \/ QueryRows \/ QueryHops

Spec == Init /\ [][Next]_vars
-----------------------------------------------------------------------------
(* Properties *)

\* Retention has given an exchange up: it is gone, or due to go.
GivenUp(e) ==
    \/ e \notin rows
    \/ MaxRows > 0 /\ e \in Excess
    \/ MaxAge > 0 /\ e + MaxAge < clock

(* "An exchange without its hops (or vice versa) would lie" (trafficStore.ts:185, 230-234): whatever
   two proxies append and prune at once and wherever one is killed, no hop outlives its exchange,
   and neither the tables nor a report lack the hops of an exchange that is to be kept.           *)
HopsFollowExchange ==
    /\ \A h \in hops : h[1] \in rows
    /\ \A e \in rows : Attempts(e) \subseteq hops \/ GivenUp(e)
    /\ query = "done" => \A e \in seen.rows \ seen.hops : GivenUp(e)

(* What is said of the stored tokens: "Usage comes from the provider parser's response reading"
   (trafficStore.ts:83-85).                                                                       *)
StoredUsageIsTheResponses == tokens = rows
=============================================================================

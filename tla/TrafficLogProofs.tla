-------------------------- MODULE TrafficLogProofs --------------------------
(* The traffic log (packages/adapters/src/proxy/trafficStore.ts and the ring of proxy/server.ts), for
   any number of proxies, requests, hops and restarts and for any bounds of retention.            *)
EXTENDS TrafficLog, OrderLemmas, SequenceTheorems

Typed ==
    /\ clock \in 0..MaxRequest /\ {traced, rows, tokens} \subseteq SUBSET Request
    /\ ring \in [Proxy -> Seq(Request)] /\ size \in [Proxy -> Sizes]
    /\ \A p \in Proxy : Len(ring[p]) <= size[p]
    /\ pc \in [Proxy -> PC] /\ appends \in [Proxy -> 0..(PruneEvery - 1)]
    /\ cutoff \in [Proxy -> 0..MaxRequest]
    /\ hops \in SUBSET UNION {Attempts(e) : e \in Request}
    /\ query \in {"rows", "hops", "done"} /\ stops \in 0..MaxStops
    /\ seen \in [rows : SUBSET Request, hops : SUBSET Request] /\ seen.hops \subseteq seen.rows

\* What is stored or was read has ended: it is not stored again once it is gone.
Ended ==
    /\ rows \subseteq traced /\ seen.rows \subseteq traced
    /\ query = "rows" => seen.hops = {}

\* A prune by age is under way only where there is a bound, and leaves alone what is younger.
Pruning ==
    \A p \in Proxy :
        /\ pc[p] \in {"hopsByAge", "rowsByAge"} =>
              MaxAge > 0 /\ \A e \in Request : e < cutoff[p] => e + MaxAge < clock
        /\ pc[p] \in {"hopsByCount", "rowsByCount"} => MaxRows > 0

IInv == Typed /\ Ended /\ Pruning /\ HopsFollowExchange
-----------------------------------------------------------------------------
(* The ring *)

LEMMA TrimKeeps ==
    ASSUME NEW s \in Seq(Request), NEW n \in Nat
    PROVE  Trim(s, n) \in Seq(Request) /\ Len(Trim(s, n)) <= n
<1>1. CASE Len(s) > n
    <2>1. Len(s) \in Nat /\ \A x \in (Len(s) - n + 1)..Len(s) : s[x] \in Request
        BY <1>1
    <2>2. /\ SubSeq(s, Len(s) - n + 1, Len(s)) \in Seq(Request)
          /\ Len(SubSeq(s, Len(s) - n + 1, Len(s))) =
                IF Len(s) - n + 1 <= Len(s) THEN Len(s) - (Len(s) - n + 1) + 1 ELSE 0
        BY <2>1, SubSeqProperties
    <2>3. QED
        BY <1>1, <2>1, <2>2 DEF Trim
<1>2. CASE ~(Len(s) > n)
    BY <1>2 DEF Trim
<1>3. QED
    BY <1>1, <1>2

LEMMA PushKeeps ==
    ASSUME NEW s \in Seq(Request), NEW e \in Request, NEW n \in Nat, Len(s) <= n
    PROVE  Push(s, e, n) \in Seq(Request) /\ Len(Push(s, e, n)) <= n
<1>1. Append(s, e) \in Seq(Request)
    OBVIOUS
<1>2. QED
    BY <1>1, TrimKeeps DEF Push
-----------------------------------------------------------------------------
(* Retention *)

LEMMA RequestsAreFinite == IsFiniteSet(Request) /\ Request \subseteq Nat
<1>1. MaxRequest \in Nat
    BY LogAssumption
<1>2. QED
    BY <1>1, FS_Interval DEF Request

LEMMA Numbers ==
    ASSUME Typed
    PROVE  /\ rows \in SUBSET Request /\ rows \subseteq Nat
           /\ \A p \in Proxy : cutoff[p] \in Nat /\ size[p] \in Nat
           /\ <<>> \in Seq(Request) /\ Len(<<>>) = 0
<1>1. rows \in SUBSET Request
    BY DEF Typed
<1>2. rows \subseteq Nat
    BY <1>1, RequestsAreFinite
<1>3. MaxRequest \in Nat /\ Sizes \subseteq Nat
    BY LogAssumption
<1>4. ASSUME NEW p \in Proxy PROVE cutoff[p] \in Nat
    BY <1>3 DEF Typed
<1>5. ASSUME NEW p \in Proxy PROVE size[p] \in Nat
    BY <1>3 DEF Typed
<1>6. <<>> \in Seq(Request) /\ Len(<<>>) = 0
    OBVIOUS
<1>7. QED
    BY <1>1, <1>2, <1>4, <1>5, <1>6

\* What there are too many newer exchanges for stays so when exchanges join.
LEMMA ExcessGrows ==
    ASSUME NEW S \in SUBSET Request, NEW T \in SUBSET S, NEW e
    PROVE  Cardinality(Newer(e, T)) \in Nat /\ Cardinality(Newer(e, T)) <= Cardinality(Newer(e, S))
<1>1. IsFiniteSet(Request)
    BY RequestsAreFinite
<1>2. IsFiniteSet(Newer(e, S)) /\ Newer(e, T) \in SUBSET Newer(e, S)
    <2>1. Newer(e, S) \in SUBSET Request
        BY DEF Newer
    <2>2. QED
        BY <1>1, <2>1, FS_Subset DEF Newer
<1>3. QED
    BY <1>2, FS_Subset, FS_CardinalityType

\* Of two exchanges the older one has more that are newer.
LEMMA ExcessIsOldest ==
    ASSUME Typed, NEW e \in Excess, NEW f \in rows, f <= e PROVE f \in Excess
<1>1. rows \in SUBSET Request /\ e \in rows
    BY DEF Typed, Excess
<1>2. rows \subseteq Nat /\ e \in Nat /\ f \in Nat
    BY <1>1, RequestsAreFinite
<1>3. Newer(e, rows) \in SUBSET Newer(f, rows)
    <2>1. \A g \in rows : g > e => g > f
        BY <1>2
    <2>2. QED
        BY <2>1 DEF Newer
<1>4. IsFiniteSet(Newer(f, rows))
    <2>1. Newer(f, rows) \in SUBSET Request
        BY <1>1 DEF Newer
    <2>2. QED
        BY <2>1, RequestsAreFinite, FS_Subset
<1>5. /\ Cardinality(Newer(e, rows)) <= Cardinality(Newer(f, rows))
      /\ Cardinality(Newer(f, rows)) \in Nat /\ Cardinality(Newer(e, rows)) \in Nat
    BY <1>3, <1>4, FS_Subset, FS_CardinalityType
<1>6. QED
    BY <1>5, LogAssumption DEF Excess

\* What is given up stays so as long as the newer exchanges stay with it.
LEMMA StaysGivenUp ==
    ASSUME Typed, Typed', clock <= clock', NEW e \in Request, GivenUp(e),
           e \in rows' => e \in rows /\ Newer(e, rows) \subseteq rows'
    PROVE  GivenUp(e)'
<1>1. /\ e \in Nat /\ clock \in Nat /\ clock' \in Nat /\ MaxAge \in Nat /\ MaxRows \in Nat
      /\ rows' \in SUBSET Request
    BY RequestsAreFinite, LogAssumption DEF Typed
<1>2. CASE MaxRows > 0 /\ e \in Excess /\ e \in rows'
    <2>1. Newer(e, rows) \in SUBSET Newer(e, rows')
        BY <1>2 DEF Newer
    <2>2. Newer(e, rows') \in SUBSET Request
        BY <1>1 DEF Newer
    <2>3. /\ Cardinality(Newer(e, rows)) <= Cardinality(Newer(e, rows'))
          /\ Cardinality(Newer(e, rows)) \in Nat /\ Cardinality(Newer(e, rows')) \in Nat
        BY <2>1, <2>2, RequestsAreFinite, FS_Subset, FS_CardinalityType
    <2>4. Cardinality(Newer(e, rows)) >= MaxRows
        BY <1>2 DEF Excess
    <2>5. QED
        BY <1>1, <1>2, <2>3, <2>4 DEF GivenUp, Excess
<1>3. CASE MaxAge > 0 /\ e + MaxAge < clock
    BY <1>1, <1>3 DEF GivenUp
<1>4. QED
    BY <1>2, <1>3 DEF GivenUp

\* What a statement on the tables must keep to.
LEMMA TablesMove ==
    ASSUME IInv, Typed', clock <= clock', query' = query, seen' = seen,
           \A h \in hops' : h[1] \in rows',
           \A e \in rows' \ rows : e \notin traced /\ Attempts(e) \subseteq hops',
           \A e \in rows' \cap rows :
               /\ Newer(e, rows) \subseteq rows'
               /\ Attempts(e) \subseteq hops => Attempts(e) \subseteq hops' \/ GivenUp(e)
    PROVE  HopsFollowExchange'
<1> USE DEF IInv
<1>1. ASSUME NEW e \in Request, GivenUp(e), e \in traced PROVE GivenUp(e)'
    BY <1>1, StaysGivenUp
<1>2. rows \subseteq traced /\ rows \subseteq Request /\ rows' \subseteq Request /\ seen.rows \subseteq traced
      /\ seen.rows \subseteq Request
    BY DEF Typed, Ended
<1>3. ASSUME NEW e \in rows' PROVE Attempts(e) \subseteq hops' \/ GivenUp(e)'
    BY <1>1, <1>2, <1>3 DEF HopsFollowExchange
<1>4. ASSUME query' = "done", NEW e \in seen'.rows \ seen'.hops PROVE GivenUp(e)'
    BY <1>1, <1>2, <1>4 DEF HopsFollowExchange
<1>5. QED
    BY <1>3, <1>4 DEF HopsFollowExchange, GivenUp, Excess
-----------------------------------------------------------------------------
(* The steps *)

LEMMA InitIInv == Init => IInv
<1> SUFFICES ASSUME Init PROVE IInv
    OBVIOUS
<1>1. 0 \in 0..MaxRequest /\ 0 \in 0..MaxStops /\ 0 \in 0..(PruneEvery - 1)
    BY LogAssumption
<1>2. ASSUME NEW p \in Proxy PROVE Len(ring[p]) <= size[p]
    <2>1. ring[p] = <<>> /\ size[p] \in Sizes
        BY DEF Init
    <2>2. Len(ring[p]) = 0 /\ size[p] \in Nat
        BY <2>1, LogAssumption
    <2>3. QED
        BY <2>2
<1>3. Typed
    BY <1>1, <1>2 DEF Init, Typed, PC
<1>4. Ended /\ Pruning /\ HopsFollowExchange
    BY DEF Init, Ended, Pruning, HopsFollowExchange
<1>5. QED
    BY <1>3, <1>4 DEF IInv

LEMMA BeginKeeps == ASSUME IInv, Begin PROVE IInv'
<1> USE DEF IInv
<1>1. Typed'
    BY LogAssumption DEF Begin, Typed, Ring, Store, Writer, Reader
<1>2. clock \in Nat /\ clock' = clock + 1 /\ UNCHANGED <<traced, Store, Writer, Reader>>
    BY LogAssumption DEF Begin, Typed
<1>3. Ended'
    BY <1>2 DEF Ended, Store, Reader
<1>4. Pruning'
    BY <1>2, RequestsAreFinite, LogAssumption DEF Pruning, Writer
<1>5. HopsFollowExchange'
    BY <1>1, <1>2, TablesMove DEF Store, Reader, HopsFollowExchange, Newer
<1>6. QED
    BY <1>1, <1>3, <1>4, <1>5

\* The steps that leave the tables and the clock alone.
LEMMA RestKeeps ==
    ASSUME IInv, Typed', Pruning', UNCHANGED <<clock, traced, Store, Reader>>
    PROVE  IInv'
<1> USE DEF IInv
<1>1. Ended'
    BY DEF Ended, Store, Reader
<1>2. clock <= clock'
    BY LogAssumption DEF Typed
<1>3. HopsFollowExchange'
    BY <1>2, TablesMove DEF Store, Reader, HopsFollowExchange, Newer
<1>4. QED
    BY <1>1, <1>3

LEMMA ClearTrafficKeeps == ASSUME IInv, NEW p \in Proxy, ClearTraffic(p) PROVE IInv'
<1>1. /\ ring' = [ring EXCEPT ![p] = <<>>]
      /\ UNCHANGED <<clock, traced, size, Store, Writer, Reader, stops>>
    BY DEF ClearTraffic
<1>2. <<>> \in Seq(Request) /\ Len(<<>>) = 0 /\ \A x \in Proxy : size[x] \in Nat
    BY Numbers DEF IInv
<1>3. /\ ring' \in [Proxy -> Seq(Request)] /\ size' = size
      /\ \A x \in Proxy : Len(ring'[x]) <= size[x]
    BY <1>1, <1>2 DEF IInv, Typed
<1>4. Typed'
    BY <1>1, <1>3 DEF IInv, Typed, Store, Writer, Reader
<1>5. Pruning'
    BY <1>1 DEF IInv, Pruning, Writer
<1>6. QED
    BY <1>1, <1>4, <1>5, RestKeeps

LEMMA ResizeKeeps == ASSUME IInv, NEW p \in Proxy, NEW n \in Sizes, Resize(p, n) PROVE IInv'
<1>1. /\ size' = [size EXCEPT ![p] = n] /\ ring' = [ring EXCEPT ![p] = Trim(ring[p], n)]
      /\ UNCHANGED <<clock, traced, Store, Writer, Reader, stops>>
    BY DEF Resize
<1>2. Trim(ring[p], n) \in Seq(Request) /\ Len(Trim(ring[p], n)) <= n
    BY TrimKeeps, LogAssumption DEF IInv, Typed
<1>3. Typed'
    BY <1>1, <1>2 DEF IInv, Typed, Store, Writer, Reader
<1>4. Pruning'
    BY <1>1 DEF IInv, Pruning, Writer
<1>5. QED
    BY <1>1, <1>3, <1>4, RestKeeps

LEMMA TraceKeeps == ASSUME IInv, NEW p \in Proxy, NEW e \in Request, Trace(p, e) PROVE IInv'
<1> USE DEF IInv
<1> DEFINE stored == pc[p] = "open" /\ StoreExchange(e)
           next == (appends[p] + 1) % PruneEvery
<1>1. /\ e \notin traced /\ traced' = traced \cup {e}
      /\ ring' = [ring EXCEPT ![p] = Push(ring[p], e, size[p])]
      /\ UNCHANGED <<clock, size, Reader, stops>>
    BY DEF Trace
<1>2. \/ /\ stored /\ appends' = [appends EXCEPT ![p] = next]
         /\ \/ UNCHANGED <<pc, cutoff>>
            \/ /\ pc' = [pc EXCEPT ![p] = IF MaxAge > 0 THEN "hopsByAge" ELSE AfterAge]
               /\ cutoff' = [cutoff EXCEPT ![p] = IF clock > MaxAge THEN clock - MaxAge ELSE 0]
      \/ UNCHANGED <<Store, Writer>>
    BY DEF Trace, Goto
<1>3. ring' \in [Proxy -> Seq(Request)] /\ \A x \in Proxy : Len(ring'[x]) <= size[x]
    <2>1. size[p] \in Nat
        BY LogAssumption DEF Typed
    <2>2. Push(ring[p], e, size[p]) \in Seq(Request) /\ Len(Push(ring[p], e, size[p])) <= size[p]
        BY <2>1, PushKeeps DEF Typed
    <2>3. QED
        BY <1>1, <2>2 DEF Typed
<1>4. next \in 0..(PruneEvery - 1)
    BY LogAssumption DEF Typed
<1>5. AfterAge \in PC /\ "hopsByAge" \in PC /\ clock \in Nat /\ MaxAge \in Nat /\ MaxRows \in Nat
    BY LogAssumption DEF Typed, AfterAge, PC
<1> HIDE DEF next
<1>6. \/ rows' = rows \cup {e} /\ hops' = hops \cup Attempts(e) /\ tokens' = tokens
      \/ rows' = rows /\ hops' = hops /\ tokens' = tokens
    BY <1>2 DEF StoreExchange, Usage, Store
<1>7. Typed'
    <2>1. {rows', tokens', traced'} \subseteq SUBSET Request
          /\ hops' \in SUBSET UNION {Attempts(x) : x \in Request}
        BY <1>1, <1>6 DEF Typed
    <2>2. CASE /\ appends' = [appends EXCEPT ![p] = next]
               /\ \/ UNCHANGED <<pc, cutoff>>
                  \/ /\ pc' = [pc EXCEPT ![p] = IF MaxAge > 0 THEN "hopsByAge" ELSE AfterAge]
                     /\ cutoff' = [cutoff EXCEPT ![p] = IF clock > MaxAge THEN clock - MaxAge ELSE 0]
        <3>1. (IF clock > MaxAge THEN clock - MaxAge ELSE 0) \in 0..MaxRequest
            BY <1>5, LogAssumption DEF Typed
        <3>2. pc' \in [Proxy -> PC] /\ cutoff' \in [Proxy -> 0..MaxRequest]
            <4>1. CASE UNCHANGED <<pc, cutoff>>
                BY <4>1 DEF Typed
            <4>2. CASE ~UNCHANGED <<pc, cutoff>>
                <5>1. pc' = [pc EXCEPT ![p] = IF MaxAge > 0 THEN "hopsByAge" ELSE AfterAge]
                      /\ cutoff' = [cutoff EXCEPT ![p] = IF clock > MaxAge THEN clock - MaxAge ELSE 0]
                    BY <2>2, <4>2
                <5>2. pc' \in [Proxy -> PC]
                    BY <1>5, <5>1 DEF Typed
                <5>3. cutoff' \in [Proxy -> 0..MaxRequest]
                    BY <3>1, <5>1 DEF Typed
                <5>4. QED
                    BY <5>2, <5>3
            <4>3. QED
                BY <4>1, <4>2
        <3>3. appends' \in [Proxy -> 0..(PruneEvery - 1)]
            BY <1>4, <2>2 DEF Typed
        <3>4. QED
            BY <1>1, <1>3, <2>1, <3>2, <3>3 DEF Typed, Reader
    <2>3. CASE UNCHANGED Writer
        BY <1>1, <1>3, <2>1, <2>3 DEF Typed, Reader, Writer
    <2>4. QED
        BY <1>2, <2>2, <2>3
<1>8. Ended'
    BY <1>1, <1>6 DEF Ended, Reader
<1>9. Pruning'
    <2>1. CASE UNCHANGED <<pc, cutoff>>
        BY <1>1, <2>1 DEF Pruning
    <2>2. CASE /\ pc' = [pc EXCEPT ![p] = IF MaxAge > 0 THEN "hopsByAge" ELSE AfterAge]
               /\ cutoff' = [cutoff EXCEPT ![p] = IF clock > MaxAge THEN clock - MaxAge ELSE 0]
        <3>1. \A x \in Proxy \ {p} : pc'[x] = pc[x] /\ cutoff'[x] = cutoff[x]
            BY <2>2 DEF Typed
        <3>2. /\ pc'[p] = IF MaxAge > 0 THEN "hopsByAge" ELSE AfterAge
              /\ cutoff'[p] = IF clock > MaxAge THEN clock - MaxAge ELSE 0
            BY <2>2 DEF Typed
        <3>3. /\ pc'[p] \in {"hopsByAge", "rowsByAge"} => MaxAge > 0
              /\ pc'[p] \in {"hopsByCount", "rowsByCount"} => MaxRows > 0
            BY <3>2 DEF AfterAge
        <3>4. \A x \in Request : x < cutoff'[p] => x + MaxAge < clock
            BY <1>5, <3>2, RequestsAreFinite
        <3>5. QED
            BY <1>1, <3>1, <3>3, <3>4 DEF Pruning
    <2>3. QED
        BY <1>2, <2>1, <2>2 DEF Writer
<1>10. HopsFollowExchange'
    <2>1. \A h \in Attempts(e) : h[1] = e
        BY DEF Attempts
    <2>2. \A h \in hops' : h[1] \in rows'
        BY <1>6, <2>1 DEF HopsFollowExchange
    <2>3. \A x \in rows' \ rows : x \notin traced /\ Attempts(x) \subseteq hops'
        BY <1>1, <1>6
    <2>4. /\ \A x \in rows' \cap rows : Newer(x, rows) \subseteq rows'
          /\ \A x \in rows' \cap rows : Attempts(x) \subseteq hops => Attempts(x) \subseteq hops'
        BY <1>6 DEF Newer
    <2>5. clock <= clock' /\ query' = query /\ seen' = seen
        BY <1>1, <1>5 DEF Reader
    <2>6. QED
        BY <1>7, <2>2, <2>3, <2>4, <2>5, TablesMove
<1>11. QED
    BY <1>7, <1>8, <1>9, <1>10

\* What the four statements of a prune have in common.
LEMMA PruneKeeps ==
    ASSUME IInv, NEW p \in Proxy, NEW from, NEW to \in PC, Prune(p, from, to, TRUE),
           to = "rowsByAge" => from = "hopsByAge", to # "hopsByAge",
           to \in {"hopsByCount", "rowsByCount"} => MaxRows > 0,
           NEW S \in SUBSET rows, \A e \in S : GivenUp(e) /\ \A f \in rows : f <= e => f \in S,
           \/ DeleteHops(S)
           \/ DeleteRows(S)
    PROVE  IInv'
<1> USE DEF IInv
<1>1. /\ pc[p] = from /\ pc' = [pc EXCEPT ![p] = to] /\ tokens' = tokens \cap rows'
      /\ UNCHANGED <<clock, traced, Ring, appends, cutoff, Reader, stops>>
    BY DEF Prune, Goto
<1>2. hops' = {h \in hops : h[1] \notin S} /\ (rows' = rows \/ rows' = rows \ S)
    BY DEF DeleteHops, DeleteRows
<1>3. Typed'
    <2>1. {rows', tokens'} \subseteq SUBSET Request /\ pc' \in [Proxy -> PC]
        BY <1>1, <1>2 DEF Typed
    <2>2. hops' \in SUBSET UNION {Attempts(e) : e \in Request}
        BY <1>2 DEF Typed
    <2>3. QED
        BY <1>1, <2>1, <2>2 DEF Typed, Ring, Reader
<1>4. Ended'
    BY <1>1, <1>2 DEF Ended, Reader
<1>5. Pruning'
    <2>1. \A x \in Proxy \ {p} : pc'[x] = pc[x]
        BY <1>1 DEF Typed
    <2>2. pc'[p] = to
        BY <1>1 DEF Typed
    <2>3. QED
        BY <1>1, <2>1, <2>2 DEF Pruning
<1>6. HopsFollowExchange'
    <2>1. \A e \in Request : \A h \in Attempts(e) : h[1] = e
        BY DEF Attempts
    <2>2. \A h \in hops' : h[1] \in rows'
        BY <1>2 DEF HopsFollowExchange
    <2>3. rows \subseteq Nat /\ rows \subseteq Request /\ clock <= clock' /\ rows' \subseteq rows
        <3>1. clock \in Nat /\ clock' = clock
            BY <1>1, LogAssumption DEF Typed
        <3>2. rows \subseteq Nat /\ rows \subseteq Request
            BY RequestsAreFinite DEF Typed
        <3>3. QED
            BY <1>2, <3>1, <3>2
    <2>4. ASSUME NEW e \in rows'
          PROVE  Newer(e, rows) \subseteq rows'
        <3>1. CASE rows' = rows
            BY <3>1 DEF Newer
        <3>2. CASE rows' = rows \ S
            <4>1. \A f \in S : ~(f > e)
                <5>1. ASSUME NEW f \in S, f > e PROVE FALSE
                    <6>1. e <= f /\ e \in rows
                        BY <2>3, <5>1
                    <6>2. QED
                        BY <3>2, <5>1, <6>1
                <5>2. QED
                    BY <5>1
            <4>2. QED
                BY <3>2, <4>1 DEF Newer
        <3>3. QED
            BY <1>2, <3>1, <3>2
    <2>5. ASSUME NEW e \in rows', Attempts(e) \subseteq hops
          PROVE  Attempts(e) \subseteq hops' \/ GivenUp(e)
        BY <1>2, <2>1, <2>3, <2>5
    <2>6. query' = query /\ seen' = seen
        BY <1>1 DEF Reader
    <2>7. QED
        BY <1>3, <2>2, <2>3, <2>4, <2>5, <2>6, TablesMove
<1>7. QED
    BY <1>3, <1>4, <1>5, <1>6

LEMMA PruneStepKeeps == ASSUME IInv, NEW p \in Proxy, PruneStep(p) PROVE IInv'
<1> USE DEF IInv
<1>1. rows \in SUBSET Request /\ rows \subseteq Nat /\ cutoff[p] \in Nat
    BY Numbers
<1>2. pc[p] \in {"hopsByAge", "rowsByAge"}
      => \A e \in Old(p) : GivenUp(e) /\ \A f \in rows : f <= e => f \in Old(p)
    BY <1>1 DEF Pruning, Old, GivenUp
<1>3. pc[p] \in {"hopsByCount", "rowsByCount"}
      => \A e \in Excess : GivenUp(e) /\ \A f \in rows : f <= e => f \in Excess
    BY ExcessIsOldest DEF Pruning, GivenUp
<1>4. Old(p) \in SUBSET rows /\ Excess \in SUBSET rows
    BY DEF Old, Excess
<1>5. CASE Prune(p, "hopsByAge", "rowsByAge", DeleteHops(Old(p)))
    BY <1>2, <1>4, <1>5, PruneKeeps DEF Prune, PC
<1>6. CASE Prune(p, "rowsByAge", AfterAge, DeleteRows(Old(p)))
    BY <1>2, <1>4, <1>6, PruneKeeps DEF Prune, PC, AfterAge
<1>7. CASE Prune(p, "hopsByCount", "rowsByCount", DeleteHops(Excess))
    <2>1. MaxRows > 0
        BY <1>7 DEF Prune, Pruning
    <2>2. QED
        BY <1>3, <1>4, <1>7, <2>1, PruneKeeps DEF Prune, PC
<1>8. CASE Prune(p, "rowsByCount", "open", DeleteRows(Excess))
    BY <1>3, <1>4, <1>8, PruneKeeps DEF Prune, PC
<1>9. QED
    BY <1>5, <1>6, <1>7, <1>8 DEF PruneStep

LEMMA CloseKeeps == ASSUME IInv, NEW p \in Proxy, Close(p) PROVE IInv'
<1>1. /\ pc' = [pc EXCEPT ![p] = "closed"]
      /\ UNCHANGED <<clock, traced, Ring, Store, appends, cutoff, Reader, stops>>
    BY DEF Close, Goto
<1>2. Typed'
    BY <1>1 DEF IInv, Typed, Ring, Store, Reader, PC
<1>3. Pruning'
    BY <1>1 DEF IInv, Pruning, Typed
<1>4. QED
    BY <1>1, <1>2, <1>3, RestKeeps

LEMMA RestartKeeps == ASSUME IInv, NEW p \in Proxy, Restart(p) PROVE IInv'
<1>1. /\ stops < MaxStops /\ stops' = stops + 1 /\ pc' = [pc EXCEPT ![p] = "open"]
      /\ appends' = [appends EXCEPT ![p] = 0] /\ ring' = [ring EXCEPT ![p] = <<>>]
      /\ UNCHANGED <<clock, traced, size, Store, cutoff, Reader>>
    BY DEF Restart, Goto
<1>2. <<>> \in Seq(Request) /\ Len(<<>>) = 0 /\ \A x \in Proxy : size[x] \in Nat
    BY Numbers DEF IInv
<1>3. /\ ring' \in [Proxy -> Seq(Request)] /\ size' = size
      /\ \A x \in Proxy : Len(ring'[x]) <= size[x]
    BY <1>1, <1>2 DEF IInv, Typed
<1>4. 0 \in 0..(PruneEvery - 1) /\ stops' \in 0..MaxStops
    BY <1>1, LogAssumption DEF IInv, Typed
<1>5. Typed'
    BY <1>1, <1>3, <1>4 DEF IInv, Typed, Store, Reader, PC
<1>6. Pruning'
    BY <1>1 DEF IInv, Pruning, Typed
<1>7. QED
    BY <1>1, <1>5, <1>6, RestKeeps

LEMMA QueryRowsKeeps == ASSUME IInv, QueryRows PROVE IInv'
<1> USE DEF IInv
<1>1. /\ query = "rows" /\ query' = "hops" /\ seen' = [seen EXCEPT !.rows = rows]
      /\ UNCHANGED <<clock, traced, Ring, Store, Writer, stops>>
    BY DEF QueryRows
<1>2. seen'.rows = rows /\ seen' \in [rows : SUBSET Request, hops : SUBSET Request]
      /\ seen'.hops = seen.hops
    BY <1>1 DEF Typed
<1>3. seen.hops = {}
    BY <1>1 DEF Ended
<1>4. Typed'
    BY <1>1, <1>2, <1>3 DEF Typed, Ring, Store, Writer
<1>5. QED
    BY <1>1, <1>2, <1>4
       DEF Ended, Pruning, HopsFollowExchange, GivenUp, Excess, Store, Writer

LEMMA QueryHopsKeeps == ASSUME IInv, QueryHops PROVE IInv'
<1> USE DEF IInv
<1>1. /\ query' = "done" /\ seen' = [seen EXCEPT !.hops = {e \in seen.rows : Attempts(e) \subseteq hops}]
      /\ UNCHANGED <<clock, traced, Ring, Store, Writer, stops>>
    BY DEF QueryHops
<1>2. /\ seen'.rows = seen.rows /\ seen' \in [rows : SUBSET Request, hops : SUBSET Request]
      /\ seen'.hops = {e \in seen.rows : Attempts(e) \subseteq hops}
    BY <1>1 DEF Typed
<1>3. Typed'
    BY <1>1, <1>2 DEF Typed, Ring, Store, Writer
<1>4. \A e \in seen'.rows \ seen'.hops : GivenUp(e)
    BY <1>2 DEF HopsFollowExchange, GivenUp
<1>5. HopsFollowExchange'
    BY <1>1, <1>4 DEF HopsFollowExchange, GivenUp, Excess, Store
<1>6. QED
    BY <1>1, <1>2, <1>3, <1>5 DEF Ended, Pruning, Store, Writer

LEMMA StepIInv == IInv /\ [Next]_vars => IInv'
<1> SUFFICES ASSUME IInv, [Next]_vars PROVE IInv'
    OBVIOUS
<1>1. CASE Begin
    BY <1>1, BeginKeeps
<1>2. CASE \E p \in Proxy : \E e \in Request : Trace(p, e)
    BY <1>2, TraceKeeps
<1>3. CASE \E p \in Proxy : ClearTraffic(p) \/ (\E n \in Sizes : Resize(p, n))
    BY <1>3, ClearTrafficKeeps, ResizeKeeps
<1>4. CASE \E p \in Proxy : PruneStep(p)
    BY <1>4, PruneStepKeeps
<1>5. CASE \E p \in Proxy : Close(p) \/ Restart(p)
    BY <1>5, CloseKeeps, RestartKeeps
<1>6. CASE QueryRows \/ QueryHops
    BY <1>6, QueryRowsKeeps, QueryHopsKeeps
<1>7. CASE UNCHANGED vars
    BY <1>7 DEF vars, IInv, Typed, Ended, Pruning, HopsFollowExchange, GivenUp, Excess
<1>8. QED
    BY <1>1, <1>2, <1>3, <1>4, <1>5, <1>6, <1>7 DEF Next
-----------------------------------------------------------------------------
(* Theorems *)

(* The ring never holds more than its size, and the tables, the prunes and the reports keep to their
   types and control points.                                                                      *)
THEOREM TypeCorrect == Spec => []TypeOK
<1>1. IInv => TypeOK
    BY DEF IInv, Typed, TypeOK
<1>2. QED
    BY <1>1, InitIInv, StepIInv, PTL DEF Spec

(* No hop outlives its exchange, and neither the tables nor a report lack the hops of an exchange
   that retention keeps ("An exchange without its hops (or vice versa) would lie", trafficStore.ts),
   whatever proxies append and prune at once and wherever one is killed.                          *)
THEOREM HopsAreKept == Spec => []HopsFollowExchange
<1>1. QED
    BY InitIInv, StepIInv, PTL DEF Spec, IInv
=============================================================================

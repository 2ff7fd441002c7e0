---------------------------- MODULE TrafficReport ----------------------------
(* What the reports make of stored exchanges and buffered entries: the filter in its two
   renderings and the rollups (packages/core/src/trafficLog.ts, the SQL of trafficStore.ts), the
   estimated spend and the tips (packages/core/src/pricing.ts), and the conversations of the proxy
   page (groupTrafficConversations, packages/adapters/src/proxy/trafficSummary.ts).

   All of it is pure: a behaviour is one report on one selection.                               *)
EXTENDS Integers, Sequences, FiniteSets, FiniteSetsExt, SequencesExt

CONSTANTS
    None,        \* an absent field; SQL NULL
    Exchanges,   \* the stored exchanges to choose from: records with the fields below
    Filters,     \* the filters to choose from
    PriceOf,     \* PriceOf[m]: the price of a model, None when the table has none
    MaxRows,     \* bound on the exchanges of a report
    TurnKeys,    \* the lists of link keys an entry may have
    MaxTurns,    \* bound on the entries that are grouped
    KeyCap       \* how many keys of an entry count

VARIABLES
    exchanges, filter,  \* a report: the rows of the store, what is asked of them
    turns               \* the entries of the proxy page: the link keys of each

vars == <<exchanges, filter, turns>>

TypeOK ==
    /\ exchanges \in BoundedSeq(Exchanges, MaxRows) /\ filter \in Filters
    /\ turns \in BoundedSeq(TurnKeys, MaxTurns)
-----------------------------------------------------------------------------
(* The filter: fields account, model, since, until and errors *)

IsError(e) == e.status >= 400 \/ e.error # None

\* matchTrafficFilter, in memory: the first test that fails refuses the entry.
MatchTrafficFilter(e, f) ==
    ~ \/ f.account # None /\ e.account # f.account
      \/ f.model # None /\ e.model # f.model /\ e.upstream # f.model
      \/ f.since # None /\ e.ts < f.since
      \/ f.until # None /\ ~(e.ts < f.until)
      \/ f.errors /\ ~IsError(e)

\* exchangeWhere, in SQL: a comparison with NULL is never true.
SqlEq(column, value) == column # None /\ column = value
ExchangeWhere(e, f) ==
    /\ f.account # None => SqlEq(e.account, f.account)
    /\ f.model # None => SqlEq(e.model, f.model) \/ SqlEq(e.upstream, f.model)
    /\ f.since # None => e.ts >= f.since
    /\ f.until # None => e.ts < f.until
    /\ f.errors => e.status >= 400 \/ ~(e.error = None)

Selected == SelectSeq(exchanges, LAMBDA e : ExchangeWhere(e, filter))
-----------------------------------------------------------------------------
(* Rollups *)

\* rollupExchanges by route: an exchange no route claimed counts for the base.
KeyOf(e) == IF e.route = None THEN "(base)" ELSE e.route
Keys(S) == {KeyOf(S[n]) : n \in DOMAIN S}
GroupOf(S, k) == SelectSeq(S, LAMBDA e : KeyOf(e) = k)

Tokens(e) == IF e.tokens = None THEN 0 ELSE e.tokens
SumOf(counts) == FoldFunction(+, 0, counts)
Latencies(S) == SortSeq([n \in DOMAIN S |-> S[n].ms], <)

CeilDiv(a, b) == (a + b - 1) \div b
Clip(n, low, high) == Min({high, Max({low, n})})

\* Nearest rank.
Percentile(sorted, p) ==
    IF sorted = <<>> THEN 0 ELSE sorted[Clip(CeilDiv(p * Len(sorted), 100), 1, Len(sorted))]

RollupGroup(S) ==
    [requests |-> Len(S), errors |-> Len(SelectSeq(S, IsError)),
     tokens |-> SumOf([n \in DOMAIN S |-> Tokens(S[n])]),
     p50 |-> Percentile(Latencies(S), 50), p95 |-> Percentile(Latencies(S), 95)]
Rollup(S) == [k \in Keys(S) |-> RollupGroup(GroupOf(S, k))]
-----------------------------------------------------------------------------
(* Spend *)

\* The price of the model that was sent upstream; None without usage or price.
PricedModel(e) == IF e.upstream # None THEN e.upstream ELSE e.model
Spend(e) ==
    IF e.tokens = None \/ PricedModel(e) = None THEN None
    ELSE IF PriceOf[PricedModel(e)] = None THEN None
    ELSE e.tokens * PriceOf[PricedModel(e)]

SpendGroup(S) ==
    [requests |-> Len(S),
     spend |-> SumOf([n \in DOMAIN S |-> IF Spend(S[n]) = None THEN 0 ELSE Spend(S[n])]),
     priced |-> Len(SelectSeq(S, LAMBDA e : Spend(e) # None)),
     unpriced |-> Len(SelectSeq(S, LAMBDA e : Spend(e) = None /\ e.tokens # None))]
SpendRollup(S) == [k \in Keys(S) |-> SpendGroup(GroupOf(S, k))]
-----------------------------------------------------------------------------
(* Conversations *)

KeysOf(items, i) == SubSeq(items[i], 1, Min({KeyCap, Len(items[i])}))

\* find: the root above an entry; paths are compressed on the way.
Find(parent, i) ==
    LET root[j \in DOMAIN parent] == IF parent[j] = j THEN j ELSE root[parent[j]] IN root[i]

\* A bug: the entry is hung below the owner of the key, not its root.
VisitEntryOnly(links, i, key) ==
    IF key \notin DOMAIN links.owner
    THEN [links EXCEPT !.owner = (key :> Find(links.parent, i)) @@ @]
    ELSE [links EXCEPT !.parent[i] = Find(links.parent, links.owner[key])]

\* One key of one entry: the key's first owner, or a union of the two trees.
Visit(links, i, key) ==
    IF key \notin DOMAIN links.owner
    THEN [links EXCEPT !.owner = (key :> Find(links.parent, i)) @@ @]
    ELSE LET a == Find(links.parent, i)
             b == Find(links.parent, links.owner[key])
         IN [parent |-> [links.parent EXCEPT ![a] = b], owner |-> (key :> b) @@ links.owner]

Linked(items) ==
    LET none == [parent |-> [i \in DOMAIN items |-> i], owner |-> <<>>]
        entry(links, i) == FoldLeft(LAMBDA l, k : Visit(l, i, k), links, KeysOf(items, i))
    IN FoldLeft(entry, none, [i \in DOMAIN items |-> i])

\* groupTrafficConversations: the entries with one root are one conversation.
Conversations(items) ==
    LET parent == Linked(items).parent
    IN {{i \in DOMAIN items : Find(parent, i) = r} : r \in {Find(parent, i) : i \in DOMAIN items}}
-----------------------------------------------------------------------------
\* The selection grows row by row, and so does the buffer.
Init == exchanges = <<>> /\ filter \in Filters /\ turns = <<>>

MoreExchanges ==
    /\ turns = <<>> /\ Len(exchanges) < MaxRows
    /\ \E e \in Exchanges : exchanges' = Append(exchanges, e)
    /\ UNCHANGED <<filter, turns>>
MoreTurns ==
    /\ exchanges = <<>> /\ Len(turns) < MaxTurns
    /\ \E k \in TurnKeys : turns' = Append(turns, k)
    /\ UNCHANGED <<exchanges, filter>>
Next == MoreExchanges \/ MoreTurns

Spec == Init /\ [][Next]_vars
-----------------------------------------------------------------------------
(* Properties *)

\* "same questions, same answers, two sources" (trafficLog.ts:78-82)
SameAnswers ==
    \A n \in DOMAIN exchanges : ExchangeWhere(exchanges[n], filter) = MatchTrafficFilter(exchanges[n], filter)

\* The percentile by its definition: the least latency that p percent do not exceed.
NearestRank(S, p) ==
    LET enough == {x \in {S[n].ms : n \in DOMAIN S} :
                      100 * Cardinality({n \in DOMAIN S : S[n].ms <= x}) >= p * Len(S)}
    IN IF S = <<>> THEN 0 ELSE Min(enough)

\* "the cards can never disagree with the table" (trafficLog.ts:128-132), and spend joins the rows.
TotalsAgree ==
    LET table == Rollup(Selected)
        total == RollupGroup(Selected)
        spent == SpendRollup(Selected)
        Over(f(_)) == FoldFunction(+, 0, [k \in DOMAIN table |-> f(k)])
    IN /\ total.requests = Over(LAMBDA k : table[k].requests)
       /\ total.errors = Over(LAMBDA k : table[k].errors)
       /\ total.tokens = Over(LAMBDA k : table[k].tokens)
       /\ \A k \in DOMAIN table : /\ spent[k].requests = table[k].requests
                                  /\ spent[k].priced + spent[k].unpriced <= table[k].requests
                                  /\ table[k].p50 = NearestRank(GroupOf(Selected, k), 50)
                                  /\ table[k].p95 = NearestRank(GroupOf(Selected, k), 95)

\* "entries sharing a key merge transitively, keyless entries stand alone"
\* (trafficSummary.ts:198-202): entries that share a key are in one
\* conversation, and no part of a conversation shares no key with the rest.
Share(i, j) == ToSet(KeysOf(turns, i)) \cap ToSet(KeysOf(turns, j)) # {}
MergeTransitively ==
    LET found == Conversations(turns)
        HeldTogether(C, part) == \E i \in part, j \in C \ part : Share(i, j)
    IN /\ UNION found = DOMAIN turns
       /\ \A C, D \in found : C # D => ~\E i \in C, j \in D : i = j \/ Share(i, j)
       /\ \A C \in found : \A part \in SUBSET C \ {{}, C} : HeldTogether(C, part)

(* The answers of the two sources agree, the totals are those of the table, and a conversation is
   exactly what a chain of shared keys connects.                                                *)
ReportsAgree == SameAnswers /\ TotalsAgree /\ MergeTransitively
=============================================================================

----------------------------- MODULE ThreadPage -----------------------------
(* A conversation read in the web UI while Claude Code runs: the proxy's ring of exchanges
   (adapters/src/proxy/server.ts), the keys the Claude parser finds in one
   (providers/claudeTrafficParser.ts), the grouping and its addresses (proxy/trafficSummary.ts),
   the two calls a poll makes (web/src/lib/store.server.ts) and the page that folds polls into what
   the reader sees (routes/proxy/$threadId.tsx, lib/threadView.ts).  A tool-use id is the pair of
   its run and a number; the algorithm of the grouping is TrafficReport's subject.                *)
EXTENDS Naturals, Sequences, FiniteSets, SequencesExt

CONSTANTS
    Run,       \* runs of Claude Code, each a session id
    None,
    KeyCap,    \* MAX_TOOL_USE_IDS, and the grouping's own cap on keys
    RingSize,  \* trafficBufferSize
    MaxTurns,  \* bound on the exchanges
    MaxLoads   \* bound on the loads that find the proxy up

VARIABLES
    ring,   \* the buffered exchanges, oldest first
    run,    \* of each run: the tool-use ids of its context, how many it used, how often it compacted
    turns,  \* exchanges so far
    up,     \* the proxy answers
    page,   \* the loader: its step, the address it loads, the list it read
    shown   \* what is on screen: exchanges, bodies, address

vars == <<ring, run, turns, up, page, shown>>

Session(r) == <<r, 0>>
FirstOf(s) == SubSeq(s, 1, IF Len(s) < KeyCap THEN Len(s) ELSE KeyCap)

Nowhere == [running |-> FALSE, conv |-> None, bodies |-> {}, at |-> None]
Init ==
    /\ ring = <<>> /\ turns = 0 /\ up = TRUE
    /\ run = [r \in Run |-> [context |-> <<>>, used |-> 0, epoch |-> 0]]
    /\ page = [pc |-> "idle", at |-> None, list |-> <<>>, loads |-> 0]
    /\ shown = Nowhere

TypeOK ==
    /\ turns \in 0..MaxTurns /\ up \in BOOLEAN /\ Len(ring) <= RingSize
    /\ \A i \in DOMAIN ring : ring[i].id \in 1..turns /\ ring[i].run \in Run
    /\ page.pc \in {"idle", "list", "bodies"} /\ shown.running \in BOOLEAN
-----------------------------------------------------------------------------
(* The runs *)

\* trace(): the entry joins the ring, the oldest leaves.
Push(e) ==
    LET all == Append(ring, e)
    IN ring' = IF Len(all) > RingSize THEN Tail(all) ELSE all

\* Mutated form of Asked: the newest ids, not the oldest.
AskedLast(context) == SubSeq(context, IF Len(context) < KeyCap THEN 1 ELSE Len(context) - KeyCap + 1, Len(context))

\* collectRequestToolIds: the first ids of the messages, read before the body is cut.
Asked(context) == FirstOf(context)

\* A turn resends the context and may be answered with a tool call; whole: both bodies were kept
\* in full, so that they parse.
Turn(r) ==
    /\ up /\ turns < MaxTurns
    /\ \E calls \in {0, 1}, whole \in BOOLEAN :
        LET new == IF calls = 1 THEN <<<<r, run[r].used + 1>>>> ELSE <<>>
        IN /\ Push([id |-> turns + 1, run |-> r, epoch |-> run[r].epoch, asked |-> Asked(run[r].context),
                    answered |-> new, whole |-> whole])
           /\ run' = [run EXCEPT ![r].context = @ \o new, ![r].used = @ + calls]
    /\ turns' = turns + 1 /\ UNCHANGED <<up, page, shown>>

\* A safety screen: only the session ties it to its run.
Screen(r) ==
    /\ up /\ turns < MaxTurns
    /\ Push([id |-> turns + 1, run |-> r, epoch |-> run[r].epoch, asked |-> <<>>, answered |-> <<>>,
             whole |-> TRUE])
    /\ turns' = turns + 1 /\ UNCHANGED <<run, up, page, shown>>

\* The context is summarised: its tool calls are in no later request.
Compact(r) ==
    /\ run[r].context # <<>> /\ run' = [run EXCEPT ![r].context = <<>>, ![r].epoch = @ + 1]
    /\ UNCHANGED <<ring, turns, up, page, shown>>

\* The proxy stops, or is started anew with an empty ring.
StopStart ==
    /\ up' = ~up /\ ring' = IF up THEN <<>> ELSE ring
    /\ UNCHANGED <<run, turns, page, shown>>
-----------------------------------------------------------------------------
(* The grouping *)

\* conversationKeys, and the grouping's slice: what was read of the whole request, then what the
\* kept bodies hold, if they were sent along.
Keys(e, bodies) ==
    IF bodies /\ e.whole THEN FirstOf(e.asked \o <<Session(e.run)>> \o e.answered) ELSE FirstOf(e.asked)

Share(a, b, bodies) == a = b \/ ToSet(Keys(a, bodies)) \cap ToSet(Keys(b, bodies)) # {}

RECURSIVE Joined(_, _, _)
Joined(some, entries, bodies) ==
    LET more == {b \in entries : \E a \in some : Share(a, b, bodies)}
    IN IF more = some THEN some ELSE Joined(more, entries, bodies)

\* groupTrafficConversations(): entries that share a key, transitively.
ThreadOf(e, entries, bodies) == Joined({e}, entries, bodies)
Threads(entries, bodies) == {ThreadOf(e, entries, bodies) : e \in entries}

Oldest(thread) == CHOOSE e \in thread : \A f \in thread : e.id <= f.id

\* The address of a thread of the list: its oldest turn's first key, or that turn's id.
Address(thread) ==
    LET e == Oldest(thread)
    IN IF e.asked # <<>> THEN [key |-> Head(e.asked)] ELSE [entry |-> e.id]
-----------------------------------------------------------------------------
(* The page *)

\* Mutated form of KeepLastGood: the last poll is shown, whatever it brought.
KeepLast(next) == next

\* keepLastGood(): a load that did not reach the proxy leaves the thread on screen.
KeepLastGood(next) ==
    IF next.conv = None /\ shown.conv # None /\ ~next.running
    THEN [shown EXCEPT !.running = FALSE] ELSE next

\* The load is over: another thread starts over.
Show(next) ==
    /\ shown' = IF page.at # shown.at THEN next ELSE KeepLastGood(next)
    /\ page' = [page EXCEPT !.pc = "idle", !.list = <<>>]

\* The reader opens a thread of the list, which a load at that moment would show.
Open ==
    /\ page.pc = "idle" /\ up
    /\ \E thread \in Threads(ToSet(ring), FALSE) :
        page' = [page EXCEPT !.pc = "list", !.at = Address(thread)]
    /\ UNCHANGED <<ring, run, turns, up, shown>>

\* Every 2.5 s, while the page is visible.
Poll ==
    /\ page.pc = "idle" /\ page.at # None
    /\ page' = [page EXCEPT !.pc = "list"] /\ UNCHANGED <<ring, run, turns, up, shown>>

\* getProxyTraffic(): the list without bodies, or nothing.
List ==
    /\ page.pc = "list" /\ UNCHANGED <<ring, run, turns, up>>
    /\ LET there == {t \in Threads(ToSet(ring), FALSE) : Address(t) = page.at}
       IN IF up /\ there # {}
          THEN /\ page.loads < MaxLoads
               /\ page' = [page EXCEPT !.pc = "bodies", !.list = SetToSeq(CHOOSE t \in there : TRUE),
                                       !.loads = @ + 1]
               /\ UNCHANGED shown
          ELSE Show([Nowhere EXCEPT !.running = up, !.at = page.at])

\* getProxyTrafficEntries(): one call for each id; an id that has left the ring is answered 404,
\* which the client throws, and the whole list of bodies is given up.
Bodies ==
    LET ids == {page.list[i].id : i \in DOMAIN page.list}
        kept == IF up THEN ids \cap {ring[i].id : i \in DOMAIN ring} ELSE {}
        read == IF kept = ids THEN ids ELSE {}
    IN /\ page.pc = "bodies" /\ UNCHANGED <<ring, run, turns, up>>
       /\ Show([running |-> TRUE, conv |-> ids, bodies |-> read, at |-> page.at])

Next ==
    \/ \E r \in Run : Turn(r) \/ Screen(r) \/ Compact(r)
    \/ StopStart \/ Open \/ Poll \/ List \/ Bodies

Spec == Init /\ [][Next]_vars
-----------------------------------------------------------------------------
(* Properties *)

(* Turns that answer tool calls stay together: of two buffered exchanges of one run that were sent
   on the same context and both resend tool calls, however many, each finds the other in its
   thread, and no thread ever holds exchanges of two runs (claudeTrafficParser.ts:247-251).       *)
ToolTurnsStayTogether ==
    LET entries == ToSet(ring)
    IN \A a \in entries :
        LET thread == ThreadOf(a, entries, FALSE)
        IN /\ \A b \in thread : b.run = a.run
           /\ \A b \in entries :
                b.run = a.run /\ b.epoch = a.epoch /\ a.asked # <<>> /\ b.asked # <<>> => b \in thread

(* "a poll that brings nothing back never overwrites data the reader is looking at"
   (threadView.ts:7-8): a thread leaves the screen only for another one, or when the proxy itself
   said that it is not buffered.                                                                  *)
LeavesOnlyForCause ==
    shown.conv # None /\ shown'.conv = None => shown'.at # shown.at \/ (up /\ shown'.running)

(* "Request facts, byte counts and the conversation grouping all survive" (store.server.ts:580-581):
   the list without bodies has the threads that the buffered exchanges have.                      *)
GroupingSurvives == Threads(ToSet(ring), FALSE) = Threads(ToSet(ring), TRUE)
=============================================================================

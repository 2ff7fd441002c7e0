---------------------------- MODULE StreamReading ----------------------------
(* What the proxy's inspection says of one answer of the messages API
   (adapters/src/providers/claudeTrafficParser.ts).  The same message may come as one JSON object
   or as a stream of events, of which the capture keeps a prefix: its cap cuts it, the connection
   may end early, the API may fail in the middle.  The two readings share no code.               *)
EXTENDS Naturals, Sequences, SequencesExt

CONSTANTS
    None,
    Blocks,       \* the content of the messages: sequences of [type, input]
    StartUsage,   \* what message_start may say of the usage
    DeltaUsage,   \* what message_delta may say of it
    MaxCalls      \* MAX_TOOL_CALLS

Field == {"in", "flat", "hour", "read", "out"}   \* the counters on the wire

VARIABLES
    message,  \* the message: its content and the usage its two events carry
    kept,     \* how many of the events the capture kept
    open,     \* more events may be kept
    accum     \* what the stream's reading accumulated

vars == <<message, kept, open, accum>>
-----------------------------------------------------------------------------
(* Usage *)

OrElse(a, b) == IF a # None THEN a ELSE b
OrZero(a) == OrElse(a, 0)

WithTotal(u) ==
    [in |-> u.in, create |-> u.create, read |-> u.read, out |-> u.out,
     total |-> IF {u.in, u.create, u.read} = {None} THEN None
               ELSE OrZero(u.in) + OrZero(u.create) + OrZero(u.read)]

NoUsage == WithTotal([in |-> None, create |-> None, read |-> None, out |-> None])

\* readUsage(): the newer cache_creation object counts where the flat counter is absent.
ReadUsage(wire) ==
    WithTotal([in |-> wire.in, read |-> wire.read, out |-> wire.out,
               create |-> OrElse(wire.flat, IF wire.hour = 0 THEN None ELSE wire.hour)])

\* mergeUsage(): field by field, and the total anew.
MergeUsage(base, over) == WithTotal([f \in {"in", "create", "read", "out"} |-> OrElse(over[f], base[f])])
-----------------------------------------------------------------------------
(* The message and its events *)

IsThinking(b) == b.type \in {"thinking", "redacted_thinking"}
IsTool(b) == b.type = "tool_use"

\* The events of the block at an index: its start, and a delta where it has content.
EventsOf(i, b) ==
    <<[type |-> "start", index |-> i, block |-> b]>> \o
    IF b.type # "redacted_thinking" /\ b.input THEN <<[type |-> "delta", index |-> i, block |-> b]>> ELSE <<>>

Events(m) ==
    <<[type |-> "message_start", usage |-> m.start]>>
    \o FlattenSeq([i \in DOMAIN m.content |-> EventsOf(i, m.content[i])])
    \o <<[type |-> "message_delta", usage |-> m.delta], [type |-> "message_stop"]>>

Fresh == [usage |-> NoUsage, stop |-> FALSE, complete |-> FALSE, error |-> FALSE, order |-> <<>>,
          toolUses |-> <<>>, buckets |-> <<>>, chars |-> 0, thinking |-> 0]

\* Once in the order of first appearance.
Noted(order, x) == IF x \in ToSet(order) THEN order ELSE Append(order, x)

\* bucket(): the call of the block at an index, made on first use.  Blocks come one after the other,
\* so that the buckets are in the order of their indices.
Bucket(buckets, call) ==
    IF \E i \in DOMAIN buckets : buckets[i].index = call.index THEN buckets ELSE Append(buckets, call)

\* content_block_delta: text is joined, thinking is measured; a fragment of a tool's input goes to
\* its bucket, also for a server tool, whose start opened none.
FeedDelta(a, e) ==
    IF e.block.type = "thinking" THEN [a EXCEPT !.chars = @ + 1]
    ELSE IF e.block.type = "text" THEN a
    ELSE [a EXCEPT !.buckets = Bucket(@, [index |-> e.index, named |-> FALSE])]

FeedStart(a, e) ==
    LET noted == [a EXCEPT !.order = Noted(@, e.block.type)]
    IN IF IsTool(e.block)
       THEN [noted EXCEPT !.toolUses = Append(@, e.index),
                          !.buckets = Bucket(@, [index |-> e.index, named |-> TRUE])]
       ELSE IF IsThinking(e.block) THEN [noted EXCEPT !.thinking = @ + 1] ELSE noted

\* feedSseEvent()
FeedSseEvent(a, e) ==
    CASE e.type = "message_start" -> [a EXCEPT !.usage = MergeUsage(@, ReadUsage(e.usage))]
      [] e.type = "start" -> FeedStart(a, e)
      [] e.type = "delta" -> FeedDelta(a, e)
      [] e.type = "message_delta" -> [a EXCEPT !.usage = MergeUsage(@, ReadUsage(e.usage)), !.stop = TRUE]
      [] e.type = "message_stop" -> [a EXCEPT !.complete = TRUE]
      [] e.type = "error" -> [a EXCEPT !.error = TRUE]

Capped(calls) == SubSeq(calls, 1, IF Len(calls) < MaxCalls THEN Len(calls) ELSE MaxCalls)

\* summarizeAccum() and assembleToolCalls()
Summary(a) ==
    IF a.error THEN [kind |-> "error", complete |-> TRUE]
    ELSE [kind |-> "message", usage |-> a.usage, stop |-> a.stop, complete |-> a.complete,
          order |-> a.order, toolUses |-> a.toolUses, toolCalls |-> Capped(a.buckets),
          chars |-> a.chars, thinking |-> a.thinking]

\* parseMessageObject(), on the same message as one object: each counter as last stated.
ParseMessageObject(m) ==
    LET at(Is(_)) == SelectSeq([i \in DOMAIN m.content |-> i], LAMBDA i : Is(m.content[i]))
    IN [kind |-> "message",
        usage |-> ReadUsage([f \in Field |-> OrElse(m.delta[f], m.start[f])]),
        stop |-> TRUE, complete |-> TRUE,
        order |-> FoldLeft(LAMBDA o, b : Noted(o, b.type), <<>>, m.content),
        toolUses |-> at(IsTool),
        toolCalls |-> [k \in DOMAIN Capped(at(IsTool)) |-> [index |-> at(IsTool)[k], named |-> TRUE]],
        chars |-> Len(at(LAMBDA b : b.type = "thinking" /\ b.input)),
        thinking |-> Len(at(IsThinking))]
-----------------------------------------------------------------------------
Init ==
    /\ message \in [content : Blocks, start : StartUsage, delta : DeltaUsage]
    /\ kept = 0 /\ open = TRUE /\ accum = Fresh

TypeOK ==
    /\ message.content \in Blocks /\ kept \in 0..Len(Events(message)) /\ open \in BOOLEAN
    /\ DOMAIN accum = DOMAIN Fresh /\ DOMAIN accum.usage = DOMAIN NoUsage

\* The next event is kept whole.
Keep ==
    /\ open /\ kept < Len(Events(message))
    /\ kept' = kept + 1 /\ accum' = FeedSseEvent(accum, Events(message)[kept + 1])
    /\ UNCHANGED <<message, open>>

\* The API fails in the middle: an error event, and the stream ends.
Fail ==
    /\ open /\ kept > 0 /\ kept < Len(Events(message))
    /\ accum' = FeedSseEvent(accum, [type |-> "error"]) /\ open' = FALSE
    /\ UNCHANGED <<message, kept>>

\* The cap is reached or the connection ends; half an event parses as nothing.
Cut == open /\ open' = FALSE /\ UNCHANGED <<message, kept, accum>>

Next == Keep \/ Fail \/ Cut

Spec == Init /\ [][Next]_vars
-----------------------------------------------------------------------------
(* A kept prefix of a stream never claims more than the message: it is not complete before its
   last event, its tools are the first of the message's and each figure it gives is one the message
   gave.  The whole stream reads as the message would, sent as one object (the calls only where
   no server tool took part: its input makes a call without a name).                             *)
StreamReadsLikeMessage ==
    LET read == Summary(accum)
        whole == ParseMessageObject(message)
        alike == {"usage", "stop", "order", "toolUses", "chars", "thinking"}
    IN read.kind = "message" =>
        /\ read.complete <=> kept = Len(Events(message))
        /\ read.complete => \A f \in alike : read[f] = whole[f]
        /\ IsPrefix(read.toolUses, whole.toolUses)
        /\ (\A i \in DOMAIN message.content : message.content[i].type # "server_tool_use") =>
            IsPrefix(read.toolCalls, whole.toolCalls)
        /\ \A f \in {"in", "read", "out"} : read.usage[f] \in {None, message.start[f], message.delta[f]}
        /\ read.usage.total = WithTotal(read.usage).total
=============================================================================

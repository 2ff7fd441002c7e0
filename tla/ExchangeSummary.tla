--------------------------- MODULE ExchangeSummary ---------------------------
(* What the inspection says of the exchanges of one conversation: the facts read from the whole
   request as it is traced (server.ts, makeTracer), the bodies a cap cuts, the reading of both by
   Claude's parser or, on a path it does not claim, by shape alone (claudeTrafficParser.ts,
   trafficSummary.ts), the line about the account, and the sums over the conversation.  A sentence
   is a tag; a reply's stream is its start, its tool calls, its final delta and its end, and how its
   events are read is StreamReading's subject, who is in a conversation TrafficReport's.          *)
EXTENDS Naturals, Sequences, FiniteSets, SequencesExt

CONSTANTS
    Exchanges,  \* [path, request, reply]: what the client asks and an upstream would answer
    Account,
    None,
    MaxShown,   \* MAX_PREVIEW_MESSAGES
    MaxTurns    \* bound on the exchanges

VARIABLES
    log,     \* the exchanges as they were traced
    bodies   \* whether they are read with the kept bodies

vars == <<log, bodies>>

Init == log = <<>> /\ bodies = TRUE
TypeOK ==
    /\ bodies \in BOOLEAN /\ Len(log) <= MaxTurns
    /\ \A i \in DOMAIN log : /\ log[i].reqBody \in {"whole", "cut", None}
                             /\ ToSet(log[i].hops) \subseteq Account /\ log[i].answered \in BOOLEAN
-----------------------------------------------------------------------------
(* The request *)

Blocks(r) == FlattenSeq(r.messages)
Results(r) == SelectSeq(Blocks(r), LAMBDA b : b.type = "tool_result")

\* parseRequestObject() and previewMessages(), of a request that is an object; any other has no facts.
Facts(r) ==
    IF ~r.json THEN [model |-> None]
    ELSE [model |-> r.model, messages |-> Len(r.messages), hidden |-> Len(r.messages) > MaxShown,
          results |-> Len(Results(r)), errors |-> Len(SelectSeq(Results(r), LAMBDA b : b.error)),
          breakpoints |-> Len(SelectSeq(Blocks(r), LAMBDA b : b.cached)) + r.systemBreakpoints,
          tools |-> r.tools]

\* parseRequest(): the facts that were read before the cap, else those of the body if it parses.
\* Without a parser nothing is read of a body.
ParseRequest(e) ==
    CASE e.facts # None -> e.facts
      [] e.reqBody = None -> None
      [] e.claimed /\ e.reqBody = "whole" -> Facts(e.sent)
      [] OTHER -> [model |-> None]

\* isPolicyScreen(): the security monitor's prompt over one message, a transcript.
IsPolicyScreen(e) == e.reqBody = "whole" /\ e.sent.json /\ e.sent.monitor /\ Len(e.sent.messages) = 1
-----------------------------------------------------------------------------
(* The reply *)

\* How many calls of a reply of which n events were kept can be read.
CallsKept(p, n) == SubSeq(p.calls, 1, IF n <= Len(p.calls) THEN n - 1 ELSE Len(p.calls))
Events(p) == IF p.sort = "stream" THEN Len(p.calls) + 3 ELSE 1
NoTokens == [in |-> 0, cached |-> 0, out |-> 0]

\* parseSseResponse(), of its first n events; an error in the stream ends it.
ReadStream(p, n) ==
    LET final == n >= Len(p.calls) + 2
    IN IF n = 0 THEN [kind |-> "text"]
       ELSE IF p.broken /\ n > 1 THEN [kind |-> "error"]
       ELSE [kind |-> "sse-stream", complete |-> n = Events(p), calls |-> CallsKept(p, n), text |-> p.text,
             tokens |-> IF final THEN p.tokens ELSE [p.tokens EXCEPT !.out = 0],
             stop |-> IF final THEN p.stop ELSE None]

\* parseJsonResponse(), of a body that is whole: a count is one on its path only.
ReadJson(p, path) ==
    CASE p.sort = "count" /\ path = "count" -> [kind |-> "json", is |-> "count", tokens |-> p.tokens]
      [] p.sort = "error" -> [kind |-> "error"]
      [] p.sort = "message" -> [kind |-> "json", is |-> "message", complete |-> TRUE, calls |-> p.calls,
                                text |-> p.text, tokens |-> p.tokens, stop |-> p.stop]
      [] p.sort = "list" -> [kind |-> "json", is |-> "list"]
      [] OTHER -> [kind |-> "json", is |-> "shape"]

\* parseResponse(), or without a parser fallbackResponse(), which knows errors and lists alone and
\* no end of a stream.
ParseResponse(e) ==
    LET n == e.resEvents
    IN CASE ~e.answered \/ e.got.sort = "empty" -> [kind |-> "empty"]
         [] n = None -> None
         [] e.got.sort = "stream" /\ e.claimed -> ReadStream(e.got, n)
         [] e.got.sort = "stream" -> IF n = 0 THEN [kind |-> "text"]
                                     ELSE [kind |-> "sse-stream", complete |-> FALSE]
         [] n = 0 -> [kind |-> "text"]
         [] e.claimed -> ReadJson(e.got, e.path)
         [] OTHER -> IF e.got.sort \in {"error", "list"} THEN ReadJson(e.got, e.path)
                     ELSE [kind |-> "json", is |-> "shape"]

IsMessage(res) == res # None /\ "calls" \in DOMAIN res
Names(calls) == {calls[i].name : i \in DOMAIN calls}
Launching(c) == c.name \in {"Task", "Agent"}

\* responseLaunches(): in a stream, a broken one as well, the types are those of all the inputs, dealt
\* out in order.
Launches(e) ==
    LET n == e.resEvents
        calls == IF n = None \/ n = 0 THEN <<>> ELSE IF e.got.sort = "stream" THEN CallsKept(e.got, n) ELSE e.got.calls
        mine == SelectSeq(calls, Launching)
        types == SelectSeq([i \in DOMAIN calls |-> calls[i].agent], LAMBDA a : a # None)
    IN IF e.got.sort # "stream" THEN mine
       ELSE [i \in DOMAIN mine |-> [mine[i] EXCEPT !.agent = IF i \in DOMAIN types THEN types[i] ELSE None]]

\* detectRole(), of an exchange whose reply launches `made`.
Role(e, made) ==
    LET agents == {made[i].agent : i \in DOMAIN made} \ {None}
    IN CASE ~e.claimed -> None
         [] IsPolicyScreen(e) -> [kind |-> "policy-check"]
         [] made # <<>> -> [kind |-> "agent-launch", detail |-> IF agents = {} THEN {made[1].name} ELSE agents]
         [] OTHER -> None
-----------------------------------------------------------------------------
(* The headline and the sentences *)

\* verdict(): the conclusion, whether the output cap was hit and whether most of the input was cached.
Verdict(res, role) ==
    LET said(what, names) == [says |-> what, names |-> names, capped |-> res.stop = "max_tokens",
                              reused |-> res.tokens.in > 0 /\ 2 * res.tokens.cached >= res.tokens.in]
        plain(what) == [says |-> what]
    IN CASE role # None /\ role.kind = "policy-check" -> plain("screened")
         [] res = None -> None
         [] res.kind \in {"error", "empty", "text"} -> plain(res.kind)
         [] res.kind = "json" /\ res.is = "list" -> plain("listed")
         [] res.kind = "json" /\ res.is = "count" -> plain("measured")
         [] IsMessage(res) /\ res.calls # <<>> -> said("ran", Names(res.calls))
         [] IsMessage(res) /\ res.text -> said("replied", {})
         [] OTHER -> plain("no text")

When(condition, sentence) == IF condition THEN <<sentence>> ELSE <<>>

\* explainClaude(): the request, the reply and what is remarkable about them.
Explain(e, req, res) ==
    <<CASE req # None /\ req.model # None -> "asked"
        [] req # None -> "no JSON"
        [] OTHER -> "sent">>
    \o <<CASE res = None -> "reply not kept"
           [] res.kind = "sse-stream" -> "streamed"
           [] res.kind = "json" -> res.is
           [] OTHER -> res.kind>>
    \o When(IsMessage(res) /\ ~res.complete, IF e.cut THEN "kept in part" ELSE "cut off")
    \o When(req # None /\ "breakpoints" \in DOMAIN req /\ req.breakpoints > 0, "breakpoints")
    \o When(IsMessage(res) /\ res.calls # <<>>, "calls")

\* fallbackSummary()
ExplainShape(res) == <<"unclaimed">> \o When(res # None /\ res.kind \in {"sse-stream", "json", "error"}, res.kind)

\* routingBullet()
Routing(e) ==
    IF e.account = None THEN "never went upstream" ELSE IF Len(e.hops) > 1 THEN "failed over" ELSE "signed"

\* summarizeTrafficEntry(), of what the parser or the shape alone says: the routing comes second, and
\* where the proxy answered itself nothing is said of a reply.
Told(e, inner) ==
    IF e.account = None THEN <<Head(inner), Routing(e), "from the proxy itself">> ELSE InsertAt(inner, 2, Routing(e))

\* summarize(), of a request, a reply and a role that have been read.
Summary(e, req, res, role) ==
    [request |-> req, response |-> res, role |-> role,
     headline |-> IF e.account = None THEN [says |-> "never reached"]
                  ELSE IF e.claimed THEN Verdict(res, role) ELSE None,
     explanation |-> Told(e, IF ~e.claimed THEN ExplainShape(res)
                             ELSE When(role # None /\ role.kind = "policy-check", "screen") \o Explain(e, req, res)
                                  \o When(role # None /\ role.kind = "agent-launch", "launched"))]
Summarize(e) == Summary(e, ParseRequest(e), ParseResponse(e), Role(e, Launches(e)))

\* The entry as a list without bodies has it (omitBodies): the facts of the request survive.
Seen(e) == IF bodies THEN e ELSE [e EXCEPT !.reqBody = None, !.resEvents = None]

\* groupTrafficConversations(): the sums over one conversation, with the summary of its exchange i.
NoSums == [input |-> 0, output |-> 0, cached |-> 0, models |-> <<>>, tools |-> {}, checks |-> <<>>, launches |-> <<>>]
Counted(res) == IF res # None /\ "tokens" \in DOMAIN res THEN res.tokens ELSE NoTokens
ToolsOf(req, res) ==
    (IF IsMessage(res) THEN Names(res.calls) ELSE {}) \cup (IF req # None /\ "tools" \in DOMAIN req THEN req.tools ELSE {})

AddTurn(c, i, s, t) ==
    LET model == IF s.request # None THEN s.request.model ELSE None
    IN [input |-> c.input + t.in, output |-> c.output + t.out, cached |-> c.cached + t.cached,
        models |-> IF model = None \/ model \in ToSet(c.models) THEN c.models ELSE Append(c.models, model),
        tools |-> c.tools \cup ToolsOf(s.request, s.response),
        checks |-> c.checks \o When(s.role # None /\ s.role.kind = "policy-check", i),
        launches |-> c.launches \o When(s.role # None /\ s.role.kind = "agent-launch", i)]
Conversation(summaries) ==
    FoldLeft(LAMBDA c, i : AddTurn(c, i, summaries[i], Counted(summaries[i].response)),
             NoSums, [i \in DOMAIN summaries |-> i])
-----------------------------------------------------------------------------
(* Tracing *)

\* trace(): the facts are read of a whole body that is not too large, on a claimed path; then both
\* bodies are capped.  A reply may end early of itself as well.
Trace(x, account, hops, answered, small, reqBody, n, cut) ==
    /\ Len(log) < MaxTurns /\ UNCHANGED bodies
    /\ log' = Append(log, [path |-> x.path, claimed |-> x.path # "elsewhere", sent |-> x.request, got |-> x.reply,
                           facts |-> IF small /\ x.path # "elsewhere" THEN Facts(x.request) ELSE None,
                           reqBody |-> reqBody, account |-> account, hops |-> hops, answered |-> answered,
                           resEvents |-> n, cut |-> cut])

\* The accounts that were tried: none, one, or one after the other.
Tried == {h \in UNION {[1..n -> Account] : n \in 0..2} : IsInjective(h)}

\* The answer of the last one went to the client.
Served ==
    \E x \in Exchanges, hops \in Tried, small \in BOOLEAN, reqBody \in {"whole", "cut"}, n \in 0..6, cut \in BOOLEAN :
        /\ hops # <<>> /\ n <= Events(x.reply) /\ (cut => n < Events(x.reply))
        /\ (n < Events(x.reply) /\ x.reply.sort # "stream") => cut
        /\ (n = 0 => cut) /\ (x.reply.sort = "empty" => n = 1)
        /\ Trace(x, Last(hops), hops, TRUE, small, reqBody, n, cut)

\* The client went away, before an answer or in it; no reply is kept.
Aborted ==
    \E x \in Exchanges, account \in Account, hops \in Tried, answered, small \in BOOLEAN :
        Trace(x, account, hops, answered, small, "whole", None, FALSE)

\* No account could take it, whatever was tried: the proxy answered itself.
Unserved ==
    \E x \in Exchanges, hops \in Tried, small \in BOOLEAN, reqBody \in {"whole", "cut"} :
        Trace(x, None, hops, FALSE, small, reqBody, None, FALSE)

\* The same exchanges are read as a list, without their bodies, or one by one.
Look == bodies' = ~bodies /\ UNCHANGED log

Next == Served \/ Aborted \/ Unserved \/ Look

Spec == Init /\ [][Next]_vars
-----------------------------------------------------------------------------
(* Properties *)

Whole(e) == e.resEvents # None /\ e.resEvents = Events(e.got)
Rejected(e) == e.got.sort = "error" \/ e.got.broken

\* What no account answered "never reached" an upstream, and nothing is said of a reply then ("a
\* self-answered status overrides any provider verdict", trafficSummary.ts:361); a rejection that was
\* kept is told, in the headline and in the sentences, a screen's excepted.
ClaimsAreTrue(e, h, says, role) ==
    /\ (h # None /\ h.says = "never reached") <=> e.account = None
    /\ e.account = None => says \cap {"empty", "text", "error", "streamed", "message", "launched"} = {}
    /\ e.account # None /\ e.claimed /\ role = None => (("error" \in says) <=> (h # None /\ h.says = "error"))
    /\ "error" \in says => Rejected(e)
    /\ Whole(e) /\ e.claimed /\ Rejected(e) => "error" \in says
    /\ says \cap {"cut off", "kept in part"} # {} => ~Whole(e)

\* The tools and agents that are named are the reply's, the facts are the request's.
NamesAreTrue(e, h, role, req) ==
    /\ h # None /\ h.says = "ran" =>
        /\ h.names \subseteq Names(e.got.calls) /\ (Whole(e) => h.names = Names(e.got.calls))
        /\ h.capped => e.got.stop = "max_tokens"
    /\ h # None /\ h.says = "measured" => e.path = "count"
    /\ role # None /\ role.kind = "agent-launch" =>
        /\ \E c \in ToSet(e.got.calls) : Launching(c)
        /\ role.detail \subseteq {c.agent : c \in ToSet(e.got.calls)} \cup {"Task", "Agent"}
    /\ e.facts # None => req = Facts(e.sent)
    /\ req # None => req.model \in {None, e.sent.model}

\* Without the bodies less is said and nothing else.
SaysLess(h, full) == h \in {None, full.headline} \/ (full.role # None /\ h.says = "empty")

SummaryIsTrue(e, s, full) ==
    /\ ClaimsAreTrue(e, s.headline, ToSet(s.explanation), s.role)
    /\ NamesAreTrue(e, s.headline, s.role, s.request) /\ SaysLess(s.headline, full)

\* The sums of a conversation never exceed what its upstreams stated.
Stated(f) == FoldLeft(LAMBDA n, e : IF e.answered THEN n + e.got.tokens[f] ELSE n, 0, log)
SumsAreStated(conv) ==
    /\ conv.input <= Stated("in") /\ conv.output <= Stated("out") /\ conv.cached <= conv.input
    /\ conv.tools \subseteq UNION {log[i].sent.tools \cup Names(log[i].got.calls) : i \in DOMAIN log}
    /\ \A i \in ToSet(conv.launches) : log[i].answered

(* A summary never says of a reply what it was not, nor a conversation more than its exchanges do,
   whatever a cap, a broken stream or a list without bodies has taken off (trafficSummary.ts).     *)
SummarySaysWhatHappened ==
    /\ \A i \in DOMAIN log : SummaryIsTrue(Seen(log[i]), Summarize(Seen(log[i])), Summarize(log[i]))
    /\ SumsAreStated(Conversation([i \in DOMAIN log |-> Summarize(Seen(log[i]))]))
=============================================================================

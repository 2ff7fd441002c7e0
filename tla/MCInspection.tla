---------------------------- MODULE MCInspection ----------------------------
(* Six parts of the inspection of traffic that share no variable, of which a behaviour is in one: the
   ring and the traffic store (the module extended here), the reports, the reading of a streamed
   answer, the summaries of exchanges, the page of a conversation, and the reading of a session's
   files.                                                                                         *)
EXTENDS TrafficLog, TLC

CONSTANTS None, pa, pb,
          acct, other, ma, mb, route, refused, k1, k2, k3,   \* of the reports
          ra, rb,                                            \* of the page
          w1, w2, a1, a2, a3                                 \* of the session's files
VARIABLES
    part,
    exchanges, filter, buffer,                           \* TrafficReport
    message, kept, open, accum,                          \* StreamReading
    log, bodies,                                         \* ExchangeSummary
    entries, run, turns, up, page, shown,                \* ThreadPage
    lines, half, journal, metas, reader, context         \* SessionFiles

reportVars == <<exchanges, filter, buffer>>
streamVars == <<message, kept, open, accum>>
summaryVars == <<log, bodies>>
pageVars == <<entries, run, turns, up, page, shown>>
sessionVars == <<lines, half, journal, metas, reader, context>>
mcVars == <<part, vars, reportVars, streamVars, summaryVars, pageVars, sessionVars>>

\* The second request failed over once.
HopsMade == [e \in Request |-> IF e = 2 THEN 2 ELSE 1]
-----------------------------------------------------------------------------
(* A stored exchange: a plain one, one a route claimed and that failed, one without usage, and one
   that failed before an account or a model was known.                                           *)
Stored(a, m, upstream, r, ms, ts, count, status, error) ==
    [account |-> a, model |-> m, upstream |-> upstream, route |-> r, ms |-> ms, ts |-> ts,
     tokens |-> count, status |-> status, error |-> error]
SomeExchanges ==
    {Stored(acct, ma, None, None, 10, 1, 5, 200, None), Stored(acct, ma, mb, route, 30, 2, 7, 429, refused),
     Stored(other, mb, None, route, 20, 3, None, 200, None), Stored(None, None, None, None, 5, 2, None, 502, refused)}
Asking(a, m, since, until, errors) == [account |-> a, model |-> m, since |-> since, until |-> until, errors |-> errors]
SomeFilters ==
    {Asking(None, None, None, None, FALSE), Asking(acct, None, 1, 3, FALSE), Asking(None, mb, None, None, FALSE),
     Asking(None, None, 2, None, TRUE)}
Report == INSTANCE TrafficReport
          WITH Exchanges <- SomeExchanges, Filters <- SomeFilters, PriceOf <- ma :> 3 @@ mb :> None,
               MaxRows <- 4, TurnKeys <- {<<>>, <<k1>>, <<k2>>, <<k1, k2>>, <<k3, k1>>, <<k2, k3>>},
               MaxTurns <- 4, KeyCap <- 2, turns <- buffer

\* The answers of up to three blocks of every kind; usage in the old and the new form.
Kind == [type : {"text", "thinking", "redacted_thinking", "tool_use", "server_tool_use"}, input : {TRUE}]
        \cup {[type |-> "tool_use", input |-> FALSE]}
Used(i, f, h, r, o) == [in |-> i, flat |-> f, hour |-> h, read |-> r, out |-> o]
Stream == INSTANCE StreamReading
          WITH MaxCalls <- 2, Blocks <- UNION {[1..n -> Kind] : n \in 0..3},
               StartUsage <- {Used(3, None, None, None, 1), Used(3, 2, None, 1, 1), Used(3, None, 2, 0, 1)},
               DeltaUsage <- {Used(None, None, None, None, 5), Used(3, 2, None, 1, 5), Used(3, None, 2, None, 5)}

\* A stream that launches two agents, of which one names its type; a stream that breaks; a safety screen,
\* answered and refused; one object with an agent; a token count; the list of models; an unclaimed path.
Asked(json, model, messages, monitor, tools) ==
    [json |-> json, model |-> model, messages |-> messages, monitor |-> monitor, tools |-> tools, systemBreakpoints |-> 1]
Work ==
    LET block(type, cached, error) == [type |-> type, cached |-> cached, error |-> error]
    IN Asked(TRUE, ma, <<<<block("text", TRUE, FALSE)>>, <<block("tool_result", FALSE, TRUE)>>>>, FALSE, {"Bash"})
Monitor == [Work EXCEPT !.model = mb, !.messages = <<@[1]>>, !.monitor = TRUE, !.tools = {}]
Bare == Asked(FALSE, None, <<>>, FALSE, {})
Reply(sort, calls, stop, broken, in, cached, out) ==
    [sort |-> sort, calls |-> calls, text |-> calls = <<>>, stop |-> stop, broken |-> broken,
     tokens |-> [in |-> in, cached |-> cached, out |-> out]]
Tool(name, agent) == [name |-> name, agent |-> agent]
Sent(path, request, reply) == [path |-> path, request |-> request, reply |-> reply]
SomeReplies ==
    {Sent("messages", Work, Reply("stream", <<Tool("Task", None), Tool("Task", "Explore")>>, "tool_use", FALSE, 4, 2, 3)),
     Sent("messages", Work, Reply("stream", <<Tool("Bash", None)>>, "end", TRUE, 3, 1, 1)),
     Sent("messages", Monitor, Reply("message", <<>>, "max_tokens", FALSE, 2, 0, 1)),
     Sent("messages", Monitor, Reply("error", <<>>, None, FALSE, 0, 0, 0)),
     Sent("messages", Work, Reply("message", <<Tool("Agent", "Plan"), Tool("Bash", None)>>, "max_tokens", FALSE, 2, 1, 2)),
     Sent("count", Work, Reply("count", <<>>, None, FALSE, 5, 0, 0)),
     Sent("models", Bare, Reply("list", <<>>, None, FALSE, 0, 0, 0)),
     Sent("elsewhere", Bare, Reply("error", <<>>, None, FALSE, 0, 0, 0))}
Summary == INSTANCE ExchangeSummary
           WITH Exchanges <- SomeReplies, Account <- {acct}, MaxShown <- 1, MaxTurns <- 2

\* Two runs of Claude Code whose contexts outgrow the cap on keys and whose exchanges the ring.
Page == INSTANCE ThreadPage
        WITH Run <- {ra, rb}, KeyCap <- 1, RingSize <- 2, MaxTurns <- 3, MaxLoads <- 1, ring <- entries

\* Two workflows, one with two agents, and room for two of three.
Session == INSTANCE SessionFiles
           WITH Agent <- {a1, a2, a3}, Workflows <- <<w1, w2>>, WorkflowOf <- a1 :> w1 @@ a2 :> w2 @@ a3 :> w2,
                HeadLines <- 1, MaxAgents <- 2, MaxLines <- 2, MaxRecords <- 3, MaxReads <- 2
-----------------------------------------------------------------------------
\* The parts that are not looked at rest in one of their initial states.
MCInit ==
    /\ part \in {"log", "report", "stream", "summary", "page", "session"}
    /\ Init /\ Report!Init /\ Stream!Init /\ Summary!Init /\ Page!Init /\ Session!Init
    /\ part # "log" => \A p \in Proxy : size[p] = 1
    /\ part # "report" => filter = Asking(None, None, None, None, FALSE)
    /\ part # "stream" => message.content = <<>> /\ message.start.flat = 2 /\ message.delta.flat = 2

MCNext ==
    /\ \/ part = "log" /\ Next /\ UNCHANGED <<reportVars, streamVars, summaryVars, pageVars, sessionVars>>
       \/ part = "report" /\ Report!Next /\ UNCHANGED <<vars, streamVars, summaryVars, pageVars, sessionVars>>
       \/ part = "stream" /\ Stream!Next /\ UNCHANGED <<vars, reportVars, summaryVars, pageVars, sessionVars>>
       \/ part = "summary" /\ Summary!Next /\ UNCHANGED <<vars, reportVars, streamVars, pageVars, sessionVars>>
       \/ part = "page" /\ Page!Next /\ UNCHANGED <<vars, reportVars, streamVars, summaryVars, sessionVars>>
       \/ part = "session" /\ Session!Next /\ UNCHANGED <<vars, reportVars, streamVars, summaryVars, pageVars>>
    /\ UNCHANGED part

MCSpec == MCInit /\ [][MCNext]_mcVars
MCSymmetry == Permutations(Proxy) \cup Permutations({ra, rb})
-----------------------------------------------------------------------------
(* Every part stays within its types, control points and bounds.                                  *)
TypesOK ==
    /\ part = "log" => TypeOK
    /\ part = "report" => Report!TypeOK
    /\ part = "stream" => Stream!TypeOK
    /\ part = "summary" => Summary!TypeOK
    /\ part = "page" => Page!TypeOK
    /\ part = "session" => Session!TypeOK

(* What is said of traffic is what was there: the two sources and the totals of a report agree
   (trafficLog.ts), a stream reads as the message it carries (claudeTrafficParser.ts), and a summary
   names what happened (trafficSummary.ts).                                                       *)
ReadingsAgree ==
    /\ part = "report" => Report!ReportsAgree
    /\ part = "stream" => Stream!StreamReadsLikeMessage
    /\ part = "summary" => Summary!SummarySaysWhatHappened

(* A conversation is one run's: its tool turns stay together and no other run's join them
   (claudeTrafficParser.ts), and its session's files are not overstated (sessionContext.ts).      *)
ConversationsAreWhole ==
    /\ part = "page" => Page!ToolTurnsStayTogether
    /\ part = "session" => Session!ContextIsOnDisk

(* What a reader was shown is not taken back by a poll that failed (threadView.ts) or by a later
   reading of files that only grow (sessionContext.ts).                                           *)
ReaderKeepsWhatItRead ==
    [][ /\ part = "page" => Page!LeavesOnlyForCause
        /\ part = "session" => Session!TakesNothingBack ]_mcVars
=============================================================================

----------------------------- MODULE ProxyStart -----------------------------
(* Who owns the proxy port and whose control token is on disk: `swisscode proxy run` and
   `swisscode web` (apps/cli/src/proxy.ts and web.ts over SubscriptionProxy.listen and close),
   and the calls of the CLI and the web UI on the control plane (controlClient.ts).

   All of them use one port and one token file.  Runs are not told of each other: each reads and
   writes the file, tries to bind, and ends in its own time.                                   *)
EXTENDS Naturals

CONSTANTS
    Run, Web,  \* the invocations; those among them that are `swisscode web`
    Call,      \* calls of ProxyControlClient
    None,      \* no token file, nobody on the port
    Foreign    \* something else on the port

VARIABLES
    token,     \* whose token ~/.swisscode/proxy-token holds
    port,      \* who listens: None, Foreign or a run
    accounts,  \* whether the home holds any account
    pc,        \* of each run
    probed,    \* the token a web run read for its probe
    cpc, sent, \* of each call: its step, the token it read
    others,    \* history: the runs whose token another run has replaced
    steady     \* history: the run that has answered since the call began, undisturbed

vars == <<token, port, accounts, pc, probed, cpc, sent, others, steady>>

Reached == {"ok", "rejected", "down", "other"}
PC == {"idle", "probe", "ask", "mint", "count", "listen", "serving", "closing"}
        \cup {"reused", "refused", "aborted", "ended"}

TypeOK ==
    /\ token \in Run \cup {None} /\ port \in Run \cup {None, Foreign} /\ accounts \in BOOLEAN
    /\ pc \in [Run -> PC] /\ probed \in [Run -> Run \cup {None}]
    /\ cpc \in [Call -> {"idle", "fetch"} \cup Reached] /\ sent \in [Call -> Run \cup {None}]
    /\ others \in SUBSET Run /\ steady \in [Call -> Run \cup {None}]
    /\ \A r \in Run : pc[r] = "serving" <=> port = r

Init ==
    /\ token = None /\ port \in {None, Foreign} /\ accounts \in BOOLEAN
    /\ pc = [r \in Run |-> "idle"] /\ probed = [r \in Run |-> None]
    /\ cpc = [c \in Call |-> "idle"] /\ sent = [c \in Call |-> None]
    /\ others = {} /\ steady = [c \in Call |-> None]

Goto(r, step) == pc' = [pc EXCEPT ![r] = step]
Calls == <<cpc, sent, steady>>

\* What the one on the port answers to a request that carries t.  Another
\* server may answer anything; one that refuses the connection reads as none.
Answers(t) ==
    CASE port = None -> {"down"}
      [] port = Foreign -> {"ok", "other", "down"}
      [] OTHER -> {IF t = port THEN "ok" ELSE "rejected"}
-----------------------------------------------------------------------------
(* A run *)

Start(r) ==
    /\ pc[r] = "idle" /\ Goto(r, IF r \in Web THEN "probe" ELSE "mint")
    /\ UNCHANGED <<token, port, accounts, probed, others, Calls>>

\* proxyAlive: a status call.  Only an error that is neither "down" nor
\* "refused" is thrown.
ProbeToken(r) ==
    /\ pc[r] = "probe" /\ Goto(r, "ask") /\ probed' = [probed EXCEPT ![r] = token]
    /\ UNCHANGED <<token, port, accounts, others, Calls>>

Probe(r) ==
    /\ pc[r] = "ask"
    /\ \E a \in Answers(probed[r]) :
          Goto(r, CASE a = "ok" -> "reused" [] a = "other" -> "aborted" [] OTHER -> "mint")
    /\ UNCHANGED <<token, port, accounts, probed, others, Calls>>

\* createProxyToken, before anything else of startOwnedProxy.
Mint(r) ==
    /\ pc[r] = "mint" /\ Goto(r, "count") /\ token' = r
    /\ others' = (others \ {r}) \cup {s \in Run \ {r} : pc[s] \notin {"idle", "probe", "ask", "mint"}}
    /\ steady' = [c \in Call |-> None]
    /\ UNCHANGED <<port, accounts, probed, cpc, sent>>

\* A home with neither kind of account is not served.
Count(r) ==
    /\ pc[r] = "count" /\ Goto(r, IF accounts THEN "listen" ELSE "aborted")
    /\ UNCHANGED <<token, port, accounts, probed, others, Calls>>

\* listen: binds, or throws EADDRINUSE as "something that is not a swisscode proxy".
Listen(r) ==
    /\ pc[r] = "listen"
    /\ IF port = None THEN port' = r /\ Goto(r, "serving") ELSE Goto(r, "refused") /\ UNCHANGED port
    /\ UNCHANGED <<token, accounts, probed, others, Calls>>

\* SIGINT, SIGTERM: the port is free at once, the requests in flight are waited for.
Stop(r) ==
    /\ pc[r] = "serving" /\ Goto(r, "closing") /\ port' = None /\ steady' = [c \in Call |-> None]
    /\ UNCHANGED <<token, accounts, probed, others, cpc, sent>>

Closed(r) ==
    /\ pc[r] = "closing" /\ Goto(r, "ended")
    /\ UNCHANGED <<token, port, accounts, probed, others, Calls>>

\* Killed at any time.
Crash(r) ==
    /\ pc[r] \in {"probe", "ask", "mint", "count", "listen", "serving"} /\ Goto(r, "ended")
    /\ port' = (IF port = r THEN None ELSE port)
    /\ steady' = (IF port = r THEN [c \in Call |-> None] ELSE steady)
    /\ UNCHANGED <<token, accounts, probed, others, cpc, sent>>
-----------------------------------------------------------------------------
(* A call on the control plane *)

\* A bug: the token that the last call read is sent again.
ReadTokenOnce(c) ==
    /\ cpc[c] \in {"idle"} \cup Reached /\ cpc' = [cpc EXCEPT ![c] = "fetch"]
    /\ sent' = [sent EXCEPT ![c] = IF @ = None THEN token ELSE @]
    /\ steady' = [steady EXCEPT ![c] = IF port \in Run \ others THEN port ELSE None]
    /\ UNCHANGED <<token, port, accounts, pc, probed, others>>

\* The token is read for every call, as each run mints another.
ReadToken(c) ==
    /\ cpc[c] \in {"idle"} \cup Reached /\ cpc' = [cpc EXCEPT ![c] = "fetch"]
    /\ sent' = [sent EXCEPT ![c] = token]
    /\ steady' = [steady EXCEPT ![c] = IF port \in Run \ others THEN port ELSE None]
    /\ UNCHANGED <<token, port, accounts, pc, probed, others>>

Fetch(c) ==
    /\ cpc[c] = "fetch" /\ \E a \in Answers(sent[c]) : cpc' = [cpc EXCEPT ![c] = a]
    /\ UNCHANGED <<token, port, accounts, pc, probed, sent, others, steady>>

\* An account is imported, the last one removed; the other server comes and goes (external).
Import == accounts' = ~accounts /\ UNCHANGED <<token, port, pc, probed, others, Calls>>
ForeignMoves ==
    /\ \/ port = None /\ port' = Foreign
       \/ port = Foreign /\ port' = None
    /\ UNCHANGED <<token, accounts, pc, probed, others, Calls>>

Next ==
    \/ \E r \in Run : \/ Start(r) \/ ProbeToken(r) \/ Probe(r) \/ Mint(r) \/ Count(r) \/ Listen(r)
                      \/ Stop(r) \/ Closed(r) \/ Crash(r)
    \/ \E c \in Call : ReadToken(c) \/ Fetch(c)
    \/ Import \/ ForeignMoves

Spec == Init /\ [][Next]_vars
-----------------------------------------------------------------------------
(* Properties *)

(* A call that begins while a run listens is heard, as long as that run goes on listening and no
   other has minted a token since it did (controlClient.ts:9-15, proxy.ts:325-327).             *)
SteadyRunIsHeard == \A c \in Call : cpc[c] \in Reached /\ steady[c] # None => cpc[c] = "ok"
=============================================================================

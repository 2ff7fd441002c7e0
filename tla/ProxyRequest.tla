---------------------------- MODULE ProxyRequest ----------------------------
(***************************************************************************)
(* The proxy's request path: packages/adapters/src/proxy/server.ts         *)
(* (handleApi, resolveBackend, candidates, handleKeyBackend, pipe,         *)
(* cooldown, setActive and the tracer).                                    *)
(*                                                                         *)
(* A request is a slot that serves one client request.  A step ends at an  *)
(* await of the code that reads or writes shared state, so concurrent      *)
(* requests interleave with each other, with the control plane and with    *)
(* the vault.  Whether an account gets a usable token, and whether a 401   *)
(* can be recovered, is FreshCredential's subject: here either may happen. *)
(***************************************************************************)
EXTENDS Naturals, Sequences, FiniteSets, SequencesExt

CONSTANTS
    Account,       \* vault accounts
    Order,         \* Order: the sequence in which accounts.list() names them
    Request,       \* request slots
    None,
    Bindings,      \* what the profile of a request may be bound to
    RetryAfter,    \* cooldowns, in ticks, that a rate-limit answer asks for
    Answers,       \* what upstream may answer, see Status
    SavesFail,     \* saving an adopted credential may fail
    ListFails,     \* reading the vault's directory may fail
    VaultMoves     \* accounts are removed and imported meanwhile

Status == {"ok", "unauthorized", "limited", "error"}
MaxCool == CHOOSE n \in RetryAfter : \A m \in RetryAfter : m <= n

\* A binding is a word, or the account a profile or route is bound to.
Words == {"unknown", "nostore", "any", "plain", "key"}

ASSUME ProxyAssumption ==
    /\ Order \in Seq(Account) /\ ToSet(Order) = Account /\ IsInjective(Order)
    /\ Bindings \subseteq Words \cup Account
    /\ RetryAfter \subseteq Nat \ {0} /\ RetryAfter # {} /\ IsFiniteSet(RetryAfter)
    /\ Answers \subseteq Status \cup {"net"}
    /\ Account \cap Words = {} /\ None \notin Account \cup Words \cup Status
    /\ {SavesFail, ListFails, VaultMoves} \subseteq BOOLEAN

VARIABLES
    stored,    \* accounts the vault holds
    active,    \* activeAccountId
    cool,      \* cooldowns: ticks until each account's cooldown ends
    req        \* per request: control point, locals, what the client and the log saw

vars == <<stored, active, cool, req>>
-----------------------------------------------------------------------------
PC == {"new", "profile", "bound", "list", "token", "wait", "recover", "retry",
       "keyWait", "pipe", "done"}

\* Status codes the proxy makes itself.
Own == {"499", "500", "502", "503", "404"}
Entry == [status : Status \cup Own, account : Account \cup {"key", None}]

\* ids, i: the candidate list and the loop's position in it; last: lastStatus;
\* attempts: what the traffic entry will list; aborted: the abort signal;
\* wire: the status line sent; whole: the response was sent to its end;
\* sends: upstream calls made for the current account; log: entries traced.
New == [pc |-> "new", binding |-> None, ids |-> <<>>, i |-> 0, last |-> "502",
        answer |-> None, attempts |-> <<>>, aborted |-> FALSE, wire |-> None,
        whole |-> FALSE, sends |-> 0, log |-> <<>>]

\* Outcomes of a candidate without an answer of upstream.
Skipped == {"stale-credential", "network-error", "refresh-failed"}

Slot == [pc : PC, binding : Bindings \cup {None}, ids : Seq(Account), i : Nat,
         last : {"502", "limited"}, answer : Status \cup {None},
         attempts : Seq([account : Account \cup {"key"}, status : Status \cup Skipped]),
         aborted : BOOLEAN, wire : Status \cup Own \cup {None}, whole : BOOLEAN,
         sends : Nat, log : Seq(Entry)]

\* Control points at which ids[i] is the account being tried.
Trying == {"token", "wait", "recover", "retry"}

TypeOK ==
    /\ stored \subseteq Account
    /\ active \in Account \cup {None}
    /\ cool \in [Account -> 0..MaxCool]
    /\ req \in [Request -> Slot]
    /\ \A r \in Request : req[r].pc \in Trying => req[r].i \in 1..Len(req[r].ids)

Init ==
    /\ stored \in SUBSET Account
    /\ active \in stored \cup {None}
    /\ cool = [a \in Account |-> 0]
    /\ req = [r \in Request |-> New]

-----------------------------------------------------------------------------
Payer(q) == IF q.binding = "key" THEN "key" ELSE q.ids[q.i]

\* trace(): one entry, and the handler returns.
Trace(q, status, who) ==
    [q EXCEPT !.pc = "done", !.log = Append(@, [status |-> status, account |-> who])]

TraceAborted(q, who) == Trace(q, "499", who)

\* An answer the proxy makes itself; a client that left gets nothing.
Say(q, status) == [q EXCEPT !.wire = IF q.aborted THEN None ELSE status, !.whole = ~q.aborted]
OwnAnswer(q, status, who) == Trace(Say(q, status), status, who)

\* An error that leaves handleApi: listen()'s catch answers 500, nothing is traced.
Escape(q) == [Say(q, "500") EXCEPT !.pc = "done"]

Note(q, what) == [q EXCEPT !.attempts = Append(@, [account |-> Payer(q), status |-> what])]

\* Mutated form of Exhausted: traceAborted without return.
ExhaustedAnyway(q) ==
    IF q.aborted THEN OwnAnswer(TraceAborted(q, None), q.last, None)
    ELSE OwnAnswer(q, q.last, None)

\* The loop is over: answer with the last rate limit, or 502.
Exhausted(q) ==
    IF q.aborted THEN TraceAborted(q, None) ELSE OwnAnswer(q, q.last, None)

\* `continue`: the next candidate.
Continue(q) ==
    IF q.i < Len(q.ids) THEN [q EXCEPT !.i = @ + 1, !.sends = 0, !.pc = "token"]
    ELSE Exhausted(q)

\* fetch() rejects at once when the client is gone already.
Send(q, label) ==
    IF q.aborted THEN TraceAborted(q, Payer(q))
    ELSE [q EXCEPT !.pc = label, !.sends = @ + 1]

\* res.writeHead(upstream.status) and the body after it.
Pipe(q, status) == [Note(q, status) EXCEPT !.pc = "pipe", !.answer = status, !.wire = status]

Becomes(r, q) == req' = [req EXCEPT ![r] = q]
-----------------------------------------------------------------------------
(* Which accounts: resolveBackend and candidates *)

\* Mutated form of Candidates: cooldowns are not looked at.
CandidatesAll == stored

\* Cooling accounts are left out, unless every account is cooling.
Candidates ==
    LET usable == {a \in stored : cool[a] = 0} IN IF usable = {} THEN stored ELSE usable

\* The account a profile or route is bound to is offered whatever its cooldown.
Offered(q) == Candidates \cup ({q.binding} \cap Account)

\* The bound account goes first, then the active one, then the vault's order.
Rank(a) == CHOOSE n \in DOMAIN Order : Order[n] = a
Precedes(a, b, q) ==
    \/ a = q.binding
    \/ b # q.binding /\ (a = active \/ (b # active /\ Rank(a) < Rank(b)))

\* The one listing of the accounts offered in that order.
CandidateLists(q) ==
    {ids \in SetToSeqs(Offered(q)) :
        \A m, n \in DOMAIN ids : m < n => Precedes(ids[m], ids[n], q)}

\* A request arrives; its identity names a profile or not.
Arrive(r) ==
    /\ req[r].pc \in {"new", "done"}
    /\ \E b \in Bindings :
        LET q == [New EXCEPT !.binding = b]
        IN Becomes(r, CASE b = "nostore" -> OwnAnswer(q, "503", None)
                        [] b = "any" -> [q EXCEPT !.pc = "list"]
                        [] OTHER -> [q EXCEPT !.pc = "profile"])
    /\ UNCHANGED <<stored, active, cool>>

\* profiles.get() answers.
LookUp(r) ==
    /\ req[r].pc = "profile"
    /\ Becomes(r, CASE req[r].binding = "unknown" -> OwnAnswer(req[r], "404", None)
                    [] req[r].binding = "plain" -> [req[r] EXCEPT !.pc = "list"]
                    [] OTHER -> [req[r] EXCEPT !.pc = "bound"])
    /\ UNCHANGED <<stored, active, cool>>

\* The account the profile is bound to is looked up: a vault account ...
CheckBound(r) ==
    /\ req[r].pc = "bound" /\ req[r].binding \in Account
    /\ Becomes(r, IF req[r].binding \in stored THEN [req[r] EXCEPT !.pc = "list"]
                  ELSE OwnAnswer(req[r], "500", None))
    /\ UNCHANGED <<stored, active, cool>>

\* ... or a provider key, which may be gone or empty.
CheckKey(r) ==
    /\ req[r].pc = "bound" /\ req[r].binding = "key"
    /\ \/ \E who \in {None, "key"} : Becomes(r, OwnAnswer(req[r], "500", who))
       \/ Becomes(r, Send(req[r], "keyWait"))
    /\ UNCHANGED <<stored, active, cool>>

\* accounts.list() answers; the active account and the cooldowns are read then.
Choose(r) ==
    /\ req[r].pc = "list"
    /\ \E ids \in CandidateLists(req[r]) :
        Becomes(r, IF ids = <<>> THEN OwnAnswer(req[r], "503", None)
                   ELSE [req[r] EXCEPT !.ids = ids, !.i = 1, !.pc = "token"])
    /\ UNCHANGED <<stored, active, cool>>

\* accounts.list() throws: inside resolveBackend that is a 500 with an entry,
\* in a request without a profile it leaves the handler.
ListThrows(r) ==
    /\ ListFails /\ req[r].pc = "list"
    /\ Becomes(r, IF req[r].binding = "any" THEN Escape(req[r])
                  ELSE OwnAnswer(req[r], "500", None))
    /\ UNCHANGED <<stored, active, cool>>
-----------------------------------------------------------------------------
(* The loop over the candidates *)

\* freshToken(): a dead or deleted account is skipped.
TakeToken(r) ==
    /\ req[r].pc = "token"
    /\ \/ Becomes(r, Continue(Note(req[r], "stale-credential")))
       \/ Payer(req[r]) \in stored /\ Becomes(r, Send(req[r], "wait"))
    /\ UNCHANGED <<stored, active, cool>>

\* Mutated form of Deliver: a rate limit goes to the client at once.
DeliverAtOnce(r, status) ==
    /\ Becomes(r, Pipe(req[r], status))
    /\ UNCHANGED cool

\* A rate limit parks the account; the next candidate gets the request unless
\* there is none.
Deliver(r, status) ==
    LET q == req[r]
    IN /\ IF status = "limited"
          THEN \E n \in RetryAfter : cool' = [cool EXCEPT ![Payer(q)] = n]
          ELSE UNCHANGED cool
       /\ Becomes(r, IF status = "limited" /\ q.i < Len(q.ids)
                     THEN Continue([Note(q, status) EXCEPT !.last = status])
                     ELSE Pipe(q, status))

\* Upstream answers, or the call fails; a 401 is recovered first.
Answered(r) ==
    /\ req[r].pc = "wait" /\ ~req[r].aborted
    /\ \E answer \in Answers :
        CASE answer = "net" ->
                Becomes(r, Continue(Note(req[r], "network-error"))) /\ UNCHANGED cool
          [] answer = "unauthorized" ->
                Becomes(r, [Note(req[r], answer) EXCEPT !.pc = "recover"]) /\ UNCHANGED cool
          [] OTHER -> Deliver(r, answer)
    /\ UNCHANGED <<stored, active>>

\* Mutated form of Recovered: the retry is treated like the first call.
RecoveredLoops(r) ==
    /\ req[r].pc = "recover"
    /\ \/ Becomes(r, Continue(Note(req[r], "refresh-failed")))
       \/ Becomes(r, Send(req[r], "wait"))
    /\ UNCHANGED <<stored, active, cool>>

\* recoverUnauthorized(): a new token, none, or an error thrown by the save of
\* an adopted credential (the vault refuses it, or the account is gone).
Recovered(r) ==
    /\ req[r].pc = "recover"
    /\ \/ Becomes(r, Continue(Note(req[r], "refresh-failed")))
       \/ Becomes(r, Send(req[r], "retry"))
       \/ /\ SavesFail \/ Payer(req[r]) \notin stored
          /\ Becomes(r, Escape(req[r]))
    /\ UNCHANGED <<stored, active, cool>>

\* The retry's answer stands, a second 401 included.
RetryAnswered(r) ==
    /\ req[r].pc = "retry" /\ ~req[r].aborted
    /\ \E answer \in Answers :
        IF answer = "net"
        THEN Becomes(r, Continue(Note(req[r], "network-error"))) /\ UNCHANGED cool
        ELSE Deliver(r, answer)
    /\ UNCHANGED <<stored, active>>

\* handleKeyBackend: no failover, no cooldown.
KeyAnswered(r) ==
    /\ req[r].pc = "keyWait" /\ ~req[r].aborted
    /\ \E answer \in Answers :
        Becomes(r, IF answer = "net" THEN OwnAnswer(req[r], "502", "key")
                   ELSE Pipe(req[r], answer))
    /\ UNCHANGED <<stored, active, cool>>

\* The client went away while upstream was being waited for.
Cut(r) ==
    /\ req[r].pc \in {"wait", "retry", "keyWait"} /\ req[r].aborted
    /\ Becomes(r, TraceAborted(req[r], Payer(req[r])))
    /\ UNCHANGED <<stored, active, cool>>

\* Mutated forms of PipeEnds: the log repeats the status line whatever became
\* of the body; `once(res, "drain")` does not hear the abort signal.
PipeEndsTrusting(r) ==
    /\ req[r].pc = "pipe"
    /\ \/ Becomes(r, Trace([req[r] EXCEPT !.whole = ~req[r].aborted], req[r].answer, Payer(req[r])))
       \/ Becomes(r, Trace(req[r], req[r].answer, Payer(req[r])))
    /\ UNCHANGED <<stored, active, cool>>

PipeEndsDeaf(r) ==
    /\ req[r].pc = "pipe" /\ ~req[r].aborted
    /\ \/ Becomes(r, Trace([req[r] EXCEPT !.whole = TRUE], req[r].answer, Payer(req[r])))
       \/ Becomes(r, Trace(req[r], "502", Payer(req[r])))
    /\ UNCHANGED <<stored, active, cool>>

\* The body was relayed to its end, or upstream broke off (a gateway failure
\* in the log), or the client did.
PipeEnds(r) ==
    /\ req[r].pc = "pipe"
    /\ LET q == req[r]
       IN \/ Becomes(r, Trace([q EXCEPT !.whole = ~q.aborted], q.answer, Payer(q)))
          \/ ~q.aborted /\ Becomes(r, Trace(q, "502", Payer(q)))
          \/ q.aborted /\ Becomes(r, TraceAborted(q, Payer(q)))
    /\ UNCHANGED <<stored, active, cool>>
-----------------------------------------------------------------------------
(* The client, the control plane, the vault and the clock *)

\* The client closes the socket before the response is finished.
Abort(r) ==
    /\ req[r].pc \notin {"new", "done"} /\ ~req[r].aborted
    /\ Becomes(r, [req[r] EXCEPT !.aborted = TRUE])
    /\ UNCHANGED <<stored, active, cool>>

\* setActive(), by `proxy use` or by the rotation poller.
Use(a) ==
    /\ a \in stored
    /\ active' = a
    /\ UNCHANGED <<stored, cool, req>>

\* Another process removes or imports an account; the proxy is not told.
MoveVault(a) ==
    /\ VaultMoves
    /\ stored' = IF a \in stored THEN stored \ {a} ELSE stored \cup {a}
    /\ UNCHANGED <<active, cool, req>>

CoolTick ==
    /\ \E a \in Account : cool[a] > 0
    /\ cool' = [a \in Account |-> IF cool[a] = 0 THEN 0 ELSE cool[a] - 1]
    /\ UNCHANGED <<stored, active, req>>

Progress(r) ==
    \/ LookUp(r) \/ CheckBound(r) \/ CheckKey(r) \/ Choose(r) \/ ListThrows(r)
    \/ TakeToken(r) \/ Answered(r) \/ Recovered(r) \/ RetryAnswered(r)
    \/ KeyAnswered(r) \/ Cut(r) \/ PipeEnds(r)

Next ==
    \/ \E r \in Request : Arrive(r) \/ Progress(r) \/ Abort(r)
    \/ \E a \in Account : Use(a) \/ MoveVault(a)
    \/ CoolTick

Spec == Init /\ [][Next]_vars

\* Upstream headers have a timeout, and a broken or abandoned stream rejects
\* the read: every await of a request settles.
FairSpec == Spec /\ \A r \in Request : WF_vars(Progress(r))
-----------------------------------------------------------------------------
(* Properties *)

Done(r) == req[r].pc = "done"
Logged(r) == {req[r].log[n] : n \in DOMAIN req[r].log}
Tried(r) == {req[r].attempts[n].account : n \in DOMAIN req[r].attempts}
TimesNoted(r, a, status) ==
    Cardinality({n \in DOMAIN req[r].attempts :
                    req[r].attempts[n] = [account |-> a, status |-> status]})

\* Every request leaves exactly one traffic entry, whichever way it ends, and
\* none before it ends ("Called once per proxied API request").
OneRecordPerRequest == \A r \in Request : Len(req[r].log) = IF Done(r) THEN 1 ELSE 0

\* What throws is not traced: the list of a request without a profile, and the
\* save of a recovered credential.
Threw(r) ==
    \/ ListFails /\ req[r].binding = "any" /\ req[r].ids = <<>>
    \/ /\ SavesFail \/ VaultMoves
       /\ req[r].attempts # <<>> /\ Last(req[r].attempts).status = "unauthorized"

\* No request leaves two entries or one before it ends, and one that ended
\* without an entry threw and was answered 500, if the client still listened.
OnlyThrowsGoUnrecorded ==
    \A r \in Request :
        /\ Len(req[r].log) <= IF Done(r) THEN 1 ELSE 0
        /\ Done(r) /\ req[r].log = <<>> =>
                Threw(r) /\ req[r].wire = IF req[r].aborted THEN None ELSE "500"

\* The entry says what happened to the client: an upstream status only if that
\* answer went out to its end (or to a client that had left), 499 only if the
\* client left, 502 for an account only if its stream broke off.
RecordTellsTheTruth ==
    \A r \in Request : \A e \in Logged(r) :
        /\ e.status = "499" => req[r].aborted /\ ~req[r].whole
        /\ e.status \in Status => req[r].aborted \/ (req[r].wire = e.status /\ req[r].whole)
        /\ e.status = "502" /\ e.account \in Account =>
                req[r].wire = req[r].answer /\ ~req[r].whole

\* A request that ends without an answer from upstream, or with a rate limit,
\* was first offered to every candidate.
GivesUpOnlyAtTheEnd ==
    \A r \in Request : \A e \in Logged(r) :
        \/ e.status = "limited" /\ req[r].binding # "key"
        \/ e.status = "502" /\ e.account = None
        => ToSet(req[r].ids) = Tried(r)

\* The client sees a 401 only after the account's credential was recovered and
\* refused again, and no account is called more than twice for one request.
RecoversOnce ==
    \A r \in Request :
        /\ req[r].sends <= 2
        /\ \A e \in Logged(r) : e.status = "unauthorized" /\ e.account \in Account
                => TimesNoted(r, e.account, "unauthorized") = 2

\* A request that comes after an account was parked does not start with that
\* account while another one is not cooling, unless its profile is bound to it.
StartsOnRested ==
    \A r \in Request :
        /\ req[r].pc = "list" /\ req'[r].pc = "token"
        /\ cool[req'[r].ids[1]] > 0 /\ req'[r].ids[1] # req[r].binding
        => \A a \in stored : cool[a] > 0
ParkedAccountsRest == [][StartsOnRested]_vars

\* Every request ends.
EveryRequestEnds == \A r \in Request : ~Done(r) /\ req[r].pc # "new" ~> Done(r)
=============================================================================

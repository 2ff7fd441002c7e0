----------------------------- MODULE MCProgress -----------------------------
(* What must eventually happen, in parts of which a behaviour is in one: waiters for the account lock,
   operations on credentials, requests of the proxy, and the stop of `swisscode web`.  Each of them
   has the fairness of its own module.  One more part races refreshes under the account lock and
   kills them anywhere (the module extended here): nobody has to end there, only to stay alone.   *)
EXTENDS FreshCredential, Sequences, TLC

CONSTANTS a1, a2, l1, f1, f2, f3, p1, p2, p3, r1, ada
VARIABLES
    part,
    lock, guard, pc, locked, won, waited, busy, crashes,                            \* AccountLock
    tokens, old, held, seen, mails, holder, op,                                     \* FreshCredential
    stored, active, cool, req,                                                      \* ProxyRequest
    proxy, alive, told, generation, closing, done, update, signalled, killTimer  \* WebCommand

lockVars == <<lock, guard, pc, locked, won, waited, busy, crashes>>
managedVars == <<tokens, old, held, seen, mails, holder, op>>
proxyVars == <<stored, active, cool, req>>
webVars == <<proxy, alive, told, generation, closing, done, update, signalled, killTimer>>
mcVars == <<part, vars, lockVars, managedVars, proxyVars, webVars>>

\* Three asks for one account whose login Claude Code shares.
OneAccount == [f \in Flight |-> a1]
OwnProcess == f1 :> p1 @@ f2 :> p2 @@ f3 :> p3
AllAsk == [f \in Flight |-> "ask"]
NoEmails == [a \in Account |-> None]
AdaOwns == [l \in Lineage |-> ada]
Shared == [a \in Account |-> l1]

\* A recovery on the first account, import, rename and remove on the second one.
Managed == INSTANCE FreshCredential WITH
    Account <- {a1, a2}, Flight <- {f1, f2}, Process <- {p1, p2},
    AcctOf <- f1 :> a1 @@ f2 :> a2, ProcOf <- f1 :> p1 @@ f2 :> p2,
    Role <- f1 :> "recover" @@ f2 :> "manage",
    InitEmail <- [a \in {a1, a2} |-> None], InitVault <- a1 :> l1 @@ a2 :> None,
    MaxToken <- 2, LockHolds <- FALSE, AnswerLost <- FALSE, KeepsToken <- FALSE,
    server <- tokens, lapsed <- old, vault <- held, live <- seen, email <- mails,
    owner <- holder, fl <- op

Lock == INSTANCE AccountLock WITH
    Proc <- {p1, p2}, Stale <- 1, MaxWait <- 1, Poll <- 1, Hold <- 1, Grace <- 1, MaxCrashes <- 2,
    CrashPoints <- {"create", "orphan", "clear", "guard", "sleep", "stat", "remove", "unguard",
                    "run", "release"},
    FsErrors <- TRUE

Proxy == INSTANCE ProxyRequest WITH
    Account <- {a1, a2}, Order <- <<a1, a2>>, Request <- {r1},
    Bindings <- {"unknown", "nostore", "any", "plain", "key", a2}, RetryAfter <- {1},
    Answers <- {"ok", "unauthorized", "limited", "error", "net"},
    SavesFail <- TRUE, ListFails <- TRUE, VaultMoves <- TRUE

Web == INSTANCE WebCommand WITH Mode <- "auto", Kind <- "npm-global", MaxChild <- 2

MCInit ==
    /\ part \in {"raced", "lock", "credential", "proxy", "web"}
    /\ Init /\ Managed!Init /\ Lock!Init /\ Proxy!Init /\ Web!Init
    /\ part # "proxy" => stored = {}
    /\ part # "web" => proxy = "none"

MCNext ==
    /\ \/ part = "raced" /\ Next /\ UNCHANGED <<lockVars, managedVars, proxyVars, webVars>>
       \/ part = "lock" /\ Lock!Next /\ UNCHANGED <<vars, managedVars, proxyVars, webVars>>
       \/ part = "credential" /\ Managed!Next /\ UNCHANGED <<vars, lockVars, proxyVars, webVars>>
       \/ part = "proxy" /\ Proxy!Next /\ UNCHANGED <<vars, lockVars, managedVars, webVars>>
       \/ part = "web" /\ Web!Next /\ UNCHANGED <<vars, lockVars, managedVars, proxyVars>>
    /\ UNCHANGED part

\* A step of one part, for the fairness.
InLock(A) == part = "lock" /\ A /\ UNCHANGED <<part, vars, managedVars, proxyVars, webVars>>
InCredential(A) == part = "credential" /\ A /\ UNCHANGED <<part, vars, lockVars, proxyVars, webVars>>
InProxy(A) == part = "proxy" /\ A /\ UNCHANGED <<part, vars, lockVars, managedVars, webVars>>
InWeb(A) == part = "web" /\ A /\ UNCHANGED <<part, vars, lockVars, managedVars, proxyVars>>

MCFairness ==
    /\ WF_mcVars(InLock(Lock!Tick)) /\ \A p \in {p1, p2} : WF_mcVars(InLock(Lock!Progress(p)))
    /\ \A f \in {f1, f2} :
           WF_mcVars(InCredential(Managed!Progress(f))) /\ WF_mcVars(InCredential(Managed!RunUnlocked(f)))
    /\ WF_mcVars(InProxy(Proxy!Progress(r1)))
    /\ \A c \in Web!Child : WF_mcVars(InWeb(told[c] = "kill" /\ Web!Exit(c)))
    /\ WF_mcVars(InWeb(Web!Close)) /\ WF_mcVars(InWeb(Web!KillLater))
    /\ WF_mcVars(InWeb(Web!WaitOver)) /\ WF_mcVars(InWeb(Web!WaitTooLong)) /\ WF_mcVars(InWeb(Web!Killed))

MCSpec == MCInit /\ [][MCNext]_mcVars /\ MCFairness
-----------------------------------------------------------------------------
(* The control points, locals and messages of the parts stay within their ranges.                 *)
TypesOK == TypeOK /\ Managed!TypeOK /\ Proxy!TypeOK /\ Web!TypeOK

(* A process that waits for the account lock goes in or is killed (withAccountLock).              *)
WaitEnds == Lock!WaitEnds

(* Every operation on a credential ends (freshVaultCredential, recoverUnauthorizedOnce, import).  *)
EveryOperationEnds == \A f \in {f1, f2} : op[f].pc # "idle" ~> op[f].pc = "idle"

(* Every request of the proxy ends (handleApi).                                                   *)
EveryRequestEnds == Proxy!EveryRequestEnds

(* A stop signal stops `swisscode web` for good, a restart under way included (web.ts).           *)
StopStops == Web!StopStops
=============================================================================

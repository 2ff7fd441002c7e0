---------------------------- MODULE MCCredential ----------------------------
(* FreshCredential in two situations, of which a behaviour is in one: a switch between two logins
   beside a recovery, without the lock (the module extended here), and a recovery that meets
   Claude's own login under the lock.                                                            *)
EXTENDS FreshCredential, TLC

CONSTANTS a1, a2, l1, l2, l3, f1, f2, p1, p2, ada, bob
VARIABLES part, tokens, stale, stored, seen, mails, holder, op

recoveredVars == <<tokens, stale, stored, seen, mails, holder, op>>
mcVars == <<part, vars, recoveredVars>>

\* f1 switches to a1, whose login l1 is Claude's, while f2 recovers a2, which ada is known to own.
FirstSecond == f1 :> a1 @@ f2 :> a2
OwnProcess == f1 :> p1 @@ f2 :> p2
SwitchRecover == f1 :> "switch" @@ f2 :> "recover"
SecondKnown == a1 :> None @@ a2 :> ada
AdaAndBob == l1 :> ada @@ l2 :> ada @@ l3 :> bob
OneEach == a1 :> l1 @@ a2 :> l2

\* An ask and a recovery on one account, which holds another login than Claude's.
Recovered == INSTANCE FreshCredential WITH
    Account <- {a1}, Lineage <- {l1, l2},
    AcctOf <- [f \in Flight |-> a1], Role <- f1 :> "ask" @@ f2 :> "recover",
    InitEmail <- a1 :> None, OwnerOf <- [l \in {l1, l2} |-> ada], InitVault <- a1 :> l1, InitLive <- l2,
    MaxToken <- 3, LockHolds <- TRUE, StoreFails <- {}, NetFails <- TRUE, LoginAllowed <- FALSE,
    server <- tokens, lapsed <- stale, vault <- stored, live <- seen, email <- mails,
    owner <- holder, fl <- op

MCInit == part \in {"switched", "recovered"} /\ Init /\ Recovered!Init

MCNext ==
    /\ \/ part = "switched" /\ Next /\ UNCHANGED recoveredVars
       \/ part = "recovered" /\ Recovered!Next /\ UNCHANGED vars
    /\ UNCHANGED part

MCSpec == MCInit /\ [][MCNext]_mcVars
-----------------------------------------------------------------------------
(* A recovery under the lock loses no rotation: somebody holds, or is about to save, the current
   token of each lineage that is in use (liveResync.ts, freshCredential.ts).                      *)
RecoveryLosesNoRotation == Recovered!RotationNeverLost

(* When no recovery is in flight, Claude Code is not left on a dead refresh token (liveMirror.ts). *)
RecoveryKeepsClaudeLoggedIn == Recovered!ClaudeStaysLoggedIn
=============================================================================

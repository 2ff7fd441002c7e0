-------------------------- MODULE FreshCredential --------------------------
(***************************************************************************)
(* How a vault account gets a usable OAuth credential, and everything that *)
(* writes the vault or Claude Code's own store meanwhile:                  *)
(*   packages/adapters/src/subscriptions/freshCredential.ts, liveResync.ts,*)
(*   liveMirror.ts, anthropic.ts (refresh), accountVault.ts;               *)
(*   packages/core/src/subscriptionService.ts (ensureFreshCredential);     *)
(*   packages/adapters/src/proxy/server.ts (recoverUnauthorizedOnce);      *)
(*   apps/cli/src/accounts.ts (import, use) and the same operations of     *)
(*   apps/web/src/lib/store.server.ts (plus rename and remove).            *)
(*                                                                         *)
(* A flight is one run of an operation in one process.  SingleFlight lets  *)
(* one run per key be in flight in a process, so a flight is a slot that   *)
(* is used again and again.  Each step ends at an await of the code.       *)
(*                                                                         *)
(* A lineage is one login's chain of refresh tokens.  A credential names   *)
(* its lineage, the position rt of its refresh token in the chain and the  *)
(* number at of its access token.                                          *)
(***************************************************************************)
EXTENDS Naturals, FiniteSets

CONSTANTS
    Account, Lineage, Flight, Process,
    AcctOf,        \* AcctOf[f]: the account a flight works for
    ProcOf,        \* ProcOf[f]: the process it runs in
    Role,          \* Role[f]: "ask", "switch", "recover", or "manage": import, rename, remove
    InitEmail,     \* InitEmail[a]: the email the vault recorded for a, or None
    OwnerOf,       \* OwnerOf[l]: the email of the person who logged in as l
    InitVault,     \* InitVault[a]: the lineage the vault starts with, or None
    InitLive,      \* the lineage Claude Code starts with, or None
    None,
    MaxToken,      \* bound of the model: access tokens issued per lineage
    LockHolds,     \* whether waiting for the account lock always succeeds
    CrashPoints,   \* control points at which a process may be killed
    StoreFails,    \* what Claude's store may refuse: "read", "write"
    NetFails,      \* a request may not reach the token endpoint
    AnswerLost,    \* the endpoint may rotate and the answer be lost
    KeepsToken,    \* the endpoint may answer without rotating the refresh token
    ClaudeRuns,    \* Claude Code refreshes its own login
    LoginAllowed   \* the user may run `claude login`

Inside == {"reread", "live", "load", "refresh", "mirror", "mirrorWrite", "rsLoad",
           "rsLive", "rsOwned", "email", "save", "write", "hand", "handWrite"}
Outside == {"idle", "lock", "sent", "check", "install", "verify", "impCheck",
            "impSave", "rnSave"}
PC == Inside \cup Outside
Roles == {"ask", "switch", "recover", "manage"}

ASSUME CredentialAssumption ==
    /\ AcctOf \in [Flight -> Account]
    /\ ProcOf \in [Flight -> Process]
    /\ Role \in [Flight -> Roles]
    /\ InitVault \in [Account -> Lineage \cup {None}]
    /\ InitLive \in Lineage \cup {None}
    /\ InitEmail \in [Account -> {OwnerOf[l] : l \in Lineage} \cup {None}]
    /\ None \notin Lineage \cup Flight
    /\ MaxToken \in Nat \ {0}
    /\ CrashPoints \subseteq PC
    /\ StoreFails \subseteq {"read", "write"}
    /\ {LockHolds, NetFails, AnswerLost, KeepsToken, ClaudeRuns,
        LoginAllowed} \subseteq BOOLEAN

VARIABLES
    server,   \* the token endpoint: per lineage the current rt and the newest at
    lapsed,   \* per lineage: access tokens up to this number have expired
    vault,    \* per account: the credential in <id>.json
    live,     \* the credential in Claude Code's own store
    email,    \* per account: the email in <id>.json, or None
    owner,    \* per account: the flight <id>.lock names, alive or dead
    fl        \* per flight: control point and locals

disk == <<vault, email>>
vars == <<server, lapsed, vault, email, live, owner, fl>>
-----------------------------------------------------------------------------
Token == 0..MaxToken
Cred == [lin : Lineage, rt : Token, at : Token]
NoCred == [lin |-> None, rt |-> 0, at |-> 0]
MaybeCred == Cred \cup {NoCred}
Person == {OwnerOf[l] : l \in Lineage}

SameRefresh(c, d) == c.lin = d.lin /\ c.rt = d.rt
SameAccess(c, d) == c.lin = d.lin /\ c.at = d.at
Expired(c) == c.at <= lapsed[c.lin]
Usable(c) == c # NoCred /\ ~Expired(c)

Idle == [pc |-> "idle", stored |-> NoCred, sent |-> NoCred, next |-> NoCred,
         mail |-> None, then |-> "vault", locked |-> FALSE, probe |-> FALSE,
         base |-> NoCred, rejected |-> NoCred, result |-> NoCred]

Local == [pc : PC, stored : MaybeCred, sent : MaybeCred, next : MaybeCred,
          mail : Person \cup {None}, then : {"vault", "email", "adopted"},
          locked : BOOLEAN, probe : BOOLEAN,
          base : MaybeCred, rejected : MaybeCred, result : MaybeCred]

TypeOK ==
    /\ server \in [Lineage -> [rt : Token, at : Token]]
    /\ lapsed \in [Lineage -> Token]
    /\ vault \in [Account -> MaybeCred]
    /\ live \in MaybeCred
    /\ email \in [Account -> Person \cup {None}]
    /\ owner \in [Account -> Flight \cup {None}]
    /\ fl \in [Flight -> Local]

First(l) == IF l = None THEN NoCred ELSE [lin |-> l, rt |-> 1, at |-> 1]
InUse(l) == l = InitLive \/ \E a \in Account : InitVault[a] = l

Init ==
    /\ server = [l \in Lineage |-> IF InUse(l) THEN [rt |-> 1, at |-> 1] ELSE [rt |-> 0, at |-> 0]]
    /\ lapsed = [l \in Lineage |-> 0]
    /\ vault = [a \in Account |-> First(InitVault[a])]
    /\ email = InitEmail
    /\ live = First(InitLive)
    /\ owner = [a \in Account |-> None]
    /\ fl = [f \in Flight |-> Idle]

At(f, label) == fl[f].pc = label
Held(f) == vault[AcctOf[f]]
Forced(f) == Role[f] = "recover"

\* Leaving the critical section removes the lock file.
Unlock(f) == owner' = [owner EXCEPT ![AcctOf[f]] = IF fl[f].locked THEN None ELSE @]

\* The operation ends; the caller gets credential c (NoCred: an error).
Finish(f, c) ==
    /\ fl' = [fl EXCEPT ![f] = IF Role[f] = "recover"
                               THEN [Idle EXCEPT !.rejected = fl[f].rejected, !.result = c]
                               ELSE Idle]
    /\ Unlock(f)

\* freshVaultCredential answers c: a switch goes on to install it.
Deliver(f, c) ==
    IF Role[f] = "switch"
    THEN /\ fl' = [fl EXCEPT ![f] = [Idle EXCEPT !.pc = "install", !.next = c]]
         /\ Unlock(f)
    ELSE Finish(f, c)

Goto(f, label) == fl' = [fl EXCEPT ![f].pc = label] /\ UNCHANGED owner
-----------------------------------------------------------------------------
(* freshVaultCredential: the fast path and the lock *)

\* The fast path answers a usable credential without any other effect.
Ask(f) ==
    /\ Role[f] \in {"ask", "switch"} /\ At(f, "idle")
    /\ IF Usable(Held(f))
       THEN Role[f] = "switch" /\ Deliver(f, Held(f))
       ELSE Goto(f, "lock")
    /\ UNCHANGED <<server, lapsed, disk, live>>

\* Mutated form of Acquire: the lock file is not opened exclusively.
AcquireOverwrites(f) ==
    /\ At(f, "lock")
    /\ owner' = [owner EXCEPT ![AcctOf[f]] = f]
    /\ fl' = [fl EXCEPT ![f].pc = "reread", ![f].locked = TRUE]
    /\ UNCHANGED <<server, lapsed, disk, live>>

Acquire(f) ==
    /\ At(f, "lock")
    /\ owner[AcctOf[f]] = None
    /\ owner' = [owner EXCEPT ![AcctOf[f]] = f]
    /\ fl' = [fl EXCEPT ![f].pc = "reread", ![f].locked = TRUE]
    /\ UNCHANGED <<server, lapsed, disk, live>>

\* The deadline passed, or the holder was reclaimed as stale: run anyway.
RunUnlocked(f) ==
    /\ ~LockHolds
    /\ At(f, "lock")
    /\ Goto(f, "reread")
    /\ UNCHANGED <<server, lapsed, disk, live>>

\* Mutated form of Reclaim: a live holder's lock goes as well.
ReclaimAnyLock(f) ==
    /\ At(f, "lock")
    /\ owner[AcctOf[f]] # None
    /\ owner' = [owner EXCEPT ![AcctOf[f]] = None]
    /\ UNCHANGED <<server, lapsed, disk, live, fl>>

\* Waiters take away the lock of a killed process.
Reclaim(f) ==
    /\ At(f, "lock")
    /\ owner[AcctOf[f]] # None
    /\ ~fl[owner[AcctOf[f]]].locked
    /\ owner' = [owner EXCEPT ![AcctOf[f]] = None]
    /\ UNCHANGED <<server, lapsed, disk, live, fl>>

(* resolveExpired *)

Reread(f) ==
    /\ At(f, "reread")
    /\ IF Usable(Held(f)) /\ ~Forced(f)
       THEN Deliver(f, Held(f))
       ELSE fl' = [fl EXCEPT ![f].pc = "live", ![f].stored = Held(f)] /\ UNCHANGED owner
    /\ UNCHANGED <<server, lapsed, disk, live>>

\* What a read of Claude's store gives: its credential, or nothing.
ReadLive == {live} \cup (IF "read" \in StoreFails THEN {NoCred} ELSE {})

\* Mutated form of AdoptShared: the token that was refused is adopted too.
AdoptSharedBlind(f) ==
    /\ At(f, "live")
    /\ \E seen \in ReadLive :
        IF seen # NoCred /\ SameRefresh(seen, fl[f].stored) /\ ~Expired(seen)
        THEN fl' = [fl EXCEPT ![f].pc = "save", ![f].next = seen, ![f].then = "adopted"]
        ELSE fl' = [fl EXCEPT ![f].pc = "load"]
    /\ UNCHANGED <<server, lapsed, disk, live, owner>>

\* sharedLiveCredential: adopt Claude's copy of the same lineage if it is
\* still valid; under force not the very access token that was refused.
AdoptShared(f) ==
    /\ At(f, "live")
    /\ \E seen \in ReadLive :
        LET stored == fl[f].stored
            adopt == /\ seen # NoCred /\ SameRefresh(seen, stored) /\ ~Expired(seen)
                     /\ Forced(f) => ~SameAccess(seen, stored)
        IN IF adopt
           THEN fl' = [fl EXCEPT ![f].pc = "save", ![f].next = seen, ![f].then = "adopted"]
           ELSE fl' = [fl EXCEPT ![f].pc = "load"]
    /\ UNCHANGED <<server, lapsed, disk, live, owner>>

(* ensureFreshCredential *)

LoadStored(f) ==
    /\ At(f, "load")
    /\ IF Held(f) = NoCred THEN Finish(f, NoCred)
       ELSE IF Usable(Held(f)) /\ ~Forced(f) THEN Deliver(f, Held(f))
       ELSE /\ fl' = [fl EXCEPT ![f].pc = "refresh", ![f].sent = Held(f), ![f].then = "vault"]
            /\ UNCHANGED owner
    /\ UNCHANGED <<server, lapsed, disk, live>>

(* AnthropicOAuthClient.refresh, called by ensureFreshCredential with the   *)
(* vault's credential (then = "vault") and by the resync with Claude's      *)
(* (then = "email").                                                        *)

Afterwards(f) == IF fl[f].then = "vault" THEN "save" ELSE "email"

\* Mutated form of Decline: the resync starts over.
DeclineRetries(f) == Goto(f, "rsLoad")

\* The resync has nothing to adopt, or its refresh failed.  Inside the hook
\* of ensureFreshCredential that ends the call; the proxy's own resync, which
\* comes first, goes on with the credential the vault holds.
Decline(f) ==
    IF fl[f].probe THEN Goto(f, "check") ELSE Finish(f, NoCred)

RefreshFails(f) == IF fl[f].then = "email" THEN Decline(f) ELSE Finish(f, NoCred)

\* Mutated form of Grant: a refresh counts as two rotations.
GrantSkips(c, rotates) ==
    [lin |-> c.lin, rt |-> c.rt + 2, at |-> server[c.lin].at + 1]

\* The endpoint honours the current refresh token of a lineage, once.
Grant(c, rotates) ==
    [lin |-> c.lin, rt |-> IF rotates THEN c.rt + 1 ELSE c.rt, at |-> server[c.lin].at + 1]

Honours(c) == c.rt = server[c.lin].rt /\ server[c.lin].at < MaxToken

Granted(f) ==
    /\ At(f, "refresh")
    /\ Honours(fl[f].sent)
    /\ \E rotates \in IF KeepsToken THEN BOOLEAN ELSE {TRUE} :
        LET new == Grant(fl[f].sent, rotates)
        IN /\ server' = [server EXCEPT ![new.lin] = [rt |-> new.rt, at |-> new.at]]
           /\ \/ /\ fl' = [fl EXCEPT ![f].next = new,
                                     ![f].pc = IF rotates THEN "mirror" ELSE Afterwards(f)]
                 /\ UNCHANGED owner
              \/ AnswerLost /\ RefreshFails(f)
    /\ UNCHANGED <<lapsed, disk, live>>

\* Mutated form of Refused: a switch adopts Claude's login like everybody else.
RefusedAdopts(f) ==
    /\ At(f, "refresh")
    /\ fl[f].sent.rt # server[fl[f].sent.lin].rt
    /\ IF fl[f].then = "vault" THEN Goto(f, "rsLoad") ELSE RefreshFails(f)
    /\ UNCHANGED <<server, lapsed, disk, live>>

\* invalid_grant: ask the resync hook, unless this is a switch (adoptLive:
\* false) or the resync's own refresh.
Refused(f) ==
    /\ At(f, "refresh")
    /\ fl[f].sent.rt # server[fl[f].sent.lin].rt
    /\ IF fl[f].then = "vault" /\ Role[f] # "switch" THEN Goto(f, "rsLoad") ELSE RefreshFails(f)
    /\ UNCHANGED <<server, lapsed, disk, live>>

Unreached(f) ==
    /\ At(f, "refresh")
    /\ NetFails \/ server[fl[f].sent.lin].at = MaxToken
    /\ RefreshFails(f)
    /\ UNCHANGED <<server, lapsed, disk, live>>

\* mirrorRotatedCredential, first call: read Claude's store ...
MirrorRead(f) ==
    /\ At(f, "mirror")
    /\ \E seen \in ReadLive :
        Goto(f, IF seen # NoCred /\ SameRefresh(seen, fl[f].sent)
                THEN "mirrorWrite" ELSE Afterwards(f))
    /\ UNCHANGED <<server, lapsed, disk, live>>

\* Mutated form of MirrorWrite: Claude's store is not written.
MirrorNothing(f) ==
    /\ At(f, "mirrorWrite")
    /\ Goto(f, Afterwards(f))
    /\ UNCHANGED <<server, lapsed, disk, live>>

\* ... and write it, whatever it holds by now.  A refused write is a warning.
MirrorWrite(f) ==
    /\ At(f, "mirrorWrite")
    /\ \/ live' = fl[f].next
       \/ "write" \in StoreFails /\ UNCHANGED live
    /\ Goto(f, Afterwards(f))
    /\ UNCHANGED <<server, lapsed, disk>>

(* accounts.saveCredential: read the file, then replace it *)

SaveRead(f) ==
    /\ At(f, "save")
    /\ IF Held(f) = NoCred THEN Finish(f, NoCred)
       ELSE /\ fl' = [fl EXCEPT ![f].pc = "write", ![f].mail = email[AcctOf[f]]]
            /\ UNCHANGED owner
    /\ UNCHANGED <<server, lapsed, disk, live>>

\* Replacing <id>.json replaces credential and account together.
WriteVault(f) ==
    /\ vault' = [vault EXCEPT ![AcctOf[f]] = fl[f].next]
    /\ email' = [email EXCEPT ![AcctOf[f]] = fl[f].mail]

\* Mutated form of SaveWrite: the credential that was spent is saved.
SaveWriteSent(f) ==
    /\ At(f, "write")
    /\ vault' = [vault EXCEPT ![AcctOf[f]] = fl[f].sent]
    /\ UNCHANGED email
    /\ IF fl[f].then = "vault" THEN Goto(f, "hand") ELSE Deliver(f, fl[f].next)
    /\ UNCHANGED <<server, lapsed, live>>

SaveWrite(f) ==
    /\ At(f, "write")
    /\ WriteVault(f)
    /\ IF fl[f].then = "vault" THEN Goto(f, "hand") ELSE Deliver(f, fl[f].next)
    /\ UNCHANGED <<server, lapsed, live>>

\* onRefreshed: mirrorRotatedCredential again, from the credential read first.
HandRead(f) ==
    /\ At(f, "hand")
    /\ \E seen \in ReadLive :
        LET stored == fl[f].stored
        IN IF /\ stored # NoCred /\ ~SameRefresh(stored, fl[f].next)
              /\ seen # NoCred /\ SameRefresh(seen, stored)
           THEN Goto(f, "handWrite")
           ELSE Deliver(f, fl[f].next)
    /\ UNCHANGED <<server, lapsed, disk, live>>

HandWrite(f) ==
    /\ At(f, "handWrite")
    /\ \/ live' = fl[f].next
       \/ "write" \in StoreFails /\ UNCHANGED live
    /\ Deliver(f, fl[f].next)
    /\ UNCHANGED <<server, lapsed, disk>>
-----------------------------------------------------------------------------
(* resyncSubscriptionCredential *)

ResyncLoad(f) ==
    /\ At(f, "rsLoad")
    /\ fl' = [fl EXCEPT ![f].pc = "rsLive", ![f].stored = Held(f)]
    /\ UNCHANGED <<server, lapsed, disk, live, owner>>

ResyncLive(f) ==
    /\ At(f, "rsLive")
    /\ \E seen \in ReadLive :
        IF seen = NoCred \/ SameRefresh(seen, fl[f].stored)
        THEN Decline(f)
        ELSE fl' = [fl EXCEPT ![f].pc = "rsOwned", ![f].sent = seen] /\ UNCHANGED owner
    /\ UNCHANGED <<server, lapsed, disk, live>>

OwnedByAnother(f, c) == \E b \in Account \ {AcctOf[f]} : vault[b] # NoCred /\ SameRefresh(vault[b], c)

ResyncOwned(f) ==
    /\ At(f, "rsOwned")
    /\ LET found == fl[f].sent
       IN IF OwnedByAnother(f, found) THEN Decline(f)
          ELSE /\ fl' = IF Expired(found)
                        THEN [fl EXCEPT ![f].pc = "refresh", ![f].then = "email"]
                        ELSE [fl EXCEPT ![f].pc = "email", ![f].then = "email", ![f].next = found]
               /\ UNCHANGED owner
    /\ UNCHANGED <<server, lapsed, disk, live>>

\* Mutated form of ResyncEmail: the email guard is missing.
ResyncUnguarded(f) ==
    /\ At(f, "email")
    /\ fl' = [fl EXCEPT ![f].pc = "save", ![f].then = "adopted"]
    /\ UNCHANGED <<server, lapsed, disk, live, owner>>

\* The email guard: decline on a mismatch; an unknown answer does not decline.
\* (The token was good for five more minutes when ResyncOwned looked, so it is
\* good enough to be asked about.)  The proxy's own resync saves only what
\* differs from what it loaded first.
ResyncEmail(f) ==
    /\ At(f, "email")
    /\ LET new == fl[f].next
           expected == IF Held(f) = NoCred THEN None ELSE email[AcctOf[f]]
           mismatch == expected # None /\ OwnerOf[new.lin] # expected
       IN \/ mismatch /\ Decline(f)
          \/ /\ mismatch => NetFails
             /\ IF fl[f].probe /\ SameRefresh(new, fl[f].base) THEN Finish(f, new)
                ELSE /\ fl' = [fl EXCEPT ![f].pc = "save", ![f].then = "adopted"]
                     /\ UNCHANGED owner
    /\ UNCHANGED <<server, lapsed, disk, live>>
-----------------------------------------------------------------------------
(* The proxy's recovery from a 401: recoverUnauthorizedOnce *)

\* A request goes out with the vault's access token.
Use(f) ==
    /\ Role[f] = "recover" /\ At(f, "idle")
    /\ Usable(Held(f))
    /\ fl' = [fl EXCEPT ![f] = [Idle EXCEPT !.pc = "sent", !.rejected = Held(f)]]
    /\ UNCHANGED <<server, lapsed, disk, live, owner>>

Accepted(f) ==
    /\ At(f, "sent")
    /\ Finish(f, NoCred)
    /\ UNCHANGED <<server, lapsed, disk, live>>

\* The 401 arrives: load what the vault holds now, then resync first, outside
\* the account lock.
Unauthorized(f) ==
    /\ At(f, "sent")
    /\ fl' = [fl EXCEPT ![f].pc = "rsLoad", ![f].probe = TRUE, ![f].base = Held(f)]
    /\ UNCHANGED <<server, lapsed, disk, live, owner>>

\* Nothing to adopt: use what another request rotated meanwhile, or rotate.
RecoverCheck(f) ==
    /\ At(f, "check")
    /\ IF Held(f) = NoCred \/ fl[f].base = NoCred THEN Finish(f, NoCred)
       ELSE IF ~SameAccess(Held(f), fl[f].rejected) THEN Finish(f, Held(f))
       ELSE fl' = [fl EXCEPT ![f].pc = "lock", ![f].probe = FALSE] /\ UNCHANGED owner
    /\ UNCHANGED <<server, lapsed, disk, live>>
-----------------------------------------------------------------------------
(* `accounts use`: write the credential into Claude's store and verify it *)

Install(f) ==
    /\ At(f, "install")
    /\ \/ live' = fl[f].next /\ Goto(f, "verify")
       \/ "write" \in StoreFails /\ UNCHANGED live /\ Finish(f, NoCred)
    /\ UNCHANGED <<server, lapsed, disk>>

Verify(f) ==
    /\ At(f, "verify")
    /\ Finish(f, IF live # NoCred /\ SameRefresh(live, fl[f].next) THEN fl[f].next ELSE NoCred)
    /\ UNCHANGED <<server, lapsed, disk, live>>

(* import: read Claude's login, look for a duplicate, save it *)

ImportRead(f) ==
    /\ Role[f] = "manage" /\ At(f, "idle")
    /\ live # NoCred
    /\ fl' = [fl EXCEPT ![f].pc = "impCheck", ![f].next = live]
    /\ UNCHANGED <<server, lapsed, disk, live, owner>>

\* The email is asked of the endpoint, which may not answer.
ImportCheck(f) ==
    /\ At(f, "impCheck")
    /\ IF OwnedByAnother(f, fl[f].next) THEN Finish(f, NoCred)
       ELSE /\ \E who \in {OwnerOf[fl[f].next.lin]} \cup (IF NetFails THEN {None} ELSE {}) :
                 fl' = [fl EXCEPT ![f].pc = "impSave", ![f].mail = who]
            /\ UNCHANGED owner
    /\ UNCHANGED <<server, lapsed, disk, live>>

ImportSave(f) ==
    /\ At(f, "impSave")
    /\ WriteVault(f)
    /\ Finish(f, fl[f].next)
    /\ UNCHANGED <<server, lapsed, live>>

(* renameSubscriptionAccount reads account and credential, then saves both *)

RenameRead(f) ==
    /\ Role[f] = "manage" /\ At(f, "idle")
    /\ Held(f) # NoCred
    /\ fl' = [fl EXCEPT ![f].pc = "rnSave", ![f].next = Held(f), ![f].mail = email[AcctOf[f]]]
    /\ UNCHANGED <<server, lapsed, disk, live, owner>>

RenameSave(f) ==
    /\ At(f, "rnSave")
    /\ WriteVault(f)
    /\ Finish(f, fl[f].next)
    /\ UNCHANGED <<server, lapsed, live>>

Remove(f) ==
    /\ Role[f] = "manage" /\ At(f, "idle")
    /\ Held(f) # NoCred
    /\ vault' = [vault EXCEPT ![AcctOf[f]] = NoCred]
    /\ email' = [email EXCEPT ![AcctOf[f]] = None]
    /\ UNCHANGED <<server, lapsed, live, owner, fl>>
-----------------------------------------------------------------------------
(* Claude Code, the user, the clock and the operating system *)

ClaudeRefresh ==
    /\ ClaudeRuns
    /\ live # NoCred /\ Honours(live)
    /\ \E rotates \in IF KeepsToken THEN BOOLEAN ELSE {TRUE} :
        LET new == Grant(live, rotates)
        IN /\ server' = [server EXCEPT ![new.lin] = [rt |-> new.rt, at |-> new.at]]
           /\ live' = new
    /\ UNCHANGED <<lapsed, disk, owner, fl>>

ClaudeLogin(l) ==
    /\ LoginAllowed
    /\ server[l].rt = 0
    /\ server' = [server EXCEPT ![l] = [rt |-> 1, at |-> 1]]
    /\ live' = First(l)
    /\ UNCHANGED <<lapsed, disk, owner, fl>>

Lapse(l) ==
    /\ lapsed[l] < server[l].at
    /\ lapsed' = [lapsed EXCEPT ![l] = @ + 1]
    /\ UNCHANGED <<server, disk, live, owner, fl>>

\* A process dies with every flight in it; its lock file stays.
Crash(p) ==
    /\ \E f \in Flight : ProcOf[f] = p /\ fl[f].pc \in CrashPoints
    /\ \A f \in Flight : ProcOf[f] = p => fl[f].pc \in CrashPoints \cup {"idle"}
    /\ fl' = [f \in Flight |-> IF ProcOf[f] = p THEN Idle ELSE fl[f]]
    /\ UNCHANGED <<server, lapsed, disk, live, owner>>

Progress(f) ==
    \/ Acquire(f) \/ RunUnlocked(f) \/ Reclaim(f)
    \/ Reread(f) \/ AdoptShared(f) \/ LoadStored(f)
    \/ Granted(f) \/ Refused(f) \/ Unreached(f) \/ MirrorRead(f) \/ MirrorWrite(f)
    \/ SaveRead(f) \/ SaveWrite(f) \/ HandRead(f) \/ HandWrite(f)
    \/ ResyncLoad(f) \/ ResyncLive(f) \/ ResyncOwned(f) \/ ResyncEmail(f)
    \/ Accepted(f) \/ Unauthorized(f) \/ RecoverCheck(f)
    \/ Install(f) \/ Verify(f) \/ ImportCheck(f) \/ ImportSave(f) \/ RenameSave(f)

Begin(f) == Ask(f) \/ Use(f) \/ ImportRead(f) \/ RenameRead(f) \/ Remove(f)

Next ==
    \/ \E f \in Flight : Begin(f) \/ Progress(f)
    \/ ClaudeRefresh
    \/ \E l \in Lineage : ClaudeLogin(l) \/ Lapse(l)
    \/ \E p \in Process : Crash(p)

Spec == Init /\ [][Next]_vars

\* Every await settles, and a waiter that never wins the lock runs without it
\* when its deadline has passed.
FairSpec == Spec /\ \A f \in Flight : WF_vars(Progress(f)) /\ WF_vars(RunUnlocked(f))
-----------------------------------------------------------------------------
(* Properties *)

Busy(f) == fl[f].pc # "idle"
Quiet == \A f \in Flight : ~Busy(f)
Current(c) == c # NoCred /\ c.rt = server[c.lin].rt

\* A refresh token is on its way to, or back from, the endpoint.
Spending(f) ==
    \/ fl[f].pc \in {"refresh", "mirror", "mirrorWrite"}
    \/ fl[f].pc \in {"save", "write"} /\ fl[f].then = "vault"

\* No two flights spend one refresh token at once, the vault's or Claude's own
\* (the resync spends those): the loser would be left holding an invalid_grant,
\* a logged-out account.  That is what SingleFlight and the account lock are for.
OneSpenderPerAnyToken ==
    \A f, g \in Flight :
        f # g /\ Spending(f) /\ Spending(g) => ~SameRefresh(fl[f].sent, fl[g].sent)

\* A rotation is never lost: as long as somebody holds a token of a lineage,
\* the lineage's current token is in the vault, in Claude's store, or carried
\* by a flight that is about to save it.
CarriedBy(f) == IF fl[f].pc \in {"mirror", "mirrorWrite", "email", "save", "write", "hand",
                                 "handWrite"} THEN {fl[f].next} ELSE {}
Everywhere == {vault[a] : a \in Account} \cup {live}
RotationNeverLost ==
    \A c \in Everywhere \ {NoCred} :
        \E d \in Everywhere \cup UNION {CarriedBy(f) : f \in Flight} :
            d.lin = c.lin /\ Current(d)

\* When nothing is in flight, Claude Code is not left on a dead refresh token.
ClaudeStaysLoggedIn == Quiet /\ live # NoCred => Current(live)

\* A vault account is never moved back along its own lineage.
MovesOn == \A a \in Account : vault'[a].lin = vault[a].lin => vault'[a].rt >= vault[a].rt
NeverMovesBack == [][MovesOn]_vars

\* The email guard: an account whose email is known holds that person's login.
HoldsOwnLogin ==
    \A a \in Account : vault[a] # NoCred /\ email[a] # None => OwnerOf[vault[a].lin] = email[a]

\* The proxy never retries with the very access token upstream refused.
RetriesWithAnotherToken ==
    \A f \in Flight : fl[f].result # NoCred => ~SameAccess(fl[f].result, fl[f].rejected)

\* The account lock is taken and left the way AccountMutex says.
StateOf(f, a) ==
    IF AcctOf[f] # a THEN "out"
    ELSE IF At(f, "lock") THEN "wait"
    ELSE IF fl[f].pc \in Inside /\ ~fl[f].probe
         THEN IF fl[f].locked THEN "in" ELSE "bare"
    ELSE "out"

LockOf(a) == INSTANCE AccountMutex WITH
                 Proc <- Flight, owner <- owner[a], st <- [f \in Flight |-> StateOf(f, a)]
LockIsFree == \A a \in Account : LockOf(a)!Init
LockStep == \A a \in Account : LockOf(a)!Next \/ UNCHANGED LockOf(a)!vars
UsesTheLock == LockIsFree /\ [][LockStep]_vars

\* `accounts use` puts the account's own login into Claude's store, never one
\* adopted on the way ("a switch must never heal by adopting whatever is live"):
\* where nothing else writes the account, that is the login it started with.
InstallsOwn ==
    \A f \in Flight : At(f, "install") /\ fl'[f].pc = "verify" => live'.lin = InitVault[AcctOf[f]]
SwitchInstallsOwn == [][InstallsOwn]_vars

\* Every operation ends.
EveryFlightEnds == \A f \in Flight : Busy(f) ~> ~Busy(f)
=============================================================================

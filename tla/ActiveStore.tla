---------------------------- MODULE ActiveStore -----------------------------
(* Switching Claude Code's own login: ClaudeActiveCredentialStore (packages/adapters/src/
   subscriptions/activeStore.ts) under activateAccount (apps/cli/src/accounts.ts) and
   switchSubscriptionAccount (apps/web/src/lib/store.server.ts).

   The login lives in a Keychain item, in the credentials file, or in both; Claude Code reads the
   item first.  Several switches run at once, each in a process of its own, with nothing between
   them.  Every call of `security` and every access to the file is a step.  A credential is
   told apart by its identity, the hash of its refresh token; the other keys of item and file
   are left out.  The fresh credential a switch starts from is FreshCredential's subject.       *)
EXTENDS Naturals

CONSTANTS
    Switch, WantOf,  \* the switches, the login each of them writes
    Login,           \* logins that Claude Code may store
    None,            \* no item, no file, no login in it
    HasSecurity,     \* whether there is a `security` binary (macOS)
    MaxMoves         \* bound on what Claude Code, the user and the Keychain do

VARIABLES
    item,     \* the Keychain item: None, "bare" (it carries no OAuth payload) or its login
    file,     \* .credentials.json: None, "corrupt" or its login
    granted,  \* whether `security` hands the item over to swisscode
    pc,       \* of each switch
    saw,      \* what its last read said of the Keychain
    leg,      \* what its write did to the Keychain: ActiveWriteReport["keychain"]
    retried,  \* whether this is the second attempt
    moves,
    lived,    \* history: the phases of the last attempt in which Claude Code was on WantOf
    moved     \* history: whether somebody else changed the item since the attempt began

vars == <<item, file, granted, pc, saw, leg, retried, moves, lived, moved>>
-----------------------------------------------------------------------------
Absent == {None, "bare"}

\* The login a new claude process starts with (external).
LiveOf(i, f) == IF i \notin Absent THEN i ELSE IF f = "corrupt" THEN None ELSE f
Live == LiveOf(item, file)

Reads == {"before", "pre", "confirm", "reread", "after"}
FileStep(r) ==
    CASE r = "before" -> "beforeFile" [] r = "pre" -> "preFile" [] r = "confirm" -> "confirmFile"
      [] r = "reread" -> "rereadFile" [] r = "after" -> "afterFile"
Ended == {"switched", "unverified", "failed"}
PC == Reads \cup {FileStep(r) : r \in Reads} \cup Ended \cup {"idle", "readItem", "account", "add", "mirror"}
KeychainReadState == {"ok", "not-found", "unreadable", "unavailable"}

TypeOK ==
    /\ item \in Login \cup Absent /\ file \in Login \cup {None, "corrupt"}
    /\ granted \in BOOLEAN /\ moves \in 0..MaxMoves
    /\ pc \in [Switch -> PC] /\ retried \in [Switch -> BOOLEAN]
    /\ saw \in [Switch -> KeychainReadState]
    /\ leg \in [Switch -> {"written", "absent", "unavailable", "none"}]
    /\ lived \in [Switch -> SUBSET {"write", "report"}] /\ moved \in [Switch -> BOOLEAN]
    /\ \A s \in Switch : pc[s] \in {"mirror", "reread", "rereadFile"} => leg[s] # "none"

Init ==
    /\ item \in Absent \cup Login /\ (item # None => HasSecurity)
    /\ file \in {None, "corrupt"} \cup Login
    /\ granted \in BOOLEAN /\ moves = 0
    /\ pc = [s \in Switch |-> "idle"] /\ retried = [s \in Switch |-> FALSE]
    /\ saw = [s \in Switch |-> "not-found"] /\ leg = [s \in Switch |-> "none"]
    /\ lived = [s \in Switch |-> {}] /\ moved = [s \in Switch |-> FALSE]

Goto(s, step) == pc' = [pc EXCEPT ![s] = step]

\* The history of every step: an attempt begins with its reads, its report is
\* followed by the last read.
Phase(step) ==
    CASE step \in {"after", "afterFile"} -> {"report"}
      [] step \in {"idle", "before", "beforeFile"} \cup Ended -> {}
      [] OTHER -> {"write"}

Record ==
    /\ lived' = [s \in Switch |->
                    (IF pc'[s] = "pre" /\ pc[s] # "pre" THEN {} ELSE lived[s])
                       \cup (IF LiveOf(item', file') = WantOf[s] THEN Phase(pc'[s]) ELSE {})]
    /\ moved' = [s \in Switch |->
                    IF pc'[s] = "pre" /\ pc[s] # "pre" THEN FALSE
                    ELSE moved[s] \/ (item' # item /\ pc'[s] = pc[s])]

(* Reading *)

\* readKeychain: exit status 44 and an empty answer are "not-found", any other
\* failure may hide an item.
KeychainRead ==
    IF ~HasSecurity THEN "unavailable"
    ELSE IF item = None THEN "not-found"
    ELSE IF granted THEN "ok" ELSE "unreadable"

\* The second attempt, 500 ms later, or the error that ends the switch.
Failed(s, kind) ==
    /\ leg' = [leg EXCEPT ![s] = "none"]
    /\ IF kind = "write-failed" /\ ~retried[s]
       THEN Goto(s, "pre") /\ retried' = [retried EXCEPT ![s] = TRUE]
       ELSE Goto(s, "failed") /\ UNCHANGED retried

Proceed(s, step, did) ==
    Goto(s, step) /\ leg' = [leg EXCEPT ![s] = did] /\ UNCHANGED retried

\* The reread of writeActiveReport: the login, and on the backend that took it.
Landed(s, backend, login) ==
    login = WantOf[s] /\ (leg[s] = "written" => backend = "keychain")

\* The first read of writeActiveReport decides on the legs.
AfterPre(s, keychain) ==
    CASE keychain = "unreadable" -> Failed(s, "keychain-unreadable")
      [] keychain = "unavailable" -> Proceed(s, "mirror", "unavailable")
      [] OTHER -> Proceed(s, "readItem", "none")

\* A bug: the report of the write is taken for proof.
VerdictOfReport(s, login) == "switched"

\* The caller's own read.
Verdict(s, login) == IF login = WantOf[s] THEN "switched" ELSE "unverified"

\* `before` is only compared with; `confirm` ends writeKeychain and `reread` writeActiveReport.
AfterRead(s, r, keychain, backend, login) ==
    CASE r = "before" -> Proceed(s, "pre", "none")
      [] r = "pre" -> AfterPre(s, keychain)
      [] r = "confirm" ->
            IF backend = "keychain" /\ login = WantOf[s] THEN Proceed(s, "mirror", "written")
                                                         ELSE Failed(s, "write-failed")
      [] r = "reread" ->
            IF Landed(s, backend, login) THEN Proceed(s, "after", "none") ELSE Failed(s, "write-failed")
      [] r = "after" -> Proceed(s, Verdict(s, login), "none")

\* readActiveDetail: the item when it holds a login ...
ReadItemFirst(s, r) ==
    /\ pc[s] = r
    /\ IF KeychainRead = "ok" /\ item # "bare"
       THEN saw' = [saw EXCEPT ![s] = "ok"] /\ AfterRead(s, r, "ok", "keychain", item)
       ELSE /\ saw' = [saw EXCEPT ![s] = IF KeychainRead = "ok" THEN "not-found" ELSE KeychainRead]
            /\ Goto(s, FileStep(r)) /\ UNCHANGED <<leg, retried>>
    /\ UNCHANGED <<item, file, granted, moves>>

\* ... and else the file, whatever kept the item from being read.
ReadFileNext(s, r) ==
    /\ pc[s] = FileStep(r)
    /\ IF file \in Login
       THEN AfterRead(s, r, saw[s], "file", file)
       ELSE AfterRead(s, r, saw[s], "none", None)
    /\ UNCHANGED <<item, file, granted, saw, moves>>
-----------------------------------------------------------------------------
(* Writing *)

\* `accounts use`, or the switch of the web UI.
Begin(s) ==
    /\ pc[s] = "idle" /\ Goto(s, "before")
    /\ UNCHANGED <<item, file, granted, saw, leg, retried, moves>>

\* writeKeychain reads the item it is about to merge into ...
ReadItem(s) ==
    /\ pc[s] = "readItem"
    /\ IF KeychainRead = "unreadable"
       THEN Failed(s, "keychain-unreadable")
       ELSE Goto(s, "account") /\ UNCHANGED <<leg, retried>>
    /\ UNCHANGED <<item, file, granted, saw, moves>>

\* ... and looks its account name up.  No name is no item: when the first read
\* had found none either, the file alone is the switch.
ItemAccount(s) ==
    /\ pc[s] = "account"
    /\ IF item # None
       THEN Proceed(s, "add", "none")
       ELSE IF saw[s] = "ok" THEN Failed(s, "keychain-missing") ELSE Proceed(s, "mirror", "absent")
    /\ UNCHANGED <<item, file, granted, saw, moves>>

\* add-generic-password -U: updates the item, creates one that is gone, or is denied.
Add(s) ==
    /\ pc[s] = "add"
    /\ \/ granted /\ item' = WantOf[s] /\ Goto(s, "confirm") /\ UNCHANGED <<leg, retried>>
       \/ Failed(s, "write-failed") /\ UNCHANGED item
    /\ UNCHANGED <<file, granted, saw, moves>>

\* writeFile: the mirror of the Keychain, or the login itself.  A mirror that
\* cannot be written is a warning.
Mirror(s) ==
    /\ pc[s] = "mirror" /\ file' = WantOf[s] /\ Goto(s, "reread")
    /\ UNCHANGED <<item, granted, saw, leg, retried, moves>>

MirrorFails(s) ==
    /\ pc[s] = "mirror"
    /\ IF leg[s] = "written" THEN Proceed(s, "reread", "written") ELSE Failed(s, "write-failed")
    /\ UNCHANGED <<item, file, granted, saw, moves>>

-----------------------------------------------------------------------------
(* Claude Code, its user and the Keychain: external *)

Move == moves < MaxMoves /\ moves' = moves + 1

\* A session refreshes its login or persists the one it had before, or the user
\* logs in.  The item takes it where there is a Keychain.
ClaudeStores(l) ==
    /\ Move /\ UNCHANGED <<granted, pc, saw, leg, retried>>
    /\ IF HasSecurity THEN item' = l /\ UNCHANGED file ELSE file' = l /\ UNCHANGED item

ClaudeLogsOut ==
    /\ Move /\ item # None /\ item' = None /\ UNCHANGED <<file, granted, pc, saw, leg, retried>>

\* The Keychain is locked or unlocked, a prompt is approved or denied.
AccessChanges ==
    /\ Move /\ HasSecurity /\ granted' = ~granted
    /\ UNCHANGED <<item, file, pc, saw, leg, retried>>

SwitchStep(s) ==
    \/ Begin(s) \/ \E r \in Reads : ReadItemFirst(s, r) \/ ReadFileNext(s, r)
    \/ ReadItem(s) \/ ItemAccount(s) \/ Add(s) \/ Mirror(s) \/ MirrorFails(s)

Next ==
    \/ \E s \in Switch : SwitchStep(s) /\ Record
    \/ \E l \in Login : ClaudeStores(l) /\ Record
    \/ (ClaudeLogsOut \/ AccessChanges) /\ Record

Spec == Init /\ [][Next]_vars
-----------------------------------------------------------------------------
(* Properties *)

(* A switch that is reported has taken effect, as long as the last read could tell: Claude Code
   was on the new login at some moment since the write was reported (store.server.ts:818-821). *)
SwitchTookEffect ==
    \A s \in Switch : pc[s] = "switched" /\ saw[s] # "unreadable" => "report" \in lived[s]

(* Nothing is half switched: the file is not given a new login while Claude Code keeps reading
   another one from a Keychain item that nobody else touched in between (activeStore.ts:6-11).  *)
MirrorsOnlyItsOwn ==
    \A s \in Switch :
        pc[s] = "mirror" /\ file' # file /\ pc'[s] # pc[s]
            => moved[s] \/ item \in Absent \cup {WantOf[s]}
=============================================================================

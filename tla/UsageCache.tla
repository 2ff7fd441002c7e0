------------------------------ MODULE UsageCache ------------------------------
(* The last-good usage of one account and its back-off: CachingUsageClient over FileUsageCache
   (packages/adapters/src/subscriptions/usageCache.ts), the Retry-After header (retryAfter.ts) and
   the usage request itself (anthropic.ts).

   set drops every other entry of its account id, so the file holds one entry per id: what it
   does to the entries of other ids is ConfigStores' subject.                                  *)
EXTENDS Integers

CONSTANTS
    Call,        \* concurrent readings: proxy, CLI and web UI
    Login,       \* logins that are imported under the id
    None,        \* no entry, no snapshot, no header
    Headers,     \* what Retry-After may say; None: nothing; below 0: a date that has passed
    MaxRetryAfter, DefaultBackoff,  \* MAX_RETRY_AFTER_MS, DEFAULT_429_BACKOFF_MS
    MaxTime      \* bound on the clock

VARIABLES
    now, vault,  \* the clock; the login the account holds
    file,        \* the entry: None or its key, snapshot and the end of its back-off
    call,        \* of each call: its step, its token's login, its key, what it read, its result
    raced        \* history: the login changed while a call was on its way from token to key

vars == <<now, vault, file, call, raced>>

Snapshot == [login : Login, at : 0..MaxTime]
Entry == [key : Login, snapshot : Snapshot \cup {None}, notBefore : 0..(MaxTime + MaxRetryAfter)]
Idle == [pc |-> "idle", token |-> None, key |-> None, cached |-> None, shown |-> None]

TypeOK ==
    /\ now \in 0..MaxTime /\ vault \in Login /\ raced \in BOOLEAN /\ file \in Entry \cup {None}
    /\ \A c \in Call : /\ call[c].pc \in {"idle", "key", "read", "fetch", "fresh", "stale", "failed"}
                       /\ {call[c].token, call[c].key} \subseteq Login \cup {None}
                       /\ call[c].cached \in Entry \cup {None}
                       /\ call[c].shown \in Snapshot \cup {None}

Init == now = 0 /\ vault \in Login /\ file = None /\ call = [c \in Call |-> Idle]
        /\ raced = FALSE

At(c, step) == call[c].pc = step
End(c, how, snapshot) ==
    call' = [call EXCEPT ![c] = [Idle EXCEPT !.pc = how, !.token = call[c].token, !.shown = snapshot]]
-----------------------------------------------------------------------------
\* A caller has loaded the account's credential ...
Begin(c) ==
    /\ call[c].pc \in {"idle", "fresh", "stale", "failed"}
    /\ call' = [call EXCEPT ![c] = [Idle EXCEPT !.pc = "key", !.token = vault]]
    /\ UNCHANGED <<now, vault, file, raced>>

\* ... and fetchUsage asks the vault for the login's email, the second half of the key.
ResolveKey(c) ==
    /\ At(c, "key") /\ call' = [call EXCEPT ![c].pc = "read", ![c].key = vault]
    /\ raced' = (raced \/ vault # call[c].token) /\ UNCHANGED <<now, vault, file>>

Mine(c) == IF file # None /\ file.key = call[c].key THEN file ELSE None

\* Inside a back-off window the network is not touched.
Read(c) ==
    /\ At(c, "read") /\ UNCHANGED <<now, vault, file, raced>>
    /\ IF Mine(c) # None /\ Mine(c).notBefore > now
       THEN IF Mine(c).snapshot = None THEN End(c, "failed", None) ELSE End(c, "stale", Mine(c).snapshot)
       ELSE call' = [call EXCEPT ![c].pc = "fetch", ![c].cached = Mine(c)]

\* A bug: the server's advice is taken as it is.
ParseRetryAfterUncapped(header) ==
    IF header = None THEN None ELSE IF header < 0 THEN 0 ELSE header

\* parseRetryAfterMs: None without a usable header, else within 0 and the ceiling.
ParseRetryAfter(header) ==
    CASE header = None -> None
      [] header # None /\ header < 0 -> 0
      [] header # None /\ header >= 0 -> IF header > MaxRetryAfter THEN MaxRetryAfter ELSE header

Backoff(header) ==
    IF ParseRetryAfter(header) = None THEN DefaultBackoff ELSE ParseRetryAfter(header)

Set(c, snapshot, notBefore) ==
    file' = [key |-> call[c].key, snapshot |-> snapshot, notBefore |-> notBefore]

\* The endpoint answers for the login of the token.
Fetched(c) ==
    /\ At(c, "fetch") /\ UNCHANGED <<now, vault, raced>>
    /\ LET snapshot == [login |-> call[c].token, at |-> now]
       IN Set(c, snapshot, 0) /\ End(c, "fresh", snapshot)

\* 401 and 403 leave the cache alone.
Unauthorized(c) == At(c, "fetch") /\ End(c, "failed", None) /\ UNCHANGED <<now, vault, file, raced>>

\* Any other failure begins a back-off; the snapshot read before is shown and kept.
Refused(c) ==
    /\ At(c, "fetch") /\ UNCHANGED <<now, vault, raced>>
    /\ LET snapshot == IF call[c].cached = None THEN None ELSE call[c].cached.snapshot
       IN /\ \E header \in Headers : Set(c, snapshot, now + Backoff(header))
          /\ IF snapshot = None THEN End(c, "failed", None) ELSE End(c, "stale", snapshot)

\* The account is removed and another login imported under its id; time passes.
Reimport == vault' \in Login \ {vault} /\ UNCHANGED <<now, file, call, raced>>
Tick == now < MaxTime /\ now' = now + 1 /\ UNCHANGED <<vault, file, call, raced>>

Next ==
    \/ \E c \in Call : \/ Begin(c) \/ ResolveKey(c) \/ Read(c)
                       \/ Fetched(c) \/ Unauthorized(c) \/ Refused(c)
    \/ Reimport \/ Tick

Spec == Init /\ [][Next]_vars
-----------------------------------------------------------------------------
(* Properties *)

(* However the answers of concurrent readings land, the account is not kept from being read for
   longer than the ceiling ("a wrong value self-heals", retryAfter.ts:11-17), and while no login
   changes under a call between its token and its key, nobody is shown another login's usage.    *)
UsageStaysOwnAndHeals ==
    /\ file # None => file.notBefore <= now + MaxRetryAfter
    /\ ~raced => \A c \in Call : call[c].shown # None => call[c].shown.login = call[c].token
=============================================================================

---------------------------- MODULE RequestRouting ----------------------------
(* From a stored profile to the credential that serves a request: what may be saved
   (core/src/service.ts, modelRoutes.ts), the launch (cli/src/index.ts, cli/src/proxy.ts,
   adapters/src/proxy/launch.ts) and the proxy's choice of the upstream for each request
   (adapters/src/proxy/server.ts), while profiles and accounts are edited.  A session of Claude Code
   keeps the name it was launched with; the proxy reads the stores again for every request, one
   store after the other.  A model id stands for itself; an upstream failure is ProxyRequest's.   *)
EXTENDS Naturals, Sequences, FiniteSets, SequencesExt

CONSTANTS
    Name,       \* profile names
    Profiles,   \* the profiles users write: [base, sub, key, inline, direct, cwd, routes]
    Vault,      \* ids of subscription accounts
    Key,        \* provider accounts, each a pair of provider and id
    Model,      \* models that requests ask for
    None,
    MaxEdits    \* bound on the edits

Subscription == "claude-subscription"

VARIABLES
    store,    \* profiles.json: each name's profile, or None
    vault,    \* the subscription accounts stored, in the order of their list
    keys,     \* the provider accounts stored
    active,   \* the account the proxy prefers, or None
    live,     \* the account Claude's own store was switched to, or None
    launch,   \* the launch under way: its step, its name, the profile it read
    session,  \* what the last launch spawned: [mode, name], or None
    request,  \* the request under way: its step, the profile and route read, the outcome
    edits

stores == <<store, vault, keys>>
vars == <<store, vault, keys, active, live, launch, session, request, edits>>

NoLaunch == [pc |-> "idle", name |-> None, profile |-> None]
NoRequest == [pc |-> "idle", name |-> None, model |-> None, profile |-> None, route |-> None, pin |-> None,
              found |-> None, via |-> None, begun |-> None]

Init ==
    /\ store = [n \in Name |-> None] /\ vault = SetToSeq(Vault) /\ keys = Key
    /\ active = None /\ live = None /\ session = None /\ edits = 0
    /\ launch = NoLaunch /\ request = NoRequest

TypeOK ==
    /\ \A n \in Name : store[n] \in Profiles \cup {None}
    /\ ToSet(vault) \subseteq Vault /\ keys \subseteq Key /\ {active, live} \subseteq Vault \cup {None}
    /\ launch.pc \in {"idle", "chosen", "spawn"} /\ launch.profile \in Profiles \cup {None}
    /\ request.pc \in {"idle", "pick", "resolve", "candidates", "serve"}
    /\ edits \in 0..MaxEdits
-----------------------------------------------------------------------------
(* The stores *)

\* validateModelRoutes() without lookups: routes need the proxy, no match twice, an account of the
\* route's own kind.
RoutesAreValid(p) ==
    /\ p.direct => p.routes = <<>>
    /\ \A i, j \in DOMAIN p.routes : p.routes[i].match = p.routes[j].match => i = j
    /\ \A i \in DOMAIN p.routes :
        IF p.routes[i].kind = "subscription" THEN p.routes[i].key = None
        ELSE p.routes[i].key # None /\ p.routes[i].sub = None

Edit == edits < MaxEdits /\ edits' = edits + 1

\* saveProfile(): no look at the accounts it names.
Save(n, p) ==
    /\ Edit /\ RoutesAreValid(p) /\ store' = [store EXCEPT ![n] = p]
    /\ UNCHANGED <<vault, keys, active, live, launch, session, request>>

DeleteProfile(n) ==
    /\ Edit /\ store[n] # None /\ store' = [store EXCEPT ![n] = None]
    /\ UNCHANGED <<vault, keys, active, live, launch, session, request>>

\* An account is removed; nothing looks for the profiles and the routes that name it.
RemoveSubscription(a) ==
    /\ Edit /\ \E i \in DOMAIN vault : vault[i] = a /\ vault' = RemoveAt(vault, i)
    /\ UNCHANGED <<store, keys, active, live, launch, session, request>>
RemoveKey(k) ==
    /\ Edit /\ k \in keys /\ keys' = keys \ {k}
    /\ UNCHANGED <<store, vault, active, live, launch, session, request>>
-----------------------------------------------------------------------------
(* The launch *)

AbortLaunch == launch' = NoLaunch /\ UNCHANGED session

\* cmdLaunch() and resolveProfileForLaunch(): the profile, and the account it refers to.
Resolve(n) ==
    /\ launch.pc = "idle" /\ store[n] # None
    /\ store[n].key = None \/ store[n].key \in keys
    /\ launch' = [pc |-> "chosen", name |-> n, profile |-> store[n]]
    /\ UNCHANGED <<store, vault, keys, active, live, session, request, edits>>

\* The bound account is made the proxy's, or Claude's own login; either refuses an unknown one.
Choose ==
    /\ launch.pc = "chosen" /\ UNCHANGED <<store, vault, keys, request, edits>>
    /\ LET p == launch.profile
       IN IF p.base # Subscription \/ p.sub = None
          THEN launch' = [launch EXCEPT !.pc = "spawn"] /\ UNCHANGED <<active, live, session>>
          ELSE IF p.sub \notin ToSet(vault) THEN AbortLaunch /\ UNCHANGED <<active, live>>
          ELSE /\ launch' = [launch EXCEPT !.pc = "spawn"] /\ UNCHANGED session
               /\ IF p.direct THEN live' = p.sub /\ UNCHANGED active
                  ELSE active' = p.sub /\ UNCHANGED live

\* resolveLaunchSpec(), the working directory, and the process with its environment; a launch that
\* fails here leaves the account chosen.
Spawn ==
    /\ launch.pc = "spawn" /\ UNCHANGED <<store, vault, keys, active, live, request, edits>>
    /\ LET p == launch.profile
       IN IF ~p.cwd \/ (p.base # Subscription /\ p.inline = None /\ p.key = None)
          THEN AbortLaunch
          ELSE /\ session' = [mode |-> IF p.direct THEN "direct" ELSE "proxy", name |-> launch.name]
               /\ launch' = NoLaunch
-----------------------------------------------------------------------------
(* A request of a proxied session *)

Over == request' = NoRequest

\* The request comes in, with the session's name.
Ask(m) ==
    /\ request.pc = "idle" /\ session # None /\ session.mode = "proxy"
    /\ request' = [NoRequest EXCEPT !.pc = "pick", !.name = session.name, !.model = m,
                                    !.begun = [vault |-> ToSet(vault), keys |-> keys]]
    /\ UNCHANGED <<store, vault, keys, active, live, launch, session, edits>>

\* No such profile: 404.
Unknown == Over

\* selectModelRoute(): the first route for the model.
RouteFor(p, m) ==
    LET at == {i \in DOMAIN p.routes : p.routes[i].match = m}
    IN IF at = {} THEN None ELSE p.routes[CHOOSE i \in at : \A j \in at : i <= j]

Pick ==
    /\ request.pc = "pick" /\ UNCHANGED <<store, vault, keys, active, live, launch, session, edits>>
    /\ LET p == store[request.name]
       IN IF p = None THEN Unknown
          ELSE request' = [request EXCEPT !.pc = "resolve", !.profile = p, !.route = RouteFor(p, request.model)]

\* Mutated form of ToVault: an account that is gone is no preference.
ToVaultAnyway(pin) == request' = [request EXCEPT !.pc = "candidates", !.pin = pin]

\* A subscription account: refused when it is gone, else it goes first and the vault follows.
ToVault(pin) ==
    IF pin # None /\ pin \notin ToSet(vault) THEN Over
    ELSE request' = [request EXCEPT !.pc = "candidates", !.pin = pin]

\* keyAccount() and handleKeyBackend(): the account is read, and the profile's inline config wins.
ToKey(k) ==
    IF k = None \/ k \notin keys THEN Over
    ELSE request' = [request EXCEPT !.pc = "serve", !.found = <<k>>,
                                    !.via = IF request.profile.inline # None THEN request.profile.inline ELSE k]

\* resolveBackend(): a route with an account of its own wins, else the profile's binding.
ResolveBackend ==
    /\ request.pc = "resolve" /\ UNCHANGED <<store, vault, keys, active, live, launch, session, edits>>
    /\ LET p == request.profile
           r == request.route
       IN IF r # None /\ r.kind = "subscription" /\ r.sub # None THEN ToVault(r.sub)
          ELSE IF r # None /\ r.kind = "providerAccount" THEN ToKey(r.key)
          ELSE IF p.base = Subscription THEN ToVault(p.sub)
          ELSE ToKey(p.key)

\* candidates(): a second read of the vault; the pin goes first even if it was removed meanwhile.
Candidates ==
    LET rest == SelectSeq(IF active \in ToSet(vault)
                          THEN <<active>> \o SelectSeq(vault, LAMBDA a : a # active) ELSE vault,
                          LAMBDA a : a # request.pin)
        ids == IF request.pin = None THEN rest ELSE <<request.pin>> \o rest
    IN /\ request.pc = "candidates" /\ UNCHANGED <<store, vault, keys, active, live, launch, session, edits>>
       /\ request' = IF ids = <<>> THEN NoRequest ELSE [request EXCEPT !.pc = "serve", !.found = ids]

\* The first account whose credential is still there and that answers; all may fail.
Serve ==
    /\ request.pc = "serve" /\ UNCHANGED <<store, vault, keys, active, live, launch, session, edits>>
    /\ \/ Over
       \/ /\ request.via = None
          /\ \E a \in ToSet(request.found) \cap ToSet(vault) : request' = [request EXCEPT !.via = a]

Next ==
    \/ \E n \in Name : DeleteProfile(n) \/ Resolve(n) \/ \E p \in Profiles : Save(n, p)
    \/ \E a \in Vault : RemoveSubscription(a)
    \/ \E k \in Key : RemoveKey(k)
    \/ Choose \/ Spawn \/ (\E m \in Model : Ask(m)) \/ Pick \/ ResolveBackend \/ Candidates \/ Serve

Spec == Init /\ [][Next]_vars
-----------------------------------------------------------------------------
(* Config problems "fail closed per request ... never a silent wrong upstream" (server.ts:1128-1129):
   a request that is served belongs to a profile that was stored while it ran; an account that was
   removed before the request came in neither serves it nor is replaced by another one, and the
   kind of upstream is the one its route or its profile names, whatever is edited in between.      *)
FailsClosed ==
    request.via # None =>
        LET p == request.profile
            r == request.route
            named == IF r # None /\ r.kind = "providerAccount" THEN r.key
                     ELSE IF r # None /\ r.kind = "subscription" /\ r.sub # None THEN r.sub
                     ELSE IF p.base = Subscription THEN p.sub ELSE p.key
        IN /\ p # None
           /\ named # None => named \in request.begun.vault \cup request.begun.keys
           /\ (request.via \in Vault) <=> (named \in Vault \cup {None})
           /\ request.via \in Vault => request.via \in request.begun.vault

(* "an optional explicit route, which wins outright" (server.ts:602): a request with a route is
   served by an account of the kind the route says, and a key route with the key of its account.   *)
RouteWinsOutright ==
    request.via # None /\ request.route # None =>
        IF request.route.kind = "subscription" THEN request.via \in Vault ELSE request.via = request.route.key
=============================================================================

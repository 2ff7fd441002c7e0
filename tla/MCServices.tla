----------------------------- MODULE MCServices -----------------------------
(* Nine parts of swisscode that share no variable, of which a behaviour is in one: the configuration
   stores (the module extended here), the replacement of one file, switches of Claude's own login,
   starts of the proxy, the usage and the model caches, and what becomes of a profile: the page that
   makes it, the launch that runs it and the routing of its requests.                            *)
EXTENDS ConfigStores, Integers, Sequences, TLC

CONSTANTS f1, f2, p1, c1, q1, q2, a1, v1, v2, w1, w2,   \* of the stores and the file
          s1, s2, la, lb, r1, r2, call1, Foreign,       \* of the switches and the starts
          u1, u2, id1, id2, m1, m2, m3,                 \* of the caches
          n1, k1, k2, ma, mb                            \* of the routing
VARIABLES
    part,
    target, onDisk, bak, temp, fileStep, crashes,                                       \* AtomicFile
    item, credFile, granted, switching, saw, leg, retried, moves, lived, moved,         \* ActiveStore
    token, port, accounts, run, probed, cpc, sent, others, steady,                      \* ProxyStart
    now, vault, entry, call, raced,                                                     \* UsageCache
    clock, listFile, inflight, list,                                                    \* ModelCatalog
    store, subs, keys, active, live, launch, session, request, edits,                   \* RequestRouting
    profile, config, customs, command, shown, child, changes,                           \* LaunchPlan
    stored, listed, page, saved, rejected, init, made, removals                         \* ProfileForm

fileVars == <<target, onDisk, bak, temp, fileStep, crashes>>
switchVars == <<item, credFile, granted, switching, saw, leg, retried, moves, lived, moved>>
startVars == <<token, port, accounts, run, probed, cpc, sent, others, steady>>
usageVars == <<now, vault, entry, call, raced>>
listVars == <<clock, listFile, inflight, list>>
routeVars == <<store, subs, keys, active, live, launch, session, request, edits>>
launchVars == <<profile, config, customs, command, shown, child, changes>>
formVars == <<stored, listed, page, saved, rejected, init, made, removals>>
mcVars == <<part, vars, fileVars, switchVars, startVars, usageVars, listVars, routeVars, launchVars, formVars>>
-----------------------------------------------------------------------------
(* The stores: one process makes two calls at a time; there is one custom provider, one account and
   two profiles, one of them in the bundle that is restored, which would make the provider's field
   an open one.                                                                                  *)
OneProcess == [f \in Flight |-> p1]
Providers == [k \in Profile \cup Account |-> c1]
CallOf(op, s, k, v) == [op |-> op, store |-> s, key |-> k, value |-> v]
AllJobs ==
    {CallOf("save", "customs", c1, "secret"),
     CallOf("remove", "profiles", q1, None), CallOf("remove", "accounts", a1, None),
     [op |-> "retire", key |-> c1], [op |-> "update", key |-> a1, value |-> Blank],
     [op |-> "add", key |-> a1, value |-> v1], [op |-> "export"],
     [op |-> "import", overwrite |-> TRUE], [op |-> "import", overwrite |-> FALSE]}
OpenBundle == [customs |-> c1 :> "open", profiles |-> q1 :> None @@ q2 :> Blank,
               accounts |-> a1 :> v1, settings |-> "settings" :> "off"]
Fresh == [customs |-> c1 :> "secret", profiles |-> q1 :> v1 @@ q2 :> None,
          accounts |-> a1 :> None, settings |-> "settings" :> "off"]

Atomic == INSTANCE AtomicFile
          WITH Writer <- {w1, w2}, KeepBackup <- TRUE, MaxCrashes <- 2, pc <- fileStep

\* Two switches of a machine with a Keychain.
Active == INSTANCE ActiveStore
          WITH Switch <- {s1, s2}, WantOf <- s1 :> la @@ s2 :> lb, Login <- {la, lb},
               HasSecurity <- TRUE, MaxMoves <- 1, file <- credFile, pc <- switching

\* `proxy run` beside `swisscode web`, and one caller.
Start == INSTANCE ProxyStart WITH Run <- {r1, r2}, Web <- {r2}, Call <- {call1}, pc <- run

\* Two readings of an account whose login may be replaced.
Usage == INSTANCE UsageCache
         WITH Call <- {u1, u2}, Login <- {id1, id2}, Headers <- {None, -1, 9}, MaxRetryAfter <- 1,
              DefaultBackoff <- 1, MaxTime <- 1, file <- entry

\* Two renders of one process and one of another.
Catalog == INSTANCE ModelCatalog
           WITH Render <- {m1, m2, m3}, Process <- {1, 2}, ProcOf <- m1 :> 1 @@ m2 :> 1 @@ m3 :> 2,
                Ttl <- 1, MaxTime <- 2, now <- clock, file <- listFile

\* Profiles with a bound account, with routes of both kinds, and those no launch can serve.
Prof(base, sub, key, inline, direct, cwd, routes) ==
    [base |-> base, sub |-> sub, key |-> key, inline |-> inline, direct |-> direct, cwd |-> cwd, routes |-> routes]
ToSub(m, a) == [match |-> m, kind |-> "subscription", sub |-> a, key |-> None]
ToKeyOf(m, k) == [match |-> m, kind |-> "providerAccount", sub |-> None, key |-> k]
SomeProfiles ==
    LET own == "claude-subscription"
    IN {Prof(own, v1, None, None, FALSE, TRUE, <<ToKeyOf(ma, k1)>>),
        Prof(own, None, None, None, FALSE, TRUE, <<ToSub(ma, v2)>>),
        Prof(own, v2, None, None, TRUE, TRUE, <<>>), Prof(own, v1, None, None, FALSE, FALSE, <<>>),
        Prof("key", None, k2, None, FALSE, TRUE, <<ToSub(ma, v1)>>),
        Prof("key", None, None, "inline", FALSE, TRUE, <<>>)}
Routing == INSTANCE RequestRouting
           WITH Name <- {n1}, Profiles <- SomeProfiles, Vault <- {v1, v2}, Key <- {k1, k2},
                Model <- {ma, mb}, MaxEdits <- 3, vault <- subs

\* A launch with OpenRouter, Meta or a custom gateway, of which there are bad definitions as well.
Configured(k, m, g) == "apiKey" :> k @@ "model" :> m @@ "gate" :> g
Blankly == Configured(None, None, None)
OpenRouter == [id |-> "openrouter", fields |-> {"apiKey", "model"}, required |-> {"apiKey"}, secret |-> {"apiKey"},
               static |-> ("BASE" :> "openrouter"), fromConfig |-> ("TOKEN" :> "apiKey"), modelVars |-> {"MODEL"},
               default |-> None]
Meta == [OpenRouter EXCEPT !.id = "meta", !.static = "BASE" :> "meta", !.modelVars = {"MODEL", "SMALL"},
                           !.default = "muse"]
Gateway == [id |-> "gateway", fields |-> {"gate"}, required |-> {}, secret |-> {"gate"},
            static |-> ("BASE" :> "gateway"), fromConfig |-> ("GATEWAY" :> "gate"), modelVars |-> {}, default |-> None]
SomeDefs == {Gateway, [Gateway EXCEPT !.static = "PATH" :> "dir" @@ "TOKEN" :> "static"],
             [Gateway EXCEPT !.id = "openrouter"]}
PlainSession == [curated |-> <<>>, mcp |-> None, settings |-> None, fallback |-> FALSE]
RichSession == [curated |-> <<[flag |-> "--effort", dir |-> None, value |-> "high"]>>, mcp |-> "inline",
                settings |-> "PATH" :> "dir" @@ "LANG" :> "C", fallback |-> TRUE]
Launched(p, a, inline, m, s, direct, cwd) ==
    [id |-> "one", provider |-> p, account |-> a, inline |-> inline, model |-> m, session |-> s, args |-> <<>>,
     direct |-> direct, cwd |-> cwd]
LaunchProfiles ==
    {Launched("openrouter", "acc", Blankly, None, RichSession, FALSE, None),
     Launched("openrouter", "acc", Blankly, "m1", PlainSession, TRUE, None),
     Launched("meta", "acc", Blankly, None, PlainSession, TRUE, "gone"),
     Launched("gateway", None, Configured(None, None, "k2"), "m1", [RichSession EXCEPT !.mcp = "file"], FALSE, "there"),
     Launched("gateway", None, Blankly, None, [PlainSession EXCEPT !.mcp = "broken"], FALSE, "relative")}
Launch == INSTANCE LaunchPlan
          WITH Profiles <- LaunchProfiles, Defs <- SomeDefs, BuiltIn <- {OpenRouter, Meta},
               Configs <- {Configured("k1", None, None), Configured(None, "m2", None)},
               Field <- {"apiKey", "model", "gate"}, Denied <- {"PATH"}, NameLike <- {"apiKey", "TOKEN"},
               MaxEdits <- 2, account <- config, run <- command, edits <- changes

\* A profile with all that the form rewrites, and one with a key typed in; a preset with two slots.
OfForm(kind, id) == [kind |-> kind, id |-> id]
InForm(base, inline, args, direct, cwd, routes, s) ==
    [base |-> base, inline |-> inline, args |-> args, direct |-> direct, cwd |-> cwd, routes |-> routes, session |-> s]
SessionOf(tools, layers, settings, preset, append) ==
    [tools |-> tools, layers |-> layers, settings |-> settings, preset |-> preset, append |-> append]
RouteTo(m, pad, b) == [match |-> [id |-> m, pad |-> pad], dest |-> b]
FormProfiles ==
    {None,
     InForm(OfForm("subscription", v1), None, <<<<"w1">>, <<"w2", "w3">>>>, FALSE, "/there",
            <<RouteTo(ma, TRUE, OfForm("key", k1))>>,
            SessionOf("", {"user", "project", "local"}, "object", "preset", "text")),
     InForm(OfForm("key", k1), "typed", <<>>, TRUE, None, <<>>, SessionOf(None, {"user"}, None, None, None))}
FormPresets ==
    {InForm(OfForm("subscription", "slot"), None, <<>>, FALSE, None, <<RouteTo(ma, FALSE, OfForm("key", "slot"))>>,
            SessionOf(None, {}, None, None, None))}
Form == INSTANCE ProfileForm
        WITH Login <- {v1, v2}, KeyId <- {k1}, Model <- {ma, mb}, Profiles <- FormProfiles, Presets <- FormPresets,
             MaxStrokes <- 2, MaxEdits <- 2, accounts <- listed, edits <- removals
-----------------------------------------------------------------------------
MCInit ==
    /\ part \in {"stores", "file", "switch", "start", "usage", "list", "routing", "launch", "form"}
    /\ InitWith(Fresh) /\ Atomic!Init /\ Active!Init /\ Start!Init /\ Usage!Init /\ Catalog!Init /\ Routing!Init
    /\ Launch!Init /\ Form!Init
    /\ part # "switch" => item = None /\ credFile = None /\ granted
    /\ part # "start" => port = None /\ accounts
    /\ part # "usage" => vault = id1
    /\ part # "launch" => profile.provider = "meta" /\ config["model"] = None
    /\ part # "form" => stored = None

MCNext ==
    /\ \/ part = "stores" /\ Next
          /\ UNCHANGED <<fileVars, switchVars, startVars, usageVars, listVars, routeVars, launchVars, formVars>>
       \/ part = "file" /\ Atomic!Next
          /\ UNCHANGED <<vars, switchVars, startVars, usageVars, listVars, routeVars, launchVars, formVars>>
       \/ part = "switch" /\ Active!Next
          /\ UNCHANGED <<vars, fileVars, startVars, usageVars, listVars, routeVars, launchVars, formVars>>
       \/ part = "start" /\ Start!Next
          /\ UNCHANGED <<vars, fileVars, switchVars, usageVars, listVars, routeVars, launchVars, formVars>>
       \/ part = "usage" /\ Usage!Next
          /\ UNCHANGED <<vars, fileVars, switchVars, startVars, listVars, routeVars, launchVars, formVars>>
       \/ part = "list" /\ Catalog!Next
          /\ UNCHANGED <<vars, fileVars, switchVars, startVars, usageVars, routeVars, launchVars, formVars>>
       \/ part = "routing" /\ Routing!Next
          /\ UNCHANGED <<vars, fileVars, switchVars, startVars, usageVars, listVars, launchVars, formVars>>
       \/ part = "launch" /\ Launch!Next
          /\ UNCHANGED <<vars, fileVars, switchVars, startVars, usageVars, listVars, routeVars, formVars>>
       \/ part = "form" /\ Form!Next
          /\ UNCHANGED <<vars, fileVars, switchVars, startVars, usageVars, listVars, routeVars, launchVars>>
    /\ UNCHANGED part

MCSpec == MCInit /\ [][MCNext]_mcVars
\* In each part the two actors of a kind are interchangeable, with what belongs to them.
Swap(x, y) == x :> y @@ y :> x
MCSymmetry ==
    Permutations(Flight) \cup
    {Swap(w1, w2) @@ Swap(s1, s2) @@ Swap(la, lb) @@ Swap(u1, u2) @@ Swap(m1, m2)}
-----------------------------------------------------------------------------
(* Every part stays within its types, control points and locks.                                   *)
TypesOK ==
    /\ part = "stores" => TypeOK
    /\ part = "file" => Atomic!TypeOK
    /\ part = "switch" => Active!TypeOK
    /\ part = "start" => Start!TypeOK
    /\ part = "usage" => Usage!TypeOK
    /\ part = "list" => Catalog!TypeOK
    /\ part = "routing" => Routing!TypeOK
    /\ part = "launch" => Launch!TypeOK
    /\ part = "form" => Form!TypeOK

(* Nothing is half written: a store file parses whatever is killed and whenever the power fails
   (atomicJson.ts), and no switch gives the credentials file a login while Claude Code reads another
   one from the Keychain (writeActiveReport).                                                     *)
NothingIsHalfWritten ==
    /\ [](part = "file" => Atomic!StoreParses)
    /\ [][part = "switch" => Active!MirrorsOnlyItsOwn]_mcVars

(* A switch that is reported has taken effect (switchSubscriptionAccount, activateAccount).       *)
SwitchTookEffect == part = "switch" => Active!SwitchTookEffect

(* A call on the control plane is heard by the proxy that keeps listening (controlClient.ts).     *)
SteadyRunIsHeard == part = "start" => Start!SteadyRunIsHeard

(* The caches show what they say they show (usageCache.ts, modelCatalogCache.ts).                 *)
CachesAreHonest ==
    /\ part = "usage" => Usage!UsageStaysOwnAndHeals
    /\ part = "list" => Catalog!CatalogSharesAndLabels

(* The stored profile decides: the page stores what it shows (ProfileForm.tsx), a launch runs what is
   stored and `show` prints it (service.ts), and a request is served by the upstream its profile or
   route names, or fails (resolveBackend).                                                        *)
ProfileDecides ==
    /\ part = "form" => Form!FormSavesWhatItShows
    /\ part = "launch" => Launch!LaunchIsAsShown
    /\ part = "routing" => Routing!FailsClosed
=============================================================================

------------------------------ MODULE LaunchPlan ------------------------------
(* What a launch runs: the profile, the account and the provider it names are read one store after
   the other, turned into a command line, an environment and session files (core/src/service.ts,
   claudeSession.ts, adapters/src/agents/claudeCode.ts, adapters/src/providers), and then shown
   (`swisscode show`, `--dry-run`) or spawned (cli/src/index.ts), while the stores are edited, by
   hand as well.  An argument is a flag with its value, which may be a file of the session's
   directory; a value stands for its text.  The choice of the account at the proxy or in Claude's
   own store, between reading and resolving, is RequestRouting's and only may fail here.         *)
EXTENDS Naturals, Sequences, FiniteSets, TLC, SequencesExt

CONSTANTS
    Profiles,    \* [id, provider, account, inline, model, session, args, direct, cwd], some invalid
    Defs,        \* provider definitions, some of which only a hand-edited file holds
    BuiltIn,     \* the definitions that are part of swisscode
    Configs,     \* what a stored account may hold: a value or None for each of Field
    Field,
    Denied,      \* names of the environment that decide which code a process loads
    NameLike,    \* names of fields and of the environment that read like a secret's
    None,
    MaxEdits     \* bound on the edits

VARIABLES
    profile,    \* the stored profile
    account,    \* the stored account's config, or None
    customs,    \* custom-providers.json, in the file's order
    run,        \* the command under way
    shown,      \* what the last `show` or `--dry-run` printed, or None
    child,      \* what the last launch spawned, or None
    edits

stores == <<profile, account, customs>>
vars == <<profile, account, customs, run, shown, child, edits>>

NoRun == [pc |-> "idle"]
AllowedDef(d) == /\ (DOMAIN d.static \cup DOMAIN d.fromConfig \cup d.modelVars) \cap Denied = {}
                 /\ \A n \in DOMAIN d.fromConfig : d.fromConfig[n] \in d.fields
\* validateCustomProviderDef(), with the built-in ids reserved.
Valid(d) == AllowedDef(d) /\ \A b \in BuiltIn : b.id # d.id

\* validateProfile(): a working directory is absolute, and an inline MCP config parses.
ValidProfile(p) == p.cwd # "relative" /\ p.session.mcp # "broken"

Init ==
    /\ profile \in {p \in Profiles : ValidProfile(p)} /\ account \in Configs
    /\ customs = <<>> /\ run = NoRun /\ shown = None /\ child = None /\ edits = 0

TypeOK ==
    /\ profile \in Profiles /\ account \in Configs \cup {None} /\ ToSet(customs) \subseteq Defs
    /\ run.pc \in {"idle", "account", "choose", "resolve", "mask", "stage", "spawn"} /\ edits \in 0..MaxEdits
-----------------------------------------------------------------------------
(* The stores *)

Edit == edits < MaxEdits /\ edits' = edits + 1 /\ UNCHANGED <<run, shown, child>>

\* A profile is saved through the validation, or written into the file by hand.
SaveProfile(p) == Edit /\ ValidProfile(p) /\ profile' = p /\ UNCHANGED <<account, customs>>
HandEditProfile(p) == Edit /\ profile' = p /\ UNCHANGED <<account, customs>>
ChangeAccount(c) == Edit /\ account' = c /\ UNCHANGED <<profile, customs>>
\* FileCustomProviderStore.save(): validated, in the place of every definition with its id.
SaveDef(d) ==
    /\ Edit /\ Valid(d) /\ customs' = Append(SelectSeq(customs, LAMBDA e : e.id # d.id), d)
    /\ UNCHANGED <<profile, account>>
HandEditDefs(d) == Edit /\ customs' = Append(customs, d) /\ UNCHANGED <<profile, account>>
-----------------------------------------------------------------------------
(* Providers *)

\* loadCustomProviderPorts() and the registry: a definition that shadows a built-in one and a second
\* one with the same id are passed over.
Registry ==
    BuiltIn \cup {customs[i] : i \in {i \in DOMAIN customs :
                      /\ \A b \in BuiltIn : b.id # customs[i].id
                      /\ \A j \in 1..(i - 1) : customs[j].id # customs[i].id}}

\* resolveProviderConfig(): the profile's own values over the account's.
Merged(p, config) == [f \in Field |-> IF p.inline[f] # None \/ p.account = None THEN p.inline[f] ELSE config[f]]

\* buildEnv() of OpenRouter, of Meta and of a custom provider: the fields that are filled in over what
\* is fixed, and over both the model, the profile's first.
FromFields(d, config) ==
    [n \in {n \in DOMAIN d.fromConfig : config[d.fromConfig[n]] # None} |-> config[d.fromConfig[n]]]
ChosenModel(d, config, model) ==
    LET named == IF model # None THEN model ELSE IF config["model"] # None THEN config["model"] ELSE d.default
    IN IF named = None THEN <<>> ELSE [n \in d.modelVars |-> named]
BuildEnv(d, config, model) == ChosenModel(d, config, model) @@ FromFields(d, config) @@ d.static

StripDenied(env) == [n \in DOMAIN env \ Denied |-> env[n]]
-----------------------------------------------------------------------------
(* The agent's command line, its environment and its files *)

Arg(flag, value) == [flag |-> flag, dir |-> None, value |-> value]
FileArg(flag, rel) == [flag |-> flag, dir |-> "placeholder", value |-> rel]

\* buildClaudeSettings(): the raw settings without names that load code, and the fallback models.
HasSettings(s) == s.settings # None \/ s.fallback
SettingsEnv(s) == IF s.settings = None THEN <<>> ELSE StripDenied(s.settings)
\* sessionEphemeralFiles()
Files(s) == (IF HasSettings(s) THEN {"settings.json"} ELSE {}) \cup (IF s.mcp = "inline" THEN {"mcp.json"} ELSE {})
\* buildClaudeFlags()
Flags(s) ==
    s.curated
    \o (CASE s.mcp = None -> <<>>
          [] s.mcp = "inline" -> <<FileArg("--mcp-config", "mcp.json")>>
          [] OTHER -> <<Arg("--mcp-config", s.mcp)>>)
    \o (IF HasSettings(s) THEN <<FileArg("--settings", "settings.json")>> ELSE <<>>)

\* buildLaunch(): the profile's model, the session's flags and then the arguments.
BuildLaunch(p, env) ==
    [args |-> (IF p.model = None THEN <<>> ELSE <<Arg("--model", p.model)>>) \o Flags(p.session) \o p.args,
     env |-> IF p.model = None THEN env ELSE env @@ ("MODEL" :> p.model),
     files |-> Files(p.session), settingsEnv |-> SettingsEnv(p.session)]

\* resolveLaunchSpec(): None when the provider is unknown, a required field is missing or the profile
\* is invalid.
Spec1(p, config, registry) ==
    LET ds == {d \in registry : d.id = p.provider}
        d == CHOOSE d \in ds : TRUE
        spec == BuildLaunch(p, StripDenied(BuildEnv(d, config, p.model)))
    IN IF ~ValidProfile(p) \/ ds = {} THEN None
       ELSE IF \E f \in d.required : config[f] = None THEN None
       ELSE [spec EXCEPT !.env = StripDenied(@)]

\* proxyLaunchEnv(): a launch that is not direct goes to the proxy, tagged with its profile.
LaunchEnv(p, env) ==
    IF p.direct THEN env ELSE ("BASE" :> "proxy/" \o p.id) @@ ("TOKEN" :> "profile/" \o p.id) @@ env

\* secretValues(): of the merged config and of the account behind it, what the provider declares secret
\* or what is named like it.
Secrets(p, configs, registry) ==
    LET declared == UNION {d.secret : d \in {d \in registry : d.id = p.provider}}
    IN {c[f] : c \in configs, f \in {f \in Field : f \in declared \cup NameLike}} \ {None}

\* redactEnv(): by value and by name, the profile's tag excepted.
Redact(p, env, secrets) ==
    [n \in DOMAIN env |-> IF env[n] = "profile/" \o p.id THEN env[n]
                          ELSE IF env[n] \in secrets \/ n \in NameLike THEN "masked" ELSE env[n]]
-----------------------------------------------------------------------------
(* cmdShow() and cmdLaunch() *)

End == run' = NoRun /\ UNCHANGED child
At(pc) == run.pc = pc /\ UNCHANGED <<stores, edits>>

\* The profile is read.
Begin(kind) ==
    /\ At("idle") /\ UNCHANGED <<shown, child>>
    /\ run' = [pc |-> "account", kind |-> kind, profile |-> profile, at |-> edits]

\* resolveProfileForLaunch(): the account is read, and merged.
ReadAccount ==
    /\ At("account") /\ UNCHANGED shown
    /\ IF run.profile.account # None /\ account = None THEN End
       ELSE /\ UNCHANGED child
            /\ run' = [pc |-> IF run.kind = "launch" THEN "choose" ELSE "resolve", kind |-> run.kind,
                       profile |-> run.profile, at |-> run.at,
                       behind |-> {account} \ {None},
                       config |-> Merged(run.profile, IF account = None THEN run.profile.inline ELSE account)]

\* The account is chosen at the proxy or in Claude's own store, or the launch ends.
Choose == At("choose") /\ UNCHANGED shown /\ (End \/ (run' = [run EXCEPT !.pc = "resolve"] /\ UNCHANGED child))

\* The providers are read and the launch is put together, to be shown or to be run.
Resolve ==
    /\ At("resolve") /\ UNCHANGED <<shown, child>>
    /\ LET spec == Spec1(run.profile, run.config, Registry)
           p == run.profile
       IN IF spec = None THEN run' = NoRun
          ELSE run' = [pc |-> IF run.kind = "launch" THEN "stage" ELSE "mask", profile |-> p, at |-> run.at,
                       to |-> edits, plan |-> [spec EXCEPT !.env = LaunchEnv(p, spec.env)],
                       configs |-> {run.config} \cup run.behind]

\* `show` and `--dry-run` read the providers once more for what is secret, and print.
Mask ==
    /\ At("mask") /\ UNCHANGED child
    /\ LET secrets == Secrets(run.profile, run.configs, Registry)
       IN shown' = [profile |-> run.profile, at |-> run.at, to |-> edits, args |-> run.plan.args,
                    files |-> run.plan.files, env |-> Redact(run.profile, run.plan.env, secrets), secrets |-> secrets]
    /\ run' = NoRun

\* resolveEphemeralPaths()
InDirectory(args) ==
    [i \in DOMAIN args |-> IF args[i].dir = "placeholder" THEN [args[i] EXCEPT !.dir = "real"] ELSE args[i]]

\* The working directory is looked at, a directory is made and the session files are written to it,
\* which may fail; then the placeholder in the arguments becomes that directory.
Stage ==
    /\ At("stage") /\ UNCHANGED shown
    /\ LET files == run.plan.files
       IN \/ run.profile.cwd = "gone" /\ End
          \/ run.profile.cwd # "gone" /\ files # {} /\ End
          \/ /\ run.profile.cwd # "gone" /\ UNCHANGED child
             /\ run' = [run EXCEPT !.pc = "spawn",
                                   !.plan.args = IF files = {} THEN @ ELSE InDirectory(@)]

Spawn ==
    /\ At("spawn") /\ UNCHANGED shown
    /\ child' = [profile |-> run.profile, at |-> run.at, to |-> run.to, plan |-> run.plan] /\ run' = NoRun

Next ==
    \/ \E p \in Profiles : SaveProfile(p) \/ HandEditProfile(p)
    \/ \E c \in Configs \cup {None} : ChangeAccount(c)
    \/ \E d \in Defs : SaveDef(d) \/ HandEditDefs(d)
    \/ \E kind \in {"show", "launch"} : Begin(kind)
    \/ ReadAccount \/ Choose \/ Resolve \/ Mask \/ Stage \/ Spawn

Spec == Init /\ [][Next]_vars
-----------------------------------------------------------------------------
(* What `show` says is what a launch does ("env resolution can never drift", service.ts:2-3; "`show`
   can never describe a launch the launcher would not produce", index.ts:93-94): printed and spawned
   from the same stores they agree, up to masks and to the session's directory, and no variable that
   holds a secret field of the provider is printed.  Whatever the files were edited to, a spawned
   agent finds every file its arguments name and gets no variable that loads code
   (service.ts:179-183), a launch that is not direct talks to the proxy under its own profile's name,
   and a built-in provider stays the built-in one.                                               *)
LaunchIsAsShown ==
    /\ shown # None /\ shown.at = shown.to /\ shown.to = edits =>
        \A d \in {d \in Registry : d.id = shown.profile.provider} :
            \A n \in DOMAIN d.fromConfig \cap DOMAIN shown.env :
                d.fromConfig[n] \in d.secret => shown.env[n] \in {"masked", "profile/" \o shown.profile.id}
    /\ child # None =>
        LET p == child.profile
            plan == child.plan
        IN /\ (DOMAIN plan.env \cup DOMAIN plan.settingsEnv) \cap Denied = {}
           /\ \A i \in DOMAIN plan.args : plan.args[i].dir \in {None, "real"}
           /\ {a.value : a \in {a \in ToSet(plan.args) : a.dir # None}} = plan.files
           /\ ~p.direct => plan.env["BASE"] = "proxy/" \o p.id /\ plan.env["TOKEN"] = "profile/" \o p.id
           /\ p.direct => \A b \in BuiltIn : b.id = p.provider => plan.env["BASE"] = b.static["BASE"]
           /\ (/\ shown # None /\ shown.profile = p /\ shown.at = shown.to
               /\ child.at = child.to /\ shown.at = child.at)
              => /\ shown.env = Redact(p, plan.env, shown.secrets)
                 /\ shown.files = plan.files
                 /\ [i \in DOMAIN shown.args |-> shown.args[i].value] = [i \in DOMAIN plan.args |-> plan.args[i].value]
=============================================================================

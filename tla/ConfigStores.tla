---------------------------- MODULE ConfigStores ----------------------------
(* The configuration under ~/.swisscode: custom providers, profiles, provider accounts and
   settings (packages/adapters/src/store), the operations on them of the web server
   (apps/web/src/lib/store.server.ts) and of the CLI (apps/cli/src/providerAccounts.ts), and the
   backup and restore of all of it (store/configBundle.ts).

   Every read of a file and every atomic replacement of one (AtomicFile) is a step.  Between two
   steps of one flight, which is one call of an operation in one process, anything else may run.
   A custom provider has one required field, declared secret or open.  A profile or an account
   holds a value for the field of its provider: a key, or Blank.  createdAt is left out.       *)
EXTENDS FiniteSets, Naturals

CONSTANTS
    Flight, Process, ProcOf,  \* calls, the process each runs in
    Custom, Profile, Account, \* ids of records
    ProviderOf,               \* of each profile and account, a custom provider
    Key, Blank, None,         \* secret values, the empty string, no record
    Jobs,                     \* the calls that may be made
    Bundle,                   \* what the calls of importBundle restore, per store
    NameTells                 \* whether the name of the field matches DEFAULT_SECRET_NAME_RE

VARIABLES
    file,      \* file[s][k]: record k of store s on disk
    lock,      \* lock[p][s]: the flight whose section withStoreLock runs in process p
    registry,  \* registry[p]: the custom providers registryPromise knows, None when reset
    job, pc,   \* of each flight: the call, the next step
    seen,      \* what it read: stores, or one record
    draft,     \* the record it is about to store
    tests,     \* of an export: the providers whose secret fields are known, and the verdict
    handled,   \* of an import: the records of the bundle it has been through
    kept       \* history: the records an import found and nobody has removed since; the
               \* providers whose field has been secret since an export began

vars == <<file, lock, registry, job, pc, seen, draft, tests, handled, kept>>
-----------------------------------------------------------------------------
Store == {"customs", "profiles", "accounts", "settings"}
Ids(s) == CASE s = "customs" -> Custom [] s = "profiles" -> Profile
            [] s = "accounts" -> Account [] OTHER -> {"settings"}
Values(s) == CASE s = "customs" -> {"secret", "open"} [] s = "settings" -> {"off", "on"}
               [] OTHER -> Key \cup {Blank}
\* One file holds the whole list; the other stores have a file per record.
ListStore == {"customs", "profiles"}
Files == [customs  : [Custom -> Values("customs") \cup {None}],
          profiles : [Profile -> Values("profiles") \cup {None}],
          accounts : [Account -> Values("accounts") \cup {None}],
          settings : [{"settings"} -> Values("settings") \cup {None}]]

\* A call of saveProfile, deleteProvider, ..., removeCustomProvider, updateProviderAccount, the
\* `accounts add` of the CLI, exportBundle without secrets, importBundle.
Callable(j) ==
    \/ /\ j.op \in {"save", "remove"} /\ j.store \in Store /\ j.key \in Ids(j.store)
       /\ j.value \in Values(j.store) \cup {None}
    \/ j.op = "retire" /\ j.key \in Custom
    \/ j.op \in {"update", "add"} /\ j.key \in Account /\ j.value \in Values("accounts")
    \/ j.op = "export"
    \/ j.op = "import" /\ j.overwrite \in BOOLEAN

ASSUME ConfigAssumption ==
    /\ ProcOf \in [Flight -> Process] /\ \A k \in Profile \cup Account : ProviderOf[k] \in Custom
    /\ \A j \in Jobs : Callable(j)
    /\ Bundle \in Files
    /\ None \notin Flight /\ None \notin Jobs /\ None \notin Key
    /\ None \notin {"secret", "open", "off", "on"} /\ Blank \notin Key \cup {None}

\* A reading of one store or record, and one that is added to another.
Reading(x, v) == [y \in {x} |-> v]
Joined(new, old) == [y \in DOMAIN new \cup DOMAIN old |-> IF y \in DOMAIN new THEN new[y] ELSE old[y]]

\* registryPromise ??= ...: loaded once per process, kept until a reset.
Known(p) == IF registry[p] = None THEN file.customs ELSE registry[p]
Load(p) == registry' = [registry EXCEPT ![p] = Known(p)]
\* A bug: the registry is never reset.
ResetNot(p) == UNCHANGED registry
Reset(p) == registry' = [registry EXCEPT ![p] = None]
DeclaredSecret(p, c) == Known(p)[c] = "secret"

TypeOK ==
    /\ file \in Files
    /\ lock \in [Process -> [Store -> Flight \cup {None}]]
    /\ \A p \in Process : registry[p] = None \/ registry[p] \in [Custom -> Values("customs") \cup {None}]
    /\ \A f \in Flight : job[f] \in Jobs \cup {None} /\ (job[f] = None) = (pc[f] = "idle")
    /\ \A f \in Flight : pc[f] = "write" => lock[ProcOf[f]][draft[f].store] = f

InitWith(files) ==
    /\ file = files
    /\ lock = [p \in Process |-> [s \in Store |-> None]]
    /\ registry = [p \in Process |-> None]
    /\ job = [f \in Flight |-> None] /\ pc = [f \in Flight |-> "idle"]
    /\ seen = [f \in Flight |-> None] /\ draft = [f \in Flight |-> None]
    /\ tests = [f \in Flight |-> <<>>] /\ handled = [f \in Flight |-> {}]
    /\ kept = [f \in Flight |-> {}]

Goto(f, step) == pc' = [pc EXCEPT ![f] = step]
Draft(f, s, k, v) == draft' = [draft EXCEPT ![f] = [store |-> s, key |-> k, value |-> v]]

\* The call returns or throws; what it had read is gone.
End(f) ==
    /\ Goto(f, "idle") /\ job' = [job EXCEPT ![f] = None]
    /\ seen' = [seen EXCEPT ![f] = None] /\ draft' = [draft EXCEPT ![f] = None]
    /\ tests' = [tests EXCEPT ![f] = <<>>] /\ handled' = [handled EXCEPT ![f] = {}]

Present == {x \in Store \X (Custom \cup Profile \cup Account \cup {"settings"}) :
               x[2] \in Ids(x[1]) /\ file[x[1]][x[2]] # None}

FirstStep(j) ==
    CASE j.op = "export" -> "exCustoms"
      [] j.op = "import" -> "im1"
      [] j.op = "retire" -> "rcGet"
      [] j.op = "update" -> "upGet"
      [] j.op = "add" -> "addGet"
      [] j.op = "remove" /\ j.store = "accounts" -> "unlink"
      [] j.op = "save" /\ j.store = "accounts" -> "registry"
      [] OTHER -> "lock"

\* saveProfile, deleteProfile, saveCustomProvider, saveProviderAccount, ...: a call.
Begin(f, j) ==
    /\ pc[f] = "idle" /\ Goto(f, FirstStep(j)) /\ job' = [job EXCEPT ![f] = j]
    /\ IF j.op \in {"save", "remove"} THEN Draft(f, j.store, j.key, j.value) ELSE UNCHANGED draft
    /\ kept' = [kept EXCEPT ![f] = CASE j.op = "import" /\ ~j.overwrite -> Present
                                          [] j.op = "export" -> {x \in Present : file[x[1]][x[2]] = "secret"}
                                          [] OTHER -> {}]
    /\ UNCHANGED <<file, lock, registry, seen, tests, handled>>

\* A bug: the section does not wait for the one before it.
EnterAtOnce(f) ==
    LET p == ProcOf[f]  s == draft[f].store
    IN  /\ pc[f] = "lock"
        /\ lock' = [lock EXCEPT ![p][s] = f] /\ seen' = [seen EXCEPT ![f] = Reading(s, file[s])]
        /\ Goto(f, "write")
        /\ UNCHANGED <<file, registry, job, draft, tests, handled, kept>>

\* withStoreLock: the section starts when the earlier ones of this process on
\* this path have ended, and reads the file.
Enter(f) ==
    LET p == ProcOf[f]  s == draft[f].store
    IN  /\ pc[f] = "lock" /\ lock[p][s] = None
        /\ lock' = [lock EXCEPT ![p][s] = f] /\ seen' = [seen EXCEPT ![f] = Reading(s, file[s])]
        /\ Goto(f, "write")
        /\ UNCHANGED <<file, registry, job, draft, tests, handled, kept>>

\* What the store holds after the write: the list that was read with one record
\* replaced, or the file of one record.
Written(f) ==
    LET s == draft[f].store
    IN  [(IF s \in ListStore THEN seen[f][s] ELSE file[s]) EXCEPT ![draft[f].key] = draft[f].value]

\* After a record an import goes on with the records of that store; after an account that was
\* stored it asks the registry for secret fields left blank.
Resume(s) == CASE s = "customs" -> "im1" [] s = "profiles" -> "im2"
               [] s = "accounts" -> "im3" [] OTHER -> "im4"

Leave(f, step) ==
    /\ lock' = [lock EXCEPT ![ProcOf[f]][draft[f].store] = None]
    /\ IF job[f].op = "import"
       THEN Goto(f, step) /\ seen' = [seen EXCEPT ![f] = None] /\ UNCHANGED <<job, draft, tests, handled>>
       ELSE End(f)

\* An import does not reset the registry before its end, everybody else at once.
Stored(f, s) ==
    IF s = "customs" /\ job[f].op # "import" THEN Reset(ProcOf[f]) ELSE UNCHANGED registry

Changed(s, k, v) ==
    kept' = [g \in Flight |->
                IF v = None \/ (job[g] # None /\ job[g].op = "export" /\ v # "secret")
                THEN kept[g] \ {<<s, k>>} ELSE kept[g]]

\* writeJsonAtomic, the end of the section, and what the caller does next.
WriteBack(f) ==
    LET s == draft[f].store
    IN  /\ pc[f] = "write"
        /\ file' = [file EXCEPT ![s] = Written(f)]
        /\ Leave(f, IF s = "accounts" THEN "imWarn" ELSE Resume(s)) /\ Stored(f, s)
        /\ Changed(s, draft[f].key, draft[f].value)

\* The write is refused: the section ends with the file as it was.  An import
\* notes it and goes on.
WriteFails(f) ==
    /\ pc[f] = "write" /\ Leave(f, Resume(draft[f].store))
    /\ UNCHANGED <<file, registry, kept>>

\* removeProviderAccount and `accounts remove`: rm of the record's file.
Unlink(f) ==
    /\ pc[f] = "unlink" /\ file' = [file EXCEPT !["accounts"][job[f].key] = None]
    /\ Goto(f, "idle") /\ job' = [job EXCEPT ![f] = None]
    /\ draft' = [draft EXCEPT ![f] = None] /\ Changed("accounts", job[f].key, None)
    /\ UNCHANGED <<lock, registry, seen, tests, handled>>

\* saveProviderAccount: the provider must be known and its field filled in.
CheckAccount(f) ==
    LET p == ProcOf[f]
    IN  /\ pc[f] = "registry" /\ Load(p)
        /\ IF Known(p)[ProviderOf[draft[f].key]] = None \/ draft[f].value = Blank
           THEN End(f)
           ELSE Goto(f, "lock") /\ UNCHANGED <<job, seen, draft, tests, handled>>
        /\ UNCHANGED <<file, lock, kept>>

\* updateProviderAccount reads the stored record ...
UpdateGet(f) ==
    /\ pc[f] = "upGet"
    /\ IF file.accounts[job[f].key] = None
       THEN End(f)
       ELSE /\ seen' = [seen EXCEPT ![f] = Reading(job[f].key, file.accounts[job[f].key])] /\ Goto(f, "upMerge")
            /\ UNCHANGED <<job, draft, tests, handled>>
    /\ UNCHANGED <<file, lock, registry, kept>>

\* ... and merges the form into it: blank on a secret field keeps the stored
\* secret, blank on any other clears the field.
Merged(f) ==
    IF job[f].value = Blank /\ DeclaredSecret(ProcOf[f], ProviderOf[job[f].key])
    THEN seen[f][job[f].key]
    ELSE job[f].value

UpdateMerge(f) ==
    /\ pc[f] = "upMerge" /\ Load(ProcOf[f])
    /\ Draft(f, "accounts", job[f].key, Merged(f)) /\ Goto(f, "registry")
    /\ UNCHANGED <<file, lock, job, seen, tests, handled, kept>>

\* `accounts add` of the CLI: refuses a record that exists.
AddGet(f) ==
    LET p == ProcOf[f]  a == job[f].key
    IN  /\ pc[f] = "addGet" /\ Load(p)
        /\ IF file.accounts[a] # None \/ Known(p)[ProviderOf[a]] = None \/ job[f].value = Blank
           THEN End(f)
           ELSE /\ Draft(f, "accounts", a, job[f].value) /\ Goto(f, "lock")
                /\ UNCHANGED <<job, seen, tests, handled>>
        /\ UNCHANGED <<file, lock, kept>>

\* removeCustomProvider: three reads, each of which may refuse, then the removal.
RetireStep(f, here, refuse, there) ==
    /\ pc[f] = here
    /\ IF refuse
       THEN End(f)
       ELSE /\ Goto(f, there)
            /\ IF there = "lock" THEN Draft(f, "customs", job[f].key, None) ELSE UNCHANGED draft
            /\ UNCHANGED <<job, seen, tests, handled>>
    /\ UNCHANGED <<file, lock, registry, kept>>

UsedBy(s, c) == \E k \in Ids(s) : ProviderOf[k] = c /\ file[s][k] # None

Retire(f) ==
    \/ RetireStep(f, "rcGet", file.customs[job[f].key] = None, "rcAccounts")
    \/ RetireStep(f, "rcAccounts", UsedBy("accounts", job[f].key), "rcProfiles")
    \/ RetireStep(f, "rcProfiles", UsedBy("profiles", job[f].key), "lock")
-----------------------------------------------------------------------------
(* Backup *)

\* exportBundle starts with the custom providers on disk ...
ExportCustoms(f) ==
    /\ pc[f] = "exCustoms" /\ seen' = [seen EXCEPT ![f] = Reading("customs", file.customs)]
    /\ Goto(f, "exProfiles")
    /\ UNCHANGED <<file, lock, registry, job, draft, tests, handled, kept>>

\* ... then lists the profiles, and later the accounts.
ExportList(f, here, s, there) ==
    /\ pc[f] = here /\ seen' = [seen EXCEPT ![f] = Joined(Reading(s, file[s]), @)]
    /\ Goto(f, there)
    /\ UNCHANGED <<file, lock, registry, job, draft, tests, handled, kept>>

\* secretKeyTest, once per provider and export: a provider that is known is
\* asked, for any other the name of the field decides.
Verdict(f, c) ==
    IF seen[f].customs[c] # None THEN DeclaredSecret(ProcOf[f], c)
    ELSE DeclaredSecret(ProcOf[f], c) \/ NameTells

\* The registry is asked for the providers of the records that hold a value.
AskedFor(f, s) ==
    {ProviderOf[k] : k \in {k \in Ids(s) : seen[f][s][k] # None /\ (s = "accounts" \/ seen[f][s][k] # Blank)}}

ExportTests(f, here, s, there) ==
    LET new == AskedFor(f, s) \ DOMAIN tests[f]
    IN  /\ pc[f] = here
        /\ tests' = [tests EXCEPT ![f] = Joined([c \in new |-> Verdict(f, c)], @)]
        /\ IF new = {} THEN UNCHANGED registry ELSE Load(ProcOf[f])
        /\ Goto(f, there)
        /\ UNCHANGED <<file, lock, job, seen, draft, handled, kept>>

\* blankSecretValues for every record.
Exported(f, s, k) ==
    LET v == seen[f][s][k]
    IN  IF v # None /\ ProviderOf[k] \in DOMAIN tests[f] /\ tests[f][ProviderOf[k]] THEN Blank ELSE v

\* The bundle is handed out.
ExportEnd(f) ==
    /\ pc[f] = "exEnd" /\ End(f) /\ kept' = [kept EXCEPT ![f] = {}]
    /\ UNCHANGED <<file, lock, registry>>

Export(f) ==
    \/ ExportCustoms(f)
    \/ ExportList(f, "exProfiles", "profiles", "exTest1")
    \/ ExportTests(f, "exTest1", "profiles", "exAccounts")
    \/ ExportList(f, "exAccounts", "accounts", "exTest2")
    \/ ExportTests(f, "exTest2", "accounts", "exEnd")
    \/ ExportEnd(f)
-----------------------------------------------------------------------------
(* Restore *)

\* An account is passed over when the bundle does not define its provider.
Restored(s) ==
    {k \in Ids(s) : Bundle[s][k] # None /\ (s = "accounts" => Bundle.customs[ProviderOf[k]] # None)}

\* A bug: a record that exists is written over whether or not the call said so.
ImportStepOver(f, here, s, there) ==
    LET rest == {k \in Restored(s) : <<s, k>> \notin handled[f]}
    IN  /\ pc[f] = here
        /\ \/ rest = {} /\ Goto(f, there) /\ UNCHANGED <<draft, handled>>
           \/ \E k \in rest : /\ handled' = [handled EXCEPT ![f] = @ \cup {<<s, k>>}]
                             /\ Goto(f, "lock") /\ Draft(f, s, k, Bundle[s][k])
        /\ UNCHANGED <<file, lock, registry, job, seen, tests, kept>>

\* A record of the bundle is stored unless there is one already and overwrite is off.
ImportStep(f, here, s, there) ==
    LET rest == {k \in Restored(s) : <<s, k>> \notin handled[f]}
    IN  /\ pc[f] = here
        /\ \/ rest = {} /\ Goto(f, there) /\ UNCHANGED <<draft, handled>>
           \/ \E k \in rest :
                 /\ handled' = [handled EXCEPT ![f] = @ \cup {<<s, k>>}]
                 /\ IF job[f].overwrite \/ file[s][k] = None
                    THEN Goto(f, "lock") /\ Draft(f, s, k, Bundle[s][k])
                    ELSE UNCHANGED <<pc, draft>>
        /\ UNCHANGED <<file, lock, registry, job, seen, tests, kept>>

\* A stored account is looked over for secret fields left blank.
ImportWarn(f) ==
    /\ pc[f] = "imWarn" /\ Load(ProcOf[f]) /\ Goto(f, "im3")
    /\ UNCHANGED <<file, lock, job, seen, draft, tests, handled, kept>>

\* importConfigBundle: the registry is reset when all is restored.
ImportEnd(f) ==
    /\ pc[f] = "imEnd" /\ Reset(ProcOf[f]) /\ End(f) /\ kept' = [kept EXCEPT ![f] = {}]
    /\ UNCHANGED <<file, lock>>

Import(f) ==
    \/ ImportStep(f, "im1", "customs", "im2")
    \/ ImportStep(f, "im2", "profiles", "im3")
    \/ ImportStep(f, "im3", "accounts", "im4")
    \/ ImportStep(f, "im4", "settings", "imEnd")
    \/ ImportWarn(f) \/ ImportEnd(f)
-----------------------------------------------------------------------------
Next ==
    \E f \in Flight :
        \/ \E j \in Jobs : Begin(f, j)
        \/ Enter(f) \/ WriteBack(f) \/ WriteFails(f) \/ Unlink(f) \/ CheckAccount(f)
        \/ UpdateGet(f) \/ UpdateMerge(f) \/ AddGet(f)
        \/ Retire(f) \/ Export(f) \/ Import(f)

Init == \E files \in Files : InitWith(files)
Spec == Init /\ [][Next]_vars
-----------------------------------------------------------------------------
(* Properties *)

(* A write of a store touches the one record it is about: two saves of one process never lose
   each other's record, whatever they interleave with (atomicJson.ts:111-115).                 *)
OneRecordChanges == \A s \in Store : Cardinality({k \in Ids(s) : file'[s][k] # file[s][k]}) <= 1

(* A bundle exported without secrets carries none: no key of a provider whose definition on disk
   has declared the field secret ever since the export began (configBundle.ts:53-57).  Not so where
   another process changes the providers, or a restore declares a field secret: the registry that
   an export asks is reset at the end of the restore only (store.server.ts:1021).              *)
StrippedMeansStripped ==
    \A f \in Flight : pc[f] = "exEnd" =>
        \A s \in {"profiles", "accounts"} : \A k \in Ids(s) :
            <<"customs", ProviderOf[k]>> \in kept[f] => Exported(f, s, k) \notin Key

(* A restore without overwrite leaves every record alone that was there when it began and that
   nobody removed in between (configBundle.ts:47-50).                                          *)
LocalsStay ==
    \A f \in Flight :
        job[f] # None /\ job[f].op = "import" /\ ~job[f].overwrite /\ pc[f] = "write" /\ pc'[f] # "write"
            => \A x \in kept[f] : file'[x[1]][x[2]] = file[x[1]][x[2]]

\* A step writes the record it is about and leaves the others alone.
WritesStayNarrow == [][OneRecordChanges /\ LocalsStay]_vars
=============================================================================

------------------------ MODULE ConfigStoresProofs --------------------------
(* The stores, their operations, backup and restore, for any records, calls and processes.

   A list store is written back whole, so what another process stores in between is lost, and a
   registry that another process has loaded is never reset: most of what is wanted holds among the
   calls of one process.  And it takes a restore that declares no field secret: until it ends, the
   registry may be one from before.                                                              *)
EXTENDS ConfigStores, FiniteSetTheorems, TLAPS

\* One process makes all the calls.
Alone == \A f, g \in Flight : ProcOf[f] = ProcOf[g]

\* What is restored declares no field secret.
OnlyOpens == \A c \in Custom : Bundle.customs[c] # "secret"
-----------------------------------------------------------------------------
(* The invariant *)

AnyId == Custom \cup Profile \cup Account \cup {"settings"}
Records == {x \in Store \X AnyId : x[2] \in Ids(x[1])}
Contents(s) == [Ids(s) -> Values(s) \cup {None}]
Exporting == {"exCustoms", "exProfiles", "exTest1", "exAccounts", "exTest2", "exEnd"}
Importing == {"im1", "im2", "im3", "im4", "imWarn", "imEnd"}
Steps == {"idle", "lock", "write", "registry", "unlink", "upGet", "upMerge", "addGet",
          "rcGet", "rcAccounts", "rcProfiles"} \cup Exporting \cup Importing

Typed ==
    /\ file \in Files
    /\ lock \in [Process -> [Store -> Flight \cup {None}]]
    /\ registry \in [Process -> Contents("customs") \cup {None}]
    /\ job \in [Flight -> Jobs \cup {None}] /\ pc \in [Flight -> Steps]
    /\ kept \in [Flight -> SUBSET Records]
    /\ seen = [f \in Flight |-> seen[f]] /\ draft = [f \in Flight |-> draft[f]]
    /\ tests = [f \in Flight |-> tests[f]]

DraftOK(d) == d.store \in Store /\ d.key \in Ids(d.store) /\ d.value \in Values(d.store) \cup {None}
Does(g, op) == job[g] # None /\ job[g].op = op

\* What the step that is next says of the call, of what was read and of the section.
Struct(g) ==
    /\ job[g] = None <=> pc[g] = "idle"
    /\ pc[g] \in Exporting <=> Does(g, "export")
    /\ pc[g] \in Importing => Does(g, "import")
    /\ pc[g] = "unlink" => job[g].key \in Account
    /\ pc[g] \in {"upGet", "upMerge"} => Does(g, "update")
    /\ pc[g] = "addGet" => Does(g, "add")
    /\ pc[g] \in {"rcGet", "rcAccounts", "rcProfiles"} => Does(g, "retire")
    /\ pc[g] = "upMerge" => seen[g][job[g].key] \in Values("accounts")
    /\ pc[g] \in {"registry", "lock", "write"} => DraftOK(draft[g])
    /\ pc[g] = "registry" => draft[g].store = "accounts" /\ (Does(g, "save") \/ Does(g, "update"))
    /\ pc[g] = "write" => lock[ProcOf[g]][draft[g].store] = g
                          /\ seen[g][draft[g].store] \in Contents(draft[g].store)
    /\ pc[g] \in {"lock", "write"} /\ Does(g, "import")
          => draft[g].value = Bundle[draft[g].store][draft[g].key] /\ draft[g].value # None

\* A section writes back what is still in the file.
Fresh(g) == pc[g] = "write" /\ draft[g].store \in ListStore => seen[g][draft[g].store] = file[draft[g].store]

\* What a restore found is still there, and what it is about to store it did not find.
Local(g) ==
    Does(g, "import") =>
        /\ \A s \in Store : \A k \in Ids(s) : <<s, k>> \in kept[g] => file[s][k] # None
        /\ pc[g] \in {"lock", "write"} /\ ~job[g].overwrite => <<draft[g].store, draft[g].key>> \notin kept[g]

\* The registry knows of every secret field, and an export asks about every record with a key.
Knows(p) ==
    registry[p] # None => \A c \in Custom : file["customs"][c] = "secret" => registry[p][c] = "secret"

AsksAll(g, s) == \A k \in Ids(s) : seen[g][s][k] \in Key => ProviderOf[k] \in DOMAIN tests[g]

Secrets(g) ==
    /\ ~Does(g, "export") => DOMAIN tests[g] = {}
    /\ Does(g, "export") =>
           \A c \in Custom : <<"customs", c>> \in kept[g] =>
               file["customs"][c] = "secret" /\ (c \in DOMAIN tests[g] => tests[g][c] = TRUE)
    /\ pc[g] \in {"exTest1", "exAccounts", "exTest2", "exEnd"} => "profiles" \in DOMAIN seen[g]
    /\ pc[g] \in {"exAccounts", "exTest2", "exEnd"} => AsksAll(g, "profiles")
    /\ pc[g] = "exEnd" => AsksAll(g, "accounts")

Narrow(g) == Fresh(g) /\ Local(g)
Safe(g) == Secrets(g) /\ Knows(ProcOf[g])

IInv ==
    /\ Typed /\ \A g \in Flight : Struct(g)
    /\ Alone => \A g \in Flight : Narrow(g)
    /\ Alone /\ OnlyOpens => \A g \in Flight : Safe(g)
-----------------------------------------------------------------------------
(* Records and calls *)

LEMMA CallsAre ==
    \A j \in Jobs :
        /\ j # None
        /\ j.op \in {"save", "remove", "retire", "update", "add", "export", "import"}
        /\ j.op \in {"save", "remove"} => j.store \in Store /\ j.key \in Ids(j.store)
                                          /\ j.value \in Values(j.store) \cup {None}
        /\ j.op = "retire" => j.key \in Custom
        /\ j.op \in {"update", "add"} => j.key \in Account /\ j.value \in Values("accounts")
        /\ j.op = "import" => j.overwrite \in BOOLEAN
    BY ConfigAssumption DEF Callable

LEMMA ContentsOf ==
    ASSUME NEW files \in Files, NEW s \in Store
    PROVE  files[s] \in Contents(s)
    BY DEF Files, Store, Contents, Ids, Values

LEMMA PutStore ==
    ASSUME NEW files \in Files, NEW s \in Store, NEW w \in Contents(s)
    PROVE  /\ [files EXCEPT ![s] = w] \in Files
           /\ \A t \in Store : [files EXCEPT ![s] = w][t] = IF t = s THEN w ELSE files[t]
    BY DEF Files, Store, Contents, Ids, Values

LEMMA KnownIs ==
    ASSUME Typed, NEW p \in Process
    PROVE  /\ Known(p) \in Contents("customs")
           /\ Knows(p) => \A c \in Custom : file["customs"][c] = "secret" => Known(p)[c] = "secret"
<1>1. "customs" \in Store /\ file \in Files
    BY DEF Store, Typed
<1>2. file.customs \in Contents("customs")
    BY <1>1, ContentsOf
<1>3. QED
    BY <1>2 DEF Known, Knows, Typed
-----------------------------------------------------------------------------
(* Steps that write no file *)

\* Only flight f moves, the sections of the others stay theirs.
Moves(f) ==
    \A g \in Flight \ {f} :
        /\ pc'[g] = pc[g] /\ job'[g] = job[g] /\ seen'[g] = seen[g]
        /\ draft'[g] = draft[g] /\ tests'[g] = tests[g]
        /\ pc[g] = "write" => lock'[ProcOf[g]][draft[g].store] = g

\* Nothing is written; its process may load or reset the registry.
Quiet(f) ==
    /\ Moves(f) /\ UNCHANGED file /\ \A g \in Flight \ {f} : kept'[g] = kept[g]
    /\ \A p \in Process : registry'[p] \in {registry[p], Known(p), None}

LEMMA QuietKeeps ==
    ASSUME IInv, NEW f \in Flight, Quiet(f), Typed', Struct(f)',
           Alone => Narrow(f)', Alone /\ OnlyOpens => Secrets(f)'
    PROVE  IInv'
<1>1. ASSUME NEW g \in Flight PROVE Struct(g)'
    BY <1>1 DEF IInv, Quiet, Moves, Struct, Does
<1>2. ASSUME Alone, NEW g \in Flight PROVE Narrow(g)'
    BY <1>2 DEF IInv, Quiet, Moves, Narrow, Fresh, Local, Does
<1>3. ASSUME Alone, OnlyOpens, NEW g \in Flight PROVE Safe(g)'
    <2>1. Secrets(g)'
        BY <1>3 DEF IInv, Safe, Quiet, Moves, Secrets, AsksAll, Does
    <2>2. ProcOf[g] \in Process /\ Knows(ProcOf[g])
        BY <1>3, ConfigAssumption DEF IInv, Safe
    <2>3. \A c \in Custom : file["customs"][c] = "secret" => Known(ProcOf[g])[c] = "secret"
        BY <2>2, KnownIs DEF IInv
    <2>4. Knows(ProcOf[g])'
        BY <2>2, <2>3 DEF Quiet, Knows
    <2>5. QED
        BY <2>1, <2>4 DEF Safe
<1>4. QED
    BY <1>1, <1>2, <1>3 DEF IInv, Alone, OnlyOpens

LEMMA StepOf == ASSUME IInv, NEW f \in Flight
                PROVE  /\ ProcOf[f] \in Process /\ Struct(f) /\ job[f] \in Jobs \cup {None}
                       /\ pc[f] \in Steps /\ \A p \in Process : registry[p] \in {registry[p], Known(p), None}
    BY ConfigAssumption DEF IInv, Typed

\* The registry of one process is loaded, or reset.
LEMMA RegistryMoves ==
    ASSUME IInv, NEW p \in Process, registry' \in {registry, [registry EXCEPT ![p] = Known(p)],
                                                   [registry EXCEPT ![p] = None]}
    PROVE  /\ registry' \in [Process -> Contents("customs") \cup {None}]
           /\ \A q \in Process : registry'[q] \in {registry[q], Known(q), None}
    BY KnownIs DEF IInv, Typed

\* A call returns without having written.
LEMMA Returns ==
    ASSUME IInv, NEW f \in Flight, End(f), UNCHANGED <<file, lock>>,
           kept' \in {kept, [kept EXCEPT ![f] = {}]},
           registry' \in {registry, [registry EXCEPT ![ProcOf[f]] = Known(ProcOf[f])],
                          [registry EXCEPT ![ProcOf[f]] = None]}
    PROVE  IInv'
<1>1. /\ registry' \in [Process -> Contents("customs") \cup {None}]
      /\ \A q \in Process : registry'[q] \in {registry[q], Known(q), None}
    BY StepOf, RegistryMoves
<1>2. /\ pc' = [pc EXCEPT ![f] = "idle"] /\ job' = [job EXCEPT ![f] = None]
      /\ seen' = [seen EXCEPT ![f] = None] /\ draft' = [draft EXCEPT ![f] = None]
      /\ tests' = [tests EXCEPT ![f] = <<>>] /\ DOMAIN <<>> = {}
    BY DEF End, Goto
<1>3. Quiet(f)
    BY <1>1, <1>2 DEF Quiet, Moves, IInv, Typed, Struct
<1>4. Typed'
    BY <1>1, <1>2 DEF IInv, Typed, Steps
<1>5. pc'[f] = "idle" /\ job'[f] = None /\ DOMAIN tests'[f] = {}
    BY <1>2 DEF IInv, Typed
<1>6. Struct(f)'
    BY <1>5 DEF Struct, Does, Exporting, Importing
<1>7. Narrow(f)' /\ Secrets(f)'
    BY <1>5 DEF Narrow, Fresh, Local, Secrets, Does
<1>8. QED
    BY <1>3, <1>4, <1>6, <1>7, QuietKeeps

LEMMA BeginKeeps == ASSUME IInv, NEW f \in Flight, NEW j \in Jobs, Begin(f, j) PROVE IInv'
<1>1. /\ pc[f] = "idle" /\ pc' = [pc EXCEPT ![f] = FirstStep(j)] /\ job' = [job EXCEPT ![f] = j]
      /\ UNCHANGED <<file, lock, registry, seen, tests>>
      /\ draft' = IF j.op \in {"save", "remove"}
                  THEN [draft EXCEPT ![f] = [store |-> j.store, key |-> j.key, value |-> j.value]]
                  ELSE draft
    BY DEF Begin, Goto, Draft
<1> DEFINE found == CASE j.op = "import" /\ ~j.overwrite -> Present
                        [] j.op = "export" -> {x \in Present : file[x[1]][x[2]] = "secret"}
                        [] OTHER -> {}
<1>2. kept' = [kept EXCEPT ![f] = found]
    BY DEF Begin
<1>3. /\ found \in SUBSET Records
      /\ j.op = "import" => \A s \in Store : \A k \in Ids(s) : <<s, k>> \in found => file[s][k] # None
      /\ j.op = "export" => \A c \in Custom : <<"customs", c>> \in found => file["customs"][c] = "secret"
    BY DEF Present, Records, AnyId
<1> HIDE DEF found
<1>4. FirstStep(j) \in Steps /\ FirstStep(j) \notin {"idle", "write"}
    BY DEF FirstStep, Steps, Exporting, Importing
<1>5. Quiet(f)
    BY <1>1, <1>2, StepOf DEF Quiet, Moves, IInv, Typed, Struct
<1>6. Typed'
    BY <1>1, <1>2, <1>3, <1>4 DEF IInv, Typed
<1>7. /\ pc'[f] = FirstStep(j) /\ job'[f] = j /\ kept'[f] = found /\ tests'[f] = tests[f]
      /\ j.op \in {"save", "remove"} =>
            draft'[f].store = j.store /\ draft'[f].key = j.key /\ draft'[f].value = j.value
    BY <1>1, <1>2 DEF IInv, Typed
<1>8. Struct(f)'
    BY <1>4, <1>7, CallsAre DEF Struct, Does, FirstStep, Exporting, Importing, DraftOK, Ids
<1>9. Narrow(f)'
    BY <1>1, <1>3, <1>4, <1>7 DEF Narrow, Fresh, Local, Does, FirstStep
<1>10. Alone /\ OnlyOpens => Secrets(f)'
    <2>1. SUFFICES ASSUME Alone, OnlyOpens PROVE Secrets(f)'
        OBVIOUS
    <2>2. DOMAIN tests[f] = {}
        BY <1>1, <2>1, StepOf DEF IInv, Safe, Secrets, Struct, Does
    <2>3. pc'[f] \notin {"exTest1", "exAccounts", "exTest2", "exEnd"}
        BY <1>7 DEF FirstStep
    <2>4. QED
        BY <1>1, <1>3, <1>7, <2>2, <2>3 DEF Secrets, Does
<1>11. QED
    BY <1>5, <1>6, <1>8, <1>9, <1>10, QuietKeeps

LEMMA EnterKeeps == ASSUME IInv, NEW f \in Flight, Enter(f) PROVE IInv'
<1> DEFINE s == draft[f].store  p == ProcOf[f]
<1>1. /\ pc[f] = "lock" /\ lock[p][s] = None /\ lock' = [lock EXCEPT ![p][s] = f]
      /\ seen' = [seen EXCEPT ![f] = Reading(s, file[s])] /\ pc' = [pc EXCEPT ![f] = "write"]
      /\ UNCHANGED <<file, registry, job, draft, tests, kept>>
    BY DEF Enter, Goto
<1>2. s \in Store /\ p \in Process /\ file[s] \in Contents(s)
    BY <1>1, StepOf, ContentsOf DEF Struct, DraftOK, IInv, Typed
<1>3. lock' \in [Process -> [Store -> Flight \cup {None}]] /\ lock'[p][s] = f
    BY <1>1, <1>2 DEF IInv, Typed
<1>4. ASSUME NEW g \in Flight \ {f}, pc[g] = "write" PROVE lock'[ProcOf[g]][draft[g].store] = g
    <2>1. lock[ProcOf[g]][draft[g].store] = g /\ g # None /\ ProcOf[g] \in Process /\ draft[g].store \in Store
        BY <1>4, StepOf, ConfigAssumption DEF Struct, DraftOK
    <2>2. QED
        BY <1>1, <1>2, <2>1 DEF IInv, Typed
<1>5. Typed'
    BY <1>1, <1>3 DEF IInv, Typed, Steps
<1>6. Quiet(f)
    BY <1>1, <1>4, <1>5, StepOf DEF Quiet, Moves, IInv, Typed
<1>7. /\ pc'[f] = "write" /\ job'[f] = job[f] /\ draft'[f] = draft[f] /\ tests'[f] = tests[f]
      /\ kept'[f] = kept[f] /\ seen'[f][s] = file[s]
    BY <1>1 DEF IInv, Typed, Reading
<1>8. Struct(f)'
    BY <1>1, <1>2, <1>3, <1>7, StepOf DEF Struct, Does, Exporting, Importing
<1>9. Alone => Narrow(f)'
    BY <1>1, <1>7 DEF IInv, Narrow, Fresh, Local, Does
<1>10. Alone /\ OnlyOpens => Secrets(f)'
    BY <1>1, <1>7 DEF IInv, Safe, Secrets, Does
<1>11. QED
    BY <1>5, <1>6, <1>8, <1>9, <1>10, QuietKeeps

\* A call goes on to its next step.
LEMMA Proceeds ==
    ASSUME IInv, NEW f \in Flight, NEW step \in Steps, NEW r, NEW d, NEW t,
           pc' = [pc EXCEPT ![f] = step], UNCHANGED <<file, lock, job, kept>>,
           seen' \in {seen, [seen EXCEPT ![f] = r]}, draft' \in {draft, [draft EXCEPT ![f] = d]},
           tests' \in {tests, [tests EXCEPT ![f] = t]},
           registry' \in {registry, [registry EXCEPT ![ProcOf[f]] = Known(ProcOf[f])],
                          [registry EXCEPT ![ProcOf[f]] = None]}
    PROVE  Quiet(f) /\ Typed' /\ pc'[f] = step
<1>1. /\ registry' \in [Process -> Contents("customs") \cup {None}]
      /\ \A q \in Process : registry'[q] \in {registry[q], Known(q), None}
    BY StepOf, RegistryMoves
<1>2. Typed'
    BY <1>1 DEF IInv, Typed
<1>3. Quiet(f)
    BY <1>1 DEF Quiet, Moves, IInv, Typed, Struct
<1>4. QED
    BY <1>2, <1>3 DEF IInv, Typed

LEMMA CheckAccountKeeps == ASSUME IInv, NEW f \in Flight, CheckAccount(f) PROVE IInv'
<1>1. /\ pc[f] = "registry" /\ registry' = [registry EXCEPT ![ProcOf[f]] = Known(ProcOf[f])]
      /\ UNCHANGED <<file, lock, kept>>
    BY DEF CheckAccount, Load
<1>2. CASE End(f)
    BY <1>1, <1>2, Returns
<1>3. CASE Goto(f, "lock") /\ UNCHANGED <<job, seen, draft, tests>>
    <2>1. Quiet(f) /\ Typed' /\ pc'[f] = "lock"
        BY <1>1, <1>3, Proceeds DEF Goto, Steps
    <2>2. ~Does(f, "import")
        BY <1>1, StepOf DEF Struct, Does
    <2>3. Struct(f)'
        BY <1>1, <1>3, <2>1, <2>2, StepOf DEF Struct, Does, Exporting, Importing
    <2>4. Alone => Narrow(f)'
        BY <1>1, <1>3, <2>1, <2>2 DEF Narrow, Fresh, Local, Does
    <2>5. Alone /\ OnlyOpens => Secrets(f)'
        BY <1>1, <1>3, <2>1 DEF IInv, Safe, Secrets, Does
    <2>6. QED
        BY <2>1, <2>3, <2>4, <2>5, QuietKeeps
<1>4. QED
    BY <1>2, <1>3 DEF CheckAccount

LEMMA UpdateGetKeeps == ASSUME IInv, NEW f \in Flight, UpdateGet(f) PROVE IInv'
<1> DEFINE a == job[f].key
<1>1. pc[f] = "upGet" /\ UNCHANGED <<file, lock, registry, kept>>
    BY DEF UpdateGet
<1>2. CASE End(f)
    BY <1>1, <1>2, Returns
<1>3. CASE file.accounts[a] # None /\ ~End(f)
    <2>1. /\ seen' = [seen EXCEPT ![f] = Reading(a, file.accounts[a])]
          /\ pc' = [pc EXCEPT ![f] = "upMerge"] /\ UNCHANGED <<job, draft, tests>>
        BY <1>3 DEF UpdateGet, Goto
    <2>2. Quiet(f) /\ Typed' /\ pc'[f] = "upMerge"
        BY <1>1, <2>1, Proceeds DEF Steps
    <2>3. Does(f, "update") /\ a \in Account
        BY <1>1, StepOf, CallsAre DEF Struct, Does
    <2>4. "accounts" \in Store /\ file \in Files
        BY DEF IInv, Typed, Store
    <2>5. file.accounts[a] \in Values("accounts")
        BY <1>3, <2>3, <2>4, ContentsOf DEF Contents, Ids
    <2>6. seen'[f][a] = file.accounts[a]
        BY <2>1 DEF IInv, Typed, Reading
    <2>7. Struct(f)'
        BY <1>1, <2>1, <2>2, <2>3, <2>5, <2>6, StepOf DEF Struct, Does, Exporting, Importing
    <2>8. Alone => Narrow(f)'
        BY <1>1, <2>1, <2>2, <2>3 DEF Narrow, Fresh, Local, Does
    <2>9. Alone /\ OnlyOpens => Secrets(f)'
        BY <1>1, <2>1, <2>2, <2>3 DEF IInv, Safe, Secrets, Does
    <2>10. QED
        BY <2>2, <2>7, <2>8, <2>9, QuietKeeps
<1>4. QED
    BY <1>2, <1>3 DEF UpdateGet

LEMMA UpdateMergeKeeps == ASSUME IInv, NEW f \in Flight, UpdateMerge(f) PROVE IInv'
<1> DEFINE d == [store |-> "accounts", key |-> job[f].key, value |-> Merged(f)]
<1>1. /\ pc[f] = "upMerge" /\ registry' = [registry EXCEPT ![ProcOf[f]] = Known(ProcOf[f])]
      /\ draft' = [draft EXCEPT ![f] = d] /\ pc' = [pc EXCEPT ![f] = "registry"]
      /\ UNCHANGED <<file, lock, job, seen, tests, kept>>
    BY DEF UpdateMerge, Load, Draft, Goto
<1>2. Quiet(f) /\ Typed' /\ pc'[f] = "registry"
    BY <1>1, Proceeds DEF Steps
<1>3. Does(f, "update") /\ job[f].key \in Account /\ job[f].value \in Values("accounts")
    BY <1>1, StepOf, CallsAre DEF Struct, Does
<1>4. DraftOK(d)
    BY <1>1, <1>3, StepOf DEF DraftOK, Merged, Struct, Store, Ids
<1>5. draft'[f] = d /\ d.store = "accounts"
    BY <1>1 DEF IInv, Typed
<1> HIDE DEF d
<1>6. Struct(f)'
    BY <1>1, <1>2, <1>3, <1>4, <1>5, StepOf DEF Struct, Does, Exporting, Importing
<1>7. Alone => Narrow(f)'
    BY <1>1, <1>2, <1>3 DEF Narrow, Fresh, Local, Does
<1>8. Alone /\ OnlyOpens => Secrets(f)'
    BY <1>1, <1>2, <1>3 DEF IInv, Safe, Secrets, Does
<1>9. QED
    BY <1>2, <1>6, <1>7, <1>8, QuietKeeps

LEMMA AddGetKeeps == ASSUME IInv, NEW f \in Flight, AddGet(f) PROVE IInv'
<1> DEFINE d == [store |-> "accounts", key |-> job[f].key, value |-> job[f].value]
<1>1. /\ pc[f] = "addGet" /\ registry' = [registry EXCEPT ![ProcOf[f]] = Known(ProcOf[f])]
      /\ UNCHANGED <<file, lock, kept>>
    BY DEF AddGet, Load
<1>2. CASE End(f)
    BY <1>1, <1>2, Returns
<1>3. CASE draft' = [draft EXCEPT ![f] = d] /\ pc' = [pc EXCEPT ![f] = "lock"]
           /\ UNCHANGED <<job, seen, tests>>
    <2>1. Quiet(f) /\ Typed' /\ pc'[f] = "lock"
        BY <1>1, <1>3, Proceeds DEF Steps
    <2>2. Does(f, "add") /\ job[f].key \in Account /\ job[f].value \in Values("accounts")
        BY <1>1, StepOf, CallsAre DEF Struct, Does
    <2>3. DraftOK(d) /\ draft'[f] = d
        BY <1>3, <2>2 DEF DraftOK, Store, Ids, IInv, Typed
    <2> HIDE DEF d
    <2>4. Struct(f)'
        BY <1>1, <1>3, <2>1, <2>2, <2>3, StepOf DEF Struct, Does, Exporting, Importing
    <2>5. Alone => Narrow(f)'
        BY <1>1, <1>3, <2>1, <2>2 DEF Narrow, Fresh, Local, Does
    <2>6. Alone /\ OnlyOpens => Secrets(f)'
        BY <1>1, <1>3, <2>1, <2>2 DEF IInv, Safe, Secrets, Does
    <2>7. QED
        BY <2>1, <2>4, <2>5, <2>6, QuietKeeps
<1>4. QED
    BY <1>2, <1>3 DEF AddGet, Draft, Goto

LEMMA RetireKeeps == ASSUME IInv, NEW f \in Flight, Retire(f) PROVE IInv'
<1> DEFINE d == [store |-> "customs", key |-> job[f].key, value |-> None]
<1> DEFINE on(there) == /\ pc' = [pc EXCEPT ![f] = there] /\ UNCHANGED <<job, seen, tests>>
                        /\ draft' = IF there = "lock" THEN [draft EXCEPT ![f] = d] ELSE draft
<1>1. PICK here \in {"rcGet", "rcAccounts", "rcProfiles"}, there \in {"rcAccounts", "rcProfiles", "lock"} :
          pc[f] = here /\ UNCHANGED <<file, lock, registry, kept>> /\ (End(f) \/ on(there))
    BY DEF Retire, RetireStep, Goto, Draft
<1>2. pc[f] = here /\ UNCHANGED <<file, lock, registry, kept>>
    BY <1>1
<1>3. CASE End(f)
    BY <1>2, <1>3, Returns
<1>4. CASE on(there)
    <2>1. Quiet(f) /\ Typed' /\ pc'[f] = there
        BY <1>2, <1>4, Proceeds DEF Steps
    <2>2. Does(f, "retire") /\ job[f].key \in Custom
        BY <1>2, StepOf, CallsAre DEF Struct, Does
    <2>3. there = "lock" => DraftOK(d) /\ draft'[f] = d
        BY <1>4, <2>2 DEF DraftOK, Store, Ids, IInv, Typed
    <2> HIDE DEF d
    <2>4. Struct(f)'
        BY <1>2, <1>4, <2>1, <2>2, <2>3, StepOf DEF Struct, Does, Exporting, Importing
    <2>5. Alone => Narrow(f)'
        BY <1>2, <1>4, <2>1, <2>2 DEF Narrow, Fresh, Local, Does
    <2>6. Alone /\ OnlyOpens => Secrets(f)'
        BY <1>2, <1>4, <2>1, <2>2 DEF IInv, Safe, Secrets, Does
    <2>7. QED
        BY <2>1, <2>4, <2>5, <2>6, QuietKeeps
<1>5. QED
    BY <1>1, <1>3, <1>4
-----------------------------------------------------------------------------
(* Backup *)

LEMMA ExportCustomsKeeps == ASSUME IInv, NEW f \in Flight, ExportCustoms(f) PROVE IInv'
<1>1. /\ pc[f] = "exCustoms" /\ seen' = [seen EXCEPT ![f] = Reading("customs", file.customs)]
      /\ pc' = [pc EXCEPT ![f] = "exProfiles"] /\ UNCHANGED <<file, lock, registry, job, draft, tests, kept>>
    BY DEF ExportCustoms, Goto
<1>2. Quiet(f) /\ Typed' /\ pc'[f] = "exProfiles"
    BY <1>1, Proceeds DEF Steps, Exporting
<1>3. Does(f, "export") /\ job'[f] = job[f]
    BY <1>1, StepOf DEF Struct, Exporting
<1>4. Struct(f)'
    BY <1>2, <1>3 DEF Struct, Does, Exporting, Importing
<1>5. Alone => Narrow(f)'
    BY <1>2, <1>3 DEF Narrow, Fresh, Local, Does
<1>6. Alone /\ OnlyOpens => Secrets(f)'
    BY <1>1, <1>2, <1>3 DEF IInv, Safe, Secrets, Does
<1>7. QED
    BY <1>2, <1>4, <1>5, <1>6, QuietKeeps

LEMMA ExportListKeeps ==
    ASSUME IInv, NEW f \in Flight, NEW here, NEW s, NEW there, ExportList(f, here, s, there),
           <<here, s, there>> \in {<<"exProfiles", "profiles", "exTest1">>, <<"exAccounts", "accounts", "exTest2">>}
    PROVE  IInv'
<1> DEFINE r == Joined(Reading(s, file[s]), seen[f])
<1>1. /\ pc[f] = here /\ seen' = [seen EXCEPT ![f] = r] /\ pc' = [pc EXCEPT ![f] = there]
      /\ UNCHANGED <<file, lock, registry, job, draft, tests, kept>>
    BY DEF ExportList, Goto
<1>2. /\ here \in {"exProfiles", "exAccounts"} /\ there \in {"exTest1", "exTest2"}
      /\ here = "exProfiles" => s = "profiles" /\ there = "exTest1"
      /\ here = "exAccounts" => s = "accounts" /\ there = "exTest2"
    OBVIOUS
<1>3. /\ s \in DOMAIN r
      /\ s = "accounts" /\ "profiles" \in DOMAIN seen[f] => "profiles" \in DOMAIN r /\ r["profiles"] = seen[f]["profiles"]
    BY DEF Joined, Reading
<1>4. seen'[f] = r
    BY <1>1 DEF IInv, Typed
<1>5. Quiet(f) /\ Typed' /\ pc'[f] = there
    BY <1>1, <1>2, Proceeds DEF Steps, Exporting
<1> HIDE DEF r
<1>6. Does(f, "export") /\ job'[f] = job[f]
    BY <1>1, <1>2, StepOf DEF Struct, Exporting
<1>7. Struct(f)'
    BY <1>2, <1>5, <1>6 DEF Struct, Does, Exporting, Importing
<1>8. Alone => Narrow(f)'
    BY <1>2, <1>5, <1>6 DEF Narrow, Fresh, Local, Does
<1>9. Alone /\ OnlyOpens => Secrets(f)'
    <2>1. SUFFICES ASSUME Alone, OnlyOpens PROVE Secrets(f)'
        OBVIOUS
    <2>2. Secrets(f)
        BY <2>1 DEF IInv, Safe
    <2>3. CASE here = "exProfiles"
        BY <1>1, <1>2, <1>3, <1>4, <1>5, <1>6, <2>2, <2>3 DEF Secrets, Does
    <2>4. CASE here = "exAccounts"
        <3>1. AsksAll(f, "profiles")'
            BY <1>1, <1>2, <1>3, <1>4, <2>2, <2>4 DEF Secrets, AsksAll
        <3>2. QED
            BY <1>1, <1>2, <1>3, <1>4, <1>5, <1>6, <2>2, <2>4, <3>1 DEF Secrets, Does
    <2>5. QED
        BY <1>2, <2>3, <2>4
<1>10. QED
    BY <1>5, <1>7, <1>8, <1>9, QuietKeeps

LEMMA ExportTestsKeeps ==
    ASSUME IInv, NEW f \in Flight, NEW here, NEW s, NEW there, ExportTests(f, here, s, there),
           <<here, s, there>> \in {<<"exTest1", "profiles", "exAccounts">>, <<"exTest2", "accounts", "exEnd">>}
    PROVE  IInv'
<1> DEFINE new == AskedFor(f, s) \ DOMAIN tests[f]
           t == Joined([c \in new |-> Verdict(f, c)], tests[f])
<1>1. /\ pc[f] = here /\ tests' = [tests EXCEPT ![f] = t] /\ pc' = [pc EXCEPT ![f] = there]
      /\ registry' \in {registry, [registry EXCEPT ![ProcOf[f]] = Known(ProcOf[f])]}
      /\ UNCHANGED <<file, lock, job, seen, draft, kept>>
    BY DEF ExportTests, Load, Goto
<1>2. /\ here \in {"exTest1", "exTest2"} /\ there \in {"exAccounts", "exEnd"} /\ s \in {"profiles", "accounts"}
      /\ here = "exTest1" => s = "profiles" /\ there = "exAccounts"
      /\ here = "exTest2" => s = "accounts" /\ there = "exEnd"
    OBVIOUS
<1>3. /\ DOMAIN t = AskedFor(f, s) \cup DOMAIN tests[f]
      /\ \A c \in DOMAIN tests[f] : t[c] = tests[f][c]
      /\ \A c \in DOMAIN t \ DOMAIN tests[f] : t[c] = Verdict(f, c)
    BY DEF Joined
<1>4. tests'[f] = t
    BY <1>1 DEF IInv, Typed
<1>5. Quiet(f) /\ Typed' /\ pc'[f] = there
    BY <1>1, <1>2, Proceeds DEF Steps, Exporting
<1> HIDE DEF t
<1>6. Does(f, "export") /\ job'[f] = job[f] /\ seen'[f] = seen[f] /\ kept'[f] = kept[f]
    BY <1>1, <1>2, StepOf DEF Struct, Exporting
<1>7. Struct(f)'
    BY <1>2, <1>5, <1>6 DEF Struct, Does, Exporting, Importing
<1>8. Alone => Narrow(f)'
    BY <1>2, <1>5, <1>6 DEF Narrow, Fresh, Local, Does
<1>9. Alone /\ OnlyOpens => Secrets(f)'
    <2>1. SUFFICES ASSUME Alone, OnlyOpens PROVE Secrets(f)'
        OBVIOUS
    <2>2. Secrets(f) /\ Knows(ProcOf[f]) /\ ProcOf[f] \in Process
        BY <2>1, StepOf DEF IInv, Safe
    <2>3. ASSUME NEW c \in Custom, <<"customs", c>> \in kept[f]
          PROVE  file["customs"][c] = "secret" /\ (c \in DOMAIN t => t[c] = TRUE)
        <3>1. file["customs"][c] = "secret" /\ (c \in DOMAIN tests[f] => tests[f][c] = TRUE)
            BY <1>6, <2>2, <2>3 DEF Secrets
        <3>2. Known(ProcOf[f])[c] = "secret"
            BY <2>2, <3>1, KnownIs DEF IInv
        <3>3. Verdict(f, c) = TRUE
            BY <3>2 DEF Verdict, DeclaredSecret
        <3>4. QED
            BY <1>3, <3>1, <3>3
    <2>4. AskedFor(f, s) \subseteq DOMAIN t
        BY <1>3
    <2>5. AsksAll(f, s)'
        BY <1>2, <1>4, <1>6, <2>4, ConfigAssumption DEF AsksAll, AskedFor, Ids
    <2>6. AsksAll(f, "profiles")'
        BY <1>1, <1>2, <1>3, <1>4, <1>6, <2>2, <2>5 DEF Secrets, AsksAll
    <2>7. QED
        BY <1>1, <1>2, <1>4, <1>5, <1>6, <2>2, <2>3, <2>5, <2>6 DEF Secrets, Does
<1>10. QED
    BY <1>5, <1>7, <1>8, <1>9, QuietKeeps

LEMMA ExportKeeps == ASSUME IInv, NEW f \in Flight, Export(f) PROVE IInv'
<1>1. CASE ExportEnd(f)
    BY <1>1, Returns DEF ExportEnd
<1>2. QED
    BY <1>1, ExportCustomsKeeps, ExportListKeeps, ExportTestsKeeps DEF Export
-----------------------------------------------------------------------------
(* Restore *)

LEMMA ImportStepKeeps ==
    ASSUME IInv, NEW f \in Flight, NEW here, NEW s, NEW there, ImportStep(f, here, s, there),
           <<here, s, there>> \in {<<"im1", "customs", "im2">>, <<"im2", "profiles", "im3">>,
                                   <<"im3", "accounts", "im4">>, <<"im4", "settings", "imEnd">>}
    PROVE  IInv'
<1>1. s \in Store /\ here \in Importing /\ there \in Importing
    BY DEF Store, Importing
<1>2. pc[f] = here /\ UNCHANGED <<file, lock, registry, job, seen, tests, kept>>
    BY DEF ImportStep
<1>3. Does(f, "import") /\ job'[f] = job[f] /\ kept'[f] = kept[f] /\ tests'[f] = tests[f]
    BY <1>1, <1>2, StepOf DEF Struct
<1>4. ASSUME NEW d, Quiet(f), Typed', pc'[f] \in Importing \cup {"lock"},
             pc'[f] = "lock" => draft'[f] = d /\ DraftOK(d) /\ d.value = Bundle[d.store][d.key] /\ d.value # None
                                /\ (job[f].overwrite \/ file[d.store][d.key] = None)
      PROVE  IInv'
    <2>1. Struct(f)'
        BY <1>3, <1>4, StepOf DEF Struct, Does, Exporting, Importing
    <2>2. Alone => Narrow(f)'
        BY <1>2, <1>3, <1>4 DEF IInv, Narrow, Fresh, Local, Does, DraftOK, Importing
    <2>3. Alone /\ OnlyOpens => Secrets(f)'
        BY <1>2, <1>3, <1>4 DEF IInv, Safe, Secrets, Does, Importing
    <2>4. QED
        BY <1>4, <2>1, <2>2, <2>3, QuietKeeps
<1>5. ASSUME NEW step \in {here, there}, pc' = [pc EXCEPT ![f] = step], UNCHANGED draft
      PROVE  IInv'
    <2>1. Quiet(f) /\ Typed' /\ pc'[f] = step
        BY <1>1, <1>2, <1>5, Proceeds DEF Steps
    <2>2. QED
        BY <1>1, <1>4, <1>5, <2>1 DEF Importing
<1>6. ASSUME NEW k \in Restored(s), job[f].overwrite \/ file[s][k] = None,
             Goto(f, "lock"), Draft(f, s, k, Bundle[s][k])
      PROVE  IInv'
    <2> DEFINE d == [store |-> s, key |-> k, value |-> Bundle[s][k]]
    <2>1. draft' = [draft EXCEPT ![f] = d] /\ pc' = [pc EXCEPT ![f] = "lock"]
        BY <1>6 DEF Draft, Goto
    <2>2. Quiet(f) /\ Typed' /\ pc'[f] = "lock"
        BY <1>2, <2>1, Proceeds DEF Steps
    <2>3. k \in Ids(s) /\ Bundle[s][k] # None /\ Bundle[s] \in Contents(s)
        BY <1>1, ContentsOf, ConfigAssumption DEF Restored
    <2>4. DraftOK(d) /\ d.value = Bundle[d.store][d.key] /\ d.value # None
          /\ (job[f].overwrite \/ file[d.store][d.key] = None)
        BY <1>1, <1>6, <2>3 DEF DraftOK, Contents
    <2>5. draft'[f] = d
        BY <2>1 DEF IInv, Typed
    <2> HIDE DEF d
    <2>6. QED
        BY <1>4, <2>2, <2>4, <2>5
<1>7. pc = [pc EXCEPT ![f] = here]
    BY <1>2 DEF IInv, Typed
<1>8. \/ Goto(f, there) /\ UNCHANGED draft
      \/ UNCHANGED <<pc, draft>>
      \/ \E k \in Restored(s) : /\ job[f].overwrite \/ file[s][k] = None
                                /\ Goto(f, "lock") /\ Draft(f, s, k, Bundle[s][k])
    BY DEF ImportStep
<1>9. QED
    BY <1>5, <1>6, <1>7, <1>8 DEF Goto

LEMMA ImportKeeps == ASSUME IInv, NEW f \in Flight, Import(f) PROVE IInv'
<1>1. CASE ImportEnd(f)
    BY <1>1, Returns DEF ImportEnd, Reset
<1>2. CASE ImportWarn(f)
    <2>1. /\ pc[f] = "imWarn" /\ registry' = [registry EXCEPT ![ProcOf[f]] = Known(ProcOf[f])]
          /\ pc' = [pc EXCEPT ![f] = "im3"] /\ UNCHANGED <<file, lock, job, seen, draft, tests, kept>>
        BY <1>2 DEF ImportWarn, Load, Goto
    <2>2. Quiet(f) /\ Typed' /\ pc'[f] = "im3"
        BY <2>1, Proceeds DEF Steps, Importing
    <2>3. Does(f, "import") /\ job'[f] = job[f]
        BY <2>1, StepOf DEF Struct, Importing
    <2>4. Struct(f)'
        BY <2>2, <2>3 DEF Struct, Does, Exporting, Importing
    <2>5. Alone => Narrow(f)'
        BY <2>1, <2>2, <2>3 DEF IInv, Narrow, Fresh, Local, Does
    <2>6. Alone /\ OnlyOpens => Secrets(f)'
        BY <2>1, <2>2, <2>3 DEF IInv, Safe, Secrets, Does
    <2>7. QED
        BY <2>2, <2>4, <2>5, <2>6, QuietKeeps
<1>3. QED
    BY <1>1, <1>2, ImportStepKeeps DEF Import
-----------------------------------------------------------------------------
(* Steps that write *)

\* A section ends: an import goes on, every other call returns.
LEMMA Leaves ==
    ASSUME IInv, NEW f \in Flight, NEW step \in Importing, pc[f] = "write", Leave(f, step)
    PROVE  /\ Moves(f) /\ lock' \in [Process -> [Store -> Flight \cup {None}]]
           /\ job' \in [Flight -> Jobs \cup {None}] /\ pc' \in [Flight -> Steps]
           /\ seen' = [g \in Flight |-> seen'[g]] /\ draft' = [g \in Flight |-> draft'[g]]
           /\ tests' = [g \in Flight |-> tests'[g]]
           /\ Struct(f)' /\ pc'[f] \notin {"lock", "write"} \cup Exporting
           /\ (Does(f, "export"))' = FALSE /\ tests'[f] \in {tests[f], <<>>}
<1> DEFINE p == ProcOf[f]  s == draft[f].store
<1>1. lock' = [lock EXCEPT ![p][s] = None] /\ p \in Process /\ s \in Store
      /\ lock[p][s] = f /\ job[f] \in Jobs
    BY StepOf DEF Leave, Struct, DraftOK
<1>2. ASSUME NEW g \in Flight \ {f}, pc[g] = "write" PROVE lock'[ProcOf[g]][draft[g].store] = g
    <2>1. lock[ProcOf[g]][draft[g].store] = g /\ ProcOf[g] \in Process /\ draft[g].store \in Store
        BY <1>2, StepOf DEF Struct, DraftOK
    <2>2. QED
        BY <1>1, <2>1 DEF IInv, Typed
<1>3. lock' \in [Process -> [Store -> Flight \cup {None}]]
    BY <1>1 DEF IInv, Typed
<1>4. step \in Steps /\ step \notin {"lock", "write"} \cup Exporting
    BY DEF Steps, Importing, Exporting
<1>5. CASE Does(f, "import")
    <2>1. /\ pc' = [pc EXCEPT ![f] = step] /\ seen' = [seen EXCEPT ![f] = None]
          /\ UNCHANGED <<job, draft, tests>>
        BY <1>5 DEF Leave, Does, Goto
    <2>2. pc'[f] = step /\ job'[f] = job[f] /\ tests'[f] = tests[f]
        BY <2>1 DEF IInv, Typed
    <2>3. Struct(f)'
        BY <1>4, <1>5, <2>2, StepOf DEF Struct, Does, Importing, Exporting
    <2>4. Moves(f)
        BY <1>2, <2>1 DEF Moves, IInv, Typed
    <2>5. QED
        BY <1>3, <1>4, <1>5, <2>1, <2>2, <2>3, <2>4 DEF IInv, Typed, Does
<1>6. CASE ~Does(f, "import")
    <2>1. job[f].op # "import"
        BY <1>1, <1>6, CallsAre DEF Does
    <2>2. /\ pc' = [pc EXCEPT ![f] = "idle"] /\ job' = [job EXCEPT ![f] = None]
          /\ seen' = [seen EXCEPT ![f] = None] /\ draft' = [draft EXCEPT ![f] = None]
          /\ tests' = [tests EXCEPT ![f] = <<>>]
        BY <2>1 DEF Leave, End, Goto
    <2>3. pc'[f] = "idle" /\ job'[f] = None /\ tests'[f] = <<>>
        BY <2>2 DEF IInv, Typed
    <2>4. Struct(f)'
        BY <2>3 DEF Struct, Does, Importing, Exporting
    <2>5. Moves(f)
        BY <1>2, <2>2 DEF Moves, IInv, Typed
    <2>6. QED
        BY <1>3, <2>2, <2>3, <2>4, <2>5 DEF IInv, Typed, Does, Steps, Exporting
<1>7. QED
    BY <1>5, <1>6

\* Nothing is about to be stored by a call that has left its section.
LEMMA WriteFailsKeeps == ASSUME IInv, NEW f \in Flight, WriteFails(f) PROVE IInv'
<1> DEFINE s == draft[f].store
<1>1. pc[f] = "write" /\ Leave(f, Resume(s)) /\ UNCHANGED <<file, registry, kept>>
    BY DEF WriteFails
<1>2. Resume(s) \in Importing
    BY DEF Resume, Importing
<1>3. /\ Moves(f) /\ Struct(f)' /\ pc'[f] \notin {"lock", "write"} \cup Exporting
      /\ (Does(f, "export"))' = FALSE /\ tests'[f] \in {tests[f], <<>>}
    BY <1>1, <1>2, Leaves
<1>4. Typed'
    BY <1>1, <1>2, Leaves DEF IInv, Typed
<1>5. Quiet(f)
    BY <1>1, <1>3, StepOf DEF Quiet
<1>6. Does(f, "import")' => Does(f, "import")
    BY <1>1, CallsAre DEF Leave, End, Does, IInv, Typed
<1>7. Alone => Narrow(f)'
    BY <1>1, <1>3, <1>6 DEF IInv, Narrow, Fresh, Local, Does
<1>8. Alone /\ OnlyOpens => Secrets(f)'
    <2>1. DOMAIN <<>> = {} /\ ~Does(f, "export")
        BY <1>1, StepOf DEF Struct, Exporting
    <2>2. QED
        BY <1>3, <2>1 DEF IInv, Safe, Secrets, Does, Exporting
<1>9. QED
    BY <1>3, <1>4, <1>5, <1>7, <1>8, QuietKeeps

\* One record of the file of one store is replaced: what that needs of the writer.
LEMMA WriteKeeps ==
    ASSUME IInv, NEW f \in Flight, NEW s \in Store, NEW k \in Ids(s), NEW v \in Values(s) \cup {None},
           NEW w \in Contents(s), file' = [file EXCEPT ![s] = w], Alone => w = [file[s] EXCEPT ![k] = v],
           Changed(s, k, v), Moves(f), Typed', Struct(f)',
           pc'[f] \notin {"lock", "write"} \cup Exporting, (Does(f, "export"))' = FALSE,
           (Does(f, "import"))' => Does(f, "import"), ~Does(f, "export"),
           Alone /\ OnlyOpens => DOMAIN tests'[f] = {},
           Alone /\ s \in ListStore => \A g \in Flight \ {f} : pc[g] = "write" => draft[g].store # s,
           registry' = registry \/ (s = "customs" /\ registry' = [registry EXCEPT ![ProcOf[f]] = None]),
           OnlyOpens /\ s = "customs" /\ registry'[ProcOf[f]] # None => v # "secret"
    PROVE  IInv'
<1>1. ASSUME NEW g \in Flight PROVE Struct(g)'
    BY <1>1 DEF IInv, Moves, Struct, Does
<1>2. file \in Files /\ \A t \in Store : file'[t] = IF t = s THEN w ELSE file[t]
    BY PutStore DEF IInv, Typed
<1>3. file[s] \in Contents(s)
    BY <1>2, ContentsOf
<1>4. ASSUME Alone, NEW t \in Store, NEW x \in Ids(t)
      PROVE  file'[t][x] = IF t = s /\ x = k THEN v ELSE file[t][x]
    BY <1>2, <1>3, <1>4 DEF Contents
<1>5. ASSUME NEW g \in Flight
      PROVE  /\ kept'[g] \subseteq kept[g]
             /\ v = None => <<s, k>> \notin kept'[g]
             /\ Does(g, "export") /\ v # "secret" => <<s, k>> \notin kept'[g]
    BY <1>5 DEF Changed, Does
<1>6. ASSUME Alone, NEW g \in Flight PROVE Narrow(g)'
    <2>1. Fresh(g) /\ Local(g)
        BY <1>6 DEF IInv, Narrow
    <2>2. Fresh(g)'
        <3>1. CASE g = f
            BY <3>1 DEF Fresh
        <3>2. CASE g # f
            <4>1. ASSUME pc[g] = "write" PROVE draft[g].store \in Store
                BY <4>1, StepOf DEF Struct, DraftOK
            <4>2. QED
                BY <1>2, <1>6, <2>1, <3>2, <4>1 DEF Fresh, Moves
        <3>3. QED
            BY <3>1, <3>2
    <2>3. Local(g)'
        <3>1. (Does(g, "import"))' => Does(g, "import")
            BY DEF Moves, Does
        <3>2. ASSUME (Does(g, "import"))', NEW t \in Store, NEW x \in Ids(t), <<t, x>> \in kept'[g]
              PROVE  file'[t][x] # None
            <4>1. <<t, x>> \in kept[g] /\ file[t][x] # None
                BY <1>5, <2>1, <3>1, <3>2 DEF Local
            <4>2. CASE t = s /\ x = k
                BY <1>4, <1>5, <1>6, <3>2, <4>2
            <4>3. CASE ~(t = s /\ x = k)
                BY <1>4, <1>6, <4>1, <4>3
            <4>4. QED
                BY <4>2, <4>3
        <3>3. ASSUME (Does(g, "import"))', pc'[g] \in {"lock", "write"}, ~job'[g].overwrite
              PROVE  <<draft'[g].store, draft'[g].key>> \notin kept'[g]
            BY <1>5, <2>1, <3>1, <3>3 DEF Local, Moves
        <3>4. QED
            BY <3>2, <3>3 DEF Local, Does
    <2>4. QED
        BY <2>2, <2>3 DEF Narrow
<1>7. ASSUME Alone, OnlyOpens, NEW g \in Flight PROVE Safe(g)'
    <2>1. Secrets(g) /\ Knows(ProcOf[g]) /\ ProcOf[g] = ProcOf[f] /\ ProcOf[g] \in Process
        BY <1>7, StepOf DEF IInv, Safe, Alone
    <2>2. Secrets(g)'
        <3>1. CASE g = f
            BY <1>7, <3>1 DEF Secrets, Exporting, Does
        <3>2. CASE g # f
            <4>1. /\ pc'[g] = pc[g] /\ job'[g] = job[g] /\ seen'[g] = seen[g] /\ tests'[g] = tests[g]
                BY <3>2 DEF Moves
            <4>2. ASSUME Does(g, "export"), NEW c \in Custom, <<"customs", c>> \in kept'[g]
                  PROVE  file'["customs"][c] = "secret"
                <5>1. file["customs"][c] = "secret" /\ "customs" \in Store /\ c \in Ids("customs")
                    BY <1>5, <2>1, <4>2 DEF Secrets, Store, Ids
                <5>2. CASE s = "customs" /\ c = k
                    BY <1>4, <1>5, <1>7, <4>2, <5>1, <5>2
                <5>3. CASE ~(s = "customs" /\ c = k)
                    BY <1>4, <1>7, <5>1, <5>3
                <5>4. QED
                    BY <5>2, <5>3
            <4>3. QED
                BY <1>5, <2>1, <4>1, <4>2 DEF Secrets, AsksAll, Does
        <3>3. QED
            BY <3>1, <3>2
    <2>3. Knows(ProcOf[g])'
        <3>1. CASE s = "customs" /\ registry' = [registry EXCEPT ![ProcOf[f]] = None]
            BY <2>1, <3>1 DEF Knows, IInv, Typed
        <3>2. CASE registry' = registry
            <4>1. ASSUME NEW c \in Custom, file'["customs"][c] = "secret", registry'[ProcOf[f]] # None
                  PROVE  file["customs"][c] = "secret"
                <5>1. "customs" \in Store /\ c \in Ids("customs")
                    BY DEF Store, Ids
                <5>2. QED
                    BY <1>4, <1>7, <3>2, <4>1, <5>1
            <4>2. QED
                BY <2>1, <3>2, <4>1 DEF Knows
        <3>3. QED
            BY <3>1, <3>2
    <2>4. QED
        BY <2>2, <2>3 DEF Safe
<1>8. QED
    BY <1>1, <1>6, <1>7 DEF IInv, Alone, OnlyOpens

\* Within one process the list that is written back is the list in the file.
LEMMA WrittenIs ==
    ASSUME IInv, NEW f \in Flight, pc[f] = "write"
    PROVE  /\ draft[f].store \in Store /\ draft[f].key \in Ids(draft[f].store)
           /\ draft[f].value \in Values(draft[f].store) \cup {None}
           /\ Written(f) \in Contents(draft[f].store)
           /\ Alone => Written(f) = [file[draft[f].store] EXCEPT ![draft[f].key] = draft[f].value]
<1> DEFINE s == draft[f].store  k == draft[f].key  v == draft[f].value
<1>1. /\ s \in Store /\ k \in Ids(s) /\ v \in Values(s) \cup {None}
      /\ seen[f][s] \in Contents(s)
    BY StepOf DEF Struct, DraftOK
<1>2. file[s] \in Contents(s)
    BY <1>1, ContentsOf DEF IInv, Typed
<1>3. Alone /\ s \in ListStore => seen[f][s] = file[s]
    BY DEF IInv, Narrow, Fresh
<1>4. Written(f) = [(IF s \in ListStore THEN seen[f][s] ELSE file[s]) EXCEPT ![k] = v]
    BY DEF Written
<1> HIDE DEF s, k, v
<1>5. Written(f) \in Contents(s)
    BY <1>1, <1>2, <1>4 DEF Contents
<1>6. Alone => Written(f) = [file[s] EXCEPT ![k] = v]
    BY <1>3, <1>4
<1>7. QED
    BY <1>1, <1>5, <1>6 DEF s, k, v

LEMMA WriteBackKeeps == ASSUME IInv, NEW f \in Flight, WriteBack(f) PROVE IInv'
<1> DEFINE s == draft[f].store  k == draft[f].key  v == draft[f].value  w == Written(f)
           step == IF s = "accounts" THEN "imWarn" ELSE Resume(s)
<1>1. /\ pc[f] = "write" /\ file' = [file EXCEPT ![s] = w] /\ Leave(f, step)
      /\ Stored(f, s) /\ Changed(s, k, v)
    BY DEF WriteBack
<1>2. /\ s \in Store /\ k \in Ids(s) /\ v \in Values(s) \cup {None} /\ w \in Contents(s)
      /\ Alone => w = [file[s] EXCEPT ![k] = v]
    BY <1>1, WrittenIs
<1>3. step \in Importing
    BY DEF Resume, Importing
<1>4. /\ Moves(f) /\ Struct(f)' /\ pc'[f] \notin {"lock", "write"} \cup Exporting
      /\ (Does(f, "export"))' = FALSE /\ tests'[f] \in {tests[f], <<>>}
    BY <1>1, <1>3, Leaves
<1>5. registry' = registry \/ (s = "customs" /\ registry' = [registry EXCEPT ![ProcOf[f]] = None])
    BY <1>1 DEF Stored, Reset
<1>6. registry' \in [Process -> Contents("customs") \cup {None}]
    BY <1>5 DEF IInv, Typed
<1>7. kept' \in [Flight -> SUBSET Records]
    BY <1>1 DEF Changed, IInv, Typed
<1>8. file' \in Files
    BY <1>1, <1>2, PutStore DEF IInv, Typed
<1>9. Typed'
    BY <1>1, <1>3, <1>6, <1>7, <1>8, Leaves DEF IInv, Typed
<1>10. (Does(f, "import"))' => Does(f, "import")
    BY <1>1, CallsAre DEF Leave, End, Does, IInv, Typed
<1>11. ~Does(f, "export") /\ DOMAIN <<>> = {}
    BY <1>1, StepOf DEF Struct, Exporting
<1>12. Alone /\ OnlyOpens => DOMAIN tests'[f] = {}
    BY <1>4, <1>11 DEF IInv, Safe, Secrets
<1>13. Alone => \A g \in Flight \ {f} : pc[g] = "write" => draft[g].store # s
    BY <1>1, StepOf DEF Struct, Alone
<1>14. OnlyOpens /\ s = "customs" /\ registry'[ProcOf[f]] # None => v # "secret"
    <2>1. SUFFICES ASSUME OnlyOpens, s = "customs", registry'[ProcOf[f]] # None, v = "secret" PROVE FALSE
        OBVIOUS
    <2>2. CASE Does(f, "import")
        <3>1. v = Bundle["customs"][k] /\ k \in Custom
            BY <1>1, <1>2, <2>1, <2>2, StepOf DEF Struct, Ids
        <3>2. QED
            BY <2>1, <3>1 DEF OnlyOpens
    <2>3. CASE ~Does(f, "import")
        <3>1. job[f].op # "import"
            BY <1>1, <2>3, StepOf DEF Struct, Does
        <3>2. registry' = [registry EXCEPT ![ProcOf[f]] = None]
            BY <1>1, <2>1, <3>1 DEF Stored, Reset
        <3>3. QED
            BY <2>1, <3>2, StepOf DEF IInv, Typed
    <2>4. QED
        BY <2>2, <2>3
<1> HIDE DEF s, k, v, w
<1>15. QED
    BY <1>1, <1>2, <1>4, <1>5, <1>9, <1>10, <1>11, <1>12, <1>13, <1>14, WriteKeeps

LEMMA UnlinkKeeps == ASSUME IInv, NEW f \in Flight, Unlink(f) PROVE IInv'
<1> DEFINE k == job[f].key  w == [file["accounts"] EXCEPT ![k] = None]
<1>1. /\ pc[f] = "unlink" /\ file' = [file EXCEPT !["accounts"] = w]
      /\ pc' = [pc EXCEPT ![f] = "idle"] /\ job' = [job EXCEPT ![f] = None]
      /\ draft' = [draft EXCEPT ![f] = None] /\ Changed("accounts", k, None)
      /\ UNCHANGED <<lock, registry, seen, tests>>
    BY DEF Unlink, Goto
<1>2. "accounts" \in Store /\ k \in Ids("accounts") /\ None \in Values("accounts") \cup {None}
      /\ "accounts" \notin ListStore /\ "accounts" # "customs"
    BY <1>1, StepOf DEF Struct, Store, Ids, ListStore
<1>3. w \in Contents("accounts")
    BY <1>2, ContentsOf DEF IInv, Typed, Contents
<1>4. pc'[f] = "idle" /\ job'[f] = None /\ tests'[f] = tests[f] /\ ~Does(f, "export")
    BY <1>1, StepOf DEF IInv, Typed, Struct, Exporting
<1>5. Struct(f)'
    BY <1>4 DEF Struct, Does, Exporting, Importing
<1>6. Moves(f)
    BY <1>1, StepOf DEF Moves, IInv, Typed, Struct
<1>7. kept' \in [Flight -> SUBSET Records]
    BY <1>1 DEF Changed, IInv, Typed
<1>8. file' \in Files
    BY <1>1, <1>2, <1>3, PutStore DEF IInv, Typed
<1>9. Typed'
    BY <1>1, <1>7, <1>8 DEF IInv, Typed, Steps
<1>10. Alone /\ OnlyOpens => DOMAIN tests'[f] = {}
    BY <1>4 DEF IInv, Safe, Secrets
<1>11. (Does(f, "export"))' = FALSE /\ ~(Does(f, "import"))'
    BY <1>4 DEF Does
<1>12. pc'[f] \notin {"lock", "write"} \cup Exporting
    BY <1>4 DEF Exporting
<1> HIDE DEF k, w
<1>13. w = [file["accounts"] EXCEPT ![k] = None]
    BY DEF w
<1>14. QED
    BY <1>1, <1>2, <1>3, <1>4, <1>5, <1>6, <1>9, <1>10, <1>11, <1>12, <1>13, WriteKeeps
-----------------------------------------------------------------------------
(* Theorems *)

LEMMA InitHolds == Init => IInv
<1>1. SUFFICES ASSUME NEW files \in Files, InitWith(files) PROVE IInv
    BY DEF Init
<1>2. Typed
    BY <1>1 DEF InitWith, Typed, Steps
<1>3. ASSUME NEW g \in Flight
      PROVE  pc[g] = "idle" /\ job[g] = None /\ DOMAIN tests[g] = {} /\ registry[ProcOf[g]] = None
    <2>1. DOMAIN <<>> = {} /\ ProcOf[g] \in Process
        BY ConfigAssumption
    <2>2. QED
        BY <1>1, <2>1 DEF InitWith
<1>4. QED
    BY <1>2, <1>3 DEF IInv, Struct, Narrow, Fresh, Local, Safe, Secrets, Knows, Does, Exporting, Importing

LEMMA NextKeeps == IInv /\ [Next]_vars => IInv'
<1>1. ASSUME IInv, Next PROVE IInv'
    <2>1. PICK f \in Flight :
              \/ \E j \in Jobs : Begin(f, j)
              \/ Enter(f) \/ WriteBack(f) \/ WriteFails(f) \/ Unlink(f) \/ CheckAccount(f)
              \/ UpdateGet(f) \/ UpdateMerge(f) \/ AddGet(f)
              \/ Retire(f) \/ Export(f) \/ Import(f)
        BY <1>1 DEF Next
    <2>2. CASE \E j \in Jobs : Begin(f, j)
        BY <1>1, <2>2, BeginKeeps
    <2>3. CASE Enter(f)
        BY <1>1, <2>3, EnterKeeps
    <2>4. CASE WriteBack(f)
        BY <1>1, <2>4, WriteBackKeeps
    <2>5. CASE WriteFails(f)
        BY <1>1, <2>5, WriteFailsKeeps
    <2>6. CASE Unlink(f)
        BY <1>1, <2>6, UnlinkKeeps
    <2>7. CASE CheckAccount(f)
        BY <1>1, <2>7, CheckAccountKeeps
    <2>8. CASE UpdateGet(f) \/ UpdateMerge(f)
        BY <1>1, <2>8, UpdateGetKeeps, UpdateMergeKeeps
    <2>9. CASE AddGet(f)
        BY <1>1, <2>9, AddGetKeeps
    <2>10. CASE Retire(f)
        BY <1>1, <2>10, RetireKeeps
    <2>11. CASE Export(f)
        BY <1>1, <2>11, ExportKeeps
    <2>12. CASE Import(f)
        BY <1>1, <2>12, ImportKeeps
    <2>13. QED
        BY <2>1, <2>2, <2>3, <2>4, <2>5, <2>6, <2>7, <2>8, <2>9, <2>10, <2>11, <2>12
<1>2. ASSUME IInv, UNCHANGED vars PROVE IInv'
    <2>1. UNCHANGED <<file, lock, registry, job, pc, seen, draft, tests, kept>>
        BY <1>2 DEF vars
    <2>2. ASSUME NEW g \in Flight PROVE Struct(g)'
        BY <1>2, <2>1 DEF IInv, Struct, Does
    <2>3. ASSUME Alone, NEW g \in Flight PROVE Narrow(g)'
        BY <1>2, <2>1, <2>3 DEF IInv, Narrow, Fresh, Local, Does
    <2>4. ASSUME Alone, OnlyOpens, NEW g \in Flight PROVE Safe(g)'
        BY <1>2, <2>1, <2>4 DEF IInv, Safe, Secrets, Knows, AsksAll, Does
    <2>5. QED
        BY <1>2, <2>1, <2>2, <2>3, <2>4 DEF IInv, Typed, Alone, OnlyOpens
<1>3. QED
    BY <1>1, <1>2

(* The invariant holds: every call is where its step says it is, whatever the number of processes;
   within one process no section writes back a list that has changed since it was read, and a
   restore stores nothing over what it has found.                                                *)
THEOREM Invariance == Spec => []IInv
<1>1. QED
    BY InitHolds, NextKeeps, PTL DEF Spec

(* The stores, the sections of withStoreLock and the registry have the values they may have, and
   a call that is about to write holds the section of its store (atomicJson.ts:111-131).         *)
THEOREM TypeCorrect == Spec => []TypeOK
<1>1. ASSUME IInv PROVE TypeOK
    <2>1. ASSUME NEW f \in Flight
          PROVE  /\ job[f] \in Jobs \cup {None} /\ (job[f] = None) = (pc[f] = "idle")
                 /\ pc[f] = "write" => lock[ProcOf[f]][draft[f].store] = f
        BY <1>1, StepOf DEF Struct
    <2>2. ASSUME NEW p \in Process
          PROVE  registry[p] = None \/ registry[p] \in [Custom -> Values("customs") \cup {None}]
        BY <1>1 DEF IInv, Typed, Contents, Ids
    <2>3. QED
        BY <1>1, <2>1, <2>2 DEF TypeOK, IInv, Typed
<1>2. QED
    BY <1>1, Invariance, PTL

\* What a step does to the files.
LEMMA StepWrites ==
    ASSUME IInv, Alone, NEW f \in Flight,
           \/ \E j \in Jobs : Begin(f, j)
           \/ Enter(f) \/ WriteBack(f) \/ WriteFails(f) \/ Unlink(f) \/ CheckAccount(f)
           \/ UpdateGet(f) \/ UpdateMerge(f) \/ AddGet(f)
           \/ Retire(f) \/ Export(f) \/ Import(f)
    PROVE  \/ UNCHANGED file
           \/ \E s \in Store : \E k \in Ids(s), v \in Values(s) \cup {None} :
                 /\ \A t \in Store : \A x \in Ids(t) :
                        file'[t][x] = IF t = s /\ x = k THEN v ELSE file[t][x]
                 /\ \A g \in Flight : pc[g] = "write" /\ pc'[g] # "write" =>
                        draft[g].store = s /\ draft[g].key = k
<1>1. CASE WriteBack(f)
    <2> DEFINE s == draft[f].store  k == draft[f].key  v == draft[f].value  w == Written(f)
               step == IF s = "accounts" THEN "imWarn" ELSE Resume(s)
    <2>1. pc[f] = "write" /\ file' = [file EXCEPT ![s] = w] /\ Leave(f, step)
        BY <1>1 DEF WriteBack
    <2>2. /\ s \in Store /\ k \in Ids(s) /\ v \in Values(s) \cup {None} /\ w \in Contents(s)
          /\ w = [file[s] EXCEPT ![k] = v]
        BY <2>1, WrittenIs
    <2>3. Moves(f)
        <3>1. step \in Importing
            BY DEF Resume, Importing
        <3>2. QED
            BY <2>1, <3>1, Leaves
    <2>4. ASSUME NEW g \in Flight, pc[g] = "write", pc'[g] # "write"
          PROVE  draft[g].store = s /\ draft[g].key = k
        BY <2>3, <2>4 DEF Moves
    <2>5. file[s] \in Contents(s)
        BY <2>2, ContentsOf DEF IInv, Typed
    <2>6. \A t \in Store : file'[t] = IF t = s THEN w ELSE file[t]
        BY <2>1, <2>2, PutStore DEF IInv, Typed
    <2> HIDE DEF s, k, v, w
    <2>7. \A t \in Store : \A x \in Ids(t) : file'[t][x] = IF t = s /\ x = k THEN v ELSE file[t][x]
        BY <2>2, <2>5, <2>6 DEF Contents
    <2>8. QED
        BY <2>2, <2>4, <2>7
<1>2. CASE Unlink(f)
    <2> DEFINE k == job[f].key  w == [file["accounts"] EXCEPT ![k] = None]
    <2>1. /\ pc[f] = "unlink" /\ file' = [file EXCEPT !["accounts"] = w]
          /\ pc' = [pc EXCEPT ![f] = "idle"]
        BY <1>2 DEF Unlink, Goto
    <2>2. "accounts" \in Store /\ k \in Ids("accounts") /\ None \in Values("accounts") \cup {None}
        BY <2>1, StepOf DEF Struct, Store, Ids
    <2>3. file["accounts"] \in Contents("accounts")
        BY <2>2, ContentsOf DEF IInv, Typed
    <2>4. w \in Contents("accounts")
        BY <2>3 DEF Contents
    <2>5. \A t \in Store : file'[t] = IF t = "accounts" THEN w ELSE file[t]
        BY <2>1, <2>2, <2>4, PutStore DEF IInv, Typed
    <2>6. \A t \in Store : \A x \in Ids(t) :
              file'[t][x] = IF t = "accounts" /\ x = k THEN None ELSE file[t][x]
        BY <2>3, <2>5 DEF Contents
    <2>7. \A g \in Flight : ~(pc[g] = "write" /\ pc'[g] # "write")
        BY <2>1 DEF IInv, Typed
    <2> HIDE DEF k, w
    <2>8. QED
        BY <2>2, <2>6, <2>7
<1>3. CASE ~WriteBack(f) /\ ~Unlink(f)
    BY <1>3 DEF Begin, Enter, WriteFails, CheckAccount, UpdateGet, UpdateMerge, AddGet, Retire, RetireStep,
                Export, ExportCustoms, ExportList, ExportTests, ExportEnd,
                Import, ImportStep, ImportWarn, ImportEnd
<1>4. QED
    BY <1>1, <1>2, <1>3

(* Among the calls of one process, a step changes at most one record of a store, whatever is read
   before a section and stored in it; and a restore without overwrite writes over no record that
   it found, also when the record came or went in between (atomicJson.ts:111-115,
   configBundle.ts:47-50).                                                                       *)
THEOREM WritesOneRecord == Alone /\ Spec => WritesStayNarrow
<1>1. ASSUME IInv, Alone, Next PROVE OneRecordChanges /\ LocalsStay
    <2>1. PICK f \in Flight :
              \/ \E j \in Jobs : Begin(f, j)
              \/ Enter(f) \/ WriteBack(f) \/ WriteFails(f) \/ Unlink(f) \/ CheckAccount(f)
              \/ UpdateGet(f) \/ UpdateMerge(f) \/ AddGet(f)
              \/ Retire(f) \/ Export(f) \/ Import(f)
        BY <1>1 DEF Next
    <2>2. CASE UNCHANGED file
        <3>1. \A s \in Store : {k \in Ids(s) : file'[s][k] # file[s][k]} = {}
            BY <2>2
        <3>2. QED
            BY <2>2, <3>1, FS_EmptySet DEF OneRecordChanges, LocalsStay
    <2>3. ASSUME NEW s \in Store, NEW k \in Ids(s), NEW v \in Values(s) \cup {None},
                 \A t \in Store : \A x \in Ids(t) : file'[t][x] = IF t = s /\ x = k THEN v ELSE file[t][x],
                 \A g \in Flight : pc[g] = "write" /\ pc'[g] # "write" =>
                     draft[g].store = s /\ draft[g].key = k
          PROVE  OneRecordChanges /\ LocalsStay
        <3>1. ASSUME NEW t \in Store
              PROVE  Cardinality({x \in Ids(t) : file'[t][x] # file[t][x]}) <= 1
            <4> DEFINE C == {x \in Ids(t) : file'[t][x] # file[t][x]}
            <4>1. C = {} \/ C = {k}
                BY <2>3
            <4> HIDE DEF C
            <4>2. Cardinality(C) \in {0, 1}
                <5>1. Cardinality({}) = 0 /\ Cardinality({k}) = 1
                    BY FS_EmptySet, FS_Singleton
                <5>2. QED
                    BY <4>1, <5>1
            <4>3. Cardinality(C) <= 1
                BY <4>2
            <4>4. QED
                BY <4>3 DEF C
        <3>2. ASSUME NEW g \in Flight, Does(g, "import"), ~job[g].overwrite,
                     pc[g] = "write", pc'[g] # "write", NEW x \in kept[g]
              PROVE  file'[x[1]][x[2]] = file[x[1]][x[2]]
            <4>1. x \in Records /\ Local(g)
                BY <1>1, <3>2 DEF IInv, Typed, Narrow
            <4>2. x[1] \in Store /\ x[2] \in Ids(x[1]) /\ x = <<x[1], x[2]>>
                BY <4>1 DEF Records
            <4>3. <<s, k>> \notin kept[g]
                BY <2>3, <3>2, <4>1 DEF Local
            <4>4. QED
                BY <2>3, <3>2, <4>2, <4>3
        <3>3. QED
            BY <3>1, <3>2 DEF OneRecordChanges, LocalsStay, Does
    <2>4. QED
        BY <1>1, <2>1, <2>2, <2>3, StepWrites
<1>2. Alone /\ IInv /\ [Next]_vars => [OneRecordChanges /\ LocalsStay]_vars
    BY <1>1
<1>3. Alone => Alone'
    BY DEF Alone
<1>4. QED
    BY <1>2, <1>3, Invariance, PTL DEF Spec, WritesStayNarrow

(* A bundle exported without secrets carries no key of a provider whose field has been declared
   secret ever since the export began: among the calls of one process, and as long as no restore
   declares a field secret before it resets the registry (configBundle.ts:53-57, 84-101).        *)
THEOREM Stripped == Alone /\ OnlyOpens /\ Spec => []StrippedMeansStripped
<1>1. ASSUME IInv, Alone, OnlyOpens PROVE StrippedMeansStripped
    <2>1. SUFFICES ASSUME NEW f \in Flight, pc[f] = "exEnd", NEW s \in {"profiles", "accounts"}, NEW k \in Ids(s),
                          <<"customs", ProviderOf[k]>> \in kept[f]
                   PROVE  Exported(f, s, k) \notin Key
        BY DEF StrippedMeansStripped
    <2>2. Secrets(f) /\ Struct(f)
        BY <1>1 DEF IInv, Safe
    <2>3. AsksAll(f, s) /\ Does(f, "export")
        BY <2>1, <2>2 DEF Secrets, Struct, Exporting
    <2>4. ProviderOf[k] \in Custom
        BY <2>1, ConfigAssumption DEF Ids
    <2>5. ASSUME seen[f][s][k] \in Key
          PROVE  ProviderOf[k] \in DOMAIN tests[f] /\ tests[f][ProviderOf[k]] = TRUE /\ seen[f][s][k] # None
        BY <2>1, <2>2, <2>3, <2>4, <2>5, ConfigAssumption DEF Secrets, AsksAll
    <2>6. QED
        BY <2>5, ConfigAssumption DEF Exported
<1>2. Alone /\ OnlyOpens => Alone' /\ OnlyOpens'
    BY DEF Alone, OnlyOpens
<1>3. QED
    BY <1>1, <1>2, Invariance, PTL
=============================================================================

----------------------------- MODULE ProfileForm ------------------------------
(* The page on which a profile is made or edited (web/src/components/ProfileForm.tsx, routeSummary.ts,
   the routes under profiles/), and `swisscode init` (cli/src/init.ts), which makes one from a preset.
   The page works on the lists of accounts it was loaded with; accounts go and profiles change
   meanwhile.  A backend is a record of a kind and an id: an account of the vault ("" is whichever is
   current), a stored key, a provider whose key is typed in, or any text the picker passes on.  A
   match is a model id that may carry blanks; an argument is a sequence of words.  The model is one
   visit of the page.                                                                            *)
EXTENDS Naturals, Sequences, FiniteSets, SequencesExt

CONSTANTS
    Login,       \* ids of subscription accounts
    KeyId,       \* ids of key accounts
    Model,       \* model ids
    Profiles,    \* profiles that may be stored to begin with
    Presets,     \* starter presets: profiles with "slot" for the id of an account
    None,
    MaxStrokes,  \* bound on what is changed in an open form
    MaxEdits     \* bound on what happens elsewhere

Backend(kind, id) == [kind |-> kind, id |-> id]
Text(id, pad) == [id |-> id, pad |-> pad]
Trim(t) == Text(t.id, FALSE)
Route(match, dest) == [match |-> match, dest |-> dest]
Layer == {"user", "project", "local"}

VARIABLES
    stored,     \* the profile in profiles.json, or None
    accounts,   \* the backends that are stored accounts
    page,       \* the open page
    saved,      \* what the page saved last: the profile, and the page it came from, or None
    rejected,   \* what the server refused last, or None
    init,       \* the `init` under way: its step, its profile and the accounts it saw
    made,       \* what the last `init` saved, and the accounts it saw, or None
    edits

vars == <<stored, accounts, page, saved, rejected, init, made, edits>>

Accounts == {Backend("subscription", a) : a \in Login} \cup {Backend("key", k) : k \in KeyId}
NoSession == [tools |-> None, layers |-> {}, settings |-> None, preset |-> None, append |-> None]
NoPage == [pc |-> "closed"]
Left == [pc |-> "left"]
NoInit == [pc |-> "idle"]

Init ==
    /\ stored \in Profiles /\ accounts = Accounts /\ page = NoPage /\ saved = None /\ rejected = None
    /\ init = NoInit /\ made = None /\ edits = 0

TypeOK ==
    /\ accounts \subseteq Accounts /\ page.pc \in {"closed", "loading", "open", "saving", "left"}
    /\ init.pc \in {"idle", "save"} /\ edits \in 0..MaxEdits
    /\ page.pc = "open" => /\ page.strokes \in 0..MaxStrokes /\ page.listed \subseteq Accounts
                           /\ page.form.session.layers \subseteq Layer
-----------------------------------------------------------------------------
(* Between a profile and the form *)

\* profileToForm(), routeToRow(), sessionToForm(): what is absent is blank, and the arguments are one line.
ProfileToForm(p) ==
    [p EXCEPT !.args = FlattenSeq(@),
              !.session.tools = IF @ = None THEN "" ELSE @, !.session.settings = IF @ = None THEN "" ELSE @,
              !.session.preset = IF @ = None THEN "" ELSE @, !.session.append = IF @ = None THEN "" ELSE @,
              !.cwd = IF @ = None THEN "" ELSE @]

OrNone(text) == IF text = "" THEN None ELSE text

\* formToProfile(), rowToRoute(), sessionToOptions(): blank is absent, and all the layers are no layers.
FormToProfile(f) ==
    [f EXCEPT !.args = [i \in DOMAIN @ |-> <<@[i]>>],
              !.routes = [i \in DOMAIN @ |-> Route(Trim(@[i].match), @[i].dest)],
              !.session.tools = OrNone(@), !.session.settings = OrNone(@), !.session.preset = OrNone(@),
              !.session.append = OrNone(@), !.session.layers = IF @ = Layer THEN {} ELSE @, !.cwd = OrNone(@)]

\* effectiveMapping(): for each model the row that is shown without the mark "never fires".
Mapping(rows) ==
    [m \in Model |->
        LET at == {i \in DOMAIN rows : Trim(rows[i].match).id = m}
        IN IF at = {} THEN None ELSE rows[CHOOSE i \in at : \A j \in at : i <= j].dest]

\* selectModelRoute(): the first route that matches the model, blanks and all.
Selected(p) ==
    [m \in Model |->
        LET at == {i \in DOMAIN p.routes : p.routes[i].match = Text(m, FALSE)}
        IN IF at = {} THEN None ELSE p.routes[CHOOSE i \in at : \A j \in at : i <= j].dest]
-----------------------------------------------------------------------------
(* What the page refuses, and what the server refuses *)

\* rowProblem(): no model id, a match that an earlier row has, a backend that is not listed.
RowProblem(rows, i, listed) ==
    \/ Trim(rows[i].match).id \notin Model
    \/ \E j \in 1..(i - 1) : Trim(rows[j].match) = Trim(rows[i].match)
    \/ rows[i].dest \notin listed \cup {Backend("subscription", "")}

\* defaultDestProblem()
DefaultProblem(base, listed) ==
    base \notin listed \cup {Backend("subscription", ""), Backend("manual", "provider")}

\* buildProfile(): the default, then direct mode, then the rows, then the raw settings.
Buildable(f, listed) ==
    /\ ~DefaultProblem(f.base, listed)
    /\ ~(f.direct /\ f.routes # <<>>)
    /\ \A i \in DOMAIN f.routes : ~RowProblem(f.routes, i, listed)
    /\ f.session.settings \in {"", "object"}

\* validateProfile() with validateModelRoutes() and validateSessionOptions(), which know no accounts.
RoutesValid(p) ==
    /\ p.direct => p.routes = <<>>
    /\ \A i \in DOMAIN p.routes :
        /\ Trim(p.routes[i].match).id \in Model
        /\ \A j \in 1..(i - 1) : Trim(p.routes[j].match) # Trim(p.routes[i].match)
        /\ p.routes[i].dest.kind \in {"subscription", "key"}
        /\ p.routes[i].dest.kind = "key" => p.routes[i].dest.id # ""
Validated(p) ==
    /\ RoutesValid(p) /\ p.cwd # "relative" /\ p.session.settings \in {None, "object"}
    /\ "" \notin {p.session.preset, p.session.append} /\ p.session.layers \subseteq Layer
-----------------------------------------------------------------------------
(* The page *)

EmptyForm == [base |-> Backend("manual", "provider"), inline |-> None, args |-> <<>>, direct |-> FALSE, cwd |-> "",
          routes |-> <<>>, session |-> [NoSession EXCEPT !.tools = "", !.settings = "", !.preset = "", !.append = ""]]

\* presetToProfile(): a slot is left blank, for the user to fill.
Emptied(preset) ==
    LET blank(b) == IF b.id = "slot" THEN [b EXCEPT !.id = ""] ELSE b
    IN [preset EXCEPT !.base = blank(@), !.routes = [i \in DOMAIN @ |-> Route(@[i].match, blank(@[i].dest))]]

Elsewhere == UNCHANGED <<init, made, edits, accounts>>

\* The loader of the page for a stored profile, or for a new one, blank or from a preset.
OpenStored ==
    /\ page.pc = "closed" /\ stored # None /\ Elsewhere /\ UNCHANGED <<stored, saved, rejected>>
    /\ page' = [pc |-> "loading", from |-> stored, form |-> ProfileToForm(stored)]
OpenNew ==
    /\ page.pc = "closed" /\ Elsewhere /\ UNCHANGED <<stored, saved, rejected>>
    /\ \E f \in {EmptyForm} \cup {ProfileToForm(Emptied(p)) : p \in Presets} :
        page' = [pc |-> "loading", from |-> None, form |-> f]
\* The accounts are listed after the profile was read.
Listed ==
    /\ page.pc = "loading" /\ Elsewhere /\ UNCHANGED <<stored, saved, rejected>>
    /\ page' = [pc |-> "open", from |-> page.from, form |-> page.form, listed |-> accounts, strokes |-> 0]

Stroke(form) ==
    /\ page.strokes < MaxStrokes /\ Elsewhere /\ UNCHANGED <<stored, saved, rejected>>
    /\ page' = [page EXCEPT !.form = form, !.strokes = @ + 1]

\* A starter preset replaces a new profile's form at any time.
PickPreset ==
    /\ page.pc = "open" /\ page.from = None
    /\ \E f \in {EmptyForm} \cup {ProfileToForm(Emptied(p)) : p \in Presets} : Stroke(f)

\* What the picker offers and passes on: a text it does not know as well.
Pickable == page.listed \cup {Backend("subscription", ""), Backend("text", "")}

\* applyDefaultDest(): a backend replaces the default, a text does not; the key typed in stays.
PickDefault ==
    /\ page.pc = "open"
    /\ \E b \in Pickable \cup {Backend("manual", "provider")} :
        Stroke([page.form EXCEPT !.base = IF b.kind = "text" THEN @ ELSE b])
\* The field for a key is there when no stored account is chosen.
TypeKey ==
    /\ page.pc = "open" /\ page.form.base.kind = "manual" /\ Stroke([page.form EXCEPT !.inline = "typed"])
AddRow ==
    /\ page.pc = "open" /\ ~page.form.direct
    /\ Stroke([page.form EXCEPT !.routes = Append(@, Route(Text("", FALSE), Backend("subscription", "")))])
RemoveRow ==
    /\ page.pc = "open"
    /\ \E i \in DOMAIN page.form.routes : Stroke([page.form EXCEPT !.routes = RemoveAt(@, i)])
UpdateRoute ==
    /\ page.pc = "open"
    /\ \E i \in DOMAIN page.form.routes :
        \/ \E m \in Model \cup {"unknown"}, pad \in BOOLEAN :
            Stroke([page.form EXCEPT !.routes[i].match = Text(m, pad)])
        \/ \E b \in Pickable : Stroke([page.form EXCEPT !.routes[i].dest = b])
SetDirect == page.pc = "open" /\ Stroke([page.form EXCEPT !.direct = ~@])
SetCwd == page.pc = "open" /\ \E c \in {"", "/there", "relative"} : Stroke([page.form EXCEPT !.cwd = c])
\* A preset copies its text into the field below it; both stay free.
SetSession ==
    /\ page.pc = "open"
    /\ \/ \E t \in {"", "some"} : Stroke([page.form EXCEPT !.session.tools = t])
       \/ \E s \in {"", "object", "array", "broken"} : Stroke([page.form EXCEPT !.session.settings = s])
       \/ \E t \in {"", "text"} : Stroke([page.form EXCEPT !.session.append = t])
       \/ \E t \in {"", "preset"} :
            Stroke([page.form EXCEPT !.session.preset = t, !.session.append = IF t = "" THEN @ ELSE "snippet"])
\* A layer's box: no layers are shown as all of them.
ToggleLayer ==
    /\ page.pc = "open"
    /\ \E l \in Layer :
        LET shown == IF page.form.session.layers = {} THEN Layer ELSE page.form.session.layers
        IN Stroke([page.form EXCEPT !.session.layers = IF l \in shown THEN shown \ {l} ELSE shown \cup {l}])

\* onSave(): what can be built goes to the server.
Submit ==
    /\ page.pc = "open" /\ Buildable(page.form, page.listed) /\ Elsewhere /\ UNCHANGED <<stored, saved, rejected>>
    /\ page' = [page EXCEPT !.pc = "saving"]

\* saveProfile(): validated, in the place of whatever is stored; then the page is left, or shows why not.
SaveProfile ==
    /\ page.pc = "saving" /\ Elsewhere
    /\ LET p == FormToProfile(page.form)
       IN IF Validated(p)
          THEN stored' = p /\ saved' = [profile |-> p, page |-> page] /\ page' = Left /\ UNCHANGED rejected
          ELSE rejected' = p /\ page' = [page EXCEPT !.pc = "open"] /\ UNCHANGED <<stored, saved>>

Leave == page.pc = "open" /\ page' = Left /\ Elsewhere /\ UNCHANGED <<stored, saved, rejected>>
-----------------------------------------------------------------------------
(* Elsewhere *)

Edit == edits < MaxEdits /\ edits' = edits + 1 /\ UNCHANGED <<page, saved, rejected>>
RemoveAccount(b) == Edit /\ b \in accounts /\ accounts' = accounts \ {b} /\ UNCHANGED <<stored, init, made>>
DeleteProfile == Edit /\ stored # None /\ stored' = None /\ UNCHANGED <<accounts, init, made>>

\* cmdInit(): no profile of the name, and for each slot the account that was named or the only one.
InitLooks ==
    /\ Edit /\ init.pc = "idle" /\ stored = None /\ UNCHANGED <<stored, accounts, made>>
    /\ \E preset \in Presets, flags \in [{"subscription", "key"} -> Login \cup KeyId \cup {None}] :
        LET of(kind) == {b \in accounts : b.kind = kind}
            needs == {b.kind : b \in {b \in {preset.base} \cup {preset.routes[i].dest : i \in DOMAIN preset.routes} :
                                      b.id = "slot"}}
            fill(b) == IF b.id # "slot" THEN b
                       ELSE IF flags[b.kind] # None THEN Backend(b.kind, flags[b.kind])
                       ELSE CHOOSE c \in of(b.kind) : TRUE
        IN /\ \A kind \in needs : IF flags[kind] # None THEN Backend(kind, flags[kind]) \in accounts
                                  ELSE Cardinality(of(kind)) = 1
           /\ \A kind \in {"subscription", "key"} \ needs : flags[kind] = None
           /\ init' = [pc |-> "save", saw |-> accounts,
                       profile |-> [preset EXCEPT !.base = fill(@),
                                                  !.routes = [i \in DOMAIN @ |-> Route(@[i].match, fill(@[i].dest))]]]
\* The profile is saved, whatever was saved since.
InitSaves ==
    /\ init.pc = "save" /\ stored' = init.profile /\ made' = init /\ init' = NoInit
    /\ UNCHANGED <<accounts, page, saved, rejected, edits>>

Next ==
    \/ OpenStored \/ OpenNew \/ Listed \/ PickPreset \/ PickDefault \/ TypeKey \/ AddRow \/ RemoveRow
    \/ UpdateRoute \/ SetDirect \/ SetCwd \/ SetSession \/ ToggleLayer \/ Submit \/ SaveProfile \/ Leave
    \/ (\E b \in Accounts : RemoveAccount(b)) \/ DeleteProfile \/ InitLooks \/ InitSaves

Spec == Init /\ [][Next]_vars
-----------------------------------------------------------------------------
Named(p) == {b \in {p.base} \cup {p.routes[i].dest : i \in DOMAIN p.routes} :
             b # Backend("subscription", "") /\ b.kind # "manual"}

(* "stale refs can't sneak through" (ProfileForm.tsx:513) and duplicates are "flagged never-fires to
   mirror first-row-wins" (routeSummary.ts:105): a saved profile names accounts of the page's lists
   only, and the proxy picks for every model the backend the page showed for it.  A stored profile
   that is opened and saved untouched keeps its meaning, an empty list of tools excepted.  What the
   form lets through the server refuses for its directory alone, and `init` fills every slot with an
   account it saw.                                                                               *)
FormSavesWhatItShows ==
    /\ saved # None =>
        LET p == saved.profile
            from == saved.page.from
        IN /\ Named(p) \subseteq saved.page.listed
           /\ Selected(p) = Mapping(saved.page.form.routes)
           /\ from # None /\ saved.page.strokes = 0 =>
                /\ [p EXCEPT !.args = FlattenSeq(@)] =
                   [from EXCEPT !.args = FlattenSeq(@), !.session.tools = IF @ = None THEN None ELSE OrNone(@),
                                !.session.layers = IF @ = Layer THEN {} ELSE @,
                                !.routes = [i \in DOMAIN @ |-> Route(Trim(@[i].match), @[i].dest)]]
    /\ rejected # None => rejected.cwd = "relative"
    /\ made # None => Named(made.profile) \subseteq made.saw
=============================================================================

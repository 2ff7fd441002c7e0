--------------------------- MODULE RotationPoller ---------------------------
(***************************************************************************)
(* The proxy's background rotation of the active account: the policy of    *)
(* packages/core/src/rotation.ts and the poller that applies it,           *)
(* packages/adapters/src/proxy/rotationPoller.ts, with the two other       *)
(* writers of activeAccountId and lastSwitchAt in proxy/server.ts.         *)
(*                                                                         *)
(* One unit of time is short against the poll interval and long against a  *)
(* tick, so time stands still while a tick runs; everything else may       *)
(* happen between two of its awaits.  Resets are given as time from now.   *)
(***************************************************************************)
EXTENDS Naturals, FiniteSets

CONSTANTS
    Account, None,
    Rank,          \* Rank[a]: position of a's id in localeCompare order
    Poll,          \* pollMs
    Exhausted,     \* ROTATION_EXHAUSTED_UTIL
    Gap,           \* ROTATION_HYSTERESIS_PTS
    Edge,          \* ROTATION_MIN_RESET_EDGE_MS
    Unknown,       \* ROTATION_UNKNOWN_UTIL
    Never,         \* Infinity: no reset is known
    Readings,      \* what a check of an account may report
    Settings,      \* "off", or a strategy: values of the settings file
    MaxChanges     \* bound of the model: changes made from outside

Strategies == {"reset-soonest", "least-used"}

\* mark: "ok", "soft" (cooling or stale), "dead" (credential rejected);
\* utils: the utilizations reported (null counts as 0); resets: the resets.
Reading(util, reset, mark) == [utils |-> util, resets |-> reset, mark |-> mark]

ASSUME RotationAssumption ==
    /\ IsFiniteSet(Account) /\ None \notin Account
    /\ Rank \in [Account -> Nat]
    /\ \A a, b \in Account : Rank[a] = Rank[b] => a = b
    /\ {Poll, Edge} \subseteq Nat \ {0}
    /\ {Exhausted, Gap, Unknown, Never, MaxChanges} \subseteq Nat
    /\ Readings \subseteq [utils : SUBSET Nat, resets : SUBSET Nat, mark : {"ok", "soft", "dead"}]
    /\ \A m \in Readings : IsFiniteSet(m.utils) /\ \A t \in m.resets : t + Edge <= Never
    /\ Settings \subseteq Strategies \cup {"off"}

VARIABLES
    stored,   \* accounts in the vault
    active,   \* the server's activeAccountId
    setting,  \* rotationEnabled and rotationStrategy, as the next tick reads them
    health,   \* what a check of each account would report now
    held,     \* time since lastSwitchAt, up to Poll (null: Poll)
    timer,    \* time since the interval last fired, up to Poll
    tick,     \* the tick in progress: control point, strategy, inputs, verdict
    changes,  \* changes made from outside so far
    left      \* history: accounts rotated away from since the last change

vars == <<stored, active, setting, health, held, timer, tick, changes, left>>
-----------------------------------------------------------------------------
(* rotation.ts: ranking *)

Highest(S) == CHOOSE n \in S : \A m \in S : m <= n
Lowest(S) == CHOOSE n \in S : \A m \in S : n <= m

EffectiveUtil(m) == IF m.utils = {} THEN Unknown ELSE Highest(m.utils)

\* A reset that has passed counts as now.
SoonestReset(m) == IF m.resets = {} THEN Never ELSE Lowest(m.resets)

Excluded == 2
Tier(m) ==
    IF m.mark = "dead" \/ EffectiveUtil(m) >= Exhausted THEN Excluded
    ELSE IF m.mark = "soft" THEN 1 ELSE 0

\* Lexicographic order of a pair of numbers, the id breaking ties.
Before(x, y, a, b) ==
    \/ x[1] < y[1]
    \/ x[1] = y[1] /\ x[2] < y[2]
    \/ x = y /\ Rank[a] < Rank[b]

Key(m, strategy) ==
    IF strategy = "least-used" THEN <<EffectiveUtil(m), SoonestReset(m)>>
    ELSE <<SoonestReset(m), EffectiveUtil(m)>>

\* rankAccountsForRotation puts a before b.
Better(inputs, strategy, a, b) ==
    \/ Tier(inputs[a]) < Tier(inputs[b])
    \/ /\ Tier(inputs[a]) = Tier(inputs[b])
       /\ Before(Key(inputs[a], strategy), Key(inputs[b], strategy), a, b)

\* Mutated form of Selectable: excluded accounts are not filtered out.
SelectableAny(inputs) == DOMAIN inputs

Selectable(inputs) == {a \in DOMAIN inputs : Tier(inputs[a]) # Excluded}

Winner(inputs, strategy) ==
    CHOOSE a \in Selectable(inputs) :
        \A b \in Selectable(inputs) \ {a} : Better(inputs, strategy, a, b)

(* rotation.ts: shouldRotate *)

\* Mutated form of BeatsBy: an account that is gone is kept.
BeatsByIgnoringGone(inputs, w, c) ==
    IF c \notin DOMAIN inputs THEN "none"
    ELSE IF Tier(inputs[w]) < Tier(inputs[c]) THEN "tier"
    ELSE IF EffectiveUtil(inputs[w]) + Gap < EffectiveUtil(inputs[c]) THEN "gap"
    ELSE IF SoonestReset(inputs[w]) + Edge <= SoonestReset(inputs[c]) THEN "reset"
    ELSE "none"

\* Why the winner w should replace the current account c.
BeatsBy(inputs, w, c) ==
    IF c \notin DOMAIN inputs THEN "gone"
    ELSE IF Tier(inputs[w]) < Tier(inputs[c]) THEN "tier"
    ELSE IF EffectiveUtil(inputs[w]) + Gap < EffectiveUtil(inputs[c]) THEN "gap"
    ELSE IF SoonestReset(inputs[w]) + Edge <= SoonestReset(inputs[c]) THEN "reset"
    ELSE "none"

Stay == [to |-> None, reason |-> "none"]

\* Mutated form of ShouldRotate: the current account is compared with the best
\* of the others.
ShouldRotateToAnother(current, inputs, strategy, heldFor) ==
    LET others == [a \in DOMAIN inputs \ {current} |-> inputs[a]]
    IN IF Selectable(others) = {} THEN Stay
       ELSE LET w == Winner(others, strategy)
                why == BeatsBy(inputs, w, current)
            IN IF why = "none" \/ (why = "reset" /\ heldFor < Poll) THEN Stay
               ELSE [to |-> w, reason |-> why]

\* A sooner reset only counts once the current account was held for a cycle.
ShouldRotate(current, inputs, strategy, heldFor) ==
    IF Selectable(inputs) = {} THEN Stay
    ELSE LET w == Winner(inputs, strategy)
             why == BeatsBy(inputs, w, current)
         IN IF w = current \/ why = "none" \/ (why = "reset" /\ heldFor < Poll) THEN Stay
            ELSE [to |-> w, reason |-> why]
-----------------------------------------------------------------------------
Asleep == [pc |-> "idle", todo |-> {}, inputs |-> <<>>, verdict |-> Stay, strategy |-> "off",
           calm |-> TRUE]

\* As time passes the resets reported before come nearer, down to 0.
Nearer(m) == [m EXCEPT !.resets = {IF t = 0 THEN 0 ELSE t - 1 : t \in @}]

TypeOK ==
    /\ stored \subseteq Account
    /\ active \in Account \cup {None}
    /\ setting \in Settings
    /\ \A a \in Account : Tier(health[a]) \in 0..2
    /\ held \in 0..Poll /\ timer \in 0..Poll
    /\ tick.pc \in {"idle", "check", "decide", "switch"}
    /\ tick.todo \subseteq Account /\ tick.todo \cap DOMAIN tick.inputs = {}
    /\ tick.verdict.to \in Account \cup {None}
    /\ changes \in 0..MaxChanges
    /\ left \subseteq Account

Init ==
    /\ stored = Account
    /\ active \in Account \cup {None}
    /\ setting \in Settings
    /\ health \in [Account -> Readings]
    /\ held = Poll
    /\ timer = Poll
    /\ tick = Asleep
    /\ changes = 0
    /\ left = {}

\* tickOnce: the settings and the vault are read.
Fire ==
    /\ tick.pc = "idle" /\ timer = Poll
    /\ timer' = 0
    /\ tick' = IF setting = "off" \/ Cardinality(stored) <= 1 THEN Asleep
               ELSE [Asleep EXCEPT !.pc = "check", !.todo = stored, !.strategy = setting]
    /\ UNCHANGED <<stored, active, setting, health, held, changes, left>>

\* checkOne: an account without a credential is dead.
Check(a) ==
    /\ tick.pc = "check" /\ a \in tick.todo
    /\ \A b \in tick.todo : Rank[a] <= Rank[b]
    /\ LET m == IF a \in stored THEN health[a] ELSE Reading({}, {}, "dead")
           inputs == [b \in DOMAIN tick.inputs \cup {a} |->
                         IF b = a THEN m ELSE tick.inputs[b]]
       IN tick' = [tick EXCEPT !.todo = @ \ {a}, !.inputs = inputs,
                               !.pc = IF tick.todo = {a} THEN "decide" ELSE "check"]
    /\ UNCHANGED <<stored, active, setting, health, held, timer, changes, left>>

EndTick == tick' = Asleep

\* The ranking and the verdict; setActive() is called and looks the account up.
Decide ==
    /\ tick.pc = "decide"
    /\ LET verdict == ShouldRotate(active, tick.inputs, tick.strategy, held)
       IN IF verdict.to = None THEN EndTick
          ELSE tick' = [tick EXCEPT !.pc = "switch", !.verdict = verdict]
    /\ UNCHANGED <<stored, active, setting, health, held, timer, changes, left>>

\* setActive() answers; an account deleted meanwhile fails the switch.
Switch ==
    /\ tick.pc = "switch"
    /\ IF tick.verdict.to \in stored
       THEN /\ active' = tick.verdict.to
            /\ held' = 0
            /\ left' = IF tick.calm THEN left \cup ({active} \ {None}) ELSE left
       ELSE UNCHANGED <<active, held, left>>
    /\ EndTick
    /\ UNCHANGED <<stored, setting, health, timer, changes>>
-----------------------------------------------------------------------------
(* What happens outside *)

\* Every change starts a new history.  A tick that is running may have read
\* some accounts before it and some after it: its switch is no part of that
\* history (calm is history too).
Change ==
    /\ changes < MaxChanges
    /\ changes' = changes + 1
    /\ left' = {}
    /\ tick' = [tick EXCEPT !.calm = (tick.pc = "idle")]

\* `proxy use`: setActive and noteManualSwitch.
ManualUse(a) ==
    /\ a \in stored
    /\ Change
    /\ active' = a
    /\ held' = 0
    /\ UNCHANGED <<stored, setting, health, timer>>

\* Upstream reports something else: load, a rate limit, a rejected credential.
Report(a) ==
    /\ Change
    /\ \E m \in Readings \ {health[a]} : health' = [health EXCEPT ![a] = m]
    /\ UNCHANGED <<stored, active, setting, held, timer>>

MoveVault(a) ==
    /\ Change
    /\ stored' = IF a \in stored THEN stored \ {a} ELSE stored \cup {a}
    /\ UNCHANGED <<active, setting, health, held, timer>>

Configure ==
    /\ Change
    /\ \E s \in Settings \ {setting} : setting' = s
    /\ UNCHANGED <<stored, active, health, held, timer>>

\* A reset that passes is a change as well.
Clock ==
    /\ tick.pc = "idle" /\ timer < Poll
    /\ timer' = timer + 1
    /\ held' = IF held = Poll THEN Poll ELSE held + 1
    /\ health' = [a \in Account |-> Nearer(health[a])]
    /\ left' = IF \E a \in Account : 1 \in health[a].resets THEN {} ELSE left
    /\ UNCHANGED <<stored, active, setting, tick, changes>>

Poller == Fire \/ (\E a \in Account : Check(a)) \/ Decide \/ Switch

Next ==
    \/ Poller
    \/ Clock
    \/ \E a \in Account : ManualUse(a) \/ Report(a) \/ MoveVault(a)
    \/ Configure

Spec == Init /\ [][Next]_vars

\* The interval fires and every check settles.
FairSpec == Spec /\ WF_vars(Poller) /\ WF_vars(Clock)
-----------------------------------------------------------------------------
(* Properties *)

Rotates == tick.pc = "switch" /\ tick'.pc = "idle" /\ active' # active

\* Rotation does not flap: until something changes or a reset passes, the
\* poller never goes back to an account it has left ("Hysteresis keeps two healthy
\* accounts from trading active every tick").
NeverReturns == [][Rotates /\ tick.calm => active' \notin left]_vars

\* An account that was exhausted or refused when this tick checked it is never
\* chosen, even if all of them were.
NeverRotatesToExcluded == [][Rotates => Tier(tick.inputs[active']) # Excluded]_vars

\* Once nothing changes, rotation ends on an account of the best tier there
\* is, and none whose utilization beats it by more than the gap.
WellPlaced ==
    LET inputs == [a \in stored |-> health[a]]
    IN setting # "off" /\ Cardinality(stored) > 1 /\ Selectable(inputs) # {} =>
            /\ active \in stored
            /\ BeatsBy(inputs, Winner(inputs, setting), active) \notin {"tier", "gap"}
EventuallyWellPlaced == <>[]WellPlaced
=============================================================================

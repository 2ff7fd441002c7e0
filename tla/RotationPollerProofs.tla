------------------------ MODULE RotationPollerProofs ------------------------
(* The rotation of the active account, for any set of accounts, any readings of them and any number
   of changes: rankAccountsForRotation and shouldRotate of packages/core/src/rotation.ts, and the
   poller of packages/adapters/src/proxy/rotationPoller.ts that applies them.                     *)
EXTENDS RotationPoller, OrderLemmas

Figures ==
    {m \in [utils : SUBSET Nat, resets : SUBSET Nat, mark : {"ok", "soft", "dead"}] :
        IsFiniteSet(m.utils) /\ \A t \in m.resets : t + Edge <= Never}
Inputs == UNION {[D -> Figures] : D \in SUBSET Account}
-----------------------------------------------------------------------------
(* The ranking *)

\* What is compared of an account are two numbers; a reset that is known lies below Never.
LEMMA KeysAreNumbers ==
    ASSUME NEW m \in Figures
    PROVE  /\ EffectiveUtil(m) \in Nat /\ SoonestReset(m) \in Nat /\ Tier(m) \in 0..2
           /\ m.resets # {} => /\ SoonestReset(m) \in m.resets
                               /\ \A t \in m.resets : SoonestReset(m) <= t
                               /\ SoonestReset(m) < Never
<1> USE RotationAssumption
<1>1. m.utils \in SUBSET Nat /\ m.resets \in SUBSET Nat /\ IsFiniteSet(m.utils)
    BY DEF Figures
<1>2. EffectiveUtil(m) \in Nat
    <2>1. CASE m.utils = {}
        BY <2>1 DEF EffectiveUtil
    <2>2. CASE m.utils # {}
        <3>1. \E n \in m.utils : \A k \in m.utils : k <= n
            BY <1>1, <2>2, LargestOfFinite
        <3>2. Highest(m.utils) \in m.utils
            BY <3>1 DEF Highest
        <3>3. QED
            BY <1>1, <2>2, <3>2 DEF EffectiveUtil
    <2>3. QED
        BY <2>1, <2>2
<1>3. ASSUME m.resets # {}
      PROVE  /\ SoonestReset(m) \in m.resets
             /\ \A t \in m.resets : SoonestReset(m) <= t
    <2>1. \E n \in m.resets : \A k \in m.resets : n <= k
        BY <1>1, <1>3, LeastNatural
    <2>2. Lowest(m.resets) \in m.resets /\ \A k \in m.resets : Lowest(m.resets) <= k
        BY <2>1 DEF Lowest
    <2>3. QED
        BY <1>3, <2>2 DEF SoonestReset
<1>4. \A t \in m.resets : t < Never
    BY <1>1 DEF Figures
<1>5. SoonestReset(m) \in Nat
    BY <1>1, <1>3 DEF SoonestReset
<1>6. Tier(m) \in 0..2
    BY DEF Tier, Excluded
<1>7. QED
    BY <1>2, <1>3, <1>4, <1>5, <1>6

\* rankAccountsForRotation sorts: its comparison is a strict total order.
LEMMA BetterOrders ==
    ASSUME NEW inputs \in Inputs, NEW s
    PROVE  \A a, b, c \in DOMAIN inputs :
              /\ ~Better(inputs, s, a, a)
              /\ Better(inputs, s, a, b) /\ Better(inputs, s, b, c) => Better(inputs, s, a, c)
              /\ a # b => Better(inputs, s, a, b) \/ Better(inputs, s, b, a)
<1>1. DOMAIN inputs \subseteq Account /\ \A a \in DOMAIN inputs : inputs[a] \in Figures
    BY DEF Inputs
<1>2. \A a \in DOMAIN inputs :
          /\ Rank[a] \in Nat /\ Tier(inputs[a]) \in Nat
          /\ EffectiveUtil(inputs[a]) \in Nat /\ SoonestReset(inputs[a]) \in Nat
    BY <1>1, KeysAreNumbers, RotationAssumption
<1>3. \A a, b \in DOMAIN inputs : Rank[a] = Rank[b] => a = b
    BY <1>1, RotationAssumption
<1>4. CASE s = "least-used"
    BY <1>2, <1>3, <1>4 DEF Better, Before, Key
<1>5. CASE s # "least-used"
    BY <1>2, <1>3, <1>5 DEF Better, Before, Key
<1>6. QED
    BY <1>4, <1>5

\* There is a best account as soon as one may be chosen, and only one.
LEMMA WinnerIsBest ==
    ASSUME NEW inputs \in Inputs, NEW s, Selectable(inputs) # {}
    PROVE  /\ Winner(inputs, s) \in Selectable(inputs)
           /\ \A b \in Selectable(inputs) \ {Winner(inputs, s)} : Better(inputs, s, Winner(inputs, s), b)
           /\ \A w \in Selectable(inputs) :
                 (\A b \in Selectable(inputs) \ {w} : Better(inputs, s, w, b)) => w = Winner(inputs, s)
<1> DEFINE S == Selectable(inputs)
           R == {ab \in S \X S : Better(inputs, s, ab[1], ab[2])}
<1>1. S \subseteq DOMAIN inputs /\ DOMAIN inputs \subseteq Account
    BY DEF Selectable, Inputs
<1>2. IsFiniteSet(S)
    BY <1>1, FS_Subset, RotationAssumption
<1>3. \A a, b \in S : <<a, b>> \in R <=> Better(inputs, s, a, b)
    OBVIOUS
<1> HIDE DEF R
<1>4. PICK w \in S : \A b \in S : <<b, w>> \notin R
    <2>1. \A a \in S : <<a, a>> \notin R
        BY <1>1, <1>3, BetterOrders
    <2>2. \A a, b, c \in S : <<a, b>> \in R /\ <<b, c>> \in R => <<a, c>> \in R
        BY <1>1, <1>3, BetterOrders
    <2>3. QED
        BY <1>2, <2>1, <2>2, FiniteHasMinimal
<1>5. \A b \in S \ {w} : Better(inputs, s, w, b)
    BY <1>1, <1>3, <1>4, BetterOrders
<1>6. /\ Winner(inputs, s) \in S
      /\ \A b \in S \ {Winner(inputs, s)} : Better(inputs, s, Winner(inputs, s), b)
    BY <1>5 DEF Winner
<1>7. ASSUME NEW v \in S, \A b \in S \ {v} : Better(inputs, s, v, b), v # Winner(inputs, s)
      PROVE  FALSE
    <2>1. Better(inputs, s, v, Winner(inputs, s)) /\ Better(inputs, s, Winner(inputs, s), v)
        BY <1>6, <1>7
    <2>2. QED
        BY <1>1, <1>6, <2>1, BetterOrders
<1>8. QED
    BY <1>6, <1>7

-----------------------------------------------------------------------------
(* Time that passes *)

Later(t) == IF t = 0 \/ t = Never THEN t ELSE t - 1

\* A unit of time changes nothing in an account's figures but the resets that are known.
LEMMA TimeMovesResets ==
    ASSUME NEW m \in Figures
    PROVE  /\ Nearer(m) \in Figures
           /\ Tier(Nearer(m)) = Tier(m) /\ EffectiveUtil(Nearer(m)) = EffectiveUtil(m)
           /\ SoonestReset(Nearer(m)) = Later(SoonestReset(m))
<1> DEFINE T == {IF t = 0 THEN 0 ELSE t - 1 : t \in m.resets}
<1>1. /\ m \in [utils : SUBSET Nat, resets : SUBSET Nat, mark : {"ok", "soft", "dead"}]
      /\ IsFiniteSet(m.utils) /\ \A t \in m.resets : t + Edge <= Never
    BY DEF Figures
<1>2. Edge \in Nat /\ Never \in Nat /\ Edge > 0
    BY RotationAssumption
<1>3. T \in SUBSET Nat /\ \A t \in T : t + Edge <= Never
    BY <1>1, <1>2
<1>4. /\ Nearer(m).resets = T /\ Nearer(m).utils = m.utils /\ Nearer(m).mark = m.mark
      /\ Nearer(m) \in [utils : SUBSET Nat, resets : SUBSET Nat, mark : {"ok", "soft", "dead"}]
    <2>1. Nearer(m) = [m EXCEPT !.resets = T]
        BY DEF Nearer
    <2> HIDE DEF T
    <2>2. QED
        BY <1>1, <1>3, <2>1
<1>5. Nearer(m) \in Figures
    BY <1>1, <1>3, <1>4 DEF Figures
<1>6. EffectiveUtil(Nearer(m)) = EffectiveUtil(m)
    BY <1>4 DEF EffectiveUtil
<1>7. Tier(Nearer(m)) = Tier(m)
    BY <1>4, <1>6 DEF Tier
<1>8. SoonestReset(Nearer(m)) = Later(SoonestReset(m))
    <2>1. CASE m.resets = {}
        BY <1>4, <2>1 DEF SoonestReset, Later
    <2>2. CASE m.resets # {}
        <3>1. /\ SoonestReset(m) \in m.resets /\ SoonestReset(m) < Never
              /\ \A t \in m.resets : SoonestReset(m) <= t
            BY <2>2, KeysAreNumbers
        <3>2. T # {}
            BY <2>2
        <3>3. /\ SoonestReset(Nearer(m)) \in T
              /\ \A t \in T : SoonestReset(Nearer(m)) <= t
            BY <1>4, <1>5, <3>2, KeysAreNumbers
        <3>4. Later(SoonestReset(m)) \in T /\ \A t \in T : Later(SoonestReset(m)) <= t
            BY <1>1, <1>2, <3>1 DEF Later
        <3> HIDE DEF T
        <3>5. SoonestReset(Nearer(m)) \in Nat /\ Later(SoonestReset(m)) \in Nat
            BY <1>3, <3>3, <3>4
        <3>6. QED
            BY <3>3, <3>4, <3>5
    <2>3. QED
        BY <2>1, <2>2
<1>9. QED
    BY <1>5, <1>6, <1>7, <1>8

\* As long as no reset passes the ranking stays what it is: time takes the same from every reset.
LEMMA TimeKeepsTheOrder ==
    ASSUME NEW inputs \in Inputs, \A a \in DOMAIN inputs : 1 \notin inputs[a].resets,
           NEW s, Selectable(inputs) # {},
           NEW later, later = [a \in DOMAIN inputs |-> Nearer(inputs[a])]
    PROVE  Selectable(later) = Selectable(inputs) /\ Winner(later, s) = Winner(inputs, s)
<1>1. DOMAIN inputs \in SUBSET Account /\ \A a \in DOMAIN inputs : inputs[a] \in Figures
    BY DEF Inputs
<1>2. \A a \in DOMAIN inputs : later[a] = Nearer(inputs[a])
    OBVIOUS
<1>3. later \in Inputs /\ DOMAIN later = DOMAIN inputs
    <2>1. \A a \in DOMAIN inputs : Nearer(inputs[a]) \in Figures
        BY <1>1, TimeMovesResets
    <2>2. later \in [DOMAIN inputs -> Figures]
        BY <2>1
    <2>3. QED
        BY <1>1, <2>2 DEF Inputs
<1>4. \A a \in DOMAIN inputs : /\ Tier(later[a]) = Tier(inputs[a])
                               /\ EffectiveUtil(later[a]) = EffectiveUtil(inputs[a])
                               /\ SoonestReset(later[a]) = Later(SoonestReset(inputs[a]))
    BY <1>1, <1>2, TimeMovesResets
<1>5. Selectable(later) = Selectable(inputs)
    BY <1>3, <1>4 DEF Selectable
<1>6. \A a \in DOMAIN inputs : LET t == SoonestReset(inputs[a])
                               IN t \in Nat /\ t <= Never /\ (t # 1 \/ t = Never)
    <2> SUFFICES ASSUME NEW a \in DOMAIN inputs, NEW t, t = SoonestReset(inputs[a])
                 PROVE  t \in Nat /\ t <= Never /\ (t # 1 \/ t = Never)
        OBVIOUS
    <2>1. inputs[a] \in Figures /\ 1 \notin inputs[a].resets
        BY <1>1
    <2>2. CASE inputs[a].resets = {}
        BY <2>2, RotationAssumption DEF SoonestReset
    <2>3. CASE inputs[a].resets # {}
        BY <2>1, <2>3, KeysAreNumbers, RotationAssumption
    <2>4. QED
        BY <2>2, <2>3
<1>7. \A a, b \in DOMAIN inputs : Better(inputs, s, a, b) => Better(later, s, a, b)
    <2> SUFFICES ASSUME NEW a \in DOMAIN inputs, NEW b \in DOMAIN inputs, Better(inputs, s, a, b)
                 PROVE  Better(later, s, a, b)
        OBVIOUS
    <2>1. /\ Later(SoonestReset(inputs[a])) < Later(SoonestReset(inputs[b]))
             <=> SoonestReset(inputs[a]) < SoonestReset(inputs[b])
          /\ SoonestReset(inputs[a]) = SoonestReset(inputs[b])
             => Later(SoonestReset(inputs[a])) = Later(SoonestReset(inputs[b]))
        BY <1>6, RotationAssumption DEF Later
    <2>2. CASE s = "least-used"
        BY <1>4, <2>1, <2>2 DEF Better, Before, Key
    <2>3. CASE s # "least-used"
        BY <1>4, <2>1, <2>3 DEF Better, Before, Key
    <2>4. QED
        BY <2>2, <2>3
<1>8. Winner(inputs, s) = Winner(later, s)
    <2>1. /\ Winner(inputs, s) \in Selectable(inputs)
          /\ \A b \in Selectable(inputs) \ {Winner(inputs, s)} :
                Better(inputs, s, Winner(inputs, s), b)
        BY WinnerIsBest
    <2>2. Selectable(inputs) \subseteq DOMAIN inputs
        BY DEF Selectable
    <2>3. \A b \in Selectable(later) \ {Winner(inputs, s)} : Better(later, s, Winner(inputs, s), b)
        BY <1>5, <1>7, <2>1, <2>2
    <2>4. QED
        BY <1>3, <1>5, <2>1, <2>3, WinnerIsBest
<1>9. QED
    BY <1>5, <1>8
-----------------------------------------------------------------------------
(* The poller *)

Reasons == {"none", "gone", "tier", "gap", "reset"}
Verdicts == [to : Account \cup {None}, reason : Reasons]
Ticks ==
    [pc : {"idle", "check", "decide", "switch"}, todo : SUBSET Account, inputs : Inputs,
     verdict : Verdicts, strategy : Settings \cup {"off"}, calm : BOOLEAN]

\* A verdict other than to stay names the best account, and that is another one.
LEMMA VerdictNamesTheWinner ==
    ASSUME NEW inputs \in Inputs, NEW s, NEW c, NEW h, NEW v, v = ShouldRotate(c, inputs, s, h)
    PROVE  /\ v \in Verdicts
           /\ v.to # None => /\ Selectable(inputs) # {} /\ v.to = Winner(inputs, s)
                             /\ v.to \in Selectable(inputs) /\ v.to # c
<1>1. Stay \in Verdicts /\ Stay.to = None
    BY DEF Stay, Verdicts, Reasons
<1>2. CASE Selectable(inputs) = {}
    BY <1>1, <1>2 DEF ShouldRotate
<1>3. CASE Selectable(inputs) # {}
    <2> DEFINE w == Winner(inputs, s)
               why == BeatsBy(inputs, w, c)
    <2>1. w \in Selectable(inputs) /\ w \in Account
        <3>1. Selectable(inputs) \subseteq Account
            BY DEF Selectable, Inputs
        <3>2. QED
            BY <1>3, <3>1, WinnerIsBest
    <2>2. why \in Reasons
        BY DEF BeatsBy, Reasons
    <2>3. v = IF w = c \/ why = "none" \/ (why = "reset" /\ h < Poll) THEN Stay
              ELSE [to |-> w, reason |-> why]
        BY <1>3 DEF ShouldRotate
    <2> HIDE DEF w, why
    <2>4. [to |-> w, reason |-> why] \in Verdicts
        BY <2>1, <2>2 DEF Verdicts
    <2>5. v = Stay \/ (v = [to |-> w, reason |-> why] /\ w # c)
        BY <2>3
    <2>6. v \in Verdicts /\ (v.to # None => v.to = w /\ w # c)
        BY <1>1, <2>4, <2>5
    <2>7. QED
        BY <1>3, <2>1, <2>6 DEF w
<1>4. QED
    BY <1>2, <1>3

World == [a \in stored |-> health[a]]

Typed ==
    /\ stored \subseteq Account /\ active \in Account \cup {None} /\ setting \in Settings
    /\ health \in [Account -> Figures] /\ held \in 0..Poll /\ timer \in 0..Poll
    /\ tick \in Ticks /\ changes \in 0..MaxChanges /\ left \subseteq Account

\* What a tick has chosen it may choose, going by what it has read itself.
Chosen ==
    /\ tick.todo \cap DOMAIN tick.inputs = {} /\ (tick.pc = "decide" => tick.todo = {})
    /\ tick.pc = "switch" => tick.verdict.to \in Selectable(tick.inputs)

\* What an undisturbed tick has read is what there is.
UpToDate ==
    tick.pc # "idle" /\ tick.calm =>
        /\ tick.strategy = setting /\ tick.todo \cup DOMAIN tick.inputs = stored
        /\ \A a \in DOMAIN tick.inputs : tick.inputs[a] = health[a]

\* Between two changes rotation moves once: after that the best account is active, and it stays the
\* best.
Settled ==
    /\ (tick.pc = "idle" => tick.calm) /\ (~tick.calm => left = {})
    /\ left # {} => /\ Selectable(World) # {} /\ active = Winner(World, setting)
                    /\ active \notin left
    /\ tick.pc = "switch" /\ tick.calm =>
          /\ left = {} /\ Selectable(World) # {}
          /\ tick.verdict.to = Winner(World, setting) /\ tick.verdict.to # active

IInv == Typed /\ Chosen /\ UpToDate /\ Settled
-----------------------------------------------------------------------------
LEMMA AsleepIsATick == Asleep \in Ticks /\ Asleep.pc = "idle" /\ DOMAIN Asleep.inputs = {}
<1>1. <<>> \in Inputs /\ DOMAIN <<>> = {}
    BY DEF Inputs
<1>2. Stay \in Verdicts
    BY DEF Stay, Verdicts, Reasons
<1>3. QED
    BY <1>1, <1>2 DEF Asleep, Ticks

LEMMA WorldIsInputs == ASSUME Typed PROVE World \in Inputs
    BY DEF Typed, World, Inputs

LEMMA InitIInv == Init => IInv
<1> SUFFICES ASSUME Init PROVE IInv
    OBVIOUS
<1>1. health \in [Account -> Figures]
    BY RotationAssumption DEF Init, Figures
<1>2. Poll \in Nat /\ MaxChanges \in Nat
    BY RotationAssumption
<1>3. Typed
    BY <1>1, <1>2, AsleepIsATick DEF Init, Typed
<1>4. Chosen /\ UpToDate /\ Settled
    BY AsleepIsATick DEF Init, Asleep, Chosen, UpToDate, Settled
<1>5. QED
    BY <1>3, <1>4 DEF IInv

LEMMA FireKeeps == ASSUME IInv, Fire PROVE IInv'
<1> USE DEF IInv
<1>1. /\ tick.pc = "idle" /\ timer' = 0
      /\ \/ tick' = Asleep
         \/ tick' = [Asleep EXCEPT !.pc = "check", !.todo = stored, !.strategy = setting]
      /\ UNCHANGED <<stored, active, setting, health, held, changes, left>>
    BY DEF Fire
<1>2. /\ tick' \in Ticks /\ tick'.calm = Asleep.calm /\ tick'.inputs = Asleep.inputs
      /\ \/ tick'.pc = "idle"
         \/ tick'.pc = "check" /\ tick'.todo = stored /\ tick'.strategy = setting
    BY <1>1, AsleepIsATick DEF Ticks, Typed
<1>3. Asleep.calm
    BY DEF Asleep
<1>4. timer' \in 0..Poll
    BY <1>1, RotationAssumption
<1>5. Typed'
    BY <1>1, <1>2, <1>4 DEF Typed
<1>6. Chosen' /\ UpToDate'
    BY <1>1, <1>2, <1>3, AsleepIsATick DEF Chosen, UpToDate
<1>7. Settled'
    <2>1. World' = World
        BY <1>1 DEF World
    <2>2. QED
        BY <1>1, <1>2, <1>3, <2>1 DEF Settled
<1>8. QED
    BY <1>5, <1>6, <1>7

LEMMA CheckKeeps == ASSUME IInv, NEW a \in Account, Check(a) PROVE IInv'
<1> USE DEF IInv
<1> DEFINE m == IF a \in stored THEN health[a] ELSE Reading({}, {}, "dead")
           inputs == [b \in DOMAIN tick.inputs \cup {a} |-> IF b = a THEN m ELSE tick.inputs[b]]
<1>1. /\ tick.pc = "check" /\ a \in tick.todo
      /\ tick' = [tick EXCEPT !.todo = @ \ {a}, !.inputs = inputs,
                              !.pc = IF tick.todo = {a} THEN "decide" ELSE "check"]
      /\ UNCHANGED <<stored, active, setting, health, held, timer, changes, left>>
    BY DEF Check
<1>2. m \in Figures
    <2>1. Reading({}, {}, "dead") \in Figures
        BY FS_EmptySet DEF Reading, Figures
    <2>2. QED
        BY <2>1 DEF Typed
<1>3. inputs \in Inputs /\ DOMAIN inputs = DOMAIN tick.inputs \cup {a}
    <2>1. tick.inputs \in Inputs
        BY DEF Typed, Ticks
    <2>2. DOMAIN tick.inputs \cup {a} \in SUBSET Account
          /\ \A b \in DOMAIN tick.inputs : tick.inputs[b] \in Figures
        BY <2>1 DEF Inputs
    <2> HIDE DEF m
    <2>3. inputs \in [DOMAIN tick.inputs \cup {a} -> Figures]
        BY <1>2, <2>2
    <2>4. QED
        BY <2>2, <2>3 DEF Inputs
<1>4. inputs[a] = m /\ \A b \in DOMAIN tick.inputs : b # a => inputs[b] = tick.inputs[b]
    OBVIOUS
<1>5. a \in stored => m = health[a]
    OBVIOUS
<1> HIDE DEF inputs, m
<1>6. tick \in Ticks
    BY DEF Typed
<1>7. /\ tick' \in Ticks
      /\ tick'.todo = tick.todo \ {a} /\ tick'.inputs = inputs /\ tick'.calm = tick.calm
      /\ tick'.strategy = tick.strategy /\ tick'.pc = IF tick.todo = {a} THEN "decide" ELSE "check"
    BY <1>1, <1>3, <1>6 DEF Ticks
<1>8. Typed'
    BY <1>1, <1>7 DEF Typed
<1>9. Chosen'
    BY <1>1, <1>3, <1>7 DEF Chosen
<1>10. UpToDate'
    BY <1>1, <1>3, <1>4, <1>5, <1>7 DEF UpToDate
<1>11. Settled'
    <2>1. World' = World
        BY <1>1 DEF World
    <2>2. QED
        BY <1>1, <1>7, <2>1 DEF Settled
<1>12. QED
    BY <1>8, <1>9, <1>10, <1>11

LEMMA DecideKeeps == ASSUME IInv, Decide PROVE IInv'
<1> USE DEF IInv
<1>1. PICK v : v = ShouldRotate(active, tick.inputs, tick.strategy, held)
    OBVIOUS
<1>2. /\ tick.pc = "decide"
      /\ IF v.to = None THEN tick' = Asleep ELSE tick' = [tick EXCEPT !.pc = "switch", !.verdict = v]
      /\ UNCHANGED <<stored, active, setting, health, held, timer, changes, left>>
    BY <1>1 DEF Decide, EndTick
<1>3. tick \in Ticks /\ tick.inputs \in Inputs
    BY DEF Typed, Ticks
<1>4. /\ v \in Verdicts
      /\ v.to # None => /\ Selectable(tick.inputs) # {} /\ v.to = Winner(tick.inputs, tick.strategy)
                        /\ v.to \in Selectable(tick.inputs) /\ v.to # active
    BY <1>1, <1>3, VerdictNamesTheWinner
<1>5. World' = World
    BY <1>2 DEF World
<1>6. CASE v.to = None
    <2>1. tick' = Asleep
        BY <1>2, <1>6
    <2>2. Typed'
        BY <1>2, <2>1, AsleepIsATick DEF Typed
    <2>3. Chosen' /\ UpToDate'
        BY <2>1, AsleepIsATick DEF Chosen, UpToDate, Asleep
    <2>4. Settled'
        BY <1>2, <1>5, <2>1 DEF Settled, Asleep
    <2>5. QED
        BY <2>2, <2>3, <2>4
<1>7. CASE v.to # None
    <2>1. /\ tick' \in Ticks /\ tick'.pc = "switch" /\ tick'.verdict = v
          /\ tick'.todo = tick.todo /\ tick'.inputs = tick.inputs
          /\ tick'.strategy = tick.strategy /\ tick'.calm = tick.calm
        BY <1>2, <1>3, <1>4, <1>7 DEF Ticks
    <2>2. Typed'
        BY <1>2, <2>1 DEF Typed
    <2>3. Chosen'
        BY <1>2, <1>4, <1>7, <2>1 DEF Chosen
    <2>4. UpToDate'
        BY <1>2, <2>1 DEF UpToDate
    <2>5. Settled'
        <3>1. ASSUME tick.calm
              PROVE  tick.inputs = World /\ tick.strategy = setting
            <4>1. /\ DOMAIN tick.inputs = stored /\ tick.strategy = setting
                  /\ \A a \in stored : tick.inputs[a] = health[a]
                BY <1>2, <3>1 DEF UpToDate, Chosen
            <4>2. tick.inputs = [a \in DOMAIN tick.inputs |-> tick.inputs[a]]
                BY <1>3 DEF Inputs
            <4>3. QED
                BY <4>1, <4>2 DEF World
        <3>2. ASSUME tick.calm
              PROVE  /\ left = {} /\ Selectable(World) # {}
                     /\ v.to = Winner(World, setting) /\ v.to # active
            <4>1. /\ Selectable(World) # {} /\ v.to = Winner(World, setting) /\ v.to # active
                BY <1>4, <1>7, <3>1, <3>2
            <4>2. QED
                BY <4>1 DEF Settled
        <3>3. QED
            BY <1>2, <1>5, <2>1, <3>2 DEF Settled
    <2>6. QED
        BY <2>2, <2>3, <2>4, <2>5
<1>8. QED
    BY <1>6, <1>7

LEMMA SwitchKeeps == ASSUME IInv, Switch PROVE IInv'
<1> USE DEF IInv
<1>1. /\ tick.pc = "switch" /\ tick' = Asleep
      /\ UNCHANGED <<stored, setting, health, timer, changes>>
      /\ IF tick.verdict.to \in stored
         THEN /\ active' = tick.verdict.to /\ held' = 0
              /\ left' = IF tick.calm THEN left \cup ({active} \ {None}) ELSE left
         ELSE UNCHANGED <<active, held, left>>
    BY DEF Switch, EndTick
<1>2. World' = World
    BY <1>1 DEF World
<1>3. Typed'
    BY <1>1, AsleepIsATick, RotationAssumption DEF Typed
<1>4. Chosen' /\ UpToDate'
    BY <1>1, AsleepIsATick DEF Chosen, UpToDate, Asleep
<1>5. Settled'
    BY <1>1, <1>2 DEF Settled, Asleep
<1>6. QED
    BY <1>3, <1>4, <1>5

LEMMA ClockKeeps == ASSUME IInv, Clock PROVE IInv'
<1> USE DEF IInv
<1>1. /\ tick.pc = "idle" /\ timer < Poll /\ timer' = timer + 1
      /\ held' = IF held = Poll THEN Poll ELSE held + 1
      /\ health' = [a \in Account |-> Nearer(health[a])]
      /\ left' = IF \E a \in Account : 1 \in health[a].resets THEN {} ELSE left
      /\ UNCHANGED <<stored, active, setting, tick, changes>>
    BY DEF Clock
<1>2. Typed'
    <2>1. health' \in [Account -> Figures]
        BY <1>1, TimeMovesResets DEF Typed
    <2>2. held' \in 0..Poll /\ timer' \in 0..Poll /\ left' \subseteq Account
        BY <1>1, RotationAssumption DEF Typed
    <2>3. QED
        BY <1>1, <2>1, <2>2 DEF Typed
<1>3. Chosen' /\ UpToDate'
    BY <1>1 DEF Chosen, UpToDate
<1>4. ASSUME left' # {}
      PROVE  Selectable(World') # {} /\ active' = Winner(World', setting') /\ active' \notin left'
    <2>1. left' = left /\ \A a \in Account : 1 \notin health[a].resets
        BY <1>1, <1>4
    <2>2. Selectable(World) # {} /\ active = Winner(World, setting) /\ active \notin left
        BY <1>4, <2>1 DEF Settled
    <2>3. World \in Inputs /\ \A a \in DOMAIN World : 1 \notin World[a].resets
        BY <2>1, WorldIsInputs DEF World, Typed
    <2>4. World' = [a \in DOMAIN World |-> Nearer(World[a])]
        BY <1>1 DEF World, Typed
    <2>5. Selectable(World') = Selectable(World) /\ Winner(World', setting) = Winner(World, setting)
        BY <2>2, <2>3, <2>4, TimeKeepsTheOrder
    <2>6. QED
        BY <1>1, <2>1, <2>2, <2>5
<1>5. Settled'
    BY <1>1, <1>4 DEF Settled
<1>6. QED
    BY <1>2, <1>3, <1>5

\* A change starts a new history, and takes a tick that is running out of it.
LEMMA ChangeStartsAnew ==
    ASSUME IInv, Change
    PROVE  /\ changes' \in 0..MaxChanges /\ left' = {} /\ tick' \in Ticks /\ Chosen' /\ UpToDate'
           /\ Settled'
<1> USE DEF IInv
<1>1. /\ changes < MaxChanges /\ changes' = changes + 1 /\ left' = {}
      /\ tick' = [tick EXCEPT !.calm = (tick.pc = "idle")] /\ tick \in Ticks
    BY DEF Change, Typed
<1>2. /\ tick' \in Ticks /\ tick'.pc = tick.pc /\ tick'.todo = tick.todo
      /\ tick'.inputs = tick.inputs /\ tick'.verdict = tick.verdict
      /\ tick'.calm = (tick.pc = "idle")
    BY <1>1 DEF Ticks
<1>3. changes' \in 0..MaxChanges
    BY <1>1, RotationAssumption DEF Typed
<1>4. Chosen' /\ UpToDate' /\ Settled'
    BY <1>1, <1>2 DEF Chosen, UpToDate, Settled
<1>5. QED
    BY <1>1, <1>2, <1>3, <1>4

LEMMA StepIInv == IInv /\ [Next]_vars => IInv'
<1> SUFFICES ASSUME IInv, [Next]_vars PROVE IInv'
    OBVIOUS
<1>1. CASE Fire
    BY <1>1, FireKeeps
<1>2. CASE \E a \in Account : Check(a)
    BY <1>2, CheckKeeps
<1>3. CASE Decide
    BY <1>3, DecideKeeps
<1>4. CASE Switch
    BY <1>4, SwitchKeeps
<1>5. CASE Clock
    BY <1>5, ClockKeeps
<1>6. ASSUME NEW a \in Account, ManualUse(a) PROVE IInv'
    <2>1. Change /\ a \in stored /\ active' = a /\ held' = 0 /\ UNCHANGED <<stored, setting, health, timer>>
        BY <1>6 DEF ManualUse
    <2>2. QED
        BY <2>1, ChangeStartsAnew, RotationAssumption DEF IInv, Typed
<1>7. ASSUME NEW a \in Account, Report(a) PROVE IInv'
    <2>1. PICK m \in Readings : Change /\ health' = [health EXCEPT ![a] = m]
                                /\ UNCHANGED <<stored, active, setting, held, timer>>
        BY <1>7 DEF Report
    <2>2. m \in Figures
        BY RotationAssumption DEF Figures
    <2>3. QED
        BY <2>1, <2>2, ChangeStartsAnew DEF IInv, Typed
<1>8. ASSUME NEW a \in Account, MoveVault(a) PROVE IInv'
    BY <1>8, ChangeStartsAnew DEF MoveVault, IInv, Typed
<1>9. CASE Configure
    BY <1>9, ChangeStartsAnew DEF Configure, IInv, Typed
<1>10. CASE UNCHANGED vars
    <2>1. World' = World
        BY <1>10 DEF vars, World
    <2>2. QED
        BY <1>10, <2>1 DEF IInv, Typed, Chosen, UpToDate, Settled, vars
<1>11. QED
    BY <1>1, <1>2, <1>3, <1>4, <1>5, <1>6, <1>7, <1>8, <1>9, <1>10 DEF Next, Poller
-----------------------------------------------------------------------------
(* Theorems *)

(* The poller keeps its state within its types and control points.                                *)
THEOREM TypeCorrect == Spec => []TypeOK
<1>1. IInv => TypeOK
    BY KeysAreNumbers DEF IInv, Typed, Chosen, Ticks, Verdicts, TypeOK
<1>2. QED
    BY <1>1, InitIInv, StepIInv, PTL DEF Spec

(* An account that was exhausted, or whose credential was refused, when the tick checked it is never
   switched to, whatever happened between the check and the switch (rankAccountsForRotation drops
   tier 2, rotation.ts).                                                                          *)
THEOREM ExcludedIsLeftAlone == Spec => NeverRotatesToExcluded
<1>1. IInv /\ [Next]_vars => [Rotates => Tier(tick.inputs[active']) # Excluded]_vars
    <2> SUFFICES ASSUME IInv, Next, Rotates PROVE Tier(tick.inputs[active']) # Excluded
        OBVIOUS
    <2>1. tick \in Ticks
        BY DEF IInv, Typed
    <2>2. CASE Switch
        BY <2>2 DEF Switch, IInv, Chosen, Selectable, Rotates
    <2>3. ASSUME Change PROVE FALSE
        BY <2>1, <2>3 DEF Change, Rotates, Ticks
    <2>4. ~Fire /\ ~Decide /\ ~Clock /\ \A a \in Account : ~Check(a)
        BY DEF Fire, Decide, Clock, Check, Rotates
    <2>5. QED
        BY <2>2, <2>3, <2>4 DEF Next, Poller, ManualUse, Report, MoveVault, Configure
<1>2. QED
    BY <1>1, InitIInv, StepIInv, PTL DEF Spec, NeverRotatesToExcluded

\* Between two changes the poller leaves an account at most once.
MovesOnce == [][Rotates /\ tick.calm => left = {}]_vars

(* However many ticks pass, rotation moves an account once at most until something changes: the
   account it has moved to is the best one, and remains it while no reset passes.                 *)
THEOREM RotatesOnce == Spec => MovesOnce
<1>1. IInv /\ [Next]_vars => [Rotates /\ tick.calm => left = {}]_vars
    BY DEF IInv, Settled, Rotates
<1>2. QED
    BY <1>1, InitIInv, StepIInv, PTL DEF Spec, MovesOnce

(* Rotation does not flap ("Hysteresis keeps two healthy accounts from trading active every tick",
   rotation.ts): the poller never goes back to an account it has left since the last change.      *)
THEOREM DoesNotFlap == Spec => NeverReturns
<1>1. [Rotates /\ tick.calm => left = {}]_vars => [Rotates /\ tick.calm => active' \notin left]_vars
    OBVIOUS
<1>2. QED
    BY <1>1, RotatesOnce, PTL DEF MovesOnce, NeverReturns
=============================================================================

----------------------------- MODULE WebCommand -----------------------------
(* `swisscode web` (apps/cli/src/web.ts): a proxy in this process, a child that serves the UI, a
   self-update that restarts the child onto new files (apps/cli/src/update.ts), and the signals
   that stop all of it.  The code runs to its next await; between two awaits a child may exit,
   a signal arrive, a timer fire.                                                              *)
EXTENDS Naturals

CONSTANTS
    Mode,     \* updateMode of the settings: "off", "notify-only" or "auto"
    Kind,     \* what detectInstallKind says of this install
    MaxChild  \* bound on the UI children; one update pass spawns at most two

Child == 1..MaxChild

VARIABLES
    proxy,       \* "none" (reused, or --no-proxy), "open" or "closed"
    alive,       \* the UI children that run
    told,        \* the signal each child was sent: "no", "term" or "kill"
    generation,  \* of the child whose exit ends the command
    closing,     \* the exits whose closeOwned is under way
    done,        \* the deferred that unblocks the foreground wait
    update,      \* the step of the update pass
    signalled, killTimer

vars == <<proxy, alive, told, generation, closing, done, update, signalled, killTimer>>

\* prev of restartUI: generation is one ahead of the child that is being replaced.
Replaced == generation - 1
Restarting == {"wait", "kill"}

TypeOK ==
    /\ proxy \in {"none", "open", "closed"} /\ alive \in SUBSET Child
    /\ told \in [Child -> {"no", "term", "kill"}] /\ generation \in 0..(MaxChild + 1)
    /\ closing \in 0..2 /\ {done, signalled} \subseteq BOOLEAN
    /\ update \in {"start", "check", "install", "resolve", "over", "teardown"} \cup Restarting
    /\ killTimer \in {"off", "set", "fired"}

\* The UI has been spawned and the update pass set off; a probe or an abort came before.
Init ==
    /\ proxy \in {"none", "open"} /\ alive = {1} /\ generation = 1
    /\ told = [c \in Child |-> "no"] /\ closing = 0 /\ done = FALSE
    /\ update = "start" /\ signalled = FALSE /\ killTimer = "off"

Rest == <<proxy, alive, told, generation, closing, done, signalled, killTimer>>
Send(c, signal) == told' = [told EXCEPT ![c] = IF c \in alive /\ @ # "kill" THEN signal ELSE @]
-----------------------------------------------------------------------------
(* The update pass *)

\* decideUpdate: an install is only ever made over a global one.
Decision(available) ==
    CASE Mode = "off" \/ ~available -> "skip"
      [] Mode = "notify-only" \/ Kind # "npm-global" -> "notify"
      [] OTHER -> "apply"

LoadMode ==
    /\ update = "start" /\ update' = IF Mode = "off" THEN "over" ELSE "check"
    /\ UNCHANGED Rest

\* checkForUpdate answers, fails, or finds nothing newer.
Check ==
    /\ update = "check"
    /\ \E available \in BOOLEAN : update' = IF Decision(available) = "apply" THEN "install" ELSE "over"
    /\ UNCHANGED Rest

\* npm i -g; a failure is a notice.
Install ==
    /\ update = "install" /\ update' \in {"resolve", "over"} /\ UNCHANGED Rest

\* restartUI: the new files may not be there; else the child is detached and told to stop.
Detach ==
    /\ update = "resolve"
    /\ \/ update' = "over" /\ UNCHANGED <<generation, told>>
       \/ update' = "wait" /\ generation' = generation + 1 /\ Send(generation, "term")
    /\ UNCHANGED <<proxy, alive, closing, done, signalled, killTimer>>

\* A bug: a stop signal that landed meanwhile is not looked at.
RespawnAnyway ==
    /\ alive' = alive \cup {generation} /\ update' = "over"
    /\ UNCHANGED <<proxy, told, generation, closing, done, signalled, killTimer>>

\* The old child is gone: the new one is spawned, unless a stop signal landed.
Respawn ==
    IF signalled
    THEN /\ update' = "teardown" /\ closing' = closing + 1
         /\ UNCHANGED <<proxy, alive, told, generation, done, signalled, killTimer>>
    ELSE /\ alive' = alive \cup {generation} /\ update' = "over"
         /\ UNCHANGED <<proxy, told, generation, closing, done, signalled, killTimer>>

\* The wait ends with the child's exit or after 5 seconds, when it is killed.
WaitOver == update = "wait" /\ Replaced \notin alive /\ Respawn
WaitTooLong ==
    /\ update = "wait" /\ Replaced \in alive /\ update' = "kill" /\ Send(Replaced, "kill")
    /\ UNCHANGED <<proxy, alive, generation, closing, done, signalled, killTimer>>
Killed == update = "kill" /\ Replaced \notin alive /\ Respawn
-----------------------------------------------------------------------------
(* Children and signals *)

\* watchChild: the exit of a child that was replaced ends nothing.
Watched(c) == c = generation

\* A child exits: it was told to, its port is taken, it fails.  A wedged one does
\* not react to SIGTERM.
Exit(c) ==
    /\ c \in alive /\ alive' = alive \ {c}
    /\ closing' = closing + (IF Watched(c) THEN 1 ELSE 0)
    /\ UNCHANGED <<proxy, told, generation, done, update, signalled, killTimer>>

\* closeOwned, once per trigger; then the deferred.
Close ==
    /\ closing > 0 /\ closing' = closing - 1 /\ done' = TRUE
    /\ proxy' = (IF proxy = "open" THEN "closed" ELSE proxy)
    /\ UNCHANGED <<alive, told, generation, update, signalled, killTimer>>

\* The child that a signal is passed on to: the one spawned last.
Latest == IF update \in Restarting THEN Replaced ELSE generation

\* SIGINT or SIGTERM; a second one is ignored.
Signal ==
    /\ ~signalled /\ signalled' = TRUE /\ killTimer' = "set" /\ Send(Latest, "term")
    /\ UNCHANGED <<proxy, alive, generation, closing, done, update>>

\* 5 seconds after the signal.
KillLater ==
    /\ killTimer = "set" /\ killTimer' = "fired" /\ Send(Latest, "kill")
    /\ UNCHANGED <<proxy, alive, generation, closing, done, update, signalled>>

UpdateStep == LoadMode \/ Check \/ Install \/ Detach
Next ==
    \/ UpdateStep \/ WaitOver \/ WaitTooLong \/ Killed
    \/ \E c \in Child : Exit(c)
    \/ Close \/ Signal \/ KillLater

Spec == Init /\ [][Next]_vars

\* A process that was sent SIGKILL ends, timers fire, promises settle.  Nothing
\* says that npm or the registry answers, or that SIGTERM is obeyed.
FairSpec ==
    /\ Spec
    /\ \A c \in Child : WF_vars(told[c] = "kill" /\ Exit(c))
    /\ WF_vars(Close) /\ WF_vars(KillLater)
    /\ WF_vars(WaitOver) /\ WF_vars(WaitTooLong) /\ WF_vars(Killed)
-----------------------------------------------------------------------------
(* Properties *)

(* A stop signal stops the command for good, whatever the children do and the update is at: no
   child and no open proxy is left behind, also when the signal arrived in the middle of a
   restart (web.ts:187-188, 215-219, 230-251).                                         *)
StopStops == signalled ~> [](done /\ alive = {} /\ proxy # "open")
=============================================================================

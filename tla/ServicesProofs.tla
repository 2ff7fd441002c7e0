--------------------------- MODULE ServicesProofs ---------------------------
(* Nine parts that share nothing, for any number of actors of each: the replacement of a file, the
   starts of the proxy, the switches of Claude's own login, the two caches, the routing, the page of
   a profile, the command that serves the UI and the traffic reports.  MCServices, MCProgress and
   MCInspection check the same properties on one instance of each.                             *)
EXTENDS Integers, OrderLemmas, SequenceTheorems

CONSTANTS
    None,
    Writer, KeepBackup, MaxCrashes,                             \* AtomicFile
    Run, Web, Caller, Foreign,                                  \* ProxyStart
    Switch, WantOf, Login, HasSecurity, MaxMoves,               \* ActiveStore
    Reader, Headers, MaxRetryAfter, DefaultBackoff, MaxTime,    \* UsageCache
    Render, ProcOf, Process, Ttl,                               \* ModelCatalog
    Name, Profiles, Vault, Key, Model, MaxEdits,                \* RequestRouting
    KeyId, Word, FormProfiles, FormPresets, MaxStrokes, MaxRemovals,   \* ProfileForm
    Mode, Kind, MaxChild,                                       \* WebCommand
    Exchanges, Filters, PriceOf, MaxRows, TurnKeys, MaxTurns, KeyCap   \* TrafficReport

VARIABLES
    target, onDisk, bak, temp, fileStep, crashes,                                   \* AtomicFile
    token, port, accounts, run, probed, cpc, sent, others, steady,                  \* ProxyStart
    item, credFile, granted, switching, saw, leg, retried, moves, lived, moved,     \* ActiveStore
    now, vault, entry, call, raced,                                                 \* UsageCache
    clock, listFile, inflight, list,                                                \* ModelCatalog
    store, subs, keys, active, live, launch, session, request, edits,               \* RequestRouting
    stored, listed, page, saved, rejected, init, made, removals,                    \* ProfileForm
    proxy, alive, told, generation, closing, done, update, signalled, killTimer,    \* WebCommand
    exchanges, filter, turns                                                        \* TrafficReport

Atomic == INSTANCE AtomicFile
          WITH Writer <- Writer, KeepBackup <- KeepBackup, MaxCrashes <- MaxCrashes, target <- target,
               onDisk <- onDisk, bak <- bak, temp <- temp, pc <- fileStep, crashes <- crashes
Start == INSTANCE ProxyStart
         WITH Run <- Run, Web <- Web, Call <- Caller, None <- None, Foreign <- Foreign, token <- token,
              port <- port, accounts <- accounts, pc <- run, probed <- probed, cpc <- cpc, sent <- sent,
              others <- others, steady <- steady
Active == INSTANCE ActiveStore
          WITH Switch <- Switch, WantOf <- WantOf, Login <- Login, None <- None, HasSecurity <- HasSecurity,
               MaxMoves <- MaxMoves, item <- item, file <- credFile, granted <- granted, pc <- switching,
               saw <- saw, leg <- leg, retried <- retried, moves <- moves, lived <- lived, moved <- moved
Usage == INSTANCE UsageCache
         WITH Call <- Reader, Login <- Login, None <- None, Headers <- Headers,
              MaxRetryAfter <- MaxRetryAfter, DefaultBackoff <- DefaultBackoff, MaxTime <- MaxTime,
              now <- now, vault <- vault, file <- entry, call <- call, raced <- raced
Catalog == INSTANCE ModelCatalog
           WITH Render <- Render, ProcOf <- ProcOf, Process <- Process, None <- None, Ttl <- Ttl,
                MaxTime <- MaxTime, now <- clock, file <- listFile, inflight <- inflight, list <- list
Routing == INSTANCE RequestRouting
           WITH Name <- Name, Profiles <- Profiles, Vault <- Vault, Key <- Key, Model <- Model, None <- None,
                MaxEdits <- MaxEdits, store <- store, vault <- subs, keys <- keys, active <- active,
                live <- live, launch <- launch, session <- session, request <- request, edits <- edits
Form == INSTANCE ProfileForm
        WITH Login <- Login, KeyId <- KeyId, Model <- Model, Profiles <- FormProfiles, Presets <- FormPresets,
             None <- None, MaxStrokes <- MaxStrokes, MaxEdits <- MaxRemovals, stored <- stored, accounts <- listed,
             page <- page, saved <- saved, rejected <- rejected, init <- init, made <- made, edits <- removals
Command == INSTANCE WebCommand
           WITH Mode <- Mode, Kind <- Kind, MaxChild <- MaxChild, proxy <- proxy, alive <- alive, told <- told,
                generation <- generation, closing <- closing, done <- done, update <- update,
                signalled <- signalled, killTimer <- killTimer
Report == INSTANCE TrafficReport
          WITH None <- None, Exchanges <- Exchanges, Filters <- Filters, PriceOf <- PriceOf, MaxRows <- MaxRows,
               TurnKeys <- TurnKeys, MaxTurns <- MaxTurns, KeyCap <- KeyCap,
               exchanges <- exchanges, filter <- filter, turns <- turns
-----------------------------------------------------------------------------
(* The replacement of a file *)

\* No writer's content is a torn one, and the bound is a number.
WholeContents == "torn" \notin Writer /\ MaxCrashes \in Nat

\* What is about to be renamed has been synced.
FileInv ==
    /\ Atomic!TypeOK /\ Atomic!StoreParses
    /\ \A w \in Writer : fileStep[w] = "rename" => temp[w] = "synced"

LEMMA FileStep ==
    ASSUME WholeContents, FileInv, Atomic!Next
    PROVE  FileInv'
<1> USE DEF WholeContents, FileInv, Atomic!TypeOK, Atomic!StoreParses, Atomic!PC, Atomic!Contents, Atomic!Goto
<1>1. ASSUME NEW w \in Writer, Atomic!Start(w) PROVE FileInv'
    BY <1>1 DEF Atomic!Start
<1>2. ASSUME NEW w \in Writer, Atomic!Copied(w) PROVE FileInv'
    BY <1>2 DEF Atomic!Copied
<1>3. ASSUME NEW w \in Writer, Atomic!OpenTemp(w) PROVE FileInv'
    BY <1>3 DEF Atomic!OpenTemp
<1>4. ASSUME NEW w \in Writer, Atomic!WriteTemp(w) PROVE FileInv'
    BY <1>4 DEF Atomic!WriteTemp
<1>5. ASSUME NEW w \in Writer, Atomic!SyncTemp(w) PROVE FileInv'
    BY <1>5 DEF Atomic!SyncTemp
<1>6. ASSUME NEW w \in Writer, Atomic!Rename(w) PROVE FileInv'
    BY <1>6 DEF Atomic!Rename
<1>7. ASSUME NEW w \in Writer, Atomic!RenameFails(w) PROVE FileInv'
    BY <1>7 DEF Atomic!RenameFails
<1>8. ASSUME NEW w \in Writer, Atomic!Kill(w) PROVE FileInv'
    BY <1>8 DEF Atomic!Kill
<1>9. ASSUME NEW w \in Writer, Atomic!Forget(w) PROVE FileInv'
    BY <1>9 DEF Atomic!Forget
<1>10. CASE Atomic!Flush
    BY <1>10 DEF Atomic!Flush
<1>11. CASE Atomic!PowerLoss
    BY <1>11 DEF Atomic!PowerLoss
<1>12. QED
    BY <1>1, <1>2, <1>3, <1>4, <1>5, <1>6, <1>7, <1>8, <1>9, <1>10, <1>11 DEF Atomic!Next

(* Whatever is killed and whenever the power fails, a store file that is replaced by writeFileAtomic
   (atomicJson.ts:3-9) holds its old content or all of a new one, for any number of writers.     *)
THEOREM FileParses ==
    ASSUME WholeContents
    PROVE  Atomic!Spec => [](Atomic!TypeOK /\ Atomic!StoreParses)
<1>1. Atomic!Init => FileInv
    BY DEF WholeContents, FileInv, Atomic!Init, Atomic!TypeOK, Atomic!StoreParses, Atomic!PC, Atomic!Contents
<1>2. FileInv /\ [Atomic!Next]_(Atomic!vars) => FileInv'
  <2>1. CASE UNCHANGED Atomic!vars
    BY <2>1 DEF FileInv, Atomic!vars, Atomic!TypeOK, Atomic!StoreParses
  <2>2. QED
    BY <2>1, FileStep
<1>3. FileInv => Atomic!TypeOK /\ Atomic!StoreParses
    BY DEF FileInv
<1>4. QED
    BY <1>1, <1>2, <1>3, PTL DEF Atomic!Spec
-----------------------------------------------------------------------------
(* The starts of the proxy *)

\* A run is neither nobody nor the other server.
RunsAreRuns == None \notin Run /\ Foreign \notin Run /\ Web \subseteq Run

Minted == {"count", "listen", "serving"}

\* Nobody has replaced the token of a run that is not among others, and a call is steady with the
\* run that listens, whose token it has read.
TokenStays == \A r \in Run : run[r] \in Minted /\ r \notin others => token = r
SteadyCall(c) ==
    steady[c] # None => steady[c] = port /\ steady[c] \notin others /\ sent[c] = port /\ cpc[c] \in {"fetch", "ok"}
StartInv == Start!TypeOK /\ TokenStays /\ \A c \in Caller : SteadyCall(c)

LEMMA StartStep ==
    ASSUME RunsAreRuns, StartInv, Start!Next
    PROVE  StartInv'
<1> USE DEF RunsAreRuns, Minted, StartInv, TokenStays, SteadyCall, Start!TypeOK, Start!PC, Start!Reached, Start!Goto, Start!Calls
<1>1. ASSUME NEW r \in Run, Start!Start(r) PROVE StartInv'
    BY <1>1 DEF Start!Start
<1>2. ASSUME NEW r \in Run, Start!ProbeToken(r) PROVE StartInv'
    BY <1>2 DEF Start!ProbeToken
<1>3. ASSUME NEW r \in Run, Start!Probe(r) PROVE StartInv'
  <2>1. PICK step \in {"reused", "aborted", "mint"} : run' = [run EXCEPT ![r] = step]
    BY <1>3 DEF Start!Probe
  <2>2. QED
    BY <1>3, <2>1 DEF Start!Probe
<1>4. ASSUME NEW r \in Run, Start!Mint(r) PROVE StartInv'
  <2>1. /\ run' = [run EXCEPT ![r] = "count"] /\ run[r] = "mint" /\ token' = r
        /\ others' \in SUBSET Run /\ \A q \in Run \ {r} : run[q] \in Minted => q \in others'
        /\ steady' = [c \in Caller |-> None] /\ UNCHANGED <<port, accounts, probed, cpc, sent>>
    BY <1>4 DEF Start!Mint
  <2>2. Start!TypeOK'
    BY <2>1
  <2>3. TokenStays'
    BY <2>1
  <2>4. QED
    BY <2>1, <2>2, <2>3
<1>5. ASSUME NEW r \in Run, Start!Count(r) PROVE StartInv'
    BY <1>5 DEF Start!Count
<1>6. ASSUME NEW r \in Run, Start!Listen(r) PROVE StartInv'
  <2>1. CASE port = None
    <3>1. run[r] = "listen" /\ run' = [run EXCEPT ![r] = "serving"] /\ port' = r
          /\ UNCHANGED <<token, accounts, probed, others, cpc, sent, steady>>
      BY <1>6, <2>1 DEF Start!Listen
    <3>2. Start!TypeOK' /\ TokenStays'
      BY <2>1, <3>1
    <3>3. \A c \in Caller : steady[c] = None
      BY <2>1
    <3>4. QED
      BY <3>1, <3>2, <3>3
  <2>2. CASE port # None
    BY <1>6, <2>2 DEF Start!Listen
  <2>3. QED
    BY <2>1, <2>2
<1>7. ASSUME NEW r \in Run, Start!Stop(r) PROVE StartInv'
    BY <1>7 DEF Start!Stop
<1>8. ASSUME NEW r \in Run, Start!Closed(r) PROVE StartInv'
    BY <1>8 DEF Start!Closed
<1>9. ASSUME NEW r \in Run, Start!Crash(r) PROVE StartInv'
    BY <1>9 DEF Start!Crash
<1>10. ASSUME NEW c \in Caller, Start!ReadToken(c) PROVE StartInv'
    BY <1>10 DEF Start!ReadToken
<1>11. ASSUME NEW c \in Caller, Start!Fetch(c) PROVE StartInv'
  <2>1. PICK a \in Start!Answers(sent[c]) : cpc' = [cpc EXCEPT ![c] = a]
    BY <1>11 DEF Start!Fetch
  <2>2. a \in Start!Reached /\ (port \in Run /\ sent[c] = port => a = "ok")
    BY <2>1 DEF Start!Answers
  <2>3. Start!TypeOK' /\ TokenStays'
    BY <1>11, <2>1, <2>2 DEF Start!Fetch
  <2>4. ASSUME NEW d \in Caller PROVE SteadyCall(d)'
    BY <1>11, <2>1, <2>2 DEF Start!Fetch
  <2>5. QED
    BY <2>3, <2>4
<1>12. CASE Start!Import
    BY <1>12 DEF Start!Import
<1>13. CASE Start!ForeignMoves
  <2>1. /\ port \notin Run /\ port' \in {None, Foreign}
        /\ UNCHANGED <<token, accounts, run, probed, others, cpc, sent, steady>>
    BY <1>13 DEF Start!ForeignMoves
  <2>2. \A c \in Caller : steady[c] = None
    BY <2>1
  <2>3. QED
    BY <2>1, <2>2
<1>14. QED
    BY <1>1, <1>2, <1>3, <1>4, <1>5, <1>6, <1>7, <1>8, <1>9, <1>10, <1>11, <1>12, <1>13 DEF Start!Next

(* A call on the control plane that begins while a run listens is heard, as long as that run goes on
   listening and nobody has minted a token since it did (controlClient.ts, startOwnedProxy), for any
   number of runs of `proxy run` and `web` and of callers.                                       *)
THEOREM SteadyIsHeard ==
    ASSUME RunsAreRuns
    PROVE  Start!Spec => [](Start!TypeOK /\ Start!SteadyRunIsHeard)
<1>1. Start!Init => StartInv
    BY DEF RunsAreRuns, StartInv, TokenStays, SteadyCall, Minted, Start!Init, Start!TypeOK, Start!PC, Start!Reached
<1>2. StartInv /\ [Start!Next]_(Start!vars) => StartInv'
  <2>1. CASE UNCHANGED Start!vars
    BY <2>1 DEF StartInv, TokenStays, SteadyCall, Start!vars, Start!TypeOK
  <2>2. QED
    BY <2>1, StartStep
<1>3. StartInv => Start!TypeOK /\ Start!SteadyRunIsHeard
    BY DEF StartInv, SteadyCall, Start!SteadyRunIsHeard, Start!Reached
<1>4. QED
    BY <1>1, <1>2, <1>3, PTL DEF Start!Spec
-----------------------------------------------------------------------------
(* The cache of the models *)

\* A time to live is more than nothing.
ListConstants ==
    /\ None \notin Render /\ ProcOf \in [Render -> Process]
    /\ MaxTime \in Nat /\ Ttl \in Nat \ {0} /\ None \notin Int

Lists == [pc : Catalog!Steps \cup Catalog!Answered, read : Catalog!Time \cup {None}, data : Catalog!Time \cup {None},
          begun : Catalog!Time, on : Render \cup {None}]

\* One render of a process runs its request, and those that wait for it are known to wait for it.
ListTypes ==
    /\ clock \in Catalog!Time /\ listFile \in Catalog!Time \cup {None}
    /\ inflight \in [Process -> Render \cup {None}] /\ list \in [Render -> Lists]
RenderOK(r) ==
    /\ list[r].begun <= clock
    /\ list[r].pc \in {"join", "fetch", "write"} => list[r].on = None
    /\ list[r].pc \in {"fetch", "write"} => inflight[ProcOf[r]] = r
    /\ list[r].pc = "write" => list[r].data # None /\ list[r].data >= list[r].begun
    /\ list[r].pc = "wait" => list[r].on # None /\ inflight[ProcOf[r]] = list[r].on
    /\ list[r].pc = "fresh" /\ list[r].on = None => list[r].data # None /\ list[r].data + Ttl > list[r].begun
ListInv == ListTypes /\ \A r \in Render : RenderOK(r)

\* A render goes on alone, and no other render of its process is at its request.
LEMMA OneRender ==
    ASSUME ListConstants, ListInv, NEW r \in Render, NEW new \in Lists,
           list' = [list EXCEPT ![r] = new], clock' = clock, listFile' = listFile,
           \/ inflight' = inflight
           \/ inflight[ProcOf[r]] = None /\ inflight' = [inflight EXCEPT ![ProcOf[r]] = r],
           RenderOK(r)'
    PROVE  ListInv'
<1>1. ListTypes'
    BY DEF ListConstants, ListInv, ListTypes
<1>2. ASSUME NEW q \in Render, q # r PROVE RenderOK(q)'
  <2>1. list'[q] = list[q] /\ RenderOK(q) /\ list[q] \in Lists
    BY <1>2 DEF ListInv, ListTypes
  <2>2. CASE inflight' = inflight
    BY <2>1, <2>2 DEF RenderOK
  <2>3. CASE inflight[ProcOf[r]] = None /\ inflight' = [inflight EXCEPT ![ProcOf[r]] = r]
    <3>1. CASE ProcOf[q] = ProcOf[r]
      BY <2>1, <2>3, <3>1 DEF RenderOK, ListConstants
    <3>2. CASE ProcOf[q] # ProcOf[r]
      <4>1. inflight'[ProcOf[q]] = inflight[ProcOf[q]]
        BY <2>3, <3>2 DEF ListConstants, ListInv, ListTypes
      <4>2. QED
        BY <2>1, <4>1 DEF RenderOK
    <3>3. QED
      BY <3>1, <3>2
  <2>4. QED
    BY <2>2, <2>3
<1>3. QED
    BY <1>1, <1>2 DEF ListInv

\* A request is over.  Whoever waits for it has been waiting in its process.
LEMMA SettleKeeps ==
    ASSUME ListConstants, ListInv, NEW r \in Render, NEW how \in Catalog!Answered,
           NEW data \in Catalog!Time \cup {None}, list[r].pc \in {"fetch", "write"},
           how = "fresh" => data # None /\ data + Ttl > list[r].begun,
           Catalog!Settle(r, how, data), clock' = clock, listFile' \in Catalog!Time \cup {None}
    PROVE  ListInv'
<1>1. \A q \in Render : list[q] \in Lists
    BY DEF ListInv, ListTypes
<1>2. \A q \in Render : [list[q] EXCEPT !.pc = how, !.data = data] \in Lists
    BY <1>1 DEF Lists
<1>3. ListTypes'
    BY <1>1, <1>2 DEF ListConstants, ListInv, ListTypes, Catalog!Settle
<1>4. inflight[ProcOf[r]] = r /\ list[r].on = None /\ r # None
    BY DEF ListInv, RenderOK, ListConstants
<1>5. ASSUME NEW q \in Render PROVE RenderOK(q)'
  <2>1. RenderOK(q) /\ list[q] \in Lists
    BY <1>1 DEF ListInv
  <2>2. CASE q = r \/ (list[q].pc = "wait" /\ list[q].on = r)
    <3>1. list'[q] = [list[q] EXCEPT !.pc = how, !.data = data]
      BY <2>2 DEF Catalog!Settle, Catalog!At
    <3>2. /\ list'[q].pc = how /\ list'[q].data = data
          /\ list'[q].begun = list[q].begun /\ list'[q].on = list[q].on
      BY <2>1, <3>1 DEF Lists
    <3>3. how \in {"fresh", "stale", "failed"}
      BY DEF Catalog!Answered
    <3>4. list[q].on = None => q = r
      BY <1>4, <2>2
    <3>5. QED
      BY <2>1, <3>2, <3>3, <3>4 DEF RenderOK
  <2>3. CASE ~(q = r \/ (list[q].pc = "wait" /\ list[q].on = r))
    <3>1. list'[q] = list[q]
      BY <2>3 DEF Catalog!Settle, Catalog!At
    <3>2. CASE ProcOf[q] = ProcOf[r]
      BY <1>4, <2>1, <2>3, <3>1, <3>2 DEF RenderOK
    <3>3. CASE ProcOf[q] # ProcOf[r]
      <4>1. inflight'[ProcOf[q]] = inflight[ProcOf[q]]
        BY <3>3 DEF ListConstants, ListInv, ListTypes, Catalog!Settle
      <4>2. QED
        BY <2>1, <3>1, <4>1 DEF RenderOK
    <3>4. QED
      BY <3>2, <3>3
  <2>4. QED
    BY <2>2, <2>3
<1>6. QED
    BY <1>3, <1>5 DEF ListInv

LEMMA ListStep ==
    ASSUME ListConstants, ListInv, Catalog!Next
    PROVE  ListInv'
<1> USE DEF Catalog!Time
<1>1. ASSUME NEW r \in Render, Catalog!Read(r) PROVE ListInv'
  <2>1. PICK new \in Lists :
            /\ list' = [list EXCEPT ![r] = new] /\ new.begun = clock /\ new.pc \in {"fresh", "join"} /\ new.on = None
            /\ new.pc = "fresh" => new.data # None /\ new.data + Ttl > clock
    <3>1. clock \in Int /\ (listFile # None => listFile \in Int)
      BY DEF ListInv, ListTypes
    <3>2. CASE listFile # None /\ clock - listFile < Ttl
      <4> DEFINE n == [Catalog!Idle EXCEPT !.pc = "fresh", !.data = listFile, !.begun = clock]
      <4>1. n \in Lists /\ n.begun = clock /\ n.pc = "fresh" /\ n.on = None /\ n.data = listFile
        BY DEF Lists, Catalog!Idle, Catalog!Steps, Catalog!Answered, ListInv, ListTypes
      <4>2. list' = [list EXCEPT ![r] = n] /\ listFile + Ttl > clock
        BY <1>1, <3>1, <3>2 DEF Catalog!Read, ListConstants
      <4>3. QED
        BY <3>2, <4>1, <4>2
    <3>3. CASE ~(listFile # None /\ clock - listFile < Ttl)
      <4> DEFINE n == [Catalog!Idle EXCEPT !.pc = "join", !.read = listFile, !.begun = clock]
      <4>1. n \in Lists /\ n.begun = clock /\ n.pc = "join" /\ n.on = None
        BY DEF Lists, Catalog!Idle, Catalog!Steps, Catalog!Answered, ListInv, ListTypes
      <4>2. list' = [list EXCEPT ![r] = n]
        BY <1>1, <3>3 DEF Catalog!Read
      <4>3. QED
        BY <4>1, <4>2
    <3>4. QED
      BY <3>2, <3>3
  <2>2. list'[r] = new /\ UNCHANGED <<clock, listFile, inflight>>
    BY <1>1, <2>1 DEF Catalog!Read, ListInv, ListTypes
  <2>3. RenderOK(r)'
    BY <2>1, <2>2 DEF RenderOK, ListInv, ListTypes
  <2>4. QED
    BY <2>1, <2>2, <2>3, OneRender
<1>2. ASSUME NEW r \in Render, Catalog!Join(r) PROVE ListInv'
  <2>1. list[r] \in Lists /\ RenderOK(r) /\ list[r].pc = "join" /\ UNCHANGED <<clock, listFile>>
    BY <1>2 DEF Catalog!Join, Catalog!At, ListInv, ListTypes
  <2>2. inflight[ProcOf[r]] \in Render \cup {None}
    BY DEF ListInv, ListTypes, ListConstants
  <2>3. CASE inflight[ProcOf[r]] # None
    <3> DEFINE n == [[list[r] EXCEPT !.pc = "wait"] EXCEPT !.on = inflight[ProcOf[r]]]
    <3>1. n \in Lists /\ n.pc = "wait" /\ n.on = inflight[ProcOf[r]] /\ n.begun = list[r].begun
      BY <2>1, <2>2 DEF Lists, Catalog!Steps
    <3>2. list' = [list EXCEPT ![r] = n] /\ inflight' = inflight
      BY <1>2, <2>1, <2>3 DEF Catalog!Join, Catalog!Own, ListInv, ListTypes
    <3>3. list'[r] = n
      BY <3>2 DEF ListInv, ListTypes
    <3>4. RenderOK(r)'
      BY <2>1, <2>3, <3>1, <3>2, <3>3 DEF RenderOK
    <3>5. QED
      BY <2>1, <3>1, <3>2, <3>4, OneRender
  <2>4. CASE inflight[ProcOf[r]] = None
    <3> DEFINE n == [list[r] EXCEPT !.pc = "fetch"]
    <3>1. n \in Lists /\ n.pc = "fetch" /\ n.on = list[r].on /\ n.begun = list[r].begun
      BY <2>1 DEF Lists, Catalog!Steps
    <3>2. list' = [list EXCEPT ![r] = n] /\ inflight' = [inflight EXCEPT ![ProcOf[r]] = r]
      BY <1>2, <2>1, <2>4 DEF Catalog!Join, Catalog!Own
    <3>3. list'[r] = n /\ inflight'[ProcOf[r]] = r
      BY <3>2 DEF ListConstants, ListInv, ListTypes
    <3>4. RenderOK(r)'
      BY <2>1, <3>1, <3>3 DEF RenderOK
    <3>5. QED
      BY <2>1, <2>4, <3>1, <3>2, <3>4, OneRender
  <2>5. QED
    BY <2>3, <2>4
<1>3. ASSUME NEW r \in Render, Catalog!FallBack(r) PROVE ListInv'
  <2>1. list[r].read \in Catalog!Time \cup {None} /\ listFile \in Catalog!Time \cup {None}
    BY DEF ListInv, ListTypes, Lists
  <2>2. PICK how \in {"stale", "failed"} : \E data \in Catalog!Time \cup {None} : Catalog!Settle(r, how, data)
    BY <1>3, <2>1 DEF Catalog!FallBack
  <2>3. QED
    BY <1>3, <2>1, <2>2, SettleKeeps DEF Catalog!FallBack, Catalog!Answered
<1>4. ASSUME NEW r \in Render, Catalog!Fetch(r) PROVE ListInv'
  <2> DEFINE n == [[list[r] EXCEPT !.pc = "write"] EXCEPT !.data = clock]
  <2>1. list[r] \in Lists /\ RenderOK(r) /\ clock \in Catalog!Time
    BY DEF ListInv, ListTypes
  <2>2. n \in Lists /\ n.pc = "write" /\ n.data = clock /\ n.on = list[r].on /\ n.begun = list[r].begun
    BY <2>1 DEF Lists, Catalog!Steps
  <2>3. list[r].pc = "fetch" /\ list' = [list EXCEPT ![r] = n] /\ UNCHANGED <<clock, listFile, inflight>>
    BY <1>4, <2>1 DEF Catalog!Fetch, Catalog!At, ListInv, ListTypes
  <2>4. list'[r] = n
    BY <2>3 DEF ListInv, ListTypes
  <2>5. clock # None
    BY <2>1 DEF ListConstants
  <2>6. RenderOK(r)'
    BY <2>1, <2>2, <2>3, <2>4, <2>5 DEF RenderOK
  <2>7. QED
    BY <2>2, <2>3, <2>6, OneRender
<1>5. ASSUME NEW r \in Render, Catalog!Write(r) PROVE ListInv'
  <2>1. list[r] \in Lists /\ RenderOK(r) /\ list[r].pc = "write"
    BY <1>5 DEF Catalog!Write, Catalog!At, ListInv, ListTypes
  <2>2. list[r].data \in Catalog!Time /\ list[r].data >= list[r].begun /\ list[r].begun \in Int
    BY <2>1 DEF RenderOK, Lists
  <2>3. list[r].data # None /\ list[r].data + Ttl > list[r].begun
    BY <2>1, <2>2 DEF ListConstants, RenderOK
  <2>4. QED
    BY <1>5, <2>1, <2>2, <2>3, SettleKeeps DEF Catalog!Write, Catalog!Answered
<1>6. CASE Catalog!Tick
  <2>1. clock \in Int /\ clock' = clock + 1 /\ clock' \in Catalog!Time /\ UNCHANGED <<listFile, inflight, list>>
    BY <1>6 DEF Catalog!Tick, ListInv, ListTypes, ListConstants
  <2>2. ASSUME NEW r \in Render PROVE list[r].begun \in Int /\ RenderOK(r)
    BY DEF ListInv, ListTypes, Lists
  <2>3. ASSUME NEW r \in Render PROVE RenderOK(r)'
    BY <2>1, <2>2 DEF RenderOK
  <2>4. QED
    BY <2>1, <2>3 DEF ListInv, ListTypes
<1>7. QED
    BY <1>1, <1>2, <1>3, <1>4, <1>5, <1>6 DEF Catalog!Next

(* For any number of renders in any number of processes (modelCatalogCache.ts): those of one process
   share one request, a list that is not labelled stale was within its time when it was asked for,
   and nobody waits for a request that is over.                                                  *)
THEOREM ListsAreShared ==
    ASSUME ListConstants
    PROVE  Catalog!Spec => [](Catalog!TypeOK /\ Catalog!CatalogSharesAndLabels)
<1>1. Catalog!Init => ListInv
    BY DEF ListConstants, ListInv, ListTypes, RenderOK, Lists, Catalog!Init, Catalog!Idle, Catalog!Steps, Catalog!Answered, Catalog!Time
<1>2. ListInv /\ [Catalog!Next]_(Catalog!vars) => ListInv'
  <2>1. CASE UNCHANGED Catalog!vars
    BY <2>1 DEF ListInv, ListTypes, RenderOK, Catalog!vars
  <2>2. QED
    BY <2>1, ListStep
<1>3. ASSUME ListInv PROVE Catalog!TypeOK
    BY <1>3 DEF ListInv, ListTypes, Lists, Catalog!TypeOK
<1>4. ASSUME ListInv PROVE Catalog!CatalogSharesAndLabels
    BY <1>4, ListConstants DEF ListConstants, ListInv, ListTypes, RenderOK, Lists, Catalog!CatalogSharesAndLabels, Catalog!At, Catalog!Own
<1>5. QED
    BY <1>1, <1>2, <1>3, <1>4, PTL DEF Catalog!Spec
-----------------------------------------------------------------------------
(* The cache of the usage *)

\* The usual back-off is within the ceiling, and what a header says is a number or nothing.
UsageConstants ==
    /\ None \notin Int /\ MaxTime \in Nat /\ MaxRetryAfter \in Nat /\ DefaultBackoff \in 0..MaxRetryAfter
    /\ Headers \subseteq Int \cup {None}

Calls == [pc : {"idle", "key", "read", "fetch", "fresh", "stale", "failed"}, token : Login \cup {None},
          key : Login \cup {None}, cached : Usage!Entry \cup {None}, shown : Usage!Snapshot \cup {None}]

UsageTypes ==
    /\ now \in 0..MaxTime /\ vault \in Login /\ raced \in BOOLEAN /\ entry \in Usage!Entry \cup {None}
    /\ call \in [Reader -> Calls]

\* An entry that is read ends its back-off in time, and shows the usage of the login of its key.
Heals(e) == e # None => e.notBefore <= now + MaxRetryAfter
Own(e) == e # None /\ e.snapshot # None => e.snapshot.login = e.key

\* A call has a token and then a key; unless a login was changed in between they are of one login.
HasKey(c) ==
    /\ call[c].pc = "key" => call[c].cached = None
    /\ call[c].pc \in {"key", "read", "fetch"} => call[c].token \in Login
    /\ call[c].pc \in {"read", "fetch"} => call[c].key \in Login
Honest(c) ==
    /\ call[c].pc \in {"read", "fetch"} => call[c].key = call[c].token
    /\ call[c].cached # None => Own(call[c].cached) /\ call[c].cached.key = call[c].key
    /\ call[c].shown # None => call[c].shown.login = call[c].token

UsageInv ==
    /\ UsageTypes /\ Heals(entry) /\ \A c \in Reader : HasKey(c)
    /\ ~raced => Own(entry) /\ \A c \in Reader : Honest(c)

LEMMA OneReading ==
    ASSUME UsageInv, NEW c \in Reader, NEW new \in Calls, call' = [call EXCEPT ![c] = new],
           now' = now, vault' = vault, raced' \in BOOLEAN, raced => raced',
           entry' \in Usage!Entry \cup {None}, Heals(entry)', HasKey(c)',
           ~raced' => Own(entry)' /\ Honest(c)'
    PROVE  UsageInv'
<1>1. UsageTypes'
    BY DEF UsageInv, UsageTypes
<1>2. \A d \in Reader \ {c} : call'[d] = call[d]
    BY DEF UsageInv, UsageTypes
<1>3. \A d \in Reader : HasKey(d)'
    BY <1>2 DEF UsageInv, HasKey
<1>4. ASSUME ~raced', NEW d \in Reader PROVE Honest(d)'
    BY <1>2, <1>4 DEF UsageInv, Honest, Own
<1>5. QED
    BY <1>1, <1>3, <1>4 DEF UsageInv

\* A call ends and shows a snapshot, its own login's or that of the entry it read.
LEMMA EndKeeps ==
    ASSUME UsageInv, NEW c \in Reader, NEW how \in {"fresh", "stale", "failed"},
           NEW snapshot \in Usage!Snapshot \cup {None}, Usage!End(c, how, snapshot),
           ~raced /\ snapshot # None => snapshot.login = call[c].token,
           UNCHANGED <<now, vault, raced>>, entry' \in Usage!Entry \cup {None},
           Heals(entry)', ~raced => Own(entry)'
    PROVE  UsageInv'
<1> DEFINE n == [Usage!Idle EXCEPT !.pc = how, !.token = call[c].token, !.shown = snapshot]
<1>1. call[c] \in Calls
    BY DEF UsageInv, UsageTypes
<1>2. /\ n \in Calls /\ n.pc = how /\ n.token = call[c].token
      /\ n.cached = None /\ n.shown = snapshot
    BY <1>1 DEF Usage!Idle, Calls
<1>3. call' = [call EXCEPT ![c] = n] /\ call'[c] = n
    BY DEF Usage!End, UsageInv, UsageTypes
<1>4. HasKey(c)'
    BY <1>2, <1>3 DEF HasKey
<1>5. ~raced => Honest(c)'
    BY <1>2, <1>3 DEF Honest
<1> HIDE DEF n
<1>6. QED
    BY <1>2, <1>3, <1>4, <1>5, OneReading DEF UsageInv, UsageTypes

\* What a refusal adds to the clock.
LEMMA BackoffIsBounded ==
    ASSUME UsageConstants, NEW header \in Headers
    PROVE  Usage!Backoff(header) \in 0..MaxRetryAfter
<1>1. header = None \/ header \in Int
    BY DEF UsageConstants
<1>2. CASE header = None
    BY <1>2 DEF UsageConstants, Usage!Backoff, Usage!ParseRetryAfter
<1>3. CASE header # None /\ header < 0
  <2>1. Usage!ParseRetryAfter(header) = 0
    BY <1>1, <1>3 DEF Usage!ParseRetryAfter, UsageConstants
  <2>2. QED
    BY <2>1 DEF UsageConstants, Usage!Backoff
<1>4. CASE header # None /\ header >= 0
  <2>1. Usage!ParseRetryAfter(header) \in 0..MaxRetryAfter
    BY <1>1, <1>4 DEF Usage!ParseRetryAfter, UsageConstants
  <2>2. QED
    BY <2>1 DEF UsageConstants, Usage!Backoff
<1>5. QED
    BY <1>1, <1>2, <1>3, <1>4

LEMMA UsageStep ==
    ASSUME UsageConstants, UsageInv, Usage!Next
    PROVE  UsageInv'
<1>1. ASSUME NEW c \in Reader, Usage!Begin(c) PROVE UsageInv'
  <2> DEFINE n == [Usage!Idle EXCEPT !.pc = "key", !.token = vault]
  <2>1. n \in Calls /\ n.pc = "key" /\ n.token = vault /\ n.cached = None /\ n.shown = None /\ vault \in Login
    BY DEF Usage!Idle, Calls, UsageInv, UsageTypes
  <2>2. call' = [call EXCEPT ![c] = n] /\ call'[c] = n /\ UNCHANGED <<now, vault, entry, raced>>
    BY <1>1 DEF Usage!Begin, UsageInv, UsageTypes
  <2> HIDE DEF n
  <2>3. HasKey(c)' /\ Honest(c)'
    BY <2>1, <2>2 DEF HasKey, Honest
  <2>4. Heals(entry)' /\ (~raced' => Own(entry)') /\ entry' \in Usage!Entry \cup {None} /\ raced' \in BOOLEAN
    BY <2>2 DEF UsageInv, UsageTypes, Heals, Own
  <2>5. QED
    BY <2>1, <2>2, <2>3, <2>4, OneReading
<1>2. ASSUME NEW c \in Reader, Usage!ResolveKey(c) PROVE UsageInv'
  <2> DEFINE n == [[call[c] EXCEPT !.pc = "read"] EXCEPT !.key = vault]
  <2>1. call[c] \in Calls /\ call[c].pc = "key" /\ vault \in Login /\ HasKey(c)
    BY <1>2 DEF Usage!ResolveKey, Usage!At, UsageInv, UsageTypes
  <2>2. /\ n \in Calls /\ n.pc = "read" /\ n.key = vault /\ n.token = call[c].token
        /\ n.cached = call[c].cached /\ n.shown = call[c].shown
    BY <2>1 DEF Calls
  <2>3. call' = [call EXCEPT ![c] = n] /\ call'[c] = n /\ UNCHANGED <<now, vault, entry>>
    BY <1>2, <2>1 DEF Usage!ResolveKey, UsageInv, UsageTypes
  <2>4. raced' \in BOOLEAN /\ (raced => raced') /\ (~raced' => vault = call[c].token)
    BY <1>2 DEF Usage!ResolveKey
  <2> HIDE DEF n
  <2>5. HasKey(c)'
    BY <2>1, <2>2, <2>3 DEF HasKey
  <2>6. ~raced' => Honest(c)'
    BY <2>1, <2>2, <2>3, <2>4 DEF HasKey, Honest, UsageInv
  <2>7. Heals(entry)' /\ (~raced' => Own(entry)') /\ entry' \in Usage!Entry \cup {None}
    BY <2>3, <2>4 DEF UsageInv, UsageTypes, Heals, Own
  <2>8. QED
    BY <2>2, <2>3, <2>4, <2>5, <2>6, <2>7, OneReading
<1>3. ASSUME NEW c \in Reader, Usage!Read(c) PROVE UsageInv'
  <2>1. /\ call[c] \in Calls /\ call[c].pc = "read" /\ HasKey(c) /\ UNCHANGED <<now, vault, entry, raced>>
        /\ entry \in Usage!Entry \cup {None}
    BY <1>3 DEF Usage!Read, Usage!At, UsageInv, UsageTypes
  <2>2. Heals(entry)' /\ (~raced' => Own(entry)') /\ raced' \in BOOLEAN
    BY <2>1 DEF UsageInv, UsageTypes, Heals, Own
  <2>3. Usage!Mine(c) \in {entry, None} /\ (Usage!Mine(c) # None => entry # None /\ entry.key = call[c].key)
    BY DEF Usage!Mine
  <2>4. CASE Usage!Mine(c) # None /\ Usage!Mine(c).notBefore > now
    <3>1. entry \in Usage!Entry /\ Usage!Mine(c) = entry
      BY <2>1, <2>3, <2>4
    <3>2. entry.snapshot \in Usage!Snapshot \cup {None}
      BY <3>1 DEF Usage!Entry
    <3>3. ~raced /\ entry.snapshot # None => entry.snapshot.login = call[c].token
      BY <2>1, <2>3, <2>4 DEF UsageInv, Own, Honest
    <3>4. Usage!End(c, "failed", None) \/ Usage!End(c, "stale", entry.snapshot)
      BY <1>3, <2>4, <3>1 DEF Usage!Read
    <3>5. QED
      BY <2>1, <2>2, <3>2, <3>3, <3>4, EndKeeps
  <2>5. CASE ~(Usage!Mine(c) # None /\ Usage!Mine(c).notBefore > now)
    <3> DEFINE n == [[call[c] EXCEPT !.pc = "fetch"] EXCEPT !.cached = Usage!Mine(c)]
    <3>1. /\ n \in Calls /\ n.pc = "fetch" /\ n.key = call[c].key /\ n.token = call[c].token
          /\ n.cached = Usage!Mine(c) /\ n.shown = call[c].shown
      BY <2>1, <2>3 DEF Calls
    <3>2. call' = [call EXCEPT ![c] = n] /\ call'[c] = n
      BY <1>3, <2>1, <2>5 DEF Usage!Read, UsageInv, UsageTypes
    <3> HIDE DEF n
    <3>3. HasKey(c)'
      BY <2>1, <3>1, <3>2 DEF HasKey
    <3>4. ~raced' => Honest(c)'
      BY <2>1, <2>3, <3>1, <3>2 DEF Honest, UsageInv
    <3>5. QED
      BY <2>1, <2>2, <3>1, <3>2, <3>3, <3>4, OneReading
  <2>6. QED
    BY <2>4, <2>5
<1>4. ASSUME NEW c \in Reader, Usage!Fetched(c) PROVE UsageInv'
  <2> DEFINE snapshot == [login |-> call[c].token, at |-> now]
             e == [key |-> call[c].key, snapshot |-> snapshot, notBefore |-> 0]
  <2>1. call[c] \in Calls /\ call[c].pc = "fetch" /\ HasKey(c) /\ UNCHANGED <<now, vault, raced>>
    BY <1>4 DEF Usage!Fetched, Usage!At, UsageInv, UsageTypes
  <2>2. call[c].token \in Login /\ call[c].key \in Login /\ now \in 0..MaxTime /\ raced \in BOOLEAN
    BY <2>1 DEF HasKey, UsageInv, UsageTypes
  <2>3. snapshot \in Usage!Snapshot /\ e \in Usage!Entry
    BY <2>2 DEF Usage!Snapshot, Usage!Entry, UsageConstants
  <2>4. entry' = e /\ Usage!End(c, "fresh", snapshot)
    BY <1>4 DEF Usage!Fetched, Usage!Set
  <2>5. Heals(entry)'
    BY <2>1, <2>2, <2>4 DEF Heals, UsageConstants
  <2>6. ~raced => Own(entry)'
    BY <2>1, <2>4 DEF Own, UsageInv, Honest
  <2>7. QED
    BY <2>1, <2>3, <2>4, <2>5, <2>6, EndKeeps
<1>5. ASSUME NEW c \in Reader, Usage!Unauthorized(c) PROVE UsageInv'
  <2>1. UNCHANGED <<now, vault, entry, raced>> /\ Usage!End(c, "failed", None)
    BY <1>5 DEF Usage!Unauthorized
  <2>2. Heals(entry)' /\ (~raced => Own(entry)') /\ entry' \in Usage!Entry \cup {None}
    BY <2>1 DEF UsageInv, UsageTypes, Heals, Own
  <2>3. QED
    BY <2>1, <2>2, EndKeeps
<1>6. ASSUME NEW c \in Reader, Usage!Refused(c) PROVE UsageInv'
  <2> DEFINE snapshot == IF call[c].cached = None THEN None ELSE call[c].cached.snapshot
  <2>1. call[c] \in Calls /\ call[c].pc = "fetch" /\ HasKey(c) /\ UNCHANGED <<now, vault, raced>>
    BY <1>6 DEF Usage!Refused, Usage!At, UsageInv, UsageTypes
  <2>2. call[c].key \in Login /\ now \in 0..MaxTime /\ raced \in BOOLEAN
    BY <2>1 DEF HasKey, UsageInv, UsageTypes
  <2>3. snapshot \in Usage!Snapshot \cup {None}
    BY <2>1 DEF Calls, Usage!Entry
  <2>4. PICK header \in Headers : Usage!Set(c, snapshot, now + Usage!Backoff(header))
    BY <1>6 DEF Usage!Refused
  <2>5. Usage!Backoff(header) \in 0..MaxRetryAfter
    BY BackoffIsBounded
  <2>6. Usage!End(c, "failed", None) \/ Usage!End(c, "stale", snapshot)
    BY <1>6 DEF Usage!Refused
  <2>7. ~raced /\ snapshot # None => snapshot.login = call[c].token /\ snapshot.login = call[c].key
    BY <2>1 DEF UsageInv, Honest, Own
  <2> HIDE DEF snapshot
  <2> DEFINE until == now + Usage!Backoff(header)
  <2>8. until \in 0..(MaxTime + MaxRetryAfter) /\ until <= now + MaxRetryAfter
    BY <2>2, <2>5 DEF UsageConstants
  <2> HIDE DEF until
  <2>9. entry' = [key |-> call[c].key, snapshot |-> snapshot, notBefore |-> until]
    BY <2>4 DEF Usage!Set, until
  <2>10. entry' \in Usage!Entry
    BY <2>2, <2>3, <2>8, <2>9 DEF Usage!Entry
  <2>11. Heals(entry)'
    BY <2>1, <2>8, <2>9 DEF Heals
  <2>12. ~raced => Own(entry)'
    BY <2>7, <2>9 DEF Own
  <2>13. QED
    BY <2>1, <2>3, <2>6, <2>7, <2>10, <2>11, <2>12, EndKeeps
<1>7. CASE Usage!Reimport
    BY <1>7 DEF Usage!Reimport, UsageInv, UsageTypes, Heals, Own, HasKey, Honest
<1>8. CASE Usage!Tick
  <2>1. now' = now + 1 /\ now' \in 0..MaxTime /\ now \in Int /\ UNCHANGED <<vault, entry, call, raced>>
    BY <1>8 DEF Usage!Tick, UsageInv, UsageTypes, UsageConstants
  <2>2. entry # None => entry.notBefore \in Int
    BY DEF UsageInv, UsageTypes, Usage!Entry
  <2>3. Heals(entry)'
    BY <2>1, <2>2 DEF UsageInv, Heals, UsageConstants
  <2>4. QED
    BY <2>1, <2>3 DEF UsageInv, UsageTypes, Own, HasKey, Honest
<1>9. QED
    BY <1>1, <1>2, <1>3, <1>4, <1>5, <1>6, <1>7, <1>8 DEF Usage!Next

(* However the answers of any number of readings land, and whatever the headers say, an account is
   read again when the ceiling is over (retryAfter.ts:11-17), and nobody is shown another login's
   usage, as long as no login changes between the token and the key of a reading (usageCache.ts). *)
THEOREM UsageHeals ==
    ASSUME UsageConstants
    PROVE  Usage!Spec => [](Usage!TypeOK /\ Usage!UsageStaysOwnAndHeals)
<1>1. ASSUME Usage!Init PROVE UsageInv
  <2>1. Usage!Idle \in Calls /\ Usage!Idle.pc = "idle" /\ Usage!Idle.cached = None /\ Usage!Idle.shown = None
    BY DEF Usage!Idle, Calls
  <2>2. \A c \in Reader : call[c] = Usage!Idle
    BY <1>1 DEF Usage!Init
  <2>3. UsageTypes
    <3>1. call \in [Reader -> Calls]
      BY <1>1, <2>1 DEF Usage!Init
    <3>2. now \in 0..MaxTime
      BY <1>1 DEF Usage!Init, UsageConstants
    <3>3. QED
      BY <1>1, <3>1, <3>2 DEF Usage!Init, UsageTypes
  <2>4. QED
    BY <1>1, <2>1, <2>2, <2>3 DEF Usage!Init, UsageInv, Heals, Own, HasKey, Honest
<1>2. UsageInv /\ [Usage!Next]_(Usage!vars) => UsageInv'
  <2>1. CASE UNCHANGED Usage!vars
    BY <2>1 DEF UsageInv, UsageTypes, Heals, Own, HasKey, Honest, Usage!vars
  <2>2. QED
    BY <2>1, UsageStep
<1>3. ASSUME UsageInv PROVE Usage!TypeOK
    BY <1>3 DEF UsageInv, UsageTypes, Calls, Usage!TypeOK
<1>4. ASSUME UsageInv PROVE Usage!UsageStaysOwnAndHeals
    BY <1>4 DEF UsageInv, Heals, Honest, Usage!UsageStaysOwnAndHeals
<1>5. QED
    BY <1>1, <1>2, <1>3, <1>4, PTL DEF Usage!Spec
-----------------------------------------------------------------------------
(* Switches of Claude's own login *)

\* What the file and the item may hold besides a login is none.
SwitchConstants ==
    /\ WantOf \in [Switch -> Login] /\ HasSecurity \in BOOLEAN /\ MaxMoves \in Nat
    /\ None \notin Login /\ "bare" \notin Login /\ "corrupt" \notin Login

\* No two switches write one login.
OneSwitchPerLogin == \A s, t \in Switch : WantOf[s] = WantOf[t] => s = t

OnItem == {"readItem", "account", "add", "confirm", "confirmFile"}
OnFile == {"beforeFile", "preFile", "confirmFile", "rereadFile", "afterFile"}
Legs == {"written", "absent", "unavailable", "none"}

SwitchTypes == Active!TypeOK /\ (item # None => HasSecurity)

\* The item is touched only where there is one; what is mirrored is what Claude Code reads, or
\* somebody else has changed it; and Claude Code has been on the login that the last reads find.
SwitchOK(s) ==
    /\ switching[s] \in OnItem => HasSecurity
    /\ switching[s] \in OnFile => (saw[s] = "unavailable" <=> ~HasSecurity)
    /\ switching[s] = "mirror" => moved[s] \/ item \in Active!Absent \cup {WantOf[s]}
Reported(s) ==
    /\ switching[s] \in {"after", "afterFile"} /\ Active!Live = WantOf[s] => "report" \in lived[s]
    /\ switching[s] = "afterFile" /\ saw[s] # "unreadable" /\ credFile = WantOf[s] => "report" \in lived[s]
    /\ switching[s] = "switched" /\ saw[s] # "unreadable" => "report" \in lived[s]

SwitchInv ==
    /\ SwitchTypes /\ \A s \in Switch : SwitchOK(s)
    /\ OneSwitchPerLogin => \A s \in Switch : Reported(s)

\* What a step of a switch may do.
Effect(s) ==
    /\ UNCHANGED <<granted, moves>>
    /\ item' \in {item, WantOf[s]} /\ (item' # item => HasSecurity) /\ credFile' \in {credFile, WantOf[s]}
    /\ switching' \in [Switch -> Active!PC] /\ saw' \in [Switch -> Active!KeychainReadState]
    /\ leg' \in [Switch -> Legs] /\ retried' \in [Switch -> BOOLEAN]
    /\ \A t \in Switch \ {s} : switching'[t] = switching[t] /\ saw'[t] = saw[t] /\ leg'[t] = leg[t]
    /\ switching'[s] \in {"mirror", "reread", "rereadFile"} => leg'[s] # "none"
    /\ switching'[s] \in OnItem => HasSecurity
    /\ switching'[s] \in OnFile => (saw'[s] = "unavailable" <=> ~HasSecurity)
    /\ switching'[s] = "mirror" => item' \in Active!Absent \cup {WantOf[s]}
    /\ switching'[s] = "afterFile" => credFile' = credFile /\ (saw'[s] # "unreadable" => item' \in Active!Absent)
    /\ switching'[s] = "switched" /\ saw'[s] # "unreadable" /\ OneSwitchPerLogin => "report" \in lived[s]

LEMMA RecordTypes ==
    ASSUME SwitchTypes, Active!Record
    PROVE  lived' \in [Switch -> SUBSET {"write", "report"}] /\ moved' \in [Switch -> BOOLEAN]
<1>1. \A step : Active!Phase(step) \in SUBSET {"write", "report"}
    BY DEF Active!Phase
<1>2. lived \in [Switch -> SUBSET {"write", "report"}] /\ moved \in [Switch -> BOOLEAN]
    BY DEF SwitchTypes, Active!TypeOK
<1> DEFINE L(s) == (IF switching'[s] = "pre" /\ switching[s] # "pre" THEN {} ELSE lived[s])
                       \cup (IF Active!LiveOf(item', credFile') = WantOf[s] THEN Active!Phase(switching'[s]) ELSE {})
<1>3. \A s \in Switch : L(s) \in SUBSET {"write", "report"}
    BY <1>1, <1>2
<1>4. lived' = [s \in Switch |-> L(s)]
    BY DEF Active!Record
<1> HIDE DEF L
<1>5. lived' \in [Switch -> SUBSET {"write", "report"}]
    BY <1>3, <1>4
<1>6. moved' \in [Switch -> BOOLEAN]
    BY <1>2 DEF Active!Record
<1>7. QED
    BY <1>5, <1>6

LEMMA RecordIs ==
    ASSUME Active!Record, NEW t \in Switch
    PROVE  /\ switching'[t] \in {"after", "afterFile"} /\ Active!LiveOf(item', credFile') = WantOf[t]
                 => "report" \in lived'[t]
           /\ switching'[t] # "pre" => lived[t] \subseteq lived'[t]
           /\ switching'[t] = switching[t] => (moved[t] \/ item' # item => moved'[t])
<1>1. Active!Phase("after") = {"report"} /\ Active!Phase("afterFile") = {"report"}
    BY DEF Active!Phase, Active!Ended
<1>2. lived'[t] = (IF switching'[t] = "pre" /\ switching[t] # "pre" THEN {} ELSE lived[t])
                      \cup (IF Active!LiveOf(item', credFile') = WantOf[t] THEN Active!Phase(switching'[t]) ELSE {})
    BY DEF Active!Record
<1>3. moved'[t] = IF switching'[t] = "pre" /\ switching[t] # "pre" THEN FALSE
                  ELSE moved[t] \/ (item' # item /\ switching'[t] = switching[t])
    BY DEF Active!Record
<1>4. QED
    BY <1>1, <1>2, <1>3

LEMMA EffectKeeps ==
    ASSUME SwitchConstants, SwitchInv, NEW s \in Switch, Effect(s), Active!Record
    PROVE  SwitchInv'
<1>1. SwitchTypes'
  <2>1. WantOf[s] \in Login
    BY DEF SwitchConstants
  <2>2. item' \in Login \cup Active!Absent /\ credFile' \in Login \cup {None, "corrupt"}
    BY <2>1 DEF Effect, SwitchInv, SwitchTypes, Active!TypeOK
  <2>3. lived' \in [Switch -> SUBSET {"write", "report"}] /\ moved' \in [Switch -> BOOLEAN]
    BY RecordTypes DEF SwitchInv
  <2>4. \A t \in Switch : switching'[t] \in {"mirror", "reread", "rereadFile"} => leg'[t] # "none"
    BY DEF Effect, SwitchInv, SwitchTypes, Active!TypeOK
  <2>5. granted' \in BOOLEAN /\ moves' \in 0..MaxMoves /\ (item' # None => HasSecurity)
    BY DEF Effect, SwitchInv, SwitchTypes, Active!TypeOK
  <2>6. QED
    BY <2>2, <2>3, <2>4, <2>5 DEF Effect, SwitchTypes, Active!TypeOK, Legs
<1>2. ASSUME NEW t \in Switch PROVE SwitchOK(t)'
  <2>1. SwitchOK(t)
    BY DEF SwitchInv
  <2>2. CASE t = s
    BY <2>2 DEF Effect, SwitchOK
  <2>3. CASE t # s
    <3>1. switching'[t] = switching[t] /\ saw'[t] = saw[t]
      BY <2>3 DEF Effect
    <3>2. moved[t] \/ item' # item => moved'[t]
      BY <3>1, RecordIs DEF SwitchInv
    <3>3. QED
      BY <2>1, <3>1, <3>2 DEF SwitchOK
  <2>4. QED
    BY <2>2, <2>3
<1>3. ASSUME OneSwitchPerLogin, NEW t \in Switch PROVE Reported(t)'
  <2>1. Reported(t) /\ SwitchOK(t)
    BY <1>3 DEF SwitchInv
  <2>2. /\ switching'[t] \in {"after", "afterFile"} /\ Active!LiveOf(item', credFile') = WantOf[t]
              => "report" \in lived'[t]
        /\ switching'[t] # "pre" => lived[t] \subseteq lived'[t]
    BY RecordIs DEF SwitchInv
  <2>3. Active!Live' = Active!LiveOf(item', credFile')
    BY DEF Active!Live
  <2>4. ASSUME switching'[t] = "afterFile", saw'[t] # "unreadable", credFile' = WantOf[t]
        PROVE  "report" \in lived'[t]
    <3>1. CASE t = s
      <4>1. item' \in Active!Absent /\ credFile' # "corrupt"
        BY <2>4, <3>1 DEF Effect, SwitchConstants
      <4>2. Active!LiveOf(item', credFile') = WantOf[t]
        BY <2>4, <4>1 DEF Active!LiveOf
      <4>3. QED
        BY <2>2, <2>4, <4>2
    <3>2. CASE t # s
      <4>1. switching[t] = "afterFile" /\ saw[t] # "unreadable"
        BY <2>4, <3>2 DEF Effect
      <4>2. WantOf[s] # WantOf[t]
        BY <1>3, <3>2 DEF OneSwitchPerLogin
      <4>3. credFile = WantOf[t]
        BY <2>4, <4>2 DEF Effect
      <4>4. QED
        BY <2>1, <2>2, <2>4, <4>1, <4>3 DEF Reported
    <3>3. QED
      BY <3>1, <3>2
  <2>5. ASSUME switching'[t] = "switched", saw'[t] # "unreadable"
        PROVE  "report" \in lived'[t]
    <3>1. CASE t = s
      BY <1>3, <2>2, <2>5, <3>1 DEF Effect
    <3>2. CASE t # s
      BY <2>1, <2>2, <2>5, <3>2 DEF Effect, Reported
    <3>3. QED
      BY <3>1, <3>2
  <2>6. QED
    BY <2>2, <2>3, <2>4, <2>5 DEF Reported
<1>4. QED
    BY <1>1, <1>2, <1>3 DEF SwitchInv

LEMMA FailedIs ==
    ASSUME SwitchTypes, NEW s \in Switch, NEW kind, Active!Failed(s, kind)
    PROVE  \E step \in {"pre", "failed"} :
              /\ switching' = [switching EXCEPT ![s] = step] /\ leg' = [leg EXCEPT ![s] = "none"]
              /\ retried' \in [Switch -> BOOLEAN]
    BY DEF SwitchTypes, Active!TypeOK, Active!Failed, Active!Goto

\* Where a read leads.
LEMMA AfterReadIs ==
    ASSUME SwitchTypes, NEW s \in Switch, NEW r \in Active!Reads, NEW keychain \in Active!KeychainReadState,
           NEW backend \in {"keychain", "file", "none"}, NEW login, backend # "keychain" \/ HasSecurity,
           backend = "keychain" => login = item,
           keychain = "unavailable" => ~HasSecurity, keychain # "unavailable" => HasSecurity,
           Active!AfterRead(s, r, keychain, backend, login)
    PROVE  \E step \in {"pre", "readItem", "mirror", "after", "switched", "unverified", "failed"}, did \in Legs :
              /\ switching' = [switching EXCEPT ![s] = step] /\ leg' = [leg EXCEPT ![s] = did]
              /\ retried' \in [Switch -> BOOLEAN]
              /\ step = "mirror" => did # "none" /\ (HasSecurity => item = WantOf[s])
              /\ step = "readItem" => HasSecurity
              /\ step = "switched" => r = "after" /\ login = WantOf[s]
<1> USE DEF SwitchTypes, Active!TypeOK, Active!Proceed, Active!Goto, Legs
<1>1. CASE r = "before"
    BY <1>1 DEF Active!AfterRead
<1>2. CASE r = "pre"
  <2>1. CASE keychain = "unreadable"
    <3>1. Active!Failed(s, "keychain-unreadable")
      BY <1>2, <2>1 DEF Active!AfterRead, Active!AfterPre
    <3>2. QED
      BY <3>1, FailedIs
  <2>2. CASE keychain = "unavailable"
    BY <1>2, <2>2 DEF Active!AfterRead, Active!AfterPre
  <2>3. CASE keychain \notin {"unreadable", "unavailable"}
    BY <1>2, <2>3 DEF Active!AfterRead, Active!AfterPre
  <2>4. QED
    BY <2>1, <2>2, <2>3
<1>3. CASE r = "confirm"
  <2>1. CASE backend = "keychain" /\ login = WantOf[s]
    BY <1>3, <2>1 DEF Active!AfterRead
  <2>2. CASE ~(backend = "keychain" /\ login = WantOf[s])
    <3>1. Active!Failed(s, "write-failed")
      BY <1>3, <2>2 DEF Active!AfterRead
    <3>2. QED
      BY <3>1, FailedIs
  <2>3. QED
    BY <2>1, <2>2
<1>4. CASE r = "reread"
  <2>1. CASE Active!Landed(s, backend, login)
    BY <1>4, <2>1 DEF Active!AfterRead
  <2>2. CASE ~Active!Landed(s, backend, login)
    <3>1. Active!Failed(s, "write-failed")
      BY <1>4, <2>2 DEF Active!AfterRead
    <3>2. QED
      BY <3>1, FailedIs
  <2>3. QED
    BY <2>1, <2>2
<1>5. CASE r = "after"
    BY <1>5 DEF Active!AfterRead, Active!Verdict
<1>6. QED
    BY <1>1, <1>2, <1>3, <1>4, <1>5 DEF Active!Reads

\* KeychainRead tells whether there is a `security`, and an item it hands over is there.
LEMMA KeychainReadIs ==
    ASSUME SwitchConstants, SwitchTypes
    PROVE  /\ Active!KeychainRead \in Active!KeychainReadState
           /\ Active!KeychainRead = "unavailable" <=> ~HasSecurity
           /\ Active!KeychainRead = "ok" => item # None
           /\ Active!KeychainRead = "not-found" => item = None
    BY DEF SwitchConstants, Active!KeychainRead, Active!KeychainReadState

LEMMA ReadItemFirstEffect ==
    ASSUME SwitchConstants, SwitchInv, NEW s \in Switch, NEW r \in Active!Reads, Active!ReadItemFirst(s, r)
    PROVE  Effect(s)
<1>1. SwitchTypes /\ UNCHANGED <<item, credFile, granted, moves>> /\ switching[s] = r
    BY DEF SwitchInv, Active!ReadItemFirst
<1>2. CASE Active!KeychainRead = "ok" /\ item # "bare"
  <2>1. saw' = [saw EXCEPT ![s] = "ok"] /\ Active!AfterRead(s, r, "ok", "keychain", item) /\ HasSecurity
    BY <1>1, <1>2, KeychainReadIs DEF Active!ReadItemFirst
  <2>2. PICK step \in {"pre", "readItem", "mirror", "after", "switched", "unverified", "failed"}, did \in Legs :
              /\ switching' = [switching EXCEPT ![s] = step] /\ leg' = [leg EXCEPT ![s] = did]
              /\ retried' \in [Switch -> BOOLEAN]
              /\ step = "mirror" => did # "none" /\ (HasSecurity => item = WantOf[s])
              /\ step = "readItem" => HasSecurity
              /\ step = "switched" => r = "after" /\ item = WantOf[s]
    BY <1>1, <2>1, AfterReadIs DEF Active!KeychainReadState
  <2>3. item \notin Active!Absent
    BY <1>1, <1>2, KeychainReadIs DEF Active!Absent
  <2>4. step = "switched" /\ OneSwitchPerLogin => "report" \in lived[s]
    BY <1>1, <2>2, <2>3 DEF SwitchInv, Reported, Active!Live, Active!LiveOf
  <2>5. QED
    BY <1>1, <2>1, <2>2, <2>4
       DEF Effect, OnItem, OnFile, SwitchTypes, Active!TypeOK, Active!PC, Active!Ended, Active!Reads,
           Active!KeychainReadState, Legs
<1>3. CASE ~(Active!KeychainRead = "ok" /\ item # "bare")
  <2> DEFINE k == IF Active!KeychainRead = "ok" THEN "not-found" ELSE Active!KeychainRead
  <2>1. /\ saw' = [saw EXCEPT ![s] = k] /\ switching' = [switching EXCEPT ![s] = Active!FileStep(r)]
        /\ UNCHANGED <<leg, retried>>
    BY <1>3 DEF Active!ReadItemFirst, Active!Goto
  <2>2. /\ k \in Active!KeychainReadState /\ (k = "unavailable" <=> ~HasSecurity)
        /\ k # "unreadable" => item \in Active!Absent
    <3>1. ~HasSecurity => item = None
      BY <1>1 DEF SwitchTypes
    <3>2. k \in Active!KeychainReadState /\ (k = "unavailable" <=> ~HasSecurity)
      BY <1>1, KeychainReadIs DEF Active!KeychainReadState
    <3>3. Active!KeychainRead \in Active!KeychainReadState
      BY <1>1, KeychainReadIs
    <3>4. k # "unreadable" => item \in Active!Absent
      BY <1>1, <1>3, <3>1, <3>3, KeychainReadIs DEF Active!Absent, Active!KeychainReadState
    <3>5. QED
      BY <3>2, <3>4
  <2> HIDE DEF k
  <2>3. /\ Active!FileStep(r) \in OnFile /\ (Active!FileStep(r) = "afterFile" <=> r = "after")
        /\ (Active!FileStep(r) = "confirmFile" <=> r = "confirm")
        /\ (Active!FileStep(r) = "rereadFile" <=> r = "reread")
    BY DEF Active!FileStep, Active!Reads, OnFile
  <2>4. OnFile \subseteq Active!PC
    BY DEF OnFile, Active!PC, Active!FileStep, Active!Reads
  <2> DEFINE step == Active!FileStep(r)
  <2> HIDE DEF step
  <2>5. step \in OnFile /\ step \in Active!PC /\ switching' = [switching EXCEPT ![s] = step]
        /\ (step = "confirmFile" => switching[s] = "confirm") /\ (step = "rereadFile" => switching[s] = "reread")
    BY <1>1, <2>1, <2>3, <2>4 DEF step
  <2>6. SwitchOK(s)
    BY DEF SwitchInv
  <2>7. QED
    BY <1>1, <2>1, <2>2, <2>5, <2>6
       DEF Effect, OnItem, OnFile, SwitchOK, SwitchTypes, Active!TypeOK, Legs
<1>4. QED
    BY <1>2, <1>3

LEMMA ReadFileNextEffect ==
    ASSUME SwitchConstants, SwitchInv, NEW s \in Switch, NEW r \in Active!Reads, Active!ReadFileNext(s, r)
    PROVE  Effect(s)
<1>1. /\ SwitchTypes /\ SwitchOK(s) /\ UNCHANGED <<item, credFile, granted, moves, saw>>
      /\ switching[s] = Active!FileStep(r)
    BY DEF SwitchInv, Active!ReadFileNext
<1>2. switching[s] \in OnFile /\ (r = "after" => switching[s] = "afterFile")
    BY <1>1 DEF Active!FileStep, Active!Reads, OnFile
<1>3. saw[s] = "unavailable" <=> ~HasSecurity
    BY <1>1, <1>2 DEF SwitchOK
<1>4. saw[s] \in Active!KeychainReadState
    BY <1>1 DEF SwitchTypes, Active!TypeOK
<1>5. PICK backend \in {"file", "none"}, login \in {credFile, None} :
          Active!AfterRead(s, r, saw[s], backend, login) /\ (login = credFile \/ login = None)
    BY DEF Active!ReadFileNext
<1>6. PICK step \in {"pre", "readItem", "mirror", "after", "switched", "unverified", "failed"}, did \in Legs :
            /\ switching' = [switching EXCEPT ![s] = step] /\ leg' = [leg EXCEPT ![s] = did]
            /\ retried' \in [Switch -> BOOLEAN]
            /\ step = "mirror" => did # "none" /\ (HasSecurity => item = WantOf[s])
            /\ step = "readItem" => HasSecurity
            /\ step = "switched" => r = "after" /\ login = WantOf[s]
    BY <1>1, <1>3, <1>4, <1>5, AfterReadIs
<1>7. step = "mirror" => item \in Active!Absent \cup {WantOf[s]}
    BY <1>1, <1>6 DEF SwitchTypes, Active!Absent
<1>8. step = "switched" => credFile = WantOf[s]
    BY <1>5, <1>6 DEF SwitchConstants
<1>9. step = "switched" /\ saw[s] # "unreadable" /\ OneSwitchPerLogin => "report" \in lived[s]
    BY <1>2, <1>6, <1>8 DEF SwitchInv, Reported
<1>10. QED
    BY <1>1, <1>6, <1>7, <1>9
       DEF Effect, OnItem, OnFile, SwitchTypes, Active!TypeOK, Active!PC, Active!Ended, Active!Reads, Legs

LEMMA SwitchEffect ==
    ASSUME SwitchConstants, SwitchInv, NEW s \in Switch, Active!SwitchStep(s)
    PROVE  Effect(s)
<1>1. SwitchTypes /\ SwitchOK(s) /\ WantOf[s] \in Login /\ WantOf[s] # None
    BY DEF SwitchInv, SwitchConstants
<1>2. {"before", "account", "add", "mirror", "confirm", "reread", "pre", "failed"} \subseteq Active!PC
    BY DEF Active!PC, Active!Reads, Active!Ended
<1> USE DEF Effect, OnItem, OnFile, SwitchTypes, SwitchOK, Active!TypeOK, Active!Goto, Active!Proceed, Legs
<1>3. CASE Active!Begin(s)
    BY <1>1, <1>2, <1>3 DEF Active!Begin
<1>4. CASE Active!ReadItem(s)
  <2>1. CASE Active!KeychainRead = "unreadable"
    <3>1. Active!Failed(s, "keychain-unreadable") /\ UNCHANGED <<item, credFile, granted, saw, moves>>
      BY <1>4, <2>1 DEF Active!ReadItem
    <3>2. QED
      BY <1>1, <1>2, <3>1, FailedIs
  <2>2. CASE Active!KeychainRead # "unreadable"
    BY <1>1, <1>2, <1>4, <2>2 DEF Active!ReadItem
  <2>3. QED
    BY <2>1, <2>2
<1>5. CASE Active!ItemAccount(s)
  <2>1. CASE item # None
    BY <1>1, <1>2, <1>5, <2>1 DEF Active!ItemAccount
  <2>2. CASE item = None /\ saw[s] = "ok"
    <3>1. Active!Failed(s, "keychain-missing") /\ UNCHANGED <<item, credFile, granted, saw, moves>>
      BY <1>5, <2>2 DEF Active!ItemAccount
    <3>2. QED
      BY <1>1, <1>2, <3>1, FailedIs
  <2>3. CASE item = None /\ saw[s] # "ok"
    BY <1>1, <1>2, <1>5, <2>3 DEF Active!ItemAccount, Active!Absent
  <2>4. QED
    BY <2>1, <2>2, <2>3
<1>6. CASE Active!Add(s)
  <2>1. CASE granted /\ item' = WantOf[s] /\ Active!Goto(s, "confirm") /\ UNCHANGED <<leg, retried>>
    BY <1>1, <1>2, <1>6, <2>1 DEF Active!Add
  <2>2. CASE Active!Failed(s, "write-failed") /\ UNCHANGED item
    <3>1. UNCHANGED <<item, credFile, granted, saw, moves>>
      BY <1>6, <2>2 DEF Active!Add
    <3>2. QED
      BY <1>1, <1>2, <2>2, <3>1, FailedIs
  <2>3. QED
    BY <1>6, <2>1, <2>2 DEF Active!Add
<1>7. CASE Active!Mirror(s)
    BY <1>1, <1>2, <1>7 DEF Active!Mirror
<1>8. CASE Active!MirrorFails(s)
  <2>1. CASE leg[s] = "written"
    BY <1>1, <1>2, <1>8, <2>1 DEF Active!MirrorFails
  <2>2. CASE leg[s] # "written"
    <3>1. Active!Failed(s, "write-failed") /\ UNCHANGED <<item, credFile, granted, saw, moves>>
      BY <1>8, <2>2 DEF Active!MirrorFails
    <3>2. QED
      BY <1>1, <1>2, <3>1, FailedIs
  <2>3. QED
    BY <2>1, <2>2
<1>9. QED
    BY <1>3, <1>4, <1>5, <1>6, <1>7, <1>8, ReadItemFirstEffect, ReadFileNextEffect DEF Active!SwitchStep

\* Claude Code, its user and the Keychain leave the switches where they are.
LEMMA WorldKeeps ==
    ASSUME SwitchConstants, SwitchInv, Active!Record, UNCHANGED <<switching, saw, leg, retried>>,
           \/ \E l \in Login : Active!ClaudeStores(l)
           \/ Active!ClaudeLogsOut \/ Active!AccessChanges
    PROVE  SwitchInv'
<1>1. /\ item' \in Login \cup Active!Absent /\ credFile' \in Login \cup {None, "corrupt"}
      /\ granted' \in BOOLEAN /\ moves' \in 0..MaxMoves /\ (item' # None => HasSecurity)
      /\ credFile' # credFile => ~HasSecurity
  <2>1. moves' = moves + 1 /\ moves < MaxMoves
    BY DEF Active!ClaudeStores, Active!ClaudeLogsOut, Active!AccessChanges, Active!Move
  <2>2. moves' \in 0..MaxMoves
    BY <2>1 DEF SwitchInv, SwitchTypes, Active!TypeOK, SwitchConstants
  <2>3. QED
    BY <2>2 DEF SwitchInv, SwitchTypes, Active!TypeOK, SwitchConstants, Active!Absent,
                Active!ClaudeStores, Active!ClaudeLogsOut, Active!AccessChanges
<1>2. SwitchTypes'
  <2>1. lived' \in [Switch -> SUBSET {"write", "report"}] /\ moved' \in [Switch -> BOOLEAN]
    BY RecordTypes DEF SwitchInv
  <2>2. QED
    BY <1>1, <2>1 DEF SwitchInv, SwitchTypes, Active!TypeOK
<1>3. ASSUME NEW t \in Switch PROVE SwitchOK(t)' /\ (Reported(t) => Reported(t)')
  <2>1. /\ moved[t] \/ item' # item => moved'[t]
        /\ switching'[t] \in {"after", "afterFile"} /\ Active!LiveOf(item', credFile') = WantOf[t]
              => "report" \in lived'[t]
        /\ switching'[t] # "pre" => lived[t] \subseteq lived'[t]
    BY RecordIs DEF SwitchInv
  <2>2. SwitchOK(t)'
    BY <2>1 DEF SwitchInv, SwitchOK
  <2>3. Active!Live' = Active!LiveOf(item', credFile')
    BY DEF Active!Live
  <2>4. ~HasSecurity /\ credFile' = WantOf[t] => Active!LiveOf(item', credFile') = WantOf[t]
    BY <1>1 DEF Active!LiveOf, Active!Absent, SwitchConstants
  <2>5. Reported(t) => Reported(t)'
    BY <1>1, <2>1, <2>3, <2>4 DEF Reported
  <2>6. QED
    BY <2>2, <2>5
<1>4. QED
    BY <1>2, <1>3 DEF SwitchInv

LEMMA SwitchInvariant ==
    ASSUME SwitchConstants
    PROVE  Active!Spec => []SwitchInv
<1>1. Active!Init => SwitchInv
    BY DEF SwitchConstants, SwitchInv, SwitchTypes, SwitchOK, Reported, OnItem, OnFile, Active!Init, Active!TypeOK,
           Active!PC, Active!Reads, Active!KeychainReadState
<1>2. ASSUME SwitchInv, [Active!Next]_(Active!vars) PROVE SwitchInv'
  <2>1. CASE UNCHANGED Active!vars
    BY <1>2, <2>1 DEF SwitchInv, SwitchTypes, SwitchOK, Reported, Active!TypeOK, Active!Live, Active!vars
  <2>2. ASSUME NEW s \in Switch, Active!SwitchStep(s), Active!Record PROVE SwitchInv'
    BY <1>2, <2>2, SwitchEffect, EffectKeeps
  <2>3. ASSUME \/ \E l \in Login : Active!ClaudeStores(l)
               \/ Active!ClaudeLogsOut \/ Active!AccessChanges,
               Active!Record
        PROVE  SwitchInv'
    <3>1. UNCHANGED <<switching, saw, leg, retried>>
      BY <2>3 DEF Active!ClaudeStores, Active!ClaudeLogsOut, Active!AccessChanges
    <3>2. QED
      BY <1>2, <2>3, <3>1, WorldKeeps
  <2>4. QED
    BY <1>2, <2>1, <2>2, <2>3 DEF Active!Next
<1>3. QED
    BY <1>1, <1>2, PTL DEF Active!Spec

(* However any number of switches, Claude Code, its user and the Keychain interleave, the credentials
   file is never given a login while Claude Code reads another one from a Keychain item that nobody
   else touched since the switch's attempt began (writeActiveReport, activeStore.ts:6-11).       *)
THEOREM FileFollowsItem ==
    ASSUME SwitchConstants
    PROVE  Active!Spec => [](Active!TypeOK) /\ [][Active!MirrorsOnlyItsOwn]_(Active!vars)
<1>1. SwitchInv => Active!TypeOK
    BY DEF SwitchInv, SwitchTypes
<1>2. SwitchInv => Active!MirrorsOnlyItsOwn
    BY DEF SwitchInv, SwitchOK, Active!MirrorsOnlyItsOwn
<1>3. QED
    BY <1>1, <1>2, SwitchInvariant, PTL

(* A switch that is reported has taken effect, for any number of switches to different logins: Claude
   Code was on the new login at some moment since the write was reported, unless the last read could
   not see the Keychain (switchSubscriptionAccount, activateAccount).                             *)
THEOREM SwitchedIsSwitched ==
    ASSUME SwitchConstants, OneSwitchPerLogin
    PROVE  Active!Spec => []Active!SwitchTookEffect
<1>1. SwitchInv => Active!SwitchTookEffect
    BY DEF SwitchInv, Reported, Active!SwitchTookEffect
<1>2. QED
    BY <1>1, SwitchInvariant, PTL
-----------------------------------------------------------------------------
(* The routing of a request *)

\* The accounts are told apart, subscriptions from keys, and from what a profile has typed in.
RoutingConstants ==
    /\ IsFiniteSet(Vault) /\ None \notin Vault \cup Key /\ Vault \cap Key = {} /\ MaxEdits \in Nat
    /\ \A p \in Profiles : p.inline \notin Vault

\* The account that the route or the profile of the request names.
Named ==
    LET p == request.profile
        r == request.route
    IN IF r # None /\ r.kind = "providerAccount" THEN r.key
       ELSE IF r # None /\ r.kind = "subscription" /\ r.sub # None THEN r.sub
       ELSE IF p.base = Routing!Subscription THEN p.sub ELSE p.key

RoutingTypes ==
    /\ store \in [Name -> Profiles \cup {None}] /\ subs \in Seq(Vault) /\ Routing!ToSet(subs) \subseteq Vault
    /\ keys \subseteq Key /\ {active, live} \subseteq Vault \cup {None} /\ edits \in 0..MaxEdits
    /\ launch = [pc |-> launch.pc, name |-> launch.name, profile |-> launch.profile]
    /\ launch.pc \in {"idle", "chosen", "spawn"} /\ launch.profile \in Profiles \cup {None}
    /\ launch.pc # "idle" => launch.name \in Name /\ launch.profile \in Profiles
    /\ session # None => session.name \in Name
    /\ request = [pc |-> request.pc, name |-> request.name, model |-> request.model, profile |-> request.profile,
                  route |-> request.route, pin |-> request.pin, found |-> request.found, via |-> request.via,
                  begun |-> request.begun]
    /\ request.pc \in {"idle", "pick", "resolve", "candidates", "serve"}

\* What a request found when it came in, all that may serve it, only shrinks.
Within == request.pc # "idle" => Routing!ToSet(subs) \subseteq request.begun.vault /\ keys \subseteq request.begun.keys

\* The named account was there; a request that goes to the vault is served by the vault.
Answering ==
    /\ request.pc # "idle" => request.name \in Name
    /\ request.pc \in {"resolve", "candidates", "serve"} => request.profile \in Profiles /\ request.profile # None
    /\ request.pc # "serve" => request.via = None
    /\ request.pc = "candidates" => Named \in {None} \cup (Vault \cap request.begun.vault)
    /\ request.pc = "serve" =>
          \/ /\ Named \in {None} \cup (Vault \cap request.begun.vault)
             /\ request.via \in {None} \cup (Vault \cap request.begun.vault)
          \/ Named \in Key \cap request.begun.keys /\ request.via # None /\ request.via \notin Vault

RoutingInv == RoutingTypes /\ Within /\ Answering

\* A finite set, as the sequence of its elements.
LEMMA SeqIs ==
    ASSUME NEW S, IsFiniteSet(S)
    PROVE  Routing!SetToSeq(S) \in Seq(S)
<1>1. Cardinality(S) \in Nat /\ ExistsBijection(1..Cardinality(S), S)
    BY FS_CardinalityType
<1>2. \E f \in [1..Cardinality(S) -> S] : Routing!IsInjective(f)
    BY <1>1 DEF ExistsBijection, Bijection, Injection, Routing!IsInjective, IsInjective
<1>3. Routing!Cardinality(S) = Cardinality(S)
    BY DEF Routing!Cardinality, Cardinality
<1>4. Routing!SetToSeq(S) \in [1..Cardinality(S) -> S]
    BY <1>2, <1>3 DEF Routing!SetToSeq
<1>5. QED
    BY <1>1, <1>4

\* What is removed at an index leaves nothing new behind.
LEMMA Removed ==
    ASSUME NEW S, NEW s \in Seq(S), NEW i \in DOMAIN s
    PROVE  Routing!RemoveAt(s, i) \in Seq(S) /\ Routing!ToSet(Routing!RemoveAt(s, i)) \subseteq Routing!ToSet(s)
<1> DEFINE left == SubSeq(s, 1, i - 1)
           right == SubSeq(s, i + 1, Len(s))
<1>1. i \in 1..Len(s) /\ Len(s) \in Nat
    OBVIOUS
<1>2. left \in Seq(S) /\ Len(left) = i - 1 /\ \A j \in 1..(i - 1) : left[j] = s[j]
    BY <1>1
<1>3. right \in Seq(S) /\ Len(right) = Len(s) - i /\ \A j \in 1..(Len(s) - i) : right[j] = s[i + j]
    BY <1>1
<1> HIDE DEF left, right
<1>4. left \o right \in Seq(S) /\ Len(left \o right) = Len(s) - 1
    BY <1>1, <1>2, <1>3
<1>5. ASSUME NEW j \in 1..(Len(s) - 1)
      PROVE  \E k \in 1..Len(s) : (left \o right)[j] = s[k]
  <2>1. CASE j <= i - 1
    <3>1. (left \o right)[j] = left[j] /\ j \in 1..(i - 1) /\ j \in 1..Len(s)
      BY <1>1, <1>2, <1>3, <2>1
    <3>2. (left \o right)[j] = s[j]
      BY <3>1, <1>2
    <3>3. QED
      BY <3>1, <3>2
  <2>2. CASE j > i - 1
    <3>1. j - (i - 1) \in 1..(Len(s) - i) /\ j + 1 \in 1..Len(s)
      <4>1. j \in Int /\ i \in Int /\ Len(s) \in Int /\ 1 <= j /\ j <= Len(s) - 1
        BY <1>1
      <4>2. QED
        BY ONLY <4>1, <2>2
    <3>2. (left \o right)[j] = right[j - (i - 1)]
      <4>1. Len(left) = i - 1 /\ Len(left) \in Int /\ Len(right) \in Int /\ j \in 1..(Len(left) + Len(right))
        BY <1>1, <1>2, <1>3
      <4>2. left \in Seq(S) /\ right \in Seq(S) /\ j > Len(left)
        BY <1>2, <1>3, <2>2
      <4>3. (left \o right)[j] = right[j - Len(left)]
        BY ONLY <4>1, <4>2
      <4>4. QED
        BY <4>1, <4>3
    <3>3. right[j - (i - 1)] = s[i + (j - (i - 1))]
      BY <3>1, <1>3
    <3>4. i + (j - (i - 1)) = j + 1
      BY <1>1
    <3>5. QED
      BY <3>1, <3>3, <3>4, <3>2
  <2>3. j \in Int /\ i \in Int
    BY <1>1
  <2>4. j <= i - 1 \/ j > i - 1
    BY <2>3
  <2>5. QED
    BY ONLY <2>1, <2>2, <2>4
<1>6. Routing!RemoveAt(s, i) = left \o right
    BY DEF Routing!RemoveAt, left, right
<1>7. ASSUME NEW x \in Routing!ToSet(left \o right) PROVE x \in Routing!ToSet(s)
  <2>1. PICK j \in 1..(Len(s) - 1) : x = (left \o right)[j]
    BY <1>4 DEF Routing!ToSet
  <2>2. PICK k \in 1..Len(s) : x = s[k]
    BY <1>5, <2>1
  <2>3. QED
    BY <2>2 DEF Routing!ToSet
<1>8. QED
    BY <1>4, <1>6, <1>7

\* A profile is edited, an account is removed; the launch and the request stay where they are.
LEMMA EditKeeps ==
    ASSUME RoutingInv, store' \in [Name -> Profiles \cup {None}], subs' \in Seq(Vault),
           Routing!ToSet(subs') \subseteq Routing!ToSet(subs), keys' \subseteq keys, edits' \in 0..MaxEdits,
           UNCHANGED <<active, live, launch, session, request>>
    PROVE  RoutingInv'
<1>1. RoutingTypes'
    BY DEF RoutingInv, RoutingTypes, Routing!ToSet
<1>2. Within' /\ Answering'
    BY DEF RoutingInv, Within, Answering, Named, Routing!ToSet, Routing!Subscription
<1>3. QED
    BY <1>1, <1>2 DEF RoutingInv

\* The launch goes on; the stores and the request stay as they are.
LEMMA LaunchKeeps ==
    ASSUME RoutingInv, UNCHANGED <<store, subs, keys, request, edits>>, {active', live'} \subseteq Vault \cup {None},
           launch' = [pc |-> launch'.pc, name |-> launch'.name, profile |-> launch'.profile],
           launch'.pc \in {"idle", "chosen", "spawn"}, launch'.profile \in Profiles \cup {None},
           launch'.pc # "idle" => launch'.name \in Name /\ launch'.profile \in Profiles,
           session' # None => session'.name \in Name
    PROVE  RoutingInv'
<1>1. RoutingTypes'
    BY DEF RoutingInv, RoutingTypes, Routing!ToSet
<1>2. Within' /\ Answering'
    BY DEF RoutingInv, Within, Answering, Named, Routing!ToSet, Routing!Subscription
<1>3. QED
    BY <1>1, <1>2 DEF RoutingInv

\* The request goes on, or is over.
LEMMA RequestKeeps ==
    ASSUME RoutingInv, UNCHANGED <<store, subs, keys, active, live, launch, session, edits>>,
           request' = [pc |-> request'.pc, name |-> request'.name, model |-> request'.model,
                       profile |-> request'.profile, route |-> request'.route, pin |-> request'.pin,
                       found |-> request'.found, via |-> request'.via, begun |-> request'.begun],
           request'.pc \in {"idle", "pick", "resolve", "candidates", "serve"},
           Within', Answering'
    PROVE  RoutingInv'
    BY DEF RoutingInv, RoutingTypes, Routing!ToSet

LEMMA OverKeeps ==
    ASSUME RoutingInv, UNCHANGED <<store, subs, keys, active, live, launch, session, edits>>, Routing!Over
    PROVE  RoutingInv'
<1>1. request' = Routing!NoRequest
    BY DEF Routing!Over
<1>2. Within' /\ Answering'
    BY <1>1 DEF Routing!NoRequest, Within, Answering
<1>3. QED
    BY <1>1, <1>2, RequestKeeps DEF Routing!NoRequest

LEMMA EditSteps ==
    ASSUME RoutingConstants, RoutingInv,
           \/ \E n \in Name : Routing!DeleteProfile(n) \/ \E p \in Profiles : Routing!Save(n, p)
           \/ \E a \in Vault : Routing!RemoveSubscription(a)
           \/ \E k \in Key : Routing!RemoveKey(k)
    PROVE  RoutingInv'
<1>1. edits' \in 0..MaxEdits
  <2>1. edits' = edits + 1 /\ edits < MaxEdits
    BY DEF Routing!DeleteProfile, Routing!Save, Routing!RemoveSubscription, Routing!RemoveKey, Routing!Edit
  <2>2. QED
    BY <2>1 DEF RoutingConstants, RoutingInv, RoutingTypes
<1>2. store \in [Name -> Profiles \cup {None}] /\ subs \in Seq(Vault)
    BY DEF RoutingInv, RoutingTypes
<1>3. ASSUME NEW n \in Name, Routing!DeleteProfile(n) \/ \E p \in Profiles : Routing!Save(n, p)
      PROVE  RoutingInv'
  <2>1. /\ store' \in [Name -> Profiles \cup {None}]
        /\ UNCHANGED <<subs, keys, active, live, launch, session, request>>
    BY <1>2, <1>3 DEF Routing!DeleteProfile, Routing!Save
  <2>2. QED
    BY <1>1, <1>2, <2>1, EditKeeps
<1>4. ASSUME NEW a \in Vault, Routing!RemoveSubscription(a)
      PROVE  RoutingInv'
  <2>1. PICK i \in DOMAIN subs : subs' = Routing!RemoveAt(subs, i)
    BY <1>4 DEF Routing!RemoveSubscription
  <2>2. subs' \in Seq(Vault) /\ Routing!ToSet(subs') \subseteq Routing!ToSet(subs)
    BY <1>2, <2>1, Removed
  <2>3. UNCHANGED <<store, keys, active, live, launch, session, request>>
    BY <1>4 DEF Routing!RemoveSubscription
  <2>4. QED
    BY <1>1, <1>2, <2>2, <2>3, EditKeeps
<1>5. ASSUME NEW k \in Key, Routing!RemoveKey(k)
      PROVE  RoutingInv'
  <2>1. keys' \subseteq keys /\ UNCHANGED <<store, subs, active, live, launch, session, request>>
    BY <1>5 DEF Routing!RemoveKey
  <2>2. QED
    BY <1>1, <1>2, <2>1, EditKeeps
<1>6. QED
    BY <1>3, <1>4, <1>5

LEMMA LaunchSteps ==
    ASSUME RoutingConstants, RoutingInv,
           (\E n \in Name : Routing!Resolve(n)) \/ Routing!Choose \/ Routing!Spawn
    PROVE  RoutingInv'
<1>1. RoutingTypes /\ Routing!ToSet(subs) \subseteq Vault
    BY DEF RoutingInv, RoutingTypes
<1>2. /\ launch = [pc |-> launch.pc, name |-> launch.name, profile |-> launch.profile]
      /\ launch.pc # "idle" => launch.name \in Name /\ launch.profile \in Profiles
      /\ launch.profile \in Profiles \cup {None} /\ {active, live} \subseteq Vault \cup {None}
      /\ session # None => session.name \in Name
    BY <1>1 DEF RoutingTypes
<1>3. ASSUME NEW n \in Name, Routing!Resolve(n)
      PROVE  RoutingInv'
  <2>1. /\ launch' = [pc |-> "chosen", name |-> n, profile |-> store[n]] /\ store[n] \in Profiles
        /\ UNCHANGED <<store, subs, keys, active, live, session, request, edits>>
    BY <1>1, <1>3 DEF Routing!Resolve, RoutingTypes
  <2>2. QED
    BY <1>2, <2>1, LaunchKeeps
<1>4. CASE Routing!Choose
  <2>1. launch.pc = "chosen" /\ UNCHANGED <<store, subs, keys, request, edits, session>>
    BY <1>4 DEF Routing!Choose, Routing!AbortLaunch
  <2>2. {active', live'} \subseteq Vault \cup {None}
    BY <1>1, <1>2, <1>4 DEF Routing!Choose, Routing!AbortLaunch
  <2>3. launch' \in {[launch EXCEPT !.pc = "spawn"], Routing!NoLaunch}
    BY <1>4 DEF Routing!Choose, Routing!AbortLaunch
  <2>4. /\ launch' = [pc |-> launch'.pc, name |-> launch'.name, profile |-> launch'.profile]
        /\ launch'.pc \in {"idle", "spawn"} /\ launch'.profile \in Profiles \cup {None}
        /\ launch'.pc # "idle" => launch'.name \in Name /\ launch'.profile \in Profiles
    <3>1. CASE launch' = Routing!NoLaunch
      BY <3>1 DEF Routing!NoLaunch
    <3>2. CASE launch' = [launch EXCEPT !.pc = "spawn"]
      <4>1. launch' = [pc |-> "spawn", name |-> launch.name, profile |-> launch.profile]
        BY <1>2, <3>2
      <4>2. QED
        BY <1>2, <2>1, <4>1
    <3>3. QED
      BY <2>3, <3>1, <3>2
  <2>5. QED
    BY <1>2, <2>1, <2>2, <2>4, LaunchKeeps
<1>5. CASE Routing!Spawn
  <2>1. /\ launch.pc = "spawn" /\ UNCHANGED <<store, subs, keys, active, live, request, edits>>
        /\ launch' = Routing!NoLaunch
    BY <1>5 DEF Routing!Spawn, Routing!AbortLaunch
  <2>2. session' = session \/ session'.name = launch.name
    BY <1>5 DEF Routing!Spawn, Routing!AbortLaunch
  <2>3. launch' = [pc |-> "idle", name |-> None, profile |-> None]
    BY <2>1 DEF Routing!NoLaunch
  <2>4. QED
    BY <1>2, <2>1, <2>2, <2>3, LaunchKeeps
<1>6. QED
    BY <1>3, <1>4, <1>5

LEMMA AskKeeps ==
    ASSUME RoutingInv, NEW m, Routing!Ask(m)
    PROVE  RoutingInv'
<1>1. /\ request' = [pc |-> "pick", name |-> session.name, model |-> m, profile |-> None, route |-> None,
                     pin |-> None, found |-> None, via |-> None,
                     begun |-> [vault |-> Routing!ToSet(subs), keys |-> keys]]
      /\ session # None /\ UNCHANGED <<store, subs, keys, active, live, launch, session, edits>>
    BY DEF Routing!Ask, Routing!NoRequest
<1>2. session.name \in Name
    BY <1>1 DEF RoutingInv, RoutingTypes
<1>3. Within'
    BY <1>1 DEF Within, Routing!ToSet
<1>4. Answering'
    BY <1>1, <1>2 DEF Answering
<1>5. QED
    BY <1>1, <1>3, <1>4, RequestKeeps

LEMMA PickKeeps ==
    ASSUME RoutingInv, Routing!Pick
    PROVE  RoutingInv'
<1>1. request.pc = "pick" /\ UNCHANGED <<store, subs, keys, active, live, launch, session, edits>>
    BY DEF Routing!Pick
<1>2. CASE store[request.name] = None
    BY <1>1, <1>2, OverKeeps DEF Routing!Pick, Routing!Unknown
<1>3. CASE store[request.name] # None
  <2> DEFINE route == Routing!RouteFor(store[request.name], request.model)
  <2>1. request' = [request EXCEPT !.pc = "resolve", !.profile = store[request.name], !.route = route]
    BY <1>3 DEF Routing!Pick
  <2> HIDE DEF route
  <2>2. request' = [pc |-> "resolve", name |-> request.name, model |-> request.model,
                    profile |-> store[request.name], route |-> route, pin |-> request.pin,
                    found |-> request.found, via |-> request.via, begun |-> request.begun]
    BY <2>1 DEF RoutingInv, RoutingTypes
  <2>3. request.name \in Name /\ store[request.name] \in Profiles /\ request.via = None
    BY <1>1, <1>3 DEF RoutingInv, RoutingTypes, Answering
  <2>4. Within'
    BY <1>1, <2>2 DEF RoutingInv, Within, Routing!ToSet
  <2>5. Answering'
    BY <1>3, <2>2, <2>3 DEF Answering
  <2>6. QED
    BY <1>1, <2>2, <2>4, <2>5, RequestKeeps
<1>4. QED
    BY <1>2, <1>3

\* The request is bound to the vault, or to the key of an account.
LEMMA ToVaultKeeps ==
    ASSUME RoutingConstants, RoutingInv, request.pc = "resolve", Routing!ToVault(Named),
           UNCHANGED <<store, subs, keys, active, live, launch, session, edits>>
    PROVE  RoutingInv'
<1>1. CASE Named # None /\ Named \notin Routing!ToSet(subs)
    BY <1>1, OverKeeps DEF Routing!ToVault
<1>2. CASE ~(Named # None /\ Named \notin Routing!ToSet(subs))
  <2> DEFINE named == Named
  <2>1. request' = [request EXCEPT !.pc = "candidates", !.pin = named]
    BY <1>2 DEF Routing!ToVault
  <2>2. named \in {None} \cup (Vault \cap request.begun.vault)
    BY <1>2 DEF RoutingInv, RoutingTypes, Within
  <2> HIDE DEF named
  <2>3. request' = [pc |-> "candidates", name |-> request.name, model |-> request.model,
                    profile |-> request.profile, route |-> request.route, pin |-> named,
                    found |-> request.found, via |-> request.via, begun |-> request.begun]
    BY <2>1 DEF RoutingInv, RoutingTypes
  <2>4. Named' = Named
    BY <2>3 DEF Named, Routing!Subscription
  <2>5. Within'
    BY <2>3 DEF RoutingInv, Within, Routing!ToSet
  <2>6. Answering'
    BY <2>2, <2>3, <2>4 DEF RoutingInv, Answering, named
  <2>7. QED
    BY <2>3, <2>5, <2>6, RequestKeeps
<1>3. QED
    BY <1>1, <1>2

LEMMA ToKeyKeeps ==
    ASSUME RoutingConstants, RoutingInv, request.pc = "resolve", Routing!ToKey(Named),
           UNCHANGED <<store, subs, keys, active, live, launch, session, edits>>
    PROVE  RoutingInv'
<1>1. CASE Named = None \/ Named \notin keys
    BY <1>1, OverKeeps DEF Routing!ToKey
<1>2. CASE Named # None /\ Named \in keys
  <2> DEFINE named == Named
             via == IF request.profile.inline # None THEN request.profile.inline ELSE named
  <2>1. request' = [request EXCEPT !.pc = "serve", !.found = <<named>>, !.via = via]
    BY <1>2 DEF Routing!ToKey
  <2>2. named \in Key \cap request.begun.keys
    BY <1>2 DEF RoutingInv, RoutingTypes, Within
  <2>3. via # None /\ via \notin Vault
    BY <1>2, <2>2 DEF RoutingConstants, RoutingInv, Answering
  <2> HIDE DEF named, via
  <2>4. request' = [pc |-> "serve", name |-> request.name, model |-> request.model,
                    profile |-> request.profile, route |-> request.route, pin |-> request.pin,
                    found |-> <<named>>, via |-> via, begun |-> request.begun]
    BY <2>1 DEF RoutingInv, RoutingTypes
  <2>5. Named' = Named
    BY <2>4 DEF Named, Routing!Subscription
  <2>6. Within'
    BY <2>4 DEF RoutingInv, Within, Routing!ToSet
  <2>7. Answering'
    BY <2>2, <2>3, <2>4, <2>5 DEF RoutingInv, Answering, named
  <2>8. QED
    BY <2>4, <2>6, <2>7, RequestKeeps
<1>3. QED
    BY <1>1, <1>2

LEMMA ResolveKeeps ==
    ASSUME RoutingConstants, RoutingInv, Routing!ResolveBackend
    PROVE  RoutingInv'
<1>1. request.pc = "resolve" /\ UNCHANGED <<store, subs, keys, active, live, launch, session, edits>>
    BY DEF Routing!ResolveBackend
<1>2. Routing!ToVault(Named) \/ Routing!ToKey(Named)
    BY DEF Routing!ResolveBackend, Named
<1>3. QED
    BY <1>1, <1>2, ToVaultKeeps, ToKeyKeeps

LEMMA CandidatesKeep ==
    ASSUME RoutingInv, Routing!Candidates
    PROVE  RoutingInv'
<1>1. request.pc = "candidates" /\ UNCHANGED <<store, subs, keys, active, live, launch, session, edits>>
    BY DEF Routing!Candidates
<1>2. PICK ids : request' = Routing!NoRequest \/ request' = [request EXCEPT !.pc = "serve", !.found = ids]
    BY DEF Routing!Candidates
<1>3. CASE request' = Routing!NoRequest
    BY <1>1, <1>3, OverKeeps DEF Routing!Over
<1>4. CASE request' = [request EXCEPT !.pc = "serve", !.found = ids]
  <2>1. request' = [pc |-> "serve", name |-> request.name, model |-> request.model,
                    profile |-> request.profile, route |-> request.route, pin |-> request.pin,
                    found |-> ids, via |-> request.via, begun |-> request.begun]
    BY <1>4 DEF RoutingInv, RoutingTypes
  <2>2. Named' = Named
    BY <2>1 DEF Named, Routing!Subscription
  <2>3. Within'
    BY <1>1, <2>1 DEF RoutingInv, Within, Routing!ToSet
  <2>4. Answering'
    BY <1>1, <2>1, <2>2 DEF RoutingInv, Answering
  <2>5. QED
    BY <1>1, <2>1, <2>3, <2>4, RequestKeeps
<1>5. QED
    BY <1>2, <1>3, <1>4

LEMMA ServeKeeps ==
    ASSUME RoutingConstants, RoutingInv, Routing!Serve
    PROVE  RoutingInv'
<1>1. request.pc = "serve" /\ UNCHANGED <<store, subs, keys, active, live, launch, session, edits>>
    BY DEF Routing!Serve
<1>2. CASE Routing!Over
    BY <1>1, <1>2, OverKeeps
<1>3. ASSUME request.via = None, NEW a \in Routing!ToSet(subs), request' = [request EXCEPT !.via = a]
      PROVE  RoutingInv'
  <2>1. request' = [pc |-> "serve", name |-> request.name, model |-> request.model,
                    profile |-> request.profile, route |-> request.route, pin |-> request.pin,
                    found |-> request.found, via |-> a, begun |-> request.begun]
    BY <1>1, <1>3 DEF RoutingInv, RoutingTypes
  <2>2. a \in Vault \cap request.begun.vault
    BY <1>1 DEF RoutingInv, RoutingTypes, Within
  <2>3. Named' = Named
    BY <2>1 DEF Named, Routing!Subscription
  <2>4. Within'
    BY <1>1, <2>1 DEF RoutingInv, Within, Routing!ToSet
  <2>5. Answering'
    BY <1>1, <1>3, <2>1, <2>2, <2>3 DEF RoutingInv, Answering
  <2>6. QED
    BY <1>1, <2>1, <2>4, <2>5, RequestKeeps
<1>4. QED
    BY <1>2, <1>3 DEF Routing!Serve

(* Whatever profiles and accounts are edited and however many, a request is served by the account its
   route or its profile names or, if that is one of the vault or none, by an account of the vault
   that was there when it came in; or it fails (resolveBackend, server.ts:1128-1129).            *)
THEOREM RoutingFailsClosed ==
    ASSUME RoutingConstants
    PROVE  Routing!Spec => [](Routing!TypeOK /\ Routing!FailsClosed)
<1>1. ASSUME Routing!Init PROVE RoutingInv
  <2>1. subs \in Seq(Vault)
    BY <1>1, SeqIs DEF Routing!Init, RoutingConstants
  <2>2. Routing!ToSet(subs) \subseteq Vault
    BY <2>1 DEF Routing!ToSet
  <2>3. RoutingTypes
    BY <1>1, <2>1, <2>2 DEF Routing!Init, Routing!NoLaunch, Routing!NoRequest, RoutingTypes, RoutingConstants
  <2>4. Within /\ Answering
    BY <1>1 DEF Routing!Init, Routing!NoRequest, Within, Answering
  <2>5. QED
    BY <2>3, <2>4 DEF RoutingInv
<1>2. ASSUME RoutingInv, [Routing!Next]_(Routing!vars) PROVE RoutingInv'
  <2>1. CASE UNCHANGED Routing!vars
    BY <1>2, <2>1 DEF RoutingInv, RoutingTypes, Within, Answering, Named, Routing!vars, Routing!ToSet,
                      Routing!Subscription
  <2>2. CASE Routing!Next
    BY <1>2, <2>2, EditSteps, LaunchSteps, AskKeeps, PickKeeps, ResolveKeeps, CandidatesKeep, ServeKeeps
       DEF Routing!Next
  <2>3. QED
    BY <1>2, <2>1, <2>2
<1>3. ASSUME RoutingInv PROVE Routing!TypeOK
    BY <1>3 DEF RoutingInv, RoutingTypes, Routing!TypeOK
<1>4. ASSUME RoutingInv PROVE Routing!FailsClosed
  <2>1. request.via # None => request.pc = "serve" /\ request.profile # None
    BY <1>4 DEF RoutingInv, RoutingTypes, Answering
  <2>2. ASSUME request.via # None
        PROVE  /\ Named # None => Named \in request.begun.vault \cup request.begun.keys
               /\ request.via \in Vault <=> Named \in Vault \cup {None}
               /\ request.via \in Vault => request.via \in request.begun.vault
    BY <1>4, <2>1, <2>2 DEF RoutingInv, Answering, RoutingConstants
  <2>3. QED
    BY <2>1, <2>2 DEF Routing!FailsClosed, Named
<1>5. QED
    BY <1>1, <1>2, <1>3, <1>4, PTL DEF Routing!Spec
-----------------------------------------------------------------------------
(* The page of a profile *)

\* flatten of FlattenSeq, as an equation.
Flattens(g, s, n) == g = [i \in 1..n |-> IF i = 1 THEN s[i] ELSE g[i - 1] \o s[i]]

LEMMA FlattenIs ==
    ASSUME NEW s, Len(s) # 0
    PROVE  Form!FlattenSeq(s) = (CHOOSE g : Flattens(g, s, Len(s)))[Len(s)]
BY DEF Form!FlattenSeq, Flattens

LEMMA FlattenExists ==
    ASSUME NEW V, NEW s \in Seq(Seq(V)), NEW n \in 1..Len(s)
    PROVE  \E g \in [1..n -> Seq(V)] : Flattens(g, s, n)
<1> DEFINE Lacks == {m \in 1..Len(s) : ~\E g \in [1..m -> Seq(V)] : Flattens(g, s, m)}
<1>1. SUFFICES ASSUME Lacks # {} PROVE FALSE
    OBVIOUS
<1>2. PICK m \in Lacks : \A k \in Lacks : m <= k
    <2>1. Lacks \subseteq Nat
        OBVIOUS
    <2> HIDE DEF Lacks
    <2>2. QED
        BY <1>1, <2>1, LeastNatural
<1>3. m \in 1..Len(s) /\ \A i \in 1..m : s[i] \in Seq(V)
    OBVIOUS
<1>4. CASE m = 1
    <2> DEFINE g == [i \in 1..1 |-> s[1]]
    <2>1. g \in [1..1 -> Seq(V)] /\ Flattens(g, s, 1)
        BY <1>3 DEF Flattens
    <2>2. QED
        BY <1>4, <2>1
<1>5. CASE m # 1
    <2>1. m - 1 \in 1..Len(s) /\ m - 1 \notin Lacks
        <3>1. m \in Nat /\ m - 1 \in 1..Len(s) /\ m - 1 < m
            BY <1>3, <1>5
        <3> HIDE DEF Lacks
        <3>2. m - 1 \in Lacks => m <= m - 1
            BY <1>2
        <3>3. QED
            BY <3>1, <3>2
    <2>2. PICK g \in [1..(m - 1) -> Seq(V)] : Flattens(g, s, m - 1)
        BY <2>1
    <2> DEFINE h == [i \in 1..m |-> IF i = m THEN g[m - 1] \o s[m] ELSE g[i]]
    <2>3. h \in [1..m -> Seq(V)]
        <3>1. g[m - 1] \in Seq(V) /\ s[m] \in Seq(V)
            BY <1>3, <1>5
        <3>2. g[m - 1] \o s[m] \in Seq(V)
            BY <3>1
        <3>3. \A i \in 1..m : i # m => g[i] \in Seq(V)
            BY <1>3
        <3>4. QED
            BY <3>2, <3>3
    <2>4. \A i \in 1..m : h[i] = IF i = 1 THEN s[i] ELSE h[i - 1] \o s[i]
        <3>1. \A i \in 1..(m - 1) : g[i] = IF i = 1 THEN s[i] ELSE g[i - 1] \o s[i]
            BY <2>2 DEF Flattens
        <3>2. ASSUME NEW i \in 1..m, i # m PROVE h[i] = IF i = 1 THEN s[i] ELSE h[i - 1] \o s[i]
            <4>1. i \in 1..(m - 1) /\ i - 1 # m /\ h[i] = g[i]
                BY <1>3, <3>2
            <4>2. i # 1 => i - 1 \in 1..m /\ h[i - 1] = g[i - 1]
                BY <1>3, <4>1
            <4>3. QED
                BY <3>1, <4>1, <4>2
        <3>3. h[m] = h[m - 1] \o s[m]
            <4>1. m \in 1..m /\ m - 1 \in 1..m /\ m - 1 # m
                BY <1>3, <1>5
            <4>2. h[m] = g[m - 1] \o s[m] /\ h[m - 1] = g[m - 1]
                BY <4>1
            <4> HIDE DEF h
            <4>3. QED
                BY <4>2
        <3>4. QED
            BY <1>5, <3>2, <3>3
    <2>5. Flattens(h, s, m)
        <3>1. h = [i \in 1..m |-> h[i]]
            BY <2>3
        <3> HIDE DEF h
        <3>2. [i \in 1..m |-> h[i]] = [i \in 1..m |-> IF i = 1 THEN s[i] ELSE h[i - 1] \o s[i]]
            BY <2>4
        <3> QED BY <3>1, <3>2 DEF Flattens
    <2>6. QED
        BY <2>3, <2>5
<1>6. QED
    BY <1>4, <1>5

\* Any two of them agree, so the choice is the one that exists.
LEMMA FlattenUnique ==
    ASSUME NEW s, NEW n \in Nat, NEW g, NEW h, Flattens(g, s, n), Flattens(h, s, n)
    PROVE  g = h
<1> DEFINE Differ == {i \in 1..n : g[i] # h[i]}
<1>1. ASSUME Differ # {} PROVE FALSE
    <2>1. PICK m \in Differ : \A k \in Differ : m <= k
        <3>1. Differ \subseteq Nat
            OBVIOUS
        <3> HIDE DEF Differ
        <3>2. QED
            BY <1>1, <3>1, LeastNatural
    <2>2. \A i \in 1..n : /\ g[i] = IF i = 1 THEN s[i] ELSE g[i - 1] \o s[i]
                          /\ h[i] = IF i = 1 THEN s[i] ELSE h[i - 1] \o s[i]
        BY DEF Flattens
    <2>3. m # 1 => m - 1 \in 1..n /\ m - 1 \notin Differ
        BY <2>1
    <2>4. m # 1 => g[m - 1] = h[m - 1]
        BY <2>3
    <2>5. QED
        BY <2>1, <2>2, <2>4
<1>2. \A i \in 1..n : g[i] = h[i]
    BY <1>1
<1>3. g = [i \in 1..n |-> g[i]] /\ h = [i \in 1..n |-> h[i]]
    BY DEF Flattens
<1>4. QED
    BY <1>2, <1>3

\* FlattenSeq of sequences over V is one.
LEMMA FlattenType ==
    ASSUME NEW V, NEW s \in Seq(Seq(V))
    PROVE  Form!FlattenSeq(s) \in Seq(V)
<1>1. CASE Len(s) = 0
    BY <1>1 DEF Form!FlattenSeq
<1>2. CASE Len(s) # 0
    <2>1. Len(s) \in 1..Len(s)
        BY <1>2
    <2>2. PICK g \in [1..Len(s) -> Seq(V)] : Flattens(g, s, Len(s))
        BY <2>1, FlattenExists
    <2>3. Flattens(CHOOSE f : Flattens(f, s, Len(s)), s, Len(s))
        BY <2>2
    <2>4. g = (CHOOSE f : Flattens(f, s, Len(s)))
        BY <2>1, <2>2, <2>3, FlattenUnique
    <2>5. QED
        BY <1>2, <2>1, <2>4, FlattenIs
<1>3. QED
    BY <1>1, <1>2

\* One element at a time is put together to the same sequence.
LEMMA FlattenSingles ==
    ASSUME NEW V, NEW t \in Seq(V)
    PROVE  Form!FlattenSeq([i \in DOMAIN t |-> <<t[i]>>]) = t
<1> DEFINE s == [i \in DOMAIN t |-> <<t[i]>>]
           n == Len(t)
<1>1. n \in Nat /\ DOMAIN t = 1..n /\ s \in Seq(Seq(V)) /\ Len(s) = n
    <2>1. \A i \in 1..n : s[i] \in Seq(V)
        OBVIOUS
    <2>2. s = [i \in 1..n |-> s[i]] /\ n \in Nat
        OBVIOUS
    <2> HIDE DEF s
    <2>3. [i \in 1..n |-> s[i]] \in Seq(Seq(V)) /\ Len([i \in 1..n |-> s[i]]) = n
        BY <2>1, <2>2
    <2>4. QED
        BY <2>2, <2>3
<1>2. CASE n = 0
    BY <1>1, <1>2 DEF Form!FlattenSeq
<1>3. CASE n # 0
    <2> DEFINE g == [i \in 1..n |-> SubSeq(t, 1, i)]
    <2>1. \A i \in 1..n : g[i] = IF i = 1 THEN s[i] ELSE g[i - 1] \o s[i]
        <3>1. ASSUME NEW i \in 1..n, i # 1 PROVE SubSeq(t, 1, i) = SubSeq(t, 1, i - 1) \o <<t[i]>>
            OBVIOUS
        <3>2. n >= 1 => SubSeq(t, 1, 1) = <<t[1]>>
            <4>1. n >= 1 => /\ SubSeq(t, 1, 1) \in Seq(V) /\ Len(SubSeq(t, 1, 1)) = 1
                            /\ SubSeq(t, 1, 1)[1] = t[1]
                BY SubSeqProperties
            <4>2. \A u : u \in Seq(V) /\ Len(u) = 1 => u = <<u[1]>>
                OBVIOUS
            <4> HIDE DEF n
            <4>3. QED
                BY <4>1, <4>2
        <3>3. \A i \in 1..n : s[i] = <<t[i]>> /\ g[i] = SubSeq(t, 1, i)
            BY <1>1
        <3>4. \A i \in 1..n : i # 1 => i - 1 \in 1..n /\ g[i - 1] = SubSeq(t, 1, i - 1)
            BY <1>1
        <3> HIDE DEF s, g
        <3>5. n >= 1
            BY <1>1, <1>3
        <3>6. QED
            BY <3>1, <3>2, <3>3, <3>4, <3>5
    <2>2. Flattens(g, s, n)
        <3>1. g = [i \in 1..n |-> g[i]]
            OBVIOUS
        <3> HIDE DEF g
        <3>2. [i \in 1..n |-> g[i]] = [i \in 1..n |-> IF i = 1 THEN s[i] ELSE g[i - 1] \o s[i]]
            BY <2>1
        <3> QED BY <3>1, <3>2 DEF Flattens
    <2>3. g = (CHOOSE f : Flattens(f, s, n))
        <3> HIDE DEF g, s
        <3>1. Flattens(CHOOSE f : Flattens(f, s, n), s, n)
            BY <2>2
        <3>2. QED
            BY <1>1, <2>2, <3>1, FlattenUnique
    <2>4. Form!FlattenSeq(s) = g[n]
        <3> HIDE DEF g, s
        <3> QED BY <1>1, <1>3, <2>3, FlattenIs
    <2>5. SubSeq(t, 1, n) = t
        OBVIOUS
    <2>6. QED
        BY <1>1, <1>3, <2>4, <2>5
<1>4. QED
    BY <1>2, <1>3


FormBackends == [kind : {"subscription", "key", "manual", "text"}, id : Login \cup KeyId \cup {"", "provider", "slot"}]
FormTexts == [id : Model \cup {"", "unknown"}, pad : BOOLEAN]
FormRoute == [match : FormTexts, dest : FormBackends]
FormRoutes == Seq(FormRoute)

\* A profile as it is stored: what is blank is absent, an empty list of tools excepted.
StoredProfiles ==
    [base : FormBackends, inline : {None, "typed"}, args : Seq(Seq(Word)), direct : BOOLEAN,
     cwd : {None, "/there", "relative"}, routes : FormRoutes,
     session : [tools : {None, "", "some"}, layers : SUBSET Form!Layer, settings : {None, "object", "array", "broken"},
                preset : {None, "preset"}, append : {None, "text", "snippet"}]]

\* And as the page holds it: nothing is absent.
Forms ==
    [base : FormBackends, inline : {None, "typed"}, args : Seq(Word), direct : BOOLEAN,
     cwd : {"", "/there", "relative"}, routes : FormRoutes,
     session : [tools : {"", "some"}, layers : SUBSET Form!Layer, settings : {"", "object", "array", "broken"},
                preset : {"", "preset"}, append : {"", "text", "snippet"}]]

\* A preset leaves slots for accounts, and otherwise names the current account or a key typed in.
Slotted(b) == IF b.id = "slot" THEN b.kind \in {"subscription", "key"}
              ELSE b = Form!Backend("subscription", "") \/ b.kind = "manual"

FormConstants ==
    /\ None # "" /\ "" \notin KeyId /\ MaxStrokes \in Nat /\ MaxRemovals \in Nat
    /\ FormProfiles \subseteq StoredProfiles \cup {None} /\ FormPresets \subseteq StoredProfiles
    /\ \A p \in FormPresets : Slotted(p.base) /\ \A i \in DOMAIN p.routes : Slotted(p.routes[i].dest)

LEMMA ToForm ==
    ASSUME NEW p \in StoredProfiles, NEW f, f = Form!ProfileToForm(p)
    PROVE  /\ f.base = p.base /\ f.inline = p.inline /\ f.args = Form!FlattenSeq(p.args) /\ f.direct = p.direct
           /\ f.cwd = (IF p.cwd = None THEN "" ELSE p.cwd) /\ f.routes = p.routes
           /\ f.session.tools = (IF p.session.tools = None THEN "" ELSE p.session.tools)
           /\ f.session.layers = p.session.layers
           /\ f.session.settings = (IF p.session.settings = None THEN "" ELSE p.session.settings)
           /\ f.session.preset = (IF p.session.preset = None THEN "" ELSE p.session.preset)
           /\ f.session.append = (IF p.session.append = None THEN "" ELSE p.session.append)
BY DEF Form!ProfileToForm, StoredProfiles

LEMMA ToFormType ==
    ASSUME FormConstants, NEW p \in StoredProfiles, Form!FlattenSeq(p.args) \in Seq(Word)
    PROVE  Form!ProfileToForm(p) \in Forms
BY DEF Form!ProfileToForm, StoredProfiles, Forms, FormConstants

TrimmedRoutes(rows) == [i \in DOMAIN rows |-> Form!Route(Form!Trim(rows[i].match), rows[i].dest)]

Singles(args) == [i \in DOMAIN args |-> <<args[i]>>]
Rewritten(f, args, rows) ==
    [f EXCEPT !.args = args, !.routes = rows, !.session.tools = Form!OrNone(@), !.session.settings = Form!OrNone(@),
              !.session.preset = Form!OrNone(@), !.session.append = Form!OrNone(@),
              !.session.layers = IF @ = Form!Layer THEN {} ELSE @, !.cwd = Form!OrNone(@)]

LEMMA RewrittenFields ==
    ASSUME NEW f \in Forms, NEW args, NEW rows
    PROVE  LET p == Rewritten(f, args, rows)
           IN /\ p.base = f.base /\ p.inline = f.inline /\ p.args = args
              /\ p.direct = f.direct /\ p.cwd = Form!OrNone(f.cwd) /\ p.routes = rows
              /\ p.session.tools = Form!OrNone(f.session.tools)
              /\ p.session.layers = (IF f.session.layers = Form!Layer THEN {} ELSE f.session.layers)
              /\ p.session.settings = Form!OrNone(f.session.settings)
              /\ p.session.preset = Form!OrNone(f.session.preset) /\ p.session.append = Form!OrNone(f.session.append)
<1> DEFINE p == Rewritten(f, args, rows)
<1>1. /\ p.base = f.base /\ p.inline = f.inline /\ p.args = args
      /\ p.direct = f.direct /\ p.cwd = Form!OrNone(f.cwd) /\ p.routes = rows
    BY DEF Rewritten, Forms
<1>2. /\ p.session.tools = Form!OrNone(f.session.tools)
      /\ p.session.layers = (IF f.session.layers = Form!Layer THEN {} ELSE f.session.layers)
    BY DEF Rewritten, Forms
<1>3. /\ p.session.settings = Form!OrNone(f.session.settings)
      /\ p.session.preset = Form!OrNone(f.session.preset) /\ p.session.append = Form!OrNone(f.session.append)
    BY DEF Rewritten, Forms
<1>4. QED
    BY <1>1, <1>2, <1>3

LEMMA RewrittenType ==
    ASSUME FormConstants, NEW f \in Forms, NEW args \in Seq(Seq(Word)), NEW rows \in FormRoutes
    PROVE  Rewritten(f, args, rows) \in StoredProfiles
<1> DEFINE s == [f.session EXCEPT !.tools = Form!OrNone(@), !.settings = Form!OrNone(@), !.preset = Form!OrNone(@),
                                  !.append = Form!OrNone(@), !.layers = IF @ = Form!Layer THEN {} ELSE @]
           S == [tools : {None, "", "some"}, layers : SUBSET Form!Layer, settings : {None, "object", "array", "broken"},
                preset : {None, "preset"}, append : {None, "text", "snippet"}]
<1>1. s \in S
    BY DEF Forms, FormConstants, Form!OrNone
<1>2. f.session \in [tools : {"", "some"}, layers : SUBSET Form!Layer, settings : {"", "object", "array", "broken"},
                preset : {"", "preset"}, append : {"", "text", "snippet"}]
    BY DEF Forms
<1>3. Rewritten(f, args, rows) = [f EXCEPT !.args = args, !.routes = rows, !.session = s, !.cwd = Form!OrNone(@)]
    BY DEF Rewritten, Forms
<1>4. Form!OrNone(f.cwd) \in {None, "/there", "relative"}
    BY DEF Forms, Form!OrNone
<1> HIDE DEF s, S
<1>5. [f EXCEPT !.args = args, !.routes = rows, !.session = s, !.cwd = Form!OrNone(@)] \in 
    [base : FormBackends, inline : {None, "typed"}, args : Seq(Seq(Word)), direct : BOOLEAN,
     cwd : {None, "/there", "relative"}, routes : FormRoutes, session : S]
    BY <1>1, <1>4 DEF Forms
<1>6. QED
    BY <1>3, <1>5 DEF StoredProfiles, S

LEMMA ToProfile ==
    ASSUME NEW f \in Forms
    PROVE  Form!FormToProfile(f) = Rewritten(f, Singles(f.args), TrimmedRoutes(f.routes))
BY DEF Form!FormToProfile, Rewritten, Singles, TrimmedRoutes

LEMMA SameRecord ==
    ASSUME NEW A, NEW B, NEW C, NEW D, NEW E, NEW F, NEW G,
           NEW x \in [base : A, inline : B, args : C, direct : D, cwd : E, routes : F, session : G],
           NEW y \in [base : A, inline : B, args : C, direct : D, cwd : E, routes : F, session : G],
           x.base = y.base, x.inline = y.inline, x.args = y.args, x.direct = y.direct, x.cwd = y.cwd,
           x.routes = y.routes, x.session = y.session
    PROVE  x = y
OBVIOUS

LEMMA Elements ==
    ASSUME NEW S, NEW s \in Seq(S)
    PROVE  DOMAIN s = 1..Len(s) /\ Len(s) \in Nat /\ \A i \in DOMAIN s : s[i] \in S
OBVIOUS

LEMMA AsSequence ==
    ASSUME NEW S, NEW s, NEW n \in Nat, s = [i \in 1..n |-> s[i]], \A i \in 1..n : s[i] \in S
    PROVE  s \in Seq(S) /\ Len(s) = n /\ DOMAIN s = 1..n
OBVIOUS

LEMMA SinglesType == ASSUME NEW t \in Seq(Word) PROVE Singles(t) \in Seq(Seq(Word))
<1>1. DOMAIN t = 1..Len(t) /\ Len(t) \in Nat /\ \A i \in DOMAIN t : <<t[i]>> \in Seq(Word)
    BY Elements
<1>2. Singles(t) = [i \in 1..Len(t) |-> Singles(t)[i]] /\ \A i \in 1..Len(t) : Singles(t)[i] = <<t[i]>>
    BY <1>1 DEF Singles
<1>3. \A i \in 1..Len(t) : Singles(t)[i] \in Seq(Word)
    BY <1>1, <1>2
<1>4. QED
    BY <1>1, <1>2, <1>3, AsSequence

LEMMA AccountsAreBackends ==
    /\ \A b \in Form!Accounts : b \in FormBackends /\ b.kind \in {"subscription", "key"}
                                /\ (b.kind = "key" => b.id \in KeyId)
    /\ {Form!Backend("subscription", ""), Form!Backend("text", ""), Form!Backend("manual", "provider")} \subseteq FormBackends
<1>1. ASSUME NEW kind \in {"subscription", "key", "manual", "text"},
             NEW id \in Login \cup KeyId \cup {"", "provider", "slot"}
      PROVE  Form!Backend(kind, id) \in FormBackends
    BY DEF Form!Backend, FormBackends
<1>2. \A kind, id : Form!Backend(kind, id).kind = kind /\ Form!Backend(kind, id).id = id
    BY DEF Form!Backend
<1>3. ASSUME NEW b \in Form!Accounts
      PROVE  \/ \E a \in Login : b = Form!Backend("subscription", a)
             \/ \E k \in KeyId : b = Form!Backend("key", k)
    BY DEF Form!Accounts
<1>4. ASSUME NEW b \in Form!Accounts
      PROVE  b \in FormBackends /\ b.kind \in {"subscription", "key"} /\ (b.kind = "key" => b.id \in KeyId)
  <2>1. CASE \E a \in Login : b = Form!Backend("subscription", a)
    <3>1. PICK a \in Login : b = Form!Backend("subscription", a)
      BY <2>1
    <3>2. b \in FormBackends
      BY <1>1, <3>1
    <3>3. b.kind = "subscription"
      BY <1>2, <3>1
    <3>4. QED
      BY <3>2, <3>3
  <2>2. CASE \E k \in KeyId : b = Form!Backend("key", k)
    <3>1. PICK k \in KeyId : b = Form!Backend("key", k)
      BY <2>2
    <3>2. b \in FormBackends
      BY <1>1, <3>1
    <3>3. b.kind = "key" /\ b.id = k
      BY <1>2, <3>1
    <3>4. QED
      BY <3>2, <3>3
  <2>3. QED
    BY <1>3, <2>1, <2>2
<1>5. /\ Form!Backend("subscription", "") \in FormBackends /\ Form!Backend("text", "") \in FormBackends
      /\ Form!Backend("manual", "provider") \in FormBackends
    BY <1>1
<1>6. QED
    BY <1>4, <1>5

LEMMA Trimmed ==
    ASSUME NEW rows \in FormRoutes, NEW t, t = TrimmedRoutes(rows)
    PROVE  /\ t \in FormRoutes /\ DOMAIN t = DOMAIN rows /\ Len(t) = Len(rows)
           /\ \A i \in DOMAIN rows : /\ t[i].match = Form!Text(rows[i].match.id, FALSE)
                                     /\ t[i].dest = rows[i].dest /\ Form!Trim(t[i].match) = t[i].match
                                     /\ Form!Trim(rows[i].match) = t[i].match
<1>1. DOMAIN rows = 1..Len(rows) /\ Len(rows) \in Nat /\ \A i \in DOMAIN rows : rows[i] \in FormRoute
    BY Elements DEF FormRoutes
<1>2. t = [i \in 1..Len(rows) |-> t[i]]
    BY <1>1 DEF TrimmedRoutes
<1>3. ASSUME NEW i \in DOMAIN rows
      PROVE  /\ t[i] = Form!Route(Form!Text(rows[i].match.id, FALSE), rows[i].dest)
             /\ rows[i].match \in FormTexts /\ rows[i].dest \in FormBackends
    BY <1>1 DEF TrimmedRoutes, Form!Trim, FormRoute
<1>4. ASSUME NEW x \in FormTexts, NEW b \in FormBackends
      PROVE  /\ Form!Text(x.id, FALSE) \in FormTexts /\ Form!Trim(Form!Text(x.id, FALSE)) = Form!Text(x.id, FALSE)
             /\ Form!Trim(x) = Form!Text(x.id, FALSE)
    BY DEF FormTexts, Form!Text, Form!Trim
<1>5. ASSUME NEW x, NEW b
      PROVE  Form!Route(x, b).match = x /\ Form!Route(x, b).dest = b
    BY DEF Form!Route
<1>6. ASSUME NEW x \in FormTexts, NEW b \in FormBackends
      PROVE  Form!Route(x, b) \in FormRoute
    BY DEF Form!Route, FormRoute
<1>7. \A i \in DOMAIN rows : t[i] \in FormRoute
    BY <1>3, <1>4, <1>6
<1>8. t \in FormRoutes /\ Len(t) = Len(rows) /\ DOMAIN t = DOMAIN rows
    BY <1>1, <1>2, <1>7, AsSequence DEF FormRoutes
<1>9. ASSUME NEW i \in DOMAIN rows
      PROVE  /\ t[i].match = Form!Text(rows[i].match.id, FALSE) /\ t[i].dest = rows[i].dest
             /\ Form!Trim(t[i].match) = t[i].match /\ Form!Trim(rows[i].match) = t[i].match
  <2>1. t[i].match = Form!Text(rows[i].match.id, FALSE) /\ t[i].dest = rows[i].dest
    <3> DEFINE x == Form!Text(rows[i].match.id, FALSE)
    <3>1. t[i] = Form!Route(x, rows[i].dest)
      BY <1>3
    <3> HIDE DEF x
    <3>2. t[i].match = x /\ t[i].dest = rows[i].dest
      BY <1>5, <3>1
    <3>3. QED
      BY <3>2 DEF x
  <2>2. QED
    BY <1>3, <1>4, <2>1
<1>10. QED
    BY <1>8, <1>9

LEMMA BuildableIsValid ==
    ASSUME FormConstants, NEW f \in Forms, NEW L \in SUBSET Form!Accounts, Form!Buildable(f, L),
           NEW p, p = Form!FormToProfile(f), p.cwd # "relative"
    PROVE  Form!Validated(p)
<1> DEFINE t == TrimmedRoutes(f.routes)
<1>1. p = Rewritten(f, Singles(f.args), t)
    BY ToProfile
<1>2. /\ p.direct = f.direct /\ p.routes = t /\ p.session.settings = Form!OrNone(f.session.settings)
      /\ p.session.preset = Form!OrNone(f.session.preset) /\ p.session.append = Form!OrNone(f.session.append)
      /\ p.session.layers = (IF f.session.layers = Form!Layer THEN {} ELSE f.session.layers)
    BY <1>1, RewrittenFields
<1>3. f.routes \in FormRoutes /\ f.session.layers \in SUBSET Form!Layer
    BY DEF Forms
<1>4. /\ DOMAIN t = DOMAIN f.routes
      /\ \A i \in DOMAIN f.routes : /\ t[i].dest = f.routes[i].dest
                                     /\ Form!Trim(t[i].match) = Form!Trim(f.routes[i].match)
    BY <1>3, Trimmed
<1> HIDE DEF t
<1>5. p.direct => p.routes = <<>>
    <2>1. ASSUME p.direct PROVE f.routes = <<>>
        BY <1>2, <2>1 DEF Form!Buildable
    <2>2. f.routes = <<>> => t = <<>>
        BY DEF t, TrimmedRoutes
    <2>3. QED
        BY <1>2, <2>1, <2>2
<1>6. ASSUME NEW i \in DOMAIN f.routes
      PROVE  /\ Form!Trim(t[i].match).id \in Model
             /\ \A j \in 1..(i - 1) : Form!Trim(t[j].match) # Form!Trim(t[i].match)
             /\ t[i].dest.kind \in {"subscription", "key"}
             /\ t[i].dest.kind = "key" => t[i].dest.id # ""
    <2>1. ~Form!RowProblem(f.routes, i, L)
        BY <1>6 DEF Form!Buildable
    <2>2. \A j \in 1..(i - 1) : j \in DOMAIN f.routes
        <3>1. DOMAIN f.routes = 1..Len(f.routes) /\ Len(f.routes) \in Nat
            BY <1>3, Elements DEF FormRoutes
        <3>2. QED
            BY <1>6, <3>1
    <2>3. f.routes[i].dest \in Form!Accounts \/ f.routes[i].dest = Form!Backend("subscription", "")
        BY <2>1 DEF Form!RowProblem
    <2>4. /\ t[i].dest.kind \in {"subscription", "key"} /\ (t[i].dest.kind = "key" => t[i].dest.id # "")
        <3>1. "" \notin KeyId /\ t[i].dest = f.routes[i].dest
            BY <1>4, <1>6 DEF FormConstants
        <3>2. Form!Backend("subscription", "").kind = "subscription"
            BY DEF Form!Backend
        <3>3. QED
            BY <2>3, <3>1, <3>2, AccountsAreBackends
    <2>5. QED
        BY <1>4, <1>6, <2>1, <2>2, <2>4 DEF Form!RowProblem
<1>7. Form!RoutesValid(p)
    BY <1>2, <1>4, <1>5, <1>6 DEF Form!RoutesValid
<1>8. p.session.settings \in {None, "object"} /\ "" \notin {p.session.preset, p.session.append}
    BY <1>2 DEF Form!Buildable, Form!OrNone, FormConstants
<1>9. QED
    BY <1>2, <1>3, <1>7, <1>8 DEF Form!Validated

LEMMA BuildableShows ==
    ASSUME FormConstants, NEW f \in Forms, NEW L \in SUBSET Form!Accounts, Form!Buildable(f, L),
           NEW p, p = Form!FormToProfile(f)
    PROVE  Form!Named(p) \subseteq L /\ Form!Selected(p) = Form!Mapping(f.routes)
<1> DEFINE t == TrimmedRoutes(f.routes)
<1>1. p = Rewritten(f, Singles(f.args), t)
    BY ToProfile
<1>2. p.base = f.base /\ p.routes = t
    BY <1>1, RewrittenFields
<1>3. f.routes \in FormRoutes /\ DOMAIN f.routes = 1..Len(f.routes)
    <2>1. f.routes \in FormRoutes
        BY DEF Forms
    <2>2. QED
        BY <2>1, Elements DEF FormRoutes
<1>4. /\ DOMAIN t = DOMAIN f.routes
      /\ \A i \in DOMAIN f.routes : /\ t[i].dest = f.routes[i].dest /\ t[i].match = Form!Text(f.routes[i].match.id, FALSE)
    BY <1>3, Trimmed
<1> HIDE DEF t
<1>5. Form!Named(p) \subseteq L
    <2>1. \A i \in DOMAIN f.routes : f.routes[i].dest \in L \cup {Form!Backend("subscription", "")}
        BY DEF Form!Buildable, Form!RowProblem
    <2>2. f.base \in L \cup {Form!Backend("subscription", ""), Form!Backend("manual", "provider")}
        BY DEF Form!Buildable, Form!DefaultProblem
    <2>3. Form!Backend("manual", "provider").kind = "manual"
        BY DEF Form!Backend
    <2>4. SUFFICES ASSUME NEW b \in Form!Named(p) PROVE b \in L
        OBVIOUS
    <2>5. /\ b # Form!Backend("subscription", "") /\ b.kind # "manual"
          /\ b = p.base \/ \E i \in DOMAIN p.routes : b = p.routes[i].dest
        BY DEF Form!Named
    <2>6. QED
        BY <1>2, <1>4, <2>1, <2>2, <2>3, <2>5
<1>6. ASSUME NEW m \in Model PROVE Form!Selected(p)[m] = Form!Mapping(f.routes)[m]
    <2> DEFINE at == {i \in DOMAIN p.routes : p.routes[i].match = Form!Text(m, FALSE)}
               first == CHOOSE i \in at : \A j \in at : i <= j
    <2>1. at = {i \in DOMAIN f.routes : Form!Trim(f.routes[i].match).id = m}
        <3>1. \A x : (Form!Text(x, FALSE) = Form!Text(m, FALSE)) <=> (x = m)
            BY DEF Form!Text
        <3>2. \A i \in DOMAIN f.routes : Form!Trim(f.routes[i].match).id = f.routes[i].match.id
            BY DEF Form!Text, Form!Trim
        <3>3. ASSUME NEW i \in DOMAIN f.routes
              PROVE  p.routes[i].match = Form!Text(m, FALSE) <=> Form!Trim(f.routes[i].match).id = m
            BY <1>2, <1>4, <3>1, <3>2
        <3>4. DOMAIN p.routes = DOMAIN f.routes
            BY <1>2, <1>4
        <3>5. QED
            BY <3>3, <3>4
    <2>2. ASSUME at # {} PROVE first \in DOMAIN f.routes
        <3>1. at \in SUBSET Nat
            <4>1. \A i \in at : i \in 1..Len(f.routes)
                BY <1>2, <1>3, <1>4
            <4>2. 1..Len(f.routes) \subseteq Nat
                OBVIOUS
            <4> HIDE DEF at
            <4>3. QED
                BY <4>1, <4>2
        <3>2. first \in at
            BY <2>2, <3>1, LeastNatural
        <3>3. QED
            BY <1>2, <1>4, <3>2
    <2>3. Form!Selected(p)[m] = IF at = {} THEN None ELSE p.routes[first].dest
        BY <1>6 DEF Form!Selected
    <2>4. Form!Mapping(f.routes)[m] = IF at = {} THEN None ELSE f.routes[first].dest
        <3> HIDE DEF at
        <3>1. QED
            BY <1>6, <2>1 DEF Form!Mapping
    <2> HIDE DEF at, first
    <2>5. QED
        BY <1>2, <1>4, <2>2, <2>3, <2>4
<1>7. Form!Selected(p) = Form!Mapping(f.routes)
    <2>1. Form!Selected(p) = [m \in Model |-> Form!Selected(p)[m]]
        BY DEF Form!Selected
    <2>2. Form!Mapping(f.routes) = [m \in Model |-> Form!Mapping(f.routes)[m]]
        BY DEF Form!Mapping
    <2>3. QED
        BY <1>6, <2>1, <2>2
<1>8. QED
    BY <1>5, <1>7

StoredSessions ==
    [tools : {None, "", "some"}, layers : SUBSET Form!Layer, settings : {None, "object", "array", "broken"},
     preset : {None, "preset"}, append : {None, "text", "snippet"}]

LEMMA SameFive ==
    ASSUME NEW A, NEW B, NEW C, NEW D, NEW E,
           NEW x \in [tools : A, layers : B, settings : C, preset : D, append : E],
           NEW y \in [tools : A, layers : B, settings : C, preset : D, append : E],
           x.tools = y.tools, x.layers = y.layers, x.settings = y.settings, x.preset = y.preset, x.append = y.append
    PROVE  x = y
OBVIOUS

LEMMA SameSession ==
    ASSUME NEW x \in StoredSessions, NEW y \in StoredSessions,
           x.tools = y.tools, x.layers = y.layers, x.settings = y.settings, x.preset = y.preset, x.append = y.append
    PROVE  x = y
<1> DEFINE A == {None, "", "some"}
           C == {None, "object", "array", "broken"}
           D == {None, "preset"}
           E == {None, "text", "snippet"}
<1>1. StoredSessions = [tools : A, layers : SUBSET Form!Layer, settings : C, preset : D, append : E]
    BY DEF StoredSessions
<1> HIDE DEF A, C, D, E
<1>2. QED
    BY <1>1, SameFive

LEMMA ReopensAsStored ==
    ASSUME FormConstants, NEW from \in StoredProfiles, NEW p, p = Form!FormToProfile(Form!ProfileToForm(from))
    PROVE  [p EXCEPT !.args = Form!FlattenSeq(@)] =
           [from EXCEPT !.args = Form!FlattenSeq(@), !.session.tools = IF @ = None THEN None ELSE Form!OrNone(@),
                        !.session.layers = IF @ = Form!Layer THEN {} ELSE @,
                        !.routes = [i \in DOMAIN @ |-> Form!Route(Form!Trim(@[i].match), @[i].dest)]]
<1> DEFINE f == Form!ProfileToForm(from)
           rows == [i \in DOMAIN from.routes |-> Form!Route(Form!Trim(from.routes[i].match), from.routes[i].dest)]
           s == [from.session EXCEPT !.tools = IF @ = None THEN None ELSE Form!OrNone(@),
                                     !.layers = IF @ = Form!Layer THEN {} ELSE @]
           left == [p EXCEPT !.args = Form!FlattenSeq(@)]
           args == Form!FlattenSeq(from.args)
           right == [from EXCEPT !.args = args, !.session = s, !.routes = rows]
<1>1. /\ from.args \in Seq(Seq(Word)) /\ from.routes \in FormRoutes
      /\ from.cwd \in {None, "/there", "relative"} /\ from.session \in StoredSessions
    BY DEF StoredProfiles, StoredSessions
<1>2. args \in Seq(Word)
    BY <1>1, FlattenType
<1>3. f \in Forms
    BY <1>2, ToFormType
<1>4. /\ f.base = from.base /\ f.inline = from.inline /\ f.args = args /\ f.direct = from.direct
      /\ f.cwd = (IF from.cwd = None THEN "" ELSE from.cwd) /\ f.routes = from.routes
      /\ f.session.tools = (IF from.session.tools = None THEN "" ELSE from.session.tools)
      /\ f.session.layers = from.session.layers
      /\ f.session.settings = (IF from.session.settings = None THEN "" ELSE from.session.settings)
      /\ f.session.preset = (IF from.session.preset = None THEN "" ELSE from.session.preset)
      /\ f.session.append = (IF from.session.append = None THEN "" ELSE from.session.append)
    BY ToForm
<1>5. rows = TrimmedRoutes(f.routes) /\ rows \in FormRoutes
    BY <1>1, <1>4, Trimmed DEF TrimmedRoutes
<1> HIDE DEF rows, args, f
<1>6. p = Rewritten(f, Singles(args), rows)
    BY <1>3, <1>4, <1>5, ToProfile DEF f
<1>7. p \in StoredProfiles
    BY <1>1, <1>2, <1>3, <1>5, <1>6, RewrittenType, SinglesType
<1>8. /\ p.base = f.base /\ p.inline = f.inline /\ p.args = Singles(args)
      /\ p.direct = f.direct /\ p.cwd = Form!OrNone(f.cwd) /\ p.routes = rows
      /\ p.session.tools = Form!OrNone(f.session.tools)
      /\ p.session.layers = (IF f.session.layers = Form!Layer THEN {} ELSE f.session.layers)
      /\ p.session.settings = Form!OrNone(f.session.settings)
      /\ p.session.preset = Form!OrNone(f.session.preset) /\ p.session.append = Form!OrNone(f.session.append)
    BY <1>3, <1>6, RewrittenFields
<1>9. Form!FlattenSeq(p.args) = args
    BY <1>2, <1>8, FlattenSingles DEF Singles
<1>10. s \in StoredSessions /\ p.session \in StoredSessions
    BY <1>1, <1>7 DEF StoredSessions, StoredProfiles, Form!OrNone
<1>11. p.session = s
  <2>1. s.tools = p.session.tools /\ s.layers = p.session.layers
    BY <1>1, <1>4, <1>8 DEF StoredSessions, FormConstants, Form!OrNone
  <2>2. /\ s.settings = from.session.settings /\ s.preset = from.session.preset /\ s.append = from.session.append
    BY <1>1 DEF StoredSessions
  <2>3. /\ from.session.settings # "" /\ from.session.preset # "" /\ from.session.append # "" /\ None # ""
    BY <1>1 DEF StoredSessions, FormConstants
  <2>4. s.settings = p.session.settings /\ s.preset = p.session.preset /\ s.append = p.session.append
    BY <1>4, <1>8, <2>2, <2>3 DEF Form!OrNone
  <2> HIDE DEF s
  <2>5. QED
    BY <1>10, <2>1, <2>4, SameSession
<1>12. p.cwd = from.cwd
    BY <1>1, <1>4, <1>8 DEF Form!OrNone, FormConstants
<1> HIDE DEF s
<1>13. /\ left \in [base : FormBackends, inline : {None, "typed"}, args : Seq(Word), direct : BOOLEAN,
                    cwd : {None, "/there", "relative"}, routes : FormRoutes, session : StoredSessions]
       /\ left.base = p.base /\ left.inline = p.inline /\ left.args = args /\ left.direct = p.direct
       /\ left.cwd = p.cwd /\ left.routes = p.routes /\ left.session = p.session
    BY <1>2, <1>7, <1>9, <1>10 DEF StoredProfiles
<1>14. /\ right \in [base : FormBackends, inline : {None, "typed"}, args : Seq(Word), direct : BOOLEAN,
                     cwd : {None, "/there", "relative"}, routes : FormRoutes, session : StoredSessions]
       /\ right.base = from.base /\ right.inline = from.inline /\ right.args = args /\ right.direct = from.direct
       /\ right.cwd = from.cwd /\ right.routes = rows /\ right.session = s
    BY <1>2, <1>5, <1>10 DEF StoredProfiles
<1>15. left = right
  <2> HIDE DEF left, right
  <2>1. /\ left.base = right.base /\ left.inline = right.inline /\ left.args = right.args /\ left.direct = right.direct
        /\ left.cwd = right.cwd /\ left.routes = right.routes /\ left.session = right.session
    <3>1. p.base = from.base /\ p.inline = from.inline /\ p.direct = from.direct /\ p.routes = rows
      BY <1>4, <1>8
    <3>2. QED
      BY <1>11, <1>12, <1>13, <1>14, <3>1
  <2>2. QED
    BY <1>13, <1>14, <2>1, SameRecord
<1>16. right = [from EXCEPT !.args = args, !.session.tools = IF @ = None THEN None ELSE Form!OrNone(@),
                            !.session.layers = IF @ = Form!Layer THEN {} ELSE @, !.routes = rows]
    BY DEF s, StoredProfiles
<1>17. QED
    BY <1>15, <1>16 DEF args, rows

OpenPages == [pc : {"open", "saving"}, from : StoredProfiles \cup {None}, form : Forms,
              listed : SUBSET Form!Accounts, strokes : 0..MaxStrokes]
LoadingPages == [pc : {"loading"}, from : StoredProfiles \cup {None}, form : Forms]
InitPlans == [pc : {"save"}, saw : SUBSET Form!Accounts, profile : StoredProfiles]

\* The form of a page nobody has typed in is the profile it was opened with.
AsOpened(pg) == pg.from # None => pg.form = Form!ProfileToForm(pg.from)
Built(pg) == Form!Buildable(pg.form, pg.listed)

FormInv ==
    /\ stored \in StoredProfiles \cup {None} /\ listed \subseteq Form!Accounts /\ removals \in 0..MaxRemovals
    /\ page \in {Form!NoPage, Form!Left} \cup LoadingPages \cup OpenPages
    /\ page.pc = "loading" => AsOpened(page)
    /\ page.pc \in {"open", "saving"} /\ page.strokes = 0 => AsOpened(page)
    /\ page.pc = "saving" => Built(page)
    /\ saved # None =>
        /\ saved.page \in OpenPages /\ saved.profile = Form!FormToProfile(saved.page.form) /\ Built(saved.page)
        /\ saved.page.strokes = 0 => AsOpened(saved.page)
    /\ rejected # None => rejected.cwd = "relative"
    /\ init \in {Form!NoInit} \cup InitPlans
    /\ init.pc = "save" => Form!Named(init.profile) \subseteq init.saw
    /\ made # None => Form!Named(made.profile) \subseteq made.saw

LEMMA PageKinds ==
    ASSUME NEW pg \in {Form!NoPage, Form!Left} \cup LoadingPages \cup OpenPages
    PROVE  /\ pg.pc \in {"closed", "loading", "open", "saving", "left"}
           /\ pg.pc \in {"open", "saving"} => pg \in OpenPages
           /\ pg.pc = "loading" => pg \in LoadingPages
<1>1. Form!NoPage.pc = "closed" /\ Form!Left.pc = "left"
    BY DEF Form!NoPage, Form!Left
<1>2. \A x \in LoadingPages : x.pc = "loading"
    BY DEF LoadingPages
<1>3. \A x \in OpenPages : x.pc \in {"open", "saving"}
    BY DEF OpenPages
<1>4. QED
    BY <1>1, <1>2, <1>3

LEMMA InitKinds ==
    ASSUME NEW x \in {Form!NoInit} \cup InitPlans
    PROVE  x.pc \in {"idle", "save"} /\ (x.pc = "save" => x \in InitPlans)
<1>1. Form!NoInit.pc = "idle"
    BY DEF Form!NoInit
<1>2. \A y \in InitPlans : y.pc = "save"
    BY DEF InitPlans
<1>3. QED
    BY <1>1, <1>2

\* The rows with other destinations, and a profile with other backends.
LEMMA Redirected ==
    ASSUME NEW rows \in FormRoutes, NEW to \in [DOMAIN rows -> FormBackends],
           NEW t, t = [i \in DOMAIN rows |-> Form!Route(rows[i].match, to[i])]
    PROVE  t \in FormRoutes /\ DOMAIN t = DOMAIN rows /\ \A i \in DOMAIN rows : t[i].dest = to[i]
<1>1. DOMAIN rows = 1..Len(rows) /\ Len(rows) \in Nat /\ \A i \in DOMAIN rows : rows[i] \in FormRoute
    BY Elements DEF FormRoutes
<1>2. ASSUME NEW x \in FormTexts, NEW b \in FormBackends
      PROVE  Form!Route(x, b) \in FormRoute /\ Form!Route(x, b).dest = b
    BY DEF Form!Route, FormRoute
<1>3. ASSUME NEW r \in FormRoute PROVE r.match \in FormTexts
    BY DEF FormRoute
<1>4. ASSUME NEW i \in DOMAIN rows PROVE t[i] \in FormRoute /\ t[i].dest = to[i]
  <2>1. t[i] = Form!Route(rows[i].match, to[i])
    OBVIOUS
  <2>2. rows[i].match \in FormTexts /\ to[i] \in FormBackends
    BY <1>1, <1>3
  <2>3. QED
    BY <1>2, <2>1, <2>2
<1>5. t = [i \in 1..Len(rows) |-> t[i]]
    BY <1>1
<1>6. \A i \in 1..Len(rows) : t[i] \in FormRoute
    BY <1>1, <1>4
<1>7. t \in Seq(FormRoute) /\ DOMAIN t = 1..Len(rows)
    BY <1>1, <1>5, <1>6, AsSequence
<1>8. QED
    BY <1>1, <1>4, <1>7 DEF FormRoutes

LEMMA WithBackends ==
    ASSUME NEW p \in StoredProfiles, NEW b \in FormBackends, NEW rows \in FormRoutes,
           NEW q, q = [p EXCEPT !.base = b, !.routes = rows]
    PROVE  q \in StoredProfiles
<1> DEFINE S == [tools : {None, "", "some"}, layers : SUBSET Form!Layer, settings : {None, "object", "array", "broken"},
                 preset : {None, "preset"}, append : {None, "text", "snippet"}]
<1>1. StoredProfiles = [base : FormBackends, inline : {None, "typed"}, args : Seq(Seq(Word)), direct : BOOLEAN,
                        cwd : {None, "/there", "relative"}, routes : FormRoutes, session : S]
    BY DEF StoredProfiles
<1> HIDE DEF S
<1>2. QED
    BY <1>1

LEMMA Destinations ==
    ASSUME NEW p \in StoredProfiles
    PROVE  p.base \in FormBackends /\ p.routes \in FormRoutes /\ \A i \in DOMAIN p.routes : p.routes[i].dest \in FormBackends
<1>1. p.base \in FormBackends /\ p.routes \in FormRoutes
    BY DEF StoredProfiles
<1>2. \A i \in DOMAIN p.routes : p.routes[i] \in FormRoute
    BY <1>1, Elements DEF FormRoutes
<1>3. \A r \in FormRoute : r.dest \in FormBackends
    BY DEF FormRoute
<1>4. QED
    BY <1>1, <1>2, <1>3

LEMMA FreshForms ==
    ASSUME FormConstants
    PROVE  {Form!EmptyForm} \cup {Form!ProfileToForm(Form!Emptied(p)) : p \in FormPresets} \subseteq Forms
<1>1. Form!EmptyForm \in Forms
  <2> DEFINE s == [Form!NoSession EXCEPT !.tools = "", !.settings = "", !.preset = "", !.append = ""]
  <2>1. s \in [tools : {"", "some"}, layers : SUBSET Form!Layer, settings : {"", "object", "array", "broken"},
               preset : {"", "preset"}, append : {"", "text", "snippet"}]
    BY DEF Form!NoSession
  <2>2. Form!Backend("manual", "provider") \in FormBackends
    BY AccountsAreBackends
  <2>3. <<>> \in FormRoutes /\ <<>> \in Seq(Word)
    BY DEF FormRoutes
  <2>4. Form!EmptyForm = [base |-> Form!Backend("manual", "provider"), inline |-> None, args |-> <<>>, direct |-> FALSE,
                          cwd |-> "", routes |-> <<>>, session |-> s]
    BY DEF Form!EmptyForm
  <2> HIDE DEF s
  <2>5. QED
    BY <2>1, <2>2, <2>3, <2>4 DEF Forms
<1>2. ASSUME NEW p \in FormPresets PROVE Form!ProfileToForm(Form!Emptied(p)) \in Forms
  <2> DEFINE blank(b) == IF b.id = "slot" THEN [b EXCEPT !.id = ""] ELSE b
             to == [i \in DOMAIN p.routes |-> blank(p.routes[i].dest)]
             base == blank(p.base)
             rows == [i \in DOMAIN p.routes |-> Form!Route(p.routes[i].match, to[i])]
  <2>1. p \in StoredProfiles
    BY DEF FormConstants
  <2>2. \A b \in FormBackends : blank(b) \in FormBackends
    BY DEF FormBackends
  <2>3. base \in FormBackends /\ to \in [DOMAIN p.routes -> FormBackends] /\ p.routes \in FormRoutes
    BY <2>1, <2>2, Destinations
  <2>4. Form!Emptied(p) = [p EXCEPT !.base = base, !.routes = rows]
    <3>1. rows = [i \in DOMAIN p.routes |-> Form!Route(p.routes[i].match, blank(p.routes[i].dest))]
      OBVIOUS
    <3>2. QED
      BY <3>1 DEF Form!Emptied
  <2> HIDE DEF to
  <2>5. rows \in FormRoutes
    BY <2>3, Redirected
  <2> HIDE DEF rows, base
  <2>6. Form!Emptied(p) \in StoredProfiles
    <3> DEFINE q == Form!Emptied(p)
    <3>1. q = [p EXCEPT !.base = base, !.routes = rows]
      BY <2>4
    <3> HIDE DEF q
    <3>2. q \in StoredProfiles
      BY <2>1, <2>3, <2>5, <3>1, WithBackends
    <3>3. QED
      BY <3>2 DEF q
  <2>7. Form!Emptied(p).args \in Seq(Seq(Word))
    BY <2>6 DEF StoredProfiles
  <2>8. QED
    BY <2>6, <2>7, FlattenType, ToFormType
<1>3. QED
    BY <1>1, <1>2

FormSessions == [tools : {"", "some"}, layers : SUBSET Form!Layer, settings : {"", "object", "array", "broken"},
                 preset : {"", "preset"}, append : {"", "text", "snippet"}]

LEMMA Changed ==
    ASSUME NEW f \in Forms
    PROVE  /\ \A b \in FormBackends : [f EXCEPT !.base = b] \in Forms
           /\ \A rows \in FormRoutes : [f EXCEPT !.routes = rows] \in Forms
           /\ \A s \in FormSessions : [f EXCEPT !.session = s] \in Forms
           /\ \A c \in {"", "/there", "relative"} : [f EXCEPT !.cwd = c] \in Forms
           /\ \A d \in BOOLEAN : [f EXCEPT !.direct = d] \in Forms
           /\ [f EXCEPT !.inline = "typed"] \in Forms
<1>1. Forms = [base : FormBackends, inline : {None, "typed"}, args : Seq(Word), direct : BOOLEAN,
               cwd : {"", "/there", "relative"}, routes : FormRoutes, session : FormSessions]
    BY DEF Forms, FormSessions
<1>2. \A b \in FormBackends : [f EXCEPT !.base = b] \in Forms
    BY <1>1
<1>3. \A rows \in FormRoutes : [f EXCEPT !.routes = rows] \in Forms
    BY <1>1
<1>4. \A s \in FormSessions : [f EXCEPT !.session = s] \in Forms
    BY <1>1
<1>5. \A c \in {"", "/there", "relative"} : [f EXCEPT !.cwd = c] \in Forms
    BY <1>1
<1>6. \A d \in BOOLEAN : [f EXCEPT !.direct = d] \in Forms
    BY <1>1
<1>7. [f EXCEPT !.inline = "typed"] \in Forms
    BY <1>1
<1>8. QED
    BY <1>2, <1>3, <1>4, <1>5, <1>6, <1>7

LEMMA OpenPage ==
    ASSUME NEW pg \in OpenPages
    PROVE  /\ pg.form \in Forms /\ pg.listed \in SUBSET Form!Accounts /\ pg.strokes \in 0..MaxStrokes
           /\ pg.from \in StoredProfiles \cup {None}
           /\ pg.form.base \in FormBackends /\ pg.form.routes \in FormRoutes /\ pg.form.session \in FormSessions
           /\ pg.form.direct \in BOOLEAN
<1>1. /\ pg.form \in Forms /\ pg.listed \in SUBSET Form!Accounts /\ pg.strokes \in 0..MaxStrokes
      /\ pg.from \in StoredProfiles \cup {None}
    BY DEF OpenPages
<1>2. \A f \in Forms : f.base \in FormBackends /\ f.routes \in FormRoutes /\ f.session \in FormSessions /\ f.direct \in BOOLEAN
    BY DEF Forms, FormSessions
<1>3. QED
    BY <1>1, <1>2

LEMMA StrokeKeeps ==
    ASSUME FormConstants, FormInv, page.pc = "open", NEW f \in Forms, Form!Stroke(f)
    PROVE  FormInv'
<1>1. page \in OpenPages /\ page.strokes \in 0..MaxStrokes
    BY PageKinds, OpenPage DEF FormInv
<1>2. /\ UNCHANGED <<stored, listed, saved, rejected, init, made, removals>>
      /\ page' = [page EXCEPT !.form = f, !.strokes = @ + 1] /\ page.strokes < MaxStrokes
    BY DEF Form!Stroke, Form!Elsewhere
<1>3. page' \in OpenPages /\ page'.pc = "open" /\ page'.strokes # 0
  <2>1. page.strokes + 1 \in 0..MaxStrokes /\ page.strokes + 1 # 0
    <3>1. MaxStrokes \in Nat
      BY DEF FormConstants
    <3>2. QED
      BY <1>1, <1>2, <3>1
  <2> DEFINE n == page.strokes + 1
  <2>2. page' = [page EXCEPT !.form = f, !.strokes = n]
    BY <1>2
  <2> HIDE DEF n
  <2>3. page' \in OpenPages /\ page'.pc = page.pc /\ page'.strokes = n
    BY <1>1, <2>1, <2>2 DEF OpenPages, n
  <2>4. QED
    BY <2>1, <2>3 DEF n
<1>4. QED
    BY <1>2, <1>3 DEF FormInv, AsOpened, Built

LEMMA RowSteps ==
    ASSUME FormConstants, FormInv, Form!AddRow \/ Form!RemoveRow \/ Form!UpdateRoute
    PROVE  FormInv'
<1>1. page.pc = "open"
    BY DEF Form!AddRow, Form!RemoveRow, Form!UpdateRoute
<1>2. page \in OpenPages
    BY <1>1, PageKinds DEF FormInv
<1>3. page.form \in Forms /\ page.form.routes \in FormRoutes /\ page.listed \subseteq Form!Accounts
    BY <1>2, OpenPage
<1> DEFINE rows == page.form.routes
<1>4. DOMAIN rows = 1..Len(rows) /\ Len(rows) \in Nat /\ \A i \in DOMAIN rows : rows[i] \in FormRoute
    BY <1>3, Elements DEF FormRoutes
<1>5. ASSUME NEW new \in FormRoutes, Form!Stroke([page.form EXCEPT !.routes = new]) PROVE FormInv'
  <2>1. [page.form EXCEPT !.routes = new] \in Forms
    BY <1>3, <1>5, Changed
  <2>2. QED
    BY <1>1, <1>5, <2>1, StrokeKeeps
<1>6. \A x \in FormTexts, b \in FormBackends : Form!Route(x, b) \in FormRoute
    BY DEF Form!Route, FormRoute
<1>7. \A m \in Model \cup {"", "unknown"}, pad \in BOOLEAN : Form!Text(m, pad) \in FormTexts
    BY DEF Form!Text, FormTexts
<1> HIDE DEF rows
<1>8. CASE Form!AddRow
  <2> DEFINE r == Form!Route(Form!Text("", FALSE), Form!Backend("subscription", ""))
  <2>1. r \in FormRoute
    BY <1>6, <1>7, AccountsAreBackends
  <2>2. Form!Stroke([page.form EXCEPT !.routes = Append(rows, r)])
    BY <1>8 DEF Form!AddRow, rows
  <2> HIDE DEF r
  <2>3. Append(rows, r) \in FormRoutes
    BY <1>3, <2>1 DEF FormRoutes, rows
  <2>4. QED
    BY <1>5, <2>2, <2>3
<1>9. CASE Form!RemoveRow
  <2>1. PICK i \in DOMAIN rows : Form!Stroke([page.form EXCEPT !.routes = Form!RemoveAt(rows, i)])
    BY <1>9 DEF Form!RemoveRow, rows
  <2>2. SubSeq(rows, 1, i - 1) \in Seq(FormRoute) /\ SubSeq(rows, i + 1, Len(rows)) \in Seq(FormRoute)
    BY <1>4, <2>1, SubSeqProperties
  <2>3. Form!RemoveAt(rows, i) \in FormRoutes
    BY <2>2 DEF Form!RemoveAt, FormRoutes
  <2>4. QED
    BY <1>5, <2>1, <2>3
<1>10. CASE Form!UpdateRoute
  <2>1. PICK i \in DOMAIN rows :
          \/ \E m \in Model \cup {"unknown"}, pad \in BOOLEAN :
               Form!Stroke([page.form EXCEPT !.routes[i].match = Form!Text(m, pad)])
          \/ \E b \in Form!Pickable : Form!Stroke([page.form EXCEPT !.routes[i].dest = b])
    BY <1>10 DEF Form!UpdateRoute, rows
  <2>2. rows \in Seq(FormRoute) /\ rows[i] \in FormRoute
    BY <1>3, <1>4 DEF FormRoutes, rows
  <2>3. \A r \in FormRoute : [rows EXCEPT ![i] = r] \in FormRoutes
    BY <2>1, <2>2 DEF FormRoutes
  <2>5. ASSUME NEW m \in Model \cup {"unknown"}, NEW pad \in BOOLEAN,
               Form!Stroke([page.form EXCEPT !.routes[i].match = Form!Text(m, pad)])
        PROVE  FormInv'
    <3> DEFINE r == [rows[i] EXCEPT !.match = Form!Text(m, pad)]
               new == [rows EXCEPT ![i] = r]
    <3>1. new \in FormRoutes
      <4>1. r \in FormRoute
        BY <1>7, <2>2 DEF FormRoute
      <4> HIDE DEF r
      <4>2. QED
        BY <2>3, <4>1
    <3>2. Form!Stroke([page.form EXCEPT !.routes = new])
      BY <2>5 DEF rows
    <3> HIDE DEF new
    <3>3. QED
      BY <1>5, <3>1, <3>2
  <2>6. ASSUME NEW b \in Form!Pickable, Form!Stroke([page.form EXCEPT !.routes[i].dest = b])
        PROVE  FormInv'
    <3> DEFINE r == [rows[i] EXCEPT !.dest = b]
               new == [rows EXCEPT ![i] = r]
    <3>1. b \in FormBackends
      BY <1>3, AccountsAreBackends DEF Form!Pickable
    <3>2. new \in FormRoutes
      <4>1. r \in FormRoute
        BY <2>2, <3>1 DEF FormRoute
      <4> HIDE DEF r
      <4>2. QED
        BY <2>3, <4>1
    <3>3. Form!Stroke([page.form EXCEPT !.routes = new])
      BY <2>6 DEF rows
    <3> HIDE DEF new
    <3>4. QED
      BY <1>5, <3>2, <3>3
  <2>7. QED
    BY <2>1, <2>5, <2>6
<1>11. QED
    BY <1>8, <1>9, <1>10

LEMMA FieldSteps ==
    ASSUME FormConstants, FormInv,
           Form!PickPreset \/ Form!PickDefault \/ Form!TypeKey \/ Form!SetDirect \/ Form!SetCwd
    PROVE  FormInv'
<1>1. page.pc = "open"
    BY DEF Form!PickPreset, Form!PickDefault, Form!TypeKey, Form!SetDirect, Form!SetCwd
<1>2. page \in OpenPages
    BY <1>1, PageKinds DEF FormInv
<1>3. page.form \in Forms /\ page.form.base \in FormBackends /\ page.form.direct \in BOOLEAN /\ page.listed \subseteq Form!Accounts
    BY <1>2, OpenPage
<1>4. ASSUME NEW f \in Forms, Form!Stroke(f) PROVE FormInv'
    BY <1>1, <1>4, StrokeKeeps
<1>5. CASE Form!PickPreset
    BY <1>4, <1>5, FreshForms DEF Form!PickPreset
<1>6. CASE Form!PickDefault
  <2>1. PICK b \in Form!Pickable \cup {Form!Backend("manual", "provider")} :
          Form!Stroke([page.form EXCEPT !.base = IF b.kind = "text" THEN @ ELSE b])
    BY <1>6 DEF Form!PickDefault
  <2>2. b \in FormBackends
    BY <1>3, AccountsAreBackends DEF Form!Pickable
  <2>3. [page.form EXCEPT !.base = IF b.kind = "text" THEN @ ELSE b] \in Forms
    BY <1>3, <2>2, Changed
  <2>4. QED
    BY <1>4, <2>1, <2>3
<1>7. CASE Form!TypeKey
    BY <1>3, <1>4, <1>7, Changed DEF Form!TypeKey
<1>8. CASE Form!SetDirect
  <2>1. Form!Stroke([page.form EXCEPT !.direct = ~@]) /\ (~page.form.direct) \in BOOLEAN
    BY <1>8 DEF Form!SetDirect
  <2>2. [page.form EXCEPT !.direct = ~@] \in Forms
    BY <1>3, <2>1, Changed
  <2>3. QED
    BY <1>4, <2>1, <2>2
<1>9. CASE Form!SetCwd
    BY <1>3, <1>4, <1>9, Changed DEF Form!SetCwd
<1>10. QED
    BY <1>5, <1>6, <1>7, <1>8, <1>9

LEMMA SessionSteps ==
    ASSUME FormConstants, FormInv, Form!SetSession \/ Form!ToggleLayer
    PROVE  FormInv'
<1>1. page.pc = "open"
    BY DEF Form!SetSession, Form!ToggleLayer
<1>2. page \in OpenPages
    BY <1>1, PageKinds DEF FormInv
<1> DEFINE s == page.form.session
<1>3. page.form \in Forms /\ s \in FormSessions
    BY <1>2, OpenPage
<1>4. ASSUME NEW new \in FormSessions, Form!Stroke([page.form EXCEPT !.session = new]) PROVE FormInv'
  <2>1. [page.form EXCEPT !.session = new] \in Forms
    BY <1>3, Changed
  <2>2. QED
    BY <1>1, <1>4, <2>1, StrokeKeeps
<1> HIDE DEF s
<1>5. CASE Form!SetSession
  <2>1. \/ \E t \in {"", "some"} : Form!Stroke([page.form EXCEPT !.session = [s EXCEPT !.tools = t]])
        \/ \E t \in {"", "object", "array", "broken"} : Form!Stroke([page.form EXCEPT !.session = [s EXCEPT !.settings = t]])
        \/ \E t \in {"", "text"} : Form!Stroke([page.form EXCEPT !.session = [s EXCEPT !.append = t]])
        \/ \E t \in {"", "preset"} :
             Form!Stroke([page.form EXCEPT !.session = [s EXCEPT !.preset = t, !.append = IF t = "" THEN @ ELSE "snippet"]])
    BY <1>5 DEF Form!SetSession, s
  <2>2. \A t \in {"", "some"} : [s EXCEPT !.tools = t] \in FormSessions
    BY <1>3 DEF FormSessions
  <2>3. \A t \in {"", "object", "array", "broken"} : [s EXCEPT !.settings = t] \in FormSessions
    BY <1>3 DEF FormSessions
  <2>4. \A t \in {"", "text"} : [s EXCEPT !.append = t] \in FormSessions
    BY <1>3 DEF FormSessions
  <2>5. \A t \in {"", "preset"} : [s EXCEPT !.preset = t, !.append = IF t = "" THEN @ ELSE "snippet"] \in FormSessions
    BY <1>3 DEF FormSessions
  <2>6. CASE \E t \in {"", "some"} : Form!Stroke([page.form EXCEPT !.session = [s EXCEPT !.tools = t]])
    BY <1>4, <2>2, <2>6
  <2>7. CASE \E t \in {"", "object", "array", "broken"} : Form!Stroke([page.form EXCEPT !.session = [s EXCEPT !.settings = t]])
    BY <1>4, <2>3, <2>7
  <2>8. CASE \E t \in {"", "text"} : Form!Stroke([page.form EXCEPT !.session = [s EXCEPT !.append = t]])
    BY <1>4, <2>4, <2>8
  <2>9. CASE \E t \in {"", "preset"} :
               Form!Stroke([page.form EXCEPT !.session = [s EXCEPT !.preset = t, !.append = IF t = "" THEN @ ELSE "snippet"]])
    BY <1>4, <2>5, <2>9
  <2>10. QED
    BY <2>1, <2>6, <2>7, <2>8, <2>9
<1>6. CASE Form!ToggleLayer
  <2>1. PICK l \in Form!Layer :
          Form!Stroke([page.form EXCEPT !.session = [s EXCEPT !.layers =
            LET shown == IF s.layers = {} THEN Form!Layer ELSE s.layers
            IN IF l \in shown THEN shown \ {l} ELSE shown \cup {l}]])
    BY <1>6 DEF Form!ToggleLayer, s
  <2> DEFINE new == LET shown == IF s.layers = {} THEN Form!Layer ELSE s.layers
                    IN IF l \in shown THEN shown \ {l} ELSE shown \cup {l}
  <2>2. new \in SUBSET Form!Layer
    BY <1>3 DEF FormSessions
  <2>3. Form!Stroke([page.form EXCEPT !.session = [s EXCEPT !.layers = new]])
    BY <2>1
  <2> HIDE DEF new
  <2>4. [s EXCEPT !.layers = new] \in FormSessions
    BY <1>3, <2>2 DEF FormSessions
  <2>5. QED
    BY <1>4, <2>3, <2>4
<1>7. QED
    BY <1>5, <1>6

LEMMA OpenSteps ==
    ASSUME FormConstants, FormInv, Form!OpenStored \/ Form!OpenNew \/ Form!Listed
    PROVE  FormInv'
<1>1. UNCHANGED <<stored, listed, saved, rejected, init, made, removals>>
    BY DEF Form!OpenStored, Form!OpenNew, Form!Listed, Form!Elsewhere
<1>2. ASSUME NEW from \in StoredProfiles \cup {None}, NEW f \in Forms,
             from # None => f = Form!ProfileToForm(from),
             page' = [pc |-> "loading", from |-> from, form |-> f]
      PROVE  FormInv'
  <2>1. page' \in LoadingPages /\ page'.pc = "loading" /\ page'.from = from /\ page'.form = f
    BY <1>2 DEF LoadingPages
  <2>2. AsOpened(page')
    BY <1>2, <2>1 DEF AsOpened
  <2>3. QED
    BY <1>1, <2>1, <2>2 DEF FormInv, AsOpened
<1>3. CASE Form!OpenStored
  <2>1. stored \in StoredProfiles /\ page' = [pc |-> "loading", from |-> stored, form |-> Form!ProfileToForm(stored)]
    BY <1>3 DEF Form!OpenStored, FormInv
  <2>2. stored.args \in Seq(Seq(Word))
    BY <2>1 DEF StoredProfiles
  <2>3. Form!ProfileToForm(stored) \in Forms
    BY <2>1, <2>2, FlattenType, ToFormType
  <2>4. QED
    BY <1>2, <2>1, <2>3
<1>4. CASE Form!OpenNew
  <2>1. PICK f \in {Form!EmptyForm} \cup {Form!ProfileToForm(Form!Emptied(p)) : p \in FormPresets} :
          page' = [pc |-> "loading", from |-> None, form |-> f]
    BY <1>4 DEF Form!OpenNew
  <2>2. f \in Forms
    BY <2>1, FreshForms
  <2>3. QED
    BY <1>2, <2>1, <2>2
<1>5. CASE Form!Listed
  <2>1. page \in LoadingPages /\ page.pc = "loading" /\ AsOpened(page)
    BY <1>5, PageKinds DEF Form!Listed, FormInv
  <2>2. page.from \in StoredProfiles \cup {None} /\ page.form \in Forms
    BY <2>1 DEF LoadingPages
  <2>3. page' = [pc |-> "open", from |-> page.from, form |-> page.form, listed |-> listed, strokes |-> 0]
    BY <1>5 DEF Form!Listed
  <2>4. listed \in SUBSET Form!Accounts /\ 0 \in 0..MaxStrokes
    <3>1. MaxStrokes \in Nat
      BY DEF FormConstants
    <3>2. listed \subseteq Form!Accounts
      BY DEF FormInv
    <3>3. QED
      BY <3>1, <3>2
  <2>5. page' \in OpenPages /\ page'.pc = "open" /\ page'.from = page.from /\ page'.form = page.form
    BY <2>2, <2>3, <2>4 DEF OpenPages
  <2>6. AsOpened(page')
    BY <2>1, <2>5 DEF AsOpened
  <2>7. QED
    BY <1>1, <2>5, <2>6 DEF FormInv, AsOpened
<1>6. QED
    BY <1>3, <1>4, <1>5

LEMMA SaveSteps ==
    ASSUME FormConstants, FormInv, Form!Submit \/ Form!SaveProfile \/ Form!Leave
    PROVE  FormInv'
<1>1. page \in OpenPages /\ page.pc \in {"open", "saving"}
    BY PageKinds DEF FormInv, Form!Submit, Form!SaveProfile, Form!Leave
<1>2. UNCHANGED <<listed, init, made, removals>>
    BY DEF Form!Submit, Form!SaveProfile, Form!Leave, Form!Elsewhere
<1>3. Form!Left.pc = "left"
    BY DEF Form!Left
<1>4. ASSUME NEW pc \in {"open", "saving"}, NEW q, q = [page EXCEPT !.pc = pc]
      PROVE  /\ q \in OpenPages /\ q.pc = pc /\ q.strokes = page.strokes /\ q.from = page.from
             /\ q.form = page.form /\ q.listed = page.listed
    BY <1>1, <1>4 DEF OpenPages
<1>5. CASE Form!Submit
  <2>1. page' = [page EXCEPT !.pc = "saving"] /\ Built(page) /\ UNCHANGED <<stored, saved, rejected>>
    BY <1>5 DEF Form!Submit, Built
  <2>2. /\ page' \in OpenPages /\ page'.pc = "saving" /\ page'.strokes = page.strokes /\ page'.from = page.from
        /\ page'.form = page.form /\ page'.listed = page.listed
    BY <1>4, <2>1
  <2>3. Built(page') /\ (page'.strokes = 0 => AsOpened(page'))
    BY <1>1, <2>1, <2>2 DEF Built, AsOpened, FormInv
  <2>4. QED
    BY <1>2, <2>1, <2>2, <2>3 DEF FormInv, AsOpened, Built
<1>6. CASE Form!SaveProfile
  <2> DEFINE p == Form!FormToProfile(page.form)
  <2>1. page.pc = "saving" /\ Built(page) /\ (page.strokes = 0 => AsOpened(page)) /\ page.form \in Forms
        /\ page.listed \in SUBSET Form!Accounts
    BY <1>1, <1>6, OpenPage DEF Form!SaveProfile, FormInv
  <2>2. CASE Form!Validated(p)
    <3>1. stored' = p /\ saved' = [profile |-> p, page |-> page] /\ page' = Form!Left /\ UNCHANGED rejected
      BY <1>6, <2>2 DEF Form!SaveProfile
    <3>2. p \in StoredProfiles
      <4>1. page.form.args \in Seq(Word) /\ page.form.routes \in FormRoutes
        BY <2>1 DEF Forms
      <4>2. Singles(page.form.args) \in Seq(Seq(Word)) /\ TrimmedRoutes(page.form.routes) \in FormRoutes
        BY <4>1, SinglesType, Trimmed
      <4>3. QED
        BY <2>1, <4>2, ToProfile, RewrittenType
    <3> HIDE DEF p
    <3>3. saved'.profile = p /\ saved'.page = page
      BY <3>1
    <3>4. QED
      BY <1>1, <1>2, <1>3, <2>1, <3>1, <3>2, <3>3 DEF FormInv, AsOpened, Built, p
  <2>3. CASE ~Form!Validated(p)
    <3>1. rejected' = p /\ page' = [page EXCEPT !.pc = "open"] /\ UNCHANGED <<stored, saved>>
      BY <1>6, <2>3 DEF Form!SaveProfile
    <3>2. p.cwd = "relative"
      BY <2>1, <2>3, BuildableIsValid DEF Built
    <3> HIDE DEF p
    <3>3. /\ page' \in OpenPages /\ page'.pc = "open" /\ page'.strokes = page.strokes /\ page'.from = page.from
          /\ page'.form = page.form
      BY <1>4, <3>1
    <3>4. page'.strokes = 0 => AsOpened(page')
      BY <2>1, <3>3 DEF AsOpened
    <3>5. QED
      BY <1>2, <3>1, <3>2, <3>3, <3>4 DEF FormInv, AsOpened, Built
  <2>4. QED
    BY <2>2, <2>3
<1>7. CASE Form!Leave
    BY <1>2, <1>3, <1>7 DEF Form!Leave, FormInv, AsOpened, Built
<1>8. QED
    BY <1>5, <1>6, <1>7

\* One account of a kind is one that can be chosen.
LEMMA OnlyOne ==
    ASSUME NEW S, Form!Cardinality(S) = 1
    PROVE  (CHOOSE c \in S : TRUE) \in S
<1>1. Form!Cardinality(S) = Cardinality(S)
    BY DEF Form!Cardinality, Cardinality
<1>2. S # {}
    BY <1>1, FS_EmptySet
<1>3. QED
    BY <1>2

LEMMA InitLooksKeeps ==
    ASSUME FormConstants, FormInv, Form!InitLooks
    PROVE  FormInv'
<1>1. UNCHANGED <<stored, listed, page, saved, rejected, made>> /\ removals' = removals + 1 /\ removals < MaxRemovals
    BY DEF Form!InitLooks, Form!Edit
<1>2. removals' \in 0..MaxRemovals
  <2>1. MaxRemovals \in Nat /\ removals \in 0..MaxRemovals
    BY DEF FormConstants, FormInv
  <2>2. QED
    BY <1>1, <2>1
<1> DEFINE of(kind) == {b \in listed : b.kind = kind}
           backends(p) == {p.base} \cup {p.routes[i].dest : i \in DOMAIN p.routes}
           needs(p) == {b.kind : b \in {b \in backends(p) : b.id = "slot"}}
           fill(b, flags) == IF b.id # "slot" THEN b
                             ELSE IF flags[b.kind] # None THEN Form!Backend(b.kind, flags[b.kind])
                             ELSE CHOOSE c \in of(b.kind) : TRUE
<1>3. PICK p \in FormPresets, flags \in [{"subscription", "key"} -> Login \cup KeyId \cup {None}] :
        /\ \A kind \in needs(p) : IF flags[kind] # None THEN Form!Backend(kind, flags[kind]) \in listed
                                  ELSE Form!Cardinality(of(kind)) = 1
        /\ init' = [pc |-> "save", saw |-> listed,
                    profile |-> [p EXCEPT !.base = fill(@, flags),
                                          !.routes = [i \in DOMAIN @ |-> Form!Route(@[i].match, fill(@[i].dest, flags))]]]
    BY DEF Form!InitLooks
<1>4. p \in StoredProfiles /\ \A b \in backends(p) : Slotted(b)
    BY DEF FormConstants
<1>5. listed \subseteq Form!Accounts /\ p.routes \in FormRoutes /\ \A b \in backends(p) : b \in FormBackends
    BY <1>4, Destinations DEF FormInv
<1>6. ASSUME NEW b \in backends(p)
      PROVE  /\ fill(b, flags) \in FormBackends
             /\ fill(b, flags) \in listed \/ fill(b, flags) = Form!Backend("subscription", "") \/ fill(b, flags).kind = "manual"
  <2>1. CASE b.id # "slot"
    BY <1>4, <1>5, <1>6, <2>1 DEF Slotted
  <2>2. CASE b.id = "slot"
    <3>1. b.kind \in needs(p)
      BY <1>6, <2>2
    <3>2. fill(b, flags) \in listed
      <4>1. CASE flags[b.kind] # None
        BY <1>3, <2>2, <3>1, <4>1
      <4>2. CASE flags[b.kind] = None
        <5>1. Form!Cardinality(of(b.kind)) = 1
          BY <1>3, <3>1, <4>2
        <5>2. (CHOOSE c \in of(b.kind) : TRUE) \in of(b.kind)
          BY <5>1, OnlyOne
        <5>3. QED
          BY <2>2, <4>2, <5>2
      <4>3. QED
        BY <4>1, <4>2
    <3>3. QED
      BY <1>5, <3>2, AccountsAreBackends
  <2>3. QED
    BY <2>1, <2>2
<1> DEFINE to == [i \in DOMAIN p.routes |-> fill(p.routes[i].dest, flags)]
           rows == [i \in DOMAIN p.routes |-> Form!Route(p.routes[i].match, to[i])]
           base == fill(p.base, flags)
           q == [p EXCEPT !.base = base, !.routes = rows]
<1> HIDE DEF fill, of, needs
<1>7. init' = [pc |-> "save", saw |-> listed, profile |-> q]
  <2>1. rows = [i \in DOMAIN p.routes |-> Form!Route(p.routes[i].match, fill(p.routes[i].dest, flags))]
    OBVIOUS
  <2>2. init' = [pc |-> "save", saw |-> listed,
                 profile |-> [p EXCEPT !.base = fill(p.base, flags),
                                       !.routes = [i \in DOMAIN p.routes |-> Form!Route(p.routes[i].match, fill(p.routes[i].dest, flags))]]]
    BY <1>3
  <2> HIDE DEF rows
  <2>3. QED
    BY <2>1, <2>2
<1>8. base \in FormBackends /\ to \in [DOMAIN p.routes -> FormBackends]
  <2>1. p.base \in backends(p) /\ \A i \in DOMAIN p.routes : p.routes[i].dest \in backends(p)
    OBVIOUS
  <2> HIDE DEF backends
  <2>2. QED
    BY <1>6, <2>1
<1>9. \A b \in {base} \cup {to[i] : i \in DOMAIN p.routes} :
        b \in listed \/ b = Form!Backend("subscription", "") \/ b.kind = "manual"
  <2>1. p.base \in backends(p) /\ \A i \in DOMAIN p.routes : p.routes[i].dest \in backends(p)
    OBVIOUS
  <2>2. \A i \in DOMAIN p.routes : to[i] = fill(p.routes[i].dest, flags)
    OBVIOUS
  <2> DEFINE Right(b) == b \in listed \/ b = Form!Backend("subscription", "") \/ b.kind = "manual"
  <2>3. Right(base)
    BY <1>6, <2>1
  <2>4. ASSUME NEW i \in DOMAIN p.routes PROVE Right(to[i])
    <3>1. p.routes[i].dest \in backends(p) /\ to[i] = fill(p.routes[i].dest, flags)
      BY <2>1, <2>2
    <3>2. Right(fill(p.routes[i].dest, flags))
      BY <1>6, <3>1
    <3>3. QED
      BY <3>1, <3>2
  <2> HIDE DEF to, base
  <2>5. QED
    BY <2>3, <2>4
<1> HIDE DEF to, base
<1>10. rows \in FormRoutes /\ DOMAIN rows = DOMAIN p.routes /\ \A i \in DOMAIN p.routes : rows[i].dest = to[i]
    BY <1>5, <1>8, Redirected
<1> HIDE DEF rows
<1>11. q \in StoredProfiles /\ q.base = base /\ q.routes = rows
  <2>1. q = [p EXCEPT !.base = base, !.routes = rows] /\ p \in StoredProfiles
    BY <1>4
  <2>2. base \in FormBackends /\ rows \in FormRoutes
    BY <1>8, <1>10
  <2> HIDE DEF q
  <2>3. q \in StoredProfiles
    BY <2>1, <2>2, WithBackends
  <2>4. q.base = base
    BY <2>1 DEF StoredProfiles
  <2>5. q.routes = rows
    BY <2>1 DEF StoredProfiles
  <2>6. QED
    BY <2>3, <2>4, <2>5
<1> HIDE DEF q
<1>12. Form!Named(q) \subseteq listed
  <2>1. SUFFICES ASSUME NEW b \in Form!Named(q) PROVE b \in listed
    OBVIOUS
  <2>2. /\ b # Form!Backend("subscription", "") /\ b.kind # "manual"
        /\ b = q.base \/ \E i \in DOMAIN q.routes : b = q.routes[i].dest
    BY DEF Form!Named
  <2>3. QED
    BY <1>9, <1>10, <1>11, <2>2
<1>13. init' \in InitPlans /\ init'.pc = "save" /\ init'.profile = q /\ init'.saw = listed
    BY <1>5, <1>7, <1>11 DEF InitPlans
<1>14. QED
    BY <1>1, <1>2, <1>12, <1>13 DEF FormInv, AsOpened, Built

LEMMA ElsewhereSteps ==
    ASSUME FormConstants, FormInv,
           (\E b \in Form!Accounts : Form!RemoveAccount(b)) \/ Form!DeleteProfile \/ Form!InitSaves
    PROVE  FormInv'
<1>1. MaxRemovals \in Nat /\ removals \in 0..MaxRemovals
    BY DEF FormConstants, FormInv
<1>2. CASE (\E b \in Form!Accounts : Form!RemoveAccount(b)) \/ Form!DeleteProfile
  <2>1. /\ UNCHANGED <<page, saved, rejected, init, made>> /\ removals' = removals + 1 /\ removals < MaxRemovals
        /\ listed' \subseteq listed /\ stored' \in {stored, None}
    BY <1>2 DEF Form!RemoveAccount, Form!DeleteProfile, Form!Edit
  <2>2. removals' \in 0..MaxRemovals
    BY <1>1, <2>1
  <2>3. QED
    BY <2>1, <2>2 DEF FormInv, AsOpened, Built
<1>3. CASE Form!InitSaves
  <2>1. /\ UNCHANGED <<listed, page, saved, rejected, removals>> /\ init.pc = "save"
        /\ stored' = init.profile /\ made' = init /\ init' = Form!NoInit
    BY <1>3 DEF Form!InitSaves
  <2>2. init \in InitPlans
    BY <2>1, InitKinds DEF FormInv
  <2>3. init.profile \in StoredProfiles /\ Form!NoInit.pc # "save"
    BY <2>2 DEF InitPlans, Form!NoInit
  <2>4. QED
    BY <2>1, <2>3 DEF FormInv, AsOpened, Built
<1>4. QED
    BY <1>2, <1>3

(* "stale refs can't sneak through" (ProfileForm.tsx:513) and duplicates are "flagged never-fires to
   mirror first-row-wins" (routeSummary.ts:105), for any accounts, models, profiles and presets and any
   edits: a saved profile names only accounts that the page lists, the proxy picks for every model
   the backend the page showed for it, what is opened and saved untouched keeps its meaning, the
   server refuses what the page let through for its directory alone, and `init` fills its slots
   with accounts it saw.                                                                          *)
THEOREM FormIsWhatItShows ==
    ASSUME FormConstants
    PROVE  Form!Spec => [](Form!TypeOK /\ Form!FormSavesWhatItShows)
<1>1. Form!Init => FormInv
  <2> SUFFICES ASSUME Form!Init PROVE FormInv
    OBVIOUS
  <2>1. Form!NoPage.pc = "closed" /\ Form!NoInit.pc = "idle" /\ 0 \in 0..MaxRemovals
    <3>1. MaxRemovals \in Nat
      BY DEF FormConstants
    <3>2. QED
      BY <3>1 DEF Form!NoPage, Form!NoInit
  <2>2. stored \in StoredProfiles \cup {None}
    BY DEF Form!Init, FormConstants
  <2>3. QED
    BY <2>1, <2>2 DEF Form!Init, FormInv, AsOpened, Built
<1>2. FormInv /\ [Form!Next]_(Form!vars) => FormInv'
  <2>1. ASSUME FormInv, UNCHANGED Form!vars PROVE FormInv'
    BY <2>1 DEF FormInv, Form!vars, AsOpened, Built
  <2>2. ASSUME FormInv, Form!Next PROVE FormInv'
    BY <2>2, RowSteps, FieldSteps, SessionSteps, OpenSteps, SaveSteps, InitLooksKeeps, ElsewhereSteps DEF Form!Next
  <2>3. QED
    BY <2>1, <2>2
<1>3. FormInv => Form!TypeOK
  <2> SUFFICES ASSUME FormInv PROVE Form!TypeOK
    OBVIOUS
  <2>1. page.pc \in {"closed", "loading", "open", "saving", "left"} /\ init.pc \in {"idle", "save"}
    BY PageKinds, InitKinds DEF FormInv
  <2>2. ASSUME page.pc = "open" PROVE page.strokes \in 0..MaxStrokes /\ page.listed \subseteq Form!Accounts
                                      /\ page.form.session.layers \subseteq Form!Layer
    <3>1. page \in OpenPages
      BY <2>2, PageKinds DEF FormInv
    <3>2. \A x \in FormSessions : x.layers \subseteq Form!Layer
      BY DEF FormSessions
    <3>3. QED
      BY <3>1, <3>2, OpenPage
  <2>3. QED
    BY <2>1, <2>2 DEF FormInv, Form!TypeOK
<1>4. FormInv => Form!FormSavesWhatItShows
  <2> SUFFICES ASSUME FormInv PROVE Form!FormSavesWhatItShows
    OBVIOUS
  <2>1. ASSUME saved # None
        PROVE  /\ Form!Named(saved.profile) \subseteq saved.page.listed
               /\ Form!Selected(saved.profile) = Form!Mapping(saved.page.form.routes)
    BY <2>1, OpenPage, BuildableShows DEF FormInv, Built
  <2> DEFINE p == saved.profile
             from == saved.page.from
  <2>2. ASSUME saved # None, from # None, saved.page.strokes = 0
        PROVE  [p EXCEPT !.args = Form!FlattenSeq(@)] =
               [from EXCEPT !.args = Form!FlattenSeq(@), !.session.tools = IF @ = None THEN None ELSE Form!OrNone(@),
                            !.session.layers = IF @ = Form!Layer THEN {} ELSE @,
                            !.routes = [i \in DOMAIN @ |-> Form!Route(Form!Trim(@[i].match), @[i].dest)]]
    <3>1. from \in StoredProfiles /\ p = Form!FormToProfile(Form!ProfileToForm(from))
      BY <2>2, OpenPage DEF FormInv, AsOpened
    <3> HIDE DEF p, from
    <3>2. QED
      BY <3>1, ReopensAsStored
  <2>3. rejected # None => rejected.cwd = "relative"
    BY DEF FormInv
  <2>4. made # None => Form!Named(made.profile) \subseteq made.saw
    BY DEF FormInv
  <2>5. QED
    BY <2>1, <2>2, <2>3, <2>4 DEF Form!FormSavesWhatItShows
<1>5. QED
    BY <1>1, <1>2, <1>3, <1>4, PTL DEF Form!Spec
-----------------------------------------------------------------------------
(* The command that serves the UI *)

\* Room for the two children that one update pass may start.
TwoChildren == MaxChild \in Nat /\ MaxChild >= 2

\* Which child may run, and how many exits may have ended the command, at each step of the update.
Spawned ==
    /\ generation = IF update \in {"start", "check", "install", "resolve"} THEN 1
                    ELSE IF update = "over" THEN generation ELSE 2
    /\ generation \in {1, 2}
    /\ alive \subseteq {Command!Latest}
    /\ update = "teardown" => alive = {}
    /\ closing <= (IF update \in Command!Restarting THEN 1
                   ELSE IF alive = {} THEN generation ELSE generation - 1)

\* An exit that nobody waits for ends the command, and the end of the command closes its proxy.
EndIsSeen ==
    /\ alive = {} => done \/ closing > 0 \/ update \in Command!Restarting
    /\ done => proxy # "open"

\* Once the timer of a stop has fired, whoever is still alive has been sent the signal no process survives.
StopReachesAll == killTimer = "fired" => signalled /\ \A c \in alive : told[c] = "kill"

\* A stop starts nothing.
StopStartsNothing == signalled => signalled' /\ alive' \subseteq alive

\* So is a child that did not leave within the time a restart gives it.
KilledIsTold == update = "kill" => \A c \in alive : told[c] = "kill"

CommandInv ==
    /\ Command!TypeOK /\ Spawned /\ EndIsSeen /\ StopReachesAll /\ KilledIsTold
    /\ killTimer # "off" <=> signalled

LEMMA CommandStep ==
    ASSUME TwoChildren, CommandInv, Command!Next
    PROVE  CommandInv' /\ StopStartsNothing
<1> USE DEF TwoChildren, CommandInv, Command!TypeOK, Spawned, EndIsSeen, StopReachesAll, KilledIsTold, StopStartsNothing,
        Command!Child, Command!Restarting, Command!Latest, Command!Replaced
<1>0. /\ generation \in {1, 2} /\ closing \in 0..2 /\ alive \in SUBSET (1..MaxChild) /\ {1, 2} \subseteq 1..MaxChild
      /\ told \in [1..MaxChild -> {"no", "term", "kill"}]
    OBVIOUS
<1>1. CASE Command!LoadMode \/ Command!Check \/ Command!Install
  <2>1. /\ update \in {"start", "check", "install"} /\ update' \in {"check", "install", "resolve", "over"}
        /\ UNCHANGED <<proxy, alive, told, generation, closing, done, signalled, killTimer>>
    BY <1>1 DEF Command!LoadMode, Command!Check, Command!Install, Command!Rest
  <2>2. QED
    BY <1>0, <2>1
<1>2. CASE Command!Detach
  <2>1. CASE update' = "over" /\ UNCHANGED <<generation, told>>
    BY <1>0, <1>2, <2>1 DEF Command!Detach
  <2>2. CASE update' = "wait" /\ generation' = generation + 1 /\ Command!Send(generation, "term")
    <3>1. /\ generation = 1 /\ generation' = 2 /\ generation' - 1 = 1
          /\ told' \in [1..MaxChild -> {"no", "term", "kill"}] /\ (told[1] = "kill" /\ 1 \in alive => told'[1] = "kill")
      BY <1>0, <1>2, <2>2 DEF Command!Detach, Command!Send
    <3>2. QED
      BY <1>0, <1>2, <2>2, <3>1 DEF Command!Detach
  <2>3. QED
    BY <1>2, <2>1, <2>2 DEF Command!Detach
<1>3. CASE Command!WaitOver \/ Command!Killed
  <2>1. alive = {} /\ generation = 2 /\ update \in {"wait", "kill"}
    BY <1>0, <1>3 DEF Command!WaitOver, Command!Killed
  <2>2. QED
    BY <1>0, <1>3, <2>1 DEF Command!WaitOver, Command!Killed, Command!Respawn
<1>4. CASE Command!WaitTooLong
  <2>1. /\ generation - 1 = 1 /\ update = "wait" /\ update' = "kill" /\ told' \in [1..MaxChild -> {"no", "term", "kill"}]
        /\ 1 \in alive /\ told'[1] = "kill"
    BY <1>0, <1>4 DEF Command!WaitTooLong, Command!Send
  <2>2. QED
    BY <1>0, <1>4, <2>1 DEF Command!WaitTooLong
<1>5. ASSUME NEW c \in Command!Child, Command!Exit(c) PROVE CommandInv' /\ StopStartsNothing
  <2>1. alive' = {} /\ alive = {c} /\ update # "teardown"
    BY <1>0, <1>5 DEF Command!Exit
  <2>2. closing' = (IF c = generation THEN closing + 1 ELSE closing)
    BY <1>0, <1>5 DEF Command!Exit, Command!Watched
  <2>3. QED
    BY <1>0, <1>5, <2>1, <2>2 DEF Command!Exit
<1>6. CASE Command!Close
    BY <1>0, <1>6 DEF Command!Close
<1>7. CASE Command!Signal \/ Command!KillLater
  <2>1. PICK signal \in {"term", "kill"} :
          /\ told' = [told EXCEPT ![Command!Latest] = IF Command!Latest \in alive /\ @ # "kill" THEN signal ELSE @]
          /\ \/ signal = "term" /\ ~signalled /\ signalled' = TRUE /\ killTimer' = "set"
             \/ signal = "kill" /\ killTimer = "set" /\ signalled' = signalled /\ killTimer' = "fired"
          /\ UNCHANGED <<proxy, alive, generation, closing, done, update>>
    BY <1>7 DEF Command!Signal, Command!KillLater, Command!Send
  <2>2. /\ told' \in [1..MaxChild -> {"no", "term", "kill"}]
        /\ \A c \in alive : told'[c] = IF told[c] # "kill" THEN signal ELSE "kill"
    BY <1>0, <2>1
  <2>3. QED
    BY <1>0, <2>1, <2>2
<1>8. QED
    BY <1>1, <1>2, <1>3, <1>4, <1>5, <1>6, <1>7 DEF Command!Next, Command!UpdateStep

(* A stop signal (web.ts:230-251) starts no child again, also in the middle of a restart; every child
   that outlives its timer has been sent SIGKILL; and no exit goes unseen: where no child runs, the
   command is over and its proxy closed, or is about to be, or a restart goes on.                    *)
THEOREM StopLeavesNothing ==
    ASSUME TwoChildren
    PROVE  Command!Spec => [](Command!TypeOK /\ StopReachesAll /\ EndIsSeen) /\ [][StopStartsNothing]_(Command!vars)
<1>1. Command!Init => CommandInv
  <2> SUFFICES ASSUME Command!Init PROVE CommandInv
    OBVIOUS
  <2>1. /\ alive = {1} /\ generation = 1 /\ update = "start" /\ closing = 0 /\ done = FALSE /\ signalled = FALSE
        /\ killTimer = "off" /\ proxy \in {"none", "open"} /\ told \in [1..MaxChild -> {"no", "term", "kill"}]
        /\ alive \in SUBSET (1..MaxChild) /\ alive # {}
    BY DEF TwoChildren, Command!Init, Command!Child
  <2>2. Command!TypeOK
    <3>1. generation \in 0..(MaxChild + 1) /\ closing \in 0..2
      BY <2>1 DEF TwoChildren
    <3>2. {done, signalled} \subseteq BOOLEAN
      BY <2>1
    <3>3. QED
      BY <2>1, <3>1, <3>2 DEF Command!TypeOK, Command!Child
  <2>3. Spawned
    BY <2>1 DEF Spawned, Command!Restarting, Command!Latest
  <2>4. QED
    BY <2>1, <2>2, <2>3 DEF CommandInv, EndIsSeen, StopReachesAll, KilledIsTold
<1>2. CommandInv /\ [Command!Next]_(Command!vars) => CommandInv' /\ [StopStartsNothing]_(Command!vars)
  <2>1. CASE UNCHANGED Command!vars
    BY <2>1 DEF Command!vars, CommandInv, Command!TypeOK, Spawned, EndIsSeen, StopReachesAll, KilledIsTold,
           Command!Child, Command!Restarting, Command!Latest, Command!Replaced
  <2>2. QED
    BY <2>1, CommandStep
<1>3. CommandInv => Command!TypeOK /\ StopReachesAll /\ EndIsSeen
    BY DEF CommandInv
<1>4. QED
    BY <1>1, <1>2, <1>3, PTL DEF Command!Spec
-----------------------------------------------------------------------------
(* The two sources of a report *)

\* Times are numbers, and None is no time.
TimesAreNumbers ==
    /\ None \notin Int /\ \A e \in Exchanges : e.ts \in Int
    /\ \A f \in Filters : {f.since, f.until} \subseteq Int \cup {None} /\ f.errors \in BOOLEAN

LEMMA SameQuestion ==
    ASSUME TimesAreNumbers, NEW e \in Exchanges, NEW f \in Filters
    PROVE  Report!ExchangeWhere(e, f) <=> Report!MatchTrafficFilter(e, f)
<1>1. f.since # None => ((e.ts >= f.since) <=> ~(e.ts < f.since))
    BY DEF TimesAreNumbers
<1>2. QED
    BY <1>1 DEF Report!ExchangeWhere, Report!MatchTrafficFilter, Report!SqlEq, Report!IsError

RowsAreExchanges == exchanges \in Seq(Exchanges) /\ filter \in Filters

(* "Same questions, same answers, two sources" (trafficLog.ts:78-82): for any exchanges and any filter the
   SQL of the store and the filter of the ring select the same.                                          *)
THEOREM SourcesAgree ==
    ASSUME TimesAreNumbers
    PROVE  Report!Spec => []Report!SameAnswers
<1>1. Report!Init => RowsAreExchanges
    BY DEF Report!Init, RowsAreExchanges
<1>2. RowsAreExchanges /\ [Report!Next]_(Report!vars) => RowsAreExchanges'
    BY DEF Report!Next, Report!vars, Report!MoreExchanges, Report!MoreTurns, RowsAreExchanges
<1>3. RowsAreExchanges => Report!SameAnswers
  <2> SUFFICES ASSUME RowsAreExchanges, NEW n \in DOMAIN exchanges
               PROVE  Report!ExchangeWhere(exchanges[n], filter) = Report!MatchTrafficFilter(exchanges[n], filter)
    BY DEF Report!SameAnswers
  <2>1. exchanges[n] \in Exchanges /\ filter \in Filters
    BY DEF RowsAreExchanges
  <2>2. QED
    BY <2>1, SameQuestion DEF Report!ExchangeWhere, Report!MatchTrafficFilter
<1>4. QED
    BY <1>1, <1>2, <1>3, PTL DEF Report!Spec
=============================================================================

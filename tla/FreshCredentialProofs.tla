----------------------- MODULE FreshCredentialProofs ------------------------
(* Refreshing, adopting and switching credentials, for any accounts, logins, flights and processes:
   freshCredential.ts, liveResync.ts and liveMirror.ts with everything that writes the vault or Claude
   Code's store beside them, under any mixture of crashes, lost answers and failing stores.

   Some of what is wanted holds only where part of this stays away.  Those parts are named here, and
   the invariant says of each what it needs; RecoversAlone and Undisturbed, which have invariants of
   their own, are named where those begin.                                                         *)
EXTENDS FreshCredential, TLAPS

\* Everybody takes the account lock, and waits for it.
Calm == LockHolds /\ \A f \in Flight : Role[f] \in {"ask", "switch"}

\* The email guard always gets an answer, and only refreshes write the accounts.
Guarded ==
    /\ ~NetFails /\ \A f \in Flight : Role[f] # "manage"
    /\ \A a \in Account : InitVault[a] # None /\ InitEmail[a] # None => OwnerOf[InitVault[a]] = InitEmail[a]

\* Only switches work on the account.
Switching(a) == \A f \in Flight : AcctOf[f] = a => Role[f] = "switch"
-----------------------------------------------------------------------------
(* The invariant *)

Typed == TypeOK /\ \A l \in Lineage : server[l].rt <= server[l].at

\* The credentials that can still be written somewhere.
Copies == Everywhere \cup {NoCred} \cup UNION {{fl[f].stored, fl[f].sent, fl[f].next} : f \in Flight}

\* They were all issued, and the younger of two access tokens comes with no older refresh token.
Coherent ==
    /\ \A c \in Copies \ {NoCred} :
           1 <= c.rt /\ c.rt <= server[c.lin].rt /\ c.at <= server[c.lin].at
    /\ \A c, d \in Copies \ {NoCred} : c.lin = d.lin /\ c.at <= d.at => c.rt <= d.rt

Locking == \A f \in Flight : fl[f].locked => owner[AcctOf[f]] = f

\* What the control point of flight f says of its record r.
Struct(f, r) ==
    /\ r.locked => r.pc \in Inside /\ ~r.probe
    /\ r.probe => r.pc \in Inside \cup {"check"} /\ Role[f] = "recover"
    /\ r.pc = "check" => r.probe
    /\ r.pc = "sent" => Role[f] = "recover"
    /\ r.pc \in {"impCheck", "impSave", "rnSave"} => Role[f] = "manage"
    /\ r.pc \in {"install", "verify"} => Role[f] = "switch"
    /\ r.pc \in {"refresh", "rsOwned", "mirror", "mirrorWrite"} => r.sent # NoCred
    /\ r.pc \in {"mirror", "mirrorWrite", "email", "save", "write", "hand", "handWrite", "install",
                 "impCheck", "impSave", "rnSave"} => r.next # NoCred
    /\ r.pc \in Inside /\ LockHolds => r.locked \/ r.probe

\* What is about to be saved is not older than what the vault holds: either the vault's own token has
\* been spent on it, or the vault's access token had expired and this one had not.
Mono(r, held, lap) ==
    /\ r.pc = "live" => r.stored = held
    /\ r.pc \in {"rsLoad", "rsLive", "rsOwned"} \/ (r.pc = "refresh" /\ r.then = "vault")
          => held = NoCred \/ held.at <= lap[held.lin]
    /\ r.pc \in {"mirror", "mirrorWrite", "email", "save", "write"}
          => (r.next.lin = held.lin => r.next.rt >= held.rt)

Fits(a, c) == c # NoCred /\ InitEmail[a] # None => OwnerOf[c.lin] = InitEmail[a]

\* What is about to be saved is the login of the person the account belongs to.
Mail(a, r) ==
    /\ r.pc = "live" => Fits(a, r.stored)
    /\ r.pc = "refresh" /\ r.then = "vault" => Fits(a, r.sent)
    /\ r.pc \in {"mirror", "mirrorWrite"} /\ r.then = "vault" => Fits(a, r.next)
    /\ r.pc \in {"save", "write"} => Fits(a, r.next) \/ InitVault[a] = None
    /\ r.pc = "write" => InitVault[a] # None /\ r.mail = InitEmail[a]

\* A switch stays within the lineage its account started with.
Own(a, r) ==
    /\ r.pc \notin {"rsLoad", "rsLive", "rsOwned", "email"}
    /\ r.pc = "live" => r.stored.lin = InitVault[a]
    /\ r.pc = "refresh" => r.then = "vault" /\ r.sent.lin = InitVault[a]
    /\ r.pc \in {"mirror", "mirrorWrite"} => r.then = "vault"
    /\ r.pc \in {"mirror", "mirrorWrite", "save", "write", "hand", "handWrite", "install"}
          => r.next.lin = InitVault[a]

Sound(f, r, held, lap) ==
    /\ Struct(f, r)
    /\ Calm => Mono(r, held, lap)
    /\ Guarded => Mail(AcctOf[f], r)
    /\ Switching(AcctOf[f]) => Own(AcctOf[f], r)

Flights == \A f \in Flight : Sound(f, fl[f], vault[AcctOf[f]], lapsed)

Vaults ==
    /\ Guarded => /\ email = InitEmail
                  /\ \A a \in Account : Fits(a, vault[a]) /\ (vault[a] = NoCred <=> InitVault[a] = None)
    /\ \A a \in Account : Switching(a) => vault[a].lin = InitVault[a]

IInv == Typed /\ Coherent /\ Locking /\ Flights /\ Vaults
-----------------------------------------------------------------------------
(* The shapes of a step *)

\* Where a flight stands with respect to the account lock.
Zone(r) ==
    IF r.pc = "lock" THEN "wait"
    ELSE IF r.pc \in Inside /\ ~r.probe THEN IF r.locked THEN "in" ELSE "bare"
    ELSE "out"

\* Flight f moves and ends up sound, with copies of what was there; the others stay.
Moved(f) ==
    /\ fl' \in [Flight -> Local] /\ \A g \in Flight \ {f} : fl'[g] = fl[g]
    /\ {fl'[f].stored, fl'[f].sent, fl'[f].next} \subseteq Copies
    /\ Sound(f, fl'[f], Held(f), lapsed)

\* It stays where it is with respect to the lock ...
Kept(f) ==
    /\ Moved(f) /\ owner' = owner
    /\ fl'[f].locked = fl[f].locked /\ Zone(fl'[f]) = Zone(fl[f])

\* ... or begins to wait for it, having done without so far ...
Waits(f) ==
    /\ Moved(f) /\ owner' = owner /\ ~fl[f].locked /\ ~fl'[f].locked
    /\ Zone(fl[f]) = "out" /\ Zone(fl'[f]) = "wait"

\* ... or leaves the critical section, with the credential a switch goes on to install or for good.
Left(f) == Moved(f) /\ Unlock(f) /\ ~fl'[f].locked /\ fl'[f].pc \in {"idle", "install"}

LEMMA NoCredIsNone == NoCred \in MaybeCred /\ NoCred \notin Cred /\ \A c \in MaybeCred : c # NoCred => c \in Cred
<1>1. None \notin Lineage
    BY CredentialAssumption
<1>2. QED
    BY <1>1 DEF NoCred, MaybeCred, Cred

LEMMA CopiesAreCreds == ASSUME Typed PROVE Copies \subseteq MaybeCred
BY NoCredIsNone DEF Typed, TypeOK, Copies, Everywhere, Local

LEMMA CopiesOf ==
    ASSUME Typed, NEW f \in Flight
    PROVE  /\ fl[f].stored \in Copies /\ fl[f].sent \in Copies /\ fl[f].next \in Copies
           /\ live \in Copies /\ NoCred \in Copies /\ Held(f) \in Copies
<1>1. AcctOf[f] \in Account
    BY CredentialAssumption
<1>2. QED
    BY <1>1 DEF Copies, Everywhere, Held

LEMMA FlightIsLocal ==
    ASSUME Typed, NEW f \in Flight
    PROVE  /\ fl \in [Flight -> Local] /\ fl[f] \in Local /\ Held(f) \in MaybeCred
           /\ AcctOf[f] \in Account /\ Role[f] \in Roles
BY CredentialAssumption DEF Typed, TypeOK, Held

LEMMA IdleIsLocal == Idle \in Local
BY NoCredIsNone DEF Idle, Local, PC, Outside, Inside

LEMMA FinishLeaves ==
    ASSUME IInv, NEW f \in Flight, NEW c \in MaybeCred, Finish(f, c) PROVE Left(f)
<1> DEFINE r == IF Role[f] = "recover" THEN [Idle EXCEPT !.rejected = fl[f].rejected, !.result = c] ELSE Idle
<1>1. fl \in [Flight -> Local] /\ fl[f] \in Local
    BY FlightIsLocal DEF IInv
<1>2. fl' = [fl EXCEPT ![f] = r] /\ Unlock(f)
    BY DEF Finish
<1>3. /\ r \in Local /\ r.pc = "idle" /\ ~r.locked /\ ~r.probe
      /\ r.stored = NoCred /\ r.sent = NoCred /\ r.next = NoCred
    <2>1. /\ Idle.pc = "idle" /\ ~Idle.locked /\ ~Idle.probe
          /\ Idle.stored = NoCred /\ Idle.sent = NoCred /\ Idle.next = NoCred
        BY DEF Idle
    <2>2. QED
        BY <1>1, <2>1, IdleIsLocal DEF Local
<1> HIDE DEF r
<1>4. fl' \in [Flight -> Local] /\ fl'[f] = r /\ \A g \in Flight \ {f} : fl'[g] = fl[g]
    BY <1>1, <1>2, <1>3
<1>5. Sound(f, r, Held(f), lapsed)
    BY <1>3 DEF Sound, Struct, Mono, Mail, Own, Inside
<1>6. NoCred \in Copies
    BY DEF Copies
<1>7. QED
    BY <1>2, <1>3, <1>4, <1>5, <1>6 DEF Left, Moved

LEMMA DeliverLeaves ==
    ASSUME IInv, NEW f \in Flight, NEW c \in Copies, c # NoCred, Deliver(f, c),
           Switching(AcctOf[f]) => c.lin = InitVault[AcctOf[f]]
    PROVE  Left(f)
<1>1. c \in MaybeCred
    BY CopiesAreCreds DEF IInv
<1>2. CASE Role[f] = "switch"
    <2> DEFINE r == [Idle EXCEPT !.pc = "install", !.next = c]
    <2>1. fl \in [Flight -> Local] /\ fl[f] \in Local
        BY FlightIsLocal DEF IInv
    <2>2. fl' = [fl EXCEPT ![f] = r] /\ Unlock(f)
        BY <1>2 DEF Deliver
    <2>3. /\ r \in Local /\ r.pc = "install" /\ ~r.locked /\ ~r.probe
          /\ r.stored = NoCred /\ r.sent = NoCred /\ r.next = c
        <3>1. ~Idle.locked /\ ~Idle.probe /\ Idle.stored = NoCred /\ Idle.sent = NoCred
            BY DEF Idle
        <3>2. "install" \in PC
            BY DEF PC, Outside
        <3>3. QED
            BY <1>1, <3>1, <3>2, IdleIsLocal DEF Local
    <2> HIDE DEF r
    <2>4. fl' \in [Flight -> Local] /\ fl'[f] = r /\ \A g \in Flight \ {f} : fl'[g] = fl[g]
        BY <2>1, <2>2, <2>3
    <2>5. Sound(f, r, Held(f), lapsed)
        BY <1>2, <2>3 DEF Sound, Struct, Mono, Mail, Own, Inside
    <2>6. NoCred \in Copies
        BY DEF Copies
    <2>7. QED
        BY <2>2, <2>3, <2>4, <2>5, <2>6 DEF Left, Moved
<1>3. CASE Role[f] # "switch"
    BY <1>1, <1>3, FinishLeaves DEF Deliver
<1>4. QED
    BY <1>2, <1>3

LEMMA GotoMoves ==
    ASSUME IInv, NEW f \in Flight, NEW label \in PC, Goto(f, label)
    PROVE  /\ fl' \in [Flight -> Local] /\ owner' = owner /\ \A g \in Flight \ {f} : fl'[g] = fl[g]
           /\ fl'[f] = [fl[f] EXCEPT !.pc = label]
           /\ {fl'[f].stored, fl'[f].sent, fl'[f].next} \subseteq Copies
<1>1. fl \in [Flight -> Local] /\ fl[f] \in Local
    BY FlightIsLocal DEF IInv
<1>2. [fl[f] EXCEPT !.pc = label] \in Local
    BY <1>1 DEF Local
<1>3. fl' = [fl EXCEPT ![f] = [fl[f] EXCEPT !.pc = label]] /\ owner' = owner
    BY DEF Goto
<1>4. QED
    BY <1>1, <1>2, <1>3, CopiesOf DEF IInv, Local

LEMMA RecordMoves ==
    ASSUME IInv, NEW f \in Flight, NEW r \in Local, fl' = [fl EXCEPT ![f] = r],
           {r.stored, r.sent, r.next} \subseteq Copies, Sound(f, r, Held(f), lapsed)
    PROVE  Moved(f) /\ fl'[f] = r
<1>1. fl \in [Flight -> Local]
    BY FlightIsLocal DEF IInv
<1>2. QED
    BY <1>1 DEF Moved

\* Being sound, unfolded.
LEMMA SoundFlight ==
    ASSUME IInv, NEW f \in Flight
    PROVE  /\ Struct(f, fl[f])
           /\ Calm => Mono(fl[f], Held(f), lapsed)
           /\ Guarded => Mail(AcctOf[f], fl[f])
           /\ Switching(AcctOf[f]) => Own(AcctOf[f], fl[f]) /\ Role[f] = "switch"
           /\ Switching(AcctOf[f]) => Held(f).lin = InitVault[AcctOf[f]]
           /\ Guarded => /\ Fits(AcctOf[f], Held(f))
                         /\ (Held(f) = NoCred <=> InitVault[AcctOf[f]] = None)
                         /\ email[AcctOf[f]] = InitEmail[AcctOf[f]]
<1>1. AcctOf[f] \in Account
    BY CredentialAssumption
<1>2. QED
    BY <1>1 DEF IInv, Flights, Sound, Held, Vaults, Switching

LEMMA LabelMoves ==
    ASSUME IInv, NEW f \in Flight, NEW label \in Inside, fl[f].pc \in Inside, Goto(f, label),
           ASSUME NEW r \in Local, r = [fl[f] EXCEPT !.pc = label],
                  r.pc = label, r.stored = fl[f].stored, r.sent = fl[f].sent, r.next = fl[f].next,
                  r.then = fl[f].then, r.locked = fl[f].locked, r.probe = fl[f].probe,
                  r.mail = fl[f].mail
           PROVE  Sound(f, r, Held(f), lapsed)
    PROVE  Kept(f)
<1> DEFINE r == [fl[f] EXCEPT !.pc = label]
<1>1. fl' = [fl EXCEPT ![f] = r] /\ owner' = owner
    BY DEF Goto
<1>2. /\ r \in Local /\ r.pc = label /\ r.stored = fl[f].stored /\ r.sent = fl[f].sent
      /\ r.next = fl[f].next /\ r.then = fl[f].then /\ r.locked = fl[f].locked
      /\ r.probe = fl[f].probe /\ r.mail = fl[f].mail
    BY FlightIsLocal DEF IInv, Local, PC
<1>3. Sound(f, r, Held(f), lapsed)
    BY <1>2
<1> HIDE DEF r
<1>4. Zone(r) = Zone(fl[f])
    BY <1>2 DEF Zone, Inside
<1>5. QED
    BY <1>1, <1>2, <1>3, <1>4, CopiesOf, RecordMoves DEF Kept, IInv

LEMMA RereadMoves == ASSUME IInv, NEW f \in Flight, Reread(f) PROVE Kept(f) \/ Left(f)
<1>1. CASE Usable(Held(f)) /\ ~Forced(f)
    <2>1. Deliver(f, Held(f)) /\ Held(f) \in Copies /\ Held(f) # NoCred
        BY <1>1, CopiesOf DEF Reread, IInv, Usable
    <2>2. QED
        BY <2>1, SoundFlight, DeliverLeaves
<1>2. CASE ~(Usable(Held(f)) /\ ~Forced(f))
    <2> DEFINE r == [fl[f] EXCEPT !.pc = "live", !.stored = Held(f)]
    <2>1. fl' = [fl EXCEPT ![f] = r] /\ owner' = owner /\ fl[f].pc = "reread"
        BY <1>2 DEF Reread, At
    <2>2. r \in Local /\ r.pc = "live" /\ r.stored = Held(f) /\ r.sent = fl[f].sent
          /\ r.next = fl[f].next /\ r.locked = fl[f].locked /\ r.probe = fl[f].probe
        BY FlightIsLocal, ZenonT(40) DEF IInv, Local, PC, Inside
    <2> HIDE DEF r
    <2>3. Sound(f, r, Held(f), lapsed)
        BY <2>1, <2>2, SoundFlight DEF Sound, Struct, Mono, Mail, Own, Inside
    <2>4. Zone(r) = Zone(fl[f])
        BY <2>1, <2>2 DEF Zone, Inside
    <2>5. QED
        BY <2>1, <2>2, <2>3, <2>4, CopiesOf, RecordMoves DEF Kept, IInv
<1>3. QED
    BY <1>1, <1>2

LEMMA AdoptSharedMoves == ASSUME IInv, NEW f \in Flight, AdoptShared(f) PROVE Kept(f) \/ Left(f)
<1>1. PICK seen \in ReadLive :
          LET stored == fl[f].stored
              adopt == /\ seen # NoCred /\ SameRefresh(seen, stored) /\ ~Expired(seen)
                       /\ Forced(f) => ~SameAccess(seen, stored)
          IN IF adopt
             THEN fl' = [fl EXCEPT ![f].pc = "save", ![f].next = seen, ![f].then = "adopted"]
             ELSE fl' = [fl EXCEPT ![f].pc = "load"]
    BY DEF AdoptShared
<1>2. fl[f].pc = "live" /\ owner' = owner
    BY DEF AdoptShared, At
<1>3. seen \in Copies /\ seen \in MaybeCred
    BY CopiesOf, CopiesAreCreds DEF ReadLive, IInv
<1>4. CASE seen # NoCred /\ SameRefresh(seen, fl[f].stored)
           /\ fl' = [fl EXCEPT ![f].pc = "save", ![f].next = seen, ![f].then = "adopted"]
    <2> DEFINE r == [fl[f] EXCEPT !.pc = "save", !.next = seen, !.then = "adopted"]
    <2>1. fl' = [fl EXCEPT ![f] = r]
        BY <1>4
    <2>2. r \in Local /\ r.pc = "save" /\ r.stored = fl[f].stored /\ r.sent = fl[f].sent
          /\ r.next = seen /\ r.locked = fl[f].locked /\ r.probe = fl[f].probe
        BY <1>3, FlightIsLocal, ZenonT(40) DEF IInv, Local, PC, Inside
    <2> HIDE DEF r
    <2>3. fl[f].stored # NoCred
        BY <1>3, <1>4, NoCredIsNone, CredentialAssumption DEF SameRefresh, NoCred, Cred
    <2>4. Sound(f, r, Held(f), lapsed)
        <3>1. Struct(f, r)
            BY <1>2, <1>4, <2>2, SoundFlight DEF Struct, Inside
        <3>2. Calm => Mono(r, Held(f), lapsed)
            <4>1. seen.rt \in Nat
                BY <1>3, <1>4, NoCredIsNone, CredentialAssumption DEF Cred, Token
            <4>2. QED
                BY <1>2, <1>4, <2>2, <4>1, SoundFlight DEF Mono, SameRefresh
        <3>3. Guarded => Mail(AcctOf[f], r)
            BY <1>2, <1>4, <2>2, <2>3, SoundFlight DEF Mail, Fits, SameRefresh
        <3>4. Switching(AcctOf[f]) => Own(AcctOf[f], r)
            BY <1>2, <1>4, <2>2, SoundFlight DEF Own, SameRefresh
        <3>5. QED
            BY <3>1, <3>2, <3>3, <3>4 DEF Sound
    <2>5. Zone(r) = Zone(fl[f])
        BY <1>2, <2>2 DEF Zone, Inside
    <2>6. QED
        BY <1>2, <1>3, <2>1, <2>2, <2>4, <2>5, CopiesOf, RecordMoves DEF Kept, IInv
<1>5. CASE fl' = [fl EXCEPT ![f].pc = "load"]
    <2>1. Goto(f, "load") /\ "load" \in Inside /\ fl[f].pc \in Inside
        BY <1>2, <1>5 DEF Goto, Inside
    <2>2. ASSUME NEW r \in Local, r.pc = "load", r.locked = fl[f].locked, r.probe = fl[f].probe
          PROVE  Sound(f, r, Held(f), lapsed)
        BY <1>2, <2>2, SoundFlight DEF Sound, Struct, Mono, Mail, Own, Inside
    <2>3. QED
        BY <2>1, <2>2, LabelMoves
<1>6. QED
    BY <1>1, <1>4, <1>5

LEMMA LoadStoredMoves == ASSUME IInv, NEW f \in Flight, LoadStored(f) PROVE Kept(f) \/ Left(f)
<1>1. fl[f].pc = "load"
    BY DEF LoadStored, At
<1>2. CASE Held(f) = NoCred
    BY <1>2, NoCredIsNone, FinishLeaves DEF LoadStored
<1>3. CASE Usable(Held(f)) /\ ~Forced(f)
    <2>1. Deliver(f, Held(f)) /\ Held(f) \in Copies /\ Held(f) # NoCred
        BY <1>3, CopiesOf DEF LoadStored, IInv, Usable
    <2>2. QED
        BY <2>1, SoundFlight, DeliverLeaves
<1>4. CASE Held(f) # NoCred /\ ~(Usable(Held(f)) /\ ~Forced(f))
    <2> DEFINE r == [fl[f] EXCEPT !.pc = "refresh", !.sent = Held(f), !.then = "vault"]
    <2>1. fl' = [fl EXCEPT ![f] = r] /\ owner' = owner
        BY <1>4 DEF LoadStored
    <2>2. r \in Local /\ r.pc = "refresh" /\ r.stored = fl[f].stored /\ r.sent = Held(f)
          /\ r.next = fl[f].next /\ r.then = "vault" /\ r.locked = fl[f].locked
          /\ r.probe = fl[f].probe
        BY FlightIsLocal, ZenonT(40) DEF IInv, Local, PC, Inside
    <2> HIDE DEF r
    <2>3. Calm => Mono(r, Held(f), lapsed)
        BY <1>4, <2>2 DEF Mono, Calm, Usable, Expired, Forced
    <2>4. Sound(f, r, Held(f), lapsed)
        BY <1>1, <1>4, <2>2, <2>3, SoundFlight DEF Sound, Struct, Mail, Own, Inside
    <2>5. Zone(r) = Zone(fl[f])
        BY <1>1, <2>2 DEF Zone, Inside
    <2>6. QED
        BY <2>1, <2>2, <2>4, <2>5, CopiesOf, RecordMoves DEF Kept, IInv
<1>5. QED
    BY <1>2, <1>3, <1>4

LEMMA DeclineMoves ==
    ASSUME IInv, NEW f \in Flight, Decline(f),
           fl[f].pc \in {"rsLive", "rsOwned", "refresh", "email"}
    PROVE  Kept(f) \/ Left(f)
<1>1. CASE fl[f].probe
    <2> DEFINE r == [fl[f] EXCEPT !.pc = "check"]
    <2>1. fl' = [fl EXCEPT ![f] = r] /\ owner' = owner
        BY <1>1 DEF Decline, Goto
    <2>2. r \in Local /\ r.pc = "check" /\ r.stored = fl[f].stored /\ r.sent = fl[f].sent
          /\ r.next = fl[f].next /\ r.locked = fl[f].locked /\ r.probe = fl[f].probe
        BY FlightIsLocal DEF IInv, Local, PC, Outside
    <2> HIDE DEF r
    <2>3. Sound(f, r, Held(f), lapsed)
        BY <1>1, <2>2, SoundFlight DEF Sound, Struct, Mono, Mail, Own, Inside
    <2>4. Zone(r) = Zone(fl[f])
        BY <1>1, <2>2 DEF Zone, Inside
    <2>5. QED
        BY <2>1, <2>2, <2>3, <2>4, CopiesOf, RecordMoves DEF Kept, IInv
<1>2. CASE ~fl[f].probe
    BY <1>2, NoCredIsNone, FinishLeaves DEF Decline
<1>3. QED
    BY <1>1, <1>2

LEMMA RefreshFailsMoves ==
    ASSUME IInv, NEW f \in Flight, RefreshFails(f), fl[f].pc = "refresh"
    PROVE  Kept(f) \/ Left(f)
BY DeclineMoves, NoCredIsNone, FinishLeaves DEF RefreshFails

LEMMA RefusedMoves == ASSUME IInv, NEW f \in Flight, Refused(f) PROVE Kept(f) \/ Left(f)
<1>1. fl[f].pc = "refresh"
    BY DEF Refused, At
<1>2. CASE fl[f].then = "vault" /\ Role[f] # "switch"
    <2>1. Goto(f, "rsLoad") /\ "rsLoad" \in Inside /\ fl[f].pc \in Inside
        BY <1>1, <1>2 DEF Refused, Inside
    <2>2. ASSUME NEW r \in Local, r.pc = "rsLoad", r.locked = fl[f].locked, r.probe = fl[f].probe
          PROVE  Sound(f, r, Held(f), lapsed)
        BY <1>1, <1>2, <2>2, SoundFlight DEF Sound, Struct, Mono, Mail, Own, Inside
    <2>3. QED
        BY <2>1, <2>2, LabelMoves
<1>3. CASE ~(fl[f].then = "vault" /\ Role[f] # "switch")
    BY <1>1, <1>3, RefreshFailsMoves DEF Refused
<1>4. QED
    BY <1>2, <1>3

LEMMA UnreachedMoves == ASSUME IInv, NEW f \in Flight, Unreached(f) PROVE Kept(f) \/ Left(f)
BY RefreshFailsMoves DEF Unreached, At

LEMMA MirrorReadMoves == ASSUME IInv, NEW f \in Flight, MirrorRead(f) PROVE Kept(f) \/ Left(f)
<1>1. fl[f].pc = "mirror"
    BY DEF MirrorRead, At
<1>2. PICK label \in {"mirrorWrite", Afterwards(f)} : Goto(f, label)
    BY DEF MirrorRead
<1>3. label \in Inside /\ fl[f].pc \in Inside
    BY <1>1 DEF Afterwards, Inside
<1>4. ASSUME NEW r \in Local, r.pc = label, r.next = fl[f].next, r.sent = fl[f].sent,
             r.then = fl[f].then, r.locked = fl[f].locked, r.probe = fl[f].probe
      PROVE  Sound(f, r, Held(f), lapsed)
    <2>1. r.pc \in {"mirrorWrite", "save", "email"} /\ (r.pc = "save" => r.then = "vault")
          /\ (r.pc = "email" => r.then # "vault")
        BY <1>4 DEF Afterwards
    <2>2. QED
        BY <1>1, <1>4, <2>1, SoundFlight DEF Sound, Struct, Mono, Mail, Own, Inside
<1>5. QED
    BY <1>2, <1>3, <1>4, LabelMoves

LEMMA MirrorWriteMoves == ASSUME IInv, NEW f \in Flight, MirrorWrite(f) PROVE Kept(f) \/ Left(f)
<1>1. fl[f].pc = "mirrorWrite" /\ Goto(f, Afterwards(f))
    BY DEF MirrorWrite, At
<1>2. Afterwards(f) \in Inside /\ fl[f].pc \in Inside
    BY <1>1 DEF Afterwards, Inside
<1>3. ASSUME NEW r \in Local, r.pc = Afterwards(f), r.next = fl[f].next, r.sent = fl[f].sent,
             r.then = fl[f].then, r.locked = fl[f].locked, r.probe = fl[f].probe
      PROVE  Sound(f, r, Held(f), lapsed)
    <2>1. r.pc \in {"save", "email"} /\ (r.pc = "save" => r.then = "vault")
          /\ (r.pc = "email" => r.then # "vault")
        BY <1>3 DEF Afterwards
    <2>2. QED
        BY <1>1, <1>3, <2>1, SoundFlight DEF Sound, Struct, Mono, Mail, Own, Inside
<1>4. QED
    BY <1>1, <1>2, <1>3, LabelMoves

LEMMA SaveReadMoves == ASSUME IInv, NEW f \in Flight, SaveRead(f) PROVE Kept(f) \/ Left(f)
<1>1. fl[f].pc = "save"
    BY DEF SaveRead, At
<1>2. CASE Held(f) = NoCred
    BY <1>2, NoCredIsNone, FinishLeaves DEF SaveRead
<1>3. CASE Held(f) # NoCred
    <2> DEFINE r == [fl[f] EXCEPT !.pc = "write", !.mail = email[AcctOf[f]]]
    <2>1. fl' = [fl EXCEPT ![f] = r] /\ owner' = owner
        BY <1>3 DEF SaveRead
    <2>2. email[AcctOf[f]] \in Person \cup {None}
        BY FlightIsLocal DEF IInv, Typed, TypeOK
    <2>3. r \in Local /\ r.pc = "write" /\ r.stored = fl[f].stored /\ r.sent = fl[f].sent
          /\ r.next = fl[f].next /\ r.mail = email[AcctOf[f]] /\ r.locked = fl[f].locked
          /\ r.probe = fl[f].probe
        BY <2>2, FlightIsLocal, ZenonT(40) DEF IInv, Local, PC, Inside
    <2> HIDE DEF r
    <2>4. Sound(f, r, Held(f), lapsed)
        BY <1>1, <1>3, <2>3, SoundFlight DEF Sound, Struct, Mono, Mail, Own, Inside
    <2>5. Zone(r) = Zone(fl[f])
        BY <1>1, <2>3 DEF Zone, Inside
    <2>6. QED
        BY <2>1, <2>3, <2>4, <2>5, CopiesOf, RecordMoves DEF Kept, IInv
<1>4. QED
    BY <1>2, <1>3

LEMMA HandReadMoves == ASSUME IInv, NEW f \in Flight, HandRead(f) PROVE Kept(f) \/ Left(f)
<1>1. fl[f].pc = "hand"
    BY DEF HandRead, At
<1>2. CASE Goto(f, "handWrite")
    <2>1. "handWrite" \in Inside /\ fl[f].pc \in Inside
        BY <1>1 DEF Inside
    <2>2. ASSUME NEW r \in Local, r.pc = "handWrite", r.next = fl[f].next, r.locked = fl[f].locked,
                 r.probe = fl[f].probe
          PROVE  Sound(f, r, Held(f), lapsed)
        BY <1>1, <2>2, SoundFlight DEF Sound, Struct, Mono, Mail, Own, Inside
    <2>3. QED
        BY <1>2, <2>1, <2>2, LabelMoves
<1>3. CASE Deliver(f, fl[f].next)
    <2>1. fl[f].next \in Copies /\ fl[f].next # NoCred
        BY <1>1, SoundFlight, CopiesOf DEF Struct, IInv
    <2>2. Switching(AcctOf[f]) => fl[f].next.lin = InitVault[AcctOf[f]]
        BY <1>1, SoundFlight DEF Own
    <2>3. QED
        BY <1>3, <2>1, <2>2, DeliverLeaves
<1>4. QED
    BY <1>2, <1>3 DEF HandRead

LEMMA HandWriteMoves == ASSUME IInv, NEW f \in Flight, HandWrite(f) PROVE Kept(f) \/ Left(f)
<1>1. fl[f].pc = "handWrite" /\ Deliver(f, fl[f].next)
    BY DEF HandWrite, At
<1>2. fl[f].next \in Copies /\ fl[f].next # NoCred
    BY <1>1, SoundFlight, CopiesOf DEF Struct, IInv
<1>3. Switching(AcctOf[f]) => fl[f].next.lin = InitVault[AcctOf[f]]
    BY <1>1, SoundFlight DEF Own
<1>4. QED
    BY <1>1, <1>2, <1>3, DeliverLeaves

LEMMA ResyncLoadMoves == ASSUME IInv, NEW f \in Flight, ResyncLoad(f) PROVE Kept(f) \/ Left(f)
<1> DEFINE r == [fl[f] EXCEPT !.pc = "rsLive", !.stored = Held(f)]
<1>1. fl' = [fl EXCEPT ![f] = r] /\ owner' = owner /\ fl[f].pc = "rsLoad"
    BY DEF ResyncLoad, At
<1>2. r \in Local /\ r.pc = "rsLive" /\ r.stored = Held(f) /\ r.sent = fl[f].sent
      /\ r.next = fl[f].next /\ r.locked = fl[f].locked /\ r.probe = fl[f].probe
    BY FlightIsLocal, ZenonT(40) DEF IInv, Local, PC, Inside
<1> HIDE DEF r
<1>3. Sound(f, r, Held(f), lapsed)
    BY <1>1, <1>2, SoundFlight DEF Sound, Struct, Mono, Mail, Own, Inside
<1>4. Zone(r) = Zone(fl[f])
    BY <1>1, <1>2 DEF Zone, Inside
<1>5. QED
    BY <1>1, <1>2, <1>3, <1>4, CopiesOf, RecordMoves DEF Kept, IInv

LEMMA ResyncLiveMoves == ASSUME IInv, NEW f \in Flight, ResyncLive(f) PROVE Kept(f) \/ Left(f)
<1>1. fl[f].pc = "rsLive"
    BY DEF ResyncLive, At
<1>2. PICK seen \in ReadLive :
          \/ Decline(f)
          \/ seen # NoCred /\ fl' = [fl EXCEPT ![f].pc = "rsOwned", ![f].sent = seen] /\ owner' = owner
    BY DEF ResyncLive
<1>3. seen \in Copies /\ seen \in MaybeCred
    BY CopiesOf, CopiesAreCreds DEF ReadLive, IInv
<1>4. CASE Decline(f)
    BY <1>1, <1>4, DeclineMoves
<1>5. CASE seen # NoCred /\ fl' = [fl EXCEPT ![f].pc = "rsOwned", ![f].sent = seen] /\ owner' = owner
    <2> DEFINE r == [fl[f] EXCEPT !.pc = "rsOwned", !.sent = seen]
    <2>1. fl' = [fl EXCEPT ![f] = r] /\ owner' = owner
        BY <1>5
    <2>2. r \in Local /\ r.pc = "rsOwned" /\ r.stored = fl[f].stored /\ r.sent = seen
          /\ r.next = fl[f].next /\ r.locked = fl[f].locked /\ r.probe = fl[f].probe
        BY <1>3, FlightIsLocal, ZenonT(40) DEF IInv, Local, PC, Inside
    <2> HIDE DEF r
    <2>3. Sound(f, r, Held(f), lapsed)
        BY <1>1, <1>5, <2>2, SoundFlight DEF Sound, Struct, Mono, Mail, Own, Inside
    <2>4. Zone(r) = Zone(fl[f])
        BY <1>1, <2>2 DEF Zone, Inside
    <2>5. QED
        BY <1>3, <2>1, <2>2, <2>3, <2>4, CopiesOf, RecordMoves DEF Kept, IInv
<1>6. QED
    BY <1>2, <1>4, <1>5

\* An access token that is good comes with a refresh token that is no older than that of one which
\* has expired.
LEMMA UsableIsNewer ==
    ASSUME IInv, NEW c \in Copies, NEW d \in Copies, c.lin = d.lin, c # NoCred, ~Expired(c),
           d = NoCred \/ d.at <= lapsed[d.lin]
    PROVE  c.rt >= d.rt
<1>1. c \in Cred /\ d \in MaybeCred
    BY CopiesAreCreds, NoCredIsNone DEF IInv
<1>2. d # NoCred
    BY <1>1, CredentialAssumption DEF NoCred, Cred
<1>3. d \in Cred
    BY <1>1, <1>2, NoCredIsNone
<1>4. lapsed[c.lin] \in Nat /\ c.at \in Nat /\ d.at \in Nat /\ c.rt \in Nat /\ d.rt \in Nat
    BY <1>1, <1>3, CredentialAssumption DEF IInv, Typed, TypeOK, Cred, Token
<1>5. d.at <= c.at
    BY <1>2, <1>4 DEF Expired
<1>6. d.rt <= c.rt
    BY <1>2, <1>5 DEF IInv, Coherent
<1>7. QED
    BY <1>4, <1>6

LEMMA ResyncOwnedMoves == ASSUME IInv, NEW f \in Flight, ResyncOwned(f) PROVE Kept(f) \/ Left(f)
<1>1. fl[f].pc = "rsOwned"
    BY DEF ResyncOwned, At
<1>2. fl[f].sent \in Copies /\ fl[f].sent # NoCred
    BY <1>1, SoundFlight, CopiesOf DEF Struct, IInv
<1>3. CASE Decline(f)
    BY <1>1, <1>3, DeclineMoves
<1>4. CASE Expired(fl[f].sent) /\ fl' = [fl EXCEPT ![f].pc = "refresh", ![f].then = "email"] /\ owner' = owner
    <2> DEFINE r == [fl[f] EXCEPT !.pc = "refresh", !.then = "email"]
    <2>1. fl' = [fl EXCEPT ![f] = r] /\ owner' = owner
        BY <1>4
    <2>2. r \in Local /\ r.pc = "refresh" /\ r.stored = fl[f].stored /\ r.sent = fl[f].sent
          /\ r.next = fl[f].next /\ r.then = "email" /\ r.locked = fl[f].locked /\ r.probe = fl[f].probe
        BY FlightIsLocal, ZenonT(40) DEF IInv, Local, PC, Inside
    <2> HIDE DEF r
    <2>3. Sound(f, r, Held(f), lapsed)
        BY <1>1, <2>2, SoundFlight DEF Sound, Struct, Mono, Mail, Own, Inside
    <2>4. Zone(r) = Zone(fl[f])
        BY <1>1, <2>2 DEF Zone, Inside
    <2>5. QED
        BY <2>1, <2>2, <2>3, <2>4, CopiesOf, RecordMoves DEF Kept, IInv
<1>5. CASE /\ ~Expired(fl[f].sent) /\ owner' = owner
           /\ fl' = [fl EXCEPT ![f].pc = "email", ![f].then = "email", ![f].next = fl[f].sent]
    <2> DEFINE r == [fl[f] EXCEPT !.pc = "email", !.then = "email", !.next = fl[f].sent]
    <2>1. fl' = [fl EXCEPT ![f] = r] /\ owner' = owner
        BY <1>5
    <2>2. r \in Local /\ r.pc = "email" /\ r.stored = fl[f].stored /\ r.sent = fl[f].sent
          /\ r.next = fl[f].sent /\ r.then = "email" /\ r.locked = fl[f].locked /\ r.probe = fl[f].probe
        BY FlightIsLocal, ZenonT(40) DEF IInv, Local, PC, Inside
    <2> HIDE DEF r
    <2>3. Calm => Mono(r, Held(f), lapsed)
        <3>1. Calm => Held(f) = NoCred \/ Held(f).at <= lapsed[Held(f).lin]
            BY <1>1, SoundFlight DEF Mono
        <3>2. Held(f) \in Copies
            BY CopiesOf DEF IInv
        <3>3. Calm => (fl[f].sent.lin = Held(f).lin => fl[f].sent.rt >= Held(f).rt)
            BY <1>2, <1>5, <3>1, <3>2, UsableIsNewer
        <3>4. QED
            BY <2>2, <3>3 DEF Mono
    <2>4. Sound(f, r, Held(f), lapsed)
        BY <1>1, <1>2, <2>2, <2>3, SoundFlight DEF Sound, Struct, Mail, Own, Inside
    <2>5. Zone(r) = Zone(fl[f])
        BY <1>1, <2>2 DEF Zone, Inside
    <2>6. QED
        BY <2>1, <2>2, <2>4, <2>5, CopiesOf, RecordMoves DEF Kept, IInv
<1>6. QED
    BY <1>3, <1>4, <1>5 DEF ResyncOwned

LEMMA ResyncEmailMoves == ASSUME IInv, NEW f \in Flight, ResyncEmail(f) PROVE Kept(f) \/ Left(f)
<1> DEFINE expected == IF Held(f) = NoCred THEN None ELSE email[AcctOf[f]]
           mismatch == expected # None /\ OwnerOf[fl[f].next.lin] # expected
<1>1. fl[f].pc = "email"
    BY DEF ResyncEmail, At
<1>2. fl[f].next \in Copies /\ fl[f].next \in MaybeCred
    BY CopiesOf, CopiesAreCreds DEF IInv
<1>3. CASE Decline(f)
    BY <1>1, <1>3, DeclineMoves
<1>4. CASE Finish(f, fl[f].next)
    BY <1>2, <1>4, FinishLeaves
<1>5. CASE /\ mismatch => NetFails
           /\ fl' = [fl EXCEPT ![f].pc = "save", ![f].then = "adopted"] /\ owner' = owner
    <2> DEFINE r == [fl[f] EXCEPT !.pc = "save", !.then = "adopted"]
    <2>1. fl' = [fl EXCEPT ![f] = r] /\ owner' = owner
        BY <1>5
    <2>2. r \in Local /\ r.pc = "save" /\ r.stored = fl[f].stored /\ r.sent = fl[f].sent
          /\ r.next = fl[f].next /\ r.locked = fl[f].locked /\ r.probe = fl[f].probe
        BY FlightIsLocal, ZenonT(40) DEF IInv, Local, PC, Inside
    <2> HIDE DEF r
    <2>3. Guarded => Mail(AcctOf[f], r)
        <3>1. Guarded => ~mismatch
            BY <1>5 DEF Guarded
        <3>2. Guarded => Fits(AcctOf[f], fl[f].next) \/ InitVault[AcctOf[f]] = None
            BY <3>1, SoundFlight DEF Fits
        <3>3. QED
            BY <2>2, <3>2 DEF Mail
    <2>4. Sound(f, r, Held(f), lapsed)
        BY <1>1, <2>2, <2>3, SoundFlight DEF Sound, Struct, Mono, Own, Inside
    <2>5. Zone(r) = Zone(fl[f])
        BY <1>1, <2>2 DEF Zone, Inside
    <2>6. QED
        BY <2>1, <2>2, <2>4, <2>5, CopiesOf, RecordMoves DEF Kept, IInv
<1>6. QED
    BY <1>3, <1>4, <1>5 DEF ResyncEmail

LEMMA AskMoves == ASSUME IInv, NEW f \in Flight, Ask(f) PROVE Waits(f) \/ Left(f)
<1>1. CASE Usable(Held(f))
    <2>1. Deliver(f, Held(f)) /\ Held(f) \in Copies /\ Held(f) # NoCred
        BY <1>1, CopiesOf DEF Ask, IInv, Usable
    <2>2. QED
        BY <2>1, SoundFlight, DeliverLeaves
<1>2. CASE ~Usable(Held(f))
    <2> DEFINE r == [fl[f] EXCEPT !.pc = "lock"]
    <2>1. fl' = [fl EXCEPT ![f] = r] /\ owner' = owner /\ fl[f].pc = "idle"
        BY <1>2 DEF Ask, Goto, At
    <2>2. /\ r \in Local /\ r.pc = "lock" /\ r.stored = fl[f].stored /\ r.sent = fl[f].sent
          /\ r.next = fl[f].next /\ r.locked = fl[f].locked /\ r.probe = fl[f].probe
        BY FlightIsLocal DEF IInv, Local, PC, Outside
    <2> HIDE DEF r
    <2>3. ~fl[f].locked /\ ~fl[f].probe
        BY <2>1, SoundFlight DEF Struct, Inside
    <2>4. Sound(f, r, Held(f), lapsed)
        BY <2>2, <2>3 DEF Sound, Struct, Mono, Mail, Own, Inside
    <2>5. Zone(r) = "wait" /\ Zone(fl[f]) = "out"
        BY <2>1, <2>2 DEF Zone, Inside
    <2>6. QED
        BY <2>1, <2>2, <2>3, <2>4, <2>5, CopiesOf, RecordMoves DEF Waits, IInv
<1>3. QED
    BY <1>1, <1>2

LEMMA UseMoves == ASSUME IInv, NEW f \in Flight, Use(f) PROVE Kept(f)
<1> DEFINE r == [Idle EXCEPT !.pc = "sent", !.rejected = Held(f)]
<1>1. fl' = [fl EXCEPT ![f] = r] /\ owner' = owner /\ fl[f].pc = "idle" /\ Role[f] = "recover"
    BY DEF Use, At
<1>2. /\ Idle.stored = NoCred /\ Idle.sent = NoCred /\ Idle.next = NoCred
      /\ Idle.locked = FALSE /\ Idle.probe = FALSE
    BY DEF Idle
<1>3. /\ r \in Local /\ r.pc = "sent" /\ r.stored = NoCred /\ r.sent = NoCred /\ r.next = NoCred
      /\ r.locked = FALSE /\ r.probe = FALSE
    BY <1>2, IdleIsLocal, FlightIsLocal DEF IInv, Local, PC, Outside
<1> HIDE DEF r
<1>4. fl[f].locked = FALSE
    BY <1>1, SoundFlight, FlightIsLocal DEF Struct, Inside, IInv, Local
<1>5. Sound(f, r, Held(f), lapsed)
    BY <1>1, <1>3 DEF Sound, Struct, Mono, Mail, Own, Inside
<1>6. Zone(r) = Zone(fl[f])
    BY <1>1, <1>3 DEF Zone, Inside
<1>7. QED
    BY <1>1, <1>3, <1>4, <1>5, <1>6, CopiesOf, RecordMoves DEF Kept, IInv

LEMMA AcceptedMoves == ASSUME IInv, NEW f \in Flight, Accepted(f) PROVE Left(f)
BY NoCredIsNone, FinishLeaves DEF Accepted

LEMMA UnauthorizedMoves == ASSUME IInv, NEW f \in Flight, Unauthorized(f) PROVE Kept(f)
<1> DEFINE r == [fl[f] EXCEPT !.pc = "rsLoad", !.probe = TRUE, !.base = Held(f)]
<1>1. fl' = [fl EXCEPT ![f] = r] /\ owner' = owner /\ fl[f].pc = "sent"
    BY DEF Unauthorized, At
<1>2. /\ r \in Local /\ r.pc = "rsLoad" /\ r.stored = fl[f].stored /\ r.sent = fl[f].sent
      /\ r.next = fl[f].next /\ r.locked = fl[f].locked /\ r.probe = TRUE
    BY FlightIsLocal, ZenonT(40) DEF IInv, Local, PC, Inside
<1> HIDE DEF r
<1>3. ~fl[f].locked /\ Role[f] = "recover"
    BY <1>1, SoundFlight DEF Struct, Inside
<1>4. Sound(f, r, Held(f), lapsed)
    BY <1>1, <1>2, <1>3, SoundFlight DEF Sound, Struct, Mono, Mail, Own, Inside, Calm
<1>5. Zone(r) = Zone(fl[f])
    BY <1>1, <1>2 DEF Zone, Inside
<1>6. {r.stored, r.sent, r.next} \subseteq Copies
    BY <1>2, CopiesOf DEF IInv
<1>7. Moved(f) /\ fl'[f] = r
    BY <1>1, <1>2, <1>4, <1>6, RecordMoves
<1>8. QED
    BY <1>1, <1>2, <1>5, <1>7 DEF Kept

LEMMA RecoverCheckMoves == ASSUME IInv, NEW f \in Flight, RecoverCheck(f) PROVE Waits(f) \/ Left(f)
<1>1. CASE Finish(f, NoCred) \/ Finish(f, Held(f))
    BY <1>1, NoCredIsNone, FlightIsLocal, FinishLeaves DEF IInv
<1>2. CASE fl' = [fl EXCEPT ![f].pc = "lock", ![f].probe = FALSE] /\ owner' = owner
    <2> DEFINE r == [fl[f] EXCEPT !.pc = "lock", !.probe = FALSE]
    <2>1. fl' = [fl EXCEPT ![f] = r] /\ owner' = owner /\ fl[f].pc = "check"
        BY <1>2 DEF RecoverCheck, At
    <2>2. /\ r \in Local /\ r.pc = "lock" /\ r.stored = fl[f].stored /\ r.sent = fl[f].sent
          /\ r.next = fl[f].next /\ r.locked = fl[f].locked /\ r.probe = FALSE
        BY FlightIsLocal DEF IInv, Local, PC, Outside
    <2> HIDE DEF r
    <2>3. ~fl[f].locked
        BY <2>1, SoundFlight DEF Struct, Inside
    <2>4. Sound(f, r, Held(f), lapsed)
        BY <2>2, <2>3 DEF Sound, Struct, Mono, Mail, Own, Inside
    <2>5. Zone(r) = "wait" /\ Zone(fl[f]) = "out"
        BY <2>1, <2>2 DEF Zone, Inside
    <2>6. QED
        BY <2>1, <2>2, <2>3, <2>4, <2>5, CopiesOf, RecordMoves, ZenonT(40) DEF Waits, IInv
<1>3. QED
    BY <1>1, <1>2 DEF RecoverCheck

LEMMA InstallMoves == ASSUME IInv, NEW f \in Flight, Install(f) PROVE Kept(f) \/ Left(f)
<1>1. CASE Finish(f, NoCred)
    BY <1>1, NoCredIsNone, FinishLeaves
<1>2. CASE Goto(f, "verify")
    <2>1. fl[f].pc = "install" /\ "verify" \in PC
        BY DEF Install, At, PC, Outside
    <2>2. /\ fl' \in [Flight -> Local] /\ owner' = owner /\ \A g \in Flight \ {f} : fl'[g] = fl[g]
          /\ fl'[f] = [fl[f] EXCEPT !.pc = "verify"]
          /\ {fl'[f].stored, fl'[f].sent, fl'[f].next} \subseteq Copies
        BY <1>2, <2>1, GotoMoves
    <2>3. fl'[f].pc = "verify" /\ fl'[f].locked = fl[f].locked /\ fl'[f].probe = fl[f].probe
        BY <2>2, FlightIsLocal DEF IInv, Local
    <2>4. Sound(f, fl'[f], Held(f), lapsed)
        BY <2>1, <2>3, SoundFlight DEF Sound, Struct, Mono, Mail, Own, Inside
    <2>5. Zone(fl'[f]) = Zone(fl[f])
        BY <2>1, <2>3 DEF Zone, Inside
    <2>6. QED
        BY <2>2, <2>3, <2>4, <2>5 DEF Kept, Moved
<1>3. QED
    BY <1>1, <1>2 DEF Install

LEMMA VerifyMoves == ASSUME IInv, NEW f \in Flight, Verify(f) PROVE Left(f)
BY NoCredIsNone, CopiesOf, CopiesAreCreds, FinishLeaves DEF Verify, IInv

LEMMA ImportReadMoves == ASSUME IInv, NEW f \in Flight, ImportRead(f) PROVE Kept(f)
<1> DEFINE r == [fl[f] EXCEPT !.pc = "impCheck", !.next = live]
<1>1. /\ fl' = [fl EXCEPT ![f] = r] /\ owner' = owner /\ fl[f].pc = "idle"
      /\ Role[f] = "manage" /\ live # NoCred
    BY DEF ImportRead, At
<1>2. live \in MaybeCred
    BY DEF IInv, Typed, TypeOK
<1>3. /\ r \in Local /\ r.pc = "impCheck" /\ r.stored = fl[f].stored /\ r.sent = fl[f].sent
      /\ r.next = live /\ r.locked = fl[f].locked /\ r.probe = fl[f].probe
    BY <1>2, FlightIsLocal DEF IInv, Local, PC, Outside
<1> HIDE DEF r
<1>4. Sound(f, r, Held(f), lapsed)
    BY <1>1, <1>3, SoundFlight DEF Sound, Struct, Mono, Mail, Own, Inside, Switching
<1>5. Zone(r) = Zone(fl[f])
    BY <1>1, <1>3 DEF Zone, Inside
<1>6. QED
    BY <1>1, <1>3, <1>4, <1>5, CopiesOf, RecordMoves DEF Kept, IInv

LEMMA ImportCheckMoves == ASSUME IInv, NEW f \in Flight, ImportCheck(f) PROVE Kept(f) \/ Left(f)
<1>1. CASE Finish(f, NoCred)
    BY <1>1, NoCredIsNone, FinishLeaves
<1>2. CASE ~Finish(f, NoCred)
    <2>1. fl[f].pc = "impCheck" /\ owner' = owner
        BY <1>2 DEF ImportCheck, At
    <2>2. fl[f].next # NoCred /\ Role[f] = "manage" /\ ~fl[f].locked /\ ~fl[f].probe
        BY <2>1, SoundFlight DEF Struct, Inside
    <2>3. OwnerOf[fl[f].next.lin] \in Person
        BY <2>2, FlightIsLocal, NoCredIsNone DEF IInv, Local, Cred, Person
    <2>4. PICK who \in Person \cup {None} : fl' = [fl EXCEPT ![f].pc = "impSave", ![f].mail = who]
        BY <1>2, <2>3 DEF ImportCheck
    <2> DEFINE r == [fl[f] EXCEPT !.pc = "impSave", !.mail = who]
    <2>5. fl' = [fl EXCEPT ![f] = r]
        BY <2>4
    <2>6. /\ r \in Local /\ r.pc = "impSave" /\ r.stored = fl[f].stored /\ r.sent = fl[f].sent
          /\ r.next = fl[f].next /\ r.locked = fl[f].locked /\ r.probe = fl[f].probe
        BY FlightIsLocal DEF IInv, Local, PC, Outside
    <2> HIDE DEF r
    <2>7. Sound(f, r, Held(f), lapsed)
        BY <2>2, <2>6 DEF Sound, Struct, Mono, Mail, Own, Inside, Switching
    <2>8. Zone(r) = Zone(fl[f])
        BY <2>1, <2>6 DEF Zone, Inside
    <2>9. QED
        BY <2>1, <2>5, <2>6, <2>7, <2>8, CopiesOf, RecordMoves DEF Kept, IInv
<1>3. QED
    BY <1>1, <1>2

LEMMA RenameReadMoves == ASSUME IInv, NEW f \in Flight, RenameRead(f) PROVE Kept(f)
<1> DEFINE r == [fl[f] EXCEPT !.pc = "rnSave", !.next = Held(f), !.mail = email[AcctOf[f]]]
<1>1. /\ fl' = [fl EXCEPT ![f] = r] /\ owner' = owner /\ fl[f].pc = "idle"
      /\ Role[f] = "manage" /\ Held(f) # NoCred
    BY DEF RenameRead, At
<1>2. email[AcctOf[f]] \in Person \cup {None}
    BY FlightIsLocal DEF IInv, Typed, TypeOK
<1>3. /\ r \in Local /\ r.pc = "rnSave" /\ r.stored = fl[f].stored /\ r.sent = fl[f].sent
      /\ r.next = Held(f) /\ r.locked = fl[f].locked /\ r.probe = fl[f].probe
    BY <1>2, FlightIsLocal DEF IInv, Local, PC, Outside
<1> HIDE DEF r
<1>4. Sound(f, r, Held(f), lapsed)
    BY <1>1, <1>3, SoundFlight DEF Sound, Struct, Mono, Mail, Own, Inside, Switching
<1>5. Zone(r) = Zone(fl[f])
    BY <1>1, <1>3 DEF Zone, Inside
<1>6. QED
    BY <1>1, <1>3, <1>4, <1>5, CopiesOf, RecordMoves DEF Kept, IInv
\* What a flight does to the lock.
LockMoves(f) ==
    /\ \A g \in Flight \ {f} : fl'[g] = fl[g]
    /\ \/ owner' = owner /\ fl'[f].locked = fl[f].locked /\ Zone(fl'[f]) = Zone(fl[f])
       \/ /\ owner' = owner /\ ~fl[f].locked /\ ~fl'[f].locked
          /\ Zone(fl[f]) = "out" /\ Zone(fl'[f]) = "wait"
       \/ Unlock(f) /\ ~fl'[f].locked /\ Zone(fl'[f]) = "out"
       \/ /\ owner[AcctOf[f]] = None /\ owner' = [owner EXCEPT ![AcctOf[f]] = f]
          /\ fl'[f].locked /\ Zone(fl[f]) = "wait" /\ Zone(fl'[f]) = "in"
       \/ owner' = owner /\ ~fl'[f].locked /\ Zone(fl[f]) = "wait" /\ Zone(fl'[f]) = "bare"

\* Taking the lock, and going without it when the deadline has passed.
Entered(f) ==
    /\ Moved(f) /\ owner[AcctOf[f]] = None /\ owner' = [owner EXCEPT ![AcctOf[f]] = f]
    /\ fl'[f].locked /\ Zone(fl[f]) = "wait" /\ Zone(fl'[f]) = "in"

Intruded(f) ==
    /\ Moved(f) /\ owner' = owner /\ ~fl'[f].locked
    /\ Zone(fl[f]) = "wait" /\ Zone(fl'[f]) = "bare"

LEMMA AcquireMoves == ASSUME IInv, NEW f \in Flight, Acquire(f) PROVE Entered(f)
<1> DEFINE r == [fl[f] EXCEPT !.pc = "reread", !.locked = TRUE]
<1>1. /\ fl' = [fl EXCEPT ![f] = r] /\ owner' = [owner EXCEPT ![AcctOf[f]] = f]
      /\ fl[f].pc = "lock" /\ owner[AcctOf[f]] = None
    BY DEF Acquire, At
<1>2. /\ r \in Local /\ r.pc = "reread" /\ r.stored = fl[f].stored /\ r.sent = fl[f].sent
      /\ r.next = fl[f].next /\ r.locked = TRUE /\ r.probe = fl[f].probe
    BY FlightIsLocal, ZenonT(40) DEF IInv, Local, PC, Inside
<1> HIDE DEF r
<1>3. ~r.probe
    BY <1>1, <1>2, SoundFlight DEF Struct, Inside
<1>4. Sound(f, r, Held(f), lapsed)
    BY <1>1, <1>2, <1>3, SoundFlight DEF Sound, Struct, Mono, Mail, Own, Inside
<1>5. Zone(r) = "in" /\ Zone(fl[f]) = "wait"
    BY <1>1, <1>2, <1>3 DEF Zone, Inside
<1>6. {r.stored, r.sent, r.next} \subseteq Copies
    BY <1>2, CopiesOf DEF IInv
<1>7. Moved(f) /\ fl'[f] = r
    BY <1>1, <1>2, <1>4, <1>6, RecordMoves
<1>8. QED
    BY <1>1, <1>2, <1>5, <1>7 DEF Entered

LEMMA RunUnlockedMoves == ASSUME IInv, NEW f \in Flight, RunUnlocked(f) PROVE Intruded(f)
<1>1. Goto(f, "reread") /\ fl[f].pc = "lock" /\ ~LockHolds /\ "reread" \in PC
    BY DEF RunUnlocked, At, PC, Inside
<1>2. /\ fl' \in [Flight -> Local] /\ owner' = owner /\ \A g \in Flight \ {f} : fl'[g] = fl[g]
      /\ fl'[f] = [fl[f] EXCEPT !.pc = "reread"]
      /\ {fl'[f].stored, fl'[f].sent, fl'[f].next} \subseteq Copies
    BY <1>1, GotoMoves
<1>3. fl'[f].pc = "reread" /\ fl'[f].locked = fl[f].locked /\ fl'[f].probe = fl[f].probe
    BY <1>2, FlightIsLocal DEF IInv, Local
<1>4. ~fl[f].locked /\ ~fl[f].probe
    BY <1>1, SoundFlight DEF Struct, Inside
<1>5. Sound(f, fl'[f], Held(f), lapsed)
    BY <1>1, <1>3, <1>4, SoundFlight DEF Sound, Struct, Mono, Mail, Own, Inside, Calm
<1>6. Zone(fl[f]) = "wait" /\ Zone(fl'[f]) = "bare"
    BY <1>1, <1>3, <1>4 DEF Zone, Inside
<1>7. QED
    BY <1>2, <1>3, <1>4, <1>5, <1>6 DEF Intruded, Moved
-----------------------------------------------------------------------------
(* A step of a flight keeps the invariant *)

LEMMA LockingKept ==
    ASSUME IInv, NEW f \in Flight, \A g \in Flight \ {f} : fl'[g] = fl[g],
           \/ owner' = owner /\ (fl'[f].locked => fl[f].locked)
           \/ Unlock(f) /\ ~fl'[f].locked
           \/ owner[AcctOf[f]] = None /\ owner' = [owner EXCEPT ![AcctOf[f]] = f]
    PROVE  Locking' /\ owner' \in [Account -> Flight \cup {None}]
<1>1. /\ owner \in [Account -> Flight \cup {None}] /\ None \notin Flight
      /\ \A g \in Flight : AcctOf[g] \in Account /\ (fl[g].locked => owner[AcctOf[g]] = g)
    BY CredentialAssumption DEF IInv, Typed, TypeOK, Locking
<1>2. CASE owner' = owner /\ (fl'[f].locked => fl[f].locked)
    BY <1>1, <1>2 DEF Locking
<1>3. CASE Unlock(f) /\ ~fl'[f].locked
    <2>1. owner' = [owner EXCEPT ![AcctOf[f]] = IF fl[f].locked THEN None ELSE owner[AcctOf[f]]]
        BY <1>3 DEF Unlock
    <2>2. owner' \in [Account -> Flight \cup {None}]
        BY <1>1, <2>1
    <2>3. ASSUME NEW g \in Flight, fl'[g].locked PROVE owner'[AcctOf[g]] = g
        <3>1. g # f /\ fl[g].locked
            BY <1>3, <2>3
        <3>2. QED
            BY <1>1, <2>1, <2>3, <3>1
    <2>4. QED
        BY <2>2, <2>3 DEF Locking
<1>4. CASE owner[AcctOf[f]] = None /\ owner' = [owner EXCEPT ![AcctOf[f]] = f]
    BY <1>1, <1>4 DEF Locking
<1>5. QED
    BY <1>2, <1>3, <1>4

LEMMA CopiesAfter ==
    ASSUME NEW S, Copies \subseteq S, live' \in S, \A a \in Account : vault'[a] \in S,
           NEW f \in Flight, {fl'[f].stored, fl'[f].sent, fl'[f].next} \subseteq S,
           \A g \in Flight \ {f} : fl'[g] = fl[g]
    PROVE  Copies' \subseteq S
BY DEF Copies, Everywhere

LEMMA CoherentShrinks ==
    ASSUME Coherent, Copies' \subseteq Copies, server' = server PROVE Coherent'
BY DEF Coherent

LEMMA FlightsKept ==
    ASSUME Flights, NEW f \in Flight, \A g \in Flight \ {f} : fl'[g] = fl[g],
           vault' = vault, lapsed' = lapsed, Sound(f, fl'[f], Held(f), lapsed)
    PROVE  Flights'
<1>1. ASSUME NEW g \in Flight PROVE Sound(g, fl'[g], vault'[AcctOf[g]], lapsed')
    <2>1. CASE g = f
        BY <2>1 DEF Held
    <2>2. CASE g # f
        BY <2>2 DEF Flights
    <2>3. QED
        BY <2>1, <2>2
<1>2. QED
    BY <1>1 DEF Flights

LEMMA MovedKeeps ==
    ASSUME IInv, NEW f \in Flight, Moved(f), UNCHANGED <<server, lapsed, disk>>, live' \in Copies,
           \/ owner' = owner /\ (fl'[f].locked => fl[f].locked)
           \/ Unlock(f) /\ ~fl'[f].locked
           \/ owner[AcctOf[f]] = None /\ owner' = [owner EXCEPT ![AcctOf[f]] = f]
    PROVE  IInv'
<1>1. \A g \in Flight \ {f} : fl'[g] = fl[g]
    BY DEF Moved
<1>2. Locking' /\ owner' \in [Account -> Flight \cup {None}]
    BY <1>1, LockingKept
<1>3. Copies' \subseteq Copies /\ Copies \subseteq MaybeCred
    BY <1>1, CopiesAfter, CopiesAreCreds DEF Moved, disk, Copies, Everywhere, IInv
<1>4. Typed'
    BY <1>2, <1>3 DEF IInv, Typed, TypeOK, Moved, disk
<1>5. Coherent'
    BY <1>3, CoherentShrinks DEF IInv
<1>6. Flights'
    BY <1>1, FlightsKept DEF Moved, IInv, disk
<1>7. Vaults'
    BY DEF IInv, Vaults, disk
<1>8. QED
    BY <1>2, <1>4, <1>5, <1>6, <1>7 DEF IInv
Shift(f) == Kept(f) \/ Waits(f) \/ Left(f) \/ Entered(f) \/ Intruded(f)

LEMMA ShiftKeeps ==
    ASSUME IInv, NEW f \in Flight, Shift(f), UNCHANGED <<server, lapsed, disk>>, live' \in Copies
    PROVE  IInv'
<1>1. CASE Kept(f)
    BY <1>1, MovedKeeps DEF Kept
<1>2. CASE Waits(f)
    BY <1>2, MovedKeeps DEF Waits
<1>3. CASE Left(f)
    BY <1>3, MovedKeeps DEF Left
<1>4. CASE Entered(f)
    BY <1>4, MovedKeeps DEF Entered
<1>5. CASE Intruded(f)
    BY <1>5, MovedKeeps DEF Intruded
<1>6. QED
    BY <1>1, <1>2, <1>3, <1>4, <1>5 DEF Shift

\* The steps that write neither an account nor the endpoint's record.
Inward(f) ==
    \/ Ask(f) \/ Acquire(f) \/ RunUnlocked(f) \/ Reread(f) \/ AdoptShared(f) \/ LoadStored(f)
    \/ Refused(f) \/ Unreached(f) \/ MirrorRead(f) \/ SaveRead(f) \/ HandRead(f) \/ ResyncLoad(f)
    \/ ResyncLive(f) \/ ResyncOwned(f) \/ ResyncEmail(f) \/ Use(f) \/ Accepted(f)
    \/ Unauthorized(f) \/ RecoverCheck(f) \/ Verify(f) \/ ImportRead(f) \/ ImportCheck(f)
    \/ RenameRead(f) \/ MirrorWrite(f) \/ HandWrite(f) \/ Install(f)

LEMMA InwardShifts ==
    ASSUME IInv, NEW f \in Flight, Inward(f)
    PROVE  Shift(f) /\ UNCHANGED <<server, lapsed, disk>> /\ live' \in Copies
<1>0. live \in Copies /\ fl[f].next \in Copies
    BY CopiesOf DEF IInv
<1>1. CASE Ask(f)
    BY <1>0, <1>1, AskMoves DEF Shift, Ask
<1>2. CASE Acquire(f)
    BY <1>0, <1>2, AcquireMoves DEF Shift, Acquire
<1>3. CASE RunUnlocked(f)
    BY <1>0, <1>3, RunUnlockedMoves DEF Shift, RunUnlocked
<1>4. CASE Reread(f)
    BY <1>0, <1>4, RereadMoves DEF Shift, Reread
<1>5. CASE AdoptShared(f)
    BY <1>0, <1>5, AdoptSharedMoves DEF Shift, AdoptShared
<1>6. CASE LoadStored(f)
    BY <1>0, <1>6, LoadStoredMoves DEF Shift, LoadStored
<1>7. CASE Refused(f)
    BY <1>0, <1>7, RefusedMoves DEF Shift, Refused
<1>8. CASE Unreached(f)
    BY <1>0, <1>8, UnreachedMoves DEF Shift, Unreached
<1>9. CASE MirrorRead(f)
    BY <1>0, <1>9, MirrorReadMoves DEF Shift, MirrorRead
<1>10. CASE SaveRead(f)
    BY <1>0, <1>10, SaveReadMoves DEF Shift, SaveRead
<1>11. CASE HandRead(f)
    BY <1>0, <1>11, HandReadMoves DEF Shift, HandRead
<1>12. CASE ResyncLoad(f)
    BY <1>0, <1>12, ResyncLoadMoves DEF Shift, ResyncLoad
<1>13. CASE ResyncLive(f)
    BY <1>0, <1>13, ResyncLiveMoves DEF Shift, ResyncLive
<1>14. CASE ResyncOwned(f)
    BY <1>0, <1>14, ResyncOwnedMoves DEF Shift, ResyncOwned
<1>15. CASE ResyncEmail(f)
    BY <1>0, <1>15, ResyncEmailMoves DEF Shift, ResyncEmail
<1>16. CASE Use(f)
    BY <1>0, <1>16, UseMoves DEF Shift, Use
<1>17. CASE Accepted(f)
    BY <1>0, <1>17, AcceptedMoves DEF Shift, Accepted
<1>18. CASE Unauthorized(f)
    BY <1>0, <1>18, UnauthorizedMoves DEF Shift, Unauthorized
<1>19. CASE RecoverCheck(f)
    BY <1>0, <1>19, RecoverCheckMoves DEF Shift, RecoverCheck
<1>20. CASE Verify(f)
    BY <1>0, <1>20, VerifyMoves DEF Shift, Verify
<1>21. CASE ImportRead(f)
    BY <1>0, <1>21, ImportReadMoves DEF Shift, ImportRead
<1>22. CASE ImportCheck(f)
    BY <1>0, <1>22, ImportCheckMoves DEF Shift, ImportCheck
<1>23. CASE RenameRead(f)
    BY <1>0, <1>23, RenameReadMoves DEF Shift, RenameRead
<1>24. CASE MirrorWrite(f)
    BY <1>0, <1>24, MirrorWriteMoves DEF Shift, MirrorWrite
<1>25. CASE HandWrite(f)
    BY <1>0, <1>25, HandWriteMoves DEF Shift, HandWrite
<1>26. CASE Install(f)
    BY <1>0, <1>26, InstallMoves DEF Shift, Install
<1>27. QED
    BY <1>1, <1>2, <1>3, <1>4, <1>5, <1>6, <1>7, <1>8, <1>9, <1>10, <1>11, <1>12, <1>13, <1>14,
       <1>15, <1>16, <1>17, <1>18, <1>19, <1>20, <1>21, <1>22, <1>23, <1>24, <1>25, <1>26 DEF
       Inward

LEMMA ReclaimKeeps == ASSUME IInv, NEW f \in Flight, Reclaim(f) PROVE IInv'
<1>1. /\ fl' = fl /\ UNCHANGED <<server, lapsed, disk, live>> /\ owner[AcctOf[f]] # None
      /\ ~fl[owner[AcctOf[f]]].locked /\ owner' = [owner EXCEPT ![AcctOf[f]] = None]
    BY DEF Reclaim
<1>2. Typed'
    BY <1>1 DEF IInv, Typed, TypeOK, disk
<1>3. Coherent' /\ Flights' /\ Vaults'
    <2>1. Copies' = Copies
        BY <1>1 DEF Copies, Everywhere, disk
    <2>2. Coherent'
        BY <1>1, <2>1 DEF IInv, Coherent
    <2>3. Flights' /\ Vaults'
        BY <1>1 DEF IInv, Flights, Vaults, disk
    <2>4. QED
        BY <2>2, <2>3
<1>4. Locking'
    BY <1>1 DEF IInv, Typed, TypeOK, Locking
<1>5. QED
    BY <1>2, <1>3, <1>4 DEF IInv
-----------------------------------------------------------------------------
(* The endpoint gives a new credential *)

\* It is younger than every copy of its lineage, and no copy is newer than it.
LEMMA GrantIsCoherent ==
    ASSUME IInv, NEW c \in Copies, c # NoCred, Honours(c), NEW rotates \in BOOLEAN,
           server' = [server EXCEPT ![c.lin] = [rt |-> Grant(c, rotates).rt, at |-> Grant(c, rotates).at]],
           Copies' \subseteq Copies \cup {Grant(c, rotates)}
    PROVE  /\ Coherent' /\ Grant(c, rotates) \in Cred /\ Grant(c, rotates).lin = c.lin
           /\ server' \in [Lineage -> [rt : Token, at : Token]]
           /\ \A l \in Lineage : server'[l].rt <= server'[l].at
           /\ \A d \in Copies : d.lin = c.lin => d.rt <= Grant(c, rotates).rt
<1> DEFINE new == Grant(c, rotates)
           l == c.lin
<1>1. /\ c \in Cred /\ Copies \subseteq MaybeCred /\ l \in Lineage /\ MaxToken \in Nat
      /\ server \in [Lineage -> [rt : Token, at : Token]]
      /\ \A m \in Lineage : server[m].rt <= server[m].at
    BY CopiesAreCreds, NoCredIsNone, CredentialAssumption DEF IInv, Typed, TypeOK, Cred
<1>2. /\ c.rt \in Nat /\ server[l].at \in Nat /\ server[l].rt \in Nat /\ 1 <= c.rt
      /\ c.rt = server[l].rt /\ server[l].at < MaxToken
    BY <1>1 DEF Honours, Cred, Token, IInv, Coherent
<1>3. /\ new.lin = l /\ new.at = server[l].at + 1 /\ new.rt \in {c.rt, c.rt + 1}
      /\ new = [lin |-> new.lin, rt |-> new.rt, at |-> new.at]
    BY DEF Grant
<1>4. /\ server' = [server EXCEPT ![l] = [rt |-> new.rt, at |-> new.at]]
      /\ Copies' \subseteq Copies \cup {new}
    OBVIOUS
<1> HIDE DEF new
<1>5. new.rt \in Token /\ new.at \in Token /\ new.rt <= new.at /\ 1 <= new.rt /\ c.rt <= new.rt
    BY <1>1, <1>2, <1>3 DEF Token
<1>6. new \in Cred /\ new # NoCred
    BY <1>1, <1>3, <1>5, NoCredIsNone DEF Cred
<1>7. /\ server'[l].rt = new.rt /\ server'[l].at = new.at
      /\ \A m \in Lineage : m # l => server'[m] = server[m]
    BY <1>1, <1>4
<1>8. server' \in [Lineage -> [rt : Token, at : Token]]
    BY <1>1, <1>4, <1>5
<1>9. \A m \in Lineage : server'[m].rt <= server'[m].at
    BY <1>1, <1>5, <1>7
<1>10. ASSUME NEW d \in Copies, d # NoCred
       PROVE  /\ d.lin \in Lineage /\ d.rt \in Nat /\ d.at \in Nat
              /\ 1 <= d.rt /\ d.rt <= server[d.lin].rt /\ d.at <= server[d.lin].at
    BY <1>1, <1>10, NoCredIsNone DEF IInv, Coherent, Cred, Token
<1>11. ASSUME NEW d \in Copies, d.lin = l PROVE d.rt <= new.rt /\ d.at < new.at
    <2>1. d # NoCred
        BY <1>1, <1>11, CredentialAssumption DEF NoCred
    <2>2. QED
        BY <1>2, <1>3, <1>5, <1>10, <1>11, <2>1
<1>12. Coherent'
    <2>1. ASSUME NEW d \in Copies', d # NoCred
          PROVE  1 <= d.rt /\ d.rt <= server'[d.lin].rt /\ d.at <= server'[d.lin].at
        <3>1. CASE d = new
            BY <1>3, <1>5, <1>7, <3>1 DEF Token
        <3>2. CASE d \in Copies /\ d.lin = l
            BY <1>2, <1>3, <1>7, <1>10, <1>11, <2>1, <3>2
        <3>3. CASE d \in Copies /\ d.lin # l
            BY <1>7, <1>10, <2>1, <3>3
        <3>4. QED
            BY <1>4, <2>1, <3>1, <3>2, <3>3
    <2>2. ASSUME NEW d \in Copies', NEW e \in Copies', d # NoCred, e # NoCred, d.lin = e.lin, d.at <= e.at
          PROVE  d.rt <= e.rt
        <3>1. CASE d \in Copies /\ e \in Copies
            BY <2>2, <3>1 DEF IInv, Coherent
        <3>2. CASE d = new /\ e = new
            BY <1>5, <3>2 DEF Token
        <3>3. CASE d \in Copies /\ e = new
            BY <1>3, <1>11, <2>2, <3>3
        <3>4. CASE d = new /\ e \in Copies
            <4>1. e.lin = l /\ e.at \in Nat /\ e.at < new.at
                BY <1>3, <1>10, <1>11, <2>2, <3>4
            <4>2. QED
                BY <1>2, <1>3, <2>2, <3>4, <4>1
        <3>5. QED
            BY <1>4, <2>2, <3>1, <3>2, <3>3, <3>4
    <2>3. QED
        BY <2>1, <2>2 DEF Coherent
<1>13. QED
    BY <1>3, <1>6, <1>8, <1>9, <1>11, <1>12 DEF new

LEMMA ShiftMovesLock == ASSUME NEW f \in Flight, Shift(f) PROVE LockMoves(f)
<1>1. CASE Left(f)
    <2>1. Zone(fl'[f]) = "out"
        BY <1>1 DEF Left, Zone, Inside
    <2>2. QED
        BY <1>1, <2>1 DEF Left, Moved, LockMoves
<1>2. CASE ~Left(f)
    BY <1>2 DEF Shift, Kept, Waits, Entered, Intruded, Moved, LockMoves
<1>3. QED
    BY <1>1, <1>2

LEMMA GrantedKeeps == ASSUME IInv, NEW f \in Flight, Granted(f) PROVE IInv' /\ LockMoves(f)
<1>1. /\ fl[f].pc = "refresh" /\ UNCHANGED <<lapsed, vault, email, live>>
      /\ Honours(fl[f].sent)
    BY DEF Granted, At, disk
<1>2. fl[f].sent \in Copies /\ fl[f].sent # NoCred
    BY <1>1, SoundFlight, CopiesOf DEF Struct, IInv
<1>3. PICK rotates \in BOOLEAN :
          LET new == Grant(fl[f].sent, rotates)
          IN /\ server' = [server EXCEPT ![new.lin] = [rt |-> new.rt, at |-> new.at]]
             /\ \/ /\ fl' = [fl EXCEPT ![f].next = new,
                                       ![f].pc = IF rotates THEN "mirror" ELSE Afterwards(f)]
                   /\ UNCHANGED owner
                \/ RefreshFails(f)
    BY DEF Granted
<1> DEFINE new == Grant(fl[f].sent, rotates)
<1>4. server' = [server EXCEPT ![fl[f].sent.lin] = [rt |-> new.rt, at |-> new.at]]
    BY <1>3 DEF Grant
<1>5. CASE RefreshFails(f)
    <2>1. Kept(f) \/ Left(f)
        BY <1>1, <1>5, RefreshFailsMoves
    <2>2. \A g \in Flight \ {f} : fl'[g] = fl[g]
        BY <2>1 DEF Kept, Left, Moved
    <2>3. Copies' \subseteq Copies
      <3>1. {fl'[f].stored, fl'[f].sent, fl'[f].next} \subseteq Copies
        BY <2>1 DEF Kept, Left, Moved
      <3>2. Copies \subseteq Copies /\ live' \in Copies /\ \A a \in Account : vault'[a] \in Copies
        BY <1>1 DEF Copies, Everywhere
      <3>3. QED
        BY ONLY <2>2, <3>1, <3>2, CopiesAfter
    <2>4. /\ Coherent' /\ server' \in [Lineage -> [rt : Token, at : Token]]
          /\ \A l \in Lineage : server'[l].rt <= server'[l].at
        BY <1>1, <1>2, <1>4, <2>3, GrantIsCoherent
    <2>5. Locking' /\ owner' \in [Account -> Flight \cup {None}]
        BY <2>1, <2>2, LockingKept DEF Kept, Left
    <2>6. Typed'
        BY <1>1, <2>1, <2>4, <2>5 DEF IInv, Typed, TypeOK, Kept, Left, Moved
    <2>7. Flights'
        BY <1>1, <2>1, <2>2, FlightsKept DEF IInv, Kept, Left, Moved
    <2>8. Vaults'
        BY <1>1 DEF IInv, Vaults
    <2>9. QED
        BY <2>1, <2>4, <2>5, <2>6, <2>7, <2>8, ShiftMovesLock DEF IInv, Shift
<1>6. CASE /\ fl' = [fl EXCEPT ![f].next = new, ![f].pc = IF rotates THEN "mirror" ELSE Afterwards(f)]
           /\ owner' = owner
    <2> DEFINE label == IF rotates THEN "mirror" ELSE Afterwards(f)
               r == [fl[f] EXCEPT !.next = new, !.pc = label]
    <2>1. fl' = [fl EXCEPT ![f] = r] /\ owner' = owner
        BY <1>6
    <2>2. /\ label \in {"mirror", "save", "email"} /\ label \in PC
          /\ label = "save" => fl[f].then = "vault"
          /\ label = "email" => fl[f].then # "vault"
        BY DEF Afterwards, PC, Inside
    <2>3. /\ r.pc = label /\ r.next = new /\ r.stored = fl[f].stored /\ r.sent = fl[f].sent
          /\ r.then = fl[f].then /\ r.locked = fl[f].locked /\ r.probe = fl[f].probe
        BY FlightIsLocal DEF IInv, Local
    <2> HIDE DEF label
    <2>4. fl'[f] = r /\ \A g \in Flight \ {f} : fl'[g] = fl[g]
        BY <2>1, FlightIsLocal DEF IInv
    <2> DEFINE S == Copies \cup {new}
    <2>5. Copies' \subseteq S
        <3>1. Copies \subseteq S /\ live' \in S /\ \A a \in Account : vault'[a] \in S
            BY <1>1 DEF Copies, Everywhere
        <3>2. {fl'[f].stored, fl'[f].sent, fl'[f].next} \subseteq S
            BY <1>2, <2>3, <2>4, CopiesOf DEF IInv
        <3> HIDE DEF S
        <3>3. QED
            BY <2>4, <3>1, <3>2, CopiesAfter
    <2>6. /\ Coherent' /\ new \in Cred /\ new.lin = fl[f].sent.lin
          /\ server' \in [Lineage -> [rt : Token, at : Token]]
          /\ \A l \in Lineage : server'[l].rt <= server'[l].at
          /\ \A d \in Copies : d.lin = fl[f].sent.lin => d.rt <= new.rt
        BY <1>1, <1>2, <1>4, <2>5, GrantIsCoherent
    <2> HIDE DEF new
    <2>7. new # NoCred /\ new \in MaybeCred /\ new.rt \in Nat
        BY <2>6, NoCredIsNone DEF MaybeCred, Cred, Token
    <2>8. r \in Local
        BY <2>2, <2>7, FlightIsLocal DEF IInv, Local
    <2> HIDE DEF r
    <2>9. Sound(f, r, Held(f), lapsed)
        <3>1. Struct(f, r)
            BY <1>1, <1>2, <2>2, <2>3, <2>7, SoundFlight DEF Struct, Inside
        <3>2. Mono(r, Held(f), lapsed)
            <4>1. Held(f) \in Copies /\ Held(f) \in MaybeCred
                BY CopiesOf, FlightIsLocal DEF IInv
            <4>2. Held(f).lin = new.lin => new.rt >= Held(f).rt
                BY <2>6, <2>7, <4>1, NoCredIsNone DEF MaybeCred, Cred, NoCred, Token
            <4>3. QED
                BY <2>2, <2>3, <4>2 DEF Mono
        <3>3. Guarded => Mail(AcctOf[f], r)
            BY <1>1, <1>2, <2>2, <2>3, <2>6, SoundFlight DEF Mail, Fits
        <3>4. Switching(AcctOf[f]) => Own(AcctOf[f], r)
            BY <1>1, <2>2, <2>3, <2>6, SoundFlight DEF Own
        <3>5. QED
            BY <3>1, <3>2, <3>3, <3>4 DEF Sound
    <2>10. Locking' /\ owner' \in [Account -> Flight \cup {None}]
        BY <2>1, <2>3, <2>4, LockingKept
    <2>11. Typed'
        <3>1. fl' \in [Flight -> Local]
            BY <2>1, <2>8, FlightIsLocal DEF IInv
        <3>2. QED
            BY <1>1, <2>6, <2>10, <3>1 DEF IInv, Typed, TypeOK
    <2>12. Flights' /\ Vaults'
        BY <1>1, <2>4, <2>9, FlightsKept DEF IInv, Vaults
    <2>13. LockMoves(f)
        BY <1>1, <2>1, <2>2, <2>3, <2>4 DEF LockMoves, Zone, Inside
    <2>14. QED
        BY <2>6, <2>10, <2>11, <2>12, <2>13 DEF IInv
<1>7. QED
    BY <1>3, <1>5, <1>6
-----------------------------------------------------------------------------
(* Writing an account *)

\* Where nothing is about to be saved, it does not matter what the vault holds.
LEMMA NothingToSave ==
    ASSUME NEW g \in Flight, NEW r, NEW held, NEW other, NEW lap, Sound(g, r, held, lap),
           Calm => r.pc \notin Inside
    PROVE  Sound(g, r, other, lap)
BY DEF Sound, Mono, Inside

LEMMA WriteKeeps ==
    ASSUME IInv, NEW f \in Flight, Kept(f) \/ Left(f), fl'[f].pc \in {"hand", "idle", "install"},
           NEW c \in Copies, NEW m \in Person \cup {None},
           vault' = [vault EXCEPT ![AcctOf[f]] = c], email' = [email EXCEPT ![AcctOf[f]] = m],
           UNCHANGED <<server, lapsed, live>>,
           Calm => \A g \in Flight \ {f} : AcctOf[g] = AcctOf[f] => fl[g].pc \notin Inside,
           Guarded => /\ c # NoCred /\ InitVault[AcctOf[f]] # None
                      /\ m = InitEmail[AcctOf[f]] /\ Fits(AcctOf[f], c),
           Switching(AcctOf[f]) => c.lin = InitVault[AcctOf[f]]
    PROVE  IInv'
<1> DEFINE a == AcctOf[f]
<1>1. /\ a \in Account /\ vault \in [Account -> MaybeCred] /\ email \in [Account -> Person \cup {None}]
      /\ c \in MaybeCred /\ \A g \in Flight : AcctOf[g] \in Account
    BY FlightIsLocal, CopiesAreCreds, CredentialAssumption DEF IInv, Typed, TypeOK
<1>2. Moved(f) /\ \A g \in Flight \ {f} : fl'[g] = fl[g]
    BY DEF Kept, Left, Moved
<1>3. Locking' /\ owner' \in [Account -> Flight \cup {None}]
    BY <1>2, LockingKept DEF Kept, Left
<1>4. Copies' \subseteq Copies
    <2>1. live' \in Copies /\ \A b \in Account : vault'[b] \in Copies
        BY <1>1 DEF Copies, Everywhere
    <2>2. QED
        BY <1>2, <2>1, CopiesAfter DEF Moved
<1>5. Typed'
    BY <1>1, <1>2, <1>3 DEF IInv, Typed, TypeOK, Moved
<1>6. Coherent'
    BY <1>4, CoherentShrinks DEF IInv
<1>7. ASSUME NEW g \in Flight PROVE Sound(g, fl'[g], vault'[AcctOf[g]], lapsed')
    <2>1. CASE g = f
        <3>1. CASE fl'[f].pc = "hand"
            BY <1>2, <2>1, <3>1 DEF Moved, Sound, Mono
        <3>2. CASE fl'[f].pc # "hand"
            BY <1>2, <2>1, <3>2, NothingToSave DEF Moved, Inside
        <3>3. QED
            BY <3>1, <3>2
    <2>2. CASE g # f /\ AcctOf[g] = a
        <3>1. Sound(g, fl[g], vault[AcctOf[g]], lapsed) /\ fl'[g] = fl[g] /\ (Calm => fl[g].pc \notin Inside)
            BY <1>2, <2>2 DEF IInv, Flights
        <3>2. QED
            BY <3>1, NothingToSave
    <2>3. CASE g # f /\ AcctOf[g] # a
        BY <1>1, <1>2, <2>3 DEF IInv, Flights
    <2>4. QED
        BY <2>1, <2>2, <2>3
<1>8. Flights'
    BY <1>7 DEF Flights
<1>9. Vaults'
    <2>1. \A b \in Account : b # a => vault'[b] = vault[b] /\ email'[b] = email[b]
        BY <1>1
    <2>2. vault'[a] = c /\ email'[a] = m
        BY <1>1
    <2>3. Guarded => email' = InitEmail
        <3>1. SUFFICES ASSUME Guarded PROVE email' = InitEmail
            OBVIOUS
        <3>2. email = InitEmail /\ m = InitEmail[a]
            BY <3>1 DEF IInv, Vaults
        <3>3. QED
            BY <1>1, <3>2
    <2>4. Guarded => \A b \in Account : Fits(b, vault'[b]) /\ (vault'[b] = NoCred <=> InitVault[b] = None)
        BY <2>1, <2>2 DEF IInv, Vaults
    <2>5. \A b \in Account : Switching(b) => vault'[b].lin = InitVault[b]
        BY <2>1, <2>2 DEF IInv, Vaults
    <2>6. QED
        BY <2>3, <2>4, <2>5 DEF Vaults
<1>10. QED
    BY <1>3, <1>5, <1>6, <1>8, <1>9 DEF IInv

\* Where everybody waits for the lock, two flights are never in the critical section of one account.
LEMMA OneInside ==
    ASSUME IInv, LockHolds, NEW f \in Flight, NEW g \in Flight, f # g, AcctOf[f] = AcctOf[g],
           fl[f].pc \in Inside, fl[g].pc \in Inside
    PROVE  fl[f].probe \/ fl[g].probe
<1>1. (fl[f].locked \/ fl[f].probe) /\ (fl[g].locked \/ fl[g].probe)
    BY SoundFlight DEF Struct
<1>2. QED
    BY <1>1 DEF IInv, Locking

LEMMA SaveWriteMoves ==
    ASSUME IInv, NEW f \in Flight, SaveWrite(f)
    PROVE  (Kept(f) \/ Left(f)) /\ fl'[f].pc \in {"hand", "idle", "install"}
<1>1. fl[f].pc = "write"
    BY DEF SaveWrite, At
<1>2. CASE Goto(f, "hand")
    <2>1. "hand" \in Inside /\ "hand" \in PC /\ fl[f].pc \in Inside
        BY <1>1 DEF Inside, PC
    <2>2. ASSUME NEW r \in Local, r.pc = "hand", r.next = fl[f].next, r.locked = fl[f].locked,
                 r.probe = fl[f].probe
          PROVE  Sound(f, r, Held(f), lapsed)
        BY <1>1, <2>2, SoundFlight DEF Sound, Struct, Mono, Mail, Own, Inside
    <2>3. Kept(f)
        BY <1>2, <2>1, <2>2, LabelMoves
    <2>4. fl'[f].pc = "hand"
        BY <1>2, FlightIsLocal DEF Goto, IInv, Local
    <2>5. QED
        BY <2>3, <2>4
<1>3. CASE Deliver(f, fl[f].next)
    <2>1. fl[f].next \in Copies /\ fl[f].next # NoCred
        BY <1>1, SoundFlight, CopiesOf DEF Struct, IInv
    <2>2. Switching(AcctOf[f]) => fl[f].next.lin = InitVault[AcctOf[f]]
        BY <1>1, SoundFlight DEF Own
    <2>3. Left(f)
        BY <1>3, <2>1, <2>2, DeliverLeaves
    <2>4. QED
        BY <2>3 DEF Left
<1>4. QED
    BY <1>2, <1>3 DEF SaveWrite

LEMMA SaveWriteKeeps == ASSUME IInv, NEW f \in Flight, SaveWrite(f) PROVE IInv' /\ LockMoves(f)
<1>1. /\ fl[f].pc = "write" /\ UNCHANGED <<server, lapsed, live>>
      /\ vault' = [vault EXCEPT ![AcctOf[f]] = fl[f].next]
      /\ email' = [email EXCEPT ![AcctOf[f]] = fl[f].mail]
    BY DEF SaveWrite, WriteVault, At
<1>2. (Kept(f) \/ Left(f)) /\ fl'[f].pc \in {"hand", "idle", "install"}
    BY SaveWriteMoves
<1>3. fl[f].next \in Copies /\ fl[f].next # NoCred /\ fl[f].mail \in Person \cup {None}
    BY <1>1, SoundFlight, CopiesOf, FlightIsLocal DEF Struct, IInv, Local
<1>4. Calm => \A g \in Flight \ {f} : AcctOf[g] = AcctOf[f] => fl[g].pc \notin Inside
    <2>1. SUFFICES ASSUME Calm, NEW g \in Flight \ {f}, AcctOf[g] = AcctOf[f], fl[g].pc \in Inside PROVE FALSE
        OBVIOUS
    <2>2. ~fl[f].probe /\ ~fl[g].probe
        BY <2>1, SoundFlight DEF Calm, Struct
    <2>3. QED
        BY <1>1, <2>1, <2>2, OneInside DEF Calm, Inside
<1>5. Guarded => /\ fl[f].next # NoCred /\ InitVault[AcctOf[f]] # None
                 /\ fl[f].mail = InitEmail[AcctOf[f]] /\ Fits(AcctOf[f], fl[f].next)
    BY <1>1, <1>3, SoundFlight DEF Mail
<1>6. Switching(AcctOf[f]) => fl[f].next.lin = InitVault[AcctOf[f]]
    BY <1>1, SoundFlight DEF Own
<1>7. IInv'
    BY <1>1, <1>2, <1>3, <1>4, <1>5, <1>6, WriteKeeps
<1>8. QED
    BY <1>2, <1>7, ShiftMovesLock DEF Shift

\* Import, rename and remove write without the lock.
LEMMA ManageKeeps ==
    ASSUME IInv, NEW f \in Flight, ImportSave(f) \/ RenameSave(f) \/ Remove(f)
    PROVE  IInv' /\ LockMoves(f) /\ Role[f] = "manage"
<1>1. UNCHANGED <<server, lapsed, live>> /\ AcctOf[f] \in Account
    BY CredentialAssumption DEF ImportSave, RenameSave, Remove
<1>2. CASE ImportSave(f) \/ RenameSave(f)
    <2>1. /\ fl[f].pc \in {"impSave", "rnSave"} /\ Finish(f, fl[f].next)
          /\ vault' = [vault EXCEPT ![AcctOf[f]] = fl[f].next]
          /\ email' = [email EXCEPT ![AcctOf[f]] = fl[f].mail]
        BY <1>2 DEF ImportSave, RenameSave, WriteVault, At
    <2>2. /\ fl[f].next \in Copies /\ fl[f].next \in MaybeCred
          /\ fl[f].mail \in Person \cup {None} /\ Role[f] = "manage"
        BY <2>1, SoundFlight, CopiesOf, FlightIsLocal DEF Struct, IInv, Local
    <2>3. Left(f)
        BY <2>1, <2>2, FinishLeaves
    <2>4. ~Calm /\ ~Guarded /\ ~Switching(AcctOf[f]) /\ fl'[f].pc \in {"hand", "idle", "install"}
        BY <2>2, <2>3 DEF Calm, Guarded, Switching, Left
    <2>5. IInv'
        BY <1>1, <2>1, <2>2, <2>3, <2>4, WriteKeeps
    <2>6. QED
        BY <2>2, <2>3, <2>5, ShiftMovesLock DEF Shift
<1>3. CASE Remove(f)
    <2>1. /\ fl' = fl /\ owner' = owner /\ fl[f].pc = "idle" /\ Role[f] = "manage"
          /\ vault' = [vault EXCEPT ![AcctOf[f]] = NoCred]
          /\ email' = [email EXCEPT ![AcctOf[f]] = None]
        BY <1>3 DEF Remove, At
    <2>2. Sound(f, fl[f], Held(f), lapsed)
        BY DEF IInv, Flights, Held
    <2>3. Kept(f)
        BY <2>1, <2>2, CopiesOf, FlightIsLocal DEF Kept, Moved, IInv
    <2>4. ~Calm /\ ~Guarded /\ ~Switching(AcctOf[f]) /\ fl'[f].pc \in {"hand", "idle", "install"}
        BY <2>1 DEF Calm, Guarded, Switching
    <2>5. NoCred \in Copies
        BY DEF Copies
    <2>6. IInv'
        BY <1>1, <2>1, <2>3, <2>4, <2>5, WriteKeeps
    <2>7. QED
        BY <2>1, <2>3, <2>6, ShiftMovesLock DEF Shift
<1>4. QED
    BY <1>2, <1>3
-----------------------------------------------------------------------------
(* The others: Claude Code, the user, the clock and the operating system *)

LEMMA UnmovedKeeps ==
    ASSUME IInv, UNCHANGED <<lapsed, vault, email, owner, fl>>, Coherent',
           server' \in [Lineage -> [rt : Token, at : Token]], live' \in MaybeCred,
           \A l \in Lineage : server'[l].rt <= server'[l].at
    PROVE  IInv'
<1>1. Typed'
    BY DEF IInv, Typed, TypeOK
<1>2. Locking' /\ Flights' /\ Vaults'
    BY DEF IInv, Locking, Flights, Vaults
<1>3. QED
    BY <1>1, <1>2 DEF IInv

LEMMA ClaudeRefreshKeeps == ASSUME IInv, ClaudeRefresh PROVE IInv'
<1>1. live # NoCred /\ Honours(live) /\ UNCHANGED <<lapsed, vault, email, owner, fl>>
    BY DEF ClaudeRefresh, disk
<1>2. PICK rotates \in BOOLEAN :
          LET new == Grant(live, rotates)
          IN /\ server' = [server EXCEPT ![new.lin] = [rt |-> new.rt, at |-> new.at]]
             /\ live' = new
    BY DEF ClaudeRefresh
<1> DEFINE new == Grant(live, rotates)
<1>3. server' = [server EXCEPT ![live.lin] = [rt |-> new.rt, at |-> new.at]]
    BY <1>2 DEF Grant
<1>4. live \in Copies
    BY DEF Copies, Everywhere
<1>5. Copies' \subseteq Copies \cup {new}
    BY <1>1, <1>2 DEF Copies, Everywhere
<1>6. /\ Coherent' /\ new \in Cred /\ server' \in [Lineage -> [rt : Token, at : Token]]
      /\ \A l \in Lineage : server'[l].rt <= server'[l].at
    BY <1>1, <1>3, <1>4, <1>5, GrantIsCoherent
<1>7. live' \in MaybeCred
    BY <1>2, <1>6 DEF MaybeCred
<1>8. QED
    BY <1>1, <1>6, <1>7, UnmovedKeeps

LEMMA FirstIsCred ==
    ASSUME NEW l \in Lineage
    PROVE  /\ First(l) = [lin |-> l, rt |-> 1, at |-> 1]
           /\ First(l) \in Cred /\ First(l) # NoCred /\ 1 \in Token /\ 0 \in Token
BY CredentialAssumption DEF First, Cred, NoCred, Token

LEMMA ClaudeLoginKeeps == ASSUME IInv, NEW l \in Lineage, ClaudeLogin(l) PROVE IInv'
<1>1. /\ server[l].rt = 0 /\ server' = [server EXCEPT ![l] = [rt |-> 1, at |-> 1]]
      /\ live' = First(l) /\ UNCHANGED <<lapsed, vault, email, owner, fl>>
    BY DEF ClaudeLogin, disk
<1>2. /\ First(l) = [lin |-> l, rt |-> 1, at |-> 1] /\ First(l) \in Cred /\ First(l) # NoCred
      /\ 1 \in Token
    BY FirstIsCred
<1>3. Copies' \subseteq Copies \cup {First(l)}
    BY <1>1 DEF Copies, Everywhere
<1>4. /\ server \in [Lineage -> [rt : Token, at : Token]] /\ Copies \subseteq MaybeCred
      /\ \A m \in Lineage : server[m].rt <= server[m].at
    BY CopiesAreCreds DEF IInv, Typed, TypeOK
<1>5. ASSUME NEW c \in Copies, c # NoCred
      PROVE  c.lin \in Lineage /\ c.lin # l /\ 1 <= c.rt /\ c.rt <= server[c.lin].rt /\ c.at <= server[c.lin].at
    BY <1>1, <1>4, <1>5, NoCredIsNone DEF IInv, Coherent, Cred, Token
<1>6. /\ server' \in [Lineage -> [rt : Token, at : Token]]
      /\ server'[l].rt = 1 /\ server'[l].at = 1 /\ \A m \in Lineage : m # l => server'[m] = server[m]
    BY <1>1, <1>2, <1>4
<1>7. \A m \in Lineage : server'[m].rt <= server'[m].at
    BY <1>4, <1>6
<1>8. Coherent'
    <2>1. ASSUME NEW c \in Copies', c # NoCred
          PROVE  1 <= c.rt /\ c.rt <= server'[c.lin].rt /\ c.at <= server'[c.lin].at
        <3>1. CASE c = First(l)
            BY <1>2, <1>6, <3>1
        <3>2. CASE c \in Copies
            BY <1>5, <1>6, <2>1, <3>2
        <3>3. QED
            BY <1>3, <3>1, <3>2
    <2>2. ASSUME NEW c \in Copies', NEW d \in Copies', c # NoCred, d # NoCred, c.lin = d.lin, c.at <= d.at
          PROVE  c.rt <= d.rt
        <3>1. CASE c = First(l) /\ d = First(l)
            BY <1>2, <3>1
        <3>2. CASE c \in Copies /\ d \in Copies
            BY <2>2, <3>2 DEF IInv, Coherent
        <3>3. CASE (c = First(l) /\ d \in Copies) \/ (c \in Copies /\ d = First(l))
            BY <1>2, <1>5, <2>2, <3>3
        <3>4. QED
            BY <1>3, <3>1, <3>2, <3>3
    <2>3. QED
        BY <2>1, <2>2 DEF Coherent
<1>9. QED
    BY <1>1, <1>2, <1>6, <1>7, <1>8, UnmovedKeeps DEF MaybeCred

LEMMA LapseKeeps == ASSUME IInv, NEW l \in Lineage, Lapse(l) PROVE IInv'
<1>1. /\ lapsed[l] < server[l].at /\ lapsed' = [lapsed EXCEPT ![l] = @ + 1]
      /\ UNCHANGED <<server, vault, email, live, owner, fl>>
    BY DEF Lapse, disk
<1>2. /\ lapsed \in [Lineage -> Token] /\ server[l].at \in Token /\ MaxToken \in Nat
      /\ vault \in [Account -> MaybeCred]
    BY CredentialAssumption DEF IInv, Typed, TypeOK
<1>3. /\ lapsed' \in [Lineage -> Token]
      /\ \A m \in Lineage : lapsed[m] \in Nat /\ lapsed'[m] \in Nat /\ lapsed[m] <= lapsed'[m]
    BY <1>1, <1>2 DEF Token
<1>4. Typed'
    BY <1>1, <1>3 DEF IInv, Typed, TypeOK
<1>5. Coherent' /\ Locking' /\ Vaults'
    <2>1. Copies' = Copies
        BY <1>1 DEF Copies, Everywhere
    <2>2. QED
        BY <1>1, <2>1 DEF IInv, Coherent, Locking, Vaults
<1>6. ASSUME NEW f \in Flight PROVE Sound(f, fl'[f], vault'[AcctOf[f]], lapsed')
    <2>1. Sound(f, fl[f], Held(f), lapsed) /\ Held(f) \in MaybeCred
        BY FlightIsLocal DEF IInv, Flights, Held
    <2>2. Held(f) = NoCred \/ (Held(f).lin \in Lineage /\ Held(f).at \in Nat)
        BY <2>1, NoCredIsNone DEF Cred, Token
    <2>3. Held(f).at <= lapsed[Held(f).lin] /\ Held(f) # NoCred => Held(f).at <= lapsed'[Held(f).lin]
        BY <1>3, <2>2
    <2>4. Mono(fl[f], Held(f), lapsed) => Mono(fl[f], Held(f), lapsed')
        BY <2>3 DEF Mono
    <2>5. Sound(f, fl[f], Held(f), lapsed')
        BY <2>1, <2>4 DEF Sound
    <2>6. QED
        BY <1>1, <2>5 DEF Held
<1>7. QED
    BY <1>4, <1>5, <1>6 DEF IInv, Flights

LEMMA CrashKeeps == ASSUME IInv, NEW p \in Process, Crash(p) PROVE IInv'
<1>1. /\ fl' = [f \in Flight |-> IF ProcOf[f] = p THEN Idle ELSE fl[f]]
      /\ UNCHANGED <<server, lapsed, vault, email, live, owner>>
    BY DEF Crash, disk
<1>2. /\ Idle.pc = "idle" /\ Idle.locked = FALSE /\ Idle.probe = FALSE
      /\ Idle.stored = NoCred /\ Idle.sent = NoCred /\ Idle.next = NoCred
    BY DEF Idle
<1>3. Typed'
    BY <1>1, IdleIsLocal DEF IInv, Typed, TypeOK
<1>4. Copies' \subseteq Copies
    BY <1>1, <1>2 DEF Copies, Everywhere
<1>5. Coherent'
    BY <1>1, <1>4, CoherentShrinks DEF IInv
<1>6. Locking' /\ Vaults'
    BY <1>1, <1>2 DEF IInv, Locking, Vaults
<1>7. ASSUME NEW f \in Flight PROVE Sound(f, fl'[f], vault'[AcctOf[f]], lapsed')
    <2>1. CASE ProcOf[f] = p
        <3>1. fl'[f] = Idle
            BY <1>1, <2>1
        <3>2. QED
            BY <1>2, <3>1 DEF Sound, Struct, Mono, Mail, Own, Inside
    <2>2. CASE ProcOf[f] # p
        BY <1>1, <2>2 DEF IInv, Flights
    <2>3. QED
        BY <2>1, <2>2
<1>8. QED
    BY <1>3, <1>5, <1>6, <1>7 DEF IInv, Flights
-----------------------------------------------------------------------------
(* The theorems *)

LEMMA FirstCopies ==
    ASSUME Init
    PROVE  /\ Copies \subseteq {First(InitVault[a]) : a \in Account} \cup {First(InitLive), NoCred}
           /\ \A c \in Copies \ {NoCred} :
                  /\ c.lin \in Lineage /\ c.rt = 1 /\ c.at = 1 /\ c \in Cred
                  /\ server[c.lin].rt = 1 /\ server[c.lin].at = 1
<1>1. ASSUME NEW f \in Flight PROVE fl[f].stored = NoCred /\ fl[f].sent = NoCred /\ fl[f].next = NoCred
    BY DEF Init, Idle
<1>2. Copies \subseteq {First(InitVault[a]) : a \in Account} \cup {First(InitLive), NoCred}
    BY <1>1 DEF Copies, Everywhere, Init
<1>3. ASSUME NEW l \in Lineage \cup {None}, InUse(l), First(l) # NoCred
      PROVE  /\ First(l).lin \in Lineage /\ First(l).rt = 1 /\ First(l).at = 1 /\ First(l) \in Cred
             /\ server[First(l).lin].rt = 1 /\ server[First(l).lin].at = 1
    <2>1. l \in Lineage
        BY <1>3 DEF First
    <2>2. First(l) = [lin |-> l, rt |-> 1, at |-> 1] /\ First(l) \in Cred
        BY <2>1, FirstIsCred
    <2>3. server[l] = [rt |-> 1, at |-> 1]
        BY <1>3, <2>1 DEF Init
    <2>4. QED
        BY <2>1, <2>2, <2>3
<1>4. ASSUME NEW c \in Copies, c # NoCred
      PROVE  \E l \in Lineage \cup {None} : InUse(l) /\ c = First(l)
    BY <1>2, <1>4, CredentialAssumption DEF InUse
<1>5. QED
    BY <1>2, <1>3, <1>4

LEMMA InitHolds == Init => IInv
<1> SUFFICES ASSUME Init PROVE IInv
    OBVIOUS
<1>1. 0 \in Token /\ 1 \in Token
    BY CredentialAssumption DEF Token
<1>2. \A l \in Lineage \cup {None} : First(l) \in MaybeCred /\ First(l).lin = l /\ (First(l) = NoCred <=> l = None)
    BY FirstIsCred, NoCredIsNone DEF First, MaybeCred, NoCred
<1>3. /\ vault \in [Account -> MaybeCred] /\ live \in MaybeCred
      /\ \A a \in Account : vault[a] = First(InitVault[a]) /\ InitVault[a] \in Lineage \cup {None}
    BY <1>2, CredentialAssumption DEF Init
<1>4. /\ server \in [Lineage -> [rt : Token, at : Token]]
      /\ \A l \in Lineage : server[l].rt <= server[l].at
    BY <1>1 DEF Init
<1>5. Typed
    <2>1. email \in [Account -> Person \cup {None}]
        BY CredentialAssumption DEF Init, Person
    <2>2. lapsed \in [Lineage -> Token] /\ owner \in [Account -> Flight \cup {None}] /\ fl \in [Flight -> Local]
        BY <1>1, IdleIsLocal DEF Init
    <2>3. QED
        BY <1>3, <1>4, <2>1, <2>2 DEF Typed, TypeOK
<1>6. Coherent
    BY FirstCopies DEF Coherent
<1>7. ASSUME NEW f \in Flight
      PROVE  Sound(f, fl[f], vault[AcctOf[f]], lapsed) /\ ~fl[f].locked
    <2>1. fl[f].pc = "idle" /\ fl[f].locked = FALSE /\ fl[f].probe = FALSE
        BY DEF Init, Idle
    <2>2. QED
        BY <2>1 DEF Sound, Struct, Mono, Mail, Own, Inside
<1>8. Locking /\ Flights
    BY <1>7 DEF Locking, Flights
<1>9. Vaults
    <2>1. Guarded => email = InitEmail
        BY DEF Init
    <2>2. ASSUME Guarded, NEW a \in Account PROVE Fits(a, vault[a]) /\ (vault[a] = NoCred <=> InitVault[a] = None)
        BY <1>2, <1>3, <2>2 DEF Fits, Guarded
    <2>3. \A a \in Account : vault[a].lin = InitVault[a]
        BY <1>2, <1>3
    <2>4. QED
        BY <2>1, <2>2, <2>3 DEF Vaults
<1>10. QED
    BY <1>5, <1>6, <1>8, <1>9 DEF IInv

LEMMA ActsOfFlight ==
    ASSUME NEW f \in Flight, Begin(f) \/ Progress(f)
    PROVE  \/ Inward(f) \/ Reclaim(f) \/ Granted(f) \/ SaveWrite(f)
           \/ ImportSave(f) \/ RenameSave(f) \/ Remove(f)
BY DEF Begin, Progress, Inward

LEMMA InwardKeeps == ASSUME IInv, NEW f \in Flight, Inward(f) PROVE IInv' /\ LockMoves(f)
BY InwardShifts, ShiftKeeps, ShiftMovesLock

LEMMA NextKeeps == IInv /\ [Next]_vars => IInv'
<1> SUFFICES ASSUME IInv, [Next]_vars PROVE IInv'
    OBVIOUS
<1>1. ASSUME NEW f \in Flight, Begin(f) \/ Progress(f) PROVE IInv'
    BY <1>1, ActsOfFlight, InwardKeeps, ReclaimKeeps, GrantedKeeps, SaveWriteKeeps, ManageKeeps
<1>2. CASE UNCHANGED vars
    <2>1. Copies' = Copies
        BY <1>2 DEF vars, disk, Copies, Everywhere
    <2>2. Typed' /\ Coherent'
        BY <1>2, <2>1 DEF vars, disk, IInv, Typed, TypeOK, Coherent
    <2>3. Locking' /\ Flights' /\ Vaults'
        BY <1>2 DEF vars, disk, IInv, Locking, Flights, Vaults
    <2>4. QED
        BY <2>2, <2>3 DEF IInv
<1>3. QED
    BY <1>1, <1>2, ClaudeRefreshKeeps, ClaudeLoginKeeps, LapseKeeps, CrashKeeps DEF Next

\* Every state of every behaviour is sound.
THEOREM Invariance == Spec => []IInv
<1>1. QED
    BY InitHolds, NextKeeps, PTL DEF Spec

\* Every flight, credential, account and lock stays well-formed; the endpoint's numbers stay in
\* their bounds (freshCredential.ts, accountVault.ts).
THEOREM TypeCorrect == Spec => []TypeOK
<1>1. IInv => TypeOK
    BY DEF IInv, Typed
<1>2. QED
    BY <1>1, Invariance, PTL

\* Two flights never spend a refresh token for one account at the same time, whoever crashes: one of
\* them would be the proxy's resync, which runs before it asks for the account lock (withAccountLock
\* in freshCredential.ts; recoverUnauthorizedOnce in proxy/server.ts).
OneSpenderPerAccount ==
    \A f, g \in Flight :
        f # g /\ AcctOf[f] = AcctOf[g] /\ Spending(f) /\ Spending(g) => fl[f].probe \/ fl[g].probe

LEMMA SpendersAreAlone == IInv /\ LockHolds => OneSpenderPerAccount
<1>1. \A f \in Flight : Spending(f) => fl[f].pc \in Inside
    BY DEF Spending, Inside
<1>2. QED
    BY <1>1, OneInside DEF OneSpenderPerAccount

THEOREM SpendsUnderTheLock == LockHolds /\ Spec => []OneSpenderPerAccount
<1>1. LockHolds => LockHolds'
    OBVIOUS
<1>2. QED
    BY <1>1, SpendersAreAlone, Invariance, PTL

\* The flights of one account, none of them a recovery, never spend one refresh token twice.
OneAccount == \A f, g \in Flight : AcctOf[f] = AcctOf[g] /\ Role[f] # "recover"

THEOREM SpendsOnce == LockHolds /\ OneAccount /\ Spec => []OneSpenderPerAnyToken
<1>1. IInv /\ LockHolds /\ OneAccount => OneSpenderPerAnyToken
    <2>1. SUFFICES ASSUME IInv, LockHolds, OneAccount PROVE OneSpenderPerAnyToken
        OBVIOUS
    <2>2. \A f \in Flight : ~fl[f].probe
        BY <2>1, SoundFlight DEF OneAccount, Struct
    <2>3. QED
        BY <2>1, <2>2, SpendersAreAlone DEF OneAccount, OneSpenderPerAccount, OneSpenderPerAnyToken
<1>2. (LockHolds => LockHolds') /\ (OneAccount => OneAccount')
    BY DEF OneAccount
<1>3. QED
    BY <1>1, <1>2, Invariance, PTL

\* An account whose email was known from the start holds that person's login for ever, as long as the
\* endpoint tells whose login it is and nothing but refreshes and switches writes the accounts (the
\* email guard of liveResync.ts).
THEOREM KeepsOwnLogin == Guarded /\ Spec => []HoldsOwnLogin
<1>1. IInv /\ Guarded => HoldsOwnLogin
    BY DEF IInv, Vaults, Fits, HoldsOwnLogin
<1>2. Guarded => Guarded'
    BY DEF Guarded
<1>3. QED
    BY <1>1, <1>2, Invariance, PTL

LEMMA MovesOnStep == IInv /\ Calm /\ [Next]_vars => MovesOn
<1> SUFFICES ASSUME IInv, Calm, [Next]_vars, NEW a \in Account, vault'[a].lin = vault[a].lin
             PROVE  vault'[a].rt >= vault[a].rt
    BY DEF MovesOn
<1>1. vault \in [Account -> MaybeCred] /\ vault[a].rt \in Nat
    BY NoCredIsNone DEF IInv, Typed, TypeOK, MaybeCred, Cred, NoCred, Token
<1>2. CASE vault' = vault
    BY <1>1, <1>2
<1>3. ASSUME NEW f \in Flight, SaveWrite(f) PROVE vault'[a].rt >= vault[a].rt
    <2>1. fl[f].pc = "write" /\ vault' = [vault EXCEPT ![AcctOf[f]] = fl[f].next]
        BY <1>3 DEF SaveWrite, WriteVault, At
    <2>2. fl[f].next.lin = Held(f).lin => fl[f].next.rt >= Held(f).rt
        BY <2>1, SoundFlight DEF Mono
    <2>3. QED
        BY <1>1, <2>1, <2>2 DEF Held
<1>4. ASSUME NEW f \in Flight, Begin(f) \/ Progress(f) PROVE vault' = vault \/ SaveWrite(f)
    <2>1. CASE Inward(f)
        BY <2>1, InwardShifts DEF disk
    <2>2. CASE Reclaim(f) \/ Granted(f)
        BY <2>2 DEF Reclaim, Granted, disk
    <2>3. ~(ImportSave(f) \/ RenameSave(f) \/ Remove(f))
        BY ManageKeeps DEF Calm
    <2>4. QED
        BY <1>4, <2>1, <2>2, <2>3, ActsOfFlight
<1>5. QED
    BY <1>2, <1>3, <1>4 DEF Next, ClaudeRefresh, ClaudeLogin, Lapse, Crash, vars, disk

\* A vault account is never moved back along its own lineage, as long as everybody who writes it takes
\* the lock and waits for it (the save of freshCredential.ts after a refresh or an adoption).
THEOREM NeverBack == Calm /\ Spec => NeverMovesBack
<1>1. Calm => Calm'
    BY DEF Calm
<1>2. QED
    BY <1>1, MovesOnStep, Invariance, PTL DEF Spec, NeverMovesBack

\* Nothing but a switch works on an account that is switched to.
SwitchesAlone == \A f \in Flight : Role[f] = "switch" => Switching(AcctOf[f])

LEMMA InstallsOwnStep == IInv /\ SwitchesAlone /\ [Next]_vars => InstallsOwn
<1> SUFFICES ASSUME IInv, SwitchesAlone, [Next]_vars, NEW f \in Flight,
                    fl[f].pc = "install", fl'[f].pc = "verify"
             PROVE  live'.lin = InitVault[AcctOf[f]]
    BY DEF InstallsOwn, At
<1>1. Switching(AcctOf[f]) /\ fl[f].next.lin = InitVault[AcctOf[f]]
    BY SoundFlight DEF Struct, Own, SwitchesAlone
<1>2. CASE Begin(f) \/ Progress(f)
    <2>1. Install(f)
        BY <1>2 DEF Begin, Progress, At, Ask, Use, ImportRead, RenameRead, Remove, Acquire, RunUnlocked,
           Reclaim, Reread, AdoptShared, LoadStored, Granted, Refused, Unreached, MirrorRead, MirrorWrite,
           SaveRead, SaveWrite, HandRead, HandWrite, ResyncLoad, ResyncLive, ResyncOwned, ResyncEmail,
           Accepted, Unauthorized, RecoverCheck, Verify, ImportCheck, ImportSave, RenameSave
    <2>2. ~Finish(f, NoCred)
        BY FinishLeaves, NoCredIsNone DEF Left
    <2>3. QED
        BY <1>1, <2>1, <2>2 DEF Install
<1>3. ASSUME NEW g \in Flight \ {f}, Begin(g) \/ Progress(g) PROVE FALSE
    <2>1. LockMoves(g) \/ Reclaim(g)
        BY <1>3, ActsOfFlight, InwardKeeps, GrantedKeeps, SaveWriteKeeps, ManageKeeps
    <2>2. fl'[f] = fl[f]
        BY <2>1 DEF LockMoves, Reclaim
    <2>3. QED
        BY <2>2
<1>4. ASSUME NEW p \in Process, Crash(p) PROVE FALSE
    BY <1>4 DEF Crash, Idle
<1>5. ASSUME ClaudeRefresh \/ (\E l \in Lineage : ClaudeLogin(l) \/ Lapse(l)) \/ UNCHANGED vars PROVE FALSE
    BY <1>5 DEF ClaudeRefresh, ClaudeLogin, Lapse, vars
<1>6. QED
    BY <1>2, <1>3, <1>4, <1>5 DEF Next

\* `accounts use` puts the account's own login into Claude's store, never one adopted on the way, as
\* long as only switches work on the account (runUse of apps/cli/src/accounts.ts).
THEOREM InstallsOwnLogin == SwitchesAlone /\ Spec => SwitchInstallsOwn
<1>1. SwitchesAlone => SwitchesAlone'
    BY DEF SwitchesAlone, Switching
<1>2. QED
    BY <1>1, InstallsOwnStep, Invariance, PTL DEF Spec, SwitchInstallsOwn
-----------------------------------------------------------------------------
(* The lock is used as AccountMutex promises it to its callers *)

LEMMA StateIsZone ==
    \A f \in Flight, a \in Account : StateOf(f, a) = IF AcctOf[f] = a THEN Zone(fl[f]) ELSE "out"
BY DEF StateOf, Zone, At

LEMMA MutexStep ==
    ASSUME IInv, IInv', NEW f \in Flight, LockMoves(f), NEW a \in Account
    PROVE  LockOf(a)!Next \/ UNCHANGED LockOf(a)!vars
<1> DEFINE st == [g \in Flight |-> StateOf(g, a)]
<1>1. /\ owner \in [Account -> Flight \cup {None}] /\ None \notin Flight /\ AcctOf[f] \in Account
      /\ fl[f].locked => owner[AcctOf[f]] = f
    BY CredentialAssumption DEF IInv, Typed, TypeOK, Locking
<1>2. /\ st[f] = IF AcctOf[f] = a THEN Zone(fl[f]) ELSE "out"
      /\ st'[f] = IF AcctOf[f] = a THEN Zone(fl'[f]) ELSE "out"
    BY StateIsZone DEF StateOf, Zone, At
<1>3. \A g \in Flight : g # f => st'[g] = st[g]
    BY DEF LockMoves, StateOf, At
<1>4. st' = [st EXCEPT ![f] = st'[f]]
    BY <1>3
<1>5. st'[f] = st[f] => st' = st
    BY <1>3
<1> HIDE DEF st
<1>6. CASE AcctOf[f] # a \/ (owner' = owner /\ Zone(fl'[f]) = Zone(fl[f]))
    <2>1. owner'[a] = owner[a]
        BY <1>1, <1>6 DEF LockMoves, Unlock
    <2>2. st' = st
        BY <1>2, <1>5, <1>6
    <2>3. QED
        BY <2>1, <2>2 DEF LockOf!vars, st
<1>7. CASE /\ AcctOf[f] = a /\ owner' = owner
           /\ Zone(fl[f]) = "out" /\ Zone(fl'[f]) = "wait"
    <2>1. LockOf(a)!Ask(f)
        BY <1>2, <1>4, <1>7 DEF LockOf!Ask, st
    <2>2. QED
        BY <2>1 DEF LockOf!Next
<1>8. CASE /\ AcctOf[f] = a /\ owner[a] = None /\ owner' = [owner EXCEPT ![a] = f]
           /\ Zone(fl[f]) = "wait" /\ Zone(fl'[f]) = "in"
    <2>1. LockOf(a)!Enter(f)
        BY <1>1, <1>2, <1>4, <1>8 DEF LockOf!Enter, st
    <2>2. QED
        BY <2>1 DEF LockOf!Next
<1>9. CASE /\ AcctOf[f] = a /\ owner' = owner
           /\ Zone(fl[f]) = "wait" /\ Zone(fl'[f]) = "bare"
    <2>1. LockOf(a)!EnterBare(f)
        BY <1>2, <1>4, <1>9 DEF LockOf!EnterBare, st
    <2>2. QED
        BY <2>1 DEF LockOf!Next
<1>10. CASE AcctOf[f] = a /\ Unlock(f) /\ Zone(fl'[f]) = "out"
    <2>1. owner'[a] = IF fl[f].locked THEN None ELSE owner[a]
        BY <1>1, <1>10 DEF Unlock
    <2>2. fl[f].locked <=> Zone(fl[f]) = "in"
        BY SoundFlight DEF Zone, Struct, Inside
    <2>3. CASE Zone(fl[f]) = "out"
        <3>1. st' = st /\ owner'[a] = owner[a]
            BY <1>2, <1>5, <1>10, <2>1, <2>2, <2>3
        <3>2. QED
            BY <3>1 DEF LockOf!vars, st
    <2>4. CASE Zone(fl[f]) # "out"
        <3>1. LockOf(a)!Leave(f)
            BY <1>2, <1>4, <1>10, <2>1, <2>2, <2>4 DEF LockOf!Leave, st
        <3>2. QED
            BY <3>1 DEF LockOf!Next
    <2>5. QED
        BY <2>3, <2>4
<1>11. QED
    BY <1>6, <1>7, <1>8, <1>9, <1>10 DEF LockMoves

LEMMA ReclaimIsReap ==
    ASSUME IInv, NEW f \in Flight, Reclaim(f), NEW a \in Account
    PROVE  LockOf(a)!Next \/ UNCHANGED LockOf(a)!vars
<1>1. /\ owner \in [Account -> Flight \cup {None}] /\ None \notin Flight /\ AcctOf[f] \in Account
    BY CredentialAssumption DEF IInv, Typed, TypeOK
<1>2. /\ fl' = fl /\ fl[f].pc = "lock" /\ owner[AcctOf[f]] # None
      /\ ~fl[owner[AcctOf[f]]].locked /\ owner' = [owner EXCEPT ![AcctOf[f]] = None]
    BY DEF Reclaim, At
<1>3. [g \in Flight |-> StateOf(g, a)]' = [g \in Flight |-> StateOf(g, a)]
    BY <1>2 DEF StateOf, At
<1>4. CASE AcctOf[f] # a
    BY <1>1, <1>2, <1>3, <1>4 DEF LockOf!vars
<1>5. CASE AcctOf[f] = a
    <2>1. owner[a] \in Flight /\ StateOf(owner[a], a) # "in" /\ StateOf(f, a) = "wait"
        BY <1>1, <1>2, <1>5 DEF StateOf, At
    <2>2. LockOf(a)!Reap(f)
        BY <1>1, <1>2, <1>3, <1>5, <2>1 DEF LockOf!Reap
    <2>3. QED
        BY <2>2 DEF LockOf!Next
<1>6. QED
    BY <1>4, <1>5

LEMMA CrashIsDeath ==
    ASSUME NEW p \in Process, Crash(p), NEW a \in Account
    PROVE  LockOf(a)!Next \/ UNCHANGED LockOf(a)!vars
<1> DEFINE dead == {f \in Flight : ProcOf[f] = p /\ StateOf(f, a) # "out"}
<1>1. /\ fl' = [f \in Flight |-> IF ProcOf[f] = p THEN Idle ELSE fl[f]] /\ owner' = owner
      /\ Idle.pc = "idle"
    BY DEF Crash, Idle
<1>2. \A f \in Flight : StateOf(f, a)' = IF f \in dead THEN "out" ELSE StateOf(f, a)
    BY <1>1 DEF StateOf, At, Inside
<1>3. LockOf(a)!Die(dead)
    BY <1>1, <1>2 DEF LockOf!Die
<1>4. QED
    BY <1>3 DEF LockOf!Next

LEMMA LockSteps == IInv /\ IInv' /\ [Next]_vars => LockStep
<1> SUFFICES ASSUME IInv, IInv', [Next]_vars, NEW a \in Account
             PROVE  LockOf(a)!Next \/ UNCHANGED LockOf(a)!vars
    BY DEF LockStep
<1>1. ASSUME NEW f \in Flight, Begin(f) \/ Progress(f)
      PROVE  LockOf(a)!Next \/ UNCHANGED LockOf(a)!vars
    <2>1. LockMoves(f) \/ Reclaim(f)
        BY <1>1, ActsOfFlight, InwardKeeps, GrantedKeeps, SaveWriteKeeps, ManageKeeps
    <2>2. QED
        BY <2>1, MutexStep, ReclaimIsReap
<1>2. CASE UNCHANGED <<owner, fl>>
    BY <1>2 DEF LockOf!vars, StateOf, At
<1>3. ASSUME ClaudeRefresh \/ (\E l \in Lineage : ClaudeLogin(l) \/ Lapse(l)) \/ UNCHANGED vars
      PROVE  UNCHANGED <<owner, fl>>
    BY <1>3 DEF ClaudeRefresh, ClaudeLogin, Lapse, vars
<1>4. QED
    BY <1>1, <1>2, <1>3, CrashIsDeath DEF Next

\* Refreshing implements the abstract lock, account by account: whoever enters the section takes the
\* lock, whoever leaves frees it, and only a lock whose owner died is taken away (withAccountLock).
THEOREM TakesTheLock == Spec => UsesTheLock
<1>1. Init => LockIsFree
    BY DEF Init, LockIsFree, LockOf!Init, StateOf, At, Idle, Inside
<1>2. QED
    BY <1>1, LockSteps, Invariance, PTL DEF Spec, UsesTheLock
-----------------------------------------------------------------------------
(* Where the steps of an ask or a recovery lead *)

\* Flight f goes on at a label with these copies; the others stay.
Turns(f, label, stored, sent, next, then, probe) ==
    /\ \A g \in Flight \ {f} : fl'[g] = fl[g]
    /\ fl'[f].pc = label /\ fl'[f].stored = stored /\ fl'[f].sent = sent /\ fl'[f].next = next
    /\ fl'[f].then = then /\ fl'[f].probe = probe /\ fl'[f].base = fl[f].base
    /\ fl'[f].rejected = fl[f].rejected /\ fl'[f].result = fl[f].result

Advances(f, label) ==
    Turns(f, label, fl[f].stored, fl[f].sent, fl[f].next, fl[f].then, fl[f].probe)

\* It ends, and answers c if it is a recovery.
Ends(f, c) ==
    /\ \A g \in Flight \ {f} : fl'[g] = fl[g]
    /\ fl'[f].pc = "idle" /\ fl'[f].stored = NoCred /\ fl'[f].sent = NoCred /\ fl'[f].next = NoCred
    /\ fl'[f].probe = FALSE
    /\ \/ Role[f] = "recover" /\ fl'[f].rejected = fl[f].rejected /\ fl'[f].result = c
       \/ Role[f] # "recover" /\ fl'[f].result = NoCred

\* The resync found nothing, or its refresh failed.
Declines(f) == (fl[f].probe /\ Advances(f, "check")) \/ Ends(f, NoCred)

\* The flights that only refresh an account: asks and recoveries.
Works(f) == Role[f] \in {"ask", "recover"}

LEMMA TurnsTo ==
    ASSUME IInv, NEW f \in Flight, NEW r, fl' = [fl EXCEPT ![f] = r],
           r.base = fl[f].base, r.rejected = fl[f].rejected, r.result = fl[f].result
    PROVE  Turns(f, r.pc, r.stored, r.sent, r.next, r.then, r.probe)
BY FlightIsLocal DEF IInv, Turns

LEMMA GotoAdvances == ASSUME IInv, NEW f \in Flight, NEW label, Goto(f, label) PROVE Advances(f, label)
<1> DEFINE r == [fl[f] EXCEPT !.pc = label]
<1>1. fl' = [fl EXCEPT ![f] = r]
    BY DEF Goto
<1>2. /\ r.pc = label /\ r.stored = fl[f].stored /\ r.sent = fl[f].sent /\ r.next = fl[f].next
      /\ r.then = fl[f].then /\ r.probe = fl[f].probe /\ r.base = fl[f].base
      /\ r.rejected = fl[f].rejected /\ r.result = fl[f].result
    BY FlightIsLocal, ZenonT(40) DEF IInv, Local
<1> HIDE DEF r
<1>3. QED
    BY <1>1, <1>2, TurnsTo DEF Advances

LEMMA FinishEnds == ASSUME IInv, NEW f \in Flight, NEW c, Finish(f, c) PROVE Ends(f, c)
<1> DEFINE r == IF Role[f] = "recover" THEN [Idle EXCEPT !.rejected = fl[f].rejected, !.result = c] ELSE Idle
<1>1. fl' = [fl EXCEPT ![f] = r] /\ fl \in [Flight -> Local]
    BY FlightIsLocal DEF Finish, IInv
<1>2. /\ r.pc = "idle" /\ r.stored = NoCred /\ r.sent = NoCred /\ r.next = NoCred /\ r.probe = FALSE
      /\ \/ Role[f] = "recover" /\ r.rejected = fl[f].rejected /\ r.result = c
         \/ Role[f] # "recover" /\ r.result = NoCred
    BY DEF Idle
<1> HIDE DEF r
<1>3. fl'[f] = r /\ \A g \in Flight \ {f} : fl'[g] = fl[g]
    BY <1>1
<1>4. QED
    BY <1>2, <1>3 DEF Ends

LEMMA DeliverEnds == ASSUME IInv, NEW f \in Flight, Works(f), NEW c, Deliver(f, c) PROVE Ends(f, c)
BY FinishEnds DEF Deliver, Works

LEMMA DeclineDeclines == ASSUME IInv, NEW f \in Flight, Decline(f) PROVE Declines(f)
BY GotoAdvances, FinishEnds DEF Decline, Declines

LEMMA RefreshFailsDeclines ==
    ASSUME IInv, NEW f \in Flight, RefreshFails(f)
    PROVE  (fl[f].then = "email" /\ Declines(f)) \/ Ends(f, NoCred)
BY DeclineDeclines, FinishEnds DEF RefreshFails

LEMMA AskTurns == ASSUME IInv, NEW f \in Flight, Works(f), Ask(f) PROVE fl[f].pc = "idle" /\ Advances(f, "lock")
BY GotoAdvances DEF Ask, Works, At

LEMMA EnterTurns ==
    ASSUME IInv, NEW f \in Flight, Acquire(f) \/ RunUnlocked(f)
    PROVE  fl[f].pc = "lock" /\ Advances(f, "reread")
<1>1. CASE RunUnlocked(f)
    BY <1>1, GotoAdvances DEF RunUnlocked, At
<1>2. CASE Acquire(f)
    <2> DEFINE r == [fl[f] EXCEPT !.pc = "reread", !.locked = TRUE]
    <2>1. fl' = [fl EXCEPT ![f] = r] /\ fl[f].pc = "lock"
        BY <1>2 DEF Acquire, At
    <2>2. /\ r.pc = "reread" /\ r.stored = fl[f].stored /\ r.sent = fl[f].sent /\ r.next = fl[f].next
          /\ r.then = fl[f].then /\ r.probe = fl[f].probe /\ r.base = fl[f].base
          /\ r.rejected = fl[f].rejected /\ r.result = fl[f].result
        BY FlightIsLocal, ZenonT(40) DEF IInv, Local
    <2> HIDE DEF r
    <2>3. QED
        BY <2>1, <2>2, TurnsTo DEF Advances
<1>3. QED
    BY <1>1, <1>2

LEMMA RereadTurns ==
    ASSUME IInv, NEW f \in Flight, Works(f), Reread(f)
    PROVE  /\ fl[f].pc = "reread"
           /\ \/ ~Forced(f) /\ Ends(f, Held(f))
              \/ Turns(f, "live", Held(f), fl[f].sent, fl[f].next, fl[f].then, fl[f].probe)
<1>1. CASE Deliver(f, Held(f)) /\ ~Forced(f)
    BY <1>1, DeliverEnds DEF Reread, At
<1>2. CASE fl' = [fl EXCEPT ![f].pc = "live", ![f].stored = Held(f)]
    <2> DEFINE r == [fl[f] EXCEPT !.pc = "live", !.stored = Held(f)]
    <2>1. fl' = [fl EXCEPT ![f] = r] /\ fl[f].pc = "reread"
        BY <1>2 DEF Reread, At
    <2>2. /\ r.pc = "live" /\ r.stored = Held(f) /\ r.sent = fl[f].sent /\ r.next = fl[f].next
          /\ r.then = fl[f].then /\ r.probe = fl[f].probe /\ r.base = fl[f].base
          /\ r.rejected = fl[f].rejected /\ r.result = fl[f].result
        BY FlightIsLocal, ZenonT(40) DEF IInv, Local
    <2> HIDE DEF r
    <2>3. QED
        BY <2>1, <2>2, TurnsTo
<1>3. QED
    BY <1>1, <1>2 DEF Reread

LEMMA AdoptSharedTurns ==
    ASSUME IInv, NEW f \in Flight, AdoptShared(f)
    PROVE  /\ fl[f].pc = "live"
           /\ \/ Advances(f, "load")
              \/ /\ Turns(f, "save", fl[f].stored, fl[f].sent, live, "adopted", fl[f].probe)
                 /\ live # NoCred /\ (Forced(f) => ~SameAccess(live, fl[f].stored))
<1>1. PICK seen \in ReadLive :
          LET stored == fl[f].stored
              adopt == /\ seen # NoCred /\ SameRefresh(seen, stored) /\ ~Expired(seen)
                       /\ Forced(f) => ~SameAccess(seen, stored)
          IN IF adopt
             THEN fl' = [fl EXCEPT ![f].pc = "save", ![f].next = seen, ![f].then = "adopted"]
             ELSE fl' = [fl EXCEPT ![f].pc = "load"]
    BY DEF AdoptShared
<1>2. fl[f].pc = "live" /\ owner' = owner
    BY DEF AdoptShared, At
<1>3. CASE fl' = [fl EXCEPT ![f].pc = "load"]
    BY <1>2, <1>3, GotoAdvances DEF Goto
<1>4. CASE /\ seen # NoCred /\ (Forced(f) => ~SameAccess(seen, fl[f].stored))
           /\ fl' = [fl EXCEPT ![f].pc = "save", ![f].next = seen, ![f].then = "adopted"]
    <2> DEFINE r == [fl[f] EXCEPT !.pc = "save", !.next = seen, !.then = "adopted"]
    <2>1. fl' = [fl EXCEPT ![f] = r]
        BY <1>4
    <2>2. /\ r.pc = "save" /\ r.stored = fl[f].stored /\ r.sent = fl[f].sent /\ r.next = seen
          /\ r.then = "adopted" /\ r.probe = fl[f].probe /\ r.base = fl[f].base
          /\ r.rejected = fl[f].rejected /\ r.result = fl[f].result
        BY FlightIsLocal, ZenonT(40) DEF IInv, Local
    <2> HIDE DEF r
    <2>3. seen = live
        BY <1>4 DEF ReadLive
    <2>4. Turns(f, "save", fl[f].stored, fl[f].sent, live, "adopted", fl[f].probe)
        BY <2>1, <2>2, <2>3, TurnsTo
    <2>5. QED
        BY <1>2, <1>4, <2>3, <2>4
<1>5. QED
    BY <1>1, <1>3, <1>4

LEMMA LoadStoredTurns ==
    ASSUME IInv, NEW f \in Flight, Works(f), LoadStored(f)
    PROVE  /\ fl[f].pc = "load"
           /\ \/ Ends(f, NoCred)
              \/ ~Forced(f) /\ Ends(f, Held(f))
              \/ /\ Held(f) # NoCred
                 /\ Turns(f, "refresh", fl[f].stored, Held(f), fl[f].next, "vault", fl[f].probe)
<1>1. fl[f].pc = "load"
    BY DEF LoadStored, At
<1>2. CASE Finish(f, NoCred)
    BY <1>1, <1>2, FinishEnds
<1>3. CASE Deliver(f, Held(f)) /\ ~Forced(f)
    BY <1>1, <1>3, DeliverEnds
<1>4. CASE /\ Held(f) # NoCred
           /\ fl' = [fl EXCEPT ![f].pc = "refresh", ![f].sent = Held(f), ![f].then = "vault"]
    <2> DEFINE r == [fl[f] EXCEPT !.pc = "refresh", !.sent = Held(f), !.then = "vault"]
    <2>1. fl' = [fl EXCEPT ![f] = r]
        BY <1>4
    <2>2. /\ r.pc = "refresh" /\ r.stored = fl[f].stored /\ r.sent = Held(f) /\ r.next = fl[f].next
          /\ r.then = "vault" /\ r.probe = fl[f].probe /\ r.base = fl[f].base
          /\ r.rejected = fl[f].rejected /\ r.result = fl[f].result
        BY FlightIsLocal, ZenonT(40) DEF IInv, Local
    <2> HIDE DEF r
    <2>3. QED
        BY <1>1, <1>4, <2>1, <2>2, TurnsTo
<1>5. QED
    BY <1>2, <1>3, <1>4 DEF LoadStored

LEMMA RefusedTurns ==
    ASSUME IInv, NEW f \in Flight, Refused(f) \/ Unreached(f)
    PROVE  /\ fl[f].pc = "refresh"
           /\ Ends(f, NoCred) \/ Advances(f, "rsLoad") \/ (fl[f].then = "email" /\ Declines(f))
BY GotoAdvances, RefreshFailsDeclines DEF Refused, Unreached, At

LEMMA GrantedTurns ==
    ASSUME IInv, NEW f \in Flight, Granted(f)
    PROVE  /\ fl[f].pc = "refresh" /\ Honours(fl[f].sent) /\ UNCHANGED <<vault, live>>
           /\ \E rotates \in BOOLEAN :
                LET new == Grant(fl[f].sent, rotates)
                IN /\ server' = [server EXCEPT ![new.lin] = [rt |-> new.rt, at |-> new.at]]
                   /\ \/ Turns(f, IF rotates THEN "mirror" ELSE Afterwards(f), fl[f].stored, fl[f].sent,
                               new, fl[f].then, fl[f].probe)
                      \/ AnswerLost /\ (Ends(f, NoCred) \/ (fl[f].then = "email" /\ Declines(f)))
<1>1. fl[f].pc = "refresh" /\ Honours(fl[f].sent) /\ UNCHANGED <<vault, live>>
    BY DEF Granted, At, disk
<1>2. PICK rotates \in BOOLEAN :
          LET new == Grant(fl[f].sent, rotates)
          IN /\ server' = [server EXCEPT ![new.lin] = [rt |-> new.rt, at |-> new.at]]
             /\ \/ /\ fl' = [fl EXCEPT ![f].next = new,
                                       ![f].pc = IF rotates THEN "mirror" ELSE Afterwards(f)]
                   /\ UNCHANGED owner
                \/ AnswerLost /\ RefreshFails(f)
    BY DEF Granted
<1> DEFINE new == Grant(fl[f].sent, rotates)
           label == IF rotates THEN "mirror" ELSE Afterwards(f)
           r == [fl[f] EXCEPT !.next = new, !.pc = label]
<1>3. CASE fl' = [fl EXCEPT ![f].next = new, ![f].pc = label]
    <2>1. fl' = [fl EXCEPT ![f] = r]
        BY <1>3
    <2> HIDE DEF new, label
    <2>2. /\ r.pc = label /\ r.stored = fl[f].stored /\ r.sent = fl[f].sent /\ r.next = new
          /\ r.then = fl[f].then /\ r.probe = fl[f].probe /\ r.base = fl[f].base
          /\ r.rejected = fl[f].rejected /\ r.result = fl[f].result
        BY FlightIsLocal, ZenonT(40) DEF IInv, Local
    <2> HIDE DEF r
    <2>3. Turns(f, label, fl[f].stored, fl[f].sent, new, fl[f].then, fl[f].probe)
        BY <2>1, <2>2, TurnsTo
    <2>4. QED
        BY <1>1, <1>2, <2>3 DEF new, label
<1>4. CASE AnswerLost /\ RefreshFails(f)
    BY <1>1, <1>2, <1>4, RefreshFailsDeclines
<1>5. QED
    BY <1>2, <1>3, <1>4

LEMMA MirrorReadTurns ==
    ASSUME IInv, NEW f \in Flight, MirrorRead(f)
    PROVE  /\ fl[f].pc = "mirror"
           /\ \/ live # NoCred /\ SameRefresh(live, fl[f].sent) /\ Advances(f, "mirrorWrite")
              \/ /\ "read" \in StoreFails \/ ~(live # NoCred /\ SameRefresh(live, fl[f].sent))
                 /\ Advances(f, Afterwards(f))
<1>1. PICK seen \in ReadLive :
        Goto(f, IF seen # NoCred /\ SameRefresh(seen, fl[f].sent) THEN "mirrorWrite" ELSE Afterwards(f))
    BY DEF MirrorRead
<1>2. seen = live \/ ("read" \in StoreFails /\ seen = NoCred)
    BY DEF ReadLive
<1>3. fl[f].pc = "mirror"
    BY DEF MirrorRead, At
<1>4. CASE seen # NoCred /\ SameRefresh(seen, fl[f].sent)
    BY <1>1, <1>2, <1>3, <1>4, GotoAdvances
<1>5. CASE ~(seen # NoCred /\ SameRefresh(seen, fl[f].sent))
    BY <1>1, <1>2, <1>3, <1>5, GotoAdvances
<1>6. QED
    BY <1>4, <1>5

LEMMA MirrorWriteTurns ==
    ASSUME IInv, NEW f \in Flight, MirrorWrite(f)
    PROVE  /\ fl[f].pc = "mirrorWrite" /\ UNCHANGED <<server, vault>>
           /\ live' = fl[f].next \/ ("write" \in StoreFails /\ live' = live)
           /\ Advances(f, Afterwards(f))
BY GotoAdvances DEF MirrorWrite, At, disk

LEMMA SaveReadTurns ==
    ASSUME IInv, NEW f \in Flight, SaveRead(f)
    PROVE  fl[f].pc = "save" /\ ((Held(f) = NoCred /\ Ends(f, NoCred)) \/ Advances(f, "write"))
<1>1. fl[f].pc = "save"
    BY DEF SaveRead, At
<1>2. CASE fl' = [fl EXCEPT ![f].pc = "write", ![f].mail = email[AcctOf[f]]]
    <2> DEFINE r == [fl[f] EXCEPT !.pc = "write", !.mail = email[AcctOf[f]]]
    <2>1. fl' = [fl EXCEPT ![f] = r]
        BY <1>2
    <2>2. /\ r.pc = "write" /\ r.stored = fl[f].stored /\ r.sent = fl[f].sent /\ r.next = fl[f].next
          /\ r.then = fl[f].then /\ r.probe = fl[f].probe /\ r.base = fl[f].base
          /\ r.rejected = fl[f].rejected /\ r.result = fl[f].result
        BY FlightIsLocal, ZenonT(40) DEF IInv, Local
    <2> HIDE DEF r
    <2>3. QED
        BY <1>1, <2>1, <2>2, TurnsTo DEF Advances
<1>3. QED
    BY <1>1, <1>2, FinishEnds DEF SaveRead

LEMMA SaveWriteTurns ==
    ASSUME IInv, NEW f \in Flight, Works(f), SaveWrite(f)
    PROVE  /\ fl[f].pc = "write" /\ UNCHANGED <<server, live>>
           /\ vault' = [vault EXCEPT ![AcctOf[f]] = fl[f].next]
           /\ \/ fl[f].then = "vault" /\ Advances(f, "hand")
              \/ fl[f].then # "vault" /\ Ends(f, fl[f].next)
BY GotoAdvances, DeliverEnds DEF SaveWrite, WriteVault, At

LEMMA HandTurns ==
    ASSUME IInv, NEW f \in Flight, Works(f), HandRead(f) \/ HandWrite(f)
    PROVE  /\ fl[f].pc \in {"hand", "handWrite"}
           /\ \/ Ends(f, fl[f].next)
              \/ /\ fl[f].pc = "hand" /\ fl[f].stored # NoCred /\ ~SameRefresh(fl[f].stored, fl[f].next)
                 /\ live # NoCred /\ SameRefresh(live, fl[f].stored) /\ Advances(f, "handWrite")
<1>1. CASE HandWrite(f)
    BY <1>1, DeliverEnds DEF HandWrite, At
<1>2. CASE HandRead(f)
    <2>1. PICK seen \in ReadLive :
            LET stored == fl[f].stored
            IN IF /\ stored # NoCred /\ ~SameRefresh(stored, fl[f].next)
                  /\ seen # NoCred /\ SameRefresh(seen, stored)
               THEN Goto(f, "handWrite")
               ELSE Deliver(f, fl[f].next)
        BY <1>2 DEF HandRead
    <2>2. fl[f].pc = "hand" /\ (seen = live \/ seen = NoCred)
        BY <1>2 DEF HandRead, At, ReadLive
    <2>3. QED
        BY <2>1, <2>2, GotoAdvances, DeliverEnds
<1>3. QED
    BY <1>1, <1>2

LEMMA ResyncLoadTurns ==
    ASSUME IInv, NEW f \in Flight, ResyncLoad(f)
    PROVE  /\ fl[f].pc = "rsLoad"
           /\ Turns(f, "rsLive", Held(f), fl[f].sent, fl[f].next, fl[f].then, fl[f].probe)
<1> DEFINE r == [fl[f] EXCEPT !.pc = "rsLive", !.stored = Held(f)]
<1>1. fl' = [fl EXCEPT ![f] = r] /\ fl[f].pc = "rsLoad"
    BY DEF ResyncLoad, At
<1>2. /\ r.pc = "rsLive" /\ r.stored = Held(f) /\ r.sent = fl[f].sent /\ r.next = fl[f].next
      /\ r.then = fl[f].then /\ r.probe = fl[f].probe /\ r.base = fl[f].base
      /\ r.rejected = fl[f].rejected /\ r.result = fl[f].result
    BY FlightIsLocal, ZenonT(40) DEF IInv, Local
<1> HIDE DEF r
<1>3. QED
    BY <1>1, <1>2, TurnsTo

LEMMA ResyncLiveTurns ==
    ASSUME IInv, NEW f \in Flight, ResyncLive(f)
    PROVE  /\ fl[f].pc = "rsLive"
           /\ \/ Declines(f)
              \/ /\ live # NoCred /\ ~SameRefresh(live, fl[f].stored)
                 /\ Turns(f, "rsOwned", fl[f].stored, live, fl[f].next, fl[f].then, fl[f].probe)
<1>1. PICK seen \in ReadLive :
        IF seen = NoCred \/ SameRefresh(seen, fl[f].stored)
        THEN Decline(f)
        ELSE fl' = [fl EXCEPT ![f].pc = "rsOwned", ![f].sent = seen] /\ UNCHANGED owner
    BY DEF ResyncLive
<1>2. fl[f].pc = "rsLive"
    BY DEF ResyncLive, At
<1>3. CASE /\ seen # NoCred /\ ~SameRefresh(seen, fl[f].stored)
           /\ fl' = [fl EXCEPT ![f].pc = "rsOwned", ![f].sent = seen]
    <2> DEFINE r == [fl[f] EXCEPT !.pc = "rsOwned", !.sent = seen]
    <2>1. fl' = [fl EXCEPT ![f] = r] /\ seen = live
        BY <1>3 DEF ReadLive
    <2>2. /\ r.pc = "rsOwned" /\ r.stored = fl[f].stored /\ r.sent = seen /\ r.next = fl[f].next
          /\ r.then = fl[f].then /\ r.probe = fl[f].probe /\ r.base = fl[f].base
          /\ r.rejected = fl[f].rejected /\ r.result = fl[f].result
        BY FlightIsLocal, ZenonT(40) DEF IInv, Local
    <2> HIDE DEF r
    <2>3. Turns(f, "rsOwned", fl[f].stored, live, fl[f].next, fl[f].then, fl[f].probe)
        BY <2>1, <2>2, TurnsTo
    <2>4. QED
        BY <1>2, <1>3, <2>1, <2>3
<1>4. QED
    BY <1>1, <1>2, <1>3, DeclineDeclines

LEMMA ResyncOwnedTurns ==
    ASSUME IInv, NEW f \in Flight, ResyncOwned(f)
    PROVE  /\ fl[f].pc = "rsOwned"
           /\ \/ Declines(f)
              \/ Turns(f, "refresh", fl[f].stored, fl[f].sent, fl[f].next, "email", fl[f].probe)
              \/ Turns(f, "email", fl[f].stored, fl[f].sent, fl[f].sent, "email", fl[f].probe)
<1>1. fl[f].pc = "rsOwned"
    BY DEF ResyncOwned, At
<1>2. CASE fl' = [fl EXCEPT ![f].pc = "refresh", ![f].then = "email"]
    <2> DEFINE r == [fl[f] EXCEPT !.pc = "refresh", !.then = "email"]
    <2>1. fl' = [fl EXCEPT ![f] = r]
        BY <1>2
    <2>2. /\ r.pc = "refresh" /\ r.stored = fl[f].stored /\ r.sent = fl[f].sent /\ r.next = fl[f].next
          /\ r.then = "email" /\ r.probe = fl[f].probe /\ r.base = fl[f].base
          /\ r.rejected = fl[f].rejected /\ r.result = fl[f].result
        BY FlightIsLocal, ZenonT(40) DEF IInv, Local
    <2> HIDE DEF r
    <2>3. QED
        BY <1>1, <2>1, <2>2, TurnsTo
<1>3. CASE fl' = [fl EXCEPT ![f].pc = "email", ![f].then = "email", ![f].next = fl[f].sent]
    <2> DEFINE r == [fl[f] EXCEPT !.pc = "email", !.then = "email", !.next = fl[f].sent]
    <2>1. fl' = [fl EXCEPT ![f] = r]
        BY <1>3
    <2>2. /\ r.pc = "email" /\ r.stored = fl[f].stored /\ r.sent = fl[f].sent /\ r.next = fl[f].sent
          /\ r.then = "email" /\ r.probe = fl[f].probe /\ r.base = fl[f].base
          /\ r.rejected = fl[f].rejected /\ r.result = fl[f].result
        BY FlightIsLocal, ZenonT(40) DEF IInv, Local
    <2> HIDE DEF r
    <2>3. QED
        BY <1>1, <2>1, <2>2, TurnsTo
<1>4. QED
    BY <1>1, <1>2, <1>3, DeclineDeclines DEF ResyncOwned

LEMMA ResyncEmailTurns ==
    ASSUME IInv, NEW f \in Flight, ResyncEmail(f)
    PROVE  /\ fl[f].pc = "email"
           /\ \/ Declines(f)
              \/ Ends(f, fl[f].next)
              \/ Turns(f, "save", fl[f].stored, fl[f].sent, fl[f].next, "adopted", fl[f].probe)
<1>1. fl[f].pc = "email"
    BY DEF ResyncEmail, At
<1>2. CASE fl' = [fl EXCEPT ![f].pc = "save", ![f].then = "adopted"]
    <2> DEFINE r == [fl[f] EXCEPT !.pc = "save", !.then = "adopted"]
    <2>1. fl' = [fl EXCEPT ![f] = r]
        BY <1>2
    <2>2. /\ r.pc = "save" /\ r.stored = fl[f].stored /\ r.sent = fl[f].sent /\ r.next = fl[f].next
          /\ r.then = "adopted" /\ r.probe = fl[f].probe /\ r.base = fl[f].base
          /\ r.rejected = fl[f].rejected /\ r.result = fl[f].result
        BY FlightIsLocal, ZenonT(40) DEF IInv, Local
    <2> HIDE DEF r
    <2>3. QED
        BY <1>1, <2>1, <2>2, TurnsTo
<1>3. QED
    BY <1>1, <1>2, DeclineDeclines, FinishEnds DEF ResyncEmail

LEMMA UseTurns ==
    ASSUME IInv, NEW f \in Flight, Use(f)
    PROVE  /\ \A g \in Flight \ {f} : fl'[g] = fl[g]
           /\ fl[f].pc = "idle" /\ fl'[f].pc = "sent" /\ Held(f) # NoCred /\ fl'[f].rejected = Held(f)
           /\ fl'[f].stored = NoCred /\ fl'[f].sent = NoCred /\ fl'[f].next = NoCred
           /\ fl'[f].probe = FALSE /\ fl'[f].result = NoCred
<1> DEFINE r == [Idle EXCEPT !.pc = "sent", !.rejected = Held(f)]
<1>1. fl' = [fl EXCEPT ![f] = r] /\ fl[f].pc = "idle" /\ Held(f) # NoCred
    BY DEF Use, At, Usable
<1>2. /\ r.pc = "sent" /\ r.stored = NoCred /\ r.sent = NoCred /\ r.next = NoCred
      /\ r.probe = FALSE /\ r.rejected = Held(f) /\ r.result = NoCred
    BY DEF Idle
<1> HIDE DEF r
<1>3. QED
    BY <1>1, <1>2, FlightIsLocal DEF IInv

LEMMA AcceptedTurns == ASSUME IInv, NEW f \in Flight, Accepted(f) PROVE fl[f].pc = "sent" /\ Ends(f, NoCred)
BY FinishEnds DEF Accepted, At

LEMMA UnauthorizedTurns ==
    ASSUME IInv, NEW f \in Flight, Unauthorized(f)
    PROVE  /\ \A g \in Flight \ {f} : fl'[g] = fl[g]
           /\ fl[f].pc = "sent" /\ fl'[f].pc = "rsLoad" /\ fl'[f].probe = TRUE /\ fl'[f].base = Held(f)
           /\ fl'[f].stored = fl[f].stored /\ fl'[f].sent = fl[f].sent /\ fl'[f].next = fl[f].next
           /\ fl'[f].rejected = fl[f].rejected /\ fl'[f].result = fl[f].result
<1> DEFINE r == [fl[f] EXCEPT !.pc = "rsLoad", !.probe = TRUE, !.base = Held(f)]
<1>1. fl' = [fl EXCEPT ![f] = r] /\ fl[f].pc = "sent"
    BY DEF Unauthorized, At
<1>2. /\ r.pc = "rsLoad" /\ r.probe = TRUE /\ r.base = Held(f) /\ r.stored = fl[f].stored
      /\ r.sent = fl[f].sent /\ r.next = fl[f].next
      /\ r.rejected = fl[f].rejected /\ r.result = fl[f].result
    BY FlightIsLocal, ZenonT(40) DEF IInv, Local
<1> HIDE DEF r
<1>3. QED
    BY <1>1, <1>2, FlightIsLocal DEF IInv

LEMMA RecoverCheckTurns ==
    ASSUME IInv, NEW f \in Flight, RecoverCheck(f)
    PROVE  /\ fl[f].pc = "check"
           /\ \/ Ends(f, NoCred)
              \/ ~SameAccess(Held(f), fl[f].rejected) /\ Ends(f, Held(f))
              \/ Turns(f, "lock", fl[f].stored, fl[f].sent, fl[f].next, fl[f].then, FALSE)
<1>1. fl[f].pc = "check"
    BY DEF RecoverCheck, At
<1>2. CASE fl' = [fl EXCEPT ![f].pc = "lock", ![f].probe = FALSE]
    <2> DEFINE r == [fl[f] EXCEPT !.pc = "lock", !.probe = FALSE]
    <2>1. fl' = [fl EXCEPT ![f] = r]
        BY <1>2
    <2>2. /\ r.pc = "lock" /\ r.stored = fl[f].stored /\ r.sent = fl[f].sent /\ r.next = fl[f].next
          /\ r.then = fl[f].then /\ r.probe = FALSE /\ r.base = fl[f].base
          /\ r.rejected = fl[f].rejected /\ r.result = fl[f].result
        BY FlightIsLocal, ZenonT(40) DEF IInv, Local
    <2> HIDE DEF r
    <2>3. QED
        BY <1>1, <2>1, <2>2, TurnsTo
<1>3. QED
    BY <1>1, <1>2, FinishEnds DEF RecoverCheck
-----------------------------------------------------------------------------
(* A recovery that has its account to itself *)

\* No other flight works for an account that a recovery works for.
RecoversAlone == \A f, g \in Flight : Role[f] = "recover" /\ AcctOf[g] = AcctOf[f] => g = f

\* Up to the save the vault holds the credential that was refused; what the recovery brings home
\* instead comes with another access token.
Recovering(r, held) ==
    /\ r.result # NoCred => ~SameAccess(r.result, r.rejected)
    /\ r.pc \notin {"idle", "hand", "handWrite"} => r.rejected = held /\ held # NoCred
    /\ r.pc \in {"rsLive", "live"} => r.stored = held
    /\ r.pc = "rsOwned" => ~SameRefresh(r.sent, held)
    /\ r.pc \in {"mirror", "mirrorWrite", "email", "save", "write"} => ~SameAccess(r.next, held)
    /\ r.pc \in {"hand", "handWrite"} => ~SameAccess(r.next, r.rejected)

Retries ==
    \A f \in Flight :
        IF Role[f] = "recover" THEN Recovering(fl[f], Held(f)) ELSE fl[f].result = NoCred

\* One access token comes with one refresh token.
LEMMA OneRefresh ==
    ASSUME IInv, NEW c \in Copies, NEW d \in Copies, c # NoCred, d # NoCred, SameAccess(c, d)
    PROVE  SameRefresh(c, d)
<1>1. c \in Cred /\ d \in Cred
    BY CopiesAreCreds, NoCredIsNone DEF IInv
<1>2. c.rt \in Nat /\ d.rt \in Nat /\ c.at \in Nat /\ d.at \in Nat /\ c.lin = d.lin /\ c.at = d.at
    BY <1>1 DEF Cred, Token, SameAccess
<1>3. c.rt <= d.rt /\ d.rt <= c.rt
    BY <1>2 DEF IInv, Coherent
<1>4. QED
    BY <1>2, <1>3 DEF SameRefresh

\* What the endpoint gives is another access token than any that is about.
LEMMA GrantIsAnother ==
    ASSUME IInv, NEW c \in Copies, NEW d \in Copies, c # NoCred, d # NoCred, NEW rotates
    PROVE  ~SameAccess(Grant(c, rotates), d)
<1>1. c \in Cred /\ d \in Cred
    BY CopiesAreCreds, NoCredIsNone DEF IInv
<1>2. d.at \in Nat /\ server[d.lin].at \in Nat /\ d.at <= server[d.lin].at
    BY <1>1 DEF Cred, Token, IInv, Coherent, Typed, TypeOK
<1>3. QED
    BY <1>2 DEF SameAccess, Grant

LEMMA RecoveringEnds ==
    ASSUME NEW f \in Flight, Role[f] = "recover", NEW c, Ends(f, c), NEW held,
           c = NoCred \/ ~SameAccess(c, fl[f].rejected)
    PROVE  Recovering(fl'[f], held)
BY DEF Ends, Recovering

LEMMA RecoveringDeclines ==
    ASSUME NEW f \in Flight, Role[f] = "recover", Declines(f), Recovering(fl[f], Held(f)),
           fl[f].pc \notin {"idle", "hand", "handWrite"}
    PROVE  Recovering(fl'[f], Held(f))
<1>1. CASE Ends(f, NoCred)
    BY <1>1, RecoveringEnds
<1>2. CASE Advances(f, "check")
    BY <1>2 DEF Recovering, Advances, Turns
<1>3. QED
    BY <1>1, <1>2 DEF Declines

\* The steps that write no account.
LEMMA RecoveringMoves ==
    ASSUME IInv, NEW f \in Flight, Role[f] = "recover", Recovering(fl[f], Held(f)),
           Inward(f) \/ Granted(f)
    PROVE  Recovering(fl'[f], Held(f))
<1>0. /\ Works(f) /\ Forced(f)
      /\ fl[f].pc \notin {"install", "verify", "impCheck", "impSave", "rnSave"}
    BY SoundFlight DEF Works, Forced, Struct
<1>1. CASE Acquire(f) \/ RunUnlocked(f)
    BY <1>1, EnterTurns DEF Recovering, Advances, Turns
<1>2. CASE Reread(f)
    BY <1>0, <1>2, RereadTurns DEF Recovering, Turns
<1>3. CASE AdoptShared(f)
    BY <1>0, <1>3, AdoptSharedTurns DEF Recovering, Advances, Turns
<1>4. CASE LoadStored(f)
    <2>1. CASE Ends(f, NoCred)
        BY <2>1, RecoveringEnds
    <2>2. CASE Turns(f, "refresh", fl[f].stored, Held(f), fl[f].next, "vault", fl[f].probe)
        BY <1>4, <2>2, <1>0, LoadStoredTurns DEF Recovering, Turns
    <2>3. QED
        BY <1>0, <1>4, <2>1, <2>2, LoadStoredTurns
<1>5. CASE Refused(f) \/ Unreached(f)
    <2>1. fl[f].pc = "refresh"
        BY <1>5, RefusedTurns
    <2>2. CASE Ends(f, NoCred) \/ Declines(f)
        BY <2>1, <2>2, RecoveringEnds, RecoveringDeclines
    <2>3. CASE Advances(f, "rsLoad")
        BY <2>1, <2>3 DEF Recovering, Advances, Turns
    <2>4. QED
        BY <1>5, <2>2, <2>3, RefusedTurns
<1>6. CASE Granted(f)
    <2>1. fl[f].pc = "refresh"
        BY <1>6, GrantedTurns
    <2>2. CASE Ends(f, NoCred) \/ Declines(f)
        BY <2>1, <2>2, RecoveringEnds, RecoveringDeclines
    <2>3. ASSUME NEW rotates \in BOOLEAN,
                 Turns(f, IF rotates THEN "mirror" ELSE Afterwards(f), fl[f].stored, fl[f].sent,
                       Grant(fl[f].sent, rotates), fl[f].then, fl[f].probe)
          PROVE  Recovering(fl'[f], Held(f))
        <3>1. fl[f].sent # NoCred /\ Held(f) # NoCred
            BY <2>1, SoundFlight DEF Struct, Recovering
        <3>2. ~SameAccess(Grant(fl[f].sent, rotates), Held(f))
            BY <3>1, CopiesOf, GrantIsAnother DEF IInv
        <3>3. fl'[f].pc \in {"mirror", "email", "save"}
            BY <2>3 DEF Turns, Afterwards
        <3>4. QED
            BY <2>1, <2>3, <3>2, <3>3 DEF Recovering, Turns
    <2>4. QED
        BY <1>6, <2>2, <2>3, GrantedTurns
<1>7. CASE MirrorRead(f)
    BY <1>7, MirrorReadTurns DEF Recovering, Advances, Turns, Afterwards
<1>8. CASE MirrorWrite(f)
    BY <1>8, MirrorWriteTurns DEF Recovering, Advances, Turns, Afterwards
<1>9. CASE SaveRead(f)
    BY <1>9, SaveReadTurns, RecoveringEnds DEF Recovering, Advances, Turns
<1>10. CASE HandRead(f) \/ HandWrite(f)
    <2>1. fl[f].pc \in {"hand", "handWrite"} /\ (Ends(f, fl[f].next) \/ Advances(f, "handWrite"))
        BY <1>0, <1>10, HandTurns
    <2>2. CASE Ends(f, fl[f].next)
        BY <2>1, <2>2, RecoveringEnds DEF Recovering
    <2>3. CASE Advances(f, "handWrite")
        BY <2>1, <2>3 DEF Recovering, Advances, Turns
    <2>4. QED
        BY <2>1, <2>2, <2>3
<1>11. CASE ResyncLoad(f)
    BY <1>11, ResyncLoadTurns DEF Recovering, Turns
<1>12. CASE ResyncLive(f)
    BY <1>12, ResyncLiveTurns, RecoveringDeclines DEF Recovering, Turns
<1>13. CASE ResyncOwned(f)
    <2>1. fl[f].pc = "rsOwned" /\ fl[f].sent # NoCred /\ Held(f) # NoCred /\ ~SameRefresh(fl[f].sent, Held(f))
        BY <1>13, ResyncOwnedTurns, SoundFlight DEF Struct, Recovering
    <2>2. ~SameAccess(fl[f].sent, Held(f))
        BY <2>1, CopiesOf, OneRefresh DEF IInv
    <2>3. QED
        BY <1>13, <2>1, <2>2, ResyncOwnedTurns, RecoveringDeclines DEF Recovering, Turns
<1>14. CASE ResyncEmail(f)
    <2>1. fl[f].pc = "email" /\ ~SameAccess(fl[f].next, Held(f)) /\ fl[f].rejected = Held(f)
        BY <1>14, ResyncEmailTurns DEF Recovering
    <2>2. CASE Declines(f)
        BY <2>1, <2>2, RecoveringDeclines
    <2>3. CASE Ends(f, fl[f].next)
        BY <2>1, <2>3, RecoveringEnds
    <2>4. CASE Turns(f, "save", fl[f].stored, fl[f].sent, fl[f].next, "adopted", fl[f].probe)
        BY <2>1, <2>4 DEF Recovering, Turns
    <2>5. QED
        BY <1>14, <2>2, <2>3, <2>4, ResyncEmailTurns
<1>15. CASE Use(f)
    BY <1>15, UseTurns DEF Recovering
<1>16. CASE Accepted(f)
    BY <1>16, AcceptedTurns, RecoveringEnds
<1>17. CASE Unauthorized(f)
    BY <1>17, UnauthorizedTurns DEF Recovering
<1>18. CASE RecoverCheck(f)
    BY <1>18, RecoverCheckTurns, RecoveringEnds DEF Recovering, Turns
<1>19. ~(Ask(f) \/ ImportRead(f) \/ RenameRead(f) \/ ImportCheck(f) \/ Install(f) \/ Verify(f))
    BY <1>0 DEF Ask, ImportRead, RenameRead, ImportCheck, Install, Verify, At
<1>20. QED
    BY <1>1, <1>2, <1>3, <1>4, <1>5, <1>6, <1>7, <1>8, <1>9, <1>10, <1>11, <1>12, <1>13, <1>14,
       <1>15, <1>16, <1>17, <1>18, <1>19 DEF Inward

\* Only recoveries keep an answer.
LEMMA DeliverSilent ==
    ASSUME IInv, NEW f \in Flight, Role[f] # "recover", NEW c, Deliver(f, c) \/ Finish(f, c)
    PROVE  fl'[f].result = NoCred
<1>1. CASE Finish(f, c)
    BY <1>1, FinishEnds DEF Ends
<1>2. CASE Deliver(f, c) /\ Role[f] = "switch"
    <2> DEFINE r == [Idle EXCEPT !.pc = "install", !.next = c]
    <2>1. fl' = [fl EXCEPT ![f] = r]
        BY <1>2 DEF Deliver
    <2>2. r.result = NoCred
        BY DEF Idle
    <2> HIDE DEF r
    <2>3. QED
        BY <2>1, <2>2, FlightIsLocal DEF IInv
<1>3. QED
    BY <1>1, <1>2 DEF Deliver

LEMMA OthersAnswerNothing ==
    ASSUME IInv, NEW f \in Flight, Role[f] # "recover", fl[f].result = NoCred, Begin(f) \/ Progress(f)
    PROVE  fl'[f].result = NoCred
<1>1. ASSUME NEW label, Goto(f, label) \/ Advances(f, label) PROVE fl'[f].result = NoCred
    BY <1>1, GotoAdvances DEF Advances, Turns
<1>2. ASSUME NEW label, NEW s, NEW t, NEW n, NEW then, NEW probe, Turns(f, label, s, t, n, then, probe)
      PROVE  fl'[f].result = NoCred
    BY <1>2 DEF Turns
<1>3. ASSUME NEW c, Deliver(f, c) \/ Finish(f, c) \/ Ends(f, c) PROVE fl'[f].result = NoCred
    BY <1>3, DeliverSilent DEF Ends
<1>4. CASE Declines(f)
    BY <1>1, <1>3, <1>4 DEF Declines
<1>5. CASE Ask(f) \/ Acquire(f) \/ RunUnlocked(f) \/ Reclaim(f)
    <2>1. CASE Reclaim(f)
        BY <2>1 DEF Reclaim
    <2>2. CASE Ask(f)
        BY <1>1, <1>3, <2>2 DEF Ask
    <2>3. QED
        BY <1>1, <1>5, <2>1, <2>2, EnterTurns
<1>6. CASE Reread(f)
    <2>1. CASE fl' = [fl EXCEPT ![f].pc = "live", ![f].stored = Held(f)]
        <3> DEFINE r == [fl[f] EXCEPT !.pc = "live", !.stored = Held(f)]
        <3>1. r.result = fl[f].result
            BY FlightIsLocal, ZenonT(40) DEF IInv, Local
        <3>2. fl' = [fl EXCEPT ![f] = r]
            BY <2>1
        <3> HIDE DEF r
        <3>3. QED
            BY <3>1, <3>2, FlightIsLocal DEF IInv
    <2>2. QED
        BY <1>3, <1>6, <2>1 DEF Reread
<1>7. CASE AdoptShared(f)
    BY <1>1, <1>2, <1>7, AdoptSharedTurns
<1>8. CASE LoadStored(f)
    <2>1. CASE fl' = [fl EXCEPT ![f].pc = "refresh", ![f].sent = Held(f), ![f].then = "vault"]
        <3> DEFINE r == [fl[f] EXCEPT !.pc = "refresh", !.sent = Held(f), !.then = "vault"]
        <3>1. r.result = fl[f].result
            BY FlightIsLocal, ZenonT(40) DEF IInv, Local
        <3>2. fl' = [fl EXCEPT ![f] = r]
            BY <2>1
        <3> HIDE DEF r
        <3>3. QED
            BY <3>1, <3>2, FlightIsLocal DEF IInv
    <2>2. QED
        BY <1>3, <1>8, <2>1 DEF LoadStored
<1>9. CASE Granted(f)
    BY <1>2, <1>3, <1>4, <1>9, GrantedTurns
<1>10. CASE Refused(f) \/ Unreached(f)
    BY <1>1, <1>3, <1>4, <1>10, RefusedTurns
<1>11. CASE MirrorRead(f) \/ MirrorWrite(f)
    BY <1>1, <1>11, MirrorReadTurns, MirrorWriteTurns
<1>12. CASE SaveRead(f)
    BY <1>1, <1>3, <1>12, SaveReadTurns
<1>13. CASE SaveWrite(f) \/ HandRead(f) \/ HandWrite(f)
    BY <1>1, <1>3, <1>13 DEF SaveWrite, HandRead, HandWrite
<1>14. CASE ResyncLoad(f)
    BY <1>2, <1>14, ResyncLoadTurns
<1>15. CASE ResyncLive(f)
    BY <1>2, <1>4, <1>15, ResyncLiveTurns
<1>16. CASE ResyncOwned(f)
    BY <1>2, <1>4, <1>16, ResyncOwnedTurns
<1>17. CASE ResyncEmail(f)
    BY <1>2, <1>3, <1>4, <1>17, ResyncEmailTurns
<1>18. CASE Install(f) \/ Verify(f) \/ ImportSave(f) \/ RenameSave(f)
    BY <1>1, <1>3, <1>18 DEF Install, Verify, ImportSave, RenameSave
<1>19. CASE ImportRead(f)
    <2> DEFINE r == [fl[f] EXCEPT !.pc = "impCheck", !.next = live]
    <2>1. fl' = [fl EXCEPT ![f] = r]
        BY <1>19 DEF ImportRead
    <2>2. r.result = fl[f].result
        BY FlightIsLocal, ZenonT(40) DEF IInv, Local
    <2> HIDE DEF r
    <2>3. QED
        BY <2>1, <2>2, FlightIsLocal DEF IInv
<1>20. CASE ImportCheck(f)
    <2>1. CASE Finish(f, NoCred)
        BY <1>3, <2>1
    <2>2. CASE ~Finish(f, NoCred)
        <3>1. PICK who : fl' = [fl EXCEPT ![f].pc = "impSave", ![f].mail = who]
            BY <1>20, <2>2 DEF ImportCheck
        <3> DEFINE r == [fl[f] EXCEPT !.pc = "impSave", !.mail = who]
        <3>2. fl' = [fl EXCEPT ![f] = r]
            BY <3>1
        <3>3. r.result = fl[f].result
            BY FlightIsLocal, ZenonT(40) DEF IInv, Local
        <3> HIDE DEF r
        <3>4. QED
            BY <3>2, <3>3, FlightIsLocal DEF IInv
    <2>3. QED
        BY <2>1, <2>2
<1>21. CASE RenameRead(f)
    <2> DEFINE r == [fl[f] EXCEPT !.pc = "rnSave", !.next = Held(f), !.mail = email[AcctOf[f]]]
    <2>1. fl' = [fl EXCEPT ![f] = r]
        BY <1>21 DEF RenameRead
    <2>2. r.result = fl[f].result
        BY FlightIsLocal, ZenonT(40) DEF IInv, Local
    <2> HIDE DEF r
    <2>3. QED
        BY <2>1, <2>2, FlightIsLocal DEF IInv
<1>22. CASE Remove(f)
    BY <1>22 DEF Remove
<1>23. ~(Use(f) \/ Accepted(f) \/ Unauthorized(f) \/ RecoverCheck(f))
    BY SoundFlight, AcceptedTurns, UnauthorizedTurns, RecoverCheckTurns DEF Use, Struct
<1>24. QED
    BY <1>5, <1>6, <1>7, <1>8, <1>9, <1>10, <1>11, <1>12, <1>13, <1>14, <1>15, <1>16, <1>17, <1>18,
       <1>19, <1>20, <1>21, <1>22, <1>23 DEF Begin, Progress

\* A flight writes no account but its own.
LEMMA WritesOwnAccount ==
    ASSUME IInv, NEW f \in Flight, Begin(f) \/ Progress(f)
    PROVE  /\ \A g \in Flight \ {f} : fl'[g] = fl[g] /\ (AcctOf[g] # AcctOf[f] => Held(g)' = Held(g))
           /\ Inward(f) => Held(f)' = Held(f)
<1>1. AcctOf[f] \in Account /\ vault \in [Account -> MaybeCred] /\ \A g \in Flight : AcctOf[g] \in Account
    BY CredentialAssumption DEF IInv, Typed, TypeOK
<1>2. LockMoves(f) \/ Reclaim(f)
    BY ActsOfFlight, InwardKeeps, GrantedKeeps, SaveWriteKeeps, ManageKeeps
<1>3. \A g \in Flight \ {f} : fl'[g] = fl[g]
    BY <1>2 DEF LockMoves, Reclaim
<1>4. CASE Inward(f) \/ Reclaim(f) \/ Granted(f)
    BY <1>3, <1>4, InwardShifts DEF Reclaim, Granted, disk, Held
<1>5. CASE SaveWrite(f) \/ ImportSave(f) \/ RenameSave(f) \/ Remove(f)
    <2>1. \E c : vault' = [vault EXCEPT ![AcctOf[f]] = c]
        BY <1>5 DEF SaveWrite, ImportSave, RenameSave, Remove, WriteVault
    <2>2. \A g \in Flight : AcctOf[g] # AcctOf[f] => Held(g)' = Held(g)
        BY <1>1, <2>1 DEF Held
    <2>3. ~Inward(f) \/ UNCHANGED vault
        BY InwardShifts DEF disk
    <2>4. QED
        BY <1>3, <2>2, <2>3 DEF Held
<1>6. QED
    BY <1>4, <1>5, ActsOfFlight

LEMMA RetriesStep == IInv /\ RecoversAlone /\ Retries /\ [Next]_vars => Retries'
<1> DEFINE Fine(f) == IF Role[f] = "recover" THEN Recovering(fl[f], Held(f)) ELSE fl[f].result = NoCred
<1> SUFFICES ASSUME IInv, RecoversAlone, Retries, [Next]_vars, NEW g \in Flight
             PROVE  Fine(g)'
    BY DEF Retries
<1>1. Fine(g)
    BY DEF Retries
<1>2. ASSUME NEW f \in Flight, Begin(f) \/ Progress(f) PROVE Fine(g)'
    <2>1. CASE f # g
        BY <1>1, <1>2, <2>1, WritesOwnAccount DEF RecoversAlone
    <2>2. CASE f = g /\ Role[g] # "recover"
        BY <1>1, <1>2, <2>2, OthersAnswerNothing
    <2>3. CASE f = g /\ Role[g] = "recover"
        <3>1. CASE Inward(g)
            BY <1>1, <1>2, <2>3, <3>1, WritesOwnAccount, RecoveringMoves
        <3>2. CASE Granted(g)
            BY <1>1, <2>3, <3>2, RecoveringMoves, GrantedTurns DEF Held
        <3>3. CASE SaveWrite(g)
            <4>1. Works(g)
                BY <2>3 DEF Works
            <4>2. fl[g].pc = "write" /\ ~SameAccess(fl[g].next, fl[g].rejected) /\ fl[g].result = fl[g].result
                BY <1>1, <2>3, <3>3, <4>1, SaveWriteTurns DEF Recovering
            <4>3. CASE Advances(g, "hand")
                BY <1>1, <2>3, <4>2, <4>3 DEF Recovering, Advances, Turns
            <4>4. CASE Ends(g, fl[g].next)
                BY <2>3, <4>2, <4>4, RecoveringEnds
            <4>5. QED
                BY <3>3, <4>1, <4>3, <4>4, SaveWriteTurns
        <3>4. CASE Reclaim(g)
            BY <1>1, <3>4 DEF Reclaim, disk, Held
        <3>5. ~(ImportSave(g) \/ RenameSave(g) \/ Remove(g))
            BY <2>3, ManageKeeps
        <3>6. QED
            BY <1>2, <2>3, <3>1, <3>2, <3>3, <3>4, <3>5, ActsOfFlight
    <2>4. QED
        BY <2>1, <2>2, <2>3
<1>3. ASSUME NEW p \in Process, Crash(p) PROVE Fine(g)'
    <2>1. (fl'[g] = fl[g] \/ fl'[g] = Idle) /\ Held(g)' = Held(g)
        BY <1>3 DEF Crash, disk, Held
    <2>2. Idle.pc = "idle" /\ Idle.result = NoCred
        BY DEF Idle
    <2>3. QED
        BY <1>1, <2>1, <2>2 DEF Recovering
<1>4. CASE UNCHANGED <<vault, fl>>
    BY <1>1, <1>4 DEF Held
<1>5. QED
    BY <1>2, <1>3, <1>4 DEF Next, ClaudeRefresh, ClaudeLogin, Lapse, vars, disk

\* The proxy never retries with the very access token that was refused, whatever crashes, is lost or
\* fails to be written, as long as no other flight works for its account (recoverUnauthorizedOnce in
\* proxy/server.ts, with the resync and the forced rotation it calls).
THEOREM NeverRetriesTheRefused == RecoversAlone /\ Spec => []RetriesWithAnotherToken
<1>1. Init => Retries
    <2>1. Idle.pc = "idle" /\ Idle.result = NoCred
        BY DEF Idle
    <2>2. QED
        BY <2>1 DEF Init, Retries, Recovering
<1>2. Retries => RetriesWithAnotherToken
    BY DEF Retries, Recovering, RetriesWithAnotherToken
<1>3. RecoversAlone => RecoversAlone'
    BY DEF RecoversAlone
<1>4. QED
    BY <1>1, <1>2, <1>3, RetriesStep, Invariance, PTL DEF Spec
-----------------------------------------------------------------------------
(* No rotation is lost, and Claude Code stays logged in *)

\* Asks and recoveries under the lock: no answer is lost, no store fails, nobody is killed between the
\* grant and the save, Claude's login stays the same, and no login but Claude's is in two accounts.
Undisturbed ==
    /\ LockHolds /\ ~AnswerLost /\ ~LoginAllowed /\ StoreFails = {} /\ \A f \in Flight : Works(f)
    /\ CrashPoints \cap {"mirror", "mirrorWrite", "save", "write"} = {}
    /\ \A a, b \in Account : a # b /\ InitVault[a] = InitVault[b] => InitVault[a] \in {None, InitLive}

Mirrors(r) == r.pc \in {"mirror", "mirrorWrite"}
Saves(r) == r.pc \in {"mirror", "mirrorWrite", "save", "write"} /\ r.then = "vault"

\* The proxy's own resync refreshes and saves only what Claude holds.
Probing(r) ==
    r.probe =>
        /\ r.pc \in {"rsLoad", "rsLive", "rsOwned", "refresh", "mirror", "mirrorWrite", "email", "save",
                     "write", "check"}
        /\ r.pc \in {"refresh", "mirror", "mirrorWrite"} => r.then = "email"
        /\ r.pc \in {"save", "write"} => r.then = "adopted"

\* Whatever is not the account's own lineage is Claude's, and a refresh stays within its lineage.
Lineages(a, r) ==
    /\ r.pc \in {"rsOwned", "email"} => r.sent.lin = InitLive
    /\ r.pc = "email" => r.next.lin = InitLive /\ r.then = "email"
    /\ r.pc \in {"save", "write"} => r.then = "vault" \/ (r.then = "adopted" /\ r.next.lin = InitLive)
    /\ r.pc \in {"refresh", "mirror", "mirrorWrite"} =>
           r.then = "vault" \/ (r.then = "email" /\ r.sent.lin = InitLive)
    /\ (r.pc \in {"refresh", "hand"} /\ r.then = "vault") \/ Saves(r) =>
           r.sent.lin \in {InitVault[a], InitLive}
    /\ Mirrors(r) \/ Saves(r) \/ r.pc = "hand" => r.next.lin = r.sent.lin
    /\ r.pc = "mirrorWrite" => r.next.lin = InitLive
    /\ r.pc = "hand" => r.then = "vault"
    /\ r.pc # "handWrite"

\* Since the vault was read under the lock it can only have been given Claude's login, by a resync of
\* the proxy; and what was read is no newer than what a refresh made of it.
Based(r, held) ==
    /\ r.pc \in {"live", "load"} => held = r.stored \/ held.lin = InitLive
    /\ (r.pc \in {"refresh", "hand"} /\ r.then = "vault") \/ Saves(r) =>
           r.sent = r.stored \/ r.sent.lin = InitLive
    /\ Saves(r) \/ r.pc = "hand" => (r.stored.lin = r.next.lin => r.stored.rt <= r.next.rt)

\* What was taken from Claude's store, or mirrored into it, is not newer than what is there.
Behind(r, theirs) ==
    /\ r.pc = "rsOwned" => r.sent.rt <= theirs.rt
    /\ r.pc \in {"email", "save", "write", "hand"} /\ r.next.lin = InitLive => r.next.rt <= theirs.rt

Walk(f, r, held, theirs) ==
    Probing(r) /\ Lineages(AcctOf[f], r) /\ Based(r, held) /\ Behind(r, theirs)

\* While a rotation is being mirrored, it alone has the current token of its lineage.
Others(f) ==
    Everywhere \cup {fl[f].stored, fl[f].sent}
               \cup UNION {{fl[g].stored, fl[g].sent, fl[g].next} : g \in Flight \ {f}}
Newest(f) ==
    Mirrors(fl[f]) => /\ Current(fl[f].next)
                      /\ \A c \in Others(f) : c.lin = fl[f].next.lin => c.rt < fl[f].next.rt

\* What an account's own refresh is about to save is current, unless the lineage is Claude's as well.
Apart(f) == Saves(fl[f]) /\ fl[f].next.lin # InitLive => Current(fl[f].next)

Lives ==
    /\ live.lin = InitLive
    /\ live # NoCred => \/ Current(live)
                        \/ \E g \in Flight : Mirrors(fl[g]) /\ SameRefresh(live, fl[g].sent)

Keeps(a) ==
    /\ vault[a].lin \in {InitVault[a], InitLive}
    /\ vault[a] # NoCred /\ vault[a].lin # InitLive =>
           \/ Current(vault[a])
           \/ \E g \in Flight : AcctOf[g] = a /\ Saves(fl[g]) /\ fl[g].next.lin = vault[a].lin

Rotations ==
    /\ \A f \in Flight : Walk(f, fl[f], Held(f), live) /\ Newest(f) /\ Apart(f)
    /\ Lives
    /\ \A a \in Account : Keeps(a)

Recovery == IInv /\ Undisturbed /\ Rotations
-----------------------------------------------------------------------------
(* What the invariant says of two flights and of Claude's store *)

LEMMA CredOf ==
    ASSUME IInv, NEW c \in Copies, c # NoCred
    PROVE  /\ c \in Cred /\ c.lin \in Lineage /\ c.lin # None /\ c.rt \in Nat /\ c.at \in Nat
           /\ server[c.lin].rt \in Nat /\ c.rt <= server[c.lin].rt
<1>1. c \in Cred
    BY CopiesAreCreds, NoCredIsNone DEF IInv
<1>2. QED
    BY <1>1, CredentialAssumption DEF Cred, Token, IInv, Coherent, Typed, TypeOK

LEMMA RtIsNat == ASSUME IInv, NEW c \in Copies PROVE c.rt \in Nat
BY CredOf DEF NoCred

\* The others of a flight that mirrors.
LEMMA OthersOf ==
    ASSUME IInv, NEW f \in Flight
    PROVE  /\ Others(f) \subseteq Copies /\ live \in Others(f)
           /\ fl[f].stored \in Others(f) /\ fl[f].sent \in Others(f)
           /\ \A a \in Account : vault[a] \in Others(f)
           /\ \A g \in Flight \ {f} : {fl[g].stored, fl[g].sent, fl[g].next} \subseteq Others(f)
BY DEF Others, Copies, Everywhere

\* Two rotations of one lineage are never mirrored at once.
LEMMA OneMirrors ==
    ASSUME Recovery, NEW f \in Flight, NEW g \in Flight, Mirrors(fl[f]), Mirrors(fl[g]),
           fl[f].next.lin = fl[g].next.lin
    PROVE  f = g
<1> SUFFICES ASSUME f # g PROVE FALSE
    OBVIOUS
<1>1. fl[f].next \in Others(g) /\ fl[g].next \in Others(f)
    BY OthersOf DEF Recovery
<1>2. fl[f].next.rt < fl[g].next.rt /\ fl[g].next.rt < fl[f].next.rt
    BY <1>1 DEF Recovery, Rotations, Newest
<1>3. fl[f].next.rt \in Nat /\ fl[g].next.rt \in Nat
    BY CopiesOf, RtIsNat DEF Recovery, IInv
<1>4. QED
    BY <1>2, <1>3

\* Where the current token is at hand, its lineage is not being mirrored.
LEMMA CurrentUnmirrored ==
    ASSUME Recovery, NEW g \in Flight, NEW c \in Others(g), c.lin = fl[g].next.lin, Current(c)
    PROVE  ~Mirrors(fl[g])
<1> SUFFICES ASSUME Mirrors(fl[g]) PROVE FALSE
    OBVIOUS
<1>1. Current(fl[g].next) /\ c.rt < fl[g].next.rt
    BY DEF Recovery, Rotations, Newest
<1>2. c.rt = server[c.lin].rt /\ fl[g].next.rt = server[c.lin].rt
    BY <1>1 DEF Current
<1>3. c.rt \in Nat
    BY OthersOf, RtIsNat DEF Recovery
<1>4. QED
    BY <1>1, <1>2, <1>3

\* While a rotation of Claude's login is mirrored, Claude's store holds the token that was spent on it.
LEMMA MirrorsLive ==
    ASSUME Recovery, NEW f \in Flight, Mirrors(fl[f]), fl[f].next.lin = InitLive
    PROVE  live # NoCred /\ SameRefresh(live, fl[f].sent)
<1>1. fl[f].next \in Copies /\ fl[f].next # NoCred /\ fl[f].next.lin = fl[f].sent.lin
    BY CopiesOf, SoundFlight DEF Recovery, IInv, Struct, Mirrors, Rotations, Walk, Lineages
<1>2. live # NoCred /\ live.lin = InitLive /\ live \in Others(f)
    BY <1>1, CredOf, OthersOf DEF Recovery, Rotations, Lives, NoCred
<1>3. ~Current(live)
    BY <1>2, CurrentUnmirrored
<1>4. PICK g \in Flight : Mirrors(fl[g]) /\ SameRefresh(live, fl[g].sent)
    BY <1>2, <1>3 DEF Recovery, Rotations, Lives
<1>5. fl[g].next.lin = InitLive
    BY <1>2, <1>4 DEF SameRefresh, Recovery, Rotations, Walk, Lineages
<1>6. QED
    BY <1>2, <1>4, <1>5, OneMirrors

\* Only one flight is saving a rotation of a lineage that is not Claude's.
LEMMA OneSaves ==
    ASSUME Recovery, NEW f \in Flight, NEW g \in Flight, f # g, Saves(fl[g]),
           Saves(fl[f]) \/ (fl[f].pc = "refresh" /\ fl[f].then = "vault"),
           fl[f].sent.lin = fl[g].sent.lin, fl[f].sent # NoCred
    PROVE  fl[f].sent.lin = InitLive
<1> SUFFICES ASSUME fl[f].sent.lin # InitLive PROVE FALSE
    OBVIOUS
<1>1. fl[f].sent.lin = InitVault[AcctOf[f]] /\ fl[f].sent.lin = InitVault[AcctOf[g]]
    BY DEF Recovery, Rotations, Walk, Lineages
<1>2. fl[f].sent.lin # None
    BY CopiesOf, CredOf DEF Recovery, IInv
<1>3. AcctOf[f] = AcctOf[g]
    BY <1>1, <1>2, FlightIsLocal DEF Recovery, IInv, Undisturbed
<1>4. ~fl[f].probe /\ ~fl[g].probe
    BY DEF Recovery, Rotations, Walk, Probing, Saves
<1>5. fl[f].pc \in Inside /\ fl[g].pc \in Inside
    BY DEF Saves, Inside
<1>6. QED
    BY <1>3, <1>4, <1>5, OneInside DEF Recovery, Undisturbed
-----------------------------------------------------------------------------
(* The steps of an ask or a recovery that write nothing *)

Silent(f) ==
    /\ UNCHANGED <<server, vault, live>> /\ \A g \in Flight \ {f} : fl'[g] = fl[g]
    /\ {fl'[f].stored, fl'[f].sent, fl'[f].next}
           \subseteq Everywhere \cup {NoCred, fl[f].stored, fl[f].sent, fl[f].next}
    /\ Mirrors(fl'[f]) => /\ Mirrors(fl[f]) /\ fl'[f].stored = fl[f].stored
                          /\ fl'[f].sent = fl[f].sent /\ fl'[f].next = fl[f].next
    /\ Mirrors(fl[f]) => Mirrors(fl'[f]) \/ live = NoCred \/ ~SameRefresh(live, fl[f].sent)
    /\ Saves(fl'[f]) => Saves(fl[f]) /\ fl'[f].next = fl[f].next
    /\ Saves(fl[f]) => Saves(fl'[f]) \/ Held(f) = NoCred
    /\ Walk(f, fl'[f], Held(f), live)

LEMMA SilentKeeps == ASSUME Recovery, NEW f \in Flight, Silent(f) PROVE Rotations'
<1>0. /\ server' = server /\ vault' = vault /\ live' = live /\ \A g \in Flight \ {f} : fl'[g] = fl[g]
      /\ Everywhere' = Everywhere
    BY DEF Silent, Everywhere
<1>1. ASSUME NEW g \in Flight PROVE Walk(g, fl[g], Held(g), live)'
    BY <1>0 DEF Silent, Recovery, Rotations, Walk, Held
<1>2. ASSUME NEW g \in Flight, Mirrors(fl'[g]) PROVE Newest(g)'
    <2>1. Mirrors(fl[g]) /\ fl'[g].stored = fl[g].stored /\ fl'[g].sent = fl[g].sent /\ fl'[g].next = fl[g].next
        BY <1>0, <1>2 DEF Silent
    <2>2. Current(fl[g].next) /\ \A c \in Others(g) : c.lin = fl[g].next.lin => c.rt < fl[g].next.rt
        BY <2>1 DEF Recovery, Rotations, Newest
    <2>3. ASSUME NEW c \in Others(g)', c.lin = fl[g].next.lin PROVE c \in Others(g)
        <3>1. c # NoCred
            <4>1. fl[g].next # NoCred
                BY <2>1, SoundFlight DEF Mirrors, Recovery, Struct
            <4>2. QED
                BY <2>3, <4>1, CopiesOf, CredOf DEF Recovery, IInv, NoCred
        <3>2. CASE c \in Everywhere \cup {fl[g].stored, fl[g].sent}
            BY <3>2 DEF Others
        <3>3. ASSUME NEW h \in Flight \ {g}, c \in {fl'[h].stored, fl'[h].sent, fl'[h].next}
              PROVE  c \in Others(g)
            <4>1. CASE h = f
                BY <3>1, <3>3, <4>1 DEF Silent, Others
            <4>2. CASE h # f
                BY <1>0, <3>3, <4>2 DEF Others
            <4>3. QED
                BY <4>1, <4>2
        <3>4. QED
            BY <1>0, <2>1, <2>3, <3>2, <3>3 DEF Others
    <2>4. QED
        BY <1>0, <2>1, <2>2, <2>3 DEF Newest, Current
<1>3. ASSUME NEW g \in Flight PROVE Apart(g)'
    BY <1>0 DEF Silent, Recovery, Rotations, Apart, Current
<1>4. Lives'
    BY <1>0 DEF Silent, Recovery, Rotations, Lives, Current
<1>5. ASSUME NEW a \in Account PROVE Keeps(a)'
    <2>1. ASSUME vault[a] # NoCred, NEW g \in Flight, AcctOf[g] = a, Saves(fl[g])
          PROVE  Saves(fl'[g]) /\ fl'[g].next = fl[g].next
        BY <1>0, <2>1 DEF Silent, Held
    <2>2. QED
        BY <1>0, <2>1 DEF Recovery, Rotations, Keeps, Current
<1>6. QED
    BY <1>1, <1>2, <1>3, <1>4, <1>5 DEF Rotations, Newest

\* A step of a flight that saves nothing.
LEMMA SilentAside ==
    ASSUME NEW f \in Flight, UNCHANGED <<server, vault, live>>,
           \A g \in Flight \ {f} : fl'[g] = fl[g], ~Saves(fl[f]), ~Mirrors(fl[f]),
           ~Saves(fl'[f]), ~Mirrors(fl'[f]),
           {fl'[f].stored, fl'[f].sent, fl'[f].next}
               \subseteq Everywhere \cup {NoCred, fl[f].stored, fl[f].sent, fl[f].next},
           Walk(f, fl'[f], Held(f), live)
    PROVE  Silent(f)
BY DEF Silent

LEMMA WalkIdle ==
    ASSUME NEW f \in Flight, fl'[f].pc \in {"idle", "lock", "sent", "reread"}, fl'[f].probe = FALSE
    PROVE  Walk(f, fl'[f], Held(f), live)
BY DEF Walk, Probing, Lineages, Based, Behind, Saves, Mirrors

LEMMA EndsSilently ==
    ASSUME NEW f \in Flight, NEW c, Ends(f, c), UNCHANGED <<server, vault, live>>,
           ~Mirrors(fl[f]), Saves(fl[f]) => Held(f) = NoCred
    PROVE  Silent(f)
<1>1. fl'[f].pc \in {"idle", "lock", "sent", "reread"} /\ fl'[f].probe = FALSE
    BY DEF Ends
<1>2. Walk(f, fl'[f], Held(f), live)
    BY <1>1, WalkIdle
<1>3. QED
    BY <1>2 DEF Silent, Ends, Saves, Mirrors

LEMMA DeclinesSilently ==
    ASSUME NEW f \in Flight, Declines(f), UNCHANGED <<server, vault, live>>,
           fl[f].pc \in {"rsLive", "rsOwned", "refresh", "email"}
    PROVE  Silent(f)
<1>1. CASE Ends(f, NoCred)
    BY <1>1, EndsSilently DEF Mirrors, Saves
<1>2. CASE Advances(f, "check")
    <2>1. Walk(f, fl'[f], Held(f), live)
        BY <1>2 DEF Advances, Turns, Walk, Probing, Lineages, Based, Behind, Saves, Mirrors
    <2>2. QED
        BY <1>2, <2>1, SilentAside DEF Advances, Turns, Mirrors, Saves
<1>3. QED
    BY <1>1, <1>2 DEF Declines

LEMMA WalkOf ==
    ASSUME Recovery, NEW f \in Flight
    PROVE  /\ Walk(f, fl[f], Held(f), live) /\ Works(f) /\ LockHolds /\ StoreFails = {}
           /\ Struct(f, fl[f]) /\ live.lin = InitLive /\ Held(f).lin \in {InitVault[AcctOf[f]], InitLive}
           /\ Held(f) \in Everywhere /\ live \in Everywhere /\ live.rt \in Nat
<1>1. AcctOf[f] \in Account
    BY CredentialAssumption
<1>2. live.rt \in Nat
    BY CopiesOf, RtIsNat DEF Recovery, IInv
<1>3. QED
    BY <1>1, <1>2, SoundFlight DEF Recovery, Rotations, Lives, Keeps, Held, Everywhere, Undisturbed

LEMMA AdvancesSilently ==
    ASSUME NEW f \in Flight, NEW label, Advances(f, label), UNCHANGED <<server, vault, live>>,
           label \notin {"mirror", "mirrorWrite", "save", "write"}, ~Mirrors(fl[f]), ~Saves(fl[f]),
           Walk(f, fl'[f], Held(f), live)
    PROVE  Silent(f)
BY SilentAside DEF Advances, Turns, Mirrors, Saves

LEMMA EnterSilent ==
    ASSUME Recovery, NEW f \in Flight, UNCHANGED <<server, vault, live>>,
           Ask(f) \/ Acquire(f) \/ RunUnlocked(f)
    PROVE  Silent(f)
<1>1. Works(f) /\ Struct(f, fl[f]) /\ IInv
    BY WalkOf DEF Recovery
<1>2. /\ fl[f].pc \in {"idle", "lock"} /\ fl[f].probe = FALSE
      /\ Advances(f, "lock") \/ Advances(f, "reread")
    <2>1. fl[f].pc \in {"idle", "lock"} /\ (Advances(f, "lock") \/ Advances(f, "reread"))
        BY <1>1, AskTurns, EnterTurns
    <2>2. fl[f].probe \in BOOLEAN
        BY <1>1, FlightIsLocal DEF IInv, Local
    <2>3. QED
        BY <1>1, <2>1, <2>2 DEF Struct, Inside
<1>3. Walk(f, fl'[f], Held(f), live)
    BY <1>2, WalkIdle DEF Advances, Turns
<1>4. ~Mirrors(fl[f]) /\ ~Saves(fl[f])
    BY <1>2 DEF Mirrors, Saves
<1>5. QED
    BY <1>2, <1>3, <1>4, AdvancesSilently

LEMMA RereadSilent ==
    ASSUME Recovery, NEW f \in Flight, UNCHANGED <<server, vault, live>>, Reread(f) PROVE Silent(f)
<1>1. /\ IInv /\ fl[f].pc = "reread" /\ Walk(f, fl[f], Held(f), live) /\ Held(f) \in Everywhere
      /\ \/ Ends(f, Held(f))
         \/ Turns(f, "live", Held(f), fl[f].sent, fl[f].next, fl[f].then, fl[f].probe)
    BY WalkOf, RereadTurns DEF Recovery
<1>2. CASE Ends(f, Held(f))
    BY <1>1, <1>2, EndsSilently DEF Mirrors, Saves
<1>3. CASE Turns(f, "live", Held(f), fl[f].sent, fl[f].next, fl[f].then, fl[f].probe)
    <2>1. Walk(f, fl'[f], Held(f), live)
        BY <1>1, <1>3 DEF Turns, Walk, Probing, Lineages, Based, Behind, Saves, Mirrors
    <2>2. QED
        BY <1>1, <1>3, <2>1, SilentAside DEF Turns, Mirrors, Saves
<1>4. QED
    BY <1>1, <1>2, <1>3

LEMMA AdoptSharedSilent ==
    ASSUME Recovery, NEW f \in Flight, UNCHANGED <<server, vault, live>>, AdoptShared(f) PROVE Silent(f)
<1>1. /\ IInv /\ fl[f].pc = "live" /\ Walk(f, fl[f], Held(f), live) /\ live \in Everywhere
      /\ live.lin = InitLive /\ live.rt \in Nat
      /\ \/ Advances(f, "load")
         \/ Turns(f, "save", fl[f].stored, fl[f].sent, live, "adopted", fl[f].probe)
    BY WalkOf, AdoptSharedTurns DEF Recovery
<1>2. CASE Advances(f, "load")
    <2>1. Walk(f, fl'[f], Held(f), live)
        BY <1>1, <1>2 DEF Advances, Turns, Walk, Probing, Lineages, Based, Behind, Saves, Mirrors
    <2>2. QED
        BY <1>1, <1>2, <2>1, AdvancesSilently DEF Mirrors, Saves
<1>3. CASE Turns(f, "save", fl[f].stored, fl[f].sent, live, "adopted", fl[f].probe)
    <2>1. Walk(f, fl'[f], Held(f), live)
        BY <1>1, <1>3 DEF Turns, Walk, Probing, Lineages, Based, Behind, Saves, Mirrors
    <2>2. QED
        BY <1>1, <1>3, <2>1, SilentAside DEF Turns, Mirrors, Saves
<1>4. QED
    BY <1>1, <1>2, <1>3

LEMMA LoadStoredSilent ==
    ASSUME Recovery, NEW f \in Flight, UNCHANGED <<server, vault, live>>, LoadStored(f) PROVE Silent(f)
<1>1. /\ IInv /\ fl[f].pc = "load" /\ Walk(f, fl[f], Held(f), live) /\ Held(f) \in Everywhere
      /\ Held(f).lin \in {InitVault[AcctOf[f]], InitLive}
      /\ \/ \E c : Ends(f, c)
         \/ Turns(f, "refresh", fl[f].stored, Held(f), fl[f].next, "vault", fl[f].probe)
    BY WalkOf, LoadStoredTurns DEF Recovery
<1>2. CASE \E c : Ends(f, c)
    BY <1>1, <1>2, EndsSilently DEF Mirrors, Saves
<1>3. CASE Turns(f, "refresh", fl[f].stored, Held(f), fl[f].next, "vault", fl[f].probe)
    <2>1. Walk(f, fl'[f], Held(f), live)
        BY <1>1, <1>3 DEF Turns, Walk, Probing, Lineages, Based, Behind, Saves, Mirrors
    <2>2. QED
        BY <1>1, <1>3, <2>1, SilentAside DEF Turns, Mirrors, Saves
<1>4. QED
    BY <1>1, <1>2, <1>3

LEMMA RefusedSilent ==
    ASSUME Recovery, NEW f \in Flight, UNCHANGED <<server, vault, live>>, Refused(f) \/ Unreached(f)
    PROVE  Silent(f)
<1>1. /\ IInv /\ fl[f].pc = "refresh" /\ Walk(f, fl[f], Held(f), live)
      /\ Ends(f, NoCred) \/ Advances(f, "rsLoad") \/ Declines(f)
    BY WalkOf, RefusedTurns DEF Recovery
<1>2. CASE Advances(f, "rsLoad")
    <2>1. Walk(f, fl'[f], Held(f), live)
        BY <1>1, <1>2 DEF Advances, Turns, Walk, Probing, Lineages, Based, Behind, Saves, Mirrors
    <2>2. QED
        BY <1>1, <1>2, <2>1, AdvancesSilently DEF Mirrors, Saves
<1>3. QED
    BY <1>1, <1>2, EndsSilently, DeclinesSilently DEF Mirrors, Saves

LEMMA MirrorReadSilent ==
    ASSUME Recovery, NEW f \in Flight, UNCHANGED <<server, vault, live>>, MirrorRead(f) PROVE Silent(f)
<1>1. /\ IInv /\ fl[f].pc = "mirror" /\ Walk(f, fl[f], Held(f), live) /\ live.lin = InitLive
      /\ \/ SameRefresh(live, fl[f].sent) /\ Advances(f, "mirrorWrite")
         \/ ~(live # NoCred /\ SameRefresh(live, fl[f].sent)) /\ Advances(f, Afterwards(f))
    BY WalkOf, MirrorReadTurns DEF Recovery
<1>2. CASE SameRefresh(live, fl[f].sent) /\ Advances(f, "mirrorWrite")
    <2>1. Walk(f, fl'[f], Held(f), live)
        BY <1>1, <1>2 DEF Advances, Turns, Walk, Probing, Lineages, Based, Behind, Saves, Mirrors, SameRefresh
    <2>2. QED
        BY <1>1, <1>2, <2>1 DEF Silent, Advances, Turns, Mirrors, Saves
<1>3. CASE ~(live # NoCred /\ SameRefresh(live, fl[f].sent)) /\ Advances(f, Afterwards(f))
    <2>1. fl[f].next.lin # InitLive
        BY <1>1, <1>3, MirrorsLive DEF Mirrors
    <2>2. fl[f].then = "vault" /\ Afterwards(f) = "save"
        BY <1>1, <2>1 DEF Walk, Lineages, Mirrors, Afterwards
    <2>3. Walk(f, fl'[f], Held(f), live)
        BY <1>1, <1>3, <2>1, <2>2 DEF Advances, Turns, Walk, Probing, Lineages, Based, Behind, Saves, Mirrors
    <2>4. QED
        BY <1>1, <1>3, <2>2, <2>3 DEF Silent, Advances, Turns, Mirrors, Saves
<1>4. QED
    BY <1>1, <1>2, <1>3

LEMMA SaveReadSilent ==
    ASSUME Recovery, NEW f \in Flight, UNCHANGED <<server, vault, live>>, SaveRead(f) PROVE Silent(f)
<1>1. /\ IInv /\ fl[f].pc = "save" /\ Walk(f, fl[f], Held(f), live)
      /\ (Held(f) = NoCred /\ Ends(f, NoCred)) \/ Advances(f, "write")
    BY WalkOf, SaveReadTurns DEF Recovery
<1>2. CASE Held(f) = NoCred /\ Ends(f, NoCred)
    BY <1>1, <1>2, EndsSilently DEF Mirrors
<1>3. CASE Advances(f, "write")
    <2>1. Walk(f, fl'[f], Held(f), live)
        BY <1>1, <1>3 DEF Advances, Turns, Walk, Probing, Lineages, Based, Behind, Saves, Mirrors
    <2>2. QED
        BY <1>1, <1>3, <2>1 DEF Silent, Advances, Turns, Mirrors, Saves
<1>4. QED
    BY <1>1, <1>2, <1>3

\* After the save Claude's store never holds what was read first: it has been mirrored before.
LEMMA HandSilent ==
    ASSUME Recovery, NEW f \in Flight, UNCHANGED <<server, vault, live>>, HandRead(f) \/ HandWrite(f)
    PROVE  Silent(f)
<1>1. /\ IInv /\ fl[f].pc = "hand" /\ Walk(f, fl[f], Held(f), live) /\ live.lin = InitLive
      /\ \/ Ends(f, fl[f].next)
         \/ ~SameRefresh(fl[f].stored, fl[f].next) /\ SameRefresh(live, fl[f].stored)
    BY WalkOf, HandTurns DEF Recovery, Walk, Lineages
<1>2. ASSUME ~SameRefresh(fl[f].stored, fl[f].next), SameRefresh(live, fl[f].stored) PROVE FALSE
    <2>1. fl[f].stored.lin = InitLive /\ fl[f].stored.rt = live.rt
        BY <1>1, <1>2 DEF SameRefresh
    <2>2. fl[f].next.lin = InitLive
        BY <1>1, <2>1 DEF Walk, Lineages, Based
    <2>3. fl[f].stored.rt <= fl[f].next.rt /\ fl[f].next.rt <= live.rt
        BY <1>1, <2>1, <2>2 DEF Walk, Based, Behind
    <2>4. fl[f].next.rt \in Nat /\ live.rt \in Nat
        BY <1>1, CopiesOf, RtIsNat DEF IInv
    <2>5. QED
        BY <1>2, <2>1, <2>2, <2>3, <2>4 DEF SameRefresh
<1>3. QED
    BY <1>1, <1>2, EndsSilently DEF Mirrors, Saves

LEMMA ResyncSilent ==
    ASSUME Recovery, NEW f \in Flight, UNCHANGED <<server, vault, live>>,
           ResyncLoad(f) \/ ResyncLive(f) \/ ResyncOwned(f)
    PROVE  Silent(f)
<1>1. /\ IInv /\ Walk(f, fl[f], Held(f), live) /\ live.lin = InitLive /\ live.rt \in Nat
      /\ live \in Everywhere /\ Held(f) \in Everywhere
    BY WalkOf DEF Recovery
<1>2. CASE ResyncLoad(f)
    <2>1. /\ fl[f].pc = "rsLoad"
          /\ Turns(f, "rsLive", Held(f), fl[f].sent, fl[f].next, fl[f].then, fl[f].probe)
        BY <1>1, <1>2, ResyncLoadTurns
    <2>2. Walk(f, fl'[f], Held(f), live)
        BY <1>1, <2>1 DEF Turns, Walk, Probing, Lineages, Based, Behind, Saves, Mirrors
    <2>3. QED
        BY <1>1, <2>1, <2>2, SilentAside DEF Turns, Mirrors, Saves
<1>3. CASE ResyncLive(f)
    <2>1. /\ fl[f].pc = "rsLive"
          /\ \/ Declines(f)
             \/ Turns(f, "rsOwned", fl[f].stored, live, fl[f].next, fl[f].then, fl[f].probe)
        BY <1>1, <1>3, ResyncLiveTurns
    <2>2. CASE Turns(f, "rsOwned", fl[f].stored, live, fl[f].next, fl[f].then, fl[f].probe)
        <3>1. Walk(f, fl'[f], Held(f), live)
            BY <1>1, <2>1, <2>2 DEF Turns, Walk, Probing, Lineages, Based, Behind, Saves, Mirrors
        <3>2. QED
            BY <1>1, <2>1, <2>2, <3>1, SilentAside DEF Turns, Mirrors, Saves
    <2>3. QED
        BY <2>1, <2>2, DeclinesSilently
<1>4. CASE ResyncOwned(f)
    <2>1. /\ fl[f].pc = "rsOwned"
          /\ \/ Declines(f)
             \/ Turns(f, "refresh", fl[f].stored, fl[f].sent, fl[f].next, "email", fl[f].probe)
             \/ Turns(f, "email", fl[f].stored, fl[f].sent, fl[f].sent, "email", fl[f].probe)
        BY <1>1, <1>4, ResyncOwnedTurns
    <2>2. ASSUME NEW next, NEW label \in {"refresh", "email"},
                 Turns(f, label, fl[f].stored, fl[f].sent, next, "email", fl[f].probe),
                 next = fl[f].sent \/ (next = fl[f].next /\ label = "refresh")
          PROVE  Silent(f)
        <3>1. Walk(f, fl'[f], Held(f), live)
            BY <1>1, <2>1, <2>2 DEF Turns, Walk, Probing, Lineages, Based, Behind, Saves, Mirrors
        <3>2. QED
            BY <1>1, <2>1, <2>2, <3>1, SilentAside DEF Turns, Mirrors, Saves
    <2>3. QED
        BY <2>1, <2>2, DeclinesSilently
<1>5. QED
    BY <1>2, <1>3, <1>4

LEMMA ResyncEmailSilent ==
    ASSUME Recovery, NEW f \in Flight, UNCHANGED <<server, vault, live>>, ResyncEmail(f) PROVE Silent(f)
<1>1. /\ IInv /\ fl[f].pc = "email" /\ Walk(f, fl[f], Held(f), live)
      /\ \/ Declines(f)
         \/ Ends(f, fl[f].next)
         \/ Turns(f, "save", fl[f].stored, fl[f].sent, fl[f].next, "adopted", fl[f].probe)
    BY WalkOf, ResyncEmailTurns DEF Recovery
<1>2. CASE Turns(f, "save", fl[f].stored, fl[f].sent, fl[f].next, "adopted", fl[f].probe)
    <2>1. Walk(f, fl'[f], Held(f), live)
        BY <1>1, <1>2 DEF Turns, Walk, Probing, Lineages, Based, Behind, Saves, Mirrors
    <2>2. QED
        BY <1>1, <1>2, <2>1, SilentAside DEF Turns, Mirrors, Saves
<1>3. QED
    BY <1>1, <1>2, EndsSilently, DeclinesSilently DEF Mirrors, Saves

LEMMA RecoverSilent ==
    ASSUME Recovery, NEW f \in Flight, UNCHANGED <<server, vault, live>>,
           Use(f) \/ Accepted(f) \/ Unauthorized(f) \/ RecoverCheck(f)
    PROVE  Silent(f)
<1>1. IInv /\ Walk(f, fl[f], Held(f), live)
    BY WalkOf DEF Recovery
<1>2. CASE Use(f)
    <2>1. Walk(f, fl'[f], Held(f), live)
        BY <1>1, <1>2, UseTurns, WalkIdle
    <2>2. QED
        BY <1>1, <1>2, <2>1, UseTurns, SilentAside DEF Mirrors, Saves
<1>3. CASE Accepted(f)
    BY <1>1, <1>3, AcceptedTurns, EndsSilently DEF Mirrors, Saves
<1>4. CASE Unauthorized(f)
    <2>1. /\ fl[f].pc = "sent" /\ fl'[f].pc = "rsLoad" /\ \A g \in Flight \ {f} : fl'[g] = fl[g]
          /\ fl'[f].stored = fl[f].stored /\ fl'[f].sent = fl[f].sent /\ fl'[f].next = fl[f].next
        BY <1>1, <1>4, UnauthorizedTurns
    <2>2. Walk(f, fl'[f], Held(f), live)
        BY <2>1 DEF Walk, Probing, Lineages, Based, Behind, Saves, Mirrors
    <2>3. QED
        BY <2>1, <2>2, SilentAside DEF Mirrors, Saves
<1>5. CASE RecoverCheck(f)
    <2>1. /\ fl[f].pc = "check"
          /\ \/ \E c : Ends(f, c)
             \/ Turns(f, "lock", fl[f].stored, fl[f].sent, fl[f].next, fl[f].then, FALSE)
        BY <1>1, <1>5, RecoverCheckTurns
    <2>2. CASE Turns(f, "lock", fl[f].stored, fl[f].sent, fl[f].next, fl[f].then, FALSE)
        <3>1. Walk(f, fl'[f], Held(f), live)
            BY <2>2, WalkIdle DEF Turns
        <3>2. QED
            BY <2>1, <2>2, <3>1, SilentAside DEF Turns, Mirrors, Saves
    <2>3. QED
        BY <2>1, <2>2, EndsSilently DEF Mirrors, Saves
<1>6. QED
    BY <1>2, <1>3, <1>4, <1>5

LEMMA InwardSilent == ASSUME Recovery, NEW f \in Flight, Inward(f), ~MirrorWrite(f) PROVE Silent(f)
<1>1. Works(f) /\ Struct(f, fl[f]) /\ IInv /\ fl[f].pc # "handWrite"
    BY WalkOf DEF Recovery, Walk, Lineages
<1>2. ~(ImportRead(f) \/ ImportCheck(f) \/ RenameRead(f) \/ Install(f) \/ Verify(f) \/ HandWrite(f))
    BY <1>1 DEF Works, Struct, ImportRead, ImportCheck, RenameRead, Install, Verify, HandWrite, At
<1>3. UNCHANGED <<server, vault, live>>
    BY <1>2 DEF Inward, disk, Ask, Acquire, RunUnlocked, Reread, AdoptShared, LoadStored, Refused,
       Unreached, MirrorRead, SaveRead, HandRead, ResyncLoad, ResyncLive, ResyncOwned, ResyncEmail,
       Use, Accepted, Unauthorized, RecoverCheck
<1>4. QED
    BY <1>2, <1>3, EnterSilent, RereadSilent, AdoptSharedSilent, LoadStoredSilent, RefusedSilent,
       MirrorReadSilent, SaveReadSilent, HandSilent, ResyncSilent, ResyncEmailSilent, RecoverSilent
       DEF Inward
-----------------------------------------------------------------------------
(* The steps that write, and the others *)

\* Whoever holds the endpoint's current token gets a newer one of its lineage, or a new access token.
LEMMA GrantNumbers ==
    ASSUME IInv, NEW c \in Copies, c # NoCred, Honours(c), NEW rotates \in BOOLEAN,
           server' = [server EXCEPT ![c.lin] = [rt |-> Grant(c, rotates).rt, at |-> Grant(c, rotates).at]]
    PROVE  /\ Grant(c, rotates).lin = c.lin /\ Current(c) /\ c.rt \in Nat
           /\ Grant(c, rotates).rt = IF rotates THEN c.rt + 1 ELSE c.rt
           /\ server'[c.lin].rt = Grant(c, rotates).rt
           /\ \A l \in Lineage : l # c.lin => server'[l] = server[l]
           /\ \A d \in Copies \ {NoCred} : d.lin # c.lin => server'[d.lin] = server[d.lin]
           /\ \A d \in Copies : d.lin = c.lin => d.rt <= c.rt
<1>1. c.lin \in Lineage /\ c.rt \in Nat /\ server \in [Lineage -> [rt : Token, at : Token]]
    BY CredOf DEF IInv, Typed, TypeOK
<1>2. Grant(c, rotates).lin = c.lin /\ Grant(c, rotates).rt = IF rotates THEN c.rt + 1 ELSE c.rt
    BY DEF Grant
<1>3. Current(c)
    BY DEF Honours, Current
<1>4. /\ server'[c.lin].rt = Grant(c, rotates).rt
      /\ \A l \in Lineage : l # c.lin => server'[l] = server[l]
    BY <1>1
<1>5. ASSUME NEW d \in Copies, d.lin = c.lin PROVE d.rt <= c.rt
    <2>1. d # NoCred
        BY <1>1, <1>5, CredentialAssumption DEF NoCred
    <2>2. QED
        BY <1>3, <1>5, <2>1, CredOf DEF Current
<1>6. \A d \in Copies \ {NoCred} : d.lin \in Lineage
    BY CredOf
<1>7. QED
    BY <1>1, <1>2, <1>3, <1>4, <1>5, <1>6

\* What a flight that stays behind still knows, when the copies about it only grow by some of lineage l,
\* which is not its own, and the endpoint's record changes for l alone.
LEMMA NewestStays ==
    ASSUME Recovery, NEW g \in Flight, fl'[g] = fl[g], NEW l,
           \A c \in Others(g)' : c \in Others(g) \cup {NoCred} \/ c.lin = l,
           \A m \in Lineage : m # l => server'[m] = server[m],
           Mirrors(fl[g]) => fl[g].next.lin # l
    PROVE  Newest(g)'
<1> SUFFICES ASSUME Mirrors(fl[g]) PROVE Newest(g)'
    BY DEF Newest
<1>1. fl[g].next \in Copies /\ fl[g].next # NoCred
    BY SoundFlight, CopiesOf DEF Recovery, IInv, Struct, Mirrors
<1>2. fl[g].next.lin \in Lineage /\ fl[g].next.lin # NoCred.lin
    BY <1>1, CredOf DEF Recovery, NoCred
<1>3. Current(fl[g].next) /\ \A c \in Others(g) : c.lin = fl[g].next.lin => c.rt < fl[g].next.rt
    BY DEF Recovery, Rotations, Newest
<1>4. QED
    BY <1>2, <1>3 DEF Newest, Current

LEMMA GrantedRotations ==
    ASSUME Recovery, NEW f \in Flight, Granted(f) PROVE Rotations'
<1>1. /\ IInv /\ fl[f].pc = "refresh" /\ Honours(fl[f].sent) /\ vault' = vault /\ live' = live
      /\ Walk(f, fl[f], Held(f), live) /\ live.lin = InitLive
    BY GrantedTurns, WalkOf DEF Recovery
<1>2. PICK rotates \in BOOLEAN :
          LET new == Grant(fl[f].sent, rotates)
          IN /\ server' = [server EXCEPT ![new.lin] = [rt |-> new.rt, at |-> new.at]]
             /\ Turns(f, IF rotates THEN "mirror" ELSE Afterwards(f), fl[f].stored, fl[f].sent, new,
                      fl[f].then, fl[f].probe)
    BY GrantedTurns DEF Recovery, Undisturbed
<1> DEFINE sent == fl[f].sent
           new == Grant(sent, rotates)
           l == sent.lin
<1>3. sent \in Copies /\ sent # NoCred
    BY <1>1, SoundFlight, CopiesOf DEF Struct, IInv
<1>4. /\ new.lin = l /\ Current(sent) /\ sent.rt \in Nat
      /\ new.rt = IF rotates THEN sent.rt + 1 ELSE sent.rt
      /\ server'[l].rt = new.rt
      /\ \A m \in Lineage : m # l => server'[m] = server[m]
      /\ \A d \in Copies \ {NoCred} : d.lin # l => server'[d.lin] = server[d.lin]
      /\ \A d \in Copies : d.lin = l => d.rt <= sent.rt
    <2>1. new.lin = l
        BY DEF Grant
    <2>2. server' = [server EXCEPT ![l] = [rt |-> new.rt, at |-> new.at]]
        BY <1>2, <2>1
    <2>3. QED
        BY <1>1, <1>3, <2>2, GrantNumbers
<1>5. /\ fl'[f].pc = (IF rotates THEN "mirror" ELSE Afterwards(f)) /\ fl'[f].next = new
      /\ fl'[f].stored = fl[f].stored /\ fl'[f].sent = sent /\ fl'[f].then = fl[f].then
      /\ fl'[f].probe = fl[f].probe /\ \A g \in Flight \ {f} : fl'[g] = fl[g]
    BY <1>2 DEF Turns
<1>6. l \in Lineage /\ l # None /\ new # NoCred
    BY <1>1, <1>3, <1>4, CredOf DEF NoCred
<1> HIDE DEF new, l, sent
<1>7. ASSUME NEW g \in Flight, Mirrors(fl[g]) PROVE g # f /\ fl[g].next.lin # l
    <2>1. g # f
        BY <1>1, <1>7 DEF Mirrors
    <2>2. sent \in Others(g)
        BY <1>1, <2>1, OthersOf DEF sent
    <2>3. QED
        BY <1>4, <1>7, <2>1, <2>2, CurrentUnmirrored DEF l
<1>8. fl'[f].pc \in {"mirror", "save", "email"}
      /\ (fl'[f].pc = "save" => fl[f].then = "vault" /\ ~rotates)
      /\ (fl'[f].pc = "email" => fl[f].then # "vault" /\ ~rotates)
      /\ (fl[f].then = "vault" => Saves(fl'[f])) /\ (Mirrors(fl'[f]) <=> rotates)
    BY <1>5 DEF Afterwards, Saves, Mirrors
<1>9. ASSUME l = InitLive PROVE live # NoCred /\ SameRefresh(live, sent)
    <2>1. live # NoCred
        BY <1>1, <1>6, <1>9 DEF NoCred
    <2>2. ASSUME NEW g \in Flight, Mirrors(fl[g]) PROVE ~SameRefresh(live, fl[g].sent)
        BY <1>1, <1>7, <1>9, <2>2 DEF SameRefresh, Recovery, Rotations, Walk, Lineages
    <2>3. Current(live)
        BY <2>1, <2>2 DEF Recovery, Rotations, Lives
    <2>4. QED
        BY <1>1, <1>4, <1>9, <2>1, <2>3 DEF Current, SameRefresh, l
<1>10. ASSUME NEW g \in Flight PROVE Walk(g, fl[g], Held(g), live)'
    <2>1. CASE g # f
        BY <1>1, <1>5, <2>1 DEF Recovery, Rotations, Walk, Held
    <2>2. CASE g = f
        <3>1. Probing(fl'[f])
            BY <1>1, <1>5, <1>8 DEF Walk, Probing
        <3>2. Lineages(AcctOf[f], fl'[f])
            BY <1>1, <1>4, <1>5, <1>8 DEF Walk, Lineages, Saves, Mirrors, l, sent
        <3>3. Based(fl'[f], Held(f))
            <4>1. fl[f].stored.lin = new.lin => fl[f].stored.rt <= new.rt
                <5>1. fl[f].stored \in Copies /\ fl[f].stored.rt \in Nat
                    BY <1>1, CopiesOf, RtIsNat DEF IInv
                <5>2. QED
                    BY <1>4, <5>1
            <4>2. fl'[f].pc \notin {"live", "load", "refresh", "hand"}
                BY <1>8
            <4>3. Saves(fl'[f]) => fl[f].then = "vault"
                BY <1>5 DEF Saves
            <4>4. QED
                BY <1>1, <1>5, <4>1, <4>2, <4>3 DEF Walk, Based, sent
        <3>4. Behind(fl'[f], live)
            <4>1. ASSUME new.lin = InitLive, ~rotates PROVE new.rt <= live.rt
                <5>1. new.rt = sent.rt /\ live.rt = sent.rt
                    BY <1>4, <1>9, <4>1 DEF SameRefresh
                <5>2. QED
                    BY <1>4, <5>1
            <4>2. QED
                BY <1>5, <1>8, <4>1 DEF Behind
        <3>5. QED
            BY <1>1, <2>2, <3>1, <3>2, <3>3, <3>4 DEF Walk, Held
    <2>3. QED
        BY <2>1, <2>2
<1>11. ASSUME NEW g \in Flight PROVE Newest(g)'
    <2>1. CASE g # f
        <3>1. \A c \in Others(g)' : c \in Others(g) \/ c = new
            BY <1>1, <1>5, <2>1 DEF Others, Everywhere, sent
        <3>2. QED
            BY <1>4, <1>5, <1>7, <2>1, <3>1, NewestStays
    <2>2. CASE g = f /\ Mirrors(fl'[f])
        <3>1. new.rt = sent.rt + 1 /\ Current(fl[f].next)'
            BY <1>4, <1>5, <1>6, <1>8, <2>2 DEF Current
        <3>2. Others(f)' \subseteq Copies
            BY <1>1, <1>5 DEF Others, Copies, Everywhere, sent
        <3>3. \A c \in Copies : c.lin = new.lin => c.rt < new.rt
            <4>1. \A c \in Copies : c.rt \in Nat
                BY <1>1, RtIsNat
            <4>2. QED
                BY <1>4, <3>1, <4>1
        <3>4. QED
            BY <1>5, <3>1, <3>2, <3>3, <2>2 DEF Newest
    <2>3. QED
        BY <2>1, <2>2 DEF Newest
<1>12. ASSUME NEW g \in Flight PROVE Apart(g)'
    <2>1. CASE g = f
        BY <1>4, <1>5, <1>6, <2>1 DEF Apart, Current
    <2>2. CASE g # f /\ Saves(fl[g]) /\ fl[g].next.lin # InitLive
        <3>1. fl[g].next.lin = fl[g].sent.lin /\ Current(fl[g].next) /\ fl[g].next \in Copies
            BY <1>1, <2>2, CopiesOf DEF Recovery, Rotations, Walk, Lineages, Apart, IInv
        <3>2. fl[g].next.lin # l
            <4>1. SUFFICES ASSUME fl[g].next.lin = l PROVE FALSE
                OBVIOUS
            <4>2. fl[f].then = "vault"
                BY <1>1, <2>2, <4>1 DEF Walk, Lineages, l, sent
            <4>3. QED
                BY <1>1, <1>3, <2>2, <3>1, <4>1, <4>2, OneSaves DEF l, sent
        <3>3. QED
            BY <1>4, <1>5, <2>2, <3>1, <3>2 DEF Apart, Current
    <2>3. QED
        BY <1>5, <2>1, <2>2 DEF Apart
<1>13. Lives'
    <2>1. CASE l = InitLive /\ rotates
        BY <1>1, <1>5, <1>8, <1>9, <2>1 DEF Lives
    <2>2. CASE l = InitLive /\ ~rotates
        <3>1. live # NoCred /\ live.lin = l /\ live.rt = sent.rt /\ new.rt = sent.rt
            BY <1>1, <1>4, <1>9, <2>2 DEF SameRefresh
        <3>2. QED
            BY <1>1, <1>4, <2>2, <3>1 DEF Lives, Current
    <2>3. CASE l # InitLive
        <3>1. \A g \in Flight : Mirrors(fl[g]) => fl'[g] = fl[g]
            BY <1>5, <1>7
        <3>2. live \in Copies
            BY <1>1, CopiesOf DEF IInv
        <3>3. Current(live) => Current(live)'
            BY <1>1, <1>4, <2>3, <3>2 DEF Current
        <3>4. QED
            BY <1>1, <3>1, <3>3 DEF Lives, Recovery, Rotations
    <2>4. QED
        BY <2>1, <2>2, <2>3
<1>14. ASSUME NEW a \in Account PROVE Keeps(a)'
    <2>1. vault[a].lin \in {InitVault[a], InitLive} /\ vault[a] \in Copies
        BY DEF Recovery, Rotations, Keeps, Copies, Everywhere
    <2>2. CASE vault[a] # NoCred /\ vault[a].lin # InitLive /\ vault[a].lin = l
        <3>1. fl[f].then = "vault" /\ l = InitVault[AcctOf[f]] /\ l = InitVault[a]
            BY <1>1, <2>1, <2>2 DEF Walk, Lineages, l, sent
        <3>2. AcctOf[f] = a
            BY <1>1, <1>6, <2>2, <3>1, FlightIsLocal DEF Recovery, IInv, Undisturbed
        <3>3. Saves(fl'[f]) /\ fl'[f].next.lin = vault[a].lin
            BY <1>4, <1>5, <1>8, <2>2, <3>1
        <3>4. QED
            BY <1>1, <2>1, <3>2, <3>3 DEF Keeps
    <2>3. CASE vault[a] # NoCred /\ vault[a].lin # InitLive /\ vault[a].lin # l
        <3>1. Current(vault[a]) => Current(vault[a])'
            BY <1>1, <1>4, <2>1, <2>3 DEF Current
        <3>2. \A g \in Flight : Saves(fl[g]) => fl'[g] = fl[g]
            BY <1>1, <1>5 DEF Saves
        <3>3. QED
            BY <1>1, <2>3, <3>1, <3>2 DEF Keeps, Recovery, Rotations
    <2>4. QED
        BY <1>1, <2>1, <2>2, <2>3 DEF Keeps
<1>15. QED
    BY <1>10, <1>11, <1>12, <1>13, <1>14 DEF Rotations

LEMMA MirrorWriteRotations ==
    ASSUME Recovery, NEW f \in Flight, MirrorWrite(f) PROVE Rotations'
<1> DEFINE next == fl[f].next
<1>1. /\ IInv /\ fl[f].pc = "mirrorWrite" /\ server' = server /\ vault' = vault /\ live' = next
      /\ Advances(f, Afterwards(f)) /\ Walk(f, fl[f], Held(f), live)
    BY MirrorWriteTurns, WalkOf DEF Recovery, Undisturbed
<1>2. /\ fl'[f].pc = Afterwards(f) /\ fl'[f].next = next /\ fl'[f].stored = fl[f].stored
      /\ fl'[f].sent = fl[f].sent /\ fl'[f].then = fl[f].then /\ fl'[f].probe = fl[f].probe
      /\ \A g \in Flight \ {f} : fl'[g] = fl[g]
    BY <1>1 DEF Advances, Turns
<1>3. Mirrors(fl[f]) /\ next.lin = InitLive /\ next \in Copies /\ next # NoCred
    BY <1>1, SoundFlight, CopiesOf DEF Mirrors, Walk, Lineages, Struct, IInv
<1>4. /\ Current(next) /\ live # NoCred /\ live.lin = InitLive /\ live.rt < next.rt
      /\ live.rt \in Nat /\ next.rt \in Nat
    <2>1. live # NoCred /\ live.lin = InitLive /\ live \in Others(f) /\ live \in Copies
        BY <1>1, <1>3, MirrorsLive, OthersOf DEF Recovery, Rotations, Lives
    <2>2. QED
        BY <1>1, <1>3, <2>1, RtIsNat DEF Recovery, Rotations, Newest
<1>5. /\ fl'[f].pc \in {"save", "email"} /\ (fl'[f].pc = "save" <=> fl[f].then = "vault")
      /\ (Saves(fl'[f]) <=> Saves(fl[f])) /\ ~Mirrors(fl'[f])
    BY <1>1, <1>2 DEF Afterwards, Saves, Mirrors
<1>6. ASSUME NEW g \in Flight PROVE Walk(g, fl[g], Held(g), live)'
    <2>1. CASE g # f
        <3>1. Behind(fl[g], live) /\ fl[g].sent.rt \in Nat /\ fl[g].next.rt \in Nat
            BY <1>1, CopiesOf, RtIsNat DEF Recovery, Rotations, Walk, IInv
        <3>2. Behind(fl[g], next)
            BY <1>4, <3>1 DEF Behind
        <3>3. QED
            BY <1>1, <1>2, <2>1, <3>2 DEF Recovery, Rotations, Walk, Held
    <2>2. CASE g = f
        <3>1. Probing(fl'[f]) /\ Lineages(AcctOf[f], fl'[f])
            BY <1>1, <1>2, <1>3, <1>5 DEF Walk, Probing, Lineages, Saves, Mirrors
        <3>2. Based(fl'[f], Held(f)) /\ Behind(fl'[f], next)
            BY <1>1, <1>2, <1>3, <1>4, <1>5 DEF Walk, Based, Behind, Saves
        <3>3. QED
            BY <1>1, <2>2, <3>1, <3>2 DEF Walk, Held
    <2>3. QED
        BY <2>1, <2>2
<1>7. ASSUME NEW g \in Flight, g # f PROVE Newest(g)'
    <2>1. next \in Others(g) /\ Others(g)' \subseteq Others(g) \cup {next}
        BY <1>1, <1>2, <1>7 DEF Others, Everywhere
    <2>2. QED
        BY <1>1, <1>2, <1>7, <2>1 DEF Recovery, Rotations, Newest, Current
<1>8. Newest(f)'
    BY <1>5 DEF Newest
<1>9. ASSUME NEW g \in Flight PROVE Apart(g)'
    BY <1>1, <1>2, <1>3 DEF Recovery, Rotations, Apart, Current
<1>10. Lives'
    BY <1>1, <1>3, <1>4 DEF Lives, Current
<1>11. ASSUME NEW a \in Account PROVE Keeps(a)'
    <2>1. \A g \in Flight : Saves(fl[g]) => Saves(fl'[g]) /\ fl'[g].next = fl[g].next
        BY <1>2, <1>5
    <2>2. QED
        BY <1>1, <2>1 DEF Recovery, Rotations, Keeps, Current
<1>12. QED
    BY <1>6, <1>7, <1>8, <1>9, <1>10, <1>11 DEF Rotations

LEMMA SaveWriteRotations ==
    ASSUME Recovery, NEW f \in Flight, SaveWrite(f) PROVE Rotations'
<1> DEFINE next == fl[f].next
           a == AcctOf[f]
<1>1. /\ IInv /\ fl[f].pc = "write" /\ server' = server /\ live' = live /\ a \in Account
      /\ vault' = [vault EXCEPT ![a] = next] /\ vault \in [Account -> MaybeCred]
      /\ Walk(f, fl[f], Held(f), live)
      /\ \/ fl[f].then = "vault" /\ Advances(f, "hand")
         \/ fl[f].then # "vault" /\ Ends(f, next)
    BY SaveWriteTurns, WalkOf, CredentialAssumption DEF Recovery, IInv, Typed, TypeOK
<1>2. /\ \A g \in Flight \ {f} : fl'[g] = fl[g]
      /\ {fl'[f].stored, fl'[f].sent, fl'[f].next} \subseteq {fl[f].stored, fl[f].sent, next, NoCred}
      /\ ~Mirrors(fl[f]) /\ ~Mirrors(fl'[f]) /\ ~Saves(fl'[f])
    BY <1>1 DEF Advances, Turns, Ends, Mirrors, Saves
<1>3. /\ next \in Copies /\ next # NoCred /\ next.lin \in {InitVault[a], InitLive}
      /\ (next.lin # InitLive => Saves(fl[f]) /\ ~fl[f].probe /\ Current(next))
    <2>1. next \in Copies /\ next # NoCred
        BY <1>1, SoundFlight, CopiesOf DEF Struct, IInv
    <2>2. fl[f].then # "vault" => next.lin = InitLive
        BY <1>1 DEF Walk, Lineages
    <2>3. ASSUME fl[f].then = "vault"
          PROVE  Saves(fl[f]) /\ ~fl[f].probe /\ next.lin \in {InitVault[a], InitLive}
        BY <1>1, <2>3 DEF Walk, Lineages, Probing, Saves
    <2>4. next.lin # InitLive /\ Saves(fl[f]) => Current(next)
        BY DEF Recovery, Rotations, Apart
    <2>5. QED
        BY <2>1, <2>2, <2>3, <2>4
<1>4. vault'[a] = next /\ \A b \in Account \ {a} : vault'[b] = vault[b]
    BY <1>1
<1>5. ASSUME NEW g \in Flight, g # f PROVE Walk(g, fl[g], Held(g), live)'
    <2>1. Walk(g, fl[g], Held(g), live) /\ AcctOf[g] \in Account
        BY <1>5, CredentialAssumption DEF Recovery, Rotations
    <2>2. CASE AcctOf[g] # a
        BY <1>1, <1>2, <1>4, <1>5, <2>1, <2>2 DEF Walk, Held
    <2>3. CASE AcctOf[g] = a
        <3>1. ASSUME fl[g].pc \in {"live", "load"}, next.lin # InitLive PROVE FALSE
            <4>1. ~fl[g].probe /\ fl[g].pc \in Inside /\ fl[f].pc \in Inside
                BY <1>1, <2>1, <3>1 DEF Walk, Probing, Inside
            <4>2. QED
                BY <1>3, <1>5, <2>3, <3>1, <4>1, OneInside DEF Recovery, Undisturbed
        <3>2. Based(fl[g], next)
            BY <2>1, <3>1 DEF Walk, Based
        <3>3. QED
            BY <1>1, <1>2, <1>4, <1>5, <2>1, <2>3, <3>2 DEF Walk, Held
    <2>4. QED
        BY <2>2, <2>3
<1>6. Walk(f, fl[f], Held(f), live)'
    <2>1. CASE Ends(f, next)
        BY <2>1 DEF Ends, Walk, Probing, Lineages, Based, Behind, Saves, Mirrors
    <2>2. CASE fl[f].then = "vault" /\ Advances(f, "hand")
        <3>1. /\ fl'[f].pc = "hand" /\ fl'[f].next = next /\ fl'[f].stored = fl[f].stored
              /\ fl'[f].sent = fl[f].sent /\ fl'[f].then = "vault" /\ fl'[f].probe = fl[f].probe
            BY <2>2 DEF Advances, Turns
        <3>2. Probing(fl'[f]) /\ Lineages(a, fl'[f]) /\ Behind(fl'[f], live)
            BY <1>1, <2>2, <3>1 DEF Walk, Probing, Lineages, Behind, Saves, Mirrors
        <3>3. Based(fl'[f], next)
            BY <1>1, <2>2, <3>1 DEF Walk, Based, Saves
        <3>4. QED
            BY <1>1, <1>4, <3>2, <3>3 DEF Walk, Held
    <2>3. QED
        BY <1>1, <2>1, <2>2
<1>7. ASSUME NEW g \in Flight PROVE Newest(g)'
    <2>1. CASE g = f
        BY <1>2, <2>1 DEF Newest
    <2>2. CASE g # f
        <3>1. \A c \in Others(g)' : c \in Others(g) \cup {NoCred}
            <4>1. \A b \in Account : vault'[b] \in Others(g)
                BY <1>1, <1>4, <2>2, OthersOf
            <4>2. {fl'[f].stored, fl'[f].sent, fl'[f].next} \subseteq Others(g) \cup {NoCred}
                BY <1>1, <1>2, <2>2, OthersOf
            <4>3. QED
                BY <1>1, <1>2, <2>2, <4>1, <4>2 DEF Others, Everywhere
        <3>2. Mirrors(fl[g]) => fl[g].next.lin # None
            BY SoundFlight, CopiesOf, CredOf DEF Recovery, IInv, Struct, Mirrors
        <3>3. QED
            BY <1>1, <1>2, <2>2, <3>1, <3>2, NewestStays
    <2>3. QED
        BY <2>1, <2>2
<1>8. ASSUME NEW g \in Flight PROVE Apart(g)'
    BY <1>1, <1>2 DEF Recovery, Rotations, Apart, Current
<1>9. Lives'
    BY <1>1, <1>2 DEF Recovery, Rotations, Lives, Current
<1>10. ASSUME NEW b \in Account PROVE Keeps(b)'
    <2>1. CASE b = a
        BY <1>1, <1>3, <1>4, <2>1 DEF Keeps, Current
    <2>2. CASE b # a
        <3>1. \A g \in Flight : AcctOf[g] = b => fl'[g] = fl[g]
            BY <1>2, <2>2
        <3>2. QED
            BY <1>1, <1>4, <2>2, <3>1 DEF Keeps, Recovery, Rotations, Current
    <2>3. QED
        BY <2>1, <2>2
<1>11. QED
    BY <1>5, <1>6, <1>7, <1>8, <1>9, <1>10 DEF Rotations

LEMMA ClaudeRefreshRotations == ASSUME Recovery, ClaudeRefresh PROVE Rotations'
<1>1. PICK rotates \in BOOLEAN :
          LET new == Grant(live, rotates)
          IN /\ server' = [server EXCEPT ![new.lin] = [rt |-> new.rt, at |-> new.at]] /\ live' = new
    BY DEF ClaudeRefresh
<1> DEFINE new == Grant(live, rotates)
<1>2. /\ IInv /\ live # NoCred /\ Honours(live) /\ vault' = vault /\ fl' = fl /\ live' = new
      /\ live \in Copies /\ live.lin = InitLive
    <2>1. live # NoCred /\ Honours(live) /\ vault' = vault /\ fl' = fl
        BY DEF ClaudeRefresh, disk
    <2>2. IInv /\ live \in Copies /\ live.lin = InitLive
        BY DEF Recovery, Rotations, Lives, Copies, Everywhere
    <2>3. QED
        BY <1>1, <2>1, <2>2
<1>3. /\ new.lin = InitLive /\ Current(live) /\ live.rt \in Nat /\ new.rt \in Nat /\ live.rt <= new.rt
      /\ server'[InitLive].rt = new.rt /\ InitLive \in Lineage /\ new # NoCred
      /\ \A m \in Lineage : m # InitLive => server'[m] = server[m]
      /\ \A d \in Copies \ {NoCred} : d.lin # InitLive => server'[d.lin] = server[d.lin]
    <2>1. new.lin = live.lin
        BY DEF Grant
    <2>2. server' = [server EXCEPT ![live.lin] = [rt |-> new.rt, at |-> new.at]]
        BY <1>1, <2>1
    <2>3. InitLive \in Lineage /\ InitLive # None
        BY <1>2, CredOf
    <2>4. /\ Current(live) /\ live.rt \in Nat /\ new.rt = IF rotates THEN live.rt + 1 ELSE live.rt
          /\ server'[InitLive].rt = new.rt
          /\ \A m \in Lineage : m # InitLive => server'[m] = server[m]
          /\ \A d \in Copies \ {NoCred} : d.lin # InitLive => server'[d.lin] = server[d.lin]
        BY <1>2, <2>2, GrantNumbers
    <2>5. new # NoCred
        BY <1>2, <2>1, <2>3 DEF NoCred
    <2>6. QED
        BY <1>2, <2>1, <2>3, <2>4, <2>5
<1> HIDE DEF new
<1>4. ASSUME NEW g \in Flight, Mirrors(fl[g]) PROVE fl[g].next.lin # InitLive
    BY <1>2, <1>3, <1>4, CurrentUnmirrored, OthersOf
<1>5. ASSUME NEW g \in Flight PROVE Walk(g, fl[g], Held(g), live)'
    <2>1. Walk(g, fl[g], Held(g), live) /\ fl[g].sent.rt \in Nat /\ fl[g].next.rt \in Nat
        BY <1>2, CopiesOf, RtIsNat DEF Recovery, Rotations, IInv
    <2>2. Behind(fl[g], new)
        BY <1>3, <2>1 DEF Walk, Behind
    <2>3. QED
        BY <1>2, <2>1, <2>2 DEF Walk, Held
<1>6. ASSUME NEW g \in Flight PROVE Newest(g)'
    <2>1. \A c \in Others(g)' : c \in Others(g) \/ c = new
        BY <1>2 DEF Others, Everywhere
    <2>2. QED
        BY <1>2, <1>3, <1>4, <2>1, NewestStays
<1>7. ASSUME NEW g \in Flight PROVE Apart(g)'
    <2>1. fl[g].next \in Copies
        BY <1>2, CopiesOf DEF IInv
    <2>2. QED
        BY <1>2, <1>3, <2>1 DEF Recovery, Rotations, Apart, Current
<1>8. Lives'
    BY <1>2, <1>3 DEF Lives, Current
<1>9. ASSUME NEW a \in Account PROVE Keeps(a)'
    <2>1. vault[a] \in Copies
        BY DEF Copies, Everywhere
    <2>2. QED
        BY <1>2, <1>3, <2>1 DEF Recovery, Rotations, Keeps, Current
<1>10. QED
    BY <1>5, <1>6, <1>7, <1>8, <1>9 DEF Rotations

\* A flight that is killed was neither mirroring nor saving.
LEMMA KilledKeeps ==
    ASSUME Recovery, UNCHANGED <<server, vault, live>>,
           \A f \in Flight : fl'[f] = fl[f] \/ (fl'[f] = Idle /\ ~Mirrors(fl[f]) /\ ~Saves(fl[f]))
    PROVE  Rotations'
<1>1. /\ Idle.pc = "idle" /\ Idle.probe = FALSE /\ Idle.stored = NoCred /\ Idle.sent = NoCred
      /\ Idle.next = NoCred
    BY DEF Idle
<1>2. ASSUME NEW f \in Flight PROVE Walk(f, fl[f], Held(f), live)'
    <2>1. CASE fl'[f] = fl[f]
        BY <2>1 DEF Recovery, Rotations, Walk, Held
    <2>2. CASE fl'[f] = Idle
        BY <1>1, <2>2 DEF Walk, Probing, Lineages, Based, Behind, Saves, Mirrors
    <2>3. QED
        BY <2>1, <2>2
<1>3. ASSUME NEW f \in Flight PROVE (Mirrors(fl'[f]) \/ Saves(fl'[f]) \/ Mirrors(fl[f]) \/ Saves(fl[f])) => fl'[f] = fl[f]
    BY <1>1 DEF Mirrors, Saves
<1>4. ASSUME NEW f \in Flight, Mirrors(fl'[f]) PROVE Newest(f)'
    <2>1. fl'[f] = fl[f]
        BY <1>3, <1>4
    <2>2. \A c \in Others(f)' : c \in Others(f) \cup {NoCred}
        BY <1>1, <2>1 DEF Others, Everywhere
    <2>3. Mirrors(fl[f]) => fl[f].next.lin # None
        BY SoundFlight, CopiesOf, CredOf DEF Recovery, IInv, Struct, Mirrors
    <2>4. QED
        BY <2>1, <2>2, <2>3, NewestStays
<1>5. ASSUME NEW f \in Flight PROVE Apart(f)'
    BY <1>3 DEF Recovery, Rotations, Apart, Current
<1>6. Lives' /\ \A a \in Account : Keeps(a)'
    BY <1>3 DEF Recovery, Rotations, Lives, Keeps, Current
<1>7. QED
    BY <1>2, <1>4, <1>5, <1>6 DEF Rotations, Newest

LEMMA RotationsStep == Recovery /\ [Next]_vars => Rotations'
<1> SUFFICES ASSUME Recovery, [Next]_vars PROVE Rotations'
    OBVIOUS
<1>1. ASSUME NEW f \in Flight, Begin(f) \/ Progress(f) PROVE Rotations'
    <2>1. CASE Inward(f) /\ ~MirrorWrite(f)
        BY <2>1, InwardSilent, SilentKeeps
    <2>2. CASE MirrorWrite(f)
        BY <2>2, MirrorWriteRotations
    <2>3. CASE Granted(f)
        BY <2>3, GrantedRotations
    <2>4. CASE SaveWrite(f)
        BY <2>4, SaveWriteRotations
    <2>5. CASE Reclaim(f)
        BY <2>5, KilledKeeps DEF Reclaim, disk
    <2>6. ~(ImportSave(f) \/ RenameSave(f) \/ Remove(f))
        BY ManageKeeps, WalkOf DEF Recovery, Works
    <2>7. QED
        BY <1>1, <2>1, <2>2, <2>3, <2>4, <2>5, <2>6, ActsOfFlight
<1>2. ASSUME NEW p \in Process, Crash(p) PROVE Rotations'
    <2>1. UNCHANGED <<server, vault, live>>
        BY <1>2 DEF Crash, disk
    <2>2. ASSUME NEW f \in Flight
          PROVE  fl'[f] = fl[f] \/ (fl'[f] = Idle /\ ~Mirrors(fl[f]) /\ ~Saves(fl[f]))
        BY <1>2 DEF Crash, Mirrors, Saves, Recovery, Undisturbed
    <2>3. QED
        BY <2>1, <2>2, KilledKeeps
<1>3. CASE UNCHANGED <<server, vault, live, fl>>
    BY <1>3, KilledKeeps
<1>4. CASE ClaudeRefresh
    BY <1>4, ClaudeRefreshRotations
<1>5. ASSUME NEW l \in Lineage PROVE ~ClaudeLogin(l)
    BY DEF ClaudeLogin, Recovery, Undisturbed
<1>6. QED
    BY <1>1, <1>2, <1>3, <1>4, <1>5 DEF Next, Lapse, vars, disk

LEMMA InitRotations == Init /\ Undisturbed => Rotations
<1> SUFFICES ASSUME Init, Undisturbed PROVE Rotations
    OBVIOUS
<1>1. /\ Idle.pc = "idle" /\ Idle.probe = FALSE /\ \A f \in Flight : fl[f] = Idle
    BY DEF Idle, Init
<1>2. \A f \in Flight : Walk(f, fl[f], Held(f), live) /\ Newest(f) /\ Apart(f)
    BY <1>1 DEF Walk, Probing, Lineages, Based, Behind, Newest, Apart, Saves, Mirrors
<1>3. live = First(InitLive) /\ \A a \in Account : vault[a] = First(InitVault[a])
    BY DEF Init
<1>4. ASSUME NEW l \in Lineage \cup {None}, InUse(l)
      PROVE  First(l).lin = l /\ (First(l) # NoCred => Current(First(l)))
    BY <1>4, CredentialAssumption DEF First, NoCred, Current, Init, InUse
<1>5. InUse(InitLive) /\ InitLive \in Lineage \cup {None}
    BY CredentialAssumption DEF InUse
<1>6. \A a \in Account : InUse(InitVault[a]) /\ InitVault[a] \in Lineage \cup {None}
    BY CredentialAssumption DEF InUse
<1>7. Lives
    BY <1>3, <1>4, <1>5 DEF Lives
<1>8. \A a \in Account : Keeps(a)
    BY <1>3, <1>4, <1>6 DEF Keeps
<1>9. QED
    BY <1>2, <1>7, <1>8 DEF Rotations

LEMMA RotationsHold == Undisturbed /\ Spec => []Recovery
<1>1. Init /\ IInv /\ Undisturbed => Recovery
    BY InitRotations DEF Recovery
<1>2. Recovery /\ IInv' /\ [Next]_vars => Recovery'
    <2>1. Undisturbed => Undisturbed'
        BY DEF Undisturbed, Works
    <2>2. QED
        BY <2>1, RotationsStep DEF Recovery
<1>3. QED
    BY <1>1, <1>2, Invariance, PTL DEF Spec

LEMMA CurrentIsSomewhere == Recovery => RotationNeverLost
<1> SUFFICES ASSUME Recovery, NEW c \in Everywhere \ {NoCred}
             PROVE  \E d \in Everywhere \cup UNION {CarriedBy(f) : f \in Flight} :
                        d.lin = c.lin /\ Current(d)
    BY DEF RotationNeverLost
<1>1. ASSUME NEW f \in Flight, Mirrors(fl[f]) \/ Saves(fl[f]), Current(fl[f].next), fl[f].next.lin = c.lin
      PROVE  \E d \in Everywhere \cup UNION {CarriedBy(g) : g \in Flight} : d.lin = c.lin /\ Current(d)
    <2>1. fl[f].next \in CarriedBy(f)
        BY <1>1 DEF CarriedBy, Mirrors, Saves
    <2>2. QED
        BY <1>1, <2>1
<1>2. CASE c.lin = InitLive
    <2>1. live # NoCred /\ live.lin = InitLive
        <3>1. c.lin # None
            BY CredOf DEF Recovery, Copies
        <3>2. QED
            BY <1>2, <3>1 DEF Recovery, Rotations, Lives, NoCred
    <2>2. CASE Current(live)
        BY <1>2, <2>1, <2>2 DEF Everywhere
    <2>3. CASE \E g \in Flight : Mirrors(fl[g]) /\ SameRefresh(live, fl[g].sent)
        <3>1. PICK g \in Flight : Mirrors(fl[g]) /\ SameRefresh(live, fl[g].sent)
            BY <2>3
        <3>2. Current(fl[g].next) /\ fl[g].next.lin = c.lin
            BY <1>2, <2>1, <3>1 DEF SameRefresh, Recovery, Rotations, Newest, Walk, Lineages
        <3>3. QED
            BY <1>1, <3>1, <3>2
    <2>4. QED
        BY <2>1, <2>2, <2>3 DEF Recovery, Rotations, Lives
<1>3. CASE c.lin # InitLive
    <2>1. PICK a \in Account : c = vault[a]
        BY <1>3 DEF Everywhere, Recovery, Rotations, Lives
    <2>2. CASE Current(vault[a])
        BY <2>1, <2>2
    <2>3. CASE \E g \in Flight : AcctOf[g] = a /\ Saves(fl[g]) /\ fl[g].next.lin = vault[a].lin
        BY <1>1, <1>3, <2>1, <2>3 DEF Recovery, Rotations, Apart
    <2>4. QED
        BY <1>3, <2>1, <2>2, <2>3 DEF Recovery, Rotations, Keeps
<1>4. QED
    BY <1>2, <1>3

\* Asks and recoveries under the lock never lose a rotation (ensureFreshCredential, resync and mirror in
\* packages/core/src/subscriptionService.ts and adapters/src/subscriptions): while a token of a lineage is
\* in the vault or in Claude's store, its current token is there too, or on its way in a flight's hands.
THEOREM LosesNoRotation == Undisturbed /\ Spec => []RotationNeverLost
BY RotationsHold, CurrentIsSomewhere, PTL

\* Nor do they log Claude Code out: its store holds the current token of its login when nothing is in
\* flight (mirrorRotatedCredential in liveMirror.ts).
THEOREM KeepsClaudeLoggedIn == Undisturbed /\ Spec => []ClaudeStaysLoggedIn
<1>1. Recovery => ClaudeStaysLoggedIn
    BY DEF Recovery, Rotations, Lives, ClaudeStaysLoggedIn, Quiet, Busy, Mirrors
<1>2. QED
    BY <1>1, RotationsHold, PTL
=============================================================================

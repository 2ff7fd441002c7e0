------------------------- MODULE ProxyRequestProofs -------------------------
(***************************************************************************)
(* The traffic record of every request and the failover over the accounts, *)
(* for every set of accounts and requests, every vault order and every     *)
(* choice of what may fail.                                                *)
(***************************************************************************)
EXTENDS ProxyRequest, OrderLemmas

\* The accounts a request has noted, and the first n it was to try.
Noted(q) == {q.attempts[n].account : n \in DOMAIN q.attempts}
UpTo(q, n) == {q.ids[m] : m \in 1..n}

Distinct(ids) == \A m, n \in DOMAIN ids : ids[m] = ids[n] => m = n

\* The attempts end with k refusals of account a, which was not noted before.
Refusals(q, a, k) ==
    /\ k <= Len(q.attempts)
    /\ \A n \in DOMAIN q.attempts :
        IF n > Len(q.attempts) - k THEN q.attempts[n] = [account |-> a, status |-> "unauthorized"]
        ELSE q.attempts[n].account # a

\* The strengthened invariant, request by request: what holds at the control
\* points, and what the entry says at the end.
Fresh(q) ==
    q.pc \in {"new", "profile", "bound", "list", "keyWait"} =>
        /\ q.ids = <<>> /\ q.attempts = <<>>
        /\ q.sends = IF q.pc = "keyWait" THEN 1 ELSE 0
        /\ q.pc = "keyWait" => q.binding = "key"
        /\ q.pc = "list" => q.binding # "key"

Silent(q) ==
    /\ q.pc # "done" => q.log = <<>>
    /\ q.pc \notin {"pipe", "done"} => q.wire = None /\ ~q.whole
    /\ q.pc = "pipe" => q.answer \in Status /\ q.wire = q.answer /\ ~q.whole

InLoop(q) ==
    q.pc \in Trying =>
        /\ q.i \in 1..Len(q.ids) /\ Distinct(q.ids) /\ q.binding # "key"
        /\ q.sends = CASE q.pc = "token" -> 0 [] q.pc = "retry" -> 2 [] OTHER -> 1
        /\ q.pc \in {"token", "wait"} => Noted(q) = UpTo(q, q.i - 1)
        /\ q.pc \in {"recover", "retry"} =>
                Noted(q) = UpTo(q, q.i) /\ Refusals(q, q.ids[q.i], 1)

Piping(q) ==
    q.pc = "pipe" /\ q.binding # "key" =>
        /\ q.i \in 1..Len(q.ids)
        /\ q.answer = "limited" => Noted(q) = ToSet(q.ids)
        /\ q.answer = "unauthorized" => Refusals(q, q.ids[q.i], 2)

\* What an entry with this status and account must mean for its request.
Tells(q, status, account) ==
    /\ status = "499" => q.aborted /\ ~q.whole
    /\ status \in Status => q.aborted \/ (q.wire = status /\ q.whole)
    /\ status = "502" /\ account \in Account => q.wire = q.answer /\ ~q.whole
    /\ \/ status = "limited" /\ q.binding # "key"
       \/ status = "502" /\ account = None
       => ToSet(q.ids) = Noted(q)
    /\ status = "unauthorized" /\ account \in Account => Refusals(q, account, 2)

Ended(q) ==
    q.pc = "done" =>
        /\ Len(q.log) <= 1
        /\ q.log = <<>> => q.wire = IF q.aborted THEN None ELSE "500"
        /\ q.log # <<>> => Tells(q, q.log[1].status, q.log[1].account)

\* Where an exception can leave the handler.
Thrown(q) ==
    q.pc = "done" /\ q.log = <<>> =>
        \/ ListFails /\ q.binding = "any" /\ q.ids = <<>>
        \/ /\ SavesFail \/ VaultMoves
           /\ q.attempts # <<>> /\ Last(q.attempts).status = "unauthorized"

Sound(q) ==
    /\ q \in Slot /\ q.sends <= 2 /\ Fresh(q) /\ Silent(q) /\ InLoop(q) /\ Piping(q) /\ Ended(q) /\ Thrown(q)

\* While nobody removes accounts, what a request tries is in the vault.
Held(q) ==
    /\ q.pc = "list" /\ q.binding \in Account => q.binding \in stored
    /\ q.pc \in Trying => ToSet(q.ids) \subseteq stored

Good(q) == Sound(q) /\ (~VaultMoves => Held(q))

IInv ==
    /\ stored \subseteq Account
    /\ active \in Account \cup {None}
    /\ cool \in [Account -> 0..MaxCool]
    /\ req \in [Request -> Slot]
    /\ \A r \in Request : Good(req[r])
-----------------------------------------------------------------------------
(* What the verbs of the handler make of a sound slot *)

\* One entry that tells the truth ends a request soundly.
LEMMA TraceIsSound ==
    ASSUME NEW q \in Slot, q.log = <<>>, q.sends <= 2,
           NEW status \in Status \cup Own, NEW who \in Account \cup {"key", None},
           Tells(q, status, who)
    PROVE  Good(Trace(q, status, who))
<1> DEFINE t == Trace(q, status, who)
           e == [status |-> status, account |-> who]
<1>1. e \in Entry
    BY DEF Entry
<1>2. t = [q EXCEPT !.pc = "done", !.log = Append(q.log, e)]
    BY DEF Trace, Slot
<1>3. Append(q.log, e) = <<e>> /\ <<e>> \in Seq(Entry)
    <2> HIDE DEF e
    <2> QED BY <1>1
<1>4. t \in Slot
    <2>1. ASSUME NEW log \in Seq(Entry) PROVE [q EXCEPT !.pc = "done", !.log = log] \in Slot
        BY DEF Slot, PC
    <2>2. QED
        BY <1>2, <1>3, <2>1
<1>5. /\ t.pc = "done" /\ t.log = <<e>> /\ t.sends = q.sends
      /\ t.attempts = q.attempts /\ t.ids = q.ids /\ t.aborted = q.aborted
      /\ t.wire = q.wire /\ t.whole = q.whole /\ t.answer = q.answer /\ t.binding = q.binding
    BY <1>2, <1>3 DEF Slot
<1> HIDE DEF t
<1>6. Tells(t, status, who)
    BY <1>5 DEF Tells, Noted, Refusals
<1>7. Ended(t) /\ Thrown(t)
    BY <1>5, <1>6 DEF Ended, Thrown
<1>8. QED
    BY <1>4, <1>5, <1>7 DEF Good, Sound, Held, Fresh, Silent, InLoop, Piping, Trying, t

\* Fields of a slot after an attempt was noted.
LEMMA NoteProperties ==
    ASSUME NEW q \in Slot, Payer(q) \in Account \cup {"key"}, NEW what \in Status \cup Skipped
    PROVE  /\ Note(q, what) \in Slot
           /\ Note(q, what) = [q EXCEPT !.attempts = Note(q, what).attempts]
           /\ Len(Note(q, what).attempts) = Len(q.attempts) + 1
           /\ \A n \in 1..Len(q.attempts) : Note(q, what).attempts[n] = q.attempts[n]
           /\ Note(q, what).attempts[Len(q.attempts) + 1] = [account |-> Payer(q), status |-> what]
           /\ Noted(Note(q, what)) = Noted(q) \cup {Payer(q)}
<1> DEFINE T == [account : Account \cup {"key"}, status : Status \cup Skipped]
           e == [account |-> Payer(q), status |-> what]
           s == Append(q.attempts, e)
<1>1. e \in T /\ q.attempts \in Seq(T)
    BY DEF Slot
<1>2. /\ s \in Seq(T) /\ Len(s) = Len(q.attempts) + 1
      /\ \A n \in 1..Len(q.attempts) : s[n] = q.attempts[n]
      /\ s[Len(q.attempts) + 1] = e
    <2> HIDE DEF e, T
    <2> QED BY <1>1
<1>3. Note(q, what) = [q EXCEPT !.attempts = s]
    BY DEF Note, Slot
<1>4. Note(q, what) \in Slot /\ Note(q, what).attempts = s
    <2>1. ASSUME NEW t \in Seq(T)
          PROVE  [q EXCEPT !.attempts = t] \in Slot /\ [q EXCEPT !.attempts = t].attempts = t
        BY DEF Slot
    <2>2. QED
        BY <1>2, <1>3, <2>1
<1>5. Noted(Note(q, what)) = Noted(q) \cup {Payer(q)}
    <2>1. DOMAIN s = 1..(Len(q.attempts) + 1) /\ DOMAIN q.attempts = 1..Len(q.attempts)
        <3> HIDE DEF e, T
        <3> QED BY <1>1, <1>2
    <2>2. Len(q.attempts) \in Nat /\ e.account = Payer(q)
        BY <1>1
    <2> HIDE DEF s, e
    <2>3. \A n \in DOMAIN s : s[n].account \in Noted(q) \cup {Payer(q)}
        BY <1>2, <2>1, <2>2 DEF Noted
    <2>4. \A n \in DOMAIN q.attempts : n \in DOMAIN s /\ s[n].account = q.attempts[n].account
        BY <1>2, <2>1, <2>2
    <2>5. Len(q.attempts) + 1 \in DOMAIN s /\ s[Len(q.attempts) + 1].account = Payer(q)
        BY <1>2, <2>1, <2>2
    <2>6. QED
        BY <1>4, <2>3, <2>4, <2>5 DEF Noted
<1>6. QED
    BY <1>2, <1>3, <1>4, <1>5

\* The proxy's own answers, given before anything was sent to the client.
LEMMA OwnAnswerIsSound ==
    ASSUME NEW q \in Slot, q.log = <<>>, q.sends <= 2, ~q.whole,
           NEW status \in (Own \ {"499"}) \cup {"limited"}, NEW who \in {"key", None},
           \/ status = "limited" /\ q.binding # "key"
           \/ status = "502" /\ who = None
           => ToSet(q.ids) = Noted(q)
    PROVE  Good(OwnAnswer(q, status, who))
<1> DEFINE t == Say(q, status)
<1>1. /\ t \in Slot /\ t.log = <<>> /\ t.sends = q.sends
      /\ t.wire = (IF q.aborted THEN None ELSE status) /\ t.whole = ~q.aborted
      /\ t.aborted = q.aborted /\ t.ids = q.ids /\ t.attempts = q.attempts
      /\ t.binding = q.binding
    BY DEF Say, Slot, Own, Status
<1>2. "key" \notin Account /\ None \notin Account
    BY ProxyAssumption DEF Words
<1>3. Tells(t, status, who)
    BY <1>1, <1>2 DEF Tells, Noted, Own, Status
<1>4. Good(Trace(t, status, who))
    BY <1>1, <1>3, TraceIsSound DEF Own, Status
<1>5. QED
    BY <1>4 DEF OwnAnswer

\* 499 for a client that left.
LEMMA TraceAbortedIsSound ==
    ASSUME NEW q \in Slot, q.log = <<>>, q.sends <= 2, q.aborted, ~q.whole,
           NEW who \in Account \cup {"key", None}
    PROVE  Good(TraceAborted(q, who))
<1>1. Tells(q, "499", who)
    BY DEF Tells, Status
<1>2. QED
    BY <1>1, TraceIsSound DEF TraceAborted, Own

\* The next candidate, or the end of the list with every candidate noted.
LEMMA ContinueIsSound ==
    ASSUME NEW q \in Slot, q.log = <<>>, q.sends <= 2, q.wire = None, ~q.whole,
           q.i \in 1..Len(q.ids), Distinct(q.ids), q.binding # "key", Noted(q) = UpTo(q, q.i),
           ~VaultMoves => ToSet(q.ids) \subseteq stored
    PROVE  Good(Continue(q))
<1>1. CASE q.i < Len(q.ids)
    <2> DEFINE t == [q EXCEPT !.i = q.i + 1, !.sends = 0, !.pc = "token"]
    <2>1. Continue(q) = t
        BY <1>1 DEF Continue, Slot
    <2>2. /\ t \in Slot /\ t.i = q.i + 1 /\ t.sends = 0 /\ t.pc = "token" /\ t.ids = q.ids
          /\ t.attempts = q.attempts /\ t.log = <<>> /\ t.wire = None /\ ~t.whole
          /\ t.binding = q.binding
        <3>1. q.i + 1 \in Nat
            BY DEF Slot
        <3>2. ASSUME NEW n \in Nat
              PROVE  [q EXCEPT !.i = n, !.sends = 0, !.pc = "token"] \in Slot
            BY DEF Slot, PC
        <3>3. t \in Slot
            BY <3>1, <3>2
        <3>4. QED
            BY <3>3 DEF Slot
    <2>3. t.i \in 1..Len(t.ids) /\ t.i - 1 = q.i
        BY <1>1, <2>2 DEF Slot
    <2>4. Noted(t) = UpTo(t, t.i - 1)
        BY <2>2, <2>3 DEF Noted, UpTo
    <2> HIDE DEF t
    <2>5. InLoop(t)
        BY <2>2, <2>3, <2>4 DEF InLoop, Trying
    <2>6. Good(t)
        BY <2>2, <2>5 DEF Good, Sound, Held, Fresh, Silent, Piping, Ended, Thrown
    <2>7. QED
        BY <2>1, <2>6
<1>2. CASE ~(q.i < Len(q.ids))
    <2>1. q.i = Len(q.ids) /\ DOMAIN q.ids = 1..Len(q.ids)
        BY <1>2 DEF Slot
    <2>2. ToSet(q.ids) = Noted(q)
        BY <2>1 DEF ToSet, UpTo
    <2>3. CASE q.aborted
        BY <1>2, <2>3, TraceAbortedIsSound DEF Continue, Exhausted
    <2>4. CASE ~q.aborted
        BY <1>2, <2>2, <2>4, OwnAnswerIsSound DEF Continue, Exhausted, Slot, Own
    <2>5. QED
        BY <2>3, <2>4
<1>3. QED
    BY <1>1, <1>2

\* Upstream is called, unless the client left.
LEMMA SendIsSound ==
    ASSUME NEW q \in Slot, q.log = <<>>, q.sends <= 1, q.wire = None, ~q.whole,
           Payer(q) \in Account \cup {"key"}, NEW label \in {"wait", "retry", "keyWait"},
           LET t == [q EXCEPT !.pc = label, !.sends = q.sends + 1]
           IN  Fresh(t) /\ InLoop(t) /\ (~VaultMoves => Held(t))
    PROVE  Good(Send(q, label))
<1>1. CASE q.aborted
    <2>1. q.sends <= 2 /\ Payer(q) \in Account \cup {"key", None}
        BY DEF Slot
    <2>2. QED
        BY <1>1, <2>1, TraceAbortedIsSound DEF Send
<1>2. CASE ~q.aborted
    <2> DEFINE t == [q EXCEPT !.pc = label, !.sends = q.sends + 1]
    <2>1. Send(q, label) = t
        BY <1>2 DEF Send, Slot
    <2>2. t \in Slot
        <3>1. q.sends + 1 \in Nat
            BY DEF Slot
        <3>2. ASSUME NEW n \in Nat
              PROVE  [q EXCEPT !.pc = label, !.sends = n] \in Slot
            BY ZenonT(40) DEF Slot, PC
        <3>3. QED
            BY <3>1, <3>2
    <2>3. t.pc = label /\ t.sends <= 2 /\ t.log = <<>> /\ t.wire = None /\ ~t.whole
        BY DEF Slot
    <2>0. Fresh(t) /\ InLoop(t) /\ (~VaultMoves => Held(t))
        OBVIOUS
    <2> HIDE DEF t
    <2>4. Silent(t) /\ Piping(t) /\ Ended(t) /\ Thrown(t)
        BY <2>3 DEF Silent, Piping, Ended, Thrown
    <2>5. Sound(t)
        BY <2>0, <2>2, <2>3, <2>4 DEF Sound
    <2>6. QED
        BY <2>0, <2>1, <2>5 DEF Good
<1>3. QED
    BY <1>1, <1>2

\* Upstream's answer is passed on: a rate limit only when every candidate is
\* noted then, a refused token only after a first refusal.
LEMMA PipeIsSound ==
    ASSUME NEW q \in Slot, q.log = <<>>, q.sends <= 2, ~q.whole, NEW status \in Status,
           q.binding = "key" \/ q.i \in 1..Len(q.ids),
           Payer(q) \in Account \cup {"key"},
           q.binding # "key" /\ status = "limited" => Noted(q) \cup {Payer(q)} = ToSet(q.ids),
           q.binding # "key" /\ status = "unauthorized" => Refusals(q, q.ids[q.i], 1)
    PROVE  Good(Pipe(q, status))
<1> DEFINE t == Note(q, status)
           p == Pipe(q, status)
<1>1. status \in Status \cup Skipped
    OBVIOUS
<1>2. /\ t \in Slot /\ t = [q EXCEPT !.attempts = t.attempts]
      /\ Len(t.attempts) = Len(q.attempts) + 1
      /\ \A n \in 1..Len(q.attempts) : t.attempts[n] = q.attempts[n]
      /\ t.attempts[Len(q.attempts) + 1] = [account |-> Payer(q), status |-> status]
      /\ Noted(t) = Noted(q) \cup {Payer(q)}
    BY <1>1, NoteProperties
<1>3. p = [t EXCEPT !.pc = "pipe", !.answer = status, !.wire = status]
    BY DEF Pipe
<1> HIDE DEF t, p
<1>4. /\ t.log = <<>> /\ t.sends = q.sends /\ ~t.whole /\ t.binding = q.binding
      /\ t.i = q.i /\ t.ids = q.ids
    BY <1>2 DEF Slot
<1>5. /\ p \in Slot /\ p.pc = "pipe" /\ p.answer = status /\ p.wire = status
      /\ p.log = <<>> /\ p.sends = q.sends /\ ~p.whole /\ p.binding = q.binding
      /\ p.i = q.i /\ p.ids = q.ids /\ p.attempts = t.attempts
    BY <1>2, <1>3, <1>4 DEF Slot, PC
<1>6. ASSUME q.binding # "key", status = "unauthorized" PROVE Refusals(p, q.ids[q.i], 2)
    <2>1. Payer(q) = q.ids[q.i] /\ Refusals(q, q.ids[q.i], 1)
        BY <1>6 DEF Payer
    <2>2. /\ Len(q.attempts) \in Nat /\ DOMAIN q.attempts = 1..Len(q.attempts)
          /\ DOMAIN t.attempts = 1..(Len(q.attempts) + 1)
        BY <1>2 DEF Slot
    <2> DEFINE a == q.ids[q.i]
           x == [account |-> a, status |-> "unauthorized"]
    <2>4. /\ 1 <= Len(q.attempts)
          /\ \A n \in 1..Len(q.attempts) :
                IF n > Len(q.attempts) - 1 THEN q.attempts[n] = x ELSE q.attempts[n].account # a
        BY <2>1, <2>2 DEF Refusals
    <2>5. t.attempts[Len(q.attempts) + 1] = x
        BY <1>2, <1>6, <2>1
    <2> HIDE DEF a, x
    <2>6. /\ 2 <= Len(t.attempts)
          /\ \A n \in 1..(Len(q.attempts) + 1) :
                IF n > Len(t.attempts) - 2 THEN t.attempts[n] = x ELSE t.attempts[n].account # a
        BY <1>2, <2>2, <2>4, <2>5
    <2>7. QED
        BY <1>5, <2>2, <2>6 DEF Refusals, a, x
<1>7. q.binding # "key" /\ status = "limited" => Noted(p) = ToSet(p.ids)
    BY <1>2, <1>5, SMTT(30) DEF Noted
<1>8. Piping(p) /\ Silent(p)
    BY <1>5, <1>6, <1>7 DEF Piping, Silent
<1>9. Fresh(p) /\ InLoop(p) /\ Ended(p) /\ Thrown(p) /\ Held(p)
    BY <1>5 DEF Fresh, InLoop, Ended, Thrown, Held, Trying
<1>10. QED
    BY <1>5, <1>8, <1>9 DEF Good, Sound, p

-----------------------------------------------------------------------------
(* The steps *)

\* Soundness of a slot does not depend on the rest of the state.
LEMMA SoundLater == ASSUME NEW r, Sound(req'[r]) PROVE Sound(req[r])'
BY DEF Sound, Fresh, Silent, InLoop, Piping, Ended, Thrown, Tells, Noted, Refusals, UpTo

\* One slot changes, soundly, and the vault and the active account do not.
LEMMA SlotChanges ==
    ASSUME IInv, NEW r \in Request, NEW q, Good(q), Becomes(r, q),
           UNCHANGED <<stored, active>>, cool' \in [Account -> 0..MaxCool]
    PROVE  IInv'
<1>1. q \in Slot
    BY DEF Good, Sound
<1>2. req' \in [Request -> Slot]
    BY <1>1 DEF IInv, Becomes
<1>3. ASSUME NEW s \in Request PROVE Good(req[s])'
    <2>1. req'[s] = IF s = r THEN q ELSE req[s]
        BY DEF Becomes, IInv
    <2>2. Sound(req'[s]) /\ (~VaultMoves => Held(req[s])')
        BY <2>1 DEF IInv, Good, Held
    <2>3. QED
        BY <2>2, SoundLater DEF Good
<1>4. QED
    BY <1>2, <1>3 DEF IInv

LEMMA CooldownsBounded == MaxCool \in Nat /\ \A n \in RetryAfter : n \in 0..MaxCool
<1>1. RetryAfter \in SUBSET Nat /\ RetryAfter # {} /\ IsFiniteSet(RetryAfter)
    BY ProxyAssumption
<1>2. \E n \in RetryAfter : \A m \in RetryAfter : m <= n
    BY <1>1, LargestOfFinite
<1>3. MaxCool \in RetryAfter /\ \A m \in RetryAfter : m <= MaxCool
    BY <1>2 DEF MaxCool
<1>4. QED
    BY <1>1, <1>3

\* Before the accounts are listed nothing has happened to a request.
LEMMA EarlyIsGood ==
    ASSUME NEW q \in Slot, q.pc \in {"new", "profile", "bound", "list"},
           q.ids = <<>>, q.attempts = <<>>, q.sends = 0, q.log = <<>>, q.wire = None, ~q.whole,
           q.pc = "list" => q.binding # "key",
           ~VaultMoves /\ q.pc = "list" /\ q.binding \in Account => q.binding \in stored
    PROVE  Good(q)
BY DEF Good, Sound, Held, Fresh, Silent, InLoop, Piping, Ended, Thrown, Trying

LEMMA NewProperties ==
    ASSUME NEW b \in Bindings \cup {None}, NEW pc \in {"new", "profile", "list"}
    PROVE  /\ [New EXCEPT !.binding = b, !.pc = pc] \in Slot
           /\ [New EXCEPT !.binding = b] \in Slot
           /\ New \in Slot
<1>1. <<>> \in Seq(Account) /\ <<>> \in Seq(Entry)
      /\ <<>> \in Seq([account : Account \cup {"key"}, status : Status \cup Skipped])
    OBVIOUS
<1>2. ASSUME NEW s1, NEW s2, NEW s3, s1 \in Seq(Account), s3 \in Seq(Entry),
             s2 \in Seq([account : Account \cup {"key"}, status : Status \cup Skipped])
      PROVE  [pc |-> "new", binding |-> None, ids |-> s1, i |-> 0, last |-> "502",
              answer |-> None, attempts |-> s2, aborted |-> FALSE, wire |-> None,
              whole |-> FALSE, sends |-> 0, log |-> s3] \in Slot
    BY <1>2 DEF Slot, PC
<1>3. New \in Slot
    BY <1>1, <1>2 DEF New
<1>4. QED
    BY <1>3 DEF Slot, PC

LEMMA InitEstablishesIInv == Init => IInv
<1> SUFFICES ASSUME Init PROVE IInv
    OBVIOUS
<1>1. New \in Slot
    BY NewProperties
<1>2. Good(New)
    BY <1>1, EarlyIsGood DEF New
<1>3. cool \in [Account -> 0..MaxCool]
    BY CooldownsBounded DEF Init
<1>4. req \in [Request -> Slot] /\ \A r \in Request : Good(req[r])
    BY <1>1, <1>2 DEF Init
<1>5. QED
    BY <1>3, <1>4 DEF Init, IInv

LEMMA ArriveStep == ASSUME IInv, NEW r \in Request, Arrive(r) PROVE IInv'
<1> DEFINE q(b) == [New EXCEPT !.binding = b]
           p(b, pc) == [New EXCEPT !.binding = b, !.pc = pc]
<1>1. PICK b \in Bindings :
        Becomes(r, CASE b = "nostore" -> OwnAnswer(q(b), "503", None)
                     [] b = "any" -> p(b, "list")
                     [] OTHER -> p(b, "profile"))
    BY DEF Arrive, New
<1>2. /\ q(b) \in Slot /\ q(b).log = <<>> /\ q(b).sends = 0 /\ ~q(b).whole
    BY NewProperties DEF New
<1>3. cool' \in [Account -> 0..MaxCool] /\ UNCHANGED <<stored, active>>
    BY DEF IInv, Arrive
<1>4. ASSUME NEW pc \in {"profile", "list"}, pc = "list" => b = "any" PROVE Good(p(b, pc))
    <2>1. p(b, pc) \in Slot
        BY NewProperties
    <2>2. /\ p(b, pc).pc = pc /\ p(b, pc).ids = <<>> /\ p(b, pc).attempts = <<>>
          /\ p(b, pc).sends = 0 /\ p(b, pc).log = <<>> /\ p(b, pc).wire = None
          /\ ~p(b, pc).whole /\ p(b, pc).binding = b
        BY DEF New
    <2>3. "any" \notin Account
        BY ProxyAssumption DEF Words
    <2> HIDE DEF p
    <2>4. QED
        BY <1>4, <2>1, <2>2, <2>3, EarlyIsGood
<1>5. Good(OwnAnswer(q(b), "503", None))
    <2> HIDE DEF q
    <2>1. QED
        BY <1>2, OwnAnswerIsSound DEF Own
<1> HIDE DEF p, q
<1>6. QED
    BY <1>1, <1>3, <1>4, <1>5, SlotChanges

LEMMA EscapeIsSound ==
    ASSUME NEW q \in Slot, q.log = <<>>, q.sends <= 2, q.wire = None, ~q.whole,
           \/ ListFails /\ q.binding = "any" /\ q.ids = <<>>
           \/ /\ SavesFail \/ VaultMoves
              /\ q.attempts # <<>> /\ Last(q.attempts).status = "unauthorized"
    PROVE  Good(Escape(q))
<1> DEFINE t == Escape(q)
<1>1. /\ t \in Slot /\ t.pc = "done" /\ t.log = <<>> /\ t.sends <= 2
      /\ t.wire = (IF t.aborted THEN None ELSE "500")
      /\ t.binding = q.binding /\ t.ids = q.ids /\ t.attempts = q.attempts
    BY ZenonT(40) DEF Escape, Say, Slot, PC, Own
<1> HIDE DEF t
<1>2. Good(t)
    BY <1>1 DEF Good, Sound, Held, Fresh, Silent, InLoop, Piping, Ended, Thrown, Trying
<1>3. QED
    BY <1>2 DEF t

\* What is known of a request before its accounts are listed.
LEMMA EarlyFacts ==
    ASSUME IInv, NEW r \in Request, req[r].pc \in {"profile", "bound", "list"}
    PROVE  /\ req[r] \in Slot /\ req[r].ids = <<>> /\ req[r].attempts = <<>> /\ req[r].sends = 0
           /\ req[r].log = <<>> /\ req[r].wire = None /\ ~req[r].whole
           /\ req[r].pc = "list" => req[r].binding # "key"
           /\ ~VaultMoves /\ req[r].pc = "list" /\ req[r].binding \in Account
                => req[r].binding \in stored
           /\ \A status \in Own \ {"499", "502"}, who \in {"key", None} :
                Good(OwnAnswer(req[r], status, who))
           /\ \A pc \in {"bound", "list"} :
                LET q == [req[r] EXCEPT !.pc = pc]
                IN  /\ pc = "list" => q.binding # "key"
                    /\ ~VaultMoves /\ pc = "list" /\ q.binding \in Account => q.binding \in stored
                    => Good(q)
<1> DEFINE q == req[r]
<1>1. q \in Slot /\ Good(q)
    BY DEF IInv
<1> HIDE DEF q
<1>2. /\ q.ids = <<>> /\ q.attempts = <<>> /\ q.sends = 0 /\ q.log = <<>> /\ q.wire = None /\ ~q.whole
      /\ q.pc = "list" => q.binding # "key"
      /\ ~VaultMoves /\ q.pc = "list" /\ q.binding \in Account => q.binding \in stored
    BY <1>1 DEF Good, Sound, Held, Fresh, Silent, q
<1>3. ASSUME NEW status \in Own \ {"499", "502"}, NEW who \in {"key", None}
      PROVE  Good(OwnAnswer(q, status, who))
    BY <1>1, <1>2, OwnAnswerIsSound DEF Own
<1>4. ASSUME NEW pc \in {"bound", "list"},
             pc = "list" => q.binding # "key",
             ~VaultMoves /\ pc = "list" /\ q.binding \in Account => q.binding \in stored
      PROVE  Good([q EXCEPT !.pc = pc])
    <2> DEFINE p == [q EXCEPT !.pc = pc]
    <2>1. p \in Slot
        BY <1>1 DEF Slot, PC
    <2>2. /\ p.pc = pc /\ p.ids = <<>> /\ p.attempts = <<>> /\ p.sends = 0 /\ p.log = <<>>
          /\ p.wire = None /\ ~p.whole /\ p.binding = q.binding
        BY <1>1, <1>2 DEF Slot
    <2> HIDE DEF p
    <2>3. Good(p)
        BY <1>4, <2>1, <2>2, EarlyIsGood
    <2>4. QED
        BY <2>3 DEF p
<1>5. q.binding = [q EXCEPT !.pc = "list"].binding /\ q.binding = [q EXCEPT !.pc = "bound"].binding
    BY <1>1 DEF Slot
<1>6. QED
    BY <1>1, <1>2, <1>3, <1>4, <1>5 DEF q

LEMMA LookUpStep ==
    ASSUME IInv, NEW r \in Request, LookUp(r) \/ CheckBound(r)
    PROVE  IInv'
<1> DEFINE q == req[r]
<1>1. q \in Slot /\ q.pc \in {"profile", "bound"} /\ UNCHANGED <<stored, active, cool>>
    BY DEF LookUp, CheckBound, IInv
<1>2. \A status \in Own \ {"499", "502"}, who \in {"key", None} : Good(OwnAnswer(q, status, who))
    BY <1>1, EarlyFacts
<1>3. \A pc \in {"bound", "list"} :
        /\ pc = "list" => q.binding # "key"
        /\ ~VaultMoves /\ pc = "list" /\ q.binding \in Account => q.binding \in stored
        => Good([q EXCEPT !.pc = pc])
    BY <1>1, EarlyFacts DEF Slot
<1>4. "key" \notin Account /\ "plain" \notin Account
    BY ProxyAssumption DEF Words
<1> HIDE DEF q
<1>5. ASSUME NEW p, Good(p), Becomes(r, p) PROVE IInv'
    BY <1>1, <1>5, SlotChanges DEF IInv
<1>6. CASE LookUp(r)
    <2>1. CASE q.binding = "unknown"
        BY <1>2, <1>5, <1>6, <2>1 DEF LookUp, Own, q
    <2>2. CASE q.binding = "plain"
        BY <1>3, <1>4, <1>5, <1>6, <2>2 DEF LookUp, q
    <2>3. CASE q.binding \notin {"unknown", "plain"}
        BY <1>3, <1>5, <1>6, <2>3 DEF LookUp, q
    <2>4. QED
        BY <2>1, <2>2, <2>3
<1>7. CASE CheckBound(r)
    <2>1. CASE q.binding \in stored
        BY <1>3, <1>4, <1>5, <1>7, <2>1 DEF CheckBound, q
    <2>2. CASE q.binding \notin stored
        BY <1>2, <1>5, <1>7, <2>2 DEF CheckBound, Own, q
    <2>3. QED
        BY <2>1, <2>2
<1>8. QED
    BY <1>6, <1>7

LEMMA CheckKeyStep == ASSUME IInv, NEW r \in Request, CheckKey(r) PROVE IInv'
<1> DEFINE q == req[r]
<1>1. q \in Slot /\ q.pc = "bound" /\ q.binding = "key" /\ UNCHANGED <<stored, active, cool>>
    BY DEF CheckKey, IInv
<1>2. /\ \A who \in {None, "key"} : Good(OwnAnswer(q, "500", who))
      /\ q.ids = <<>> /\ q.attempts = <<>> /\ q.sends = 0 /\ q.log = <<>> /\ q.wire = None /\ ~q.whole
    BY <1>1, EarlyFacts DEF Own
<1> HIDE DEF q
<1>3. Good(Send(q, "keyWait"))
    <2> DEFINE t == [q EXCEPT !.pc = "keyWait", !.sends = q.sends + 1]
    <2>1. t.pc = "keyWait" /\ t.sends = 1 /\ t.ids = <<>> /\ t.attempts = <<>> /\ t.binding = "key"
        BY <1>1, <1>2 DEF Slot
    <2>2. Fresh(t) /\ InLoop(t) /\ Held(t)
        <3> HIDE DEF t
        <3> QED BY <2>1 DEF Fresh, InLoop, Held, Trying
    <2>3. q.sends <= 1 /\ Payer(q) \in Account \cup {"key"}
        BY <1>1, <1>2 DEF Payer
    <2>4. QED
        BY <1>1, <1>2, <2>2, <2>3, SendIsSound
<1>4. ASSUME NEW p, Good(p), Becomes(r, p) PROVE IInv'
    BY <1>1, <1>4, SlotChanges DEF IInv
<1>5. QED
    BY <1>2, <1>3, <1>4 DEF CheckKey, q

\* Every list of candidates names accounts, each once, and at first only
\* accounts that are in the vault or bound by the request.
LEMMA ListsOfCandidates ==
    ASSUME stored \subseteq Account, NEW q, NEW ids \in CandidateLists(q)
    PROVE  /\ ids \in Seq(Account) /\ Distinct(ids) /\ DOMAIN ids = 1..Len(ids)
           /\ \A n \in DOMAIN ids : ids[n] \in Offered(q)
<1>1. IsFiniteSet(Account)
    BY ProxyAssumption, ElementsAreFinite
<1>2. Candidates \subseteq stored
    BY DEF Candidates
<1>3. Offered(q) \in SUBSET Account
    BY <1>2 DEF Offered
<1>4. IsFiniteSet(Offered(q))
    BY <1>1, <1>3, FS_Subset
<1>5. ids \in SetToSeqs(Offered(q))
    BY DEF CandidateLists
<1>6. ids \in Seq(Offered(q)) /\ Distinct(ids)
    BY <1>4, <1>5, ListingProperties DEF Distinct
<1>7. ids \in Seq(Account)
    BY <1>3, <1>6
<1>8. QED
    BY <1>6, <1>7

LEMMA ChooseStep == ASSUME IInv, NEW r \in Request, Choose(r) PROVE IInv'
<1> DEFINE q == req[r]
<1>1. q \in Slot /\ q.pc = "list" /\ UNCHANGED <<stored, active, cool>>
    BY DEF Choose, IInv
<1>2. PICK ids \in CandidateLists(q) :
        Becomes(r, IF ids = <<>> THEN OwnAnswer(q, "503", None)
                   ELSE [q EXCEPT !.ids = ids, !.i = 1, !.pc = "token"])
    BY DEF Choose
<1>3. /\ q.ids = <<>> /\ q.attempts = <<>> /\ q.sends = 0 /\ q.log = <<>> /\ q.wire = None /\ ~q.whole
      /\ q.binding # "key" /\ (~VaultMoves /\ q.binding \in Account => q.binding \in stored)
      /\ Good(OwnAnswer(q, "503", None))
    BY <1>1, EarlyFacts DEF Own
<1>4. ids \in Seq(Account) /\ Distinct(ids) /\ \A n \in DOMAIN ids : ids[n] \in Offered(q)
    BY ListsOfCandidates DEF IInv
<1> HIDE DEF q
<1>5. ASSUME ids # <<>> PROVE Good([q EXCEPT !.ids = ids, !.i = 1, !.pc = "token"])
    <2> DEFINE t == [q EXCEPT !.ids = ids, !.i = 1, !.pc = "token"]
    <2>1. t \in Slot
        BY <1>1, <1>4 DEF Slot, PC
    <2>2. /\ t.pc = "token" /\ t.ids = ids /\ t.i = 1 /\ t.attempts = <<>> /\ t.sends = 0
          /\ t.log = <<>> /\ t.wire = None /\ ~t.whole /\ t.binding = q.binding
        BY <1>1, <1>3 DEF Slot
    <2> HIDE DEF t
    <2>3. t.i \in 1..Len(t.ids) /\ Noted(t) = UpTo(t, t.i - 1)
        BY <1>4, <1>5, <2>2 DEF Noted, UpTo
    <2>4. InLoop(t)
        BY <1>3, <1>4, <2>2, <2>3 DEF InLoop
    <2>5. ~VaultMoves => Held(t)
        BY <1>3, <1>4, <2>2 DEF Held, Offered, Candidates, ToSet
    <2>6. Good(t)
        BY <2>1, <2>2, <2>4, <2>5 DEF Good, Sound, Fresh, Silent, Piping, Ended, Thrown
    <2>7. QED
        BY <2>6 DEF t
<1>6. ASSUME NEW p, Good(p), Becomes(r, p) PROVE IInv'
    BY <1>1, <1>6, SlotChanges DEF IInv
<1>7. QED
    BY <1>2, <1>3, <1>5, <1>6

LEMMA ListThrowsStep == ASSUME IInv, NEW r \in Request, ListThrows(r) PROVE IInv'
<1> DEFINE q == req[r]
<1>1. q \in Slot /\ q.pc = "list" /\ ListFails /\ UNCHANGED <<stored, active, cool>>
    BY DEF ListThrows, IInv
<1>2. /\ q.ids = <<>> /\ q.sends = 0 /\ q.log = <<>> /\ q.wire = None /\ ~q.whole
      /\ Good(OwnAnswer(q, "500", None))
    BY <1>1, EarlyFacts DEF Own
<1> HIDE DEF q
<1>3. ASSUME NEW p, Good(p), Becomes(r, p) PROVE IInv'
    BY <1>1, <1>3, SlotChanges DEF IInv
<1>4. CASE q.binding = "any"
    <2>1. Good(Escape(q))
        BY <1>1, <1>2, <1>4, EscapeIsSound
    <2>2. QED
        BY <1>3, <1>4, <2>1 DEF ListThrows, q
<1>5. CASE q.binding # "any"
    BY <1>2, <1>3, <1>5 DEF ListThrows, q
<1>6. QED
    BY <1>4, <1>5

-----------------------------------------------------------------------------
(* The loop over the candidates *)

LEMMA LoopFacts ==
    ASSUME IInv, NEW r \in Request, req[r].pc \in Trying
    PROVE  LET q == req[r]
           IN  /\ q \in Slot /\ q.log = <<>> /\ q.wire = None /\ ~q.whole /\ InLoop(q)
               /\ q.sends <= 2 /\ q.i \in 1..Len(q.ids) /\ Distinct(q.ids) /\ q.binding # "key"
               /\ Payer(q) = q.ids[q.i] /\ Payer(q) \in Account
               /\ Noted(q) \cup {Payer(q)} = UpTo(q, q.i)
               /\ ~VaultMoves => ToSet(q.ids) \subseteq stored
<1> DEFINE q == req[r]
<1>1. q \in Slot /\ Good(q)
    BY DEF IInv
<1>2. q.pc \in Trying
    OBVIOUS
<1> HIDE DEF q
<1>3. /\ q.log = <<>> /\ q.wire = None /\ ~q.whole /\ q.sends <= 2
      /\ q.i \in 1..Len(q.ids) /\ Distinct(q.ids) /\ q.binding # "key"
      /\ ~VaultMoves => ToSet(q.ids) \subseteq stored
      /\ InLoop(q)
    BY <1>1, <1>2 DEF Good, Sound, Held, Silent, InLoop, Trying
<1>4. Payer(q) = q.ids[q.i] /\ Payer(q) \in Account
    BY <1>1, <1>3 DEF Payer, Slot
<1>5. Noted(q) = UpTo(q, q.i - 1) \/ Noted(q) = UpTo(q, q.i)
    BY <1>2, <1>3 DEF InLoop, Trying
<1>6. UpTo(q, q.i - 1) \cup {q.ids[q.i]} = UpTo(q, q.i) /\ q.ids[q.i] \in UpTo(q, q.i)
    <2>1. q.i \in Nat \ {0}
        BY <1>1, <1>3 DEF Slot
    <2>2. 1..q.i = 1..(q.i - 1) \cup {q.i} /\ q.i \in 1..q.i
        BY <2>1
    <2>3. QED
        BY <2>2 DEF UpTo
<1>7. QED
    BY <1>1, <1>3, <1>4, <1>5, <1>6 DEF q

\* Whatever an attempt came to, the next candidate is tried soundly.
LEMMA NextCandidate ==
    ASSUME IInv, NEW r \in Request, req[r].pc \in Trying, NEW what \in Status \cup Skipped
    PROVE  /\ Good(Continue(Note(req[r], what)))
           /\ Good(Continue([Note(req[r], what) EXCEPT !.last = "limited"]))
<1> DEFINE q == req[r]
           t == Note(q, what)
<1>1. /\ q \in Slot /\ q.log = <<>> /\ q.wire = None /\ ~q.whole
      /\ q.sends <= 2 /\ q.i \in 1..Len(q.ids) /\ Distinct(q.ids) /\ q.binding # "key"
      /\ Payer(q) \in Account
      /\ Noted(q) \cup {Payer(q)} = UpTo(q, q.i)
      /\ ~VaultMoves => ToSet(q.ids) \subseteq stored
    BY LoopFacts
<1> HIDE DEF q
<1>2. /\ t \in Slot /\ t = [q EXCEPT !.attempts = t.attempts]
      /\ Noted(t) = UpTo(q, q.i)
    BY <1>1, NoteProperties
<1> HIDE DEF t
<1>3. /\ t.log = <<>> /\ t.wire = None /\ ~t.whole /\ t.sends = q.sends /\ t.i = q.i
      /\ t.ids = q.ids /\ t.binding = q.binding
    BY <1>1, <1>2 DEF Slot
<1>4. UpTo(q, q.i) = UpTo(t, t.i)
    BY <1>3 DEF UpTo
<1>5. Good(Continue(t))
    BY <1>1, <1>2, <1>3, <1>4, ContinueIsSound
<1> DEFINE u == [t EXCEPT !.last = "limited"]
<1>6. /\ u \in Slot /\ u.log = <<>> /\ u.wire = None /\ ~u.whole /\ u.sends = q.sends /\ u.i = q.i
      /\ u.ids = q.ids /\ u.binding = q.binding /\ u.attempts = t.attempts
    BY <1>2, <1>3 DEF Slot
<1> HIDE DEF u
<1>7. UpTo(q, q.i) = UpTo(u, u.i) /\ Noted(u) = Noted(t)
    BY <1>6 DEF UpTo, Noted
<1>8. Good(Continue(u))
    BY <1>1, <1>2, <1>6, <1>7, ContinueIsSound
<1>9. QED
    BY <1>5, <1>8 DEF q, t, u

\* A call for the candidate whose turn it is, or for the same one once more.
LEMMA CallCandidate ==
    ASSUME IInv, NEW r \in Request,
           NEW label \in {"wait", "retry"},
           req[r].pc = IF label = "wait" THEN "token" ELSE "recover"
    PROVE  Good(Send(req[r], label))
<1> DEFINE q == req[r]
           t == [q EXCEPT !.pc = label, !.sends = q.sends + 1]
<1>1. req[r].pc \in Trying
    BY DEF Trying
<1>2. /\ q \in Slot /\ q.log = <<>> /\ q.wire = None /\ ~q.whole /\ InLoop(q)
      /\ q.i \in 1..Len(q.ids) /\ Distinct(q.ids) /\ q.binding # "key"
      /\ Payer(q) \in Account
      /\ ~VaultMoves => ToSet(q.ids) \subseteq stored
    BY <1>1, LoopFacts
<1>3. q.pc = IF label = "wait" THEN "token" ELSE "recover"
    OBVIOUS
<1> HIDE DEF q
<1>4. q.sends = IF label = "wait" THEN 0 ELSE 1
    BY <1>2, <1>3 DEF InLoop, Trying
<1>5. /\ t.pc = label /\ t.sends = q.sends + 1 /\ t.i = q.i /\ t.ids = q.ids
      /\ t.attempts = q.attempts /\ t.binding = q.binding
    BY <1>2 DEF Slot
<1>6. InLoop(t) /\ Fresh(t) /\ (~VaultMoves => Held(t))
    <2> HIDE DEF t
    <2>1. Noted(t) = Noted(q) /\ UpTo(t, t.i) = UpTo(q, q.i) /\ UpTo(t, t.i - 1) = UpTo(q, q.i - 1)
        BY <1>5 DEF Noted, UpTo
    <2>2. Refusals(t, t.ids[t.i], 1) <=> Refusals(q, q.ids[q.i], 1)
        BY <1>5 DEF Refusals
    <2>3. InLoop(t)
        BY <1>2, <1>3, <1>4, <1>5, <2>1, <2>2 DEF InLoop, Trying
    <2>4. QED
        BY <1>2, <1>5, <2>3 DEF Fresh, Held
<1>7. q.sends <= 1
    BY <1>4
<1>8. QED
    BY <1>2, <1>6, <1>7, SendIsSound DEF q

LEMMA TakeTokenStep == ASSUME IInv, NEW r \in Request, TakeToken(r) PROVE IInv'
<1>1. req[r].pc = "token" /\ req[r].pc \in Trying /\ UNCHANGED <<stored, active, cool>>
    BY DEF TakeToken, Trying
<1>2. Good(Continue(Note(req[r], "stale-credential")))
    BY <1>1, NextCandidate DEF Skipped
<1>3. Good(Send(req[r], "wait"))
    BY <1>1, CallCandidate
<1>4. ASSUME NEW p, Good(p), Becomes(r, p) PROVE IInv'
    BY <1>1, <1>4, SlotChanges DEF IInv
<1>5. QED
    BY <1>2, <1>3, <1>4 DEF TakeToken

\* An answer of upstream goes to the client or, a rate limit, to the log and
\* the next candidate; a refusal goes out only after a first one.
LEMMA DeliverStep ==
    ASSUME IInv, NEW r \in Request, req[r].pc \in {"wait", "retry"}, NEW status \in Status,
           status = "unauthorized" => req[r].pc = "retry",
           Deliver(r, status), UNCHANGED <<stored, active>>
    PROVE  IInv'
<1> DEFINE q == req[r]
<1>1. q.pc \in Trying /\ status \in Status \cup Skipped
    BY DEF Trying
<1>2. /\ q \in Slot /\ q.log = <<>> /\ q.wire = None /\ ~q.whole /\ InLoop(q)
      /\ q.sends <= 2 /\ q.i \in 1..Len(q.ids) /\ q.binding # "key"
      /\ Payer(q) = q.ids[q.i] /\ Payer(q) \in Account
      /\ Noted(q) \cup {Payer(q)} = UpTo(q, q.i)
    BY <1>1, LoopFacts
<1>3. cool' \in [Account -> 0..MaxCool]
    <2>1. CASE status = "limited"
        <3>1. PICK n \in RetryAfter : cool' = [cool EXCEPT ![Payer(q)] = n]
            BY <2>1 DEF Deliver
        <3>2. QED
            BY <3>1, CooldownsBounded DEF IInv
    <2>2. CASE status # "limited"
        BY <2>2 DEF Deliver, IInv
    <2>3. QED
        BY <2>1, <2>2
<1>4. ASSUME NEW p, Good(p), Becomes(r, p) PROVE IInv'
    BY <1>3, <1>4, SlotChanges
<1>5. CASE status = "limited" /\ q.i < Len(q.ids)
    <2>1. Good(Continue([Note(q, status) EXCEPT !.last = status]))
        BY <1>1, <1>5, NextCandidate
    <2>2. QED
        BY <1>4, <1>5, <2>1 DEF Deliver
<1>6. CASE ~(status = "limited" /\ q.i < Len(q.ids))
    <2>1. status = "limited" => Noted(q) \cup {Payer(q)} = ToSet(q.ids)
        <3>1. DOMAIN q.ids = 1..Len(q.ids) /\ Len(q.ids) \in Nat
            BY <1>2 DEF Slot
        <3>2. status = "limited" => q.i = Len(q.ids)
            BY <1>2, <1>6, <3>1
        <3>3. QED
            BY <1>2, <3>1, <3>2 DEF UpTo, ToSet
    <2>2. status = "unauthorized" => Refusals(q, q.ids[q.i], 1)
        BY <1>2 DEF InLoop, Trying
    <2>3. Good(Pipe(q, status))
        BY <1>2, <2>1, <2>2, PipeIsSound
    <2>4. QED
        BY <1>4, <1>6, <2>3 DEF Deliver
<1>7. QED
    BY <1>5, <1>6

LEMMA AnsweredStep == ASSUME IInv, NEW r \in Request, Answered(r) PROVE IInv'
<1> DEFINE q == req[r]
<1>1. /\ q.pc = "wait" /\ req[r].pc \in Trying /\ req[r].pc \in {"wait", "retry"}
      /\ UNCHANGED <<stored, active>>
    BY DEF Answered, Trying
<1>2. PICK answer \in Answers :
        CASE answer = "net" ->
                Becomes(r, Continue(Note(q, "network-error"))) /\ UNCHANGED cool
          [] answer = "unauthorized" ->
                Becomes(r, [Note(q, answer) EXCEPT !.pc = "recover"]) /\ UNCHANGED cool
          [] OTHER -> Deliver(r, answer)
    BY DEF Answered
<1>3. answer = "net" \/ answer \in Status
    BY ProxyAssumption
<1>4. CASE answer = "net"
    <2>1. Good(Continue(Note(q, "network-error")))
        BY <1>1, NextCandidate DEF Skipped
    <2>2. QED
        BY <1>1, <1>2, <1>4, <2>1, SlotChanges DEF IInv
<1>5. CASE answer = "unauthorized"
    <2> DEFINE t == Note(q, answer)
               u == [t EXCEPT !.pc = "recover"]
    <2>1. /\ q \in Slot /\ q.log = <<>> /\ q.wire = None /\ ~q.whole /\ InLoop(q)
          /\ q.i \in 1..Len(q.ids) /\ Distinct(q.ids) /\ q.binding # "key"
          /\ Payer(q) = q.ids[q.i] /\ Payer(q) \in Account
          /\ Noted(q) \cup {Payer(q)} = UpTo(q, q.i)
          /\ ~VaultMoves => ToSet(q.ids) \subseteq stored
        BY <1>1, LoopFacts
    <2>2. q.sends = 1 /\ Noted(q) = UpTo(q, q.i - 1)
        BY <1>1, <2>1 DEF InLoop
    <2>3. answer \in Status \cup Skipped
        BY <1>5 DEF Status
    <2>4. /\ t \in Slot /\ t = [q EXCEPT !.attempts = t.attempts]
          /\ Len(t.attempts) = Len(q.attempts) + 1
          /\ \A n \in 1..Len(q.attempts) : t.attempts[n] = q.attempts[n]
          /\ t.attempts[Len(q.attempts) + 1] = [account |-> Payer(q), status |-> "unauthorized"]
          /\ Noted(t) = UpTo(q, q.i)
        BY <1>5, <2>1, <2>3, NoteProperties, ZenonT(40)
    <2> HIDE DEF t
    <2>5. /\ u \in Slot /\ u.pc = "recover" /\ u.i = q.i /\ u.ids = q.ids /\ u.binding = q.binding
          /\ u.sends = 1 /\ u.attempts = t.attempts /\ u.log = <<>> /\ u.wire = None /\ ~u.whole
        BY <2>1, <2>2, <2>4, ZenonT(40) DEF Slot, PC
    <2> HIDE DEF u
    <2>6. Noted(u) = UpTo(u, u.i)
        <3>1. Noted(u) = Noted(t)
            BY <2>5 DEF Noted
        <3>2. UpTo(u, u.i) = UpTo(q, q.i)
            BY <2>5 DEF UpTo
        <3>3. QED
            BY <2>4, <3>1, <3>2
    <2>7. Refusals(u, u.ids[u.i], 1)
        <3> DEFINE x == [account |-> q.ids[q.i], status |-> "unauthorized"]
        <3>1. \A n \in DOMAIN q.attempts : q.attempts[n].account # q.ids[q.i]
            <4> SUFFICES ASSUME NEW n \in DOMAIN q.attempts, q.attempts[n].account = q.ids[q.i]
                         PROVE  FALSE
                OBVIOUS
            <4>1. q.ids[q.i] \in UpTo(q, q.i - 1)
                BY <2>2 DEF Noted
            <4>2. PICK m \in 1..(q.i - 1) : q.ids[m] = q.ids[q.i]
                BY <4>1 DEF UpTo
            <4>3. m \in DOMAIN q.ids /\ q.i \in DOMAIN q.ids /\ m # q.i
                BY <2>1, <4>2, SMTT(30) DEF Slot
            <4>4. QED
                BY <2>1, <4>2, <4>3 DEF Distinct
        <3>2. /\ Len(q.attempts) \in Nat /\ DOMAIN q.attempts = 1..Len(q.attempts)
              /\ DOMAIN t.attempts = 1..(Len(q.attempts) + 1)
            BY <2>1, <2>4, SMTT(30) DEF Slot
        <3>3. t.attempts[Len(q.attempts) + 1] = x
            BY <2>1, <2>4
        <3> HIDE DEF x
        <3>4. \A n \in 1..(Len(q.attempts) + 1) :
                IF n > Len(t.attempts) - 1 THEN t.attempts[n] = x
                ELSE t.attempts[n].account # q.ids[q.i]
            BY <2>4, <3>1, <3>2, <3>3
        <3>5. QED
            BY <2>4, <2>5, <3>2, <3>4 DEF Refusals, x
    <2>8. InLoop(u) /\ (~VaultMoves => Held(u))
        BY <2>1, <2>5, <2>6, <2>7 DEF InLoop, Held
    <2>9. Good(u)
        BY <2>5, <2>8 DEF Good, Sound, Fresh, Silent, Piping, Ended, Thrown
    <2>10. QED
        BY <1>1, <1>2, <1>5, <2>9, SlotChanges DEF IInv, t, u
<1>6. CASE answer \notin {"net", "unauthorized"}
    BY <1>1, <1>2, <1>3, <1>6, DeliverStep
<1>7. QED
    BY <1>4, <1>5, <1>6

LEMMA RecoveredStep == ASSUME IInv, NEW r \in Request, Recovered(r) PROVE IInv'
<1> DEFINE q == req[r]
<1>1. q.pc = "recover" /\ req[r].pc \in Trying /\ UNCHANGED <<stored, active, cool>>
    BY DEF Recovered, Trying
<1>2. Good(Continue(Note(q, "refresh-failed"))) /\ Good(Send(q, "retry"))
    BY <1>1, NextCandidate, CallCandidate DEF Skipped
<1>3. ASSUME SavesFail \/ Payer(q) \notin stored PROVE Good(Escape(q))
    <2>1. /\ q \in Slot /\ q.log = <<>> /\ q.wire = None /\ ~q.whole /\ InLoop(q) /\ q.sends <= 2
          /\ q.i \in 1..Len(q.ids) /\ Payer(q) = q.ids[q.i]
          /\ ~VaultMoves => ToSet(q.ids) \subseteq stored
        BY <1>1, LoopFacts
    <2>2. Refusals(q, q.ids[q.i], 1)
        BY <1>1, <2>1 DEF InLoop
    <2>3. q.attempts # <<>> /\ Last(q.attempts).status = "unauthorized"
        <3>1. Len(q.attempts) \in Nat /\ DOMAIN q.attempts = 1..Len(q.attempts)
            BY <2>1 DEF Slot
        <3>2. Len(q.attempts) >= 1 /\ Len(q.attempts) \in DOMAIN q.attempts
            BY <2>2, <3>1 DEF Refusals
        <3>3. QED
            BY <2>2, <3>1, <3>2 DEF Refusals, Last
    <2>4. SavesFail \/ VaultMoves
        <3>1. q.ids[q.i] \in ToSet(q.ids)
            BY <2>1 DEF Slot, ToSet
        <3>2. QED
            BY <1>3, <2>1, <3>1
    <2>5. QED
        BY <2>1, <2>3, <2>4, EscapeIsSound
<1>4. ASSUME NEW p, Good(p), Becomes(r, p) PROVE IInv'
    BY <1>1, <1>4, SlotChanges DEF IInv
<1>5. QED
    BY <1>2, <1>3, <1>4 DEF Recovered

LEMMA RetryAnsweredStep == ASSUME IInv, NEW r \in Request, RetryAnswered(r) PROVE IInv'
<1>1. /\ req[r].pc = "retry" /\ req[r].pc \in Trying /\ req[r].pc \in {"wait", "retry"}
      /\ UNCHANGED <<stored, active>>
    BY DEF RetryAnswered, Trying
<1>2. PICK answer \in Answers :
        IF answer = "net"
        THEN Becomes(r, Continue(Note(req[r], "network-error"))) /\ UNCHANGED cool
        ELSE Deliver(r, answer)
    BY DEF RetryAnswered
<1>3. CASE answer = "net"
    <2>1. Good(Continue(Note(req[r], "network-error")))
        BY <1>1, NextCandidate DEF Skipped
    <2>2. QED
        BY <1>1, <1>2, <1>3, <2>1, SlotChanges DEF IInv
<1>4. CASE answer # "net"
    <2>1. answer \in Status
        BY <1>4, ProxyAssumption
    <2>2. QED
        BY <1>1, <1>2, <1>4, <2>1, DeliverStep
<1>5. QED
    BY <1>3, <1>4

LEMMA KeyAnsweredStep == ASSUME IInv, NEW r \in Request, KeyAnswered(r) PROVE IInv'
<1> DEFINE q == req[r]
<1>1. q \in Slot /\ Good(q) /\ q.pc = "keyWait" /\ UNCHANGED <<stored, active, cool>>
    BY DEF KeyAnswered, IInv
<1>2. PICK answer \in Answers :
        Becomes(r, IF answer = "net" THEN OwnAnswer(q, "502", "key") ELSE Pipe(q, answer))
    BY DEF KeyAnswered
<1>3. answer = "net" \/ answer \in Status
    BY ProxyAssumption
<1>4. None # "key"
    BY ProxyAssumption DEF Words
<1> HIDE DEF q
<1>5. q.log = <<>> /\ ~q.whole /\ q.sends <= 2 /\ q.binding = "key" /\ Payer(q) = "key"
    BY <1>1 DEF Good, Sound, Fresh, Silent, Payer
<1>6. Good(OwnAnswer(q, "502", "key"))
    BY <1>1, <1>4, <1>5, OwnAnswerIsSound DEF Own
<1>7. answer \in Status => Good(Pipe(q, answer))
    BY <1>1, <1>5, PipeIsSound
<1>8. ASSUME NEW p, Good(p), Becomes(r, p) PROVE IInv'
    BY <1>1, <1>8, SlotChanges DEF IInv
<1>9. QED
    BY <1>2, <1>3, <1>6, <1>7, <1>8 DEF Status

LEMMA CutStep == ASSUME IInv, NEW r \in Request, Cut(r) PROVE IInv'
<1> DEFINE q == req[r]
<1>1. /\ q \in Slot /\ Good(q) /\ q.pc \in {"wait", "retry", "keyWait"} /\ q.aborted
      /\ Becomes(r, TraceAborted(q, Payer(q))) /\ UNCHANGED <<stored, active, cool>>
    BY DEF Cut, IInv
<1> HIDE DEF q
<1>2. q.log = <<>> /\ ~q.whole /\ q.sends <= 2
    BY <1>1 DEF Good, Sound, Silent
<1>3. Payer(q) \in Account \cup {"key", None}
    BY <1>1 DEF Good, Sound, Fresh, InLoop, Payer, Trying, Slot
<1>4. Good(TraceAborted(q, Payer(q)))
    BY <1>1, <1>2, <1>3, TraceAbortedIsSound
<1>5. QED
    BY <1>1, <1>4, SlotChanges DEF IInv

LEMMA PipeEndsStep == ASSUME IInv, NEW r \in Request, PipeEnds(r) PROVE IInv'
<1> DEFINE q == req[r]
           w == [q EXCEPT !.whole = ~q.aborted]
<1>1. /\ q \in Slot /\ Good(q) /\ q.pc = "pipe" /\ UNCHANGED <<stored, active, cool>>
      /\ \/ Becomes(r, Trace(w, q.answer, Payer(q)))
         \/ ~q.aborted /\ Becomes(r, Trace(q, "502", Payer(q)))
         \/ q.aborted /\ Becomes(r, TraceAborted(q, Payer(q)))
    BY DEF PipeEnds, IInv
<1> HIDE DEF q
<1>2. /\ q.log = <<>> /\ ~q.whole /\ q.sends <= 2 /\ q.answer \in Status /\ q.wire = q.answer
      /\ Piping(q)
    BY <1>1 DEF Good, Sound, Silent
<1>3. /\ q.binding = "key" => Payer(q) = "key"
      /\ q.binding # "key" => Payer(q) = q.ids[q.i] /\ q.ids[q.i] \in Account
    BY <1>1, <1>2 DEF Piping, Payer, Slot
<1>4. "key" \notin Account /\ None # "key" /\ None \notin Account
    BY ProxyAssumption DEF Words
<1>5. /\ w \in Slot /\ w.log = <<>> /\ w.sends <= 2 /\ w.whole = ~w.aborted /\ w.wire = q.wire
      /\ w.answer = q.answer /\ w.binding = q.binding /\ w.ids = q.ids /\ w.attempts = q.attempts
    BY <1>1, <1>2 DEF Slot
<1> HIDE DEF w
<1>6. Tells(w, q.answer, Payer(q))
    <2>1. Noted(w) = Noted(q) /\ (Refusals(w, Payer(q), 2) <=> Refusals(q, Payer(q), 2))
        BY <1>5 DEF Noted, Refusals
    <2>2. QED
        BY <1>1, <1>2, <1>3, <1>4, <1>5, <2>1 DEF Tells, Piping, Status
<1>7. ~q.aborted => Tells(q, "502", Payer(q))
    BY <1>2, <1>3, <1>4 DEF Tells, Status
<1>8. Good(Trace(w, q.answer, Payer(q)))
    BY <1>2, <1>3, <1>5, <1>6, TraceIsSound
<1>9. ~q.aborted => Good(Trace(q, "502", Payer(q)))
    BY <1>1, <1>2, <1>3, <1>7, TraceIsSound DEF Own
<1>10. q.aborted => Good(TraceAborted(q, Payer(q)))
    BY <1>1, <1>2, <1>3, TraceAbortedIsSound
<1>11. ASSUME NEW p, Good(p), Becomes(r, p) PROVE IInv'
    BY <1>1, <1>11, SlotChanges DEF IInv
<1>12. QED
    BY <1>1, <1>8, <1>9, <1>10, <1>11

LEMMA AbortStep == ASSUME IInv, NEW r \in Request, Abort(r) PROVE IInv'
<1> DEFINE q == req[r]
           t == [q EXCEPT !.aborted = TRUE]
<1>1. /\ q \in Slot /\ Good(q) /\ q.pc # "done"
      /\ Becomes(r, t) /\ UNCHANGED <<stored, active, cool>>
    BY DEF Abort, IInv
<1> HIDE DEF q
<1>2. /\ t \in Slot /\ t.pc = q.pc /\ t.ids = q.ids /\ t.i = q.i /\ t.attempts = q.attempts
      /\ t.sends = q.sends /\ t.binding = q.binding /\ t.log = q.log /\ t.wire = q.wire
      /\ t.whole = q.whole /\ t.answer = q.answer
    BY <1>1 DEF Slot
<1> HIDE DEF t
<1>3. /\ Noted(t) = Noted(q) /\ \A n : UpTo(t, n) = UpTo(q, n)
      /\ \A a, k : Refusals(t, a, k) <=> Refusals(q, a, k)
    BY <1>2 DEF Noted, UpTo, Refusals
<1>4. Fresh(t) /\ Silent(t) /\ InLoop(t) /\ Piping(t)
    BY <1>1, <1>2, <1>3 DEF Good, Sound, Fresh, Silent, InLoop, Piping
<1>5. Ended(t) /\ Thrown(t) /\ (~VaultMoves => Held(t))
    BY <1>1, <1>2 DEF Good, Held, Ended, Thrown
<1>6. Good(t)
    BY <1>1, <1>2, <1>4, <1>5 DEF Good, Sound
<1>7. QED
    BY <1>1, <1>6, SlotChanges DEF IInv

\* Every step keeps the invariant.
LEMMA StepKeepsIInv == ASSUME IInv, [Next]_vars PROVE IInv'
<1>1. ASSUME NEW r \in Request, Progress(r) PROVE IInv'
    BY <1>1, LookUpStep, CheckKeyStep, ChooseStep, ListThrowsStep, TakeTokenStep, AnsweredStep,
       RecoveredStep, RetryAnsweredStep, KeyAnsweredStep, CutStep, PipeEndsStep DEF Progress
<1>2. ASSUME NEW r \in Request, Arrive(r) \/ Abort(r) PROVE IInv'
    BY <1>2, ArriveStep, AbortStep
<1>3. ASSUME UNCHANGED <<stored, req>>, active' \in Account \cup {None},
             cool' \in [Account -> 0..MaxCool]
      PROVE  IInv'
    <2>1. ASSUME NEW r \in Request PROVE Good(req[r])'
        <3>1. Sound(req'[r]) /\ (~VaultMoves => Held(req[r])')
            BY <1>3 DEF IInv, Good, Held
        <3>2. QED
            BY <3>1, SoundLater DEF Good
    <2>2. QED
        BY <1>3, <2>1 DEF IInv
<1>4. ASSUME NEW a \in Account, Use(a) PROVE IInv'
    BY <1>3, <1>4 DEF Use, IInv
<1>5. ASSUME NEW a \in Account, MoveVault(a) PROVE IInv'
    <2>1. /\ VaultMoves /\ UNCHANGED <<active, cool, req>>
          /\ stored' = IF a \in stored THEN stored \ {a} ELSE stored \cup {a}
        BY <1>5 DEF MoveVault
    <2>2. stored' \subseteq Account
        BY <2>1 DEF IInv
    <2>3. ASSUME NEW r \in Request PROVE Good(req[r])'
        <3>1. Sound(req'[r])
            BY <2>1 DEF IInv, Good
        <3>2. QED
            BY <2>1, <3>1, SoundLater DEF Good
    <2>4. QED
        BY <2>1, <2>2, <2>3 DEF IInv
<1>6. CASE CoolTick
    <2>1. cool' \in [Account -> 0..MaxCool]
        BY <1>6, CooldownsBounded DEF CoolTick, IInv
    <2>2. QED
        BY <1>3, <1>6, <2>1 DEF CoolTick, IInv
<1>7. CASE UNCHANGED vars
    BY <1>3, <1>7 DEF vars, IInv
<1>8. QED
    BY <1>1, <1>2, <1>4, <1>5, <1>6, <1>7 DEF Next

LEMMA Inductive == Spec => []IInv
<1>1. Init => IInv
    BY InitEstablishesIInv
<1>2. IInv /\ [Next]_vars => IInv'
    BY StepKeepsIInv
<1>3. QED
    BY <1>1, <1>2, PTL DEF Spec
-----------------------------------------------------------------------------
\* Every request slot keeps its shape, and while an account is being tried the
\* loop of handleApi is at a position of its list.
THEOREM TypeCorrect == Spec => []TypeOK
<1>1. IInv => TypeOK
    BY DEF IInv, TypeOK, Good, Sound, InLoop
<1>2. QED
    BY <1>1, Inductive, PTL

\* Whatever fails, no request leaves a second traffic entry or an early one, and
\* one that leaves none was thrown out of the handler, at one of two places.
THEOREM OnlyThrowsUnrecorded == Spec => []OnlyThrowsGoUnrecorded
<1>1. IInv => OnlyThrowsGoUnrecorded
    <2> SUFFICES ASSUME IInv, NEW r \in Request
                 PROVE  /\ Len(req[r].log) <= IF Done(r) THEN 1 ELSE 0
                        /\ Done(r) /\ req[r].log = <<>> =>
                              Threw(r) /\ req[r].wire = IF req[r].aborted THEN None ELSE "500"
        BY DEF OnlyThrowsGoUnrecorded
    <2>1. Sound(req[r])
        BY DEF IInv, Good
    <2>2. Len(req[r].log) <= IF Done(r) THEN 1 ELSE 0
        BY <2>1 DEF Sound, Silent, Ended, Done
    <2>3. QED
        BY <2>1, <2>2 DEF Sound, Ended, Thrown, Threw, Done
<1>2. QED
    BY <1>1, Inductive, PTL

\* Where saves, listings and the vault do not fail, every request leaves exactly
\* one traffic entry, when it ends: what trace()'s comment promises.
THEOREM OneRecord ==
    ~SavesFail /\ ~ListFails /\ ~VaultMoves /\ Spec => []OneRecordPerRequest
<1>1. ASSUME ~SavesFail, ~ListFails, ~VaultMoves, IInv PROVE OneRecordPerRequest
    <2> SUFFICES ASSUME NEW r \in Request
                 PROVE  Len(req[r].log) = IF Done(r) THEN 1 ELSE 0
        BY DEF OneRecordPerRequest
    <2>1. Sound(req[r])
        BY <1>1 DEF IInv, Good
    <2>2. Done(r) => req[r].log # <<>>
        BY <1>1, <2>1 DEF Sound, Thrown, Done
    <2>3. req[r].log \in Seq(Entry)
        BY <2>1 DEF Sound, Slot
    <2>4. QED
        BY <2>1, <2>2, <2>3 DEF Sound, Silent, Ended, Done
<1>2. (~SavesFail => (~SavesFail)') /\ (~ListFails => (~ListFails)') /\ (~VaultMoves => (~VaultMoves)')
    OBVIOUS
<1>3. QED
    BY <1>1, <1>2, Inductive, PTL

LEMMA EntriesTell ==
    ASSUME IInv, NEW r \in Request, NEW e \in Logged(r)
    PROVE  Tells(req[r], e.status, e.account)
<1>1. Sound(req[r]) /\ req[r].log \in Seq(Entry)
    BY DEF IInv, Good, Sound, Slot
<1>2. PICK n \in DOMAIN req[r].log : e = req[r].log[n]
    BY DEF Logged
<1>3. req[r].log # <<>> /\ Done(r)
    BY <1>1, <1>2 DEF Sound, Silent, Done
<1>4. n = 1
    BY <1>1, <1>2, <1>3 DEF Sound, Ended, Done
<1>5. QED
    BY <1>1, <1>2, <1>3, <1>4 DEF Sound, Ended, Done

\* The entry of pipe() and of the proxy's own answers says what the client got.
THEOREM RecordIsTruthful == Spec => []RecordTellsTheTruth
<1>1. IInv => RecordTellsTheTruth
    BY EntriesTell DEF RecordTellsTheTruth, Tells
<1>2. QED
    BY <1>1, Inductive, PTL

\* A request gives up, or passes on a rate limit, only when it has tried every
\* account of its list: the loop of handleApi has no other way out.
THEOREM GivesUpLast == Spec => []GivesUpOnlyAtTheEnd
<1>1. IInv => GivesUpOnlyAtTheEnd
    BY EntriesTell DEF GivesUpOnlyAtTheEnd, Tells, Tried, Noted
<1>2. QED
    BY <1>1, Inductive, PTL

\* An account is called at most twice for a request, and a 401 that reaches the
\* client is the second one: recoverUnauthorized() came in between.
THEOREM OneRecovery == Spec => []RecoversOnce
<1>1. ASSUME IInv, NEW r \in Request, NEW e \in Logged(r),
             e.status = "unauthorized", e.account \in Account
      PROVE  TimesNoted(r, e.account, "unauthorized") = 2
    <2> DEFINE q == req[r]
               x == [account |-> e.account, status |-> "unauthorized"]
               L == Len(q.attempts)
    <2>1. Refusals(q, e.account, 2)
        BY <1>1, EntriesTell DEF Tells
    <2>2. L \in Nat /\ DOMAIN q.attempts = 1..L
        BY <1>1 DEF IInv, Good, Sound, Slot
    <2>3. x.account = e.account
        OBVIOUS
    <2> HIDE DEF x
    <2>4. {n \in DOMAIN q.attempts : q.attempts[n] = x} = {L - 1, L}
        <3>1. 2 <= L /\ \A n \in 1..L :
                IF n > L - 2 THEN q.attempts[n] = x ELSE q.attempts[n].account # e.account
            BY <2>1, <2>2 DEF Refusals, x
        <3> HIDE DEF L
        <3>2. L - 1 \in 1..L /\ L \in 1..L
            BY <2>2, <3>1
        <3>3. q.attempts[L - 1] = x /\ q.attempts[L] = x
            BY <2>2, <3>1, <3>2
        <3>4. ASSUME NEW n \in 1..L, q.attempts[n] = x PROVE n = L - 1 \/ n = L
            BY <2>2, <2>3, <3>1, <3>4
        <3>5. QED
            BY <2>2, <3>2, <3>3, <3>4
    <2>5. L - 1 # L
        BY <2>2
    <2>6. Cardinality({L - 1, L}) = 2
        BY <2>5, TwoElements
    <2>7. QED
        BY <2>4, <2>6 DEF TimesNoted, x
<1>2. IInv => RecoversOnce
    BY <1>1 DEF RecoversOnce, IInv, Good, Sound
<1>3. QED
    BY <1>2, Inductive, PTL

\* A new request passes over the accounts that cool down while another one does
\* not, unless its profile names one: candidates() and cooldown().
THEOREM ParkedRest == Spec => ParkedAccountsRest
<1>1. ASSUME IInv, [Next]_vars PROVE StartsOnRested
    <2> SUFFICES ASSUME NEW r \in Request, req[r].pc = "list", req'[r].pc = "token",
                        cool[req'[r].ids[1]] > 0, req'[r].ids[1] # req[r].binding
                 PROVE  \A a \in stored : cool[a] > 0
        BY DEF StartsOnRested
    <2> USE <1>1
    <2> DEFINE q == req[r]
    <2>1. ASSUME NEW s \in Request, Arrive(s) \/ Abort(s) \/ (Progress(s) /\ s # r)
          PROVE  FALSE
        <3>1. PICK p : Becomes(s, p)
            BY <2>1 DEF Arrive, Abort, Progress, LookUp, CheckBound, CheckKey, Choose, ListThrows,
               TakeToken, Answered, Deliver, Recovered, RetryAnswered, KeyAnswered, Cut, PipeEnds
        <3>2. s = r
            BY <3>1 DEF Becomes, IInv
        <3>3. CASE Arrive(s)
            BY <3>2, <3>3 DEF Arrive
        <3>4. CASE Abort(s)
            BY <3>2, <3>4 DEF Abort, Becomes, IInv, Slot
        <3>5. QED
            BY <2>1, <3>2, <3>3, <3>4
    <2>2. ASSUME ListThrows(r) PROVE FALSE
        BY <2>2 DEF ListThrows, Becomes, Escape, OwnAnswer, Trace, Say, IInv, Slot
    <2>3. Choose(r)
        <3>1. ~(LookUp(r) \/ CheckBound(r) \/ CheckKey(r) \/ TakeToken(r) \/ Answered(r)
                \/ Recovered(r) \/ RetryAnswered(r) \/ KeyAnswered(r) \/ Cut(r) \/ PipeEnds(r))
            BY DEF LookUp, CheckBound, CheckKey, TakeToken, Answered, Recovered, RetryAnswered,
               KeyAnswered, Cut, PipeEnds
        <3>2. ~(UNCHANGED vars \/ CoolTick \/ \E a \in Account : Use(a) \/ MoveVault(a))
            BY DEF vars, CoolTick, Use, MoveVault
        <3>3. QED
            BY <2>1, <2>2, <3>1, <3>2 DEF Next, Progress
    <2>4. PICK ids \in CandidateLists(q) :
            Becomes(r, IF ids = <<>> THEN OwnAnswer(q, "503", None)
                       ELSE [q EXCEPT !.ids = ids, !.i = 1, !.pc = "token"])
        BY <2>3 DEF Choose
    <2>5. ids # <<>> /\ req'[r].ids = ids
        BY <2>4 DEF Becomes, OwnAnswer, Trace, Say, IInv, Slot
    <2>6. ids \in Seq(Account) /\ \A n \in DOMAIN ids : ids[n] \in Offered(q)
        BY <2>4, ListsOfCandidates DEF IInv
    <2>7. ids[1] \in Candidates /\ cool[ids[1]] > 0
        BY <2>5, <2>6 DEF Offered
    <2>8. QED
        BY <2>7 DEF Candidates, IInv
<1>2. QED
    BY <1>1, Inductive, PTL DEF Spec, ParkedAccountsRest
=============================================================================

------------------------------ MODULE MCProxy ------------------------------
(* ProxyRequest in two situations, of which a behaviour is in one: one request of any kind over
   three accounts, with whatever upstream, the vault and the disk may do, and two concurrent
   requests over two accounts with rate limits, refused tokens and failing saves.                *)
EXTENDS ProxyRequest

CONSTANTS a1, a2, a3
VARIABLE part

mcVars == <<part, vars>>
InOrder == <<a1, a2, a3>>
AnyBinding == Words \cup {a2}
AnyAnswer == Status \cup {"net"}

MCInit ==
    /\ part \in {"alone", "beside"} /\ Init
    /\ part = "beside" => a3 \notin stored

\* What the second situation leaves out: other bindings, failing calls, a changing vault.
Plain(q) ==
    /\ q.binding \in {"any", None} /\ q.answer # "error"
    /\ \A n \in DOMAIN q.attempts : q.attempts[n].status # "network-error"

\* In the first situation one of the slots stays empty, and only a2 comes and goes.
MCNext ==
    /\ Next /\ UNCHANGED part
    /\ part = "alone" => /\ \E r \in Request : req'[r] = New
                         /\ UNCHANGED active /\ stored' \ {a2} = stored \ {a2}
    /\ part = "beside" => UNCHANGED stored /\ \A r \in Request : Plain(req'[r])

MCSpec == MCInit /\ [][MCNext]_mcVars
MCSymmetry == Permutations(Request)
=============================================================================

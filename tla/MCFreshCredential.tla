-------------------------- MODULE MCFreshCredential --------------------------
(* A small instance of FreshCredential for TLC: an ordinary ask and a recovery in two processes, on
   one account whose login Claude Code shares.                                                    *)
EXTENDS FreshCredential, TLC

CONSTANTS a1, l1, f1, f2, p1, p2, ada

OwnProcess == f1 :> p1 @@ f2 :> p2
OneAccount == [f \in Flight |-> a1]
AskRecover == f1 :> "ask" @@ f2 :> "recover"
NoEmails == [a \in Account |-> None]
AdaOwns == [l \in Lineage |-> ada]
Shared == [a \in Account |-> l1]
=============================================================================

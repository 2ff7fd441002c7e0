-------------------------- MODULE MCRequestRouting --------------------------
(* A small instance of RequestRouting for TLC: a key profile with a config of its own, a route to
   another account of the same kind and one to the subscription.                                  *)
EXTENDS RequestRouting

CONSTANTS n1, v1, k1, k2, ma, mb

InlineProfile ==
    [base |-> "key", sub |-> None, key |-> k2, inline |-> "inline", direct |-> FALSE, cwd |-> TRUE,
     routes |-> <<[match |-> ma, kind |-> "providerAccount", sub |-> None, key |-> k1],
                  [match |-> mb, kind |-> "subscription", sub |-> None, key |-> None]>>]
OneProfile == {InlineProfile}
=============================================================================

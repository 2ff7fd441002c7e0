--------------------------- MODULE MCProxyRequest ---------------------------
(* A small instance of ProxyRequest for TLC. *)
EXTENDS ProxyRequest

CONSTANTS a1, a2
TwoInOrder == <<a1, a2>>
AnyAnswer == {"ok", "unauthorized", "limited", "error", "net"}
=============================================================================

---------------------------- MODULE MCThreadPage ----------------------------
(* A small instance of ThreadPage for TLC. *)
EXTENDS ThreadPage
=============================================================================

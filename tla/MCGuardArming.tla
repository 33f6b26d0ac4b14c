----------------------------- MODULE MCGuardArming -----------------------------
(* A small instance of GuardArming: one node, successive campaigns. *)
EXTENDS GuardArming
================================================================================

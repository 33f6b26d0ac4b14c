----------------------------- MODULE MCMemoryGuard -----------------------------
(* A small instance of MemoryGuard: one node, two guards in turn. *)
EXTENDS GuardLease
================================================================================

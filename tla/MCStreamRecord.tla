----------------------------- MODULE MCStreamRecord -----------------------------
(* StreamRecord with two directories and two processes in turn. *)
EXTENDS StreamRecord
================================================================================

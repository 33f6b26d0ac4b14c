------------------------------- MODULE MCDownload ------------------------------
(* Download with one node and two downloaders. *)
EXTENDS Download

CONSTANT n1

One == <<n1>>
================================================================================

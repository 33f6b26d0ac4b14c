--------------------------- MODULE MCRequestDeadline ---------------------------
(* RequestDeadline with three requests' worth of campaign time. *)
EXTENDS RequestDeadline
================================================================================

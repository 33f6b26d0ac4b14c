------------------------------- MODULE MCCampaign ------------------------------
(* Small instances of Campaign: two nodes, two or three trials. *)
EXTENDS Campaign

CONSTANTS n1, n2

Pair      == <<n1, n2>>
TwoArms   == <<0, 7>>
ThreeArms == <<0, 7, 3>>
Speculative == <<7, 3>>
================================================================================

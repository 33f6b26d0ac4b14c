-------------------------------- MODULE MCRecipe --------------------------------
(* Recipe with the campaign's own trials. *)
EXTENDS Recipe

Trials == <<0, 7>>
Rates  == {1, 2}
SameCommand == [v \in 1..2 |-> 1]
Carries == {Launcher, Template, Indexer, Probes}
================================================================================

----------------------------- MODULE MCModelRunner -----------------------------
(* A small instance of ModelRunner: two requests whose prompts take one    *)
(* chunk or several, pools of two tokens and up to two drafts.             *)
EXTENDS ModelRunner

CONSTANTS r1, r2, s1, s2, b1, b2

Two      == {r1, r2}
Swap == Permutations({s1, s2}) \union Permutations({b1, b2})
Prompts  == (r1 :> 5) @@ (r2 :> 2)
================================================================================

----------------------------- MODULE MCWebState -----------------------------
(* Two client threads and two web threads.                                   *)
EXTENDS WebState, TLC

CONSTANTS c1, c2, w1, w2

Symmetric == Permutations({c1, c2}) \cup Permutations({w1, w2})
=============================================================================

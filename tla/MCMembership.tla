---------------------------- MODULE MCMembership ----------------------------
(* Two controllers, and two reports each may send.                            *)
EXTENDS Membership, TLC

CONSTANTS a, b, r1, r2
Symmetric == Permutations({r1, r2})
=============================================================================

---------------------------- MODULE MCRouteChoice ----------------------------
(* Two threads ask for paths between two pairs of switches of a triangle; of  *)
(* its links those that the paths use, and one reverse.                       *)
EXTENDS RouteChoice, TLC

CONSTANTS t1, t2, q1, q2, ab, ba, ac, cb

MCPaths   == (q1 :> {{ab}, {ac, cb}}) @@ (q2 :> {{ba}})
MCReverse == (ab :> ba) @@ (ba :> ab) @@ (ac :> ac) @@ (cb :> cb)
Symmetric == Permutations({t1, t2})
=============================================================================

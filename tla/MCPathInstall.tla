--------------------------- MODULE MCPathInstall ---------------------------
(* Values for the runs of PathInstall.                                      *)
(*   Mutual: a and b each own a switch of every path and ask at the same    *)
(*   time, so the server's threads wait for each other's acks.              *)
(*   Retry: a asks again for one key while answers are under way.           *)
EXTENDS PathInstall, TLC

CONSTANTS a, b, k1, k2

MutualHome   == (k1 :> a) @@ (k2 :> b)
MutualRoutes == (k1 :> {{a, b}}) @@ (k2 :> {{a, b}})

RetryHome    == k1 :> a
RetryRoutes  == k1 :> {{a, b}, {a}}
=============================================================================

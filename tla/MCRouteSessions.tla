-------------------------- MODULE MCRouteSessions --------------------------
(* Three switches in a ring.  kl is a key between local hosts at s1 and s3,   *)
(* routed directly or the long way round; kr and kt go to a switch r of       *)
(* another controller, both over the link from s1 to s2.                      *)
EXTENDS RouteSessions, TLC

CONSTANTS s1, s2, s3, r, kl, kr, kt

Ring == {<<s1, s2>>, <<s2, s1>>, <<s2, s3>>, <<s3, s2>>, <<s1, s3>>, <<s3, s1>>}
Line == {<<s1, s2>>, <<s2, s1>>, <<s2, s3>>, <<s3, s2>>}

RingRoutes ==
    (kl :> {<<s1, s3>>, <<s1, s2, s3>>}) @@ (kr :> {<<s1, s2, r>>}) @@ (kt :> {<<s1, s2, r>>})
LineRoutes == kl :> {<<s1, s2, s3>>}
=============================================================================

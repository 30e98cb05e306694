------------------------------ MODULE MCArpFlood ------------------------------
(* A triangle with an edge switch e at one corner.  A sits at e, or moves to  *)
(* the corner of B; the third corner has two ports, as e has.  B is outside   *)
(* and may ask for A, but not for C.                                          *)
EXTENDS ArpFlood, TLC

CONSTANTS e, s1, s2, s3, A, B, C, p, q

Both(S)  == S \cup {<<l[2], l[1]>> : l \in S}
Triangle == Both({<<e, s1>>, <<s1, s2>>, <<s2, s3>>, <<s1, s3>>})
Corners  == (e :> {p}) @@ (s1 :> {}) @@ (s2 :> {}) @@ (s3 :> {p, q})
Homes    == (A :> <<e, p>>) @@ (B :> <<s3, p>>) @@ (C :> <<e, p>>)
Asks     == {<<A, B>>, <<A, Gateway>>, <<B, C>>}
Outside  == {<<s3, p>>}
AMoves   == {<<A, s3, q>>}
=============================================================================

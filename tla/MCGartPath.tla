----------------------------- MODULE MCGartPath -----------------------------
(* Four nodes: a ring of three with a branch that ends dead, all joined to   *)
(* all, a one-way line, no edges; node 4 has no model.                      *)
EXTENDS GartPath

Both(S) == S \cup {<<e[2], e[1]>> : e \in S}
MCTopologies ==
    {Both({<<1, 2>>, <<2, 3>>, <<3, 1>>, <<3, 4>>}), {<<4, 2>>, <<2, 3>>}, {},
     {e \in Nodes \X Nodes : e[1] # e[2]}}
MCStatic == {<<1, 4>>}
=============================================================================

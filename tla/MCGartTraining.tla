---------------------------- MODULE MCGartTraining ----------------------------
(* Three nodes in a ring, and a fourth that hangs on one of them.             *)
EXTENDS GartTraining

MCBaseEdges ==
    {<<1, 2>>, <<2, 1>>, <<2, 3>>, <<3, 2>>, <<3, 1>>, <<1, 3>>, <<3, 4>>, <<4, 3>>}
==============================================================================

-------------------------- MODULE MCControllerLink --------------------------
(* One connection and the one before it, one greenlet that sends beside the  *)
(* receive greenlet.                                                         *)
EXTENDS ControllerLink

CONSTANTS s1, s2, r1, r2, heartbeat
=============================================================================

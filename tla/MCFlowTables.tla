---------------------------- MODULE MCFlowTables ----------------------------
(* Values for the run of FlowTables: two threads of the web server add and    *)
(* delete flows with two keys.                                                *)
EXTENDS FlowTables
=============================================================================

---------------------------- MODULE MCNodeSaul ----------------------------
(* NodeSaul for TLC: the configurations bind the constants.                *)
EXTENDS NodeSaul
=============================================================================

----------------------------- MODULE MCSuitGui -----------------------------
(* SuitGui for TLC: the configurations bind the constants.                 *)
EXTENDS SuitGui
=============================================================================

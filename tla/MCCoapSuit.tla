----------------------------- MODULE MCCoapSuit -----------------------------
(* CoapSuit for TLC: the configurations bind the constants.                *)
EXTENDS CoapSuit
=============================================================================

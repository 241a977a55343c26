----------------------------- MODULE MCSmPwm01c -----------------------------
(* SmPwm01c for TLC: the configurations bind the constants.                *)
EXTENDS SmPwm01c
=============================================================================

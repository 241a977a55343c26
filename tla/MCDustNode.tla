----------------------------- MODULE MCDustNode -----------------------------
(* DustNode for TLC: two sensors whose small-particle pins see dust.       *)
EXTENDS DustNode

SmallPins == {<<1, "tsp">>, <<2, "tsp">>}
=============================================================================

------------------------------ MODULE MCEmission ------------------------------
(* A small instance of Emission for TLC: a lone miner, a crew of two with    *)
(* unequal powers and one idle, and yields on both sides of the taper band.  *)
EXTENDS Emission

MCGrossYields == {2, 5}
MCCrews == {<<1, 0>>, <<1, 2>>}
MCBalances == {5, 10}
MCAmounts == {3}
=============================================================================

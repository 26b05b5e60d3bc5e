---------------------------- MODULE MCHolderGate ----------------------------
(* A small instance of HolderGate for TLC: two checks that may overlap, and  *)
(* two balances that may be required, the floor and a peg above it.          *)
EXTENDS HolderGate, TLC

CONSTANTS c1, c2

MCChecks == {c1, c2}
MCThresholds == {1, 2}
Interchangeable == Permutations(MCChecks)
=============================================================================

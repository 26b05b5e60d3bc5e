----------------------------- MODULE MCDrillFloor -----------------------------
(* A small instance of DrillFloor for TLC.  Players and asteroids are       *)
(* interchangeable, and only safety is checked.                             *)
EXTENDS DrillFloor, TLC

MCSymmetry == Permutations(Asteroids)
=============================================================================

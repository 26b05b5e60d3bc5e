----------------------------- MODULE MCRaidWorld -----------------------------
(* A small instance of RaidWorld for TLC.  Players, asteroids, raids and   *)
(* wagers are interchangeable, and only safety is checked.                 *)
EXTENDS RaidWorld, TLC

MCSymmetry == Permutations(Asteroids) \cup Permutations(Raids)
              \cup Permutations(Wagers)
=============================================================================

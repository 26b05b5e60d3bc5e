----------------------------- MODULE MCClaimFlow -----------------------------
(* A small instance of ClaimFlow for TLC.                                  *)
EXTENDS ClaimFlow, TLC

CONSTANTS o1, o2, o3, t1, t2

MCTransfers == {o1, o2, o3}
MCTabs == {t1, t2}
MCSymmetry == Permutations(MCTransfers) \cup Permutations(MCTabs)
=============================================================================

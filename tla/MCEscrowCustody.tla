---------------------------- MODULE MCEscrowCustody ----------------------------
(* A small instance of EscrowCustody for TLC: two wagers of 11 tokens, two  *)
(* defenders whose powers make the split even, uneven or empty, and rents   *)
(* that two payouts can pay out of a surplus sufficient for one.            *)
EXTENDS EscrowCustody, TLC

CONSTANTS w1, w2, d1, d2

MCPowers == {[d \in Defenders |-> 0], d1 :> 1 @@ d2 :> 2}
MCSymmetry == Permutations(Wagers)
=============================================================================

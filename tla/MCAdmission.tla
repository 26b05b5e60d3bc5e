---------------------------- MODULE MCAdmission ----------------------------
(* A small instance of Admission for TLC: more connections of one address  *)
(* than it may have, so that some are refused and one comes after a slip.  *)
EXTENDS Admission, TLC

CONSTANTS i1

OneAddress == [c \in Conns |-> i1]

Symmetry == Permutations(Conns) \cup Permutations(Wallets)
=============================================================================

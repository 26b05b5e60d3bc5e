--------------------------- MODULE MCWagerGateway ---------------------------
(* Small instances of WagerGateway for TLC. *)
EXTENDS WagerGateway, TLC

CONSTANTS c1, c2, c3, a1, a2

(* Two connections of one wallet, one of another. *)
TwoWallets == [c \in {c1, c2, c3} |-> IF c = c3 THEN a2 ELSE a1]

AllFaults == FaultKinds
=============================================================================

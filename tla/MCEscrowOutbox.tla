--------------------------- MODULE MCEscrowOutbox ---------------------------
(* A small instance of EscrowOutbox for TLC: every fault, and the three    *)
(* splits a raid that is not won can produce.                              *)
EXTENDS EscrowOutbox, TLC

CONSTANTS d1   \* a defender

Split(payout, recirculated, burned) ==
    [l \in Leg |-> CASE l \in Defenders -> payout
                     [] l = "recirculate" -> recirculated
                     [] l = "burn" -> burned
                     [] OTHER -> 0]

(* resolveRaid with and without defender spoils; forfeit burns everything. *)
MCLossPlans == {Split(2, 1, 2), Split(0, 2, 3), Split(0, 0, 5)}

MCDefenders == {d1}

AllFaults == FaultKinds
=============================================================================

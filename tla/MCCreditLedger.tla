--------------------------- MODULE MCCreditLedger ---------------------------
(* Small instances of CreditLedger for TLC. *)
EXTENDS CreditLedger, TLC

CONSTANTS w1, w2

MCWallets == {w1, w2}

(* One miner alone, or two that share. *)
MCSplits == {w1 :> 100 @@ w2 :> 0, w1 :> 50 @@ w2 :> 50,
              w1 :> 0 @@ w2 :> 100}

(* The wallets are interchangeable in every definition. *)
MCSymmetry == Permutations(MCWallets)

AllFaults == FaultKinds
=============================================================================

---------------------------- MODULE WagerCustody ----------------------------
(***************************************************************************)
(* What the escrow promises a player, without records, rows, runs, sweeps  *)
(* or retries: a verified deposit is held until its raid has one outcome,  *)
(* every leg of that outcome is paid exactly once, and the wager is closed *)
(* only when all of them are.                                              *)
(*                                                                         *)
(* The promise is conditional, as the header of escrow-manager.ts is: it   *)
(* stands while the process lives and sees its confirmations (trusted).    *)
(* Failing transfers, failing writes and racing runs are no excuse.        *)
(* EscrowOutbox implements this module.                                    *)
(***************************************************************************)
EXTENDS Naturals

CONSTANTS
    Wagers,   \* wager ids
    Leg,      \* the payouts a wager can be split into
    Plans,    \* the outcomes: functions from Leg to amounts
    Refund    \* the outcome of a raid that never launched

VARIABLES
    outcome,  \* "absent", "held", an outcome being paid, or "closed"
    moved,    \* how often each leg was paid
    trusted   \* no crash, shutdown or lost confirmation so far

vars == <<outcome, moved, trusted>>

Init ==
    /\ outcome = [w \in Wagers |-> [at |-> "absent"]]
    /\ moved = [w \in Wagers |-> [l \in Leg |-> 0]]
    /\ trusted = TRUE

Becomes(w, o) == outcome' = [outcome EXCEPT ![w] = o]

Owed(plan) == [at |-> "owed", plan |-> plan]

(* A deposit is taken for a raid. *)
Deposit(w) ==
    /\ outcome[w] = [at |-> "absent"]
    /\ Becomes(w, [at |-> "held"])
    /\ UNCHANGED moved

(* A deposit whose raid does not launch is owed back. *)
Bounce(w) ==
    /\ outcome[w] = [at |-> "absent"]
    /\ Becomes(w, Owed(Refund))
    /\ UNCHANGED moved

(* The raid has its outcome; there is no second one. *)
Decide(w) ==
    /\ outcome[w] = [at |-> "held"]
    /\ \E plan \in Plans : Becomes(w, Owed(plan))
    /\ UNCHANGED moved

(* A leg of the outcome is paid, for the first time. *)
Pay(w, l) ==
    /\ \E plan \in Plans : outcome[w] = Owed(plan) /\ plan[l] > 0
    /\ moved[w][l] = 0
    /\ moved' = [moved EXCEPT ![w][l] = 1]
    /\ UNCHANGED outcome

(* Every leg of the outcome is paid, and no other. *)
Close(w) ==
    /\ \E plan \in Plans :
        /\ outcome[w] = Owed(plan)
        /\ \A l \in Leg : moved[w][l] = IF plan[l] > 0 THEN 1 ELSE 0
    /\ Becomes(w, [at |-> "closed"])
    /\ UNCHANGED moved

Keep(w) == Deposit(w) \/ Bounce(w) \/ Decide(w) \/ Close(w) \/ \E l \in Leg : Pay(w, l)

Next == \/ trusted /\ UNCHANGED trusted /\ \E w \in Wagers : Keep(w)
        \/ trusted' = FALSE   \* from here on nothing is promised

Spec == Init /\ [][Next]_vars
=============================================================================

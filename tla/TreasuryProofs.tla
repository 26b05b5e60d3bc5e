---------------------------- MODULE TreasuryProofs -----------------------------
(***************************************************************************)
(* The tokens behind the wagers, for every number of wagers, defenders,    *)
(* swaps and restarts, every size of wager, fee, rent and payout; and the  *)
(* in-game credits with the vault, for every number of players, every      *)
(* yield, split and percentage, and every number of faults and of writes   *)
(* and bridges in flight.                                                  *)
(***************************************************************************)
EXTENDS EscrowCustody, CreditLedger, Sums, TLAPS

-----------------------------------------------------------------------------
(* Plans.                                                                  *)

(* A plan disposes of the whole wager.                                     *)
PlanFits(p) == p \in [Leg -> Nat] /\ SumFunctionOnSet(p, Leg) = Amount

(* The constants, one by one.                                              *)
LEMMA CustodyConstants ==
  /\ Fee \in Nat /\ MaxRestarts \in Nat /\ MaxSwaps \in Nat
  /\ DefenderBps \in Nat /\ RecirculateBps \in Nat /\ DefenderBps + RecirculateBps <= Base
  /\ Amount \in Nat \ {0} /\ Rent \in Nat \ {0} /\ Base \in Nat \ {0}
  /\ MaxRetries \in Nat \ {0} /\ Payout \in Nat \ {0}
  /\ Powers \subseteq [Defenders -> Nat]
  /\ IsFiniteSet(Wagers) /\ IsFiniteSet(Defenders)
BY CustodyAssumption

(* The legs of a settlement.                                               *)
LEMMA Legs ==
  /\ IsFiniteSet(Leg)
  /\ {"return", "recirculate", "burn"} \subseteq Leg /\ Defenders \subseteq Leg
  /\ "return" \notin Defenders /\ "recirculate" \notin Defenders /\ "burn" \notin Defenders
<1>1. IsFiniteSet((Defenders \cup {"return"}) \cup {"recirculate"})
  BY CustodyConstants, FS_AddElement
<1>2. IsFiniteSet(((Defenders \cup {"return"}) \cup {"recirculate"}) \cup {"burn"})
  BY <1>1, FS_AddElement
<1>3. Leg = ((Defenders \cup {"return"}) \cup {"recirculate"}) \cup {"burn"}
  BY DEF Leg
<1> QED BY <1>2, <1>3, CustodyAssumption DEF Leg

(* A plan of one leg.                                                      *)
LEMMA OneLeg ==
  ASSUME NEW l \in Leg
  PROVE  PlanFits([k \in Leg |-> IF k = l THEN Amount ELSE 0])
<1> DEFINE p == [k \in Leg |-> IF k = l THEN Amount ELSE 0]
<1>1. p \in [Leg -> Nat] /\ p[l] = Amount /\ \A k \in Leg \ {l} : p[k] = 0
  BY CustodyConstants
<1>2. \A k \in Leg : p[k] \in Int
  BY <1>1
<1> HIDE DEF p
<1>3. SumFunctionOnSet(p, Leg) = p[l] + SumFunctionOnSet(p, Leg \ {l})
  BY <1>2, Legs, SumRemove
<1>4. SumFunctionOnSet(p, Leg \ {l}) = 0
  BY <1>1, Legs, FS_RemoveElement, SumZero
<1>5. SumFunctionOnSet(p, Leg) = Amount
  BY <1>1, <1>3, <1>4, CustodyConstants
<1> QED BY <1>1, <1>5 DEF PlanFits, p

(* What the defenders are paid is within their pool.                       *)
LEMMA DefendersPaid ==
  ASSUME NEW power \in [Defenders -> Nat]
  PROVE  LET paid == SumFunctionOnSet([d \in Defenders |-> Share(power, d)], Defenders)
         IN /\ \A d \in Defenders : Share(power, d) \in Nat
            /\ DefenderPool \in Nat /\ paid \in Nat /\ paid <= DefenderPool
<1> DEFINE g == [d \in Defenders |-> Share(power, d)]
           W == SumFunctionOnSet(power, Defenders)
<1>1. DefenderPool \in Nat
  <2>1. Amount * DefenderBps \in Nat
    BY CustodyConstants
  <2> QED BY <2>1, CustodyConstants, DivFacts DEF DefenderPool
<1>2. \A d \in Defenders : power[d] \in Nat /\ g[d] = Share(power, d)
  OBVIOUS
<1>3. CASE W = 0
  <2>1. \A d \in Defenders : g[d] = 0
    BY <1>3 DEF Share
  <2> HIDE DEF g
  <2>2. SumFunctionOnSet(g, Defenders) = 0
    BY <2>1, CustodyConstants, SumZero
  <2> QED BY <1>1, <1>2, <2>1, <2>2 DEF g
<1>4. CASE W # 0
  <2>1. \A d \in Defenders : g[d] = (power[d] * DefenderPool) \div W
    BY <1>4 DEF Share
  <2> HIDE DEF g
  <2>2. /\ \A d \in Defenders : g[d] \in Nat
        /\ SumFunctionOnSet(g, Defenders) \in Nat
        /\ SumFunctionOnSet(g, Defenders) <= DefenderPool
    BY <1>1, <1>2, <1>4, <2>1, CustodyConstants, SumShares
  <2> QED BY <1>1, <1>2, <2>2 DEF g
<1> QED BY <1>3, <1>4

(* The split of a lost wager: nothing of it is negative, and it adds up,   *)
(* whatever the floors lose.                                               *)
LEMMA SplitFits ==
  ASSUME NEW power \in [Defenders -> Nat]
  PROVE  PlanFits(Split(power))
<1> DEFINE g == [d \in Defenders |-> Share(power, d)]
           paid == SumFunctionOnSet(g, Defenders)
           a == (Amount * DefenderBps) \div Base
           b == (Amount * RecirculateBps) \div Base
           r == b + DefenderPool - paid
           p == Split(power)
<1>1. /\ \A d \in Defenders : Share(power, d) \in Nat
      /\ DefenderPool \in Nat /\ paid \in Nat /\ paid <= DefenderPool
  BY DefendersPaid
<1>2. b \in Nat /\ DefenderPool + b <= Amount
  <2> DEFINE x == Amount * DefenderBps  y == Amount * RecirculateBps
  <2>1. x \in Nat /\ y \in Nat /\ x + y <= Amount * Base
    <3>1. x + y = Amount * (DefenderBps + RecirculateBps)
      BY CustodyConstants
    <3>2. Amount * (DefenderBps + RecirculateBps) <= Amount * Base
      BY CustodyConstants
    <3> QED BY <3>1, <3>2, CustodyConstants
  <2>2. a = x \div Base /\ b = y \div Base /\ DefenderPool = a
    BY DEF DefenderPool
  <2> HIDE DEF x, y, a, b
  <2>3. a \in Nat /\ b \in Nat /\ Base * a <= x /\ Base * b <= y
    BY <2>1, <2>2, CustodyConstants, DivFacts
  <2>4. Base * (a + b) <= Base * Amount
    <3>1. Base * (a + b) = Base * a + Base * b /\ Base * a \in Nat /\ Base * b \in Nat
      BY <2>3, CustodyConstants
    <3>2. Base * Amount = Amount * Base
      BY CustodyConstants
    <3>3. Base * Amount \in Nat
      BY CustodyConstants
    <3> QED BY <2>1, <2>3, <3>1, <3>2, <3>3
  <2>5. a + b > Amount => Base * (a + b) > Base * Amount
    BY <2>3, CustodyConstants
  <2>6. Base * (a + b) \in Nat /\ Base * Amount \in Nat
    BY <2>3, CustodyConstants
  <2>7. a + b <= Amount
    BY <2>3, <2>4, <2>5, <2>6, CustodyConstants
  <2> QED BY <2>2, <2>3, <2>7
<1>3. r \in Nat /\ Amount - paid - r \in Nat /\ paid + r + (Amount - paid - r) = Amount
  BY <1>1, <1>2, CustodyConstants
<1>4. /\ \A d \in Defenders : p[d] = g[d]
      /\ p["recirculate"] = r /\ p["burn"] = Amount - paid - r /\ p["return"] = 0
      /\ p = [l \in Leg |-> p[l]]
  BY Legs DEF Split
<1>5. \A d \in Defenders : g[d] \in Nat
  BY <1>1
<1> HIDE DEF g, p, r, paid, b
<1>6. p \in [Leg -> Nat]
  <2>1. \A l \in Leg : p[l] \in Nat
    BY <1>3, <1>4, <1>5 DEF Leg
  <2> QED BY <1>4, <2>1
<1>7. SumFunctionOnSet(p, Leg) = Amount
  <2> DEFINE D1 == Defenders \cup {"return"}
             D2 == D1 \cup {"recirculate"}
  <2>1. Leg = D2 \cup {"burn"}
    BY DEF Leg
  <2>2. IsFiniteSet(Defenders) /\ IsFiniteSet(D1) /\ IsFiniteSet(D2)
    BY CustodyConstants, FS_AddElement
  <2>3. \A l \in Leg : p[l] \in Int
    BY <1>6
  <2>4. SumFunctionOnSet(p, Defenders) = paid
    <3>1. SumFunctionOnSet(p, Defenders) = SumFunctionOnSet(g, Defenders)
      BY <1>4, <2>2, SumSame
    <3> QED BY <3>1 DEF paid
  <2>5. SumFunctionOnSet(p, D1) = SumFunctionOnSet(p, Defenders) + p["return"]
    BY <2>2, <2>3, Legs, SumAdd
  <2>6. SumFunctionOnSet(p, D2) = SumFunctionOnSet(p, D1) + p["recirculate"]
    <3>1. "recirculate" \notin D1 /\ \A l \in D1 \cup {"recirculate"} : p[l] \in Int
      BY <2>3, Legs
    <3> HIDE DEF D1
    <3> QED BY <2>2, <3>1, SumAdd
  <2>7. SumFunctionOnSet(p, D2 \cup {"burn"}) = SumFunctionOnSet(p, D2) + p["burn"]
    <3>1. "burn" \notin D2 /\ \A l \in D2 \cup {"burn"} : p[l] \in Int
      BY <2>3, Legs
    <3> HIDE DEF D2
    <3> QED BY <2>2, <3>1, SumAdd
  <2> HIDE DEF D1, D2
  <2> QED BY <1>1, <1>3, <1>4, <2>1, <2>4, <2>5, <2>6, <2>7
<1> QED BY <1>6, <1>7 DEF PlanFits, p

(* Every plan disposes of the whole wager.                                 *)
LEMMA PlansFit == PlanFits(ReturnPlan) /\ \A p \in Plans : PlanFits(p)
<1>1. PlanFits(ReturnPlan) /\ PlanFits(BurnPlan)
  BY OneLeg, Legs DEF ReturnPlan, BurnPlan
<1> QED BY <1>1, SplitFits, CustodyConstants DEF Plans

-----------------------------------------------------------------------------
(* The record of a wager, and the types.                                   *)

Settled == {"settling", "failed", "settled"}
Kept(w) ==
    IF ~dedicated /\ "recirculate" \in done[w] THEN plan[w]["recirculate"] ELSE 0
ToPay(w) == SumFunctionOnSet(plan[w], Todo(w))

(* The record of wager w.                                                  *)
RecordFits(w) ==
    /\ stage[w] \in {"none", "sent", "active"} =>
         done[w] = {} /\ out[w] = 0 /\ retries[w] = 0
    /\ stage[w] = "active" => credited[w] = Amount
    /\ stage[w] \in Settled => PlanFits(plan[w])
    /\ stage[w] = "settling" => retries[w] < MaxRetries
    /\ stage[w] = "settled" => Todo(w) = {}
    /\ w \in known => stage[w] \in {"active", "settling", "failed"}
    /\ ~booting /\ stage[w] \in {"active", "settling", "failed"} => w \in known
    /\ w \in running => stage[w] = "settling"
    /\ call[w] # Idle => /\ call[w].leg \in Todo(w)
                         /\ dedicated \/ call[w].leg # "recirculate"

RecordsFit == \A w \in Wagers : RecordFits(w)

(* Every step keeps the types.                                             *)
LEMMA CustodyTypeStep ==
  ASSUME CustodyTypeOK, RecordsFit, [CustodyNext]_custodyVars
  PROVE  CustodyTypeOK'
<1> USE CustodyConstants DEF CustodyTypeOK
<1>e. Escrow \in Purse /\ "treasury" \in Purse
  BY DEF Escrow, Purse
<1>p. ReturnPlan \in [Leg -> Nat] /\ \A p \in Plans : p \in [Leg -> Nat]
  BY PlansFit DEF PlanFits
<1>c. \A w \in Wagers : call[w] # Idle =>
        /\ call[w] \in Call /\ call[w].leg \in Leg /\ call[w].burn \in {0, Rent}
        /\ call[w].pc \in {"checked", "sent"} /\ call[w].read \in Nat
        /\ call[w].late \in BOOLEAN /\ w \in running /\ retries[w] < MaxRetries
  BY DEF Call, RecordsFit, RecordFits
<1>1. ASSUME NEW w \in Wagers, NEW tokens \in {Amount, Amount - 1}, Deposit(w, tokens)
      PROVE CustodyTypeOK'
  BY <1>1, <1>e DEF Deposit, swapVars, Stage
<1>2. ASSUME NEW w \in Wagers, Book(w) PROVE CustodyTypeOK'
  <2>1. /\ known' = known \cup {w}
        /\ UNCHANGED <<dedicated, bal, credited, done, retries, booting, call, swapVars, out,
                       misjudged, restarts>>
    BY <1>2 DEF Book
  <2>2. CASE stage' = [stage EXCEPT ![w] = "active"] /\ UNCHANGED <<plan, running>>
    BY <2>1, <2>2 DEF swapVars, Stage
  <2>3. CASE /\ stage' = [stage EXCEPT ![w] = "settling"]
             /\ plan' = [plan EXCEPT ![w] = ReturnPlan]
             /\ running' = running \cup {w}
    BY <1>p, <2>1, <2>3 DEF swapVars, Stage
  <2> QED BY <1>2, <2>2, <2>3 DEF Book
<1>3. ASSUME NEW w \in Wagers, Refuse(w) PROVE CustodyTypeOK'
  BY <1>3 DEF Refuse, swapVars, Stage
<1>4. ASSUME NEW w \in Wagers, NEW p \in Plans, Resolve(w, p) PROVE CustodyTypeOK'
  <2>1. w \in known
    BY <1>4 DEF Resolve, RecordsFit, RecordFits
  <2>2. /\ stage' = [stage EXCEPT ![w] = "settling"] /\ plan' = [plan EXCEPT ![w] = p]
        /\ running' = running \cup {w}
        /\ UNCHANGED <<dedicated, bal, credited, done, retries, known, booting, call, swapVars,
                       out, misjudged, restarts>>
    BY <1>4 DEF Resolve
  <2> QED BY <1>p, <2>1, <2>2 DEF swapVars, Stage
<1>5. ASSUME NEW w \in Wagers, Sweep(w) PROVE CustodyTypeOK'
  BY <1>5 DEF Sweep, swapVars
<1>6. ASSUME NEW w \in Wagers, NEW l \in Leg, LegDone(w, l), call'[w] = Idle,
             \A v \in Wagers \ {w} : call'[v] = Idle \/ call[v] # Idle
      PROVE /\ stage' \in [Wagers -> Stage] /\ credited' \in [Wagers -> Nat]
            /\ plan' \in [Wagers -> [Leg -> Nat]] /\ done' \in [Wagers -> SUBSET Leg]
            /\ retries' \in [Wagers -> 0..MaxRetries]
            /\ known' \subseteq Wagers /\ running' \subseteq known'
            /\ \A v \in Wagers : call'[v] # Idle => v \in running'
  BY <1>6 DEF LegDone, Stage
<1>7. ASSUME NEW w \in Wagers, LegFailed(w), retries[w] < MaxRetries, call'[w] = Idle,
             \A v \in Wagers \ {w} : call'[v] = Idle \/ call[v] # Idle
      PROVE /\ stage' \in [Wagers -> Stage] /\ credited' \in [Wagers -> Nat]
            /\ plan' \in [Wagers -> [Leg -> Nat]] /\ done' \in [Wagers -> SUBSET Leg]
            /\ retries' \in [Wagers -> 0..MaxRetries]
            /\ known' \subseteq Wagers /\ running' \subseteq known'
            /\ \A v \in Wagers : call'[v] # Idle => v \in running'
  BY <1>7 DEF LegFailed, Stage
<1>9. ASSUME NEW w \in Wagers, RecirculateToSelf(w) PROVE CustodyTypeOK'
  BY <1>6, <1>9, Legs DEF RecirculateToSelf, swapVars
<1>10. ASSUME NEW w \in Wagers, NEW l \in Leg, ReadBalance(w, l) PROVE CustodyTypeOK'
  <2>1. retries[w] < MaxRetries /\ w \in running
    BY <1>10 DEF ReadBalance, RecordsFit, RecordFits
  <2>2. CASE bal[Escrow] >= plan[w][l]
    <3> DEFINE c == [pc |-> "checked", leg |-> l, read |-> bal[Escrow], burn |-> 0, late |-> FALSE]
    <3>1. c \in Call
      BY <1>e DEF Call
    <3> HIDE DEF c
    <3>2. /\ call' = [call EXCEPT ![w] = c]
          /\ UNCHANGED <<dedicated, bal, wagerVars, booting, swapVars, out, misjudged, restarts>>
      BY <1>10, <2>2 DEF ReadBalance, c
    <3> QED BY <2>1, <3>1, <3>2 DEF wagerVars, swapVars
  <2>3. CASE ~(bal[Escrow] >= plan[w][l])
    <3>1. /\ LegFailed(w) /\ call[w] = Idle
          /\ UNCHANGED <<dedicated, bal, call, booting, swapVars, out, misjudged, restarts>>
      BY <1>10, <2>3 DEF ReadBalance
    <3> QED BY <1>7, <2>1, <3>1 DEF swapVars
  <2> QED BY <2>2, <2>3
<1>11. ASSUME NEW w \in Wagers, Compose(w) PROVE CustodyTypeOK'
  <2>1. ASSUME NEW c \in Call, NEW b \in {0, Rent}
        PROVE  [c EXCEPT !.pc = "sent", !.burn = b] \in Call
    BY <2>1 DEF Call
  <2>2. call[w] # Idle /\ call[w] \in Call /\ w \in running
    BY <1>11, <1>c DEF Compose
  <2>3. PICK b \in {0, Rent} :
          call' = [call EXCEPT ![w] = [call[w] EXCEPT !.pc = "sent", !.burn = b]]
    BY <1>11 DEF Compose
  <2>4. misjudged' = misjudged \/ misjudged' = misjudged \cup {"hidden"}
    BY <1>11 DEF Compose
  <2>5. UNCHANGED <<dedicated, bal, wagerVars, booting, swapVars, out, restarts>>
    BY <1>11 DEF Compose
  <2> DEFINE r == [call[w] EXCEPT !.pc = "sent", !.burn = b]
  <2>6. r \in Call /\ call' = [call EXCEPT ![w] = r]
    BY <2>1, <2>2, <2>3
  <2> HIDE DEF r
  <2> QED BY <2>2, <2>4, <2>5, <2>6 DEF wagerVars, swapVars
<1>12. ASSUME NEW w \in Wagers, Transact(w)
       PROVE  /\ bal' \in [Purse -> Nat] /\ out' \in [Wagers -> Nat]
              /\ call' \in [Wagers -> Call \cup {Idle}] /\ call'[w] = Idle
              /\ \A v \in Wagers \ {w} : call'[v] = Idle \/ call[v] # Idle
              /\ call[w] # Idle /\ call[w].leg \in Leg /\ w \in running
              /\ retries[w] < MaxRetries
  <2> DEFINE tokens == plan[w][call[w].leg]  burn == call[w].burn
  <2>1. call[w] # Idle /\ bal[Escrow] >= tokens + burn
    BY <1>12 DEF Transact
  <2>2. call[w].leg \in Leg /\ tokens \in Nat /\ burn \in Nat
    BY <1>c, <2>1
  <2>3. /\ bal' = [p \in Purse |-> bal[p] - (IF p = Escrow THEN tokens + burn ELSE 0)
                     + (IF p = "treasury" /\ call[w].leg = "recirculate" THEN tokens ELSE 0)]
        /\ out' = [out EXCEPT ![w] = @ + tokens]
        /\ call' = [Outdate(call) EXCEPT ![w] = Idle]
    BY <1>12 DEF Transact
  <2> HIDE DEF tokens, burn
  <2>4. \A p \in Purse : bal[p] - (IF p = Escrow THEN tokens + burn ELSE 0) \in Nat
    BY <1>e, <2>1, <2>2
  <2>5. bal' \in [Purse -> Nat]
    BY <2>2, <2>3, <2>4
  <2>6. out' \in [Wagers -> Nat]
    BY <2>2, <2>3
  <2>7. \A v \in Wagers : /\ Outdate(call)[v] \in Call \cup {Idle}
                          /\ call[v] = Idle => Outdate(call)[v] = Idle
    <3>1. ASSUME NEW c \in Call PROVE [c EXCEPT !.late = TRUE] \in Call
      BY DEF Call
    <3> QED BY <1>c, <3>1 DEF Outdate
  <2>8. Outdate(call) \in [Wagers -> Call \cup {Idle}]
    BY <2>7 DEF Outdate
  <2> QED BY <1>c, <2>1, <2>2, <2>3, <2>5, <2>6, <2>7, <2>8
<1>13. ASSUME NEW w \in Wagers, Lands(w) PROVE CustodyTypeOK'
  <2>1. Transact(w) /\ LegDone(w, call[w].leg)
    BY <1>13 DEF Lands
  <2>2. misjudged' = misjudged \/ misjudged' = misjudged \cup {"late"}
    BY <1>13 DEF Lands
  <2>3. UNCHANGED <<dedicated, booting, swapVars, restarts>>
    BY <1>13 DEF Lands
  <2> QED BY <1>6, <1>12, <2>1, <2>2, <2>3 DEF swapVars
<1>14. ASSUME NEW w \in Wagers, LandsUnseen(w) PROVE CustodyTypeOK'
  <2>1. Transact(w) /\ LegFailed(w)
    BY <1>14 DEF LandsUnseen
  <2>2. misjudged' = misjudged \cup {"repeated"}
    BY <1>14 DEF LandsUnseen
  <2>3. UNCHANGED <<dedicated, booting, swapVars, restarts>>
    BY <1>14 DEF LandsUnseen
  <2> QED BY <1>7, <1>12, <2>1, <2>2, <2>3 DEF swapVars
<1>15. ASSUME NEW w \in Wagers, Rejected(w) PROVE CustodyTypeOK'
  <2>1. /\ call[w] # Idle /\ call' = [call EXCEPT ![w] = Idle] /\ LegFailed(w)
        /\ UNCHANGED <<dedicated, bal, booting, swapVars, out, misjudged, restarts>>
    BY <1>15 DEF Rejected
  <2>2. call' \in [Wagers -> Call \cup {Idle}] /\ call'[w] = Idle
        /\ \A v \in Wagers \ {w} : call'[v] = call[v]
    BY <2>1
  <2> QED BY <1>7, <1>c, <2>1, <2>2 DEF swapVars
<1>20. ASSUME BuildRedeemSwap PROVE CustodyTypeOK'
  BY <1>20 DEF BuildRedeemSwap, wagerVars, Swaps
<1>21. ASSUME NEW s \in Swaps, Issue(s) PROVE CustodyTypeOK'
  BY <1>21 DEF Issue, wagerVars, Swaps
<1>22. ASSUME NEW s \in Swaps, SubmitRedeemSwap(s) PROVE CustodyTypeOK'
  <2>1. cosigned' \in [Swaps -> Nat] /\ flying' \subseteq Swaps
    <3>1. CASE cosigned' = [cosigned EXCEPT ![s] = @ + 1] /\ flying' = flying \cup {s}
      BY <3>1
    <3>2. CASE UNCHANGED <<cosigned, flying>>
      BY <3>2
    <3> QED BY <1>22, <3>1, <3>2 DEF SubmitRedeemSwap, CoSign
  <2>2. /\ pendingRedeem' = 0
        /\ UNCHANGED <<dedicated, bal, wagerVars, booting, call, built, issuing, out, misjudged,
                       restarts>>
    BY <1>22 DEF SubmitRedeemSwap
  <2> QED BY <2>1, <2>2 DEF wagerVars
<1>23. ASSUME NEW s \in Swaps, SwapLands(s) PROVE CustodyTypeOK'
  <2>1. bal' \in [Purse -> Nat]
    BY <1>23, <1>e DEF SwapLands
  <2>2. call' \in [Wagers -> Call \cup {Idle}]
        /\ \A v \in Wagers : call'[v] = Idle \/ call[v] # Idle
    <3>1. ASSUME NEW c \in Call PROVE [c EXCEPT !.late = TRUE] \in Call
      BY DEF Call
    <3>2. Outdate(call) \in [Wagers -> Call \cup {Idle}]
          /\ \A v \in Wagers : Outdate(call)[v] = Idle \/ call[v] # Idle
      BY <1>c, <3>1 DEF Outdate
    <3> QED BY <1>23, <3>2 DEF SwapLands
  <2>3. misjudged' = misjudged \/ misjudged' = misjudged \cup {"swapped"}
    BY <1>23 DEF SwapLands
  <2>4. /\ flying' \subseteq flying
        /\ UNCHANGED <<dedicated, wagerVars, booting, pendingRedeem, built, issuing, cosigned,
                       out, restarts>>
    BY <1>23 DEF SwapLands
  <2> QED BY <1>c, <2>1, <2>2, <2>3, <2>4 DEF wagerVars
<1>24. ASSUME NEW s \in Swaps, SwapFails(s) PROVE CustodyTypeOK'
  BY <1>24 DEF SwapFails, wagerVars
<1>25. ASSUME Restart PROVE CustodyTypeOK'
  BY <1>25 DEF Restart, Stage, Swaps
<1>26. ASSUME Booted PROVE CustodyTypeOK'
  BY <1>26 DEF Booted, wagerVars, swapVars
<1>27. ASSUME NEW w \in Wagers, Reconcile(w) PROVE CustodyTypeOK'
  <2>1. /\ known' = known \cup {w} /\ running = {}
        /\ UNCHANGED <<dedicated, bal, credited, done, booting, call, swapVars, out, misjudged,
                       restarts>>
    BY <1>27 DEF Reconcile
  <2>2. CASE UNCHANGED <<stage, plan, retries, running>>
    BY <2>1, <2>2 DEF swapVars
  <2>3. CASE ~UNCHANGED <<stage, plan, retries, running>>
    <3>1. /\ running' = {w} /\ stage' = [stage EXCEPT ![w] = "settling"]
          /\ \/ plan' = [plan EXCEPT ![w] = ReturnPlan] /\ retries' = [retries EXCEPT ![w] = 0]
             \/ UNCHANGED <<plan, retries>>
      BY <1>27, <2>3 DEF Reconcile
    <3>2. plan' \in [Wagers -> [Leg -> Nat]] /\ retries' \in [Wagers -> 0..MaxRetries]
      BY <1>p, <3>1
    <3> QED BY <2>1, <3>1, <3>2 DEF swapVars, Stage
  <2> QED BY <2>2, <2>3
<1>28. CASE UNCHANGED custodyVars
  BY <1>28 DEF custodyVars, wagerVars, swapVars
<1> QED BY <1>1, <1>2, <1>3, <1>4, <1>5, <1>9, <1>10, <1>11, <1>13, <1>14, <1>15, <1>20, <1>21,
           <1>22, <1>23, <1>24, <1>25, <1>26, <1>27, <1>28 DEF CustodyNext

-----------------------------------------------------------------------------
(* Paid, kept and to pay.                                                  *)

(* What wager w took out of the escrow, kept in it for the vaults and has  *)
(* still to pay is the wager, unless a leg was paid twice.                 *)
PaidFits(w) ==
    "repeated" \notin misjudged /\ stage[w] \in Settled =>
      out[w] + Kept(w) + ToPay(w) = Amount

PaidFit == \A w \in Wagers : PaidFits(w)

(* A step that leaves wager v alone.                                       *)
Untouched(v) ==
    /\ stage'[v] = stage[v] /\ credited'[v] = credited[v] /\ plan'[v] = plan[v]
    /\ done'[v] = done[v] /\ retries'[v] = retries[v] /\ out'[v] = out[v]
    /\ v \in known' <=> v \in known
    /\ v \in running' => v \in running
    /\ call'[v] # Idle => call[v] # Idle /\ call'[v].leg = call[v].leg

(* What holds of a wager that a step leaves alone still holds, and it is   *)
(* owed as much.                                                           *)
LEMMA UntouchedFits ==
  ASSUME CustodyTypeOK, NEW v \in Wagers, Untouched(v), RecordFits(v), PaidFits(v),
         dedicated' = dedicated, booting' = booting, misjudged \subseteq misjudged'
  PROVE  /\ RecordFits(v)' /\ PaidFits(v)'
         /\ Todo(v)' = Todo(v) /\ OwedTo(v)' = OwedTo(v)
<1>1. LegsOf(v)' = LegsOf(v) /\ Todo(v)' = Todo(v)
  BY DEF Untouched, LegsOf, Todo
<1>2. ToPay(v)' = ToPay(v) /\ Kept(v)' = Kept(v)
  BY <1>1 DEF ToPay, Kept, Untouched
<1>3. OwedTo(v)' = OwedTo(v)
  BY <1>1 DEF OwedTo, Untouched
<1>4. RecordFits(v)'
  BY <1>1 DEF RecordFits, Untouched
<1>5. PaidFits(v)'
  BY <1>2 DEF PaidFits, Untouched
<1> QED BY <1>1, <1>3, <1>4, <1>5

(* The legs with tokens carry the whole plan.                              *)
LEMMA WholePlan ==
  ASSUME NEW p, PlanFits(p)
  PROVE  SumFunctionOnSet(p, {l \in Leg : p[l] > 0}) = Amount
<1> DEFINE T == {l \in Leg : p[l] > 0}
<1>1. /\ \A l \in Leg : p[l] \in Nat
      /\ SumFunctionOnSet(p, Leg) = Amount
  BY DEF PlanFits
<1>2. \A l \in Leg \ T : p[l] = 0
  BY <1>1
<1>3. T \in SUBSET Leg /\ \A l \in Leg : p[l] \in Int
  BY <1>1
<1> HIDE DEF T
<1>4. SumFunctionOnSet(p, Leg) = SumFunctionOnSet(p, T) + SumFunctionOnSet(p, Leg \ T)
  BY <1>3, Legs, SumSplit
<1>5. SumFunctionOnSet(p, Leg \ T) = 0
  BY <1>2, Legs, FS_Difference, SumZero
<1>6. SumFunctionOnSet(p, T) \in Nat
  BY <1>1, <1>3, Legs, SumPart
<1>7. SumFunctionOnSet(p, T) = Amount
  BY <1>1, <1>4, <1>5, <1>6, CustodyConstants
<1> QED BY <1>7 DEF T

(* What is to pay is a number, and no more than the wager.                 *)
LEMMA ToPayFacts ==
  ASSUME CustodyTypeOK, RecordsFit, NEW w \in Wagers
  PROVE  /\ ToPay(w) \in Nat /\ OwedTo(w) \in Nat
         /\ stage[w] \in Settled => ToPay(w) <= Amount
         /\ stage[w] \in {"active", "settling"} => OwedTo(w) <= Amount
<1> DEFINE p == plan[w]  T == Todo(w)
<1>1. p \in [Leg -> Nat] /\ T \in SUBSET Leg
  BY DEF CustodyTypeOK, Todo, LegsOf
<1>2. \A l \in Leg : p[l] \in Nat
  BY <1>1
<1>3. ToPay(w) = SumFunctionOnSet(p, T)
  BY DEF ToPay
<1>4. stage[w] \in Settled => SumFunctionOnSet(p, Leg) = Amount
  BY DEF RecordsFit, RecordFits, PlanFits
<1> HIDE DEF p, T
<1>5. SumFunctionOnSet(p, T) \in Nat /\ SumFunctionOnSet(p, T) <= SumFunctionOnSet(p, Leg)
  BY <1>1, <1>2, Legs, SumPart
<1>6. ToPay(w) \in Nat /\ (stage[w] \in Settled => ToPay(w) <= Amount)
  BY <1>3, <1>4, <1>5
<1>7. credited[w] \in Nat /\ (stage[w] = "active" => credited[w] = Amount)
  BY DEF CustodyTypeOK, RecordsFit, RecordFits
<1>8. /\ stage[w] \in {"sent", "active"} => OwedTo(w) = credited[w]
      /\ stage[w] \in {"settling", "failed"} => OwedTo(w) = ToPay(w)
      /\ stage[w] \notin {"sent", "active", "settling", "failed"} => OwedTo(w) = 0
  BY DEF OwedTo, ToPay
<1> QED BY <1>6, <1>7, <1>8, CustodyConstants DEF Settled

(* A wager gets its plan.                                                  *)
LEMMA Planned ==
  ASSUME CustodyTypeOK, RecordsFit, NEW w \in Wagers, NEW p, PlanFits(p),
         stage[w] \in {"sent", "active"}, credited[w] = Amount,
         stage'[w] = "settling", plan'[w] = p, retries'[w] = 0, w \in known',
         UNCHANGED <<done, out, call, dedicated>>, running \subseteq known
  PROVE  RecordFits(w)' /\ PaidFits(w)' /\ OwedTo(w)' = OwedTo(w)
<1>1. /\ done[w] = {} /\ out[w] = 0 /\ call[w] = Idle
  BY DEF CustodyTypeOK, RecordsFit, RecordFits
<1>2. Todo(w)' = {l \in Leg : p[l] > 0}
  BY <1>1 DEF Todo, LegsOf
<1>3. ToPay(w)' = Amount
  BY <1>2, WholePlan DEF ToPay
<1>4. Kept(w)' = 0
  BY <1>1 DEF Kept
<1>5. OwedTo(w) = Amount
  BY DEF OwedTo
<1>6. OwedTo(w)' = ToPay(w)'
  BY DEF OwedTo, ToPay
<1>7. RecordFits(w)'
  BY <1>1, CustodyConstants DEF RecordFits, Settled
<1>8. PaidFits(w)'
  BY <1>1, <1>3, <1>4, CustodyConstants DEF PaidFits
<1> QED BY <1>3, <1>5, <1>6, <1>7, <1>8

(* A leg is done.                                                          *)
LEMMA LegDoneEffect ==
  ASSUME CustodyTypeOK, RecordsFit, NEW w \in Wagers, w \in running, NEW l, l \in Todo(w),
         LegDone(w, l), UNCHANGED dedicated, call'[w] = Idle
  PROVE  /\ stage[w] = "settling" /\ plan[w][l] \in Nat
         /\ Todo(w)' = Todo(w) \ {l}
         /\ ToPay(w) = plan[w][l] + ToPay(w)' /\ ToPay(w)' \in Nat
         /\ OwedTo(w) = plan[w][l] + OwedTo(w)' /\ OwedTo(w)' \in Nat
         /\ stage'[w] \in {"settling", "settled"}
         /\ plan' = plan /\ done'[w] = done[w] \cup {l} /\ l \notin done[w]
         /\ booting' = booting => RecordFits(w)'
<1>1. /\ stage[w] = "settling" /\ PlanFits(plan[w]) /\ retries[w] < MaxRetries
  BY DEF RecordsFit, RecordFits, Settled
<1>2. l \in Leg /\ plan[w] \in [Leg -> Nat] /\ plan[w][l] \in Nat /\ l \notin done[w]
  BY DEF CustodyTypeOK, Todo, LegsOf
<1>3. /\ plan' = plan /\ retries' = retries /\ credited' = credited
      /\ done'[w] = done[w] \cup {l}
  BY DEF LegDone, CustodyTypeOK
<1>4. Todo(w)' = Todo(w) \ {l}
  BY <1>3 DEF Todo, LegsOf
<1>5. \/ Todo(w) = {l} /\ stage'[w] = "settled" /\ w \notin known' /\ w \notin running'
      \/ Todo(w) # {l} /\ stage'[w] = "settling" /\ known' = known /\ running' = running
  BY <1>1 DEF LegDone, CustodyTypeOK
<1>6. ToPay(w) = plan[w][l] + ToPay(w)' /\ ToPay(w)' \in Nat
  <2> DEFINE p == plan[w]  T == Todo(w)
  <2>1. ToPay(w) = SumFunctionOnSet(p, T) /\ ToPay(w)' = SumFunctionOnSet(p, T \ {l})
    BY <1>3, <1>4 DEF ToPay
  <2>2. T \in SUBSET Leg /\ l \in T
    BY DEF Todo, LegsOf
  <2>3. \A k \in Leg : p[k] \in Nat
    BY <1>2
  <2> HIDE DEF p, T
  <2>4. IsFiniteSet(T) /\ IsFiniteSet(T \ {l})
    BY <2>2, Legs, FS_Subset
  <2>5. SumFunctionOnSet(p, T) = p[l] + SumFunctionOnSet(p, T \ {l})
    <3>1. \A k \in T : p[k] \in Int
      BY <2>2, <2>3
    <3> QED BY <2>2, <2>4, <3>1, SumRemove
  <2>6. SumFunctionOnSet(p, T \ {l}) \in Nat
    <3>1. \A k \in T \ {l} : p[k] \in Nat
      BY <2>2, <2>3
    <3> QED BY <2>4, <3>1, SumNat
  <2> QED BY <2>1, <2>5, <2>6 DEF p
<1>7. OwedTo(w) = ToPay(w) /\ OwedTo(w)' = ToPay(w)'
  <2>1. OwedTo(w) = ToPay(w)
    BY <1>1 DEF OwedTo, ToPay
  <2>2. CASE stage'[w] = "settling"
    BY <2>1, <2>2 DEF OwedTo, ToPay
  <2>3. CASE stage'[w] = "settled"
    <3>1. Todo(w)' = {}
      BY <1>4, <1>5, <2>3
    <3>2. ToPay(w)' = 0
      BY <3>1, SumEmpty DEF ToPay
    <3> QED BY <2>1, <2>3, <3>2 DEF OwedTo
  <2> QED BY <1>5, <2>2, <2>3
<1>8. ASSUME booting' = booting PROVE RecordFits(w)'
  <2>1. PlanFits(plan'[w])
    BY <1>1, <1>3
  <2>2. w \in known'  => stage'[w] = "settling"
    BY <1>5
  <2>3. ~booting' /\ stage'[w] \in {"active", "settling", "failed"} => w \in known'
    BY <1>5, <1>8, <1>1 DEF RecordsFit, RecordFits
  <2> QED BY <1>1, <1>3, <1>4, <1>5, <2>1, <2>2, <2>3 DEF RecordFits, Settled
<1> QED BY <1>1, <1>2, <1>3, <1>4, <1>5, <1>6, <1>7, <1>8

(* A leg failed.                                                           *)
LEMMA LegFailedEffect ==
  ASSUME CustodyTypeOK, RecordsFit, NEW w \in Wagers, w \in running, LegFailed(w),
         UNCHANGED <<dedicated, booting>>, call'[w] = Idle
  PROVE  /\ RecordFits(w)' /\ OwedTo(w)' = OwedTo(w) /\ ToPay(w)' = ToPay(w)
         /\ Kept(w)' = Kept(w) /\ stage[w] = "settling"
         /\ stage'[w] \in {"settling", "failed"}
<1>1. /\ stage[w] = "settling" /\ PlanFits(plan[w]) /\ retries[w] < MaxRetries
      /\ w \in known /\ retries[w] \in 0 .. MaxRetries
  BY DEF RecordsFit, RecordFits, Settled, CustodyTypeOK
<1>2. /\ plan' = plan /\ done' = done /\ credited' = credited /\ known' = known
      /\ retries'[w] = retries[w] + 1 /\ w \notin running'
      /\ stage'[w] = IF retries[w] + 1 >= MaxRetries THEN "failed" ELSE "settling"
  BY <1>1 DEF LegFailed, CustodyTypeOK
<1>3. Todo(w)' = Todo(w) /\ ToPay(w)' = ToPay(w) /\ Kept(w)' = Kept(w)
  BY <1>2 DEF Todo, LegsOf, ToPay, Kept
<1>4. OwedTo(w)' = OwedTo(w)
  BY <1>1, <1>2, <1>3 DEF OwedTo
<1>5. RecordFits(w)'
  BY <1>1, <1>2, <1>3, CustodyConstants DEF RecordFits, Settled
<1> QED BY <1>1, <1>2, <1>3, <1>4, <1>5

-----------------------------------------------------------------------------
(* The steps of a wager.                                                   *)

(* A step that concerns wager w only.                                      *)
LEMMA OthersFit ==
  ASSUME CustodyTypeOK, RecordsFit, PaidFit, NEW w \in Wagers,
         \A v \in Wagers \ {w} : Untouched(v),
         dedicated' = dedicated, booting' = booting, misjudged \subseteq misjudged',
         RecordFits(w)', PaidFits(w)'
  PROVE  /\ RecordsFit' /\ PaidFit'
         /\ \A v \in Wagers \ {w} : OwedTo(v)' = OwedTo(v)
<1>1. ASSUME NEW v \in Wagers \ {w}
      PROVE  RecordFits(v)' /\ PaidFits(v)' /\ OwedTo(v)' = OwedTo(v)
  BY UntouchedFits DEF RecordsFit, PaidFit
<1> QED BY <1>1 DEF RecordsFit, PaidFit

(* A step that concerns no wager.                                          *)
LEMMA NoneTouched ==
  ASSUME CustodyTypeOK, RecordsFit, PaidFit, \A v \in Wagers : Untouched(v),
         dedicated' = dedicated, booting' = booting, misjudged \subseteq misjudged'
  PROVE  RecordsFit' /\ PaidFit' /\ \A v \in Wagers : OwedTo(v)' = OwedTo(v)
BY UntouchedFits DEF RecordsFit, PaidFit

(* A deposit is owed to its wager.                                         *)
LEMMA DepositStep ==
  ASSUME CustodyTypeOK, RecordsFit, PaidFit, NEW w \in Wagers,
         NEW tokens \in {Amount, Amount - 1}, Deposit(w, tokens)
  PROVE  /\ RecordsFit' /\ PaidFit'
         /\ OwedTo(w) = 0 /\ OwedTo(w)' = tokens
         /\ \A v \in Wagers \ {w} : OwedTo(v)' = OwedTo(v)
<1>1. /\ stage[w] = "none" /\ stage' = [stage EXCEPT ![w] = "sent"]
      /\ credited' = [credited EXCEPT ![w] = tokens]
      /\ UNCHANGED <<dedicated, plan, done, retries, known, running, booting, call, out, misjudged>>
  BY DEF Deposit
<1>2. RecordFits(w) /\ PaidFits(w)
  BY DEF RecordsFit, PaidFit
<1>3. RecordFits(w)' /\ PaidFits(w)'
  BY <1>1, <1>2 DEF CustodyTypeOK, RecordFits, PaidFits, Settled, Todo, LegsOf
<1>4. \A v \in Wagers \ {w} : Untouched(v)
  BY <1>1 DEF CustodyTypeOK, Untouched
<1>5. OwedTo(w) = 0 /\ OwedTo(w)' = tokens
  BY <1>1 DEF CustodyTypeOK, OwedTo
<1> QED BY <1>1, <1>3, <1>4, <1>5, OthersFit

(* A deposit is booked, refunded or refused: nothing more is owed.         *)
LEMMA BookStep ==
  ASSUME CustodyTypeOK, RecordsFit, PaidFit, NEW w \in Wagers, Book(w) \/ Refuse(w)
  PROVE  RecordsFit' /\ PaidFit' /\ \A v \in Wagers : OwedTo(v)' <= OwedTo(v)
<1>1. RecordFits(w) /\ PaidFits(w) /\ \A v \in Wagers : OwedTo(v) \in Nat
  BY ToPayFacts DEF RecordsFit, PaidFit
<1>2. ASSUME Book(w) PROVE RecordFits(w)' /\ PaidFits(w)' /\ OwedTo(w)' = OwedTo(w)
  <2>1. /\ stage[w] = "sent" /\ credited[w] = Amount /\ ~booting /\ known' = known \cup {w}
        /\ UNCHANGED <<dedicated, credited, done, retries, booting, call, out, misjudged>>
    BY <1>2 DEF Book, VerifyDeposit
  <2>2. CASE stage' = [stage EXCEPT ![w] = "active"] /\ UNCHANGED <<plan, running>>
    <3>1. OwedTo(w)' = OwedTo(w)
      BY <2>1, <2>2 DEF CustodyTypeOK, OwedTo
    <3>2. RecordFits(w)' /\ PaidFits(w)'
      BY <1>1, <2>1, <2>2 DEF CustodyTypeOK, RecordFits, PaidFits, Settled, Todo, LegsOf
    <3> QED BY <3>1, <3>2
  <2>3. CASE stage' = [stage EXCEPT ![w] = "settling"] /\ plan' = [plan EXCEPT ![w] = ReturnPlan]
    <3>1. stage'[w] = "settling" /\ plan'[w] = ReturnPlan /\ w \in known' /\ retries'[w] = 0
      BY <1>1, <2>1, <2>3 DEF CustodyTypeOK, RecordFits
    <3>2. running \subseteq known
      BY DEF CustodyTypeOK
    <3> QED BY <2>1, <3>1, <3>2, PlansFit, Planned
  <2> QED BY <1>2, <2>2, <2>3 DEF Book
<1>3. ASSUME Refuse(w) PROVE RecordFits(w)' /\ PaidFits(w)' /\ OwedTo(w)' = 0
  <2>1. /\ stage[w] = "sent" /\ stage'[w] = "stray"
        /\ UNCHANGED <<dedicated, credited, plan, done, retries, known, running, booting, call,
                       out, misjudged>>
    BY <1>3 DEF Refuse, CustodyTypeOK
  <2> QED BY <1>1, <2>1 DEF RecordFits, PaidFits, OwedTo, Settled, Todo, LegsOf
<1>4. \A v \in Wagers \ {w} : Untouched(v)
  BY DEF Book, Refuse, CustodyTypeOK, Untouched
<1>5. dedicated' = dedicated /\ booting' = booting /\ misjudged' = misjudged
  BY DEF Book, Refuse
<1>6. RecordFits(w)' /\ PaidFits(w)' /\ OwedTo(w)' <= OwedTo(w)
  BY <1>1, <1>2, <1>3
<1>7. RecordsFit' /\ PaidFit' /\ \A v \in Wagers \ {w} : OwedTo(v)' = OwedTo(v)
  BY <1>4, <1>5, <1>6, OthersFit
<1> QED BY <1>1, <1>6, <1>7

(* A plan, a sweep and the boot dispose of what was owed before, and of    *)
(* nothing else.                                                           *)
LEMMA SettleStep ==
  ASSUME CustodyTypeOK, RecordsFit, PaidFit, NEW w \in Wagers,
         \/ \E p \in Plans : Resolve(w, p)
         \/ Sweep(w) \/ Reconcile(w)
  PROVE  RecordsFit' /\ PaidFit' /\ \A v \in Wagers : OwedTo(v)' <= OwedTo(v)
<1>1. /\ RecordFits(w) /\ PaidFits(w) /\ \A v \in Wagers : OwedTo(v) \in Nat
      /\ running \subseteq known
  BY ToPayFacts DEF RecordsFit, PaidFit, CustodyTypeOK
<1>2. ASSUME NEW p \in Plans, Resolve(w, p)
      PROVE  RecordFits(w)' /\ PaidFits(w)' /\ OwedTo(w)' = OwedTo(w)
  <2>1. /\ stage[w] = "active" /\ ~booting
        /\ stage'[w] = "settling" /\ plan'[w] = p
        /\ UNCHANGED <<dedicated, credited, done, retries, known, booting, call, out>>
    BY <1>2 DEF Resolve, CustodyTypeOK
  <2>2. credited[w] = Amount /\ retries'[w] = 0 /\ w \in known'
    BY <1>1, <2>1 DEF RecordFits
  <2> QED BY <1>1, <2>1, <2>2, PlansFit, Planned
<1>3. ASSUME Sweep(w) PROVE RecordFits(w)' /\ PaidFits(w)' /\ OwedTo(w)' = OwedTo(w)
  <2>1. /\ stage[w] = "settling" /\ w \in known
        /\ UNCHANGED <<dedicated, stage, credited, plan, done, retries, known, booting, call,
                       out, misjudged>>
    BY <1>3 DEF Sweep
  <2> QED BY <1>1, <2>1 DEF RecordFits, PaidFits, OwedTo, Todo, LegsOf, ToPay, Kept
<1>4. ASSUME Reconcile(w) PROVE RecordFits(w)' /\ PaidFits(w)' /\ OwedTo(w)' = OwedTo(w)
  <2>1. /\ booting /\ known' = known \cup {w} /\ running = {}
        /\ stage[w] \in {"active", "settling", "failed"}
        /\ UNCHANGED <<dedicated, credited, done, booting, call, out, misjudged>>
    BY <1>4 DEF Reconcile
  <2>2. call[w] = Idle
    BY <2>1 DEF CustodyTypeOK
  <2>3. CASE stage[w] = "failed"
    <3>1. UNCHANGED <<stage, plan, retries, running>>
      BY <1>4, <2>3 DEF Reconcile
    <3> QED BY <1>1, <2>1, <2>2, <2>3, <3>1
            DEF RecordFits, PaidFits, OwedTo, Todo, LegsOf, ToPay, Kept
  <2>4. CASE stage[w] = "settling"
    <3>1. UNCHANGED <<plan, retries>> /\ stage'[w] = "settling"
      BY <1>4, <2>4 DEF Reconcile, CustodyTypeOK
    <3> QED BY <1>1, <2>1, <2>2, <2>4, <3>1
            DEF RecordFits, PaidFits, OwedTo, Todo, LegsOf, ToPay, Kept
  <2>5. CASE stage[w] = "active"
    <3>1. stage'[w] = "settling" /\ plan'[w] = ReturnPlan /\ retries'[w] = 0
      BY <1>4, <2>5 DEF Reconcile, CustodyTypeOK
    <3>2. credited[w] = Amount
      BY <1>1, <2>5 DEF RecordFits
    <3> QED BY <1>1, <2>1, <2>5, <3>1, <3>2, PlansFit, Planned
  <2> QED BY <2>1, <2>3, <2>4, <2>5
<1>5. \A v \in Wagers \ {w} : Untouched(v)
  <2>1. ASSUME NEW p \in Plans, Resolve(w, p), NEW v \in Wagers \ {w} PROVE Untouched(v)
    BY <2>1 DEF Resolve, CustodyTypeOK, Untouched
  <2>2. ASSUME Sweep(w), NEW v \in Wagers \ {w} PROVE Untouched(v)
    BY <2>2 DEF Sweep, CustodyTypeOK, Untouched
  <2>3. ASSUME Reconcile(w), NEW v \in Wagers \ {w} PROVE Untouched(v)
    <3>1. /\ known' = known \cup {w} /\ running' \subseteq {w}
          /\ stage'[v] = stage[v] /\ plan'[v] = plan[v] /\ retries'[v] = retries[v]
          /\ UNCHANGED <<credited, done, call, out>>
      BY <2>3 DEF Reconcile, CustodyTypeOK
    <3> QED BY <3>1 DEF Untouched
  <2> QED BY <2>1, <2>2, <2>3
<1>6. dedicated' = dedicated /\ booting' = booting /\ misjudged' = misjudged
  BY DEF Resolve, Sweep, Reconcile
<1>7. RecordFits(w)' /\ PaidFits(w)' /\ OwedTo(w)' <= OwedTo(w)
  BY <1>1, <1>2, <1>3, <1>4
<1>8. RecordsFit' /\ PaidFit' /\ \A v \in Wagers \ {w} : OwedTo(v)' = OwedTo(v)
  BY <1>5, <1>6, <1>7, OthersFit
<1> QED BY <1>1, <1>7, <1>8

(* A leg's step concerns its wager only.                                   *)
LEMMA LegUntouched ==
  ASSUME CustodyTypeOK, NEW w \in Wagers, NEW v \in Wagers \ {w},
         (\E l \in Leg : LegDone(w, l)) \/ LegFailed(w),
         out'[v] = out[v],
         call'[v] # Idle => call[v] # Idle /\ call'[v].leg = call[v].leg
  PROVE  Untouched(v)
<1>1. CASE LegFailed(w)
  BY <1>1 DEF LegFailed, CustodyTypeOK, Untouched
<1>2. ASSUME NEW l \in Leg, LegDone(w, l) PROVE Untouched(v)
  <2>1. /\ stage'[v] = stage[v] /\ done'[v] = done[v]
        /\ (v \in known' <=> v \in known) /\ (v \in running' <=> v \in running)
        /\ UNCHANGED <<credited, plan, retries>>
    BY <1>2 DEF LegDone, CustodyTypeOK
  <2> QED BY <2>1 DEF Untouched
<1> QED BY <1>1, <1>2

(* The recirculated part of a shared account stays where it is.            *)
LEMMA KeptInStep ==
  ASSUME CustodyTypeOK, RecordsFit, PaidFit, NEW w \in Wagers, RecirculateToSelf(w)
  PROVE  RecordsFit' /\ PaidFit' /\ \A v \in Wagers : OwedTo(v)' <= OwedTo(v)
<1> DEFINE l == "recirculate"
<1>1. /\ w \in running /\ call[w] = Idle /\ ~dedicated /\ l \in NextLegs(w) /\ LegDone(w, l)
      /\ UNCHANGED <<dedicated, bal, booting, call, out, misjudged>>
  BY DEF RecirculateToSelf
<1>2. l \in Todo(w) /\ l \in Leg
  BY <1>1 DEF NextLegs, Todo, LegsOf
<1>3. /\ stage[w] = "settling" /\ plan[w][l] \in Nat
      /\ ToPay(w) = plan[w][l] + ToPay(w)' /\ ToPay(w)' \in Nat
      /\ OwedTo(w) = plan[w][l] + OwedTo(w)' /\ OwedTo(w)' \in Nat
      /\ plan' = plan /\ done'[w] = done[w] \cup {l} /\ l \notin done[w]
      /\ RecordFits(w)'
  <2>1. booting' = booting /\ call'[w] = Idle /\ dedicated' = dedicated
    BY <1>1
  <2> HIDE DEF l
  <2> QED BY <1>1, <1>2, <2>1, LegDoneEffect
<1>4. Kept(w) = 0 /\ Kept(w)' = plan[w][l]
  BY <1>1, <1>3 DEF Kept
<1>5. PaidFits(w)'
  <2>1. SUFFICES ASSUME "repeated" \notin misjudged PROVE out[w] + plan[w][l] + ToPay(w)' = Amount
    BY <1>1, <1>4 DEF PaidFits
  <2>2. out[w] + 0 + ToPay(w) = Amount
    BY <1>3, <1>4, <2>1 DEF PaidFit, PaidFits, Settled
  <2>3. out[w] \in Nat
    BY DEF CustodyTypeOK
  <2> QED BY <1>3, <2>2, <2>3
<1>6. \A v \in Wagers \ {w} : Untouched(v)
  BY <1>1, <1>2, LegUntouched
<1>7. RecordsFit' /\ PaidFit' /\ \A v \in Wagers \ {w} : OwedTo(v)' = OwedTo(v)
  BY <1>1, <1>3, <1>5, <1>6, OthersFit
<1>8. \A v \in Wagers : OwedTo(v) \in Nat
  BY ToPayFacts
<1> QED BY <1>3, <1>7, <1>8

(* A payment, its leg and what is owed.                                    *)
LEMMA PaymentEffect ==
  ASSUME CustodyTypeOK, RecordsFit, NEW w \in Wagers, Transact(w)
  PROVE  LET l == call[w].leg
         IN /\ call[w] # Idle /\ call'[w] = Idle /\ w \in running
            /\ l \in Leg /\ l \in Todo(w) /\ plan[w][l] \in Nat
            /\ dedicated \/ l # "recirculate"
            /\ out'[w] = out[w] + plan[w][l] /\ out[w] \in Nat
            /\ \A v \in Wagers \ {w} :
                 /\ out'[v] = out[v]
                 /\ call'[v] # Idle => /\ call[v] # Idle /\ call'[v].leg = call[v].leg
                                       /\ call'[v].late
<1> DEFINE l == call[w].leg
<1>1. call[w] # Idle
  BY DEF Transact
<1>2. /\ call[w] \in Call /\ w \in running /\ l \in Leg
      /\ plan[w] \in [Leg -> Nat] /\ out \in [Wagers -> Nat]
  BY <1>1 DEF CustodyTypeOK, Call
<1>3. l \in Todo(w) /\ (dedicated \/ l # "recirculate")
  BY <1>1 DEF RecordsFit, RecordFits
<1>4. /\ out' = [out EXCEPT ![w] = @ + plan[w][l]]
      /\ call' = [Outdate(call) EXCEPT ![w] = Idle]
  BY DEF Transact
<1>5. ASSUME NEW v \in Wagers \ {w}, call'[v] # Idle
      PROVE  call[v] # Idle /\ call'[v].leg = call[v].leg /\ call'[v].late
  <2>1. call'[v] = IF call[v] = Idle THEN Idle ELSE [call[v] EXCEPT !.late = TRUE]
    BY <1>4 DEF Outdate
  <2>2. call[v] # Idle /\ call[v] \in Call /\ call'[v] = [call[v] EXCEPT !.late = TRUE]
    BY <1>5, <2>1 DEF CustodyTypeOK
  <2> QED BY <2>2 DEF Call
<1>6. call'[w] = Idle
  BY <1>4 DEF Outdate
<1> QED BY <1>1, <1>2, <1>3, <1>4, <1>5, <1>6

(* A leg that lands pays its part of what is owed, and nothing else.       *)
LEMMA LandsStep ==
  ASSUME CustodyTypeOK, RecordsFit, PaidFit, NEW w \in Wagers, Lands(w)
  PROVE  /\ RecordsFit' /\ PaidFit'
         /\ OwedTo(w) = plan[w][call[w].leg] + OwedTo(w)' /\ OwedTo(w)' \in Nat
         /\ \A v \in Wagers \ {w} : OwedTo(v)' = OwedTo(v)
<1> DEFINE l == call[w].leg
<1>1. Transact(w) /\ LegDone(w, l) /\ UNCHANGED <<dedicated, booting>>
      /\ misjudged \subseteq misjudged'
  BY DEF Lands
<1>2. /\ call'[w] = Idle /\ w \in running
      /\ l \in Leg /\ l \in Todo(w) /\ plan[w][l] \in Nat
      /\ dedicated \/ l # "recirculate"
      /\ out'[w] = out[w] + plan[w][l] /\ out[w] \in Nat
      /\ \A v \in Wagers \ {w} :
           /\ out'[v] = out[v]
           /\ call'[v] # Idle => call[v] # Idle /\ call'[v].leg = call[v].leg
  BY <1>1, PaymentEffect
<1> HIDE DEF l
<1>3. /\ stage[w] = "settling"
      /\ ToPay(w) = plan[w][l] + ToPay(w)' /\ ToPay(w)' \in Nat
      /\ OwedTo(w) = plan[w][l] + OwedTo(w)' /\ OwedTo(w)' \in Nat
      /\ plan' = plan /\ done'[w] = done[w] \cup {l}
      /\ RecordFits(w)'
  BY <1>1, <1>2, LegDoneEffect
<1>4. Kept(w)' = Kept(w) /\ Kept(w) \in Nat
  <2>1. Kept(w)' = Kept(w)
    BY <1>1, <1>2, <1>3 DEF Kept
  <2>2. plan[w] \in [Leg -> Nat] /\ "recirculate" \in Leg
    BY Legs DEF CustodyTypeOK
  <2> QED BY <2>1, <2>2 DEF Kept
<1>5. PaidFits(w)'
  <2>1. SUFFICES ASSUME "repeated" \notin misjudged'
                 PROVE  out'[w] + Kept(w)' + ToPay(w)' = Amount
    BY DEF PaidFits
  <2>2. out[w] + Kept(w) + ToPay(w) = Amount
    BY <1>1, <1>3, <2>1 DEF PaidFit, PaidFits, Settled
  <2> QED BY <1>2, <1>3, <1>4, <2>2
<1>6. \A v \in Wagers \ {w} : Untouched(v)
  BY <1>1, <1>2, LegUntouched
<1>7. RecordsFit' /\ PaidFit' /\ \A v \in Wagers \ {w} : OwedTo(v)' = OwedTo(v)
  BY <1>1, <1>3, <1>5, <1>6, OthersFit
<1> QED BY <1>3, <1>7 DEF l

(* Reading the balance, composing the transaction and failing change no    *)
(* record but the attempts; a payment that is not seen is repeated.        *)
LEMMA FailStep ==
  ASSUME CustodyTypeOK, RecordsFit, PaidFit, NEW w \in Wagers,
         \/ \E l \in Leg : ReadBalance(w, l)
         \/ Compose(w) \/ Rejected(w) \/ LandsUnseen(w)
  PROVE  RecordsFit' /\ PaidFit' /\ \A v \in Wagers : OwedTo(v)' <= OwedTo(v)
<1>0. \A v \in Wagers : OwedTo(v) \in Nat
  BY ToPayFacts
<1>f. ASSUME LegFailed(w), w \in running, call'[w] = Idle, UNCHANGED <<dedicated, booting>>,
             misjudged \subseteq misjudged',
             out'[w] = out[w] \/ "repeated" \in misjudged',
             \A v \in Wagers \ {w} :
               /\ out'[v] = out[v]
               /\ call'[v] # Idle => call[v] # Idle /\ call'[v].leg = call[v].leg
      PROVE  RecordsFit' /\ PaidFit' /\ \A v \in Wagers : OwedTo(v)' <= OwedTo(v)
  <2>1. /\ RecordFits(w)' /\ OwedTo(w)' = OwedTo(w) /\ ToPay(w)' = ToPay(w)
        /\ Kept(w)' = Kept(w) /\ stage[w] = "settling"
    BY <1>f, LegFailedEffect
  <2>2. PaidFits(w)'
    BY <1>f, <2>1 DEF PaidFit, PaidFits, Settled
  <2>3. \A v \in Wagers \ {w} : Untouched(v)
    BY <1>f, LegUntouched
  <2>4. RecordsFit' /\ PaidFit' /\ \A v \in Wagers \ {w} : OwedTo(v)' = OwedTo(v)
    BY <1>f, <2>1, <2>2, <2>3, OthersFit
  <2> QED BY <1>0, <2>1, <2>4
<1>1. ASSUME NEW l \in Leg, ReadBalance(w, l)
      PROVE  RecordsFit' /\ PaidFit' /\ \A v \in Wagers : OwedTo(v)' <= OwedTo(v)
  <2>1. /\ w \in running /\ call[w] = Idle /\ l \in NextLegs(w)
        /\ dedicated \/ l # "recirculate"
        /\ UNCHANGED <<dedicated, bal, booting, out, misjudged>>
    BY <1>1 DEF ReadBalance
  <2>2. CASE bal[Escrow] >= plan[w][l]
    <3> DEFINE c == [pc |-> "checked", leg |-> l, read |-> bal[Escrow], burn |-> 0, late |-> FALSE]
    <3>1. call' = [call EXCEPT ![w] = c] /\ c.leg = l
          /\ UNCHANGED <<stage, credited, plan, done, retries, known, running>>
      BY <1>1, <2>2 DEF ReadBalance, wagerVars
    <3> HIDE DEF c
    <3>2. \A v \in Wagers \ {w} : Untouched(v)
      BY <2>1, <3>1 DEF Untouched, CustodyTypeOK
    <3>3. call'[w] = c /\ l \in Todo(w)
      BY <2>1, <3>1 DEF CustodyTypeOK, NextLegs
    <3>4. /\ Todo(w)' = Todo(w) /\ ToPay(w)' = ToPay(w) /\ Kept(w)' = Kept(w)
          /\ OwedTo(w)' = OwedTo(w)
      BY <2>1, <3>1 DEF Todo, LegsOf, ToPay, Kept, OwedTo
    <3>5. RecordFits(w) /\ PaidFits(w)
      BY DEF RecordsFit, PaidFit
    <3>6. RecordFits(w)' /\ PaidFits(w)'
      BY <2>1, <3>1, <3>3, <3>4, <3>5 DEF RecordFits, PaidFits
    <3>7. RecordsFit' /\ PaidFit' /\ \A v \in Wagers \ {w} : OwedTo(v)' = OwedTo(v)
      BY <2>1, <3>2, <3>6, OthersFit
    <3> QED BY <1>0, <3>4, <3>7
  <2>3. CASE ~(bal[Escrow] >= plan[w][l])
    <3>1. LegFailed(w) /\ call' = call
      BY <1>1, <2>3 DEF ReadBalance
    <3> QED BY <1>f, <2>1, <3>1
  <2> QED BY <2>2, <2>3
<1>2. ASSUME Compose(w)
      PROVE  RecordsFit' /\ PaidFit' /\ \A v \in Wagers : OwedTo(v)' <= OwedTo(v)
  <2>1. /\ UNCHANGED <<dedicated, bal, stage, credited, plan, done, retries, known, running,
                       booting, out>>
        /\ misjudged \subseteq misjudged' /\ call[w] # Idle
    BY <1>2 DEF Compose, wagerVars
  <2>2. \A v \in Wagers \ {w} : call'[v] = call[v]
    BY <1>2 DEF Compose, CustodyTypeOK
  <2>3. call'[w].leg = call[w].leg
    <3>1. PICK b : call' = [call EXCEPT ![w].pc = "sent", ![w].burn = b]
      BY <1>2 DEF Compose
    <3>2. call[w] \in Call
      BY <2>1 DEF CustodyTypeOK
    <3>3. call'[w] = [call[w] EXCEPT !.pc = "sent", !.burn = b]
      BY <3>1 DEF CustodyTypeOK
    <3> QED BY <3>2, <3>3 DEF Call
  <2>4. \A v \in Wagers : Untouched(v)
    BY <2>1, <2>2, <2>3 DEF Untouched
  <2> QED BY <1>0, <2>1, <2>4, NoneTouched
<1>3. ASSUME Rejected(w)
      PROVE  RecordsFit' /\ PaidFit' /\ \A v \in Wagers : OwedTo(v)' <= OwedTo(v)
  <2>1. /\ call[w] # Idle /\ LegFailed(w)
        /\ UNCHANGED <<dedicated, bal, booting, out, misjudged>>
        /\ call' = [call EXCEPT ![w] = Idle]
    BY <1>3 DEF Rejected
  <2>2. w \in running /\ call'[w] = Idle /\ \A v \in Wagers \ {w} : call'[v] = call[v]
    BY <2>1 DEF CustodyTypeOK
  <2> QED BY <1>f, <2>1, <2>2
<1>4. ASSUME LandsUnseen(w)
      PROVE  RecordsFit' /\ PaidFit' /\ \A v \in Wagers : OwedTo(v)' <= OwedTo(v)
  <2>1. /\ Transact(w) /\ LegFailed(w) /\ UNCHANGED <<dedicated, booting>>
        /\ misjudged' = misjudged \cup {"repeated"}
    BY <1>4 DEF LandsUnseen
  <2>2. /\ call'[w] = Idle /\ w \in running
        /\ \A v \in Wagers \ {w} :
             /\ out'[v] = out[v]
             /\ call'[v] # Idle => call[v] # Idle /\ call'[v].leg = call[v].leg
    BY <2>1, PaymentEffect
  <2> QED BY <1>f, <2>1, <2>2
<1> QED BY <1>1, <1>2, <1>3, <1>4

(* Swaps, restarts and the end of the boot leave the records to            *)
(* themselves, except that a restart forgets the deposits that were not    *)
(* booked.                                                                 *)
LEMMA RestStep ==
  ASSUME CustodyTypeOK, RecordsFit, PaidFit,
         \/ BuildRedeemSwap
         \/ \E s \in Swaps : Issue(s) \/ SubmitRedeemSwap(s) \/ SwapLands(s) \/ SwapFails(s)
         \/ Restart \/ Booted \/ UNCHANGED custodyVars
  PROVE  RecordsFit' /\ PaidFit' /\ \A v \in Wagers : OwedTo(v)' <= OwedTo(v)
<1>0. \A v \in Wagers : OwedTo(v) \in Nat
  BY ToPayFacts
<1>1. ASSUME UNCHANGED <<dedicated, stage, credited, plan, done, retries, known, running, booting,
                         out>>,
             misjudged \subseteq misjudged', call' = call \/ call' = Outdate(call)
      PROVE  RecordsFit' /\ PaidFit' /\ \A v \in Wagers : OwedTo(v)' <= OwedTo(v)
  <2>1. ASSUME NEW v \in Wagers, call'[v] # Idle
        PROVE  call[v] # Idle /\ call'[v].leg = call[v].leg
    <3>1. CASE call' = call
      BY <2>1, <3>1
    <3>2. CASE call' = Outdate(call)
      <4>1. call'[v] = IF call[v] = Idle THEN Idle ELSE [call[v] EXCEPT !.late = TRUE]
        BY <3>2 DEF Outdate
      <4>2. call[v] # Idle /\ call[v] \in Call /\ call'[v] = [call[v] EXCEPT !.late = TRUE]
        BY <2>1, <4>1 DEF CustodyTypeOK
      <4> QED BY <4>2 DEF Call
    <3> QED BY <1>1, <3>1, <3>2
  <2>2. \A v \in Wagers : Untouched(v)
    BY <1>1, <2>1 DEF Untouched
  <2> QED BY <1>0, <1>1, <2>2, NoneTouched
<1>2. CASE \/ BuildRedeemSwap \/ UNCHANGED custodyVars
           \/ \E s \in Swaps : Issue(s) \/ SubmitRedeemSwap(s) \/ SwapFails(s)
  <2>1. UNCHANGED <<dedicated, wagerVars, booting, out, misjudged, call>>
    BY <1>2 DEF BuildRedeemSwap, Issue, SubmitRedeemSwap, SwapFails, custodyVars
  <2> QED BY <1>1, <2>1 DEF wagerVars
<1>3. ASSUME NEW s \in Swaps, SwapLands(s)
      PROVE  RecordsFit' /\ PaidFit' /\ \A v \in Wagers : OwedTo(v)' <= OwedTo(v)
  <2>1. /\ UNCHANGED <<dedicated, wagerVars, booting, out>> /\ misjudged \subseteq misjudged'
        /\ call' = call \/ call' = Outdate(call)
    BY <1>3 DEF SwapLands
  <2> QED BY <1>1, <2>1 DEF wagerVars
<1>4. CASE Restart
  <2>1. /\ booting' = TRUE /\ known' = {} /\ running' = {}
        /\ UNCHANGED <<dedicated, credited, plan, done, retries, out, misjudged>>
        /\ \A v \in Wagers : /\ call'[v] = Idle
                             /\ stage'[v] = IF stage[v] = "sent" THEN "stray" ELSE stage[v]
    BY <1>4 DEF Restart
  <2>2. ASSUME NEW v \in Wagers
        PROVE  RecordFits(v)' /\ PaidFits(v)' /\ OwedTo(v)' <= OwedTo(v)
    <3>1. RecordFits(v) /\ PaidFits(v) /\ OwedTo(v) \in Nat
      BY <1>0 DEF RecordsFit, PaidFit
    <3>2. Todo(v)' = Todo(v) /\ ToPay(v)' = ToPay(v) /\ Kept(v)' = Kept(v)
      BY <2>1 DEF Todo, LegsOf, ToPay, Kept
    <3>3. RecordFits(v)' /\ PaidFits(v)'
      BY <2>1, <3>1, <3>2 DEF RecordFits, PaidFits, Settled
    <3>4. OwedTo(v)' = IF stage[v] = "sent" THEN 0 ELSE OwedTo(v)
      BY <2>1, <3>2 DEF OwedTo
    <3> QED BY <3>1, <3>3, <3>4
  <2> QED BY <2>2 DEF RecordsFit, PaidFit
<1>5. CASE Booted
  <2>1. /\ \A v \in Wagers : stage[v] \in {"active", "settling", "failed"} => v \in known
        /\ UNCHANGED <<dedicated, stage, credited, plan, done, retries, known, running, call, out,
                       misjudged>>
    BY <1>5 DEF Booted, wagerVars
  <2>2. ASSUME NEW v \in Wagers
        PROVE  RecordFits(v)' /\ PaidFits(v)' /\ OwedTo(v)' <= OwedTo(v)
    <3>1. RecordFits(v) /\ PaidFits(v) /\ OwedTo(v) \in Nat
      BY <1>0 DEF RecordsFit, PaidFit
    <3>2. /\ Todo(v)' = Todo(v) /\ ToPay(v)' = ToPay(v) /\ Kept(v)' = Kept(v)
          /\ OwedTo(v)' = OwedTo(v)
      BY <2>1 DEF Todo, LegsOf, ToPay, Kept, OwedTo
    <3>3. RecordFits(v)' /\ PaidFits(v)'
      BY <2>1, <3>1, <3>2 DEF RecordFits, PaidFits, Settled
    <3> QED BY <3>1, <3>2, <3>3
  <2> QED BY <2>2 DEF RecordsFit, PaidFit
<1> QED BY <1>2, <1>3, <1>4, <1>5

-----------------------------------------------------------------------------
(* What the account holds and what is owed.                                *)

(* A balance that was read, while no tokens left since, is still there; and*)
(* behind a rent burn that was decided on it there is a surplus.           *)
ReadFits(w) ==
    call[w] # Idle /\ ~call[w].late => bal[Escrow] >= call[w].read
BurnFits(w) ==
    misjudged = {} /\ call[w] # Idle /\ ~call[w].late /\ call[w].burn > 0 =>
      bal[Escrow] >= Owed + Rent

ViewsFit == \A w \in Wagers : ReadFits(w) /\ BurnFits(w)

(* What is owed in all is a number.                                        *)
LEMMA OwedFacts ==
  CustodyTypeOK /\ RecordsFit =>
    /\ Owes \in [Wagers -> Nat] /\ Owed \in Nat
    /\ Escrow \in Purse /\ bal[Escrow] \in Nat /\ IsFiniteSet(Wagers)
<1> SUFFICES ASSUME CustodyTypeOK, RecordsFit
             PROVE  /\ Owes \in [Wagers -> Nat] /\ Owed \in Nat
                    /\ Escrow \in Purse /\ bal[Escrow] \in Nat /\ IsFiniteSet(Wagers)
  OBVIOUS
<1>1. \A w \in Wagers : OwedTo(w) \in Nat
  BY ToPayFacts
<1>2. Owes \in [Wagers -> Nat] /\ IsFiniteSet(Wagers)
  BY <1>1, CustodyConstants DEF Owes
<1>3. Owed \in Nat
  <2>1. \A w \in Wagers : Owes[w] \in Nat
    BY <1>2
  <2> QED BY <1>2, <2>1, SumNat DEF Owed
<1>4. Escrow \in Purse /\ bal[Escrow] \in Nat
  BY DEF Escrow, Purse, CustodyTypeOK
<1> QED BY <1>2, <1>3, <1>4

(* ... and after a step.                                                   *)
LEMMA OwedFactsNext ==
  CustodyTypeOK' /\ RecordsFit' =>
    (Owes \in [Wagers -> Nat] /\ Owed \in Nat /\ bal[Escrow] \in Nat)'
BY OwedFacts, PTL

(* Nothing more is owed to anyone: nothing more is owed in all.            *)
LEMMA OwedBelow ==
  ASSUME CustodyTypeOK, RecordsFit, CustodyTypeOK', RecordsFit',
         \A v \in Wagers : OwedTo(v)' <= OwedTo(v)
  PROVE  Owed' <= Owed /\ Owed' \in Nat /\ Owed \in Nat
<1> DEFINE f == Owes'  g == Owes
<1>1. /\ g \in [Wagers -> Nat] /\ Owed \in Nat /\ IsFiniteSet(Wagers)
      /\ \A v \in Wagers : g[v] = OwedTo(v)
  BY OwedFacts DEF Owes
<1>2. (Owes \in [Wagers -> Nat] /\ Owed \in Nat)'
  BY OwedFactsNext
<1>3. \A v \in Wagers : f[v] = OwedTo(v)'
  BY DEF Owes
<1>4. Owed' = SumFunctionOnSet(f, Wagers) /\ Owed = SumFunctionOnSet(g, Wagers)
  BY DEF Owed
<1>5. \A v \in Wagers : f[v] \in Int /\ g[v] \in Int /\ f[v] <= g[v]
  BY <1>1, <1>2, <1>3
<1> HIDE DEF f, g
<1>6. SumFunctionOnSet(f, Wagers) <= SumFunctionOnSet(g, Wagers)
  BY <1>1, <1>5, SumBelow
<1> QED BY <1>1, <1>2, <1>4, <1>6

(* What is owed to one wager changes.                                      *)
LEMMA OwedChange ==
  ASSUME CustodyTypeOK, RecordsFit, CustodyTypeOK', RecordsFit', NEW w \in Wagers,
         \A v \in Wagers \ {w} : OwedTo(v)' = OwedTo(v)
  PROVE  /\ Owed' = Owed + (OwedTo(w)' - OwedTo(w))
         /\ Owed' \in Nat /\ Owed \in Nat /\ OwedTo(w) \in Nat /\ OwedTo(w)' \in Nat
<1> DEFINE g == Owes'  f == Owes
<1>1. /\ f \in [Wagers -> Nat] /\ Owed \in Nat /\ IsFiniteSet(Wagers)
      /\ \A v \in Wagers : f[v] = OwedTo(v)
  BY OwedFacts DEF Owes
<1>2. (Owes \in [Wagers -> Nat] /\ Owed \in Nat)'
  BY OwedFactsNext
<1>3. \A v \in Wagers : g[v] = OwedTo(v)'
  BY DEF Owes
<1>4. Owed' = SumFunctionOnSet(g, Wagers) /\ Owed = SumFunctionOnSet(f, Wagers)
  BY DEF Owed
<1>5. /\ \A v \in Wagers : f[v] \in Int /\ g[v] \in Int
      /\ \A v \in Wagers \ {w} : g[v] = f[v]
  BY <1>1, <1>2, <1>3
<1>6. f[w] = OwedTo(w) /\ g[w] = OwedTo(w)' /\ f[w] \in Nat /\ g[w] \in Nat
  BY <1>1, <1>2, <1>3
<1> HIDE DEF f, g
<1>7. SumFunctionOnSet(g, Wagers) = SumFunctionOnSet(f, Wagers) + (g[w] - f[w])
  BY <1>1, <1>5, SumChange
<1> QED BY <1>1, <1>2, <1>4, <1>6, <1>7

(* No tokens leave the escrow, nothing more is owed, and a call goes on as *)
(* it was, ends, or is put out of date.                                    *)
LEMMA QuietStep ==
  ASSUME CustodyTypeOK, RecordsFit, CustodyTypeOK', RecordsFit', Solvent, ViewsFit,
         dedicated' = dedicated, misjudged \subseteq misjudged',
         \A v \in Wagers : OwedTo(v)' <= OwedTo(v), bal'[Escrow] >= bal[Escrow],
         \A v \in Wagers : \/ call'[v] = Idle \/ call'[v] = call[v]
                           \/ call'[v].late
                           \/ call'[v].read <= bal[Escrow] /\ call'[v].burn = 0
  PROVE  Solvent' /\ ViewsFit'
<1>1. Owed' <= Owed /\ Owed' \in Nat /\ Owed \in Nat /\ Rent \in Nat
  BY OwedBelow, CustodyConstants
<1>2. Escrow' = Escrow /\ bal[Escrow] \in Nat
  BY OwedFacts DEF Escrow
<1>3. bal'[Escrow] \in Nat
  <2>1. (bal[Escrow] \in Nat)'
    BY OwedFactsNext
  <2> QED BY <1>2, <2>1
<1>4. Solvent'
  BY <1>1, <1>2, <1>3 DEF Solvent
<1>5. ASSUME NEW v \in Wagers PROVE ReadFits(v)' /\ BurnFits(v)'
  <2>1. CASE call'[v] = Idle \/ call'[v].late
    BY <2>1 DEF ReadFits, BurnFits
  <2>2. CASE call'[v] # Idle /\ call'[v] = call[v]
    <3>1. call[v].read \in Nat
      BY <2>2 DEF CustodyTypeOK, Call
    <3>2. ReadFits(v) /\ BurnFits(v)
      BY DEF ViewsFit
    <3> QED BY <1>1, <1>2, <1>3, <2>2, <3>1, <3>2 DEF ReadFits, BurnFits
  <2>3. CASE call'[v] # Idle /\ call'[v].read <= bal[Escrow] /\ call'[v].burn = 0
    <3>1. call'[v].read \in Nat
      BY <2>3 DEF CustodyTypeOK, Call
    <3> QED BY <1>2, <1>3, <2>3, <3>1 DEF ReadFits, BurnFits
  <2> QED BY <2>1, <2>2, <2>3
<1> QED BY <1>4, <1>5 DEF ViewsFit

(* The deposit adds to the balance what it adds to what is owed.           *)
LEMMA DepositBacked ==
  ASSUME CustodyTypeOK, RecordsFit, PaidFit, CustodyTypeOK', Solvent, ViewsFit,
         NEW w \in Wagers, NEW tokens \in {Amount, Amount - 1}, Deposit(w, tokens)
  PROVE  Solvent' /\ ViewsFit'
<1>1. /\ RecordsFit' /\ OwedTo(w) = 0 /\ OwedTo(w)' = tokens
      /\ \A v \in Wagers \ {w} : OwedTo(v)' = OwedTo(v)
  BY DepositStep
<1>2. Owed' = Owed + (tokens - 0) /\ Owed' \in Nat /\ Owed \in Nat /\ tokens \in Nat
  BY <1>1, OwedChange
<1>3. /\ Escrow \in Purse /\ bal[Escrow] \in Nat /\ Fee \in Nat /\ Rent \in Nat
  BY OwedFacts, CustodyConstants
<1>4. /\ dedicated' = dedicated /\ call' = call /\ misjudged' = misjudged
      /\ bal' = [p \in Purse |-> bal[p] + (IF p = Escrow THEN tokens ELSE 0)
                                        + (IF p = "treasury" THEN Fee ELSE 0)]
  BY DEF Deposit
<1>5. Escrow' = Escrow
  BY <1>4 DEF Escrow
<1>6. bal'[Escrow] = bal[Escrow] + tokens + (IF Escrow = "treasury" THEN Fee ELSE 0)
  BY <1>3, <1>4
<1>7. bal'[Escrow] >= bal[Escrow] + tokens /\ bal'[Escrow] \in Nat
  BY <1>2, <1>3, <1>6
<1>8. Solvent'
  BY <1>2, <1>3, <1>4, <1>5, <1>7 DEF Solvent
<1>9. ASSUME NEW v \in Wagers PROVE ReadFits(v)' /\ BurnFits(v)'
  <2>1. ReadFits(v) /\ BurnFits(v)
    BY DEF ViewsFit
  <2>2. call[v] # Idle => call[v].read \in Nat
    BY DEF CustodyTypeOK, Call
  <2> QED BY <1>2, <1>3, <1>4, <1>5, <1>7, <2>1, <2>2 DEF ReadFits, BurnFits
<1> QED BY <1>8, <1>9 DEF ViewsFit

(* When no wager is hidden, the liability covers what is owed.             *)
LEMMA LiabilityCovers ==
  ASSUME CustodyTypeOK, RecordsFit, Hidden = {}
  PROVE  Owed <= OutstandingLiability /\ OutstandingLiability \in Nat
<1> DEFINE U == {w \in known : stage[w] \in {"active", "settling"}}
           f == Owes
<1>1. /\ f \in [Wagers -> Nat] /\ IsFiniteSet(Wagers) /\ Amount \in Nat
      /\ \A v \in Wagers : f[v] = OwedTo(v)
      /\ Owed = SumFunctionOnSet(f, Wagers)
  BY OwedFacts, CustodyConstants DEF Owes, Owed
<1>2. Wagers \cap U = U /\ OutstandingLiability = Amount * Cardinality(U)
  BY DEF CustodyTypeOK, OutstandingLiability
<1>3. ASSUME NEW v \in Wagers
      PROVE  f[v] \in Int /\ (v \in U => f[v] <= Amount) /\ (v \notin U => f[v] <= 0)
  <2>1. f[v] \in Nat /\ f[v] = OwedTo(v)
    BY <1>1
  <2>2. stage[v] \in {"active", "settling"} => OwedTo(v) <= Amount
    BY ToPayFacts
  <2>3. stage[v] \in Stage /\ stage[v] \notin {"sent", "failed"}
        /\ (stage[v] \in {"active", "settling"} => v \in known)
    BY DEF Hidden, CustodyTypeOK
  <2>4. v \notin U => OwedTo(v) = 0
    BY <2>3 DEF OwedTo, Stage
  <2> QED BY <2>1, <2>2, <2>4
<1>4. Cardinality(U) \in Nat
  <2>1. IsFiniteSet(U)
    BY <1>1, FS_Subset DEF CustodyTypeOK
  <2> QED BY <2>1, FS_CardinalityType
<1> HIDE DEF U, f
<1>5. SumFunctionOnSet(f, Wagers) <= Amount * Cardinality(Wagers \cap U)
  BY <1>1, <1>3, SumCounted
<1>6. Owed <= OutstandingLiability
  BY <1>1, <1>2, <1>5, Zenon
<1>7. OutstandingLiability \in Nat
  BY <1>1, <1>2, <1>4
<1> QED BY <1>6, <1>7

(* A rent burn is decided on a balance above the liability: when that      *)
(* balance still stands and no wager was hidden, it is above what is owed. *)
LEMMA ComposeBacked ==
  ASSUME CustodyTypeOK, RecordsFit, CustodyTypeOK', RecordsFit', Solvent, ViewsFit,
         NEW w \in Wagers, Compose(w)
  PROVE  Solvent' /\ ViewsFit'
<1> DEFINE c == call[w]
<1>1. PICK create \in BOOLEAN :
        LET burns == /\ create
                     /\ c.leg \notin {"recirculate", "burn"}
                     /\ Affordable(c, plan[w][c.leg])
        IN /\ call' = [call EXCEPT ![w].pc = "sent",
                                   ![w].burn = IF burns THEN Rent ELSE 0]
           /\ misjudged' = misjudged \cup
                (IF burns /\ Hidden # {} THEN {"hidden"} ELSE {})
  BY DEF Compose
<1> DEFINE burns == /\ create
                    /\ c.leg \notin {"recirculate", "burn"}
                    /\ Affordable(c, plan[w][c.leg])
           b == IF burns THEN Rent ELSE 0
<1>2. /\ c # Idle /\ c \in Call
      /\ UNCHANGED <<dedicated, bal, stage, credited, plan, done, known>>
  BY DEF Compose, wagerVars, CustodyTypeOK
<1>3. /\ call'[w] = [c EXCEPT !.pc = "sent", !.burn = b]
      /\ \A v \in Wagers \ {w} : call'[v] = call[v]
  BY <1>1, <1>2 DEF CustodyTypeOK
<1>4. call'[w].read = c.read /\ call'[w].late = c.late /\ call'[w].burn = b
  BY <1>2, <1>3 DEF Call
<1>5. misjudged \subseteq misjudged' /\ (burns /\ misjudged' = {} => Hidden = {})
  BY <1>1
<1>6. Owed' = Owed /\ Escrow' = Escrow /\ Owed \in Nat /\ bal[Escrow] \in Nat /\ Rent \in Nat
  <2>1. Owes' = Owes
    BY <1>2 DEF Owes, OwedTo, Todo, LegsOf
  <2> QED BY <1>2, <2>1, OwedFacts, CustodyConstants DEF Owed, Escrow
<1>7. Solvent'
  BY <1>2, <1>5, <1>6 DEF Solvent
<1>8. ASSUME NEW v \in Wagers \ {w} PROVE ReadFits(v)' /\ BurnFits(v)'
  BY <1>2, <1>3, <1>5, <1>6 DEF ViewsFit, ReadFits, BurnFits
<1>9. ReadFits(w) /\ c.read \in Nat
  BY <1>2 DEF ViewsFit, Call
<1>10. ReadFits(w)'
  BY <1>2, <1>4, <1>6, <1>9 DEF ReadFits
<1>11. BurnFits(w)'
  <2>1. SUFFICES ASSUME misjudged' = {}, ~c.late, burns
                 PROVE  bal[Escrow] >= Owed + Rent
    BY <1>2, <1>4, <1>6 DEF BurnFits
  <2>2. Owed <= OutstandingLiability /\ OutstandingLiability \in Nat
    BY <1>5, <2>1, LiabilityCovers
  <2>3. c.read - OutstandingLiability >= Rent
    BY <2>1 DEF Affordable
  <2>4. bal[Escrow] >= c.read
    BY <1>2, <1>9, <2>1 DEF ReadFits
  <2> QED BY <1>6, <1>9, <2>2, <2>3, <2>4
<1> QED BY <1>7, <1>8, <1>10, <1>11 DEF ViewsFit

(* The payment takes from the balance what it takes from what is owed; the *)
(* rent burn with it comes from a surplus, or was misjudged.               *)
LEMMA LandsBacked ==
  ASSUME CustodyTypeOK, RecordsFit, PaidFit, CustodyTypeOK', Solvent, ViewsFit,
         NEW w \in Wagers, Lands(w)
  PROVE  Solvent' /\ ViewsFit'
<1> DEFINE c == call[w]  tokens == plan[w][c.leg]
<1>1. /\ RecordsFit' /\ OwedTo(w) = tokens + OwedTo(w)' /\ OwedTo(w)' \in Nat
      /\ \A v \in Wagers \ {w} : OwedTo(v)' = OwedTo(v)
  BY LandsStep
<1>2. Transact(w) /\ dedicated' = dedicated
      /\ misjudged' = misjudged \cup (IF c.burn > 0 /\ c.late THEN {"late"} ELSE {})
  BY DEF Lands
<1>3. /\ c # Idle /\ call'[w] = Idle /\ c.leg \in Leg /\ tokens \in Nat
      /\ dedicated \/ c.leg # "recirculate"
      /\ \A v \in Wagers \ {w} : call'[v] # Idle => call'[v].late
  BY <1>2, PaymentEffect
<1>4. c.burn \in {0, Rent} /\ c.late \in BOOLEAN /\ Rent \in Nat
  BY <1>3, CustodyConstants DEF CustodyTypeOK, Call
<1>5. /\ bal[Escrow] \in Nat /\ Escrow \in Purse /\ Escrow' = Escrow
      /\ Escrow = "treasury" => c.leg # "recirculate"
  BY <1>2, <1>3, OwedFacts DEF Escrow
<1>6. bal'[Escrow] = bal[Escrow] - (tokens + c.burn)
  <2>1. bal' = [p \in Purse |-> bal[p] - (IF p = Escrow THEN tokens + c.burn ELSE 0)
                     + (IF p = "treasury" /\ c.leg = "recirculate" THEN tokens ELSE 0)]
    BY <1>2 DEF Transact
  <2>2. bal'[Escrow] = bal[Escrow] - (tokens + c.burn) + 0
    BY <1>5, <2>1
  <2> QED BY <1>3, <1>4, <1>5, <2>2
<1>7. /\ Owed' = Owed + (OwedTo(w)' - OwedTo(w)) /\ Owed' \in Nat /\ Owed \in Nat
      /\ OwedTo(w) \in Nat
  BY <1>1, OwedChange
<1> HIDE DEF c, tokens
<1>8. Solvent'
  <2>1. SUFFICES ASSUME misjudged' = {} PROVE bal'[Escrow] >= Owed'
    BY <1>5 DEF Solvent
  <2>2. misjudged = {} /\ (c.burn > 0 => ~c.late)
    BY <1>2, <2>1
  <2>3. bal[Escrow] >= Owed
    BY <2>2 DEF Solvent
  <2>4. Owed' = Owed - tokens
    BY <1>1, <1>3, <1>7
  <2>5. CASE c.burn = 0
    BY <1>3, <1>5, <1>6, <1>7, <2>3, <2>4, <2>5
  <2>6. CASE c.burn = Rent /\ c.burn > 0
    <3>1. bal[Escrow] >= Owed + Rent
      BY <1>3, <2>2, <2>6 DEF ViewsFit, BurnFits, c
    <3> QED BY <1>3, <1>4, <1>5, <1>6, <1>7, <2>4, <2>6, <3>1
  <2> QED BY <1>4, <2>5, <2>6
<1>9. ASSUME NEW v \in Wagers PROVE ReadFits(v)' /\ BurnFits(v)'
  BY <1>3 DEF ReadFits, BurnFits
<1> QED BY <1>8, <1>9 DEF ViewsFit

(* A payment that is not seen is a repeated one; the other calls are late. *)
LEMMA UnseenBacked ==
  ASSUME CustodyTypeOK, RecordsFit, NEW w \in Wagers, LandsUnseen(w)
  PROVE  Solvent' /\ ViewsFit'
<1>1. Transact(w) /\ misjudged' = misjudged \cup {"repeated"}
  BY DEF LandsUnseen
<1>2. /\ call'[w] = Idle
      /\ \A v \in Wagers \ {w} : call'[v] # Idle => call'[v].late
  BY <1>1, PaymentEffect
<1>3. ASSUME NEW v \in Wagers PROVE ReadFits(v)' /\ BurnFits(v)'
  BY <1>2 DEF ReadFits, BurnFits
<1> QED BY <1>1, <1>3 DEF Solvent, ViewsFit

(* A swap is paid from an account of its own, or from the surplus, or was  *)
(* paid beyond it.                                                         *)
LEMMA SwapBacked ==
  ASSUME CustodyTypeOK, RecordsFit, PaidFit, CustodyTypeOK', RecordsFit', Solvent, ViewsFit,
         NEW s \in Swaps, SwapLands(s)
  PROVE  Solvent' /\ ViewsFit'
<1>1. /\ UNCHANGED <<dedicated, stage, credited, plan, done, known>>
      /\ bal' = [bal EXCEPT !["treasury"] = @ - Payout]
      /\ call' = IF dedicated THEN call ELSE Outdate(call)
      /\ misjudged' = misjudged \cup
           (IF ~dedicated /\ bal["treasury"] - Payout < Owed THEN {"swapped"} ELSE {})
  BY DEF SwapLands, wagerVars
<1>2. /\ Owed' = Owed /\ Escrow' = Escrow /\ Owed \in Nat /\ bal[Escrow] \in Nat
      /\ Payout \in Nat /\ \A v \in Wagers : OwedTo(v)' = OwedTo(v) /\ OwedTo(v) \in Nat
  <2>1. Owes' = Owes
    BY <1>1 DEF Owes, OwedTo, Todo, LegsOf
  <2>2. \A v \in Wagers : OwedTo(v)' = OwedTo(v)
    BY <1>1 DEF OwedTo, Todo, LegsOf
  <2>3. \A v \in Wagers : OwedTo(v) \in Nat
    BY ToPayFacts
  <2> QED BY <1>1, <2>1, <2>2, <2>3, OwedFacts, CustodyConstants DEF Owed, Escrow
<1>3. CASE dedicated
  <2>1. bal'[Escrow] = bal[Escrow] /\ call' = call
    BY <1>1, <1>3 DEF Escrow, CustodyTypeOK, Purse
  <2>2. bal'[Escrow] >= bal[Escrow] /\ \A v \in Wagers : OwedTo(v)' <= OwedTo(v)
    BY <1>2, <2>1
  <2> QED BY <1>1, <2>1, <2>2, QuietStep
<1>4. CASE ~dedicated
  <2>1. Escrow = "treasury" /\ bal'[Escrow] = bal[Escrow] - Payout
    BY <1>1, <1>4 DEF Escrow, CustodyTypeOK, Purse
  <2>2. Solvent'
    <3>1. SUFFICES ASSUME misjudged' = {} PROVE bal'[Escrow] >= Owed
      BY <1>2 DEF Solvent
    <3>2. ~(bal["treasury"] - Payout < Owed)
      BY <1>1, <1>4, <3>1
    <3> QED BY <1>2, <2>1, <3>2
  <2>3. ASSUME NEW v \in Wagers, call'[v] # Idle PROVE call'[v].late
    <3>1. call'[v] = IF call[v] = Idle THEN Idle ELSE [call[v] EXCEPT !.late = TRUE]
      BY <1>1, <1>4 DEF Outdate
    <3>2. call[v] \in Call /\ call'[v] = [call[v] EXCEPT !.late = TRUE]
      BY <2>3, <3>1 DEF CustodyTypeOK
    <3> QED BY <3>2 DEF Call
  <2> QED BY <2>2, <2>3 DEF ViewsFit, ReadFits, BurnFits
<1> QED BY <1>3, <1>4

-----------------------------------------------------------------------------
(* Redeem swaps, and all steps together.                                   *)

(* Swap s: signed at most once; while it waits to be issued or is issued it*)
(* has been built, is at one place only, and is not signed yet.            *)
SwapFits(s) ==
    /\ cosigned[s] <= 1
    /\ s \in issuing => s <= built /\ pendingRedeem # s /\ cosigned[s] = 0
    /\ pendingRedeem = s => s <= built /\ cosigned[s] = 0
    /\ s > built => cosigned[s] = 0

SwapsFit == \A s \in Swaps : SwapFits(s)

(* A swap goes from the build to the gateway to the wallet and is used up  *)
(* when it comes back.                                                     *)
LEMMA SwapStep ==
  ASSUME CustodyTypeOK, SwapsFit, [CustodyNext]_custodyVars
  PROVE  SwapsFit'
<1> USE CustodyConstants DEF Swaps
<1>0. ASSUME UNCHANGED <<pendingRedeem, built, issuing, cosigned>>
      PROVE  SwapsFit'
  BY <1>0 DEF SwapsFit, SwapFits
<1>1. CASE BuildRedeemSwap
  BY <1>1 DEF BuildRedeemSwap, SwapsFit, SwapFits, CustodyTypeOK
<1>2. ASSUME NEW s \in Swaps, Issue(s) PROVE SwapsFit'
  BY <1>2 DEF Issue, SwapsFit, SwapFits, CustodyTypeOK
<1>3. ASSUME NEW s \in Swaps, SubmitRedeemSwap(s) PROVE SwapsFit'
  <2>1. /\ pendingRedeem' = 0 /\ built' = built /\ issuing' = issuing
        /\ \/ s = pendingRedeem /\ cosigned' = [cosigned EXCEPT ![s] = @ + 1]
           \/ cosigned' = cosigned
    BY <1>3 DEF SubmitRedeemSwap, CoSign
  <2>2. ASSUME NEW r \in Swaps PROVE SwapFits(r)'
    <3>1. SwapFits(r) /\ cosigned \in [Swaps -> Nat] /\ built \in Nat
      BY DEF SwapsFit, CustodyTypeOK
    <3>2. CASE r = s /\ s = pendingRedeem /\ cosigned' = [cosigned EXCEPT ![s] = @ + 1]
      <4>1. cosigned'[r] = 1 /\ r <= built /\ r \notin issuing
        BY <3>1, <3>2 DEF SwapFits
      <4> QED BY <2>1, <3>1, <4>1 DEF SwapFits
    <3>3. CASE cosigned'[r] = cosigned[r]
      BY <2>1, <3>1, <3>3 DEF SwapFits
    <3> QED BY <2>1, <3>1, <3>2, <3>3
  <2> QED BY <2>2 DEF SwapsFit
<1>4. CASE Restart
  BY <1>4 DEF Restart, SwapsFit, SwapFits
<1>5. CASE \E s \in Swaps : SwapLands(s) \/ SwapFails(s)
  BY <1>5, <1>0 DEF SwapLands, SwapFails
<1>6. CASE Booted
  BY <1>6, <1>0 DEF Booted, swapVars
<1>7. ASSUME NEW w \in Wagers,
             \/ \E tokens \in {Amount, Amount - 1} : Deposit(w, tokens)
             \/ Book(w) \/ Refuse(w) \/ \E p \in Plans : Resolve(w, p)
             \/ Sweep(w) \/ RecirculateToSelf(w)
             \/ \E l \in Leg : ReadBalance(w, l)
             \/ Compose(w) \/ Lands(w) \/ LandsUnseen(w) \/ Rejected(w) \/ Reconcile(w)
      PROVE  SwapsFit'
  <2>1. UNCHANGED swapVars
    BY <1>7 DEF Deposit, Book, Refuse, Resolve, Sweep, RecirculateToSelf, ReadBalance, Compose,
                Lands, LandsUnseen, Rejected, Reconcile
  <2> QED BY <1>0, <2>1 DEF swapVars
<1>8. CASE UNCHANGED custodyVars
  BY <1>0, <1>8 DEF custodyVars, swapVars
<1> QED BY <1>1, <1>2, <1>3, <1>4, <1>5, <1>6, <1>7, <1>8 DEF CustodyNext

(* The other steps move no tokens out of the escrow and owe nobody more.   *)
LEMMA BackedStep ==
  ASSUME CustodyTypeOK, RecordsFit, PaidFit, Solvent, ViewsFit, CustodyTypeOK',
         [CustodyNext]_custodyVars
  PROVE  RecordsFit' /\ PaidFit' /\ Solvent' /\ ViewsFit'
<1>0. Escrow \in Purse /\ bal[Escrow] \in Nat
  BY OwedFacts
<1>q. ASSUME RecordsFit', \A v \in Wagers : OwedTo(v)' <= OwedTo(v),
             UNCHANGED <<dedicated, bal>>, misjudged \subseteq misjudged',
             \A v \in Wagers : \/ call'[v] = Idle \/ call'[v] = call[v]
                               \/ call'[v].read <= bal[Escrow] /\ call'[v].burn = 0
      PROVE  Solvent' /\ ViewsFit'
  <2>1. bal'[Escrow] >= bal[Escrow]
    BY <1>0, <1>q
  <2> QED BY <1>q, <2>1, QuietStep
<1>1. ASSUME NEW w \in Wagers, NEW tokens \in {Amount, Amount - 1}, Deposit(w, tokens)
      PROVE  RecordsFit' /\ PaidFit' /\ Solvent' /\ ViewsFit'
  BY <1>1, DepositStep, DepositBacked
<1>2. ASSUME NEW w \in Wagers, Book(w) \/ Refuse(w)
      PROVE  RecordsFit' /\ PaidFit' /\ Solvent' /\ ViewsFit'
  <2>1. UNCHANGED <<dedicated, bal, call, misjudged>>
    BY <1>2 DEF Book, Refuse
  <2> QED BY <1>2, <1>q, <2>1, BookStep
<1>3. ASSUME NEW w \in Wagers,
             (\E p \in Plans : Resolve(w, p)) \/ Sweep(w) \/ Reconcile(w)
      PROVE  RecordsFit' /\ PaidFit' /\ Solvent' /\ ViewsFit'
  <2>1. UNCHANGED <<dedicated, bal, call, misjudged>>
    BY <1>3 DEF Resolve, Sweep, Reconcile
  <2> QED BY <1>3, <1>q, <2>1, SettleStep
<1>4. ASSUME NEW w \in Wagers, RecirculateToSelf(w)
      PROVE  RecordsFit' /\ PaidFit' /\ Solvent' /\ ViewsFit'
  <2>1. UNCHANGED <<dedicated, bal, call, misjudged>>
    BY <1>4 DEF RecirculateToSelf
  <2> QED BY <1>4, <1>q, <2>1, KeptInStep
<1>5. ASSUME NEW w \in Wagers, NEW l \in Leg, ReadBalance(w, l)
      PROVE  RecordsFit' /\ PaidFit' /\ Solvent' /\ ViewsFit'
  <2>1. RecordsFit' /\ PaidFit' /\ \A v \in Wagers : OwedTo(v)' <= OwedTo(v)
    BY <1>5, FailStep
  <2>2. /\ UNCHANGED <<dedicated, bal, misjudged>>
        /\ \/ call' = call
           \/ call' = [call EXCEPT ![w] = [pc |-> "checked", leg |-> l, read |-> bal[Escrow],
                                           burn |-> 0, late |-> FALSE]]
    BY <1>5 DEF ReadBalance
  <2>3. ASSUME NEW v \in Wagers
        PROVE  \/ call'[v] = Idle \/ call'[v] = call[v]
               \/ call'[v].read <= bal[Escrow] /\ call'[v].burn = 0
    BY <1>0, <2>2 DEF CustodyTypeOK
  <2> QED BY <1>q, <2>1, <2>2, <2>3
<1>6. ASSUME NEW w \in Wagers, Rejected(w)
      PROVE  RecordsFit' /\ PaidFit' /\ Solvent' /\ ViewsFit'
  <2>1. RecordsFit' /\ PaidFit' /\ \A v \in Wagers : OwedTo(v)' <= OwedTo(v)
    BY <1>6, FailStep
  <2>2. UNCHANGED <<dedicated, bal, misjudged>> /\ call' = [call EXCEPT ![w] = Idle]
    BY <1>6 DEF Rejected
  <2>3. \A v \in Wagers : call'[v] = Idle \/ call'[v] = call[v]
    BY <2>2 DEF CustodyTypeOK
  <2> QED BY <1>q, <2>1, <2>2, <2>3
<1>7. ASSUME NEW w \in Wagers, Compose(w)
      PROVE  RecordsFit' /\ PaidFit' /\ Solvent' /\ ViewsFit'
  BY <1>7, FailStep, ComposeBacked
<1>8. ASSUME NEW w \in Wagers, Lands(w)
      PROVE  RecordsFit' /\ PaidFit' /\ Solvent' /\ ViewsFit'
  BY <1>8, LandsStep, LandsBacked
<1>9. ASSUME NEW w \in Wagers, LandsUnseen(w)
      PROVE  RecordsFit' /\ PaidFit' /\ Solvent' /\ ViewsFit'
  BY <1>9, FailStep, UnseenBacked
<1>10. ASSUME NEW s \in Swaps, SwapLands(s)
       PROVE  RecordsFit' /\ PaidFit' /\ Solvent' /\ ViewsFit'
  BY <1>10, RestStep, SwapBacked
<1>11. CASE \/ BuildRedeemSwap \/ Restart \/ Booted \/ UNCHANGED custodyVars
            \/ \E s \in Swaps : Issue(s) \/ SubmitRedeemSwap(s) \/ SwapFails(s)
  <2>1. RecordsFit' /\ PaidFit' /\ \A v \in Wagers : OwedTo(v)' <= OwedTo(v)
    BY <1>11, RestStep
  <2>2. UNCHANGED <<dedicated, bal, misjudged>>
        /\ (call' = call \/ call' = [v \in Wagers |-> Idle])
    BY <1>11 DEF BuildRedeemSwap, Restart, Booted, Issue, SubmitRedeemSwap, SwapFails,
                 custodyVars
  <2> QED BY <1>q, <2>1, <2>2
<1> QED BY <1>1, <1>2, <1>3, <1>4, <1>5, <1>6, <1>7, <1>8, <1>9, <1>10, <1>11
        DEF CustodyNext

-----------------------------------------------------------------------------
(* What holds in every state.                                              *)
CustodyInv ==
    /\ CustodyTypeOK
    /\ RecordsFit
    /\ PaidFit
    /\ Solvent
    /\ ViewsFit
    /\ SwapsFit

(* The empty account owes nothing.                                         *)
LEMMA CustodyStarts == CustodyInit => CustodyInv
<1> SUFFICES ASSUME CustodyInit PROVE CustodyInv
  OBVIOUS
<1> USE CustodyConstants DEF CustodyInit
<1>1. CustodyTypeOK
  <2>1. /\ stage \in [Wagers -> Stage] /\ credited \in [Wagers -> Nat]
        /\ plan \in [Wagers -> [Leg -> Nat]] /\ done \in [Wagers -> SUBSET Leg]
        /\ known \subseteq Wagers /\ running \subseteq known
        /\ out \in [Wagers -> Nat] /\ call \in [Wagers -> Call \cup {Idle}]
        /\ \A w \in Wagers : call[w] # Idle => w \in running
    BY DEF Stage
  <2>2. /\ bal \in [Purse -> Nat] /\ dedicated \in BOOLEAN /\ booting \in BOOLEAN
        /\ issuing \subseteq Swaps /\ flying \subseteq Swaps
        /\ cosigned \in [Swaps -> Nat]
        /\ misjudged \subseteq {"late", "hidden", "repeated", "swapped"}
    OBVIOUS
  <2>3. /\ retries \in [Wagers -> 0..MaxRetries] /\ restarts \in 0..MaxRestarts
        /\ pendingRedeem \in 0..MaxSwaps /\ built \in 0..MaxSwaps
    OBVIOUS
  <2> QED BY <2>1, <2>2, <2>3 DEF CustodyTypeOK
<1>2. RecordsFit /\ PaidFit
  BY DEF RecordsFit, RecordFits, PaidFit, PaidFits, Settled
<1>3. ViewsFit
  BY DEF ViewsFit, ReadFits, BurnFits
<1>4. SwapsFit
  BY DEF SwapsFit, SwapFits, Swaps
<1>5. Solvent
  <2>1. \A w \in Wagers : Owes[w] = 0
    BY DEF Owes, OwedTo
  <2>2. Owed = 0
    BY <2>1, SumZero DEF Owed
  <2> QED BY <2>2 DEF Solvent, Escrow, Purse
<1> QED BY <1>1, <1>2, <1>3, <1>4, <1>5 DEF CustodyInv

(* Every step keeps the invariant.                                         *)
LEMMA CustodyKept == CustodyInv /\ [CustodyNext]_custodyVars => CustodyInv'
<1> SUFFICES ASSUME CustodyInv, [CustodyNext]_custodyVars PROVE CustodyInv'
  OBVIOUS
<1>1. CustodyTypeOK'
  BY CustodyTypeStep DEF CustodyInv
<1>2. RecordsFit' /\ PaidFit' /\ Solvent' /\ ViewsFit'
  BY <1>1, BackedStep DEF CustodyInv
<1>3. SwapsFit'
  BY SwapStep DEF CustodyInv
<1> QED BY <1>1, <1>2, <1>3 DEF CustodyInv

(* The inductive invariant of the escrow account holds in every state.     *)
THEOREM CustodyInvariant == CustodySpec => []CustodyInv
BY CustodyStarts, CustodyKept, PTL DEF CustodySpec

(* Types, among them that no balance and no retry counter leaves its       *)
(* range.                                                                  *)
THEOREM CustodyTyped == CustodySpec => []CustodyTypeOK
BY CustodyInvariant, PTL DEF CustodyInv

(* The escrow holds what it owes through every interleaving of deposits,   *)
(* payouts, rent burns, swaps and restarts, until tokens leave on one of   *)
(* the four wrong views (bet-escrow-chain.ts).                             *)
THEOREM EscrowSolvent == CustodySpec => []Solvent
BY CustodyInvariant, PTL DEF CustodyInv

(* A settled wager has nothing to pay any more.                            *)
LEMMA PaidExactly == CustodyInv => SettledExactly
<1> SUFFICES ASSUME CustodyInv, NEW w \in Wagers,
                    stage[w] = "settled", "repeated" \notin misjudged
             PROVE  out[w] = Amount - (IF dedicated THEN 0 ELSE plan[w]["recirculate"])
  BY DEF SettledExactly
<1>1. Todo(w) = {} /\ PlanFits(plan[w]) /\ out[w] + Kept(w) + ToPay(w) = Amount
  BY DEF CustodyInv, RecordsFit, RecordFits, PaidFit, PaidFits, Settled
<1>2. ToPay(w) = 0
  BY <1>1, SumEmpty DEF ToPay
<1>3. plan[w]["recirculate"] \in Nat /\ out[w] \in Nat
  BY <1>1, Legs DEF PlanFits, CustodyInv, CustodyTypeOK
<1>4. Kept(w) = IF dedicated THEN 0 ELSE plan[w]["recirculate"]
  <2>1. plan[w]["recirculate"] > 0 => "recirculate" \in done[w]
    BY <1>1, Legs DEF Todo, LegsOf
  <2> QED BY <1>3, <2>1 DEF Kept
<1> QED BY <1>1, <1>2, <1>3, <1>4

(* Every settled wager took exactly the wager out of the escrow, for every *)
(* split and rounding and however often its settlement was resumed, unless *)
(* a payment was repeated (bet-escrow.ts).                                 *)
THEOREM SettlementExact == CustodySpec => []SettledExactly
BY CustodyInvariant, PaidExactly, PTL

(* The treasury co-signs each redeem swap at most once, however builds,    *)
(* submits and restarts overlap (gateway.ts, iou-redeemer.ts).             *)
THEOREM SwapSignedOnce == CustodySpec => []RedeemOnce
<1>1. CustodyInv => RedeemOnce
  BY DEF CustodyInv, SwapsFit, SwapFits, RedeemOnce
<1> QED BY CustodyInvariant, <1>1, PTL

-----------------------------------------------------------------------------
(* The credits.                                                            *)

(* A finite bag of numbers.                                                *)
NumberBag(B) == IsABag(B) /\ DOMAIN B \subseteq Int /\ IsFiniteSet(DOMAIN B)

(* The empty bag is worth nothing.                                         *)
LEMMA WorthOfNone == NumberBag(EmptyBag) /\ Worth(EmptyBag) = 0
<1>1. EmptyBag = [e \in {} |-> 1] /\ DOMAIN EmptyBag = {}
  BY DEF EmptyBag, SetToBag
<1>2. IsFiniteSet({})
  BY FS_EmptySet
<1>3. IsABag(EmptyBag)
  BY <1>1 DEF IsABag
<1>4. Worth(EmptyBag) = 0
  BY <1>1, SumEmpty DEF Worth
<1> QED BY <1>1, <1>2, <1>3, <1>4 DEF NumberBag

(* The worth of a bag of numbers is a number.                              *)
LEMMA WorthType ==
  ASSUME NEW B, NumberBag(B)
  PROVE  /\ Worth(B) \in Int
         /\ DOMAIN B \subseteq Nat => Worth(B) \in Nat
<1> DEFINE f == [n \in DOMAIN B |-> n * B[n]]
<1>1. \A n \in DOMAIN B : n \in Int /\ B[n] \in Nat /\ f[n] = n * B[n]
  BY DEF NumberBag, IsABag
<1>2. \A n \in DOMAIN B : f[n] \in Int /\ (n \in Nat => f[n] \in Nat)
  BY <1>1
<1>3. IsFiniteSet(DOMAIN B) /\ Worth(B) = SumFunctionOnSet(f, DOMAIN B)
  BY DEF NumberBag, Worth
<1> HIDE DEF f
<1>4. Worth(B) \in Int
  BY <1>2, <1>3, SumInt
<1>5. ASSUME DOMAIN B \subseteq Nat PROVE Worth(B) \in Nat
  <2>1. \A n \in DOMAIN B : f[n] \in Nat
    BY <1>2, <1>5
  <2> QED BY <1>3, <2>1, SumNat
<1> QED BY <1>4, <1>5

(* One number more in a bag.                                               *)
LEMMA WorthMore ==
  ASSUME NEW B, NumberBag(B), NEW x \in Int
  PROVE  /\ NumberBag(B (+) One(x)) /\ Worth(B (+) One(x)) = Worth(B) + x
         /\ DOMAIN (B (+) One(x)) = DOMAIN B \cup {x}
<1> DEFINE C == B (+) One(x)  D == DOMAIN B
           f == [n \in D |-> n * B[n]]
           g == [n \in D \cup {x} |-> n * C[n]]
<1>1. /\ DOMAIN C = D \cup {x}
      /\ \A n \in D \cup {x} : C[n] = (IF n \in D THEN B[n] ELSE 0) + (IF n = x THEN 1 ELSE 0)
  BY DEF One, SetToBag, (+)
<1>2. IsFiniteSet(D) /\ D \subseteq Int /\ \A n \in D : B[n] \in Nat /\ B[n] > 0
  BY DEF NumberBag, IsABag
<1>3. IsFiniteSet(D \cup {x})
  BY <1>2, FS_AddElement
<1>4. IsABag(C)
  <2>1. C = [n \in D \cup {x} |-> C[n]]
    BY DEF One, SetToBag, (+)
  <2>2. \A n \in D \cup {x} : C[n] \in Nat /\ C[n] > 0
    BY <1>1, <1>2
  <2> HIDE DEF C
  <2> QED BY <1>1, <2>1, <2>2 DEF IsABag
<1>5. Worth(B) = SumFunctionOnSet(f, D) /\ Worth(C) = SumFunctionOnSet(g, D \cup {x})
  BY <1>1 DEF Worth
<1>6. \A n \in D : f[n] = n * B[n] /\ f[n] \in Int
  BY <1>2
<1>7. \A n \in D \cup {x} : g[n] = n * C[n] /\ g[n] \in Int
  BY <1>1, <1>2
<1>8. \A n \in D \ {x} : g[n] = f[n]
  BY <1>1, <1>2, <1>6, <1>7
<1>9. Worth(C) = Worth(B) + x
  <2>1. CASE x \in D
    <3>1. D \cup {x} = D
      BY <2>1
    <3>2. g[x] = f[x] + x
      <4>1. C[x] = B[x] + 1
        BY <1>1, <2>1
      <4>2. B[x] \in Int
        BY <1>2, <2>1
      <4> HIDE DEF C
      <4> QED BY <1>6, <1>7, <2>1, <4>1, <4>2
    <3> HIDE DEF f, g, C, D
    <3>3. SumFunctionOnSet(g, D) = SumFunctionOnSet(f, D) + (g[x] - f[x])
      BY <1>2, <1>6, <1>7, <1>8, <2>1, SumChange
    <3>4. SumFunctionOnSet(f, D) \in Int /\ f[x] \in Int
      BY <1>2, <1>6, <2>1, SumInt
    <3>5. Worth(C) = SumFunctionOnSet(g, D) /\ Worth(B) = SumFunctionOnSet(f, D)
      BY <1>5, <3>1, Zenon
    <3> QED BY <3>2, <3>3, <3>4, <3>5
  <2>2. CASE x \notin D
    <3>1. g[x] = x
      <4>1. C[x] = 1
        BY <1>1, <2>2
      <4> HIDE DEF C
      <4> QED BY <1>7, <4>1
    <3>2. \A n \in D : g[n] = f[n]
      BY <1>8, <2>2
    <3> HIDE DEF f, g, C, D
    <3>3. SumFunctionOnSet(g, D \cup {x}) = SumFunctionOnSet(g, D) + g[x]
      BY <1>2, <1>7, <2>2, SumAdd
    <3>4. SumFunctionOnSet(g, D) = SumFunctionOnSet(f, D)
      BY <1>2, <3>2, SumSame
    <3> QED BY <1>5, <3>1, <3>3, <3>4
  <2> QED BY <2>1, <2>2
<1> QED BY <1>1, <1>2, <1>3, <1>4, <1>9 DEF NumberBag

(* One number less.                                                        *)
LEMMA WorthLess ==
  ASSUME NEW B, NumberBag(B), NEW x \in DOMAIN B
  PROVE  /\ NumberBag(B (-) One(x)) /\ Worth(B (-) One(x)) = Worth(B) - x
         /\ DOMAIN (B (-) One(x)) \subseteq DOMAIN B
<1> DEFINE C == B (-) One(x)  D == DOMAIN B
           L == [n \in D |-> IF n \in {x} THEN B[n] - 1 ELSE B[n]]
           E == {n \in D : L[n] > 0}
           f == [n \in D |-> n * B[n]]
           g == [n \in D |-> n * L[n]]
           h == [n \in E |-> n * C[n]]
<1>1. C = [n \in E |-> L[n]]
  <2>1. DOMAIN One(x) = {x} /\ One(x)[x] = 1
    BY DEF One, SetToBag
  <2>2. L = [n \in D |-> IF n \in DOMAIN One(x) THEN B[n] - One(x)[n] ELSE B[n]]
    BY <2>1
  <2> QED BY <2>2 DEF (-)
<1>2. IsFiniteSet(D) /\ D \subseteq Int /\ x \in D /\ \A n \in D : B[n] \in Nat /\ B[n] > 0
  BY DEF NumberBag, IsABag
<1>3. E \subseteq D /\ IsFiniteSet(E) /\ DOMAIN C = E
  <2>1. E \subseteq D
    OBVIOUS
  <2>2. DOMAIN C = E
    BY <1>1
  <2> HIDE DEF E, C
  <2> QED BY <1>2, <2>1, <2>2, FS_Subset
<1>4. \A n \in D : /\ L[n] \in Nat /\ f[n] \in Int /\ g[n] \in Int
                   /\ n # x => g[n] = f[n]
                   /\ n \notin E => L[n] = 0
  BY <1>2
<1>5. IsABag(C)
  <2>1. \A n \in E : L[n] \in Nat /\ L[n] > 0
    BY <1>4
  <2> HIDE DEF L, E
  <2> QED BY <1>1, <2>1 DEF IsABag
<1>6. Worth(B) = SumFunctionOnSet(f, D) /\ Worth(C) = SumFunctionOnSet(h, E)
  BY <1>3 DEF Worth
<1>7. g[x] - f[x] = -x
  <2>1. L[x] = B[x] - 1 /\ B[x] \in Int /\ x \in Int
    BY <1>2
  <2>2. g[x] = x * L[x] /\ f[x] = x * B[x]
    BY <1>2
  <2> HIDE DEF L, g, f
  <2> QED BY <2>1, <2>2
<1>8. \A n \in E : h[n] = g[n]
  BY <1>1, <1>3
<1>9. \A n \in D \ E : g[n] = 0
  BY <1>2, <1>4
<1> HIDE DEF f, g, h, L, E, C, D
<1>10. SumFunctionOnSet(g, D) = SumFunctionOnSet(f, D) + (g[x] - f[x])
  BY <1>2, <1>4, SumChange
<1>11. SumFunctionOnSet(g, D) = SumFunctionOnSet(g, E) + SumFunctionOnSet(g, D \ E)
  <2>1. E \in SUBSET D /\ \A n \in D : g[n] \in Int
    BY <1>3, <1>4
  <2>2. IsFiniteSet(D)
    BY <1>2
  <2> QED BY <2>1, <2>2, SumSplit
<1>12. SumFunctionOnSet(g, D \ E) = 0 /\ SumFunctionOnSet(h, E) = SumFunctionOnSet(g, E)
  <2>1. IsFiniteSet(D \ E)
    BY <1>2, FS_Subset
  <2> QED BY <1>3, <1>8, <1>9, <2>1, SumZero, SumSame
<1>13. SumFunctionOnSet(f, D) \in Int /\ SumFunctionOnSet(g, E) \in Int /\ x \in Int
  <2>1. \A n \in E : g[n] \in Int
    BY <1>3, <1>4
  <2> QED BY <1>2, <1>3, <1>4, <2>1, SumInt
<1>14. Worth(C) = Worth(B) - x
  BY <1>6, <1>7, <1>10, <1>11, <1>12, <1>13
<1> QED BY <1>2, <1>3, <1>5, <1>14 DEF NumberBag, C, D

-----------------------------------------------------------------------------
(* Totals, gaps and the shape of a state.                                  *)

(* The ledger's constants, one by one.                                     *)
LEMMA LedgerConstants ==
  /\ \A n \in Yields \cup Forfeits : n \in Nat \ {0}
  /\ \A s \in Splits : s \in [Wallets -> 0..100]
  /\ VaultPercent \in 0..100 /\ FinderBonus \in 0..100 /\ SkimPercent \in 0..100
  /\ DeflectPercent \in 0..100 /\ StealPercents \subseteq 0..100
  /\ MinCost \in Nat \ {0} /\ MaxInFlight \in Nat \ {0}
  /\ Faults \subseteq FaultKinds /\ IsFiniteSet(Wallets)
BY LedgerAssumption

(* A percentage of an amount is within it.                                 *)
LEMMA PercentFits ==
  ASSUME NEW amount \in Nat, NEW percent \in 0..100
  PROVE  PercentOf(amount, percent) \in Nat /\ PercentOf(amount, percent) <= amount
<1>1. amount * percent \in Nat /\ amount * percent <= 100 * amount
  OBVIOUS
<1>2. /\ PercentOf(amount, percent) \in Nat
      /\ 100 * PercentOf(amount, percent) <= amount * percent
  BY <1>1, DivFacts DEF PercentOf
<1> QED BY <1>1, <1>2

(* Totals over the wallets.                                                *)
LEMMA TotalNat ==
  ASSUME NEW f, \A v \in Wallets : f[v] \in Nat
  PROVE  Total(f) \in Nat
BY LedgerConstants, SumNat DEF Total

(* A total when one wallet changes.                                        *)
LEMMA TotalSet ==
  ASSUME NEW f, NEW g, NEW w \in Wallets, \A v \in Wallets : f[v] \in Int /\ g[v] \in Int,
         \A v \in Wallets \ {w} : g[v] = f[v]
  PROVE  Total(g) = Total(f) + (g[w] - f[w])
BY LedgerConstants, SumChange DEF Total

(* A total of sums.                                                        *)
LEMMA TotalPlus ==
  ASSUME NEW f, NEW g, NEW h,
         \A v \in Wallets : f[v] \in Int /\ g[v] \in Int /\ h[v] = f[v] + g[v]
  PROVE  Total(h) = Total(f) + Total(g)
BY LedgerConstants, SumPlus DEF Total

(* A total of nothing.                                                     *)
LEMMA TotalZero ==
  ASSUME NEW f, \A v \in Wallets : f[v] = 0
  PROVE  Total(f) = 0
BY LedgerConstants, SumZero DEF Total

(* The total of one payment.                                               *)
LEMMA TotalOnly ==
  ASSUME NEW w \in Wallets, NEW amount \in Nat
  PROVE  /\ Only(w, amount) \in [Wallets -> Nat]
         /\ Total(Only(w, amount)) = amount
<1> DEFINE f == [v \in Wallets |-> 0]  g == Only(w, amount)
<1>1. /\ g \in [Wallets -> Nat] /\ g[w] = amount /\ f[w] = 0
      /\ \A v \in Wallets : f[v] = 0 /\ f[v] \in Int /\ g[v] \in Int
      /\ \A v \in Wallets \ {w} : g[v] = f[v]
  BY DEF Only
<1> HIDE DEF f, g
<1>2. Total(f) = 0 /\ Total(g) = Total(f) + (g[w] - f[w])
  BY <1>1, TotalZero, TotalSet
<1> QED BY <1>1, <1>2 DEF g

-----------------------------------------------------------------------------
(* The inserts in flight for a wallet, and its transfers.                  *)
PutsFit(w) == NumberBag(eventPuts[w]) /\ 0 \notin DOMAIN eventPuts[w]
BridgesFit(w) == NumberBag(bridges[w]) /\ DOMAIN bridges[w] \subseteq Nat \ {0}

(* The types, variable by variable.                                        *)
LedgerShape ==
    /\ pending \in [Wallets -> Nat] /\ offBook \in [Wallets -> Nat]
    /\ events \in [Wallets -> Int]
    /\ DOMAIN eventPuts = Wallets /\ DOMAIN bridges = Wallets
    /\ \A w \in Wallets : PutsFit(w) /\ BridgesFit(w)
    /\ vault \in Nat /\ vaultRow \in Nat /\ threat \in Nat /\ issued \in Nat /\ gone \in Nat
    /\ vaultPuts \in Seq(Nat)
    /\ IsABag(faults) /\ seen \subseteq FaultKinds

(* The types, bag by bag.                                                  *)
LEMMA LedgerTyped == LedgerTypeOK <=> LedgerShape
BY DEF LedgerTypeOK, LedgerShape, PutsFit, BridgesFit, NumberBag, seen

(* The balance of a wallet and what it spent without an event, beyond what *)
(* its events add up to; and the vault as the store will have it.          *)
Gap(w) == pending[w] + offBook[w] - (events[w] + Worth(eventPuts[w]))
Mirror == IF vaultPuts = <<>> THEN vaultRow ELSE vaultPuts[Len(vaultPuts)]
Excess == Total(pending) + vault + gone + Total(Bridged) - issued

(* The upserts in flight end with today's balance.                         *)
MirrorFits ==
    seen \cap {"lateWrite", "putFailed", "loadFailed"} = {} => Mirror = vault

(* The numbers of a state have their types.                                *)
LedgerNumeric ==
    /\ \A w \in Wallets : /\ pending[w] \in Nat /\ offBook[w] \in Nat /\ events[w] \in Int
                          /\ Worth(eventPuts[w]) \in Int /\ Bridged[w] \in Nat
                          /\ Gap(w) \in Int
    /\ Total(pending) \in Nat /\ Total(offBook) \in Nat /\ Total(Bridged) \in Nat
    /\ Mirror \in Nat

(* What the ledger's totals and gaps are made of.                          *)
LEMMA LedgerNumbers == LedgerTypeOK => LedgerNumeric
<1> SUFFICES ASSUME LedgerTypeOK PROVE LedgerNumeric
  OBVIOUS
<1>1. ASSUME NEW w \in Wallets
      PROVE  /\ pending[w] \in Nat /\ offBook[w] \in Nat /\ events[w] \in Int
             /\ Worth(eventPuts[w]) \in Int /\ Bridged[w] \in Nat /\ Gap(w) \in Int
  <2>1. pending[w] \in Nat /\ offBook[w] \in Nat /\ events[w] \in Int
    BY LedgerTyped DEF LedgerShape
  <2>2. NumberBag(eventPuts[w]) /\ NumberBag(bridges[w]) /\ DOMAIN bridges[w] \subseteq Nat
    BY LedgerTyped DEF LedgerShape, PutsFit, BridgesFit
  <2>3. Worth(eventPuts[w]) \in Int /\ Worth(bridges[w]) \in Nat
    BY <2>2, WorthType
  <2> QED BY <2>1, <2>3 DEF Gap, Bridged
<1>2. Total(pending) \in Nat /\ Total(offBook) \in Nat /\ Total(Bridged) \in Nat
  BY <1>1, TotalNat
<1>3. Mirror \in Nat
  <2>1. vaultPuts \in Seq(Nat) /\ vaultRow \in Nat
    BY LedgerTyped DEF LedgerShape
  <2> QED BY <2>1 DEF Mirror
<1> QED BY <1>1, <1>2, <1>3 DEF LedgerNumeric

(* ... and after a step.                                                   *)
LEMMA LedgerNumbersNext == LedgerTypeOK' => LedgerNumeric'
BY LedgerNumbers, PTL

(* ... and after a step.                                                   *)
LEMMA LedgerTypedNext == LedgerTypeOK' <=> LedgerShape'
BY LedgerTyped, PTL

(* The books, wallet by wallet: no event promises more than memory, and    *)
(* without a crash none promises less.                                     *)
GapsFit ==
    seen \cap {"putFailed", "loadFailed"} = {} =>
      \A w \in Wallets : Gap(w) >= 0 /\ ("crash" \notin seen => Gap(w) = 0)
(* Credits held, under way and gone are the credits issued.                *)
NoExcess ==
    /\ seen \cap {"crash", "loadFailed", "unconfirmed"} = {}
    /\ "restart" \in seen => seen \cap {"putFailed", "lateWrite"} = {}
    => Excess = 0

(* The books, by their gaps.                                               *)
LEMMA BooksByGap ==
  LedgerTypeOK => (BookBalanced <=> GapsFit) /\ (Conserved <=> NoExcess)
<1> SUFFICES ASSUME LedgerTypeOK
             PROVE  (BookBalanced <=> GapsFit) /\ (Conserved <=> NoExcess)
  OBVIOUS
<1>1. \A w \in Wallets :
        /\ pending[w] + offBook[w] \in Int /\ events[w] + Worth(eventPuts[w]) \in Int
        /\ events[w] + Worth(eventPuts[w]) <= pending[w] + offBook[w] <=> Gap(w) >= 0
        /\ events[w] + Worth(eventPuts[w]) = pending[w] + offBook[w] <=> Gap(w) = 0
  BY LedgerNumbers DEF LedgerNumeric, Gap
<1>2. (issued = Total(pending) + vault + gone + Total(Bridged)) <=> Excess = 0
  <2>1. issued \in Nat /\ vault \in Nat /\ gone \in Nat
    BY LedgerTyped DEF LedgerShape
  <2> QED BY <2>1, LedgerNumbers DEF LedgerNumeric, Excess
<1>3. BookBalanced <=> GapsFit
  BY <1>1 DEF BookBalanced, GapsFit
<1>4. Conserved <=> NoExcess
  BY <1>2 DEF Conserved, NoExcess
<1> QED BY <1>3, <1>4

(* ... and after a step.                                                   *)
LEMMA BooksByGapNext ==
  LedgerTypeOK' => (BookBalanced' <=> GapsFit') /\ (Conserved' <=> NoExcess')
BY BooksByGap, PTL

(* A step that leaves the books as they were.                              *)
LEMMA SameBooks ==
  ASSUME LedgerTypeOK, LedgerTypeOK', BookBalanced, MirrorFits, Conserved,
         seen \subseteq seen',
         \/ "putFailed" \in seen'
         \/ \A w \in Wallets : Gap(w)' = Gap(w),
         \/ seen' \cap {"lateWrite", "putFailed"} # {}
         \/ Mirror = vault => Mirror' = vault',
         \/ "unconfirmed" \in seen'
         \/ Excess' = Excess
  PROVE  BookBalanced' /\ MirrorFits' /\ Conserved'
<1>1. BookBalanced'
  BY BooksByGap, BooksByGapNext DEF GapsFit
<1>2. MirrorFits'
  BY DEF MirrorFits
<1>3. Conserved'
  BY BooksByGap, BooksByGapNext DEF NoExcess
<1> QED BY <1>1, <1>2, <1>3

-----------------------------------------------------------------------------
(* What the parts of a step do.                                            *)

(* The inductive invariant of the ledger.                                  *)
LedgerInv == LedgerTypeOK /\ BookBalanced /\ MirrorFits /\ Conserved

(* A fault is remembered.                                                  *)
LEMMA FaultSeen ==
  ASSUME LedgerTypeOK, NEW kind, Fault(kind)
  PROVE  IsABag(faults)' /\ seen' = seen \cup {kind} /\ seen' \subseteq FaultKinds
<1>1. IsABag(faults) /\ seen \subseteq FaultKinds /\ kind \in FaultKinds
  BY LedgerTyped, LedgerConstants DEF LedgerShape, Fault
<1>2. faults' = faults (+) One(kind)
  BY DEF Fault
<1>3. /\ DOMAIN faults' = DOMAIN faults \cup {kind}
      /\ faults' = [k \in DOMAIN faults \cup {kind} |->
                      (IF k \in DOMAIN faults THEN faults[k] ELSE 0)
                      + (IF k \in {kind} THEN 1 ELSE 0)]
  BY <1>2 DEF One, SetToBag, (+)
<1>4. IsABag(faults')
  BY <1>1, <1>3 DEF IsABag
<1> QED BY <1>1, <1>3, <1>4 DEF seen, IsABag

(* A step without a fault leaves the memory of faults alone.               *)
LEMMA NoFault ==
  ASSUME LedgerTypeOK, faults' = faults
  PROVE  IsABag(faults)' /\ seen' = seen /\ seen' \subseteq FaultKinds
BY LedgerTyped DEF LedgerShape, seen, IsABag

(* An insert is issued, unless it is of nothing.                           *)
LEMMA InsertFits ==
  ASSUME NEW B, NumberBag(B), 0 \notin DOMAIN B, NEW delta \in Int
  PROVE  /\ NumberBag(Insert(B, delta)) /\ 0 \notin DOMAIN Insert(B, delta)
         /\ Worth(Insert(B, delta)) = Worth(B) + delta
<1>1. Worth(B) \in Int
  BY WorthType
<1>2. CASE delta = 0
  BY <1>1, <1>2 DEF Insert
<1>3. CASE delta # 0
  <2>1. Insert(B, delta) = B (+) One(delta)
    BY <1>3 DEF Insert
  <2>2. /\ NumberBag(B (+) One(delta)) /\ Worth(B (+) One(delta)) = Worth(B) + delta
        /\ DOMAIN (B (+) One(delta)) = DOMAIN B \cup {delta}
    BY WorthMore
  <2> QED BY <1>3, <2>1, <2>2
<1> QED BY <1>2, <1>3

(* Credits paid with their events.                                         *)
LEMMA PayEffect ==
  ASSUME LedgerTypeOK, NEW pay \in [Wallets -> Nat], AddPendingYield(pay),
         UNCHANGED <<offBook, events>>
  PROVE  /\ pending' \in [Wallets -> Nat] /\ DOMAIN eventPuts' = Wallets
         /\ \A v \in Wallets : PutsFit(v)' /\ Gap(v)' = Gap(v)
         /\ Total(pending)' = Total(pending) + Total(pay) /\ Total(pay) \in Nat
<1>1. /\ pending' = [v \in Wallets |-> pending[v] + pay[v]]
      /\ eventPuts' = [v \in Wallets |-> Insert(eventPuts[v], pay[v])]
  BY DEF AddPendingYield
<1>2. \A v \in Wallets : pending[v] \in Nat /\ pay[v] \in Nat
  BY LedgerNumbers DEF LedgerNumeric
<1>3. pending' \in [Wallets -> Nat]
  BY <1>1, <1>2
<1>4. ASSUME NEW v \in Wallets PROVE PutsFit(v)' /\ Gap(v)' = Gap(v)
  <2>1. NumberBag(eventPuts[v]) /\ 0 \notin DOMAIN eventPuts[v]
    BY LedgerTyped DEF LedgerShape, PutsFit
  <2>2. eventPuts'[v] = Insert(eventPuts[v], pay[v]) /\ pending'[v] = pending[v] + pay[v]
    BY <1>1
  <2>3. /\ NumberBag(eventPuts'[v]) /\ 0 \notin DOMAIN eventPuts'[v]
        /\ Worth(eventPuts'[v]) = Worth(eventPuts[v]) + pay[v]
    BY <1>2, <2>1, <2>2, InsertFits
  <2>4. Gap(v)' = Gap(v)
    <3>1. /\ offBook[v] \in Nat /\ events[v] \in Int /\ Worth(eventPuts[v]) \in Int
      BY LedgerNumbers DEF LedgerNumeric
    <3> QED BY <1>2, <2>2, <2>3, <3>1 DEF Gap
  <2> QED BY <2>3, <2>4 DEF PutsFit
<1>5. Total(pending') = Total(pending) + Total(pay)
  <2>1. \A v \in Wallets : pending[v] \in Int /\ pay[v] \in Int /\ pending'[v] = pending[v] + pay[v]
    BY <1>1, <1>2
  <2> QED BY <2>1, TotalPlus
<1>6. Total(pay) \in Nat
  BY <1>2, TotalNat
<1>7. Total(pending)' = Total(pending')
  BY DEF Total
<1> QED BY <1>1, <1>3, <1>4, <1>5, <1>6, <1>7

(* Credits withdrawn with their event.                                     *)
LEMMA WithdrawEffect ==
  ASSUME LedgerTypeOK, NEW w \in Wallets, NEW amount \in 0..pending[w], Withdraw(w, amount),
         UNCHANGED <<offBook, events>>
  PROVE  /\ pending' \in [Wallets -> Nat] /\ DOMAIN eventPuts' = Wallets /\ amount \in Nat
         /\ \A v \in Wallets : PutsFit(v)' /\ Gap(v)' = Gap(v)
         /\ Total(pending)' = Total(pending) - amount
<1>1. /\ pending' = [pending EXCEPT ![w] = @ - amount]
      /\ eventPuts' = [eventPuts EXCEPT ![w] = Insert(@, -amount)]
  BY DEF Withdraw
<1>2. /\ \A v \in Wallets : pending[v] \in Nat /\ PutsFit(v)
      /\ amount \in Nat /\ amount <= pending[w] /\ pending \in [Wallets -> Nat]
      /\ DOMAIN eventPuts = Wallets
  <2>1. \A v \in Wallets : pending[v] \in Nat /\ PutsFit(v)
    BY LedgerTyped, LedgerNumbers DEF LedgerNumeric, LedgerShape
  <2>2. pending[w] \in Nat
    BY <2>1
  <2> QED BY <2>1, <2>2, LedgerTyped DEF LedgerShape
<1>3. pending' \in [Wallets -> Nat]
  BY <1>1, <1>2
<1>4. ASSUME NEW v \in Wallets PROVE PutsFit(v)' /\ Gap(v)' = Gap(v)
  <2>1. NumberBag(eventPuts[v]) /\ 0 \notin DOMAIN eventPuts[v]
    BY <1>2 DEF PutsFit
  <2>2. /\ offBook[v] \in Nat /\ events[v] \in Int /\ Worth(eventPuts[v]) \in Int
    BY LedgerNumbers DEF LedgerNumeric
  <2>3. CASE v = w
    <3>1. eventPuts'[v] = Insert(eventPuts[v], -amount) /\ pending'[v] = pending[v] - amount
      BY <1>1, <1>2, <2>3
    <3>2. /\ NumberBag(eventPuts'[v]) /\ 0 \notin DOMAIN eventPuts'[v]
          /\ Worth(eventPuts'[v]) = Worth(eventPuts[v]) + (-amount)
      BY <1>2, <2>1, <3>1, InsertFits
    <3> QED BY <1>2, <2>2, <3>1, <3>2 DEF Gap, PutsFit
  <2>4. CASE v # w
    <3>1. eventPuts'[v] = eventPuts[v] /\ pending'[v] = pending[v]
      BY <1>1, <1>2, <2>4
    <3> QED BY <2>1, <3>1 DEF Gap, PutsFit
  <2> QED BY <2>3, <2>4
<1>5. Total(pending') = Total(pending) + (pending'[w] - pending[w])
  <2>1. /\ \A v \in Wallets : pending[v] \in Int /\ pending'[v] \in Int
        /\ \A v \in Wallets \ {w} : pending'[v] = pending[v]
    BY <1>1, <1>2, <1>3
  <2> QED BY <2>1, TotalSet
<1>6. Total(pending)' = Total(pending') /\ Total(pending) \in Nat
  BY LedgerNumbers DEF Total, LedgerNumeric
<1> QED BY <1>1, <1>2, <1>3, <1>4, <1>5, <1>6

(* The vault's upsert follows its balance.                                 *)
LEMMA VaultEffect ==
  ASSUME LedgerTypeOK, NEW balance \in Nat, SetVault(balance), UNCHANGED vaultRow
  PROVE  /\ vault' = balance /\ vaultPuts' \in Seq(Nat) /\ vaultRow' \in Nat
         /\ Mirror = vault => Mirror' = vault'
<1>1. vaultPuts \in Seq(Nat) /\ vaultRow \in Nat /\ vault \in Nat
  BY LedgerTyped DEF LedgerShape
<1>2. vault' = balance
      /\ vaultPuts' = IF balance = vault THEN vaultPuts ELSE Append(vaultPuts, balance)
  BY DEF SetVault
<1>3. CASE balance = vault
  BY <1>1, <1>2, <1>3 DEF Mirror
<1>4. CASE balance # vault
  <2>1. vaultPuts' = Append(vaultPuts, balance)
    BY <1>2, <1>4
  <2>2. /\ vaultPuts' \in Seq(Nat) /\ vaultPuts' # <<>> /\ vaultPuts'[Len(vaultPuts')] = balance
    BY <1>1, <2>1
  <2> QED BY <1>1, <1>2, <2>2 DEF Mirror
<1> QED BY <1>3, <1>4

(* The transfers of one wallet change.                                     *)
LEMMA BridgesSet ==
  ASSUME LedgerTypeOK, NEW w \in Wallets, NEW B, NEW change \in Int,
         bridges' = [bridges EXCEPT ![w] = B],
         NumberBag(B), DOMAIN B \subseteq Nat \ {0}, Worth(B) = Worth(bridges[w]) + change
  PROVE  /\ DOMAIN bridges' = Wallets /\ \A v \in Wallets : BridgesFit(v)'
         /\ Total(Bridged)' = Total(Bridged) + change
<1>1. /\ \A v \in Wallets : bridges'[v] = IF v = w THEN B ELSE bridges[v]
      /\ DOMAIN bridges' = Wallets
  BY LedgerTyped DEF LedgerShape
<1>2. \A v \in Wallets : BridgesFit(v)
  BY LedgerTyped DEF LedgerShape
<1>3. \A v \in Wallets : BridgesFit(v)'
  BY <1>1, <1>2 DEF BridgesFit
<1> DEFINE f == Bridged  g == Bridged'
<1>4. /\ \A v \in Wallets : g[v] = Worth(bridges'[v]) /\ f[v] = Worth(bridges[v])
      /\ f[w] = Worth(bridges[w]) /\ g[w] = Worth(B)
  BY <1>1 DEF Bridged
<1>5. \A v \in Wallets : f[v] \in Nat
  BY LedgerNumbers DEF LedgerNumeric
<1>6. Worth(B) \in Nat
  BY WorthType
<1>7. /\ \A v \in Wallets : f[v] \in Int /\ g[v] \in Int
      /\ \A v \in Wallets \ {w} : g[v] = f[v]
  BY <1>1, <1>4, <1>5, <1>6
<1>8. Total(Bridged)' = Total(g) /\ Total(Bridged) = Total(f) /\ Total(f) \in Nat
  BY LedgerNumbers DEF Total, LedgerNumeric
<1> HIDE DEF f, g
<1>9. Total(g) = Total(f) + (g[w] - f[w])
  BY <1>7, TotalSet
<1>10. g[w] - f[w] = change
  <2>1. f[w] \in Int /\ g[w] = f[w] + change
    BY <1>4, <1>7
  <2> QED BY <2>1
<1> QED BY <1>1, <1>3, <1>8, <1>9, <1>10

(* A transfer begins.                                                      *)
LEMMA BridgeBegins ==
  ASSUME LedgerTypeOK, NEW w \in Wallets, NEW amount \in Nat \ {0},
         bridges' = [bridges EXCEPT ![w] = @ (+) One(amount)]
  PROVE  /\ DOMAIN bridges' = Wallets /\ \A v \in Wallets : BridgesFit(v)'
         /\ Total(Bridged)' = Total(Bridged) + amount
<1> DEFINE B == bridges[w] (+) One(amount)
<1>1. NumberBag(bridges[w]) /\ DOMAIN bridges[w] \subseteq Nat \ {0}
  BY LedgerTyped DEF LedgerShape, BridgesFit
<1>2. NumberBag(B) /\ Worth(B) = Worth(bridges[w]) + amount /\ DOMAIN B \subseteq Nat \ {0}
  <2>1. amount \in Int
    OBVIOUS
  <2>2. NumberBag(B) /\ Worth(B) = Worth(bridges[w]) + amount
        /\ DOMAIN B = DOMAIN bridges[w] \cup {amount}
    BY <1>1, <2>1, WorthMore
  <2> QED BY <1>1, <2>2
<1>3. bridges' = [bridges EXCEPT ![w] = B] /\ amount \in Int
  OBVIOUS
<1> HIDE DEF B
<1> QED BY <1>2, <1>3, BridgesSet

(* A transfer ends.                                                        *)
LEMMA BridgeEnds ==
  ASSUME LedgerTypeOK, NEW w \in Wallets, NEW amount \in DOMAIN bridges[w],
         bridges' = [bridges EXCEPT ![w] = @ (-) One(amount)]
  PROVE  /\ DOMAIN bridges' = Wallets /\ \A v \in Wallets : BridgesFit(v)'
         /\ Total(Bridged)' = Total(Bridged) - amount
         /\ amount \in Nat \ {0}
<1> DEFINE B == bridges[w] (-) One(amount)
<1>1. NumberBag(bridges[w]) /\ DOMAIN bridges[w] \subseteq Nat \ {0} /\ amount \in Nat \ {0}
  BY LedgerTyped DEF LedgerShape, BridgesFit
<1>2. NumberBag(B) /\ Worth(B) = Worth(bridges[w]) - amount /\ DOMAIN B \subseteq Nat \ {0}
  BY <1>1, WorthLess
<1>3. bridges' = [bridges EXCEPT ![w] = B] /\ -amount \in Int
  BY <1>1
<1>4. Worth(bridges[w]) \in Int /\ Total(Bridged) \in Int
  BY <1>1, WorthType, LedgerNumbers DEF LedgerNumeric
<1>5. Worth(B) = Worth(bridges[w]) + (-amount)
  BY <1>1, <1>2, <1>4
<1> HIDE DEF B
<1>6. /\ DOMAIN bridges' = Wallets /\ \A v \in Wallets : BridgesFit(v)'
      /\ Total(Bridged)' = Total(Bridged) + (-amount)
  BY <1>2, <1>3, <1>5, BridgesSet
<1> QED BY <1>1, <1>4, <1>6

-----------------------------------------------------------------------------
(* The steps of the game.                                                  *)

(* What a step leaves alone keeps its shape.                               *)
LEMMA PutsSame ==
  ASSUME LedgerTypeOK, UNCHANGED <<eventPuts>>
  PROVE  DOMAIN eventPuts' = Wallets /\ \A v \in Wallets : PutsFit(v)'
BY LedgerTyped DEF LedgerShape, PutsFit

(* ... and the transfers under way.                                        *)
LEMMA BridgesSame ==
  ASSUME LedgerTypeOK, UNCHANGED <<bridges>>
  PROVE  /\ DOMAIN bridges' = Wallets /\ \A v \in Wallets : BridgesFit(v)'
         /\ Total(Bridged)' = Total(Bridged)
<1>1. Bridged' = Bridged
  BY DEF Bridged
<1>2. DOMAIN bridges' = Wallets /\ \A v \in Wallets : BridgesFit(v)'
  BY LedgerTyped DEF LedgerShape, BridgesFit
<1> QED BY <1>1, <1>2 DEF Total

(* A discovery issues what it pays, cut and bonus included.                *)
LEMMA DiscoverStep == ASSUME LedgerInv, Discover PROVE LedgerInv'
<1> USE DEF LedgerInv
<1>1. PICK total \in Yields, split \in Splits :
        \E finder \in {w \in Wallets : split[w] > 0} :
          LET cut == PercentOf(total, VaultPercent)
              pay == MinerPay(total - cut, split, finder)
          IN  /\ issued' = issued + cut + Total(pay)
              /\ AddPendingYield(pay)
              /\ SetVault(vault + cut)
  BY DEF Discover
<1>2. PICK finder \in Wallets :
          LET cut == PercentOf(total, VaultPercent)
              pay == MinerPay(total - cut, split, finder)
          IN  /\ issued' = issued + cut + Total(pay)
              /\ AddPendingYield(pay)
              /\ SetVault(vault + cut)
  BY <1>1
<1>3. UNCHANGED <<offBook, events, vaultRow, bridges, threat, gone, faults>>
  BY DEF Discover
<1> DEFINE cut == PercentOf(total, VaultPercent)
           pay == MinerPay(total - cut, split, finder)
<1>4. /\ total \in Nat /\ split \in [Wallets -> 0..100] /\ VaultPercent \in 0..100
      /\ FinderBonus \in 0..100
  BY LedgerConstants
<1>5. cut \in Nat /\ cut <= total
  BY <1>4, PercentFits
<1>6. pay \in [Wallets -> Nat]
  <2>1. total - cut \in Nat
    BY <1>4, <1>5
  <2> HIDE DEF cut
  <2>2. ASSUME NEW w \in Wallets
        PROVE  LET share == PercentOf(total - cut, split[w])
               IN share + (IF w = finder THEN PercentOf(share, FinderBonus) ELSE 0) \in Nat
    <3> DEFINE share == PercentOf(total - cut, split[w])
    <3>1. share \in Nat
      BY <1>4, <2>1, PercentFits
    <3> HIDE DEF share
    <3>2. PercentOf(share, FinderBonus) \in Nat
      BY <1>4, <3>1, PercentFits
    <3>3. share + (IF w = finder THEN PercentOf(share, FinderBonus) ELSE 0) \in Nat
      BY <3>1, <3>2
    <3> QED BY <3>3 DEF share
  <2> QED BY <2>2 DEF MinerPay
<1>7. issued' = issued + cut + Total(pay) /\ AddPendingYield(pay) /\ SetVault(vault + cut)
  BY <1>2
<1> HIDE DEF cut, pay
<1>8. /\ pending' \in [Wallets -> Nat] /\ DOMAIN eventPuts' = Wallets
      /\ \A v \in Wallets : PutsFit(v)' /\ Gap(v)' = Gap(v)
      /\ Total(pending)' = Total(pending) + Total(pay) /\ Total(pay) \in Nat
  BY <1>3, <1>6, <1>7, PayEffect
<1>9. vault \in Nat /\ issued \in Nat /\ gone \in Nat /\ LedgerShape
  BY LedgerTyped DEF LedgerShape
<1>10. /\ vault' = vault + cut /\ vaultPuts' \in Seq(Nat) /\ vaultRow' \in Nat
       /\ vault + cut \in Nat
       /\ Mirror = vault => Mirror' = vault'
  BY <1>3, <1>5, <1>7, <1>9, VaultEffect
<1>11. /\ DOMAIN bridges' = Wallets /\ \A v \in Wallets : BridgesFit(v)'
       /\ Total(Bridged)' = Total(Bridged)
  BY <1>3, BridgesSame
<1>12. IsABag(faults)' /\ seen' = seen /\ seen' \subseteq FaultKinds
  BY <1>3, NoFault
<1>13. Total(pending) \in Nat /\ Total(Bridged) \in Nat
  BY LedgerNumbers DEF LedgerNumeric
<1>14. issued' \in Nat /\ Excess' = Excess
  <2>1. issued' = issued + cut + Total(pay) /\ gone' = gone
    BY <1>3, <1>7
  <2>2. issued' \in Nat
    BY <1>5, <1>8, <1>9, <2>1
  <2>3. Excess' = Total(pending)' + vault' + gone' + Total(Bridged)' - issued'
    BY DEF Excess
  <2>4. Excess = Total(pending) + vault + gone + Total(Bridged) - issued
    BY DEF Excess
  <2>5. /\ Total(pending)' = Total(pending) + Total(pay) /\ vault' = vault + cut
        /\ Total(Bridged)' = Total(Bridged)
    BY <1>8, <1>10, <1>11
  <2>6. /\ Total(pay) \in Int /\ cut \in Int /\ vault \in Int /\ gone \in Int /\ issued \in Int
        /\ Total(pending) \in Int /\ Total(Bridged) \in Int
    BY <1>5, <1>8, <1>9, <1>13
  <2>7. Excess' = (Total(pending) + Total(pay)) + (vault + cut) + gone + Total(Bridged)
                   - (issued + cut + Total(pay))
    BY <2>1, <2>3, <2>5, Zenon
  <2> QED BY <2>2, <2>4, <2>6, <2>7
<1>15. LedgerTypeOK'
  <2>1. /\ UNCHANGED <<offBook, events, threat, gone>>
        /\ offBook \in [Wallets -> Nat] /\ events \in [Wallets -> Int]
        /\ threat \in Nat /\ gone \in Nat
    BY <1>3, <1>9 DEF LedgerShape
  <2>2. vault' \in Nat
    BY <1>10
  <2>3. LedgerShape'
    BY <1>8, <1>10, <1>11, <1>12, <1>14, <2>1, <2>2 DEF LedgerShape
  <2> QED BY <2>3, LedgerTypedNext
<1> QED BY <1>8, <1>10, <1>12, <1>14, <1>15, SameBooks

(* A lost raid issues what it moves, to a defender or to the vault.        *)
LEMMA ForfeitStep == ASSUME LedgerInv, Forfeit PROVE LedgerInv'
<1> USE DEF LedgerInv
<1>1. PICK amount \in Forfeits :
        /\ issued' = issued + amount
        /\ \/ \E w \in Wallets : AddPendingYield(Only(w, amount))
              /\ UNCHANGED <<vault, vaultPuts>>
           \/ SetVault(vault + amount) /\ UNCHANGED <<pending, eventPuts>>
  BY DEF Forfeit
<1>2. UNCHANGED <<offBook, events, vaultRow, bridges, threat, gone, faults>>
  BY DEF Forfeit
<1>3. amount \in Nat /\ LedgerShape
  BY LedgerConstants, LedgerTyped
<1>4. /\ DOMAIN bridges' = Wallets /\ \A v \in Wallets : BridgesFit(v)'
      /\ Total(Bridged)' = Total(Bridged)
  BY <1>2, BridgesSame
<1>5. IsABag(faults)' /\ seen' = seen /\ seen' \subseteq FaultKinds
  BY <1>2, NoFault
<1>6. Total(pending) \in Nat /\ Total(Bridged) \in Nat
  BY LedgerNumbers DEF LedgerNumeric
<1>7. ASSUME NEW w \in Wallets, AddPendingYield(Only(w, amount)), UNCHANGED <<vault, vaultPuts>>
      PROVE  LedgerInv'
  <2> DEFINE pay == Only(w, amount)
  <2>1. pay \in [Wallets -> Nat] /\ Total(pay) = amount /\ AddPendingYield(pay)
    BY <1>3, <1>7, TotalOnly
  <2> HIDE DEF pay
  <2>2. /\ pending' \in [Wallets -> Nat] /\ DOMAIN eventPuts' = Wallets
        /\ \A v \in Wallets : PutsFit(v)' /\ Gap(v)' = Gap(v)
        /\ Total(pending)' = Total(pending) + Total(pay)
    BY <1>2, <2>1, PayEffect
  <2>3. issued' \in Nat /\ Excess' = Excess
    BY <1>1, <1>2, <1>3, <1>4, <1>6, <1>7, <2>1, <2>2 DEF Excess, LedgerShape
  <2>4. LedgerTypeOK'
    BY <1>2, <1>3, <1>4, <1>5, <1>7, <2>2, <2>3, LedgerTypedNext DEF LedgerShape
  <2>5. Mirror' = Mirror
    BY <1>2, <1>7 DEF Mirror
  <2> QED BY <1>5, <1>7, <2>2, <2>3, <2>4, <2>5, SameBooks
<1>8. ASSUME SetVault(vault + amount), UNCHANGED <<pending, eventPuts>>
      PROVE  LedgerInv'
  <2>1. vault + amount \in Nat
    BY <1>3 DEF LedgerShape
  <2>2. /\ vault' = vault + amount /\ vaultPuts' \in Seq(Nat)
        /\ Mirror = vault => Mirror' = vault'
    BY <1>2, <1>8, <2>1, VaultEffect
  <2>3. DOMAIN eventPuts' = Wallets /\ \A v \in Wallets : PutsFit(v)'
    BY <1>8, PutsSame
  <2>4. Total(pending)' = Total(pending) /\ \A v \in Wallets : Gap(v)' = Gap(v)
    BY <1>2, <1>8 DEF Total, Gap
  <2>5. issued' \in Nat /\ Excess' = Excess
    BY <1>1, <1>2, <1>3, <1>4, <1>6, <2>2, <2>4 DEF Excess, LedgerShape
  <2>6. LedgerTypeOK'
    BY <1>2, <1>3, <1>4, <1>5, <1>8, <2>2, <2>3, <2>5, LedgerTypedNext DEF LedgerShape
  <2> QED BY <1>5, <2>2, <2>4, <2>5, <2>6, SameBooks
<1> QED BY <1>1, <1>7, <1>8

(* A won raid takes out of the vault what it pays.                         *)
LEMMA StealStep == ASSUME LedgerInv, NEW w \in Wallets, RaidSteal(w) PROVE LedgerInv'
<1> USE DEF LedgerInv
<1>1. PICK percent \in StealPercents :
        /\ AddPendingYield(Only(w, PercentOf(vault, percent)))
        /\ SetVault(vault - PercentOf(vault, percent))
  BY DEF RaidSteal
<1>2. UNCHANGED <<offBook, events, vaultRow, bridges, threat, issued, gone, faults>>
  BY DEF RaidSteal
<1> DEFINE stolen == PercentOf(vault, percent)  pay == Only(w, stolen)
<1>3. LedgerShape /\ vault \in Nat /\ percent \in 0..100
  BY LedgerConstants, LedgerTyped DEF LedgerShape
<1>4. stolen \in Nat /\ stolen <= vault
  BY <1>3, PercentFits
<1>5. AddPendingYield(pay) /\ SetVault(vault - stolen)
  BY <1>1
<1> HIDE DEF stolen
<1>6. pay \in [Wallets -> Nat] /\ Total(pay) = stolen
  BY <1>4, TotalOnly
<1> HIDE DEF pay
<1>7. /\ pending' \in [Wallets -> Nat] /\ DOMAIN eventPuts' = Wallets
      /\ \A v \in Wallets : PutsFit(v)' /\ Gap(v)' = Gap(v)
      /\ Total(pending)' = Total(pending) + Total(pay)
  BY <1>2, <1>5, <1>6, PayEffect
<1>8. /\ vault' = vault - stolen /\ vaultPuts' \in Seq(Nat) /\ vault - stolen \in Nat
      /\ Mirror = vault => Mirror' = vault'
  BY <1>2, <1>3, <1>4, <1>5, VaultEffect
<1>9. /\ DOMAIN bridges' = Wallets /\ \A v \in Wallets : BridgesFit(v)'
      /\ Total(Bridged)' = Total(Bridged)
  BY <1>2, BridgesSame
<1>10. IsABag(faults)' /\ seen' = seen /\ seen' \subseteq FaultKinds
  BY <1>2, NoFault
<1>11. Total(pending) \in Nat /\ Total(Bridged) \in Nat
  BY LedgerNumbers DEF LedgerNumeric
<1>12. Excess' = Excess
  BY <1>2, <1>3, <1>4, <1>6, <1>7, <1>8, <1>9, <1>11 DEF Excess, LedgerShape
<1>13. LedgerTypeOK'
  BY <1>2, <1>3, <1>7, <1>8, <1>9, <1>10, LedgerTypedNext DEF LedgerShape
<1> QED BY <1>7, <1>8, <1>10, <1>12, <1>13, SameBooks

(* A claim takes the whole balance, and its event.                         *)
LEMMA ClaimStep == ASSUME LedgerInv, NEW w \in Wallets, Claim(w) PROVE LedgerInv'
<1> USE DEF LedgerInv
<1>1. /\ Withdraw(w, pending[w]) /\ gone' = gone + pending[w]
      /\ UNCHANGED <<offBook, events, vault, vaultRow, vaultPuts, bridges, threat, issued, faults>>
  BY DEF Claim
<1>2. LedgerShape /\ pending[w] \in Nat /\ pending[w] \in 0..pending[w]
      /\ Total(pending) \in Nat /\ Total(Bridged) \in Nat
  BY LedgerTyped, LedgerNumbers DEF LedgerNumeric
<1>3. /\ pending' \in [Wallets -> Nat] /\ DOMAIN eventPuts' = Wallets
      /\ \A v \in Wallets : PutsFit(v)' /\ Gap(v)' = Gap(v)
      /\ Total(pending)' = Total(pending) - pending[w]
  BY <1>1, <1>2, WithdrawEffect
<1>4. /\ DOMAIN bridges' = Wallets /\ \A v \in Wallets : BridgesFit(v)'
      /\ Total(Bridged)' = Total(Bridged)
  BY <1>1, BridgesSame
<1>5. IsABag(faults)' /\ seen' = seen /\ seen' \subseteq FaultKinds
  BY <1>1, NoFault
<1>6. gone' \in Nat /\ Excess' = Excess
  BY <1>1, <1>2, <1>3, <1>4 DEF Excess, LedgerShape
<1>7. LedgerTypeOK'
  BY <1>1, <1>2, <1>3, <1>4, <1>5, <1>6, LedgerTypedNext DEF LedgerShape
<1>8. Mirror' = Mirror
  BY <1>1 DEF Mirror
<1> QED BY <1>1, <1>3, <1>5, <1>6, <1>7, <1>8, SameBooks

(* A meteor costs nothing until somebody pays.                             *)
LEMMA SpawnStep == ASSUME LedgerInv, SpawnMeteor PROVE LedgerInv'
<1> USE DEF LedgerInv
<1> DEFINE S == {MinCost, PercentOf(vault, DeflectPercent)}
<1>1. /\ threat' = Max(S)
      /\ UNCHANGED <<pending, offBook, events, eventPuts, vault, vaultRow, vaultPuts, bridges,
                     issued, gone, faults>>
  BY DEF SpawnMeteor
<1>2. LedgerShape /\ vault \in Nat
  BY LedgerTyped DEF LedgerShape
<1>3. MinCost \in Nat /\ PercentOf(vault, DeflectPercent) \in Nat
  BY <1>2, LedgerConstants, PercentFits
<1>4. threat' \in Nat
  <2>1. \E x \in S : \A y \in S : x >= y
    BY <1>3
  <2>2. Max(S) \in S
    BY <2>1 DEF Max
  <2> QED BY <1>1, <1>3, <2>2
<1>5. DOMAIN eventPuts' = Wallets /\ \A v \in Wallets : PutsFit(v)'
  BY <1>1, PutsSame
<1>6. /\ DOMAIN bridges' = Wallets /\ \A v \in Wallets : BridgesFit(v)'
      /\ Total(Bridged)' = Total(Bridged)
  BY <1>1, BridgesSame
<1>7. IsABag(faults)' /\ seen' = seen /\ seen' \subseteq FaultKinds
  BY <1>1, NoFault
<1>8. LedgerTypeOK'
  BY <1>1, <1>2, <1>4, <1>5, <1>6, <1>7, LedgerTypedNext DEF LedgerShape
<1>9. /\ \A v \in Wallets : Gap(v)' = Gap(v)
      /\ Excess' = Excess /\ Mirror' = Mirror
  BY <1>1, <1>6 DEF Gap, Excess, Mirror, Total
<1> QED BY <1>1, <1>7, <1>8, <1>9, SameBooks

(* A deflection moves the price into the vault and is booked as spent      *)
(* without an event; one that comes too late is refunded with an event.    *)
LEMMA DeflectStep == ASSUME LedgerInv, NEW w \in Wallets, Deflect(w) PROVE LedgerInv'
<1> USE DEF LedgerInv
<1>1. /\ threat > 0 /\ pending[w] >= threat
      /\ offBook' = [offBook EXCEPT ![w] = @ + threat]
      /\ \/ /\ pending' = [pending EXCEPT ![w] = @ - threat]
            /\ SetVault(vault + threat)
            /\ threat' = 0
            /\ UNCHANGED <<eventPuts, faults>>
         \/ /\ Fault("clockEdge")
            /\ eventPuts' = [eventPuts EXCEPT ![w] = Insert(@, threat)]
            /\ UNCHANGED <<pending, vault, vaultPuts, threat>>
      /\ UNCHANGED <<events, vaultRow, bridges, issued, gone>>
  BY DEF Deflect
<1>2. /\ LedgerShape /\ threat \in Nat /\ pending \in [Wallets -> Nat]
      /\ offBook \in [Wallets -> Nat] /\ vault \in Nat /\ DOMAIN eventPuts = Wallets
  BY LedgerTyped DEF LedgerShape
<1>3. /\ Total(pending) \in Nat /\ Total(Bridged) \in Nat
      /\ \A v \in Wallets : Worth(eventPuts[v]) \in Int /\ events[v] \in Int
  BY LedgerNumbers DEF LedgerNumeric
<1>4. /\ DOMAIN bridges' = Wallets /\ \A v \in Wallets : BridgesFit(v)'
      /\ Total(Bridged)' = Total(Bridged)
  BY <1>1, BridgesSame
<1>5. offBook' \in [Wallets -> Nat]
  BY <1>1, <1>2
<1>6. CASE /\ pending' = [pending EXCEPT ![w] = @ - threat]
           /\ SetVault(vault + threat)
           /\ threat' = 0
           /\ UNCHANGED <<eventPuts, faults>>
  <2>1. pending' \in [Wallets -> Nat]
    BY <1>1, <1>2, <1>6
  <2>2. vault + threat \in Nat
    BY <1>2
  <2>3. /\ vault' = vault + threat /\ vaultPuts' \in Seq(Nat)
        /\ Mirror = vault => Mirror' = vault'
    BY <1>1, <1>6, <2>2, VaultEffect
  <2>4. DOMAIN eventPuts' = Wallets /\ \A v \in Wallets : PutsFit(v)'
    BY <1>6, PutsSame
  <2>5. IsABag(faults)' /\ seen' = seen /\ seen' \subseteq FaultKinds
    BY <1>6, NoFault
  <2>6. LedgerTypeOK'
    BY <1>1, <1>2, <1>4, <1>5, <1>6, <2>1, <2>2, <2>3, <2>4, <2>5, LedgerTypedNext DEF LedgerShape
  <2>7. \A v \in Wallets : Gap(v)' = Gap(v)
    <3> SUFFICES ASSUME NEW v \in Wallets PROVE Gap(v)' = Gap(v)
      OBVIOUS
    <3>1. /\ pending[v] \in Nat /\ offBook[v] \in Nat
          /\ pending'[v] = IF v = w THEN pending[v] - threat ELSE pending[v]
          /\ offBook'[v] = IF v = w THEN offBook[v] + threat ELSE offBook[v]
      BY <1>1, <1>2, <1>6
    <3>2. eventPuts' = eventPuts /\ events' = events
      BY <1>1, <1>6
    <3>3. Worth(eventPuts[v]) \in Int /\ events[v] \in Int /\ threat \in Int
      BY <1>2, <1>3
    <3>4. CASE v = w
      BY <3>1, <3>2, <3>3, <3>4 DEF Gap
    <3>5. CASE v # w
      BY <3>1, <3>2, <3>3, <3>5 DEF Gap
    <3> QED BY <3>4, <3>5
  <2>8. Total(pending') = Total(pending) + (pending'[w] - pending[w])
    <3>1. /\ \A v \in Wallets : pending[v] \in Int /\ pending'[v] \in Int
          /\ \A v \in Wallets \ {w} : pending'[v] = pending[v]
      BY <1>2, <1>6, <2>1
    <3> QED BY <3>1, TotalSet
  <2>9. Total(pending)' = Total(pending) - threat
    <3>1. pending'[w] = pending[w] - threat /\ pending[w] \in Nat
      BY <1>2, <1>6
    <3> QED BY <1>2, <1>3, <2>8, <3>1 DEF Total
  <2>10. Excess' = Excess
    BY <1>1, <1>2, <1>3, <1>4, <2>3, <2>9 DEF Excess, LedgerShape
  <2> QED BY <2>3, <2>5, <2>6, <2>7, <2>10, SameBooks
<1>7. CASE /\ Fault("clockEdge")
           /\ eventPuts' = [eventPuts EXCEPT ![w] = Insert(@, threat)]
           /\ UNCHANGED <<pending, vault, vaultPuts, threat>>
  <2>1. IsABag(faults)' /\ seen \subseteq seen' /\ seen' \subseteq FaultKinds
    BY <1>7, FaultSeen
  <2>2. ASSUME NEW v \in Wallets PROVE PutsFit(v)' /\ Gap(v)' = Gap(v)
    <3>1. /\ NumberBag(eventPuts[v]) /\ 0 \notin DOMAIN eventPuts[v] /\ threat \in Int
          /\ pending[v] \in Nat /\ offBook[v] \in Nat
      BY <1>2 DEF LedgerShape, PutsFit
    <3>2. CASE v = w
      <4>1. eventPuts'[v] = Insert(eventPuts[v], threat) /\ offBook'[v] = offBook[v] + threat
        BY <1>1, <1>2, <1>7, <3>2
      <4>2. /\ NumberBag(eventPuts'[v]) /\ 0 \notin DOMAIN eventPuts'[v]
            /\ Worth(eventPuts'[v]) = Worth(eventPuts[v]) + threat
        BY <3>1, <4>1, InsertFits
      <4>3. pending'[v] = pending[v] /\ events'[v] = events[v]
        BY <1>1, <1>7
      <4> QED BY <1>2, <1>3, <3>1, <4>1, <4>2, <4>3 DEF PutsFit, Gap
    <3>3. CASE v # w
      <4>1. eventPuts'[v] = eventPuts[v] /\ offBook'[v] = offBook[v]
        BY <1>1, <1>2, <1>7, <3>3
      <4> QED BY <1>1, <1>7, <3>1, <4>1 DEF PutsFit, Gap
    <3> QED BY <3>2, <3>3
  <2>3. DOMAIN eventPuts' = Wallets
    BY <1>2, <1>7
  <2>4. LedgerTypeOK'
    BY <1>1, <1>2, <1>4, <1>5, <1>7, <2>1, <2>2, <2>3, LedgerTypedNext DEF LedgerShape
  <2>5. Excess' = Excess /\ Mirror' = Mirror
    BY <1>1, <1>4, <1>7 DEF Excess, Mirror, Total
  <2> QED BY <1>7, <2>1, <2>2, <2>4, <2>5, SameBooks
<1> QED BY <1>1, <1>6, <1>7

(* A strike destroys what it takes out of the vault.                       *)
LEMMA StrikeStep == ASSUME LedgerInv, Strike PROVE LedgerInv'
<1> USE DEF LedgerInv
<1> DEFINE skim == PercentOf(vault, SkimPercent)
<1>1. /\ threat' = 0 /\ SetVault(vault - skim) /\ gone' = gone + skim
      /\ UNCHANGED <<pending, offBook, events, eventPuts, vaultRow, bridges, issued, faults>>
  BY DEF Strike
<1>2. LedgerShape /\ vault \in Nat /\ gone \in Nat
  BY LedgerTyped DEF LedgerShape
<1>3. skim \in Nat /\ skim <= vault
  BY <1>2, LedgerConstants, PercentFits
<1> HIDE DEF skim
<1>4. /\ vault' = vault - skim /\ vaultPuts' \in Seq(Nat) /\ vault - skim \in Nat
      /\ Mirror = vault => Mirror' = vault'
  BY <1>1, <1>2, <1>3, VaultEffect
<1>5. DOMAIN eventPuts' = Wallets /\ \A v \in Wallets : PutsFit(v)'
  BY <1>1, PutsSame
<1>6. /\ DOMAIN bridges' = Wallets /\ \A v \in Wallets : BridgesFit(v)'
      /\ Total(Bridged)' = Total(Bridged)
  BY <1>1, BridgesSame
<1>7. IsABag(faults)' /\ seen' = seen /\ seen' \subseteq FaultKinds
  BY <1>1, NoFault
<1>8. gone' \in Nat
  BY <1>1, <1>2, <1>3
<1>9. LedgerTypeOK'
  BY <1>1, <1>2, <1>4, <1>5, <1>6, <1>7, <1>8, LedgerTypedNext DEF LedgerShape
<1>10. \A v \in Wallets : Gap(v)' = Gap(v)
  BY <1>1 DEF Gap
<1>11. Total(pending) \in Nat /\ Total(Bridged) \in Nat /\ Total(pending)' = Total(pending)
  BY <1>1, LedgerNumbers DEF LedgerNumeric, Total
<1>12. Excess' = Excess
  BY <1>1, <1>2, <1>3, <1>4, <1>6, <1>11 DEF Excess, LedgerShape
<1> QED BY <1>4, <1>7, <1>9, <1>10, <1>12, SameBooks

(* A bridge takes its amount, with an event, before the transfer.          *)
LEMMA DebitStep == ASSUME LedgerInv, NEW w \in Wallets, BridgeDebit(w) PROVE LedgerInv'
<1> USE DEF LedgerInv
<1>1. PICK amount \in 1..pending[w] :
        Withdraw(w, amount) /\ bridges' = [bridges EXCEPT ![w] = @ (+) One(amount)]
  BY DEF BridgeDebit
<1>2. UNCHANGED <<offBook, events, vault, vaultRow, vaultPuts, threat, issued, gone, faults>>
  BY DEF BridgeDebit
<1>3. /\ LedgerShape /\ pending[w] \in Nat
      /\ Total(pending) \in Nat /\ Total(Bridged) \in Nat
  BY LedgerTyped, LedgerNumbers DEF LedgerNumeric
<1>4. amount \in 0..pending[w] /\ amount \in Nat \ {0}
  BY <1>3
<1>5. /\ pending' \in [Wallets -> Nat] /\ DOMAIN eventPuts' = Wallets
      /\ \A v \in Wallets : PutsFit(v)' /\ Gap(v)' = Gap(v)
      /\ Total(pending)' = Total(pending) - amount
  BY <1>1, <1>2, <1>4, WithdrawEffect
<1>6. /\ DOMAIN bridges' = Wallets /\ \A v \in Wallets : BridgesFit(v)'
      /\ Total(Bridged)' = Total(Bridged) + amount
  BY <1>1, <1>4, BridgeBegins
<1>7. IsABag(faults)' /\ seen' = seen /\ seen' \subseteq FaultKinds
  BY <1>2, NoFault
<1>8. LedgerTypeOK'
  BY <1>2, <1>3, <1>5, <1>6, <1>7, LedgerTypedNext DEF LedgerShape
<1>9. Excess' = Excess /\ Mirror' = Mirror
  BY <1>2, <1>3, <1>4, <1>5, <1>6 DEF Excess, Mirror, LedgerShape
<1> QED BY <1>2, <1>5, <1>7, <1>8, <1>9, SameBooks

(* A transfer that lands is gone.                                          *)
LEMMA LandedStep == ASSUME LedgerInv, NEW w \in Wallets, BridgeLanded(w) PROVE LedgerInv'
<1> USE DEF LedgerInv
<1>1. PICK amount \in DOMAIN bridges[w] :
        /\ bridges' = [bridges EXCEPT ![w] = @ (-) One(amount)]
        /\ gone' = gone + amount
  BY DEF BridgeLanded
<1>2. UNCHANGED <<pending, offBook, events, eventPuts, vault, vaultRow, vaultPuts, threat, issued,
                  faults>>
  BY DEF BridgeLanded
<1>3. /\ LedgerShape /\ Total(pending) \in Nat /\ Total(Bridged) \in Nat
      /\ Total(pending)' = Total(pending)
  BY <1>2, LedgerTyped, LedgerNumbers DEF LedgerNumeric, Total
<1>4. /\ DOMAIN bridges' = Wallets /\ \A v \in Wallets : BridgesFit(v)'
      /\ Total(Bridged)' = Total(Bridged) - amount
      /\ amount \in Nat \ {0}
  BY <1>1, BridgeEnds
<1>5. DOMAIN eventPuts' = Wallets /\ \A v \in Wallets : PutsFit(v)'
  BY <1>2, PutsSame
<1>6. IsABag(faults)' /\ seen' = seen /\ seen' \subseteq FaultKinds
  BY <1>2, NoFault
<1>7. LedgerTypeOK'
  BY <1>1, <1>2, <1>3, <1>4, <1>5, <1>6, LedgerTypedNext DEF LedgerShape
<1>8. Mirror' = Mirror /\ \A v \in Wallets : Gap(v)' = Gap(v)
  BY <1>2 DEF Mirror, Gap
<1>9. Excess' = Excess
  BY <1>1, <1>2, <1>3, <1>4 DEF Excess, LedgerShape
<1> QED BY <1>2, <1>6, <1>7, <1>8, <1>9, SameBooks

(* A transfer that fails is refunded once, with an event.                  *)
LEMMA FailedStep == ASSUME LedgerInv, NEW w \in Wallets, BridgeFailed(w) PROVE LedgerInv'
<1> USE DEF LedgerInv
<1>1. PICK amount \in DOMAIN bridges[w] :
        /\ bridges' = [bridges EXCEPT ![w] = @ (-) One(amount)]
        /\ AddPendingYield(Only(w, amount))
        /\ \/ UNCHANGED <<gone, faults>>
           \/ Fault("unconfirmed") /\ gone' = gone + amount
  BY DEF BridgeFailed
<1>2. UNCHANGED <<offBook, events, vault, vaultRow, vaultPuts, threat, issued>>
  BY DEF BridgeFailed
<1>3. /\ LedgerShape /\ Total(pending) \in Nat /\ Total(Bridged) \in Nat
  BY LedgerTyped, LedgerNumbers DEF LedgerNumeric
<1>4. /\ DOMAIN bridges' = Wallets /\ \A v \in Wallets : BridgesFit(v)'
      /\ Total(Bridged)' = Total(Bridged) - amount
      /\ amount \in Nat \ {0}
  BY <1>1, BridgeEnds
<1> DEFINE pay == Only(w, amount)
<1>5. pay \in [Wallets -> Nat] /\ Total(pay) = amount /\ AddPendingYield(pay)
  BY <1>1, <1>4, TotalOnly
<1> HIDE DEF pay
<1>6. /\ pending' \in [Wallets -> Nat] /\ DOMAIN eventPuts' = Wallets
      /\ \A v \in Wallets : PutsFit(v)' /\ Gap(v)' = Gap(v)
      /\ Total(pending)' = Total(pending) + Total(pay)
  BY <1>2, <1>5, PayEffect
<1>7. Mirror' = Mirror
  BY <1>2 DEF Mirror
<1>8. CASE UNCHANGED <<gone, faults>>
  <2>1. IsABag(faults)' /\ seen' = seen /\ seen' \subseteq FaultKinds
    BY <1>8, NoFault
  <2>2. LedgerTypeOK'
    BY <1>2, <1>3, <1>4, <1>6, <1>8, <2>1, LedgerTypedNext DEF LedgerShape
  <2>3. Excess' = Excess
    BY <1>2, <1>3, <1>4, <1>5, <1>6, <1>8 DEF Excess, LedgerShape
  <2> QED BY <1>2, <1>6, <1>7, <2>1, <2>2, <2>3, SameBooks
<1>9. CASE Fault("unconfirmed") /\ gone' = gone + amount
  <2>1. IsABag(faults)' /\ seen' = seen \cup {"unconfirmed"} /\ seen' \subseteq FaultKinds
    BY <1>9, FaultSeen
  <2>2. LedgerTypeOK'
    BY <1>2, <1>3, <1>4, <1>6, <1>9, <2>1, LedgerTypedNext DEF LedgerShape
  <2> QED BY <1>2, <1>6, <1>7, <2>1, <2>2, SameBooks
<1> QED BY <1>1, <1>8, <1>9

-----------------------------------------------------------------------------
(* The store, crashes and restarts.                                        *)

(* Removing an upsert: what is left, and what it ends with.                *)
LEMMA RemoveAtFits ==
  ASSUME NEW s \in Seq(Nat), NEW i \in DOMAIN s
  PROVE  /\ RemoveAt(s, i) \in Seq(Nat) /\ s[i] \in Nat
         /\ Len(s) > 1 => /\ RemoveAt(s, 1) # <<>>
                          /\ RemoveAt(s, 1)[Len(RemoveAt(s, 1))] = s[Len(s)]
         /\ Len(s) = 1 => RemoveAt(s, 1) = <<>>
<1>1. i \in 1..Len(s) /\ Len(s) \in Nat /\ s[i] \in Nat
  OBVIOUS
<1>2. SubSeq(s, 1, i-1) \in Seq(Nat) /\ SubSeq(s, i+1, Len(s)) \in Seq(Nat)
  BY <1>1
<1>3. RemoveAt(s, i) \in Seq(Nat)
  BY <1>2 DEF RemoveAt
<1>4. RemoveAt(s, 1) = SubSeq(s, 2, Len(s))
  <2>1. SubSeq(s, 1, 1-1) = <<>> /\ SubSeq(s, 1+1, Len(s)) \in Seq(Nat)
    BY <1>1
  <2>2. <<>> \o SubSeq(s, 1+1, Len(s)) = SubSeq(s, 1+1, Len(s))
    BY <2>1
  <2> QED BY <2>1, <2>2 DEF RemoveAt
<1>5. ASSUME Len(s) > 1
      PROVE  RemoveAt(s, 1) # <<>> /\ RemoveAt(s, 1)[Len(RemoveAt(s, 1))] = s[Len(s)]
  BY <1>1, <1>4, <1>5
<1>6. ASSUME Len(s) = 1 PROVE RemoveAt(s, 1) = <<>>
  BY <1>1, <1>4, <1>6
<1> QED BY <1>1, <1>3, <1>5, <1>6

(* An insert reaches the log, or fails and is counted as a fault.          *)
LEMMA EventPutStep == ASSUME LedgerInv, NEW w \in Wallets, EventPutDone(w) PROVE LedgerInv'
<1> USE DEF LedgerInv
<1>1. PICK delta \in DOMAIN eventPuts[w] :
        /\ eventPuts' = [eventPuts EXCEPT ![w] = @ (-) One(delta)]
        /\ \/ events' = [events EXCEPT ![w] = @ + delta] /\ UNCHANGED faults
           \/ Fault("putFailed") /\ UNCHANGED events
  BY DEF EventPutDone
<1>2. UNCHANGED <<pending, offBook, vault, vaultRow, vaultPuts, bridges, threat, issued, gone>>
  BY DEF EventPutDone
<1>3. /\ LedgerShape /\ DOMAIN eventPuts = Wallets /\ events \in [Wallets -> Int]
      /\ \A v \in Wallets : PutsFit(v)
  BY LedgerTyped DEF LedgerShape
<1>4. /\ NumberBag(eventPuts[w] (-) One(delta)) /\ delta \in Int
      /\ Worth(eventPuts[w] (-) One(delta)) = Worth(eventPuts[w]) - delta
      /\ 0 \notin DOMAIN (eventPuts[w] (-) One(delta))
  <2>1. NumberBag(eventPuts[w]) /\ 0 \notin DOMAIN eventPuts[w]
    BY <1>3 DEF PutsFit
  <2>2. /\ NumberBag(eventPuts[w] (-) One(delta))
        /\ Worth(eventPuts[w] (-) One(delta)) = Worth(eventPuts[w]) - delta
        /\ DOMAIN (eventPuts[w] (-) One(delta)) \subseteq DOMAIN eventPuts[w]
    BY <2>1, WorthLess
  <2>3. delta \in Int
    BY <2>1 DEF NumberBag
  <2> QED BY <2>1, <2>2, <2>3
<1>5. /\ DOMAIN eventPuts' = Wallets /\ eventPuts'[w] = eventPuts[w] (-) One(delta)
      /\ \A v \in Wallets \ {w} : eventPuts'[v] = eventPuts[v]
  BY <1>1, <1>3
<1>6. \A v \in Wallets : PutsFit(v)'
  BY <1>3, <1>4, <1>5 DEF PutsFit
<1>7. /\ DOMAIN bridges' = Wallets /\ \A v \in Wallets : BridgesFit(v)'
      /\ Total(Bridged)' = Total(Bridged)
  BY <1>2, BridgesSame
<1>8. Excess' = Excess /\ Mirror' = Mirror
  BY <1>2, <1>7 DEF Excess, Mirror, Total
<1>9. CASE events' = [events EXCEPT ![w] = @ + delta] /\ UNCHANGED faults
  <2>1. IsABag(faults)' /\ seen' = seen /\ seen' \subseteq FaultKinds
    BY <1>9, NoFault
  <2>2. events' \in [Wallets -> Int]
    BY <1>3, <1>4, <1>9
  <2>3. LedgerTypeOK'
    BY <1>2, <1>3, <1>5, <1>6, <1>7, <2>1, <2>2, LedgerTypedNext DEF LedgerShape
  <2>4. ASSUME NEW v \in Wallets PROVE Gap(v)' = Gap(v)
    <3>1. /\ pending[v] \in Nat /\ offBook[v] \in Nat /\ events[v] \in Int
          /\ Worth(eventPuts[v]) \in Int
      BY LedgerNumbers DEF LedgerNumeric
    <3>2. pending' = pending /\ offBook' = offBook
      BY <1>2
    <3>3. CASE v = w
      <4>1. events'[v] = events[v] + delta
        BY <1>3, <1>9, <3>3
      <4>2. Worth(eventPuts'[v]) = Worth(eventPuts[v]) - delta
        BY <1>4, <1>5, <3>3
      <4> QED BY <1>4, <3>1, <3>2, <4>1, <4>2 DEF Gap
    <3>4. CASE v # w
      <4>1. events'[v] = events[v] /\ eventPuts'[v] = eventPuts[v]
        BY <1>3, <1>5, <1>9, <3>4
      <4> QED BY <3>1, <3>2, <4>1 DEF Gap
    <3> QED BY <3>3, <3>4
  <2> QED BY <1>2, <1>8, <2>1, <2>3, <2>4, SameBooks
<1>10. CASE Fault("putFailed") /\ UNCHANGED events
  <2>1. IsABag(faults)' /\ seen' = seen \cup {"putFailed"} /\ seen' \subseteq FaultKinds
    BY <1>10, FaultSeen
  <2>2. LedgerTypeOK'
    BY <1>2, <1>3, <1>5, <1>6, <1>7, <1>10, <2>1, LedgerTypedNext DEF LedgerShape
  <2> QED BY <1>2, <1>8, <2>1, <2>2, SameBooks
<1> QED BY <1>1, <1>9, <1>10

(* An upsert takes effect, or is late or fails, which is a fault.          *)
LEMMA VaultPutStep == ASSUME LedgerInv, VaultPutDone PROVE LedgerInv'
<1> USE DEF LedgerInv
<1>1. PICK i \in DOMAIN vaultPuts :
        /\ vaultPuts' = RemoveAt(vaultPuts, i)
        /\ \/ i = 1 /\ vaultRow' = vaultPuts[i] /\ UNCHANGED faults
           \/ i > 1 /\ vaultRow' = vaultPuts[i] /\ Fault("lateWrite")
           \/ i = 1 /\ Fault("putFailed") /\ UNCHANGED vaultRow
  BY DEF VaultPutDone
<1>2. UNCHANGED <<pending, offBook, events, eventPuts, vault, bridges, threat, issued, gone>>
  BY DEF VaultPutDone
<1>3. LedgerShape /\ vaultPuts \in Seq(Nat) /\ vaultRow \in Nat
  BY LedgerTyped DEF LedgerShape
<1>4. vaultPuts' \in Seq(Nat) /\ vaultPuts[i] \in Nat /\ vaultRow' \in Nat
  BY <1>1, <1>3, RemoveAtFits
<1>5. DOMAIN eventPuts' = Wallets /\ \A v \in Wallets : PutsFit(v)'
  BY <1>2, PutsSame
<1>6. /\ DOMAIN bridges' = Wallets /\ \A v \in Wallets : BridgesFit(v)'
      /\ Total(Bridged)' = Total(Bridged)
  BY <1>2, BridgesSame
<1>7. Excess' = Excess /\ \A v \in Wallets : Gap(v)' = Gap(v)
  BY <1>2, <1>6 DEF Excess, Total, Gap
<1>8. CASE i = 1 /\ vaultRow' = vaultPuts[i] /\ UNCHANGED faults
  <2>1. IsABag(faults)' /\ seen' = seen /\ seen' \subseteq FaultKinds
    BY <1>8, NoFault
  <2>2. LedgerTypeOK'
    BY <1>2, <1>3, <1>4, <1>5, <1>6, <2>1, LedgerTypedNext DEF LedgerShape
  <2>3. Mirror' = Mirror
    <3>1. Len(vaultPuts) \in Nat /\ Len(vaultPuts) >= 1 /\ vaultPuts # <<>>
      BY <1>3, <1>8
    <3>2. CASE Len(vaultPuts) = 1
      <4>1. vaultPuts' = <<>> /\ vaultRow' = vaultPuts[Len(vaultPuts)]
        BY <1>1, <1>3, <1>8, <3>2, RemoveAtFits
      <4> QED BY <3>1, <4>1 DEF Mirror
    <3>3. CASE Len(vaultPuts) > 1
      <4>1. vaultPuts' # <<>> /\ vaultPuts'[Len(vaultPuts')] = vaultPuts[Len(vaultPuts)]
        BY <1>1, <1>3, <1>8, <3>3, RemoveAtFits
      <4> QED BY <3>1, <4>1 DEF Mirror
    <3>4. Len(vaultPuts) = 1 \/ Len(vaultPuts) > 1
      <4> DEFINE n == Len(vaultPuts)
      <4>1. n \in Nat /\ n >= 1
        BY <3>1
      <4> HIDE DEF n
      <4>2. n = 1 \/ n > 1
        BY <4>1
      <4> QED BY <4>2 DEF n
    <3> QED BY <3>2, <3>3, <3>4, Zenon
  <2> QED BY <1>2, <1>7, <2>1, <2>2, <2>3, SameBooks
<1>9. CASE i > 1 /\ vaultRow' = vaultPuts[i] /\ Fault("lateWrite")
  <2>1. IsABag(faults)' /\ seen' = seen \cup {"lateWrite"} /\ seen' \subseteq FaultKinds
    BY <1>9, FaultSeen
  <2>2. LedgerTypeOK'
    BY <1>2, <1>3, <1>4, <1>5, <1>6, <2>1, LedgerTypedNext DEF LedgerShape
  <2> QED BY <1>7, <2>1, <2>2, SameBooks
<1>10. CASE i = 1 /\ Fault("putFailed") /\ UNCHANGED vaultRow
  <2>1. IsABag(faults)' /\ seen' = seen \cup {"putFailed"} /\ seen' \subseteq FaultKinds
    BY <1>10, FaultSeen
  <2>2. LedgerTypeOK'
    BY <1>2, <1>3, <1>4, <1>5, <1>6, <2>1, LedgerTypedNext DEF LedgerShape
  <2> QED BY <1>7, <2>1, <2>2, SameBooks
<1> QED BY <1>1, <1>8, <1>9, <1>10

(* What a restart replays for a wallet.                                    *)
LEMMA ReplayFits ==
  ASSUME LedgerTypeOK, NEW w \in Wallets
  PROVE  /\ Replayed(w) \in Nat /\ Replayed(w) >= events[w]
         /\ events[w] >= 0 => Replayed(w) = events[w]
<1>1. events[w] \in Int
  BY LedgerNumbers DEF LedgerNumeric
<1> QED BY <1>1 DEF Replayed

(* A restart that reads everything: the types.                             *)
LEMMA RestoredTyped ==
  ASSUME LedgerTypeOK, RestartRestored
  PROVE  /\ LedgerTypeOK'
         /\ \/ Quiet /\ seen' = seen \cup {"restart"}
            \/ seen' = seen \cup {"crash"}
<1>1. /\ \/ Quiet /\ Fault("restart")
         \/ ~Quiet /\ Fault("crash")
      /\ pending' = [w \in Wallets |-> Replayed(w)]
      /\ vault' = vaultRow
      /\ issued' = issued + Total(offBook)
      /\ offBook' = [w \in Wallets |-> 0]
      /\ eventPuts' = [w \in Wallets |-> EmptyBag]
      /\ bridges' = [w \in Wallets |-> EmptyBag]
      /\ vaultPuts' = <<>>
      /\ threat' = 0
      /\ UNCHANGED <<events, vaultRow, gone>>
  BY DEF RestartRestored
<1>2. LedgerShape /\ issued \in Nat /\ Total(offBook) \in Nat
  BY LedgerTyped, LedgerNumbers DEF LedgerShape, LedgerNumeric
<1>3. pending' \in [Wallets -> Nat] /\ offBook' \in [Wallets -> Nat]
  BY <1>1, ReplayFits
<1>4. issued' \in Nat
  BY <1>1, <1>2
<1>5. NumberBag(EmptyBag) /\ DOMAIN EmptyBag = {}
  BY WorthOfNone DEF EmptyBag, SetToBag
<1>6. /\ DOMAIN eventPuts' = Wallets /\ DOMAIN bridges' = Wallets
      /\ \A v \in Wallets : PutsFit(v)' /\ BridgesFit(v)'
  BY <1>1, <1>5 DEF PutsFit, BridgesFit
<1>7. vaultPuts' \in Seq(Nat)
  BY <1>1
<1>8. /\ IsABag(faults)' /\ seen' \subseteq FaultKinds
      /\ \/ Quiet /\ seen' = seen \cup {"restart"}
         \/ seen' = seen \cup {"crash"}
  <2>1. CASE Quiet /\ Fault("restart")
    BY <2>1, FaultSeen
  <2>2. CASE Fault("crash")
    BY <2>2, FaultSeen
  <2> QED BY <1>1, <2>1, <2>2
<1>9. LedgerShape'
  BY <1>1, <1>2, <1>3, <1>4, <1>6, <1>7, <1>8 DEF LedgerShape
<1> QED BY <1>8, <1>9, LedgerTypedNext

(* A restart that reads everything: the books.  Nothing was in flight when *)
(* no crash is counted, so the events are what memory had.                 *)
LEMMA RestoredStep == ASSUME LedgerInv, RestartRestored PROVE LedgerInv'
<1> USE DEF LedgerInv
<1>1. /\ pending' = [w \in Wallets |-> Replayed(w)]
      /\ vault' = vaultRow
      /\ issued' = issued + Total(offBook)
      /\ offBook' = [w \in Wallets |-> 0]
      /\ eventPuts' = [w \in Wallets |-> EmptyBag]
      /\ bridges' = [w \in Wallets |-> EmptyBag]
      /\ vaultPuts' = <<>>
      /\ UNCHANGED <<events, vaultRow, gone>>
  BY DEF RestartRestored
<1>2. /\ LedgerTypeOK'
      /\ \/ Quiet /\ seen' = seen \cup {"restart"}
         \/ seen' = seen \cup {"crash"}
  BY RestoredTyped
<1>3. ASSUME NEW w \in Wallets
      PROVE  /\ Gap(w)' = Replayed(w) - events[w]
             /\ Replayed(w) \in Nat /\ events[w] \in Int /\ Replayed(w) >= events[w]
  <2>1. /\ pending'[w] = Replayed(w) /\ offBook'[w] = 0 /\ events'[w] = events[w]
        /\ eventPuts'[w] = EmptyBag
    BY <1>1
  <2>2. Worth(eventPuts'[w]) = 0
    BY <2>1, WorthOfNone
  <2>3. Replayed(w) \in Nat /\ events[w] \in Int /\ Replayed(w) >= events[w]
    BY ReplayFits, LedgerNumbers DEF LedgerNumeric
  <2> QED BY <2>1, <2>2, <2>3 DEF Gap
<1>4. ASSUME Quiet, GapsFit, seen \cap {"putFailed", "loadFailed", "crash"} = {}, NEW w \in Wallets
      PROVE  events[w] = pending[w] + offBook[w] /\ Replayed(w) = events[w]
  <2>1. Gap(w) = 0
    BY <1>4 DEF GapsFit
  <2>2. Worth(eventPuts[w]) = 0
    BY <1>4, WorthOfNone DEF Quiet
  <2>3. pending[w] \in Nat /\ offBook[w] \in Nat /\ events[w] \in Int
    BY LedgerNumbers DEF LedgerNumeric
  <2>4. events[w] = pending[w] + offBook[w]
    BY <2>1, <2>2, <2>3 DEF Gap
  <2>5. events[w] >= 0
    BY <2>3, <2>4
  <2> QED BY <2>4, <2>5, ReplayFits
<1>5. GapsFit /\ NoExcess
  BY BooksByGap
<1>6. GapsFit'
  <2> SUFFICES ASSUME seen' \cap {"putFailed", "loadFailed"} = {}, NEW w \in Wallets
               PROVE  (Gap(w) >= 0 /\ ("crash" \notin seen => Gap(w) = 0))'
    BY DEF GapsFit
  <2>1. Gap(w)' >= 0
    BY <1>3
  <2>2. ASSUME "crash" \notin seen' PROVE Gap(w)' = 0
    <3>1. Quiet /\ seen \cap {"putFailed", "loadFailed", "crash"} = {}
      BY <1>2, <2>2
    <3>2. Replayed(w) = events[w]
      BY <1>4, <1>5, <3>1
    <3> QED BY <1>3, <3>2
  <2> QED BY <2>1, <2>2
<1>7. MirrorFits'
  BY <1>1 DEF MirrorFits, Mirror
<1>8. NoExcess'
  <2> SUFFICES ASSUME seen' \cap {"crash", "loadFailed", "unconfirmed"} = {},
                      "restart" \in seen' => seen' \cap {"putFailed", "lateWrite"} = {}
               PROVE  Excess' = 0
    BY DEF NoExcess
  <2>1. /\ Quiet
        /\ seen \cap {"crash", "loadFailed", "unconfirmed", "putFailed", "lateWrite"} = {}
    BY <1>2
  <2>2. Excess = 0
    BY <1>5, <2>1 DEF NoExcess
  <2>3. vault' = vault
    BY <1>1, <2>1 DEF MirrorFits, Mirror, Quiet
  <2>4. \A w \in Wallets : pending'[w] = pending[w] + offBook[w]
    BY <1>1, <1>4, <1>5, <2>1
  <2>5. Total(pending') = Total(pending) + Total(offBook)
    <3>1. \A w \in Wallets : pending[w] \in Int /\ offBook[w] \in Int
      BY LedgerNumbers DEF LedgerNumeric
    <3> QED BY <2>4, <3>1, TotalPlus
  <2>6. Total(Bridged) = 0
    <3>1. \A w \in Wallets : Bridged[w] = 0
      BY <2>1, WorthOfNone DEF Bridged, Quiet
    <3> QED BY <3>1, TotalZero
  <2>7. Total(Bridged)' = 0
    <3>1. \A w \in Wallets : Bridged'[w] = 0
      BY <1>1, WorthOfNone DEF Bridged
    <3>2. Total(Bridged') = 0
      BY <3>1, TotalZero
    <3> QED BY <3>2 DEF Total
  <2>8. /\ vault \in Nat /\ gone \in Nat /\ issued \in Nat
        /\ Total(pending) \in Nat /\ Total(offBook) \in Nat
    BY LedgerTyped, LedgerNumbers DEF LedgerShape, LedgerNumeric
  <2>9. Total(pending)' = Total(pending) + Total(offBook)
    BY <2>5 DEF Total
  <2>10. /\ Excess' = Total(pending)' + vault' + gone' + Total(Bridged)' - issued'
         /\ Excess = Total(pending) + vault + gone + Total(Bridged) - issued
    BY DEF Excess
  <2>11. Excess' = (Total(pending) + Total(offBook)) + vault + gone + 0
                   - (issued + Total(offBook))
    BY <1>1, <2>3, <2>7, <2>9, <2>10, Zenon
  <2> QED BY <2>2, <2>6, <2>8, <2>10, <2>11
<1> QED BY <1>2, <1>6, <1>7, <1>8, BooksByGapNext

(* A restart that cannot read: the fault says so, and the types hold.      *)
LEMMA BlindStep == ASSUME LedgerInv, RestartBlind PROVE LedgerInv'
<1> USE DEF LedgerInv
<1>1. /\ Fault("loadFailed")
      /\ \/ pending' = [w \in Wallets |-> 0] /\ vault' = vaultRow
         \/ pending' = [w \in Wallets |-> Replayed(w)] /\ vault' = 0
      /\ offBook' = [w \in Wallets |-> 0]
      /\ threat' = 0
      /\ UNCHANGED <<events, eventPuts, vaultRow, vaultPuts, bridges, issued, gone>>
  BY DEF RestartBlind
<1>2. LedgerShape
  BY LedgerTyped
<1>3. pending' \in [Wallets -> Nat] /\ vault' \in Nat /\ offBook' \in [Wallets -> Nat]
  BY <1>1, <1>2, ReplayFits DEF LedgerShape
<1>4. DOMAIN eventPuts' = Wallets /\ \A v \in Wallets : PutsFit(v)'
  BY <1>1, PutsSame
<1>5. DOMAIN bridges' = Wallets /\ \A v \in Wallets : BridgesFit(v)'
  BY <1>1, BridgesSame
<1>6. IsABag(faults)' /\ seen' = seen \cup {"loadFailed"} /\ seen' \subseteq FaultKinds
  BY <1>1, FaultSeen
<1>7. LedgerTypeOK'
  BY <1>1, <1>2, <1>3, <1>4, <1>5, <1>6, LedgerTypedNext DEF LedgerShape
<1>8. BookBalanced' /\ Conserved'
  BY <1>6, <1>7, BooksByGapNext DEF GapsFit, NoExcess
<1>9. MirrorFits'
  BY <1>6 DEF MirrorFits
<1> QED BY <1>7, <1>8, <1>9

(* The first start.                                                        *)
LEMMA LedgerStarts == LedgerInit => LedgerInv
<1> SUFFICES ASSUME LedgerInit PROVE LedgerInv
  OBVIOUS
<1> USE DEF LedgerInit
<1>1. NumberBag(EmptyBag) /\ DOMAIN EmptyBag = {} /\ Worth(EmptyBag) = 0
  BY WorthOfNone DEF EmptyBag, SetToBag
<1>2. seen = {} /\ IsABag(faults)
  BY <1>1 DEF seen, NumberBag
<1>3. \A w \in Wallets : PutsFit(w) /\ BridgesFit(w)
  BY <1>1 DEF PutsFit, BridgesFit
<1>4. LedgerTypeOK
  BY <1>2, <1>3, LedgerTyped DEF LedgerShape
<1>5. \A w \in Wallets : Gap(w) = 0
  BY <1>1 DEF Gap
<1>6. Total(pending) = 0 /\ Total(Bridged) = 0
  <2>1. \A w \in Wallets : pending[w] = 0 /\ Bridged[w] = 0
    BY <1>1 DEF Bridged
  <2> QED BY <2>1, TotalZero
<1>7. Excess = 0
  BY <1>6 DEF Excess
<1>8. GapsFit /\ NoExcess /\ MirrorFits
  BY <1>5, <1>7 DEF GapsFit, NoExcess, MirrorFits, Mirror
<1> QED BY <1>4, <1>8, BooksByGap DEF LedgerInv

(* Each step keeps the invariant.                                          *)
LEMMA LedgerKept == LedgerInv /\ [LedgerNext]_ledgerVars => LedgerInv'
<1> SUFFICES ASSUME LedgerInv, [LedgerNext]_ledgerVars PROVE LedgerInv'
  OBVIOUS
<1>1. ASSUME NEW w \in Wallets, PlayerStep(w) PROVE LedgerInv'
  BY <1>1, StealStep, ClaimStep, DeflectStep, DebitStep, LandedStep, FailedStep DEF PlayerStep
<1>2. ASSUME NEW w \in Wallets, EventPutDone(w) PROVE LedgerInv'
  BY <1>2, EventPutStep
<1>3. CASE Discover
  BY <1>3, DiscoverStep
<1>4. CASE Forfeit
  BY <1>4, ForfeitStep
<1>5. CASE SpawnMeteor \/ Strike
  BY <1>5, SpawnStep, StrikeStep
<1>6. CASE VaultPutDone
  BY <1>6, VaultPutStep
<1>7. CASE RestartRestored \/ RestartBlind
  BY <1>7, RestoredStep, BlindStep
<1>8. CASE UNCHANGED ledgerVars
  <2> USE <1>8 DEF LedgerInv, ledgerVars
  <2>1. IsABag(faults)' /\ seen' = seen /\ seen' \subseteq FaultKinds
    BY NoFault
  <2>2. DOMAIN eventPuts' = Wallets /\ \A v \in Wallets : PutsFit(v)'
    BY PutsSame
  <2>3. /\ DOMAIN bridges' = Wallets /\ \A v \in Wallets : BridgesFit(v)'
        /\ Total(Bridged)' = Total(Bridged)
    BY BridgesSame
  <2>4. LedgerTypeOK'
    BY <2>1, <2>2, <2>3, LedgerTyped, LedgerTypedNext DEF LedgerShape
  <2>5. Excess' = Excess /\ Mirror' = Mirror /\ \A v \in Wallets : Gap(v)' = Gap(v)
    BY <2>3 DEF Excess, Mirror, Gap, Total
  <2> QED BY <2>1, <2>4, <2>5, SameBooks
<1> QED BY <1>1, <1>2, <1>3, <1>4, <1>5, <1>6, <1>7, <1>8 DEF LedgerNext

(* The inductive invariant of the credits holds in every state.            *)
THEOREM LedgerInvariant == LedgerSpec => []LedgerInv
BY LedgerStarts, LedgerKept, PTL DEF LedgerSpec

(* The events of a wallet, written or in flight, are its balance and what  *)
(* it spent without an event; after a crash they are never more (stake-    *)
(* manager.ts, yield_events).                                              *)
THEOREM BooksBalance == LedgerSpec => []BookBalanced
<1>1. LedgerInv => BookBalanced
  BY DEF LedgerInv
<1> QED BY <1>1, LedgerInvariant, PTL

(* Credits are neither made nor lost between the wallets, the vault, the   *)
(* bridges under way and the ways out, over orderly restarts too (stake-   *)
(* manager.ts, raid-vault.ts, gateway.ts).                                 *)
THEOREM CreditsConserved == LedgerSpec => []Conserved
<1>1. LedgerInv => Conserved
  BY DEF LedgerInv
<1> QED BY <1>1, LedgerInvariant, PTL

(* With no upsert in flight, overtaken or failed, the vault's row is the   *)
(* vault (raid-vault.ts, raid_vaults).                                     *)
THEOREM VaultIsMirrored == LedgerSpec => []VaultMirrored
<1>1. LedgerInv => VaultMirrored
  BY DEF LedgerInv, MirrorFits, Mirror, VaultMirrored
<1> QED BY <1>1, LedgerInvariant, PTL
================================================================================

---------------------------- MODULE MiningProofs ----------------------------
(***************************************************************************)
(* What the two modules of mining promise for every number of wallets,     *)
(* asteroids, ages and crews: the floor (DrillFloor: who mines where, with *)
(* what power, and whose stake it is) and the governor of what mining      *)
(* issues (Emission).                                                      *)
(*                                                                         *)
(* The floor's books are sums over the miners of an asteroid and over the  *)
(* wallets that hold stake there: every step moves one wallet in or out of *)
(* such a sum, or changes one summand (module Sums).  The two properties   *)
(* about power need to know what a wallet once held (PeakCovers).          *)
(*                                                                         *)
(* A day of the governor is covered by induction on age: what was issued   *)
(* since any age is within what the running process recorded since then    *)
(* and one full cap for each process that ended since then (PrefixCapped). *)
(* Ageing moves the bound for age k - 1 to age k; a restart turns the      *)
(* window, never above a cap and a discovery (WindowCapped), into one more *)
(* boot.                                                                   *)
(***************************************************************************)
EXTENDS DrillFloor, Emission, Sums, TLAPS

(***************************************************************************)
(* The floor.                                                              *)
(***************************************************************************)

(* What a wallet holds on chain or staked in the game is within its peak.  *)
PeakCovers ==
    \A w \in Wallets : onChain[w] <= peak[w] /\ walletStake[w] <= peak[w]

FloorInv ==
    /\ TypeOK
    /\ TotalsAddUp
    /\ PeakCovers
    /\ PowerFromSessionStake
    /\ StakeBooksAgree
    /\ RalliesPaid

-----------------------------------------------------------------------------
(* Drill power grows with stake. *)
LEMMA DrillGrows ==
  ASSUME NEW s \in Nat, NEW t \in Nat, s <= t
  PROVE  Drill(s) \in Nat /\ Drill(t) \in Nat /\ Drill(s) <= Drill(t)
<1> DEFINE b(n) == FreeBase + PerStake * n
<1>1. FreeBase \in Nat /\ PerStake \in Nat /\ TierAt \in Nat /\ TierFactor \in Nat \ {0}
  BY DrillAssumption
<1>2. PerStake * s \in Nat /\ PerStake * t \in Nat /\ PerStake * s <= PerStake * t
  BY <1>1
<1>3. b(s) \in Nat /\ b(t) \in Nat /\ b(s) <= b(t)
  BY <1>1, <1>2
<1> HIDE DEF b
<1>4. \A x, y \in Nat : x <= y => /\ x * TierFactor \in Nat
                                  /\ x <= x * TierFactor
                                  /\ x * TierFactor <= y * TierFactor
  BY <1>1
<1>5. b(s) * TierFactor \in Nat /\ b(t) * TierFactor \in Nat /\ b(s) <= b(s) * TierFactor
      /\ b(t) <= b(t) * TierFactor /\ b(s) * TierFactor <= b(t) * TierFactor
  BY <1>3, <1>4
<1>6. b(s) * 1 = b(s) /\ b(t) * 1 = b(t)
  BY <1>3
<1>7. /\ Drill(s) = b(s) * (IF s >= TierAt THEN TierFactor ELSE 1)
      /\ Drill(t) = b(t) * (IF t >= TierAt THEN TierFactor ELSE 1)
  BY DEF Drill, b
<1> QED BY <1>1, <1>3, <1>5, <1>6, <1>7

-----------------------------------------------------------------------------
(* Nobody mines and nothing is staked initially.                           *)
LEMMA InitFloor == Init => FloorInv
<1> SUFFICES ASSUME Init PROVE FloorInv
  OBVIOUS
<1> USE DrillAssumption DEF Init
<1>1. TypeOK
  BY DEF TypeOK, Absent
<1>2. TotalsAddUp
  <2> SUFFICES ASSUME NEW a \in Asteroids PROVE ReportedAt(a) = 0
    BY DEF TotalsAddUp
  <2>1. MinersAt(a) = {}
    BY DEF MinersAt
  <2> QED BY <2>1, SumEmpty DEF ReportedAt
<1>3. PeakCovers
  BY DEF PeakCovers
<1>4. PowerFromSessionStake
  <2>1. Drill(0) \in Nat
    BY DrillGrows
  <2> QED BY <2>1 DEF PowerFromSessionStake
<1>5. StakeBooksAgree
  <2>1. \A w \in Wallets : SumFunctionOnSet(stakes[w], Asteroids) = 0
    BY SumZero
  <2>2. \A a \in Asteroids : SumFunctionOnSet(StakesAt(a), Wallets) = 0
    <3> SUFFICES ASSUME NEW a \in Asteroids PROVE SumFunctionOnSet(StakesAt(a), Wallets) = 0
      OBVIOUS
    <3>1. \A w \in Wallets : StakesAt(a)[w] = 0
      BY DEF StakesAt
    <3> QED BY <3>1, SumZero
  <2> QED BY <2>1, <2>2 DEF StakeBooksAgree
<1>6. RalliesPaid
  BY DEF RalliesPaid
<1> QED BY <1>1, <1>2, <1>3, <1>4, <1>5, <1>6 DEF FloorInv

(* What counts as a wallet's stake at an asteroid is a number in both      *)
(* modes.                                                                  *)
LEMMA StakeAtNat ==
  ASSUME TypeOK, NEW w \in Wallets, NEW a
  PROVE  StakeAt(w, a) \in Nat \/ a \notin Asteroids
BY DrillAssumption DEF TypeOK, StakeAt

(* Taking a wallet's report off an asteroid's total leaves no negative.    *)
LEMMA TotalsWithoutTyped ==
  ASSUME TypeOK, NEW w \in Wallets
  PROVE  TotalsWithout(w) \in [Asteroids -> Nat]
BY DrillAssumption DEF TypeOK, TotalsWithout, RemoveMiner, Larger

(* An unstake takes what is there at most, from all three books.           *)
LEMMA UnstakeTyped ==
  ASSUME TypeOK, NEW w \in Wallets, NEW a \in Asteroids, NEW n \in Nat,
         ProcessUnstake(w, a, n)
  PROVE  /\ stakes' \in [Wallets -> [Asteroids -> 0..MaxStake]]
         /\ walletStake' \in [Wallets -> Int]
         /\ rockStake' \in [Asteroids -> Nat]
         /\ stakes[w][a] - stakes'[w][a] = Taken(w, a, n)
         /\ Taken(w, a, n) \in Nat
         /\ Taken(w, a, n) <= n
<1> USE DrillAssumption DEF TypeOK
<1>1. stakes[w][a] \in 0..MaxStake /\ MaxStake \in Nat
  OBVIOUS
<1>2. Taken(w, a, n) \in Nat /\ Taken(w, a, n) <= stakes[w][a] /\ Taken(w, a, n) <= n
  BY <1>1 DEF Taken
<1>3. stakes' = [stakes EXCEPT ![w][a] = Larger(0, @ - Taken(w, a, n))]
  BY DEF ProcessUnstake
<1>4. stakes'[w][a] = stakes[w][a] - Taken(w, a, n)
  BY <1>1, <1>2, <1>3 DEF Larger
<1>5. stakes' \in [Wallets -> [Asteroids -> 0..MaxStake]]
  BY <1>1, <1>2, <1>3 DEF Larger
<1>6. walletStake' \in [Wallets -> Int] /\ rockStake' \in [Asteroids -> Nat]
  BY <1>2 DEF ProcessUnstake, UpdateAsteroidStake, Larger
<1> QED BY <1>1, <1>2, <1>4, <1>5, <1>6

(* A sum of records is never negative. *)
LEMMA WalletStakeNat ==
  ASSUME TypeOK, StakeBooksAgree, NEW w \in Wallets
  PROVE  /\ walletStake[w] \in Nat
         /\ \A a \in Asteroids : stakes[w][a] <= walletStake[w]
<1>1. \A a \in Asteroids : stakes[w][a] \in Nat
  BY DrillAssumption DEF TypeOK
<1>2. SumFunctionOnSet(stakes[w], Asteroids) \in Nat
  BY <1>1, DrillAssumption, SumNat
<1>3. \A a \in Asteroids : stakes[w][a] <= SumFunctionOnSet(stakes[w], Asteroids)
  BY <1>1, DrillAssumption, SumMember
<1> QED BY <1>2, <1>3 DEF StakeBooksAgree

(* Every step keeps the types.                                             *)
LEMMA FloorTyped ==
  ASSUME TypeOK, StakeBooksAgree, [Next]_vars
  PROVE  TypeOK'
<1> USE DrillAssumption DEF TypeOK
<1>1. CASE UNCHANGED vars
  BY <1>1 DEF vars, floor, power, books, rallies
<1>2. ASSUME NEW w \in Wallets, Connect(w) PROVE TypeOK'
  BY <1>2 DEF Connect, power, books, rallies
<1>3. ASSUME NEW w \in Wallets, Disconnect(w) PROVE TypeOK'
  <2>1. total' \in [Asteroids -> Nat]
    BY <1>3, TotalsWithoutTyped DEF Disconnect
  <2>2. peak' \in [Wallets -> Nat]
    BY <1>3, WalletStakeNat DEF Disconnect
  <2> QED BY <1>3, <2>1, <2>2 DEF Disconnect, Absent, rallies
<1>4. ASSUME NEW w \in Wallets, LeaveAsteroid(w) PROVE TypeOK'
  <2>1. total' \in [Asteroids -> Nat]
    BY <1>4, TotalsWithoutTyped DEF LeaveAsteroid
  <2> QED BY <1>4, <2>1 DEF LeaveAsteroid, Absent, books, rallies
<1>5. ASSUME NEW w \in Wallets, ReportDrillPower(w) PROVE TypeOK'
  <2> DEFINE a == location[w]
  <2>1. a \in Asteroids
    BY <1>5 DEF ReportDrillPower
  <2>2. EffectiveDrillPower(w, a) \in Nat
    BY <2>1, StakeAtNat, DrillGrows DEF EffectiveDrillPower
  <2>3. total' \in [Asteroids -> Nat]
    BY <1>5, <2>1, <2>2 DEF ReportDrillPower, UpdateMinerDrillPower, Larger
  <2>4. reported' \in [Wallets -> Nat]
    BY <1>5, <2>2 DEF ReportDrillPower
  <2>5. roster' \in [Wallets -> [asteroid : Asteroids \cup {None}, drill : Nat]]
    BY <1>5, <2>1, <2>2 DEF ReportDrillPower
  <2> QED BY <1>5, <2>3, <2>4, <2>5 DEF ReportDrillPower, floor, books, rallies
<1>6. ASSUME NEW w \in Wallets, RaidEnds(w) PROVE TypeOK'
  BY <1>6 DEF RaidEnds, power, books, rallies
<1>7. ASSUME NEW w \in Wallets, NEW n \in 0..MaxStake, SyncOnChainStake(w, n) PROVE TypeOK'
  BY <1>7 DEF SyncOnChainStake, floor, power, rallies, Larger
<1>8. ASSUME NEW w \in Wallets, NEW a \in Asteroids, JoinAsteroid(w, a) PROVE TypeOK'
  <2>1. total' \in [Asteroids -> Nat]
    BY <1>8, TotalsWithoutTyped DEF JoinAsteroid
  <2> QED BY <1>8, <2>1 DEF JoinAsteroid, books, rallies
<1>9. ASSUME NEW w \in Wallets, NEW a \in Asteroids, SetHomeStation(w, a) PROVE TypeOK'
  BY <1>9 DEF SetHomeStation, power, books, rallies
<1>10. ASSUME NEW w \in Wallets, NEW a \in Asteroids, Launch(w, a) PROVE TypeOK'
  BY <1>10 DEF Launch, power, books, rallies
<1>11. ASSUME NEW w \in Wallets, NEW a \in Asteroids, Stake(w, a) PROVE TypeOK'
  <2>1. stakes' \in [Wallets -> [Asteroids -> 0..MaxStake]]
    <3>1. stakes[w][a] + 1 \in 0..MaxStake
      BY <1>11 DEF Stake
    <3> QED BY <1>11, <3>1 DEF Stake
  <2>2. walletStake' \in [Wallets -> Int] /\ rockStake' \in [Asteroids -> Nat]
    BY <1>11 DEF Stake, UpdateAsteroidStake, Larger
  <2>3. peak' \in [Wallets -> Nat]
    BY <1>11 DEF Stake, Larger
  <2>4. home' \in [Wallets -> Asteroids \cup {None}]
    BY <1>11 DEF Stake
  <2> QED BY <1>11, <2>1, <2>2, <2>3, <2>4 DEF Stake, power, rallies
<1>12. ASSUME NEW w \in Wallets, NEW a \in Asteroids, NEW n \in 1..(MaxStake + 1),
              Unstake(w, a, n)
       PROVE  TypeOK'
  <2>1. n \in Nat /\ ProcessUnstake(w, a, n)
    BY <1>12 DEF Unstake
  <2> QED BY <1>12, <2>1, UnstakeTyped DEF Unstake, floor, power, rallies
<1>13. ASSUME NEW w \in Wallets, NEW a \in Asteroids, NEW n \in 0..(MaxStake + 1),
              RallyDefense(w, a, n)
       PROVE  TypeOK'
  <2>1. n \in Nat /\ ProcessUnstake(w, a, n)
    BY <1>13 DEF RallyDefense
  <2>2. stakes[w][a] - stakes'[w][a] \in Nat
    BY <2>1, UnstakeTyped
  <2>3. rallied' \in Nat /\ burned' \in Nat
    BY <1>13, <2>1, <2>2 DEF RallyDefense
  <2> QED BY <1>13, <2>1, <2>3, UnstakeTyped DEF RallyDefense, floor, power
<1> QED
  BY <1>1, <1>2, <1>3, <1>4, <1>5, <1>6, <1>7, <1>8, <1>9, <1>10, <1>11, <1>12, <1>13
     DEF Next

-----------------------------------------------------------------------------
(* The totals. *)

(* The miners of an asteroid are finitely many, with natural reports.      *)
LEMMA MinersFinite ==
  ASSUME TypeOK, NEW a
  PROVE  /\ MinersAt(a) \in SUBSET Wallets
         /\ IsFiniteSet(MinersAt(a))
         /\ \A x \in Wallets : reported[x] \in Nat
         /\ ReportedAt(a) \in Nat
<1>1. MinersAt(a) \in SUBSET Wallets /\ \A x \in Wallets : reported[x] \in Nat
  BY DEF MinersAt, TypeOK
<1>2. IsFiniteSet(MinersAt(a))
  BY <1>1, DrillAssumption, FS_Subset
<1>3. ReportedAt(a) \in Nat
  BY <1>1, <1>2, SumNat DEF ReportedAt
<1> QED BY <1>1, <1>2, <1>3

(* Nobody moved at a and nobody there reported another power. *)
LEMMA SameMiners ==
  ASSUME TypeOK, NEW a, MinersAt(a)' = MinersAt(a),
         \A x \in MinersAt(a) : reported'[x] = reported[x]
  PROVE  ReportedAt(a)' = ReportedAt(a)
<1>1. SumFunctionOnSet(reported', MinersAt(a)) = SumFunctionOnSet(reported, MinersAt(a))
  BY MinersFinite, SumSame
<1> QED BY <1>1 DEF ReportedAt

(* w is no longer at its asteroid: the sum there loses what w reported.    *)
LEMMA MinerGone ==
  ASSUME TypeOK, NEW w \in Wallets, NEW a, location[w] = a,
         MinersAt(a)' = MinersAt(a) \ {w},
         \A x \in Wallets \ {w} : reported'[x] = reported[x]
  PROVE  /\ ReportedAt(a) = reported[w] + ReportedAt(a)'
         /\ ReportedAt(a)' \in Nat
<1> DEFINE M == MinersAt(a)
<1>1. IsFiniteSet(M) /\ M \in SUBSET Wallets /\ \A x \in M : reported[x] \in Nat
  BY MinersFinite
<1>2. w \in M
  BY DEF MinersAt
<1>3. IsFiniteSet(M \ {w})
  BY <1>1, FS_RemoveElement
<1>4. SumFunctionOnSet(reported', M \ {w}) = SumFunctionOnSet(reported, M \ {w})
  BY <1>1, <1>3, SumSame
<1>5. SumFunctionOnSet(reported, M \ {w}) \in Nat
  BY <1>1, <1>3, SumNat
<1>6. SumFunctionOnSet(reported, M) = reported[w] + SumFunctionOnSet(reported, M \ {w})
  BY <1>1, <1>2, SumRemove
<1> QED BY <1>4, <1>5, <1>6 DEF ReportedAt

(* A wallet leaves its asteroid: one summand fewer.                        *)
LEMMA LeavingTotals ==
  ASSUME TypeOK, TotalsAddUp, NEW w \in Wallets,
         total' = TotalsWithout(w),
         location' = [location EXCEPT ![w] = None],
         \A x \in Wallets \ {w} : reported'[x] = reported[x],
         skewed' = skewed
  PROVE  TotalsAddUp'
<1> USE DrillAssumption
<1> SUFFICES ASSUME NEW a \in Asteroids
             PROVE  /\ total'[a] <= ReportedAt(a)'
                    /\ a \notin skewed => total'[a] = ReportedAt(a)'
  BY DEF TotalsAddUp
<1>1. total[a] \in Nat /\ total[a] <= ReportedAt(a) /\ (a \notin skewed => total[a] = ReportedAt(a))
  BY DEF TotalsAddUp, TypeOK
<1>2. CASE location[w] = a
  <2>1. MinersAt(a)' = MinersAt(a) \ {w}
    BY <1>2 DEF MinersAt, TypeOK
  <2>2. ReportedAt(a) = reported[w] + ReportedAt(a)' /\ ReportedAt(a)' \in Nat
    BY <1>2, <2>1, MinerGone
  <2>3. total'[a] = RemoveMiner(total[a], reported[w])
    BY <1>2 DEF TotalsWithout, TypeOK
  <2>4. reported[w] \in Nat
    BY DEF TypeOK
  <2> QED BY <1>1, <2>2, <2>3, <2>4 DEF RemoveMiner, Larger
<1>3. CASE location[w] # a
  <2>1. MinersAt(a)' = MinersAt(a) /\ w \notin MinersAt(a)
    BY <1>3 DEF MinersAt, TypeOK
  <2>2. ReportedAt(a)' = ReportedAt(a)
    BY <2>1, SameMiners, MinersFinite
  <2>3. total'[a] = total[a]
    BY <1>3 DEF TotalsWithout, TypeOK
  <2> QED BY <1>1, <2>2, <2>3
<1> QED BY <1>2, <1>3

(* A wallet comes to an asteroid: one summand more, counted as 0 at first. *)
LEMMA JoiningTotals ==
  ASSUME TypeOK, TotalsAddUp, NEW w \in Wallets, NEW b \in Asteroids, JoinAsteroid(w, b)
  PROVE  TotalsAddUp'
<1> USE DrillAssumption DEF JoinAsteroid
<1> SUFFICES ASSUME NEW a \in Asteroids
             PROVE  /\ total'[a] <= ReportedAt(a)'
                    /\ a \notin skewed' => total'[a] = ReportedAt(a)'
  BY DEF TotalsAddUp
<1>1. total[a] \in Nat /\ total[a] <= ReportedAt(a) /\ (a \notin skewed => total[a] = ReportedAt(a))
  BY DEF TotalsAddUp, TypeOK
<1>2. reported' = reported /\ reported[w] \in Nat
  BY DEF TypeOK
<1>3. a \notin skewed' => a \notin skewed
  OBVIOUS
<1>4. CASE location[w] = b
  <2>1. MinersAt(a)' = MinersAt(a)
    BY <1>4 DEF MinersAt, TypeOK
  <2>2. ReportedAt(a)' = ReportedAt(a)
    BY <1>2, <2>1, SameMiners
  <2> QED BY <1>1, <1>3, <1>4, <2>2
<1>5. CASE location[w] # b /\ a = b
  <2> DEFINE M == MinersAt(a)
  <2>1. MinersAt(a)' = M \cup {w} /\ w \notin M
    BY <1>5 DEF MinersAt, TypeOK
  <2>2. ReportedAt(a)' = SumFunctionOnSet(reported, M \cup {w})
    BY <1>2, <2>1 DEF ReportedAt
  <2>3. IsFiniteSet(M) /\ \A x \in M \cup {w} : reported[x] \in Int
    BY MinersFinite
  <2>4. SumFunctionOnSet(reported, M \cup {w}) = SumFunctionOnSet(reported, M) + reported[w]
    BY <2>1, <2>3, SumAdd
  <2>5. ReportedAt(a)' = ReportedAt(a) + reported[w] /\ ReportedAt(a) \in Nat
    BY <2>2, <2>4, MinersFinite DEF ReportedAt
  <2>6. total'[a] = total[a]
    BY <1>5 DEF TotalsWithout, TypeOK
  <2>7. a \notin skewed' => reported[w] = 0
    BY <1>2, <1>5
  <2> QED BY <1>1, <1>2, <1>3, <2>5, <2>6, <2>7
<1>6. CASE location[w] # b /\ a # b /\ location[w] = a
  <2>1. MinersAt(a)' = MinersAt(a) \ {w}
    BY <1>6 DEF MinersAt, TypeOK
  <2>2. ReportedAt(a) = reported[w] + ReportedAt(a)' /\ ReportedAt(a)' \in Nat
    BY <1>2, <1>6, <2>1, MinerGone
  <2>3. total'[a] = RemoveMiner(total[a], reported[w])
    BY <1>6 DEF TotalsWithout, TypeOK
  <2> QED BY <1>1, <1>2, <1>3, <2>2, <2>3 DEF RemoveMiner, Larger
<1>7. CASE location[w] # b /\ a # b /\ location[w] # a
  <2>1. MinersAt(a)' = MinersAt(a)
    BY <1>7 DEF MinersAt, TypeOK
  <2>2. ReportedAt(a)' = ReportedAt(a)
    BY <1>2, <2>1, SameMiners
  <2>3. total'[a] = total[a]
    BY <1>7 DEF TotalsWithout, TypeOK
  <2> QED BY <1>1, <1>3, <2>2, <2>3
<1> QED BY <1>4, <1>5, <1>6, <1>7

(* A report changes one summand and the total by the difference.           *)
LEMMA ReportingTotals ==
  ASSUME TypeOK, TypeOK', TotalsAddUp, NEW w \in Wallets, ReportDrillPower(w)
  PROVE  TotalsAddUp'
<1> USE DrillAssumption
<1> SUFFICES ASSUME NEW a \in Asteroids
             PROVE  /\ total'[a] <= ReportedAt(a)'
                    /\ a \notin skewed => total'[a] = ReportedAt(a)'
  BY DEF TotalsAddUp, ReportDrillPower
<1>1. total[a] \in Nat /\ total[a] <= ReportedAt(a) /\ (a \notin skewed => total[a] = ReportedAt(a))
  BY DEF TotalsAddUp, TypeOK
<1>2. MinersAt(a)' = MinersAt(a)
  BY DEF ReportDrillPower, floor, MinersAt
<1>3. /\ reported[w] \in Nat /\ reported'[w] \in Nat
      /\ \A x \in Wallets \ {w} : reported'[x] = reported[x]
      /\ reported'[w] = EffectiveDrillPower(w, location[w])
  BY DEF ReportDrillPower, TypeOK
<1>4. CASE location[w] = a
  <2> DEFINE M == MinersAt(a)
  <2>1. w \in M /\ IsFiniteSet(M) /\ M \in SUBSET Wallets
    BY <1>4, MinersFinite DEF MinersAt
  <2>2. \A x \in M : reported[x] \in Int /\ reported'[x] \in Int
    BY <2>1 DEF TypeOK
  <2>3. SumFunctionOnSet(reported', M) =
          SumFunctionOnSet(reported, M) + (reported'[w] - reported[w])
    BY <1>3, <2>1, <2>2, SumChange
  <2>4. ReportedAt(a)' = ReportedAt(a) + (reported'[w] - reported[w])
    BY <1>2, <2>3 DEF ReportedAt
  <2>5. ReportedAt(a) \in Nat /\ reported[w] <= ReportedAt(a)
    BY <2>1, MinersFinite, SumMember DEF ReportedAt
  <2>6. total'[a] = UpdateMinerDrillPower(total[a], reported[w], reported'[w])
    BY <1>3, <1>4 DEF ReportDrillPower, TypeOK
  <2> QED BY <1>1, <1>3, <2>4, <2>5, <2>6 DEF UpdateMinerDrillPower, Larger
<1>5. CASE location[w] # a
  <2>1. w \notin MinersAt(a)
    BY <1>5 DEF MinersAt
  <2>2. ReportedAt(a)' = ReportedAt(a)
    BY <1>2, <1>3, <2>1, SameMiners, MinersFinite
  <2>3. total'[a] = total[a]
    BY <1>5 DEF ReportDrillPower, TypeOK
  <2> QED BY <1>1, <2>2, <2>3
<1> QED BY <1>4, <1>5

(* Steps that move no one and report nothing.                              *)
LEMMA TotalsUntouched ==
  ASSUME TotalsAddUp, UNCHANGED <<location, power>>
  PROVE  TotalsAddUp'
BY DEF TotalsAddUp, ReportedAt, MinersAt, power

(* Every step keeps the totals.                                            *)
LEMMA FloorTotals ==
  ASSUME TypeOK, TypeOK', TotalsAddUp, [Next]_vars
  PROVE  TotalsAddUp'
<1>1. CASE UNCHANGED vars
  BY <1>1, TotalsUntouched DEF vars, floor
<1>2. ASSUME NEW w \in Wallets, Connect(w) PROVE TotalsAddUp'
  BY <1>2, TotalsUntouched DEF Connect
<1>3. ASSUME NEW w \in Wallets, Disconnect(w) PROVE TotalsAddUp'
  BY <1>3, LeavingTotals DEF Disconnect, TypeOK
<1>4. ASSUME NEW w \in Wallets, LeaveAsteroid(w) PROVE TotalsAddUp'
  BY <1>4, LeavingTotals DEF LeaveAsteroid
<1>5. ASSUME NEW w \in Wallets, ReportDrillPower(w) PROVE TotalsAddUp'
  BY <1>5, ReportingTotals
<1>6. ASSUME NEW w \in Wallets, RaidEnds(w) PROVE TotalsAddUp'
  BY <1>6, TotalsUntouched DEF RaidEnds
<1>7. ASSUME NEW w \in Wallets, NEW n \in 0..MaxStake, SyncOnChainStake(w, n) PROVE TotalsAddUp'
  BY <1>7, TotalsUntouched DEF SyncOnChainStake, floor
<1>8. ASSUME NEW w \in Wallets, NEW a \in Asteroids, JoinAsteroid(w, a) PROVE TotalsAddUp'
  BY <1>8, JoiningTotals
<1>9. ASSUME NEW w \in Wallets, NEW a \in Asteroids, SetHomeStation(w, a) PROVE TotalsAddUp'
  BY <1>9, TotalsUntouched DEF SetHomeStation
<1>10. ASSUME NEW w \in Wallets, NEW a \in Asteroids, Launch(w, a) PROVE TotalsAddUp'
  BY <1>10, TotalsUntouched DEF Launch
<1>11. ASSUME NEW w \in Wallets, NEW a \in Asteroids, Stake(w, a) PROVE TotalsAddUp'
  BY <1>11, TotalsUntouched DEF Stake
<1>12. ASSUME NEW w \in Wallets, NEW a \in Asteroids, NEW n \in 1..(MaxStake + 1),
              Unstake(w, a, n)
       PROVE  TotalsAddUp'
  BY <1>12, TotalsUntouched DEF Unstake, floor
<1>13. ASSUME NEW w \in Wallets, NEW a \in Asteroids, NEW n \in 0..(MaxStake + 1),
              RallyDefense(w, a, n)
       PROVE  TotalsAddUp'
  BY <1>13, TotalsUntouched DEF RallyDefense, floor
<1> QED
  BY <1>1, <1>2, <1>3, <1>4, <1>5, <1>6, <1>7, <1>8, <1>9, <1>10, <1>11, <1>12, <1>13
     DEF Next

-----------------------------------------------------------------------------
(* The books of stake. *)

(* A record changes by d, and the sums of its wallet and its asteroid with *)
(* it.                                                                     *)
LEMMA BooksMove ==
  ASSUME TypeOK, TypeOK', StakeBooksAgree,
         NEW w \in Wallets, NEW a \in Asteroids, NEW d \in Int,
         stakes' = [stakes EXCEPT ![w][a] = stakes[w][a] + d],
         walletStake' = [walletStake EXCEPT ![w] = walletStake[w] + d],
         rockStake' = [rockStake EXCEPT ![a] = rockStake[a] + d]
  PROVE  StakeBooksAgree'
<1> USE DrillAssumption
<1>0. /\ \A x \in Wallets, b \in Asteroids : stakes[x][b] \in Int /\ stakes'[x][b] \in Int
      /\ stakes'[w][a] - stakes[w][a] = d
      /\ \A x \in Wallets, b \in Asteroids : x # w \/ b # a => stakes'[x][b] = stakes[x][b]
  BY DEF TypeOK
<1>1. ASSUME NEW x \in Wallets
      PROVE  walletStake'[x] = SumFunctionOnSet(stakes'[x], Asteroids)
  <2>0. walletStake[x] = SumFunctionOnSet(stakes[x], Asteroids)
    BY DEF StakeBooksAgree
  <2>1. CASE x = w
    <3>0. /\ \A b \in Asteroids : stakes[w][b] \in Int /\ stakes'[w][b] \in Int
          /\ \A b \in Asteroids \ {a} : stakes'[w][b] = stakes[w][b]
      BY <1>0
    <3>1. SumFunctionOnSet(stakes'[w], Asteroids) =
            SumFunctionOnSet(stakes[w], Asteroids) + (stakes'[w][a] - stakes[w][a])
      <4> DEFINE before == stakes[w]  after == stakes'[w]
      <4>1. /\ \A b \in Asteroids : before[b] \in Int /\ after[b] \in Int
            /\ \A b \in Asteroids \ {a} : after[b] = before[b]
        BY <3>0
      <4> HIDE DEF before, after
      <4>2. SumFunctionOnSet(after, Asteroids) =
              SumFunctionOnSet(before, Asteroids) + (after[a] - before[a])
        BY <4>1, SumChange
      <4> QED BY <4>2 DEF before, after
    <3> QED BY <1>0, <2>0, <2>1, <3>1 DEF TypeOK
  <2>2. CASE x # w
    <3>1. SumFunctionOnSet(stakes'[x], Asteroids) = SumFunctionOnSet(stakes[x], Asteroids)
      BY <1>0, <2>2, SumSame
    <3> QED BY <2>0, <2>2, <3>1 DEF TypeOK
  <2> QED BY <2>1, <2>2
<1>2. ASSUME NEW b \in Asteroids
      PROVE  rockStake'[b] = SumFunctionOnSet(StakesAt(b)', Wallets)
  <2>0. rockStake[b] = SumFunctionOnSet(StakesAt(b), Wallets)
    BY DEF StakeBooksAgree
  <2>1. \A x \in Wallets : /\ StakesAt(b)[x] = stakes[x][b]
                           /\ StakesAt(b)'[x] = stakes'[x][b]
    BY DEF StakesAt
  <2>2. CASE b = a
    <3>1. SumFunctionOnSet(StakesAt(b)', Wallets) =
            SumFunctionOnSet(StakesAt(b), Wallets) + (StakesAt(b)'[w] - StakesAt(b)[w])
      BY <1>0, <2>1, <2>2, SumChange
    <3> QED BY <1>0, <2>0, <2>1, <2>2, <3>1 DEF TypeOK
  <2>3. CASE b # a
    <3>1. SumFunctionOnSet(StakesAt(b)', Wallets) = SumFunctionOnSet(StakesAt(b), Wallets)
      BY <1>0, <2>1, <2>3, SumSame
    <3> QED BY <2>0, <2>3, <3>1 DEF TypeOK
  <2> QED BY <2>2, <2>3
<1> QED BY <1>1, <1>2 DEF StakeBooksAgree

(* An unstake takes the same from the three books.                         *)
LEMMA BooksUnstake ==
  ASSUME TypeOK, TypeOK', StakeBooksAgree,
         NEW w \in Wallets, NEW a \in Asteroids, NEW n \in Nat, ProcessUnstake(w, a, n)
  PROVE  StakeBooksAgree'
<1> DEFINE d == Taken(w, a, n)
<1> USE DrillAssumption
<1>1. stakes[w][a] \in Nat /\ walletStake[w] \in Int /\ rockStake[a] \in Nat
  BY DEF TypeOK
<1>2. d \in Nat /\ d <= stakes[w][a]
  BY <1>1 DEF Taken
<1>3. stakes[w][a] <= rockStake[a]
  <2>1. \A x \in Wallets : StakesAt(a)[x] \in Nat
    BY DEF TypeOK, StakesAt
  <2>2. StakesAt(a)[w] <= SumFunctionOnSet(StakesAt(a), Wallets)
    BY <2>1, SumMember
  <2> QED BY <2>2 DEF StakesAt, StakeBooksAgree
<1>4. Larger(0, stakes[w][a] - d) = stakes[w][a] + (-d)
  BY <1>1, <1>2 DEF Larger
<1>5. UpdateAsteroidStake(rockStake[a], -d) = rockStake[a] + (-d)
  BY <1>1, <1>2, <1>3 DEF UpdateAsteroidStake, Larger
<1>6. walletStake[w] - d = walletStake[w] + (-d)
  BY <1>1, <1>2
<1>7. /\ stakes' = [stakes EXCEPT ![w][a] = Larger(0, @ - d)]
      /\ walletStake' = [walletStake EXCEPT ![w] = @ - d]
      /\ rockStake' = [rockStake EXCEPT ![a] = UpdateAsteroidStake(@, -d)]
  BY DEF ProcessUnstake
<1>8. /\ stakes' = [stakes EXCEPT ![w][a] = stakes[w][a] + (-d)]
      /\ walletStake' = [walletStake EXCEPT ![w] = walletStake[w] + (-d)]
      /\ rockStake' = [rockStake EXCEPT ![a] = rockStake[a] + (-d)]
  <2> HIDE DEF d
  <2> QED BY <1>4, <1>5, <1>6, <1>7 DEF TypeOK
<1>9. -d \in Int
  BY <1>2
<1> HIDE DEF d
<1> QED BY <1>8, <1>9, BooksMove

(* Steps that change no stake.                                             *)
LEMMA BooksUntouched ==
  ASSUME StakeBooksAgree, UNCHANGED <<stakes, walletStake, rockStake>>
  PROVE  StakeBooksAgree'
BY DEF StakeBooksAgree, StakesAt

(* Every step keeps the books of stake.                                    *)
LEMMA FloorBooks ==
  ASSUME TypeOK, TypeOK', StakeBooksAgree, [Next]_vars
  PROVE  StakeBooksAgree'
<1>1. CASE UNCHANGED vars
  BY <1>1, BooksUntouched DEF vars, books
<1>2. ASSUME NEW w \in Wallets,
             \/ Connect(w) \/ LeaveAsteroid(w) \/ ReportDrillPower(w) \/ RaidEnds(w)
      PROVE  StakeBooksAgree'
  BY <1>2, BooksUntouched DEF Connect, LeaveAsteroid, ReportDrillPower, RaidEnds, books
<1>3. ASSUME NEW w \in Wallets, Disconnect(w) PROVE StakeBooksAgree'
  BY <1>3, BooksUntouched DEF Disconnect
<1>4. ASSUME NEW w \in Wallets, NEW n \in 0..MaxStake, SyncOnChainStake(w, n)
      PROVE  StakeBooksAgree'
  BY <1>4, BooksUntouched DEF SyncOnChainStake
<1>5. ASSUME NEW w \in Wallets, NEW a \in Asteroids,
             JoinAsteroid(w, a) \/ SetHomeStation(w, a) \/ Launch(w, a)
      PROVE  StakeBooksAgree'
  BY <1>5, BooksUntouched DEF JoinAsteroid, SetHomeStation, Launch, books
<1>6. ASSUME NEW w \in Wallets, NEW a \in Asteroids, Stake(w, a) PROVE StakeBooksAgree'
  <2>1. UpdateAsteroidStake(rockStake[a], 1) = rockStake[a] + 1
    BY DEF TypeOK, UpdateAsteroidStake, Larger
  <2>2. /\ stakes' = [stakes EXCEPT ![w][a] = stakes[w][a] + 1]
        /\ walletStake' = [walletStake EXCEPT ![w] = walletStake[w] + 1]
        /\ rockStake' = [rockStake EXCEPT ![a] = rockStake[a] + 1]
    BY <1>6, <2>1 DEF Stake, TypeOK
  <2> QED BY <2>2, 1 \in Int, BooksMove
<1>7. ASSUME NEW w \in Wallets, NEW a \in Asteroids, NEW n \in 1..(MaxStake + 1),
             Unstake(w, a, n)
      PROVE  StakeBooksAgree'
  <2>1. n \in Nat /\ ProcessUnstake(w, a, n)
    BY <1>7, DrillAssumption DEF Unstake
  <2> QED BY <2>1, BooksUnstake
<1>8. ASSUME NEW w \in Wallets, NEW a \in Asteroids, NEW n \in 0..(MaxStake + 1),
             RallyDefense(w, a, n)
      PROVE  StakeBooksAgree'
  <2>1. n \in Nat /\ ProcessUnstake(w, a, n)
    BY <1>8, DrillAssumption DEF RallyDefense
  <2> QED BY <2>1, BooksUnstake
<1> QED BY <1>1, <1>2, <1>3, <1>4, <1>5, <1>6, <1>7, <1>8 DEF Next

-----------------------------------------------------------------------------
(* Peaks and rallies. *)

(* Every step keeps peaks above holdings and reports below peaks.          *)
LEMMA FloorPeaks ==
  ASSUME TypeOK, TypeOK', StakeBooksAgree, PeakCovers, PowerFromSessionStake, [Next]_vars
  PROVE  PeakCovers' /\ PowerFromSessionStake'
<1> USE DrillAssumption DEF PeakCovers, PowerFromSessionStake
<1>0. \A x \in Wallets : /\ onChain[x] \in Nat /\ walletStake[x] \in Nat /\ peak[x] \in Nat
                         /\ peak'[x] \in Nat /\ reported[x] \in Nat
                         /\ Drill(peak[x]) \in Nat /\ Drill(peak'[x]) \in Nat
                         /\ peak[x] <= peak'[x] => Drill(peak[x]) <= Drill(peak'[x])
  <2>1. \A x \in Wallets : /\ onChain[x] \in Nat /\ walletStake[x] \in Nat /\ peak[x] \in Nat
                           /\ peak'[x] \in Nat /\ reported[x] \in Nat
    BY WalletStakeNat DEF TypeOK
  <2> QED BY <2>1, DrillGrows
<1>1. CASE UNCHANGED <<reported, onChain, walletStake, peak>>
  BY <1>1
<1>2. ASSUME NEW w \in Wallets, Disconnect(w) PROVE PeakCovers' /\ PowerFromSessionStake'
  <2>1. /\ peak' = [peak EXCEPT ![w] = onChain[w] + walletStake[w]]
        /\ reported' = [reported EXCEPT ![w] = 0]
        /\ UNCHANGED <<onChain, walletStake>>
    BY <1>2 DEF Disconnect
  <2>2. peak'[w] = onChain[w] + walletStake[w] /\ reported'[w] = 0
        /\ \A x \in Wallets \ {w} : peak'[x] = peak[x] /\ reported'[x] = reported[x]
    BY <2>1 DEF TypeOK
  <2> QED BY <1>0, <2>1, <2>2
<1>3. ASSUME NEW w \in Wallets, ReportDrillPower(w) PROVE PeakCovers' /\ PowerFromSessionStake'
  <2> DEFINE a == location[w]
  <2>1. UNCHANGED <<onChain, walletStake, peak>> /\ a \in Asteroids
    BY <1>3 DEF ReportDrillPower, books, TypeOK
  <2>2. StakeAt(w, a) \in Nat /\ StakeAt(w, a) <= peak[w]
    BY <1>0, <2>1, WalletStakeNat DEF StakeAt, TypeOK
  <2>3. /\ reported'[w] = Drill(StakeAt(w, a))
        /\ \A x \in Wallets \ {w} : reported'[x] = reported[x]
    BY <1>3 DEF ReportDrillPower, EffectiveDrillPower, TypeOK
  <2>4. Drill(StakeAt(w, a)) <= Drill(peak[w])
    BY <1>0, <2>2, DrillGrows
  <2> QED BY <1>0, <2>1, <2>3, <2>4
<1>4. ASSUME NEW w \in Wallets, NEW n \in 0..MaxStake, SyncOnChainStake(w, n)
      PROVE  PeakCovers' /\ PowerFromSessionStake'
  <2>1. /\ UNCHANGED <<reported, walletStake>>
        /\ onChain'[w] = n /\ peak'[w] = Larger(peak[w], n)
        /\ \A x \in Wallets \ {w} : peak'[x] = peak[x] /\ onChain'[x] = onChain[x]
    BY <1>4 DEF SyncOnChainStake, power, TypeOK
  <2>2. n \in Nat /\ peak[w] <= peak'[w] /\ n <= peak'[w]
    BY <1>0, <2>1 DEF Larger
  <2> QED BY <1>0, <2>1, <2>2
<1>5. ASSUME NEW w \in Wallets, NEW a \in Asteroids, Stake(w, a)
      PROVE  PeakCovers' /\ PowerFromSessionStake'
  <2>1. /\ UNCHANGED <<reported, onChain>>
        /\ walletStake'[w] = walletStake[w] + 1
        /\ peak'[w] = Larger(peak[w], walletStake[w] + 1)
        /\ \A x \in Wallets \ {w} : peak'[x] = peak[x] /\ walletStake'[x] = walletStake[x]
    BY <1>5 DEF Stake, power, TypeOK
  <2>2. peak[w] <= peak'[w] /\ walletStake'[w] <= peak'[w]
    BY <1>0, <2>1 DEF Larger
  <2> QED BY <1>0, <2>1, <2>2
<1>6. ASSUME NEW w \in Wallets, NEW a \in Asteroids, NEW n \in Nat, ProcessUnstake(w, a, n),
             UNCHANGED <<reported, onChain, peak>>
      PROVE  PeakCovers' /\ PowerFromSessionStake'
  <2>1. Taken(w, a, n) \in Nat
    BY <1>6, UnstakeTyped
  <2>2. /\ walletStake'[w] = walletStake[w] - Taken(w, a, n)
        /\ \A x \in Wallets \ {w} : walletStake'[x] = walletStake[x]
    BY <1>6 DEF ProcessUnstake, TypeOK
  <2> QED BY <1>0, <1>6, <2>1, <2>2
<1>7. ASSUME NEW w \in Wallets, NEW a \in Asteroids, NEW n \in 1..(MaxStake + 1),
             Unstake(w, a, n)
      PROVE  PeakCovers' /\ PowerFromSessionStake'
  BY <1>6, <1>7 DEF Unstake, power
<1>8. ASSUME NEW w \in Wallets, NEW a \in Asteroids, NEW n \in 0..(MaxStake + 1),
             RallyDefense(w, a, n)
      PROVE  PeakCovers' /\ PowerFromSessionStake'
  BY <1>6, <1>8 DEF RallyDefense, power
<1>9. ASSUME NEW w \in Wallets, Connect(w) \/ LeaveAsteroid(w) \/ RaidEnds(w)
      PROVE  UNCHANGED <<reported, onChain, walletStake, peak>>
  BY <1>9 DEF Connect, LeaveAsteroid, RaidEnds, books, power
<1>10. ASSUME NEW w \in Wallets, NEW a \in Asteroids,
              JoinAsteroid(w, a) \/ SetHomeStation(w, a) \/ Launch(w, a)
       PROVE  UNCHANGED <<reported, onChain, walletStake, peak>>
  BY <1>10 DEF JoinAsteroid, SetHomeStation, Launch, books, power
<1>11. CASE UNCHANGED vars
  BY <1>1, <1>11 DEF vars, books, power
<1> HIDE DEF PeakCovers, PowerFromSessionStake
<1> QED
  BY <1>1, <1>2, <1>3, <1>4, <1>5, <1>7, <1>8, <1>9, <1>10, <1>11 DEF Next

(* Only a rally changes either side, and both by its cost.                 *)
LEMMA FloorRallies ==
  ASSUME TypeOK, RalliesPaid, [Next]_vars
  PROVE  RalliesPaid'
<1> USE DrillAssumption DEF RalliesPaid
<1>1. ASSUME NEW w \in Wallets, NEW a \in Asteroids, NEW n \in 0..(MaxStake + 1),
             RallyDefense(w, a, n)
      PROVE  RalliesPaid'
  <2>1. n \in Nat /\ ProcessUnstake(w, a, n)
    BY <1>1 DEF RallyDefense
  <2>2. stakes[w][a] - stakes'[w][a] = Taken(w, a, n)
    BY <2>1, UnstakeTyped
  <2>3. ~quarry => Taken(w, a, n) = n
    BY <1>1, <2>1 DEF RallyDefense, Covers, StakeAt, Taken, TypeOK
  <2> QED BY <1>1, <2>2, <2>3 DEF RallyDefense
<1>2. CASE UNCHANGED <<quarry, rallies>>
  BY <1>2 DEF rallies
<1>3. ASSUME NEW w \in Wallets,
             \/ Connect(w) \/ Disconnect(w) \/ LeaveAsteroid(w) \/ ReportDrillPower(w)
             \/ RaidEnds(w)
      PROVE  UNCHANGED <<quarry, rallies>>
  BY <1>3 DEF Connect, Disconnect, LeaveAsteroid, ReportDrillPower, RaidEnds
<1>4. ASSUME NEW w \in Wallets, NEW n \in 0..MaxStake, SyncOnChainStake(w, n)
      PROVE  UNCHANGED <<quarry, rallies>>
  BY <1>4 DEF SyncOnChainStake
<1>5. ASSUME NEW w \in Wallets, NEW a \in Asteroids,
             JoinAsteroid(w, a) \/ SetHomeStation(w, a) \/ Launch(w, a) \/ Stake(w, a)
      PROVE  UNCHANGED <<quarry, rallies>>
  BY <1>5 DEF JoinAsteroid, SetHomeStation, Launch, Stake
<1>6. ASSUME NEW w \in Wallets, NEW a \in Asteroids, NEW n \in 1..(MaxStake + 1),
             Unstake(w, a, n)
      PROVE  UNCHANGED <<quarry, rallies>>
  BY <1>6 DEF Unstake
<1>7. CASE UNCHANGED vars
  BY <1>7 DEF vars, rallies
<1> HIDE DEF RalliesPaid
<1> QED BY <1>1, <1>2, <1>3, <1>4, <1>5, <1>6, <1>7 DEF Next

-----------------------------------------------------------------------------
(* The floor's invariant is inductive.                                     *)
LEMMA FloorStep == FloorInv /\ [Next]_vars => FloorInv'
<1> SUFFICES ASSUME FloorInv, [Next]_vars PROVE FloorInv'
  OBVIOUS
<1>1. TypeOK'
  BY FloorTyped DEF FloorInv
<1>2. TotalsAddUp' /\ StakeBooksAgree' /\ PeakCovers' /\ PowerFromSessionStake' /\ RalliesPaid'
  BY <1>1, FloorTotals, FloorBooks, FloorPeaks, FloorRallies DEF FloorInv
<1> QED BY <1>1, <1>2 DEF FloorInv

(* The floor keeps its types, its books, the peaks they rest on and the    *)
(* price of every rally.                                                   *)
THEOREM FloorInvariant == Spec => []FloorInv
BY InitFloor, FloorStep, PTL DEF Spec

(* The cached total of an asteroid is never above the sum of what its      *)
(* miners reported, and is that sum unless a miner came to it with power   *)
(* remembered from before, through every join, leave, report, disconnect   *)
(* and raid's end.                                                         *)
THEOREM TotalsAlwaysAddUp == Spec => []TotalsAddUp
<1>1. FloorInv => TotalsAddUp
  BY DEF FloorInv
<1> QED BY <1>1, FloorInvariant, PTL

(* No report of a miner claims more drill power than the most stake its    *)
(* wallet held since it connected gives.                                   *)
THEOREM PowerAlwaysFromStake == Spec => []PowerFromSessionStake
<1>1. FloorInv => PowerFromSessionStake
  BY DEF FloorInv
<1> QED BY <1>1, FloorInvariant, PTL

(* The stake counted by wallet, by asteroid and by position is the same    *)
(* stake after every staking and unstaking.                                *)
THEOREM StakeBooksAlwaysAgree == Spec => []StakeBooksAgree
<1>1. FloorInv => StakeBooksAgree
  BY DEF FloorInv
<1> QED BY <1>1, FloorInvariant, PTL

(* With staking in the game, what rallies cost is what left the stakes for *)
(* them, whatever mix of rallies, stakes and unstakes there was.           *)
THEOREM RalliesAlwaysPaid == Spec => []RalliesPaid
<1>1. FloorInv => RalliesPaid
  BY DEF FloorInv
<1> QED BY <1>1, FloorInvariant, PTL

(***************************************************************************)
(* The governor.                                                           *)
(***************************************************************************)

(* What a process that runs for a day can record: it stops at the cap, one *)
(* discovery late.                                                         *)
Cap == DailyCap - 1 + MaxGross

WindowCapped == DailyCap > 0 => SumOf(window) <= Cap

(* The same promise for every age: what was issued since then is covered   *)
(* by what the running process recorded since then and by a full day of    *)
(* every process that ended since then.                                    *)
Since(byAge, k) == SumFunctionOnSet(byAge, 0 .. k)

Covered(k) == Since(window, k) + Cap * Since(boots, k)

PrefixCapped ==
    DailyCap > 0 =>
        \A k \in Ages : 100 * Since(issued, k) <= (100 + BonusPercent) * Covered(k)

EmissionInv ==
    /\ EmissionTypeOK
    /\ WindowCapped
    /\ PrefixCapped
    /\ ClaimsBounded

-----------------------------------------------------------------------------
(* Arithmetic.                                                             *)

(* A floored percentage: within a unit of the exact one.                   *)
LEMMA PercentFacts ==
  ASSUME NEW n \in Nat, NEW p \in Nat
  PROVE  /\ Percent(n, p) \in Nat
         /\ 100 * Percent(n, p) <= n * p
         /\ n * p < 100 * Percent(n, p) + 100
         /\ p <= 100 => Percent(n, p) <= n
<1>1. n * p \in Nat
  OBVIOUS
<1>2. p <= 100 => n * p <= n * 100
  OBVIOUS
<1> QED BY <1>1, <1>2, DivFacts DEF Percent

(* Multiplication by a natural is monotone.                                *)
LEMMA TimesGrows ==
  ASSUME NEW k \in Nat, NEW m \in Int, NEW n \in Int, m <= n
  PROVE  k * m <= k * n
OBVIOUS

(* Floored percentages are monotone.                                       *)
LEMMA PercentGrows ==
  ASSUME NEW m \in Nat, NEW n \in Nat, NEW p \in Nat, m <= n
  PROVE  Percent(m, p) <= Percent(n, p)
<1>1. p * m <= p * n
  BY TimesGrows
<1>2. m * p <= n * p /\ m * p \in Nat /\ n * p \in Nat
  BY <1>1
<1>3. /\ Percent(m, p) \in Nat /\ 100 * Percent(m, p) <= m * p
      /\ Percent(n, p) \in Nat /\ n * p < 100 * Percent(n, p) + 100
  BY PercentFacts
<1>4. 100 * Percent(m, p) < 100 * Percent(n, p) + 100
  BY <1>2, <1>3
<1> QED BY <1>3, <1>4

(* The assumption, constant by constant.                                   *)
LEMMA Assumed ==
  /\ DailyCap \in Nat /\ StaticBudget \in Nat /\ BonusPercent \in Nat /\ Day \in Nat
  /\ MaxFinds \in Nat
  /\ VaultPercent \in Nat /\ VaultPercent <= 100
  /\ BackingPercent \in Nat \ {0} /\ TaperPercent \in Nat \ {0} /\ TaperPercent <= 100
  /\ Balances \subseteq Nat /\ Amounts \subseteq Nat /\ Crews \subseteq Seq(Nat)
  /\ GrossYields \subseteq Nat /\ GrossYields # {} /\ IsFiniteSet(GrossYields)
BY EmissionAssumption

(* The greatest of the finitely many gross yields bounds each of them.     *)
LEMMA MaxGrossFacts ==
  /\ MaxGross \in Nat
  /\ \A gross \in GrossYields : gross <= MaxGross
<1> DEFINE S == GrossYields
           P == {T \in SUBSET S : T = {} \/ \E x \in T : \A y \in T : x >= y}
<1>0. S \subseteq Nat /\ S # {} /\ IsFiniteSet(S)
  BY Assumed
<1>1. ASSUME NEW T \in SUBSET S, \A x \in T : T \ {x} \in P PROVE T \in P
  <2>1. SUFFICES ASSUME NEW x \in T PROVE \E z \in T : \A y \in T : z >= y
    OBVIOUS
  <2>2. CASE T \ {x} = {}
    <3>1. \A y \in T : x >= y
      BY <2>2, <1>0
    <3> QED BY <3>1
  <2>3. CASE T \ {x} # {}
    <3>1. PICK z \in T \ {x} : \A y \in T \ {x} : z >= y
      BY <1>1, <2>3
    <3>2. CASE z >= x
      <4>1. \A y \in T : z >= y
        BY <3>1, <3>2
      <4> QED BY <4>1
    <3>3. CASE ~(z >= x)
      <4>1. x \in Nat /\ z \in Nat
        BY <1>0
      <4>2. \A y \in T : x >= y
        BY <1>0, <3>1, <3>3, <4>1
      <4> QED BY <4>2
    <3> QED BY <3>2, <3>3
  <2> QED BY <2>2, <2>3
<1> HIDE DEF P
<1>2. \A T \in SUBSET S : T \in P
  BY <1>0, <1>1, SubsetInduction
<1>3. S \in P
  BY <1>2
<1>4. \E x \in S : \A y \in S : x >= y
  BY <1>0, <1>3 DEF P
<1>5. MaxGross \in S /\ \A y \in S : MaxGross >= y
  BY <1>4 DEF MaxGross, Max
<1> QED BY <1>0, <1>5

(* With a cap, what a process may record in a day is a natural number.     *)
LEMMA CapType == DailyCap > 0 => Cap \in Nat
BY MaxGrossFacts, Assumed DEF Cap

-----------------------------------------------------------------------------
(* Sums by age.                                                            *)

(* There are finitely many ages up to any.                                 *)
LEMMA AgesFinite ==
  \A k \in Nat : IsFiniteSet(0 .. k)
BY FS_Interval

(* The amount since an age is natural.                                     *)
LEMMA SinceType ==
  ASSUME NEW f \in [Ages -> Nat], NEW k \in Ages
  PROVE  Since(f, k) \in Nat
<1>1. k \in Nat /\ 0 .. k \subseteq Ages
  BY Assumed DEF Ages
<1>2. IsFiniteSet(0 .. k) /\ \A a \in 0 .. k : f[a] \in Nat
  BY <1>1, AgesFinite
<1> QED BY <1>2, SumNat DEF Since

(* One age further back adds that age's amount.                            *)
LEMMA SinceNext ==
  ASSUME NEW f \in [Ages -> Nat], NEW k \in Ages, k + 1 \in Ages
  PROVE  Since(f, k + 1) = Since(f, k) + f[k + 1]
<1>1. k \in Nat /\ 0 .. k \subseteq Ages
  BY Assumed DEF Ages
<1>2. 0 .. (k + 1) = (0 .. k) \cup {k + 1} /\ k + 1 \notin 0 .. k
  BY <1>1
<1>3. IsFiniteSet(0 .. k) /\ \A a \in (0 .. k) \cup {k + 1} : f[a] \in Int
  BY <1>1, AgesFinite
<1>4. SumFunctionOnSet(f, (0 .. k) \cup {k + 1}) = SumFunctionOnSet(f, 0 .. k) + f[k + 1]
  <2> DEFINE S == 0 .. k  x == k + 1
  <2>1. x \notin S /\ IsFiniteSet(S) /\ \A a \in S \cup {x} : f[a] \in Int
    BY <1>2, <1>3
  <2> HIDE DEF S, x
  <2>2. SumFunctionOnSet(f, S \cup {x}) = SumFunctionOnSet(f, S) + f[x]
    BY <2>1, SumAdd
  <2> QED BY <2>2 DEF S, x
<1> QED BY <1>2, <1>4 DEF Since

(* Since an age is at most over the whole day.                             *)
LEMMA SinceGrows ==
  ASSUME NEW f \in [Ages -> Nat], NEW k \in Ages
  PROVE  Since(f, k) <= SumOf(f)
<1> DEFINE P == {n \in Nat : k + n \in Ages => Since(f, k) <= Since(f, k + n)}
<1>0. k \in Nat /\ k <= Day /\ Day \in Nat
  BY Assumed DEF Ages
<1>1. 0 \in P
  BY <1>0, SinceType
<1>2. \A n \in Nat : n \in P => n + 1 \in P
  <2> SUFFICES ASSUME NEW n \in P, k + (n + 1) \in Ages PROVE Since(f, k) <= Since(f, k + (n + 1))
    OBVIOUS
  <2>1. k + n \in Ages /\ k + (n + 1) = (k + n) + 1
    BY <1>0 DEF Ages
  <2>2. Since(f, k + (n + 1)) = Since(f, k + n) + f[k + (n + 1)]
    BY <2>1, SinceNext
  <2>3. Since(f, k + n) \in Nat /\ f[k + (n + 1)] \in Nat /\ Since(f, k) \in Nat
    BY <2>1, SinceType
  <2> QED BY <2>1, <2>2, <2>3
<1> HIDE DEF P
<1>3. Day - k \in P
  BY <1>0, <1>1, <1>2, SizeInduction
<1>4. Since(f, k) <= Since(f, Day)
  BY <1>0, <1>3 DEF P, Ages
<1> QED BY <1>4 DEF Since, SumOf, Ages

(* One tick later, what was issued since age k was issued since age k - 1. *)
LEMMA SinceOlder ==
  ASSUME NEW f \in [Ages -> Nat], NEW k \in Ages
  PROVE  /\ Older(f) \in [Ages -> Nat]
         /\ k = 0 => Since(Older(f), k) = 0
         /\ k > 0 => k - 1 \in Ages /\ Since(Older(f), k) = Since(f, k - 1)
<1> DEFINE g == Older(f)
           P == {n \in Nat : n + 1 \in Ages => Since(g, n + 1) = Since(f, n)}
<1>0. Day \in Nat /\ 0 \in Ages
  BY Assumed DEF Ages
<1>1. g \in [Ages -> Nat]
  BY <1>0 DEF Older, Ages
<1>2. g[0] = 0 /\ \A a \in Ages : a > 0 => g[a] = f[a - 1]
  BY <1>0 DEF Older, Ages
<1> HIDE DEF g
<1>3. Since(g, 0) = 0
  <2>1. 0 .. 0 = {0} /\ IsFiniteSet(0 .. 0)
    <3>1. 0 .. 0 = {0}
      OBVIOUS
    <3>2. IsFiniteSet({0})
      BY FS_Singleton
    <3> QED BY <3>1, <3>2
  <2>2. \A x \in 0 .. 0 : g[x] = 0
    BY <1>2, <2>1
  <2> QED BY <2>1, <2>2, SumZero DEF Since
<1>4. 0 \in P
  <2> SUFFICES ASSUME 0 + 1 \in Ages PROVE Since(g, 0 + 1) = Since(f, 0)
    OBVIOUS
  <2>1. Since(g, 0 + 1) = Since(g, 0) + g[0 + 1]
    BY <1>0, <1>1, SinceNext
  <2>2. g[0 + 1] = f[0]
    BY <1>2
  <2>3. Since(f, 0) = f[0]
    <3>1. {} \cup {0} = 0 .. 0 /\ IsFiniteSet({}) /\ \A x \in {} \cup {0} : f[x] \in Int
      BY <1>0, FS_EmptySet
    <3>2. SumFunctionOnSet(f, {} \cup {0}) = SumFunctionOnSet(f, {}) + f[0]
      BY <3>1, SumAdd
    <3> QED BY <1>0, <3>1, <3>2, SumEmpty DEF Since
  <2> QED BY <1>0, <1>3, <2>1, <2>2, <2>3
<1>5. \A n \in Nat : n \in P => n + 1 \in P
  <2> SUFFICES ASSUME NEW n \in Nat, n \in P, (n + 1) + 1 \in Ages
               PROVE  Since(g, (n + 1) + 1) = Since(f, n + 1)
    <3> HIDE DEF P
    <3>1. \A n \in Nat : ((n + 1) + 1 \in Ages => Since(g, (n + 1) + 1) = Since(f, n + 1))
                            => n + 1 \in P
      BY DEF P
    <3> QED BY <3>1
  <2>1. n \in Ages /\ n + 1 \in Ages /\ n \in Nat
    BY <1>0 DEF Ages
  <2>2. Since(g, (n + 1) + 1) = Since(g, n + 1) + g[(n + 1) + 1]
    BY <1>1, <2>1, SinceNext
  <2>3. g[(n + 1) + 1] = f[n + 1]
    BY <1>2, <2>1
  <2>4. Since(f, n + 1) = Since(f, n) + f[n + 1]
    BY <2>1, SinceNext
  <2> QED BY <2>1, <2>2, <2>3, <2>4
<1> HIDE DEF P
<1>6. Nat \subseteq P
  BY <1>4, <1>5, SizeInduction
<1>7. k > 0 => k - 1 \in Ages /\ Since(g, k) = Since(f, k - 1)
  <2> SUFFICES ASSUME k > 0 PROVE k - 1 \in Ages /\ Since(g, k) = Since(f, k - 1)
    OBVIOUS
  <2>1. k - 1 \in Ages /\ k - 1 \in Nat /\ (k - 1) + 1 = k
    BY <1>0 DEF Ages
  <2>2. k - 1 \in P
    BY <1>6, <2>1
  <2> QED BY <2>1, <2>2 DEF P
<1> QED BY <1>1, <1>3, <1>7 DEF g

(* What is added now counts for every age.                                 *)
LEMMA SinceAddNow ==
  ASSUME NEW f \in [Ages -> Nat], NEW n \in Nat, NEW k \in Ages
  PROVE  /\ AddNow(f, n) \in [Ages -> Nat]
         /\ Since(AddNow(f, n), k) = Since(f, k) + n
<1> DEFINE g == AddNow(f, n)
<1>0. k \in Nat /\ 0 .. k \subseteq Ages /\ 0 \in 0 .. k /\ 0 \in Ages
  BY Assumed DEF Ages
<1>1. g \in [Ages -> Nat] /\ g[0] = f[0] + n /\ \A a \in Ages \ {0} : g[a] = f[a]
  BY <1>0 DEF AddNow
<1> HIDE DEF g
<1>2. IsFiniteSet(0 .. k)
  BY <1>0, AgesFinite
<1>3. \A a \in 0 .. k : f[a] \in Int /\ g[a] \in Int
  BY <1>0, <1>1
<1>4. \A a \in (0 .. k) \ {0} : g[a] = f[a]
  BY <1>0, <1>1
<1>5. SumFunctionOnSet(g, 0 .. k) = SumFunctionOnSet(f, 0 .. k) + (g[0] - f[0])
  BY <1>0, <1>2, <1>3, <1>4, SumChange
<1>6. SumFunctionOnSet(f, 0 .. k) \in Int
  BY <1>2, <1>3, SumInt
<1> QED BY <1>0, <1>1, <1>5, <1>6 DEF Since, g

(* An empty record counts nothing.                                         *)
LEMMA SinceNone ==
  ASSUME NEW k \in Ages
  PROVE  Since([a \in Ages |-> 0], k) = 0
<1>1. k \in Nat /\ 0 .. k \subseteq Ages
  BY Assumed DEF Ages
<1>2. IsFiniteSet(0 .. k) /\ \A x \in 0 .. k : [a \in Ages |-> 0][x] = 0
  BY <1>1, AgesFinite
<1> QED BY <1>2, SumZero DEF Since

-----------------------------------------------------------------------------
(* What a discovery pays.                                                  *)

(* The floored shares of a pool are within the pool.                       *)
LEMMA SharesWithin ==
  ASSUME NEW crew \in Crews, NEW pool \in Nat,
         NEW finder \in DOMAIN crew, crew[finder] > 0
  PROVE  /\ Share(pool, crew, finder) \in Nat
         /\ Share(pool, crew, finder) <= pool
         /\ SumFunction([i \in DOMAIN crew |-> Share(pool, crew, i)]) \in Nat
         /\ SumFunction([i \in DOMAIN crew |-> Share(pool, crew, i)]) <= pool
<1> DEFINE D == DOMAIN crew
           W == SumFunctionOnSet(crew, D)
           g == [i \in D |-> Share(pool, crew, i)]
<1>1. IsFiniteSet(D) /\ \A i \in D : crew[i] \in Nat
  <2>1. crew \in Seq(Nat)
    BY Assumed
  <2>2. D = 1 .. Len(crew) /\ Len(crew) \in Nat
    BY <2>1
  <2>3. IsFiniteSet(1 .. Len(crew))
    BY <2>2, 1 \in Int, Len(crew) \in Int, FS_Interval
  <2>4. \A i \in 1 .. Len(crew) : crew[i] \in Nat
    BY <2>1
  <2> QED BY <2>2, <2>3, <2>4
<1>2. W \in Nat /\ crew[finder] <= W
  <2> HIDE DEF D
  <2> QED BY <1>1, SumNat, SumMember DEF D
<1>3. W \in Nat \ {0}
  BY <1>1, <1>2
<1>4. \A i \in D : Share(pool, crew, i) = (pool * crew[i]) \div W
  BY DEF Share, SumFunction, SumFunctionOnSet, FoldFunction, FoldFunctionOnSet
<1>5. \A i \in D : g[i] = (crew[i] * pool) \div W
  <2>1. \A i \in D : pool * crew[i] = crew[i] * pool
    BY <1>1
  <2> QED BY <1>4, <2>1
<1>6. DOMAIN g = D
  OBVIOUS
<1> HIDE DEF D, g
<1>7. /\ \A i \in D : g[i] \in Nat
      /\ SumFunctionOnSet(g, D) \in Nat /\ SumFunctionOnSet(g, D) <= pool
  BY <1>1, <1>3, <1>5, SumShares
<1> HIDE DEF W
<1> USE DEF D
<1>9. g[finder] <= SumFunctionOnSet(g, D) /\ g[finder] \in Nat
  BY <1>1, <1>7, SumMember
<1>10. SumFunction(g) = SumFunctionOnSet(g, D)
  BY <1>6 DEF SumFunction, SumFunctionOnSet, FoldFunction, FoldFunctionOnSet
<1>11. g[finder] = Share(pool, crew, finder)
  BY DEF g
<1>12. SumFunction(g) \in Nat /\ SumFunction(g) <= pool
  BY <1>7, <1>10
<1>13. Share(pool, crew, finder) \in Nat /\ Share(pool, crew, finder) <= pool
  BY <1>7, <1>9, <1>11
<1> QED BY <1>12, <1>13 DEF g

(* A payout is the pool at most, with the bonus of all of it.              *)
LEMMA PayoutWithin ==
  ASSUME NEW crew \in Crews, NEW pool \in Nat,
         NEW finder \in DOMAIN crew, crew[finder] > 0
  PROVE  /\ Payout(pool, crew, finder) \in Nat
         /\ Payout(pool, crew, finder) <= pool + Percent(pool, BonusPercent)
<1>1. /\ Share(pool, crew, finder) \in Nat
      /\ Share(pool, crew, finder) <= pool
      /\ SumFunction([i \in DOMAIN crew |-> Share(pool, crew, i)]) \in Nat
      /\ SumFunction([i \in DOMAIN crew |-> Share(pool, crew, i)]) <= pool
  BY SharesWithin
<1>2. /\ Percent(Share(pool, crew, finder), BonusPercent) \in Nat
      /\ Percent(pool, BonusPercent) \in Nat
      /\ Percent(Share(pool, crew, finder), BonusPercent) <= Percent(pool, BonusPercent)
  BY <1>1, Assumed, PercentFacts, PercentGrows
<1> QED BY <1>1, <1>2 DEF Payout

(* What the taper leaves of a gross yield.                                 *)
LEMMA GovernedWithin ==
  ASSUME NEW gross \in Nat, outstanding \in Nat, polled \in Nat
  PROVE  /\ Budget \in Nat /\ Band(Budget) \in Nat
         /\ Governed(gross) \in Nat
         /\ Governed(gross) <= gross
         /\ Governed(gross) > 0 /\ Budget > 0 =>
              LET headroom == Budget - outstanding
              IN  /\ headroom \in Nat \ {0}
                  /\ \/ headroom >= Band(Budget)
                     \/ /\ 100 * headroom < Budget * TaperPercent
                        /\ (Budget * TaperPercent) * Governed(gross)
                             <= (gross * headroom) * 100
<1>1. Budget \in Nat
  <2>1. Percent(polled, BackingPercent) \in Nat
    BY Assumed, PercentFacts
  <2> QED BY <2>1, Assumed DEF Budget
<1> DEFINE b == Budget
           h == b - outstanding
           bt == b * TaperPercent
           gh == (gross * h) * 100
<1>2. Band(b) \in Nat /\ 100 * Band(b) <= bt /\ bt \in Nat
  BY <1>1, Assumed, PercentFacts DEF Band
<1>3. CASE b = 0
  <2>1. Governed(gross) = gross \/ Governed(gross) = 0
    BY <1>3 DEF Governed, Backed
  <2> QED BY <1>1, <1>2, <1>3, <2>1
<1>4. CASE b > 0 /\ h <= 0
  <2>1. Governed(gross) = 0
    BY <1>1, <1>4 DEF Governed, Backed
  <2> QED BY <1>1, <1>2, <2>1
<1>5. CASE b > 0 /\ h > 0 /\ 100 * h >= bt
  <2>1. Governed(gross) = gross \/ Governed(gross) = 0
    BY <1>1, <1>5 DEF Governed, Backed
  <2>2. h \in Nat \ {0} /\ h >= Band(b)
    BY <1>1, <1>2, <1>5
  <2> QED BY <1>1, <1>2, <2>1, <2>2
<1>6. CASE b > 0 /\ h > 0 /\ ~(100 * h >= bt)
  <2>1. h \in Nat \ {0} /\ 100 * h < bt /\ bt \in Nat \ {0}
    BY <1>1, <1>2, <1>6
  <2>2. Governed(gross) = gh \div bt \/ Governed(gross) = 0
    BY <1>1, <1>6 DEF Governed, Backed
  <2>3. gh \in Nat /\ gh = gross * (100 * h)
    BY <2>1
  <2>4. gross * (100 * h) <= gross * bt
    BY <2>1, TimesGrows
  <2> HIDE DEF gh, bt
  <2>5. gh \div bt \in Nat /\ bt * (gh \div bt) <= gh
    BY <2>1, <2>3, DivFacts
  <2>6. bt * (gh \div bt) <= bt * gross
    BY <2>1, <2>3, <2>4, <2>5
  <2>7. gh \div bt <= gross
    <3> DEFINE q == gh \div bt
    <3> HIDE DEF q
    <3>1. q \in Nat /\ bt * q <= bt * gross
      BY <2>5, <2>6 DEF q
    <3>2. q > gross => bt * q > bt * gross
      BY <2>1, <3>1
    <3>3. q <= gross
      BY <2>1, <3>1, <3>2
    <3> QED BY <3>3 DEF q
  <2>8. Governed(gross) \in Nat /\ Governed(gross) <= gross
    BY <2>2, <2>5, <2>7
  <2>9. bt * Governed(gross) <= gh
    BY <2>1, <2>2, <2>3, <2>5
  <2> QED BY <1>1, <1>2, <2>1, <2>8, <2>9 DEF bt, gh
<1> QED BY <1>1, <1>3, <1>4, <1>5, <1>6

(* In the band a total t, tapered from a gross G, and its bonus u exceed   *)
(* the headroom h by no more than the greatest payout M exceeds the band   *)
(* bd, floored divisions and all (bt is the band before its division).     *)
LEMMA TaperArithmetic ==
  ASSUME NEW t \in Nat, NEW u \in Nat, NEW p \in Nat, NEW G \in Nat, NEW M \in Nat,
         NEW h \in Nat, NEW bt \in Nat \ {0}, NEW bd \in Nat,
         100 * u <= t * p,
         G * p < 100 * (M - G) + 100,
         100 * bd <= bt,
         100 * h < bt,
         bt * t <= (G * h) * 100
  PROVE  t + u - h <= 0 \/ t + u - h <= M - bd
<1> DEFINE x == t + u  q == 100 + p  Q == q * G
<1>1. x \in Nat /\ q \in Nat /\ Q \in Nat
  OBVIOUS
<1>2. 100 * x <= q * t
  <2>1. 100 * x = 100 * t + 100 * u /\ q * t = 100 * t + p * t /\ p * t = t * p
    OBVIOUS
  <2> QED BY <2>1
<1>3. Q < 100 * M + 100
  <2>1. Q = 100 * G + p * G /\ p * G = G * p
    OBVIOUS
  <2> QED BY <2>1
<1> HIDE DEF x, q
<1>4. bt * x <= Q * h
  <2>1. bt * (100 * x) <= bt * (q * t)
    BY <1>1, <1>2, TimesGrows
  <2>2. bt * (q * t) = q * (bt * t)
    BY <1>1
  <2>3. q * (bt * t) <= q * ((G * h) * 100)
    BY <1>1, TimesGrows
  <2>4. q * ((G * h) * 100) = 100 * (Q * h)
    BY <1>1
  <2>5. bt * (100 * x) = 100 * (bt * x)
    BY <1>1
  <2>6. bt * x \in Nat /\ Q * h \in Nat
    BY <1>1
  <2>7. 100 * (bt * x) <= 100 * (Q * h)
    <3>1. /\ bt * (100 * x) \in Nat /\ q * (bt * t) \in Nat
          /\ q * ((G * h) * 100) \in Nat /\ 100 * (Q * h) \in Nat
      BY <1>1
    <3> HIDE DEF Q
    <3> QED BY <2>1, <2>2, <2>3, <2>4, <2>5, <3>1
  <2> HIDE DEF Q
  <2> QED BY <2>6, <2>7
<1> HIDE DEF Q
<1>5. CASE Q <= bt
  <2>1. h * Q <= h * bt
    BY <1>1, <1>5, TimesGrows
  <2>2. bt * x <= bt * h
    BY <1>1, <1>4, <2>1
  <2>3. x > h => bt * x > bt * h
    BY <1>1
  <2>4. bt * x \in Nat /\ bt * h \in Nat
    BY <1>1
  <2>5. x <= h
    BY <1>1, <2>2, <2>3, <2>4
  <2> QED BY <1>1, <2>5 DEF x
<1>6. CASE Q > bt
  <2> DEFINE c == Q - bt  y == x - h
  <2>1. c \in Nat /\ y \in Int
    BY <1>1, <1>6
  <2>2. bt * y = bt * x - bt * h /\ c * h = Q * h - bt * h
    BY <1>1
  <2>3. bt * y <= c * h
    <3>1. bt * x \in Nat /\ bt * h \in Nat /\ Q * h \in Nat
      BY <1>1
    <3> HIDE DEF c, y
    <3> QED BY <1>4, <2>2, <3>1
  <2> HIDE DEF c, y
  <2>4. 100 * (bt * y) <= 100 * (c * h)
    BY <2>1, <2>3
  <2>5. c * (100 * h) <= c * bt
    BY <2>1, TimesGrows
  <2>6. 100 * (c * h) = c * (100 * h) /\ 100 * (bt * y) = bt * (100 * y) /\ c * bt = bt * c
    BY <2>1
  <2>7. bt * (100 * y) <= bt * c
    BY <2>1, <2>4, <2>5, <2>6
  <2>8. 100 * y <= c
    <3>1. 100 * y > c => bt * (100 * y) > bt * c
      BY <2>1
    <3>2. bt * (100 * y) \in Int /\ bt * c \in Int
      BY <2>1
    <3> QED BY <2>1, <2>7, <3>1, <3>2
  <2>9. 100 * y < (100 * M + 100) - 100 * bd
    BY <1>1, <1>3, <2>1, <2>8 DEF c
  <2>10. y <= M - bd
    BY <2>1, <2>9
  <2> QED BY <2>10 DEF y, x
<1> QED BY <1>1, <1>5, <1>6

(* A discovery lifts the outstanding credits to the limit at most.         *)
LEMMA LimitHolds ==
  ASSUME NEW gross \in GrossYields, outstanding \in Nat, polled \in Nat,
         NEW paid \in Nat,
         paid <= Governed(gross) + Percent(Governed(gross), BonusPercent),
         Governed(gross) > 0, Budget > 0
  PROVE  outstanding + paid <= Limit(Budget)
<1> DEFINE t == Governed(gross)
           u == Percent(t, BonusPercent)
           G == MaxGross
           b == Budget
           h == b - outstanding
           bd == Band(b)
           bt == b * TaperPercent
<1>1. gross \in Nat /\ gross <= G /\ G \in Nat
  BY MaxGrossFacts, Assumed
<1>2. /\ b \in Nat /\ bd \in Nat /\ t \in Nat /\ t <= gross /\ h \in Nat \ {0}
      /\ \/ h >= bd
         \/ 100 * h < bt /\ bt * t <= (gross * h) * 100
  BY <1>1, GovernedWithin
<1>3. u \in Nat /\ 100 * u <= t * BonusPercent
  BY <1>2, Assumed, PercentFacts
<1>4. /\ MaxPayout \in Nat /\ G * BonusPercent < 100 * (MaxPayout - G) + 100
      /\ t + u <= MaxPayout
  <2>1. Percent(G, BonusPercent) \in Nat
        /\ G * BonusPercent < 100 * Percent(G, BonusPercent) + 100
    BY <1>1, Assumed, PercentFacts
  <2>2. u <= Percent(G, BonusPercent)
    BY <1>1, <1>2, Assumed, PercentGrows
  <2>3. MaxPayout = G + Percent(G, BonusPercent)
    BY DEF MaxPayout
  <2> HIDE DEF t, u, G
  <2>4. G \in Nat /\ t \in Nat /\ u \in Nat /\ t <= G
    BY <1>1, <1>2, <1>3
  <2>5. MaxPayout - G = Percent(G, BonusPercent)
    BY <2>1, <2>3, <2>4
  <2> QED BY <2>1, <2>2, <2>3, <2>4, <2>5
<1>5. bt \in Nat \ {0} /\ 100 * bd <= bt
  BY <1>2, Assumed, PercentFacts DEF Band
<1>6. CASE h >= bd
  <2>1. b = outstanding + h
    BY <1>2
  <2> HIDE DEF t, u, b, h, bd
  <2> QED BY <1>2, <1>3, <1>4, <1>6, <2>1 DEF Limit, Higher, t, u, b, bd
<1>7. CASE 100 * h < bt /\ bt * t <= (gross * h) * 100
  <2>1. (gross * h) * 100 <= (G * h) * 100
    <3>1. h * gross <= h * G
      BY <1>1, <1>2, TimesGrows
    <3> HIDE DEF h, G
    <3>2. gross * h = h * gross /\ G * h = h * G /\ h * gross \in Nat /\ h * G \in Nat
      BY <1>1, <1>2
    <3> QED BY <3>1, <3>2
  <2>2. bt * t <= (G * h) * 100
    <3>1. bt * t \in Nat /\ (gross * h) * 100 \in Nat /\ (G * h) * 100 \in Nat
      BY <1>1, <1>2, <1>5
    <3> HIDE DEF t, h, bt, G
    <3> QED BY <1>7, <2>1, <3>1
  <2> HIDE DEF t, u, G, b, h, bd, bt
  <2>3. t + u - h <= 0 \/ t + u - h <= MaxPayout - bd
    BY <1>1, <1>2, <1>3, <1>4, <1>5, <1>7, <2>2, Assumed, TaperArithmetic
  <2>4. b = outstanding + h
    BY <1>2 DEF h, b
  <2>5. outstanding + paid <= b + Higher(0, MaxPayout - bd)
    BY <1>2, <1>3, <1>4, <2>3, <2>4 DEF Higher, t, u
  <2> QED BY <2>5 DEF Limit, b, bd
<1> QED BY <1>2, <1>6, <1>7

-----------------------------------------------------------------------------
(* The steps.                                                              *)

(* What one discovery does, in numbers.                                    *)
LEMMA DiscoverNumbers ==
  ASSUME EmissionTypeOK, NEW crew \in Crews, NEW gross \in GrossYields,
         NEW finder \in DOMAIN crew, crew[finder] > 0
  PROVE  LET gain == Governed(gross)
             cut == Percent(gain, VaultPercent)
             payout == Payout(gain - cut, crew, finder)
         IN  /\ gain \in Nat /\ gain <= MaxGross
             /\ cut \in Nat /\ payout \in Nat
             /\ payout <= gain + Percent(gain, BonusPercent)
             /\ 100 * (payout + cut) <= (100 + BonusPercent) * gain
<1> DEFINE gain == Governed(gross)
           cut == Percent(gain, VaultPercent)
           pool == gain - cut
           payout == Payout(pool, crew, finder)
<1>1. gross \in Nat /\ gross <= MaxGross /\ MaxGross \in Nat
  BY MaxGrossFacts, Assumed
<1>2. outstanding \in Nat /\ polled \in Nat
  BY DEF EmissionTypeOK
<1>3. gain \in Nat /\ gain <= gross
  BY <1>1, <1>2, GovernedWithin
<1>4. cut \in Nat /\ cut <= gain
  BY <1>3, Assumed, PercentFacts
<1>5. pool \in Nat /\ pool <= gain
  BY <1>3, <1>4
<1>6. payout \in Nat /\ payout <= pool + Percent(pool, BonusPercent)
  BY <1>5, PayoutWithin
<1>7. /\ Percent(pool, BonusPercent) \in Nat
      /\ Percent(gain, BonusPercent) \in Nat
      /\ Percent(pool, BonusPercent) <= Percent(gain, BonusPercent)
      /\ 100 * Percent(gain, BonusPercent) <= gain * BonusPercent
  BY <1>3, <1>5, Assumed, PercentFacts, PercentGrows
<1>8. (100 + BonusPercent) * gain = 100 * gain + gain * BonusPercent
      /\ gain * BonusPercent \in Nat
  BY <1>3, Assumed
<1>9. pool + cut = gain
  BY <1>3, <1>4
<1> HIDE DEF gain, cut, pool, payout
<1>10. payout + cut <= gain + Percent(gain, BonusPercent)
  BY <1>3, <1>4, <1>5, <1>6, <1>7, <1>9
<1>11. 100 * (payout + cut) <= (100 + BonusPercent) * gain
  BY <1>3, <1>4, <1>6, <1>7, <1>8, <1>10
<1>12. payout <= gain + Percent(gain, BonusPercent) /\ gain <= MaxGross
  BY <1>1, <1>3, <1>4, <1>6, <1>7, <1>10
<1> QED BY <1>3, <1>4, <1>6, <1>11, <1>12 DEF gain, cut, pool, payout

(* The greater of a natural and an integer.                                *)
LEMMA HigherFacts ==
  ASSUME NEW m \in Nat, NEW n \in Int
  PROVE  Higher(m, n) \in Nat /\ m <= Higher(m, n) /\ n <= Higher(m, n)
BY DEF Higher

(* The ends of the day are ages.                                           *)
LEMMA AgesFacts == 0 \in Ages /\ Day \in Ages /\ Ages \subseteq Nat
BY Assumed DEF Ages

(* Amounts by age stay amounts by age.                                     *)
LEMMA AddNowType ==
  ASSUME NEW f \in [Ages -> Nat], NEW n \in Nat
  PROVE  AddNow(f, n) \in [Ages -> Nat]
BY SinceAddNow, AgesFacts

(* The whole day is the time since its greatest age.                       *)
LEMMA SumOfType ==
  ASSUME NEW f \in [Ages -> Nat]
  PROVE  SumOf(f) \in Nat /\ SumOf(f) = Since(f, Day)
BY AgesFacts, SinceType DEF SumOf, Since, Ages

(* Budgets and limits are natural.                                         *)
LEMMA LimitType ==
  ASSUME outstanding \in Nat, polled \in Nat
  PROVE  Budget \in Nat /\ Limit(Budget) \in Nat
<1>1. Budget \in Nat /\ Band(Budget) \in Nat
  BY GovernedWithin, 0 \in Nat
<1>2. MaxPayout \in Nat
  <2>1. MaxGross \in Nat /\ BonusPercent \in Nat
    BY MaxGrossFacts, Assumed
  <2>2. Percent(MaxGross, BonusPercent) \in Nat
    BY <2>1, PercentFacts
  <2> QED BY <2>1, <2>2 DEF MaxPayout
<1>3. Higher(0, MaxPayout - Band(Budget)) \in Nat
  BY <1>1, <1>2 DEF Higher
<1> QED BY <1>1, <1>3 DEF Limit

(* One discovery, of a crew, a roll and a finder. *)
Discovered(crew, gross, finder) ==
    LET gain == Governed(gross)
        cut == Percent(gain, VaultPercent)
        payout == Payout(gain - cut, crew, finder)
    IN  /\ finds < MaxFinds
        /\ gain > 0
        /\ vault' = vault + cut
        /\ outstanding' = outstanding + payout
        /\ window' = AddNow(window, gain)
        /\ issued' = AddNow(issued, payout + cut)
        /\ outside' = IF Budget = 0 THEN outside + payout ELSE outside
        /\ highest' = Higher(highest, Limit(Budget))
        /\ finds' = finds + 1
        /\ UNCHANGED <<bridges, undone, polled, boots>>

(* A discovery has a crew, a roll and a contributor.                       *)
LEMMA DiscoverCases ==
  ASSUME Discover
  PROVE  \E crew \in Crews : \E gross \in GrossYields, finder \in DOMAIN crew :
           crew[finder] > 0 /\ Discovered(crew, gross, finder)
BY DEF Discover, Discovered

(* What moves credits past the governor gives them a new number; the count *)
(* of what came past it follows, and limits are measured by discoveries    *)
(* only.                                                                   *)
PastGovernor ==
    /\ \E n \in Nat : CreditsBecome(n)
    /\ undone' \in Nat /\ vault' \in Nat /\ bridges' \in [Amounts -> Nat]
    /\ UNCHANGED <<highest, finds>>

(* Every step but a discovery is of that kind.                             *)
LEMMA OthersPastGovernor ==
  ASSUME EmissionTypeOK, [EmissionNext]_emissionVars
  PROVE  Discover \/ PastGovernor
<1> USE DEF EmissionTypeOK
<1>0. /\ outstanding \in Nat /\ undone \in Nat /\ vault \in Nat /\ outside \in Nat
      /\ bridges \in [Amounts -> Nat] /\ Amounts \subseteq Nat
  BY Assumed
<1>1. ASSUME UNCHANGED <<outstanding, outside>> PROVE CreditsBecome(outstanding)
  BY <1>0, <1>1 DEF CreditsBecome, Higher
<1>2. CASE Steal
  <2>1. PICK amount \in {n \in Amounts : n <= vault} :
          /\ vault' = vault - amount
          /\ CreditsBecome(outstanding + amount)
          /\ UNCHANGED <<bridges, undone, highest, finds>>
    BY <1>2 DEF Steal
  <2>2. outstanding + amount \in Nat /\ vault - amount \in Nat
    BY <1>0
  <2> QED BY <1>0, <2>1, <2>2 DEF PastGovernor
<1>3. CASE Spoils
  <2>1. PICK amount \in Amounts :
          /\ CreditsBecome(outstanding + amount)
          /\ UNCHANGED <<bridges, undone, vault, highest, finds>>
    BY <1>3 DEF Spoils
  <2>2. outstanding + amount \in Nat
    BY <1>0
  <2> QED BY <1>0, <2>1, <2>2 DEF PastGovernor
<1>4. CASE Recirculate \/ Skim
  <2>1. vault' \in Nat /\ UNCHANGED <<outstanding, bridges, undone, outside, highest, finds>>
    BY <1>0, <1>4 DEF Recirculate, Skim
  <2> QED BY <1>0, <1>1, <2>1 DEF PastGovernor
<1>5. CASE Claim \/ BridgeDebit
  <2>1. PICK amount \in {n \in Amounts : n <= outstanding} :
          Debit(amount) /\ bridges' \in {bridges, [bridges EXCEPT ![amount] = @ + 1]}
    BY <1>5 DEF Claim, BridgeDebit
  <2>2. /\ CreditsBecome(outstanding - amount)
        /\ undone' \in {undone, undone + amount}
        /\ UNCHANGED <<vault, highest, finds>>
    BY <2>1 DEF Debit
  <2>3. outstanding - amount \in Nat /\ undone' \in Nat /\ bridges' \in [Amounts -> Nat]
    BY <1>0, <2>1, <2>2
  <2> QED BY <1>0, <2>2, <2>3 DEF PastGovernor
<1>6. CASE BridgeLanded
  <2>1. PICK amount \in {n \in Amounts : bridges[n] > 0} :
          /\ bridges' = [bridges EXCEPT ![amount] = @ - 1]
          /\ UNCHANGED <<outstanding, undone, vault, outside, highest, finds>>
    BY <1>6 DEF BridgeLanded
  <2>2. bridges' \in [Amounts -> Nat]
    BY <1>0, <2>1
  <2> QED BY <1>0, <1>1, <2>1, <2>2 DEF PastGovernor
<1>7. CASE BridgeFailed
  <2>1. PICK amount \in {n \in Amounts : bridges[n] > 0} :
          /\ bridges' = [bridges EXCEPT ![amount] = @ - 1]
          /\ CreditsBecome(outstanding + amount)
          /\ UNCHANGED <<undone, vault, highest, finds>>
    BY <1>7 DEF BridgeFailed
  <2>2. bridges' \in [Amounts -> Nat] /\ outstanding + amount \in Nat
    BY <1>0, <2>1
  <2> QED BY <1>0, <2>1, <2>2 DEF PastGovernor
<1>8. CASE Deflect
  <2>1. PICK cost \in {n \in Amounts : n <= outstanding} :
          /\ CreditsBecome(outstanding - cost)
          /\ undone' = undone + cost
          /\ vault' = vault + cost
          /\ UNCHANGED <<bridges, highest, finds>>
    BY <1>8 DEF Deflect
  <2>2. outstanding - cost \in Nat /\ undone + cost \in Nat /\ vault + cost \in Nat
    BY <1>0
  <2> QED BY <1>0, <2>1, <2>2 DEF PastGovernor
<1>9. CASE Restart
  <2>1. /\ Replayed \/ LoadFails
        /\ vault' \in {0, vault}
        /\ bridges' = [a \in Amounts |-> 0]
        /\ UNCHANGED <<highest, finds>>
    BY <1>9 DEF Restart
  <2>2. CASE Replayed
    <3>1. PICK lost \in 0 .. outstanding + undone :
            CreditsBecome(outstanding + undone - lost) /\ undone' = 0
      BY <2>2 DEF Replayed
    <3>2. outstanding + undone - lost \in Nat
      BY <1>0
    <3> QED BY <1>0, <2>1, <3>1, <3>2 DEF PastGovernor
  <2>3. CASE LoadFails
    BY <1>0, <2>1, <2>3 DEF LoadFails, PastGovernor
  <2> QED BY <2>1, <2>2, <2>3
<1>10. CASE Poll \/ Tick \/ UNCHANGED emissionVars
  <2>1. UNCHANGED <<outstanding, bridges, undone, vault, outside, highest, finds>>
    BY <1>10 DEF Poll, Tick, emissionVars
  <2> QED BY <1>0, <1>1, <2>1 DEF PastGovernor
<1> QED
  BY <1>2, <1>3, <1>4, <1>5, <1>6, <1>7, <1>8, <1>9, <1>10 DEF EmissionNext

(* The window and the histories by age, and the poll, of the other steps.  *)
LEMMA OthersByAge ==
  ASSUME [EmissionNext]_emissionVars
  PROVE  \/ Discover \/ Tick \/ Restart
         \/ UNCHANGED <<window, issued, boots>> /\ polled' \in Balances \cup {polled}
BY DEF EmissionNext, emissionVars, Steal, Spoils, Recirculate, Skim, Claim, BridgeDebit, Debit,
       BridgeLanded, BridgeFailed, Deflect, Poll

(* Every step keeps the types.                                             *)
LEMMA EmissionTyped ==
  ASSUME EmissionTypeOK, [EmissionNext]_emissionVars
  PROVE  EmissionTypeOK'
<1> USE DEF EmissionTypeOK
<1>0. /\ outstanding \in Nat /\ vault \in Nat /\ outside \in Nat /\ highest \in Nat
      /\ polled \in Nat /\ window \in [Ages -> Nat] /\ issued \in [Ages -> Nat]
      /\ undone \in Nat /\ bridges \in [Amounts -> Nat]
      /\ boots \in [Ages -> Nat] /\ finds \in 0 .. MaxFinds
      /\ MaxFinds \in Nat /\ Amounts \subseteq Nat /\ Balances \subseteq Nat
  BY Assumed
<1>1. CASE Discover
  <2>1. PICK crew \in Crews : \E gross \in GrossYields, finder \in DOMAIN crew :
          crew[finder] > 0 /\ Discovered(crew, gross, finder)
    BY <1>1, DiscoverCases
  <2>2. PICK gross \in GrossYields, finder \in DOMAIN crew :
          crew[finder] > 0 /\ Discovered(crew, gross, finder)
    BY <2>1
  <2>3. PICK gain \in Nat, cut \in Nat, payout \in Nat :
          /\ finds < MaxFinds
          /\ vault' = vault + cut
          /\ outstanding' = outstanding + payout
          /\ window' = AddNow(window, gain)
          /\ issued' = AddNow(issued, payout + cut)
          /\ outside' = IF Budget = 0 THEN outside + payout ELSE outside
          /\ highest' = Higher(highest, Limit(Budget))
          /\ finds' = finds + 1
          /\ UNCHANGED <<bridges, undone, polled, boots>>
    BY <2>2, DiscoverNumbers DEF Discovered
  <2>4. window' \in [Ages -> Nat] /\ issued' \in [Ages -> Nat]
    <3>1. AddNow(window, gain) \in [Ages -> Nat]
      BY <1>0, AddNowType
    <3>2. payout + cut \in Nat
      OBVIOUS
    <3>3. AddNow(issued, payout + cut) \in [Ages -> Nat]
      BY <1>0, <3>2, AddNowType
    <3> QED  BY <2>3, <3>1, <3>3
  <2>5. highest' \in Nat
    BY <1>0, <2>3, LimitType, HigherFacts
  <2>6. vault' \in Nat /\ outstanding' \in Nat /\ outside' \in Nat /\ finds' \in 0 .. MaxFinds
    BY <1>0, <2>3
  <2> QED BY <1>0, <2>3, <2>4, <2>5, <2>6
<1>2. CASE PastGovernor
  <2>1. PICK n \in Nat : CreditsBecome(n)
    BY <1>2 DEF PastGovernor
  <2>2. outstanding' \in Nat /\ outside' \in Nat
    BY <1>0, <2>1 DEF CreditsBecome, Higher
  <2>3. /\ undone' \in Nat /\ vault' \in Nat /\ bridges' \in [Amounts -> Nat]
        /\ UNCHANGED <<highest, finds>>
    BY <1>2 DEF PastGovernor
  <2>4. CASE Tick
    <3>1. window' \in [Ages -> Nat] /\ issued' \in [Ages -> Nat] /\ boots' \in [Ages -> Nat]
      BY <1>0, <2>4, SinceOlder, AgesFacts DEF Tick
    <3>2. polled' = polled
      BY <2>4 DEF Tick
    <3> QED BY <1>0, <2>2, <2>3, <3>1, <3>2
  <2>5. CASE Restart
    <3>1. /\ polled' \in Balances \cup {0}
          /\ window' = [a \in Ages |-> 0]
          /\ boots' = AddNow(boots, 1)
          /\ issued' = issued
      BY <2>5 DEF Restart
    <3>2. boots' \in [Ages -> Nat]
      BY <1>0, <3>1, AddNowType
    <3>3. window' \in [Ages -> Nat] /\ polled' \in Nat
      BY <1>0, <3>1
    <3> QED BY <1>0, <2>2, <2>3, <3>1, <3>2, <3>3
  <2>6. CASE UNCHANGED <<window, issued, boots>> /\ polled' \in Balances \cup {polled}
    BY <1>0, <2>2, <2>3, <2>6
  <2> QED BY <1>1, <2>4, <2>5, <2>6, OthersByAge
<1> QED BY <1>1, <1>2, OthersPastGovernor

(* The window is checked below the cap and then takes one discovery at     *)
(* most; ageing only drops from it.                                        *)
LEMMA WindowStep ==
  ASSUME EmissionTypeOK, WindowCapped, [EmissionNext]_emissionVars
  PROVE  WindowCapped'
<1> SUFFICES ASSUME DailyCap > 0 PROVE SumOf(window') <= Cap
  BY DEF WindowCapped, SumOf
<1>0. /\ window \in [Ages -> Nat] /\ SumOf(window) \in Nat
      /\ SumOf(window) <= Cap /\ Cap \in Nat /\ DailyCap \in Nat /\ MaxGross \in Nat
  BY SumOfType, CapType, MaxGrossFacts, Assumed DEF EmissionTypeOK, WindowCapped
<1>1. CASE Discover
  <2>1. PICK crew \in Crews : \E gross \in GrossYields, finder \in DOMAIN crew :
          crew[finder] > 0 /\ Discovered(crew, gross, finder)
    BY <1>1, DiscoverCases
  <2>2. PICK gross \in GrossYields, finder \in DOMAIN crew :
          crew[finder] > 0 /\ Discovered(crew, gross, finder)
    BY <2>1
  <2> DEFINE gain == Governed(gross)
  <2>3. gain \in Nat /\ gain <= MaxGross
    BY <2>2, DiscoverNumbers
  <2>4. window' = AddNow(window, gain) /\ gain > 0
    BY <2>2 DEF Discovered
  <2>5. SumOf(window) < DailyCap
    BY <2>4, <1>0 DEF Governed, DayOpen
  <2> HIDE DEF gain
  <2>6. SumOf(window') = SumOf(window) + gain
    BY <1>0, <2>3, <2>4, SinceAddNow, SumOfType, AgesFacts
  <2> QED BY <1>0, <2>3, <2>5, <2>6 DEF Cap
<1>2. CASE Tick
  <2>1. window' = Older(window)
    BY <1>2 DEF Tick
  <2>2. window' \in [Ages -> Nat] /\ Day \in Ages /\ Day \in Nat
    BY <1>0, <2>1, SinceOlder, AgesFacts, Assumed
  <2>3. CASE Day = 0
    <3>1. Since(window', Day) = 0
      BY <1>0, <2>1, <2>2, <2>3, SinceOlder
    <3> QED BY <1>0, <2>2, <3>1, SumOfType
  <2>4. CASE Day > 0
    <3>1. Since(window', Day) = Since(window, Day - 1) /\ Day - 1 \in Ages
      BY <1>0, <2>1, <2>2, <2>4, SinceOlder
    <3>2. Since(window, Day - 1) <= SumOf(window) /\ Since(window, Day - 1) \in Nat
      BY <1>0, <3>1, SinceGrows, SinceType
    <3> QED BY <1>0, <2>2, <3>1, <3>2, SumOfType
  <2> QED BY <2>2, <2>3, <2>4
<1>3. CASE Restart
  <2>1. window' = [a \in Ages |-> 0]
    BY <1>3 DEF Restart
  <2>2. SumOf(window') = 0
    BY <2>1, SinceNone, AgesFacts, SumOfType
  <2> QED BY <1>0, <2>2
<1>4. CASE window' = window
  BY <1>0, <1>4
<1> QED BY <1>1, <1>2, <1>3, <1>4, OthersByAge

(* The prefixes stay covered: a discovery adds to both sides, ageing       *)
(* shifts the bound by one age and a restart trades the window for a boot. *)
LEMMA PrefixStep ==
  ASSUME EmissionTypeOK, WindowCapped, PrefixCapped, [EmissionNext]_emissionVars
  PROVE  PrefixCapped'
<1> DEFINE Q == 100 + BonusPercent
<1> SUFFICES ASSUME DailyCap > 0, NEW k \in Ages
             PROVE  100 * Since(issued', k) <= Q * (Since(window', k) + Cap * Since(boots', k))
  BY DEF PrefixCapped, Covered, Since
<1>0. /\ window \in [Ages -> Nat] /\ issued \in [Ages -> Nat] /\ boots \in [Ages -> Nat]
      /\ SumOf(window) <= Cap /\ Cap \in Nat /\ Q \in Nat
  BY CapType, Assumed DEF EmissionTypeOK, WindowCapped
<1>00. \A j \in Ages : /\ Since(window, j) \in Nat /\ Since(issued, j) \in Nat
                       /\ Since(boots, j) \in Nat
                       /\ 100 * Since(issued, j)
                            <= Q * (Since(window, j) + Cap * Since(boots, j))
                       /\ Cap * Since(boots, j) \in Nat
  <2>1. \A j \in Ages : /\ Since(window, j) \in Nat /\ Since(issued, j) \in Nat
                        /\ Since(boots, j) \in Nat
    BY <1>0, SinceType
  <2>2. \A j \in Ages : Cap * Since(boots, j) \in Nat
    BY <1>0, <2>1
  <2> QED BY <2>1, <2>2 DEF PrefixCapped, Covered
<1> HIDE DEF Q
<1>1. CASE Discover
  <2>1. PICK crew \in Crews : \E gross \in GrossYields, finder \in DOMAIN crew :
          crew[finder] > 0 /\ Discovered(crew, gross, finder)
    BY <1>1, DiscoverCases
  <2>2. PICK gross \in GrossYields, finder \in DOMAIN crew :
          crew[finder] > 0 /\ Discovered(crew, gross, finder)
    BY <2>1
  <2>3. PICK gain \in Nat, cut \in Nat, payout \in Nat :
          /\ window' = AddNow(window, gain)
          /\ issued' = AddNow(issued, payout + cut)
          /\ boots' = boots
          /\ 100 * (payout + cut) <= Q * gain
    BY <2>2, DiscoverNumbers DEF Discovered, Q
  <2>4. /\ Since(window', k) = Since(window, k) + gain
        /\ Since(issued', k) = Since(issued, k) + (payout + cut)
    <3> DEFINE n == payout + cut
    <3>1. n \in Nat
      OBVIOUS
    <3>2. issued' = AddNow(issued, n)
      BY <2>3
    <3> HIDE DEF n
    <3>3. Since(AddNow(window, gain), k) = Since(window, k) + gain
      BY <1>0, SinceAddNow
    <3>4. Since(AddNow(issued, n), k) = Since(issued, k) + n
      BY <1>0, <3>1, SinceAddNow
    <3> QED BY <2>3, <3>2, <3>3, <3>4 DEF n
  <2> DEFINE w == Since(window, k)  c == Cap * Since(boots, k)  i == Since(issued, k)
  <2>5. w \in Nat /\ c \in Nat /\ i \in Nat /\ 100 * i <= Q * (w + c)
    BY <1>00
  <2> HIDE DEF w, c, i
  <2>6. Q * ((w + gain) + c) = Q * (w + c) + Q * gain /\ Q * (w + c) \in Nat /\ Q * gain \in Nat
    BY <1>0, <2>5
  <2>7. 100 * (i + (payout + cut)) <= Q * ((w + gain) + c)
    BY <2>3, <2>5, <2>6
  <2> QED BY <2>3, <2>4, <2>7 DEF w, c, i
<1>2. CASE Tick
  <2>1. window' = Older(window) /\ issued' = Older(issued) /\ boots' = Older(boots)
    BY <1>2 DEF Tick
  <2>2. CASE k = 0
    <3>1. Since(window', k) = 0 /\ Since(issued', k) = 0 /\ Since(boots', k) = 0
      BY <1>0, <2>1, <2>2, SinceOlder
    <3> QED BY <1>0, <3>1
  <2>3. CASE k > 0
    <3>1. /\ k - 1 \in Ages
          /\ Since(window', k) = Since(window, k - 1)
          /\ Since(issued', k) = Since(issued, k - 1)
          /\ Since(boots', k) = Since(boots, k - 1)
      BY <1>0, <2>1, <2>3, SinceOlder
    <3> QED BY <1>00, <3>1
  <2> QED BY <2>2, <2>3, AgesFacts
<1>3. CASE Restart
  <2>1. window' = [a \in Ages |-> 0] /\ boots' = AddNow(boots, 1) /\ issued' = issued
    BY <1>3 DEF Restart
  <2>2. Since(window', k) = 0 /\ Since(boots', k) = Since(boots, k) + 1
    BY <1>0, <2>1, SinceNone, SinceAddNow
  <2> DEFINE w == Since(window, k)  b == Since(boots, k)  i == Since(issued, k)
  <2>3. w \in Nat /\ b \in Nat /\ i \in Nat /\ Cap * b \in Nat /\ 100 * i <= Q * (w + Cap * b)
    BY <1>00
  <2>4. w <= Cap
    BY <1>0, SinceGrows, SumOfType, <2>3
  <2> HIDE DEF w, b, i
  <2>5. w + Cap * b <= 0 + Cap * (b + 1)
    BY <1>0, <2>3, <2>4
  <2>6. Q * (w + Cap * b) <= Q * (0 + Cap * (b + 1))
    BY <1>0, <2>3, <2>5, TimesGrows
  <2>7. Q * (w + Cap * b) \in Nat /\ Q * (0 + Cap * (b + 1)) \in Nat
    BY <1>0, <2>3
  <2>8. 100 * i <= Q * (0 + Cap * (b + 1))
    BY <2>3, <2>6, <2>7
  <2> QED BY <2>1, <2>2, <2>8 DEF w, b, i
<1>4. CASE UNCHANGED <<window, issued, boots>>
  BY <1>00, <1>4
<1> QED BY <1>1, <1>2, <1>3, <1>4, OthersByAge

(* A discovery within a budget stays below its limit; credits that come    *)
(* past the governor are counted in outside until as many have left.       *)
LEMMA ClaimsStep ==
  ASSUME EmissionTypeOK, ClaimsBounded, [EmissionNext]_emissionVars
  PROVE  ClaimsBounded'
<1> USE DEF ClaimsBounded
<1>0. /\ outstanding \in Nat /\ vault \in Nat /\ outside \in Nat /\ highest \in Nat
      /\ polled \in Nat /\ Amounts \subseteq Nat
  BY Assumed DEF EmissionTypeOK
<1>1. CASE Discover
  <2>1. PICK crew \in Crews : \E gross \in GrossYields, finder \in DOMAIN crew :
          crew[finder] > 0 /\ Discovered(crew, gross, finder)
    BY <1>1, DiscoverCases
  <2>2. PICK gross \in GrossYields, finder \in DOMAIN crew :
          crew[finder] > 0 /\ Discovered(crew, gross, finder)
    BY <2>1
  <2>3. PICK payout \in Nat :
          /\ outstanding' = outstanding + payout
          /\ outside' = IF Budget = 0 THEN outside + payout ELSE outside
          /\ highest' = Higher(highest, Limit(Budget))
          /\ Governed(gross) > 0
          /\ payout <= Governed(gross) + Percent(Governed(gross), BonusPercent)
    BY <2>2, DiscoverNumbers DEF Discovered
  <2>4. Budget \in Nat /\ Limit(Budget) \in Nat
    BY <1>0, LimitType
  <2>5. highest' \in Nat /\ highest <= highest' /\ Limit(Budget) <= highest'
    BY <1>0, <2>3, <2>4 DEF Higher
  <2>6. CASE Budget = 0
    BY <1>0, <2>3, <2>5, <2>6
  <2>7. CASE Budget > 0
    <3>1. outstanding + payout <= Limit(Budget)
      BY <1>0, <2>3, <2>7, LimitHolds
    <3>2. outside' = outside
      BY <2>3, <2>4, <2>7
    <3> QED BY <1>0, <2>3, <2>4, <2>5, <3>1, <3>2
  <2> QED BY <2>4, <2>6, <2>7
<1>2. CASE PastGovernor
  <2>1. PICK n \in Nat : CreditsBecome(n)
    BY <1>2 DEF PastGovernor
  <2>2. /\ outstanding' = n
        /\ outside' = Higher(0, outside + n - outstanding)
        /\ highest' = highest
    BY <1>2, <2>1 DEF CreditsBecome, PastGovernor
  <2>3. outside + n - outstanding <= outside'
    BY <1>0, <2>2 DEF Higher
  <2>4. outside' \in Nat
    BY <1>0, <2>2 DEF Higher
  <2> QED BY <1>0, <2>2, <2>3, <2>4
<1> HIDE DEF ClaimsBounded
<1> QED BY <1>1, <1>2, OthersPastGovernor

-----------------------------------------------------------------------------
(* Nothing is issued initially.                                            *)
LEMMA InitEmission == EmissionInit => EmissionInv
<1> SUFFICES ASSUME EmissionInit PROVE EmissionInv
  OBVIOUS
<1> USE DEF EmissionInit
<1>0. [a \in Ages |-> 0] \in [Ages -> Nat]
  OBVIOUS
<1>1. EmissionTypeOK
  BY <1>0, Assumed DEF EmissionTypeOK
<1>2. \A k \in Ages : /\ Since(window, k) = 0 /\ Since(issued, k) = 0
                      /\ Since(boots, k) = 0
  BY SinceNone
<1>3. WindowCapped
  <2>1. window \in [Ages -> Nat]
    BY <1>0
  <2>2. SumOf(window) = Since(window, Day)
    BY <2>1, SumOfType
  <2>3. Since(window, Day) = 0
    BY <1>2, AgesFacts
  <2> QED BY <2>2, <2>3, CapType DEF WindowCapped
<1>4. PrefixCapped
  <2>1. DailyCap > 0 => Cap \in Nat /\ BonusPercent \in Nat
    BY CapType, Assumed
  <2> QED BY <1>2, <2>1 DEF PrefixCapped, Covered
<1>5. ClaimsBounded
  BY DEF ClaimsBounded
<1> QED BY <1>1, <1>3, <1>4, <1>5 DEF EmissionInv

(* The governor's invariant is inductive.                                  *)
LEMMA EmissionStep == EmissionInv /\ [EmissionNext]_emissionVars => EmissionInv'
BY EmissionTyped, WindowStep, PrefixStep, ClaimsStep DEF EmissionInv

(* The governor keeps its types, the window below a cap and a discovery,   *)
(* every age covered and the claims bounded.                               *)
THEOREM EmissionInvariant == EmissionSpec => []EmissionInv
BY InitEmission, EmissionStep, PTL DEF EmissionSpec

(* The cover of the greatest age is the promise about the day.             *)
LEMMA CappedFromPrefix == EmissionInv => DayCapped
<1> SUFFICES ASSUME EmissionInv, DailyCap > 0
             PROVE  100 * SumOf(issued) <=
                      (100 + BonusPercent) * (DailyCap - 1 + MaxGross) * (1 + SumOf(boots))
  BY DEF DayCapped
<1> DEFINE Q == 100 + BonusPercent  w == SumOf(window)  b == SumOf(boots)  i == SumOf(issued)
<1>1. /\ w \in Nat /\ b \in Nat /\ i \in Nat /\ Q \in Nat /\ Cap \in Nat /\ w <= Cap
  BY SumOfType, CapType, Assumed DEF EmissionInv, EmissionTypeOK, WindowCapped
<1>2. 100 * i <= Q * (w + Cap * b)
  BY AgesFacts, SumOfType DEF EmissionInv, EmissionTypeOK, PrefixCapped, Covered
<1> HIDE DEF Q, w, b, i
<1>3. Cap * b \in Nat /\ w + Cap * b <= Cap * (1 + b)
  BY <1>1
<1>4. Q * (w + Cap * b) <= Q * (Cap * (1 + b))
  BY <1>1, <1>3, TimesGrows
<1>5. Q * (Cap * (1 + b)) = Q * Cap * (1 + b) /\ Q * (Cap * (1 + b)) \in Nat /\ Q * (w + Cap * b) \in Nat
  BY <1>1, <1>3
<1>6. 100 * i <= Q * Cap * (1 + b)
  BY <1>1, <1>2, <1>4, <1>5
<1> QED BY <1>6 DEF Q, b, i, Cap

(* However discoveries, ticks, polls and restarts interleave, what a       *)
(* rolling day issued, the finder's bonus included, is within a cap and a  *)
(* discovery for every process that ran in it.                             *)
THEOREM DayNeverOverIssued == EmissionSpec => []DayCapped
BY EmissionInvariant, CappedFromPrefix, PTL

(* The outstanding credits stay within the highest limit a discovery was   *)
(* measured against and what came past the governor, for every treasury    *)
(* balance, crew and order of spendings, thefts, refunds of bridges and    *)
(* restarts that replay what the event log never saw leave.                *)
THEOREM ClaimsStayBounded == EmissionSpec => []ClaimsBounded
<1>1. EmissionInv => ClaimsBounded
  BY DEF EmissionInv
<1> QED BY <1>1, EmissionInvariant, PTL
===============================================================================

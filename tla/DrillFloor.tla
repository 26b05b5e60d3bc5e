------------------------------ MODULE DrillFloor ------------------------------
(***************************************************************************)
(* Who drills where, with how much power, on how much stake:               *)
(* server/game/world.ts (join, leave, report, stake, rally, disconnect)    *)
(* with the asteroid registry, the distribution service and the stake      *)
(* manager it keeps in step.                                               *)
(*                                                                         *)
(* The same facts are kept several times.  A miner is listed by the        *)
(* registry and by the distribution service; its power is remembered by    *)
(* the world, added into its asteroid's total by the registry and copied   *)
(* for the discovery engine by the distribution service; its stake is a    *)
(* record, a sum in its miner state and a sum at the asteroid.  Each is    *)
(* updated by differences, against a power the world remembers across      *)
(* joins, leaves, raids and changes of stake.                              *)
(*                                                                         *)
(* Staking is either kept in the game or read from the chain ("quarry");   *)
(* the server is started in one of the two.                                *)
(*                                                                         *)
(* Left out: loyalty (never refreshed), the price that moves the tiers,    *)
(* drill-power-seconds (the hourly pool is empty in vault mode), and what  *)
(* a raid does besides moving its raider (RaidWorld).                      *)
(*                                                                         *)
(* A definition marked MUTANT is a plausible bug in the definition that    *)
(* follows it.                                                             *)
(***************************************************************************)
EXTENDS Integers, FiniteSets, Functions

CONSTANTS
    Wallets,       \* the players
    Asteroids,     \* the asteroids of the belt
    Raiders,       \* bound: the wallets that go on raids
    MaxStake,      \* bound on a wallet's stake at one place
    FreeBase,      \* drill power without stake
    PerStake,      \* base drill power of one staked token
    TierAt,        \* the stake from which the next tier's multiplier applies
    TierFactor,    \* that multiplier
    None           \* null and undefined

ASSUME DrillAssumption ==
    /\ Raiders \subseteq Wallets
    /\ {MaxStake, FreeBase, PerStake, TierAt} \subseteq Nat
    /\ TierFactor \in Nat \ {0}
    /\ None \notin Wallets \cup Asteroids
    /\ IsFiniteSet(Wallets) /\ IsFiniteSet(Asteroids)

VARIABLES
    quarry,       \* quarryEnabled: stake is read from the chain
    authed,       \* authedWallets
    home,         \* homeStationAsteroidId of each wallet
    active,       \* activeAsteroidId of each wallet
    raiding,      \* the wallets with a currentExpeditionId
    location,     \* the registry's minerLocations (and its activeMiners)
    total,        \* totalDrillPower of each asteroid
    reported,     \* lastReportedDrillPower, 0 where there is no entry
    roster,       \* activeMiners of the distribution service
    onChain,      \* onChainStake of each wallet
    stakes,       \* the stake records, 0 where there is none
    walletStake,  \* totalStake of each miner state
    rockStake,    \* totalStake of each asteroid
    skewed,       \* history: asteroids joined by a miner with power remembered
    peak,         \* history: most stake held since the last disconnect
    rallied,      \* history: tokens charged for rallies
    burned        \* history: tokens that left a stake for a rally

floor == <<authed, home, active, raiding, location>>
power == <<total, reported, roster, skewed>>
books == <<onChain, stakes, walletStake, rockStake, peak>>
rallies == <<rallied, burned>>
vars == <<quarry, floor, power, books, rallies>>

Absent == [asteroid |-> None, drill |-> 0]

Larger(m, n) == IF m > n THEN m ELSE n
MinersAt(a) == {w \in Wallets : location[w] = a}

(* The stake that counts for a wallet at an asteroid: its record there,    *)
(* or, on chain, all of it wherever the wallet is present.                 *)
StakeAt(w, a) ==
    IF ~quarry THEN stakes[w][a]
    ELSE IF a \in {active[w], home[w]} THEN onChain[w] ELSE 0

Drill(stake) ==
    (FreeBase + PerStake * stake) * (IF stake >= TierAt THEN TierFactor ELSE 1)

EffectiveDrillPower(w, a) == Drill(StakeAt(w, a))

TypeOK ==
    /\ quarry \in BOOLEAN
    /\ authed \subseteq Wallets
    /\ home \in [Wallets -> Asteroids \cup {None}]
    /\ active \in [Wallets -> Asteroids \cup {None}]
    /\ raiding \subseteq Wallets
    /\ location \in [Wallets -> Asteroids \cup {None}]
    /\ total \in [Asteroids -> Nat]
    /\ reported \in [Wallets -> Nat]
    /\ roster \in [Wallets -> [asteroid : Asteroids \cup {None}, drill : Nat]]
    /\ onChain \in [Wallets -> 0..MaxStake]
    /\ stakes \in [Wallets -> [Asteroids -> 0..MaxStake]]
    /\ walletStake \in [Wallets -> Int]
    /\ rockStake \in [Asteroids -> Nat]
    /\ skewed \subseteq Asteroids
    /\ peak \in [Wallets -> Nat]
    /\ rallied \in Nat
    /\ burned \in Nat

Init ==
    /\ quarry \in BOOLEAN
    /\ authed = {}
    /\ home = [w \in Wallets |-> None]
    /\ active = [w \in Wallets |-> None]
    /\ raiding = {}
    /\ location = [w \in Wallets |-> None]
    /\ total = [a \in Asteroids |-> 0]
    /\ reported = [w \in Wallets |-> 0]
    /\ roster = [w \in Wallets |-> Absent]
    /\ onChain = [w \in Wallets |-> 0]
    /\ stakes = [w \in Wallets |-> [a \in Asteroids |-> 0]]
    /\ walletStake = [w \in Wallets |-> 0]
    /\ rockStake = [a \in Asteroids |-> 0]
    /\ skewed = {}
    /\ peak = [w \in Wallets |-> 0]
    /\ rallied = 0
    /\ burned = 0

-----------------------------------------------------------------------------
(* The registry.  Totals move by differences and stop at 0.                *)

RemoveMiner(t, p) == Larger(0, t - p)

(* MUTANT: the new power is added, the old one not taken off. *)
AddsUpOnly(t, old, new) == Larger(0, t + new)

UpdateMinerDrillPower(t, old, new) == Larger(0, t - old + new)

UpdateAsteroidStake(t, delta) == Larger(0, t + delta)

(* The asteroid w leaves, if it is at one, loses the power remembered.     *)
TotalsWithout(w) ==
    IF location[w] = None THEN total
    ELSE [total EXCEPT ![location[w]] = RemoveMiner(@, reported[w])]

-----------------------------------------------------------------------------
(* Connections.                                                            *)

(* connectPlayer; the home station it restores is the one still in memory. *)
Connect(w) ==
    /\ authed' = authed \cup {w}
    /\ UNCHANGED <<quarry, home, active, raiding, location, power, books,
                   rallies>>

(* MUTANT: the power of the session is remembered beyond it. *)
DisconnectRemembering(w) ==
    /\ authed' = authed \ {w}
    /\ total' = TotalsWithout(w)
    /\ location' = [location EXCEPT ![w] = None]
    /\ roster' = [roster EXCEPT ![w] = Absent]
    /\ active' = [active EXCEPT ![w] = None]
    /\ peak' = [peak EXCEPT ![w] = onChain[w] + walletStake[w]]
    /\ UNCHANGED <<quarry, home, raiding, reported, skewed, onChain, stakes,
                   walletStake, rockStake, rallies>>

(* disconnectPlayer: a closed connection ends the mining, not the raid.    *)
Disconnect(w) ==
    /\ authed' = authed \ {w}
    /\ total' = TotalsWithout(w)
    /\ location' = [location EXCEPT ![w] = None]
    /\ roster' = [roster EXCEPT ![w] = Absent]
    /\ reported' = [reported EXCEPT ![w] = 0]
    /\ active' = [active EXCEPT ![w] = None]
    /\ peak' = [peak EXCEPT ![w] = onChain[w] + walletStake[w]]
    /\ UNCHANGED <<quarry, home, raiding, skewed, onChain, stakes,
                   walletStake, rockStake, rallies>>

-----------------------------------------------------------------------------
(* Mining.                                                                 *)

(* joinAsteroid takes the miner off another asteroid with the power it     *)
(* last reported, adds it to this one with none, and tells the             *)
(* distribution service the remembered power.                              *)
JoinAsteroid(w, a) ==
    LET moving == location[w] \notin {None, a} IN
    /\ w \in authed
    /\ total' = IF moving THEN TotalsWithout(w) ELSE total
    /\ location' = [location EXCEPT ![w] = a]
    /\ active' = [active EXCEPT ![w] = a]
    /\ roster' = [roster EXCEPT ![w] = [asteroid |-> a, drill |-> reported[w]]]
    /\ skewed' = IF location[w] # a /\ reported[w] > 0 THEN skewed \cup {a}
                 ELSE skewed
    /\ UNCHANGED <<quarry, authed, home, raiding, reported, books, rallies>>

LeaveAsteroid(w) ==
    /\ w \in authed
    /\ total' = TotalsWithout(w)
    /\ location' = [location EXCEPT ![w] = None]
    /\ roster' = [roster EXCEPT ![w] = Absent]
    /\ active' = [active EXCEPT ![w] = None]
    /\ UNCHANGED <<quarry, authed, home, raiding, reported, skewed, books,
                   rallies>>

(* reportDrillPower: the argument counts only without a drill bound, which *)
(* production always sets; power follows from stake.                       *)
ReportDrillPower(w) ==
    LET a == location[w]
        effective == EffectiveDrillPower(w, a) IN
    /\ w \in authed
    /\ a # None
    /\ total' = [total EXCEPT
                   ![a] = UpdateMinerDrillPower(@, reported[w], effective)]
    /\ reported' = [reported EXCEPT ![w] = effective]
    /\ roster' = [roster EXCEPT ![w] = [asteroid |-> a, drill |-> effective]]
    /\ UNCHANGED <<quarry, floor, skewed, books, rallies>>

(* setHomeStation, its cooldown over or not (RaidWorld has cooldowns).     *)
SetHomeStation(w, a) ==
    /\ w \in authed
    /\ home' = [home EXCEPT ![w] = a]
    /\ UNCHANGED <<quarry, authed, active, raiding, location, power, books,
                   rallies>>

(* createExpedition makes the raider active at its target ...              *)
Launch(w, a) ==
    /\ w \in (authed \cap Raiders) \ raiding
    /\ home[w] \notin {None, a}
    /\ raiding' = raiding \cup {w}
    /\ active' = [active EXCEPT ![w] = a]
    /\ UNCHANGED <<quarry, authed, home, location, power, books, rallies>>

(* ... and the end of the raid at its home, wherever the registry has it.  *)
RaidEnds(w) ==
    /\ w \in raiding
    /\ raiding' = raiding \ {w}
    /\ active' = [active EXCEPT ![w] = home[w]]
    /\ UNCHANGED <<quarry, authed, home, location, power, books, rallies>>

-----------------------------------------------------------------------------
(* Stake.                                                                  *)

(* stake, in the game: a first stake also sets the home station.           *)
Stake(w, a) ==
    /\ w \in authed
    /\ ~quarry
    /\ stakes[w][a] < MaxStake
    /\ stakes' = [stakes EXCEPT ![w][a] = @ + 1]
    /\ walletStake' = [walletStake EXCEPT ![w] = @ + 1]
    /\ rockStake' = [rockStake EXCEPT ![a] = UpdateAsteroidStake(@, 1)]
    /\ home' = [home EXCEPT ![w] = IF @ = None THEN a ELSE @]
    /\ peak' = [peak EXCEPT ![w] = Larger(@, walletStake[w] + 1)]
    /\ UNCHANGED <<quarry, authed, active, raiding, location, power, onChain,
                   rallies>>

(* MUTANT: the sums lose what was asked, not what was there. *)
TakesWhatWasAsked(w, a, amount) == amount

(* What processUnstake takes of a record when asked for an amount.         *)
Taken(w, a, amount) == IF amount > stakes[w][a] THEN stakes[w][a] ELSE amount

(* processUnstake: nothing without a record, and never more than it holds. *)
ProcessUnstake(w, a, amount) ==
    LET taken == Taken(w, a, amount) IN
    /\ stakes' = [stakes EXCEPT ![w][a] = Larger(0, @ - taken)]
    /\ walletStake' = [walletStake EXCEPT ![w] = @ - taken]
    /\ rockStake' = [rockStake EXCEPT ![a] = UpdateAsteroidStake(@, -taken)]

(* requestUnstake: a client may ask for more than there is.                *)
Unstake(w, a, amount) ==
    /\ w \in authed
    /\ ~quarry
    /\ stakes[w][a] > 0
    /\ ProcessUnstake(w, a, amount)
    /\ UNCHANGED <<quarry, floor, power, onChain, peak, rallies>>

(* syncOnChainStake: the power reported before is not looked at again.     *)
SyncOnChainStake(w, amount) ==
    /\ quarry
    /\ onChain' = [onChain EXCEPT ![w] = amount]
    /\ peak' = [peak EXCEPT ![w] = Larger(@, amount)]
    /\ UNCHANGED <<quarry, floor, power, stakes, walletStake, rockStake,
                   rallies>>

(* MUTANT: a rally goes ahead although the stake does not cover it. *)
CoversAny(w, a, cost) == StakeAt(w, a) > 0

Covers(w, a, cost) == StakeAt(w, a) >= cost

(* rallyDefense: the cost is unstaked from the in-game record, of which a  *)
(* quarry wallet has none.  The boost it buys weighs only in the outcome   *)
(* of raids, which RaidWorld leaves free.                                  *)
RallyDefense(w, a, cost) ==
    /\ w \in authed
    /\ Covers(w, a, cost)
    /\ rallied + cost <= MaxStake + 1
    /\ ProcessUnstake(w, a, cost)
    /\ rallied' = rallied + cost
    /\ burned' = burned + (stakes[w][a] - stakes'[w][a])
    /\ UNCHANGED <<quarry, floor, power, onChain, peak>>

-----------------------------------------------------------------------------
Next ==
    \/ \E w \in Wallets :
         \/ Connect(w)
         \/ Disconnect(w)
         \/ LeaveAsteroid(w)
         \/ ReportDrillPower(w)
         \/ RaidEnds(w)
         \/ \E n \in 0..MaxStake : SyncOnChainStake(w, n)
         \/ \E a \in Asteroids :
              \/ JoinAsteroid(w, a)
              \/ SetHomeStation(w, a)
              \/ Launch(w, a)
              \/ Stake(w, a)
              \/ \E n \in 1..(MaxStake + 1) : Unstake(w, a, n)
              \/ \E n \in 0..(MaxStake + 1) : RallyDefense(w, a, n)

Spec == Init /\ [][Next]_vars

-----------------------------------------------------------------------------
(* The power an asteroid's miners last reported.                           *)
ReportedAt(a) == SumFunctionOnSet(reported, MinersAt(a))

(* The total an asteroid defends with, kept by differences, never exceeds  *)
(* what its miners reported, and is exactly that as long as no miner came  *)
(* to it with power remembered from before: joinAsteroid adds 0 for those, *)
(* and their next report or leave takes off what was never added.          *)
TotalsAddUp ==
    \A a \in Asteroids : /\ total[a] <= ReportedAt(a)
                         /\ a \notin skewed => total[a] = ReportedAt(a)

(* Drill power follows from stake.  What a wallet drills with may be out   *)
(* of date, since a change of stake is not reported, but only within a     *)
(* session: it is never more than its best stake since it last             *)
(* disconnected could give.                                                *)
PowerFromSessionStake ==
    \A w \in Wallets : reported[w] <= Drill(peak[w])

(* The records of an asteroid, by wallet.                                  *)
StakesAt(a) == [w \in Wallets |-> stakes[w][a]]

(* A wallet's stake, an asteroid's stake and the records of both agree,    *)
(* whatever order of stakes, partial or excessive unstakes and rallies     *)
(* brought them there.                                                     *)
StakeBooksAgree ==
    /\ \A w \in Wallets : walletStake[w] = SumFunctionOnSet(stakes[w], Asteroids)
    /\ \A a \in Asteroids : rockStake[a] = SumFunctionOnSet(StakesAt(a), Wallets)

(* With staking in the game, what rallies cost is what left the stakes for *)
(* them, neither more nor less.  (With staking on chain it is not so:      *)
(* nothing leaves, and a stake rallies without end.)                       *)
RalliesPaid == ~quarry => rallied = burned
=============================================================================

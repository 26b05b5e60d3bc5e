------------------------------- MODULE Emission -------------------------------
(***************************************************************************)
(* How much is issued for mining: the emission governor                    *)
(* (server/game/emission-governor.ts) with what it throttles and what it   *)
(* is fed by: the discovery sweep of the world, the payout of a discovery  *)
(* (yield-orchestrator.ts), the treasury poller (treasury-backing.ts) and  *)
(* the credits outstanding (stake-manager.ts).                             *)
(*                                                                         *)
(* Two throttles: a taper as the outstanding credits near a budget pegged  *)
(* to the last polled treasury balance, and a cap on what a rolling day    *)
(* may issue.  Both are consulted before a discovery is paid and know only *)
(* its total; the finder's bonus comes on top, the vault's cut becomes a   *)
(* credit only when a raid takes it, and a restart forgets the window and  *)
(* the polled balance.  Credits also come back past the throttles: a       *)
(* bridge that fails after discoveries used the headroom its debit made,   *)
(* and a restart that restores what the event log never saw leave.         *)
(*                                                                         *)
(* Credits are one sum here: whose they are is CreditLedger's subject, and *)
(* of the event log only the gaps count.  Time is counted in fractions of  *)
(* the day.  Left out: the legacy hourly pool (the server always wires the *)
(* vault) and the end of a transfer on chain that its handler gave up.     *)
(*                                                                         *)
(* A definition marked MUTANT is a plausible bug in the definition that    *)
(* follows it.                                                             *)
(***************************************************************************)
EXTENDS Integers, FiniteSets, FiniteSetsExt, Functions, Sequences

CONSTANTS
    DailyCap,        \* config.dailyCap, 0 for none
    StaticBudget,    \* config.budget, 0 for none
    BackingPercent,  \* share of the treasury exposed as budget
    TaperPercent,    \* share of the budget over which yield tapers
    VaultPercent,    \* raidVaultPercent
    BonusPercent,    \* FINDER_BONUS_PERCENT
    GrossYields,     \* what calculateDiscoveryYield may roll
    Crews,           \* drill powers of the miners of an asteroid
    Balances,        \* treasury balances the chain may report
    Day,             \* ticks in 24 hours
    Amounts,         \* bound: the sizes of a theft, a strike, a cost, a claim
    MaxFinds,        \* bound on discoveries paid
    MaxBoots,        \* bound on restarts
    MaxBridges,      \* bound on bridges at once
    MaxCredits       \* bound: the credits beyond which none are made but by discoveries

ASSUME EmissionAssumption ==
    /\ {DailyCap, StaticBudget, VaultPercent, BonusPercent, Day} \subseteq Nat
    /\ {MaxFinds, MaxBoots, MaxBridges, MaxCredits} \subseteq Nat
    /\ BackingPercent \in 1 .. 100 /\ TaperPercent \in 1 .. 100
    /\ VaultPercent <= 100
    /\ GrossYields \subseteq Nat /\ GrossYields # {} /\ IsFiniteSet(GrossYields)
    /\ Balances \subseteq Nat /\ Amounts \subseteq Nat
    /\ Crews \subseteq Seq(Nat)

VARIABLES
    outstanding,  \* getOutstandingCredits: the sum of pendingYield
    bridges,      \* bridge handlers awaiting their transfer, by the amount they debited
    undone,       \* credits that left but not in the event log: a restart restores them
    vault,        \* the raid vaults, as one
    polled,       \* balanceTokens of the poller, 0 before its first success
    window,       \* the governor's window: recorded amount by age
    issued,       \* history: credits issued by discoveries, by age, over restarts
    boots,        \* history: restarts by age
    outside,      \* history: credits that came past the governor and have not left since
    highest,      \* history: highest limit a discovery was measured against
    finds         \* history: discoveries paid

emissionVars ==
    <<outstanding, bridges, undone, vault, polled, window, issued, boots, outside, highest, finds>>

Ages == 0 .. Day
Higher(a, b) == IF a > b THEN a ELSE b
SumOf(byAge) == SumFunctionOnSet(byAge, Ages)
AddNow(byAge, n) == [byAge EXCEPT ![0] = @ + n]
Older(byAge) == [a \in Ages |-> IF a = 0 THEN 0 ELSE byAge[a - 1]]
Percent(n, p) == (n * p) \div 100

-----------------------------------------------------------------------------
(* The governor.                                                           *)

\* The live treasury's share where it is known, the configured floor otherwise.
Budget ==
    LET dynamic == Percent(polled, BackingPercent)
    IN IF dynamic > 0 THEN dynamic ELSE StaticBudget

Band(budget) == Percent(budget, TaperPercent)

\* MUTANT: full yield for as long as there is any headroom.
BackedHard(gross) ==
    IF Budget <= 0 \/ Budget > outstanding THEN gross ELSE 0

\* gross * backingScale, floored: all, a part in the band, nothing beyond.
Backed(gross) ==
    LET headroom == Budget - outstanding IN
    CASE Budget <= 0 -> gross
      [] Budget > 0 /\ headroom <= 0 -> 0
      [] Budget > 0 /\ headroom > 0 /\ 100 * headroom >= Budget * TaperPercent -> gross
      [] OTHER -> (gross * headroom * 100) \div (Budget * TaperPercent)

\* MUTANT: the day is closed only once the cap is exceeded.
DayOpenAtCap == DailyCap = 0 \/ SumOf(window) <= DailyCap

\* dailyScale, all or nothing.  The window is pruned whenever it is read, so
\* that entries older than a day never count.
DayOpen == DailyCap = 0 \/ SumOf(window) < DailyCap

\* The stricter of the two throttles.
Governed(gross) == IF DayOpen THEN Backed(gross) ELSE 0

-----------------------------------------------------------------------------
(* A discovery.                                                            *)

\* The base share of each miner, floored, in proportion to its drill power.
Share(pool, crew, i) ==
    (pool * crew[i]) \div SumFunction(crew)

\* What the miners of a crew are paid, with the finder's bonus.
Payout(pool, crew, finder) ==
    SumFunction([i \in DOMAIN crew |-> Share(pool, crew, i)])
        + Percent(Share(pool, crew, finder), BonusPercent)

\* The most a discovery can lift the outstanding credits beyond a budget.
MaxGross == Max(GrossYields)
MaxPayout == MaxGross + Percent(MaxGross, BonusPercent)
Limit(budget) == budget + Higher(0, MaxPayout - Band(budget))

\* runDiscoverySweep resolves a find: some contributor of the crew is its
\* finder, and the throttles are asked again for every one of them.  Recorded
\* is what was governed, not what was credited; a discovery throttled to
\* nothing issues and records nothing.
Discover ==
    \E crew \in Crews, gross \in GrossYields :
      LET total == Governed(gross)
          cut == Percent(total, VaultPercent)
      IN \E finder \in {i \in DOMAIN crew : crew[i] > 0} :
           LET payout == Payout(total - cut, crew, finder) IN
           /\ finds < MaxFinds
           /\ total > 0
           /\ vault' = vault + cut
           /\ outstanding' = outstanding + payout
           /\ window' = AddNow(window, total)
           /\ issued' = AddNow(issued, payout + cut)
           /\ outside' = IF Budget = 0 THEN outside + payout ELSE outside
           /\ highest' = Higher(highest, Limit(Budget))
           /\ finds' = finds + 1
           /\ UNCHANGED <<bridges, undone, polled, boots>>

-----------------------------------------------------------------------------
(* What else moves the credits, past the governor.                         *)

\* What the governor is not asked about: what comes in counts as outside, and
\* what leaves takes that away first.
CreditsBecome(n) ==
    /\ outstanding' = n
    /\ outside' = Higher(0, outside + n - outstanding)

\* The bound on what makes credits: those that exist, were lost track of or are
\* on their way, with n more.
Room(n) ==
    outstanding + undone + vault + MapThenSumSet(LAMBDA a : a * bridges[a], Amounts) + n
        <= MaxCredits

\* resolveRaid: a successful raid turns vault credits into pending yield.
Steal ==
    \E amount \in {n \in Amounts : n <= vault} :
      /\ vault' = vault - amount
      /\ CreditsBecome(outstanding + amount)
      /\ UNCHANGED <<bridges, undone, polled, window, issued, boots, highest, finds>>

\* distributeDefenderSpoils: a failed raid's stake bets pay the defenders.
Spoils ==
    \E amount \in Amounts :
      /\ Room(amount)
      /\ CreditsBecome(outstanding + amount)
      /\ UNCHANGED <<bridges, undone, vault, polled, window, issued, boots, highest, finds>>

\* recirculateToVaults: a share of a lost wager goes into the vaults.
Recirculate ==
    \E amount \in Amounts :
      /\ Room(amount)
      /\ vault' = vault + amount
      /\ UNCHANGED <<outstanding, bridges, undone, polled, window, issued, boots, outside, highest, finds>>

\* runMeteorSweep: a strike destroys part of a vault.
Skim ==
    \E amount \in {n \in Amounts : n <= vault} :
      /\ vault' = vault - amount
      /\ UNCHANGED <<outstanding, bridges, undone, polled, window, issued, boots, outside, highest, finds>>

\* A debit and its event, whose insert may fail or die with the process.
Debit(amount) ==
    /\ CreditsBecome(outstanding - amount)
    /\ undone' \in {undone, undone + amount}
    /\ UNCHANGED <<vault, polled, window, issued, boots, highest, finds>>

\* claimPendingYield: credits leave the pending pool, and headroom returns.
Claim ==
    \E amount \in {n \in Amounts : n <= outstanding} :
      Debit(amount) /\ UNCHANGED bridges

\* handleBridgeIou debits before it awaits the transfer ...
BridgeDebit ==
    \E amount \in {n \in Amounts : n <= outstanding} :
      /\ bridges[amount] < MaxBridges
      /\ bridges' = [bridges EXCEPT ![amount] = @ + 1]
      /\ Debit(amount)
      /\ undone' = undone \/ Room(amount)

\* ... which succeeds ...
BridgeLanded ==
    \E amount \in {n \in Amounts : bridges[n] > 0} :
      /\ bridges' = [bridges EXCEPT ![amount] = @ - 1]
      /\ UNCHANGED <<outstanding, undone, vault, polled, window, issued, boots, outside, highest, finds>>

\* ... or throws or is disabled, and the debit is put back: whatever was issued
\* into the headroom meanwhile.
BridgeFailed ==
    \E amount \in {n \in Amounts : bridges[n] > 0} :
      /\ bridges' = [bridges EXCEPT ![amount] = @ - 1]
      /\ CreditsBecome(outstanding + amount)
      /\ UNCHANGED <<undone, vault, polled, window, issued, boots, highest, finds>>

\* deflectMeteor: the cost moves from a player's credits into the vault, where
\* the governor does not count it.  spendPendingYield writes no event.
Deflect ==
    \E cost \in {n \in Amounts : n <= outstanding} :
      /\ Room(cost)
      /\ CreditsBecome(outstanding - cost)
      /\ undone' = undone + cost
      /\ vault' = vault + cost
      /\ UNCHANGED <<bridges, polled, window, issued, boots, highest, finds>>

\* refreshOnce; a failed read keeps the last good value and is no step.
Poll ==
    \E balance \in Balances :
      /\ polled' = balance
      /\ UNCHANGED <<outstanding, bridges, undone, vault, window, issued, boots, outside, highest, finds>>

\* The clock moves on by a tick; what is older than a day drops out.
Tick ==
    /\ window' = Older(window)
    /\ issued' = Older(issued)
    /\ boots' = Older(boots)
    /\ UNCHANGED <<outstanding, bridges, undone, vault, polled, outside, highest, finds>>

\* restorePendingYield replays the event log: what left without an event is
\* back, and credits whose own insert failed or was under way are lost.
Replayed ==
    /\ \E lost \in 0 .. outstanding + undone : CreditsBecome(outstanding + undone - lost)
    /\ undone' = 0

\* The log cannot be read: the process serves with no credits, and the next
\* one may restore them.
LoadFails ==
    /\ CreditsBecome(0)
    /\ undone' = outstanding + undone

\* The process restarts: the refunds of the bridges under way die with it, the
\* window is empty, the vaults are restored or, where their load fails, empty,
\* and the first poll, awaited before serving, may fail.
Restart ==
    \E balance \in Balances \cup {0} :
      /\ SumOf(boots) < MaxBoots
      /\ Replayed \/ LoadFails
      /\ vault' \in {0, vault}
      /\ bridges' = [a \in Amounts |-> 0]
      /\ polled' = balance
      /\ window' = [a \in Ages |-> 0]
      /\ boots' = AddNow(boots, 1)
      /\ UNCHANGED <<issued, highest, finds>>

EmissionInit ==
    /\ outstanding = 0 /\ vault = 0 /\ undone = 0
    /\ bridges = [a \in Amounts |-> 0]
    /\ polled = 0
    /\ window = [a \in Ages |-> 0]
    /\ issued = [a \in Ages |-> 0]
    /\ boots = [a \in Ages |-> 0]
    /\ outside = 0 /\ highest = 0 /\ finds = 0

EmissionNext ==
    \/ Discover
    \/ Steal \/ Spoils \/ Recirculate \/ Skim \/ Claim \/ Deflect
    \/ BridgeDebit \/ BridgeLanded \/ BridgeFailed
    \/ Poll \/ Tick \/ Restart

EmissionSpec == EmissionInit /\ [][EmissionNext]_emissionVars

-----------------------------------------------------------------------------
(* Properties.                                                             *)

\* Every amount is a natural number: no spending, theft or strike takes more
\* than there is.
EmissionTypeOK ==
    /\ {outstanding, undone, vault, outside, highest, polled} \subseteq Nat
    /\ bridges \in [Amounts -> Nat]
    /\ {window, issued, boots} \subseteq [Ages -> Nat]
    /\ finds \in 0 .. MaxFinds

\* "A hard ceiling on credits issued per rolling 24h window": the cap is
\* checked before and recorded after, without the bonus, by a process that may
\* restart.  What a day really issues stays below the cap plus one discovery,
\* with the bonus, for every process that ran in that day.
DayCapped ==
    DailyCap > 0 =>
        100 * SumOf(issued) <=
            (100 + BonusPercent) * (DailyCap - 1 + MaxGross) * (1 + SumOf(boots))

\* The claims on the treasury: however budgets, polls, thefts, spendings,
\* refunds of late bridges and restarts interleave, the outstanding credits
\* stay within the highest limit a discovery was measured against, plus what
\* came past the governor and has not left since.
ClaimsBounded == outstanding <= highest + outside
=============================================================================

# Astroid.club: a verification project in TLA+

Astroid.club is a browser game on Solana. Players mine asteroids, earn in-game
credits, raid each other's asteroids and may wager real tokens on a raid. One
Node process (`server/`) keeps the whole game in memory, writes through to
Postgres or Redis, and talks to the chain. There are no threads, but nearly
every operation that matters awaits something, writes are mostly fired and
forgotten, and the process can end at any await. That is where its difficulty
lies, and that is what these modules model: **what the code between two awaits
does is one step, and anything else may happen in between.**

Contents: [the system](#the-system) · [the modules](#the-modules) ·
[runs and bounds](#runs) · [fairness](#fairness) · [findings](#findings) ·
[proofs](#proofs) · [what is not modelled](#not-modelled) · [plan](#plan)

<a name="the-system"></a>
## The system

### Components and their state

| part | state | operations | talks to |
|---|---|---|---|
| gateway (`net/gateway.ts`) | per connection: wallet, `pendingWager`, `pendingRedeem`; bridge windows | one handler per message type, several of them await the chain | world, ChainOps, outbox |
| world (`game/world.ts`) | `authedWallets`, `lastReportedDrillPower`, `expeditionWagers`, treasuries | every game action; timers: discovery tick, raid resolution, meteor sweep | all of `game/` |
| stake manager (`stake-manager.ts`) | stakes, home stations, `pendingYield`, lifetime totals | stake, bet, credit, claim, redeem, spend, restore | event log |
| raid vaults (`raid-vault.ts`) | a balance per asteroid | add, debit, restore | `raid_vaults` table |
| yield orchestrator, emission governor, discovery engine, meteor engine | yields, rolling day window, difficulty, one threat per asteroid | `processDiscovery`, spawn, deflect, strike | stake manager, vaults |
| registry (`asteroid-registry.ts`), distribution, refinery | who mines where, total drill power, immunity, debuffs; drill-power-seconds | add/remove/update miner | world, raid engine |
| expedition tracker, raid engine, cooldowns, bet pools | live raids, cooldown deadlines, wagers per pool | create, join, leave, expire, resolve, split | world |
| escrow outbox (`chain/escrow-manager.ts`) | a record per unsettled wager; `inFlight` | recordBooked, settle, refund, sweep, reconcileOnBoot | store, chain |
| escrow custody (`chain/bet-escrow-chain.ts`) | none: the chain account | build and verify a deposit, return, pay, recirculate, burn | Solana |
| stores (`storage/`) | `yield_events`, `raid_vaults`, `escrow_wagers`, comp wallets, handles, nonces, home stations | inserts and upserts through a connection pool | Postgres, Redis |
| holder gate (`chain/holder.ts`, `prewarm.ts`, `holder-tracker.ts`) | cached balance, cached estimate, hold record per wallet | check | Solana |
| redeemer, price and treasury pollers, rewards, staking | last polled values; transaction builders | bridge, build, co-sign, poll | Solana |
| anti-cheat, comp wallets, handles | connection counters, action budgets and flags; lists | check, record | gateway |
| web client (`shell/`) | the session store (`use-session.ts`) and its sockets, the holder page's verdict, the claim under way | connect, reconnect, sign out, claim, redeem | gateway, wallet |
| admin console, configuration, scripts | | read-only views, parsing, tools | |
| syndicates (`syndicate-manager.ts`, `syndicate-raids.ts`) | groups and their raids | reached by tests only, no message of the gateway | |

### How a wager travels

    client      gateway                     chain           outbox            table
      | build     | preview, mint id           |               |                |
      |---------->| .. await builder           |               |                |
      |<----------| cache pendingWager         |               |                |
      | sign+send |                            | deposit lands |                |
      | submit    | clear pendingWager         |               |                |
      |---------->| .. await verifyDeposit --->|               |                |
      |           | startExpedition ---------------------------> recordBooked --> active
      |           |     or onWagerRefund ----------------------> settle(return)-> settling
      |           |           raid resolves -------------------> settle(plan) --> settling
      |           |                            |<-- leg, leg -- | done flags --> ...
      |           |                            |<-- burn ------ | delete ------> (gone)

`WagerGateway` models the left half and `EscrowOutbox` the right half. They meet
at one promise: a wager id reaches the outbox at most once, and only after its
deposit landed. `WagerGateway` proves it (`NoDoubleHandOver`), `EscrowOutbox`
relies on it in the guards of `RecordBooked` and `RefundUnlaunched`. `RaidWorld` models
what happens to the wager between those two arrows, from `startExpedition` to the
`settle` of its raid: it takes the gateway's promise as the guard of `StartWagered`
and proves the outbox's other premise, one settlement per wager
(`WagersSettleOnce`) and none forgotten (`WagersRide`).

All three tell one story, which `WagerCustody` states on its own: a deposit is held until
its raid has one outcome, every leg of the outcome is paid exactly once, and only then the
wager is closed. `EscrowOutbox` is shown to implement it. `EscrowCustody` looks at what
neither of them sees: all wagers share one token account.

### How credits travel

    discovery --governor--> credits --bridge--> Creds in the wallet --swap--> $ASTROID
     (Emission)          (CreditLedger)   (ClaimFlow)          (ClaimFlow, EscrowCustody)

`Emission` bounds what is issued, `CreditLedger` follows memory, event log and vault,
`ClaimFlow` the way out through the player's tabs.

### What makes it hard, and what correctness means

* **Wagers.** Tokens in the escrow account belong to somebody until a leg moves
  them. Correct: nothing is forgotten, nothing is paid twice, legs land in the
  order of the plan with the irreversible burn last, every durable wager ends paid or
  parked for an operator, and the account holds what it owes. Hard: crash between a
  transfer and its write; writes that fail silently or overtake each other; a sweep beside
  a live settlement; a balance read before an await and burned from after it.
* **The deposit protocol.** Correct: one hand-over per wager, one raid per
  wallet, no landed deposit out of reach. Hard: checks made before an await and
  used after it, several connections per wallet, reconnects, expiry.
* **Credits.** Correct: no operation mints or loses credits, the event log adds
  up to the balance, the vault's row is the vault, the day's issue and the claims on the
  treasury are bounded, and what the page says of a claim is true. Hard: bridging debits,
  awaits and refunds; writes are never awaited; a client's timeout is shorter than the
  handler's; restart rebuilds memory from the store.
* **Raids.** Correct: the six copies of a raid agree, a raid and its wager end
  once, an asteroid that repelled a raid is left alone, a raider rests. Hard: a
  raid lives across many requests, and its player may mine, move, disconnect,
  recall it or be overtaken by the sweep or a restart in between.
* **Drill power and stake.** Correct: an asteroid's total is the sum of its miners'
  reports, power follows from stake, and the three sums of stake agree. Hard: all are kept
  by differences, against a report that is remembered across joins, leaves and raids.
* **Connections.** Correct: the counter of an address follows its connections, a wallet is
  signed in while a connection of it is open, the browser has one live session. Hard: a
  signature is checked while its connection may be closing; wallets and connections are not
  one to one; a click, a timer and a handshake overlap.
* **The holder gate.** Correct: a verdict fits what the wallet had, a pre-warm does not
  overstate the hold, an eligible wallet stays so. Hard: two caches, a balance read in two
  calls, transfers and other checks between the calls.

The list of concrete hazards with their lines is in `PROJECT.json`.

<a name="the-modules"></a>
## The modules

| module | models | extends |
|---|---|---|
| `EscrowOutbox` | the durable outbox, its table, crash, shutdown and boot | |
| `WagerCustody` | what the escrow promises of one wager, abstractly | |
| `EscrowCustody` | the tokens of all wagers in one account, the split, the rent burn, the redeem swap | |
| `WagerGateway` | building and submitting a wager deposit | |
| `CreditLedger` | wallets' credits, one raid vault, the event log, bridging, meteors | |
| `Emission` | what mining may issue: governor, rolling day, treasury poll, taper | |
| `ClaimFlow` | a claim from the button to the signed swap, over several tabs | |
| `RaidWorld` | players, raids, wagers in the world: tracker, raid engine, registry, cooldowns, bet pools | |
| `DrillFloor` | who mines where, with what power, on what stake; rallies | |
| `Admission` | connections, sign-in and the counter of an address | |
| `ClientSession` | the browser's session store, its sockets, timer and holder check | |
| `HolderGate` | the holder check with its caches, the estimator and the tracker | |
| `Sums` | lemmas on sums over finite sets, for the proofs | |
| `EscrowOutboxProofs` | theorems on the outbox, and its refinement | `EscrowOutbox` |
| `WagerGatewayProofs` | theorems on the deposit | `WagerGateway` |
| `RaidWorldProofs` | theorems on raids and their wagers | `RaidWorld` |
| `MiningProofs` | theorems on the floor and on what mining issues | `DrillFloor`, `Emission` |
| `TreasuryProofs` | theorems on the escrow account and on credits | `EscrowCustody`, `CreditLedger` |
| `WebClientProofs` | theorems on the session and the claim | `ClientSession`, `ClaimFlow` |
| `AccessProofs` | theorems on connections and the holder check | `Admission`, `HolderGate` |
| `MC...` | small instances for TLC | the module |

`EscrowOutbox`, `CreditLedger` and `WagerGateway` carry their faults as a set of kinds, the
constant `Faults`, and a history of those that happened (`seen`; in `CreditLedger`
`faults`). A property can then say exactly which faults it survives: `KeepsCustody` holds as
long as no crash, shutdown or unseen confirmation happened, whatever writes fail. The other
modules use history variables of the same purpose: `skewed`, `misjudged`, `overlap`,
`overtaken`, `late`, `replaced`, `cut` name the one situation in which a promise lapses.
Definitions marked MUTANT are plausible bugs; every property is broken by one.

### EscrowOutbox

* `records` is the manager's `Map`, `rows` the table, `bookPut` and `settlePut`
  the writes in flight of `recordBooked` and `settle`, `runner[w]` the program
  counter of `runLegs` (its not being idle is `inFlight.has(w)`), `landed` the
  chain, `live` the world's `expeditionWagers`.
* `RecordBooked`, `Resolve`, `RefundUnlaunched` are the three entries; `Settle` is
  `settle` up to its first await and `SettlePutDone` the rest. `runLegs` is
  `Continue` (the loop's head), `LegConfirmed`, `LegRejected`, `LegUnconfirmed`
  (the chain call's three outcomes), `LegPutDone`, `ErrPutDone`, `DeleteDone` (the
  three awaited writes). `Sweep` is the interval timer. `Boot`, `Reconcile`,
  `BootDone` are `reconcileOnBoot`, in its order: a row at a time.
* Abstracted: legs are named by kind and defender; `executeLeg` is the chain call;
  the record's `txSignature`, `lastError` and timestamps are left out; equal ranks
  (payouts among themselves) run in any order; the split itself is an input
  (`LossPlans`), because `bet-escrow.ts` computes it without state.

### CreditLedger

* `pending` is `pendingYield`; `events[w]` is the sum of a wallet's rows, `eventPuts`
  the inserts in flight (a bag: inserts commute), `vaultPuts` the upserts in flight (a
  sequence: they do not), `bridges` the debits whose transfer has not returned,
  `threat` the price of the incoming meteor.
* `Discover` is `processDiscovery` in vault mode, `Forfeit` the in-game side of a lost
  wager, `RaidSteal` a won raid, `Claim`, `SpawnMeteor`, `Deflect`, `Strike` the
  world's actions, `BridgeDebit`/`BridgeLanded`/`BridgeFailed` the handler
  `handleBridgeIou` around its await, `RestartRestored` and `RestartBlind` the boot.
* `offBook` counts what a wallet spent without an event (only `spendPendingYield`
  does), so that the books can be compared exactly in spite of it.
* Abstracted: the governor's total is an input; wallets are authenticated; the hourly
  bridge cap only removes behaviours; several vaults are one, since no operation
  relates two of them.

### WagerGateway

* `building[c]` are the builds awaiting the chain, `pending[c]` is
  `meta.pendingWager` and `expired` says whose time is up, `verifying[c]` the submits
  awaiting `verifyBetEscrowDeposit`. `raids`, `blocked` and `authed` are what
  `canStartExpedition` reads.
* `Build`/`Built`/`BuildFailed` and `Submit`/`Verified`/`Unverified` are the two handlers
  split at their await. `Verified` takes the whole of `startExpedition` and the refund
  that replaces it. The client may send anything at any time.
* Abstracted: the amount and the target travel with the wager's id; `Toggle` lets
  cooldowns end and immunity come and go at any time; a connection keeps one wallet.

### RaidWorld

* Per wallet: `home`, `active`, `current` are the three fields of its miner state that
  raids touch (`homeStationAsteroidId`, `activeAsteroidId`, `currentExpeditionId`),
  `location` the registry's `minerLocations` (the distribution's active miners change
  with it in every handler), `cooling` its unexpired cooldowns, `raidOf` the tracker's
  `attackerExpeditions`, `saved` its row of the home station store. Per raid: `status`,
  `raider`, `target`, and `wagerOf`, its entry in `expeditionWagers`. Per asteroid:
  `incoming` and `immune`. Per wager: `pool`, `booked` (told to the outbox) and `plans`
  (settlements handed to it).
* One action per handler of the world, with everything it calls: `Launch` is
  `createExpedition`, `Finish` what `completeExpedition` and the tracker's
  `leaveExpedition` do, `SettleWagers` what `settleEscrowedWager` and
  `forfeitEscrowedWager` do. `Connect` is split at its one await
  (`restoreHomeStation`): for the wallets in `Slow` the answer comes later, as
  `HomeRestored`.
* `ResolveRaids(a)` is the sweep at one asteroid; a tick does it for each due asteroid
  in turn, which is what interleaving gives. Order inside: all raids complete, then
  their wagers are settled, and only then the defenders are read, as in the code.
* Abstracted: who wins (powers are data), when a raid is due, a cooldown over or
  immunity past (time is a free choice; a discovery makes any raid due). A raid that is
  `over` stands for completed, failed or deleted: no handler reads one again, so its
  raider and target are cleared. A pool that is resolved or dropped by
  `cleanupResolvedPools` throws alike. The catch that refunds a wager whose booking
  fails needs a repeated wager id and is left out. Writes to the home station store
  take effect at once.
* On-chain staking is on, as in production, so stakes do not move in the world.
  `joinExpedition` and `startReturn` have no caller outside tests.

### WagerCustody and the refinement

Per wager one outcome (absent, held, owed with a plan, closed) and how often each leg was
paid. `EscrowOutbox` maps onto it by `Outcomes` (from `deposited` and the record in memory)
and `landed`; `trusted` is the absence of crash, shutdown and unseen confirmations, the
limits the header of `escrow-manager.ts` itself states. `KeepsCustody` is the abstract
specification as a property.

### EscrowCustody

* `bal` is the chain account, `known` the manager's map, `running` its `inFlight`, `stage`
  and `plan` a record's status and plan, `call[w]` the chain call of a leg with what it has
  read: `ReadBalance` (balance, does the recipient have an account), `Compose` (surplus, rent
  burn, transaction), then `Lands`, `LandsUnseen` or `Rejected`. `Split` is `bet-escrow.ts`
  with its floors, integer for integer. `Book` and `Refuse` follow `VerifyDeposit`.
* `dedicated` chooses between an escrow key of its own and the shared treasury, in which the
  recirculation leg is a no-op and `BuildRedeemSwap`, `Issue`, `SubmitRedeemSwap`
  (`pendingRedeem`, co-signing) compete for the same tokens.
* `misjudged` remembers the kinds of payment made on a wrong view, decided at the step that
  lands: the property then says which of them a deficit needs.

### Emission

* `window` is the governor's rolling day and `issued` what was really issued, both by age;
  `Discover` is the sweep's find: `Governed` asks cap and taper, `Payout` shares by power and
  adds the finder's bonus, then the amount is recorded. `Poll` is `treasury-backing.ts`,
  stale or not; `Restart` forgets window, poll and bridges under way.
* What moves credits without asking the governor has an action each: `Steal` and `Spoils` of a
  raid, `Recirculate` of a lost wager, `Skim` of a meteor, `Claim`, `Deflect`, and
  `BridgeDebit`, `BridgeLanded`, `BridgeFailed` (`handleBridgeIou` around its await). A refund
  comes back after discoveries may have used the headroom its debit made.
* `undone` counts what left without reaching the event log: every deflection, and a claim's or a
  bridge's event whose insert failed. A restart that reads the log restores it (`Replayed`), less
  what the log never saw arrive; one that cannot read it starts from nothing (`LoadFails`).
* `outside` is the history the property needs: what came past the governor and has not left since.
  Refunds, thefts, spoils and replayed credits add to it; what leaves takes from it first.
* Abstracted: the difficulty of `discovery-engine.ts` (a find may happen at any time); credits
  are one sum, of the event log only its gaps count, and a bridge that its handler gave up and
  that lands all the same is `ClaimFlow`'s subject.

### ClaimFlow

* `flow[t]` is where a tab is in `runClaimToWallet` or in the redeem half of it; `transfer[o]`
  is a handler of the gateway with its transaction, so that client, handler and chain give up
  or go on independently. `report[t]` is the word to the player.
* `BridgeIou`, `BridgeSends`, `BridgeConfirmed`, `BridgeThrows` are `handleBridgeIou` and
  `redeemer.bridge` cut at their awaits; `BuildRedeem`, `SubmitRedeemSwap`, `SwapConfirmed`,
  `SwapThrows` those of the redeem. `GivesUp` is the ten-second timeout of `Session.send`.
* `covered` says whether the treasury's $ASTROID and the rent of a first account would pay the
  wallet's swaps: others take it away (`Drain`) after the build's check, or it comes back
  (`TopUp`). `Lands` moves both legs of a swap or fails on chain, for want of the wallet's Creds
  or of either; `SwapConfirmed` takes a processed transaction for a success, as
  `coSignAndSubmitRedeem` does.
* `overtaken` remembers the swaps that were in flight next to another one of the wallet, or when
  `Drain` happened: only of these may the page say *claimed* wrongly. A report is `early` when its
  swap could still land, or had landed and the client did not know.
* Abstracted: how much the treasury holds, and why else a bridge, a build or a submit fails (each
  may at any time).

### DrillFloor

* `location`, `total` are the registry's, `reported` is `lastReportedDrillPower`, `roster`
  the distribution's miners, `stakes`, `walletStake`, `rockStake` the three places a stake
  is summed; `quarry` is on-chain staking, chosen at start. Each action is a handler of the
  world with every difference it applies, in order.
* Abstracted: powers are small integers with one free base and one tier.

### Admission

* `status`, `wallet`, `checking` are a connection and its meta, `count` the
  `connectionCount` of an address, `authed` and `mining` the world's. `Auth` and `AuthOk` are
  the two sides of the await of the signature.
* Abstracted: nonces and signatures, the action budget (per wallet, one timestamp), the
  addresses of a wallet, which are only logged.

### ClientSession

* `current`, `state`, `timer`, `signedOut`, `last` are the module-level store;
  a link is a socket from its handshake to its close event. `Effect` is the holder page's
  effect, which React runs before the next update.

### HolderGate

* `check[q]` is a request suspended at a read of the chain; `cache`, `estimated` and
  `history` are the balance cache, the estimator's cache and the tracker's record; `log` the
  wallet's transfers. All times are ages, advanced by `Tick` and cut off at `Oldest`, from
  where nothing depends on them.
* Not there: the page's countdown. Its end needs repeated checks under fairness, and the
  state space of that is beyond what a run can take; a price that moves, or reads that fail,
  may restart the hold each time, so the countdown need not end.

<a name="runs"></a>
## Runs and bounds

| run | question | instance |
|---|---|---|
| `outbox_safety` | what holds of payouts and the table whatever fails; does the outbox implement `WagerCustody`; does every durable wager end paid or parked? | 1 wager, 1 defender, 3 splits, 2 attempts, 2 crashes, every fault, under fairness; 928k states |
| `ledger_safety` | do memory, log, vault row and chain agree? | 2 wallets, 3 credits issued, 1 fault of any kind, 2 writes in flight; 1.9M states |
| `gateway_safety` | one hand-over, one raid, nothing stranded? | 2 connections of one wallet, 1 of another, 2 wagers, every fault, under fairness; 443k states |
| `world_safety` | do the copies of a raid agree, is immunity kept, is every wager settled once? | 2 wallets, 2 asteroids, 2 raids, 2 wagers, 1 restart; 2.2M states |
| `floor_safety` | do totals, powers, stakes and rallies add up? | 2 wallets, 2 asteroids, stakes to 1, both staking modes; 1.5M states |
| `custody_safety` | does the account hold what it owes, is the split exact, is a swap signed once? | 2 wagers of 11, 2 defenders, 1 swap, 1 restart, shared and dedicated; 1.6M states |
| `custody_burn` | does the rent burn spare other wagers? (it does not) | the same without the swap |
| `emission_safety` | what do the two throttles guarantee? | cap 2, yields 2 and 5, 2 finds, 1 restart, 1 bridge at a time; 3.5M states |
| `claim_safety` | is what the page says true, is anything lost? | 2 tabs, 3 transfers, 2 credits, 1 bridge an hour, a treasury that runs short; 3.6M states |
| `admission_safety` | does the counter follow, is a signed-in wallet connected? | 4 connections, 2 slots, 2 wallets; 269k states |
| `session_safety` | one live link, a verdict of one's own, an end to "connecting"? | 2 wallets, 3 sockets, under fairness; 974k states |
| `gate_safety` | does a verdict fit the wallet, a pre-warm its past, does an answer hold? | 2 checks, 2 tokens, 2 transfers; 2.9M states |

Why the bounds are enough.

* *Outbox.* Wagers never touch each other's records, rows or runs (every definition reads and
  writes index `w` only, except the boot loop, which is sequential), so one wager shows every
  violation. Two crashes let a crash hit the recovery of the first one; two attempts are the
  least with a retry that can still succeed.
* *Ledger.* Three credits suffice for a floor to bite (34% of 3), for two overlapping
  bridges of different amounts and for a deflection; the finder's bonus is 0, because it only
  changes what a discovery issues; `MaxOffBook` and `MaxIssued` bound counters that otherwise
  grow; two writes in flight are what an overtaking needs.
* *Gateway.* The interesting cases are two connections of one wallet and two wagers of one
  connection; the second wallet is there so that nothing holds only because everybody is the
  same player.
* *World.* Two wallets and two raids give every conflict between raids: two on one asteroid,
  at each other's home, one recalled while the other resolves. Two wagers let one sweep settle
  a batch, one restart lets a raid be lost and its wallet raid again. Three bounds name what
  they cut: `Miners` (one wallet joins asteroids; the other may still be active somewhere as a
  raider), `Slow` (one wallet's store read takes time) and `Elapsing` (the 24 hours of
  `home_station_switch` do not pass while we watch).
* *Floor.* One token of stake is the tier's threshold, so every change of stake changes power
  and tier; unstakes and rallies of one more than there is are offered. `Raiders` lets one of
  the two wallets raid.
* *Custody.* 11 tokens with 2 and 4 parts of 10 leave remainders in every floor; the rent
  price 2 is such that a surplus pays for one account and not for two. Two wagers are what a
  burn against another's deposit needs.
* *Emission.* Yields on both sides of the cap and of the taper band, crews with one, two and
  idle members; two finds are one below the cap and one across it. One bridge and one restart
  suffice for credits to come back into headroom that was used meanwhile; `MaxCredits` bounds what
  is made by anything but a discovery, and leaves room for a debit of 3, a discovery and a refund.
* *Claim.* A claim uses two transfers, so three let a claim and a redeem cross; one bridge an
  hour makes the cap refuse. `Drain` is offered while a swap is in flight: at other times it shows
  only in a build or a submit that fails, which either may do anyway.
* *Admission.* Four connections over two slots: two refused ones that close, so the counter
  slips twice.
* *Session.* Three sockets are an old one closing, a handshake and a timer's; more only queue.
* *Gate.* Times to live of 1 and 2 ticks differ, so each cache can outlive the other;
  `MinHold` 1 and three observations give both ways to become eligible; two transfers with
  a look-back of two let a dip be in and a balance be restored.

Symmetry is used where no definition names an element and only safety is checked. The
theorems have none of these bounds. `CHECK_DEADLOCK FALSE` is set where the bounds on
wagers, credits, raids, connections, transfers or faults leave nothing to do in the end; the
gateway's, the session's and the gate's models never stop.

<a name="fairness"></a>
## Fairness

* `EscrowOutbox!FairSpec`: weak fairness of each continuation of an await (the event
  loop runs settled promises), of the raid timer, of the sweep (`setInterval`), of the
  boot steps and of the restart (the platform restarts a dead machine). No fairness of
  faults, of crashes or of the chain succeeding: a leg may be rejected every time, which
  is why the property says *paid or parked*.
* `WagerGateway!FairSpec`: the client submits the wager it was offered, and
  `confirmTransaction` returns for a deposit that landed. `DepositSettles` is vacuous for
  behaviours with a fault; `StrandedOnlyByFault` says the same without fairness.
* `ClientSession!FairSession`: the reconnect timer fires and a handshake ends, in success,
  refusal or one of its timeouts; the wallet is taken to sign or refuse. The last is an
  assumption on the player, not on the code.

<a name="findings"></a>
## Findings

One run is a counterexample. `custody_burn`: the rent burn is said to be "strictly from escrow
SURPLUS ... never from funds backing live wagers" (`bet-escrow-chain.ts:152`). The surplus is the
balance read at the start of the payout less the liability, and the balance includes deposits
that have landed and are not booked yet, while the liability does not. A payout that creates a
token account meanwhile burns from such a deposit, and the wager booked next is short by it.

Other claims of comments that the code does not keep, met while modelling. The modules follow
the code, and a property's exception names each one it touches.

* A deposit is "recorded durably before the raid is acknowledged": the write is not awaited.
  Legs are "persisted before they execute": the sweep can start a record whose plan is still
  being written. Done flags prevent double payment: an orderly shutdown closes the pool under a
  running settlement (`DurableProgress`, `CrashRepeatsOneLeg`, `Trusted`).
* The balance is the sum of the event log (`schema.sql:12-15`): a deflection spends without
  an event, and a restart gives the credits back (`BookBalanced`, `offBook`), past the emission
  governor, as the refund of a failed bridge does (`ClaimsBounded`, `outside`). A bridge whose
  confirmation times out and lands later is refunded as well (`NothingLost`, its `twice`).
* `coSignAndSubmitRedeem` "throws a sanitized error on any mismatch / failure"
  (`redeemer.ts:511`): it does not look at the error in the value of `confirmTransaction`, so a
  swap that failed on chain is reported as claimed (`HonestReport`, `overtaken`).
* A second build is rejected while a wager is pending: not while the first is still being
  built (`gateway.ts:1051-1056`; `StrandedOnlyByFault`).
* "activeAsteroidId is set only by an explicit joinAsteroid": the end of a raid sets it to the
  home station. "Miners currently on an expedition don't defend": the spoils are weighed after
  the raid is marked complete, so a raider registered at its target shares in the wager it lost.
* `recordDisconnect` "balances counters maintained by `checkConnection`": it also runs for
  refused connections, whose close gives back a slot they never had (`CountTracks`, `slips`).
  One of several connections of a wallet that closes signs the wallet out (`cut`).
* "Credits leave the in-game accumulator only once the bridge confirms" (`arena/page.tsx`):
  they are debited first and refunded. "If step 1 fails, credits are untouched"
  (`staking-client.ts`): the client's ten seconds end before the bridge does (`unheard` in
  `HonestReport`). "Your rewards are now Astroid Creds" is also said after a submit that was not
  answered in time and whose swap may land yet (`early`). A sign-out is meant to be final (`use-session.ts:55-58`): a handshake under
  way when it happens still publishes its session (`OneLink`, `overlap`).
* "The seed is not sticky" (`holder-tracker.ts:296`): the estimator's five-minute cache gives
  the seed again after an observed dip. The estimator takes moves into the stake for outgoing
  tokens, and several checks of one cached balance count as several observations
  (`SeedsTrue` excludes the first two; `StaysEligible` covers the third).
* With staking on chain a rally costs nothing: it unstakes from a record of the in-game
  mode (`RalliesPaid` is about the other mode). `joinAsteroid` adds nothing to the total for a
  miner whose power is remembered, and the next report takes it off (`TotalsAddUp`, `skewed`).

Observed and not modelled: tokens recirculated in the shared account count as surplus for the rent
burn; the boot loop loads rows one by one, so the liability is low until it ends; renewing a
rally's boost does not extend it; `updateLoyaltyDays` has no caller.

<a name="proofs"></a>
## Proofs

Every safety property of the passing runs, invariant or action property, is also a theorem:
for every value of the constants that satisfies the module's named assumption, and under every
fault. The assumptions say that players, asteroids, wagers, defenders, transfers and connections
are finitely many where something is counted or added up over them, that amounts, prices and
percentages are numbers in their ranges, that the mark for *none* is none of the things it stands
beside, and little else. The type invariant of each module is proved as well.

Each theorem rests on an inductive invariant. What follows says why the property alone is not
one, and what had to be added.

### Sums

The model adds up with the library's `SumFunctionOnSet`, a fold whose definition chooses an
element at a time. The module `Sums` proves that it does what one expects: `SumRemove` (an
element taken out), `SumAdd`, `SumChange` (one summand differs), `SumPlus`, `SumSplit` (a set
and its rest), `SumBelow` and `SumMember` (bounds), `SumShares` (the floored shares of a pool
never exceed the pool). Induction over subsets is stated for a *set* of subsets instead of a
predicate (`SubsetInduction`), and proved from the well-founded order of the subsets of a finite
set, because the installed provers cannot instantiate an induction theorem that takes an
operator.

### Wagers

`EscrowOutboxProofs`: `TypeCorrect`, `NoLegSkipped` (a done flag stands for tokens
that moved), `BurnIsLast` (legs move in the order of their plan), `DurableLiability` (a row
leaves the table only when a plan is paid in full). None is inductive alone. The
invariant behind them says what each of the four copies of a record (memory, table,
two writes in flight) may know: a record that is no longer `active` has one of the plans
(`PlanKnown`); a run has a record with a plan until everything is paid (`RunnerBacked`);
a settlement in flight finds its record, or it is settled (`SettleBacked`); a dead process
holds nothing (`DownIsEmpty`), and rows that the boot loop has not reached are as it read
them (`QueueIsQuiet`). `DurableLiability` and `BurnIsLast` are action properties proved
from it. `ProgressIsDurable` (the table's plan is never replaced, no done flag is lost from it)
adds `InTurn`: as long as no write overtakes another, a plan in the table is the one in
memory and not ahead of it, and a wager whose first plan is still to come has none there.
`CustodyKept`, that the outbox implements `WagerCustody`, needs `Exact` beyond the
invariant: while the process lives and sees its confirmations, what the
record in memory calls done is what the chain has seen, once each. `OneWager` reduces a step to
the abstract state of the wager it is about.
`OneRepeatPerCrash` counts: the transfers beyond the first of each leg are no more than the
crashes. Its invariant (`CrashSteady`, as long as nothing but crashes went wrong) measures what
the chain has against what the *table* calls done, since a crash resumes from there: the
difference is at most one for each crash, and one more for a leg that has just landed
(`RowBehind`); the record in memory is ahead of the table by that leg only (`RecordAhead`).

`WagerGatewayProofs`: `GatewayTypes`, `NoDoubleHandOver`, `NoSecondRaid`,
`NothingStrandedWithoutFault`. The invariant's core is `OnePlace`: on its way to the outbox
a wager is in one place, of one connection; and `NoOverwrite`: without a fault, a build
under way has an empty cache in front of it. Overlapping builds are a fault because of what is
left of `NoOverwrite` then.

`RaidWorldProofs`: `WorldTypes`, `RaidsIndexed`, `ImmunityHolds`, `RecoveryHolds`,
`WagersRide`, `WagersSettleOnce`. The indexes carry their own induction, and immunity and
recovery follow from them: a batch clears the asteroid's list *because* the list names exactly
the active raids on it. The wagers need `WagersTidy`: an entry names a live raid, an open pool
and a liability without a plan, and no two entries the same liability. Two lemmas do the work
for the sweep and the recall together: `FinishIndexed` and `SettleTidy`, for any set of live
raids that ends.

### Tokens and credits

`TreasuryProofs`, the escrow account: `EscrowSolvent`, `SettlementExact`, `SwapSignedOnce`. That a
plan disposes of the whole wager, for every split of every amount with all the floors in it, is
`PlansFit`. From there a wager is followed to its end: its record
(`RecordsFit`), and that what it has taken out, left in place for the vaults and still has to
pay add up to it (`PaidFit`). Solvency adds what a payment under way *believes*: a balance that was
read is still there as long as nothing left since, and behind a rent burn there is a surplus
(`ReadFits`, `BurnFits`), because what the manager knows it owes covers the debts it does not
know of unless a payment was already misjudged (`LiabilityCovers`). A swap is
at one place at a time, and signed there at most once (`SwapsFit`).

`TreasuryProofs`, credits: `BooksBalance`, `CreditsConserved`, `VaultIsMirrored`. The books are
compared wallet by wallet through their `Gap` (the balance and what was spent off the books,
less the events written and in flight), the vault through its `Mirror` (the last upsert in
flight, or the row), and conservation through the `Excess` of credits held, gone and under way
over those issued. `SameBooks` then settles a step by three questions: does it leave each gap
alone, the mirror true, the excess what it was, or else is it one of the faults that the
property excuses? Inserts and debits in flight are bags; `WorthMore` and `WorthLess` say what a
write more or less does to their worth. `VaultMirrored` is not inductive, since it speaks only of
moments with no upsert in flight: `MirrorFits` speaks of all.

`MiningProofs`, the floor: `TotalsAlwaysAddUp`, `PowerAlwaysFromStake`, `StakeBooksAlwaysAgree`,
`RalliesAlwaysPaid`. Every handler moves one wallet in or out of an asteroid's sum, or changes its
summand: `LeavingTotals`, `JoiningTotals` and `ReportingTotals` for power, `BooksMove` and
`BooksUnstake` for stake. The property about power needs `PeakCovers`: what is staked now never
exceeds what was staked at most.

`MiningProofs`, the governor: `DayNeverOverIssued`, `ClaimsStayBounded`. The bound on a day with
restarts is an induction on age (`PrefixCapped`): what was issued since any age is covered by what
the running process recorded since then and one full cap for each process that ended since then.
Ageing turns the bound for one age into the one for the next, and a restart turns the window, which
never exceeds a cap and one discovery (`WindowCapped`), into one more process. The taper's
bound is arithmetic with floors (`TaperArithmetic`, `LimitHolds`). Every other step moves credits
past the governor, and `PastGovernor` says of all of them at once that the credits and `outside`
rise together and that `outside` falls by no more than the credits do (`OthersPastGovernor`).

### Players

`WebClientProofs`, the claim: `ReportsHonest`, the page's word about a claim. It rests on `FlowShape` (a
flow's transfers are the ones its step is about: a landed bridge behind every redeem of a
claim), `ReportsFit`, and `Funded`: a swap in flight that nothing overtook is the only one, the
wallet's Creds pay it and the treasury and the rent cover it, so it cannot fail on chain, and every
swap that failed there was overtaken. `Lasting` says what
no step undoes of a transfer; with it one lemma serves all reports that were made before.
`NothingIsLost` is an account: each transfer holds what it has debited and not delivered, less what
was refunded and landed all the same, and the sum of these with the three balances is what the
player earned (`Accounted`).

`WebClientProofs`, the session: `SessionLive`, `LinkAlone`, `VerdictOfItsWallet`. The invariant adds
`Alone` (without an overlap there is one socket, and none while the reconnect timer runs: a timer
that fires next to a socket would make a second one) and `ChecksBacked` (a holder check is asked on
a live link, and the effect's own on the session that is shown). `PublishEffect` says once what
`publish` and the page's reaction leave behind; the steps of links cite it.

`AccessProofs`, admission: `ConnectionsCounted`, `LimitKept`, `SessionsBacked`, `ConnectionsServed`. The
invariant adds `OnlyAdmitted` (a refused connection never has a wallet); the counter follows the
cardinality of the open connections, one change at a time.

`AccessProofs`, the holder check: `GateTypes`, `EligibilityKept`, `VerdictsFit`, `SeedsAreTrue`.
`EligibilityKept` follows from the tracker alone: an observation of enough tokens keeps the record
eligible (`ObservedEligible`), time only adds to it, and a seed never replaces a record. The other
two relate a number that was read some time ago to the log of transfers. `HoldInv` gives every check
and every cache entry the place in the log at which it was read, and says two things of it: all
later transfers are young enough (`Fresh`), and the number is what the wallet had there, today's
balance less everything after that place (`TotalAt`, `LiquidAt`), which a later transfer does not
change. A verdict then fits the total after the transfers it has seen (`VerdictOf`). A seed dates
from the last dip in the estimator's window; that no later transfer was one holds because the log is
in the order of time (`Sorted`, `EstimateTrue`).

### What stays with TLC

Liveness: `SettlesOrParks`, `DepositSettles`, `ConnectingEnds`. The provers here reason neither about
fairness nor about `ENABLED`. `OutstandingBacked` is refuted by the run `custody_burn`, so there is
nothing to prove; `EscrowSolvent` says what is left of it. That a definition computes what
the code computes is checked by reading: the `map` of `PROJECT.json` names the lines.

The type invariants are proved, and therefore in no run.

<a name="not-modelled"></a>
## Not modelled

Rendering, wording, logging, HTTP, configuration and the construction of transactions.
The vendored engine (sockets, nonces, signatures) is third-party. Floating-point drill
power is data to the models here. The syndicate managers are constructed, but no message of the
gateway reaches them. The hourly refinery pool receives nothing, since production always wires a
raid vault. The action budget with its backoff is arithmetic on one timestamp per wallet. The
console and the landing pages render what they are sent. Every part is listed with its reason in
`PROJECT.json`.

<a name="plan"></a>
## Plan

1. Done: the twelve modules of the table, the refinement of `WagerCustody`, and a theorem for
   every safety property that a passing run checks.
2. The stake transactions (build, sign, verify, reconcile) and the action budget, with their
   own theorems.
3. Proofs that would say more than the runs do: an abstract specification of the credits
   (issued, held, spent) that `CreditLedger` and `ClaimFlow` both implement, and the promise
   between `WagerGateway` and `EscrowOutbox` (a wager reaches the outbox at most once) as a
   theorem about a module that composes the two.

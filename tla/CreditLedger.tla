---------------------------- MODULE CreditLedger ----------------------------
(***************************************************************************)
(* The in-game credits (IOUs) of the wallets and the raid vault of one     *)
(* asteroid: server/game/stake-manager.ts and server/game/raid-vault.ts    *)
(* with the world's and the gateway's calls of them, over the Postgres     *)
(* store.                                                                  *)
(*                                                                         *)
(* Memory is the truth at run time.  Every change of a balance issues a    *)
(* write that nobody awaits: an insert of the change into yield_events, or *)
(* an upsert of the vault's new balance into raid_vaults.  The pool may    *)
(* finish writes in any order and swallows their failures.  A restart      *)
(* rebuilds each balance as the sum of the wallet's events and the vault   *)
(* from its row.  Bridging credits to the chain is the one operation that  *)
(* awaits between its debit and its outcome.                               *)
(*                                                                         *)
(* A definition marked MUTANT is a plausible bug in the definition that    *)
(* follows it.                                                             *)
(***************************************************************************)
EXTENDS Integers, Functions, Bags, SequencesExt

CONSTANTS
    Wallets,        \* the players
    Yields,         \* total yields a discovery can have after the governor
    Splits,         \* the miners' shares of a discovery, in percent
    Forfeits,       \* sums a lost raid can move into credits or the vault
    VaultPercent,   \* raidVaultPercent: the vault's cut of a discovery
    FinderBonus,    \* FINDER_BONUS_PERCENT: on top of the finder's share
    StealPercents,  \* what a won raid can take of the vault
    SkimPercent,    \* vaultSkimPercent of a meteor that strikes
    DeflectPercent, \* deflectCostFraction, in percent of the vault
    MinCost,        \* minDeflectCost
    Faults,         \* the kinds of fault this instance allows
    MaxFaults,      \* bound on the number of faults, restarts included
    MaxIssued,      \* bound on the credits ever issued
    MaxOffBook,     \* bound on what a wallet spends without an event
    MaxInFlight     \* bound on the writes, and on the bridges, in flight

(* "restart": SIGTERM with nothing in flight.  "crash": the process ends   *)
(* with something in flight.  "putFailed", "loadFailed": a write, or a     *)
(* read on boot, fails.  "lateWrite": an upsert is overtaken by a later    *)
(* one.  "unconfirmed": a transfer lands and its confirmation is not seen. *)
(* "clockEdge": a meteor strikes between the world's check of the clock    *)
(* and the engine's.                                                       *)
FaultKinds == {"restart", "crash", "putFailed", "loadFailed", "lateWrite",
               "unconfirmed", "clockEdge"}

ASSUME LedgerAssumption ==
    /\ \A n \in Yields \cup Forfeits : n \in Nat \ {0}
    /\ \A s \in Splits : s \in [Wallets -> 0..100]
    /\ {VaultPercent, FinderBonus, SkimPercent, DeflectPercent} \subseteq 0..100
    /\ StealPercents \subseteq 0..100
    /\ {MinCost, MaxInFlight} \subseteq Nat \ {0}
    /\ {MaxFaults, MaxIssued, MaxOffBook} \subseteq Nat
    /\ Faults \subseteq FaultKinds
    /\ IsFiniteSet(Wallets)

VARIABLES
    pending,    \* pendingYield: the credits of each wallet
    offBook,    \* credits spent without an event since memory was rebuilt
    events,     \* the sum of a wallet's rows in yield_events
    eventPuts,  \* inserts in flight, a bag of deltas per wallet
    vault,      \* the raid vault's balance
    vaultRow,   \* its row in raid_vaults
    vaultPuts,  \* upserts in flight, in the order they were issued
    bridges,    \* amounts debited for a transfer that has not returned
    threat,     \* deflectCost of the incoming meteor, 0 when there is none
    issued,     \* credits that ever came into being (history)
    gone,       \* credits bridged, claimed or skimmed away (history)
    faults      \* the faults so far, a bag of kinds (history)

ledgerVars == <<pending, offBook, events, eventPuts, vault, vaultRow, vaultPuts,
          bridges, threat, issued, gone, faults>>

(* One copy of x, and what the numbers in a bag come to.                   *)
One(x) == SetToBag({x})
Worth(B) == SumFunctionOnSet([n \in DOMAIN B |-> n * B[n]], DOMAIN B)

Total(f) == SumFunctionOnSet(f, Wallets)

LedgerTypeOK ==
    /\ pending \in [Wallets -> Nat]
    /\ offBook \in [Wallets -> Nat]
    /\ events \in [Wallets -> Int]
    /\ DOMAIN eventPuts = Wallets /\ DOMAIN bridges = Wallets
    /\ \A w \in Wallets :
         /\ IsABag(eventPuts[w]) /\ DOMAIN eventPuts[w] \subseteq Int \ {0}
         /\ IsABag(bridges[w]) /\ DOMAIN bridges[w] \subseteq Nat \ {0}
         /\ IsFiniteSet(DOMAIN eventPuts[w]) /\ IsFiniteSet(DOMAIN bridges[w])
    /\ {vault, vaultRow, threat, issued, gone} \subseteq Nat
    /\ vaultPuts \in Seq(Nat)
    /\ IsABag(faults) /\ DOMAIN faults \subseteq FaultKinds

(* First start: empty tables. *)
LedgerInit ==
    /\ pending = [w \in Wallets |-> 0]
    /\ offBook = [w \in Wallets |-> 0]
    /\ events = [w \in Wallets |-> 0]
    /\ eventPuts = [w \in Wallets |-> EmptyBag]
    /\ vault = 0
    /\ vaultRow = 0
    /\ vaultPuts = <<>>
    /\ bridges = [w \in Wallets |-> EmptyBag]
    /\ threat = 0
    /\ issued = 0
    /\ gone = 0
    /\ faults = EmptyBag

-----------------------------------------------------------------------------
(* Balances and the writes they issue.                                     *)

seen == DOMAIN faults

Fault(kind) == /\ kind \in Faults
               /\ BagCardinality(faults) < MaxFaults
               /\ faults' = faults (+) One(kind)

(* The bound MaxInFlight, on the operations that issue writes. *)
Room == Total([w \in Wallets |-> BagCardinality(eventPuts[w])]) + Len(vaultPuts)
            < MaxInFlight

(* recordEvent: a zero delta is not written. *)
Insert(puts, delta) == IF delta = 0 THEN puts ELSE puts (+) One(delta)

(* addPendingYield for every wallet that pay gives something. *)
AddPendingYield(pay) ==
    /\ pending' = [w \in Wallets |-> pending[w] + pay[w]]
    /\ eventPuts' = [w \in Wallets |-> Insert(eventPuts[w], pay[w])]

Only(w, amount) == [v \in Wallets |-> IF v = w THEN amount ELSE 0]

(* claimPendingYield and redeemPendingYield, once the balance is checked.  *)
Withdraw(w, amount) ==
    /\ pending' = [pending EXCEPT ![w] = @ - amount]
    /\ eventPuts' = [eventPuts EXCEPT ![w] = Insert(@, -amount)]

(* MUTANT of SetVault: the upsert is issued only when the balance grows.   *)
SetVaultUp(balance) ==
    /\ vault' = balance
    /\ vaultPuts' = IF balance <= vault THEN vaultPuts ELSE Append(vaultPuts, balance)

(* RaidVaultManager.add and debit: nothing happens for a zero amount.      *)
SetVault(balance) ==
    /\ vault' = balance
    /\ vaultPuts' = IF balance = vault THEN vaultPuts ELSE Append(vaultPuts, balance)

PercentOf(amount, percent) == (amount * percent) \div 100

-----------------------------------------------------------------------------
(* The game.                                                               *)

(* What processDiscovery pays each miner out of the pool. *)
MinerPay(pool, split, finder) ==
    [w \in Wallets |->
        LET share == PercentOf(pool, split[w])
        IN  share + IF w = finder THEN PercentOf(share, FinderBonus) ELSE 0]

(* A discovery: a cut to the vault, the rest to the asteroid's miners. *)
Discover ==
    /\ Room
    /\ \E total \in Yields, split \in Splits :
          \E finder \in {w \in Wallets : split[w] > 0} :
            LET cut == PercentOf(total, VaultPercent)
                pay == MinerPay(total - cut, split, finder)
            IN  /\ issued' = issued + cut + Total(pay)
                /\ AddPendingYield(pay)
                /\ SetVault(vault + cut)
    /\ issued' <= MaxIssued
    /\ UNCHANGED <<offBook, events, vaultRow, bridges, threat, gone, faults>>

(* A lost raid on this asteroid pays spoils to a defender; one lost        *)
(* elsewhere recirculates part of its wager into this vault.               *)
Forfeit ==
    /\ Room
    /\ \E amount \in Forfeits :
        /\ issued' = issued + amount
        /\ \/ \E w \in Wallets : AddPendingYield(Only(w, amount))
              /\ UNCHANGED <<vault, vaultPuts>>
           \/ SetVault(vault + amount) /\ UNCHANGED <<pending, eventPuts>>
    /\ issued' <= MaxIssued
    /\ UNCHANGED <<offBook, events, vaultRow, bridges, threat, gone, faults>>

(* MUTANT of RaidSteal: the vault is not debited.                          *)
RaidCopies(w) ==
    /\ Room
    /\ \E percent \in StealPercents :
        AddPendingYield(Only(w, PercentOf(vault, percent)))
    /\ UNCHANGED <<offBook, events, vault, vaultRow, vaultPuts, bridges, threat,
                   issued, gone, faults>>

(* A won raid moves a share of the vault to the raider. *)
RaidSteal(w) ==
    /\ Room
    /\ \E percent \in StealPercents :
        LET stolen == PercentOf(vault, percent)
        IN  AddPendingYield(Only(w, stolen)) /\ SetVault(vault - stolen)
    /\ UNCHANGED <<offBook, events, vaultRow, bridges, threat, issued, gone, faults>>

(* The player claims everything in game. *)
Claim(w) ==
    /\ Room
    /\ Withdraw(w, pending[w])
    /\ gone' = gone + pending[w]
    /\ UNCHANGED <<offBook, events, vault, vaultRow, vaultPuts, bridges, threat,
                   issued, faults>>

(* A meteor heads for the asteroid; its price is fixed by today's vault. *)
SpawnMeteor ==
    /\ threat = 0
    /\ threat' = Max({MinCost, PercentOf(vault, DeflectPercent)})
    /\ UNCHANGED <<pending, offBook, events, eventPuts, vault, vaultRow, vaultPuts,
                   bridges, issued, gone, faults>>

(* deflectMeteor: the player's credits pay for it, with no event, and go   *)
(* into the vault; or the engine finds the meteor gone and the cost is     *)
(* credited back, with an event.                                           *)
Deflect(w) ==
    /\ Room
    /\ threat > 0
    /\ pending[w] >= threat
    /\ offBook' = [offBook EXCEPT ![w] = @ + threat]
    /\ offBook'[w] <= MaxOffBook
    /\ \/ /\ pending' = [pending EXCEPT ![w] = @ - threat]
          /\ SetVault(vault + threat)
          /\ threat' = 0
          /\ UNCHANGED <<eventPuts, faults>>
       \/ /\ Fault("clockEdge")
          /\ eventPuts' = [eventPuts EXCEPT ![w] = Insert(@, threat)]
          /\ UNCHANGED <<pending, vault, vaultPuts, threat>>
    /\ UNCHANGED <<events, vaultRow, bridges, issued, gone>>

(* The warning is over: the strike destroys part of the vault. *)
Strike ==
    /\ Room
    /\ threat > 0
    /\ threat' = 0
    /\ LET skim == PercentOf(vault, SkimPercent)
       IN  SetVault(vault - skim) /\ gone' = gone + skim
    /\ UNCHANGED <<pending, offBook, events, eventPuts, vaultRow, bridges, issued,
                   faults>>

-----------------------------------------------------------------------------
(* Bridging credits to the chain (handleBridgeIou).  Several requests of a *)
(* wallet can be under way at once.                                        *)

(* The debit comes before the transfer is awaited. *)
BridgeDebit(w) ==
    /\ Room
    /\ Total([v \in Wallets |-> BagCardinality(bridges[v])]) < MaxInFlight
    /\ \E amount \in 1..pending[w] :
        Withdraw(w, amount) /\ bridges' = [bridges EXCEPT ![w] = @ (+) One(amount)]
    /\ UNCHANGED <<offBook, events, vault, vaultRow, vaultPuts, threat, issued, gone,
                   faults>>

BridgeLanded(w) ==
    /\ \E amount \in DOMAIN bridges[w] :
        /\ bridges' = [bridges EXCEPT ![w] = @ (-) One(amount)]
        /\ gone' = gone + amount
    /\ UNCHANGED <<pending, offBook, events, eventPuts, vault, vaultRow, vaultPuts,
                   threat, issued, faults>>

(* MUTANT of BridgeFailed: the refund sets the balance, with no event.     *)
RefundUnrecorded(w) ==
    /\ Room
    /\ \E amount \in DOMAIN bridges[w] :
        /\ bridges' = [bridges EXCEPT ![w] = @ (-) One(amount)]
        /\ pending' = [pending EXCEPT ![w] = @ + amount]
    /\ UNCHANGED <<offBook, events, eventPuts, vault, vaultRow, vaultPuts, threat,
                   issued, gone, faults>>

(* The transfer throws or is disabled: the credits come back.  It may have *)
(* landed all the same.                                                    *)
BridgeFailed(w) ==
    /\ Room
    /\ \E amount \in DOMAIN bridges[w] :
        /\ bridges' = [bridges EXCEPT ![w] = @ (-) One(amount)]
        /\ AddPendingYield(Only(w, amount))
        /\ \/ UNCHANGED <<gone, faults>>
           \/ Fault("unconfirmed") /\ gone' = gone + amount
    /\ UNCHANGED <<offBook, events, vault, vaultRow, vaultPuts, threat, issued>>

-----------------------------------------------------------------------------
(* The store, crashes and restarts.                                        *)

(* An insert reaches the log, or fails. *)
EventPutDone(w) ==
    /\ \E delta \in DOMAIN eventPuts[w] :
        /\ eventPuts' = [eventPuts EXCEPT ![w] = @ (-) One(delta)]
        /\ \/ events' = [events EXCEPT ![w] = @ + delta] /\ UNCHANGED faults
           \/ Fault("putFailed") /\ UNCHANGED events
    /\ UNCHANGED <<pending, offBook, vault, vaultRow, vaultPuts, bridges, threat,
                   issued, gone>>

(* An upsert takes effect, the oldest first unless one is late, or fails.  *)
VaultPutDone ==
    /\ \E i \in DOMAIN vaultPuts :
        /\ vaultPuts' = RemoveAt(vaultPuts, i)
        /\ \/ i = 1 /\ vaultRow' = vaultPuts[i] /\ UNCHANGED faults
           \/ i > 1 /\ vaultRow' = vaultPuts[i] /\ Fault("lateWrite")
           \/ i = 1 /\ Fault("putFailed") /\ UNCHANGED vaultRow
    /\ UNCHANGED <<pending, offBook, events, eventPuts, vault, bridges, threat,
                   issued, gone>>

Quiet == /\ vaultPuts = <<>>
         /\ \A w \in Wallets : eventPuts[w] = EmptyBag /\ bridges[w] = EmptyBag

(* getAllBalances: wallets whose events sum to something positive. *)
Replayed(w) == IF events[w] > 0 THEN events[w] ELSE 0

(* The process ends, and restorePersistedState rebuilds what the store has.*)
(* What was spent without an event is back.                                *)
RestartRestored ==
    /\ \/ Quiet /\ Fault("restart")
       \/ ~Quiet /\ Fault("crash")
    /\ pending' = [w \in Wallets |-> Replayed(w)]
    /\ vault' = vaultRow
    /\ issued' = issued + Total(offBook)
    /\ offBook' = [w \in Wallets |-> 0]
    /\ eventPuts' = [w \in Wallets |-> EmptyBag]
    /\ bridges' = [w \in Wallets |-> EmptyBag]
    /\ vaultPuts' = <<>>
    /\ threat' = 0
    /\ UNCHANGED <<events, vaultRow, gone>>

(* A restart that cannot read the events, or the vaults: those start at 0. *)
RestartBlind ==
    /\ Quiet
    /\ Fault("loadFailed")
    /\ \/ pending' = [w \in Wallets |-> 0] /\ vault' = vaultRow
       \/ pending' = [w \in Wallets |-> Replayed(w)] /\ vault' = 0
    /\ offBook' = [w \in Wallets |-> 0]
    /\ threat' = 0
    /\ UNCHANGED <<events, eventPuts, vaultRow, vaultPuts, bridges, issued, gone>>

-----------------------------------------------------------------------------
PlayerStep(w) == \/ RaidSteal(w) \/ Claim(w) \/ Deflect(w)
                 \/ BridgeDebit(w) \/ BridgeLanded(w) \/ BridgeFailed(w)

LedgerNext ==
    \/ \E w \in Wallets : PlayerStep(w) \/ EventPutDone(w)
    \/ Discover
    \/ Forfeit
    \/ SpawnMeteor
    \/ Strike
    \/ VaultPutDone
    \/ RestartRestored
    \/ RestartBlind

LedgerSpec == LedgerInit /\ [][LedgerNext]_ledgerVars

-----------------------------------------------------------------------------
(* Correctness.                                                            *)

(* The events of a wallet, written or in flight, add up to its balance and *)
(* what it spent without an event, however bridges, refunds, claims and    *)
(* restarts interleave.  After a crash they may add up to less (a credit   *)
(* is lost), never to more: no crash makes the log promise more than       *)
(* memory does.                                                            *)
BookBalanced ==
    seen \cap {"putFailed", "loadFailed"} = {} =>
        \A w \in Wallets :
            LET book == events[w] + Worth(eventPuts[w])
            IN  /\ book <= pending[w] + offBook[w]
                /\ "crash" \notin seen => book = pending[w] + offBook[w]

(* The credits of each wallet that are under way to the chain.             *)
Bridged == [w \in Wallets |-> Worth(bridges[w])]

(* Credits are neither made nor lost between the wallets, the vault, the   *)
(* bridges under way and the ways out, whatever writes fail, and over      *)
(* orderly restarts if none did: a bridge that fails is refunded once, a   *)
(* steal is debited once, and only discoveries, forfeited bets and spends  *)
(* that a restart undid issue any.                                         *)
Conserved ==
    /\ seen \cap {"crash", "loadFailed", "unconfirmed"} = {}
    /\ "restart" \in seen => seen \cap {"putFailed", "lateWrite"} = {}
    => issued = Total(pending) + vault + gone
                + Total(Bridged)

(* When no upsert is in flight, was overtaken or failed, the vault's row   *)
(* is the vault, so that a restart brings the treasury back (schema.sql).  *)
VaultMirrored ==
    /\ vaultPuts = <<>>
    /\ seen \cap {"lateWrite", "putFailed", "loadFailed"} = {}
    => vaultRow = vault
=============================================================================

------------------------------ MODULE RaidWorld ------------------------------
(***************************************************************************)
(* Players, raids and wagers in the game world: server/game/world.ts with  *)
(* the expedition tracker, the raid engine, the asteroid registry, the     *)
(* cooldowns and the bet pools it composes, and the calls it makes of the  *)
(* escrow outbox.                                                          *)
(*                                                                         *)
(* Each handler of the world runs to its end without another in between,   *)
(* but a raid lives across many of them and its facts are kept in six      *)
(* places: the expedition itself, the raider's index entry and miner       *)
(* state, the target's list of incoming raids, the wager's entry and its   *)
(* pool.  Players join, leave, move their home and disconnect while they   *)
(* raid, and the process may stop at any point, keeping only the stores.   *)
(*                                                                         *)
(* Left out: the arithmetic of power (who wins a raid is a free choice)    *)
(* and of credits and vaults (CreditLedger has them).  Time is the free    *)
(* choice of when a raid is due, a cooldown is over or immunity lifts.     *)
(* On-chain staking is on, so stakes do not change in the world.           *)
(*                                                                         *)
(* A definition marked MUTANT is a plausible bug in the definition that    *)
(* follows it.                                                             *)
(***************************************************************************)
EXTENDS Naturals, Sequences, FiniteSets

CONSTANTS
    Wallets,      \* the players
    Asteroids,    \* the asteroids of the belt
    Raids,        \* expedition ids; their number bounds the raids launched
    Wagers,       \* wager ids, each a deposit the gateway has verified
    Stakers,      \* the wallets with on-chain stake, hence defense power
    Miners,       \* bound: the wallets that join asteroids
    Slow,         \* bound: the wallets whose reads of the store take time
    Elapsing,     \* bound: the cooldowns that run out while we watch
    MaxRestarts,  \* bound on the restarts of the server
    None          \* null and undefined

Cooldown == {"home_station_switch", "expedition_start", "expedition_recovery"}

ASSUME WorldAssumption ==
    /\ Elapsing \subseteq Cooldown
    /\ Stakers \cup Miners \cup Slow \subseteq Wallets
    /\ MaxRestarts \in Nat
    /\ None \notin Wallets \cup Asteroids \cup Raids \cup Wagers

VARIABLES
    authed,      \* authedWallets
    home,        \* homeStationAsteroidId of each wallet
    active,      \* activeAsteroidId of each wallet
    location,    \* the registry's minerLocations, mirrored in distribution
    current,     \* currentExpeditionId of each wallet
    cooling,     \* the cooldowns each wallet is in
    saved,       \* the home station store
    restoring,   \* what each wallet's reads of that store will return
    status,      \* expeditions: "unborn", "active", or "over" (see Finish)
    raider,      \* the attacker of each active expedition
    target,      \* the target of each active expedition
    raidOf,      \* attackerExpeditions
    incoming,    \* incomingRaids of each asteroid
    immune,      \* the asteroids whose immunity window is open
    wagerOf,     \* expeditionWagers
    pool,        \* the bet pool of each wager: "none", "active", "resolved"
    booked,      \* the wallet of each liability told to the outbox
    plans,       \* the settlements handed to the outbox, per wager
    restarts     \* restarts so far

players == <<authed, home, active, location, current, cooling>>
store == <<saved, restoring>>
expeditions == <<status, raider, target, raidOf, incoming, immune>>
wagers == <<wagerOf, pool, booked, plans>>
vars == <<players, store, expeditions, wagers, restarts>>

(* A WagerSettlement: all of it back to the raider, all of it burned, or   *)
(* split with spoils for a set of defenders.                               *)
Plan == [kind : {"return", "burn", "split"}, spoils : SUBSET Wallets]

Active == {r \in Raids : status[r] = "active"}

TypeOK ==
    /\ authed \subseteq Wallets
    /\ home \in [Wallets -> Asteroids \cup {None}]
    /\ active \in [Wallets -> Asteroids \cup {None}]
    /\ location \in [Wallets -> Asteroids \cup {None}]
    /\ current \in [Wallets -> Raids \cup {None}]
    /\ cooling \in [Wallets -> SUBSET Cooldown]
    /\ saved \in [Wallets -> Asteroids \cup {None}]
    /\ restoring \in [Wallets -> SUBSET Asteroids]
    /\ status \in [Raids -> {"unborn", "active", "over"}]
    /\ raider \in [Raids -> Wallets \cup {None}]
    /\ target \in [Raids -> Asteroids \cup {None}]
    /\ raidOf \in [Wallets -> Raids \cup {None}]
    /\ incoming \in [Asteroids -> SUBSET Raids]
    /\ immune \subseteq Asteroids
    /\ wagerOf \in [Raids -> Wagers \cup {None}]
    /\ pool \in [Wagers -> {"none", "active", "resolved"}]
    /\ booked \in [Wagers -> Wallets \cup {None}]
    /\ plans \in [Wagers -> Seq(Plan)]
    /\ restarts \in Nat

Init ==
    /\ authed = {}
    /\ home = [w \in Wallets |-> None]
    /\ active = [w \in Wallets |-> None]
    /\ location = [w \in Wallets |-> None]
    /\ current = [w \in Wallets |-> None]
    /\ cooling = [w \in Wallets |-> {}]
    /\ saved = [w \in Wallets |-> None]
    /\ restoring = [w \in Wallets |-> {}]
    /\ status = [r \in Raids |-> "unborn"]
    /\ raider = [r \in Raids |-> None]
    /\ target = [r \in Raids |-> None]
    /\ raidOf = [w \in Wallets |-> None]
    /\ incoming = [a \in Asteroids |-> {}]
    /\ immune = {}
    /\ wagerOf = [r \in Raids |-> None]
    /\ pool = [x \in Wagers |-> "none"]
    /\ booked = [x \in Wagers |-> None]
    /\ plans = [x \in Wagers |-> <<>>]
    /\ restarts = 0

-----------------------------------------------------------------------------
(* Players.                                                                *)

(* The wallet counts as authenticated before its home station is read.     *)
Connect(w) ==
    /\ authed' = authed \cup {w}
    /\ restoring' = IF w \notin Slow \/ saved[w] = None THEN restoring
                    ELSE [restoring EXCEPT ![w] = @ \cup {saved[w]}]
    /\ home' = IF w \in Slow \/ saved[w] = None THEN home
               ELSE [home EXCEPT ![w] = saved[w]]
    /\ UNCHANGED <<active, location, current, cooling, saved,
                   expeditions, wagers, restarts>>

(* The read returns.  Whatever the player did meanwhile, its value wins.   *)
HomeRestored(w, a) ==
    /\ a \in restoring[w]
    /\ home' = [home EXCEPT ![w] = a]
    /\ restoring' = [restoring EXCEPT ![w] = @ \ {a}]
    /\ UNCHANGED <<authed, active, location, current, cooling, saved,
                   expeditions, wagers, restarts>>

(* A connection of the wallet closes, be it the last one or not.  A raid   *)
(* under way is not touched.                                               *)
Disconnect(w) ==
    /\ authed' = authed \ {w}
    /\ location' = [location EXCEPT ![w] = None]
    /\ active' = [active EXCEPT ![w] = None]
    /\ UNCHANGED <<home, current, cooling, store, expeditions, wagers, restarts>>

JoinAsteroid(w, a) ==
    /\ w \in Miners
    /\ w \in authed
    /\ location' = [location EXCEPT ![w] = a]
    /\ active' = [active EXCEPT ![w] = a]
    /\ UNCHANGED <<authed, home, current, cooling, store, expeditions, wagers,
                   restarts>>

LeaveAsteroid(w) ==
    /\ w \in authed
    /\ location' = [location EXCEPT ![w] = None]
    /\ active' = [active EXCEPT ![w] = None]
    /\ UNCHANGED <<authed, home, current, cooling, store, expeditions, wagers,
                   restarts>>

(* Nothing forbids it during a raid, not even moving to the raid's target. *)
SetHomeStation(w, a) ==
    /\ w \in authed
    /\ "home_station_switch" \notin cooling[w]
    /\ home' = [home EXCEPT ![w] = a]
    /\ saved' = [saved EXCEPT ![w] = a]
    /\ cooling' = [cooling EXCEPT ![w] = @ \cup {"home_station_switch"}]
    /\ UNCHANGED <<authed, active, location, current, restoring, expeditions,
                   wagers, restarts>>

-----------------------------------------------------------------------------
(* Raids.                                                                  *)

(* MUTANT of CanStart: the recovery cooldown is not checked. *)
CanStartTired(w, t) ==
    /\ w \in authed
    /\ home[w] # None
    /\ t # home[w]
    /\ raidOf[w] = None
    /\ "expedition_start" \notin cooling[w]
    /\ t \notin immune

(* canStartExpedition; createExpedition repeats all but the first two.     *)
CanStart(w, t) ==
    /\ w \in authed
    /\ home[w] # None
    /\ t # home[w]
    /\ raidOf[w] = None
    /\ cooling[w] \cap {"expedition_start", "expedition_recovery"} = {}
    /\ t \notin immune

(* createExpedition: the raider counts as active at the target from now on,*)
(* whether it mines somewhere or not.                                      *)
Launch(w, t, r) ==
    /\ status[r] = "unborn"
    /\ status' = [status EXCEPT ![r] = "active"]
    /\ raider' = [raider EXCEPT ![r] = w]
    /\ target' = [target EXCEPT ![r] = t]
    /\ raidOf' = [raidOf EXCEPT ![w] = r]
    /\ incoming' = [incoming EXCEPT ![t] = @ \cup {r}]
    /\ cooling' = [cooling EXCEPT ![w] = @ \cup {"expedition_start"}]
    /\ current' = [current EXCEPT ![w] = r]
    /\ active' = [active EXCEPT ![w] = t]
    /\ UNCHANGED <<authed, home, location, store, immune, restarts>>

(* A raid without a wager. *)
StartExpedition(w, t, r) ==
    /\ CanStart(w, t)
    /\ Launch(w, t, r)
    /\ UNCHANGED wagers

(* A raid with a verified deposit, which becomes a liability at once.  The *)
(* gateway hands over each wager id once.                                  *)
StartWagered(w, t, r, x) ==
    /\ CanStart(w, t)
    /\ booked[x] = None
    /\ Launch(w, t, r)
    /\ pool' = [pool EXCEPT ![x] = "active"]
    /\ wagerOf' = [wagerOf EXCEPT ![r] = x]
    /\ booked' = [booked EXCEPT ![x] = w]
    /\ UNCHANGED plans

(* MUTANT of Finish: the raids stay on the target's list. *)
FinishListed(R) ==
    LET W == {raider[r] : r \in R} IN
    /\ status' = [r \in Raids |-> IF r \in R THEN "over" ELSE status[r]]
    /\ raider' = [r \in Raids |-> IF r \in R THEN None ELSE raider[r]]
    /\ target' = [r \in Raids |-> IF r \in R THEN None ELSE target[r]]
    /\ incoming' = incoming
    /\ raidOf' = [w \in Wallets |-> IF w \in W THEN None ELSE raidOf[w]]
    /\ current' = [w \in Wallets |-> IF w \in W THEN None ELSE current[w]]
    /\ active' = [w \in Wallets |-> IF w \in W THEN home[w] ELSE active[w]]
    /\ cooling' = [w \in Wallets |->
                     cooling[w] \cup IF w \in W THEN {"expedition_recovery"} ELSE {}]
    /\ UNCHANGED <<authed, home, location>>

(* What completeExpedition and leaveExpedition share.  No handler reads an *)
(* expedition that is over, be it kept as completed or failed or deleted.  *)
Finish(R) ==
    LET W == {raider[r] : r \in R} IN
    /\ status' = [r \in Raids |-> IF r \in R THEN "over" ELSE status[r]]
    /\ raider' = [r \in Raids |-> IF r \in R THEN None ELSE raider[r]]
    /\ target' = [r \in Raids |-> IF r \in R THEN None ELSE target[r]]
    /\ incoming' = [a \in Asteroids |-> incoming[a] \ {r \in R : target[r] = a}]
    /\ raidOf' = [w \in Wallets |-> IF w \in W THEN None ELSE raidOf[w]]
    /\ current' = [w \in Wallets |-> IF w \in W THEN None ELSE current[w]]
    /\ active' = [w \in Wallets |-> IF w \in W THEN home[w] ELSE active[w]]
    /\ cooling' = [w \in Wallets |->
                     cooling[w] \cup IF w \in W THEN {"expedition_recovery"} ELSE {}]
    /\ UNCHANGED <<authed, home, location>>

(* The raids of R whose wager resolveRaid of the bet ledger settles; for   *)
(* the others it throws and the entry stays.                               *)
Payable(R) == {r \in R : wagerOf[r] # None /\ pool[wagerOf[r]] = "active"}

(* The raid of R that carries the wager. *)
RaidWith(R, x) == CHOOSE r \in R : wagerOf[r] = x

(* The pools of these raids are resolved, their entries dropped and their  *)
(* plans handed to the outbox.                                             *)
SettleWagers(R, planOf) ==
    /\ wagerOf' = [r \in Raids |-> IF r \in R THEN None ELSE wagerOf[r]]
    /\ pool' = [x \in Wagers |->
                  IF \E r \in R : wagerOf[r] = x THEN "resolved" ELSE pool[x]]
    /\ plans' = [x \in Wagers |->
                   IF \E r \in R : wagerOf[r] = x
                   THEN Append(plans[x], planOf[RaidWith(R, x)])
                   ELSE plans[x]]
    /\ UNCHANGED booked

Return == [kind |-> "return", spoils |-> {}]
Burn == [kind |-> "burn", spoils |-> {}]
Split(W) == [kind |-> "split", spoils |-> W]

(* collectDefenderDefensePower: the stake counts where its owner is active *)
(* or at home.                                                             *)
Defenders(a, onRaid, activeAt) ==
    {w \in Stakers : /\ location[w] = a
                     /\ onRaid[w] = None
                     /\ a \in {activeAt[w], home[w]}}

(* MUTANT of DueAt: one of the raids is resolved, the others wait. *)
FirstDueAt(a) == LET all == {r \in Active : target[r] = a}
                 IN  IF all = {} THEN {} ELSE {CHOOSE r \in all : TRUE}

DueAt(a) == {r \in Active : target[r] = a}

(* The raids on the asteroid end one after the other, some of them won; a  *)
(* lost one grants immunity.                                               *)
ResolveAllRaids(a, won) ==
    /\ Finish(DueAt(a))
    /\ immune' = IF won = DueAt(a) THEN immune ELSE immune \cup {a}

(* A discovery at the asteroid, or one raid on it that has expired, makes  *)
(* the tick resolve all raids on it.  Spoils are weighed when all of them  *)
(* are complete.  Resolving several asteroids in one tick is this step for *)
(* each of them.                                                           *)
ResolveRaids(a) ==
    /\ DueAt(a) # {}
    /\ \E won \in SUBSET DueAt(a) :
         /\ ResolveAllRaids(a, won)
         /\ SettleWagers(Payable(DueAt(a)),
                         [r \in DueAt(a) |->
                            IF r \in won THEN Return
                            ELSE Split(Defenders(a, current', active'))])
    /\ UNCHANGED <<store, restarts>>

(* MUTANT of Forfeit: the wager of an abandoned raid is forgotten. *)
ForgetWager(r) == UNCHANGED wagers

(* forfeitEscrowedWager *)
Forfeit(r) == SettleWagers(Payable({r}), [q \in {r} |-> Burn])

(* The raider recalls the raid and forfeits its wager. *)
LeaveExpedition(w) ==
    /\ w \in authed
    /\ raidOf[w] # None
    /\ Finish({raidOf[w]})
    /\ Forfeit(raidOf[w])
    /\ UNCHANGED <<immune, store, restarts>>

-----------------------------------------------------------------------------
(* Time and restarts.                                                      *)

CooldownOver(w, c) ==
    /\ c \in cooling[w]
    /\ cooling' = [cooling EXCEPT ![w] = @ \ {c}]
    /\ UNCHANGED <<authed, home, active, location, current, store, expeditions,
                   wagers, restarts>>

ImmunityOver(a) ==
    /\ a \in immune
    /\ immune' = immune \ {a}
    /\ UNCHANGED <<players, store, status, raider, target, raidOf, incoming,
                   wagers, restarts>>

(* MUTANT of Orphaned: the boot refunds settled wagers too. *)
EverBooked == {x \in Wagers : booked[x] # None}

(* The liabilities that no plan was handed over for. *)
Orphaned == {x \in Wagers : booked[x] # None /\ plans[x] = <<>>}

(* The process stops and starts again.  The stores survive, and the outbox *)
(* refunds what the lost raids held.                                       *)
Restart ==
    /\ restarts < MaxRestarts
    /\ restarts' = restarts + 1
    /\ authed' = {}
    /\ home' = [w \in Wallets |-> None]
    /\ active' = [w \in Wallets |-> None]
    /\ location' = [w \in Wallets |-> None]
    /\ current' = [w \in Wallets |-> None]
    /\ cooling' = [w \in Wallets |-> {}]
    /\ restoring' = [w \in Wallets |-> {}]
    /\ status' = [r \in Raids |-> IF r \in Active THEN "over" ELSE status[r]]
    /\ raider' = [r \in Raids |-> None]
    /\ target' = [r \in Raids |-> None]
    /\ raidOf' = [w \in Wallets |-> None]
    /\ incoming' = [a \in Asteroids |-> {}]
    /\ immune' = {}
    /\ wagerOf' = [r \in Raids |-> None]
    /\ pool' = [x \in Wagers |-> "none"]
    /\ plans' = [x \in Wagers |-> IF x \in Orphaned THEN Append(plans[x], Return)
                                  ELSE plans[x]]
    /\ UNCHANGED <<saved, booked>>

PlayerStep(w) ==
    \/ Connect(w)
    \/ Disconnect(w)
    \/ LeaveAsteroid(w)
    \/ LeaveExpedition(w)
    \/ \E c \in Elapsing : CooldownOver(w, c)
    \/ \E a \in Asteroids :
         \/ HomeRestored(w, a)
         \/ JoinAsteroid(w, a)
         \/ SetHomeStation(w, a)
         \/ \E r \in Raids :
              \/ StartExpedition(w, a, r)
              \/ \E x \in Wagers : StartWagered(w, a, r, x)

Next ==
    \/ \E w \in Wallets : PlayerStep(w)
    \/ \E a \in Asteroids : ResolveRaids(a) \/ ImmunityOver(a)
    \/ Restart

Spec == Init /\ [][Next]_vars

-----------------------------------------------------------------------------
(* Properties.                                                             *)

(* The expedition, its raider's index entry and miner state, and the       *)
(* target's list agree, whichever handlers created, recalled, resolved or  *)
(* lost the raid: createExpedition, leaveExpedition, completeExpedition    *)
(* each update all of them, in different orders.                           *)
IndexAgreement ==
    /\ current = raidOf
    /\ \A r \in Raids, w \in Wallets :
         raidOf[w] = r <=> r \in Active /\ raider[r] = w
    /\ \A r \in Active : raider[r] \in Wallets
    /\ \A r \in Raids, a \in Asteroids :
         r \in incoming[a] <=> r \in Active /\ target[r] = a

(* An asteroid under immunity has no raid in flight: a lost raid grants it *)
(* in the batch that resolves every raid on the asteroid, and none can be  *)
(* launched until it lifts.                                                *)
ImmuneMeansQuiet == \A a \in immune : incoming[a] = {}

(* Nobody raids while recovering from a raid (expedition_recovery), though *)
(* the cooldown is applied by the tick or a recall and checked at launch.  *)
RestedRaiders ==
    \A w \in Wallets : current[w] # None => "expedition_recovery" \notin cooling[w]

(* A liability the outbox knows of and has no plan for rides on a live     *)
(* raid, with an open pool, so that resolving or recalling the raid        *)
(* settles it; no wager waits for a raid that is over.                     *)
WagerBacked ==
    \A x \in Wagers :
      x \in Orphaned <=> \E r \in Active : wagerOf[r] = x /\ pool[x] = "active"

(* No wager is settled twice, by a raid that resolves, a recall and the    *)
(* refund on boot together.                                                *)
SettledOnce == \A x \in Wagers : Len(plans[x]) <= 1

=============================================================================

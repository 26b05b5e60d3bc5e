----------------------------- MODULE EscrowCustody -----------------------------
(***************************************************************************)
(* The tokens behind the wagers: server/chain/bet-escrow-chain.ts, with    *)
(* the split of a lost wager (server/game/bet-escrow.ts), what the escrow  *)
(* manager counts as liability, and the redeemer's swaps, which are paid   *)
(* from the same account when no escrow key is configured.                 *)
(*                                                                         *)
(* EscrowOutbox follows one wager's legs and their record.  Here all       *)
(* wagers share one account.  A payout reads the balance, asks whether the *)
(* recipient has a token account, and, if it has to pay for one, burns the *)
(* price of that rent from what the balance has above the liability.       *)
(* These are separate awaits: other payouts, deposits and swaps land       *)
(* between them, and the liability counts only the records in memory that  *)
(* are not parked.                                                         *)
(*                                                                         *)
(* Left out: the writes of the records (EscrowOutbox), whole tokens        *)
(* against raw units, and who may sign what.                               *)
(*                                                                         *)
(* A definition marked MUTANT is a plausible bug in the definition that    *)
(* follows it.                                                             *)
(***************************************************************************)
EXTENDS Integers, FiniteSets, Functions

CONSTANTS
    Wagers,        \* wager ids
    Defenders,     \* wallets that may share the spoils of a lost raid
    Powers,        \* bound: the defense powers they may have, by defender
    Amount,        \* the tokens of a wager
    Fee,           \* the fee a deposit pays on top
    Rent,          \* the price in tokens of creating a token account
    DefenderBps,   \* the defenders' share of a lost wager, in parts of Base
    RecirculateBps,\* the share recirculated to the vaults
    Base,          \* the whole: 10000 in the code
    MaxRetries,    \* failed attempts until a record is parked
    MaxRestarts,   \* bound on the number of restarts
    MaxSwaps,      \* bound on the number of redeem swaps built
    Payout,        \* the tokens a redeem swap pays
    Idle           \* no chain call

ASSUME CustodyAssumption ==
    /\ {Fee, MaxRestarts, MaxSwaps, DefenderBps, RecirculateBps} \subseteq Nat
    /\ {Amount, Rent, Base, MaxRetries, Payout} \subseteq Nat \ {0}
    /\ DefenderBps + RecirculateBps <= Base
    /\ Powers \subseteq [Defenders -> Nat]
    /\ Defenders \cap {"return", "recirculate", "burn"} = {}
    /\ IsFiniteSet(Wagers) /\ IsFiniteSet(Defenders)

-----------------------------------------------------------------------------
(* The plan of a settlement: tokens by leg, a payout leg being named by    *)
(* its defender.                                                           *)

Leg == Defenders \cup {"return", "recirculate", "burn"}
Rank(l) == CASE l = "burn" -> 3 [] l = "recirculate" -> 2 [] OTHER -> 1

ReturnPlan == [l \in Leg |-> IF l = "return" THEN Amount ELSE 0]
BurnPlan == [l \in Leg |-> IF l = "burn" THEN Amount ELSE 0]

DefenderPool == (Amount * DefenderBps) \div Base

Share(power, d) ==
    LET whole == SumFunctionOnSet(power, Defenders)
    IN IF whole = 0 THEN 0 ELSE (power[d] * DefenderPool) \div whole

(* MUTANT: the burn is a share of its own, not what the others leave. *)
SplitByShares(power) ==
    [l \in Leg |->
       CASE l \in Defenders    -> Share(power, l)
         [] l = "recirculate"  -> (Amount * RecirculateBps) \div Base
         [] l = "burn" -> (Amount * (Base - DefenderBps - RecirculateBps)) \div Base
         [] OTHER              -> 0]

(* resolveRaid: what the defenders' shares lose to rounding recirculates,  *)
(* the rest is burned.                                                     *)
Split(power) ==
    LET paid == SumFunctionOnSet([d \in Defenders |-> Share(power, d)], Defenders)
        recirculated == (Amount * RecirculateBps) \div Base + DefenderPool - paid
    IN [l \in Leg |->
          CASE l \in Defenders   -> Share(power, l)
            [] l = "recirculate" -> recirculated
            [] l = "burn"        -> Amount - paid - recirculated
            [] OTHER             -> 0]

Plans == {ReturnPlan, BurnPlan} \cup {Split(power) : power \in Powers}

-----------------------------------------------------------------------------
VARIABLES
    dedicated,     \* the escrow has a key of its own
    bal,           \* the tokens of the escrow and of the redeemer treasury
    stage,         \* how far each wager is
    credited,      \* tokens each wager's deposit transaction moved to the escrow
    plan,          \* the settlement plan of each wager
    done,          \* its legs that are done
    retries,       \* failed attempts of each wager
    known,         \* the wagers whose record is in the manager's memory
    running,       \* inFlight: the wagers whose legs are being run
    booting,       \* reconcileOnBoot is at work
    call,          \* the chain call of each wager, or Idle
    pendingRedeem, \* of a connection: a swap, or 0
    built,         \* the number of swaps built
    issuing,       \* swaps whose build has not returned to the gateway
    cosigned,      \* how often each swap was signed by the treasury
    flying,        \* the swaps signed and sent, not yet decided
    out,           \* history: tokens that left the escrow for each wager
    misjudged,     \* history: kinds of payment made on a wrong view
    restarts

wagerVars == <<stage, credited, plan, done, retries, known, running>>
swapVars == <<pendingRedeem, built, issuing, cosigned, flying>>
custodyVars == <<dedicated, bal, wagerVars, booting, call, swapVars, out,
                 misjudged, restarts>>

Stage == {"none", "sent", "active", "settling", "failed", "settled", "stray"}
Purse == {"escrow", "treasury"}
Escrow == IF dedicated THEN "escrow" ELSE "treasury"
Swaps == 1..MaxSwaps

(* A chain call: its leg, the balance it read, the rent it burns on top,   *)
(* and (history) whether tokens left the account since it read.            *)
Call == [pc : {"checked", "sent"}, leg : Leg, read : Nat, burn : {0, Rent},
         late : BOOLEAN]

CustodyTypeOK ==
    /\ dedicated \in BOOLEAN
    /\ bal \in [Purse -> Nat]
    /\ stage \in [Wagers -> Stage]
    /\ credited \in [Wagers -> Nat]
    /\ plan \in [Wagers -> [Leg -> Nat]]
    /\ done \in [Wagers -> SUBSET Leg]
    /\ retries \in [Wagers -> 0..MaxRetries]
    /\ known \subseteq Wagers
    /\ running \subseteq known
    /\ booting \in BOOLEAN
    /\ call \in [Wagers -> Call \cup {Idle}]
    /\ \A w \in Wagers : call[w] # Idle => w \in running
    /\ pendingRedeem \in 0..MaxSwaps
    /\ built \in 0..MaxSwaps
    /\ issuing \subseteq Swaps
    /\ cosigned \in [Swaps -> Nat]
    /\ flying \subseteq Swaps
    /\ out \in [Wagers -> Nat]
    /\ misjudged \subseteq {"late", "hidden", "repeated", "swapped"}
    /\ restarts \in 0..MaxRestarts

CustodyInit ==
    /\ dedicated \in BOOLEAN
    /\ bal = [p \in Purse |-> 0]
    /\ stage = [w \in Wagers |-> "none"]
    /\ credited = [w \in Wagers |-> 0]
    /\ plan = [w \in Wagers |-> [l \in Leg |-> 0]]
    /\ done = [w \in Wagers |-> {}]
    /\ retries = [w \in Wagers |-> 0]
    /\ known = {}
    /\ running = {}
    /\ booting = FALSE
    /\ call = [w \in Wagers |-> Idle]
    /\ pendingRedeem = 0
    /\ built = 0
    /\ issuing = {}
    /\ cosigned = [s \in Swaps |-> 0]
    /\ flying = {}
    /\ out = [w \in Wagers |-> 0]
    /\ misjudged = {}
    /\ restarts = 0

-----------------------------------------------------------------------------
(* What is owed, and what the escrow manager believes to be owed.          *)

LegsOf(w) == {l \in Leg : plan[w][l] > 0}
Todo(w) == LegsOf(w) \ done[w]
NextLegs(w) == {l \in Todo(w) : \A k \in Todo(w) : Rank(l) <= Rank(k)}

OwedTo(w) ==
    CASE stage[w] \in {"sent", "active"}     -> credited[w]
      [] stage[w] \in {"settling", "failed"} -> SumFunctionOnSet(plan[w], Todo(w))
      [] OTHER                               -> 0

Owes == [w \in Wagers |-> OwedTo(w)]
Owed == SumFunctionOnSet(Owes, Wagers)

(* MUTANT: wagers that are being settled count no more. *)
LiabilityOfActive ==
    Amount * Cardinality({w \in known : stage[w] = "active"})

(* outstandingLiability: whole wagers, until their record is gone.         *)
OutstandingLiability ==
    Amount * Cardinality({w \in known : stage[w] \in {"active", "settling"}})

(* The wagers it does not see: deposits not verified yet, parked records,  *)
(* and records the boot has not come to.                                   *)
Hidden ==
    {w \in Wagers : \/ stage[w] \in {"sent", "failed"}
                    \/ stage[w] \in {"active", "settling"} /\ w \notin known}

(* Tokens left the account: balances read before are out of date.          *)
Outdate(calls) ==
    [w \in Wagers |-> IF calls[w] = Idle THEN Idle
                      ELSE [calls[w] EXCEPT !.late = TRUE]]

-----------------------------------------------------------------------------
(* Deposits.                                                               *)

(* A deposit transaction lands, as built or by another amount; the fee     *)
(* goes to the treasury, which without an escrow key is the same account.  *)
Deposit(w, tokens) ==
    /\ stage[w] = "none"
    /\ stage' = [stage EXCEPT ![w] = "sent"]
    /\ credited' = [credited EXCEPT ![w] = tokens]
    /\ bal' = [p \in Purse |-> bal[p] + (IF p = Escrow THEN tokens ELSE 0)
                                      + (IF p = "treasury" THEN Fee ELSE 0)]
    /\ UNCHANGED <<dedicated, plan, done, retries, known, running, booting,
                   call, swapVars, out, misjudged, restarts>>

(* MUTANT: any credit at all will do. *)
AnyCredit(w) == credited[w] > 0

(* verifyDeposit: the credit is exactly the wager.                         *)
VerifyDeposit(w) == credited[w] = Amount

(* The submit handler books the verified deposit with the raid's launch;   *)
(* a raid that cannot launch is refunded instead.                          *)
Book(w) ==
    /\ ~booting
    /\ stage[w] = "sent"
    /\ VerifyDeposit(w)
    /\ known' = known \cup {w}
    /\ \/ /\ stage' = [stage EXCEPT ![w] = "active"]
          /\ UNCHANGED <<plan, running>>
       \/ /\ stage' = [stage EXCEPT ![w] = "settling"]
          /\ plan' = [plan EXCEPT ![w] = ReturnPlan]
          /\ running' = running \cup {w}
    /\ UNCHANGED <<dedicated, bal, credited, done, retries, booting, call,
                   swapVars, out, misjudged, restarts>>

(* A deposit that is not verified is never booked.                         *)
Refuse(w) ==
    /\ stage[w] = "sent"
    /\ ~VerifyDeposit(w)
    /\ stage' = [stage EXCEPT ![w] = "stray"]
    /\ UNCHANGED <<dedicated, bal, credited, plan, done, retries, known,
                   running, booting, call, swapVars, out, misjudged, restarts>>

-----------------------------------------------------------------------------
(* Settlement.                                                             *)

(* The raid is over: returned, split, or forfeited to the burn.            *)
Resolve(w, p) ==
    /\ ~booting
    /\ stage[w] = "active"
    /\ stage' = [stage EXCEPT ![w] = "settling"]
    /\ plan' = [plan EXCEPT ![w] = p]
    /\ running' = running \cup {w}
    /\ UNCHANGED <<dedicated, bal, credited, done, retries, known, booting,
                   call, swapVars, out, misjudged, restarts>>

(* The retry sweep.                                                        *)
Sweep(w) ==
    /\ ~booting
    /\ w \in known \ running
    /\ stage[w] = "settling"
    /\ running' = running \cup {w}
    /\ UNCHANGED <<dedicated, bal, stage, credited, plan, done, retries, known,
                   booting, call, swapVars, out, misjudged, restarts>>

(* A leg is done; after the last one the record is dropped.                *)
LegDone(w, l) ==
    /\ done' = [done EXCEPT ![w] = @ \cup {l}]
    /\ IF Todo(w) = {l}
       THEN /\ stage' = [stage EXCEPT ![w] = "settled"]
            /\ known' = known \ {w}
            /\ running' = running \ {w}
       ELSE UNCHANGED <<stage, known, running>>
    /\ UNCHANGED <<credited, plan, retries>>

(* A leg's call threw: the run ends, and at maxRetries the record parks.   *)
LegFailed(w) ==
    /\ retries' = [retries EXCEPT ![w] = @ + 1]
    /\ stage' = IF retries[w] + 1 >= MaxRetries
                THEN [stage EXCEPT ![w] = "failed"] ELSE stage
    /\ running' = running \ {w}
    /\ UNCHANGED <<credited, plan, done, known>>

(* Without an escrow key the recirculated tokens are where they belong.    *)
RecirculateToSelf(w) ==
    /\ w \in running /\ call[w] = Idle
    /\ ~dedicated
    /\ "recirculate" \in NextLegs(w)
    /\ LegDone(w, "recirculate")
    /\ UNCHANGED <<dedicated, bal, booting, call, swapVars, out, misjudged,
                   restarts>>

(* transferFromEscrow and burnWager begin by reading the balance.          *)
ReadBalance(w, l) ==
    /\ w \in running /\ call[w] = Idle
    /\ l \in NextLegs(w)
    /\ dedicated \/ l # "recirculate"
    /\ IF bal[Escrow] >= plan[w][l]
       THEN /\ call' = [call EXCEPT ![w] =
                 [pc |-> "checked", leg |-> l, read |-> bal[Escrow],
                  burn |-> 0, late |-> FALSE]]
            /\ UNCHANGED wagerVars
       ELSE LegFailed(w) /\ UNCHANGED call
    /\ UNCHANGED <<dedicated, bal, booting, swapVars, out, misjudged, restarts>>

(* MUTANT: the balance must cover the rent, whatever is owed. *)
AffordableFromBalance(c, tokens) == c.read >= tokens + Rent

(* The rent burn comes from the surplus over the liability, counted now    *)
(* against the balance read before.                                        *)
Affordable(c, tokens) ==
    /\ c.read - OutstandingLiability >= Rent
    /\ c.read >= tokens + Rent

(* The transaction is put together.  Whether the recipient has a token     *)
(* account and whether prices are known is up to others; the treasury's    *)
(* own account exists.                                                     *)
Compose(w) ==
    LET c == call[w] IN
    /\ c # Idle /\ c.pc = "checked"
    /\ \E create \in BOOLEAN :
         LET burns == /\ create
                      /\ c.leg \notin {"recirculate", "burn"}
                      /\ Affordable(c, plan[w][c.leg])
         IN /\ call' = [call EXCEPT ![w].pc = "sent",
                                    ![w].burn = IF burns THEN Rent ELSE 0]
            /\ misjudged' = misjudged \cup
                 (IF burns /\ Hidden # {} THEN {"hidden"} ELSE {})
    /\ UNCHANGED <<dedicated, bal, wagerVars, booting, swapVars, out, restarts>>

(* The transaction takes effect, payout and burn together.                 *)
Transact(w) ==
    LET c == call[w]
        tokens == plan[w][c.leg] IN
    /\ c # Idle /\ c.pc = "sent"
    /\ bal[Escrow] >= tokens + c.burn
    /\ bal' = [p \in Purse |->
                 bal[p] - (IF p = Escrow THEN tokens + c.burn ELSE 0)
                        + (IF p = "treasury" /\ c.leg = "recirculate"
                           THEN tokens ELSE 0)]
    /\ out' = [out EXCEPT ![w] = @ + tokens]
    /\ call' = [Outdate(call) EXCEPT ![w] = Idle]

Lands(w) ==
    LET c == call[w] IN
    /\ Transact(w)
    /\ LegDone(w, c.leg)
    /\ misjudged' = misjudged \cup
         (IF c.burn > 0 /\ c.late THEN {"late"} ELSE {})
    /\ UNCHANGED <<dedicated, booting, swapVars, restarts>>

(* It takes effect, but its confirmation is not seen.                      *)
LandsUnseen(w) ==
    /\ Transact(w)
    /\ LegFailed(w)
    /\ misjudged' = misjudged \cup {"repeated"}
    /\ UNCHANGED <<dedicated, booting, swapVars, restarts>>

(* The call throws and nothing moved.                                      *)
Rejected(w) ==
    /\ call[w] # Idle
    /\ call' = [call EXCEPT ![w] = Idle]
    /\ LegFailed(w)
    /\ UNCHANGED <<dedicated, bal, booting, swapVars, out, misjudged, restarts>>

-----------------------------------------------------------------------------
(* Redeem swaps, from the treasury.                                        *)

(* buildRedeemSwap: the treasury can pay.  The check counts for the moment *)
(* only, and builds of one connection may overlap.                         *)
BuildRedeemSwap ==
    /\ ~booting
    /\ built < MaxSwaps
    /\ bal["treasury"] >= Payout
    /\ built' = built + 1
    /\ issuing' = issuing \cup {built + 1}
    /\ UNCHANGED <<dedicated, bal, wagerVars, booting, call, pendingRedeem,
                   cosigned, flying, out, misjudged, restarts>>

(* handleBuildRedeem caches what it got, over what it had issued before.   *)
Issue(s) ==
    /\ s \in issuing
    /\ issuing' = issuing \ {s}
    /\ pendingRedeem' = s
    /\ UNCHANGED <<dedicated, bal, wagerVars, booting, call, built, cosigned,
                   flying, out, misjudged, restarts>>

(* The treasury signs what the wallet signed of the issued swap, unless it *)
(* expired or is not the one issued.                                       *)
CoSign(signed) ==
    \/ /\ signed = pendingRedeem
       /\ cosigned' = [cosigned EXCEPT ![signed] = @ + 1]
       /\ flying' = flying \cup {signed}
    \/ UNCHANGED <<cosigned, flying>>

(* MUTANT: the issued swap is cleared by a new one only. *)
SubmitKeeping(signed) ==
    /\ pendingRedeem # 0
    /\ CoSign(signed)
    /\ UNCHANGED <<dedicated, bal, wagerVars, booting, call, pendingRedeem, built,
                   issuing, out, misjudged, restarts>>

(* handleSubmitRedeemSwap: the issued swap is used up before the await.    *)
SubmitRedeemSwap(signed) ==
    /\ pendingRedeem # 0
    /\ pendingRedeem' = 0
    /\ CoSign(signed)
    /\ UNCHANGED <<dedicated, bal, wagerVars, booting, call, built, issuing,
                   out, misjudged, restarts>>

(* A swap takes effect whenever the treasury's balance covers it.          *)
SwapLands(s) ==
    /\ s \in flying
    /\ bal["treasury"] >= Payout
    /\ flying' = flying \ {s}
    /\ bal' = [bal EXCEPT !["treasury"] = @ - Payout]
    /\ call' = IF dedicated THEN call ELSE Outdate(call)
    /\ misjudged' = misjudged \cup
         (IF ~dedicated /\ bal["treasury"] - Payout < Owed
          THEN {"swapped"} ELSE {})
    /\ UNCHANGED <<dedicated, wagerVars, booting, pendingRedeem, built, issuing,
                   cosigned, out, restarts>>

SwapFails(s) ==
    /\ s \in flying
    /\ flying' = flying \ {s}
    /\ UNCHANGED <<dedicated, bal, wagerVars, booting, call, pendingRedeem, built,
                   issuing, cosigned, out, misjudged, restarts>>

-----------------------------------------------------------------------------
(* Restarts: rows survive, what is in memory or in flight does not.  A     *)
(* call whose transaction landed all the same is LandsUnseen before this.  *)
Restart ==
    /\ restarts < MaxRestarts
    /\ restarts' = restarts + 1
    /\ booting' = TRUE
    /\ known' = {}
    /\ running' = {}
    /\ call' = [w \in Wagers |-> Idle]
    /\ stage' = [w \in Wagers |-> IF stage[w] = "sent" THEN "stray"
                                  ELSE stage[w]]
    /\ pendingRedeem' = 0
    /\ issuing' = {}
    /\ UNCHANGED <<dedicated, bal, credited, plan, done, retries, built,
                   cosigned, flying, out, misjudged>>

(* reconcileOnBoot takes the rows one after another: an orphaned wager is  *)
(* refunded, a settlement goes on, a parked record is only loaded.         *)
Reconcile(w) ==
    /\ booting
    /\ running = {}
    /\ w \notin known
    /\ stage[w] \in {"active", "settling", "failed"}
    /\ known' = known \cup {w}
    /\ IF stage[w] = "failed" THEN UNCHANGED <<stage, plan, retries, running>>
       ELSE /\ running' = {w}
            /\ stage' = [stage EXCEPT ![w] = "settling"]
            /\ IF stage[w] = "active"
               THEN /\ plan' = [plan EXCEPT ![w] = ReturnPlan]
                    /\ retries' = [retries EXCEPT ![w] = 0]
               ELSE UNCHANGED <<plan, retries>>
    /\ UNCHANGED <<dedicated, bal, credited, done, booting, call, swapVars,
                   out, misjudged, restarts>>

Booted ==
    /\ booting
    /\ running = {}
    /\ \A w \in Wagers :
         stage[w] \in {"active", "settling", "failed"} => w \in known
    /\ booting' = FALSE
    /\ UNCHANGED <<dedicated, bal, wagerVars, call, swapVars, out, misjudged,
                   restarts>>

-----------------------------------------------------------------------------
CustodyNext ==
    \/ \E w \in Wagers :
         \/ \E tokens \in {Amount, Amount - 1} : Deposit(w, tokens)
         \/ Book(w)
         \/ Refuse(w)
         \/ \E p \in Plans : Resolve(w, p)
         \/ Sweep(w)
         \/ RecirculateToSelf(w)
         \/ \E l \in Leg : ReadBalance(w, l)
         \/ Compose(w)
         \/ Lands(w)
         \/ LandsUnseen(w)
         \/ Rejected(w)
         \/ Reconcile(w)
    \/ BuildRedeemSwap
    \/ \E s \in Swaps :
         \/ Issue(s)
         \/ SubmitRedeemSwap(s)
         \/ SwapLands(s)
         \/ SwapFails(s)
    \/ Restart
    \/ Booted

CustodySpec == CustodyInit /\ [][CustodyNext]_custodyVars

-----------------------------------------------------------------------------
(* The escrow holds what it owes, through every interleaving of payouts,   *)
(* rent burns, swaps and restarts, until tokens leave on a wrong view: a   *)
(* burn decided while deposits or parked records were not counted          *)
(* ("hidden") or on a balance read before another payment ("late"), a leg  *)
(* paid without its confirmation being seen ("repeated"), or a swap paid   *)
(* from the shared account beyond its surplus ("swapped").                 *)
Solvent == misjudged = {} => bal[Escrow] >= Owed

(* What a settled wager took out of the escrow is the wager, whatever      *)
(* rounding the split does and however often its settlement is resumed;    *)
(* in a shared account the recirculated part stays in.                     *)
SettledExactly ==
    \A w \in Wagers :
      stage[w] = "settled" /\ "repeated" \notin misjudged =>
        out[w] = Amount - (IF dedicated THEN 0 ELSE plan[w]["recirculate"])

(* The treasury signs a swap it issued at most once, however builds,       *)
(* submits, restarts and expiries overlap.                                 *)
RedeemOnce == \A s \in Swaps : cosigned[s] <= 1

(* The rent burn is "strictly from surplus: never burn into the balance    *)
(* backing other outstanding wagers" (bet-escrow-chain.ts): as long as     *)
(* nothing was paid twice or swapped away, the wagers that are counted as  *)
(* outstanding are backed.  A payout while another deposit awaits its      *)
(* verification refutes it, and so do two payouts at a time.               *)
OutstandingBacked ==
    LET counted == {w \in known : stage[w] \in {"active", "settling"}}
    IN misjudged \cap {"repeated", "swapped"} = {} =>
         bal[Escrow] >= SumFunctionOnSet(Owes, counted)
=============================================================================

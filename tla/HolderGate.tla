------------------------------ MODULE HolderGate ------------------------------
(***************************************************************************)
(* Who is let into the club: the check of a wallet's $ASTROID by            *)
(* chain/holder.ts (balance, cache), chain/prewarm.ts (how long it has been *)
(* held) and verification/holder-tracker.ts (the verdict), asked for by the *)
(* gateway for the page's holder check.                                     *)
(*                                                                          *)
(* One wallet: the checks of two share nothing.  A check is a request that  *)
(* is suspended at each read of the chain while tokens move, another check  *)
(* runs or the required balance follows the price.                          *)
(*                                                                          *)
(* Time is kept as ages, cut off where nothing depends on them any more.    *)
(* Left out: the comp list and the chain switched off (both let everybody   *)
(* in), the second endpoint a balance is read from, the texts.              *)
(*                                                                          *)
(* A definition marked MUTANT is a plausible bug in the definition that     *)
(* follows it.                                                              *)
(***************************************************************************)
EXTENDS Integers, Sequences, Functions, FiniteSetsExt

CONSTANTS
    Checks,          \* the checks that may run at a time
    Thresholds,      \* the balances that may be required: floor and pegs
    Wealth,          \* bound: most tokens the wallet ever has
    MaxTransfers,    \* bound: transfers of the wallet
    CacheTtl,        \* cacheTtlMs of the balance cache
    EstimateTtl,     \* cacheTtlMs of the estimator
    MinHold,         \* minHoldMs
    MinObservations, \* minConsecutiveObservations
    MaxLookback,     \* maxLookback of the estimator
    Oldest,          \* the age from which ages are not told apart
    None             \* null and undefined

ASSUME GateAssumption ==
    /\ Thresholds \subseteq Nat /\ Thresholds # {}
    /\ {Wealth, MaxTransfers, CacheTtl, EstimateTtl, MinHold} \subseteq Nat
    /\ {MinObservations, MaxLookback} \subseteq Nat \ {0}
    /\ Oldest \in Nat /\ Oldest >= MinHold + CacheTtl
    /\ None \notin Nat /\ None \notin [age : Nat, count : Nat]

VARIABLES
    liquid,      \* tokens in the wallet
    staked,      \* tokens in the Quarry
    log,         \* the wallet's transfers, the latest last
    required,    \* resolveRequiredBalance
    cache,       \* the cached balance
    history,     \* the tracker's record: since when, how often observed
    estimated,   \* the estimator's cached result
    check        \* of each request: where it is suspended, what it has read

chain == <<liquid, staked, log, required>>
server == <<cache, history, estimated>>
vars == <<chain, server, check>>

Ages == 0 .. Oldest
Total == liquid + staked

Resting == [stage |-> "rest", age |-> 0, balance |-> 0, seen |-> 0, whole |-> TRUE,
            required |-> 0, asked |-> 0]

Records == [age : 0 .. MinHold, count : 1 .. MinObservations]
Transfers == [age : Ages, delta : {-1, 1}, stake : BOOLEAN]
Requests == [stage : {"rest", "liquid", "staked", "read", "cached", "estimate"},
             age : Ages, balance : Nat, seen : 0 .. MaxTransfers, whole : BOOLEAN,
             required : Thresholds \cup {0}, asked : Ages]

TypeOK ==
    /\ liquid \in 0 .. Wealth /\ staked \in 0 .. Wealth
    /\ log \in Seq(Transfers)
    /\ required \in Thresholds
    /\ cache = None \/ cache \in [balance : Nat, age : 0 .. CacheTtl, seen : 0 .. MaxTransfers,
                                  whole : BOOLEAN]
    /\ history = None \/ history \in Records
    /\ estimated = None \/ estimated \in [start : Ages \cup {None}, age : 0 .. EstimateTtl]
    /\ check \in [Checks -> Requests]

Init ==
    /\ liquid \in 0 .. Wealth /\ staked = 0 /\ log = <<>>
    /\ required \in Thresholds
    /\ cache = None /\ history = None /\ estimated = None
    /\ check = [q \in Checks |-> Resting]

-----------------------------------------------------------------------------
(* The chain.                                                               *)

\* Tokens come, go, or move between wallet and Quarry, which the transfer
\* history of the wallet does not tell from coming and going.
Transfer(delta, intoStake) ==
    /\ Len(log) < MaxTransfers
    /\ liquid + delta \in 0 .. Wealth
    /\ liquid' = liquid + delta
    /\ staked' = IF intoStake THEN staked - delta ELSE staked
    /\ staked' \in 0 .. Wealth
    /\ liquid' + staked' <= Wealth
    /\ log' = Append(log, [age |-> 0, delta |-> delta, stake |-> intoStake])
    /\ UNCHANGED <<required, server, check>>

\* The price moved, or its oracle has no quote yet: the peg or the floor.
Quote ==
    /\ required' \in Thresholds \ {required}
    /\ UNCHANGED <<liquid, staked, log, server, check>>

Older(age, limit) == IF age < limit THEN age + 1 ELSE age

\* An entry of a cache that expires at this tick.
Expires(entry, ttl) == entry # None /\ entry.age + 1 >= ttl

Tick ==
    /\ log' = [i \in DOMAIN log |-> [log[i] EXCEPT !.age = Older(@, Oldest)]]
    /\ cache' = IF cache = None \/ Expires(cache, CacheTtl) THEN None
                ELSE [cache EXCEPT !.age = @ + 1]
    /\ history' = IF history = None THEN None ELSE [history EXCEPT !.age = Older(@, MinHold)]
    /\ estimated' = IF estimated = None \/ Expires(estimated, EstimateTtl) THEN None
                    ELSE [estimated EXCEPT !.age = @ + 1,
                              !.start = IF @ = None THEN None ELSE Older(@, Oldest)]
    /\ check' = [q \in Checks |-> IF check[q].stage = "rest" THEN check[q]
                    ELSE [check[q] EXCEPT !.age = Older(@, Oldest),
                              !.asked = IF check[q].stage = "estimate" THEN Older(@, Oldest)
                                        ELSE @]]
    /\ UNCHANGED <<liquid, staked, required>>

-----------------------------------------------------------------------------
(* The balance: liquid tokens, then the staked ones, or both from the cache. *)

\* MUTANT: the cached balance is good for the time to live from when it came.
CachedFromArrival(q) == [balance |-> check[q].balance, age |-> 0, seen |-> check[q].seen,
                         whole |-> check[q].whole]

\* The entry a balance makes: its time counts from before the chain was read.
Cached(q) == [balance |-> check[q].balance, age |-> check[q].age, seen |-> check[q].seen,
              whole |-> check[q].whole]

ReadLiquid(q) ==
    /\ check[q].stage = "liquid"
    /\ check' = [check EXCEPT ![q] = [@ EXCEPT !.stage = "staked", !.balance = liquid,
                                               !.seen = Len(log)]]
    /\ UNCHANGED <<chain, server>>

\* The balance cannot be read: the check fails and nothing is recorded.
ReadFails(q) ==
    /\ check[q].stage = "liquid"
    /\ check' = [check EXCEPT ![q] = Resting]
    /\ UNCHANGED <<chain, server>>

\* No token went into or out of the stake since the liquid ones were read.
StakeStill(q) == \A i \in check[q].seen + 1 .. Len(log) : ~log[i].stake

\* A stake that cannot be read counts as none.
ReadStaked(q) ==
    /\ check[q].stage = "staked"
    /\ \/ check' = [check EXCEPT ![q] = [@ EXCEPT !.stage = "read",
                                                  !.balance = check[q].balance + staked,
                                                  !.whole = StakeStill(q)]]
       \/ check' = [check EXCEPT ![q] = [@ EXCEPT !.stage = "read", !.whole = FALSE]]
    /\ UNCHANGED <<chain, server>>

-----------------------------------------------------------------------------
(* The verdict.                                                             *)

\* The tracker's record after one more observation of enough tokens.
Observed(record) ==
    IF record = None THEN [age |-> 0, count |-> 1]
    ELSE [record EXCEPT !.count = IF @ < MinObservations THEN @ + 1 ELSE @]

Eligible(record) ==
    record # None /\ (record.age >= MinHold \/ record.count >= MinObservations)

\* recordObservation, with the record as a pre-warm left it.  Too few tokens
\* forget the record.
RecordObservation(q, record, needed) ==
    /\ history' = IF check[q].balance >= needed THEN Observed(record) ELSE None
    /\ check' = [check EXCEPT ![q] = Resting]

\* MUTANT: the chain knows better since when the wallet has held.
SeededOver(start) ==
    IF start = None THEN history
    ELSE [age |-> IF start < MinHold THEN start ELSE MinHold, count |-> 1]

\* seedHoldStart: never over a record that is there.
Seeded(start) ==
    IF history # None \/ start = None THEN history
    ELSE [age |-> IF start < MinHold THEN start ELSE MinHold, count |-> 1]

\* The balance is there.  One that was read is cached, over an entry that may be
\* younger; one that suffices for the first time is shown to the estimator,
\* which may know the answer already.
Judge(q) ==
    /\ check[q].stage \in {"read", "cached"}
    /\ cache' = IF check[q].stage = "cached" THEN cache
                ELSE IF Cached(q).age < CacheTtl THEN Cached(q) ELSE None
    /\ IF check[q].balance < required \/ history # None
       THEN RecordObservation(q, history, required)
       ELSE IF estimated # None
       THEN RecordObservation(q, Seeded(estimated.start), required)
       ELSE /\ check' = [check EXCEPT ![q] = [@ EXCEPT !.stage = "estimate",
                                                       !.required = required]]
            /\ UNCHANGED <<history>>
    /\ UNCHANGED <<chain, estimated>>

-----------------------------------------------------------------------------
(* The estimator.                                                           *)

\* What each transfer added to the balance.
Deltas == [i \in DOMAIN log |-> log[i].delta]

\* The balance before transfer i, walking back from a balance of now.
Before(balance, i) == balance - SumFunctionOnSet(Deltas, i .. Len(log))

\* MUTANT: the balance after a transfer decides, not the one before it.
DipsAfter(balance, needed, window) == {i \in window : Before(balance, i + 1) < needed}

\* The transfers before which the balance did not suffice.
Dips(balance, needed, window) == {i \in window : Before(balance, i) < needed}

\* The age of the transfer since which the balance has sufficed, as far as the
\* last transfers tell; if they show no dip, the age of the oldest of them.
HoldStart(balance, needed) ==
    LET window == Max({1, Len(log) - MaxLookback + 1}) .. Len(log)
        dips == Dips(balance, needed, window)
    IN IF window = {} THEN None
       ELSE IF dips # {} THEN log[Max(dips)].age ELSE log[Min(window)].age

\* The transfers are fetched and the hold start seeded, unless another check
\* recorded the wallet meanwhile; the result is cached as of when it was asked
\* for.  If they cannot be fetched the observation counts as a first one.
Estimate(q) ==
    LET start == HoldStart(check[q].balance, check[q].required)
    IN /\ check[q].stage = "estimate"
       /\ \/ /\ estimated' = IF check[q].asked < EstimateTtl
                             THEN [start |-> start, age |-> check[q].asked] ELSE None
             /\ RecordObservation(q, Seeded(start), check[q].required)
          \/ /\ UNCHANGED estimated
             /\ RecordObservation(q, history, check[q].required)
       /\ UNCHANGED <<chain, cache>>

-----------------------------------------------------------------------------
(* Who asks.                                                                *)

\* getHolderBalance begins; a cached balance still passes through an await.
Ask(q) ==
    /\ check[q].stage = "rest"
    /\ check' = [check EXCEPT ![q] =
          IF cache = None THEN [Resting EXCEPT !.stage = "liquid"]
          ELSE [Resting EXCEPT !.stage = "cached", !.balance = cache.balance,
                               !.seen = cache.seen, !.whole = cache.whole]]
    /\ UNCHANGED <<chain, server>>

\* Nothing of this is stored.
Restart ==
    /\ cache' = None /\ history' = None /\ estimated' = None
    /\ check' = [q \in Checks |-> Resting]
    /\ UNCHANGED chain

Next ==
    \/ \E delta \in {-1, 1}, intoStake \in BOOLEAN : Transfer(delta, intoStake)
    \/ Quote \/ Tick \/ Restart
    \/ \E q \in Checks : \/ Ask(q) \/ ReadLiquid(q) \/ ReadFails(q) \/ ReadStaked(q)
                         \/ Judge(q) \/ Estimate(q)

Spec == Init /\ [][Next]_vars

-----------------------------------------------------------------------------
(* Properties.                                                              *)

\* What each transfer added to the wallet and its stake together.
Gains == [i \in DOMAIN log |-> IF log[i].stake THEN 0 ELSE log[i].delta]

\* What the wallet had, in and out of the stake, before transfer i.
TotalBefore(i) == Total - SumFunctionOnSet(Gains, i .. Len(log))

\* What it had at some time in the last `age` ticks.
TotalsSince(age) == {Total} \cup {TotalBefore(i) : i \in {j \in DOMAIN log : log[j].age <= age}}

HeldSince(age, needed) ==
    /\ Total >= needed
    /\ \A i \in DOMAIN log : log[i].age < age => TotalBefore(i) >= needed

\* The balance a check is judged by, and the step that judges it.
Needed(q) == IF check[q].stage = "estimate" THEN check[q].required ELSE required
Answered(q) ==
    check[q].stage \in {"read", "cached", "estimate"} /\ check'[q].stage = "rest" /\ ~Restart

\* Whatever checks overlap and whatever the cache holds, a verdict fits what the
\* wallet had at some moment between one time to live of the cache before it was
\* asked for and now, unless the stake could not be read or moved while the two
\* halves of the balance were read.
VerdictFits ==
    [][\A q \in Checks : Answered(q) /\ check[q].whole =>
         \E total \in TotalsSince(check[q].age + CacheTtl) :
            (total < Needed(q)) <=> (history' = None)]_vars

\* A pre-warm does not overstate how long the wallet has held what is required,
\* given that its tokens only came and went: moves into and out of the stake,
\* which the estimator takes for outgoing and incoming tokens, and transfers
\* after the balance was read put it wrong.  (A cached estimate is not covered:
\* it outlives the loss of the tokens.)
SeedsTrue ==
    [][\A q \in Checks :
         LET c == check[q]
             known == c.whole /\ c.seen = Len(log) /\ \A i \in DOMAIN log : ~log[i].stake
         IN c.stage = "estimate" /\ Answered(q) /\ known /\ history = None
              => HeldSince(history'.age, c.required)]_vars

\* A wallet that counts as eligible stays so, however many checks overlap and
\* whatever they learn of the chain, until a check finds too few tokens or the
\* server restarts.
StaysEligible ==
    [][Eligible(history) /\ ~Eligible(history') =>
         Restart \/ \E q \in Checks : Answered(q) /\ check[q].balance < Needed(q)]_vars
=============================================================================

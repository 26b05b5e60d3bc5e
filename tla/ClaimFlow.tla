------------------------------- MODULE ClaimFlow -------------------------------
(***************************************************************************)
(* How a player's in-game credits become $ASTROID in the wallet: the page's *)
(* claim and redeem buttons (arena/page.tsx), the client's steps behind them *)
(* (staking-client.ts), the requests they send (session.ts), the gateway's   *)
(* handlers (gateway.ts) and the redeemer's transactions (redeemer.ts).      *)
(*                                                                          *)
(* One wallet, several tabs, each with its connection.  A transfer is a      *)
(* server handler with its transaction: a bridge turns credits into Creds,   *)
(* a swap turns Creds into $ASTROID (the redeem rate is 1).  The client      *)
(* hears of it only while it waits; the handler goes on after the client's   *)
(* timeout, and the transaction after the handler's.                         *)
(*                                                                          *)
(* A swap also needs the treasury's $ASTROID and, for a first one, the rent  *)
(* of an account: what others spend can take either away after the check.    *)
(*                                                                          *)
(* Left out: how much the treasury has, and what the other causes of a       *)
(* failure are (a bridge or a build may fail at any time), the texts, the    *)
(* wallet's own payments, the flag of a claim loop.                          *)
(*                                                                          *)
(* A definition marked MUTANT is a plausible bug in the definition that      *)
(* follows it.                                                              *)
(***************************************************************************)
EXTENDS Naturals, FiniteSets, Functions

CONSTANTS
    Tabs,        \* pages of the wallet's owner
    Transfers,   \* bound: bridges and swaps ever started
    MaxEarned,   \* bound: credits ever earned
    HourlyCap,   \* BRIDGE_MAX_PER_HOUR
    None

ASSUME ClaimAssumption ==
    /\ MaxEarned \in Nat /\ HourlyCap \in Nat
    /\ None \notin Transfers
    /\ IsFiniteSet(Transfers)

VARIABLES
    earned,      \* history: credits the game paid
    credits,     \* the wallet's pending yield
    creds,       \* Astroid Creds in the wallet
    astroid,     \* $ASTROID received
    account,     \* the wallet's Creds account: missing, asked for, there
    covered,     \* the treasury's $ASTROID and the rent cover the wallet's swaps
    attempts,    \* bridges asked for in the last hour
    flow,        \* of each tab: what it does, with which amount and transfers
    transfer,    \* of each transfer: its amount, its transaction, its handler
    report,      \* of each tab: what it told the player last, about which transfers
    overtaken    \* history: swaps in flight together with another one of the wallet,
                 \* or when the treasury or the rent ran short

tokens == <<credits, creds, astroid>>
vars == <<earned, tokens, account, covered, attempts, flow, transfer, report, overtaken>>

Begins(step, amount, claim) ==
    [at |-> step, amount |-> amount, claim |-> claim, bridge |-> None, swap |-> None]
Resting == Begins("idle", 0, FALSE)
Silent == [says |-> "nothing", bridge |-> None, swap |-> None, early |-> FALSE]
Unused == [amount |-> 0, tx |-> "none", handler |-> "none", swap |-> FALSE]
Fresh == {o \in Transfers : transfer[o] = Unused}
SwapsInFlight == {o \in Transfers : transfer[o].swap /\ transfer[o].tx = "sent"}

Steps == {"idle", "account", "setup", "waiting", "bridge", "build", "sign", "submit"}
Words == {"nothing", "untouched", "failed", "unheard", "bridgedOnly", "claimed"}
Flows == [at : Steps, amount : 0 .. MaxEarned, claim : BOOLEAN,
          bridge : Transfers \cup {None}, swap : Transfers \cup {None}]
Reports == [says : Words, bridge : Transfers \cup {None}, swap : Transfers \cup {None},
            early : BOOLEAN]
States == [amount : 0 .. MaxEarned, swap : BOOLEAN,
           tx : {"none", "sent", "landed", "failed", "dead"},
           handler : {"none", "waiting", "ok", "threw"}]

TypeOK ==
    /\ {earned, credits, creds, astroid} \subseteq Nat
    /\ account \in {"missing", "asked", "there"}
    /\ attempts \in 0 .. HourlyCap
    /\ flow \in [Tabs -> Flows]
    /\ transfer \in [Transfers -> States]
    /\ report \in [Tabs -> Reports]
    /\ covered \in BOOLEAN
    /\ overtaken \subseteq Transfers

Init ==
    /\ earned = 0 /\ credits = 0 /\ creds = 0 /\ astroid = 0
    /\ account = "missing"
    /\ attempts = 0
    /\ flow = [t \in Tabs |-> Resting]
    /\ transfer = [o \in Transfers |-> Unused]
    /\ report = [t \in Tabs |-> Silent]
    /\ covered = TRUE
    /\ overtaken = {}

-----------------------------------------------------------------------------
(* The client.                                                              *)

\* A button is pressed: what was said before is cleared.
Starts(t, what) ==
    /\ flow[t].at = "idle"
    /\ flow' = [flow EXCEPT ![t] = what]
    /\ report' = [report EXCEPT ![t] = Silent]

\* The swap that t began may land yet, or did.
Undecided(t) == flow[t].swap # None /\ transfer[flow[t].swap].tx \notin {"failed", "dead"}

\* The flow of t ends with a word to the player, early while that is undecided.
Ends(t, says) ==
    /\ report' = [report EXCEPT ![t] = [says |-> says, bridge |-> flow[t].bridge,
                                        swap |-> flow[t].swap, early |-> Undecided(t)]]
    /\ flow' = [flow EXCEPT ![t] = Resting]

GoesOn(t, step) == flow' = [flow EXCEPT ![t].at = step] /\ UNCHANGED report

\* What a failed redeem step is called: runClaimToWallet catches it and says
\* what became of the bridge, the redeem buttons report the error.
RedeemFails(t, says) == Ends(t, IF flow[t].claim THEN "bridgedOnly" ELSE says)

\* The tab that waits for o's reply, if one still does.
Awaiting(o) ==
    {t \in Tabs : \/ flow[t].at = "bridge" /\ flow[t].bridge = o
                  \/ flow[t].at = "submit" /\ flow[t].swap = o}

\* A reply that no tab waits for changes nothing.
Unheard(o) == Awaiting(o) = {} /\ UNCHANGED <<flow, report>>

\* The page's claim button; the page's view of the credits may be out of date.
Claim(t) ==
    /\ \E amount \in 1 .. MaxEarned :
         Starts(t, Begins("account", amount, TRUE))
    /\ UNCHANGED <<earned, tokens, account, covered, attempts, transfer, overtaken>>

\* Finish claim, Redeem Creds: the second half only.
Redeem(t) ==
    /\ \E amount \in 1 .. MaxEarned :
         Starts(t, Begins("build", amount, FALSE))
    /\ UNCHANGED <<earned, tokens, account, covered, attempts, transfer, overtaken>>

\* ensureCredsAta, asked before the bridge and while the account is awaited.
SeesAccount(t) ==
    /\ flow[t].at \in {"account", "waiting"}
    /\ IF account = "there" THEN GoesOn(t, "bridge")
       ELSE flow[t].at = "account" /\ GoesOn(t, "setup")
    /\ UNCHANGED <<earned, tokens, account, covered, attempts, transfer, overtaken>>

SignsSetup(t) ==
    /\ flow[t].at = "setup"
    /\ GoesOn(t, "waiting")
    /\ account' = IF account = "missing" THEN "asked" ELSE account
    /\ UNCHANGED <<earned, tokens, covered, attempts, transfer, overtaken>>

AccountCreated ==
    /\ account = "asked"
    /\ account' = "there"
    /\ UNCHANGED <<earned, tokens, covered, attempts, flow, transfer, report, overtaken>>

\* The wallet refuses the setup or the swap, or the wait for the account is over.
WalletRefuses(t) ==
    /\ \/ flow[t].at \in {"setup", "waiting"} /\ Ends(t, "untouched")
       \/ flow[t].at = "sign" /\ RedeemFails(t, "failed")
    /\ UNCHANGED <<earned, tokens, account, covered, attempts, transfer, overtaken>>

\* MUTANT: a bridge that does not answer in time is taken to have worked, as a
\* stake is.
GivesUpHopeful(t) ==
    /\ \/ flow[t].at = "bridge" /\ Ends(t, "bridgedOnly")
       \/ flow[t].at = "account" /\ Ends(t, "unheard")
       \/ flow[t].at \in {"build", "submit"} /\ RedeemFails(t, "unheard")
    /\ UNCHANGED <<earned, tokens, account, covered, attempts, transfer, overtaken>>

\* The reply did not come in ten seconds, or the socket closed.
GivesUp(t) ==
    /\ \/ flow[t].at \in {"account", "bridge"} /\ Ends(t, "unheard")
       \/ flow[t].at \in {"build", "submit"} /\ RedeemFails(t, "unheard")
    /\ UNCHANGED <<earned, tokens, account, covered, attempts, transfer, overtaken>>

-----------------------------------------------------------------------------
(* The bridge: credits to Creds.                                            *)

\* A bridge_iou request arrives: the hourly cap, then the debit, then the wait.
BridgeIou(t) ==
    /\ flow[t].at = "bridge" /\ flow[t].bridge = None
    /\ attempts' = IF attempts < HourlyCap THEN attempts + 1 ELSE attempts
    /\ IF attempts = HourlyCap \/ credits < flow[t].amount
       THEN Ends(t, "failed") /\ UNCHANGED <<credits, transfer>>
       ELSE \E o \in Fresh :
              /\ credits' = credits - flow[t].amount
              /\ transfer' = [transfer EXCEPT ![o] =
                    [Unused EXCEPT !.amount = flow[t].amount, !.handler = "waiting"]]
              /\ flow' = [flow EXCEPT ![t].bridge = o]
              /\ UNCHANGED report
    /\ UNCHANGED <<earned, creds, astroid, account, covered, overtaken>>

\* The redeemer finds the account and sends the transfer.
BridgeSends(o) ==
    /\ transfer[o].handler = "waiting" /\ ~transfer[o].swap /\ transfer[o].tx = "none"
    /\ account = "there"
    /\ transfer' = [transfer EXCEPT ![o].tx = "sent"]
    /\ UNCHANGED <<earned, tokens, account, covered, attempts, flow, report, overtaken>>

BridgeConfirmed(o) ==
    /\ transfer[o].handler = "waiting" /\ ~transfer[o].swap /\ transfer[o].tx = "landed"
    /\ transfer' = [transfer EXCEPT ![o].handler = "ok"]
    /\ Unheard(o) \/ \E t \in Awaiting(o) : GoesOn(t, "build")
    /\ UNCHANGED <<earned, tokens, account, covered, attempts, overtaken>>

\* A transfer whose handler throws; one that was not sent never will be.
GivenUp(s) == [s EXCEPT !.handler = "threw", !.tx = IF s.tx = "none" THEN "dead" ELSE s.tx]

\* MUTANT: only a transfer that was sent is refunded.
BridgeThrowsKeeping(o) ==
    /\ transfer[o].handler = "waiting" /\ ~transfer[o].swap
    /\ transfer' = [transfer EXCEPT ![o] = GivenUp(transfer[o])]
    /\ credits' = IF transfer[o].tx = "none" THEN credits ELSE credits + transfer[o].amount
    /\ Unheard(o) \/ \E t \in Awaiting(o) : Ends(t, "failed")
    /\ UNCHANGED <<earned, creds, astroid, account, covered, attempts, overtaken>>

\* The transfer is refused before it is sent, expires, or is not confirmed in
\* time: the debit is refunded and the player told that the bridge failed.
BridgeThrows(o) ==
    /\ transfer[o].handler = "waiting" /\ ~transfer[o].swap
    /\ transfer' = [transfer EXCEPT ![o] = GivenUp(transfer[o])]
    /\ credits' = credits + transfer[o].amount
    /\ Unheard(o) \/ \E t \in Awaiting(o) : Ends(t, "failed")
    /\ UNCHANGED <<earned, creds, astroid, account, covered, attempts, overtaken>>

-----------------------------------------------------------------------------
(* The swap: Creds to $ASTROID.                                             *)

\* Both legs of a swap of this amount would succeed now.
Payable(amount) == creds >= amount /\ covered

\* build_redeem_tx: the Creds are there now and so is the treasury's $ASTROID,
\* as far as this read saw, or it fails; of the rent nobody asks.  The connection
\* may submit then (that it submits one swap once is EscrowCustody's concern).
BuildRedeem(t) ==
    /\ flow[t].at = "build"
    /\ \/ creds >= flow[t].amount /\ GoesOn(t, "sign")
       \/ RedeemFails(t, "failed")
    /\ UNCHANGED <<earned, tokens, account, covered, attempts, transfer, overtaken>>

SignsSwap(t) ==
    /\ flow[t].at = "sign"
    /\ GoesOn(t, "submit")
    /\ UNCHANGED <<earned, tokens, account, covered, attempts, transfer, overtaken>>

\* submit_redeem_swap: the connection's swap may have expired; sending it first
\* runs it against the state of now.
SubmitRedeemSwap(t) ==
    /\ flow[t].at = "submit" /\ flow[t].swap = None
    /\ \/ /\ Payable(flow[t].amount)
          /\ \E o \in Fresh :
               /\ transfer' = [transfer EXCEPT ![o] = [amount |-> flow[t].amount, tx |-> "sent",
                                                       handler |-> "waiting", swap |-> TRUE]]
               /\ flow' = [flow EXCEPT ![t].swap = o]
               /\ overtaken' = IF SwapsInFlight = {} THEN overtaken
                               ELSE overtaken \cup SwapsInFlight \cup {o}
          /\ UNCHANGED report
       \/ RedeemFails(t, "failed") /\ UNCHANGED <<transfer, overtaken>>
    /\ UNCHANGED <<earned, tokens, account, covered, attempts>>

\* confirmTransaction returned: the transaction was processed, which the
\* handler takes for success without a look at its error.
SwapConfirmed(o) ==
    /\ transfer[o].handler = "waiting" /\ transfer[o].swap
    /\ transfer[o].tx \in {"landed", "failed"}
    /\ transfer' = [transfer EXCEPT ![o].handler = "ok"]
    /\ Unheard(o) \/ \E t \in Awaiting(o) : Ends(t, "claimed")
    /\ UNCHANGED <<earned, tokens, account, covered, attempts, overtaken>>

SwapThrows(o) ==
    /\ transfer[o].handler = "waiting" /\ transfer[o].swap
    /\ transfer' = [transfer EXCEPT ![o].handler = "threw"]
    /\ Unheard(o) \/ \E t \in Awaiting(o) : RedeemFails(t, "failed")
    /\ UNCHANGED <<earned, tokens, account, covered, attempts, overtaken>>

-----------------------------------------------------------------------------
(* The chain, the game, the clock.                                          *)

\* A swap's two legs move together, or the transaction fails on chain: for want
\* of the wallet's Creds, of the treasury's $ASTROID or of the rent.
Lands(o) ==
    /\ transfer[o].tx = "sent"
    /\ IF ~transfer[o].swap
       THEN /\ creds' = creds + transfer[o].amount
            /\ transfer' = [transfer EXCEPT ![o].tx = "landed"]
            /\ UNCHANGED astroid
       ELSE IF Payable(transfer[o].amount)
       THEN /\ creds' = creds - transfer[o].amount
            /\ astroid' = astroid + transfer[o].amount
            /\ transfer' = [transfer EXCEPT ![o].tx = "landed"]
       ELSE /\ transfer' = [transfer EXCEPT ![o].tx = "failed"]
            /\ UNCHANGED <<creds, astroid>>
    /\ UNCHANGED <<earned, credits, account, covered, attempts, flow, report, overtaken>>

\* Its blockhash expires first.
Dies(o) ==
    /\ transfer[o].tx = "sent"
    /\ transfer' = [transfer EXCEPT ![o].tx = "dead"]
    /\ UNCHANGED <<earned, tokens, account, covered, attempts, flow, report, overtaken>>

\* Another wallet's swap or a payout spends the treasury's $ASTROID, or the
\* wallet's owner spends what would pay the rent, under a swap (with none in
\* flight it shows in a build or a submit that fails, as each may anyway) ...
Drain ==
    /\ covered /\ SwapsInFlight # {}
    /\ covered' = FALSE
    /\ overtaken' = overtaken \cup SwapsInFlight
    /\ UNCHANGED <<earned, tokens, account, attempts, flow, transfer, report>>

\* ... and either is there again.
TopUp ==
    /\ ~covered
    /\ covered' = TRUE
    /\ UNCHANGED <<earned, tokens, account, attempts, flow, transfer, report, overtaken>>

Earn ==
    /\ earned < MaxEarned
    /\ earned' = earned + 1
    /\ credits' = credits + 1
    /\ UNCHANGED <<creds, astroid, account, covered, attempts, flow, transfer, report, overtaken>>

HourPasses ==
    /\ attempts > 0
    /\ attempts' = 0
    /\ UNCHANGED <<earned, tokens, account, covered, flow, transfer, report, overtaken>>

Next ==
    \/ AccountCreated \/ Earn \/ HourPasses \/ Drain \/ TopUp
    \/ \E t \in Tabs :
         \/ Claim(t) \/ Redeem(t) \/ SeesAccount(t) \/ SignsSetup(t) \/ WalletRefuses(t)
         \/ GivesUp(t) \/ BridgeIou(t) \/ BuildRedeem(t) \/ SignsSwap(t) \/ SubmitRedeemSwap(t)
    \/ \E o \in Transfers :
         \/ BridgeSends(o) \/ BridgeConfirmed(o) \/ BridgeThrows(o)
         \/ SwapConfirmed(o) \/ SwapThrows(o) \/ Lands(o) \/ Dies(o)

Spec == Init /\ [][Next]_vars

-----------------------------------------------------------------------------
(* Properties.                                                              *)

\* What transfer s carries: credits that left the game and are not yet Creds;
\* and what it pays twice, refunded and landed.
Carried(s) == IF ~s.swap /\ s.handler # "threw" /\ s.tx # "landed" THEN s.amount ELSE 0
Doubled(s) == IF ~s.swap /\ s.handler = "threw" /\ s.tx = "landed" THEN s.amount ELSE 0

\* What the page tells the player, whatever overlaps, times out or lands late:
\* "nothing was moved" is said only if no bridge was begun; "bridged" only if
\* the Creds arrived; a failed bridge has been refunded; "claimed" only if the
\* $ASTROID arrived, unless the swap was in flight with another one of the
\* wallet or when the treasury or the rent ran short, and failed on chain; and
\* after a word that the redeem failed the rewards stay Creds, unless the page
\* spoke while its swap could still land, or had landed and nobody had said so.
HonestReport ==
    \A t \in Tabs :
      LET r == report[t]
      IN /\ r.says = "untouched" => r.bridge = None
         /\ r.says = "bridgedOnly" => r.bridge # None /\ transfer[r.bridge].tx = "landed"
         /\ r.says = "failed" /\ r.bridge # None => transfer[r.bridge].handler = "threw"
         /\ r.says = "claimed" => transfer[r.swap].tx = "landed" \/ r.swap \in overtaken
         /\ r.says # "claimed" /\ r.swap # None /\ ~r.early => transfer[r.swap].tx # "landed"

\* What the game paid is somewhere: in the game, in the wallet as Creds or as
\* $ASTROID, or on its way, or lost to a transaction that never landed under a
\* handler that has not noticed yet; and it is there once, except for bridges
\* that landed although their handler gave up and refunded them.
NothingLost ==
    LET out == SumFunctionOnSet([o \in Transfers |-> Carried(transfer[o])], Transfers)
        twice == SumFunctionOnSet([o \in Transfers |-> Doubled(transfer[o])], Transfers)
    IN credits + creds + astroid + out = earned + twice
=============================================================================

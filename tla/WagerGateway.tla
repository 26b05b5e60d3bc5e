---------------------------- MODULE WagerGateway ----------------------------
(***************************************************************************)
(* How a raid wager gets from a player's wallet into the escrow outbox:    *)
(* handleBuildWagerDeposit and handleSubmitWagerRaid of                    *)
(* server/net/gateway.ts with the world's canStartExpedition and           *)
(* startExpedition.                                                        *)
(*                                                                         *)
(* A player asks for a deposit transaction, signs and sends it to the      *)
(* chain, and submits its signature; the gateway caches one wager per      *)
(* connection in between, and awaits the chain in both handlers.  A wager  *)
(* leaves this module when it is handed to the outbox (module EscrowOutbox *)
(* relies on each id being handed over at most once).                      *)
(*                                                                         *)
(* A definition marked MUTANT is a plausible bug in the definition that    *)
(* follows it.                                                             *)
(***************************************************************************)
EXTENDS Naturals, FiniteSets

CONSTANTS
    Conns,     \* websocket connections
    Wallets,   \* players
    WalletOf,  \* the wallet that authenticates on a connection
    Wagers,    \* wager ids, each minted once (uuidv4)
    Faults,    \* the kinds of fault this instance allows
    None       \* no cached wager; a raid without a wager

(* "doubleBuild": a build request arrives while another is awaited.        *)
(* "expired": a cached wager passes its time to live.  "unseen": a         *)
(* verification throws, is refused or says false.  "disconnect": a         *)
(* connection closes.  "crash": the process restarts.                      *)
FaultKinds == {"doubleBuild", "expired", "unseen", "disconnect", "crash"}

ASSUME GatewayAssumption ==
    /\ WalletOf \in [Conns -> Wallets]
    /\ None \notin Wagers
    /\ Faults \subseteq FaultKinds

VARIABLES
    open,       \* authenticated connections
    authed,     \* world.authedWallets
    minted,     \* wager ids in use
    building,   \* builds awaiting the chain, per connection
    pending,    \* meta.pendingWager of a connection
    expired,    \* connections whose pendingWager has expired
    offered,    \* deposits whose transaction reached its player
    deposited,  \* deposits that landed in the escrow account
    verifying,  \* wagers being verified, per connection
    handed,     \* how often a wager was handed to the outbox
    raids,      \* a wallet's live raids, each with its wager or None
    blocked,    \* wallets on a cooldown, or whose target is immune
    seen        \* the kinds of fault that have happened (history)

vars == <<open, authed, minted, building, pending, expired, offered, deposited,
          verifying, handed, raids, blocked, seen>>

TypeOK ==
    /\ open \subseteq Conns
    /\ authed \subseteq Wallets
    /\ minted \subseteq Wagers
    /\ building \in [Conns -> SUBSET Wagers]
    /\ pending \in [Conns -> Wagers \cup {None}]
    /\ expired \subseteq Conns
    /\ offered \subseteq Wagers
    /\ deposited \subseteq Wagers
    /\ verifying \in [Conns -> SUBSET Wagers]
    /\ handed \in [Wagers -> Nat]
    /\ raids \in [Wallets -> SUBSET (Wagers \cup {None})]
    /\ blocked \subseteq Wallets
    /\ seen \subseteq FaultKinds

Init ==
    /\ open = {}
    /\ authed = {}
    /\ minted = {}
    /\ building = [c \in Conns |-> {}]
    /\ pending = [c \in Conns |-> None]
    /\ expired = {}
    /\ offered = {}
    /\ deposited = {}
    /\ verifying = [c \in Conns |-> {}]
    /\ handed = [w \in Wagers |-> 0]
    /\ raids = [a \in Wallets |-> {}]
    /\ blocked = {}
    /\ seen = {}

Fault(kind) == kind \in Faults /\ seen' = seen \cup {kind}

-----------------------------------------------------------------------------
(* Connections.  The tables of the world are keyed by wallet, the cached   *)
(* wager by connection.                                                    *)

(* auth, on a new connection or again on an open one. *)
Connect(c) ==
    /\ open' = open \cup {c}
    /\ authed' = authed \cup {WalletOf[c]}
    /\ UNCHANGED <<minted, building, pending, expired, offered, deposited,
                   verifying, handed, raids, blocked, seen>>

(* The wallet is signed out even if it has another connection.  The cached *)
(* wager and the replies to builds under way are lost; verifications go on.*)
Disconnect(c) ==
    /\ c \in open
    /\ Fault("disconnect")
    /\ open' = open \ {c}
    /\ authed' = authed \ {WalletOf[c]}
    /\ building' = [building EXCEPT ![c] = {}]
    /\ pending' = [pending EXCEPT ![c] = None]
    /\ expired' = expired \ {c}
    /\ UNCHANGED <<minted, offered, deposited, verifying, handed, raids, blocked>>

-----------------------------------------------------------------------------
(* Building a deposit.                                                     *)

(* MUTANT of CanStart: a wallet may raid twice.                            *)
CanStartAgain(a) == a \in authed /\ a \notin blocked

(* canStartExpedition. *)
CanStart(a) == a \in authed /\ raids[a] = {} /\ a \notin blocked

HasPending(c) == pending[c] # None /\ c \notin expired

(* handleBuildWagerDeposit up to its await: only a cached wager keeps a    *)
(* second build out, not one that is being built.                          *)
Build(c, w) ==
    /\ c \in open
    /\ w \notin minted
    /\ ~HasPending(c)
    /\ CanStart(WalletOf[c])
    /\ IF building[c] # {} THEN Fault("doubleBuild") ELSE UNCHANGED seen
    /\ minted' = minted \cup {w}
    /\ building' = [building EXCEPT ![c] = @ \cup {w}]
    /\ UNCHANGED <<open, authed, pending, expired, offered, deposited, verifying,
                   handed, raids, blocked>>

(* The transaction is built: cache the wager and reply with it. *)
Built(c, w) ==
    /\ w \in building[c]
    /\ building' = [building EXCEPT ![c] = @ \ {w}]
    /\ pending' = [pending EXCEPT ![c] = w]
    /\ expired' = expired \ {c}
    /\ offered' = offered \cup {w}
    /\ UNCHANGED <<open, authed, minted, deposited, verifying, handed, raids,
                   blocked, seen>>

(* The builder throws or is disabled. *)
BuildFailed(c, w) ==
    /\ w \in building[c]
    /\ building' = [building EXCEPT ![c] = @ \ {w}]
    /\ UNCHANGED <<open, authed, minted, pending, expired, offered, deposited,
                   verifying, handed, raids, blocked, seen>>

Expire(c) ==
    /\ HasPending(c)
    /\ Fault("expired")
    /\ expired' = expired \cup {c}
    /\ UNCHANGED <<open, authed, minted, building, pending, offered, deposited,
                   verifying, handed, raids, blocked>>

(* The player signs the transaction it was offered, and it lands, before   *)
(* or after the signature is submitted.                                    *)
Deposit(w) ==
    /\ w \in offered \ deposited
    /\ deposited' = deposited \cup {w}
    /\ UNCHANGED <<open, authed, minted, building, pending, expired, offered,
                   verifying, handed, raids, blocked, seen>>

-----------------------------------------------------------------------------
(* Submitting a deposit.                                                   *)

(* MUTANT of Submit: nobody waits for a deposit that has yet to land.      *)
SubmitImpatient(c) ==
    /\ c \in open
    /\ HasPending(c)
    /\ pending' = [pending EXCEPT ![c] = None]
    /\ verifying' = [verifying EXCEPT ![c] = @ \cup ({pending[c]} \cap deposited)]
    /\ UNCHANGED <<open, authed, minted, building, expired, offered, deposited,
                   handed, raids, blocked, seen>>

(* MUTANT of Submit: the cached wager is left for the answer to clear.     *)
SubmitKept(c) ==
    /\ c \in open
    /\ HasPending(c)
    /\ verifying' = [verifying EXCEPT ![c] = @ \cup {pending[c]}]
    /\ UNCHANGED <<open, authed, minted, building, pending, expired, offered,
                   deposited, handed, raids, blocked, seen>>

(* handleSubmitWagerRaid up to its await: the cached wager is single-use,  *)
(* and of no use once expired.                                             *)
Submit(c) ==
    /\ c \in open
    /\ pending[c] # None
    /\ pending' = [pending EXCEPT ![c] = None]
    /\ expired' = expired \ {c}
    /\ verifying' = IF HasPending(c)
                    THEN [verifying EXCEPT ![c] = @ \cup {pending[c]}]
                    ELSE verifying
    /\ UNCHANGED <<open, authed, minted, building, offered, deposited, handed,
                   raids, blocked, seen>>

(* MUTANT of Verified: a raid that cannot start is only reported.          *)
VerifiedNoRefund(c, w) ==
    /\ w \in verifying[c] \cap deposited
    /\ verifying' = [verifying EXCEPT ![c] = @ \ {w}]
    /\ LET a == WalletOf[c]
       IN  IF CanStart(a)
           THEN /\ raids' = [raids EXCEPT ![a] = @ \cup {w}]
                /\ blocked' = blocked \cup {a}
                /\ handed' = [handed EXCEPT ![w] = @ + 1]
           ELSE UNCHANGED <<raids, blocked, handed>>
    /\ UNCHANGED <<open, authed, minted, building, pending, expired, offered,
                   deposited, seen>>

(* MUTANT of Verified: any confirmed transaction will do.                  *)
VerifiedBlindly(c, w) ==
    /\ w \in verifying[c]
    /\ verifying' = [verifying EXCEPT ![c] = @ \ {w}]
    /\ handed' = [handed EXCEPT ![w] = @ + 1]
    /\ UNCHANGED <<open, authed, minted, building, pending, expired, offered,
                   deposited, raids, blocked, seen>>

(* The deposit is verified.  The raid starts and the wager is booked, or   *)
(* it can no longer start and the deposit is refunded: either way the      *)
(* outbox has it.  (A pool of the same id cannot exist, so booking never   *)
(* takes startExpedition's catch.)                                         *)
Verified(c, w) ==
    /\ w \in verifying[c] \cap deposited
    /\ verifying' = [verifying EXCEPT ![c] = @ \ {w}]
    /\ handed' = [handed EXCEPT ![w] = @ + 1]
    /\ LET a == WalletOf[c]
       IN  IF CanStart(a)
           THEN /\ raids' = [raids EXCEPT ![a] = @ \cup {w}]
                /\ blocked' = blocked \cup {a}
           ELSE UNCHANGED <<raids, blocked>>
    /\ UNCHANGED <<open, authed, minted, building, pending, expired, offered,
                   deposited, seen>>

(* The deposit cannot be verified, or not yet: the request is rejected. *)
Unverified(c, w) ==
    /\ w \in verifying[c]
    /\ Fault("unseen")
    /\ verifying' = [verifying EXCEPT ![c] = @ \ {w}]
    /\ UNCHANGED <<open, authed, minted, building, pending, expired, offered,
                   deposited, handed, raids, blocked>>

-----------------------------------------------------------------------------
(* The rest of the game, as far as a wager can notice.                     *)

(* start_expedition without an escrowed wager. *)
PlainRaid(a) ==
    /\ CanStart(a)
    /\ raids' = [raids EXCEPT ![a] = {None}]
    /\ blocked' = blocked \cup {a}
    /\ UNCHANGED <<open, authed, minted, building, pending, expired, offered,
                   deposited, verifying, handed, seen>>

(* The raid resolves, or is abandoned, which puts the wallet on a cooldown.*)
RaidEnds(a) ==
    /\ raids[a] # {}
    /\ raids' = [raids EXCEPT ![a] = {}]
    /\ \/ UNCHANGED blocked
       \/ blocked' = blocked \cup {a}
    /\ UNCHANGED <<open, authed, minted, building, pending, expired, offered,
                   deposited, verifying, handed, seen>>

(* Cooldowns run out; the target's immunity comes and goes. *)
Toggle(a) ==
    /\ blocked' = IF a \in blocked THEN blocked \ {a} ELSE blocked \cup {a}
    /\ UNCHANGED <<open, authed, minted, building, pending, expired, offered,
                   deposited, verifying, handed, raids, seen>>

(* The process restarts: only the chain and the outbox remember anything.  *)
Crash ==
    /\ Fault("crash")
    /\ open' = {}
    /\ authed' = {}
    /\ building' = [c \in Conns |-> {}]
    /\ pending' = [c \in Conns |-> None]
    /\ expired' = {}
    /\ verifying' = [c \in Conns |-> {}]
    /\ raids' = [a \in Wallets |-> {}]
    /\ blocked' = {}
    /\ UNCHANGED <<minted, offered, deposited, handed>>

-----------------------------------------------------------------------------
ConnStep(c) ==
    \/ Connect(c) \/ Disconnect(c) \/ Expire(c) \/ Submit(c)
    \/ \E w \in Wagers : \/ Build(c, w) \/ Built(c, w) \/ BuildFailed(c, w)
                         \/ Verified(c, w) \/ Unverified(c, w)

WorldStep(a) == PlainRaid(a) \/ RaidEnds(a) \/ Toggle(a)

Next ==
    \/ \E c \in Conns : ConnStep(c)
    \/ \E w \in Wagers : Deposit(w)
    \/ \E a \in Wallets : WorldStep(a)
    \/ Crash

Spec == Init /\ [][Next]_vars

(* The client submits the wager it was offered, and confirmTransaction     *)
(* returns.                                                                *)
Fairness == \A c \in Conns : /\ WF_vars(Submit(c))
                             /\ \A w \in Wagers : WF_vars(Verified(c, w))

FairSpec == Spec /\ Fairness

-----------------------------------------------------------------------------
(* Correctness.                                                            *)

(* A wager is handed to the outbox at most once, and only if its deposit   *)
(* is in the escrow account: however requests, connections and restarts    *)
(* interleave, no deposit is booked or refunded twice, none is invented.   *)
HandedOnce == \A w \in Wagers : /\ handed[w] <= 1
                                /\ handed[w] > 0 => w \in deposited

(* A wallet is on at most one raid, although every check that says so is   *)
(* repeated after an await, for several connections of the wallet.         *)
OneRaid == \A a \in Wallets : \A r, s \in raids[a] : r = s

(* The gateway can still come to the deposit, or has handed it over. *)
Reachable(w) ==
    \/ handed[w] > 0
    \/ \E c \in Conns : (pending[c] = w /\ c \notin expired) \/ w \in verifying[c]

(* Without a fault no deposit is out of the gateway's reach: a raid that   *)
(* cannot start after a verified deposit never keeps the player's tokens.  *)
StrandedOnlyByFault == seen = {} => \A w \in deposited : Reachable(w)

(* Without a fault a landed deposit ends as a raid or as a refund. *)
DepositSettles ==
    \A w \in Wagers : w \in deposited ~> handed[w] > 0 \/ seen # {}
=============================================================================

---------------------------- MODULE ClientSession ----------------------------
(***************************************************************************)
(* The browser's one session with the gateway: the module-level store of   *)
(* shell/lib/use-session.ts, the sockets of shell/lib/session.ts, the pages *)
(* that connect, sign out or reconnect, and the holder check with which    *)
(* app/page.tsx decides who sees the inside of the club.                   *)
(*                                                                         *)
(* A link is a socket from the start of its handshake to its close event.  *)
(* What one callback or continuation does is one step: the handshake       *)
(* (open, nonce, wallet signature, auth) lies between two of them, so      *)
(* clicks, timers, drops and other handshakes come in between.  React runs *)
(* the effects of a render before the next update, so the holder page's    *)
(* reaction to a changed session belongs to the step that publishes it.    *)
(*                                                                         *)
(* Left out: the length of the backoff (a timer fires at any time), the    *)
(* content of snapshots and errors, the requests of the game (ClaimFlow).  *)
(* Links are used again once closed.                                       *)
(*                                                                         *)
(* A definition marked MUTANT is a plausible bug in the definition that    *)
(* follows it.                                                             *)
(***************************************************************************)
EXTENDS Naturals, FiniteSets

CONSTANTS
    Wallets,    \* wallets the player may sign in with
    Links,      \* bound: sockets alive at once
    MaxClicks,  \* bound: sign-in clicks that wait for a wallet at once
    NoLink        \* no link, no wallet

ASSUME SessionAssumption ==
    /\ MaxClicks \in Nat
    /\ NoLink \notin Wallets /\ NoLink \notin Links

VARIABLES
    phase,      \* of each link: unused, handshake, open, closing
    wallet,     \* of each link: the wallet it signs in
    auto,       \* links opened by the reconnect timer
    current,    \* store.session
    state,      \* store.state
    timer,      \* reconnectTimer is set
    signedOut,  \* intentionalClose
    last,       \* lastConnect's wallet
    clicks,     \* sign-in clicks that wait for the wallet
    holder,     \* the holder page: its verdict and the wallet it is about
    checks,     \* verify_holder requests whose answer it still listens to
    overlap     \* history: a link was opened beside another one

links == <<phase, wallet, auto>>
store == <<current, state>>
page == <<holder, checks>>
sessionVars == <<links, store, timer, signedOut, last, clicks, page, overlap>>

Phases == {"unused", "handshake", "open", "closing"}
Free == {i \in Links : phase[i] = "unused"}
Handshakes == {i \in Links : phase[i] = "handshake"}
Alive == {i \in Links : phase[i] \in {"open", "closing"}}

Verdicts == [status : {"idle", "pending", "eligible", "not_eligible", "error"},
             of : Wallets \cup {NoLink}, again : BOOLEAN]
Requests == [link : Links, again : BOOLEAN]

SessionTypeOK ==
    /\ phase \in [Links -> Phases]
    /\ wallet \in [Links -> Wallets \cup {NoLink}]
    /\ auto \subseteq Links
    /\ current \in Links \cup {NoLink}
    /\ state \in {"idle", "connecting", "connected", "error"}
    /\ timer \in BOOLEAN /\ signedOut \in BOOLEAN /\ overlap \in BOOLEAN
    /\ last \in Wallets \cup {NoLink}
    /\ clicks \in 0 .. MaxClicks
    /\ holder \in Verdicts
    /\ checks \subseteq Requests

Unchecked(status) == [status |-> status, of |-> NoLink, again |-> FALSE]

SessionInit ==
    /\ phase = [i \in Links |-> "unused"]
    /\ wallet = [i \in Links |-> NoLink]
    /\ auto = {}
    /\ current = NoLink
    /\ state = "idle"
    /\ timer = FALSE
    /\ signedOut = FALSE
    /\ last = NoLink
    /\ clicks = 0
    /\ holder = Unchecked("idle")
    /\ checks = {}
    /\ overlap = FALSE

-----------------------------------------------------------------------------
(* The store.                                                              *)

\* The session the pages work with.
Shown(session, st) == IF st = "connected" THEN session ELSE NoLink

\* MUTANT: the effect does not cancel the check of the session before.
CheckKept(session, st, heard) ==
    IF Shown(session, st) = Shown(current, state)
    THEN [holder |-> holder, checks |-> heard]
    ELSE [holder |-> Unchecked(IF Shown(session, st) = NoLink THEN "idle" ELSE "pending"),
          checks |-> heard \cup {[link |-> i, again |-> FALSE] :
                                   i \in {Shown(session, st)} \ {NoLink}}]

\* ClubApp's effect on a session: a new one is checked, and the check of the
\* one before is no longer listened to.  A recheck is not cancelled.
Effect(session, st, heard) ==
    IF Shown(session, st) = Shown(current, state)
    THEN [holder |-> holder, checks |-> heard]
    ELSE [holder |-> Unchecked(IF Shown(session, st) = NoLink THEN "idle" ELSE "pending"),
          checks |-> {c \in heard : c.again} \cup
                     {[link |-> i, again |-> FALSE] :
                        i \in {Shown(session, st)} \ {NoLink}}]

\* publish, and what the holder page does about it; the requests that are
\* still heard of are given, because a close event rejects some.
Publish(session, st, heard) ==
    /\ current' = session
    /\ state' = st
    /\ holder' = Effect(session, st, heard).holder
    /\ checks' = Effect(session, st, heard).checks

ScheduleReconnect == timer' = (timer \/ (~signedOut /\ last # NoLink))

\* A new link starts its handshake for w, beside the others.
Open(i, w, isAuto, closing) ==
    /\ phase' = [j \in Links |-> IF j = i THEN "handshake"
                                 ELSE IF j \in closing THEN "closing" ELSE phase[j]]
    /\ wallet' = [wallet EXCEPT ![i] = w]
    /\ auto' = IF isAuto THEN auto \cup {i} ELSE auto
    /\ overlap' = (overlap \/ Handshakes # {} \/ closing # {})

-----------------------------------------------------------------------------
(* Connecting.                                                             *)

\* MUTANT: a connect leaves the backoff timer running.
ConnectBesideTimer(w) ==
    /\ last' = w
    /\ signedOut' = FALSE
    /\ UNCHANGED timer
    /\ IF state = "connected" /\ current # NoLink /\ wallet[current] = w
       THEN UNCHANGED <<links, store, page, overlap>>
       ELSE \E i \in Free :
              /\ Open(i, w, FALSE, {current} \cap Alive)
              /\ Publish(current, "connecting", checks)

\* connect: the session that is open for this wallet is reused, another one is
\* closed, and a handshake begins.
Connect(w) ==
    /\ last' = w
    /\ signedOut' = FALSE
    /\ timer' = FALSE
    /\ IF state = "connected" /\ current # NoLink /\ wallet[current] = w
       THEN UNCHANGED <<links, store, page, overlap>>
       ELSE \E i \in Free :
              /\ Open(i, w, FALSE, {current} \cap Alive)
              /\ Publish(current, "connecting", checks)

\* onSignIn, onVerify: the buttons are off while connecting and connected, but
\* the wallet may take its time, or never answer.
Click ==
    /\ state \in {"idle", "error"}
    /\ clicks < MaxClicks
    /\ clicks' = clicks + 1
    /\ UNCHANGED <<links, store, timer, signedOut, last, page, overlap>>

WalletAnswers(w) ==
    /\ clicks > 0
    /\ clicks' = clicks - 1
    /\ Connect(w)

WalletDeclines ==
    /\ clicks > 0
    /\ clicks' = clicks - 1
    /\ UNCHANGED <<links, store, timer, signedOut, last, page, overlap>>

\* The arena and the console connect by themselves when nothing is going on.
AutoConnect(w) ==
    /\ state = "idle"
    /\ Connect(w)
    /\ UNCHANGED clicks

\* attemptReconnect.
TimerFires ==
    /\ timer
    /\ timer' = FALSE
    /\ IF signedOut \/ last = NoLink
       THEN UNCHANGED <<links, store, page, overlap>>
       ELSE \E i \in Free : /\ Open(i, last, TRUE, {})
                            /\ Publish(current, "connecting", checks)
    /\ UNCHANGED <<signedOut, last, clicks>>

\* The handshake succeeded: the session is the store's from now on.
HandshakeOk(i) ==
    /\ phase[i] = "handshake"
    /\ phase' = [phase EXCEPT ![i] = "open"]
    /\ Publish(i, "connected", checks)
    /\ UNCHANGED <<wallet, auto, timer, signedOut, last, clicks, overlap>>

\* MUTANT: a reconnect that will be tried again is not reported.
FailsSilently(i) ==
    /\ phase[i] = "handshake"
    /\ phase' = [phase EXCEPT ![i] = "unused"]
    /\ wallet' = [wallet EXCEPT ![i] = NoLink]
    /\ auto' = auto \ {i}
    /\ Publish(NoLink, IF i \in auto /\ ~signedOut THEN "connecting" ELSE "error", checks)
    /\ IF i \in auto THEN ScheduleReconnect ELSE UNCHANGED timer
    /\ UNCHANGED <<signedOut, last, clicks, overlap>>

\* It failed: the player's own attempt is reported, the timer's is repeated.
HandshakeFails(i) ==
    /\ phase[i] = "handshake"
    /\ phase' = [phase EXCEPT ![i] = "unused"]
    /\ wallet' = [wallet EXCEPT ![i] = NoLink]
    /\ auto' = auto \ {i}
    /\ Publish(NoLink, "error", checks)
    /\ IF i \in auto THEN ScheduleReconnect ELSE UNCHANGED timer
    /\ UNCHANGED <<signedOut, last, clicks, overlap>>

-----------------------------------------------------------------------------
(* Closing.                                                                *)

\* MUTANT: the close that a sign-out asked for is passed over.
DropIgnored(i) ==
    IF signedOut THEN UNCHANGED <<store, page, timer>>
    ELSE Publish(NoLink, "connecting", {c \in checks : c.link # i}) /\ ScheduleReconnect

\* handleSessionClosed, for any session that was ever connected: its pending
\* checks are rejected, the store is emptied and a reconnect scheduled.
HandleSessionClosed(i) ==
    LET heard == {c \in checks : c.link # i}
    IN IF signedOut THEN Publish(NoLink, "idle", heard) /\ UNCHANGED timer
       ELSE Publish(NoLink, "connecting", heard) /\ ScheduleReconnect

\* The close event: the connection dropped, or close was called.
CloseEvent(i) ==
    /\ i \in Alive
    /\ phase' = [phase EXCEPT ![i] = "unused"]
    /\ wallet' = [wallet EXCEPT ![i] = NoLink]
    /\ auto' = auto \ {i}
    /\ HandleSessionClosed(i)
    /\ UNCHANGED <<signedOut, last, clicks, overlap>>

\* disconnect: offered to whoever is signed in.
Disconnect ==
    /\ state = "connected"
    /\ signedOut' = TRUE
    /\ timer' = FALSE
    /\ phase' = [i \in Links |-> IF i = current /\ i \in Alive THEN "closing" ELSE phase[i]]
    /\ UNCHANGED <<wallet, auto, store, last, clicks, page, overlap>>

-----------------------------------------------------------------------------
(* The holder page.                                                        *)

\* applyVerify: the gateway answers for the wallet of the link it was asked on.
CheckAnswered(c, verdict) ==
    /\ c \in checks
    /\ checks' = checks \ {c}
    /\ holder' = [status |-> verdict, of |-> wallet[c.link], again |-> c.again]
    /\ UNCHANGED <<links, store, timer, signedOut, last, clicks, overlap>>

CheckFails(c) ==
    /\ c \in checks
    /\ checks' = checks \ {c}
    /\ holder' = Unchecked("error")
    /\ UNCHANGED <<links, store, timer, signedOut, last, clicks, overlap>>

\* recheck: the countdown of a holder who must still wait has run out.
Recheck ==
    /\ state = "connected" /\ current # NoLink
    /\ holder.status = "not_eligible"
    /\ holder' = Unchecked("pending")
    /\ checks' = checks \cup {[link |-> current, again |-> TRUE]}
    /\ UNCHANGED <<links, store, timer, signedOut, last, clicks, overlap>>

-----------------------------------------------------------------------------
SessionNext ==
    \/ Click \/ WalletDeclines \/ TimerFires \/ Disconnect \/ Recheck
    \/ \E w \in Wallets : WalletAnswers(w) \/ AutoConnect(w)
    \/ \E i \in Links : HandshakeOk(i) \/ HandshakeFails(i) \/ CloseEvent(i)
    \/ \E c \in checks :
         \/ \E verdict \in {"eligible", "not_eligible"} : CheckAnswered(c, verdict)
         \/ CheckFails(c)

SessionSpec == SessionInit /\ [][SessionNext]_sessionVars

\* Timers fire and handshakes end, in success, refusal or their timeouts; the
\* wallet is taken to sign or refuse.
FairSession ==
    /\ SessionSpec
    /\ WF_sessionVars(TimerFires)
    /\ \A i \in Links : WF_sessionVars(HandshakeOk(i) \/ HandshakeFails(i))

-----------------------------------------------------------------------------
(* Properties.                                                             *)

\* A store that says connected has a session whose socket has not closed,
\* whatever overlaps: the pages may send on it.
ConnectedIsLive == state = "connected" => current \in Alive

\* As long as no connect met another handshake or a session to replace, there
\* is at most one socket, and it is the store's: no second connection counts
\* against the address or signs the wallet out when it closes.
OneLink ==
    ~overlap => /\ Cardinality(Links \ Free) <= 1
                /\ Alive \subseteq {current}

\* What the holder page shows of a signed-in wallet, inside or outside the
\* club, is the verdict on that wallet, not on one it was before; except for a
\* recheck that was under way when sessions overlapped.
VerdictIsOwn ==
    state = "connected" /\ holder.of # NoLink /\ (holder.again => ~overlap) =>
        holder.of = wallet[current]

\* "Connecting" ends: with a session, an error to act on, or signed out.  Only
\* a model that has run out of links may stop.
ConnectingEnds == (state = "connecting") ~> (state # "connecting" \/ Free = {})
=============================================================================

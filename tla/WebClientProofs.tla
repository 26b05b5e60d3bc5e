---------------------------- MODULE WebClientProofs ----------------------------
(***************************************************************************)
(* The browser.  First its session: what the store, the sockets and the    *)
(* holder page agree on.  Then the claim: what the page tells the player,  *)
(* and where the credits of the claim are.  For every number of wallets,   *)
(* sockets and clicks, of tabs, transfers and credits.                     *)
(***************************************************************************)
EXTENDS ClientSession, ClaimFlow, Sums, TLAPS

(* No two sockets, and a live one is the store's.                          *)
Single == /\ \A i, j \in Links \ Free : i = j
          /\ Alive \subseteq {current}

(* Without an overlap there is one socket, and none while the timer runs.  *)
Alone == ~overlap => Single /\ (timer => Links \ Free = {})

(* A request is on a live link, and the effect's own on the session shown. *)
ChecksBacked ==
    \A c \in checks : /\ c.link \in Alive
                      /\ ~c.again => state = "connected" /\ c.link = current

SessionInv == SessionTypeOK /\ ConnectedIsLive /\ Alone /\ ChecksBacked /\ VerdictIsOwn

(* What publish leaves behind.                                             *)
LEMMA PublishEffect ==
  ASSUME SessionTypeOK, NEW session \in Links \cup {NoLink}, NEW st, NEW heard \in SUBSET checks,
         Publish(session, st, heard)
  PROVE  /\ current' = session /\ state' = st
         /\ holder' \in Verdicts /\ checks' \subseteq Requests
         /\ (holder'.of = holder.of /\ holder'.again = holder.again) \/ holder'.of = NoLink
         /\ Shown(session, st) = Shown(current, state) => holder' = holder /\ checks' = heard
         /\ Shown(session, st) # Shown(current, state) =>
              /\ holder'.of = NoLink
              /\ \A c \in checks' : \/ c \in heard /\ c.again
                                    \/ c.link = Shown(session, st) /\ c.link # NoLink
<1> DEFINE fresh == {[link |-> i, again |-> FALSE] : i \in {Shown(session, st)} \ {NoLink}}
<1>1. Shown(session, st) \in Links \cup {NoLink}
  BY DEF Shown
<1>2. fresh \subseteq Requests /\ \A c \in fresh : c.link = Shown(session, st) /\ c.link # NoLink
  <2>1. SUFFICES ASSUME NEW c \in fresh
                 PROVE  c \in Requests /\ c.link = Shown(session, st) /\ c.link # NoLink
    OBVIOUS
  <2>2. PICK i \in {Shown(session, st)} \ {NoLink} : c = [link |-> i, again |-> FALSE]
    OBVIOUS
  <2> HIDE DEF fresh
  <2>3. i \in Links /\ i = Shown(session, st) /\ i # NoLink
    BY <1>1
  <2> QED  BY <2>2, <2>3 DEF Requests
<1>3. \A status \in {"idle", "pending"} : Unchecked(status) \in Verdicts /\ Unchecked(status).of = NoLink
  BY DEF Unchecked, Verdicts
<1>4. current' = session /\ state' = st
  BY DEF Publish
<1>5. CASE Shown(session, st) = Shown(current, state)
  <2>1. holder' = holder /\ checks' = heard
    BY <1>5 DEF Publish, Effect
  <2> QED  BY <1>4, <1>5, <2>1 DEF SessionTypeOK
<1>6. CASE Shown(session, st) # Shown(current, state)
  <2>1. \E status \in {"idle", "pending"} : holder' = Unchecked(status)
    BY <1>6 DEF Publish, Effect
  <2>2. checks' = {c \in heard : c.again} \cup fresh
    BY <1>6 DEF Publish, Effect
  <2>3. checks' \subseteq Requests
    BY <1>2, <2>2 DEF SessionTypeOK
  <2> HIDE DEF fresh
  <2>4. \A c \in checks' : \/ c \in heard /\ c.again
                           \/ c.link = Shown(session, st) /\ c.link # NoLink
    BY <1>2, <2>2
  <2> QED  BY <1>3, <1>4, <1>6, <2>1, <2>3, <2>4
<1> QED  BY <1>5, <1>6

LEMMA SessionStarts == SessionInit => SessionInv
<1> SUFFICES ASSUME SessionInit PROVE SessionInv
  OBVIOUS
<1>1. holder \in Verdicts /\ holder.of = NoLink
  BY DEF SessionInit, Unchecked, Verdicts
<1>2. SessionTypeOK
  <2>1. phase \in [Links -> Phases] /\ wallet \in [Links -> Wallets \cup {NoLink}]
    BY DEF SessionInit, Phases
  <2>2. clicks \in 0 .. MaxClicks
    BY SessionAssumption DEF SessionInit
  <2>3. checks \subseteq Requests /\ auto \subseteq Links
    BY DEF SessionInit
  <2> QED  BY <1>1, <2>1, <2>2, <2>3 DEF SessionInit, SessionTypeOK
<1>3. Links \ Free = {} /\ Alive = {}
  BY DEF SessionInit, Free, Alive
<1>4. ConnectedIsLive /\ Alone /\ ChecksBacked /\ VerdictIsOwn
  BY <1>1, <1>3 DEF SessionInit, ConnectedIsLive, Alone, Single, ChecksBacked, VerdictIsOwn
<1> QED  BY <1>2, <1>4 DEF SessionInv

(* A step that leaves the sockets and the store alone.                     *)
LEMMA Elsewhere ==
  ASSUME SessionInv, UNCHANGED <<links, store, page, overlap>>, timer' \in BOOLEAN, timer' => timer,
         signedOut' \in BOOLEAN, last' \in Wallets \cup {NoLink}, clicks' \in 0 .. MaxClicks
  PROVE  SessionInv'
<1> USE DEF SessionInv, links, store, page
<1>1. SessionTypeOK'
  BY DEF SessionTypeOK
<1>2. Free' = Free /\ Alive' = Alive
  BY DEF Free, Alive
<1> QED  BY <1>1, <1>2 DEF ConnectedIsLive, Alone, Single, ChecksBacked, VerdictIsOwn

(* A handshake begins; the session shown, if any, is hidden.               *)
LEMMA OpenStep ==
  ASSUME SessionInv, NEW i \in Free, NEW w \in Wallets, NEW isAuto \in BOOLEAN,
         NEW closing \in SUBSET Alive, timer \/ closing = {current} \cap Alive,
         Open(i, w, isAuto, closing), Publish(current, "connecting", checks),
         timer' = FALSE, signedOut' \in BOOLEAN, last' \in Wallets \cup {NoLink},
         clicks' \in 0 .. MaxClicks
  PROVE  SessionInv'
<1> USE DEF SessionInv
<1>1. i \in Links /\ phase[i] = "unused" /\ i \notin Alive
  BY DEF Free, Alive
<1>2. current \in Links \cup {NoLink}
  BY DEF SessionTypeOK
<1>3. /\ current' = current /\ state' = "connecting"
      /\ holder' \in Verdicts /\ checks' \subseteq Requests
      /\ \A c \in checks' : c \in checks /\ c.again
  <2>1. Shown(current, "connecting") = NoLink
    BY DEF Shown
  <2>2. Shown(current, state) = NoLink => \A c \in checks : c.again
    BY <1>2, SessionAssumption DEF Shown, ChecksBacked, ConnectedIsLive, Alive
  <2> QED  BY <1>2, <2>1, <2>2, PublishEffect
<1>4. phase' = [j \in Links |-> IF j = i THEN "handshake"
                                ELSE IF j \in closing THEN "closing" ELSE phase[j]]
  BY DEF Open
<1>5. Alive' = Alive
  BY <1>1, <1>4 DEF Alive
<1>6. Links \ Free' = (Links \ Free) \cup {i}
  BY <1>1, <1>4 DEF Free, Alive
<1>7. SessionTypeOK'
  <2>1. phase' \in [Links -> Phases]
    BY <1>4 DEF SessionTypeOK, Phases
  <2>2. /\ wallet' \in [Links -> Wallets \cup {NoLink}] /\ auto' \subseteq Links
        /\ overlap' \in BOOLEAN
    BY <1>1 DEF Open, SessionTypeOK
  <2> QED  BY <1>2, <1>3, <2>1, <2>2 DEF SessionTypeOK
<1>8. Alone'
  <2>1. SUFFICES ASSUME ~overlap' PROVE Single'
    BY DEF Alone
  <2>2. ~overlap /\ Handshakes = {} /\ closing = {}
    BY <2>1 DEF Open, SessionTypeOK
  <2>3. Links \ Free = Handshakes \cup Alive
    BY DEF Free, Handshakes, Alive, SessionTypeOK, Phases
  <2>4. Links \ Free = {}
    BY <2>2, <2>3 DEF Alone, Single
  <2>5. Links \ Free' = {i} /\ Alive' = {}
    BY <1>5, <1>6, <2>3, <2>4
  <2> QED  BY <2>5 DEF Single
<1>9. ConnectedIsLive' /\ VerdictIsOwn'
  BY <1>3 DEF ConnectedIsLive, VerdictIsOwn
<1>10. ChecksBacked'
  BY <1>3, <1>5 DEF ChecksBacked
<1> QED  BY <1>7, <1>8, <1>9, <1>10

LEMMA ConnectStep ==
  ASSUME SessionInv, NEW w \in Wallets, Connect(w), clicks' \in 0 .. MaxClicks
  PROVE  SessionInv'
<1>1. timer' = FALSE /\ signedOut' = FALSE /\ last' = w
  BY DEF Connect
<1>2. CASE UNCHANGED <<links, store, page, overlap>>
  BY <1>1, <1>2, Elsewhere
<1>3. ASSUME NEW i \in Free, Open(i, w, FALSE, {current} \cap Alive),
             Publish(current, "connecting", checks)
      PROVE  SessionInv'
  <2> DEFINE closing == {current} \cap Alive
  <2>1. closing \in SUBSET Alive
    OBVIOUS
  <2>2. Open(i, w, FALSE, closing)
    BY <1>3
  <2>3. closing = {current} \cap Alive
    OBVIOUS
  <2> HIDE DEF closing
  <2> QED  BY <1>1, <1>3, <2>1, <2>2, <2>3, OpenStep
<1> QED  BY <1>2, <1>3 DEF Connect

(* A link ends: its handshake failed or its socket closed.                 *)
LEMMA LinkEnds ==
  ASSUME SessionInv, NEW i \in Links \ Free, NEW st \in {"idle", "connecting", "error"},
         NEW heard \in SUBSET checks, \A c \in heard : c.link # i,
         phase' = [phase EXCEPT ![i] = "unused"], wallet' = [wallet EXCEPT ![i] = NoLink],
         auto' = auto \ {i}, Publish(NoLink, st, heard), timer' \in BOOLEAN,
         UNCHANGED <<signedOut, last, clicks, overlap>>
  PROVE  SessionInv'
<1> USE DEF SessionInv
<1>1. /\ current' = NoLink /\ state' = st
      /\ holder' \in Verdicts /\ checks' \subseteq Requests
      /\ \A c \in checks' : c \in heard /\ c.again
  <2>1. Shown(NoLink, st) = NoLink
    BY DEF Shown
  <2>2. Shown(current, state) = NoLink => \A c \in checks : c.again
    BY SessionAssumption DEF Shown, ChecksBacked, ConnectedIsLive, Alive, SessionTypeOK
  <2> QED  BY <2>1, <2>2, PublishEffect
<1>2. Alive' = Alive \ {i} /\ Links \ Free' = (Links \ Free) \ {i}
  BY DEF Alive, Free, SessionTypeOK
<1>3. SessionTypeOK'
  <2>1. phase' \in [Links -> Phases] /\ wallet' \in [Links -> Wallets \cup {NoLink}]
    BY DEF SessionTypeOK, Phases
  <2> QED  BY <1>1, <2>1 DEF SessionTypeOK
<1>4. Alone'
  <2>1. SUFFICES ASSUME ~overlap PROVE Single' /\ Links \ Free' = {}
    BY DEF Alone
  <2>2. Links \ Free = {i}
    BY <2>1 DEF Alone, Single
  <2>3. Links \ Free' = {} /\ Alive' = {}
    BY <1>2, <2>2 DEF Alive, Free
  <2> QED  BY <2>3 DEF Single
<1>5. ConnectedIsLive' /\ VerdictIsOwn'
  BY <1>1 DEF ConnectedIsLive, VerdictIsOwn
<1>6. ChecksBacked'
  BY <1>1, <1>2 DEF ChecksBacked
<1> QED  BY <1>3, <1>4, <1>5, <1>6

LEMMA HandshakeStep ==
  ASSUME SessionInv, NEW i \in Links, HandshakeOk(i)
  PROVE  SessionInv'
<1> USE DEF SessionInv
<1>1. /\ phase[i] = "handshake" /\ phase' = [phase EXCEPT ![i] = "open"]
      /\ Publish(i, "connected", checks)
      /\ UNCHANGED <<wallet, auto, timer, signedOut, last, clicks, overlap>>
  BY DEF HandshakeOk
<1>2. i \notin Alive /\ i # NoLink
  BY <1>1, SessionAssumption DEF Alive
<1>3. Shown(i, "connected") = i /\ Shown(current, state) # i
  BY <1>2 DEF Shown, ConnectedIsLive
<1>4. /\ current' = i /\ state' = "connected"
      /\ holder' \in Verdicts /\ checks' \subseteq Requests /\ holder'.of = NoLink
      /\ \A c \in checks' : (c \in checks /\ c.again) \/ c.link = i
  BY <1>1, <1>3, PublishEffect
<1>5. Alive' = Alive \cup {i} /\ Free' = Free
  BY <1>1 DEF Alive, Free, SessionTypeOK
<1>6. SessionTypeOK'
  <2>1. phase' \in [Links -> Phases]
    BY <1>1 DEF SessionTypeOK, Phases
  <2> QED  BY <1>1, <1>4, <2>1 DEF SessionTypeOK
<1>7. Alone'
  <2>1. i \in Links \ Free /\ Alive \subseteq Links \ Free
    BY <1>1 DEF Free, Alive
  <2> QED  BY <1>1, <1>4, <1>5, <2>1 DEF Alone, Single
<1>8. ConnectedIsLive' /\ VerdictIsOwn'
  BY <1>4, <1>5 DEF ConnectedIsLive, VerdictIsOwn
<1>9. ChecksBacked'
  BY <1>4, <1>5 DEF ChecksBacked
<1> QED  BY <1>6, <1>7, <1>8, <1>9

(* The holder page's own steps leave sockets and store alone.              *)
LEMMA PageStep ==
  ASSUME SessionInv, UNCHANGED <<links, store, timer, signedOut, last, clicks, overlap>>,
         holder' \in Verdicts, checks' \subseteq Requests,
         \A q \in checks' : q \in checks \/ (q.again /\ q.link \in Alive),
         state = "connected" /\ holder'.of # NoLink /\ (holder'.again => ~overlap) =>
            holder'.of = wallet[current]
  PROVE  SessionInv'
<1> USE DEF SessionInv, links, store
<1>1. SessionTypeOK'
  BY DEF SessionTypeOK
<1>2. Free' = Free /\ Alive' = Alive
  BY DEF Free, Alive
<1> QED  BY <1>1, <1>2 DEF ConnectedIsLive, Alone, Single, ChecksBacked, VerdictIsOwn

LEMMA AnswerStep ==
  ASSUME SessionInv, NEW c \in checks,
         CheckFails(c) \/ \E verdict \in {"eligible", "not_eligible"} : CheckAnswered(c, verdict)
  PROVE  SessionInv'
<1>1. c \in Requests /\ c.link \in Links /\ c.again \in BOOLEAN /\ wallet[c.link] \in Wallets \cup {NoLink}
  BY DEF SessionInv, SessionTypeOK, Requests
<1>2. CASE CheckFails(c)
  <2>1. Unchecked("error") \in Verdicts /\ Unchecked("error").of = NoLink
    BY DEF Unchecked, Verdicts
  <2>2. /\ UNCHANGED <<links, store, timer, signedOut, last, clicks, overlap>>
        /\ holder' = Unchecked("error") /\ checks' = checks \ {c}
    BY <1>2 DEF CheckFails
  <2>3. checks' \subseteq Requests
    BY <2>2 DEF SessionInv, SessionTypeOK
  <2>4. holder' \in Verdicts /\ holder'.of = NoLink
    BY <2>1, <2>2
  <2>5. \A q \in checks' : q \in checks \/ (q.again /\ q.link \in Alive)
    BY <2>2
  <2>6. state = "connected" /\ holder'.of # NoLink /\ (holder'.again => ~overlap) =>
           holder'.of = wallet[current]
    BY <2>4
  <2> QED  BY <2>2, <2>3, <2>4, <2>5, <2>6, PageStep
<1>3. ASSUME NEW verdict \in {"eligible", "not_eligible"}, CheckAnswered(c, verdict) PROVE SessionInv'
  <2>1. /\ UNCHANGED <<links, store, timer, signedOut, last, clicks, overlap>>
        /\ holder' = [status |-> verdict, of |-> wallet[c.link], again |-> c.again]
        /\ checks' = checks \ {c}
    BY <1>3 DEF CheckAnswered
  <2>2. holder' \in Verdicts /\ holder'.of = wallet[c.link] /\ holder'.again = c.again
    BY <1>1, <2>1 DEF Verdicts
  <2>3. state = "connected" /\ (c.again => ~overlap) => c.link = current
    BY <1>1 DEF SessionInv, ChecksBacked, Alone, Single
  <2>4. checks' \subseteq Requests
    BY <2>1 DEF SessionInv, SessionTypeOK
  <2>5. \A q \in checks' : q \in checks \/ (q.again /\ q.link \in Alive)
    BY <2>1
  <2>6. state = "connected" /\ holder'.of # NoLink /\ (holder'.again => ~overlap) =>
           holder'.of = wallet[current]
    BY <2>2, <2>3
  <2> QED  BY <2>1, <2>2, <2>4, <2>5, <2>6, PageStep
<1> QED  BY <1>2, <1>3

LEMMA RecheckStep ==
  ASSUME SessionInv, Recheck
  PROVE  SessionInv'
<1>1. Unchecked("pending") \in Verdicts /\ Unchecked("pending").of = NoLink
  BY DEF Unchecked, Verdicts
<1> DEFINE asked == [link |-> current, again |-> TRUE]
<1>2. /\ UNCHANGED <<links, store, timer, signedOut, last, clicks, overlap>>
      /\ holder' = Unchecked("pending") /\ checks' = checks \cup {asked}
      /\ current \in Alive
  BY DEF Recheck, SessionInv, ConnectedIsLive
<1>3. asked \in Requests /\ asked.again /\ asked.link \in Alive
  BY <1>2 DEF Requests, Alive
<1> HIDE DEF asked
<1>4. checks' \subseteq Requests
  BY <1>2, <1>3 DEF SessionInv, SessionTypeOK
<1>5. holder' \in Verdicts /\ holder'.of = NoLink
  BY <1>1, <1>2
<1>6. \A q \in checks' : q \in checks \/ (q.again /\ q.link \in Alive)
  BY <1>2, <1>3
<1>7. state = "connected" /\ holder'.of # NoLink /\ (holder'.again => ~overlap) =>
         holder'.of = wallet[current]
  BY <1>5
<1> QED  BY <1>2, <1>4, <1>5, <1>6, <1>7, PageStep

LEMMA SignOutStep ==
  ASSUME SessionInv, Disconnect
  PROVE  SessionInv'
<1> USE DEF SessionInv
<1>1. /\ phase' = [i \in Links |-> IF i = current /\ i \in Alive THEN "closing" ELSE phase[i]]
      /\ timer' = FALSE /\ signedOut' = TRUE
      /\ UNCHANGED <<wallet, auto, store, last, clicks, page, overlap>>
  BY DEF Disconnect
<1>2. Alive' = Alive /\ Free' = Free
  BY <1>1 DEF Alive, Free
<1>3. SessionTypeOK'
  <2>1. phase' \in [Links -> Phases]
    BY <1>1 DEF SessionTypeOK, Phases
  <2> QED  BY <1>1, <2>1 DEF SessionTypeOK, store, page
<1> QED  BY <1>1, <1>2, <1>3 DEF ConnectedIsLive, Alone, Single, ChecksBacked, VerdictIsOwn, store, page

LEMMA CloseStep ==
  ASSUME SessionInv, NEW i \in Links, HandshakeFails(i) \/ CloseEvent(i)
  PROVE  SessionInv'
<1> DEFINE heard == {c \in checks : c.link # i}
<1>1. timer \in BOOLEAN /\ signedOut \in BOOLEAN
  BY DEF SessionInv, SessionTypeOK
<1>2. ScheduleReconnect => timer' \in BOOLEAN
  BY <1>1 DEF ScheduleReconnect
<1>3. CASE HandshakeFails(i)
  <2>1. i \in Links \ Free /\ i \notin Alive
    BY <1>3 DEF HandshakeFails, Free, Alive
  <2>2. \A c \in checks : c.link # i
    BY <2>1 DEF SessionInv, ChecksBacked
  <2>3. /\ phase' = [phase EXCEPT ![i] = "unused"] /\ wallet' = [wallet EXCEPT ![i] = NoLink]
        /\ auto' = auto \ {i} /\ Publish(NoLink, "error", checks)
        /\ UNCHANGED <<signedOut, last, clicks, overlap>>
        /\ ScheduleReconnect \/ timer' = timer
    BY <1>3 DEF HandshakeFails
  <2> QED  BY <1>1, <1>2, <2>1, <2>2, <2>3, LinkEnds
<1>4. CASE CloseEvent(i)
  <2>1. i \in Links \ Free
    BY <1>4 DEF CloseEvent, Free, Alive
  <2>2. heard \in SUBSET checks /\ \A c \in heard : c.link # i
    OBVIOUS
  <2>3. /\ phase' = [phase EXCEPT ![i] = "unused"] /\ wallet' = [wallet EXCEPT ![i] = NoLink]
        /\ auto' = auto \ {i} /\ UNCHANGED <<signedOut, last, clicks, overlap>>
        /\ \/ Publish(NoLink, "idle", heard) /\ timer' = timer
           \/ Publish(NoLink, "connecting", heard) /\ ScheduleReconnect
    BY <1>4 DEF CloseEvent, HandleSessionClosed
  <2> HIDE DEF heard
  <2> QED  BY <1>1, <1>2, <2>1, <2>2, <2>3, LinkEnds
<1> QED  BY <1>3, <1>4

LEMMA TimerStep ==
  ASSUME SessionInv, TimerFires
  PROVE  SessionInv'
<1>1. timer /\ timer' = FALSE /\ UNCHANGED <<signedOut, last, clicks>>
  BY DEF TimerFires
<1>2. signedOut \in BOOLEAN /\ last \in Wallets \cup {NoLink} /\ clicks \in 0 .. MaxClicks
  BY DEF SessionInv, SessionTypeOK
<1>3. CASE UNCHANGED <<links, store, page, overlap>>
  BY <1>1, <1>2, <1>3, Elsewhere
<1>4. ASSUME last # NoLink, NEW i \in Free, Open(i, last, TRUE, {}), Publish(current, "connecting", checks)
      PROVE  SessionInv'
  <2>1. last \in Wallets /\ TRUE \in BOOLEAN /\ {} \in SUBSET Alive
    BY <1>2, <1>4
  <2>2. signedOut' \in BOOLEAN /\ last' \in Wallets \cup {NoLink} /\ clicks' \in 0 .. MaxClicks
    BY <1>1, <1>2
  <2>3. timer \/ {} = {current} \cap Alive
    BY <1>1
  <2> QED  BY <1>1, <1>4, <2>1, <2>2, <2>3, OpenStep
<1> QED  BY <1>3, <1>4 DEF TimerFires

(* The inductive invariant of store, sockets and holder page.              *)
THEOREM SessionInvariance == SessionSpec => []SessionInv
<1>1. SessionInv /\ [SessionNext]_sessionVars => SessionInv'
  <2> SUFFICES ASSUME SessionInv, [SessionNext]_sessionVars PROVE SessionInv'
    OBVIOUS
  <2>1. /\ timer \in BOOLEAN /\ signedOut \in BOOLEAN /\ last \in Wallets \cup {NoLink}
        /\ clicks \in 0 .. MaxClicks /\ clicks \in Nat /\ MaxClicks \in Nat
    BY SessionAssumption DEF SessionInv, SessionTypeOK
  <2>2. CASE UNCHANGED sessionVars
    BY <2>1, <2>2, Elsewhere DEF sessionVars, page
  <2>3. CASE Click \/ WalletDeclines
    <3>1. clicks' \in 0 .. MaxClicks
      BY <2>1, <2>3 DEF Click, WalletDeclines
    <3>2. UNCHANGED <<links, store, page, overlap, timer, signedOut, last>>
      BY <2>3 DEF Click, WalletDeclines
    <3> QED  BY <2>1, <3>1, <3>2, Elsewhere
  <2>4. ASSUME NEW w \in Wallets, WalletAnswers(w) \/ AutoConnect(w) PROVE SessionInv'
    <3>1. clicks' \in 0 .. MaxClicks /\ Connect(w)
      BY <2>1, <2>4 DEF WalletAnswers, AutoConnect
    <3> QED  BY <3>1, ConnectStep
  <2> QED  BY <2>2, <2>3, <2>4, TimerStep, SignOutStep, RecheckStep, HandshakeStep, CloseStep,
              AnswerStep DEF SessionNext
<1> QED  BY <1>1, SessionStarts, PTL DEF SessionSpec

(* A store that says connected has a session whose socket has not closed:  *)
(* publish and handleSessionClosed of use-session.ts.                      *)
THEOREM SessionLive == SessionSpec => []ConnectedIsLive
<1>1. SessionInv => ConnectedIsLive
  BY DEF SessionInv
<1> QED  BY <1>1, SessionInvariance, PTL

(* Unless a connect met another handshake or a session to replace, there   *)
(* is at most one socket and it is the store's: connect, attemptReconnect. *)
THEOREM LinkAlone == SessionSpec => []OneLink
<1>1. SessionInv => OneLink
  <2> SUFFICES ASSUME SessionInv, ~overlap PROVE Cardinality(Links \ Free) <= 1 /\ Alive \subseteq {current}
    BY DEF OneLink
  <2>1. Single
    BY DEF SessionInv, Alone
  <2>2. CASE Links \ Free = {}
    BY <2>1, <2>2, FS_EmptySet DEF Single
  <2>3. ASSUME NEW i \in Links \ Free PROVE Cardinality(Links \ Free) = 1
    <3>1. Links \ Free = {i}
      BY <2>1, <2>3 DEF Single
    <3> QED  BY <3>1, FS_Singleton
  <2> QED  BY <2>1, <2>2, <2>3 DEF Single
<1> QED  BY <1>1, SessionInvariance, PTL

(* The holder page shows the verdict on the wallet that is signed in: the  *)
(* effect and the recheck of app/page.tsx.                                 *)
THEOREM VerdictOfItsWallet == SessionSpec => []VerdictIsOwn
<1>1. SessionInv => VerdictIsOwn
  BY DEF SessionInv
<1> QED  BY <1>1, SessionInvariance, PTL

-----------------------------------------------------------------------------
(* The claim.                                                              *)

(* A flow's transfers are the ones its step is about: none before the      *)
(* bridge, a landed bridge behind every redeem of a claim, and none behind *)
(* a redeem on its own.                                                    *)
FlowFits(t) ==
    LET f == flow[t]
    IN /\ f.at \in {"idle", "account", "setup", "waiting"} => f.bridge = None /\ f.swap = None
       /\ f.at \in {"account", "setup", "waiting", "bridge"} => f.claim
       /\ ~f.claim => f.bridge = None
       /\ f.claim /\ f.at \in {"build", "sign", "submit"} =>
            f.bridge # None /\ transfer[f.bridge].tx = "landed"
       /\ f.bridge # None => transfer[f.bridge].handler # "none" /\ ~transfer[f.bridge].swap
       /\ f.swap # None => transfer[f.swap].handler # "none" /\ transfer[f.swap].swap

FlowShape == \A t \in Tabs : FlowFits(t)

(* One tab's report is honest, and a claim that is said to be done named   *)
(* its swap.                                                               *)
ReportFits(t) ==
    LET r == report[t]
    IN /\ r.says = "untouched" => r.bridge = None
       /\ r.says = "bridgedOnly" => r.bridge # None /\ transfer[r.bridge].tx = "landed"
       /\ r.says = "failed" /\ r.bridge # None => transfer[r.bridge].handler = "threw"
       /\ r.says = "claimed" => r.swap # None
       /\ r.says = "claimed" => transfer[r.swap].tx = "landed" \/ r.swap \in overtaken
       /\ r.says # "claimed" /\ r.swap # None /\ ~r.early =>
            transfer[r.swap].tx \in {"failed", "dead"}

ReportsFit == \A t \in Tabs : ReportFits(t)

(* A transfer has a transaction only once a handler made it. *)
Handled == \A o \in Transfers : transfer[o].tx # "none" => transfer[o].handler # "none"

(* A swap that nothing overtook is the only one in flight, and the wallet's *)
(* Creds, the treasury and the rent still pay for it; only one that was     *)
(* overtaken fails.                                                         *)
Funded ==
    /\ \A o \in Transfers : transfer[o].swap /\ transfer[o].tx = "failed" => o \in overtaken
    /\ \A o \in SwapsInFlight : o \notin overtaken =>
         /\ creds >= transfer[o].amount /\ covered
         /\ \A p \in SwapsInFlight : p = o

IInv == TypeOK /\ FlowShape /\ Handled /\ Funded /\ ReportsFit

(* What a step may not undo of a transfer. *)
Lasting ==
    \A o \in Transfers :
      /\ transfer[o].tx \in {"landed", "failed", "dead"} => transfer'[o].tx = transfer[o].tx
      /\ transfer[o].handler = "threw" => transfer'[o].handler = "threw"
      /\ transfer[o].handler # "none" =>
           transfer'[o].handler # "none" /\ transfer'[o].swap = transfer[o].swap

LEMMA StartsEffect ==
  ASSUME TypeOK, NEW t \in Tabs, NEW what \in Flows, Starts(t, what)
  PROVE  /\ flow' \in [Tabs -> Flows] /\ report' \in [Tabs -> Reports]
         /\ flow'[t] = what /\ report'[t].says = "nothing" /\ report'[t].swap = None
         /\ report'[t].bridge = None
         /\ \A u \in Tabs \ {t} : flow'[u] = flow[u] /\ report'[u] = report[u]
<1>1. Silent \in Reports
  BY DEF Silent, Reports, Words
<1>2. Silent.says = "nothing" /\ Silent.swap = None /\ Silent.bridge = None
  BY DEF Silent
<1> QED  BY <1>1, <1>2 DEF Starts, TypeOK

(* A flow ended, or went on. *)
Ended(t, says) ==
    /\ flow' \in [Tabs -> Flows] /\ report' \in [Tabs -> Reports]
    /\ flow'[t].at = "idle" /\ ~flow'[t].claim
    /\ flow'[t].bridge = None /\ flow'[t].swap = None
    /\ report'[t].says = says
    /\ report'[t].bridge = flow[t].bridge /\ report'[t].swap = flow[t].swap
    /\ report'[t].early = Undecided(t)
    /\ \A u \in Tabs \ {t} : flow'[u] = flow[u] /\ report'[u] = report[u]

Moved(t, step, bridge, swap) ==
    /\ flow' \in [Tabs -> Flows] /\ report' = report
    /\ flow'[t].at = step /\ flow'[t].claim = flow[t].claim
    /\ flow'[t].bridge = bridge /\ flow'[t].swap = swap
    /\ \A u \in Tabs \ {t} : flow'[u] = flow[u]

LEMMA EndsEffect ==
  ASSUME TypeOK, NEW t \in Tabs, NEW says \in Words, Ends(t, says)
  PROVE  Ended(t, says)
<1> DEFINE told == [says |-> says, bridge |-> flow[t].bridge, swap |-> flow[t].swap,
                    early |-> Undecided(t)]
<1>1. flow[t] \in Flows
  BY DEF TypeOK
<1>2. told \in Reports
  <2>1. Undecided(t) \in BOOLEAN
    BY DEF Undecided
  <2> QED  BY <1>1, <2>1 DEF Reports, Flows
<1>3. /\ Resting \in Flows /\ Resting.at = "idle" /\ ~Resting.claim
      /\ Resting.bridge = None /\ Resting.swap = None
  BY ClaimAssumption DEF Resting, Begins, Flows, Steps
<1>4. told.says = says /\ told.bridge = flow[t].bridge /\ told.swap = flow[t].swap
      /\ told.early = Undecided(t)
  OBVIOUS
<1>5. flow' = [flow EXCEPT ![t] = Resting] /\ report' = [report EXCEPT ![t] = told]
  BY DEF Ends
<1>6. flow' \in [Tabs -> Flows] /\ flow'[t] = Resting
      /\ \A u \in Tabs \ {t} : flow'[u] = flow[u]
  BY <1>3, <1>5 DEF TypeOK
<1> HIDE DEF told
<1>7. report' \in [Tabs -> Reports] /\ report'[t] = told
      /\ \A u \in Tabs \ {t} : report'[u] = report[u]
  BY <1>2, <1>5 DEF TypeOK
<1> QED  BY <1>3, <1>4, <1>6, <1>7 DEF Ended

LEMMA GoesOnEffect ==
  ASSUME TypeOK, NEW t \in Tabs, NEW step \in Steps, GoesOn(t, step)
  PROVE  Moved(t, step, flow[t].bridge, flow[t].swap)
<1>1. flow[t] \in Flows
  BY DEF TypeOK
<1>2. ASSUME NEW f \in Flows
      PROVE  LET g == [f EXCEPT !.at = step]
             IN /\ g \in Flows /\ g.at = step /\ g.claim = f.claim
                /\ g.bridge = f.bridge /\ g.swap = f.swap
  BY DEF Flows
<1> DEFINE g == [flow[t] EXCEPT !.at = step]
<1>3. flow' = [flow EXCEPT ![t] = g] /\ report' = report
  BY DEF GoesOn
<1>4. /\ g \in Flows /\ g.at = step /\ g.claim = flow[t].claim
      /\ g.bridge = flow[t].bridge /\ g.swap = flow[t].swap
  BY <1>1, <1>2
<1> HIDE DEF g
<1>5. flow' \in [Tabs -> Flows] /\ flow'[t] = g
      /\ \A u \in Tabs \ {t} : flow'[u] = flow[u]
  BY <1>3, <1>4 DEF TypeOK
<1> QED  BY <1>3, <1>4, <1>5 DEF Moved

LEMMA BridgeBegun ==
  ASSUME TypeOK, NEW t \in Tabs, NEW o \in Transfers, flow' = [flow EXCEPT ![t].bridge = o],
         report' = report
  PROVE  Moved(t, flow[t].at, o, flow[t].swap)
<1>1. flow[t] \in Flows
  BY DEF TypeOK
<1>2. ASSUME NEW f \in Flows
      PROVE  LET g == [f EXCEPT !.bridge = o]
             IN /\ g \in Flows /\ g.at = f.at /\ g.claim = f.claim
                /\ g.bridge = o /\ g.swap = f.swap
  BY DEF Flows
<1> DEFINE g == [flow[t] EXCEPT !.bridge = o]
<1>3. flow' = [flow EXCEPT ![t] = g]
  OBVIOUS
<1>4. /\ g \in Flows /\ g.at = flow[t].at /\ g.claim = flow[t].claim
      /\ g.bridge = o /\ g.swap = flow[t].swap
  BY <1>1, <1>2
<1> HIDE DEF g
<1> QED  BY <1>3, <1>4 DEF TypeOK, Moved

LEMMA SwapBegun ==
  ASSUME TypeOK, NEW t \in Tabs, NEW o \in Transfers, flow' = [flow EXCEPT ![t].swap = o],
         report' = report
  PROVE  Moved(t, flow[t].at, flow[t].bridge, o)
<1>1. flow[t] \in Flows
  BY DEF TypeOK
<1>2. ASSUME NEW f \in Flows
      PROVE  LET g == [f EXCEPT !.swap = o]
             IN /\ g \in Flows /\ g.at = f.at /\ g.claim = f.claim
                /\ g.bridge = f.bridge /\ g.swap = o
  BY DEF Flows
<1> DEFINE g == [flow[t] EXCEPT !.swap = o]
<1>3. flow' = [flow EXCEPT ![t] = g]
  OBVIOUS
<1>4. /\ g \in Flows /\ g.at = flow[t].at /\ g.claim = flow[t].claim
      /\ g.bridge = flow[t].bridge /\ g.swap = o
  BY <1>1, <1>2
<1> HIDE DEF g
<1> QED  BY <1>3, <1>4 DEF TypeOK, Moved

(* The record of transfer o is replaced by s. *)
Replaces(o, s) == transfer' = [transfer EXCEPT ![o] = s]

LEMMA Replaced ==
  ASSUME TypeOK, NEW o \in Transfers, NEW s \in States, Replaces(o, s)
  PROVE  /\ transfer' \in [Transfers -> States] /\ transfer'[o] = s
         /\ \A p \in Transfers \ {o} : transfer'[p] = transfer[p]
BY DEF Replaces, TypeOK

(* The records the actions make, field by field. *)
LEMMA Records ==
  ASSUME NEW s \in States
  PROVE  /\ \A x \in {"sent", "landed", "failed", "dead"} :
              LET r == [s EXCEPT !.tx = x]
              IN /\ r \in States /\ r.tx = x /\ r.handler = s.handler
                 /\ r.swap = s.swap /\ r.amount = s.amount
         /\ \A x \in {"ok", "threw"} :
              LET r == [s EXCEPT !.handler = x]
              IN /\ r \in States /\ r.tx = s.tx /\ r.handler = x
                 /\ r.swap = s.swap /\ r.amount = s.amount
         /\ LET r == GivenUp(s)
            IN /\ r \in States /\ r.tx = (IF s.tx = "none" THEN "dead" ELSE s.tx)
               /\ r.handler = "threw" /\ r.swap = s.swap /\ r.amount = s.amount
<1>1. ASSUME NEW x \in {"sent", "landed", "failed", "dead"}
      PROVE  LET r == [s EXCEPT !.tx = x]
             IN /\ r \in States /\ r.tx = x /\ r.handler = s.handler
                /\ r.swap = s.swap /\ r.amount = s.amount
  BY DEF States
<1>2. ASSUME NEW x \in {"ok", "threw"}
      PROVE  LET r == [s EXCEPT !.handler = x]
             IN /\ r \in States /\ r.tx = s.tx /\ r.handler = x
                /\ r.swap = s.swap /\ r.amount = s.amount
  BY DEF States
<1>3. LET r == GivenUp(s)
      IN /\ r \in States /\ r.tx = (IF s.tx = "none" THEN "dead" ELSE s.tx)
         /\ r.handler = "threw" /\ r.swap = s.swap /\ r.amount = s.amount
  BY DEF States, GivenUp
<1> QED  BY <1>1, <1>2, <1>3

(* What an action makes of transfer o: handler, transaction, kind, amount. *)
Becomes(o, h, x, w, a) ==
    /\ transfer' \in [Transfers -> States]
    /\ transfer'[o].handler = h /\ transfer'[o].tx = x
    /\ transfer'[o].swap = w /\ transfer'[o].amount = a
    /\ \A p \in Transfers \ {o} : transfer'[p] = transfer[p]

LEMMA TransferSteps ==
  ASSUME TypeOK, NEW o \in Transfers
  PROVE  /\ BridgeSends(o) => Becomes(o, "waiting", "sent", FALSE, transfer[o].amount)
         /\ BridgeConfirmed(o) => Becomes(o, "ok", "landed", FALSE, transfer[o].amount)
         /\ BridgeThrows(o) =>
              Becomes(o, "threw", IF transfer[o].tx = "none" THEN "dead" ELSE transfer[o].tx,
                      FALSE, transfer[o].amount)
         /\ SwapConfirmed(o) => Becomes(o, "ok", transfer[o].tx, TRUE, transfer[o].amount)
         /\ SwapThrows(o) => Becomes(o, "threw", transfer[o].tx, TRUE, transfer[o].amount)
         /\ Lands(o) => \E x \in {"landed", "failed"} :
              /\ Becomes(o, transfer[o].handler, x, transfer[o].swap, transfer[o].amount)
              /\ x = "failed" => transfer[o].swap /\ ~Payable(transfer[o].amount)
         /\ Dies(o) =>
              Becomes(o, transfer[o].handler, "dead", transfer[o].swap, transfer[o].amount)
<1>1. transfer[o] \in States /\ transfer[o].swap \in BOOLEAN
  BY DEF TypeOK, States
<1>2. ASSUME NEW x \in {"sent", "landed", "failed", "dead"}, transfer' = [transfer EXCEPT ![o].tx = x]
      PROVE  Becomes(o, transfer[o].handler, x, transfer[o].swap, transfer[o].amount)
  <2> DEFINE r == [transfer[o] EXCEPT !.tx = x]
  <2>1. /\ r \in States /\ r.tx = x /\ r.handler = transfer[o].handler
        /\ r.swap = transfer[o].swap /\ r.amount = transfer[o].amount
    BY <1>1, Records
  <2>2. Replaces(o, r)
    BY <1>2 DEF Replaces
  <2> HIDE DEF r
  <2> QED  BY <2>1, <2>2, Replaced DEF Becomes
<1>3. ASSUME NEW x \in {"ok", "threw"}, transfer' = [transfer EXCEPT ![o].handler = x]
      PROVE  Becomes(o, x, transfer[o].tx, transfer[o].swap, transfer[o].amount)
  <2> DEFINE r == [transfer[o] EXCEPT !.handler = x]
  <2>1. /\ r \in States /\ r.tx = transfer[o].tx /\ r.handler = x
        /\ r.swap = transfer[o].swap /\ r.amount = transfer[o].amount
    BY <1>1, Records
  <2>2. Replaces(o, r)
    BY <1>3 DEF Replaces
  <2> HIDE DEF r
  <2> QED  BY <2>1, <2>2, Replaced DEF Becomes
<1>4. ASSUME BridgeThrows(o)
      PROVE  Becomes(o, "threw", IF transfer[o].tx = "none" THEN "dead" ELSE transfer[o].tx,
                     FALSE, transfer[o].amount)
  <2> DEFINE r == GivenUp(transfer[o])
  <2>1. /\ r \in States /\ r.tx = (IF transfer[o].tx = "none" THEN "dead" ELSE transfer[o].tx)
        /\ r.handler = "threw" /\ r.swap = transfer[o].swap /\ r.amount = transfer[o].amount
    BY <1>1, Records
  <2>2. Replaces(o, r) /\ transfer[o].swap = FALSE
    BY <1>1, <1>4 DEF Replaces, BridgeThrows
  <2> HIDE DEF r
  <2> QED  BY <2>1, <2>2, Replaced DEF Becomes
<1>5. BridgeSends(o) => /\ transfer' = [transfer EXCEPT ![o].tx = "sent"]
                        /\ transfer[o].handler = "waiting" /\ transfer[o].swap = FALSE
  BY <1>1 DEF BridgeSends
<1>6. BridgeConfirmed(o) => /\ transfer' = [transfer EXCEPT ![o].handler = "ok"]
                            /\ transfer[o].tx = "landed" /\ transfer[o].swap = FALSE
  BY <1>1 DEF BridgeConfirmed
<1>7. SwapConfirmed(o) => /\ transfer' = [transfer EXCEPT ![o].handler = "ok"]
                          /\ transfer[o].swap = TRUE
  BY <1>1 DEF SwapConfirmed
<1>8. SwapThrows(o) => /\ transfer' = [transfer EXCEPT ![o].handler = "threw"]
                       /\ transfer[o].swap = TRUE
  BY <1>1 DEF SwapThrows
<1>9. Lands(o) => \E x \in {"landed", "failed"} :
                    /\ transfer' = [transfer EXCEPT ![o].tx = x]
                    /\ x = "failed" => transfer[o].swap /\ ~Payable(transfer[o].amount)
  BY <1>1 DEF Lands
<1>10. Dies(o) => transfer' = [transfer EXCEPT ![o].tx = "dead"]
  BY DEF Dies
<1> QED  BY <1>2, <1>3, <1>4, <1>5, <1>6, <1>7, <1>8, <1>9, <1>10

(* A swap o is sent: with others in flight, each may take what another needs. *)
Overtakes(o) ==
    overtaken' = IF SwapsInFlight = {} THEN overtaken ELSE overtaken \cup SwapsInFlight \cup {o}

LEMMA FreshSteps ==
  ASSUME TypeOK, NEW t \in Tabs
  PROVE  /\ BridgeIou(t) =>
              \/ flow[t].bridge = None /\ Ended(t, "failed") /\ UNCHANGED <<transfer, credits>>
              \/ /\ flow[t].at = "bridge" /\ credits >= flow[t].amount
                 /\ credits' = credits - flow[t].amount
                 /\ \E o \in Transfers : /\ transfer[o] = Unused
                                         /\ Becomes(o, "waiting", "none", FALSE, flow[t].amount)
                                         /\ Moved(t, "bridge", o, flow[t].swap)
         /\ SubmitRedeemSwap(t) =>
              \/ /\ UNCHANGED <<transfer, overtaken>>
                 /\ Ended(t, IF flow[t].claim THEN "bridgedOnly" ELSE "failed")
                 /\ flow[t].at = "submit"
              \/ /\ flow[t].at = "submit" /\ Payable(flow[t].amount)
                 /\ \E o \in Transfers : /\ transfer[o] = Unused
                                         /\ Becomes(o, "waiting", "sent", TRUE, flow[t].amount)
                                         /\ Overtakes(o)
                                         /\ Moved(t, "submit", flow[t].bridge, o)
<1>1. flow[t].amount \in 0 .. MaxEarned
  BY DEF TypeOK, Flows
<1>2. ASSUME NEW o \in Transfers, NEW s \in States, transfer' = [transfer EXCEPT ![o] = s]
      PROVE  Becomes(o, s.handler, s.tx, s.swap, s.amount)
  BY <1>2, Replaced DEF Becomes, Replaces
<1>3. ASSUME BridgeIou(t)
      PROVE  \/ flow[t].bridge = None /\ Ended(t, "failed") /\ UNCHANGED <<transfer, credits>>
             \/ /\ flow[t].at = "bridge" /\ credits >= flow[t].amount
                /\ credits' = credits - flow[t].amount
                /\ \E o \in Transfers : /\ transfer[o] = Unused
                                        /\ Becomes(o, "waiting", "none", FALSE, flow[t].amount)
                                        /\ Moved(t, "bridge", o, flow[t].swap)
  <2>1. CASE attempts = HourlyCap \/ credits < flow[t].amount
    <3>1. Ends(t, "failed") /\ flow[t].bridge = None /\ UNCHANGED <<transfer, credits>>
      BY <1>3, <2>1 DEF BridgeIou
    <3> QED  BY <3>1, EndsEffect DEF Words
  <2>2. CASE ~(attempts = HourlyCap \/ credits < flow[t].amount)
    <3> DEFINE s == [Unused EXCEPT !.amount = flow[t].amount, !.handler = "waiting"]
    <3>1. PICK o \in Fresh : /\ transfer' = [transfer EXCEPT ![o] = s]
                             /\ flow' = [flow EXCEPT ![t].bridge = o]
                             /\ UNCHANGED report
      BY <1>3, <2>2 DEF BridgeIou
    <3>2. flow[t].at = "bridge" /\ credits' = credits - flow[t].amount
      BY <1>3, <2>2 DEF BridgeIou
    <3>3. /\ s \in States /\ s.handler = "waiting" /\ s.tx = "none" /\ s.swap = FALSE
          /\ s.amount = flow[t].amount
      BY <1>1 DEF Unused, States
    <3> HIDE DEF s
    <3>4. o \in Transfers /\ transfer[o] = Unused
      BY DEF Fresh
    <3>5. Becomes(o, "waiting", "none", FALSE, flow[t].amount)
      BY <1>2, <3>1, <3>3, <3>4
    <3>6. Moved(t, "bridge", o, flow[t].swap)
      BY <3>1, <3>2, <3>4, BridgeBegun
    <3>7. credits >= flow[t].amount
      BY <1>1, <2>2, ClaimAssumption DEF TypeOK
    <3> QED  BY <3>2, <3>4, <3>5, <3>6, <3>7
  <2> QED  BY <2>1, <2>2
<1>4. ASSUME SubmitRedeemSwap(t)
      PROVE  \/ /\ UNCHANGED <<transfer, overtaken>>
                /\ Ended(t, IF flow[t].claim THEN "bridgedOnly" ELSE "failed")
                /\ flow[t].at = "submit"
             \/ /\ flow[t].at = "submit" /\ Payable(flow[t].amount)
                /\ \E o \in Transfers : /\ transfer[o] = Unused
                                        /\ Becomes(o, "waiting", "sent", TRUE, flow[t].amount)
                                        /\ Overtakes(o)
                                        /\ Moved(t, "submit", flow[t].bridge, o)
  <2> DEFINE s == [amount |-> flow[t].amount, tx |-> "sent", handler |-> "waiting", swap |-> TRUE]
  <2>1. /\ s \in States /\ s.handler = "waiting" /\ s.tx = "sent" /\ s.swap = TRUE
        /\ s.amount = flow[t].amount
    BY <1>1 DEF States
  <2>2. flow[t].at = "submit"
    BY <1>4 DEF SubmitRedeemSwap
  <2>3. CASE RedeemFails(t, "failed") /\ UNCHANGED <<transfer, overtaken>>
    BY <2>2, <2>3, EndsEffect DEF RedeemFails, Words
  <2>4. CASE ~(RedeemFails(t, "failed") /\ UNCHANGED <<transfer, overtaken>>)
    <3>1. /\ Payable(flow[t].amount)
          /\ \E o \in Fresh : /\ transfer' = [transfer EXCEPT ![o] = s]
                              /\ flow' = [flow EXCEPT ![t].swap = o]
                              /\ Overtakes(o)
          /\ UNCHANGED report
      BY <1>4, <2>4 DEF SubmitRedeemSwap, Overtakes
    <3>2. PICK o \in Fresh : /\ transfer' = [transfer EXCEPT ![o] = s]
                             /\ flow' = [flow EXCEPT ![t].swap = o]
                             /\ Overtakes(o)
      BY <3>1
    <3> HIDE DEF s
    <3>3. o \in Transfers /\ transfer[o] = Unused
      BY DEF Fresh
    <3>4. Becomes(o, "waiting", "sent", TRUE, flow[t].amount)
      BY <1>2, <2>1, <3>2, <3>3
    <3>5. Moved(t, "submit", flow[t].bridge, o)
      BY <2>2, <3>1, <3>2, <3>3, SwapBegun
    <3> QED  BY <2>2, <3>1, <3>2, <3>3, <3>4, <3>5
  <2> QED  BY <2>3, <2>4
<1> QED  BY <1>3, <1>4

LEMMA LastingStep ==
  ASSUME TypeOK, Handled, [Next]_vars
  PROVE  transfer' \in [Transfers -> States] /\ Handled' /\ Lasting
<1>1. CASE transfer' = transfer
  BY <1>1 DEF TypeOK, Handled, Lasting
<1>2. ASSUME NEW o \in Transfers, NEW h, NEW x, NEW w, NEW a, Becomes(o, h, x, w, a),
             \/ transfer[o] = Unused /\ h = "waiting"
             \/ /\ w = transfer[o].swap /\ h # "none"
                /\ transfer[o].tx \in {"landed", "failed", "dead"} => x = transfer[o].tx
                /\ transfer[o].handler = "threw" => h = "threw"
      PROVE  transfer' \in [Transfers -> States] /\ Handled' /\ Lasting
  <2>1. Unused.tx = "none" /\ Unused.handler = "none"
    BY DEF Unused
  <2> QED  BY <1>2, <2>1 DEF Handled, Lasting, Becomes
<1>3. ASSUME NEW t \in Tabs, BridgeIou(t) \/ SubmitRedeemSwap(t)
      PROVE  transfer' \in [Transfers -> States] /\ Handled' /\ Lasting
  BY <1>1, <1>2, <1>3, FreshSteps
<1>4. ASSUME NEW o \in Transfers,
             \/ BridgeSends(o) \/ BridgeConfirmed(o) \/ BridgeThrows(o)
             \/ SwapConfirmed(o) \/ SwapThrows(o) \/ Lands(o) \/ Dies(o)
      PROVE  transfer' \in [Transfers -> States] /\ Handled' /\ Lasting
  <2>1. transfer[o].swap \in BOOLEAN
    BY DEF TypeOK, States
  <2>2. CASE BridgeSends(o)
    <3>1. transfer[o].swap = FALSE /\ transfer[o].tx = "none" /\ transfer[o].handler = "waiting"
      BY <2>1, <2>2 DEF BridgeSends
    <3> QED  BY <1>2, <2>2, <3>1, TransferSteps
  <2>3. CASE BridgeConfirmed(o)
    <3>1. transfer[o].swap = FALSE /\ transfer[o].tx = "landed" /\ transfer[o].handler = "waiting"
      BY <2>1, <2>3 DEF BridgeConfirmed
    <3> QED  BY <1>2, <2>3, <3>1, TransferSteps
  <2>4. CASE BridgeThrows(o)
    <3>1. transfer[o].swap = FALSE
      BY <2>1, <2>4 DEF BridgeThrows
    <3> QED  BY <1>2, <2>4, <3>1, TransferSteps
  <2>5. CASE SwapConfirmed(o)
    <3>1. transfer[o].swap = TRUE /\ transfer[o].handler = "waiting"
      BY <2>1, <2>5 DEF SwapConfirmed
    <3> QED  BY <1>2, <2>5, <3>1, TransferSteps
  <2>6. CASE SwapThrows(o)
    <3>1. transfer[o].swap = TRUE
      BY <2>1, <2>6 DEF SwapThrows
    <3> QED  BY <1>2, <2>6, <3>1, TransferSteps
  <2>7. CASE Lands(o) \/ Dies(o)
    <3>1. transfer[o].tx = "sent" /\ transfer[o].handler # "none"
      BY <2>7 DEF Lands, Dies, Handled
    <3> QED  BY <1>2, <2>7, <3>1, TransferSteps
  <2> QED  BY <1>4, <2>2, <2>3, <2>4, <2>5, <2>6, <2>7
<1>5. CASE UNCHANGED vars
  BY <1>1, <1>5 DEF vars
<1>6. ASSUME NEW t \in Tabs,
             \/ Claim(t) \/ Redeem(t) \/ SeesAccount(t) \/ SignsSetup(t) \/ WalletRefuses(t)
             \/ GivesUp(t) \/ BuildRedeem(t) \/ SignsSwap(t)
      PROVE  transfer' = transfer
  BY <1>6 DEF Claim, Redeem, SeesAccount, SignsSetup, WalletRefuses, GivesUp, BuildRedeem,
              SignsSwap
<1>7. AccountCreated \/ Earn \/ HourPasses \/ Drain \/ TopUp => transfer' = transfer
  BY DEF AccountCreated, Earn, HourPasses, Drain, TopUp
<1> QED  BY <1>1, <1>3, <1>4, <1>5, <1>6, <1>7 DEF Next

(* The client's half of the invariant. *)
ClientFits ==
    flow \in [Tabs -> Flows] /\ report \in [Tabs -> Reports] /\ FlowShape /\ ReportsFit

LEMMA Kept ==
  ASSUME TypeOK, Lasting, overtaken \subseteq overtaken', NEW u \in Tabs
  PROVE  /\ FlowFits(u) /\ flow'[u] = flow[u] => FlowFits(u)'
         /\ ReportFits(u) /\ report'[u] = report[u] => ReportFits(u)'
<1>1. /\ flow[u].bridge \in Transfers \cup {None} /\ flow[u].swap \in Transfers \cup {None}
      /\ report[u].bridge \in Transfers \cup {None} /\ report[u].swap \in Transfers \cup {None}
  BY DEF TypeOK, Flows, Reports
<1>2. ASSUME FlowFits(u), flow'[u] = flow[u] PROVE FlowFits(u)'
  BY <1>1, <1>2 DEF FlowFits, Lasting
<1>3. ASSUME ReportFits(u), report'[u] = report[u] PROVE ReportFits(u)'
  BY <1>1, <1>3 DEF ReportFits, Lasting
<1> QED  BY <1>2, <1>3

LEMMA AfterEnd ==
  ASSUME TypeOK, FlowShape, ReportsFit, Lasting, overtaken \subseteq overtaken', NEW t \in Tabs,
         NEW says \in Words, Ended(t, says),
         says = "untouched" => flow[t].bridge = None,
         says = "bridgedOnly" => flow[t].bridge # None /\ transfer'[flow[t].bridge].tx = "landed",
         says = "failed" /\ flow[t].bridge # None => transfer'[flow[t].bridge].handler = "threw",
         says = "claimed" =>
           /\ flow[t].swap # None
           /\ transfer'[flow[t].swap].tx = "landed" \/ flow[t].swap \in overtaken'
  PROVE  ClientFits'
<1>0. flow[t].swap # None /\ ~Undecided(t) => transfer'[flow[t].swap].tx \in {"failed", "dead"}
  <2>1. flow[t].swap # None => flow[t].swap \in Transfers
    BY DEF TypeOK, Flows
  <2> QED  BY <2>1 DEF Undecided, Lasting
<1>1. FlowFits(t)' /\ ReportFits(t)'
  BY <1>0 DEF FlowFits, ReportFits, Ended
<1>2. ASSUME NEW u \in Tabs \ {t} PROVE FlowFits(u)' /\ ReportFits(u)'
  BY Kept DEF FlowShape, ReportsFit, Ended
<1>3. FlowShape' /\ ReportsFit'
  BY <1>1, <1>2 DEF FlowShape, ReportsFit
<1> QED  BY <1>3 DEF ClientFits, Ended

LEMMA AfterMove ==
  ASSUME TypeOK, FlowShape, ReportsFit, Lasting, overtaken \subseteq overtaken', NEW t \in Tabs,
         NEW step, NEW b \in Transfers \cup {None}, NEW s \in Transfers \cup {None},
         Moved(t, step, b, s),
         step \in {"account", "setup", "waiting"} => b = None /\ s = None, step # "idle",
         step \in {"account", "setup", "waiting", "bridge"} => flow[t].claim,
         ~flow[t].claim => b = None,
         flow[t].claim /\ step \in {"build", "sign", "submit"} =>
           b # None /\ transfer'[b].tx = "landed",
         b # None => transfer'[b].handler # "none" /\ ~transfer'[b].swap,
         s # None => transfer'[s].handler # "none" /\ transfer'[s].swap
  PROVE  ClientFits'
<1>1. FlowFits(t)'
  BY DEF FlowFits, Moved
<1>2. ASSUME NEW u \in Tabs PROVE ReportFits(u)'
  BY Kept DEF ReportsFit, Moved
<1>3. ASSUME NEW u \in Tabs \ {t} PROVE FlowFits(u)'
  BY Kept DEF FlowShape, Moved
<1>4. FlowShape' /\ ReportsFit'
  BY <1>1, <1>2, <1>3 DEF FlowShape, ReportsFit
<1> QED  BY <1>4 DEF ClientFits, Moved, TypeOK

LEMMA AfterNothing ==
  ASSUME TypeOK, FlowShape, ReportsFit, Lasting, overtaken \subseteq overtaken', UNCHANGED <<flow, report>>
  PROVE  ClientFits'
BY Kept DEF ClientFits, FlowShape, ReportsFit, TypeOK

(* A button is pressed: a flow without transfers begins. *)
LEMMA AfterStart ==
  ASSUME TypeOK, FlowShape, ReportsFit, Lasting, overtaken \subseteq overtaken', NEW t \in Tabs,
         NEW what \in Flows, Starts(t, what), what.bridge = None, what.swap = None,
         what.at = (IF what.claim THEN "account" ELSE "build")
  PROVE  ClientFits'
<1>1. FlowFits(t)' /\ ReportFits(t)'
  BY StartsEffect DEF FlowFits, ReportFits
<1>2. ASSUME NEW u \in Tabs \ {t} PROVE FlowFits(u)' /\ ReportFits(u)'
  BY Kept, StartsEffect DEF FlowShape, ReportsFit
<1>3. FlowShape' /\ ReportsFit'
  BY <1>1, <1>2 DEF FlowShape, ReportsFit
<1> QED  BY <1>3, StartsEffect DEF ClientFits

LEMMA TabStep ==
  ASSUME IInv, NEW t \in Tabs, Lasting, overtaken \subseteq overtaken',
         \/ Claim(t) \/ Redeem(t) \/ SeesAccount(t) \/ SignsSetup(t) \/ WalletRefuses(t)
         \/ GivesUp(t) \/ BridgeIou(t) \/ BuildRedeem(t) \/ SignsSwap(t) \/ SubmitRedeemSwap(t)
  PROVE  ClientFits'
<1> USE DEF IInv
<1>1. /\ flow[t].bridge \in Transfers \cup {None} /\ flow[t].swap \in Transfers \cup {None}
      /\ flow[t].at \in Steps /\ FlowFits(t)
      /\ \A o \in Transfers \cup {None} : o # None => o \in Transfers
  BY DEF TypeOK, Flows, FlowShape
<1>2. ASSUME NEW step \in Steps \ {"idle"}, GoesOn(t, step),
             step \in {"account", "setup", "waiting"} =>
               flow[t].at \in {"account", "setup", "waiting"},
             step = "bridge" => flow[t].at \in {"account", "waiting"},
             step \in {"build", "sign", "submit"} => flow[t].at \in {"build", "sign", "submit"}
      PROVE  ClientFits'
  <2>1. Moved(t, step, flow[t].bridge, flow[t].swap)
    BY <1>2, GoesOnEffect
  <2>2. /\ flow[t].bridge # None =>
             transfer'[flow[t].bridge].handler # "none" /\ ~transfer'[flow[t].bridge].swap
        /\ flow[t].swap # None =>
             transfer'[flow[t].swap].handler # "none" /\ transfer'[flow[t].swap].swap
    BY <1>1 DEF FlowFits, Lasting
  <2>3. flow[t].claim /\ step \in {"build", "sign", "submit"} =>
          flow[t].bridge # None /\ transfer'[flow[t].bridge].tx = "landed"
    BY <1>1, <1>2 DEF FlowFits, Lasting
  <2>4. /\ step \in {"account", "setup", "waiting"} => flow[t].bridge = None /\ flow[t].swap = None
        /\ step \in {"account", "setup", "waiting", "bridge"} => flow[t].claim
        /\ ~flow[t].claim => flow[t].bridge = None
    BY <1>1, <1>2 DEF FlowFits
  <2> QED  BY <1>1, <1>2, <2>1, <2>2, <2>3, <2>4, AfterMove
<1>3. ASSUME Ended(t, IF flow[t].claim THEN "bridgedOnly" ELSE "failed")
             \/ Ended(t, IF flow[t].claim THEN "bridgedOnly" ELSE "unheard"),
             flow[t].at \in {"build", "sign", "submit"}
      PROVE  ClientFits'
  <2>1. flow[t].claim => flow[t].bridge # None /\ transfer'[flow[t].bridge].tx = "landed"
    BY <1>1, <1>3 DEF FlowFits, Lasting
  <2>2. ~flow[t].claim => flow[t].bridge = None
    BY <1>1 DEF FlowFits
  <2>3. CASE flow[t].claim
    <3>1. Ended(t, "bridgedOnly")
      BY <1>3, <2>3
    <3> QED  BY <2>1, <2>3, <3>1, AfterEnd DEF Words
  <2>4. CASE ~flow[t].claim
    <3>1. Ended(t, "failed") \/ Ended(t, "unheard")
      BY <1>3, <2>4
    <3> QED  BY <2>2, <2>4, <3>1, AfterEnd DEF Words
  <2> QED  BY <2>3, <2>4
<1>4. ASSUME Ends(t, "unheard") PROVE ClientFits'
  BY <1>4, EndsEffect, AfterEnd DEF Words
<1>5. CASE Claim(t)
  <2>1. PICK amount \in 1 .. MaxEarned :
          Starts(t, Begins("account", amount, TRUE))
    BY <1>5 DEF Claim
  <2> DEFINE what == Begins("account", amount, TRUE)
  <2>2. what \in Flows /\ what.bridge = None /\ what.swap = None
      /\ what.claim /\ what.at = "account"
    BY ClaimAssumption DEF Begins, Flows, Steps
  <2>3. Starts(t, what)
    BY <2>1
  <2> HIDE DEF what
  <2> QED  BY <2>2, <2>3, AfterStart
<1>6. CASE Redeem(t)
  <2>1. PICK amount \in 1 .. MaxEarned :
          Starts(t, Begins("build", amount, FALSE))
    BY <1>6 DEF Redeem
  <2> DEFINE what == Begins("build", amount, FALSE)
  <2>2. what \in Flows /\ what.bridge = None /\ what.swap = None
      /\ ~what.claim /\ what.at = "build"
    BY ClaimAssumption DEF Begins, Flows, Steps
  <2>3. Starts(t, what)
    BY <2>1
  <2> HIDE DEF what
  <2> QED  BY <2>2, <2>3, AfterStart
<1>7. CASE SeesAccount(t)
  <2>1. \/ flow[t].at \in {"account", "waiting"} /\ GoesOn(t, "bridge")
        \/ flow[t].at = "account" /\ GoesOn(t, "setup")
    BY <1>7 DEF SeesAccount
  <2> QED  BY <1>2, <2>1 DEF Steps
<1>8. CASE SignsSetup(t)
  <2>1. flow[t].at = "setup" /\ GoesOn(t, "waiting")
    BY <1>8 DEF SignsSetup
  <2> QED  BY <1>2, <2>1 DEF Steps
<1>9. CASE WalletRefuses(t)
  <2>1. CASE flow[t].at \in {"setup", "waiting"} /\ Ends(t, "untouched")
    <3>1. flow[t].bridge = None
      BY <1>1, <2>1 DEF FlowFits
    <3> QED  BY <2>1, <3>1, EndsEffect, AfterEnd DEF Words
  <2>2. CASE flow[t].at = "sign" /\ RedeemFails(t, "failed")
    BY <1>3, <2>2, EndsEffect DEF RedeemFails, Words
  <2> QED  BY <1>9, <2>1, <2>2 DEF WalletRefuses
<1>10. CASE GivesUp(t)
  <2>1. CASE flow[t].at \in {"build", "submit"} /\ RedeemFails(t, "unheard")
    BY <1>3, <2>1, EndsEffect DEF RedeemFails, Words
  <2> QED  BY <1>4, <1>10, <2>1 DEF GivesUp
<1>11. CASE BridgeIou(t)
  <2>1. CASE flow[t].bridge = None /\ Ended(t, "failed")
    BY <2>1, AfterEnd DEF Words
  <2>2. ASSUME NEW o \in Transfers, Becomes(o, "waiting", "none", FALSE, flow[t].amount),
               Moved(t, "bridge", o, flow[t].swap), flow[t].at = "bridge"
        PROVE  ClientFits'
    <3>1. o # None /\ transfer'[o].handler # "none" /\ ~transfer'[o].swap
      BY <2>2, ClaimAssumption DEF Becomes
    <3>2. flow[t].swap # None =>
            transfer'[flow[t].swap].handler # "none" /\ transfer'[flow[t].swap].swap
      BY <1>1 DEF FlowFits, Lasting
    <3>3. flow[t].claim
      BY <1>1, <2>2 DEF FlowFits
    <3> QED  BY <1>1, <2>2, <3>1, <3>2, <3>3, AfterMove
  <2> QED  BY <1>11, <2>1, <2>2, FreshSteps
<1>12. CASE BuildRedeem(t)
  <2>1. flow[t].at = "build" /\ (GoesOn(t, "sign") \/ RedeemFails(t, "failed"))
    BY <1>12 DEF BuildRedeem
  <2>2. CASE GoesOn(t, "sign")
    BY <1>2, <2>1, <2>2 DEF Steps
  <2>3. CASE RedeemFails(t, "failed")
    BY <1>3, <2>1, <2>3, EndsEffect DEF RedeemFails, Words
  <2> QED  BY <2>1, <2>2, <2>3
<1>13. CASE SignsSwap(t)
  <2>1. flow[t].at = "sign" /\ GoesOn(t, "submit")
    BY <1>13 DEF SignsSwap
  <2> QED  BY <1>2, <2>1 DEF Steps
<1>14. CASE SubmitRedeemSwap(t)
  <2>1. CASE /\ Ended(t, IF flow[t].claim THEN "bridgedOnly" ELSE "failed")
             /\ flow[t].at = "submit"
    BY <1>3, <2>1
  <2>2. ASSUME NEW o \in Transfers, Becomes(o, "waiting", "sent", TRUE, flow[t].amount),
               Moved(t, "submit", flow[t].bridge, o), flow[t].at = "submit"
        PROVE  ClientFits'
    <3>1. transfer'[o].handler # "none" /\ transfer'[o].swap
      BY <2>2 DEF Becomes
    <3>2. /\ flow[t].bridge # None =>
               transfer'[flow[t].bridge].handler # "none" /\ ~transfer'[flow[t].bridge].swap
          /\ ~flow[t].claim => flow[t].bridge = None
          /\ flow[t].claim =>
               flow[t].bridge # None /\ transfer'[flow[t].bridge].tx = "landed"
      BY <1>1, <2>2 DEF FlowFits, Lasting
    <3> QED  BY <1>1, <2>2, <3>1, <3>2, AfterMove
  <2> QED  BY <1>14, <2>1, <2>2, FreshSteps
<1> QED  BY <1>5, <1>6, <1>7, <1>8, <1>9, <1>10, <1>11, <1>12, <1>13, <1>14

LEMMA HandlerStep ==
  ASSUME IInv, NEW o \in Transfers, Lasting, overtaken \subseteq overtaken',
         \/ BridgeSends(o) \/ BridgeConfirmed(o) \/ BridgeThrows(o)
         \/ SwapConfirmed(o) \/ SwapThrows(o) \/ Lands(o) \/ Dies(o)
  PROVE  ClientFits'
<1> USE DEF IInv
<1>1. ASSUME NEW t \in Tabs
      PROVE  /\ flow[t].bridge \in Transfers \cup {None} /\ flow[t].swap \in Transfers \cup {None}
             /\ FlowFits(t)
  BY DEF TypeOK, Flows, FlowShape
<1>2. CASE UNCHANGED <<flow, report>>
  BY <1>2, AfterNothing
<1>3. ASSUME NEW t \in Tabs, flow[t].at = "bridge", flow[t].bridge = o
      PROVE  ~transfer[o].swap /\ o # None
  BY <1>1, <1>3, ClaimAssumption DEF FlowFits
<1>4. ASSUME NEW t \in Tabs, flow[t].at = "submit", flow[t].swap = o
      PROVE  transfer[o].swap /\ o # None
  BY <1>1, <1>4, ClaimAssumption DEF FlowFits
<1>5. CASE BridgeSends(o) \/ Lands(o) \/ Dies(o)
  BY <1>2, <1>5 DEF BridgeSends, Lands, Dies
<1>6. CASE BridgeConfirmed(o)
  <2>1. ~transfer[o].swap /\ (UNCHANGED <<flow, report>> \/ \E t \in Awaiting(o) : GoesOn(t, "build"))
    BY <1>6 DEF BridgeConfirmed, Unheard
  <2>2. ASSUME NEW t \in Awaiting(o), GoesOn(t, "build") PROVE ClientFits'
    <3>1. t \in Tabs /\ flow[t].at = "bridge" /\ flow[t].bridge = o
      BY <1>4, <2>1 DEF Awaiting
    <3>2. Moved(t, "build", o, flow[t].swap)
      BY <2>2, <3>1, GoesOnEffect DEF Steps
    <3>3. transfer'[o].tx = "landed" /\ transfer'[o].handler # "none" /\ ~transfer'[o].swap
      BY <1>6, TransferSteps DEF Becomes
    <3>4. flow[t].swap # None =>
            transfer'[flow[t].swap].handler # "none" /\ transfer'[flow[t].swap].swap
      BY <1>1, <3>1 DEF FlowFits, Lasting
    <3>5. flow[t].claim
      BY <1>1, <3>1 DEF FlowFits
    <3> QED  BY <1>1, <1>3, <3>1, <3>2, <3>3, <3>4, <3>5, AfterMove
  <2> QED  BY <1>2, <2>1, <2>2
<1>7. CASE BridgeThrows(o)
  <2>1. ~transfer[o].swap /\ (UNCHANGED <<flow, report>> \/ \E t \in Awaiting(o) : Ends(t, "failed"))
    BY <1>7 DEF BridgeThrows, Unheard
  <2>2. ASSUME NEW t \in Awaiting(o), Ends(t, "failed") PROVE ClientFits'
    <3>1. t \in Tabs /\ flow[t].bridge = o
      BY <1>4, <2>1 DEF Awaiting
    <3>2. transfer'[o].handler = "threw"
      BY <1>7, TransferSteps DEF Becomes
    <3> QED  BY <2>2, <3>1, <3>2, EndsEffect, AfterEnd DEF Words
  <2> QED  BY <1>2, <2>1, <2>2
<1>8. CASE SwapConfirmed(o)
  <2>1. transfer[o].swap /\ (UNCHANGED <<flow, report>> \/ \E t \in Awaiting(o) : Ends(t, "claimed"))
    BY <1>8 DEF SwapConfirmed, Unheard
  <2>2. ASSUME NEW t \in Awaiting(o), Ends(t, "claimed") PROVE ClientFits'
    <3>1. t \in Tabs /\ flow[t].swap = o /\ o # None
      BY <1>3, <1>4, <2>1 DEF Awaiting
    <3>2. transfer'[o].tx = "landed" \/ o \in overtaken'
      <4>1. overtaken' = overtaken /\ transfer[o].tx \in {"landed", "failed"}
        BY <1>8 DEF SwapConfirmed
      <4>2. transfer'[o].tx = transfer[o].tx
        BY <1>8, TransferSteps DEF Becomes
      <4> QED  BY <2>1, <4>1, <4>2 DEF Funded
    <3> QED  BY <2>2, <3>1, <3>2, EndsEffect, AfterEnd DEF Words
  <2> QED  BY <1>2, <2>1, <2>2
<1>9. CASE SwapThrows(o)
  <2>1. transfer[o].swap
        /\ (UNCHANGED <<flow, report>> \/ \E t \in Awaiting(o) : RedeemFails(t, "failed"))
    BY <1>9 DEF SwapThrows, Unheard
  <2>2. ASSUME NEW t \in Awaiting(o), RedeemFails(t, "failed") PROVE ClientFits'
    <3>1. t \in Tabs /\ flow[t].at = "submit"
      BY <1>3, <2>1 DEF Awaiting
    <3>2. /\ flow[t].claim => flow[t].bridge # None /\ transfer'[flow[t].bridge].tx = "landed"
          /\ ~flow[t].claim => flow[t].bridge = None
      BY <1>1, <3>1 DEF FlowFits, Lasting
    <3>3. CASE flow[t].claim
      <4>1. Ended(t, "bridgedOnly")
        BY <2>2, <3>1, <3>3, EndsEffect DEF RedeemFails, Words
      <4> QED  BY <3>1, <3>2, <3>3, <4>1, AfterEnd DEF Words
    <3>4. CASE ~flow[t].claim
      <4>1. Ended(t, "failed")
        BY <2>2, <3>1, <3>4, EndsEffect DEF RedeemFails, Words
      <4> QED  BY <3>1, <3>2, <3>4, <4>1, AfterEnd DEF Words
    <3> QED  BY <3>3, <3>4
  <2> QED  BY <1>2, <2>1, <2>2
<1> QED  BY <1>5, <1>6, <1>7, <1>8, <1>9

(* What overtook a swap is not forgotten. *)
LEMMA OvertakenStep ==
  ASSUME TypeOK, [Next]_vars
  PROVE  overtaken \subseteq overtaken' /\ overtaken' \subseteq Transfers /\ covered' \in BOOLEAN
<1> USE DEF TypeOK
<1>1. ASSUME NEW t \in Tabs, SubmitRedeemSwap(t)
      PROVE  overtaken \subseteq overtaken' /\ overtaken' \subseteq Transfers /\ covered' \in BOOLEAN
  BY <1>1 DEF SubmitRedeemSwap, SwapsInFlight, Fresh
<1>2. ASSUME Drain \/ TopUp
      PROVE  overtaken \subseteq overtaken' /\ overtaken' \subseteq Transfers /\ covered' \in BOOLEAN
  BY <1>2 DEF Drain, TopUp, SwapsInFlight
<1> QED  BY <1>1, <1>2 DEF Next, vars, Claim, Redeem, SeesAccount, SignsSetup, WalletRefuses,
           GivesUp, BridgeIou, BuildRedeem, SignsSwap, BridgeSends, BridgeConfirmed, BridgeThrows,
           SwapConfirmed, SwapThrows, Lands, Dies, AccountCreated, Earn, HourPasses

LEMMA ClientStep ==
  ASSUME IInv, [Next]_vars
  PROVE  ClientFits'
<1> USE DEF IInv
<1>1. Lasting /\ overtaken \subseteq overtaken'
  BY LastingStep, OvertakenStep
<1>2. CASE UNCHANGED vars \/ AccountCreated \/ Earn \/ HourPasses \/ Drain \/ TopUp
  <2>1. UNCHANGED <<flow, report>>
    BY <1>2 DEF vars, AccountCreated, Earn, HourPasses, Drain, TopUp
  <2> QED  BY <1>1, <2>1, AfterNothing
<1> QED  BY <1>1, <1>2, TabStep, HandlerStep DEF Next

LEMMA TokenStep ==
  ASSUME TypeOK, [Next]_vars
  PROVE  /\ {earned, credits, creds, astroid}' \subseteq Nat
         /\ account' \in {"missing", "asked", "there"} /\ attempts' \in 0 .. HourlyCap
<1> USE ClaimAssumption DEF tokens
<1>1. /\ earned \in Nat /\ credits \in Nat /\ creds \in Nat /\ astroid \in Nat
      /\ account \in {"missing", "asked", "there"} /\ attempts \in 0 .. HourlyCap
  BY DEF TypeOK
<1>2. /\ \A o \in Transfers : transfer[o].amount \in Nat
      /\ \A t \in Tabs : flow[t].amount \in Nat
  BY DEF TypeOK, States, Flows
<1>3. ASSUME NEW t \in Tabs, BridgeIou(t)
      PROVE  /\ {earned, credits, creds, astroid}' \subseteq Nat
             /\ account' \in {"missing", "asked", "there"} /\ attempts' \in 0 .. HourlyCap
  <2>1. credits' = credits \/ (credits >= flow[t].amount /\ credits' = credits - flow[t].amount)
    BY <1>3, FreshSteps
  <2>2. credits' \in Nat
    BY <1>1, <1>2, <2>1
  <2>3. attempts' \in 0 .. HourlyCap /\ UNCHANGED <<earned, creds, astroid, account>>
    BY <1>1, <1>3 DEF BridgeIou
  <2> QED  BY <1>1, <2>2, <2>3
<1>4. ASSUME NEW o \in Transfers, Lands(o) \/ BridgeThrows(o)
      PROVE  /\ {earned, credits, creds, astroid}' \subseteq Nat
             /\ account' \in {"missing", "asked", "there"} /\ attempts' \in 0 .. HourlyCap
  BY <1>1, <1>2, <1>4 DEF Lands, BridgeThrows, Payable
<1>5. ASSUME AccountCreated \/ Earn \/ HourPasses
      PROVE  /\ {earned, credits, creds, astroid}' \subseteq Nat
             /\ account' \in {"missing", "asked", "there"} /\ attempts' \in 0 .. HourlyCap
  BY <1>1, <1>5 DEF AccountCreated, Earn, HourPasses
<1>6. ASSUME NEW t \in Tabs, SignsSetup(t)
      PROVE  /\ {earned, credits, creds, astroid}' \subseteq Nat
             /\ account' \in {"missing", "asked", "there"} /\ attempts' \in 0 .. HourlyCap
  BY <1>1, <1>6 DEF SignsSetup
<1>7. ASSUME UNCHANGED <<earned, tokens, account, attempts>>
      PROVE  /\ {earned, credits, creds, astroid}' \subseteq Nat
             /\ account' \in {"missing", "asked", "there"} /\ attempts' \in 0 .. HourlyCap
  BY <1>1, <1>7
<1>8. ASSUME NEW t \in Tabs,
             \/ Claim(t) \/ Redeem(t) \/ SeesAccount(t) \/ WalletRefuses(t) \/ GivesUp(t)
             \/ BuildRedeem(t) \/ SignsSwap(t) \/ SubmitRedeemSwap(t)
      PROVE  UNCHANGED <<earned, tokens, account, attempts>>
  BY <1>8 DEF Claim, Redeem, SeesAccount, WalletRefuses, GivesUp, BuildRedeem, SignsSwap,
              SubmitRedeemSwap
<1>9. ASSUME NEW o \in Transfers,
             BridgeSends(o) \/ BridgeConfirmed(o) \/ SwapConfirmed(o) \/ SwapThrows(o) \/ Dies(o)
      PROVE  UNCHANGED <<earned, tokens, account, attempts>>
  BY <1>9 DEF BridgeSends, BridgeConfirmed, SwapConfirmed, SwapThrows, Dies
<1>10. CASE UNCHANGED vars \/ Drain \/ TopUp
  BY <1>7, <1>10 DEF vars, Drain, TopUp
<1> QED  BY <1>3, <1>4, <1>5, <1>6, <1>7, <1>8, <1>9, <1>10 DEF Next

(* A swap is sent only when both its legs would succeed, and while it is    *)
(* the only one nothing of this wallet takes from it; what others take      *)
(* overtakes it.                                                            *)
LEMMA FundedStep ==
  ASSUME IInv, [Next]_vars
  PROVE  Funded'
<1> USE DEF IInv
<1>1. /\ creds \in Nat
      /\ \A o \in Transfers : transfer[o].amount \in Nat /\ transfer[o].swap \in BOOLEAN
  BY DEF TypeOK, States
<1>2. ASSUME UNCHANGED <<creds, covered, overtaken>>, transfer' = transfer PROVE Funded'
  BY <1>2 DEF Funded, SwapsInFlight
<1>3. ASSUME NEW o \in Transfers, NEW h, NEW x, NEW w, NEW a, Becomes(o, h, x, w, a),
             w => transfer[o].swap /\ (x = transfer[o].tx \/ x \in {"landed", "dead"})
                  /\ a = transfer[o].amount,
             UNCHANGED <<creds, covered, overtaken>>
      PROVE  Funded'
  <2>1. \A p \in SwapsInFlight' : p \in SwapsInFlight /\ transfer'[p].amount = transfer[p].amount
    BY <1>3 DEF SwapsInFlight, Becomes
  <2>2. \A p \in Transfers : transfer'[p].swap /\ transfer'[p].tx = "failed" => p \in overtaken'
    BY <1>3 DEF Funded, Becomes
  <2> QED  BY <1>3, <2>1, <2>2 DEF Funded
<1>4. ASSUME NEW t \in Tabs, BridgeIou(t) PROVE Funded'
  <2>1. UNCHANGED <<creds, covered, overtaken>>
    BY <1>4 DEF BridgeIou
  <2> QED  BY <1>2, <1>3, <1>4, <2>1, FreshSteps
<1>5. ASSUME NEW t \in Tabs, SubmitRedeemSwap(t) PROVE Funded'
  <2>1. UNCHANGED <<creds, covered>>
    BY <1>5 DEF SubmitRedeemSwap, tokens
  <2>2. CASE UNCHANGED <<transfer, overtaken>>
    BY <1>2, <2>1, <2>2
  <2>3. ASSUME NEW o \in Transfers, Becomes(o, "waiting", "sent", TRUE, flow[t].amount),
               Payable(flow[t].amount), Overtakes(o)
        PROVE  Funded'
    <3>1. SwapsInFlight' = SwapsInFlight \cup {o} /\ overtaken \subseteq overtaken'
      BY <2>3 DEF SwapsInFlight, Becomes, Overtakes
    <3>2. \A p \in Transfers : transfer'[p].swap /\ transfer'[p].tx = "failed" => p \in overtaken'
      BY <2>3, <3>1 DEF Funded, Becomes
    <3>3. CASE SwapsInFlight = {}
      <4>1. /\ SwapsInFlight' = {o} /\ transfer'[o].amount = flow[t].amount
            /\ creds' >= flow[t].amount /\ covered'
        BY <2>1, <2>3, <3>1, <3>3 DEF Becomes, Payable
      <4> QED  BY <3>2, <4>1 DEF Funded
    <3>4. CASE SwapsInFlight # {}
      <4>1. SwapsInFlight' \subseteq overtaken'
        BY <2>3, <3>1, <3>4 DEF Overtakes
      <4> QED  BY <3>2, <4>1 DEF Funded
    <3> QED  BY <3>3, <3>4
  <2> QED  BY <1>5, <2>2, <2>3, FreshSteps
<1>6. ASSUME NEW o \in Transfers, Lands(o) PROVE Funded'
  <2>1. transfer[o].tx = "sent" /\ UNCHANGED <<covered, overtaken>>
    BY <1>6 DEF Lands
  <2>2. PICK x \in {"landed", "failed"} :
          /\ Becomes(o, transfer[o].handler, x, transfer[o].swap, transfer[o].amount)
          /\ x = "failed" => transfer[o].swap /\ ~Payable(transfer[o].amount)
    BY <1>6, TransferSteps
  <2>3. x = "failed" => o \in overtaken
    BY <2>1, <2>2 DEF Funded, SwapsInFlight, Payable
  <2>4. \A p \in Transfers : transfer'[p].swap /\ transfer'[p].tx = "failed" => p \in overtaken'
    BY <2>1, <2>2, <2>3 DEF Funded, Becomes
  <2>5. \A p \in SwapsInFlight' : /\ p \in SwapsInFlight /\ p # o
                                  /\ transfer'[p].amount = transfer[p].amount
    BY <2>2 DEF SwapsInFlight, Becomes
  <2>6. CASE transfer[o].swap
    <3>1. o \in SwapsInFlight
      BY <2>1, <2>6 DEF SwapsInFlight
    <3>2. \A p \in SwapsInFlight' : p \in overtaken'
      BY <2>1, <2>5, <3>1 DEF Funded
    <3> QED  BY <2>4, <3>2 DEF Funded
  <2>7. CASE ~transfer[o].swap
    <3>1. creds' = creds + transfer[o].amount
      BY <1>6, <2>7 DEF Lands
    <3>2. SUFFICES ASSUME NEW p \in SwapsInFlight', p \notin overtaken'
                   PROVE  /\ creds' >= transfer'[p].amount /\ covered'
                          /\ \A q \in SwapsInFlight' : q = p
      BY <2>4 DEF Funded
    <3>3. /\ creds >= transfer[p].amount /\ covered /\ p \in Transfers
          /\ \A q \in SwapsInFlight : q = p
      BY <2>1, <2>5, <3>2 DEF Funded, SwapsInFlight
    <3>4. creds' >= transfer'[p].amount
      BY <1>1, <2>5, <3>1, <3>3
    <3> QED  BY <2>1, <2>5, <3>3, <3>4
  <2> QED  BY <2>6, <2>7
<1>7. ASSUME NEW o \in Transfers,
             \/ BridgeSends(o) \/ BridgeConfirmed(o) \/ BridgeThrows(o)
             \/ SwapConfirmed(o) \/ SwapThrows(o) \/ Dies(o)
      PROVE  Funded'
  <2>1. UNCHANGED <<creds, covered, overtaken>>
    BY <1>7 DEF BridgeSends, BridgeConfirmed, BridgeThrows, SwapConfirmed, SwapThrows, Dies, tokens
  <2>2. CASE BridgeSends(o) \/ BridgeConfirmed(o) \/ BridgeThrows(o)
    BY <1>3, <2>1, <2>2, TransferSteps
  <2>3. CASE SwapConfirmed(o) \/ SwapThrows(o)
    <3>1. transfer[o].swap
      BY <2>3 DEF SwapConfirmed, SwapThrows
    <3> QED  BY <1>3, <2>1, <2>3, <3>1, TransferSteps
  <2>4. CASE Dies(o)
    BY <1>3, <2>1, <2>4, TransferSteps
  <2> QED  BY <1>7, <2>2, <2>3, <2>4
<1>8. ASSUME \/ AccountCreated \/ Earn \/ HourPasses \/ UNCHANGED vars
             \/ \E t \in Tabs :
                  \/ Claim(t) \/ Redeem(t) \/ SeesAccount(t) \/ SignsSetup(t)
                  \/ WalletRefuses(t) \/ GivesUp(t) \/ BuildRedeem(t) \/ SignsSwap(t)
      PROVE  Funded'
  BY <1>2, <1>8 DEF AccountCreated, Earn, HourPasses, vars, Claim, Redeem, SeesAccount, SignsSetup,
                    WalletRefuses, GivesUp, BuildRedeem, SignsSwap, tokens
<1>9. ASSUME Drain PROVE Funded'
  <2>1. /\ UNCHANGED <<creds, transfer>>
        /\ overtaken' = overtaken \cup SwapsInFlight
    BY <1>9 DEF Drain, tokens
  <2>2. SwapsInFlight' = SwapsInFlight
    BY <2>1 DEF SwapsInFlight
  <2> QED  BY <2>1, <2>2 DEF Funded
<1>10. ASSUME TopUp PROVE Funded'
  <2>1. UNCHANGED <<creds, transfer, overtaken>> /\ covered'
    BY <1>10 DEF TopUp, tokens
  <2>2. SwapsInFlight' = SwapsInFlight
    BY <2>1 DEF SwapsInFlight
  <2> QED  BY <2>1, <2>2 DEF Funded
<1> QED  BY <1>4, <1>5, <1>6, <1>7, <1>8, <1>9, <1>10 DEF Next

(* The inductive invariant of clients, handlers and transactions.          *)
THEOREM ClaimInvariance == Spec => []IInv
<1>1. Init => IInv
  <2> SUFFICES ASSUME Init PROVE IInv
    OBVIOUS
  <2>1. TypeOK
    <3>1. Resting \in Flows
      BY ClaimAssumption DEF Resting, Begins, Flows, Steps
    <3>2. Unused \in States
      BY ClaimAssumption DEF Unused, States
    <3>3. Silent \in Reports
      BY DEF Silent, Reports, Words
    <3>4. /\ flow \in [Tabs -> Flows] /\ transfer \in [Transfers -> States]
          /\ report \in [Tabs -> Reports]
      BY <3>1, <3>2, <3>3 DEF Init
    <3>5. /\ earned = 0 /\ credits = 0 /\ creds = 0 /\ astroid = 0
          /\ account = "missing" /\ attempts = 0 /\ covered = TRUE /\ overtaken = {}
      BY DEF Init
    <3>6. {earned, credits, creds, astroid} \subseteq Nat
      BY <3>5
    <3>7. attempts \in 0 .. HourlyCap
      BY <3>5, ClaimAssumption
    <3> QED  BY <3>4, <3>5, <3>6, <3>7 DEF TypeOK
  <2>2. FlowShape /\ ReportsFit
    BY ClaimAssumption DEF Init, FlowShape, FlowFits, ReportsFit, ReportFits, Resting, Begins, Silent
  <2>3. Handled /\ Funded
    BY DEF Init, Handled, Funded, Unused, SwapsInFlight
  <2> QED  BY <2>1, <2>2, <2>3 DEF IInv
<1>2. IInv /\ [Next]_vars => IInv'
  <2> SUFFICES ASSUME IInv, [Next]_vars PROVE IInv'
    OBVIOUS
  <2>1. ClientFits'
    BY ClientStep
  <2>2. /\ transfer' \in [Transfers -> States] /\ Handled'
        /\ covered' \in BOOLEAN /\ overtaken' \subseteq Transfers
    BY LastingStep, OvertakenStep DEF IInv
  <2>3. TypeOK'
    BY <2>1, <2>2, TokenStep DEF IInv, TypeOK, ClientFits
  <2>4. Funded'
    BY FundedStep
  <2> QED  BY <2>1, <2>2, <2>3, <2>4 DEF IInv, ClientFits
<1> QED  BY <1>1, <1>2, PTL DEF Spec

(* What the page says of a claim is true, whatever is late or lost: a      *)
(* claimed swap landed or was overtaken, and a redeem that was over when   *)
(* it was called failed left the Creds: staking-client.ts, the two         *)
(* handlers of gateway.ts and coSignAndSubmitRedeem.                       *)
THEOREM ReportsHonest == Spec => []HonestReport
<1>1. IInv => HonestReport
  BY DEF IInv, ReportsFit, ReportFits, HonestReport
<1> QED  BY <1>1, ClaimInvariance, PTL

-----------------------------------------------------------------------------
(* Where the credits are.                                                  *)

(* What a transfer holds for the wallet: what it carries, less what it     *)
(* paid twice.                                                             *)
Net(s) == Carried(s) - Doubled(s)
Nets(moved) == [o \in Transfers |-> Net(moved[o])]
Held(moved) == SumFunctionOnSet(Nets(moved), Transfers)

(* Every credit is counted once: in the game, in the wallet or on its way. *)
Accounted == credits + creds + astroid + Held(transfer) = earned

(* What a transfer's fields say it holds.                                  *)
LEMMA NetFacts ==
  ASSUME NEW s \in States
  PROVE  /\ Net(s) \in Int /\ Carried(s) \in Int /\ Doubled(s) \in Int
         /\ Net(s) = Carried(s) - Doubled(s)
         /\ s.swap => Net(s) = 0
         /\ ~s.swap => Net(s) =
              IF s.tx # "landed" THEN IF s.handler # "threw" THEN s.amount ELSE 0
              ELSE IF s.handler # "threw" THEN 0 ELSE -s.amount
         /\ s = Unused => Net(s) = 0
<1>1. s.amount \in Nat
  BY DEF States
<1>2. s = Unused => s.amount = 0
  BY DEF Unused
<1> QED  BY <1>1, <1>2 DEF Net, Carried, Doubled

(* One transfer changed: the sum changes by what it holds more.            *)
LEMMA HeldChange ==
  ASSUME TypeOK, NEW o \in Transfers, transfer' \in [Transfers -> States],
         \A p \in Transfers \ {o} : transfer'[p] = transfer[p]
  PROVE  /\ Held(transfer') = Held(transfer) + (Net(transfer'[o]) - Net(transfer[o]))
         /\ Held(transfer) \in Int
<1> DEFINE f == Nets(transfer)  g == Nets(transfer')
<1>1. \A p \in Transfers : f[p] = Net(transfer[p]) /\ g[p] = Net(transfer'[p])
  BY DEF Nets
<1>2. \A p \in Transfers : transfer[p] \in States /\ transfer'[p] \in States
  BY DEF TypeOK
<1>3. \A p \in Transfers : f[p] \in Int /\ g[p] \in Int
  BY <1>1, <1>2, NetFacts
<1>4. \A p \in Transfers \ {o} : g[p] = f[p]
  BY <1>1
<1>5. IsFiniteSet(Transfers)
  BY ClaimAssumption
<1>6. Held(transfer) = SumFunctionOnSet(f, Transfers)
      /\ Held(transfer') = SumFunctionOnSet(g, Transfers)
  BY DEF Held
<1> HIDE DEF f, g
<1>7. SumFunctionOnSet(g, Transfers) = SumFunctionOnSet(f, Transfers) + (g[o] - f[o])
  BY <1>3, <1>4, <1>5, SumChange
<1>8. SumFunctionOnSet(f, Transfers) \in Int
  BY <1>3, <1>5, SumInt
<1> QED  BY <1>1, <1>6, <1>7, <1>8

(* Every step keeps the account: a bridge takes what it debits, a handler  *)
(* that gives up refunds what the bridge held or makes it held twice, and  *)
(* a landing moves it to the wallet.                                       *)
LEMMA AccountStep ==
  ASSUME TypeOK, Accounted, [Next]_vars, transfer' \in [Transfers -> States]
  PROVE  Accounted'
<1>1. /\ credits \in Nat /\ creds \in Nat /\ astroid \in Nat /\ earned \in Nat
      /\ \A o \in Transfers : transfer[o] \in States /\ transfer[o].amount \in Nat
                              /\ transfer[o].swap \in BOOLEAN
      /\ \A t \in Tabs : flow[t].amount \in 0 .. MaxEarned /\ flow[t].amount \in Nat
      /\ \A o \in Transfers : transfer'[o] \in States
  BY DEF TypeOK, States, Flows
<1>2. Held(transfer) \in Int
  <2>1. \A o \in Transfers : Nets(transfer)[o] = Net(transfer[o]) /\ Net(transfer[o]) \in Int
    BY <1>1, NetFacts DEF Nets
  <2> DEFINE f == Nets(transfer)
  <2>2. \A o \in Transfers : f[o] \in Int
    BY <2>1
  <2> HIDE DEF f
  <2>3. SumFunctionOnSet(f, Transfers) \in Int
    BY <2>2, ClaimAssumption, SumInt
  <2> QED  BY <2>3 DEF Held, f
<1>3. ASSUME UNCHANGED <<earned, tokens, transfer>> PROVE Accounted'
  BY <1>3 DEF Accounted, tokens
<1>4. ASSUME NEW o \in Transfers, NEW h, NEW x, NEW w, NEW a, Becomes(o, h, x, w, a),
             credits' \in Nat, creds' \in Nat, astroid' \in Nat,
             UNCHANGED earned,
             credits' + creds' + astroid' + Net(transfer'[o])
               = credits + creds + astroid + Net(transfer[o])
      PROVE  Accounted'
  <2>1. Held(transfer') = Held(transfer) + (Net(transfer'[o]) - Net(transfer[o]))
    BY <1>4, HeldChange DEF Becomes
  <2>2. Net(transfer[o]) \in Int /\ Net(transfer'[o]) \in Int
    BY <1>1, NetFacts
  <2>3. credits' + creds' + astroid' + Held(transfer') = earned'
    BY <1>1, <1>2, <1>4, <2>1, <2>2 DEF Accounted
  <2> QED  BY <2>3 DEF Accounted
<1>5. ASSUME NEW t \in Tabs, BridgeIou(t) PROVE Accounted'
  <2>1. UNCHANGED <<earned, creds, astroid>>
    BY <1>5 DEF BridgeIou
  <2>2. CASE UNCHANGED <<transfer, credits>>
    BY <1>3, <2>1, <2>2 DEF tokens
  <2>3. ASSUME NEW o \in Transfers, transfer[o] = Unused,
               Becomes(o, "waiting", "none", FALSE, flow[t].amount),
               credits >= flow[t].amount, credits' = credits - flow[t].amount
        PROVE  Accounted'
    <3>1. Net(transfer'[o]) = flow[t].amount
      BY <1>1, <2>3, NetFacts DEF Becomes
    <3>2. Net(transfer[o]) = 0
      BY <1>1, <2>3, NetFacts
    <3>3. /\ credits' \in Nat
          /\ credits' + creds' + astroid' + Net(transfer'[o])
               = credits + creds + astroid + Net(transfer[o])
      BY <1>1, <2>1, <2>3, <3>1, <3>2
    <3> QED  BY <1>1, <1>4, <2>1, <2>3, <3>3
  <2> QED  BY <1>5, <2>2, <2>3, FreshSteps
<1>6. ASSUME NEW t \in Tabs, SubmitRedeemSwap(t) PROVE Accounted'
  <2>1. UNCHANGED <<earned, credits, creds, astroid>>
    BY <1>6 DEF SubmitRedeemSwap, tokens
  <2>2. CASE UNCHANGED <<transfer, overtaken>>
    BY <1>3, <2>1, <2>2 DEF tokens
  <2>3. ASSUME NEW o \in Transfers, transfer[o] = Unused,
               Becomes(o, "waiting", "sent", TRUE, flow[t].amount)
        PROVE  Accounted'
    <3>1. Net(transfer'[o]) = 0 /\ Net(transfer[o]) = 0
      BY <1>1, <2>3, NetFacts DEF Becomes
    <3> QED  BY <1>1, <1>4, <2>1, <2>3, <3>1
  <2> QED  BY <1>6, <2>2, <2>3, FreshSteps
<1>7. ASSUME NEW o \in Transfers, BridgeSends(o) PROVE Accounted'
  <2>1. /\ UNCHANGED <<earned, credits, creds, astroid>>
        /\ transfer[o].handler = "waiting" /\ ~transfer[o].swap /\ transfer[o].tx = "none"
    BY <1>7 DEF BridgeSends, tokens
  <2>2. Becomes(o, "waiting", "sent", FALSE, transfer[o].amount)
    BY <1>7, TransferSteps
  <2>3. Net(transfer'[o]) = transfer[o].amount /\ Net(transfer[o]) = transfer[o].amount
    BY <1>1, <2>1, <2>2, NetFacts DEF Becomes
  <2> QED  BY <1>1, <1>4, <2>1, <2>2, <2>3
<1>8. ASSUME NEW o \in Transfers, BridgeConfirmed(o) PROVE Accounted'
  <2>1. /\ UNCHANGED <<earned, credits, creds, astroid>>
        /\ transfer[o].handler = "waiting" /\ ~transfer[o].swap /\ transfer[o].tx = "landed"
    BY <1>8 DEF BridgeConfirmed, tokens
  <2>2. Becomes(o, "ok", "landed", FALSE, transfer[o].amount)
    BY <1>8, TransferSteps
  <2>3. Net(transfer'[o]) = 0 /\ Net(transfer[o]) = 0
    BY <1>1, <2>1, <2>2, NetFacts DEF Becomes
  <2> QED  BY <1>1, <1>4, <2>1, <2>2, <2>3
<1>9. ASSUME NEW o \in Transfers, BridgeThrows(o) PROVE Accounted'
  <2>1. /\ UNCHANGED <<earned, creds, astroid>> /\ credits' = credits + transfer[o].amount
        /\ transfer[o].handler = "waiting" /\ ~transfer[o].swap
    BY <1>9 DEF BridgeThrows
  <2> DEFINE x == IF transfer[o].tx = "none" THEN "dead" ELSE transfer[o].tx
  <2>2. Becomes(o, "threw", x, FALSE, transfer[o].amount)
    BY <1>9, TransferSteps
  <2>3. x = "landed" <=> transfer[o].tx = "landed"
    OBVIOUS
  <2> HIDE DEF x
  <2>4. Net(transfer'[o]) = IF x # "landed" THEN 0 ELSE -transfer[o].amount
    BY <1>1, <2>2, NetFacts DEF Becomes
  <2>5. Net(transfer[o]) = IF x # "landed" THEN transfer[o].amount ELSE 0
    BY <1>1, <2>1, <2>3, NetFacts
  <2>6. /\ credits' \in Nat
        /\ credits' + creds' + astroid' + Net(transfer'[o])
             = credits + creds + astroid + Net(transfer[o])
    BY <1>1, <2>1, <2>4, <2>5
  <2> QED  BY <1>1, <1>4, <2>1, <2>2, <2>6
<1>10. ASSUME NEW o \in Transfers, SwapConfirmed(o) \/ SwapThrows(o) PROVE Accounted'
  <2>1. UNCHANGED <<earned, credits, creds, astroid>> /\ transfer[o].swap
    BY <1>10 DEF SwapConfirmed, SwapThrows, tokens
  <2>2. Net(transfer[o]) = 0
    BY <1>1, <2>1, NetFacts
  <2>3. ASSUME NEW h, Becomes(o, h, transfer[o].tx, TRUE, transfer[o].amount) PROVE Accounted'
    <3>1. Net(transfer'[o]) = 0
      BY <1>1, <2>3, NetFacts DEF Becomes
    <3> QED  BY <1>1, <1>4, <2>1, <2>2, <2>3, <3>1
  <2> QED  BY <1>10, <2>3, TransferSteps
<1>11. ASSUME NEW o \in Transfers, Lands(o) PROVE Accounted'
  <2>1. UNCHANGED <<earned, credits>> /\ transfer[o].tx = "sent"
    BY <1>11 DEF Lands
  <2>2. PICK x \in {"landed", "failed"} :
          /\ Becomes(o, transfer[o].handler, x, transfer[o].swap, transfer[o].amount)
          /\ x = "failed" => transfer[o].swap /\ ~Payable(transfer[o].amount)
    BY <1>11, TransferSteps
  <2>3. CASE transfer[o].swap
    <3>1. Net(transfer'[o]) = 0 /\ Net(transfer[o]) = 0
      BY <1>1, <2>2, <2>3, NetFacts DEF Becomes
    <3>2. creds' \in Nat /\ astroid' \in Nat /\ creds' + astroid' = creds + astroid
      BY <1>1, <1>11, <2>3 DEF Lands, Payable
    <3> QED  BY <1>1, <1>4, <2>1, <2>2, <3>1, <3>2
  <2>4. CASE ~transfer[o].swap
    <3>1. x = "landed" /\ transfer[o].swap = FALSE
      BY <1>1, <2>2, <2>4
    <3>2. Net(transfer'[o]) = IF transfer[o].handler # "threw" THEN 0 ELSE -transfer[o].amount
      BY <1>1, <2>2, <3>1, NetFacts DEF Becomes
    <3>3. Net(transfer[o]) = IF transfer[o].handler # "threw" THEN transfer[o].amount ELSE 0
      BY <1>1, <2>1, <2>4, NetFacts
    <3>4. creds' = creds + transfer[o].amount /\ astroid' = astroid
      BY <1>11, <2>4 DEF Lands
    <3>5. /\ creds' \in Nat
          /\ credits' + creds' + astroid' + Net(transfer'[o])
               = credits + creds + astroid + Net(transfer[o])
      BY <1>1, <2>1, <3>2, <3>3, <3>4
    <3> QED  BY <1>1, <1>4, <2>1, <2>2, <3>4, <3>5
  <2> QED  BY <2>3, <2>4
<1>12. ASSUME NEW o \in Transfers, Dies(o) PROVE Accounted'
  <2>1. UNCHANGED <<earned, credits, creds, astroid>> /\ transfer[o].tx = "sent"
    BY <1>12 DEF Dies, tokens
  <2>2. Becomes(o, transfer[o].handler, "dead", transfer[o].swap, transfer[o].amount)
    BY <1>12, TransferSteps
  <2>3. Net(transfer'[o]) = Net(transfer[o])
    BY <1>1, <2>1, <2>2, NetFacts DEF Becomes
  <2>4. Net(transfer[o]) \in Int
    BY <1>1, NetFacts
  <2> QED  BY <1>1, <1>4, <2>1, <2>2, <2>3, <2>4
<1>13. ASSUME Earn PROVE Accounted'
  <2>1. /\ earned' = earned + 1 /\ credits' = credits + 1
        /\ UNCHANGED <<creds, astroid, transfer>>
    BY <1>13 DEF Earn
  <2> QED  BY <1>1, <1>2, <2>1 DEF Accounted
<1>14. ASSUME \/ AccountCreated \/ HourPasses \/ Drain \/ TopUp \/ UNCHANGED vars
              \/ \E t \in Tabs :
                   \/ Claim(t) \/ Redeem(t) \/ SeesAccount(t) \/ SignsSetup(t)
                   \/ WalletRefuses(t) \/ GivesUp(t) \/ BuildRedeem(t) \/ SignsSwap(t)
       PROVE  Accounted'
  <2>1. UNCHANGED <<earned, tokens, transfer>>
    BY <1>14 DEF AccountCreated, HourPasses, Drain, TopUp, vars, Claim, Redeem, SeesAccount, SignsSetup,
                 WalletRefuses, GivesUp, BuildRedeem, SignsSwap
  <2> QED  BY <1>3, <2>1
<1> QED  BY <1>5, <1>6, <1>7, <1>8, <1>9, <1>10, <1>11, <1>12, <1>13, <1>14 DEF Next

(* What the game paid is counted exactly once, apart from what a bridge    *)
(* paid a second time after it was refunded: gateway.ts handleBridgeIou,   *)
(* redeemer.ts bridge and coSignAndSubmitRedeem.                           *)
THEOREM NothingIsLost == Spec => []NothingLost
<1>1. Init => Accounted
  <2> SUFFICES ASSUME Init PROVE Accounted
    OBVIOUS
  <2> DEFINE f == Nets(transfer)
  <2>1. Unused \in States
    BY ClaimAssumption DEF Unused, States
  <2>2. \A o \in Transfers : f[o] = 0
    BY <2>1, NetFacts DEF Init, Nets
  <2>3. Held(transfer) = SumFunctionOnSet(f, Transfers)
    BY DEF Held
  <2> HIDE DEF f
  <2>4. SumFunctionOnSet(f, Transfers) = 0
    BY <2>2, ClaimAssumption, SumZero
  <2> QED  BY <2>3, <2>4 DEF Init, Accounted
<1>2. IInv /\ Accounted /\ [Next]_vars => Accounted'
  BY LastingStep, AccountStep DEF IInv
<1>3. TypeOK /\ Accounted => NothingLost
  <2> SUFFICES ASSUME TypeOK, Accounted PROVE NothingLost
    OBVIOUS
  <2> DEFINE h == Nets(transfer)
             f == [o \in Transfers |-> Carried(transfer[o])]
             d == [o \in Transfers |-> Doubled(transfer[o])]
  <2>1. /\ credits \in Nat /\ creds \in Nat /\ astroid \in Nat /\ earned \in Nat
        /\ \A o \in Transfers : transfer[o] \in States
    BY DEF TypeOK
  <2>2. \A o \in Transfers : h[o] \in Int /\ f[o] \in Int /\ d[o] \in Int /\ f[o] = h[o] + d[o]
    BY <2>1, NetFacts DEF Nets
  <2>3. Held(transfer) = SumFunctionOnSet(h, Transfers)
    BY DEF Held
  <2>4. NothingLost <=> credits + creds + astroid + SumFunctionOnSet(f, Transfers)
                          = earned + SumFunctionOnSet(d, Transfers)
    BY DEF NothingLost
  <2> HIDE DEF h, f, d
  <2>5. /\ SumFunctionOnSet(h, Transfers) \in Int /\ SumFunctionOnSet(f, Transfers) \in Int
        /\ SumFunctionOnSet(d, Transfers) \in Int
    BY <2>2, ClaimAssumption, SumInt
  <2>6. SumFunctionOnSet(f, Transfers) = SumFunctionOnSet(h, Transfers) + SumFunctionOnSet(d, Transfers)
    BY <2>2, ClaimAssumption, SumPlus
  <2> QED  BY <2>1, <2>3, <2>4, <2>5, <2>6 DEF Accounted
<1>4. IInv => TypeOK
  BY DEF IInv
<1> QED  BY <1>1, <1>2, <1>3, <1>4, ClaimInvariance, PTL DEF Spec
================================================================================

-------------------------- MODULE RaidWorldProofs --------------------------
(***************************************************************************)
(* What module RaidWorld promises for every number of players, asteroids,  *)
(* raids, wagers and restarts.                                             *)
(*                                                                         *)
(* The raid indexes (IndexAgreement) carry their own induction.  A wager   *)
(* is settled once and never left behind because, from the booking to the  *)
(* plan, it is the entry of exactly one live raid (WagersTidy).            *)
(***************************************************************************)
EXTENDS RaidWorld, TLAPS

(* Every entry of expeditionWagers belongs to a live raid and names a      *)
(* liability with an open pool and no plan; no two entries name the same   *)
(* one, every such liability has its entry, and only booked wagers have    *)
(* plans.                                                                  *)
WagersTidy ==
    /\ \A r \in Raids : wagerOf[r] # None =>
           /\ status[r] = "active"
           /\ pool[wagerOf[r]] = "active"
           /\ wagerOf[r] \in Orphaned
    /\ \A q, r \in Raids : wagerOf[r] # None /\ wagerOf[q] = wagerOf[r] => q = r
    /\ \A x \in Orphaned : \E r \in Raids : wagerOf[r] = x
    /\ \A x \in Wagers : booked[x] = None => plans[x] = <<>>

IInv ==
    /\ TypeOK
    /\ IndexAgreement
    /\ ImmuneMeansQuiet
    /\ RestedRaiders
    /\ WagersTidy
    /\ SettledOnce

-----------------------------------------------------------------------------
(* The initial states. *)
LEMMA InitIInv == Init => IInv
<1> SUFFICES ASSUME Init
             PROVE  IInv
  OBVIOUS
<1> USE WorldAssumption DEF Init
<1>1. TypeOK
  BY DEF TypeOK
<1>2. IndexAgreement
  BY DEF IndexAgreement, Active
<1>3. ImmuneMeansQuiet /\ RestedRaiders
  BY DEF ImmuneMeansQuiet, RestedRaiders
<1>4. WagersTidy
  BY DEF WagersTidy, Orphaned
<1>5. SettledOnce
  BY DEF SettledOnce
<1> QED
  BY <1>1, <1>2, <1>3, <1>4, <1>5 DEF IInv

-----------------------------------------------------------------------------
(* Steps of players that leave raids and wagers alone. *)
LEMMA RaidsUntouched ==
  ASSUME IInv, TypeOK', UNCHANGED <<current, expeditions, wagers>>,
         \A w \in Wallets : "expedition_recovery" \in cooling'[w]
                              => "expedition_recovery" \in cooling[w]
  PROVE  IInv'
<1> USE DEF IInv, expeditions, wagers
<1>1. IndexAgreement'
  BY DEF IndexAgreement, Active
<1>2. ImmuneMeansQuiet' /\ RestedRaiders'
  BY DEF ImmuneMeansQuiet, RestedRaiders
<1>3. WagersTidy'
  BY DEF WagersTidy, Orphaned
<1>4. SettledOnce'
  BY DEF SettledOnce
<1> QED
  BY <1>1, <1>2, <1>3, <1>4

LEMMA ConnectIInv ==
  ASSUME IInv, NEW w \in Wallets, Connect(w)
  PROVE  IInv'
<1>1. TypeOK'
  BY DEF IInv, TypeOK, Connect, expeditions, wagers
<1> QED
  BY <1>1, RaidsUntouched DEF Connect

LEMMA HomeRestoredIInv ==
  ASSUME IInv, NEW w \in Wallets, NEW a \in Asteroids, HomeRestored(w, a)
  PROVE  IInv'
<1>1. TypeOK'
  BY DEF IInv, TypeOK, HomeRestored, expeditions, wagers
<1> QED
  BY <1>1, RaidsUntouched DEF HomeRestored

LEMMA DisconnectIInv ==
  ASSUME IInv, NEW w \in Wallets, Disconnect(w)
  PROVE  IInv'
<1>1. TypeOK'
  BY DEF IInv, TypeOK, Disconnect, store, expeditions, wagers
<1> QED
  BY <1>1, RaidsUntouched DEF Disconnect

LEMMA JoinIInv ==
  ASSUME IInv, NEW w \in Wallets, NEW a \in Asteroids, JoinAsteroid(w, a)
  PROVE  IInv'
<1>1. TypeOK'
  BY DEF IInv, TypeOK, JoinAsteroid, store, expeditions, wagers
<1> QED
  BY <1>1, RaidsUntouched DEF JoinAsteroid

LEMMA LeaveAsteroidIInv ==
  ASSUME IInv, NEW w \in Wallets, LeaveAsteroid(w)
  PROVE  IInv'
<1>1. TypeOK'
  BY DEF IInv, TypeOK, LeaveAsteroid, store, expeditions, wagers
<1> QED
  BY <1>1, RaidsUntouched DEF LeaveAsteroid

LEMMA SetHomeIInv ==
  ASSUME IInv, NEW w \in Wallets, NEW a \in Asteroids, SetHomeStation(w, a)
  PROVE  IInv'
<1>1. TypeOK'
  BY DEF IInv, TypeOK, SetHomeStation, Cooldown, expeditions, wagers
<1>2. \A v \in Wallets : "expedition_recovery" \in cooling'[v]
                           => "expedition_recovery" \in cooling[v]
  BY DEF IInv, TypeOK, SetHomeStation
<1> QED
  BY <1>1, <1>2, RaidsUntouched DEF SetHomeStation

LEMMA CooldownOverIInv ==
  ASSUME IInv, NEW w \in Wallets, NEW c \in Cooldown, CooldownOver(w, c)
  PROVE  IInv'
<1>1. TypeOK'
  BY DEF IInv, TypeOK, CooldownOver, store, expeditions, wagers
<1>2. \A v \in Wallets : "expedition_recovery" \in cooling'[v]
                           => "expedition_recovery" \in cooling[v]
  BY DEF IInv, TypeOK, CooldownOver
<1> QED
  BY <1>1, <1>2, RaidsUntouched DEF CooldownOver

LEMMA ImmunityOverIInv ==
  ASSUME IInv, NEW a \in Asteroids, ImmunityOver(a)
  PROVE  IInv'
<1> USE DEF IInv, ImmunityOver, players, wagers
<1>1. TypeOK'
  BY DEF TypeOK, store
<1>2. IndexAgreement'
  BY DEF IndexAgreement, Active
<1>3. ImmuneMeansQuiet' /\ RestedRaiders'
  BY DEF ImmuneMeansQuiet, RestedRaiders
<1>4. WagersTidy' /\ SettledOnce'
  BY DEF WagersTidy, Orphaned, SettledOnce
<1> QED
  BY <1>1, <1>2, <1>3, <1>4

-----------------------------------------------------------------------------
(* Launching a raid. *)
LEMMA LaunchIndexed ==
  ASSUME IInv, NEW w \in Wallets, NEW t \in Asteroids, NEW r \in Raids,
         CanStart(w, t), Launch(w, t, r)
  PROVE  IndexAgreement' /\ ImmuneMeansQuiet' /\ RestedRaiders'
<1> USE WorldAssumption DEF IInv, TypeOK, CanStart, Launch
<1>1. current' = raidOf'
  BY DEF IndexAgreement
<1>2. Active' = Active \cup {r} /\ r \notin Active
  BY DEF Active
<1>3. \A q \in Raids, v \in Wallets :
        raidOf'[v] = q <=> q \in Active' /\ raider'[q] = v
  BY <1>2 DEF IndexAgreement
<1>4. \A q \in Active' : raider'[q] \in Wallets
  BY <1>2 DEF IndexAgreement, Active
<1>5. \A q \in Raids, a \in Asteroids :
        q \in incoming'[a] <=> q \in Active' /\ target'[q] = a
  BY <1>2 DEF IndexAgreement
<1>6. ImmuneMeansQuiet' /\ RestedRaiders'
  BY DEF ImmuneMeansQuiet, RestedRaiders
<1> QED
  BY <1>1, <1>3, <1>4, <1>5, <1>6 DEF IndexAgreement

LEMMA StartExpeditionIInv ==
  ASSUME IInv, NEW w \in Wallets, NEW t \in Asteroids, NEW r \in Raids,
         StartExpedition(w, t, r)
  PROVE  IInv'
<1> USE DEF StartExpedition, Launch, wagers, store
<1>1. TypeOK'
  BY DEF IInv, TypeOK, Cooldown
<1>2. IndexAgreement' /\ ImmuneMeansQuiet' /\ RestedRaiders'
  BY LaunchIndexed
<1>3. WagersTidy'
  BY DEF IInv, TypeOK, WagersTidy, Orphaned
<1>4. SettledOnce'
  BY DEF IInv, SettledOnce
<1> QED
  BY <1>1, <1>2, <1>3, <1>4 DEF IInv

LEMMA StartWageredIInv ==
  ASSUME IInv, NEW w \in Wallets, NEW t \in Asteroids, NEW r \in Raids,
         NEW x \in Wagers, StartWagered(w, t, r, x)
  PROVE  IInv'
<1> USE WorldAssumption DEF StartWagered, Launch, store
<1>1. TypeOK'
  BY DEF IInv, TypeOK, Cooldown
<1>2. IndexAgreement' /\ ImmuneMeansQuiet' /\ RestedRaiders'
  BY LaunchIndexed
<1>3. wagerOf[r] = None /\ \A q \in Raids : wagerOf[q] # x
  BY DEF IInv, TypeOK, WagersTidy, Orphaned
<1>4. Orphaned' = Orphaned \cup {x}
  BY DEF IInv, TypeOK, WagersTidy, Orphaned
<1>5. WagersTidy'
  <2>1. \A q \in Raids : wagerOf'[q] # None =>
           /\ status'[q] = "active"
           /\ pool'[wagerOf'[q]] = "active"
           /\ wagerOf'[q] \in Orphaned'
    BY <1>3, <1>4 DEF IInv, TypeOK, WagersTidy
  <2>2. \A p, q \in Raids : wagerOf'[q] # None /\ wagerOf'[p] = wagerOf'[q] => p = q
    BY <1>3 DEF IInv, TypeOK, WagersTidy
  <2>3. \A y \in Orphaned' : \E q \in Raids : wagerOf'[q] = y
    <3> SUFFICES ASSUME NEW y \in Orphaned'
                 PROVE  \E q \in Raids : wagerOf'[q] = y
      OBVIOUS
    <3>1. CASE y = x
      BY <3>1 DEF IInv, TypeOK
    <3>2. CASE y \in Orphaned
      <4>1. PICK q \in Raids : wagerOf[q] = y
        BY <3>2 DEF IInv, WagersTidy
      <4>2. q # r
        BY <4>1, <1>3, <3>2 DEF Orphaned
      <4> QED
        BY <4>1, <4>2 DEF IInv, TypeOK
    <3> QED
      BY <3>1, <3>2, <1>4
  <2>4. \A y \in Wagers : booked'[y] = None => plans'[y] = <<>>
    BY DEF IInv, TypeOK, WagersTidy
  <2> QED
    BY <2>1, <2>2, <2>3, <2>4 DEF WagersTidy
<1>6. SettledOnce'
  BY DEF IInv, SettledOnce
<1> QED
  BY <1>1, <1>2, <1>5, <1>6 DEF IInv

-----------------------------------------------------------------------------
(* The end of raids.  Whatever set of live raids ends, the indexes follow. *)
LEMMA FinishIndexed ==
  ASSUME IInv, NEW R \in SUBSET Active, Finish(R)
  PROVE  IndexAgreement' /\ RestedRaiders'
<1> DEFINE W == {raider[r] : r \in R}
<1> USE WorldAssumption
<1>1. Active' = Active \ R
  BY DEF Active, Finish
<1>2. R \subseteq Raids /\ \A r \in R : raider[r] \in Wallets /\ raidOf[raider[r]] = r
  BY DEF IInv, IndexAgreement, Active
<1>3. \A w \in W : raidOf[w] \in R
  BY <1>2
<1>4. current' = raidOf'
  BY DEF Finish, IInv, IndexAgreement
<1>5. \A r \in Raids, w \in Wallets :
        raidOf'[w] = r <=> r \in Active' /\ raider'[r] = w
  <2> SUFFICES ASSUME NEW r \in Raids, NEW w \in Wallets
               PROVE  raidOf'[w] = r <=> r \in Active' /\ raider'[r] = w
    OBVIOUS
  <2>1. raidOf[w] = r <=> r \in Active /\ raider[r] = w
    BY DEF IInv, IndexAgreement
  <2>2. raider'[r] = (IF r \in R THEN None ELSE raider[r]) /\ r # None /\ w # None
    BY DEF Finish
  <2>3. CASE w \in W
    <3>1. raidOf'[w] = None
      BY <2>3 DEF Finish
    <3> QED
      BY <3>1, <2>1, <2>2, <2>3, <1>1, <1>3
  <2>4. CASE w \notin W
    <3>1. raidOf'[w] = raidOf[w]
      BY <2>4 DEF Finish
    <3> QED
      BY <3>1, <2>1, <2>2, <2>4, <1>1
  <2> QED
    BY <2>3, <2>4
<1>6. \A r \in Active' : raider'[r] \in Wallets
  BY <1>1 DEF IInv, IndexAgreement, Finish, Active
<1>7. \A r \in Raids, a \in Asteroids :
        r \in incoming'[a] <=> r \in Active' /\ target'[r] = a
  BY <1>1, <1>2 DEF IInv, IndexAgreement, Finish
<1>8. RestedRaiders'
  BY DEF IInv, TypeOK, RestedRaiders, Finish
<1> QED
  BY <1>4, <1>5, <1>6, <1>7, <1>8 DEF IndexAgreement

LEMMA FinishTypes ==
  ASSUME TypeOK, NEW R \in SUBSET Active, Finish(R)
  PROVE  /\ authed' \subseteq Wallets
         /\ home' \in [Wallets -> Asteroids \cup {None}]
         /\ active' \in [Wallets -> Asteroids \cup {None}]
         /\ location' \in [Wallets -> Asteroids \cup {None}]
         /\ current' \in [Wallets -> Raids \cup {None}]
         /\ cooling' \in [Wallets -> SUBSET Cooldown]
         /\ status' \in [Raids -> {"unborn", "active", "over"}]
         /\ raider' \in [Raids -> Wallets \cup {None}]
         /\ target' \in [Raids -> Asteroids \cup {None}]
         /\ raidOf' \in [Wallets -> Raids \cup {None}]
         /\ incoming' \in [Asteroids -> SUBSET Raids]
BY DEF TypeOK, Finish, Cooldown

(* Every entry of an ending raid has an open pool, so none stays behind.   *)
LEMMA AllPayable ==
  ASSUME IInv, NEW R \in SUBSET Active
  PROVE  Payable(R) = {r \in R : wagerOf[r] # None}
BY DEF IInv, WagersTidy, Payable, Active

(* Settling the wagers of the raids that end keeps the others as they are, *)
(* and gives each settled liability its only plan.                         *)
LEMMA SettleTidy ==
  ASSUME IInv, NEW R \in SUBSET Active, Finish(R),
         NEW planOf, \A r \in R : planOf[r] \in Plan,
         SettleWagers(Payable(R), planOf)
  PROVE  /\ WagersTidy'
         /\ SettledOnce'
         /\ wagerOf' \in [Raids -> Wagers \cup {None}]
         /\ pool' \in [Wagers -> {"none", "active", "resolved"}]
         /\ booked' \in [Wagers -> Wallets \cup {None}]
         /\ plans' \in [Wagers -> Seq(Plan)]
<1> DEFINE P == {r \in R : wagerOf[r] # None}
<1> USE WorldAssumption
<1>1. SettleWagers(P, planOf) /\ P \subseteq Raids /\ P \subseteq R
  BY AllPayable DEF Active
<1>2. \A r \in P : wagerOf[r] \in Orphaned
  BY <1>1 DEF IInv, WagersTidy
<1>3. booked' = booked
  BY DEF SettleWagers
<1>4. ASSUME NEW x \in Wagers, \A r \in P : wagerOf[r] # x
      PROVE  pool'[x] = pool[x] /\ plans'[x] = plans[x]
  BY <1>1, <1>4 DEF SettleWagers
<1>5. ASSUME NEW x \in Wagers, NEW r \in P, wagerOf[r] = x
      PROVE  plans[x] = <<>> /\ plans'[x] = <<planOf[r]>> /\ planOf[r] \in Plan
  <2>1. x \in Orphaned
    BY <1>2, <1>5
  <2>2. \A q \in P : wagerOf[q] = x => q = r
    BY <1>1, <1>5 DEF IInv, WagersTidy
  <2>3. RaidWith(P, x) = r
    BY <1>5, <2>2 DEF RaidWith
  <2>4. plans'[x] = Append(plans[x], planOf[RaidWith(P, x)])
    BY <1>1, <1>5 DEF SettleWagers
  <2>5. plans[x] = <<>> /\ planOf[r] \in Plan
    BY <2>1, <1>1 DEF Orphaned
  <2> QED
    BY <2>3, <2>4, <2>5
<1>6. \A r \in Raids : wagerOf'[r] = IF r \in P THEN None ELSE wagerOf[r]
  BY <1>1 DEF SettleWagers
<1>7. ASSUME NEW r \in Raids, wagerOf'[r] # None
      PROVE  /\ wagerOf'[r] = wagerOf[r] /\ r \notin R
             /\ \A q \in P : wagerOf[q] # wagerOf[r]
  BY <1>1, <1>6, <1>7 DEF IInv, WagersTidy
<1>8. WagersTidy'
  <2>1. ASSUME NEW r \in Raids, wagerOf'[r] # None
        PROVE  /\ status'[r] = "active"
               /\ pool'[wagerOf'[r]] = "active"
               /\ wagerOf'[r] \in Orphaned'
    <3>1. wagerOf'[r] = wagerOf[r] /\ r \notin R /\ wagerOf[r] \in Wagers
      BY <1>7, <2>1 DEF IInv, TypeOK
    <3>2. pool'[wagerOf[r]] = pool[wagerOf[r]] /\ plans'[wagerOf[r]] = plans[wagerOf[r]]
      BY <1>4, <1>7, <2>1, <3>1
    <3> QED
      BY <3>1, <3>2, <1>3, <2>1 DEF IInv, WagersTidy, Orphaned, Finish
  <2>2. \A q, r \in Raids : wagerOf'[r] # None /\ wagerOf'[q] = wagerOf'[r] => q = r
    BY <1>7 DEF IInv, WagersTidy
  <2>3. ASSUME NEW x \in Orphaned'
        PROVE  \E r \in Raids : wagerOf'[r] = x
    <3>1. x \in Wagers /\ booked[x] # None /\ plans'[x] = <<>>
      BY <2>3, <1>3 DEF Orphaned
    <3>2. \A r \in P : wagerOf[r] # x
      BY <3>1, <1>5
    <3>3. x \in Orphaned
      BY <3>1, <3>2, <1>4 DEF Orphaned
    <3>4. PICK r \in Raids : wagerOf[r] = x
      BY <3>3 DEF IInv, WagersTidy
    <3> QED
      BY <3>2, <3>4, <1>6
  <2>4. ASSUME NEW x \in Wagers, booked'[x] = None
        PROVE  plans'[x] = <<>>
    <3>1. \A r \in P : wagerOf[r] # x
      BY <1>2, <1>3, <2>4 DEF Orphaned
    <3> QED
      BY <3>1, <1>3, <1>4, <2>4 DEF IInv, WagersTidy
  <2> QED
    BY <2>1, <2>2, <2>3, <2>4 DEF WagersTidy
<1>9. ASSUME NEW x \in Wagers
      PROVE  Len(plans'[x]) <= 1 /\ plans'[x] \in Seq(Plan)
  <2>1. CASE \E r \in P : wagerOf[r] = x
    <3>1. PICK r \in P : wagerOf[r] = x
      BY <2>1
    <3>2. plans'[x] = <<planOf[r]>> /\ planOf[r] \in Plan
      BY <3>1, <1>5
    <3> QED
      BY <3>2
  <2>2. CASE \A r \in P : wagerOf[r] # x
    BY <2>2, <1>4 DEF IInv, TypeOK, SettledOnce
  <2> QED
    BY <2>1, <2>2
<1>10. plans' \in [Wagers -> Seq(Plan)]
  <2>1. plans' = [x \in Wagers |-> plans'[x]]
    BY DEF SettleWagers
  <2> QED
    BY <2>1, <1>9
<1>11. wagerOf' \in [Raids -> Wagers \cup {None}]
  BY <1>1 DEF IInv, TypeOK, SettleWagers
<1>12. /\ pool' \in [Wagers -> {"none", "active", "resolved"}]
       /\ booked' \in [Wagers -> Wallets \cup {None}]
  BY <1>1 DEF IInv, TypeOK, SettleWagers
<1> QED
  BY <1>8, <1>9, <1>10, <1>11, <1>12 DEF SettledOnce

LEMMA ResolveRaidsIInv ==
  ASSUME IInv, NEW a \in Asteroids, ResolveRaids(a)
  PROVE  IInv'
<1> DEFINE R == DueAt(a)
<1>1. R \in SUBSET Active /\ Finish(R) /\ UNCHANGED <<store, restarts>>
  BY DEF ResolveRaids, ResolveAllRaids, DueAt
<1>2. PICK won \in SUBSET R :
         /\ immune' = IF won = R THEN immune ELSE immune \cup {a}
         /\ SettleWagers(Payable(R),
                         [r \in R |-> IF r \in won THEN Return
                                      ELSE Split(Defenders(a, current', active'))])
  BY DEF ResolveRaids, ResolveAllRaids
<1>3. PICK planOf : planOf = [r \in R |-> IF r \in won THEN Return
                                          ELSE Split(Defenders(a, current', active'))]
  OBVIOUS
<1>4. \A r \in R : planOf[r] \in Plan
  BY <1>3, WorldAssumption DEF Plan, Return, Split, Defenders
<1>5. SettleWagers(Payable(R), planOf)
  BY <1>2, <1>3
<1>6. /\ WagersTidy'
      /\ SettledOnce'
      /\ wagerOf' \in [Raids -> Wagers \cup {None}]
      /\ pool' \in [Wagers -> {"none", "active", "resolved"}]
      /\ booked' \in [Wagers -> Wallets \cup {None}]
      /\ plans' \in [Wagers -> Seq(Plan)]
  BY <1>1, <1>4, <1>5, SettleTidy
<1>7. IndexAgreement' /\ RestedRaiders'
  BY <1>1, FinishIndexed
<1>8. TypeOK'
  BY <1>1, <1>2, <1>6, FinishTypes DEF IInv, TypeOK, store
<1>9. ImmuneMeansQuiet'
  <2> SUFFICES ASSUME NEW b \in immune'
               PROVE  incoming'[b] = {}
    BY DEF ImmuneMeansQuiet
  <2>1. b \in Asteroids /\ incoming'[b] = incoming[b] \ {r \in R : target[r] = b}
    BY <1>1, <1>8 DEF Finish, TypeOK
  <2>2. CASE b = a
    <3>1. \A r \in incoming[a] : r \in R /\ target[r] = a
      BY DEF IInv, TypeOK, IndexAgreement, DueAt
    <3> QED
      BY <3>1, <2>1, <2>2
  <2>3. CASE b # a
    BY <1>2, <2>1, <2>3 DEF IInv, ImmuneMeansQuiet
  <2> QED
    BY <2>2, <2>3
<1> QED
  BY <1>6, <1>7, <1>8, <1>9 DEF IInv

LEMMA LeaveExpeditionIInv ==
  ASSUME IInv, NEW w \in Wallets, LeaveExpedition(w)
  PROVE  IInv'
<1> DEFINE r == raidOf[w]
           planOf == [q \in {r} |-> Burn]
<1>1. {r} \in SUBSET Active
  BY WorldAssumption DEF LeaveExpedition, IInv, TypeOK, IndexAgreement
<1>2. Finish({r}) /\ SettleWagers(Payable({r}), planOf)
  BY DEF LeaveExpedition, Forfeit
<1>3. \A q \in {r} : planOf[q] \in Plan
  BY DEF Plan, Burn
<1>4. /\ WagersTidy'
      /\ SettledOnce'
      /\ wagerOf' \in [Raids -> Wagers \cup {None}]
      /\ pool' \in [Wagers -> {"none", "active", "resolved"}]
      /\ booked' \in [Wagers -> Wallets \cup {None}]
      /\ plans' \in [Wagers -> Seq(Plan)]
  <2> HIDE DEF planOf, r
  <2> QED
    BY <1>1, <1>2, <1>3, SettleTidy
<1>5. IndexAgreement' /\ RestedRaiders'
  BY <1>1, <1>2, FinishIndexed
<1>6. TypeOK'
  BY <1>1, <1>2, <1>4, FinishTypes DEF LeaveExpedition, IInv, TypeOK, store
<1>7. ImmuneMeansQuiet'
  BY <1>2 DEF LeaveExpedition, Finish, IInv, TypeOK, ImmuneMeansQuiet
<1> QED
  BY <1>4, <1>5, <1>6, <1>7 DEF IInv

-----------------------------------------------------------------------------
(* The boot gives every liability without a plan its first. *)
LEMMA RestartIInv ==
  ASSUME IInv, Restart
  PROVE  IInv'
<1> USE WorldAssumption
<1>1. ASSUME NEW x \in Wagers
      PROVE  plans'[x] \in Seq(Plan) /\ Len(plans'[x]) <= 1 /\ x \notin Orphaned'
  <2>1. CASE x \in Orphaned
    <3>1. plans[x] = <<>> /\ plans'[x] = Append(plans[x], Return)
      BY <2>1 DEF Restart, Orphaned
    <3>2. Return \in Plan
      BY DEF Return, Plan
    <3>3. plans'[x] = <<Return>>
      BY <3>1
    <3> QED
      BY <3>2, <3>3 DEF Orphaned
  <2>2. CASE x \notin Orphaned
    BY <2>2 DEF Restart, IInv, TypeOK, SettledOnce, Orphaned
  <2> QED
    BY <2>1, <2>2
<1>2. TypeOK'
  <2>1. plans' = [x \in Wagers |-> plans'[x]]
    BY DEF Restart
  <2>2. plans' \in [Wagers -> Seq(Plan)]
    BY <2>1, <1>1
  <2> QED
    BY <2>2 DEF Restart, IInv, TypeOK, Active
<1>3. IndexAgreement'
  BY DEF Restart, IndexAgreement, Active, IInv, TypeOK
<1>4. ImmuneMeansQuiet' /\ RestedRaiders'
  BY DEF Restart, ImmuneMeansQuiet, RestedRaiders
<1>5. WagersTidy'
  <2>1. Orphaned' = {} /\ \A r \in Raids : wagerOf'[r] = None
    BY <1>1 DEF Restart, Orphaned
  <2>2. \A x \in Wagers : booked'[x] = None => plans'[x] = <<>>
    BY DEF Restart, Orphaned, IInv, TypeOK, WagersTidy
  <2> QED
    BY <2>1, <2>2 DEF WagersTidy
<1>6. SettledOnce'
  BY <1>1 DEF SettledOnce
<1> QED
  BY <1>2, <1>3, <1>4, <1>5, <1>6 DEF IInv

(* No step of any player, raid or restart breaks the invariant. *)
LEMMA NextIInv == IInv /\ [Next]_vars => IInv'
<1> SUFFICES ASSUME IInv, [Next]_vars
             PROVE  IInv'
  OBVIOUS
<1>1. ASSUME NEW w \in Wallets, PlayerStep(w)
      PROVE  IInv'
  <2>1. ASSUME NEW c \in Elapsing, CooldownOver(w, c)
        PROVE  IInv'
    BY <2>1, CooldownOverIInv, WorldAssumption
  <2>2. ASSUME NEW a \in Asteroids, NEW r \in Raids,
               \/ StartExpedition(w, a, r)
               \/ \E x \in Wagers : StartWagered(w, a, r, x)
        PROVE  IInv'
    BY <2>2, StartExpeditionIInv, StartWageredIInv
  <2>3. ASSUME NEW a \in Asteroids,
               HomeRestored(w, a) \/ JoinAsteroid(w, a) \/ SetHomeStation(w, a)
        PROVE  IInv'
    BY <2>3, HomeRestoredIInv, JoinIInv, SetHomeIInv
  <2>4. ASSUME Connect(w) \/ Disconnect(w) \/ LeaveAsteroid(w) \/ LeaveExpedition(w)
        PROVE  IInv'
    BY <2>4, ConnectIInv, DisconnectIInv, LeaveAsteroidIInv, LeaveExpeditionIInv
  <2> QED
    BY <1>1, <2>1, <2>2, <2>3, <2>4 DEF PlayerStep
<1>2. ASSUME NEW a \in Asteroids, ResolveRaids(a) \/ ImmunityOver(a)
      PROVE  IInv'
  BY <1>2, ResolveRaidsIInv, ImmunityOverIInv
<1>3. CASE Restart
  BY <1>3, RestartIInv
<1>4. CASE UNCHANGED vars
  <2>1. TypeOK'
    BY <1>4 DEF vars, players, store, expeditions, wagers, IInv, TypeOK
  <2> QED
    BY <1>4, <2>1, RaidsUntouched DEF vars, players
<1> QED
  BY <1>1, <1>2, <1>3, <1>4 DEF Next

-----------------------------------------------------------------------------
(* The world's invariant: raids, their indexes and their wagers stay in    *)
(* step, whatever players do and whenever the server restarts.             *)
THEOREM WorldInvariance == Spec => []IInv
BY InitIInv, NextIInv, PTL DEF Spec

(* The types of the world's state. *)
THEOREM WorldTypes == Spec => []TypeOK
<1>1. IInv => TypeOK
  BY DEF IInv
<1> QED
  BY <1>1, WorldInvariance, PTL

(* The expedition, its raider's entry and miner state and its target's     *)
(* list agree in every state.                                              *)
THEOREM RaidsIndexed == Spec => []IndexAgreement
<1>1. IInv => IndexAgreement
  BY DEF IInv
<1> QED
  BY <1>1, WorldInvariance, PTL

(* No raid is in flight to an asteroid under immunity. *)
THEOREM ImmunityHolds == Spec => []ImmuneMeansQuiet
<1>1. IInv => ImmuneMeansQuiet
  BY DEF IInv
<1> QED
  BY <1>1, WorldInvariance, PTL

(* No wallet raids while it recovers from a raid. *)
THEOREM RecoveryHolds == Spec => []RestedRaiders
<1>1. IInv => RestedRaiders
  BY DEF IInv
<1> QED
  BY <1>1, WorldInvariance, PTL

(* A liability without a plan rides on a live raid that will settle it,    *)
(* and nothing else does.                                                  *)
THEOREM WagersRide == Spec => []WagerBacked
<1>1. IInv => WagerBacked
  BY WorldAssumption DEF IInv, TypeOK, WagersTidy, WagerBacked, Orphaned, Active
<1> QED
  BY <1>1, WorldInvariance, PTL

(* A wager is settled at most once, by a raid, a recall or a boot. *)
THEOREM WagersSettleOnce == Spec => []SettledOnce
<1>1. IInv => SettledOnce
  BY DEF IInv
<1> QED
  BY <1>1, WorldInvariance, PTL
=============================================================================

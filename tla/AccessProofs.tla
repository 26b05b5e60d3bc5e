----------------------------- MODULE AccessProofs -----------------------------
(***************************************************************************)
(* What holds of those who are let in, for every number of connections,    *)
(* addresses and wallets: the connections and sign-ins of the server       *)
(* (Admission), and the holder check of the club (HolderGate), for every   *)
(* number of checks, transfers and thresholds and every time to live.      *)
(***************************************************************************)
EXTENDS Admission, HolderGate, Sums, SequenceTheorems, WellFoundedInduction, TLAPS

(***************************************************************************)
(* Connections and sign-ins.                                               *)
(***************************************************************************)

(* Only a connection that was admitted has a wallet or asks for one.       *)
OnlyAdmitted ==
    \A c \in Conns : checking[c] # {} \/ wallet[c] # Anonymous => status[c] \in {"open", "closed"}

AdmissionInv == /\ AdmissionTypeOK
        /\ OnlyAdmitted
        /\ CountTracks
        /\ SessionBacked
        /\ SignedInServed

(* An address has finitely many open connections.                          *)
LEMMA OpenFinite == \A i \in Ips : IsFiniteSet(Open(i)) /\ Cardinality(Open(i)) \in Nat
<1> SUFFICES ASSUME NEW i \in Ips PROVE IsFiniteSet(Open(i)) /\ Cardinality(Open(i)) \in Nat
  OBVIOUS
<1>1. Open(i) \subseteq Conns
  BY DEF Open
<1> QED  BY <1>1, FS_Subset, FS_CardinalityType, AdmissionAssumption

(* At first nobody is connected.                                           *)
LEMMA InitAdmission == AdmissionInit => AdmissionInv
<1> SUFFICES ASSUME AdmissionInit PROVE AdmissionInv
  OBVIOUS
<1>1. AdmissionTypeOK
  BY AdmissionAssumption DEF AdmissionInit, AdmissionTypeOK
<1>2. CountTracks
  <2>1. \A i \in Ips : Open(i) = {}
    BY DEF AdmissionInit, Open
  <2> QED  BY <2>1, FS_EmptySet DEF AdmissionInit, CountTracks
<1>3. OnlyAdmitted /\ SessionBacked /\ SignedInServed
  BY AdmissionAssumption DEF AdmissionInit, OnlyAdmitted, SessionBacked, SignedInServed
<1> QED  BY <1>1, <1>2, <1>3 DEF AdmissionInv

(* Every step keeps the types, and that only the admitted ask for a wallet.*)
LEMMA AdmissionTyped ==
  ASSUME AdmissionTypeOK, [AdmissionNext]_admissionVars
  PROVE  AdmissionTypeOK' /\ (OnlyAdmitted => OnlyAdmitted')
<1> USE AdmissionAssumption DEF AdmissionTypeOK, OnlyAdmitted
<1>1. ASSUME NEW c \in Conns, Admit(c) PROVE AdmissionTypeOK' /\ (OnlyAdmitted => OnlyAdmitted')
  BY <1>1 DEF Admit, world, past
<1>2. ASSUME NEW c \in Conns, Refuse(c) PROVE AdmissionTypeOK' /\ (OnlyAdmitted => OnlyAdmitted')
  BY <1>2 DEF Refuse, world, past
<1>3. ASSUME NEW c \in Conns, NEW a \in Wallets, Auth(c, a) \/ AuthRejected(c, a)
      PROVE AdmissionTypeOK' /\ (OnlyAdmitted => OnlyAdmitted')
  BY <1>3 DEF Auth, AuthRejected, world, past
<1>4. ASSUME NEW c \in Conns, NEW a \in Wallets, AuthOk(c, a)
      PROVE AdmissionTypeOK' /\ (OnlyAdmitted => OnlyAdmitted')
  BY <1>4 DEF AuthOk
<1>5. ASSUME NEW c \in Conns, Join(c) PROVE AdmissionTypeOK' /\ (OnlyAdmitted => OnlyAdmitted')
  BY <1>5 DEF Join, gateway, past
<1>6. ASSUME NEW c \in Conns, Disconnect(c) PROVE AdmissionTypeOK' /\ (OnlyAdmitted => OnlyAdmitted')
  <2>1. count' \in [Ips -> 0..MaxConnections]
    BY <1>6 DEF Disconnect, RecordDisconnect
  <2>2. slips' \in [Ips -> Nat]
    BY <1>6 DEF Disconnect
  <2>3. /\ authed' \subseteq Wallets /\ mining' \subseteq Wallets
        /\ late' \subseteq Wallets /\ replaced' \subseteq Wallets /\ cut' \subseteq Wallets
    BY <1>6 DEF Disconnect, DisconnectPlayer, world
  <2> QED  BY <1>6, <2>1, <2>2, <2>3 DEF Disconnect
<1>7. CASE UNCHANGED admissionVars
  BY <1>7 DEF admissionVars, gateway, world, past
<1> QED  BY <1>1, <1>2, <1>3, <1>4, <1>5, <1>6, <1>7 DEF AdmissionNext, Step

(* The counter follows every admission and every close.                    *)
LEMMA CountStep ==
  ASSUME AdmissionInv, [AdmissionNext]_admissionVars
  PROVE  CountTracks'
<1> USE AdmissionAssumption DEF AdmissionInv, AdmissionTypeOK
<1>1. ASSUME NEW c \in Conns, Admit(c) PROVE CountTracks'
  <2>1. /\ Open(IpOf[c])' = Open(IpOf[c]) \cup {c}
        /\ c \notin Open(IpOf[c])
        /\ \A i \in Ips \ {IpOf[c]} : Open(i)' = Open(i)
    BY <1>1 DEF Admit, Open
  <2>2. Cardinality(Open(IpOf[c])') = Cardinality(Open(IpOf[c])) + 1
    <3>1. IsFiniteSet(Open(IpOf[c]))
      BY OpenFinite
    <3> QED  BY <2>1, <3>1, FS_AddElement
  <2>3. /\ slips' = slips
        /\ count'[IpOf[c]] = count[IpOf[c]] + 1
        /\ \A i \in Ips \ {IpOf[c]} : count'[i] = count[i]
    BY <1>1 DEF Admit, past
  <2>4. ASSUME NEW i \in Ips
        PROVE  /\ count'[i] <= Cardinality(Open(i)')
               /\ Cardinality(Open(i)') <= count'[i] + slips'[i]
    <3>1. /\ count[i] <= Cardinality(Open(i))
          /\ Cardinality(Open(i)) <= count[i] + slips[i]
          /\ Cardinality(Open(i)) \in Nat /\ count[i] \in Nat /\ slips[i] \in Nat
      BY OpenFinite DEF CountTracks
    <3>2. CASE i = IpOf[c]
      BY <2>2, <2>3, <3>1, <3>2
    <3>3. CASE i # IpOf[c]
      <4>1. Cardinality(Open(i)') = Cardinality(Open(i)) /\ count'[i] = count[i]
        BY <2>1, <2>3, <3>3
      <4> QED  BY <2>3, <3>1, <4>1
    <3> QED  BY <3>2, <3>3
  <2> QED  BY <2>4 DEF CountTracks
<1>2. ASSUME NEW c \in Conns, Disconnect(c), status[c] = "open" PROVE CountTracks'
  <2>1. /\ Open(IpOf[c])' = Open(IpOf[c]) \ {c}
        /\ c \in Open(IpOf[c])
        /\ \A i \in Ips \ {IpOf[c]} : Open(i)' = Open(i)
    BY <1>2 DEF Disconnect, Open
  <2>2. Cardinality(Open(IpOf[c])') = Cardinality(Open(IpOf[c])) - 1
    <3>1. IsFiniteSet(Open(IpOf[c]))
      BY OpenFinite
    <3>2. ASSUME NEW S, IsFiniteSet(S), NEW x \in S
          PROVE  Cardinality(S \ {x}) = Cardinality(S) - 1
      BY <3>2, FS_RemoveElement, Zenon
    <3> QED  BY <2>1, <3>1, <3>2
  <2>3. /\ slips' = slips
        /\ count'[IpOf[c]] = IF count[IpOf[c]] > 0 THEN count[IpOf[c]] - 1 ELSE 0
        /\ \A i \in Ips \ {IpOf[c]} : count'[i] = count[i]
    BY <1>2 DEF Disconnect, RecordDisconnect
  <2>4. ASSUME NEW i \in Ips
        PROVE  /\ count'[i] <= Cardinality(Open(i)')
               /\ Cardinality(Open(i)') <= count'[i] + slips'[i]
    <3>1. /\ count[i] <= Cardinality(Open(i))
          /\ Cardinality(Open(i)) <= count[i] + slips[i]
          /\ Cardinality(Open(i)) \in Nat /\ count[i] \in Nat /\ slips[i] \in Nat
      BY OpenFinite DEF CountTracks
    <3>2. CASE i = IpOf[c]
      <4>1. Cardinality(Open(i)) >= 1
        <5>1. Cardinality(Open(i)) # 0
          BY <2>1, <3>2, OpenFinite, FS_EmptySet
        <5> QED  BY <3>1, <5>1
      <4> QED  BY <2>2, <2>3, <3>1, <3>2, <4>1
    <3>3. CASE i # IpOf[c]
      <4>1. Cardinality(Open(i)') = Cardinality(Open(i)) /\ count'[i] = count[i]
        BY <2>1, <2>3, <3>3
      <4> QED  BY <2>3, <3>1, <4>1
    <3> QED  BY <3>2, <3>3
  <2> QED  BY <2>4 DEF CountTracks
<1>3. ASSUME NEW c \in Conns, Disconnect(c), status[c] = "refused" PROVE CountTracks'
  <2>1. \A i \in Ips : Open(i)' = Open(i)
    BY <1>3 DEF Disconnect, Open
  <2>2. /\ slips' = [slips EXCEPT ![IpOf[c]] = @ + 1]
        /\ count'[IpOf[c]] = IF count[IpOf[c]] > 0 THEN count[IpOf[c]] - 1 ELSE 0
        /\ \A i \in Ips \ {IpOf[c]} : count'[i] = count[i]
    BY <1>3 DEF Disconnect, RecordDisconnect
  <2> QED  BY <2>1, <2>2, OpenFinite DEF CountTracks
<1>4. ASSUME NEW c \in Conns, Refuse(c) PROVE CountTracks'
  <2>1. \A i \in Ips : Open(i)' = Open(i)
    BY <1>4 DEF Refuse, Open
  <2> QED  BY <1>4, <2>1 DEF Refuse, CountTracks, past
<1>5. ASSUME UNCHANGED <<status, count, slips>> PROVE CountTracks'
  <2>1. \A i \in Ips : Open(i)' = Open(i)
    BY <1>5 DEF Open
  <2> QED  BY <1>5, <2>1 DEF CountTracks
<1>6. ASSUME NEW c \in Conns, NEW a \in Wallets, Auth(c, a) \/ AuthRejected(c, a) \/ AuthOk(c, a)
      PROVE  CountTracks'
  BY <1>5, <1>6 DEF Auth, AuthRejected, AuthOk, past
<1>7. ASSUME NEW c \in Conns, Join(c) PROVE CountTracks'
  BY <1>5, <1>7 DEF Join, gateway, past
<1>8. CASE UNCHANGED admissionVars
  BY <1>5, <1>8 DEF admissionVars, gateway, past
<1>9. ASSUME NEW c \in Conns, Disconnect(c) PROVE CountTracks'
  BY <1>2, <1>3, <1>9 DEF Disconnect
<1> QED  BY <1>1, <1>4, <1>6, <1>7, <1>8, <1>9 DEF AdmissionNext, Step

(* Sign-ins, closes and joins keep world and connections together.         *)
LEMMA SessionStep ==
  ASSUME AdmissionInv, [AdmissionNext]_admissionVars
  PROVE  SessionBacked' /\ SignedInServed'
<1> USE AdmissionAssumption DEF AdmissionInv, AdmissionTypeOK
<1>1. ASSUME NEW c \in Conns, Admit(c) \/ Refuse(c) PROVE SessionBacked' /\ SignedInServed'
  <2>1. \A a \in Wallets : On(a) \subseteq On(a)'
    BY <1>1 DEF Admit, Refuse, On
  <2>2. status[c] = "new" /\ wallet[c] = Anonymous
    BY <1>1 DEF Admit, Refuse, OnlyAdmitted
  <2> QED  BY <1>1, <2>1, <2>2 DEF Admit, Refuse, world, past, SessionBacked, SignedInServed
<1>2. ASSUME NEW c \in Conns, NEW a \in Wallets, AuthOk(c, a)
      PROVE  SessionBacked' /\ SignedInServed'
  <2>1. status[c] \in {"open", "closed"}
    BY <1>2 DEF AuthOk, OnlyAdmitted
  <2>2. ASSUME NEW b \in authed' PROVE On(b)' # {} \/ b \in late' \cup replaced'
    <3>1. CASE b = a
      BY <1>2, <2>1, <3>1 DEF AuthOk, On
    <3>2. CASE b # a /\ b = wallet[c]
      BY <1>2, <2>2, <3>2 DEF AuthOk
    <3>3. CASE b # a /\ b # wallet[c]
      <4>1. b \in authed /\ On(b)' = On(b)
        BY <1>2, <2>2, <3>3 DEF AuthOk, On
      <4> QED  BY <1>2, <4>1 DEF AuthOk, SessionBacked
    <3> QED  BY <3>1, <3>2, <3>3
  <2>3. mining' \subseteq authed'
    BY <1>2 DEF AuthOk, SessionBacked
  <2>4. SignedInServed'
    BY <1>2 DEF AuthOk, SignedInServed
  <2> QED  BY <2>2, <2>3, <2>4 DEF SessionBacked
<1>3. ASSUME NEW c \in Conns, Disconnect(c) PROVE SessionBacked' /\ SignedInServed'
  <2>1. \A b \in Wallets \ {wallet[c]} : On(b)' = On(b)
    BY <1>3 DEF Disconnect, On
  <2>2. CASE wallet[c] = Anonymous
    BY <1>3, <2>1, <2>2 DEF Disconnect, world, SessionBacked, SignedInServed
  <2>3. CASE wallet[c] # Anonymous
    <3>1. SessionBacked'
      BY <1>3, <2>1, <2>3 DEF Disconnect, DisconnectPlayer, SessionBacked
    <3>2. ASSUME NEW d \in Conns, status'[d] = "open", wallet'[d] # Anonymous
          PROVE  wallet'[d] \in authed' \cup cut'
      <4>1. d # c /\ status[d] = "open" /\ wallet'[d] = wallet[d]
        BY <1>3, <3>2 DEF Disconnect
      <4>2. CASE wallet[d] = wallet[c]
        BY <1>3, <2>3, <4>1, <4>2 DEF Disconnect, On
      <4>3. CASE wallet[d] # wallet[c]
        BY <1>3, <2>3, <3>2, <4>1, <4>3 DEF Disconnect, DisconnectPlayer, SignedInServed
      <4> QED  BY <4>2, <4>3
    <3> QED  BY <3>1, <3>2 DEF SignedInServed
  <2> QED  BY <2>2, <2>3
<1>4. ASSUME NEW c \in Conns, Join(c) PROVE SessionBacked' /\ SignedInServed'
  BY <1>4 DEF Join, gateway, past, On, SessionBacked, SignedInServed
<1>5. ASSUME UNCHANGED <<status, wallet, world, past>>
      PROVE  SessionBacked' /\ SignedInServed'
  BY <1>5 DEF world, past, On, SessionBacked, SignedInServed
<1>6. ASSUME NEW c \in Conns, NEW a \in Wallets, Auth(c, a) \/ AuthRejected(c, a)
      PROVE  SessionBacked' /\ SignedInServed'
  BY <1>5, <1>6 DEF Auth, AuthRejected
<1>7. CASE UNCHANGED admissionVars
  BY <1>5, <1>7 DEF admissionVars, gateway
<1> QED  BY <1>1, <1>2, <1>3, <1>4, <1>6, <1>7 DEF AdmissionNext, Step

(* The inductive invariant.                                                *)
THEOREM AdmissionInvariance == AdmissionSpec => []AdmissionInv
<1>1. AdmissionInv /\ [AdmissionNext]_admissionVars => AdmissionInv'
  BY AdmissionTyped, CountStep, SessionStep DEF AdmissionInv
<1> QED  BY <1>1, InitAdmission, PTL DEF AdmissionSpec

(* However connections are admitted, refused and closed, the counter of an *)
(* address is between its open connections and those less the refused ones *)
(* that closed.                                                            *)
THEOREM ConnectionsCounted == AdmissionSpec => []CountTracks
<1>1. AdmissionInv => CountTracks
  BY DEF AdmissionInv
<1> QED  BY <1>1, AdmissionInvariance, PTL

(* The limit that checkConnection enforces is exceeded by no more than the *)
(* refused connections of the address that closed.                         *)
THEOREM LimitKept ==
  AdmissionSpec => [](\A i \in Ips : Cardinality(Open(i)) <= MaxConnections + slips[i])
<1>1. ASSUME AdmissionInv, NEW i \in Ips PROVE Cardinality(Open(i)) <= MaxConnections + slips[i]
  <2>1. /\ count[i] \in 0..MaxConnections /\ slips[i] \in Nat /\ MaxConnections \in Nat
        /\ Cardinality(Open(i)) <= count[i] + slips[i]
        /\ Cardinality(Open(i)) \in Nat
    BY <1>1, OpenFinite, AdmissionAssumption DEF AdmissionInv, AdmissionTypeOK, CountTracks
  <2> QED  BY <2>1
<1>2. AdmissionInv => \A i \in Ips : Cardinality(Open(i)) <= MaxConnections + slips[i]
  BY <1>1
<1> QED  BY <1>2, AdmissionInvariance, PTL

(* A signed-in wallet has an open connection, but for sign-ins that came   *)
(* after the close and connections that changed wallets.                   *)
THEOREM SessionsBacked == AdmissionSpec => []SessionBacked
<1>1. AdmissionInv => SessionBacked
  BY DEF AdmissionInv
<1> QED  BY <1>1, AdmissionInvariance, PTL

(* A signed-in connection can play until another connection of its wallet  *)
(* closes.                                                                 *)
THEOREM ConnectionsServed == AdmissionSpec => []SignedInServed
<1>1. AdmissionInv => SignedInServed
  BY DEF AdmissionInv
<1> QED  BY <1>1, AdmissionInvariance, PTL

(***************************************************************************)
(* The holder check.                                                       *)
(***************************************************************************)

(* The log stays within its bound: what a check has seen of it is counted. *)
GateInv == TypeOK /\ Len(log) <= MaxTransfers

USE DEF Records

(* The constants' types, one by one.                                       *)
LEMMA GateConstants ==
  /\ Thresholds \subseteq Nat /\ Wealth \in Nat /\ MaxTransfers \in Nat /\ CacheTtl \in Nat
  /\ EstimateTtl \in Nat /\ MinHold \in Nat /\ Oldest \in Nat
  /\ MinObservations \in Nat \ {0} /\ MaxLookback \in Nat \ {0} /\ None \notin Nat
  /\ Oldest >= MinHold /\ None \notin [age : Nat, count : Nat]
BY GateAssumption

(* Max and Min are what they are called.                                   *)
LEMMA Least ==
  ASSUME NEW T \in SUBSET Nat, T # {}
  PROVE  Min(T) \in T /\ \A y \in T : Min(T) <= y
<1>1. PICK x \in T : \A y \in T : <<y, x>> \notin OpToRel(<, Nat)
  BY WFMin, NatLessThanWellFounded
<1>2. \A y \in T : ~(y < x)
  BY <1>1, Zenon DEF OpToRel
<1>3. \A y \in T : x <= y
  BY <1>2
<1> QED  BY <1>3 DEF Min

(* ... and the largest.                                                    *)
LEMMA Greatest ==
  ASSUME NEW n \in Nat, NEW T \in SUBSET (0 .. n), T # {}
  PROVE  Max(T) \in T /\ \A y \in T : Max(T) >= y
<1>1. \E x \in T : \A y \in T : x >= y
  <2> DEFINE D == {d \in Nat : n - d \in T}
  <2>1. D # {}
    <3>1. PICK x \in T : TRUE
      OBVIOUS
    <3>2. n - x \in Nat /\ n - (n - x) = x
      OBVIOUS
    <3> QED  BY <3>1, <3>2
  <2>2. PICK d \in D : \A y \in D : d <= y
    BY <2>1, Least
  <2>3. ASSUME NEW y \in T PROVE n - d >= y
    <3>1. n - y \in Nat /\ n - (n - y) = y
      OBVIOUS
    <3>2. n - y \in D
      BY <3>1
    <3>3. d <= n - y
      BY <2>2, <3>2
    <3> QED  BY <3>1, <3>3
  <2> QED BY <2>3
<1> QED BY <1>1 DEF Max

(* An age stays within its limit and never falls.                          *)
LEMMA OlderAge ==
  ASSUME NEW limit \in Nat, NEW age \in 0 .. limit
  PROVE  Older(age, limit) \in 0 .. limit /\ Older(age, limit) >= age
BY DEF Older

(* The transfers looked at begin at the first one or later.                *)
LEMMA WindowFits ==
  ASSUME GateInv
  PROVE  /\ Max({1, Len(log) - MaxLookback + 1}) \in Nat
         /\ Max({1, Len(log) - MaxLookback + 1}) >= 1
<1> DEFINE other == Len(log) - MaxLookback + 1  low == Max({1, other})
<1>1. other \in Int
  BY LenProperties, GateConstants DEF GateInv, TypeOK
<1> HIDE DEF other
<1>2. \E x \in {1, other} : \A y \in {1, other} : x >= y
  <2>1. CASE other >= 1
    BY <1>1, <2>1
  <2>2. CASE ~(other >= 1)
    BY <1>1, <2>2
  <2> QED BY <2>1, <2>2
<1>3. low \in {1, other} /\ \A y \in {1, other} : low >= y
  BY <1>2 DEF Max
<1> HIDE DEF low
<1>4. low \in Nat /\ low >= 1
  BY <1>1, <1>3
<1> QED BY <1>4 DEF low, other

(* The estimator's answer is the age of a transfer, or nothing.            *)
LEMMA HoldStartType ==
  ASSUME GateInv, NEW balance, NEW needed
  PROVE  HoldStart(balance, needed) \in Ages \cup {None}
<1> DEFINE low == Max({1, Len(log) - MaxLookback + 1})
           window == low .. Len(log)
           dips == Dips(balance, needed, window)
<1>1. Len(log) \in Nat /\ \A i \in 1 .. Len(log) : log[i].age \in Ages
  <2>1. log \in Seq(Transfers)
    BY DEF GateInv, TypeOK
  <2>2. Len(log) \in Nat /\ \A i \in 1 .. Len(log) : log[i] \in Transfers
    BY <2>1, LenProperties
  <2> QED  BY <2>2 DEF Transfers
<1>2. low \in Nat /\ low >= 1
  BY WindowFits
<1> HIDE DEF low
<1>3. window \subseteq 1 .. Len(log) /\ window \subseteq 0 .. Len(log) /\ window \subseteq Nat
  BY <1>1, <1>2
<1>4. dips \subseteq window
  BY DEF Dips
<1> USE DEF low
<1>5. HoldStart(balance, needed) =
        IF window = {} THEN None
        ELSE IF dips # {} THEN log[Max(dips)].age ELSE log[Min(window)].age
  BY DEF HoldStart
<1> HIDE DEF window, dips
<1>6. dips # {} => Max(dips) \in 1 .. Len(log)
  BY <1>1, <1>3, <1>4, Greatest
<1>7. window # {} => Min(window) \in 1 .. Len(log)
  BY <1>3, Least
<1> QED  BY <1>1, <1>5, <1>6, <1>7

(* The tracker's record after a pre-warm and after an observation.         *)
LEMMA RecordTypes ==
  ASSUME GateInv
  PROVE  /\ \A start \in Ages \cup {None} :
              Seeded(start) = None \/ Seeded(start) \in Records
         /\ \A record : record = None \/ record \in Records
              => Observed(record) \in Records
<1> USE GateConstants
<1>1. \A start \in Ages \cup {None} :
         Seeded(start) = None \/ Seeded(start) \in Records
  BY DEF Seeded, Ages, GateInv, TypeOK
<1>2. ASSUME NEW record, record = None \/ record \in Records
      PROVE  Observed(record) \in Records
  BY <1>2 DEF Observed
<1> QED  BY <1>1, <1>2

(* A check at rest is a request.                                           *)
LEMMA RestingType == Resting \in Requests
BY GateConstants DEF Resting, Requests, Ages

(* At first nothing is cached or recorded.                                 *)
LEMMA InitGate == Init => GateInv
<1> SUFFICES ASSUME Init PROVE GateInv
  OBVIOUS
<1>1. Len(<<>>) = 0 /\ <<>> \in Seq(Transfers)
  OBVIOUS
<1> QED  BY <1>1, RestingType, GateConstants DEF Init, GateInv, TypeOK

(* A transfer within the bound keeps the types.                            *)
LEMMA TransferStep ==
  ASSUME GateInv, NEW delta \in {-1, 1}, NEW intoStake \in BOOLEAN, Transfer(delta, intoStake)
  PROVE  GateInv'
<1>1. [age |-> 0, delta |-> delta, stake |-> intoStake] \in Transfers
  BY GateConstants DEF Transfers, Ages
<1>2. log' \in Seq(Transfers) /\ Len(log') = Len(log) + 1 /\ Len(log) \in Nat
  BY <1>1, AppendProperties, LenProperties DEF Transfer, GateInv, TypeOK
<1>3. liquid' \in 0 .. Wealth /\ staked' \in 0 .. Wealth /\ Len(log) < MaxTransfers
      /\ UNCHANGED <<required, server, check>>
  BY DEF Transfer
<1>4. Len(log') <= MaxTransfers
  BY <1>2, <1>3, GateConstants
<1> QED  BY <1>2, <1>3, <1>4 DEF GateInv, TypeOK, server

(* A tick keeps the ages within their bounds.                              *)
LEMMA TickStep ==
  ASSUME GateInv, Tick
  PROVE  GateInv'
<1> USE GateConstants
<1>1. UNCHANGED <<liquid, staked, required>>
  BY DEF Tick
<1>2. log' \in Seq(Transfers) /\ Len(log') = Len(log)
  <2>1. Len(log) \in Nat /\ DOMAIN log = 1 .. Len(log)
        /\ \A i \in 1 .. Len(log) : log[i] \in Transfers
    BY LenProperties DEF GateInv, TypeOK
  <2>2. log' = [i \in 1 .. Len(log) |-> [log[i] EXCEPT !.age = Older(@, Oldest)]]
    BY <2>1 DEF Tick
  <2>3. ASSUME NEW i \in 1 .. Len(log)
        PROVE  [log[i] EXCEPT !.age = Older(@, Oldest)] \in Transfers
    BY <2>1, OlderAge DEF Transfers, Ages
  <2>4. log' \in [1 .. Len(log) -> Transfers]
    BY <2>2, <2>3
  <2> QED  BY <2>1, <2>4
<1>3. cache' = None \/ cache' \in [balance : Nat, age : 0 .. CacheTtl, seen : 0 .. MaxTransfers,
                                   whole : BOOLEAN]
  <2>1. CASE cache # None /\ ~Expires(cache, CacheTtl)
    <3>1. cache.age \in Nat /\ cache.age + 1 \in 0 .. CacheTtl
      BY <2>1 DEF Expires, GateInv, TypeOK
    <3>2. cache' = [cache EXCEPT !.age = @ + 1]
      BY <2>1 DEF Tick
    <3> QED  BY <2>1, <3>1, <3>2 DEF GateInv, TypeOK
  <2> QED  BY <2>1 DEF Tick, Expires
<1>4. history' = None \/ history' \in Records
  BY OlderAge DEF Tick, GateInv, TypeOK
<1>5. estimated' = None \/ estimated' \in [start : Ages \cup {None}, age : 0 .. EstimateTtl]
  <2>1. CASE estimated # None /\ ~Expires(estimated, EstimateTtl)
    <3>1. /\ estimated.age + 1 \in 0 .. EstimateTtl
          /\ estimated.start # None => Older(estimated.start, Oldest) \in Ages
      <4>1. estimated.start \in Ages \cup {None} /\ estimated.age \in 0 .. EstimateTtl
        BY <2>1 DEF GateInv, TypeOK
      <4>2. estimated.age + 1 < EstimateTtl
        BY <2>1, <4>1 DEF Expires
      <4> QED  BY <4>1, <4>2, OlderAge DEF Ages
    <3>2. estimated' = [estimated EXCEPT !.age = @ + 1,
                              !.start = IF @ = None THEN None ELSE Older(@, Oldest)]
      BY <2>1 DEF Tick
    <3> QED  BY <2>1, <3>1, <3>2 DEF GateInv, TypeOK
  <2> QED  BY <2>1 DEF Tick, Expires
<1>6. check' \in [Checks -> Requests]
  <2>1. ASSUME NEW q \in Checks
        PROVE  (IF check[q].stage = "rest" THEN check[q]
                ELSE [check[q] EXCEPT !.age = Older(@, Oldest),
                         !.asked = IF check[q].stage = "estimate" THEN Older(@, Oldest) ELSE @])
                 \in Requests
    <3>1. check[q] \in Requests
      BY DEF GateInv, TypeOK
    <3>2. Older(check[q].age, Oldest) \in Ages /\ Older(check[q].asked, Oldest) \in Ages
      BY <3>1, OlderAge DEF Requests, Ages
    <3> QED  BY <3>1, <3>2 DEF Requests
  <2> QED  BY <2>1 DEF Tick
<1> QED  BY <1>1, <1>2, <1>3, <1>4, <1>5, <1>6 DEF GateInv, TypeOK

(* A check that only reads the chain.                                      *)
LEMMA ReadStep ==
  ASSUME GateInv, NEW q \in Checks, ReadLiquid(q) \/ ReadFails(q) \/ ReadStaked(q) \/ Ask(q)
  PROVE  GateInv'
<1> USE GateConstants
<1>1. UNCHANGED <<chain, server>>
  BY DEF ReadLiquid, ReadFails, ReadStaked, Ask
<1>2. check[q] \in Requests /\ liquid \in Nat /\ staked \in Nat /\ Len(log) \in 0 .. MaxTransfers
  BY LenProperties DEF GateInv, TypeOK
<1>3. \E entry \in Requests : check' = [check EXCEPT ![q] = entry]
  <2>1. CASE ReadLiquid(q)
    <3>1. [check[q] EXCEPT !.stage = "staked", !.balance = liquid, !.seen = Len(log)] \in Requests
      BY <1>2 DEF Requests
    <3> QED  BY <2>1, <3>1 DEF ReadLiquid
  <2>2. CASE ReadFails(q)
    BY <2>2, RestingType DEF ReadFails
  <2>3. CASE ReadStaked(q)
    <3>1. StakeStill(q) \in BOOLEAN
      BY DEF StakeStill
    <3>2. /\ [check[q] EXCEPT !.stage = "read", !.balance = check[q].balance + staked,
                             !.whole = StakeStill(q)]
               \in Requests
          /\ [check[q] EXCEPT !.stage = "read", !.whole = FALSE] \in Requests
      <4>1. check[q].balance + staked \in Nat
        BY <1>2 DEF Requests
      <4> HIDE DEF StakeStill
      <4> QED  BY <1>2, <3>1, <4>1 DEF Requests
    <3> QED  BY <2>3, <3>2 DEF ReadStaked
  <2>4. CASE Ask(q)
    <3>1. [Resting EXCEPT !.stage = "liquid"] \in Requests
      BY RestingType DEF Requests
    <3>2. cache # None =>
             [Resting EXCEPT !.stage = "cached", !.balance = cache.balance,
                             !.seen = cache.seen, !.whole = cache.whole] \in Requests
      BY RestingType DEF Requests, GateInv, TypeOK
    <3> QED  BY <2>4, <3>1, <3>2 DEF Ask
  <2> QED  BY <2>1, <2>2, <2>3, <2>4
<1>4. check' \in [Checks -> Requests]
  BY <1>3 DEF GateInv, TypeOK
<1> QED  BY <1>1, <1>4 DEF GateInv, TypeOK, chain, server

(* A verdict keeps the types of the cache and the record.                  *)
LEMMA JudgeStep ==
  ASSUME GateInv, NEW q \in Checks, Judge(q)
  PROVE  GateInv'
<1> USE GateConstants
<1>1. UNCHANGED <<chain, estimated>> /\ check[q] \in Requests
  BY DEF Judge, GateInv, TypeOK
<1>2. cache' = None \/ cache' \in [balance : Nat, age : 0 .. CacheTtl, seen : 0 .. MaxTransfers,
                                   whole : BOOLEAN]
  BY <1>1 DEF Judge, Cached, Requests, Ages, GateInv, TypeOK
<1>3. /\ history' = None \/ history' \in Records
      /\ check' \in [Checks -> Requests]
  <2>1. CASE \E record : /\ record = None \/ record \in Records
                         /\ RecordObservation(q, record, required)
    BY <2>1, RecordTypes, RestingType DEF RecordObservation, GateInv, TypeOK
  <2>2. CASE check' = [check EXCEPT ![q] = [@ EXCEPT !.stage = "estimate", !.required = required]]
             /\ UNCHANGED <<history>>
    <3>1. [check[q] EXCEPT !.stage = "estimate", !.required = required] \in Requests
      BY <1>1 DEF Requests, GateInv, TypeOK
    <3> QED  BY <2>2, <3>1 DEF GateInv, TypeOK
  <2>3. history = None \/ history \in Records
    BY DEF GateInv, TypeOK
  <2>4. estimated # None => Seeded(estimated.start) = None
           \/ Seeded(estimated.start) \in Records
    BY RecordTypes DEF GateInv, TypeOK
  <2> QED  BY <2>1, <2>2, <2>3, <2>4 DEF Judge
<1> QED  BY <1>1, <1>2, <1>3 DEF GateInv, TypeOK, chain

(* An estimate keeps the types of what it caches and records.              *)
LEMMA EstimateStep ==
  ASSUME GateInv, NEW q \in Checks, Estimate(q)
  PROVE  GateInv'
<1> USE GateConstants
<1> DEFINE start == HoldStart(check[q].balance, check[q].required)
<1>1. UNCHANGED <<chain, cache>> /\ check[q] \in Requests /\ start \in Ages \cup {None}
  BY HoldStartType DEF Estimate, GateInv, TypeOK
<1>2. estimated' = None \/ estimated' \in [start : Ages \cup {None}, age : 0 .. EstimateTtl]
  <2>1. \/ UNCHANGED estimated
        \/ estimated' = IF check[q].asked < EstimateTtl
                        THEN [start |-> start, age |-> check[q].asked] ELSE None
    BY DEF Estimate
  <2> HIDE DEF start
  <2> QED  BY <1>1, <2>1 DEF Requests, Ages, GateInv, TypeOK
<1>3. \E record : /\ record = None \/ record \in Records
                  /\ RecordObservation(q, record, check[q].required)
  <2>1. RecordObservation(q, history, check[q].required)
        \/ RecordObservation(q, Seeded(start), check[q].required)
    BY DEF Estimate
  <2> HIDE DEF start
  <2> QED  BY <1>1, <2>1, RecordTypes DEF GateInv, TypeOK
<1>4. /\ history' = None \/ history' \in Records
      /\ check' \in [Checks -> Requests]
  BY <1>3, RecordTypes, RestingType DEF RecordObservation, GateInv, TypeOK
<1> QED  BY <1>1, <1>2, <1>4 DEF GateInv, TypeOK, chain

(* Every step keeps the types.                                             *)
LEMMA GateStep == GateInv /\ [Next]_vars => GateInv'
<1> SUFFICES ASSUME GateInv, [Next]_vars PROVE GateInv'
  OBVIOUS
<1>1. CASE UNCHANGED vars
  BY <1>1 DEF GateInv, TypeOK, vars, chain, server
<1>2. CASE Quote
  BY <1>2 DEF Quote, GateInv, TypeOK, server
<1>3. CASE Restart
  <2>1. check' \in [Checks -> Requests]
    BY <1>3, RestingType DEF Restart
  <2> QED  BY <1>3, <2>1 DEF Restart, GateInv, TypeOK, chain
<1> QED  BY <1>1, <1>2, <1>3, TransferStep, TickStep, ReadStep, JudgeStep, EstimateStep DEF Next

(* Balances, caches, records and requests keep their types.                *)
THEOREM GateTypes == Spec => []TypeOK
<1>1. Spec => []GateInv
  BY InitGate, GateStep, PTL DEF Spec
<1>2. GateInv => TypeOK
  BY DEF GateInv
<1> QED  BY <1>1, <1>2, PTL

(* One more observation of enough tokens keeps the record eligible.        *)
LEMMA ObservedEligible ==
  ASSUME GateInv, Eligible(history)
  PROVE  Eligible(Observed(history))
<1>1. /\ history # None /\ history.age \in 0 .. MinHold /\ history.count \in 1 .. MinObservations
      /\ history \in Records
  BY DEF Eligible, GateInv, TypeOK
<1>2. /\ Observed(history).age = history.age
      /\ Observed(history).count >= history.count
      /\ Observed(history) \in Records
  BY <1>1, GateConstants DEF Observed
<1>3. Observed(history) # None
  BY <1>2, GateConstants
<1> QED  BY <1>1, <1>2, <1>3, GateConstants DEF Eligible

(* An observation takes eligibility away only from too small a balance.    *)
LEMMA JudgedEligible ==
  ASSUME GateInv, Eligible(history), ~Eligible(history'), NEW q \in Checks, NEW needed \in Nat,
         RecordObservation(q, history, needed)
  PROVE  check[q].balance < needed /\ check'[q].stage = "rest"
<1>1. ~(check[q].balance >= needed)
  BY ObservedEligible DEF RecordObservation
<1>2. check'[q].stage = "rest"
  BY DEF RecordObservation, Resting, GateInv, TypeOK
<1>3. check[q].balance \in Nat
  BY DEF GateInv, TypeOK, Requests
<1> QED  BY <1>1, <1>2, <1>3

(* A wallet that is eligible stays so until a check finds too few tokens   *)
(* or the server restarts: recordObservation and seedHoldStart of          *)
(* holder-tracker.ts, with a pre-warm or an aging record beside them.      *)
THEOREM EligibilityKept == Spec => StaysEligible
<1>1. GateInv /\ [Next]_vars =>
        [Eligible(history) /\ ~Eligible(history') =>
           Restart \/ \E q \in Checks : Answered(q) /\ check[q].balance < Needed(q)]_vars
  <2> SUFFICES ASSUME GateInv, Next, Eligible(history), ~Eligible(history'), ~Restart
               PROVE  \E q \in Checks : Answered(q) /\ check[q].balance < Needed(q)
    BY DEF vars
  <2>1. ~Tick
    <3> SUFFICES ASSUME Tick PROVE FALSE
      OBVIOUS
    <3>1. /\ history # None /\ history.age \in 0 .. MinHold
          /\ history \in Records
      BY DEF Eligible, GateInv, TypeOK
    <3>2. history' = [history EXCEPT !.age = Older(@, MinHold)]
      BY <3>1 DEF Tick
    <3>3. /\ Older(history.age, MinHold) \in 0 .. MinHold
          /\ Older(history.age, MinHold) >= history.age
      BY <3>1, OlderAge, GateConstants
    <3>4. /\ history'.age = Older(history.age, MinHold) /\ history'.count = history.count
          /\ history' \in Records
      BY <3>1, <3>2, <3>3
    <3>5. history' # None
      BY <3>4, GateConstants
    <3> QED  BY <3>1, <3>3, <3>4, <3>5, GateConstants DEF Eligible
  <2>2. history' # history /\ history # None
    BY GateConstants DEF Eligible
  <2>3. PICK q \in Checks : Judge(q) \/ Estimate(q)
    BY <2>1, <2>2 DEF Next, Transfer, Quote, Ask, ReadLiquid, ReadFails, ReadStaked, server
  <2>4. \A start : Seeded(start) = history
    BY <2>2 DEF Seeded
  <2>5. /\ RecordObservation(q, history, Needed(q))
        /\ check[q].stage \in {"read", "cached", "estimate"}
    <3>1. CASE Judge(q)
      BY <2>2, <3>1 DEF Judge, Needed
    <3>2. CASE Estimate(q)
      BY <2>4, <3>2 DEF Estimate, Needed
    <3> QED  BY <2>3, <3>1, <3>2
  <2>6. Needed(q) \in Nat
    <3>1. required \in Thresholds /\ check[q].required \in Thresholds \cup {0}
      BY DEF GateInv, TypeOK, Requests
    <3>2. \A needed \in Thresholds \cup {0} : needed \in Nat
      BY GateConstants
    <3>3. required \in Nat /\ check[q].required \in Nat
      BY <3>1, <3>2
    <3> QED  BY <3>3 DEF Needed
  <2>7. check[q].balance < Needed(q) /\ check'[q].stage = "rest"
    BY <2>5, <2>6, JudgedEligible
  <2> QED  BY <2>5, <2>7 DEF Answered
<1>2. Spec => []GateInv
  BY InitGate, GateStep, PTL DEF Spec
<1> QED  BY <1>1, <1>2, PTL DEF Spec, StaysEligible

-------------------------------------------------------------------------------
(* What a check knows of the chain, and since when.                        *)

(* What the wallet, or the wallet and its stake, had after the first k     *)
(* transfers of a log l.                                                   *)
DeltasOf(l) == [i \in DOMAIN l |-> l[i].delta]
GainsOf(l) == [i \in DOMAIN l |-> IF l[i].stake THEN 0 ELSE l[i].delta]
LiquidAt(l, now, k) == now - SumFunctionOnSet(DeltasOf(l), k + 1 .. Len(l))
TotalAt(l, now, k) == now - SumFunctionOnSet(GainsOf(l), k + 1 .. Len(l))

(* The transfers after the first `seen` ones are at most `age` old.        *)
Fresh(l, seen, age) ==
    /\ seen \in 0 .. Len(l)
    /\ \A j \in seen + 1 .. Len(l) : l[j].age <= age

(* A balance read in one piece is what the wallet and its stake had then.  *)
ReadWhole(c, l, total) == c.whole => c.balance = TotalAt(l, total, c.seen)

(* What a suspended check knows is as old as its age, and one time to live *)
(* of the cache more if it came from there.                                *)
CheckFits(c, l, tokens, total) ==
    /\ c.stage = "staked" => Fresh(l, c.seen, c.age) /\ c.balance = LiquidAt(l, tokens, c.seen)
    /\ c.stage = "read" => Fresh(l, c.seen, c.age) /\ ReadWhole(c, l, total)
    /\ c.stage \in {"cached", "estimate"} =>
          Fresh(l, c.seen, c.age + CacheTtl) /\ ReadWhole(c, l, total)
    /\ c.stage = "estimate" => c.balance >= c.required

CacheFits(entry, l, total) ==
    entry # None => Fresh(l, entry.seen, entry.age) /\ ReadWhole(entry, l, total)

(* The log is in the order of time.                                        *)
Sorted(l) == \A i, j \in DOMAIN l : i <= j => l[i].age >= l[j].age

(* The entries of the balance cache.                                       *)
Entries == [balance : Nat, age : 0 .. CacheTtl, seen : 0 .. MaxTransfers, whole : BOOLEAN]

-----------------------------------------------------------------------------
(* The transfers of a log.                                                 *)
LEMMA LogTypes ==
  ASSUME NEW l \in Seq(Transfers)
  PROVE  /\ Len(l) \in Nat /\ DOMAIN l = 1 .. Len(l)
         /\ \A i \in 1 .. Len(l) : /\ l[i] \in Transfers /\ l[i].age \in Ages /\ l[i].age \in Nat
                                   /\ l[i].delta \in Int /\ l[i].stake \in BOOLEAN
<1>1. Len(l) \in Nat /\ DOMAIN l = 1 .. Len(l) /\ \A i \in 1 .. Len(l) : l[i] \in Transfers
  BY LenProperties
<1>2. \A e \in Transfers : e.age \in Ages /\ e.age \in Nat /\ e.delta \in Int /\ e.stake \in BOOLEAN
  BY GateConstants DEF Transfers, Ages
<1> QED BY <1>1, <1>2

(* Sums over the later transfers are numbers.                              *)
LEMMA LaterSums ==
  ASSUME NEW l \in Seq(Transfers), NEW k \in Nat
  PROVE  /\ SumFunctionOnSet(DeltasOf(l), k + 1 .. Len(l)) \in Int
         /\ SumFunctionOnSet(GainsOf(l), k + 1 .. Len(l)) \in Int
<1>1. \A i \in k + 1 .. Len(l) : DeltasOf(l)[i] \in Int /\ GainsOf(l)[i] \in Int
  BY LogTypes DEF DeltasOf, GainsOf
<1>2. IsFiniteSet(k + 1 .. Len(l))
  BY LogTypes, FS_Interval
<1> QED BY <1>1, <1>2, SumInt

(* A sum over the later places of a sequence that grows by one.            *)
LEMMA GrownSum ==
  ASSUME NEW f, NEW g, NEW n \in Nat, NEW k \in 0 .. n,
         \A i \in 1 .. n : f[i] \in Int /\ g[i] = f[i],
         g[n + 1] \in Int
  PROVE  SumFunctionOnSet(g, k + 1 .. n + 1) = SumFunctionOnSet(f, k + 1 .. n) + g[n + 1]
<1> DEFINE S == k + 1 .. n
<1>1. k + 1 .. n + 1 = S \cup {n + 1} /\ n + 1 \notin S /\ IsFiniteSet(S)
  <2>1. IsFiniteSet(S)
    BY FS_Interval
  <2>2. k + 1 .. n + 1 = S \cup {n + 1} /\ n + 1 \notin S
    OBVIOUS
  <2> QED BY <2>1, <2>2
<1>2. \A i \in S : f[i] \in Int /\ g[i] = f[i]
  OBVIOUS
<1> HIDE DEF S
<1>3. SumFunctionOnSet(g, S \cup {n + 1}) = SumFunctionOnSet(g, S) + g[n + 1]
  BY <1>1, <1>2, SumAdd
<1>4. SumFunctionOnSet(g, S) = SumFunctionOnSet(f, S)
  BY <1>1, <1>2, SumSame
<1>5. SumFunctionOnSet(g, k + 1 .. n + 1) = SumFunctionOnSet(f, S) + g[n + 1]
  BY <1>1, <1>3, <1>4, Zenon
<1> QED BY <1>5 DEF S

(* A transfer does not change what there was before it.                    *)
LEMMA TransferAt ==
  ASSUME NEW l \in Seq(Transfers), NEW e \in Transfers, NEW k \in 0 .. Len(l), NEW now \in Int
  PROVE  /\ LiquidAt(Append(l, e), now + e.delta, k) = LiquidAt(l, now, k)
         /\ TotalAt(Append(l, e), now + (IF e.stake THEN 0 ELSE e.delta), k) = TotalAt(l, now, k)
<1> DEFINE m == Append(l, e)  n == Len(l)  gain == IF e.stake THEN 0 ELSE e.delta
<1>1. n \in Nat /\ k \in Nat /\ k \in 0 .. n
  BY LogTypes
<1>2. /\ m \in Seq(Transfers) /\ Len(m) = n + 1 /\ m[n + 1] = e
      /\ \A i \in 1 .. n : m[i] = l[i]
  BY <1>1, AppendProperties
<1>3. /\ e.delta \in Int /\ gain \in Int
  BY DEF Transfers
<1> DEFINE f == DeltasOf(l)  g == DeltasOf(m)  f2 == GainsOf(l)  g2 == GainsOf(m)
<1>4. /\ \A i \in 1 .. n : f[i] \in Int /\ g[i] = f[i] /\ f2[i] \in Int /\ g2[i] = f2[i]
      /\ g[n + 1] = e.delta /\ g2[n + 1] = gain
  <2>1. DOMAIN m = 1 .. n + 1 /\ DOMAIN l = 1 .. n
    BY <1>2, LogTypes
  <2>2. n + 1 \in 1 .. n + 1 /\ \A i \in 1 .. n : i \in 1 .. n + 1
    BY <1>1
  <2> HIDE DEF m, n
  <2>3. \A i \in 1 .. n : f[i] = l[i].delta /\ f2[i] = (IF l[i].stake THEN 0 ELSE l[i].delta)
    BY <2>1 DEF DeltasOf, GainsOf
  <2>4. \A i \in 1 .. n + 1 : g[i] = m[i].delta /\ g2[i] = (IF m[i].stake THEN 0 ELSE m[i].delta)
    BY <2>1 DEF DeltasOf, GainsOf
  <2>5. \A i \in 1 .. n : l[i].delta \in Int
    BY LogTypes DEF n
  <2> HIDE DEF f, g, f2, g2
  <2> QED BY <1>2, <2>2, <2>3, <2>4, <2>5
<1>5. /\ SumFunctionOnSet(f, k + 1 .. n) \in Int /\ SumFunctionOnSet(f2, k + 1 .. n) \in Int
  BY <1>1, LaterSums
<1> HIDE DEF m, n, f, g, f2, g2, gain
<1>6. /\ SumFunctionOnSet(g, k + 1 .. n + 1) = SumFunctionOnSet(f, k + 1 .. n) + e.delta
      /\ SumFunctionOnSet(g2, k + 1 .. n + 1) = SumFunctionOnSet(f2, k + 1 .. n) + gain
  <2>1. /\ g[n + 1] \in Int /\ \A i \in 1 .. n : f[i] \in Int /\ g[i] = f[i]
        /\ g2[n + 1] \in Int /\ \A i \in 1 .. n : f2[i] \in Int /\ g2[i] = f2[i]
    BY <1>3, <1>4
  <2>2. SumFunctionOnSet(g, k + 1 .. n + 1) = SumFunctionOnSet(f, k + 1 .. n) + g[n + 1]
    BY <1>1, <2>1, GrownSum
  <2>3. SumFunctionOnSet(g2, k + 1 .. n + 1) = SumFunctionOnSet(f2, k + 1 .. n) + g2[n + 1]
    BY <1>1, <2>1, GrownSum
  <2> QED BY <1>4, <2>2, <2>3
<1>7. LiquidAt(m, now + e.delta, k) = LiquidAt(l, now, k)
  <2>1. LiquidAt(m, now + e.delta, k) = (now + e.delta) - (SumFunctionOnSet(f, k + 1 .. n) + e.delta)
    BY <1>2, <1>6, Zenon DEF LiquidAt, g
  <2>2. LiquidAt(l, now, k) = now - SumFunctionOnSet(f, k + 1 .. n)
    BY DEF LiquidAt, f, n
  <2> QED BY <1>3, <1>5, <2>1, <2>2
<1>8. TotalAt(m, now + gain, k) = TotalAt(l, now, k)
  <2>1. TotalAt(m, now + gain, k) = (now + gain) - (SumFunctionOnSet(f2, k + 1 .. n) + gain)
    BY <1>2, <1>6, Zenon DEF TotalAt, g2
  <2>2. TotalAt(l, now, k) = now - SumFunctionOnSet(f2, k + 1 .. n)
    BY DEF TotalAt, f2, n
  <2> QED BY <1>3, <1>5, <2>1, <2>2
<1> QED BY <1>7, <1>8 DEF m, gain

(* At the end of the log there is what there is now.                       *)
LEMMA AtEnd ==
  ASSUME NEW l \in Seq(Transfers), NEW now \in Int
  PROVE  LiquidAt(l, now, Len(l)) = now /\ TotalAt(l, now, Len(l)) = now
<1>1. Len(l) + 1 .. Len(l) = {}
  BY LogTypes
<1>2. now - 0 = now
  OBVIOUS
<1> QED BY <1>1, <1>2, SumEmpty DEF LiquidAt, TotalAt

(* With no move of the stake in between, what is in the stake now was in   *)
(* it then.                                                                *)
LEMMA StakeWas ==
  ASSUME NEW l \in Seq(Transfers), NEW k \in 0 .. Len(l), NEW tokens \in Int, NEW held \in Int,
         \A i \in k + 1 .. Len(l) : ~l[i].stake
  PROVE  LiquidAt(l, tokens, k) + held = TotalAt(l, tokens + held, k)
<1> DEFINE S == k + 1 .. Len(l)
<1>1. k \in Nat /\ IsFiniteSet(S) /\ S \subseteq 1 .. Len(l)
  BY LogTypes, FS_Interval
<1>2. \A i \in S : GainsOf(l)[i] = DeltasOf(l)[i]
  BY <1>1, LogTypes DEF GainsOf, DeltasOf
<1>3. SumFunctionOnSet(GainsOf(l), S) = SumFunctionOnSet(DeltasOf(l), S)
  BY <1>1, <1>2, SumSame
<1>4. SumFunctionOnSet(DeltasOf(l), S) \in Int
  BY <1>1, LaterSums
<1> QED BY <1>3, <1>4 DEF LiquidAt, TotalAt

-----------------------------------------------------------------------------
(* A transfer or a tick of the clock, seen from what was read before.      *)
LEMMA TransferFits ==
  ASSUME NEW l \in Seq(Transfers), NEW e \in Transfers, e.age = 0,
         NEW tokens \in Int, NEW total \in Int
  PROVE  LET gain == IF e.stake THEN 0 ELSE e.delta IN
         /\ Sorted(l) => Sorted(Append(l, e))
         /\ \A c \in Requests : CheckFits(c, l, tokens, total)
               => CheckFits(c, Append(l, e), tokens + e.delta, total + gain)
         /\ \A entry \in Entries \cup {None} : CacheFits(entry, l, total)
               => CacheFits(entry, Append(l, e), total + gain)
<1> DEFINE m == Append(l, e)  n == Len(l)  gain == IF e.stake THEN 0 ELSE e.delta
<1>1. n \in Nat /\ DOMAIN l = 1 .. n /\ \A i \in 1 .. n : l[i].age \in Nat
  BY LogTypes
<1>2. /\ Len(m) = n + 1 /\ DOMAIN m = 1 .. n + 1 /\ m[n + 1] = e
      /\ \A i \in 1 .. n : m[i] = l[i]
  BY <1>1, AppendProperties, LenProperties
<1>3. \A k \in 0 .. n : /\ LiquidAt(m, tokens + e.delta, k) = LiquidAt(l, tokens, k)
                        /\ TotalAt(m, total + gain, k) = TotalAt(l, total, k)
  BY TransferAt
<1> HIDE DEF m, n, gain
<1>4. ASSUME NEW seen, NEW age \in Nat, Fresh(l, seen, age)
      PROVE  Fresh(m, seen, age) /\ seen \in 0 .. n
  <2>1. seen \in 0 .. n /\ \A j \in seen + 1 .. n : l[j].age <= age
    BY <1>4 DEF Fresh, n
  <2>2. ASSUME NEW j \in seen + 1 .. n + 1 PROVE m[j].age <= age
    <3>1. CASE j = n + 1
      BY <1>2, <3>1
    <3>2. CASE j # n + 1
      <4>1. j \in seen + 1 .. n /\ j \in 1 .. n
        BY <1>1, <2>1, <3>2
      <4> QED BY <1>2, <2>1, <4>1
    <3> QED BY <3>1, <3>2
  <2>3. seen \in 0 .. n + 1
    BY <1>1, <2>1
  <2> QED BY <1>2, <2>1, <2>2, <2>3 DEF Fresh
<1>5. Sorted(l) => Sorted(m)
  <2> SUFFICES ASSUME Sorted(l), NEW i \in 1 .. n + 1, NEW j \in 1 .. n + 1, i <= j
               PROVE  m[i].age >= m[j].age
    BY <1>2 DEF Sorted
  <2>1. CASE j = n + 1
    <3>1. m[i].age \in Nat
      BY <1>1, <1>2
    <3> QED BY <1>2, <2>1, <3>1
  <2>2. CASE j # n + 1
    <3>1. i \in 1 .. n /\ j \in 1 .. n
      BY <1>1, <2>2
    <3> QED BY <1>1, <1>2, <3>1 DEF Sorted
  <2> QED BY <2>1, <2>2
<1>6. ASSUME NEW c \in Requests, CheckFits(c, l, tokens, total)
      PROVE  CheckFits(c, m, tokens + e.delta, total + gain)
  <2>1. c.age \in Nat /\ c.age + CacheTtl \in Nat
    BY GateConstants DEF Requests, Ages
  <2> QED BY <1>3, <1>4, <1>6, <2>1 DEF CheckFits, ReadWhole
<1>7. ASSUME NEW entry \in Entries \cup {None}, CacheFits(entry, l, total)
      PROVE  CacheFits(entry, m, total + gain)
  <2>1. entry # None => entry.age \in Nat
    BY GateConstants DEF Entries
  <2> QED BY <1>3, <1>4, <1>7, <2>1 DEF CacheFits, ReadWhole
<1> QED BY <1>5, <1>6, <1>7 DEF m, gain

(* A log one tick later.                                                   *)
Aged(l) == [i \in DOMAIN l |-> [l[i] EXCEPT !.age = Older(@, Oldest)]]

(* A tick leaves what there was alone and ages every transfer by at most   *)
(* one.                                                                    *)
LEMMA AgedFits ==
  ASSUME NEW l \in Seq(Transfers), NEW tokens, NEW total
  PROVE  /\ Sorted(l) => Sorted(Aged(l))
         /\ \A seen : \A age \in Nat : \A b \in Nat :
              Fresh(l, seen, age) /\ (b >= age + 1 \/ b >= Oldest) => Fresh(Aged(l), seen, b)
         /\ \A k : LiquidAt(Aged(l), tokens, k) = LiquidAt(l, tokens, k)
         /\ \A k : TotalAt(Aged(l), total, k) = TotalAt(l, total, k)
<1> DEFINE n == Len(l)  m == Aged(l)
<1>1. /\ n \in Nat /\ DOMAIN l = 1 .. n /\ Oldest \in Nat
      /\ \A i \in 1 .. n : l[i] \in Transfers /\ l[i].age \in Ages /\ l[i].age \in Nat
  BY LogTypes, GateConstants
<1>2. /\ DOMAIN m = 1 .. n
      /\ \A i \in 1 .. n : /\ m[i].age = Older(l[i].age, Oldest)
                           /\ m[i].delta = l[i].delta /\ m[i].stake = l[i].stake
  BY <1>1 DEF Transfers, Aged
<1>3. Len(m) = n
  BY <1>1, <1>2 DEF Aged
<1> HIDE DEF m
<1>4. \A i \in 1 .. n : /\ m[i].age \in Nat /\ m[i].age <= Oldest
                        /\ m[i].age = (IF l[i].age < Oldest THEN l[i].age + 1 ELSE l[i].age)
  BY <1>1, <1>2 DEF Older, Ages
<1>5. DeltasOf(m) = DeltasOf(l) /\ GainsOf(m) = GainsOf(l)
  BY <1>1, <1>2 DEF DeltasOf, GainsOf
<1>6. Sorted(l) => Sorted(m)
  <2> SUFFICES ASSUME Sorted(l), NEW i \in 1 .. n, NEW j \in 1 .. n, i <= j
               PROVE  m[i].age >= m[j].age
    BY <1>2 DEF Sorted
  <2>1. l[i].age >= l[j].age
    BY <1>1 DEF Sorted
  <2> QED BY <1>1, <1>4, <2>1
<1>7. ASSUME NEW seen, NEW age \in Nat, NEW b \in Nat, Fresh(l, seen, age),
             b >= age + 1 \/ b >= Oldest
      PROVE  Fresh(m, seen, b)
  <2>1. seen \in 0 .. n /\ \A j \in seen + 1 .. n : l[j].age <= age
    BY <1>7 DEF Fresh
  <2>2. ASSUME NEW j \in seen + 1 .. n PROVE m[j].age <= b
    <3>1. j \in 1 .. n /\ l[j].age <= age
      BY <1>1, <2>1
    <3>2. m[j].age <= age + 1 /\ m[j].age <= Oldest /\ m[j].age \in Nat
      BY <1>1, <1>4, <3>1
    <3> QED BY <1>1, <1>7, <3>2
  <2> QED BY <1>3, <2>1, <2>2 DEF Fresh
<1>8. /\ \A k : LiquidAt(m, tokens, k) = LiquidAt(l, tokens, k)
      /\ \A k : TotalAt(m, total, k) = TotalAt(l, total, k)
  BY <1>3, <1>5 DEF LiquidAt, TotalAt
<1> QED BY <1>6, <1>7, <1>8 DEF m

(* Freshness is not lost by a larger age.                                  *)
LEMMA FreshWider ==
  ASSUME NEW l \in Seq(Transfers), NEW seen, NEW age \in Nat, NEW b \in Nat, age <= b,
         Fresh(l, seen, age)
  PROVE  Fresh(l, seen, b)
<1>1. \A j \in seen + 1 .. Len(l) : l[j].age \in Nat
  BY LogTypes DEF Fresh
<1> QED BY <1>1 DEF Fresh

(* What holds of the log, the cache and every check.                       *)
HoldFits ==
    /\ CacheFits(cache, log, Total)
    /\ Sorted(log)
    /\ \A q \in Checks : CheckFits(check[q], log, liquid, Total)

(* The inductive invariant of the holder check.                            *)
HoldInv == GateInv /\ HoldFits

(* The types it rests on.                                                  *)
LEMMA HoldTypes ==
  ASSUME GateInv
  PROVE  /\ log \in Seq(Transfers) /\ liquid \in Nat /\ staked \in Nat /\ Total \in Nat
         /\ cache \in Entries \cup {None} /\ required \in Nat /\ Len(log) \in Nat
         /\ \A q \in Checks : /\ check[q] \in Requests /\ check[q].age \in Nat
                              /\ check[q].age <= Oldest /\ check[q].balance \in Nat
                              /\ check[q].required \in Nat
         /\ cache # None => cache.age \in Nat /\ cache.age <= CacheTtl
<1>1. /\ log \in Seq(Transfers) /\ liquid \in Nat /\ staked \in Nat
      /\ cache \in Entries \cup {None} /\ required \in Thresholds
      /\ \A q \in Checks : check[q] \in Requests
  BY GateConstants DEF GateInv, TypeOK, Entries
<1>2. Total \in Nat /\ required \in Nat /\ Len(log) \in Nat
  BY <1>1, GateConstants, LogTypes DEF Total
<1>3. ASSUME NEW q \in Checks
      PROVE  /\ check[q].age \in Nat /\ check[q].age <= Oldest /\ check[q].balance \in Nat
             /\ check[q].required \in Nat
  <2>1. /\ check[q].age \in 0 .. Oldest /\ check[q].balance \in Nat
        /\ check[q].required \in Thresholds \cup {0}
    BY <1>1 DEF Requests, Ages
  <2>2. \A t \in Thresholds \cup {0} : t \in Nat
    BY GateConstants
  <2>3. Oldest \in Nat
    BY GateConstants
  <2>4. check[q].age \in Nat /\ check[q].age <= Oldest
    BY <2>1, <2>3
  <2>5. check[q].required \in Nat
    BY <2>1, <2>2
  <2> QED BY <2>1, <2>4, <2>5
<1>4. cache # None => cache.age \in Nat /\ cache.age <= CacheTtl
  BY <1>1, GateConstants DEF Entries
<1> QED BY <1>1, <1>2, <1>3, <1>4

(* A check at rest knows nothing.                                          *)
LEMMA RestingFits ==
  ASSUME NEW l, NEW tokens, NEW total
  PROVE  CheckFits(Resting, l, tokens, total)
BY DEF Resting, CheckFits

(* At first nothing is known.                                              *)
LEMMA HoldStarts == Init => HoldInv
<1> SUFFICES ASSUME Init PROVE HoldInv
  OBVIOUS
<1>1. GateInv
  BY InitGate
<1>2. log = <<>> /\ cache = None /\ \A q \in Checks : check[q] = Resting
  BY DEF Init
<1>3. CacheFits(cache, log, Total) /\ Sorted(log)
  BY <1>2 DEF CacheFits, Sorted
<1>4. \A q \in Checks : CheckFits(check[q], log, liquid, Total)
  BY <1>2, RestingFits
<1> QED BY <1>1, <1>3, <1>4 DEF HoldInv, HoldFits

(* One check changes and the chain does not.                               *)
LEMMA OneCheck ==
  ASSUME HoldInv, UNCHANGED chain, NEW q \in Checks, NEW c,
         check' = [check EXCEPT ![q] = c],
         CheckFits(c, log, liquid, Total),
         CacheFits(cache', log, Total)
  PROVE  HoldFits'
<1>1. log' = log /\ liquid' = liquid /\ Total' = Total
  BY DEF chain, Total
<1>2. \A p \in Checks : check'[p] = IF p = q THEN c ELSE check[p]
  BY DEF HoldInv, GateInv, TypeOK
<1>3. \A p \in Checks : CheckFits(check'[p], log, liquid, Total)
  BY <1>2 DEF HoldInv, HoldFits
<1>4. Sorted(log)
  BY DEF HoldInv, HoldFits
<1>5. /\ CacheFits(cache', log', Total') /\ Sorted(log')
      /\ \A p \in Checks : CheckFits(check'[p], log', liquid', Total')
  BY <1>1, <1>3, <1>4
<1> QED BY <1>5 DEF HoldFits

(* A transfer changes nothing that was there before it.                    *)
LEMMA HoldTransfer ==
  ASSUME HoldInv, NEW delta \in {-1, 1}, NEW intoStake \in BOOLEAN, Transfer(delta, intoStake)
  PROVE  HoldFits'
<1> DEFINE e == [age |-> 0, delta |-> delta, stake |-> intoStake]
<1>1. /\ log' = Append(log, e) /\ liquid' = liquid + delta
      /\ staked' = (IF intoStake THEN staked - delta ELSE staked)
      /\ UNCHANGED <<required, server, check>>
  BY DEF Transfer
<1>2. /\ log \in Seq(Transfers) /\ liquid \in Nat /\ staked \in Nat /\ Total \in Nat
      /\ cache \in Entries \cup {None} /\ \A q \in Checks : check[q] \in Requests
  BY HoldTypes DEF HoldInv
<1>3. e \in Transfers /\ e.age = 0 /\ e.delta = delta /\ e.stake = intoStake /\ delta \in Int
  BY GateConstants DEF Transfers, Ages
<1>4. Total' = Total + (IF e.stake THEN 0 ELSE e.delta) /\ liquid' = liquid + e.delta
  BY <1>1, <1>2, <1>3 DEF Total
<1> HIDE DEF e
<1>5. /\ CacheFits(cache, log, Total) /\ Sorted(log)
      /\ \A q \in Checks : CheckFits(check[q], log, liquid, Total)
  BY DEF HoldInv, HoldFits
<1>6. /\ Sorted(log')
      /\ \A c \in Requests : CheckFits(c, log, liquid, Total) => CheckFits(c, log', liquid', Total')
      /\ \A entry \in Entries \cup {None} :
            CacheFits(entry, log, Total) => CacheFits(entry, log', Total')
  BY <1>1, <1>2, <1>3, <1>4, <1>5, TransferFits
<1>7. cache' = cache /\ check' = check
  BY <1>1 DEF server
<1>8. /\ CacheFits(cache', log', Total')
      /\ \A q \in Checks : CheckFits(check'[q], log', liquid', Total')
  BY <1>2, <1>5, <1>6, <1>7
<1> QED BY <1>6, <1>8 DEF HoldFits

(* A tick ages what is known with the transfers.                           *)
LEMMA HoldTick ==
  ASSUME HoldInv, Tick
  PROVE  HoldFits'
<1>1. /\ log' = [i \in DOMAIN log |-> [log[i] EXCEPT !.age = Older(@, Oldest)]]
      /\ cache' = IF cache = None \/ Expires(cache, CacheTtl) THEN None
                  ELSE [cache EXCEPT !.age = @ + 1]
      /\ check' = [q \in Checks |-> IF check[q].stage = "rest" THEN check[q]
                    ELSE [check[q] EXCEPT !.age = Older(@, Oldest),
                              !.asked = IF check[q].stage = "estimate" THEN Older(@, Oldest)
                                        ELSE @]]
      /\ UNCHANGED <<liquid, staked, required>>
  BY DEF Tick
<1>2. /\ log \in Seq(Transfers) /\ liquid \in Nat /\ Total \in Nat
      /\ cache \in Entries \cup {None}
      /\ \A q \in Checks : /\ check[q] \in Requests /\ check[q].age \in Nat
                           /\ check[q].age <= Oldest
  BY HoldTypes DEF HoldInv
<1>3. liquid' = liquid /\ Total' = Total
  BY <1>1 DEF Total
<1>4. /\ CacheFits(cache, log, Total) /\ Sorted(log)
      /\ \A q \in Checks : CheckFits(check[q], log, liquid, Total)
  BY DEF HoldInv, HoldFits
<1>5. /\ Sorted(log')
      /\ \A seen : \A age \in Nat : \A b \in Nat :
            Fresh(log, seen, age) /\ (b >= age + 1 \/ b >= Oldest) => Fresh(log', seen, b)
      /\ \A k : LiquidAt(log', liquid, k) = LiquidAt(log, liquid, k)
      /\ \A k : TotalAt(log', Total, k) = TotalAt(log, Total, k)
  <2>1. log' = Aged(log)
    BY <1>1 DEF Aged
  <2>2. /\ Sorted(Aged(log))
        /\ \A seen : \A age \in Nat : \A b \in Nat :
              Fresh(log, seen, age) /\ (b >= age + 1 \/ b >= Oldest) => Fresh(Aged(log), seen, b)
        /\ \A k : LiquidAt(Aged(log), liquid, k) = LiquidAt(log, liquid, k)
        /\ \A k : TotalAt(Aged(log), Total, k) = TotalAt(log, Total, k)
    BY <1>2, <1>4, AgedFits
  <2> QED BY <2>1, <2>2, Zenon
<1>6. CacheFits(cache', log', Total)
  <2> SUFFICES ASSUME cache' # None
               PROVE  Fresh(log', cache'.seen, cache'.age) /\ ReadWhole(cache', log', Total)
    BY DEF CacheFits
  <2>1. cache # None /\ cache \in Entries /\ cache' = [cache EXCEPT !.age = @ + 1]
    BY <1>1, <1>2
  <2>2. /\ cache.age \in Nat /\ cache'.age = cache.age + 1 /\ cache'.seen = cache.seen
        /\ cache'.balance = cache.balance /\ cache'.whole = cache.whole
    BY <2>1, GateConstants DEF Entries
  <2>3. Fresh(log, cache.seen, cache.age) /\ ReadWhole(cache, log, Total)
    BY <1>4, <2>1 DEF CacheFits
  <2>4. cache.age + 1 \in Nat /\ cache.age + 1 >= cache.age + 1
    BY <2>2
  <2>5. Fresh(log', cache.seen, cache.age + 1)
    BY <1>5, <2>2, <2>3, <2>4
  <2> QED BY <1>5, <2>2, <2>3, <2>5 DEF ReadWhole
<1>7. ASSUME NEW q \in Checks PROVE CheckFits(check'[q], log', liquid, Total)
  <2>1. CASE check[q].stage = "rest"
    BY <1>1, <2>1 DEF CheckFits
  <2>2. CASE check[q].stage # "rest"
    <3> DEFINE c == check[q]  d == check'[q]  b == Older(c.age, Oldest)
    <3>1. /\ d.stage = c.stage /\ d.age = b /\ d.seen = c.seen /\ d.balance = c.balance
          /\ d.whole = c.whole /\ d.required = c.required
      BY <1>1, <1>2, <2>2 DEF Requests
    <3>2. /\ c.age \in Nat /\ b \in Nat /\ CacheTtl \in Nat /\ Oldest \in Nat
          /\ b >= c.age + 1 \/ b >= Oldest
      BY <1>2, GateConstants DEF Older
    <3>3. CheckFits(c, log, liquid, Total)
      BY <1>4
    <3> HIDE DEF c, d, b
    <3>4. Fresh(log, c.seen, c.age) => Fresh(log', c.seen, b)
      BY <1>5, <3>2
    <3>5. Fresh(log, c.seen, c.age + CacheTtl) => Fresh(log', c.seen, b + CacheTtl)
      <4>1. c.age + CacheTtl \in Nat /\ b + CacheTtl \in Nat
            /\ (b + CacheTtl >= (c.age + CacheTtl) + 1 \/ b + CacheTtl >= Oldest)
        BY <3>2
      <4> QED BY <1>5, <4>1
    <3>6. CheckFits(d, log', liquid, Total)
      BY <1>5, <3>1, <3>3, <3>4, <3>5 DEF CheckFits, ReadWhole
    <3> QED BY <3>6 DEF d
  <2> QED BY <2>1, <2>2
<1>8. /\ CacheFits(cache', log', Total')
      /\ \A q \in Checks : CheckFits(check'[q], log', liquid', Total')
  BY <1>3, <1>6, <1>7
<1> QED BY <1>5, <1>8 DEF HoldFits

(* Asking and reading.                                                     *)
LEMMA HoldRead ==
  ASSUME HoldInv, NEW q \in Checks, ReadLiquid(q) \/ ReadFails(q) \/ ReadStaked(q) \/ Ask(q)
  PROVE  HoldFits'
<1>1. /\ log \in Seq(Transfers) /\ liquid \in Nat /\ staked \in Nat /\ Len(log) \in Nat
      /\ cache \in Entries \cup {None} /\ check[q] \in Requests
      /\ cache # None => cache.age \in Nat /\ cache.age <= CacheTtl
  BY HoldTypes DEF HoldInv
<1>2. CacheFits(cache, log, Total) /\ CheckFits(check[q], log, liquid, Total)
  BY DEF HoldInv, HoldFits
<1>3. CASE ReadLiquid(q)
  <2> DEFINE c == [check[q] EXCEPT !.stage = "staked", !.balance = liquid, !.seen = Len(log)]
  <2>1. UNCHANGED <<chain, server>> /\ check' = [check EXCEPT ![q] = c]
    BY <1>3 DEF ReadLiquid
  <2>2. c.stage = "staked" /\ c.balance = liquid /\ c.seen = Len(log)
    BY <1>1 DEF Requests
  <2> HIDE DEF c
  <2>3. Fresh(log, c.seen, c.age)
    BY <1>1, <2>2 DEF Fresh
  <2>4. c.balance = LiquidAt(log, liquid, c.seen)
    BY <1>1, <2>2, AtEnd
  <2>5. CheckFits(c, log, liquid, Total)
    BY <2>2, <2>3, <2>4 DEF CheckFits
  <2> QED BY <1>2, <2>1, <2>5, OneCheck DEF server
<1>4. CASE ReadFails(q)
  <2>1. UNCHANGED <<chain, server>> /\ check' = [check EXCEPT ![q] = Resting]
    BY <1>4 DEF ReadFails
  <2>2. CheckFits(Resting, log, liquid, Total)
    BY RestingFits
  <2> QED BY <1>2, <2>1, <2>2, OneCheck DEF server
<1>5. CASE ReadStaked(q)
  <2> DEFINE c == [check[q] EXCEPT !.stage = "read", !.balance = check[q].balance + staked,
                                   !.whole = StakeStill(q)]
             d == [check[q] EXCEPT !.stage = "read", !.whole = FALSE]
  <2>1. /\ UNCHANGED <<chain, server>> /\ check[q].stage = "staked"
        /\ check' = [check EXCEPT ![q] = c] \/ check' = [check EXCEPT ![q] = d]
    BY <1>5 DEF ReadStaked
  <2>2. /\ c.stage = "read" /\ c.balance = check[q].balance + staked /\ c.whole = StakeStill(q)
        /\ c.seen = check[q].seen /\ c.age = check[q].age
        /\ d.stage = "read" /\ d.whole = FALSE
        /\ d.seen = check[q].seen /\ d.age = check[q].age
    BY <1>1 DEF Requests
  <2> HIDE DEF c, d
  <2>3. /\ Fresh(log, check[q].seen, check[q].age)
        /\ check[q].balance = LiquidAt(log, liquid, check[q].seen)
    BY <1>2, <2>1 DEF CheckFits
  <2>4. CheckFits(d, log, liquid, Total)
    BY <2>2, <2>3 DEF CheckFits, ReadWhole
  <2>5. StakeStill(q) => c.balance = TotalAt(log, Total, c.seen)
    <3> SUFFICES ASSUME StakeStill(q) PROVE c.balance = TotalAt(log, Total, c.seen)
      OBVIOUS
    <3>1. /\ c.seen \in 0 .. Len(log) /\ \A i \in c.seen + 1 .. Len(log) : ~log[i].stake
      BY <2>2, <2>3 DEF Fresh, StakeStill
    <3>2. LiquidAt(log, liquid, c.seen) + staked = TotalAt(log, liquid + staked, c.seen)
      BY <1>1, <3>1, StakeWas
    <3> QED BY <2>2, <2>3, <3>2 DEF Total
  <2>6. CheckFits(c, log, liquid, Total)
    BY <2>2, <2>3, <2>5 DEF CheckFits, ReadWhole
  <2> QED BY <1>2, <2>1, <2>4, <2>6, OneCheck DEF server
<1>6. CASE Ask(q)
  <2>1. UNCHANGED <<chain, server>>
    BY <1>6 DEF Ask
  <2>2. CASE cache = None
    <3> DEFINE c == [Resting EXCEPT !.stage = "liquid"]
    <3>1. check' = [check EXCEPT ![q] = c] /\ c.stage = "liquid"
      BY <1>6, <2>2 DEF Ask, Resting
    <3>2. CheckFits(c, log, liquid, Total)
      BY <3>1 DEF CheckFits
    <3> HIDE DEF c
    <3> QED BY <1>2, <2>1, <3>1, <3>2, OneCheck DEF server
  <2>3. CASE cache # None
    <3> DEFINE c == [Resting EXCEPT !.stage = "cached", !.balance = cache.balance,
                                    !.seen = cache.seen, !.whole = cache.whole]
    <3>1. check' = [check EXCEPT ![q] = c]
      BY <1>6, <2>3 DEF Ask
    <3>2. /\ c.stage = "cached" /\ c.balance = cache.balance /\ c.seen = cache.seen
          /\ c.whole = cache.whole /\ c.age = 0
      BY DEF Resting
    <3> HIDE DEF c
    <3>3. Fresh(log, cache.seen, cache.age) /\ ReadWhole(cache, log, Total)
      BY <1>2, <2>3 DEF CacheFits
    <3>4. Fresh(log, c.seen, c.age + CacheTtl)
      <4>1. c.age + CacheTtl \in Nat /\ cache.age <= c.age + CacheTtl
        BY <1>1, <2>3, <3>2, GateConstants
      <4> QED BY <1>1, <2>3, <3>2, <3>3, <4>1, FreshWider
    <3>5. CheckFits(c, log, liquid, Total)
      BY <3>2, <3>3, <3>4 DEF CheckFits, ReadWhole
    <3> QED BY <1>2, <2>1, <3>1, <3>5, OneCheck DEF server
  <2> QED BY <2>2, <2>3
<1> QED BY <1>3, <1>4, <1>5, <1>6

(* What a check knows when its balance is there.                           *)
LEMMA KnownFits ==
  ASSUME HoldInv, NEW q \in Checks, check[q].stage \in {"read", "cached", "estimate"}
  PROVE  /\ Fresh(log, check[q].seen, check[q].age + CacheTtl)
         /\ ReadWhole(check[q], log, Total)
<1>1. /\ log \in Seq(Transfers) /\ check[q].age \in Nat
  BY HoldTypes DEF HoldInv
<1>2. CheckFits(check[q], log, liquid, Total)
  BY DEF HoldInv, HoldFits
<1>3. CASE check[q].stage = "read"
  <2>1. Fresh(log, check[q].seen, check[q].age) /\ ReadWhole(check[q], log, Total)
    BY <1>2, <1>3 DEF CheckFits
  <2>2. check[q].age + CacheTtl \in Nat /\ check[q].age <= check[q].age + CacheTtl
    BY <1>1, GateConstants
  <2> QED BY <1>1, <2>1, <2>2, FreshWider
<1>4. CASE check[q].stage # "read"
  BY <1>2, <1>4 DEF CheckFits
<1> QED BY <1>3, <1>4

(* A balance that was judged is cached and estimated as what it was.       *)
LEMMA HoldJudge ==
  ASSUME HoldInv, NEW q \in Checks, Judge(q)
  PROVE  HoldFits'
<1>1. UNCHANGED <<chain, estimated>> /\ check[q].stage \in {"read", "cached"}
      /\ cache' = IF check[q].stage = "cached" THEN cache
                  ELSE IF Cached(q).age < CacheTtl THEN Cached(q) ELSE None
  BY DEF Judge
<1>2. CacheFits(cache, log, Total) /\ CheckFits(check[q], log, liquid, Total)
  BY DEF HoldInv, HoldFits
<1>3. CacheFits(cache', log, Total)
  <2>1. CASE check[q].stage = "read"
    <3>1. Fresh(log, check[q].seen, check[q].age) /\ ReadWhole(check[q], log, Total)
      BY <1>2, <2>1 DEF CheckFits
    <3>2. CacheFits(Cached(q), log, Total)
      BY <3>1 DEF CacheFits, Cached, ReadWhole
    <3>3. cache' = Cached(q) \/ cache' = None
      BY <1>1, <2>1
    <3>4. CacheFits(None, log, Total)
      BY DEF CacheFits
    <3> QED BY <3>2, <3>3, <3>4
  <2>2. CASE check[q].stage = "cached"
    BY <1>1, <1>2, <2>2
  <2> QED BY <1>1, <2>1, <2>2
<1>4. CASE check' = [check EXCEPT ![q] = Resting]
  BY <1>1, <1>3, <1>4, RestingFits, OneCheck
<1>5. CASE /\ check' = [check EXCEPT ![q] = [@ EXCEPT !.stage = "estimate", !.required = required]]
           /\ ~(check[q].balance < required)
  <2> DEFINE c == [check[q] EXCEPT !.stage = "estimate", !.required = required]
  <2>1. check' = [check EXCEPT ![q] = c]
    BY <1>5
  <2>2. check[q] \in Requests /\ check[q].balance \in Nat /\ required \in Nat
    BY HoldTypes DEF HoldInv
  <2>3. /\ c.stage = "estimate" /\ c.balance = check[q].balance /\ c.seen = check[q].seen
        /\ c.whole = check[q].whole /\ c.age = check[q].age /\ c.required = required
    BY <2>2 DEF Requests
  <2> HIDE DEF c
  <2>4. c.balance >= c.required
    BY <1>5, <2>2, <2>3
  <2>5. Fresh(log, c.seen, c.age + CacheTtl) /\ ReadWhole(c, log, Total)
    BY <1>1, <2>3, KnownFits DEF ReadWhole
  <2>6. CheckFits(c, log, liquid, Total)
    BY <2>3, <2>4, <2>5 DEF CheckFits
  <2> QED BY <1>1, <1>3, <2>1, <2>6, OneCheck
<1> QED BY <1>4, <1>5 DEF Judge, RecordObservation

(* Every step keeps the invariant.                                         *)
LEMMA HoldKept == HoldInv /\ [Next]_vars => HoldInv'
<1> SUFFICES ASSUME HoldInv, [Next]_vars PROVE HoldInv'
  OBVIOUS
<1>1. GateInv'
  BY GateStep DEF HoldInv
<1>2. CacheFits(cache, log, Total) /\ Sorted(log)
      /\ \A q \in Checks : CheckFits(check[q], log, liquid, Total)
  BY DEF HoldInv, HoldFits
<1>3. CASE Quote \/ UNCHANGED vars
  <2>1. cache' = cache /\ log' = log /\ liquid' = liquid /\ Total' = Total /\ check' = check
    BY <1>3 DEF Quote, vars, chain, server, Total
  <2>2. /\ CacheFits(cache', log', Total') /\ Sorted(log')
        /\ \A q \in Checks : CheckFits(check'[q], log', liquid', Total')
    BY <1>2, <2>1
  <2>3. HoldFits'
    BY <2>2 DEF HoldFits
  <2> QED BY <1>1, <2>3 DEF HoldInv
<1>4. CASE Restart
  <2>1. cache' = None /\ log' = log /\ \A q \in Checks : check'[q] = Resting
    BY <1>4 DEF Restart, chain
  <2>2. /\ CacheFits(cache', log', Total') /\ Sorted(log')
        /\ \A q \in Checks : CheckFits(check'[q], log', liquid', Total')
    BY <1>2, <2>1, RestingFits DEF CacheFits
  <2>3. HoldFits'
    BY <2>2 DEF HoldFits
  <2> QED BY <1>1, <2>3 DEF HoldInv
<1>5. ASSUME NEW q \in Checks, Estimate(q) PROVE HoldFits'
  <2>1. UNCHANGED <<chain, cache>> /\ check' = [check EXCEPT ![q] = Resting]
    BY <1>5 DEF Estimate, RecordObservation
  <2>2. CacheFits(cache', log, Total) /\ CheckFits(Resting, log, liquid, Total)
    BY <1>2, <2>1, RestingFits
  <2> QED BY <2>1, <2>2, OneCheck
<1>6. HoldInv /\ HoldFits' => HoldInv'
  BY <1>1 DEF HoldInv
<1> QED BY <1>3, <1>4, <1>5, <1>6, HoldTransfer, HoldTick, HoldRead, HoldJudge DEF Next

(* The invariant holds in every state.                                     *)
THEOREM HoldInvariant == Spec => []HoldInv
BY HoldStarts, HoldKept, PTL DEF Spec

(* An answer is a verdict or the end of an estimate.                       *)
LEMMA WhoAnswers ==
  ASSUME HoldInv, Next, NEW q \in Checks, Answered(q)
  PROVE  \/ Judge(q) /\ check[q].stage \in {"read", "cached"}
         \/ Estimate(q) /\ check[q].stage = "estimate"
<1>1. /\ check[q].stage \in {"read", "cached", "estimate"} /\ check'[q].stage = "rest"
      /\ ~Restart
  BY DEF Answered
<1>2. DOMAIN check = Checks /\ check[q] \in Requests
  BY HoldTypes DEF HoldInv, GateInv, TypeOK
<1>3. check'[q] # check[q]
  BY <1>1
<1>4. ~Tick
  <2> SUFFICES ASSUME Tick PROVE FALSE
    OBVIOUS
  <2>1. check'[q] = [check[q] EXCEPT !.age = Older(@, Oldest),
                              !.asked = IF check[q].stage = "estimate" THEN Older(@, Oldest)
                                        ELSE @]
    BY <1>1 DEF Tick
  <2>2. check'[q].stage = check[q].stage
    BY <1>2, <2>1 DEF Requests
  <2> QED BY <1>1, <2>2
<1>5. ~Quote /\ \A delta \in {-1, 1}, intoStake \in BOOLEAN : ~Transfer(delta, intoStake)
  BY <1>3 DEF Quote, Transfer
<1>6. PICK p \in Checks : \/ Ask(p) \/ ReadLiquid(p) \/ ReadFails(p) \/ ReadStaked(p)
                          \/ Judge(p) \/ Estimate(p)
  BY <1>1, <1>4, <1>5 DEF Next
<1>7. \E c : check' = [check EXCEPT ![p] = c]
  <2>1. CASE Ask(p)
    BY <2>1 DEF Ask
  <2>2. CASE ReadLiquid(p) \/ ReadFails(p)
    BY <2>2 DEF ReadLiquid, ReadFails
  <2>3. CASE ReadStaked(p)
    BY <2>3 DEF ReadStaked
  <2>4. CASE Judge(p)
    BY <2>4 DEF Judge, RecordObservation
  <2>5. CASE Estimate(p)
    BY <2>5 DEF Estimate, RecordObservation
  <2> QED BY <1>6, <2>1, <2>2, <2>3, <2>4, <2>5
<1>8. p = q
  BY <1>2, <1>3, <1>7
<1>9. Judge(q) \/ Estimate(q)
  BY <1>1, <1>6, <1>8 DEF Ask, ReadLiquid, ReadFails, ReadStaked
<1> QED BY <1>9 DEF Judge, Estimate

(* The tracker is told the balance, with what is needed and a record.      *)
LEMMA AnswerRecords ==
  ASSUME HoldInv, Next, NEW q \in Checks, Answered(q)
  PROVE  /\ \E record : /\ record = None \/ record \in Records
                        /\ RecordObservation(q, record, Needed(q))
         /\ Needed(q) \in Nat /\ check[q].balance \in Nat
<1>1. GateInv /\ required \in Nat /\ check[q].balance \in Nat /\ check[q].required \in Nat
  BY HoldTypes DEF HoldInv
<1>2. (history = None \/ history \in Records)
      /\ (estimated # None => estimated.start \in Ages \cup {None})
  BY <1>1 DEF GateInv, TypeOK
<1>3. CASE Judge(q) /\ check[q].stage \in {"read", "cached"}
  <2>1. Needed(q) = required
    BY <1>3 DEF Needed
  <2>2. check'[q].stage = "rest" /\ check[q] \in Requests /\ DOMAIN check = Checks
    BY <1>1 DEF Answered, GateInv, TypeOK
  <2>3. check' # [check EXCEPT ![q] = [@ EXCEPT !.stage = "estimate", !.required = required]]
    BY <2>2 DEF Requests
  <2>4. \/ RecordObservation(q, history, required)
        \/ estimated # None /\ RecordObservation(q, Seeded(estimated.start), required)
    BY <1>3, <2>3 DEF Judge
  <2>5. estimated # None => Seeded(estimated.start) = None \/ Seeded(estimated.start) \in Records
    BY <1>1, <1>2, RecordTypes
  <2> QED BY <1>1, <1>2, <2>1, <2>4, <2>5
<1>4. CASE Estimate(q) /\ check[q].stage = "estimate"
  <2> DEFINE start == HoldStart(check[q].balance, check[q].required)
  <2>1. Needed(q) = check[q].required
    BY <1>4 DEF Needed
  <2>2. \/ RecordObservation(q, history, check[q].required)
        \/ RecordObservation(q, Seeded(start), check[q].required)
    BY <1>4 DEF Estimate
  <2>3. Seeded(start) = None \/ Seeded(start) \in Records
    BY <1>1, HoldStartType, RecordTypes
  <2> HIDE DEF start
  <2> QED BY <1>1, <1>2, <2>1, <2>2, <2>3
<1> QED BY <1>3, <1>4, WhoAnswers

(* What there was after the transfers a check has seen.                    *)
LEMMA TotalsThen ==
  ASSUME GateInv, NEW seen, NEW age \in Nat, Fresh(log, seen, age)
  PROVE  TotalAt(log, Total, seen) \in TotalsSince(age)
<1>1. log \in Seq(Transfers) /\ Total \in Nat /\ Len(log) \in Nat /\ DOMAIN log = 1 .. Len(log)
  BY HoldTypes, LogTypes
<1>2. seen \in 0 .. Len(log) /\ \A j \in seen + 1 .. Len(log) : log[j].age <= age
  BY DEF Fresh
<1>3. CASE seen = Len(log)
  BY <1>1, <1>3, AtEnd DEF TotalsSince
<1>4. CASE seen # Len(log)
  <2>1. seen + 1 \in DOMAIN log /\ seen + 1 \in seen + 1 .. Len(log)
    BY <1>1, <1>2, <1>4
  <2>2. seen + 1 \in {j \in DOMAIN log : log[j].age <= age}
    BY <1>2, <2>1
  <2>3. TotalAt(log, Total, seen) = TotalBefore(seen + 1)
    BY DEF TotalAt, TotalBefore, Gains, GainsOf
  <2> QED BY <2>2, <2>3 DEF TotalsSince
<1> QED BY <1>3, <1>4

(* An answer fits the balance it rests on.                                 *)
LEMMA VerdictOf ==
  ASSUME HoldInv, Next, NEW q \in Checks, Answered(q), check[q].whole
  PROVE  \E total \in TotalsSince(check[q].age + CacheTtl) :
            (total < Needed(q)) <=> (history' = None)
<1>1. PICK record : /\ record = None \/ record \in Records
                    /\ RecordObservation(q, record, Needed(q))
  BY AnswerRecords
<1>2. Needed(q) \in Nat /\ check[q].balance \in Nat
  BY AnswerRecords
<1>3. Observed(record) # None
  <2>1. Observed(record) \in Records
    BY <1>1, RecordTypes DEF HoldInv
  <2>2. Observed(record) \in [age : Nat, count : Nat]
    <3>1. \A n \in 0 .. MinHold : n \in Nat
      BY GateConstants
    <3>2. \A n \in 1 .. MinObservations : n \in Nat
      BY GateConstants
    <3> QED BY <2>1, <3>1, <3>2 DEF Records
  <2> QED BY <2>2, GateConstants, Zenon
<1>4. (check[q].balance < Needed(q)) <=> (history' = None)
  <2>1. history' = IF check[q].balance >= Needed(q) THEN Observed(record) ELSE None
    BY <1>1 DEF RecordObservation
  <2>2. check[q].balance >= Needed(q) <=> ~(check[q].balance < Needed(q))
    BY <1>2
  <2> QED BY <1>3, <2>1, <2>2, Zenon
<1>5. Fresh(log, check[q].seen, check[q].age + CacheTtl)
      /\ check[q].balance = TotalAt(log, Total, check[q].seen)
  BY KnownFits DEF Answered, ReadWhole
<1>6. check[q].age + CacheTtl \in Nat
  BY HoldTypes, GateConstants DEF HoldInv
<1>7. check[q].balance \in TotalsSince(check[q].age + CacheTtl)
  BY <1>5, <1>6, TotalsThen DEF HoldInv
<1> QED BY <1>4, <1>7

(* Whatever checks overlap and whatever the cache holds, a verdict fits    *)
(* what the wallet had at some moment within its age and one time to live  *)
(* of the cache (holder.ts).                                               *)
THEOREM VerdictsFit == Spec => VerdictFits
<1>1. HoldInv /\ [Next]_vars =>
        [\A q \in Checks : Answered(q) /\ check[q].whole =>
           \E total \in TotalsSince(check[q].age + CacheTtl) :
              (total < Needed(q)) <=> (history' = None)]_vars
  <2> SUFFICES ASSUME HoldInv, Next, NEW q \in Checks, Answered(q), check[q].whole
               PROVE  \E total \in TotalsSince(check[q].age + CacheTtl) :
                         (total < Needed(q)) <=> (history' = None)
    BY DEF vars
  <2> QED BY VerdictOf
<1> QED BY <1>1, HoldInvariant, PTL DEF Spec, VerdictFits

(* The wallet held what is needed since the transfer the estimator names,  *)
(* or for as long as the transfers it looked at: before every later one it *)
(* had enough.                                                             *)
LEMMA EstimateTrue ==
  ASSUME GateInv, Sorted(log), NEW balance, NEW needed,
         HoldStart(balance, needed) # None,
         NEW i \in DOMAIN log, log[i].age < HoldStart(balance, needed)
  PROVE  ~(Before(balance, i) < needed)
<1> DEFINE low == Max({1, Len(log) - MaxLookback + 1})
           window == low .. Len(log)
           dips == Dips(balance, needed, window)
<1>1. /\ log \in Seq(Transfers) /\ Len(log) \in Nat /\ DOMAIN log = 1 .. Len(log)
      /\ \A j \in 1 .. Len(log) : log[j].age \in Nat
  BY HoldTypes, LogTypes
<1>2. low \in Nat /\ low >= 1
  BY WindowFits
<1> HIDE DEF low
<1>3. window \subseteq 1 .. Len(log) /\ window \subseteq 0 .. Len(log) /\ window \subseteq Nat
  BY <1>1, <1>2
<1>4. dips \subseteq window /\ \A j \in window : j \notin dips => ~(Before(balance, j) < needed)
  BY DEF Dips
<1> USE DEF low
<1>5. HoldStart(balance, needed) =
        IF window = {} THEN None
        ELSE IF dips # {} THEN log[Max(dips)].age ELSE log[Min(window)].age
  BY DEF HoldStart
<1> HIDE DEF low
<1>6. window = low .. Len(log)
  OBVIOUS
<1> HIDE DEF window, dips
<1>7. ASSUME NEW j \in window, log[i].age < log[j].age
      PROVE  i > j /\ i \in window
  <2>1. i \in 1 .. Len(log) /\ j \in 1 .. Len(log) /\ j >= low
    BY <1>1, <1>2, <1>3, <1>6
  <2>2. ~(i <= j)
    <3> SUFFICES ASSUME i <= j PROVE FALSE
      OBVIOUS
    <3>1. log[i].age >= log[j].age
      BY <1>1, <2>1 DEF Sorted
    <3> QED BY <1>1, <1>7, <2>1, <3>1
  <2> QED BY <1>2, <1>6, <2>1, <2>2
<1>8. CASE dips # {}
  <2>1. Max(dips) \in dips /\ \A j \in dips : Max(dips) >= j
    BY <1>1, <1>3, <1>4, <1>8, Greatest
  <2>2. Max(dips) \in window /\ window # {}
    BY <1>4, <2>1
  <2>3. log[i].age < log[Max(dips)].age
    BY <1>5, <1>8, <2>2
  <2>4. i > Max(dips) /\ i \in window
    BY <1>7, <2>2, <2>3
  <2>5. i \notin dips
    <3>1. i \in Nat /\ Max(dips) \in Nat
      BY <1>3, <2>2, <2>4
    <3>2. ~(Max(dips) >= i)
      BY <2>4, <3>1
    <3> QED BY <2>1, <3>2
  <2> QED BY <1>4, <2>4, <2>5
<1>9. CASE dips = {}
  <2>1. window # {}
    BY <1>5
  <2>2. Min(window) \in window
    BY <1>3, <2>1, Least
  <2>3. log[i].age < log[Min(window)].age
    BY <1>5, <1>9, <2>1
  <2> QED BY <1>4, <1>7, <1>9, <2>2, <2>3
<1> QED BY <1>8, <1>9

(* With no move of the stake in the log, the walk back is the wallet's.    *)
LEMMA WalkedBack ==
  ASSUME GateInv, \A j \in DOMAIN log : ~log[j].stake
  PROVE  \A i : TotalBefore(i) = Before(Total, i)
<1>1. Gains = Deltas
  BY DEF Gains, Deltas
<1> QED BY <1>1 DEF TotalBefore, Before

(* A first record made from an estimate.                                   *)
LEMMA SeedOf ==
  ASSUME HoldInv, Next, NEW q \in Checks, check[q].stage = "estimate", Answered(q),
         check[q].whole, check[q].seen = Len(log), \A i \in DOMAIN log : ~log[i].stake,
         history = None
  PROVE  HeldSince(history'.age, check[q].required)
<1> DEFINE balance == check[q].balance  needed == check[q].required
           start == HoldStart(balance, needed)
<1>1. /\ log \in Seq(Transfers) /\ Total \in Nat /\ balance \in Nat /\ needed \in Nat
      /\ Len(log) \in Nat /\ DOMAIN log = 1 .. Len(log)
      /\ \A i \in 1 .. Len(log) : log[i].age \in Nat
      /\ GateInv /\ Sorted(log)
  BY HoldTypes, LogTypes DEF HoldInv, HoldFits
<1>2. balance = Total
  BY <1>1, KnownFits, AtEnd DEF ReadWhole
<1>3. balance >= needed
  BY DEF HoldInv, HoldFits, CheckFits
<1>4. /\ Estimate(q)
      /\ RecordObservation(q, Seeded(start), needed) \/ RecordObservation(q, history, needed)
  <2>1. Estimate(q)
    BY WhoAnswers
  <2> QED BY <2>1 DEF Estimate
<1>5. start \in Ages \cup {None}
  BY <1>1, HoldStartType
<1>6. \A i \in DOMAIN log : start # None /\ log[i].age < start => ~(TotalBefore(i) < needed)
  BY <1>1, <1>2, EstimateTrue, WalkedBack
<1>7. \A i \in DOMAIN log : TotalBefore(i) \in Int
  <2> SUFFICES ASSUME NEW i \in 1 .. Len(log) PROVE TotalBefore(i) \in Int
    BY <1>1
  <2>1. i - 1 \in Nat /\ (i - 1) + 1 = i
    BY <1>1
  <2>2. SumFunctionOnSet(GainsOf(log), (i - 1) + 1 .. Len(log)) \in Int
    BY <1>1, <2>1, LaterSums
  <2>3. SumFunctionOnSet(Gains, i .. Len(log)) \in Int
    BY <2>1, <2>2 DEF Gains, GainsOf
  <2> QED BY <1>1, <2>3 DEF TotalBefore
<1> HIDE DEF start, balance, needed
<1>8. PICK record : /\ history' = Observed(record)
                    /\ record = None \/ record = Seeded(start)
  BY <1>1, <1>3, <1>4 DEF RecordObservation, balance
<1>9. CASE record = None
  <2>1. history'.age = 0
    BY <1>8, <1>9 DEF Observed
  <2> QED BY <1>1, <1>2, <1>3, <2>1 DEF HeldSince, needed
<1>10. CASE record # None
  <2>1. /\ start # None /\ start \in Nat
        /\ record = [age |-> IF start < MinHold THEN start ELSE MinHold, count |-> 1]
    BY <1>5, <1>8, <1>10 DEF Seeded, Ages
  <2>2. history'.age = record.age /\ record.age \in Nat /\ record.age <= start
    BY <1>8, <1>10, <2>1, GateConstants DEF Observed
  <2>3. ASSUME NEW i \in DOMAIN log, log[i].age < history'.age PROVE TotalBefore(i) >= needed
    <3>1. log[i].age < start
      BY <1>1, <2>1, <2>2, <2>3
    <3>2. ~(TotalBefore(i) < needed)
      BY <1>6, <2>1, <3>1
    <3> QED BY <1>1, <1>7, <3>2
  <2> QED BY <1>1, <1>2, <1>3, <2>3 DEF HeldSince, needed
<1> QED BY <1>9, <1>10

(* A pre-warm does not overstate how long the wallet has held what is      *)
(* required, as far as its transfers were tokens coming and going and all  *)
(* of them were known when the balance was read (prewarm.ts).              *)
THEOREM SeedsAreTrue == Spec => SeedsTrue
<1>1. HoldInv /\ [Next]_vars =>
        [\A q \in Checks :
           LET c == check[q]
               known == c.whole /\ c.seen = Len(log) /\ \A i \in DOMAIN log : ~log[i].stake
           IN c.stage = "estimate" /\ Answered(q) /\ known /\ history = None
                => HeldSince(history'.age, c.required)]_vars
  <2> SUFFICES ASSUME HoldInv, Next, NEW q \in Checks, check[q].stage = "estimate", Answered(q),
                      check[q].whole, check[q].seen = Len(log),
                      \A i \in DOMAIN log : ~log[i].stake, history = None
               PROVE  HeldSince(history'.age, check[q].required)
    BY DEF vars
  <2> QED BY SeedOf
<1> QED BY <1>1, HoldInvariant, PTL DEF Spec, SeedsTrue
===============================================================================

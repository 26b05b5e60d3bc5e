------------------------- MODULE WagerGatewayProofs -------------------------
(***************************************************************************)
(* What module WagerGateway promises for every set of connections, wallets *)
(* and wagers, and whatever the faults.                                    *)
(*                                                                         *)
(* HandedOnce is not inductive: that a wager is handed over once needs to  *)
(* know that it is in one place at a time on its way there (OnePlace).     *)
(* StrandedOnlyByFault needs the same for what a fault-free build can      *)
(* overwrite (NoOverwrite) and must hold from the moment of the offer on.  *)
(***************************************************************************)
EXTENDS WagerGateway, TLAPS

(* A wager that was never minted is nowhere. *)
Fresh ==
    \A w \in Wagers \ minted :
        /\ handed[w] = 0
        /\ w \notin offered
        /\ \A c \in Conns : /\ w \notin building[c]
                            /\ pending[c] # w
                            /\ w \notin verifying[c]

(* A wager is being built, cached, being verified or handed over: in one   *)
(* of these places, and of one connection.                                 *)
OnePlace ==
    \A w \in Wagers : \A c, d \in Conns :
        /\ w \in building[c] => /\ w \in building[d] => c = d
                                /\ pending[d] # w
                                /\ w \notin verifying[d]
                                /\ handed[w] = 0
        /\ pending[c] = w => /\ pending[d] = w => c = d
                             /\ w \notin verifying[d]
                             /\ handed[w] = 0
        /\ w \in verifying[c] => /\ w \in verifying[d] => c = d
                                 /\ handed[w] = 0

DepositedOffered == deposited \subseteq offered

(* Without a fault a build has nothing to overwrite. *)
NoOverwrite ==
    seen = {} =>
        /\ expired = {}
        /\ \A c \in Conns : \A v \in building[c] :
               /\ pending[c] = None
               /\ \A w \in building[c] : v = w

OfferedReachable == seen = {} => \A w \in offered : Reachable(w)

IInv ==
    /\ TypeOK
    /\ Fresh
    /\ OnePlace
    /\ DepositedOffered
    /\ HandedOnce
    /\ OneRaid
    /\ NoOverwrite
    /\ OfferedReachable

-----------------------------------------------------------------------------
(* The initial states. *)
LEMMA InitIInv == Init => IInv
  BY GatewayAssumption
  DEF Init, IInv, TypeOK, Fresh, OnePlace, DepositedOffered, HandedOnce,
      OneRaid, NoOverwrite, OfferedReachable, Reachable

(* Steps that touch neither a wager on its way nor a raid. *)
LEMMA Untouched ==
  ASSUME IInv, TypeOK',
         UNCHANGED <<minted, building, pending, expired, offered, deposited,
                     verifying, handed, raids>>,
         seen' = {} => seen = {}
  PROVE  IInv'
  BY DEF IInv, Fresh, OnePlace, DepositedOffered, HandedOnce, OneRaid,
         NoOverwrite, OfferedReachable, Reachable

LEMMA ConnectIInv ==
  ASSUME IInv, NEW c \in Conns, Connect(c)
  PROVE  IInv'
<1>1. TypeOK'
  BY GatewayAssumption DEF IInv, TypeOK, Connect
<1> QED
  BY <1>1, Untouched DEF Connect

LEMMA DisconnectIInv ==
  ASSUME IInv, NEW c \in Conns, Disconnect(c)
  PROVE  IInv'
<1> USE GatewayAssumption DEF IInv, TypeOK, Disconnect, Fault
<1>1. TypeOK'
  OBVIOUS
<1>2. Fresh' /\ OnePlace'
  BY DEF Fresh, OnePlace
<1>3. DepositedOffered' /\ HandedOnce' /\ OneRaid'
  BY DEF DepositedOffered, HandedOnce, OneRaid
<1>4. seen' # {}
  OBVIOUS
<1>5. NoOverwrite' /\ OfferedReachable'
  BY <1>4 DEF NoOverwrite, OfferedReachable
<1> QED
  BY <1>1, <1>2, <1>3, <1>5

LEMMA BuildIInv ==
  ASSUME IInv, NEW c \in Conns, NEW w \in Wagers, Build(c, w)
  PROVE  IInv'
<1> USE GatewayAssumption DEF IInv, TypeOK, Build
<1>1. TypeOK'
  BY DEF Fault
<1>2. Fresh'
  BY DEF Fresh
<1>3. OnePlace'
  BY DEF Fresh, OnePlace
<1>4. DepositedOffered' /\ HandedOnce' /\ OneRaid'
  BY DEF DepositedOffered, HandedOnce, OneRaid
<1>5. seen' = {} => seen = {} /\ building[c] = {} /\ pending[c] = None
  BY DEF Fault, NoOverwrite, HasPending
<1>6. NoOverwrite'
  BY <1>5 DEF NoOverwrite
<1>7. OfferedReachable'
  BY <1>5 DEF OfferedReachable, Reachable
<1> QED
  BY <1>1, <1>2, <1>3, <1>4, <1>6, <1>7

LEMMA BuiltIInv ==
  ASSUME IInv, NEW c \in Conns, NEW w \in Wagers, Built(c, w)
  PROVE  IInv'
<1> USE GatewayAssumption DEF IInv, TypeOK, Built
<1>1. TypeOK'
  OBVIOUS
<1>2. Fresh'
  BY DEF Fresh
<1>3. OnePlace'
  BY DEF OnePlace
<1>4. DepositedOffered' /\ HandedOnce' /\ OneRaid'
  BY DEF DepositedOffered, HandedOnce, OneRaid
<1>5. NoOverwrite'
  BY DEF NoOverwrite
<1>6. OfferedReachable'
  <2> SUFFICES ASSUME seen' = {}, NEW v \in offered'
               PROVE  Reachable(v)'
    BY DEF OfferedReachable
  <2>1. CASE v = w
    BY <2>1 DEF Reachable
  <2>2. CASE v # w
    <3>1. Reachable(v) /\ pending[c] = None
      BY <2>2 DEF OfferedReachable, NoOverwrite
    <3> QED
      BY <3>1, <2>2 DEF Reachable
  <2> QED
    BY <2>1, <2>2
<1> QED
  BY <1>1, <1>2, <1>3, <1>4, <1>5, <1>6

LEMMA BuildFailedIInv ==
  ASSUME IInv, NEW c \in Conns, NEW w \in Wagers, BuildFailed(c, w)
  PROVE  IInv'
<1> USE GatewayAssumption DEF IInv, TypeOK, BuildFailed
<1>1. TypeOK'
  OBVIOUS
<1>2. Fresh' /\ OnePlace'
  BY DEF Fresh, OnePlace
<1>3. DepositedOffered' /\ HandedOnce' /\ OneRaid'
  BY DEF DepositedOffered, HandedOnce, OneRaid
<1>4. NoOverwrite' /\ OfferedReachable'
  BY DEF NoOverwrite, OfferedReachable, Reachable
<1> QED
  BY <1>1, <1>2, <1>3, <1>4

LEMMA ExpireIInv ==
  ASSUME IInv, NEW c \in Conns, Expire(c)
  PROVE  IInv'
<1> USE GatewayAssumption DEF IInv, TypeOK, Expire, Fault
<1>1. TypeOK'
  OBVIOUS
<1>2. Fresh' /\ OnePlace'
  BY DEF Fresh, OnePlace
<1>3. DepositedOffered' /\ HandedOnce' /\ OneRaid'
  BY DEF DepositedOffered, HandedOnce, OneRaid
<1>4. seen' # {}
  OBVIOUS
<1>5. NoOverwrite' /\ OfferedReachable'
  BY <1>4 DEF NoOverwrite, OfferedReachable
<1> QED
  BY <1>1, <1>2, <1>3, <1>5

LEMMA DepositIInv ==
  ASSUME IInv, NEW w \in Wagers, Deposit(w)
  PROVE  IInv'
<1> USE GatewayAssumption DEF IInv, TypeOK, Deposit
<1>1. TypeOK'
  OBVIOUS
<1>2. Fresh' /\ OnePlace'
  BY DEF Fresh, OnePlace
<1>3. DepositedOffered' /\ HandedOnce' /\ OneRaid'
  BY DEF DepositedOffered, HandedOnce, OneRaid
<1>4. NoOverwrite' /\ OfferedReachable'
  BY DEF NoOverwrite, OfferedReachable, Reachable
<1> QED
  BY <1>1, <1>2, <1>3, <1>4

LEMMA SubmitIInv ==
  ASSUME IInv, NEW c \in Conns, Submit(c)
  PROVE  IInv'
<1> USE GatewayAssumption DEF IInv, TypeOK, Submit
<1>1. pending[c] \in Wagers
  OBVIOUS
<1>2. TypeOK'
  BY <1>1
<1>3. Fresh'
  BY <1>1 DEF Fresh
<1>4. OnePlace'
  BY <1>1 DEF OnePlace
<1>5. DepositedOffered' /\ HandedOnce' /\ OneRaid'
  BY DEF DepositedOffered, HandedOnce, OneRaid
<1>6. NoOverwrite'
  BY DEF NoOverwrite
<1>7. OfferedReachable'
  BY DEF OfferedReachable, Reachable, NoOverwrite, HasPending
<1> QED
  BY <1>2, <1>3, <1>4, <1>5, <1>6, <1>7

LEMMA VerifiedIInv ==
  ASSUME IInv, NEW c \in Conns, NEW w \in Wagers, Verified(c, w)
  PROVE  IInv'
<1> USE GatewayAssumption DEF IInv, TypeOK, Verified
<1>1. TypeOK'
  <2>1. WalletOf[c] \in Wallets
    OBVIOUS
  <2>2. handed' \in [Wagers -> Nat] /\ verifying' \in [Conns -> SUBSET Wagers]
    OBVIOUS
  <2>3. /\ raids' \in [Wallets -> SUBSET (Wagers \cup {None})]
        /\ blocked' \subseteq Wallets
    BY <2>1
  <2> QED
    BY <2>2, <2>3
<1>2. handed[w] = 0 /\ w \in minted
  BY DEF OnePlace, Fresh
<1>3. handed' = [handed EXCEPT ![w] = 1]
  BY <1>2
<1>4. Fresh'
  BY <1>2, <1>3 DEF Fresh
<1>5. OnePlace'
  BY <1>3 DEF OnePlace
<1>6. DepositedOffered' /\ HandedOnce'
  BY <1>3 DEF DepositedOffered, HandedOnce
<1>7. OneRaid'
  BY DEF OneRaid, CanStart
<1>8. NoOverwrite'
  BY DEF NoOverwrite
<1>9. OfferedReachable'
  <2> SUFFICES ASSUME seen' = {}, NEW v \in offered'
               PROVE  Reachable(v)'
    BY DEF OfferedReachable
  <2>1. CASE v = w
    BY <2>1, <1>3 DEF Reachable
  <2>2. CASE v # w
    BY <2>2, <1>3 DEF Reachable, OfferedReachable
  <2> QED
    BY <2>1, <2>2
<1> QED
  BY <1>1, <1>4, <1>5, <1>6, <1>7, <1>8, <1>9

LEMMA UnverifiedIInv ==
  ASSUME IInv, NEW c \in Conns, NEW w \in Wagers, Unverified(c, w)
  PROVE  IInv'
<1> USE GatewayAssumption DEF IInv, TypeOK, Unverified, Fault
<1>1. TypeOK'
  OBVIOUS
<1>2. Fresh' /\ OnePlace'
  BY DEF Fresh, OnePlace
<1>3. DepositedOffered' /\ HandedOnce' /\ OneRaid'
  BY DEF DepositedOffered, HandedOnce, OneRaid
<1>4. seen' # {}
  OBVIOUS
<1>5. NoOverwrite' /\ OfferedReachable'
  BY <1>4 DEF NoOverwrite, OfferedReachable
<1> QED
  BY <1>1, <1>2, <1>3, <1>5

LEMMA WorldIInv ==
  ASSUME IInv, NEW a \in Wallets, WorldStep(a)
  PROVE  IInv'
<1> USE GatewayAssumption DEF IInv, TypeOK, WorldStep, PlainRaid, RaidEnds, Toggle
<1>1. TypeOK'
  OBVIOUS
<1>2. OneRaid'
  BY DEF OneRaid
<1>3. UNCHANGED <<minted, building, pending, expired, offered, deposited,
                  verifying, handed, seen>>
  OBVIOUS
<1>4. Fresh' /\ OnePlace' /\ DepositedOffered' /\ HandedOnce'
  BY <1>3 DEF Fresh, OnePlace, DepositedOffered, HandedOnce
<1>5. NoOverwrite' /\ OfferedReachable'
  BY <1>3 DEF NoOverwrite, OfferedReachable, Reachable
<1> QED
  BY <1>1, <1>2, <1>4, <1>5

LEMMA CrashIInv ==
  ASSUME IInv, Crash
  PROVE  IInv'
<1> USE GatewayAssumption DEF IInv, TypeOK, Crash, Fault
<1>1. TypeOK'
  OBVIOUS
<1>2. Fresh' /\ OnePlace'
  BY DEF Fresh, OnePlace
<1>3. DepositedOffered' /\ HandedOnce' /\ OneRaid'
  BY DEF DepositedOffered, HandedOnce, OneRaid
<1>4. seen' # {}
  OBVIOUS
<1>5. NoOverwrite' /\ OfferedReachable'
  BY <1>4 DEF NoOverwrite, OfferedReachable
<1> QED
  BY <1>1, <1>2, <1>3, <1>5

LEMMA StutterIInv ==
  ASSUME IInv, UNCHANGED vars
  PROVE  IInv'
<1>1. TypeOK'
  BY DEF IInv, TypeOK, vars
<1> QED
  BY <1>1, Untouched DEF vars

-----------------------------------------------------------------------------
(* The inductive invariant holds in every reachable state. *)
THEOREM GatewayInvariance == Spec => []IInv
<1>1. IInv /\ [Next]_vars => IInv'
  <2> SUFFICES ASSUME IInv, [Next]_vars
               PROVE  IInv'
    OBVIOUS
  <2>1. ASSUME NEW c \in Conns, ConnStep(c)
        PROVE  IInv'
    BY <2>1, ConnectIInv, DisconnectIInv, ExpireIInv, SubmitIInv, BuildIInv,
       BuiltIInv, BuildFailedIInv, VerifiedIInv, UnverifiedIInv
    DEF ConnStep
  <2>2. CASE UNCHANGED vars
    BY <2>2, StutterIInv
  <2> QED
    BY <2>1, <2>2, DepositIInv, WorldIInv, CrashIInv DEF Next
<1> QED
  BY InitIInv, <1>1, PTL DEF Spec

(* The type invariant. *)
THEOREM GatewayTypes == Spec => []TypeOK
<1>1. IInv => TypeOK
  BY DEF IInv
<1> QED
  BY GatewayInvariance, <1>1, PTL

(* However requests of any number of connections interleave with the chain,*)
(* disconnects and restarts, handleSubmitWagerRaid books or refunds a      *)
(* deposit at most once, and only one that landed.                         *)
THEOREM NoDoubleHandOver == Spec => []HandedOnce
<1>1. IInv => HandedOnce
  BY DEF IInv
<1> QED
  BY GatewayInvariance, <1>1, PTL

(* A wallet never has two raids: the re-check after the await suffices.    *)
THEOREM NoSecondRaid == Spec => []OneRaid
<1>1. IInv => OneRaid
  BY DEF IInv
<1> QED
  BY GatewayInvariance, <1>1, PTL

(* As long as no fault happened, every landed deposit is still cached,     *)
(* being verified, or handed over.                                         *)
THEOREM NothingStrandedWithoutFault == Spec => []StrandedOnlyByFault
<1>1. IInv => StrandedOnlyByFault
  BY DEF IInv, OfferedReachable, DepositedOffered, StrandedOnlyByFault
<1> QED
  BY GatewayInvariance, <1>1, PTL
=============================================================================

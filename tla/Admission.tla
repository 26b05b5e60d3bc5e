------------------------------ MODULE Admission ------------------------------
(***************************************************************************)
(* Who is connected and who is signed in: the connection life cycle of     *)
(* net/gateway.ts with the per-address counter of                          *)
(* verification/anti-cheat.ts and the signed-in wallets of game/world.ts.  *)
(*                                                                         *)
(* Three places keep a part of the answer.  A connection remembers the     *)
(* wallet that signed in on it, the counter how many connections an        *)
(* address has, the world the set of wallets that may play.  Connections   *)
(* and wallets are not one to one: a wallet may sign in on several         *)
(* connections, a connection may sign in again as another wallet, and the  *)
(* signature is checked while the connection may already be closing.       *)
(*                                                                         *)
(* Left out: nonces and signatures (a check succeeds or fails), the action *)
(* budget and its backoff, the addresses a wallet was seen from, which     *)
(* are only logged.                                                        *)
(*                                                                         *)
(* A definition marked MUTANT is a plausible bug in the definition that    *)
(* follows it.                                                             *)
(***************************************************************************)
EXTENDS Naturals, FiniteSets

CONSTANTS
    Wallets,         \* wallets that may sign in
    Conns,           \* bound: the connections of one run
    Ips,             \* addresses connections come from
    IpOf,            \* the address of each connection
    MaxConnections,  \* maxConnectionsPerIp
    Anonymous        \* no wallet: the anonymous sentinel

ASSUME AdmissionAssumption ==
    /\ MaxConnections \in Nat \ {0}
    /\ IpOf \in [Conns -> Ips]
    /\ Anonymous \notin Wallets
    /\ IsFiniteSet(Conns)

VARIABLES
    status,    \* of each connection: new, open, refused, closed
    wallet,    \* meta.walletAddress of each connection
    checking,  \* of each connection: wallets whose signature is being checked
    count,     \* connectionCount of each address
    authed,    \* the world's signed-in wallets
    mining,    \* wallets registered at an asteroid
    slips,     \* history: refused connections of each address that closed
    late,      \* history: signed in for a connection that had closed
    replaced,  \* history: signed in on a connection that changed wallets
    cut        \* history: signed out by another connection of the wallet

gateway == <<status, wallet, checking, count>>
world == <<authed, mining>>
past == <<slips, late, replaced, cut>>
admissionVars == <<gateway, world, past>>

AdmissionTypeOK ==
    /\ status \in [Conns -> {"new", "open", "refused", "closed"}]
    /\ wallet \in [Conns -> Wallets \cup {Anonymous}]
    /\ checking \in [Conns -> SUBSET Wallets]
    /\ count \in [Ips -> 0..MaxConnections]
    /\ authed \subseteq Wallets /\ mining \subseteq Wallets
    /\ slips \in [Ips -> Nat]
    /\ late \subseteq Wallets /\ replaced \subseteq Wallets /\ cut \subseteq Wallets

AdmissionInit ==
    /\ status = [c \in Conns |-> "new"]
    /\ wallet = [c \in Conns |-> Anonymous]
    /\ checking = [c \in Conns |-> {}]
    /\ count = [i \in Ips |-> 0]
    /\ authed = {} /\ mining = {}
    /\ slips = [i \in Ips |-> 0]
    /\ late = {} /\ replaced = {} /\ cut = {}

(* The open connections that a wallet is signed in on. *)
On(a) == {c \in Conns : status[c] = "open" /\ wallet[c] = a}

-----------------------------------------------------------------------------
(* onConnection: the address has a slot left. *)
Admit(c) ==
    /\ status[c] = "new"
    /\ count[IpOf[c]] < MaxConnections
    /\ status' = [status EXCEPT ![c] = "open"]
    /\ count' = [count EXCEPT ![IpOf[c]] = @ + 1]
    /\ UNCHANGED <<wallet, checking, world, past>>

(* onConnection: it has none.  The close it asks for comes later. *)
Refuse(c) ==
    /\ status[c] = "new"
    /\ count[IpOf[c]] >= MaxConnections
    /\ status' = [status EXCEPT ![c] = "refused"]
    /\ UNCHANGED <<wallet, checking, count, world, past>>

(* dispatch 'auth' up to its await. *)
Auth(c, a) ==
    /\ status[c] = "open"
    /\ a \notin checking[c]
    /\ checking' = [checking EXCEPT ![c] = @ \cup {a}]
    /\ UNCHANGED <<status, wallet, count, world, past>>

(* The signature is wrong, or the wallet is not on the allow list. *)
AuthRejected(c, a) ==
    /\ a \in checking[c]
    /\ checking' = [checking EXCEPT ![c] = @ \ {a}]
    /\ UNCHANGED <<status, wallet, count, world, past>>

(* MUTANT of AuthOk: a second sign-in of a connection is not passed on.    *)
AuthFirstOnly(c, a) ==
    /\ a \in checking[c]
    /\ checking' = [checking EXCEPT ![c] = @ \ {a}]
    /\ wallet' = [wallet EXCEPT ![c] = a]
    /\ authed' = IF wallet[c] = Anonymous THEN authed \cup {a} ELSE authed
    /\ late' = IF status[c] = "closed" THEN late \cup {a} ELSE late
    /\ replaced' = replaced \cup ({wallet[c]} \ {Anonymous, a})
    /\ UNCHANGED <<status, count, mining, slips, cut>>

(* The signature is right: the connection takes the wallet and the world   *)
(* signs it in, before the await of connectPlayer.  Neither asks whether   *)
(* the connection is still open, or whose it was.                          *)
AuthOk(c, a) ==
    /\ a \in checking[c]
    /\ checking' = [checking EXCEPT ![c] = @ \ {a}]
    /\ wallet' = [wallet EXCEPT ![c] = a]
    /\ authed' = authed \cup {a}
    /\ late' = IF status[c] = "closed" THEN late \cup {a} ELSE late
    /\ replaced' = replaced \cup ({wallet[c]} \ {Anonymous, a})
    /\ cut' = cut \ {a}
    /\ UNCHANGED <<status, count, mining, slips>>

(* joinAsteroid, and leaving again, by a wallet that may play. *)
Join(c) ==
    /\ status[c] = "open"
    /\ wallet[c] \in authed
    /\ \/ mining' = mining \cup {wallet[c]}
       \/ mining' = mining \ {wallet[c]}
    /\ UNCHANGED <<gateway, authed, past>>

(* disconnectPlayer: the wallet is signed out of the world as a whole.     *)
DisconnectPlayer(a) ==
    /\ authed' = authed \ {a}
    /\ mining' = mining \ {a}

(* MUTANT of RecordDisconnect: the last slot is not given back.            *)
RecordDisconnectAbove(i) == count' = [count EXCEPT ![i] = IF @ > 1 THEN @ - 1 ELSE @]

(* recordDisconnect: the address has a slot more, down to none taken.      *)
RecordDisconnect(i) == count' = [count EXCEPT ![i] = IF @ > 0 THEN @ - 1 ELSE 0]

(* MUTANT of Disconnect: only the counter hears of the close.              *)
DisconnectUnsigned(c) ==
    /\ status[c] = "open"
    /\ status' = [status EXCEPT ![c] = "closed"]
    /\ RecordDisconnect(IpOf[c])
    /\ UNCHANGED <<wallet, checking, world, past>>

(* onDisconnect, for every connection that closes, a refused one too.      *)
Disconnect(c) ==
    /\ status[c] \in {"open", "refused"}
    /\ status' = [status EXCEPT ![c] = "closed"]
    /\ RecordDisconnect(IpOf[c])
    /\ slips' = IF status[c] = "refused" THEN [slips EXCEPT ![IpOf[c]] = @ + 1] ELSE slips
    /\ IF wallet[c] = Anonymous
       THEN UNCHANGED <<world, late, replaced, cut>>
       ELSE /\ DisconnectPlayer(wallet[c])
            /\ late' = late \ {wallet[c]}
            /\ replaced' = replaced \ {wallet[c]}
            /\ cut' = IF On(wallet[c]) = {c} THEN cut ELSE cut \cup {wallet[c]}
    /\ UNCHANGED <<wallet, checking>>

-----------------------------------------------------------------------------
Step(c) ==
    \/ Admit(c) \/ Refuse(c) \/ Join(c) \/ Disconnect(c)
    \/ \E a \in Wallets : Auth(c, a) \/ AuthRejected(c, a) \/ AuthOk(c, a)

AdmissionNext == \E c \in Conns : Step(c)

AdmissionSpec == AdmissionInit /\ [][AdmissionNext]_admissionVars

-----------------------------------------------------------------------------
(* Correctness.                                                            *)

Open(i) == {c \in Conns : status[c] = "open" /\ IpOf[c] = i}

(* The counter of an address never exceeds its open connections, so no     *)
(* slot is lost however connections end, and falls short of them by at     *)
(* most the refused connections that closed: recordDisconnect balances     *)
(* checkConnection's counting of the admitted ones, but the close of a     *)
(* refused one gives back a slot that it never had.                        *)
CountTracks ==
    \A i \in Ips : /\ count[i] <= Cardinality(Open(i))
                   /\ Cardinality(Open(i)) <= count[i] + slips[i]

(* A wallet is signed in, and mines, only while an open connection has     *)
(* signed in as it, unless its sign-in came after the close of its         *)
(* connection, or its connection went on as another wallet: then nothing   *)
(* but a later connection of the wallet signs it out.                      *)
SessionBacked ==
    /\ \A a \in authed : On(a) # {} \/ a \in late \cup replaced
    /\ mining \subseteq authed

(* A connection that has signed in can play, unless another connection of  *)
(* its wallet closed since: disconnectPlayer does not count connections.   *)
SignedInServed ==
    \A c \in Conns : status[c] = "open" /\ wallet[c] # Anonymous =>
        wallet[c] \in authed \cup cut
=============================================================================

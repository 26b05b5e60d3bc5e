---------------------------- MODULE EscrowOutbox ----------------------------
(***************************************************************************)
(* The durable escrow manager (server/chain/escrow-manager.ts): the system *)
(* of record and settlement outbox for on-chain raid wagers.               *)
(*                                                                         *)
(* A verified deposit becomes a record in the manager's memory and a row   *)
(* of the escrow_wagers table.  When the raid resolves, the record gets a  *)
(* plan of payout legs; the legs run in order, each one an awaited chain   *)
(* transfer followed by an awaited write of the row.  Every await is a     *)
(* point where the other fibers of the process run, where a write may fail *)
(* (the failure is logged and swallowed), where a transfer may land        *)
(* without its confirmation being seen, and where the process may die.     *)
(*                                                                         *)
(* A step of this module is the code between two awaits.                   *)
(*                                                                         *)
(* A definition marked MUTANT is a plausible bug in the definition that    *)
(* follows it; a property is worth checking only if one of them breaks it. *)
(***************************************************************************)
EXTENDS Naturals, FiniteSets, Functions


CONSTANTS
    Wagers,      \* wager ids; the gateway mints a fresh uuid per deposit
    Defenders,   \* wallets that can be paid defender spoils
    Amount,      \* the escrowed amount of a wager, in whole tokens
    LossPlans,   \* the splits a lost or abandoned raid can produce
    MaxRetries,  \* maxRetries: attempts before a record is parked
    Faults,      \* the kinds of fault this instance allows
    MaxCrashes,  \* bound on the number of crashes
    NoRecord     \* the absent record

(* "crash": the process dies.  "shutdown": SIGTERM, which closes the store *)
(* before the runs in flight are over.  "putFailed", "loadFailed": a store *)
(* call throws.  "lateBooking": the pool runs recordBooked's write after a *)
(* later one.  "unconfirmed": a transfer lands and its confirmation is not *)
(* seen.  "earlySweep": the sweep reaches a record whose plan is still     *)
(* being written.                                                          *)
FaultKinds == {"crash", "shutdown", "putFailed", "loadFailed", "lateBooking",
               "unconfirmed", "earlySweep"}

(* A leg is named by what it does: a payout leg by its defender. *)
Leg == Defenders \cup {"return", "recirculate", "burn"}

(* Legs run in the order buildLegs pushes them. *)
Rank(l) == CASE l = "burn" -> 3 [] l = "recirculate" -> 2 [] OTHER -> 1

(* WagerSettlement with returnTo: the whole wager goes back. *)
ReturnPlan == [l \in Leg |-> IF l = "return" THEN Amount ELSE 0]

Plans == LossPlans \cup {ReturnPlan}

Status == {"active", "settling", "failed"}

(* EscrowWagerRecord; legs are the positive entries of the plan, and done  *)
(* collects their done flags.                                              *)
Record == [status : Status, plan : [Leg -> Nat], done : SUBSET Leg,
           retries : 0..MaxRetries]

ASSUME OutboxAssumption ==
    /\ Amount \in Nat \ {0}
    /\ MaxRetries \in Nat \ {0}
    /\ MaxCrashes \in Nat
    /\ Faults \subseteq FaultKinds
    /\ IsFiniteSet(Defenders)
    /\ Defenders \cap {"return", "recirculate", "burn"} = {}
    /\ \A p \in LossPlans : p \in [Leg -> Nat] /\ p["return"] = 0
    /\ NoRecord \notin Record

EmptyPlan == [l \in Leg |-> 0]

ActiveRecord == [status |-> "active", plan |-> EmptyPlan, done |-> {},
                 retries |-> 0]

(* The legs of a plan: buildLegs drops every amount that is not positive.  *)
LegsOf(plan) == {l \in Leg : plan[l] > 0}

Todo(rec) == LegsOf(rec.plan) \ rec.done

(* MUTANT of NextLegs: the legs run in no particular order.                *)
NextLegsUnordered(rec) == Todo(rec)

(* The legs runLegs may be at: none of a lower rank is still to do.        *)
NextLegs(rec) == {l \in Todo(rec) : \A k \in Todo(rec) : Rank(l) <= Rank(k)}

VARIABLES
    deposited,   \* wagers whose deposit was verified on chain
    live,        \* world.expeditionWagers: raids in progress (volatile)
    records,     \* the manager's Map of unsettled records (volatile)
    rows,        \* the escrow_wagers table
    bookPut,     \* wagers whose recordBooked write is in flight (volatile)
    settlePut,   \* the snapshot a settle call is writing (volatile)
    runner,      \* where runLegs is for a wager; not idle = inFlight
    phase,       \* "up", "stopping", "down" or "boot"
    bootQueue,   \* rows reconcileOnBoot has not reached yet
    landed,      \* how often each leg really moved tokens on chain
    crashes,     \* number of crashes so far
    seen         \* the kinds of fault that have happened (history)

vars == <<deposited, live, records, rows, bookPut, settlePut, runner, phase,
          bootQueue, landed, crashes, seen>>

RunnerPC == {"idle", "loop", "put", "putErr", "delete"}

TypeOK ==
    /\ deposited \subseteq Wagers
    /\ live \subseteq Wagers
    /\ records \in [Wagers -> Record \cup {NoRecord}]
    /\ rows \in [Wagers -> Record \cup {NoRecord}]
    /\ bookPut \subseteq Wagers
    /\ settlePut \in [Wagers -> Record \cup {NoRecord}]
    /\ runner \in [Wagers -> RunnerPC]
    /\ phase \in {"up", "stopping", "down", "boot"}
    /\ bootQueue \subseteq Wagers
    /\ landed \in [Wagers -> [Leg -> Nat]]
    /\ crashes \in Nat
    /\ seen \subseteq FaultKinds

(* First start: an empty table and nothing in flight. *)
Init ==
    /\ deposited = {}
    /\ live = {}
    /\ records = [w \in Wagers |-> NoRecord]
    /\ rows = [w \in Wagers |-> NoRecord]
    /\ bookPut = {}
    /\ settlePut = [w \in Wagers |-> NoRecord]
    /\ runner = [w \in Wagers |-> "idle"]
    /\ phase = "up"
    /\ bootQueue = {}
    /\ landed = [w \in Wagers |-> [l \in Leg |-> 0]]
    /\ crashes = 0
    /\ seen = {}

-----------------------------------------------------------------------------
(* Writes to the store: persist and remove log a failure and carry on.     *)

Fault(kind) == kind \in Faults /\ seen' = seen \cup {kind}

(* A write of w that takes effect while recordBooked's is still in flight. *)
Overtaking(w) == IF w \in bookPut THEN {"lateBooking"} ELSE {}

(* Once shutdown has closed the pool a write is refused. *)
WriteFails == \/ Fault("putFailed")
              \/ phase = "stopping" /\ UNCHANGED seen

(* persist(rec) of wager w, awaited to its end; NoRecord is remove.        *)
Persist(w, rec) ==
    \/ /\ Overtaking(w) \subseteq Faults
       /\ rows' = [rows EXCEPT ![w] = rec]
       /\ seen' = seen \cup Overtaking(w)
    \/ UNCHANGED rows /\ WriteFails

-----------------------------------------------------------------------------
(* Calls from the game.                                                    *)

(* A raid launched on a verified deposit: onWagerBooked starts recordBooked *)
(* without awaiting it, and the raid is acknowledged.                      *)
RecordBooked(w) ==
    /\ phase \in {"up", "stopping"}
    /\ w \notin deposited
    /\ deposited' = deposited \cup {w}
    /\ live' = live \cup {w}
    /\ records' = [records EXCEPT ![w] = ActiveRecord]
    /\ bookPut' = bookPut \cup {w}
    /\ UNCHANGED <<rows, settlePut, runner, phase, bootQueue, landed, crashes,
                   seen>>

(* The write recordBooked issued reaches the store, or fails. *)
BookPutDone(w) ==
    /\ w \in bookPut
    /\ bookPut' = bookPut \ {w}
    /\ \/ rows' = [rows EXCEPT ![w] = ActiveRecord] /\ UNCHANGED seen
       \/ UNCHANGED rows /\ WriteFails
    /\ UNCHANGED <<deposited, live, records, settlePut, runner, phase,
                   bootQueue, landed, crashes>>

(* settle(plan) up to its first await: the record, created if absent, gets *)
(* the plan as fresh legs and its write is issued.                         *)
SettleRecord(w, plan) ==
    [status |-> "settling", plan |-> plan, done |-> {},
     retries |-> IF records[w] = NoRecord THEN 0 ELSE records[w].retries]

Settle(w, plan) ==
    /\ records' = [records EXCEPT ![w] = SettleRecord(w, plan)]
    /\ settlePut' = [settlePut EXCEPT ![w] = SettleRecord(w, plan)]

(* MUTANT of Resolve: the raid stays live, so it can resolve again.        *)
ResolveAgain(w) ==
    /\ phase \in {"up", "stopping"}
    /\ w \in live
    /\ \E plan \in Plans : Settle(w, plan)
    /\ UNCHANGED <<deposited, live, rows, bookPut, runner, phase, bootQueue,
                   landed, crashes, seen>>

(* A live raid resolves, or its raider abandons it: the mapping is dropped *)
(* first, so a wager is handed over at most once.                          *)
Resolve(w) ==
    /\ phase \in {"up", "stopping"}
    /\ w \in live
    /\ live' = live \ {w}
    /\ \E plan \in Plans : Settle(w, plan)
    /\ UNCHANGED <<deposited, rows, bookPut, runner, phase, bootQueue, landed,
                   crashes, seen>>

(* A verified deposit whose raid could not launch: onWagerRefund. *)
RefundUnlaunched(w) ==
    /\ phase \in {"up", "stopping"}
    /\ w \notin deposited
    /\ deposited' = deposited \cup {w}
    /\ Settle(w, ReturnPlan)
    /\ UNCHANGED <<live, rows, bookPut, runner, phase, bootQueue, landed,
                   crashes, seen>>

-----------------------------------------------------------------------------
(* runLegs: at most one run per wager (inFlight).                          *)

(* MUTANT of Continue: one leg done is taken for all of them.              *)
ContinueAfterOne(w, rec) ==
    IF rec = NoRecord \/ rec.done # {}
    THEN /\ records' = [records EXCEPT ![w] = NoRecord]
         /\ runner' = [runner EXCEPT ![w] = "delete"]
    ELSE /\ records' = [records EXCEPT ![w] = rec]
         /\ runner' = [runner EXCEPT ![w] = "loop"]

(* Enter the loop, or go round it: run the next leg, or, when every leg is *)
(* done, forget the record and delete its row.                             *)
Continue(w, rec) ==
    IF rec = NoRecord \/ Todo(rec) = {}
    THEN /\ records' = [records EXCEPT ![w] = NoRecord]
         /\ runner' = [runner EXCEPT ![w] = "delete"]
    ELSE /\ records' = [records EXCEPT ![w] = rec]
         /\ runner' = [runner EXCEPT ![w] = "loop"]

(* settle's write is over: run the legs unless a run is in flight. *)
SettlePutDone(w) ==
    /\ settlePut[w] # NoRecord
    /\ Persist(w, settlePut[w])
    /\ settlePut' = [settlePut EXCEPT ![w] = NoRecord]
    /\ IF runner[w] = "idle"
       THEN Continue(w, records[w])
       ELSE UNCHANGED <<records, runner>>
    /\ UNCHANGED <<deposited, live, bookPut, phase, bootQueue, landed, crashes>>

(* The chain operation of the next leg confirms: the leg is done and the   *)
(* record's write is issued.                                               *)
LegConfirmed(w) ==
    /\ runner[w] = "loop"
    /\ \E l \in NextLegs(records[w]) :
        /\ landed' = [landed EXCEPT ![w][l] = @ + 1]
        /\ records' = [records EXCEPT ![w].done = @ \cup {l}]
    /\ runner' = [runner EXCEPT ![w] = "put"]
    /\ UNCHANGED <<deposited, live, rows, bookPut, settlePut, phase, bootQueue,
                   crashes, seen>>

(* MUTANT of Failed: a failed attempt is not counted.                      *)
FailedUncounted(rec) == rec

(* One more failed attempt; at maxRetries the record is parked. *)
Failed(rec) ==
    [rec EXCEPT !.retries = IF @ < MaxRetries THEN @ + 1 ELSE @,
                !.status = IF rec.retries + 1 >= MaxRetries THEN "failed"
                           ELSE @]

(* MUTANT of LegRejected: the leg is marked before its operation returns.  *)
LegMarkedFirst(w) ==
    /\ runner[w] = "loop"
    /\ \E l \in NextLegs(records[w]) :
        records' = [records EXCEPT ![w] = [Failed(@) EXCEPT !.done = @ \cup {l}]]
    /\ runner' = [runner EXCEPT ![w] = "putErr"]
    /\ UNCHANGED <<deposited, live, rows, bookPut, settlePut, phase, bootQueue,
                   landed, crashes, seen>>

(* The chain operation throws and nothing moved. *)
LegRejected(w) ==
    /\ runner[w] = "loop"
    /\ records' = [records EXCEPT ![w] = Failed(@)]
    /\ runner' = [runner EXCEPT ![w] = "putErr"]
    /\ UNCHANGED <<deposited, live, rows, bookPut, settlePut, phase, bootQueue,
                   landed, crashes, seen>>

(* The transfer landed but sendAndConfirmTransaction threw, as it does when *)
(* the confirmation times out: the manager counts a failed attempt.        *)
LegUnconfirmed(w) ==
    /\ runner[w] = "loop"
    /\ Fault("unconfirmed")
    /\ \E l \in NextLegs(records[w]) : landed' = [landed EXCEPT ![w][l] = @ + 1]
    /\ records' = [records EXCEPT ![w] = Failed(@)]
    /\ runner' = [runner EXCEPT ![w] = "putErr"]
    /\ UNCHANGED <<deposited, live, rows, bookPut, settlePut, phase, bootQueue,
                   crashes>>

(* MUTANT of LegPutDone: progress is not written after each leg.           *)
LegPutSkipped(w) ==
    /\ runner[w] = "put"
    /\ Continue(w, records[w])
    /\ UNCHANGED <<deposited, live, rows, bookPut, settlePut, phase, bootQueue,
                   landed, crashes, seen>>

(* The write after a confirmed leg is over: go round the loop. *)
LegPutDone(w) ==
    /\ runner[w] = "put"
    /\ Persist(w, records[w])
    /\ Continue(w, records[w])
    /\ UNCHANGED <<deposited, live, bookPut, settlePut, phase, bootQueue,
                   landed, crashes>>

(* The write after a failed leg is over: the run returns. *)
ErrPutDone(w) ==
    /\ runner[w] = "putErr"
    /\ Persist(w, records[w])
    /\ runner' = [runner EXCEPT ![w] = "idle"]
    /\ UNCHANGED <<deposited, live, records, bookPut, settlePut, phase,
                   bootQueue, landed, crashes>>

(* The row of a settled wager is deleted: the run returns. *)
DeleteDone(w) ==
    /\ runner[w] = "delete"
    /\ Persist(w, NoRecord)
    /\ runner' = [runner EXCEPT ![w] = "idle"]
    /\ UNCHANGED <<deposited, live, records, bookPut, settlePut, phase,
                   bootQueue, landed, crashes>>

(* The retry sweep reaches a settling record that no run holds, even one   *)
(* whose plan is still being written ("earlySweep").  Shutdown does not    *)
(* stop the sweep.                                                         *)
Sweep(w) ==
    /\ phase \in {"up", "stopping"}
    /\ records[w] # NoRecord
    /\ records[w].status = "settling"
    /\ runner[w] = "idle"
    /\ IF settlePut[w] # NoRecord THEN Fault("earlySweep") ELSE UNCHANGED seen
    /\ Continue(w, records[w])
    /\ UNCHANGED <<deposited, live, rows, bookPut, settlePut, phase, bootQueue,
                   landed, crashes>>

-----------------------------------------------------------------------------
(* Crash and restart.                                                      *)

(* The process is gone with everything in memory and in flight.  A write   *)
(* or transfer that was under way and took effect is the corresponding     *)
(* step above followed by this one.                                        *)
Die ==
    /\ phase' = "down"
    /\ live' = {}
    /\ records' = [w \in Wagers |-> NoRecord]
    /\ bookPut' = {}
    /\ settlePut' = [w \in Wagers |-> NoRecord]
    /\ runner' = [w \in Wagers |-> "idle"]
    /\ bootQueue' = {}
    /\ UNCHANGED <<deposited, rows, landed>>

Crash ==
    /\ phase \in {"up", "boot"}
    /\ crashes < MaxCrashes
    /\ crashes' = crashes + 1
    /\ Fault("crash")
    /\ Die

(* SIGTERM: the world's timer and the store are closed, and the process    *)
(* exits once the HTTP server has drained.  Handlers and runs that were    *)
(* awaiting something go on until then.                                    *)
Shutdown ==
    /\ phase = "up"
    /\ crashes < MaxCrashes
    /\ crashes' = crashes + 1
    /\ Fault("shutdown")
    /\ phase' = "stopping"
    /\ UNCHANGED <<deposited, live, records, rows, bookPut, settlePut, runner,
                   bootQueue, landed>>

Exit ==
    /\ phase = "stopping"
    /\ Die
    /\ UNCHANGED <<crashes, seen>>

(* reconcileOnBoot reads the unsettled rows; when the read fails it logs   *)
(* and the server comes up without them.                                   *)
Boot ==
    /\ phase = "down"
    /\ \/ /\ phase' = "boot"
          /\ bootQueue' = {w \in Wagers : rows[w] # NoRecord}
          /\ UNCHANGED seen
       \/ /\ phase' = "up"
          /\ Fault("loadFailed")
          /\ UNCHANGED bootQueue
    /\ UNCHANGED <<deposited, live, records, rows, bookPut, settlePut, runner,
                   landed, crashes>>

(* Every settlement the boot loop awaited has returned. *)
Quiet == \A w \in Wagers : settlePut[w] = NoRecord /\ runner[w] = "idle"

(* MUTANT of Reconcile: every row that is not parked is refunded.          *)
ReconcileByRefund(w) ==
    /\ phase = "boot"
    /\ Quiet
    /\ w \in bootQueue
    /\ bootQueue' = bootQueue \ {w}
    /\ LET rec == [status |-> "settling", plan |-> ReturnPlan, done |-> {},
                   retries |-> 0]
       IN  /\ records' = [records EXCEPT ![w] = rec]
           /\ settlePut' = [settlePut EXCEPT ![w] = rec]
    /\ UNCHANGED <<deposited, live, rows, bookPut, runner, phase, landed,
                   crashes, seen>>

(* The boot loop takes its next row: a parked record is only loaded, an    *)
(* active one is refunded on a fresh retry budget, a settling one resumes. *)
Reconcile(w) ==
    /\ phase = "boot"
    /\ Quiet
    /\ w \in bootQueue
    /\ bootQueue' = bootQueue \ {w}
    /\ CASE rows[w].status = "failed" ->
              /\ records' = [records EXCEPT ![w] = rows[w]]
              /\ UNCHANGED <<settlePut, runner>>
         [] rows[w].status = "active" ->
              /\ LET rec == [status |-> "settling", plan |-> ReturnPlan,
                             done |-> {}, retries |-> 0]
                 IN  /\ records' = [records EXCEPT ![w] = rec]
                     /\ settlePut' = [settlePut EXCEPT ![w] = rec]
              /\ UNCHANGED runner
         [] rows[w].status = "settling" ->
              /\ Continue(w, rows[w])
              /\ UNCHANGED settlePut
    /\ UNCHANGED <<deposited, live, rows, bookPut, phase, landed, crashes,
                   seen>>

(* The loop is over: the sweep is armed and the server listens. *)
BootDone ==
    /\ phase = "boot"
    /\ bootQueue = {}
    /\ Quiet
    /\ phase' = "up"
    /\ UNCHANGED <<deposited, live, records, rows, bookPut, settlePut, runner,
                   bootQueue, landed, crashes, seen>>

-----------------------------------------------------------------------------
GameStep(w) == RecordBooked(w) \/ Resolve(w) \/ RefundUnlaunched(w)

WriteStep(w) == BookPutDone(w) \/ SettlePutDone(w)

RunStep(w) == \/ LegConfirmed(w) \/ LegRejected(w) \/ LegUnconfirmed(w)
              \/ LegPutDone(w) \/ ErrPutDone(w) \/ DeleteDone(w)

Next ==
    \/ \E w \in Wagers : GameStep(w) \/ WriteStep(w) \/ RunStep(w) \/ Sweep(w)
                         \/ Reconcile(w)
    \/ Crash
    \/ Shutdown
    \/ Exit
    \/ Boot
    \/ BootDone

Spec == Init /\ [][Next]_vars

(* The event loop resumes every settled await, the raid timer resolves     *)
(* every raid, the interval timer sweeps every record, and the host        *)
(* restarts a process that died.                                           *)
Fairness ==
    /\ \A w \in Wagers : /\ WF_vars(BookPutDone(w))
                         /\ WF_vars(SettlePutDone(w))
                         /\ WF_vars(RunStep(w))
                         /\ WF_vars(Resolve(w))
                         /\ WF_vars(Sweep(w))
                         /\ WF_vars(Reconcile(w))
    /\ WF_vars(Exit)
    /\ WF_vars(Boot)
    /\ WF_vars(BootDone)

FairSpec == Spec /\ Fairness

-----------------------------------------------------------------------------
(* Correctness.                                                            *)

(* Every leg of the plan moved its tokens. *)
Covered(w, plan) == \A l \in LegsOf(plan) : landed[w][l] > 0

(* The wager reached the chain as a whole, as a refund or as a loss. *)
Paid(w) == \E plan \in Plans : Covered(w, plan)

(* A done flag is never set, in memory, in the table or in a write that is *)
(* still in flight, for a leg whose tokens did not move: whatever fails or *)
(* restarts, a resumed settlement never skips a leg it owes.               *)
DoneMeansLanded ==
    \A w \in Wagers : \A rec \in {records[w], rows[w], settlePut[w]} \ {NoRecord} :
        \A l \in rec.done : landed[w][l] > 0

(* The payout order survives faults: when a leg moves, every leg of a      *)
(* lower rank of the plan being run has really moved, in this life of the  *)
(* process or an earlier one, so that the irreversible burn is last        *)
(* however often the plan is interrupted and resumed (buildLegs' comment). *)
LegsInOrder ==
    [][\A w \in Wagers : \A l \in Leg :
          landed'[w][l] # landed[w][l] =>
              /\ l \in LegsOf(records[w].plan)
              /\ \A k \in LegsOf(records[w].plan) :
                    Rank(k) < Rank(l) => landed[w][k] > 0]_vars

(* Once a wager's row is in the table, nothing but a payout in full takes  *)
(* it out again: no crash, failed write or race drops a durable liability. *)
DurableUntilPaid ==
    [][\A w \in Wagers : rows[w] # NoRecord /\ rows'[w] = NoRecord => Paid(w)]_vars

(* The table never forgets a done flag or swaps a stored plan, except by a *)
(* booking write that arrives late or a settle write that a sweep overtook.*)
DurableProgress ==
    [][\A w \in Wagers :
          /\ rows[w] # NoRecord
          /\ rows[w].status # "active"
          /\ rows'[w] # NoRecord
          /\ seen' \cap {"lateBooking", "earlySweep"} = {}
          => /\ rows'[w].plan = rows[w].plan
             /\ rows[w].done \subseteq rows'[w].done]_vars

(* What WagerCustody sees of a wager: the record in memory is the debt. *)
Outcomes ==
    [w \in Wagers |-> IF w \notin deposited THEN [at |-> "absent"]
                      ELSE IF records[w] = NoRecord THEN [at |-> "closed"]
                      ELSE IF records[w].status = "active" THEN [at |-> "held"]
                      ELSE [at |-> "owed", plan |-> records[w].plan]]

(* The process lived and saw its confirmations so far. *)
Trusted == seen \cap {"crash", "shutdown", "unconfirmed"} = {}

Custody == INSTANCE WagerCustody WITH
    Refund <- ReturnPlan,
    outcome <- Outcomes,
    moved <- landed,
    trusted <- Trusted

(* While the process lives and confirmations are seen, the outbox keeps    *)
(* the promise of WagerCustody whatever writes fail, transfers throw or    *)
(* runs race: a deposit gets one outcome, every leg of it is paid exactly  *)
(* once, and it is not forgotten before all of them are.                   *)
KeepsCustody == Custody!Spec

(* Transfers of a wager beyond the first of each leg. *)
Repeats(w) ==
    SumFunctionOnSet([l \in Leg |-> IF landed[w][l] > 1 THEN landed[w][l] - 1 ELSE 0], Leg)

(* When crashes are the only fault, each repeats at most the one leg of a  *)
(* wager that was under way (the caveat in the header comment), and the    *)
(* wager keeps the outcome it was first given.                             *)
CrashRepeatsOneLeg ==
    seen \subseteq {"crash"} =>
        \A w \in Wagers :
            /\ Repeats(w) <= crashes
            /\ landed[w]["return"] > 0 =>
                  \A l \in Leg \ {"return"} : landed[w][l] = 0

(* A write or a read of the table that failed or was overtaken: what the   *)
(* sweep knows and what the table says may part until the next boot.       *)
TableFaults == {"putFailed", "loadFailed", "lateBooking"}

(* Every durable wager is paid out in full and its row deleted, or parked, *)
(* through crashes, shutdowns, lost confirmations and racing runs, as long *)
(* as the table is written and read.                                       *)
SettlesOrParks ==
    \A w \in Wagers :
        rows[w] # NoRecord ~> \/ rows[w] = NoRecord
                              \/ rows[w].status = "failed"
                              \/ seen \cap TableFaults # {}
=============================================================================

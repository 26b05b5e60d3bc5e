------------------------- MODULE EscrowOutboxProofs -------------------------
(***************************************************************************)
(* What the outbox guarantees for every set of wagers, defenders, splits,  *)
(* retry budget and faults: its types, that done flags are never ahead of  *)
(* the chain, that legs land in order, that a durable row leaves the table *)
(* only when it is paid, and that its plan and progress are durable.       *)
(***************************************************************************)
EXTENDS EscrowOutbox, Sums, TLAPS

(* The records of w that a run may be resumed from. *)
Copies(w) == {records[w], rows[w], settlePut[w]} \ {NoRecord}

(* A record that left "active" was given one of the plans. *)
PlanKnown ==
    \A w \in Wagers : \A rec \in Copies(w) : rec.status # "active" => rec.plan \in Plans

(* Nothing happens to a wager before its deposit. *)
Untouched ==
    \A w \in Wagers \ deposited :
        /\ w \notin live
        /\ w \notin bookPut
        /\ records[w] = NoRecord
        /\ rows[w] = NoRecord
        /\ settlePut[w] = NoRecord
        /\ runner[w] = "idle"

(* A run holds a record with a plan until it has paid all of it. *)
RunnerBacked ==
    \A w \in Wagers :
        /\ runner[w] \in {"loop", "put", "putErr"} =>
              records[w] # NoRecord /\ records[w].status # "active"
        /\ runner[w] = "delete" => Paid(w)

(* A settle call in flight finds its record with the plan, or settled.     *)
SettleBacked ==
    \A w \in Wagers : settlePut[w] # NoRecord =>
        /\ settlePut[w].status = "settling"
        /\ IF records[w] = NoRecord THEN Paid(w)
                                    ELSE records[w].status # "active"

(* While the process is down nothing is in memory or in flight. *)
DownIsEmpty ==
    phase = "down" => /\ bookPut = {}
                      /\ bootQueue = {}
                      /\ \A w \in Wagers : /\ records[w] = NoRecord
                                           /\ settlePut[w] = NoRecord
                                           /\ runner[w] = "idle"

(* A row that reconcileOnBoot has not reached is as getUnsettled saw it.   *)
QueueIsQuiet ==
    \A w \in bootQueue : /\ phase = "boot"
                         /\ w \notin bookPut
                         /\ rows[w] # NoRecord
                         /\ settlePut[w] = NoRecord
                         /\ runner[w] = "idle"

IInv == /\ TypeOK
        /\ DoneMeansLanded
        /\ PlanKnown
        /\ Untouched
        /\ RunnerBacked
        /\ SettleBacked
        /\ DownIsEmpty
        /\ QueueIsQuiet

-----------------------------------------------------------------------------
(* Facts about the operators.                                              *)

(* Every plan a wager can be given is a vector of amounts over the legs. *)
LEMMA PlanFacts == /\ Plans \subseteq [Leg -> Nat]
                   /\ ReturnPlan \in Plans
                   /\ EmptyPlan \in [Leg -> Nat]
                   /\ ActiveRecord \in Record
                   /\ ActiveRecord.status = "active"
                   /\ ActiveRecord.done = {}
  BY OutboxAssumption DEF Plans, ReturnPlan, EmptyPlan, ActiveRecord, Record,
     Status, Leg

(* A failed attempt changes the status and the count, never the progress. *)
LEMMA FailedFacts ==
  ASSUME NEW rec \in Record
  PROVE  /\ Failed(rec) \in Record
         /\ Failed(rec).plan = rec.plan
         /\ Failed(rec).done = rec.done
         /\ rec.status # "active" => Failed(rec).status # "active"
<1>1. /\ rec.status \in Status
      /\ rec.retries \in 0..MaxRetries
      /\ rec = [status |-> rec.status, plan |-> rec.plan, done |-> rec.done,
                retries |-> rec.retries]
  BY DEF Record
<1>2. /\ (IF rec.retries < MaxRetries THEN rec.retries + 1 ELSE rec.retries)
           \in 0..MaxRetries
      /\ (IF rec.retries + 1 >= MaxRetries THEN "failed" ELSE rec.status) \in Status
  BY <1>1, OutboxAssumption DEF Status
<1>3. Failed(rec) \in Record
  BY <1>1, <1>2 DEF Failed, Record
<1>4. /\ Failed(rec).plan = rec.plan
      /\ Failed(rec).done = rec.done
      /\ rec.status # "active" => Failed(rec).status # "active"
  BY <1>1 DEF Failed
<1> QED  BY <1>3, <1>4

(* What settle stores is a record with the plan and no leg done. *)
LEMMA SettleFacts ==
  ASSUME TypeOK, NEW w \in Wagers, NEW plan \in Plans
  PROVE  /\ SettleRecord(w, plan) \in Record
         /\ SettleRecord(w, plan).status = "settling"
         /\ SettleRecord(w, plan).plan = plan
         /\ SettleRecord(w, plan).done = {}
  BY PlanFacts, OutboxAssumption DEF SettleRecord, TypeOK, Record, Status

(* Going round the loop touches the record and the runner of one wager.    *)
LEMMA ContinueFacts ==
  ASSUME NEW w \in Wagers, NEW rec \in Record \cup {NoRecord}, TypeOK,
         Continue(w, rec)
  PROVE  /\ records' \in [Wagers -> Record \cup {NoRecord}]
         /\ runner' \in [Wagers -> RunnerPC]
         /\ \A v \in Wagers \ {w} : records'[v] = records[v] /\ runner'[v] = runner[v]
         /\ \/ /\ rec = NoRecord \/ Todo(rec) = {}
               /\ records'[w] = NoRecord
               /\ runner'[w] = "delete"
            \/ /\ rec # NoRecord
               /\ records'[w] = rec
               /\ runner'[w] = "loop"
  BY DEF Continue, TypeOK, RunnerPC

(* A write changes one row, to what was written, or none. *)
LEMMA PersistFacts ==
  ASSUME NEW w \in Wagers, NEW rec \in Record \cup {NoRecord}, TypeOK,
         Persist(w, rec)
  PROVE  /\ rows' \in [Wagers -> Record \cup {NoRecord}]
         /\ \A v \in Wagers \ {w} : rows'[v] = rows[v]
         /\ rows'[w] \in {rows[w], rec}
         /\ seen' \subseteq FaultKinds
  BY OutboxAssumption DEF Persist, WriteFails, Fault, Overtaking, TypeOK, FaultKinds

(* What a confirmed leg changes: one more done flag, one more transfer.    *)
LEMMA LegConfirmedFacts ==
  ASSUME IInv, NEW w \in Wagers, LegConfirmed(w)
  PROVE  \E l \in LegsOf(records[w].plan) :
           /\ l \in Leg
           /\ \A k \in LegsOf(records[w].plan) : Rank(k) < Rank(l) => k \in records[w].done
           /\ landed' = [landed EXCEPT ![w][l] = @ + 1]
           /\ landed' \in [Wagers -> [Leg -> Nat]]
           /\ records[w] \in Record
           /\ records' = [records EXCEPT ![w] = [records[w] EXCEPT !.done = @ \cup {l}]]
           /\ records' \in [Wagers -> Record \cup {NoRecord}]
<1>1. /\ records[w] \in Record
      /\ landed \in [Wagers -> [Leg -> Nat]]
      /\ records \in [Wagers -> Record \cup {NoRecord}]
  BY DEF IInv, TypeOK, RunnerBacked, LegConfirmed
<1>2. PICK l \in NextLegs(records[w]) :
        /\ landed' = [landed EXCEPT ![w][l] = @ + 1]
        /\ records' = [records EXCEPT ![w].done = @ \cup {l}]
  BY DEF LegConfirmed
<1>3. l \in LegsOf(records[w].plan) /\ l \in Leg
  BY <1>2 DEF NextLegs, Todo, LegsOf
<1>4. \A k \in Leg : Rank(k) \in Nat
  BY DEF Rank
<1>5. \A k \in LegsOf(records[w].plan) : Rank(k) < Rank(l) => k \in records[w].done
  BY <1>2, <1>3, <1>4 DEF NextLegs, Todo, LegsOf
<1>6. landed' \in [Wagers -> [Leg -> Nat]]
  BY <1>1, <1>2, <1>3
<1>7. [records[w] EXCEPT !.done = @ \cup {l}] \in Record
  BY <1>1, <1>3 DEF Record
<1>8. /\ records' = [records EXCEPT ![w] = [records[w] EXCEPT !.done = @ \cup {l}]]
      /\ records' \in [Wagers -> Record \cup {NoRecord}]
  BY <1>1, <1>2, <1>7
<1> QED  BY <1>1, <1>2, <1>3, <1>5, <1>6, <1>8

(* Transfers are never undone, so what is paid stays paid. *)
LEMMA LandedGrows ==
  ASSUME IInv, [Next]_vars, NEW w \in Wagers
  PROVE  /\ \A l \in Leg : landed[w][l] > 0 => landed'[w][l] > 0
         /\ Paid(w) => Paid(w)'
<1>1. \A l \in Leg : landed[w][l] > 0 => landed'[w][l] > 0
  <2>1. ASSUME NEW v \in Wagers, LegConfirmed(v) \/ LegUnconfirmed(v)
        PROVE  \A l \in Leg : landed[w][l] > 0 => landed'[w][l] > 0
    <3>1. PICK k \in Leg : landed' = [landed EXCEPT ![v][k] = @ + 1]
      BY <2>1 DEF LegConfirmed, LegUnconfirmed, NextLegs, Todo, LegsOf
    <3>2. landed \in [Wagers -> [Leg -> Nat]]
      BY DEF IInv, TypeOK
    <3> QED  BY <3>1, <3>2
  <2>2. CASE UNCHANGED landed
    BY <2>2
  <2> QED
    BY <2>1, <2>2 DEF Next, GameStep, WriteStep, RunStep, RecordBooked, BookPutDone,
       Resolve, RefundUnlaunched, SettlePutDone, LegRejected, LegPutDone, ErrPutDone,
       DeleteDone, Sweep, Reconcile, Crash, Shutdown, Exit, Die, Boot, BootDone, vars
<1>2. Paid(w) => Paid(w)'
  BY <1>1 DEF Paid, Covered, LegsOf
<1> QED  BY <1>1, <1>2

-----------------------------------------------------------------------------
(* Every step preserves each part of the invariant.                        *)

(* Every step keeps the types. *)
LEMMA TypeStep ==
  ASSUME IInv, [Next]_vars
  PROVE  TypeOK'
<1>1. ASSUME NEW w \in Wagers, RecordBooked(w) PROVE TypeOK'
  BY <1>1, PlanFacts DEF RecordBooked, IInv, TypeOK, RunnerPC
<1>2. ASSUME NEW w \in Wagers, BookPutDone(w) PROVE TypeOK'
  <2>1. rows' \in [Wagers -> Record \cup {NoRecord}]
    BY <1>2, PlanFacts DEF BookPutDone, IInv, TypeOK
  <2>2. seen' \subseteq FaultKinds
    BY <1>2, OutboxAssumption DEF BookPutDone, WriteFails, Fault, IInv, TypeOK
  <2> QED  BY <1>2, <2>1, <2>2 DEF BookPutDone, IInv, TypeOK
<1>3. ASSUME NEW w \in Wagers, Resolve(w) PROVE TypeOK'
  BY <1>3, SettleFacts DEF Resolve, Settle, IInv, TypeOK, RunnerPC
<1>4. ASSUME NEW w \in Wagers, RefundUnlaunched(w) PROVE TypeOK'
  BY <1>4, SettleFacts, PlanFacts DEF RefundUnlaunched, Settle, IInv, TypeOK, RunnerPC
<1>5. ASSUME NEW w \in Wagers, SettlePutDone(w) PROVE TypeOK'
  BY <1>5, PersistFacts, ContinueFacts DEF SettlePutDone, IInv, TypeOK, RunnerPC
<1>6. ASSUME NEW w \in Wagers, LegConfirmed(w) PROVE TypeOK'
  BY <1>6, LegConfirmedFacts DEF LegConfirmed, IInv, TypeOK, RunnerPC
<1>7. ASSUME NEW w \in Wagers, LegRejected(w) PROVE TypeOK'
  <2>1. records[w] \in Record
    BY <1>7 DEF LegRejected, IInv, TypeOK, RunnerBacked
  <2> QED  BY <1>7, <2>1, FailedFacts DEF LegRejected, IInv, TypeOK, RunnerPC
<1>8. ASSUME NEW w \in Wagers, LegUnconfirmed(w) PROVE TypeOK'
  <2>1. records[w] \in Record
    BY <1>8 DEF LegUnconfirmed, IInv, TypeOK, RunnerBacked
  <2>2. landed' \in [Wagers -> [Leg -> Nat]]
    BY <1>8 DEF LegUnconfirmed, IInv, TypeOK, NextLegs, Todo, LegsOf
  <2>3. seen' \subseteq FaultKinds
    BY <1>8, OutboxAssumption DEF LegUnconfirmed, Fault, IInv, TypeOK
  <2> QED  BY <1>8, <2>1, <2>2, <2>3, FailedFacts DEF LegUnconfirmed, IInv, TypeOK,
              RunnerPC
<1>9. ASSUME NEW w \in Wagers, LegPutDone(w) PROVE TypeOK'
  BY <1>9, PersistFacts, ContinueFacts DEF LegPutDone, IInv, TypeOK, RunnerPC
<1>10. ASSUME NEW w \in Wagers, ErrPutDone(w) PROVE TypeOK'
  BY <1>10, PersistFacts DEF ErrPutDone, IInv, TypeOK, RunnerPC
<1>11. ASSUME NEW w \in Wagers, DeleteDone(w) PROVE TypeOK'
  BY <1>11, PersistFacts DEF DeleteDone, IInv, TypeOK, RunnerPC
<1>12. ASSUME NEW w \in Wagers, Sweep(w) PROVE TypeOK'
  <2>1. seen' \subseteq FaultKinds
    BY <1>12, OutboxAssumption DEF Sweep, Fault, IInv, TypeOK
  <2> QED  BY <1>12, <2>1, ContinueFacts DEF Sweep, IInv, TypeOK
<1>13. ASSUME NEW w \in Wagers, Reconcile(w) PROVE TypeOK'
  <2>1. rows[w] \in Record
    BY <1>13 DEF Reconcile, IInv, TypeOK, QueueIsQuiet
  <2>2. CASE rows[w].status = "failed"
    BY <1>13, <2>1, <2>2 DEF Reconcile, IInv, TypeOK
  <2>3. CASE rows[w].status = "active"
    <3>1. [status |-> "settling", plan |-> ReturnPlan, done |-> {}, retries |-> 0] \in Record
      BY PlanFacts, OutboxAssumption DEF Record, Status
    <3> QED  BY <1>13, <2>3, <3>1 DEF Reconcile, IInv, TypeOK
  <2>4. CASE rows[w].status = "settling"
    BY <1>13, <2>1, <2>4, ContinueFacts DEF Reconcile, IInv, TypeOK
  <2> QED  BY <2>1, <2>2, <2>3, <2>4 DEF Record, Status
<1>14. CASE Crash
  BY <1>14, OutboxAssumption DEF Crash, Die, Fault, FaultKinds, IInv, TypeOK, RunnerPC
<1>15. CASE Shutdown
  BY <1>15, OutboxAssumption DEF Shutdown, Fault, FaultKinds, IInv, TypeOK, RunnerPC
<1>16. CASE Exit
  BY <1>16 DEF Exit, Die, IInv, TypeOK, RunnerPC
<1>17. CASE Boot
  BY <1>17, OutboxAssumption DEF Boot, Fault, FaultKinds, IInv, TypeOK, RunnerPC
<1>18. CASE BootDone
  BY <1>18 DEF BootDone, IInv, TypeOK, RunnerPC
<1>19. CASE UNCHANGED vars
  BY <1>19 DEF vars, IInv, TypeOK, RunnerPC
<1> QED
  BY <1>1, <1>2, <1>3, <1>4, <1>5, <1>6, <1>7, <1>8, <1>9, <1>10, <1>11, <1>12,
     <1>13, <1>14, <1>15, <1>16, <1>17, <1>18, <1>19 DEF Next, GameStep, WriteStep,
     RunStep

(* Where a copy rec of w's record comes from in a step: an older copy with *)
(* at most the leg that just landed added, a booking, or a fresh plan.     *)
Origin(w, rec) ==
    \/ \E old \in Copies(w) :
          /\ rec.plan = old.plan
          /\ rec.status # "active" => old.status # "active"
          /\ \A l \in rec.done : l \in old.done \/ landed'[w][l] > 0
    \/ rec.status = "active" /\ rec.done = {}
    \/ rec.plan \in Plans /\ rec.done = {}

(* Every copy of a record has one of those origins. *)
LEMMA CopiesStep ==
  ASSUME IInv, [Next]_vars, NEW v \in Wagers, NEW rec \in Copies(v)'
  PROVE  Origin(v, rec)
<1>0. /\ rec \in Copies(v) => Origin(v, rec)
      /\ rec = ActiveRecord => Origin(v, rec)
      /\ \A u \in Wagers : \A plan \in Plans : rec = SettleRecord(u, plan) => Origin(v, rec)
      /\ \A old \in Copies(v) :
            old.status # "active" /\ rec = Failed(old) => Origin(v, rec)
  <2>1. \A old \in Copies(v) : old \in Record
    BY DEF Copies, IInv, TypeOK
  <2>2. ASSUME NEW old \in Copies(v), old.status # "active", rec = Failed(old)
        PROVE  Origin(v, rec)
    <3>1. rec.plan = old.plan /\ rec.done = old.done
      BY <2>1, <2>2, FailedFacts
    <3> QED  BY <2>2, <3>1 DEF Origin
  <2>3. \A u \in Wagers : \A plan \in Plans : rec = SettleRecord(u, plan) => Origin(v, rec)
    BY SettleFacts DEF IInv, Origin
  <2> QED  BY <2>2, <2>3, PlanFacts DEF Origin
<1>1. ASSUME NEW w \in Wagers, RecordBooked(w) PROVE Origin(v, rec)
  BY <1>0, <1>1 DEF RecordBooked, Copies, IInv, TypeOK
<1>2. ASSUME NEW w \in Wagers, BookPutDone(w) PROVE Origin(v, rec)
  BY <1>0, <1>2 DEF BookPutDone, Copies, IInv, TypeOK
<1>3. ASSUME NEW w \in Wagers, Resolve(w) PROVE Origin(v, rec)
  BY <1>0, <1>3 DEF Resolve, Settle, Copies, IInv, TypeOK
<1>4. ASSUME NEW w \in Wagers, RefundUnlaunched(w) PROVE Origin(v, rec)
  BY <1>0, <1>4, PlanFacts DEF RefundUnlaunched, Settle, Copies, IInv, TypeOK
<1>5. ASSUME NEW w \in Wagers, SettlePutDone(w) PROVE Origin(v, rec)
  BY <1>0, <1>5, PersistFacts, ContinueFacts DEF SettlePutDone, Copies, IInv, TypeOK
<1>6. ASSUME NEW w \in Wagers, LegConfirmed(w) PROVE Origin(v, rec)
  <2>1. PICK l \in Leg :
          /\ records' = [records EXCEPT ![w] = [records[w] EXCEPT !.done = @ \cup {l}]]
          /\ landed' = [landed EXCEPT ![w][l] = @ + 1]
          /\ records[w] \in Record
    BY <1>6, LegConfirmedFacts
  <2>2. landed'[w][l] > 0
    BY <2>1 DEF IInv, TypeOK
  <2>3. rec \in Copies(v) \/ (v = w /\ rec = [records[w] EXCEPT !.done = @ \cup {l}])
    <3>1. UNCHANGED <<rows, settlePut>>
      BY <1>6 DEF LegConfirmed
    <3> QED  BY <2>1, <3>1 DEF Copies, IInv, TypeOK
  <2>4. ASSUME v = w, rec = [records[w] EXCEPT !.done = @ \cup {l}]  PROVE Origin(v, rec)
    <3>1. /\ records[w] \in Copies(v)
          /\ rec.plan = records[w].plan
          /\ rec.status = records[w].status
          /\ rec.done = records[w].done \cup {l}
      BY <2>1, <2>4, OutboxAssumption DEF Copies, Record
    <3> QED  BY <2>2, <2>4, <3>1 DEF Origin
  <2> QED  BY <1>0, <2>3, <2>4
<1>7. ASSUME NEW w \in Wagers, LegRejected(w) PROVE Origin(v, rec)
  <2>1. records[w] \in Copies(w) /\ records[w].status # "active"
    BY <1>7 DEF Copies, LegRejected, IInv, RunnerBacked
  <2>2. /\ records' = [records EXCEPT ![w] = Failed(records[w])]
        /\ UNCHANGED <<rows, settlePut>>
    BY <1>7 DEF LegRejected
  <2>3. rec \in Copies(v) \/ (v = w /\ rec = Failed(records[w]))
    BY <2>2 DEF Copies, IInv, TypeOK
  <2> QED  BY <1>0, <2>1, <2>3
<1>8. ASSUME NEW w \in Wagers, LegUnconfirmed(w) PROVE Origin(v, rec)
  <2>1. records[w] \in Copies(w) /\ records[w].status # "active"
    BY <1>8 DEF Copies, LegUnconfirmed, IInv, RunnerBacked
  <2>2. /\ records' = [records EXCEPT ![w] = Failed(records[w])]
        /\ UNCHANGED <<rows, settlePut>>
    BY <1>8 DEF LegUnconfirmed
  <2>3. rec \in Copies(v) \/ (v = w /\ rec = Failed(records[w]))
    BY <2>2 DEF Copies, IInv, TypeOK
  <2> QED  BY <1>0, <2>1, <2>3
<1>9. ASSUME NEW w \in Wagers, LegPutDone(w) PROVE Origin(v, rec)
  BY <1>0, <1>9, PersistFacts, ContinueFacts DEF LegPutDone, RunnerBacked, Copies,
     IInv, TypeOK
<1>10. ASSUME NEW w \in Wagers, ErrPutDone(w) PROVE Origin(v, rec)
  BY <1>0, <1>10, PersistFacts DEF ErrPutDone, RunnerBacked, Copies, IInv, TypeOK
<1>11. ASSUME NEW w \in Wagers, DeleteDone(w) PROVE Origin(v, rec)
  BY <1>0, <1>11, PersistFacts DEF DeleteDone, Copies, IInv, TypeOK
<1>12. ASSUME NEW w \in Wagers, Sweep(w) PROVE Origin(v, rec)
  BY <1>0, <1>12, ContinueFacts DEF Sweep, Copies, IInv, TypeOK
<1>13. ASSUME NEW w \in Wagers, Reconcile(w) PROVE Origin(v, rec)
  <2>1. rows[w] \in Record
    BY <1>13 DEF Reconcile, IInv, TypeOK, QueueIsQuiet
  <2>2. CASE rows[w].status = "active"
    <3>1. \/ rec \in Copies(v)
          \/ rec = [status |-> "settling", plan |-> ReturnPlan, done |-> {}, retries |-> 0]
      BY <1>13, <2>2 DEF Reconcile, Copies, IInv, TypeOK
    <3> QED  BY <1>0, <3>1, PlanFacts DEF Origin
  <2>3. CASE rows[w].status = "failed"
    BY <1>0, <1>13, <2>1, <2>3 DEF Reconcile, Copies, IInv, TypeOK
  <2>4. CASE rows[w].status = "settling"
    <3>1. Continue(w, rows[w]) /\ UNCHANGED <<rows, settlePut>>
      BY <1>13, <2>4 DEF Reconcile
    <3> QED  BY <1>0, <2>1, <3>1, ContinueFacts DEF Copies, IInv
  <2> QED  BY <2>1, <2>2, <2>3, <2>4 DEF Record, Status
<1>14. CASE Crash
  BY <1>0, <1>14 DEF Crash, Die, Copies, IInv, TypeOK
<1>15. CASE Shutdown
  BY <1>0, <1>15 DEF Shutdown, Copies, IInv, TypeOK
<1>16. CASE Exit
  BY <1>0, <1>16 DEF Exit, Die, Copies, IInv, TypeOK
<1>17. CASE Boot
  BY <1>0, <1>17 DEF Boot, Copies, IInv, TypeOK
<1>18. CASE BootDone
  BY <1>0, <1>18 DEF BootDone, Copies, IInv, TypeOK
<1>19. CASE UNCHANGED vars
  BY <1>0, <1>19 DEF vars, Copies
<1> QED
  BY <1>1, <1>2, <1>3, <1>4, <1>5, <1>6, <1>7, <1>8, <1>9, <1>10, <1>11, <1>12,
     <1>13, <1>14, <1>15, <1>16, <1>17, <1>18, <1>19 DEF Next, GameStep, WriteStep,
     RunStep

(* A done flag comes from an older copy or from a leg that just landed. *)
LEMMA DoneStep ==
  ASSUME IInv, [Next]_vars
  PROVE  DoneMeansLanded'
<1>1. SUFFICES ASSUME NEW v \in Wagers, NEW rec \in Copies(v)', NEW l \in rec.done
               PROVE  landed'[v][l] > 0
  BY DEF DoneMeansLanded, Copies
<1>2. \A old \in Copies(v) : \A k \in old.done : k \in Leg /\ landed[v][k] > 0
  BY DEF IInv, DoneMeansLanded, Copies, TypeOK, Record
<1> QED  BY <1>1, <1>2, CopiesStep, LandedGrows DEF Origin

(* A plan comes from an older copy or from the game. *)
LEMMA PlanStep ==
  ASSUME IInv, [Next]_vars
  PROVE  PlanKnown'
<1>1. SUFFICES ASSUME NEW v \in Wagers, NEW rec \in Copies(v)', rec.status # "active"
               PROVE  rec.plan \in Plans
  BY DEF PlanKnown
<1>2. \A old \in Copies(v) : old.status # "active" => old.plan \in Plans
  BY DEF IInv, PlanKnown
<1> QED  BY <1>1, <1>2, CopiesStep DEF Origin

(* The legs a run may be at follow legs that landed. *)
LEMMA NextLegFacts ==
  ASSUME IInv, NEW w \in Wagers, runner[w] = "loop", NEW l \in NextLegs(records[w])
  PROVE  /\ l \in Leg
         /\ l \in LegsOf(records[w].plan)
         /\ \A k \in LegsOf(records[w].plan) : Rank(k) < Rank(l) => landed[w][k] > 0
<1>1. records[w] \in Copies(w)
  BY DEF IInv, RunnerBacked, Copies
<1>2. l \in Leg /\ l \in LegsOf(records[w].plan)
  BY DEF NextLegs, Todo, LegsOf
<1>3. \A k \in Leg : Rank(k) \in Nat
  BY DEF Rank
<1>4. \A k \in LegsOf(records[w].plan) : Rank(k) < Rank(l) => k \in records[w].done
  BY <1>2, <1>3 DEF NextLegs, Todo, LegsOf
<1> QED  BY <1>1, <1>2, <1>4 DEF IInv, DoneMeansLanded, Copies

(* Before its deposit no step reaches a wager. *)
LEMMA UntouchedStep ==
  ASSUME IInv, [Next]_vars
  PROVE  Untouched'
<1>1. ASSUME NEW w \in Wagers, RecordBooked(w) PROVE Untouched'
  BY <1>1 DEF RecordBooked, IInv, TypeOK, Untouched
<1>2. ASSUME NEW w \in Wagers, BookPutDone(w) PROVE Untouched'
  BY <1>2, PlanFacts DEF BookPutDone, IInv, TypeOK, Untouched
<1>3. ASSUME NEW w \in Wagers, Resolve(w) PROVE Untouched'
  BY <1>3 DEF Resolve, Settle, IInv, TypeOK, Untouched
<1>4. ASSUME NEW w \in Wagers, RefundUnlaunched(w) PROVE Untouched'
  BY <1>4 DEF RefundUnlaunched, Settle, IInv, TypeOK, Untouched
<1>5. ASSUME NEW w \in Wagers, SettlePutDone(w) PROVE Untouched'
  BY <1>5, ContinueFacts, PersistFacts DEF SettlePutDone, IInv, TypeOK, Untouched
<1>6. ASSUME NEW w \in Wagers, LegConfirmed(w) PROVE Untouched'
  BY <1>6, LegConfirmedFacts DEF LegConfirmed, IInv, TypeOK, Untouched
<1>7. ASSUME NEW w \in Wagers, LegRejected(w) PROVE Untouched'
  BY <1>7 DEF LegRejected, IInv, TypeOK, Untouched
<1>8. ASSUME NEW w \in Wagers, LegUnconfirmed(w) PROVE Untouched'
  BY <1>8 DEF LegUnconfirmed, IInv, TypeOK, Untouched
<1>9. ASSUME NEW w \in Wagers, LegPutDone(w) PROVE Untouched'
  BY <1>9, ContinueFacts, PersistFacts DEF LegPutDone, RunnerBacked, IInv, TypeOK,
     Untouched
<1>10. ASSUME NEW w \in Wagers, ErrPutDone(w) PROVE Untouched'
  BY <1>10, PersistFacts DEF ErrPutDone, RunnerBacked, IInv, TypeOK, Untouched
<1>11. ASSUME NEW w \in Wagers, DeleteDone(w) PROVE Untouched'
  BY <1>11, PersistFacts DEF DeleteDone, IInv, TypeOK, Untouched
<1>12. ASSUME NEW w \in Wagers, Sweep(w) PROVE Untouched'
  BY <1>12, ContinueFacts DEF Sweep, IInv, TypeOK, Untouched
<1>13. ASSUME NEW w \in Wagers, Reconcile(w) PROVE Untouched'
  <2>1. rows[w] \in Record /\ w \in deposited
    BY <1>13 DEF Reconcile, IInv, TypeOK, QueueIsQuiet, Untouched
  <2>2. CASE rows[w].status \in {"failed", "active"}
    BY <1>13, <2>1, <2>2 DEF Reconcile, IInv, TypeOK, Untouched
  <2>3. CASE rows[w].status = "settling"
    <3>1. Continue(w, rows[w])
      BY <1>13, <2>3 DEF Reconcile
    <3>2. /\ UNCHANGED <<deposited, live, rows, bookPut, settlePut, phase, landed>>
          /\ bootQueue' = bootQueue \ {w}
      BY <1>13, <2>3 DEF Reconcile
    <3> QED  BY <2>1, <3>1, <3>2, ContinueFacts DEF IInv, TypeOK, Untouched
  <2> QED  BY <2>1, <2>2, <2>3 DEF Record, Status
<1>14. CASE Crash
  BY <1>14 DEF Crash, Die, IInv, TypeOK, Untouched
<1>15. CASE Shutdown
  BY <1>15 DEF Shutdown, IInv, TypeOK, Untouched
<1>16. CASE Exit
  BY <1>16 DEF Exit, Die, IInv, TypeOK, Untouched
<1>17. CASE Boot
  BY <1>17 DEF Boot, IInv, TypeOK, Untouched
<1>18. CASE BootDone
  BY <1>18 DEF BootDone, IInv, TypeOK, Untouched
<1>19. CASE UNCHANGED vars
  BY <1>19 DEF vars, IInv, TypeOK, Untouched
<1> QED
  BY <1>1, <1>2, <1>3, <1>4, <1>5, <1>6, <1>7, <1>8, <1>9, <1>10, <1>11, <1>12,
     <1>13, <1>14, <1>15, <1>16, <1>17, <1>18, <1>19
     DEF Next, GameStep, WriteStep, RunStep

(* The process goes down with everything in memory and in flight. *)
LEMMA DownStep ==
  ASSUME IInv, [Next]_vars
  PROVE  DownIsEmpty'
<1>1. ASSUME NEW w \in Wagers, RecordBooked(w) PROVE DownIsEmpty'
  BY <1>1 DEF RecordBooked, IInv, TypeOK, DownIsEmpty
<1>2. ASSUME NEW w \in Wagers, BookPutDone(w) PROVE DownIsEmpty'
  BY <1>2 DEF BookPutDone, IInv, TypeOK, DownIsEmpty
<1>3. ASSUME NEW w \in Wagers, Resolve(w) PROVE DownIsEmpty'
  BY <1>3 DEF Resolve, Settle, IInv, TypeOK, DownIsEmpty
<1>4. ASSUME NEW w \in Wagers, RefundUnlaunched(w) PROVE DownIsEmpty'
  BY <1>4 DEF RefundUnlaunched, Settle, IInv, TypeOK, DownIsEmpty
<1>5. ASSUME NEW w \in Wagers, SettlePutDone(w) PROVE DownIsEmpty'
  BY <1>5, ContinueFacts DEF SettlePutDone, IInv, TypeOK, DownIsEmpty
<1>6. ASSUME NEW w \in Wagers, LegConfirmed(w) PROVE DownIsEmpty'
  BY <1>6, LegConfirmedFacts DEF LegConfirmed, IInv, TypeOK, DownIsEmpty
<1>7. ASSUME NEW w \in Wagers, LegRejected(w) PROVE DownIsEmpty'
  BY <1>7 DEF LegRejected, IInv, TypeOK, DownIsEmpty
<1>8. ASSUME NEW w \in Wagers, LegUnconfirmed(w) PROVE DownIsEmpty'
  BY <1>8 DEF LegUnconfirmed, IInv, TypeOK, DownIsEmpty
<1>9. ASSUME NEW w \in Wagers, LegPutDone(w) PROVE DownIsEmpty'
  BY <1>9, ContinueFacts DEF LegPutDone, IInv, TypeOK, DownIsEmpty
<1>10. ASSUME NEW w \in Wagers, ErrPutDone(w) PROVE DownIsEmpty'
  BY <1>10 DEF ErrPutDone, IInv, TypeOK, DownIsEmpty
<1>11. ASSUME NEW w \in Wagers, DeleteDone(w) PROVE DownIsEmpty'
  BY <1>11 DEF DeleteDone, IInv, TypeOK, DownIsEmpty
<1>12. ASSUME NEW w \in Wagers, Sweep(w) PROVE DownIsEmpty'
  BY <1>12, ContinueFacts DEF Sweep, IInv, TypeOK, DownIsEmpty
<1>13. ASSUME NEW w \in Wagers, Reconcile(w) PROVE DownIsEmpty'
  BY <1>13, ContinueFacts DEF Reconcile, IInv, TypeOK, DownIsEmpty
<1>14. CASE Crash
  BY <1>14 DEF Crash, Die, IInv, TypeOK, DownIsEmpty
<1>15. CASE Shutdown
  BY <1>15 DEF Shutdown, IInv, TypeOK, DownIsEmpty
<1>16. CASE Exit
  BY <1>16 DEF Exit, Die, IInv, TypeOK, DownIsEmpty
<1>17. CASE Boot
  BY <1>17 DEF Boot, IInv, TypeOK, DownIsEmpty
<1>18. CASE BootDone
  BY <1>18 DEF BootDone, IInv, TypeOK, DownIsEmpty
<1>19. CASE UNCHANGED vars
  BY <1>19 DEF vars, IInv, TypeOK, DownIsEmpty
<1> QED
  BY <1>1, <1>2, <1>3, <1>4, <1>5, <1>6, <1>7, <1>8, <1>9, <1>10, <1>11, <1>12,
     <1>13, <1>14, <1>15, <1>16, <1>17, <1>18, <1>19
     DEF Next, GameStep, WriteStep, RunStep

(* While the boot loop runs, only the rows it took are worked on. *)
LEMMA QueueStep ==
  ASSUME IInv, [Next]_vars
  PROVE  QueueIsQuiet'
<1>1. ASSUME NEW w \in Wagers, RecordBooked(w) PROVE QueueIsQuiet'
  BY <1>1 DEF RecordBooked, IInv, TypeOK, QueueIsQuiet
<1>2. ASSUME NEW w \in Wagers, BookPutDone(w) PROVE QueueIsQuiet'
  BY <1>2, PlanFacts, OutboxAssumption DEF BookPutDone, IInv, TypeOK, QueueIsQuiet
<1>3. ASSUME NEW w \in Wagers, Resolve(w) PROVE QueueIsQuiet'
  BY <1>3 DEF Resolve, Settle, IInv, TypeOK, QueueIsQuiet
<1>4. ASSUME NEW w \in Wagers, RefundUnlaunched(w) PROVE QueueIsQuiet'
  BY <1>4 DEF RefundUnlaunched, Settle, IInv, TypeOK, QueueIsQuiet
<1>5. ASSUME NEW w \in Wagers, SettlePutDone(w) PROVE QueueIsQuiet'
  BY <1>5, ContinueFacts, PersistFacts DEF SettlePutDone, IInv, TypeOK, QueueIsQuiet
<1>6. ASSUME NEW w \in Wagers, LegConfirmed(w) PROVE QueueIsQuiet'
  BY <1>6, LegConfirmedFacts DEF LegConfirmed, IInv, TypeOK, QueueIsQuiet
<1>7. ASSUME NEW w \in Wagers, LegRejected(w) PROVE QueueIsQuiet'
  BY <1>7 DEF LegRejected, IInv, TypeOK, QueueIsQuiet
<1>8. ASSUME NEW w \in Wagers, LegUnconfirmed(w) PROVE QueueIsQuiet'
  BY <1>8 DEF LegUnconfirmed, IInv, TypeOK, QueueIsQuiet
<1>9. ASSUME NEW w \in Wagers, LegPutDone(w) PROVE QueueIsQuiet'
  BY <1>9, ContinueFacts, PersistFacts DEF LegPutDone, RunnerBacked, IInv, TypeOK,
     QueueIsQuiet
<1>10. ASSUME NEW w \in Wagers, ErrPutDone(w) PROVE QueueIsQuiet'
  BY <1>10, PersistFacts DEF ErrPutDone, RunnerBacked, IInv, TypeOK, QueueIsQuiet
<1>11. ASSUME NEW w \in Wagers, DeleteDone(w) PROVE QueueIsQuiet'
  BY <1>11, PersistFacts DEF DeleteDone, IInv, TypeOK, QueueIsQuiet
<1>12. ASSUME NEW w \in Wagers, Sweep(w) PROVE QueueIsQuiet'
  BY <1>12, ContinueFacts DEF Sweep, IInv, TypeOK, QueueIsQuiet
<1>13. ASSUME NEW w \in Wagers, Reconcile(w) PROVE QueueIsQuiet'
  <2>1. rows[w] \in Record /\ w \in deposited
    BY <1>13 DEF Reconcile, IInv, TypeOK, QueueIsQuiet, Untouched
  <2>2. CASE rows[w].status \in {"failed", "active"}
    BY <1>13, <2>1, <2>2 DEF Reconcile, IInv, TypeOK, QueueIsQuiet
  <2>3. CASE rows[w].status = "settling"
    <3>1. Continue(w, rows[w])
      BY <1>13, <2>3 DEF Reconcile
    <3>2. /\ UNCHANGED <<deposited, live, rows, bookPut, settlePut, phase, landed>>
          /\ bootQueue' = bootQueue \ {w}
      BY <1>13, <2>3 DEF Reconcile
    <3> QED  BY <2>1, <3>1, <3>2, ContinueFacts DEF IInv, TypeOK, QueueIsQuiet
  <2> QED  BY <2>1, <2>2, <2>3 DEF Record, Status
<1>14. CASE Crash
  BY <1>14 DEF Crash, Die, IInv, TypeOK, QueueIsQuiet
<1>15. CASE Shutdown
  BY <1>15 DEF Shutdown, IInv, TypeOK, QueueIsQuiet
<1>16. CASE Exit
  BY <1>16 DEF Exit, Die, IInv, TypeOK, QueueIsQuiet
<1>17. CASE Boot
  BY <1>17 DEF Boot, DownIsEmpty, IInv, TypeOK, QueueIsQuiet
<1>18. CASE BootDone
  BY <1>18 DEF BootDone, IInv, TypeOK, QueueIsQuiet
<1>19. CASE UNCHANGED vars
  BY <1>19 DEF vars, IInv, TypeOK, QueueIsQuiet
<1> QED
  BY <1>1, <1>2, <1>3, <1>4, <1>5, <1>6, <1>7, <1>8, <1>9, <1>10, <1>11, <1>12,
     <1>13, <1>14, <1>15, <1>16, <1>17, <1>18, <1>19
     DEF Next, GameStep, WriteStep, RunStep



(* A plan with no leg left to do is paid. *)
LEMMA TodoPaid ==
  ASSUME IInv, NEW w \in Wagers, NEW rec \in Copies(w), rec.status # "active",
         Todo(rec) = {}
  PROVE  Paid(w)
<1>1. rec.plan \in Plans
  BY DEF IInv, PlanKnown
<1>2. \A l \in rec.done : landed[w][l] > 0
  BY DEF IInv, DoneMeansLanded, Copies
<1>3. Covered(w, rec.plan)
  BY <1>2 DEF Covered, Todo
<1> QED  BY <1>1, <1>3 DEF Paid

(* A run that goes round the loop goes on with the record or has paid it. *)
LEMMA ContinueBacked ==
  ASSUME IInv, NEW w \in Wagers, NEW rec \in Record \cup {NoRecord},
         Continue(w, rec), UNCHANGED landed,
         rec # NoRecord => rec \in Copies(w) /\ rec.status # "active",
         rec = NoRecord => Paid(w)
  PROVE  /\ \/ /\ runner'[w] = "loop"
               /\ records'[w] # NoRecord
               /\ records'[w].status # "active"
            \/ /\ runner'[w] = "delete"
               /\ records'[w] = NoRecord
               /\ Paid(w)'
         /\ \A v \in Wagers \ {w} : records'[v] = records[v] /\ runner'[v] = runner[v]
<1>1. Paid(w) => Paid(w)'
  BY DEF Paid, Covered
<1>2. rec # NoRecord /\ Todo(rec) = {} => Paid(w)
  BY TodoPaid
<1>3. TypeOK
  BY DEF IInv
<1> QED  BY <1>1, <1>2, <1>3, ContinueFacts

(* A run keeps its record until it has paid it. *)
LEMMA RunnerStep ==
  ASSUME IInv, [Next]_vars
  PROVE  RunnerBacked'
<1>0. \A v \in Wagers : Paid(v) => Paid(v)'
  BY LandedGrows
<1>1. ASSUME NEW w \in Wagers, RecordBooked(w) PROVE RunnerBacked'
  BY <1>1, <1>0 DEF RecordBooked, Untouched, IInv, TypeOK, RunnerBacked
<1>2. ASSUME NEW w \in Wagers, BookPutDone(w) PROVE RunnerBacked'
  BY <1>2, <1>0 DEF BookPutDone, IInv, TypeOK, RunnerBacked
<1>3. ASSUME NEW w \in Wagers, Resolve(w) PROVE RunnerBacked'
  BY <1>3, <1>0, SettleFacts, OutboxAssumption DEF Resolve, Settle, IInv, TypeOK,
     RunnerBacked
<1>4. ASSUME NEW w \in Wagers, RefundUnlaunched(w) PROVE RunnerBacked'
  BY <1>4, <1>0, SettleFacts, OutboxAssumption, PlanFacts DEF RefundUnlaunched,
     Settle, IInv, TypeOK, RunnerBacked
<1>5. ASSUME NEW w \in Wagers, SettlePutDone(w) PROVE RunnerBacked'
  <2>1. /\ settlePut[w] # NoRecord
        /\ settlePut' = [settlePut EXCEPT ![w] = NoRecord]
        /\ UNCHANGED landed
    BY <1>5 DEF SettlePutDone
  <2>2. CASE runner[w] = "idle"
    <3>1. Continue(w, records[w])
      BY <1>5, <2>2 DEF SettlePutDone
    <3>2. /\ records[w] # NoRecord => records[w] \in Copies(w) /\ records[w].status # "active"
          /\ records[w] = NoRecord => Paid(w)
      BY <2>1 DEF Copies, IInv, SettleBacked
    <3>3. records[w] \in Record \cup {NoRecord}
      BY DEF IInv, TypeOK
    <3> QED  BY <1>0, <2>1, <3>1, <3>2, <3>3, ContinueBacked DEF IInv, TypeOK,
                RunnerBacked
  <2>3. CASE runner[w] # "idle"
    BY <1>0, <1>5, <2>1, <2>3 DEF SettlePutDone, IInv, TypeOK, RunnerBacked
  <2> QED  BY <2>2, <2>3
<1>6. ASSUME NEW w \in Wagers, LegConfirmed(w) PROVE RunnerBacked'
  <2>1. PICK l \in Leg :
          /\ records' = [records EXCEPT ![w] = [records[w] EXCEPT !.done = @ \cup {l}]]
          /\ records' \in [Wagers -> Record \cup {NoRecord}]
          /\ records[w] \in Record
    BY <1>6, LegConfirmedFacts
  <2>2. records[w].status # "active" /\ runner[w] = "loop"
    BY <1>6 DEF LegConfirmed, IInv, RunnerBacked
  <2>3. records'[w] \in Record /\ records'[w].status # "active"
    BY <2>1, <2>2 DEF Record, IInv, TypeOK
  <2>4. \A v \in Wagers \ {w} : records'[v] = records[v]
    BY <2>1 DEF IInv, TypeOK
  <2>5. runner' = [runner EXCEPT ![w] = "put"] /\ UNCHANGED settlePut
    BY <1>6 DEF LegConfirmed
  <2> QED  BY <1>0, <2>2, <2>3, <2>4, <2>5, OutboxAssumption DEF IInv, TypeOK,
              RunnerBacked
<1>7. ASSUME NEW w \in Wagers, LegRejected(w) PROVE RunnerBacked'
  <2>1. records[w] \in Record /\ records[w].status # "active"
    BY <1>7 DEF LegRejected, IInv, TypeOK, RunnerBacked
  <2>2. Failed(records[w]) # NoRecord /\ Failed(records[w]).status # "active"
    BY <2>1, FailedFacts, OutboxAssumption
  <2> QED  BY <1>0, <1>7, <2>2 DEF LegRejected, IInv, TypeOK, RunnerBacked
<1>8. ASSUME NEW w \in Wagers, LegUnconfirmed(w) PROVE RunnerBacked'
  <2>1. records[w] \in Record /\ records[w].status # "active"
    BY <1>8 DEF LegUnconfirmed, IInv, TypeOK, RunnerBacked
  <2>2. Failed(records[w]) # NoRecord /\ Failed(records[w]).status # "active"
    BY <2>1, FailedFacts, OutboxAssumption
  <2> QED  BY <1>0, <1>8, <2>2 DEF LegUnconfirmed, IInv, TypeOK, RunnerBacked
<1>9. ASSUME NEW w \in Wagers, LegPutDone(w) PROVE RunnerBacked'
  <2>1. records[w] \in Copies(w) /\ records[w].status # "active"
    BY <1>9 DEF LegPutDone, Copies, IInv, RunnerBacked
  <2>2. Continue(w, records[w]) /\ UNCHANGED <<landed, settlePut>>
    BY <1>9 DEF LegPutDone
  <2>3. records[w] \in Record \cup {NoRecord}
    BY DEF IInv, TypeOK
  <2> QED  BY <1>0, <2>1, <2>2, <2>3, ContinueBacked DEF Copies, IInv, RunnerBacked
<1>10. ASSUME NEW w \in Wagers, ErrPutDone(w) PROVE RunnerBacked'
  BY <1>10, <1>0 DEF ErrPutDone, IInv, TypeOK, RunnerBacked
<1>11. ASSUME NEW w \in Wagers, DeleteDone(w) PROVE RunnerBacked'
  BY <1>11, <1>0 DEF DeleteDone, IInv, TypeOK, RunnerBacked
<1>12. ASSUME NEW w \in Wagers, Sweep(w) PROVE RunnerBacked'
  <2>1. records[w] \in Copies(w) /\ records[w].status # "active"
    BY <1>12 DEF Sweep, Copies
  <2>2. Continue(w, records[w]) /\ UNCHANGED <<landed, settlePut>>
    BY <1>12 DEF Sweep
  <2>3. records[w] \in Record \cup {NoRecord}
    BY DEF IInv, TypeOK
  <2> QED  BY <1>0, <2>1, <2>2, <2>3, ContinueBacked DEF Copies, IInv, RunnerBacked
<1>13. ASSUME NEW w \in Wagers, Reconcile(w) PROVE RunnerBacked'
  <2>1. rows[w] \in Record /\ rows[w] \in Copies(w)
    BY <1>13 DEF Reconcile, IInv, TypeOK, QueueIsQuiet, Copies
  <2>2. settlePut[w] = NoRecord /\ runner[w] = "idle"
    BY <1>13 DEF Reconcile, IInv, QueueIsQuiet
  <2>3. CASE rows[w].status = "failed"
    BY <1>0, <1>13, <2>1, <2>2, <2>3 DEF Reconcile, IInv, TypeOK, RunnerBacked
  <2>4. CASE rows[w].status = "active"
    <3>1. [status |-> "settling", plan |-> ReturnPlan, done |-> {}, retries |-> 0] # NoRecord
      BY PlanFacts, OutboxAssumption DEF Record, Status
    <3> QED  BY <1>0, <1>13, <2>2, <2>4, <3>1 DEF Reconcile, IInv, TypeOK, RunnerBacked
  <2>5. CASE rows[w].status = "settling"
    <3>1. Continue(w, rows[w]) /\ UNCHANGED <<landed, settlePut>>
      BY <1>13, <2>5 DEF Reconcile
    <3> QED  BY <1>0, <2>1, <2>2, <2>5, <3>1, OutboxAssumption, ContinueBacked DEF
                IInv, RunnerBacked
  <2> QED  BY <2>1, <2>3, <2>4, <2>5 DEF Record, Status
<1>14. CASE Crash
  BY <1>14, <1>0 DEF Crash, Die, IInv, TypeOK, RunnerBacked
<1>15. CASE Shutdown
  BY <1>15, <1>0 DEF Shutdown, IInv, TypeOK, RunnerBacked
<1>16. CASE Exit
  BY <1>16, <1>0 DEF Exit, Die, IInv, TypeOK, RunnerBacked
<1>17. CASE Boot
  BY <1>17, <1>0 DEF Boot, IInv, TypeOK, RunnerBacked
<1>18. CASE BootDone
  BY <1>18, <1>0 DEF BootDone, IInv, TypeOK, RunnerBacked
<1>19. CASE UNCHANGED vars
  BY <1>0, <1>19 DEF vars, IInv, TypeOK, RunnerBacked
<1> QED
  BY <1>1, <1>2, <1>3, <1>4, <1>5, <1>6, <1>7, <1>8, <1>9, <1>10, <1>11, <1>12,
     <1>13, <1>14, <1>15, <1>16, <1>17, <1>18, <1>19
     DEF Next, GameStep, WriteStep, RunStep

(* A settle call finds its record with the plan, or settled. *)
LEMMA SettleStep ==
  ASSUME IInv, [Next]_vars
  PROVE  SettleBacked'
<1>0. \A v \in Wagers : Paid(v) => Paid(v)'
  BY LandedGrows
<1>1. ASSUME NEW w \in Wagers, RecordBooked(w) PROVE SettleBacked'
  BY <1>1, <1>0, PlanFacts DEF RecordBooked, Untouched, IInv, TypeOK, SettleBacked
<1>2. ASSUME NEW w \in Wagers, BookPutDone(w) PROVE SettleBacked'
  BY <1>2, <1>0 DEF BookPutDone, IInv, TypeOK, SettleBacked
<1>3. ASSUME NEW w \in Wagers, Resolve(w) PROVE SettleBacked'
  BY <1>3, <1>0, SettleFacts, OutboxAssumption DEF Resolve, Settle, IInv, TypeOK,
     SettleBacked
<1>4. ASSUME NEW w \in Wagers, RefundUnlaunched(w) PROVE SettleBacked'
  BY <1>4, <1>0, SettleFacts, OutboxAssumption, PlanFacts DEF RefundUnlaunched,
     Settle, IInv, TypeOK, SettleBacked
<1>5. ASSUME NEW w \in Wagers, SettlePutDone(w) PROVE SettleBacked'
  <2>1. /\ settlePut[w] # NoRecord
        /\ settlePut' = [settlePut EXCEPT ![w] = NoRecord]
        /\ UNCHANGED landed
    BY <1>5 DEF SettlePutDone
  <2>2. CASE runner[w] = "idle"
    <3>1. Continue(w, records[w])
      BY <1>5, <2>2 DEF SettlePutDone
    <3>2. /\ records[w] # NoRecord => records[w] \in Copies(w) /\ records[w].status # "active"
          /\ records[w] = NoRecord => Paid(w)
      BY <2>1 DEF Copies, IInv, SettleBacked
    <3>3. records[w] \in Record \cup {NoRecord}
      BY DEF IInv, TypeOK
    <3> QED  BY <1>0, <2>1, <3>1, <3>2, <3>3, ContinueBacked DEF IInv, TypeOK,
                SettleBacked
  <2>3. CASE runner[w] # "idle"
    BY <1>0, <1>5, <2>1, <2>3 DEF SettlePutDone, IInv, TypeOK, SettleBacked
  <2> QED  BY <2>2, <2>3
<1>6. ASSUME NEW w \in Wagers, LegConfirmed(w) PROVE SettleBacked'
  <2>1. PICK l \in Leg :
          /\ records' = [records EXCEPT ![w] = [records[w] EXCEPT !.done = @ \cup {l}]]
          /\ records' \in [Wagers -> Record \cup {NoRecord}]
          /\ records[w] \in Record
    BY <1>6, LegConfirmedFacts
  <2>2. records[w].status # "active" /\ runner[w] = "loop"
    BY <1>6 DEF LegConfirmed, IInv, RunnerBacked
  <2>3. records'[w] \in Record /\ records'[w].status # "active"
    BY <2>1, <2>2 DEF Record, IInv, TypeOK
  <2>4. \A v \in Wagers \ {w} : records'[v] = records[v]
    BY <2>1 DEF IInv, TypeOK
  <2>5. runner' = [runner EXCEPT ![w] = "put"] /\ UNCHANGED settlePut
    BY <1>6 DEF LegConfirmed
  <2> QED  BY <1>0, <2>2, <2>3, <2>4, <2>5, OutboxAssumption DEF IInv, TypeOK,
              SettleBacked
<1>7. ASSUME NEW w \in Wagers, LegRejected(w) PROVE SettleBacked'
  <2>1. records[w] \in Record /\ records[w].status # "active"
    BY <1>7 DEF LegRejected, IInv, TypeOK, RunnerBacked
  <2>2. Failed(records[w]) # NoRecord /\ Failed(records[w]).status # "active"
    BY <2>1, FailedFacts, OutboxAssumption
  <2> QED  BY <1>0, <1>7, <2>2 DEF LegRejected, IInv, TypeOK, SettleBacked
<1>8. ASSUME NEW w \in Wagers, LegUnconfirmed(w) PROVE SettleBacked'
  <2>1. records[w] \in Record /\ records[w].status # "active"
    BY <1>8 DEF LegUnconfirmed, IInv, TypeOK, RunnerBacked
  <2>2. Failed(records[w]) # NoRecord /\ Failed(records[w]).status # "active"
    BY <2>1, FailedFacts, OutboxAssumption
  <2> QED  BY <1>0, <1>8, <2>2 DEF LegUnconfirmed, IInv, TypeOK, SettleBacked
<1>9. ASSUME NEW w \in Wagers, LegPutDone(w) PROVE SettleBacked'
  <2>1. records[w] \in Copies(w) /\ records[w].status # "active"
    BY <1>9 DEF LegPutDone, Copies, IInv, RunnerBacked
  <2>2. Continue(w, records[w]) /\ UNCHANGED <<landed, settlePut>>
    BY <1>9 DEF LegPutDone
  <2>3. records[w] \in Record \cup {NoRecord}
    BY DEF IInv, TypeOK
  <2> QED  BY <1>0, <2>1, <2>2, <2>3, ContinueBacked DEF Copies, IInv, SettleBacked
<1>10. ASSUME NEW w \in Wagers, ErrPutDone(w) PROVE SettleBacked'
  BY <1>10, <1>0 DEF ErrPutDone, IInv, TypeOK, SettleBacked
<1>11. ASSUME NEW w \in Wagers, DeleteDone(w) PROVE SettleBacked'
  BY <1>11, <1>0 DEF DeleteDone, IInv, TypeOK, SettleBacked
<1>12. ASSUME NEW w \in Wagers, Sweep(w) PROVE SettleBacked'
  <2>1. records[w] \in Copies(w) /\ records[w].status # "active"
    BY <1>12 DEF Sweep, Copies
  <2>2. Continue(w, records[w]) /\ UNCHANGED <<landed, settlePut>>
    BY <1>12 DEF Sweep
  <2>3. records[w] \in Record \cup {NoRecord}
    BY DEF IInv, TypeOK
  <2> QED  BY <1>0, <2>1, <2>2, <2>3, ContinueBacked DEF Copies, IInv, SettleBacked
<1>13. ASSUME NEW w \in Wagers, Reconcile(w) PROVE SettleBacked'
  <2>1. rows[w] \in Record /\ rows[w] \in Copies(w)
    BY <1>13 DEF Reconcile, IInv, TypeOK, QueueIsQuiet, Copies
  <2>2. settlePut[w] = NoRecord /\ runner[w] = "idle"
    BY <1>13 DEF Reconcile, IInv, QueueIsQuiet
  <2>3. CASE rows[w].status = "failed"
    BY <1>0, <1>13, <2>1, <2>2, <2>3 DEF Reconcile, IInv, TypeOK, SettleBacked
  <2>4. CASE rows[w].status = "active"
    <3>1. [status |-> "settling", plan |-> ReturnPlan, done |-> {}, retries |-> 0] # NoRecord
      BY PlanFacts, OutboxAssumption DEF Record, Status
    <3> QED  BY <1>0, <1>13, <2>2, <2>4, <3>1 DEF Reconcile, IInv, TypeOK, SettleBacked
  <2>5. CASE rows[w].status = "settling"
    <3>1. Continue(w, rows[w]) /\ UNCHANGED <<landed, settlePut>>
      BY <1>13, <2>5 DEF Reconcile
    <3> QED  BY <1>0, <2>1, <2>2, <2>5, <3>1, OutboxAssumption, ContinueBacked DEF
                IInv, SettleBacked
  <2> QED  BY <2>1, <2>3, <2>4, <2>5 DEF Record, Status
<1>14. CASE Crash
  BY <1>14, <1>0 DEF Crash, Die, IInv, TypeOK, SettleBacked
<1>15. CASE Shutdown
  BY <1>15, <1>0 DEF Shutdown, IInv, TypeOK, SettleBacked
<1>16. CASE Exit
  BY <1>16, <1>0 DEF Exit, Die, IInv, TypeOK, SettleBacked
<1>17. CASE Boot
  BY <1>17, <1>0 DEF Boot, IInv, TypeOK, SettleBacked
<1>18. CASE BootDone
  BY <1>18, <1>0 DEF BootDone, IInv, TypeOK, SettleBacked
<1>19. CASE UNCHANGED vars
  BY <1>0, <1>19 DEF vars, IInv, TypeOK, SettleBacked
<1> QED
  BY <1>1, <1>2, <1>3, <1>4, <1>5, <1>6, <1>7, <1>8, <1>9, <1>10, <1>11, <1>12,
     <1>13, <1>14, <1>15, <1>16, <1>17, <1>18, <1>19
     DEF Next, GameStep, WriteStep, RunStep

-----------------------------------------------------------------------------
(* The theorems.                                                           *)

(* The first state satisfies the invariant. *)
LEMMA InitIInv == Init => IInv
<1> SUFFICES ASSUME Init  PROVE IInv
  OBVIOUS
<1>1. TypeOK
  BY DEF Init, TypeOK, RunnerPC, FaultKinds
<1>2. DoneMeansLanded /\ PlanKnown
  BY DEF Init, DoneMeansLanded, PlanKnown, Copies
<1>3. Untouched /\ RunnerBacked /\ SettleBacked /\ DownIsEmpty /\ QueueIsQuiet
  BY DEF Init, Untouched, RunnerBacked, SettleBacked, DownIsEmpty, QueueIsQuiet
<1> QED  BY <1>1, <1>2, <1>3 DEF IInv

(* Every reachable state satisfies the invariant. *)
THEOREM Invariance == Spec => []IInv
<1>1. IInv /\ [Next]_vars => IInv'
  <2> SUFFICES ASSUME IInv, [Next]_vars  PROVE IInv'
    OBVIOUS
  <2> QED
    BY TypeStep, DoneStep, PlanStep, UntouchedStep, RunnerStep, SettleStep,
       DownStep, QueueStep DEF IInv
<1> QED  BY <1>1, InitIInv, PTL DEF Spec

(* The state of the outbox is well typed in every reachable state. *)
THEOREM TypeCorrect == Spec => []TypeOK
<1>1. IInv => TypeOK
  BY DEF IInv
<1> QED  BY <1>1, Invariance, PTL

(* Whatever fails, crashes or overtakes, no done flag is ahead of the chain,*)
(* so a resumed settlement never skips a leg it owes.                      *)
THEOREM NoLegSkipped == Spec => []DoneMeansLanded
<1>1. IInv => DoneMeansLanded
  BY DEF IInv
<1> QED  BY <1>1, Invariance, PTL

(* Whatever fails, crashes or overtakes, a leg moves tokens only after the *)
(* legs that come before it: the burn comes last.                          *)
THEOREM BurnIsLast == Spec => LegsInOrder
<1>1. ASSUME IInv, [Next]_vars, NEW w \in Wagers, NEW l \in Leg,
             landed'[w][l] # landed[w][l]
      PROVE  /\ l \in LegsOf(records[w].plan)
             /\ \A k \in LegsOf(records[w].plan) : Rank(k) < Rank(l) => landed[w][k] > 0
  <2>1. PICK v \in Wagers : LegConfirmed(v) \/ LegUnconfirmed(v)
    BY <1>1 DEF Next, GameStep, WriteStep, RunStep, RecordBooked, BookPutDone,
       Resolve, RefundUnlaunched, SettlePutDone, LegRejected, LegPutDone, ErrPutDone,
       DeleteDone, Sweep, Reconcile, Crash, Shutdown, Exit, Die, Boot, BootDone, vars
  <2>2. runner[v] = "loop"
    BY <2>1 DEF LegConfirmed, LegUnconfirmed
  <2>3. PICK m \in NextLegs(records[v]) : landed' = [landed EXCEPT ![v][m] = @ + 1]
    BY <2>1 DEF LegConfirmed, LegUnconfirmed
  <2>4. v = w /\ m = l
    BY <1>1, <2>3 DEF IInv, TypeOK
  <2> QED  BY <1>1, <2>2, <2>3, <2>4, NextLegFacts
<1>2. IInv /\ [Next]_vars =>
        [\A w \in Wagers : \A l \in Leg :
            landed'[w][l] # landed[w][l] =>
              /\ l \in LegsOf(records[w].plan)
              /\ \A k \in LegsOf(records[w].plan) :
                    Rank(k) < Rank(l) => landed[w][k] > 0]_vars
  BY <1>1
<1> QED  BY <1>2, Invariance, PTL DEF Spec, LegsInOrder

(* Whatever fails, crashes or overtakes, a row leaves the table only when  *)
(* its wager is paid in full.                                              *)
THEOREM DurableLiability == Spec => DurableUntilPaid
<1>1. ASSUME IInv, [Next]_vars, NEW w \in Wagers, rows[w] # NoRecord, rows'[w] = NoRecord
      PROVE  Paid(w)
  <2>1. PICK v \in Wagers : BookPutDone(v) \/ SettlePutDone(v) \/ LegPutDone(v)
                             \/ ErrPutDone(v) \/ DeleteDone(v)
    BY <1>1 DEF Next, GameStep, WriteStep, RunStep, RecordBooked, Resolve, Settle,
       RefundUnlaunched, LegConfirmed, LegRejected, LegUnconfirmed, Sweep, Reconcile,
       Crash, Shutdown, Exit, Die, Boot, BootDone, vars
  <2>2. CASE BookPutDone(v)
    BY <1>1, <2>2, PlanFacts, OutboxAssumption DEF BookPutDone, IInv, TypeOK
  <2>3. CASE SettlePutDone(v)
    BY <1>1, <2>3, PersistFacts DEF SettlePutDone, IInv, TypeOK
  <2>4. CASE LegPutDone(v) \/ ErrPutDone(v)
    BY <1>1, <2>4, PersistFacts DEF LegPutDone, ErrPutDone, IInv, TypeOK, RunnerBacked
  <2>5. CASE DeleteDone(v)
    <3>1. v = w
      BY <1>1, <2>5, PersistFacts DEF DeleteDone, IInv
    <3>2. runner[w] = "delete"
      BY <2>5, <3>1 DEF DeleteDone
    <3> QED  BY <1>1, <3>2 DEF IInv, RunnerBacked
  <2> QED  BY <2>1, <2>2, <2>3, <2>4, <2>5
<1>2. IInv /\ [Next]_vars =>
        [\A w \in Wagers : rows[w] # NoRecord /\ rows'[w] = NoRecord => Paid(w)]_vars
  BY <1>1
<1> QED  BY <1>2, Invariance, PTL DEF Spec, DurableUntilPaid

-----------------------------------------------------------------------------
(* The order of writes, and what the table keeps of a plan.                *)

(* The table holds no plan of w yet.                                       *)
Unplanned(w) == rows[w] = NoRecord \/ rows[w].status = "active"

(* As long as writes take effect in the order they were issued, a plan     *)
(* that is in the table is the one in memory, and not ahead of it; and a   *)
(* wager whose first plan is still to come, or to be written, has none.    *)
Ordered(w) ==
    /\ w \in live => /\ phase \in {"up", "stopping"}
                     /\ Unplanned(w)
                     /\ settlePut[w] = NoRecord
                     /\ runner[w] = "idle"
                     /\ records[w] # NoRecord /\ records[w].status = "active"
    /\ w \in bookPut => Unplanned(w)
    /\ settlePut[w] # NoRecord => /\ Unplanned(w)
                                  /\ records[w] = settlePut[w]
                                  /\ runner[w] = "idle"
    /\ ~Unplanned(w) /\ records[w] # NoRecord => /\ rows[w].plan = records[w].plan
                                                 /\ rows[w].done \subseteq records[w].done

Calm == seen \cap {"lateBooking", "earlySweep"} = {}
InTurn == Calm => \A w \in Wagers : Ordered(w)

(* What is in the table of w, if it has a plan, is only added to.          *)
ProgressKept(w) ==
    rows[w] # NoRecord /\ rows[w].status # "active" /\ rows'[w] # NoRecord =>
        rows'[w].plan = rows[w].plan /\ rows[w].done \subseteq rows'[w].done

(* Faults are remembered.                                                  *)
LEMMA SeenGrows ==
  ASSUME [Next]_vars
  PROVE  seen \subseteq seen'
<1> USE DEF Fault, WriteFails, Persist, Overtaking
<1>1. ASSUME NEW w \in Wagers, GameStep(w) PROVE seen \subseteq seen'
  BY <1>1 DEF GameStep, RecordBooked, Resolve, RefundUnlaunched
<1>2. ASSUME NEW w \in Wagers, WriteStep(w) PROVE seen \subseteq seen'
  BY <1>2 DEF WriteStep, BookPutDone, SettlePutDone
<1>3. ASSUME NEW w \in Wagers, RunStep(w) PROVE seen \subseteq seen'
  BY <1>3 DEF RunStep, LegConfirmed, LegRejected, LegUnconfirmed, LegPutDone, ErrPutDone, DeleteDone
<1>4. ASSUME NEW w \in Wagers, Sweep(w) \/ Reconcile(w) PROVE seen \subseteq seen'
  BY <1>4 DEF Sweep, Reconcile
<1>5. CASE Crash \/ Shutdown \/ Exit \/ Boot \/ BootDone
  BY <1>5 DEF Crash, Shutdown, Exit, Die, Boot, BootDone
<1> QED  BY <1>1, <1>2, <1>3, <1>4, <1>5 DEF Next, vars

(* A wager that a step does not touch stays in order.                      *)
LEMMA Bystander ==
  ASSUME NEW v \in Wagers, Ordered(v), v \in live' => v \in live, v \in bookPut' => v \in bookPut,
         settlePut'[v] = settlePut[v], records'[v] = records[v], runner'[v] = runner[v],
         rows'[v] = rows[v], phase' = phase \/ v \notin live' \/ phase' = "stopping"
  PROVE  Ordered(v)' /\ ProgressKept(v)
BY DEF Ordered, Unplanned, ProgressKept

(* A write overtakes no booking: what is written is not older than the row. *)
LEMMA PersistInTurn ==
  ASSUME IInv, NEW w \in Wagers, NEW rec, Persist(w, rec), Calm'
  PROVE  rows'[w] = rows[w] \/ (w \notin bookPut /\ rows'[w] = rec)
BY DEF Persist, Overtaking, Calm, IInv, TypeOK

(* A wager is handed over before anything is known of it.                  *)
LEMMA GameInTurn ==
  ASSUME IInv, NEW w \in Wagers, Ordered(w), GameStep(w)
  PROVE  Ordered(w)' /\ ProgressKept(w)
<1> USE DEF IInv
<1>1. CASE RecordBooked(w)
  <2>1. rows[w] = NoRecord /\ settlePut[w] = NoRecord /\ runner[w] = "idle"
    BY <1>1 DEF RecordBooked, Untouched
  <2>2. /\ rows' = rows /\ settlePut' = settlePut /\ runner' = runner
        /\ phase' = phase /\ phase \in {"up", "stopping"}
        /\ records'[w] = ActiveRecord
    BY <1>1 DEF RecordBooked, TypeOK
  <2>3. records'[w] # NoRecord /\ records'[w].status = "active"
    BY <2>2, PlanFacts, OutboxAssumption
  <2> QED  BY <2>1, <2>2, <2>3 DEF Ordered, Unplanned, ProgressKept
<1>2. ASSUME NEW plan \in Plans, Settle(w, plan), UNCHANGED <<rows, bookPut, runner, phase>>,
             Unplanned(w), runner[w] = "idle", w \notin live'
      PROVE  Ordered(w)' /\ ProgressKept(w)
  <2>1. records'[w] = settlePut'[w]
    BY <1>2 DEF Settle, TypeOK
  <2> QED  BY <1>2, <2>1 DEF Ordered, Unplanned, ProgressKept
<1>3. CASE Resolve(w)
  BY <1>2, <1>3 DEF Resolve, Ordered
<1>4. CASE RefundUnlaunched(w)
  <2>1. rows[w] = NoRecord /\ w \notin live /\ runner[w] = "idle"
    BY <1>4 DEF RefundUnlaunched, Untouched
  <2> QED  BY <1>2, <1>4, <2>1, PlanFacts DEF RefundUnlaunched, Unplanned
<1> QED  BY <1>1, <1>3, <1>4 DEF GameStep

(* A run that goes round the loop keeps the record, or forgets it.         *)
LEMMA ContinueInTurn ==
  ASSUME IInv, NEW w \in Wagers, Continue(w, records[w]), w \notin live',
         w \in bookPut' => w \in bookPut /\ rows'[w] = rows[w], settlePut'[w] = NoRecord,
         Ordered(w), rows'[w] = rows[w] \/ rows'[w] = records[w]
  PROVE  Ordered(w)'
<1>1. records'[w] = NoRecord \/ records'[w] = records[w]
  BY ContinueFacts DEF IInv, TypeOK
<1> QED  BY <1>1 DEF Ordered, Unplanned

(* The writes of recordBooked and settle are the wager's first.            *)
LEMMA WriteInTurn ==
  ASSUME IInv, NEW w \in Wagers, Ordered(w), WriteStep(w), Calm'
  PROVE  Ordered(w)' /\ ProgressKept(w)
<1> USE DEF IInv
<1>1. CASE BookPutDone(w)
  <2>1. /\ w \in bookPut /\ w \notin bookPut'
        /\ rows'[w] = ActiveRecord \/ rows'[w] = rows[w]
        /\ UNCHANGED <<live, records, settlePut, runner, phase>>
    BY <1>1 DEF BookPutDone, TypeOK
  <2> QED  BY <2>1, PlanFacts, OutboxAssumption DEF Ordered, Unplanned, ProgressKept
<1>2. CASE SettlePutDone(w)
  <2>1. /\ settlePut[w] # NoRecord /\ Persist(w, settlePut[w]) /\ settlePut'[w] = NoRecord
        /\ UNCHANGED <<live, bookPut, phase>>
        /\ runner[w] = "idle" => Continue(w, records[w])
    BY <1>2 DEF SettlePutDone, TypeOK
  <2>2. Unplanned(w) /\ records[w] = settlePut[w] /\ runner[w] = "idle" /\ w \notin live
    BY <2>1 DEF Ordered
  <2>3. rows'[w] = rows[w] \/ (w \notin bookPut /\ rows'[w] = records[w])
    BY <2>1, <2>2, PersistInTurn
  <2>4. Ordered(w)'
    BY <2>1, <2>2, <2>3, ContinueInTurn
  <2> QED  BY <2>2, <2>4 DEF ProgressKept, Unplanned
<1> QED  BY <1>1, <1>2 DEF WriteStep

(* A run writes what it holds, and it holds what the table says or more.   *)
LEMMA RunInTurn ==
  ASSUME IInv, NEW w \in Wagers, Ordered(w), RunStep(w), Calm'
  PROVE  Ordered(w)' /\ ProgressKept(w)
<1> USE DEF IInv
<1>1. /\ runner[w] # "idle" /\ w \notin live /\ settlePut[w] = NoRecord
      /\ UNCHANGED <<live, bookPut, settlePut, phase>>
  BY DEF RunStep, LegConfirmed, LegRejected, LegUnconfirmed, LegPutDone, ErrPutDone, DeleteDone,
     Ordered
<1>2. CASE LegConfirmed(w)
  <2>1. PICK l \in Leg :
          /\ records' = [records EXCEPT ![w] = [records[w] EXCEPT !.done = @ \cup {l}]]
          /\ records[w] \in Record
    BY <1>2, LegConfirmedFacts
  <2>2. records'[w].plan = records[w].plan /\ records[w].done \subseteq records'[w].done
    BY <2>1 DEF Record, TypeOK
  <2>3. rows' = rows /\ records[w] # NoRecord
    BY <1>2, <2>1, OutboxAssumption DEF LegConfirmed
  <2> QED  BY <1>1, <2>2, <2>3 DEF Ordered, Unplanned, ProgressKept
<1>3. CASE LegRejected(w) \/ LegUnconfirmed(w)
  <2>1. records[w] \in Record /\ records[w] # NoRecord
    BY <1>3, OutboxAssumption DEF LegRejected, LegUnconfirmed, RunnerBacked, TypeOK
  <2>2. records'[w] = Failed(records[w]) /\ rows' = rows
    BY <1>3 DEF LegRejected, LegUnconfirmed, TypeOK
  <2> QED  BY <1>1, <2>1, <2>2, FailedFacts DEF Ordered, Unplanned, ProgressKept
<1>4. CASE LegPutDone(w)
  <2>1. Persist(w, records[w]) /\ Continue(w, records[w]) /\ records[w] # NoRecord
    BY <1>4 DEF LegPutDone, RunnerBacked
  <2>2. rows'[w] = rows[w] \/ (w \notin bookPut /\ rows'[w] = records[w])
    BY <2>1, PersistInTurn
  <2>3. Ordered(w)'
    BY <1>1, <2>1, <2>2, ContinueInTurn
  <2> QED  BY <2>1, <2>2, <2>3 DEF ProgressKept, Ordered, Unplanned
<1>5. CASE ErrPutDone(w)
  <2>1. Persist(w, records[w]) /\ records' = records /\ records[w] # NoRecord
    BY <1>5 DEF ErrPutDone, RunnerBacked
  <2>2. rows'[w] = rows[w] \/ (w \notin bookPut /\ rows'[w] = records[w])
    BY <2>1, PersistInTurn
  <2> QED  BY <1>1, <2>1, <2>2 DEF ProgressKept, Ordered, Unplanned
<1>6. CASE DeleteDone(w)
  <2>1. Persist(w, NoRecord) /\ records' = records
    BY <1>6 DEF DeleteDone
  <2>2. rows'[w] = rows[w] \/ rows'[w] = NoRecord
    BY <2>1, PersistInTurn
  <2> QED  BY <1>1, <2>1, <2>2 DEF ProgressKept, Ordered, Unplanned
<1> QED  BY <1>2, <1>3, <1>4, <1>5, <1>6 DEF RunStep

(* The sweep and the boot loop go on from the record, or from its row.     *)
LEMMA ResumeInTurn ==
  ASSUME IInv, NEW w \in Wagers, Ordered(w), Sweep(w) \/ Reconcile(w), Calm'
  PROVE  Ordered(w)' /\ ProgressKept(w)
<1> USE DEF IInv
<1>1. UNCHANGED <<live, bookPut, phase, rows>>
  BY DEF Sweep, Reconcile
<1>2. CASE Sweep(w)
  <2>1. settlePut[w] = NoRecord
    BY <1>2 DEF Sweep, Fault, Calm
  <2>2. /\ records[w].status = "settling" /\ Continue(w, records[w])
        /\ settlePut' = settlePut
    BY <1>2 DEF Sweep
  <2>3. w \notin live
    BY <2>2 DEF Ordered
  <2> QED  BY <1>1, <2>1, <2>2, <2>3, ContinueInTurn DEF ProgressKept
<1>3. CASE Reconcile(w)
  <2>1. /\ w \notin live /\ w \notin bookPut /\ rows[w] # NoRecord /\ rows[w] \in Record
        /\ settlePut[w] = NoRecord /\ runner[w] = "idle"
    BY <1>3 DEF Reconcile, QueueIsQuiet, Ordered, TypeOK
  <2>2. CASE rows[w].status = "failed"
    <3>1. records'[w] = rows[w] /\ UNCHANGED <<settlePut, runner>>
      BY <1>3, <2>2 DEF Reconcile, TypeOK
    <3> QED  BY <1>1, <2>1, <3>1 DEF Ordered, Unplanned, ProgressKept
  <2>3. CASE rows[w].status = "active"
    <3>1. records'[w] = settlePut'[w] /\ runner' = runner
      BY <1>3, <2>3 DEF Reconcile, TypeOK
    <3> QED  BY <1>1, <2>1, <2>3, <3>1 DEF Ordered, Unplanned, ProgressKept
  <2>4. CASE rows[w].status = "settling"
    <3>1. Continue(w, rows[w]) /\ settlePut' = settlePut
      BY <1>3, <2>4 DEF Reconcile
    <3>2. records'[w] = NoRecord \/ records'[w] = rows[w]
      BY <2>1, <3>1, ContinueFacts
    <3> QED  BY <1>1, <2>1, <3>1, <3>2 DEF Ordered, Unplanned, ProgressKept
  <2> QED  BY <2>1, <2>2, <2>3, <2>4 DEF Record, Status
<1> QED  BY <1>2, <1>3

(* A step of a wager leaves what the others have alone.                    *)
LEMMA OthersAlone ==
  ASSUME IInv, NEW w \in Wagers, NEW v \in Wagers \ {w},
         GameStep(w) \/ WriteStep(w) \/ RunStep(w) \/ Sweep(w) \/ Reconcile(w)
  PROVE  /\ v \in live' => v \in live
         /\ v \in bookPut' => v \in bookPut
         /\ settlePut'[v] = settlePut[v] /\ records'[v] = records[v]
         /\ runner'[v] = runner[v] /\ rows'[v] = rows[v] /\ phase' = phase
<1> USE DEF IInv, TypeOK, Continue, Persist
<1>1. CASE GameStep(w)
  BY <1>1 DEF GameStep, RecordBooked, Resolve, RefundUnlaunched, Settle
<1>2. CASE WriteStep(w)
  BY <1>2 DEF WriteStep, BookPutDone, SettlePutDone
<1>3. CASE RunStep(w)
  BY <1>3 DEF RunStep, LegConfirmed, LegRejected, LegUnconfirmed, LegPutDone, ErrPutDone, DeleteDone
<1>4. CASE Sweep(w)
  BY <1>4 DEF Sweep
<1>5. CASE Reconcile(w)
  <2>1. rows[w].status \in Status
    BY <1>5, OutboxAssumption DEF Reconcile, QueueIsQuiet, Record
  <2>2. UNCHANGED <<live, bookPut, rows, phase>>
    BY <1>5 DEF Reconcile
  <2>3. /\ settlePut'[v] = settlePut[v] /\ records'[v] = records[v]
        /\ runner'[v] = runner[v]
    BY <1>5, <2>1 DEF Reconcile, Status
  <2> QED  BY <2>2, <2>3
<1> QED  BY <1>1, <1>2, <1>3, <1>4, <1>5

(* No step puts a wager out of order or takes progress out of the table.   *)
LEMMA InTurnStep ==
  ASSUME IInv, InTurn, [Next]_vars, Calm', NEW v \in Wagers
  PROVE  Ordered(v)' /\ ProgressKept(v)
<1>1. \A w \in Wagers : Ordered(w)
  BY SeenGrows DEF InTurn, Calm
<1>2. ASSUME NEW w \in Wagers, GameStep(w) \/ WriteStep(w) \/ RunStep(w) \/ Sweep(w) \/ Reconcile(w)
      PROVE  Ordered(v)' /\ ProgressKept(v)
  <2>1. CASE v = w
    BY <1>1, <1>2, <2>1, GameInTurn, WriteInTurn, RunInTurn, ResumeInTurn
  <2>2. CASE v # w
    BY <1>1, <1>2, <2>2, OthersAlone, Bystander
  <2> QED  BY <2>1, <2>2
<1>3. CASE Crash \/ Exit
  BY <1>1, <1>3 DEF Crash, Exit, Die, Ordered, Unplanned, ProgressKept
<1>4. CASE Shutdown \/ BootDone \/ UNCHANGED vars
  BY <1>1, <1>4, Bystander DEF Shutdown, BootDone, vars, Ordered
<1>5. CASE Boot
  BY <1>1, <1>5 DEF Boot, Ordered, Unplanned, ProgressKept
<1> QED  BY <1>2, <1>3, <1>4, <1>5 DEF Next

(* As long as no write overtakes another, the plan in the table is never   *)
(* replaced and no done flag is lost from it, over any crash and restart.  *)
THEOREM ProgressIsDurable == Spec => DurableProgress
<1>1. Init => InTurn
  BY DEF Init, InTurn, Ordered, Unplanned
<1>2. IInv /\ InTurn /\ [Next]_vars => InTurn'
  BY InTurnStep DEF InTurn
<1>3. IInv /\ InTurn /\ [Next]_vars =>
        [\A w \in Wagers :
            /\ rows[w] # NoRecord
            /\ rows[w].status # "active"
            /\ rows'[w] # NoRecord
            /\ seen' \cap {"lateBooking", "earlySweep"} = {}
            => /\ rows'[w].plan = rows[w].plan
               /\ rows[w].done \subseteq rows'[w].done]_vars
  BY InTurnStep DEF ProgressKept, Calm
<1> QED  BY <1>1, <1>2, <1>3, Invariance, PTL DEF Spec, DurableProgress

(***************************************************************************)
(* The outbox implements WagerCustody, for every set of wagers, defenders, *)
(* splits, retry budget and faults: while the process lives and sees its   *)
(* confirmations, each leg of a wager's one outcome is paid exactly once.  *)
(***************************************************************************)

(* The record in memory knows exactly what the chain has seen of a wager.  *)
Exact(w) ==
    /\ w \notin deposited => landed[w] = [l \in Leg |-> 0]
    /\ w \in live => records[w] # NoRecord /\ records[w].status = "active"
    /\ records[w] # NoRecord =>
          /\ records[w].done \subseteq LegsOf(records[w].plan)
          /\ landed[w] = [l \in Leg |-> IF l \in records[w].done THEN 1 ELSE 0]
          /\ records[w].status = "active" => records[w].done = {}

(* What holds beyond IInv while the custodian can be trusted. *)
CInv == Trusted => phase = "up" /\ \A w \in Wagers : Exact(w)

(* A step that concerns one wager changes one entry of the abstract state, *)
(* and every other wager stays exact.                                      *)
LEMMA OneWager ==
  ASSUME NEW w \in Wagers, TypeOK, TypeOK',
         \A v \in Wagers \ {w} : /\ records'[v] = records[v]
                                 /\ landed'[v] = landed[v]
                                 /\ v \in deposited' <=> v \in deposited
                                 /\ v \in live' => v \in live,
         \A v \in Wagers : Exact(v), Exact(w)'
  PROVE  /\ \A v \in Wagers : Exact(v)'
         /\ Outcomes' = [Outcomes EXCEPT ![w] = Outcomes'[w]]
         /\ landed' = [landed EXCEPT ![w] = landed'[w]]
<1>1. \A v \in Wagers \ {w} : Exact(v)'
  BY DEF Exact
<1>2. \A v \in Wagers \ {w} : Outcomes'[v] = Outcomes[v]
  BY DEF Outcomes
<1>3. Outcomes' = [Outcomes EXCEPT ![w] = Outcomes'[w]]
  <2>1. Outcomes = [v \in Wagers |-> Outcomes[v]] /\ Outcomes' = [v \in Wagers |-> Outcomes'[v]]
    BY DEF Outcomes
  <2> QED  BY <1>2, <2>1
<1>4. landed' = [landed EXCEPT ![w] = landed'[w]]
  BY DEF TypeOK
<1> QED  BY <1>1, <1>3, <1>4

(* The four values an abstract outcome can have. *)
LEMMA OutcomeFacts ==
  ASSUME NEW w \in Wagers
  PROVE  /\ w \notin deposited => Outcomes[w] = [at |-> "absent"]
         /\ w \in deposited /\ records[w] = NoRecord => Outcomes[w] = [at |-> "closed"]
         /\ w \in deposited /\ records[w] # NoRecord /\ records[w].status = "active"
              => Outcomes[w] = [at |-> "held"]
         /\ w \in deposited /\ records[w] # NoRecord /\ records[w].status # "active"
              => Outcomes[w] = Custody!Owed(records[w].plan)
  BY DEF Outcomes, Custody!Owed

(* A step that leaves deposits, records and transfers alone is a stutter.  *)
LEMMA Stutter ==
  ASSUME UNCHANGED <<deposited, records, landed>>, Trusted' = Trusted
  PROVE  UNCHANGED Custody!vars
  BY DEF Custody!vars, Outcomes

LEMMA RefinementInit == Init => Custody!Init /\ CInv
<1> SUFFICES ASSUME Init PROVE Custody!Init /\ CInv
  OBVIOUS
<1>1. Outcomes = [w \in Wagers |-> [at |-> "absent"]]
  BY DEF Init, Outcomes
<1>2. Trusted
  BY DEF Init, Trusted
<1>3. \A w \in Wagers : Exact(w)
  BY DEF Init, Exact
<1>4. phase = "up" /\ landed = [w \in Wagers |-> [l \in Leg |-> 0]]
  BY DEF Init
<1> QED  BY <1>1, <1>2, <1>3, <1>4 DEF Custody!Init, CInv

(* Booking, resolving and bouncing are Deposit, Decide and Bounce. *)
LEMMA GameRefines ==
  ASSUME IInv, TypeOK', CInv, Trusted, Trusted', NEW w \in Wagers, GameStep(w)
  PROVE  CInv' /\ Custody!Keep(w)
<1> USE DEF CInv
<1>a. /\ TypeOK
      /\ records \in [Wagers -> Record \cup {NoRecord}]
      /\ phase = "up"
      /\ landed' = landed
      /\ phase' = phase
      /\ Exact(w)
  BY DEF IInv, TypeOK, GameStep, RecordBooked, Resolve, RefundUnlaunched
<1>b. \A v \in Wagers \ {w} : /\ records'[v] = records[v]
                              /\ v \in deposited' <=> v \in deposited
                              /\ v \in live' => v \in live
  BY <1>a DEF GameStep, RecordBooked, Resolve, RefundUnlaunched, Settle
<1>1. CASE RecordBooked(w)
  <2>1. records'[w] = ActiveRecord /\ w \notin deposited /\ w \in deposited'
    BY <1>1, <1>a DEF RecordBooked
  <2>2. Exact(w)'
    BY <1>a, <2>1, PlanFacts, OutboxAssumption DEF Exact
  <2>3. Outcomes[w] = [at |-> "absent"] /\ Outcomes'[w] = [at |-> "held"]
    BY <2>1, PlanFacts, OutboxAssumption, OutcomeFacts DEF Outcomes
  <2> QED  BY <1>a, <1>b, <2>2, <2>3, OneWager DEF Custody!Keep, Custody!Deposit, Custody!Becomes
<1>2. CASE Resolve(w)
  <2>1. PICK plan \in Plans : Settle(w, plan)
    BY <1>2 DEF Resolve
  <2>2. /\ records'[w] = SettleRecord(w, plan)
        /\ w \in live /\ w \notin live'
        /\ deposited' = deposited
    BY <1>2, <2>1, <1>a DEF Resolve, Settle
  <2>3. w \in deposited
    BY <2>2 DEF IInv, Untouched
  <2>4. Exact(w)'
    BY <1>a, <2>2, <2>3, SettleFacts, OutboxAssumption DEF Exact
  <2>5. Outcomes[w] = [at |-> "held"] /\ Outcomes'[w] = Custody!Owed(plan)
    BY <1>a, <2>2, <2>3, SettleFacts, OutboxAssumption, OutcomeFacts
       DEF Outcomes, Custody!Owed, Exact
  <2> QED  BY <1>a, <1>b, <2>4, <2>5, OneWager DEF Custody!Keep, Custody!Decide, Custody!Becomes
<1>3. CASE RefundUnlaunched(w)
  <2>1. /\ records'[w] = SettleRecord(w, ReturnPlan)
        /\ w \notin deposited /\ w \in deposited'
        /\ live' = live /\ w \notin live
    BY <1>3, <1>a DEF RefundUnlaunched, Settle, IInv, Untouched
  <2>2. Exact(w)'
    BY <1>a, <2>1, SettleFacts, PlanFacts, OutboxAssumption DEF Exact
  <2>3. Outcomes[w] = [at |-> "absent"] /\ Outcomes'[w] = Custody!Owed(ReturnPlan)
    BY <1>a, <2>1, SettleFacts, PlanFacts, OutboxAssumption, OutcomeFacts
       DEF Outcomes, Custody!Owed
  <2> QED  BY <1>a, <1>b, <2>2, <2>3, OneWager DEF Custody!Keep, Custody!Bounce, Custody!Becomes
<1> QED  BY <1>1, <1>2, <1>3 DEF GameStep

(* Entering or going round the loop is Close or a stutter. *)
LEMMA ContinueRefines ==
  ASSUME IInv, TypeOK', CInv, Trusted, Trusted', NEW w \in Wagers,
         Continue(w, records[w]), records[w] # NoRecord => records[w].status # "active",
         UNCHANGED <<deposited, live, landed, phase>>
  PROVE  CInv' /\ (Custody!Keep(w) \/ UNCHANGED Custody!vars)
<1>1. /\ TypeOK /\ phase' = "up" /\ \A v \in Wagers : Exact(v)
      /\ records[w] \in Record \cup {NoRecord}
      /\ records \in [Wagers -> Record \cup {NoRecord}]
  BY DEF IInv, TypeOK, CInv
<1>2. CASE records[w] # NoRecord /\ Todo(records[w]) = {}
  <2>1. records'[w] = NoRecord /\ \A v \in Wagers \ {w} : records'[v] = records[v]
    BY <1>1, <1>2 DEF Continue
  <2>2. w \in deposited /\ w \notin live
    BY <1>1, <1>2 DEF IInv, Untouched, Exact
  <2>3. Exact(w)'
    BY <2>1, <2>2 DEF Exact
  <2>4. /\ Outcomes[w] = Custody!Owed(records[w].plan)
        /\ Outcomes'[w] = [at |-> "closed"]
    BY <1>2, <2>1, <2>2, OutcomeFacts DEF Outcomes
  <2>5. records[w].plan \in Plans
    BY <1>2 DEF IInv, PlanKnown, Copies
  <2>6. \A l \in Leg : landed[w][l] = IF records[w].plan[l] > 0 THEN 1 ELSE 0
    <3>1. /\ records[w].done = LegsOf(records[w].plan)
          /\ landed[w] = [l \in Leg |-> IF l \in records[w].done THEN 1 ELSE 0]
      BY <1>1, <1>2 DEF Exact, Todo
    <3> QED  BY <3>1 DEF LegsOf
  <2> QED  BY <1>1, <2>1, <2>3, <2>4, <2>5, <2>6, OneWager
              DEF CInv, Custody!Keep, Custody!Close, Custody!Becomes
<1>3. CASE records[w] = NoRecord \/ Todo(records[w]) # {}
  <2>1. records' = records
    BY <1>1, <1>3 DEF Continue
  <2> QED  BY <1>1, <2>1, Stutter DEF CInv, Exact
<1> QED  BY <1>2, <1>3

(* A confirmed leg is Pay; a rejected one is a stutter. *)
LEMMA LegRefines ==
  ASSUME IInv, TypeOK', CInv, Trusted, Trusted', NEW w \in Wagers,
         LegConfirmed(w) \/ LegRejected(w)
  PROVE  CInv' /\ (Custody!Keep(w) \/ UNCHANGED Custody!vars)
<1>1. /\ TypeOK /\ phase' = "up" /\ \A v \in Wagers : Exact(v)
      /\ UNCHANGED <<deposited, live>>
      /\ records[w] \in Record /\ records[w] # NoRecord /\ records[w].status # "active"
      /\ records \in [Wagers -> Record \cup {NoRecord}]
      /\ w \in deposited /\ w \notin live
  BY OutboxAssumption
     DEF IInv, TypeOK, CInv, RunnerBacked, Untouched, Exact, LegConfirmed, LegRejected
<1>2. CASE LegConfirmed(w)
  <2>1. PICK l \in NextLegs(records[w]) :
          /\ landed' = [landed EXCEPT ![w][l] = @ + 1]
          /\ records' = [records EXCEPT ![w].done = @ \cup {l}]
    BY <1>2 DEF LegConfirmed
  <2>2. /\ l \in Leg /\ records[w].plan[l] > 0 /\ l \notin records[w].done
        /\ l \in LegsOf(records[w].plan)
    BY <2>1 DEF NextLegs, Todo, LegsOf
  <2>3. landed[w][l] = 0 /\ landed' = [landed EXCEPT ![w][l] = 1]
    <3>1. landed[w] = [k \in Leg |-> IF k \in records[w].done THEN 1 ELSE 0]
      BY <1>1 DEF Exact
    <3>2. landed[w][l] = 0
      BY <2>2, <3>1
    <3>3. landed \in [Wagers -> [Leg -> Nat]]
      BY <1>1 DEF TypeOK
    <3> QED  BY <2>1, <2>2, <3>2, <3>3
  <2>4. /\ records'[w] = [records[w] EXCEPT !.done = @ \cup {l}]
        /\ \A v \in Wagers \ {w} : records'[v] = records[v] /\ landed'[v] = landed[v]
    BY <1>1, <2>1, <2>3 DEF TypeOK
  <2>5. /\ records'[w].plan = records[w].plan
        /\ records'[w].status = records[w].status
        /\ records'[w].done = records[w].done \cup {l}
        /\ records'[w] # NoRecord
    <3>1. records[w].done \cup {l} \in SUBSET Leg
      BY <1>1, <2>2 DEF Record
    <3>2. records'[w] \in Record
      BY <1>1, <2>4, <3>1 DEF Record
    <3>3. records'[w] # NoRecord
      BY <3>2, OutboxAssumption
    <3> QED  BY <1>1, <2>4, <3>3 DEF Record
  <2>6. landed'[w] = [k \in Leg |-> IF k \in records'[w].done THEN 1 ELSE 0]
    <3>1. landed[w] = [k \in Leg |-> IF k \in records[w].done THEN 1 ELSE 0]
      BY <1>1 DEF Exact
    <3>2. landed'[w] = [landed[w] EXCEPT ![l] = 1]
      BY <1>1, <2>2, <2>3 DEF TypeOK
    <3> QED  BY <2>2, <2>5, <3>1, <3>2
  <2>7. Exact(w)'
    BY <1>1, <2>2, <2>5, <2>6 DEF Exact
  <2>8. Outcomes'[w] = Outcomes[w] /\ Outcomes[w] = Custody!Owed(records[w].plan)
    BY <1>1, <2>5, OutcomeFacts DEF Outcomes
  <2>9. records[w].plan \in Plans
    BY <1>1 DEF IInv, PlanKnown, Copies
  <2>10. Outcomes' = Outcomes /\ \A v \in Wagers : Exact(v)'
    <3>1. /\ \A v \in Wagers : Exact(v)'
          /\ Outcomes' = [Outcomes EXCEPT ![w] = Outcomes'[w]]
      BY <1>1, <2>4, <2>7, OneWager
    <3>2. Outcomes = [v \in Wagers |-> Outcomes[v]]
      BY DEF Outcomes
    <3> QED  BY <2>8, <3>1, <3>2
  <2> QED  BY <1>1, <2>2, <2>3, <2>8, <2>9, <2>10 DEF CInv, Custody!Keep, Custody!Pay
<1>3. CASE LegRejected(w)
  <2>1. /\ records'[w] = Failed(records[w])
        /\ \A v \in Wagers \ {w} : records'[v] = records[v]
        /\ landed' = landed
    BY <1>1, <1>3 DEF LegRejected
  <2>2. /\ records'[w].plan = records[w].plan
        /\ records'[w].done = records[w].done
        /\ records'[w].status # "active"
        /\ records'[w] # NoRecord
    BY <1>1, <2>1, FailedFacts, OutboxAssumption
  <2>3. Exact(w)'
    BY <1>1, <2>1, <2>2 DEF Exact
  <2>4. \A v \in Wagers : Outcomes'[v] = Outcomes[v]
    BY <1>1, <2>1, <2>2 DEF Outcomes
  <2>5. Outcomes' = Outcomes
    <3>1. Outcomes = [v \in Wagers |-> Outcomes[v]] /\ Outcomes' = [v \in Wagers |-> Outcomes'[v]]
      BY DEF Outcomes
    <3> QED  BY <2>4, <3>1
  <2>6. \A v \in Wagers : Exact(v)'
    BY <1>1, <2>1, <2>3, OneWager
  <2> QED  BY <1>1, <2>1, <2>5, <2>6 DEF CInv, Custody!vars
<1> QED  BY <1>2, <1>3

(* Every step of the outbox is a step of the custody or a stutter. *)
LEMMA RefinementStep ==
  ASSUME IInv, TypeOK', CInv, [Next]_vars
  PROVE  CInv' /\ [Custody!Next]_Custody!vars
<1>1. CASE ~Trusted'
  BY <1>1 DEF CInv, Custody!Next
<1>2. CASE Trusted'
  <2>1. Trusted
    BY <1>2 DEF Next, GameStep, WriteStep, RunStep, RecordBooked, BookPutDone, Resolve,
       RefundUnlaunched, SettlePutDone, LegConfirmed, LegRejected, LegUnconfirmed,
       LegPutDone, ErrPutDone, DeleteDone, Sweep, Reconcile, Crash, Shutdown, Exit, Die,
       Boot, BootDone, Persist, WriteFails, Fault, Overtaking, Trusted, vars
  <2>2. phase = "up" /\ \A w \in Wagers : Exact(w)
    BY <2>1 DEF CInv
  <2> DEFINE Kept(w) == CInv' /\ (Custody!Keep(w) \/ UNCHANGED Custody!vars)
             Still == UNCHANGED <<deposited, live, records, landed, phase>>
  <2>3. ASSUME NEW w \in Wagers, GameStep(w) PROVE Kept(w)
    BY <1>2, <2>1, <2>3, GameRefines
  <2>4. ASSUME NEW w \in Wagers, LegConfirmed(w) \/ LegRejected(w) PROVE Kept(w)
    BY <1>2, <2>1, <2>4, LegRefines
  <2>5. ASSUME NEW w \in Wagers, SettlePutDone(w) \/ LegPutDone(w) \/ Sweep(w),
               Continue(w, records[w])
        PROVE  Kept(w)
    <3>1. records[w] # NoRecord => records[w].status # "active"
      BY <2>5 DEF SettlePutDone, LegPutDone, Sweep, IInv, RunnerBacked, SettleBacked
    <3>2. UNCHANGED <<deposited, live, landed, phase>>
      BY <2>5 DEF SettlePutDone, LegPutDone, Sweep
    <3> QED  BY <1>2, <2>1, <2>5, <3>1, <3>2, ContinueRefines
  <2>6. ASSUME Still PROVE CInv' /\ UNCHANGED Custody!vars
    BY <1>2, <2>1, <2>2, <2>6, Stutter DEF CInv, Exact
  <2>7. ASSUME NEW w \in Wagers, WriteStep(w) \/ RunStep(w) \/ Sweep(w) PROVE Kept(w)
    <3>1. ~LegUnconfirmed(w)
      BY <1>2 DEF LegUnconfirmed, Fault, Trusted
    <3>2. \/ LegConfirmed(w) \/ LegRejected(w)
          \/ (SettlePutDone(w) \/ LegPutDone(w) \/ Sweep(w)) /\ Continue(w, records[w])
          \/ Still
      BY <2>7, <3>1 DEF WriteStep, RunStep, BookPutDone, SettlePutDone, LegPutDone,
         ErrPutDone, DeleteDone, Sweep
    <3> QED  BY <2>4, <2>5, <2>6, <2>7, <3>2
  <2>8. ASSUME NEW w \in Wagers, Kept(w) PROVE CInv' /\ [Custody!Next]_Custody!vars
    BY <1>2, <2>1, <2>8 DEF Custody!Next
  <2>9. ~\E w \in Wagers : Reconcile(w)
    BY <2>2 DEF Reconcile
  <2>10. ~Crash /\ ~Shutdown /\ ~Exit /\ ~Boot /\ ~BootDone
    BY <1>2, <2>2 DEF Crash, Shutdown, Fault, Trusted, Exit, Boot, BootDone
  <2>11. CASE UNCHANGED vars
    BY <2>6, <2>11 DEF vars
  <2> QED  BY <2>3, <2>7, <2>8, <2>9, <2>10, <2>11 DEF Next
<1> QED  BY <1>1, <1>2

(* The outbox keeps the promise of WagerCustody: while the process lives   *)
(* and sees its confirmations, a deposit gets one outcome, every leg of it *)
(* is paid exactly once, and none is forgotten before.                     *)
THEOREM CustodyKept == Spec => KeepsCustody
<1>1. IInv => TypeOK
  BY DEF IInv
<1>2. Init => Custody!Init /\ CInv
  BY RefinementInit
<1>3. IInv /\ TypeOK' /\ CInv /\ [Next]_vars => CInv' /\ [Custody!Next]_Custody!vars
  BY RefinementStep
<1> QED  BY <1>1, <1>2, <1>3, Invariance, PTL DEF Spec, KeepsCustody, Custody!Spec

(***************************************************************************)
(* What a crash can repeat.                                                *)
(***************************************************************************)

(* Only crashes have happened.                                             *)
CrashesOnly == seen \subseteq {"crash"}

(* Transfers beyond the first of each leg that is known to be done.        *)
Beyond(moved, done) == [l \in Leg |-> IF l \in done THEN moved[l] - 1 ELSE moved[l]]
Excess(moved, done) == SumFunctionOnSet(Beyond(moved, done), Leg)

(* Transfers beyond the first of each leg, known or not.                   *)
Again(moved) ==
    SumFunctionOnSet([l \in Leg |-> IF moved[l] > 1 THEN moved[l] - 1 ELSE 0], Leg)

Unmoved(w) == landed[w] = [l \in Leg |-> 0]

(* The plan of w is not in the table yet.                                  *)
Early(w) ==
    \/ w \notin deposited
    \/ w \in bookPut
    \/ settlePut[w] # NoRecord
    \/ records[w] # NoRecord /\ records[w].status = "active"
    \/ rows[w] # NoRecord /\ rows[w].status = "active"

(* The table, where a crash resumes from, is behind the chain by one leg   *)
(* for each crash and by the one that has just landed.                     *)
RowBehind(w) ==
    /\ \A l \in Leg : landed[w][l] > 0 => l \in LegsOf(rows[w].plan)
    /\ Excess(landed[w], rows[w].done) <= IF runner[w] = "put" THEN crashes + 1 ELSE crashes

(* A record that runs is what the table says, but for the leg that has     *)
(* just landed.                                                            *)
RecordAhead(w) ==
    /\ ~Unplanned(w)
    /\ rows[w].plan = records[w].plan
    /\ IF runner[w] = "put"
       THEN \E l \in Leg \ rows[w].done : records[w].done = rows[w].done \cup {l}
       ELSE records[w].done = rows[w].done

(* The promise about one wager.                                            *)
RepeatsFew(w) ==
    /\ Again(landed[w]) <= crashes
    /\ landed[w]["return"] > 0 => \A l \in Leg \ {"return"} : landed[w][l] = 0

CrashSteady(w) ==
    /\ Early(w) => Unmoved(w)
    /\ ~Unplanned(w) => RowBehind(w)
    /\ records[w] # NoRecord /\ records[w].status # "active" /\ settlePut[w] = NoRecord
          => RecordAhead(w)
    /\ rows[w] = NoRecord => RepeatsFew(w)
    /\ runner[w] = "delete" => records[w] = NoRecord

SteadyInv == CrashesOnly => phase # "stopping" /\ \A w \in Wagers : CrashSteady(w)

(* There are finitely many legs.                                           *)
LEMMA LegsFinite == IsFiniteSet(Leg)
<1>1. Leg = Defenders \cup {"return", "recirculate", "burn"}
  BY DEF Leg
<1>2. IsFiniteSet({"return", "recirculate", "burn"})
  <2>1. IsFiniteSet({"return"}) /\ IsFiniteSet({"recirculate"}) /\ IsFiniteSet({"burn"})
    BY FS_Singleton
  <2>2. IsFiniteSet({"return"} \cup {"recirculate"})
    BY <2>1, FS_Union
  <2>3. IsFiniteSet(({"return"} \cup {"recirculate"}) \cup {"burn"})
    BY <2>1, <2>2, FS_Union
  <2>4. ({"return"} \cup {"recirculate"}) \cup {"burn"} = {"return", "recirculate", "burn"}
    OBVIOUS
  <2> QED  BY <2>3, <2>4
<1> QED  BY <1>1, <1>2, OutboxAssumption, FS_Union

(* One more done flag: one transfer less is beyond the first.              *)
LEMMA ExcessDone ==
  ASSUME NEW moved \in [Leg -> Nat], NEW done, NEW l \in Leg, l \notin done
  PROVE  /\ Excess(moved, done) \in Int
         /\ Excess(moved, done \cup {l}) = Excess(moved, done) - 1
<1> DEFINE f == Beyond(moved, done)  g == Beyond(moved, done \cup {l})
<1>1. \A k \in Leg : f[k] \in Int /\ g[k] \in Int
  BY DEF Beyond
<1>2. \A k \in Leg \ {l} : g[k] = f[k]
  BY DEF Beyond
<1>3. g[l] - f[l] = 0 - 1
  BY DEF Beyond
<1> HIDE DEF f, g
<1>4. SumFunctionOnSet(f, Leg) \in Int
  BY <1>1, LegsFinite, SumInt
<1>5. SumFunctionOnSet(g, Leg) = SumFunctionOnSet(f, Leg) + (g[l] - f[l])
  BY <1>1, <1>2, LegsFinite, SumChange
<1> QED  BY <1>3, <1>4, <1>5 DEF Excess, f, g

(* One more transfer.                                                      *)
LEMMA ExcessMoved ==
  ASSUME NEW moved \in [Leg -> Nat], NEW done, NEW l \in Leg
  PROVE  /\ Excess(moved, done) \in Int
         /\ Excess([moved EXCEPT ![l] = @ + 1], done) = Excess(moved, done) + 1
<1> DEFINE f == Beyond(moved, done)  g == Beyond([moved EXCEPT ![l] = @ + 1], done)
<1>1. \A k \in Leg : f[k] \in Int /\ g[k] \in Int
  BY DEF Beyond
<1>2. \A k \in Leg \ {l} : g[k] = f[k]
  BY DEF Beyond
<1>3. g[l] - f[l] = 1
  BY DEF Beyond
<1> HIDE DEF f, g
<1>4. SumFunctionOnSet(f, Leg) \in Int
  BY <1>1, LegsFinite, SumInt
<1>5. SumFunctionOnSet(g, Leg) = SumFunctionOnSet(f, Leg) + (g[l] - f[l])
  BY <1>1, <1>2, LegsFinite, SumChange
<1> QED  BY <1>3, <1>4, <1>5 DEF Excess, f, g

(* What repeats is within the excess over flags that are true.             *)
LEMMA AgainWithin ==
  ASSUME NEW moved \in [Leg -> Nat], NEW done, \A l \in done : moved[l] > 0
  PROVE  Again(moved) \in Int /\ Excess(moved, done) \in Int
         /\ Again(moved) <= Excess(moved, done)
<1> DEFINE f == [l \in Leg |-> IF moved[l] > 1 THEN moved[l] - 1 ELSE 0]
           g == Beyond(moved, done)
<1>1. \A l \in Leg : f[l] \in Int /\ g[l] \in Int /\ f[l] <= g[l]
  BY DEF Beyond
<1> HIDE DEF f, g
<1>2. SumFunctionOnSet(f, Leg) <= SumFunctionOnSet(g, Leg)
  BY <1>1, LegsFinite, SumBelow
<1>3. SumFunctionOnSet(f, Leg) \in Int /\ SumFunctionOnSet(g, Leg) \in Int
  BY <1>1, LegsFinite, SumInt
<1> QED  BY <1>2, <1>3 DEF Again, Excess, f, g

(* Where nothing moved nothing repeats.                                    *)
LEMMA NothingMoved ==
  ASSUME NEW w \in Wagers, Unmoved(w), crashes \in Nat
  PROVE  /\ RepeatsFew(w)
         /\ Excess(landed[w], {}) = 0
<1> DEFINE zero == [l \in Leg |-> 0]
           f == [l \in Leg |-> IF zero[l] > 1 THEN zero[l] - 1 ELSE 0]
           g == Beyond(zero, {})
<1>1. \A l \in Leg : f[l] = 0 /\ g[l] = 0
  BY DEF Beyond
<1>2. landed[w] = zero
  BY DEF Unmoved
<1>3. "return" \in Leg
  BY DEF Leg
<1>4. \A l \in Leg : landed[w][l] = 0
  BY <1>2
<1> HIDE DEF f, g
<1>5. SumFunctionOnSet(f, Leg) = 0 /\ SumFunctionOnSet(g, Leg) = 0
  BY <1>1, LegsFinite, SumZero
<1>6. Again(zero) = 0 /\ Excess(zero, {}) = 0
  BY <1>5 DEF Again, Excess, f, g
<1> HIDE DEF zero
<1> QED  BY <1>2, <1>3, <1>4, <1>6 DEF RepeatsFew

(* A refund moves only the return leg, a loss every leg but that one.      *)
LEMMA OneOutcome ==
  ASSUME IInv, NEW w \in Wagers, ~Unplanned(w), RowBehind(w)
  PROVE  landed[w]["return"] > 0 => \A l \in Leg \ {"return"} : landed[w][l] = 0
<1>1. rows[w].plan \in Plans
  BY DEF IInv, PlanKnown, Copies, Unplanned
<1>2. \A l \in Leg : landed[w][l] \in Nat
  BY DEF IInv, TypeOK
<1>3. "return" \in Leg
  BY DEF Leg
<1>4. landed[w]["return"] > 0 => rows[w].plan = ReturnPlan
  BY <1>1, <1>3, OutboxAssumption DEF RowBehind, LegsOf, Plans
<1>5. \A l \in Leg \ {"return"} : l \notin LegsOf(ReturnPlan)
  BY DEF LegsOf, ReturnPlan
<1> QED  BY <1>2, <1>4, <1>5 DEF RowBehind

(* The promise, from the table and the record.                             *)
LEMMA PromiseKept ==
  ASSUME IInv, NEW w \in Wagers, Ordered(w), CrashSteady(w)
  PROVE  RepeatsFew(w)
<1>0. crashes \in Nat /\ landed[w] \in [Leg -> Nat]
  BY DEF IInv, TypeOK
<1>1. CASE rows[w] = NoRecord
  BY <1>1 DEF CrashSteady
<1>2. CASE rows[w] # NoRecord /\ rows[w].status = "active"
  BY <1>0, <1>2, NothingMoved DEF CrashSteady, Early
<1>3. CASE ~Unplanned(w)
  <2>1. RowBehind(w)
    BY <1>3 DEF CrashSteady
  <2>2. \A l \in rows[w].done : landed[w][l] > 0
    BY <1>3 DEF IInv, DoneMeansLanded, Unplanned
  <2>3. CASE runner[w] # "put"
    <3>1. Again(landed[w]) <= crashes
      BY <1>0, <2>1, <2>2, <2>3, AgainWithin DEF RowBehind
    <3> QED  BY <1>3, <2>1, <3>1, OneOutcome DEF RepeatsFew
  <2>4. CASE runner[w] = "put"
    <3>1. RecordAhead(w) /\ records[w] # NoRecord
      BY <2>4 DEF CrashSteady, IInv, RunnerBacked, Ordered
    <3>2. PICK l \in Leg \ rows[w].done : records[w].done = rows[w].done \cup {l}
      BY <2>4, <3>1 DEF RecordAhead
    <3>3. \A k \in records[w].done : landed[w][k] > 0
      BY <3>1 DEF IInv, DoneMeansLanded
    <3>4. Excess(landed[w], records[w].done) = Excess(landed[w], rows[w].done) - 1
          /\ Excess(landed[w], rows[w].done) \in Int
      BY <1>0, <3>2, ExcessDone
    <3>5. Again(landed[w]) <= Excess(landed[w], records[w].done) /\ Again(landed[w]) \in Int
      BY <1>0, <3>3, AgainWithin
    <3>6. Again(landed[w]) <= crashes
      BY <1>0, <2>1, <2>4, <3>4, <3>5 DEF RowBehind
    <3> QED  BY <1>3, <2>1, <3>6, OneOutcome DEF RepeatsFew
  <2> QED  BY <2>3, <2>4
<1> QED  BY <1>1, <1>2, <1>3 DEF Unplanned
(* A step that leaves a wager's state alone leaves it steady.              *)
LEMMA SteadyUntouched ==
  ASSUME NEW v \in Wagers, CrashSteady(v), v \in deposited => v \in deposited',
         v \in bookPut' => v \in bookPut,
         settlePut'[v] = settlePut[v], records'[v] = records[v], runner'[v] = runner[v],
         rows'[v] = rows[v], landed'[v] = landed[v], crashes' = crashes
  PROVE  CrashSteady(v)'
BY DEF CrashSteady, Early, Unmoved, Unplanned, RowBehind, RecordAhead, RepeatsFew

(* Without other faults every write succeeds, in its turn.                 *)
LEMMA PersistSteady ==
  ASSUME IInv, NEW w \in Wagers, NEW rec \in Record \cup {NoRecord}, Persist(w, rec),
         CrashesOnly', phase # "stopping"
  PROVE  w \notin bookPut /\ rows'[w] = rec
BY DEF Persist, Overtaking, WriteFails, Fault, CrashesOnly, IInv, TypeOK

(* A wager is new, or its plan is, when the game hands it over.            *)
LEMMA GameSteady ==
  ASSUME IInv, NEW w \in Wagers, Ordered(w), CrashSteady(w), GameStep(w)
  PROVE  CrashSteady(w)'
<1> USE DEF IInv
<1>1. CASE RecordBooked(w)
  <2>1. /\ rows[w] = NoRecord /\ settlePut[w] = NoRecord /\ runner[w] = "idle"
        /\ Unmoved(w)
    BY <1>1 DEF RecordBooked, Untouched, CrashSteady, Early
  <2>2. /\ rows' = rows /\ settlePut' = settlePut /\ runner' = runner
        /\ landed' = landed /\ crashes' = crashes
        /\ records'[w] = ActiveRecord
    BY <1>1 DEF RecordBooked, TypeOK
  <2> QED  BY <2>1, <2>2, PlanFacts DEF CrashSteady, Unmoved, Unplanned, RepeatsFew
<1>2. ASSUME NEW plan \in Plans, Settle(w, plan),
             UNCHANGED <<rows, bookPut, runner, landed, crashes>>,
             Unmoved(w), rows[w] = NoRecord \/ rows[w].status = "active", runner[w] = "idle"
      PROVE  CrashSteady(w)'
  <2>1. settlePut'[w] = SettleRecord(w, plan) /\ SettleRecord(w, plan) \in Record
    BY <1>2, SettleFacts DEF Settle, TypeOK
  <2>2. settlePut'[w] # NoRecord
    BY <2>1, OutboxAssumption
  <2> QED  BY <1>2, <2>2 DEF CrashSteady, Unmoved, Unplanned, RepeatsFew
<1>3. CASE Resolve(w)
  <2>1. Unmoved(w) /\ Unplanned(w) /\ runner[w] = "idle"
    BY <1>3 DEF Resolve, Ordered, CrashSteady, Early
  <2> QED  BY <1>2, <1>3, <2>1 DEF Resolve, Unplanned
<1>4. CASE RefundUnlaunched(w)
  <2>1. rows[w] = NoRecord /\ runner[w] = "idle" /\ Unmoved(w)
    BY <1>4 DEF RefundUnlaunched, Untouched, CrashSteady, Early
  <2> QED  BY <1>2, <1>4, <2>1, PlanFacts DEF RefundUnlaunched
<1> QED  BY <1>1, <1>3, <1>4 DEF GameStep

(* The booking's write finds an empty table, the settlement's a booking.   *)
LEMMA WriteSteady ==
  ASSUME IInv, NEW w \in Wagers, Ordered(w), CrashSteady(w), WriteStep(w),
         CrashesOnly', phase # "stopping"
  PROVE  CrashSteady(w)'
<1> USE DEF IInv
<1>1. CASE BookPutDone(w)
  <2>1. /\ rows'[w] = ActiveRecord /\ w \in bookPut
        /\ UNCHANGED <<records, settlePut, runner, landed, crashes>>
    BY <1>1 DEF BookPutDone, WriteFails, Fault, CrashesOnly, TypeOK
  <2>2. Unmoved(w) /\ Unplanned(w) /\ ActiveRecord # NoRecord
    BY <2>1, PlanFacts, OutboxAssumption DEF CrashSteady, Early, Ordered
  <2>3. ~(records[w] # NoRecord /\ records[w].status # "active" /\ settlePut[w] = NoRecord)
    BY <2>2 DEF CrashSteady, RecordAhead
  <2> QED  BY <2>1, <2>2, <2>3, PlanFacts DEF CrashSteady, Unmoved, Unplanned
<1>2. CASE SettlePutDone(w)
  <2>1. /\ settlePut[w] # NoRecord /\ Persist(w, settlePut[w]) /\ settlePut'[w] = NoRecord
        /\ UNCHANGED <<deposited, bookPut, landed, crashes>>
        /\ settlePut[w] \in Record
        /\ runner[w] = "idle" => Continue(w, records[w])
    BY <1>2 DEF SettlePutDone, TypeOK
  <2>2. records[w] = settlePut[w] /\ runner[w] = "idle" /\ Unmoved(w)
    BY <2>1 DEF Ordered, CrashSteady, Early
  <2>3. rows'[w] = records[w] /\ records[w].status = "settling"
    BY <2>1, <2>2, PersistSteady DEF SettleBacked
  <2>4. records[w].done = {}
    <3>1. \A l \in records[w].done : l \in Leg /\ landed[w][l] > 0
      BY <2>1, <2>2 DEF DoneMeansLanded, Record
    <3> QED  BY <2>2, <3>1 DEF Unmoved
  <2>5. \/ records'[w] = NoRecord /\ runner'[w] = "delete"
        \/ records'[w] = records[w] /\ runner'[w] = "loop"
    BY <2>1, <2>2, ContinueFacts
  <2>6. ~Unplanned(w)' /\ rows'[w] # NoRecord
    BY <2>1, <2>2, <2>3 DEF Unplanned
  <2>7. RowBehind(w)'
    <3>1. Excess(landed[w], {}) = 0 /\ crashes \in Nat
      BY <2>2, NothingMoved DEF TypeOK
    <3> QED  BY <2>1, <2>2, <2>3, <2>4, <2>5, <3>1 DEF RowBehind, Unmoved
  <2>8. records'[w] # NoRecord => RecordAhead(w)'
    BY <2>3, <2>5, <2>6 DEF RecordAhead
  <2> QED  BY <2>1, <2>2, <2>5, <2>6, <2>7, <2>8 DEF CrashSteady, Unmoved
<1> QED  BY <1>1, <1>2 DEF WriteStep

(* A wager whose plan is in the table stays there with a plan that is not  *)
(* early, whatever its record becomes.                                     *)
LEMMA SteadyPlanned ==
  ASSUME IInv, NEW w \in Wagers, ~Unplanned(w)', RowBehind(w)', w \in deposited',
         w \notin bookPut', settlePut'[w] = NoRecord,
         records'[w] # NoRecord => records'[w].status # "active" /\ RecordAhead(w)',
         runner'[w] = "delete" => records'[w] = NoRecord
  PROVE  CrashSteady(w)'
BY DEF CrashSteady, Early, Unplanned

(* Going round the loop, with the table up to date.                        *)
LEMMA ContinueSteady ==
  ASSUME IInv, NEW w \in Wagers, NEW rec \in Record, Continue(w, rec), rec.status # "active",
         rows'[w] = rec, w \in deposited', w \notin bookPut', settlePut'[w] = NoRecord,
         \A l \in Leg : landed'[w][l] > 0 => l \in LegsOf(rec.plan),
         Excess(landed'[w], rec.done) <= crashes'
  PROVE  CrashSteady(w)'
<1>1. \/ records'[w] = NoRecord /\ runner'[w] = "delete"
      \/ records'[w] = rec /\ runner'[w] = "loop"
  BY ContinueFacts DEF IInv
<1>2. ~Unplanned(w)'
  BY OutboxAssumption DEF Unplanned
<1>3. RowBehind(w)'
  BY <1>1 DEF RowBehind
<1>4. records'[w] # NoRecord => records'[w].status # "active" /\ RecordAhead(w)'
  BY <1>1, <1>2 DEF RecordAhead
<1> QED  BY <1>1, <1>2, <1>3, <1>4, SteadyPlanned

(* A run moves one leg ahead of the table at a time and writes it there.   *)
LEMMA RunSteady ==
  ASSUME IInv, NEW w \in Wagers, Ordered(w), CrashSteady(w), RunStep(w),
         CrashesOnly', phase # "stopping"
  PROVE  CrashSteady(w)'
<1> USE DEF IInv
<1>0. /\ w \in deposited /\ runner[w] # "idle" /\ settlePut[w] = NoRecord
      /\ UNCHANGED <<deposited, bookPut, settlePut, crashes>>
      /\ crashes \in Nat /\ landed[w] \in [Leg -> Nat]
  BY DEF RunStep, LegConfirmed, LegRejected, LegUnconfirmed, LegPutDone, ErrPutDone, DeleteDone,
     Ordered, Untouched, TypeOK
<1>1. ASSUME runner[w] # "delete"
      PROVE  /\ records[w] \in Record /\ records[w] # NoRecord /\ records[w].status # "active"
             /\ RecordAhead(w) /\ RowBehind(w) /\ w \notin bookPut
             /\ rows[w] # NoRecord /\ rows[w].status # "active"
  <2>1. records[w] # NoRecord /\ records[w].status # "active" /\ records[w] \in Record
    BY <1>0, <1>1 DEF RunnerBacked, TypeOK, RunnerPC
  <2> QED  BY <1>0, <2>1 DEF CrashSteady, RecordAhead, Ordered, Unplanned
<1>2. CASE LegConfirmed(w)
  <2>0. runner[w] = "loop" /\ rows' = rows /\ runner'[w] = "put"
    BY <1>2 DEF LegConfirmed, TypeOK
  <2>1. PICK l \in NextLegs(records[w]) :
          /\ landed' = [landed EXCEPT ![w][l] = @ + 1]
          /\ records' = [records EXCEPT ![w].done = @ \cup {l}]
    BY <1>2 DEF LegConfirmed
  <2>2. l \in Leg /\ l \in LegsOf(records[w].plan) /\ l \notin records[w].done
    BY <2>1 DEF NextLegs, Todo, LegsOf
  <2>3. landed'[w] = [landed[w] EXCEPT ![l] = @ + 1]
    BY <2>1, <2>2 DEF TypeOK
  <2>4. records'[w] = [records[w] EXCEPT !.done = @ \cup {l}]
    BY <2>1 DEF TypeOK
  <2>5. /\ records'[w].plan = records[w].plan /\ records'[w].status = records[w].status
        /\ records'[w].done = records[w].done \cup {l}
    BY <1>1, <2>0, <2>4 DEF Record
  <2>6. Excess(landed'[w], rows[w].done) = Excess(landed[w], rows[w].done) + 1
        /\ Excess(landed[w], rows[w].done) \in Int
    BY <1>0, <2>2, <2>3, ExcessMoved
  <2>7. RowBehind(w)'
    <3>1. \A k \in Leg : landed'[w][k] > 0 => k \in LegsOf(rows[w].plan)
      BY <1>0, <1>1, <2>0, <2>2, <2>3 DEF RowBehind, RecordAhead
    <3>2. Excess(landed'[w], rows[w].done) <= crashes + 1
      BY <1>0, <1>1, <2>0, <2>6 DEF RowBehind
    <3> QED  BY <1>0, <2>0, <3>1, <3>2 DEF RowBehind
  <2>8. RecordAhead(w)'
    <3>1. records[w].done = rows[w].done /\ rows[w].plan = records[w].plan
      BY <1>1, <2>0 DEF RecordAhead
    <3> QED  BY <1>1, <2>0, <2>2, <2>5, <3>1 DEF RecordAhead, Unplanned
  <2>9. ~Unplanned(w)'
    BY <1>1, <2>0 DEF Unplanned
  <2> QED  BY <1>0, <1>1, <2>0, <2>5, <2>7, <2>8, <2>9, SteadyPlanned
<1>3. CASE LegRejected(w)
  <2>1. /\ runner[w] = "loop" /\ rows' = rows /\ landed' = landed /\ runner'[w] = "putErr"
        /\ records'[w] = Failed(records[w])
    BY <1>3 DEF LegRejected, TypeOK
  <2>2. /\ records'[w].plan = records[w].plan /\ records'[w].done = records[w].done
        /\ records'[w].status # "active"
    BY <1>1, <2>1, FailedFacts
  <2>3. ~Unplanned(w)' /\ RowBehind(w)' /\ RecordAhead(w)'
    BY <1>0, <1>1, <2>1, <2>2 DEF Unplanned, RowBehind, RecordAhead
  <2> QED  BY <1>0, <1>1, <2>1, <2>2, <2>3, SteadyPlanned
<1>4. CASE LegUnconfirmed(w)
  BY <1>4 DEF LegUnconfirmed, Fault, CrashesOnly
<1>5. CASE LegPutDone(w)
  <2>1. /\ runner[w] = "put" /\ Persist(w, records[w]) /\ Continue(w, records[w])
        /\ landed' = landed
    BY <1>5 DEF LegPutDone
  <2>2. rows'[w] = records[w]
    BY <1>1, <2>1, PersistSteady
  <2>3. PICK l \in Leg \ rows[w].done : records[w].done = rows[w].done \cup {l}
    BY <1>1, <2>1 DEF RecordAhead
  <2>4. Excess(landed[w], records[w].done) = Excess(landed[w], rows[w].done) - 1
        /\ Excess(landed[w], rows[w].done) \in Int
    BY <1>0, <2>3, ExcessDone
  <2>5. Excess(landed[w], records[w].done) <= crashes
    BY <1>0, <1>1, <2>1, <2>4 DEF RowBehind
  <2>6. \A k \in Leg : landed[w][k] > 0 => k \in LegsOf(records[w].plan)
    BY <1>1, <2>1 DEF RowBehind, RecordAhead
  <2> QED  BY <1>0, <1>1, <2>1, <2>2, <2>5, <2>6, ContinueSteady
<1>6. CASE ErrPutDone(w)
  <2>1. /\ runner[w] = "putErr" /\ Persist(w, records[w]) /\ records' = records
        /\ landed' = landed /\ runner'[w] = "idle"
    BY <1>6 DEF ErrPutDone, TypeOK
  <2>2. rows'[w] = records[w]
    BY <1>1, <2>1, PersistSteady
  <2>3. records[w].done = rows[w].done /\ records[w].plan = rows[w].plan
    BY <1>1, <2>1 DEF RecordAhead
  <2>4. ~Unplanned(w)' /\ RowBehind(w)' /\ RecordAhead(w)'
    BY <1>0, <1>1, <2>1, <2>2, <2>3 DEF Unplanned, RowBehind, RecordAhead
  <2> QED  BY <1>0, <1>1, <2>1, <2>4, SteadyPlanned
<1>7. CASE DeleteDone(w)
  <2>1. /\ runner[w] = "delete" /\ Persist(w, NoRecord) /\ records' = records
        /\ landed' = landed /\ runner'[w] = "idle"
    BY <1>7 DEF DeleteDone, TypeOK
  <2>2. rows'[w] = NoRecord /\ records[w] = NoRecord /\ w \notin bookPut
    BY <2>1, PersistSteady DEF CrashSteady
  <2>3. RepeatsFew(w)
    BY PromiseKept
  <2> QED  BY <1>0, <2>1, <2>2, <2>3 DEF CrashSteady, Early, Unplanned, RepeatsFew
<1> QED  BY <1>2, <1>3, <1>4, <1>5, <1>6, <1>7 DEF RunStep

(* The sweep resumes from the record, the boot loop from the row: the same *)
(* progress.                                                               *)
LEMMA ResumeSteady ==
  ASSUME IInv, NEW w \in Wagers, Ordered(w), CrashSteady(w), Sweep(w) \/ Reconcile(w),
         CrashesOnly'
  PROVE  CrashSteady(w)'
<1> USE DEF IInv
<1>0. UNCHANGED <<deposited, bookPut, rows, landed, crashes>> /\ runner[w] = "idle"
  BY DEF Sweep, Reconcile, QueueIsQuiet
<1>1. CASE Sweep(w)
  <2>1. /\ settlePut[w] = NoRecord /\ settlePut' = settlePut
        /\ records[w] # NoRecord /\ records[w].status # "active" /\ records[w] \in Record
        /\ Continue(w, records[w])
    BY <1>1 DEF Sweep, Fault, CrashesOnly, TypeOK
  <2>2. /\ ~Unplanned(w) /\ records[w].done = rows[w].done /\ rows[w].plan = records[w].plan
        /\ RowBehind(w)
    BY <1>0, <2>1 DEF CrashSteady, RecordAhead
  <2>3. w \in deposited /\ w \notin bookPut
    BY <2>1, <2>2 DEF Untouched, Ordered
  <2>4. \/ records'[w] = NoRecord /\ runner'[w] = "delete"
        \/ records'[w] = records[w] /\ runner'[w] = "loop"
    BY <2>1, ContinueFacts
  <2>5. ~Unplanned(w)' /\ RowBehind(w)'
    BY <1>0, <2>2, <2>4 DEF Unplanned, RowBehind
  <2>6. records'[w] # NoRecord => records'[w].status # "active" /\ RecordAhead(w)'
    BY <1>0, <2>1, <2>2, <2>4, <2>5 DEF RecordAhead
  <2> QED  BY <1>0, <2>1, <2>3, <2>4, <2>5, <2>6, SteadyPlanned
<1>2. CASE Reconcile(w)
  <2>1. /\ rows[w] # NoRecord /\ rows[w] \in Record /\ w \notin bookPut /\ w \in deposited
        /\ settlePut[w] = NoRecord
    BY <1>2 DEF Reconcile, QueueIsQuiet, Untouched, TypeOK
  <2>2. CASE rows[w].status = "failed"
    <3>1. records'[w] = rows[w] /\ UNCHANGED <<settlePut, runner>>
      BY <1>2, <2>2 DEF Reconcile, TypeOK
    <3>2. ~Unplanned(w)' /\ RowBehind(w)' /\ RecordAhead(w)'
      BY <1>0, <2>1, <2>2, <3>1 DEF CrashSteady, Unplanned, RowBehind, RecordAhead
    <3> QED  BY <1>0, <2>1, <2>2, <3>1, <3>2, SteadyPlanned
  <2>3. CASE rows[w].status = "active"
    <3> DEFINE rec == [status |-> "settling", plan |-> ReturnPlan, done |-> {}, retries |-> 0]
    <3>1. settlePut'[w] = rec /\ runner' = runner
      BY <1>2, <2>3 DEF Reconcile, TypeOK
    <3>2. rec # NoRecord
      <4>1. rec \in Record
        BY PlanFacts, OutboxAssumption DEF Record, Status
      <4> QED  BY <4>1, OutboxAssumption
    <3>3. Unmoved(w)
      BY <2>1, <2>3 DEF CrashSteady, Early
    <3> HIDE DEF rec
    <3> QED  BY <1>0, <2>1, <2>3, <3>1, <3>2, <3>3 DEF CrashSteady, Unmoved, Unplanned
  <2>4. CASE rows[w].status = "settling"
    <3>1. Continue(w, rows[w]) /\ settlePut' = settlePut
      BY <1>2, <2>4 DEF Reconcile
    <3>2. RowBehind(w)
      BY <2>1, <2>4 DEF CrashSteady, Unplanned
    <3>3. /\ \A k \in Leg : landed'[w][k] > 0 => k \in LegsOf(rows[w].plan)
          /\ Excess(landed'[w], rows[w].done) <= crashes'
      BY <1>0, <3>2 DEF RowBehind
    <3> QED  BY <1>0, <2>1, <2>4, <3>1, <3>3, ContinueSteady
  <2> QED  BY <2>1, <2>2, <2>3, <2>4 DEF Record, Status
<1> QED  BY <1>1, <1>2

(* A step of a wager moves nothing of another's and crashes nothing.       *)
LEMMA OthersUnmoved ==
  ASSUME IInv, NEW w \in Wagers, NEW v \in Wagers \ {w},
         GameStep(w) \/ WriteStep(w) \/ RunStep(w) \/ Sweep(w) \/ Reconcile(w)
  PROVE  /\ landed'[v] = landed[v] /\ crashes' = crashes
         /\ v \in deposited => v \in deposited'
BY DEF IInv, TypeOK, GameStep, RecordBooked, Resolve, RefundUnlaunched, WriteStep, BookPutDone,
   SettlePutDone, RunStep, LegConfirmed, LegRejected, LegUnconfirmed, LegPutDone, ErrPutDone,
   DeleteDone, Sweep, Reconcile

(* Every step keeps the table at most a leg behind for each crash.         *)
LEMMA SteadyStep ==
  ASSUME IInv, InTurn, SteadyInv, [Next]_vars
  PROVE  SteadyInv'
<1> SUFFICES ASSUME CrashesOnly'
             PROVE  phase' # "stopping" /\ \A v \in Wagers : CrashSteady(v)'
  BY DEF SteadyInv
<1>0. /\ phase # "stopping" /\ crashes \in Nat
      /\ \A w \in Wagers : Ordered(w) /\ CrashSteady(w) /\ landed[w] \in [Leg -> Nat]
  BY SeenGrows DEF SteadyInv, InTurn, Calm, CrashesOnly, IInv, TypeOK
<1>1. ASSUME NEW w \in Wagers, GameStep(w) \/ WriteStep(w) \/ RunStep(w) \/ Sweep(w) \/ Reconcile(w)
      PROVE  phase' # "stopping" /\ \A v \in Wagers : CrashSteady(v)'
  <2>1. CrashSteady(w)'
    BY <1>0, <1>1, GameSteady, WriteSteady, RunSteady, ResumeSteady
  <2>2. ASSUME NEW v \in Wagers \ {w} PROVE CrashSteady(v)'
    BY <1>0, <1>1, OthersAlone, OthersUnmoved, SteadyUntouched
  <2>3. phase' = phase
    BY <1>1 DEF GameStep, RecordBooked, Resolve, RefundUnlaunched, WriteStep, BookPutDone,
       SettlePutDone, RunStep, LegConfirmed, LegRejected, LegUnconfirmed, LegPutDone,
       ErrPutDone, DeleteDone, Sweep, Reconcile
  <2> QED  BY <1>0, <2>1, <2>2, <2>3
<1>2. CASE Crash
  <2>1. phase' # "stopping" /\ crashes' = crashes + 1
    BY <1>2 DEF Crash, Die
  <2>2. ASSUME NEW v \in Wagers PROVE CrashSteady(v)'
    <3>1. /\ records'[v] = NoRecord /\ v \notin bookPut' /\ settlePut'[v] = NoRecord
          /\ runner'[v] = "idle"
          /\ deposited' = deposited /\ rows' = rows /\ landed' = landed
      BY <1>2 DEF Crash, Die
    <3>2. Early(v)' => Unmoved(v)'
      BY <1>0, <3>1 DEF CrashSteady, Early, Unmoved
    <3>3. ~Unplanned(v)' => RowBehind(v)'
      <4>1. \A k \in Leg : Excess(landed[v], rows[v].done) \in Int
        BY <1>0, ExcessMoved
      <4>2. "return" \in Leg
        BY DEF Leg
      <4> QED  BY <1>0, <2>1, <3>1, <4>1, <4>2 DEF CrashSteady, Unplanned, RowBehind
    <3>4. rows'[v] = NoRecord => RepeatsFew(v)'
      <4>1. Again(landed[v]) \in Int
        <5> DEFINE moved == landed[v]  done == {}
        <5>1. moved \in [Leg -> Nat] /\ \A l \in done : moved[l] > 0
          BY <1>0
        <5> HIDE DEF moved, done
        <5>2. Again(moved) \in Int
          BY <5>1, AgainWithin
        <5> QED  BY <5>2 DEF moved
      <4> QED  BY <1>0, <2>1, <3>1, <4>1 DEF CrashSteady, RepeatsFew
    <3> QED  BY <3>1, <3>2, <3>3, <3>4 DEF CrashSteady
  <2> QED  BY <2>1, <2>2
<1>3. CASE Shutdown
  BY <1>3 DEF Shutdown, Fault, CrashesOnly
<1>4. CASE Exit
  BY <1>0, <1>4 DEF Exit
<1>5. CASE Boot
  BY <1>0, <1>5, SteadyUntouched DEF Boot
<1>6. CASE BootDone
  BY <1>0, <1>6, SteadyUntouched DEF BootDone
<1>7. CASE UNCHANGED vars
  BY <1>0, <1>7, SteadyUntouched DEF vars
<1> QED  BY <1>1, <1>2, <1>3, <1>4, <1>5, <1>6, <1>7 DEF Next

(* When nothing but crashes goes wrong, a wager's transfers repeat at most *)
(* once for each crash, and the wager keeps its one outcome.               *)
THEOREM OneRepeatPerCrash == Spec => []CrashRepeatsOneLeg
<1>1. Init => InTurn /\ SteadyInv
  <2> SUFFICES ASSUME Init PROVE InTurn /\ SteadyInv
    OBVIOUS
  <2>1. InTurn
    BY DEF Init, InTurn, Ordered, Unplanned
  <2>2. phase # "stopping"
    BY DEF Init
  <2>3. ASSUME NEW w \in Wagers PROVE CrashSteady(w)
    <3>1. Unmoved(w) /\ crashes \in Nat
      BY DEF Init, Unmoved
    <3>2. RepeatsFew(w)
      BY <3>1, NothingMoved
    <3> QED  BY <3>1, <3>2 DEF Init, CrashSteady, Unplanned
  <2> QED  BY <2>1, <2>2, <2>3 DEF SteadyInv
<1>2. IInv /\ InTurn /\ [Next]_vars => InTurn'
  BY InTurnStep DEF InTurn
<1>3. IInv /\ InTurn /\ SteadyInv /\ [Next]_vars => SteadyInv'
  BY SteadyStep
<1>4. IInv /\ InTurn /\ SteadyInv => CrashRepeatsOneLeg
  <2> SUFFICES ASSUME IInv, InTurn, SteadyInv, CrashesOnly, NEW w \in Wagers
               PROVE  /\ Repeats(w) <= crashes
                      /\ landed[w]["return"] > 0 =>
                            \A l \in Leg \ {"return"} : landed[w][l] = 0
    BY DEF CrashRepeatsOneLeg, CrashesOnly
  <2>1. Ordered(w) /\ CrashSteady(w)
    BY DEF InTurn, Calm, SteadyInv, CrashesOnly
  <2>2. Repeats(w) = Again(landed[w])
    BY DEF Repeats, Again
  <2> QED  BY <2>1, <2>2, PromiseKept DEF RepeatsFew
<1> QED  BY <1>1, <1>2, <1>3, <1>4, Invariance, PTL DEF Spec

=============================================================================

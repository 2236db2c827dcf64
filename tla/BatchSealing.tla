---------------------------- MODULE BatchSealing ----------------------------
(***************************************************************************)
(* Supraseal batches (tasks/sealsupra) on one machine, its NVMe slots      *)
(* (lib/slotmgr) and the finalize tasks that free them                     *)
(* (tasks/seal/task_finalize.go).                                          *)
(*                                                                         *)
(* A batch holds the mutex inSDR while it waits for a slot and computes    *)
(* the layers, and outSDR while it builds the trees.  The layers stay in   *)
(* the slot, for the proof, until every sector of the batch is finalized.  *)
(* Which slots are taken is kept in memory and, for batches that are past  *)
(* their trees, in batch_sector_refs, from which a restarted process       *)
(* starts.  The machine keeps its tasks while it runs.                     *)
(***************************************************************************)
EXTENDS Naturals, FiniteSets

CONSTANTS
    Batches,         \* batches that are ever sealed
    BatchSize,       \* sectors of a batch
    SlotCount,       \* pipelines: slots, and batch tasks at a time
    FinalizeMax,     \* FinalizeMaxTasks
    MaxBatchFaults   \* bound: failed phases, restarts, removed sectors

ASSUME BatchAssumption == {BatchSize, SlotCount, FinalizeMax, MaxBatchFaults} \subseteq Nat /\ BatchSize # 0

VARIABLES
    batch,      \* how far the batch is
    slotOf,     \* the slot its Do has got
    inSDR,      \* the batch that holds the mutex
    outSDR,
    slots,      \* SlotMgr.slots
    layers,     \* the batch whose layers are in the slot (external)
    batchRefs,  \* batch_sector_refs
    final,      \* how far the sector's Finalize is
    batchFaults

batchVars == <<batch, slotOf, inSDR, outSDR, slots, layers, batchRefs, final, batchFaults>>

Slots == 1..SlotCount

NoBatch == 0

BatchSectors == Batches \X (1..BatchSize)

SectorsOf(b) == {b} \X (1..BatchSize)

NoWork == [sectors |-> {}, work |-> FALSE]

Running == {"enter", "get", "asleep", "pc1", "between", "pc2", "mark"}

BatchTypeOK ==
    /\ batch \in [Batches -> Running \cup {"new", "queued", "sealed"}]
    /\ slotOf \in [Batches -> 0..SlotCount]
    /\ inSDR \in Batches \cup {NoBatch}
    /\ outSDR \in Batches \cup {NoBatch}
    /\ slots \in [Slots -> [sectors : SUBSET BatchSectors, work : BOOLEAN]]
    /\ layers \in [Slots -> Batches \cup {NoBatch}]
    /\ batchRefs \subseteq [sector : BatchSectors, slot : Slots]
    /\ final \in [BatchSectors -> {"none", "ready", "finalize", "done", "update", "finalized"}]
    /\ batchFaults \in 0..MaxBatchFaults

BatchInit ==
    /\ batch = [b \in Batches |-> "new"]
    /\ slotOf = [b \in Batches |-> 0]
    /\ inSDR = NoBatch
    /\ outSDR = NoBatch
    /\ slots = [s \in Slots |-> NoWork]
    /\ layers = [s \in Slots |-> NoBatch]
    /\ batchRefs = {}
    /\ final = [x \in BatchSectors |-> "none"]
    /\ batchFaults = 0

-----------------------------------------------------------------------------
(* SlotMgr.                                                                *)

Available == {s \in Slots : slots[s].sectors = {}}

\* cond.Signal: the batch that holds inSDR may be asleep; there is no other.
Signal(on) == IF on THEN [b \in Batches |-> IF batch[b] = "asleep" THEN "get" ELSE batch[b]] ELSE batch

\* Get: the first free slot is filled; else the caller sleeps.
Get(b) ==
    /\ batch[b] = "get"
    /\ IF Available = {}
       THEN /\ batch' = [batch EXCEPT ![b] = "asleep"]
            /\ UNCHANGED <<slotOf, slots>>
       ELSE LET s == CHOOSE s \in Available : \A t \in Available : s <= t IN
            /\ slots' = [slots EXCEPT ![s] = [sectors |-> SectorsOf(b), work |-> TRUE]]
            /\ slotOf' = [slotOf EXCEPT ![b] = s]
            /\ batch' = [batch EXCEPT ![b] = "pc1"]
    /\ UNCHANGED <<inSDR, outSDR, layers, batchRefs, final, batchFaults>>

\* Mutant: the slots of running batches are watched too.
WatchAll(s) ==
    /\ slots[s].sectors # {}
    /\ slots' = [slots EXCEPT ![s].sectors = {x \in @ : [sector |-> x, slot |-> s] \in batchRefs}]
    /\ batch' = Signal(slots'[s].sectors = {})
    /\ UNCHANGED <<slotOf, inSDR, outSDR, layers, batchRefs, final, batchFaults>>

\* watchSingle, for one slot: sectors whose rows are gone are forgotten.
WatchSlot(s) ==
    /\ ~slots[s].work
    /\ slots[s].sectors # {}
    /\ slots' = [slots EXCEPT ![s].sectors = {x \in @ : [sector |-> x, slot |-> s] \in batchRefs}]
    /\ batch' = Signal(slots'[s].sectors = {})
    /\ UNCHANGED <<slotOf, inSDR, outSDR, layers, batchRefs, final, batchFaults>>

-----------------------------------------------------------------------------
(* SupraSeal.                                                              *)

\* schedule claims the sectors of a batch for a new task; batches are numbered
\* in this order.
Schedule(b) ==
    /\ batch[b] = "new"
    /\ \A c \in Batches : c < b => batch[c] # "new"
    /\ Available # {}
    /\ batch' = [batch EXCEPT ![b] = "queued"]
    /\ UNCHANGED <<slotOf, inSDR, outSDR, slots, layers, batchRefs, final, batchFaults>>

\* CanAccept, and Do up to inSDR.Lock.
StartBatch(b) ==
    /\ batch[b] = "queued"
    /\ Available # {}
    /\ Cardinality({c \in Batches : batch[c] \in Running}) < SlotCount
    /\ batch' = [batch EXCEPT ![b] = "enter"]
    /\ UNCHANGED <<slotOf, inSDR, outSDR, slots, layers, batchRefs, final, batchFaults>>

LockInSDR(b) ==
    /\ batch[b] = "enter"
    /\ inSDR = NoBatch
    /\ inSDR' = b
    /\ batch' = [batch EXCEPT ![b] = "get"]
    /\ UNCHANGED <<slotOf, outSDR, slots, layers, batchRefs, final, batchFaults>>

\* Pc1 writes the layers.
Pc1(b) ==
    /\ batch[b] = "pc1"
    /\ layers' = [layers EXCEPT ![slotOf[b]] = b]
    /\ inSDR' = NoBatch
    /\ batch' = [batch EXCEPT ![b] = "between"]
    /\ UNCHANGED <<slotOf, outSDR, slots, batchRefs, final, batchFaults>>

LockOutSDR(b) ==
    /\ batch[b] = "between"
    /\ outSDR = NoBatch
    /\ outSDR' = b
    /\ batch' = [batch EXCEPT ![b] = "pc2"]
    /\ UNCHANGED <<slotOf, inSDR, slots, layers, batchRefs, final, batchFaults>>

\* Pc2, the batch files and the declarations, which leave the layers alone;
\* then the transaction: the sectors go on, each with a row that names the slot.
Pc2(b) ==
    /\ batch[b] = "pc2"
    /\ batchRefs' = batchRefs \cup {[sector |-> x, slot |-> slotOf[b]] : x \in SectorsOf(b)}
    /\ final' = [x \in BatchSectors |-> IF x \in SectorsOf(b) THEN "ready" ELSE final[x]]
    /\ batch' = [batch EXCEPT ![b] = "mark"]
    /\ UNCHANGED <<slotOf, inSDR, outSDR, slots, layers, batchFaults>>

MarkWorkDone(b) ==
    /\ batch[b] = "mark"
    /\ slots' = [slots EXCEPT ![slotOf[b]].work = FALSE]
    /\ slotOf' = [slotOf EXCEPT ![b] = 0]
    /\ outSDR' = NoBatch
    /\ batch' = [batch EXCEPT ![b] = "sealed"]
    /\ UNCHANGED <<inSDR, layers, batchRefs, final, batchFaults>>

\* Mutant: a first phase that fails is not unlocked.
BatchFailsLocked(b) ==
    /\ batch[b] \in {"pc1", "pc2"}
    /\ batchFaults < MaxBatchFaults
    /\ batchFaults' = batchFaults + 1
    /\ layers' = IF batch[b] = "pc1" THEN [layers EXCEPT ![slotOf[b]] = NoBatch] ELSE layers
    /\ slots' = [slots EXCEPT ![slotOf[b]] = NoWork]
    /\ batch' = [Signal(TRUE) EXCEPT ![b] = "queued"]
    /\ slotOf' = [slotOf EXCEPT ![b] = 0]
    /\ outSDR' = IF batch[b] = "pc2" THEN NoBatch ELSE outSDR
    /\ UNCHANGED <<inSDR, batchRefs, final>>

\* A phase, stillOwned or the transaction fails.  The deferred cleanup aborts
\* the slot and unlocks the phase; the task is offered again.  A transaction of
\* pc2 that is reported as failed was not applied: the abort of a slot whose
\* references were committed after all is left out.
BatchFails(b) ==
    /\ batch[b] \in {"pc1", "pc2"}
    /\ batchFaults < MaxBatchFaults
    /\ batchFaults' = batchFaults + 1
    /\ layers' = IF batch[b] = "pc1" THEN [layers EXCEPT ![slotOf[b]] = NoBatch] ELSE layers
    /\ slots' = [slots EXCEPT ![slotOf[b]] = NoWork]
    /\ batch' = [Signal(TRUE) EXCEPT ![b] = "queued"]
    /\ slotOf' = [slotOf EXCEPT ![b] = 0]
    /\ IF batch[b] = "pc1" THEN inSDR' = NoBatch /\ UNCHANGED outSDR
                           ELSE outSDR' = NoBatch /\ UNCHANGED inSDR
    /\ UNCHANGED <<batchRefs, final>>

-----------------------------------------------------------------------------
(* Finalize.                                                               *)

\* After the proof: Do reads the sector's row, if it has one.  The proof waits
\* for the precommit's randomness, 150 epochs; MarkWorkDone does not.
StartFinalize(x) ==
    /\ final[x] = "ready"
    /\ batch[x[1]] = "sealed"
    /\ Cardinality({y \in BatchSectors : final[y] \in {"finalize", "done", "update"}}) < FinalizeMax
    /\ final' = [final EXCEPT ![x] = IF \E r \in batchRefs : r.sector = x THEN "finalize" ELSE "update"]
    /\ UNCHANGED <<batch, slotOf, inSDR, outSDR, slots, layers, batchRefs, batchFaults>>

\* FinalizeSector, and the DELETE of SectorDone.
DeleteRef(x) ==
    /\ final[x] = "finalize"
    /\ batchRefs' = {r \in batchRefs : r.sector # x}
    /\ final' = [final EXCEPT ![x] = "done"]
    /\ UNCHANGED <<batch, slotOf, inSDR, outSDR, slots, layers, batchFaults>>

\* The rest of SectorDone, under the lock.  When watching has already taken
\* the sector from its slot, it has signalled too.
SectorDone(x) ==
    /\ final[x] = "done"
    /\ slots' = [s \in Slots |-> [slots[s] EXCEPT !.sectors = @ \ {x}]]
    /\ batch' = Signal(\E s \in Slots : x \in slots[s].sectors /\ slots'[s].sectors = {})
    /\ final' = [final EXCEPT ![x] = "update"]
    /\ UNCHANGED <<slotOf, inSDR, outSDR, layers, batchRefs, batchFaults>>

\* after_finalize.
FinishFinalize(x) ==
    /\ final[x] = "update"
    /\ final' = [final EXCEPT ![x] = "finalized"]
    /\ UNCHANGED <<batch, slotOf, inSDR, outSDR, slots, layers, batchRefs, batchFaults>>

\* A call of Do fails and the task is offered again.
FinalizeFails(x) ==
    /\ final[x] \in {"finalize", "update"}
    /\ batchFaults < MaxBatchFaults
    /\ batchFaults' = batchFaults + 1
    /\ final' = [final EXCEPT ![x] = "ready"]
    /\ UNCHANGED <<batch, slotOf, inSDR, outSDR, slots, layers, batchRefs>>

-----------------------------------------------------------------------------
(* The machine and its operator.                                           *)

\* SectorRemove deletes the rows of a sector; the slot learns it by watching.
SectorRemove(x) ==
    /\ final[x] = "ready"
    /\ batch[x[1]] = "sealed"
    /\ batchFaults < MaxBatchFaults
    /\ batchFaults' = batchFaults + 1
    /\ batchRefs' = {r \in batchRefs : r.sector # x}
    /\ final' = [final EXCEPT ![x] = "finalized"]
    /\ UNCHANGED <<batch, slotOf, inSDR, outSDR, slots, layers>>

\* NewSlotMgr loads the rows; tasks that were running are offered again.  One
\* that had committed finds no sectors and fails until it is dropped.
RestartMachine ==
    /\ batchFaults < MaxBatchFaults
    /\ batchFaults' = batchFaults + 1
    /\ batch' = [b \in Batches |-> IF batch[b] = "mark" THEN "sealed"
                                   ELSE IF batch[b] \in Running THEN "queued" ELSE batch[b]]
    /\ slotOf' = [b \in Batches |-> 0]
    /\ inSDR' = NoBatch
    /\ outSDR' = NoBatch
    /\ slots' = [s \in Slots |-> [sectors |-> {r.sector : r \in {q \in batchRefs : q.slot = s}}, work |-> FALSE]]
    /\ layers' = [s \in Slots |-> IF \E b \in Batches : batch[b] = "pc1" /\ slotOf[b] = s THEN NoBatch ELSE layers[s]]
    /\ final' = [x \in BatchSectors |-> IF final[x] \in {"finalize", "done", "update"} THEN "ready" ELSE final[x]]
    /\ UNCHANGED batchRefs

BatchNext ==
    \/ \E b \in Batches :
          \/ Get(b)
          \/ Schedule(b)
          \/ StartBatch(b)
          \/ LockInSDR(b)
          \/ Pc1(b)
          \/ LockOutSDR(b)
          \/ Pc2(b)
          \/ MarkWorkDone(b)
          \/ BatchFails(b)
    \/ \E s \in Slots : WatchSlot(s)
    \/ \E x \in BatchSectors :
          \/ StartFinalize(x)
          \/ DeleteRef(x)
          \/ SectorDone(x)
          \/ FinishFinalize(x)
          \/ FinalizeFails(x)
          \/ SectorRemove(x)
    \/ RestartMachine

BatchSpec == BatchInit /\ [][BatchNext]_batchVars

-----------------------------------------------------------------------------
(* The layers that batch_sector_refs says are in a slot are there: no other *)
(* batch is sealed into the slot while a sector still needs them, though    *)
(* phases and tasks fail, sectors are removed and the machine restarts.  (A *)
(* commit of unknown outcome at pc2 is left out, see BatchFails.)           *)
LayersIntact == \A r \in batchRefs : layers[r.slot] = r.sector[1]

(* A batch whose sectors are claimed is sealed: the mutexes, the slots and  *)
(* the finalize tasks that free them never wait for one another for ever,   *)
(* and no wake-up is lost.                                                  *)
EveryBatchSeals == \A b \in Batches : []<>(batch[b] \in {"new", "sealed"})
=============================================================================

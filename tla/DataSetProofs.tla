---------------------------- MODULE DataSetProofs ----------------------------
(***************************************************************************)
(* Proofs about the deletion of a PDP v0 data set (DataSetDeletion), for   *)
(* every number of tasks, messages, piece slots and faults: nothing is     *)
(* done to the set before its time, and its row of pdp_delete_data_set     *)
(* goes only with it.                                                      *)
(***************************************************************************)
EXTENDS DataSetDeletion, DataSetProving, WellFoundedInduction, TLAPS
-----------------------------------------------------------------------------
(* The inductive invariant.                                                *)

\* The row: the end of the service is known only after it was terminated, the
\* task of a client's request goes when its message is recorded, the set may be
\* deleted only when its rail is settled, and only then has it a task for that.
RowShape(r) ==
    /\ r.epoch => r.afterTerminate
    /\ r.clientTask # None => (r.client /\ ~r.afterTerminate)
    /\ r.allowed => service = "final"
    /\ r.task["delete"] # None => r.allowed

\* The messages the row waits for are there, and nobody will send them again.
TxsHeld(r) == \A s \in Stages : r.tx[s] # None => (dsTx[r.tx[s]].kind = s /\ dsTx[r.tx[s]].wait # "none")

DeletionRowOK == dsRow.there => (RowShape(dsRow) /\ TxsHeld(dsRow))

\* A task: only one that has just sent a message holds it, alone.
TaskOK(t) ==
    LET d == dsTask[t] IN
    /\ d.tx # None => (d.at = "commit" /\ dsTx[d.tx].kind = d.stage /\ dsTx[d.tx].wait = "none")
    /\ d.at = "commit" => d.tx # None
    /\ d.at # "none" => d.stage \in Stages
    /\ (d.at = "send" /\ d.stage = "delete") => service = "final"

TasksDiffer == \A t, u \in DsTasks : (t # u /\ dsTask[t].tx # None) => dsTask[t].tx # dsTask[u].tx

\* A message: confirmed only when it was executed, and sent only in its time.
TxOK(m) ==
    LET x == dsTx[m] IN
    /\ x.wait \in {"done", "collected"} => x.done # "no"
    /\ (x.kind = "terminate" /\ x.done = "ok") => service # "active"
    /\ x.kind = "delete" => service = "final"
    /\ x.kind = "cleanup" => verifier # "live"

WaitFor(w) == IF w = "sync" THEN "collected" ELSE "done"

\* What a watcher has read: its message stays what it was, and so does the row
\* as long as it waits for that message.
SeenOK(w) ==
    LET x == dsSeen[w] IN
    x # Nothing =>
        /\ x.stage \in Stages /\ x.tx \in DsTxs
        /\ dsTx[x.tx].kind = x.stage /\ dsTx[x.tx].wait = WaitFor(w)
        /\ (dsRow.there /\ dsRow.tx[x.stage] = x.tx) => x.client = dsRow.client
        /\ (x.stage = "terminate" /\ x.service = "active" /\ ~x.ok) => dsTx[x.tx].done = "failed"
        /\ x.verifier = "gone" => verifier = "gone"

DsInv ==
    /\ DeletionTypeOK
    /\ DeletionRowOK
    /\ \A t \in DsTasks : TaskOK(t)
    /\ TasksDiffer
    /\ \A m \in DsTxs : TxOK(m)
    /\ \A w \in Reconcilers : SeenOK(w)
    /\ dsLocal = "gone" => verifier = "gone"

-----------------------------------------------------------------------------
(* The columns of the row.                                                 *)

\* q is r with columns changed, and with no task or message that r has not.
Narrows(q, r) ==
    /\ q \in Rows /\ q.there /\ q.client = r.client
    /\ \A s \in Stages : (q.task[s] = r.task[s] \/ q.task[s] = None) /\ (q.tx[s] = r.tx[s] \/ q.tx[s] = None)

LEMMA StageNames == Stages = {"terminate", "delete", "cleanup"} /\ "none" \notin Stages
  BY DEF Stages

LEMMA RowColumns ==
    ASSUME NEW r \in Rows
    PROVE  /\ r.there /\ r.client \in BOOLEAN /\ r.clientTask \in DsTasks \cup {None}
           /\ r.task \in [Stages -> DsTasks \cup {None}] /\ r.tx \in [Stages -> DsTxs \cup {None}]
           /\ r.epoch \in BOOLEAN /\ r.allowed \in BOOLEAN
  BY DEF Rows

LEMMA NewRowIs ==
    ASSUME NEW c \in BOOLEAN, NEW q, q = NewRow(c)
    PROVE  q \in Rows /\ q.there /\ q.client = c /\ RowShape(q) /\ \A s \in Stages : q.tx[s] = None
<1> DEFINE f == [s \in Stages |-> None]
<1>1. q = [there |-> TRUE, client |-> c, clientTask |-> None, task |-> f, tx |-> f,
           afterTerminate |-> FALSE, epoch |-> FALSE, allowed |-> FALSE, afterDelete |-> FALSE]
  BY DEF NewRow
<1>2. f \in [Stages -> DsTasks \cup {None}] /\ f \in [Stages -> DsTxs \cup {None}] /\ \A s \in Stages : f[s] = None
  OBVIOUS
<1> HIDE DEF f
<1>3. q \in Rows
  BY <1>1, <1>2 DEF Rows
<1>4. /\ q.there /\ q.client = c /\ q.clientTask = None /\ ~q.epoch /\ ~q.afterTerminate /\ ~q.allowed /\ q.task = f /\ q.tx = f
  BY <1>1
<1> QED
  BY <1>2, <1>3, <1>4, StageNames DEF RowShape

LEMMA AllowedIs ==
    ASSUME dsRow \in Rows, RowShape(dsRow), service = "final", NEW q, q = [dsRow EXCEPT !.allowed = TRUE]
    PROVE  Narrows(q, dsRow) /\ RowShape(q)
<1>1. /\ q \in Rows /\ q.allowed /\ q.there /\ q.client = dsRow.client /\ q.clientTask = dsRow.clientTask
      /\ q.epoch = dsRow.epoch /\ q.afterTerminate = dsRow.afterTerminate /\ q.task = dsRow.task /\ q.tx = dsRow.tx
  BY DEF Rows
<1> QED
  BY <1>1 DEF Narrows, RowShape

LEMMA AfterTerminateIs ==
    ASSUME dsRow \in Rows, RowShape(dsRow), NEW m \in DsTxs \cup {None}, NEW e \in BOOLEAN, NEW q, q = AfterTerminate(m, e)
    PROVE  /\ q \in Rows /\ q.there /\ q.client = dsRow.client /\ RowShape(q)
           /\ \A s \in Stages : q.task[s] = dsRow.task[s] \/ q.task[s] = None
           /\ q.tx["terminate"] = m /\ \A s \in Stages \ {"terminate"} : q.tx[s] = dsRow.tx[s]
<1>1. /\ q \in Rows /\ q.there /\ q.client = dsRow.client /\ q.clientTask = None /\ q.epoch = e /\ q.afterTerminate
      /\ q.allowed = dsRow.allowed /\ q.task = [dsRow.task EXCEPT !["terminate"] = None]
      /\ q.tx = [dsRow.tx EXCEPT !["terminate"] = m]
  BY DEF Rows, AfterTerminate, Stages
<1>2. /\ \A s \in Stages : q.task[s] = dsRow.task[s] \/ q.task[s] = None
      /\ q.tx["terminate"] = m /\ \A s \in Stages \ {"terminate"} : q.tx[s] = dsRow.tx[s]
  BY <1>1, RowColumns, StageNames
<1> QED
  BY <1>1, <1>2, StageNames DEF RowShape

LEMMA AfterDeleteIs ==
    ASSUME dsRow \in Rows, RowShape(dsRow), NEW m \in DsTxs \cup {None}, NEW q,
           q = AfterDelete(m) \/ q = [AfterDelete(m) EXCEPT !.afterDelete = FALSE]
    PROVE  /\ q \in Rows /\ q.there /\ q.client = dsRow.client /\ RowShape(q)
           /\ \A s \in Stages : q.task[s] = dsRow.task[s] \/ q.task[s] = None
           /\ q.tx["delete"] = m /\ \A s \in Stages \ {"delete"} : q.tx[s] = dsRow.tx[s]
<1>1. /\ q \in Rows /\ q.there /\ q.client = dsRow.client /\ q.clientTask = dsRow.clientTask
      /\ q.epoch = dsRow.epoch /\ q.afterTerminate = dsRow.afterTerminate
      /\ q.allowed = dsRow.allowed /\ q.task = [dsRow.task EXCEPT !["delete"] = None]
      /\ q.tx = [dsRow.tx EXCEPT !["delete"] = m]
  <2>1. PICK p : p = AfterDelete(m)
    OBVIOUS
  <2>2. /\ p \in Rows /\ p.there /\ p.client = dsRow.client /\ p.clientTask = dsRow.clientTask
        /\ p.epoch = dsRow.epoch /\ p.afterTerminate = dsRow.afterTerminate
        /\ p.allowed = dsRow.allowed /\ p.task = [dsRow.task EXCEPT !["delete"] = None]
        /\ p.tx = [dsRow.tx EXCEPT !["delete"] = m]
    BY <2>1 DEF Rows, AfterDelete, Stages
  <2>3. CASE q = [p EXCEPT !.afterDelete = FALSE]
    <3>1. p \in Rows
      BY <2>2
    <3>2. /\ q \in Rows /\ q.there /\ q.client = p.client /\ q.clientTask = p.clientTask
          /\ q.epoch = p.epoch /\ q.afterTerminate = p.afterTerminate
          /\ q.allowed = p.allowed /\ q.task = p.task /\ q.tx = p.tx
      BY <2>3, <3>1 DEF Rows
    <3> QED
      BY <2>2, <3>2
  <2> QED
    BY <2>1, <2>2, <2>3
<1>2. /\ \A s \in Stages : q.task[s] = dsRow.task[s] \/ q.task[s] = None
      /\ q.tx["delete"] = m /\ \A s \in Stages \ {"delete"} : q.tx[s] = dsRow.tx[s]
  BY <1>1, RowColumns, StageNames
<1> QED
  BY <1>1, <1>2, StageNames DEF RowShape

LEMMA AfterCleanupIs ==
    ASSUME dsRow \in Rows, RowShape(dsRow), NEW m \in DsTxs \cup {None}, NEW q, q = AfterCleanup(m)
    PROVE  /\ q \in Rows /\ q.there /\ q.client = dsRow.client /\ RowShape(q)
           /\ \A s \in Stages : q.task[s] = dsRow.task[s] \/ q.task[s] = None
           /\ q.tx["cleanup"] = m /\ \A s \in Stages \ {"cleanup"} : q.tx[s] = dsRow.tx[s]
<1>1. /\ q \in Rows /\ q.there /\ q.client = dsRow.client /\ q.clientTask = dsRow.clientTask
      /\ q.epoch = dsRow.epoch /\ q.afterTerminate = dsRow.afterTerminate
      /\ q.allowed = dsRow.allowed /\ q.task = [dsRow.task EXCEPT !["cleanup"] = None]
      /\ q.tx = [dsRow.tx EXCEPT !["cleanup"] = m]
  BY DEF Rows, AfterCleanup, Stages
<1>2. /\ \A s \in Stages : q.task[s] = dsRow.task[s] \/ q.task[s] = None
      /\ q.tx["cleanup"] = m /\ \A s \in Stages \ {"cleanup"} : q.tx[s] = dsRow.tx[s]
  BY <1>1, RowColumns, StageNames
<1> QED
  BY <1>1, <1>2, StageNames DEF RowShape

LEMMA BackToDeleteIs ==
    ASSUME dsRow \in Rows, RowShape(dsRow), NEW q, q = BackToDelete
    PROVE  Narrows(q, dsRow) /\ RowShape(q)
<1>1. PICK c : c = AfterCleanup(None)
  OBVIOUS
<1>2. /\ c \in Rows /\ c.there /\ c.client = dsRow.client /\ RowShape(c)
      /\ \A s \in Stages : c.task[s] = dsRow.task[s] \/ c.task[s] = None
      /\ c.tx["cleanup"] = None /\ \A s \in Stages \ {"cleanup"} : c.tx[s] = dsRow.tx[s]
  BY <1>1, AfterCleanupIs
<1>3. q = [c EXCEPT !.afterDelete = FALSE, !.tx["delete"] = None, !.task["delete"] = None]
  BY <1>1 DEF BackToDelete
<1>4. /\ q \in Rows /\ q.there /\ q.client = c.client /\ q.clientTask = c.clientTask
      /\ q.epoch = c.epoch /\ q.afterTerminate = c.afterTerminate
      /\ q.allowed = c.allowed /\ q.task = [c.task EXCEPT !["delete"] = None]
      /\ q.tx = [c.tx EXCEPT !["delete"] = None]
  <2>1. c \in Rows
    BY <1>2
  <2>2. PICK f \in [Stages -> DsTasks \cup {None}] : f = [c.task EXCEPT !["delete"] = None]
    BY <2>1, RowColumns
  <2>3. PICK g \in [Stages -> DsTxs \cup {None}] : g = [c.tx EXCEPT !["delete"] = None]
    BY <2>1, RowColumns
  <2>4. q = [c EXCEPT !.afterDelete = FALSE, !.tx = g, !.task = f]
    BY <1>3, <2>2, <2>3
  <2> QED
    BY <2>1, <2>2, <2>3, <2>4 DEF Rows
<1>5. \A s \in Stages : (q.task[s] = dsRow.task[s] \/ q.task[s] = None) /\ (q.tx[s] = dsRow.tx[s] \/ q.tx[s] = None)
  BY <1>2, <1>4, RowColumns, StageNames
<1>6. q.task["delete"] = None
  BY <1>2, <1>4, RowColumns, StageNames
<1> QED
  BY <1>2, <1>4, <1>5, <1>6 DEF Narrows, RowShape

LEMMA TerminateAgain ==
    ASSUME dsRow \in Rows, RowShape(dsRow), ~dsRow.epoch, ~dsRow.client, NEW q,
           q = [dsRow EXCEPT !.tx["terminate"] = None, !.afterTerminate = FALSE, !.task["terminate"] = None]
    PROVE  Narrows(q, dsRow) /\ RowShape(q)
<1>1. /\ q \in Rows /\ q.there /\ q.client = dsRow.client /\ q.clientTask = dsRow.clientTask
      /\ q.epoch = dsRow.epoch /\ ~q.afterTerminate
      /\ q.allowed = dsRow.allowed /\ q.task = [dsRow.task EXCEPT !["terminate"] = None]
      /\ q.tx = [dsRow.tx EXCEPT !["terminate"] = None]
  BY DEF Rows, Stages
<1>2. \A s \in Stages : (q.task[s] = dsRow.task[s] \/ q.task[s] = None) /\ (q.tx[s] = dsRow.tx[s] \/ q.tx[s] = None)
  BY <1>1, RowColumns, StageNames
<1> QED
  BY <1>1, <1>2, StageNames DEF Narrows, RowShape

LEMMA TaskDeletedIs ==
    ASSUME dsRow \in Rows, RowShape(dsRow), NEW t, dsRow.clientTask # t, NEW q, q = TaskDeleted(t)
    PROVE  Narrows(q, dsRow) /\ RowShape(q)
<1> DEFINE f == [s \in Stages |-> IF dsRow.task[s] = t THEN None ELSE dsRow.task[s]]
<1>1. q = [dsRow EXCEPT !.task = f]
  BY RowColumns DEF TaskDeleted
<1>2. f \in [Stages -> DsTasks \cup {None}] /\ \A s \in Stages : f[s] = dsRow.task[s] \/ f[s] = None
  BY RowColumns
<1> HIDE DEF f
<1>3. /\ q \in Rows /\ q.there /\ q.client = dsRow.client /\ q.clientTask = dsRow.clientTask
      /\ q.epoch = dsRow.epoch /\ q.afterTerminate = dsRow.afterTerminate
      /\ q.allowed = dsRow.allowed /\ q.task = f /\ q.tx = dsRow.tx
  BY <1>1, <1>2 DEF Rows
<1> QED
  BY <1>2, <1>3, StageNames DEF Narrows, RowShape

LEMMA ScheduledIs ==
    ASSUME dsRow \in Rows, RowShape(dsRow), NEW stage \in Stages, Due(stage), NEW t \in DsTasks, NEW q,
           q = [dsRow EXCEPT !.task[stage] = t,
                             !.clientTask = IF stage = "terminate" /\ dsRow.client THEN t ELSE @]
    PROVE  q \in Rows /\ q.there /\ q.client = dsRow.client /\ RowShape(q) /\ q.tx = dsRow.tx
<1> DEFINE c == IF stage = "terminate" /\ dsRow.client THEN t ELSE dsRow.clientTask
<1>1. c \in DsTasks \cup {None}
  BY RowColumns
<1>2. q = [dsRow EXCEPT !.task[stage] = t, !.clientTask = c]
  OBVIOUS
<1>3. c # None => (c = dsRow.clientTask \/ (stage = "terminate" /\ dsRow.client))
  OBVIOUS
<1> HIDE DEF c
<1>4. /\ q \in Rows /\ q.there /\ q.client = dsRow.client /\ q.clientTask = c
      /\ q.epoch = dsRow.epoch /\ q.afterTerminate = dsRow.afterTerminate
      /\ q.allowed = dsRow.allowed /\ q.task = [dsRow.task EXCEPT ![stage] = t] /\ q.tx = dsRow.tx
  <2>1. PICK f \in [Stages -> DsTasks \cup {None}] : f = [dsRow.task EXCEPT ![stage] = t]
    BY RowColumns
  <2>2. q = [dsRow EXCEPT !.task = f, !.clientTask = c]
    BY <1>2, <2>1
  <2> QED
    BY <1>1, <2>1, <2>2 DEF Rows
<1>5. stage = "terminate" => ~dsRow.afterTerminate
  BY DEF Due
<1>6. stage = "delete" => dsRow.allowed
  BY DEF Due
<1>7. q.task["delete"] # None => q.allowed
  BY <1>4, <1>6, RowColumns, StageNames DEF RowShape
<1> QED
  BY <1>3, <1>4, <1>5, <1>7 DEF RowShape

-----------------------------------------------------------------------------
(* What a step keeps.                                                      *)

LocalType == {"proved", "unprovable", "gone"}
TxType   == [kind : Stages \cup {"none"}, done : {"no", "ok", "failed"}, wait : {"none", "pending", "done", "collected"}]
TaskType == [stage : Stages \cup {"none"}, at : {"none", "read", "send", "commit", "finish"}, tx : DsTxs \cup {None}]
SeenType == [stage : Stages \cup {"none"}, tx : DsTxs \cup {None}, client : BOOLEAN, ok : BOOLEAN,
             service : {"active", "ending", "ended", "final"}, verifier : {"live", "cleanup", "gone", "unknown"}]

ChainType ==
    /\ service \in {"active", "ending", "ended", "final"} /\ verifier \in {"live", "cleanup", "gone"}
    /\ pieceSlots \in 0..MaxSlots

LEMMA DsTyped ==
    ASSUME DsInv
    PROVE  /\ ChainType /\ dsTx \in [DsTxs -> TxType] /\ dsRow \in Rows \cup {NoDsRow} /\ dsLocal \in LocalType
           /\ dsTask \in [DsTasks -> TaskType] /\ dsSeen \in [Reconcilers -> SeenType] /\ dsFaults \in 0..MaxDsFaults
  BY DEF DsInv, DeletionTypeOK, ChainType, LocalType, TxType, TaskType, SeenType

LEMMA DsTypedNext ==
    ASSUME ChainType', dsTx' \in [DsTxs -> TxType], dsRow' \in Rows \cup {NoDsRow}, dsLocal' \in LocalType,
           dsTask' \in [DsTasks -> TaskType], dsSeen' \in [Reconcilers -> SeenType], dsFaults' \in 0..MaxDsFaults
    PROVE  DeletionTypeOK'
  BY DEF DeletionTypeOK, ChainType, LocalType, TxType, TaskType, SeenType

LEMMA RowIsThere ==
    ASSUME DsInv
    PROVE  /\ dsRow.there => (dsRow \in Rows /\ RowShape(dsRow) /\ TxsHeld(dsRow))
           /\ ~dsRow.there => dsRow = NoDsRow
           /\ ~NoDsRow.there
<1>1. ~NoDsRow.there
  BY DEF NoDsRow
<1> QED
  BY <1>1, DsTyped, RowColumns DEF DsInv, DeletionRowOK

LEMMA TxNames == None \notin DsTxs /\ None \notin DsTasks
  BY DeletionAssumption DEF DeletionAssumption, None, DsTxs, DsTasks

\* The chain never goes back.
ChainMoves ==
    /\ service = "final" => service' = "final"
    /\ service # "active" => service' # "active"
    /\ verifier # "live" => verifier' # "live"
    /\ verifier = "gone" => verifier' = "gone"

ChainStays == service' = service /\ verifier' = verifier /\ pieceSlots' = pieceSlots

LEMMA StaysMoves == ChainStays => (ChainMoves /\ (ChainType => ChainType'))
  BY DEF ChainStays, ChainMoves, ChainType

TxStays(m) ==
    /\ dsTx'[m].kind = dsTx[m].kind /\ dsTx'[m].wait = dsTx[m].wait
    /\ dsTx[m].done # "no" => dsTx'[m].done = dsTx[m].done

\* The row has only messages that it had, or is a new one.
RowNarrows ==
    dsRow'.there => \A s \in Stages :
        dsRow'.tx[s] = None \/ (dsRow.there /\ dsRow'.tx[s] = dsRow.tx[s] /\ dsRow'.client = dsRow.client)

LEMMA KeptTask ==
    ASSUME DsInv, ChainMoves, NEW t \in DsTasks, dsTask'[t] = dsTask[t], dsTask[t].tx # None => TxStays(dsTask[t].tx)
    PROVE  TaskOK(t)'
<1>1. TaskOK(t)
  BY DEF DsInv
<1> QED
  BY <1>1 DEF TaskOK, ChainMoves, TxStays

LEMMA KeptTx ==
    ASSUME DsInv, ChainMoves, NEW m \in DsTxs, dsTx'[m] = dsTx[m]
    PROVE  TxOK(m)'
<1>1. TxOK(m)
  BY DEF DsInv
<1> QED
  BY <1>1 DEF TxOK, ChainMoves

LEMMA KeptSeen ==
    ASSUME DsInv, ChainMoves, NEW w \in Reconcilers, dsSeen'[w] = dsSeen[w], dsSeen[w] # Nothing => TxStays(dsSeen[w].tx),
           \A s \in Stages : (dsRow'.there /\ dsRow'.tx[s] = dsSeen[w].tx /\ dsSeen[w].tx # None) =>
              (dsRow.there /\ dsRow.tx[s] = dsSeen[w].tx /\ dsRow'.client = dsRow.client)
    PROVE  SeenOK(w)'
<1> SUFFICES ASSUME dsSeen[w] # Nothing PROVE SeenOK(w)'
  BY DEF SeenOK
<1>1. SeenOK(w) /\ dsSeen[w].tx # None
  BY TxNames DEF DsInv, SeenOK
<1> QED
  BY <1>1 DEF SeenOK, ChainMoves, TxStays, WaitFor

LEMMA KeptRow ==
    ASSUME DsInv, ChainMoves, dsRow' = dsRow, \A s \in Stages : (dsRow.there /\ dsRow.tx[s] # None) => TxStays(dsRow.tx[s])
    PROVE  DeletionRowOK'
<1> SUFFICES ASSUME dsRow.there PROVE RowShape(dsRow)' /\ TxsHeld(dsRow)'
  BY DEF DeletionRowOK
<1>1. RowShape(dsRow) /\ TxsHeld(dsRow)
  BY RowIsThere
<1> QED
  BY <1>1 DEF RowShape, TxsHeld, ChainMoves, TxStays

\* A new version of the row with messages it had.
LEMMA NarrowerRow ==
    ASSUME DsInv, ChainStays, dsTx' = dsTx, NEW q, dsRow' = q, dsRow.there, Narrows(q, dsRow), RowShape(q)
    PROVE  dsRow' \in Rows /\ dsRow'.there /\ DeletionRowOK' /\ RowNarrows
<1>1. RowShape(dsRow)'
  BY DEF RowShape, ChainStays
<1>2. TxsHeld(dsRow)'
  BY RowIsThere DEF TxsHeld, Narrows
<1> QED
  BY <1>1, <1>2 DEF DeletionRowOK, RowNarrows, Narrows

\* A step that changes the row alone, or the tasks with it.
LEMMA RowStep ==
    ASSUME DsInv, ChainStays, dsTx' = dsTx, dsSeen' = dsSeen, dsFaults' \in 0..MaxDsFaults,
           dsRow' \in Rows \cup {NoDsRow}, DeletionRowOK', RowNarrows,
           dsLocal' \in LocalType, dsLocal' = "gone" => verifier = "gone",
           dsTask' \in [DsTasks -> TaskType],
           \A t \in DsTasks : dsTask'[t] # dsTask[t] => (TaskOK(t)' /\ dsTask'[t].tx = None)
    PROVE  DsInv'
<1>1. ChainMoves /\ ChainType'
  BY DsTyped, StaysMoves
<1>2. DeletionTypeOK'
  BY <1>1, DsTyped, DsTypedNext
<1>3. \A m \in DsTxs : TxOK(m)' /\ TxStays(m)
  BY <1>1, KeptTx DEF TxStays
<1>4. \A t \in DsTasks : TaskOK(t)'
  <2>1. \A t \in DsTasks : dsTask[t].tx # None => dsTask[t].tx \in DsTxs
    BY DsTyped DEF TaskType
  <2> QED
    BY <1>1, <1>3, <2>1, KeptTask
<1>5. TasksDiffer'
  BY DEF DsInv, TasksDiffer
<1>6. \A w \in Reconcilers : SeenOK(w)'
  <2>1. \A w \in Reconcilers : dsSeen[w] # Nothing => dsSeen[w].tx \in DsTxs
    BY DEF DsInv, SeenOK
  <2>2. \A s \in Stages : \A m : (dsRow'.there /\ dsRow'.tx[s] = m /\ m # None) =>
          (dsRow.there /\ dsRow.tx[s] = m /\ dsRow'.client = dsRow.client)
    BY DEF RowNarrows
  <2> QED
    BY <1>1, <1>3, <2>1, <2>2, KeptSeen
<1>7. dsLocal' = "gone" => verifier' = "gone"
  BY DEF ChainStays
<1> QED
  BY <1>2, <1>3, <1>4, <1>5, <1>6, <1>7 DEF DsInv

\* A step of the chain.
LEMMA ChainStep ==
    ASSUME DsInv, ChainMoves, ChainType', dsTx' \in [DsTxs -> TxType], \A m \in DsTxs : TxOK(m)',
           dsRow' = dsRow, dsLocal' = dsLocal, dsTask' = dsTask, dsSeen' = dsSeen, dsFaults' = dsFaults,
           \A m \in DsTxs : TxStays(m) \/ (dsTx[m].wait = "none" /\ \A t \in DsTasks : dsTask[t].tx # m)
    PROVE  DsInv'
<1>1. DeletionTypeOK'
  BY DsTyped, DsTypedNext
<1>2. \A t \in DsTasks : TaskOK(t)'
  <2>1. \A t \in DsTasks : dsTask[t].tx # None => dsTask[t].tx \in DsTxs
    BY DsTyped DEF TaskType
  <2> QED
    BY <2>1, KeptTask
<1>3. \A w \in Reconcilers : SeenOK(w)'
  <2>1. \A w \in Reconcilers : dsSeen[w] # Nothing => (dsSeen[w].tx \in DsTxs /\ dsTx[dsSeen[w].tx].wait # "none")
    BY DEF DsInv, SeenOK, WaitFor
  <2> QED
    BY <2>1, KeptSeen
<1>4. DeletionRowOK'
  <2>1. \A s \in Stages : (dsRow.there /\ dsRow.tx[s] # None) => (dsRow.tx[s] \in DsTxs /\ dsTx[dsRow.tx[s]].wait # "none")
    BY RowIsThere, RowColumns DEF TxsHeld
  <2> QED
    BY <2>1, KeptRow
<1>5. dsLocal' = "gone" => verifier' = "gone"
  BY DEF DsInv, ChainMoves
<1> QED
  BY <1>1, <1>2, <1>3, <1>4, <1>5 DEF DsInv, TasksDiffer

-----------------------------------------------------------------------------
(* The chain and the message watcher.                                      *)

LEMMA EffectMoves ==
    ASSUME ChainType, NEW k \in Stages, Accepts(k), Effect(k)
    PROVE  ChainMoves /\ ChainType' /\ (k = "terminate" => service' # "active")
<1> USE DEF Accepts, Effect, ChainMoves, ChainType
<1>1. CASE k = "terminate"
  BY <1>1
<1>2. CASE k = "delete"
  BY <1>2
<1>3. CASE k = "cleanup"
  <2>1. /\ verifier = "cleanup" /\ pieceSlots' \in 0..(pieceSlots - 1) /\ service' = service
        /\ verifier' = (IF pieceSlots' = 0 THEN "gone" ELSE "cleanup")
    BY <1>3
  <2>2. pieceSlots' \in 0..MaxSlots
    BY <2>1, DeletionAssumption DEF DeletionAssumption
  <2> QED
    BY <1>3, <2>1, <2>2
<1> QED
  BY <1>1, <1>2, <1>3, StageNames

LEMMA ClockKeeps == ASSUME DsInv, ClientTerminates \/ EndEpochPasses \/ RailIsFinal PROVE DsInv'
<1>1. /\ verifier' = verifier /\ pieceSlots' = pieceSlots /\ dsTx' = dsTx /\ dsRow' = dsRow /\ dsLocal' = dsLocal
      /\ dsTask' = dsTask /\ dsSeen' = dsSeen /\ dsFaults' = dsFaults
      /\ service # "final" /\ service' \in {"ending", "ended", "final"}
  BY DEF ClientTerminates, EndEpochPasses, RailIsFinal
<1>2. ChainMoves /\ ChainType'
  BY <1>1, DsTyped DEF ChainMoves, ChainType
<1>3. \A m \in DsTxs : TxOK(m)' /\ TxStays(m)
  BY <1>1, <1>2, KeptTx DEF TxStays
<1> QED
  BY <1>1, <1>2, <1>3, DsTyped, ChainStep

LEMMA ElsewhereKeeps == ASSUME DsInv, NEW k \in Stages, SubmittedElsewhere(k) PROVE DsInv'
<1>1. /\ Accepts(k) /\ Effect(k) /\ dsTx' = dsTx /\ dsRow' = dsRow /\ dsLocal' = dsLocal
      /\ dsTask' = dsTask /\ dsSeen' = dsSeen /\ dsFaults' = dsFaults
  BY DEF SubmittedElsewhere
<1>2. ChainMoves /\ ChainType'
  BY <1>1, DsTyped, EffectMoves
<1>3. \A m \in DsTxs : TxOK(m)' /\ TxStays(m)
  BY <1>1, <1>2, KeptTx DEF TxStays
<1> QED
  BY <1>1, <1>2, <1>3, DsTyped, ChainStep

LEMMA TxFields ==
    ASSUME NEW x \in TxType
    PROVE  x.kind \in Stages \cup {"none"} /\ x.done \in {"no", "ok", "failed"} /\ x.wait \in {"none", "pending", "done", "collected"}
  BY DEF TxType

LEMMA TxDone ==
    ASSUME NEW x \in TxType, NEW v \in {"no", "ok", "failed"}, NEW q, q = [x EXCEPT !.done = v]
    PROVE  q \in TxType /\ q.kind = x.kind /\ q.wait = x.wait /\ q.done = v
  BY DEF TxType

LEMMA TxWait ==
    ASSUME NEW x \in TxType, NEW v \in {"none", "pending", "done", "collected"}, NEW q, q = [x EXCEPT !.wait = v]
    PROVE  q \in TxType /\ q.kind = x.kind /\ q.done = x.done /\ q.wait = v
  BY DEF TxType

LEMMA TxKind ==
    ASSUME NEW x \in TxType, NEW v \in Stages, NEW q, q = [x EXCEPT !.kind = v]
    PROVE  q \in TxType /\ q.kind = v /\ q.done = x.done /\ q.wait = x.wait
  BY DEF TxType

LEMMA UnsentIs == Unsent \in TxType /\ Unsent.kind = "none" /\ Unsent.done = "no" /\ Unsent.wait = "none"
  BY DEF Unsent, TxType

LEMMA ExecuteKeeps == ASSUME DsInv, NEW m \in DsTxs, Execute(m) PROVE DsInv'
<1>1. /\ dsRow' = dsRow /\ dsLocal' = dsLocal /\ dsTask' = dsTask /\ dsSeen' = dsSeen /\ dsFaults' = dsFaults
      /\ dsTx[m].kind # "none" /\ dsTx[m].done = "no"
  BY DEF Execute
<1>2. PICK k \in Stages : k = dsTx[m].kind
  BY <1>1, DsTyped, TxFields
<1>3. ChainMoves /\ ChainType' /\ ((Accepts(k) /\ k = "terminate") => service' # "active")
  <2>1. CASE Accepts(k)
    <3>1. Effect(k)
      BY <1>2, <2>1 DEF Execute
    <3> QED
      BY <2>1, <3>1, DsTyped, EffectMoves
  <2>2. CASE ~Accepts(k)
    <3>1. ChainStays
      BY <1>2, <2>2 DEF Execute, chainState, ChainStays
    <3> QED
      BY <2>2, <3>1, DsTyped, StaysMoves
  <2> QED
    BY <2>1, <2>2
<1>4. PICK v \in {"ok", "failed"} : v = (IF Accepts(k) THEN "ok" ELSE "failed")
  OBVIOUS
<1>5. PICK x : x = IF Untracked(m) THEN Unsent ELSE [dsTx[m] EXCEPT !.done = v]
  OBVIOUS
<1>6. dsTx' = [dsTx EXCEPT ![m] = x]
  BY <1>2, <1>4, <1>5 DEF Execute
<1>7. x \in TxType /\ (x = Unsent \/ (x.kind = k /\ x.wait = dsTx[m].wait /\ x.done = v))
  <2>1. CASE x = [dsTx[m] EXCEPT !.done = v]
    BY <1>2, <2>1, DsTyped, TxDone
  <2> QED
    BY <1>5, <2>1, UnsentIs
<1>8. dsTx' \in [DsTxs -> TxType] /\ dsTx'[m] = x /\ \A n \in DsTxs \ {m} : dsTx'[n] = dsTx[n]
  BY <1>6, <1>7, DsTyped
<1>9. \A n \in DsTxs \ {m} : TxOK(n)' /\ TxStays(n)
  BY <1>3, <1>8, KeptTx DEF TxStays
<1>10. TxOK(m)'
  <2>1. TxOK(m)
    BY DEF DsInv
  <2> QED
    BY <1>2, <1>3, <1>4, <1>7, <1>8, <2>1, UnsentIs DEF TxOK, ChainMoves
<1>11. TxStays(m) \/ (dsTx[m].wait = "none" /\ \A t \in DsTasks : dsTask[t].tx # m)
  BY <1>1, <1>2, <1>5, <1>7, <1>8, DsTyped, TxFields DEF TxStays, Untracked
<1> QED
  BY <1>1, <1>3, <1>8, <1>9, <1>10, <1>11, ChainStep

\* The receipt of a message that only the row waits for.
LEMMA WaitStep ==
    ASSUME DsInv, ChainStays, dsRow' = dsRow, dsLocal' = dsLocal, dsTask' = dsTask, dsSeen' = dsSeen, dsFaults' = dsFaults,
           NEW m \in DsTxs, NEW v \in {"done", "collected"}, dsTx' = [dsTx EXCEPT ![m].wait = v],
           dsTx[m].wait # "none", dsTx[m].done # "no",
           \A w \in Reconcilers : dsSeen[w] # Nothing => dsSeen[w].tx # m
    PROVE  DsInv'
<1>1. ChainMoves /\ ChainType'
  BY DsTyped, StaysMoves
<1>0. PICK x : x = [dsTx[m] EXCEPT !.wait = v]
  OBVIOUS
<1>2. x \in TxType /\ x.kind = dsTx[m].kind /\ x.done = dsTx[m].done /\ x.wait = v
  BY <1>0, DsTyped, TxWait
<1>3. dsTx' \in [DsTxs -> TxType] /\ dsTx'[m] = x /\ \A n \in DsTxs \ {m} : dsTx'[n] = dsTx[n]
  BY <1>0, <1>2, DsTyped
<1>4. DeletionTypeOK'
  BY <1>1, <1>3, DsTyped, DsTypedNext
<1>5. \A n \in DsTxs \ {m} : TxOK(n)' /\ TxStays(n)
  BY <1>1, <1>3, KeptTx DEF TxStays
<1>6. TxOK(m)'
  <2>1. TxOK(m)
    BY DEF DsInv
  <2> QED
    BY <1>2, <1>3, <2>1 DEF TxOK, ChainStays
<1>7. \A t \in DsTasks : TaskOK(t)'
  <2>1. \A t \in DsTasks : dsTask[t].tx # None => (dsTask[t].tx \in DsTxs /\ dsTask[t].tx # m)
    BY DsTyped DEF DsInv, TaskOK, TaskType
  <2> QED
    BY <1>1, <1>5, <2>1, KeptTask
<1>8. \A w \in Reconcilers : SeenOK(w)'
  <2>1. \A w \in Reconcilers : dsSeen[w] # Nothing => (dsSeen[w].tx \in DsTxs /\ dsSeen[w].tx # m)
    BY DEF DsInv, SeenOK
  <2> QED
    BY <1>1, <1>5, <2>1, KeptSeen
<1>9. DeletionRowOK'
  <2> SUFFICES ASSUME dsRow.there PROVE RowShape(dsRow)' /\ TxsHeld(dsRow)'
    BY DEF DeletionRowOK
  <2>1. RowShape(dsRow) /\ TxsHeld(dsRow) /\ \A s \in Stages : dsRow.tx[s] # None => dsRow.tx[s] \in DsTxs
    BY RowIsThere, RowColumns
  <2> QED
    BY <1>2, <1>3, <2>1 DEF RowShape, TxsHeld, ChainStays
<1> QED
  BY <1>4, <1>5, <1>6, <1>7, <1>8, <1>9 DEF DsInv, TasksDiffer, ChainStays

LEMMA WaitKeeps == ASSUME DsInv, NEW m \in DsTxs, ConfirmWait(m) \/ CollectWait(m) PROVE DsInv'
<1>1. /\ ChainStays /\ dsRow' = dsRow /\ dsLocal' = dsLocal /\ dsTask' = dsTask /\ dsSeen' = dsSeen /\ dsFaults' = dsFaults
      /\ dsTx[m].wait # "none"
  BY DEF ConfirmWait, CollectWait, chainState, ChainStays
<1>2. \E v \in {"done", "collected"} : dsTx' = [dsTx EXCEPT ![m].wait = v]
  BY DEF ConfirmWait, CollectWait
<1>3. dsTx[m].done # "no"
  BY DEF ConfirmWait, CollectWait, DsInv, TxOK
<1>4. \A w \in Reconcilers : dsSeen[w] # Nothing => dsSeen[w].tx # m
  BY DEF ConfirmWait, CollectWait, DsInv, SeenOK, WaitFor, Reconcilers
<1> QED
  BY <1>1, <1>2, <1>3, <1>4, WaitStep

-----------------------------------------------------------------------------
(* The row and the tasks.                                                  *)

\* What RowKept says of a step.
RowGoes ==
    (dsRow.there /\ ~dsRow'.there) =>
        \/ dsLocal' = "gone"
        \/ dsRow.client /\ ~dsRow.epoch /\ (dsRow.afterTerminate => dsTx[dsRow.tx["terminate"]].done = "failed")

LEMMA SameTasks ==
    ASSUME DsInv, dsTask' = dsTask
    PROVE  /\ dsTask' \in [DsTasks -> TaskType]
           /\ \A t \in DsTasks : dsTask'[t] # dsTask[t] => (TaskOK(t)' /\ dsTask'[t].tx = None)
  BY DsTyped

LEMMA InsertedRow ==
    ASSUME DsInv, ChainStays, ~dsRow.there, NEW c \in BOOLEAN, dsRow' = NewRow(c)
    PROVE  dsRow' \in Rows /\ dsRow'.there /\ DeletionRowOK' /\ RowNarrows
<1>1. PICK q : q = NewRow(c)
  OBVIOUS
<1>2. q \in Rows /\ q.there /\ q.client = c /\ RowShape(q) /\ \A s \in Stages : q.tx[s] = None
  BY <1>1, NewRowIs
<1>3. dsRow' = q
  BY <1>1
<1>4. RowShape(dsRow)' /\ TxsHeld(dsRow)'
  BY <1>2, <1>3 DEF RowShape, TxsHeld, ChainStays
<1> QED
  BY <1>2, <1>3, <1>4 DEF DeletionRowOK, RowNarrows

LEMMA SameRow ==
    ASSUME DsInv, ChainStays, dsTx' = dsTx, dsRow' = dsRow
    PROVE  dsRow' \in Rows \cup {NoDsRow} /\ DeletionRowOK' /\ RowNarrows /\ RowGoes
<1>1. DeletionRowOK'
  BY StaysMoves, KeptRow DEF TxStays
<1> QED
  BY <1>1, DsTyped DEF RowNarrows, RowGoes

LEMMA InsertKeeps == ASSUME DsInv, RequestTermination \/ ProvingFails PROVE DsInv' /\ RowGoes
<1>1. /\ ChainStays /\ dsTx' = dsTx /\ dsTask' = dsTask /\ dsSeen' = dsSeen /\ dsFaults' = dsFaults
      /\ dsLocal' \in {dsLocal, "unprovable"}
  BY DEF RequestTermination, ProvingFails, chainState, ChainStays
<1>2. dsLocal' \in LocalType /\ (dsLocal' = "gone" => verifier = "gone")
  BY <1>1, DsTyped DEF DsInv, LocalType
<1>3. dsRow' = dsRow \/ (~dsRow.there /\ \E c \in BOOLEAN : dsRow' = NewRow(c))
  BY DEF RequestTermination, ProvingFails, EnsureServiceTermination
<1>4. dsRow' \in Rows \cup {NoDsRow} /\ DeletionRowOK' /\ RowNarrows /\ RowGoes
  <2>1. CASE dsRow' = dsRow
    BY <1>1, <2>1, SameRow
  <2>2. CASE ~dsRow.there /\ \E c \in BOOLEAN : dsRow' = NewRow(c)
    BY <1>1, <2>2, InsertedRow DEF RowGoes
  <2> QED
    BY <1>3, <2>1, <2>2
<1> QED
  BY <1>1, <1>2, <1>4, DsTyped, SameTasks, RowStep

LEMMA SettledKeeps == ASSUME DsInv, VerifySettle \/ SyncRails PROVE DsInv' /\ RowGoes
<1>1. /\ ChainStays /\ dsTx' = dsTx /\ dsLocal' = dsLocal /\ dsTask' = dsTask /\ dsSeen' = dsSeen /\ dsFaults' = dsFaults
  BY DEF VerifySettle, SyncRails, chainState, ChainStays
<1>2. \/ ~dsRow.there /\ dsRow' = NewRow(FALSE)
      \/ dsRow.there /\ service = "final" /\ dsRow' = [dsRow EXCEPT !.allowed = TRUE]
  BY DEF VerifySettle, SyncRails, EnsureServiceTermination, FinalizationElapsed
<1>3. dsRow' \in Rows /\ dsRow'.there /\ DeletionRowOK' /\ RowNarrows
  <2>1. CASE ~dsRow.there /\ dsRow' = NewRow(FALSE)
    BY <1>1, <2>1, InsertedRow
  <2>2. CASE dsRow.there /\ service = "final" /\ dsRow' = [dsRow EXCEPT !.allowed = TRUE]
    <3>1. PICK q : q = [dsRow EXCEPT !.allowed = TRUE]
      OBVIOUS
    <3>2. Narrows(q, dsRow) /\ RowShape(q)
      BY <2>2, <3>1, RowIsThere, AllowedIs
    <3> QED
      BY <1>1, <2>2, <3>1, <3>2, NarrowerRow
  <2> QED
    BY <1>2, <2>1, <2>2
<1>4. DsInv'
  BY <1>1, <1>3, DsTyped, SameTasks, RowStep DEF DsInv
<1> QED
  BY <1>3, <1>4 DEF RowGoes

\* The set is gone from the chain, and its local rows with it.
LEMMA FinalizedRow ==
    ASSUME CleanupFinalized
    PROVE  dsRow' \in Rows \cup {NoDsRow} /\ ~dsRow'.there /\ DeletionRowOK' /\ RowNarrows /\ dsLocal' = "gone" /\ dsLocal' \in LocalType
  BY DEF CleanupFinalized, NoDsRow, DeletionRowOK, RowNarrows, LocalType

LEMMA SyncVerifierKeeps == ASSUME DsInv, SyncVerifier PROVE DsInv' /\ RowGoes
<1>1. /\ ChainStays /\ dsTx' = dsTx /\ dsTask' = dsTask /\ dsSeen' = dsSeen /\ dsFaults' = dsFaults /\ dsRow.there
  BY DEF SyncVerifier, chainState, ChainStays
<1>2. CASE verifier = "gone" /\ CleanupFinalized
  BY <1>1, <1>2, FinalizedRow, DsTyped, SameTasks, RowStep DEF RowGoes
<1>3. CASE dsRow' = AfterDelete(None) /\ dsLocal' = dsLocal
  <2>1. PICK q : q = AfterDelete(None)
    OBVIOUS
  <2>2. Narrows(q, dsRow) /\ RowShape(q)
    BY <1>1, <2>1, RowIsThere, AfterDeleteIs DEF Narrows
  <2>3. dsRow' \in Rows /\ dsRow'.there /\ DeletionRowOK' /\ RowNarrows
    BY <1>1, <1>3, <2>1, <2>2, NarrowerRow
  <2> QED
    BY <1>1, <1>3, <2>3, DsTyped, SameTasks, RowStep DEF DsInv, RowGoes
<1> QED
  BY <1>2, <1>3 DEF SyncVerifier

LEMMA TaskAt ==
    ASSUME NEW d \in TaskType, NEW a \in {"none", "read", "send", "commit", "finish"}, NEW q, q = [d EXCEPT !.at = a]
    PROVE  q \in TaskType /\ q.stage = d.stage /\ q.at = a /\ q.tx = d.tx
  BY DEF TaskType

\* One task changes, and holds no message afterwards.
LEMMA StepOfTask ==
    ASSUME DsInv, NEW t \in DsTasks, NEW d \in TaskType, dsTask' = [dsTask EXCEPT ![t] = d], d.tx = None,
           d.at # "commit", d.at # "none" => d.stage \in Stages, (d.at = "send" /\ d.stage = "delete") => service' = "final"
    PROVE  /\ dsTask' \in [DsTasks -> TaskType]
           /\ \A u \in DsTasks : dsTask'[u] # dsTask[u] => (TaskOK(u)' /\ dsTask'[u].tx = None)
<1>1. dsTask' \in [DsTasks -> TaskType] /\ dsTask'[t] = d /\ \A u \in DsTasks \ {t} : dsTask'[u] = dsTask[u]
  BY DsTyped
<1>2. TaskOK(t)'
  BY <1>1 DEF TaskOK
<1> QED
  BY <1>1, <1>2

LEMMA RetriedTask ==
    ASSUME DsInv, NEW t \in DsTasks, Retried(t), dsTask[t].at # "none"
    PROVE  /\ dsTask' \in [DsTasks -> TaskType]
           /\ \A u \in DsTasks : dsTask'[u] # dsTask[u] => (TaskOK(u)' /\ dsTask'[u].tx = None)
<1>1. PICK c \in TaskType : c = dsTask[t]
  BY DsTyped
<1>2. PICK d : d = [c EXCEPT !.at = "read", !.tx = None]
  OBVIOUS
<1>3. d \in TaskType /\ d.stage = c.stage /\ d.at = "read" /\ d.tx = None
  BY <1>2 DEF TaskType
<1>4. dsTask' = [dsTask EXCEPT ![t] = d]
  BY <1>1, <1>2 DEF Retried
<1>5. d.stage \in Stages
  BY <1>1, <1>3 DEF DsInv, TaskOK
<1> QED
  BY <1>3, <1>4, <1>5, StepOfTask

LEMMA RetriedKeeps ==
    ASSUME DsInv, NEW t \in DsTasks, SendRefused(t) \/ StageFails(t)
    PROVE  DsInv' /\ RowGoes
<1>1. /\ ChainStays /\ dsTx' = dsTx /\ dsRow' = dsRow /\ dsLocal' = dsLocal /\ dsSeen' = dsSeen /\ Retried(t)
      /\ dsTask[t].at # "none"
  BY DEF SendRefused, StageFails, chainState, ChainStays
<1>2. dsFaults' \in 0..MaxDsFaults
  BY DsTyped, DeletionAssumption DEF SendRefused, StageFails, DeletionAssumption
<1> QED
  BY <1>1, <1>2, RetriedTask, SameRow, DsTyped, RowStep DEF DsInv

LEMMA EndedTask ==
    ASSUME DsInv, NEW t \in DsTasks, FinishStage(t) \/ StageGivenUp(t)
    PROVE  DsInv' /\ RowGoes
<1>1. /\ ChainStays /\ dsTx' = dsTx /\ dsLocal' = dsLocal /\ dsSeen' = dsSeen
      /\ dsTask' = [dsTask EXCEPT ![t] = NoDsTask] /\ dsRow' = TaskDeleted(t)
  BY DEF FinishStage, StageGivenUp, chainState, ChainStays
<1>2. dsFaults' \in 0..MaxDsFaults
  BY DsTyped, DeletionAssumption DEF FinishStage, StageGivenUp, DeletionAssumption
<1>3. NoDsTask \in TaskType /\ NoDsTask.tx = None /\ NoDsTask.at = "none"
  BY DEF NoDsTask, TaskType
<1>4. /\ dsTask' \in [DsTasks -> TaskType]
      /\ \A u \in DsTasks : dsTask'[u] # dsTask[u] => (TaskOK(u)' /\ dsTask'[u].tx = None)
  BY <1>1, <1>3, StepOfTask
<1>5. dsRow' \in Rows \cup {NoDsRow} /\ DeletionRowOK' /\ RowNarrows /\ RowGoes
  <2>1. CASE ~dsRow.there
    <3>1. dsRow' = dsRow
      BY <1>1, <2>1 DEF TaskDeleted
    <3> QED
      BY <1>1, <3>1, SameRow
  <2>2. CASE dsRow.there /\ dsRow.clientTask = t
    <3>1. dsRow' = NoDsRow /\ ~dsRow'.there
      BY <1>1, <2>2 DEF TaskDeleted, NoDsRow
    <3>2. dsRow.client /\ ~dsRow.epoch /\ ~dsRow.afterTerminate
      BY <2>2, RowIsThere, TxNames DEF RowShape
    <3> QED
      BY <3>1, <3>2 DEF DeletionRowOK, RowNarrows, RowGoes
  <2>3. CASE dsRow.there /\ dsRow.clientTask # t
    <3>1. PICK q : q = TaskDeleted(t)
      OBVIOUS
    <3>2. Narrows(q, dsRow) /\ RowShape(q)
      BY <2>3, <3>1, RowIsThere, TaskDeletedIs
    <3> QED
      BY <1>1, <2>3, <3>1, <3>2, NarrowerRow DEF RowGoes
  <2> QED
    BY <2>1, <2>2, <2>3
<1> QED
  BY <1>1, <1>2, <1>4, <1>5, DsTyped, RowStep DEF DsInv

-----------------------------------------------------------------------------
(* The stages.                                                             *)

LEMMA LeastOf ==
    ASSUME NEW S \in SUBSET Nat, S # {}
    PROVE  \E i \in S : \A j \in S : i <= j
<1>1. PICK i \in S : \A j \in S : ~(<<j, i>> \in OpToRel(<, Nat))
  BY NatLessThanWellFounded, WFMin, Zenon
<1>2. \A j \in S : ~(j < i)
  BY <1>1 DEF OpToRel
<1> QED
  BY <1>2

LEMMA ScheduleKeeps == ASSUME DsInv, NEW stage \in Stages, ScheduleStage(stage) PROVE DsInv' /\ RowGoes
<1>1. /\ ChainStays /\ dsTx' = dsTx /\ dsLocal' = dsLocal /\ dsSeen' = dsSeen /\ dsFaults' = dsFaults
      /\ Due(stage) /\ FreeTasks # {}
  BY DEF ScheduleStage, chainState, ChainStays
<1>2. PICK t : t = CHOOSE x \in FreeTasks : \A y \in FreeTasks : x <= y
  OBVIOUS
<1>3. t \in DsTasks
  <2>1. FreeTasks \in SUBSET Nat
    BY DeletionAssumption DEF FreeTasks, DsTasks, DeletionAssumption
  <2>2. \E x \in FreeTasks : \A y \in FreeTasks : x <= y
    BY <1>1, <2>1, LeastOf
  <2> QED
    BY <1>2, <2>2 DEF FreeTasks
<1>4. PICK d : d = [stage |-> stage, at |-> "read", tx |-> None]
  OBVIOUS
<1>5. d \in TaskType /\ d.stage \in Stages /\ d.at = "read" /\ d.tx = None
  BY <1>4 DEF TaskType
<1>6. dsTask' = [dsTask EXCEPT ![t] = d]
  BY <1>2, <1>4 DEF ScheduleStage
<1>7. /\ dsTask' \in [DsTasks -> TaskType]
      /\ \A u \in DsTasks : dsTask'[u] # dsTask[u] => (TaskOK(u)' /\ dsTask'[u].tx = None)
  BY <1>3, <1>5, <1>6, StepOfTask
<1>8. PICK q : q = [dsRow EXCEPT !.task[stage] = t, !.clientTask = IF stage = "terminate" /\ dsRow.client THEN t ELSE @]
  OBVIOUS
<1>9. dsRow' = q
  BY <1>2, <1>8 DEF ScheduleStage
<1>10. dsRow.there /\ dsRow \in Rows /\ RowShape(dsRow) /\ TxsHeld(dsRow)
  BY <1>1, RowIsThere DEF Due
<1>11. q \in Rows /\ q.there /\ q.client = dsRow.client /\ RowShape(q) /\ q.tx = dsRow.tx
  BY <1>1, <1>3, <1>8, <1>10, ScheduledIs, ZenonT(60)
<1>12. RowShape(dsRow)' /\ TxsHeld(dsRow)'
  BY <1>1, <1>9, <1>10, <1>11 DEF RowShape, TxsHeld, ChainStays
<1>13. dsRow' \in Rows \cup {NoDsRow} /\ DeletionRowOK' /\ RowNarrows /\ RowGoes
  BY <1>9, <1>10, <1>11, <1>12 DEF DeletionRowOK, RowNarrows, RowGoes
<1> QED
  BY <1>1, <1>7, <1>13, DsTyped, RowStep DEF DsInv

\* What Do finds is true of the row and of the chain.
LEMMA FindsIs ==
    ASSUME DsInv, NEW t \in DsTasks, dsTask[t].stage \in Stages, NEW f, f = Finds(t)
    PROVE  /\ f \in {"not its row", "send", "ended", "cleanup", "live", "gone"}
           /\ f # "not its row" => (dsRow.there /\ dsRow.task[dsTask[t].stage] = t)
           /\ f = "gone" => verifier = "gone"
<1>1. CASE ~(dsRow.there /\ dsRow.task[dsTask[t].stage] = t)
  BY <1>1 DEF Finds
<1>2. CASE (dsRow.there /\ dsRow.task[dsTask[t].stage] = t) /\ dsTask[t].stage = "terminate"
  BY <1>2 DEF Finds
<1>3. CASE (dsRow.there /\ dsRow.task[dsTask[t].stage] = t) /\ dsTask[t].stage # "terminate" /\ verifier = "gone"
  BY <1>3 DEF Finds
<1>4. CASE (dsRow.there /\ dsRow.task[dsTask[t].stage] = t) /\ dsTask[t].stage = "delete" /\ verifier # "gone"
  BY <1>4 DEF Finds
<1>5. CASE (dsRow.there /\ dsRow.task[dsTask[t].stage] = t) /\ dsTask[t].stage = "cleanup" /\ verifier # "gone"
  BY <1>5 DEF Finds
<1> QED
  BY <1>1, <1>2, <1>3, <1>4, <1>5, StageNames

LEMMA DoKeeps == ASSUME DsInv, NEW t \in DsTasks, DoStage(t) PROVE DsInv' /\ RowGoes
<1>1. /\ ChainStays /\ dsTx' = dsTx /\ dsSeen' = dsSeen /\ dsFaults' = dsFaults /\ dsTask[t].at = "read"
  BY DEF DoStage, chainState, ChainStays
<1>2. PICK c \in TaskType : c = dsTask[t]
  BY DsTyped
<1>3. c.stage \in Stages /\ c.tx = None
  BY <1>1, <1>2 DEF DsInv, TaskOK
<1>4. PICK f : f = Finds(t)
  OBVIOUS
<1>5. /\ f \in {"not its row", "send", "ended", "cleanup", "live", "gone"}
      /\ f # "not its row" => (dsRow.there /\ dsRow.task[c.stage] = t)
      /\ f = "gone" => verifier = "gone"
  <2>1. dsTask[t].stage \in Stages
    BY <1>2, <1>3
  <2>2. /\ f \in {"not its row", "send", "ended", "cleanup", "live", "gone"}
        /\ f # "not its row" => (dsRow.there /\ dsRow.task[dsTask[t].stage] = t)
        /\ f = "gone" => verifier = "gone"
    BY <1>4, <2>1, FindsIs
  <2> QED
    BY <1>2, <2>2
<1>6. PICK a \in {"send", "finish"} : a = (IF f = "send" THEN "send" ELSE "finish")
  OBVIOUS
<1>7. PICK d : d = [c EXCEPT !.at = a]
  OBVIOUS
<1>8. d \in TaskType /\ d.stage = c.stage /\ d.at = a /\ d.tx = None
  BY <1>3, <1>7, TaskAt
<1>9. dsTask' = [dsTask EXCEPT ![t] = d]
  BY <1>2, <1>4, <1>6, <1>7 DEF DoStage
<1>10. (d.at = "send" /\ d.stage = "delete") => service' = "final"
  <2> SUFFICES ASSUME d.at = "send", d.stage = "delete" PROVE service = "final"
    BY <1>1 DEF ChainStays
  <2>1. dsRow.there /\ dsRow.task["delete"] = t
    BY <1>5, <1>6, <1>8
  <2> QED
    BY <2>1, RowIsThere, TxNames DEF RowShape
<1>11. /\ dsTask' \in [DsTasks -> TaskType]
       /\ \A u \in DsTasks : dsTask'[u] # dsTask[u] => (TaskOK(u)' /\ dsTask'[u].tx = None)
  BY <1>3, <1>8, <1>9, <1>10, StepOfTask
<1>12. CASE f \in {"not its row", "send"}
  <2>1. dsRow' = dsRow /\ dsLocal' = dsLocal
    BY <1>4, <1>12 DEF DoStage
  <2> QED
    BY <1>1, <1>11, <2>1, SameRow, DsTyped, RowStep DEF DsInv
<1>13. CASE f = "gone"
  <2>1. CleanupFinalized
    BY <1>4, <1>13 DEF DoStage
  <2> QED
    BY <1>1, <1>5, <1>11, <1>13, <2>1, FinalizedRow, DsTyped, RowStep DEF RowGoes
<1>14. CASE f \in {"ended", "cleanup", "live"}
  <2>1. dsRow.there /\ dsRow \in Rows /\ RowShape(dsRow)
    BY <1>5, <1>14, RowIsThere
  <2>2. /\ dsLocal' = dsLocal
        /\ \/ dsRow' = AfterTerminate(None, TRUE)
           \/ dsRow' = AfterDelete(None)
           \/ dsRow' = BackToDelete
    BY <1>4, <1>14 DEF DoStage
  <2>3. PICK q : q = dsRow'
    OBVIOUS
  <2>0. \A e \in BOOLEAN : q = AfterTerminate(None, e) => (Narrows(q, dsRow) /\ RowShape(q))
    <3> SUFFICES ASSUME NEW e \in BOOLEAN, q = AfterTerminate(None, e) PROVE Narrows(q, dsRow) /\ RowShape(q)
      OBVIOUS
    <3>2. None \in DsTxs \cup {None}
      OBVIOUS
    <3>3. /\ q \in Rows /\ q.there /\ q.client = dsRow.client /\ RowShape(q)
          /\ \A s \in Stages : q.task[s] = dsRow.task[s] \/ q.task[s] = None
          /\ q.tx["terminate"] = None /\ \A s \in Stages \ {"terminate"} : q.tx[s] = dsRow.tx[s]
      BY <2>1, <3>2, AfterTerminateIs
    <3> QED
      BY <3>3 DEF Narrows
  <2>4. q = AfterTerminate(None, TRUE) => (Narrows(q, dsRow) /\ RowShape(q))
    BY <2>0, Zenon
  <2>5. q = AfterDelete(None) => (Narrows(q, dsRow) /\ RowShape(q))
    BY <2>1, AfterDeleteIs DEF Narrows
  <2>6. q = BackToDelete => (Narrows(q, dsRow) /\ RowShape(q))
    BY <2>1, BackToDeleteIs
  <2>7. Narrows(q, dsRow) /\ RowShape(q)
    BY <2>2, <2>3, <2>4, <2>5, <2>6
  <2>8. dsRow' \in Rows /\ dsRow'.there /\ DeletionRowOK' /\ RowNarrows
    BY <1>1, <2>1, <2>3, <2>7, NarrowerRow
  <2> QED
    BY <1>1, <1>11, <2>2, <2>8, DsTyped, RowStep DEF DsInv, RowGoes
<1> QED
  BY <1>5, <1>12, <1>13, <1>14

\* A message that has just been sent, and that its task alone knows.
LEMMA SendKeeps == ASSUME DsInv, NEW t \in DsTasks, SendStage(t) PROVE DsInv'
<1>1. /\ ChainStays /\ dsRow' = dsRow /\ dsLocal' = dsLocal /\ dsSeen' = dsSeen /\ dsFaults' = dsFaults
      /\ dsTask[t].at = "send" /\ Accepts(dsTask[t].stage) /\ FreeTxs # {}
  BY DEF SendStage, chainState, ChainStays
<1>2. ChainMoves /\ ChainType'
  BY <1>1, DsTyped, StaysMoves
<1>3. PICK c \in TaskType : c = dsTask[t]
  BY DsTyped
<1>4. c.stage \in Stages /\ c.at = "send" /\ c.tx = None /\ (c.stage = "delete" => service = "final")
  BY <1>1, <1>3 DEF DsInv, TaskOK
<1>5. PICK m : m = CHOOSE x \in FreeTxs : \A y \in FreeTxs : x <= y
  OBVIOUS
<1>6. m \in DsTxs /\ dsTx[m] = Unsent
  <2>1. FreeTxs \in SUBSET Nat
    BY DeletionAssumption DEF FreeTxs, DsTxs, DeletionAssumption
  <2>2. \E x \in FreeTxs : \A y \in FreeTxs : x <= y
    BY <1>1, <2>1, LeastOf
  <2> QED
    BY <1>5, <2>2 DEF FreeTxs
<1>7. PICK x : x = [Unsent EXCEPT !.kind = c.stage]
  OBVIOUS
<1>8. x \in TxType /\ x.kind = c.stage /\ x.done = "no" /\ x.wait = "none"
  BY <1>4, <1>7, UnsentIs, TxKind
<1>9. PICK d : d = [c EXCEPT !.at = "commit", !.tx = m]
  OBVIOUS
<1>10. d \in TaskType /\ d.stage = c.stage /\ d.at = "commit" /\ d.tx = m
  BY <1>6, <1>9 DEF TaskType
<1>11. dsTx' = [dsTx EXCEPT ![m] = x] /\ dsTask' = [dsTask EXCEPT ![t] = d]
  <2>1. dsTx' = [dsTx EXCEPT ![m].kind = c.stage]
    BY <1>3, <1>5 DEF SendStage
  <2>2. dsTask' = [dsTask EXCEPT ![t].at = "commit", ![t].tx = m]
    BY <1>5 DEF SendStage
  <2> QED
    BY <1>3, <1>6, <1>7, <1>9, <2>1, <2>2
<1>12. /\ dsTx' \in [DsTxs -> TxType] /\ dsTx'[m] = x /\ \A n \in DsTxs \ {m} : dsTx'[n] = dsTx[n]
       /\ dsTask' \in [DsTasks -> TaskType] /\ dsTask'[t] = d /\ \A u \in DsTasks \ {t} : dsTask'[u] = dsTask[u]
  BY <1>6, <1>8, <1>10, <1>11, DsTyped
<1>13. DeletionTypeOK'
  BY <1>1, <1>2, <1>12, DsTyped, DsTypedNext
<1>14. \A n \in DsTxs \ {m} : TxOK(n)' /\ TxStays(n)
  BY <1>2, <1>12, KeptTx DEF TxStays
<1>15. dsTx[m].kind \notin Stages
  BY <1>6, UnsentIs, StageNames
<1>16. \A u \in DsTasks : dsTask[u].tx # None => (dsTask[u].tx \in DsTxs /\ dsTask[u].tx # m)
  BY <1>15, DsTyped DEF DsInv, TaskOK, TaskType
<1>17. \A u \in DsTasks : TaskOK(u)'
  <2>1. TaskOK(t)'
    BY <1>4, <1>6, <1>8, <1>10, <1>12, TxNames DEF TaskOK
  <2>2. \A u \in DsTasks \ {t} : TaskOK(u)'
    BY <1>2, <1>12, <1>14, <1>16, KeptTask
  <2> QED
    BY <2>1, <2>2
<1>18. TasksDiffer'
  BY <1>10, <1>12, <1>16 DEF DsInv, TasksDiffer
<1>19. TxOK(m)'
  BY <1>1, <1>3, <1>4, <1>8, <1>12 DEF TxOK, Accepts, ChainStays
<1>20. \A w \in Reconcilers : SeenOK(w)'
  <2>1. \A w \in Reconcilers : dsSeen[w] # Nothing => (dsSeen[w].tx \in DsTxs /\ dsSeen[w].tx # m)
    BY <1>15 DEF DsInv, SeenOK
  <2> QED
    BY <1>1, <1>2, <1>14, <2>1, KeptSeen
<1>21. DeletionRowOK'
  <2>1. \A s \in Stages : (dsRow.there /\ dsRow.tx[s] # None) => (dsRow.tx[s] \in DsTxs /\ dsRow.tx[s] # m)
    BY <1>15, RowIsThere, RowColumns DEF TxsHeld
  <2> QED
    BY <1>1, <1>2, <1>14, <2>1, KeptRow
<1> QED
  BY <1>1, <1>13, <1>14, <1>17, <1>18, <1>19, <1>20, <1>21 DEF DsInv, ChainStays

LEMMA CommittedRow ==
    ASSUME dsRow \in Rows, RowShape(dsRow), NEW stage \in Stages, NEW m \in DsTxs, NEW q,
           stage = "terminate" => \E e \in BOOLEAN : q = AfterTerminate(m, e),
           stage = "delete" => q = AfterDelete(m),
           stage = "cleanup" => q = AfterCleanup(m)
    PROVE  /\ q \in Rows /\ q.there /\ q.client = dsRow.client /\ RowShape(q)
           /\ q.tx[stage] = m /\ \A s \in Stages \ {stage} : q.tx[s] = dsRow.tx[s]
<1>1. m \in DsTxs \cup {None}
  OBVIOUS
<1>2. CASE stage = "terminate"
  BY <1>1, <1>2, AfterTerminateIs
<1>3. CASE stage = "delete"
  BY <1>1, <1>3, AfterDeleteIs
<1>4. CASE stage = "cleanup"
  <2>1. q = AfterCleanup(m)
    BY <1>4
  <2>2. /\ q \in Rows /\ q.there /\ q.client = dsRow.client /\ RowShape(q)
        /\ q.tx["cleanup"] = m /\ \A s \in Stages \ {"cleanup"} : q.tx[s] = dsRow.tx[s]
    BY <1>1, <2>1, AfterCleanupIs
  <2> QED
    BY <1>4, <2>2
<1> QED
  BY <1>2, <1>3, <1>4, StageNames

LEMMA CommitKeeps == ASSUME DsInv, NEW t \in DsTasks, CommitStage(t) PROVE DsInv' /\ RowGoes
<1>1. /\ ChainStays /\ dsLocal' = dsLocal /\ dsSeen' = dsSeen /\ dsFaults' = dsFaults /\ dsTask[t].at = "commit"
  BY DEF CommitStage, chainState, ChainStays
<1>2. ChainMoves /\ ChainType'
  BY <1>1, DsTyped, StaysMoves
<1>3. PICK c \in TaskType : c = dsTask[t]
  BY DsTyped
<1>4. PICK m : m = c.tx
  OBVIOUS
<1>0. PICK stage \in Stages : stage = c.stage
  BY <1>1, <1>3 DEF DsInv, TaskOK
<1>5. m \in DsTxs /\ dsTx[m].kind = stage /\ dsTx[m].wait = "none"
  BY <1>0, <1>1, <1>3, <1>4 DEF DsInv, TaskOK, TaskType
<1>6. CASE ~(dsRow.there /\ dsRow.task[stage] = t)
  <2>1. Retried(t) /\ dsRow' = dsRow /\ dsTx' = dsTx
    BY <1>0, <1>3, <1>6 DEF CommitStage
  <2> QED
    BY <1>1, <2>1, RetriedTask, SameRow, DsTyped, RowStep DEF DsInv
<1>7. CASE dsRow.there /\ dsRow.task[stage] = t
  <2>1. PICK q : q = dsRow'
    OBVIOUS
  <2>2. PICK x : x = [dsTx[m] EXCEPT !.wait = "pending"]
    OBVIOUS
  <2>3. PICK d : d = [c EXCEPT !.at = "finish", !.tx = None]
    OBVIOUS
  <2>4. dsRow' = q /\ dsTx' = [dsTx EXCEPT ![m] = x] /\ dsTask' = [dsTask EXCEPT ![t] = d]
    BY <1>0, <1>3, <1>4, <1>7, <2>1, <2>2, <2>3 DEF CommitStage
  <2>5. x \in TxType /\ x.kind = stage /\ x.done = dsTx[m].done /\ x.wait = "pending"
    BY <1>5, <2>2, DsTyped, TxWait
  <2>6. d \in TaskType /\ d.stage = stage /\ d.at = "finish" /\ d.tx = None
    BY <1>0, <2>3 DEF TaskType
  <2>7. dsRow \in Rows /\ RowShape(dsRow) /\ TxsHeld(dsRow)
    BY <1>7, RowIsThere
  <2>8. /\ q \in Rows /\ q.there /\ q.client = dsRow.client /\ RowShape(q)
        /\ q.tx[stage] = m /\ \A s \in Stages \ {stage} : q.tx[s] = dsRow.tx[s]
    <3>1. stage = "terminate" => q = AfterTerminate(m, FALSE)
      BY <1>0, <1>3, <1>4, <1>7, <2>1 DEF CommitStage
    <3>2. stage = "terminate" => \E e \in BOOLEAN : q = AfterTerminate(m, e)
      BY <3>1, Zenon
    <3>3. stage = "delete" => q = AfterDelete(m)
      BY <1>0, <1>3, <1>4, <1>7, <2>1 DEF CommitStage
    <3>4. stage = "cleanup" => q = AfterCleanup(m)
      BY <1>0, <1>3, <1>4, <1>7, <2>1 DEF CommitStage
    <3> QED
      BY <1>5, <2>7, <3>2, <3>3, <3>4, CommittedRow
  <2>9. /\ dsTx' \in [DsTxs -> TxType] /\ dsTx'[m] = x /\ \A n \in DsTxs \ {m} : dsTx'[n] = dsTx[n]
        /\ dsTask' \in [DsTasks -> TaskType] /\ dsTask'[t] = d /\ \A u \in DsTasks \ {t} : dsTask'[u] = dsTask[u]
    BY <1>5, <2>4, <2>5, <2>6, DsTyped
  <2>10. DeletionTypeOK'
    BY <1>1, <1>2, <2>4, <2>8, <2>9, DsTyped, DsTypedNext
  <2>11. \A n \in DsTxs \ {m} : TxOK(n)' /\ TxStays(n)
    BY <1>2, <2>9, KeptTx DEF TxStays
  <2>12. TxOK(m)'
    <3>1. TxOK(m)
      BY <1>5 DEF DsInv
    <3> QED
      BY <1>1, <1>5, <2>5, <2>9, <3>1 DEF TxOK, ChainStays
  <2>13. \A u \in DsTasks : TaskOK(u)'
    <3>1. TaskOK(t)'
      BY <1>5, <2>6, <2>9 DEF TaskOK
    <3>2. \A u \in DsTasks \ {t} : dsTask[u].tx # None => (dsTask[u].tx \in DsTxs /\ dsTask[u].tx # m)
      BY <1>3, <1>4, DsTyped DEF DsInv, TasksDiffer, TaskType
    <3>3. \A u \in DsTasks \ {t} : TaskOK(u)'
      BY <1>2, <2>9, <2>11, <3>2, KeptTask
    <3> QED
      BY <3>1, <3>3
  <2>14. TasksDiffer'
    BY <2>6, <2>9 DEF DsInv, TasksDiffer
  <2>15. \A w \in Reconcilers : SeenOK(w)'
    <3>1. \A w \in Reconcilers : dsSeen[w] # Nothing => (dsSeen[w].tx \in DsTxs /\ dsSeen[w].tx # m)
      BY <1>5 DEF DsInv, SeenOK, WaitFor
    <3>2. \A s \in Stages : \A n : (dsRow'.there /\ dsRow'.tx[s] = n /\ n # None /\ n # m) =>
            (dsRow.there /\ dsRow.tx[s] = n /\ dsRow'.client = dsRow.client)
      BY <1>7, <2>4, <2>8
    <3> SUFFICES ASSUME NEW w \in Reconcilers, dsSeen[w] # Nothing PROVE SeenOK(w)'
      BY <1>1 DEF SeenOK
    <3> QED
      BY <1>1, <1>2, <2>11, <3>1, <3>2, KeptSeen
  <2>16. DeletionRowOK'
    <3>1. RowShape(dsRow)'
      BY <1>1, <2>4, <2>8 DEF RowShape, ChainStays
    <3>2. \A s \in Stages : dsRow.tx[s] # None => (dsRow.tx[s] \in DsTxs /\ dsRow.tx[s] # m)
      BY <1>5, <2>7, RowColumns DEF TxsHeld
    <3>3. TxsHeld(dsRow)'
      BY <2>4, <2>5, <2>7, <2>8, <2>9, <3>2 DEF TxsHeld
    <3> QED
      BY <3>1, <3>3 DEF DeletionRowOK
  <2>17. DsInv'
    BY <1>1, <2>10, <2>11, <2>12, <2>13, <2>14, <2>15, <2>16 DEF DsInv, ChainStays
  <2> QED
    BY <2>4, <2>8, <2>17 DEF RowGoes
<1> QED
  BY <1>6, <1>7

-----------------------------------------------------------------------------
(* Watchers and chain sync.                                                *)

LEMMA LookKeeps ==
    ASSUME DsInv, NEW w \in Reconcilers, NEW stage \in Stages, NEW unreadable \in BOOLEAN, Look(w, stage, unreadable)
    PROVE  DsInv'
<1>1. /\ ChainStays /\ dsTx' = dsTx /\ dsRow' = dsRow /\ dsLocal' = dsLocal /\ dsTask' = dsTask /\ Awaits(stage)
  BY DEF Look, chainState, ChainStays
<1>2. dsFaults' \in 0..MaxDsFaults
  BY DsTyped, DeletionAssumption DEF Look, DeletionAssumption
<1>3. PICK m : m = dsRow.tx[stage]
  OBVIOUS
<1>4. m \in DsTxs /\ dsTx[m].kind = stage /\ dsRow \in Rows
  BY <1>1, <1>3, RowIsThere, RowColumns DEF Awaits, TxsHeld
<1>5. dsTx[m].wait = WaitFor(w)
  BY <1>3 DEF Look, WaitFor
<1>6. PICK k \in BOOLEAN : k <=> (w # "sync" /\ dsTx[m].done = "ok")
  OBVIOUS
<1>7. PICK v : v = IF unreadable THEN "unknown" ELSE verifier
  OBVIOUS
<1>8. PICK x : x = [stage |-> stage, tx |-> m, client |-> dsRow.client, ok |-> k, service |-> service, verifier |-> v]
  OBVIOUS
<1>9. dsSeen' = [dsSeen EXCEPT ![w] = x]
  BY <1>3, <1>6, <1>7, <1>8 DEF Look
<1>10. x \in SeenType
  <2>1. v \in {"live", "cleanup", "gone", "unknown"} /\ service \in {"active", "ending", "ended", "final"}
    BY <1>7, DsTyped DEF ChainType
  <2>2. dsRow.client \in BOOLEAN
    BY <1>4, RowColumns
  <2> QED
    BY <1>4, <1>8, <2>1, <2>2 DEF SeenType
<1>11. /\ dsSeen' \in [Reconcilers -> SeenType] /\ dsSeen'[w] = x
       /\ \A u \in Reconcilers \ {w} : dsSeen'[u] = dsSeen[u]
  BY <1>9, <1>10, DsTyped
<1>12. (stage = "terminate" /\ service = "active" /\ ~k) => dsTx[m].done = "failed"
  <2>1. TxOK(m) /\ dsTx[m] \in TxType
    BY <1>4, DsTyped DEF DsInv
  <2>2. dsTx[m].done \in {"ok", "failed"}
    BY <1>5, <2>1, TxFields DEF TxOK, WaitFor
  <2> QED
    BY <1>4, <1>6, <2>1, <2>2 DEF TxOK
<1>13. SeenOK(w)'
  <2>1. /\ x.stage = stage /\ x.tx = m /\ x.client = dsRow.client /\ x.ok = k /\ x.service = service /\ x.verifier = v
    BY <1>8
  <2> QED
    BY <1>1, <1>4, <1>5, <1>7, <1>11, <1>12, <2>1 DEF SeenOK, WaitFor, ChainStays
<1>14. ChainMoves /\ ChainType'
  BY <1>1, DsTyped, StaysMoves
<1>15. DeletionTypeOK'
  BY <1>1, <1>2, <1>11, <1>14, DsTyped, DsTypedNext
<1>16. \A n \in DsTxs : TxOK(n)' /\ TxStays(n)
  BY <1>1, <1>14, KeptTx DEF TxStays
<1>17. \A t \in DsTasks : TaskOK(t)'
  <2>1. \A t \in DsTasks : dsTask[t].tx # None => dsTask[t].tx \in DsTxs
    BY DsTyped DEF TaskType
  <2> QED
    BY <1>1, <1>14, <1>16, <2>1, KeptTask
<1>18. \A u \in Reconcilers \ {w} : SeenOK(u)'
  <2>1. \A u \in Reconcilers : dsSeen[u] # Nothing => dsSeen[u].tx \in DsTxs
    BY DEF DsInv, SeenOK
  <2> QED
    BY <1>1, <1>11, <1>14, <1>16, <2>1, KeptSeen
<1>19. DeletionRowOK'
  BY <1>1, SameRow
<1> QED
  BY <1>1, <1>13, <1>15, <1>16, <1>17, <1>18, <1>19 DEF DsInv, TasksDiffer, ChainStays

\* What a watcher makes of the row.
LEMMA ReconciledRow ==
    ASSUME DsInv, NEW w \in Reconcilers, NEW x, x = dsSeen[w], x # Nothing, Reconcile(w)
    PROVE  /\ dsLocal' \in LocalType /\ (dsLocal' = "gone" => verifier = "gone") /\ RowGoes
           /\ \/ dsRow' = NoDsRow
              \/ dsRow.there /\ \E q : dsRow' = q /\ Narrows(q, dsRow) /\ RowShape(q)
<1>1. SeenOK(w) /\ dsLocal \in LocalType /\ (dsLocal = "gone" => verifier = "gone")
  BY DsTyped DEF DsInv
<1>2. x.stage \in Stages /\ x.tx \in DsTxs /\ (x.verifier = "gone" => verifier = "gone")
  BY <1>1 DEF SeenOK
<1>3. Still(x) => (dsRow.there /\ dsRow \in Rows /\ RowShape(dsRow) /\ dsRow.tx[x.stage] = x.tx)
  BY RowIsThere DEF Still, Awaits
<1>4. None \in DsTxs \cup {None}
  OBVIOUS
<1>5. CASE CleanupFinalized /\ x.verifier = "gone"
  BY <1>2, <1>5 DEF CleanupFinalized, RowGoes, LocalType
<1>6. CASE dsRow' = dsRow /\ dsLocal' = dsLocal
  <2>1. dsRow.there => (Narrows(dsRow, dsRow) /\ RowShape(dsRow))
    BY RowIsThere DEF Narrows
  <2> QED
    BY <1>1, <1>6, <2>1, RowIsThere DEF RowGoes
<1>7. ASSUME dsLocal' = dsLocal, Still(x), NEW q, dsRow' = q, Narrows(q, dsRow), RowShape(q)
      PROVE  /\ dsLocal' \in LocalType /\ (dsLocal' = "gone" => verifier = "gone") /\ RowGoes
             /\ dsRow.there /\ \E p : dsRow' = p /\ Narrows(p, dsRow) /\ RowShape(p)
  BY <1>1, <1>3, <1>7 DEF RowGoes, Narrows
<1>8. CASE x.stage = "terminate" /\ ~(dsRow' = dsRow)
  <2>1. ApplyTerminate(x) /\ dsLocal' = dsLocal
    BY <1>8 DEF Reconcile, ApplyTerminate
  <2>2. Still(x) /\ ~dsRow.epoch
    BY <1>8, <2>1 DEF ApplyTerminate, Still, Awaits
  <2>3. CASE x.service # "active"
    <3>1. dsRow' = AfterTerminate(None, TRUE)
      BY <1>8, <2>1, <2>2, <2>3 DEF ApplyTerminate
    <3>2. PICK e \in BOOLEAN : dsRow' = AfterTerminate(None, e)
      BY <3>1, Zenon
    <3>3. PICK q : q = AfterTerminate(None, e)
      OBVIOUS
    <3>4. /\ q \in Rows /\ q.there /\ q.client = dsRow.client /\ RowShape(q)
          /\ \A s \in Stages : q.task[s] = dsRow.task[s] \/ q.task[s] = None
          /\ q.tx["terminate"] = None /\ \A s \in Stages \ {"terminate"} : q.tx[s] = dsRow.tx[s]
      BY <1>3, <1>4, <2>2, <3>3, AfterTerminateIs
    <3>5. Narrows(q, dsRow)
      BY <3>4 DEF Narrows
    <3> QED
      BY <1>7, <2>1, <2>2, <3>2, <3>3, <3>4, <3>5
  <2>4. CASE x.service = "active" /\ x.client
    <3>1. dsRow' = NoDsRow /\ ~x.ok
      BY <1>8, <2>1, <2>2, <2>4 DEF ApplyTerminate
    <3>2. dsRow.client /\ dsTx[dsRow.tx["terminate"]].done = "failed"
      BY <1>1, <1>3, <1>8, <2>2, <2>4, <3>1 DEF SeenOK
    <3> QED
      BY <1>1, <2>1, <2>2, <3>1, <3>2 DEF RowGoes
  <2>5. CASE x.service = "active" /\ ~x.client
    <3>1. PICK q : q = [dsRow EXCEPT !.tx["terminate"] = None, !.afterTerminate = FALSE, !.task["terminate"] = None]
      OBVIOUS
    <3>2. dsRow' = q
      BY <1>8, <2>1, <2>2, <2>5, <3>1 DEF ApplyTerminate
    <3>3. ~dsRow.client
      BY <1>1, <1>3, <2>2, <2>5 DEF SeenOK
    <3>4. Narrows(q, dsRow) /\ RowShape(q)
      BY <1>3, <2>2, <3>1, <3>3, TerminateAgain
    <3> QED
      BY <1>7, <2>1, <2>2, <3>2, <3>4
  <2> QED
    BY <2>3, <2>4, <2>5
<1>9. CASE x.stage = "delete" /\ x.verifier # "gone" /\ ~(dsRow' = dsRow)
  <2>1. ApplyDelete(x) /\ dsLocal' = dsLocal
    BY <1>9 DEF Reconcile, ApplyDelete
  <2>2. Still(x)
    BY <1>9, <2>1 DEF ApplyDelete
  <2>3. PICK q : q = dsRow'
    OBVIOUS
  <2>4. q = AfterDelete(None) \/ q = [AfterDelete(None) EXCEPT !.afterDelete = FALSE]
    BY <1>9, <2>1, <2>2, <2>3 DEF ApplyDelete
  <2>5. /\ q \in Rows /\ q.there /\ q.client = dsRow.client /\ RowShape(q)
        /\ \A s \in Stages : q.task[s] = dsRow.task[s] \/ q.task[s] = None
        /\ q.tx["delete"] = None /\ \A s \in Stages \ {"delete"} : q.tx[s] = dsRow.tx[s]
    BY <1>3, <1>4, <2>2, <2>4, AfterDeleteIs
  <2>6. Narrows(q, dsRow)
    BY <2>5 DEF Narrows
  <2> QED
    BY <1>7, <2>1, <2>2, <2>3, <2>5, <2>6
<1>10. CASE x.stage = "cleanup" /\ x.verifier # "gone" /\ ~(dsRow' = dsRow)
  <2>1. ApplyCleanup(x) /\ dsLocal' = dsLocal
    BY <1>10 DEF Reconcile, ApplyCleanup
  <2>2. Still(x)
    BY <1>10, <2>1 DEF ApplyCleanup
  <2>3. PICK q : q = dsRow'
    OBVIOUS
  <2>4. q = BackToDelete \/ q = AfterCleanup(None)
    BY <1>10, <2>1, <2>2, <2>3 DEF ApplyCleanup
  <2>5. CASE q = BackToDelete
    <3>1. Narrows(q, dsRow) /\ RowShape(q)
      BY <1>3, <2>2, <2>5, BackToDeleteIs
    <3> QED
      BY <1>7, <2>1, <2>2, <2>3, <3>1
  <2>6. CASE q = AfterCleanup(None)
    <3>1. /\ q \in Rows /\ q.there /\ q.client = dsRow.client /\ RowShape(q)
          /\ \A s \in Stages : q.task[s] = dsRow.task[s] \/ q.task[s] = None
          /\ q.tx["cleanup"] = None /\ \A s \in Stages \ {"cleanup"} : q.tx[s] = dsRow.tx[s]
      BY <1>3, <1>4, <2>2, <2>6, AfterCleanupIs
    <3>2. Narrows(q, dsRow)
      BY <3>1 DEF Narrows
    <3> QED
      BY <1>7, <2>1, <2>2, <2>3, <3>1, <3>2
  <2> QED
    BY <2>4, <2>5, <2>6
<1>11. \/ x.stage = "terminate" /\ ApplyTerminate(x)
       \/ x.stage = "delete" /\ ApplyDelete(x)
       \/ x.stage = "cleanup" /\ ApplyCleanup(x)
  BY <1>2, StageNames DEF Reconcile
<1> QED
  BY <1>5, <1>6, <1>8, <1>9, <1>10, <1>11 DEF ApplyTerminate, ApplyDelete, ApplyCleanup

LEMMA ReconcileKeeps == ASSUME DsInv, NEW w \in Reconcilers, Reconcile(w) PROVE DsInv' /\ RowGoes
<1>1. /\ ChainStays /\ dsTask' = dsTask /\ dsFaults' = dsFaults
  BY DEF Reconcile, chainState, ChainStays
<1>2. PICK x : x = dsSeen[w]
  OBVIOUS
<1>3. x # Nothing /\ dsSeen' = [dsSeen EXCEPT ![w] = Nothing]
  BY <1>2 DEF Reconcile
<1>4. x.stage \in Stages /\ x.tx \in DsTxs /\ dsTx[x.tx].kind = x.stage /\ dsTx[x.tx].wait = WaitFor(w)
  BY <1>2, <1>3 DEF DsInv, SeenOK
<1>5. /\ dsLocal' \in LocalType /\ (dsLocal' = "gone" => verifier = "gone") /\ RowGoes
      /\ \/ dsRow' = NoDsRow
         \/ dsRow.there /\ \E q : dsRow' = q /\ Narrows(q, dsRow) /\ RowShape(q)
  BY <1>2, <1>3, ReconciledRow
<1>6. ChainMoves /\ ChainType'
  BY <1>1, DsTyped, StaysMoves
<1>7. Nothing \in SeenType
  BY DEF Nothing, SeenType
<1>8. /\ dsSeen' \in [Reconcilers -> SeenType] /\ dsSeen'[w] = Nothing
      /\ \A u \in Reconcilers \ {w} : dsSeen'[u] = dsSeen[u]
  BY <1>3, <1>7, DsTyped
<1>9. PICK m \in DsTxs : m = x.tx
  BY <1>4
<1>10. /\ dsTx' \in [DsTxs -> TxType] /\ (dsTx'[m] = dsTx[m] \/ dsTx'[m] = Unsent)
       /\ \A n \in DsTxs \ {m} : dsTx'[n] = dsTx[n]
       /\ dsTx'[m] = dsTx[m] \/ ~(dsRow'.there /\ dsRow'.tx[x.stage] = m)
       /\ dsTx'[m] = dsTx[m] \/ \A u \in Reconcilers \ {w} : dsSeen[u].tx # m
  <2>1. dsTx' = dsTx \/ (dsTx' = [dsTx EXCEPT ![m] = Unsent] /\ ~(dsRow'.there /\ dsRow'.tx[x.stage] = m))
    BY <1>2, <1>9 DEF Reconcile
  <2>2. dsTx' = dsTx \/ \A u \in Reconcilers \ {w} : dsSeen[u].tx # m
    BY <1>2, <1>9 DEF Reconcile
  <2> QED
    BY <2>1, <2>2, DsTyped, UnsentIs
<1>11. dsRow' \in Rows \cup {NoDsRow}
  BY <1>5 DEF Narrows
<1>12. DeletionTypeOK'
  BY <1>1, <1>5, <1>6, <1>8, <1>10, <1>11, DsTyped, DsTypedNext
<1>13. \A n \in DsTxs \ {m} : TxOK(n)' /\ TxStays(n)
  BY <1>6, <1>10, KeptTx DEF TxStays
<1>14. TxOK(m)'
  <2>1. CASE dsTx'[m] = dsTx[m]
    BY <1>6, <2>1, KeptTx
  <2>2. CASE dsTx'[m] = Unsent
    BY <2>2, UnsentIs DEF TxOK
  <2> QED
    BY <1>10, <2>1, <2>2
<1>15. \A t \in DsTasks : TaskOK(t)'
  <2>1. \A t \in DsTasks : dsTask[t].tx # None => (dsTask[t].tx \in DsTxs /\ dsTask[t].tx # m)
    BY <1>4, <1>9, DsTyped DEF DsInv, TaskOK, TaskType, WaitFor
  <2> QED
    BY <1>1, <1>6, <1>13, <2>1, KeptTask
<1>16. \A u \in Reconcilers : SeenOK(u)'
  <2>1. SeenOK(w)'
    BY <1>8 DEF SeenOK
  <2>2. \A u \in Reconcilers \ {w} : dsSeen[u] # Nothing => (dsSeen[u].tx \in DsTxs /\ TxStays(dsSeen[u].tx))
    BY <1>10, <1>13 DEF DsInv, SeenOK, TxStays
  <2>3. \A s \in Stages : \A n : (dsRow'.there /\ dsRow'.tx[s] = n /\ n # None) =>
          (dsRow.there /\ dsRow.tx[s] = n /\ dsRow'.client = dsRow.client)
    BY <1>5, RowIsThere DEF Narrows
  <2>4. \A u \in Reconcilers \ {w} : SeenOK(u)'
    BY <1>6, <1>8, <2>2, <2>3, KeptSeen
  <2> QED
    BY <2>1, <2>4
<1>17. DeletionRowOK'
  <2> SUFFICES ASSUME dsRow'.there PROVE RowShape(dsRow)' /\ TxsHeld(dsRow)'
    BY DEF DeletionRowOK
  <2>1. PICK q : dsRow' = q /\ Narrows(q, dsRow) /\ RowShape(q)
    BY <1>5, RowIsThere
  <2>2. dsRow.there /\ dsRow \in Rows /\ TxsHeld(dsRow)
    BY <1>5, RowIsThere
  <2>3. RowShape(dsRow)'
    BY <1>1, <2>1 DEF RowShape, ChainStays
  <2>4. ASSUME NEW s \in Stages, q.tx[s] # None PROVE dsTx'[q.tx[s]].kind = s /\ dsTx'[q.tx[s]].wait # "none"
    <3>1. q.tx[s] = dsRow.tx[s] /\ q.tx[s] \in DsTxs /\ dsTx[q.tx[s]].kind = s /\ dsTx[q.tx[s]].wait # "none"
      BY <2>1, <2>2, <2>4, RowColumns DEF Narrows, TxsHeld
    <3>2. q.tx[s] = m => s = x.stage
      BY <1>4, <1>9, <3>1
    <3>3. dsTx'[q.tx[s]] = dsTx[q.tx[s]]
      BY <1>10, <2>1, <3>1, <3>2
    <3> QED
      BY <3>1, <3>3
  <2>5. TxsHeld(dsRow)'
    BY <2>1, <2>4 DEF TxsHeld
  <2> QED
    BY <2>3, <2>5
<1>18. DsInv'
  BY <1>1, <1>5, <1>12, <1>13, <1>14, <1>15, <1>16, <1>17 DEF DsInv, TasksDiffer, ChainStays
<1> QED
  BY <1>5, <1>18

-----------------------------------------------------------------------------
(* The theorems.                                                           *)

LEMMA InitDsInv == ASSUME DeletionInit PROVE DsInv
<1> USE DEF DeletionInit
<1>1. Unsent \in TxType /\ NoDsTask \in TaskType /\ Nothing \in SeenType /\ ~NoDsRow.there /\ NoDsTask.tx = None /\ NoDsTask.at = "none"
  BY DEF Unsent, TxType, NoDsTask, TaskType, Nothing, SeenType, NoDsRow
<1>2. DeletionTypeOK
  BY <1>1, DeletionAssumption DEF DeletionTypeOK, DeletionAssumption, TxType, TaskType, SeenType
<1>3. DeletionRowOK /\ \A t \in DsTasks : TaskOK(t)
  BY <1>1 DEF DeletionRowOK, TaskOK
<1>4. TasksDiffer
  BY <1>1 DEF TasksDiffer
<1>5. \A m \in DsTxs : TxOK(m)
  BY UnsentIs DEF TxOK
<1>6. \A w \in Reconcilers : SeenOK(w)
  BY DEF SeenOK
<1> QED
  BY <1>2, <1>3, <1>4, <1>5, <1>6 DEF DsInv

\* A step that leaves the row alone.
LEMMA RowStays == dsRow' = dsRow => RowGoes
  BY DEF RowGoes

LEMMA DsInvNext == ASSUME DsInv, DeletionNext PROVE DsInv' /\ RowGoes
<1>1. CASE ClientTerminates \/ EndEpochPasses \/ RailIsFinal
  BY <1>1, ClockKeeps, RowStays DEF ClientTerminates, EndEpochPasses, RailIsFinal
<1>2. CASE \E m \in DsTxs : Execute(m)
  BY <1>2, ExecuteKeeps, RowStays DEF Execute
<1>3. CASE \E k \in Stages : SubmittedElsewhere(k)
  BY <1>3, ElsewhereKeeps, RowStays DEF SubmittedElsewhere
<1>4. CASE \E m \in DsTxs : ConfirmWait(m) \/ CollectWait(m)
  BY <1>4, WaitKeeps, RowStays DEF ConfirmWait, CollectWait
<1>5. CASE RequestTermination \/ ProvingFails
  BY <1>5, InsertKeeps
<1>6. CASE VerifySettle \/ SyncRails
  BY <1>6, SettledKeeps
<1>7. CASE \E s \in Stages : ScheduleStage(s)
  BY <1>7, ScheduleKeeps
<1>8. CASE \E t \in DsTasks : DoStage(t)
  BY <1>8, DoKeeps
<1>9. CASE \E t \in DsTasks : SendStage(t)
  BY <1>9, SendKeeps, RowStays DEF SendStage
<1>10. CASE \E t \in DsTasks : CommitStage(t)
  BY <1>10, CommitKeeps
<1>11. CASE \E t \in DsTasks : FinishStage(t) \/ StageGivenUp(t)
  BY <1>11, EndedTask
<1>12. CASE \E t \in DsTasks : SendRefused(t) \/ StageFails(t)
  BY <1>12, RetriedKeeps
<1>13. CASE \E w \in Reconcilers, s \in Stages, u \in BOOLEAN : Look(w, s, u)
  BY <1>13, LookKeeps, RowStays DEF Look
<1>14. CASE \E w \in Reconcilers : Reconcile(w)
  BY <1>14, ReconcileKeeps
<1>15. CASE SyncVerifier
  BY <1>15, SyncVerifierKeeps
<1> QED
  BY <1>1, <1>2, <1>3, <1>4, <1>5, <1>6, <1>7, <1>8, <1>9, <1>10, <1>11, <1>12, <1>13, <1>14, <1>15 DEF DeletionNext

LEMMA DsInvStutters == ASSUME DsInv, UNCHANGED dsVars PROVE DsInv' /\ RowGoes
<1>1. /\ ChainStays /\ dsTx' = dsTx /\ dsRow' = dsRow /\ dsLocal' = dsLocal /\ dsTask' = dsTask /\ dsSeen' = dsSeen
      /\ dsFaults' = dsFaults
  BY DEF dsVars, chainState, ChainStays
<1> QED
  BY <1>1, SameRow, SameTasks, DsTyped, RowStep DEF DsInv

LEMMA DsInvHolds == DeletionSpec => []DsInv
<1>1. DsInv /\ [DeletionNext]_dsVars => DsInv'
  BY DsInvNext, DsInvStutters
<1> QED
  BY InitDsInv, <1>1, PTL DEF DeletionSpec

\* The variables of the model keep their types: in particular the columns of
\* the row name tasks and messages that exist.
THEOREM DeletionTypesHold == DeletionSpec => []DeletionTypeOK
<1>1. DsInv => DeletionTypeOK
  BY DEF DsInv
<1> QED
  BY <1>1, DsInvHolds, PTL

\* A data set is never deleted before its rail is settled to the end, never
\* cleaned up before it is deleted, and its local rows never go before the
\* chain has forgotten it, however tasks, watchers and chain sync interleave
\* and however often attempts fail (DeleteDataSetTask.schedule,
\* CleanupPiecesTask.Do, cleanupFinalizedDataSet).
THEOREM DeletionsAreOrdered == DeletionSpec => []DeletionIsOrdered
<1>1. DsInv => DeletionIsOrdered
  BY DEF DsInv, TxOK, DeletionIsOrdered
<1> QED
  BY <1>1, DsInvHolds, PTL

\* The row of pdp_delete_data_set goes with the data set, or is a client's
\* request whose message was not sent or has failed (the foreign keys of the
\* table, processTerminations).
THEOREM RowsAreKept == DeletionSpec => RowKept
<1>1. DsInv /\ [DeletionNext]_dsVars => [RowGoes]_dsVars
  BY DsInvNext
<1>2. DeletionSpec => [][RowGoes]_dsVars
  BY <1>1, DsInvHolds, PTL DEF DeletionSpec
<1> QED
  BY <1>2 DEF RowKept, RowGoes

-----------------------------------------------------------------------------
(* The proving of a data set (DataSetProving).                             *)

Windows == Periods \cup {"none"}
MsgStates == {"none", "pending", "landed", "failed"}
ProvingRow == [init : BOOLEAN, requested : BOOLEAN, at : Windows, msg : MsgStates, failures : 0..MaxProveFailures,
               backoff : {"none", "waits", "over"}, unrecoverable : BOOLEAN]
PPTask == [kind : {"none", "init", "next"}, step : {"none", "ready", "empty", "sent"}, at : Windows, msg : MsgStates]
Proof == [step : {"none", "ready", "disable", "prove", "sent"}, at : Windows]

\* A data set that is not given up has an attempt left.
AttemptsLeft == ~proving.unrecoverable => proving.failures < MaxProveFailures

\* Given up is for good.
GivenUpForGood == proving.unrecoverable => proving'.unrecoverable

\* A message that is under way is for a window.
HasWindow(x) == x.msg = "pending" => x.at # "none"

RowTyped == proving \in ProvingRow /\ HasWindow(proving) /\ AttemptsLeft

LEMMA ProvingNumbers ==
    /\ PickerCount \in Nat /\ MaxProveFailures \in Nat /\ MaxProveTasks \in Nat /\ MaxProvingFaults \in Nat
    /\ PickerCount > 0 /\ MaxProveFailures > 0
  BY ProvingAssumption

LEMMA ShiftedWindow == ASSUME NEW at \in Windows PROVE Shift(at) \in Windows /\ (at # "none" => Shift(at) # "none")
  BY DEF Windows, Periods, Shift

\* A failed attempt: it counts, and the last one that is allowed gives the set up.
LEMMA FailureKeeps ==
    ASSUME RowTyped, NEW ended \in BOOLEAN, HandleProvingSendError(ended)
    PROVE  RowTyped' /\ GivenUpForGood
<1>1. /\ proving \in ProvingRow /\ proving.failures \in 0..MaxProveFailures /\ proving.unrecoverable \in BOOLEAN
      /\ proving.init \in BOOLEAN /\ proving.requested \in BOOLEAN
  BY DEF RowTyped, ProvingRow
<1>2. CASE proving.unrecoverable /\ proving' = proving
  BY <1>2 DEF RowTyped, HasWindow, AttemptsLeft, GivenUpForGood
<1>3. CASE ~proving.unrecoverable /\ proving' = GiveUp(proving.failures + 1)
  <2>1. proving.failures + 1 \in 0..MaxProveFailures
    BY <1>1, <1>3, ProvingNumbers DEF RowTyped, AttemptsLeft
  <2>2. PICK f \in 0..MaxProveFailures : f = proving.failures + 1
    BY <2>1
  <2>3. proving' = [proving EXCEPT !.unrecoverable = TRUE, !.failures = f, !.backoff = "none",
                                   !.init = FALSE, !.at = "none", !.msg = "none"]
    BY <1>3, <2>2 DEF GiveUp
  <2>4. proving' \in ProvingRow /\ proving'.unrecoverable /\ proving'.msg = "none"
    BY <1>1, <2>3 DEF ProvingRow, Windows, MsgStates
  <2> QED
    BY <2>4 DEF RowTyped, HasWindow, AttemptsLeft, GivenUpForGood
<1>4. CASE /\ ~(proving.failures + 1 >= MaxProveFailures)
           /\ proving' = [proving EXCEPT !.failures = proving.failures + 1, !.backoff = "waits"]
  <2>1. PICK f \in 0..MaxProveFailures : f = proving.failures + 1 /\ f < MaxProveFailures
    BY <1>1, <1>4, ProvingNumbers
  <2>2. proving' = [proving EXCEPT !.failures = f, !.backoff = "waits"]
    BY <1>4, <2>1
  <2>3. /\ proving' \in ProvingRow /\ proving'.failures = f /\ proving'.unrecoverable = proving.unrecoverable
        /\ proving'.msg = proving.msg /\ proving'.at = proving.at
    BY <1>1, <2>2 DEF ProvingRow, HasWindow
  <2> QED
    BY <2>1, <2>3 DEF RowTyped, HasWindow, AttemptsLeft, GivenUpForGood
<1> QED
  BY <1>2, <1>3, <1>4 DEF HandleProvingSendError, MarkUnrecoverable, ApplyProvingBackoff

LEMMA ResetKeeps ==
    ASSUME RowTyped, ResetProvingFailures
    PROVE  RowTyped' /\ GivenUpForGood
<1>1. proving \in ProvingRow
  BY DEF RowTyped
<1>2. 0 \in 0..MaxProveFailures /\ 0 < MaxProveFailures
  BY ProvingNumbers
<1>3. proving' = [proving EXCEPT !.failures = 0, !.backoff = "none"]
  BY DEF ResetProvingFailures
<1>4. /\ proving' \in ProvingRow /\ proving'.failures = 0 /\ proving'.unrecoverable = proving.unrecoverable
      /\ proving'.msg = proving.msg /\ proving'.at = proving.at
  BY <1>1, <1>2, <1>3 DEF ProvingRow
<1> QED
  BY <1>2, <1>4 DEF RowTyped, HasWindow, AttemptsLeft, GivenUpForGood

\* A step that leaves the count of failures and the mark of a set given up.
LEMMA SameCount ==
    ASSUME RowTyped, proving' \in ProvingRow, proving'.failures = proving.failures,
           proving'.unrecoverable = proving.unrecoverable, HasWindow(proving)'
    PROVE  RowTyped' /\ GivenUpForGood
  BY DEF RowTyped, AttemptsLeft, GivenUpForGood

RestTyped ==
    /\ inWindow \in BOOLEAN /\ answered \in BOOLEAN /\ leaves \in BOOLEAN /\ added \in BOOLEAN
    /\ challenge \in Windows
    /\ provedSince \in [at : BOOLEAN, failure : BOOLEAN]
    /\ picked \in [Kinds -> 0..PickerCount]
    /\ ppTask \in PPTask
    /\ HasWindow(ppTask)
    /\ strays \subseteq Periods
    /\ proveTask \in [ProveTasks -> Proof]
    /\ provingFaults \in 0..MaxProvingFaults

\* The columns of the row that an action writes.
LEMMA RowKeeps ==
    ASSUME RowTyped, RestTyped, ProvingNext
    PROVE  RowTyped' /\ GivenUpForGood
<1>1. /\ proving \in ProvingRow /\ proving.init \in BOOLEAN /\ proving.requested \in BOOLEAN /\ proving.at \in Windows
      /\ proving.msg \in MsgStates /\ proving.backoff \in {"none", "waits", "over"} /\ ppTask.msg \in MsgStates
      /\ ppTask.at \in Windows /\ HasWindow(proving) /\ HasWindow(ppTask)
  BY DEF RowTyped, RestTyped, ProvingRow, PPTask
<1>2. CASE PeriodEnds
  <2>1. proving' = [proving EXCEPT !.at = Shift(proving.at)] /\ Shift(proving.at) \in Windows
    BY <1>1, <1>2, ShiftedWindow DEF PeriodEnds
  <2>2. PICK a \in Windows : proving' = [proving EXCEPT !.at = a] /\ (proving.at # "none" => a # "none")
    BY <1>1, <2>1, ShiftedWindow
  <2>3. /\ proving' \in ProvingRow /\ proving'.failures = proving.failures /\ proving'.unrecoverable = proving.unrecoverable
        /\ HasWindow(proving)'
    BY <1>1, <2>2 DEF ProvingRow, HasWindow
  <2> QED
    BY <2>3, SameCount
<1>3. CASE BackoffEnds \/ RowMessageReverts \/ (\E empty \in BOOLEAN : RowMessageLands(empty)) \/ DisableInit
           \/ (\E t \in ProveTasks : AddProveTask(t))
  <2>1. \/ proving' = [proving EXCEPT !.backoff = "over"]
        \/ \E m \in {"none", "landed", "failed"} : proving' = [proving EXCEPT !.msg = m]
        \/ proving' = [proving EXCEPT !.init = FALSE]
    BY <1>3 DEF BackoffEnds, RowMessageReverts, RowMessageLands, DisableInit, AddProveTask
  <2>2. /\ proving' \in ProvingRow /\ proving'.failures = proving.failures /\ proving'.unrecoverable = proving.unrecoverable
        /\ HasWindow(proving)'
    BY <1>1, <2>1 DEF ProvingRow, MsgStates, HasWindow
  <2> QED
    BY <2>2, SameCount
<1>4. CASE InitOnAdd
  <2>1. PICK b \in BOOLEAN : b = (proving.init \/ (~proving.requested /\ proving.msg = "none" /\ proving.at = "none"))
    OBVIOUS
  <2>2. proving' = [proving EXCEPT !.init = b]
    BY <1>4, <2>1 DEF InitOnAdd
  <2>3. /\ proving' \in ProvingRow /\ proving'.failures = proving.failures /\ proving'.unrecoverable = proving.unrecoverable
        /\ HasWindow(proving)'
    BY <1>1, <2>2 DEF ProvingRow, HasWindow
  <2> QED
    BY <2>3, SameCount
<1>5. CASE ResetToInit \/ CommitPP \/ (\E t \in ProveTasks : DisableProving(t))
  <2>1. \/ proving' = [proving EXCEPT !.msg = "none", !.at = "none", !.init = TRUE, !.requested = FALSE]
        \/ proving' = [proving EXCEPT !.msg = ppTask.msg, !.at = ppTask.at, !.requested = TRUE]
        \/ proving' = [proving EXCEPT !.msg = "none", !.at = "none", !.init = FALSE, !.requested = FALSE]
    BY <1>5 DEF ResetToInit, CommitPP, DisableProving
  <2>2. /\ proving' \in ProvingRow /\ proving'.failures = proving.failures /\ proving'.unrecoverable = proving.unrecoverable
        /\ HasWindow(proving)'
    BY <1>1, <2>1 DEF ProvingRow, MsgStates, Windows, HasWindow
  <2> QED
    BY <2>2, SameCount
<1>6. CASE (\E ended \in BOOLEAN : SendPPRefused(ended))
           \/ (\E t \in ProveTasks, ended \in BOOLEAN : SendProofRefused(t, ended))
  BY <1>6, FailureKeeps DEF SendPPRefused, SendProofRefused
<1>7. CASE SyncFailures \/ (\E t \in ProveTasks, reset \in BOOLEAN : FinishProof(t, reset))
  <2>1. ResetProvingFailures \/ proving' = proving
    BY <1>7 DEF SyncFailures, FinishProof
  <2> QED
    BY <1>1, <2>1, ResetKeeps, SameCount
<1>8. CASE proving' = proving
  BY <1>1, <1>8, SameCount DEF HasWindow
<1>9. \/ proving' = proving
      \/ PeriodEnds \/ BackoffEnds \/ RowMessageReverts \/ DisableInit \/ InitOnAdd \/ ResetToInit \/ CommitPP
      \/ SyncFailures
      \/ \E empty \in BOOLEAN : RowMessageLands(empty)
      \/ \E ended \in BOOLEAN : SendPPRefused(ended)
      \/ \E t \in ProveTasks : AddProveTask(t) \/ DisableProving(t)
      \/ \E t \in ProveTasks, ended \in BOOLEAN : SendProofRefused(t, ended)
      \/ \E t \in ProveTasks, reset \in BOOLEAN : FinishProof(t, reset)
  BY DEF ProvingNext, WindowOpens, AddPieces, TaskMessageLands, TaskMessageReverts, StrayLands, StrayReverts,
     PickPP, Pick, AddPPTask, AddPPTaskFails, PPIsVoid, FindNoLeaves, SendPP, PPFails, SkipProof, ReadChallenge,
     SendProof, ProofFails
<1> QED
  BY <1>2, <1>3, <1>4, <1>5, <1>6, <1>7, <1>8, <1>9

\* The chain, as far as it is seen, and the bound on faults.
LEMMA ChainKeeps ==
    ASSUME RowTyped, RestTyped, ProvingNext
    PROVE  /\ inWindow' \in BOOLEAN /\ answered' \in BOOLEAN /\ leaves' \in BOOLEAN /\ added' \in BOOLEAN
           /\ challenge' \in Windows /\ provingFaults' \in 0..MaxProvingFaults
<1>1. CASE \/ WindowOpens \/ PeriodEnds \/ AddPieces \/ InitOnAdd
           \/ \E t \in ProveTasks : SendProof(t)
  <2>1. /\ inWindow' \in BOOLEAN /\ answered' \in BOOLEAN /\ leaves' \in BOOLEAN /\ added' \in BOOLEAN
        /\ provingFaults' = provingFaults /\ challenge' \in {challenge, Shift(challenge)}
    BY <1>1 DEF WindowOpens, PeriodEnds, AddPieces, InitOnAdd, SendProof, RestTyped
  <2> QED
    BY <2>1, ShiftedWindow DEF RestTyped
<1>2. CASE \/ \E empty \in BOOLEAN : RowMessageLands(empty) \/ TaskMessageLands(empty)
           \/ \E at \in Periods, empty \in BOOLEAN : StrayLands(at, empty)
           \/ RowMessageReverts \/ TaskMessageReverts
           \/ \E at \in Periods : StrayReverts(at)
  <2>1. UNCHANGED <<inWindow, added>>
    BY <1>2 DEF RowMessageLands, TaskMessageLands, StrayLands, RowMessageReverts, TaskMessageReverts, StrayReverts
  <2>2. \E at \in Windows : Reverts(at) \/ \E empty \in BOOLEAN : Lands(at, empty)
    <3>1. proving.at \in Windows /\ ppTask.at \in Windows /\ Periods \subseteq Windows
      BY DEF RowTyped, RestTyped, ProvingRow, PPTask, Windows
    <3> QED
      BY <1>2, <3>1 DEF RowMessageLands, TaskMessageLands, StrayLands, RowMessageReverts, TaskMessageReverts, StrayReverts
  <2>3. PICK at \in Windows : Reverts(at) \/ \E empty \in BOOLEAN : Lands(at, empty)
    BY <2>2
  <2>4. provingFaults' = provingFaults \/ ProvingFault
    BY <2>3 DEF Lands, Reverts
  <2>5. provingFaults' \in 0..MaxProvingFaults
    BY <2>4, ProvingNumbers DEF RestTyped, ProvingFault
  <2>6. answered' \in BOOLEAN /\ leaves' \in BOOLEAN /\ challenge' \in Windows
    <3>1. CASE Reverts(at)
      BY <3>1 DEF Reverts, RestTyped
    <3>2. ASSUME NEW empty \in BOOLEAN, Lands(at, empty)
          PROVE  answered' \in BOOLEAN /\ leaves' \in BOOLEAN /\ challenge' \in Windows
      BY <3>2 DEF Lands, Windows
    <3> QED
      BY <2>3, <3>1, <3>2
  <2> QED
    BY <2>1, <2>5, <2>6 DEF RestTyped
<1>3. CASE ~(\/ WindowOpens \/ PeriodEnds \/ AddPieces \/ InitOnAdd
             \/ \E t \in ProveTasks : SendProof(t)
             \/ \E empty \in BOOLEAN : RowMessageLands(empty) \/ TaskMessageLands(empty)
             \/ \E at \in Periods, empty \in BOOLEAN : StrayLands(at, empty)
             \/ RowMessageReverts \/ TaskMessageReverts
             \/ \E at \in Periods : StrayReverts(at))
  <2>1. UNCHANGED <<inWindow, challenge, answered, leaves, added>> /\ (provingFaults' = provingFaults \/ ProvingFault)
    BY <1>3 DEF ProvingNext, BackoffEnds, PickPP, Pick, AddPPTask, AddPPTaskFails, PPIsVoid, ResetToInit, FindNoLeaves,
       DisableInit, SendPP, SendPPRefused, CommitPP, PPFails, AddProveTask, SkipProof, ReadChallenge,
       DisableProving, SendProofRefused, FinishProof, ProofFails, SyncFailures
  <2> QED
    BY <2>1, ProvingNumbers DEF RestTyped, ProvingFault
<1> QED
  BY <1>1, <1>2, <1>3

\* What remembers a proof.
LEMMA ProvedSinceKeeps ==
    ASSUME RowTyped, RestTyped, ProvingNext
    PROVE  provedSince' \in [at : BOOLEAN, failure : BOOLEAN]
<1>1. /\ provedSince \in [at : BOOLEAN, failure : BOOLEAN]
      /\ (proving.at \in {"past", "now"}) \in BOOLEAN /\ (proving.failures > 0) \in BOOLEAN
  BY DEF RowTyped, RestTyped, ProvingRow
<1>2. \/ provedSince' = provedSince
      \/ provedSince' = [provedSince EXCEPT !.at = FALSE]
      \/ provedSince' = [provedSince EXCEPT !.failure = FALSE]
      \/ provedSince' = [at |-> proving.at \in {"past", "now"}, failure |-> proving.failures > 0]
  BY DEF ProvingNext, WindowOpens, PeriodEnds, BackoffEnds, AddPieces, RowMessageLands, RowMessageReverts,
     TaskMessageLands, TaskMessageReverts, StrayLands, StrayReverts, InitOnAdd, PickPP, Pick, AddPPTask,
     AddPPTaskFails, PPIsVoid, ResetToInit, FindNoLeaves, DisableInit, SendPP, SendPPRefused, CommitPP, PPFails,
     AddProveTask, SkipProof, ReadChallenge, DisableProving, SendProof, SendProofRefused, FinishProof, ProofFails,
     SyncFailures, HandleProvingSendError, ResetProvingFailures
<1>3. PICK a \in BOOLEAN, f \in BOOLEAN : a = (proving.at \in {"past", "now"}) /\ f = (proving.failures > 0)
  BY <1>1
<1>4. CASE provedSince' = [at |-> proving.at \in {"past", "now"}, failure |-> proving.failures > 0]
  <2>1. provedSince' = [at |-> a, failure |-> f]
    BY <1>3, <1>4
  <2> QED
    BY <2>1
<1> QED
  BY <1>1, <1>2, <1>4

\* Nodes that have selected the row: never more than there are.
LEMMA PickedKeeps ==
    ASSUME RestTyped, ProvingNext
    PROVE  picked' \in [Kinds -> 0..PickerCount]
<1>1. picked \in [Kinds -> 0..PickerCount] /\ "init" \in Kinds /\ "next" \in Kinds
  BY DEF RestTyped, Kinds
<1>2. picked' = picked \/ \E k \in Kinds : Pick(k) \/ (picked[k] > 0 /\ picked' = [picked EXCEPT ![k] = @ - 1])
  BY DEF ProvingNext, WindowOpens, PeriodEnds, BackoffEnds, AddPieces, RowMessageLands, RowMessageReverts,
     TaskMessageLands, TaskMessageReverts, StrayLands, StrayReverts, InitOnAdd, PickPP, AddPPTask,
     AddPPTaskFails, PPIsVoid, ResetToInit, FindNoLeaves, DisableInit, SendPP, SendPPRefused, CommitPP, PPFails,
     AddProveTask, SkipProof, ReadChallenge, DisableProving, SendProof, SendProofRefused, FinishProof, ProofFails,
     SyncFailures
<1>3. ASSUME NEW k \in Kinds, Pick(k)
      PROVE  picked' \in [Kinds -> 0..PickerCount]
  <2>1. picked[k] + 1 \in 0..PickerCount
    BY <1>1, <1>3, ProvingNumbers DEF Pick, Kinds
  <2> QED
    BY <1>1, <1>3, <2>1 DEF Pick
<1>4. ASSUME NEW k \in Kinds, picked[k] > 0, picked' = [picked EXCEPT ![k] = @ - 1]
      PROVE  picked' \in [Kinds -> 0..PickerCount]
  <2>1. picked[k] - 1 \in 0..PickerCount
    BY <1>1, <1>4, ProvingNumbers
  <2> QED
    BY <1>1, <1>4, <2>1
<1> QED
  BY <1>1, <1>2, <1>3, <1>4

\* The task that schedules a period.
LEMMA PPTaskKeeps ==
    ASSUME RestTyped, ProvingNext
    PROVE  ppTask' \in PPTask /\ HasWindow(ppTask)'
<1>1. HasWindow(ppTask) /\ ppTask \in PPTask /\ ppTask.at \in Windows /\ ppTask.kind \in {"none", "init", "next"}
  BY DEF RestTyped, PPTask
<1>2. NoPP \in PPTask /\ NoPP.msg = "none"
  BY DEF NoPP, PPTask, Windows, MsgStates
<1>3. \/ ppTask' = ppTask
      \/ ppTask' = NoPP
      \/ \E k \in {"none", "init", "next"} : ppTask' = [NoPP EXCEPT !.kind = k, !.step = "ready"]
      \/ ppTask' = [ppTask EXCEPT !.at = Shift(ppTask.at)]
      \/ \E m \in {"landed", "failed"} : ppTask' = [ppTask EXCEPT !.msg = m]
      \/ ppTask' = [ppTask EXCEPT !.step = "empty"]
      \/ ppTask' = [ppTask EXCEPT !.step = "sent", !.at = PPWindow, !.msg = "pending"]
  BY <1>1 DEF Kinds, ProvingNext, WindowOpens, PeriodEnds, BackoffEnds, AddPieces, RowMessageLands, RowMessageReverts,
     TaskMessageLands, TaskMessageReverts, StrayLands, StrayReverts, InitOnAdd, PickPP, Pick, AddPPTask,
     AddPPTaskFails, PPIsVoid, ResetToInit, FindNoLeaves, DisableInit, SendPP, SendPPRefused, CommitPP, PPFails,
     AddProveTask, SkipProof, ReadChallenge, DisableProving, SendProof, SendProofRefused, FinishProof, ProofFails,
     SyncFailures
<1>4. Shift(ppTask.at) \in Windows /\ PPWindow \in Windows /\ PPWindow # "none" /\ (ppTask.at # "none" => Shift(ppTask.at) # "none")
  <2>1. PPWindow \in Windows /\ PPWindow # "none"
    BY DEF PPWindow, Windows, Periods
  <2> QED
    BY <1>1, <2>1, ShiftedWindow
<1>5. PICK a \in Windows, w \in Windows \ {"none"} : a = Shift(ppTask.at) /\ w = PPWindow
  BY <1>4
<1> QED
  BY <1>1, <1>2, <1>3, <1>4, <1>5 DEF PPTask, MsgStates, HasWindow

LEMMA NamedPeriods == ASSUME RowTyped PROVE Named \subseteq Periods
<1>1. proving.at \in Periods \cup {"none"}
  BY DEF RowTyped, ProvingRow, Windows
<1> QED
  BY <1>1 DEF Named, RowTyped, HasWindow

\* The messages that are on their way.
LEMMA StraysKeep ==
    ASSUME RowTyped, RestTyped, ProvingNext
    PROVE  strays' \subseteq Periods
<1>1. strays \subseteq Periods /\ Named \subseteq Periods /\ ppTask.at \in Windows
  BY NamedPeriods DEF RestTyped, PPTask
<1>2. CASE PeriodEnds
  <2>1. \A at \in strays : Shift(at) \in Periods
    BY <1>1 DEF Shift, Periods
  <2> QED
    BY <1>2, <2>1 DEF PeriodEnds
<1>3. CASE \E last \in BOOLEAN : PPFails(last)
  <2>1. ppTask.msg = "pending" => ppTask.at \in Periods
    BY <1>1 DEF Windows, RestTyped, HasWindow
  <2> QED
    BY <1>1, <1>3, <2>1 DEF PPFails
<1>4. CASE ~PeriodEnds /\ ~\E last \in BOOLEAN : PPFails(last)
  <2>1. strays' \subseteq strays \cup Named
    BY <1>4 DEF ProvingNext, WindowOpens, BackoffEnds, AddPieces, RowMessageLands, RowMessageReverts,
       TaskMessageLands, TaskMessageReverts, StrayLands, StrayReverts, InitOnAdd, PickPP, Pick, AddPPTask,
       AddPPTaskFails, PPIsVoid, ResetToInit, FindNoLeaves, DisableInit, SendPP, SendPPRefused, CommitPP,
       AddProveTask, SkipProof, ReadChallenge, DisableProving, SendProof, SendProofRefused, FinishProof, ProofFails,
       SyncFailures, HandleProvingSendError, MarkUnrecoverable, ApplyProvingBackoff
  <2> QED
    BY <1>1, <2>1
<1> QED
  BY <1>2, <1>3, <1>4

\* The proof tasks.
LEMMA ProofsKeep ==
    ASSUME RestTyped, ProvingNext
    PROVE  proveTask' \in [ProveTasks -> Proof]
<1>1. proveTask \in [ProveTasks -> Proof] /\ challenge \in Windows /\ "none" \in Windows
  BY DEF RestTyped, Windows
<1>2. CASE PeriodEnds
  <2>1. ASSUME NEW t \in ProveTasks
        PROVE  [proveTask[t] EXCEPT !.at = Shift(@)] \in Proof
    <3>1. PICK a \in Windows : a = Shift(proveTask[t].at)
      BY <1>1, ShiftedWindow DEF Proof
    <3> QED
      BY <1>1, <3>1 DEF Proof
  <2> QED
    BY <1>2, <2>1 DEF PeriodEnds
<1>3. CASE ~PeriodEnds
  <2>1. \/ proveTask' = proveTask
        \/ \E t \in ProveTasks, step \in {"none", "ready", "disable", "prove", "sent"}, at \in Windows : ProveAt(t, step, at)
    BY <1>1, <1>3 DEF ProvingNext, WindowOpens, BackoffEnds, AddPieces, RowMessageLands, RowMessageReverts,
       TaskMessageLands, TaskMessageReverts, StrayLands, StrayReverts, InitOnAdd, PickPP, Pick, AddPPTask,
       AddPPTaskFails, PPIsVoid, ResetToInit, FindNoLeaves, DisableInit, SendPP, SendPPRefused, CommitPP, PPFails,
       AddProveTask, SkipProof, ReadChallenge, DisableProving, SendProof, SendProofRefused, FinishProof, ProofFails,
       SyncFailures
  <2>2. ASSUME NEW t \in ProveTasks, NEW step \in {"none", "ready", "disable", "prove", "sent"}, NEW at \in Windows,
               ProveAt(t, step, at)
        PROVE  proveTask' \in [ProveTasks -> Proof]
    <3>1. [step |-> step, at |-> at] \in Proof
      BY DEF Proof
    <3> QED
      BY <1>1, <2>2, <3>1 DEF ProveAt
  <2> QED
    BY <1>1, <2>1, <2>2
<1> QED
  BY <1>2, <1>3

LEMMA ProvingInductive ==
    /\ ProvingInit => RowTyped /\ RestTyped
    /\ RowTyped /\ RestTyped /\ [ProvingNext]_provingVars => RowTyped' /\ RestTyped' /\ GivenUpForGood
    /\ RowTyped /\ RestTyped => ProvingTypeOK
<1>1. ASSUME ProvingInit
      PROVE  RowTyped /\ RestTyped
  <2>1. NotProving \in ProvingRow /\ NotProving.failures = 0 /\ NotProving.msg = "none"
    BY ProvingNumbers DEF NotProving, ProvingRow, Windows, MsgStates
  <2>2. NoPP \in PPTask /\ NoPP.msg = "none" /\ NoProof \in Proof
    BY DEF NoPP, NoProof, PPTask, Proof, Windows, MsgStates
  <2>3. RowTyped
    BY <1>1, <2>1, ProvingNumbers DEF ProvingInit, RowTyped, HasWindow, AttemptsLeft
  <2>4. picked \in [Kinds -> 0..PickerCount] /\ provingFaults \in 0..MaxProvingFaults
    BY <1>1, ProvingNumbers DEF ProvingInit
  <2>5. challenge \in Windows /\ provedSince \in [at : BOOLEAN, failure : BOOLEAN] /\ strays \subseteq Periods
    BY <1>1 DEF ProvingInit, Windows
  <2>6. inWindow \in BOOLEAN /\ answered \in BOOLEAN /\ leaves \in BOOLEAN /\ added \in BOOLEAN
    BY <1>1, Zenon DEF ProvingInit
  <2>7. ppTask \in PPTask /\ HasWindow(ppTask) /\ proveTask \in [ProveTasks -> Proof]
    BY <1>1, <2>2 DEF ProvingInit, HasWindow
  <2> QED
    BY <2>3, <2>4, <2>5, <2>6, <2>7 DEF RestTyped
<1>2. ASSUME RowTyped, RestTyped, ProvingNext
      PROVE  RowTyped' /\ RestTyped' /\ GivenUpForGood
  <2>1. RestTyped'
    BY <1>2, ChainKeeps, ProvedSinceKeeps, PickedKeeps, PPTaskKeeps, StraysKeep, ProofsKeep DEF RestTyped
  <2> QED
    BY <1>2, <2>1, RowKeeps
<1>3. ASSUME RowTyped, RestTyped, UNCHANGED provingVars
      PROVE  RowTyped' /\ RestTyped' /\ GivenUpForGood
  BY <1>3 DEF provingVars, RowTyped, RestTyped, HasWindow, AttemptsLeft, GivenUpForGood
<1>4. RowTyped /\ RestTyped => ProvingTypeOK
  BY DEF RowTyped, RestTyped, ProvingTypeOK, ProvingRow, PPTask, Proof, Windows, MsgStates
<1> QED
  BY <1>1, <1>2, <1>3, <1>4

\* The row, the tasks and the messages of a data set keep their types; above
\* all consecutive_prove_failures never exceeds MaxConsecutiveFailures, however
\* many tasks fail at a time.
THEOREM ProvingTypesHold == ProvingSpec => []ProvingTypeOK
  BY ProvingInductive, PTL DEF ProvingSpec

\* A data set that has failed as often as is allowed has been given up: the
\* failures of tasks of both kinds, the end of the service, resets that are lost
\* and the watcher's own never leave it in between.
THEOREM SetsAreGivenUpInTime == ProvingSpec => []AttemptsLeft
<1>1. RowTyped => AttemptsLeft
  BY DEF RowTyped
<1> QED
  BY <1>1, ProvingInductive, PTL DEF ProvingSpec

\* Nothing takes up a data set again that was given up: a proof that lands
\* afterwards, pieces that are added, a reset to the first period.
THEOREM GivenUpIsForGood == ProvingSpec => [][GivenUpForGood]_provingVars
  BY ProvingInductive, PTL DEF ProvingSpec
=============================================================================

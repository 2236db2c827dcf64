------------------------- MODULE SealPipelineProofs -------------------------
(***************************************************************************)
(* Theorems about SealPipeline, for any number of sectors, nodes that      *)
(* poll, faults and restarts.                                              *)
(***************************************************************************)
EXTENDS SealPipeline, FiniteSetTheorems, WellFoundedInduction, TLAPS

-----------------------------------------------------------------------------
(* The order of the stages.                                                *)

LEMMA BeforeIs ==
    /\ Before("sdr") = {}
    /\ Before("treed") = {"sdr"}
    /\ Before("treerc") = {"sdr", "treed"}
    /\ Before("synth") = {"sdr", "treed", "treerc"}
    /\ Before("precommit") = {"sdr", "treed", "treerc", "synth"}
    /\ Before("precommitOk") = {"sdr", "treed", "treerc", "synth", "precommit"}
    /\ Before("porep") = {"sdr", "treed", "treerc", "synth", "precommit", "precommitOk"}
    /\ Before("finalize") = {"sdr", "treed", "treerc", "synth", "precommit", "precommitOk", "porep"}
    /\ Before("move") = {"sdr", "treed", "treerc", "synth", "precommit", "precommitOk", "porep", "finalize"}
<1>1. Len(Order) = 9
  BY DEF Order
<1>2. /\ Order[1] = "sdr" /\ Order[2] = "treed" /\ Order[3] = "treerc" /\ Order[4] = "synth"
      /\ Order[5] = "precommit" /\ Order[6] = "precommitOk" /\ Order[7] = "porep"
      /\ Order[8] = "finalize" /\ Order[9] = "move"
  BY DEF Order
<1>3. ASSUME NEW n \in 1 .. 9
      PROVE  Index(Order[n]) = n
  <2>1. \A m \in 1 .. 9 : Order[m] = Order[n] => m = n
    BY <1>2
  <2> QED
    BY <1>1, <2>1 DEF Index
<1>4. ASSUME NEW n \in 1 .. 9
      PROVE  Before(Order[n]) = {Order[m] : m \in 1 .. (n - 1)}
  BY <1>3 DEF Before
<1>5. Before("sdr") = {} /\ Before("treed") = {"sdr"} /\ Before("treerc") = {"sdr", "treed"}
  <2>1. /\ Before("sdr") = {Order[m] : m \in 1 .. (1 - 1)}
        /\ Before("treed") = {Order[m] : m \in 1 .. (2 - 1)}
        /\ Before("treerc") = {Order[m] : m \in 1 .. (3 - 1)}
    BY <1>2, <1>4
  <2> QED
    BY <1>2, <2>1
<1>6. /\ Before("synth") = {"sdr", "treed", "treerc"}
      /\ Before("precommit") = {"sdr", "treed", "treerc", "synth"}
      /\ Before("precommitOk") = {"sdr", "treed", "treerc", "synth", "precommit"}
  <2>1. /\ Before("synth") = {Order[m] : m \in 1 .. (4 - 1)}
        /\ Before("precommit") = {Order[m] : m \in 1 .. (5 - 1)}
        /\ Before("precommitOk") = {Order[m] : m \in 1 .. (6 - 1)}
    BY <1>2, <1>4
  <2> QED
    BY <1>2, <2>1
<1>7. /\ Before("porep") = {"sdr", "treed", "treerc", "synth", "precommit", "precommitOk"}
      /\ Before("finalize") = {"sdr", "treed", "treerc", "synth", "precommit", "precommitOk", "porep"}
      /\ Before("move") = {"sdr", "treed", "treerc", "synth", "precommit", "precommitOk", "porep", "finalize"}
  <2>1. /\ Before("porep") = {Order[m] : m \in 1 .. (7 - 1)}
        /\ Before("finalize") = {Order[m] : m \in 1 .. (8 - 1)}
        /\ Before("move") = {Order[m] : m \in 1 .. (9 - 1)}
    BY <1>2, <1>4
  <2> QED
    BY <1>2, <2>1
<1> QED
  BY <1>5, <1>6, <1>7

LEMMA Ranges ==
    /\ Range(Order) = (Single \cup {"precommit", "precommitOk"})
    /\ Range(Steps) = (Single \cup {"precommitLanded", "precommitResult", "startEpoch", "commitLanded", "commitResult"})
<1>1. DOMAIN Order = 1 .. 9 /\ DOMAIN Steps = 1 .. 12
  BY DEF Order, Steps
<1>2. /\ Order[1] = "sdr" /\ Order[2] = "treed" /\ Order[3] = "treerc" /\ Order[4] = "synth"
      /\ Order[5] = "precommit" /\ Order[6] = "precommitOk" /\ Order[7] = "porep"
      /\ Order[8] = "finalize" /\ Order[9] = "move"
  BY DEF Order
<1>3. /\ Steps[1] = "sdr" /\ Steps[2] = "treed" /\ Steps[3] = "treerc" /\ Steps[4] = "synth"
      /\ Steps[5] = "precommitLanded" /\ Steps[6] = "precommitResult" /\ Steps[7] = "porep"
      /\ Steps[8] = "startEpoch" /\ Steps[9] = "finalize" /\ Steps[10] = "move"
      /\ Steps[11] = "commitLanded" /\ Steps[12] = "commitResult"
  BY DEF Steps
<1>4. Range(Order) = (Single \cup {"precommit", "precommitOk"})
  BY <1>1, <1>2 DEF Range, Single
<1>5. Range(Steps) = (Single \cup {"precommitLanded", "precommitResult", "startEpoch", "commitLanded", "commitResult"})
  BY <1>1, <1>3 DEF Range, Single
<1> QED
  BY <1>4, <1>5

-----------------------------------------------------------------------------
(* Tables with a row more or less, and new names.                          *)

LEMMA WithRow ==
    ASSUME NEW f, NEW x, NEW v
    PROVE  /\ DOMAIN With(f, x, v) = DOMAIN f \cup {x} /\ With(f, x, v)[x] = v
           /\ \A y \in DOMAIN f : y # x => With(f, x, v)[y] = f[y]
           /\ With(f, x, v) = [y \in DOMAIN f \cup {x} |-> IF y = x THEN v ELSE f[y]]
  BY DEF With

LEMMA WithoutRow ==
    ASSUME NEW f, NEW x
    PROVE  /\ DOMAIN Without(f, x) = DOMAIN f \ {x}
           /\ \A y \in DOMAIN f \ {x} : Without(f, x)[y] = f[y]
           /\ Without(f, x) = [y \in DOMAIN f \ {x} |-> f[y]]
  BY DEF Without, Restrict

\* A set of natural numbers has a least element.
LEMMA LeastOf ==
    ASSUME NEW S \in SUBSET Nat, S # {}
    PROVE  \E i \in S : \A j \in S : i <= j
<1>1. PICK i \in S : \A j \in S : ~(<<j, i>> \in OpToRel(<, Nat))
  BY NatLessThanWellFounded, WFMin, Zenon
<1>2. \A j \in S : ~(j < i)
  BY <1>1 DEF OpToRel
<1> QED
  BY <1>2

\* The names of a stage and a sector.
LEMMA FirstName ==
    ASSUME NEW x, NEW b, NEW S \in SUBSET {<<x, b, n>> : n \in 1 .. MaxNames}, S # {}
    PROVE  First(S) \in S
<1> DEFINE N == {n \in 1 .. MaxNames : <<x, b, n>> \in S}
<1>1. N \in SUBSET Nat /\ N # {}
  OBVIOUS
<1>2. PICK n \in N : \A m \in N : n <= m
  BY <1>1, LeastOf
<1>3. \A j \in S : <<x, b, n>>[3] <= j[3]
  <2> SUFFICES ASSUME NEW j \in S PROVE n <= j[3]
    OBVIOUS
  <2>1. PICK m \in 1 .. MaxNames : j = <<x, b, m>>
    OBVIOUS
  <2> QED
    BY <1>2, <2>1
<1>4. \E i \in S : \A j \in S : i[3] <= j[3]
  BY <1>2, <1>3
<1> QED
  BY <1>4 DEF First

-----------------------------------------------------------------------------
(* Rows.                                                                   *)

RowType == [after : SUBSET Flags, task : [Stages -> Ids \cup {NoTask}],
            cid : [Batched -> MsgIds \cup {NoMsg}], failed : BOOLEAN]

\* The columns of a sector that matter here.
After(s)     == row[s].after
TaskAt(s, x) == row[s].task[x]
CidAt(s, x)  == row[s].cid[x]

\* What the UPDATE statements make of a row.
Assigned(r, x, i)   == [r EXCEPT !.task[x] = i]
Completed(r, x)     == [r EXCEPT !.after = @ \cup {x}, !.task[x] = NoTask]
Submitted(r, x, m)  == [r EXCEPT !.after = @ \cup {x}, !.task[x] = NoTask, !.cid[x] = m]
Retracted(r, x)     == [r EXCEPT !.after = @ \ {x}, !.task[x] = NoTask, !.cid[x] = NoMsg]
Cleared(r)          == [r EXCEPT !.after = @ \ {"treed", "treerc", "synth"},
                                 !.task["treerc"] = NoTask, !.task["synth"] = NoTask]
Failing(r)          == [r EXCEPT !.failed = TRUE, !.task["precommit"] = NoTask]

LEMMA StageSets ==
    /\ Single \subseteq Stages /\ Batched \subseteq Stages /\ Stages \subseteq Flags
    /\ "precommitOk" \in Flags /\ "startEpoch" \in Flags /\ "commitOk" \in Flags
    /\ "treerc" \in Stages /\ "synth" \in Stages /\ "precommit" \in Batched /\ "commit" \in Batched
    /\ \A x \in Batched : x \notin Single
  BY DEF Single, Batched, Stages, Flags

TaskColumns == [Stages -> Ids \cup {NoTask}]
CidColumns  == [Batched -> MsgIds \cup {NoMsg}]

LEMMA RowWithTask ==
    ASSUME NEW r \in RowType, NEW f \in TaskColumns
    PROVE  [r EXCEPT !.task = f] \in RowType
  BY Zenon DEF RowType, TaskColumns

LEMMA RowWithAfter ==
    ASSUME NEW r \in RowType, NEW A \in SUBSET Flags
    PROVE  [r EXCEPT !.after = A] \in RowType
  BY Zenon DEF RowType

LEMMA RowWithBoth ==
    ASSUME NEW r \in RowType, NEW A \in SUBSET Flags, NEW f \in TaskColumns
    PROVE  [r EXCEPT !.after = A, !.task = f] \in RowType
  BY Zenon DEF RowType, TaskColumns

LEMMA RowWithAll ==
    ASSUME NEW r \in RowType, NEW A \in SUBSET Flags, NEW f \in TaskColumns, NEW c \in CidColumns
    PROVE  [r EXCEPT !.after = A, !.task = f, !.cid = c] \in RowType
  BY Zenon DEF RowType, TaskColumns, CidColumns

LEMMA RowThatFails ==
    ASSUME NEW r \in RowType, NEW f \in TaskColumns
    PROVE  [r EXCEPT !.failed = TRUE, !.task = f] \in RowType
  BY Zenon DEF RowType, TaskColumns

LEMMA RowUpdates ==
    ASSUME NEW r \in RowType, NEW x \in Stages, NEW y \in Batched, NEW z \in Flags,
           NEW i \in Ids \cup {NoTask}, NEW m \in MsgIds \cup {NoMsg}
    PROVE  /\ Assigned(r, x, i) \in RowType /\ Mark(r, z) \in RowType /\ Completed(r, x) \in RowType
           /\ Submitted(r, y, m) \in RowType /\ Retracted(r, y) \in RowType /\ Cleared(r) \in RowType
           /\ Failing(r) \in RowType
<1> DEFINE A1 == r.after \cup {z}
           A2 == r.after \cup {x}
           A3 == r.after \cup {y}
           A4 == r.after \ {y}
           A5 == r.after \ {"treed", "treerc", "synth"}
           f1 == [r.task EXCEPT ![x] = i]
           f2 == [r.task EXCEPT ![x] = NoTask]
           f3 == [r.task EXCEPT ![y] = NoTask]
           f4 == [r.task EXCEPT !["treerc"] = NoTask, !["synth"] = NoTask]
           f5 == [r.task EXCEPT !["precommit"] = NoTask]
           c1 == [r.cid EXCEPT ![y] = m]
           c2 == [r.cid EXCEPT ![y] = NoMsg]
<1>1. r.after \in SUBSET Flags /\ r.task \in [Stages -> Ids \cup {NoTask}] /\ r.cid \in [Batched -> MsgIds \cup {NoMsg}]
  BY DEF RowType
<1>2. A1 \in SUBSET Flags /\ A2 \in SUBSET Flags /\ A3 \in SUBSET Flags /\ A4 \in SUBSET Flags /\ A5 \in SUBSET Flags
  BY <1>1, StageSets
<1>3. f1 \in TaskColumns /\ f2 \in TaskColumns /\ f3 \in TaskColumns /\ f4 \in TaskColumns /\ f5 \in TaskColumns
  BY <1>1, StageSets DEF TaskColumns
<1>4. c1 \in CidColumns /\ c2 \in CidColumns
  BY <1>1 DEF CidColumns
<1>5. /\ Assigned(r, x, i) = [r EXCEPT !.task = f1]
      /\ Mark(r, z) = [r EXCEPT !.after = A1]
      /\ Completed(r, x) = [r EXCEPT !.after = A2, !.task = f2]
      /\ Submitted(r, y, m) = [r EXCEPT !.after = A3, !.task = f3, !.cid = c1]
      /\ Retracted(r, y) = [r EXCEPT !.after = A4, !.task = f3, !.cid = c2]
      /\ Failing(r) = [r EXCEPT !.failed = TRUE, !.task = f5]
  BY Zenon DEF Assigned, Mark, Completed, Submitted, Retracted, Failing
<1>6. Cleared(r) = [r EXCEPT !.after = A5, !.task = f4]
  BY <1>1 DEF Cleared, RowType
<1> HIDE DEF A1, A2, A3, A4, A5, f1, f2, f3, f4, f5, c1, c2
<1>7. /\ [r EXCEPT !.task = f1] \in RowType /\ [r EXCEPT !.failed = TRUE, !.task = f5] \in RowType
      /\ [r EXCEPT !.after = A1] \in RowType
  BY <1>2, <1>3, RowWithTask, RowThatFails, RowWithAfter, Zenon
<1>8. [r EXCEPT !.after = A2, !.task = f2] \in RowType /\ [r EXCEPT !.after = A5, !.task = f4] \in RowType
  BY <1>2, <1>3, RowWithBoth, Zenon
<1>9. [r EXCEPT !.after = A3, !.task = f3, !.cid = c1] \in RowType
  BY <1>2, <1>3, <1>4, RowWithAll, Zenon
<1>10. [r EXCEPT !.after = A4, !.task = f3, !.cid = c2] \in RowType
  BY <1>2, <1>3, <1>4, RowWithAll, Zenon
<1> QED
  BY <1>5, <1>6, <1>7, <1>8, <1>9, <1>10, Zenon

-----------------------------------------------------------------------------
(* Types, over the set R of the sectors in the pipeline.                   *)

TaskType(R)   == [fails : 0..(MaxFailures - 1), sectors : SUBSET R, msg : MsgIds \cup {NoMsg},
                  at : {"queued", "work", "send", "update", "wait"}]
TodoType(R)   == [step : Range(Steps), sector : R, msg : MsgIds \cup {NoMsg}]
PollerType(R) == [at : {"idle", "sectors", "commit"}, todo : SUBSET TodoType(R)]
MsgType(R)    == [sectors : SUBSET R, watched : BOOLEAN, state : {"sent", "ok", "gas", "rejected"}]
FaultType     == [kinds : SUBSET FaultKinds, met : 0..MaxFaults, torn : BOOLEAN]

RowsIn(R)    == R \subseteq Sectors /\ row \in [R -> RowType]
TasksIn(R)   == Tasks \subseteq Ids /\ task \in [Tasks -> TaskType(R)]
PollersIn(R) == poller \in [Polling -> PollerType(R)]
MsgsIn(R)    == Msgs \subseteq MsgIds /\ msg \in [Msgs -> MsgType(R)]
ChainIn(R)   == chain \in [R -> {"unknown", "precommitted", "proven"}]
ClockIn(R)   == clock \in [R -> SUBSET {"seed", "expired", "late"}]
FaultsIn     == faults \in FaultType

TypeIn(R) == RowsIn(R) /\ TasksIn(R) /\ PollersIn(R) /\ MsgsIn(R) /\ ChainIn(R) /\ ClockIn(R) /\ FaultsIn

LEMMA TypeParts == TypeOK => TypeIn(Rows)
  BY DEF TypeOK, TypeIn, RowsIn, TasksIn, PollersIn, MsgsIn, ChainIn, ClockIn, FaultsIn, RowType,
         TaskType, PollerType, TodoType, MsgType, FaultType, Todo

LEMMA TypeWhole == ASSUME NEW R, TypeIn(R) PROVE TypeOK /\ Rows = R
<1>1. Rows = R
  BY DEF TypeIn, RowsIn, Rows
<1> QED
  BY <1>1 DEF TypeOK, TypeIn, RowsIn, TasksIn, PollersIn, MsgsIn, ChainIn, ClockIn, FaultsIn, RowType,
              TaskType, PollerType, TodoType, MsgType, FaultType, Todo

LEMMA TypeWholeNext == ASSUME NEW R, TypeIn(R)' PROVE TypeOK' /\ Rows' = R
<1>1. Rows' = R
  BY DEF TypeIn, RowsIn, Rows
<1> QED
  BY <1>1 DEF TypeOK, TypeIn, RowsIn, TasksIn, PollersIn, MsgsIn, ChainIn, ClockIn, FaultsIn, RowType,
              TaskType, PollerType, TodoType, MsgType, FaultType, Todo

\* Where nothing changes.
LEMMA SameTypes ==
    ASSUME NEW R
    PROVE  /\ (RowsIn(R) /\ row' = row) => RowsIn(R)'
           /\ (TasksIn(R) /\ task' = task) => TasksIn(R)'
           /\ (PollersIn(R) /\ poller' = poller) => PollersIn(R)'
           /\ (MsgsIn(R) /\ msg' = msg) => MsgsIn(R)'
           /\ (ChainIn(R) /\ chain' = chain) => ChainIn(R)'
           /\ (ClockIn(R) /\ clock' = clock) => ClockIn(R)'
           /\ (FaultsIn /\ faults' = faults) => FaultsIn'
  BY DEF RowsIn, TasksIn, PollersIn, MsgsIn, ChainIn, ClockIn, FaultsIn, Tasks, Polling, Msgs

-----------------------------------------------------------------------------
(* What the steps do.                                                      *)

\* The sector's row is as before, or as one of the UPDATE statements left it.
Stays(s)         == row'[s] = row[s]
Assigns(s, x, i) == row'[s] = Assigned(row[s], x, i)
Marks(s, y)      == row'[s] = Mark(row[s], y)
Completes(s, x)  == row'[s] = Completed(row[s], x)
Records(s, x, m) == row'[s] = Submitted(row[s], x, m)
Retracts(s, x)   == row'[s] = Retracted(row[s], x)
Clears(s)        == row'[s] = Cleared(row[s])
Fails(s)         == row'[s] = Failing(row[s])

\* No task but i changes.
OthersStay(i) == /\ Tasks \ {i} = Tasks' \ {i}
                 /\ \A j \in Tasks \ {i} : task'[j] = task[j]

\* Task i is gone, or waits to be run again.
Rests(i) == i \in Tasks => (task[i].at = "queued" /\ task[i].sectors = {} /\ task[i].msg = NoMsg)

\* What no step changes, and a fault that is not forgotten.
Frame == /\ Polling' = Polling
         /\ faults'.kinds = faults.kinds
         /\ faults.torn => faults'.torn

LEMMA FaultStep ==
    ASSUME NEW kind, FaultsIn, Fault(kind)
    PROVE  FaultsIn' /\ faults'.kinds = faults.kinds /\ (faults.torn => faults'.torn) /\ kind \in faults.kinds
           /\ (faults'.torn => faults.torn)
<1>1. faults.met + 1 \in 0..MaxFaults
  BY SealAssumption DEF Fault, FaultsIn, FaultType, SealAssumption
<1> DEFINE n == faults.met + 1
<1>2. faults' = [faults EXCEPT !.met = n]
  BY DEF Fault
<1> HIDE DEF n
<1>3. faults' \in FaultType
  BY <1>1, <1>2, Zenon DEF FaultsIn, FaultType, n
<1>4. faults'.kinds = faults.kinds /\ faults'.torn = faults.torn
  BY <1>2 DEF FaultsIn, FaultType
<1> QED
  BY <1>3, <1>4 DEF FaultsIn, Fault

LEMMA FaultInStep ==
    ASSUME NEW i, NEW kind, FaultsIn, FaultIn(i, kind)
    PROVE  FaultsIn' /\ faults'.kinds = faults.kinds /\ (faults.torn => faults'.torn)
           /\ ((task[i].at \in {"update", "wait"}) => faults'.torn)
<1> DEFINE n == faults.met + 1
           b == (faults.torn \/ task[i].at \in {"update", "wait"})
<1>1. n \in 0..MaxFaults /\ b \in BOOLEAN
  BY SealAssumption DEF FaultIn, FaultsIn, FaultType, SealAssumption
<1>2. faults' = [faults EXCEPT !.met = n, !.torn = b]
  BY DEF FaultIn
<1> HIDE DEF n, b
<1>3. faults' \in FaultType
  BY <1>1, <1>2, Zenon DEF FaultsIn, FaultType
<1>4. faults'.kinds = faults.kinds /\ faults'.torn = b
  BY <1>2 DEF FaultsIn, FaultType
<1> QED
  BY <1>3, <1>4, Zenon DEF FaultsIn, b

\* What Do, or the engine after it, makes of a task.
LEMMA TaskRests ==
    ASSUME NEW R, NEW i \in Tasks, TasksIn(R), \/ task' = [task EXCEPT ![i] = Requeued(@)]
                                              \/ task' = AfterFailure(i)
                                              \/ task' = Without(task, i)
    PROVE  TasksIn(R)' /\ OthersStay(i) /\ Rests(i)' /\ Tasks' \subseteq Tasks
<1>1. task[i] \in TaskType(R)
  BY DEF TasksIn
<1>2. \/ task' = [task EXCEPT ![i] = Requeued(@)]
      \/ /\ task[i].fails + 1 < MaxFailures
         /\ task' = [task EXCEPT ![i] = [Requeued(task[i]) EXCEPT !.fails = task[i].fails + 1]]
      \/ task' = Without(task, i)
  BY DEF AfterFailure
<1>3. CASE task' = [task EXCEPT ![i] = Requeued(@)]
  <2>1. Requeued(task[i]) \in TaskType(R)
    BY <1>1 DEF TaskType, Requeued
  <2>2. Requeued(task[i]).at = "queued" /\ Requeued(task[i]).sectors = {} /\ Requeued(task[i]).msg = NoMsg
    BY <1>1 DEF TaskType, Requeued
  <2> QED
    BY <1>3, <2>1, <2>2 DEF TasksIn, OthersStay, Rests, Tasks
<1>4. CASE /\ task[i].fails + 1 < MaxFailures
           /\ task' = [task EXCEPT ![i] = [Requeued(task[i]) EXCEPT !.fails = task[i].fails + 1]]
  <2> DEFINE q == Requeued(task[i])
             v == [q EXCEPT !.fails = task[i].fails + 1]
  <2>1. q \in TaskType(R) /\ q.fails = task[i].fails /\ q.at = "queued" /\ q.sectors = {} /\ q.msg = NoMsg
    BY <1>1 DEF TaskType, Requeued
  <2>2. task' = [task EXCEPT ![i] = v]
    BY <1>4, Zenon
  <2> HIDE DEF q
  <2>3. task[i].fails + 1 \in 0..(MaxFailures - 1)
    BY <1>1, <1>4, <2>1, SealAssumption DEF TaskType, SealAssumption
  <2>4. v \in TaskType(R) /\ v.at = "queued" /\ v.sectors = {} /\ v.msg = NoMsg
    BY <2>1, <2>3 DEF TaskType
  <2> HIDE DEF v
  <2> QED
    BY <2>2, <2>4 DEF TasksIn, OthersStay, Rests, Tasks
<1>5. CASE task' = Without(task, i)
  <2>1. Tasks' = Tasks \ {i} /\ task' = [j \in Tasks \ {i} |-> task[j]]
    BY <1>5, WithoutRow DEF Tasks
  <2>2. \A j \in Tasks \ {i} : task'[j] = task[j] /\ task[j] \in TaskType(R)
    BY <2>1 DEF TasksIn
  <2>3. TasksIn(R)'
    BY <2>1, <2>2 DEF TasksIn
  <2>4. OthersStay(i) /\ Rests(i)' /\ Tasks' \subseteq Tasks
    BY <2>1, <2>2 DEF OthersStay, Rests
  <2> QED
    BY <2>3, <2>4
<1> QED
  BY <1>2, <1>3, <1>4, <1>5

\* A task has sent its message, and has stored it.
LEMMA TaskSends ==
    ASSUME NEW R, NEW i \in Tasks, TasksIn(R), NEW m \in MsgIds,
           task' = [task EXCEPT ![i].at = "update", ![i].msg = m]
    PROVE  /\ TasksIn(R)' /\ OthersStay(i) /\ Tasks' = Tasks
           /\ task'[i].at = "update" /\ task'[i].sectors = task[i].sectors /\ task'[i].msg = m
<1>1. task[i] \in TaskType(R)
  BY DEF TasksIn
<1> DEFINE v == [task[i] EXCEPT !.at = "update", !.msg = m]
<1>2. v \in TaskType(R) /\ v.at = "update" /\ v.sectors = task[i].sectors /\ v.msg = m
  BY <1>1 DEF TaskType
<1>3. task' = [task EXCEPT ![i] = v]
  OBVIOUS
<1> HIDE DEF v
<1> QED
  BY <1>2, <1>3 DEF TasksIn, OthersStay, Tasks

LEMMA TaskWaits ==
    ASSUME NEW R, NEW i \in Tasks, TasksIn(R), task' = [task EXCEPT ![i].at = "wait"]
    PROVE  /\ TasksIn(R)' /\ OthersStay(i) /\ Tasks' = Tasks
           /\ task'[i].at = "wait" /\ task'[i].sectors = task[i].sectors /\ task'[i].msg = task[i].msg
<1>1. task[i] \in TaskType(R)
  BY DEF TasksIn
<1> DEFINE v == [task[i] EXCEPT !.at = "wait"]
<1>2. v \in TaskType(R) /\ v.at = "wait" /\ v.sectors = task[i].sectors /\ v.msg = task[i].msg
  BY <1>1 DEF TaskType
<1>3. task' = [task EXCEPT ![i] = v]
  OBVIOUS
<1> HIDE DEF v
<1> QED
  BY <1>2, <1>3 DEF TasksIn, OthersStay, Tasks

\* A task begins its work: it has no message yet.
LEMMA TaskBegins ==
    ASSUME NEW R, NEW i \in Tasks, TasksIn(R), NEW a \in {"work", "send"}, NEW B \in SUBSET R,
           task' = [task EXCEPT ![i].at = a, ![i].sectors = B]
    PROVE  /\ TasksIn(R)' /\ OthersStay(i) /\ Tasks' = Tasks
           /\ task'[i].at = a /\ task'[i].sectors = B /\ task'[i].msg = task[i].msg
<1>1. task[i] \in TaskType(R)
  BY DEF TasksIn
<1> DEFINE v == [task[i] EXCEPT !.at = a, !.sectors = B]
<1>2. v \in TaskType(R) /\ v.at = a /\ v.sectors = B /\ v.msg = task[i].msg
  BY <1>1 DEF TaskType
<1>3. task' = [task EXCEPT ![i] = v]
  OBVIOUS
<1> HIDE DEF v
<1> QED
  <2>1. TasksIn(R)' /\ Tasks' = Tasks /\ task'[i] = v
    BY <1>2, <1>3 DEF TasksIn, Tasks
  <2> QED
    BY <1>2, <1>3, <2>1 DEF TasksIn, OthersStay, Tasks

LEMMA TaskAdded ==
    ASSUME NEW R, NEW i \in Ids, TasksIn(R), task' = With(task, i, Queued), i \notin Tasks
    PROVE  TasksIn(R)' /\ OthersStay(i) /\ Rests(i)' /\ Tasks' = Tasks \cup {i}
<1>1. /\ Tasks' = Tasks \cup {i} /\ task'[i] = Queued
      /\ task' = [j \in Tasks \cup {i} |-> IF j = i THEN Queued ELSE task[j]]
  BY DEF With, Tasks
<1>2. Queued \in TaskType(R) /\ Queued.at = "queued" /\ Queued.sectors = {} /\ Queued.msg = NoMsg
  BY SealAssumption DEF Queued, TaskType, SealAssumption
<1>3. \A j \in Tasks : task'[j] = task[j] /\ task[j] \in TaskType(R)
  BY <1>1 DEF TasksIn
<1>4. TasksIn(R)'
  BY <1>1, <1>2, <1>3 DEF TasksIn
<1> QED
  BY <1>1, <1>2, <1>3, <1>4 DEF OthersStay, Rests

\* Names of tasks and messages that are not in use.
LEMMA LeastSector ==
    ASSUME NEW R \in SUBSET Sectors, NEW B \in SUBSET R, B # {}
    PROVE  Least(B) \in R
<1>1. B \in SUBSET Nat
  BY SealAssumption DEF SealAssumption
<1>2. \E i \in B : \A j \in B : i <= j
  BY <1>1, LeastOf
<1> QED
  BY <1>2 DEF Least

LEMMA NewTask ==
    ASSUME NEW R \in SUBSET Sectors, NEW B \in SUBSET R, B # {}, NEW x \in Stages, NewIds(x, B) # {}, R = Rows
    PROVE  /\ First(NewIds(x, B)) \in Ids /\ First(NewIds(x, B)) \notin Tasks
           /\ StageOf(First(NewIds(x, B))) = x /\ \A s \in R : TaskAt(s, x) # First(NewIds(x, B))
<1> DEFINE b == Least(B)
           i == First(NewIds(x, B))
<1>1. b \in Sectors
  BY LeastSector
<1>2. NewIds(x, B) \in SUBSET {<<x, b, n>> : n \in 1 .. MaxNames}
  BY DEF NewIds
<1> HIDE DEF b
<1>3. i \in NewIds(x, B)
  BY <1>2, FirstName
<1>4. PICK n \in 1 .. MaxNames : i = <<x, b, n>>
  BY <1>2, <1>3
<1>5. i \notin Tasks /\ \A s \in R : TaskAt(s, x) # i
  BY <1>3 DEF NewIds, TaskAt
<1> HIDE DEF i
<1>6. i \in Ids /\ StageOf(i) = x
  BY <1>1, <1>4 DEF Ids, StageOf
<1> QED
  BY <1>5, <1>6 DEF i

LEMMA NewMessage ==
    ASSUME NEW R \in SUBSET Sectors, NEW B \in SUBSET R, B # {}, NEW x \in Batched, NewMsgs(x, B) # {}, R = Rows
    PROVE  /\ First(NewMsgs(x, B)) \in MsgIds /\ First(NewMsgs(x, B))[1] = x
           /\ First(NewMsgs(x, B)) \in NewMsgs(x, B)
<1> DEFINE b == Least(B)
           i == First(NewMsgs(x, B))
<1>1. b \in Sectors
  BY LeastSector
<1>2. NewMsgs(x, B) \in SUBSET {<<x, b, n>> : n \in 1 .. MaxNames}
  BY DEF NewMsgs
<1> HIDE DEF b
<1>3. i \in NewMsgs(x, B)
  BY <1>2, FirstName
<1>4. PICK n \in 1 .. MaxNames : i = <<x, b, n>>
  BY <1>2, <1>3
<1> QED
  BY <1>1, <1>3, <1>4 DEF MsgIds

\* The snapshot of a poller.
TodoShrinks == \A q \in Polling : poller'[q].todo \subseteq poller[q].todo

LEMMA PollerForgets ==
    ASSUME NEW R, PollersIn(R), NEW p \in Polling, NEW t, Forget(p, t)
    PROVE  PollersIn(R)' /\ Polling' = Polling /\ TodoShrinks /\ t \notin poller'[p].todo
<1>1. poller[p] \in PollerType(R)
  BY DEF PollersIn
<1> DEFINE v == [poller[p] EXCEPT !.todo = @ \ {t}]
<1>2. v \in PollerType(R) /\ v.todo = poller[p].todo \ {t}
  BY <1>1 DEF PollerType
<1>3. poller' = [poller EXCEPT ![p] = v]
  BY DEF Forget
<1> HIDE DEF v
<1> QED
  BY <1>2, <1>3 DEF PollersIn, TodoShrinks, Polling

LEMMA PollerMoves ==
    ASSUME NEW R, PollersIn(R), NEW p \in Polling, NEW x, AtBatch(p, x)
    PROVE  PollersIn(R)' /\ Polling' = Polling /\ TodoShrinks
<1>1. poller[p] \in PollerType(R)
  BY DEF PollersIn
<1>2. PICK a \in {"commit", "idle"} : poller' = [poller EXCEPT ![p].at = a]
  BY DEF AtBatch
<1> DEFINE v == [poller[p] EXCEPT !.at = a]
<1>3. v \in PollerType(R) /\ v.todo = poller[p].todo
  BY <1>1 DEF PollerType
<1>4. poller' = [poller EXCEPT ![p] = v]
  BY <1>2
<1> HIDE DEF v
<1> QED
  BY <1>3, <1>4 DEF PollersIn, TodoShrinks, Polling

-----------------------------------------------------------------------------
(* What becomes of the columns of a row.                                   *)

TasksKept(s, X) == \A w \in Stages \ X : TaskAt(s, w)' = TaskAt(s, w)
CidsKept(s, X)  == \A w \in Batched \ X : CidAt(s, w)' = CidAt(s, w)

LEMMA StayColumns ==
    ASSUME NEW s, Stays(s)
    PROVE  After(s)' = After(s) /\ TasksKept(s, {}) /\ CidsKept(s, {})
  BY DEF Stays, After, TaskAt, CidAt, TasksKept, CidsKept

LEMMA AssignColumns ==
    ASSUME NEW s, row[s] \in RowType, NEW x \in Stages, NEW i, Assigns(s, x, i)
    PROVE  After(s)' = After(s) /\ TasksKept(s, {x}) /\ CidsKept(s, {}) /\ TaskAt(s, x)' = i
<1>1. row[s].task \in [Stages -> Ids \cup {NoTask}]
  BY DEF RowType
<1>2. Assigned(row[s], x, i).after = row[s].after /\ Assigned(row[s], x, i).cid = row[s].cid
      /\ Assigned(row[s], x, i).task = [row[s].task EXCEPT ![x] = i]
  BY StageSets DEF Assigned, RowType
<1> QED
  BY <1>1, <1>2 DEF Assigns, After, TaskAt, CidAt, TasksKept, CidsKept

LEMMA MarkColumns ==
    ASSUME NEW s, row[s] \in RowType, NEW y, Marks(s, y)
    PROVE  After(s)' = After(s) \cup {y} /\ TasksKept(s, {}) /\ CidsKept(s, {})
<1>1. Mark(row[s], y).after = row[s].after \cup {y} /\ Mark(row[s], y).cid = row[s].cid
      /\ Mark(row[s], y).task = row[s].task
  BY DEF Mark, RowType
<1> QED
  BY <1>1 DEF Marks, After, TaskAt, CidAt, TasksKept, CidsKept

LEMMA CompleteColumns ==
    ASSUME NEW s, row[s] \in RowType, NEW x \in Stages, Completes(s, x)
    PROVE  After(s)' = After(s) \cup {x} /\ TasksKept(s, {x}) /\ CidsKept(s, {}) /\ TaskAt(s, x)' = NoTask
<1>1. row[s].task \in [Stages -> Ids \cup {NoTask}]
  BY DEF RowType
<1>2. Completed(row[s], x).after = row[s].after \cup {x} /\ Completed(row[s], x).cid = row[s].cid
      /\ Completed(row[s], x).task = [row[s].task EXCEPT ![x] = NoTask]
  BY StageSets DEF Completed, RowType
<1> QED
  BY <1>1, <1>2 DEF Completes, After, TaskAt, CidAt, TasksKept, CidsKept

LEMMA RecordColumns ==
    ASSUME NEW s, row[s] \in RowType, NEW y \in Batched, NEW m, Records(s, y, m)
    PROVE  /\ After(s)' = After(s) \cup {y} /\ TasksKept(s, {y}) /\ TaskAt(s, y)' = NoTask
           /\ CidsKept(s, {y}) /\ CidAt(s, y)' = m
<1>1. row[s].task \in [Stages -> Ids \cup {NoTask}] /\ row[s].cid \in [Batched -> MsgIds \cup {NoMsg}]
  BY DEF RowType
<1>2. /\ Submitted(row[s], y, m).after = row[s].after \cup {y}
      /\ Submitted(row[s], y, m).cid = [row[s].cid EXCEPT ![y] = m]
      /\ Submitted(row[s], y, m).task = [row[s].task EXCEPT ![y] = NoTask]
  BY StageSets DEF Submitted, RowType
<1> QED
  BY <1>1, <1>2, StageSets DEF Records, After, TaskAt, CidAt, TasksKept, CidsKept

LEMMA RetractColumns ==
    ASSUME NEW s, row[s] \in RowType, NEW y \in Batched, Retracts(s, y)
    PROVE  /\ After(s)' = After(s) \ {y} /\ TasksKept(s, {y}) /\ TaskAt(s, y)' = NoTask
           /\ CidsKept(s, {y}) /\ CidAt(s, y)' = NoMsg
<1>1. row[s].task \in [Stages -> Ids \cup {NoTask}] /\ row[s].cid \in [Batched -> MsgIds \cup {NoMsg}]
  BY DEF RowType
<1>2. /\ Retracted(row[s], y).after = row[s].after \ {y}
      /\ Retracted(row[s], y).cid = [row[s].cid EXCEPT ![y] = NoMsg]
      /\ Retracted(row[s], y).task = [row[s].task EXCEPT ![y] = NoTask]
  BY StageSets DEF Retracted, RowType
<1> QED
  BY <1>1, <1>2, StageSets DEF Retracts, After, TaskAt, CidAt, TasksKept, CidsKept

LEMMA ClearColumns ==
    ASSUME NEW s, row[s] \in RowType, Clears(s)
    PROVE  /\ After(s)' = After(s) \ {"treed", "treerc", "synth"} /\ TasksKept(s, {"treerc", "synth"})
           /\ TaskAt(s, "treerc")' = NoTask /\ TaskAt(s, "synth")' = NoTask /\ CidsKept(s, {})
<1>1. row[s].task \in [Stages -> Ids \cup {NoTask}]
  BY DEF RowType
<1>2. /\ Cleared(row[s]).after = row[s].after \ {"treed", "treerc", "synth"} /\ Cleared(row[s]).cid = row[s].cid
      /\ Cleared(row[s]).task = [row[s].task EXCEPT !["treerc"] = NoTask, !["synth"] = NoTask]
  BY DEF Cleared, RowType
<1> QED
  BY <1>1, <1>2, StageSets DEF Clears, After, TaskAt, CidAt, TasksKept, CidsKept

LEMMA FailColumns ==
    ASSUME NEW s, row[s] \in RowType, Fails(s)
    PROVE  /\ After(s)' = After(s) /\ TasksKept(s, {"precommit"}) /\ CidsKept(s, {})
           /\ TaskAt(s, "precommit")' = NoTask
<1>1. row[s].task \in [Stages -> Ids \cup {NoTask}]
  BY DEF RowType
<1>2. /\ Failing(row[s]).after = row[s].after /\ Failing(row[s]).cid = row[s].cid
      /\ Failing(row[s]).task = [row[s].task EXCEPT !["precommit"] = NoTask]
  BY DEF Failing, RowType
<1> QED
  BY <1>1, <1>2, StageSets DEF Fails, After, TaskAt, CidAt, TasksKept, CidsKept

\* The type of the table of rows after an UPDATE.
LEMMA RowsAfter ==
    ASSUME NEW R, RowsIn(R), DOMAIN row' = R, row' = [s \in R |-> row'[s]],
           \A s \in R : row'[s] \in RowType
    PROVE  RowsIn(R)'
  BY DEF RowsIn

-----------------------------------------------------------------------------
(* The steps of a poller.                                                  *)

LEMMA PollSelectDoes ==
    ASSUME NEW R, TypeIn(R), NEW p \in Polling, PollSelect(p)
    PROVE  /\ TypeIn(R)' /\ Frame /\ row' = row /\ task' = task /\ msg' = msg /\ chain' = chain
           /\ \A q \in Polling : \A t \in poller'[q].todo :
                \/ t \in poller[q].todo
                \/ t.msg = NoMsg /\ t.sector \in R /\ CallsFor(t.sector, t.step)
<1> USE DEF PollSelect
<1>1. Rows = R
  BY TypeWhole
<1> DEFINE T == {t \in [step : Range(Steps), sector : Rows, msg : {NoMsg}] : CallsFor(t.sector, t.step)}
           v == [at |-> "sectors", todo |-> T]
<1>2. T \in SUBSET TodoType(R)
  BY <1>1 DEF TodoType
<1>3. v \in PollerType(R) /\ v.todo = T
  BY <1>2 DEF PollerType
<1>4. poller' = [poller EXCEPT ![p] = v]
  OBVIOUS
<1>5. \A t \in T : t.msg = NoMsg /\ t.sector \in R /\ CallsFor(t.sector, t.step)
  BY <1>1
<1> HIDE DEF T, v
<1>6. PollersIn(R)' /\ Polling' = Polling
  BY <1>3, <1>4 DEF TypeIn, PollersIn, Polling
<1>7. \A q \in Polling : poller'[q].todo = IF q = p THEN T ELSE poller[q].todo
  BY <1>3, <1>4 DEF TypeIn, PollersIn, Polling
<1>8. TypeIn(R)'
  BY <1>6, SameTypes DEF TypeIn
<1> QED
  BY <1>5, <1>6, <1>7, <1>8 DEF Frame

LEMMA PollStartDoes ==
    ASSUME NEW R, TypeIn(R), NEW p \in Polling, NEW t \in poller[p].todo, PollStart(p, t)
    PROVE  /\ TypeIn(R)' /\ Frame /\ TodoShrinks /\ t \notin poller'[p].todo /\ msg' = msg /\ chain' = chain
           /\ t.step \in Single /\ t.sector \in R
           /\ \/ row' = row /\ task' = task
              \/ \E i \in Ids : /\ i \notin Tasks /\ StageOf(i) = t.step /\ TaskAt(t.sector, t.step) = NoTask
                                /\ OthersStay(i) /\ Rests(i)' /\ Assigns(t.sector, t.step, i)
                                /\ \A s \in R \ {t.sector} : Stays(s)
<1> USE DEF PollStart
<1>1. Rows = R /\ R \subseteq Sectors /\ RowsIn(R)
  BY TypeWhole DEF TypeIn, RowsIn
<1>2. t \in TodoType(R) /\ t.step \in Single /\ t.sector \in R /\ t.step \in Stages
  BY StageSets DEF TypeIn, PollersIn, PollerType, TodoType
<1>3. PollersIn(R)' /\ Polling' = Polling /\ TodoShrinks /\ t \notin poller'[p].todo
  BY PollerForgets DEF TypeIn
<1>4. FaultsIn' /\ faults'.kinds = faults.kinds /\ (faults.torn => faults'.torn)
  BY FaultStep, SameTypes DEF TypeIn
<1>5. CASE MayAssign(t.sector, t.step)
  <2> DEFINE B == {t.sector}
             new == First(NewIds(t.step, B))
  <2>1. NewIds(t.step, B) # {} /\ task' = With(task, new, Queued) /\ row' = [row EXCEPT ![t.sector].task[t.step] = new]
    BY <1>5
  <2>2. B \in SUBSET R /\ B # {}
    BY <1>2
  <2> HIDE DEF B
  <2>3. new \in Ids /\ new \notin Tasks /\ StageOf(new) = t.step
    BY <1>1, <1>2, <2>1, <2>2, NewTask
  <2> HIDE DEF new
  <2>n. PICK i \in Ids : i = new
    BY <2>3
  <2>4. TasksIn(R)' /\ OthersStay(i) /\ Rests(i)'
    BY <2>1, <2>3, <2>n, TaskAdded DEF TypeIn
  <2>5. row[t.sector] \in RowType /\ t.sector \in DOMAIN row /\ DOMAIN row = R
    BY <1>1, <1>2 DEF RowsIn
  <2>6. row' = [row EXCEPT ![t.sector] = Assigned(row[t.sector], t.step, i)]
    BY <2>1, <2>5, <2>n DEF Assigned
  <2>7. Assigned(row[t.sector], t.step, i) \in RowType
    BY <1>2, <2>3, <2>5, RowUpdates, StageSets
  <2>8. RowsIn(R)' /\ Assigns(t.sector, t.step, i) /\ \A s \in R \ {t.sector} : Stays(s)
    BY <1>1, <1>2, <2>6, <2>7 DEF RowsIn, Assigns, Stays
  <2>9. TaskAt(t.sector, t.step) = NoTask
    BY <1>5 DEF MayAssign, TaskAt
  <2>10. TypeIn(R)'
    BY <1>3, <1>4, <2>4, <2>8, SameTypes DEF TypeIn
  <2> QED
    BY <1>2, <1>3, <1>4, <2>3, <2>n, <2>4, <2>8, <2>9, <2>10 DEF Frame
<1>6. CASE ~MayAssign(t.sector, t.step)
  <2>1. row' = row /\ task' = task
    BY <1>6
  <2>2. TypeIn(R)'
    BY <1>3, <1>4, <2>1, SameTypes DEF TypeIn
  <2> QED
    BY <1>2, <1>3, <1>4, <2>1, <2>2 DEF Frame
<1> QED
  BY <1>5, <1>6

LEMMA PollLandedDoes ==
    ASSUME NEW R, TypeIn(R), NEW p \in Polling, NEW t \in poller[p].todo, NEW x \in Batched, PollLanded(p, t, x),
           \A s \in R : CidAt(s, x) # NoMsg => CidAt(s, x) \in Msgs
    PROVE  /\ TypeIn(R)' /\ Frame /\ row' = row /\ task' = task /\ msg' = msg /\ chain' = chain
           /\ \A q \in Polling : \A u \in poller'[q].todo :
                \/ u \in poller[q].todo
                \/ /\ u.step = ResultStep[x] /\ u.sector \in R /\ u.msg = CidAt(u.sector, x)
                   /\ u.msg \in Msgs /\ msg[u.msg].state # "sent"
<1> USE DEF PollLanded
<1>1. t \in TodoType(R) /\ t.sector \in R /\ poller[p] \in PollerType(R)
  BY DEF TypeIn, PollersIn, PollerType, TodoType
<1> DEFINE m == Landed(t.sector, x)
           u == [t EXCEPT !.step = ResultStep[x], !.msg = m]
           T == (poller[p].todo \ {t}) \cup (IF m = NoMsg THEN {} ELSE {u})
           v == [poller[p] EXCEPT !.todo = T]
<1>2. poller' = [poller EXCEPT ![p] = v]
  OBVIOUS
<1>3. m # NoMsg => (m = CidAt(t.sector, x) /\ m \in Msgs /\ msg[m].state # "sent")
  BY <1>1 DEF Landed, CidAt
<1>4. ResultStep[x] \in Range(Steps)
  BY Ranges DEF Batched, ResultStep
<1> HIDE DEF m
<1>5. m # NoMsg => m \in MsgIds
  BY <1>3 DEF TypeIn, MsgsIn
<1>6. m # NoMsg => (u \in TodoType(R) /\ u.step = ResultStep[x] /\ u.sector = t.sector /\ u.msg = m)
  BY <1>1, <1>4, <1>5 DEF TodoType
<1> HIDE DEF u
<1>7. T \in SUBSET TodoType(R) /\ \A w \in T : w \in poller[p].todo \/ (m # NoMsg /\ w = u)
  BY <1>1, <1>6 DEF PollerType
<1> HIDE DEF T
<1>8. v \in PollerType(R) /\ v.todo = T
  BY <1>1, <1>7 DEF PollerType
<1> HIDE DEF v
<1>9. PollersIn(R)' /\ Polling' = Polling /\ \A q \in Polling : poller'[q].todo = IF q = p THEN T ELSE poller[q].todo
  BY <1>2, <1>8 DEF TypeIn, PollersIn, Polling
<1>10. TypeIn(R)' /\ Frame
  BY <1>9, SameTypes DEF TypeIn, Frame
<1>11. \A w \in T : \/ w \in poller[p].todo
                    \/ /\ w.step = ResultStep[x] /\ w.sector \in R /\ w.msg = CidAt(w.sector, x)
                       /\ w.msg \in Msgs /\ msg[w.msg].state # "sent"
  BY <1>1, <1>3, <1>6, <1>7
<1> QED
  BY <1>9, <1>10, <1>11

\* A step that updates the row of one sector of a snapshot.
LEMMA PollUpdates ==
    ASSUME NEW R, TypeIn(R), NEW p \in Polling, NEW t \in poller[p].todo, Forget(p, t),
           task' = task, msg' = msg, chain' = chain, clock' = clock, faults' = faults,
           NEW r \in RowType, row' = [row EXCEPT ![t.sector] = r]
    PROVE  /\ TypeIn(R)' /\ Frame /\ TodoShrinks /\ t \notin poller'[p].todo /\ t.sector \in R
           /\ row'[t.sector] = r /\ \A s \in R \ {t.sector} : Stays(s)
<1>1. t.sector \in R
  BY DEF TypeIn, PollersIn, PollerType, TodoType
<1>2. PollersIn(R)' /\ Polling' = Polling /\ TodoShrinks /\ t \notin poller'[p].todo
  BY PollerForgets DEF TypeIn
<1>3. RowsIn(R)' /\ row'[t.sector] = r /\ \A s \in R \ {t.sector} : Stays(s)
  BY <1>1 DEF TypeIn, RowsIn, Stays
<1>4. TypeIn(R)'
  BY <1>2, <1>3, SameTypes DEF TypeIn
<1> QED
  BY <1>1, <1>2, <1>3, <1>4 DEF Frame

LEMMA UnsentIs ==
    ASSUME NEW r, NEW x, NEW m
    PROVE  Unsent(r, x, m) = IF r.cid[x] = m /\ SuccessOf[x] \notin r.after THEN Retracted(r, x) ELSE r
  BY Zenon DEF Unsent, Retracted

LEMMA PollPrecommitResultDoes ==
    ASSUME NEW R, TypeIn(R), NEW p \in Polling, NEW t \in poller[p].todo, PollPrecommitResult(p, t)
    PROVE  /\ TypeIn(R)' /\ Frame /\ TodoShrinks /\ task' = task /\ msg' = msg /\ chain' = chain
           /\ t.step = "precommitResult" /\ t.sector \in R
           /\ \A s \in R \ {t.sector} : Stays(s)
           /\ \/ Stays(t.sector)
              \/ /\ Retracts(t.sector, "precommit") /\ msg[t.msg].state = "gas"
                 /\ CidAt(t.sector, "precommit") = t.msg /\ "precommitOk" \notin After(t.sector)
              \/ Marks(t.sector, "precommitOk") /\ msg[t.msg].state = "ok"
<1> USE DEF PollPrecommitResult
<1> DEFINE r0 == row[t.sector]
           r == CASE msg[t.msg].state = "gas" -> Unsent(r0, "precommit", t.msg)
                  [] msg[t.msg].state = "ok" /\ chain[t.sector] = "precommitted" -> Mark(r0, "precommitOk")
                  [] OTHER -> r0
<1>1. t.sector \in R /\ r0 \in RowType
  BY DEF TypeIn, PollersIn, PollerType, TodoType, RowsIn
<1>2. row' = [row EXCEPT ![t.sector] = r]
  OBVIOUS
<1>3. \/ r = r0
      \/ /\ r = Retracted(r0, "precommit") /\ msg[t.msg].state = "gas"
         /\ CidAt(t.sector, "precommit") = t.msg /\ "precommitOk" \notin After(t.sector)
      \/ r = Mark(r0, "precommitOk") /\ msg[t.msg].state = "ok"
  <2>1. SuccessOf["precommit"] = "precommitOk"
    BY DEF SuccessOf
  <2>2. CASE msg[t.msg].state = "gas"
    <3>1. r = Unsent(r0, "precommit", t.msg)
      BY <2>2
    <3> QED
      BY <2>1, <2>2, <3>1, UnsentIs DEF CidAt, After
  <2>3. CASE msg[t.msg].state # "gas"
    <3>1. CASE msg[t.msg].state = "ok" /\ chain[t.sector] = "precommitted"
      BY <3>1
    <3>2. CASE ~(msg[t.msg].state = "ok" /\ chain[t.sector] = "precommitted")
      BY <2>3, <3>2
    <3> QED
      BY <3>1, <3>2
  <2> QED
    BY <2>2, <2>3
<1> HIDE DEF r
<1>4. r \in RowType
  BY <1>1, <1>3, RowUpdates, StageSets
<1>p. Forget(p, t) /\ task' = task /\ msg' = msg /\ chain' = chain /\ clock' = clock /\ faults' = faults
  OBVIOUS
<1> HIDE DEF PollPrecommitResult
<1>5. /\ TypeIn(R)' /\ Frame /\ TodoShrinks /\ row'[t.sector] = r /\ \A s \in R \ {t.sector} : Stays(s)
  BY <1>2, <1>4, <1>p, PollUpdates, ZenonT(60)
<1> USE DEF PollPrecommitResult
<1> QED
  BY <1>1, <1>3, <1>5 DEF Stays, Retracts, Marks

\* A commit that ran out of gas and one that the sector does not need.
RetractsProven(s) == row'[s] = Mark(Retracted(row[s], "commit"), "commitOk")

LEMMA RetractProvenColumns ==
    ASSUME NEW s, row[s] \in RowType, RetractsProven(s)
    PROVE  /\ After(s)' = (After(s) \ {"commit"}) \cup {"commitOk"} /\ TasksKept(s, {"commit"})
           /\ TaskAt(s, "commit")' = NoTask /\ CidsKept(s, {"commit"}) /\ CidAt(s, "commit")' = NoMsg
<1> DEFINE q == Retracted(row[s], "commit")
<1>1. row[s].task \in [Stages -> Ids \cup {NoTask}] /\ row[s].cid \in [Batched -> MsgIds \cup {NoMsg}]
  BY DEF RowType
<1>2. /\ q.after = row[s].after \ {"commit"}
      /\ q.cid = [row[s].cid EXCEPT !["commit"] = NoMsg]
      /\ q.task = [row[s].task EXCEPT !["commit"] = NoTask]
  BY StageSets DEF Retracted, RowType
<1>3. q \in RowType
  BY RowUpdates, StageSets
<1> HIDE DEF q
<1>4. Mark(q, "commitOk").after = q.after \cup {"commitOk"} /\ Mark(q, "commitOk").cid = q.cid /\ Mark(q, "commitOk").task = q.task
  BY <1>3 DEF Mark, RowType
<1>5. row'[s] = Mark(q, "commitOk")
  BY DEF RetractsProven, q
<1> QED
  BY <1>1, <1>2, <1>4, <1>5, StageSets DEF After, TaskAt, CidAt, TasksKept, CidsKept

LEMMA PollCommitResultDoes ==
    ASSUME NEW R, TypeIn(R), NEW p \in Polling, NEW t \in poller[p].todo, PollCommitResult(p, t)
    PROVE  /\ TypeIn(R)' /\ Frame /\ TodoShrinks /\ task' = task /\ msg' = msg /\ chain' = chain
           /\ t.step = "commitResult" /\ t.sector \in R
           /\ \A s \in R \ {t.sector} : Stays(s)
           /\ \/ Stays(t.sector) \/ Marks(t.sector, "commitOk")
              \/ /\ Retracts(t.sector, "commit") \/ RetractsProven(t.sector)
                 /\ msg[t.msg].state = "gas" /\ CidAt(t.sector, "commit") = t.msg
<1> DEFINE r0 == row[t.sector]
           r1 == IF msg[t.msg].state = "gas" THEN Unsent(r0, "commit", t.msg) ELSE r0
           r  == IF chain[t.sector] = "proven" THEN Mark(r1, "commitOk") ELSE r1
<1>1. t.sector \in R /\ r0 \in RowType
  BY DEF TypeIn, PollersIn, PollerType, TodoType, RowsIn
<1>2. row' = [row EXCEPT ![t.sector] = r]
  BY DEF PollCommitResult
<1>3. \/ r1 = r0
      \/ r1 = Retracted(r0, "commit") /\ msg[t.msg].state = "gas" /\ CidAt(t.sector, "commit") = t.msg
  BY UnsentIs DEF CidAt
<1> HIDE DEF r1
<1>4. r1 \in RowType
  BY <1>1, <1>3, RowUpdates, StageSets
<1>5. r = r1 \/ r = Mark(r1, "commitOk")
  OBVIOUS
<1> HIDE DEF r
<1>6. r \in RowType
  BY <1>4, <1>5, RowUpdates, StageSets
<1>7. /\ Forget(p, t) /\ task' = task /\ msg' = msg /\ chain' = chain /\ clock' = clock /\ faults' = faults
      /\ t.step = "commitResult"
  BY DEF PollCommitResult
<1>8. /\ TypeIn(R)' /\ Frame /\ TodoShrinks /\ row'[t.sector] = r /\ \A s \in R \ {t.sector} : Stays(s)
  BY <1>2, <1>6, <1>7, PollUpdates
<1>9. \/ Stays(t.sector) \/ Marks(t.sector, "commitOk")
      \/ /\ Retracts(t.sector, "commit") \/ RetractsProven(t.sector)
         /\ msg[t.msg].state = "gas" /\ CidAt(t.sector, "commit") = t.msg
  BY <1>3, <1>5, <1>8, Zenon DEF Stays, Retracts, Marks, RetractsProven
<1> QED
  BY <1>1, <1>7, <1>8, <1>9

LEMMA PollAddStartEpochDoes ==
    ASSUME NEW R, TypeIn(R), NEW p \in Polling, NEW t \in poller[p].todo, PollAddStartEpoch(p, t)
    PROVE  /\ TypeIn(R)' /\ Frame /\ TodoShrinks /\ task' = task /\ msg' = msg /\ chain' = chain
           /\ t.sector \in R /\ \A s \in R \ {t.sector} : Stays(s)
           /\ \/ Stays(t.sector)
              \/ Marks(t.sector, "startEpoch") /\ "precommitOk" \in After(t.sector)
<1> DEFINE r0 == row[t.sector]
           c  == /\ chain[t.sector] = "precommitted"
                 /\ "precommitOk" \in r0.after /\ "commit" \notin r0.after
           r  == IF c THEN Mark(r0, "startEpoch") ELSE r0
<1>1. t.sector \in R /\ r0 \in RowType
  BY DEF TypeIn, PollersIn, PollerType, TodoType, RowsIn
<1>2. row' = [row EXCEPT ![t.sector].after = IF c THEN r0.after \cup {"startEpoch"} ELSE r0.after]
  BY DEF PollAddStartEpoch
<1>3. row' = [row EXCEPT ![t.sector] = r]
  <2>1. CASE c
    BY <2>1, <1>2 DEF Mark
  <2>2. CASE ~c
    <3>1. row' = [row EXCEPT ![t.sector].after = r0.after]
      BY <1>2, <2>2
    <3>2. [r0 EXCEPT !.after = r0.after] = r0
      BY <1>1 DEF RowType
    <3> QED
      BY <2>2, <3>1, <3>2
  <2> QED
    BY <2>1, <2>2
<1>4. r = r0 \/ (r = Mark(r0, "startEpoch") /\ "precommitOk" \in After(t.sector))
  BY DEF After
<1> HIDE DEF r, c
<1>5. r \in RowType
  BY <1>1, <1>4, RowUpdates, StageSets
<1>6. Forget(p, t) /\ task' = task /\ msg' = msg /\ chain' = chain /\ clock' = clock /\ faults' = faults
  BY DEF PollAddStartEpoch
<1>7. /\ TypeIn(R)' /\ Frame /\ TodoShrinks /\ row'[t.sector] = r /\ \A s \in R \ {t.sector} : Stays(s)
  BY <1>3, <1>5, <1>6, PollUpdates, ZenonT(60)
<1> QED
  BY <1>1, <1>4, <1>6, <1>7 DEF Stays, Marks

\* A batch has sectors.
LEMMA BatchesFull ==
    ASSUME NEW x, NEW B \in Batches(x)
    PROVE  B \subseteq Candidates(x) /\ B # {}
<1>1. Cardinality({}) = 0
  BY FS_EmptySet
<1>2. MaxBatch # 0
  BY SealAssumption DEF SealAssumption
<1>3. CASE Cardinality(Candidates(x)) < MaxBatch
  BY <1>3 DEF Batches
<1>4. CASE ~(Cardinality(Candidates(x)) < MaxBatch)
  BY <1>1, <1>2, <1>4 DEF Batches, kSubset
<1> QED
  BY <1>3, <1>4

LEMMA FireBatchDoes ==
    ASSUME NEW R, TypeIn(R), NEW p \in Polling, NEW x \in Batched, FireBatch(p, x)
    PROVE  /\ TypeIn(R)' /\ Frame /\ TodoShrinks /\ msg' = msg /\ chain' = chain
           /\ \E i \in Ids, B \in SUBSET R :
                /\ i \notin Tasks /\ StageOf(i) = x /\ B \subseteq Candidates(x)
                /\ OthersStay(i) /\ Rests(i)'
                /\ \A s \in B : Assigns(s, x, i)
                /\ \A s \in R \ B : Stays(s)
<1>1. Rows = R /\ R \subseteq Sectors /\ RowsIn(R)
  BY TypeWhole DEF TypeIn, RowsIn
<1>2. PICK B \in Batches(x) :
         /\ NewIds(x, B) # {}
         /\ task' = With(task, First(NewIds(x, B)), Queued)
         /\ row' = [s \in Rows |-> IF s \in B THEN [row[s] EXCEPT !.task[x] = First(NewIds(x, B))] ELSE row[s]]
  BY DEF FireBatch
<1>3. B \subseteq Candidates(x) /\ B # {} /\ B \in SUBSET R /\ x \in Stages
  BY <1>1, BatchesFull, StageSets DEF Candidates
<1> DEFINE new == First(NewIds(x, B))
<1>4. new \in Ids /\ new \notin Tasks /\ StageOf(new) = x
  BY <1>1, <1>2, <1>3, NewTask
<1>5. /\ task' = With(task, new, Queued)
      /\ row' = [s \in R |-> IF s \in B THEN [row[s] EXCEPT !.task[x] = new] ELSE row[s]]
  BY <1>1, <1>2
<1> HIDE DEF new
<1>6. PICK i \in Ids : i = new
  BY <1>4
<1>7. TasksIn(R)' /\ OthersStay(i) /\ Rests(i)'
  BY <1>4, <1>5, <1>6, TaskAdded DEF TypeIn
<1>8. row' = [s \in R |-> IF s \in B THEN Assigned(row[s], x, i) ELSE row[s]]
  BY <1>5, <1>6 DEF Assigned
<1>9. \A s \in R : row[s] \in RowType /\ Assigned(row[s], x, i) \in RowType
  BY <1>1, <1>3, RowUpdates, StageSets DEF RowsIn
<1>10. RowsIn(R)' /\ (\A s \in B : Assigns(s, x, i)) /\ (\A s \in R \ B : Stays(s))
  BY <1>1, <1>3, <1>8, <1>9 DEF RowsIn, Assigns, Stays
<1>11. PollersIn(R)' /\ Polling' = Polling /\ TodoShrinks
  BY PollerMoves DEF FireBatch, TypeIn
<1>12. msg' = msg /\ chain' = chain /\ clock' = clock /\ faults' = faults
  BY DEF FireBatch
<1>13. TypeIn(R)' /\ Frame
  BY <1>7, <1>10, <1>11, <1>12, SameTypes DEF TypeIn, Frame
<1>14. i \notin Tasks /\ StageOf(i) = x
  BY <1>4, <1>6
<1> QED
  BY <1>3, <1>7, <1>10, <1>11, <1>12, <1>13, <1>14

LEMMA HoldBatchDoes ==
    ASSUME NEW R, TypeIn(R), NEW p \in Polling, NEW x, HoldBatch(p, x)
    PROVE  /\ TypeIn(R)' /\ Frame /\ TodoShrinks /\ row' = row /\ task' = task /\ msg' = msg /\ chain' = chain
<1>1. PollersIn(R)' /\ Polling' = Polling /\ TodoShrinks
  BY PollerMoves DEF HoldBatch, TypeIn
<1>2. row' = row /\ task' = task /\ msg' = msg /\ chain' = chain /\ clock' = clock /\ faults' = faults
  BY DEF HoldBatch
<1> QED
  BY <1>1, <1>2, SameTypes DEF TypeIn, Frame

-----------------------------------------------------------------------------
(* The steps of a task.                                                    *)

LEMMA ReturnDoes ==
    ASSUME NEW R, TasksIn(R), FaultsIn, NEW i \in Tasks, Return(i)
    PROVE  /\ TasksIn(R)' /\ OthersStay(i) /\ Rests(i)' /\ Tasks' \subseteq Tasks /\ FaultsIn'
           /\ faults'.kinds = faults.kinds /\ (faults.torn => faults'.torn)
<1>1. CASE task' = Without(task, i) /\ faults' = faults
  BY <1>1, TaskRests, SameTypes
<1>2. CASE task' = [task EXCEPT ![i] = Requeued(@)] /\ Fault("crash")
  BY <1>2, TaskRests, FaultStep
<1> QED
  BY <1>1, <1>2 DEF Return

LEMMA BeginDoes ==
    ASSUME NEW R, TypeIn(R), NEW i \in Tasks, Begin(i)
    PROVE  /\ TypeIn(R)' /\ Frame /\ row' = row /\ poller' = poller /\ msg' = msg /\ chain' = chain
           /\ OthersStay(i) /\ Tasks' = Tasks /\ task'[i].at = "work" /\ task'[i].msg = task[i].msg
           /\ task'[i].sectors = RowsOf(StageOf(i), i)
<1>1. PICK B \in SUBSET R : B = RowsOf(StageOf(i), i)
  BY TypeWhole DEF RowsOf
<1>2. task' = [task EXCEPT ![i].at = "work", ![i].sectors = B]
  BY <1>1 DEF Begin
<1>3. /\ TasksIn(R)' /\ OthersStay(i) /\ Tasks' = Tasks
      /\ task'[i].at = "work" /\ task'[i].sectors = B /\ task'[i].msg = task[i].msg
  BY <1>2, TaskBegins DEF TypeIn
<1>4. row' = row /\ poller' = poller /\ msg' = msg /\ chain' = chain /\ clock' = clock /\ faults' = faults
  BY DEF Begin
<1> QED
  BY <1>1, <1>3, <1>4, SameTypes DEF TypeIn, Frame, Polling

\* The steps that only set a task back.
LEMMA TaskStops ==
    ASSUME NEW R, TypeIn(R), NEW i \in Tasks,
           \/ BeginOrphan(i) \/ CommitWithoutPrecommit(i) \/ Crash(i) \/ Fail(i)
    PROVE  /\ TypeIn(R)' /\ Frame /\ row' = row /\ poller' = poller /\ msg' = msg /\ chain' = chain
           /\ OthersStay(i) /\ Rests(i)' /\ Tasks' \subseteq Tasks
           /\ (task[i].at = "update" => faults'.torn)
<1>1. /\ row' = row /\ poller' = poller /\ msg' = msg /\ chain' = chain /\ clock' = clock
      /\ task' = [task EXCEPT ![i] = Requeued(@)] \/ task' = AfterFailure(i)
  BY DEF BeginOrphan, CommitWithoutPrecommit, Crash, Fail
<1>2. TasksIn(R)' /\ OthersStay(i) /\ Rests(i)' /\ Tasks' \subseteq Tasks
  BY <1>1, TaskRests DEF TypeIn
<1>3. /\ FaultsIn' /\ faults'.kinds = faults.kinds /\ (faults.torn => faults'.torn)
      /\ (task[i].at = "update" => faults'.torn)
  <2>1. CASE faults' = faults /\ task[i].at = "queued"
    BY <2>1, SameTypes DEF TypeIn
  <2>2. CASE FaultIn(i, "crash") \/ FaultIn(i, "error")
    BY <2>2, FaultInStep DEF TypeIn
  <2> QED
    BY <2>1, <2>2 DEF BeginOrphan, CommitWithoutPrecommit, Crash, Fail
<1> QED
  BY <1>1, <1>2, <1>3, SameTypes DEF TypeIn, Frame, Polling

LEMMA FinishDoes ==
    ASSUME NEW R, TypeIn(R), NEW i \in Tasks, StageOf(i) \in Single, Finish(i)
    PROVE  /\ TypeIn(R)' /\ Frame /\ poller' = poller /\ msg' = msg /\ chain' = chain
           /\ OthersStay(i) /\ Rests(i)' /\ Tasks' \subseteq Tasks /\ task[i].at = "work"
           /\ \A s \in R : \/ Stays(s)
                           \/ /\ Completes(s, StageOf(i))
                              /\ TaskAt(s, StageOf(i)) = i \/ s \in task[i].sectors
<1> DEFINE x == StageOf(i)
<1>1. Rows = R /\ RowsIn(R) /\ x \in Stages
  BY TypeWhole, StageSets DEF TypeIn
<1>2. row' = [s \in R |-> IF s \in Finished(i) THEN Completed(row[s], x) ELSE row[s]]
  BY <1>1 DEF Finish, Completed
<1>3. \A s \in R : row[s] \in RowType /\ Completed(row[s], x) \in RowType
  BY <1>1, RowUpdates, StageSets DEF RowsIn
<1>4. RowsIn(R)' /\ \A s \in R : (s \in Finished(i) => Completes(s, x)) /\ (s \notin Finished(i) => Stays(s))
  BY <1>1, <1>2, <1>3 DEF RowsIn, Completes, Stays
<1>5. \A s \in Finished(i) : TaskAt(s, x) = i \/ s \in task[i].sectors
  BY DEF Finished, RowsOf, TaskAt
<1>6. clock' = [s \in R |-> IF x = "sdr" /\ s \in task[i].sectors THEN clock[s] \ {"expired"} ELSE clock[s]]
  BY <1>1 DEF Finish
<1>7. ClockIn(R)'
  BY <1>6 DEF TypeIn, ClockIn
<1>8. /\ TasksIn(R)' /\ OthersStay(i) /\ Rests(i)' /\ Tasks' \subseteq Tasks /\ FaultsIn'
      /\ faults'.kinds = faults.kinds /\ (faults.torn => faults'.torn)
  BY ReturnDoes DEF Finish, TypeIn
<1>9. poller' = poller /\ msg' = msg /\ chain' = chain /\ task[i].at = "work"
  BY DEF Finish
<1>10. TypeIn(R)' /\ Frame
  BY <1>4, <1>7, <1>8, <1>9, SameTypes DEF TypeIn, Frame, Polling
<1> QED
  BY <1>4, <1>5, <1>8, <1>9, <1>10

LEMMA ResetDoes ==
    ASSUME NEW R, TypeIn(R), NEW i \in Tasks, Reset(i)
    PROVE  /\ TypeIn(R)' /\ Frame /\ poller' = poller /\ msg' = msg /\ chain' = chain
           /\ OthersStay(i) /\ Rests(i)' /\ Tasks' \subseteq Tasks /\ task[i].at = "work"
           /\ "reset" \in faults.kinds
           /\ \A s \in R : Stays(s) \/ (Clears(s) /\ s \in task[i].sectors)
<1>1. Rows = R /\ RowsIn(R)
  BY TypeWhole DEF TypeIn
<1> DEFINE S == task[i].sectors
<1>2. row' = [s \in R |-> IF s \in S THEN Cleared(row[s]) ELSE row[s]]
  BY <1>1 DEF Reset, Cleared
<1> HIDE DEF S
<1>3. \A s \in R : row[s] \in RowType /\ Cleared(row[s]) \in RowType
  BY <1>1, RowUpdates, StageSets DEF RowsIn
<1>4. RowsIn(R)' /\ \A s \in R : (s \in S => Clears(s)) /\ (s \notin S => Stays(s))
  BY <1>1, <1>2, <1>3 DEF RowsIn, Clears, Stays
<1>5. TasksIn(R)' /\ OthersStay(i) /\ Rests(i)' /\ Tasks' \subseteq Tasks
  BY TaskRests DEF Reset, TypeIn
<1>6. FaultsIn' /\ faults'.kinds = faults.kinds /\ (faults.torn => faults'.torn) /\ "reset" \in faults.kinds
  BY FaultStep DEF Reset, TypeIn
<1>7. poller' = poller /\ msg' = msg /\ chain' = chain /\ clock' = clock /\ task[i].at = "work"
  BY DEF Reset
<1>8. TypeIn(R)' /\ Frame
  BY <1>4, <1>5, <1>6, <1>7, SameTypes DEF TypeIn, Frame, Polling
<1> QED
  BY <1>4, <1>5, <1>6, <1>7, <1>8 DEF S

LEMMA CheckPrecommitDoes ==
    ASSUME NEW R, TypeIn(R), NEW i \in Tasks, StageOf(i) = "precommit", CheckPrecommit(i)
    PROVE  /\ TypeIn(R)' /\ Frame /\ poller' = poller /\ msg' = msg /\ chain' = chain
           /\ OthersStay(i) /\ Tasks' \subseteq Tasks /\ task[i].at = "queued"
           /\ \A s \in R : Stays(s) \/ (Fails(s) /\ TaskAt(s, "precommit") = i)
           /\ \/ Rests(i)'
              \/ /\ i \in Tasks' /\ task'[i].at = "send" /\ task'[i].msg = task[i].msg
                 /\ task'[i].sectors # {}
                 /\ \A s \in task'[i].sectors : s \in R /\ TaskAt(s, "precommit") = i /\ Stays(s)
<1>1. Rows = R /\ RowsIn(R)
  BY TypeWhole DEF TypeIn
<1>2. PICK B \in SUBSET R, F \in SUBSET R :
        /\ F \subseteq B /\ B = RowsOf("precommit", i)
        /\ row' = [s \in R |-> IF s \in F THEN [row[s] EXCEPT !.failed = TRUE, !.task["precommit"] = NoTask] ELSE row[s]]
        /\ \/ Return(i)
           \/ task' = [task EXCEPT ![i].at = "send", ![i].sectors = B \ F] /\ faults' = faults /\ B # F
  <2> DEFINE B       == RowsOf("precommit", i)
             expired == {s \in B : "expired" \in clock[s]}
             late    == {s \in B \ expired : "late" \in clock[s]}
             failing == IF late # {} THEN B ELSE expired
  <2>1. /\ row' = [s \in Rows |->
             IF s \in failing THEN [row[s] EXCEPT !.failed = TRUE, !.task["precommit"] = NoTask]
                              ELSE row[s]]
        /\ IF B = failing
             THEN Return(i)
             ELSE /\ task' = [task EXCEPT ![i].at = "send", ![i].sectors = B \ failing]
                  /\ UNCHANGED faults
    BY DEF CheckPrecommit
  <2>2. failing \subseteq B /\ B \in SUBSET R
    BY <1>1 DEF RowsOf
  <2> HIDE DEF failing
  <2> QED
    BY <1>1, <2>1, <2>2
<1>3. row' = [s \in R |-> IF s \in F THEN Failing(row[s]) ELSE row[s]]
  BY <1>2, Zenon DEF Failing
<1>4. \A s \in R : row[s] \in RowType /\ Failing(row[s]) \in RowType
  BY <1>1, RowUpdates, StageSets DEF RowsIn
<1>5. RowsIn(R)' /\ \A s \in R : (s \in F => Fails(s)) /\ (s \notin F => Stays(s))
  BY <1>1, <1>3, <1>4 DEF RowsIn, Fails, Stays
<1>6. \A s \in B : TaskAt(s, "precommit") = i
  BY <1>2 DEF RowsOf, TaskAt
<1>7. poller' = poller /\ msg' = msg /\ chain' = chain /\ clock' = clock /\ task[i].at = "queued"
  BY DEF CheckPrecommit
<1>8. CASE Return(i)
  <2>1. /\ TasksIn(R)' /\ OthersStay(i) /\ Rests(i)' /\ Tasks' \subseteq Tasks /\ FaultsIn'
        /\ faults'.kinds = faults.kinds /\ (faults.torn => faults'.torn)
    BY <1>8, ReturnDoes DEF TypeIn
  <2>2. TypeIn(R)' /\ Frame
    BY <1>5, <1>7, <2>1, SameTypes DEF TypeIn, Frame, Polling
  <2> QED
    BY <1>2, <1>5, <1>6, <1>7, <2>1, <2>2
<1>9. CASE task' = [task EXCEPT ![i].at = "send", ![i].sectors = B \ F] /\ faults' = faults /\ B # F
  <2>1. PICK D \in SUBSET R : D = B \ F /\ D # {}
    BY <1>2, <1>9
  <2>2. /\ TasksIn(R)' /\ OthersStay(i) /\ Tasks' = Tasks
        /\ task'[i].at = "send" /\ task'[i].sectors = D /\ task'[i].msg = task[i].msg
    <3>1. task' = [task EXCEPT ![i].at = "send", ![i].sectors = D]
      BY <1>9, <2>1
    <3> QED
      BY <3>1, TaskBegins DEF TypeIn
  <2>3. TypeIn(R)' /\ Frame
    BY <1>5, <1>7, <1>9, <2>2, SameTypes DEF TypeIn, Frame, Polling
  <2> QED
    BY <1>2, <1>5, <1>6, <1>7, <2>1, <2>2, <2>3
<1> QED
  BY <1>2, <1>8, <1>9

LEMMA CheckCommitDoes ==
    ASSUME NEW R, TypeIn(R), NEW i \in Tasks, StageOf(i) = "commit", CheckCommit(i) \/ SkipCommit(i)
    PROVE  /\ TypeIn(R)' /\ Frame /\ row' = row /\ poller' = poller /\ msg' = msg /\ chain' = chain
           /\ OthersStay(i) /\ Tasks' \subseteq Tasks /\ task[i].at = "queued"
           /\ \/ Rests(i)'
              \/ /\ i \in Tasks' /\ task'[i].at = "send" /\ task'[i].msg = task[i].msg
                 /\ task'[i].sectors # {}
                 /\ \A s \in task'[i].sectors : s \in R /\ TaskAt(s, "commit") = i /\ chain[s] = "precommitted"
<1>1. Rows = R
  BY TypeWhole
<1>2. /\ row' = row /\ poller' = poller /\ msg' = msg /\ chain' = chain /\ clock' = clock /\ task[i].at = "queued"
      /\ \A s \in RowsOf("commit", i) : chain[s] = "precommitted"
  BY DEF CheckCommit, SkipCommit
<1>3. /\ FaultsIn' /\ faults'.kinds = faults.kinds /\ (faults.torn => faults'.torn)
  BY ReturnDoes, FaultStep, SameTypes DEF CheckCommit, SkipCommit, TypeIn
<1>4. \/ Return(i) \/ task' = AfterFailure(i)
      \/ \E D \in (SUBSET RowsOf("commit", i)) \ {{}} : task' = [task EXCEPT ![i].at = "send", ![i].sectors = D]
  <2>1. CASE CheckCommit(i)
    BY <2>1 DEF CheckCommit
  <2>2. CASE SkipCommit(i)
    BY <2>2 DEF SkipCommit
  <2> QED
    BY <2>1, <2>2
<1>5. CASE Return(i) \/ task' = AfterFailure(i)
  <2>1. TasksIn(R)' /\ OthersStay(i) /\ Rests(i)' /\ Tasks' \subseteq Tasks
    BY <1>5, ReturnDoes, TaskRests DEF TypeIn
  <2>2. TypeIn(R)' /\ Frame
    BY <1>2, <1>3, <2>1, SameTypes DEF TypeIn, Frame, Polling
  <2> QED
    BY <1>2, <2>1, <2>2
<1>6. CASE \E D \in (SUBSET RowsOf("commit", i)) \ {{}} : task' = [task EXCEPT ![i].at = "send", ![i].sectors = D]
  <2>1. PICK D \in (SUBSET RowsOf("commit", i)) \ {{}} : task' = [task EXCEPT ![i].at = "send", ![i].sectors = D]
    BY <1>6
  <2>2. D \in SUBSET R /\ \A s \in D : TaskAt(s, "commit") = i
    BY <1>1 DEF RowsOf, TaskAt
  <2>3. /\ TasksIn(R)' /\ OthersStay(i) /\ Tasks' = Tasks
        /\ task'[i].at = "send" /\ task'[i].sectors = D /\ task'[i].msg = task[i].msg
    BY <2>1, <2>2, TaskBegins DEF TypeIn
  <2>4. TypeIn(R)' /\ Frame
    BY <1>2, <1>3, <2>3, SameTypes DEF TypeIn, Frame, Polling
  <2> QED
    BY <1>2, <2>2, <2>3, <2>4
<1> QED
  BY <1>4, <1>5, <1>6

\* A new message is not one of those that anything still refers to.
Unused(m) == /\ m \in Msgs => msg[m].state # "sent"
             /\ \A s \in Rows : CidAt(s, m[1]) # m
             /\ \A j \in Tasks : task[j].msg # m
             /\ \A p \in Polling : \A t \in poller[p].todo : t.msg # m

LEMMA SendDoes ==
    ASSUME NEW R, TypeIn(R), NEW i \in Tasks, StageOf(i) \in Batched, Send(i), task[i].sectors # {}
    PROVE  /\ TypeIn(R)' /\ Frame /\ row' = row /\ poller' = poller /\ chain' = chain
           /\ OthersStay(i) /\ Tasks' = Tasks /\ task[i].at = "send"
           /\ task'[i].at = "update" /\ task'[i].sectors = task[i].sectors
           /\ \E m \in MsgIds :
                /\ task'[i].msg = m /\ m[1] = StageOf(i) /\ Unused(m) /\ Msgs' = Msgs \cup {m}
                /\ msg'[m].state = "sent" /\ msg'[m].sectors = task[i].sectors
                /\ \A n \in Msgs \ {m} : msg'[n] = msg[n]
<1>1. Rows = R /\ R \in SUBSET Sectors
  BY TypeWhole DEF TypeIn, RowsIn
<1>2. PICK B \in SUBSET R, x \in Batched : B = task[i].sectors /\ B # {} /\ x = StageOf(i)
  BY DEF TypeIn, TasksIn, TaskType
<1>3. NewMsgs(x, B) # {}
  BY <1>2 DEF Send
<1>4. PICK m \in MsgIds : m = First(NewMsgs(x, B)) /\ m[1] = x /\ m \in NewMsgs(x, B)
  BY <1>1, <1>2, <1>3, NewMessage
<1> DEFINE v == [sectors |-> B, watched |-> FALSE, state |-> "sent"]
<1>5. /\ task' = [task EXCEPT ![i].at = "update", ![i].msg = m] /\ msg' = With(msg, m, v)
      /\ row' = row /\ poller' = poller /\ chain' = chain /\ clock' = clock /\ faults' = faults /\ task[i].at = "send"
  BY <1>2, <1>4 DEF Send
<1>6. v \in MsgType(R) /\ v.state = "sent" /\ v.sectors = B
  BY DEF MsgType
<1> HIDE DEF v
<1>7. /\ Msgs' = Msgs \cup {m} /\ msg' = [n \in Msgs \cup {m} |-> IF n = m THEN v ELSE msg[n]]
  BY <1>5 DEF With, Msgs
<1>8. msg'[m] = v /\ \A n \in Msgs \ {m} : msg'[n] = msg[n] /\ msg[n] \in MsgType(R)
  BY <1>7 DEF TypeIn, MsgsIn
<1>9. MsgsIn(R)'
  BY <1>6, <1>7, <1>8 DEF TypeIn, MsgsIn
<1>10. /\ TasksIn(R)' /\ OthersStay(i) /\ Tasks' = Tasks
       /\ task'[i].at = "update" /\ task'[i].sectors = B /\ task'[i].msg = m
  BY <1>2, <1>5, TaskSends DEF TypeIn
<1>11. TypeIn(R)' /\ Frame
  BY <1>5, <1>9, <1>10, SameTypes DEF TypeIn, Frame, Polling
<1>12. Unused(m)
  BY <1>4 DEF NewMsgs, Unused, CidAt
<1> QED
  BY <1>2, <1>4, <1>5, <1>6, <1>7, <1>8, <1>10, <1>11, <1>12

LEMMA StoreCidDoes ==
    ASSUME NEW R, TypeIn(R), NEW i \in Tasks, StageOf(i) \in Batched, StoreCid(i), task[i].msg # NoMsg
    PROVE  /\ TypeIn(R)' /\ Frame /\ poller' = poller /\ msg' = msg /\ chain' = chain
           /\ OthersStay(i) /\ Tasks' = Tasks /\ task[i].at = "update"
           /\ task'[i].at = "wait" /\ task'[i].sectors = task[i].sectors /\ task'[i].msg = task[i].msg
           /\ \A s \in R : \/ Stays(s)
                           \/ Records(s, StageOf(i), task[i].msg) /\ TaskAt(s, StageOf(i)) = i
           /\ \A s \in task[i].sectors : TaskAt(s, StageOf(i)) = i => Records(s, StageOf(i), task[i].msg)
<1>1. Rows = R /\ RowsIn(R)
  BY TypeWhole DEF TypeIn
<1>2. PICK x \in Batched, m \in MsgIds, B \in SUBSET R : x = StageOf(i) /\ m = task[i].msg /\ B = task[i].sectors
  BY DEF TypeIn, TasksIn, TaskType
<1> DEFINE S == {s \in R : row[s].task[x] = i /\ (x = "commit" => s \in B)}
<1>3. row' = [s \in R |-> IF s \in S THEN Submitted(row[s], x, m) ELSE row[s]]
  BY <1>1, <1>2 DEF StoreCid, Submitted
<1>4. /\ \A s \in S : TaskAt(s, x) = i /\ s \in R
      /\ \A s \in B : TaskAt(s, x) = i => s \in S
  BY DEF TaskAt
<1> HIDE DEF S
<1>5. \A s \in R : row[s] \in RowType /\ Submitted(row[s], x, m) \in RowType
  BY <1>1, RowUpdates, StageSets DEF RowsIn
<1>6. RowsIn(R)' /\ \A s \in R : (s \in S => Records(s, x, m)) /\ (s \notin S => Stays(s))
  BY <1>1, <1>3, <1>5 DEF RowsIn, Records, Stays
<1>7. task' = [task EXCEPT ![i].at = "wait"] /\ task[i].at = "update"
  BY DEF StoreCid, At
<1>8. /\ TasksIn(R)' /\ OthersStay(i) /\ Tasks' = Tasks
      /\ task'[i].at = "wait" /\ task'[i].sectors = B /\ task'[i].msg = m
  BY <1>2, <1>7, TaskWaits DEF TypeIn
<1>9. poller' = poller /\ msg' = msg /\ chain' = chain /\ clock' = clock /\ faults' = faults
  BY DEF StoreCid
<1>10. TypeIn(R)' /\ Frame
  BY <1>6, <1>8, <1>9, SameTypes DEF TypeIn, Frame, Polling
<1>11. /\ \A s \in R : Stays(s) \/ (Records(s, x, m) /\ TaskAt(s, x) = i)
       /\ \A s \in B : TaskAt(s, x) = i => Records(s, x, m)
  BY <1>4, <1>6
<1> QED
  BY <1>2, <1>7, <1>8, <1>9, <1>10, <1>11

LEMMA InsertWaitDoes ==
    ASSUME NEW R, TypeIn(R), NEW i \in Tasks, InsertWait(i), task[i].msg \in Msgs
    PROVE  /\ TypeIn(R)' /\ Frame /\ row' = row /\ poller' = poller /\ chain' = chain
           /\ OthersStay(i) /\ Rests(i)' /\ Tasks' \subseteq Tasks /\ task[i].at = "wait" /\ Msgs' = Msgs
           /\ \A n \in Msgs : msg'[n].state = msg[n].state /\ msg'[n].sectors = msg[n].sectors
<1>1. PICK m \in Msgs : m = task[i].msg
  OBVIOUS
<1>2. msg[m] \in MsgType(R)
  BY DEF TypeIn, MsgsIn
<1> DEFINE v == [msg[m] EXCEPT !.watched = TRUE]
<1>3. v \in MsgType(R)
  BY <1>2, Zenon DEF MsgType
<1>4. v.state = msg[m].state /\ v.sectors = msg[m].sectors
  BY <1>2 DEF MsgType
<1>5. msg' = [msg EXCEPT ![m] = v]
  BY <1>1 DEF InsertWait
<1> HIDE DEF v
<1>6. MsgsIn(R)' /\ Msgs' = Msgs /\ \A n \in Msgs : msg'[n].state = msg[n].state /\ msg'[n].sectors = msg[n].sectors
  BY <1>3, <1>4, <1>5 DEF TypeIn, MsgsIn, Msgs
<1>7. /\ TasksIn(R)' /\ OthersStay(i) /\ Rests(i)' /\ Tasks' \subseteq Tasks /\ FaultsIn'
      /\ faults'.kinds = faults.kinds /\ (faults.torn => faults'.torn)
  BY ReturnDoes DEF TypeIn, InsertWait
<1>8. row' = row /\ poller' = poller /\ chain' = chain /\ clock' = clock /\ task[i].at = "wait"
  BY DEF InsertWait
<1> QED
  BY <1>6, <1>7, <1>8, SameTypes DEF TypeIn, Frame, Polling

-----------------------------------------------------------------------------
(* The steps of the chain.                                                 *)

\* What the chain says of a sector before a message of stage x is executed.
From(x) == IF x = "precommit" THEN "unknown" ELSE "precommitted"

\* A message is executed: nothing happens to the others.
LEMMA MessageExecuted ==
    ASSUME NEW R, MsgsIn(R), NEW m \in Msgs, NEW o \in {"ok", "gas", "rejected"},
           msg' = [msg EXCEPT ![m] = Executed(@, o)]
    PROVE  /\ MsgsIn(R)' /\ Msgs' = Msgs /\ msg'[m].state = o /\ msg'[m].sectors = {}
           /\ \A n \in Msgs \ {m} : msg'[n] = msg[n]
<1>1. msg[m] \in MsgType(R)
  BY DEF MsgsIn
<1> DEFINE v == Executed(msg[m], o)
<1>2. v \in MsgType(R)
  BY <1>1, Zenon DEF MsgType, Executed
<1>3. v.state = o /\ v.sectors = {}
  BY <1>1 DEF MsgType, Executed
<1>4. msg' = [msg EXCEPT ![m] = v]
  OBVIOUS
<1> HIDE DEF v
<1> QED
  BY <1>2, <1>3, <1>4 DEF MsgsIn, Msgs

LEMMA ExecuteDoes ==
    ASSUME NEW R, TypeIn(R), NEW m \in Msgs, Execute(m)
    PROVE  /\ TypeIn(R)' /\ Frame /\ row' = row /\ task' = task /\ poller' = poller
           /\ msg[m].state = "sent" /\ msg'[m].state # "sent" /\ Msgs' = Msgs
           /\ \A n \in Msgs \ {m} : msg'[n] = msg[n]
           /\ \A s \in R : \/ chain'[s] = chain[s]
                           \/ /\ s \in msg[m].sectors /\ msg'[m].state = "ok" /\ chain[s] = From(m[1])
                              /\ m[1] = "precommit" \/ chain[s] # "unknown"
<1> DEFINE from == IF m[1] = "precommit" THEN "unknown" ELSE "precommitted"
           to   == IF m[1] = "precommit" THEN "precommitted" ELSE "proven"
           fit  == {s \in msg[m].sectors : chain[s] = from}
           ok   == IF m[1] = "precommit" THEN fit = msg[m].sectors ELSE fit # {}
           o    == IF ok THEN "ok" ELSE "rejected"
<1>1. Rows = R
  BY TypeWhole
<1>2. /\ msg' = [msg EXCEPT ![m] = Executed(@, o)]
      /\ chain' = [s \in R |-> IF ok /\ s \in fit THEN to ELSE chain[s]]
      /\ msg[m].state = "sent"
      /\ row' = row /\ task' = task /\ poller' = poller /\ clock' = clock /\ faults' = faults
  BY <1>1 DEF Execute
<1>3. o \in {"ok", "gas", "rejected"} /\ (ok => o = "ok") /\ to \in {"unknown", "precommitted", "proven"}
  OBVIOUS
<1>4. \A s \in fit : s \in msg[m].sectors /\ chain[s] = From(m[1]) /\ (m[1] = "precommit" \/ chain[s] # "unknown")
  BY DEF From
<1> HIDE DEF o, ok, fit, to
<1>5. /\ MsgsIn(R)' /\ Msgs' = Msgs /\ msg'[m].state = o
      /\ \A n \in Msgs \ {m} : msg'[n] = msg[n]
  BY <1>2, <1>3, MessageExecuted DEF TypeIn
<1>6. ChainIn(R)' /\ \A s \in R : chain'[s] = chain[s] \/ (ok /\ s \in fit)
  BY <1>2, <1>3 DEF TypeIn, ChainIn
<1>7. TypeIn(R)' /\ Frame
  BY <1>2, <1>5, <1>6, SameTypes DEF TypeIn, Frame, Polling
<1> QED
  BY <1>2, <1>3, <1>4, <1>5, <1>6, <1>7

LEMMA RunOutOfGasDoes ==
    ASSUME NEW R, TypeIn(R), NEW m \in Msgs, RunOutOfGas(m)
    PROVE  /\ TypeIn(R)' /\ Frame /\ row' = row /\ task' = task /\ poller' = poller /\ chain' = chain
           /\ msg[m].state = "sent" /\ msg'[m].state = "gas" /\ Msgs' = Msgs
           /\ \A n \in Msgs \ {m} : msg'[n] = msg[n]
<1>1. /\ msg' = [msg EXCEPT ![m] = Executed(@, "gas")] /\ msg[m].state = "sent"
      /\ row' = row /\ task' = task /\ poller' = poller /\ chain' = chain /\ clock' = clock
  BY DEF RunOutOfGas
<1>2. /\ MsgsIn(R)' /\ Msgs' = Msgs /\ msg'[m].state = "gas"
      /\ \A n \in Msgs \ {m} : msg'[n] = msg[n]
  BY <1>1, MessageExecuted DEF TypeIn
<1>3. /\ FaultsIn' /\ faults'.kinds = faults.kinds /\ (faults.torn => faults'.torn)
  BY FaultStep DEF RunOutOfGas, TypeIn
<1> QED
  BY <1>1, <1>2, <1>3, SameTypes DEF TypeIn, Frame, Polling

LEMMA ClockDoes ==
    ASSUME NEW R, TypeIn(R), NEW s \in R, SeedMatures(s) \/ TicketExpires(s) \/ StartEpochPasses(s)
    PROVE  /\ TypeIn(R)' /\ Frame /\ row' = row /\ task' = task /\ poller' = poller /\ msg' = msg /\ chain' = chain
<1>1. row' = row /\ task' = task /\ poller' = poller /\ msg' = msg /\ chain' = chain
  BY DEF SeedMatures, TicketExpires, StartEpochPasses
<1>2. PICK e \in {"seed", "expired", "late"} : clock' = [clock EXCEPT ![s] = @ \cup {e}]
  BY DEF SeedMatures, TicketExpires, StartEpochPasses
<1>3. ClockIn(R)'
  BY <1>2 DEF TypeIn, ClockIn
<1>4. /\ FaultsIn' /\ faults'.kinds = faults.kinds /\ (faults.torn => faults'.torn)
  BY FaultStep, SameTypes DEF SeedMatures, TicketExpires, StartEpochPasses, TypeIn
<1> QED
  BY <1>1, <1>3, <1>4, SameTypes DEF TypeIn, Frame, Polling

-----------------------------------------------------------------------------
(* Rows, tasks and snapshots agree on tasks and messages.                  *)

\* A sector has no task of a stage whose message it has, and the message it has
\* is one of that stage.
RowOK(s) == \A x \in Batched :
    /\ TaskAt(s, x) # NoTask => x \notin After(s)
    /\ x \in After(s) <=> CidAt(s, x) # NoMsg
    /\ CidAt(s, x) # NoMsg => (CidAt(s, x) \in Msgs /\ CidAt(s, x)[1] = x)

\* A task that submits a message has the rows it has found until it has stored
\* the message.
TaskOK(i) ==
    /\ task[i].at = "work" => StageOf(i) \in Single
    /\ task[i].at \in {"send", "update", "wait"} => StageOf(i) \in Batched
    /\ task[i].msg # NoMsg => (task[i].msg \in Msgs /\ task[i].msg[1] = StageOf(i))
    /\ task[i].at \in {"update", "wait"} => task[i].msg # NoMsg
    /\ task[i].at = "send" => task[i].sectors # {}
    /\ task[i].at \in {"send", "update"} => \A s \in task[i].sectors : TaskAt(s, StageOf(i)) = i

\* A poller that has found the outcome of a precommit message finds the message
\* in the row when it acts on it, if it was successful.
TodoOK(t) == \A x \in Batched : t.step = ResultStep[x] =>
    /\ t.msg \in Msgs /\ msg[t.msg].state # "sent"
    /\ (x = "precommit" /\ msg[t.msg].state = "ok") => CidAt(t.sector, x) = t.msg

Base(R) == /\ TypeIn(R)
           /\ \A s \in R : RowOK(s)
           /\ \A i \in Tasks : TaskOK(i)
           /\ \A p \in Polling : \A t \in poller[p].todo : TodoOK(t)

\* No task but i loses a sector of a batch, and no message but one that ran out
\* of gas.
Kept(s, i) == \A x \in Batched :
    /\ TaskAt(s, x) = NoTask \/ TaskAt(s, x) = i \/ TaskAt(s, x)' = TaskAt(s, x)
    /\ CidAt(s, x) = NoMsg \/ msg[CidAt(s, x)].state = "gas" \/ CidAt(s, x)' = CidAt(s, x)

LEMMA NoNames == NoTask \notin Ids /\ NoMsg \notin MsgIds /\ \A m \in MsgIds : m[1] \in Batched
  BY DEF NoTask, NoMsg, Ids, MsgIds

LEMMA RowTyped ==
    ASSUME NEW s, row[s] \in RowType
    PROVE  /\ After(s) \subseteq Flags
           /\ \A x \in Stages : TaskAt(s, x) \in Ids \cup {NoTask}
           /\ \A x \in Batched : CidAt(s, x) \in MsgIds \cup {NoMsg}
  BY DEF RowType, After, TaskAt, CidAt

LEMMA StaysOK ==
    ASSUME NEW s, RowOK(s), Stays(s), Msgs \subseteq Msgs', NEW i
    PROVE  RowOK(s)' /\ Kept(s, i)
  BY StayColumns, StageSets DEF RowOK, Kept, TasksKept, CidsKept

LEMMA AssignsOK ==
    ASSUME NEW s, row[s] \in RowType, RowOK(s), NEW x \in Stages, NEW i, NEW j, Assigns(s, x, i), Msgs \subseteq Msgs',
           TaskAt(s, x) = NoTask, x \in Batched => x \notin After(s)
    PROVE  RowOK(s)' /\ Kept(s, j)
  BY AssignColumns, StageSets DEF RowOK, Kept, TasksKept, CidsKept

LEMMA MarksOK ==
    ASSUME NEW s, row[s] \in RowType, RowOK(s), NEW y, y \notin Batched, Marks(s, y), Msgs \subseteq Msgs', NEW i
    PROVE  RowOK(s)' /\ Kept(s, i)
  BY MarkColumns, StageSets DEF RowOK, Kept, TasksKept, CidsKept

LEMMA CompletesOK ==
    ASSUME NEW s, row[s] \in RowType, RowOK(s), NEW x \in Single, Completes(s, x), Msgs \subseteq Msgs', NEW i
    PROVE  RowOK(s)' /\ Kept(s, i)
<1>1. x \in Stages /\ \A y \in Batched : y # x
  BY StageSets
<1> QED
  BY <1>1, CompleteColumns, StageSets DEF RowOK, Kept, TasksKept, CidsKept

LEMMA RecordsOK ==
    ASSUME NEW s, row[s] \in RowType, RowOK(s), NEW y \in Batched, NEW m \in MsgIds, Records(s, y, m), Msgs \subseteq Msgs',
           m \in Msgs', m[1] = y, NEW i \in Ids, TaskAt(s, y) = i
    PROVE  RowOK(s)' /\ Kept(s, i)
  BY RecordColumns, StageSets, NoNames DEF RowOK, Kept, TasksKept, CidsKept

LEMMA RetractsOK ==
    ASSUME NEW s, row[s] \in RowType, RowOK(s), NEW y \in Batched, Retracts(s, y), Msgs \subseteq Msgs',
           msg[CidAt(s, y)].state = "gas", CidAt(s, y) \in Msgs, Msgs \subseteq MsgIds, NEW i
    PROVE  RowOK(s)' /\ Kept(s, i) /\ TaskAt(s, y) = NoTask
  BY RetractColumns, StageSets, NoNames DEF RowOK, Kept, TasksKept, CidsKept

LEMMA RetractsProvenOK ==
    ASSUME NEW s, row[s] \in RowType, RowOK(s), RetractsProven(s), Msgs \subseteq Msgs',
           msg[CidAt(s, "commit")].state = "gas", CidAt(s, "commit") \in Msgs, Msgs \subseteq MsgIds, NEW i
    PROVE  RowOK(s)' /\ Kept(s, i) /\ TaskAt(s, "commit") = NoTask
<1>1. "commit" # "commitOk" /\ "precommit" # "commitOk" /\ "commit" # "precommit" /\ Batched = {"precommit", "commit"}
  BY DEF Batched
<1> QED
  BY <1>1, RetractProvenColumns, StageSets, NoNames DEF RowOK, Kept, TasksKept, CidsKept

LEMMA ClearsOK ==
    ASSUME NEW s, row[s] \in RowType, RowOK(s), Clears(s), Msgs \subseteq Msgs', NEW i
    PROVE  RowOK(s)' /\ Kept(s, i)
<1>1. \A y \in Batched : y \notin {"treed", "treerc", "synth"}
  BY DEF Batched
<1> QED
  BY <1>1, ClearColumns, StageSets DEF RowOK, Kept, TasksKept, CidsKept

LEMMA FailsOK ==
    ASSUME NEW s, row[s] \in RowType, RowOK(s), Fails(s), Msgs \subseteq Msgs', NEW i, TaskAt(s, "precommit") = i
    PROVE  RowOK(s)' /\ Kept(s, i)
  BY FailColumns, StageSets DEF RowOK, Kept, TasksKept, CidsKept

LEMMA OtherTasksOK ==
    ASSUME NEW R, TypeIn(R), NEW i, \A j \in Tasks : TaskOK(j), OthersStay(i), Msgs \subseteq Msgs',
           \A s \in R : Kept(s, i)
    PROVE  \A j \in Tasks' \ {i} : TaskOK(j)'
<1> SUFFICES ASSUME NEW j \in Tasks' \ {i} PROVE TaskOK(j)'
  OBVIOUS
<1>1. j \in Tasks /\ task'[j] = task[j] /\ TaskOK(j) /\ j \in Ids /\ task[j].sectors \subseteq R
  BY DEF OthersStay, TypeIn, TasksIn, TaskType
<1>2. task[j].at \in {"send", "update"} => \A s \in task[j].sectors : TaskAt(s, StageOf(j))' = j
  BY <1>1, NoNames DEF TaskOK, Kept
<1> QED
  BY <1>1, <1>2 DEF TaskOK, StageOf

LEMMA RestingOK == ASSUME NEW i, Rests(i)' PROVE i \in Tasks' => TaskOK(i)'
  BY DEF Rests, TaskOK

\* The outcome of a message that has been executed stays.
OutcomeStays(m) == (m \in Msgs /\ msg[m].state # "sent") => (m \in Msgs' /\ msg'[m].state = msg[m].state)

LEMMA TodoStaysOK ==
    ASSUME NEW R, TypeIn(R), NEW i, NEW t \in TodoType(R), TodoOK(t), OutcomeStays(t.msg), Kept(t.sector, i)
    PROVE  TodoOK(t)'
<1> SUFFICES ASSUME NEW x \in Batched, t.step = ResultStep[x]
             PROVE  /\ t.msg \in Msgs' /\ msg'[t.msg].state # "sent"
                    /\ (x = "precommit" /\ msg'[t.msg].state = "ok") => CidAt(t.sector, x)' = t.msg
  BY DEF TodoOK
<1>1. /\ t.msg \in Msgs /\ msg[t.msg].state # "sent" /\ t.msg # NoMsg
      /\ (x = "precommit" /\ msg[t.msg].state = "ok") => CidAt(t.sector, x) = t.msg
  BY NoNames DEF TodoOK, TypeIn, MsgsIn
<1>2. t.msg \in Msgs' /\ msg'[t.msg].state = msg[t.msg].state
  BY <1>1 DEF OutcomeStays
<1> QED
  BY <1>1, <1>2 DEF Kept

RowsNext(R, i) == \A s \in R : RowOK(s)' /\ Kept(s, i)

TodosNext == \A p \in Polling : \A t \in poller'[p].todo :
    (t \in poller[p].todo /\ OutcomeStays(t.msg)) \/ TodoOK(t)'

LEMMA BaseStep ==
    ASSUME NEW R, Base(R), TypeIn(R)', Frame, NEW i, OthersStay(i), i \in Tasks' => TaskOK(i)',
           Msgs \subseteq Msgs', RowsNext(R, i), TodosNext
    PROVE  Base(R)'
<1>1. \A s \in R : RowOK(s)' /\ Kept(s, i)
  BY DEF RowsNext
<1>2. \A j \in Tasks' : TaskOK(j)'
  <2>1. \A j \in Tasks' \ {i} : TaskOK(j)'
    BY <1>1, OtherTasksOK DEF Base
  <2> QED
    BY <2>1
<1>3. ASSUME NEW p \in Polling', NEW t \in poller'[p].todo
      PROVE  TodoOK(t)'
  <2>1. p \in Polling
    BY DEF Frame
  <2>2. CASE t \in poller[p].todo /\ OutcomeStays(t.msg)
    <3>1. t \in TodoType(R) /\ t.sector \in R /\ TodoOK(t)
      BY <2>1, <2>2 DEF Base, TypeIn, PollersIn, PollerType, TodoType
    <3> QED
      BY <1>1, <2>2, <3>1, TodoStaysOK DEF Base
  <2> QED
    BY <2>1, <2>2 DEF TodosNext
<1> QED
  BY <1>1, <1>2, <1>3 DEF Base

LEMMA TaskStays == ASSUME NEW R, TypeIn(R), task' = task PROVE OthersStay(NoTask) /\ NoTask \notin Tasks' /\ Tasks' = Tasks
  BY NoNames DEF OthersStay, Tasks, TypeIn, TasksIn

LEMMA SameTodos == (msg' = msg /\ TodoShrinks) => TodosNext
<1> SUFFICES ASSUME msg' = msg, TodoShrinks, NEW p \in Polling, NEW t \in poller'[p].todo
             PROVE  t \in poller[p].todo /\ OutcomeStays(t.msg)
  BY DEF TodosNext
<1> QED
  BY DEF TodoShrinks, OutcomeStays, Msgs

LEMMA SamePollers == poller' = poller => TodoShrinks
  BY DEF TodoShrinks

LEMMA RowsStay ==
    ASSUME NEW R, Base(R), row' = row, Msgs \subseteq Msgs', NEW i
    PROVE  RowsNext(R, i)
  BY StaysOK DEF Base, RowsNext, Stays

LEMMA RowsTyped == ASSUME NEW R, Base(R) PROVE \A s \in R : row[s] \in RowType /\ RowOK(s)
  BY DEF Base, TypeIn, RowsIn

\* The steps of a poller.
LEMMA PollSelectBase ==
    ASSUME NEW R, Base(R), NEW p \in Polling, PollSelect(p)
    PROVE  Base(R)'
<1>1. /\ TypeIn(R)' /\ Frame /\ row' = row /\ task' = task /\ msg' = msg
      /\ \A q \in Polling : \A t \in poller'[q].todo :
           \/ t \in poller[q].todo
           \/ t.msg = NoMsg /\ t.sector \in R /\ CallsFor(t.sector, t.step)
  BY PollSelectDoes DEF Base
<1>2. \A x \in Batched : ResultStep[x] \in {"precommitResult", "commitResult"}
  BY DEF Batched, ResultStep
<1>3. ASSUME NEW s, NEW y, CallsFor(s, y) PROVE y \notin {"precommitResult", "commitResult"}
  BY <1>3 DEF CallsFor, Single
<1>4. TodosNext
  <2> SUFFICES ASSUME NEW q \in Polling, NEW t \in poller'[q].todo
               PROVE  (t \in poller[q].todo /\ OutcomeStays(t.msg)) \/ TodoOK(t)'
    BY DEF TodosNext
  <2>1. CASE t \in poller[q].todo
    BY <1>1, <2>1 DEF OutcomeStays, Msgs
  <2>2. CASE CallsFor(t.sector, t.step)
    BY <1>2, <1>3, <2>2 DEF TodoOK
  <2> QED
    BY <1>1, <2>1, <2>2
<1>5. OthersStay(NoTask) /\ NoTask \notin Tasks' /\ Msgs \subseteq Msgs'
  BY <1>1, TaskStays DEF Base, Msgs
<1> QED
  BY <1>1, <1>4, <1>5, RowsStay, BaseStep

LEMMA PollLandedBase ==
    ASSUME NEW R, Base(R), NEW p \in Polling, NEW t \in poller[p].todo, NEW x \in Batched, PollLanded(p, t, x)
    PROVE  Base(R)'
<1>0. \A s \in R : CidAt(s, x) # NoMsg => CidAt(s, x) \in Msgs
  BY DEF Base, RowOK
<1>1. /\ TypeIn(R)' /\ Frame /\ row' = row /\ task' = task /\ msg' = msg
      /\ \A q \in Polling : \A u \in poller'[q].todo :
           \/ u \in poller[q].todo
           \/ /\ u.step = ResultStep[x] /\ u.sector \in R /\ u.msg = CidAt(u.sector, x)
              /\ u.msg \in Msgs /\ msg[u.msg].state # "sent"
  BY <1>0, PollLandedDoes DEF Base
<1>2. ResultStep["precommit"] # ResultStep["commit"] /\ Batched = {"precommit", "commit"}
  BY DEF Batched, ResultStep
<1>3. TodosNext
  <2> SUFFICES ASSUME NEW q \in Polling, NEW u \in poller'[q].todo
               PROVE  (u \in poller[q].todo /\ OutcomeStays(u.msg)) \/ TodoOK(u)'
    BY DEF TodosNext
  <2>1. CASE u \in poller[q].todo
    BY <1>1, <2>1 DEF OutcomeStays, Msgs
  <2>2. CASE /\ u.step = ResultStep[x] /\ u.sector \in R /\ u.msg = CidAt(u.sector, x)
             /\ u.msg \in Msgs /\ msg[u.msg].state # "sent"
    BY <1>1, <1>2, <2>2 DEF TodoOK, CidAt, Msgs
  <2> QED
    BY <1>1, <2>1, <2>2
<1>4. OthersStay(NoTask) /\ NoTask \notin Tasks' /\ Msgs \subseteq Msgs'
  BY <1>1, TaskStays DEF Base, Msgs
<1> QED
  BY <1>1, <1>3, <1>4, RowsStay, BaseStep

LEMMA PollStartBase ==
    ASSUME NEW R, Base(R), NEW p \in Polling, NEW t \in poller[p].todo, PollStart(p, t)
    PROVE  Base(R)' /\ \E i : RowsNext(R, i) /\ OthersStay(i) /\ Rests(i)' /\ i \notin Tasks
<1>1. /\ TypeIn(R)' /\ Frame /\ TodoShrinks /\ msg' = msg /\ t.step \in Single /\ t.sector \in R
      /\ \/ row' = row /\ task' = task
         \/ \E i \in Ids : /\ i \notin Tasks /\ StageOf(i) = t.step /\ TaskAt(t.sector, t.step) = NoTask
                           /\ OthersStay(i) /\ Rests(i)' /\ Assigns(t.sector, t.step, i)
                           /\ \A s \in R \ {t.sector} : Stays(s)
  BY PollStartDoes DEF Base
<1>2. TodosNext /\ Msgs \subseteq Msgs'
  BY <1>1, SameTodos DEF Msgs
<1>3. CASE row' = row /\ task' = task
  <2>1. OthersStay(NoTask) /\ NoTask \notin Tasks' /\ Rests(NoTask)' /\ NoTask \notin Tasks
    BY <1>3, TaskStays, NoNames DEF Base, Rests
  <2> QED
    BY <1>1, <1>2, <1>3, <2>1, RowsStay, BaseStep
<1>4. ASSUME NEW i \in Ids, i \notin Tasks, StageOf(i) = t.step, TaskAt(t.sector, t.step) = NoTask,
             OthersStay(i), Rests(i)', Assigns(t.sector, t.step, i), \A s \in R \ {t.sector} : Stays(s)
      PROVE  Base(R)' /\ RowsNext(R, i)
  <2>1. \A s \in R : row[s] \in RowType /\ RowOK(s)
    BY RowsTyped
  <2>2. t.step \in Stages /\ t.step \notin Batched
    BY <1>1, StageSets
  <2>3. RowOK(t.sector)' /\ Kept(t.sector, i)
    BY <1>1, <1>2, <1>4, <2>1, <2>2, AssignsOK
  <2>4. \A s \in R \ {t.sector} : RowOK(s)' /\ Kept(s, i)
    BY <1>2, <1>4, <2>1, StaysOK
  <2>5. RowsNext(R, i)
    BY <2>3, <2>4 DEF RowsNext
  <2> QED
    BY <1>1, <1>2, <1>4, <2>5, RestingOK, BaseStep
<1> QED
  BY <1>1, <1>3, <1>4

\* The steps that update one row and no task.
LEMMA OneRowBase ==
    ASSUME NEW R, Base(R), TypeIn(R)', Frame, TodoShrinks, task' = task, msg' = msg, NEW s \in R,
           \A z \in R \ {s} : Stays(z), RowOK(s)', Kept(s, NoTask)
    PROVE  Base(R)' /\ RowsNext(R, NoTask)
<1>1. TodosNext /\ Msgs \subseteq Msgs' /\ OthersStay(NoTask) /\ NoTask \notin Tasks'
  BY SameTodos, TaskStays DEF Msgs, Base
<1>2. \A z \in R \ {s} : RowOK(z)' /\ Kept(z, NoTask)
  BY <1>1, RowsTyped, StaysOK
<1>3. RowsNext(R, NoTask)
  BY <1>2 DEF RowsNext
<1> QED
  BY <1>1, <1>3, BaseStep

LEMMA PollPrecommitResultBase ==
    ASSUME NEW R, Base(R), NEW p \in Polling, NEW t \in poller[p].todo, PollPrecommitResult(p, t)
    PROVE  Base(R)' /\ RowsNext(R, NoTask)
<1>1. /\ TypeIn(R)' /\ Frame /\ TodoShrinks /\ task' = task /\ msg' = msg
      /\ t.step = "precommitResult" /\ t.sector \in R
      /\ \A s \in R \ {t.sector} : Stays(s)
      /\ \/ Stays(t.sector)
         \/ /\ Retracts(t.sector, "precommit") /\ msg[t.msg].state = "gas"
            /\ CidAt(t.sector, "precommit") = t.msg
         \/ Marks(t.sector, "precommitOk")
  BY PollPrecommitResultDoes DEF Base
<1>2. row[t.sector] \in RowType /\ RowOK(t.sector) /\ Msgs \subseteq Msgs' /\ Msgs \subseteq MsgIds
  BY <1>1, RowsTyped DEF Msgs, Base, TypeIn, MsgsIn
<1>3. t.msg \in Msgs
  BY <1>1 DEF Base, TodoOK, Batched, ResultStep
<1>4. "precommitOk" \notin Batched
  BY DEF Batched
<1>5. RowOK(t.sector)' /\ Kept(t.sector, NoTask)
  <2>1. CASE Stays(t.sector)
    BY <1>2, <2>1, StaysOK
  <2>2. CASE /\ Retracts(t.sector, "precommit") /\ msg[t.msg].state = "gas"
             /\ CidAt(t.sector, "precommit") = t.msg
    BY <1>2, <1>3, <2>2, RetractsOK, StageSets
  <2>3. CASE Marks(t.sector, "precommitOk")
    BY <1>2, <1>4, <2>3, MarksOK
  <2> QED
    BY <1>1, <2>1, <2>2, <2>3
<1> QED
  BY <1>1, <1>5, OneRowBase

LEMMA PollCommitResultBase ==
    ASSUME NEW R, Base(R), NEW p \in Polling, NEW t \in poller[p].todo, PollCommitResult(p, t)
    PROVE  Base(R)' /\ RowsNext(R, NoTask)
<1>1. /\ TypeIn(R)' /\ Frame /\ TodoShrinks /\ task' = task /\ msg' = msg
      /\ t.step = "commitResult" /\ t.sector \in R
      /\ \A s \in R \ {t.sector} : Stays(s)
      /\ \/ Stays(t.sector) \/ Marks(t.sector, "commitOk")
         \/ /\ Retracts(t.sector, "commit") \/ RetractsProven(t.sector)
            /\ msg[t.msg].state = "gas" /\ CidAt(t.sector, "commit") = t.msg
  BY PollCommitResultDoes DEF Base
<1>2. row[t.sector] \in RowType /\ RowOK(t.sector) /\ Msgs \subseteq Msgs' /\ Msgs \subseteq MsgIds
  BY <1>1, RowsTyped DEF Msgs, Base, TypeIn, MsgsIn
<1>3. t.msg \in Msgs
  BY <1>1 DEF Base, TodoOK, Batched, ResultStep
<1>4. "commitOk" \notin Batched
  BY DEF Batched
<1>5. RowOK(t.sector)' /\ Kept(t.sector, NoTask)
  <2>1. CASE Stays(t.sector)
    BY <1>2, <2>1, StaysOK
  <2>2. CASE /\ Retracts(t.sector, "commit") /\ msg[t.msg].state = "gas"
             /\ CidAt(t.sector, "commit") = t.msg
    BY <1>2, <1>3, <2>2, RetractsOK, StageSets
  <2>3. CASE /\ RetractsProven(t.sector) /\ msg[t.msg].state = "gas"
             /\ CidAt(t.sector, "commit") = t.msg
    BY <1>2, <1>3, <2>3, RetractsProvenOK
  <2>4. CASE Marks(t.sector, "commitOk")
    BY <1>2, <1>4, <2>4, MarksOK
  <2> QED
    BY <1>1, <2>1, <2>2, <2>3, <2>4
<1> QED
  BY <1>1, <1>5, OneRowBase

LEMMA PollAddStartEpochBase ==
    ASSUME NEW R, Base(R), NEW p \in Polling, NEW t \in poller[p].todo, PollAddStartEpoch(p, t)
    PROVE  Base(R)' /\ RowsNext(R, NoTask)
<1>1. /\ TypeIn(R)' /\ Frame /\ TodoShrinks /\ task' = task /\ msg' = msg
      /\ t.sector \in R /\ \A s \in R \ {t.sector} : Stays(s)
      /\ Stays(t.sector) \/ Marks(t.sector, "startEpoch")
  BY PollAddStartEpochDoes DEF Base
<1>2. row[t.sector] \in RowType /\ RowOK(t.sector) /\ Msgs \subseteq Msgs'
  BY <1>1, RowsTyped DEF Msgs
<1>3. "startEpoch" \notin Batched
  BY DEF Batched
<1>4. RowOK(t.sector)' /\ Kept(t.sector, NoTask)
  BY <1>1, <1>2, <1>3, MarksOK, StaysOK
<1> QED
  BY <1>1, <1>4, OneRowBase

LEMMA FireBatchBase ==
    ASSUME NEW R, Base(R), NEW p \in Polling, NEW x \in Batched, FireBatch(p, x)
    PROVE  Base(R)' /\ \E i : RowsNext(R, i) /\ OthersStay(i) /\ Rests(i)' /\ i \notin Tasks
<1>1. /\ TypeIn(R)' /\ Frame /\ TodoShrinks /\ msg' = msg
      /\ \E i \in Ids, B \in SUBSET R :
           /\ i \notin Tasks /\ StageOf(i) = x /\ B \subseteq Candidates(x)
           /\ OthersStay(i) /\ Rests(i)'
           /\ \A s \in B : Assigns(s, x, i)
           /\ \A s \in R \ B : Stays(s)
  BY FireBatchDoes DEF Base
<1>2. PICK i \in Ids, B \in SUBSET R :
           /\ i \notin Tasks /\ StageOf(i) = x /\ B \subseteq Candidates(x)
           /\ OthersStay(i) /\ Rests(i)'
           /\ \A s \in B : Assigns(s, x, i)
           /\ \A s \in R \ B : Stays(s)
  BY <1>1
<1>3. TodosNext /\ Msgs \subseteq Msgs'
  BY <1>1, SameTodos DEF Msgs
<1>4. \A s \in B : TaskAt(s, x) = NoTask /\ x \notin After(s)
  BY <1>2 DEF Candidates, TaskAt, After
<1>5. \A s \in R : row[s] \in RowType /\ RowOK(s)
  BY RowsTyped
<1>6. \A s \in B : RowOK(s)' /\ Kept(s, i)
  BY <1>2, <1>3, <1>4, <1>5, StageSets, AssignsOK
<1>7. \A s \in R \ B : RowOK(s)' /\ Kept(s, i)
  BY <1>2, <1>3, <1>5, StaysOK
<1>8. RowsNext(R, i)
  BY <1>6, <1>7 DEF RowsNext
<1> QED
  BY <1>1, <1>2, <1>3, <1>8, RestingOK, BaseStep

LEMMA HoldBatchBase ==
    ASSUME NEW R, Base(R), NEW p \in Polling, NEW x, HoldBatch(p, x)
    PROVE  Base(R)'
<1>1. /\ TypeIn(R)' /\ Frame /\ TodoShrinks /\ row' = row /\ task' = task /\ msg' = msg
  BY HoldBatchDoes DEF Base
<1>2. TodosNext /\ Msgs \subseteq Msgs' /\ OthersStay(NoTask) /\ NoTask \notin Tasks'
  BY <1>1, SameTodos, TaskStays DEF Msgs, Base
<1> QED
  BY <1>1, <1>2, RowsStay, BaseStep

\* The steps of a task.
LEMMA BeginBase ==
    ASSUME NEW R, Base(R), NEW i \in Tasks, StageOf(i) \in Single, Begin(i)
    PROVE  Base(R)'
<1>1. /\ TypeIn(R)' /\ Frame /\ row' = row /\ poller' = poller /\ msg' = msg
      /\ OthersStay(i) /\ Tasks' = Tasks /\ task'[i].at = "work" /\ task'[i].msg = task[i].msg
  BY BeginDoes DEF Base
<1>2. TodosNext /\ Msgs' = Msgs
  BY <1>1, SameTodos, SamePollers DEF Msgs
<1>3. TaskOK(i)'
  BY <1>1, <1>2 DEF Base, TaskOK, StageOf
<1> QED
  BY <1>1, <1>2, <1>3, RowsStay, BaseStep

LEMMA TaskStopsBase ==
    ASSUME NEW R, Base(R), NEW i \in Tasks,
           \/ BeginOrphan(i) \/ CommitWithoutPrecommit(i) \/ Crash(i) \/ Fail(i)
    PROVE  Base(R)'
<1>1. /\ TypeIn(R)' /\ Frame /\ row' = row /\ poller' = poller /\ msg' = msg
      /\ OthersStay(i) /\ Rests(i)'
  BY TaskStops DEF Base
<1>2. TodosNext /\ Msgs \subseteq Msgs'
  BY <1>1, SameTodos, SamePollers DEF Msgs
<1> QED
  BY <1>1, <1>2, RowsStay, RestingOK, BaseStep

LEMMA FinishBase ==
    ASSUME NEW R, Base(R), NEW i \in Tasks, StageOf(i) \in Single, Finish(i)
    PROVE  Base(R)' /\ RowsNext(R, i)
<1>1. /\ TypeIn(R)' /\ Frame /\ poller' = poller /\ msg' = msg /\ OthersStay(i) /\ Rests(i)'
      /\ \A s \in R : Stays(s) \/ Completes(s, StageOf(i))
  BY FinishDoes DEF Base
<1>2. TodosNext /\ Msgs \subseteq Msgs'
  BY <1>1, SameTodos, SamePollers DEF Msgs
<1>3. \A s \in R : RowOK(s)' /\ Kept(s, i)
  BY <1>1, <1>2, RowsTyped, StaysOK, CompletesOK
<1>4. RowsNext(R, i)
  BY <1>3 DEF RowsNext
<1> QED
  BY <1>1, <1>2, <1>4, RestingOK, BaseStep

LEMMA ResetBase ==
    ASSUME NEW R, Base(R), NEW i \in Tasks, Reset(i)
    PROVE  Base(R)' /\ RowsNext(R, i)
<1>1. /\ TypeIn(R)' /\ Frame /\ poller' = poller /\ msg' = msg /\ OthersStay(i) /\ Rests(i)'
      /\ \A s \in R : Stays(s) \/ Clears(s)
  BY ResetDoes DEF Base
<1>2. TodosNext /\ Msgs \subseteq Msgs'
  BY <1>1, SameTodos, SamePollers DEF Msgs
<1>3. \A s \in R : RowOK(s)' /\ Kept(s, i)
  BY <1>1, <1>2, RowsTyped, StaysOK, ClearsOK
<1>4. RowsNext(R, i)
  BY <1>3 DEF RowsNext
<1> QED
  BY <1>1, <1>2, <1>4, RestingOK, BaseStep

LEMMA CheckPrecommitBase ==
    ASSUME NEW R, Base(R), NEW i \in Tasks, StageOf(i) = "precommit", CheckPrecommit(i)
    PROVE  Base(R)' /\ RowsNext(R, i)
<1>1. /\ TypeIn(R)' /\ Frame /\ poller' = poller /\ msg' = msg /\ OthersStay(i)
      /\ \A s \in R : Stays(s) \/ (Fails(s) /\ TaskAt(s, "precommit") = i)
      /\ \/ Rests(i)'
         \/ /\ i \in Tasks' /\ task'[i].at = "send" /\ task'[i].msg = task[i].msg
            /\ task'[i].sectors # {}
            /\ \A s \in task'[i].sectors : s \in R /\ TaskAt(s, "precommit") = i /\ Stays(s)
  BY CheckPrecommitDoes DEF Base
<1>2. TodosNext /\ Msgs' = Msgs
  BY <1>1, SameTodos, SamePollers DEF Msgs
<1>3. \A s \in R : RowOK(s)' /\ Kept(s, i)
  BY <1>1, <1>2, RowsTyped, StaysOK, FailsOK
<1>4. RowsNext(R, i)
  BY <1>3 DEF RowsNext
<1>5. i \in Tasks' => TaskOK(i)'
  <2>1. CASE Rests(i)'
    BY <2>1, RestingOK
  <2>2. CASE /\ i \in Tasks' /\ task'[i].at = "send" /\ task'[i].msg = task[i].msg
             /\ task'[i].sectors # {}
             /\ \A s \in task'[i].sectors : s \in R /\ TaskAt(s, "precommit") = i /\ Stays(s)
    <3>1. \A s \in task'[i].sectors : TaskAt(s, StageOf(i))' = i
      BY <2>2 DEF Stays, TaskAt, StageOf
    <3> QED
      BY <1>2, <2>2, <3>1, StageSets DEF Base, TaskOK, StageOf
  <2> QED
    BY <1>1, <2>1, <2>2
<1> QED
  BY <1>1, <1>2, <1>4, <1>5, BaseStep

LEMMA CheckCommitBase ==
    ASSUME NEW R, Base(R), NEW i \in Tasks, StageOf(i) = "commit", CheckCommit(i) \/ SkipCommit(i)
    PROVE  Base(R)'
<1>1. /\ TypeIn(R)' /\ Frame /\ row' = row /\ poller' = poller /\ msg' = msg /\ OthersStay(i)
      /\ \/ Rests(i)'
         \/ /\ i \in Tasks' /\ task'[i].at = "send" /\ task'[i].msg = task[i].msg
            /\ task'[i].sectors # {}
            /\ \A s \in task'[i].sectors : s \in R /\ TaskAt(s, "commit") = i
  BY CheckCommitDoes DEF Base
<1>2. TodosNext /\ Msgs' = Msgs
  BY <1>1, SameTodos, SamePollers DEF Msgs
<1>3. i \in Tasks' => TaskOK(i)'
  <2>1. CASE Rests(i)'
    BY <2>1, RestingOK
  <2>2. CASE /\ i \in Tasks' /\ task'[i].at = "send" /\ task'[i].msg = task[i].msg
             /\ task'[i].sectors # {}
             /\ \A s \in task'[i].sectors : s \in R /\ TaskAt(s, "commit") = i
    <3>1. \A s \in task'[i].sectors : TaskAt(s, StageOf(i))' = i
      BY <1>1, <2>2 DEF TaskAt, StageOf
    <3> QED
      BY <1>2, <2>2, <3>1, StageSets DEF Base, TaskOK, StageOf
  <2> QED
    BY <1>1, <2>1, <2>2
<1> QED
  BY <1>1, <1>2, <1>3, RowsStay, BaseStep

LEMMA SendBase ==
    ASSUME NEW R, Base(R), NEW i \in Tasks, StageOf(i) \in Batched, Send(i)
    PROVE  Base(R)' /\ task[i].sectors # {}
<1>0. task[i].sectors # {}
  BY DEF Send, Base, TaskOK
<1>1. /\ TypeIn(R)' /\ Frame /\ row' = row /\ poller' = poller
      /\ OthersStay(i) /\ Tasks' = Tasks /\ task[i].at = "send"
      /\ task'[i].at = "update" /\ task'[i].sectors = task[i].sectors
  BY <1>0, SendDoes DEF Base
<1>2. PICK m \in MsgIds :
                /\ task'[i].msg = m /\ m[1] = StageOf(i) /\ Unused(m) /\ Msgs' = Msgs \cup {m}
                /\ \A n \in Msgs \ {m} : msg'[n] = msg[n]
  BY <1>0, SendDoes DEF Base
<1>3. TodosNext
  <2> SUFFICES ASSUME NEW p \in Polling, NEW t \in poller'[p].todo
               PROVE  t \in poller[p].todo /\ OutcomeStays(t.msg)
    BY DEF TodosNext
  <2>1. t \in poller[p].todo /\ t.msg # m
    BY <1>1, <1>2 DEF Unused
  <2> QED
    BY <1>2, <2>1 DEF OutcomeStays
<1>4. TaskOK(i)'
  <2>1. \A s \in task'[i].sectors : TaskAt(s, StageOf(i))' = i
    BY <1>1 DEF Base, TaskOK, TaskAt, StageOf
  <2> QED
    BY <1>1, <1>2, <2>1, NoNames DEF TaskOK, StageOf
<1> QED
  BY <1>0, <1>1, <1>2, <1>3, <1>4, RowsStay, BaseStep

LEMMA StoreCidBase ==
    ASSUME NEW R, Base(R), NEW i \in Tasks, StageOf(i) \in Batched, StoreCid(i)
    PROVE  Base(R)' /\ RowsNext(R, i) /\ task[i].msg # NoMsg
<1>0. task[i].at = "update" /\ task[i].msg # NoMsg /\ task[i].msg \in Msgs /\ task[i].msg[1] = StageOf(i)
  BY DEF StoreCid, Base, TaskOK
<1>1. /\ TypeIn(R)' /\ Frame /\ poller' = poller /\ msg' = msg
      /\ OthersStay(i) /\ Tasks' = Tasks
      /\ task'[i].at = "wait" /\ task'[i].msg = task[i].msg
      /\ \A s \in R : \/ Stays(s)
                      \/ Records(s, StageOf(i), task[i].msg) /\ TaskAt(s, StageOf(i)) = i
  BY <1>0, StoreCidDoes DEF Base
<1>2. TodosNext /\ Msgs' = Msgs
  BY <1>1, SameTodos, SamePollers DEF Msgs
<1>3. PICK m \in MsgIds, x \in Batched : m = task[i].msg /\ x = StageOf(i) /\ m \in Msgs /\ m[1] = x
  BY <1>0 DEF Base, TypeIn, MsgsIn
<1>4. \A s \in R : RowOK(s)' /\ Kept(s, i)
  <2> SUFFICES ASSUME NEW s \in R PROVE RowOK(s)' /\ Kept(s, i)
    OBVIOUS
  <2>1. row[s] \in RowType /\ RowOK(s) /\ i \in Ids
    BY RowsTyped DEF Base, TypeIn, TasksIn
  <2>2. CASE Stays(s)
    BY <1>2, <2>1, <2>2, StaysOK
  <2>3. CASE Records(s, x, m) /\ TaskAt(s, x) = i
    BY <1>2, <1>3, <2>1, <2>3, RecordsOK
  <2> QED
    BY <1>1, <1>3, <2>2, <2>3
<1>5. RowsNext(R, i)
  BY <1>4 DEF RowsNext
<1>6. TaskOK(i)'
  BY <1>0, <1>1, <1>2 DEF TaskOK, StageOf
<1> QED
  BY <1>0, <1>1, <1>2, <1>5, <1>6, BaseStep

LEMMA InsertWaitBase ==
    ASSUME NEW R, Base(R), NEW i \in Tasks, InsertWait(i)
    PROVE  Base(R)' /\ task[i].msg \in Msgs
<1>0. task[i].msg \in Msgs
  BY DEF InsertWait, Base, TaskOK
<1>1. /\ TypeIn(R)' /\ Frame /\ row' = row /\ poller' = poller
      /\ OthersStay(i) /\ Rests(i)' /\ Msgs' = Msgs
      /\ \A n \in Msgs : msg'[n].state = msg[n].state
  BY <1>0, InsertWaitDoes DEF Base
<1>2. TodosNext
  BY <1>1 DEF TodosNext, OutcomeStays
<1> QED
  BY <1>0, <1>1, <1>2, RowsStay, RestingOK, BaseStep

\* The steps of the chain.
LEMMA ChainBase ==
    ASSUME NEW R, Base(R), NEW m \in Msgs, Execute(m) \/ RunOutOfGas(m)
    PROVE  Base(R)'
<1>1. /\ TypeIn(R)' /\ Frame /\ row' = row /\ task' = task /\ poller' = poller
      /\ msg[m].state = "sent" /\ Msgs' = Msgs
      /\ \A n \in Msgs \ {m} : msg'[n] = msg[n]
  BY ExecuteDoes, RunOutOfGasDoes DEF Base
<1>2. TodosNext
  BY <1>1 DEF TodosNext, OutcomeStays
<1>3. OthersStay(NoTask) /\ NoTask \notin Tasks'
  BY <1>1, TaskStays DEF Base
<1> QED
  BY <1>1, <1>2, <1>3, RowsStay, BaseStep

LEMMA ClockBase ==
    ASSUME NEW R, Base(R), NEW s \in R, SeedMatures(s) \/ TicketExpires(s) \/ StartEpochPasses(s)
    PROVE  Base(R)'
<1>1. /\ TypeIn(R)' /\ Frame /\ row' = row /\ task' = task /\ poller' = poller /\ msg' = msg
  BY ClockDoes DEF Base
<1>2. TodosNext /\ Msgs \subseteq Msgs' /\ OthersStay(NoTask) /\ NoTask \notin Tasks'
  BY <1>1, SameTodos, SamePollers, TaskStays DEF Msgs, Base
<1> QED
  BY <1>1, <1>2, RowsStay, BaseStep

\* The stage of a task decides what it does.
LEMMA NextCases ==
    ASSUME NEW R, TypeIn(R), Next
    PROVE  \/ \E p \in Polling : PollSelect(p)
           \/ \E p \in Polling : \E t \in poller[p].todo :
                \/ PollStart(p, t) \/ PollPrecommitResult(p, t) \/ PollAddStartEpoch(p, t) \/ PollCommitResult(p, t)
                \/ \E x \in Batched : PollLanded(p, t, x)
           \/ \E p \in Polling : \E x \in Batched : FireBatch(p, x) \/ HoldBatch(p, x)
           \/ \E i \in Tasks : StageOf(i) \in Single /\ (Begin(i) \/ Finish(i))
           \/ \E i \in Tasks : StageOf(i) \in {"treerc", "synth"} /\ Reset(i)
           \/ \E i \in Tasks : BeginOrphan(i) \/ CommitWithoutPrecommit(i) \/ Crash(i) \/ Fail(i)
           \/ \E i \in Tasks : StageOf(i) = "precommit" /\ CheckPrecommit(i)
           \/ \E i \in Tasks : StageOf(i) = "commit" /\ (CheckCommit(i) \/ SkipCommit(i))
           \/ \E i \in Tasks : StageOf(i) \in Batched /\ (Send(i) \/ StoreCid(i) \/ InsertWait(i))
           \/ \E m \in Msgs : Execute(m) \/ RunOutOfGas(m)
           \/ \E s \in R : SeedMatures(s) \/ TicketExpires(s) \/ StartEpochPasses(s)
<1>1. Rows = R
  BY TypeWhole
<1>2. CASE \E p \in Polling : Poll(p)
  BY <1>2, Zenon DEF Poll
<1>3. CASE \E i \in Tasks : Do(i) \/ Crash(i) \/ Fail(i)
  <2>1. PICK i \in Tasks : Do(i) \/ Crash(i) \/ Fail(i)
    BY <1>3
  <2>2. CASE Do(i)
    <3>1. \/ StageOf(i) \in Single /\ (Begin(i) \/ BeginOrphan(i) \/ Finish(i))
          \/ StageOf(i) \in {"treerc", "synth"} /\ Reset(i)
          \/ StageOf(i) = "precommit" /\ (CheckPrecommit(i) \/ Send(i) \/ StoreCid(i) \/ InsertWait(i))
          \/ /\ StageOf(i) = "commit"
             /\ \/ CheckCommit(i) \/ SkipCommit(i) \/ CommitWithoutPrecommit(i)
                \/ Send(i) \/ StoreCid(i) \/ InsertWait(i)
      BY <2>2 DEF Do, SDRTask, TreeDTask, TreeRCTask, SyntheticProofTask, PoRepTask, FinalizeTask, MoveStorageTask,
                  SubmitPrecommitTask, SubmitCommitTask, Work, Submit, Single
    <3> QED
      BY <3>1, StageSets
  <2> QED
    BY <2>1, <2>2
<1>4. CASE \E m \in Msgs : Execute(m) \/ RunOutOfGas(m)
  BY <1>4
<1>5. CASE \E s \in Rows : SeedMatures(s) \/ TicketExpires(s) \/ StartEpochPasses(s)
  BY <1>1, <1>5
<1> QED
  BY <1>2, <1>3, <1>4, <1>5 DEF Next

LEMMA BaseNext == ASSUME NEW R, Base(R), Next PROVE Base(R)'
<1>1. TypeIn(R)
  BY DEF Base
<1>2. CASE \E p \in Polling : PollSelect(p)
  BY <1>2, PollSelectBase
<1>3. CASE \E p \in Polling : \E t \in poller[p].todo :
             \/ PollStart(p, t) \/ PollPrecommitResult(p, t) \/ PollAddStartEpoch(p, t) \/ PollCommitResult(p, t)
             \/ \E x \in Batched : PollLanded(p, t, x)
  BY <1>3, PollStartBase, PollPrecommitResultBase, PollAddStartEpochBase, PollCommitResultBase, PollLandedBase
<1>4. CASE \E p \in Polling : \E x \in Batched : FireBatch(p, x) \/ HoldBatch(p, x)
  BY <1>4, FireBatchBase, HoldBatchBase
<1>5. CASE \E i \in Tasks : StageOf(i) \in Single /\ (Begin(i) \/ Finish(i))
  BY <1>5, BeginBase, FinishBase
<1>6. CASE \E i \in Tasks : StageOf(i) \in {"treerc", "synth"} /\ Reset(i)
  BY <1>6, ResetBase
<1>7. CASE \E i \in Tasks : BeginOrphan(i) \/ CommitWithoutPrecommit(i) \/ Crash(i) \/ Fail(i)
  BY <1>7, TaskStopsBase
<1>8. CASE \E i \in Tasks : StageOf(i) = "precommit" /\ CheckPrecommit(i)
  BY <1>8, CheckPrecommitBase
<1>9. CASE \E i \in Tasks : StageOf(i) = "commit" /\ (CheckCommit(i) \/ SkipCommit(i))
  BY <1>9, CheckCommitBase
<1>10. CASE \E i \in Tasks : StageOf(i) \in Batched /\ (Send(i) \/ StoreCid(i) \/ InsertWait(i))
  BY <1>10, SendBase, StoreCidBase, InsertWaitBase
<1>11. CASE \E m \in Msgs : Execute(m) \/ RunOutOfGas(m)
  BY <1>11, ChainBase
<1>12. CASE \E s \in R : SeedMatures(s) \/ TicketExpires(s) \/ StartEpochPasses(s)
  BY <1>12, ClockBase
<1> QED
  BY <1>1, <1>2, <1>3, <1>4, <1>5, <1>6, <1>7, <1>8, <1>9, <1>10, <1>11, <1>12, NextCases

-----------------------------------------------------------------------------
(* The order of the stages.                                                *)

Resets == "reset" \in faults.kinds

\* No trees are thrown away, or one node alone polls.
Solo == Resets => \A p, q \in Polling : p = q

Prefix(A) == \A x \in A \cap Range(Order) : Before(x) \subseteq A

StageRow(s) ==
    /\ Prefix(After(s))
    /\ "startEpoch" \in After(s) => "precommitOk" \in After(s)
    /\ "commit" \in After(s) => {"porep", "startEpoch"} \subseteq After(s)
    /\ \A x \in Single : TaskAt(s, x) # NoTask => (Before(x) \subseteq After(s) /\ (Resets => x \notin After(s)))
    /\ TaskAt(s, "precommit") # NoTask => "synth" \in After(s)
    /\ TaskAt(s, "commit") # NoTask => {"porep", "startEpoch"} \subseteq After(s)

\* A task has the row it works on.
StageTask(i) == task[i].at = "work" => \A s \in task[i].sectors : TaskAt(s, StageOf(i)) = i

\* What a snapshot called for is still called for, or has been done.
Fits(s, x)   == Before(x) \subseteq After(s) /\ (Resets => (TaskAt(s, x) = NoTask /\ x \notin After(s)))
StageTodo(t) == t.step \in Single => (Fits(t.sector, t.step) /\ (Resets => t.msg = NoMsg))

Stage(R) == /\ \A s \in R : StageRow(s)
            /\ \A i \in Tasks : StageTask(i)
            /\ \A p \in Polling : \A t \in poller[p].todo : StageTodo(t)

\* What a step that does not assign a task leaves alone.
KeptSingle(s, i) == \A x \in Single : TaskAt(s, x) = NoTask \/ TaskAt(s, x) = i \/ TaskAt(s, x)' = TaskAt(s, x)
FitsKept(s, X)   == \A x \in Single \ X : Fits(s, x) => Fits(s, x)'

LEMMA PrefixIs ==
    ASSUME NEW A
    PROVE  Prefix(A) <=>
             /\ "treed" \in A => "sdr" \in A
             /\ "treerc" \in A => "treed" \in A
             /\ "synth" \in A => "treerc" \in A
             /\ "precommit" \in A => "synth" \in A
             /\ "precommitOk" \in A => "precommit" \in A
             /\ "porep" \in A => "precommitOk" \in A
             /\ "finalize" \in A => "porep" \in A
             /\ "move" \in A => "finalize" \in A
<1>1. Range(Order) = {"sdr", "treed", "treerc", "synth", "precommit", "precommitOk", "porep", "finalize", "move"}
  BY Ranges DEF Single
<1> QED
  BY <1>1, BeforeIs DEF Prefix

LEMMA StaysInOrder ==
    ASSUME NEW s, StageRow(s), Stays(s), Resets' = Resets, NEW i
    PROVE  StageRow(s)' /\ KeptSingle(s, i) /\ FitsKept(s, {})
<1>1. After(s)' = After(s) /\ \A x \in Stages : TaskAt(s, x)' = TaskAt(s, x)
  BY StayColumns DEF TasksKept
<1> QED
  BY <1>1, StageSets DEF StageRow, KeptSingle, FitsKept, Fits

LEMMA AssignsSingleInOrder ==
    ASSUME NEW s, row[s] \in RowType, StageRow(s), NEW x \in Single, NEW i, Assigns(s, x, i), Resets' = Resets,
           TaskAt(s, x) = NoTask, Before(x) \subseteq After(s), Resets => x \notin After(s), NEW j
    PROVE  StageRow(s)' /\ KeptSingle(s, j) /\ FitsKept(s, {x})
<1>1. x \in Stages
  BY StageSets
<1>2. After(s)' = After(s) /\ (\A w \in Stages \ {x} : TaskAt(s, w)' = TaskAt(s, w)) /\ TaskAt(s, x)' = i
  BY <1>1, AssignColumns DEF TasksKept
<1>3. "precommit" # x /\ "commit" # x
  BY StageSets
<1>4. FitsKept(s, {x}) /\ KeptSingle(s, j)
  BY <1>2, StageSets DEF FitsKept, Fits, KeptSingle
<1> QED
  BY <1>2, <1>3, <1>4, StageSets DEF StageRow

LEMMA AssignsBatchInOrder ==
    ASSUME NEW s, row[s] \in RowType, StageRow(s), NEW x \in Batched, NEW i, Assigns(s, x, i), Resets' = Resets,
           x = "precommit" => "synth" \in After(s), x = "commit" => {"porep", "startEpoch"} \subseteq After(s), NEW j
    PROVE  StageRow(s)' /\ KeptSingle(s, j) /\ FitsKept(s, {})
<1>1. x \in Stages /\ x \notin Single
  BY StageSets
<1>2. After(s)' = After(s) /\ (\A w \in Stages \ {x} : TaskAt(s, w)' = TaskAt(s, w)) /\ TaskAt(s, x)' = i
  BY <1>1, AssignColumns DEF TasksKept
<1>3. FitsKept(s, {}) /\ KeptSingle(s, j)
  BY <1>1, <1>2, StageSets DEF FitsKept, Fits, KeptSingle
<1> QED
  BY <1>1, <1>2, <1>3, StageSets DEF StageRow

LEMMA MarksInOrder ==
    ASSUME NEW s, row[s] \in RowType, StageRow(s), NEW y, Marks(s, y), Resets' = Resets, NEW i,
           \/ y = "precommitOk" /\ "precommit" \in After(s)
           \/ y = "startEpoch" /\ "precommitOk" \in After(s)
           \/ y = "commitOk"
    PROVE  StageRow(s)' /\ KeptSingle(s, i) /\ FitsKept(s, {})
<1>1. After(s)' = After(s) \cup {y} /\ \A w \in Stages : TaskAt(s, w)' = TaskAt(s, w)
  BY MarkColumns DEF TasksKept
<1>2. y \notin Single
  BY DEF Single
<1>3. FitsKept(s, {}) /\ KeptSingle(s, i)
  BY <1>1, <1>2, StageSets DEF FitsKept, Fits, KeptSingle
<1>4. Prefix(After(s)')
  <2>1. Prefix(After(s))
    BY DEF StageRow
  <2> QED
    BY <1>1, <2>1, PrefixIs
<1>5. \A x \in Single : TaskAt(s, x)' # NoTask => (Before(x) \subseteq After(s)' /\ (Resets' => x \notin After(s)'))
  BY <1>1, <1>2, StageSets DEF StageRow
<1> QED
  BY <1>1, <1>3, <1>4, <1>5, StageSets DEF StageRow

LEMMA CompletesInOrder ==
    ASSUME NEW s, row[s] \in RowType, StageRow(s), NEW x \in Single, NEW i \in Ids, Completes(s, x),
           TaskAt(s, x) = i, Resets' = Resets
    PROVE  StageRow(s)' /\ KeptSingle(s, i) /\ FitsKept(s, {})
<1>1. x \in Stages /\ i # NoTask
  BY StageSets, NoNames
<1>2. After(s)' = After(s) \cup {x} /\ (\A w \in Stages \ {x} : TaskAt(s, w)' = TaskAt(s, w)) /\ TaskAt(s, x)' = NoTask
  BY <1>1, CompleteColumns DEF TasksKept
<1>3. Before(x) \subseteq After(s)
  BY <1>1 DEF StageRow
<1>4. FitsKept(s, {}) /\ KeptSingle(s, i)
  BY <1>1, <1>2, StageSets DEF FitsKept, Fits, KeptSingle
<1>5. Prefix(After(s)')
  BY <1>2, <1>3 DEF StageRow, Prefix
<1>6. \A w \in Single : TaskAt(s, w)' # NoTask => (Before(w) \subseteq After(s)' /\ (Resets' => w \notin After(s)'))
  BY <1>2, StageSets DEF StageRow
<1>7. x \notin {"startEpoch", "commit", "precommit"}
  BY DEF Single
<1> QED
  BY <1>2, <1>4, <1>5, <1>6, <1>7, StageSets DEF StageRow

LEMMA RecordsInOrder ==
    ASSUME NEW s, row[s] \in RowType, StageRow(s), NEW y \in Batched, NEW m, Records(s, y, m),
           TaskAt(s, y) # NoTask, Resets' = Resets, NEW i
    PROVE  StageRow(s)' /\ KeptSingle(s, i) /\ FitsKept(s, {})
<1>1. After(s)' = After(s) \cup {y} /\ (\A w \in Stages \ {y} : TaskAt(s, w)' = TaskAt(s, w)) /\ TaskAt(s, y)' = NoTask
  BY RecordColumns DEF TasksKept
<1>2. y \notin Single
  BY StageSets
<1>3. FitsKept(s, {}) /\ KeptSingle(s, i)
  BY <1>1, <1>2, StageSets DEF FitsKept, Fits, KeptSingle
<1>4. Prefix(After(s)')
  <2>1. Prefix(After(s)) /\ (y = "precommit" => "synth" \in After(s))
    BY DEF StageRow
  <2> QED
    BY <1>1, <2>1, PrefixIs DEF Batched
<1>5. \A x \in Single : TaskAt(s, x)' # NoTask => (Before(x) \subseteq After(s)' /\ (Resets' => x \notin After(s)'))
  BY <1>1, <1>2, StageSets DEF StageRow
<1>6. y = "precommit" \/ y = "commit"
  BY DEF Batched
<1> QED
  BY <1>1, <1>3, <1>4, <1>5, <1>6, StageSets DEF StageRow

LEMMA RetractsInOrder ==
    ASSUME NEW s, row[s] \in RowType, StageRow(s), NEW y \in Batched, NEW Z,
           After(s)' = (After(s) \ {y}) \cup Z, Z \subseteq {"commitOk"}, TasksKept(s, {y}), TaskAt(s, y)' = NoTask,
           y = "precommit" => "precommitOk" \notin After(s), Resets' = Resets, NEW i
    PROVE  StageRow(s)' /\ KeptSingle(s, i) /\ FitsKept(s, {})
<1>1. \A w \in Stages \ {y} : TaskAt(s, w)' = TaskAt(s, w)
  BY DEF TasksKept
<1>2. y \notin Single /\ (y = "precommit" \/ y = "commit")
  BY StageSets DEF Batched
<1>3. Prefix(After(s)) /\ Prefix(After(s)')
  <2>1. Prefix(After(s))
    BY DEF StageRow
  <2> QED
    BY <1>2, <2>1, PrefixIs
<1>4. \A x \in Single : Before(x) \subseteq After(s) => Before(x) \subseteq After(s)'
  <2>1. "commit" \notin UNION {Before(x) : x \in Single}
    BY BeforeIs DEF Single
  <2>2. \A x \in Single : "precommit" \in Before(x) => "precommitOk" \in Before(x)
    BY BeforeIs DEF Single
  <2> QED
    BY <1>2, <2>1, <2>2
<1>5. FitsKept(s, {}) /\ KeptSingle(s, i)
  BY <1>1, <1>2, <1>4, StageSets DEF FitsKept, Fits, KeptSingle, Single
<1>6. \A x \in Single : TaskAt(s, x)' # NoTask => (Before(x) \subseteq After(s)' /\ (Resets' => x \notin After(s)'))
  BY <1>1, <1>2, <1>4, StageSets DEF StageRow, Single
<1>7. /\ "startEpoch" \in After(s) => "precommitOk" \in After(s)
      /\ "commit" \in After(s) => {"porep", "startEpoch"} \subseteq After(s)
      /\ TaskAt(s, "precommit") # NoTask => "synth" \in After(s)
      /\ TaskAt(s, "commit") # NoTask => {"porep", "startEpoch"} \subseteq After(s)
  BY DEF StageRow
<1>8. /\ "startEpoch" \in After(s)' => "precommitOk" \in After(s)'
      /\ "commit" \in After(s)' => {"porep", "startEpoch"} \subseteq After(s)'
      /\ TaskAt(s, "precommit")' # NoTask => "synth" \in After(s)'
      /\ TaskAt(s, "commit")' # NoTask => {"porep", "startEpoch"} \subseteq After(s)'
  BY <1>1, <1>2, <1>7, StageSets
<1> QED
  BY <1>3, <1>5, <1>6, <1>8 DEF StageRow

LEMMA FailsInOrder ==
    ASSUME NEW s, row[s] \in RowType, StageRow(s), Fails(s), Resets' = Resets, NEW i
    PROVE  StageRow(s)' /\ KeptSingle(s, i) /\ FitsKept(s, {})
<1>1. After(s)' = After(s) /\ (\A w \in Stages \ {"precommit"} : TaskAt(s, w)' = TaskAt(s, w)) /\ TaskAt(s, "precommit")' = NoTask
  BY FailColumns DEF TasksKept
<1>2. "precommit" \notin Single
  BY StageSets
<1>3. FitsKept(s, {}) /\ KeptSingle(s, i)
  BY <1>1, <1>2, StageSets DEF FitsKept, Fits, KeptSingle
<1> QED
  BY <1>1, <1>2, <1>3, StageSets DEF StageRow

\* Trees are thrown away while nothing builds on them.
LEMMA ClearsInOrder ==
    ASSUME NEW s, row[s] \in RowType, StageRow(s), Clears(s), Resets' = Resets, Resets, NEW i \in Ids,
           NEW x \in {"treerc", "synth"}, TaskAt(s, x) = i
    PROVE  StageRow(s)' /\ KeptSingle(s, i) /\ FitsKept(s, {})
<1>1. /\ After(s)' = After(s) \ {"treed", "treerc", "synth"}
      /\ (\A w \in Stages \ {"treerc", "synth"} : TaskAt(s, w)' = TaskAt(s, w))
      /\ TaskAt(s, "treerc")' = NoTask /\ TaskAt(s, "synth")' = NoTask
  BY ClearColumns DEF TasksKept
<1>2. x \in Single /\ i # NoTask
  BY NoNames DEF Single
<1>3. Before(x) \subseteq After(s) /\ x \notin After(s)
  BY <1>2 DEF StageRow
<1>4. {"sdr", "treed"} \subseteq After(s) /\ "synth" \notin After(s) /\ Prefix(After(s)) /\ (x = "synth" => "treerc" \in After(s))
      /\ (x = "treerc" => "treerc" \notin After(s))
  <2>1. Prefix(After(s))
    BY DEF StageRow
  <2> QED
    BY <1>3, <2>1, BeforeIs, PrefixIs
<1>5. \A w \in Single : "synth" \in Before(w) \/ w = "sdr" \/ w = "treed" \/ w = "treerc" \/ w = "synth"
  BY BeforeIs DEF Single
<1>6. "treerc" \in Before("synth")
  BY BeforeIs
<1>7. \A w \in Single : TaskAt(s, w) # NoTask => w = x
  <2>1. \A w \in Single : TaskAt(s, w) # NoTask => (Before(w) \subseteq After(s) /\ w \notin After(s))
    BY DEF StageRow
  <2> QED
    BY <1>4, <1>5, <1>6, <2>1
<1>8. \A w \in Single : ~Fits(s, w)
  BY <1>2, <1>4, <1>5, <1>6 DEF Fits
<1>9. FitsKept(s, {}) /\ KeptSingle(s, i)
  BY <1>7, <1>8 DEF FitsKept, KeptSingle
<1>10. \A w \in Single : TaskAt(s, w)' = NoTask
  BY <1>1, <1>7, StageSets
<1>11. {"precommit", "precommitOk", "porep", "commit", "startEpoch", "finalize", "move"} \cap After(s) = {}
  <2>1. /\ "startEpoch" \in After(s) => "precommitOk" \in After(s)
        /\ "commit" \in After(s) => {"porep", "startEpoch"} \subseteq After(s)
    BY DEF StageRow
  <2> QED
    BY <1>4, <2>1, PrefixIs
<1>12. TaskAt(s, "precommit") = NoTask /\ TaskAt(s, "commit") = NoTask
  BY <1>4, <1>11 DEF StageRow
<1>13. TaskAt(s, "precommit")' = NoTask /\ TaskAt(s, "commit")' = NoTask
  BY <1>1, <1>12, StageSets
<1>14. Prefix(After(s)')
  BY <1>1, <1>4, <1>11, PrefixIs
<1> QED
  BY <1>1, <1>9, <1>10, <1>11, <1>13, <1>14 DEF StageRow

StageRows(R, i) == \A s \in R : StageRow(s)' /\ KeptSingle(s, i)
StageTodos      == \A p \in Polling : \A t \in poller'[p].todo : StageTodo(t)'
AllFit(R)       == \A s \in R : FitsKept(s, {})

LEMMA FrameResets == Frame => (Resets' = Resets /\ Solo' = Solo)
  BY DEF Frame, Resets, Solo

LEMMA StageStep ==
    ASSUME NEW R, Base(R), Stage(R), Frame, NEW i, OthersStay(i), i \in Tasks' => StageTask(i)',
           StageRows(R, i), StageTodos
    PROVE  Stage(R)'
<1>1. ASSUME NEW j \in Tasks' \ {i} PROVE StageTask(j)'
  <2>1. j \in Tasks /\ task'[j] = task[j] /\ TaskOK(j) /\ StageTask(j) /\ j \in Ids /\ task[j].sectors \subseteq R
    BY DEF OthersStay, Base, Stage, TypeIn, TasksIn, TaskType
  <2>2. task[j].at = "work" => \A s \in task[j].sectors : TaskAt(s, StageOf(j))' = j
    BY <2>1, NoNames DEF TaskOK, StageTask, StageRows, KeptSingle
  <2> QED
    BY <2>1, <2>2 DEF StageTask, StageOf
<1>2. \A s \in R : StageRow(s)'
  BY DEF StageRows
<1>3. \A p \in Polling' : \A t \in poller'[p].todo : StageTodo(t)'
  BY DEF StageTodos, Frame
<1> QED
  BY <1>1, <1>2, <1>3 DEF Stage

LEMMA TodosFit ==
    ASSUME NEW R, Base(R), Stage(R), Frame, TodoShrinks, AllFit(R)
    PROVE  StageTodos
<1> SUFFICES ASSUME NEW p \in Polling, NEW t \in poller'[p].todo PROVE StageTodo(t)'
  BY DEF StageTodos
<1>1. t \in poller[p].todo /\ StageTodo(t) /\ t.sector \in R
  BY DEF TodoShrinks, Stage, Base, TypeIn, PollersIn, PollerType, TodoType
<1>2. Fits(t.sector, t.step) /\ t.step \in Single => Fits(t.sector, t.step)'
  BY <1>1 DEF AllFit, FitsKept
<1> QED
  BY <1>1, <1>2, FrameResets DEF StageTodo

LEMMA RestingInOrder == ASSUME NEW i, Rests(i)' PROVE i \in Tasks' => StageTask(i)'
  BY DEF Rests, StageTask

LEMMA SameRowsInOrder ==
    ASSUME NEW R, Stage(R), Frame, row' = row, NEW i
    PROVE  StageRows(R, i) /\ AllFit(R)
<1>1. \A s \in R : Stays(s) /\ StageRow(s)
  BY DEF Stays, Stage
<1> QED
  BY <1>1, FrameResets, StaysInOrder DEF StageRows, AllFit

LEMMA PollSelectStage ==
    ASSUME NEW R, Base(R), Stage(R), NEW p \in Polling, PollSelect(p)
    PROVE  Stage(R)'
<1>1. /\ Frame /\ row' = row /\ task' = task
      /\ \A q \in Polling : \A t \in poller'[q].todo :
           \/ t \in poller[q].todo
           \/ t.msg = NoMsg /\ t.sector \in R /\ CallsFor(t.sector, t.step)
  BY PollSelectDoes DEF Base
<1>2. ASSUME NEW q \in Polling, NEW t \in poller'[q].todo
      PROVE  StageTodo(t)'
  <2>1. StageTodo(t)
    <3>1. CASE t \in poller[q].todo
      BY <1>2, <3>1 DEF Stage
    <3>2. CASE t.msg = NoMsg /\ CallsFor(t.sector, t.step)
      <4>1. t.step \in Single => CallsForTask(t.sector, t.step)
        BY <3>2 DEF CallsFor, Single
      <4> QED
        BY <3>2, <4>1 DEF StageTodo, Fits, CallsForTask, After, TaskAt
    <3> QED
      BY <1>1, <3>1, <3>2
  <2>2. Fits(t.sector, t.step)' = Fits(t.sector, t.step)
    BY <1>1, FrameResets DEF Fits, After, TaskAt
  <2> QED
    BY <1>1, <2>1, <2>2, FrameResets DEF StageTodo
<1>3. StageTodos
  BY <1>2 DEF StageTodos
<1>4. OthersStay(NoTask) /\ NoTask \notin Tasks'
  BY <1>1, TaskStays DEF Base
<1> QED
  BY <1>1, <1>3, <1>4, SameRowsInOrder, StageStep

LEMMA PollLandedStage ==
    ASSUME NEW R, Base(R), Stage(R), NEW p \in Polling, NEW t \in poller[p].todo, NEW x \in Batched, PollLanded(p, t, x)
    PROVE  Stage(R)'
<1>0. \A s \in R : CidAt(s, x) # NoMsg => CidAt(s, x) \in Msgs
  BY DEF Base, RowOK
<1>1. /\ Frame /\ row' = row /\ task' = task
      /\ \A q \in Polling : \A u \in poller'[q].todo : u \in poller[q].todo \/ u.step = ResultStep[x]
  BY <1>0, PollLandedDoes DEF Base
<1>2. ResultStep[x] \notin Single
  BY DEF Batched, ResultStep, Single
<1>3. ASSUME NEW q \in Polling, NEW u \in poller'[q].todo
      PROVE  StageTodo(u)'
  <2>1. StageTodo(u)
    BY <1>1, <1>2, <1>3 DEF Stage, StageTodo
  <2>2. Fits(u.sector, u.step)' = Fits(u.sector, u.step)
    BY <1>1, FrameResets DEF Fits, After, TaskAt
  <2> QED
    BY <1>1, <2>1, <2>2, FrameResets DEF StageTodo
<1>4. StageTodos
  BY <1>3 DEF StageTodos
<1>5. OthersStay(NoTask) /\ NoTask \notin Tasks'
  BY <1>1, TaskStays DEF Base
<1> QED
  BY <1>1, <1>4, <1>5, SameRowsInOrder, StageStep

\* A poller starts a stage: no other step of its snapshot, and no other poller,
\* may still call for the stage where trees are thrown away.
LEMMA PollStartStage ==
    ASSUME NEW R, Base(R), Stage(R), Solo, NEW p \in Polling, NEW t \in poller[p].todo, PollStart(p, t)
    PROVE  Stage(R)'
<1>1. /\ Frame /\ TodoShrinks /\ t \notin poller'[p].todo /\ t.step \in Single /\ t.sector \in R
      /\ \/ row' = row /\ task' = task
         \/ \E i \in Ids : /\ TaskAt(t.sector, t.step) = NoTask
                           /\ OthersStay(i) /\ Rests(i)' /\ Assigns(t.sector, t.step, i)
                           /\ \A s \in R \ {t.sector} : Stays(s)
  BY PollStartDoes DEF Base
<1>2. CASE row' = row /\ task' = task
  <2>1. OthersStay(NoTask) /\ NoTask \notin Tasks'
    BY <1>2, TaskStays DEF Base
  <2> QED
    BY <1>1, <1>2, <2>1, SameRowsInOrder, TodosFit, StageStep
<1>3. ASSUME NEW i \in Ids, TaskAt(t.sector, t.step) = NoTask, OthersStay(i), Rests(i)',
             Assigns(t.sector, t.step, i), \A s \in R \ {t.sector} : Stays(s)
      PROVE  Stage(R)'
  <2>1. \A s \in R : row[s] \in RowType /\ StageRow(s)
    BY RowsTyped DEF Stage
  <2>2. Fits(t.sector, t.step) /\ (Resets => t.msg = NoMsg)
    BY <1>1 DEF Stage, StageTodo
  <2>3. StageRow(t.sector)' /\ KeptSingle(t.sector, i) /\ FitsKept(t.sector, {t.step})
    BY <1>1, <1>3, <2>1, <2>2, FrameResets, AssignsSingleInOrder DEF Fits
  <2>4. \A s \in R \ {t.sector} : StageRow(s)' /\ KeptSingle(s, i) /\ FitsKept(s, {})
    BY <1>1, <1>3, <2>1, FrameResets, StaysInOrder
  <2>5. StageRows(R, i)
    BY <2>3, <2>4 DEF StageRows
  <2>6. ASSUME NEW q \in Polling, NEW u \in poller'[q].todo, u.step \in Single
        PROVE  Fits(u.sector, u.step)' /\ (Resets' => u.msg = NoMsg)
    <3>1. /\ u \in poller[q].todo /\ u \in TodoType(R) /\ u.sector \in R /\ t \in TodoType(R)
          /\ Fits(u.sector, u.step) /\ (Resets => u.msg = NoMsg)
      BY <1>1, <2>6 DEF TodoShrinks, Stage, StageTodo, Base, TypeIn, PollersIn, PollerType, TodoType
    <3>2. CASE u.sector # t.sector
      BY <1>1, <2>4, <2>6, <3>1, <3>2, FrameResets DEF FitsKept
    <3>3. CASE u.sector = t.sector /\ u.step # t.step
      BY <1>1, <2>3, <2>6, <3>1, <3>3, FrameResets DEF FitsKept
    <3>4. CASE u.sector = t.sector /\ u.step = t.step
      <4>1. ~Resets
        <5> SUFFICES ASSUME Resets PROVE FALSE
          OBVIOUS
        <5>1. q = p
          BY DEF Solo
        <5>2. u = t
          BY <2>2, <3>1, <3>4 DEF TodoType
        <5> QED
          BY <1>1, <2>6, <5>1, <5>2
      <4>2. After(u.sector)' = After(u.sector)
        BY <1>1, <1>3, <2>1, <3>4, StageSets, AssignColumns
      <4> QED
        BY <1>1, <3>1, <4>1, <4>2, FrameResets DEF Fits
    <3> QED
      BY <3>2, <3>3, <3>4
  <2>7. StageTodos
    BY <2>6 DEF StageTodos, StageTodo
  <2> QED
    BY <1>1, <1>3, <2>5, <2>7, RestingInOrder, StageStep
<1> QED
  BY <1>1, <1>2, <1>3

LEMMA OneRowStage ==
    ASSUME NEW R, Base(R), Stage(R), Frame, TodoShrinks, task' = task, NEW s \in R, \A z \in R \ {s} : Stays(z),
           StageRow(s)' /\ KeptSingle(s, NoTask) /\ FitsKept(s, {})
    PROVE  Stage(R)'
<1>1. OthersStay(NoTask) /\ NoTask \notin Tasks'
  BY TaskStays DEF Base
<1>2. \A z \in R \ {s} : StageRow(z)' /\ KeptSingle(z, NoTask) /\ FitsKept(z, {})
  BY FrameResets, StaysInOrder DEF Stage
<1>3. StageRows(R, NoTask) /\ AllFit(R)
  BY <1>2 DEF StageRows, AllFit
<1> QED
  BY <1>1, <1>3, TodosFit, StageStep

LEMMA PollPrecommitResultStage ==
    ASSUME NEW R, Base(R), Stage(R), NEW p \in Polling, NEW t \in poller[p].todo, PollPrecommitResult(p, t)
    PROVE  Stage(R)'
<1>1. /\ Frame /\ TodoShrinks /\ task' = task /\ t.step = "precommitResult" /\ t.sector \in R
      /\ \A s \in R \ {t.sector} : Stays(s)
      /\ \/ Stays(t.sector)
         \/ Retracts(t.sector, "precommit") /\ "precommitOk" \notin After(t.sector)
         \/ Marks(t.sector, "precommitOk") /\ msg[t.msg].state = "ok"
  BY PollPrecommitResultDoes DEF Base
<1>2. row[t.sector] \in RowType /\ StageRow(t.sector) /\ RowOK(t.sector) /\ Resets' = Resets
  BY <1>1, RowsTyped, FrameResets DEF Stage
<1>3. CASE Stays(t.sector)
  BY <1>1, <1>2, <1>3, StaysInOrder, OneRowStage
<1>4. CASE Retracts(t.sector, "precommit") /\ "precommitOk" \notin After(t.sector)
  <2>1. PICK Z \in {{}} :
          /\ After(t.sector)' = (After(t.sector) \ {"precommit"}) \cup Z /\ Z \subseteq {"commitOk"}
          /\ TasksKept(t.sector, {"precommit"}) /\ TaskAt(t.sector, "precommit")' = NoTask
    BY <1>2, <1>4, RetractColumns, StageSets
  <2>2. StageRow(t.sector)' /\ KeptSingle(t.sector, NoTask) /\ FitsKept(t.sector, {})
    BY <1>2, <1>4, <2>1, RetractsInOrder, StageSets
  <2> QED
    BY <1>1, <2>2, OneRowStage
<1>5. CASE Marks(t.sector, "precommitOk") /\ msg[t.msg].state = "ok"
  <2>1. TodoOK(t) /\ ResultStep["precommit"] = "precommitResult" /\ Msgs \subseteq MsgIds
    BY DEF Base, ResultStep, TypeIn, MsgsIn
  <2>2. CidAt(t.sector, "precommit") = t.msg /\ t.msg # NoMsg
    BY <1>1, <1>5, <2>1, StageSets, NoNames DEF TodoOK
  <2>3. "precommit" \in After(t.sector)
    BY <1>2, <2>2, StageSets DEF RowOK
  <2>4. StageRow(t.sector)' /\ KeptSingle(t.sector, NoTask) /\ FitsKept(t.sector, {})
    BY <1>2, <1>5, <2>3, MarksInOrder
  <2> QED
    BY <1>1, <2>4, OneRowStage
<1> QED
  BY <1>1, <1>3, <1>4, <1>5

LEMMA PollCommitResultStage ==
    ASSUME NEW R, Base(R), Stage(R), NEW p \in Polling, NEW t \in poller[p].todo, PollCommitResult(p, t)
    PROVE  Stage(R)'
<1>1. /\ Frame /\ TodoShrinks /\ task' = task /\ t.sector \in R
      /\ \A s \in R \ {t.sector} : Stays(s)
      /\ \/ Stays(t.sector) \/ Marks(t.sector, "commitOk")
         \/ Retracts(t.sector, "commit") \/ RetractsProven(t.sector)
  BY PollCommitResultDoes DEF Base
<1>2. row[t.sector] \in RowType /\ StageRow(t.sector) /\ Resets' = Resets /\ "commit" # "precommit"
  BY <1>1, RowsTyped, FrameResets DEF Stage
<1>3. CASE Stays(t.sector)
  BY <1>1, <1>2, <1>3, StaysInOrder, OneRowStage
<1>4. CASE Marks(t.sector, "commitOk")
  <2>1. StageRow(t.sector)' /\ KeptSingle(t.sector, NoTask) /\ FitsKept(t.sector, {})
    BY <1>2, <1>4, MarksInOrder
  <2> QED
    BY <1>1, <2>1, OneRowStage
<1>5. CASE Retracts(t.sector, "commit") \/ RetractsProven(t.sector)
  <2>1. PICK Z \in {{}, {"commitOk"}} :
          /\ After(t.sector)' = (After(t.sector) \ {"commit"}) \cup Z
          /\ TasksKept(t.sector, {"commit"}) /\ TaskAt(t.sector, "commit")' = NoTask
    <3>1. CASE Retracts(t.sector, "commit")
      BY <1>2, <3>1, RetractColumns, StageSets
    <3>2. CASE RetractsProven(t.sector)
      BY <1>2, <3>2, RetractProvenColumns
    <3> QED
      BY <1>5, <3>1, <3>2
  <2>2. Z \subseteq {"commitOk"}
    BY <2>1
  <2>3. StageRow(t.sector)' /\ KeptSingle(t.sector, NoTask) /\ FitsKept(t.sector, {})
    BY <1>2, <2>1, <2>2, RetractsInOrder, StageSets
  <2> QED
    BY <1>1, <2>3, OneRowStage
<1> QED
  BY <1>1, <1>3, <1>4, <1>5

LEMMA PollAddStartEpochStage ==
    ASSUME NEW R, Base(R), Stage(R), NEW p \in Polling, NEW t \in poller[p].todo, PollAddStartEpoch(p, t)
    PROVE  Stage(R)'
<1>1. /\ Frame /\ TodoShrinks /\ task' = task /\ t.sector \in R
      /\ \A s \in R \ {t.sector} : Stays(s)
      /\ \/ Stays(t.sector)
         \/ Marks(t.sector, "startEpoch") /\ "precommitOk" \in After(t.sector)
  BY PollAddStartEpochDoes DEF Base
<1>2. row[t.sector] \in RowType /\ StageRow(t.sector) /\ Resets' = Resets
  BY <1>1, RowsTyped, FrameResets DEF Stage
<1>3. StageRow(t.sector)' /\ KeptSingle(t.sector, NoTask) /\ FitsKept(t.sector, {})
  BY <1>1, <1>2, StaysInOrder, MarksInOrder
<1> QED
  BY <1>1, <1>3, OneRowStage

LEMMA FireBatchStage ==
    ASSUME NEW R, Base(R), Stage(R), NEW p \in Polling, NEW x \in Batched, FireBatch(p, x)
    PROVE  Stage(R)'
<1>1. Frame /\ TodoShrinks
  BY FireBatchDoes DEF Base
<1>2. PICK i \in Ids, B \in SUBSET R :
           /\ B \subseteq Candidates(x) /\ OthersStay(i) /\ Rests(i)'
           /\ \A s \in B : Assigns(s, x, i)
           /\ \A s \in R \ B : Stays(s)
  BY FireBatchDoes DEF Base
<1>3. \A s \in B : /\ x = "precommit" => "synth" \in After(s)
                   /\ x = "commit" => {"porep", "startEpoch"} \subseteq After(s)
  BY <1>2 DEF Candidates, After
<1>4. \A s \in R : row[s] \in RowType /\ StageRow(s)
  BY RowsTyped DEF Stage
<1>5. \A s \in B : StageRow(s)' /\ KeptSingle(s, i) /\ FitsKept(s, {})
  BY <1>1, <1>2, <1>3, <1>4, FrameResets, AssignsBatchInOrder
<1>6. \A s \in R \ B : StageRow(s)' /\ KeptSingle(s, i) /\ FitsKept(s, {})
  BY <1>1, <1>2, <1>4, FrameResets, StaysInOrder
<1>7. StageRows(R, i) /\ AllFit(R)
  BY <1>5, <1>6 DEF StageRows, AllFit
<1> QED
  BY <1>1, <1>2, <1>7, RestingInOrder, TodosFit, StageStep

LEMMA BeginStage ==
    ASSUME NEW R, Base(R), Stage(R), NEW i \in Tasks, Begin(i)
    PROVE  Stage(R)'
<1>1. /\ Frame /\ row' = row /\ poller' = poller /\ OthersStay(i) /\ task'[i].at = "work"
      /\ task'[i].sectors = RowsOf(StageOf(i), i)
  BY BeginDoes DEF Base
<1>2. StageTask(i)'
  BY <1>1 DEF StageTask, RowsOf, TaskAt, StageOf
<1> QED
  BY <1>1, <1>2, SameRowsInOrder, SamePollers, TodosFit, StageStep

\* The steps that change no row and after which the task is not at work.
LEMMA NoWorkStage ==
    ASSUME NEW R, Base(R), Stage(R), Frame, row' = row, TodoShrinks, NEW i, OthersStay(i),
           i \in Tasks' => task'[i].at # "work"
    PROVE  Stage(R)'
<1>1. i \in Tasks' => StageTask(i)'
  BY DEF StageTask
<1> QED
  BY <1>1, SameRowsInOrder, TodosFit, StageStep

LEMMA FinishStage ==
    ASSUME NEW R, Base(R), Stage(R), NEW i \in Tasks, StageOf(i) \in Single, Finish(i)
    PROVE  Stage(R)'
<1>1. /\ Frame /\ poller' = poller /\ OthersStay(i) /\ Rests(i)' /\ task[i].at = "work"
      /\ \A s \in R : \/ Stays(s)
                      \/ /\ Completes(s, StageOf(i))
                         /\ TaskAt(s, StageOf(i)) = i \/ s \in task[i].sectors
  BY FinishDoes DEF Base
<1>2. \A s \in task[i].sectors : TaskAt(s, StageOf(i)) = i
  BY <1>1 DEF Stage, StageTask
<1>3. \A s \in R : row[s] \in RowType /\ StageRow(s)
  BY RowsTyped DEF Stage
<1>4. i \in Ids
  BY DEF Base, TypeIn, TasksIn
<1>5. \A s \in R : StageRow(s)' /\ KeptSingle(s, i) /\ FitsKept(s, {})
  BY <1>1, <1>2, <1>3, <1>4, FrameResets, StaysInOrder, CompletesInOrder
<1>6. StageRows(R, i) /\ AllFit(R)
  BY <1>5 DEF StageRows, AllFit
<1> QED
  BY <1>1, <1>6, SamePollers, RestingInOrder, TodosFit, StageStep

LEMMA ResetStage ==
    ASSUME NEW R, Base(R), Stage(R), NEW i \in Tasks, StageOf(i) \in {"treerc", "synth"}, Reset(i)
    PROVE  Stage(R)'
<1>1. /\ Frame /\ poller' = poller /\ OthersStay(i) /\ Rests(i)' /\ task[i].at = "work" /\ Resets
      /\ \A s \in R : Stays(s) \/ (Clears(s) /\ s \in task[i].sectors)
  BY ResetDoes DEF Base, Resets
<1>2. \A s \in task[i].sectors : TaskAt(s, StageOf(i)) = i
  BY <1>1 DEF Stage, StageTask
<1>3. \A s \in R : row[s] \in RowType /\ StageRow(s)
  BY RowsTyped DEF Stage
<1>4. i \in Ids /\ Resets' = Resets
  BY <1>1, FrameResets DEF Base, TypeIn, TasksIn
<1>5. ASSUME NEW s \in R PROVE StageRow(s)' /\ KeptSingle(s, i) /\ FitsKept(s, {})
  <2>1. CASE Stays(s)
    BY <1>3, <1>4, <2>1, StaysInOrder
  <2>2. CASE Clears(s) /\ s \in task[i].sectors
    BY <1>1, <1>2, <1>3, <1>4, <2>2, ClearsInOrder
  <2> QED
    BY <1>1, <2>1, <2>2
<1>6. StageRows(R, i) /\ AllFit(R)
  BY <1>5 DEF StageRows, AllFit
<1> QED
  BY <1>1, <1>6, SamePollers, RestingInOrder, TodosFit, StageStep

LEMMA CheckPrecommitStage ==
    ASSUME NEW R, Base(R), Stage(R), NEW i \in Tasks, StageOf(i) = "precommit", CheckPrecommit(i)
    PROVE  Stage(R)'
<1>1. /\ Frame /\ poller' = poller /\ OthersStay(i)
      /\ \A s \in R : Stays(s) \/ Fails(s)
      /\ Rests(i)' \/ task'[i].at = "send"
  BY CheckPrecommitDoes DEF Base
<1>2. \A s \in R : row[s] \in RowType /\ StageRow(s)
  BY RowsTyped DEF Stage
<1>3. \A s \in R : StageRow(s)' /\ KeptSingle(s, i) /\ FitsKept(s, {})
  BY <1>1, <1>2, FrameResets, StaysInOrder, FailsInOrder
<1>4. StageRows(R, i) /\ AllFit(R)
  BY <1>3 DEF StageRows, AllFit
<1>5. i \in Tasks' => StageTask(i)'
  BY <1>1, RestingInOrder DEF StageTask
<1> QED
  BY <1>1, <1>4, <1>5, SamePollers, TodosFit, StageStep

LEMMA StoreCidStage ==
    ASSUME NEW R, Base(R), Stage(R), NEW i \in Tasks, StageOf(i) \in Batched, StoreCid(i)
    PROVE  Stage(R)'
<1>0. task[i].msg # NoMsg
  BY StoreCidBase
<1>1. /\ Frame /\ poller' = poller /\ OthersStay(i) /\ task'[i].at = "wait"
      /\ \A s \in R : Stays(s) \/ (Records(s, StageOf(i), task[i].msg) /\ TaskAt(s, StageOf(i)) = i)
  BY <1>0, StoreCidDoes DEF Base
<1>2. \A s \in R : row[s] \in RowType /\ StageRow(s)
  BY RowsTyped DEF Stage
<1>3. i \in Ids /\ i # NoTask
  BY NoNames DEF Base, TypeIn, TasksIn
<1>4. \A s \in R : StageRow(s)' /\ KeptSingle(s, i) /\ FitsKept(s, {})
  BY <1>1, <1>2, <1>3, FrameResets, StaysInOrder, RecordsInOrder
<1>5. StageRows(R, i) /\ AllFit(R)
  BY <1>4 DEF StageRows, AllFit
<1>6. StageTask(i)'
  BY <1>1 DEF StageTask
<1> QED
  BY <1>1, <1>5, <1>6, SamePollers, TodosFit, StageStep

LEMMA StageNext == ASSUME NEW R, Base(R), Stage(R), Solo, Next PROVE Stage(R)'
<1>1. TypeIn(R)
  BY DEF Base
<1>2. CASE \E p \in Polling : PollSelect(p)
  BY <1>2, PollSelectStage
<1>3. CASE \E p \in Polling : \E t \in poller[p].todo :
             \/ PollStart(p, t) \/ PollPrecommitResult(p, t) \/ PollAddStartEpoch(p, t) \/ PollCommitResult(p, t)
             \/ \E x \in Batched : PollLanded(p, t, x)
  BY <1>3, PollStartStage, PollPrecommitResultStage, PollAddStartEpochStage, PollCommitResultStage, PollLandedStage
<1>4. CASE \E p \in Polling : \E x \in Batched : FireBatch(p, x)
  BY <1>4, FireBatchStage
<1>5. CASE \E p \in Polling : \E x \in Batched : HoldBatch(p, x)
  <2>1. Frame /\ TodoShrinks /\ row' = row /\ task' = task
    BY <1>5, HoldBatchDoes DEF Base
  <2> QED
    BY <2>1, TaskStays, NoWorkStage DEF Base
<1>6. CASE \E i \in Tasks : StageOf(i) \in Single /\ (Begin(i) \/ Finish(i))
  BY <1>6, BeginStage, FinishStage
<1>7. CASE \E i \in Tasks : StageOf(i) \in {"treerc", "synth"} /\ Reset(i)
  BY <1>7, ResetStage
<1>8. CASE \E i \in Tasks : BeginOrphan(i) \/ CommitWithoutPrecommit(i) \/ Crash(i) \/ Fail(i)
  <2>1. PICK i \in Tasks : BeginOrphan(i) \/ CommitWithoutPrecommit(i) \/ Crash(i) \/ Fail(i)
    BY <1>8
  <2>2. Frame /\ row' = row /\ poller' = poller /\ OthersStay(i) /\ Rests(i)'
    BY <2>1, TaskStops DEF Base
  <2>3. i \in Tasks' => task'[i].at # "work"
    BY <2>2 DEF Rests
  <2> QED
    BY <2>2, <2>3, SamePollers, NoWorkStage
<1>9. CASE \E i \in Tasks : StageOf(i) = "precommit" /\ CheckPrecommit(i)
  BY <1>9, CheckPrecommitStage
<1>10. CASE \E i \in Tasks : StageOf(i) = "commit" /\ (CheckCommit(i) \/ SkipCommit(i))
  <2>1. PICK i \in Tasks : StageOf(i) = "commit" /\ (CheckCommit(i) \/ SkipCommit(i))
    BY <1>10
  <2>2. Frame /\ row' = row /\ poller' = poller /\ OthersStay(i) /\ (Rests(i)' \/ task'[i].at = "send")
    BY <2>1, CheckCommitDoes DEF Base
  <2>3. i \in Tasks' => task'[i].at # "work"
    BY <2>2 DEF Rests
  <2> QED
    BY <2>2, <2>3, SamePollers, NoWorkStage
<1>11. CASE \E i \in Tasks : StageOf(i) \in Batched /\ Send(i)
  <2>1. PICK i \in Tasks : StageOf(i) \in Batched /\ Send(i)
    BY <1>11
  <2>2. task[i].sectors # {}
    BY <2>1, SendBase
  <2>3. Frame /\ row' = row /\ poller' = poller /\ OthersStay(i) /\ task'[i].at = "update"
    BY <2>1, <2>2, SendDoes DEF Base
  <2> QED
    BY <2>3, SamePollers, NoWorkStage
<1>12. CASE \E i \in Tasks : StageOf(i) \in Batched /\ StoreCid(i)
  BY <1>12, StoreCidStage
<1>13. CASE \E i \in Tasks : StageOf(i) \in Batched /\ InsertWait(i)
  <2>1. PICK i \in Tasks : InsertWait(i)
    BY <1>13
  <2>2. task[i].msg \in Msgs
    BY <2>1, InsertWaitBase
  <2>3. Frame /\ row' = row /\ poller' = poller /\ OthersStay(i) /\ Rests(i)'
    BY <2>1, <2>2, InsertWaitDoes DEF Base
  <2>4. i \in Tasks' => task'[i].at # "work"
    BY <2>3 DEF Rests
  <2> QED
    BY <2>3, <2>4, SamePollers, NoWorkStage
<1>14. CASE \E m \in Msgs : Execute(m) \/ RunOutOfGas(m)
  <2>1. Frame /\ row' = row /\ task' = task /\ poller' = poller
    BY <1>14, ExecuteDoes, RunOutOfGasDoes DEF Base
  <2> QED
    BY <2>1, TaskStays, SamePollers, NoWorkStage DEF Base
<1>15. CASE \E s \in R : SeedMatures(s) \/ TicketExpires(s) \/ StartEpochPasses(s)
  <2>1. Frame /\ row' = row /\ task' = task /\ poller' = poller
    BY <1>15, ClockDoes DEF Base
  <2> QED
    BY <2>1, TaskStays, SamePollers, NoWorkStage DEF Base
<1> QED
  BY <1>1, <1>2, <1>3, <1>4, <1>5, <1>6, <1>7, <1>8, <1>9, <1>10, <1>11, <1>12, <1>13, <1>14, <1>15, NextCases

-----------------------------------------------------------------------------
(* Messages.                                                               *)

\* The sector has the message, or the task that has sent it is about to store
\* it there.
Submits(i, m, s) == task[i].at = "update" /\ task[i].msg = m /\ s \in task[i].sectors
Link(m, s)       == CidAt(s, m[1]) = m \/ \E i \in Tasks : Submits(i, m, s)

MsgOK(m)   == msg[m].state = "sent" => \A s \in msg[m].sectors : chain[s] = From(m[1]) /\ Link(m, s)
SendOK(i)  == task[i].at = "send" => \A s \in task[i].sectors : chain[s] = From(StageOf(i))
ChainOK(s) == chain[s] # "unknown" => \E m \in Msgs : m[1] = "precommit" /\ msg[m].state = "ok" /\ Link(m, s)

Messages(R) == /\ \A m \in Msgs : MsgOK(m)
               /\ \A i \in Tasks : SendOK(i)
               /\ \A s \in R : ChainOK(s)

LinksKept(R) == \A m \in Msgs, s \in R : (Link(m, s) /\ msg[m].state \in {"sent", "ok"}) => Link(m, s)'
MsgsSame     == Msgs' = Msgs /\ \A n \in Msgs : msg'[n].state = msg[n].state /\ msg'[n].sectors = msg[n].sectors

\* A sector has one message of a stage, and no task of the stage besides.
LEMMA OneLink ==
    ASSUME NEW R, Base(R), NEW m \in Msgs, NEW s \in R, Link(m, s)
    PROVE  /\ \A n \in Msgs : (n[1] = m[1] /\ Link(n, s)) => n = m
           /\ \A i \in Tasks : TaskAt(s, m[1]) = i => Submits(i, m, s)
<1>1. Msgs \subseteq MsgIds /\ Tasks \subseteq Ids /\ RowOK(s) /\ \A i \in Tasks : TaskOK(i)
  BY DEF Base, TypeIn, MsgsIn, TasksIn
<1>2. ASSUME NEW n \in Msgs, CidAt(s, n[1]) = n
      PROVE  TaskAt(s, n[1]) = NoTask
  BY <1>1, <1>2, NoNames DEF RowOK
<1>3. ASSUME NEW n \in Msgs, NEW i \in Tasks, Submits(i, n, s)
      PROVE  TaskAt(s, n[1]) = i /\ i # NoTask /\ task[i].msg = n
  BY <1>1, <1>3, NoNames DEF TaskOK, Submits
<1>4. \A i \in Tasks : TaskAt(s, m[1]) = i => Submits(i, m, s)
  BY <1>1, <1>2, <1>3, NoNames DEF Link
<1>5. ASSUME NEW n \in Msgs, n[1] = m[1], Link(n, s)
      PROVE  n = m
  <2>1. CASE CidAt(s, n[1]) = n
    BY <1>2, <1>3, <1>5, <2>1 DEF Link
  <2>2. CASE \E i \in Tasks : Submits(i, n, s)
    BY <1>2, <1>3, <1>5, <2>2 DEF Link
  <2> QED
    BY <1>5, <2>1, <2>2 DEF Link
<1> QED
  BY <1>4, <1>5

LEMMA FutileFree ==
    ASSUME NEW R, Base(R), Messages(R)
    PROVE  \A m \in Msgs : msg[m].state = "sent" => \A s \in msg[m].sectors :
             /\ chain[s] = From(m[1])
             /\ \A n \in Msgs \ {m} : msg[n].state = "sent" => s \notin msg[n].sectors
<1> SUFFICES ASSUME NEW m \in Msgs, msg[m].state = "sent", NEW s \in msg[m].sectors,
                    NEW n \in Msgs \ {m}, msg[n].state = "sent", s \in msg[n].sectors
             PROVE  FALSE
  BY DEF Messages, MsgOK
<1>1. s \in R /\ m[1] \in Batched /\ n[1] \in Batched
  BY NoNames DEF Base, TypeIn, MsgsIn, MsgType
<1>2. chain[s] = From(m[1]) /\ Link(m, s) /\ chain[s] = From(n[1]) /\ Link(n, s)
  BY DEF Messages, MsgOK
<1>3. m[1] = n[1]
  BY <1>1, <1>2 DEF From, Batched
<1> QED
  BY <1>1, <1>2, <1>3, OneLink

LEMMA LinksStay ==
    ASSUME NEW R, Base(R), NEW i, OthersStay(i), RowsNext(R, i), i \in Tasks => task[i].at # "update"
    PROVE  LinksKept(R)
<1> SUFFICES ASSUME NEW m \in Msgs, NEW s \in R, Link(m, s), msg[m].state \in {"sent", "ok"}
             PROVE  Link(m, s)'
  BY DEF LinksKept
<1>1. m[1] \in Batched /\ m # NoMsg /\ Kept(s, i)
  BY NoNames DEF Base, TypeIn, MsgsIn, RowsNext
<1>2. CASE CidAt(s, m[1]) = m
  <2>1. CidAt(s, m[1])' = m
    BY <1>1, <1>2 DEF Kept
  <2> QED
    BY <2>1 DEF Link
<1>3. CASE \E j \in Tasks : Submits(j, m, s)
  <2>1. PICK j \in Tasks : Submits(j, m, s)
    BY <1>3
  <2>2. j \in Tasks' /\ task'[j] = task[j]
    BY <2>1 DEF Submits, OthersStay
  <2>3. Submits(j, m, s)'
    BY <2>1, <2>2 DEF Submits
  <2> QED
    BY <2>2, <2>3 DEF Link
<1> QED
  BY <1>2, <1>3 DEF Link

LEMMA QuietStep ==
    ASSUME NEW R, Base(R), Messages(R), chain' = chain, MsgsSame, LinksKept(R), NEW i, OthersStay(i),
           i \in Tasks' => SendOK(i)'
    PROVE  Messages(R)'
<1>1. ASSUME NEW m \in Msgs' PROVE MsgOK(m)'
  <2>1. m \in Msgs /\ msg'[m].state = msg[m].state /\ msg'[m].sectors = msg[m].sectors /\ MsgOK(m)
    BY DEF MsgsSame, Messages
  <2>2. msg[m].sectors \subseteq R
    BY <2>1 DEF Base, TypeIn, MsgsIn, MsgType
  <2> QED
    BY <2>1, <2>2 DEF MsgOK, LinksKept, From
<1>2. ASSUME NEW j \in Tasks' PROVE SendOK(j)'
  <2>1. CASE j # i
    <3>1. j \in Tasks /\ task'[j] = task[j] /\ SendOK(j)
      BY <2>1 DEF OthersStay, Messages
    <3> QED
      BY <3>1 DEF SendOK, StageOf, From
  <2> QED
    BY <2>1
<1>3. ASSUME NEW s \in R PROVE ChainOK(s)'
  <2> SUFFICES ASSUME chain'[s] # "unknown"
               PROVE  \E m \in Msgs' : m[1] = "precommit" /\ msg'[m].state = "ok" /\ Link(m, s)'
    BY DEF ChainOK
  <2>1. PICK m \in Msgs : m[1] = "precommit" /\ msg[m].state = "ok" /\ Link(m, s)
    BY DEF Messages, ChainOK
  <2> QED
    BY <2>1 DEF MsgsSame, LinksKept
<1> QED
  BY <1>1, <1>2, <1>3 DEF Messages

LEMMA SameMsgs == msg' = msg => MsgsSame
  BY DEF MsgsSame, Msgs

LEMMA RestingSends == ASSUME NEW i, Rests(i)' PROVE i \in Tasks' => SendOK(i)'
  BY DEF Rests, SendOK

\* The steps that change no task.
LEMMA NoTaskMessages ==
    ASSUME NEW R, Base(R), Messages(R), RowsNext(R, NoTask), task' = task, msg' = msg, chain' = chain
    PROVE  Messages(R)'
<1>1. OthersStay(NoTask) /\ NoTask \notin Tasks' /\ NoTask \notin Tasks
  BY TaskStays, NoNames DEF Base, TypeIn, TasksIn
<1> QED
  BY <1>1, LinksStay, SameMsgs, QuietStep

\* The steps after which a task rests, or is new.
LEMMA RestingMessages ==
    ASSUME NEW R, Base(R), Messages(R), NEW i, OthersStay(i), Rests(i)', RowsNext(R, i),
           i \in Tasks => task[i].at # "update", MsgsSame, chain' = chain
    PROVE  Messages(R)'
  BY LinksStay, RestingSends, QuietStep

LEMMA CheckPrecommitMessages ==
    ASSUME NEW R, Base(R), Messages(R), NEW i \in Tasks, StageOf(i) = "precommit", CheckPrecommit(i)
    PROVE  Messages(R)'
<1>1. /\ msg' = msg /\ chain' = chain /\ OthersStay(i) /\ task[i].at = "queued"
      /\ \/ Rests(i)'
         \/ /\ i \in Tasks' /\ task'[i].at = "send"
            /\ \A s \in task'[i].sectors : s \in R /\ TaskAt(s, "precommit") = i
  BY CheckPrecommitDoes DEF Base
<1>2. LinksKept(R)
  BY <1>1, CheckPrecommitBase, LinksStay
\* A sector whose precommit is on chain has the message, and so no task.
<1>3. ASSUME NEW s \in R, TaskAt(s, "precommit") = i
      PROVE  chain[s] = "unknown"
  <2> SUFFICES ASSUME chain[s] # "unknown" PROVE FALSE
    OBVIOUS
  <2>1. PICK m \in Msgs : m[1] = "precommit" /\ Link(m, s)
    BY DEF Messages, ChainOK
  <2>2. Submits(i, m, s)
    BY <1>3, <2>1, OneLink
  <2> QED
    BY <1>1, <2>2 DEF Submits
<1>4. i \in Tasks' => SendOK(i)'
  <2>1. CASE Rests(i)'
    BY <2>1, RestingSends
  <2>2. CASE /\ i \in Tasks' /\ task'[i].at = "send"
             /\ \A s \in task'[i].sectors : s \in R /\ TaskAt(s, "precommit") = i
    BY <1>1, <1>3, <2>2 DEF SendOK, StageOf, From
  <2> QED
    BY <1>1, <2>1, <2>2
<1> QED
  BY <1>1, <1>2, <1>4, SameMsgs, QuietStep

LEMMA CheckCommitMessages ==
    ASSUME NEW R, Base(R), Messages(R), NEW i \in Tasks, StageOf(i) = "commit", CheckCommit(i) \/ SkipCommit(i)
    PROVE  Messages(R)'
<1>1. /\ row' = row /\ msg' = msg /\ chain' = chain /\ OthersStay(i) /\ task[i].at = "queued"
      /\ \/ Rests(i)'
         \/ /\ i \in Tasks' /\ task'[i].at = "send"
            /\ \A s \in task'[i].sectors : chain[s] = "precommitted"
  BY CheckCommitDoes DEF Base
<1>2. LinksKept(R)
  <2>1. RowsNext(R, i)
    BY <1>1, RowsStay DEF Msgs
  <2> QED
    BY <1>1, <2>1, LinksStay
<1>3. i \in Tasks' => SendOK(i)'
  <2>1. CASE Rests(i)'
    BY <2>1, RestingSends
  <2>2. CASE /\ i \in Tasks' /\ task'[i].at = "send"
             /\ \A s \in task'[i].sectors : chain[s] = "precommitted"
    BY <1>1, <2>2 DEF SendOK, StageOf, From
  <2> QED
    BY <1>1, <2>1, <2>2
<1> QED
  BY <1>1, <1>2, <1>3, SameMsgs, QuietStep

LEMMA BeginMessages ==
    ASSUME NEW R, Base(R), Messages(R), NEW i \in Tasks, Begin(i)
    PROVE  Messages(R)'
<1>1. /\ row' = row /\ msg' = msg /\ chain' = chain /\ OthersStay(i) /\ task'[i].at = "work" /\ task[i].at = "queued"
  BY BeginDoes DEF Base, Begin
<1>2. LinksKept(R)
  <2>1. RowsNext(R, i)
    BY <1>1, RowsStay DEF Msgs
  <2> QED
    BY <1>1, <2>1, LinksStay
<1>3. SendOK(i)'
  BY <1>1 DEF SendOK
<1> QED
  BY <1>1, <1>2, <1>3, SameMsgs, QuietStep

\* The new message takes over from the task that was about to send it.
LEMMA SendMessages ==
    ASSUME NEW R, Base(R), Messages(R), NEW i \in Tasks, StageOf(i) \in Batched, Send(i)
    PROVE  Messages(R)'
<1>0. task[i].sectors # {}
  BY SendBase
<1>1. /\ row' = row /\ chain' = chain /\ OthersStay(i) /\ Tasks' = Tasks /\ task[i].at = "send"
      /\ task'[i].at = "update" /\ task'[i].sectors = task[i].sectors
  BY <1>0, SendDoes DEF Base
<1>2. PICK m \in MsgIds :
           /\ task'[i].msg = m /\ m[1] = StageOf(i) /\ Unused(m) /\ Msgs' = Msgs \cup {m}
           /\ msg'[m].state = "sent" /\ msg'[m].sectors = task[i].sectors
           /\ \A n \in Msgs \ {m} : msg'[n] = msg[n]
  BY <1>0, SendDoes DEF Base
<1>3. LinksKept(R)
  <2>1. RowsNext(R, i)
    BY <1>1, <1>2, RowsStay
  <2> QED
    BY <1>1, <2>1, LinksStay
<1>4. Rows = R
  BY TypeWhole DEF Base
<1>5. \A s \in R : ~Link(m, s)
  BY <1>2, <1>4 DEF Unused, Link, Submits
<1>6. MsgOK(m)'
  <2>1. \A s \in task[i].sectors : chain[s] = From(m[1])
    BY <1>1, <1>2 DEF Messages, SendOK
  <2>2. \A s \in task[i].sectors : Submits(i, m, s)'
    BY <1>1, <1>2 DEF Submits
  <2>3. \A s \in task[i].sectors : Link(m, s)'
    BY <1>1, <2>2 DEF Link
  <2> QED
    BY <1>1, <1>2, <2>1, <2>3 DEF MsgOK, From
<1>7. ASSUME NEW n \in Msgs \ {m} PROVE MsgOK(n)'
  <2>1. msg'[n] = msg[n] /\ MsgOK(n) /\ msg[n].sectors \subseteq R
    BY <1>2 DEF Messages, Base, TypeIn, MsgsIn, MsgType
  <2> QED
    BY <1>1, <1>3, <2>1 DEF MsgOK, LinksKept, From
<1>8. ASSUME NEW j \in Tasks' PROVE SendOK(j)'
  <2>1. CASE j # i
    <3>1. j \in Tasks /\ task'[j] = task[j] /\ SendOK(j)
      BY <1>1, <2>1 DEF OthersStay, Messages
    <3> QED
      BY <1>1, <3>1 DEF SendOK, StageOf, From
  <2>2. CASE j = i
    BY <1>1, <2>2 DEF SendOK
  <2> QED
    BY <2>1, <2>2
<1>9. ASSUME NEW s \in R PROVE ChainOK(s)'
  <2> SUFFICES ASSUME chain'[s] # "unknown"
               PROVE  \E n \in Msgs' : n[1] = "precommit" /\ msg'[n].state = "ok" /\ Link(n, s)'
    BY DEF ChainOK
  <2>1. PICK n \in Msgs : n[1] = "precommit" /\ msg[n].state = "ok" /\ Link(n, s)
    BY <1>1 DEF Messages, ChainOK
  <2>2. n # m /\ n \in Msgs' /\ msg'[n] = msg[n]
    BY <1>2, <1>5, <2>1
  <2> QED
    BY <1>3, <2>1, <2>2 DEF LinksKept
<1>10. \A n \in Msgs' : MsgOK(n)'
  BY <1>2, <1>6, <1>7
<1> QED
  BY <1>8, <1>9, <1>10 DEF Messages

LEMMA StoreCidMessages ==
    ASSUME NEW R, Base(R), Messages(R), NEW i \in Tasks, StageOf(i) \in Batched, StoreCid(i)
    PROVE  Messages(R)'
<1>0. RowsNext(R, i) /\ task[i].msg # NoMsg
  BY StoreCidBase
<1>1. /\ msg' = msg /\ chain' = chain /\ OthersStay(i) /\ Tasks' = Tasks /\ task[i].at = "update" /\ task'[i].at = "wait"
      /\ \A s \in task[i].sectors : TaskAt(s, StageOf(i)) = i => Records(s, StageOf(i), task[i].msg)
  BY <1>0, StoreCidDoes DEF Base
<1>2. LinksKept(R)
  <2> SUFFICES ASSUME NEW m \in Msgs, NEW s \in R, Link(m, s), msg[m].state \in {"sent", "ok"}
               PROVE  Link(m, s)'
    BY DEF LinksKept
  <2>1. m[1] \in Batched /\ m # NoMsg /\ Kept(s, i)
    BY <1>0, NoNames DEF Base, TypeIn, MsgsIn, RowsNext
  <2>2. CASE CidAt(s, m[1]) = m
    <3>1. CidAt(s, m[1])' = m
      BY <2>1, <2>2 DEF Kept
    <3> QED
      BY <3>1 DEF Link
  <2>3. CASE \E j \in Tasks \ {i} : Submits(j, m, s)
    <3>1. PICK j \in Tasks \ {i} : Submits(j, m, s)
      BY <2>3
    <3>2. j \in Tasks' /\ task'[j] = task[j]
      BY <1>1, <3>1 DEF OthersStay
    <3>3. Submits(j, m, s)'
      BY <3>1, <3>2 DEF Submits
    <3> QED
      BY <3>2, <3>3 DEF Link
  <2>4. CASE Submits(i, m, s)
    <3>1. task[i].msg = m /\ m[1] = StageOf(i) /\ TaskAt(s, StageOf(i)) = i /\ s \in task[i].sectors
      BY <1>0, <1>1, <2>4 DEF Submits, Base, TaskOK
    <3>2. Records(s, m[1], m) /\ row[s] \in RowType
      BY <1>1, <3>1, RowsTyped
    <3>3. CidAt(s, m[1])' = m
      BY <2>1, <3>2, RecordColumns
    <3> QED
      BY <3>3 DEF Link
  <2> QED
    BY <2>2, <2>3, <2>4 DEF Link
<1>3. SendOK(i)'
  BY <1>1 DEF SendOK
<1> QED
  BY <1>1, <1>2, <1>3, SameMsgs, QuietStep

\* The chain executes a message: every sector it moves on has this message, and
\* no other message or task of that stage.
LEMMA ExecuteMessages ==
    ASSUME NEW R, Base(R), Messages(R), NEW m \in Msgs, Execute(m)
    PROVE  Messages(R)'
<1>1. /\ row' = row /\ task' = task /\ msg[m].state = "sent" /\ msg'[m].state # "sent" /\ Msgs' = Msgs
      /\ \A n \in Msgs \ {m} : msg'[n] = msg[n]
      /\ \A s \in R : \/ chain'[s] = chain[s]
                      \/ /\ s \in msg[m].sectors /\ msg'[m].state = "ok" /\ chain[s] = From(m[1])
                         /\ m[1] = "precommit" \/ chain[s] # "unknown"
  BY ExecuteDoes DEF Base
<1>2. \A n, s : Link(n, s)' = Link(n, s)
  BY <1>1 DEF Link, Submits, CidAt, Tasks
<1>3. m[1] \in Batched /\ (\A n \in Msgs : msg[n].sectors \subseteq R /\ n[1] \in Batched)
      /\ (\A i \in Tasks : task[i].sectors \subseteq R /\ TaskOK(i))
  BY NoNames DEF Base, TypeIn, MsgsIn, MsgType, TasksIn, TaskType
<1>4. \A s \in msg[m].sectors : Link(m, s) /\ s \in R
  BY <1>1, <1>3 DEF Messages, MsgOK
<1>5. \A x, y \in Batched : From(x) = From(y) => x = y
  BY DEF From, Batched
<1>6. ASSUME NEW n \in Msgs' PROVE MsgOK(n)'
  <2> SUFFICES ASSUME msg'[n].state = "sent", NEW s \in msg'[n].sectors
               PROVE  chain'[s] = From(n[1]) /\ Link(n, s)'
    BY DEF MsgOK, From
  <2>1. n \in Msgs /\ n # m /\ msg'[n] = msg[n]
    BY <1>1
  <2>2. chain[s] = From(n[1]) /\ Link(n, s) /\ s \in R
    BY <1>3, <2>1 DEF Messages, MsgOK
  <2>3. chain'[s] = chain[s]
    <3> SUFFICES ASSUME s \in msg[m].sectors, chain[s] = From(m[1]) PROVE FALSE
      BY <1>1, <2>2
    <3>1. n[1] = m[1]
      BY <1>3, <1>5, <2>1, <2>2
    <3> QED
      BY <1>4, <2>1, <2>2, <3>1, OneLink
  <2> QED
    BY <1>2, <2>2, <2>3
<1>7. ASSUME NEW i \in Tasks' PROVE SendOK(i)'
  <2> SUFFICES ASSUME task'[i].at = "send", NEW s \in task'[i].sectors
               PROVE  chain'[s] = From(StageOf(i))
    BY DEF SendOK, From, StageOf
  <2>1. i \in Tasks /\ task'[i] = task[i]
    BY <1>1 DEF Tasks
  <2>2. chain[s] = From(StageOf(i)) /\ s \in R /\ StageOf(i) \in Batched /\ TaskAt(s, StageOf(i)) = i
    BY <1>3, <2>1 DEF Messages, SendOK, TaskOK
  <2>3. chain'[s] = chain[s]
    <3> SUFFICES ASSUME s \in msg[m].sectors, chain[s] = From(m[1]) PROVE FALSE
      BY <1>1, <2>2
    <3>1. StageOf(i) = m[1]
      BY <1>3, <1>5, <2>2
    <3>2. Submits(i, m, s)
      BY <1>4, <2>1, <2>2, <3>1, OneLink
    <3> QED
      BY <2>1, <3>2 DEF Submits
  <2> QED
    BY <2>2, <2>3
<1>8. ASSUME NEW s \in R PROVE ChainOK(s)'
  <2> SUFFICES ASSUME chain'[s] # "unknown"
               PROVE  \E n \in Msgs' : n[1] = "precommit" /\ msg'[n].state = "ok" /\ Link(n, s)'
    BY DEF ChainOK
  <2>1. CASE chain[s] # "unknown"
    <3>1. PICK n \in Msgs : n[1] = "precommit" /\ msg[n].state = "ok" /\ Link(n, s)
      BY <2>1 DEF Messages, ChainOK
    <3>2. n # m /\ msg'[n] = msg[n]
      BY <1>1, <3>1
    <3> QED
      BY <1>1, <1>2, <3>1, <3>2
  <2>2. CASE chain[s] = "unknown"
    <3>1. s \in msg[m].sectors /\ msg'[m].state = "ok" /\ m[1] = "precommit"
      BY <1>1, <2>2
    <3> QED
      BY <1>1, <1>2, <1>4, <3>1
  <2> QED
    BY <2>1, <2>2
<1> QED
  BY <1>6, <1>7, <1>8 DEF Messages

LEMMA RunOutOfGasMessages ==
    ASSUME NEW R, Base(R), Messages(R), NEW m \in Msgs, RunOutOfGas(m)
    PROVE  Messages(R)'
<1>1. /\ row' = row /\ task' = task /\ chain' = chain /\ msg[m].state = "sent" /\ msg'[m].state = "gas" /\ Msgs' = Msgs
      /\ \A n \in Msgs \ {m} : msg'[n] = msg[n]
  BY RunOutOfGasDoes DEF Base
<1>2. \A n, s : Link(n, s)' = Link(n, s)
  BY <1>1 DEF Link, Submits, CidAt, Tasks
<1>3. ASSUME NEW n \in Msgs' PROVE MsgOK(n)'
  <2>1. CASE n # m
    BY <1>1, <1>2, <2>1 DEF Messages, MsgOK, From
  <2>2. CASE n = m
    BY <1>1, <2>2 DEF MsgOK
  <2> QED
    BY <2>1, <2>2
<1>4. ASSUME NEW i \in Tasks' PROVE SendOK(i)'
  BY <1>1, <1>4 DEF Messages, SendOK, From, StageOf, Tasks
<1>5. ASSUME NEW s \in R PROVE ChainOK(s)'
  BY <1>1, <1>2 DEF Messages, ChainOK
<1> QED
  BY <1>3, <1>4, <1>5 DEF Messages

LEMMA MessagesNext == ASSUME NEW R, Base(R), Messages(R), Next, ~faults'.torn PROVE Messages(R)'
<1>1. TypeIn(R)
  BY DEF Base
<1>2. CASE \E p \in Polling : PollSelect(p)
  <2>1. row' = row /\ task' = task /\ msg' = msg /\ chain' = chain
    BY <1>1, <1>2, PollSelectDoes
  <2> QED
    BY <2>1, RowsStay, NoTaskMessages DEF Msgs
<1>3. CASE \E p \in Polling : \E t \in poller[p].todo : \E x \in Batched : PollLanded(p, t, x)
  <2>1. row' = row /\ task' = task /\ msg' = msg /\ chain' = chain
    BY <1>3 DEF PollLanded
  <2> QED
    BY <2>1, RowsStay, NoTaskMessages DEF Msgs
<1>4. CASE \E p \in Polling : \E t \in poller[p].todo : PollStart(p, t)
  <2>0. PICK p \in Polling : \E t \in poller[p].todo : PollStart(p, t)
    BY <1>4
  <2>1. PICK t \in poller[p].todo : PollStart(p, t)
    BY <2>0
  <2>2. msg' = msg /\ chain' = chain
    BY <2>1 DEF PollStart
  <2>3. PICK i : RowsNext(R, i) /\ OthersStay(i) /\ Rests(i)' /\ i \notin Tasks
    BY <2>1, PollStartBase
  <2> QED
    BY <2>2, <2>3, SameMsgs, RestingMessages
<1>5. CASE \E p \in Polling : \E t \in poller[p].todo :
             PollPrecommitResult(p, t) \/ PollAddStartEpoch(p, t) \/ PollCommitResult(p, t)
  <2>1. RowsNext(R, NoTask)
    BY <1>5, PollPrecommitResultBase, PollAddStartEpochBase, PollCommitResultBase
  <2>2. task' = task /\ msg' = msg /\ chain' = chain
    BY <1>5 DEF PollPrecommitResult, PollAddStartEpoch, PollCommitResult
  <2> QED
    BY <2>1, <2>2, NoTaskMessages
<1>6. CASE \E p \in Polling : \E x \in Batched : FireBatch(p, x)
  <2>1. PICK p \in Polling, x \in Batched : FireBatch(p, x)
    BY <1>6
  <2>2. msg' = msg /\ chain' = chain
    BY <2>1 DEF FireBatch
  <2>3. PICK i : RowsNext(R, i) /\ OthersStay(i) /\ Rests(i)' /\ i \notin Tasks
    BY <2>1, FireBatchBase
  <2> QED
    BY <2>2, <2>3, SameMsgs, RestingMessages
<1>7. CASE \E p \in Polling : \E x \in Batched : HoldBatch(p, x)
  <2>1. row' = row /\ task' = task /\ msg' = msg /\ chain' = chain
    BY <1>7 DEF HoldBatch
  <2> QED
    BY <2>1, RowsStay, NoTaskMessages DEF Msgs
<1>8. CASE \E i \in Tasks : StageOf(i) \in Single /\ Begin(i)
  BY <1>8, BeginMessages
<1>9. CASE \E i \in Tasks : StageOf(i) \in Single /\ Finish(i)
  <2>1. PICK i \in Tasks : StageOf(i) \in Single /\ Finish(i)
    BY <1>9
  <2>2. msg' = msg /\ chain' = chain /\ OthersStay(i) /\ Rests(i)' /\ task[i].at = "work"
    BY <1>1, <2>1, FinishDoes
  <2> QED
    BY <2>1, <2>2, FinishBase, SameMsgs, RestingMessages
<1>10. CASE \E i \in Tasks : StageOf(i) \in {"treerc", "synth"} /\ Reset(i)
  <2>1. PICK i \in Tasks : Reset(i)
    BY <1>10
  <2>2. msg' = msg /\ chain' = chain /\ OthersStay(i) /\ Rests(i)' /\ task[i].at = "work"
    BY <1>1, <2>1, ResetDoes
  <2> QED
    BY <2>1, <2>2, ResetBase, SameMsgs, RestingMessages
<1>11. CASE \E i \in Tasks : BeginOrphan(i) \/ CommitWithoutPrecommit(i) \/ Crash(i) \/ Fail(i)
  <2>1. PICK i \in Tasks : BeginOrphan(i) \/ CommitWithoutPrecommit(i) \/ Crash(i) \/ Fail(i)
    BY <1>11
  <2>2. /\ row' = row /\ msg' = msg /\ chain' = chain /\ OthersStay(i) /\ Rests(i)' /\ task[i].at # "update"
    BY <1>1, <2>1, TaskStops
  <2>3. RowsNext(R, i)
    BY <2>2, RowsStay DEF Msgs
  <2> QED
    BY <2>2, <2>3, SameMsgs, RestingMessages
<1>12. CASE \E i \in Tasks : StageOf(i) = "precommit" /\ CheckPrecommit(i)
  BY <1>12, CheckPrecommitMessages
<1>13. CASE \E i \in Tasks : StageOf(i) = "commit" /\ (CheckCommit(i) \/ SkipCommit(i))
  BY <1>13, CheckCommitMessages
<1>14. CASE \E i \in Tasks : StageOf(i) \in Batched /\ (Send(i) \/ StoreCid(i))
  BY <1>14, SendMessages, StoreCidMessages
<1>15. CASE \E i \in Tasks : StageOf(i) \in Batched /\ InsertWait(i)
  <2>1. PICK i \in Tasks : InsertWait(i)
    BY <1>15
  <2>2. task[i].msg \in Msgs
    BY <2>1, InsertWaitBase
  <2>3. /\ row' = row /\ chain' = chain /\ OthersStay(i) /\ Rests(i)' /\ task[i].at = "wait" /\ MsgsSame
    BY <1>1, <2>1, <2>2, InsertWaitDoes DEF MsgsSame
  <2>4. RowsNext(R, i)
    BY <2>3, RowsStay DEF MsgsSame
  <2> QED
    BY <2>3, <2>4, RestingMessages
<1>16. CASE \E m \in Msgs : Execute(m) \/ RunOutOfGas(m)
  BY <1>16, ExecuteMessages, RunOutOfGasMessages
<1>17. CASE \E s \in R : SeedMatures(s) \/ TicketExpires(s) \/ StartEpochPasses(s)
  <2>1. row' = row /\ task' = task /\ msg' = msg /\ chain' = chain
    BY <1>1, <1>17, ClockDoes
  <2> QED
    BY <2>1, RowsStay, NoTaskMessages DEF Msgs
<1> QED
  BY <1>1, <1>2, <1>3, <1>4, <1>5, <1>6, <1>7, <1>8, <1>9, <1>10, <1>11, <1>12, <1>13, <1>14, <1>15, <1>16, <1>17, NextCases

-----------------------------------------------------------------------------
(* The theorems.                                                           *)

\* The inductive invariant, over the sectors R in the pipeline.
SealInv == \E R : Base(R) /\ (Solo => Stage(R)) /\ (~faults.torn => Messages(R))

LEMMA InitSealInv == Init => SealInv
<1> SUFFICES ASSUME Init PROVE SealInv
  OBVIOUS
<1>1. PICK sc \in Scenarios :
        /\ row = [s \in sc.sectors |-> [after |-> sc.done, task |-> [x \in Stages |-> NoTask],
                                        cid |-> [x \in Batched |-> NoMsg], failed |-> FALSE]]
        /\ task = <<>>
        /\ poller = [p \in sc.pollers |-> [at |-> "idle", todo |-> {}]]
        /\ msg = <<>>
        /\ chain = [s \in sc.sectors |-> "unknown"]
        /\ clock = [s \in sc.sectors |-> {}]
        /\ faults = [kinds |-> sc.kinds, met |-> 0, torn |-> FALSE]
  BY DEF Init
<1>2. PICK R \in SUBSET Sectors, D \in {{}, BySupraseal}, P \in SUBSET Pollers, K \in SUBSET FaultKinds :
        R = sc.sectors /\ D = sc.done /\ P = sc.pollers /\ K = sc.kinds
  BY SealAssumption DEF SealAssumption
<1> DEFINE f == [x \in Stages |-> NoTask]
           c == [x \in Batched |-> NoMsg]
           r == [after |-> D, task |-> f, cid |-> c, failed |-> FALSE]
<1>3. D \in SUBSET Flags /\ "precommit" \notin D /\ "commit" \notin D /\ "startEpoch" \notin D
  BY StageSets DEF BySupraseal, Single, Stages, Flags
<1>4. f \in [Stages -> Ids \cup {NoTask}] /\ c \in [Batched -> MsgIds \cup {NoMsg}]
  OBVIOUS
<1>5. row = [s \in R |-> r]
  BY <1>1, <1>2
<1>6. r.after = D /\ r.task = f /\ r.cid = c
  OBVIOUS
<1>7. \A s \in R : /\ After(s) = D
                   /\ \A x \in Stages : TaskAt(s, x) = NoTask
                   /\ \A x \in Batched : CidAt(s, x) = NoMsg
  BY <1>5, <1>6 DEF After, TaskAt, CidAt
<1> HIDE DEF f, c
<1>8. r \in RowType
  BY <1>3, <1>4, Zenon DEF RowType
<1> HIDE DEF r
<1>9. RowsIn(R)
  BY <1>2, <1>5, <1>8 DEF RowsIn
<1>10. Tasks = {} /\ Msgs = {}
  BY <1>1 DEF Tasks, Msgs
<1>11. TasksIn(R) /\ MsgsIn(R)
  BY <1>1, <1>10 DEF TasksIn, MsgsIn, Tasks, Msgs
<1>12. PollersIn(R) /\ \A p \in Polling : poller[p].todo = {}
  BY <1>1 DEF PollersIn, Polling, PollerType
<1>13. ChainIn(R) /\ ClockIn(R) /\ \A s \in R : chain[s] = "unknown"
  BY <1>1, <1>2 DEF ChainIn, ClockIn
<1>14. FaultsIn
  <2>1. 0 \in 0..MaxFaults
    BY SealAssumption DEF SealAssumption
  <2> QED
    BY <1>1, <1>2, <2>1, Zenon DEF FaultsIn, FaultType
<1>15. TypeIn(R)
  BY <1>9, <1>11, <1>12, <1>13, <1>14 DEF TypeIn
<1>16. Base(R)
  <2>1. \A s \in R : RowOK(s)
    BY <1>3, <1>7, StageSets DEF RowOK, Batched
  <2> QED
    BY <1>10, <1>12, <1>15, <2>1 DEF Base
<1>17. Stage(R)
  <2>1. Prefix(D)
    <3>1. CASE D = {}
      BY <3>1 DEF Prefix
    <3>2. CASE D = BySupraseal
      BY <3>2, PrefixIs DEF BySupraseal
    <3> QED
      BY <3>1, <3>2
  <2>2. \A s \in R : StageRow(s)
    BY <1>3, <1>7, <2>1, StageSets DEF StageRow
  <2> QED
    BY <1>10, <1>12, <2>2 DEF Stage
<1>18. Messages(R)
  BY <1>10, <1>13 DEF Messages, ChainOK
<1> QED
  BY <1>16, <1>17, <1>18 DEF SealInv

LEMMA FrameNext == ASSUME NEW R, Base(R), Next PROVE Frame
<1>1. TypeIn(R) /\ \A s \in R : \A x \in Batched : CidAt(s, x) # NoMsg => CidAt(s, x) \in Msgs
  BY DEF Base, RowOK
<1>2. CASE \E p \in Polling : PollSelect(p)
  BY <1>1, <1>2, PollSelectDoes
<1>3. CASE \E p \in Polling : \E t \in poller[p].todo :
             \/ PollStart(p, t) \/ PollPrecommitResult(p, t) \/ PollAddStartEpoch(p, t) \/ PollCommitResult(p, t)
             \/ \E x \in Batched : PollLanded(p, t, x)
  BY <1>1, <1>3, PollStartDoes, PollPrecommitResultDoes, PollAddStartEpochDoes, PollCommitResultDoes, PollLandedDoes
<1>4. CASE \E p \in Polling : \E x \in Batched : FireBatch(p, x) \/ HoldBatch(p, x)
  BY <1>1, <1>4, FireBatchDoes, HoldBatchDoes
<1>5. CASE \E i \in Tasks : StageOf(i) \in Single /\ (Begin(i) \/ Finish(i))
  BY <1>1, <1>5, BeginDoes, FinishDoes
<1>6. CASE \E i \in Tasks : StageOf(i) \in {"treerc", "synth"} /\ Reset(i)
  BY <1>1, <1>6, ResetDoes
<1>7. CASE \E i \in Tasks : BeginOrphan(i) \/ CommitWithoutPrecommit(i) \/ Crash(i) \/ Fail(i)
  BY <1>1, <1>7, TaskStops
<1>8. CASE \E i \in Tasks : StageOf(i) = "precommit" /\ CheckPrecommit(i)
  BY <1>1, <1>8, CheckPrecommitDoes
<1>9. CASE \E i \in Tasks : StageOf(i) = "commit" /\ (CheckCommit(i) \/ SkipCommit(i))
  BY <1>1, <1>9, CheckCommitDoes
<1>10. CASE \E i \in Tasks : StageOf(i) \in Batched /\ (Send(i) \/ StoreCid(i) \/ InsertWait(i))
  BY <1>1, <1>10, SendBase, StoreCidBase, InsertWaitBase, SendDoes, StoreCidDoes, InsertWaitDoes
<1>11. CASE \E m \in Msgs : Execute(m) \/ RunOutOfGas(m)
  BY <1>1, <1>11, ExecuteDoes, RunOutOfGasDoes
<1>12. CASE \E s \in R : SeedMatures(s) \/ TicketExpires(s) \/ StartEpochPasses(s)
  BY <1>1, <1>12, ClockDoes
<1> QED
  BY <1>1, <1>2, <1>3, <1>4, <1>5, <1>6, <1>7, <1>8, <1>9, <1>10, <1>11, <1>12, NextCases

LEMMA SealInvNext == SealInv /\ [Next]_vars => SealInv'
<1> SUFFICES ASSUME SealInv, [Next]_vars PROVE SealInv'
  OBVIOUS
<1>1. PICK R : Base(R) /\ (Solo => Stage(R)) /\ (~faults.torn => Messages(R))
  BY DEF SealInv
<1>2. CASE Next
  <2>1. Base(R)' /\ Frame
    BY <1>1, <1>2, BaseNext, FrameNext
  <2>2. Solo' => Stage(R)'
    BY <1>1, <1>2, <2>1, FrameResets, StageNext
  <2>3. ~faults'.torn => Messages(R)'
    BY <1>1, <1>2, <2>1, MessagesNext DEF Frame
  <2> QED
    BY <2>1, <2>2, <2>3 DEF SealInv
<1>3. CASE UNCHANGED vars
  <2>1. row' = row /\ task' = task /\ poller' = poller /\ msg' = msg /\ chain' = chain /\ clock' = clock /\ faults' = faults
    BY <1>3 DEF vars
  <2>2. OthersStay(NoTask) /\ NoTask \notin Tasks' /\ Msgs \subseteq Msgs' /\ Frame /\ TodoShrinks
    BY <1>1, <2>1, TaskStays DEF Base, Msgs, Frame, Polling, TodoShrinks
  <2>3. Base(R)'
    BY <1>1, <2>1, <2>2, SameTypes, SameTodos, RowsStay, BaseStep DEF Base, TypeIn
  <2>4. Solo' => Stage(R)'
    BY <1>1, <2>1, <2>2, FrameResets, NoWorkStage
  <2>5. ~faults'.torn => Messages(R)'
    BY <1>1, <2>1, <2>2, RowsStay, NoTaskMessages
  <2> QED
    BY <2>3, <2>4, <2>5 DEF SealInv
<1> QED
  BY <1>2, <1>3

LEMMA SealInvariant == Spec => []SealInv
  BY InitSealInv, SealInvNext, PTL DEF Spec

\* Every table keeps its type, and the columns task_id_x and cid name tasks and
\* messages of the pipeline: for every set of sectors, pollers and faults.
THEOREM PipelineTypesHold == Spec => []TypeOK
<1>1. SealInv => TypeOK
  BY TypeWhole DEF SealInv, Base
<1> QED
  BY <1>1, SealInvariant, PTL

\* pollStartX and the tasks keep the stages of a sector in order, whatever polls
\* overlap, tasks fail or die and messages are refused.  A pipeline whose trees
\* may be thrown away (resetSectorSealingState) is covered when one machine
\* polls: a second poller's snapshot may be older than the reset.
THEOREM StagesStayInOrder == Spec => [](Solo => StageOrder)
<1>1. SealInv => (Solo => StageOrder)
  <2> SUFFICES ASSUME SealInv, Solo PROVE StageOrder
    OBVIOUS
  <2>1. PICK R : Base(R) /\ Stage(R)
    BY DEF SealInv
  <2>2. Rows = R
    BY <2>1, TypeWhole DEF Base
  <2> QED
    BY <2>1, <2>2 DEF StageOrder, Stage, StageRow, Prefix, After
<1> QED
  BY <1>1, SealInvariant, PTL

\* Two tasks of one stage never work on one sector: the UPDATE ... WHERE
\* task_id_x IS NULL of the pollers gives a sector to one of them, and no other
\* step takes it away while the task works.
THEOREM WorkersAreAlone == Spec => [](Solo => OneWorkerPerStage)
<1>1. SealInv => (Solo => OneWorkerPerStage)
  <2> SUFFICES ASSUME SealInv, Solo, NEW i \in Tasks, NEW j \in Tasks, i # j, StageOf(i) = StageOf(j),
                      {task[i].at, task[j].at} \subseteq {"work", "send", "update"}
               PROVE  task[i].sectors \cap task[j].sectors = {}
    BY DEF OneWorkerPerStage
  <2>1. PICK R : Base(R) /\ Stage(R)
    BY DEF SealInv
  <2>2. \A k \in {i, j} : \A s \in task[k].sectors : TaskAt(s, StageOf(k)) = k
    BY <2>1 DEF Base, TaskOK, Stage, StageTask
  <2> QED
    BY <2>2
<1> QED
  BY <1>1, SealInvariant, PTL

\* No message is sent for a sector that has one in flight or that the chain has
\* moved past, with any number of pollers and any faults but a task that dies
\* between Sender.Send and message_waits.
THEOREM NoMessageIsFutile == Spec => []NoFutileMessage
<1>1. SealInv => NoFutileMessage
  <2> SUFFICES ASSUME SealInv, ~faults.torn PROVE NoFutileMessage
    BY DEF NoFutileMessage
  <2>1. PICK R : Base(R) /\ Messages(R)
    BY DEF SealInv
  <2> QED
    BY <2>1, FutileFree DEF NoFutileMessage, From
<1> QED
  BY <1>1, SealInvariant, PTL
=============================================================================

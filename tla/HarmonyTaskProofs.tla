-------------------------- MODULE HarmonyTaskProofs --------------------------
(***************************************************************************)
(* Theorems about HarmonyTask, for any number of nodes, tasks, types and   *)
(* restarts.  Types, the ledger and the capacity of a machine hold as they *)
(* stand.  The single-writer guarantee holds under the two conditions the  *)
(* model checker shows to be necessary: a live node is never taken for     *)
(* dead, and a transaction that was applied is not reported as failed.     *)
(***************************************************************************)
EXTENDS HarmonyTask, FiniteSetTheorems, WellFoundedInduction, TLAPS

-----------------------------------------------------------------------------
(* Typing.                                                                 *)

LEMMA IdleType == Idle \in PollerState
  BY DEF Idle, PollerAt, NoneActive, PollerState

\* The poller's record after a handler was declined is a poller state.
LEMMA AfterHandlerType ==
    ASSUME NEW p \in PollerState
    PROVE  AfterHandler(p) \in PollerState
<1>1. p.i + 1 \in Nat /\ p.loop \in {"poller", "bored"} /\ p.schedulable \in BOOLEAN
  BY DEF PollerState
<1> QED
  BY <1>1, IdleType DEF AfterHandler, PollerAt, NoneActive, PollerState

\* So is the record with new candidates.
LEMMA CandidatesType ==
    ASSUME NEW p \in PollerState, NEW cand \in SUBSET Tasks, NEW seen \in [Types -> Int]
    PROVE  /\ [p EXCEPT !.pc = "claim", !.cand = cand, !.seen = seen] \in PollerState
           /\ [p EXCEPT !.pc = "claimed", !.cand = cand] \in PollerState
           /\ [p EXCEPT !.cand = cand] \in PollerState
  BY DEF PollerState

LEMMA ProposeType ==
    ASSUME TypeOK, NEW h \in Hosts, NEW cand \in SUBSET Tasks, Propose(h, cand)
    PROVE  poller' \in [Hosts -> PollerState]
<1>1. poller[h] \in PollerState /\ active[h] \in [Types -> Int]
  BY DEF TypeOK
<1>2. [poller[h] EXCEPT !.pc = "claim", !.cand = cand, !.seen = active[h]] \in PollerState
  BY <1>1, CandidatesType
<1> QED
  BY <1>2 DEF Propose, TypeOK

LEMMA RecoveredType ==
    ASSUME TypeOK, NEW h \in Hosts, NEW t \in Tasks, Recovered(h, t)
    PROVE  poller' \in [Hosts -> PollerState]
<1>1. poller[h] \in PollerState /\ poller[h].cand \ {t} \in SUBSET Tasks
  BY DEF TypeOK, PollerState
<1>2. active[h] \in [Types -> Int]
  BY DEF TypeOK
<1>3. [poller[h] EXCEPT !.cand = poller[h].cand \ {t}] \in PollerState
  BY <1>1, <1>2, CandidatesType
<1> QED
  BY <1>3 DEF Recovered, TypeOK

LEMMA DeclineType ==
    ASSUME TypeOK, NEW h \in Hosts, Decline(h)
    PROVE  poller' \in [Hosts -> PollerState]
<1>1. poller[h] \in PollerState
  BY DEF TypeOK
<1>2. AfterHandler(poller[h]) \in PollerState
  BY <1>1, AfterHandlerType
<1> QED
  BY <1>2 DEF Decline, TypeOK


LEMMA StartWorkType ==
    ASSUME TypeOK, NEW h \in Hosts, NEW ty, NEW ts \in SUBSET Tasks,
           StartWork(h, ty, ts)
    PROVE  /\ active' \in [Hosts -> [Types -> Int]]
           /\ doing' \in [Hosts -> [Tasks -> Nat]]
           /\ recording' \in [Hosts -> [Tasks -> [Outcome -> Nat]]]
<1>1. Cardinality(ts) \in Nat
  BY HarmonyAssumption, FS_Subset, FS_CardinalityType
<1>2. active' \in [Hosts -> [Types -> Int]]
  <2>1. CASE ty \in Types
    BY <1>1, <2>1 DEF StartWork, TypeOK
  <2>2. CASE ty \notin Types
    <3>1. [active[h] EXCEPT ![ty] = @ + Cardinality(ts)] = active[h]
      BY <2>2 DEF TypeOK
    <3> QED
      BY <3>1 DEF StartWork, TypeOK
  <2> QED
    BY <2>1, <2>2
<1>3. doing' \in [Hosts -> [Tasks -> Nat]]
  <2>1. [t \in Tasks |-> IF t \in ts THEN doing[h][t] + 1 ELSE doing[h][t]]
          \in [Tasks -> Nat]
    BY DEF TypeOK
  <2> QED
    BY <2>1 DEF StartWork, TypeOK
<1> QED
  BY <1>2, <1>3 DEF StartWork, TypeOK

\* The state of the cluster stays well typed in every step.
LEMMA TypeStep ==
    ASSUME TypeOK, [Next]_vars
    PROVE  TypeOK'
<1> USE DEF machineVars, taskVars, workVars, nodeVars
<1>1. ASSUME NEW h \in Hosts, Register(h)
      PROVE  TypeOK'
  <2> DEFINE id == IF rowId[h] # NULL THEN rowId[h] ELSE boots + 1
             left == PollerAt("recover", "poller", TRUE, 1, {t \in Tasks : owner[t] = id})
  <2>1. id \in Nat
    BY DEF TypeOK
  <2>2. left \in PollerState
    BY DEF PollerAt, NoneActive, PollerState
  <2>3. poller' \in [Hosts -> PollerState]
    BY <1>1, <2>2 DEF Register, TypeOK
  <2>4. ownerID' \in [Hosts -> Nat] /\ rowId' \in [Hosts -> Nat]
    BY <1>1, <2>1 DEF Register, TypeOK, Without, NULL
  <2>5. /\ fresh' \in [Hosts -> BOOLEAN]
        /\ unschedulable' \in [Hosts -> BOOLEAN]
        /\ restartRequest' \in [Hosts -> BOOLEAN]
    BY <1>1 DEF Register, TypeOK, Without
  <2>6. owner' \in [Tasks -> Nat]
    BY <1>1 DEF Register, TypeOK, DisownedBy, NULL
  <2>7. boots' \in Nat /\ proc' \in [Hosts -> {"down", "recovering", "up", "terminating"}]
    BY <1>1 DEF Register, TypeOK
  <2> QED
    BY <1>1, <2>3, <2>4, <2>5, <2>6, <2>7 DEF Register, TypeOK
<1>2. ASSUME NEW h \in Hosts, StartPoller(h)
      PROVE  TypeOK'
  BY <1>2, IdleType DEF StartPoller, TypeOK
<1>3. ASSUME NEW h \in Hosts, NEW t \in Tasks, RecoverTask(h, t)
      PROVE  TypeOK'
  <2>1. poller' \in [Hosts -> PollerState]
    BY <1>3, RecoveredType DEF RecoverTask
  <2> QED
    BY <1>3, <2>1, StartWorkType DEF RecoverTask, TypeOK
<1>4. ASSUME NEW h \in Hosts, NEW t \in Tasks, RefuseRecovered(h, t)
      PROVE  TypeOK'
  <2>1. poller' \in [Hosts -> PollerState]
    BY <1>4, RecoveredType DEF RefuseRecovered
  <2>2. CASE owner' = owner
    BY <1>4, <2>1, <2>2 DEF RefuseRecovered, TypeOK
  <2>3. CASE owner' = [owner EXCEPT ![t] = NULL]
    <3>1. owner' \in [Tasks -> Nat]
      BY <2>3 DEF TypeOK, NULL
    <3> QED
      BY <1>4, <2>1, <3>1 DEF RefuseRecovered, TypeOK
  <2> QED
    BY <1>4, <2>2, <2>3 DEF RefuseRecovered
<1>5. ASSUME NEW h \in Hosts, CheckNodeFlags(h)
      PROVE  TypeOK'
  <2>1. PollerAt("scan", "poller", ~unschedulable[h], 1, {}) \in PollerState
    BY DEF PollerAt, NoneActive, PollerState, TypeOK
  <2> QED
    BY <1>5, <2>1 DEF CheckNodeFlags, TypeOK
<1>6. ASSUME NEW h \in Hosts, ProcessGone(h), UNCHANGED <<rowId, fresh, taskVars, boots>>,
             unschedulable' \in [Hosts -> BOOLEAN], restartRequest' \in [Hosts -> BOOLEAN]
      PROVE  TypeOK'
  <2>1. NoneActive \in [Types -> Int] /\ NoWork \in [Tasks -> Nat]
    BY DEF NoneActive, NoWork
  <2>2. NoRecord \in [Tasks -> [Outcome -> Nat]]
    BY DEF NoRecord, Outcome
  <2> QED
    BY <1>6, <2>1, <2>2, IdleType DEF ProcessGone, TypeOK, NULL
<1>7. ASSUME NEW h \in Hosts, RestartNode(h)
      PROVE  TypeOK'
  BY <1>6, <1>7 DEF RestartNode, TypeOK
<1>8. ASSUME NEW h \in Hosts, CleanupMachines(h)
      PROVE  TypeOK'
  BY <1>8 DEF CleanupMachines, TypeOK, Without, DisownedBy, NULL
<1>9. ASSUME NEW h \in Hosts, ConsiderWork(h)
      PROVE  TypeOK'
  <2>1. poller' \in [Hosts -> PollerState]
    BY <1>9, ProposeType DEF ConsiderWork
  <2> QED
    BY <1>9, <2>1 DEF ConsiderWork, TypeOK
<1>10. ASSUME NEW h \in Hosts, SkipHandler(h)
       PROVE  TypeOK'
  BY <1>10, DeclineType DEF SkipHandler, TypeOK
<1>11. ASSUME NEW h \in Hosts, IAmBored(h)
       PROVE  TypeOK'
  <2>1. poller' \in [Hosts -> PollerState]
    BY <1>11, ProposeType DEF IAmBored
  <2> QED
    BY <1>11, <2>1 DEF IAmBored, TypeOK
<1>12. ASSUME NEW h \in Hosts, Claim(h)
       PROVE  TypeOK'
  <2>1. PICK acc \in SUBSET {t \in poller[h].cand : row[t] = "present" /\ owner[t] = NULL} :
           /\ owner' = [t \in Tasks |-> IF t \in acc THEN ownerID[h] ELSE owner[t]]
           /\ \/ poller' = [poller EXCEPT ![h] = [@ EXCEPT !.pc = "claimed", !.cand = acc]]
              \/ Decline(h)
    BY <1>12 DEF Claim
  <2>2. acc \in SUBSET Tasks
    BY DEF TypeOK, PollerState
  <2>3. poller' \in [Hosts -> PollerState]
    <3>1. poller[h] \in PollerState /\ active[h] \in [Types -> Int]
      BY DEF TypeOK
    <3>2. [poller[h] EXCEPT !.pc = "claimed", !.cand = acc] \in PollerState
      BY <2>2, <3>1, CandidatesType
    <3> QED
      BY <2>1, <3>2, DeclineType DEF TypeOK
  <2> QED
    BY <1>12, <2>1, <2>3 DEF Claim, TypeOK
<1>13. ASSUME NEW h \in Hosts, ClaimNothing(h)
       PROVE  TypeOK'
  BY <1>13, DeclineType DEF ClaimNothing, TypeOK
<1>14. ASSUME NEW h \in Hosts, StartClaimed(h)
       PROVE  TypeOK'
  <2>1. PICK bad \in SUBSET poller[h].cand :
           /\ StartWork(h, Handler(h), poller[h].cand \ bad)
           /\ \/ owner' = [t \in Tasks |-> IF t \in bad THEN NULL ELSE owner[t]]
              \/ UNCHANGED owner
           /\ Decline(h) \/ poller' = [poller EXCEPT ![h] = Idle]
    BY <1>14 DEF StartClaimed
  <2>2. poller[h].cand \ bad \in SUBSET Tasks
    BY DEF TypeOK, PollerState
  <2>3. /\ active' \in [Hosts -> [Types -> Int]]
        /\ doing' \in [Hosts -> [Tasks -> Nat]]
        /\ recording' \in [Hosts -> [Tasks -> [Outcome -> Nat]]]
    BY <2>1, <2>2, StartWorkType
  <2>4. poller' \in [Hosts -> PollerState]
    BY <2>1, DeclineType, IdleType DEF TypeOK
  <2> QED
    <3>1. owner' \in [Tasks -> Nat]
      <4>1. CASE owner' = [t \in Tasks |-> IF t \in bad THEN NULL ELSE owner[t]]
        BY <4>1 DEF TypeOK, NULL
      <4>2. CASE UNCHANGED owner
        BY <4>2 DEF TypeOK
      <4> QED
        BY <2>1, <4>1, <4>2
    <3> QED
      BY <1>14, <2>3, <2>4, <3>1 DEF StartClaimed, TypeOK
<1>15. ASSUME NEW h \in Hosts, NEW t \in Tasks, AddTask(h, t)
       PROVE  TypeOK'
  BY <1>15 DEF AddTask, TypeOK
<1>16. ASSUME NEW h \in Hosts, NEW t \in Tasks, NEW res \in Outcome, DoReturns(h, t, res)
       PROVE  TypeOK'
  <2>1. active' \in [Hosts -> [Types -> Int]]
    BY <1>16, HarmonyAssumption DEF DoReturns, TypeOK
  <2>2. doing' \in [Hosts -> [Tasks -> Nat]]
    BY <1>16 DEF DoReturns, TypeOK
  <2>3. recording' \in [Hosts -> [Tasks -> [Outcome -> Nat]]]
    BY <1>16 DEF DoReturns, TypeOK
  <2> QED
    BY <1>16, <2>1, <2>2, <2>3 DEF DoReturns, TypeOK
<1>17. ASSUME NEW t \in Tasks, NEW res \in Outcome, Complete(t, res)
       PROVE  /\ row' \in [Tasks -> {"unused", "present", "deleted"}]
              /\ owner' \in [Tasks -> Nat]
              /\ retries' \in [Tasks -> Nat]
              /\ succeeded' \in [Tasks -> Nat]
              /\ failed' \in [Tasks -> Nat]
  <2>1. owner' \in [Tasks -> Nat] /\ row' \in [Tasks -> {"unused", "present", "deleted"}]
    BY <1>17 DEF Complete, TypeOK, NULL
  <2>2. retries' \in [Tasks -> Nat]
    <3>1. CASE retries' = retries
      BY <3>1 DEF TypeOK
    <3>2. CASE retries' = [retries EXCEPT ![t] = @ + 1]
      BY <3>2 DEF TypeOK
    <3> QED
      BY <1>17, <3>1, <3>2 DEF Complete
  <2>3. failed' \in [Tasks -> Nat]
    <3>1. CASE failed' = failed
      BY <3>1 DEF TypeOK
    <3>2. CASE failed' = [failed EXCEPT ![t] = @ + 1]
      BY <3>2 DEF TypeOK
    <3> QED
      BY <1>17, <3>1, <3>2 DEF Complete
  <2>4. succeeded' \in [Tasks -> Nat]
    <3>1. CASE succeeded' = succeeded
      BY <3>1 DEF TypeOK
    <3>2. CASE succeeded' = [succeeded EXCEPT ![t] = @ + 1]
      BY <3>2 DEF TypeOK
    <3> QED
      BY <1>17, <3>1, <3>2 DEF Complete
  <2> QED
    BY <2>1, <2>2, <2>3, <2>4
<1>18. ASSUME NEW h \in Hosts, NEW t \in Tasks, NEW res \in Outcome,
              RecordCompletion(h, t, res)
       PROVE  TypeOK'
  <2>1. recording' \in [Hosts -> [Tasks -> [Outcome -> Nat]]]
    BY <1>18 DEF RecordCompletion, TypeOK
  <2> QED
    BY <1>17, <1>18, <2>1 DEF RecordCompletion, TypeOK
<1>19. ASSUME NEW h \in Hosts, NEW t \in Tasks, NEW res \in Outcome,
              CommitUncertain(h, t, res)
       PROVE  TypeOK'
  BY <1>17, <1>19 DEF CommitUncertain, TypeOK
<1>20. ASSUME NEW h \in Hosts, Heartbeat(h) \/ Age(h)
       PROVE  TypeOK'
  BY <1>20 DEF Heartbeat, Age, TypeOK
<1>21. ASSUME NEW h \in Hosts, Crash(h) \/ ExitProcess(h)
       PROVE  TypeOK'
  BY <1>6, <1>21 DEF Crash, ExitProcess, TypeOK
<1>22. ASSUME NEW h \in Hosts, GracefullyTerminate(h)
       PROVE  TypeOK'
  BY <1>22, IdleType DEF GracefullyTerminate, TypeOK
<1>23. ASSUME NEW h \in Hosts, Cordon(h) \/ Uncordon(h)
       PROVE  TypeOK'
  BY <1>23 DEF Cordon, Uncordon, SetUnschedulable, TypeOK
<1>24. ASSUME NEW h \in Hosts, Restart(h) \/ AbortRestart(h)
       PROVE  TypeOK'
  BY <1>24 DEF Restart, AbortRestart, SetRestartRequest, TypeOK
<1>25. CASE UNCHANGED vars
  BY <1>25 DEF vars, TypeOK
<1> QED
  BY <1>1, <1>2, <1>3, <1>4, <1>5, <1>7, <1>8, <1>9, <1>10, <1>11, <1>12, <1>13, <1>14,
     <1>15, <1>16, <1>18, <1>19, <1>20, <1>21, <1>22, <1>23, <1>24, <1>25
     DEF Next, Startup, Poll, Work, Environment

LEMMA TypeInit == Init => TypeOK
<1>1. NoneActive \in [Types -> Int] /\ NoWork \in [Tasks -> Nat]
  BY DEF NoneActive, NoWork
<1>2. NoRecord \in [Tasks -> [Outcome -> Nat]]
  BY DEF NoRecord, Outcome
<1> QED
  BY <1>1, <1>2, IdleType DEF Init, TypeOK, NULL

\* The state of tables, processes, pollers and goroutines is well typed; in
\* particular no goroutine count becomes negative.
THEOREM TypeCorrect == Spec => []TypeOK
<1> QED
  BY TypeInit, TypeStep, PTL DEF Spec


-----------------------------------------------------------------------------
(* The ledger of a task.  Only three kinds of step touch it, whoever takes *)
(* them and whatever the node believes about the task's owner.             *)

Submitted(t) ==
    /\ row[t] = "unused"
    /\ row' = [row EXCEPT ![t] = "present"]
    /\ UNCHANGED <<retries, succeeded, failed>>

\* A step leaves the ledger alone, submits a task, or completes an attempt.
LEMMA LedgerStep ==
    ASSUME [Next]_vars
    PROVE  \/ UNCHANGED <<row, retries, succeeded, failed>>
           \/ \E t \in Tasks : Submitted(t)
           \/ \E t \in Tasks, res \in Outcome : Complete(t, res)
<1> USE DEF machineVars, taskVars, workVars, nodeVars
<1>1. ASSUME NEW h \in Hosts, Startup(h)
      PROVE  UNCHANGED <<row, retries, succeeded, failed>>
  BY <1>1 DEF Startup, Register, StartPoller, RecoverTask, RefuseRecovered
<1>2. ASSUME NEW h \in Hosts, Poll(h)
      PROVE  \/ UNCHANGED <<row, retries, succeeded, failed>>
             \/ \E t \in Tasks : Submitted(t)
  <2>1. CASE IAmBored(h)
    BY <2>1 DEF IAmBored, Submitted
  <2> QED
    BY <1>2, <2>1 DEF Poll, CheckNodeFlags, RestartNode, CleanupMachines, ConsiderWork,
       SkipHandler, Claim, ClaimNothing, StartClaimed
<1>3. ASSUME NEW h \in Hosts, Work(h)
      PROVE  \/ UNCHANGED <<row, retries, succeeded, failed>>
             \/ \E t \in Tasks : Submitted(t)
             \/ \E t \in Tasks, res \in Outcome : Complete(t, res)
  BY <1>3 DEF Work, AddTask, Submitted, DoReturns, RecordCompletion, CommitUncertain
<1>4. ASSUME NEW h \in Hosts, Environment(h)
      PROVE  UNCHANGED <<row, retries, succeeded, failed>>
  BY <1>4 DEF Environment, Heartbeat, Age, Crash, GracefullyTerminate, ExitProcess,
     Cordon, Uncordon, SetUnschedulable, Restart, AbortRestart, SetRestartRequest
<1>5. CASE UNCHANGED vars
  BY <1>5 DEF vars
<1> QED
  BY <1>1, <1>2, <1>3, <1>4, <1>5 DEF Next

\* Attempts are charged to a task that is present, and the failure limit is
\* applied to retries, which counts the failures.
LEMMA HistoryStep ==
    ASSUME TypeOK, HistoryConsistent, [Next]_vars
    PROVE  HistoryConsistent'
<1>1. CASE UNCHANGED <<row, retries, succeeded, failed>>
  BY <1>1 DEF HistoryConsistent
<1>2. ASSUME NEW t \in Tasks, Submitted(t)
      PROVE  HistoryConsistent'
  <2>1. MaxFailures[TypeOf[t]] \in Nat
    BY HarmonyAssumption
  <2> QED
    BY <1>2, <2>1 DEF Submitted, HistoryConsistent, TypeOK
<1>3. ASSUME NEW t \in Tasks, NEW res \in Outcome, Complete(t, res)
      PROVE  HistoryConsistent'
  <2> DEFINE max == MaxFailures[TypeOf[t]]
  <2>1. max \in Nat /\ retries[t] \in Nat /\ failed[t] \in Nat /\ succeeded[t] \in Nat
    BY HarmonyAssumption DEF TypeOK
  <2>2. row[t] = "present" /\ succeeded[t] = 0 /\ retries[t] = failed[t]
        /\ (max > 0 => failed[t] < max)
    BY <1>3 DEF Complete, HistoryConsistent
  <2>3. ASSUME NEW u \in Tasks, u # t
        PROVE  /\ row'[u] = row[u] /\ retries'[u] = retries[u]
               /\ succeeded'[u] = succeeded[u] /\ failed'[u] = failed[u]
    BY <1>3, <2>3 DEF Complete, TypeOK
  <2>4. CASE res = "done"
    <3>1. row'[t] = "deleted" /\ succeeded'[t] = 1 /\ failed'[t] = failed[t]
      BY <1>3, <2>2, <2>4 DEF Complete, TypeOK
    <3> QED
      BY <2>1, <2>2, <2>3, <3>1 DEF HistoryConsistent
  <2>5. CASE res = "failed" /\ DeleteTask(t)
    <3>1. row'[t] = "deleted" /\ succeeded'[t] = 0 /\ failed'[t] = failed[t] + 1
      BY <1>3, <2>2, <2>5 DEF Complete, TypeOK
    <3>2. max > 0 /\ failed[t] + 1 = max
      BY <2>1, <2>2, <2>5 DEF DeleteTask
    <3> QED
      BY <2>1, <2>3, <3>1, <3>2 DEF HistoryConsistent
  <2>6. CASE res = "failed" /\ ~DeleteTask(t)
    <3>1. /\ row'[t] = "present" /\ succeeded'[t] = 0
          /\ failed'[t] = failed[t] + 1 /\ retries'[t] = retries[t] + 1
      BY <1>3, <2>2, <2>6 DEF Complete, TypeOK
    <3>2. max > 0 => failed[t] + 1 < max
      BY <2>1, <2>2, <2>6 DEF DeleteTask
    <3> QED
      BY <2>1, <2>2, <2>3, <3>1, <3>2 DEF HistoryConsistent
  <2> QED
    BY <2>4, <2>5, <2>6 DEF Outcome
<1> QED
  BY <1>1, <1>2, <1>3, LedgerStep

\* recordCompletion keeps retries, the history table and the deletion of the
\* task consistent, although it never tests the owner: also with stalled nodes
\* that come back and with transactions that were applied twice.
THEOREM HistoryAlwaysConsistent == Spec => []HistoryConsistent
<1>1. Init => HistoryConsistent
  BY DEF Init, HistoryConsistent
<1> QED
  BY <1>1, TypeCorrect, HistoryStep, PTL DEF Spec

\* Every step is a step of the ledger or leaves it alone.
LEMMA LedgerRefinement ==
    ASSUME TypeOK, HistoryConsistent, [Next]_vars
    PROVE  [Ledger!Next]_<<LedgerStatus, failed>>
<1>1. CASE UNCHANGED <<row, retries, succeeded, failed>>
  BY <1>1 DEF LedgerStatus
<1>2. ASSUME NEW t \in Tasks, Submitted(t)
      PROVE  Ledger!Submit(t)
  <2>1. LedgerStatus[t] = "unknown"
    BY <1>2 DEF Submitted, LedgerStatus, StatusOf
  <2>2. LedgerStatus' = [LedgerStatus EXCEPT ![t] = "pending"]
    BY <1>2 DEF Submitted, LedgerStatus, StatusOf, TypeOK
  <2> QED
    BY <1>2, <2>1, <2>2 DEF Submitted, Ledger!Submit
<1>3. ASSUME NEW t \in Tasks, NEW res \in Outcome, Complete(t, res)
      PROVE  Ledger!Succeed(t) \/ Ledger!Fail(t)
  <2> DEFINE max == MaxFailures[TypeOf[t]]
  <2>1. max \in Nat /\ retries[t] \in Nat /\ failed[t] \in Nat /\ succeeded[t] \in Nat
    BY HarmonyAssumption DEF TypeOK
  <2>2. row[t] = "present" /\ succeeded[t] = 0 /\ retries[t] = failed[t]
        /\ (max > 0 => failed[t] < max)
    BY <1>3 DEF Complete, HistoryConsistent
  <2>3. LedgerStatus[t] = "pending"
    BY <2>2 DEF LedgerStatus, StatusOf
  <2>4. CASE res = "done"
    <3>1. LedgerStatus' = [LedgerStatus EXCEPT ![t] = "done"]
      <4>1. /\ row' = [row EXCEPT ![t] = "deleted"]
            /\ succeeded' = [succeeded EXCEPT ![t] = @ + 1]
        BY <1>3, <2>4 DEF Complete
      <4>2. row'[t] = "deleted" /\ succeeded'[t] > 0
        BY <2>1, <4>1 DEF TypeOK
      <4>3. StatusOf(row'[t], succeeded'[t]) = "done"
        BY <4>2 DEF StatusOf
      <4>4. \A u \in Tasks : u # t => row'[u] = row[u] /\ succeeded'[u] = succeeded[u]
        BY <4>1 DEF TypeOK
      <4> QED
        BY <4>3, <4>4 DEF LedgerStatus
    <3> QED
      BY <1>3, <2>3, <2>4, <3>1 DEF Complete, Ledger!Succeed
  <2>5. CASE res = "failed" /\ DeleteTask(t)
    <3>1. LedgerStatus' = [LedgerStatus EXCEPT ![t] = "dropped"]
      <4>1. row' = [row EXCEPT ![t] = "deleted"] /\ succeeded' = succeeded
        BY <1>3, <2>5 DEF Complete
      <4>2. row'[t] = "deleted" /\ ~(succeeded'[t] > 0)
        BY <2>2, <4>1 DEF TypeOK
      <4>3. StatusOf(row'[t], succeeded'[t]) = "dropped"
        BY <4>2 DEF StatusOf
      <4>4. \A u \in Tasks : u # t => row'[u] = row[u] /\ succeeded'[u] = succeeded[u]
        BY <4>1 DEF TypeOK
      <4> QED
        BY <4>3, <4>4 DEF LedgerStatus
    <3>2. failed' = [failed EXCEPT ![t] = @ + 1] /\ failed'[t] = failed[t] + 1
      BY <1>3, <2>5 DEF Complete, TypeOK
    <3>3. failed'[t] = FailureLimit[t]
      BY <2>1, <2>2, <2>5, <3>2 DEF DeleteTask, FailureLimit
    <3> QED
      BY <2>3, <3>1, <3>2, <3>3 DEF Ledger!Fail
  <2>6. CASE res = "failed" /\ ~DeleteTask(t)
    <3>1. LedgerStatus' = [LedgerStatus EXCEPT ![t] = "pending"]
      BY <1>3, <2>2, <2>6 DEF Complete, LedgerStatus, StatusOf, TypeOK
    <3>2. failed' = [failed EXCEPT ![t] = @ + 1] /\ failed'[t] = failed[t] + 1
      BY <1>3, <2>6 DEF Complete, TypeOK
    <3>3. failed'[t] # FailureLimit[t]
      BY <2>1, <2>2, <2>6, <3>2 DEF DeleteTask, FailureLimit
    <3> QED
      BY <2>3, <3>1, <3>2, <3>3 DEF Ledger!Fail
  <2> QED
    BY <2>4, <2>5, <2>6 DEF Outcome
<1> QED
  BY <1>1, <1>2, <1>3, LedgerStep DEF Ledger!Next

\* The engine implements TaskLedger: a task is settled once, by its first
\* success or by its MaxFailures-th failure, whatever the nodes do.
THEOREM EngineImplementsLedger == Spec => ImplementsLedger
<1>1. Init => Ledger!Init
  BY DEF Init, Ledger!Init, LedgerStatus, StatusOf
<1> QED
  BY <1>1, LedgerRefinement, TypeCorrect, HistoryAlwaysConsistent, PTL
     DEF Spec, ImplementsLedger, Ledger!Spec

-----------------------------------------------------------------------------
(* Sums over finite sets, as Active, Used and Running take them.  What is  *)
(* shown by induction elsewhere is shown here with a least set, or a least *)
(* number, for which it would fail.                                        *)

\* A least set among some finite ones: what replaces an induction over sets.
LEMMA LeastSubset ==
    ASSUME NEW S, IsFiniteSet(S), NEW C, C \subseteq SUBSET S, C # {}
    PROVE  \E T \in C : \A U \in C : U \subseteq T => U = T
<1>1. IsWellFoundedOn(StrictSubsetOrdering(S), SUBSET S)
  BY FS_StrictSubsetOrderingWellFounded, FS_FiniteSubsetsOfFinite, Zenon
<1>2. PICK T \in C : \A U \in C : ~(<<U, T>> \in StrictSubsetOrdering(S))
  BY <1>1, WFMin, Zenon
<1> QED
  BY <1>2 DEF StrictSubsetOrdering

\* One member of a set, the one a sum takes first.
FirstOf(s) == CHOOSE x \in s : TRUE

\* The equation that defines a sum, over the subsets of S.
Sums(g, f, S) == g = [s \in SUBSET S |-> IF s = {} THEN 0 ELSE f[FirstOf(s)] + g[s \ {FirstOf(s)}]]

\* It is a member.
LEMMA FirstIn == ASSUME NEW s, s # {} PROVE FirstOf(s) \in s
  BY DEF FirstOf

\* SumFunctionOnSet is the function with this equation, at S.
LEMMA SumIs ==
    ASSUME NEW f, NEW S
    PROVE  SumFunctionOnSet(f, S) = (CHOOSE g : Sums(g, f, S))[S]
  BY DEF SumFunctionOnSet, FoldFunctionOnSet, MapThenFoldSet, Sums, FirstOf

\* A set of naturals has a least one.
LEMMA LeastNat ==
    ASSUME NEW T, T \subseteq Nat, T # {}
    PROVE  \E x \in T : \A y \in T : x <= y
<1>1. PICK x \in T : \A y \in T : ~(<<y, x>> \in OpToRel(<, Nat))
  BY WFMin, NatLessThanWellFounded, Zenon
<1>2. \A y \in T : ~(y < x)
  BY <1>1 DEF OpToRel
<1> QED
  BY <1>2

\* A set without its first member.
LEMMA RestOf ==
    ASSUME NEW S, IsFiniteSet(S), NEW s \in SUBSET S
    PROVE  /\ IsFiniteSet(s) /\ Cardinality(s) \in Nat /\ Cardinality(s) <= Cardinality(S)
           /\ Cardinality(s) = 0 => s = {}
           /\ s # {} => /\ s \ {FirstOf(s)} \in SUBSET S
                        /\ Cardinality(s \ {FirstOf(s)}) = Cardinality(s) - 1
<1>1. IsFiniteSet(s) /\ Cardinality(s) <= Cardinality(S)
  BY FS_Subset, Zenon
<1>2. Cardinality(s) \in Nat /\ (Cardinality(s) = 0 => s = {})
  BY <1>1, FS_CardinalityType, FS_EmptySet, Zenon
<1>3. ASSUME s # {}
      PROVE  Cardinality(s \ {FirstOf(s)}) = Cardinality(s) - 1
  BY <1>1, <1>3, FirstIn, FS_RemoveElement
<1> QED
  BY <1>1, <1>2, <1>3

\* A function on the subsets of S with this equation exists: on the subsets of
\* at most n members there is one if there is one for n - 1.
LEMMA SumExists ==
    ASSUME NEW f, NEW S, IsFiniteSet(S)
    PROVE  \E g : Sums(g, f, S)
<1> DEFINE Small(n) == {s \in SUBSET S : Cardinality(s) <= n}
           Eq(g, n) == g = [s \in Small(n) |-> IF s = {} THEN 0 ELSE f[FirstOf(s)] + g[s \ {FirstOf(s)}]]
           Bad == {n \in Nat : ~\E g : Eq(g, n)}
<1>0. /\ \A s \in Small(0) : s = {}
      /\ \A n \in Nat : \A s \in Small(n) : s # {} => s \ {FirstOf(s)} \in Small(n - 1)
      /\ \A n \in Nat : \A s \in Small(n - 1) : s \in Small(n)
  <2>1. \A s \in SUBSET S : /\ Cardinality(s) \in Nat /\ (Cardinality(s) = 0 => s = {})
                            /\ s # {} => /\ s \ {FirstOf(s)} \in SUBSET S
                                         /\ Cardinality(s \ {FirstOf(s)}) = Cardinality(s) - 1
    BY RestOf
  <2>2. ASSUME NEW s \in Small(0)
        PROVE  s = {}
    <3>1. Cardinality(s) <= 0 /\ Cardinality(s) \in Nat /\ (Cardinality(s) = 0 => s = {})
      BY <2>1, Zenon
    <3> QED
      BY <3>1
  <2>3. \A n \in Nat : \A s \in Small(n) : s # {} => s \ {FirstOf(s)} \in Small(n - 1)
    <3> SUFFICES ASSUME NEW n \in Nat, NEW s \in Small(n), s # {}
                 PROVE  s \ {FirstOf(s)} \in Small(n - 1)
      OBVIOUS
    <3> QED
      BY <2>1
  <2>4. ASSUME NEW n \in Nat, NEW s \in Small(n - 1)
        PROVE  s \in Small(n)
    <3>1. s \in SUBSET S /\ Cardinality(s) <= n - 1 /\ Cardinality(s) \in Nat
      BY <2>1, Zenon
    <3>2. Cardinality(s) <= n
      BY <3>1
    <3> QED
      BY <3>1, <3>2, Zenon
  <2> QED
    BY <2>2, <2>3, <2>4
<1> HIDE DEF Small
<1>1. \E g : Eq(g, 0)
  <2>1. [s \in Small(0) |-> 0] = [s \in Small(0) |-> IF s = {} THEN 0 ELSE f[FirstOf(s)] + [u \in Small(0) |-> 0][s \ {FirstOf(s)}]]
    BY <1>0
  <2> QED
    BY <2>1
<1>2. ASSUME NEW n \in Nat, NEW g, Eq(g, n - 1)
      PROVE  \E h : Eq(h, n)
  <2> DEFINE h == [s \in Small(n) |-> IF s = {} THEN 0 ELSE f[FirstOf(s)] + g[s \ {FirstOf(s)}]]
  <2>1. \A s \in Small(n - 1) : h[s] = g[s]
    BY <1>0, <1>2
  <2>2. Eq(h, n)
    BY <1>0, <2>1
  <2> QED
    BY <2>2
<1> HIDE DEF Eq
<1>3. Bad = {}
  <2> SUFFICES ASSUME NEW n \in Bad, \A m \in Bad : n <= m
               PROVE  FALSE
    BY LeastNat
  <2>1. n \in Nat /\ n # 0
    BY <1>1
  <2>2. n - 1 \in Nat /\ n - 1 \notin Bad
    BY <2>1
  <2> QED
    BY <1>2, <2>1, <2>2
<1>4. Cardinality(S) \in Nat
  BY FS_CardinalityType
<1>5. PICK g : Eq(g, Cardinality(S))
  BY <1>3, <1>4
<1>6. Small(Cardinality(S)) = SUBSET S
  BY RestOf DEF Small
<1> QED
  BY <1>5, <1>6 DEF Sums, Eq

\* ... and there is only one.
LEMMA SumUnique ==
    ASSUME NEW f, NEW S, IsFiniteSet(S), NEW T \in SUBSET S, NEW g, Sums(g, f, S), NEW h, Sums(h, f, T)
    PROVE  g[T] = h[T]
<1> DEFINE Bad == {s \in SUBSET T : g[s] # h[s]}
<1>1. IsFiniteSet(T)
  BY FS_Subset, Zenon
<1>2. ASSUME NEW s \in Bad, \A u \in Bad : u \subseteq s => u = s
      PROVE  FALSE
  <2>1. s # {}
    BY DEF Sums
  <2>2. FirstOf(s) \in s
    BY <2>1, FirstIn
  <2>3. g[s \ {FirstOf(s)}] = h[s \ {FirstOf(s)}]
    BY <1>2, <2>2
  <2>4. g[s] = f[FirstOf(s)] + g[s \ {FirstOf(s)}]
    BY <2>1 DEF Sums
  <2>5. h[s] = f[FirstOf(s)] + h[s \ {FirstOf(s)}]
    BY <2>1 DEF Sums
  <2> QED
    BY <2>3, <2>4, <2>5
<1>3. Bad = {}
  <2>1. Bad \subseteq SUBSET T
    OBVIOUS
  <2> HIDE DEF Bad
  <2> QED
    BY <1>1, <1>2, <2>1, LeastSubset
<1> QED
  BY <1>3

\* The recursive equation of SumFunctionOnSet.
LEMMA SumEquation ==
    ASSUME NEW f, NEW S, IsFiniteSet(S)
    PROVE  /\ S = {} => SumFunctionOnSet(f, S) = 0
           /\ S # {} => SumFunctionOnSet(f, S) = f[FirstOf(S)] + SumFunctionOnSet(f, S \ {FirstOf(S)})
<1>1. PICK g : g = CHOOSE x : Sums(x, f, S)
  OBVIOUS
<1>2. Sums(g, f, S) /\ SumFunctionOnSet(f, S) = g[S]
  BY <1>1, SumExists, SumIs, Zenon
<1>3. S = {} => g[S] = 0
  BY <1>2 DEF Sums
<1>4. ASSUME S # {}
      PROVE  g[S] = f[FirstOf(S)] + SumFunctionOnSet(f, S \ {FirstOf(S)})
  <2>1. g[S] = f[FirstOf(S)] + g[S \ {FirstOf(S)}]
    BY <1>2, <1>4 DEF Sums
  <2>2. PICK T \in SUBSET S : T = S \ {FirstOf(S)}
    OBVIOUS
  <2>3. IsFiniteSet(T)
    BY FS_Subset, Zenon
  <2>4. PICK h : h = CHOOSE x : Sums(x, f, T)
    OBVIOUS
  <2>5. Sums(h, f, T) /\ SumFunctionOnSet(f, T) = h[T]
    BY <2>3, <2>4, SumExists, SumIs, Zenon
  <2>6. g[T] = h[T]
    BY <1>2, <2>5, SumUnique
  <2> QED
    BY <2>1, <2>2, <2>5, <2>6
<1> QED
  BY <1>2, <1>3, <1>4

\* A sum of integers is one, ...
LEMMA SumType ==
    ASSUME NEW S, IsFiniteSet(S), NEW f, \A x \in S : f[x] \in Int
    PROVE  SumFunctionOnSet(f, S) \in Int
<1> DEFINE Sum(T) == SumFunctionOnSet(f, T)
           Bad == {T \in SUBSET S : Sum(T) \notin Int}
<1>1. \A T \in SUBSET S : IsFiniteSet(T)
  BY FS_Subset, Zenon
<1>2. \A T \in SUBSET S : (T = {} => Sum(T) = 0) /\ (T # {} => Sum(T) = f[FirstOf(T)] + Sum(T \ {FirstOf(T)}))
  BY <1>1, SumEquation
<1> HIDE DEF Sum
<1>3. ASSUME NEW T \in Bad, \A U \in Bad : U \subseteq T => U = T
      PROVE  FALSE
  <2>1. T # {} /\ FirstOf(T) \in T
    BY <1>2, FirstIn
  <2>2. Sum(T \ {FirstOf(T)}) \in Int
    BY <1>3, <2>1
  <2> QED
    BY <1>2, <2>1, <2>2
<1>4. Bad = {}
  <2>1. Bad \subseteq SUBSET S
    OBVIOUS
  <2> HIDE DEF Bad
  <2> QED
    BY <1>3, <2>1, LeastSubset
<1> QED
  BY <1>4 DEF Sum

\* ... and any member can be taken out first.
LEMMA SumOut ==
    ASSUME NEW S, IsFiniteSet(S), NEW f, \A x \in S : f[x] \in Int, NEW x \in S
    PROVE  SumFunctionOnSet(f, S) = f[x] + SumFunctionOnSet(f, S \ {x})
<1> DEFINE Sum(T) == SumFunctionOnSet(f, T)
           Bad == {T \in SUBSET S : \E y \in T : Sum(T) # f[y] + Sum(T \ {y})}
<1>1. \A T \in SUBSET S : IsFiniteSet(T) /\ \A y \in T : f[y] \in Int
  BY FS_Subset, Zenon
<1>2. \A T \in SUBSET S : T # {} => Sum(T) = f[FirstOf(T)] + Sum(T \ {FirstOf(T)})
  BY <1>1, SumEquation
<1>3. \A T \in SUBSET S : Sum(T) \in Int
  BY <1>1, SumType
<1> HIDE DEF Sum
<1>4. ASSUME NEW T \in Bad, \A U \in Bad : U \subseteq T => U = T
      PROVE  FALSE
  <2>1. PICK y \in T : Sum(T) # f[y] + Sum(T \ {y})
    OBVIOUS
  <2>2. PICK z : z = FirstOf(T)
    OBVIOUS
  <2>3. z \in T /\ Sum(T) = f[z] + Sum(T \ {z}) /\ z # y
    BY <1>2, <2>1, <2>2, FirstIn
  <2>4. \A U \in SUBSET T : U # T => U \notin Bad
    BY <1>4
  <2>5. Sum(T \ {z}) = f[y] + Sum((T \ {z}) \ {y})
    BY <2>3, <2>4
  <2>6. Sum(T \ {y}) = f[z] + Sum((T \ {y}) \ {z})
    BY <2>3, <2>4
  <2>7. Sum((T \ {y}) \ {z}) = Sum((T \ {z}) \ {y})
    <3>1. (T \ {z}) \ {y} = (T \ {y}) \ {z}
      OBVIOUS
    <3> QED
      BY <3>1
  <2>8. f[y] \in Int /\ f[z] \in Int /\ Sum((T \ {z}) \ {y}) \in Int
    BY <1>1, <1>3, <2>3
  <2>9. PICK a \in Int, b \in Int, c \in Int : a = f[y] /\ b = f[z] /\ c = Sum((T \ {z}) \ {y})
    BY <2>8
  <2>10. Sum(T) = b + (a + c) /\ f[y] + Sum(T \ {y}) = a + (b + c)
    BY <2>3, <2>5, <2>6, <2>7, <2>9
  <2> QED
    BY <2>1, <2>9, <2>10
<1>5. Bad = {}
  <2>1. Bad \subseteq SUBSET S
    OBVIOUS
  <2> HIDE DEF Bad
  <2> QED
    BY <1>4, <2>1, LeastSubset
<1> QED
  BY <1>5 DEF Sum

\* Sums compare as their members do.
LEMMA SumMonotone ==
    ASSUME NEW S, IsFiniteSet(S), NEW f, NEW g, \A x \in S : f[x] \in Int /\ g[x] \in Int /\ f[x] <= g[x]
    PROVE  SumFunctionOnSet(f, S) <= SumFunctionOnSet(g, S)
<1> DEFINE F(T) == SumFunctionOnSet(f, T)
           G(T) == SumFunctionOnSet(g, T)
           Bad == {T \in SUBSET S : ~(F(T) <= G(T))}
<1>1. \A T \in SUBSET S : IsFiniteSet(T) /\ \A y \in T : f[y] \in Int /\ g[y] \in Int
  BY FS_Subset, Zenon
<1>2. \A T \in SUBSET S : /\ T = {} => F(T) = 0 /\ G(T) = 0
                          /\ T # {} => F(T) = f[FirstOf(T)] + F(T \ {FirstOf(T)}) /\ G(T) = g[FirstOf(T)] + G(T \ {FirstOf(T)})
  BY <1>1, SumEquation
<1>3. \A T \in SUBSET S : F(T) \in Int /\ G(T) \in Int
  BY <1>1, SumType
<1> HIDE DEF F, G
<1>4. ASSUME NEW T \in Bad, \A U \in Bad : U \subseteq T => U = T
      PROVE  FALSE
  <2>1. T # {} /\ FirstOf(T) \in T
    BY <1>2, FirstIn
  <2>2. F(T \ {FirstOf(T)}) <= G(T \ {FirstOf(T)})
    BY <1>4, <2>1
  <2>3. PICK y \in S, U \in SUBSET S : y = FirstOf(T) /\ U = T \ {FirstOf(T)}
    BY <2>1
  <2>4. F(T) = f[y] + F(U) /\ G(T) = g[y] + G(U) /\ F(U) <= G(U)
    BY <1>2, <2>1, <2>2, <2>3
  <2>5. F(T) <= G(T)
    BY <1>3, <2>3, <2>4
  <2> QED
    BY <2>5
<1>5. Bad = {}
  <2>1. Bad \subseteq SUBSET S
    OBVIOUS
  <2> HIDE DEF Bad
  <2> QED
    BY <1>4, <2>1, LeastSubset
<1> QED
  BY <1>5 DEF F, G

\* In particular, only the values in the set matter, ...
LEMMA SumSame ==
    ASSUME NEW S, IsFiniteSet(S), NEW f, NEW g, \A x \in S : f[x] \in Int /\ g[x] = f[x]
    PROVE  SumFunctionOnSet(f, S) = SumFunctionOnSet(g, S)
<1>1. SumFunctionOnSet(f, S) <= SumFunctionOnSet(g, S) /\ SumFunctionOnSet(g, S) <= SumFunctionOnSet(f, S)
  BY SumMonotone
<1>2. SumFunctionOnSet(f, S) \in Int /\ SumFunctionOnSet(g, S) \in Int
  BY SumType
<1> QED
  BY <1>1, <1>2

\* ... and when one value changes, the sum changes by as much.
LEMMA SumChange ==
    ASSUME NEW S, IsFiniteSet(S), NEW f, NEW g, NEW x \in S, NEW k \in Int,
           \A y \in S : f[y] \in Int, g[x] = f[x] + k, \A y \in S \ {x} : g[y] = f[y]
    PROVE  SumFunctionOnSet(g, S) = SumFunctionOnSet(f, S) + k
<1>1. SumFunctionOnSet(f, S) = f[x] + SumFunctionOnSet(f, S \ {x})
  BY SumOut
<1>2. \A y \in S : g[y] \in Int
  OBVIOUS
<1>3. SumFunctionOnSet(g, S) = g[x] + SumFunctionOnSet(g, S \ {x})
  BY <1>2, SumOut
<1>4. IsFiniteSet(S \ {x})
  BY FS_RemoveElement
<1>5. SumFunctionOnSet(f, S \ {x}) = SumFunctionOnSet(g, S \ {x}) /\ SumFunctionOnSet(f, S \ {x}) \in Int
  BY <1>4, SumSame, SumType
<1> QED
  BY <1>1, <1>3, <1>5

\* A change by one.
LEMMA SumOneMore ==
    ASSUME NEW S, IsFiniteSet(S), NEW f, NEW g, NEW x \in S,
           \A y \in S : f[y] \in Int, g[x] = f[x] + 1, \A y \in S \ {x} : g[y] = f[y]
    PROVE  SumFunctionOnSet(g, S) = SumFunctionOnSet(f, S) + 1
<1>1. PICK k \in Int : k = 1
  OBVIOUS
<1>2. g[x] = f[x] + k
  BY <1>1
<1>3. SumFunctionOnSet(g, S) = SumFunctionOnSet(f, S) + k
  BY <1>2, SumChange
<1> QED
  BY <1>1, <1>3

\* When some members of the set grow by one each, the sum grows by their number.
LEMMA SumGrows ==
    ASSUME NEW S, IsFiniteSet(S), NEW f, \A x \in S : f[x] \in Int, NEW A \in SUBSET S,
           NEW g, \A x \in S : g[x] = IF x \in A THEN f[x] + 1 ELSE f[x]
    PROVE  SumFunctionOnSet(g, S) = SumFunctionOnSet(f, S) + Cardinality(A)
<1> DEFINE G(B) == [x \in S |-> IF x \in B THEN f[x] + 1 ELSE f[x]]
           Grown(B) == SumFunctionOnSet(G(B), S)
           Bad == {B \in SUBSET A : Grown(B) # SumFunctionOnSet(f, S) + Cardinality(B)}
<1>1. SumFunctionOnSet(f, S) \in Int
  BY SumType
<1>2. Grown({}) = SumFunctionOnSet(f, S)
  BY SumSame
<1>3. \A B \in SUBSET A : \A x \in B : Grown(B) = Grown(B \ {x}) + 1
  <2> SUFFICES ASSUME NEW B \in SUBSET A, NEW x \in B
               PROVE  SumFunctionOnSet(G(B), S) = SumFunctionOnSet(G(B \ {x}), S) + 1
    OBVIOUS
  <2>1. \A y \in S : G(B \ {x})[y] \in Int
    OBVIOUS
  <2>2. x \in S /\ G(B)[x] = G(B \ {x})[x] + 1
    OBVIOUS
  <2>3. \A y \in S \ {x} : G(B)[y] = G(B \ {x})[y]
    OBVIOUS
  <2>4. PICK a, b : a = G(B \ {x}) /\ b = G(B)
    OBVIOUS
  <2> HIDE DEF G
  <2>5. /\ \A y \in S : a[y] \in Int
        /\ b[x] = a[x] + 1
        /\ \A y \in S \ {x} : b[y] = a[y]
    BY <2>1, <2>2, <2>3, <2>4
  <2>6. SumFunctionOnSet(b, S) = SumFunctionOnSet(a, S) + 1
    BY <2>2, <2>5, SumOneMore, Zenon
  <2> QED
    BY <2>4, <2>6
<1>4. \A B \in SUBSET A : IsFiniteSet(B)
  BY FS_Subset, Zenon
<1>5. Cardinality({}) = 0
  BY FS_EmptySet
<1> HIDE DEF Grown
<1>6. ASSUME NEW B \in Bad, \A C \in Bad : C \subseteq B => C = B
      PROVE  FALSE
  <2>1. B # {}
    BY <1>1, <1>2, <1>5
  <2>2. PICK x \in B : TRUE
    BY <2>1
  <2>3. PICK C \in SUBSET A : C = B \ {x}
    OBVIOUS
  <2>4. Grown(C) = SumFunctionOnSet(f, S) + Cardinality(C)
    BY <1>6, <2>3
  <2>5. Cardinality(C) \in Nat /\ Cardinality(B) \in Nat /\ Cardinality(C) = Cardinality(B) - 1
    BY <1>4, <2>3, FS_RemoveElement, FS_CardinalityType
  <2>6. Grown(B) = Grown(C) + 1
    BY <1>3, <2>3
  <2>7. Grown(B) = SumFunctionOnSet(f, S) + Cardinality(B)
    BY <1>1, <2>4, <2>5, <2>6
  <2> QED
    BY <2>7
<1>7. Bad = {}
  <2>1. Bad \subseteq SUBSET A /\ IsFiniteSet(A)
    BY <1>4
  <2> HIDE DEF Bad
  <2> QED
    BY <1>6, <2>1, LeastSubset
<1>8. Grown(A) = SumFunctionOnSet(g, S)
  <2>1. \A x \in S : G(A)[x] \in Int /\ g[x] = G(A)[x]
    OBVIOUS
  <2> HIDE DEF G
  <2> QED
    BY <2>1, SumSame DEF Grown
<1> QED
  BY <1>7, <1>8

\* A sum of zeros is zero, ...
LEMMA SumZero ==
    ASSUME NEW S, IsFiniteSet(S), NEW f, \A x \in S : f[x] = 0
    PROVE  SumFunctionOnSet(f, S) = 0
<1> DEFINE Sum(T) == SumFunctionOnSet(f, T)
           Bad == {T \in SUBSET S : Sum(T) # 0}
<1>1. \A T \in SUBSET S : IsFiniteSet(T)
  BY FS_Subset, Zenon
<1>2. \A T \in SUBSET S : (T = {} => Sum(T) = 0) /\ (T # {} => Sum(T) = f[FirstOf(T)] + Sum(T \ {FirstOf(T)}))
  BY <1>1, SumEquation
<1> HIDE DEF Sum
<1>3. ASSUME NEW T \in Bad, \A U \in Bad : U \subseteq T => U = T
      PROVE  FALSE
  <2>1. T # {} /\ FirstOf(T) \in T
    BY <1>2, FirstIn
  <2>2. Sum(T \ {FirstOf(T)}) = 0
    BY <1>3, <2>1
  <2> QED
    BY <1>2, <2>1, <2>2
<1>4. Bad = {}
  <2>1. Bad \subseteq SUBSET S
    OBVIOUS
  <2> HIDE DEF Bad
  <2> QED
    BY <1>3, <2>1, LeastSubset
<1> QED
  BY <1>4 DEF Sum

\* ... so a sum of naturals is a natural.
LEMMA SumNat ==
    ASSUME NEW S, IsFiniteSet(S), NEW f, \A x \in S : f[x] \in Nat
    PROVE  SumFunctionOnSet(f, S) \in Nat
<1>1. PICK z : z = [x \in S |-> 0]
  OBVIOUS
<1>2. SumFunctionOnSet(z, S) = 0
  BY <1>1, SumZero
<1>3. \A x \in S : z[x] \in Int /\ f[x] \in Int /\ z[x] <= f[x]
  BY <1>1
<1>4. SumFunctionOnSet(z, S) <= SumFunctionOnSet(f, S)
  BY <1>3, SumMonotone
<1>5. SumFunctionOnSet(f, S) \in Int
  BY <1>3, SumType
<1> QED
  BY <1>2, <1>4, <1>5

-----------------------------------------------------------------------------
(* Capacity.                                                               *)

\* Goroutines of each type.
Counts == [Types -> Nat]

\* The types that share a limiter with ty.
SameLimiter(ty) == {o \in Types : Limiter[o] = Limiter[ty]}

\* Finitely many types, and so finitely many that share a limiter.
LEMMA TypesFinite ==
    /\ IsFiniteSet(Types)
    /\ \A ty : IsFiniteSet(SameLimiter(ty))
<1>1. \A ty : SameLimiter(ty) \in SUBSET Types
  BY DEF SameLimiter
<1> QED
  BY <1>1, CapacityAssumption, FS_Subset DEF CapacityAssumption

\* The configured numbers are naturals.
LEMMA CapacityTypes ==
    /\ \A r \in Resource : Machine[r] \in Nat
    /\ \A ty \in Types : LimitN[Limiter[ty]] \in Nat
    /\ \A ty \in Types, r \in Resource : Cost[ty][r] \in Nat
  BY CapacityAssumption DEF CapacityAssumption

\* The arithmetic of products.
LEMMA Products ==
    /\ \A a, c \in Nat : a * c \in Nat
    /\ \A a, k, c \in Nat : (a + k) * c = a * c + k * c
    /\ \A a, b, c \in Nat : a <= b => a * c <= b * c
  OBVIOUS

\* Max.Add(k) for the type.
Added(more, act, ty, k) == more = [act EXCEPT ![ty] = @ + k]

\* What k more goroutines of a type add.
LEMMA AddedTotals ==
    ASSUME NEW act \in Counts, NEW ty \in Types, NEW k \in Nat, NEW more, Added(more, act, ty, k)
    PROVE  /\ more \in Counts
           /\ \A r \in Resource : /\ Used(act, r) \in Int
                                  /\ Used(more, r) = Used(act, r) + k * Cost[ty][r]
           /\ \A o \in Types : /\ Active(act, o) \in Int
                               /\ Active(more, o) = Active(act, o) + (IF Limiter[o] = Limiter[ty] THEN k ELSE 0)
<1>1. more \in Counts /\ more[ty] = act[ty] + k /\ \A o \in Types \ {ty} : more[o] = act[o]
  BY DEF Counts, Added
<1>2. ASSUME NEW r \in Resource
      PROVE  Used(act, r) \in Int /\ Used(more, r) = Used(act, r) + k * Cost[ty][r]
  <2>1. PICK f : f = [o \in Types |-> act[o] * Cost[o][r]]
    OBVIOUS
  <2>2. PICK g : g = [o \in Types |-> more[o] * Cost[o][r]]
    OBVIOUS
  <2>3. Used(act, r) = SumFunctionOnSet(f, Types) /\ Used(more, r) = SumFunctionOnSet(g, Types)
    BY <2>1, <2>2 DEF Used, SumFunction
  <2>4. \A o \in Types : f[o] \in Int
    <3> SUFFICES ASSUME NEW o \in Types
                 PROVE  f[o] \in Int
      OBVIOUS
    <3>1. act[o] \in Nat /\ Cost[o][r] \in Nat
      BY CapacityTypes DEF Counts
    <3>2. act[o] * Cost[o][r] \in Nat
      BY <3>1, Products
    <3> QED
      BY <2>1, <3>2
  <2>5. g[ty] = f[ty] + k * Cost[ty][r] /\ k * Cost[ty][r] \in Int
    <3>1. act[ty] \in Nat /\ Cost[ty][r] \in Nat
      BY CapacityTypes DEF Counts
    <3>2. (act[ty] + k) * Cost[ty][r] = act[ty] * Cost[ty][r] + k * Cost[ty][r]
      BY <3>1, Products, Zenon
    <3>3. k * Cost[ty][r] \in Int
      BY <3>1, Products
    <3> QED
      BY <1>1, <2>1, <2>2, <3>2, <3>3
  <2>6. \A o \in Types \ {ty} : g[o] = f[o]
    BY <1>1, <2>1, <2>2
  <2>7. SumFunctionOnSet(g, Types) = SumFunctionOnSet(f, Types) + k * Cost[ty][r]
    <3>1. PICK c \in Int : c = k * Cost[ty][r]
      BY <2>5
    <3> QED
      BY <2>4, <2>5, <2>6, <3>1, TypesFinite, SumChange
  <2>8. SumFunctionOnSet(f, Types) \in Int
    BY <2>4, TypesFinite, SumType
  <2> QED
    BY <2>3, <2>7, <2>8
<1>3. ASSUME NEW o \in Types
      PROVE  /\ Active(act, o) \in Int
             /\ Active(more, o) = Active(act, o) + (IF Limiter[o] = Limiter[ty] THEN k ELSE 0)
  <2>1. \A x \in SameLimiter(o) : act[x] \in Int
    BY DEF SameLimiter, Counts
  <2>2. Active(act, o) = SumFunctionOnSet(act, SameLimiter(o)) /\ Active(more, o) = SumFunctionOnSet(more, SameLimiter(o))
    BY DEF Active, SameLimiter
  <2>3. Active(act, o) \in Int
    BY <2>1, <2>2, TypesFinite, SumType
  <2>4. CASE Limiter[o] = Limiter[ty]
    <3>1. ty \in SameLimiter(o) /\ \A x \in SameLimiter(o) \ {ty} : more[x] = act[x]
      BY <1>1, <2>4 DEF SameLimiter
    <3>2. SumFunctionOnSet(more, SameLimiter(o)) = SumFunctionOnSet(act, SameLimiter(o)) + k
      <4>1. PICK S : S = SameLimiter(o)
        OBVIOUS
      <4>2. /\ IsFiniteSet(S) /\ ty \in S /\ k \in Int
            /\ \A x \in S : act[x] \in Int
            /\ \A x \in S \ {ty} : more[x] = act[x]
        BY <2>1, <3>1, <4>1, TypesFinite
      <4>3. SumFunctionOnSet(more, S) = SumFunctionOnSet(act, S) + k
        BY <1>1, <4>2, SumChange
      <4> QED
        BY <4>1, <4>3
    <3> QED
      BY <2>2, <2>3, <2>4, <3>2
  <2>5. CASE Limiter[o] # Limiter[ty]
    <3>1. \A x \in SameLimiter(o) : more[x] = act[x]
      BY <1>1, <2>5 DEF SameLimiter
    <3>2. SumFunctionOnSet(act, SameLimiter(o)) = SumFunctionOnSet(more, SameLimiter(o))
      BY <2>1, <3>1, TypesFinite, SumSame
    <3> QED
      BY <2>2, <2>3, <2>5, <3>2
  <2> QED
    BY <2>3, <2>4, <2>5
<1> QED
  BY <1>1, <1>2, <1>3

\* There is room for k more goroutines of the type.
RoomFor(act, ty, k) ==
    /\ \A r \in Resource : Used(act, r) + k * Cost[ty][r] <= Machine[r]
    /\ LimitN[Limiter[ty]] > 0 => Active(act, ty) + k <= LimitN[Limiter[ty]]

\* What a node uses is an integer.
LEMMA CountTypes ==
    ASSUME NEW act \in Counts
    PROVE  /\ \A r \in Resource : Used(act, r) \in Int
           /\ \A o \in Types : Active(act, o) \in Int
<1>1. ASSUME NEW ty \in Types
      PROVE  /\ \A r \in Resource : Used(act, r) \in Int
             /\ \A o \in Types : Active(act, o) \in Int
  <2>1. PICK more : Added(more, act, ty, 0)
    BY DEF Added
  <2> QED
    BY <2>1, AddedTotals
<1>2. ASSUME Types = {}, NEW r \in Resource
      PROVE  Used(act, r) \in Int
  <2>1. PICK f : f = [o \in Types |-> act[o] * Cost[o][r]]
    OBVIOUS
  <2>2. Used(act, r) = SumFunctionOnSet(f, Types)
    BY <2>1 DEF Used, SumFunction
  <2> QED
    BY <1>2, <2>2, TypesFinite, SumType
<1> QED
  BY <1>1, <1>2

\* Where there is room, adding goroutines keeps the total within the limits.
LEMMA MoreFits ==
    ASSUME NEW act \in Counts, NEW ty \in Types, NEW k \in Nat, Fits(act), RoomFor(act, ty, k),
           NEW more, Added(more, act, ty, k)
    PROVE  Fits(more)
<1>2. /\ \A r \in Resource : Used(act, r) \in Int /\ Used(more, r) = Used(act, r) + k * Cost[ty][r]
      /\ \A o \in Types : /\ Active(act, o) \in Int
                          /\ Active(more, o) = Active(act, o) + (IF Limiter[o] = Limiter[ty] THEN k ELSE 0)
  BY AddedTotals
<1>3. \A r \in Resource : Used(more, r) <= Machine[r]
  BY <1>2 DEF RoomFor
<1>4. ASSUME NEW o \in Types, LimitN[Limiter[o]] > 0
      PROVE  Active(more, o) <= LimitN[Limiter[o]]
  <2>1. CASE Limiter[o] = Limiter[ty]
    <3>1. Active(act, o) = Active(act, ty)
      BY <2>1 DEF Active
    <3> QED
      BY <1>2, <1>4, <2>1, <3>1 DEF RoomFor
  <2>2. CASE Limiter[o] # Limiter[ty]
    BY <1>2, <1>4, <2>2 DEF Fits
  <2> QED
    BY <2>1, <2>2
<1> QED
  BY <1>3, <1>4 DEF Fits

\* What AssertMachineHasCapacity lets pass fits.
LEMMA RoomForOne ==
    ASSUME NEW act \in Counts, NEW ty \in Types, Fits(act), ~OutOfCapacity(act, ty)
    PROVE  RoomFor(act, ty, 1)
<1>1. ASSUME NEW r \in Resource
      PROVE  Used(act, r) + 1 * Cost[ty][r] <= Machine[r]
  <2>1. Used(act, r) \in Int /\ Cost[ty][r] \in Nat /\ Machine[r] \in Nat /\ Used(act, r) <= Machine[r]
    BY CountTypes, CapacityTypes DEF Fits
  <2>2. ~(Cost[ty][r] > ResourcesAvailable(act)[r])
    BY DEF OutOfCapacity
  <2>3. ResourcesAvailable(act)[r] = IF r = "ram" /\ Used(act, r) >= Machine[r] THEN 0 ELSE Machine[r] - Used(act, r)
    BY DEF ResourcesAvailable
  <2>4. PICK u \in Int, c \in Nat, m \in Nat : u = Used(act, r) /\ c = Cost[ty][r] /\ m = Machine[r]
    BY <2>1
  <2>5. u <= m /\ c <= (IF r = "ram" /\ u >= m THEN 0 ELSE m - u)
    BY <2>1, <2>2, <2>3, <2>4
  <2>6. u + 1 * c <= m
    BY <2>5
  <2> QED
    BY <2>4, <2>6
<1>2. ASSUME LimitN[Limiter[ty]] > 0
      PROVE  Active(act, ty) + 1 <= LimitN[Limiter[ty]]
  <2>1. ~(Active(act, ty) >= LimitN[Limiter[ty]])
    BY <1>2 DEF OutOfCapacity, AtMax
  <2> QED
    BY <2>1, CountTypes, CapacityTypes
<1> QED
  BY <1>1, <1>2 DEF RoomFor

\* Min is the least.
LEMMA MinLeast ==
    ASSUME NEW S, S \subseteq Nat, NEW x \in S
    PROVE  Min(S) \in S /\ Min(S) <= x
<1>1. \E y \in S : \A z \in S : y <= z
  BY LeastNat
<1> QED
  BY <1>1 DEF Min

\* What a headroom of a \div c units means.
LEMMA Quotient ==
    ASSUME NEW a \in Nat, NEW c \in Nat, c > 0
    PROVE  a \div c \in Nat /\ \A k \in Nat : k <= a \div c => k * c <= a
<1>1. a \div c \in Nat /\ (a \div c) * c <= a
  OBVIOUS
<1>2. PICK q \in Nat : q = a \div c
  BY <1>1
<1>3. \A k \in Nat : k <= q => k * c <= q * c
  BY Products
<1>4. q * c \in Nat /\ q * c <= a
  BY <1>1, <1>2, Products
<1>5. \A k \in Nat : k * c \in Nat
  BY Products
<1> QED
  BY <1>1, <1>2, <1>3, <1>4, <1>5

\* What considerWork claims fits, although the headroom was computed for the
\* goroutines seen and some of them have ended since.
LEMMA RoomForClaim ==
    ASSUME NEW act \in Counts, NEW seen \in Counts, NEW ty \in Types, Fits(act),
           \A r \in Resource : Used(act, r) <= Used(seen, r) /\ Used(seen, r) <= Machine[r],
           NEW k \in Nat, k <= MaxAcceptable(seen, act, ty)
    PROVE  RoomFor(act, ty, k)
<1>1. \A r \in Resource : Used(act, r) \in Int /\ Used(seen, r) \in Int /\ Cost[ty][r] \in Nat /\ Machine[r] \in Nat
  BY CountTypes, CapacityTypes
<1>2. \A r \in Resource : /\ ResourcesAvailable(seen)[r] = Machine[r] - Used(seen, r)
                          /\ ResourcesAvailable(seen)[r] \in Nat
  BY <1>1 DEF ResourcesAvailable
<1> DEFINE Costly == {q \in Resource : Cost[ty][q] > 0}
           Heads == {MaxHeadroom} \cup {ResourcesAvailable(seen)[r] \div Cost[ty][r] : r \in Costly}
           Both == {CapacityHeadroom(seen, ty), LimiterHeadroom(act, ty)}
<1>3. \A r \in Costly : /\ ResourcesAvailable(seen)[r] \div Cost[ty][r] \in Nat
                        /\ \A n \in Nat : n <= ResourcesAvailable(seen)[r] \div Cost[ty][r] => n * Cost[ty][r] <= ResourcesAvailable(seen)[r]
  BY <1>1, <1>2, Quotient
<1>4. Heads \subseteq Nat
  BY <1>3, CapacityAssumption DEF CapacityAssumption
<1>5. CapacityHeadroom(seen, ty) = Min(Heads)
  BY DEF CapacityHeadroom
<1>6. LimiterHeadroom(act, ty) \in Nat
  BY CountTypes, CapacityTypes, CapacityAssumption DEF CapacityAssumption, LimiterHeadroom, UnlimitedHeadroom, Fits
<1>7. CapacityHeadroom(seen, ty) \in Nat /\ \A n \in Heads : CapacityHeadroom(seen, ty) <= n
  <2> HIDE DEF Heads
  <2>1. MaxHeadroom \in Heads
    BY DEF Heads
  <2> QED
    BY <1>4, <1>5, <2>1, MinLeast
<1>8. k <= CapacityHeadroom(seen, ty) /\ k <= LimiterHeadroom(act, ty)
  <2>1. MaxAcceptable(seen, act, ty) = Min(Both)
    BY DEF MaxAcceptable
  <2>2. Both \subseteq Nat /\ CapacityHeadroom(seen, ty) \in Both /\ LimiterHeadroom(act, ty) \in Both
    BY <1>6, <1>7
  <2> HIDE DEF Both
  <2>3. Min(Both) \in Nat /\ Min(Both) <= CapacityHeadroom(seen, ty) /\ Min(Both) <= LimiterHeadroom(act, ty)
    BY <2>2, MinLeast
  <2> QED
    BY <1>6, <1>7, <2>1, <2>3
<1>9. ASSUME NEW r \in Resource
      PROVE  Used(act, r) + k * Cost[ty][r] <= Machine[r]
  <2>1. CASE Cost[ty][r] > 0
    <3>1. PICK n \in Nat : n = ResourcesAvailable(seen)[r] \div Cost[ty][r]
      BY <1>3, <2>1
    <3>2. n \in Heads
      BY <2>1, <3>1
    <3>3. k <= n
      BY <1>7, <1>8, <3>2
    <3>4. k * Cost[ty][r] <= ResourcesAvailable(seen)[r] /\ k * Cost[ty][r] \in Nat
      BY <1>1, <1>3, <2>1, <3>1, <3>3, Products
    <3>5. PICK x \in Nat : x = k * Cost[ty][r]
      BY <3>4
    <3> QED
      BY <1>1, <1>2, <3>4, <3>5
  <2>2. CASE Cost[ty][r] = 0
    <3>1. k * Cost[ty][r] = 0
      BY <2>2
    <3> QED
      BY <1>1, <3>1
  <2> QED
    BY <1>1, <2>1, <2>2
<1>10. ASSUME LimitN[Limiter[ty]] > 0
       PROVE  Active(act, ty) + k <= LimitN[Limiter[ty]]
  BY <1>8, <1>10, CountTypes, CapacityTypes DEF LimiterHeadroom
<1> QED
  BY <1>9, <1>10 DEF RoomFor

\* A goroutine that ends only makes room.
LEMMA Fewer ==
    ASSUME NEW less \in Counts, NEW ty \in Types, NEW act, Added(act, less, ty, 1)
    PROVE  /\ act \in Counts
           /\ \A r \in Resource : Used(less, r) \in Int /\ Used(act, r) \in Int /\ Used(less, r) <= Used(act, r)
           /\ \A o \in Types : Active(less, o) \in Int /\ Active(act, o) \in Int /\ Active(less, o) <= Active(act, o)
<1>1. PICK k \in Nat : k = 1
  OBVIOUS
<1>2. Added(act, less, ty, k)
  BY <1>1
<1>3. /\ act \in Counts
      /\ \A r \in Resource : /\ Used(less, r) \in Int
                             /\ Used(act, r) = Used(less, r) + k * Cost[ty][r]
      /\ \A o \in Types : /\ Active(less, o) \in Int
                          /\ Active(act, o) = Active(less, o) + (IF Limiter[o] = Limiter[ty] THEN k ELSE 0)
  BY <1>2, AddedTotals
<1>4. \A r \in Resource : k * Cost[ty][r] \in Nat
  BY CapacityTypes, Products
<1>5. ASSUME NEW r \in Resource
      PROVE  Used(less, r) \in Int /\ Used(act, r) \in Int /\ Used(less, r) <= Used(act, r)
  <2>1. PICK x \in Nat : x = k * Cost[ty][r]
    BY <1>4
  <2> QED
    BY <1>3, <2>1
<1>6. ASSUME NEW o \in Types
      PROVE  Active(less, o) \in Int /\ Active(act, o) \in Int /\ Active(less, o) <= Active(act, o)
  BY <1>1, <1>3
<1> QED
  BY <1>3, <1>5, <1>6

\* So what fitted still fits, and what there was room for still has room.
LEMMA FewerFits ==
    ASSUME NEW less \in Counts, NEW ty \in Types, NEW act, Added(act, less, ty, 1)
    PROVE  /\ Fits(act) => Fits(less)
           /\ \A o \in Types, k \in Nat : RoomFor(act, o, k) => RoomFor(less, o, k)
<1>1. /\ \A r \in Resource : Used(less, r) \in Int /\ Used(act, r) \in Int /\ Used(less, r) <= Used(act, r)
      /\ \A o \in Types : Active(less, o) \in Int /\ Active(act, o) \in Int /\ Active(less, o) <= Active(act, o)
  BY Fewer
<1>2. ASSUME Fits(act)
      PROVE  Fits(less)
  <2>1. ASSUME NEW r \in Resource
        PROVE  Used(less, r) <= Machine[r]
    <3>1. Used(act, r) <= Machine[r] /\ Machine[r] \in Nat
      BY <1>2, CapacityTypes DEF Fits
    <3> QED
      BY <1>1, <3>1
  <2>2. ASSUME NEW o \in Types, LimitN[Limiter[o]] > 0
        PROVE  Active(less, o) <= LimitN[Limiter[o]]
    <3>1. Active(act, o) <= LimitN[Limiter[o]] /\ LimitN[Limiter[o]] \in Nat
      BY <1>2, <2>2, CapacityTypes DEF Fits
    <3> QED
      BY <1>1, <3>1
  <2> QED
    BY <2>1, <2>2 DEF Fits
<1>3. ASSUME NEW o \in Types, NEW k \in Nat, RoomFor(act, o, k)
      PROVE  RoomFor(less, o, k)
  <2>1. ASSUME NEW r \in Resource
        PROVE  Used(less, r) + k * Cost[o][r] <= Machine[r]
    <3>1. PICK x \in Nat : x = k * Cost[o][r]
      BY CapacityTypes, Products
    <3>2. Used(act, r) + x <= Machine[r] /\ Machine[r] \in Nat
      BY <1>3, <3>1, CapacityTypes DEF RoomFor
    <3>3. Used(less, r) + x <= Machine[r]
      BY <1>1, <3>2
    <3> QED
      BY <3>1, <3>3
  <2>2. ASSUME LimitN[Limiter[o]] > 0
        PROVE  Active(less, o) + k <= LimitN[Limiter[o]]
    <3>1. Active(act, o) + k <= LimitN[Limiter[o]] /\ LimitN[Limiter[o]] \in Nat
      BY <1>3, <2>2, CapacityTypes DEF RoomFor
    <3> QED
      BY <1>1, <3>1
  <2> QED
    BY <2>1, <2>2 DEF RoomFor
<1> QED
  BY <1>2, <1>3

\* Room for many is room for fewer.
LEMMA LessRoom ==
    ASSUME NEW act \in Counts, NEW ty \in Types, NEW k \in Nat, NEW n \in Nat, n <= k, RoomFor(act, ty, k)
    PROVE  RoomFor(act, ty, n)
<1>1. ASSUME NEW r \in Resource
      PROVE  Used(act, r) + n * Cost[ty][r] <= Machine[r]
  <2>1. Cost[ty][r] \in Nat /\ Machine[r] \in Nat /\ Used(act, r) \in Int
    BY CapacityTypes, CountTypes
  <2>2. PICK x \in Nat, y \in Nat : x = n * Cost[ty][r] /\ y = k * Cost[ty][r]
    BY <2>1, Products
  <2>3. x <= y
    BY <2>1, <2>2, Products
  <2>4. Used(act, r) + y <= Machine[r]
    BY <2>2 DEF RoomFor
  <2>5. Used(act, r) + x <= Machine[r]
    BY <2>1, <2>3, <2>4
  <2> QED
    BY <2>2, <2>5
<1>2. LimitN[Limiter[ty]] > 0 => Active(act, ty) + n <= LimitN[Limiter[ty]]
  BY CapacityTypes, CountTypes DEF RoomFor
<1> QED
  BY <1>1, <1>2 DEF RoomFor

-----------------------------------------------------------------------------
(* Ownership: machine ids.                                                 *)

\* What a step can do to the identity of processes and machines, and to the
\* owner of a task.
Quiet ==
    /\ UNCHANGED <<rowId, ownerID, boots>>
    /\ \A h \in Hosts : proc'[h] = proc[h] \/ (proc[h] = "recovering" /\ proc'[h] = "up")
                                           \/ (proc[h] = "up" /\ proc'[h] = "terminating")
    /\ \A h \in Hosts : fresh'[h] = fresh[h] \/ fresh'[h] \/ ~Live(h)
    /\ \A t \in Tasks : owner'[t] \in {owner[t], NULL} \cup {ownerID[h] : h \in Hosts}

\* The typing facts the arithmetic of ids rests on.
LEMMA IdTypes ==
    ASSUME TypeOK
    PROVE  /\ boots \in Nat
           /\ \A t \in Tasks : owner[t] \in Nat
           /\ \A h \in Hosts : rowId[h] \in Nat /\ ownerID[h] \in Nat
  BY DEF TypeOK

LEMMA QuietKeepsIds ==
    ASSUME TypeOK, TypeOK', IdsDistinct, Quiet
    PROVE  IdsDistinct' /\ (LiveIsRegistered => LiveIsRegistered')
<1>1. IdsDistinct'
  <2>1. \A t \in Tasks : owner'[t] <= boots
    <3> SUFFICES ASSUME NEW t \in Tasks
                 PROVE  owner'[t] <= boots
      OBVIOUS
    <3>1. CASE owner'[t] = owner[t]
      BY <3>1 DEF IdsDistinct
    <3>2. CASE owner'[t] = NULL
      BY <3>2, IdTypes DEF NULL
    <3>3. CASE \E h \in Hosts : owner'[t] = ownerID[h]
      BY <3>3 DEF IdsDistinct
    <3> QED
      BY <3>1, <3>2, <3>3 DEF Quiet
  <2> QED
    BY <2>1 DEF IdsDistinct, Quiet
<1>2. LiveIsRegistered => LiveIsRegistered'
  BY DEF TypeOK, LiveIsRegistered, Quiet, Live, NULL
<1> QED
  BY <1>1, <1>2

\* The machine rows of dead nodes are deleted.
LEMMA CleanupKeepsIds ==
    ASSUME TypeOK, IdsDistinct, NEW h \in Hosts, CleanupMachines(h)
    PROVE  IdsDistinct' /\ (LiveIsRegistered => LiveIsRegistered')
<1> DEFINE dead == {g \in Hosts : LooksDead(g)}
<1>1. /\ rowId' = [g \in Hosts |-> IF g \in dead THEN NULL ELSE rowId[g]]
      /\ fresh' = [g \in Hosts |-> IF g \in dead THEN FALSE ELSE fresh[g]]
      /\ UNCHANGED <<proc, ownerID, boots>>
  BY DEF CleanupMachines, Without, nodeVars
<1>2. \A t \in Tasks : owner'[t] \in {owner[t], NULL}
  BY DEF CleanupMachines, DisownedBy
<1>3. LiveIsRegistered => \A g \in Hosts : Live(g) => g \notin dead
  BY DEF LiveIsRegistered, LooksDead
<1>4. IdsDistinct'
  <2>1. \A t \in Tasks : owner'[t] <= boots
    BY <1>2, IdTypes DEF IdsDistinct, NULL
  <2>2. \A g \in Hosts : rowId'[g] \in {rowId[g], NULL}
    BY <1>1
  <2> QED
    BY <1>1, <2>1, <2>2, IdTypes DEF IdsDistinct, NULL
<1>5. LiveIsRegistered => LiveIsRegistered'
  BY <1>1, <1>3 DEF TypeOK, LiveIsRegistered, Live, NULL
<1> QED
  BY <1>4, <1>5

\* A new process takes over the id of its host's row, or a new one.
LEMMA RegisterKeepsIds ==
    ASSUME TypeOK, IdsDistinct, NEW h \in Hosts, Register(h)
    PROVE  IdsDistinct' /\ (LiveIsRegistered => LiveIsRegistered')
<1> DEFINE id == IF rowId[h] # NULL THEN rowId[h] ELSE boots + 1
           dead == {g \in Hosts \ {h} : LooksDead(g)}
<1>1. /\ rowId' = [[g \in Hosts |-> IF g \in dead THEN NULL ELSE rowId[g]] EXCEPT ![h] = id]
      /\ fresh' = [[g \in Hosts |-> IF g \in dead THEN FALSE ELSE fresh[g]] EXCEPT ![h] = TRUE]
      /\ ownerID' = [ownerID EXCEPT ![h] = id]
      /\ proc' = [proc EXCEPT ![h] = "recovering"]
      /\ boots' = boots + 1
      /\ proc[h] = "down"
  BY DEF Register, Without
<1>2. \A t \in Tasks : owner'[t] \in {owner[t], NULL}
  BY DEF Register, DisownedBy
<1>3. /\ rowId'[h] = id /\ ownerID'[h] = id /\ fresh'[h] = TRUE /\ proc'[h] = "recovering"
      /\ \A g \in Hosts : g # h =>
            /\ rowId'[g] = (IF g \in dead THEN NULL ELSE rowId[g])
            /\ fresh'[g] = (IF g \in dead THEN FALSE ELSE fresh[g])
            /\ ownerID'[g] = ownerID[g]
            /\ proc'[g] = proc[g]
  BY <1>1 DEF TypeOK
<1>4. LiveIsRegistered => \A g \in Hosts : Live(g) => g \notin dead
  BY DEF LiveIsRegistered, LooksDead
<1>5. /\ id \in Nat /\ id # NULL /\ id <= boots + 1
      /\ \A g \in Hosts : g # h => id # rowId[g] /\ id # ownerID[g]
  BY DEF TypeOK, IdsDistinct, NULL
<1>6. IdsDistinct'
  <2>0. \A g \in Hosts : g # h => rowId'[g] \in {NULL, rowId[g]} /\ ownerID'[g] = ownerID[g]
    BY <1>3
  <2> HIDE DEF id, dead
  <2>1. \A g \in Hosts : rowId'[g] <= boots' /\ ownerID'[g] <= boots'
    <3>1. /\ boots \in Nat /\ boots' = boots + 1
          /\ \A g \in Hosts : rowId[g] \in 0..boots /\ ownerID[g] \in 0..boots
      BY <1>1 DEF TypeOK, IdsDistinct
    <3>2. rowId'[h] = id /\ ownerID'[h] = id
      BY <1>3
    <3> QED
      BY <3>1, <3>2, <1>5, <2>0 DEF NULL
  <2>2. \A t \in Tasks : owner'[t] <= boots'
    BY <1>1, <1>2, IdTypes DEF IdsDistinct, NULL
  <2>3. ASSUME NEW f \in Hosts, NEW g \in Hosts, f # g
        PROVE  /\ rowId'[f] # NULL => rowId'[f] # rowId'[g] /\ rowId'[f] # ownerID'[g]
               /\ ownerID'[f] # NULL => ownerID'[f] # ownerID'[g]
    <3>1. CASE f # h /\ g # h
      BY <2>0, <2>3, <3>1 DEF IdsDistinct
    <3>2. CASE f = h
      BY <1>3, <1>5, <2>0, <2>3, <3>2
    <3>3. CASE g = h
      BY <1>3, <1>5, <2>0, <2>3, <3>3
    <3> QED
      BY <3>1, <3>2, <3>3
  <2> QED
    BY <2>1, <2>2, <2>3 DEF IdsDistinct
<1>7. ASSUME LiveIsRegistered
      PROVE  LiveIsRegistered'
  <2>1. ASSUME NEW g \in Hosts, g # h
        PROVE  /\ ownerID'[g] = NULL <=> proc'[g] = "down"
               /\ proc'[g] # "down" => rowId'[g] \in {NULL, ownerID'[g]}
               /\ Live(g)' => rowId'[g] = ownerID'[g] /\ fresh'[g]
    BY <1>3, <1>4, <1>7, <2>1 DEF LiveIsRegistered, Live
  <2> QED
    BY <1>3, <1>5, <2>1 DEF LiveIsRegistered
<1> QED
  BY <1>6, <1>7

\* The process of a node ends.
LEMMA GoneKeepsIds ==
    ASSUME TypeOK, IdsDistinct, NEW h \in Hosts, ProcessGone(h),
           UNCHANGED <<rowId, fresh, taskVars, boots>>
    PROVE  IdsDistinct' /\ (LiveIsRegistered => LiveIsRegistered')
<1>1. /\ proc'[h] = "down" /\ ownerID'[h] = NULL
      /\ \A g \in Hosts : g # h => proc'[g] = proc[g] /\ ownerID'[g] = ownerID[g]
      /\ UNCHANGED <<rowId, fresh, owner, boots>>
  BY DEF ProcessGone, TypeOK, taskVars
<1>2. IdsDistinct'
  BY <1>1, IdTypes DEF IdsDistinct, NULL
<1>3. LiveIsRegistered => LiveIsRegistered'
  BY <1>1 DEF LiveIsRegistered, Live
<1> QED
  BY <1>2, <1>3

\* What an action of node h is.
Step(h) == Startup(h) \/ Poll(h) \/ Work(h) \/ Environment(h)

\* Every other action is quiet, unless a live node ages.
LEMMA QuietSteps ==
    ASSUME TypeOK, NEW h \in Hosts, Step(h)
    PROVE  \/ Quiet
           \/ FalseSuspicion /\ Age(h)
           \/ Register(h)
           \/ CleanupMachines(h)
           \/ ProcessGone(h) /\ UNCHANGED <<rowId, fresh, taskVars, boots>>
<1> USE DEF machineVars, taskVars, workVars, nodeVars
<1>1. ASSUME UNCHANGED <<rowId, fresh, proc, ownerID, owner, boots>>
      PROVE  Quiet
  BY <1>1 DEF Quiet
<1>2. ASSUME UNCHANGED <<rowId, fresh, proc, ownerID, boots>>,
             \A t \in Tasks : owner'[t] \in {owner[t], NULL, ownerID[h]}
      PROVE  Quiet
  BY <1>2 DEF Quiet
<1>3. CASE Startup(h)
  <2>1. CASE StartPoller(h)
    BY <2>1 DEF StartPoller, Quiet, TypeOK
  <2>2. ASSUME NEW t \in Tasks, RecoverTask(h, t)
        PROVE  Quiet
    BY <1>1, <2>2 DEF RecoverTask
  <2>3. ASSUME NEW t \in Tasks, RefuseRecovered(h, t)
        PROVE  Quiet
    <3>1. owner' = owner \/ owner' = [owner EXCEPT ![t] = NULL]
      BY <2>3 DEF RefuseRecovered
    <3>2. \A u \in Tasks : owner'[u] \in {owner[u], NULL, ownerID[h]}
      BY <3>1 DEF TypeOK
    <3> QED
      BY <1>2, <2>3, <3>2 DEF RefuseRecovered
  <2> QED
    BY <1>3, <2>1, <2>2, <2>3 DEF Startup
<1>4. CASE Poll(h)
  <2>1. CASE RestartNode(h)
    BY <2>1 DEF RestartNode
  <2>2. CASE Claim(h)
    <3>1. \A u \in Tasks : owner'[u] \in {owner[u], NULL, ownerID[h]}
      BY <2>2 DEF Claim
    <3> QED
      BY <1>2, <2>2, <3>1 DEF Claim
  <2>3. CASE StartClaimed(h)
    <3>1. \A u \in Tasks : owner'[u] \in {owner[u], NULL, ownerID[h]}
      BY <2>3 DEF StartClaimed
    <3> QED
      BY <1>2, <2>3, <3>1 DEF StartClaimed
  <2>4. CASE CheckNodeFlags(h) \/ ConsiderWork(h) \/ SkipHandler(h) \/ IAmBored(h)
             \/ ClaimNothing(h)
    BY <1>1, <2>4 DEF CheckNodeFlags, ConsiderWork, SkipHandler, IAmBored, ClaimNothing
  <2> QED
    BY <1>4, <2>1, <2>2, <2>3, <2>4 DEF Poll
<1>5. CASE Work(h)
  <2>1. ASSUME NEW t \in Tasks, NEW res \in Outcome,
               RecordCompletion(h, t, res) \/ CommitUncertain(h, t, res)
        PROVE  Quiet
    <3>1. owner' = [owner EXCEPT ![t] = NULL]
      BY <2>1 DEF RecordCompletion, CommitUncertain, Complete
    <3>2. \A u \in Tasks : owner'[u] \in {owner[u], NULL, ownerID[h]}
      BY <3>1 DEF TypeOK
    <3> QED
      BY <1>2, <2>1, <3>2 DEF RecordCompletion, CommitUncertain
  <2> QED
    BY <1>1, <1>5, <2>1 DEF Work, AddTask, DoReturns
<1>6. CASE Environment(h)
  <2>1. CASE Heartbeat(h)
    BY <2>1 DEF Heartbeat, Quiet, TypeOK
  <2>2. CASE Age(h)
    BY <2>2 DEF Age, Quiet, TypeOK, Live
  <2>3. CASE Crash(h) \/ ExitProcess(h)
    BY <2>3 DEF Crash, ExitProcess
  <2>4. CASE GracefullyTerminate(h)
    BY <2>4 DEF GracefullyTerminate, Quiet, TypeOK
  <2>5. CASE Cordon(h) \/ Uncordon(h) \/ Restart(h) \/ AbortRestart(h)
    BY <1>1, <2>5 DEF Cordon, Uncordon, SetUnschedulable, Restart, AbortRestart,
       SetRestartRequest
  <2> QED
    BY <1>6, <2>1, <2>2, <2>3, <2>4, <2>5 DEF Environment
<1> QED
  BY <1>3, <1>4, <1>5, <1>6 DEF Step

LEMMA IdStep ==
    ASSUME TypeOK, TypeOK', IdsDistinct, NEW h \in Hosts, Step(h)
    PROVE  IdsDistinct' /\ (~FalseSuspicion /\ LiveIsRegistered => LiveIsRegistered')
<1>1. CASE FalseSuspicion /\ Age(h)
  <2>1. UNCHANGED <<rowId, owner, ownerID, boots>>
    BY <1>1 DEF Age, taskVars, nodeVars
  <2> QED
    BY <1>1, <2>1 DEF IdsDistinct
<1> QED
  BY <1>1, QuietSteps, QuietKeepsIds, RegisterKeepsIds, CleanupKeepsIds, GoneKeepsIds

-----------------------------------------------------------------------------
(* Work.                                                                   *)

LEMMA BusyTypes ==
    ASSUME TypeOK, NEW h \in Hosts, NEW t \in Tasks
    PROVE  /\ doing[h][t] \in Nat
           /\ recording[h][t]["done"] \in Nat
           /\ recording[h][t]["failed"] \in Nat
           /\ poller[h].pc \in {"idle", "scan", "claim", "claimed", "recover"}
           /\ poller[h].cand \subseteq Tasks
           /\ Busy(h, t) \in Nat
<1>1. doing[h][t] \in Nat /\ recording[h][t] \in [Outcome -> Nat]
  BY DEF TypeOK
<1>3. recording[h][t]["done"] \in Nat /\ recording[h][t]["failed"] \in Nat
  BY <1>1 DEF Outcome
<1>2. /\ poller[h].pc \in {"idle", "scan", "claim", "claimed", "recover"}
      /\ poller[h].cand \subseteq Tasks
  BY DEF TypeOK, PollerState
<1> QED
  BY <1>1, <1>2, <1>3 DEF Busy

\* A node's step touches the memory of its own process only.
LEMMA LocalStep ==
    ASSUME TypeOK, NEW h \in Hosts, Step(h), NEW g \in Hosts, g # h
    PROVE  /\ proc'[g] = proc[g] /\ ownerID'[g] = ownerID[g]
           /\ poller'[g] = poller[g]
           /\ doing'[g] = doing[g] /\ recording'[g] = recording[g]
<1> USE DEF machineVars, taskVars, workVars, nodeVars
<1>1. CASE UNCHANGED <<nodeVars, workVars>>
  BY <1>1
<1>2. CASE ProcessGone(h)
  BY <1>2 DEF ProcessGone, TypeOK
<1>3. ASSUME Decline(h) \/ (\E cand : Propose(h, cand))
      PROVE  poller'[g] = poller[g]
  BY <1>3 DEF Decline, Propose, TypeOK
<1>4. ASSUME NEW ty, NEW ts, StartWork(h, ty, ts)
      PROVE  doing'[g] = doing[g] /\ recording'[g] = recording[g]
  BY <1>4 DEF StartWork, TypeOK
<1>5. CASE Startup(h)
  <2>1. CASE Register(h) \/ StartPoller(h)
    BY <2>1 DEF Register, StartPoller, TypeOK
  <2>2. ASSUME NEW t \in Tasks, RecoverTask(h, t) \/ RefuseRecovered(h, t)
        PROVE  poller'[g] = poller[g] /\ UNCHANGED <<proc, ownerID>>
    BY <2>2 DEF RecoverTask, RefuseRecovered, Recovered, TypeOK
  <2>3. ASSUME NEW t \in Tasks, RecoverTask(h, t) \/ RefuseRecovered(h, t)
        PROVE  doing'[g] = doing[g] /\ recording'[g] = recording[g]
    BY <1>4, <2>3 DEF RecoverTask, RefuseRecovered
  <2> QED
    BY <1>5, <2>1, <2>2, <2>3 DEF Startup
<1>6. CASE Poll(h)
  <2>1. CASE CheckNodeFlags(h)
    BY <2>1 DEF CheckNodeFlags, TypeOK
  <2>2. CASE RestartNode(h)
    BY <1>2, <2>2 DEF RestartNode
  <2>3. CASE CleanupMachines(h)
    BY <1>1, <2>3 DEF CleanupMachines
  <2>4. CASE ConsiderWork(h) \/ SkipHandler(h) \/ IAmBored(h) \/ ClaimNothing(h)
    BY <1>3, <2>4 DEF ConsiderWork, SkipHandler, IAmBored, ClaimNothing
  <2>5. CASE Claim(h)
    <3>1. poller'[g] = poller[g]
      BY <1>3, <2>5 DEF Claim, TypeOK
    <3> QED
      BY <2>5, <3>1 DEF Claim
  <2>6. CASE StartClaimed(h)
    <3>1. poller'[g] = poller[g]
      BY <1>3, <2>6 DEF StartClaimed, TypeOK
    <3>2. doing'[g] = doing[g] /\ recording'[g] = recording[g]
      BY <1>4, <2>6 DEF StartClaimed
    <3> QED
      BY <2>6, <3>1, <3>2 DEF StartClaimed
  <2> QED
    BY <1>6, <2>1, <2>2, <2>3, <2>4, <2>5, <2>6 DEF Poll
<1>7. CASE Work(h)
  <2>1. ASSUME NEW t \in Tasks, AddTask(h, t)
        PROVE  UNCHANGED <<nodeVars, workVars>>
    BY <2>1 DEF AddTask
  <2>2. ASSUME NEW t \in Tasks, NEW res \in Outcome, DoReturns(h, t, res)
        PROVE  UNCHANGED nodeVars /\ doing'[g] = doing[g] /\ recording'[g] = recording[g]
    BY <2>2 DEF DoReturns, TypeOK
  <2>3. ASSUME NEW t \in Tasks, NEW res \in Outcome, RecordCompletion(h, t, res)
        PROVE  UNCHANGED <<nodeVars, doing>> /\ recording'[g] = recording[g]
    BY <2>3 DEF RecordCompletion, TypeOK
  <2>4. ASSUME NEW t \in Tasks, NEW res \in Outcome, CommitUncertain(h, t, res)
        PROVE  UNCHANGED <<nodeVars, workVars>>
    BY <2>4 DEF CommitUncertain
  <2> QED
    BY <1>7, <2>1, <2>2, <2>3, <2>4 DEF Work
<1>8. CASE Environment(h)
  <2>1. CASE Crash(h) \/ ExitProcess(h)
    BY <1>2, <2>1 DEF Crash, ExitProcess
  <2>2. CASE GracefullyTerminate(h)
    BY <2>2 DEF GracefullyTerminate, TypeOK
  <2> QED
    BY <1>1, <1>8, <2>1, <2>2 DEF Environment, Heartbeat, Age, Cordon, Uncordon,
       SetUnschedulable, Restart, AbortRestart, SetRestartRequest
<1> QED
  BY <1>5, <1>6, <1>7, <1>8 DEF Step

\* The poller of h as each of its actions leaves it.
LEMMA PollerAfter ==
    ASSUME TypeOK, NEW h \in Hosts
    PROVE  /\ Decline(h) => poller'[h].pc \in {"scan", "idle"}
           /\ \A cand : Propose(h, cand) => poller'[h].pc = "claim"
           /\ poller' = [poller EXCEPT ![h] = Idle] => poller'[h].pc = "idle"
           /\ \A t : Recovered(h, t) => /\ poller'[h].pc = poller[h].pc
                                        /\ poller'[h].cand = poller[h].cand \ {t}
<1>1. Decline(h) => poller'[h].pc \in {"scan", "idle"}
  BY DEF Decline, AfterHandler, PollerAt, Idle, TypeOK
<1>2. poller[h] \in PollerState /\ poller \in [Hosts -> PollerState]
  BY DEF TypeOK
<1>3. \A cand : Propose(h, cand) => poller'[h].pc = "claim"
  BY <1>2 DEF Propose, PollerState
<1>4. poller' = [poller EXCEPT ![h] = Idle] => poller'[h].pc = "idle"
  BY <1>2 DEF Idle, PollerAt
<1>5. \A t : Recovered(h, t) => /\ poller'[h].pc = poller[h].pc
                                /\ poller'[h].cand = poller[h].cand \ {t}
  BY <1>2 DEF Recovered, PollerState
<1> QED
  BY <1>1, <1>3, <1>4, <1>5

\* A claim takes unowned rows and makes them pending, or gets an error.
LEMMA ClaimPoller ==
    ASSUME TypeOK, NEW h \in Hosts, Claim(h)
    PROVE  \E acc \in SUBSET Tasks :
              /\ \A t \in acc : owner[t] = NULL
              /\ \A t \in Tasks : owner'[t] = IF t \in acc THEN ownerID[h] ELSE owner[t]
              /\ \/ poller'[h].pc = "claimed" /\ poller'[h].cand = acc
                 \/ DBErrors /\ Decline(h)
<1>1. PICK acc \in SUBSET {t \in poller[h].cand : row[t] = "present" /\ owner[t] = NULL} :
         /\ owner' = [t \in Tasks |-> IF t \in acc THEN ownerID[h] ELSE owner[t]]
         /\ \/ poller' = [poller EXCEPT ![h] = [@ EXCEPT !.pc = "claimed", !.cand = acc]]
            \/ DBErrors /\ Decline(h)
  BY DEF Claim
<1>2. poller[h] \in PollerState /\ poller \in [Hosts -> PollerState]
  BY DEF TypeOK
<1>3. ASSUME poller' = [poller EXCEPT ![h] = [@ EXCEPT !.pc = "claimed", !.cand = acc]]
      PROVE  poller'[h].pc = "claimed" /\ poller'[h].cand = acc
  BY <1>2, <1>3 DEF PollerState
<1>4. acc \in SUBSET Tasks /\ \A t \in acc : owner[t] = NULL
  BY <1>2 DEF PollerState
<1> QED
  BY <1>1, <1>3, <1>4

LEMMA PhaseStep ==
    ASSUME TypeOK, PhasesMatch, NEW h \in Hosts, Step(h)
    PROVE  PhasesMatch'
<1> USE DEF machineVars, taskVars, workVars, nodeVars
<1> DEFINE Phase(p, pc) == (pc = "recover" <=> p = "recovering") /\ (p = "down" => pc = "idle")
<1>1. Phase(proc[h], poller[h].pc)
  BY DEF PhasesMatch
<1>2. SUFFICES Phase(proc'[h], poller'[h].pc)
  BY LocalStep DEF PhasesMatch
<1>3. CASE UNCHANGED nodeVars
  BY <1>1, <1>3
<1>4. CASE ProcessGone(h)
  BY <1>4, PollerAfter DEF ProcessGone, TypeOK
<1>5. CASE Startup(h)
  <2>1. CASE Register(h)
    BY <2>1 DEF Register, PollerAt, TypeOK
  <2>2. CASE StartPoller(h)
    BY <2>2, PollerAfter DEF StartPoller, TypeOK
  <2>3. ASSUME NEW t \in Tasks, RecoverTask(h, t) \/ RefuseRecovered(h, t)
        PROVE  Phase(proc'[h], poller'[h].pc)
    BY <1>1, <2>3, PollerAfter DEF RecoverTask, RefuseRecovered
  <2> QED
    BY <1>5, <2>1, <2>2, <2>3 DEF Startup
<1>6. CASE Poll(h)
  <2>1. CASE CheckNodeFlags(h)
    BY <2>1 DEF CheckNodeFlags, PollerAt, TypeOK
  <2>2. CASE RestartNode(h)
    BY <1>4, <2>2 DEF RestartNode
  <2>3. CASE CleanupMachines(h)
    BY <1>3, <2>3 DEF CleanupMachines
  <2>4. CASE ConsiderWork(h) \/ SkipHandler(h) \/ IAmBored(h) \/ ClaimNothing(h)
    BY <2>4, PollerAfter DEF ConsiderWork, SkipHandler, IAmBored, ClaimNothing
  <2>5. CASE Claim(h)
    <3>1. poller'[h].pc \in {"claimed", "scan", "idle"}
      BY <2>5, ClaimPoller, PollerAfter
    <3> QED
      BY <2>5, <3>1 DEF Claim
  <2>6. CASE StartClaimed(h)
    <3>1. poller'[h].pc \in {"scan", "idle"}
      BY <2>6, PollerAfter DEF StartClaimed
    <3> QED
      BY <2>6, <3>1 DEF StartClaimed
  <2> QED
    BY <1>6, <2>1, <2>2, <2>3, <2>4, <2>5, <2>6 DEF Poll
<1>7. CASE Work(h)
  BY <1>3, <1>7 DEF Work, AddTask, DoReturns, RecordCompletion, CommitUncertain
<1>8. CASE Environment(h)
  <2>1. CASE Crash(h) \/ ExitProcess(h)
    BY <1>4, <2>1 DEF Crash, ExitProcess
  <2>2. CASE GracefullyTerminate(h)
    BY <1>1, <2>2 DEF GracefullyTerminate, TypeOK, Idle, PollerAt
  <2> QED
    BY <1>3, <1>8, <2>1, <2>2 DEF Environment, Heartbeat, Age, Cordon, Uncordon,
       SetUnschedulable, Restart, AbortRestart, SetRestartRequest
<1> QED
  BY <1>5, <1>6, <1>7, <1>8 DEF Step

\* A step never takes a task from another live engine.
LEMMA KeepsOwn ==
    ASSUME TypeOK, OwnershipInv, ~DBErrors,
           NEW h \in Hosts, Step(h), NEW g \in Hosts, g # h, Live(g),
           NEW t \in Tasks, owner[t] = ownerID[g]
    PROVE  owner'[t] = owner[t]
<1> USE DEF machineVars, taskVars, workVars, nodeVars
<1>1. /\ owner[t] # NULL /\ owner[t] = rowId[g] /\ fresh[g]
      /\ owner[t] # ownerID[h]
      /\ \A f \in Hosts : f # g => owner[t] # rowId[f]
  BY DEF OwnershipInv, LiveIsRegistered, IdsDistinct, Live
<1>2. Live(h) => Busy(h, t) = 0
  BY <1>1, BusyTypes DEF OwnershipInv, WorkIsOwned
<1>3. ASSUME Live(h) PROVE /\ ~Pending(h, t)
                           /\ \A res \in Outcome : ~(recording[h][t][res] > 0)
  BY <1>2, <1>3, BusyTypes DEF Busy, Outcome
<1>4. CASE owner' = owner
  BY <1>4
<1>5. ASSUME NEW dead \in SUBSET Hosts, owner' = DisownedBy(dead), \A f \in dead : LooksDead(f)
      PROVE  owner'[t] = owner[t]
  BY <1>1, <1>5 DEF DisownedBy, LooksDead
<1>6. ASSUME NEW u \in Tasks, u # t, owner' = [owner EXCEPT ![u] = NULL]
      PROVE  owner'[t] = owner[t]
  BY <1>6 DEF TypeOK
<1>7. CASE Startup(h)
  <2>1. CASE Register(h)
    BY <1>5, <2>1 DEF Register
  <2>2. ASSUME NEW u \in Tasks, RefuseRecovered(h, u)
        PROVE  owner'[t] = owner[t]
    <3>1. u # t
      <4>1. Pending(h, u) /\ Live(h)
        BY <2>2 DEF RefuseRecovered, Pending, Live, OwnershipInv, PhasesMatch
      <4> QED
        BY <1>3, <4>1
    <3> QED
      BY <1>4, <1>6, <2>2, <3>1 DEF RefuseRecovered
  <2> QED
    BY <1>4, <1>7, <2>1, <2>2 DEF Startup, StartPoller, RecoverTask
<1>8. CASE Poll(h)
  <2>1. CASE CleanupMachines(h)
    BY <1>5, <2>1 DEF CleanupMachines
  <2>2. CASE Claim(h)
    BY <1>1, <2>2, ClaimPoller
  <2>3. CASE StartClaimed(h)
    <3>1. CASE proc[h] = "up"
      <4>1. t \notin poller[h].cand
        BY <1>3, <2>3, <3>1 DEF StartClaimed, Pending, Live
      <4> QED
        BY <2>3, <4>1 DEF StartClaimed
    <3> QED
      BY <2>3, <3>1 DEF StartClaimed
  <2> QED
    BY <1>4, <1>8, <2>1, <2>2, <2>3 DEF Poll, CheckNodeFlags, RestartNode, ConsiderWork,
       SkipHandler, IAmBored, ClaimNothing
<1>9. CASE Work(h)
  <2>1. ASSUME NEW u \in Tasks, NEW res \in Outcome, RecordCompletion(h, u, res)
        PROVE  owner'[t] = owner[t]
    <3>1. u # t
      BY <1>3, <2>1 DEF RecordCompletion, Live
    <3> QED
      BY <1>6, <2>1, <3>1 DEF RecordCompletion, Complete
  <2> QED
    BY <1>4, <1>9, <2>1 DEF Work, AddTask, DoReturns, CommitUncertain
<1>10. CASE Environment(h)
  BY <1>4, <1>10 DEF Environment, Heartbeat, Age, Cordon, Uncordon, SetUnschedulable,
     Restart, AbortRestart, SetRestartRequest, Crash, ExitProcess, GracefullyTerminate
<1> QED
  BY <1>7, <1>8, <1>9, <1>10 DEF Step

\* WorkIsOwned for one node and one task.
Owned(h, t) ==
    /\ Busy(h, t) <= 1
    /\ proc[h] = "down" => Busy(h, t) = 0
    /\ Live(h) /\ Busy(h, t) > 0 => owner[t] = ownerID[h]

\* Steps that start no goroutine and leave the owner alone.
LEMMA LessWork ==
    ASSUME TypeOK, TypeOK', NEW h \in Hosts, NEW t \in Tasks, Owned(h, t),
           doing'[h][t] = doing[h][t], recording'[h][t] = recording[h][t],
           Pending(h, t)' => Pending(h, t),
           ownerID'[h] = ownerID[h], proc[h] # "down", proc'[h] # "down",
           Live(h)' => Live(h), owner'[t] = owner[t]
    PROVE  Owned(h, t)'
<1>1. Busy(h, t)' <= Busy(h, t) /\ Busy(h, t) \in Nat /\ Busy(h, t)' \in Nat
  BY BusyTypes DEF Busy
<1> QED
  BY <1>1 DEF Owned

LEMMA GoneOwned ==
    ASSUME TypeOK, NEW h \in Hosts, NEW t \in Tasks, ProcessGone(h)
    PROVE  Owned(h, t)'
<1>1. /\ proc'[h] = "down" /\ poller'[h].pc = "idle"
      /\ doing'[h][t] = 0 /\ recording'[h][t] = [res \in Outcome |-> 0]
  <2>1. proc'[h] = "down" /\ doing'[h] = NoWork /\ recording'[h] = NoRecord
    BY DEF ProcessGone, TypeOK
  <2> QED
    <3>1. poller'[h].pc = "idle"
      BY PollerAfter DEF ProcessGone
    <3> QED
      BY <2>1, <3>1 DEF NoWork, NoRecord
<1>2. Busy(h, t)' = 0
  BY <1>1 DEF Busy, Pending, Outcome
<1> QED
  BY <1>1, <1>2 DEF Owned, Live

\* A restarted process finds exactly the tasks of its machine id.
LEMMA RegisterOwned ==
    ASSUME TypeOK, OwnershipInv, NEW h \in Hosts, NEW t \in Tasks, Register(h)
    PROVE  Owned(h, t)'
<1> DEFINE id == IF rowId[h] # NULL THEN rowId[h] ELSE boots + 1
           dead == {g \in Hosts \ {h} : LooksDead(g)}
<1>1. /\ proc[h] = "down" /\ proc'[h] = "recovering" /\ ownerID'[h] = id
      /\ doing' = doing /\ recording' = recording
      /\ poller'[h].pc = "recover" /\ poller'[h].cand = {u \in Tasks : owner[u] = id}
      /\ owner' = DisownedBy(dead)
  BY DEF Register, TypeOK, PollerAt, workVars
<1>2. Busy(h, t) = 0
  BY <1>1 DEF OwnershipInv, WorkIsOwned
<1>3. doing[h][t] = 0 /\ recording[h][t]["done"] = 0 /\ recording[h][t]["failed"] = 0
  <2>1. CASE Pending(h, t)
    BY <1>2, <2>1, BusyTypes DEF Busy
  <2>2. CASE ~Pending(h, t)
    BY <1>2, <2>2, BusyTypes DEF Busy
  <2> QED
    BY <2>1, <2>2
<1>4. Busy(h, t)' = IF owner[t] = id THEN 1 ELSE 0
  BY <1>1, <1>3 DEF Busy, Pending
<1>5. ASSUME owner[t] = id PROVE owner'[t] = id
  <2>1. \A g \in dead : rowId[g] # id
    BY IdTypes DEF OwnershipInv, IdsDistinct, LooksDead
  <2> QED
    BY <1>1, <1>5, <2>1 DEF DisownedBy
<1> QED
  BY <1>1, <1>4, <1>5 DEF Owned, Live

\* A task that is pending gets its goroutine.
LEMMA RecoverOwned ==
    ASSUME TypeOK, OwnershipInv, NEW h \in Hosts, NEW t \in Tasks, NEW u \in Tasks,
           RecoverTask(h, u)
    PROVE  Owned(h, t)'
<1>1. /\ proc[h] = "recovering" /\ u \in poller[h].cand
      /\ UNCHANGED <<proc, ownerID, owner, recording>>
      /\ poller'[h].pc = poller[h].pc /\ poller'[h].cand = poller[h].cand \ {u}
  BY PollerAfter DEF RecoverTask, StartWork, taskVars
<1>2. doing'[h][t] = IF t = u THEN doing[h][t] + 1 ELSE doing[h][t]
  BY DEF RecoverTask, StartWork, TypeOK
<1>3. poller[h].pc = "recover"
  BY <1>1 DEF OwnershipInv, PhasesMatch
<1>4. Busy(h, t)' = Busy(h, t)
  BY <1>1, <1>2, <1>3, BusyTypes DEF Busy, Pending
<1> QED
  BY <1>1, <1>4 DEF OwnershipInv, WorkIsOwned, Owned, Live

LEMMA RefuseOwned ==
    ASSUME TypeOK, TypeOK', OwnershipInv, NEW h \in Hosts, NEW t \in Tasks, NEW u \in Tasks,
           RefuseRecovered(h, u)
    PROVE  Owned(h, t)'
<1>1. /\ proc[h] = "recovering" /\ u \in poller[h].cand
      /\ UNCHANGED <<proc, ownerID, doing, recording>>
      /\ poller'[h].pc = poller[h].pc /\ poller'[h].cand = poller[h].cand \ {u}
  BY PollerAfter DEF RefuseRecovered, workVars
<1>2. poller[h].pc = "recover"
  BY <1>1 DEF OwnershipInv, PhasesMatch
<1>3. Owned(h, t)
  BY DEF OwnershipInv, WorkIsOwned, Owned
<1>4. CASE t = u
  <2>1. Pending(h, t) /\ ~Pending(h, t)'
    BY <1>1, <1>2, <1>4 DEF Pending
  <2>2. Busy(h, t)' = Busy(h, t) - 1
    BY <1>1, <2>1, BusyTypes DEF Busy
  <2>3. Busy(h, t)' = 0
    BY <1>3, <2>1, <2>2, BusyTypes DEF Owned, Busy
  <2> QED
    BY <2>3 DEF Owned
<1>5. CASE t # u
  <2>1. owner'[t] = owner[t]
    <3>1. CASE owner' = owner
      BY <3>1
    <3>2. CASE owner' = [owner EXCEPT ![u] = NULL]
      BY <1>5, <3>2 DEF TypeOK
    <3> QED
      BY <3>1, <3>2 DEF RefuseRecovered
  <2> QED
    BY <1>1, <1>3, <2>1, LessWork DEF Pending, Live
<1> QED
  BY <1>4, <1>5

\* The claim makes exactly the claimed tasks pending.
LEMMA ClaimOwned ==
    ASSUME TypeOK, TypeOK', OwnershipInv, ~DBErrors, NEW h \in Hosts, NEW t \in Tasks, Claim(h)
    PROVE  Owned(h, t)'
<1>1. /\ proc[h] = "up" /\ poller[h].pc = "claim"
      /\ UNCHANGED <<proc, ownerID, doing, recording>>
  BY DEF Claim, workVars
<1>2. PICK acc \in SUBSET Tasks :
         /\ \A u \in acc : owner[u] = NULL
         /\ \A u \in Tasks : owner'[u] = IF u \in acc THEN ownerID[h] ELSE owner[u]
         /\ poller'[h].pc = "claimed" /\ poller'[h].cand = acc
  BY ClaimPoller
<1>3. Owned(h, t)
  BY DEF OwnershipInv, WorkIsOwned, Owned
<1>4. ownerID[h] # NULL
  BY <1>1 DEF OwnershipInv, LiveIsRegistered
<1>5. CASE t \in acc
  <2>1. Busy(h, t) = 0
    BY <1>1, <1>2, <1>3, <1>4, <1>5, BusyTypes DEF Owned, Live
  <2>2. Busy(h, t)' = 1
    BY <1>1, <1>2, <1>5, <2>1, BusyTypes DEF Busy, Pending
  <2> QED
    BY <1>1, <1>2, <1>5, <2>2 DEF Owned
<1>6. CASE t \notin acc
  BY <1>1, <1>2, <1>3, <1>6, LessWork DEF Pending, Live
<1> QED
  BY <1>5, <1>6

LEMMA StartOwned ==
    ASSUME TypeOK, TypeOK', OwnershipInv, NEW h \in Hosts, NEW t \in Tasks, StartClaimed(h)
    PROVE  Owned(h, t)'
<1>1. /\ proc[h] \in {"up", "terminating"} /\ poller[h].pc = "claimed"
      /\ UNCHANGED <<proc, ownerID>>
      /\ poller'[h].pc \in {"scan", "idle"}
  BY PollerAfter DEF StartClaimed
<1>2. PICK bad \in SUBSET poller[h].cand :
         /\ StartWork(h, Handler(h), poller[h].cand \ bad)
         /\ \/ owner' = [u \in Tasks |-> IF u \in bad THEN NULL ELSE owner[u]]
            \/ UNCHANGED owner
  BY DEF StartClaimed
<1>3. /\ doing'[h][t] = IF t \in poller[h].cand \ bad THEN doing[h][t] + 1 ELSE doing[h][t]
      /\ recording' = recording
  BY <1>2 DEF StartWork, TypeOK
<1>4. ~Pending(h, t)'
  BY <1>1 DEF Pending
<1>5. Owned(h, t)
  BY DEF OwnershipInv, WorkIsOwned, Owned
<1>6. CASE t \in bad
  <2>1. Pending(h, t)
    BY <1>1, <1>6 DEF Pending
  <2>2. Busy(h, t)' = 0
    BY <1>3, <1>4, <1>5, <1>6, <2>1, BusyTypes DEF Busy, Owned
  <2> QED
    BY <2>2 DEF Owned
<1>7. CASE t \notin bad
  <2>1. Busy(h, t)' = Busy(h, t)
    BY <1>1, <1>3, <1>4, <1>7, BusyTypes DEF Busy, Pending
  <2>2. owner'[t] = owner[t]
    BY <1>2, <1>7
  <2> QED
    BY <1>1, <1>5, <2>1, <2>2 DEF Owned, Live
<1> QED
  BY <1>6, <1>7

\* Do returns: its goroutine goes on to record the outcome.
LEMMA DoReturnsBusy ==
    ASSUME TypeOK, TypeOK', NEW h \in Hosts, NEW t \in Tasks, NEW u \in Tasks,
           NEW res \in Outcome, DoReturns(h, u, res)
    PROVE  Busy(h, t)' = Busy(h, t)
<1>1. UNCHANGED poller
  BY DEF DoReturns, nodeVars
<1>3. doing'[h][t] = IF t = u THEN doing[h][t] - 1 ELSE doing[h][t]
  BY DEF DoReturns, TypeOK
<1>4. /\ recording \in [Hosts -> [Tasks -> [Outcome -> Nat]]]
      /\ recording' = [recording EXCEPT ![h][u][res] = @ + 1]
  BY DEF DoReturns, TypeOK
<1>5. \A o \in Outcome : recording'[h][t][o] =
         IF t = u /\ o = res THEN recording[h][t][o] + 1 ELSE recording[h][t][o]
  BY <1>4
<1>6. Pending(h, t)' = Pending(h, t)
  BY <1>1 DEF Pending
<1>7. CASE t = u /\ res = "done"
  BY <1>3, <1>5, <1>6, <1>7, BusyTypes DEF Busy, Outcome
<1>8. CASE t = u /\ res = "failed"
  <2>1. /\ recording'[h][t]["done"] = recording[h][t]["done"]
        /\ recording'[h][t]["failed"] = recording[h][t]["failed"] + 1
        /\ doing'[h][t] = doing[h][t] - 1
    BY <1>3, <1>5, <1>8 DEF Outcome
  <2> QED
    BY <1>6, <2>1, BusyTypes DEF Busy
<1>9. CASE t # u
  BY <1>3, <1>5, <1>6, <1>9, BusyTypes DEF Busy, Outcome
<1> QED
  BY <1>7, <1>8, <1>9 DEF Outcome

LEMMA DoReturnsOwned ==
    ASSUME TypeOK, TypeOK', OwnershipInv, NEW h \in Hosts, NEW t \in Tasks, NEW u \in Tasks,
           NEW res \in Outcome, DoReturns(h, u, res)
    PROVE  Owned(h, t)'
<1>1. UNCHANGED <<proc, ownerID, poller, owner>>
  BY DEF DoReturns, nodeVars, taskVars
<1>2. Owned(h, t)
  BY DEF OwnershipInv, WorkIsOwned, Owned
<1>3. Busy(h, t)' = Busy(h, t)
  BY DoReturnsBusy
<1> QED
  BY <1>1, <1>2, <1>3 DEF Owned, Live

LEMMA CompletionOwned ==
    ASSUME TypeOK, TypeOK', OwnershipInv, NEW h \in Hosts, NEW t \in Tasks, NEW u \in Tasks,
           NEW res \in Outcome, RecordCompletion(h, u, res)
    PROVE  Owned(h, t)'
<1>1. /\ UNCHANGED <<proc, ownerID, poller, doing>>
      /\ recording[h][u][res] > 0
      /\ owner' = [owner EXCEPT ![u] = NULL]
  BY DEF RecordCompletion, Complete, nodeVars
<1>2. Owned(h, t)
  BY DEF OwnershipInv, WorkIsOwned, Owned
<1>3. /\ recording \in [Hosts -> [Tasks -> [Outcome -> Nat]]]
      /\ recording' = [recording EXCEPT ![h][u][res] = @ - 1]
  BY DEF RecordCompletion, TypeOK
<1>4. \A o \in Outcome : recording'[h][t][o] =
         IF t = u /\ o = res THEN recording[h][t][o] - 1 ELSE recording[h][t][o]
  BY <1>3
<1>5. CASE t = u
  <2>1. Busy(h, t)' = Busy(h, t) - 1
    BY <1>1, <1>4, <1>5, BusyTypes DEF Busy, Pending, Outcome
  <2>2. Busy(h, t) > 0
    BY <1>1, <1>5, BusyTypes DEF Busy, Outcome
  <2>3. Busy(h, t)' = 0
    BY <1>2, <2>1, <2>2, BusyTypes DEF Owned
  <2> QED
    BY <2>3 DEF Owned
<1>6. CASE t # u
  <2>1. Busy(h, t)' = Busy(h, t)
    BY <1>1, <1>4, <1>6, BusyTypes DEF Busy, Pending, Outcome
  <2>2. owner'[t] = owner[t]
    BY <1>1, <1>6 DEF TypeOK
  <2> QED
    BY <1>1, <1>2, <2>1, <2>2 DEF Owned, Live
<1> QED
  BY <1>5, <1>6

\* WorkIsOwned for the node that takes the step.
LEMMA ActorStep ==
    ASSUME TypeOK, TypeOK', OwnershipInv, ~DBErrors, NEW h \in Hosts, Step(h), NEW t \in Tasks
    PROVE  Owned(h, t)'
<1> USE DEF machineVars, taskVars, workVars, nodeVars
<1>1. Owned(h, t)
  BY DEF OwnershipInv, WorkIsOwned, Owned
<1>2. CASE UNCHANGED <<workVars, nodeVars, owner>>
  BY <1>1, <1>2 DEF Owned, Busy, Pending, Live
<1>3. ASSUME UNCHANGED <<doing, recording, proc, ownerID, owner>>, proc[h] # "down",
             poller'[h].pc \in {"scan", "idle", "claim"}
      PROVE  Owned(h, t)'
  BY <1>1, <1>3, LessWork DEF Pending, Live
<1>4. CASE Startup(h)
  <2>1. CASE StartPoller(h)
    <3>1. /\ proc[h] = "recovering" /\ proc'[h] = "up"
          /\ UNCHANGED <<doing, recording, ownerID, owner>>
      BY <2>1 DEF StartPoller, TypeOK
    <3>2. poller'[h].pc = "idle"
      BY <2>1, PollerAfter DEF StartPoller
    <3> QED
      BY <1>1, <3>1, <3>2, LessWork DEF Pending, Live
  <2> QED
    BY <1>4, <2>1, RegisterOwned, RecoverOwned, RefuseOwned DEF Startup
<1>5. CASE Poll(h)
  <2>1. CASE CheckNodeFlags(h)
    <3>1. poller'[h].pc = "scan"
      BY <2>1 DEF CheckNodeFlags, PollerAt, TypeOK
    <3> QED
      BY <1>3, <2>1, <3>1 DEF CheckNodeFlags
  <2>2. CASE RestartNode(h)
    BY <2>2, GoneOwned DEF RestartNode
  <2>3. CASE CleanupMachines(h)
    <3>1. proc[h] = "up" /\ UNCHANGED <<workVars, nodeVars>>
      BY <2>3 DEF CleanupMachines
    <3>2. ASSUME owner[t] = ownerID[h]
          PROVE  owner'[t] = owner[t]
      <4>1. \A f \in Hosts : LooksDead(f) => rowId[f] # owner[t]
        BY <3>1, <3>2 DEF OwnershipInv, LiveIsRegistered, IdsDistinct, LooksDead, Live
      <4> QED
        BY <2>3, <4>1 DEF CleanupMachines, DisownedBy
    <3>3. Busy(h, t)' = Busy(h, t)
      BY <3>1 DEF Busy, Pending
    <3> QED
      BY <1>1, <3>1, <3>2, <3>3 DEF Owned, Live
  <2>4. CASE ConsiderWork(h) \/ SkipHandler(h) \/ IAmBored(h) \/ ClaimNothing(h)
    <3>1. poller'[h].pc \in {"scan", "idle", "claim"}
      BY <2>4, PollerAfter DEF ConsiderWork, SkipHandler, IAmBored, ClaimNothing
    <3> QED
      BY <1>3, <2>4, <3>1 DEF ConsiderWork, SkipHandler, IAmBored, ClaimNothing
  <2> QED
    BY <1>5, <2>1, <2>2, <2>3, <2>4, ClaimOwned, StartOwned DEF Poll
<1>6. CASE Work(h)
  <2>1. ASSUME NEW u \in Tasks, AddTask(h, u)
        PROVE  Owned(h, t)'
    BY <1>2, <2>1 DEF AddTask
  <2>2. ASSUME NEW u \in Tasks, NEW res \in Outcome, CommitUncertain(h, u, res)
        PROVE  FALSE
    BY <2>2 DEF CommitUncertain
  <2> QED
    BY <1>6, <2>1, <2>2, DoReturnsOwned, CompletionOwned DEF Work
<1>7. CASE Environment(h)
  <2>1. CASE Crash(h) \/ ExitProcess(h)
    BY <2>1, GoneOwned DEF Crash, ExitProcess
  <2>2. CASE GracefullyTerminate(h)
    <3>1. /\ proc[h] = "up" /\ proc'[h] = "terminating"
          /\ poller'[h] = poller[h] \/ poller'[h].pc = "idle"
          /\ UNCHANGED <<doing, recording, ownerID, owner>>
      BY <2>2 DEF GracefullyTerminate, TypeOK, Idle, PollerAt
    <3> QED
      BY <1>1, <3>1, LessWork DEF Pending, Live
  <2> QED
    BY <1>2, <1>7, <2>1, <2>2 DEF Environment, Heartbeat, Age, Cordon, Uncordon,
       SetUnschedulable, Restart, AbortRestart, SetRestartRequest
<1> QED
  BY <1>4, <1>5, <1>6, <1>7 DEF Step

LEMMA WorkStep ==
    ASSUME TypeOK, TypeOK', OwnershipInv, ~DBErrors, NEW h \in Hosts, Step(h)
    PROVE  WorkIsOwned'
<1>1. ASSUME NEW g \in Hosts, g # h, NEW t \in Tasks
      PROVE  Owned(g, t)'
  <2>1. /\ proc'[g] = proc[g] /\ ownerID'[g] = ownerID[g] /\ poller'[g] = poller[g]
        /\ doing'[g] = doing[g] /\ recording'[g] = recording[g]
    BY <1>1, LocalStep
  <2>2. Busy(g, t)' = Busy(g, t)
    BY <2>1 DEF Busy, Pending
  <2>3. Live(g) /\ owner[t] = ownerID[g] => owner'[t] = owner[t]
    BY <1>1, KeepsOwn
  <2>4. Owned(g, t)
    BY DEF OwnershipInv, WorkIsOwned, Owned
  <2> QED
    BY <2>1, <2>2, <2>3, <2>4 DEF Owned, Live
<1> QED
  BY <1>1, ActorStep DEF WorkIsOwned, Owned

-----------------------------------------------------------------------------
(* The theorem.                                                            *)

LEMMA OwnershipInit == Init => OwnershipInv
<1> SUFFICES ASSUME Init PROVE OwnershipInv
  OBVIOUS
<1>1. ASSUME NEW h \in Hosts, NEW t \in Tasks
      PROVE  Busy(h, t) = 0
  BY <1>1 DEF Init, Busy, Pending, Idle, PollerAt, NoWork, NoRecord, Outcome
<1>2. IdsDistinct /\ LiveIsRegistered
  BY DEF Init, IdsDistinct, LiveIsRegistered, Live, NULL
<1>3. PhasesMatch
  BY DEF Init, PhasesMatch, Idle, PollerAt
<1>4. WorkIsOwned
  BY <1>1 DEF Init, WorkIsOwned, Live
<1> QED
  BY <1>2, <1>3, <1>4 DEF OwnershipInv

LEMMA OwnershipStep ==
    ASSUME TypeOK, TypeOK', OwnershipInv, ~FalseSuspicion, ~DBErrors, [Next]_vars
    PROVE  OwnershipInv'
<1>1. CASE UNCHANGED vars
  BY <1>1 DEF vars, machineVars, taskVars, workVars, nodeVars, OwnershipInv, IdsDistinct,
     LiveIsRegistered, PhasesMatch, WorkIsOwned, Busy, Pending, Live
<1>2. ASSUME NEW h \in Hosts, Step(h)
      PROVE  OwnershipInv'
  <2>1. IdsDistinct' /\ LiveIsRegistered'
    BY <1>2, IdStep DEF OwnershipInv
  <2>2. PhasesMatch'
    BY <1>2, PhaseStep DEF OwnershipInv
  <2>3. WorkIsOwned'
    BY <1>2, WorkStep
  <2> QED
    BY <2>1, <2>2, <2>3 DEF OwnershipInv
<1> QED
  BY <1>1, <1>2 DEF Next, Step

LEMMA OwnershipImplies == TypeOK /\ OwnershipInv => SingleWriter
<1> SUFFICES ASSUME TypeOK, OwnershipInv, NEW t \in Tasks, NEW g \in Hosts, NEW h \in Hosts,
                    doing[g][t] > 0, StillOwned(g, t), doing[h][t] > 0, StillOwned(h, t)
             PROVE  g = h /\ doing[h][t] = 1
  BY DEF SingleWriter
<1>1. Busy(h, t) <= 1 /\ doing[h][t] <= Busy(h, t)
  BY BusyTypes DEF Busy, OwnershipInv, WorkIsOwned
<1>2. doing[h][t] = 1
  BY <1>1, BusyTypes
<1>3. Busy(g, t) > 0
  BY BusyTypes DEF Busy
<1>4. ownerID[g] = ownerID[h] /\ ownerID[g] # NULL
  <2>1. proc[g] # "down"
    BY <1>3 DEF OwnershipInv, WorkIsOwned
  <2> QED
    BY <2>1 DEF StillOwned, OwnershipInv, LiveIsRegistered
<1> QED
  BY <1>2, <1>4 DEF OwnershipInv, IdsDistinct

\* For any number of nodes, tasks, types and restarts: as long as a live node
\* is never taken for dead and no applied transaction is reported as failed,
\* engines own what they work on, each once.
THEOREM OwnershipHolds ==
    ASSUME ~FalseSuspicion, ~DBErrors
    PROVE  Spec => []OwnershipInv
<1>1. Init => OwnershipInv
  BY OwnershipInit
<1>2. TypeOK /\ TypeOK' /\ OwnershipInv /\ [Next]_vars => OwnershipInv'
  BY OwnershipStep
<1> QED
  BY <1>1, <1>2, TypeCorrect, PTL DEF Spec

\* The promise Do's comment makes about stillOwned, under the same conditions:
\* of all goroutines in Do for a task, at most one gets TRUE.
THEOREM SingleWriterHolds ==
    ASSUME ~FalseSuspicion, ~DBErrors
    PROVE  Spec => []SingleWriter
<1>1. Spec => []OwnershipInv
  BY OwnershipHolds
<1>2. TypeOK /\ OwnershipInv => SingleWriter
  BY OwnershipImplies
<1> QED
  BY <1>1, <1>2, TypeCorrect, PTL

\* The owner's own steps that give a task up.
LEMMA OwnSteps ==
    ASSUME TypeOK, OwnershipInv, ~DBErrors, NEW h \in Hosts, Step(h), Live(h),
           NEW t \in Tasks, owner[t] # NULL, owner[t] = ownerID[h], owner'[t] # owner[t]
    PROVE  \/ RefuseRecovered(h, t)
           \/ StartClaimed(h)
           \/ \E res \in Outcome : RecordCompletion(h, t, res)
<1> USE DEF machineVars, taskVars, workVars, nodeVars
<1>1. owner' # owner
  OBVIOUS
<1>2. ASSUME NEW u \in Tasks, owner' = [owner EXCEPT ![u] = NULL]
      PROVE  u = t
  BY <1>2 DEF TypeOK
<1>3. CASE Startup(h)
  <2>1. ~Register(h)
    BY DEF Register, Live
  <2>2. ASSUME NEW u \in Tasks, RefuseRecovered(h, u)
        PROVE  u = t
    BY <1>1, <1>2, <2>2 DEF RefuseRecovered
  <2> QED
    BY <1>1, <1>3, <2>1, <2>2 DEF Startup, StartPoller, RecoverTask
<1>4. CASE Poll(h)
  <2>1. ~CleanupMachines(h)
    <3>1. \A f \in Hosts : LooksDead(f) => rowId[f] # owner[t]
      BY DEF OwnershipInv, LiveIsRegistered, IdsDistinct, LooksDead
    <3> QED
      BY <3>1 DEF CleanupMachines, DisownedBy
  <2>2. ~Claim(h)
    BY ClaimPoller
  <2> QED
    BY <1>1, <1>4, <2>1, <2>2 DEF Poll, CheckNodeFlags, RestartNode, ConsiderWork,
       SkipHandler, IAmBored, ClaimNothing
<1>5. CASE Work(h)
  <2>1. ASSUME NEW u \in Tasks, NEW res \in Outcome, RecordCompletion(h, u, res)
        PROVE  u = t
    BY <1>2, <2>1 DEF RecordCompletion, Complete
  <2> QED
    BY <1>1, <1>5, <2>1 DEF Work, AddTask, DoReturns, CommitUncertain
<1>6. ~Environment(h)
  BY <1>1 DEF Environment, Heartbeat, Age, Cordon, Uncordon, SetUnschedulable,
     Restart, AbortRestart, SetRestartRequest, Crash, ExitProcess, GracefullyTerminate
<1> QED
  BY <1>3, <1>4, <1>5, <1>6 DEF Step

\* No step of the cluster takes a task from a live owner, except the owner's
\* own refusal, storage give-back or completion.
THEOREM NobodySteals ==
    ASSUME ~FalseSuspicion, ~DBErrors
    PROVE  Spec => NoTheft
<1> DEFINE Mine == \A h \in Hosts, t \in Tasks :
                      /\ Live(h)
                      /\ owner[t] # NULL /\ owner[t] = ownerID[h]
                      /\ owner'[t] # owner[t]
                      => \/ RefuseRecovered(h, t)
                         \/ StartClaimed(h)
                         \/ \E res \in Outcome : RecordCompletion(h, t, res)
<1>1. TypeOK /\ OwnershipInv /\ [Next]_vars => [Mine]_vars
  <2> SUFFICES ASSUME TypeOK, OwnershipInv, NEW f \in Hosts, Step(f)
               PROVE  Mine
    BY DEF Next, Step
  <2> SUFFICES ASSUME NEW h \in Hosts, NEW t \in Tasks, Live(h),
                      owner[t] # NULL, owner[t] = ownerID[h], owner'[t] # owner[t]
               PROVE  \/ RefuseRecovered(h, t)
                      \/ StartClaimed(h)
                      \/ \E res \in Outcome : RecordCompletion(h, t, res)
    OBVIOUS
  <2>1. f = h
    BY KeepsOwn
  <2> QED
    BY <2>1, OwnSteps
<1>2. Spec => []OwnershipInv
  BY OwnershipHolds
<1> QED
  BY <1>1, <1>2, TypeCorrect, PTL DEF Spec, NoTheft

\* restartIfNoTasksPending exits only a process that works on nothing, neither in
\* Do nor in recordCompletion, though it asks the table and not the engine.
THEOREM RestartsAreIdle ==
    ASSUME ~FalseSuspicion, ~DBErrors
    PROVE  Spec => RestartIsIdle
<1> DEFINE AtRest == \A h \in Hosts : RestartNode(h) => \A t \in Tasks : Busy(h, t) = 0
<1>1. TypeOK /\ OwnershipInv => AtRest
  <2> SUFFICES ASSUME TypeOK, OwnershipInv, NEW h \in Hosts, RestartNode(h), NEW t \in Tasks
               PROVE  Busy(h, t) = 0
    OBVIOUS
  <2>1. Live(h) /\ owner[t] # ownerID[h]
    BY DEF RestartNode, NoTasksPending, Live
  <2>2. ~(Busy(h, t) > 0)
    BY <2>1 DEF OwnershipInv, WorkIsOwned
  <2> QED
    BY <2>2, BusyTypes
<1>2. Spec => []OwnershipInv
  BY OwnershipHolds
<1>3. [](TypeOK /\ OwnershipInv) => [][AtRest]_vars
  BY <1>1, PTL
<1> QED
  BY <1>2, <1>3, TypeCorrect, PTL DEF RestartIsIdle

-----------------------------------------------------------------------------
(* No task is stranded, even when live nodes are taken for dead.           *)

\* NoStrandedTask for one node and one task.
Attended(h, t) == Live(h) /\ owner[t] # NULL /\ owner[t] = ownerID[h] => Busy(h, t) > 0

StrandInv == IdsDistinct /\ PhasesMatch /\ NoStrandedTask

\* A step that keeps the goroutines of a task and gives the node no task.
LEMMA AttendedKept ==
    ASSUME TypeOK, NEW h \in Hosts, NEW t \in Tasks, Attended(h, t), Live(h)' => Live(h),
           ownerID'[h] = ownerID[h], owner'[t] \in {owner[t], NULL},
           doing'[h][t] = doing[h][t], recording'[h][t] = recording[h][t], Pending(h, t) => Pending(h, t)'
    PROVE  Attended(h, t)'
<1>1. Busy(h, t)' = IF Pending(h, t)' THEN doing[h][t] + recording[h][t]["done"] + recording[h][t]["failed"] + 1
                                      ELSE doing[h][t] + recording[h][t]["done"] + recording[h][t]["failed"]
  BY BusyTypes DEF Busy
<1>2. Busy(h, t) > 0 => Busy(h, t)' > 0
  BY <1>1, BusyTypes DEF Busy
<1> QED
  BY <1>2 DEF Attended

\* A restarted process looks after every task of its machine id, and a new id
\* has none.
LEMMA RegisterAttends ==
    ASSUME TypeOK, StrandInv, NEW h \in Hosts, NEW t \in Tasks, Register(h)
    PROVE  Attended(h, t)'
<1> DEFINE id == IF rowId[h] # NULL THEN rowId[h] ELSE boots + 1
           dead == {g \in Hosts \ {h} : LooksDead(g)}
<1>1. /\ ownerID'[h] = id /\ doing' = doing /\ recording' = recording
      /\ poller'[h].pc = "recover" /\ poller'[h].cand = {u \in Tasks : owner[u] = id}
      /\ owner' = DisownedBy(dead)
  BY DEF Register, TypeOK, PollerAt, workVars
<1>2. owner'[t] \in {owner[t], NULL}
  BY <1>1 DEF DisownedBy
<1>3. owner'[t] # NULL /\ owner'[t] = ownerID'[h] => Pending(h, t)'
  BY <1>1, <1>2 DEF Pending
<1>4. Pending(h, t)' => Busy(h, t)' > 0
  BY <1>1, BusyTypes DEF Busy
<1> QED
  BY <1>3, <1>4 DEF Attended

\* The node that takes the step keeps attending its tasks.
LEMMA ActorAttends ==
    ASSUME TypeOK, TypeOK', StrandInv, ~DBErrors, NEW h \in Hosts, Step(h), NEW t \in Tasks
    PROVE  Attended(h, t)'
<1> USE DEF machineVars, taskVars, workVars, nodeVars
<1>0. Attended(h, t)
  BY DEF StrandInv, NoStrandedTask, Attended
<1>1. CASE UNCHANGED <<workVars, nodeVars>> /\ owner'[t] \in {owner[t], NULL}
  BY <1>0, <1>1, AttendedKept DEF Live, Pending
<1>2. ASSUME UNCHANGED <<doing, recording, proc, ownerID, owner>>, ~Pending(h, t)
      PROVE  Attended(h, t)'
  BY <1>0, <1>2, AttendedKept DEF Live
<1>3. CASE proc'[h] \in {"down", "terminating"}
  BY <1>3 DEF Attended, Live
<1>4. CASE Startup(h)
  <2>1. CASE StartPoller(h)
    <3>1. Live(h) /\ UNCHANGED <<doing, recording, ownerID, owner>> /\ ~Pending(h, t)
      BY <2>1 DEF StartPoller, Live, Pending
    <3> QED
      BY <1>0, <3>1, AttendedKept
  <2>2. ASSUME NEW u \in Tasks, RecoverTask(h, u)
        PROVE  Attended(h, t)'
    <3>1. /\ proc[h] = "recovering" /\ u \in poller[h].cand
          /\ UNCHANGED <<proc, ownerID, owner, recording>>
          /\ poller'[h].pc = poller[h].pc /\ poller'[h].cand = poller[h].cand \ {u}
      BY <2>2, PollerAfter DEF RecoverTask, StartWork
    <3>2. doing'[h][t] = IF t = u THEN doing[h][t] + 1 ELSE doing[h][t]
      BY <2>2 DEF RecoverTask, StartWork, TypeOK
    <3>3. poller[h].pc = "recover"
      BY <3>1 DEF StrandInv, PhasesMatch
    <3>4. Pending(h, u) /\ ~Pending(h, u)' /\ (t # u => Pending(h, t)' = Pending(h, t))
      BY <3>1, <3>3 DEF Pending
    <3>5. CASE t = u
      BY <3>1, <3>2, <3>4, <3>5, BusyTypes DEF Attended, Busy
    <3>6. CASE t # u
      BY <1>0, <3>1, <3>2, <3>4, <3>6, AttendedKept DEF Live
    <3> QED
      BY <3>5, <3>6
  <2>3. ASSUME NEW u \in Tasks, RefuseRecovered(h, u)
        PROVE  Attended(h, t)'
    <3>1. /\ proc[h] = "recovering" /\ UNCHANGED <<proc, ownerID, doing, recording>>
          /\ poller'[h].pc = poller[h].pc /\ poller'[h].cand = poller[h].cand \ {u}
      BY <2>3, PollerAfter DEF RefuseRecovered
    <3>2. CASE t = u
      <4>1. owner'[t] = NULL \/ (owner[t] # ownerID[h] /\ owner'[t] = owner[t])
        BY <2>3, <3>2 DEF RefuseRecovered, TypeOK
      <4> QED
        BY <3>1, <4>1 DEF Attended
    <3>3. CASE t # u
      <4>1. owner'[t] = owner[t]
        BY <2>3, <3>3 DEF RefuseRecovered, TypeOK
      <4> QED
        BY <1>0, <3>1, <3>3, <4>1, AttendedKept DEF Live, Pending
    <3> QED
      BY <3>2, <3>3
  <2> QED
    BY <1>4, <2>1, <2>2, <2>3, RegisterAttends DEF Startup
<1>5. CASE Poll(h)
  <2>1. CASE RestartNode(h)
    BY <1>3, <2>1 DEF RestartNode, ProcessGone, TypeOK
  <2>2. CASE CleanupMachines(h)
    BY <1>1, <2>2 DEF CleanupMachines, DisownedBy
  <2>3. CASE CheckNodeFlags(h) \/ ConsiderWork(h) \/ SkipHandler(h) \/ IAmBored(h) \/ ClaimNothing(h)
    BY <1>2, <2>3 DEF CheckNodeFlags, ConsiderWork, SkipHandler, IAmBored, ClaimNothing, Pending
  <2>4. CASE Claim(h)
    <3>1. proc[h] = "up" /\ poller[h].pc = "claim" /\ UNCHANGED <<proc, ownerID, doing, recording>>
      BY <2>4 DEF Claim
    <3>2. PICK acc \in SUBSET Tasks :
             /\ \A u \in Tasks : owner'[u] = IF u \in acc THEN ownerID[h] ELSE owner[u]
             /\ poller'[h].pc = "claimed" /\ poller'[h].cand = acc
      BY <2>4, ClaimPoller
    <3>3. CASE t \in acc
      BY <3>1, <3>2, <3>3, BusyTypes DEF Attended, Busy, Pending
    <3>4. CASE t \notin acc
      BY <1>0, <3>1, <3>2, <3>4, AttendedKept DEF Live, Pending
    <3> QED
      BY <3>3, <3>4
  <2>5. CASE StartClaimed(h)
    <3>1. /\ proc[h] \in {"up", "terminating"} /\ poller[h].pc = "claimed"
          /\ UNCHANGED <<proc, ownerID>> /\ poller'[h].pc \in {"scan", "idle"}
      BY <2>5, PollerAfter DEF StartClaimed
    <3>2. PICK bad \in SUBSET poller[h].cand :
             /\ StartWork(h, Handler(h), poller[h].cand \ bad)
             /\ \/ owner' = [u \in Tasks |-> IF u \in bad THEN NULL ELSE owner[u]]
                \/ proc[h] = "terminating" /\ UNCHANGED owner
      BY <2>5 DEF StartClaimed
    <3>3. /\ doing'[h][t] = IF t \in poller[h].cand \ bad THEN doing[h][t] + 1 ELSE doing[h][t]
          /\ recording' = recording
      BY <3>2 DEF StartWork, TypeOK
    <3>4. CASE proc[h] = "up" /\ t \notin bad
      <4>1. Busy(h, t)' = Busy(h, t)
        BY <3>1, <3>3, <3>4, BusyTypes DEF Busy, Pending
      <4> QED
        BY <1>0, <3>1, <3>2, <3>4, <4>1 DEF Attended, Live
    <3> QED
      BY <1>3, <3>1, <3>2, <3>4 DEF Attended
  <2> QED
    BY <1>5, <2>1, <2>2, <2>3, <2>4, <2>5 DEF Poll
<1>6. CASE Work(h)
  <2>1. ASSUME NEW u \in Tasks, AddTask(h, u)
        PROVE  Attended(h, t)'
    BY <1>1, <2>1 DEF AddTask
  <2>2. ASSUME NEW u \in Tasks, NEW res \in Outcome, DoReturns(h, u, res)
        PROVE  Attended(h, t)'
    <3>1. UNCHANGED <<proc, ownerID, poller, owner>>
      BY <2>2 DEF DoReturns
    <3>2. Busy(h, t)' = Busy(h, t)
      BY <2>2, DoReturnsBusy
    <3> QED
      BY <1>0, <3>1, <3>2 DEF Attended, Live
  <2>3. ASSUME NEW u \in Tasks, NEW res \in Outcome, RecordCompletion(h, u, res)
        PROVE  Attended(h, t)'
    <3>1. UNCHANGED <<proc, ownerID, poller, doing>> /\ owner' = [owner EXCEPT ![u] = NULL]
      BY <2>3 DEF RecordCompletion, Complete
    <3>2. CASE t = u
      BY <3>1, <3>2 DEF Attended, TypeOK
    <3>3. CASE t # u
      <4>1. recording'[h][t] = recording[h][t] /\ owner'[t] = owner[t]
        BY <2>3, <3>1, <3>3 DEF RecordCompletion, TypeOK
      <4> QED
        BY <1>0, <3>1, <4>1, AttendedKept DEF Live, Pending
    <3> QED
      BY <3>2, <3>3
  <2>4. ASSUME NEW u \in Tasks, NEW res \in Outcome, CommitUncertain(h, u, res)
        PROVE  FALSE
    BY <2>4 DEF CommitUncertain
  <2> QED
    BY <1>6, <2>1, <2>2, <2>3, <2>4 DEF Work
<1>7. CASE Environment(h)
  <2>1. CASE Crash(h) \/ ExitProcess(h) \/ GracefullyTerminate(h)
    BY <1>3, <2>1 DEF Crash, ExitProcess, GracefullyTerminate, ProcessGone, TypeOK
  <2> QED
    BY <1>1, <1>7, <2>1 DEF Environment, Heartbeat, Age, Cordon, Uncordon,
       SetUnschedulable, Restart, AbortRestart, SetRestartRequest
<1> QED
  BY <1>4, <1>5, <1>6, <1>7 DEF Step

\* A step takes tasks from their owners or gives them to the node that takes it.
LEMMA OwnersAfter ==
    ASSUME TypeOK, NEW h \in Hosts, Step(h), NEW t \in Tasks
    PROVE  owner'[t] \in {owner[t], NULL, ownerID[h]}
<1> USE DEF machineVars, taskVars, workVars, nodeVars
<1>1. CASE UNCHANGED owner
  BY <1>1
<1>2. ASSUME NEW u \in Tasks, owner' = [owner EXCEPT ![u] = NULL]
      PROVE  owner'[t] \in {owner[t], NULL}
  BY <1>2 DEF TypeOK
<1>3. CASE Startup(h)
  BY <1>1, <1>2, <1>3 DEF Startup, Register, DisownedBy, StartPoller, RecoverTask, RefuseRecovered
<1>4. CASE Poll(h)
  <2>1. CASE Claim(h) \/ StartClaimed(h) \/ CleanupMachines(h)
    BY <2>1 DEF Claim, StartClaimed, CleanupMachines, DisownedBy
  <2> QED
    BY <1>1, <1>4, <2>1 DEF Poll, CheckNodeFlags, RestartNode, ConsiderWork, SkipHandler, IAmBored, ClaimNothing
<1>5. CASE Work(h)
  BY <1>1, <1>2, <1>5 DEF Work, AddTask, DoReturns, RecordCompletion, CommitUncertain, Complete
<1>6. CASE Environment(h)
  BY <1>1, <1>6 DEF Environment, Heartbeat, Age, Cordon, Uncordon, SetUnschedulable,
     Restart, AbortRestart, SetRestartRequest, Crash, ExitProcess, GracefullyTerminate
<1> QED
  BY <1>3, <1>4, <1>5, <1>6 DEF Step

\* A step of another node gives this one no task: ids are not shared.
LEMMA OtherAttends ==
    ASSUME TypeOK, StrandInv, NEW h \in Hosts, Step(h), NEW g \in Hosts, g # h, NEW t \in Tasks
    PROVE  Attended(g, t)'
<1>1. /\ proc'[g] = proc[g] /\ ownerID'[g] = ownerID[g] /\ poller'[g] = poller[g]
      /\ doing'[g] = doing[g] /\ recording'[g] = recording[g]
  BY LocalStep
<1>2. Attended(g, t)
  BY DEF StrandInv, NoStrandedTask, Attended
<1>3. owner'[t] \in {owner[t], NULL, ownerID[h]}
  BY OwnersAfter
<1>4. owner'[t] # NULL /\ owner'[t] = ownerID[g] => owner'[t] = owner[t]
  BY <1>3 DEF StrandInv, IdsDistinct
<1>5. CASE owner'[t] \in {owner[t], NULL}
  BY <1>1, <1>2, <1>5, AttendedKept DEF Live, Pending
<1> QED
  BY <1>1, <1>4, <1>5 DEF Attended

\* As long as no applied transaction is reported as failed, a task that is
\* assigned to a live engine is being looked after by it: no crash, recovery,
\* lost claim, refused storage or clean-up, not even one that takes live nodes
\* for dead, leaves a task behind that its owner has forgotten.
THEOREM NoTaskIsStranded ==
    ASSUME ~DBErrors
    PROVE  Spec => []NoStrandedTask
<1>1. Init => StrandInv
  BY OwnershipInit DEF Init, StrandInv, OwnershipInv, NoStrandedTask
<1>2. TypeOK /\ TypeOK' /\ StrandInv /\ [Next]_vars => StrandInv'
  <2> SUFFICES ASSUME TypeOK, TypeOK', StrandInv, [Next]_vars
               PROVE  StrandInv'
    OBVIOUS
  <2>1. CASE UNCHANGED vars
    BY <2>1 DEF vars, machineVars, taskVars, workVars, nodeVars, StrandInv, IdsDistinct,
       PhasesMatch, NoStrandedTask, Busy, Pending, Live
  <2>2. ASSUME NEW h \in Hosts, Step(h)
        PROVE  StrandInv'
    <3>1. IdsDistinct' /\ PhasesMatch'
      BY <2>2, IdStep, PhaseStep DEF StrandInv
    <3>2. \A g \in Hosts, t \in Tasks : Attended(g, t)'
      BY <2>2, ActorAttends, OtherAttends
    <3>3. NoStrandedTask'
      BY <3>2 DEF NoStrandedTask, Attended
    <3> QED
      BY <3>1, <3>3 DEF StrandInv
  <2> QED
    BY <2>1, <2>2 DEF Next, Step
<1>3. StrandInv => NoStrandedTask
  BY DEF StrandInv
<1> QED
  BY <1>1, <1>2, <1>3, TypeCorrect, PTL DEF Spec

-----------------------------------------------------------------------------
(* Capacity: what a node runs fits its machine and its limiters.           *)

\* The tasks of a type.
OfType(ty) == {t \in Tasks : TypeOf[t] = ty}

\* Running, as a function of the goroutines of one node.
RunningOf(d) == [ty \in Types |-> SumFunctionOnSet(d, OfType(ty))]

\* A type has finitely many tasks.
LEMMA OfTypeFinite == \A ty : IsFiniteSet(OfType(ty))
<1>1. \A ty : OfType(ty) \in SUBSET Tasks
  BY DEF OfType
<1> QED
  BY <1>1, HarmonyAssumption, FS_Subset DEF HarmonyAssumption

\* A node runs a natural number of goroutines of each type.
LEMMA RunningType ==
    ASSUME NEW d \in [Tasks -> Nat]
    PROVE  RunningOf(d) \in Counts
<1>1. ASSUME NEW ty \in Types
      PROVE  SumFunctionOnSet(d, OfType(ty)) \in Nat
  <2>1. PICK S : S = OfType(ty)
    OBVIOUS
  <2>2. IsFiniteSet(S) /\ \A t \in S : d[t] \in Nat
    BY <2>1, OfTypeFinite DEF OfType
  <2> QED
    BY <2>1, <2>2, SumNat
<1> QED
  BY <1>1 DEF RunningOf, Counts

\* One more goroutine for each task of ts.
Started(more, d, ts) == more = [t \in Tasks |-> IF t \in ts THEN d[t] + 1 ELSE d[t]]

\* Running counts what Max.Add(len(ts)) counts.
LEMMA RunningMore ==
    ASSUME NEW d \in [Tasks -> Nat], NEW ty \in Types, NEW ts \in SUBSET OfType(ty),
           NEW more, Started(more, d, ts)
    PROVE  Added(RunningOf(more), RunningOf(d), ty, Cardinality(ts))
<1>1. ASSUME NEW o \in Types
      PROVE  SumFunctionOnSet(more, OfType(o)) =
                IF o = ty THEN SumFunctionOnSet(d, OfType(o)) + Cardinality(ts) ELSE SumFunctionOnSet(d, OfType(o))
  <2>1. PICK S : S = OfType(o)
    OBVIOUS
  <2>2. IsFiniteSet(S) /\ S \subseteq Tasks /\ (\A t \in S : d[t] \in Int)
    <3>1. IsFiniteSet(S)
      BY <2>1, OfTypeFinite
    <3>2. S \subseteq Tasks
      BY <2>1 DEF OfType
    <3> QED
      BY <3>1, <3>2
  <2>3. CASE o = ty
    <3>1. ts \in SUBSET S /\ \A t \in S : more[t] = IF t \in ts THEN d[t] + 1 ELSE d[t]
      BY <2>1, <2>2, <2>3 DEF Started
    <3>2. SumFunctionOnSet(more, S) = SumFunctionOnSet(d, S) + Cardinality(ts)
      BY <2>2, <3>1, SumGrows
    <3> QED
      BY <2>1, <2>3, <3>2
  <2>4. CASE o # ty
    <3>1. \A t \in S : more[t] = d[t]
      BY <2>1, <2>4 DEF Started, OfType
    <3>2. SumFunctionOnSet(d, S) = SumFunctionOnSet(more, S)
      BY <2>2, <3>1, SumSame
    <3> QED
      BY <2>1, <2>4, <3>2
  <2> QED
    BY <2>3, <2>4
<1> QED
  BY <1>1 DEF Added, RunningOf

\* The invariant, for the goroutines d in Do, the counters act and the poller p
\* of one node: the counters are exact; what is proposed or claimed is of the
\* handler's type; while a claim is being prepared the node uses no more than
\* was seen and that fitted; and after the claim there is room for all of it.
HostFits(d, act, p) ==
    /\ act = RunningOf(d)
    /\ Fits(act)
    /\ p.pc \in {"claim", "claimed"} => p.cand # {} /\ \A t \in p.cand : TypeOf[t] = Handlers[p.i]
    /\ p.pc = "claim" =>
          /\ p.seen \in Counts
          /\ \A r \in Resource : Used(act, r) <= Used(p.seen, r) /\ Used(p.seen, r) <= Machine[r]
    /\ p.pc = "claimed" => RoomFor(act, Handlers[p.i], Cardinality(p.cand))

CapacityInv == \A h \in Hosts : HostFits(doing[h], active[h], poller[h])

\* A process that has just started fits.
LEMMA NothingFits == HostFits(NoWork, NoneActive, Idle)
<1>1. NoneActive = RunningOf(NoWork)
  <2>1. ASSUME NEW ty \in Types
        PROVE  SumFunctionOnSet(NoWork, OfType(ty)) = 0
    <3>1. \A t \in OfType(ty) : NoWork[t] = 0
      BY DEF OfType, NoWork
    <3> QED
      BY <3>1, OfTypeFinite, SumZero
  <2> QED
    BY <2>1 DEF RunningOf, NoneActive
<1>2. ASSUME NEW r \in Resource
      PROVE  Used(NoneActive, r) <= Machine[r]
  <2>1. PICK f : f = [ty \in Types |-> NoneActive[ty] * Cost[ty][r]]
    OBVIOUS
  <2>2. \A ty \in Types : f[ty] = 0
    BY <2>1, CapacityTypes DEF NoneActive
  <2>3. Used(NoneActive, r) = SumFunctionOnSet(f, Types)
    BY <2>1 DEF Used, SumFunction
  <2>4. Used(NoneActive, r) = 0
    BY <2>2, <2>3, TypesFinite, SumZero
  <2> QED
    BY <2>4, CapacityTypes
<1>3. ASSUME NEW ty \in Types
      PROVE  Active(NoneActive, ty) = 0
  <2>1. \A o \in SameLimiter(ty) : NoneActive[o] = 0
    BY DEF SameLimiter, NoneActive
  <2>2. Active(NoneActive, ty) = SumFunctionOnSet(NoneActive, SameLimiter(ty))
    BY DEF Active, SameLimiter
  <2> QED
    BY <2>1, <2>2, TypesFinite, SumZero
<1>4. Fits(NoneActive)
  BY <1>2, <1>3, CapacityTypes DEF Fits
<1>5. Idle.pc = "idle"
  BY DEF Idle, PollerAt
<1> QED
  BY <1>1, <1>4, <1>5 DEF HostFits

\* Max.Add(len(ts)) when there is room for ts.
LEMMA StartFits ==
    ASSUME NEW d \in [Tasks -> Nat], NEW act, NEW p, HostFits(d, act, p),
           NEW ty \in Types, NEW ts \in SUBSET OfType(ty), RoomFor(act, ty, Cardinality(ts)),
           NEW d2, Started(d2, d, ts), NEW act2, Added(act2, act, ty, Cardinality(ts)),
           NEW q, q.pc \notin {"claim", "claimed"}
    PROVE  HostFits(d2, act2, q)
<1>1. act = RunningOf(d) /\ Fits(act)
  BY DEF HostFits
<1>2. act \in Counts
  BY <1>1, RunningType
<1>3. IsFiniteSet(ts)
  BY OfTypeFinite, FS_Subset
<1>4. Cardinality(ts) \in Nat
  BY <1>3, FS_CardinalityType
<1>5. Fits(act2)
  BY <1>1, <1>2, <1>4, MoreFits
<1>6. Added(RunningOf(d2), RunningOf(d), ty, Cardinality(ts))
  BY RunningMore
<1>7. act2 = RunningOf(d2)
  BY <1>1, <1>6 DEF Added
<1> QED
  BY <1>5, <1>7 DEF HostFits

\* Max.Add(-1) when a Do returns, whatever the poller is about to do.
LEMMA ReturnFits ==
    ASSUME NEW d \in [Tasks -> Nat], NEW act, NEW p \in PollerState, HostFits(d, act, p),
           NEW t \in Tasks, d[t] > 0, NEW d2, d2 = [d EXCEPT ![t] = @ - 1],
           NEW act2, act2 = [act EXCEPT ![TypeOf[t]] = @ - 1]
    PROVE  HostFits(d2, act2, p)
<1>1. act = RunningOf(d) /\ Fits(act)
  BY DEF HostFits
<1>2. PICK ty \in Types : ty = TypeOf[t]
  BY HarmonyAssumption DEF HarmonyAssumption
<1>3. d2 \in [Tasks -> Nat]
  OBVIOUS
<1>4. PICK less : less = RunningOf(d2)
  OBVIOUS
<1>5. less \in Counts
  BY <1>3, <1>4, RunningType
<1>6. Added(act, less, ty, 1)
  <2>1. Started(d, d2, {t})
    BY DEF Started
  <2>2. {t} \in SUBSET OfType(ty)
    BY <1>2 DEF OfType
  <2>3. Added(RunningOf(d), RunningOf(d2), ty, Cardinality({t}))
    BY <1>3, <2>1, <2>2, RunningMore
  <2>4. Cardinality({t}) = 1
    BY FS_Singleton
  <2> QED
    BY <1>1, <1>4, <2>3, <2>4
<1>7. act2 = less
  BY <1>2, <1>5, <1>6 DEF Added, Counts
<1>8. /\ \A r \in Resource : Used(less, r) \in Int /\ Used(act, r) \in Int /\ Used(less, r) <= Used(act, r)
      /\ Fits(less)
      /\ \A o \in Types, k \in Nat : RoomFor(act, o, k) => RoomFor(less, o, k)
  BY <1>1, <1>5, <1>6, Fewer, FewerFits
<1>9. p.pc = "claim" => \A r \in Resource : Used(less, r) <= Used(p.seen, r) /\ Used(p.seen, r) <= Machine[r]
  <2> SUFFICES ASSUME p.pc = "claim", NEW r \in Resource
               PROVE  Used(less, r) <= Used(p.seen, r) /\ Used(p.seen, r) <= Machine[r]
    OBVIOUS
  <2>1. p.seen \in Counts /\ Used(act, r) <= Used(p.seen, r) /\ Used(p.seen, r) <= Machine[r]
    BY DEF HostFits
  <2>2. Used(p.seen, r) \in Int
    BY <2>1, CountTypes
  <2> QED
    BY <1>8, <2>1, <2>2
<1>10. p.pc = "claimed" => RoomFor(less, Handlers[p.i], Cardinality(p.cand))
  <2> SUFFICES ASSUME p.pc = "claimed"
               PROVE  RoomFor(less, Handlers[p.i], Cardinality(p.cand))
    OBVIOUS
  <2>1. p.cand \in SUBSET Tasks /\ p.cand # {} /\ \A u \in p.cand : TypeOf[u] = Handlers[p.i]
    BY DEF HostFits, PollerState
  <2>2. Handlers[p.i] \in Types
    BY <2>1, HarmonyAssumption DEF HarmonyAssumption
  <2>3. IsFiniteSet(p.cand)
    BY <2>1, HarmonyAssumption, FS_Subset DEF HarmonyAssumption
  <2>4. Cardinality(p.cand) \in Nat
    BY <2>3, FS_CardinalityType
  <2>5. RoomFor(act, Handlers[p.i], Cardinality(p.cand))
    BY DEF HostFits
  <2> QED
    BY <1>8, <2>2, <2>4, <2>5
<1> QED
  BY <1>4, <1>7, <1>8, <1>9, <1>10 DEF HostFits

\* Proposing work: considerWork remembers what it has seen.
LEMMA ProposeFits ==
    ASSUME TypeOK, CapacityInv, NEW h \in Hosts, NEW cand \in SUBSET Tasks, cand # {},
           \A t \in cand : TypeOf[t] = Handler(h), Propose(h, cand),
           UNCHANGED <<active, doing>>
    PROVE  HostFits(doing'[h], active'[h], poller'[h])
<1>1. poller[h] \in PollerState /\ poller \in [Hosts -> PollerState] /\ doing[h] \in [Tasks -> Nat]
  BY DEF TypeOK
<1>2. HostFits(doing[h], active[h], poller[h])
  BY DEF CapacityInv
<1>3. /\ poller'[h].pc = "claim" /\ poller'[h].cand = cand
      /\ poller'[h].seen = active[h] /\ poller'[h].i = poller[h].i
  BY <1>1 DEF Propose, PollerState
<1>4. PICK q : q = poller'[h]
  OBVIOUS
<1>5. active[h] = RunningOf(doing[h]) /\ Fits(active[h])
  BY <1>2 DEF HostFits
<1>6. active[h] \in Counts
  BY <1>1, <1>5, RunningType
<1>7. \A r \in Resource : Used(active[h], r) <= Used(active[h], r) /\ Used(active[h], r) <= Machine[r]
  BY <1>5, <1>6, CountTypes DEF Fits
<1>8. HostFits(doing[h], active[h], q)
  BY <1>3, <1>4, <1>5, <1>6, <1>7 DEF HostFits, Handler
<1> QED
  BY <1>4, <1>8

\* A claim: at most MaxAcceptable tasks of the handler's type.
LEMMA ClaimFits ==
    ASSUME TypeOK, CapacityInv, NEW h \in Hosts, Claim(h)
    PROVE  HostFits(doing'[h], active'[h], poller'[h])
<1>1. poller[h] \in PollerState /\ poller \in [Hosts -> PollerState] /\ doing[h] \in [Tasks -> Nat]
  BY DEF TypeOK
<1>2. HostFits(doing[h], active[h], poller[h]) /\ poller[h].pc = "claim"
  BY DEF CapacityInv, Claim
<1>3. active[h] = RunningOf(doing[h]) /\ Fits(active[h])
  BY <1>2 DEF HostFits
<1>4. active[h] \in Counts
  BY <1>1, <1>3, RunningType
<1>5. UNCHANGED <<active, doing>>
  BY DEF Claim, workVars
<1>6. PICK acc : /\ acc \in SUBSET poller[h].cand /\ acc # {}
                 /\ Cardinality(acc) <= MaxAcceptable(poller[h].seen, active[h], Handler(h))
                 /\ \/ poller' = [poller EXCEPT ![h] = [@ EXCEPT !.pc = "claimed", !.cand = acc]]
                    \/ Decline(h)
  BY DEF Claim
<1>7. CASE Decline(h)
  <2>1. poller'[h].pc \in {"scan", "idle"}
    BY <1>7, PollerAfter
  <2> QED
    BY <1>3, <1>5, <2>1 DEF HostFits
<1>8. CASE poller' = [poller EXCEPT ![h] = [@ EXCEPT !.pc = "claimed", !.cand = acc]]
  <2>1. /\ poller'[h].pc = "claimed" /\ poller'[h].cand = acc /\ poller'[h].i = poller[h].i
    BY <1>1, <1>8 DEF PollerState
  <2>2. /\ poller[h].cand \in SUBSET Tasks /\ poller[h].seen \in Counts
        /\ \A t \in acc : TypeOf[t] = Handler(h)
        /\ \A r \in Resource : /\ Used(active[h], r) <= Used(poller[h].seen, r)
                               /\ Used(poller[h].seen, r) <= Machine[r]
    BY <1>1, <1>2, <1>6 DEF HostFits, Handler, PollerState
  <2>3. Handler(h) \in Types
    BY <1>6, <2>2, HarmonyAssumption DEF HarmonyAssumption
  <2>4. IsFiniteSet(acc)
    BY <1>6, <2>2, HarmonyAssumption, FS_Subset DEF HarmonyAssumption
  <2>5. Cardinality(acc) \in Nat
    BY <2>4, FS_CardinalityType
  <2>6. RoomFor(active[h], Handler(h), Cardinality(acc))
    BY <1>3, <1>4, <1>6, <2>2, <2>3, <2>5, RoomForClaim
  <2>7. PICK q : q = poller'[h]
    OBVIOUS
  <2>8. HostFits(doing[h], active[h], q)
    BY <1>3, <1>6, <2>1, <2>2, <2>6, <2>7 DEF HostFits, Handler
  <2> QED
    BY <1>5, <2>7, <2>8
<1> QED
  BY <1>6, <1>7, <1>8

\* The start of a recovered task.
LEMMA RecoverFits ==
    ASSUME TypeOK, PhasesMatch, CapacityInv, NEW h \in Hosts, NEW t \in Tasks, RecoverTask(h, t)
    PROVE  HostFits(doing'[h], active'[h], poller'[h])
<1>1. doing[h] \in [Tasks -> Nat] /\ doing \in [Hosts -> [Tasks -> Nat]] /\ active \in [Hosts -> [Types -> Int]]
  BY DEF TypeOK
<1>2. HostFits(doing[h], active[h], poller[h])
  BY DEF CapacityInv
<1>3. active[h] = RunningOf(doing[h]) /\ Fits(active[h])
  BY <1>2 DEF HostFits
<1>4. active[h] \in Counts
  BY <1>1, <1>3, RunningType
<1>5. PICK ty \in Types : ty = TypeOf[t]
  BY HarmonyAssumption DEF HarmonyAssumption
<1>6. ~OutOfCapacity(active[h], ty) /\ StartWork(h, ty, {t}) /\ Recovered(h, t) /\ proc[h] = "recovering"
  BY <1>5 DEF RecoverTask
<1>7. {t} \in SUBSET OfType(ty) /\ Cardinality({t}) = 1
  BY <1>5, FS_Singleton DEF OfType
<1>8. RoomFor(active[h], ty, Cardinality({t}))
  BY <1>3, <1>4, <1>6, <1>7, RoomForOne
<1>9. poller'[h].pc = "recover"
  BY <1>6, PollerAfter DEF PhasesMatch
<1>10. Started(doing'[h], doing[h], {t}) /\ Added(active'[h], active[h], ty, Cardinality({t}))
  BY <1>1, <1>6 DEF StartWork, Started, Added
<1> QED
  BY <1>1, <1>2, <1>7, <1>8, <1>9, <1>10, StartFits

\* The start of claimed tasks, without those whose storage was refused.
LEMMA ClaimedFits ==
    ASSUME TypeOK, CapacityInv, NEW h \in Hosts, StartClaimed(h)
    PROVE  HostFits(doing'[h], active'[h], poller'[h])
<1>1. /\ doing[h] \in [Tasks -> Nat] /\ doing \in [Hosts -> [Tasks -> Nat]]
      /\ active \in [Hosts -> [Types -> Int]] /\ poller[h] \in PollerState
  BY DEF TypeOK
<1>2. HostFits(doing[h], active[h], poller[h]) /\ poller[h].pc = "claimed"
  BY DEF CapacityInv, StartClaimed
<1>3. active[h] = RunningOf(doing[h]) /\ Fits(active[h])
  BY <1>2 DEF HostFits
<1>4. active[h] \in Counts
  BY <1>1, <1>3, RunningType
<1>5. PICK cand \in SUBSET Tasks : cand = poller[h].cand
  BY <1>1 DEF PollerState
<1>6. PICK bad \in SUBSET cand : /\ StartWork(h, Handler(h), cand \ bad)
                                 /\ Decline(h) \/ poller' = [poller EXCEPT ![h] = Idle]
  BY <1>5 DEF StartClaimed
<1>7. cand # {} /\ (\A t \in cand : TypeOf[t] = Handler(h)) /\ RoomFor(active[h], Handler(h), Cardinality(cand))
  BY <1>2, <1>5 DEF HostFits, Handler
<1>8. PICK ty \in Types : ty = Handler(h)
  BY <1>7, HarmonyAssumption DEF HarmonyAssumption
<1>9. PICK ts \in SUBSET OfType(ty) : ts = cand \ bad
  BY <1>7, <1>8 DEF OfType
<1>10. /\ Cardinality(ts) \in Nat /\ Cardinality(cand) \in Nat /\ Cardinality(ts) <= Cardinality(cand)
  <2>1. IsFiniteSet(cand)
    BY HarmonyAssumption, FS_Subset DEF HarmonyAssumption
  <2>2. ts \in SUBSET cand
    BY <1>9
  <2>3. IsFiniteSet(ts) /\ Cardinality(ts) <= Cardinality(cand)
    BY <2>1, <2>2, FS_Subset, Zenon
  <2> QED
    BY <2>1, <2>3, FS_CardinalityType
<1>11. RoomFor(active[h], ty, Cardinality(ts))
  BY <1>4, <1>7, <1>8, <1>10, LessRoom
<1>12. poller'[h].pc \notin {"claim", "claimed"}
  BY <1>6, PollerAfter
<1>13. Started(doing'[h], doing[h], ts) /\ Added(active'[h], active[h], ty, Cardinality(ts))
  BY <1>1, <1>6, <1>8, <1>9 DEF StartWork, Started, Added
<1> QED
  BY <1>1, <1>2, <1>11, <1>12, <1>13, StartFits

\* The counters are the process's own, too.
LEMMA CountersLocal ==
    ASSUME TypeOK, NEW h \in Hosts, Step(h), NEW g \in Hosts, g # h
    PROVE  active'[g] = active[g]
<1> USE DEF machineVars, taskVars, workVars, nodeVars
<1>1. ASSUME ProcessGone(h) \/ (\E ty, ts : StartWork(h, ty, ts))
      PROVE  active'[g] = active[g]
  BY <1>1 DEF ProcessGone, StartWork, TypeOK
<1>2. CASE Startup(h)
  BY <1>1, <1>2 DEF Startup, Register, StartPoller, RecoverTask, RefuseRecovered
<1>3. CASE Poll(h)
  BY <1>1, <1>3 DEF Poll, CheckNodeFlags, RestartNode, CleanupMachines, ConsiderWork, SkipHandler,
     IAmBored, Claim, ClaimNothing, StartClaimed
<1>4. CASE Work(h)
  BY <1>4 DEF Work, AddTask, DoReturns, RecordCompletion, CommitUncertain, TypeOK
<1>5. CASE Environment(h)
  BY <1>1, <1>5 DEF Environment, Heartbeat, Age, Crash, GracefullyTerminate, ExitProcess, Cordon,
     Uncordon, SetUnschedulable, Restart, AbortRestart, SetRestartRequest
<1> QED
  BY <1>2, <1>3, <1>4, <1>5 DEF Step

\* No step of a node breaks the invariant.
LEMMA CapacityStep ==
    ASSUME TypeOK, PhasesMatch, CapacityInv, NEW h \in Hosts, Step(h)
    PROVE  CapacityInv'
<1> USE DEF machineVars, taskVars, workVars, nodeVars
<1>1. \A g \in Hosts : g # h => HostFits(doing'[g], active'[g], poller'[g])
  BY LocalStep, CountersLocal DEF CapacityInv
<1>2. HostFits(doing[h], active[h], poller[h])
  BY DEF CapacityInv
<1>3. SUFFICES HostFits(doing'[h], active'[h], poller'[h])
  BY <1>1 DEF CapacityInv
<1>4. CASE doing'[h] = doing[h] /\ active'[h] = active[h] /\ poller'[h] = poller[h]
  BY <1>2, <1>4
<1>5. CASE UNCHANGED <<doing, active>> /\ poller'[h].pc \notin {"claim", "claimed"}
  BY <1>2, <1>5 DEF HostFits
<1>6. CASE ProcessGone(h)
  <2>1. doing'[h] = NoWork /\ active'[h] = NoneActive /\ poller'[h] = Idle
    BY <1>6 DEF ProcessGone, TypeOK
  <2> QED
    BY <2>1, NothingFits
<1>7. CASE Startup(h)
  <2>1. CASE Register(h)
    <3>1. poller'[h].pc = "recover"
      BY <2>1 DEF Register, PollerAt, TypeOK
    <3> QED
      BY <1>5, <2>1, <3>1 DEF Register
  <2>2. CASE StartPoller(h)
    <3>1. poller'[h].pc = "idle"
      BY <2>2, PollerAfter DEF StartPoller
    <3> QED
      BY <1>5, <2>2, <3>1 DEF StartPoller
  <2>3. ASSUME NEW t \in Tasks, RefuseRecovered(h, t)
        PROVE  HostFits(doing'[h], active'[h], poller'[h])
    <3>1. poller'[h].pc = "recover"
      BY <2>3, PollerAfter DEF RefuseRecovered, PhasesMatch
    <3> QED
      BY <1>5, <2>3, <3>1 DEF RefuseRecovered
  <2> QED
    BY <1>7, <2>1, <2>2, <2>3, RecoverFits DEF Startup
<1>8. CASE Poll(h)
  <2>1. CASE CheckNodeFlags(h)
    <3>1. poller'[h].pc = "scan"
      BY <2>1 DEF CheckNodeFlags, PollerAt, TypeOK
    <3> QED
      BY <1>5, <2>1, <3>1 DEF CheckNodeFlags
  <2>2. CASE RestartNode(h)
    BY <1>6, <2>2 DEF RestartNode
  <2>3. CASE CleanupMachines(h)
    BY <1>4, <2>3 DEF CleanupMachines
  <2>4. CASE ConsiderWork(h)
    <3>1. PICK cand \in SUBSET {t \in Tasks : row[t] = "present" /\ owner[t] = NULL /\ TypeOf[t] = Handler(h)} :
             cand # {} /\ Propose(h, cand)
      BY <2>4 DEF ConsiderWork
    <3>2. cand \in SUBSET Tasks /\ \A t \in cand : TypeOf[t] = Handler(h)
      OBVIOUS
    <3>3. UNCHANGED <<active, doing>>
      BY <2>4 DEF ConsiderWork
    <3> QED
      BY <3>1, <3>2, <3>3, ProposeFits
  <2>5. CASE IAmBored(h)
    <3>1. PICK t \in Tasks : TypeOf[t] = Handler(h) /\ Propose(h, {t})
      BY <2>5 DEF IAmBored
    <3>2. PICK cand : cand = {t}
      OBVIOUS
    <3>3. cand \in SUBSET Tasks /\ cand # {} /\ (\A u \in cand : TypeOf[u] = Handler(h)) /\ Propose(h, cand)
      BY <3>1, <3>2
    <3>4. UNCHANGED <<active, doing>>
      BY <2>5 DEF IAmBored
    <3> QED
      BY <3>3, <3>4, ProposeFits
  <2>6. CASE SkipHandler(h) \/ ClaimNothing(h)
    <3>1. poller'[h].pc \in {"scan", "idle"}
      BY <2>6, PollerAfter DEF SkipHandler, ClaimNothing
    <3> QED
      BY <1>5, <2>6, <3>1 DEF SkipHandler, ClaimNothing
  <2> QED
    BY <1>8, <2>1, <2>2, <2>3, <2>4, <2>5, <2>6, ClaimFits, ClaimedFits DEF Poll
<1>9. CASE Work(h)
  <2>1. ASSUME NEW t \in Tasks, NEW res \in Outcome, DoReturns(h, t, res)
        PROVE  HostFits(doing'[h], active'[h], poller'[h])
    <3>1. doing[h] \in [Tasks -> Nat] /\ poller[h] \in PollerState
      BY DEF TypeOK
    <3>2. /\ doing[h][t] > 0 /\ poller'[h] = poller[h]
          /\ doing'[h] = [doing[h] EXCEPT ![t] = @ - 1]
          /\ active'[h] = [active[h] EXCEPT ![TypeOf[t]] = @ - 1]
      BY <2>1 DEF DoReturns, TypeOK
    <3> QED
      BY <1>2, <3>1, <3>2, ReturnFits
  <2>2. ASSUME NEW t \in Tasks, NEW res \in Outcome,
               AddTask(h, t) \/ RecordCompletion(h, t, res) \/ CommitUncertain(h, t, res)
        PROVE  HostFits(doing'[h], active'[h], poller'[h])
    BY <1>4, <2>2 DEF AddTask, RecordCompletion, CommitUncertain
  <2>3. ASSUME NEW t \in Tasks, AddTask(h, t)
        PROVE  HostFits(doing'[h], active'[h], poller'[h])
    BY <1>4, <2>3 DEF AddTask
  <2> QED
    BY <1>9, <2>1, <2>2, <2>3 DEF Work
<1>10. CASE Environment(h)
  <2>1. CASE Crash(h) \/ ExitProcess(h)
    BY <1>6, <2>1 DEF Crash, ExitProcess
  <2>2. CASE GracefullyTerminate(h)
    <3>1. poller'[h] = poller[h] \/ poller'[h].pc = "idle"
      BY <2>2 DEF GracefullyTerminate, TypeOK, Idle, PollerAt
    <3> QED
      BY <1>4, <1>5, <2>2, <3>1 DEF GracefullyTerminate
  <2> QED
    BY <1>4, <1>10, <2>1, <2>2 DEF Environment, Heartbeat, Age, Cordon, Uncordon,
       SetUnschedulable, Restart, AbortRestart, SetRestartRequest
<1> QED
  BY <1>7, <1>8, <1>9, <1>10 DEF Step

LEMMA CapacityInit == Init => CapacityInv /\ PhasesMatch
<1> SUFFICES ASSUME Init
             PROVE  CapacityInv /\ PhasesMatch
  OBVIOUS
<1>1. CapacityInv
  BY NothingFits DEF Init, CapacityInv
<1>2. PhasesMatch
  BY DEF Init, PhasesMatch, Idle, PollerAt
<1> QED
  BY <1>1, <1>2

\* considerWork's comment, for every machine, cost and limiter: what a node
\* runs is what its counters say, and fits the machine and the limiters, even
\* when other goroutines end, the process terminates or the node has been taken
\* for dead between the capacity test, the claim and Max.Add.
THEOREM NothingIsOvercommitted == Spec => []NoOvercommit
<1>1. Init => TypeOK /\ PhasesMatch /\ CapacityInv
  BY TypeInit, CapacityInit
<1>2. TypeOK /\ PhasesMatch /\ CapacityInv /\ [Next]_vars => (TypeOK /\ PhasesMatch /\ CapacityInv)'
  <2> SUFFICES ASSUME TypeOK, PhasesMatch, CapacityInv, [Next]_vars
               PROVE  (TypeOK /\ PhasesMatch /\ CapacityInv)'
    OBVIOUS
  <2>1. TypeOK'
    BY TypeStep
  <2>2. CASE UNCHANGED vars
    BY <2>1, <2>2 DEF vars, workVars, nodeVars, PhasesMatch, CapacityInv
  <2>3. CASE Next
    <3>1. PICK h \in Hosts : Step(h)
      BY <2>3 DEF Next, Step
    <3> QED
      BY <2>1, <3>1, PhaseStep, CapacityStep
  <2> QED
    BY <2>2, <2>3
<1>3. CapacityInv => NoOvercommit
  <2> SUFFICES ASSUME CapacityInv, NEW h \in Hosts
               PROVE  active[h] = Running(h) /\ Fits(Running(h))
    BY DEF NoOvercommit
  <2>1. Running(h) = RunningOf(doing[h])
    BY DEF Running, RunningOf, OfType
  <2> QED
    BY <2>1 DEF CapacityInv, HostFits
<1> QED
  BY <1>1, <1>2, <1>3, PTL DEF Spec
=============================================================================

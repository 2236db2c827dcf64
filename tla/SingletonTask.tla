--------------------------- MODULE SingletonTask ---------------------------
(***************************************************************************)
(* Singleton tasks (harmony/harmonytask/singleton_task.go): a task type    *)
(* that every node offers from IAmBored, of which the cluster runs one at  *)
(* a time, at most once in minInterval, or sooner when an operator sets    *)
(* run_now_request.  The nodes meet in one row of                          *)
(* harmony_task_singletons; the operator's request reaches the interval    *)
(* test of a node through an in-memory flag that a second goroutine sets.  *)
(*                                                                         *)
(* One task type is modelled.  Time is abstract: a node's interval and the *)
(* interval since last_run_time run out at some point.  Two transactions   *)
(* that write the row do not both commit (the database's isolation): the   *)
(* later one gets a serialization error, and AddTask tries again.          *)
(***************************************************************************)
EXTENDS Naturals, FiniteSets

CONSTANTS
    Offerers,         \* nodes
    TaskIds,          \* ids of tasks of this type that can be in harmony_task at a time
    MaxOfferCrashes   \* bound: node restarts

\* The NULL of task_id.
NoTask == "no task"

ASSUME SingletonAssumption ==
    /\ MaxOfferCrashes \in Nat
    /\ NoTask \notin TaskIds

VARIABLES
    present,     \* tasks of this type in harmony_task
    singleton,   \* the row of harmony_task_singletons
    flag,        \* runNowFlag of each node
    registered,  \* initOnce has run on the node
    ready,       \* minInterval has passed since the node's lastCall
    txn,         \* the node's AddTask transaction
    readRow,     \* the row as the transaction has read it
    offerCrashes

offerVars == <<flag, registered, ready, txn, readRow>>
singletonVars == <<present, singleton, offerVars, offerCrashes>>

\* due: minInterval has passed since last_run_time.
SingletonRow == [exists : BOOLEAN, task : TaskIds \cup {NoTask}, due : BOOLEAN, runNow : BOOLEAN]

NoSingleton == [exists |-> FALSE, task |-> NoTask, due |-> FALSE, runNow |-> FALSE]

SingletonTypeOK ==
    /\ present \in SUBSET TaskIds
    /\ singleton \in SingletonRow
    /\ flag \in [Offerers -> BOOLEAN]
    /\ registered \in [Offerers -> BOOLEAN]
    /\ ready \in [Offerers -> BOOLEAN]
    /\ txn \in [Offerers -> {"idle", "select", "upsert"}]
    /\ readRow \in [Offerers -> SingletonRow]
    /\ offerCrashes \in Nat

SingletonInit ==
    /\ present = {}
    /\ singleton = NoSingleton
    /\ flag = [n \in Offerers |-> FALSE]
    /\ registered = [n \in Offerers |-> FALSE]
    /\ ready = [n \in Offerers |-> TRUE]
    /\ txn = [n \in Offerers |-> "idle"]
    /\ readRow = [n \in Offerers |-> NoSingleton]
    /\ offerCrashes = 0

\* A transaction is open only at "upsert"; elsewhere nothing is remembered.
GoTo(n, l) ==
    /\ txn' = [txn EXCEPT ![n] = l]
    /\ readRow' = [readRow EXCEPT ![n] = IF l = "upsert" THEN singleton ELSE NoSingleton]

-----------------------------------------------------------------------------
(* A node.                                                                 *)

\* Mutant: the flag is taken, and the interval tested all the same.
IAmBoredAtInterval(n) ==
    /\ txn[n] = "idle"
    /\ flag[n] \/ ready[n]
    /\ registered' = [registered EXCEPT ![n] = TRUE]
    /\ flag' = [flag EXCEPT ![n] = FALSE]
    /\ ready' = [ready EXCEPT ![n] = FALSE]
    /\ GoTo(n, IF ready[n] THEN "select" ELSE "idle")
    /\ UNCHANGED <<present, singleton, offerCrashes>>

\* IAmBored takes the flag; with the flag or after minInterval it calls AddTask.
IAmBored(n) ==
    /\ txn[n] = "idle"
    /\ flag[n] \/ ready[n]
    /\ registered' = [registered EXCEPT ![n] = TRUE]
    /\ flag' = [flag EXCEPT ![n] = FALSE]
    /\ ready' = [ready EXCEPT ![n] = FALSE]
    /\ GoTo(n, "select")
    /\ UNCHANGED <<present, singleton, offerCrashes>>

TaskIsRunning(r) == r.task # NoTask /\ r.task \in present

ShouldRun(r) == ~r.exists \/ (~TaskIsRunning(r) /\ (r.runNow \/ r.due))

\* The transaction's SELECTs; it is rolled back when nothing is to be run.
SelectRow(n) ==
    /\ txn[n] = "select"
    /\ GoTo(n, IF ShouldRun(singleton) THEN "upsert" ELSE "idle")
    /\ UNCHANGED <<present, singleton, flag, registered, ready, offerCrashes>>

\* Mutant: the upsert commits next to another node's.
UpsertRowAnyway(n, t) ==
    /\ txn[n] = "upsert"
    /\ t \in TaskIds \ present
    /\ present' = present \cup {t}
    /\ singleton' = [exists |-> TRUE, runNow |-> FALSE, due |-> FALSE,
                     task |-> IF TaskIsRunning(singleton) THEN singleton.task ELSE t]
    /\ GoTo(n, "idle")
    /\ UNCHANGED <<flag, registered, ready, offerCrashes>>

\* Mutant: the node's name is stored for the task's.
UpsertRowNode(n, t) ==
    /\ txn[n] = "upsert"
    /\ readRow[n] = singleton
    /\ t \in TaskIds \ present
    /\ present' = present \cup {t}
    /\ singleton' = [exists |-> TRUE, runNow |-> FALSE, due |-> FALSE,
                     task |-> IF TaskIsRunning(singleton) THEN singleton.task ELSE n]
    /\ GoTo(n, "idle")
    /\ UNCHANGED <<flag, registered, ready, offerCrashes>>

\* The task and the row are written and the transaction commits.
UpsertRow(n, t) ==
    /\ txn[n] = "upsert"
    /\ readRow[n] = singleton
    /\ t \in TaskIds \ present
    /\ present' = present \cup {t}
    /\ singleton' = [exists |-> TRUE, runNow |-> FALSE, due |-> FALSE,
                     task |-> IF TaskIsRunning(singleton) THEN singleton.task ELSE t]
    /\ GoTo(n, "idle")
    /\ UNCHANGED <<flag, registered, ready, offerCrashes>>

\* The row was written since it was read: a serialization error.
UpsertConflict(n) ==
    /\ txn[n] = "upsert"
    /\ readRow[n] # singleton
    /\ GoTo(n, "select")
    /\ UNCHANGED <<present, singleton, flag, registered, ready, offerCrashes>>

\* Another error of the transaction: logged, and the flag stays taken.
AddTaskFails(n) ==
    /\ txn[n] \in {"select", "upsert"}
    /\ GoTo(n, "idle")
    /\ UNCHANGED <<present, singleton, flag, registered, ready, offerCrashes>>

\* singletonRunNowPoller.
SingletonRunNowPoller(n) ==
    /\ singleton.exists
    /\ singleton.runNow
    /\ registered[n]
    /\ flag' = [flag EXCEPT ![n] = TRUE]
    /\ UNCHANGED <<present, singleton, registered, ready, txn, readRow, offerCrashes>>

\* The node restarts; what it kept in memory is gone.
RestartOffering(n) ==
    /\ offerCrashes < MaxOfferCrashes
    /\ offerCrashes' = offerCrashes + 1
    /\ flag' = [flag EXCEPT ![n] = FALSE]
    /\ registered' = [registered EXCEPT ![n] = FALSE]
    /\ ready' = [ready EXCEPT ![n] = TRUE]
    /\ GoTo(n, "idle")
    /\ UNCHANGED <<present, singleton>>

-----------------------------------------------------------------------------
(* The rest of the system.                                                 *)

\* The operator's button.
SingletonRunNow ==
    /\ singleton.exists
    /\ singleton' = [singleton EXCEPT !.runNow = TRUE]
    /\ UNCHANGED <<present, offerVars, offerCrashes>>

\* The engine deletes a task that is done or dropped; the foreign key clears
\* task_id.
TaskEnds(t) ==
    /\ t \in present
    /\ present' = present \ {t}
    /\ singleton' = [singleton EXCEPT !.task = IF @ = t THEN NoTask ELSE @]
    /\ UNCHANGED <<offerVars, offerCrashes>>

NodeIntervalPasses(n) ==
    /\ ready' = [ready EXCEPT ![n] = TRUE]
    /\ UNCHANGED <<present, singleton, flag, registered, txn, readRow, offerCrashes>>

\* Not a write: an open transaction does not conflict with it.
RunIntervalPasses ==
    /\ singleton.exists
    /\ singleton' = [singleton EXCEPT !.due = TRUE]
    /\ readRow' = [n \in Offerers |-> IF readRow[n] = singleton THEN singleton' ELSE readRow[n]]
    /\ UNCHANGED <<present, flag, registered, ready, txn, offerCrashes>>

SingletonNext ==
    \/ \E n \in Offerers :
          \/ IAmBored(n)
          \/ SelectRow(n)
          \/ \E t \in TaskIds : UpsertRow(n, t)
          \/ UpsertConflict(n)
          \/ AddTaskFails(n)
          \/ SingletonRunNowPoller(n)
          \/ RestartOffering(n)
          \/ NodeIntervalPasses(n)
    \/ SingletonRunNow
    \/ \E t \in TaskIds : TaskEnds(t)
    \/ RunIntervalPasses

SingletonSpec == SingletonInit /\ [][SingletonNext]_singletonVars

-----------------------------------------------------------------------------
(* Properties.                                                             *)

\* The point of a singleton: the cluster has at most one task of the type,
\* whichever nodes offer it at the same time, and the row names it.
OneTask == present \subseteq {singleton.task}

\* "If task IS running, leave run_now_request set so it fires after the
\* current run completes on the next cycle": every request leads to a run, also
\* when the node that has taken its flag fails to act on it, and however far
\* away the end of the interval is.
RequestIsServed == []<>~singleton.runNow

=============================================================================

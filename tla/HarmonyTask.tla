---------------------------- MODULE HarmonyTask ----------------------------
(***************************************************************************)
(* HarmonyTask, the distributed task engine of a Curio cluster             *)
(* (harmony/harmonytask, harmony/resources).  Nodes coordinate only        *)
(* through three SQL tables:                                               *)
(*   harmony_machines      rowId, fresh, unschedulable, restartRequest     *)
(*   harmony_task          row, owner, retries                             *)
(*   harmony_task_history  succeeded, failed                               *)
(* and every node runs one poller, one heartbeat and a goroutine for each  *)
(* task it works on.  A SQL statement or transaction is one step; a node   *)
(* can crash, stall or be stopped between any two of them.                 *)
(*                                                                         *)
(* Time is abstract: fresh says whether last_contact is younger than       *)
(* LOOKS_DEAD_TIMEOUT, and whether a timer or a RetryWait has run out is a *)
(* nondeterministic choice.                                                *)
(***************************************************************************)
EXTENDS TaskCapacity, Sequences

CONSTANTS
    Hosts,           \* host_and_port of every node
    Tasks,           \* the ids harmony_task can hand out
    TypeOf,          \* the name of each task
    Handlers,        \* e.handlers: the types in priority order
    MaxFailures,     \* TypeDetails().MaxFailures, 0 to retry for ever
    TimeSensitive,   \* the types GracefullyTerminate waits for
    BoredTypes,      \* the types with an IAmBored function
    StorageTypes,    \* the types with Cost.Storage
    Overrides,       \* SchedulingOverrides of each type
    Yielding,        \* background types and types with CanYield
    Cordonable,      \* the nodes an operator cordons or asks to restart
    FalseSuspicion,  \* TRUE: a live node can miss LOOKS_DEAD_TIMEOUT of beats
    DBErrors,        \* TRUE: a statement can report an error
    MaxBoots,        \* bound: how many processes are started in all
    RetryCap         \* bound: failures of a task whose MaxFailures is 0

ASSUME HarmonyAssumption ==
    /\ IsFiniteSet(Tasks)
    /\ TypeOf \in [Tasks -> Types]
    /\ Handlers \in Seq(Types)
    /\ MaxFailures \in [Types -> Nat]
    /\ TimeSensitive \subseteq Types
    /\ BoredTypes \subseteq Types
    /\ StorageTypes \subseteq Types
    /\ Overrides \in [Types -> SUBSET Types]
    /\ Yielding \subseteq Types
    /\ Cordonable \subseteq Hosts
    /\ FalseSuspicion \in BOOLEAN
    /\ DBErrors \in BOOLEAN
    /\ MaxBoots \in Nat
    /\ RetryCap \in Nat

VARIABLES
    rowId,           \* id of the host's harmony_machines row, NULL if none
    fresh,           \* last_contact is within LOOKS_DEAD_TIMEOUT
    unschedulable,   \* the cordon flag
    restartRequest,  \* restart_request is set
    row,             \* has the task's row been inserted, has it been deleted?
    owner,           \* harmony_task.owner_id
    retries,         \* harmony_task.retries
    succeeded,       \* history rows with result TRUE
    failed,          \* history rows with result FALSE
    proc,            \* the state of the node's process
    ownerID,         \* e.ownerID: the machine id the process registered under
    yieldBackground, \* e.yieldBackground
    poller,          \* what the poller goroutine is doing
    active,          \* Max.ActiveThis of each handler
    doing,           \* goroutines inside Do
    recording,       \* goroutines inside recordCompletion, by outcome
    boots            \* processes started so far

machineVars == <<rowId, fresh, unschedulable, restartRequest>>
taskVars    == <<row, owner, retries, succeeded, failed>>
workVars    == <<active, doing, recording>>
nodeVars    == <<proc, ownerID, yieldBackground, poller>>
vars        == <<machineVars, taskVars, workVars, nodeVars, boots>>

NULL == 0

NoneActive == [ty \in Types |-> 0]

\* The state of the poller goroutine: i is the handler under consideration in
\* the given loop, cand the tasks considerWork still handles, seen the active
\* counts its capacity test read.
PollerAt(pc, loop, schedulable, i, cand) ==
    [pc |-> pc, loop |-> loop, schedulable |-> schedulable, i |-> i,
     cand |-> cand, seen |-> NoneActive]

\* Outside pollerTryAllWork.
Idle == PollerAt("idle", "poller", TRUE, 1, {})

PollerState ==
    [pc : {"idle", "scan", "claim", "claimed", "recover"},
     loop : {"poller", "bored"}, schedulable : BOOLEAN, i : Nat,
     cand : SUBSET Tasks, seen : [Types -> Int]]

NoWork == [t \in Tasks |-> 0]

\* The value of done when Do has returned.
Outcome == {"done", "failed"}

NoRecord == [t \in Tasks |-> [res \in Outcome |-> 0]]

TypeOK ==
    /\ rowId \in [Hosts -> Nat]
    /\ fresh \in [Hosts -> BOOLEAN]
    /\ unschedulable \in [Hosts -> BOOLEAN]
    /\ restartRequest \in [Hosts -> BOOLEAN]
    /\ row \in [Tasks -> {"unused", "present", "deleted"}]
    /\ owner \in [Tasks -> Nat]
    /\ retries \in [Tasks -> Nat]
    /\ succeeded \in [Tasks -> Nat]
    /\ failed \in [Tasks -> Nat]
    /\ proc \in [Hosts -> {"down", "recovering", "up", "terminating"}]
    /\ ownerID \in [Hosts -> Nat]
    /\ yieldBackground \in [Hosts -> BOOLEAN]
    /\ poller \in [Hosts -> PollerState]
    /\ active \in [Hosts -> [Types -> Int]]
    /\ doing \in [Hosts -> [Tasks -> Nat]]
    /\ recording \in [Hosts -> [Tasks -> [Outcome -> Nat]]]
    /\ boots \in Nat

Init ==
    /\ rowId = [h \in Hosts |-> NULL]
    /\ fresh = [h \in Hosts |-> FALSE]
    /\ unschedulable = [h \in Hosts |-> FALSE]
    /\ restartRequest = [h \in Hosts |-> FALSE]
    /\ row = [t \in Tasks |-> "unused"]
    /\ owner = [t \in Tasks |-> NULL]
    /\ retries = [t \in Tasks |-> 0]
    /\ succeeded = [t \in Tasks |-> 0]
    /\ failed = [t \in Tasks |-> 0]
    /\ proc = [h \in Hosts |-> "down"]
    /\ ownerID = [h \in Hosts |-> NULL]
    /\ yieldBackground = [h \in Hosts |-> FALSE]
    /\ poller = [h \in Hosts |-> Idle]
    /\ active = [h \in Hosts |-> NoneActive]
    /\ doing = [h \in Hosts |-> NoWork]
    /\ recording = [h \in Hosts |-> NoRecord]
    /\ boots = 0


-----------------------------------------------------------------------------
(* Shared parts of the actions.                                            *)

Handler(h) == Handlers[poller[h].i]

\* Mutant: last_contact is not tested.
LooksDeadWhenRegistered(h) == rowId[h] # NULL

\* Rows of harmony_machines that CleanupMachines deletes.
LooksDead(h) == rowId[h] # NULL /\ ~fresh[h]

\* Mutant: owner_id without ON DELETE SET NULL.
StillOwnedByDead(dead) == owner

\* DELETE FROM harmony_machines for the hosts in dead; the foreign key of
\* harmony_task.owner_id is ON DELETE SET NULL, and the flags go with the row.
DisownedBy(dead) ==
    [t \in Tasks |-> IF owner[t] \in {rowId[g] : g \in dead} THEN NULL ELSE owner[t]]

Without(f, dead, v) == [h \in Hosts |-> IF h \in dead THEN v ELSE f[h]]

\* The process of h is gone and everything it kept in memory with it.
ProcessGone(h) ==
    /\ proc' = [proc EXCEPT ![h] = "down"]
    /\ ownerID' = [ownerID EXCEPT ![h] = NULL]
    /\ yieldBackground' = [yieldBackground EXCEPT ![h] = FALSE]
    /\ poller' = [poller EXCEPT ![h] = Idle]
    /\ active' = [active EXCEPT ![h] = NoneActive]
    /\ doing' = [doing EXCEPT ![h] = NoWork]
    /\ recording' = [recording EXCEPT ![h] = NoRecord]

\* h.Max.Add(len(ts)) and one goroutine for each task of ts, all of type ty.
StartWork(h, ty, ts) ==
    /\ active' = [active EXCEPT ![h][ty] = @ + Cardinality(ts)]
    /\ doing' = [doing EXCEPT ![h] =
                    [t \in Tasks |-> IF t \in ts THEN @[t] + 1 ELSE @[t]]]
    /\ UNCHANGED recording

\* The poller after considerWork declined a handler: the next handler of the
\* loop; after the last one the loop over IAmBored, unless cordoned.
AfterHandler(p) ==
    IF p.i < Len(Handlers)
    THEN PollerAt("scan", p.loop, p.schedulable, p.i + 1, {})
    ELSE IF p.loop = "poller" /\ p.schedulable /\ BoredTypes # {}
    THEN PollerAt("scan", "bored", TRUE, 1, {})
    ELSE Idle

Decline(h) == poller' = [poller EXCEPT ![h] = AfterHandler(@)]

\* Mutant: only the tasks GracefullyTerminate would wait for count.
NoPostPending(h) == \A t \in Tasks : owner[t] = ownerID[h] => TypeOf[t] \notin TimeSensitive

NoTasksPending(h) == \A t \in Tasks : owner[t] # ownerID[h]

-----------------------------------------------------------------------------
(* Registration and recovery: resources.Register and New.                  *)

\* Upsert of the host's row, CleanupMachines, and the query for the tasks
\* the previous process under this machine id left behind.
Register(h) ==
    LET id   == IF rowId[h] # NULL THEN rowId[h] ELSE boots + 1
        dead == {g \in Hosts \ {h} : LooksDead(g)}
    IN  /\ proc[h] = "down"
        /\ boots < MaxBoots \/ \A g \in Hosts : proc[g] = "down"
        /\ boots' = boots + 1
        /\ rowId' = [Without(rowId, dead, NULL) EXCEPT ![h] = id]
        /\ fresh' = [Without(fresh, dead, FALSE) EXCEPT ![h] = TRUE]
        /\ unschedulable' = Without(unschedulable, dead, FALSE)
        /\ restartRequest' = Without(restartRequest, dead, FALSE)
        /\ owner' = DisownedBy(dead)
        /\ proc' = [proc EXCEPT ![h] = "recovering"]
        /\ ownerID' = [ownerID EXCEPT ![h] = id]
        /\ poller' = [poller EXCEPT ![h] =
                        PollerAt("recover", "poller", TRUE, 1,
                                 {t \in Tasks : owner[t] = id})]
        /\ UNCHANGED <<yieldBackground, row, retries, succeeded, failed, workVars>>

Recovered(h, t) ==
    poller' = [poller EXCEPT ![h] = [@ EXCEPT !.cand = poller[h].cand \ {t}]]

\* considerWork(WorkSourceRecover, t) accepts: the row is already ours.
RecoverTask(h, t) ==
    /\ proc[h] = "recovering"
    /\ t \in poller[h].cand
    /\ ~OutOfCapacity(active[h], TypeOf[t])
    /\ StartWork(h, TypeOf[t], {t})
    /\ Recovered(h, t)
    /\ UNCHANGED <<machineVars, taskVars, proc, ownerID, yieldBackground, boots>>

\* Mutant: New forgets to unlock the task.
RefuseRecoveredSilently(h, t) ==
    /\ proc[h] = "recovering"
    /\ t \in poller[h].cand
    /\ Recovered(h, t)
    /\ UNCHANGED <<machineVars, taskVars, workVars, proc, ownerID, yieldBackground, boots>>

\* It declines (no such handler any more, no capacity, CanAccept, or, for a
\* type with storage, no space): New gives the task up.  Giving up after a
\* failed storage claim does not test the owner.
RefuseRecovered(h, t) ==
    /\ proc[h] = "recovering"
    /\ t \in poller[h].cand
    /\ Recovered(h, t)
    /\ \/ owner[t] = ownerID[h] /\ owner' = [owner EXCEPT ![t] = NULL]
       \/ owner[t] # ownerID[h] /\ UNCHANGED owner
       \/ TypeOf[t] \in StorageTypes /\ owner' = [owner EXCEPT ![t] = NULL]
       \/ DBErrors /\ UNCHANGED owner
    /\ UNCHANGED <<machineVars, row, retries, succeeded, failed, workVars,
                   proc, ownerID, yieldBackground, boots>>

\* New returns: the adders and the poller run from here on.
StartPoller(h) ==
    /\ proc[h] = "recovering"
    /\ poller[h].cand = {}
    /\ proc' = [proc EXCEPT ![h] = "up"]
    /\ poller' = [poller EXCEPT ![h] = Idle]
    /\ UNCHANGED <<machineVars, taskVars, workVars, ownerID, yieldBackground, boots>>

-----------------------------------------------------------------------------
(* The poller.                                                             *)

\* One iteration begins: checkNodeFlags finds the node's row (without a row
\* the iteration ends at once) and no restart is due.
CheckNodeFlags(h) ==
    /\ proc[h] = "up"
    /\ poller[h].pc = "idle"
    /\ rowId[h] # NULL
    /\ ~(restartRequest[h] /\ NoTasksPending(h))
    /\ yieldBackground' = [yieldBackground EXCEPT ![h] = unschedulable[h]]
    /\ poller' = [poller EXCEPT ![h] =
                    PollerAt("scan", "poller", ~unschedulable[h], 1, {})]
    /\ UNCHANGED <<machineVars, taskVars, workVars, proc, ownerID, boots>>

\* Mutant: a cordoned node is passed over.
RestartUncordonedNode(h) ==
    /\ proc[h] = "up"
    /\ poller[h].pc = "idle"
    /\ rowId[h] # NULL
    /\ restartRequest[h]
    /\ ~unschedulable[h]
    /\ NoTasksPending(h)
    /\ restartRequest' = [restartRequest EXCEPT ![h] = FALSE]
    /\ ProcessGone(h)
    /\ UNCHANGED <<rowId, fresh, unschedulable, taskVars, boots>>

\* restartIfNoTasksPending clears both flags and exits.
RestartNode(h) ==
    /\ proc[h] = "up"
    /\ poller[h].pc = "idle"
    /\ rowId[h] # NULL
    /\ restartRequest[h]
    /\ NoTasksPending(h)
    /\ restartRequest' = [restartRequest EXCEPT ![h] = FALSE]
    /\ unschedulable' = [unschedulable EXCEPT ![h] = FALSE]
    /\ ProcessGone(h)
    /\ UNCHANGED <<rowId, fresh, taskVars, boots>>

\* pollerTryAllWork, when CLEANUP_FREQUENCY has passed: CleanupMachines.
CleanupMachines(h) ==
    LET dead == {g \in Hosts : LooksDead(g)}
    IN  /\ proc[h] = "up"
        /\ poller[h].pc = "scan"
        /\ poller[h].loop = "poller"
        /\ poller[h].i = 1
        /\ dead # {}
        /\ rowId' = Without(rowId, dead, NULL)
        /\ fresh' = Without(fresh, dead, FALSE)
        /\ unschedulable' = Without(unschedulable, dead, FALSE)
        /\ restartRequest' = Without(restartRequest, dead, FALSE)
        /\ owner' = DisownedBy(dead)
        /\ UNCHANGED <<row, retries, succeeded, failed, workVars, nodeVars, boots>>

\* On a cordoned node a type is scheduled only while a task of one of its
\* override types is assigned to the node.
MaySchedule(h, ty) ==
    \/ poller[h].schedulable
    \/ \E t \in Tasks : owner[t] = ownerID[h] /\ TypeOf[t] \in Overrides[ty]

\* considerWork up to the claim: CanAccept has picked cand.
Propose(h, cand) ==
    poller' = [poller EXCEPT ![h] =
                 [@ EXCEPT !.pc = "claim", !.cand = cand, !.seen = active[h]]]

\* considerWork(WorkSourcePoller) up to the claim: there is capacity, and
\* CanAccept picks cand from the unowned tasks whose RetryWait is over.
ConsiderWork(h) ==
    /\ proc[h] = "up"
    /\ poller[h].pc = "scan"
    /\ poller[h].loop = "poller"
    /\ MaySchedule(h, Handler(h))
    /\ ~OutOfCapacity(active[h], Handler(h))
    /\ \E cand \in SUBSET {t \in Tasks : /\ row[t] = "present"
                                         /\ owner[t] = NULL
                                         /\ TypeOf[t] = Handler(h)} :
          /\ cand # {}
          /\ Propose(h, cand)
    /\ UNCHANGED <<machineVars, taskVars, workVars, proc, ownerID,
                   yieldBackground, boots>>

\* The handler is passed over: cordoned, no capacity, nothing to do, CanAccept
\* refuses, the storage failures of the last minutes, or a failed query.
SkipHandler(h) ==
    /\ proc[h] = "up"
    /\ poller[h].pc = "scan"
    /\ Decline(h)
    /\ UNCHANGED <<machineVars, taskVars, workVars, proc, ownerID,
                   yieldBackground, boots>>

\* IAmBored adds a task, which is then proposed to this node first.
IAmBored(h) ==
    /\ proc[h] = "up"
    /\ poller[h].pc = "scan"
    /\ poller[h].loop = "bored"
    /\ Handler(h) \in BoredTypes
    /\ ~OutOfCapacity(active[h], Handler(h))
    /\ \E t \in Tasks :
          /\ row[t] = "unused"
          /\ TypeOf[t] = Handler(h)
          /\ row' = [row EXCEPT ![t] = "present"]
          /\ Propose(h, {t})
    /\ UNCHANGED <<machineVars, owner, retries, succeeded, failed, workVars,
                   proc, ownerID, yieldBackground, boots>>

\* Mutant: the claim does not repeat the test owner_id IS NULL.
ClaimUnchecked(h) ==
    LET p == poller[h]
    IN  /\ proc[h] = "up"
        /\ p.pc = "claim"
        /\ rowId[h] = ownerID[h]
        /\ \E acc \in SUBSET {t \in p.cand : row[t] = "present"} :
              /\ acc # {}
              /\ owner' = [t \in Tasks |-> IF t \in acc THEN ownerID[h] ELSE owner[t]]
              /\ poller' = [poller EXCEPT ![h] = [@ EXCEPT !.pc = "claimed", !.cand = acc]]
        /\ UNCHANGED <<machineVars, row, retries, succeeded, failed, workVars,
                       proc, ownerID, yieldBackground, boots>>

\* The claim: UPDATE harmony_task SET owner_id over at most MaxAcceptable rows
\* that are still unowned (SKIP LOCKED may leave some out).  The foreign key
\* refuses an id whose machine row is gone.  Under DBErrors the update may be
\* applied and an error reported, and then nobody works on the task.
Claim(h) ==
    LET p    == poller[h]
        free == {t \in p.cand : row[t] = "present" /\ owner[t] = NULL}
    IN  /\ proc[h] = "up"
        /\ p.pc = "claim"
        /\ rowId[h] = ownerID[h]
        /\ \E acc \in SUBSET free :
              /\ acc # {}
              /\ Cardinality(acc) <= MaxAcceptable(p.seen, active[h], Handler(h))
              /\ owner' = [t \in Tasks |-> IF t \in acc THEN ownerID[h] ELSE owner[t]]
              /\ \/ poller' = [poller EXCEPT ![h] = [@ EXCEPT !.pc = "claimed", !.cand = acc]]
                 \/ DBErrors /\ Decline(h)
        /\ UNCHANGED <<machineVars, row, retries, succeeded, failed, workVars,
                       proc, ownerID, yieldBackground, boots>>

\* The claim returns no row: all taken, all locked, or an error.
ClaimNothing(h) ==
    /\ proc[h] = "up"
    /\ poller[h].pc = "claim"
    /\ Decline(h)
    /\ UNCHANGED <<machineVars, taskVars, workVars, proc, ownerID,
                   yieldBackground, boots>>

\* Storage is claimed task by task; the tasks it is refused for are given
\* back (whoever owns them by now), the others start.  The engine's context
\* is cancelled in a terminating process, so there the give-back fails.
StartClaimed(h) ==
    LET p  == poller[h]
        ty == Handler(h)
    IN  /\ proc[h] \in {"up", "terminating"}
        /\ p.pc = "claimed"
        /\ \E bad \in SUBSET p.cand :
              /\ bad # {} => ty \in StorageTypes
              /\ StartWork(h, ty, p.cand \ bad)
              /\ \/ /\ proc[h] = "up"
                    /\ owner' = [t \in Tasks |-> IF t \in bad THEN NULL ELSE owner[t]]
                 \/ /\ proc[h] = "terminating" \/ (DBErrors /\ bad # {})
                    /\ UNCHANGED owner
              /\ IF proc[h] = "up" /\ (bad = p.cand \/ p.loop = "bored")
                 THEN Decline(h)
                 ELSE poller' = [poller EXCEPT ![h] = Idle]
        /\ UNCHANGED <<machineVars, row, retries, succeeded, failed, proc, ownerID,
                       yieldBackground, boots>>


-----------------------------------------------------------------------------
(* Tasks: AddTask, the goroutine of a task, and recordCompletion.          *)

\* An adder's transaction inserts the task; one that rolls back changes
\* nothing.
AddTask(h, t) ==
    /\ proc[h] = "up"
    /\ row[t] = "unused"
    /\ row' = [row EXCEPT ![t] = "present"]
    /\ UNCHANGED <<machineVars, owner, retries, succeeded, failed, workVars,
                   nodeVars, boots>>

\* The stillOwned callback the engine hands to Do.
StillOwned(h, t) ==
    /\ ~(TypeOf[t] \in Yielding /\ yieldBackground[h])
    /\ row[t] = "present"
    /\ owner[t] = ownerID[h]

\* Do returns or panics: Max.Add(-1), the storage is released, and
\* recordCompletion begins.
DoReturns(h, t, res) ==
    /\ doing[h][t] > 0
    /\ res = "done" \/ MaxFailures[TypeOf[t]] > 0 \/ failed[t] < RetryCap
    /\ doing' = [doing EXCEPT ![h][t] = @ - 1]
    /\ active' = [active EXCEPT ![h][TypeOf[t]] = @ - 1]
    /\ recording' = [recording EXCEPT ![h][t][res] = @ + 1]
    /\ UNCHANGED <<machineVars, taskVars, nodeVars, boots>>

\* Mutant: one retry too many.
DeleteTaskLate(t) ==
    /\ MaxFailures[TypeOf[t]] > 0
    /\ retries[t] >= MaxFailures[TypeOf[t]]

\* if h.MaxFailures > 0 && retries >= h.MaxFailures-1
DeleteTask(t) ==
    /\ MaxFailures[TypeOf[t]] > 0
    /\ retries[t] >= MaxFailures[TypeOf[t]] - 1

\* Mutant: the transaction does not notice that the row is gone.
CompleteBlindly(t, res) ==
    /\ row' = [row EXCEPT ![t] = IF res = "done" \/ DeleteTask(t) THEN "deleted" ELSE @]
    /\ owner' = [owner EXCEPT ![t] = NULL]
    /\ succeeded' = [succeeded EXCEPT ![t] = IF res = "done" THEN @ + 1 ELSE @]
    /\ failed' = [failed EXCEPT ![t] = IF res = "done" THEN @ ELSE @ + 1]
    /\ retries' = [retries EXCEPT ![t] = IF res = "done" \/ DeleteTask(t) THEN @ ELSE @ + 1]

\* The transaction of recordCompletion: it reads the row and deletes or
\* disowns it.  It never compares the owner with the node it runs on.
Complete(t, res) ==
    /\ row[t] = "present"
    /\ owner' = [owner EXCEPT ![t] = NULL]
    /\ \/ /\ res = "done"
          /\ row' = [row EXCEPT ![t] = "deleted"]
          /\ succeeded' = [succeeded EXCEPT ![t] = @ + 1]
          /\ UNCHANGED <<retries, failed>>
       \/ /\ res = "failed" /\ DeleteTask(t)
          /\ row' = [row EXCEPT ![t] = "deleted"]
          /\ failed' = [failed EXCEPT ![t] = @ + 1]
          /\ UNCHANGED <<retries, succeeded>>
       \/ /\ res = "failed" /\ ~DeleteTask(t)
          /\ retries' = [retries EXCEPT ![t] = @ + 1]
          /\ failed' = [failed EXCEPT ![t] = @ + 1]
          /\ UNCHANGED <<row, succeeded>>

\* Mutant: the deferred function runs recordCompletion once more.
RecordCompletionAgain(h, t, res) ==
    /\ proc[h] \in {"recovering", "up"}
    /\ Complete(t, res)
    /\ recording' = [recording EXCEPT ![h][t][res] = @ - 1]
    /\ UNCHANGED <<machineVars, nodeVars, active, doing, boots>>

\* recordCompletion commits and the goroutine ends.  It works under the
\* engine's context, so in a terminating process it fails for ever; and it is
\* retried for ever when the row is gone.
RecordCompletion(h, t, res) ==
    /\ proc[h] \in {"recovering", "up"}
    /\ recording[h][t][res] > 0
    /\ Complete(t, res)
    /\ recording' = [recording EXCEPT ![h][t][res] = @ - 1]
    /\ UNCHANGED <<machineVars, nodeVars, active, doing, boots>>

\* The commit is applied but reported as failed: the goroutine tries again.
CommitUncertain(h, t, res) ==
    /\ DBErrors
    /\ proc[h] \in {"recovering", "up"}
    /\ recording[h][t][res] > 0
    /\ res = "done" \/ MaxFailures[TypeOf[t]] > 0 \/ failed[t] < RetryCap
    /\ Complete(t, res)
    /\ UNCHANGED <<machineVars, nodeVars, workVars, boots>>

-----------------------------------------------------------------------------
(* Heartbeats, crashes, shutdown and the operator.                         *)

\* The keepalive loop of Register; without a row the UPDATE matches nothing.
Heartbeat(h) ==
    /\ proc[h] \in {"recovering", "up"}
    /\ LooksDead(h)
    /\ fresh' = [fresh EXCEPT ![h] = TRUE]
    /\ UNCHANGED <<rowId, unschedulable, restartRequest, taskVars, workVars,
                   nodeVars, boots>>

\* LOOKS_DEAD_TIMEOUT passes without a beat: the process is gone, or has
\* called reg.Shutdown, or (FalseSuspicion) cannot reach the database.
Age(h) ==
    /\ rowId[h] # NULL
    /\ fresh[h]
    /\ FalseSuspicion \/ proc[h] \in {"down", "terminating"}
    /\ fresh' = [fresh EXCEPT ![h] = FALSE]
    /\ UNCHANGED <<rowId, unschedulable, restartRequest, taskVars, workVars,
                   nodeVars, boots>>

\* A crash; the last process started does not crash.
Crash(h) ==
    /\ proc[h] # "down"
    /\ boots < MaxBoots
    /\ ProcessGone(h)
    /\ UNCHANGED <<machineVars, taskVars, boots>>

\* GracefullyTerminate cancels the engine's context and stops the heartbeat.
\* Every further statement of the poller fails; only the storage claims that
\* follow a successful claim of tasks still run.
GracefullyTerminate(h) ==
    /\ proc[h] = "up"
    /\ boots < MaxBoots
    /\ proc' = [proc EXCEPT ![h] = "terminating"]
    /\ poller' = [poller EXCEPT ![h] = IF @.pc = "claimed" THEN @ ELSE Idle]
    /\ UNCHANGED <<machineVars, taskVars, workVars, ownerID, yieldBackground, boots>>

\* Its loop finds no active time-sensitive task, and the process exits.
ExitProcess(h) ==
    /\ proc[h] = "terminating"
    /\ \A ty \in TimeSensitive : Active(active[h], ty) = 0
    /\ ProcessGone(h)
    /\ UNCHANGED <<machineVars, taskVars, boots>>

SetUnschedulable(h, b) ==
    /\ h \in Cordonable
    /\ rowId[h] # NULL
    /\ unschedulable[h] # b
    /\ unschedulable' = [unschedulable EXCEPT ![h] = b]
    /\ UNCHANGED <<rowId, fresh, restartRequest, taskVars, workVars, nodeVars, boots>>

Cordon(h) == SetUnschedulable(h, TRUE)

Uncordon(h) == SetUnschedulable(h, FALSE)

\* WebRPC.Restart and WebRPC.AbortRestart.  The last process is not asked to
\* restart.
SetRestartRequest(h, b) ==
    /\ h \in Cordonable
    /\ rowId[h] # NULL
    /\ restartRequest[h] # b
    /\ b => boots < MaxBoots
    /\ restartRequest' = [restartRequest EXCEPT ![h] = b]
    /\ UNCHANGED <<rowId, fresh, unschedulable, taskVars, workVars, nodeVars, boots>>

Restart(h) == SetRestartRequest(h, TRUE)

AbortRestart(h) == SetRestartRequest(h, FALSE)

-----------------------------------------------------------------------------
(* The specification.                                                      *)

\* Steps of the node's own threads.
Startup(h) ==
    \/ Register(h)
    \/ StartPoller(h)
    \/ \E t \in Tasks : RecoverTask(h, t) \/ RefuseRecovered(h, t)

Poll(h) ==
    \/ CheckNodeFlags(h)
    \/ RestartNode(h)
    \/ CleanupMachines(h)
    \/ ConsiderWork(h)
    \/ SkipHandler(h)
    \/ IAmBored(h)
    \/ Claim(h)
    \/ ClaimNothing(h)
    \/ StartClaimed(h)

Work(h) ==
    \E t \in Tasks :
       \/ AddTask(h, t)
       \/ \E res \in Outcome :
             \/ DoReturns(h, t, res)
             \/ RecordCompletion(h, t, res)
             \/ CommitUncertain(h, t, res)

Environment(h) ==
    \/ Heartbeat(h)
    \/ Age(h)
    \/ Crash(h)
    \/ GracefullyTerminate(h)
    \/ ExitProcess(h)
    \/ Cordon(h)
    \/ Uncordon(h)
    \/ Restart(h)
    \/ AbortRestart(h)

Next == \E h \in Hosts : Startup(h) \/ Poll(h) \/ Work(h) \/ Environment(h)

Spec == Init /\ [][Next]_vars

\* Scheduling: the operating system runs every thread of a live process, Do
\* returns, a silent node's last_contact ages, and when every node is down one
\* is started again.  The poller visits its handlers for ever, so a task whose
\* RetryWait is over is offered to CanAccept again and again, and a claim that
\* is tried again and again is not locked out each time: strong fairness.
EngineFairness(h) ==
    /\ WF_vars(Register(h) /\ \A g \in Hosts : proc[g] = "down")
    /\ WF_vars(StartPoller(h) \/ \E t \in Tasks : RecoverTask(h, t) \/ RefuseRecovered(h, t))
    /\ WF_vars(Poll(h))
    /\ SF_vars(CleanupMachines(h))
    /\ \A t \in Tasks :
          /\ SF_vars(ConsiderWork(h) /\ t \in poller'[h].cand)
          /\ SF_vars(Claim(h) /\ owner'[t] # owner[t])
          /\ WF_vars(\E res \in Outcome : DoReturns(h, t, res))
          /\ WF_vars(\E res \in Outcome : RecordCompletion(h, t, res))
    /\ WF_vars(Age(h))
    /\ WF_vars(Heartbeat(h))
    /\ WF_vars(ExitProcess(h))

FairSpec == Spec /\ \A h \in Hosts : EngineFairness(h)

-----------------------------------------------------------------------------
(* Safety.                                                                 *)

Live(h) == proc[h] \in {"recovering", "up"}

\* The poller has the task but has not started it yet.
Pending(h, t) == poller[h].pc \in {"recover", "claimed"} /\ t \in poller[h].cand

\* Goroutines of the engine for the task, and the poller if it is about to
\* start one.
Busy(h, t) ==
    doing[h][t] + recording[h][t]["done"] + recording[h][t]["failed"] +
    (IF Pending(h, t) THEN 1 ELSE 0)

\* The single-writer promise of TaskInterface.Do: of all the goroutines that
\* run Do for a task anywhere in the cluster, at most one gets TRUE from
\* stillOwned.  Holds as long as a live node never misses LOOKS_DEAD_TIMEOUT
\* of heartbeats and no committed transaction is reported as failed.
SingleWriter ==
    \A t \in Tasks : \A g, h \in Hosts :
       /\ doing[g][t] > 0 /\ StillOwned(g, t)
       /\ doing[h][t] > 0 /\ StillOwned(h, t)
       => g = h /\ doing[h][t] = 1

\* Why it holds.  Machine ids are never shared or used again, ...
IdsDistinct ==
    /\ \A h \in Hosts : rowId[h] <= boots /\ ownerID[h] <= boots
    /\ \A t \in Tasks : owner[t] <= boots
    /\ \A g, h \in Hosts : g # h =>
          /\ rowId[g] # NULL => rowId[g] # rowId[h] /\ rowId[g] # ownerID[h]
          /\ ownerID[g] # NULL => ownerID[g] # ownerID[h]

\* ... a live node has a fresh row under its own id, ...
LiveIsRegistered ==
    \A h \in Hosts :
       /\ ownerID[h] = NULL <=> proc[h] = "down"
       /\ proc[h] # "down" => rowId[h] \in {NULL, ownerID[h]}
       /\ Live(h) => rowId[h] = ownerID[h] /\ fresh[h]

\* ... the poller is in a phase its process allows, ...
PhasesMatch ==
    \A h \in Hosts :
       /\ poller[h].pc = "recover" <=> proc[h] = "recovering"
       /\ proc[h] = "down" => poller[h].pc = "idle"

\* ... and an engine has at most one goroutine for a task, and owns it as long
\* as the engine is live.
WorkIsOwned ==
    \A h \in Hosts, t \in Tasks :
       /\ Busy(h, t) <= 1
       /\ proc[h] = "down" => Busy(h, t) = 0
       /\ Live(h) /\ Busy(h, t) > 0 => owner[t] = ownerID[h]

\* The inductive invariant behind SingleWriter: a claim, a take-over by
\* CleanupMachines and a recovery after a restart never make two engines, or
\* one engine twice, work on a task they own.
OwnershipInv == IdsDistinct /\ LiveIsRegistered /\ PhasesMatch /\ WorkIsOwned

\* recordCompletion against the history: a task that is present has failed as
\* often as its retries say; it is deleted exactly when it has succeeded or has
\* used up MaxFailures; it never succeeds twice.  Holds even when zombie nodes
\* and retried transactions record completions of tasks they do not own.
HistoryConsistent ==
    \A t \in Tasks :
       LET max == MaxFailures[TypeOf[t]]
       IN  /\ row[t] = "unused" => succeeded[t] = 0 /\ failed[t] = 0 /\ retries[t] = 0
           /\ row[t] = "present" =>
                 /\ succeeded[t] = 0
                 /\ retries[t] = failed[t]
                 /\ max > 0 => failed[t] < max
           /\ row[t] = "deleted" =>
                 \/ succeeded[t] = 1 /\ (max > 0 => failed[t] < max)
                 \/ succeeded[t] = 0 /\ max > 0 /\ failed[t] = max

\* A task assigned to a live node is not forgotten: the node's poller is about
\* to start it or one of its goroutines works on it or records its end.  The
\* node's next start would be the only other way to get it moving.
NoStrandedTask ==
    \A h \in Hosts, t \in Tasks :
       Live(h) /\ owner[t] # NULL /\ owner[t] = ownerID[h] => Busy(h, t) > 0

\* The number of Do calls in progress, by type.
Running(h) ==
    [ty \in Types |-> SumFunctionOnSet(doing[h], {t \in Tasks : TypeOf[t] = ty})]

\* considerWork's comment "Work completing may lower the resource numbers
\* unexpectedly, but that will not invalidate work being already able to fit":
\* what a node runs fits the machine and the limiters, although the limit of a
\* claim is computed several statements before Max.Add, and the limiters count
\* what runs in whatever order poller and goroutines call Max.Add.
NoOvercommit == \A h \in Hosts : active[h] = Running(h) /\ Fits(Running(h))

-----------------------------------------------------------------------------
(* Action properties.                                                      *)

\* Nobody but the owner's own engine takes a task away from a live owner:
\* neither CleanupMachines nor the completion of another node's stale
\* goroutine does.
NoTheft ==
    [][\A h \in Hosts, t \in Tasks :
          /\ Live(h)
          /\ owner[t] # NULL /\ owner[t] = ownerID[h]
          /\ owner'[t] # owner[t]
          => \/ RefuseRecovered(h, t)
             \/ StartClaimed(h)
             \/ \E res \in Outcome : RecordCompletion(h, t, res)]_vars

\* restartIfNoTasksPending counts rows of harmony_task; when it exits the
\* process, the process really is idle.
RestartIsIdle ==
    [][\A h \in Hosts : RestartNode(h) => \A t \in Tasks : Busy(h, t) = 0]_vars

\* TimeSensitive's comment: "Should block shutdown until completion".  A
\* time-sensitive task that was completed by the process is recorded as such
\* before the process exits.
TimeSensitiveRecorded ==
    [][\A h \in Hosts : ExitProcess(h) =>
          \A t \in Tasks : TypeOf[t] \in TimeSensitive => recording[h][t]["done"] = 0]_vars

-----------------------------------------------------------------------------
(* Liveness and refinement.                                                *)

\* Every task that was added is settled in the end: crashes, shutdowns, lost
\* claims and nodes that never come back do not keep a task from being done or
\* dropped, as long as the operator leaves no node cordoned.
EventuallySettled ==
    <>[](\A h \in Hosts : ~unschedulable[h]) =>
       \A t \in Tasks : row[t] = "present" ~> row[t] = "deleted"

\* A cordoned node that is asked to restart drains its tasks and restarts,
\* unless the operator takes one of the two back.
RestartHonoured ==
    \A h \in Hosts :
       restartRequest[h] /\ unschedulable[h]
       ~> ~restartRequest[h] \/ ~unschedulable[h]

\* The ledger its users rely on, read off the tables.
StatusOf(r, successes) ==
    CASE r = "unused"  -> "unknown"
      [] r = "present" -> "pending"
      [] r = "deleted" -> IF successes > 0 THEN "done" ELSE "dropped"

LedgerStatus == [t \in Tasks |-> StatusOf(row[t], succeeded[t])]

FailureLimit == [t \in Tasks |-> MaxFailures[TypeOf[t]]]

Ledger == INSTANCE TaskLedger WITH status <- LedgerStatus, failures <- failed

\* Under crashes, zombie nodes and repeated transactions every step of the
\* cluster is a step of TaskLedger or leaves the ledger alone.
ImplementsLedger == Ledger!Spec

=============================================================================

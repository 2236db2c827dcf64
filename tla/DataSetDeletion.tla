--------------------------- MODULE DataSetDeletion ---------------------------
(***************************************************************************)
(* How PDP v0 gets rid of a data set (tasks/pdpv0, tasks/pay): the service *)
(* is terminated on chain, its end is awaited and its payment rail settled *)
(* for good, deleteDataSet puts the set into clean-up mode, cleanupPieces  *)
(* empties it, and only then are the local rows deleted.  A row of         *)
(* pdp_delete_data_set carries the set through the three stages; tasks     *)
(* send the messages, watchers read what became of them, and chain sync    *)
(* repairs what both have missed.                                          *)
(*                                                                         *)
(* One data set; the rows of others are worked on independently.  What the *)
(* chain has done stays done (reorganisations are only logged by the       *)
(* code), and every message that is sent is executed some day.             *)
(***************************************************************************)
EXTENDS Naturals

CONSTANTS
    DsWatchers,     \* nodes that run the watchers of PDP v0
    MaxDsTasks,     \* bound: tasks at a time
    MaxDsTxs,       \* bound: messages ever sent
    MaxSlots,       \* bound: piece slots of the data set
    MaxDsFaults     \* bound: failed task attempts and unreadable chain states

ASSUME DeletionAssumption ==
    /\ {MaxDsTasks, MaxDsTxs, MaxSlots, MaxDsFaults} \subseteq Nat
    /\ "sync" \notin DsWatchers

VARIABLES
    service,    \* FWSS and the rail: active, ending, ended, or final (settled to its end)
    verifier,   \* PDPVerifier: live, cleanup, or gone
    pieceSlots, \* nextPieceId
    dsTx,       \* the messages: kind, how the chain executed it, its row of message_waits_eth
    dsRow,      \* the row of pdp_delete_data_set
    dsLocal,    \* the rows of pdp_data_sets and its pieces: proved, unprovable (given up), or gone
    dsTask,     \* harmony_task, and how far its Do is
    dsSeen,     \* what the watcher of a node, or chain sync, has read and not acted on yet
    dsFaults

chainState == <<service, verifier, pieceSlots>>
dsVars == <<chainState, dsTx, dsRow, dsLocal, dsTask, dsSeen, dsFaults>>

Stages == {"terminate", "delete", "cleanup"}
Reconcilers == DsWatchers \cup {"sync"}
DsTasks == 1..MaxDsTasks
DsTxs == 1..MaxDsTxs
None == 0

Unsent == [kind |-> "none", done |-> "no", wait |-> "none"]
NoDsTask == [stage |-> "none", at |-> "none", tx |-> None]
Nothing == [stage |-> "none", tx |-> None, client |-> FALSE, ok |-> FALSE, service |-> "active", verifier |-> "live"]

NoDsRow == [there |-> FALSE]

\* clientTask is client_terminate_service_task_id, epoch says that
\* service_termination_epoch is known.
NewRow(client) ==
    [there |-> TRUE, client |-> client, clientTask |-> None,
     task |-> [s \in Stages |-> None], tx |-> [s \in Stages |-> None],
     afterTerminate |-> FALSE, epoch |-> FALSE, allowed |-> FALSE, afterDelete |-> FALSE]

Rows == [there : {TRUE}, client : BOOLEAN, clientTask : DsTasks \cup {None},
         task : [Stages -> DsTasks \cup {None}], tx : [Stages -> DsTxs \cup {None}],
         afterTerminate : BOOLEAN, epoch : BOOLEAN, allowed : BOOLEAN, afterDelete : BOOLEAN]

DeletionTypeOK ==
    /\ service \in {"active", "ending", "ended", "final"}
    /\ verifier \in {"live", "cleanup", "gone"}
    /\ pieceSlots \in 0..MaxSlots
    /\ dsTx \in [DsTxs -> [kind : Stages \cup {"none"}, done : {"no", "ok", "failed"}, wait : {"none", "pending", "done", "collected"}]]
    /\ dsRow \in Rows \cup {NoDsRow}
    /\ dsLocal \in {"proved", "unprovable", "gone"}
    /\ dsTask \in [DsTasks -> [stage : Stages \cup {"none"}, at : {"none", "read", "send", "commit", "finish"},
                               tx : DsTxs \cup {None}]]
    /\ dsSeen \in [Reconcilers -> [stage : Stages \cup {"none"}, tx : DsTxs \cup {None}, client : BOOLEAN, ok : BOOLEAN,
                                   service : {"active", "ending", "ended", "final"},
                                   verifier : {"live", "cleanup", "gone", "unknown"}]]
    /\ dsFaults \in 0..MaxDsFaults

DeletionInit ==
    /\ service = "active"
    /\ verifier = "live"
    /\ pieceSlots \in 0..MaxSlots
    /\ dsTx = [m \in DsTxs |-> Unsent]
    /\ dsRow = NoDsRow
    /\ dsLocal = "proved"
    /\ dsTask = [t \in DsTasks |-> NoDsTask]
    /\ dsSeen = [w \in Reconcilers |-> Nothing]
    /\ dsFaults = 0

\* The row waits for its message of the stage.
Awaits(stage) ==
    /\ dsRow.there
    /\ dsRow.tx[stage] # None
    /\ IF stage = "terminate" THEN dsRow.afterTerminate /\ ~dsRow.epoch ELSE dsRow.afterDelete /\ dsRow.epoch

-----------------------------------------------------------------------------
(* The chain.                                                              *)

\* The client ends the service on chain itself.
ClientTerminates ==
    /\ service = "active"
    /\ service' = "ending"
    /\ UNCHANGED <<verifier, pieceSlots, dsTx, dsRow, dsLocal, dsTask, dsSeen, dsFaults>>

EndEpochPasses ==
    /\ service = "ending"
    /\ service' = "ended"
    /\ UNCHANGED <<verifier, pieceSlots, dsTx, dsRow, dsLocal, dsTask, dsSeen, dsFaults>>

RailIsFinal ==
    /\ service = "ended"
    /\ service' = "final"
    /\ UNCHANGED <<verifier, pieceSlots, dsTx, dsRow, dsLocal, dsTask, dsSeen, dsFaults>>

\* Whether PDPVerifier and FWSS accept the message now.
Accepts(kind) ==
    CASE kind = "terminate" -> service = "active"
      [] kind = "delete"    -> verifier = "live" /\ service \in {"ended", "final"}
      [] kind = "cleanup"   -> verifier = "cleanup"

\* What an accepted message does; a clean-up frees some of the slots.
Effect(kind) ==
    CASE kind = "terminate" -> service' = "ending" /\ UNCHANGED <<verifier, pieceSlots>>
      [] kind = "delete"    -> verifier' = (IF pieceSlots = 0 THEN "gone" ELSE "cleanup") /\ UNCHANGED <<service, pieceSlots>>
      [] kind = "cleanup"   -> /\ pieceSlots' \in 0..(pieceSlots - 1)
                               /\ verifier' = (IF pieceSlots' = 0 THEN "gone" ELSE "cleanup")
                               /\ UNCHANGED service

\* Messages whose outcome nobody will ask for are forgotten.
Untracked(m) == dsTx[m].wait = "none" /\ \A t \in DsTasks : dsTask[t].tx # m

Execute(m) ==
    /\ dsTx[m].kind # "none"
    /\ dsTx[m].done = "no"
    /\ IF Accepts(dsTx[m].kind) THEN Effect(dsTx[m].kind) ELSE UNCHANGED chainState
    /\ dsTx' = [dsTx EXCEPT ![m] = IF Untracked(m) THEN Unsent
                                   ELSE [@ EXCEPT !.done = IF Accepts(dsTx[m].kind) THEN "ok" ELSE "failed"]]
    /\ UNCHANGED <<dsRow, dsLocal, dsTask, dsSeen, dsFaults>>

\* deleteDataSet or cleanupPieces of another tool of the operator.
SubmittedElsewhere(kind) ==
    /\ kind # "terminate"
    /\ Accepts(kind)
    /\ Effect(kind)
    /\ UNCHANGED <<dsTx, dsRow, dsLocal, dsTask, dsSeen, dsFaults>>

\* The message watcher finds the receipt (of messages the row waits for).
ConfirmWait(m) ==
    /\ \E s \in Stages : Awaits(s) /\ dsRow.tx[s] = m
    /\ dsTx[m].wait = "pending"
    /\ dsTx[m].done # "no"
    /\ dsTx' = [dsTx EXCEPT ![m].wait = "done"]
    /\ UNCHANGED <<chainState, dsRow, dsLocal, dsTask, dsSeen, dsFaults>>

\* Waits are dropped 30 days after they were confirmed, a time in which tasks and
\* watchers have come to an end or have given up.
CollectWait(m) ==
    /\ \E s \in Stages : Awaits(s) /\ dsRow.tx[s] = m
    /\ \A w \in DsWatchers : dsSeen[w] = Nothing
    /\ dsTask = [t \in DsTasks |-> NoDsTask]
    /\ dsTx[m].wait = "done"
    /\ dsTx' = [dsTx EXCEPT ![m].wait = "collected"]
    /\ UNCHANGED <<chainState, dsRow, dsLocal, dsTask, dsSeen, dsFaults>>

-----------------------------------------------------------------------------
(* Why a row is inserted.                                                  *)

\* handleTerminateDataSet; FWSS may have ended the service since it was asked.
RequestTermination ==
    /\ dsLocal # "gone"
    /\ service \in {"active", "ending"}
    /\ ~dsRow.there
    /\ dsRow' = NewRow(TRUE)
    /\ UNCHANGED <<chainState, dsTx, dsLocal, dsTask, dsSeen, dsFaults>>

\* EnsureServiceTermination: ON CONFLICT DO NOTHING.
EnsureServiceTermination(r) == IF r.there THEN r ELSE NewRow(FALSE)

\* HandleProvingSendError: the data set cannot be proven any more and is given
\* up, whoever has a row for it; tasks that were under way then may find the same.
ProvingFails ==
    /\ dsLocal # "gone"
    /\ dsLocal' = "unprovable"
    /\ dsRow' = EnsureServiceTermination(dsRow)
    /\ UNCHANGED <<chainState, dsTx, dsTask, dsSeen, dsFaults>>

\* pipelineFinalizationElapsed
FinalizationElapsed == dsRow.there /\ dsRow.afterTerminate /\ dsRow.epoch

\* verifySettle, after a settlement of the rail: a rail that ended or is about
\* to default starts the termination; one that is gone allows the deletion, if
\* the row has come that far.  (A rail that is settled to its end and can still
\* be read would allow it as well; the contract removes the rail with its last
\* settlement, so there is none.)
VerifySettle ==
    /\ dsRow' = IF service # "final" THEN EnsureServiceTermination(dsRow)
                ELSE IF FinalizationElapsed THEN [dsRow EXCEPT !.allowed = TRUE]
                ELSE dsRow
    /\ dsRow' # dsRow
    /\ UNCHANGED <<chainState, dsTx, dsLocal, dsTask, dsSeen, dsFaults>>

-----------------------------------------------------------------------------
(* The tasks of the three stages.                                          *)

\* The WHERE of the three schedule functions.
Due(stage) ==
    /\ dsRow.there
    /\ dsRow.task[stage] = None
    /\ CASE stage = "terminate" -> ~dsRow.afterTerminate
         [] stage = "delete"    -> /\ ~dsRow.afterDelete
                                   /\ dsRow.afterTerminate
                                   /\ dsRow.epoch
                                   /\ service \in {"ended", "final"}
                                   /\ dsRow.allowed
         [] stage = "cleanup"   -> /\ dsRow.tx["cleanup"] = None
                                   /\ dsRow.afterDelete
                                   /\ dsRow.tx["delete"] = None
                                   /\ dsRow.epoch

FreeTasks == {t \in DsTasks : dsTask[t] = NoDsTask}

ScheduleStage(stage) ==
    /\ Due(stage)
    /\ FreeTasks # {}
    /\ LET t == CHOOSE x \in FreeTasks : \A y \in FreeTasks : x <= y
       IN /\ dsTask' = [dsTask EXCEPT ![t] = [stage |-> stage, at |-> "read", tx |-> None]]
          /\ dsRow' = [dsRow EXCEPT !.task[stage] = t,
                                    !.clientTask = IF stage = "terminate" /\ dsRow.client THEN t ELSE @]
    /\ UNCHANGED <<chainState, dsTx, dsLocal, dsSeen, dsFaults>>

\* Mutant: client_terminate_service_task_id is not cleared with the task id.
KeepsClientTask(tx, epoch) ==
    [dsRow EXCEPT !.afterTerminate = TRUE, !.epoch = epoch,
                  !.task["terminate"] = None, !.tx["terminate"] = tx]

\* The row's stage is over, or has sent its message.  (terminate_tx_hash stays in
\* the row when the epoch is known; nothing reads it then.)
AfterTerminate(tx, epoch) ==
    [dsRow EXCEPT !.afterTerminate = TRUE, !.epoch = epoch, !.clientTask = None,
                  !.task["terminate"] = None, !.tx["terminate"] = tx]

AfterDelete(tx) ==
    [dsRow EXCEPT !.afterDelete = TRUE, !.task["delete"] = None, !.tx["delete"] = tx]

AfterCleanup(tx) ==
    [dsRow EXCEPT !.task["cleanup"] = None, !.tx["cleanup"] = tx]

\* resetCleanupToDelete, resetCleanupTxToDelete
BackToDelete ==
    [AfterCleanup(None) EXCEPT !.afterDelete = FALSE, !.tx["delete"] = None, !.task["delete"] = None]

\* cleanupFinalizedDataSet, whatever the row says by now.
CleanupFinalized == dsLocal' = "gone" /\ dsRow' = NoDsRow

\* What Do finds, before it has to send: the row is no longer its own, or the
\* chain is already where the message would bring it.  It reads the row, then the
\* chain, then updates: what the chain has reached it has reached for good, and
\* the update asks for the task id.
Finds(t) ==
    LET stage == dsTask[t].stage
    IN IF ~(dsRow.there /\ dsRow.task[stage] = t) THEN "not its row"
       ELSE CASE stage = "terminate" -> IF service # "active" THEN "ended" ELSE "send"
              [] stage # "terminate" /\ verifier = "gone" -> "gone"
              [] stage = "delete" /\ verifier # "gone" -> IF verifier = "cleanup" THEN "cleanup" ELSE "send"
              [] stage = "cleanup" /\ verifier # "gone" -> IF verifier = "live" THEN "live" ELSE "send"

DoStage(t) ==
    /\ dsTask[t].at = "read"
    /\ dsTask' = [dsTask EXCEPT ![t].at = IF Finds(t) = "send" THEN "send" ELSE "finish"]
    /\ CASE Finds(t) \in {"not its row", "send"} -> UNCHANGED <<dsRow, dsLocal>>
         [] Finds(t) = "ended"   -> dsRow' = AfterTerminate(None, TRUE) /\ UNCHANGED dsLocal
         [] Finds(t) = "cleanup" -> dsRow' = AfterDelete(None) /\ UNCHANGED dsLocal
         [] Finds(t) = "live"    -> dsRow' = BackToDelete /\ UNCHANGED dsLocal
         [] Finds(t) = "gone"    -> CleanupFinalized
    /\ UNCHANGED <<chainState, dsTx, dsSeen, dsFaults>>

FreeTxs == {m \in DsTxs : dsTx[m] = Unsent}

\* SenderETH.Send, which estimates gas first: what would fail now is not sent.
SendStage(t) ==
    /\ dsTask[t].at = "send"
    /\ Accepts(dsTask[t].stage)
    /\ FreeTxs # {}
    /\ LET m == CHOOSE x \in FreeTxs : \A y \in FreeTxs : x <= y
       IN /\ dsTx' = [dsTx EXCEPT ![m].kind = dsTask[t].stage]
          /\ dsTask' = [dsTask EXCEPT ![t].at = "commit", ![t].tx = m]
    /\ UNCHANGED <<chainState, dsRow, dsLocal, dsSeen, dsFaults>>

Retried(t) == dsTask' = [dsTask EXCEPT ![t].at = "read", ![t].tx = None]

\* The transaction that records the hash and the wait; it fails if the row is
\* no longer the task's, and Do then starts again.
CommitStage(t) ==
    LET stage == dsTask[t].stage
        m == dsTask[t].tx
    IN /\ dsTask[t].at = "commit"
       /\ IF dsRow.there /\ dsRow.task[stage] = t
          THEN /\ dsRow' = CASE stage = "terminate" -> AfterTerminate(m, FALSE)
                             [] stage = "delete"    -> AfterDelete(m)
                             [] stage = "cleanup"   -> AfterCleanup(m)
               /\ dsTx' = [dsTx EXCEPT ![m].wait = "pending"]
               /\ dsTask' = [dsTask EXCEPT ![t].at = "finish", ![t].tx = None]
          ELSE /\ Retried(t)
               /\ UNCHANGED <<dsRow, dsTx>>
       /\ UNCHANGED <<chainState, dsLocal, dsSeen, dsFaults>>

\* Mutant: no ON DELETE SET NULL; a task that was given up keeps its row.
TaskIdStays(t) == IF dsRow.there /\ dsRow.clientTask = t THEN NoDsRow ELSE dsRow

\* The foreign keys on harmony_task: ON DELETE CASCADE for the task that a
\* client asked for, ON DELETE SET NULL for the others.
TaskDeleted(t) ==
    IF ~dsRow.there THEN dsRow
    ELSE IF dsRow.clientTask = t THEN NoDsRow
    ELSE [dsRow EXCEPT !.task = [s \in Stages |-> IF dsRow.task[s] = t THEN None ELSE dsRow.task[s]]]

\* The engine deletes a task whose Do is done.
FinishStage(t) ==
    /\ dsTask[t].at = "finish"
    /\ dsTask' = [dsTask EXCEPT ![t] = NoDsTask]
    /\ dsRow' = TaskDeleted(t)
    /\ UNCHANGED <<chainState, dsTx, dsLocal, dsSeen, dsFaults>>

\* The chain has moved on and the estimate fails.
SendRefused(t) ==
    /\ dsTask[t].at = "send"
    /\ ~Accepts(dsTask[t].stage)
    /\ Retried(t)
    /\ UNCHANGED <<chainState, dsTx, dsRow, dsLocal, dsSeen, dsFaults>>

\* An attempt fails or its node dies, also between the send and the commit.
StageFails(t) ==
    /\ dsTask[t].at \in {"read", "send", "commit"}
    /\ dsFaults < MaxDsFaults
    /\ dsFaults' = dsFaults + 1
    /\ Retried(t)
    /\ UNCHANGED <<chainState, dsTx, dsRow, dsLocal, dsSeen>>

\* The last attempt fails: the engine gives the task up.
StageGivenUp(t) ==
    /\ dsTask[t].at \in {"read", "send", "commit"}
    /\ dsFaults < MaxDsFaults
    /\ dsFaults' = dsFaults + 1
    /\ dsTask' = [dsTask EXCEPT ![t] = NoDsTask]
    /\ dsRow' = TaskDeleted(t)
    /\ UNCHANGED <<chainState, dsTx, dsLocal, dsSeen>>

-----------------------------------------------------------------------------
(* Watchers and chain sync.                                                *)

\* processTerminations, processPendingDeletes, processPendingCleanupPieces for
\* messages whose wait is confirmed, the three syncMissing...MessageWaits for
\* messages without a wait: the row is read, then the chain.
Look(w, stage, unreadable) ==
    /\ dsSeen[w] = Nothing
    /\ Awaits(stage)
    /\ LET m == dsRow.tx[stage]
       IN /\ dsTx[m].wait = (IF w = "sync" THEN "collected" ELSE "done")
          /\ unreadable => w # "sync" /\ stage # "terminate" /\ dsTx[m].done = "failed" /\ dsFaults < MaxDsFaults
          /\ dsSeen' = [dsSeen EXCEPT ![w] =
                 [stage |-> stage, tx |-> m, client |-> dsRow.client,
                  ok |-> w # "sync" /\ dsTx[m].done = "ok", service |-> service,
                  verifier |-> IF unreadable THEN "unknown" ELSE verifier]]
    /\ dsFaults' = IF unreadable THEN dsFaults + 1 ELSE dsFaults
    /\ UNCHANGED <<chainState, dsTx, dsRow, dsLocal, dsTask>>

\* The updates are conditional on the hash that was read.
Still(x) == Awaits(x.stage) /\ dsRow.tx[x.stage] = x.tx

\* A confirmed termination, or the end of it: a client is told by the missing
\* row to ask again, the provider's own is tried again.
ApplyTerminate(x) ==
    /\ dsRow' = CASE ~Still(x) -> dsRow
                  [] Still(x) /\ x.service # "active" ->
                        AfterTerminate(None, TRUE)
                  [] Still(x) /\ x.service = "active" ->
                        IF x.ok THEN dsRow
                        ELSE IF x.client THEN NoDsRow
                        ELSE [dsRow EXCEPT !.tx["terminate"] = None, !.afterTerminate = FALSE, !.task["terminate"] = None]
    /\ UNCHANGED dsLocal

\* Mutant: a set that is no longer live counts as deleted.
NotLiveIsGone(x) ==
    IF x.verifier \in {"cleanup", "gone"}
    THEN CleanupFinalized
    ELSE /\ dsRow' = IF ~Still(x) \/ (x.verifier = "live" /\ x.ok) THEN dsRow
                     ELSE [AfterDelete(None) EXCEPT !.afterDelete = FALSE]
         /\ UNCHANGED dsLocal

ApplyDelete(x) ==
    IF x.verifier = "gone"
    THEN CleanupFinalized
    ELSE /\ dsRow' = IF ~Still(x) \/ (x.verifier = "live" /\ x.ok) THEN dsRow
                     ELSE IF x.verifier = "cleanup" THEN AfterDelete(None)
                     ELSE [AfterDelete(None) EXCEPT !.afterDelete = FALSE]
         /\ UNCHANGED dsLocal

ApplyCleanup(x) ==
    IF x.verifier = "gone"
    THEN CleanupFinalized
    ELSE /\ dsRow' = IF ~Still(x) THEN dsRow
                     ELSE IF x.verifier = "live" THEN BackToDelete
                     ELSE AfterCleanup(None)
         /\ UNCHANGED dsLocal

Reconcile(w) ==
    LET x == dsSeen[w]
    IN /\ x # Nothing
       /\ dsSeen' = [dsSeen EXCEPT ![w] = Nothing]
       /\ CASE x.stage = "terminate" -> ApplyTerminate(x)
            [] x.stage = "delete"    -> ApplyDelete(x)
            [] x.stage = "cleanup"   -> ApplyCleanup(x)
       /\ dsTx' = IF \/ dsRow'.there /\ dsRow'.tx[x.stage] = x.tx
                     \/ \E v \in Reconcilers \ {w} : dsSeen[v].tx = x.tx
                  THEN dsTx ELSE [dsTx EXCEPT ![x.tx] = Unsent]
       /\ UNCHANGED <<chainState, dsTask, dsFaults>>

\* syncFinalizedDataSetDeletionRails
SyncRails ==
    /\ dsRow.there
    /\ dsRow.afterTerminate
    /\ dsRow.epoch
    /\ ~dsRow.allowed
    /\ service = "final"
    /\ dsRow' = [dsRow EXCEPT !.allowed = TRUE]
    /\ UNCHANGED <<chainState, dsTx, dsLocal, dsTask, dsSeen, dsFaults>>

\* syncPDPVerifierDeletionState
SyncVerifier ==
    /\ dsRow.there
    /\ dsRow.allowed
    /\ dsRow.epoch
    /\ \/ verifier = "gone" /\ CleanupFinalized
       \/ verifier = "cleanup" /\ ~dsRow.afterDelete /\ dsRow' = AfterDelete(None) /\ UNCHANGED dsLocal
    /\ UNCHANGED <<chainState, dsTx, dsTask, dsSeen, dsFaults>>

-----------------------------------------------------------------------------

DeletionNext ==
    \/ ClientTerminates
    \/ EndEpochPasses
    \/ RailIsFinal
    \/ \E m \in DsTxs : Execute(m)
    \/ \E k \in Stages : SubmittedElsewhere(k)
    \/ \E m \in DsTxs : ConfirmWait(m)
    \/ \E m \in DsTxs : CollectWait(m)
    \/ RequestTermination
    \/ ProvingFails
    \/ VerifySettle
    \/ \E s \in Stages : ScheduleStage(s)
    \/ \E t \in DsTasks : DoStage(t)
    \/ \E t \in DsTasks : SendStage(t)
    \/ \E t \in DsTasks : CommitStage(t)
    \/ \E t \in DsTasks : FinishStage(t)
    \/ \E t \in DsTasks : SendRefused(t)
    \/ \E t \in DsTasks : StageFails(t)
    \/ \E t \in DsTasks : StageGivenUp(t)
    \/ \E w \in Reconcilers, s \in Stages, u \in BOOLEAN : Look(w, s, u)
    \/ \E w \in Reconcilers : Reconcile(w)
    \/ SyncRails
    \/ SyncVerifier

DeletionSpec == DeletionInit /\ [][DeletionNext]_dsVars

-----------------------------------------------------------------------------
(* Properties.                                                             *)

\* Nothing happens before its time, though rows are reset, re-inserted and
\* worked on by tasks they no longer belong to: the set is deleted only after
\* its rail is settled to the end, its pieces are cleaned up only after that,
\* and its local rows go only after the chain has forgotten it.
DeletionIsOrdered ==
    /\ \A m \in DsTxs : dsTx[m].kind = "delete" => service = "final"
    /\ \A m \in DsTxs : dsTx[m].kind = "cleanup" => verifier # "live"
    /\ dsLocal = "gone" => verifier = "gone"

\* The row goes with the data set; before that only a client's request is
\* dropped, and not while its message may still be confirmed or once the end of
\* the service is known.
RowKept ==
    [][dsRow.there /\ ~dsRow'.there =>
          \/ dsLocal' = "gone"
          \/ dsRow.client /\ ~dsRow.epoch /\ (dsRow.afterTerminate => dsTx[dsRow.tx["terminate"]].done = "failed")]_dsVars

\* Every deletion comes to an end, though messages fail, attempts are lost, tasks
\* are given up and waits are collected unread: no row of pdp_delete_data_set stays
\* for ever.  By RowKept a row of the provider, or one that knows the end of the
\* service, ends with the data set gone, on chain and off it; a client's may also
\* end because its termination failed.  A decision that the provider has taken
\* over a client's row (ProvingFails) is then lost: the set is unprovable, and not
\* scheduled for deletion.
DeletionEnds == []<>~dsRow.there
==============================================================================

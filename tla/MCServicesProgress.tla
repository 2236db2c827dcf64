------------------------- MODULE MCServicesProgress -------------------------
(***************************************************************************)
(* The components of MCServices that promise progress, for TLC: a          *)
(* behaviour is a fair behaviour of one of them, part.                     *)
(***************************************************************************)
EXTENDS SingletonTask, MessageWatcher, PiecePark, BatchSealing, DataSetDeletion, PieceAds, DataSetProving

VARIABLE part

MCCases == {[kind |-> "fil", nodes |-> {"n1", "n2"}, msgs |-> {0}], [kind |-> "eth", nodes |-> {"n1"}, msgs |-> {0}]}

progressVars == <<part, singletonVars, watchVars, parkVars, batchVars, dsVars, adVars, provingVars>>

ProgressInit ==
    /\ part \in {"singleton", "watch", "park", "batch", "deletion", "ads", "proving"}
    /\ SingletonInit
    /\ WatchInit
    /\ ParkInit
    /\ BatchInit
    /\ DeletionInit
    /\ AdsInit
    /\ ProvingInit
    /\ part = "watch" \/ its = CHOOSE c \in Cases : TRUE
    /\ part = "park" \/ indexed
    /\ part = "deletion" \/ pieceSlots = 0

SingletonRuns == part = "singleton"
SingletonAlone == UNCHANGED <<part, watchVars, parkVars, batchVars, dsVars, adVars, provingVars>>

WatchRuns == part = "watch"
WatchAlone == UNCHANGED <<part, singletonVars, parkVars, batchVars, dsVars, adVars, provingVars>>

ParkRuns == part = "park"
ParkAlone == UNCHANGED <<part, singletonVars, watchVars, batchVars, dsVars, adVars, provingVars>>

BatchRuns == part = "batch"
BatchAlone == UNCHANGED <<part, singletonVars, watchVars, parkVars, dsVars, adVars, provingVars>>

DeletionRuns == part = "deletion"
DeletionAlone == UNCHANGED <<part, singletonVars, watchVars, parkVars, batchVars, adVars, provingVars>>

AdsRuns == part = "ads"
AdsAlone == UNCHANGED <<part, singletonVars, watchVars, parkVars, batchVars, dsVars, provingVars>>

ProvingRuns == part = "proving"
ProvingAlone == UNCHANGED <<part, singletonVars, watchVars, parkVars, batchVars, dsVars, adVars>>

\* In the part ads only the first reference leaves its data set.
ProgressNext ==
    \/ \E n \in Offerers : SingletonRuns /\ IAmBored(n) /\ SingletonAlone
    \/ \E n \in Offerers : SingletonRuns /\ SelectRow(n) /\ SingletonAlone
    \/ \E n \in Offerers, t \in TaskIds : SingletonRuns /\ UpsertRow(n, t) /\ SingletonAlone
    \/ \E n \in Offerers : SingletonRuns /\ UpsertConflict(n) /\ SingletonAlone
    \/ \E n \in Offerers : SingletonRuns /\ AddTaskFails(n) /\ SingletonAlone
    \/ \E n \in Offerers : SingletonRuns /\ SingletonRunNowPoller(n) /\ SingletonAlone
    \/ \E n \in Offerers : SingletonRuns /\ RestartOffering(n) /\ SingletonAlone
    \/ \E n \in Offerers : SingletonRuns /\ NodeIntervalPasses(n) /\ SingletonAlone
    \/ SingletonRuns /\ SingletonRunNow /\ SingletonAlone
    \/ \E t \in TaskIds : SingletonRuns /\ TaskEnds(t) /\ SingletonAlone
    \/ SingletonRuns /\ RunIntervalPasses /\ SingletonAlone
    \/ \E k \in 0..Confidence, d \in Depths : WatchRuns /\ NewHead(k, d) /\ WatchAlone
    \/ \E m \in Msgs : WatchRuns /\ AddWait(m) /\ WatchAlone
    \/ \E n \in Watchers : WatchRuns /\ Subscribe(n) /\ WatchAlone
    \/ \E n \in Watchers : WatchRuns /\ LoseSubscription(n) /\ WatchAlone
    \/ \E n \in Watchers : WatchRuns /\ Notify(n) /\ WatchAlone
    \/ \E n \in Watchers : WatchRuns /\ UpdateFails(n) /\ WatchAlone
    \/ \E n \in Watchers : WatchRuns /\ AssignWaits(n) /\ WatchAlone
    \/ \E n \in Watchers : WatchRuns /\ SelectWaits(n) /\ WatchAlone
    \/ \E n \in Watchers, m \in Msgs : WatchRuns /\ CheckWait(n, m) /\ WatchAlone
    \/ \E n \in Watchers : WatchRuns /\ FinishUpdate(n) /\ WatchAlone
    \/ \E n \in Watchers : WatchRuns /\ StopWatcher(n) /\ WatchAlone
    \/ \E n \in Watchers : WatchRuns /\ StartWatcher(n) /\ WatchAlone
    \/ \E n \in Watchers : WatchRuns /\ CleanupMachine(n) /\ WatchAlone
    \/ WatchRuns /\ CollectWaits /\ WatchAlone
    \/ \E d \in Deals : ParkRuns /\ Upsert(d) /\ ParkAlone
    \/ \E d \in Deals : ParkRuns /\ UpsertFallback(d) /\ ParkAlone
    \/ \E d \in Deals, i \in Pieces : ParkRuns /\ FindPiece(d, i) /\ ParkAlone
    \/ \E d \in Deals : ParkRuns /\ DropRef(d) /\ ParkAlone
    \/ \E i \in Pieces : ParkRuns /\ PollPieceTasks(i) /\ ParkAlone
    \/ \E i \in Pieces : ParkRuns /\ StartFetch(i) /\ ParkAlone
    \/ \E i \in Pieces : ParkRuns /\ WritePiece(i) /\ ParkAlone
    \/ \E i \in Pieces : ParkRuns /\ StorePiece(i) /\ ParkAlone
    \/ \E i \in Pieces : ParkRuns /\ FetchFails(i) /\ ParkAlone
    \/ \E i \in Pieces : ParkRuns /\ ScheduleCleanup(i) /\ ParkAlone
    \/ \E i \in Pieces : ParkRuns /\ StartCleanup(i) /\ ParkAlone
    \/ \E i \in Pieces : ParkRuns /\ DeletePiece(i) /\ ParkAlone
    \/ \E i \in Pieces : ParkRuns /\ UnclaimPiece(i) /\ ParkAlone
    \/ \E i \in Pieces : ParkRuns /\ RemovePiece(i) /\ ParkAlone
    \/ \E i \in Pieces : ParkRuns /\ CleanupCrashes(i) /\ ParkAlone
    \/ ParkRuns /\ FindDuplicates /\ ParkAlone
    \/ ParkRuns /\ ChooseWinner /\ ParkAlone
    \/ ParkRuns /\ MergeDuplicates /\ ParkAlone
    \/ ParkRuns /\ RemoveLosers /\ ParkAlone
    \/ ParkRuns /\ CreateIndex /\ ParkAlone
    \/ ParkRuns /\ FixFails /\ ParkAlone
    \/ \E b \in Batches : BatchRuns /\ Schedule(b) /\ BatchAlone
    \/ \E b \in Batches : BatchRuns /\ StartBatch(b) /\ BatchAlone
    \/ \E b \in Batches : BatchRuns /\ LockInSDR(b) /\ BatchAlone
    \/ \E b \in Batches : BatchRuns /\ Get(b) /\ BatchAlone
    \/ \E b \in Batches : BatchRuns /\ Pc1(b) /\ BatchAlone
    \/ \E b \in Batches : BatchRuns /\ LockOutSDR(b) /\ BatchAlone
    \/ \E b \in Batches : BatchRuns /\ Pc2(b) /\ BatchAlone
    \/ \E b \in Batches : BatchRuns /\ MarkWorkDone(b) /\ BatchAlone
    \/ \E b \in Batches : BatchRuns /\ BatchFails(b) /\ BatchAlone
    \/ \E s \in Slots : BatchRuns /\ WatchSlot(s) /\ BatchAlone
    \/ \E x \in BatchSectors : BatchRuns /\ StartFinalize(x) /\ BatchAlone
    \/ \E x \in BatchSectors : BatchRuns /\ DeleteRef(x) /\ BatchAlone
    \/ \E x \in BatchSectors : BatchRuns /\ SectorDone(x) /\ BatchAlone
    \/ \E x \in BatchSectors : BatchRuns /\ FinishFinalize(x) /\ BatchAlone
    \/ \E x \in BatchSectors : BatchRuns /\ FinalizeFails(x) /\ BatchAlone
    \/ \E x \in BatchSectors : BatchRuns /\ SectorRemove(x) /\ BatchAlone
    \/ BatchRuns /\ RestartMachine /\ BatchAlone
    \/ DeletionRuns /\ ClientTerminates /\ DeletionAlone
    \/ DeletionRuns /\ EndEpochPasses /\ DeletionAlone
    \/ DeletionRuns /\ RailIsFinal /\ DeletionAlone
    \/ \E m \in DsTxs : DeletionRuns /\ Execute(m) /\ DeletionAlone
    \/ \E k \in Stages : DeletionRuns /\ SubmittedElsewhere(k) /\ DeletionAlone
    \/ \E m \in DsTxs : DeletionRuns /\ ConfirmWait(m) /\ DeletionAlone
    \/ \E m \in DsTxs : DeletionRuns /\ CollectWait(m) /\ DeletionAlone
    \/ DeletionRuns /\ RequestTermination /\ DeletionAlone
    \/ DeletionRuns /\ ProvingFails /\ DeletionAlone
    \/ DeletionRuns /\ VerifySettle /\ DeletionAlone
    \/ \E s \in Stages : DeletionRuns /\ ScheduleStage(s) /\ DeletionAlone
    \/ \E t \in DsTasks : DeletionRuns /\ DoStage(t) /\ DeletionAlone
    \/ \E t \in DsTasks : DeletionRuns /\ SendStage(t) /\ DeletionAlone
    \/ \E t \in DsTasks : DeletionRuns /\ CommitStage(t) /\ DeletionAlone
    \/ \E t \in DsTasks : DeletionRuns /\ FinishStage(t) /\ DeletionAlone
    \/ \E t \in DsTasks : DeletionRuns /\ SendRefused(t) /\ DeletionAlone
    \/ \E t \in DsTasks : DeletionRuns /\ StageFails(t) /\ DeletionAlone
    \/ \E t \in DsTasks : DeletionRuns /\ StageGivenUp(t) /\ DeletionAlone
    \/ \E w \in Reconcilers, s \in Stages, u \in BOOLEAN : DeletionRuns /\ Look(w, s, u) /\ DeletionAlone
    \/ \E w \in Reconcilers : DeletionRuns /\ Reconcile(w) /\ DeletionAlone
    \/ DeletionRuns /\ SyncRails /\ DeletionAlone
    \/ DeletionRuns /\ SyncVerifier /\ DeletionAlone
    \/ \E r \in AdRefs, p \in AdPieces : AdsRuns /\ UploadDone(r, p) /\ AdsAlone
    \/ \E r \in AdRefs, mustIndex \in BOOLEAN : AdsRuns /\ AddToDataSet(r, mustIndex) /\ AdsAlone
    \/ \E r \in AdRefs : AdsRuns /\ r = 1 /\ LeaveDataSet(r) /\ AdsAlone
    \/ \E r \in AdRefs : AdsRuns /\ ScheduleIndexing(r) /\ AdsAlone
    \/ \E r \in AdRefs : AdsRuns /\ CheckHasPiece(r) /\ AdsAlone
    \/ \E r \in AdRefs : AdsRuns /\ AddFirst(r) /\ AdsAlone
    \/ \E r \in AdRefs : AdsRuns /\ AddRest(r) /\ AdsAlone
    \/ \E r \in AdRefs : AdsRuns /\ FinishIndexing(r) /\ AdsAlone
    \/ \E r \in AdRefs : AdsRuns /\ IndexingFails(r) /\ AdsAlone
    \/ \E r \in AdRefs : AdsRuns /\ IndexingLost(r) /\ AdsAlone
    \/ \E r \in AdRefs : AdsRuns /\ ScheduleIpni(r) /\ AdsAlone
    \/ \E r \in AdRefs : AdsRuns /\ CheckAd(r) /\ AdsAlone
    \/ \E r \in AdRefs : AdsRuns /\ ReadHead(r) /\ AdsAlone
    \/ \E r \in AdRefs : AdsRuns /\ InsertAd(r) /\ AdsAlone
    \/ \E r \in AdRefs : AdsRuns /\ IpniFails(r) /\ AdsAlone
    \/ \E r \in AdRefs : AdsRuns /\ IpniLost(r) /\ AdsAlone
    \/ AdsRuns /\ SelectUnused /\ AdsAlone
    \/ \E r \in AdRefs : AdsRuns /\ CollectRef(r) /\ AdsAlone
    \/ AdsRuns /\ DropIndex /\ AdsAlone
    \/ AdsRuns /\ GCFails /\ AdsAlone
    \/ ProvingRuns /\ WindowOpens /\ ProvingAlone
    \/ ProvingRuns /\ PeriodEnds /\ ProvingAlone
    \/ ProvingRuns /\ BackoffEnds /\ ProvingAlone
    \/ ProvingRuns /\ AddPieces /\ ProvingAlone
    \/ \E empty \in BOOLEAN : ProvingRuns /\ RowMessageLands(empty) /\ ProvingAlone
    \/ ProvingRuns /\ RowMessageReverts /\ ProvingAlone
    \/ \E empty \in BOOLEAN : ProvingRuns /\ TaskMessageLands(empty) /\ ProvingAlone
    \/ ProvingRuns /\ TaskMessageReverts /\ ProvingAlone
    \/ \E at \in Periods, empty \in BOOLEAN : ProvingRuns /\ StrayLands(at, empty) /\ ProvingAlone
    \/ \E at \in Periods : ProvingRuns /\ StrayReverts(at) /\ ProvingAlone
    \/ ProvingRuns /\ InitOnAdd /\ ProvingAlone
    \/ \E k \in Kinds : ProvingRuns /\ PickPP(k) /\ ProvingAlone
    \/ \E k \in Kinds : ProvingRuns /\ AddPPTask(k) /\ ProvingAlone
    \/ \E k \in Kinds : ProvingRuns /\ AddPPTaskFails(k) /\ ProvingAlone
    \/ ProvingRuns /\ PPIsVoid /\ ProvingAlone
    \/ ProvingRuns /\ ResetToInit /\ ProvingAlone
    \/ ProvingRuns /\ FindNoLeaves /\ ProvingAlone
    \/ ProvingRuns /\ DisableInit /\ ProvingAlone
    \/ ProvingRuns /\ SendPP /\ ProvingAlone
    \/ \E ended \in BOOLEAN : ProvingRuns /\ SendPPRefused(ended) /\ ProvingAlone
    \/ ProvingRuns /\ CommitPP /\ ProvingAlone
    \/ \E last \in BOOLEAN : ProvingRuns /\ PPFails(last) /\ ProvingAlone
    \/ \E t \in ProveTasks : ProvingRuns /\ AddProveTask(t) /\ ProvingAlone
    \/ \E t \in ProveTasks : ProvingRuns /\ SkipProof(t) /\ ProvingAlone
    \/ \E t \in ProveTasks : ProvingRuns /\ ReadChallenge(t) /\ ProvingAlone
    \/ \E t \in ProveTasks : ProvingRuns /\ DisableProving(t) /\ ProvingAlone
    \/ \E t \in ProveTasks : ProvingRuns /\ SendProof(t) /\ ProvingAlone
    \/ \E t \in ProveTasks, ended \in BOOLEAN : ProvingRuns /\ SendProofRefused(t, ended) /\ ProvingAlone
    \/ \E t \in ProveTasks, reset \in BOOLEAN : ProvingRuns /\ FinishProof(t, reset) /\ ProvingAlone
    \/ \E t \in ProveTasks, last \in BOOLEAN : ProvingRuns /\ ProofFails(t, last) /\ ProvingAlone
    \/ ProvingRuns /\ SyncFailures /\ ProvingAlone

-----------------------------------------------------------------------------
(* Fairness.  A part has processes of several kinds k, numbered i, each of *)
(* which goes on when it can; a behaviour is of one part, so that one      *)
(* condition per k and i serves all parts.                                 *)

Nodes == <<"n1", "n2">>
Ids   == <<"t1", "t2">>

\* Pollers come round and tasks end.  Time need not pass.
SingletonProcess(k, i) ==
    /\ i \in 1..2
    /\ \/ k = 1 /\ (IAmBored(Nodes[i]) \/ SelectRow(Nodes[i]) \/ UpsertConflict(Nodes[i]))
       \/ k = 2 /\ SingletonRunNowPoller(Nodes[i])
       \/ k = 3 /\ TaskEnds(Ids[i])

\* Goroutines run; a machine that is gone is cleaned up some day (it need not
\* come back).
WatchProcess(k, i) ==
    /\ i \in 1..2
    /\ LET n == Nodes[i]
       IN \/ k = 1 /\ (Subscribe(n) \/ Notify(n))
          \/ k = 2 /\ \/ UpdateFails(n) /\ ~hasRow[n]
                      \/ AssignWaits(n)
                      \/ SelectWaits(n)
                      \/ \E m \in Msgs : CheckWait(n, m)
                      \/ FinishUpdate(n)
          \/ k = 3 /\ CleanupMachine(n) /\ ~up[n]

\* DropPiece's poller comes round and its tasks run.
ParkProcess(k, i) ==
    /\ k = 1
    /\ i \in Pieces
    /\ \/ ScheduleCleanup(i)
       \/ StartCleanup(i)
       \/ DeletePiece(i)
       \/ UnclaimPiece(i)
       \/ RemovePiece(i)

\* Do runs in a goroutine that a mutex or the slots may hold up; the engine
\* offers a task until it is accepted and repeats one that failed.
BatchProcess(k, i) ==
    \/ /\ k = 1
       /\ i \in Batches
       /\ \/ StartBatch(i)
          \/ LockInSDR(i)
          \/ Get(i)
          \/ Pc1(i)
          \/ LockOutSDR(i)
          \/ Pc2(i)
          \/ MarkWorkDone(i)
    \/ k = 2 /\ i \in Slots /\ WatchSlot(i)
    \/ /\ k = 3
       /\ \E x \in SectorsOf(i) : \/ StartFinalize(x)
                                 \/ DeleteRef(x)
                                 \/ SectorDone(x)
                                 \/ FinishFinalize(x)

\* Messages are executed and their waits resolved; tasks run, and the node
\* answers in the end; the end epoch of a terminated service comes and its rail
\* is settled to it; pollers, the watcher and chain sync come round.
DeletionProcess(k, i) ==
    \/ k = 1 /\ i \in DsTxs /\ (Execute(i) \/ ConfirmWait(i))
    \/ k = 2 /\ i \in DsTasks /\ (DoStage(i) \/ SendStage(i) \/ CommitStage(i) \/ FinishStage(i) \/ SendRefused(i))
    \/ k = 3 /\ i = 1 /\ (EndEpochPasses \/ RailIsFinal)
    \/ k = 3 /\ i = 2 /\ \E s \in Stages : ScheduleStage(s)
    \/ k = 3 /\ i = 3 /\ (SyncRails \/ SyncVerifier)
    \/ k = 4 /\ \E w \in Reconcilers : /\ i = (IF w = "sync" THEN 2 ELSE 1)
                                      /\ \/ Reconcile(w)
                                         \/ \E s \in Stages : Look(w, s, FALSE)

\* The poller of PDPv0_IPNI comes round and its tasks run.
AdsProcess(k, i) ==
    /\ i \in AdRefs
    /\ \/ k = 1 /\ ScheduleIpni(i)
       \/ k = 2 /\ (CheckAd(i) \/ ReadHead(i) \/ InsertAd(i))

\* Tasks of PDP v0 run, without a fault.
RunsPP ==
    \/ PPIsVoid
    \/ ResetToInit
    \/ FindNoLeaves
    \/ DisableInit
    \/ SendPP
    \/ ~Schedulable(PPWindow) /\ SendPPRefused(FALSE)
    \/ CommitPP

RunsProof(t) ==
    \/ SkipProof(t)
    \/ ReadChallenge(t)
    \/ DisableProving(t)
    \/ SendProof(t)
    \/ ~Provable(proveTask[t].at) /\ SendProofRefused(t, FALSE)
    \/ FinishProof(t, TRUE)

\* Time passes; the watchers of PDP v0 are notified of heads; the message of the
\* row is executed; tasks run.
ProvingProcess(k, i) ==
    \/ k = 1 /\ i \in 1..2 /\ LET kind == <<"init", "next">>[i] IN PickPP(kind) \/ AddPPTask(kind) \/ AddPPTaskFails(kind)
    \/ k = 1 /\ i = 3 /\ \E t \in ProveTasks : AddProveTask(t)
    \/ k = 2 /\ i \in ProveTasks /\ RunsProof(i)
    \/ k = 3 /\ i = 1 /\ RunsPP
    \/ k = 3 /\ i = 2 /\ (RowMessageLands(FALSE) \/ RowMessageReverts)
    \/ k = 4 /\ i = 1 /\ (WindowOpens \/ PeriodEnds)
    \/ k = 4 /\ i = 2 /\ BackoffEnds

\* A period is long: from some time on what can be done in it is done before it
\* is over.
PeriodsAreLong ==
    <>[][ProvingRuns /\ PeriodEnds => \A k, i \in 1..3 : ~ENABLED ProvingProcess(k, i)]_progressVars

Process(k, i) ==
    \/ SingletonRuns /\ SingletonProcess(k, i) /\ SingletonAlone
    \/ WatchRuns /\ WatchProcess(k, i) /\ WatchAlone
    \/ ParkRuns /\ ParkProcess(k, i) /\ ParkAlone
    \/ BatchRuns /\ BatchProcess(k, i) /\ BatchAlone
    \/ DeletionRuns /\ DeletionProcess(k, i) /\ DeletionAlone
    \/ AdsRuns /\ AdsProcess(k, i) /\ AdsAlone
    \/ ProvingRuns /\ ProvingProcess(k, i) /\ ProvingAlone

\* The chain grows, and again and again by a tipset that executes what is sent.
ChainGrows == \E d \in Depths : NewHead(0, d) /\ \A m \in its.msgs : depth[m] = 0 => d[m] = 1

\* When the transactions of singleton tasks are tried again and again, not every
\* one fails.
ProgressFairness ==
    /\ \A k \in 1..4, i \in 1..3 : WF_progressVars(Process(k, i))
    /\ SF_progressVars(\/ SingletonRuns /\ (\E n \in Offerers : SelectRow(n)) /\ SingletonAlone
                       \/ WatchRuns /\ ChainGrows /\ WatchAlone)
    /\ SF_progressVars(SingletonRuns /\ (\E n \in Offerers, t \in TaskIds : UpsertRow(n, t)) /\ SingletonAlone)
    /\ PeriodsAreLong

ProgressSpec == ProgressInit /\ [][ProgressNext]_progressVars /\ ProgressFairness
=============================================================================

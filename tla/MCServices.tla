----------------------------- MODULE MCServices -----------------------------
(***************************************************************************)
(* The components that share no state with one another, for TLC: singleton *)
(* tasks, message watchers, winning PoSt, the piece park, the cached piece *)
(* reader, Supraseal batches, the deletion of data sets, the announcement  *)
(* of pieces and the proving of data sets.  A behaviour is a behaviour of  *)
(* one of them, part, chosen at the start; the others stay where they      *)
(* begin.  Pieces, miners and the watchers of data sets are                *)
(* interchangeable: the first reference is to "p", and of two miners, or   *)
(* two watchers, in the same situation "n1" goes first.  Where a miner     *)
(* starts again does not matter when it can add no more tasks.             *)
(***************************************************************************)
EXTENDS SingletonTask, MessageWatcher, WinningPoSt, PiecePark, CachedReader, BatchSealing, DataSetDeletion, PieceAds,
        DataSetProving

VARIABLE part

Parts == {"singleton", "watch", "win", "park", "reader", "batch", "deletion", "ads", "proving"}

MCCases ==
    [kind : {"fil", "eth"}, nodes : {{"n1", "n2"}}, msgs : {{0}}]
        \cup [kind : {"fil", "eth"}, nodes : {{"n1"}}, msgs : {{0, 1}}]

servicesVars == <<part, singletonVars, watchVars, winVars, parkVars, readerVars, batchVars, dsVars, adVars, provingVars>>

ServicesTypeOK ==
    /\ part \in Parts
    /\ part = "singleton" => SingletonTypeOK
    /\ part = "watch" => WatchTypeOK
    /\ part = "win" => WinTypeOK
    /\ part = "park" => ParkTypeOK
    /\ part = "reader" => ReaderTypeOK
    /\ part = "batch" => BatchTypeOK
    /\ part = "deletion" => DeletionTypeOK
    /\ part = "ads" => AdsTypeOK
    /\ part = "proving" => ProvingTypeOK

ServicesInit ==
    /\ part \in Parts
    /\ SingletonInit
    /\ WatchInit
    /\ WinInit
    /\ ParkInit
    /\ ReaderInit
    /\ BatchInit
    /\ DeletionInit
    /\ AdsInit
    /\ ProvingInit
    /\ part = "watch" \/ its = CHOOSE c \in Cases : TRUE
    /\ part = "park" \/ indexed
    /\ part = "deletion" \/ pieceSlots = 0

SingletonRuns == part = "singleton"
SingletonAlone == UNCHANGED <<part, watchVars, winVars, parkVars, readerVars, batchVars, dsVars, adVars, provingVars>>

WatchRuns == part = "watch"
WatchAlone == UNCHANGED <<part, singletonVars, winVars, parkVars, readerVars, batchVars, dsVars, adVars, provingVars>>

WinRuns == part = "win"
WinAlone == UNCHANGED <<part, singletonVars, watchVars, parkVars, readerVars, batchVars, dsVars, adVars, provingVars>>

ParkRuns == part = "park"
ParkAlone == UNCHANGED <<part, singletonVars, watchVars, winVars, readerVars, batchVars, dsVars, adVars, provingVars>>

ReaderRuns == part = "reader"
ReaderAlone == UNCHANGED <<part, singletonVars, watchVars, winVars, parkVars, batchVars, dsVars, adVars, provingVars>>

BatchRuns == part = "batch"
BatchAlone == UNCHANGED <<part, singletonVars, watchVars, winVars, parkVars, readerVars, dsVars, adVars, provingVars>>

DeletionRuns == part = "deletion"
DeletionAlone == UNCHANGED <<part, singletonVars, watchVars, winVars, parkVars, readerVars, batchVars, adVars, provingVars>>

AdsRuns == part = "ads"
AdsAlone == UNCHANGED <<part, singletonVars, watchVars, winVars, parkVars, readerVars, batchVars, dsVars, provingVars>>

ProvingRuns == part = "proving"
ProvingAlone == UNCHANGED <<part, singletonVars, watchVars, winVars, parkVars, readerVars, batchVars, dsVars, adVars>>

MinersAlike ==
    /\ workBase["n1"] = workBase["n2"]
    /\ doing["n1"] = doing["n2"]
    /\ \A t \in WinTasks : winOwner[t] \notin Miners /\ mining[t].mined = NoBlock

MattersTo(head) == head = Genesis \/ \E t \in WinTasks : winOwner[t] = "unused"

MayMine(n) == n = "n1" \/ ~MinersAlike

MayLook(w) == w = "n2" => dsSeen["n1"] # Nothing

ServicesNext ==
    \/ \E n \in Offerers : SingletonRuns /\ IAmBored(n) /\ SingletonAlone
    \/ \E n \in Offerers : SingletonRuns /\ SelectRow(n) /\ SingletonAlone
    \/ \E n \in Offerers, t \in TaskIds : SingletonRuns /\ UpsertRow(n, t) /\ SingletonAlone
    \/ \E n \in Offerers : SingletonRuns /\ UpsertConflict(n) /\ SingletonAlone
    \/ \E n \in Offerers : SingletonRuns /\ AddTaskFails(n) /\ SingletonAlone
    \/ \E n \in Offerers : SingletonRuns /\ SingletonRunNowPoller(n) /\ SingletonAlone
    \/ \E n \in Offerers : SingletonRuns /\ RestartOffering(n) /\ SingletonAlone
    \/ \E n \in Offerers : SingletonRuns /\ NodeIntervalPasses(n) /\ SingletonAlone
    \/ SingletonRuns /\ SingletonRunNow /\ SingletonAlone
    \/ \E t \in TaskIds : SingletonRuns /\ TaskEnds(t) /\ SingletonAlone
    \/ SingletonRuns /\ RunIntervalPasses /\ SingletonAlone
    \/ \E k \in 0..Confidence, d \in Depths : WatchRuns /\ NewHead(k, d) /\ WatchAlone
    \/ \E m \in Msgs : WatchRuns /\ AddWait(m) /\ WatchAlone
    \/ \E n \in Watchers : WatchRuns /\ Subscribe(n) /\ WatchAlone
    \/ \E n \in Watchers : WatchRuns /\ LoseSubscription(n) /\ WatchAlone
    \/ \E n \in Watchers : WatchRuns /\ Notify(n) /\ WatchAlone
    \/ \E n \in Watchers : WatchRuns /\ UpdateFails(n) /\ WatchAlone
    \/ \E n \in Watchers : WatchRuns /\ AssignWaits(n) /\ WatchAlone
    \/ \E n \in Watchers : WatchRuns /\ SelectWaits(n) /\ WatchAlone
    \/ \E n \in Watchers, m \in Msgs : WatchRuns /\ CheckWait(n, m) /\ WatchAlone
    \/ \E n \in Watchers : WatchRuns /\ FinishUpdate(n) /\ WatchAlone
    \/ \E n \in Watchers : WatchRuns /\ StopWatcher(n) /\ WatchAlone
    \/ \E n \in Watchers : WatchRuns /\ StartWatcher(n) /\ WatchAlone
    \/ \E n \in Watchers : WatchRuns /\ CleanupMachine(n) /\ WatchAlone
    \/ WatchRuns /\ CollectWaits /\ WatchAlone
    \/ WinRuns /\ Tick /\ WinAlone
    \/ \E n \in Miners, head \in ChainHeads, wins \in BOOLEAN : WinRuns /\ MayMine(n) /\ MineRound(n, head, wins) /\ WinAlone
    \/ \E n \in Miners, t \in WinTasks : WinRuns /\ MayMine(n) /\ Claim(n, t) /\ WinAlone
    \/ \E n \in Miners : WinRuns /\ Elect(n) /\ WinAlone
    \/ \E n \in Miners, head \in ChainHeads : WinRuns /\ Prove(n, head) /\ WinAlone
    \/ \E n \in Miners : WinRuns /\ Persist(n) /\ WinAlone
    \/ \E n \in Miners : WinRuns /\ StillOwned(n) /\ WinAlone
    \/ \E n \in Miners : WinRuns /\ SubmitBlock(n) /\ WinAlone
    \/ \E n \in Miners : WinRuns /\ RecordBlock(n) /\ WinAlone
    \/ \E n \in Miners : WinRuns /\ DoFails(n) /\ WinAlone
    \/ \E n \in Miners, head \in ChainHeads : WinRuns /\ MayMine(n) /\ MattersTo(head) /\ CrashMiner(n, head) /\ WinAlone
    \/ \E t \in WinTasks : WinRuns /\ LoseTask(t) /\ WinAlone
    \/ \E d \in Deals : ParkRuns /\ Upsert(d) /\ ParkAlone
    \/ \E d \in Deals : ParkRuns /\ UpsertFallback(d) /\ ParkAlone
    \/ \E d \in Deals, i \in Pieces : ParkRuns /\ FindPiece(d, i) /\ ParkAlone
    \/ \E d \in Deals : ParkRuns /\ DropRef(d) /\ ParkAlone
    \/ \E i \in Pieces : ParkRuns /\ PollPieceTasks(i) /\ ParkAlone
    \/ \E i \in Pieces : ParkRuns /\ StartFetch(i) /\ ParkAlone
    \/ \E i \in Pieces : ParkRuns /\ WritePiece(i) /\ ParkAlone
    \/ \E i \in Pieces : ParkRuns /\ StorePiece(i) /\ ParkAlone
    \/ \E i \in Pieces : ParkRuns /\ FetchFails(i) /\ ParkAlone
    \/ \E i \in Pieces : ParkRuns /\ ScheduleCleanup(i) /\ ParkAlone
    \/ \E i \in Pieces : ParkRuns /\ StartCleanup(i) /\ ParkAlone
    \/ \E i \in Pieces : ParkRuns /\ DeletePiece(i) /\ ParkAlone
    \/ \E i \in Pieces : ParkRuns /\ UnclaimPiece(i) /\ ParkAlone
    \/ \E i \in Pieces : ParkRuns /\ RemovePiece(i) /\ ParkAlone
    \/ \E i \in Pieces : ParkRuns /\ CleanupCrashes(i) /\ ParkAlone
    \/ ParkRuns /\ FindDuplicates /\ ParkAlone
    \/ ParkRuns /\ ChooseWinner /\ ParkAlone
    \/ ParkRuns /\ MergeDuplicates /\ ParkAlone
    \/ ParkRuns /\ RemoveLosers /\ ParkAlone
    \/ ParkRuns /\ CreateIndex /\ ParkAlone
    \/ ParkRuns /\ FixFails /\ ParkAlone
    \/ \E q \in Requests : ReaderRuns /\ AskErrorCache(q) /\ ReaderAlone
    \/ \E q \in Requests : ReaderRuns /\ LookUp(q) /\ ReaderAlone
    \/ \E q \in Requests : ReaderRuns /\ OpenPiece(q) /\ ReaderAlone
    \/ \E q \in Requests : ReaderRuns /\ Publish(q) /\ ReaderAlone
    \/ \E q \in Requests : ReaderRuns /\ OpenFails(q) /\ ReaderAlone
    \/ \E q \in Requests : ReaderRuns /\ RemoveEntry(q) /\ ReaderAlone
    \/ \E q \in Requests : ReaderRuns /\ ReaderReady(q) /\ ReaderAlone
    \/ \E q \in Requests : ReaderRuns /\ Done(q) /\ ReaderAlone
    \/ ReaderRuns /\ Evict /\ ReaderAlone
    \/ \E r \in Readers : ReaderRuns /\ ExpireCallback(r) /\ ReaderAlone
    \/ ReaderRuns /\ ErrorExpires /\ ReaderAlone
    \/ \E b \in Batches : BatchRuns /\ Schedule(b) /\ BatchAlone
    \/ \E b \in Batches : BatchRuns /\ StartBatch(b) /\ BatchAlone
    \/ \E b \in Batches : BatchRuns /\ LockInSDR(b) /\ BatchAlone
    \/ \E b \in Batches : BatchRuns /\ Get(b) /\ BatchAlone
    \/ \E b \in Batches : BatchRuns /\ Pc1(b) /\ BatchAlone
    \/ \E b \in Batches : BatchRuns /\ LockOutSDR(b) /\ BatchAlone
    \/ \E b \in Batches : BatchRuns /\ Pc2(b) /\ BatchAlone
    \/ \E b \in Batches : BatchRuns /\ MarkWorkDone(b) /\ BatchAlone
    \/ \E b \in Batches : BatchRuns /\ BatchFails(b) /\ BatchAlone
    \/ \E s \in Slots : BatchRuns /\ WatchSlot(s) /\ BatchAlone
    \/ \E x \in BatchSectors : BatchRuns /\ StartFinalize(x) /\ BatchAlone
    \/ \E x \in BatchSectors : BatchRuns /\ DeleteRef(x) /\ BatchAlone
    \/ \E x \in BatchSectors : BatchRuns /\ SectorDone(x) /\ BatchAlone
    \/ \E x \in BatchSectors : BatchRuns /\ FinishFinalize(x) /\ BatchAlone
    \/ \E x \in BatchSectors : BatchRuns /\ FinalizeFails(x) /\ BatchAlone
    \/ \E x \in BatchSectors : BatchRuns /\ SectorRemove(x) /\ BatchAlone
    \/ BatchRuns /\ RestartMachine /\ BatchAlone
    \/ DeletionRuns /\ ClientTerminates /\ DeletionAlone
    \/ DeletionRuns /\ EndEpochPasses /\ DeletionAlone
    \/ DeletionRuns /\ RailIsFinal /\ DeletionAlone
    \/ \E m \in DsTxs : DeletionRuns /\ Execute(m) /\ DeletionAlone
    \/ \E k \in Stages : DeletionRuns /\ SubmittedElsewhere(k) /\ DeletionAlone
    \/ \E m \in DsTxs : DeletionRuns /\ ConfirmWait(m) /\ DeletionAlone
    \/ \E m \in DsTxs : DeletionRuns /\ CollectWait(m) /\ DeletionAlone
    \/ DeletionRuns /\ RequestTermination /\ DeletionAlone
    \/ DeletionRuns /\ ProvingFails /\ DeletionAlone
    \/ DeletionRuns /\ VerifySettle /\ DeletionAlone
    \/ \E s \in Stages : DeletionRuns /\ ScheduleStage(s) /\ DeletionAlone
    \/ \E t \in DsTasks : DeletionRuns /\ DoStage(t) /\ DeletionAlone
    \/ \E t \in DsTasks : DeletionRuns /\ SendStage(t) /\ DeletionAlone
    \/ \E t \in DsTasks : DeletionRuns /\ CommitStage(t) /\ DeletionAlone
    \/ \E t \in DsTasks : DeletionRuns /\ FinishStage(t) /\ DeletionAlone
    \/ \E t \in DsTasks : DeletionRuns /\ SendRefused(t) /\ DeletionAlone
    \/ \E t \in DsTasks : DeletionRuns /\ StageFails(t) /\ DeletionAlone
    \/ \E t \in DsTasks : DeletionRuns /\ StageGivenUp(t) /\ DeletionAlone
    \/ \E w \in Reconcilers, s \in Stages, u \in BOOLEAN : DeletionRuns /\ MayLook(w) /\ Look(w, s, u) /\ DeletionAlone
    \/ \E w \in Reconcilers : DeletionRuns /\ Reconcile(w) /\ DeletionAlone
    \/ DeletionRuns /\ SyncRails /\ DeletionAlone
    \/ DeletionRuns /\ SyncVerifier /\ DeletionAlone
    \/ \E r \in AdRefs, p \in AdPieces : AdsRuns /\ (r = 1 => p = "p") /\ UploadDone(r, p) /\ AdsAlone
    \/ \E r \in AdRefs, mustIndex \in BOOLEAN : AdsRuns /\ AddToDataSet(r, mustIndex) /\ AdsAlone
    \/ \E r \in AdRefs : AdsRuns /\ LeaveDataSet(r) /\ AdsAlone
    \/ \E r \in AdRefs : AdsRuns /\ ScheduleIndexing(r) /\ AdsAlone
    \/ \E r \in AdRefs : AdsRuns /\ CheckHasPiece(r) /\ AdsAlone
    \/ \E r \in AdRefs : AdsRuns /\ AddFirst(r) /\ AdsAlone
    \/ \E r \in AdRefs : AdsRuns /\ AddRest(r) /\ AdsAlone
    \/ \E r \in AdRefs : AdsRuns /\ FinishIndexing(r) /\ AdsAlone
    \/ \E r \in AdRefs : AdsRuns /\ IndexingFails(r) /\ AdsAlone
    \/ \E r \in AdRefs : AdsRuns /\ IndexingLost(r) /\ AdsAlone
    \/ \E r \in AdRefs : AdsRuns /\ ScheduleIpni(r) /\ AdsAlone
    \/ \E r \in AdRefs : AdsRuns /\ CheckAd(r) /\ AdsAlone
    \/ \E r \in AdRefs : AdsRuns /\ ReadHead(r) /\ AdsAlone
    \/ \E r \in AdRefs : AdsRuns /\ InsertAd(r) /\ AdsAlone
    \/ \E r \in AdRefs : AdsRuns /\ IpniFails(r) /\ AdsAlone
    \/ \E r \in AdRefs : AdsRuns /\ IpniLost(r) /\ AdsAlone
    \/ AdsRuns /\ SelectUnused /\ AdsAlone
    \/ \E r \in AdRefs : AdsRuns /\ CollectRef(r) /\ AdsAlone
    \/ AdsRuns /\ DropIndex /\ AdsAlone
    \/ AdsRuns /\ GCFails /\ AdsAlone
    \/ ProvingRuns /\ WindowOpens /\ ProvingAlone
    \/ ProvingRuns /\ PeriodEnds /\ ProvingAlone
    \/ ProvingRuns /\ BackoffEnds /\ ProvingAlone
    \/ ProvingRuns /\ AddPieces /\ ProvingAlone
    \/ \E empty \in BOOLEAN : ProvingRuns /\ RowMessageLands(empty) /\ ProvingAlone
    \/ ProvingRuns /\ RowMessageReverts /\ ProvingAlone
    \/ \E empty \in BOOLEAN : ProvingRuns /\ TaskMessageLands(empty) /\ ProvingAlone
    \/ ProvingRuns /\ TaskMessageReverts /\ ProvingAlone
    \/ \E at \in Periods, empty \in BOOLEAN : ProvingRuns /\ StrayLands(at, empty) /\ ProvingAlone
    \/ \E at \in Periods : ProvingRuns /\ StrayReverts(at) /\ ProvingAlone
    \/ ProvingRuns /\ InitOnAdd /\ ProvingAlone
    \/ \E k \in Kinds : ProvingRuns /\ PickPP(k) /\ ProvingAlone
    \/ \E k \in Kinds : ProvingRuns /\ AddPPTask(k) /\ ProvingAlone
    \/ \E k \in Kinds : ProvingRuns /\ AddPPTaskFails(k) /\ ProvingAlone
    \/ ProvingRuns /\ PPIsVoid /\ ProvingAlone
    \/ ProvingRuns /\ ResetToInit /\ ProvingAlone
    \/ ProvingRuns /\ FindNoLeaves /\ ProvingAlone
    \/ ProvingRuns /\ DisableInit /\ ProvingAlone
    \/ ProvingRuns /\ SendPP /\ ProvingAlone
    \/ \E ended \in BOOLEAN : ProvingRuns /\ SendPPRefused(ended) /\ ProvingAlone
    \/ ProvingRuns /\ CommitPP /\ ProvingAlone
    \/ \E last \in BOOLEAN : ProvingRuns /\ PPFails(last) /\ ProvingAlone
    \/ \E t \in ProveTasks : ProvingRuns /\ AddProveTask(t) /\ ProvingAlone
    \/ \E t \in ProveTasks : ProvingRuns /\ SkipProof(t) /\ ProvingAlone
    \/ \E t \in ProveTasks : ProvingRuns /\ ReadChallenge(t) /\ ProvingAlone
    \/ \E t \in ProveTasks : ProvingRuns /\ DisableProving(t) /\ ProvingAlone
    \/ \E t \in ProveTasks : ProvingRuns /\ SendProof(t) /\ ProvingAlone
    \/ \E t \in ProveTasks, ended \in BOOLEAN : ProvingRuns /\ SendProofRefused(t, ended) /\ ProvingAlone
    \/ \E t \in ProveTasks, reset \in BOOLEAN : ProvingRuns /\ FinishProof(t, reset) /\ ProvingAlone
    \/ \E t \in ProveTasks, last \in BOOLEAN : ProvingRuns /\ ProofFails(t, last) /\ ProvingAlone
    \/ ProvingRuns /\ SyncFailures /\ ProvingAlone

ServicesSpec == ServicesInit /\ [][ServicesNext]_servicesVars
=============================================================================

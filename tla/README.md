# A TLA+ development of Curio's coordination logic

Curio seals, proves and serves Filecoin storage with a cluster of nodes that
share one SQL database and nothing else. There is no leader and no message
between nodes: whatever they agree on, they agree on through rows, `WHERE`
clauses, unique indexes and transactions, while any of them may crash, stall
or restart between two statements. This project models that logic in TLA+,
checks it with TLC on small clusters, and proves what matters most with TLAPS
for clusters of every size.

Paths below are relative to `src/`. `PROJECT.json` maps every definition to
the lines it models.

## 1. Inventory

| part | state | operations | what is hard | what makes it correct |
|---|---|---|---|---|
| **Task engine** `harmony/harmonytask`, `harmony/resources`, `harmony/taskhelp` | `harmony_machines`, `harmony_task`, `harmony_task_history`; per process: owner id, limiters, goroutines | register, heartbeat, clean-up of silent machines, recovery, poll, claim, `Do`, `stillOwned`, record completion, shut down, cordon, restart | pollers race for rows; late heartbeats; commits with an unknown outcome; capacity read long before it is used | one writer per task, no task lost, failure limit exact, machine never overcommitted, everything settles |
| **Singleton tasks** `harmonytask/singleton_task.go` | `harmony_task_singletons`, an in-memory flag per node | offer, run-now request, poll of requests | every node offers the task; the flag is swapped before a transaction that may fail | at most one task, no request lost, runs for ever |
| **Message sender** `tasks/message/sender.go` (`sender_eth.go` alike) | `message_sends`, `message_send_locks`, mempool | `Send`, `SendTask.Do` | lock, nonce, signature, push and result are separate steps, each can fail or crash; mempools lag | each message sent once, no nonce shared or skipped, callers told the truth, key never blocked |
| **Sealing pipeline** `tasks/seal` | `sectors_sdr_pipeline`, `message_waits` | ten steps of the poller, two batchers, nine task types | every node polls a snapshot; messages are batched, fail and are retried; trees are thrown away | stages in order, one worker per stage, no futile message, every sector settles |
| **Message watchers, chain scheduler** `tasks/message/watch*.go`, `lib/chainsched` | `message_waits`, `message_waits_eth`, a channel per node | subscribe, notify, assign to a machine, confirm, hand over, collect | reorganisations, dropped wake-ups, dead watchers | every message is resolved, with its final receipt |
| **Winning PoSt** `tasks/winning` | `mining_tasks`, `mining_base_block`, work base per node | pick a base, add a task, elect, prove, submit | every node mines; tasks are lost while they run; null rounds, late heads | never two blocks for one epoch or one base |
| **Piece park** `tasks/piece`, `lib/parkpiece` | `parked_pieces`, `parked_piece_refs`, files | upsert, attach, drop, fetch, clean up, merge duplicates | a reference taken while the piece is claimed, merged or removed | nothing referenced is removed, what is complete is readable, what is unused goes |
| **Cached piece reader** `lib/cachedreader` | two caches, reference counts | get, publish, close, expire | callbacks that run after the entry has gone; failing opens | open exactly while needed |
| **Supraseal batches, NVMe slots** `tasks/sealsupra`, `lib/slotmgr` | mutexes, slots in memory, `batch_sector_refs` | take a slot, both phases, finalize, abort, restart | slots are freed by other tasks; restarts rebuild memory from rows | a slot is not sealed over, every batch gets one |
| **PDP v0: proving** `tasks/pdpv0` | `pdp_data_sets`, `pdp_prove_tasks`, contracts | init, next period, prove, back off, give up, repair | watchers act on rows selected earlier; messages land late or never; windows close | a set that is to be proved is proved in one period after another |
| **PDP v0: deletion** `tasks/pdpv0`, `tasks/pay` | `pdp_delete_data_set`, contracts, rail | terminate, settle, delete, clean up, reconcile | tasks, watchers and chain sync write one row; tasks are dropped; waits are collected | stages in order, the row is not lost, every deletion ends |
| **PDP v0: indexing and IPNI** `tasks/indexing`, `task_piece_gc.go` | `pdp_piecerefs`, index store, `ipni`, `ipni_head` | index, announce, collect, remove | publishers share a head; references share index and advertisements | one chain, announcements match references, every piece is announced |
| Snap upgrades `tasks/snap`; unsealing `tasks/unseal` | `sectors_snap_pipeline`, `sectors_unseal_pipeline` | as sealing, shorter | as sealing | as sealing |
| Window PoSt `tasks/window` | `wdpost_*` | add on head change, prove, submit, recover | deadlines, reorgs | every open deadline is proven once |
| Storage index, locks, claims `lib/paths`, `lib/ffi/task_storage.go`; storage GC `tasks/gc` | `sector_location`, `storage_path`, reservations, `storage_removal_marks` | reserve, declare, lock, drop, mark, sweep | reservations against failing tasks; lock time-outs; marks that grow old | no overbooking, no writer beside a reader, nothing needed is swept |
| GPU slots, promise, context lock `lib/ffiselect`, `lib/promise`, `lib/contextlock` | in-memory counters and maps | take, give back | goroutines and time-outs | counts right |
| Proof share, balance and expiration managers, deal ingest and indexing | their own pipelines | poll, send, settle, advertise | external services, nonces, retries | one payment per proof, one message in flight |
| Market servers, retrieval, web UI, CLI, configuration, alerts, native code | - | request handling, I/O | - | out of scope: validation and I/O |

How they interact: every background activity is a *task type* of the engine. A
poller or an `Adder` inserts a row into `harmony_task` in the transaction that
also writes the task's id into a pipeline row; `Do` finds its work through that
id. Pipelines send messages with the sender, itself a task type, and learn from
the watchers' tables how they fared. So the engine's promises are the
assumptions of everything else, and the modules are layered the same way.

The parts in bold are modelled. The hazards, each at the line where it bites, are in `PROJECT.json`.

## 2. Modules

| module | models |
|---|---|
| `TaskCapacity` | what fits a machine: limiters, CPU, RAM, GPU, headroom (`max.go`, `AssertMachineHasCapacity`, `ResourcesAvailable`) |
| `HarmonyTask` | the engine; extends `TaskCapacity` |
| `TaskLedger` | abstract: what the engine promises about a task |
| `HarmonyTaskProofs` | theorems about `HarmonyTask` and `TaskCapacity`: the ledger, ownership, capacity |
| `SingletonTask` | singleton tasks |
| `MessageSender` | the sender, over a reduced engine |
| `SealPipeline` | pollers, batches and tasks of sealing, over a reduced engine |
| `MessageWatcher` | both watchers and the chain scheduler that drives them |
| `WinningPoSt` | block production of one miner by several nodes |
| `PiecePark` | the rows, references and data of one piece |
| `CachedReader` | the shared readers of one piece |
| `BatchSealing` | Supraseal batches and NVMe slots of one machine |
| `DataSetDeletion` | how PDP v0 gets rid of a data set |
| `DataSetProving` | how PDP v0 keeps proving a data set |
| `PieceAds` | indexing, announcing and collecting PDP v0 pieces |
| `MessageSenderProofs`, `SealPipelineProofs` | theorems about these two modules |
| `SharedResourceProofs` | theorems about `SingletonTask`, `CachedReader`, `BatchSealing` |
| `PieceProofs` | theorems about `PiecePark`, `PieceAds` |
| `ChainProofs` | theorems about `MessageWatcher`, `WinningPoSt` |
| `DataSetProofs` | theorems about `DataSetDeletion`, `DataSetProving` |
| `ServicesProofs` | theorems about `MCServices`: the composition is a behaviour of each part |
| `MCHarmonyTask`, `MCMessageSender`, `MCSealPipeline` | values of the constants for TLC |
| `MCServices`, `MCServicesProgress` | the modules from `MessageWatcher` to `PieceAds` and `SingletonTask`, side by side, for TLC |

A definition whose name adds to that of another one just below it
(`ClaimUnchecked` above `Claim`) and whose comment starts with "Mutant" is a
plausible bug. No specification uses it; it shows that a property notices.

### The engine (`HarmonyTask`)

*State.* `rowId`, `fresh`, `unschedulable` and `restartRequest` are
`harmony_machines`; `row`, `owner` and `retries` are `harmony_task`;
`succeeded` and `failed` count the rows of `harmony_task_history`. `proc`,
`ownerID`, `yieldBackground`, `poller`, `active`, `doing` and `recording` are
the memory of a process and vanish with it.

*Steps.* One SQL statement or transaction is one step, as is what a goroutine
does between two of them. `Register` inserts or refreshes the machine's row and
cleans up; `RecoverTask` and `RefuseRecovered` go through the rows the machine
still owns; then the poller cycles `CheckNodeFlags` (and `RestartNode`),
`CleanupMachines`, one `ConsiderWork`, `SkipHandler` or `IAmBored` per handler,
`Claim` or `ClaimNothing`, and `StartClaimed`, which starts goroutines, and
gives back rows for which storage cannot be had. A goroutine is in `doing` until
`DoReturns`, then in `recording` until `RecordCompletion`; `CommitUncertain`
applies the transaction and reports an error, so that it is tried again.
`Heartbeat`, `Age`, `Crash`, `GracefullyTerminate`, `ExitProcess` and the
operator's `Cordon`, `Uncordon`, `Restart` and `AbortRestart` may come at any
point.

*Abstraction.* Time is reduced to whether `last_contact` is older than
`LOOKS_DEAD_TIMEOUT`; whether a timer has run out is a free choice. `CanAccept`
picks any acceptable subset. `FalseSuspicion` allows a live node to miss its
heartbeats, `DBErrors` allows uncertain commits. `Follows` is left out: nothing
in the code ever fills `e.follows`.

### Singleton tasks (`SingletonTask`)

Each node runs `IAmBored` (the interval test and the flag), `SelectRow` (read the
row, decide) and `UpsertRow`, or `UpsertConflict` and `AddTaskFails`;
`SingletonRunNowPoller` moves the operator's request to the flag of a node. That
two transactions which write the same row do not both commit is an assumption
about the database. It is needed: if the later one were merely delayed, its
unconditional `ON CONFLICT DO UPDATE` would leave two tasks.

### The sender (`MessageSender`)

`Send` inserts row and task, `SendReturns` polls. A worker goes through
`ReadRow`, `AcquireLock` (the sleep loop), `GetNonce`, `MaxNonce`,
`WriteNonce`, `Push`, `Persist`, `Release` and `Return`. The unique index on
sent nonces is `NonceTaken`. The mempools are external: they accept or refuse,
the answer may be lost, and with several API nodes they exchange messages late.
The engine is reduced to what `HarmonyTask` promises, including (fault
"stall") that a node which looked dead may still be working.

### The sealing pipeline (`SealPipeline`)

A row has the set of its `after_x` columns, a `task_id_x` per stage, the two
message cids and `failed`. `PollSelect` takes the snapshot of all rows; the
other steps of a poller act on that snapshot but write under the `WHERE` clause
the code has: `PollStart` for the seven stages of a single sector, `PollLanded`
and the two `Poll...Result` steps for messages, `PollAddStartEpoch`,
`FireBatch` and `HoldBatch` for the batches. A task finds its rows
(`Begin`) and writes its result (`Finish`, `Reset`); `TreeRC`, the synthetic and
the PoRep proofs fail while `tree_d_cid` is NULL (`Found`). The two submitting tasks
check their sectors, `Send`, `StoreCid` and `InsertWait`, and can die in
between. `Return` lets the process die between the last write of `Do` and the
deletion of the task. The chain is external.

*Abstraction.* One provider and one proof type. Start epochs and ages order the
candidates of a batch; the model leaves that order open. Tasks and messages are
named after stage and first sector, and a name is used again when nothing
refers to it. Supraseal appears only as an initial state with the first four
stages done, which is what its last transaction writes.

### The services

The remaining modules share no state with one another. Each is a component of
its own (`XInit`, `XNext`, `XSpec`) with names of its own, so that `MCServices`
can extend all of them and let a behaviour be one of one component, chosen at
the start by `part`: the set of behaviours is the union, no component sees
another, and one run checks what would take nine. Each reduces the
engine to what `HarmonyTask` promises: a task is run until it succeeds, is
dropped, or its node dies and another one starts it anew.

*Message watchers (`MessageWatcher`).* `NewHead` extends or reorganises the
chain by at most `Confidence` tipsets; depths are counted from the head and an
execution on another fork is a new `executions[m]`. `Subscribe`, `Notify` and
`LoseSubscription` are the scheduler, which coalesces head changes; `AssignWaits`,
`SelectWaits`, `CheckWait` and `FinishUpdate` are one update, which works on the
head it loaded when it began. `CleanupMachine` deletes the row of a machine and
releases its waits (`ON DELETE SET NULL`). The two tables differ in how a receipt
is looked up and when a row is collected; a behaviour is of one of them.

*Block production (`WinningPoSt`).* `MineRound` is one round of `mineBasic` with
whatever head the node sees, ending in the insert guarded by the two unique
indexes (`Admits`); `Claim`, `Elect`, `Prove`, `Persist`, `SubmitBlock` and
`RecordBlock` are `Do`, in which the node looks at the chain again before it
mines. `LoseTask` takes a task from a node that goes on working.

*Piece park (`PiecePark`).* A deal asks with the unique index (`Upsert`) or,
where it is invalid, with a look-up (`UpsertFallback`, `FindPiece`). `ParkPiece`,
`DropPiece` and `FixParkPiece` are each split at their transactions and at the
file operations, which no transaction covers.

*Cached reader (`CachedReader`).* The mutex makes `LookUp`, `Done` and
`ExpireCallback` atomic; `OpenPiece`, `Publish` and `RemoveEntry` run without
it. The TTL cache calls back some time after it has dropped an entry.

*Batches (`BatchSealing`).* `Get` waits for a slot while it holds `inSDR`;
`MarkWorkDone`, `SectorDone` and `WatchSlot` free one, with the set of sectors, the work flag and
the condition variable of the slot manager. `RestartMachine` drops what is in
memory and rebuilds the slots from `batch_sector_refs`.

*Deletion (`DataSetDeletion`).* `service` and `verifier` are the contracts.
`dsLocal` says whether the set is proved, marked as unrecoverably failed
(`ProvingFails`, which inserts a row unless there is one) or gone.
`ScheduleStage`, `DoStage`, `SendStage`, `CommitStage` and `FinishStage` are the
three task types; `Look` and `Reconcile` are the watcher of each node
(`DsWatchers`) and chain sync, which read
first and write later under the `WHERE` clauses of `ApplyTerminate`,
`ApplyDelete` and `ApplyCleanup`. `DoStage` reads row and chain and updates the
row in one step: the chain only moves forward and the update asks for the task
id. A wait can be collected unread, a message can
be sent by somebody else, an attempt can fail before or after it has sent.

*Proving (`DataSetProving`).* Epochs are reduced to the window a challenge is
in: that of a past period, the present one or the next. `PickPP` selects the row
outside of the transaction `AddPPTask`, so what was selected may have been done
by then; `SendPP` and `CommitPP` are separate, so a crash leaves a message that
no row names (`strays`), which still lands. `answered` says that the challenge
has been proved; it counts only while that challenge is the present one. `ApplyProvingBackoff` gives up after
`MaxProveFailures`.

*Announcements (`PieceAds`).* `ReadHead` and `InsertAd` are separate steps, and
the insert checks the head again. The index is `none`, `part` or `all` of the
records. `CollectRef` is one transaction of `PDPv0_PieceGC`; `DropIndex` runs
after it.

## 3. Runs

| run | instance | checks | result |
|---|---|---|---|
| `cluster` | 2 hosts, 2 tasks of 2 types sharing a limiter on a machine too small for both, 3 process starts | `TypeOK`, `SingleWriter`, `OwnershipInv`, `NoStrandedTask`, `NoOvercommit`, `NoTheft` | holds |
| `zombies` | 2 hosts, 1 task, late heartbeats, uncertain commits | `HistoryConsistent`, `ImplementsLedger` | holds |
| `progress` | 2 hosts, 1 task, one host cordoned and restarted; fairness | `EventuallySettled`, `RestartHonoured`, `RestartIsIdle` | holds |
| `stolen` | as `zombies`, without uncertain commits | `SingleWriter` | **violated** |
| `time_sensitive` | 1 host, 2 tasks, one time-sensitive | `TimeSensitiveRecorded` | **violated** |
| `send_safety` | 1 key, 3 messages, 2 workers, 2 faults of one of four mixes | `TypeOK`, `SentOnce`, `NoNonceGap`, `PushIsSafe`, `AnswerIsTrue` | holds |
| `send_progress` | 2 messages, 2 workers at 2 API nodes, 2 faults; fairness | `EverySendReturns` | holds |
| `send_rebroadcast` | 2 messages, crash and refusal | `RebroadcastIsSafe` | **violated** |
| `seal` | three scenarios, see below; fairness | `TypeOK`, `StageOrder`, `OneWorkerPerStage`, `NoFutileMessage`, `EverySectorSettles` | holds |
| `seal_stranded` | 2 sectors in one commit batch, a failed dry run | `TaskIdMeansTask` | **violated** |
| `services` | nine components, one per behaviour; bounds below | `ServicesTypeOK`; `OneTask`; `ReceiptStands`; `NoConsensusFault`; `RefsSurvive`; `OpenWhileNeeded`; `LayersIntact`; `DeletionIsOrdered`, `RowKept`; `OneAdChain`, `AdsMatchRefs` | holds |
| `services_progress` | seven of them, smaller; fairness | `RequestIsServed`; `EveryWaitResolves`; `UnusedPieceGoes`; `EveryBatchSeals`; `DeletionEnds`; `ProvingGoesOn`; `EveryAdAppears` | holds |

The violated properties are what comments in the code say; `findings` in
`PROJECT.json` quotes them.

* `stolen`: `recordCompletion` updates and deletes by id without asking for
  `owner_id`. A node that stalled past the time-out and then fails disowns the
  task under its new owner.
* `time_sensitive`: shutdown cancels the context that `recordCompletion` needs
  before it waits for time-sensitive tasks.
* `send_rebroadcast`: after a refusal the lock is released before the task is
  deleted; a crash in between makes the next worker push a nonce that another
  message has used.
* `seal_stranded`: a sector whose dry run fails is left with the id of a task
  that is then deleted; no poller touches it again.

Properties that are restricted say so in their comments: `SingleWriter` and
`NoTheft` need nodes that are not declared dead while they live, `PushIsSafe`
needs one chain API and no stalled node, and excludes a refusal together with a
crash, which `send_rebroadcast` exhibits, or with a failing statement, `NoFutileMessage` and
`EverySectorSettles` exclude a task that dies between sending a message and
recording it (it sends a second one), `TaskIdMeansTask` is not claimed at all.
`StageOrder` and `OneWorkerPerStage` need one poller, or trees that are not
thrown away (`Solo`).
`EveryWaitResolves` asks for a node that is up and has its machine row;
`UnusedPieceGoes` excludes a piece whose clean-up task has been dropped;
`DeletionEnds` says that no row stays for ever, and `RowKept` when it goes without
the data set: only as a client's request whose termination failed. That a
decision of the provider is never lost is not claimed;
`ProvingGoesOn` allows a set to be given up or disabled. `LayersIntact` leaves out
a transaction at the end of PC2 that is applied though reported as failed. Each of these
exceptions is a behaviour of the code; section 5 says which.

The progress properties have the form "again and again it is not left undone"
(`[]<>`), which for conditions that stay until they are served says the same as
"whenever it is asked for it is served".

### Bounds

`MaxBoots` (3) lets each of two nodes start and one of them come back under its
old or a new row. `RetryCap` bounds failures of a type that is retried for
ever. `MaxFailures` is 2 or 3: below the limit, at it and, in mutants, past it.
Two hosts are enough for every race between a node and another one, since a
third node takes part in a race only through the same rows; `OwnershipInv` is
proved for any number. `MaxFaults` and `Mixes` say how many faults of which
kinds a behaviour of the sender meets; the four mixes pair every fault with
those that occur at neighbouring steps. `Scenarios` does the same for
the pipeline: two pollers on one sector with a stale poll or a message out of
gas; two sectors in one batch with an expired ticket or a late deal; one sector
with trees thrown away, a crash, an error or a failed dry run; one fault each.
`MaxNames` (2) is the number of tasks, or messages, of a stage and sector that
exist or are referred to at once; a step that needs a third is not taken, and
with one fault none needs it.

`services`, per component: singleton 2 nodes, 2 task ids, 1 restart; watchers
2 nodes on one message or 1 node on two messages of a sender, confidence 2
(Filecoin) and 1 (Ethereum), 1 reorganisation, 1 fault; winning 2 nodes and one
other producer, epochs up to 3, 2 tasks, 1 fault; park 2 deals, 2 rows of a
piece, 1 fault; readers 3 requests, 2 readers; batches 3 of 2 sectors for 2
slots, 1 finalize at a time, 1 fault; deletion 2 watchers and chain sync, 2 tasks
at a time, 2 messages, up to 2 piece slots, 1 fault; announcements 2 references to 2 pieces, 1 fault; proving
2 nodes, back-off once, 1 proof task, 1 fault. Every race these components
can lose is between two holders of one resource, and a third batch or request
is what makes slots and readers be used again; a fault is a crash, a lost task,
a failed call, a reverted message or a node that lags. Symmetry is used in three
places, as guards in `MCServices`: the first reference is to the piece "p",
of two miners in the same situation "n1" goes first, and the second watcher
looks only while the first has looked and not yet written. The theorems cover any
number of watchers and messages.

`services_progress` keeps the faults and has one message, confidence 1, one
deal, batches of one sector, one piece, one piece slot and one watcher, but a
third message for a deletion, because a state costs
far more when liveness is checked; only the first of the two references leaves
its data set there.

### Deadlock

Checked, except in `zombies` and `stolen`, where a node whose
`harmony_machines` row was cleaned up really does stop scheduling, and in the
sender's runs, where all messages have been sent in the end. Nor in the two
runs of services: their environments are bounded, and when no epoch, fault,
message or piece is left a component rightly stops; that none stops too early is
what the progress properties say.

### Fairness

The engine: every thread of a live process runs, `Do` returns, time passes, and
when all nodes are down one is started again. Strong fairness of
`CleanupMachines`, of offering a given task to `CanAccept` and of a claim that
changes `owner_id` says that a poller, which comes round for ever, does not lose
every race. No fairness for `Crash`, operators, or a second start.

The sender: `Do` gets on, callers poll; strong
fairness of the lock, for which the code retries every 100 ms. The pipeline:
pollers poll on a ticker, tasks and messages are executed, seed epochs pass;
strong fairness of `FireBatch`, because a batch that is held back reaches its
timeout.

The services: `Process(k, i)` gives the i-th process of kind k of the component
that runs, and each is weakly fair. These are the pollers, which run on tickers;
the goroutines of a live node; the engine, which offers a task until it is
accepted and repeats it when it fails; the machine clean-up; and, where a
component waits for the chain, the execution of messages and the passing of
time. No fairness for deals, uploads, requests of clients, faults or restarts,
nor for intervals of singletons. Two conditions are strong: transactions of a
singleton that are tried for ever do not fail for ever, and the chain grows,
again and again by a tipset that executes what is sent. `PeriodsAreLong` is about
proving only: from some time on, what can be done in a proving period is done
before the period ends. Without it a window could close before every proof, and
no code could help; a window lasts for hours, a task for minutes.

## 4. Proofs

Forty-four theorems in eight modules, listed in `PROJECT.json`, and the corollary
`ServicesAreSafe`. Each holds for every value of the constants
that satisfies the named assumption of its module: any number of nodes, tasks,
messages, sectors, pieces and faults. Every safety invariant of the passing
runs and every action property is among them. What follows is the invariant each proof rests on and why it is needed;
the invariants were run through TLC on small instances before they were proved.

### The engine

* `TypeCorrect`: `Spec => []TypeOK`. `TypeOK` is inductive as it stands, with
  naturals for every count of goroutines; `active` is only an integer
  there.
* `HistoryAlwaysConsistent`: `Spec => []HistoryConsistent`. It is inductive
  with `TypeOK`, because only `AddTask` and `Complete` change the five
  variables it speaks of; no assumption about heartbeats or commits is needed.
* `EngineImplementsLedger`: `Spec => ImplementsLedger`. The mapping reads the
  ledger's status from `row` and `succeeded`. `HistoryConsistent` is needed to
  see that the retries the code compares with `MaxFailures` are the failures
  the ledger counts.
* `OwnershipHolds`, `SingleWriterHolds`, `NobodySteals`: from `~FalseSuspicion`
  and `~DBErrors`, `Spec` implies `[]OwnershipInv`, `[]SingleWriter` and
  `NoTheft`. `SingleWriter` is not inductive: it speaks of goroutines in `Do`
  only. `OwnershipInv` also counts those that record, and tasks the poller has
  claimed or recovered and not started (`WorkIsOwned`); a claim is harmless
  because the row it takes has no owner, hence nobody works on it; a clean-up is
  harmless because a live process has a fresh row under its own id
  (`LiveIsRegistered`); and a recovered row is not in work because a starting
  process has no goroutines (`PhasesMatch`). That all this survives new machines
  needs ids that are never shared or reused (`IdsDistinct`). The two assumptions
  are necessary: run `stolen` is the counterexample.
* `RestartsAreIdle`, under the same assumptions: the restart looks only at
  `owner_id` in the table; by `WorkIsOwned` there is no work without it.
* `NoTaskIsStranded`, from `~DBErrors` alone: with `IdsDistinct` and
  `PhasesMatch` it is inductive, also when live nodes are taken for dead. A
  claim whose commit is applied and reported as failed does strand its task: the
  row has an owner that knows nothing of it.
* `NothingIsOvercommitted`: `Spec => []NoOvercommit`, without assumptions on
  heartbeats or commits. `NoOvercommit` compares sums over the goroutines of a
  node with its machine, while the code looks at counters before it claims.
  `CapacityInv` (with `HostFits` for one node) bridges the steps in between: the
  counters are exact; what a poller proposes or has claimed is of the handler's
  type and not empty; while a claim is being prepared, goroutines may end but
  none starts, so the node uses no more than was seen and fitted; and what was
  claimed has room. Claims and recovered tasks are only started by the poller
  that made room for them. The sums need lemmas (a sum of naturals grows with
  its set and its terms, one more goroutine adds its cost) that are proved from
  the recursive definition by a least counterexample: the smallest subset for
  which the lemma fails.

### The sender

`SenderInv` has three layers, because the theorems need different assumptions.

* `BasicInv` (where a worker is in `Do` says what it knows; only what was pushed
  is "sent") holds in every behaviour and gives `TypesHold` and `AnswersAreTrue`.
* `OrderInv`, unless nodes can stall: a worker owns its message and, from
  `AcquireLock` to `Release`, its key's lock; the row has no nonce before
  `WriteNonce` and the worker's nonce after; whatever was pushed went out under
  the nonce of its row; the pushed nonces of a key are `0..n-1`. It gives
  `MessagesAreSentOnce` and `NoncesHaveNoGap`.
* `NoncesDiffer`, for one chain API without stalls and without a refusal that
  meets a crash or a database error: two messages share a nonce only if the
  send of one has failed for good without a push, and a nonce about to be
  assigned is above all that were pushed. It gives `PushesAreSafe`. The attempt
  to prove an earlier form, which excluded only the crash, failed for a good
  reason, and TLC gave the counterexample from four faults on: a refusal is stored, the release of the lock fails, the
  push is refused again when the task is repeated, storing that fails too, the
  lock is released, another message takes the nonce, and the first one is
  pushed again. `PushIsSafe` excludes that combination now.

### The sealing pipeline

`SealInv` says that for the set of sectors of the behaviour

* `Base`: rows, tasks, messages and the pollers' snapshots have their types
  (`PipelineTypesHold`);
* `Stage`, if `Solo`: what is done is closed under the order of the stages; a
  task id is in a row only above the stages done; a task at work is named by its
  rows; what a poller has decided from its snapshot still fits the row
  (`StagesStayInOrder`, `WorkersAreAlone`);
* `Messages`, unless a task died between sending and recording: a message in
  flight is linked to each of its sectors by the row's cid or by the task that
  has just sent it, never by two (`NoMessageIsFutile`).

`Solo` says that there is one poller, or that trees are never thrown away. It is
needed: with two pollers and a reset the snapshot of one can be older than the
reset of the other (section 5).

### The services

* `SingletonsAreSingle`, `SingletonTypesHold`: the row's task id is that of a queued task (a foreign
  key), and a transaction about to upsert has read a row without a task. With
  the conflict rule of the database the second of two such transactions fails.
* `ReadersStayOpen`, `ReaderTypesHold`: the reference count is at least the number
  of holders; a reader is open from the moment it is set until it has expired and
  the count has come down; only one request opens it.
* `ReferencesAreCounted`, `NoReaderLeaks`: the count is exact (`Exact`), but for
  the reference that a request keeps when the piece cannot be opened, and such a
  reader is never open. So whether a reader is closed depends on who has it and
  not on how the count came about: none stays open that nobody has.
* `LayersAreKept`, `BatchTypesHold`: a batch between `Get` and `MarkWorkDone` has a slot of its
  own that the manager knows (`SlotOK`); a row is of a sealed batch whose layers
  are in the slot (`SlotRefOK`); nothing is finalized earlier (`FinalOK`).
* `RefsAlwaysSurvive`, `ParkTypesHold`: a reference is to a row that is there (`DealOK`); data
  is written before the row says so, and both clean-ups remove the data only of
  rows they have deleted (`PieceOK`, `FixingOK`); references never move to a row
  that is deleted with the others.
* `AdsFormOneChain` is inductive with the types. `AdsAlwaysMatchRefs` needs to
  know who is on the way to announce what: a task that is has an index
  (`AdRefOK`), and while the clean-up is about to drop an index, no task of a
  reference that has come meanwhile is (`DropOK`), because it found the index.
  That is also why such a reference is never announced (section 5).
  `AdsTypesHold` adds that a head somebody has read lies on the chain, and
  `AdsAreALog` that the chain is a log for its readers: it changes only by one
  more advertisement over its end.
* `WatchersTypesHold`, `ReceiptsStand`: every head on its way to a watcher, in the
  channel, the wake-up or the update that runs, says of a message that is deep
  only what is still so (`HeadOK`). So it does not matter how old the head is.
* `MinersTypesHold`, `NoFaultIsCommitted`: the two unique indexes keep the rows
  of a miner apart by epoch and by base (`RowsDiffer`), a block that was
  submitted is the one in the row of its epoch (`SubmittedOK`), and only the node
  that has written its block into the row goes on to submit one (`DoOK`).
  The proof never uses that `Do` asks `stillOwned` before it submits: a node
  that lost its task finds the block of another one in the row, or has put its
  own there first.
* `DeletionTypesHold`, `DeletionsAreOrdered`, `RowsAreKept`: deletion is allowed
  only when the rail is final, and a deletion task exists only when it is
  allowed (`RowShape`); a message named by the row, held by the task that has
  just sent it, or seen by a reconciler is that of the stage, and nobody reuses
  its number (`TxsHeld`, `TaskOK`, `TasksDiffer`, `SeenOK`); a message for a
  stage is sent only when the stage before is over on the chain (`TxOK`).
* `ProvingTypesHold`, `SetsAreGivenUpInTime`, `GivenUpIsForGood`: proof tasks and
  the task of a period fail next to each other, and each failure counts on from
  what the row says in its own transaction; so the count reaches
  `MaxConsecutiveFailures` only in the step that gives the set up
  (`AttemptsLeft`), and no column write takes that back. That the messages of no
  row belong to a period needs to know that a message under way has a window
  (`HasWindow`).
* `ServicesAreTheirParts`: each step of `MCServices` is a step of one component
  and leaves the variables of the others alone, so a behaviour of the composition
  is a behaviour of all nine, and the choices made there for TLC only leave
  behaviours out. `ServicesTypesHold` and `ServicesAreSafe` follow from the
  theorems on the components.

### Assumptions on constants

Bounds are naturals, and positive where the code has no use for zero
(`BatchSize`, `MaxBatch`, `MaxEpoch`); sets that are counted are finite (tasks,
messages of a sender, sectors, requests); a marker such as `None`, `NoTask` or
`"unused"` is not a member of the set it is added to; there is another block
producer, and a piece to announce; sectors start new or with Supraseal's four
stages done. TLC evaluates all of them in the runs.

The least member of a set, which the code gets from `ORDER BY` or a counter, is
a `CHOOSE`; that it exists is proved by a minimal counterexample (`WFMin`).

### Only model-checked

* Liveness: fairness and `ENABLED` are beyond the prover.
  `EventuallySettled`, `RestartHonoured`, `EverySendReturns`,
  `EverySectorSettles` and the seven properties of `services_progress` are
  checked by TLC alone.
* The four properties of the runs that expect a violation, which are false there.

## 5. Observations without a run

Met while modelling; each follows from the cited lines, none contradicts a
property above.

* `harmonytask.go:242` says that shutdown waits for running tasks; it waits for
  the time-sensitive ones.
* A live node whose `harmony_machines` row was deleted never schedules again
  (`resources.go:107` updates no row, and `checkNodeFlags` finds none,
  `harmonytask.go:510`).
* A worker that lost its task only notices while it waits for the lock
  (`sender.go:120`); beyond that point a stalled worker can send a message a
  second time. A lost answer of `MpoolPush` together with an API node that lags
  can have the same effect on the nonce (`sender.go:169`).
* A send task that is dropped after `MaxFailures` leaves `Send` polling for ever
  and its lock in place.
* The interval of a singleton can reach twice `minInterval`, since the node's
  and the row's interval are tested in turn.
* Failed sectors stay candidates of the batch queries
  (`poller_precommit_msg.go:54`), and one late deal fails the whole batch
  (`task_submit_precommit.go:231`), so a late sector can take batch-mates with
  it again and again.
* `task_submit_commit.go:283` passes three arguments to four placeholders.
* Two pollers and a reset: `pollStartSynth` asks only for `task_id_synth IS NULL`
  when it writes (`poller.go:309`). A poller whose snapshot is older than the
  reset of the trees by another node adds a task for synthetic proofs, which
  fails until TreeD is done again (`Found`) and may then be marked as done before
  TreeRC is. The model has this behaviour: TLC finds `StageOrder` violated, in 34
  steps, for one sector, two pollers and one reset. `sealing.md:60` says that
  the steps occur in the correct order. The scenarios of `seal` do not combine the
  two, and `StageOrder` is claimed, checked and proved for one poller, or without
  resets.
* When `transferFinalizedSectorData` fails, the retry finds no rows and
  `sectors_meta` is not written (`task_submit_commit.go:395`).
* After a crash between sending a precommit and storing its cid a second
  message is sent and refused; the poller then reports the exit code at every
  poll and the sector stays where it is.
* Winning PoSt: the check for a block of ours below the new base
  (`winning_task.go:738`) sees rows that are already `won`. A `Do` of an earlier
  round that finishes late is not compared with a later task whose base omits
  its block (the third consensus fault, parent-grinding, is therefore not part
  of `NoConsensusFault`).
* Piece park: releasing a claimed row can violate the unique index when the
  piece has been parked anew; the task then fails until it is dropped and
  `cleanup_task_id` stays. Clean-up tasks of a row without a file are never
  accepted; a dropped park task leaves its `task_id` behind; a crash between the
  deletion of the row and `RemovePiece` leaves the file.
* Batches: a batch one of whose sectors is removed before sealing can never be
  filled and holds its other sectors; a commit with unknown outcome aborts a slot
  that has references; `MarkWorkDone` may come after a finalize of the same
  batch as far as the code goes, and only the 150 epochs in between prevent it.
* A provider's decision can be lost. When a data set is given up
  (`failure_handling.go:140`) while a client's request for its termination is under
  way, `EnsureServiceTermination` inserts nothing (`ON CONFLICT DO NOTHING`,
  `FWSS/utils.go:16`) and the row stays the client's. If the client's task is
  given up the foreign key deletes the row with it, and if its message fails
  `deleteFailedClientTermination` does. The set is then neither proved nor
  scheduled for deletion until its rail ends or is about to default;
  `PDPCURIOSPEC.md:100` says: "marked as unrecoverably failed and scheduled for
  deletion". The model has this behaviour: `dsLocal = "unprovable"` without a row
  is reachable.
* Data-set deletion: a client's row that is given up when the rail becomes final
  unobserved leaves a terminated set that nobody cleans up. One data set's error
  ends the watcher's pass for the others. A message whose wait never resolves
  stalls its stage.
* Proving: a watcher that selected a row before it moved on adds a second task
  for it, which skips a period (`task_next_pp.go:84`). A node whose cached head
  lags takes a proof task for too late and ends it without a proof
  (`task_prove.go`, `SkipProof`). A piece that is added between the look at the
  leaves and `init_ready = FALSE` leaves a set that is not proved; the comment at
  `disableProving` says so for that path, not for the one in `task_init_pp.go`.
* PDP v0 indexing (`task_pdp_v0_indexing.go:92`): an index that exists is taken
  for one that was announced, and `needs_ipni` becomes `FALSE`. So a piece stays
  unannounced if a failed attempt has written a part of its index, if the first
  reference is collected before its announcement, if `RemoveIndexes` runs after
  its transaction and meets a new reference, or if a reference that waits for
  its announcement is added again. Task ids of dropped indexing tasks are never
  taken back, those of IPNI tasks are.
* IPNI for deals: rows of completed tasks make a repeated announcement violate a
  unique index in `insert_ipni_task`, which the caller takes for a pending task;
  PDP v0 looks advertisements up by piece without the provider.
* Sector locks (`lib/paths/db_index.go:937`): `lock` keeps the last row per file
  type, `unlock` decrements also rows declared later; a crashed reader leaves its
  `read_refs`. Storage GC does not check an approved mark again when it sweeps.
* Window PoSt: the submit guard (`head > submitByEpoch`) admits messages that
  cannot be executed in time. Rows of recovery tasks stay, so a recovery that
  found nothing, or whose message failed, is not repeated in the period. The
  grace loop in `compute_task.go` has its condition inverted and never runs: one
  failed `ChainHead` cancels the proof.

## 6. Not modelled

`components` in `PROJECT.json` gives the reason for each part. In short: proof
computation, native code, file transfer, HTTP and libp2p handlers, configuration
and the web UI are I/O or black boxes; transaction isolation is the external
library's and appears as the atomicity of steps; gas, fees and collateral only
decide whether a call succeeds.

The lines mapped are a small share of the repository. Most of its lines are
generated contract bindings and CBOR codecs, command-line tools, RPC handlers
that run one query each, request validation, migrations and native glue: code
without a protocol between two actors. What remains and has one (snap, unsealing,
window PoSt, sector locks, deal ingest, proof share) repeats patterns that
are modelled here (a pipeline with pollers, a task per row, a message with a
wait) and comes next in the plan.

## 7. Plan

Done: the engine, its abstract specification and first theorems; singletons; the
sender; the sealing pipeline; message watchers with the chain scheduler; winning
PoSt; piece park; cached reader; Supraseal batches with the slot manager; PDP v0
proving, deletion, indexing and announcements.

Proved: every safety invariant of the runs, and the action properties
`ImplementsLedger`, `NoTheft`, `RestartIsIdle` and `RowKept`.

Next, proofs: `StageOrder` for any number of pollers in the cases where a reset
cannot meet a snapshot.

Then more of the system: window PoSt (one proof per partition across head
changes), storage claims and sector locks (the step that `StartClaimed` leaves
open), storage GC, and the composition of `MessageWatcher` with `SealPipeline`,
whose chain it refines.

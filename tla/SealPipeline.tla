---------------------------- MODULE SealPipeline ----------------------------
(***************************************************************************)
(* The sealing pipeline of Curio (tasks/seal).  A sector is a row of       *)
(* sectors_sdr_pipeline with a task_id_x and an after_x column per stage.  *)
(* On every node a SealPoller reads all rows every ten seconds and, row by *)
(* row, adds the tasks the snapshot calls for; the tasks, run by the       *)
(* engine on any node, find their sectors through task_id_x and set        *)
(* after_x.  Precommit and commit messages are sent for batches of         *)
(* sectors; the pollers learn from message_waits how they fared.           *)
(*                                                                         *)
(* The engine is reduced to what HarmonyTask promises: a task is run by    *)
(* one goroutine at a time, again after a failure or a crash, until it is  *)
(* done or has failed MaxFailures times.  task_id_tree_c and               *)
(* task_id_tree_r, and their after columns, are always written together    *)
(* and are the one stage "treerc"; seed_epoch is written together with     *)
(* after_precommit_msg_success.  All sectors are of one provider and one   *)
(* proof type, so that all of them may share a batch.                      *)
(***************************************************************************)
EXTENDS Integers, FiniteSets, Sequences, SequencesExt

CONSTANTS
    Sectors,      \* sectors that may be in the pipeline
    WithDeals,    \* sectors with pieces that have a start epoch
    Pollers,      \* nodes that may run a SealPoller
    MaxBatch,     \* ClampMaxBatch of the configured batch size
    MaxFailures,  \* TypeDetails().MaxFailures, here the same for all stages
    Scenarios,    \* sectors, what has been done for them, pollers and kinds of faults: a
                  \* behaviour has those of one of them
    MaxFaults,    \* bound: how many faults it meets in all
    MaxNames      \* bound: tasks, or messages, of a stage and a sector that exist or are
                  \* referred to at a time

\* "stale": a poller acts on a snapshot that another has overtaken.  "crash": a
\* process dies inside a task.  "error": a call or a statement of a task fails.
\* "reset": the computed trees turn out to be wrong.  "expired": a ticket gets
\* too old.  "late": the start epoch of a deal passes.  "gas": a message runs
\* out of gas or funds.  "simulate": the dry run of a sector's commit fails.
FaultKinds == {"stale", "crash", "error", "reset", "expired", "late", "gas", "simulate"}

VARIABLES
    row,     \* sectors_sdr_pipeline
    task,    \* harmony_task, and where the goroutine of a task is in Do
    poller,  \* where each SealPoller is in poll, and what its snapshot still calls for
    msg,     \* precommit and commit messages, and message_waits
    chain,   \* what the chain knows of the sector
    clock,   \* which epochs have passed for the sector
    faults   \* the kinds of faults of this behaviour, how many it has met, and
             \* whether one has hit a task between sending and message_waits

vars == <<row, task, poller, msg, chain, clock, faults>>

\* The stages that are a task of one sector, and the two that are a batch.
Single  == {"sdr", "treed", "treerc", "synth", "porep", "finalize", "move"}
Batched == {"precommit", "commit"}
Stages  == Single \cup Batched

\* The order of the stages; "precommitOk" is after_precommit_msg_success.
Order == <<"sdr", "treed", "treerc", "synth", "precommit", "precommitOk",
           "porep", "finalize", "move">>

Flags == Stages \cup {"precommitOk", "startEpoch", "commitOk"}

\* A sector starts with no stage done, or with those of Supraseal, which
\* seals a batch of sectors up to the synthetic proofs in one task.
BySupraseal == {"sdr", "treed", "treerc", "synth"}

ASSUME SealAssumption ==
    /\ Sectors \subseteq Nat /\ IsFiniteSet(Sectors)
    /\ WithDeals \subseteq Sectors
    /\ {MaxBatch, MaxFailures, MaxNames} \subseteq Nat \ {0}
    /\ Scenarios \subseteq [sectors : SUBSET Sectors, done : {{}, BySupraseal},
                               pollers : SUBSET Pollers, kinds : SUBSET FaultKinds]
    /\ MaxFaults \in Nat

\* What poll does with a sector, in this order; reading the result of a
\* precommit message and acting on it are two statements.
Steps == <<"sdr", "treed", "treerc", "synth", "precommitLanded", "precommitResult", "porep",
           "startEpoch", "finalize", "move", "commitLanded", "commitResult">>

LandedStep == [precommit |-> "precommitLanded", commit |-> "commitLanded"]
ResultStep == [precommit |-> "precommitResult", commit |-> "commitResult"]
SuccessOf  == [precommit |-> "precommitOk", commit |-> "commitOk"]

\* Tasks and messages have opaque identifiers; the model names them after
\* their stage and their first sector, and uses a name again when nothing
\* refers to it any more.
NoTask == <<>>
NoMsg  == <<>>
Ids    == Stages \X Sectors \X (1..MaxNames)
MsgIds == Batched \X Sectors \X (1..MaxNames)

\* The sectors in the pipeline, the nodes that poll it, the tasks and the
\* messages that exist.
Rows    == DOMAIN row
Polling == DOMAIN poller
Tasks   == DOMAIN task
Msgs    == DOMAIN msg

Todo == [step : Range(Steps), sector : Rows, msg : MsgIds \cup {NoMsg}]

TypeOK ==
    /\ Rows \subseteq Sectors
    /\ row \in [Rows -> [after : SUBSET Flags, task : [Stages -> Ids \cup {NoTask}],
                            cid : [Batched -> MsgIds \cup {NoMsg}], failed : BOOLEAN]]
    /\ Tasks \subseteq Ids
    /\ task \in [Tasks -> [fails : 0..(MaxFailures - 1), sectors : SUBSET Rows, msg : MsgIds \cup {NoMsg},
                           at : {"queued", "work", "send", "update", "wait"}]]
    /\ poller \in [Polling -> [at : {"idle", "sectors", "commit"}, todo : SUBSET Todo]]
    /\ Msgs \subseteq MsgIds
    /\ msg \in [Msgs -> [sectors : SUBSET Rows, watched : BOOLEAN,
                         state : {"sent", "ok", "gas", "rejected"}]]
    /\ chain \in [Rows -> {"unknown", "precommitted", "proven"}]
    /\ clock \in [Rows -> SUBSET {"seed", "expired", "late"}]
    /\ faults \in [kinds : SUBSET FaultKinds, met : 0..MaxFaults, torn : BOOLEAN]

Queued == [fails |-> 0, sectors |-> {}, msg |-> NoMsg, at |-> "queued"]

Init == \E sc \in Scenarios :
    /\ row = [s \in sc.sectors |-> [after |-> sc.done, task |-> [x \in Stages |-> NoTask],
                                    cid |-> [x \in Batched |-> NoMsg], failed |-> FALSE]]
    /\ task = <<>>
    /\ poller = [p \in sc.pollers |-> [at |-> "idle", todo |-> {}]]
    /\ msg = <<>>
    /\ chain = [s \in sc.sectors |-> "unknown"]
    /\ clock = [s \in sc.sectors |-> {}]
    /\ faults = [kinds |-> sc.kinds, met |-> 0, torn |-> FALSE]

Fault(kind) ==
    /\ kind \in faults.kinds
    /\ faults.met < MaxFaults
    /\ faults' = [faults EXCEPT !.met = @ + 1]

Least(S) == CHOOSE i \in S : \A j \in S : i <= j

\* A new task of stage x for the sectors B, and a new message.
NewIds(x, B) == {i \in {<<x, Least(B), n>> : n \in 1..MaxNames} :
                   i \notin Tasks /\ \A s \in Rows : row[s].task[x] # i}
NewMsgs(x, B) == {m \in {<<x, Least(B), n>> : n \in 1..MaxNames} :
                    /\ m \in Msgs => msg[m].state # "sent"
                    /\ \A s \in Rows : row[s].cid[x] # m
                    /\ \A i \in Tasks : task[i].msg # m
                    /\ \A p \in Polling : \A t \in poller[p].todo : t.msg # m}

First(S) == CHOOSE i \in S : \A j \in S : i[3] <= j[3]

With(f, x, v) == [y \in DOMAIN f \cup {x} |-> IF y = x THEN v ELSE f[y]]
Without(f, x) == Restrict(f, DOMAIN f \ {x})

\* The rows whose column task_id_x is i.
RowsOf(x, i) == {s \in Rows : row[s].task[x] = i}

Done(r)   == {"commitOk", "move"} \subseteq r.after
Index(x)  == CHOOSE n \in 1..Len(Order) : Order[n] = x
Before(x) == {Order[n] : n \in 1..(Index(x) - 1)}

-----------------------------------------------------------------------------
(* The poller.                                                             *)

\* pollStart*: the stage is neither done nor under way, and all the stages
\* before it are done.
CallsForTask(s, x) ==
    /\ x \notin row[s].after
    /\ row[s].task[x] = NoTask
    /\ Before(x) \subseteq row[s].after
    /\ x = "porep" => "seed" \in clock[s]

CallsFor(s, step) ==
    /\ ~ row[s].failed
    /\ ~ Done(row[s])
    /\ \/ step \in Single /\ CallsForTask(s, step)
       \/ step = "precommitLanded" /\ "precommit" \in row[s].after /\ "precommitOk" \notin row[s].after
       \/ step = "startEpoch" /\ "precommitOk" \in row[s].after /\ "startEpoch" \notin row[s].after
       \/ step = "commitLanded" /\ "commit" \in row[s].after /\ "commitOk" \notin row[s].after

\* poll reads every row at once; what follows acts on this snapshot.
PollSelect(p) ==
    /\ poller[p].at = "idle"
    /\ poller' = [poller EXCEPT ![p] =
         [at |-> "sectors",
          todo |-> {t \in [step : Range(Steps), sector : Rows, msg : {NoMsg}] :
                      CallsFor(t.sector, t.step)}]]
    /\ UNCHANGED <<row, task, msg, chain, clock, faults>>

\* The next thing the poller does: sector by sector, in the order of Steps.
\* (The SELECT leaves the order of the sectors open; what is done for one
\* touches no other.)
Position(x) == SelectInSeq(Steps, LAMBDA y : y = x)

Due(p, t) ==
    /\ t \in poller[p].todo
    /\ \A u \in poller[p].todo : \/ t.sector < u.sector
                                 \/ t.sector = u.sector /\ Position(t.step) <= Position(u.step)

Forget(p, t) == poller' = [poller EXCEPT ![p].todo = @ \ {t}]

\* Mutant: the WHERE clause forgets task_id_x IS NULL.
MayAssignAgain(s, x) ==
    /\ x = "treed" => "sdr" \in row[s].after
    /\ x = "treerc" => "treed" \in row[s].after

\* The WHERE clause of the UPDATE that sets task_id_x.
MayAssign(s, x) ==
    /\ row[s].task[x] = NoTask
    /\ x = "treed" => "sdr" \in row[s].after
    /\ x = "treerc" => "treed" \in row[s].after

\* AddTask: a task and task_id_x in one transaction, or nothing.  The WHERE
\* clause does not ask for after_x: a poller that has been overtaken starts a
\* stage that is done (counted as a fault; a poller that would exceed the bound
\* gets no further).
PollStart(p, t) ==
    /\ t.step \in Single
    /\ Due(p, t)
    /\ IF MayAssign(t.sector, t.step)
         THEN /\ NewIds(t.step, {t.sector}) # {}
              /\ IF t.step \in row[t.sector].after THEN Fault("stale") ELSE UNCHANGED faults
              /\ LET i == First(NewIds(t.step, {t.sector}))
                 IN  /\ task' = With(task, i, Queued)
                     /\ row' = [row EXCEPT ![t.sector].task[t.step] = i]
         ELSE UNCHANGED <<task, row, faults>>
    /\ Forget(p, t)
    /\ UNCHANGED <<msg, chain, clock>>

\* The message of column cid whose execution message_waits knows.
Landed(s, x) == LET m == row[s].cid[x]
                IN  IF m # NoMsg /\ msg[m].watched /\ msg[m].state # "sent" THEN m ELSE NoMsg

\* pollPrecommitMsgLanded and pollCommitMsgLanded look the message up.
PollLanded(p, t, x) ==
    /\ t.step = LandedStep[x]
    /\ Due(p, t)
    /\ LET m == Landed(t.sector, x)
       IN  poller' = [poller EXCEPT ![p].todo = (@ \ {t}) \cup
             IF m = NoMsg THEN {} ELSE {[t EXCEPT !.step = ResultStep[x], !.msg = m]}]
    /\ UNCHANGED <<row, task, msg, chain, clock, faults>>

\* Mutant: the WHERE clause forgets the cid of the message that failed.
UnsentAny(r, x, m) ==
    IF SuccessOf[x] \notin r.after
      THEN [r EXCEPT !.after = @ \ {x}, !.task[x] = NoTask, !.cid[x] = NoMsg]
      ELSE r

\* Mutant: after_x stays set.
UnsentHalf(r, x, m) ==
    IF r.cid[x] = m /\ SuccessOf[x] \notin r.after
      THEN [r EXCEPT !.task[x] = NoTask, !.cid[x] = NoMsg]
      ELSE r

\* pollRetry*MsgSend: as if the message had not been sent.
Unsent(r, x, m) ==
    IF r.cid[x] = m /\ SuccessOf[x] \notin r.after
      THEN [r EXCEPT !.after = @ \ {x}, !.task[x] = NoTask, !.cid[x] = NoMsg]
      ELSE r

\* after_*_msg_success = TRUE.
Mark(r, flag) == [r EXCEPT !.after = @ \cup {flag}]

\* The message was executed: its success is recorded when the chain knows the
\* precommitted sector, and a failure for want of gas is undone.
PollPrecommitResult(p, t) ==
    /\ t.step = "precommitResult"
    /\ Due(p, t)
    /\ row' = [row EXCEPT ![t.sector] =
         CASE msg[t.msg].state = "gas" -> Unsent(@, "precommit", t.msg)
           [] msg[t.msg].state = "ok" /\ chain[t.sector] = "precommitted" ->
                Mark(@, "precommitOk")
           [] OTHER -> @]
    /\ Forget(p, t)
    /\ UNCHANGED <<task, msg, chain, clock, faults>>

\* A commit message that failed because the sector needed none any more is
\* as good as a successful one.  A commit is "rejected" when none of its sectors
\* is precommitted (Execute), which is exit code ErrNotFound; the other codes, on
\* which pollCommitMsgFail gives up, are not in the model.
PollCommitResult(p, t) ==
    /\ t.step = "commitResult"
    /\ Due(p, t)
    /\ row' = [row EXCEPT ![t.sector] =
         LET r == IF msg[t.msg].state = "gas" THEN Unsent(@, "commit", t.msg) ELSE @
         IN  IF chain[t.sector] = "proven" THEN Mark(r, "commitOk") ELSE r]
    /\ Forget(p, t)
    /\ UNCHANGED <<task, msg, chain, clock, faults>>

\* pollerAddStartEpoch needs the precommit info, which is gone once the
\* sector is proven.
PollAddStartEpoch(p, t) ==
    /\ t.step = "startEpoch"
    /\ Due(p, t)
    /\ row' = [row EXCEPT ![t.sector].after =
         IF /\ chain[t.sector] = "precommitted"
            /\ "precommitOk" \in @
            /\ "commit" \notin @
           THEN @ \cup {"startEpoch"} ELSE @]
    /\ Forget(p, t)
    /\ UNCHANGED <<task, msg, chain, clock, faults>>

\* The candidates of the two batch queries; neither looks at column failed.
Candidates(x) ==
    {s \in Rows :
       /\ row[s].task[x] = NoTask
       /\ x \notin row[s].after
       /\ IF x = "precommit" THEN "synth" \in row[s].after
                             ELSE {"porep", "startEpoch"} \subseteq row[s].after}

\* The rows are numbered by start epoch or by age, which the model leaves
\* open, and cut into batches.  All are full but the last, and a full one is
\* fired at once: only the first matters.
Batches(x) ==
    LET C == Candidates(x)
    IN  IF Cardinality(C) < MaxBatch THEN {C} \ {{}} ELSE kSubset(MaxBatch, C)

\* The batches come after the sectors, those for commits last.
AtBatch(p, x) ==
    IF x = "precommit"
      THEN /\ poller[p].at = "sectors" /\ poller[p].todo = {}
           /\ poller' = [poller EXCEPT ![p].at = "commit"]
      ELSE /\ poller[p].at = "commit"
           /\ poller' = [poller EXCEPT ![p].at = "idle"]

\* pollStartBatch*Msg: one task for the first batch that is full, whose slack
\* is used up or whose timeout has passed (EvalBatchTimeout).
FireBatch(p, x) ==
    /\ AtBatch(p, x)
    /\ \E B \in Batches(x) :
         /\ NewIds(x, B) # {}
         /\ task' = With(task, First(NewIds(x, B)), Queued)
         /\ row' = [s \in Rows |-> IF s \in B THEN [row[s] EXCEPT !.task[x] = First(NewIds(x, B))]
                                                 ELSE row[s]]
    /\ UNCHANGED <<msg, chain, clock, faults>>

\* No batch is full, and there is time left for the others.
HoldBatch(p, x) ==
    /\ AtBatch(p, x)
    /\ Cardinality(Candidates(x)) < MaxBatch
    /\ UNCHANGED <<row, task, msg, chain, clock, faults>>

Poll(p) ==
    \/ PollSelect(p)
    \/ \E t \in poller[p].todo :
         \/ PollStart(p, t)
         \/ \E x \in Batched : PollLanded(p, t, x)
         \/ PollPrecommitResult(p, t)
         \/ PollAddStartEpoch(p, t)
         \/ PollCommitResult(p, t)
    \/ \E x \in Batched : FireBatch(p, x) \/ HoldBatch(p, x)

-----------------------------------------------------------------------------
(* The tasks.                                                              *)

At(i, l) == task' = [task EXCEPT ![i].at = l]

\* What the engine makes of a task whose Do has returned an error, and of one
\* whose process has died.
Requeued(t) == [t EXCEPT !.at = "queued", !.sectors = {}, !.msg = NoMsg]

\* Mutant: one attempt too many.
AfterFailureOnceMore(i) ==
    IF task[i].fails < MaxFailures
      THEN [task EXCEPT ![i] = [Requeued(task[i]) EXCEPT !.fails = task[i].fails + 1]]
      ELSE Without(task, i)

AfterFailure(i) ==
    IF task[i].fails + 1 < MaxFailures
      THEN [task EXCEPT ![i] = [Requeued(task[i]) EXCEPT !.fails = task[i].fails + 1]]
      ELSE Without(task, i)

StageOf(i) == i[1]

\* A fault that hits a task which has sent its message and not yet told
\* message_waits about it.
FaultIn(i, kind) ==
    /\ kind \in faults.kinds
    /\ faults.met < MaxFaults
    /\ faults' = [faults EXCEPT !.met = @ + 1, !.torn = @ \/ task[i].at \in {"update", "wait"}]

\* Do has returned TRUE: the engine deletes the task, or dies before it does.
Return(i) ==
    \/ /\ task' = Without(task, i)
       /\ UNCHANGED faults
    \/ /\ task' = [task EXCEPT ![i] = Requeued(@)]
       /\ Fault("crash")

\* Do finds its sector through the column task_id_x, and TreeRC, the synthetic
\* proofs and PoRep need its tree_d_cid, which a reset sets to NULL (the messages
\* need it as well, after them) ...
Found(i) ==
    /\ RowsOf(StageOf(i), i) # {}
    /\ StageOf(i) \in {"treerc", "synth", "porep"} => \A s \in RowsOf(StageOf(i), i) : "treed" \in row[s].after

Begin(i) ==
    /\ task[i].at = "queued"
    /\ Found(i)
    /\ task' = [task EXCEPT ![i].at = "work", ![i].sectors = RowsOf(StageOf(i), i)]
    /\ UNCHANGED <<row, poller, msg, chain, clock, faults>>

\* ... and fails otherwise.
BeginOrphan(i) ==
    /\ task[i].at = "queued"
    /\ ~Found(i)
    /\ task' = AfterFailure(i)
    /\ UNCHANGED <<row, poller, msg, chain, clock, faults>>

\* The rows that the last UPDATE of a stage names: by sector, or by task id.
Finished(i) == IF StageOf(i) \in {"finalize", "move"} THEN RowsOf(StageOf(i), i)
                                                         ELSE task[i].sectors

\* The work is done: after_x = TRUE, task_id_x = NULL.  SDR has a new ticket.
Finish(i) ==
    /\ task[i].at = "work"
    /\ LET x == StageOf(i)
       IN  /\ row' = [s \in Rows |->
                IF s \in Finished(i) THEN [row[s] EXCEPT !.after = @ \cup {x}, !.task[x] = NoTask]
                                     ELSE row[s]]
           /\ clock' = [s \in Rows |->
                IF x = "sdr" /\ s \in task[i].sectors THEN clock[s] \ {"expired"} ELSE clock[s]]
    /\ Return(i)
    /\ UNCHANGED <<poller, msg, chain>>

\* Mutant: the trees after TreeD are kept.
ResetTreeD(i) ==
    /\ task[i].at = "work"
    /\ Fault("reset")
    /\ row' = [s \in Rows |->
         IF s \in task[i].sectors
           THEN [row[s] EXCEPT !.after = @ \ {"treed"},
                               !.task["treerc"] = NoTask, !.task["synth"] = NoTask]
           ELSE row[s]]
    /\ task' = AfterFailure(i)
    /\ UNCHANGED <<poller, msg, chain, clock>>

\* resetSectorSealingState: TreeRC or the synthetic proofs find the trees wrong.
Reset(i) ==
    /\ task[i].at = "work"
    /\ Fault("reset")
    /\ row' = [s \in Rows |->
         IF s \in task[i].sectors
           THEN [row[s] EXCEPT !.after = @ \ {"treed", "treerc", "synth"},
                               !.task["treerc"] = NoTask, !.task["synth"] = NoTask]
           ELSE row[s]]
    /\ task' = AfterFailure(i)
    /\ UNCHANGED <<poller, msg, chain, clock>>

\* SubmitPrecommitTask.Do up to the message: sectors with an expired ticket
\* are failed one by one, and a deal whose start epoch has passed fails every
\* sector of the batch.
CheckPrecommit(i) ==
    /\ task[i].at = "queued"
    /\ LET B       == RowsOf("precommit", i)
           expired == {s \in B : "expired" \in clock[s]}
           late    == {s \in B \ expired : "late" \in clock[s]}
           failing == IF late # {} THEN B ELSE expired
       IN  /\ row' = [s \in Rows |->
                IF s \in failing THEN [row[s] EXCEPT !.failed = TRUE, !.task["precommit"] = NoTask]
                                 ELSE row[s]]
           /\ IF B = failing
                THEN Return(i)
                ELSE /\ task' = [task EXCEPT ![i].at = "send", ![i].sectors = B \ failing]
                     /\ UNCHANGED faults
    /\ UNCHANGED <<poller, msg, chain, clock>>

\* SubmitCommitTask.Do up to the message, for sectors whose precommit info is
\* on chain.
CheckCommit(i) ==
    /\ task[i].at = "queued"
    /\ LET B == RowsOf("commit", i)
       IN  /\ \A s \in B : chain[s] = "precommitted"
           /\ IF B = {}
                THEN Return(i)
                ELSE /\ task' = [task EXCEPT ![i].at = "send", ![i].sectors = B]
                     /\ UNCHANGED faults
    /\ UNCHANGED <<row, poller, msg, chain, clock>>

\* A sector whose dry run fails is left out of the message, and nothing else
\* is done about it.  A message for no sector at all is refused.
SkipCommit(i) ==
    /\ task[i].at = "queued"
    /\ Fault("simulate")
    /\ LET B == RowsOf("commit", i)
       IN  /\ \A s \in B : chain[s] = "precommitted"
           /\ \E skipped \in (SUBSET B) \ {{}} :
                task' = IF skipped = B THEN AfterFailure(i)
                          ELSE [task EXCEPT ![i].at = "send", ![i].sectors = B \ skipped]
    /\ UNCHANGED <<row, poller, msg, chain, clock>>

\* Do returns an error: the chain has no precommit info of a sector.
CommitWithoutPrecommit(i) ==
    /\ task[i].at = "queued"
    /\ \E s \in RowsOf("commit", i) : chain[s] # "precommitted"
    /\ task' = AfterFailure(i)
    /\ UNCHANGED <<row, poller, msg, chain, clock, faults>>

\* Sender.Send returns the cid of the message.
Send(i) ==
    /\ task[i].at = "send"
    /\ LET new == NewMsgs(StageOf(i), task[i].sectors)
       IN  /\ new # {}
           /\ msg' = With(msg, First(new), [sectors |-> task[i].sectors, watched |-> FALSE,
                                            state |-> "sent"])
           /\ task' = [task EXCEPT ![i].at = "update", ![i].msg = First(new)]
    /\ UNCHANGED <<row, poller, chain, clock, faults>>

\* The cid goes to the rows that have this task, for a commit only to those
\* that are in the message.
StoreCid(i) ==
    /\ task[i].at = "update"
    /\ LET x == StageOf(i)
       IN  row' = [s \in Rows |->
             IF row[s].task[x] = i /\ (x = "commit" => s \in task[i].sectors)
               THEN [row[s] EXCEPT !.after = @ \cup {x}, !.task[x] = NoTask, !.cid[x] = task[i].msg]
               ELSE row[s]]
    /\ At(i, "wait")
    /\ UNCHANGED <<poller, msg, chain, clock, faults>>

\* INSERT INTO message_waits.  A commit then copies the row to sectors_meta,
\* which nothing here reads.
InsertWait(i) ==
    /\ task[i].at = "wait"
    /\ msg' = [msg EXCEPT ![task[i].msg].watched = TRUE]
    /\ Return(i)
    /\ UNCHANGED <<row, poller, chain, clock>>

Crash(i) ==
    /\ task[i].at # "queued"
    /\ FaultIn(i, "crash")
    /\ task' = [task EXCEPT ![i] = Requeued(@)]
    /\ UNCHANGED <<row, poller, msg, chain, clock>>

Fail(i) ==
    /\ task[i].at \in {"work", "send", "update", "wait"}
    /\ FaultIn(i, "error")
    /\ task' = AfterFailure(i)
    /\ UNCHANGED <<row, poller, msg, chain, clock>>

\* The tasks of one sector, and the two that submit messages.
Work(i) == Begin(i) \/ BeginOrphan(i) \/ Finish(i)

SDRTask(i)            == StageOf(i) = "sdr" /\ Work(i)
TreeDTask(i)          == StageOf(i) = "treed" /\ Work(i)
TreeRCTask(i)         == StageOf(i) = "treerc" /\ (Work(i) \/ Reset(i))
SyntheticProofTask(i) == StageOf(i) = "synth" /\ (Work(i) \/ Reset(i))
PoRepTask(i)          == StageOf(i) = "porep" /\ Work(i)
FinalizeTask(i)       == StageOf(i) = "finalize" /\ Work(i)
MoveStorageTask(i)    == StageOf(i) = "move" /\ Work(i)

Submit(i) == Send(i) \/ StoreCid(i) \/ InsertWait(i)

SubmitPrecommitTask(i) == StageOf(i) = "precommit" /\ (CheckPrecommit(i) \/ Submit(i))
SubmitCommitTask(i)    ==
    /\ StageOf(i) = "commit"
    /\ CheckCommit(i) \/ SkipCommit(i) \/ CommitWithoutPrecommit(i) \/ Submit(i)

Do(i) ==
    \/ SDRTask(i) \/ TreeDTask(i) \/ TreeRCTask(i) \/ SyntheticProofTask(i)
    \/ PoRepTask(i) \/ FinalizeTask(i) \/ MoveStorageTask(i)
    \/ SubmitPrecommitTask(i) \/ SubmitCommitTask(i)

-----------------------------------------------------------------------------
(* The chain, external.                                                    *)

\* Of an executed message only the outcome matters.
Executed(m, outcome) == [m EXCEPT !.state = outcome, !.sectors = {}]

\* A precommit batch is executed as a whole, and refused when it names a
\* sector the chain knows already; a commit batch proves the sectors it can.
Execute(m) ==
    /\ msg[m].state = "sent"
    /\ LET from == IF m[1] = "precommit" THEN "unknown" ELSE "precommitted"
           to   == IF m[1] = "precommit" THEN "precommitted" ELSE "proven"
           fit  == {s \in msg[m].sectors : chain[s] = from}
           ok   == IF m[1] = "precommit" THEN fit = msg[m].sectors ELSE fit # {}
       IN  /\ msg' = [msg EXCEPT ![m] = Executed(@, IF ok THEN "ok" ELSE "rejected")]
           /\ chain' = [s \in Rows |-> IF ok /\ s \in fit THEN to ELSE chain[s]]
    /\ UNCHANGED <<row, task, poller, clock, faults>>

RunOutOfGas(m) ==
    /\ msg[m].state = "sent"
    /\ Fault("gas")
    /\ msg' = [msg EXCEPT ![m] = Executed(@, "gas")]
    /\ UNCHANGED <<row, task, poller, chain, clock>>

\* The seed epoch is seedEpochConfidence epochs in the past.
SeedMatures(s) ==
    /\ "precommitOk" \in row[s].after
    /\ "seed" \notin clock[s]
    /\ clock' = [clock EXCEPT ![s] = @ \cup {"seed"}]
    /\ UNCHANGED <<row, task, poller, msg, chain, faults>>

TicketExpires(s) ==
    /\ "sdr" \in row[s].after
    /\ "precommit" \notin row[s].after
    /\ "expired" \notin clock[s]
    /\ Fault("expired")
    /\ clock' = [clock EXCEPT ![s] = @ \cup {"expired"}]
    /\ UNCHANGED <<row, task, poller, msg, chain>>

StartEpochPasses(s) ==
    /\ s \in WithDeals
    /\ "precommit" \notin row[s].after
    /\ "late" \notin clock[s]
    /\ Fault("late")
    /\ clock' = [clock EXCEPT ![s] = @ \cup {"late"}]
    /\ UNCHANGED <<row, task, poller, msg, chain>>

Next ==
    \/ \E p \in Polling : Poll(p)
    \/ \E i \in Tasks : Do(i) \/ Crash(i) \/ Fail(i)
    \/ \E m \in Msgs : Execute(m) \/ RunOutOfGas(m)
    \/ \E s \in Rows : SeedMatures(s) \/ TicketExpires(s) \/ StartEpochPasses(s)

Spec == Init /\ [][Next]_vars

\* Pollers poll on a ticker, the engine gets on with the tasks of every
\* sector, messages are executed and epochs pass.  A batch that is held back is fired in the end:
\* its timeout passes.
FairSpec ==
    /\ Spec
    /\ \A p \in Pollers : WF_vars(p \in Polling /\ Poll(p))
    /\ \A x \in Batched : SF_vars(\E p \in Polling : FireBatch(p, x))
    /\ \A s \in Sectors, n \in 1..MaxNames :
         WF_vars(\E i \in Tasks : i[2] = s /\ i[3] = n /\ Do(i))
    /\ WF_vars(\E m \in Msgs : Execute(m))
    /\ \A s \in Sectors : WF_vars(s \in Rows /\ SeedMatures(s))

-----------------------------------------------------------------------------
(* Properties.                                                             *)

\* The after columns of a sector are a prefix of the order of the stages, and
\* its commit comes after its PoRep: no stage counts as done on top of one that
\* does not, though polls overlap and messages are sent again, and though trees
\* are thrown away under one poller.  With two pollers and a reset it is false:
\* pollStartSynth asks only for task_id_synth, and a snapshot from before the
\* reset starts the proofs of trees that are gone.
StageOrder ==
    \A s \in Rows :
        /\ \A x \in row[s].after \cap Range(Order) : Before(x) \subseteq row[s].after
        /\ "startEpoch" \in row[s].after => "precommitOk" \in row[s].after
        /\ "commit" \in row[s].after => {"porep", "startEpoch"} \subseteq row[s].after

\* Two tasks of one stage never work on one sector at the same time, though
\* polls that overlap both see it without a task.  (The trees are not thrown away
\* under two pollers, as in StageOrder.)
OneWorkerPerStage ==
    \A i, j \in Tasks :
        /\ i # j
        /\ StageOf(i) = StageOf(j)
        /\ {task[i].at, task[j].at} \subseteq {"work", "send", "update"}
        => task[i].sectors \cap task[j].sectors = {}

\* A message is only ever in flight for sectors that need it, and for each
\* sector there is only one: no precommit is sent for a sector that has been
\* precommitted or is about to be, and likewise for commits.  (A task that dies
\* after sending its message sends it again.)
NoFutileMessage ==
    ~ faults.torn =>
      \A m \in Msgs : msg[m].state = "sent" =>
        \A s \in msg[m].sectors :
          /\ chain[s] = IF m[1] = "precommit" THEN "unknown" ELSE "precommitted"
          /\ \A n \in Msgs \ {m} : msg[n].state = "sent" => s \notin msg[n].sectors

\* Every sector is sealed and stored in the end or marked as failed, whatever
\* polls overlap and tasks are run again, unless a task has died between
\* sending a message and recording it.
EverySectorSettles ==
    \A s \in Sectors : <>(s \notin Rows \/ Done(row[s]) \/ row[s].failed \/ faults.torn)

\* The note in poller.go on the columns task_id_x: they are set only while the
\* task is executing or waiting to execute.
TaskIdMeansTask ==
    \A s \in Rows, x \in Stages :
        row[s].task[x] # NoTask => row[s].task[x] \in Tasks

=============================================================================

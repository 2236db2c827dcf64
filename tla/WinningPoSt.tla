---------------------------- MODULE WinningPoSt ----------------------------
(***************************************************************************)
(* Block production (tasks/winning/winning_task.go) for one miner: on      *)
(* every node mineBasic picks a base once per round and adds a WinPost     *)
(* task; the node that gets the task mines and submits the block.          *)
(*                                                                         *)
(* A miner is slashed for two blocks of one epoch and for two blocks on    *)
(* one base.  Nodes overlap in every step; what keeps them apart is the    *)
(* two unique indexes of mining_tasks and mining_base_block, the           *)
(* conditional UPDATE of won and the stillOwned check before the           *)
(* submission.                                                             *)
(*                                                                         *)
(* A block is <<epoch, author>>; the authors of our blocks are the nodes.  *)
(* Whether a task wins depends on the chain alone, so it is drawn once.    *)
(***************************************************************************)
EXTENDS Naturals, FiniteSets

CONSTANTS
    Miners,         \* nodes
    Others,         \* other block producers
    MaxEpoch,       \* bound: the last epoch
    MaxWinTasks,    \* bound: tasks
    MaxMineFaults   \* bound: crashes, losses of a task, failed calls

\* Somebody has made the genesis block.
ASSUME WinAssumption ==
    /\ MaxEpoch \in Nat \ {0}
    /\ {MaxWinTasks, MaxMineFaults} \subseteq Nat
    /\ Others # {}
    /\ Miners \cap {"unused", "queued", "gone"} = {}

VARIABLES
    now,        \* the epoch of the wall clock
    workBase,   \* of mineBasic on each node
    mining,     \* mining_tasks and mining_base_block
    winOwner,   \* owner of the task in harmony_task
    doing,      \* the node's run of Do
    submitted,  \* our blocks on the network
    mineFaults

winVars == <<now, workBase, mining, winOwner, doing, submitted, mineFaults>>

Epochs == 0..MaxEpoch

WinTasks == 1..MaxWinTasks

Authors == Others \cup Miners

Blocks == Epochs \X Authors

Tipsets == [height : Epochs, blocks : SUBSET Blocks]

\* The blocks the others make in an epoch; each of them builds on all of the
\* epoch before.
TheirBlocks(e) == {<<e, o>> : o \in Others}

Genesis == [height |-> 0, blocks |-> TheirBlocks(0)]

NoBlock == <<0, "nobody">>

NoTipset == [height |-> 0, blocks |-> {}]

NoRow == [epoch |-> 0, base |-> NoTipset, wins |-> FALSE, noWin |-> FALSE, mined |-> NoBlock]

Idle == [task |-> 0, at |-> "idle", parents |-> {}]

WinTypeOK ==
    /\ now \in Epochs
    /\ workBase \in [Miners -> [ts : Tipsets, addRounds : Epochs]]
    /\ mining \in [WinTasks -> [epoch : Epochs, base : Tipsets, wins : BOOLEAN,
                                noWin : BOOLEAN, mined : Blocks \cup {NoBlock}]]
    /\ winOwner \in [WinTasks -> Miners \cup {"unused", "queued", "gone"}]
    /\ doing \in [Miners -> [task : WinTasks \cup {0}, parents : SUBSET Blocks,
                             at : {"idle", "elect", "prove", "persist", "wait", "submit", "record"}]]
    /\ submitted \subseteq [block : Blocks, parents : SUBSET Blocks]
    /\ mineFaults \in 0..MaxMineFaults

WinInit ==
    /\ now = 1
    /\ workBase = [n \in Miners |-> [ts |-> Genesis, addRounds |-> 0]]
    /\ mining = [t \in WinTasks |-> NoRow]
    /\ winOwner = [t \in WinTasks |-> "unused"]
    /\ doing = [n \in Miners |-> Idle]
    /\ submitted = {}
    /\ mineFaults = 0

-----------------------------------------------------------------------------
(* The chain (external).                                                   *)

Tick ==
    /\ now < MaxEpoch
    /\ now' = now + 1
    /\ UNCHANGED <<workBase, mining, winOwner, doing, submitted, mineFaults>>

\* What ChainHead may give: blocks of an epoch that has begun, as far as they
\* have arrived and have not been thrown out as an equivocation.
ChainHeads ==
    {Genesis} \cup
    UNION {{[height |-> h, blocks |-> b] :
               b \in (SUBSET (TheirBlocks(h) \cup {s.block : s \in {x \in submitted : x.block[1] = h}})) \ {{}}}
           : h \in 1..now}

Heavier(a, b) ==
    \/ a.height > b.height
    \/ a.height = b.height /\ Cardinality(a.blocks) > Cardinality(b.blocks)

-----------------------------------------------------------------------------
(* mineBasic.                                                              *)

Epoch(base) == base.ts.height + base.addRounds + 1

\* The base of the next round: a heavier head, or the old base after one more
\* null round.
NextBase(base, head) ==
    IF head # base.ts /\ Heavier(head, base.ts) THEN [ts |-> head, addRounds |-> 0]
    ELSE [base EXCEPT !.addRounds = @ + 1]

\* Mutant: the unique index (sp_id, block_cid) is missing.
AdmitsBaseTwice(base) ==
    /\ \A t \in WinTasks : mining[t].epoch = base.ts.height /\ mining[t].mined # NoBlock => mining[t].mined \in base.ts.blocks
    /\ \A t \in WinTasks : mining[t].epoch # Epoch(base)

\* The transaction of taskFn commits: our block of the base's epoch is in the
\* base, and neither unique index is violated.
Admits(base) ==
    /\ \A t \in WinTasks : mining[t].epoch = base.ts.height /\ mining[t].mined # NoBlock => mining[t].mined \in base.ts.blocks
    /\ \A t \in WinTasks : mining[t].epoch # Epoch(base)
    /\ \A t \in WinTasks : ~mining[t].noWin => mining[t].base.blocks \cap base.ts.blocks = {}

FreshTask == CHOOSE t \in WinTasks : winOwner[t] = "unused" /\ \A u \in WinTasks : u < t => winOwner[u] # "unused"

\* One turn of the loop, after the propagation delay of the round.
MineRound(n, head, wins) ==
    LET base == NextBase(workBase[n], head) IN
    /\ now >= Epoch(workBase[n])
    /\ Epoch(base) <= MaxEpoch
    /\ \E t \in WinTasks : winOwner[t] = "unused"
    /\ workBase' = [workBase EXCEPT ![n] = base]
    /\ IF Admits(base)
       THEN /\ mining' = [mining EXCEPT ![FreshTask] = [epoch |-> Epoch(base), base |-> base.ts, noWin |-> FALSE,
                                                        wins |-> wins, mined |-> NoBlock]]
            /\ winOwner' = [winOwner EXCEPT ![FreshTask] = "queued"]
       ELSE /\ ~wins
            /\ UNCHANGED <<mining, winOwner>>
    /\ UNCHANGED <<now, doing, submitted, mineFaults>>

-----------------------------------------------------------------------------
(* Do.                                                                     *)

\* Do returns; the engine deletes the task, whoever owns it, also after a
\* failure (MaxFailures is 1).
End(n) ==
    /\ doing' = [doing EXCEPT ![n] = Idle]
    /\ winOwner' = [winOwner EXCEPT ![doing[n].task] = "gone"]

\* The node takes the task and reads its row; a task that has won is done.
Claim(n, t) ==
    /\ doing[n] = Idle
    /\ winOwner[t] = "queued"
    /\ IF mining[t].mined # NoBlock
       THEN /\ winOwner' = [winOwner EXCEPT ![t] = "gone"]
            /\ UNCHANGED doing
       ELSE /\ winOwner' = [winOwner EXCEPT ![t] = n]
            /\ doing' = [doing EXCEPT ![n] = [task |-> t, at |-> "elect", parents |-> mining[t].base.blocks]]
    /\ UNCHANGED <<now, workBase, mining, submitted, mineFaults>>

\* The winner check.
Elect(n) ==
    /\ doing[n].at = "elect"
    /\ IF mining[doing[n].task].wins
       THEN /\ doing' = [doing EXCEPT ![n].at = "prove"]
            /\ UNCHANGED <<mining, winOwner>>
       ELSE /\ mining' = [mining EXCEPT ![doing[n].task].noWin = TRUE]  \* persistNoWin
            /\ End(n)
    /\ UNCHANGED <<now, workBase, submitted, mineFaults>>

\* Proof, ticket and messages; then, after the equivocation delay, the base is
\* cut down to the blocks that a heavier head of its height still has.
Prove(n, head) ==
    LET base == mining[doing[n].task].base
        kept == base.blocks \cap head.blocks
    IN
    /\ doing[n].at = "prove"
    /\ doing' = [doing EXCEPT ![n] =
           [doing[n] EXCEPT !.at = "persist",
                            !.parents = IF Heavier(head, base) /\ head.height = base.height /\ kept # {}
                                          THEN kept ELSE doing[n].parents]]
    /\ UNCHANGED <<now, workBase, mining, winOwner, submitted, mineFaults>>

\* The UPDATE ... WHERE won = false.
Persist(n) ==
    LET t == doing[n].task IN
    /\ doing[n].at = "persist"
    /\ IF mining[t].mined = NoBlock
       THEN /\ mining' = [mining EXCEPT ![t].mined = <<mining[t].epoch, n>>]
            /\ doing' = [doing EXCEPT ![n].at = "wait"]
            /\ UNCHANGED winOwner
       ELSE /\ End(n)
            /\ UNCHANGED mining
    /\ UNCHANGED <<now, workBase, submitted, mineFaults>>

\* At the block's timestamp the node makes sure that it still has the task.
StillOwned(n) ==
    LET t == doing[n].task IN
    /\ doing[n].at = "wait"
    /\ now >= mining[t].epoch
    /\ IF winOwner[t] = n
       THEN /\ doing' = [doing EXCEPT ![n].at = "submit"]
            /\ UNCHANGED winOwner
       ELSE End(n)
    /\ UNCHANGED <<now, workBase, mining, submitted, mineFaults>>

\* SyncSubmitBlock.
SubmitBlock(n) ==
    /\ doing[n].at = "submit"
    /\ submitted' = submitted \cup {[block |-> mining[doing[n].task].mined, parents |-> doing[n].parents]}
    /\ doing' = [doing EXCEPT ![n].at = "record"]
    /\ UNCHANGED <<now, workBase, mining, winOwner, mineFaults>>

\* submitted_at.
RecordBlock(n) ==
    /\ doing[n].at = "record"
    /\ End(n)
    /\ UNCHANGED <<now, workBase, mining, submitted, mineFaults>>

\* A call fails and Do returns the error.
DoFails(n) ==
    /\ doing[n].at \in {"elect", "prove", "persist", "submit", "record"}
    /\ mineFaults < MaxMineFaults
    /\ mineFaults' = mineFaults + 1
    /\ End(n)
    /\ UNCHANGED <<now, workBase, mining, submitted>>

\* The node is taken for dead: its task is anyone's, while its Do goes on.
LoseTask(t) ==
    /\ winOwner[t] \in Miners
    /\ mineFaults < MaxMineFaults
    /\ mineFaults' = mineFaults + 1
    /\ winOwner' = [winOwner EXCEPT ![t] = "queued"]
    /\ UNCHANGED <<now, workBase, mining, doing, submitted>>

\* The node restarts; its task is offered again.
CrashMiner(n, head) ==
    /\ mineFaults < MaxMineFaults
    /\ mineFaults' = mineFaults + 1
    /\ doing' = [doing EXCEPT ![n] = Idle]
    /\ workBase' = [workBase EXCEPT ![n] = [ts |-> head, addRounds |-> 0]]
    /\ winOwner' = [t \in WinTasks |-> IF winOwner[t] = n THEN "queued" ELSE winOwner[t]]
    /\ UNCHANGED <<now, mining, submitted>>

WinNext ==
    \/ Tick
    \/ \E n \in Miners :
          \/ \E head \in ChainHeads, wins \in BOOLEAN : MineRound(n, head, wins)
          \/ \E t \in WinTasks : Claim(n, t)
          \/ Elect(n)
          \/ \E head \in ChainHeads : Prove(n, head)
          \/ Persist(n)
          \/ StillOwned(n)
          \/ SubmitBlock(n)
          \/ RecordBlock(n)
          \/ DoFails(n)
          \/ \E head \in ChainHeads : CrashMiner(n, head)
    \/ \E t \in WinTasks : LoseTask(t)

WinSpec == WinInit /\ [][WinNext]_winVars

-----------------------------------------------------------------------------
(* Properties: two of the three consensus faults.                          *)

\* Whichever nodes run the task of a round, however often and on whatever head:
\* two blocks of one epoch (double-fork mining) are never both submitted, nor two
\* blocks of different epochs on the same parents (time-offset mining).
NoConsensusFault ==
    \A a, b \in submitted : a.block[1] = b.block[1] \/ a.parents = b.parents => a = b
=============================================================================

--------------------------- MODULE MessageWatcher ---------------------------
(***************************************************************************)
(* The message watchers (tasks/message/watch.go, watch_eth.go) and the     *)
(* chain scheduler that drives them (lib/chainsched/chain_sched.go).       *)
(*                                                                         *)
(* A row of message_waits (message_waits_eth) asks for the receipt of a    *)
(* message.  On every new head each node takes the rows nobody waits for,  *)
(* and writes the receipts that are deep enough in the chain.              *)
(*                                                                         *)
(* The chain is kept relative to its head: depth[m] is 0 when m is not     *)
(* executed on the chain, 1 when it is executed in the head, and stops at  *)
(* MaxDepth; executions[m] numbers the tipsets that have executed m, so    *)
(* that two forks give m different receipts.  A behaviour watches one      *)
(* table, its.kind.                                                        *)
(***************************************************************************)
EXTENDS Naturals, Sequences, FiniteSets

CONSTANTS
    Watchers,         \* nodes
    Msgs,             \* messages of one sender: its nonces 0 .. n
    Cases,            \* the table ("fil", "eth"), nodes and messages of a behaviour
    MinConfidence,    \* of the Filecoin watcher
    MinEthConfidence, \* of the Ethereum watcher
    MaxReorgs,        \* bound: reorganisations
    MaxQueue,         \* bound: head changes a node is behind
    MaxWatchFaults    \* bound: stops, lost subscriptions, failed calls

ASSUME WatchAssumption ==
    /\ Msgs \subseteq Nat
    /\ {MinConfidence, MinEthConfidence, MaxReorgs, MaxQueue, MaxWatchFaults} \subseteq Nat
    /\ MaxQueue > 0
    /\ Cases \subseteq [kind : {"fil", "eth"}, nodes : SUBSET Watchers, msgs : SUBSET Msgs]

VARIABLES
    its,         \* the case
    depth,       \* the chain
    executions,
    reorgs,
    row,         \* the wait of a message: not there, open, done or collected
    waiter,      \* waiter_machine_id
    rcpt,        \* executed_*: the number of the execution, 0 for NULL
    hasRow,      \* the node has its row in harmony_machines
    up,          \* the node runs
    sub,         \* it has a ChainNotify channel
    queue,       \* the heads in the channel
    wake,        \* updateCh is full: the head to go on with
    step,        \* the update goroutine
    looking,     \* the head update works with
    todo,        \* the rows update has selected
    watchFaults

chainVars == <<its, depth, executions, reorgs>>
waitVars  == <<row, waiter, rcpt>>
schedVars == <<sub, queue, wake>>
updVars   == <<step, looking, todo>>
watchVars == <<chainVars, waitVars, hasRow, up, schedVars, updVars, watchFaults>>

Nobody == "nobody"

Confidence == IF its.kind = "fil" THEN MinConfidence ELSE MinEthConfidence

MaxDepth == Confidence + 1

\* A head is what update makes of it: the execution of each message at the
\* tipset Confidence below it or before, 0 when there is none.
Heads == [Msgs -> Nat]

NoHead == [m \in Msgs |-> 0]

WatchTypeOK ==
    /\ its \in Cases
    /\ depth \in [Msgs -> 0..MaxDepth]
    /\ executions \in [Msgs -> Nat]
    /\ reorgs \in 0..MaxReorgs
    /\ row \in [Msgs -> {"none", "open", "done", "collected"}]
    /\ waiter \in [Msgs -> Watchers \cup {Nobody}]
    /\ rcpt \in [Msgs -> Nat]
    /\ hasRow \in [Watchers -> BOOLEAN]
    /\ up \in [Watchers -> BOOLEAN]
    /\ sub \in [Watchers -> BOOLEAN]
    /\ queue \in [Watchers -> Seq(Heads)]
    /\ wake \in [Watchers -> Seq(Heads)]
    /\ step \in [Watchers -> {"wait", "assign", "select", "check"}]
    /\ looking \in [Watchers -> Heads]
    /\ todo \in [Watchers -> SUBSET Msgs]
    /\ watchFaults \in 0..MaxWatchFaults

WatchInit ==
    /\ its \in Cases
    /\ depth = [m \in Msgs |-> 0]
    /\ executions = [m \in Msgs |-> 0]
    /\ reorgs = 0
    /\ row = [m \in Msgs |-> "none"]
    /\ waiter = [m \in Msgs |-> Nobody]
    /\ rcpt = [m \in Msgs |-> 0]
    /\ hasRow = [n \in Watchers |-> n \in its.nodes]
    /\ up = [n \in Watchers |-> n \in its.nodes]
    /\ sub = [n \in Watchers |-> FALSE]
    /\ queue = [n \in Watchers |-> <<>>]
    /\ wake = [n \in Watchers |-> <<>>]
    /\ step = [n \in Watchers |-> "wait"]
    /\ looking = [n \in Watchers |-> NoHead]
    /\ todo = [n \in Watchers |-> {}]
    /\ watchFaults = 0

-----------------------------------------------------------------------------
(* The chain (external).                                                   *)

\* Mutant: the lookback tipset is one too young.
YoungLookback(d, e) == [m \in Msgs |-> IF d[m] >= Confidence THEN e[m] ELSE 0]

\* ChainGetTipSetByHeight(head - MinConfidence, head) and what StateSearchMsg
\* finds executed there or before; for Ethereum, the transactions whose block is
\* MinEthConfidence below the head.
LookbackTipset(d, e) == [m \in Msgs |-> IF d[m] > Confidence THEN e[m] ELSE 0]

\* The depths after k tipsets are taken back and k + 1 are applied.
Extends(d, k) ==
    \A m \in Msgs :
        /\ depth[m] > k => d[m] = IF depth[m] < MaxDepth THEN depth[m] + 1 ELSE MaxDepth
        /\ depth[m] <= k => d[m] <= k + 1 /\ (depth[m] = 0 => d[m] <= 1)
        /\ m \notin its.msgs => d[m] = 0
        /\ \A l \in its.msgs : l < m => d[m] <= d[l]

\* A new head, notified to every node that has a subscription.
NewHead(k, d) ==
    /\ k > 0 => reorgs < MaxReorgs /\ \E m \in Msgs : depth[m] \in 1..k
    /\ \A n \in Watchers : Len(queue[n]) < MaxQueue
    /\ Extends(d, k)
    /\ reorgs' = IF k > 0 THEN reorgs + 1 ELSE reorgs
    /\ depth' = d
    /\ executions' = [m \in Msgs |-> IF depth[m] <= k /\ d[m] > 0 THEN executions[m] + 1
                                     ELSE executions[m]]
    /\ queue' = [n \in Watchers |-> IF sub[n] THEN Append(queue[n], LookbackTipset(d, executions'))
                                    ELSE queue[n]]
    /\ UNCHANGED <<its, waitVars, hasRow, up, sub, wake, updVars, watchFaults>>

\* A sender asks for the receipt of a message it has sent.
AddWait(m) ==
    /\ m \in its.msgs
    /\ row[m] = "none"
    /\ row' = [row EXCEPT ![m] = "open"]
    /\ UNCHANGED <<chainVars, waiter, rcpt, hasRow, up, schedVars, updVars, watchFaults>>

-----------------------------------------------------------------------------
(* The chain scheduler.                                                    *)

\* Run, no channel: ChainNotify, whose first notification is the current head.
Subscribe(n) ==
    /\ up[n]
    /\ ~sub[n]
    /\ sub' = [sub EXCEPT ![n] = TRUE]
    /\ queue' = [queue EXCEPT ![n] = <<LookbackTipset(depth, executions)>>]
    /\ UNCHANGED <<chainVars, waitVars, hasRow, up, wake, updVars, watchFaults>>

\* The channel is closed, a first notification is not the current head, or none
\* has come for notificationTimeout.
LoseSubscription(n) ==
    /\ sub[n]
    /\ watchFaults < MaxWatchFaults
    /\ watchFaults' = watchFaults + 1
    /\ sub' = [sub EXCEPT ![n] = FALSE]
    /\ queue' = [queue EXCEPT ![n] = <<>>]
    /\ UNCHANGED <<chainVars, waitVars, hasRow, up, wake, updVars>>

\* processHeadChange: keep the head and wake update.  The channel of the
\* Ethereum watcher has room for one wake-up while update works; that of the
\* Filecoin watcher has none: the wake-up is dropped, and the stored head is
\* replaced by the next before anyone reads it.
ProcessHeadChange(n, h) ==
    IF step[n] = "wait"
    THEN /\ step' = [step EXCEPT ![n] = "assign"]
         /\ looking' = [looking EXCEPT ![n] = h]
         /\ UNCHANGED wake
    ELSE /\ wake' = IF its.kind = "eth" THEN [wake EXCEPT ![n] = <<h>>] ELSE wake
         /\ UNCHANGED <<step, looking>>

\* Run receives the next notification and update calls the watcher.
Notify(n) ==
    /\ queue[n] # <<>>
    /\ queue' = [queue EXCEPT ![n] = Tail(@)]
    /\ ProcessHeadChange(n, Head(queue[n]))
    /\ UNCHANGED <<chainVars, waitVars, hasRow, up, sub, todo, watchFaults>>

-----------------------------------------------------------------------------
(* update.                                                                 *)

\* update returns; run goes on with the wake-up that is waiting.
Return(n) ==
    /\ todo' = [todo EXCEPT ![n] = {}]
    /\ step' = [step EXCEPT ![n] = IF wake[n] = <<>> THEN "wait" ELSE "assign"]
    /\ looking' = [looking EXCEPT ![n] = IF wake[n] = <<>> THEN NoHead ELSE Head(wake[n])]
    /\ wake' = [wake EXCEPT ![n] = <<>>]

\* A call to the chain or to the database fails; a node whose machine row is
\* gone violates the foreign key of waiter_machine_id.
UpdateFails(n) ==
    /\ step[n] # "wait"
    /\ \/ ~hasRow[n] /\ step[n] = "assign" /\ UNCHANGED watchFaults
       \/ watchFaults < MaxWatchFaults /\ watchFaults' = watchFaults + 1
    /\ Return(n)
    /\ UNCHANGED <<chainVars, waitVars, hasRow, up, sub, queue>>

AssignWaits(n) ==
    /\ step[n] = "assign"
    /\ hasRow[n]
    /\ waiter' = [m \in Msgs |-> IF row[m] = "open" /\ waiter[m] = Nobody THEN n ELSE waiter[m]]
    /\ step' = [step EXCEPT ![n] = "select"]
    /\ UNCHANGED <<chainVars, row, rcpt, hasRow, up, schedVars, looking, todo, watchFaults>>

SelectWaits(n) ==
    /\ step[n] = "select"
    /\ step' = [step EXCEPT ![n] = "check"]
    /\ todo' = [todo EXCEPT ![n] = {m \in Msgs : waiter[m] = n}]
    /\ UNCHANGED <<chainVars, waitVars, hasRow, up, schedVars, looking, watchFaults>>

\* The Filecoin watcher searches the state of its lookback tipset, and only when
\* the nonce there allows it; the Ethereum watcher gets the receipt the chain has
\* now, and compares its height with the head it remembers.
Executed(n, m) ==
    LET nonce == Cardinality({l \in Msgs : looking[n][l] > 0})
    IN  IF its.kind = "fil" THEN (IF m > nonce THEN 0 ELSE looking[n][m])
        ELSE IF looking[n][m] > 0 /\ depth[m] > 0 THEN executions[m] ELSE 0

\* One selected row: skipped, or its receipt is written, whoever waits for it now.
CheckWait(n, m) ==
    /\ step[n] = "check"
    /\ m \in todo[n]
    /\ todo' = [todo EXCEPT ![n] = @ \ {m}]
    /\ IF Executed(n, m) > 0 /\ row[m] \in {"open", "done"}
       THEN /\ row' = [row EXCEPT ![m] = "done"]
            /\ waiter' = [waiter EXCEPT ![m] = Nobody]
            /\ rcpt' = [rcpt EXCEPT ![m] = Executed(n, m)]
       ELSE UNCHANGED waitVars
    /\ UNCHANGED <<chainVars, hasRow, up, schedVars, step, looking, watchFaults>>

FinishUpdate(n) ==
    /\ step[n] = "check"
    /\ todo[n] = {}
    /\ Return(n)
    /\ UNCHANGED <<chainVars, waitVars, hasRow, up, sub, queue, watchFaults>>

\* EthMessageWaitsGCTask: confirmed rows older than the retention are deleted.
CollectWaits ==
    /\ its.kind = "eth"
    /\ \E m \in Msgs : row[m] = "done" /\ depth[m] = MaxDepth
    /\ row' = [m \in Msgs |-> IF row[m] = "done" /\ depth[m] = MaxDepth THEN "collected" ELSE row[m]]
    /\ UNCHANGED <<chainVars, waiter, rcpt, hasRow, up, schedVars, updVars, watchFaults>>

-----------------------------------------------------------------------------
(* Machines.                                                               *)

\* The node stops or dies: its assignments stay ("todo cleanup assignments").
StopWatcher(n) ==
    /\ up[n]
    /\ watchFaults < MaxWatchFaults
    /\ watchFaults' = watchFaults + 1
    /\ up' = [up EXCEPT ![n] = FALSE]
    /\ sub' = [sub EXCEPT ![n] = FALSE]
    /\ queue' = [queue EXCEPT ![n] = <<>>]
    /\ wake' = [wake EXCEPT ![n] = <<>>]
    /\ step' = [step EXCEPT ![n] = "wait"]
    /\ looking' = [looking EXCEPT ![n] = NoHead]
    /\ todo' = [todo EXCEPT ![n] = {}]
    /\ UNCHANGED <<chainVars, waitVars, hasRow>>

\* The node comes back and registers, with its old machine id or a new one.
StartWatcher(n) ==
    /\ n \in its.nodes
    /\ ~up[n]
    /\ up' = [up EXCEPT ![n] = TRUE]
    /\ hasRow' = [hasRow EXCEPT ![n] = TRUE]
    /\ UNCHANGED <<chainVars, waitVars, schedVars, updVars, watchFaults>>

\* Mutant: the waits of a deleted machine keep their waiter.
KeepAssignments(n) == waiter' = waiter

\* waiter_machine_id references harmony_machines ON DELETE SET NULL.
ReleaseAssignments(n) ==
    waiter' = [m \in Msgs |-> IF waiter[m] = n THEN Nobody ELSE waiter[m]]

\* CleanupMachines deletes a machine that has not been heard of: one that is
\* gone, or one that was slow.
CleanupMachine(n) ==
    /\ hasRow[n]
    /\ \/ ~up[n] /\ UNCHANGED watchFaults
       \/ up[n] /\ watchFaults < MaxWatchFaults /\ watchFaults' = watchFaults + 1
    /\ hasRow' = [hasRow EXCEPT ![n] = FALSE]
    /\ ReleaseAssignments(n)
    /\ UNCHANGED <<chainVars, row, rcpt, up, schedVars, updVars>>

Depths == [Msgs -> 0..MaxDepth]

WatchNext ==
    \/ \E k \in 0..Confidence, d \in Depths : NewHead(k, d)
    \/ \E m \in Msgs : AddWait(m)
    \/ \E n \in Watchers :
          \/ Subscribe(n)
          \/ LoseSubscription(n)
          \/ Notify(n)
          \/ UpdateFails(n)
          \/ AssignWaits(n)
          \/ SelectWaits(n)
          \/ \E m \in Msgs : CheckWait(n, m)
          \/ FinishUpdate(n)
          \/ StopWatcher(n)
          \/ StartWatcher(n)
          \/ CleanupMachine(n)
    \/ CollectWaits

WatchSpec == WatchInit /\ [][WatchNext]_watchVars

-----------------------------------------------------------------------------
(* Properties.                                                             *)

\* A receipt stands: it is the one of the execution on the chain, also after
\* reorganisations as deep as the confidence, and whatever head the update that
\* wrote it had loaded.
ReceiptStands ==
    \A m \in Msgs : row[m] = "done" => depth[m] > 0 /\ rcpt[m] = executions[m]

\* Every wait is answered as long as some node works, though wake-ups are
\* dropped, subscriptions are lost and the node that had taken the row may be
\* gone for ever.
EveryWaitResolves ==
    \A m \in Msgs : []<>(row[m] # "open" \/ \A n \in Watchers : ~(up[n] /\ hasRow[n]))
=============================================================================

----------------------------- MODULE ChainProofs -----------------------------
(***************************************************************************)
(* Proofs about the components that follow the chain, for every number of  *)
(* nodes and messages, every confidence and every bound: the receipts of   *)
(* MessageWatcher stand, and the blocks of WinningPoSt are never a         *)
(* consensus fault.                                                        *)
(***************************************************************************)
EXTENDS MessageWatcher, WinningPoSt, WellFoundedInduction, TLAPS

-----------------------------------------------------------------------------
(* The message watchers.                                                   *)

\* What a head says of a message that is deep enough is true, and stays so: a
\* reorganisation takes back Confidence tipsets at most.
Deep(m)   == depth[m] = MaxDepth
HeadOK(h) == \A m \in Msgs : h[m] > 0 => Deep(m) /\ h[m] = executions[m]

QueueOK(n)   == \A i \in 1..Len(queue[n]) : HeadOK(queue[n][i])
WakeOK(n)    == \A i \in 1..Len(wake[n]) : HeadOK(wake[n][i])
ReceiptOK(m) == row[m] = "done" => Deep(m) /\ rcpt[m] = executions[m]

WatchInv ==
    /\ WatchTypeOK
    /\ \A n \in Watchers : QueueOK(n) /\ WakeOK(n) /\ HeadOK(looking[n])
    /\ \A m \in Msgs : ReceiptOK(m)

LEMMA ConfidenceIsNat == ASSUME its \in Cases PROVE Confidence \in Nat /\ MaxDepth \in Nat /\ MaxDepth > Confidence
  BY WatchAssumption DEF WatchAssumption, Confidence, MaxDepth

LEMMA InitWatchInv == WatchInit => WatchInv
<1> SUFFICES ASSUME WatchInit PROVE WatchInv
  OBVIOUS
<1> USE DEF WatchInit
<1>1. Confidence \in Nat /\ MaxDepth \in Nat
  BY ConfidenceIsNat
<1>2. NoHead \in Heads /\ \A m \in Msgs : NoHead[m] = 0
  BY DEF NoHead, Heads
<1>3. WatchTypeOK
  BY <1>1, <1>2, WatchAssumption DEF WatchTypeOK, WatchAssumption
<1>4. \A n \in Watchers : QueueOK(n) /\ WakeOK(n) /\ HeadOK(looking[n])
  BY <1>2 DEF QueueOK, WakeOK, HeadOK
<1> QED
  BY <1>3, <1>4 DEF WatchInv, ReceiptOK

\* A step that leaves the chain alone keeps what a head says.
LEMMA SameChain ==
    ASSUME its' = its, depth' = depth, executions' = executions
    PROVE  /\ Confidence' = Confidence /\ MaxDepth' = MaxDepth
           /\ \A h : HeadOK(h) => HeadOK(h)'
           /\ \A m \in Msgs : Deep(m)' <=> Deep(m)
<1>1. Confidence' = Confidence /\ MaxDepth' = MaxDepth
  BY DEF Confidence, MaxDepth
<1> QED
  BY <1>1 DEF HeadOK, Deep

LEMMA SameQueues ==
    ASSUME its' = its, depth' = depth, executions' = executions, NEW n
    PROVE  /\ (QueueOK(n) /\ queue'[n] = queue[n]) => QueueOK(n)'
           /\ (WakeOK(n) /\ wake'[n] = wake[n]) => WakeOK(n)'
           /\ (HeadOK(looking[n]) /\ looking'[n] = looking[n]) => HeadOK(looking[n])'
           /\ queue'[n] = <<>> => QueueOK(n)'
           /\ wake'[n] = <<>> => WakeOK(n)'
           /\ looking'[n] = NoHead => HeadOK(looking[n])'
  BY SameChain DEF QueueOK, WakeOK, HeadOK, NoHead

LEMMA SameReceipts ==
    ASSUME its' = its, depth' = depth, executions' = executions, NEW m \in Msgs,
           rcpt'[m] = rcpt[m], row'[m] = "done" => row[m] = "done", ReceiptOK(m)
    PROVE  ReceiptOK(m)'
  BY SameChain DEF ReceiptOK

\* The head that update goes on with is the one it was woken with.
LEMMA ReturnKeeps ==
    ASSUME WatchInv, NEW n \in Watchers, Return(n), its' = its, depth' = depth, executions' = executions
    PROVE  /\ step' \in [Watchers -> {"wait", "assign", "select", "check"}]
           /\ looking' \in [Watchers -> Heads] /\ wake' \in [Watchers -> Seq(Heads)]
           /\ todo' \in [Watchers -> SUBSET Msgs]
           /\ \A k \in Watchers : WakeOK(k)' /\ HeadOK(looking[k])'
<1> USE DEF Return
<1>1. NoHead \in Heads
  BY DEF NoHead, Heads
<1>2. wake[n] # <<>> => (Head(wake[n]) \in Heads /\ HeadOK(Head(wake[n])))
  BY DEF WatchInv, WatchTypeOK, WakeOK
<1>3. /\ step' \in [Watchers -> {"wait", "assign", "select", "check"}]
      /\ looking' \in [Watchers -> Heads] /\ wake' \in [Watchers -> Seq(Heads)]
      /\ todo' \in [Watchers -> SUBSET Msgs]
  BY <1>1, <1>2 DEF WatchInv, WatchTypeOK
<1>4. \A k \in Watchers : WakeOK(k)'
  BY SameQueues DEF WatchInv, WatchTypeOK
<1>5. HeadOK(looking[n])'
  <2>1. CASE wake[n] = <<>>
    BY <2>1, SameQueues DEF WatchInv, WatchTypeOK
  <2>2. CASE wake[n] # <<>>
    <3>1. looking'[n] = Head(wake[n])
      BY <2>2 DEF WatchInv, WatchTypeOK
    <3> QED
      BY <1>2, <2>2, <3>1, SameChain DEF HeadOK
  <2> QED
    BY <2>1, <2>2
<1>6. \A k \in Watchers \ {n} : HeadOK(looking[k])'
  BY SameQueues DEF WatchInv, WatchTypeOK
<1> QED
  BY <1>3, <1>4, <1>5, <1>6

\* What the watchers look up is true of every message that is deep enough.
LEMMA LookbackOK ==
    ASSUME its \in Cases, NEW d \in Depths, NEW e \in [Msgs -> Nat]
    PROVE  /\ LookbackTipset(d, e) \in Heads
           /\ \A m \in Msgs : LookbackTipset(d, e)[m] > 0 => d[m] = MaxDepth /\ LookbackTipset(d, e)[m] = e[m]
<1>1. Confidence \in Nat /\ MaxDepth = Confidence + 1
  BY ConfidenceIsNat DEF MaxDepth
<1> QED
  BY <1>1 DEF LookbackTipset, Heads, Depths

LEMMA NewHeadKeeps ==
    ASSUME WatchInv, NEW k \in 0..Confidence, NEW d \in Depths, NewHead(k, d)
    PROVE  WatchInv'
<1> USE DEF NewHead
<1>1. Confidence \in Nat /\ MaxDepth = Confidence + 1 /\ its \in Cases
  BY ConfidenceIsNat DEF MaxDepth, WatchInv, WatchTypeOK
<1>2. its' = its /\ Confidence' = Confidence /\ MaxDepth' = MaxDepth
  BY DEF Confidence, MaxDepth
<1>3. /\ depth' = d /\ depth' \in [Msgs -> 0..MaxDepth] /\ executions' \in [Msgs -> Nat]
      /\ depth \in [Msgs -> 0..MaxDepth] /\ executions \in [Msgs -> Nat]
  BY <1>2 DEF Depths, WatchInv, WatchTypeOK
<1>4. \A m \in Msgs : Deep(m) => (Deep(m)' /\ executions'[m] = executions[m])
  BY <1>1, <1>2, <1>3 DEF Deep, Extends
<1>5. \A h \in Heads : HeadOK(h) => HeadOK(h)'
  BY <1>4 DEF HeadOK
<1>0. PICK e \in [Msgs -> Nat] : e = executions'
  BY <1>3
<1>6. PICK head \in Heads : /\ head = LookbackTipset(d, e)
                            /\ \A m \in Msgs : head[m] > 0 => d[m] = MaxDepth /\ head[m] = e[m]
  BY <1>1, LookbackOK
<1>h. HeadOK(head)'
  BY <1>0, <1>2, <1>3, <1>6 DEF HeadOK, Deep
<1>7. queue' = [n \in Watchers |-> IF sub[n] THEN Append(queue[n], head) ELSE queue[n]]
  BY <1>0, <1>6
<1>8. queue \in [Watchers -> Seq(Heads)] /\ queue' \in [Watchers -> Seq(Heads)]
  <2>1. queue \in [Watchers -> Seq(Heads)]
    BY DEF WatchInv, WatchTypeOK
  <2>2. \A q \in Seq(Heads) : Append(q, head) \in Seq(Heads)
    OBVIOUS
  <2> QED
    BY <1>7, <2>1, <2>2
<1>9. \A n \in Watchers : QueueOK(n)'
  <2> SUFFICES ASSUME NEW n \in Watchers, NEW i \in 1..Len(queue'[n]) PROVE HeadOK(queue[n][i])'
    BY DEF QueueOK
  <2>1. queue'[n][i] = head \/ (i \in 1..Len(queue[n]) /\ queue'[n][i] = queue[n][i] /\ queue[n][i] \in Heads)
    BY <1>6, <1>7, <1>8
  <2>2. PICK h \in Heads : h = queue'[n][i] /\ HeadOK(h)'
    BY <1>5, <1>6, <1>h, <2>1 DEF WatchInv, QueueOK
  <2> QED
    BY <2>2 DEF HeadOK
<1>10. \A n \in Watchers : WakeOK(n)' /\ HeadOK(looking[n])'
  BY <1>5 DEF WatchInv, WatchTypeOK, WakeOK, waitVars, updVars
<1>11. \A m \in Msgs : ReceiptOK(m)'
  BY <1>4 DEF WatchInv, ReceiptOK, waitVars
<1>12. reorgs' \in 0..MaxReorgs
  BY WatchAssumption DEF WatchInv, WatchTypeOK, WatchAssumption
<1>13. WatchTypeOK'
  BY <1>2, <1>3, <1>8, <1>12 DEF WatchInv, WatchTypeOK, waitVars, updVars
<1> QED
  BY <1>9, <1>10, <1>11, <1>13 DEF WatchInv

LEMMA SubscriptionKeeps ==
    ASSUME WatchInv, NEW n \in Watchers, Subscribe(n) \/ LoseSubscription(n)
    PROVE  WatchInv'
<1>1. /\ its' = its /\ depth' = depth /\ executions' = executions /\ reorgs' = reorgs
      /\ row' = row /\ waiter' = waiter /\ rcpt' = rcpt /\ hasRow' = hasRow /\ up' = up /\ wake' = wake
      /\ step' = step /\ looking' = looking /\ todo' = todo
  BY DEF Subscribe, LoseSubscription, chainVars, waitVars, updVars
<1>2. MaxDepth' = MaxDepth
  BY <1>1, SameChain
<1>3. sub' \in [Watchers -> BOOLEAN] /\ watchFaults' \in 0..MaxWatchFaults
  <2>1. \E b \in BOOLEAN : sub' = [sub EXCEPT ![n] = b]
    BY DEF Subscribe, LoseSubscription
  <2>2. sub' \in [Watchers -> BOOLEAN]
    BY <2>1 DEF WatchInv, WatchTypeOK
  <2>3. watchFaults' = watchFaults \/ (watchFaults < MaxWatchFaults /\ watchFaults' = watchFaults + 1)
    BY DEF Subscribe, LoseSubscription
  <2> QED
    BY <2>2, <2>3, WatchAssumption DEF WatchInv, WatchTypeOK, WatchAssumption
<1>t. its \in Cases /\ depth \in Depths /\ executions \in [Msgs -> Nat]
  BY DEF WatchInv, WatchTypeOK, Depths
<1>4. PICK h \in Heads : h = LookbackTipset(depth, executions) /\ HeadOK(h)
  BY <1>t, LookbackOK DEF HeadOK, Deep
<1>5. queue' = [queue EXCEPT ![n] = <<h>>] \/ queue' = [queue EXCEPT ![n] = <<>>]
  BY <1>4 DEF Subscribe, LoseSubscription
<1>6. queue \in [Watchers -> Seq(Heads)] /\ queue' \in [Watchers -> Seq(Heads)]
  <2>1. <<h>> \in Seq(Heads) /\ <<>> \in Seq(Heads)
    OBVIOUS
  <2> QED
    BY <1>5, <2>1 DEF WatchInv, WatchTypeOK
<1>7. \A k \in Watchers \ {n} : QueueOK(k)'
  BY <1>1, <1>5, <1>6, SameQueues DEF WatchInv
<1>8. QueueOK(n)'
  BY <1>1, <1>4, <1>5, <1>6, SameChain DEF QueueOK
<1>9. \A k \in Watchers : WakeOK(k)' /\ HeadOK(looking[k])'
  BY <1>1, SameQueues DEF WatchInv
<1>10. \A m \in Msgs : ReceiptOK(m)'
  BY <1>1, SameReceipts DEF WatchInv
<1>11. WatchTypeOK'
  BY <1>1, <1>2, <1>3, <1>6 DEF WatchInv, WatchTypeOK
<1> QED
  BY <1>7, <1>8, <1>9, <1>10, <1>11 DEF WatchInv

LEMMA NotifyKeeps ==
    ASSUME WatchInv, NEW n \in Watchers, Notify(n)
    PROVE  WatchInv'
<1> USE DEF Notify
<1>1. /\ its' = its /\ depth' = depth /\ executions' = executions /\ reorgs' = reorgs
      /\ row' = row /\ waiter' = waiter /\ rcpt' = rcpt /\ hasRow' = hasRow /\ up' = up /\ sub' = sub
      /\ todo' = todo /\ watchFaults' = watchFaults
  BY DEF chainVars, waitVars
<1>2. MaxDepth' = MaxDepth
  BY <1>1, SameChain
<1>3. queue \in [Watchers -> Seq(Heads)] /\ queue[n] # <<>> /\ queue' = [queue EXCEPT ![n] = Tail(queue[n])]
  BY DEF WatchInv, WatchTypeOK
<1>4. PICK h \in Heads : h = Head(queue[n])
  BY <1>3
<1>5. HeadOK(h)
  BY <1>3, <1>4 DEF WatchInv, QueueOK
<1>6. ProcessHeadChange(n, h)
  BY <1>4
<1>7. queue' \in [Watchers -> Seq(Heads)]
  BY <1>3
<1>8. \A k \in Watchers : QueueOK(k)'
  <2>1. \A k \in Watchers \ {n} : QueueOK(k)'
    BY <1>1, <1>3, SameQueues DEF WatchInv
  <2>2. \A i \in 1..Len(queue'[n]) : i + 1 \in 1..Len(queue[n]) /\ queue'[n][i] = queue[n][i + 1]
    BY <1>3
  <2>3. QueueOK(n)'
    BY <1>1, <2>2, SameChain DEF WatchInv, QueueOK
  <2> QED
    BY <2>1, <2>3
<1>9. /\ step' \in [Watchers -> {"wait", "assign", "select", "check"}]
      /\ looking' \in [Watchers -> Heads] /\ wake' \in [Watchers -> Seq(Heads)]
  <2>1. <<h>> \in Seq(Heads)
    OBVIOUS
  <2> QED
    BY <1>6, <2>1 DEF ProcessHeadChange, WatchInv, WatchTypeOK
<1>10. \A k \in Watchers : wake'[k] = wake[k] \/ wake'[k] = <<h>>
  BY <1>6 DEF ProcessHeadChange, WatchInv, WatchTypeOK
<1>11. \A k \in Watchers : looking'[k] = looking[k] \/ looking'[k] = h
  BY <1>6 DEF ProcessHeadChange, WatchInv, WatchTypeOK
<1>12. \A k \in Watchers : WakeOK(k)'
  BY <1>1, <1>5, <1>10, SameChain, SameQueues DEF WatchInv, WakeOK
<1>13. \A k \in Watchers : HeadOK(looking[k])'
  <2>1. HeadOK(h)'
    BY <1>1, <1>5, SameChain
  <2> QED
    BY <1>1, <1>11, <2>1, SameQueues DEF WatchInv, HeadOK
<1>14. \A m \in Msgs : ReceiptOK(m)'
  BY <1>1, SameReceipts DEF WatchInv
<1>15. WatchTypeOK'
  BY <1>1, <1>2, <1>7, <1>9 DEF WatchInv, WatchTypeOK
<1> QED
  BY <1>8, <1>12, <1>13, <1>14, <1>15 DEF WatchInv

LEMMA UpdateEnds ==
    ASSUME WatchInv, NEW n \in Watchers, UpdateFails(n) \/ FinishUpdate(n)
    PROVE  WatchInv'
<1>1. /\ its' = its /\ depth' = depth /\ executions' = executions /\ reorgs' = reorgs
      /\ row' = row /\ waiter' = waiter /\ rcpt' = rcpt /\ hasRow' = hasRow /\ up' = up /\ sub' = sub
      /\ queue' = queue /\ Return(n)
  BY DEF UpdateFails, FinishUpdate, chainVars, waitVars
<1>2. MaxDepth' = MaxDepth
  BY <1>1, SameChain
<1>3. watchFaults' \in 0..MaxWatchFaults
  BY WatchAssumption DEF UpdateFails, FinishUpdate, WatchInv, WatchTypeOK, WatchAssumption
<1>4. WatchTypeOK'
  BY <1>1, <1>2, <1>3, ReturnKeeps DEF WatchInv, WatchTypeOK
<1>5. \A k \in Watchers : QueueOK(k)' /\ WakeOK(k)' /\ HeadOK(looking[k])'
  BY <1>1, SameQueues, ReturnKeeps DEF WatchInv
<1>6. \A m \in Msgs : ReceiptOK(m)'
  BY <1>1, SameReceipts DEF WatchInv
<1> QED
  BY <1>4, <1>5, <1>6 DEF WatchInv

\* The steps that leave the chain, the heads and the receipts alone.
LEMMA QuietWatch ==
    ASSUME WatchInv, its' = its, depth' = depth, executions' = executions, reorgs' = reorgs,
           rcpt' = rcpt, \A m \in Msgs : row'[m] = "done" => row[m] = "done",
           row' \in [Msgs -> {"none", "open", "done", "collected"}],
           waiter' \in [Msgs -> Watchers \cup {Nobody}],
           hasRow' \in [Watchers -> BOOLEAN], up' \in [Watchers -> BOOLEAN], sub' \in [Watchers -> BOOLEAN],
           step' \in [Watchers -> {"wait", "assign", "select", "check"}],
           todo' \in [Watchers -> SUBSET Msgs], watchFaults' \in 0..MaxWatchFaults,
           queue' \in [Watchers -> Seq(Heads)], wake' \in [Watchers -> Seq(Heads)], looking' \in [Watchers -> Heads],
           \A n \in Watchers : /\ queue'[n] = queue[n] \/ queue'[n] = <<>>
                               /\ wake'[n] = wake[n] \/ wake'[n] = <<>>
                               /\ looking'[n] = looking[n] \/ looking'[n] = NoHead
    PROVE  WatchInv'
<1>1. MaxDepth' = MaxDepth
  BY SameChain
<1>2. WatchTypeOK'
  BY <1>1 DEF WatchInv, WatchTypeOK
<1>3. \A k \in Watchers : QueueOK(k)' /\ WakeOK(k)' /\ HeadOK(looking[k])'
  BY SameQueues DEF WatchInv
<1>4. \A m \in Msgs : ReceiptOK(m)'
  BY SameReceipts DEF WatchInv
<1> QED
  BY <1>2, <1>3, <1>4 DEF WatchInv

LEMMA CheckWaitKeeps ==
    ASSUME WatchInv, NEW n \in Watchers, NEW m \in Msgs, CheckWait(n, m)
    PROVE  WatchInv'
<1> USE DEF CheckWait
<1>1. /\ its' = its /\ depth' = depth /\ executions' = executions /\ reorgs' = reorgs
      /\ hasRow' = hasRow /\ up' = up /\ sub' = sub /\ queue' = queue /\ wake' = wake
      /\ step' = step /\ looking' = looking /\ watchFaults' = watchFaults
  BY DEF chainVars, schedVars
<1>2. MaxDepth' = MaxDepth
  BY <1>1, SameChain
<1>3. Executed(n, m) > 0 => (Deep(m) /\ Executed(n, m) = executions[m])
  BY DEF Executed, WatchInv, WatchTypeOK, HeadOK, Heads
<1>4. todo' \in [Watchers -> SUBSET Msgs]
  BY DEF WatchInv, WatchTypeOK
<1>5. CASE Executed(n, m) > 0 /\ row[m] \in {"open", "done"}
  <2>1. /\ row' = [row EXCEPT ![m] = "done"] /\ waiter' = [waiter EXCEPT ![m] = Nobody]
        /\ rcpt' = [rcpt EXCEPT ![m] = executions[m]]
    BY <1>3, <1>5
  <2>2. WatchTypeOK'
    BY <1>1, <1>2, <1>4, <2>1 DEF WatchInv, WatchTypeOK
  <2>3. \A k \in Watchers : QueueOK(k)' /\ WakeOK(k)' /\ HeadOK(looking[k])'
    BY <1>1, SameQueues DEF WatchInv
  <2>4. \A l \in Msgs \ {m} : ReceiptOK(l)'
    BY <1>1, <2>1, SameReceipts DEF WatchInv, WatchTypeOK
  <2>5. ReceiptOK(m)'
    BY <1>1, <1>3, <1>5, <2>1, SameChain DEF WatchInv, WatchTypeOK, ReceiptOK
  <2> QED
    BY <2>2, <2>3, <2>4, <2>5 DEF WatchInv
<1>6. CASE ~(Executed(n, m) > 0 /\ row[m] \in {"open", "done"})
  <2>1. row' = row /\ waiter' = waiter /\ rcpt' = rcpt
    BY <1>6 DEF waitVars
  <2> QED
    BY <1>1, <1>4, <2>1, QuietWatch DEF WatchInv, WatchTypeOK
<1> QED
  BY <1>5, <1>6

LEMMA QuietActions ==
    ASSUME WatchInv, NEW n \in Watchers, AssignWaits(n) \/ SelectWaits(n) \/ StartWatcher(n) \/ CleanupMachine(n)
    PROVE  WatchInv'
<1>1. /\ its' = its /\ depth' = depth /\ executions' = executions /\ reorgs' = reorgs /\ rcpt' = rcpt
      /\ row' = row /\ sub' = sub /\ queue' = queue /\ wake' = wake /\ looking' = looking
  BY DEF AssignWaits, SelectWaits, StartWatcher, CleanupMachine, chainVars, waitVars, schedVars, updVars
<1>2. waiter' \in [Msgs -> Watchers \cup {Nobody}]
  BY DEF AssignWaits, SelectWaits, StartWatcher, CleanupMachine, ReleaseAssignments, waitVars, WatchInv, WatchTypeOK
<1>3. hasRow' \in [Watchers -> BOOLEAN] /\ up' \in [Watchers -> BOOLEAN]
  <2>1. \E b \in BOOLEAN : hasRow' = hasRow \/ hasRow' = [hasRow EXCEPT ![n] = b]
    BY DEF AssignWaits, SelectWaits, StartWatcher, CleanupMachine
  <2>2. up' = up \/ up' = [up EXCEPT ![n] = TRUE]
    BY DEF AssignWaits, SelectWaits, StartWatcher, CleanupMachine
  <2> QED
    BY <2>1, <2>2 DEF WatchInv, WatchTypeOK
<1>4. step' \in [Watchers -> {"wait", "assign", "select", "check"}] /\ todo' \in [Watchers -> SUBSET Msgs]
  <2>1. \E q \in {"select", "check"} : step' = step \/ step' = [step EXCEPT ![n] = q]
    BY DEF AssignWaits, SelectWaits, StartWatcher, CleanupMachine, updVars
  <2>2. \E T \in SUBSET Msgs : todo' = todo \/ todo' = [todo EXCEPT ![n] = T]
    BY DEF AssignWaits, SelectWaits, StartWatcher, CleanupMachine, updVars
  <2>3. step \in [Watchers -> {"wait", "assign", "select", "check"}] /\ todo \in [Watchers -> SUBSET Msgs]
    BY DEF WatchInv, WatchTypeOK
  <2> QED
    BY <2>1, <2>2, <2>3
<1>5. watchFaults' \in 0..MaxWatchFaults
  <2>1. watchFaults' = watchFaults \/ (watchFaults < MaxWatchFaults /\ watchFaults' = watchFaults + 1)
    BY DEF AssignWaits, SelectWaits, StartWatcher, CleanupMachine
  <2> QED
    BY <2>1, WatchAssumption DEF WatchInv, WatchTypeOK, WatchAssumption
<1> QED
  BY <1>1, <1>2, <1>3, <1>4, <1>5, QuietWatch DEF WatchInv, WatchTypeOK

LEMMA StopWatcherKeeps ==
    ASSUME WatchInv, NEW n \in Watchers, StopWatcher(n)
    PROVE  WatchInv'
<1> USE DEF StopWatcher
<1>1. /\ its' = its /\ depth' = depth /\ executions' = executions /\ reorgs' = reorgs /\ rcpt' = rcpt
      /\ row' = row /\ waiter' = waiter /\ hasRow' = hasRow
  BY DEF chainVars, waitVars
<1>2. NoHead \in Heads
  BY DEF NoHead, Heads
<1>3. up' \in [Watchers -> BOOLEAN] /\ sub' \in [Watchers -> BOOLEAN]
  BY DEF WatchInv, WatchTypeOK
<1>4. /\ queue' \in [Watchers -> Seq(Heads)] /\ wake' \in [Watchers -> Seq(Heads)]
      /\ looking' \in [Watchers -> Heads] /\ todo' \in [Watchers -> SUBSET Msgs]
      /\ step' \in [Watchers -> {"wait", "assign", "select", "check"}]
  BY <1>2 DEF WatchInv, WatchTypeOK
<1>5. watchFaults' \in 0..MaxWatchFaults
  BY WatchAssumption DEF WatchInv, WatchTypeOK, WatchAssumption
<1>6. \A k \in Watchers : /\ queue'[k] = queue[k] \/ queue'[k] = <<>>
                          /\ wake'[k] = wake[k] \/ wake'[k] = <<>>
                          /\ looking'[k] = looking[k] \/ looking'[k] = NoHead
  BY DEF WatchInv, WatchTypeOK
<1> QED
  BY <1>1, <1>3, <1>4, <1>5, <1>6, QuietWatch DEF WatchInv, WatchTypeOK

LEMMA RowActions ==
    ASSUME WatchInv, CollectWaits \/ \E m \in Msgs : AddWait(m)
    PROVE  WatchInv'
<1>1. /\ its' = its /\ depth' = depth /\ executions' = executions /\ reorgs' = reorgs /\ rcpt' = rcpt
      /\ waiter' = waiter /\ hasRow' = hasRow /\ up' = up /\ sub' = sub /\ queue' = queue /\ wake' = wake
      /\ step' = step /\ looking' = looking /\ todo' = todo /\ watchFaults' = watchFaults
  BY DEF CollectWaits, AddWait, chainVars, schedVars, updVars
<1>2. /\ row' \in [Msgs -> {"none", "open", "done", "collected"}]
      /\ \A m \in Msgs : row'[m] = "done" => row[m] = "done"
  BY DEF CollectWaits, AddWait, WatchInv, WatchTypeOK
<1> QED
  BY <1>1, <1>2, QuietWatch DEF WatchInv, WatchTypeOK

LEMMA WatchInvNext == WatchInv /\ [WatchNext]_watchVars => WatchInv'
<1> SUFFICES ASSUME WatchInv, [WatchNext]_watchVars PROVE WatchInv'
  OBVIOUS
<1>1. CASE WatchNext
  BY <1>1, NewHeadKeeps, SubscriptionKeeps, NotifyKeeps, UpdateEnds, CheckWaitKeeps, QuietActions, StopWatcherKeeps,
     RowActions DEF WatchNext
<1>2. CASE UNCHANGED watchVars
  BY <1>2, QuietWatch DEF watchVars, chainVars, waitVars, schedVars, updVars, WatchInv, WatchTypeOK
<1> QED
  BY <1>1, <1>2

\* The tables and goroutines of the watchers keep their types.
THEOREM WatchersTypesHold == WatchSpec => []WatchTypeOK
<1>1. WatchInv => WatchTypeOK
  BY DEF WatchInv
<1> QED
  BY <1>1, InitWatchInv, WatchInvNext, PTL DEF WatchSpec

\* A receipt that update has written is the one on the chain, for every number
\* of nodes and messages, for both tables and with any number of
\* reorganisations: Confidence tipsets are what a reorganisation may take back.
THEOREM ReceiptsStand == WatchSpec => []ReceiptStands
<1>1. WatchInv => ReceiptStands
  BY ConfidenceIsNat DEF WatchInv, WatchTypeOK, ReceiptOK, Deep, ReceiptStands
<1> QED
  BY <1>1, InitWatchInv, WatchInvNext, PTL DEF WatchSpec

-----------------------------------------------------------------------------
(* Block production.                                                       *)

\* A row of mining_tasks.  A base has a block at least, no task that lost the
\* election has mined one, and a row is there once its task is.
RowOK(t) ==
    LET r == mining[t] IN
    /\ IF winOwner[t] = "unused" THEN r = NoRow ELSE r.epoch > 0 /\ r.base.blocks # {}
    /\ r.noWin => ~r.wins
    /\ r.mined # NoBlock => r.wins /\ r.mined[1] = r.epoch

\* The two unique indexes.
RowsDiffer ==
    \A t, u \in WinTasks : (t # u /\ winOwner[t] # "unused" /\ winOwner[u] # "unused") =>
        /\ mining[t].epoch # mining[u].epoch
        /\ (~mining[t].noWin /\ ~mining[u].noWin) => mining[t].base.blocks \cap mining[u].base.blocks = {}

\* A node in Do works on a task that is there, on some of its base.  One that
\* has persisted its block has the row, and is the first to submit.
DoOK(n) ==
    LET d == doing[n] IN
    d.at # "idle" =>
        /\ d.task \in WinTasks
        /\ winOwner[d.task] # "unused"
        /\ d.parents # {} /\ d.parents \subseteq mining[d.task].base.blocks
        /\ d.at # "elect" => mining[d.task].wins
        /\ d.at \in {"wait", "submit"} =>
              /\ mining[d.task].mined = <<mining[d.task].epoch, n>>
              /\ \A b \in submitted : b.block[1] # mining[d.task].epoch

\* A block that was submitted is the one in the row of its epoch.
SubmittedOK(b) == \E t \in WinTasks :
    /\ winOwner[t] # "unused"
    /\ mining[t].mined = b.block /\ b.block # NoBlock /\ b.block[1] = mining[t].epoch
    /\ b.parents # {} /\ b.parents \subseteq mining[t].base.blocks

OncePerEpoch == \A a, b \in submitted : a.block[1] = b.block[1] => a = b

WinInv ==
    /\ WinTypeOK
    /\ \A n \in Miners : workBase[n].ts.blocks # {}
    /\ \A t \in WinTasks : RowOK(t)
    /\ RowsDiffer
    /\ \A n \in Miners : DoOK(n)
    /\ \A b \in submitted : SubmittedOK(b)
    /\ OncePerEpoch

LEMMA WinFree == WinInv => NoConsensusFault
<1> SUFFICES ASSUME WinInv, NEW a \in submitted, NEW b \in submitted, a.block[1] # b.block[1], a.parents = b.parents
             PROVE  FALSE
  BY DEF WinInv, OncePerEpoch, NoConsensusFault
<1>1. PICK t \in WinTasks :
        /\ winOwner[t] # "unused"
        /\ mining[t].mined = a.block /\ a.block # NoBlock /\ a.block[1] = mining[t].epoch
        /\ a.parents # {} /\ a.parents \subseteq mining[t].base.blocks
  BY DEF WinInv, SubmittedOK
<1>2. PICK u \in WinTasks :
        /\ winOwner[u] # "unused"
        /\ mining[u].mined = b.block /\ b.block # NoBlock /\ b.block[1] = mining[u].epoch
        /\ b.parents # {} /\ b.parents \subseteq mining[u].base.blocks
  BY DEF WinInv, SubmittedOK
<1>3. t # u /\ ~mining[t].noWin /\ ~mining[u].noWin
  BY <1>1, <1>2 DEF WinInv, RowOK
<1>4. mining[t].base.blocks \cap mining[u].base.blocks = {}
  BY <1>1, <1>2, <1>3 DEF WinInv, RowsDiffer
<1> QED
  BY <1>1, <1>2, <1>4

MiningRow == [epoch : Epochs, base : Tipsets, wins : BOOLEAN, noWin : BOOLEAN, mined : Blocks \cup {NoBlock}]
DoState   == [task : WinTasks \cup {0}, parents : SUBSET Blocks,
              at : {"idle", "elect", "prove", "persist", "wait", "submit", "record"}]
Base      == [ts : Tipsets, addRounds : Epochs]

LEMMA WinTypes ==
    /\ Epochs \subseteq Nat /\ 0 \in Epochs /\ 1 \in Epochs /\ WinTasks \subseteq Nat
    /\ \A b \in Tipsets : b.height \in Epochs /\ b.blocks \in SUBSET Blocks
    /\ NoRow \in MiningRow /\ Idle \in DoState /\ Genesis \in Tipsets /\ Genesis.blocks # {}
<1>1. Epochs \subseteq Nat /\ 0 \in Epochs /\ 1 \in Epochs /\ WinTasks \subseteq Nat
  BY WinAssumption DEF Epochs, WinTasks, WinAssumption
<1>2. \A b \in Tipsets : b.height \in Epochs /\ b.blocks \in SUBSET Blocks
  BY DEF Tipsets
<1>3. NoTipset \in Tipsets /\ Genesis \in Tipsets
  BY <1>1 DEF NoTipset, Genesis, Tipsets, TheirBlocks, Blocks, Authors
<1>4. NoRow \in MiningRow
  BY <1>1, <1>3, Zenon DEF NoRow, MiningRow
<1>5. Idle \in DoState
  BY DEF Idle, DoState
<1>6. Genesis.blocks # {}
  BY WinAssumption DEF WinAssumption, Genesis, TheirBlocks
<1> QED
  BY <1>1, <1>2, <1>3, <1>4, <1>5, <1>6

LEMMA WinTyped ==
    ASSUME WinInv
    PROVE  /\ now \in Epochs /\ workBase \in [Miners -> Base] /\ mining \in [WinTasks -> MiningRow]
           /\ winOwner \in [WinTasks -> Miners \cup {"unused", "queued", "gone"}] /\ doing \in [Miners -> DoState]
           /\ submitted \subseteq [block : Blocks, parents : SUBSET Blocks] /\ mineFaults \in 0..MaxMineFaults
  BY DEF WinInv, WinTypeOK, MiningRow, DoState, Base

LEMMA WinTypedNext ==
    ASSUME now' \in Epochs, workBase' \in [Miners -> Base], mining' \in [WinTasks -> MiningRow],
           winOwner' \in [WinTasks -> Miners \cup {"unused", "queued", "gone"}], doing' \in [Miners -> DoState],
           submitted' \subseteq [block : Blocks, parents : SUBSET Blocks], mineFaults' \in 0..MaxMineFaults
    PROVE  WinTypeOK'
  BY DEF WinTypeOK, MiningRow, DoState, Base

\* The columns of a row, one at a time.
LEMMA MiningColumns ==
    ASSUME NEW r \in MiningRow
    PROVE  /\ r.epoch \in Epochs /\ r.base \in Tipsets /\ r.base.blocks \in SUBSET Blocks
           /\ r.wins \in BOOLEAN /\ r.noWin \in BOOLEAN /\ r.mined \in Blocks \cup {NoBlock}
<1>1. r.epoch \in Epochs /\ r.base \in Tipsets /\ r.mined \in Blocks \cup {NoBlock}
  BY DEF MiningRow
<1>2. r.wins \in BOOLEAN /\ r.noWin \in BOOLEAN
  BY Zenon DEF MiningRow
<1> QED
  BY <1>1, <1>2, WinTypes

LEMMA WithNoWin ==
    ASSUME NEW r \in MiningRow, NEW q, q = [r EXCEPT !.noWin = TRUE]
    PROVE  /\ q \in MiningRow /\ q.noWin /\ q.wins = r.wins
           /\ q.epoch = r.epoch /\ q.base = r.base /\ q.mined = r.mined
  BY DEF MiningRow

LEMMA WithMined ==
    ASSUME NEW r \in MiningRow, NEW b \in Blocks, NEW q, q = [r EXCEPT !.mined = b]
    PROVE  /\ q \in MiningRow /\ q.mined = b /\ q.wins = r.wins /\ q.noWin = r.noWin
           /\ q.epoch = r.epoch /\ q.base = r.base
  BY DEF MiningRow

LEMMA NewMiningRow ==
    ASSUME NEW e \in Epochs, NEW b \in Tipsets, NEW w \in BOOLEAN,
           NEW q, q = [epoch |-> e, base |-> b, noWin |-> FALSE, wins |-> w, mined |-> NoBlock]
    PROVE  /\ q \in MiningRow /\ ~q.noWin /\ q.epoch = e /\ q.base = b /\ q.mined = NoBlock
<1>1. q \in MiningRow
  BY Zenon DEF MiningRow
<1>2. ~q.noWin /\ q.epoch = e /\ q.base = b /\ q.mined = NoBlock
  OBVIOUS
<1> QED
  BY <1>1, <1>2

LEMMA DoFields ==
    ASSUME NEW d \in DoState, NEW a \in {"idle", "elect", "prove", "persist", "wait", "submit", "record"},
           NEW q, q = [d EXCEPT !.at = a]
    PROVE  q \in DoState /\ q.at = a /\ q.task = d.task /\ q.parents = d.parents
  BY DEF DoState

\* Every head that a node gets has a block.
LEMMA HeadsHaveBlocks ==
    ASSUME WinInv, NEW h \in ChainHeads
    PROVE  h \in Tipsets /\ h.blocks # {}
<1>1. CASE h = Genesis
  BY <1>1, WinTypes
<1>2. CASE h # Genesis
  <2>1. PICK e \in 1..now : h \in {[height |-> e, blocks |-> b] :
            b \in (SUBSET (TheirBlocks(e) \cup {s.block : s \in {x \in submitted : x.block[1] = e}})) \ {{}}}
    BY <1>2 DEF ChainHeads
  <2>2. PICK b \in (SUBSET (TheirBlocks(e) \cup {s.block : s \in {x \in submitted : x.block[1] = e}})) \ {{}} :
            h = [height |-> e, blocks |-> b]
    BY <2>1
  <2>3. e \in Epochs
    BY WinTyped, WinAssumption DEF Epochs, WinAssumption
  <2>4. TheirBlocks(e) \subseteq Blocks
    BY <2>3 DEF TheirBlocks, Blocks, Authors
  <2>5. {s.block : s \in {x \in submitted : x.block[1] = e}} \subseteq Blocks
    BY WinTyped
  <2>6. b \in SUBSET Blocks /\ b # {}
    BY <2>2, <2>4, <2>5
  <2> QED
    BY <2>2, <2>3, <2>6 DEF Tipsets
<1> QED
  BY <1>1, <1>2

LEMMA InitWinInv == WinInit => WinInv
<1> SUFFICES ASSUME WinInit PROVE WinInv
  OBVIOUS
<1> USE DEF WinInit
<1>1. WinTypeOK
  <2>1. [ts |-> Genesis, addRounds |-> 0] \in Base
    BY WinTypes DEF Base
  <2>2. mineFaults \in 0..MaxMineFaults
    BY WinAssumption DEF WinAssumption
  <2>3. /\ now \in Epochs /\ workBase \in [Miners -> Base] /\ mining \in [WinTasks -> MiningRow]
        /\ winOwner \in [WinTasks -> Miners \cup {"unused", "queued", "gone"}] /\ doing \in [Miners -> DoState]
        /\ submitted \subseteq [block : Blocks, parents : SUBSET Blocks]
    BY <2>1, WinTypes
  <2> QED
    BY <2>2, <2>3 DEF WinTypeOK, MiningRow, DoState, Base
<1>2. \A n \in Miners : workBase[n].ts.blocks # {}
  BY WinTypes
<1>3. \A t \in WinTasks : RowOK(t)
  <2>1. ~NoRow.noWin /\ NoRow.mined = NoBlock
    BY DEF NoRow
  <2> QED
    BY <2>1 DEF RowOK
<1>4. RowsDiffer
  BY DEF RowsDiffer
<1>5. \A n \in Miners : DoOK(n)
  BY DEF DoOK, Idle
<1> QED
  BY <1>1, <1>2, <1>3, <1>4, <1>5 DEF WinInv, OncePerEpoch

-----------------------------------------------------------------------------
(* What a step keeps of a row, of a node and of the blocks.                *)

Keeps(t) ==
    /\ winOwner'[t] = "unused" <=> winOwner[t] = "unused"
    /\ mining'[t].epoch = mining[t].epoch /\ mining'[t].base = mining[t].base
    /\ mining[t].wins => mining'[t].wins
    /\ mining[t].noWin => mining'[t].noWin
    /\ mining[t].mined # NoBlock => mining'[t].mined = mining[t].mined

LEMMA BlockIsSomeones ==
    ASSUME NEW e, e # 0, NEW n
    PROVE  <<e, n>> # NoBlock
  BY DEF NoBlock

LEMMA KeptDo ==
    ASSUME WinInv, \A t \in WinTasks : Keeps(t), submitted' = submitted, NEW n \in Miners, doing'[n] = doing[n]
    PROVE  DoOK(n)'
<1> SUFFICES ASSUME doing[n].at # "idle" PROVE DoOK(n)'
  BY DEF DoOK
<1>1. PICK t \in WinTasks : t = doing[n].task
  BY DEF WinInv, DoOK
<1>2. DoOK(n) /\ Keeps(t) /\ RowOK(t)
  BY DEF WinInv
<1>3. mining[t].mined = <<mining[t].epoch, n>> => mining'[t].mined = <<mining'[t].epoch, n>>
  BY <1>1, <1>2, BlockIsSomeones DEF Keeps, RowOK, DoOK
<1> QED
  BY <1>1, <1>2, <1>3 DEF DoOK, Keeps

LEMMA KeptSubmitted ==
    ASSUME WinInv, \A t \in WinTasks : Keeps(t), NEW b \in submitted
    PROVE  SubmittedOK(b)'
  BY DEF WinInv, SubmittedOK, Keeps

LEMMA KeptRowsDiffer ==
    ASSUME WinInv, \A t \in WinTasks : Keeps(t)
    PROVE  RowsDiffer'
<1> SUFFICES ASSUME NEW t \in WinTasks, NEW u \in WinTasks, t # u, winOwner'[t] # "unused", winOwner'[u] # "unused"
             PROVE  /\ mining'[t].epoch # mining'[u].epoch
                    /\ (~mining'[t].noWin /\ ~mining'[u].noWin) => mining'[t].base.blocks \cap mining'[u].base.blocks = {}
  BY DEF RowsDiffer
<1>1. Keeps(t) /\ Keeps(u) /\ RowsDiffer
  BY DEF WinInv
<1> QED
  BY <1>1 DEF Keeps, RowsDiffer

\* A step that changes neither the rows nor the blocks.
LEMMA SameRows ==
    ASSUME WinInv, mining' = mining, \A t \in WinTasks : winOwner'[t] = "unused" <=> winOwner[t] = "unused"
    PROVE  (\A t \in WinTasks : Keeps(t)) /\ (\A t \in WinTasks : RowOK(t)')
<1>1. \A t \in WinTasks : Keeps(t)
  BY DEF Keeps
<1>2. \A t \in WinTasks : RowOK(t)'
  BY DEF WinInv, RowOK
<1> QED
  BY <1>1, <1>2

LEMMA WinStep ==
    ASSUME WinInv, WinTypeOK', \A t \in WinTasks : Keeps(t), \A t \in WinTasks : RowOK(t)', submitted' = submitted,
           \A n \in Miners : workBase'[n].ts.blocks # {},
           \A n \in Miners : doing'[n] # doing[n] => DoOK(n)'
    PROVE  WinInv'
<1>1. RowsDiffer'
  BY KeptRowsDiffer
<1>2. \A n \in Miners : DoOK(n)'
  BY KeptDo
<1>3. \A b \in submitted' : SubmittedOK(b)'
  BY KeptSubmitted
<1>4. OncePerEpoch'
  BY DEF WinInv, OncePerEpoch
<1> QED
  BY <1>1, <1>2, <1>3, <1>4 DEF WinInv

LEMMA IdleOK == ASSUME NEW n, doing'[n].at = "idle" PROVE DoOK(n)'
  BY DEF DoOK

\* Do ends: a task that was there is gone.
LEMMA EndDoes ==
    ASSUME WinInv, NEW n \in Miners, doing[n].at # "idle", End(n)
    PROVE  /\ doing' \in [Miners -> DoState] /\ winOwner' \in [WinTasks -> Miners \cup {"unused", "queued", "gone"}]
           /\ \A t \in WinTasks : winOwner'[t] = "unused" <=> winOwner[t] = "unused"
           /\ \A k \in Miners : doing'[k] # doing[k] => DoOK(k)'
<1> USE DEF End
<1>1. doing[n].task \in WinTasks /\ winOwner[doing[n].task] # "unused"
  BY DEF WinInv, DoOK
<1>2. doing' \in [Miners -> DoState] /\ \A k \in Miners : doing'[k] # doing[k] => doing'[k] = Idle
  BY WinTyped, WinTypes
<1>3. winOwner' \in [WinTasks -> Miners \cup {"unused", "queued", "gone"}]
  BY <1>1, WinTyped
<1>4. \A t \in WinTasks : winOwner'[t] = "unused" <=> winOwner[t] = "unused"
  BY <1>1, WinTyped
<1>5. \A k \in Miners : doing'[k] # doing[k] => DoOK(k)'
  BY <1>2, IdleOK DEF Idle
<1> QED
  BY <1>2, <1>3, <1>4, <1>5

LEMMA TickKeeps == ASSUME WinInv, Tick PROVE WinInv'
<1> USE DEF Tick
<1>1. now' \in Epochs
  BY WinTyped, WinAssumption DEF Epochs, WinAssumption
<1>2. WinTypeOK'
  BY <1>1, WinTyped, WinTypedNext
<1> QED
  BY <1>2, SameRows, WinStep DEF WinInv

LEMMA ClaimKeeps == ASSUME WinInv, NEW n \in Miners, NEW t \in WinTasks, Claim(n, t) PROVE WinInv'
<1> USE DEF Claim
<1>1. /\ now' = now /\ workBase' = workBase /\ mining' = mining /\ submitted' = submitted /\ mineFaults' = mineFaults
      /\ winOwner[t] = "queued"
  OBVIOUS
<1>2. \/ winOwner' = [winOwner EXCEPT ![t] = "gone"] /\ doing' = doing
      \/ /\ winOwner' = [winOwner EXCEPT ![t] = n]
         /\ doing' = [doing EXCEPT ![n] = [task |-> t, at |-> "elect", parents |-> mining[t].base.blocks]]
  OBVIOUS
<1>3. n # "unused"
  BY WinAssumption DEF WinAssumption
<1>4. /\ winOwner' \in [WinTasks -> Miners \cup {"unused", "queued", "gone"}]
      /\ \A u \in WinTasks : winOwner'[u] = "unused" <=> winOwner[u] = "unused"
  BY <1>1, <1>2, <1>3, WinTyped
<1>5. PICK d \in DoState : d = [task |-> t, at |-> "elect", parents |-> mining[t].base.blocks]
  BY WinTyped, MiningColumns DEF DoState
<1>6. doing' \in [Miners -> DoState] /\ \A k \in Miners : doing'[k] # doing[k] => k = n /\ doing'[k] = d
  BY <1>2, <1>5, WinTyped
<1>7. mining[t].base.blocks # {}
  BY <1>1 DEF WinInv, RowOK
<1>8. doing'[n] = d => DoOK(n)'
  BY <1>1, <1>4, <1>5, <1>7 DEF DoOK
<1>9. WinTypeOK'
  BY <1>1, <1>4, <1>6, WinTyped, WinTypedNext
<1> QED
  BY <1>1, <1>4, <1>6, <1>8, <1>9, SameRows, WinStep DEF WinInv

LEMMA ElectKeeps == ASSUME WinInv, NEW n \in Miners, Elect(n) PROVE WinInv'
<1> USE DEF Elect
<1>1. /\ now' = now /\ workBase' = workBase /\ submitted' = submitted /\ mineFaults' = mineFaults
      /\ doing[n].at = "elect"
  OBVIOUS
<1>2. PICK t \in WinTasks : t = doing[n].task
  BY <1>1 DEF WinInv, DoOK
<1>3. CASE mining[t].wins
  <2>1. mining' = mining /\ winOwner' = winOwner /\ doing' = [doing EXCEPT ![n].at = "prove"]
    BY <1>2, <1>3
  <2>2. PICK d : d = [doing[n] EXCEPT !.at = "prove"]
    OBVIOUS
  <2>3. d \in DoState /\ d.at = "prove" /\ d.task = doing[n].task /\ d.parents = doing[n].parents
    BY <2>2, WinTyped, DoFields
  <2>4. doing' \in [Miners -> DoState] /\ \A k \in Miners : doing'[k] # doing[k] => k = n /\ doing'[k] = d
    BY <2>1, <2>2, <2>3, WinTyped
  <2>5. doing'[n] = d => DoOK(n)'
    BY <1>1, <1>2, <1>3, <2>1, <2>3 DEF WinInv, DoOK
  <2>6. WinTypeOK'
    BY <1>1, <2>1, <2>4, WinTyped, WinTypedNext
  <2> QED
    BY <1>1, <2>1, <2>4, <2>5, <2>6, SameRows, WinStep DEF WinInv
<1>4. CASE ~mining[t].wins
  <2>1. mining' = [mining EXCEPT ![t].noWin = TRUE] /\ End(n)
    BY <1>2, <1>4
  <2>2. PICK r : r = [mining[t] EXCEPT !.noWin = TRUE]
    OBVIOUS
  <2>3. /\ r \in MiningRow /\ r.noWin /\ r.wins = mining[t].wins
        /\ r.epoch = mining[t].epoch /\ r.base = mining[t].base /\ r.mined = mining[t].mined
    BY <2>2, WinTyped, WithNoWin
  <2>4. mining' \in [WinTasks -> MiningRow] /\ mining'[t] = r /\ \A u \in WinTasks \ {t} : mining'[u] = mining[u]
    BY <2>1, <2>2, <2>3, WinTyped
  <2>5. \A u \in WinTasks : winOwner'[u] = "unused" <=> winOwner[u] = "unused"
    BY <1>1, <2>1, EndDoes
  <2>6. \A u \in WinTasks : Keeps(u)
    BY <2>3, <2>4, <2>5 DEF Keeps
  <2>7. \A u \in WinTasks : RowOK(u)'
    <3>1. \A u \in WinTasks \ {t} : RowOK(u)'
      BY <2>4, <2>5 DEF WinInv, RowOK
    <3>2. winOwner[t] # "unused"
      BY <1>1, <1>2 DEF WinInv, DoOK
    <3>3. RowOK(t)'
      BY <1>4, <2>3, <2>4, <2>5, <3>2 DEF WinInv, RowOK
    <3> QED
      BY <3>1, <3>3
  <2>8. WinTypeOK'
    BY <1>1, <2>1, <2>4, EndDoes, WinTyped, WinTypedNext
  <2> QED
    BY <1>1, <2>1, <2>6, <2>7, <2>8, EndDoes, WinStep DEF WinInv
<1> QED
  BY <1>3, <1>4

LEMMA ProveKeeps == ASSUME WinInv, NEW n \in Miners, NEW head \in ChainHeads, Prove(n, head) PROVE WinInv'
<1> DEFINE base == mining[doing[n].task].base
           kept == base.blocks \cap head.blocks
           par  == IF Heavier(head, base) /\ head.height = base.height /\ kept # {} THEN kept ELSE doing[n].parents
<1>1. /\ now' = now /\ workBase' = workBase /\ mining' = mining /\ winOwner' = winOwner
      /\ submitted' = submitted /\ mineFaults' = mineFaults /\ doing[n].at = "prove"
      /\ doing' = [doing EXCEPT ![n] = [doing[n] EXCEPT !.at = "persist", !.parents = par]]
  BY DEF Prove
<1>2. PICK t \in WinTasks : t = doing[n].task
  BY <1>1 DEF WinInv, DoOK
<1>3. par # {} /\ par \subseteq mining[t].base.blocks
  BY <1>1, <1>2 DEF WinInv, DoOK
<1>4. par \in SUBSET Blocks
  BY <1>3, WinTyped, MiningColumns
<1> HIDE DEF par
<1>5. PICK d : d = [doing[n] EXCEPT !.at = "persist", !.parents = par]
  OBVIOUS
<1>6. d \in DoState /\ d.at = "persist" /\ d.task = t /\ d.parents = par
  BY <1>2, <1>4, <1>5, WinTyped DEF DoState
<1>7. doing' \in [Miners -> DoState] /\ \A k \in Miners : doing'[k] # doing[k] => k = n /\ doing'[k] = d
  BY <1>1, <1>5, <1>6, WinTyped
<1>8. doing'[n] = d => DoOK(n)'
  BY <1>1, <1>2, <1>3, <1>6 DEF WinInv, DoOK
<1>9. WinTypeOK'
  BY <1>1, <1>7, WinTyped, WinTypedNext
<1> QED
  BY <1>1, <1>7, <1>8, <1>9, SameRows, WinStep DEF WinInv

\* A step that ends Do and changes no row.
LEMMA EndKeeps ==
    ASSUME WinInv, NEW n \in Miners, doing[n].at # "idle", End(n), now' = now, workBase' = workBase, mining' = mining,
           submitted' = submitted, mineFaults' \in 0..MaxMineFaults
    PROVE  WinInv'
<1>1. /\ doing' \in [Miners -> DoState] /\ winOwner' \in [WinTasks -> Miners \cup {"unused", "queued", "gone"}]
      /\ \A t \in WinTasks : winOwner'[t] = "unused" <=> winOwner[t] = "unused"
      /\ \A k \in Miners : doing'[k] # doing[k] => DoOK(k)'
  BY EndDoes
<1>2. WinTypeOK'
  BY <1>1, WinTyped, WinTypedNext
<1> QED
  BY <1>1, <1>2, SameRows, WinStep DEF WinInv

LEMMA PersistKeeps == ASSUME WinInv, NEW n \in Miners, Persist(n) PROVE WinInv'
<1> USE DEF Persist
<1>1. /\ now' = now /\ workBase' = workBase /\ submitted' = submitted /\ mineFaults' = mineFaults
      /\ doing[n].at = "persist"
  OBVIOUS
<1>2. PICK t \in WinTasks : t = doing[n].task
  BY <1>1 DEF WinInv, DoOK
<1>3. CASE mining[t].mined = NoBlock
  <2> DEFINE b == <<mining[t].epoch, n>>
  <2>1. mining' = [mining EXCEPT ![t].mined = b] /\ winOwner' = winOwner /\ doing' = [doing EXCEPT ![n].at = "wait"]
    BY <1>2, <1>3
  <2>2. winOwner[t] # "unused" /\ mining[t].wins /\ RowOK(t)
    BY <1>1, <1>2 DEF WinInv, DoOK
  <2>3. mining[t].epoch \in Nat /\ mining[t].epoch > 0 /\ mining[t].epoch \in Epochs
    BY <2>2, WinTyped, WinTypes, MiningColumns DEF RowOK
  <2>4. b \in Blocks /\ b[1] = mining[t].epoch /\ b # NoBlock
    BY <2>3, BlockIsSomeones DEF Blocks, Authors
  <2> HIDE DEF b
  <2>5. PICK r : r = [mining[t] EXCEPT !.mined = b]
    OBVIOUS
  <2>6. /\ r \in MiningRow /\ r.mined = b /\ r.wins = mining[t].wins /\ r.noWin = mining[t].noWin
        /\ r.epoch = mining[t].epoch /\ r.base = mining[t].base
    BY <2>4, <2>5, WinTyped, WithMined
  <2>7. mining' \in [WinTasks -> MiningRow] /\ mining'[t] = r /\ \A u \in WinTasks \ {t} : mining'[u] = mining[u]
    BY <2>1, <2>5, <2>6, WinTyped
  <2>8. \A u \in WinTasks : Keeps(u)
    BY <1>3, <2>1, <2>6, <2>7 DEF Keeps
  <2>9. \A u \in WinTasks : RowOK(u)'
    <3>1. \A u \in WinTasks \ {t} : RowOK(u)'
      BY <2>1, <2>7 DEF WinInv, RowOK
    <3>2. RowOK(t)'
      BY <2>1, <2>2, <2>4, <2>6, <2>7 DEF RowOK
    <3> QED
      BY <3>1, <3>2
  <2>10. PICK d : d = [doing[n] EXCEPT !.at = "wait"]
    OBVIOUS
  <2>11. d \in DoState /\ d.at = "wait" /\ d.task = t /\ d.parents = doing[n].parents
    BY <1>2, <2>10, WinTyped, DoFields
  <2>12. doing' \in [Miners -> DoState] /\ \A k \in Miners : doing'[k] # doing[k] => k = n /\ doing'[k] = d
    BY <2>1, <2>10, <2>11, WinTyped
  <2>13. \A c \in submitted : c.block[1] # mining[t].epoch
    <3> SUFFICES ASSUME NEW c \in submitted, c.block[1] = mining[t].epoch PROVE FALSE
      OBVIOUS
    <3>1. PICK u \in WinTasks : winOwner[u] # "unused" /\ mining[u].mined = c.block /\ c.block # NoBlock /\ c.block[1] = mining[u].epoch
      BY DEF WinInv, SubmittedOK
    <3>2. u # t
      BY <1>3, <3>1
    <3> QED
      BY <2>2, <3>1, <3>2 DEF WinInv, RowsDiffer
  <2>14. DoOK(n)
    BY DEF WinInv
  <2>15. doing'[n] = d => DoOK(n)'
    BY <1>1, <1>2, <2>1, <2>2, <2>6, <2>7, <2>11, <2>13, <2>14 DEF DoOK, b
  <2>16. WinTypeOK'
    BY <1>1, <2>1, <2>7, <2>12, WinTyped, WinTypedNext
  <2> QED
    BY <1>1, <2>8, <2>9, <2>12, <2>15, <2>16, WinStep DEF WinInv
<1>4. CASE mining[t].mined # NoBlock
  BY <1>1, <1>2, <1>4, WinTyped, EndKeeps
<1> QED
  BY <1>3, <1>4

LEMMA StillOwnedKeeps == ASSUME WinInv, NEW n \in Miners, StillOwned(n) PROVE WinInv'
<1> USE DEF StillOwned
<1>1. /\ now' = now /\ workBase' = workBase /\ mining' = mining /\ submitted' = submitted /\ mineFaults' = mineFaults
      /\ doing[n].at = "wait"
  OBVIOUS
<1>2. CASE winOwner' = winOwner /\ doing' = [doing EXCEPT ![n].at = "submit"]
  <2>1. PICK d : d = [doing[n] EXCEPT !.at = "submit"]
    OBVIOUS
  <2>2. d \in DoState /\ d.at = "submit" /\ d.task = doing[n].task /\ d.parents = doing[n].parents
    BY <2>1, WinTyped, DoFields
  <2>3. doing' \in [Miners -> DoState] /\ \A k \in Miners : doing'[k] # doing[k] => k = n /\ doing'[k] = d
    BY <1>2, <2>1, <2>2, WinTyped
  <2>4. doing'[n] = d => DoOK(n)'
    BY <1>1, <1>2, <2>2 DEF WinInv, DoOK
  <2>5. WinTypeOK'
    BY <1>1, <1>2, <2>3, WinTyped, WinTypedNext
  <2> QED
    BY <1>1, <1>2, <2>3, <2>4, <2>5, SameRows, WinStep DEF WinInv
<1>3. CASE End(n)
  BY <1>1, <1>3, WinTyped, EndKeeps
<1> QED
  BY <1>2, <1>3

LEMMA SubmitKeeps == ASSUME WinInv, NEW n \in Miners, SubmitBlock(n) PROVE WinInv'
<1> USE DEF SubmitBlock
<1>1. /\ now' = now /\ workBase' = workBase /\ mining' = mining /\ winOwner' = winOwner /\ mineFaults' = mineFaults
      /\ doing[n].at = "submit" /\ doing' = [doing EXCEPT ![n].at = "record"]
  OBVIOUS
<1>2. PICK t \in WinTasks : t = doing[n].task
  BY <1>1 DEF WinInv, DoOK
<1>3. /\ winOwner[t] # "unused" /\ mining[t].mined = <<mining[t].epoch, n>>
      /\ doing[n].parents # {} /\ doing[n].parents \subseteq mining[t].base.blocks /\ mining[t].wins
      /\ \A b \in submitted : b.block[1] # mining[t].epoch
  BY <1>1, <1>2 DEF WinInv, DoOK
<1>4. mining[t].mined # NoBlock /\ mining[t].mined \in Blocks
  BY <1>3, WinTyped, WinTypes, MiningColumns, BlockIsSomeones DEF WinInv, RowOK
<1>5. PICK b \in [block : Blocks, parents : SUBSET Blocks] :
         b = [block |-> mining[t].mined, parents |-> doing[n].parents]
  BY <1>4, WinTyped DEF DoState
<1>6. submitted' = submitted \cup {b} /\ b.block = mining[t].mined /\ b.parents = doing[n].parents /\ b.block[1] = mining[t].epoch
  BY <1>2, <1>3, <1>5
<1>7. PICK d : d = [doing[n] EXCEPT !.at = "record"]
  OBVIOUS
<1>8. d \in DoState /\ d.at = "record" /\ d.task = t /\ d.parents = doing[n].parents
  BY <1>2, <1>7, WinTyped, DoFields
<1>9. doing' \in [Miners -> DoState] /\ doing'[n] = d /\ \A k \in Miners \ {n} : doing'[k] = doing[k]
  BY <1>1, <1>7, <1>8, WinTyped
<1>10. WinTypeOK'
  BY <1>1, <1>6, <1>9, WinTyped, WinTypedNext
<1>11. (\A u \in WinTasks : Keeps(u)) /\ (\A u \in WinTasks : RowOK(u)')
  BY <1>1, SameRows
<1>12. DoOK(n)'
  BY <1>1, <1>3, <1>8, <1>9 DEF DoOK
<1>13. ASSUME NEW k \in Miners \ {n} PROVE DoOK(k)'
  <2> SUFFICES ASSUME doing[k].at # "idle" PROVE DoOK(k)'
    BY <1>9 DEF DoOK
  <2>1. PICK u \in WinTasks : u = doing[k].task
    BY DEF WinInv, DoOK
  <2>2. DoOK(k) /\ winOwner[u] # "unused"
    BY <2>1 DEF WinInv, DoOK
  <2>3. doing[k].at \in {"wait", "submit"} => b.block[1] # mining[u].epoch
    <3> SUFFICES ASSUME doing[k].at \in {"wait", "submit"}, mining[t].epoch = mining[u].epoch PROVE FALSE
      BY <1>6
    <3>1. u = t
      BY <1>3, <2>2 DEF WinInv, RowsDiffer
    <3>2. mining[t].mined = <<mining[t].epoch, k>>
      BY <2>1, <2>2, <3>1 DEF DoOK
    <3> QED
      BY <1>3, <3>2
  <2> QED
    BY <1>1, <1>6, <1>9, <2>1, <2>2, <2>3 DEF DoOK
<1>14. \A c \in submitted' : SubmittedOK(c)'
  <2>1. SubmittedOK(b)'
    BY <1>1, <1>3, <1>4, <1>6 DEF SubmittedOK
  <2> QED
    BY <1>6, <1>11, <2>1, KeptSubmitted
<1>15. OncePerEpoch'
  BY <1>3, <1>6 DEF WinInv, OncePerEpoch
<1>16. RowsDiffer'
  BY <1>11, KeptRowsDiffer
<1> QED
  BY <1>1, <1>10, <1>11, <1>12, <1>13, <1>14, <1>15, <1>16 DEF WinInv

LEMMA OtherEnds ==
    ASSUME WinInv, NEW n \in Miners, RecordBlock(n) \/ DoFails(n)
    PROVE  WinInv'
<1>1. /\ now' = now /\ workBase' = workBase /\ mining' = mining /\ submitted' = submitted /\ End(n)
      /\ doing[n].at # "idle"
  BY DEF RecordBlock, DoFails
<1>2. mineFaults' \in 0..MaxMineFaults
  BY WinTyped, WinAssumption DEF RecordBlock, DoFails, WinAssumption
<1> QED
  BY <1>1, <1>2, EndKeeps

LEMMA LoseTaskKeeps == ASSUME WinInv, NEW t \in WinTasks, LoseTask(t) PROVE WinInv'
<1> USE DEF LoseTask
<1>1. /\ winOwner' \in [WinTasks -> Miners \cup {"unused", "queued", "gone"}]
      /\ \A u \in WinTasks : winOwner'[u] = "unused" <=> winOwner[u] = "unused"
  BY WinTyped, WinAssumption DEF WinAssumption
<1>2. mineFaults' \in 0..MaxMineFaults
  BY WinTyped, WinAssumption DEF WinAssumption
<1>3. WinTypeOK'
  BY <1>1, <1>2, WinTyped, WinTypedNext
<1> QED
  BY <1>1, <1>3, SameRows, WinStep DEF WinInv

LEMMA CrashKeeps == ASSUME WinInv, NEW n \in Miners, NEW head \in ChainHeads, CrashMiner(n, head) PROVE WinInv'
<1> USE DEF CrashMiner
<1>1. /\ winOwner' \in [WinTasks -> Miners \cup {"unused", "queued", "gone"}]
      /\ \A u \in WinTasks : winOwner'[u] = "unused" <=> winOwner[u] = "unused"
  BY WinTyped, WinAssumption DEF WinAssumption
<1>2. mineFaults' \in 0..MaxMineFaults
  BY WinTyped, WinAssumption DEF WinAssumption
<1>3. doing' \in [Miners -> DoState] /\ \A k \in Miners : doing'[k] # doing[k] => doing'[k] = Idle
  BY WinTyped, WinTypes
<1>4. \A k \in Miners : doing'[k] # doing[k] => DoOK(k)'
  BY <1>3, IdleOK DEF Idle
<1>b. head \in Tipsets /\ head.blocks # {} /\ 0 \in Epochs
  BY HeadsHaveBlocks, WinTypes
<1>5. PICK b \in Base : b = [ts |-> head, addRounds |-> 0] /\ b.ts.blocks # {}
  <2> DEFINE b == [ts |-> head, addRounds |-> 0]
  <2>1. b \in Base
    BY <1>b DEF Base
  <2>2. b.ts.blocks # {}
    BY <1>b
  <2> QED
    BY <2>1, <2>2
<1>6. workBase' \in [Miners -> Base] /\ \A k \in Miners : workBase'[k].ts.blocks # {}
  BY <1>5, WinTyped DEF WinInv
<1>7. WinTypeOK'
  BY <1>1, <1>2, <1>3, <1>6, WinTyped, WinTypedNext
<1> QED
  BY <1>1, <1>4, <1>6, <1>7, SameRows, WinStep DEF WinInv

\* mineBasic gives the round the first free task id.
LEMMA FreshTaskIsUnused ==
    ASSUME \E t \in WinTasks : winOwner[t] = "unused"
    PROVE  FreshTask \in WinTasks /\ winOwner[FreshTask] = "unused"
<1> DEFINE S == {t \in WinTasks : winOwner[t] = "unused"}
<1>1. S \in SUBSET Nat /\ S # {}
  BY WinTypes
<1> HIDE DEF S
<1>2. PICK i \in S : \A j \in S : ~(<<j, i>> \in OpToRel(<, Nat))
  BY <1>1, NatLessThanWellFounded, WFMin, Zenon
<1>3. \A j \in S : ~(j < i)
  BY <1>1, <1>2 DEF OpToRel
<1>4. \E t \in WinTasks : winOwner[t] = "unused" /\ \A u \in WinTasks : u < t => winOwner[u] # "unused"
  BY <1>3 DEF S
<1> QED
  BY <1>4 DEF FreshTask

\* The base of a round is one the node has had before or a head, and its epoch
\* comes after it.
LEMMA BaseOfRound ==
    ASSUME WinInv, NEW n \in Miners, NEW head \in ChainHeads, NEW base, base = NextBase(workBase[n], head),
           Epoch(base) <= MaxEpoch
    PROVE  base \in Base /\ base.ts.blocks # {} /\ Epoch(base) \in Epochs /\ Epoch(base) > 0
<1>1. workBase[n] \in Base /\ workBase[n].ts \in Tipsets /\ workBase[n].ts.blocks # {} /\ workBase[n].addRounds \in Nat
  BY WinTyped, WinTypes DEF WinInv, Base
<1>2. head \in Tipsets /\ head.blocks # {}
  BY HeadsHaveBlocks
<1>3. base.ts \in Tipsets /\ base.ts.blocks # {} /\ base.addRounds \in Nat
      /\ base = [ts |-> base.ts, addRounds |-> base.addRounds]
  BY <1>1, <1>2 DEF NextBase, Base
<1>4. base.ts.height \in Nat
  BY <1>3, WinTypes
<1>5. Epoch(base) \in Nat /\ Epoch(base) > 0 /\ base.addRounds < Epoch(base)
  BY <1>3, <1>4 DEF Epoch
<1>6. base.addRounds \in Epochs /\ Epoch(base) \in Epochs
  BY <1>3, <1>5, WinAssumption DEF Epochs, WinAssumption
<1>7. base \in Base
  BY <1>3, <1>6 DEF Base
<1> QED
  BY <1>3, <1>5, <1>6, <1>7

LEMMA MineRoundKeeps ==
    ASSUME WinInv, NEW n \in Miners, NEW head \in ChainHeads, NEW wins \in BOOLEAN, MineRound(n, head, wins)
    PROVE  WinInv'
<1>0. PICK base : base = NextBase(workBase[n], head)
  OBVIOUS
<1>1. /\ now' = now /\ doing' = doing /\ submitted' = submitted /\ mineFaults' = mineFaults
      /\ Epoch(base) <= MaxEpoch /\ workBase' = [workBase EXCEPT ![n] = base]
      /\ \E t \in WinTasks : winOwner[t] = "unused"
  BY <1>0 DEF MineRound
<1>2. base \in Base /\ base.ts.blocks # {} /\ Epoch(base) \in Epochs /\ Epoch(base) > 0
  BY <1>0, <1>1, BaseOfRound
<1>3. workBase' \in [Miners -> Base] /\ \A k \in Miners : workBase'[k].ts.blocks # {}
  BY <1>1, <1>2, WinTyped DEF WinInv
<1>4. CASE ~Admits(base)
  <2>1. mining' = mining /\ winOwner' = winOwner
    BY <1>0, <1>4 DEF MineRound
  <2>2. WinTypeOK'
    BY <1>1, <1>3, <2>1, WinTyped, WinTypedNext
  <2> QED
    BY <1>1, <1>3, <2>1, <2>2, SameRows, WinStep
<1>5. CASE Admits(base)
  <2>1. PICK t \in WinTasks : t = FreshTask /\ winOwner[t] = "unused"
    BY <1>1, FreshTaskIsUnused
  <2>2. PICK r : r = [epoch |-> Epoch(base), base |-> base.ts, noWin |-> FALSE, wins |-> wins, mined |-> NoBlock]
    OBVIOUS
  <2>3. base.ts \in Tipsets
    BY <1>2 DEF Base
  <2>4. r \in MiningRow /\ ~r.noWin /\ r.epoch = Epoch(base) /\ r.base = base.ts /\ r.mined = NoBlock
    BY <1>2, <2>2, <2>3, NewMiningRow
  <2>5. mining' = [mining EXCEPT ![t] = r] /\ winOwner' = [winOwner EXCEPT ![t] = "queued"]
    BY <1>0, <1>5, <2>1, <2>2 DEF MineRound
  <2>6. /\ mining' \in [WinTasks -> MiningRow] /\ mining'[t] = r
        /\ \A u \in WinTasks \ {t} : mining'[u] = mining[u]
        /\ winOwner' \in [WinTasks -> Miners \cup {"unused", "queued", "gone"}] /\ winOwner'[t] # "unused"
        /\ \A u \in WinTasks \ {t} : winOwner'[u] = winOwner[u]
    BY <2>4, <2>5, WinTyped
  <2>7. WinTypeOK'
    BY <1>1, <1>3, <2>6, WinTyped, WinTypedNext
  <2>8. \A u \in WinTasks : RowOK(u)'
    <3>1. \A u \in WinTasks \ {t} : RowOK(u)'
      BY <2>6 DEF WinInv, RowOK
    <3>2. RowOK(t)'
      BY <1>2, <2>4, <2>6 DEF RowOK
    <3> QED
      BY <3>1, <3>2
  <2>9. RowsDiffer'
    <3>1. \A u \in WinTasks \ {t} : /\ mining[u].epoch # r.epoch
                                    /\ ~mining[u].noWin => mining[u].base.blocks \cap r.base.blocks = {}
      BY <1>5, <2>4 DEF Admits
    <3> SUFFICES ASSUME NEW u \in WinTasks, NEW v \in WinTasks, u # v, winOwner'[u] # "unused", winOwner'[v] # "unused"
                 PROVE  /\ mining'[u].epoch # mining'[v].epoch
                        /\ (~mining'[u].noWin /\ ~mining'[v].noWin) => mining'[u].base.blocks \cap mining'[v].base.blocks = {}
      BY DEF RowsDiffer
    <3>2. CASE u # t /\ v # t
      BY <2>6, <3>2 DEF WinInv, RowsDiffer
    <3>3. CASE u = t
      BY <2>6, <3>1, <3>3
    <3>4. CASE v = t
      BY <2>6, <3>1, <3>4
    <3> QED
      BY <3>2, <3>3, <3>4
  <2>10. ASSUME NEW k \in Miners PROVE DoOK(k)'
    <3> SUFFICES ASSUME doing[k].at # "idle" PROVE DoOK(k)'
      BY <1>1 DEF DoOK
    <3>1. PICK u \in WinTasks : u = doing[k].task /\ u # t
      BY <2>1 DEF WinInv, DoOK
    <3>2. DoOK(k) /\ mining'[u] = mining[u] /\ winOwner'[u] = winOwner[u]
      BY <2>6, <3>1 DEF WinInv
    <3> QED
      BY <1>1, <3>1, <3>2 DEF DoOK
  <2>11. \A b \in submitted' : SubmittedOK(b)'
    <3> SUFFICES ASSUME NEW b \in submitted PROVE SubmittedOK(b)'
      BY <1>1
    <3>1. PICK u \in WinTasks :
            /\ winOwner[u] # "unused"
            /\ mining[u].mined = b.block /\ b.block # NoBlock /\ b.block[1] = mining[u].epoch
            /\ b.parents # {} /\ b.parents \subseteq mining[u].base.blocks
      BY DEF WinInv, SubmittedOK
    <3>2. mining'[u] = mining[u] /\ winOwner'[u] = winOwner[u]
      BY <2>1, <2>6, <3>1
    <3> QED
      BY <3>1, <3>2 DEF SubmittedOK
  <2>12. OncePerEpoch'
    BY <1>1 DEF WinInv, OncePerEpoch
  <2> QED
    BY <1>3, <2>7, <2>8, <2>9, <2>10, <2>11, <2>12 DEF WinInv
<1> QED
  BY <1>4, <1>5

LEMMA WinInvNext == WinInv /\ [WinNext]_winVars => WinInv'
<1> SUFFICES ASSUME WinInv, [WinNext]_winVars PROVE WinInv'
  OBVIOUS
<1>1. CASE WinNext
  BY <1>1, TickKeeps, MineRoundKeeps, ClaimKeeps, ElectKeeps, ProveKeeps, PersistKeeps, StillOwnedKeeps, SubmitKeeps,
     OtherEnds, CrashKeeps, LoseTaskKeeps DEF WinNext
<1>2. CASE UNCHANGED winVars
  <2>1. /\ now' = now /\ workBase' = workBase /\ mining' = mining /\ winOwner' = winOwner /\ doing' = doing
        /\ submitted' = submitted /\ mineFaults' = mineFaults
    BY <1>2 DEF winVars
  <2>2. WinTypeOK'
    BY <2>1, WinTyped, WinTypedNext
  <2> QED
    BY <2>1, <2>2, SameRows, WinStep DEF WinInv
<1> QED
  BY <1>1, <1>2

\* The tables of block production and the runs of Do keep their types.
THEOREM MinersTypesHold == WinSpec => []WinTypeOK
<1>1. WinInv => WinTypeOK
  BY DEF WinInv
<1> QED
  BY <1>1, InitWinInv, WinInvNext, PTL DEF WinSpec

\* A miner never submits two blocks of one epoch nor two blocks on one base,
\* with any number of nodes, epochs, crashes and tasks that are run twice: the
\* two unique indexes, the UPDATE ... WHERE won = false and the order of
\* persisting and submitting are enough.
THEOREM NoFaultIsCommitted == WinSpec => []NoConsensusFault
  BY WinFree, InitWinInv, WinInvNext, PTL DEF WinSpec
=============================================================================

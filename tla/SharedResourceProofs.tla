------------------------ MODULE SharedResourceProofs ------------------------
(***************************************************************************)
(* Three components that share a resource, for any number of nodes,        *)
(* requests, batches and slots: the row of a singleton task, a cached      *)
(* piece reader, an NVMe slot.                                             *)
(***************************************************************************)
EXTENDS SingletonTask, CachedReader, BatchSealing, FiniteSetTheorems, WellFoundedInduction, TLAPS

-----------------------------------------------------------------------------
(* Singleton tasks.                                                        *)

\* What keeps the cluster at one task: task_id is a foreign key, and what a
\* transaction has read and is about to act on had no task.
SingletonInv ==
    /\ SingletonTypeOK
    /\ OneTask
    /\ ~singleton.exists => singleton.task = NoTask
    /\ singleton.task # NoTask => singleton.task \in present
    /\ \A n \in Offerers : txn[n] = "upsert" => readRow[n].task = NoTask

LEMMA SingletonInitInv == SingletonInit => SingletonInv
<1>1. NoSingleton \in SingletonRow /\ NoSingleton.task = NoTask
  BY DEF NoSingleton, SingletonRow
<1> QED
  BY <1>1 DEF SingletonInit, SingletonInv, SingletonTypeOK, OneTask

\* The steps that leave harmony_task and the row alone.
LEMMA OfferingKeepsInv ==
    ASSUME SingletonInv, NEW n \in Offerers, UNCHANGED <<present, singleton>>,
           IAmBored(n) \/ UpsertConflict(n) \/ AddTaskFails(n) \/ SingletonRunNowPoller(n) \/ RestartOffering(n)
               \/ NodeIntervalPasses(n)
    PROVE  SingletonInv'
<1> USE SingletonAssumption DEF SingletonInv, SingletonTypeOK, OneTask, GoTo, NoSingleton, SingletonRow
<1>1. CASE IAmBored(n)
  BY <1>1 DEF IAmBored
<1>2. CASE UpsertConflict(n)
  BY <1>2 DEF UpsertConflict
<1>3. CASE AddTaskFails(n)
  BY <1>3 DEF AddTaskFails
<1>4. CASE SingletonRunNowPoller(n)
  BY <1>4 DEF SingletonRunNowPoller
<1>5. CASE RestartOffering(n)
  BY <1>5 DEF RestartOffering
<1>6. CASE NodeIntervalPasses(n)
  BY <1>6 DEF NodeIntervalPasses
<1> QED
  BY <1>1, <1>2, <1>3, <1>4, <1>5, <1>6

LEMMA SelectRowKeepsInv ==
    ASSUME SingletonInv, NEW n \in Offerers, SelectRow(n)
    PROVE  SingletonInv'
<1>1. ShouldRun(singleton) => singleton.task = NoTask
  BY DEF ShouldRun, TaskIsRunning, SingletonInv
<1> QED
  BY <1>1 DEF SingletonInv, SingletonTypeOK, OneTask, SelectRow, GoTo, NoSingleton, SingletonRow

LEMMA UpsertRowKeepsInv ==
    ASSUME SingletonInv, NEW n \in Offerers, NEW t \in TaskIds, UpsertRow(n, t)
    PROVE  SingletonInv'
<1>1. singleton.task = NoTask /\ present = {}
  BY SingletonAssumption DEF UpsertRow, SingletonInv, SingletonTypeOK, OneTask
<1>2. present' = {t} /\ singleton' = [exists |-> TRUE, runNow |-> FALSE, due |-> FALSE, task |-> t]
  BY <1>1 DEF UpsertRow, TaskIsRunning
<1> QED
  BY <1>2, SingletonAssumption
  DEF UpsertRow, SingletonInv, SingletonTypeOK, OneTask, GoTo, NoSingleton, SingletonRow

LEMMA SingletonStepKeepsInv == SingletonInv /\ [SingletonNext]_singletonVars => SingletonInv'
<1> SUFFICES ASSUME SingletonInv, [SingletonNext]_singletonVars
             PROVE  SingletonInv'
  OBVIOUS
<1>1. ASSUME NEW n \in Offerers,
             IAmBored(n) \/ UpsertConflict(n) \/ AddTaskFails(n) \/ SingletonRunNowPoller(n) \/ RestartOffering(n)
                 \/ NodeIntervalPasses(n)
      PROVE  SingletonInv'
  BY <1>1, OfferingKeepsInv
  DEF IAmBored, UpsertConflict, AddTaskFails, SingletonRunNowPoller, RestartOffering, NodeIntervalPasses
<1>2. CASE SingletonRunNow
  BY <1>2 DEF SingletonRunNow, SingletonInv, SingletonTypeOK, OneTask, SingletonRow, offerVars
<1>3. ASSUME NEW t \in TaskIds, TaskEnds(t)
      PROVE  SingletonInv'
  BY <1>3, SingletonAssumption DEF TaskEnds, SingletonInv, SingletonTypeOK, OneTask, SingletonRow, offerVars
<1>4. CASE RunIntervalPasses
  BY <1>4 DEF RunIntervalPasses, SingletonInv, SingletonTypeOK, OneTask, SingletonRow
<1>5. CASE UNCHANGED singletonVars
  BY <1>5 DEF SingletonInv, SingletonTypeOK, OneTask, singletonVars, offerVars
<1> QED
  BY <1>1, <1>2, <1>3, <1>4, <1>5, SelectRowKeepsInv, UpsertRowKeepsInv DEF SingletonNext

\* The cluster never has two tasks of a singleton type, whichever nodes offer
\* it at the same time and however their transactions interleave
\* (SingletonTaskAdder).
THEOREM SingletonsAreSingle == SingletonSpec => []OneTask
<1>1. SingletonInv => OneTask
  BY DEF SingletonInv
<1> QED
  BY <1>1, SingletonInitInv, SingletonStepKeepsInv, PTL DEF SingletonSpec

\* The row, the transactions and the flags of SingletonTaskAdder keep their types.
THEOREM SingletonTypesHold == SingletonSpec => []SingletonTypeOK
<1>1. SingletonInv => SingletonTypeOK
  BY DEF SingletonInv
<1> QED
  BY <1>1, SingletonInitInv, SingletonStepKeepsInv, PTL DEF SingletonSpec

-----------------------------------------------------------------------------
(* The cached piece reader.                                                *)

\* The requests that have a reference to the reader.
Holders(r) == {q \in Requests : request[q].r = r}

\* The request is the one that fills the reader in.
Opens(q) == request[q].at \in {"resolve", "publish", "fail"}

\* A reader that was made is in the cache, on its way out, or expired.
CacheOK(r) ==
    /\ entry = r \/ r \in evicted => reader[r].made /\ ~reader[r].expired
    /\ reader[r].made => entry = r \/ r \in evicted \/ reader[r].expired
    /\ ~reader[r].made => reader[r] = NoReader

\* When a reader is open, and that all who hold it are counted.
OpenOK(r) ==
    /\ reader[r].ready => reader[r].failed \/ reader[r].set
    /\ reader[r].set /\ ~reader[r].open => reader[r].expired /\ reader[r].refs <= 0
    /\ reader[r].expired /\ reader[r].refs <= 0 => ~reader[r].open

CountOK(r) == reader[r].refs >= Cardinality(Holders(r))

\* What a request may rely on of the reader it holds.
RequestOK(q) ==
    /\ request[q].r = 0 <=> request[q].at \in {"rest", "look"}
    /\ request[q].r # 0 => reader[request[q].r].made
    /\ Opens(q) => ~reader[request[q].r].ready
    /\ request[q].at \in {"publish", "use"} => reader[request[q].r].open

OneOpener == \A p, q \in Requests : Opens(p) /\ Opens(q) /\ request[p].r = request[q].r => p = q

ReaderInv ==
    /\ ReaderTypeOK
    /\ entry # 0 => entry \notin evicted
    /\ \A r \in Readers : CacheOK(r) /\ OpenOK(r) /\ CountOK(r)
    /\ \A q \in Requests : RequestOK(q)
    /\ OneOpener

LEMMA HoldersFinite ==
    ASSUME NEW r
    PROVE  IsFiniteSet(Holders(r)) /\ Cardinality(Holders(r)) \in Nat
  BY ReaderAssumption, FS_Subset, FS_CardinalityType DEF Holders

\* A request that holds a reader is counted.
LEMMA HolderCounts ==
    ASSUME ReaderInv, NEW q \in Requests, NEW r, request[q].r = r, r # 0
    PROVE  /\ r \in Readers
           /\ reader[r].refs >= 1
           /\ \A p \in Requests : p # q /\ request[p].r = r => reader[r].refs >= 2
<1>1. r \in Readers /\ reader[r].refs \in Int /\ reader[r].refs >= Cardinality(Holders(r))
  BY DEF ReaderInv, ReaderTypeOK, SectionReader, RequestState, CountOK
<1>2. q \in Holders(r)
  BY DEF Holders
<1>3. Cardinality(Holders(r) \ {q}) = Cardinality(Holders(r)) - 1
  BY <1>2, HoldersFinite, FS_RemoveElement
<1>4. /\ IsFiniteSet(Holders(r) \ {q})
      /\ Cardinality(Holders(r) \ {q}) \in Nat
      /\ Cardinality(Holders(r)) \in Nat
  BY HoldersFinite, FS_RemoveElement, FS_CardinalityType
<1>5. ASSUME NEW p \in Requests, p # q, request[p].r = r
      PROVE  Cardinality(Holders(r) \ {q}) >= 1
  <2>1. p \in Holders(r) \ {q}
    BY <1>5 DEF Holders
  <2> QED
    BY <2>1, <1>4, FS_EmptySet
<1> QED
  BY <1>1, <1>3, <1>4, <1>5

\* A step that changes no request's reader changes no count of holders.
LEMMA SameHolders ==
    ASSUME \A q \in Requests : request'[q].r = request[q].r
    PROVE  \A r : Cardinality(Holders(r))' = Cardinality(Holders(r))
<1> SUFFICES ASSUME NEW r
             PROVE  Cardinality(Holders(r))' = Cardinality(Holders(r))
  OBVIOUS
<1>1. Holders(r)' = Holders(r)
  BY DEF Holders
<1> QED
  BY <1>1

\* Request q takes the reader s.
LEMMA TakeReader ==
    ASSUME NEW q \in Requests, NEW s, request[q].r # s,
           request'[q].r = s, \A p \in Requests : p # q => request'[p].r = request[p].r
    PROVE  /\ Cardinality(Holders(s))' = Cardinality(Holders(s)) + 1
           /\ \A r : r # s /\ r # request[q].r => Cardinality(Holders(r))' = Cardinality(Holders(r))
<1>1. Holders(s)' = Holders(s) \cup {q} /\ q \notin Holders(s)
  BY DEF Holders
<1>2. \A r : r # s /\ r # request[q].r => Holders(r)' = Holders(r)
  BY DEF Holders
<1>3. Cardinality(Holders(s) \cup {q}) = Cardinality(Holders(s)) + 1
  BY <1>1, HoldersFinite, FS_AddElement
<1> QED
  BY <1>1, <1>2, <1>3

\* Request q gives the reader s back.
LEMMA GiveReader ==
    ASSUME NEW q \in Requests, NEW s, request[q].r = s, s # 0,
           request'[q].r = 0, \A p \in Requests : p # q => request'[p].r = request[p].r
    PROVE  /\ Cardinality(Holders(s))' = Cardinality(Holders(s)) - 1
           /\ \A r : r # 0 /\ r # s => Cardinality(Holders(r))' = Cardinality(Holders(r))
<1>1. Holders(s)' = Holders(s) \ {q} /\ q \in Holders(s)
  BY DEF Holders
<1>2. \A r : r # 0 /\ r # s => Holders(r)' = Holders(r)
  BY DEF Holders
<1>3. Cardinality(Holders(s) \ {q}) = Cardinality(Holders(s)) - 1
  BY <1>1, HoldersFinite, FS_RemoveElement
<1> QED
  BY <1>1, <1>2, <1>3

\* The typing facts of a state in which ReaderTypeOK holds.
LEMMA ReaderTypes ==
    ASSUME ReaderTypeOK
    PROVE  /\ \A r \in Readers : reader[r] \in SectionReader /\ reader[r].refs \in Int
           /\ \A q \in Requests : request[q] \in RequestState /\ request[q].r \in Readers \cup {0}
           /\ 0 \notin Readers
  BY ReaderAssumption DEF ReaderTypeOK, SectionReader, RequestState, Readers

LEMMA NoReaderType == NoReader \in SectionReader
  BY DEF NoReader, SectionReader

LEMMA ReaderInitInv == ReaderInit => ReaderInv
<1> SUFFICES ASSUME ReaderInit
             PROVE  ReaderInv
  OBVIOUS
<1>1. ReaderTypeOK
  BY NoReaderType DEF ReaderTypeOK, ReaderInit, Resting, RequestState
<1>2. \A r \in Readers : CacheOK(r) /\ OpenOK(r)
  BY <1>1, ReaderTypes DEF CacheOK, OpenOK, ReaderInit, NoReader
<1>3. \A r \in Readers : Holders(r) = {}
  BY <1>1, ReaderTypes DEF Holders, ReaderInit, Resting
<1>4. \A r \in Readers : CountOK(r)
  <2>1. \A r \in Readers : reader[r].refs = 0
    BY DEF ReaderInit, NoReader
  <2> QED
    BY <1>3, <2>1, FS_EmptySet DEF CountOK
<1>5. \A q \in Requests : RequestOK(q)
  BY DEF RequestOK, Opens, ReaderInit, Resting
<1>6. OneOpener
  BY DEF OneOpener, Opens, ReaderInit, Resting
<1> QED
  BY <1>1, <1>2, <1>4, <1>5, <1>6 DEF ReaderInv, ReaderInit

\* What a step leaves alone: the readers other than s ...
LEMMA OtherReaders ==
    ASSUME ReaderInv, NEW s,
           \A r \in Readers : r # s => /\ reader'[r] = reader[r]
                                       /\ entry' = r \/ r \in evicted' <=> entry = r \/ r \in evicted
    PROVE  \A r \in Readers : r # s => CacheOK(r)' /\ OpenOK(r)'
  BY DEF ReaderInv, CacheOK, OpenOK

\* ... the requests that hold another reader ...
LEMMA OtherRequests ==
    ASSUME ReaderInv, NEW s, NEW p \in Requests, request'[p] = request[p], request[p].r # s,
           \A r \in Readers : r # s => reader'[r] = reader[r]
    PROVE  RequestOK(p)'
<1>1. request[p].r \in Readers => reader'[request[p].r] = reader[request[p].r]
  OBVIOUS
<1>2. request[p].r \notin Readers => request[p].r = 0
  BY ReaderTypes DEF ReaderInv
<1> QED
  BY <1>1, <1>2 DEF ReaderInv, RequestOK, Opens

\* ... and those that hold s, if it stays what it was to them.
LEMMA FellowRequests ==
    ASSUME ReaderInv, NEW s \in Readers, NEW p \in Requests, request'[p] = request[p], request[p].r = s,
           reader'[s].made,
           reader'[s].ready /\ ~reader[s].ready => ~Opens(p),
           reader[s].open => reader'[s].open
    PROVE  RequestOK(p)'
  BY ReaderTypes DEF ReaderInv, RequestOK, Opens

\* At most one request opens a reader, if no request but q begins to.
LEMMA StillOneOpener ==
    ASSUME ReaderInv, NEW q \in Requests, \A p \in Requests : p # q => request'[p] = request[p],
           Opens(q)' => \A p \in Requests : p # q /\ Opens(p) => request[p].r # request'[q].r
    PROVE  OneOpener'
  BY DEF ReaderInv, OneOpener, Opens

\* A request asks, before it holds a reader.
LEMMA AskKeepsInv ==
    ASSUME ReaderInv, NEW q \in Requests, AskErrorCache(q)
    PROVE  ReaderInv'
<1>1. /\ request[q].r = 0 /\ request'[q] = [at |-> "look", r |-> 0]
      /\ \A p \in Requests : p # q => request'[p] = request[p]
      /\ UNCHANGED <<entry, errCached, reader, evicted>>
  BY DEF AskErrorCache, At, Resting, ReaderInv, ReaderTypeOK
<1>2. ReaderTypeOK'
  BY DEF AskErrorCache, At, ReaderInv, ReaderTypeOK, RequestState
<1>3. \A r \in Readers : CacheOK(r)' /\ OpenOK(r)' /\ CountOK(r)'
  <2>1. \A r : Cardinality(Holders(r))' = Cardinality(Holders(r))
    BY <1>1, SameHolders
  <2> QED
    BY <1>1, <2>1 DEF ReaderInv, CacheOK, OpenOK, CountOK
<1>4. \A p \in Requests : RequestOK(p)'
  BY <1>1 DEF ReaderInv, RequestOK, Opens
<1>5. OneOpener'
  BY <1>1, StillOneOpener DEF Opens
<1> QED
  BY <1>1, <1>2, <1>3, <1>4, <1>5 DEF ReaderInv

\* LookUp makes a reader ...
LEMMA MakeReaderKeepsInv ==
    ASSUME ReaderInv, NEW q \in Requests, LookUp(q), entry = 0
    PROVE  ReaderInv'
<1>1. PICK s \in Readers :
         /\ ~reader[s].made
         /\ reader' = [reader EXCEPT ![s] = NewReader]
         /\ entry' = s
         /\ request' = [request EXCEPT ![q] = [at |-> "resolve", r |-> s]]
  BY DEF LookUp
<1>2. /\ NewReader \in SectionReader /\ NewReader.made /\ NewReader.refs = 1
      /\ ~NewReader.open /\ ~NewReader.set /\ ~NewReader.ready /\ ~NewReader.expired
  BY DEF NewReader, SectionReader
<1>3. /\ request[q].r = 0 /\ s # 0 /\ request'[q] = [at |-> "resolve", r |-> s]
      /\ \A p \in Requests : p # q => request'[p] = request[p]
      /\ reader'[s] = NewReader
      /\ \A r \in Readers : r # s => reader'[r] = reader[r]
      /\ UNCHANGED <<errCached, evicted>>
  BY <1>1, ReaderTypes DEF LookUp, ReaderInv, ReaderTypeOK, RequestOK
<1>4. ReaderTypeOK'
  BY <1>1, <1>2, <1>3 DEF ReaderInv, ReaderTypeOK, RequestState
<1>5. s \notin evicted /\ \A p \in Requests : request[p].r # s
  BY <1>1, <1>3 DEF ReaderInv, RequestOK, CacheOK
<1>6. CountOK(s)'
  <2>1. Cardinality(Holders(s))' = Cardinality(Holders(s)) + 1
    BY <1>3, TakeReader
  <2>2. Holders(s) = {}
    BY <1>5 DEF Holders
  <2> QED
    BY <2>1, <2>2, <1>2, <1>3, FS_EmptySet DEF CountOK
<1>7. \A r \in Readers : r # s => CountOK(r)'
  BY <1>3, TakeReader, ReaderTypes DEF ReaderInv, CountOK
<1>8. CacheOK(s)' /\ OpenOK(s)'
  BY <1>1, <1>2, <1>3 DEF CacheOK, OpenOK
<1>9. \A r \in Readers : r # s => CacheOK(r)' /\ OpenOK(r)'
  BY <1>1, <1>3, ReaderTypes, OtherReaders DEF ReaderInv
<1>10. \A p \in Requests : RequestOK(p)'
  <2>1. RequestOK(q)'
    BY <1>2, <1>3 DEF RequestOK, Opens
  <2> QED
    BY <2>1, <1>3, <1>5, OtherRequests
<1>11. OneOpener'
  BY <1>3, <1>5, StillOneOpener
<1> QED
  BY <1>1, <1>3, <1>4, <1>5, <1>6, <1>7, <1>8, <1>9, <1>10, <1>11 DEF ReaderInv

\* ... or takes a reference to the one in the cache.
LEMMA ShareReaderKeepsInv ==
    ASSUME ReaderInv, NEW q \in Requests, LookUp(q), entry # 0
    PROVE  ReaderInv'
<1>1. PICK s \in Readers : s = entry
  BY DEF ReaderInv, ReaderTypeOK
<1> DEFINE new == [reader[s] EXCEPT !.refs = @ + 1]
<1>2. /\ new \in SectionReader /\ new.made = reader[s].made /\ new.refs = reader[s].refs + 1
      /\ new.open = reader[s].open /\ new.set = reader[s].set /\ new.ready = reader[s].ready
      /\ new.expired = reader[s].expired /\ new.failed = reader[s].failed
  BY DEF ReaderInv, ReaderTypeOK, SectionReader
<1>3. /\ request[q].r = 0 /\ s # 0 /\ request'[q] = [at |-> "wait", r |-> s]
      /\ \A p \in Requests : p # q => request'[p] = request[p]
      /\ reader'[s] = new
      /\ \A r \in Readers : r # s => reader'[r] = reader[r]
      /\ UNCHANGED <<entry, errCached, evicted>>
  BY <1>1 DEF LookUp, ReaderInv, ReaderTypeOK, RequestOK
<1>4. reader' = [reader EXCEPT ![s] = new] /\ request' = [request EXCEPT ![q] = [at |-> "wait", r |-> s]]
  BY <1>1 DEF LookUp
<1> HIDE DEF new
<1>5. ReaderTypeOK'
  BY <1>2, <1>3, <1>4 DEF ReaderInv, ReaderTypeOK, RequestState
<1>6. reader[s].made /\ ~reader[s].expired /\ reader[s].refs \in Int
  BY <1>1, ReaderTypes DEF ReaderInv, CacheOK
<1>7. \A r \in Readers : CountOK(r)'
  <2>1. /\ Cardinality(Holders(s))' = Cardinality(Holders(s)) + 1
        /\ Cardinality(Holders(s)) \in Nat
        /\ \A r \in Readers : r # s => Cardinality(Holders(r))' = Cardinality(Holders(r))
    BY <1>3, TakeReader, HoldersFinite, ReaderTypes DEF ReaderInv
  <2>2. CountOK(s)'
    BY <2>1, <1>2, <1>3, <1>6 DEF ReaderInv, CountOK
  <2> QED
    BY <2>1, <2>2, <1>3 DEF ReaderInv, CountOK
<1>8. CacheOK(s)' /\ OpenOK(s)'
  BY <1>1, <1>2, <1>3, <1>6 DEF ReaderInv, CacheOK, OpenOK
<1>9. \A r \in Readers : r # s => CacheOK(r)' /\ OpenOK(r)'
  BY <1>3, OtherReaders
<1>10. \A p \in Requests : RequestOK(p)'
  <2>1. RequestOK(q)'
    <3>1. reader'[s].made /\ request'[q].r = s /\ request'[q].at = "wait"
      <4>1. reader'[s].made
        BY <1>2, <1>3, <1>6, Zenon
      <4> QED
        BY <4>1, <1>3
    <3> QED
      BY <3>1, <1>3 DEF RequestOK, Opens
  <2>2. reader'[s].made /\ (reader'[s].ready <=> reader[s].ready) /\ (reader'[s].open <=> reader[s].open)
    BY <1>2, <1>3, <1>6
  <2> QED
    BY <2>1, <2>2, <1>3, OtherRequests, FellowRequests
<1>11. OneOpener'
  BY <1>3, StillOneOpener DEF Opens
<1> QED
  BY <1>3, <1>5, <1>7, <1>8, <1>9, <1>10, <1>11 DEF ReaderInv

\* A step in which request q goes on with the reader s that it holds, and only
\* makes it more: open, set, failed or ready.
LEMMA HolderGoesOn ==
    ASSUME ReaderInv, NEW q \in Requests, NEW s \in Readers, request[q].r = s,
           NEW l \in {"publish", "fail", "use"}, At(q, l), Opens(q)' => Opens(q),
           NEW x \in SectionReader, reader' = [reader EXCEPT ![s] = x],
           x.refs = reader[s].refs, x.made <=> reader[s].made, x.expired <=> reader[s].expired,
           reader[s].open => x.open,
           x.ready /\ ~reader[s].ready => Opens(q),
           x.ready => l = "use" /\ (x.failed \/ x.set),
           l \in {"publish", "use"} => x.open,
           l = "fail" => x = reader[s],
           UNCHANGED <<entry, evicted>>, errCached' \in BOOLEAN
    PROVE  ReaderInv'
<1>1. s # 0 /\ reader[s].refs \in Int /\ reader[s].refs >= 1 /\ reader[s].made
  BY HolderCounts, ReaderTypes DEF ReaderInv, RequestOK
<1>2. /\ request'[q] = [request[q] EXCEPT !.at = l] /\ request[q] \in RequestState
      /\ \A p \in Requests : p # q => request'[p] = request[p]
      /\ reader'[s] = x
      /\ \A r \in Readers : r # s => reader'[r] = reader[r]
  BY DEF At, ReaderInv, ReaderTypeOK
<1>3. request'[q].at = l /\ request'[q].r = s
  BY <1>2 DEF RequestState
<1>4. ReaderTypeOK'
  BY DEF At, ReaderInv, ReaderTypeOK, RequestState
<1>5. \A r \in Readers : CountOK(r)'
  <2>1. \A r : Cardinality(Holders(r))' = Cardinality(Holders(r))
    BY <1>2, <1>3, SameHolders
  <2>2. \A r \in Readers : reader'[r].refs = reader[r].refs
    BY <1>2
  <2> QED
    BY <2>1, <2>2 DEF ReaderInv, CountOK
<1>6. CacheOK(s)'
  BY <1>1, <1>2 DEF ReaderInv, CacheOK
<1>7. OpenOK(s)'
  BY <1>1, <1>2 DEF ReaderInv, OpenOK
<1>8. \A r \in Readers : r # s => CacheOK(r)' /\ OpenOK(r)'
  BY <1>2, OtherReaders
<1>9. RequestOK(q)'
  BY <1>1, <1>2, <1>3 DEF RequestOK, Opens
<1>10. ASSUME NEW p \in Requests, p # q
       PROVE  RequestOK(p)'
  <2>1. CASE request[p].r = s
    <3>1. reader'[s].ready /\ ~reader[s].ready => ~Opens(p)
      BY <2>1, <1>2, <1>10 DEF ReaderInv, OneOpener
    <3> QED
      BY <2>1, <3>1, <1>1, <1>2, <1>10, FellowRequests
  <2>2. CASE request[p].r # s
    BY <2>2, <1>2, <1>10, OtherRequests
  <2> QED
    BY <2>1, <2>2
<1>11. OneOpener'
  <2>1. Opens(q)' => \A p \in Requests : p # q /\ Opens(p) => request[p].r # request'[q].r
    BY <1>3 DEF ReaderInv, OneOpener
  <2> QED
    BY <2>1, <1>2, StillOneOpener
<1> QED
  BY <1>4, <1>5, <1>6, <1>7, <1>8, <1>9, <1>10, <1>11 DEF ReaderInv

LEMMA OpenPieceKeepsInv ==
    ASSUME ReaderInv, NEW q \in Requests, OpenPiece(q)
    PROVE  ReaderInv'
<1>1. PICK s \in Readers : request[q].r = s
  BY ReaderTypes DEF OpenPiece, ReaderInv, RequestOK
<1> DEFINE x == [reader[s] EXCEPT !.open = TRUE]
<1>2. reader[s] \in SectionReader /\ ~reader[s].ready
  BY <1>1, ReaderTypes DEF OpenPiece, ReaderInv, RequestOK, Opens
<1>3. x \in SectionReader
  BY <1>2, Zenon DEF SectionReader
<1>4. /\ x.made = reader[s].made /\ x.refs = reader[s].refs /\ x.open = TRUE
      /\ x.ready = reader[s].ready /\ x.expired = reader[s].expired
  BY <1>2 DEF SectionReader
<1>5. reader' = [reader EXCEPT ![s] = x]
  BY <1>1 DEF OpenPiece
<1> HIDE DEF x
<1>6. x.open /\ ~x.ready /\ (x.made <=> reader[s].made) /\ (x.expired <=> reader[s].expired)
  BY <1>2, <1>4, Zenon
<1>7. At(q, "publish") /\ Opens(q) /\ UNCHANGED <<entry, evicted>> /\ errCached' \in BOOLEAN
  BY DEF OpenPiece, Opens, ReaderInv, ReaderTypeOK
<1> QED
  BY <1>1, <1>3, <1>4, <1>5, <1>6, <1>7, HolderGoesOn

LEMMA PublishKeepsInv ==
    ASSUME ReaderInv, NEW q \in Requests, Publish(q)
    PROVE  ReaderInv'
<1>1. PICK s \in Readers : request[q].r = s
  BY ReaderTypes DEF Publish, ReaderInv, RequestOK
<1> DEFINE x == [reader[s] EXCEPT !.set = TRUE, !.ready = TRUE]
<1>2. reader[s] \in SectionReader /\ reader[s].open
  BY <1>1, ReaderTypes DEF Publish, ReaderInv, RequestOK, Opens
<1>3. x \in SectionReader
  BY <1>2, Zenon DEF SectionReader
<1>4. /\ x.made = reader[s].made /\ x.refs = reader[s].refs /\ x.open = reader[s].open
      /\ x.ready = TRUE /\ x.set = TRUE /\ x.expired = reader[s].expired
  BY <1>2 DEF SectionReader
<1>5. reader' = [reader EXCEPT ![s] = x]
  BY <1>1 DEF Publish
<1> HIDE DEF x
<1>6. x.open /\ x.ready /\ x.set /\ (x.made <=> reader[s].made) /\ (x.expired <=> reader[s].expired)
  BY <1>2, <1>4, Zenon
<1>7. At(q, "use") /\ Opens(q) /\ UNCHANGED <<entry, evicted>> /\ errCached' \in BOOLEAN
  BY DEF Publish, Opens, ReaderInv, ReaderTypeOK
<1> QED
  BY <1>1, <1>3, <1>4, <1>5, <1>6, <1>7, HolderGoesOn

LEMMA OpenFailsKeepsInv ==
    ASSUME ReaderInv, NEW q \in Requests, OpenFails(q)
    PROVE  ReaderInv'
<1>1. PICK s \in Readers : request[q].r = s
  BY ReaderTypes DEF OpenFails, ReaderInv, RequestOK
<1>2. reader[s] \in SectionReader /\ ~reader[s].ready
  BY <1>1, ReaderTypes DEF OpenFails, ReaderInv, RequestOK, Opens
<1>3. reader' = [reader EXCEPT ![s] = reader[s]]
  BY DEF OpenFails, ReaderInv, ReaderTypeOK
<1>4. At(q, "fail") /\ Opens(q) /\ UNCHANGED <<entry, evicted>> /\ errCached' \in BOOLEAN
  BY DEF OpenFails, Opens, ReaderInv, ReaderTypeOK
<1> QED
  BY <1>1, <1>2, <1>3, <1>4, HolderGoesOn

\* A request that has waited finds the reader open: it is set, and the request's
\* own reference has kept it from being closed.
LEMMA WaitEndsKeepsInv ==
    ASSUME ReaderInv, NEW q \in Requests, ReaderReady(q), ~reader[request[q].r].failed
    PROVE  ReaderInv'
<1>1. PICK s \in Readers : request[q].r = s
  BY ReaderTypes DEF ReaderReady, ReaderInv, RequestOK
<1>2. reader[s] \in SectionReader /\ reader[s].ready /\ reader[s].set
  BY <1>1, ReaderTypes DEF ReaderReady, ReaderInv, OpenOK
<1>3. reader[s].open
  <2>1. reader[s].refs >= 1 /\ reader[s].refs \in Int
    BY <1>1, HolderCounts, ReaderTypes DEF ReaderInv
  <2> QED
    BY <2>1, <1>2 DEF ReaderInv, OpenOK
<1>4. reader' = [reader EXCEPT ![s] = reader[s]]
  BY DEF ReaderReady, ReaderInv, ReaderTypeOK
<1>5. At(q, "use") /\ UNCHANGED <<entry, evicted>> /\ errCached' \in BOOLEAN
  BY DEF ReaderReady, ReaderInv, ReaderTypeOK
<1>6. ~Opens(q)'
  BY <1>5 DEF Opens, At, ReaderInv, ReaderTypeOK, RequestState
<1> QED
  BY <1>1, <1>2, <1>3, <1>4, <1>5, <1>6, HolderGoesOn

\* A request other than q holds the reader s.
Shared(q, s) == \E p \in Requests : p # q /\ request[p].r = s

\* A step in which the entry stays, or goes to the evicted.
EntryKept ==
    /\ entry' \in Readers \cup {0} /\ evicted' \subseteq Readers
    /\ entry' # 0 => entry' \notin evicted'
    /\ \A r \in Readers : entry' = r \/ r \in evicted' <=> entry = r \/ r \in evicted

\* A step in which request q leaves the reader s.
LEMMA HolderLeaves ==
    ASSUME ReaderInv, NEW q \in Requests, NEW s \in Readers, request[q].r = s,
           request' = [request EXCEPT ![q] = Resting],
           NEW x \in SectionReader, reader' = [reader EXCEPT ![s] = x],
           x.refs >= reader[s].refs - 1, x.made <=> reader[s].made, x.expired <=> reader[s].expired,
           OpenOK(s)',
           Shared(q, s) => (reader[s].open => x.open),
           x.ready /\ ~reader[s].ready => Opens(q),
           EntryKept,
           UNCHANGED errCached
    PROVE  ReaderInv'
<1>1. s # 0 /\ reader[s].refs \in Int /\ x.refs \in Int /\ reader[s].made
  BY ReaderTypes DEF ReaderInv, RequestOK, SectionReader
<1>2. /\ request'[q] = Resting
      /\ \A p \in Requests : p # q => request'[p] = request[p]
      /\ reader'[s] = x
      /\ \A r \in Readers : r # s => reader'[r] = reader[r]
  BY DEF ReaderInv, ReaderTypeOK
<1>3. Resting.at = "rest" /\ Resting.r = 0 /\ Resting \in RequestState
  BY DEF Resting, RequestState
<1>4. ReaderTypeOK'
  BY <1>3 DEF ReaderInv, ReaderTypeOK, EntryKept
<1>5. \A r \in Readers : CountOK(r)'
  <2>1. /\ Cardinality(Holders(s))' = Cardinality(Holders(s)) - 1
        /\ \A r : r # 0 /\ r # s => Cardinality(Holders(r))' = Cardinality(Holders(r))
    BY <1>1, <1>2, <1>3, GiveReader
  <2>2. CountOK(s)'
    <3>1. Cardinality(Holders(s)) \in Nat /\ reader[s].refs >= Cardinality(Holders(s))
      BY HoldersFinite DEF ReaderInv, CountOK
    <3> QED
      BY <2>1, <3>1, <1>1, <1>2 DEF CountOK
  <2>3. ASSUME NEW r \in Readers, r # s
        PROVE  CountOK(r)'
    <3>1. r # 0
      BY ReaderTypes DEF ReaderInv
    <3> QED
      BY <2>1, <2>3, <3>1, <1>2 DEF ReaderInv, CountOK
  <2> QED
    BY <2>2, <2>3
<1>6. CacheOK(s)'
  BY <1>1, <1>2 DEF ReaderInv, CacheOK, EntryKept
<1>7. \A r \in Readers : r # s => CacheOK(r)' /\ OpenOK(r)'
  BY <1>2, OtherReaders DEF EntryKept
<1>8. RequestOK(q)' /\ ~Opens(q)'
  BY <1>2, <1>3 DEF RequestOK, Opens
<1>9. ASSUME NEW p \in Requests, p # q
       PROVE  RequestOK(p)'
  <2>1. CASE request[p].r = s
    <3>1. Shared(q, s) /\ (Opens(q) => ~Opens(p))
      BY <2>1, <1>9 DEF Shared, ReaderInv, OneOpener
    <3> QED
      BY <2>1, <3>1, <1>1, <1>2, <1>9, FellowRequests
  <2>2. CASE request[p].r # s
    BY <2>2, <1>2, <1>9, OtherRequests
  <2> QED
    BY <2>1, <2>2
<1>10. OneOpener'
  BY <1>2, <1>8, StillOneOpener
<1> QED
  BY <1>4, <1>5, <1>6, <1>7, <1>8, <1>9, <1>10 DEF ReaderInv, EntryKept

\* The entry that goes is noted among the evicted.
LEMMA EntryGoes ==
    ASSUME ReaderInv, entry' = 0, evicted' = (IF entry = 0 THEN evicted ELSE evicted \cup {entry})
    PROVE  EntryKept
  BY ReaderTypes DEF ReaderInv, ReaderTypeOK, EntryKept

LEMMA RemoveEntryKeepsInv ==
    ASSUME ReaderInv, NEW q \in Requests, RemoveEntry(q)
    PROVE  ReaderInv'
<1>1. PICK s \in Readers : request[q].r = s
  BY ReaderTypes DEF RemoveEntry, ReaderInv, RequestOK
<1> DEFINE x == [reader[s] EXCEPT !.failed = TRUE, !.ready = TRUE]
<1>2. reader[s] \in SectionReader /\ reader[s].refs \in Int /\ ~reader[s].ready
  BY <1>1, ReaderTypes DEF RemoveEntry, ReaderInv, RequestOK, Opens
<1>3. x \in SectionReader
  BY <1>2, Zenon DEF SectionReader
<1>4. /\ x.made = reader[s].made /\ x.refs = reader[s].refs /\ x.open = reader[s].open
      /\ x.set = reader[s].set /\ x.failed = TRUE /\ x.expired = reader[s].expired
  BY <1>2 DEF SectionReader
<1>5. reader' = [reader EXCEPT ![s] = x]
  BY <1>1 DEF RemoveEntry
<1> HIDE DEF x
<1>6. /\ (x.open <=> reader[s].open) /\ (x.set <=> reader[s].set) /\ x.failed
      /\ (x.made <=> reader[s].made) /\ (x.expired <=> reader[s].expired)
  BY <1>2, <1>4, Zenon
<1>7. OpenOK(s)'
  <2>1. reader'[s] = x
    BY <1>5 DEF ReaderInv, ReaderTypeOK
  <2> QED
    BY <2>1, <1>4, <1>6 DEF ReaderInv, OpenOK
<1>8. request' = [request EXCEPT ![q] = Resting] /\ Opens(q) /\ UNCHANGED errCached
  BY DEF RemoveEntry, Opens
<1>9. EntryKept
  BY EntryGoes DEF RemoveEntry
<1>10. x.refs >= reader[s].refs - 1
  BY <1>2, <1>4
<1> QED
  BY <1>1, <1>3, <1>5, <1>6, <1>7, <1>8, <1>9, <1>10, HolderLeaves

\* Close, by a request that is done or whose reader has failed.
LEMMA CloseKeepsInv ==
    ASSUME ReaderInv, NEW q \in Requests, request[q].at \in {"wait", "use"}, Close(request[q].r),
           request' = [request EXCEPT ![q] = Resting], UNCHANGED <<entry, errCached, evicted>>
    PROVE  ReaderInv'
<1>1. PICK s \in Readers : request[q].r = s
  BY ReaderTypes DEF ReaderInv, RequestOK
<1>2. /\ reader[s] \in SectionReader /\ reader[s].refs \in Int /\ reader[s].refs >= 1
      /\ \A p \in Requests : p # q /\ request[p].r = s => reader[s].refs >= 2
  <2>1. s # 0
    BY ReaderTypes DEF ReaderInv
  <2> QED
    BY <2>1, <1>1, HolderCounts, ReaderTypes DEF ReaderInv
<1>3. EntryKept
  BY DEF ReaderInv, ReaderTypeOK, EntryKept
<1>4. CASE reader[s].refs = 1 /\ reader[s].expired
  <2> DEFINE x == [reader[s] EXCEPT !.refs = 0, !.cancelled = TRUE, !.open = FALSE]
  <2>1. x \in SectionReader
    <3>1. 0 \in Int
      OBVIOUS
    <3> QED
      BY <1>2, <3>1, Zenon DEF SectionReader
  <2>2. /\ x.made = reader[s].made /\ x.refs = 0 /\ x.open = FALSE /\ x.failed = reader[s].failed
        /\ x.set = reader[s].set /\ x.expired = reader[s].expired /\ x.ready = reader[s].ready
    BY <1>2 DEF SectionReader
  <2>3. reader' = [reader EXCEPT ![s] = x]
    BY <1>1, <1>4 DEF Close
  <2> HIDE DEF x
  <2>4. /\ ~x.open /\ (x.set <=> reader[s].set) /\ (x.failed <=> reader[s].failed)
        /\ (x.made <=> reader[s].made) /\ (x.expired <=> reader[s].expired) /\ (x.ready <=> reader[s].ready)
    BY <2>2, Zenon
  <2>5. OpenOK(s)'
    <3>1. reader'[s] = x
      BY <2>3 DEF ReaderInv, ReaderTypeOK
    <3> QED
      BY <3>1, <2>2, <2>4, <1>4 DEF ReaderInv, OpenOK
  <2>6. x.refs >= reader[s].refs - 1 /\ ~Shared(q, s)
    BY <1>2, <1>4, <2>2 DEF Shared
  <2> QED
    BY <1>1, <1>3, <2>1, <2>3, <2>4, <2>5, <2>6, HolderLeaves
<1>5. CASE ~(reader[s].refs = 1 /\ reader[s].expired)
  <2> DEFINE x == [reader[s] EXCEPT !.refs = @ - 1]
  <2>1. x \in SectionReader
    BY <1>2 DEF SectionReader
  <2>2. /\ x.made = reader[s].made /\ x.refs = reader[s].refs - 1 /\ x.open = reader[s].open
        /\ x.set = reader[s].set /\ x.expired = reader[s].expired /\ x.ready = reader[s].ready
        /\ x.failed = reader[s].failed
    BY <1>2 DEF SectionReader
  <2>3. reader' = [reader EXCEPT ![s] = x]
    BY <1>1, <1>5 DEF Close
  <2> HIDE DEF x
  <2>4. /\ (x.open <=> reader[s].open) /\ (x.set <=> reader[s].set) /\ (x.failed <=> reader[s].failed)
        /\ (x.made <=> reader[s].made) /\ (x.expired <=> reader[s].expired) /\ (x.ready <=> reader[s].ready)
    BY <2>2, Zenon
  <2>5. OpenOK(s)'
    <3>1. reader'[s] = x
      BY <2>3 DEF ReaderInv, ReaderTypeOK
    <3> QED
      BY <3>1, <2>2, <2>4, <1>2, <1>5 DEF ReaderInv, OpenOK
  <2>6. x.refs >= reader[s].refs - 1
    BY <1>2, <2>2
  <2> QED
    BY <1>1, <1>3, <2>1, <2>3, <2>4, <2>5, <2>6, HolderLeaves
<1> QED
  BY <1>4, <1>5

\* The entry goes; what there is to read stays as it is.
LEMMA EvictKeepsInv ==
    ASSUME ReaderInv, Evict
    PROVE  ReaderInv'
<1>1. EntryKept
  BY EntryGoes DEF Evict
<1>2. UNCHANGED <<errCached, reader, request>>
  BY DEF Evict
<1>3. \A r : Cardinality(Holders(r))' = Cardinality(Holders(r))
  BY <1>2, SameHolders
<1>4. \A r \in Readers : CacheOK(r)' /\ OpenOK(r)' /\ CountOK(r)'
  BY <1>1, <1>2, <1>3 DEF EntryKept, ReaderInv, CacheOK, OpenOK, CountOK
<1> QED
  BY <1>1, <1>2, <1>4 DEF EntryKept, ReaderInv, ReaderTypeOK, RequestOK, OneOpener, Opens

\* The callback runs: it closes the reader if nobody holds it; else the last
\* Close does.
LEMMA ReaderExpires ==
    ASSUME ReaderInv, NEW s \in Readers, s \in evicted, evicted' = evicted \ {s},
           NEW x \in SectionReader, reader' = [reader EXCEPT ![s] = x],
           x.refs = reader[s].refs, x.made <=> reader[s].made, x.expired, x.set <=> reader[s].set,
           x.ready <=> reader[s].ready, x.failed <=> reader[s].failed,
           x.open <=> reader[s].open /\ ~(reader[s].refs <= 0),
           UNCHANGED <<entry, errCached, request>>
    PROVE  ReaderInv'
<1>1. s # 0 /\ reader[s].refs \in Int /\ reader[s].made /\ entry # s
  BY ReaderTypes DEF ReaderInv, CacheOK
<1>2. reader'[s] = x /\ \A r \in Readers : r # s => reader'[r] = reader[r]
  BY DEF ReaderInv, ReaderTypeOK
<1>3. ReaderTypeOK'
  BY DEF ReaderInv, ReaderTypeOK
<1>4. \A r \in Readers : CountOK(r)'
  <2>1. \A r : Cardinality(Holders(r))' = Cardinality(Holders(r))
    BY SameHolders
  <2>2. \A r \in Readers : reader'[r].refs = reader[r].refs
    BY <1>2
  <2> QED
    BY <2>1, <2>2 DEF ReaderInv, CountOK
<1>5. CacheOK(s)'
  BY <1>1, <1>2 DEF ReaderInv, CacheOK
<1>6. OpenOK(s)'
  BY <1>1, <1>2 DEF ReaderInv, OpenOK
<1>7. \A r \in Readers : r # s => CacheOK(r)' /\ OpenOK(r)'
  BY <1>2, OtherReaders
<1>8. ASSUME NEW p \in Requests
      PROVE  RequestOK(p)'
  <2>1. CASE request[p].r = s
    <3>1. ~(reader[s].refs <= 0)
      BY <2>1, <1>1, HolderCounts
    <3> QED
      BY <2>1, <3>1, <1>1, <1>2, FellowRequests
  <2>2. CASE request[p].r # s
    BY <2>2, <1>2, OtherRequests
  <2> QED
    BY <2>1, <2>2
<1>9. OneOpener'
  BY DEF ReaderInv, OneOpener, Opens
<1> QED
  BY <1>3, <1>4, <1>5, <1>6, <1>7, <1>8, <1>9 DEF ReaderInv

LEMMA ExpireKeepsInv ==
    ASSUME ReaderInv, NEW s \in Readers, ExpireCallback(s)
    PROVE  ReaderInv'
<1>1. /\ reader[s] \in SectionReader /\ reader[s].refs \in Int
      /\ s \in evicted /\ evicted' = evicted \ {s} /\ UNCHANGED <<entry, errCached, request>>
  BY ReaderTypes DEF ReaderInv, ExpireCallback
<1>2. CASE reader[s].refs <= 0
  <2> DEFINE x == [reader[s] EXCEPT !.expired = TRUE, !.cancelled = TRUE, !.open = FALSE]
  <2>1. x \in SectionReader
    BY <1>1, Zenon DEF SectionReader
  <2>2. /\ x.made = reader[s].made /\ x.refs = reader[s].refs /\ x.open = FALSE /\ x.expired = TRUE
        /\ x.set = reader[s].set /\ x.ready = reader[s].ready /\ x.failed = reader[s].failed
    BY <1>1 DEF SectionReader
  <2>3. reader' = [reader EXCEPT ![s] = x]
    BY <1>2 DEF ExpireCallback
  <2> HIDE DEF x
  <2>4. /\ ~x.open /\ x.expired /\ (x.set <=> reader[s].set) /\ (x.failed <=> reader[s].failed)
        /\ (x.made <=> reader[s].made) /\ (x.ready <=> reader[s].ready)
    BY <2>2, Zenon
  <2> QED
    BY <1>1, <1>2, <2>1, <2>2, <2>3, <2>4, ReaderExpires
<1>3. CASE ~(reader[s].refs <= 0)
  <2> DEFINE x == [reader[s] EXCEPT !.expired = TRUE]
  <2>1. x \in SectionReader
    BY <1>1, Zenon DEF SectionReader
  <2>2. /\ x.made = reader[s].made /\ x.refs = reader[s].refs /\ x.open = reader[s].open /\ x.expired = TRUE
        /\ x.set = reader[s].set /\ x.ready = reader[s].ready /\ x.failed = reader[s].failed
    BY <1>1 DEF SectionReader
  <2>3. reader' = [reader EXCEPT ![s] = x]
    BY <1>3 DEF ExpireCallback
  <2> HIDE DEF x
  <2>4. /\ (x.open <=> reader[s].open) /\ x.expired /\ (x.set <=> reader[s].set) /\ (x.failed <=> reader[s].failed)
        /\ (x.made <=> reader[s].made) /\ (x.ready <=> reader[s].ready)
    BY <2>2, Zenon
  <2> QED
    BY <1>1, <1>3, <2>1, <2>2, <2>3, <2>4, ReaderExpires
<1> QED
  BY <1>2, <1>3

LEMMA ReaderStepKeepsInv == ReaderInv /\ [ReaderNext]_readerVars => ReaderInv'
<1> SUFFICES ASSUME ReaderInv, [ReaderNext]_readerVars
             PROVE  ReaderInv'
  OBVIOUS
<1>1. ASSUME NEW q \in Requests, LookUp(q)
      PROVE  ReaderInv'
  BY <1>1, MakeReaderKeepsInv, ShareReaderKeepsInv
<1>2. ASSUME NEW q \in Requests, ReaderReady(q)
      PROVE  ReaderInv'
  <2>1. CASE reader[request[q].r].failed
    BY <1>2, <2>1, CloseKeepsInv DEF ReaderReady
  <2> QED
    BY <1>2, <2>1, WaitEndsKeepsInv
<1>3. ASSUME NEW q \in Requests, Done(q)
      PROVE  ReaderInv'
  BY <1>3, CloseKeepsInv DEF Done
<1>4. ASSUME UNCHANGED <<entry, reader, evicted, request>>, errCached' \in BOOLEAN
      PROVE  ReaderInv'
  <2>1. \A r : Cardinality(Holders(r))' = Cardinality(Holders(r))
    BY <1>4, SameHolders
  <2> QED
    BY <1>4, <2>1 DEF ReaderInv, ReaderTypeOK, CacheOK, OpenOK, CountOK, RequestOK, OneOpener, Opens
<1>5. CASE ErrorExpires
  BY <1>4, <1>5 DEF ErrorExpires
<1>6. CASE UNCHANGED readerVars
  BY <1>4, <1>6 DEF readerVars, ReaderInv, ReaderTypeOK
<1> QED
  BY <1>1, <1>2, <1>3, <1>5, <1>6, AskKeepsInv, OpenPieceKeepsInv, PublishKeepsInv, OpenFailsKeepsInv,
     RemoveEntryKeepsInv, EvictKeepsInv, ExpireKeepsInv
  DEF ReaderNext

\* A piece reader is open as long as somebody reads from it, and closed once its
\* entry has gone and its last user is done, whichever comes first: the callback
\* of the cache or the last Close (cachedSectionReader).
THEOREM ReadersStayOpen == ReaderSpec => []OpenWhileNeeded
<1>1. ASSUME ReaderInv
      PROVE  OpenWhileNeeded
  <2>1. \A q \in Requests : request[q].at = "use" => reader[request[q].r].open
    BY <1>1 DEF ReaderInv, RequestOK
  <2>2. ASSUME NEW r \in Readers, reader[r].set, reader[r].refs = 0, entry # r, r \notin evicted
        PROVE  ~reader[r].open
    <3>1. CASE reader[r].made
      BY <1>1, <2>2, <3>1 DEF ReaderInv, CacheOK, OpenOK
    <3>2. CASE ~reader[r].made
      BY <1>1, <3>2 DEF ReaderInv, CacheOK, NoReader
    <3> QED
      BY <3>1, <3>2
  <2> QED
    BY <2>1, <2>2 DEF OpenWhileNeeded
<1> QED
  BY <1>1, ReaderInitInv, ReaderStepKeepsInv, PTL DEF ReaderSpec

\* The cache, its readers and the requests keep their types.
THEOREM ReaderTypesHold == ReaderSpec => []ReaderTypeOK
<1>1. ReaderInv => ReaderTypeOK
  BY DEF ReaderInv
<1> QED
  BY <1>1, ReaderInitInv, ReaderStepKeepsInv, PTL DEF ReaderSpec

\* A request whose reader cannot be opened returns with the reference it has.
Lost(r) == IF reader[r].failed THEN 1 ELSE 0

\* The count is exact, and a reader is open only for those who hold it.
Exact(r) ==
    /\ reader[r].refs = Cardinality(Holders(r)) + Lost(r)
    /\ reader[r].failed \/ reader[r].set => reader[r].ready
    /\ ~(reader[r].failed /\ reader[r].set)
    /\ reader[r].open /\ ~reader[r].set => \E q \in Requests : request[q].at = "publish" /\ request[q].r = r

\* A step in which the readers and who holds them stay.
LEMMA ExactStays ==
    ASSUME \A r \in Readers : Exact(r), UNCHANGED reader,
           \A p \in Requests : request'[p].r = request[p].r,
           \A p \in Requests : request[p].at = "publish" => request'[p].at = "publish"
    PROVE  \A r \in Readers : Exact(r)'
<1>1. \A r : Cardinality(Holders(r))' = Cardinality(Holders(r))
  BY SameHolders
<1> QED
  BY <1>1 DEF Exact, Lost

\* A step in which request q does something with reader s: the others stay.
LEMMA OthersExact ==
    ASSUME \A r \in Readers : Exact(r), NEW q \in Requests, NEW s \in Readers,
           \A r \in Readers : r # s => reader'[r] = reader[r] /\ Cardinality(Holders(r))' = Cardinality(Holders(r)),
           \A p \in Requests : p # q => request'[p] = request[p],
           request[q].at = "publish" => request[q].r = s
    PROVE  \A r \in Readers : r # s => Exact(r)'
  BY DEF Exact, Lost

LEMMA LookUpExact ==
    ASSUME ReaderInv, \A r \in Readers : Exact(r), NEW q \in Requests, LookUp(q)
    PROVE  \A r \in Readers : Exact(r)'
<1>1. /\ request[q].r = 0 /\ request[q].at = "look" /\ reader \in [Readers -> SectionReader]
      /\ request \in [Requests -> RequestState]
  BY DEF LookUp, ReaderInv, RequestOK, ReaderTypeOK
<1>2. PICK s \in Readers : \/ reader' = [reader EXCEPT ![s] = NewReader] /\ ~reader[s].made /\ request'[q].r = s
                           \/ reader' = [reader EXCEPT ![s].refs = @ + 1] /\ request'[q].r = s /\ reader[s].made
  BY <1>1, ReaderTypes DEF LookUp, ReaderInv, ReaderTypeOK, CacheOK
<1>3. \A p \in Requests : p # q => request'[p] = request[p]
  BY <1>1 DEF LookUp
<1>4. /\ Cardinality(Holders(s))' = Cardinality(Holders(s)) + 1
      /\ \A r \in Readers : r # s => Cardinality(Holders(r))' = Cardinality(Holders(r))
  BY <1>1, <1>2, <1>3, TakeReader, ReaderTypes DEF ReaderInv
<1>5. \A r \in Readers : r # s => Exact(r)'
  BY <1>1, <1>2, <1>3, <1>4, OthersExact
<1>6. Cardinality(Holders(s)) \in Nat /\ Exact(s)
  BY HoldersFinite
<1>7. \A p \in Requests : request[p].at = "publish" => request'[p] = request[p]
  BY <1>1, <1>3
<1>8. CASE reader' = [reader EXCEPT ![s] = NewReader] /\ ~reader[s].made
  <2>1. reader[s] = NoReader
    BY <1>8 DEF ReaderInv, CacheOK
  <2>2. Cardinality(Holders(s)) = 0
    BY <1>6, <2>1 DEF Exact, Lost, NoReader
  <2>3. reader'[s] = NewReader
    BY <1>1, <1>8
  <2> QED
    BY <1>4, <1>5, <2>2, <2>3 DEF Exact, Lost, NewReader
<1>9. CASE reader' = [reader EXCEPT ![s].refs = @ + 1]
  <2>1. /\ reader'[s].refs = reader[s].refs + 1 /\ reader'[s].failed = reader[s].failed
        /\ reader'[s].set = reader[s].set /\ reader'[s].ready = reader[s].ready /\ reader'[s].open = reader[s].open
    BY <1>1, <1>9 DEF SectionReader
  <2>2. reader[s].refs \in Int
    BY <1>1 DEF SectionReader
  <2> QED
    BY <1>4, <1>5, <1>6, <1>7, <2>1, <2>2 DEF Exact, Lost
<1> QED
  BY <1>2, <1>8, <1>9

\* The request that opens a reader.
LEMMA OpenerExact ==
    ASSUME ReaderInv, \A r \in Readers : Exact(r), NEW q \in Requests,
           OpenPiece(q) \/ Publish(q) \/ OpenFails(q) \/ RemoveEntry(q)
    PROVE  \A r \in Readers : Exact(r)'
<1>1. Opens(q) /\ reader \in [Readers -> SectionReader] /\ request \in [Requests -> RequestState]
  BY DEF OpenPiece, Publish, OpenFails, RemoveEntry, Opens, ReaderInv, ReaderTypeOK
<1>2. PICK s \in Readers : s = request[q].r
  BY <1>1, ReaderTypes DEF ReaderInv, RequestOK, Opens
<1>3. ~reader[s].ready /\ Exact(s) /\ s # 0 /\ reader[s].refs \in Int /\ Cardinality(Holders(s)) \in Nat
  BY <1>1, <1>2, ReaderTypes, HoldersFinite DEF ReaderInv, RequestOK
<1>4. ~reader[s].failed /\ ~reader[s].set /\ reader[s].refs = Cardinality(Holders(s))
  BY <1>3 DEF Exact, Lost
<1>5. \A p \in Requests : p # q => request'[p] = request[p]
  BY <1>1 DEF OpenPiece, Publish, OpenFails, RemoveEntry, At
<1>6. \A r \in Readers : r # s => reader'[r] = reader[r]
  BY <1>1, <1>2 DEF OpenPiece, Publish, OpenFails, RemoveEntry
<1>7. CASE RemoveEntry(q)
  <2>1. request'[q].r = 0 /\ request[q].at = "fail"
    BY <1>1, <1>7 DEF RemoveEntry, Resting
  <2>2. /\ Cardinality(Holders(s))' = Cardinality(Holders(s)) - 1
        /\ \A r \in Readers : r # s => Cardinality(Holders(r))' = Cardinality(Holders(r))
    BY <1>2, <1>3, <1>5, <2>1, GiveReader, ReaderTypes DEF ReaderInv
  <2>3. /\ reader'[s].refs = reader[s].refs /\ reader'[s].failed = TRUE /\ reader'[s].ready = TRUE
        /\ reader'[s].set = reader[s].set /\ reader'[s].open = reader[s].open
    BY <1>1, <1>2, <1>7 DEF RemoveEntry, SectionReader
  <2>4. \A r \in Readers : r # s => Exact(r)'
    BY <1>2, <1>5, <1>6, <2>1, <2>2, OthersExact
  <2>5. ~reader[s].open
    <3>1. ASSUME reader[s].open
          PROVE  FALSE
      <4>1. PICK p \in Requests : request[p].at = "publish" /\ request[p].r = s
        BY <1>3, <1>4, <3>1 DEF Exact
      <4> QED
        BY <1>1, <1>2, <2>1, <4>1 DEF ReaderInv, OneOpener, Opens
    <3> QED
      BY <3>1
  <2>6. Exact(s)'
    BY <1>3, <1>4, <2>2, <2>3, <2>5 DEF Exact, Lost
  <2> QED
    BY <2>4, <2>6
<1>8. CASE ~RemoveEntry(q)
  <2>1. request'[q].r = request[q].r
    BY <1>1, <1>8 DEF OpenPiece, Publish, OpenFails, At, RequestState
  <2>2. \A r : Cardinality(Holders(r))' = Cardinality(Holders(r))
    BY <1>5, <2>1, SameHolders
  <2>3. \A r \in Readers : r # s => Exact(r)'
    BY <1>2, <1>5, <1>6, <2>2, OthersExact
  <2>4. CASE OpenPiece(q)
    <3>1. /\ reader'[s].refs = reader[s].refs /\ reader'[s].failed = reader[s].failed /\ reader'[s].ready = reader[s].ready
          /\ reader'[s].set = reader[s].set
      BY <1>1, <1>2, <2>4 DEF OpenPiece, SectionReader
    <3>2. request'[q].at = "publish" /\ request'[q].r = s
      BY <1>1, <1>2, <2>1, <2>4 DEF OpenPiece, At, RequestState
    <3>3. Exact(s)'
      BY <1>3, <1>4, <2>2, <3>1, <3>2 DEF Exact, Lost
    <3> QED
      BY <2>3, <3>3
  <2>5. CASE Publish(q)
    <3>1. /\ reader'[s].refs = reader[s].refs /\ reader'[s].failed = reader[s].failed /\ reader'[s].ready = TRUE
          /\ reader'[s].set = TRUE
      BY <1>1, <1>2, <2>5 DEF Publish, SectionReader
    <3>2. Exact(s)'
      BY <1>3, <1>4, <2>2, <3>1 DEF Exact, Lost
    <3> QED
      BY <2>3, <3>2
  <2>6. CASE OpenFails(q)
    <3>1. UNCHANGED reader /\ request[q].at = "resolve"
      BY <2>6 DEF OpenFails
    <3>2. \A p \in Requests : request[p].at = "publish" => request'[p].at = "publish"
      BY <1>5, <3>1
    <3>3. \A p \in Requests : request'[p].r = request[p].r
      BY <1>5, <2>1
    <3> QED
      BY <3>1, <3>2, <3>3, ExactStays
  <2> QED
    BY <1>8, <2>4, <2>5, <2>6
<1> QED
  BY <1>7, <1>8

LEMMA CloseExact ==
    ASSUME ReaderInv, \A r \in Readers : Exact(r), NEW q \in Requests, request[q].at \in {"wait", "use"},
           Close(request[q].r), request' = [request EXCEPT ![q] = Resting]
    PROVE  \A r \in Readers : Exact(r)'
<1>1. reader \in [Readers -> SectionReader] /\ request \in [Requests -> RequestState]
  BY DEF ReaderInv, ReaderTypeOK
<1>2. PICK s \in Readers : s = request[q].r
  BY ReaderTypes DEF ReaderInv, RequestOK
<1>3. Exact(s) /\ s # 0 /\ reader[s].refs \in Int /\ Cardinality(Holders(s)) \in Nat
  BY <1>2, ReaderTypes, HoldersFinite DEF ReaderInv
<1>4. \A p \in Requests : p # q => request'[p] = request[p]
  BY <1>1
<1>5. request'[q].r = 0
  BY <1>1 DEF Resting
<1>6. /\ Cardinality(Holders(s))' = Cardinality(Holders(s)) - 1
      /\ \A r \in Readers : r # s => Cardinality(Holders(r))' = Cardinality(Holders(r))
  BY <1>2, <1>3, <1>4, <1>5, GiveReader, ReaderTypes DEF ReaderInv
<1>7. /\ reader'[s].refs = reader[s].refs - 1 /\ reader'[s].failed = reader[s].failed
      /\ reader'[s].ready = reader[s].ready /\ reader'[s].set = reader[s].set /\ (reader'[s].open => reader[s].open)
  <2>1. CASE reader[s].refs = 1 /\ reader[s].expired
    <3>1. reader'[s] = [reader[s] EXCEPT !.refs = 0, !.cancelled = TRUE, !.open = FALSE]
      BY <1>1, <1>2, <2>1 DEF Close
    <3> QED
      BY <1>1, <2>1, <3>1 DEF SectionReader
  <2>2. CASE ~(reader[s].refs = 1 /\ reader[s].expired)
    <3>1. reader'[s] = [reader[s] EXCEPT !.refs = reader[s].refs - 1]
      BY <1>1, <1>2, <2>2 DEF Close
    <3> QED
      BY <1>1, <3>1 DEF SectionReader
  <2> QED
    BY <2>1, <2>2
<1>8. \A r \in Readers : r # s => reader'[r] = reader[r]
  BY <1>1, <1>2 DEF Close
<1>9. \A r \in Readers : r # s => Exact(r)'
  BY <1>2, <1>4, <1>6, <1>8, OthersExact
<1>10. \A p \in Requests : request[p].at = "publish" => request'[p] = request[p]
  BY <1>4
<1>11. Exact(s)'
  BY <1>3, <1>6, <1>7, <1>10 DEF Exact, Lost
<1> QED
  BY <1>9, <1>11

LEMMA ExpireExact ==
    ASSUME ReaderInv, \A r \in Readers : Exact(r), NEW s \in Readers, ExpireCallback(s)
    PROVE  \A r \in Readers : Exact(r)'
<1>1. reader \in [Readers -> SectionReader] /\ UNCHANGED request
  BY DEF ReaderInv, ReaderTypeOK, ExpireCallback
<1>2. \A r : Cardinality(Holders(r))' = Cardinality(Holders(r))
  BY <1>1, SameHolders
<1>3. /\ reader'[s].refs = reader[s].refs /\ reader'[s].failed = reader[s].failed
      /\ reader'[s].ready = reader[s].ready /\ reader'[s].set = reader[s].set /\ (reader'[s].open => reader[s].open)
  <2>1. CASE reader[s].refs <= 0
    <3>1. reader'[s] = [reader[s] EXCEPT !.expired = TRUE, !.cancelled = TRUE, !.open = FALSE]
      BY <1>1, <2>1 DEF ExpireCallback
    <3> QED
      BY <1>1, <3>1 DEF SectionReader
  <2>2. CASE ~(reader[s].refs <= 0)
    <3>1. reader'[s] = [reader[s] EXCEPT !.expired = TRUE]
      BY <1>1, <2>2 DEF ExpireCallback
    <3> QED
      BY <1>1, <3>1 DEF SectionReader
  <2> QED
    BY <2>1, <2>2
<1>4. \A r \in Readers : r # s => reader'[r] = reader[r]
  BY <1>1 DEF ExpireCallback
<1> QED
  BY <1>1, <1>2, <1>3, <1>4 DEF Exact, Lost

LEMMA ExactInductive ==
    /\ ReaderInit => \A r \in Readers : Exact(r)
    /\ ReaderInv /\ (\A r \in Readers : Exact(r)) /\ [ReaderNext]_readerVars => (\A r \in Readers : Exact(r))'
<1>1. ASSUME ReaderInit
      PROVE  \A r \in Readers : Exact(r)
  <2>1. \A r \in Readers : Holders(r) = {}
    BY <1>1, ReaderAssumption DEF Holders, ReaderInit, Resting, Readers
  <2>2. \A r \in Readers : Cardinality(Holders(r)) = 0
    BY <2>1, FS_EmptySet
  <2> QED
    BY <1>1, <2>2 DEF Exact, Lost, ReaderInit, NoReader
<1>2. ASSUME ReaderInv, \A r \in Readers : Exact(r), [ReaderNext]_readerVars
      PROVE  \A r \in Readers : Exact(r)'
  <2>1. CASE \E q \in Requests : \/ LookUp(q) \/ OpenPiece(q) \/ Publish(q) \/ OpenFails(q) \/ RemoveEntry(q)
    BY <1>2, <2>1, LookUpExact, OpenerExact
  <2>2. ASSUME NEW q \in Requests, Done(q) \/ (ReaderReady(q) /\ reader[request[q].r].failed)
        PROVE  \A r \in Readers : Exact(r)'
    BY <1>2, <2>2, CloseExact DEF Done, ReaderReady
  <2>3. ASSUME NEW q \in Requests, AskErrorCache(q) \/ (ReaderReady(q) /\ ~reader[request[q].r].failed)
        PROVE  \A r \in Readers : Exact(r)'
    <3>1. UNCHANGED reader /\ request \in [Requests -> RequestState] /\ request[q].at # "publish"
          /\ \E l \in {"look", "use"} : At(q, l)
      BY <1>2, <2>3 DEF AskErrorCache, ReaderReady, Resting, ReaderInv, ReaderTypeOK
    <3>2. /\ \A p \in Requests : request'[p].r = request[p].r
          /\ \A p \in Requests : request[p].at = "publish" => request'[p].at = "publish"
      BY <3>1 DEF At, RequestState
    <3> QED
      BY <1>2, <3>1, <3>2, ExactStays
  <2>4. CASE Evict \/ ErrorExpires \/ UNCHANGED readerVars
    <3>1. UNCHANGED <<reader, request>>
      BY <2>4 DEF Evict, ErrorExpires, readerVars
    <3> QED
      BY <1>2, <3>1, ExactStays
  <2>5. CASE \E r \in Readers : ExpireCallback(r)
    BY <1>2, <2>5, ExpireExact
  <2> QED
    BY <1>2, <2>1, <2>2, <2>3, <2>4, <2>5 DEF ReaderNext
<1> QED
  BY <1>1, <1>2

\* Every reference is counted once, but for the one a request keeps when the
\* piece could not be opened, though getters, the callback of the cache and
\* Close change refs from goroutines of their own.
THEOREM ReferencesAreCounted == ReaderSpec => [](\A r \in Readers : Exact(r))
  BY ReaderInitInv, ReaderStepKeepsInv, ExactInductive, PTL DEF ReaderSpec

\* Nothing leaks: a reader that no request has and that has left the cache, its
\* callback done, is closed.
NothingLeaks == \A r \in Readers : Holders(r) = {} /\ entry # r /\ r \notin evicted => ~reader[r].open

\* It is not the count that decides but the requests: each reader that was ever
\* opened is closed, by the last Close or by the callback of the cache.
THEOREM NoReaderLeaks == ReaderSpec => []NothingLeaks
<1>1. ReaderInv /\ (\A r \in Readers : Exact(r)) => NothingLeaks
  <2> SUFFICES ASSUME ReaderInv, NEW r \in Readers, Exact(r), Holders(r) = {}, entry # r, r \notin evicted, reader[r].open
               PROVE  FALSE
    BY DEF NothingLeaks
  <2>1. Cardinality(Holders(r)) = 0
    BY FS_EmptySet
  <2>2. reader[r].set
    BY DEF Exact, Holders
  <2>3. reader[r].refs = 0
    BY <2>1, <2>2 DEF Exact, Lost
  <2>4. reader[r].made
    BY DEF ReaderInv, CacheOK, NoReader
  <2> QED
    BY <2>3, <2>4 DEF ReaderInv, CacheOK, OpenOK
<1> QED
  BY <1>1, ReaderInitInv, ReaderStepKeepsInv, ExactInductive, PTL DEF ReaderSpec

-----------------------------------------------------------------------------
(* Supraseal batches and their slots.                                      *)

\* The batch has a slot.
Holding(b) == batch[b] \in {"pc1", "between", "pc2", "mark"}

\* The slot of a batch is its own and, after the first phase, has its layers.
SlotOK(b) ==
    Holding(b) =>
        /\ slotOf[b] \in Slots
        /\ slots[slotOf[b]].sectors = SectorsOf(b) /\ slots[slotOf[b]].work
        /\ batch[b] # "pc1" => layers[slotOf[b]] = b

\* A row is of a batch that has committed, and the manager knows of it.
SlotRefOK(r) ==
    /\ layers[r.slot] = r.sector[1]
    /\ r.sector \in slots[r.slot].sectors
    /\ batch[r.sector[1]] \in {"mark", "sealed"}
    /\ final[r.sector] # "done"

\* Only what has committed is finalized, and not before MarkWorkDone.
FinalOK(x) ==
    /\ final[x] # "none" => batch[x[1]] \in {"mark", "sealed"}
    /\ final[x] \in {"finalize", "done", "update", "finalized"} => batch[x[1]] = "sealed"

BatchInv ==
    /\ BatchTypeOK
    /\ \A b \in Batches : SlotOK(b)
    /\ \A r \in batchRefs : SlotRefOK(r)
    /\ \A x \in BatchSectors : FinalOK(x)

\* The sectors of a batch, and that there are some.
LEMMA SectorsOfBatch ==
    ASSUME NEW b \in Batches
    PROVE  /\ SectorsOf(b) \subseteq BatchSectors /\ SectorsOf(b) # {}
           /\ \A x \in BatchSectors : x \in SectorsOf(b) <=> x[1] = b
           /\ \A x \in BatchSectors : x[1] \in Batches
<1>1. <<b, 1>> \in SectorsOf(b)
  BY BatchAssumption DEF SectorsOf
<1> QED
  BY <1>1 DEF SectorsOf, BatchSectors

\* Two batches never have the same slot.
LEMMA SlotsDiffer ==
    ASSUME BatchInv, NEW b \in Batches, NEW c \in Batches, Holding(b), Holding(c), b # c
    PROVE  slotOf[b] # slotOf[c]
<1>1. slots[slotOf[b]].sectors = SectorsOf(b) /\ slots[slotOf[c]].sectors = SectorsOf(c)
  BY DEF BatchInv, SlotOK
<1>2. PICK x \in SectorsOf(b) : x \in BatchSectors /\ x[1] = b
  BY SectorsOfBatch
<1>3. x \notin SectorsOf(c)
  BY <1>2, SectorsOfBatch
<1> QED
  BY <1>1, <1>2, <1>3

\* No row names the slot of a batch that has yet to commit.
LEMMA NotNamed ==
    ASSUME BatchInv, NEW b \in Batches, batch[b] \in {"pc1", "between", "pc2"}, NEW r \in batchRefs
    PROVE  r.slot # slotOf[b]
<1>1. r.sector \in slots[r.slot].sectors /\ batch[r.sector[1]] \in {"mark", "sealed"} /\ r.sector \in BatchSectors
  BY DEF BatchInv, SlotRefOK, BatchTypeOK
<1>2. slots[slotOf[b]].sectors = SectorsOf(b)
  BY DEF BatchInv, SlotOK, Holding
<1>3. r.sector \in SectorsOf(b) => r.sector[1] = b
  BY <1>1, SectorsOfBatch
<1> QED
  BY <1>1, <1>2, <1>3

LEMMA BatchTypes ==
    ASSUME BatchTypeOK
    PROVE  /\ \A r \in batchRefs : r.sector \in BatchSectors /\ r.slot \in Slots /\ r.sector[1] \in Batches
           /\ \A x \in BatchSectors : x[1] \in Batches
           /\ \A s \in Slots : slots[s].sectors \subseteq BatchSectors /\ slots[s].work \in BOOLEAN
  BY DEF BatchTypeOK, BatchSectors

LEMMA BatchInitInv == BatchInit => BatchInv
<1> SUFFICES ASSUME BatchInit
             PROVE  BatchInv
  OBVIOUS
<1>1. BatchTypeOK
  BY BatchAssumption DEF BatchInit, BatchTypeOK, NoWork
<1>2. \A x \in BatchSectors : x[1] \in Batches
  BY DEF BatchSectors
<1> QED
  BY <1>1, <1>2 DEF BatchInit, BatchInv, SlotOK, SlotRefOK, FinalOK, Holding

\* A step that leaves the slots, the rows and the sectors alone, and moves
\* batches to states in which they need no slot, or no more than they have.
LEMMA BatchMoves ==
    ASSUME BatchInv, BatchTypeOK', UNCHANGED <<slotOf, slots, layers, batchRefs, final>>,
           \A b \in Batches : \/ batch'[b] = batch[b]
                              \/ batch'[b] \notin {"pc1", "between", "pc2", "mark"} /\ batch[b] \notin {"mark", "sealed"}
                              \/ batch[b] = "between" /\ batch'[b] = "pc2"
    PROVE  BatchInv'
<1>1. \A b \in Batches : SlotOK(b)'
  BY DEF BatchInv, SlotOK, Holding
<1>2. \A r \in batchRefs' : SlotRefOK(r)'
  BY BatchTypes DEF BatchInv, SlotRefOK
<1>3. \A x \in BatchSectors : FinalOK(x)'
  BY BatchTypes DEF BatchInv, FinalOK
<1> QED
  BY <1>1, <1>2, <1>3 DEF BatchInv

LEMMA LeastNatural ==
    ASSUME NEW T, T \subseteq Nat, T # {}
    PROVE  \E x \in T : \A y \in T : x <= y
<1>1. PICK x \in T : \A y \in T : ~(<<y, x>> \in OpToRel(<, Nat))
  BY WFMin, NatLessThanWellFounded, Zenon
<1>2. \A y \in T : ~(y < x)
  BY <1>1 DEF OpToRel
<1> QED
  BY <1>2

\* Get fills a slot that no row names and no batch has.
LEMMA GetKeepsInv ==
    ASSUME BatchInv, NEW b \in Batches, Get(b)
    PROVE  BatchInv'
<1>1. batch[b] = "get" /\ UNCHANGED <<inSDR, outSDR, layers, batchRefs, final, batchFaults>>
  BY DEF Get
<1>2. CASE Available = {}
  <2>1. batch' = [batch EXCEPT ![b] = "asleep"] /\ UNCHANGED <<slotOf, slots>>
    BY <1>2 DEF Get
  <2>2. BatchTypeOK'
    BY <1>1, <2>1 DEF BatchInv, BatchTypeOK, Running
  <2> QED
    BY <1>1, <2>1, <2>2, BatchMoves DEF BatchInv, BatchTypeOK
<1>3. CASE Available # {}
  <2>1. PICK s \in Available :
           /\ slots' = [slots EXCEPT ![s] = [sectors |-> SectorsOf(b), work |-> TRUE]]
           /\ slotOf' = [slotOf EXCEPT ![b] = s]
           /\ batch' = [batch EXCEPT ![b] = "pc1"]
    <3>1. \E s \in Available : \A t \in Available : s <= t
      <4>1. Available \subseteq Nat
        BY BatchAssumption DEF Available, Slots
      <4> QED
        BY <1>3, <4>1, LeastNatural, Zenon
    <3> QED
      BY <1>3, <3>1 DEF Get
  <2>2. s \in Slots /\ slots[s].sectors = {} /\ slots' \in [Slots -> [sectors : SUBSET BatchSectors, work : BOOLEAN]]
    BY <2>1, SectorsOfBatch DEF Available, BatchInv, BatchTypeOK
  <2>3. /\ slots'[s] = [sectors |-> SectorsOf(b), work |-> TRUE] /\ \A t \in Slots : t # s => slots'[t] = slots[t]
        /\ slotOf'[b] = s /\ \A c \in Batches : c # b => slotOf'[c] = slotOf[c]
        /\ batch'[b] = "pc1" /\ \A c \in Batches : c # b => batch'[c] = batch[c]
    BY <2>1, <2>2 DEF BatchInv, BatchTypeOK
  <2>4. BatchTypeOK'
    BY <1>1, <2>1, <2>2 DEF BatchInv, BatchTypeOK, Running, Slots
  <2>5. \A c \in Batches : Holding(c) => slotOf[c] # s
    BY <2>2, SectorsOfBatch DEF BatchInv, SlotOK
  <2>6. ASSUME NEW c \in Batches
        PROVE  SlotOK(c)'
    <3>1. CASE c = b
      BY <3>1, <2>2, <2>3 DEF SlotOK
    <3>2. CASE c # b
      BY <3>2, <1>1, <2>3, <2>5 DEF BatchInv, SlotOK, Holding
    <3> QED
      BY <3>1, <3>2
  <2>7. ASSUME NEW r \in batchRefs
        PROVE  SlotRefOK(r)'
    <3>1. r.slot # s
      BY <2>2 DEF BatchInv, SlotRefOK
    <3>2. r.sector[1] # b
      BY <1>1 DEF BatchInv, SlotRefOK
    <3> QED
      BY <3>1, <3>2, <1>1, <2>3, BatchTypes DEF BatchInv, SlotRefOK
  <2>8. \A x \in BatchSectors : FinalOK(x)'
    BY <1>1, <2>3, BatchTypes DEF BatchInv, FinalOK
  <2> QED
    BY <1>1, <2>4, <2>6, <2>7, <2>8 DEF BatchInv
<1> QED
  BY <1>2, <1>3

\* Signal wakes the batch that sleeps, if one does, and does nothing else.
LEMMA SignalWakes ==
    ASSUME BatchTypeOK, NEW on
    PROVE  /\ Signal(on) \in [Batches -> Running \cup {"new", "queued", "sealed"}]
           /\ \A b \in Batches : Signal(on)[b] = batch[b] \/ (batch[b] = "asleep" /\ Signal(on)[b] = "get")
<1> DEFINE woken == [b \in Batches |-> IF batch[b] = "asleep" THEN "get" ELSE batch[b]]
<1>1. Signal(on) \in {woken, batch}
  BY DEF Signal
<1>2. woken \in [Batches -> Running \cup {"new", "queued", "sealed"}]
  BY DEF BatchTypeOK, Running
<1>3. \A b \in Batches : woken[b] = batch[b] \/ (batch[b] = "asleep" /\ woken[b] = "get")
  OBVIOUS
<1> HIDE DEF woken
<1> QED
  BY <1>1, <1>2, <1>3 DEF BatchTypeOK

\* A step that takes from the slots sectors without rows, none of a batch that
\* still holds its slot.
LEMMA SectorsGo ==
    ASSUME BatchInv, BatchTypeOK', UNCHANGED <<slotOf, layers, batchRefs>>,
           \A b \in Batches : batch'[b] = batch[b] \/ (batch[b] = "asleep" /\ batch'[b] = "get"),
           \A x \in BatchSectors : final'[x] = final[x] \/ (final'[x] = "update" /\ batch[x[1]] = "sealed"),
           \A s \in Slots : slots'[s].work <=> slots[s].work,
           \A b \in Batches : Holding(b) => slots'[slotOf[b]].sectors = slots[slotOf[b]].sectors,
           \A r \in batchRefs : r.sector \in slots[r.slot].sectors => r.sector \in slots'[r.slot].sectors
    PROVE  BatchInv'
<1>1. \A b \in Batches : SlotOK(b)'
  BY DEF BatchInv, SlotOK, Holding
<1>2. ASSUME NEW r \in batchRefs
      PROVE  SlotRefOK(r)'
  <2>1. r.sector \in BatchSectors /\ r.sector[1] \in Batches
    BY BatchTypes DEF BatchInv
  <2> QED
    BY <2>1 DEF BatchInv, SlotRefOK
<1>3. \A x \in BatchSectors : FinalOK(x)'
  BY BatchTypes DEF BatchInv, FinalOK
<1> QED
  BY <1>1, <1>2, <1>3 DEF BatchInv

LEMMA WatchSlotKeepsInv ==
    ASSUME BatchInv, NEW s \in Slots, WatchSlot(s)
    PROVE  BatchInv'
<1> DEFINE left == {x \in slots[s].sectors : [sector |-> x, slot |-> s] \in batchRefs}
<1>1. /\ ~slots[s].work
      /\ slots' = [slots EXCEPT ![s].sectors = left]
      /\ batch' = Signal(slots'[s].sectors = {})
      /\ UNCHANGED <<slotOf, inSDR, outSDR, layers, batchRefs, final, batchFaults>>
  BY DEF WatchSlot
<1>2. slots[s] \in [sectors : SUBSET BatchSectors, work : BOOLEAN] /\ left \subseteq BatchSectors
  BY DEF BatchInv, BatchTypeOK
<1>3. slots' = [slots EXCEPT ![s] = [slots[s] EXCEPT !.sectors = left]]
  BY <1>1
<1>4. /\ [slots[s] EXCEPT !.sectors = left] \in [sectors : SUBSET BatchSectors, work : BOOLEAN]
      /\ [slots[s] EXCEPT !.sectors = left].sectors = left
      /\ [slots[s] EXCEPT !.sectors = left].work = slots[s].work
  BY <1>2
<1>5. /\ slots'[s].sectors = left /\ slots'[s].work = slots[s].work
      /\ \A t \in Slots : t # s => slots'[t] = slots[t]
      /\ slots' \in [Slots -> [sectors : SUBSET BatchSectors, work : BOOLEAN]]
  BY <1>3, <1>4 DEF BatchInv, BatchTypeOK
<1>6. BatchTypeOK'
  BY <1>1, <1>5, SignalWakes DEF BatchInv, BatchTypeOK
<1>7. \A b \in Batches : batch'[b] = batch[b] \/ (batch[b] = "asleep" /\ batch'[b] = "get")
  BY <1>1, SignalWakes DEF BatchInv
<1>8. \A b \in Batches : Holding(b) => slots'[slotOf[b]].sectors = slots[slotOf[b]].sectors
  BY <1>1, <1>5 DEF BatchInv, SlotOK
<1>9. ASSUME NEW r \in batchRefs, r.sector \in slots[r.slot].sectors
      PROVE  r.sector \in slots'[r.slot].sectors
  <2>1. r = [sector |-> r.sector, slot |-> r.slot] /\ r.slot \in Slots
    BY DEF BatchInv, BatchTypeOK
  <2> QED
    BY <2>1, <1>5, <1>9
<1>10. \A t \in Slots : slots'[t].work <=> slots[t].work
  BY <1>5
<1>11. UNCHANGED <<slotOf, layers, batchRefs>> /\ \A x \in BatchSectors : final'[x] = final[x]
  BY <1>1
<1> QED
  BY <1>6, <1>7, <1>8, <1>9, <1>10, <1>11, SectorsGo, Zenon

LEMMA SectorDoneKeepsInv ==
    ASSUME BatchInv, NEW x \in BatchSectors, SectorDone(x)
    PROVE  BatchInv'
<1>1. /\ final[x] = "done" /\ batch[x[1]] = "sealed"
      /\ slots' = [s \in Slots |-> [slots[s] EXCEPT !.sectors = @ \ {x}]]
      /\ final' = [final EXCEPT ![x] = "update"]
      /\ UNCHANGED <<slotOf, inSDR, outSDR, layers, batchRefs, batchFaults>>
  BY DEF SectorDone, BatchInv, FinalOK
<1>2. ASSUME NEW s \in Slots
      PROVE  /\ slots'[s] \in [sectors : SUBSET BatchSectors, work : BOOLEAN]
             /\ slots'[s].sectors = slots[s].sectors \ {x} /\ (slots'[s].work <=> slots[s].work)
  <2>1. slots[s] \in [sectors : SUBSET BatchSectors, work : BOOLEAN]
    BY DEF BatchInv, BatchTypeOK
  <2>2. slots'[s] = [slots[s] EXCEPT !.sectors = slots[s].sectors \ {x}]
    BY <1>1
  <2> QED
    BY <2>1, <2>2
<1>3. PICK on : batch' = Signal(on)
  BY DEF SectorDone
<1>4. BatchTypeOK'
  <2>1. slots' \in [Slots -> [sectors : SUBSET BatchSectors, work : BOOLEAN]]
    BY <1>1, <1>2
  <2> QED
    BY <2>1, <1>1, <1>3, SignalWakes DEF BatchInv, BatchTypeOK
<1>5. \A b \in Batches : batch'[b] = batch[b] \/ (batch[b] = "asleep" /\ batch'[b] = "get")
  BY <1>3, SignalWakes DEF BatchInv
<1>6. \A y \in BatchSectors : final'[y] = final[y] \/ (final'[y] = "update" /\ batch[y[1]] = "sealed")
  <2>1. final'[x] = "update" /\ \A y \in BatchSectors : y # x => final'[y] = final[y]
    BY <1>1 DEF BatchInv, BatchTypeOK
  <2> QED
    BY <1>1, <2>1
<1>7. ASSUME NEW b \in Batches, Holding(b)
      PROVE  slots'[slotOf[b]].sectors = slots[slotOf[b]].sectors
  <2>1. x[1] # b
    BY <1>1, <1>7 DEF Holding
  <2>2. x \notin SectorsOf(b)
    BY <2>1, SectorsOfBatch
  <2>3. slotOf[b] \in Slots /\ slots[slotOf[b]].sectors = SectorsOf(b)
    BY <1>7 DEF BatchInv, SlotOK
  <2>4. SectorsOf(b) \ {x} = SectorsOf(b)
    BY <2>2
  <2> QED
    BY <2>3, <2>4, <1>2
<1>8. ASSUME NEW r \in batchRefs, r.sector \in slots[r.slot].sectors
      PROVE  r.sector \in slots'[r.slot].sectors
  <2>1. r.sector # x /\ r.slot \in Slots
    BY <1>1, BatchTypes DEF BatchInv, SlotRefOK
  <2> QED
    BY <2>1, <1>2, <1>8
<1> QED
  BY <1>1, <1>2, <1>4, <1>5, <1>6, <1>7, <1>8, SectorsGo

\* The first phase writes where no row says that there is anything.
LEMMA Pc1KeepsInv ==
    ASSUME BatchInv, NEW b \in Batches, Pc1(b)
    PROVE  BatchInv'
<1>1. /\ batch[b] = "pc1" /\ layers' = [layers EXCEPT ![slotOf[b]] = b] /\ batch' = [batch EXCEPT ![b] = "between"]
      /\ inSDR' = NoBatch
      /\ UNCHANGED <<slotOf, outSDR, slots, batchRefs, final, batchFaults>>
  BY DEF Pc1
<1>2. Holding(b) /\ slotOf[b] \in Slots
  BY <1>1 DEF Holding, BatchInv, SlotOK
<1>3. BatchTypeOK'
  BY <1>1, <1>2 DEF BatchInv, BatchTypeOK, Running
<1>4. ASSUME NEW c \in Batches
      PROVE  SlotOK(c)'
  <2>1. CASE c = b
    BY <2>1, <1>1, <1>2 DEF BatchInv, BatchTypeOK, SlotOK
  <2>2. CASE c # b
    <3>1. Holding(c) => slotOf[c] # slotOf[b]
      BY <2>2, <1>2, SlotsDiffer
    <3> QED
      BY <2>2, <3>1, <1>1 DEF BatchInv, BatchTypeOK, SlotOK, Holding
  <2> QED
    BY <2>1, <2>2
<1>5. ASSUME NEW r \in batchRefs
      PROVE  SlotRefOK(r)'
  <2>1. r.slot # slotOf[b]
    BY <1>1, NotNamed
  <2>2. r.sector[1] # b
    BY <1>1 DEF BatchInv, SlotRefOK
  <2>3. layers'[r.slot] = layers[r.slot] /\ batch'[r.sector[1]] = batch[r.sector[1]]
    BY <2>1, <2>2, <1>1, BatchTypes DEF BatchInv, BatchTypeOK
  <2> QED
    BY <2>3, <1>1 DEF BatchInv, SlotRefOK
<1>6. ASSUME NEW x \in BatchSectors
      PROVE  FinalOK(x)'
  BY <1>1, BatchTypes DEF BatchInv, BatchTypeOK, FinalOK
<1> QED
  BY <1>1, <1>3, <1>4, <1>5, <1>6 DEF BatchInv

\* The transaction after the second phase: the rows name the slot that has the
\* layers.
LEMMA Pc2KeepsInv ==
    ASSUME BatchInv, NEW b \in Batches, Pc2(b)
    PROVE  BatchInv'
<1>1. /\ batch[b] = "pc2" /\ batch' = [batch EXCEPT ![b] = "mark"]
      /\ batchRefs' = batchRefs \cup {[sector |-> x, slot |-> slotOf[b]] : x \in SectorsOf(b)}
      /\ final' = [x \in BatchSectors |-> IF x \in SectorsOf(b) THEN "ready" ELSE final[x]]
      /\ UNCHANGED <<slotOf, inSDR, outSDR, slots, layers, batchFaults>>
  BY DEF Pc2
<1>2. /\ slotOf[b] \in Slots /\ slots[slotOf[b]].sectors = SectorsOf(b) /\ slots[slotOf[b]].work
      /\ layers[slotOf[b]] = b
  BY <1>1 DEF Holding, BatchInv, SlotOK
<1>3. /\ batch'[b] = "mark" /\ \A c \in Batches : c # b => batch'[c] = batch[c]
      /\ batch' \in [Batches -> Running \cup {"new", "queued", "sealed"}]
  BY <1>1 DEF BatchInv, BatchTypeOK, Running
<1>4. BatchTypeOK'
  <2>1. batchRefs' \subseteq [sector : BatchSectors, slot : Slots]
    BY <1>1, <1>2, SectorsOfBatch DEF BatchInv, BatchTypeOK
  <2>2. final' \in [BatchSectors -> {"none", "ready", "finalize", "done", "update", "finalized"}]
    BY <1>1 DEF BatchInv, BatchTypeOK
  <2> QED
    BY <1>1, <1>3, <2>1, <2>2 DEF BatchInv, BatchTypeOK
<1>5. ASSUME NEW c \in Batches
      PROVE  SlotOK(c)'
  BY <1>1, <1>2, <1>3 DEF BatchInv, SlotOK, Holding
<1>6. ASSUME NEW r \in batchRefs'
      PROVE  SlotRefOK(r)'
  <2>1. CASE r \in batchRefs
    <3>1. r.sector \in BatchSectors /\ r.sector[1] \in Batches /\ r.sector[1] # b
      BY <2>1, <1>1, BatchTypes DEF BatchInv, SlotRefOK
    <3>2. r.sector \notin SectorsOf(b)
      BY <3>1, SectorsOfBatch
    <3> QED
      BY <2>1, <3>1, <3>2, <1>1, <1>3 DEF BatchInv, SlotRefOK
  <2>2. CASE r \notin batchRefs
    <3>1. r.sector \in SectorsOf(b) /\ r.slot = slotOf[b]
      BY <2>2, <1>1
    <3>2. r.sector \in BatchSectors /\ r.sector[1] = b
      BY <3>1, SectorsOfBatch
    <3> QED
      BY <3>1, <3>2, <1>1, <1>2, <1>3 DEF SlotRefOK
  <2> QED
    BY <2>1, <2>2
<1>7. ASSUME NEW x \in BatchSectors
      PROVE  FinalOK(x)'
  <2>1. CASE x[1] = b
    <3>1. x \in SectorsOf(b)
      BY <2>1, SectorsOfBatch
    <3> QED
      BY <2>1, <3>1, <1>1, <1>3 DEF FinalOK
  <2>2. CASE x[1] # b
    <3>1. x \notin SectorsOf(b) /\ x[1] \in Batches
      BY <2>2, SectorsOfBatch
    <3> QED
      BY <2>2, <3>1, <1>1, <1>3 DEF BatchInv, FinalOK
  <2> QED
    BY <2>1, <2>2
<1> QED
  BY <1>4, <1>5, <1>6, <1>7 DEF BatchInv

\* A batch gives its slot up to the finalize tasks of its sectors.
LEMMA MarkWorkDoneKeepsInv ==
    ASSUME BatchInv, NEW b \in Batches, MarkWorkDone(b)
    PROVE  BatchInv'
<1>1. /\ batch[b] = "mark" /\ batch' = [batch EXCEPT ![b] = "sealed"] /\ slotOf' = [slotOf EXCEPT ![b] = 0]
      /\ slots' = [slots EXCEPT ![slotOf[b]].work = FALSE] /\ outSDR' = NoBatch
      /\ UNCHANGED <<inSDR, layers, batchRefs, final, batchFaults>>
  BY DEF MarkWorkDone
<1>2. Holding(b) /\ slotOf[b] \in Slots
  BY <1>1 DEF Holding, BatchInv, SlotOK
<1>3. /\ \A s \in Slots : slots'[s].sectors = slots[s].sectors
      /\ \A s \in Slots : s # slotOf[b] => slots'[s] = slots[s]
      /\ slots' \in [Slots -> [sectors : SUBSET BatchSectors, work : BOOLEAN]]
  <2> DEFINE x == [slots[slotOf[b]] EXCEPT !.work = FALSE]
  <2>1. slots[slotOf[b]] \in [sectors : SUBSET BatchSectors, work : BOOLEAN]
    BY <1>2 DEF BatchInv, BatchTypeOK
  <2>2. x \in [sectors : SUBSET BatchSectors, work : BOOLEAN]
    BY <2>1, Zenon
  <2>3. x.sectors = slots[slotOf[b]].sectors
    BY <2>1
  <2>4. slots' = [slots EXCEPT ![slotOf[b]] = x]
    BY <1>1
  <2> HIDE DEF x
  <2> QED
    BY <1>2, <2>2, <2>3, <2>4 DEF BatchInv, BatchTypeOK
<1>4. /\ batch'[b] = "sealed" /\ \A c \in Batches : c # b => batch'[c] = batch[c]
      /\ \A c \in Batches : c # b => slotOf'[c] = slotOf[c]
  BY <1>1 DEF BatchInv, BatchTypeOK
<1>5. BatchTypeOK'
  BY <1>1, <1>3, BatchAssumption DEF BatchInv, BatchTypeOK, Running
<1>6. ASSUME NEW c \in Batches
      PROVE  SlotOK(c)'
  <2>1. CASE c = b
    BY <2>1, <1>4 DEF SlotOK, Holding
  <2>2. CASE c # b
    <3>1. Holding(c) => slotOf[c] # slotOf[b]
      BY <2>2, <1>2, SlotsDiffer
    <3> QED
      BY <2>2, <3>1, <1>1, <1>3, <1>4 DEF BatchInv, SlotOK, Holding
  <2> QED
    BY <2>1, <2>2
<1>7. ASSUME NEW r \in batchRefs
      PROVE  SlotRefOK(r)'
  BY <1>1, <1>3, <1>4, BatchTypes DEF BatchInv, SlotRefOK
<1>8. ASSUME NEW x \in BatchSectors
      PROVE  FinalOK(x)'
  BY <1>1, <1>4, BatchTypes DEF BatchInv, FinalOK
<1> QED
  BY <1>1, <1>5, <1>6, <1>7, <1>8 DEF BatchInv

\* A phase that fails aborts a slot that no row names.
LEMMA BatchFailsKeepsInv ==
    ASSUME BatchInv, NEW b \in Batches, BatchFails(b)
    PROVE  BatchInv'
<1>1. /\ batch[b] \in {"pc1", "pc2"} /\ batch' = [Signal(TRUE) EXCEPT ![b] = "queued"]
      /\ slotOf' = [slotOf EXCEPT ![b] = 0]
      /\ slots' = [slots EXCEPT ![slotOf[b]] = NoWork]
      /\ layers' = IF batch[b] = "pc1" THEN [layers EXCEPT ![slotOf[b]] = NoBatch] ELSE layers
      /\ inSDR' \in {inSDR, NoBatch} /\ outSDR' \in {outSDR, NoBatch}
      /\ batchFaults < MaxBatchFaults /\ batchFaults' = batchFaults + 1
      /\ UNCHANGED <<batchRefs, final>>
  BY DEF BatchFails
<1>2. Holding(b) /\ slotOf[b] \in Slots
  BY <1>1 DEF Holding, BatchInv, SlotOK
<1>3. /\ \A s \in Slots : s # slotOf[b] => slots'[s] = slots[s] /\ layers'[s] = layers[s]
      /\ slots' \in [Slots -> [sectors : SUBSET BatchSectors, work : BOOLEAN]]
      /\ layers' \in [Slots -> Batches \cup {NoBatch}]
  <2>1. NoWork \in [sectors : SUBSET BatchSectors, work : BOOLEAN]
    BY DEF NoWork
  <2> QED
    BY <2>1, <1>1, <1>2 DEF BatchInv, BatchTypeOK
<1>4. /\ batch'[b] = "queued"
      /\ \A c \in Batches : c # b => batch'[c] = batch[c] \/ (batch[c] = "asleep" /\ batch'[c] = "get")
      /\ batch' \in [Batches -> Running \cup {"new", "queued", "sealed"}]
      /\ \A c \in Batches : c # b => slotOf'[c] = slotOf[c]
  BY <1>1, SignalWakes DEF BatchInv, BatchTypeOK
<1>5. BatchTypeOK'
  <2>1. batchFaults' \in 0..MaxBatchFaults
    BY <1>1, BatchAssumption DEF BatchInv, BatchTypeOK
  <2>2. slotOf' \in [Batches -> 0..SlotCount]
    BY <1>1, BatchAssumption DEF BatchInv, BatchTypeOK
  <2> QED
    BY <2>1, <2>2, <1>1, <1>3, <1>4 DEF BatchInv, BatchTypeOK
<1>6. ASSUME NEW c \in Batches
      PROVE  SlotOK(c)'
  <2>1. CASE c = b
    BY <2>1, <1>4 DEF SlotOK, Holding
  <2>2. CASE c # b
    <3>1. Holding(c) => slotOf[c] # slotOf[b]
      BY <2>2, <1>2, SlotsDiffer
    <3> QED
      BY <2>2, <3>1, <1>3, <1>4 DEF BatchInv, SlotOK, Holding
  <2> QED
    BY <2>1, <2>2
<1>7. ASSUME NEW r \in batchRefs
      PROVE  SlotRefOK(r)'
  <2>1. r.slot # slotOf[b] /\ r.slot \in Slots
    BY <1>1, NotNamed, BatchTypes DEF BatchInv
  <2>2. r.sector[1] # b
    BY <1>1 DEF BatchInv, SlotRefOK
  <2>3. SlotRefOK(r) /\ r.sector[1] \in Batches
    BY BatchTypes DEF BatchInv
  <2>4. layers'[r.slot] = layers[r.slot] /\ slots'[r.slot] = slots[r.slot]
    BY <2>1, <1>3
  <2>5. batch'[r.sector[1]] = batch[r.sector[1]]
    BY <2>2, <2>3, <1>4 DEF SlotRefOK
  <2> QED
    BY <2>3, <2>4, <2>5, <1>1 DEF SlotRefOK
<1>8. ASSUME NEW x \in BatchSectors
      PROVE  FinalOK(x)'
  <2>1. FinalOK(x) /\ x[1] \in Batches /\ final'[x] = final[x]
    BY <1>1, BatchTypes DEF BatchInv
  <2>2. CASE x[1] = b
    BY <1>1, <2>1, <2>2 DEF FinalOK
  <2>3. CASE x[1] # b
    BY <1>4, <2>1, <2>3 DEF FinalOK
  <2> QED
    BY <2>2, <2>3
<1> QED
  BY <1>1, <1>5, <1>6, <1>7, <1>8 DEF BatchInv

\* The steps of Finalize and the removal of a sector: rows only go.
LEMMA RowsOnlyGo ==
    ASSUME BatchInv, BatchTypeOK', UNCHANGED <<batch, slotOf, slots, layers>>, batchRefs' \subseteq batchRefs,
           NEW x \in BatchSectors, batch[x[1]] = "sealed",
           \A y \in BatchSectors : y # x => final'[y] = final[y],
           final'[x] = "done" => \A r \in batchRefs' : r.sector # x
    PROVE  BatchInv'
<1>1. \A b \in Batches : SlotOK(b)'
  BY DEF BatchInv, SlotOK, Holding
<1>2. ASSUME NEW r \in batchRefs'
      PROVE  SlotRefOK(r)'
  <2>1. r.sector \in BatchSectors
    BY BatchTypes DEF BatchInv
  <2> QED
    BY <2>1 DEF BatchInv, SlotRefOK
<1>3. ASSUME NEW y \in BatchSectors
      PROVE  FinalOK(y)'
  BY DEF BatchInv, FinalOK
<1> QED
  BY <1>1, <1>2, <1>3 DEF BatchInv

LEMMA FinalizeKeepsInv ==
    ASSUME BatchInv, NEW x \in BatchSectors,
           StartFinalize(x) \/ DeleteRef(x) \/ FinishFinalize(x) \/ FinalizeFails(x) \/ SectorRemove(x)
    PROVE  BatchInv'
<1>1. /\ batch[x[1]] = "sealed" /\ UNCHANGED <<batch, slotOf, slots, layers>> /\ batchRefs' \subseteq batchRefs
      /\ final'[x] = "done" => \A r \in batchRefs' : r.sector # x
  BY DEF BatchInv, BatchTypeOK, FinalOK, StartFinalize, DeleteRef, FinishFinalize, FinalizeFails, SectorRemove
<1>2. /\ \A y \in BatchSectors : y # x => final'[y] = final[y]
      /\ final' \in [BatchSectors -> {"none", "ready", "finalize", "done", "update", "finalized"}]
  BY DEF BatchInv, BatchTypeOK, StartFinalize, DeleteRef, FinishFinalize, FinalizeFails, SectorRemove
<1>3. BatchTypeOK'
  <2>1. batchFaults' \in 0..MaxBatchFaults /\ UNCHANGED <<inSDR, outSDR>>
    BY BatchAssumption
    DEF BatchInv, BatchTypeOK, StartFinalize, DeleteRef, FinishFinalize, FinalizeFails, SectorRemove
  <2> QED
    BY <2>1, <1>1, <1>2 DEF BatchInv, BatchTypeOK
<1> QED
  BY <1>1, <1>2, <1>3, RowsOnlyGo

\* A restarted process finds the slots that the rows name taken, and the others free.
LEMMA RestartMachineKeepsInv ==
    ASSUME BatchInv, RestartMachine
    PROVE  BatchInv'
<1>1. /\ batch' = [b \in Batches |-> IF batch[b] = "mark" THEN "sealed"
                                     ELSE IF batch[b] \in Running THEN "queued" ELSE batch[b]]
      /\ slots' = [s \in Slots |-> [sectors |-> {r.sector : r \in {q \in batchRefs : q.slot = s}}, work |-> FALSE]]
      /\ layers' = [s \in Slots |-> IF \E b \in Batches : batch[b] = "pc1" /\ slotOf[b] = s THEN NoBatch ELSE layers[s]]
      /\ final' = [x \in BatchSectors |-> IF final[x] \in {"finalize", "done", "update"} THEN "ready" ELSE final[x]]
      /\ UNCHANGED batchRefs
  BY DEF RestartMachine
<1>2. BatchTypeOK'
  <2>1. batchFaults' \in 0..MaxBatchFaults
    BY BatchAssumption DEF BatchInv, BatchTypeOK, RestartMachine
  <2>2. slots' \in [Slots -> [sectors : SUBSET BatchSectors, work : BOOLEAN]]
    <3>1. \A s \in Slots : {r.sector : r \in {q \in batchRefs : q.slot = s}} \subseteq BatchSectors
      BY BatchTypes DEF BatchInv
    <3> QED
      BY <3>1, <1>1
  <2>3. layers' \in [Slots -> Batches \cup {NoBatch}]
    BY <1>1 DEF BatchInv, BatchTypeOK
  <2>4. batch' \in [Batches -> Running \cup {"new", "queued", "sealed"}]
    BY <1>1 DEF BatchInv, BatchTypeOK
  <2>5. final' \in [BatchSectors -> {"none", "ready", "finalize", "done", "update", "finalized"}]
    BY <1>1 DEF BatchInv, BatchTypeOK
  <2>6. slotOf' \in [Batches -> 0..SlotCount] /\ inSDR' = NoBatch /\ outSDR' = NoBatch
    BY BatchAssumption DEF RestartMachine
  <2> QED
    BY <1>1, <2>1, <2>2, <2>3, <2>4, <2>5, <2>6 DEF BatchInv, BatchTypeOK
<1>3. \A b \in Batches : SlotOK(b)'
  BY <1>1 DEF SlotOK, Holding, Running, BatchInv, BatchTypeOK
<1>4. ASSUME NEW r \in batchRefs
      PROVE  SlotRefOK(r)'
  <2>1. r.sector \in BatchSectors /\ r.slot \in Slots /\ r.sector[1] \in Batches
    BY BatchTypes DEF BatchInv
  <2>2. layers'[r.slot] = layers[r.slot]
    <3>1. ~\E b \in Batches : batch[b] = "pc1" /\ slotOf[b] = r.slot
      BY NotNamed
    <3> QED
      BY <3>1, <2>1, <1>1
  <2>3. r.sector \in slots'[r.slot].sectors
    BY <2>1, <1>1
  <2>4. batch'[r.sector[1]] \in {"mark", "sealed"} /\ final'[r.sector] # "done"
    BY <2>1, <1>1 DEF BatchInv, SlotRefOK, Running
  <2> QED
    BY <2>2, <2>3, <2>4 DEF BatchInv, SlotRefOK
<1>5. ASSUME NEW x \in BatchSectors
      PROVE  FinalOK(x)'
  BY <1>1, BatchTypes DEF BatchInv, FinalOK, Running
<1> QED
  BY <1>1, <1>2, <1>3, <1>4, <1>5 DEF BatchInv

LEMMA BatchStepKeepsInv == BatchInv /\ [BatchNext]_batchVars => BatchInv'
<1> SUFFICES ASSUME BatchInv, [BatchNext]_batchVars
             PROVE  BatchInv'
  OBVIOUS
<1>1. ASSUME NEW b \in Batches, Schedule(b) \/ StartBatch(b) \/ LockInSDR(b) \/ LockOutSDR(b)
      PROVE  BatchInv'
  <2>1. PICK l \in {"queued", "enter", "get", "pc2"} :
           /\ batch' = [batch EXCEPT ![b] = l]
           /\ l = "pc2" => batch[b] = "between"
           /\ batch[b] \notin {"mark", "sealed"}
    BY <1>1 DEF Schedule, StartBatch, LockInSDR, LockOutSDR
  <2>2. inSDR' \in {inSDR, b} /\ outSDR' \in {outSDR, b} /\ UNCHANGED <<slotOf, slots, layers, batchRefs, final, batchFaults>>
    BY <1>1 DEF Schedule, StartBatch, LockInSDR, LockOutSDR
  <2>3. BatchTypeOK'
    BY <2>1, <2>2 DEF BatchInv, BatchTypeOK, Running
  <2> QED
    BY <2>1, <2>2, <2>3, BatchMoves DEF BatchInv, BatchTypeOK
<1>2. CASE UNCHANGED batchVars
  BY <1>2, BatchMoves DEF batchVars, BatchInv, BatchTypeOK
<1> QED
  BY <1>1, <1>2, GetKeepsInv, Pc1KeepsInv, Pc2KeepsInv, MarkWorkDoneKeepsInv, BatchFailsKeepsInv,
     WatchSlotKeepsInv, FinalizeKeepsInv, SectorDoneKeepsInv, RestartMachineKeepsInv
  DEF BatchNext

\* As long as a row of batch_sector_refs says that a sector's layers are in a
\* slot they are there, whatever batches follow and whatever fails or restarts
\* (SlotMgr, SupraSeal.Do).
THEOREM LayersAreKept == BatchSpec => []LayersIntact
<1>1. BatchInv => LayersIntact
  BY DEF BatchInv, SlotRefOK, LayersIntact
<1> QED
  BY <1>1, BatchInitInv, BatchStepKeepsInv, PTL DEF BatchSpec

\* The slots, locks and rows of SupraSeal.Do and SlotMgr keep their types.
THEOREM BatchTypesHold == BatchSpec => []BatchTypeOK
<1>1. BatchInv => BatchTypeOK
  BY DEF BatchInv
<1> QED
  BY <1>1, BatchInitInv, BatchStepKeepsInv, PTL DEF BatchSpec

=============================================================================

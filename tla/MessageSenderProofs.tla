------------------------ MODULE MessageSenderProofs ------------------------
(***************************************************************************)
(* What MessageSender keeps, for any number of messages, keys, workers,    *)
(* API nodes and faults.                                                   *)
(***************************************************************************)
EXTENDS MessageSender, FiniteSetTheorems, WellFoundedInduction, TLAPS

-----------------------------------------------------------------------------
(* The inductive invariant, in three layers.                               *)

\* What holds even when two workers are at the same message: where a worker is
\* in Do says what it knows ...
WorkerOK(w) ==
    /\ pc[w] # "idle" => msg[w] \in Msgs
    /\ pc[w] = "lock" /\ known[w] # NoNonce => nonce[msg[w]] \in Nat
    /\ pc[w] \in {"max", "write"} => known[w] \in Nat
    /\ pc[w] \in {"push", "persist"} => known[w] \in Nat /\ nonce[msg[w]] \in Nat
    /\ pc[w] = "persist" => verdict[w] \in {"sent", "failed"}
    /\ pc[w] = "persist" /\ verdict[w] = "sent" => <<msg[w], known[w]>> \in pushed

\* ... a row with an outcome has a nonce, and only what was pushed is "sent".
RowOK(m) ==
    /\ result[m] # None => nonce[m] \in Nat
    /\ result[m] = "sent" \/ answer[m] = "sent" => \E s \in pushed : s[1] = m

BasicInv ==
    /\ TypeOK
    /\ \A w \in Workers : WorkerOK(w)
    /\ \A m \in Msgs : RowOK(m)
    /\ IsFiniteSet(pushed)
    /\ \A a \in Apis : pool[a] \subseteq pushed

\* Between taking the lock and giving it back.
Inside(w) == pc[w] \in {"nonce", "max", "write", "push", "persist", "release"}

\* What holds when nobody but its owner works on a message: the worker owns
\* it and, inside, has its key's lock; the nonce it is about to assign is not
\* in the row yet, the one it pushes is.
OwnerOK(w) ==
    /\ pc[w] # "idle" => owner[msg[w]] = w /\ task[msg[w]] = "present"
    /\ Inside(w) => lock[Key(w)] = msg[w]
    /\ pc[w] \in {"nonce", "max", "write"} => nonce[msg[w]] = NoNonce
    /\ pc[w] \in {"lock", "push", "persist"} => known[w] = nonce[msg[w]]

\* How many nonces of the key were used.
Count(k) == Cardinality(NoncesOf(pushed, k))

\* Messages are pushed with the nonce of their row, and no nonce is out of turn.
SequenceOK ==
    /\ \A s \in pushed : nonce[s[1]] = s[2]
    /\ \A m \in Msgs : result[m] = "sent" => <<m, nonce[m]>> \in pushed
    /\ \A k \in Keys : NoncesOf(pushed, k) = 0 .. Count(k) - 1
    /\ \A m \in Msgs : nonce[m] <= Count(FromKey[m])
    /\ \A w \in Workers : pc[w] \in {"max", "write"} => known[w] <= Count(Key(w))

OrderInv == NoStalls => (\A w \in Workers : OwnerOK(w)) /\ SequenceOK

\* The send has failed for good, and its nonce is free.
Void(m) ==
    /\ result[m] = "failed"
    /\ <<m, nonce[m]>> \notin pushed
    /\ "refused" \in faults.mix
    /\ \/ task[m] = "deleted"
       \/ \E w \in Workers : msg[w] = m /\ pc[w] \in {"release", "return"} /\ verdict[w] = "done"

\* When no worker that was refused can come back.
Orderly ==
    /\ SharedApi
    /\ NoStalls
    /\ "refused" \in faults.mix => "crash" \notin faults.mix /\ "database" \notin faults.mix

\* Then two messages of a key share a nonce only if one of them is void, ...
PairOK(m, o) ==
    m # o /\ FromKey[m] = FromKey[o] /\ nonce[m] = nonce[o] /\ nonce[m] # NoNonce => Void(m) \/ Void(o)

\* ... a send that failed was pushed with its answer lost, or is void, ...
FailureOK(m) == result[m] = "failed" => <<m, nonce[m]>> \in pushed \/ Void(m)

\* ... so is one that is about to be stored as failed, ...
RefusalOK(w) ==
    pc[w] = "persist" /\ verdict[w] = "failed" => <<msg[w], known[w]>> \in pushed \/ "refused" \in faults.mix

\* ... a nonce about to be assigned is above all that were pushed, ...
FreshOK(w) == pc[w] \in {"max", "write"} => \A n \in NoncesOf(pushed, Key(w)) : n < known[w]

\* ... and the mempool the workers see knows every nonce that was pushed.
PoolKnows(w) == \A k \in Keys : NoncesOf(pool[ApiOf[w]], k) = NoncesOf(pushed, k)

NoncesDiffer ==
    /\ \A m, o \in Msgs : PairOK(m, o)
    /\ \A m \in Msgs : FailureOK(m)
    /\ \A w \in Workers : RefusalOK(w)
    /\ \A w \in Workers : FreshOK(w)
    /\ \A w \in Workers : PoolKnows(w)

SenderInv == BasicInv /\ OrderInv /\ (Orderly => NoncesDiffer)

-----------------------------------------------------------------------------
(* Nonces.                                                                 *)

LEMMA LeastNatural ==
    ASSUME NEW T, T \subseteq Nat, T # {}
    PROVE  \E x \in T : \A y \in T : x <= y
<1>1. PICK x \in T : \A y \in T : ~(<<y, x>> \in OpToRel(<, Nat))
  BY WFMin, NatLessThanWellFounded, Zenon
<1>2. \A y \in T : ~(y < x)
  BY <1>1 DEF OpToRel
<1> QED
  BY <1>2

\* A finite set of naturals has a largest member: a smallest set without one
\* would have one when it loses a member.
LEMMA LargestNatural ==
    ASSUME NEW N, N \subseteq Nat, N # {}, IsFiniteSet(N)
    PROVE  \E x \in N : \A y \in N : x >= y
<1> DEFINE Unbounded(T) == T \subseteq Nat /\ T # {} /\ IsFiniteSet(T) /\ ~\E x \in T : \A y \in T : x >= y
           Sizes == {n \in Nat : \E T \in SUBSET Nat : Unbounded(T) /\ Cardinality(T) = n}
<1>1. SUFFICES ASSUME Unbounded(N)
               PROVE  FALSE
  OBVIOUS
<1>2. Cardinality(N) \in Sizes
  BY <1>1, FS_CardinalityType
<1>3. PICK n \in Sizes : \A i \in Sizes : n <= i
  <2>1. Sizes \subseteq Nat
    OBVIOUS
  <2> HIDE DEF Sizes
  <2> QED
    BY <1>2, <2>1, LeastNatural, Zenon
<1>4. PICK T \in SUBSET Nat : Unbounded(T) /\ Cardinality(T) = n
  BY <1>3
<1>5. PICK z \in T : TRUE
  BY <1>4
<1> DEFINE U == T \ {z}
<1>6. U \subseteq Nat /\ IsFiniteSet(U) /\ Cardinality(U) \in Nat /\ Cardinality(U) = n - 1
  BY <1>4, <1>5, FS_RemoveElement, FS_CardinalityType
<1>7. ~Unbounded(U)
  <2>1. n \in Nat /\ ~(n <= n - 1)
    BY <1>3
  <2> HIDE DEF Unbounded
  <2>2. SUFFICES ASSUME Unbounded(U)
                 PROVE  FALSE
    OBVIOUS
  <2>3. Cardinality(U) \in Sizes
    BY <1>6, <2>2
  <2> HIDE DEF Sizes
  <2> QED
    BY <1>3, <1>6, <2>1, <2>3
<1>8. CASE U = {}
  <2>1. z \in Nat /\ T = {z}
    BY <1>5, <1>8
  <2> QED
    BY <1>4, <2>1
<1>9. CASE U # {}
  <2>1. PICK x \in U : \A y \in U : x >= y
    BY <1>6, <1>7, <1>9
  <2>2. x \in T /\ x \in Nat /\ z \in Nat
    BY <2>1, <1>5
  <2>3. CASE x >= z
    BY <1>4, <2>1, <2>2, <2>3
  <2>4. CASE ~(x >= z)
    <3>1. \A y \in T : z >= y
      BY <2>1, <2>2, <2>4
    <3> QED
      BY <1>4, <1>5, <3>1
  <2> QED
    BY <2>3, <2>4
<1> QED
  BY <1>8, <1>9

\* What Above returns.
LEMMA AboveIsNext ==
    ASSUME NEW N, N \subseteq Nat, IsFiniteSet(N)
    PROVE  /\ Above(N) \in Nat
           /\ \A n \in N : n < Above(N)
           /\ N # {} => Above(N) - 1 \in N
           /\ N = {} => Above(N) = 0
<1>1. CASE N = {}
  BY <1>1 DEF Above
<1>2. CASE N # {}
  <2>1. Max(N) \in N /\ \A y \in N : Max(N) >= y
    BY <1>2, LargestNatural DEF Max
  <2>2. Above(N) = Max(N) + 1
    BY <1>2 DEF Above
  <2>3. PICK x \in Nat : x = Max(N)
    BY <2>1
  <2> QED
    BY <1>2, <2>1, <2>2, <2>3
<1> QED
  BY <1>1, <1>2

LEMMA MaxOfTwo ==
    ASSUME NEW i \in Nat, NEW j \in Nat
    PROVE  Max({i, j}) \in {i, j} /\ Max({i, j}) >= i /\ Max({i, j}) >= j
<1>1. \E x \in {i, j} : \A y \in {i, j} : x >= y
  BY SMT
<1> QED
  BY <1>1 DEF Max

\* The nonces of a key in a set of signed messages.
LEMMA NoncesAre ==
    ASSUME NEW S, S \subseteq Signed, NEW k
    PROVE  /\ NoncesOf(S, k) \subseteq Nat
           /\ \A s \in S : FromKey[s[1]] = k => s[2] \in NoncesOf(S, k)
           /\ \A n \in NoncesOf(S, k) : \E s \in S : FromKey[s[1]] = k /\ s[2] = n
           /\ IsFiniteSet(S) => IsFiniteSet(NoncesOf(S, k))
<1>1. /\ NoncesOf(S, k) \subseteq Nat
      /\ \A s \in S : FromKey[s[1]] = k => s[2] \in NoncesOf(S, k)
      /\ \A n \in NoncesOf(S, k) : \E s \in S : FromKey[s[1]] = k /\ s[2] = n
  BY DEF NoncesOf, Signed
<1>2. ASSUME IsFiniteSet(S)
      PROVE  IsFiniteSet(NoncesOf(S, k))
  <2> DEFINE own == {x \in S : FromKey[x[1]] = k}
             f   == [s \in own |-> s[2]]
  <2>1. IsFiniteSet(own)
    BY <1>2, FS_Subset
  <2>2. f \in Surjection(own, NoncesOf(S, k))
    BY DEF Surjection, NoncesOf
  <2> QED
    BY <2>1, <2>2, FS_Surjection
<1> QED
  BY <1>1, <1>2

\* The nonces when one signed message comes in.
LEMMA OneMoreNonce ==
    ASSUME NEW S, S \subseteq Signed, NEW s \in Signed, NEW k
    PROVE  /\ FromKey[s[1]] = k => NoncesOf(S \cup {s}, k) = NoncesOf(S, k) \cup {s[2]}
           /\ FromKey[s[1]] # k => NoncesOf(S \cup {s}, k) = NoncesOf(S, k)
  BY DEF NoncesOf

-----------------------------------------------------------------------------
(* BasicInv is inductive.                                                  *)

LEMMA FaultType ==
    ASSUME TypeOK, NEW kind, Fault(kind) \/ UNCHANGED faults
    PROVE  faults' \in [mix : Mixes, met : Nat] /\ faults'.mix = faults.mix
<1>1. faults \in [mix : Mixes, met : Nat]
  BY DEF TypeOK
<1>2. CASE Fault(kind)
  <2>1. faults' = [faults EXCEPT !.met = faults.met + 1]
    BY <1>2 DEF Fault
  <2> QED
    BY <1>1, <2>1
<1> QED
  BY <1>1, <1>2

\* Nonces stay assigned, and what was pushed stays pushed.
Grows == pushed \subseteq pushed' /\ \A m \in Msgs : nonce[m] \in Nat => nonce'[m] \in Nat

LEMMA OtherWorkersOK ==
    ASSUME BasicInv, Grows, NEW v \in Workers,
           pc'[v] = pc[v], msg'[v] = msg[v], known'[v] = known[v], verdict'[v] = verdict[v]
    PROVE  WorkerOK(v)'
  BY DEF BasicInv, WorkerOK, Grows

LEMMA OtherRowsOK ==
    ASSUME BasicInv, Grows, NEW m \in Msgs, result'[m] = result[m], answer'[m] = answer[m]
    PROVE  RowOK(m)'
  BY DEF BasicInv, RowOK, Grows

\* A step of one worker that leaves the rows and the mempools alone.
LEMMA WorkerStepBasic ==
    ASSUME BasicInv, TypeOK', NEW w \in Workers, UNCHANGED <<rowVars, chainVars>>,
           \A v \in Workers : v # w => pc'[v] = pc[v] /\ msg'[v] = msg[v] /\ known'[v] = known[v]
                                       /\ verdict'[v] = verdict[v],
           WorkerOK(w)'
    PROVE  BasicInv'
<1>1. Grows /\ UNCHANGED <<nonce, result, answer, pool, pushed>>
  BY DEF Grows, rowVars, chainVars
<1>2. \A v \in Workers : WorkerOK(v)'
  BY <1>1, OtherWorkersOK
<1>3. \A m \in Msgs : RowOK(m)'
  BY <1>1, OtherRowsOK
<1> QED
  BY <1>1, <1>2, <1>3 DEF BasicInv

LEMMA SendBasic ==
    ASSUME BasicInv, NEW m \in Msgs, Send(m) \/ SendReturns(m)
    PROVE  BasicInv'
<1>1. TypeOK'
  BY DEF BasicInv, TypeOK, Send, SendReturns, rowVars, chainVars, workerVars, engineVars
<1>2. Grows /\ UNCHANGED <<workerVars, pool, pushed, nonce, result>>
  BY DEF Grows, Send, SendReturns, rowVars, chainVars
<1>3. \A w \in Workers : WorkerOK(w)'
  BY <1>2, OtherWorkersOK DEF workerVars
<1>4. ASSUME NEW o \in Msgs
      PROVE  RowOK(o)'
  <2>1. answer'[o] = answer[o] \/ answer'[o] = result[o]
    BY DEF Send, SendReturns, rowVars, BasicInv, TypeOK
  <2> QED
    BY <1>2, <2>1 DEF BasicInv, RowOK
<1> QED
  BY <1>1, <1>2, <1>3, <1>4 DEF BasicInv

LEMMA StartBasic ==
    ASSUME BasicInv, NEW w \in Workers, NEW m \in Msgs, Start(w, m)
    PROVE  BasicInv'
<1>1. TypeOK'
  BY DEF BasicInv, TypeOK, Start, GoTo, rowVars, chainVars
<1>2. pc'[w] = "read" /\ msg'[w] = m
  BY DEF BasicInv, TypeOK, Start, GoTo
<1>3. WorkerOK(w)'
  BY <1>2 DEF WorkerOK
<1> QED
  BY <1>1, <1>3, WorkerStepBasic DEF BasicInv, TypeOK, Start, GoTo

LEMMA ReturnBasic ==
    ASSUME BasicInv, NEW w \in Workers, Return(w)
    PROVE  BasicInv'
<1>1. msg[w] \in Msgs
  BY DEF Return, BasicInv, WorkerOK
<1>2. TypeOK'
  BY <1>1 DEF BasicInv, TypeOK, Return, GoTo, rowVars, chainVars, engineVars
<1>3. WorkerOK(w)'
  BY DEF BasicInv, TypeOK, WorkerOK, Return, GoTo
<1> QED
  BY <1>2, <1>3, WorkerStepBasic DEF BasicInv, TypeOK, Return, GoTo

LEMMA CrashBasic ==
    ASSUME BasicInv, NEW w \in Workers, Crash(w)
    PROVE  BasicInv'
<1>1. faults' \in [mix : Mixes, met : Nat]
  BY FaultType DEF Crash, BasicInv
<1>2. TypeOK'
  BY <1>1 DEF BasicInv, TypeOK, Crash, GoTo, rowVars, chainVars
<1>3. WorkerOK(w)'
  BY DEF BasicInv, TypeOK, WorkerOK, Crash, GoTo
<1> QED
  BY <1>2, <1>3, WorkerStepBasic DEF BasicInv, TypeOK, Crash, GoTo

LEMMA StallBasic ==
    ASSUME BasicInv, NEW w \in Workers, Stall(w)
    PROVE  BasicInv'
<1>1. faults' \in [mix : Mixes, met : Nat]
  BY FaultType DEF Stall, BasicInv
<1>2. TypeOK'
  BY <1>1 DEF BasicInv, TypeOK, Stall, rowVars, chainVars, workerVars
<1>3. WorkerOK(w)'
  BY DEF BasicInv, WorkerOK, Stall, rowVars, chainVars, workerVars
<1> QED
  BY <1>2, <1>3, WorkerStepBasic DEF Stall, workerVars

LEMMA ReadRowBasic ==
    ASSUME BasicInv, NEW w \in Workers, ReadRow(w)
    PROVE  BasicInv'
<1>1. msg[w] \in Msgs
  BY DEF ReadRow, BasicInv, WorkerOK
<1>2. TypeOK'
  BY <1>1 DEF BasicInv, TypeOK, ReadRow, GoTo, rowVars, chainVars, engineVars
<1>3. WorkerOK(w)'
  BY <1>1 DEF BasicInv, TypeOK, WorkerOK, ReadRow, GoTo, rowVars
<1> QED
  BY <1>2, <1>3, WorkerStepBasic DEF BasicInv, TypeOK, ReadRow, GoTo

LEMMA AcquireLockBasic ==
    ASSUME BasicInv, NEW w \in Workers, AcquireLock(w)
    PROVE  BasicInv'
<1>1. msg[w] \in Msgs /\ Key(w) \in Keys
  BY SenderAssumption DEF AcquireLock, BasicInv, WorkerOK, Key
<1>2. TypeOK'
  BY <1>1 DEF BasicInv, TypeOK, AcquireLock, GoTo, rowVars, chainVars, engineVars
<1>3. WorkerOK(w)'
  BY <1>1 DEF BasicInv, TypeOK, WorkerOK, AcquireLock, GoTo, rowVars
<1> QED
  BY <1>2, <1>3, WorkerStepBasic DEF BasicInv, TypeOK, AcquireLock, GoTo

LEMMA LoseOwnershipBasic ==
    ASSUME BasicInv, NEW w \in Workers, LoseOwnership(w)
    PROVE  BasicInv'
<1>1. TypeOK'
  BY DEF BasicInv, TypeOK, LoseOwnership, GoTo, rowVars, chainVars, engineVars
<1>2. WorkerOK(w)'
  BY DEF BasicInv, TypeOK, WorkerOK, LoseOwnership, GoTo
<1> QED
  BY <1>1, <1>2, WorkerStepBasic DEF BasicInv, TypeOK, LoseOwnership, GoTo

\* The nonces of a mempool are finitely many naturals.
LEMMA PoolNonces ==
    ASSUME BasicInv, NEW a \in Apis, NEW k
    PROVE  NoncesOf(pool[a], k) \subseteq Nat /\ IsFiniteSet(NoncesOf(pool[a], k))
<1>1. pool[a] \subseteq Signed /\ IsFiniteSet(pool[a])
  BY FS_Subset DEF BasicInv, TypeOK
<1> QED
  BY <1>1, NoncesAre

\* So are the nonces of the rows that say "sent".
LEMMA SentNoncesAre ==
    ASSUME BasicInv, NEW k
    PROVE  SentNonces(k) \subseteq Nat /\ IsFiniteSet(SentNonces(k))
<1> DEFINE rows == {n \in Msgs : FromKey[n] = k /\ result[n] = "sent"}
           f    == [m \in rows |-> nonce[m]]
<1>1. SentNonces(k) \subseteq Nat
  BY DEF SentNonces, BasicInv, RowOK, None
<1>2. IsFiniteSet(rows)
  BY SenderAssumption, FS_Subset
<1>3. f \in Surjection(rows, SentNonces(k))
  BY DEF Surjection, SentNonces
<1> QED
  BY <1>1, <1>2, <1>3, FS_Surjection

LEMMA GetNonceBasic ==
    ASSUME BasicInv, NEW w \in Workers, GetNonce(w)
    PROVE  BasicInv'
<1>1. msg[w] \in Msgs /\ ApiOf[w] \in Apis
  BY SenderAssumption DEF GetNonce, BasicInv, WorkerOK
<1>2. Above(NoncesOf(pool[ApiOf[w]], Key(w))) \in Nat
  BY <1>1, PoolNonces, AboveIsNext
<1>3. TypeOK'
  BY <1>2 DEF BasicInv, TypeOK, GetNonce, GoTo, rowVars, chainVars, engineVars
<1>4. WorkerOK(w)'
  BY <1>1, <1>2 DEF BasicInv, TypeOK, WorkerOK, GetNonce, GoTo
<1> QED
  BY <1>3, <1>4, WorkerStepBasic DEF BasicInv, TypeOK, GetNonce, GoTo

LEMMA MaxNonceBasic ==
    ASSUME BasicInv, NEW w \in Workers, MaxNonce(w)
    PROVE  BasicInv'
<1>1. msg[w] \in Msgs /\ known[w] \in Nat
  BY DEF MaxNonce, BasicInv, WorkerOK
<1>2. Above(SentNonces(Key(w))) \in Nat
  BY SentNoncesAre, AboveIsNext
<1>3. Max({known[w], Above(SentNonces(Key(w)))}) \in Nat
  BY <1>1, <1>2, MaxOfTwo
<1>4. TypeOK'
  BY <1>3 DEF BasicInv, TypeOK, MaxNonce, GoTo, rowVars, chainVars, engineVars
<1>5. WorkerOK(w)'
  BY <1>1, <1>3 DEF BasicInv, TypeOK, WorkerOK, MaxNonce, GoTo
<1> QED
  BY <1>4, <1>5, WorkerStepBasic DEF BasicInv, TypeOK, MaxNonce, GoTo

LEMMA CallFailsBasic ==
    ASSUME BasicInv, NEW w \in Workers, CallFails(w)
    PROVE  BasicInv'
<1>1. faults' \in [mix : Mixes, met : Nat]
  BY FaultType DEF CallFails, BasicInv
<1>2. TypeOK'
  BY <1>1 DEF BasicInv, TypeOK, CallFails, Fail, GoTo, rowVars, chainVars, engineVars
<1>3. WorkerOK(w)'
  BY DEF BasicInv, TypeOK, WorkerOK, CallFails, Fail, GoTo
<1> QED
  BY <1>2, <1>3, WorkerStepBasic DEF BasicInv, TypeOK, CallFails, Fail, GoTo

LEMMA ReleaseBasic ==
    ASSUME BasicInv, NEW w \in Workers, Release(w)
    PROVE  BasicInv'
<1>1. faults' \in [mix : Mixes, met : Nat]
  BY FaultType DEF Release, BasicInv
<1>2. msg[w] \in Msgs /\ Key(w) \in Keys
  BY SenderAssumption DEF Release, BasicInv, WorkerOK, Key
<1>3. TypeOK'
  BY <1>1, <1>2 DEF BasicInv, TypeOK, Release, GoTo, rowVars, chainVars, engineVars
<1>4. WorkerOK(w)'
  BY <1>2 DEF BasicInv, TypeOK, WorkerOK, Release, GoTo
<1> QED
  BY <1>3, <1>4, WorkerStepBasic DEF BasicInv, TypeOK, Release, GoTo

LEMMA WriteNonceBasic ==
    ASSUME BasicInv, NEW w \in Workers, WriteNonce(w)
    PROVE  BasicInv'
<1>1. msg[w] \in Msgs /\ known[w] \in Nat
  BY DEF WriteNonce, BasicInv, WorkerOK
<1>2. nonce' = nonce \/ nonce' = [nonce EXCEPT ![msg[w]] = known[w]]
  BY DEF WriteNonce
<1>3. pc'[w] \in {"push", "release"} /\ (pc'[w] = "push" => nonce' = [nonce EXCEPT ![msg[w]] = known[w]])
  BY DEF WriteNonce, Fail, GoTo, BasicInv, TypeOK
<1>4. /\ \A v \in Workers : v # w => pc'[v] = pc[v] /\ verdict'[v] = verdict[v]
      /\ pc' \in [Workers -> {"idle", "read", "lock", "nonce", "max", "write", "push",
                              "persist", "release", "return"}]
      /\ verdict' \in [Workers -> {"sent", "failed", "done", "error"}]
      /\ UNCHANGED <<task, owner, retries, result, answer, lock, pool, pushed, msg, known>>
  BY DEF WriteNonce, Fail, GoTo, BasicInv, TypeOK, engineVars, chainVars
<1>5. faults' \in [mix : Mixes, met : Nat]
  BY FaultType DEF WriteNonce, BasicInv
<1>6. TypeOK'
  BY <1>1, <1>2, <1>4, <1>5 DEF BasicInv, TypeOK
<1>7. Grows
  BY <1>1, <1>2, <1>4 DEF Grows, BasicInv, TypeOK
<1>8. WorkerOK(w)'
  BY <1>1, <1>3, <1>4 DEF WorkerOK, BasicInv, TypeOK
<1>9. \A v \in Workers : WorkerOK(v)'
  BY <1>4, <1>7, <1>8, OtherWorkersOK
<1>10. \A m \in Msgs : RowOK(m)'
  BY <1>4, <1>7, OtherRowsOK
<1> QED
  BY <1>4, <1>6, <1>9, <1>10 DEF BasicInv

\* What a push does to the mempool of the worker's API node.
Replaced(w) ==
    {x \in pool[ApiOf[w]] : FromKey[x[1]] = FromKey[msg[w]] => x[2] # known[w]} \cup {<<msg[w], known[w]>>}

\* The outcomes of a push: accepted, or refused, the worker told "sent" only
\* if it was accepted.
LEMMA PushOutcome ==
    ASSUME BasicInv, NEW w \in Workers, Push(w)
    PROVE  /\ msg[w] \in Msgs /\ known[w] \in Nat /\ ApiOf[w] \in Apis /\ <<msg[w], known[w]>> \in Signed
           /\ pc[w] = "push" /\ pc' = [pc EXCEPT ![w] = "persist"]
           /\ verdict' \in {[verdict EXCEPT ![w] = "sent"], [verdict EXCEPT ![w] = "failed"]}
           /\ \/ /\ pushed' = pushed \cup {<<msg[w], known[w]>>}
                 /\ pool' = [pool EXCEPT ![ApiOf[w]] = Replaced(w)]
              \/ /\ verdict' = [verdict EXCEPT ![w] = "failed"] /\ UNCHANGED <<pool, pushed>>
                 /\ known[w] \in NoncesOf(pool[ApiOf[w]], Key(w)) \/ "refused" \in faults.mix
           /\ UNCHANGED <<engineVars, rowVars, lock, msg, known>>
           /\ faults' \in [mix : Mixes, met : Nat] /\ faults'.mix = faults.mix
<1>1. msg[w] \in Msgs /\ known[w] \in Nat /\ ApiOf[w] \in Apis
  BY SenderAssumption DEF Push, BasicInv, WorkerOK
<1>2. <<msg[w], known[w]>> \in Signed
  BY <1>1 DEF Signed
<1>3. faults' \in [mix : Mixes, met : Nat] /\ faults'.mix = faults.mix
  BY FaultType DEF Push, BasicInv
<1> DEFINE s == <<msg[w], known[w]>>
<1>4. CASE Accept(ApiOf[w], s) /\ verdict' \in {[verdict EXCEPT ![w] = "sent"], [verdict EXCEPT ![w] = "failed"]}
  <2>1. s[1] = msg[w] /\ s[2] = known[w]
    OBVIOUS
  <2>2. pushed' = pushed \cup {s} /\ pool' = [pool EXCEPT ![ApiOf[w]] = Replaced(w)]
    BY <1>4, <2>1 DEF Accept, Replaced
  <2> QED
    BY <1>1, <1>2, <1>3, <1>4, <2>2 DEF Push, GoTo
<1>5. CASE /\ verdict' = [verdict EXCEPT ![w] = "failed"] /\ UNCHANGED chainVars
           /\ known[w] \in NoncesOf(pool[ApiOf[w]], Key(w)) \/ Fault("refused")
  BY <1>1, <1>2, <1>3, <1>5 DEF Push, GoTo, Fault, chainVars
<1> QED
  BY <1>4, <1>5 DEF Push

LEMMA PushBasic ==
    ASSUME BasicInv, NEW w \in Workers, Push(w)
    PROVE  BasicInv'
<1>1. /\ pushed' \in {pushed, pushed \cup {<<msg[w], known[w]>>}} /\ pushed' \subseteq Signed
      /\ verdict'[w] = "sent" => <<msg[w], known[w]>> \in pushed'
      /\ pc'[w] = "persist" /\ verdict'[w] \in {"sent", "failed"}
      /\ \A v \in Workers : v # w => pc'[v] = pc[v] /\ verdict'[v] = verdict[v]
      /\ UNCHANGED <<task, owner, retries, nonce, result, answer, lock, msg, known>>
      /\ pc' \in [Workers -> {"idle", "read", "lock", "nonce", "max", "write", "push",
                              "persist", "release", "return"}]
      /\ verdict' \in [Workers -> {"sent", "failed", "done", "error"}]
  BY PushOutcome DEF BasicInv, TypeOK, engineVars, rowVars
<1>2. pool' \in [Apis -> SUBSET Signed] /\ \A a \in Apis : pool'[a] \subseteq pushed'
  <2>1. pool[ApiOf[w]] \subseteq Signed /\ pool[ApiOf[w]] \subseteq pushed
    BY PushOutcome DEF BasicInv, TypeOK
  <2>2. Replaced(w) \subseteq Signed /\ Replaced(w) \subseteq pushed \cup {<<msg[w], known[w]>>}
    BY <2>1, PushOutcome DEF Replaced
  <2>3. CASE UNCHANGED <<pool, pushed>>
    BY <2>3 DEF BasicInv, TypeOK
  <2>4. CASE pushed' = pushed \cup {<<msg[w], known[w]>>} /\ pool' = [pool EXCEPT ![ApiOf[w]] = Replaced(w)]
    <3>1. pool' \in [Apis -> SUBSET Signed]
      BY <2>2, <2>4 DEF BasicInv, TypeOK
    <3>2. ASSUME NEW a \in Apis
          PROVE  pool'[a] \subseteq pushed'
      <4>1. pool[a] \subseteq pushed /\ (pool'[a] = pool[a] \/ pool'[a] = Replaced(w))
        BY <2>4 DEF BasicInv, TypeOK
      <4> QED
        BY <2>2, <2>4, <4>1
    <3> QED
      BY <3>1, <3>2
  <2> QED
    BY <2>3, <2>4, PushOutcome
<1>3. TypeOK'
  BY <1>1, <1>2, PushOutcome DEF BasicInv, TypeOK
<1>4. Grows
  BY <1>1 DEF Grows
<1>5. WorkerOK(w)'
  BY <1>1, PushOutcome DEF WorkerOK, BasicInv
<1>6. \A v \in Workers : WorkerOK(v)'
  BY <1>1, <1>4, <1>5, OtherWorkersOK
<1>7. \A m \in Msgs : RowOK(m)'
  BY <1>1, <1>4, OtherRowsOK
<1>8. IsFiniteSet(pushed')
  <2>1. IsFiniteSet(pushed) /\ IsFiniteSet(pushed \cup {<<msg[w], known[w]>>})
    BY FS_AddElement DEF BasicInv
  <2> QED
    BY <1>1, <2>1
<1> QED
  BY <1>2, <1>3, <1>6, <1>7, <1>8 DEF BasicInv

LEMMA PersistBasic ==
    ASSUME BasicInv, NEW w \in Workers, Persist(w)
    PROVE  BasicInv'
<1>1. /\ msg[w] \in Msgs /\ nonce[msg[w]] \in Nat /\ verdict[w] \in {"sent", "failed"} /\ pc[w] = "persist"
      /\ verdict[w] = "sent" => <<msg[w], known[w]>> \in pushed
  BY DEF Persist, BasicInv, WorkerOK
<1>2. /\ result' \in {result, [result EXCEPT ![msg[w]] = verdict[w]]}
      /\ pc'[w] = "release"
      /\ \A v \in Workers : v # w => pc'[v] = pc[v] /\ verdict'[v] = verdict[v]
      /\ UNCHANGED <<task, owner, retries, nonce, answer, lock, pool, pushed, msg, known>>
      /\ pc' \in [Workers -> {"idle", "read", "lock", "nonce", "max", "write", "push",
                              "persist", "release", "return"}]
      /\ verdict' \in [Workers -> {"sent", "failed", "done", "error"}]
  BY DEF Persist, Fail, GoTo, BasicInv, TypeOK, engineVars, chainVars
<1>3. faults' \in [mix : Mixes, met : Nat]
  BY FaultType DEF Persist, BasicInv
<1>4. TypeOK'
  BY <1>1, <1>2, <1>3 DEF BasicInv, TypeOK
<1>5. Grows
  BY <1>2 DEF Grows
<1>6. WorkerOK(w)'
  BY <1>1, <1>2 DEF WorkerOK
<1>7. \A v \in Workers : WorkerOK(v)'
  BY <1>2, <1>5, <1>6, OtherWorkersOK
<1>8. ASSUME NEW m \in Msgs
      PROVE  RowOK(m)'
  <2>1. CASE result'[m] = result[m]
    BY <2>1, <1>2, <1>5, OtherRowsOK
  <2>2. CASE result'[m] # result[m]
    <3>1. m = msg[w] /\ result'[m] = verdict[w]
      BY <2>2, <1>1, <1>2 DEF BasicInv, TypeOK
    <3>2. result'[m] = "sent" => \E s \in pushed : s[1] = m
      BY <3>1, <1>1
    <3> QED
      BY <3>1, <3>2, <1>1, <1>2 DEF BasicInv, RowOK, None
  <2> QED
    BY <2>1, <2>2
<1> QED
  BY <1>2, <1>4, <1>7, <1>8 DEF BasicInv

LEMMA GossipBasic ==
    ASSUME BasicInv, NEW a \in Apis, NEW b \in Apis, Gossip(a, b)
    PROVE  BasicInv'
<1>1. PICK s \in pool[a] : pool' = [pool EXCEPT ![b] = pool[b] \cup {s}]
  BY DEF Gossip
<1>2. UNCHANGED <<task, owner, retries, nonce, result, answer, lock, pushed, pc, msg, known, verdict, faults>>
  BY DEF Gossip, engineVars, rowVars, workerVars
<1>3. s \in pushed /\ s \in Signed
  BY <1>1 DEF BasicInv, TypeOK
<1>4. TypeOK'
  BY <1>1, <1>2, <1>3 DEF BasicInv, TypeOK
<1>5. \A c \in Apis : pool'[c] \subseteq pushed'
  BY <1>1, <1>2, <1>3 DEF BasicInv, TypeOK
<1>6. Grows
  BY <1>2 DEF Grows
<1> QED
  BY <1>2, <1>4, <1>5, <1>6, OtherWorkersOK, OtherRowsOK DEF BasicInv

LEMMA BasicInit == Init => BasicInv
<1> SUFFICES ASSUME Init
             PROVE  BasicInv
  OBVIOUS
<1>1. faults \in [mix : Mixes, met : Nat]
  BY DEF Init
<1>2. TypeOK
  BY <1>1 DEF Init, TypeOK, NoNonce
<1> QED
  BY <1>2, FS_EmptySet DEF BasicInv, Init, WorkerOK, RowOK, None

LEMMA BasicStep == BasicInv /\ [Next]_vars => BasicInv'
<1> SUFFICES ASSUME BasicInv, [Next]_vars
             PROVE  BasicInv'
  OBVIOUS
<1>1. ASSUME NEW w \in Workers, Do(w)
      PROVE  BasicInv'
  BY <1>1, ReadRowBasic, AcquireLockBasic, LoseOwnershipBasic, GetNonceBasic, MaxNonceBasic, WriteNonceBasic,
     PushBasic, PersistBasic, ReleaseBasic, ReturnBasic
  DEF Do
<1>2. CASE UNCHANGED vars
  <2>1. UNCHANGED <<task, owner, retries, nonce, result, answer, lock, pool, pushed, pc, msg, known, verdict, faults>>
    BY <1>2 DEF vars, engineVars, rowVars, chainVars, workerVars
  <2>2. TypeOK' /\ Grows
    BY <2>1 DEF BasicInv, TypeOK, Grows
  <2> QED
    BY <2>1, <2>2, OtherWorkersOK, OtherRowsOK DEF BasicInv
<1> QED
  BY <1>1, <1>2, SendBasic, StartBasic, CallFailsBasic, CrashBasic, StallBasic, GossipBasic DEF Next

\* Every variable keeps its type: nonces are naturals before they are signed
\* and pushed, whatever a worker has read before it got the lock.
THEOREM TypesHold == Spec => []TypeOK
<1>1. BasicInv => TypeOK
  BY DEF BasicInv
<1> QED
  BY <1>1, BasicInit, BasicStep, PTL DEF Spec

\* A caller is told that its message was sent only if a mempool has accepted
\* it, whichever statements and calls fail and however many workers are at the
\* message (Send, SendTask.Do).
THEOREM AnswersAreTrue == Spec => []AnswerIsTrue
<1>1. BasicInv => AnswerIsTrue
  BY DEF BasicInv, RowOK, AnswerIsTrue
<1> QED
  BY <1>1, BasicInit, BasicStep, PTL DEF Spec

-----------------------------------------------------------------------------
(* OrderInv is inductive.                                                  *)

\* The kinds of faults of a behaviour never change.
LEMMA MixStays ==
    ASSUME TypeOK, [Next]_vars
    PROVE  faults'.mix = faults.mix
<1>1. UNCHANGED faults \/ \E kind \in FaultKinds : Fault(kind)
  <2>1. CASE \E m \in Msgs : Send(m) \/ SendReturns(m)
    BY <2>1 DEF Send, SendReturns
  <2>2. CASE \E w \in Workers : Do(w)
    <3>1. PICK w \in Workers : Do(w)
      BY <2>2
    <3>2. CASE ReadRow(w) \/ AcquireLock(w) \/ LoseOwnership(w) \/ GetNonce(w) \/ MaxNonce(w) \/ Return(w)
      BY <3>2 DEF ReadRow, AcquireLock, LoseOwnership, GetNonce, MaxNonce, Return
    <3>3. CASE WriteNonce(w)
      BY <3>3 DEF WriteNonce, FaultKinds
    <3>4. CASE Push(w)
      BY <3>4 DEF Push, FaultKinds
    <3>5. CASE Persist(w)
      BY <3>5 DEF Persist, FaultKinds
    <3>6. CASE Release(w)
      BY <3>6 DEF Release, FaultKinds
    <3> QED
      BY <3>1, <3>2, <3>3, <3>4, <3>5, <3>6 DEF Do
  <2>3. CASE \E w \in Workers : CallFails(w) \/ Crash(w) \/ Stall(w)
    BY <2>3 DEF CallFails, Crash, Stall, FaultKinds
  <2>4. CASE \E w \in Workers, m \in Msgs : Start(w, m)
    BY <2>4 DEF Start
  <2>5. CASE \E a, b \in Apis : Gossip(a, b)
    BY <2>5 DEF Gossip
  <2>6. CASE UNCHANGED vars
    BY <2>6 DEF vars
  <2> QED
    BY <2>1, <2>2, <2>3, <2>4, <2>5, <2>6 DEF Next
<1> QED
  BY <1>1, FaultType

\* A step of worker w at message m, as the other workers see it.
Apart(w, m) ==
    /\ \A v \in Workers : v # w => pc'[v] = pc[v] /\ msg'[v] = msg[v] /\ known'[v] = known[v] /\ verdict'[v] = verdict[v]
    /\ \A o \in Msgs : o # m => task'[o] = task[o] /\ nonce'[o] = nonce[o] /\ result'[o] = result[o]
    /\ \A o \in Msgs : o # m => owner'[o] = owner[o] \/ owner[o] = w
    /\ \A k \in Keys : lock'[k] = lock[k] \/ lock[k] \in {None, m}

\* Nobody but w works on m.
Alone(w, m) == \A v \in Workers : v # w /\ pc[v] # "idle" => msg[v] # m

\* The owner of a message is alone at it.
LEMMA OwnerIsAlone ==
    ASSUME \A v \in Workers : OwnerOK(v), NEW w \in Workers, NEW m,
           owner[m] = w \/ owner[m] = None
    PROVE  Alone(w, m)
  BY SenderAssumption DEF OwnerOK, Alone

LEMMA OthersStayOwners ==
    ASSUME BasicInv, \A v \in Workers : OwnerOK(v), NEW w \in Workers, NEW m \in Msgs, Apart(w, m), Alone(w, m),
           OwnerOK(w)'
    PROVE  \A v \in Workers : OwnerOK(v)'
<1>1. ASSUME NEW v \in Workers, v # w
      PROVE  OwnerOK(v)'
  <2>1. pc'[v] = pc[v] /\ msg'[v] = msg[v] /\ known'[v] = known[v] /\ verdict'[v] = verdict[v]
    BY <1>1 DEF Apart
  <2>2. CASE pc[v] = "idle"
    BY <2>1, <2>2 DEF OwnerOK, Inside
  <2>3. CASE pc[v] # "idle"
    <3>1. msg[v] \in Msgs /\ msg[v] # m /\ FromKey[msg[v]] \in Keys /\ msg[v] # None
      BY <1>1, <2>3, SenderAssumption DEF Alone, BasicInv, WorkerOK
    <3>2. owner[msg[v]] = v /\ task[msg[v]] = "present"
      BY <2>3 DEF OwnerOK
    <3>3. task'[msg[v]] = task[msg[v]] /\ nonce'[msg[v]] = nonce[msg[v]] /\ owner'[msg[v]] = owner[msg[v]]
      BY <1>1, <3>1, <3>2 DEF Apart
    <3>4. Inside(v) => lock'[FromKey[msg[v]]] = lock[FromKey[msg[v]]]
      BY <3>1 DEF Apart, OwnerOK, Key
    <3> QED
      BY <2>1, <3>2, <3>3, <3>4 DEF OwnerOK, Inside, Key
  <2> QED
    BY <2>2, <2>3
<1> QED
  BY <1>1

\* A step that leaves rows, mempools and the workers on their way to a nonce
\* alone.
LEMMA SequenceKept ==
    ASSUME SequenceOK, UNCHANGED <<nonce, result, pushed>>,
           \A v \in Workers : pc'[v] \in {"max", "write"} =>
               known'[v] <= Count(Key(v)') \/ (pc[v] \in {"max", "write"} /\ known'[v] = known[v] /\ msg'[v] = msg[v])
    PROVE  SequenceOK'
<1>1. \A k : Count(k)' = Count(k)
  BY DEF Count
<1>2. ASSUME NEW v \in Workers, pc'[v] \in {"max", "write"}
      PROVE  known'[v] <= Count(Key(v)')
  BY <1>2 DEF SequenceOK, Key
<1>3. ASSUME NEW v \in Workers, pc'[v] \in {"max", "write"}
      PROVE  known'[v] <= Count(Key(v))'
  BY <1>1, <1>2, <1>3 DEF Key
<1> QED
  BY <1>1, <1>3 DEF SequenceOK

Ordered == (\A w \in Workers : OwnerOK(w)) /\ SequenceOK

\* A worker in Do is alone at its message.
LEMMA WorkerIsAlone ==
    ASSUME BasicInv, Ordered, NEW w \in Workers, pc[w] # "idle"
    PROVE  /\ msg[w] \in Msgs /\ Key(w) \in Keys /\ Alone(w, msg[w])
           /\ owner[msg[w]] = w /\ task[msg[w]] = "present"
<1>1. msg[w] \in Msgs /\ Key(w) \in Keys
  BY SenderAssumption DEF BasicInv, WorkerOK, Key
<1>2. \A v \in Workers : OwnerOK(v)
  BY DEF Ordered
<1>3. owner[msg[w]] = w /\ task[msg[w]] = "present"
  BY <1>2 DEF OwnerOK
<1> QED
  BY <1>1, <1>2, <1>3, OwnerIsAlone

\* A step of a worker in Do that changes no row and no mempool.
LEMMA WorkerStepOrdered ==
    ASSUME BasicInv, Ordered, NEW w \in Workers, pc[w] # "idle", Apart(w, msg[w]), OwnerOK(w)',
           UNCHANGED <<nonce, result, pushed>>,
           pc'[w] \in {"max", "write"} => known'[w] <= Count(Key(w)')
    PROVE  Ordered'
<1>1. \A v \in Workers : OwnerOK(v)'
  BY WorkerIsAlone, OthersStayOwners DEF Ordered
<1>2. \A v \in Workers : v # w => pc'[v] = pc[v] /\ known'[v] = known[v] /\ msg'[v] = msg[v]
  BY DEF Apart
<1>3. SequenceOK'
  BY <1>2, SequenceKept DEF Ordered
<1> QED
  BY <1>1, <1>3 DEF Ordered

LEMMA ReadRowOrdered ==
    ASSUME BasicInv, Ordered, NEW w \in Workers, ReadRow(w)
    PROVE  Ordered'
<1>1. pc[w] # "idle" /\ msg[w] \in Msgs /\ owner[msg[w]] = w /\ task[msg[w]] = "present"
  BY WorkerIsAlone DEF ReadRow
<1>2. Apart(w, msg[w])
  BY DEF Apart, ReadRow, GoTo, BasicInv, TypeOK, engineVars, rowVars
<1>3. pc'[w] = "lock" /\ known'[w] = nonce[msg[w]] /\ UNCHANGED <<msg, nonce, owner, task, result, pushed>>
  BY DEF ReadRow, GoTo, BasicInv, TypeOK, engineVars, rowVars, chainVars
<1>4. OwnerOK(w)'
  BY <1>1, <1>3 DEF OwnerOK, Inside
<1> QED
  BY <1>1, <1>2, <1>3, <1>4, WorkerStepOrdered

LEMMA AcquireLockOrdered ==
    ASSUME BasicInv, Ordered, NEW w \in Workers, AcquireLock(w)
    PROVE  Ordered'
<1>1. pc[w] # "idle" /\ msg[w] \in Msgs /\ Key(w) \in Keys /\ owner[msg[w]] = w /\ task[msg[w]] = "present"
  BY WorkerIsAlone DEF AcquireLock
<1>2. Apart(w, msg[w])
  BY <1>1 DEF Apart, AcquireLock, GoTo, BasicInv, TypeOK, engineVars, rowVars
<1>3. /\ pc[w] = "lock" /\ pc'[w] = (IF known[w] = NoNonce THEN "nonce" ELSE "push")
      /\ lock'[Key(w)] = msg[w]
      /\ UNCHANGED <<known, msg, nonce, owner, task, result, pushed>>
  BY <1>1 DEF AcquireLock, GoTo, BasicInv, TypeOK, engineVars, rowVars, chainVars
<1>4. known[w] = nonce[msg[w]]
  BY <1>3 DEF Ordered, OwnerOK
<1>5. Key(w)' = Key(w)
  BY <1>3 DEF Key
<1>6. OwnerOK(w)'
  BY <1>1, <1>3, <1>4, <1>5 DEF OwnerOK, Inside
<1> QED
  BY <1>1, <1>2, <1>3, <1>6, WorkerStepOrdered

LEMMA LoseOwnershipOrdered ==
    ASSUME BasicInv, Ordered, NEW w \in Workers, LoseOwnership(w)
    PROVE  FALSE
  BY WorkerIsAlone DEF LoseOwnership

\* The nonces in a mempool, and those of the rows that say "sent", were pushed.
LEMMA NoncesWerePushed ==
    ASSUME BasicInv, SequenceOK, NEW k \in Keys
    PROVE  /\ \A a \in Apis : NoncesOf(pool[a], k) \subseteq NoncesOf(pushed, k)
           /\ SentNonces(k) \subseteq NoncesOf(pushed, k)
           /\ NoncesOf(pushed, k) = 0 .. Count(k) - 1
           /\ Count(k) \in Nat
<1>1. \A a \in Apis : NoncesOf(pool[a], k) \subseteq NoncesOf(pushed, k)
  BY DEF BasicInv, NoncesOf
<1>2. pushed \subseteq Signed /\ IsFiniteSet(pushed)
  BY DEF BasicInv, TypeOK
<1>3. ASSUME NEW m \in Msgs, FromKey[m] = k, result[m] = "sent"
      PROVE  nonce[m] \in NoncesOf(pushed, k)
  <2>1. PICK s \in pushed : s = <<m, nonce[m]>>
    BY <1>3 DEF SequenceOK
  <2> QED
    BY <1>2, <1>3, <2>1, NoncesAre
<1>4. Count(k) \in Nat
  BY <1>2, NoncesAre, FS_CardinalityType DEF Count
<1> QED
  BY <1>1, <1>3, <1>4 DEF SentNonces, SequenceOK

\* What is above some of the nonces that were pushed is at most the next one.
LEMMA AboveIsInTurn ==
    ASSUME BasicInv, SequenceOK, NEW k \in Keys, NEW N, N \subseteq NoncesOf(pushed, k), IsFiniteSet(N)
    PROVE  Above(N) \in Nat /\ Above(N) <= Count(k)
<1>1. NoncesOf(pushed, k) = 0 .. Count(k) - 1 /\ Count(k) \in Nat
  BY NoncesWerePushed
<1>2. N \subseteq Nat
  BY <1>1
<1>3. Above(N) \in Nat /\ (N # {} => Above(N) - 1 \in N) /\ (N = {} => Above(N) = 0)
  BY <1>2, AboveIsNext
<1> QED
  BY <1>1, <1>3

LEMMA GetNonceOrdered ==
    ASSUME BasicInv, Ordered, NEW w \in Workers, GetNonce(w)
    PROVE  Ordered'
<1>1. pc[w] # "idle" /\ msg[w] \in Msgs /\ Key(w) \in Keys /\ owner[msg[w]] = w /\ task[msg[w]] = "present"
  BY WorkerIsAlone DEF GetNonce
<1>2. Apart(w, msg[w])
  BY DEF Apart, GetNonce, GoTo, BasicInv, TypeOK, engineVars, rowVars
<1>3. /\ pc[w] = "nonce" /\ pc'[w] = "max" /\ known'[w] = Above(NoncesOf(pool[ApiOf[w]], Key(w)))
      /\ UNCHANGED <<msg, nonce, owner, task, result, pushed, lock>>
  BY DEF GetNonce, GoTo, BasicInv, TypeOK, engineVars, rowVars, chainVars
<1>4. Key(w)' = Key(w)
  BY <1>3 DEF Key
<1>5. OwnerOK(w)'
  BY <1>1, <1>3, <1>4 DEF OwnerOK, Inside, Ordered
<1>6. ApiOf[w] \in Apis
  BY SenderAssumption
<1>7. NoncesOf(pool[ApiOf[w]], Key(w)) \subseteq NoncesOf(pushed, Key(w)) /\ IsFiniteSet(NoncesOf(pool[ApiOf[w]], Key(w)))
  BY <1>1, <1>6, NoncesWerePushed, PoolNonces DEF Ordered
<1>8. known'[w] <= Count(Key(w)')
  BY <1>1, <1>3, <1>4, <1>7, AboveIsInTurn DEF Ordered
<1> QED
  BY <1>1, <1>2, <1>3, <1>5, <1>8, WorkerStepOrdered

LEMMA MaxNonceOrdered ==
    ASSUME BasicInv, Ordered, NEW w \in Workers, MaxNonce(w)
    PROVE  Ordered'
<1>1. pc[w] # "idle" /\ msg[w] \in Msgs /\ Key(w) \in Keys /\ owner[msg[w]] = w /\ task[msg[w]] = "present"
  BY WorkerIsAlone DEF MaxNonce
<1>2. Apart(w, msg[w])
  BY DEF Apart, MaxNonce, GoTo, BasicInv, TypeOK, engineVars, rowVars
<1>3. /\ pc[w] = "max" /\ pc'[w] = "write" /\ known'[w] = Max({known[w], Above(SentNonces(Key(w)))})
      /\ UNCHANGED <<msg, nonce, owner, task, result, pushed, lock>>
  BY DEF MaxNonce, GoTo, BasicInv, TypeOK, engineVars, rowVars, chainVars
<1>4. Key(w)' = Key(w)
  BY <1>3 DEF Key
<1>5. OwnerOK(w)'
  BY <1>1, <1>3, <1>4 DEF OwnerOK, Inside, Ordered
<1>6. known[w] \in Nat /\ known[w] <= Count(Key(w))
  BY <1>3 DEF BasicInv, WorkerOK, Ordered, SequenceOK
<1>7. Above(SentNonces(Key(w))) \in Nat /\ Above(SentNonces(Key(w))) <= Count(Key(w))
  BY <1>1, SentNoncesAre, NoncesWerePushed, AboveIsInTurn DEF Ordered
<1>8. known'[w] <= Count(Key(w)')
  BY <1>3, <1>4, <1>6, <1>7, MaxOfTwo
<1> QED
  BY <1>1, <1>2, <1>3, <1>5, <1>8, WorkerStepOrdered

LEMMA CallFailsOrdered ==
    ASSUME BasicInv, Ordered, NEW w \in Workers, CallFails(w)
    PROVE  Ordered'
<1>1. pc[w] # "idle" /\ msg[w] \in Msgs /\ owner[msg[w]] = w /\ task[msg[w]] = "present"
  BY WorkerIsAlone DEF CallFails
<1>2. Apart(w, msg[w])
  BY DEF Apart, CallFails, Fail, GoTo, BasicInv, TypeOK, engineVars, rowVars
<1>3. /\ pc'[w] \in {"return", "release"} /\ (pc'[w] = "release" => Inside(w))
      /\ UNCHANGED <<msg, nonce, owner, task, result, pushed, lock>>
  BY DEF CallFails, Fail, GoTo, Inside, BasicInv, TypeOK, engineVars, rowVars, chainVars
<1>4. Key(w)' = Key(w)
  BY <1>3 DEF Key
<1>5. OwnerOK(w)'
  BY <1>1, <1>3, <1>4 DEF OwnerOK, Inside, Ordered
<1> QED
  BY <1>1, <1>2, <1>3, <1>5, WorkerStepOrdered

LEMMA ReleaseOrdered ==
    ASSUME BasicInv, Ordered, NEW w \in Workers, Release(w)
    PROVE  Ordered'
<1>1. pc[w] # "idle" /\ msg[w] \in Msgs /\ Key(w) \in Keys /\ owner[msg[w]] = w /\ task[msg[w]] = "present"
  BY WorkerIsAlone DEF Release
<1>2. Apart(w, msg[w])
  BY <1>1 DEF Apart, Release, GoTo, BasicInv, TypeOK, engineVars, rowVars
<1>3. pc'[w] = "return" /\ UNCHANGED <<msg, nonce, owner, task, result, pushed>>
  BY DEF Release, GoTo, BasicInv, TypeOK, engineVars, rowVars, chainVars
<1>4. OwnerOK(w)'
  BY <1>1, <1>3 DEF OwnerOK, Inside
<1> QED
  BY <1>1, <1>2, <1>3, <1>4, WorkerStepOrdered

LEMMA ReturnOrdered ==
    ASSUME BasicInv, Ordered, NEW w \in Workers, Return(w)
    PROVE  Ordered'
<1>1. pc[w] # "idle" /\ msg[w] \in Msgs
  BY WorkerIsAlone DEF Return
<1>2. Apart(w, msg[w])
  BY <1>1 DEF Apart, Return, GoTo, BasicInv, TypeOK, engineVars, rowVars
<1>3. pc'[w] = "idle" /\ UNCHANGED <<nonce, result, pushed>>
  BY DEF Return, GoTo, BasicInv, TypeOK, rowVars, chainVars
<1>4. OwnerOK(w)'
  BY <1>3 DEF OwnerOK, Inside
<1> QED
  BY <1>1, <1>2, <1>3, <1>4, WorkerStepOrdered

LEMMA CrashOrdered ==
    ASSUME BasicInv, Ordered, NEW w \in Workers, Crash(w)
    PROVE  Ordered'
<1>1. pc[w] # "idle" /\ msg[w] \in Msgs
  BY WorkerIsAlone DEF Crash
<1>2. Apart(w, msg[w])
  BY DEF Apart, Crash, GoTo, BasicInv, TypeOK, rowVars
<1>3. pc'[w] = "idle" /\ UNCHANGED <<nonce, result, pushed>>
  BY DEF Crash, GoTo, BasicInv, TypeOK, rowVars, chainVars
<1>4. OwnerOK(w)'
  BY <1>3 DEF OwnerOK, Inside
<1> QED
  BY <1>1, <1>2, <1>3, <1>4, WorkerStepOrdered

LEMMA StartOrdered ==
    ASSUME BasicInv, Ordered, NEW w \in Workers, NEW m \in Msgs, Start(w, m)
    PROVE  Ordered'
<1>1. Alone(w, m)
  BY OwnerIsAlone DEF Start, Ordered
<1>2. Apart(w, m)
  BY DEF Apart, Start, GoTo, BasicInv, TypeOK, rowVars
<1>3. pc'[w] = "read" /\ msg'[w] = m /\ owner'[m] = w /\ task'[m] = "present" /\ UNCHANGED <<nonce, result, pushed>>
  BY DEF Start, GoTo, BasicInv, TypeOK, rowVars, chainVars
<1>4. OwnerOK(w)'
  BY <1>3 DEF OwnerOK, Inside
<1>5. \A v \in Workers : OwnerOK(v)'
  BY <1>1, <1>2, <1>4, OthersStayOwners DEF Ordered
<1>6. \A v \in Workers : pc'[v] \in {"max", "write"} => pc[v] = pc'[v] /\ known'[v] = known[v] /\ msg'[v] = msg[v]
  BY <1>2, <1>3 DEF Apart
<1> QED
  BY <1>3, <1>5, <1>6, SequenceKept DEF Ordered

\* Steps in which no worker moves: Send, its return, gossip and stuttering.
LEMMA IdleStepOrdered ==
    ASSUME BasicInv, Ordered, UNCHANGED <<pc, msg, known, owner, lock, nonce, result, pushed>>,
           \A m \in Msgs : task[m] = "present" => task'[m] = "present"
    PROVE  Ordered'
<1>1. ASSUME NEW v \in Workers
      PROVE  OwnerOK(v)'
  BY DEF OwnerOK, Ordered, Inside, Key, BasicInv, WorkerOK
<1> QED
  BY <1>1, SequenceKept DEF Ordered

LEMMA OutsideOrdered ==
    ASSUME BasicInv, Ordered,
           \/ \E m \in Msgs : Send(m) \/ SendReturns(m)
           \/ \E a, b \in Apis : Gossip(a, b)
           \/ UNCHANGED vars
    PROVE  Ordered'
<1>1. UNCHANGED <<pc, msg, known, owner, lock, nonce, result, pushed>>
  BY DEF Send, SendReturns, Gossip, vars, engineVars, rowVars, chainVars, workerVars
<1>2. \A m \in Msgs : task[m] = "present" => task'[m] = "present"
  BY DEF Send, SendReturns, Gossip, vars, engineVars, BasicInv, TypeOK
<1> QED
  BY <1>1, <1>2, IdleStepOrdered

LEMMA WriteNonceOrdered ==
    ASSUME BasicInv, Ordered, NEW w \in Workers, WriteNonce(w)
    PROVE  Ordered'
<1>1. /\ pc[w] # "idle" /\ msg[w] \in Msgs /\ Key(w) \in Keys /\ Alone(w, msg[w])
      /\ owner[msg[w]] = w /\ task[msg[w]] = "present"
  BY WorkerIsAlone DEF WriteNonce
<1>2. Apart(w, msg[w])
  BY <1>1 DEF Apart, WriteNonce, Fail, GoTo, BasicInv, TypeOK, engineVars
<1>3. /\ pc[w] = "write" /\ UNCHANGED <<msg, owner, task, result, pushed, lock, known>>
      /\ nonce' = nonce \/ nonce' = [nonce EXCEPT ![msg[w]] = known[w]]
  BY DEF WriteNonce, engineVars, chainVars
<1>4. pc'[w] = "release" \/ (pc'[w] = "push" /\ nonce' = [nonce EXCEPT ![msg[w]] = known[w]])
  BY DEF WriteNonce, Fail, GoTo, BasicInv, TypeOK
<1>5. Key(w)' = Key(w)
  BY <1>3 DEF Key
<1>6. lock[Key(w)] = msg[w] /\ nonce[msg[w]] = NoNonce /\ known[w] \in Nat /\ known[w] <= Count(Key(w))
  BY <1>3 DEF OwnerOK, Inside, Ordered, SequenceOK, BasicInv, WorkerOK
<1>7. pc'[w] = "push" => known'[w] = nonce'[msg[w]]
  BY <1>1, <1>3, <1>4 DEF BasicInv, TypeOK
<1>8. OwnerOK(w)'
  BY <1>1, <1>3, <1>4, <1>5, <1>6, <1>7 DEF OwnerOK, Inside
<1>9. \A v \in Workers : OwnerOK(v)'
  BY <1>1, <1>2, <1>8, OthersStayOwners DEF Ordered
<1>10. \A o \in Msgs : nonce'[o] = nonce[o] \/ (o = msg[w] /\ nonce[o] = NoNonce /\ nonce'[o] = known[w])
  BY <1>1, <1>3, <1>6 DEF BasicInv, TypeOK
<1>11. \A k : Count(k)' = Count(k)
  BY <1>3 DEF Count
<1>12. SequenceOK'
  <2>1. ASSUME NEW s \in pushed'
        PROVE  nonce'[s[1]] = s[2]
    <3>1. s \in pushed /\ s[1] \in Msgs /\ s[2] \in Nat /\ nonce[s[1]] = s[2]
      BY <1>3, <2>1 DEF Ordered, SequenceOK, BasicInv, TypeOK, Signed
    <3> QED
      BY <1>10, <3>1 DEF NoNonce
  <2>2. ASSUME NEW m \in Msgs, result'[m] = "sent"
        PROVE  <<m, nonce'[m]>> \in pushed'
    <3>1. nonce[m] \in Nat /\ <<m, nonce[m]>> \in pushed
      BY <1>3, <2>2 DEF Ordered, SequenceOK, BasicInv, RowOK, None
    <3> QED
      BY <1>3, <1>10, <3>1 DEF NoNonce
  <2>3. ASSUME NEW m \in Msgs
        PROVE  nonce'[m] <= Count(FromKey[m])
    BY <1>6, <1>10 DEF Ordered, SequenceOK, Key
  <2>4. ASSUME NEW v \in Workers, pc'[v] \in {"max", "write"}
        PROVE  known'[v] <= Count(Key(v))
    <3>1. v # w
      BY <1>4, <2>4
    <3>2. pc'[v] = pc[v] /\ known'[v] = known[v]
      BY <3>1, <1>2 DEF Apart
    <3> QED
      BY <2>4, <3>2 DEF Ordered, SequenceOK
  <2>5. \A v : Key(v)' = Key(v)
    BY <1>3 DEF Key
  <2>6. \A k \in Keys : NoncesOf(pushed, k)' = 0 .. Count(k)' - 1
    BY <1>3, <1>11 DEF Ordered, SequenceOK, NoncesOf
  <2> QED
    BY <1>11, <2>1, <2>2, <2>3, <2>4, <2>5, <2>6 DEF SequenceOK
<1> QED
  BY <1>9, <1>12 DEF Ordered

LEMMA PersistOrdered ==
    ASSUME BasicInv, Ordered, NEW w \in Workers, Persist(w)
    PROVE  Ordered'
<1>1. /\ pc[w] # "idle" /\ msg[w] \in Msgs /\ Key(w) \in Keys /\ Alone(w, msg[w])
      /\ owner[msg[w]] = w /\ task[msg[w]] = "present"
  BY WorkerIsAlone DEF Persist
<1>2. Apart(w, msg[w])
  BY <1>1 DEF Apart, Persist, Fail, GoTo, BasicInv, TypeOK, engineVars
<1>3. /\ pc[w] = "persist" /\ UNCHANGED <<msg, owner, task, nonce, pushed, lock, known>>
      /\ result' \in {result, [result EXCEPT ![msg[w]] = verdict[w]]}
      /\ pc'[w] = "release"
  BY DEF Persist, Fail, GoTo, BasicInv, TypeOK, engineVars, chainVars
<1>4. lock[Key(w)] = msg[w] /\ known[w] = nonce[msg[w]]
  BY <1>3 DEF OwnerOK, Inside, Ordered
<1>5. Key(w)' = Key(w)
  BY <1>3 DEF Key
<1>6. OwnerOK(w)'
  BY <1>1, <1>3, <1>4, <1>5 DEF OwnerOK, Inside
<1>7. \A v \in Workers : OwnerOK(v)'
  BY <1>1, <1>2, <1>6, OthersStayOwners DEF Ordered
<1>8. SequenceOK'
  <2>1. ASSUME NEW m \in Msgs, result'[m] = "sent"
        PROVE  <<m, nonce[m]>> \in pushed
    <3>1. CASE result'[m] = result[m]
      BY <2>1, <3>1 DEF Ordered, SequenceOK
    <3>2. CASE result'[m] # result[m]
      <4>1. m = msg[w] /\ verdict[w] = "sent"
        BY <1>1, <1>3, <2>1, <3>2 DEF BasicInv, TypeOK
      <4> QED
        BY <1>3, <1>4, <4>1 DEF BasicInv, WorkerOK
    <3> QED
      BY <3>1, <3>2
  <2>2. \A k : Count(k)' = Count(k)
    BY <1>3 DEF Count
  <2>3. \A v \in Workers : pc'[v] \in {"max", "write"} => pc[v] = pc'[v] /\ known'[v] = known[v] /\ Key(v)' = Key(v)
    BY <1>2, <1>3 DEF Apart, Key
  <2>4. \A k \in Keys : NoncesOf(pushed, k)' = 0 .. Count(k)' - 1
    BY <1>3, <2>2 DEF Ordered, SequenceOK, NoncesOf
  <2> QED
    BY <1>3, <2>1, <2>2, <2>3, <2>4 DEF SequenceOK, Ordered
<1> QED
  BY <1>7, <1>8 DEF Ordered

\* The next nonce, or one that was used, keeps the sequence without gaps.
LEMMA NextNonceInTurn ==
    ASSUME NEW c \in Nat, NEW n \in Nat, n <= c, NEW N, N = 0 .. c - 1
    PROVE  /\ N \cup {n} = 0 .. Cardinality(N \cup {n}) - 1
           /\ Cardinality(N \cup {n}) \in Nat /\ c <= Cardinality(N \cup {n})
<1>1. Cardinality(0 .. c - 1) = c /\ Cardinality(0 .. c) = c + 1
  BY FS_Interval
<1>2. CASE n = c
  <2>1. N \cup {n} = 0 .. c
    BY <1>2
  <2>2. Cardinality(N \cup {n}) = c + 1
    BY <1>1, <2>1, Zenon
  <2>3. (c + 1) - 1 = c /\ c + 1 \in Nat /\ c <= c + 1
    OBVIOUS
  <2> QED
    BY <2>1, <2>2, <2>3, Zenon
<1>3. CASE n # c
  <2>1. N \cup {n} = 0 .. c - 1
    BY <1>3
  <2>2. Cardinality(N \cup {n}) = c
    BY <1>1, <2>1
  <2> QED
    BY <2>1, <2>2
<1> QED
  BY <1>2, <1>3

LEMMA PushOrdered ==
    ASSUME BasicInv, BasicInv', Ordered, NEW w \in Workers, Push(w)
    PROVE  Ordered'
<1>1. /\ pc[w] # "idle" /\ msg[w] \in Msgs /\ Key(w) \in Keys /\ Alone(w, msg[w])
      /\ owner[msg[w]] = w /\ task[msg[w]] = "present"
  BY WorkerIsAlone DEF Push
<1>2. UNCHANGED <<task, owner, retries, nonce, result, answer, lock, msg, known>>
  BY PushOutcome DEF engineVars, rowVars
<1>3. Apart(w, msg[w])
  <2>1. /\ pc' = [pc EXCEPT ![w] = "persist"]
        /\ verdict' \in {[verdict EXCEPT ![w] = "sent"], [verdict EXCEPT ![w] = "failed"]}
    BY PushOutcome
  <2> QED
    BY <1>2, <2>1 DEF Apart, BasicInv, TypeOK
<1>4. pc[w] = "push" /\ pc'[w] = "persist"
  BY DEF Push, GoTo, BasicInv, TypeOK
<1>5. known[w] = nonce[msg[w]] /\ lock[Key(w)] = msg[w]
  BY <1>4 DEF OwnerOK, Inside, Ordered
<1>6. Key(w)' = Key(w)
  BY <1>2 DEF Key
<1>7. OwnerOK(w)'
  BY <1>1, <1>2, <1>4, <1>5, <1>6 DEF OwnerOK, Inside
<1>8. \A v \in Workers : OwnerOK(v)'
  BY <1>1, <1>3, <1>7, OthersStayOwners DEF Ordered
<1>9. \A v \in Workers : pc'[v] \in {"max", "write"} => pc[v] = pc'[v] /\ known'[v] = known[v] /\ msg'[v] = msg[v]
  BY <1>3, <1>4 DEF Apart
<1>10. SequenceOK'
  <2>1. CASE pushed' = pushed
    BY <1>2, <1>9, <2>1, SequenceKept DEF Ordered
  <2>2. CASE pushed' = pushed \cup {<<msg[w], known[w]>>}
    <3>1. PICK s \in Signed : s = <<msg[w], known[w]>> /\ s[1] = msg[w] /\ s[2] = known[w]
      BY PushOutcome
    <3>2. pushed \subseteq Signed /\ s[2] \in Nat /\ FromKey[s[1]] = Key(w) /\ pushed' = pushed \cup {s}
      BY <3>1, <2>2 DEF BasicInv, TypeOK, Signed, Key
    <3>3. SequenceOK /\ s[2] <= Count(Key(w))
      BY <1>1, <1>5, <3>1 DEF Ordered, SequenceOK, Key
    <3>4. \A k : NoncesOf(pushed, k)' = NoncesOf(pushed', k)
      BY DEF NoncesOf
    <3>5. ASSUME NEW k \in Keys
          PROVE  /\ NoncesOf(pushed, k)' = 0 .. Count(k)' - 1
                 /\ Count(k)' \in Nat /\ Count(k) \in Nat /\ Count(k) <= Count(k)'
      <4>1. NoncesOf(pushed, k) = 0 .. Count(k) - 1 /\ Count(k) \in Nat
        BY <3>3, NoncesWerePushed
      <4>2. CASE k = Key(w)
        <5>1. NoncesOf(pushed, k)' = NoncesOf(pushed, k) \cup {s[2]}
          <6>1. NoncesOf(pushed \cup {s}, k) = NoncesOf(pushed, k) \cup {s[2]}
            <7>1. FromKey[s[1]] = k
              BY <3>2, <4>2
            <7> QED
              BY <3>2, <7>1, OneMoreNonce, Zenon
          <6> QED
            BY <3>2, <3>4, <6>1
        <5>2. Count(k)' = Cardinality(NoncesOf(pushed, k) \cup {s[2]})
          BY <5>1 DEF Count
        <5>3. PICK c \in Nat, n \in Nat : c = Count(k) /\ n = s[2] /\ n <= c
          BY <3>2, <3>3, <4>1, <4>2
        <5>4. PICK N : N = NoncesOf(pushed, k) /\ N = 0 .. c - 1
          BY <4>1, <5>3
        <5>5. /\ N \cup {n} = 0 .. Cardinality(N \cup {n}) - 1
              /\ Cardinality(N \cup {n}) \in Nat /\ c <= Cardinality(N \cup {n})
          BY <5>3, <5>4, NextNonceInTurn
        <5>6. NoncesOf(pushed, k)' = N \cup {n} /\ Count(k)' = Cardinality(N \cup {n})
          BY <5>1, <5>2, <5>3, <5>4
        <5> QED
          BY <4>1, <5>3, <5>5, <5>6
      <4>3. CASE k # Key(w)
        <5>1. NoncesOf(pushed, k)' = NoncesOf(pushed, k)
          BY <3>2, <3>4, <4>3, OneMoreNonce
        <5> QED
          BY <4>1, <5>1 DEF Count
      <4> QED
        BY <4>2, <4>3
    <3>6. \A r \in pushed' : nonce'[r[1]] = r[2]
      BY <1>2, <1>5, <3>1, <3>2, <3>3 DEF SequenceOK
    <3>7. \A m \in Msgs : result'[m] = "sent" => <<m, nonce'[m]>> \in pushed'
      BY <1>2, <3>2, <3>3 DEF SequenceOK
    <3>8. ASSUME NEW m \in Msgs
          PROVE  nonce'[m] <= Count(FromKey[m])'
      <4>1. FromKey[m] \in Keys /\ nonce[m] \in Int /\ nonce[m] <= Count(FromKey[m])
        BY <3>3, SenderAssumption DEF SequenceOK, BasicInv, TypeOK, NoNonce
      <4>2. Count(FromKey[m])' \in Nat /\ Count(FromKey[m]) \in Nat /\ Count(FromKey[m]) <= Count(FromKey[m])'
        BY <3>5, <4>1
      <4> QED
        BY <1>2, <4>1, <4>2
    <3>9. ASSUME NEW v \in Workers, pc'[v] \in {"max", "write"}
          PROVE  known'[v] <= Count(Key(v))'
      <4>1. Key(v)' = Key(v) /\ Key(v) \in Keys /\ known'[v] = known[v] /\ known[v] \in Nat /\ known[v] <= Count(Key(v))
        BY <1>9, <3>3, <3>9, SenderAssumption DEF SequenceOK, BasicInv, WorkerOK, Key
      <4>2. PICK k \in Keys : k = Key(v) /\ k = Key(v)'
        BY <4>1
      <4>3. Count(Key(v))' = Count(k)'
        BY <4>2 DEF Count
      <4> QED
        BY <3>5, <4>1, <4>2, <4>3
    <3> QED
      BY <3>5, <3>6, <3>7, <3>8, <3>9 DEF SequenceOK
  <2> QED
    BY <2>1, <2>2, PushOutcome
<1> QED
  BY <1>8, <1>10 DEF Ordered

LEMMA OrderedInit == Init => Ordered
<1> SUFFICES ASSUME Init
             PROVE  Ordered
  OBVIOUS
<1>1. \A k : NoncesOf(pushed, k) = {} /\ Count(k) = 0
  BY FS_EmptySet DEF Init, NoncesOf, Count
<1>2. SequenceOK
  <2>1. pushed = {} /\ \A m \in Msgs : result[m] # "sent" /\ nonce[m] = -1
    BY DEF Init, NoNonce, None
  <2>2. \A k \in Keys : NoncesOf(pushed, k) = 0 .. Count(k) - 1
    BY <1>1
  <2>3. \A m \in Msgs : nonce[m] <= Count(FromKey[m])
    BY <1>1, <2>1
  <2> QED
    BY <2>1, <2>2, <2>3 DEF SequenceOK, Init
<1> QED
  BY <1>2 DEF Init, Ordered, OwnerOK, Inside

LEMMA OrderedStep ==
    ASSUME BasicInv, BasicInv', Ordered, NoStalls, [Next]_vars
    PROVE  Ordered'
<1>1. ASSUME NEW w \in Workers, Do(w)
      PROVE  Ordered'
  BY <1>1, ReadRowOrdered, AcquireLockOrdered, LoseOwnershipOrdered, GetNonceOrdered, MaxNonceOrdered,
     WriteNonceOrdered, PushOrdered, PersistOrdered, ReleaseOrdered, ReturnOrdered
  DEF Do
<1>2. ASSUME NEW w \in Workers, Stall(w)
      PROVE  FALSE
  BY <1>2 DEF Stall, Fault, NoStalls
<1> QED
  BY <1>1, <1>2, StartOrdered, CallFailsOrdered, CrashOrdered, OutsideOrdered DEF Next

LEMMA OrderInvInductive ==
    /\ Init => OrderInv
    /\ BasicInv /\ OrderInv /\ [Next]_vars => OrderInv'
<1>1. Init => OrderInv
  BY OrderedInit DEF OrderInv, Ordered
<1>2. ASSUME BasicInv, OrderInv, [Next]_vars
      PROVE  OrderInv'
  <2>1. BasicInv' /\ (NoStalls' <=> NoStalls)
    BY <1>2, BasicStep, MixStays DEF NoStalls, BasicInv
  <2> QED
    BY <1>2, <2>1, OrderedStep DEF OrderInv, Ordered
<1> QED
  BY <1>1, <1>2

\* However often workers crash, calls fail and tasks are run again, a message
\* never enters a mempool under a second nonce: SendTask.Do pushes with the
\* nonce of the message_sends row, and only the task's owner, under the key's
\* lock, ever assigns one.
THEOREM MessagesAreSentOnce == Spec => []SentOnce
<1>1. BasicInv /\ OrderInv => SentOnce
  <2> SUFFICES ASSUME BasicInv, OrderInv, NoStalls, NEW s \in pushed, NEW r \in pushed, s[1] = r[1]
               PROVE  s = r
    BY DEF SentOnce
  <2>1. s[2] = r[2]
    BY DEF OrderInv, SequenceOK
  <2> QED
    BY <2>1 DEF BasicInv, TypeOK, Signed
<1> QED
  BY <1>1, BasicInit, BasicStep, OrderInvInductive, PTL DEF Spec

\* The nonces of a key that mempools have accepted have no gap, however nodes
\* disagree on what is in their mempools: the next nonce is at most one above
\* what was pushed (MpoolGetNonce, SELECT MAX(nonce)).
THEOREM NoncesHaveNoGap == Spec => []NoNonceGap
<1>1. OrderInv => NoNonceGap
  BY DEF OrderInv, SequenceOK, NoNonceGap, Count
<1> QED
  BY <1>1, BasicInit, BasicStep, OrderInvInductive, PTL DEF Spec

-----------------------------------------------------------------------------
(* NoncesDiffer is inductive when the behaviour is orderly.                *)

\* What is void stays void.
VoidsStay == \A m \in Msgs : Void(m) => Void(m)'

\* A message somebody works on is void only when its worker is done with it.
LEMMA NotVoid ==
    ASSUME NEW w \in Workers, NEW m \in Msgs, Alone(w, m), task[m] # "deleted",
           pc[w] \notin {"release", "return"} \/ verdict[w] # "done"
    PROVE  ~Void(m)
  BY DEF Void, Alone

\* A step at m leaves the other void messages alone.
LEMMA OtherVoidsStay ==
    ASSUME NEW w \in Workers, NEW m \in Msgs, Apart(w, m), pc[w] = "idle" \/ msg[w] = m,
           NEW o \in Msgs, o # m, Void(o), <<o, nonce[o]>> \notin pushed', faults'.mix = faults.mix
    PROVE  Void(o)'
<1>1. result'[o] = result[o] /\ nonce'[o] = nonce[o] /\ task'[o] = task[o]
  BY DEF Apart
<1>2. ASSUME NEW u \in Workers, msg[u] = o, pc[u] \in {"release", "return"}, verdict[u] = "done"
      PROVE  msg'[u] = o /\ pc'[u] \in {"release", "return"} /\ verdict'[u] = "done"
  <2>1. u # w
    BY <1>2
  <2> QED
    BY <1>2, <2>1 DEF Apart
<1> QED
  BY <1>1, <1>2 DEF Void

\* A step of a worker that is not done with its message.
LEMMA WorkerVoidsStay ==
    ASSUME BasicInv, Ordered, NEW w \in Workers, pc[w] # "idle", Apart(w, msg[w]),
           pc[w] \notin {"release", "return"} \/ verdict[w] # "done",
           pushed' \in {pushed, pushed \cup {<<msg[w], known[w]>>}}, faults'.mix = faults.mix
    PROVE  VoidsStay
<1>1. msg[w] \in Msgs /\ ~Void(msg[w])
  BY WorkerIsAlone, NotVoid
<1>2. ASSUME NEW o \in Msgs, Void(o)
      PROVE  Void(o)'
  <2>1. o # msg[w] /\ <<o, nonce[o]>> \notin pushed
    BY <1>1, <1>2 DEF Void
  <2>2. <<o, nonce[o]>> \notin pushed'
    BY <2>1
  <2> QED
    BY <1>1, <1>2, <2>1, <2>2, OtherVoidsStay
<1> QED
  BY <1>2 DEF VoidsStay

\* A step that changes no row and no mempool.
LEMMA QuietStepDiffers ==
    ASSUME NoncesDiffer, VoidsStay, UNCHANGED <<nonce, result, pool, pushed>>, faults'.mix = faults.mix,
           NEW w \in Workers, NEW m, Apart(w, m), RefusalOK(w)', FreshOK(w)'
    PROVE  NoncesDiffer'
<1>1. \A o, p \in Msgs : PairOK(o, p)'
  BY DEF NoncesDiffer, PairOK, VoidsStay
<1>2. \A o \in Msgs : FailureOK(o)'
  BY DEF NoncesDiffer, FailureOK, VoidsStay
<1>3. ASSUME NEW v \in Workers, v # w
      PROVE  RefusalOK(v)' /\ FreshOK(v)'
  <2>1. pc'[v] = pc[v] /\ msg'[v] = msg[v] /\ known'[v] = known[v] /\ verdict'[v] = verdict[v]
    BY <1>3 DEF Apart
  <2>2. RefusalOK(v)'
    BY <2>1 DEF NoncesDiffer, RefusalOK
  <2>3. FreshOK(v)'
    BY <2>1 DEF NoncesDiffer, FreshOK, Key
  <2> QED
    BY <2>2, <2>3
<1>4. \A v \in Workers : PoolKnows(v)'
  BY DEF NoncesDiffer, PoolKnows
<1> QED
  BY <1>1, <1>2, <1>3, <1>4 DEF NoncesDiffer

\* Such a step of a worker at its message.
LEMMA WorkerStepDiffers ==
    ASSUME BasicInv, Ordered, NoncesDiffer, faults'.mix = faults.mix, UNCHANGED <<nonce, result, pool, pushed>>,
           NEW w \in Workers, pc[w] # "idle", pc[w] \notin {"release", "return"} \/ verdict[w] # "done",
           Apart(w, msg[w]), pc'[w] # "persist", pc'[w] \in {"max", "write"} => FreshOK(w)'
    PROVE  NoncesDiffer'
<1>1. VoidsStay
  BY WorkerVoidsStay
<1>2. RefusalOK(w)' /\ FreshOK(w)'
  BY DEF RefusalOK, FreshOK
<1> QED
  BY <1>1, <1>2, QuietStepDiffers

\* The steps before a nonce is looked up, and failed calls.
LEMMA EarlyStepDiffers ==
    ASSUME BasicInv, Ordered, NoncesDiffer, faults'.mix = faults.mix, NEW w \in Workers,
           ReadRow(w) \/ AcquireLock(w) \/ CallFails(w)
    PROVE  NoncesDiffer'
<1>1. /\ pc[w] \notin {"idle", "release", "return"} /\ pc'[w] \notin {"persist", "max", "write"}
      /\ UNCHANGED <<nonce, result, pool, pushed>>
  BY DEF ReadRow, AcquireLock, CallFails, Fail, GoTo, BasicInv, TypeOK, rowVars, chainVars
<1>2. msg[w] \in Msgs /\ Key(w) \in Keys
  BY <1>1, WorkerIsAlone
<1>3. Apart(w, msg[w])
  BY <1>2 DEF Apart, ReadRow, AcquireLock, CallFails, Fail, GoTo, BasicInv, TypeOK, engineVars, rowVars
<1> QED
  BY <1>1, <1>3, WorkerStepDiffers

LEMMA GetNonceDiffers ==
    ASSUME BasicInv, Ordered, NoncesDiffer, faults'.mix = faults.mix, NEW w \in Workers, GetNonce(w)
    PROVE  NoncesDiffer'
<1>1. /\ pc[w] = "nonce" /\ pc'[w] = "max" /\ known'[w] = Above(NoncesOf(pool[ApiOf[w]], Key(w)))
      /\ UNCHANGED <<nonce, result, pool, pushed, msg>>
  BY DEF GetNonce, GoTo, BasicInv, TypeOK, rowVars, chainVars
<1>2. Apart(w, msg[w])
  BY DEF Apart, GetNonce, GoTo, BasicInv, TypeOK, engineVars, rowVars
<1>3. ApiOf[w] \in Apis /\ Key(w) \in Keys
  BY <1>1, WorkerIsAlone, SenderAssumption
<1>4. NoncesOf(pool[ApiOf[w]], Key(w)) = NoncesOf(pushed, Key(w))
  BY <1>3 DEF NoncesDiffer, PoolKnows
<1>5. \A n \in NoncesOf(pushed, Key(w)) : n < known'[w]
  BY <1>1, <1>3, <1>4, PoolNonces, AboveIsNext
<1>6. FreshOK(w)'
  BY <1>1, <1>5 DEF FreshOK, Key
<1> QED
  BY <1>1, <1>2, <1>6, WorkerStepDiffers

LEMMA MaxNonceDiffers ==
    ASSUME BasicInv, Ordered, NoncesDiffer, faults'.mix = faults.mix, NEW w \in Workers, MaxNonce(w)
    PROVE  NoncesDiffer'
<1>1. /\ pc[w] = "max" /\ pc'[w] = "write" /\ known'[w] = Max({known[w], Above(SentNonces(Key(w)))})
      /\ UNCHANGED <<nonce, result, pool, pushed, msg>>
  BY DEF MaxNonce, GoTo, BasicInv, TypeOK, rowVars, chainVars
<1>2. Apart(w, msg[w])
  BY DEF Apart, MaxNonce, GoTo, BasicInv, TypeOK, engineVars, rowVars
<1>3. known[w] \in Nat /\ Above(SentNonces(Key(w))) \in Nat
  BY <1>1, SentNoncesAre, AboveIsNext DEF BasicInv, WorkerOK
<1>4. known'[w] \in Nat /\ known'[w] >= known[w]
  BY <1>1, <1>3, MaxOfTwo
<1>5. NoncesOf(pushed, Key(w)) \subseteq Nat
  BY NoncesAre DEF BasicInv, TypeOK
<1>6. \A n \in NoncesOf(pushed, Key(w)) : n < known'[w]
  <2>1. \A n \in NoncesOf(pushed, Key(w)) : n < known[w]
    BY <1>1 DEF NoncesDiffer, FreshOK
  <2> QED
    BY <1>3, <1>4, <1>5, <2>1
<1>7. FreshOK(w)'
  BY <1>1, <1>6 DEF FreshOK, Key
<1> QED
  BY <1>1, <1>2, <1>7, WorkerStepDiffers

LEMMA StartDiffers ==
    ASSUME BasicInv, Ordered, NoncesDiffer, faults'.mix = faults.mix, NEW w \in Workers, NEW m \in Msgs, Start(w, m)
    PROVE  NoncesDiffer'
<1>1. /\ pc[w] = "idle" /\ task[m] = "present" /\ pc'[w] = "read"
      /\ UNCHANGED <<nonce, result, pool, pushed>>
  BY DEF Start, GoTo, BasicInv, TypeOK, rowVars, chainVars
<1>2. Apart(w, m)
  BY DEF Apart, Start, GoTo, BasicInv, TypeOK, rowVars
<1>3. Alone(w, m)
  BY OwnerIsAlone DEF Start, Ordered
<1>4. ~Void(m)
  BY <1>1, <1>3, NotVoid
<1>5. \A o \in Msgs : Void(o) => o # m /\ <<o, nonce[o]>> \notin pushed'
  BY <1>1, <1>4 DEF Void
<1>6. VoidsStay
  BY <1>1, <1>2, <1>5, OtherVoidsStay DEF VoidsStay
<1>7. RefusalOK(w)' /\ FreshOK(w)'
  BY <1>1 DEF RefusalOK, FreshOK
<1> QED
  BY <1>1, <1>2, <1>6, <1>7, QuietStepDiffers

\* A worker on its way out: a void message stays void because its worker can
\* neither crash nor fail to release the lock.
LEMMA LeavingDiffers ==
    ASSUME BasicInv, Ordered, Orderly, NoncesDiffer, faults'.mix = faults.mix, NEW w \in Workers,
           Release(w) \/ Return(w) \/ Crash(w)
    PROVE  NoncesDiffer'
<1>1. /\ pc[w] # "idle" /\ pc'[w] \in {"idle", "return"}
      /\ UNCHANGED <<nonce, result, pool, pushed, msg>>
  BY DEF Release, Return, Crash, GoTo, BasicInv, TypeOK, rowVars, chainVars
<1>2. msg[w] \in Msgs /\ Key(w) \in Keys /\ Alone(w, msg[w]) /\ task[msg[w]] = "present"
  BY <1>1, WorkerIsAlone
<1>3. Apart(w, msg[w])
  BY <1>2 DEF Apart, Release, Return, Crash, GoTo, BasicInv, TypeOK, engineVars, rowVars
<1>4. ASSUME NEW m \in Msgs, m = msg[w], Void(m)
      PROVE  Void(m)'
  <2>1. /\ "refused" \in faults.mix /\ "crash" \notin faults.mix /\ "database" \notin faults.mix
        /\ pc[w] \in {"release", "return"} /\ verdict[w] = "done"
    BY <1>2, <1>4 DEF Void, Alone, Orderly
  <2>2. CASE Release(w)
    <3>1. pc'[w] = "return" /\ verdict'[w] = "done" /\ msg'[w] = m
      BY <1>1, <1>4, <2>1, <2>2 DEF Release, Fault, GoTo, BasicInv, TypeOK
    <3> QED
      BY <1>1, <1>4, <3>1 DEF Void
  <2>3. CASE Return(w)
    <3>1. task'[m] = "deleted"
      BY <1>2, <1>4, <2>1, <2>3 DEF Return, BasicInv, TypeOK
    <3> QED
      BY <1>1, <1>4, <3>1 DEF Void
  <2>4. CASE Crash(w)
    BY <2>1, <2>4 DEF Crash, Fault
  <2> QED
    BY <2>2, <2>3, <2>4
<1>5. VoidsStay
  <2>1. \A o \in Msgs : Void(o) => <<o, nonce[o]>> \notin pushed'
    BY <1>1 DEF Void
  <2>2. ASSUME NEW o \in Msgs, Void(o), o # msg[w]
        PROVE  Void(o)'
    BY <1>2, <1>3, <2>1, <2>2, OtherVoidsStay
  <2> QED
    BY <1>4, <2>2 DEF VoidsStay
<1>6. RefusalOK(w)' /\ FreshOK(w)'
  BY <1>1 DEF RefusalOK, FreshOK
<1> QED
  BY <1>1, <1>3, <1>5, <1>6, QuietStepDiffers

LEMMA WriteNonceDiffers ==
    ASSUME BasicInv, Ordered, NoncesDiffer, faults'.mix = faults.mix, NEW w \in Workers, WriteNonce(w)
    PROVE  NoncesDiffer'
<1>1. /\ pc[w] = "write" /\ pc'[w] \in {"push", "release"}
      /\ UNCHANGED <<result, pool, pushed, msg, known>>
  BY DEF WriteNonce, Fail, GoTo, BasicInv, TypeOK, chainVars
<1>2. /\ msg[w] \in Msgs /\ Key(w) \in Keys /\ known[w] \in Nat /\ nonce[msg[w]] = NoNonce /\ result[msg[w]] = None
      /\ Key(w) = FromKey[msg[w]]
  <2>1. msg[w] \in Msgs /\ Key(w) \in Keys
    BY <1>1, WorkerIsAlone
  <2>2. known[w] \in Nat /\ nonce[msg[w]] = NoNonce
    BY <1>1 DEF BasicInv, WorkerOK, Ordered, OwnerOK
  <2>3. result[msg[w]] = None
    BY <2>1, <2>2 DEF BasicInv, RowOK, NoNonce
  <2> QED
    BY <2>1, <2>2, <2>3 DEF Key
<1>3. Apart(w, msg[w])
  BY <1>2 DEF Apart, WriteNonce, Fail, GoTo, BasicInv, TypeOK, engineVars
<1>4. VoidsStay
  BY <1>1, <1>3, WorkerVoidsStay
<1>5. \/ nonce' = nonce
      \/ ~NonceTaken(msg[w], known[w]) /\ nonce' = [nonce EXCEPT ![msg[w]] = known[w]]
  BY <1>2 DEF WriteNonce, None
<1>6. CASE nonce' = nonce
  <2>1. RefusalOK(w)' /\ FreshOK(w)'
    BY <1>1 DEF RefusalOK, FreshOK
  <2> QED
    BY <1>1, <1>3, <1>4, <1>6, <2>1, QuietStepDiffers
<1>7. CASE ~NonceTaken(msg[w], known[w]) /\ nonce' = [nonce EXCEPT ![msg[w]] = known[w]]
  <2>1. nonce'[msg[w]] = known[w] /\ \A o \in Msgs : o # msg[w] => nonce'[o] = nonce[o]
    BY <1>2, <1>7 DEF BasicInv, TypeOK
  <2>2. ASSUME NEW o \in Msgs, o # msg[w], FromKey[o] = Key(w), nonce[o] = known[w]
        PROVE  Void(o)
    <3>1. result[o] = "failed"
      BY <1>2, <1>7, <2>2 DEF NonceTaken
    <3>2. ASSUME <<o, nonce[o]>> \in pushed
          PROVE  FALSE
      <4>1. PICK s \in pushed : s = <<o, nonce[o]>> /\ s[1] = o /\ s[2] = nonce[o]
        BY <3>2
      <4>2. nonce[o] \in NoncesOf(pushed, Key(w))
        BY <2>2, <4>1, NoncesAre DEF BasicInv, TypeOK
      <4>3. nonce[o] < known[w]
        BY <1>1, <4>2 DEF NoncesDiffer, FreshOK
      <4> QED
        BY <1>2, <2>2, <4>3
    <3> QED
      BY <3>1, <3>2 DEF NoncesDiffer, FailureOK
  <2>3. ASSUME NEW o \in Msgs, NEW p \in Msgs
        PROVE  PairOK(o, p)'
    <3>1. PairOK(o, p)
      BY DEF NoncesDiffer
    <3>2. CASE o # msg[w] /\ p # msg[w]
      BY <1>4, <2>1, <3>1, <3>2 DEF PairOK, VoidsStay
    <3>3. CASE o = msg[w] /\ p # msg[w]
      BY <1>2, <1>4, <2>1, <2>2, <3>3 DEF PairOK, VoidsStay
    <3>4. CASE o # msg[w] /\ p = msg[w]
      BY <1>2, <1>4, <2>1, <2>2, <3>4 DEF PairOK, VoidsStay
    <3> QED
      BY <3>2, <3>3, <3>4 DEF PairOK
  <2>4. ASSUME NEW o \in Msgs
        PROVE  FailureOK(o)'
    BY <1>1, <1>2, <1>4, <2>1 DEF NoncesDiffer, FailureOK, VoidsStay, None
  <2>5. ASSUME NEW v \in Workers
        PROVE  RefusalOK(v)' /\ FreshOK(v)'
    <3>1. CASE v = w
      BY <1>1, <3>1 DEF RefusalOK, FreshOK
    <3>2. CASE v # w
      <4>1. pc'[v] = pc[v] /\ msg'[v] = msg[v] /\ known'[v] = known[v] /\ verdict'[v] = verdict[v]
        BY <1>3, <3>2 DEF Apart
      <4>2. RefusalOK(v)'
        BY <1>1, <4>1 DEF NoncesDiffer, RefusalOK
      <4>3. FreshOK(v)'
        BY <1>1, <4>1 DEF NoncesDiffer, FreshOK, Key
      <4> QED
        BY <4>2, <4>3
    <3> QED
      BY <3>1, <3>2
  <2>6. \A v \in Workers : PoolKnows(v)'
    BY <1>1 DEF NoncesDiffer, PoolKnows
  <2> QED
    BY <2>3, <2>4, <2>5, <2>6 DEF NoncesDiffer
<1> QED
  BY <1>5, <1>6, <1>7

LEMMA PersistDiffers ==
    ASSUME BasicInv, Ordered, NoncesDiffer, faults'.mix = faults.mix, NEW w \in Workers, Persist(w)
    PROVE  NoncesDiffer'
<1>1. /\ pc[w] = "persist" /\ pc'[w] = "release"
      /\ UNCHANGED <<nonce, pool, pushed, msg, known>>
  BY DEF Persist, Fail, GoTo, BasicInv, TypeOK, chainVars
<1>2. msg[w] \in Msgs /\ known[w] = nonce[msg[w]] /\ verdict[w] \in {"sent", "failed"}
  BY <1>1, WorkerIsAlone DEF BasicInv, WorkerOK, Ordered, OwnerOK
<1>3. Apart(w, msg[w])
  BY <1>2 DEF Apart, Persist, Fail, GoTo, BasicInv, TypeOK, engineVars
<1>4. VoidsStay
  BY <1>1, <1>3, WorkerVoidsStay
<1>5. RefusalOK(w)' /\ FreshOK(w)'
  BY <1>1 DEF RefusalOK, FreshOK
<1>6. result' = result \/ (result' = [result EXCEPT ![msg[w]] = verdict[w]] /\ verdict'[w] = "done")
  BY DEF Persist, BasicInv, TypeOK
<1>7. CASE result' = result
  BY <1>1, <1>3, <1>4, <1>5, <1>7, QuietStepDiffers
<1>8. CASE result' = [result EXCEPT ![msg[w]] = verdict[w]] /\ verdict'[w] = "done"
  <2>1. result'[msg[w]] = verdict[w] /\ \A o \in Msgs : o # msg[w] => result'[o] = result[o]
    BY <1>2, <1>8 DEF BasicInv, TypeOK
  <2>2. \A o, p \in Msgs : PairOK(o, p)'
    BY <1>1, <1>4 DEF NoncesDiffer, PairOK, VoidsStay
  <2>3. ASSUME NEW o \in Msgs
        PROVE  FailureOK(o)'
    <3>1. CASE o # msg[w]
      BY <1>1, <1>4, <2>1, <3>1 DEF NoncesDiffer, FailureOK, VoidsStay
    <3>2. CASE o = msg[w] /\ verdict[w] = "failed"
      <4>1. <<o, nonce[o]>> \in pushed \/ "refused" \in faults.mix
        BY <1>1, <1>2, <3>2 DEF NoncesDiffer, RefusalOK
      <4> QED
        BY <1>1, <1>8, <2>1, <3>2, <4>1 DEF FailureOK, Void
    <3>3. CASE o = msg[w] /\ verdict[w] = "sent"
      BY <2>1, <3>3 DEF FailureOK
    <3> QED
      BY <1>2, <3>1, <3>2, <3>3
  <2>4. ASSUME NEW v \in Workers, v # w
        PROVE  RefusalOK(v)' /\ FreshOK(v)'
    <3>1. pc'[v] = pc[v] /\ msg'[v] = msg[v] /\ known'[v] = known[v] /\ verdict'[v] = verdict[v]
      BY <1>3, <2>4 DEF Apart
    <3>2. RefusalOK(v)'
      BY <1>1, <3>1 DEF NoncesDiffer, RefusalOK
    <3>3. FreshOK(v)'
      BY <1>1, <3>1 DEF NoncesDiffer, FreshOK, Key
    <3> QED
      BY <3>2, <3>3
  <2>5. \A v \in Workers : PoolKnows(v)'
    BY <1>1 DEF NoncesDiffer, PoolKnows
  <2> QED
    BY <1>5, <2>2, <2>3, <2>4, <2>5 DEF NoncesDiffer
<1> QED
  BY <1>6, <1>7, <1>8

\* Nobody else has used the nonce a worker is about to push.
LEMMA NobodyElseUsed ==
    ASSUME BasicInv, Ordered, NoncesDiffer, NEW w \in Workers, pc[w] = "push",
           NEW s \in pushed, FromKey[s[1]] = Key(w), s[2] = known[w]
    PROVE  s[1] = msg[w]
<1>1. msg[w] \in Msgs /\ ~Void(msg[w])
  BY WorkerIsAlone, NotVoid
<1>2. known[w] = nonce[msg[w]] /\ known[w] \in Nat
  BY DEF Ordered, OwnerOK, BasicInv, WorkerOK
<1>3. s[1] \in Msgs /\ s = <<s[1], s[2]>> /\ nonce[s[1]] = s[2]
  BY DEF Ordered, SequenceOK, BasicInv, TypeOK, Signed
<1>4. ~Void(s[1])
  <2>1. <<s[1], nonce[s[1]]>> = s
    BY <1>3
  <2> QED
    BY <2>1 DEF Void
<1>5. PairOK(msg[w], s[1])
  BY <1>1, <1>3 DEF NoncesDiffer
<1> QED
  BY <1>1, <1>2, <1>3, <1>4, <1>5 DEF PairOK, NoNonce, Key

\* What a mempool that takes a message in knows.
LEMMA ReplacedNonces ==
    ASSUME BasicInv, NEW w \in Workers, Push(w), NEW k
    PROVE  NoncesOf(Replaced(w), k) = NoncesOf(pool[ApiOf[w]] \cup {<<msg[w], known[w]>>}, k)
<1>1. PICK s \in Signed : s = <<msg[w], known[w]>> /\ s[1] = msg[w] /\ s[2] = known[w]
  BY PushOutcome
<1> DEFINE P == pool[ApiOf[w]]
<1>2. Replaced(w) = {x \in P : FromKey[x[1]] = FromKey[s[1]] => x[2] # s[2]} \cup {s}
  BY <1>1 DEF Replaced
<1>3. ASSUME NEW n
      PROVE  n \in NoncesOf(Replaced(w), k) <=> n \in NoncesOf(P \cup {s}, k)
  <2> HIDE DEF P
  <2>1. n \in NoncesOf(Replaced(w), k) => n \in NoncesOf(P \cup {s}, k)
    BY <1>2 DEF NoncesOf
  <2>2. ASSUME NEW x \in P \cup {s}, FromKey[x[1]] = k, x[2] = n
        PROVE  n \in NoncesOf(Replaced(w), k)
    <3>1. CASE x \in Replaced(w)
      BY <2>2, <3>1 DEF NoncesOf
    <3>2. CASE x \notin Replaced(w)
      <4>1. FromKey[s[1]] = k /\ s[2] = n /\ s \in Replaced(w)
        BY <1>2, <2>2, <3>2
      <4> QED
        BY <4>1 DEF NoncesOf
    <3> QED
      BY <3>1, <3>2
  <2> QED
    BY <2>1, <2>2 DEF NoncesOf
<1> QED
  BY <1>1, <1>3

LEMMA PushDiffers ==
    ASSUME BasicInv, Ordered, SharedApi, NoncesDiffer, faults'.mix = faults.mix, NEW w \in Workers, Push(w)
    PROVE  NoncesDiffer'
<1>1. pc[w] = "push" /\ pc'[w] = "persist" /\ UNCHANGED <<task, owner, nonce, result, lock, msg, known>>
  BY DEF Push, GoTo, BasicInv, TypeOK, engineVars, rowVars
<1>2. /\ msg[w] \in Msgs /\ Key(w) \in Keys /\ ApiOf[w] \in Apis /\ <<msg[w], known[w]>> \in Signed
      /\ lock[Key(w)] = msg[w]
  BY <1>1, WorkerIsAlone, PushOutcome DEF Ordered, OwnerOK, Inside
<1>3. Apart(w, msg[w])
  <2>1. \A v \in Workers : v # w => pc'[v] = pc[v] /\ verdict'[v] = verdict[v]
    BY DEF Push, GoTo, BasicInv, TypeOK
  <2> QED
    BY <1>1, <2>1 DEF Apart
<1>4. /\ pushed' \in {pushed, pushed \cup {<<msg[w], known[w]>>}}
      /\ \/ pushed' = pushed \cup {<<msg[w], known[w]>>} /\ pool' = [pool EXCEPT ![ApiOf[w]] = Replaced(w)]
         \/ /\ UNCHANGED <<pool, pushed>>
            /\ known[w] \in NoncesOf(pool[ApiOf[w]], Key(w)) \/ "refused" \in faults.mix
  BY PushOutcome
<1>5. VoidsStay
  BY <1>1, <1>3, <1>4, WorkerVoidsStay
<1>6. \A o, p \in Msgs : PairOK(o, p)'
  BY <1>1, <1>5 DEF NoncesDiffer, PairOK, VoidsStay
<1>7. \A o \in Msgs : FailureOK(o)'
  BY <1>1, <1>4, <1>5 DEF NoncesDiffer, FailureOK, VoidsStay
<1>8. RefusalOK(w)' /\ FreshOK(w)'
  <2>1. ASSUME known[w] \in NoncesOf(pool[ApiOf[w]], Key(w))
        PROVE  <<msg[w], known[w]>> \in pushed
    <3>1. PICK s \in pushed : FromKey[s[1]] = Key(w) /\ s[2] = known[w]
      BY <1>2, <2>1 DEF BasicInv, NoncesOf
    <3>2. s[1] = msg[w] /\ s = <<s[1], s[2]>>
      BY <1>1, <3>1, NobodyElseUsed DEF BasicInv, TypeOK, Signed
    <3> QED
      BY <3>1, <3>2
  <2> QED
    BY <1>1, <1>4, <2>1 DEF RefusalOK, FreshOK
<1>9. ASSUME NEW v \in Workers, v # w
      PROVE  RefusalOK(v)' /\ FreshOK(v)'
  <2>1. pc'[v] = pc[v] /\ msg'[v] = msg[v] /\ known'[v] = known[v] /\ verdict'[v] = verdict[v]
    BY <1>3, <1>9 DEF Apart
  <2>2. RefusalOK(v)'
    BY <1>4, <2>1 DEF NoncesDiffer, RefusalOK
  <2>3. ASSUME pc[v] \in {"max", "write"}
        PROVE  NoncesOf(pushed', Key(v)) = NoncesOf(pushed, Key(v))
    <3>1. Key(v) # Key(w)
      <4>1. msg[v] # msg[w] /\ lock[Key(v)] = msg[v]
        BY <1>1, <1>9, <2>3, WorkerIsAlone DEF Alone, Ordered, OwnerOK, Inside
      <4> QED
        BY <1>2, <4>1
    <3>2. PICK s \in Signed : s = <<msg[w], known[w]>> /\ FromKey[s[1]] # Key(v)
      BY <1>2, <3>1 DEF Key
    <3>3. NoncesOf(pushed \cup {s}, Key(v)) = NoncesOf(pushed, Key(v))
      <4>1. pushed \subseteq Signed
        BY DEF BasicInv, TypeOK
      <4> QED
        BY <3>2, <4>1, OneMoreNonce
    <3> QED
      BY <1>4, <3>2, <3>3
  <2>4. FreshOK(v)'
    BY <2>1, <2>3 DEF NoncesDiffer, FreshOK, Key
  <2> QED
    BY <2>2, <2>4
<1>10. ASSUME NEW v \in Workers, NEW k \in Keys
       PROVE  NoncesOf(pool'[ApiOf[v]], k) = NoncesOf(pushed', k)
  <2>1. ApiOf[v] = ApiOf[w]
    BY DEF SharedApi
  <2>2. NoncesOf(pool[ApiOf[w]], k) = NoncesOf(pushed, k)
    BY DEF NoncesDiffer, PoolKnows
  <2>3. CASE UNCHANGED <<pool, pushed>>
    BY <2>1, <2>2, <2>3
  <2>4. CASE pushed' = pushed \cup {<<msg[w], known[w]>>} /\ pool' = [pool EXCEPT ![ApiOf[w]] = Replaced(w)]
    <3>1. pool'[ApiOf[w]] = Replaced(w)
      BY <1>2, <2>4 DEF BasicInv, TypeOK
    <3>2. PICK s \in Signed : s = <<msg[w], known[w]>>
      BY <1>2
    <3>3. pool[ApiOf[w]] \subseteq Signed /\ pushed \subseteq Signed
      BY <1>2 DEF BasicInv, TypeOK
    <3>4. NoncesOf(pool[ApiOf[w]] \cup {s}, k) = NoncesOf(pushed \cup {s}, k)
      <4>1. CASE FromKey[s[1]] = k
        <5>1. NoncesOf(pool[ApiOf[w]] \cup {s}, k) = NoncesOf(pool[ApiOf[w]], k) \cup {s[2]}
          BY <3>3, <4>1, OneMoreNonce
        <5>2. NoncesOf(pushed \cup {s}, k) = NoncesOf(pushed, k) \cup {s[2]}
          BY <3>3, <4>1, OneMoreNonce
        <5> QED
          BY <2>2, <5>1, <5>2
      <4>2. CASE FromKey[s[1]] # k
        <5>1. NoncesOf(pool[ApiOf[w]] \cup {s}, k) = NoncesOf(pool[ApiOf[w]], k)
          BY <3>3, <4>2, OneMoreNonce
        <5>2. NoncesOf(pushed \cup {s}, k) = NoncesOf(pushed, k)
          BY <3>3, <4>2, OneMoreNonce
        <5> QED
          BY <2>2, <5>1, <5>2
      <4> QED
        BY <4>1, <4>2
    <3>5. NoncesOf(Replaced(w), k) = NoncesOf(pool[ApiOf[w]] \cup {s}, k)
      BY <3>2, ReplacedNonces
    <3> QED
      BY <2>1, <2>4, <3>1, <3>2, <3>4, <3>5
  <2> QED
    BY <1>4, <2>3, <2>4
<1>11. \A v \in Workers : PoolKnows(v)'
  BY <1>10 DEF PoolKnows, NoncesOf
<1> QED
  BY <1>6, <1>7, <1>8, <1>9, <1>11 DEF NoncesDiffer

\* Gossip brings the workers' mempool nothing it does not know.
LEMMA GossipDiffers ==
    ASSUME BasicInv, Ordered, SharedApi, NoncesDiffer, NEW a \in Apis, NEW b \in Apis, Gossip(a, b)
    PROVE  NoncesDiffer'
<1>1. UNCHANGED <<task, nonce, result, pushed, pc, msg, known, verdict, faults>>
  BY DEF Gossip, engineVars, rowVars, workerVars
<1>2. ASSUME NEW v \in Workers
      PROVE  pool'[ApiOf[v]] = pool[ApiOf[v]]
  <2>1. PICK s \in pool[a] : s[2] \notin NoncesOf(pool[b], FromKey[s[1]]) /\ pool' = [pool EXCEPT ![b] = pool[b] \cup {s}]
    BY DEF Gossip
  <2>2. s \in pushed /\ FromKey[s[1]] \in Keys
    BY <2>1, SenderAssumption DEF BasicInv, TypeOK, Signed
  <2>3. s[2] \in NoncesOf(pushed, FromKey[s[1]])
    BY <2>2, NoncesAre DEF BasicInv, TypeOK
  <2>4. NoncesOf(pool[ApiOf[v]], FromKey[s[1]]) = NoncesOf(pushed, FromKey[s[1]])
    BY <2>2 DEF NoncesDiffer, PoolKnows
  <2>5. ApiOf[v] # b
    BY <2>1, <2>3, <2>4
  <2> QED
    BY <2>1, <2>5, SenderAssumption DEF BasicInv, TypeOK
<1>3. \A m \in Msgs : Void(m)' <=> Void(m)
  BY <1>1 DEF Void
<1>4. \A v \in Workers : PoolKnows(v)'
  BY <1>1, <1>2 DEF NoncesDiffer, PoolKnows, NoncesOf
<1>5. \A o, p \in Msgs : PairOK(o, p)'
  BY <1>1, <1>3 DEF NoncesDiffer, PairOK
<1>6. \A o \in Msgs : FailureOK(o)'
  BY <1>1, <1>3 DEF NoncesDiffer, FailureOK
<1>7. \A v \in Workers : RefusalOK(v)' /\ FreshOK(v)'
  BY <1>1 DEF NoncesDiffer, RefusalOK, FreshOK, NoncesOf, Key
<1> QED
  BY <1>4, <1>5, <1>6, <1>7 DEF NoncesDiffer

LEMMA SendDiffers ==
    ASSUME BasicInv, Ordered, NoncesDiffer, (\E m \in Msgs : Send(m) \/ SendReturns(m)) \/ UNCHANGED vars
    PROVE  NoncesDiffer'
<1>1. UNCHANGED <<nonce, result, pool, pushed, pc, msg, known, verdict, faults>>
  BY DEF Send, SendReturns, vars, engineVars, rowVars, chainVars, workerVars
<1>2. \A o \in Msgs : task[o] = "deleted" => task'[o] = "deleted"
  BY DEF Send, SendReturns, vars, engineVars, BasicInv, TypeOK
<1>3. \A m \in Msgs : Void(m) => Void(m)'
  BY <1>1, <1>2 DEF Void
<1>4. \A v \in Workers : PoolKnows(v)'
  BY <1>1 DEF NoncesDiffer, PoolKnows, NoncesOf
<1>5. \A o, p \in Msgs : PairOK(o, p)'
  BY <1>1, <1>3 DEF NoncesDiffer, PairOK
<1>6. \A o \in Msgs : FailureOK(o)'
  BY <1>1, <1>3 DEF NoncesDiffer, FailureOK
<1>7. \A v \in Workers : RefusalOK(v)' /\ FreshOK(v)'
  BY <1>1 DEF NoncesDiffer, RefusalOK, FreshOK, NoncesOf, Key
<1> QED
  BY <1>4, <1>5, <1>6, <1>7 DEF NoncesDiffer

LEMMA DifferInit == Init => NoncesDiffer
<1> SUFFICES ASSUME Init
             PROVE  NoncesDiffer
  OBVIOUS
<1>1. \A k, a \in Apis : NoncesOf(pushed, k) = {} /\ NoncesOf(pool[a], k) = {}
  BY DEF Init, NoncesOf
<1>2. \A w \in Workers : PoolKnows(w)
  <2>1. \A w \in Workers : ApiOf[w] \in Apis
    BY SenderAssumption
  <2>2. \A k \in Keys, a \in Apis : NoncesOf(pushed, k) = {} /\ NoncesOf(pool[a], k) = {}
    BY DEF Init, NoncesOf
  <2> QED
    BY <2>1, <2>2 DEF PoolKnows
<1>3. \A m, o \in Msgs : PairOK(m, o)
  BY DEF Init, PairOK
<1>4. \A m \in Msgs : FailureOK(m)
  BY DEF Init, FailureOK, None
<1>5. \A w \in Workers : RefusalOK(w) /\ FreshOK(w)
  BY DEF Init, RefusalOK, FreshOK
<1> QED
  BY <1>2, <1>3, <1>4, <1>5 DEF NoncesDiffer

LEMMA DifferStep ==
    ASSUME BasicInv, Ordered, Orderly, NoncesDiffer, [Next]_vars
    PROVE  NoncesDiffer'
<1>1. faults'.mix = faults.mix /\ SharedApi /\ NoStalls
  BY MixStays DEF BasicInv, Orderly
<1>2. ASSUME NEW w \in Workers, Do(w)
      PROVE  NoncesDiffer'
  BY <1>1, <1>2, EarlyStepDiffers, LoseOwnershipOrdered, GetNonceDiffers, MaxNonceDiffers,
     WriteNonceDiffers, PushDiffers, PersistDiffers, LeavingDiffers
  DEF Do
<1>3. ASSUME NEW w \in Workers, Stall(w)
      PROVE  FALSE
  BY <1>1, <1>3 DEF Stall, Fault, NoStalls
<1> QED
  BY <1>1, <1>2, <1>3, StartDiffers, EarlyStepDiffers, LeavingDiffers, SendDiffers, GossipDiffers DEF Next

LEMMA SenderInvInductive ==
    /\ Init => SenderInv
    /\ SenderInv /\ [Next]_vars => SenderInv'
<1>1. Init => SenderInv
  BY BasicInit, OrderInvInductive, DifferInit DEF SenderInv
<1>2. ASSUME SenderInv, [Next]_vars
      PROVE  SenderInv'
  <2>1. BasicInv' /\ OrderInv' /\ (Orderly' <=> Orderly)
    BY <1>2, BasicStep, OrderInvInductive, MixStays DEF SenderInv, BasicInv, Orderly, NoStalls, SharedApi
  <2>2. Orderly => Ordered
    BY <1>2 DEF SenderInv, OrderInv, Orderly, Ordered
  <2> QED
    BY <1>2, <2>1, <2>2, DifferStep DEF SenderInv
<1> QED
  BY <1>1, <1>2

\* "safe to rebroadcast the signed message": with one chain API, a message is
\* never pushed under a nonce that another message of its key has used, so
\* long as nobody is overtaken and a refusal is always stored.
THEOREM PushesAreSafe == Spec => []PushIsSafe
<1>1. SenderInv => PushIsSafe
  <2> SUFFICES ASSUME SenderInv, Orderly
               PROVE  RebroadcastIsSafe
    BY DEF PushIsSafe, Orderly
  <2>1. BasicInv /\ Ordered /\ NoncesDiffer
    BY DEF SenderInv, OrderInv, Orderly, Ordered
  <2> QED
    BY <2>1, NobodyElseUsed DEF RebroadcastIsSafe
<1> QED
  BY <1>1, SenderInvInductive, PTL DEF Spec
=============================================================================

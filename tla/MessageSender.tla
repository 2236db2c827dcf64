--------------------------- MODULE MessageSender ---------------------------
(***************************************************************************)
(* The message sender of a Curio cluster (tasks/message/sender.go and its  *)
(* Ethereum twin sender_eth.go).  Send inserts a row into message_sends    *)
(* together with a SendMessage task and polls the row; SendTask.Do, run by *)
(* the task engine on some node, takes the per-key row of                  *)
(* message_send_locks, assigns a nonce, signs, pushes the message to the   *)
(* mempool of the node's chain API and stores the result.                  *)
(*                                                                         *)
(* The engine is reduced to what HarmonyTask promises: it runs Do for a    *)
(* task nobody owns, runs it again after a failure or a crash, deletes the *)
(* task after a success or MaxFailures failures, and may hand a task on    *)
(* while a stalled node still works on it.  The chain API is external: a   *)
(* mempool accepts or refuses, its answer can get lost, and the mempools   *)
(* of several API nodes exchange messages with a delay.                    *)
(***************************************************************************)
EXTENDS Integers, FiniteSets, FiniteSetsExt

CONSTANTS
    Keys,         \* from_key addresses
    Msgs,         \* the messages callers send
    FromKey,      \* the key each message is sent from
    Workers,      \* goroutines that can be inside SendTask.Do
    Apis,         \* chain API nodes
    ApiOf,        \* the API node of each worker's machine
    MaxFailures,  \* TypeDetails().MaxFailures (1000 in the code)
    Mixes,        \* sets of kinds of faults; a behaviour meets the kinds of one of them
    MaxFaults     \* bound: how many faults it meets in all

\* "crash": a worker dies.  "stall": a worker's node loses its task and goes
\* on.  "call": a statement or call before the push fails.  "refused": a
\* mempool refuses a message.  "unheard": it accepts one, and the answer is
\* lost.  "database": storing the nonce is reported as failed though it was
\* done, or storing the result or releasing the lock fails.
FaultKinds == {"crash", "stall", "call", "refused", "unheard", "database"}

None == "none"

ASSUME SenderAssumption ==
    /\ IsFiniteSet(Msgs)
    /\ None \notin Msgs \cup Workers
    /\ FromKey \in [Msgs -> Keys]
    /\ ApiOf \in [Workers -> Apis]
    /\ MaxFailures \in Nat \ {0}
    /\ Mixes \subseteq SUBSET FaultKinds
    /\ MaxFaults \in Nat

VARIABLES
    task,     \* the SendMessage task of the message
    owner,    \* the worker the engine has given it to
    retries,  \* harmony_task.retries
    nonce,    \* message_sends.nonce; the signed message is stored with it
    result,   \* message_sends.send_success
    answer,   \* what Send has returned to its caller
    lock,     \* message_send_locks.task_id of each key
    pool,     \* the signed messages in the mempool of each API node
    pushed,   \* every signed message a mempool has ever accepted
    pc,       \* where the worker is in Do
    msg,      \* the message it works on
    known,    \* dbMsg.Nonce, later the nonce it is about to use
    verdict,  \* what MpoolPush returned, then what Do is about to return
    faults    \* the kinds of faults of this behaviour, and how many it has met

engineVars == <<task, owner, retries>>
rowVars    == <<nonce, result, answer>>
chainVars  == <<pool, pushed>>
workerVars == <<pc, msg, known, verdict>>
vars       == <<engineVars, rowVars, lock, chainVars, workerVars, faults>>

NoNonce == -1

\* A signed message: which message, with which nonce.
Signed == Msgs \X Nat

TypeOK ==
    /\ task \in [Msgs -> {"unused", "present", "deleted"}]
    /\ owner \in [Msgs -> Workers \cup {None}]
    /\ retries \in [Msgs -> Nat]
    /\ nonce \in [Msgs -> Nat \cup {NoNonce}]
    /\ result \in [Msgs -> {None, "sent", "failed"}]
    /\ answer \in [Msgs -> {None, "sent", "failed"}]
    /\ lock \in [Keys -> Msgs \cup {None}]
    /\ pool \in [Apis -> SUBSET Signed]
    /\ pushed \in SUBSET Signed
    /\ pc \in [Workers -> {"idle", "read", "lock", "nonce", "max", "write", "push",
                           "persist", "release", "return"}]
    /\ msg \in [Workers -> Msgs \cup {None}]
    /\ known \in [Workers -> Nat \cup {NoNonce}]
    /\ verdict \in [Workers -> {"sent", "failed", "done", "error"}]
    /\ faults \in [mix : Mixes, met : Nat]

Init ==
    /\ task = [m \in Msgs |-> "unused"]
    /\ owner = [m \in Msgs |-> None]
    /\ retries = [m \in Msgs |-> 0]
    /\ nonce = [m \in Msgs |-> NoNonce]
    /\ result = [m \in Msgs |-> None]
    /\ answer = [m \in Msgs |-> None]
    /\ lock = [k \in Keys |-> None]
    /\ pool = [a \in Apis |-> {}]
    /\ pushed = {}
    /\ pc = [w \in Workers |-> "idle"]
    /\ msg = [w \in Workers |-> None]
    /\ known = [w \in Workers |-> NoNonce]
    /\ verdict = [w \in Workers |-> "error"]
    /\ faults \in [mix : Mixes, met : {0}]

\* The nonces of key k in a set of signed messages.
NoncesOf(S, k) == {s[2] : s \in {x \in S : FromKey[x[1]] = k}}

Above(N) == IF N = {} THEN 0 ELSE Max(N) + 1

Key(w) == FromKey[msg[w]]

GoTo(w, l) == pc' = [pc EXCEPT ![w] = l]

Fault(kind) ==
    /\ kind \in faults.mix
    /\ faults.met < MaxFaults
    /\ faults' = [faults EXCEPT !.met = @ + 1]

\* Do is left with an error; the deferred function releases the lock.
Fail(w) ==
    /\ verdict' = [verdict EXCEPT ![w] = "error"]
    /\ GoTo(w, "release")

-----------------------------------------------------------------------------
(* Send.                                                                   *)

\* Gas, balance and marshalling are settled; one transaction inserts the
\* message_sends row and its task.
Send(m) ==
    /\ task[m] = "unused"
    /\ task' = [task EXCEPT ![m] = "present"]
    /\ UNCHANGED <<owner, retries, rowVars, lock, chainVars, workerVars, faults>>

\* The polling loop finds send_success set and returns the signed cid or the
\* error.
SendReturns(m) ==
    /\ answer[m] = None
    /\ result[m] # None
    /\ answer' = [answer EXCEPT ![m] = result[m]]
    /\ UNCHANGED <<engineVars, nonce, result, lock, chainVars, workerVars, faults>>

-----------------------------------------------------------------------------
(* The engine.                                                             *)

\* A node that can sign claims the task and calls Do.
Start(w, m) ==
    /\ pc[w] = "idle"
    /\ task[m] = "present"
    /\ owner[m] = None
    /\ owner' = [owner EXCEPT ![m] = w]
    /\ msg' = [msg EXCEPT ![w] = m]
    /\ GoTo(w, "read")
    /\ UNCHANGED <<task, retries, rowVars, lock, chainVars, known, verdict, faults>>

\* recordCompletion; a stalled worker may find the task gone.
Return(w) ==
    LET m == msg[w]
        last == verdict[w] = "done" \/ retries[m] >= MaxFailures - 1
    IN  /\ pc[w] = "return"
        /\ IF task[m] = "present"
           THEN /\ owner' = [owner EXCEPT ![m] = None]
                /\ task' = [task EXCEPT ![m] = IF last THEN "deleted" ELSE @]
                /\ retries' = [retries EXCEPT ![m] = IF last THEN @ ELSE @ + 1]
           ELSE UNCHANGED engineVars
        /\ GoTo(w, "idle")
        /\ UNCHANGED <<rowVars, lock, chainVars, msg, known, verdict, faults>>

\* The worker's process dies and the cluster notices: the task is unowned
\* again.  The lock stays.
Crash(w) ==
    /\ pc[w] # "idle"
    /\ Fault("crash")
    /\ GoTo(w, "idle")
    /\ owner' = [m \in Msgs |-> IF owner[m] = w THEN None ELSE owner[m]]
    /\ UNCHANGED <<task, retries, rowVars, lock, chainVars, msg, known, verdict>>

\* The worker's node misses its heartbeats and loses the task, but goes on.
Stall(w) ==
    /\ pc[w] # "idle"
    /\ Fault("stall")
    /\ owner[msg[w]] = w
    /\ owner' = [owner EXCEPT ![msg[w]] = None]
    /\ UNCHANGED <<task, retries, rowVars, lock, chainVars, workerVars>>

-----------------------------------------------------------------------------
(* SendTask.Do.                                                            *)

\* Mutant: a stored nonce is ignored.
ReadRowAfresh(w) ==
    /\ pc[w] = "read"
    /\ known' = [known EXCEPT ![w] = NoNonce]
    /\ GoTo(w, "lock")
    /\ UNCHANGED <<engineVars, rowVars, lock, chainVars, msg, verdict, faults>>

\* The SELECT from message_sends: dbMsg.Nonce is read before the lock is held.
ReadRow(w) ==
    /\ pc[w] = "read"
    /\ known' = [known EXCEPT ![w] = nonce[msg[w]]]
    /\ GoTo(w, "lock")
    /\ UNCHANGED <<engineVars, rowVars, lock, chainVars, msg, verdict, faults>>

\* Mutant: the lock row is taken over from any task.
AcquireAnyLock(w) ==
    /\ pc[w] = "lock"
    /\ owner[msg[w]] = w
    /\ lock' = [lock EXCEPT ![Key(w)] = msg[w]]
    /\ GoTo(w, IF known[w] = NoNonce THEN "nonce" ELSE "push")
    /\ UNCHANGED <<engineVars, rowVars, chainVars, msg, known, verdict, faults>>

\* Mutant: the lock row names the worker instead of the task.
AcquireLockByWorker(w) ==
    /\ pc[w] = "lock"
    /\ owner[msg[w]] = w
    /\ lock[Key(w)] \in {None, w}
    /\ lock' = [lock EXCEPT ![Key(w)] = w]
    /\ GoTo(w, IF known[w] = NoNonce THEN "nonce" ELSE "push")
    /\ UNCHANGED <<engineVars, rowVars, chainVars, msg, known, verdict, faults>>

\* Mutant: ON CONFLICT DO NOTHING.
AcquireFreeLock(w) ==
    /\ pc[w] = "lock"
    /\ owner[msg[w]] = w
    /\ lock[Key(w)] = None
    /\ lock' = [lock EXCEPT ![Key(w)] = msg[w]]
    /\ GoTo(w, IF known[w] = NoNonce THEN "nonce" ELSE "push")
    /\ UNCHANGED <<engineVars, rowVars, chainVars, msg, known, verdict, faults>>

\* Still the owner, the worker inserts the key's lock row or finds its own
\* task in it; until then it sleeps and tries again.  A message that was
\* signed before is pushed again as it is.
AcquireLock(w) ==
    /\ pc[w] = "lock"
    /\ owner[msg[w]] = w
    /\ lock[Key(w)] \in {None, msg[w]}
    /\ lock' = [lock EXCEPT ![Key(w)] = msg[w]]
    /\ GoTo(w, IF known[w] = NoNonce THEN "nonce" ELSE "push")
    /\ UNCHANGED <<engineVars, rowVars, chainVars, msg, known, verdict, faults>>

\* stillOwned is FALSE: an error, with nothing to release.
LoseOwnership(w) ==
    /\ pc[w] = "lock"
    /\ owner[msg[w]] # w
    /\ verdict' = [verdict EXCEPT ![w] = "error"]
    /\ GoTo(w, "return")
    /\ UNCHANGED <<engineVars, rowVars, lock, chainVars, msg, known, faults>>

\* MpoolGetNonce of the node's own API.
GetNonce(w) ==
    /\ pc[w] = "nonce"
    /\ known' = [known EXCEPT ![w] = Above(NoncesOf(pool[ApiOf[w]], Key(w)))]
    /\ GoTo(w, "max")
    /\ UNCHANGED <<engineVars, rowVars, lock, chainVars, msg, verdict, faults>>

\* Reading the row, inserting the lock row, asking for a nonce, signing or
\* storing the signed message fails; before the lock is held there is nothing
\* to release.
CallFails(w) ==
    /\ Fault("call")
    /\ \/ /\ pc[w] \in {"read", "lock"}
          /\ verdict' = [verdict EXCEPT ![w] = "error"]
          /\ GoTo(w, "return")
       \/ /\ pc[w] \in {"nonce", "max", "write"}
          /\ Fail(w)
    /\ UNCHANGED <<engineVars, rowVars, lock, chainVars, msg, known>>

\* Mutant: MAX(nonce) counts the failed sends as well.
AllNonces(k) == {nonce[m] : m \in {n \in Msgs : FromKey[n] = k}}

\* The nonces the database knows to be in use for key k.
SentNonces(k) == {nonce[m] : m \in {n \in Msgs : FromKey[n] = k /\ result[n] = "sent"}}

\* SELECT MAX(nonce) of the successful sends; the larger of the two is used.
MaxNonce(w) ==
    /\ pc[w] = "max"
    /\ known' = [known EXCEPT ![w] = Max({@, Above(SentNonces(Key(w)))})]
    /\ GoTo(w, "write")
    /\ UNCHANGED <<engineVars, rowVars, lock, chainVars, msg, verdict, faults>>

\* Mutant: no such index.
NonceNeverTaken(m, n) == FALSE

\* The unique index message_sends_success_index: another row of the key has the
\* nonce, and its send has not failed.
NonceTaken(m, n) ==
    \E o \in Msgs \ {m} : FromKey[o] = FromKey[m] /\ nonce[o] = n /\ result[o] # "failed"

\* Sign, then UPDATE message_sends with nonce and signed message; the index
\* refuses a nonce that another message is being sent with.
WriteNonce(w) ==
    LET m == msg[w]
        refused == result[m] # "failed" /\ NonceTaken(m, known[w])
    IN  /\ pc[w] = "write"
        /\ nonce' = IF refused THEN nonce ELSE [nonce EXCEPT ![m] = known[w]]
        /\ \/ /\ ~refused
              /\ GoTo(w, "push")
              /\ UNCHANGED <<verdict, faults>>
           \/ /\ IF refused THEN UNCHANGED faults ELSE Fault("database")
              /\ Fail(w)
        /\ UNCHANGED <<engineVars, result, answer, lock, chainVars, msg, known>>

\* The mempool of API a takes the signed message s in, in place of one with
\* the same nonce if it pays more.
Accept(a, s) ==
    /\ pool' = [pool EXCEPT ![a] = {x \in @ : FromKey[x[1]] = FromKey[s[1]] => x[2] # s[2]}
                                   \cup {s}]
    /\ pushed' = pushed \cup {s}

\* MpoolPush: accepted, refused (always possible for a nonce that is taken),
\* or accepted with the answer lost.
Push(w) ==
    LET s == <<msg[w], known[w]>>
        a == ApiOf[w]
    IN  /\ pc[w] = "push"
        /\ \/ /\ Accept(a, s)
              /\ verdict' = [verdict EXCEPT ![w] = "sent"]
              /\ UNCHANGED faults
           \/ /\ IF known[w] \in NoncesOf(pool[a], Key(w)) THEN UNCHANGED faults ELSE Fault("refused")
              /\ verdict' = [verdict EXCEPT ![w] = "failed"]
              /\ UNCHANGED chainVars
           \/ /\ Fault("unheard")
              /\ Accept(a, s)
              /\ verdict' = [verdict EXCEPT ![w] = "failed"]
        /\ GoTo(w, "persist")
        /\ UNCHANGED <<engineVars, rowVars, lock, msg, known>>

\* Mutant: send_success is set without looking at err.
PersistSuccess(w) ==
    /\ pc[w] = "persist"
    /\ result' = [result EXCEPT ![msg[w]] = "sent"]
    /\ verdict' = [verdict EXCEPT ![w] = "done"]
    /\ GoTo(w, "release")
    /\ UNCHANGED <<engineVars, nonce, answer, lock, chainVars, msg, known, faults>>

\* Mutant: the error of another call is stored as the outcome of the push.
PersistFailure(w) ==
    /\ pc[w] = "persist"
    /\ result' = [result EXCEPT ![msg[w]] = "failed"]
    /\ verdict' = [verdict EXCEPT ![w] = "done"]
    /\ GoTo(w, "release")
    /\ UNCHANGED <<engineVars, nonce, answer, lock, chainVars, msg, known, faults>>

\* The outcome is stored and Do is done, whatever the outcome; but a success
\* cannot be stored next to another message with the nonce.
Persist(w) ==
    LET m == msg[w]
        refused == verdict[w] = "sent" /\ NonceTaken(m, nonce[m])
    IN  /\ pc[w] = "persist"
        /\ \/ /\ ~refused
              /\ result' = [result EXCEPT ![m] = verdict[w]]
              /\ verdict' = [verdict EXCEPT ![w] = "done"]
              /\ GoTo(w, "release")
              /\ UNCHANGED faults
           \/ /\ IF refused THEN UNCHANGED faults ELSE Fault("database")
              /\ Fail(w)
              /\ UNCHANGED result
        /\ UNCHANGED <<engineVars, nonce, answer, lock, chainVars, msg, known>>

\* The deferred DELETE of the lock row, by key and task id.  Its failure makes
\* Do fail.
Release(w) ==
    /\ pc[w] = "release"
    /\ \/ /\ lock' = [lock EXCEPT ![Key(w)] = IF @ = msg[w] THEN None ELSE @]
          /\ UNCHANGED <<verdict, faults>>
       \/ /\ Fault("database")
          /\ verdict' = [verdict EXCEPT ![w] = "error"]
          /\ UNCHANGED lock
    /\ GoTo(w, "return")
    /\ UNCHANGED <<engineVars, rowVars, chainVars, msg, known>>

-----------------------------------------------------------------------------
(* The mempools.                                                           *)

\* A message reaches the mempool of another API node.
Gossip(a, b) ==
    /\ \E s \in pool[a] :
          /\ s[2] \notin NoncesOf(pool[b], FromKey[s[1]])
          /\ pool' = [pool EXCEPT ![b] = @ \cup {s}]
    /\ UNCHANGED <<engineVars, rowVars, lock, pushed, workerVars, faults>>

-----------------------------------------------------------------------------
(* The specification.                                                      *)

Do(w) ==
    \/ ReadRow(w)
    \/ AcquireLock(w)
    \/ LoseOwnership(w)
    \/ GetNonce(w)
    \/ MaxNonce(w)
    \/ WriteNonce(w)
    \/ Push(w)
    \/ Persist(w)
    \/ Release(w)
    \/ Return(w)

Next ==
    \/ \E m \in Msgs : Send(m) \/ SendReturns(m)
    \/ \E w \in Workers :
          \/ Do(w)
          \/ CallFails(w)
          \/ Crash(w)
          \/ Stall(w)
          \/ \E m \in Msgs : Start(w, m)
    \/ \E a, b \in Apis : Gossip(a, b)

Spec == Init /\ [][Next]_vars

\* The engine runs a task that can be run, a goroutine in Do goes on, and
\* callers poll.  Acquiring the lock is a race that a worker which tries again
\* and again is not assumed to lose for ever.
FairSpec ==
    /\ Spec
    /\ \A m \in Msgs : WF_vars(SendReturns(m)) /\ SF_vars(\E w \in Workers : Start(w, m))
    /\ \A w \in Workers : WF_vars(Do(w)) /\ SF_vars(AcquireLock(w))

-----------------------------------------------------------------------------
(* Properties.                                                             *)

\* Nobody but its owner works on a task.
NoStalls == "stall" \notin faults.mix

\* A worker that is about to push a message is never about to push it under a
\* nonce that another message of the key has already used, whether it has just
\* assigned the nonce or found it in the row.
RebroadcastIsSafe ==
    \A w \in Workers : pc[w] = "push" =>
       \A s \in pushed :
          FromKey[s[1]] = Key(w) /\ s[2] = known[w] => s[1] = msg[w]

\* The nodes of the cluster all talk to the same chain API.
SharedApi == \A v, w \in Workers : ApiOf[v] = ApiOf[w]

\* "safe to rebroadcast the signed message": true with one chain API, unless
\* workers are overtaken or, after a refusal, crash or cannot store it.
PushIsSafe ==
    /\ SharedApi
    /\ NoStalls
    /\ "refused" \in faults.mix => "crash" \notin faults.mix /\ "database" \notin faults.mix
    => RebroadcastIsSafe

\* "Send atomically assigns a nonce, signs, and pushes": crashes and retries
\* do not send a message a second time under another nonce, unless two workers
\* are at it at the same time.
SentOnce == NoStalls => \A s, r \in pushed : s[1] = r[1] => s = r

\* "failures to send don't cause nonce gaps": the nonces of a key that the
\* mempools have accepted are 0 .. n-1 for some n, unless two workers are at the
\* same message.
NoNonceGap ==
    NoStalls =>
       \A k \in Keys : NoncesOf(pushed, k) = 0 .. Cardinality(NoncesOf(pushed, k)) - 1

\* A caller that is told its message was sent can rely on it, whatever fails
\* and whoever else works on the message: it has reached a mempool.
AnswerIsTrue ==
    \A m \in Msgs : answer[m] = "sent" => \E s \in pushed : s[1] = m

\* Every Send returns.
EverySendReturns == \A m \in Msgs : task[m] # "unused" ~> answer[m] # None

=============================================================================

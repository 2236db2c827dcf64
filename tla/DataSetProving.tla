--------------------------- MODULE DataSetProving ---------------------------
(***************************************************************************)
(* How PDP v0 keeps proving a data set (tasks/pdpv0): nextProvingPeriod    *)
(* schedules a challenge in the window of a period, once it has landed a   *)
(* proof task answers it in the window, and when the window is over the    *)
(* next period is scheduled, whatever became of this one.                  *)
(*                                                                         *)
(* One data set.  Periods are counted from the present one: a window is    *)
(* that of a past period, of the one that runs now, or of the next.  It is *)
(* the end of its period.  Watchers that see an old head do what they      *)
(* would have done earlier; a message is confirmed when it is executed.    *)
(***************************************************************************)
EXTENDS Naturals, FiniteSets

CONSTANTS
    PickerCount,      \* nodes that run the watchers of PDP v0
    MaxProveFailures, \* MaxConsecutiveFailures
    MaxProveTasks,    \* bound: proof tasks at a time
    MaxProvingFaults  \* bound: failed attempts, reverted messages, lagging heads, removals of all pieces

ASSUME ProvingAssumption == {PickerCount, MaxProveFailures, MaxProveTasks, MaxProvingFaults} \subseteq Nat \ {0}

VARIABLES
    inWindow,    \* the challenge window of the present period is open
    challenge,   \* PDPVerifier and its listener: the period of the challenge, or none
    answered,    \* and whether it has been proved
    leaves,      \* the data set has pieces on chain
    added,       \* pieces were added that the watcher has not processed yet
    proving,     \* the row of pdp_data_sets
    provedSince, \* the set was proved after prove_at_epoch, and after the last failure if any counts
    picked,      \* how many nodes have selected the row for an InitPP, for a NextPP task
    ppTask,      \* the task of challenge_request_task_id
    strays,      \* sent messages that no row names
    proveTask,   \* pdp_prove_tasks, and how far Do is
    provingFaults

provingVars == <<inWindow, challenge, answered, leaves, added, proving, provedSince, picked, ppTask, strays,
                 proveTask, provingFaults>>

Periods == {"past", "now", "next"}
Kinds == {"init", "next"}
ProveTasks == 1..MaxProveTasks

\* at is prove_at_epoch, msg what became of challenge_request_msg_hash, backoff
\* whether next_prove_attempt_at is still to come.
NotProving ==
    [init |-> FALSE, requested |-> FALSE, at |-> "none", msg |-> "none",
     failures |-> 0, backoff |-> "none", unrecoverable |-> FALSE]

\* The message of a task has been sent for the window at.
NoPP == [kind |-> "none", step |-> "none", at |-> "none", msg |-> "none"]
NoProof == [step |-> "none", at |-> "none"]

ProvingTypeOK ==
    /\ {inWindow, answered, leaves, added} \subseteq BOOLEAN
    /\ challenge \in Periods \cup {"none"}
    /\ proving \in [init : BOOLEAN, requested : BOOLEAN, at : Periods \cup {"none"},
                    msg : {"none", "pending", "landed", "failed"}, failures : 0..MaxProveFailures,
                    backoff : {"none", "waits", "over"}, unrecoverable : BOOLEAN]
    /\ provedSince \in [at : BOOLEAN, failure : BOOLEAN]
    /\ picked \in [Kinds -> 0..PickerCount]
    /\ ppTask \in [kind : {"none", "init", "next"}, step : {"none", "ready", "empty", "sent"},
                   at : Periods \cup {"none"}, msg : {"none", "pending", "landed", "failed"}]
    /\ strays \subseteq Periods
    /\ proveTask \in [ProveTasks -> [step : {"none", "ready", "disable", "prove", "sent"}, at : Periods \cup {"none"}]]
    /\ provingFaults \in 0..MaxProvingFaults

ProvingInit ==
    /\ inWindow = FALSE
    /\ challenge = "none"
    /\ answered = FALSE
    /\ leaves = FALSE
    /\ added = FALSE
    /\ proving = NotProving
    /\ provedSince = [at |-> FALSE, failure |-> FALSE]
    /\ picked = [k \in Kinds |-> 0]
    /\ ppTask = NoPP
    /\ strays = {}
    /\ proveTask = [t \in ProveTasks |-> NoProof]
    /\ provingFaults = 0

ProvingFault == provingFaults < MaxProvingFaults /\ provingFaults' = provingFaults + 1

-----------------------------------------------------------------------------
(* Time and the contracts (external).                                      *)

Shift(at) == CASE at = "now" -> "past" [] at = "next" -> "now" [] OTHER -> at

WindowOpens ==
    /\ ~inWindow
    /\ inWindow' = TRUE
    /\ UNCHANGED <<challenge, answered, leaves, added, proving, provedSince, picked, ppTask, strays, proveTask, provingFaults>>

PeriodEnds ==
    /\ inWindow
    /\ inWindow' = FALSE
    /\ challenge' = Shift(challenge)
    /\ proving' = [proving EXCEPT !.at = Shift(@)]
    /\ ppTask' = [ppTask EXCEPT !.at = Shift(@)]
    /\ strays' = {Shift(at) : at \in strays} \ {"past"}
    /\ proveTask' = [t \in ProveTasks |-> [proveTask[t] EXCEPT !.at = Shift(@)]]
    /\ UNCHANGED <<answered, leaves, added, provedSince, picked, provingFaults>>

BackoffEnds ==
    /\ proving.backoff = "waits"
    /\ proving' = [proving EXCEPT !.backoff = "over"]
    /\ UNCHANGED <<inWindow, challenge, answered, leaves, added, provedSince, picked, ppTask, strays, proveTask, provingFaults>>

AddPieces ==
    /\ ~added
    /\ added' = TRUE
    /\ leaves' = TRUE
    /\ UNCHANGED <<inWindow, challenge, answered, proving, provedSince, picked, ppTask, strays, proveTask, provingFaults>>

\* nextProvingPeriod moves the challenge on to a window that is not over; it is
\* refused for one that is not after the present challenge's.
Schedulable(at) ==
    \/ at = "now" /\ challenge \in {"none", "past"}
    \/ at = "next" /\ challenge # "next"

\* A message whose window is at lands: pieces that are to be removed go, and an
\* empty data set has no challenge.
Lands(at, empty) ==
    /\ leaves
    /\ Schedulable(at)
    /\ leaves' = ~empty
    /\ IF empty THEN ProvingFault ELSE UNCHANGED provingFaults
    /\ challenge' = IF empty THEN "none" ELSE at
    /\ answered' = FALSE

Reverts(at) ==
    /\ IF leaves /\ Schedulable(at) THEN ProvingFault ELSE UNCHANGED provingFaults
    /\ UNCHANGED <<challenge, answered, leaves>>

RowMessageLands(empty) ==
    /\ proving.msg = "pending"
    /\ Lands(proving.at, empty)
    /\ proving' = [proving EXCEPT !.msg = "landed"]
    /\ UNCHANGED <<inWindow, added, provedSince, picked, ppTask, strays, proveTask>>

RowMessageReverts ==
    /\ proving.msg = "pending"
    /\ Reverts(proving.at)
    /\ proving' = [proving EXCEPT !.msg = "failed"]
    /\ UNCHANGED <<inWindow, added, provedSince, picked, ppTask, strays, proveTask>>

TaskMessageLands(empty) ==
    /\ ppTask.msg = "pending"
    /\ Lands(ppTask.at, empty)
    /\ ppTask' = [ppTask EXCEPT !.msg = "landed"]
    /\ UNCHANGED <<inWindow, added, proving, provedSince, picked, strays, proveTask>>

TaskMessageReverts ==
    /\ ppTask.msg = "pending"
    /\ Reverts(ppTask.at)
    /\ ppTask' = [ppTask EXCEPT !.msg = "failed"]
    /\ UNCHANGED <<inWindow, added, proving, provedSince, picked, strays, proveTask>>

StrayLands(at, empty) ==
    /\ at \in strays
    /\ Lands(at, empty)
    /\ strays' = strays \ {at}
    /\ UNCHANGED <<inWindow, added, proving, provedSince, picked, ppTask, proveTask>>

StrayReverts(at) ==
    /\ at \in strays
    /\ Reverts(at)
    /\ strays' = strays \ {at}
    /\ UNCHANGED <<inWindow, added, proving, provedSince, picked, ppTask, proveTask>>

-----------------------------------------------------------------------------
(* failure_handling.go                                                     *)

\* The message that the row names no more, if it is under way.
Named == IF proving.msg = "pending" /\ proving.at # "past" THEN {proving.at} ELSE {}

GiveUp(failures) ==
    [proving EXCEPT !.unrecoverable = TRUE, !.failures = failures, !.backoff = "none",
                    !.init = FALSE, !.at = "none", !.msg = "none"]

\* MarkDatasetProvingUnrecoverable
MarkUnrecoverable ==
    /\ proving' = IF proving.unrecoverable THEN proving ELSE GiveUp(proving.failures + 1)
    /\ strays' = IF proving.unrecoverable THEN strays ELSE strays \cup Named

ApplyProvingBackoff ==
    IF proving.failures + 1 >= MaxProveFailures
    THEN /\ proving' = IF proving.unrecoverable THEN proving ELSE GiveUp(proving.failures + 1)
         /\ strays' = IF proving.unrecoverable THEN strays ELSE strays \cup Named
    ELSE /\ proving' = [proving EXCEPT !.failures = @ + 1, !.backoff = "waits"]
         /\ UNCHANGED strays

\* HandleProvingSendError, unless the error is transient.  ended: the payments
\* of the service are at their end.
HandleProvingSendError(ended) ==
    /\ IF ended THEN MarkUnrecoverable ELSE ApplyProvingBackoff
    /\ provedSince' = [provedSince EXCEPT !.failure = FALSE]

ResetProvingFailures ==
    /\ proving' = [proving EXCEPT !.failures = 0, !.backoff = "none"]
    /\ provedSince' = [provedSince EXCEPT !.failure = FALSE]

-----------------------------------------------------------------------------
(* InitProvingPeriodTask and NextProvingPeriodTask.                        *)

\* processPendingPieceAdd of the watcher for added pieces.
InitOnAdd ==
    /\ added
    /\ added' = FALSE
    /\ proving' = [proving EXCEPT !.init = @ \/ (~proving.requested /\ proving.msg = "none" /\ proving.at = "none")]
    /\ UNCHANGED <<inWindow, challenge, answered, leaves, provedSince, picked, ppTask, strays, proveTask, provingFaults>>

NotHeldBack == ~proving.unrecoverable /\ proving.backoff # "waits"

\* The WHERE clauses of the two watchers.
Wants(k) ==
    CASE k = "init" -> proving.init /\ proving.at = "none"
      [] k = "next" -> proving.at = "past"

Pick(k) ==
    /\ picked["init"] + picked["next"] < PickerCount
    /\ picked' = [picked EXCEPT ![k] = @ + 1]
    /\ UNCHANGED <<inWindow, challenge, answered, leaves, added, proving, provedSince, ppTask, strays, proveTask, provingFaults>>

PickPP(k) == ppTask.kind = "none" /\ NotHeldBack /\ Wants(k) /\ Pick(k)

\* The transaction that adds the task checks only the task id again: what was
\* selected may have been done by now.
AddPPTask(k) ==
    /\ picked[k] > 0
    /\ ppTask.kind = "none"
    /\ IF Wants(k) THEN UNCHANGED provingFaults ELSE ProvingFault
    /\ picked' = [picked EXCEPT ![k] = @ - 1]
    /\ ppTask' = [NoPP EXCEPT !.kind = k, !.step = "ready"]
    /\ UNCHANGED <<inWindow, challenge, answered, leaves, added, proving, provedSince, strays, proveTask>>

\* It finds one, or fails.
AddPPTaskFails(k) ==
    /\ picked[k] > 0
    /\ IF ppTask.kind = "none" /\ Wants(k) THEN ProvingFault ELSE UNCHANGED provingFaults
    /\ picked' = [picked EXCEPT ![k] = @ - 1]
    /\ UNCHANGED <<inWindow, challenge, answered, leaves, added, proving, provedSince, ppTask, strays, proveTask>>

\* The row is not the task's any more.
PPIsVoid ==
    /\ ppTask.kind = "next" /\ ppTask.step = "ready"
    /\ proving.at = "none"
    /\ ppTask' = NoPP
    /\ UNCHANGED <<inWindow, challenge, answered, leaves, added, proving, provedSince, picked, strays, proveTask, provingFaults>>

\* resetDatasetToInitPP, when the listener says ProvingPeriodNotInitialized.
ResetToInit ==
    /\ ppTask.kind = "next" /\ ppTask.step = "ready"
    /\ proving.at # "none"
    /\ challenge = "none"
    /\ proving' = [proving EXCEPT !.msg = "none", !.at = "none", !.init = TRUE, !.requested = FALSE]
    /\ provedSince' = [provedSince EXCEPT !.at = FALSE]
    /\ strays' = strays \cup Named
    /\ ppTask' = NoPP
    /\ UNCHANGED <<inWindow, challenge, answered, leaves, added, picked, proveTask, provingFaults>>

\* The data set is empty: the leaves are read, then proving is disabled.
FindNoLeaves ==
    /\ ppTask.kind = "init" /\ ppTask.step = "ready"
    /\ ~leaves
    /\ ppTask' = [ppTask EXCEPT !.step = "empty"]
    /\ UNCHANGED <<inWindow, challenge, answered, leaves, added, proving, provedSince, picked, strays, proveTask, provingFaults>>

DisableInit ==
    /\ ppTask.step = "empty"
    /\ proving' = [proving EXCEPT !.init = FALSE]
    /\ ppTask' = NoPP
    /\ UNCHANGED <<inWindow, challenge, answered, leaves, added, provedSince, picked, strays, proveTask, provingFaults>>

\* Do is about to send.  The window: a whole period ahead for the first one,
\* later NextPDPChallengeWindowStart.
MaySendPP ==
    /\ ppTask.step = "ready"
    /\ IF ppTask.kind = "init" THEN leaves ELSE proving.at # "none" /\ challenge # "none"

PPWindow == IF ppTask.kind = "next" /\ challenge = "past" THEN "now" ELSE "next"

SendPP ==
    /\ MaySendPP
    /\ Schedulable(PPWindow)
    /\ ppTask' = [ppTask EXCEPT !.step = "sent", !.at = PPWindow, !.msg = "pending"]
    /\ UNCHANGED <<inWindow, challenge, answered, leaves, added, proving, provedSince, picked, strays, proveTask, provingFaults>>

\* The message is refused when its gas is estimated.
SendPPRefused(ended) ==
    /\ MaySendPP
    /\ IF ended \/ Schedulable(PPWindow) THEN ProvingFault ELSE UNCHANGED provingFaults
    /\ HandleProvingSendError(ended)
    /\ ppTask' = NoPP
    /\ UNCHANGED <<inWindow, challenge, answered, leaves, added, picked, proveTask>>

\* Mutant: challenge_request_task_id is not cleared when the task has ended.
CommitPPKeepsTask ==
    /\ ppTask.step = "sent"
    /\ proving' = [proving EXCEPT !.msg = ppTask.msg, !.at = ppTask.at, !.requested = TRUE]
    /\ provedSince' = [provedSince EXCEPT !.at = FALSE]
    /\ strays' = strays \cup Named
    /\ ppTask' = [NoPP EXCEPT !.kind = ppTask.kind]
    /\ UNCHANGED <<inWindow, challenge, answered, leaves, added, picked, proveTask, provingFaults>>

\* Whatever the row has become meanwhile.
CommitPP ==
    /\ ppTask.step = "sent"
    /\ proving' = [proving EXCEPT !.msg = ppTask.msg, !.at = ppTask.at, !.requested = TRUE]
    /\ provedSince' = [provedSince EXCEPT !.at = FALSE]
    /\ strays' = strays \cup Named
    /\ ppTask' = NoPP
    /\ UNCHANGED <<inWindow, challenge, answered, leaves, added, picked, proveTask, provingFaults>>

\* An attempt fails or its node dies: it is repeated, or was the last one and
\* ON DELETE SET NULL clears the column.
PPFails(last) ==
    /\ ppTask.kind # "none"
    /\ ProvingFault
    /\ strays' = strays \cup (IF ppTask.msg = "pending" /\ ppTask.at # "past" THEN {ppTask.at} ELSE {})
    /\ ppTask' = IF last THEN NoPP ELSE [NoPP EXCEPT !.kind = ppTask.kind, !.step = "ready"]
    /\ UNCHANGED <<inWindow, challenge, answered, leaves, added, proving, provedSince, picked, proveTask>>

-----------------------------------------------------------------------------
(* ProveTask.                                                              *)

ProveAt(t, step, at) == proveTask' = [proveTask EXCEPT ![t] = [step |-> step, at |-> at]]

\* The watcher's transaction: the message has landed and the window is open.
AddProveTask(t) ==
    /\ proveTask[t] = NoProof
    /\ proving.msg = "landed"
    /\ proving.at = "past" \/ (proving.at = "now" /\ inWindow)
    /\ NotHeldBack
    /\ proving' = [proving EXCEPT !.msg = "none"]
    /\ ProveAt(t, "ready", "none")
    /\ UNCHANGED <<inWindow, challenge, answered, leaves, added, provedSince, picked, ppTask, strays, provingFaults>>

\* Do is too late, or takes itself to be by a head that lags behind.
TooLate == proving.at \in {"past", "next"} \/ (proving.at = "now" /\ ~inWindow)

SkipProof(t) ==
    /\ proveTask[t].step = "ready"
    /\ proving.at # "none"
    /\ IF TooLate THEN UNCHANGED provingFaults ELSE ProvingFault
    /\ ProveAt(t, "none", "none")
    /\ UNCHANGED <<inWindow, challenge, answered, leaves, added, proving, provedSince, picked, ppTask, strays>>

\* The challenge is read and, if there is one, the proof made.
ReadChallenge(t) ==
    /\ proveTask[t].step = "ready"
    /\ IF TooLate THEN ProvingFault ELSE UNCHANGED provingFaults
    /\ IF challenge = "none" THEN ProveAt(t, "disable", "none") ELSE ProveAt(t, "prove", challenge)
    /\ UNCHANGED <<inWindow, challenge, answered, leaves, added, proving, provedSince, picked, ppTask, strays>>

\* disableProving
DisableProving(t) ==
    /\ proveTask[t].step = "disable"
    /\ proving' = [proving EXCEPT !.msg = "none", !.at = "none", !.init = FALSE, !.requested = FALSE]
    /\ provedSince' = [provedSince EXCEPT !.at = FALSE]
    /\ strays' = strays \cup Named
    /\ ProveAt(t, "none", "none")
    /\ UNCHANGED <<inWindow, challenge, answered, leaves, added, picked, ppTask, provingFaults>>

\* The contract takes a proof of its challenge in the window, once.
Provable(at) == at = "now" /\ challenge = at /\ inWindow /\ ~answered

SendProof(t) ==
    /\ proveTask[t].step = "prove"
    /\ Provable(proveTask[t].at)
    /\ answered' = TRUE
    /\ provedSince' = [at |-> proving.at \in {"past", "now"}, failure |-> proving.failures > 0]
    /\ ProveAt(t, "sent", "none")
    /\ UNCHANGED <<inWindow, challenge, leaves, added, proving, picked, ppTask, strays, provingFaults>>

SendProofRefused(t, ended) ==
    /\ proveTask[t].step = "prove"
    /\ IF ended \/ Provable(proveTask[t].at) THEN ProvingFault ELSE UNCHANGED provingFaults
    /\ HandleProvingSendError(ended)
    /\ ProveAt(t, "none", "none")
    /\ UNCHANGED <<inWindow, challenge, answered, leaves, added, picked, ppTask>>

\* ResetProvingFailures; that it fails is only logged.
FinishProof(t, reset) ==
    /\ proveTask[t].step = "sent"
    /\ IF reset THEN UNCHANGED provingFaults ELSE ProvingFault
    /\ IF reset THEN ResetProvingFailures ELSE UNCHANGED <<proving, provedSince>>
    /\ ProveAt(t, "none", "none")
    /\ UNCHANGED <<inWindow, challenge, answered, leaves, added, picked, ppTask, strays>>

\* An attempt fails or its node dies.
ProofFails(t, last) ==
    /\ proveTask[t].step # "none"
    /\ ProvingFault
    /\ ProveAt(t, IF last THEN "none" ELSE "ready", "none")
    /\ UNCHANGED <<inWindow, challenge, answered, leaves, added, proving, provedSince, picked, ppTask, strays>>

\* syncProvenDataSetFailureState
SyncFailures ==
    /\ ~proving.unrecoverable
    /\ proving.failures > 0 \/ proving.backoff # "none"
    /\ \/ proving.at # "none" /\ provedSince.at
       \/ proving.failures > 0 /\ proving.backoff # "none" /\ provedSince.failure
    /\ ResetProvingFailures
    /\ UNCHANGED <<inWindow, challenge, answered, leaves, added, picked, ppTask, strays, proveTask, provingFaults>>

-----------------------------------------------------------------------------
ProvingNext ==
    \/ WindowOpens
    \/ PeriodEnds
    \/ BackoffEnds
    \/ AddPieces
    \/ \E empty \in BOOLEAN : RowMessageLands(empty) \/ TaskMessageLands(empty)
    \/ RowMessageReverts \/ TaskMessageReverts
    \/ \E at \in Periods, empty \in BOOLEAN : StrayLands(at, empty)
    \/ \E at \in Periods : StrayReverts(at)
    \/ InitOnAdd
    \/ \E k \in Kinds : PickPP(k) \/ AddPPTask(k) \/ AddPPTaskFails(k)
    \/ PPIsVoid
    \/ ResetToInit
    \/ FindNoLeaves
    \/ DisableInit
    \/ SendPP
    \/ \E ended \in BOOLEAN : SendPPRefused(ended)
    \/ CommitPP
    \/ \E last \in BOOLEAN : PPFails(last)
    \/ \E t \in ProveTasks : \/ AddProveTask(t)
                             \/ SkipProof(t)
                             \/ ReadChallenge(t)
                             \/ DisableProving(t)
                             \/ SendProof(t)
                             \/ \E ended \in BOOLEAN : SendProofRefused(t, ended)
                             \/ \E reset \in BOOLEAN : FinishProof(t, reset)
                             \/ \E last \in BOOLEAN : ProofFails(t, last)
    \/ SyncFailures

ProvingSpec == ProvingInit /\ [][ProvingNext]_provingVars

-----------------------------------------------------------------------------
\* A data set that is to be proved is proved in one period after another, though
\* messages revert or are lost to a crash, tasks are dropped, come too late or are
\* scheduled twice, and heads lag; until it is given up or disabled.  A proof
\* counts in the period of its challenge only: when that is over the next one has
\* to be scheduled and proved.  (The watchers of task_init_pp.go, task_next_pp.go
\* and task_prove.go, and failure_handling.go.)
ProvingGoesOn ==
    []<>((answered /\ challenge = "now") \/ proving.unrecoverable \/ (~proving.init /\ proving.at = "none"))
=============================================================================

----------------------------- MODULE TaskLedger -----------------------------
(***************************************************************************)
(* What the task engine promises its users about a task, whatever nodes    *)
(* crash, stall or work on the task at the same time: a submitted task is  *)
(* tried until an attempt succeeds or until MaxFailures attempts have      *)
(* failed (0: no limit), it is settled once, and afterwards no attempt is  *)
(* charged to it any more.                                                 *)
(***************************************************************************)
EXTENDS Naturals

CONSTANTS Tasks, FailureLimit   \* FailureLimit[t] = MaxFailures of t's type

VARIABLES status, failures

Init ==
    /\ status = [t \in Tasks |-> "unknown"]
    /\ failures = [t \in Tasks |-> 0]

Submit(t) ==
    /\ status[t] = "unknown"
    /\ status' = [status EXCEPT ![t] = "pending"]
    /\ UNCHANGED failures

Succeed(t) ==
    /\ status[t] = "pending"
    /\ status' = [status EXCEPT ![t] = "done"]
    /\ UNCHANGED failures

Fail(t) ==
    /\ status[t] = "pending"
    /\ failures' = [failures EXCEPT ![t] = @ + 1]
    /\ status' = [status EXCEPT ![t] =
                    IF failures'[t] = FailureLimit[t] THEN "dropped" ELSE "pending"]

Next == \E t \in Tasks : Submit(t) \/ Succeed(t) \/ Fail(t)

Spec == Init /\ [][Next]_<<status, failures>>

=============================================================================

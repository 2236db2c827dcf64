--------------------------- MODULE MCHarmonyTask ---------------------------
(***************************************************************************)
(* Small clusters for TLC.                                                 *)
(***************************************************************************)
EXTENDS HarmonyTask

CONSTANTS seal, post   \* a pipeline type and a time-sensitive one

\* Priority orders.
OneType == <<seal>>
TwoTypes == <<post, seal>>

\* Which tasks are of which type.
AllSeal == [t \in Tasks |-> seal]
OddIsPost == [t \in Tasks |-> IF t % 2 = 1 THEN post ELSE seal]

\* A machine with two of everything, and one with room for a sealing task or
\* for more time-sensitive ones than the limiter lets through.
Roomy == [cpu |-> 2, ram |-> 2, gpu |-> 0]
Tight == [cpu |-> 4, ram |-> 4, gpu |-> 130]
UnitCost == [ty \in Types |-> [cpu |-> 1, ram |-> 1, gpu |-> 0]]
MixedCost == [ty \in Types |->
                IF ty = post THEN [cpu |-> 1, ram |-> 1, gpu |-> 40]
                             ELSE [cpu |-> 1, ram |-> 4, gpu |-> 0]]

\* Limiters: one for each type without a limit, or one that all types share.
OwnLimiter == [ty \in Types |-> ty]
SharedLimiter == [ty \in Types |-> "shared"]
NoLimit == [l \in {Limiter[ty] : ty \in Types} |-> 0]
LimitTwo == [l \in {Limiter[ty] : ty \in Types} |-> 2]

NoOverride == [ty \in Types |-> {}]
SelfOverride == [ty \in Types |-> {ty}]
TwoFailures == [ty \in Types |-> 2]
Forever == [ty \in Types |-> 0]

=============================================================================

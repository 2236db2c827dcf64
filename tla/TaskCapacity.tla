---------------------------- MODULE TaskCapacity ----------------------------
(***************************************************************************)
(* The admission arithmetic of one node: the limiters of                   *)
(* harmony/taskhelp/max.go, the resource accounting of                     *)
(* TaskEngine.ResourcesAvailable and the capacity test of                  *)
(* taskTypeHandler.AssertMachineHasCapacity.                               *)
(*                                                                         *)
(* Every operator is a function of act, the number of goroutines of each   *)
(* task type the node runs (Max.ActiveThis).  GPU shares, which the code   *)
(* keeps as floats, are integers in a fixed unit (one hundredth of a GPU   *)
(* in the models), so that a share of a GPU can still be a cost.           *)
(***************************************************************************)
EXTENDS Integers, FiniteSets, FiniteSetsExt

CONSTANTS
    Types,        \* the task types a node has a handler for
    Machine,      \* e.reg.Resources: a record with fields cpu, ram and gpu
    Cost,         \* TypeDetails().Cost of each type, the same three fields
    Limiter,      \* the limiter of each type; two types may share one
    LimitN,       \* MaxCounter.N of each limiter, 0 for no limit
    MaxHeadroom   \* HARMONY_MAX_TASKS_PER_TYPE, 100 by default

Resource == {"cpu", "ram", "gpu"}

ASSUME CapacityAssumption ==
    /\ IsFiniteSet(Types)
    /\ Machine \in [Resource -> Nat]
    /\ Cost \in [Types -> [Resource -> Nat]]
    /\ LimitN \in [{Limiter[ty] : ty \in Types} -> Nat]
    /\ MaxHeadroom \in Nat \ {0}

-----------------------------------------------------------------------------
(* Limiters.                                                               *)

\* Max.Active(): every type that shares the limiter counts.
Active(act, ty) == SumFunctionOnSet(act, {o \in Types : Limiter[o] = Limiter[ty]})

AtMax(act, ty) ==
    /\ LimitN[Limiter[ty]] > 0
    /\ Active(act, ty) >= LimitN[Limiter[ty]]

\* What UnlimitedHeadroom stands for: a bound no resource headroom reaches.
UnlimitedHeadroom == MaxHeadroom + 1

LimiterHeadroom(act, ty) ==
    IF LimitN[Limiter[ty]] <= 0
    THEN UnlimitedHeadroom
    ELSE LimitN[Limiter[ty]] - Active(act, ty)

-----------------------------------------------------------------------------
(* Resources.                                                              *)

Used(act, r) == SumFunction([ty \in Types |-> act[ty] * Cost[ty][r]])

\* Mutant: what runs already is not subtracted.
ResourcesOfEmptyMachine(act) == Machine

\* RAM is unsigned and is clamped at zero; CPU and GPU may go negative.
ResourcesAvailable(act) ==
    [r \in Resource |->
        IF r = "ram" /\ Used(act, r) >= Machine[r]
        THEN 0
        ELSE Machine[r] - Used(act, r)]

\* The part of AssertMachineHasCapacity that returns an error.
OutOfCapacity(act, ty) ==
    \/ AtMax(act, ty)
    \/ \E r \in Resource : Cost[ty][r] > ResourcesAvailable(act)[r]

\* The number AssertMachineHasCapacity returns otherwise.
CapacityHeadroom(act, ty) ==
    Min({MaxHeadroom} \cup
        {ResourcesAvailable(act)[r] \div Cost[ty][r] :
            r \in {q \in Resource : Cost[ty][q] > 0}})

\* considerWork's LIMIT: the smaller of the capacity headroom, computed before
\* CanAccept, and the limiter's headroom, read after it.
MaxAcceptable(seen, act, ty) ==
    Min({CapacityHeadroom(seen, ty), LimiterHeadroom(act, ty)})

-----------------------------------------------------------------------------
(* What the arithmetic is for.                                             *)

\* The goroutines of act fit the machine and its limiters.
Fits(act) ==
    /\ \A r \in Resource : Used(act, r) <= Machine[r]
    /\ \A ty \in Types :
          LimitN[Limiter[ty]] > 0 => Active(act, ty) <= LimitN[Limiter[ty]]

=============================================================================

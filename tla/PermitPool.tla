---------------------------- MODULE PermitPool ----------------------------
(***************************************************************************)
(* What a Semaphore promises (Semaphore.ts:2-4): a number of permits, a     *)
(* bag of holders, and nobody is granted permits that are not there. The    *)
(* queue of waiters, the wake-up tasks and the interruption of a waiter are *)
(* invisible at this level; Semaphore.tla implements it.                    *)
(***************************************************************************)
EXTENDS Integers, FiniteSetsExt

CONSTANTS Fibers, Sizes

VARIABLES permits,   \* how many permits the semaphore owns
          held       \* the permits each fiber holds, 0 when it holds none

Used == MapThenSumSet(LAMBDA f : held[f], Fibers)

Init == /\ permits \in Sizes
        /\ held = [f \in Fibers |-> 0]

\* A fiber that holds nothing is granted n permits that nobody holds.
Acquire(f) == /\ held[f] = 0
              /\ \E n \in 0..permits : /\ Used + n =< permits
                                /\ held' = [held EXCEPT ![f] = n]
              /\ UNCHANGED permits

\* A fiber gives back all it holds: a release of a part does not exist.
Release(f) == held' = [held EXCEPT ![f] = 0] /\ UNCHANGED permits

\* Shrinking below what is held takes nothing away from a holder.
Resize == permits' \in Sizes /\ UNCHANGED held

Next == Resize \/ \E f \in Fibers : Acquire(f) \/ Release(f)

Spec == Init /\ [][Next]_<<permits, held>>
==========================================================================
